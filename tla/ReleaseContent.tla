--------------------------- MODULE ReleaseContent ---------------------------
(***************************************************************************)
(* The data of one run: from what the servers offer to a sealed snapshot,  *)
(* stage by stage, while the publisher goes on to other releases and       *)
(* stored files lose their content between stages.                         *)
(*                                                                         *)
(* A stage either commits its result or refuses (PipelineRun has what      *)
(* happens then).  Its execution, its validators and its audit are one     *)
(* step: the operators of the modules from AcquisitionPlan to              *)
(* SnapshotContent say what they compute and what they accept.  Only       *)
(* resolve takes a step for each of its requests.                          *)
(***************************************************************************)
EXTENDS SnapshotContent, Resolution

CONSTANTS
    GoodHistories,  \* those whose offers a client can install and read
    MaxRot          \* bound: the stored files that lose their content

ASSUME SampleAssumption ==
    /\ GoodHistories \subseteq Histories /\ MaxRot \in Nat
    \* no more than the resolver has attempts for
    /\ \A h \in GoodHistories : Len(h.offers) <= MaxRefreshes + 1

\* What the parsers of the answers and of the descriptors see to.
IsOffer(offer) ==
    /\ \A at \in DOMAIN offer.addresses : offer.addresses[at].kind = "metadata" =>
          LET meta == offer.addresses[at]
          IN  /\ IsSequence(meta.languages) /\ meta.languages # << >>
              /\ NoLang \notin Elements(meta.languages)
              /\ \A client \in DOMAIN meta.clients : IsSequence(meta.clients[client])
    /\ \A l \in DOMAIN offer.chains :
          /\ IsSequence(offer.chains[l].transitions)
          /\ \A t \in Elements(offer.chains[l].transitions) : IsSequence(t.files)
    /\ \A key \in DOMAIN offer.integrity : IsSequence(offer.integrity[key].torrents)

IsHistory(h) ==
    /\ IsSequence(h.request.languages) /\ NoLang \notin Elements(h.request.languages)
    /\ IsSequence(h.offers) /\ h.offers # << >>
    /\ \A offer \in Elements(h.offers) : IsOffer(offer)
    /\ \A d \in DOMAIN h.torrents :
          /\ IsSequence(h.torrents[d])
          /\ \A f \in Elements(h.torrents[d]) :
                IsPath(f.path) /\ IsFileBody(f.body) /\ IsFileAt(f.path, f.body)

ASSUME HistoriesAssumption == \A h \in Histories : IsHistory(h)

\* The publisher offers no other files under one name and the same versions of a
\* base part.  The resolver relies on it: _part_signature has versions, no torrents.
VersionsNameTheirFiles(h) ==
    LET Offered(chain, part) == {t \in Elements(chain.transitions) : t.part = part}
        Versions(transitions) == {<<t.from, t.to>> : t \in transitions}
    IN  \A one, other \in Elements(h.offers) :
          one.name = other.name /\ one.version = other.version =>
          \A l \in DOMAIN one.chains, m \in DOMAIN other.chains :
            \A part \in {"client", "sdcontent", "hdcontent"} :
              LET a == Offered(one.chains[l], part)
                  b == Offered(other.chains[m], part)
              IN  Versions(a) = Versions(b) => a = b

ASSUME PublisherAssumption == \A h \in Histories : VersionsNameTheirFiles(h)

VARIABLES
    stage,      \* the next stage
    out,        \* the committed results
    rot,        \* the stored files that have changed, and the entry hit
    refused     \* why the run has ended, if it has: the stage, or its tool

contentVars == <<stage, out, rot, refused>>
vars == <<resolveVars, stage, out, rot, refused>>

Stages == <<"resolve", "plan-acquisition", "download", "verify", "assemble-client", "index-vfs",
            "materialize-vfs", "plan-readable", "transform-readable", "decompile-actionscript",
            "assemble-readable", "generate-engine-stubs", "finalize-readable", "snapshot",
            "sealed">>

Tool == "tool"

NoSnapshot == [files |-> {}, actionscript |-> {}, stubs |-> {}, packages |-> {},
               conflicts |-> {}, tools |-> {}]

Nothing == [plan |-> << >>, downloads |-> << >>, units |-> {}, tree |-> {}, index |-> {},
            packages |-> {}, conflicts |-> {}, materialized |-> {}, readable |-> {},
            transformed |-> {}, libraries |-> {}, files |-> {}, stubs |-> {},
            snapshot |-> NoSnapshot]

\* integrity_check: it has nothing for a part that it does not know.
AnswerFor(offer, part) ==
    LET key == <<part.part, part.lang>>
    IN  IF key \in DOMAIN offer.integrity THEN offer.integrity[key]
        ELSE [torrents |-> << >>, seeds |-> << >>]

\* What the run goes on with: the pinned parts, and what the servers have for them.
\* The content of a torrent does not change, so that only planning has to do with
\* later offers.
TheRelease ==
    [parts |-> [p \in DOMAIN pinned.parts |->
                   LET part == pinned.parts[p]
                   IN  Answered(part, AnswerFor(Server, part))],
     torrents |-> history.torrents, client |-> Request.client]

Init ==
    /\ ResolveInit
    /\ stage = 1
    /\ out = Nothing
    /\ rot = {}
    /\ refused = ""

\* One stage: its result is committed, or it refuses.
Stage(name, accepted, result) ==
    /\ refused = "" /\ Stages[stage] = name
    /\ IF accepted
       THEN stage' = stage + 1 /\ out' = result /\ UNCHANGED refused
       ELSE refused' = name /\ UNCHANGED <<stage, out>>
    /\ UNCHANGED <<resolveVars, rot>>

-----------------------------------------------------------------------------
\* One request of the resolver, or the pin.
ResolveStep ==
    /\ refused = "" /\ Stages[stage] = "resolve"
    /\ Resolve
    /\ stage' = IF ask'.status = "pinned" THEN stage + 1 ELSE stage
    /\ refused' = CASE ask'.status = "refused" -> "resolve"
                    [] ask'.status = "failed"  -> Tool
                    [] OTHER                   -> ""
    /\ UNCHANGED <<out, rot>>

\* As long as the run still asks about releases.
PublisherMovesOn ==
    /\ refused = "" /\ Stages[stage] \in {"resolve", "plan-acquisition"}
    /\ Republish
    /\ UNCHANGED contentVars

PlanAcquisition ==
    Stage("plan-acquisition", IsPlannable(TheRelease), [out EXCEPT !.plan = Plan(TheRelease)])

Download ==
    Stage("download", IsDownloadable(TheRelease, out.plan),
          [out EXCEPT !.downloads = Downloads(TheRelease, out.plan)])

Verify ==
    Stage("verify", IsVerifiable(rot, out.downloads),
          [out EXCEPT !.units = Units(rot, out.downloads)])

AssembleClient ==
    Stage("assemble-client", IsAssemblable(rot, out.units),
          [out EXCEPT !.tree = TreeOf(rot, out.units)])

IndexVfs ==
    LET order == OrderOf(rot, out.tree, TheRelease.client)
    IN  Stage("index-vfs", IsIndexable(rot, out.tree, TheRelease.client),
              [out EXCEPT !.index = Index(rot, out.tree, TheRelease.client),
                          !.packages = PackagesManifest(out.tree, order),
                          !.conflicts = ConflictsManifest(Candidates(rot, out.tree, order))])

MaterializeVfs ==
    Stage("materialize-vfs", IsMaterializable(rot, out.index),
          [out EXCEPT !.materialized = Materialized(rot, out.index)])

PlanReadable ==
    Stage("plan-readable", IsReadable(rot, out.materialized),
          [out EXCEPT !.readable = ReadablePlan(rot, out.materialized)])

TransformReadable ==
    Stage("transform-readable", AreTransformable(rot, out.readable),
          [out EXCEPT !.transformed = Transformed(rot, out.readable)])

DecompileActionScript ==
    Stage("decompile-actionscript", AreDecompilable(rot, out.readable),
          [out EXCEPT !.libraries = LibrarySources(rot, out.readable)])

AssembleReadable ==
    LET files == AssembledReadable(out.readable, out.transformed)
    IN  Stage("assemble-readable",
              /\ HasAllOutputs(out.readable, out.transformed)
              /\ NamesAreDisjoint(files)
              /\ LayersAreSound(rot, files, out.libraries),
              [out EXCEPT !.files = files])

GenerateEngineStubs ==
    Stage("generate-engine-stubs", Binaries(out.tree) # {},
          [out EXCEPT !.stubs = Stubs(rot, out.tree)])

FinalizeReadable ==
    Stage("finalize-readable", IsFinalizable(rot, out.files, out.libraries, out.stubs), out)

Snapshot ==
    LET snapshot == Populated(out.files, out.tree, out.libraries, out.stubs, out.packages,
                              out.conflicts)
    IN  Stage("snapshot", IsSealable(rot, out.tree, snapshot),
              [out EXCEPT !.snapshot = snapshot])

\* A converter may reject its input, or fail, at any file.
ToolFails ==
    /\ refused = ""
    /\ \/ Stages[stage] = "transform-readable" /\ ConversionsOf(out.readable) # {}
       \/ Stages[stage] = "decompile-actionscript" /\ Libraries(out.readable) # {}
       \/ Stages[stage] = "generate-engine-stubs"
    /\ refused' = Tool
    /\ UNCHANGED <<resolveVars, stage, out, rot>>

-----------------------------------------------------------------------------
(* The disk.                                                               *)

\* What the committed stages have stored, as files of their own.
StoredFiles ==
    {[file |-> Blob(out.downloads[i].body), body |-> out.downloads[i].body] :
        i \in DOMAIN out.downloads}
    \cup {[file |-> Blob(u.body), body |-> u.body] : u \in out.units}
    \cup {[file |-> Blob(f.body), body |-> f.body] : f \in out.tree}
    \cup {[file |-> FileOf(m), body |-> m.body] : m \in out.materialized}
    \cup {[file |-> InodeOf(f), body |-> f.body] : f \in out.transformed}
    \cup {[file |-> InodeOfLibrary(f), body |-> f.body] : f \in out.libraries}
    \cup {[file |-> InodeOfStub(f), body |-> f.body] : f \in out.stubs}

\* A stored file changes, with its length and its mode as before.
Rot ==
    /\ refused = "" /\ Stages[stage] # "sealed"
    /\ Cardinality(rot) < MaxRot
    /\ \E s \in StoredFiles : \E e \in Alterations(s.body) :
          /\ \A r \in rot : r.file # s.file
          /\ Altered(s.body, e) # s.body
          /\ rot' = rot \cup {[file |-> s.file, entry |-> e]}
    /\ UNCHANGED <<resolveVars, stage, out, refused>>

Next ==
    \/ ResolveStep \/ PublisherMovesOn
    \/ PlanAcquisition \/ Download \/ Verify \/ AssembleClient \/ IndexVfs \/ MaterializeVfs
    \/ PlanReadable \/ TransformReadable \/ DecompileActionScript \/ AssembleReadable
    \/ GenerateEngineStubs \/ FinalizeReadable \/ Snapshot
    \/ ToolFails \/ Rot

Spec == Init /\ [][Next]_vars

-----------------------------------------------------------------------------
(* What the client reads, with no word of the stages.                      *)

IsSealed == Stages[stage] = "sealed"

\* An archive of the patch chain, whole again if it is split.
Whole(body) == IF body.fmt = "piece" THEN body.items[1].whole ELSE body

\* The files of a torrent that the patch chain declares.
Delivered(transition) ==
    {f \in Elements(PhysicalFiles(TheRelease, transition)) :
        \E d \in Elements(transition.files) : d.path = f.path /\ d.suffix = f.suffix}

\* The files of the installed client.
PartFiles(part) ==
    IF IsReference(part)
    THEN LET files == PhysicalFiles(TheRelease, part.torrents[1])
         IN  {[lang |-> part.lang, path |-> files[i].path, body |-> files[i].body] :
                i \in DOMAIN files}
    ELSE UNION {UNION {{[lang |-> part.lang, path |-> e.path, body |-> e.body] :
                          e \in Installed(Whole(f.body))} : f \in Delivered(Chain(part)[t])} :
                t \in DOMAIN Chain(part)}

ClientFiles == UNION {PartFiles(TheRelease.parts[p]) : p \in DOMAIN TheRelease.parts}

Overlay(over, under) ==
    [k \in DOMAIN over \cup DOMAIN under |-> IF k \in DOMAIN over THEN over[k] ELSE under[k]]

Named(pairs) ==
    [k \in {Fold(p[1]) : p \in pairs} |-> CHOOSE p \in pairs : Fold(p[1]) = k]

\* A layer as the client mounts it: the loose files, and over them the packages,
\* from the last of paths.xml to the first.
Mounted(lang) ==
    LET layer == {f \in ClientFiles : f.lang = lang}
        loose == {<<[f.path EXCEPT !.top = "vfs"], f.body>> : f \in {g \in layer : IsLoose(g)}}
        order == Order((CHOOSE f \in ClientFiles : f.lang = NoLang /\ f.path = PathsXml).body,
                       TheRelease.client)
        Package(n) == UNION {{<<f.body.items[i].path, f.body.items[i].body>> :
                                i \in DOMAIN f.body.items} :
                             f \in {g \in layer : g.path = order[n]}}
        mount[n \in 1..(Len(order) + 1)] ==
            IF n = Len(order) + 1 THEN Named(loose) ELSE Overlay(Named(Package(n)), mount[n + 1])
    IN  mount[1]

Languages == {TheRelease.parts[p].lang : p \in DOMAIN TheRelease.parts} \cup {NoLang}

InReadableForm(path, body) ==
    LET kind == Kind(path, body)
    IN  <<[OutputPath(path, kind) EXCEPT !.top = "res"],
          IF kind = Passthrough THEN body ELSE Converted(kind, body)>>

WhatTheClientReads ==
    (UNION {{<<lang, InReadableForm(Mounted(lang)[k][1], Mounted(lang)[k][2])>> :
               k \in DOMAIN Mounted(lang)} : lang \in Languages})
    \cup {<<f.lang, <<f.path, f.body>>>> : f \in {g \in ClientFiles : IsIncluded(g.path)}}

LibrariesOfTheClient ==
    {<<Bundle(k), Scripts(Mounted(NoLang)[k][2])>> :
        k \in {l \in DOMAIN Mounted(NoLang) : IsLibrary(l)}}

-----------------------------------------------------------------------------
(* What stands in the way of a snapshot of a client.                       *)

\* What the client finds under the names of a layer: paths and contents.
FilesOfLayer(lang) == {Mounted(lang)[k] : k \in DOMAIN Mounted(lang)}

KindOf(file) == Kind(file[1], file[2])
OutputOf(file) == Fold(OutputPath(file[1], KindOf(file)))

\* No load order, or one that the client cannot follow.
HasNoOrder ==
    ~\E f \in ClientFiles :
        f.lang = NoLang /\ f.path = PathsXml /\ IsOrder(f.body, TheRelease.client)

\* A package that is not in the load order or is no ZIP file, or an entry that leaves
\* the VFS, is a link, or has a name that another entry has as well.
HasUnmountablePackage ==
    \E f \in ClientFiles : IsPackage(f) /\
        \/ \A p \in ClientFiles : p.lang = NoLang /\ p.path = PathsXml =>
              f.path \notin Elements(Order(p.body, TheRelease.client))
        \/ f.body.fmt # "zip"
        \/ \E i \in DOMAIN f.body.items :
              \/ ~IsSafe(f.body.items[i].path) \/ f.body.items[i].body.fmt = "link"
              \/ \E j \in DOMAIN f.body.items :
                    j # i /\ Fold(f.body.items[j].path) = Fold(f.body.items[i].path)

HasBrokenPackage == \E f \in ClientFiles : IsPackage(f) /\ ~EntriesAreIntact(f.body)

\* Unknown XML, two files of one output name, a library of a locale, or two
\* libraries of one name.
HasNoReadableForm ==
    \E lang \in Languages : \E x \in FilesOfLayer(lang) :
        \/ ~IsKnownXml(x[1], x[2])
        \/ \E y \in FilesOfLayer(lang) : y # x /\ OutputOf(y) = OutputOf(x)
        \/ IsLibrary(x[1]) /\ lang # NoLang
        \/ /\ IsLibrary(x[1])
           /\ \E y \in FilesOfLayer(lang) :
                 y # x /\ IsLibrary(y[1]) /\ Bundle(y[1]) = Bundle(x[1])

\* A file that is not what its name says.
HasForeignFormat ==
    \E lang \in Languages : \E x \in FilesOfLayer(lang) :
        KindOf(x) # Passthrough /\ x[2].fmt # Formats[KindOf(x)]
HasForeignLibrary ==
    \E x \in FilesOfLayer(NoLang) : IsLibrary(x[1]) /\ x[2].fmt # Formats["swc"]

HasNoBinary == NativeFiles(ClientFiles) = {}

HasPackedSettings ==
    \E f \in ClientFiles : IsIncluded(f.path) /\ IsXml(f.path) /\ f.body.fmt = "packed"

-----------------------------------------------------------------------------
(* Properties.                                                             *)

\* A snapshot shows each file that the client reads, of each layer and under each
\* name whatever its case, from the first package that has it or else the loose
\* file, converted to its readable form, and the included files of the client;
\* and nothing else.  This is so whatever has happened to stored files.
SnapshotIsWhatTheClientReads ==
    IsSealed =>
        /\ {<<e.lang, <<e.path, e.body>>>> : e \in out.snapshot.files} = WhatTheClientReads
        /\ {<<e.path.dir, e.body>> : e \in out.snapshot.actionscript} = LibrariesOfTheClient

\* The source that the manifest names for a published file has had these bytes:
\* the package that the release delivers under this path, at this entry, or the
\* loose file; and a path that more than one file offers is a reported conflict,
\* whose winner is the published one.
ProvenanceIsTrue ==
    \A e \in out.snapshot.files :
        /\ \E f \in ClientFiles :
              /\ f.lang = e.source.lang /\ f.path = e.source.file /\ f.body = e.source.digest
              /\ IF e.source.kind = "loose-file"
                 THEN e.source.bytes = f.body
                 ELSE \E i \in DOMAIN f.body.items :
                         /\ f.body.items[i].path = e.source.entry
                         /\ f.body.items[i].body = e.source.bytes
        /\ \A c \in out.snapshot.conflicts :
              /\ c.key[1] = e.lang /\ e.source.kind = "game-package"
              /\ c.key[2] = Fold(e.source.entry)
              => \A w \in c.winners : w.source = e.source.file

IsOfferedBy(offer, language, part) ==
    {t \in Elements(offer.chains[language].transitions) : t.part = part.part}
        = Elements(part.transitions)

\* What is pinned is one release, although each language is asked for by itself
\* while the publisher goes on: the version vector has one name, the metadata and
\* the base parts of one offer, and locales that were offered beside the same base,
\* one for each language that was asked for.
PinnedIsOneRelease ==
    Stages[stage] # "resolve" =>
        LET locales == {p \in Elements(pinned.parts) : p.lang # NoLang}
            offers == {history.offers[i] : i \in 1..now}
        IN  /\ {p.lang : p \in locales} \in
                  IF Request.languages # All THEN {Elements(Request.languages)}
                  ELSE UNION {{Elements(offer.addresses[at].languages) :
                                 at \in {a \in DOMAIN offer.addresses :
                                          /\ offer.addresses[a].kind = "metadata"
                                          /\ offer.addresses[a].version = pinned.meta}} :
                              offer \in offers}
            /\ \A locale \in locales : \E offer \in offers :
                  /\ offer.name = pinned.name /\ offer.version = pinned.meta
                  /\ locale.lang \in DOMAIN offer.chains
                  /\ \A p \in (Elements(pinned.parts) \ locales) \cup {locale} :
                        IsOfferedBy(offer, locale.lang, p)

\* The plan follows the pin, although the servers may have gone on when it is made:
\* each torrent is one that was offered as this part in the pinned version, or that
\* of a pinned transition, and the last transition reaches that version.
PlanIsOfThePinned ==
    \A i \in DOMAIN out.plan :
        LET artifact == out.plan[i]
            part == CHOOSE p \in Elements(pinned.parts) :
                        p.part = artifact.part /\ p.lang = artifact.lang
        IN  IF artifact.role = "client-file"
            THEN \E o \in 1..now : \E t \in Elements(AnswerFor(history.offers[o], part).torrents) :
                    /\ t.part = part.part /\ t.version = part.version
                    /\ t.descriptor = artifact.descriptor
            ELSE /\ \E t \in Elements(part.transitions) :
                       /\ t.descriptor = artifact.descriptor /\ t.to = artifact.transition.to
                 /\ \E j \in DOMAIN out.plan :
                       /\ out.plan[j].part = part.part /\ out.plan[j].lang = part.lang
                       /\ out.plan[j].transition.to = part.version

\* As long as no stored file changes, the stages from index-vfs on refuse a
\* run for what is wrong with the client itself, as the client reads it, and two of
\* them, which only check again what others have made, never do.
RefusedForAReason ==
    rot = {} =>
        /\ refused = "index-vfs"              => HasNoOrder \/ HasUnmountablePackage
        /\ refused = "materialize-vfs"        => HasBrokenPackage
        /\ refused = "plan-readable"          => HasNoReadableForm
        /\ refused = "transform-readable"     => HasForeignFormat
        /\ refused = "decompile-actionscript" => HasForeignLibrary
        /\ refused = "generate-engine-stubs"  => HasNoBinary
        /\ refused = "snapshot"               => HasPackedSettings
        /\ refused \notin {"assemble-readable", "finalize-readable"}

\* A run of a release that a client can install and read is only refused for a
\* stored file that has changed, or by a converter.
GoodIsNotRefused ==
    history \in GoodHistories /\ rot = {} => refused \in {"", Tool}

\* When a snapshot is sealed, its files hold the bytes that its manifests name,
\* although the files are links to what earlier stages have stored.
SealedBytesAreAsDeclared ==
    [][IsSealed' => \A e \in out'.snapshot.files \cup out'.snapshot.actionscript
                             \cup out'.snapshot.stubs : Read(rot', e.inode, e.body) = e.body]_vars

=============================================================================

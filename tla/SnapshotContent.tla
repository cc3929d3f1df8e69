--------------------------- MODULE SnapshotContent ---------------------------
(***************************************************************************)
(* snapshot.py: what a snapshot holds and says, and what its verifier      *)
(* accepts.  How a snapshot comes to be published is in SnapshotSeal.      *)
(***************************************************************************)
EXTENDS Readable

\* SourceTreePolicy.
RootFiles == {<<"Licenses", "txt">>, <<"loc_version", "xml">>, <<"paths", "xml">>,
              <<"version", "xml">>}
MountedDirectories == {"mods", "res_mods"}
MountedSuffixes == {"cfg", "ini", "json", "md", "txt", "xml", "yaml", "yml"}

\* _include_client_tree_file.
IsIncluded(path) ==
    \/ path.top = "root" /\ <<path.stem, path.ext>> \in RootFiles
    \/ path.top \in MountedDirectories /\ path.ext \in MountedSuffixes

-----------------------------------------------------------------------------
(* The manifests.                                                          *)

\* Where a file comes from: an entry of a package, or a loose file.
FromCandidate(m) ==
    LET c == m.source
    IN  [kind |-> IF c.entry = 0 THEN "loose-file" ELSE "game-package",
         part |-> c.part, version |-> c.version, lang |-> c.lang, file |-> c.source,
         digest |-> c.archive, entry |-> c.path, bytes |-> m.body]

ManifestEntry(lang, path, body, source, kind, inode) ==
    [lang |-> lang, path |-> path, body |-> body, source |-> source,
     kind |-> kind, from |-> source.bytes, inode |-> inode]

\* _file_manifest_entry, under the mount point res/.
ReadableEntry(f) ==
    ManifestEntry(f.lang, [f.path EXCEPT !.top = "res"], f.body, FromCandidate(f.source),
                  f.kind, InodeOf(f))

\* _client_tree_manifest_entry.
ClientEntry(f) ==
    ManifestEntry(f.lang, f.path, f.body,
                  [kind |-> "loose-file", part |-> f.part, version |-> f.version, lang |-> f.lang,
                   file |-> f.path, digest |-> f.body, entry |-> f.path, bytes |-> f.body],
                  Passthrough, Blob(f.body))

\* _source_tree_entries.
FilesManifest(files, tree) ==
    {ReadableEntry(f) : f \in files} \cup {ClientEntry(f) : f \in {g \in tree : IsIncluded(g.path)}}

\* _actionscript_manifest_entry.
ActionScriptManifest(libraries) ==
    {[path |-> f.path, body |-> f.body, source |-> FromCandidate(f.source),
      swc |-> [f.source.path EXCEPT !.top = "res"], from |-> f.source.body,
      inode |-> InodeOfLibrary(f)] : f \in libraries}

StubsManifest(stubs) == {[path |-> f.path, body |-> f.body, inode |-> InodeOfStub(f)] : f \in stubs}

\* The packages of the index, and the paths that more than one file offers.
PackagesManifest(tree, order) ==
    {[lang |-> f.lang, path |-> f.path, digest |-> f.body,
      precedence |-> Position(order, f.path)] : f \in {g \in tree : IsPackage(g)}}

ConflictsManifest(candidates) ==
    {[key |-> key, candidates |-> Under(candidates, key), winners |-> Best(candidates, key)] :
        key \in {k \in Keys(candidates) : Cardinality(Under(candidates, k)) > 1}}

\* The tools that finalize-readable lists, by the conversion they make.
Tools(files, libraries) ==
    {f.kind : f \in files} \cup (IF libraries = {} THEN {} ELSE {"swc"})

-----------------------------------------------------------------------------
(* SnapshotAssembler.build.                                                *)

\* _client_tree_source_path hashes; the other sources are only measured.
AreUnchanged(rot, tree) ==
    \A f \in tree : IsIncluded(f.path) => Sound(rot, Blob(f.body), f.body)

\* No two published names of a layer differ in case only.
NamesAreDisjoint(entries) ==
    \A d, e \in entries : d # e => d.lang # e.lang \/ Fold(d.path) # Fold(e.path)

Populated(files, tree, libraries, stubs, packages, conflicts) ==
    [files |-> FilesManifest(files, tree), actionscript |-> ActionScriptManifest(libraries),
     stubs |-> StubsManifest(stubs), packages |-> packages, conflicts |-> conflicts,
     tools |-> Tools(files, libraries)]

-----------------------------------------------------------------------------
(* SnapshotVerifier.                                                       *)

\* A source in a package is one of the packages manifest.
IsKnownSource(snapshot, source, lang) ==
    IF source.kind = "game-package"
    THEN \E p \in snapshot.packages : /\ p.lang = lang /\ p.path = source.file
                                      /\ p.digest = source.digest
    ELSE source.digest = source.bytes

\* _verify_files_manifest.
IsFilesManifest(snapshot) ==
    \A e \in snapshot.files :
        /\ e.source.lang = e.lang
        /\ e.from = e.source.bytes
        /\ e.kind \in {Passthrough} \cup snapshot.tools
        /\ IsKnownSource(snapshot, e.source, e.source.lang)
        /\ e.path.ext \notin {"pyc", "mo"}

\* _verify_actionscript_manifest: the library is published next to its sources.
IsActionScriptManifest(snapshot) ==
    \A e \in snapshot.actionscript :
        /\ "swc" \in snapshot.tools
        /\ e.from = e.source.bytes
        /\ IsKnownSource(snapshot, e.source, NoLang)
        /\ \E f \in snapshot.files : /\ f.lang = NoLang /\ f.path = e.swc
                                     /\ f.body = e.source.bytes

\* Mutant: the files of the payload are measured, and not hashed.
IsPayloadListed(rot, entries) ==
    \A e \in entries : Read(rot, e.inode, e.body).fmt = e.body.fmt

\* _accept_hash_results.
IsPayload(rot, entries) == \A e \in entries : Sound(rot, e.inode, e.body)

\* _verify_payload: a packed XML file is refused wherever it comes from.
IsReadablePayload(snapshot) ==
    \A e \in snapshot.files : IsXml(e.path) => e.body.fmt # "packed"

IsVerified(rot, snapshot) ==
    /\ IsFilesManifest(snapshot)
    /\ IsActionScriptManifest(snapshot)
    /\ IsReadablePayload(snapshot)
    /\ IsPayload(rot, snapshot.files)
    /\ IsPayload(rot, snapshot.actionscript)
    /\ IsPayload(rot, snapshot.stubs)

\* SnapshotAssembler.build, up to the publication.
IsSealable(rot, tree, snapshot) ==
    /\ AreUnchanged(rot, tree)
    /\ NamesAreDisjoint(snapshot.files)
    /\ IsVerified(rot, snapshot)

=============================================================================

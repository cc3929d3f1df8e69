-------------------------------- MODULE Vfs --------------------------------
(***************************************************************************)
(* vfs.py: which file the client reads under each path, and the tree of    *)
(* these files.  A path of the VFS has the top "vfs".                      *)
(***************************************************************************)
EXTENDS ClientTree

PathsXml == Path("root", "", "paths", "xml")
IsPackage(file) == file.path.ext = "pkg"
IsLoose(file) == file.path.top = "res" /\ ~IsPackage(file)

\* _parse_package_order: the packages for the selected type of client.
Order(body, client) ==
    LET selected == Where(body.items, {i \in Elements(body.items) : i.types = {} \/ client \in i.types})
    IN  [i \in DOMAIN selected |-> selected[i].path]

IsOrder(body, client) ==
    /\ body.fmt = "order"
    /\ Order(body, client) # << >>
    /\ ~HasDuplicates(Order(body, client))
    /\ \A i \in DOMAIN Order(body, client) :
          LET path == Order(body, client)[i]
          IN  path.top = "res" /\ path.dir = "packages" /\ path.ext = "pkg"

-----------------------------------------------------------------------------
(* The index.                                                              *)

PathsFile(tree) == CHOOSE f \in tree : f.lang = NoLang /\ f.path = PathsXml

Opened(rot, file) == Read(rot, Blob(file.body), file.body)

OrderOf(rot, tree, client) == Order(Opened(rot, PathsFile(tree)), client)

Position(order, path) == CHOOSE i \in DOMAIN order : order[i] = path

Candidate(file, path, precedence, entry, body) ==
    [lang |-> file.lang, path |-> path, part |-> file.part, version |-> file.version,
     source |-> file.path, archive |-> file.body, precedence |-> precedence,
     entry |-> entry, crc |-> body]

\* _index_package: one candidate for each entry.
PackageCandidates(rot, file, precedence) ==
    LET items == Opened(rot, file).items
    IN  {Candidate(file, items[i].path, precedence, i, items[i].crc) : i \in DOMAIN items}

\* A loose file under res/ comes after all packages.
LooseCandidate(file, precedence) ==
    Candidate(file, [file.path EXCEPT !.top = "vfs"], precedence, 0, file.body.id)

Candidates(rot, tree, order) ==
    (UNION {PackageCandidates(rot, f, Position(order, f.path)) : f \in {g \in tree : IsPackage(g)}})
    \cup {LooseCandidate(f, Len(order) + 1) : f \in {g \in tree : IsLoose(g)}}

Key(candidate) == <<candidate.lang, Fold(candidate.path)>>
Keys(candidates) == {Key(c) : c \in candidates}
Under(candidates, key) == {c \in candidates : Key(c) = key}

\* Mutant: the last package of paths.xml wins.
LastListed(candidates, key) ==
    {c \in Under(candidates, key) :
        \A d \in Under(candidates, key) : d.precedence <= c.precedence}

\* _resolve_candidates: the first precedence wins.
Best(candidates, key) ==
    {c \in Under(candidates, key) :
        \A d \in Under(candidates, key) : c.precedence <= d.precedence}

\* VfsIndexer.index, and the audit of its result.
Index(rot, tree, client) ==
    LET candidates == Candidates(rot, tree, OrderOf(rot, tree, client))
    IN  UNION {Best(candidates, key) : key \in Keys(candidates)}

IsIndexable(rot, tree, client) ==
    /\ \E f \in tree : f.lang = NoLang /\ f.path = PathsXml
    /\ IsOrder(Opened(rot, PathsFile(tree)), client)
    /\ \A f \in tree : IsPackage(f) =>
          /\ \E i \in DOMAIN OrderOf(rot, tree, client) : OrderOf(rot, tree, client)[i] = f.path
          /\ Opened(rot, f).fmt = "zip"
          /\ \A i \in DOMAIN Opened(rot, f).items :
                /\ IsSafe(Opened(rot, f).items[i].path)
                /\ Opened(rot, f).items[i].body.fmt # "link"
    /\ LET candidates == Candidates(rot, tree, OrderOf(rot, tree, client))
       IN  \A key \in Keys(candidates) : \A c, d \in Best(candidates, key) : c = d
    /\ BlobsAreSound(rot, {f.body : f \in {g \in tree : IsPackage(g) \/ g.path = PathsXml}})

-----------------------------------------------------------------------------
(* The materialised tree.                                                  *)

MaterializedFile(winner, body) ==
    [lang |-> winner.lang, path |-> winner.path, body |-> body, source |-> winner]

\* A loose file is a link to its blob, an entry of a package a file of its own.
FileOf(m) ==
    IF m.source.entry = 0
    THEN Blob(m.source.archive)
    ELSE Stored("materialized", m.lang, m.path)

\* A winner's entry in its package, as it is read now.
EntryOf(rot, winner) == Read(rot, Blob(winner.archive), winner.archive).items[winner.entry]

\* VfsMaterializer.materialize.
Materialized(rot, index) ==
    {MaterializedFile(w, IF w.entry = 0 THEN w.archive ELSE EntryOf(rot, w).body) : w \in index}

\* Mutant: an entry is copied whatever comes out of it.
EntryIsAsListed(rot, winner) == EntryOf(rot, winner).crc = winner.crc

\* _materialize_package: the directory is as indexed, and the entry as listed.
EntryIsAsIndexed(rot, winner) ==
    /\ EntryOf(rot, winner).crc = winner.crc
    /\ EntryOf(rot, winner).body.id = winner.crc

\* _audit_materialized hashes what has been written; new files are as written.
IsMaterializable(rot, index) ==
    \A w \in index : IF w.entry = 0
                     THEN Sound(rot, Blob(w.archive), w.archive)
                     ELSE EntryIsAsIndexed(rot, w)

=============================================================================

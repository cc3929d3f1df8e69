---------------------------- MODULE Verification ----------------------------
(***************************************************************************)
(* delivery.py: the downloaded artifacts, ArtifactVerifier, and the        *)
(* assembly of split archives.                                             *)
(***************************************************************************)
EXTENDS AcquisitionPlan

(* The download, as ArtifactDownload shows it: what it accepts is one       *)
(* content, the declared one if a hash is declared.                         *)

ContentOf(release, artifact) ==
    LET files == release.torrents[artifact.descriptor]
    IN  files[CHOOSE i \in DOMAIN files : /\ files[i].path = artifact.path
                                          /\ files[i].suffix = artifact.suffix].body

Downloads(release, plan) ==
    [i \in DOMAIN plan |-> [artifact |-> plan[i], body |-> ContentOf(release, plan[i])]]

IsDownloadable(release, plan) ==
    \A i \in DOMAIN plan :
        /\ plan[i].sha1 \in {"", ContentOf(release, plan[i]).id}
        /\ \E p \in DOMAIN release.parts : /\ release.parts[p].part = plan[i].part
                                           /\ release.parts[p].seeds # << >>

\* Every recorded content is still what its blob holds (the audits).
BlobsAreSound(rot, bodies) == \A body \in bodies : Sound(rot, Blob(body), body)

-----------------------------------------------------------------------------
(* One artifact.                                                           *)

\* safe_archive_name.
IsSafe(path) == path.top # ".."

\* testzip and `7z t' compare every entry with its CRC.
EntriesAreIntact(body) ==
    \A i \in DOMAIN body.items : body.items[i].body.id = body.items[i].crc

\* _verify_zip, _verify_seven_zip; only the ZIP reader sees links here.
IsSoundArchive(body) ==
    /\ body.fmt \in Archives
    /\ \A i \in DOMAIN body.items :
          /\ IsSafe(body.items[i].path)
          /\ body.fmt = "zip" => body.items[i].body.fmt # "link"
    /\ EntriesAreIntact(body)

\* _verify_one: a package or a bundle has to be an archive.
IsAcceptable(artifact, body) ==
    \/ IsSoundArchive(body)
    \/ body.fmt \notin Archives /\ artifact.path.ext # "pkg" /\ artifact.role = "client-file"

\* _assemble_split: the pieces in the order of their numbers.
Groups(plan) == {plan[i].segment.group : i \in DOMAIN plan} \ {<< >>}
InGroup(downloads, group) == {i \in DOMAIN downloads : downloads[i].artifact.segment.group = group}

IsCompleteGroup(downloads, group) ==
    LET members == InGroup(downloads, group)
        segments == {downloads[i].artifact.segment : i \in members}
    IN  /\ {s.index : s \in segments} = 1..Cardinality(members)
        /\ \A s \in segments : s.count = Cardinality(members)

Assembled(rot, downloads, group) ==
    LET members == InGroup(downloads, group)
        Numbered(n) == downloads[CHOOSE i \in members :
                                    downloads[i].artifact.segment.index = n].body
    IN  Joined([n \in 1..Cardinality(members) |-> Read(rot, Blob(Numbered(n)), Numbered(n))])

\* What the client tree installs: an artifact, or the group of a split one.
Unit(artifact, name, body) == [artifact |-> artifact, name |-> name, body |-> body]

Units(rot, downloads) ==
    {Unit(downloads[i].artifact, <<downloads[i].artifact>>, downloads[i].body) :
        i \in InGroup(downloads, << >>)}
    \cup
    {Unit((CHOOSE d \in {downloads[i] : i \in InGroup(downloads, group)} :
                d.artifact.segment.index = 1).artifact,
          group, Assembled(rot, downloads, group)) :
        group \in Groups([i \in DOMAIN downloads |-> downloads[i].artifact])}

\* ArtifactVerifier.verify, then the audit of its result, with what `rot' has
\* made of the blobs.
IsVerifiable(rot, downloads) ==
    /\ \A group \in Groups([i \in DOMAIN downloads |-> downloads[i].artifact]) :
          IsCompleteGroup(downloads, group)
    /\ \A unit \in Units(rot, downloads) :
          IsAcceptable(unit.artifact, Read(rot, Blob(unit.body), unit.body))
    /\ BlobsAreSound(rot, {downloads[i].body : i \in DOMAIN downloads})

=============================================================================

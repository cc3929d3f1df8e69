------------------------------ MODULE Content ------------------------------
(***************************************************************************)
(* Paths, file contents and stored files, as the stages from the download  *)
(* to the snapshot see them.                                               *)
(*                                                                         *)
(* A path is cut where the code looks at it.  A content is what the code   *)
(* tells apart: a format, an identity and, in a container, its entries.    *)
(* Digests are contents, as SHA-256 has no collisions that matter.         *)
(***************************************************************************)
EXTENDS Integers, Sequences, FiniteSets, FiniteSetsExt

Elements(seq) == {seq[i] : i \in DOMAIN seq}

\* The elements of a sequence that are in S, in their order.
Where(seq, S) ==
    LET upto[n \in 0..Len(seq)] ==
            IF n = 0 THEN << >>
            ELSE IF seq[n] \in S THEN Append(upto[n - 1], seq[n]) ELSE upto[n - 1]
    IN  upto[Len(seq)]

NoLang == ""    \* the base layer; any other language is a locale layer

\* upper: written in another case than the rest of the release writes it.
Path(top, dir, stem, ext) ==
    [top |-> top, dir |-> dir, stem |-> stem, ext |-> ext, upper |-> FALSE]
Upper(path) == [path EXCEPT !.upper = TRUE]

\* str.casefold of a path.
Fold(path) == [path EXCEPT !.upper = FALSE]

\* via: the conversion that has made it; "" for what the game ships.
Body(fmt, id, items) == [fmt |-> fmt, id |-> id, items |-> items, via |-> ""]

\* An entry of an archive, and the CRC that its directory has for it.
Packed(path, body) == [path |-> path, body |-> body, crc |-> body.id]

\* The digit suffix of a split archive: piece i of n.
Piece(whole, i, n) == Body("piece", whole.id, <<[whole |-> whole, i |-> i, n |-> n]>>)

\* What the concatenation of `pieces' is.
Joined(pieces) ==
    LET first == pieces[1].items[1]
    IN  IF \A i \in DOMAIN pieces :
              /\ pieces[i].fmt = "piece" /\ pieces[i].id = first.whole.id
              /\ pieces[i].items[1].whole = first.whole
              /\ pieces[i].items[1].i = i /\ first.n = Len(pieces)
        THEN first.whole
        ELSE Body("noise", "noise", << >>)

-----------------------------------------------------------------------------
(* Stored files.  A blob is stored under its digest; the client tree, the  *)
(* loose files of the VFS, the readable tree and the snapshot are hard     *)
(* links, and share its fate.                                              *)

Blob(body) == [at |-> "blob", lang |-> NoLang, name |-> body]
Stored(at, lang, path) == [at |-> at, lang |-> lang, name |-> path]

\* What a change puts in the place of an identity or a CRC: no release has it.
Other == "rot"

Reversed(items) == [i \in DOMAIN items |-> items[Len(items) + 1 - i]]

\* A file whose bytes have changed, its length and mode as before: entry e of
\* an archive, its directory (e = 0), the order in paths.xml, or any byte.
Altered(body, e) ==
    CASE e # 0 -> [body EXCEPT !.items = [body.items EXCEPT ![e] =
                     [body.items[e] EXCEPT !.body = [body.items[e].body EXCEPT !.id = Other]]]]
      [] e = 0 /\ body.fmt = "zip"   -> [body EXCEPT !.items = [i \in DOMAIN body.items |->
                                            [body.items[i] EXCEPT !.crc = Other]]]
      [] e = 0 /\ body.fmt = "order" -> [body EXCEPT !.items = Reversed(body.items)]
      [] OTHER                       -> [body EXCEPT !.id = Other]

Alterations(body) == IF body.fmt = "zip" THEN 0..Len(body.items) ELSE {0}

\* The bytes of the file that was stored as `body', when `rot' has happened.
Read(rot, file, body) ==
    IF \E r \in rot : r.file = file
    THEN Altered(body, (CHOOSE r \in rot : r.file = file).entry)
    ELSE body

Sound(rot, file, body) == Read(rot, file, body) = body

-----------------------------------------------------------------------------
(* What may be delivered: a file or an archive, an archive of those, or a  *)
(* piece of one.                                                           *)

Archives == {"zip", "7z"}

IsSequence(seq) == seq \in Seq(Elements(seq))

IsPath(path) ==
    /\ path = [top |-> path.top, dir |-> path.dir, stem |-> path.stem, ext |-> path.ext,
               upper |-> path.upper]
    /\ path.stem # ""

IsBody(body) ==
    /\ body = [fmt |-> body.fmt, id |-> body.id, items |-> body.items, via |-> body.via]
    /\ body.id # Other /\ IsSequence(body.items)

IsEntry(entry) ==
    /\ entry = [path |-> entry.path, body |-> entry.body, crc |-> entry.crc]
    /\ IsPath(entry.path) /\ IsBody(entry.body) /\ entry.crc # Other

IsPackageBody(body) ==
    /\ IsBody(body)
    /\ body.fmt \in Archives => \A i \in DOMAIN body.items : IsEntry(body.items[i])

\* The entries of a package have paths of the VFS, or such as leave it.
IsFileAt(path, body) ==
    path.ext = "pkg" /\ body.fmt \in Archives =>
        \A i \in DOMAIN body.items : body.items[i].path.top \in {"vfs", ".."}

IsBundleBody(body) ==
    /\ IsPackageBody(body)
    /\ body.fmt \in Archives =>
          \A i \in DOMAIN body.items : /\ IsPackageBody(body.items[i].body)
                                       /\ IsFileAt(body.items[i].path, body.items[i].body)

IsFileBody(body) ==
    /\ IsBundleBody(body)
    /\ body.fmt = "piece" => IsBundleBody(body.items[1].whole)

=============================================================================

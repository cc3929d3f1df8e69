---------------------------- MODULE SnapshotSeal ----------------------------
(***************************************************************************)
(* The snapshot stage (snapshot.py): SnapshotAssembler.build populates and *)
(* seals the directory <snapshot_id>.partial, verifies it as an            *)
(* independent reader would, and renames it to <snapshot_id>.              *)
(*                                                                         *)
(* The id depends on the release, the policies and the tools only, so all  *)
(* runs of one release share both names.  A directory is therefore not its *)
(* name here: a command that removes a tree keeps it open and goes on in   *)
(* it wherever it has been moved to, while every other step goes by name.  *)
(***************************************************************************)
EXTENDS Naturals, FiniteSets

CONSTANTS
    Run,        \* the runs of one release
    File,       \* the files of the payload
    Nobody,     \* not written
    NoDir,      \* no such directory
    MaxFaults   \* bound on kills and I/O errors

ASSUME RunAssumption   == Run # {} /\ IsFiniteSet(Run) /\ Nobody \notin Run
ASSUME FileAssumption  == File # {} /\ {"layout", "manifests", "descriptor", "ready"} \cap File = {}
ASSUME FaultAssumption == MaxFaults \in Nat
ASSUME NoDirAssumption == NoDir \notin Nat

\* A directory at each of the two names, and one that each command removes.
Dir == 1..(Cardinality(Run) + 2)
\* "layout" is the fixed directories, "manifests" the five of them.
Entry == File \cup {"layout", "manifests"}
Writing == {"layout", "files", "descriptor", "ready", "seal"}
PC == {"off", "look", "clear", "remove", "mkdir"} \cup Writing \cup
      {"head", "payload", "publish", "report", "done"}

VARIABLES
    dir,      \* the directories: their entries, who wrote snapshot.json,
              \*   whose digest READY holds, are they read-only?
    final,    \* what <snapshot_id> names
    partial,  \* what <snapshot_id>.partial names
    cmd,      \* the command that works on each run
    told,     \* the writer of the descriptor that the run's result names
    overlap,  \* have two commands ever been at work at once?  (history)
    faults    \* faults so far

store == <<dir, final, partial>>
vars == <<store, cmd, told, overlap, faults>>

Empty == [has |-> {}, descriptor |-> Nobody, ready |-> Nobody, sealed |-> FALSE]
\* todo: the files still to be linked or hashed; tree: what is verified;
\* open, listed: the directory being removed and what was found in it.
Off == [pc |-> "off", todo |-> {}, tree |-> "partial", open |-> NoDir, listed |-> {}]

Init ==
    /\ dir = [d \in Dir |-> Empty]
    /\ final = NoDir /\ partial = NoDir
    /\ cmd = [r \in Run |-> Off]
    /\ told = [r \in Run |-> Nobody]
    /\ overlap = FALSE
    /\ faults = 0

AtWork(r) == cmd[r].pc \notin {"off", "done"}

Goto(r, pc) == cmd' = [cmd EXCEPT ![r] = [cmd[r] EXCEPT !.pc = pc]]

\* StageExecutionError: the stage is FAILED, and the tree stays as it is.
Fails(r) ==
    /\ cmd' = [cmd EXCEPT ![r] = Off]
    /\ UNCHANGED <<store, told, overlap, faults>>

-----------------------------------------------------------------------------
(* build: look at the name, remove what an earlier command has left.       *)

\* run, or resume: the stage starts.
Start(r) ==
    /\ cmd[r].pc = "off"
    /\ Goto(r, "look")
    /\ overlap' = (overlap \/ \E q \in Run \ {r} : AtWork(q))
    /\ UNCHANGED <<store, told, faults>>

\* Mutant: an existing snapshot is moved aside and built again.
LookAndRebuild(r) ==
    /\ cmd[r].pc = "look"
    /\ Goto(r, "clear")
    /\ final' = NoDir
    /\ partial' = IF final # NoDir THEN final ELSE partial
    /\ UNCHANGED <<dir, told, overlap, faults>>

\* An existing snapshot is verified and used, otherwise one is built.
LookAtFinal(r) ==
    /\ cmd[r].pc = "look"
    /\ cmd' = [cmd EXCEPT ![r] =
                 IF final # NoDir
                 THEN [cmd[r] EXCEPT !.pc = "head", !.tree = "final"]
                 ELSE [cmd[r] EXCEPT !.pc = "clear", !.tree = "partial"]]
    /\ UNCHANGED <<store, told, overlap, faults>>

\* Mutant: what an earlier command has left is not removed.
ClearNothing(r) ==
    /\ cmd[r].pc = "clear"
    /\ Goto(r, "mkdir")
    /\ UNCHANGED <<store, told, overlap, faults>>

\* _remove_partial: the directories become writable ...
ClearPartial(r) ==
    /\ cmd[r].pc = "clear"
    /\ IF partial = NoDir
       THEN /\ Goto(r, "mkdir")
            /\ UNCHANGED dir
       ELSE /\ dir' = [dir EXCEPT ![partial] = [dir[partial] EXCEPT !.sealed = FALSE]]
            /\ Goto(r, "remove")
    /\ UNCHANGED <<final, partial, told, overlap, faults>>

Present(d) ==
    dir[d].has \cup (IF dir[d].descriptor # Nobody THEN {"descriptor"} ELSE {})
               \cup (IF dir[d].ready # Nobody THEN {"ready"} ELSE {})

\* ... rmtree opens the top and lists it.  The name is gone if another command
\* has published or removed the tree.
OpenPartial(r) ==
    /\ cmd[r].pc = "remove" /\ cmd[r].open = NoDir
    /\ IF partial = NoDir
       THEN Fails(r)
       ELSE /\ cmd' = [cmd EXCEPT ![r] = [cmd[r] EXCEPT !.open = partial,
                                                       !.listed = Present(partial)]]
            /\ UNCHANGED <<store, told, overlap, faults>>

Without(tree, e) ==
    CASE e = "descriptor" -> [tree EXCEPT !.descriptor = Nobody]
      [] e = "ready"      -> [tree EXCEPT !.ready = Nobody]
      [] OTHER            -> [tree EXCEPT !.has = @ \ {e}]

\* It unlinks what it has listed, in any order, wherever the directory is now.
\* One that is gone already is ignored; one in a directory that has been sealed
\* since cannot be unlinked.
RemoveEntry(r, e) ==
    LET d == cmd[r].open
    IN  /\ cmd[r].pc = "remove" /\ d # NoDir
        /\ e \in cmd[r].listed
        /\ IF dir[d].sealed
           THEN Fails(r)
           ELSE /\ dir' = [dir EXCEPT ![d] = Without(dir[d], e)]
                /\ cmd' = [cmd EXCEPT ![r] = [cmd[r] EXCEPT !.listed = @ \ {e}]]
                /\ UNCHANGED <<final, partial, told, overlap, faults>>

\* The top goes by its name, which may be gone or name a tree that is not empty.
RemoveTop(r) ==
    /\ cmd[r].pc = "remove" /\ cmd[r].open # NoDir
    /\ cmd[r].listed = {}
    /\ IF partial # NoDir /\ Present(partial) = {}
       THEN /\ dir' = [dir EXCEPT ![partial] = Empty]
            /\ partial' = NoDir
            /\ cmd' = [cmd EXCEPT ![r] = [Off EXCEPT !.pc = "mkdir"]]
            /\ UNCHANGED <<final, told, overlap, faults>>
       ELSE Fails(r)

-----------------------------------------------------------------------------
(* _populate, by name.                                                     *)

Used == {final, partial} \cup {cmd[r].open : r \in Run}
Fresh == CHOOSE d \in Dir : d \notin Used

\* The directory `partial' becomes `tree'; it is made if the name is free.
Put(tree) ==
    LET d == IF partial = NoDir THEN Fresh ELSE partial
    IN  /\ partial' = d
        /\ dir' = [dir EXCEPT ![d] = tree]
        /\ UNCHANGED <<final, told, overlap, faults>>

Tree == IF partial = NoDir THEN Empty ELSE dir[partial]

MakePartial(r) ==
    /\ cmd[r].pc = "mkdir"
    /\ IF partial = NoDir
       THEN Put(Empty) /\ Goto(r, "layout")
       ELSE Fails(r)

\* mkdir(parents=True) makes the top again if it is gone; what exists, or a
\* sealed parent, is an error.
MakeLayout(r) ==
    /\ cmd[r].pc = "layout"
    /\ IF "layout" \in Tree.has \/ Tree.sealed
       THEN Fails(r)
       ELSE /\ Put([Tree EXCEPT !.has = @ \cup {"layout"}])
            /\ cmd' = [cmd EXCEPT ![r] = [cmd[r] EXCEPT !.pc = "files", !.todo = File]]

\* _link_or_copy_into_partial: an existing destination is an error.  The parents
\* are made once; if the layout has been removed since, they may be missing.
LinkFile(r, f) ==
    /\ cmd[r].pc = "files"
    /\ f \in cmd[r].todo
    /\ f \notin Tree.has /\ ~Tree.sealed
    /\ Put([Tree EXCEPT !.has = @ \cup {f}])
    /\ cmd' = [cmd EXCEPT ![r] = [cmd[r] EXCEPT !.todo = @ \ {f}]]

LinkFails(r, f) ==
    /\ cmd[r].pc = "files"
    /\ f \in cmd[r].todo
    /\ f \in Tree.has \/ Tree.sealed \/ "layout" \notin Tree.has
    /\ Fails(r)

\* _JsonlWriter opens with "xb".
WriteManifests(r) ==
    /\ cmd[r].pc = "files" /\ cmd[r].todo = {}
    /\ IF "manifests" \in Tree.has \/ Tree.sealed
       THEN Fails(r)
       ELSE /\ Put([Tree EXCEPT !.has = @ \cup {"manifests"}])
            /\ Goto(r, "descriptor")

\* _write_readonly replaces what is there; created_at makes descriptors differ.
WriteDescriptor(r) ==
    /\ cmd[r].pc = "descriptor"
    /\ IF partial = NoDir \/ Tree.sealed
       THEN Fails(r)
       ELSE Put([Tree EXCEPT !.descriptor = r]) /\ Goto(r, "ready")

\* Mutant: the snapshot is published as soon as READY is written.
ReadyAndPublish(r) ==
    /\ cmd[r].pc = "ready"
    /\ Put([Tree EXCEPT !.ready = r])
    /\ Goto(r, "publish")

WriteReady(r) ==
    /\ cmd[r].pc = "ready"
    /\ IF partial = NoDir \/ Tree.sealed
       THEN Fails(r)
       ELSE Put([Tree EXCEPT !.ready = r]) /\ Goto(r, "seal")

\* _seal_directories: os.walk of a name that is gone finds nothing.
Seal(r) ==
    /\ cmd[r].pc = "seal"
    /\ IF partial = NoDir THEN UNCHANGED dir
       ELSE dir' = [dir EXCEPT ![partial] = [dir[partial] EXCEPT !.sealed = TRUE]]
    /\ Goto(r, "head")
    /\ UNCHANGED <<final, partial, told, overlap, faults>>

-----------------------------------------------------------------------------
(* SnapshotVerifier, of the tree it has been given by name; publication.   *)

Named(r) == IF cmd[r].tree = "final" THEN final ELSE partial

HeadIsValid(tree) ==
    /\ {"layout", "manifests"} \subseteq tree.has
    /\ tree.descriptor # Nobody /\ tree.ready = tree.descriptor
    /\ tree.sealed

\* Layout, snapshot.json, READY, the id and the manifests.
VerifyHead(r) ==
    /\ cmd[r].pc = "head"
    /\ IF Named(r) # NoDir /\ HeadIsValid(dir[Named(r)])
       THEN /\ cmd' = [cmd EXCEPT ![r] = [cmd[r] EXCEPT !.pc = "payload", !.todo = File]]
            /\ UNCHANGED <<store, told, overlap, faults>>
       ELSE Fails(r)

\* The payload is walked and hashed file by file; directories must be read-only.
VerifyFile(r, f) ==
    /\ cmd[r].pc = "payload"
    /\ f \in cmd[r].todo
    /\ IF Named(r) # NoDir /\ f \in dir[Named(r)].has /\ dir[Named(r)].sealed
       THEN /\ cmd' = [cmd EXCEPT ![r] =
                         [cmd[r] EXCEPT !.todo = @ \ {f},
                                        !.pc = IF cmd[r].todo # {f} THEN "payload"
                                               ELSE IF cmd[r].tree = "final"
                                               THEN "report" ELSE "publish"]]
            /\ UNCHANGED <<store, told, overlap, faults>>
       ELSE Fails(r)

\* os.replace: the target may be missing or an empty directory.
Publish(r) ==
    /\ cmd[r].pc = "publish"
    /\ IF partial = NoDir \/ (final # NoDir /\ Present(final) # {})
       THEN Fails(r)
       ELSE /\ final' = partial
            /\ partial' = NoDir
            /\ Goto(r, "report")
            /\ UNCHANGED <<dir, told, overlap, faults>>

\* Mutant: the descriptor that this command has written is reported.
ReportOwn(r) ==
    /\ cmd[r].pc = "report"
    /\ told' = [told EXCEPT ![r] = r]
    /\ cmd' = [cmd EXCEPT ![r] = [Off EXCEPT !.pc = "done"]]
    /\ UNCHANGED <<store, overlap, faults>>

\* _result_from_descriptor hashes the published snapshot.json.
Report(r) ==
    /\ cmd[r].pc = "report"
    /\ IF final = NoDir \/ dir[final].descriptor = Nobody
       THEN Fails(r)
       ELSE /\ told' = [told EXCEPT ![r] = dir[final].descriptor]
            /\ cmd' = [cmd EXCEPT ![r] = [Off EXCEPT !.pc = "done"]]
            /\ UNCHANGED <<store, overlap, faults>>

\* SIGKILL, or an error of the file system, at any step.
Dies(r) ==
    /\ AtWork(r)
    /\ faults < MaxFaults
    /\ faults' = faults + 1
    /\ cmd' = [cmd EXCEPT ![r] = Off]
    /\ UNCHANGED <<store, told, overlap>>

-----------------------------------------------------------------------------
Remove(r) == OpenPartial(r) \/ RemoveTop(r) \/ \E e \in cmd[r].listed : RemoveEntry(r, e)
Populate(r) ==
    \/ MakePartial(r) \/ MakeLayout(r) \/ WriteManifests(r)
    \/ WriteDescriptor(r) \/ WriteReady(r) \/ Seal(r)
    \/ \E f \in File : LinkFile(r, f) \/ LinkFails(r, f)
Verify(r) == VerifyHead(r) \/ \E f \in File : VerifyFile(r, f)

Step(r) ==
    \/ LookAtFinal(r) \/ ClearPartial(r) \/ Remove(r) \/ Populate(r)
    \/ Verify(r) \/ Publish(r) \/ Report(r)

Next == \E r \in Run : Start(r) \/ Step(r) \/ Dies(r)

Spec == Init /\ [][Next]_vars

\* A command that works takes its next step, and a run that is not finished is
\* resumed.
FairSpec == Spec /\ \A r \in Run : WF_vars(Step(r)) /\ WF_vars(Start(r))

-----------------------------------------------------------------------------
Whole(d) == HeadIsValid(dir[d]) /\ File \subseteq dir[d].has

DirState == [has : SUBSET Entry, descriptor : {Nobody} \cup Run, ready : {Nobody} \cup Run,
             sealed : BOOLEAN]
Command == [pc : PC, todo : SUBSET File, tree : {"partial", "final"}, open : {NoDir} \cup Dir,
            listed : SUBSET (Entry \cup {"descriptor", "ready"})]

\* Every variable has a value of its kind.
TypeOK ==
    /\ dir \in [Dir -> DirState]
    /\ final \in {NoDir} \cup Dir /\ partial \in {NoDir} \cup Dir
    /\ cmd \in [Run -> Command]
    /\ told \in [Run -> {Nobody} \cup Run]
    /\ overlap \in BOOLEAN /\ faults \in 0..MaxFaults

\* As long as commands on runs of one release follow one another, whatever step
\* each of them dies at, a published snapshot has every file, manifests, and a
\* READY that fits its descriptor, and is read-only: no later command builds on,
\* removes from or publishes the remains of an earlier one.
PublishedIsWhole == ~overlap /\ final # NoDir => Whole(final)

\* Then also a published snapshot never changes, not even when the command that
\* published it died before its result was stored: its successor uses it.
PublishedIsForGood ==
    [][final # NoDir /\ ~overlap' => final' = final /\ dir'[final] = dir[final]]_vars

\* The digest that a finished run reports is that of the snapshot that is there,
\* also when another run has built it (the descriptors differ by created_at).
ReportsNameThePublished ==
    ~overlap => \A r \in Run : told[r] # Nobody =>
                    final # NoDir /\ told[r] = dir[final].descriptor

\* Whatever a dead command has left behind, later ones get past it.
EventuallySealed == []~overlap => \A r \in Run : <>(cmd[r].pc = "done")

\* READY appears last, and the partial tree is private: a published snapshot that
\* has its READY has its files, also with two runs of one release at work.
ReadyMeansComplete ==
    final # NoDir /\ dir[final].ready # Nobody => File \subseteq dir[final].has

-----------------------------------------------------------------------------
(* Why: what each position of the one command at work relies on.           *)

\* One command at a time, and only it keeps a directory open.
OneAtATime ==
    /\ \A r, q \in Run : AtWork(r) /\ AtWork(q) => r = q
    /\ \A r \in Run : cmd[r].open # NoDir => cmd[r].pc = "remove"

Building(r) ==
    \/ cmd[r].pc \in {"clear", "remove", "mkdir", "publish"} \cup Writing
    \/ cmd[r].pc \in {"head", "payload"} /\ cmd[r].tree = "partial"

Using(r) ==
    \/ cmd[r].pc = "report"
    \/ cmd[r].pc \in {"head", "payload"} /\ cmd[r].tree = "final"

\* A tree is built only where no snapshot is, and what has been verified of it
\* stays as it was.
BuildIsSafe(r) ==
    /\ Building(r) => final = NoDir /\ cmd[r].tree = "partial"
    /\ Using(r) => final # NoDir
    /\ cmd[r].pc = "payload" /\ cmd[r].tree = "partial" =>
          /\ partial # NoDir /\ HeadIsValid(dir[partial])
          /\ File \ cmd[r].todo \subseteq dir[partial].has
    /\ cmd[r].pc = "publish" => partial # NoDir /\ Whole(partial)

SealInv ==
    /\ TypeOK
    /\ ~overlap =>
          /\ OneAtATime
          /\ \A r \in Run : BuildIsSafe(r)
          /\ final # NoDir => Whole(final) /\ final # partial
          /\ \A r \in Run : told[r] # Nobody =>
                final # NoDir /\ told[r] = dir[final].descriptor

=============================================================================

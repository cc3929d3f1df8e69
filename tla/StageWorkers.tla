---------------------------- MODULE StageWorkers ----------------------------
(***************************************************************************)
(* The processes of a stage: materialize-vfs (vfs.py) and transform-       *)
(* readable (readable.py) give their work to a ProcessPoolExecutor, and    *)
(* the workers of a command that is killed go on without it.               *)
(*                                                                         *)
(* materialize-vfs spawns its workers: they do not have the lock of the    *)
(* run.  They fill materialized.partial, which is renamed.                 *)
(* transform-readable forks: a worker inherits the open file description   *)
(* of the run's lock.  They fill `transformed' in place.                   *)
(***************************************************************************)
EXTENDS Integers, FiniteSets

CONSTANTS
    Command,        \* slots for commands; a slot is used again when it is empty
    Worker,         \* the worker processes of a pool
    Item,           \* files to write, each from a work item of its own
    NoFile, NoItem, \* model values
    MaxFaults       \* bound: kills, interruptions and failed writes

ASSUME SizeAssumption == MaxFaults \in Nat /\ Worker # {} /\ Item # {}
ASSUME NoAssumption == NoFile \notin Command \X Item /\ NoItem \notin Item
ASSUME MainAssumption == "main" \notin Worker

VARIABLES
    kind,       \* the stage
    audits,     \* the run audits what its stages make
    pc,         \* where each command is
    todo,       \* items that the executor has not put into its call queue
    queue,      \* items in the call queue, a pipe that outlives the command
    job,        \* what each worker is at
    done,       \* items whose results have arrived
    broken,     \* a work item has failed, or a worker has died, or a signal came
    lock,       \* the processes that have the locked file description open
    work,       \* the directory that is filled: its files, if it is there
    tree,       \* the directory that has been renamed
    whole,      \* files with their full content
    stored,     \* the stage has its result
    slips,      \* a write of a killed command's worker has failed
    faults

vars == <<kind, audits, pc, todo, queue, job, done, broken, lock, work, tree, whole, stored, slips, faults>>

NoTree == [there |-> FALSE, file |-> [i \in Item |-> NoFile]]
EmptyTree == [there |-> TRUE, file |-> [i \in Item |-> NoFile]]
Idle == [item |-> NoItem, at |-> "idle"]
Gone == [item |-> NoItem, at |-> "gone"]

Steps == {"clear", "clear tree", "lay out", "pool", "publish", "sync", "audit"}
Ended == {"off", "done", "failed", "killed"}

Main == "main"
File(c, i) == <<c, i>>      \* the file that command c, or its worker, makes

\* The directory with file f under the name i.
With(dir, i, f) == [there |-> dir.there, file |-> [dir.file EXCEPT ![i] = f]]

Init ==
    /\ kind \in {"materialize", "transform"}
    /\ audits \in BOOLEAN
    /\ pc = [c \in Command |-> "off"]
    /\ todo = [c \in Command |-> {}]
    /\ queue = [c \in Command |-> {}]
    /\ job = [c \in Command |-> [w \in Worker |-> Gone]]
    /\ done = [c \in Command |-> {}]
    /\ broken = [c \in Command |-> FALSE]
    /\ lock = {}
    /\ work = NoTree
    /\ tree = NoTree
    /\ whole = {}
    /\ stored = FALSE
    /\ slips = FALSE
    /\ faults = 0

Goto(c, step) == pc' = [pc EXCEPT ![c] = step]
IsAlive(c) == pc[c] \in Steps
HasWorkers(c) == \E w \in Worker : job[c][w] # Gone
NowAt(c, w, j) == job' = [job EXCEPT ![c] = [job[c] EXCEPT ![w] = j]]

-----------------------------------------------------------------------------
(* The command.                                                            *)

\* It takes the lock, if no process has it; the flock of a killed command goes
\* with the last copy of its descriptor.
Start(c) ==
    /\ pc[c] \in Ended /\ ~HasWorkers(c) /\ ~stored
    /\ lock = {}
    /\ Goto(c, "clear")
    /\ lock' = {<<c, Main>>}
    /\ done' = [done EXCEPT ![c] = {}]
    /\ broken' = [broken EXCEPT ![c] = FALSE]
    /\ UNCHANGED <<kind, audits, todo, queue, job, work, tree, whole, stored, slips, faults>>

\* The release is explicit, and frees all copies.
End(c, how) ==
    /\ Goto(c, how)
    /\ lock' = {}

\* Mutant: what an earlier command has left is used.
ClearNothing(c) ==
    /\ pc[c] = "clear"
    /\ Goto(c, "clear tree")
    /\ UNCHANGED <<kind, audits, todo, queue, job, done, broken, lock, work, tree, whole, stored, slips, faults>>

\* shutil.rmtree, a file at a time; it fails if a file has come after its scan,
\* which the removal of the top meets.
Clear(c) ==
    /\ pc[c] = "clear"
    /\ \/ \E i \in Item : /\ work.file[i] # NoFile
                          /\ work' = With(work, i, NoFile)
                          /\ UNCHANGED pc
       \/ work.file = NoTree.file /\ work' = NoTree /\ Goto(c, "clear tree")
    /\ UNCHANGED <<kind, audits, todo, queue, job, done, broken, lock, tree, whole, stored, slips, faults>>

ClearTree(c) ==
    /\ pc[c] = "clear tree"
    /\ tree' = NoTree
    /\ Goto(c, "lay out")
    /\ UNCHANGED <<kind, audits, todo, queue, job, done, broken, lock, work, whole, stored, slips, faults>>

\* mkdir fails if the directory is there again.  Then the pool starts.
LayOut(c) ==
    /\ pc[c] = "lay out"
    /\ IF work.there
       THEN End(c, "failed") /\ UNCHANGED <<todo, job, work>>
       ELSE /\ work' = EmptyTree
            /\ Goto(c, "pool")
            /\ todo' = [todo EXCEPT ![c] = Item]
            /\ job' = [job EXCEPT ![c] = [w \in Worker |-> Idle]]
            /\ lock' = IF kind = "transform" THEN lock \cup ({c} \X Worker) ELSE lock
    /\ UNCHANGED <<kind, audits, queue, done, broken, tree, whole, stored, slips, faults>>

\* The executor fills its call queue, one item more than it has workers.
Feed(c) ==
    /\ pc[c] = "pool" /\ ~broken[c]
    /\ Cardinality(queue[c]) <= Cardinality(Worker)
    /\ \E i \in todo[c] :
          /\ todo' = [todo EXCEPT ![c] = todo[c] \ {i}]
          /\ queue' = [queue EXCEPT ![c] = queue[c] \cup {i}]
    /\ UNCHANGED <<kind, audits, pc, job, done, broken, lock, work, tree, whole, stored, slips, faults>>

\* Mutant: the command does not wait for the last results.
PoolIsFed(c) ==
    /\ pc[c] = "pool" /\ ~broken[c] /\ todo[c] = {} /\ queue[c] = {}
    /\ Goto(c, "publish")
    /\ job' = [job EXCEPT ![c] = [w \in Worker |-> Gone]]
    /\ lock' = {<<c, Main>>}
    /\ UNCHANGED <<kind, audits, todo, queue, done, broken, work, tree, whole, stored, slips, faults>>

\* All results are there: the pool is shut down.
PoolEnds(c) ==
    /\ pc[c] = "pool" /\ ~broken[c] /\ done[c] = Item
    /\ Goto(c, "publish")
    /\ job' = [job EXCEPT ![c] = [w \in Worker |-> Gone]]
    /\ lock' = {<<c, Main>>}
    /\ UNCHANGED <<kind, audits, todo, queue, done, broken, work, tree, whole, stored, slips, faults>>

\* The first error that map() meets cancels what waits; shutdown waits for what
\* is in the call queue, if there are workers.
PoolFails(c) ==
    /\ pc[c] = "pool" /\ broken[c]
    /\ \A w \in Worker : job[c][w] \in {Idle, Gone}
    /\ HasWorkers(c) => queue[c] = {}
    /\ End(c, "failed")
    /\ job' = [job EXCEPT ![c] = [w \in Worker |-> Gone]]
    /\ todo' = [todo EXCEPT ![c] = {}]
    /\ queue' = [queue EXCEPT ![c] = {}]
    /\ UNCHANGED <<kind, audits, done, broken, work, tree, whole, stored, slips, faults>>

\* os.replace; `transformed' stays where it is.
Publish(c) ==
    /\ pc[c] = "publish"
    /\ IF kind = "materialize"
       THEN IF work.there THEN tree' = work /\ work' = NoTree /\ Goto(c, "sync") /\ UNCHANGED lock
                          ELSE End(c, "failed") /\ UNCHANGED <<work, tree>>
       ELSE tree' = work /\ Goto(c, "sync") /\ UNCHANGED <<work, lock>>
    /\ UNCHANGED <<kind, audits, todo, queue, job, done, broken, whole, stored, slips, faults>>

\* os.sync.
Sync(c) ==
    /\ pc[c] = "sync"
    /\ Goto(c, "audit")
    /\ UNCHANGED <<kind, audits, todo, queue, job, done, broken, lock, work, tree, whole, stored, slips, faults>>

IsWhole(t) == t.there /\ \A i \in Item : t.file[i] \in whole

\* The audit, if there is one, hashes every file; then the result is stored.
Audit(c) ==
    /\ pc[c] = "audit"
    /\ IF IsWhole(tree) \/ ~audits THEN End(c, "done") /\ stored' = TRUE
                        ELSE End(c, "failed") /\ UNCHANGED stored
    /\ UNCHANGED <<kind, audits, todo, queue, job, done, broken, work, tree, whole, slips, faults>>

-----------------------------------------------------------------------------
(* The workers.                                                            *)

\* What becomes of a work item: its command hears of it, if it lives.
Returns(c, w, ok) ==
    /\ NowAt(c, w, Idle)
    /\ done' = IF ok /\ IsAlive(c) THEN [done EXCEPT ![c] = done[c] \cup {job[c][w].item}] ELSE done
    /\ broken' = [broken EXCEPT ![c] = broken[c] \/ ~ok]

Take(c, w) ==
    /\ job[c][w] = Idle
    /\ \E i \in queue[c] :
          /\ queue' = [queue EXCEPT ![c] = queue[c] \ {i}]
          /\ NowAt(c, w, [item |-> i, at |-> "taken"])
    /\ UNCHANGED <<kind, audits, pc, todo, done, broken, lock, work, tree, whole, stored, slips, faults>>

\* destination.parent.mkdir(parents=True, exist_ok=True).
MakeParents(c, w) ==
    /\ job[c][w].at = "taken"
    /\ work' = [there |-> TRUE, file |-> work.file]
    /\ NowAt(c, w, [item |-> job[c][w].item, at |-> "parents"])
    /\ UNCHANGED <<kind, audits, pc, todo, queue, done, broken, lock, tree, whole, stored, slips, faults>>

\* Mutant: open("wb").
OpenOver(c, w) ==
    LET i == job[c][w].item
    IN  /\ job[c][w].at = "parents"
        /\ work.there
        /\ work' = IF kind = "transform" \/ work.file[i] # NoFile THEN work
                   ELSE With(work, i, File(c, i))
        /\ whole' = whole \ {File(c, i), work'.file[i]}
        /\ NowAt(c, w, [item |-> i, at |-> "open"])
        /\ UNCHANGED <<done, broken>>
        /\ UNCHANGED <<kind, audits, pc, todo, queue, lock, tree, stored, slips, faults>>

\* open("xb"): no file of this name may be there; or else mkstemp.
Open(c, w) ==
    LET i == job[c][w].item
    IN  /\ job[c][w].at = "parents"
        /\ IF work.there /\ (kind = "transform" \/ work.file[i] = NoFile)
           THEN /\ work' = IF kind = "transform" THEN work
                           ELSE With(work, i, File(c, i))
                /\ whole' = whole \ {File(c, i)}
                /\ NowAt(c, w, [item |-> i, at |-> "open"])
                /\ UNCHANGED <<done, broken>>
           ELSE Returns(c, w, FALSE) /\ UNCHANGED <<work, whole>>
        /\ UNCHANGED <<kind, audits, pc, todo, queue, lock, tree, stored, slips, faults>>

\* The bytes are written to the open file, wherever its name is now; a temporary
\* file then takes its name in `transformed', if that is there.
Write(c, w) ==
    LET i == job[c][w].item
    IN  /\ job[c][w].at = "open"
        /\ whole' = whole \cup {File(c, i)}
        /\ IF kind = "transform" /\ work.there
           THEN work' = With(work, i, File(c, i))
           ELSE UNCHANGED work
        /\ Returns(c, w, kind = "materialize" \/ work.there)
        /\ UNCHANGED <<kind, audits, pc, todo, queue, lock, tree, stored, slips, faults>>

-----------------------------------------------------------------------------
(* Faults.                                                                 *)

Fault == faults < MaxFaults /\ faults' = faults + 1

\* A write fails: the worker removes the name that it has opened.
WriteFails(c, w) ==
    LET i == job[c][w].item
    IN  /\ job[c][w].at = "open"
        /\ Fault
        /\ work' = IF kind = "transform" THEN work
                   ELSE With(work, i, NoFile)
        /\ Returns(c, w, FALSE)
        /\ slips' = (slips \/ pc[c] = "killed")
        /\ UNCHANGED <<kind, audits, pc, todo, queue, lock, tree, whole, stored>>

\* A worker is killed: the executor ends the others and reports a broken pool.
WorkerDies(c) ==
    /\ pc[c] = "pool" /\ HasWorkers(c)
    /\ Fault
    /\ job' = [job EXCEPT ![c] = [w \in Worker |-> Gone]]
    /\ lock' = {<<c, Main>>}
    /\ broken' = [broken EXCEPT ![c] = TRUE]
    /\ UNCHANGED <<kind, audits, pc, todo, queue, done, work, tree, whole, stored, slips>>

\* A signal is raised in the main thread, as an error that leaves the pool.
Interrupted(c) ==
    /\ IsAlive(c) /\ Fault
    /\ IF pc[c] = "pool" THEN broken' = [broken EXCEPT ![c] = TRUE] /\ UNCHANGED <<pc, lock>>
                         ELSE End(c, "failed") /\ UNCHANGED broken
    /\ UNCHANGED <<kind, audits, todo, queue, job, done, work, tree, whole, stored, slips>>

\* SIGKILL of the command alone: its workers, and the pipe, stay.
Killed(c) ==
    /\ IsAlive(c) /\ Fault
    /\ Goto(c, "killed")
    /\ lock' = lock \ {<<c, Main>>}
    /\ todo' = [todo EXCEPT ![c] = {}]
    /\ queue' = IF HasWorkers(c) THEN queue ELSE [queue EXCEPT ![c] = {}]
    /\ UNCHANGED <<kind, audits, job, done, broken, work, tree, whole, stored, slips>>

\* An operator ends the workers that a killed command has left.
KillOrphans(c) ==
    /\ pc[c] = "killed" /\ HasWorkers(c)
    /\ job' = [job EXCEPT ![c] = [w \in Worker |-> Gone]]
    /\ queue' = [queue EXCEPT ![c] = {}]
    /\ lock' = lock \ ({c} \X Worker)
    /\ UNCHANGED <<kind, audits, pc, todo, done, broken, work, tree, whole, stored, slips, faults>>

CommandStep(c) ==
    \/ Clear(c) \/ ClearTree(c) \/ LayOut(c) \/ Feed(c) \/ PoolEnds(c) \/ PoolFails(c)
    \/ Publish(c) \/ Sync(c) \/ Audit(c)

WorkerStep(c, w) == Take(c, w) \/ MakeParents(c, w) \/ Open(c, w) \/ Write(c, w)

Next ==
    \E c \in Command :
        \/ Start(c) \/ CommandStep(c) \/ WorkerDies(c) \/ Interrupted(c) \/ Killed(c)
        \/ KillOrphans(c)
        \/ \E w \in Worker : WorkerStep(c, w) \/ WriteFails(c, w)

Spec == Init /\ [][Next]_vars

\* A run is resumed until its stage has a result, and what a killed command has
\* left is ended in the end.
FairSpec ==
    /\ Spec
    /\ WF_vars(\E c \in Command : Start(c))
    /\ \A c \in Command :
          /\ WF_vars(CommandStep(c)) /\ WF_vars(KillOrphans(c))
          /\ \A w \in Worker : WF_vars(WorkerStep(c, w))

-----------------------------------------------------------------------------
(* Properties.                                                             *)

\* What a command publishes, and what its stage stores, has all its files, whole,
\* also if workers of killed commands write at the same time.  Only if the write
\* of such a worker fails may it be otherwise, for it removes a file that it takes
\* for its own; and an audit does not let that pass.
PublishedTreeIsWhole ==
    stored \/ (\E c \in Command : pc[c] \in {"sync", "audit"}) =>
        /\ tree.there
        /\ ~slips \/ (stored /\ audits) => IsWhole(tree)

\* A stage whose run is resumed often enough gets its result: whatever killed
\* commands and their workers have left, a later command removes or survives.
EventuallyStored == <>stored

\* The lock of a run is held by a command that is at work on it (a lock lives as
\* long as the open file descriptor of its command, the code says).
LockIsOfACommand == lock # {} => \E c \in Command : IsAlive(c)

-----------------------------------------------------------------------------
(* Why: what every step keeps.                                             *)

Busy == [item : Item, at : {"taken", "parents", "open"}]
Directory == [there : BOOLEAN, file : [Item -> {NoFile} \cup (Command \X Item)]]

TypeOK ==
    /\ kind \in {"materialize", "transform"} /\ audits \in BOOLEAN
    /\ pc \in [Command -> Steps \cup Ended]
    /\ todo \in [Command -> SUBSET Item]
    /\ queue \in [Command -> SUBSET Item]
    /\ job \in [Command -> [Worker -> Busy \cup {Idle, Gone}]]
    /\ done \in [Command -> SUBSET Item]
    /\ broken \in [Command -> BOOLEAN]
    /\ lock \subseteq Command \X ({Main} \cup Worker)
    /\ work \in Directory /\ tree \in Directory
    /\ whole \subseteq Command \X Item
    /\ stored \in BOOLEAN /\ slips \in BOOLEAN
    /\ faults \in 0..MaxFaults

\* One command at a time, and where workers have the lock they keep others out.
OneAtWork ==
    /\ \A c \in Command : IsAlive(c) <=> <<c, Main>> \in lock
    /\ \A c \in Command, x \in lock : IsAlive(c) => x[1] = c
    /\ \A c \in Command : HasWorkers(c) => pc[c] \in {"pool", "killed"}
    /\ kind = "transform" =>
         \A c \in Command, w \in Worker : job[c][w] # Gone => <<c, w>> \in lock
    /\ stored => \A c \in Command : ~IsAlive(c)

Writing(c, w) == job[c][w].at \in {"taken", "parents", "open"}

\* A work item of a command is in one place.
Apart(c) ==
    /\ todo[c] \cap queue[c] = {} /\ (todo[c] \cup queue[c]) \cap done[c] = {}
    /\ \A w \in Worker : Writing(c, w) =>
         job[c][w].item \notin todo[c] \cup queue[c] \cup done[c]
    /\ \A w, v \in Worker :
         Writing(c, w) /\ Writing(c, v) /\ job[c][w].item = job[c][v].item => w = v
    /\ pc[c] # "pool" => todo[c] = {}
    /\ pc[c] # "pool" /\ ~HasWorkers(c) => queue[c] = {}
    /\ pc[c] \in {"clear", "clear tree", "lay out"} => done[c] = {}
    /\ pc[c] \in {"publish", "sync", "audit"} => done[c] = Item

ItemsApart == \A c \in Command : Apart(c)

\* Nobody has made yet what a command has still to open.
Ahead(c, i) ==
    \/ i \in todo[c] \cup queue[c]
    \/ \E w \in Worker : job[c][w].item = i /\ job[c][w].at \in {"taken", "parents"}

AheadIsNew ==
    /\ \A c \in Command, i \in Item : Ahead(c, i) =>
         \A k \in Item : work.file[k] # File(c, i) /\ tree.file[k] # File(c, i)
    /\ \A c \in Command : pc[c] = "lay out" => tree = NoTree

\* What a command has opened and finished is there, until it is published.
DoneIsThere ==
    \A c \in Command :
        /\ pc[c] \in {"pool", "publish"} => work.there
        /\ pc[c] \in {"pool", "publish"} /\ ~slips =>
             \A i \in done[c] : work.file[i] = File(c, i) /\ File(c, i) \in whole
        /\ pc[c] = "pool" /\ ~slips /\ kind = "materialize" =>
             \A w \in Worker : job[c][w].at = "open" =>
                work.file[job[c][w].item] = File(c, job[c][w].item)

StageInv ==
    /\ TypeOK /\ OneAtWork /\ ItemsApart /\ AheadIsNew /\ DoneIsThere
    /\ PublishedTreeIsWhole

=============================================================================

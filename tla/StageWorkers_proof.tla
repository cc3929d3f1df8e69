-------------------------- MODULE StageWorkers_proof --------------------------
(***************************************************************************)
(* What a stage publishes and stores while the workers of killed commands  *)
(* go on, for any numbers of commands, workers, files and faults.          *)
(***************************************************************************)
EXTENDS StageWorkers, TLAPS

Jobs == Busy \cup {Idle, Gone}

\* A worker that is not writing has nothing.
LEMMA JobKinds ==
    ASSUME NEW j \in Jobs
    PROVE  /\ j.at \in {"idle", "gone", "taken", "parents", "open"}
           /\ j.at \in {"taken", "parents", "open"} <=> j \in Busy
           /\ j.at \in {"taken", "parents", "open"} => j.item \in Item /\ j # Gone /\ j # Idle
           /\ j.at \notin {"taken", "parents", "open"} => j \in {Idle, Gone} /\ j.item = NoItem
BY DEF Jobs, Busy, Idle, Gone

\* One worker's job changes, nobody else's.
LEMMA NowAtJob ==
    ASSUME job \in [Command -> [Worker -> Jobs]], NEW c \in Command, NEW w \in Worker,
           NEW j \in Jobs, NowAt(c, w, j)
    PROVE  /\ job' \in [Command -> [Worker -> Jobs]]
           /\ job'[c][w] = j
           /\ \A v \in Worker : v # w => job'[c][v] = job[c][v]
           /\ \A d \in Command : d # c => job'[d] = job[d]
BY DEF NowAt

\* All workers of a command come or go together.
LEMMA AllAtJob ==
    ASSUME job \in [Command -> [Worker -> Jobs]], NEW c \in Command, NEW j \in {Idle, Gone},
           job' = [job EXCEPT ![c] = [w \in Worker |-> j]]
    PROVE  /\ job' \in [Command -> [Worker -> Jobs]]
           /\ \A w \in Worker : job'[c][w] = j
           /\ \A d \in Command : d # c => job'[d] = job[d]
BY DEF Jobs

LEMMA BusyJob == ASSUME NEW i \in Item, NEW at \in {"taken", "parents", "open"}
                 PROVE [item |-> i, at |-> at] \in Jobs
BY DEF Jobs, Busy

LEMMA GotoType == ASSUME TypeOK, NEW c \in Command, NEW step \in Steps \cup Ended, Goto(c, step)
                  PROVE /\ pc' \in [Command -> Steps \cup Ended] /\ pc'[c] = step
                        /\ \A d \in Command : d # c => pc'[d] = pc[d]
BY DEF TypeOK, Goto

LEMMA Words == /\ Steps \cup Ended = {"clear", "clear tree", "lay out", "pool", "publish",
                                       "sync", "audit", "off", "done", "failed", "killed"}
               /\ Main \notin Worker
BY MainAssumption DEF Steps, Ended, Main

\* A directory with another file.
LEMMA WithType ==
    ASSUME NEW dir \in Directory, NEW i \in Item, NEW f \in {NoFile} \cup (Command \X Item)
    PROVE  /\ With(dir, i, f) \in Directory
           /\ With(dir, i, f).there = dir.there
           /\ With(dir, i, f).file[i] = f
           /\ \A k \in Item : k # i => With(dir, i, f).file[k] = dir.file[k]
<1>1. dir.there \in BOOLEAN /\ dir.file \in [Item -> {NoFile} \cup (Command \X Item)]
  BY DEF Directory
<1>2. [dir.file EXCEPT ![i] = f] \in [Item -> {NoFile} \cup (Command \X Item)]
  BY <1>1
<1>3. With(dir, i, f) \in Directory
  BY <1>1, <1>2 DEF With, Directory
<1> QED BY <1>1, <1>3 DEF With

LEMMA TreeType == NoTree \in Directory /\ EmptyTree \in Directory
BY DEF NoTree, EmptyTree, Directory

LEMMA FaultType == ASSUME faults \in 0..MaxFaults, Fault PROVE faults' \in 0..MaxFaults
BY SizeAssumption DEF Fault

LEMMA LockType == ASSUME NEW c \in Command
                  PROVE /\ {<<c, Main>>} \subseteq Command \X ({Main} \cup Worker)
                        /\ {c} \X Worker \subseteq Command \X ({Main} \cup Worker)
OBVIOUS

-----------------------------------------------------------------------------

\* The steps of a command that leave the workers' jobs alone.
LEMMA CommandTypes ==
    ASSUME TypeOK, NEW c \in Command,
           Start(c) \/ Clear(c) \/ ClearTree(c) \/ Feed(c) \/ Publish(c) \/ Sync(c) \/ Audit(c)
           \/ Interrupted(c) \/ Killed(c)
    PROVE  TypeOK'
<1> USE Words DEF TypeOK, Jobs
<1>1. CASE Start(c)
  <2>1. lock' \subseteq Command \X ({Main} \cup Worker)
    BY <1>1, LockType DEF Start
  <2> QED BY <1>1, <2>1, GotoType DEF Start
<1>2. CASE Clear(c)
  <2>1. work' \in Directory
    <3>1. ASSUME NEW i \in Item, work' = With(work, i, NoFile) PROVE work' \in Directory
      <4>1. NoFile \in {NoFile} \cup (Command \X Item)
        OBVIOUS
      <4> QED BY <3>1, <4>1, WithType
    <3>2. CASE work' = NoTree
      BY <3>2, TreeType
    <3> QED BY <1>2, <3>1, <3>2 DEF Clear
  <2>2. pc' \in [Command -> Steps \cup Ended]
    BY <1>2, GotoType DEF Clear
  <2> QED BY <1>2, <2>1, <2>2 DEF Clear
<1>3. CASE ClearTree(c)
  BY <1>3, TreeType, GotoType DEF ClearTree
<1>4. CASE Feed(c)
  <2>1. todo' \in [Command -> SUBSET Item] /\ queue' \in [Command -> SUBSET Item]
    <3>1. PICK i \in todo[c] : /\ todo' = [todo EXCEPT ![c] = todo[c] \ {i}]
                               /\ queue' = [queue EXCEPT ![c] = queue[c] \cup {i}]
      BY <1>4 DEF Feed
    <3>2. todo[c] \ {i} \in SUBSET Item /\ queue[c] \cup {i} \in SUBSET Item
      <4>1. todo[c] \in SUBSET Item /\ queue[c] \in SUBSET Item
        OBVIOUS
      <4> QED BY <4>1
    <3> QED BY <3>1, <3>2
  <2> QED BY <1>4, <2>1 DEF Feed
<1>5. CASE Publish(c)
  <2>1. work' \in Directory /\ tree' \in Directory
    BY <1>5, TreeType DEF Publish
  <2>2. pc' \in [Command -> Steps \cup Ended] /\ lock' \subseteq Command \X ({Main} \cup Worker)
    BY <1>5, GotoType DEF Publish, End
  <2> QED BY <1>5, <2>1, <2>2 DEF Publish
<1>6. CASE Sync(c)
  BY <1>6, GotoType DEF Sync
<1>7. CASE Audit(c)
  <2>1. pc' \in [Command -> Steps \cup Ended] /\ lock' \subseteq Command \X ({Main} \cup Worker)
    BY <1>7, GotoType DEF Audit, End
  <2> QED BY <1>7, <2>1 DEF Audit
<1>8. CASE Interrupted(c)
  <2>1. pc' \in [Command -> Steps \cup Ended] /\ lock' \subseteq Command \X ({Main} \cup Worker)
    BY <1>8, GotoType DEF Interrupted, End
  <2>2. broken' \in [Command -> BOOLEAN]
    BY <1>8 DEF Interrupted
  <2>3. faults' \in 0..MaxFaults
    BY <1>8, FaultType DEF Interrupted
  <2> QED BY <1>8, <2>1, <2>2, <2>3 DEF Interrupted
<1>9. CASE Killed(c)
  <2>1. pc' \in [Command -> Steps \cup Ended] /\ lock' \subseteq Command \X ({Main} \cup Worker)
    BY <1>9, GotoType DEF Killed
  <2>2. todo' \in [Command -> SUBSET Item] /\ queue' \in [Command -> SUBSET Item]
    BY <1>9 DEF Killed
  <2>3. faults' \in 0..MaxFaults
    BY <1>9, FaultType DEF Killed
  <2> QED BY <1>9, <2>1, <2>2, <2>3 DEF Killed
<1> QED BY <1>1, <1>2, <1>3, <1>4, <1>5, <1>6, <1>7, <1>8, <1>9

\* The steps that start or end a pool.
LEMMA PoolTypes ==
    ASSUME TypeOK, NEW c \in Command,
           LayOut(c) \/ PoolEnds(c) \/ PoolFails(c) \/ WorkerDies(c) \/ KillOrphans(c)
    PROVE  TypeOK'
<1> USE Words DEF TypeOK, Jobs
<1>1. CASE LayOut(c)
  <2>1. CASE work.there
    <3>1. pc' \in [Command -> Steps \cup Ended] /\ lock' \subseteq Command \X ({Main} \cup Worker)
      BY <1>1, <2>1, GotoType DEF LayOut, End
    <3> QED BY <1>1, <2>1, <3>1 DEF LayOut
  <2>2. CASE ~work.there
    <3>1. /\ pc' \in [Command -> Steps \cup Ended]
          /\ lock' \subseteq Command \X ({Main} \cup Worker)
      <4>1. Goto(c, "pool") /\ lock' \subseteq lock \cup ({c} \X Worker)
        BY <1>1, <2>2 DEF LayOut
      <4> QED BY <4>1, GotoType, LockType
    <3>2. job' \in [Command -> [Worker -> Jobs]]
      BY <1>1, <2>2, AllAtJob DEF LayOut
    <3>3. todo' \in [Command -> SUBSET Item] /\ work' \in Directory
      <4>1. todo' = [todo EXCEPT ![c] = Item] /\ work' = EmptyTree
        BY <1>1, <2>2 DEF LayOut
      <4> QED BY <4>1, TreeType
    <3> QED BY <1>1, <3>1, <3>2, <3>3 DEF LayOut
  <2> QED BY <2>1, <2>2
<1>2. CASE PoolEnds(c)
  <2>1. job' \in [Command -> [Worker -> Jobs]]
    BY <1>2, AllAtJob DEF PoolEnds
  <2>2. lock' \subseteq Command \X ({Main} \cup Worker)
    BY <1>2, LockType DEF PoolEnds
  <2> QED BY <1>2, <2>1, <2>2, GotoType DEF PoolEnds
<1>3. CASE PoolFails(c)
  <2>1. job' \in [Command -> [Worker -> Jobs]]
    BY <1>3, AllAtJob DEF PoolFails
  <2>2. todo' \in [Command -> SUBSET Item] /\ queue' \in [Command -> SUBSET Item]
    BY <1>3 DEF PoolFails
  <2>3. /\ pc' \in [Command -> Steps \cup Ended]
        /\ lock' \subseteq Command \X ({Main} \cup Worker)
    BY <1>3, GotoType DEF PoolFails, End
  <2> QED BY <1>3, <2>1, <2>2, <2>3 DEF PoolFails
<1>4. CASE WorkerDies(c)
  <2>1. job' \in [Command -> [Worker -> Jobs]]
    BY <1>4, AllAtJob DEF WorkerDies
  <2>2. broken' \in [Command -> BOOLEAN] /\ lock' \subseteq Command \X ({Main} \cup Worker)
    BY <1>4, LockType DEF WorkerDies
  <2>3. faults' \in 0..MaxFaults
    BY <1>4, FaultType DEF WorkerDies
  <2> QED BY <1>4, <2>1, <2>2, <2>3 DEF WorkerDies
<1>5. CASE KillOrphans(c)
  <2>1. job' \in [Command -> [Worker -> Jobs]]
    BY <1>5, AllAtJob DEF KillOrphans
  <2>2. queue' \in [Command -> SUBSET Item]
    BY <1>5 DEF KillOrphans
  <2> QED BY <1>5, <2>1, <2>2 DEF KillOrphans
<1> QED BY <1>1, <1>2, <1>3, <1>4, <1>5

\* What becomes of a work item.
LEMMA ReturnsType ==
    ASSUME TypeOK, NEW c \in Command, NEW w \in Worker, NEW ok \in BOOLEAN, Returns(c, w, ok),
           job[c][w].item \in Item
    PROVE  /\ job' \in [Command -> [Worker -> Jobs]] /\ job'[c][w] = Idle
           /\ \A v \in Worker : v # w => job'[c][v] = job[c][v]
           /\ \A d \in Command : d # c => job'[d] = job[d]
           /\ done' \in [Command -> SUBSET Item] /\ broken' \in [Command -> BOOLEAN]
           /\ \A d \in Command : d # c => done'[d] = done[d]
           /\ done'[c] = IF ok /\ IsAlive(c) THEN done[c] \cup {job[c][w].item} ELSE done[c]
<1>1. Idle \in Jobs
  BY DEF Jobs
<1>2. NowAt(c, w, Idle)
  BY DEF Returns
<1> QED BY <1>1, <1>2, NowAtJob DEF Returns, TypeOK, Jobs

\* A worker that writes has an item.
LEMMA WorkerItem ==
    ASSUME TypeOK, NEW c \in Command, NEW w \in Worker, Writing(c, w)
    PROVE  /\ job[c][w].item \in Item /\ HasWorkers(c)
           /\ File(c, job[c][w].item) \in Command \X Item
           /\ File(c, job[c][w].item) # NoFile
<1>1. job[c][w] \in Jobs
  BY DEF TypeOK, Jobs
<1> QED BY <1>1, JobKinds, NoAssumption DEF Writing, HasWorkers, File

LEMMA WorkerTypes ==
    ASSUME TypeOK, NEW c \in Command, NEW w \in Worker, WorkerStep(c, w) \/ WriteFails(c, w)
    PROVE  TypeOK'
<1> USE DEF TypeOK, Jobs
<1>1. CASE Take(c, w)
  <2>1. PICK i \in queue[c] : /\ queue' = [queue EXCEPT ![c] = queue[c] \ {i}]
                              /\ NowAt(c, w, [item |-> i, at |-> "taken"])
    BY <1>1 DEF Take
  <2>2. job' \in [Command -> [Worker -> Jobs]]
    BY <2>1, NowAtJob, BusyJob
  <2>3. queue' \in [Command -> SUBSET Item]
    BY <2>1
  <2> QED BY <1>1, <2>2, <2>3 DEF Take
<1>2. CASE MakeParents(c, w)
  <2>1. job[c][w].item \in Item
    BY <1>2, WorkerItem DEF MakeParents, Writing
  <2>2. job' \in [Command -> [Worker -> Jobs]]
    BY <1>2, <2>1, NowAtJob, BusyJob DEF MakeParents
  <2>3. work' \in Directory
    BY <1>2 DEF MakeParents, Directory
  <2> QED BY <1>2, <2>2, <2>3 DEF MakeParents
<1>3. CASE Open(c, w)
  <2>1. job[c][w].item \in Item /\ File(c, job[c][w].item) \in Command \X Item
    BY <1>3, WorkerItem DEF Open, Writing
  <2>2. /\ job' \in [Command -> [Worker -> Jobs]]
        /\ done' \in [Command -> SUBSET Item] /\ broken' \in [Command -> BOOLEAN]
    <3>1. CASE Returns(c, w, FALSE)
      BY <2>1, <3>1, ReturnsType
    <3>2. CASE NowAt(c, w, [item |-> job[c][w].item, at |-> "open"]) /\ UNCHANGED <<done, broken>>
      BY <2>1, <3>2, NowAtJob, BusyJob
    <3> QED BY <1>3, <3>1, <3>2 DEF Open
  <2>3. work' \in Directory /\ whole' \subseteq Command \X Item
    <3>1. whole' \subseteq whole
      BY <1>3 DEF Open
    <3>2. work' = work \/ work' = With(work, job[c][w].item, File(c, job[c][w].item))
      BY <1>3 DEF Open
    <3> QED BY <2>1, <3>1, <3>2, WithType
  <2> QED BY <1>3, <2>2, <2>3 DEF Open
<1>4. CASE Write(c, w)
  <2>1. job[c][w].item \in Item /\ File(c, job[c][w].item) \in Command \X Item
    BY <1>4, WorkerItem DEF Write, Writing
  <2>2. /\ job' \in [Command -> [Worker -> Jobs]]
        /\ done' \in [Command -> SUBSET Item] /\ broken' \in [Command -> BOOLEAN]
    <3>1. Returns(c, w, kind = "materialize" \/ work.there) /\ work.there \in BOOLEAN
      BY <1>4 DEF Write, Directory
    <3>2. (kind = "materialize" \/ work.there) \in BOOLEAN
      OBVIOUS
    <3> QED BY <2>1, <3>1, <3>2, ReturnsType
  <2>3. work' \in Directory /\ whole' \subseteq Command \X Item
    BY <1>4, <2>1, WithType DEF Write
  <2> QED BY <1>4, <2>2, <2>3 DEF Write
<1>5. CASE WriteFails(c, w)
  <2>1. job[c][w].item \in Item
    BY <1>5, WorkerItem DEF WriteFails, Writing
  <2>2. /\ job' \in [Command -> [Worker -> Jobs]]
        /\ done' \in [Command -> SUBSET Item] /\ broken' \in [Command -> BOOLEAN]
    BY <1>5, <2>1, ReturnsType DEF WriteFails
  <2>3. work' \in Directory
    BY <1>5, <2>1, WithType DEF WriteFails
  <2>4. slips' \in BOOLEAN /\ faults' \in 0..MaxFaults
    BY <1>5, FaultType DEF WriteFails
  <2> QED BY <1>5, <2>2, <2>3, <2>4 DEF WriteFails
<1> QED BY <1>1, <1>2, <1>3, <1>4, <1>5 DEF WorkerStep

LEMMA TypeStep == ASSUME TypeOK, Next PROVE TypeOK'
BY CommandTypes, PoolTypes, WorkerTypes DEF Next, CommandStep

-----------------------------------------------------------------------------

\* Beside a command at work nobody has a forked worker.
LEMMA OnlyHolder ==
    ASSUME OneAtWork, kind = "transform", NEW c \in Command, IsAlive(c),
           NEW d \in Command, d # c, NEW w \in Worker
    PROVE  job[d][w] = Gone
<1>1. job[d][w] # Gone => <<d, w>> \in lock
  BY DEF OneAtWork
<1>2. <<d, w>> \in lock => <<d, w>>[1] = c
  BY DEF OneAtWork
<1> QED BY <1>1, <1>2

\* What a step of a command does to the commands and the lock.
LEMMA OneStep == ASSUME TypeOK, OneAtWork, Next PROVE OneAtWork'
<1> USE Words DEF TypeOK, Jobs
<1>t. TypeOK'
  BY TypeStep
<1>k. \A c \in Command : <<c, Main>>[1] = c /\ \A w \in Worker : <<c, w>>[1] = c
  OBVIOUS
<1>1. ASSUME NEW c \in Command, Start(c) PROVE OneAtWork'
  <2>1. /\ lock = {} /\ lock' = {<<c, Main>>} /\ pc'[c] = "clear" /\ ~HasWorkers(c) /\ ~stored
        /\ \A d \in Command : d # c => pc'[d] = pc[d]
        /\ UNCHANGED <<kind, job, stored>>
    BY <1>1, GotoType DEF Start
  <2>2. \A d \in Command : ~IsAlive(d)
    BY <2>1 DEF OneAtWork
  <2>3. \A d \in Command : IsAlive(d)' <=> d = c
    BY <2>1, <2>2 DEF IsAlive, Steps
  <2>4. \A d \in Command : HasWorkers(d)' => d # c /\ HasWorkers(d)
    BY <2>1 DEF HasWorkers
  <2>5. kind = "transform" => \A d \in Command, w \in Worker : job[d][w] = Gone
    BY <2>1 DEF OneAtWork
  <2>6. \A d \in Command : HasWorkers(d)' => pc'[d] \in {"pool", "killed"}
    BY <2>1, <2>4 DEF OneAtWork
  <2>7. \A d \in Command, x \in lock' : IsAlive(d)' => x[1] = d
    BY <1>k, <2>1, <2>3
  <2>8. \A d \in Command : IsAlive(d)' <=> <<d, Main>> \in lock'
    BY <1>k, <2>1, <2>3
  <2>9. \A d \in Command, w \in Worker : kind = "transform" => job'[d][w] = Gone
    BY <2>1, <2>5
  <2> QED BY <2>1, <2>6, <2>7, <2>8, <2>9 DEF OneAtWork
<1>2. ASSUME NEW c \in Command, IsAlive(c), IsAlive(c)', ~stored', UNCHANGED <<kind, lock, job>>,
             \A d \in Command : d # c => pc'[d] = pc[d], HasWorkers(c) => pc'[c] = "pool"
      PROVE OneAtWork'
  BY <1>2 DEF OneAtWork, HasWorkers, IsAlive
<1>3. ASSUME NEW c \in Command, IsAlive(c), pc'[c] \in Ended, lock' = {}, UNCHANGED kind,
             \A d \in Command : d # c => pc'[d] = pc[d] /\ job'[d] = job[d],
             \A w \in Worker : job'[c][w] = Gone
      PROVE OneAtWork'
  <2>1. \A d \in Command : d # c => ~IsAlive(d)
    BY <1>3 DEF OneAtWork
  <2>2. \A d \in Command : ~IsAlive(d)'
    BY <1>3, <2>1 DEF IsAlive, Steps, Ended
  <2>3. \A d \in Command : HasWorkers(d)' => d # c /\ HasWorkers(d)
    BY <1>3 DEF HasWorkers
  <2>4. kind = "transform" => \A d \in Command, w \in Worker : job'[d][w] = Gone
    BY <1>3, OnlyHolder
  <2>5. \A d \in Command : HasWorkers(d)' => pc'[d] \in {"pool", "killed"}
    BY <1>3, <2>3 DEF OneAtWork
  <2>6. \A d \in Command, w \in Worker : kind = "transform" => job'[d][w] = Gone
    BY <2>4
  <2> QED BY <1>3, <2>2, <2>5, <2>6 DEF OneAtWork
<1>4. ASSUME NEW c \in Command, IsAlive(c), IsAlive(c)', lock' = {<<c, Main>>}, UNCHANGED <<kind, stored>>,
             \A d \in Command : d # c => pc'[d] = pc[d] /\ job'[d] = job[d],
             \A w \in Worker : job'[c][w] = Gone
      PROVE OneAtWork'
  <2>1. \A d \in Command : IsAlive(d)' <=> d = c
    BY <1>4 DEF OneAtWork, IsAlive
  <2>2. \A d \in Command : HasWorkers(d)' => d # c /\ HasWorkers(d)
    BY <1>4 DEF HasWorkers
  <2>3. \A d \in Command, w \in Worker : kind = "transform" => job'[d][w] = Gone
    BY <1>4, OnlyHolder
  <2>4. \A d \in Command : HasWorkers(d)' => pc'[d] \in {"pool", "killed"}
    BY <1>4, <2>2 DEF OneAtWork
  <2>5. ~stored
    BY <1>4 DEF OneAtWork
  <2>6. \A d \in Command, x \in lock' : IsAlive(d)' => x[1] = d
    BY <1>4, <1>k, <2>1
  <2>7. \A d \in Command : IsAlive(d)' <=> <<d, Main>> \in lock'
    BY <1>4, <1>k, <2>1
  <2> QED BY <1>4, <2>3, <2>4, <2>5, <2>6, <2>7 DEF OneAtWork
<1>n. ASSUME NEW c \in Command, pc[c] \notin {"pool", "killed"}
      PROVE  \A w \in Worker : job[c][w] = Gone
  BY <1>n DEF OneAtWork, HasWorkers
<1>a. ASSUME NEW c \in Command, IsAlive(c) PROVE ~stored
  BY <1>a DEF OneAtWork
<1>5. ASSUME NEW c \in Command, Clear(c) \/ ClearTree(c) \/ Feed(c) \/ Sync(c) PROVE OneAtWork'
  <2>1. /\ IsAlive(c) /\ UNCHANGED <<kind, lock, job, stored>>
        /\ \/ pc[c] = "pool" /\ UNCHANGED pc
           \/ pc[c] # "pool" /\ Goto(c, "clear tree")
           \/ pc[c] # "pool" /\ Goto(c, "lay out")
           \/ pc[c] # "pool" /\ Goto(c, "audit")
           \/ pc[c] # "pool" /\ UNCHANGED pc
    BY <1>5 DEF Clear, ClearTree, Feed, Sync, IsAlive, Steps
  <2>2. IsAlive(c)' /\ \A d \in Command : d # c => pc'[d] = pc[d]
    BY <2>1, GotoType DEF IsAlive, Steps
  <2>3. HasWorkers(c) => pc[c] = "pool" /\ pc'[c] = "pool"
    BY <2>1 DEF OneAtWork, IsAlive, Steps
  <2> QED BY <1>2, <1>a, <2>1, <2>2, <2>3
<1>6. ASSUME NEW c \in Command, LayOut(c) PROVE OneAtWork'
  <2>0. pc[c] = "lay out" /\ IsAlive(c) /\ UNCHANGED <<kind, stored>>
    BY <1>6 DEF LayOut, IsAlive, Steps
  <2>1. CASE work.there
    <3>1. Goto(c, "failed") /\ lock' = {} /\ UNCHANGED job
      BY <1>6, <2>1 DEF LayOut, End
    <3>2. pc'[c] = "failed" /\ \A d \in Command : d # c => pc'[d] = pc[d]
      BY <3>1, GotoType
    <3> QED BY <2>0, <3>1, <3>2, <1>3, <1>n DEF Ended
  <2>2. CASE ~work.there
    <3>1. /\ Goto(c, "pool") /\ job' = [job EXCEPT ![c] = [w \in Worker |-> Idle]]
          /\ lock' = IF kind = "transform" THEN lock \cup ({c} \X Worker) ELSE lock
      BY <1>6, <2>2 DEF LayOut
    <3>2. pc'[c] = "pool" /\ \A d \in Command : d # c => pc'[d] = pc[d]
      BY <3>1, GotoType
    <3>3. \A d \in Command : d # c => job'[d] = job[d]
      BY <3>1
    <3>4. \A d \in Command : IsAlive(d) <=> d = c
      BY <2>0, <1>k DEF OneAtWork
    <3>5. \A d \in Command : IsAlive(d)' <=> d = c
      BY <3>2, <3>4 DEF IsAlive, Steps
    <3>6. \A d \in Command : <<d, Main>> \in lock' <=> <<d, Main>> \in lock
      BY <3>1
    <3>7. \A x \in lock' : x[1] = c
      BY <2>0, <3>1 DEF OneAtWork
    <3>8. \A d \in Command : HasWorkers(d)' => pc'[d] \in {"pool", "killed"}
      BY <3>2, <3>3 DEF OneAtWork, HasWorkers
    <3>9. kind = "transform" =>
            \A d \in Command, w \in Worker : job'[d][w] # Gone => <<d, w>> \in lock'
      BY <3>1, <3>3 DEF OneAtWork
    <3> QED BY <2>0, <1>a, <3>4, <3>5, <3>6, <3>7, <3>8, <3>9 DEF OneAtWork
  <2> QED BY <2>1, <2>2
<1>7. ASSUME NEW c \in Command, PoolEnds(c) \/ WorkerDies(c) PROVE OneAtWork'
  <2>1. /\ pc[c] = "pool" /\ UNCHANGED <<kind, stored>> /\ lock' = {<<c, Main>>}
        /\ job' = [job EXCEPT ![c] = [w \in Worker |-> Gone]]
        /\ Goto(c, "publish") \/ UNCHANGED pc
    BY <1>7 DEF PoolEnds, WorkerDies
  <2>2. IsAlive(c) /\ IsAlive(c)' /\ \A d \in Command : d # c => pc'[d] = pc[d]
    BY <2>1, GotoType DEF IsAlive, Steps
  <2>3. /\ \A d \in Command : d # c => job'[d] = job[d]
        /\ \A w \in Worker : job'[c][w] = Gone
    BY <2>1
  <2> QED BY <1>4, <1>a, <2>1, <2>2, <2>3
<1>8. ASSUME NEW c \in Command, PoolFails(c) PROVE OneAtWork'
  <2>1. /\ pc[c] = "pool" /\ UNCHANGED kind /\ lock' = {} /\ Goto(c, "failed")
        /\ job' = [job EXCEPT ![c] = [w \in Worker |-> Gone]]
    BY <1>8 DEF PoolFails, End
  <2>2. IsAlive(c) /\ pc'[c] = "failed" /\ \A d \in Command : d # c => pc'[d] = pc[d]
    BY <2>1, GotoType DEF IsAlive, Steps
  <2>3. /\ \A d \in Command : d # c => job'[d] = job[d]
        /\ \A w \in Worker : job'[c][w] = Gone
    BY <2>1
  <2> QED BY <1>3, <2>1, <2>2, <2>3 DEF Ended
<1>9. ASSUME NEW c \in Command, Publish(c) \/ Audit(c) \/ Interrupted(c) PROVE OneAtWork'
  <2>1. IsAlive(c) /\ UNCHANGED <<kind, job>> /\ (UNCHANGED stored \/ Audit(c))
    BY <1>9 DEF Publish, Audit, Interrupted, IsAlive, Steps
  <2>2. ASSUME NEW how \in {"done", "failed"}, End(c, how), pc[c] # "pool" PROVE OneAtWork'
    <3>1. pc'[c] = how /\ lock' = {} /\ \A d \in Command : d # c => pc'[d] = pc[d]
      BY <2>2, GotoType DEF End
    <3>2. pc[c] \notin {"pool", "killed"}
      BY <2>1, <2>2 DEF IsAlive, Steps
    <3> QED BY <1>3, <1>n, <2>1, <3>1, <3>2 DEF Ended
  <2>3. ASSUME Goto(c, "sync"), UNCHANGED <<lock, stored>>, pc[c] = "publish" PROVE OneAtWork'
    <3>1. IsAlive(c)' /\ \A d \in Command : d # c => pc'[d] = pc[d]
      BY <2>3, GotoType DEF IsAlive, Steps
    <3>2. ~HasWorkers(c)
      BY <2>3 DEF OneAtWork
    <3> QED BY <1>2, <1>a, <2>1, <2>3, <3>1, <3>2
  <2>4. ASSUME UNCHANGED <<pc, lock, stored>>, pc[c] = "pool" PROVE OneAtWork'
    BY <2>1, <2>4 DEF OneAtWork, HasWorkers, IsAlive
  <2>5. CASE Publish(c)
    BY <2>2, <2>3, <2>5 DEF Publish
  <2>6. CASE Audit(c)
    BY <2>2, <2>6 DEF Audit
  <2>7. CASE Interrupted(c)
    BY <2>2, <2>4, <2>7 DEF Interrupted
  <2> QED BY <1>9, <2>5, <2>6, <2>7
<1>10. ASSUME NEW c \in Command, Killed(c) PROVE OneAtWork'
  <2>1. /\ IsAlive(c) /\ pc'[c] = "killed" /\ lock' = lock \ {<<c, Main>>}
        /\ \A d \in Command : d # c => pc'[d] = pc[d]
        /\ UNCHANGED <<kind, job, stored>>
    BY <1>10, GotoType DEF Killed
  <2>2. \A d \in Command : ~IsAlive(d)'
    BY <2>1, <1>k DEF OneAtWork, IsAlive, Steps
  <2>3. \A d \in Command : <<d, Main>> \notin lock'
    BY <2>1, <1>k DEF OneAtWork
  <2>4. \A d \in Command : HasWorkers(d)' => pc'[d] \in {"pool", "killed"}
    BY <2>1 DEF OneAtWork, HasWorkers
  <2>5. kind = "transform" =>
          \A d \in Command, w \in Worker : job'[d][w] # Gone => <<d, w>> \in lock'
    <3>1. \A d \in Command, w \in Worker : <<d, w>> # <<c, Main>>
      OBVIOUS
    <3> QED BY <2>1, <3>1 DEF OneAtWork
  <2> QED BY <2>1, <2>2, <2>3, <2>4, <2>5 DEF OneAtWork
<1>11. ASSUME NEW c \in Command, KillOrphans(c) PROVE OneAtWork'
  <2>1. /\ UNCHANGED <<kind, pc, stored>> /\ lock' = lock \ ({c} \X Worker)
        /\ job' = [job EXCEPT ![c] = [w \in Worker |-> Gone]]
    BY <1>11 DEF KillOrphans
  <2>2. \A d \in Command : <<d, Main>> \in lock' <=> <<d, Main>> \in lock
    BY <2>1
  <2>3. \A d \in Command, w \in Worker : job'[d][w] # Gone => d # c /\ job[d][w] # Gone
    BY <2>1
  <2>4. \A d \in Command : IsAlive(d)' <=> IsAlive(d)
    BY <2>1 DEF IsAlive
  <2>5. \A d \in Command : HasWorkers(d)' => HasWorkers(d)
    BY <2>3 DEF HasWorkers
  <2>6. \A d \in Command, w \in Worker : d # c => (<<d, w>> \in lock' <=> <<d, w>> \in lock)
    BY <2>1
  <2>7. lock' \subseteq lock
    BY <2>1
  <2> QED BY <2>1, <2>2, <2>3, <2>4, <2>5, <2>6, <2>7 DEF OneAtWork
<1>12. ASSUME NEW c \in Command, NEW w \in Worker, WorkerStep(c, w) \/ WriteFails(c, w)
       PROVE OneAtWork'
  <2>1. UNCHANGED <<kind, pc, lock, stored>>
    BY <1>12 DEF WorkerStep, Take, MakeParents, Open, Write, WriteFails
  <2>2. \E j : NowAt(c, w, j)
    BY <1>12 DEF WorkerStep, Take, MakeParents, Open, Write, WriteFails, Returns
  <2>3. job[c][w] # Gone
    <3>1. job[c][w] = Idle \/ Writing(c, w)
      BY <1>12 DEF WorkerStep, Take, MakeParents, Open, Write, WriteFails, Writing
    <3>2. Idle.at = "idle" /\ Gone.at = "gone"
      BY DEF Idle, Gone
    <3>3. Idle # Gone
      BY <3>2
    <3> QED BY <3>1, <3>2, <3>3 DEF Writing
  <2>4. \A d \in Command, v \in Worker : job'[d][v] # Gone => job[d][v] # Gone
    <3>1. PICK j : job' = [job EXCEPT ![c] = [job[c] EXCEPT ![w] = j]]
      BY <2>2 DEF NowAt
    <3>2. \A d \in Command : d # c => job'[d] = job[d]
      BY <3>1
    <3>3. \A v \in Worker : v # w => job'[c][v] = job[c][v]
      BY <3>1
    <3> QED BY <2>3, <3>2, <3>3
  <2>5. \A d \in Command : HasWorkers(d)' => HasWorkers(d)
    BY <2>4 DEF HasWorkers
  <2>6. \A d \in Command : IsAlive(d)' <=> IsAlive(d)
    BY <2>1 DEF IsAlive
  <2> QED BY <2>1, <2>4, <2>5, <2>6 DEF OneAtWork
<1> QED BY <1>1, <1>5, <1>6, <1>7, <1>8, <1>9, <1>10, <1>11, <1>12 DEF Next, CommandStep

-----------------------------------------------------------------------------

\* A step is one of one command.
StepOf(c) ==
    \/ Start(c) \/ CommandStep(c) \/ WorkerDies(c) \/ Interrupted(c) \/ Killed(c)
    \/ KillOrphans(c)
    \/ \E w \in Worker : WorkerStep(c, w) \/ WriteFails(c, w)

LEMMA OthersStay ==
    ASSUME TypeOK, NEW c \in Command, StepOf(c), NEW d \in Command, d # c
    PROVE  /\ todo'[d] = todo[d] /\ queue'[d] = queue[d] /\ done'[d] = done[d]
           /\ pc'[d] = pc[d] /\ job'[d] = job[d]
<1> USE DEF TypeOK
<1>1. CASE Start(c) \/ Interrupted(c) \/ Killed(c)
  BY <1>1 DEF Start, Interrupted, Killed, Goto, End
<1>2. CASE CommandStep(c)
  <2>1. CASE Clear(c) \/ ClearTree(c) \/ Publish(c) \/ Sync(c) \/ Audit(c)
    BY <2>1 DEF Clear, ClearTree, Publish, Sync, Audit, Goto, End
  <2>2. CASE LayOut(c)
    <3>1. CASE work.there
      BY <2>2, <3>1 DEF LayOut, Goto, End
    <3>2. CASE ~work.there
      BY <2>2, <3>2 DEF LayOut, Goto
    <3> QED BY <3>1, <3>2
  <2>3. CASE Feed(c) \/ PoolEnds(c) \/ PoolFails(c)
    BY <2>3 DEF Feed, PoolEnds, PoolFails, Goto, End
  <2> QED BY <1>2, <2>1, <2>2, <2>3 DEF CommandStep
<1>3. CASE WorkerDies(c) \/ KillOrphans(c)
  BY <1>3 DEF WorkerDies, KillOrphans
<1>4. ASSUME NEW w \in Worker, WorkerStep(c, w) \/ WriteFails(c, w)
      PROVE  /\ todo'[d] = todo[d] /\ queue'[d] = queue[d] /\ done'[d] = done[d]
             /\ pc'[d] = pc[d] /\ job'[d] = job[d]
  <2>1. \E j : NowAt(c, w, j)
    BY <1>4 DEF WorkerStep, Take, MakeParents, Open, Write, WriteFails, Returns
  <2>2. job'[d] = job[d]
    BY <2>1 DEF NowAt
  <2>3. queue'[d] = queue[d] /\ UNCHANGED <<todo, pc>>
    BY <1>4 DEF WorkerStep, Take, MakeParents, Open, Write, WriteFails
  <2>4. done'[d] = done[d]
    BY <1>4 DEF WorkerStep, Take, MakeParents, Open, Write, WriteFails, Returns
  <2> QED BY <2>2, <2>3, <2>4
<1> QED BY <1>1, <1>2, <1>3, <1>4 DEF StepOf

\* The items of a command whose workers do nothing.
LEMMA ApartAtRest ==
    ASSUME NEW c \in Command, Apart(c), UNCHANGED <<done, job>>, todo'[c] = todo[c],
           queue'[c] = queue[c],
           pc'[c] # "pool" => todo[c] = {} /\ (~HasWorkers(c) => queue[c] = {}),
           pc'[c] \in {"clear", "clear tree", "lay out"} => done[c] = {},
           pc'[c] \in {"publish", "sync", "audit"} => done[c] = Item
    PROVE  Apart(c)'
BY DEF Apart, Writing, HasWorkers

LEMMA IdleIsNot == /\ Idle.at = "idle" /\ Gone.at = "gone" /\ Idle # Gone
                   /\ Idle.item = NoItem /\ Gone.item = NoItem
<1>1. Idle.at = "idle" /\ Gone.at = "gone" /\ Idle.item = NoItem /\ Gone.item = NoItem
  BY DEF Idle, Gone
<1> QED BY <1>1

\* The items of a command that has no workers any more.
LEMMA ApartAlone ==
    ASSUME TypeOK, NEW c \in Command, \A w \in Worker : job'[c][w] \in {Idle, Gone},
           todo'[c] \cap queue'[c] = {}, (todo'[c] \cup queue'[c]) \cap done'[c] = {},
           pc'[c] # "pool" => todo'[c] = {} /\ queue'[c] = {},
           pc'[c] \in {"clear", "clear tree", "lay out"} => done'[c] = {},
           pc'[c] \in {"publish", "sync", "audit"} => done'[c] = Item
    PROVE  Apart(c)'
<1>1. \A w \in Worker : job'[c][w].at \in {"idle", "gone"}
  BY IdleIsNot
<1>2. \A w \in Worker : ~Writing(c, w)'
  BY <1>1 DEF Writing
<1> QED BY <1>2 DEF Apart

\* A worker goes on with its item, or is done with it.
LEMMA ApartAtWork ==
    ASSUME TypeOK, NEW c \in Command, Apart(c), NEW w \in Worker, Writing(c, w),
           UNCHANGED <<todo, queue, pc>>, pc[c] \in {"pool", "killed"}, job'[c][w] # Gone,
           \A v \in Worker : v # w => job'[c][v] = job[c][v],
           \/ Writing(c, w)' /\ job'[c][w].item = job[c][w].item /\ done'[c] = done[c]
           \/ ~Writing(c, w)' /\ done'[c] \subseteq done[c] \cup {job[c][w].item}
    PROVE  Apart(c)'
<1>1. \A v \in Worker : v # w => (Writing(c, v)' <=> Writing(c, v))
  BY DEF Writing
<1>2. \A v \in Worker : Writing(c, v)' => Writing(c, v) /\ job'[c][v].item = job[c][v].item
  BY <1>1
<1>3. \A v \in Worker : Writing(c, v)' => job[c][v].item \notin done'[c]
  BY <1>2 DEF Apart
<1>4. (todo[c] \cup queue[c]) \cap done'[c] = {}
  BY DEF Apart
<1>5. pc[c] # "pool" /\ ~HasWorkers(c)' => queue[c] = {}
  BY DEF HasWorkers
<1> QED BY <1>1, <1>2, <1>3, <1>4, <1>5 DEF Apart

\* A worker takes an item, or goes on with it.
LEMMA TakesUp ==
    ASSUME TypeOK, NEW c \in Command, NEW w \in Worker, NEW i \in Item,
           NEW at \in {"taken", "parents", "open"}, NowAt(c, w, [item |-> i, at |-> at])
    PROVE  /\ job'[c][w].item = i /\ job'[c][w].at = at /\ job'[c][w] # Gone
           /\ \A v \in Worker : v # w => job'[c][v] = job[c][v]
           /\ \A d \in Command : d # c => job'[d] = job[d]
           /\ Writing(c, w)' /\ HasWorkers(c)'
<1>1. job \in [Command -> [Worker -> Jobs]]
  BY DEF TypeOK, Jobs
<1>2. [item |-> i, at |-> at] \in Jobs
  BY BusyJob
<1>3. /\ job'[c][w] = [item |-> i, at |-> at]
      /\ \A v \in Worker : v # w => job'[c][v] = job[c][v]
      /\ \A d \in Command : d # c => job'[d] = job[d]
  BY <1>1, <1>2, NowAtJob
<1>4. job'[c][w].item = i /\ job'[c][w].at = at
  BY <1>3
<1>5. job'[c][w] # Gone
  BY <1>4, IdleIsNot
<1> QED BY <1>3, <1>4, <1>5 DEF Writing, HasWorkers

\* A worker is done with its item.
LEMMA HandsBack ==
    ASSUME TypeOK, NEW c \in Command, NEW w \in Worker, NEW ok \in BOOLEAN, Writing(c, w),
           Returns(c, w, ok)
    PROVE  /\ job'[c][w] = Idle /\ job'[c][w] # Gone /\ ~Writing(c, w)'
           /\ \A v \in Worker : v # w => job'[c][v] = job[c][v]
           /\ \A d \in Command : d # c => job'[d] = job[d] /\ done'[d] = done[d]
           /\ done'[c] = IF ok /\ IsAlive(c) THEN done[c] \cup {job[c][w].item} ELSE done[c]
<1>1. job[c][w].item \in Item
  BY WorkerItem
<1>2. /\ job'[c][w] = Idle /\ \A v \in Worker : v # w => job'[c][v] = job[c][v]
      /\ \A d \in Command : d # c => job'[d] = job[d] /\ done'[d] = done[d]
      /\ done'[c] = IF ok /\ IsAlive(c) THEN done[c] \cup {job[c][w].item} ELSE done[c]
  BY <1>1, ReturnsType
<1> QED BY <1>2, IdleIsNot DEF Writing

\* Only a command at its pool, or killed at it, has workers that write.
LEMMA WritersPlace ==
    ASSUME TypeOK, OneAtWork, NEW c \in Command, NEW w \in Worker,
           Writing(c, w) \/ job[c][w] = Idle
    PROVE  pc[c] \in {"pool", "killed"} /\ job[c][w] # Gone
<1>1. job[c][w] # Gone
  BY IdleIsNot DEF Writing
<1> QED BY <1>1 DEF OneAtWork, HasWorkers

LEMMA MovesOver ==
    ASSUME NEW A, NEW B, A \cap B = {}, NEW i \in A
    PROVE  /\ (A \ {i}) \cup (B \cup {i}) = A \cup B
           /\ (A \ {i}) \cap (B \cup {i}) = {}
OBVIOUS

\* What a step of its own does to the items of a command.
LEMMA OwnItems ==
    ASSUME TypeOK, OneAtWork, NEW c \in Command, Apart(c), StepOf(c)
    PROVE  Apart(c)'
<1>t. /\ pc \in [Command -> Steps \cup Ended] /\ todo \in [Command -> SUBSET Item]
      /\ queue \in [Command -> SUBSET Item] /\ done \in [Command -> SUBSET Item]
      /\ job \in [Command -> [Worker -> Jobs]] /\ Idle \in Jobs /\ Gone \in Jobs
  BY DEF TypeOK, Jobs
<1> USE Words, <1>t
<1>n. ASSUME pc[c] \notin {"pool", "killed"}
      PROVE ~HasWorkers(c) /\ \A w \in Worker : job[c][w] = Gone
  BY <1>n DEF OneAtWork, HasWorkers
<1>1. CASE Start(c)
  <2>1. /\ pc[c] \in Ended /\ ~HasWorkers(c) /\ pc'[c] = "clear" /\ done'[c] = {}
        /\ UNCHANGED <<todo, queue, job>>
    BY <1>1, GotoType DEF Start
  <2>2. \A w \in Worker : job'[c][w] \in {Idle, Gone}
    BY <2>1 DEF HasWorkers
  <2>3. todo[c] = {} /\ queue[c] = {}
    BY <2>1 DEF Apart, Ended
  <2> QED BY <2>1, <2>2, <2>3, ApartAlone
<1>2. CASE Clear(c) \/ ClearTree(c)
  <2>1. /\ UNCHANGED <<todo, queue, done, job>> /\ pc[c] \in {"clear", "clear tree"}
        /\ pc'[c] \in {"clear", "clear tree", "lay out"}
    <3>1. CASE Clear(c)
      BY <3>1, GotoType DEF Clear
    <3>2. CASE ClearTree(c)
      BY <3>2, GotoType DEF ClearTree
    <3> QED BY <1>2, <3>1, <3>2
  <2>2. todo[c] = {} /\ queue[c] = {} /\ done[c] = {}
    BY <2>1, <1>n DEF Apart
  <2> QED BY <2>1, <2>2, ApartAtRest
<1>3. CASE LayOut(c)
  <2>1. pc[c] = "lay out" /\ todo[c] = {} /\ queue[c] = {} /\ done[c] = {}
    BY <1>3, <1>n DEF LayOut, Apart
  <2>2. CASE work.there
    <3>1. UNCHANGED <<todo, queue, done, job>> /\ pc'[c] = "failed"
      BY <1>3, <2>2, GotoType DEF LayOut, End
    <3> QED BY <2>1, <3>1, ApartAtRest
  <2>3. CASE ~work.there
    <3>1. /\ todo'[c] = Item /\ UNCHANGED <<queue, done>> /\ pc'[c] = "pool"
          /\ job' = [job EXCEPT ![c] = [w \in Worker |-> Idle]]
      BY <1>3, <2>3, GotoType DEF LayOut
    <3>2. \A w \in Worker : job'[c][w] \in {Idle, Gone}
      BY <3>1
    <3> QED BY <2>1, <3>1, <3>2, ApartAlone
  <2> QED BY <2>2, <2>3
<1>4. CASE Feed(c)
  <2>1. PICK i \in todo[c] : /\ todo' = [todo EXCEPT ![c] = todo[c] \ {i}]
                             /\ queue' = [queue EXCEPT ![c] = queue[c] \cup {i}]
    BY <1>4 DEF Feed
  <2>2. todo'[c] = todo[c] \ {i} /\ queue'[c] = queue[c] \cup {i}
    BY <2>1
  <2>3. UNCHANGED <<pc, job, done>> /\ pc[c] = "pool"
    BY <1>4 DEF Feed
  <2>4. todo'[c] \cup queue'[c] = todo[c] \cup queue[c] /\ todo'[c] \cap queue'[c] = {}
    <3>1. todo[c] \cap queue[c] = {}
      BY DEF Apart
    <3>2. /\ (todo[c] \ {i}) \cup (queue[c] \cup {i}) = todo[c] \cup queue[c]
          /\ (todo[c] \ {i}) \cap (queue[c] \cup {i}) = {}
      <4> HIDE <2>1, <1>t, Words
      <4> QED BY <3>1, MovesOver, Zenon
    <3> QED BY <2>2, <3>2
  <2> QED BY <2>3, <2>4 DEF Apart, Writing
<1>5. CASE PoolEnds(c)
  <2>1. /\ done[c] = Item /\ UNCHANGED <<todo, queue, done>> /\ pc'[c] = "publish"
        /\ job' = [job EXCEPT ![c] = [w \in Worker |-> Gone]]
    BY <1>5, GotoType DEF PoolEnds
  <2>2. \A w \in Worker : job'[c][w] \in {Idle, Gone}
    BY <2>1
  <2>3. todo[c] = {} /\ queue[c] = {}
    BY <2>1 DEF Apart
  <2> QED BY <2>1, <2>2, <2>3, ApartAlone
<1>6. CASE PoolFails(c)
  <2>1. /\ todo'[c] = {} /\ queue'[c] = {} /\ pc'[c] = "failed"
        /\ job' = [job EXCEPT ![c] = [w \in Worker |-> Gone]]
    BY <1>6, GotoType DEF PoolFails, End
  <2>2. \A w \in Worker : job'[c][w] \in {Idle, Gone}
    BY <2>1
  <2> QED BY <2>1, <2>2, ApartAlone
<1>7. CASE Publish(c) \/ Sync(c) \/ Audit(c)
  <2>1. /\ UNCHANGED <<todo, queue, done, job>> /\ pc[c] \in {"publish", "sync", "audit"}
        /\ pc'[c] \in {"sync", "audit", "done", "failed"}
    <3>1. CASE Publish(c)
      BY <3>1, GotoType DEF Publish, End
    <3>2. CASE Sync(c)
      BY <3>2, GotoType DEF Sync
    <3>3. CASE Audit(c)
      BY <3>3, GotoType DEF Audit, End
    <3> QED BY <1>7, <3>1, <3>2, <3>3
  <2>2. todo[c] = {} /\ queue[c] = {} /\ done[c] = Item
    BY <2>1, <1>n DEF Apart
  <2> QED BY <2>1, <2>2, ApartAtRest
<1>8. CASE WorkerDies(c)
  <2>1. /\ UNCHANGED <<todo, queue, done, pc>> /\ pc[c] = "pool"
        /\ job' = [job EXCEPT ![c] = [w \in Worker |-> Gone]]
    BY <1>8 DEF WorkerDies
  <2>2. \A w \in Worker : job'[c][w] \in {Idle, Gone}
    BY <2>1
  <2>3. todo[c] \cap queue[c] = {} /\ (todo[c] \cup queue[c]) \cap done[c] = {}
    BY DEF Apart
  <2> QED BY <2>1, <2>2, <2>3, ApartAlone
<1>9. CASE Interrupted(c)
  <2>1. UNCHANGED <<todo, queue, done, job>> /\ pc[c] \in Steps
    BY <1>9 DEF Interrupted, IsAlive
  <2>2. CASE pc[c] = "pool"
    <3>1. UNCHANGED pc
      BY <1>9, <2>2 DEF Interrupted
    <3> QED BY <2>1, <2>2, <3>1, ApartAtRest
  <2>3. CASE pc[c] # "pool"
    <3>1. pc'[c] = "failed" /\ pc[c] # "killed"
      BY <1>9, <2>1, <2>3, GotoType DEF Interrupted, End, Steps
    <3>2. todo[c] = {} /\ queue[c] = {}
      BY <2>3, <3>1, <1>n DEF Apart
    <3> QED BY <2>1, <3>1, <3>2, ApartAtRest
  <2> QED BY <2>2, <2>3
<1>10. CASE Killed(c)
  <2>1. /\ todo'[c] = {} /\ UNCHANGED <<job, done>> /\ pc'[c] = "killed"
        /\ queue'[c] = IF HasWorkers(c) THEN queue[c] ELSE {}
    BY <1>10, GotoType DEF Killed
  <2>2. HasWorkers(c)' = HasWorkers(c) /\ \A w \in Worker : Writing(c, w)' = Writing(c, w)
    BY <2>1 DEF HasWorkers, Writing
  <2> QED BY <2>1, <2>2 DEF Apart
<1>11. CASE KillOrphans(c)
  <2>1. /\ UNCHANGED <<todo, done, pc>> /\ pc[c] = "killed" /\ queue'[c] = {}
        /\ job' = [job EXCEPT ![c] = [w \in Worker |-> Gone]]
    BY <1>11 DEF KillOrphans
  <2>2. \A w \in Worker : job'[c][w] \in {Idle, Gone}
    BY <2>1
  <2>3. todo[c] = {}
    BY <2>1 DEF Apart
  <2> QED BY <2>1, <2>2, <2>3, ApartAlone
<1>12. ASSUME NEW w \in Worker, Take(c, w) PROVE Apart(c)'
  <2>1. PICK i \in queue[c] : /\ queue' = [queue EXCEPT ![c] = queue[c] \ {i}]
                              /\ NowAt(c, w, [item |-> i, at |-> "taken"])
    BY <1>12 DEF Take
  <2>2. /\ job'[c][w].item = i /\ Writing(c, w)' /\ HasWorkers(c)'
        /\ \A v \in Worker : v # w => job'[c][v] = job[c][v]
    BY <2>1, TakesUp
  <2>3. /\ UNCHANGED <<todo, done, pc>> /\ queue'[c] = queue[c] \ {i} /\ job[c][w] = Idle
    BY <1>12, <2>1 DEF Take
  <2>4. pc[c] \in {"pool", "killed"} /\ ~Writing(c, w)
    BY <2>3, WritersPlace, IdleIsNot DEF Writing
  <2>6. \A v \in Worker : v # w => Writing(c, v)' = Writing(c, v)
    BY <2>2 DEF Writing
  <2>7. i \notin todo[c] \cup queue'[c] \cup done[c]
    BY <2>3 DEF Apart
  <2>8. \A v \in Worker : Writing(c, v) => job[c][v].item # i
    BY DEF Apart
  <2> QED BY <2>2, <2>3, <2>4, <2>6, <2>7, <2>8 DEF Apart
<1>13. ASSUME NEW w \in Worker, Writing(c, w), UNCHANGED <<todo, queue, done, pc>>,
              NEW at \in {"taken", "parents", "open"},
              NowAt(c, w, [item |-> job[c][w].item, at |-> at])
       PROVE Apart(c)'
  <2>1. job[c][w].item \in Item
    BY <1>13, WorkerItem
  <2>2. /\ Writing(c, w)' /\ job'[c][w].item = job[c][w].item /\ job'[c][w] # Gone
        /\ \A v \in Worker : v # w => job'[c][v] = job[c][v]
    BY <1>13, <2>1, TakesUp
  <2> QED BY <1>13, <2>2, WritersPlace, ApartAtWork
<1>14. ASSUME NEW w \in Worker, NEW ok \in BOOLEAN, Writing(c, w), Returns(c, w, ok),
              UNCHANGED <<todo, queue, pc>>
       PROVE Apart(c)'
  <2>1. /\ ~Writing(c, w)' /\ job'[c][w] # Gone
        /\ \A v \in Worker : v # w => job'[c][v] = job[c][v]
        /\ done'[c] \subseteq done[c] \cup {job[c][w].item}
    BY <1>14, HandsBack
  <2> QED BY <1>14, <2>1, WritersPlace, ApartAtWork
<1>15. ASSUME NEW w \in Worker, MakeParents(c, w) \/ Open(c, w) PROVE Apart(c)'
  <2>1. Writing(c, w) /\ UNCHANGED <<todo, queue, pc>>
    BY <1>15 DEF MakeParents, Open, Writing
  <2>2. CASE Returns(c, w, FALSE)
    BY <1>14, <2>1, <2>2
  <2>3. CASE /\ UNCHANGED done
             /\ \E at \in {"parents", "open"} : NowAt(c, w, [item |-> job[c][w].item, at |-> at])
    BY <1>13, <2>1, <2>3
  <2> QED BY <1>15, <2>2, <2>3 DEF MakeParents, Open
<1>16. ASSUME NEW w \in Worker, Write(c, w) \/ WriteFails(c, w) PROVE Apart(c)'
  <2>1. Writing(c, w) /\ UNCHANGED <<todo, queue, pc>>
    BY <1>16 DEF Write, WriteFails, Writing
  <2>2. \E ok \in BOOLEAN : Returns(c, w, ok)
    <3>1. (kind = "materialize" \/ work.there) \in BOOLEAN
      OBVIOUS
    <3> QED BY <1>16, <3>1 DEF Write, WriteFails
  <2> QED BY <1>14, <2>1, <2>2
<1> QED BY <1>1, <1>2, <1>3, <1>4, <1>5, <1>6, <1>7, <1>8, <1>9, <1>10, <1>11, <1>12,
           <1>15, <1>16 DEF StepOf, CommandStep, WorkerStep

LEMMA ItemsStep == ASSUME TypeOK, OneAtWork, ItemsApart, Next PROVE ItemsApart'
<1>1. PICK c \in Command : StepOf(c)
  BY DEF Next, StepOf
<1>2. Apart(c)'
  BY <1>1, OwnItems DEF ItemsApart
<1>3. ASSUME NEW d \in Command, d # c PROVE Apart(d)'
  <2>1. /\ todo'[d] = todo[d] /\ queue'[d] = queue[d] /\ done'[d] = done[d]
        /\ pc'[d] = pc[d] /\ job'[d] = job[d]
    BY <1>1, <1>3, OthersStay
  <2>2. Apart(d)
    BY DEF ItemsApart
  <2> QED BY <2>1, <2>2 DEF Apart, Writing, HasWorkers
<1> QED BY <1>2, <1>3 DEF ItemsApart

-----------------------------------------------------------------------------

\* Two commands are never at work together.
LEMMA OnlyOne == ASSUME OneAtWork, NEW c \in Command, NEW d \in Command, IsAlive(c), IsAlive(d)
                 PROVE c = d
<1>1. <<c, Main>> \in lock /\ <<c, Main>>[1] = c
  BY DEF OneAtWork
<1> QED BY <1>1 DEF OneAtWork

LEMMA FileIs == /\ \A c \in Command, i \in Item : File(c, i) # NoFile /\ File(c, i) \in Command \X Item
                /\ \A c, d \in Command, i, k \in Item : File(c, i) = File(d, k) => c = d /\ i = k
BY NoAssumption DEF File

LEMMA WorkIs == ASSUME TypeOK
                PROVE  /\ work.there \in BOOLEAN /\ work.file \in [Item -> {NoFile} \cup (Command \X Item)]
                       /\ tree.there \in BOOLEAN /\ tree.file \in [Item -> {NoFile} \cup (Command \X Item)]
                       /\ NoTree.there = FALSE /\ EmptyTree.there = TRUE
                       /\ \A i \in Item : NoTree.file[i] = NoFile /\ EmptyTree.file[i] = NoFile
BY DEF TypeOK, Directory, NoTree, EmptyTree

\* Nothing but a new pool puts an item ahead.
LEMMA AheadShrinks ==
    ASSUME TypeOK, NEW c \in Command, StepOf(c), ~(LayOut(c) /\ ~work.there),
           NEW i \in Item, Ahead(c, i)'
    PROVE  Ahead(c, i)
<1>t. /\ todo \in [Command -> SUBSET Item] /\ queue \in [Command -> SUBSET Item]
      /\ job \in [Command -> [Worker -> Jobs]] /\ Gone \in Jobs /\ Idle \in Jobs
  BY DEF TypeOK, Jobs
<1> USE <1>t
<1>1. CASE Start(c) \/ Clear(c) \/ ClearTree(c) \/ Publish(c) \/ Sync(c) \/ Audit(c) \/ Interrupted(c)
  <2>1. UNCHANGED <<todo, queue, job>>
    BY <1>1 DEF Start, Clear, ClearTree, Publish, Sync, Audit, Interrupted
  <2> QED BY <2>1 DEF Ahead
<1>2. CASE LayOut(c)
  <2>1. UNCHANGED <<todo, queue, job>>
    BY <1>2 DEF LayOut
  <2> QED BY <2>1 DEF Ahead
<1>3. CASE Feed(c)
  <2>1. todo'[c] \cup queue'[c] \subseteq todo[c] \cup queue[c] /\ UNCHANGED job
    BY <1>3 DEF Feed
  <2> QED BY <2>1 DEF Ahead
<1>4. CASE PoolEnds(c) \/ PoolFails(c) \/ WorkerDies(c) \/ KillOrphans(c)
  <2>1. todo'[c] \subseteq todo[c] /\ queue'[c] \subseteq queue[c]
    BY <1>4 DEF PoolEnds, PoolFails, WorkerDies, KillOrphans
  <2>2. \A w \in Worker : job'[c][w] = Gone
    BY <1>4 DEF PoolEnds, PoolFails, WorkerDies, KillOrphans
  <2> QED BY <2>1, <2>2, IdleIsNot DEF Ahead
<1>5. CASE Killed(c)
  <2>1. todo'[c] \subseteq todo[c] /\ queue'[c] \subseteq queue[c] /\ UNCHANGED job
    BY <1>5 DEF Killed
  <2> QED BY <2>1 DEF Ahead
<1>6. ASSUME NEW w \in Worker, Take(c, w) PROVE Ahead(c, i)
  <2>1. PICK k \in queue[c] : /\ queue' = [queue EXCEPT ![c] = queue[c] \ {k}]
                              /\ NowAt(c, w, [item |-> k, at |-> "taken"])
    BY <1>6 DEF Take
  <2>2. job'[c][w].item = k /\ \A v \in Worker : v # w => job'[c][v] = job[c][v]
    BY <2>1, TakesUp
  <2>3. UNCHANGED todo /\ queue'[c] \subseteq queue[c] /\ k \in queue[c]
    BY <1>6, <2>1 DEF Take
  <2> QED BY <2>2, <2>3 DEF Ahead
<1>7. ASSUME NEW w \in Worker, Writing(c, w), UNCHANGED <<todo, queue>>,
             NEW at \in {"taken", "parents", "open"}, at = "open" \/ job[c][w].at = "taken",
             NowAt(c, w, [item |-> job[c][w].item, at |-> at])
      PROVE  Ahead(c, i)
  <2>0. job[c][w].item \in Item
    BY <1>7, WorkerItem
  <2>1. /\ job'[c][w].item = job[c][w].item /\ job'[c][w].at = at
        /\ \A v \in Worker : v # w => job'[c][v] = job[c][v]
    BY <1>7, <2>0, TakesUp
  <2> QED BY <1>7, <2>1 DEF Ahead
<1>8. ASSUME NEW w \in Worker, Writing(c, w), UNCHANGED <<todo, queue>>, NEW ok \in BOOLEAN,
             Returns(c, w, ok)
      PROVE  Ahead(c, i)
  <2>1. job'[c][w] = Idle /\ \A v \in Worker : v # w => job'[c][v] = job[c][v]
    BY <1>8, HandsBack
  <2> QED BY <1>8, <2>1, IdleIsNot DEF Ahead
<1>9. ASSUME NEW w \in Worker, MakeParents(c, w) \/ Open(c, w) PROVE Ahead(c, i)
  <2>1. Writing(c, w) /\ UNCHANGED <<todo, queue>>
    BY <1>9 DEF MakeParents, Open, Writing
  <2>2. CASE Returns(c, w, FALSE)
    BY <1>8, <2>1, <2>2
  <2>3. CASE \E at \in {"taken", "parents", "open"} :
                /\ NowAt(c, w, [item |-> job[c][w].item, at |-> at])
                /\ at = "open" \/ job[c][w].at = "taken"
    <3>1. PICK at \in {"taken", "parents", "open"} :
                /\ NowAt(c, w, [item |-> job[c][w].item, at |-> at])
                /\ at = "open" \/ job[c][w].at = "taken"
      BY <2>3
    <3> QED BY <1>7, <2>1, <3>1
  <2> QED BY <1>9, <2>2, <2>3 DEF MakeParents, Open
<1>10. ASSUME NEW w \in Worker, Write(c, w) \/ WriteFails(c, w) PROVE Ahead(c, i)
  <2>1. Writing(c, w) /\ UNCHANGED <<todo, queue>>
    BY <1>10 DEF Write, WriteFails, Writing
  <2>2. \E ok \in BOOLEAN : Returns(c, w, ok)
    <3>1. (kind = "materialize" \/ work.there) \in BOOLEAN
      OBVIOUS
    <3> QED BY <1>10, <3>1 DEF Write, WriteFails
  <2> QED BY <1>8, <2>1, <2>2
<1> QED BY <1>1, <1>2, <1>3, <1>4, <1>5, <1>6, <1>9, <1>10 DEF StepOf, CommandStep, WorkerStep

\* What a step of command c, or of its workers, can put into the directories.
LEMMA Directories ==
    ASSUME TypeOK, OneAtWork, NEW c \in Command, Apart(c), StepOf(c), NEW k \in Item
    PROVE  /\ \/ work'.file[k] \in {work.file[k], NoFile}
              \/ work'.file[k] = File(c, k) /\ ~Ahead(c, k)'
           /\ tree'.file[k] \in {tree.file[k], work.file[k], NoFile}
<1> USE WorkIs
<1>1. CASE Start(c) \/ Interrupted(c) \/ Killed(c) \/ WorkerDies(c) \/ KillOrphans(c)
  BY <1>1 DEF Start, Interrupted, Killed, WorkerDies, KillOrphans
<1>2. CASE CommandStep(c)
  <2>1. CASE Clear(c)
    <3>1. UNCHANGED tree
      BY <2>1 DEF Clear
    <3>2. ASSUME NEW i \in Item, work' = With(work, i, NoFile)
          PROVE  work'.file[k] \in {work.file[k], NoFile}
      BY <3>2, WithType DEF TypeOK
    <3>3. CASE work' = NoTree
      BY <3>1, <3>3
    <3> QED BY <2>1, <3>1, <3>2, <3>3 DEF Clear
  <2>2. CASE ClearTree(c) \/ Feed(c) \/ PoolEnds(c) \/ PoolFails(c) \/ Publish(c) \/ Sync(c) \/ Audit(c)
    BY <2>2 DEF ClearTree, Feed, PoolEnds, PoolFails, Publish, Sync, Audit
  <2>3. CASE LayOut(c)
    BY <2>3 DEF LayOut
  <2> QED BY <1>2, <2>1, <2>2, <2>3 DEF CommandStep
<1>3. ASSUME NEW w \in Worker, WorkerStep(c, w) \/ WriteFails(c, w), UNCHANGED tree
      PROVE  \/ work'.file[k] \in {work.file[k], NoFile}
             \/ work'.file[k] = File(c, k) /\ ~Ahead(c, k)'
  <2>1. CASE Take(c, w) \/ MakeParents(c, w)
    BY <2>1 DEF Take, MakeParents
  <2>2. ASSUME job[c][w].at \in {"parents", "open"},
               work' = With(work, job[c][w].item, File(c, job[c][w].item)),
               \A v \in Worker : v # w => job'[c][v] = job[c][v],
               job'[c][w].at \notin {"taken", "parents"}, UNCHANGED <<todo, queue>>
        PROVE  \/ work'.file[k] = work.file[k]
               \/ work'.file[k] = File(c, k) /\ ~Ahead(c, k)'
    <3>1. Writing(c, w) /\ job[c][w].item \in Item /\ File(c, job[c][w].item) \in Command \X Item
      BY <2>2, WorkerItem DEF Writing
    <3>2. CASE k = job[c][w].item
      <4>1. work'.file[k] = File(c, k)
        BY <2>2, <3>1, <3>2, WithType DEF TypeOK
      <4>2. k \notin todo[c] \cup queue[c]
        BY <3>1, <3>2 DEF Apart
      <4>3. \A v \in Worker : v # w /\ Writing(c, v) => job[c][v].item # k
        BY <3>1, <3>2 DEF Apart
      <4>4. ~Ahead(c, k)'
        BY <2>2, <4>2, <4>3 DEF Ahead, Writing
      <4> QED BY <4>1, <4>4
    <3>3. CASE k # job[c][w].item
      BY <2>2, <3>1, <3>3, WithType DEF TypeOK
    <3> QED BY <3>2, <3>3
  <2>3. CASE Open(c, w)
    <3>1. CASE work' = work
      BY <3>1
    <3>2. CASE work' # work
      <4>1. /\ job[c][w].at = "parents" /\ work' = With(work, job[c][w].item, File(c, job[c][w].item))
            /\ NowAt(c, w, [item |-> job[c][w].item, at |-> "open"]) /\ UNCHANGED <<todo, queue>>
        BY <2>3, <3>2 DEF Open
      <4>2. job[c][w].item \in Item
        BY <4>1, WorkerItem DEF Writing
      <4>3. job'[c][w].at = "open" /\ \A v \in Worker : v # w => job'[c][v] = job[c][v]
        BY <4>1, <4>2, TakesUp
      <4> QED BY <2>2, <4>1, <4>3
    <3> QED BY <3>1, <3>2
  <2>4. CASE Write(c, w)
    <3>1. CASE work' = work
      BY <3>1
    <3>2. CASE work' # work
      <4>1. /\ job[c][w].at = "open" /\ work' = With(work, job[c][w].item, File(c, job[c][w].item))
            /\ UNCHANGED <<todo, queue>>
        BY <2>4, <3>2 DEF Write
      <4>2. Writing(c, w) /\ \E ok \in BOOLEAN : Returns(c, w, ok)
        <5>1. (kind = "materialize" \/ work.there) \in BOOLEAN
          OBVIOUS
        <5> QED BY <2>4, <4>1, <5>1 DEF Write, Writing
      <4>3. job'[c][w] = Idle /\ \A v \in Worker : v # w => job'[c][v] = job[c][v]
        <5>1. PICK ok \in BOOLEAN : Returns(c, w, ok)
          BY <4>2
        <5> QED BY <4>2, <5>1, HandsBack
      <4>4. job'[c][w].at = "idle"
        BY <4>3, IdleIsNot
      <4> QED BY <2>2, <4>1, <4>3, <4>4
    <3> QED BY <3>1, <3>2
  <2>5. CASE WriteFails(c, w)
    <3>1. work' = work \/ work' = With(work, job[c][w].item, NoFile)
      BY <2>5 DEF WriteFails
    <3>2. job[c][w].item \in Item
      BY <2>5, WorkerItem DEF WriteFails, Writing
    <3> QED BY <3>1, <3>2, WithType DEF TypeOK
  <2> QED BY <1>3, <2>1, <2>3, <2>4, <2>5 DEF WorkerStep
<1>4. ASSUME NEW w \in Worker, WorkerStep(c, w) \/ WriteFails(c, w) PROVE UNCHANGED tree
  BY <1>4 DEF WorkerStep, Take, MakeParents, Open, Write, WriteFails
<1> QED BY <1>1, <1>2, <1>3, <1>4 DEF StepOf

LEMMA AheadStep ==
    ASSUME TypeOK, OneAtWork, ItemsApart, AheadIsNew, Next
    PROVE  AheadIsNew'
<1>1. PICK c \in Command : StepOf(c)
  BY DEF Next, StepOf
<1>2. Apart(c)
  BY DEF ItemsApart
<1>3. ASSUME NEW d \in Command, pc'[d] = "lay out" PROVE tree' = NoTree
  <2>1. CASE ClearTree(c)
    BY <2>1 DEF ClearTree
  <2>2. CASE ~ClearTree(c)
    <3>1. pc[d] = "lay out"
      <4>1. CASE d # c
        BY <1>1, <1>3, <4>1, OthersStay
      <4>2. CASE d = c
        <5>1. pc'[c] = pc[c] \/ pc'[c] \in (Steps \cup Ended) \ {"lay out"}
          BY <1>1, <2>2, Words, GotoType DEF StepOf, CommandStep, WorkerStep, Start, Clear, LayOut, Feed,
             PoolEnds, PoolFails, Publish, Sync, Audit, WorkerDies, Interrupted, Killed, KillOrphans,
             Take, MakeParents, Open, Write, WriteFails, End
        <5> QED BY <1>3, <4>2, <5>1
      <4> QED BY <4>1, <4>2
    <3>2. tree = NoTree
      BY <3>1 DEF AheadIsNew
    <3>3. ~Publish(c)
      <4>1. Publish(c) => c = d
        BY <3>1, OnlyOne DEF Publish, IsAlive, Steps
      <4> QED BY <3>1, <4>1 DEF Publish
    <3>4. UNCHANGED tree
      BY <1>1, <2>2, <3>3 DEF StepOf, CommandStep, WorkerStep, Start, Clear, LayOut, Feed,
         PoolEnds, PoolFails, Sync, Audit, WorkerDies, Interrupted, Killed, KillOrphans,
         Take, MakeParents, Open, Write, WriteFails
    <3> QED BY <3>2, <3>4
  <2> QED BY <2>1, <2>2
<1>4. ASSUME NEW d \in Command, NEW i \in Item, Ahead(d, i)', NEW k \in Item
      PROVE  work'.file[k] # File(d, i) /\ tree'.file[k] # File(d, i)
  <2>1. CASE LayOut(c) /\ ~work.there
    <3>1. work' = EmptyTree /\ tree = NoTree /\ UNCHANGED tree
      BY <2>1 DEF LayOut, AheadIsNew
    <3> QED BY <3>1, WorkIs, FileIs
  <2>2. CASE ~(LayOut(c) /\ ~work.there)
    <3>1. Ahead(d, i)
      <4>1. CASE d = c
        BY <1>1, <1>4, <2>2, <4>1, AheadShrinks
      <4>2. CASE d # c
        BY <1>1, <1>4, <4>2, OthersStay DEF Ahead
      <4> QED BY <4>1, <4>2
    <3>2. work.file[k] # File(d, i) /\ tree.file[k] # File(d, i) /\ NoFile # File(d, i)
      BY <3>1, FileIs DEF AheadIsNew
    <3>3. \/ work'.file[k] \in {work.file[k], NoFile}
          \/ work'.file[k] = File(c, k) /\ ~Ahead(c, k)'
      BY <1>1, <1>2, Directories
    <3>4. tree'.file[k] \in {tree.file[k], work.file[k], NoFile}
      BY <1>1, <1>2, Directories
    <3>5. CASE work'.file[k] = File(c, k) /\ ~Ahead(c, k)'
      <4>1. ~(c = d /\ k = i)
        BY <1>4, <3>5
      <4>2. File(c, k) # File(d, i)
        BY <4>1, FileIs
      <4> QED BY <3>2, <3>4, <3>5, <4>2
    <3> QED BY <3>2, <3>3, <3>4, <3>5
  <2> QED BY <2>1, <2>2
<1> QED BY <1>3, <1>4 DEF AheadIsNew

-----------------------------------------------------------------------------

\* A worker of d has file i open after the step.
StillOpen(d, i) ==
    kind = "materialize" /\ \E w \in Worker : job'[d][w].item = i /\ job'[d][w].at = "open"

\* No step takes away what a command at its pool has made, unless a write of a killed
\* command's worker fails.
LEMMA Keeps ==
    ASSUME TypeOK, OneAtWork, ItemsApart, NEW c \in Command, StepOf(c),
           NEW d \in Command, pc[d] \in {"pool", "publish"}, pc'[d] \in {"pool", "publish"},
           NEW i \in Item, work.file[i] = File(d, i), ~slips', work.there,
           i \in done[d] \/ StillOpen(d, i)
    PROVE  work'.file[i] = File(d, i)
<1>a. IsAlive(d) /\ File(d, i) # NoFile
  BY FileIs DEF IsAlive, Steps
<1>1. CASE Start(c) \/ Interrupted(c) \/ Killed(c) \/ WorkerDies(c) \/ KillOrphans(c)
  BY <1>1 DEF Start, Interrupted, Killed, WorkerDies, KillOrphans
<1>2. CASE CommandStep(c)
  <2>1. IsAlive(c)
    BY <1>2 DEF CommandStep, Clear, ClearTree, LayOut, Feed, PoolEnds, PoolFails, Publish, Sync, Audit,
                IsAlive, Steps
  <2>2. c = d
    BY <1>a, <2>1, OnlyOne
  <2>3. CASE Publish(c)
    <3>1. pc'[c] \in {"sync", "failed"}
      BY <2>3, GotoType, Words DEF Publish, End
    <3> QED BY <2>2, <3>1
  <2>4. CASE ~Publish(c)
    BY <1>2, <2>2, <2>4 DEF CommandStep, Clear, ClearTree, LayOut, Feed, PoolEnds, PoolFails, Sync, Audit
  <2> QED BY <2>3, <2>4
<1>3. ASSUME NEW w \in Worker, WorkerStep(c, w) \/ WriteFails(c, w) PROVE work'.file[i] = File(d, i)
  <2>1. CASE Take(c, w) \/ MakeParents(c, w)
    BY <2>1 DEF Take, MakeParents
  <2>2. CASE Open(c, w)
    <3>1. CASE work' = work
      BY <3>1
    <3>2. CASE work' # work
      <4>1. /\ work' = With(work, job[c][w].item, File(c, job[c][w].item))
            /\ work.file[job[c][w].item] = NoFile /\ job[c][w].at = "parents"
        BY <2>2, <3>2 DEF Open
      <4>2. job[c][w].item \in Item /\ File(c, job[c][w].item) \in Command \X Item
        BY <4>1, WorkerItem DEF Writing
      <4>3. job[c][w].item # i
        BY <1>a, <4>1
      <4> QED BY <4>1, <4>2, <4>3, WithType DEF TypeOK
    <3> QED BY <3>1, <3>2
  <2>3. CASE Write(c, w)
    <3>1. CASE work' = work
      BY <3>1
    <3>2. CASE work' # work
      <4>1. /\ work' = With(work, job[c][w].item, File(c, job[c][w].item))
            /\ kind = "transform" /\ job[c][w].at = "open"
        BY <2>3, <3>2 DEF Write
      <4>2. job[c][w].item \in Item /\ File(c, job[c][w].item) \in Command \X Item
        BY <4>1, WorkerItem DEF Writing
      <4>3. job[c][w] # Gone
        BY <4>1, WorkerItem, IdleIsNot
      <4>4. c = d
        BY <1>a, <4>1, <4>3, OnlyHolder
      <4> QED BY <4>1, <4>2, <4>4, WithType DEF TypeOK
    <3> QED BY <3>1, <3>2
  <2>4. CASE WriteFails(c, w)
    <3>1. CASE work' = work
      BY <3>1
    <3>2. CASE work' # work
      <4>1. /\ work' = With(work, job[c][w].item, NoFile) /\ Returns(c, w, FALSE) /\ pc[c] # "killed"
            /\ kind = "materialize" /\ job[c][w].at = "open" /\ UNCHANGED <<pc, todo, queue>>
        BY <2>4, <3>2 DEF WriteFails, TypeOK
      <4>2. Writing(c, w) /\ job[c][w].item \in Item /\ NoFile \in {NoFile} \cup (Command \X Item)
        BY <4>1, WorkerItem DEF Writing
      <4>3. pc[c] = "pool"
        BY <4>1, <4>2, WritersPlace
      <4>4. c = d
        BY <1>a, <4>3, OnlyOne DEF IsAlive, Steps
      <4>5. job[c][w].item # i
        <5>1. CASE i \in done[d]
          <6>1. Apart(c)
            BY DEF ItemsApart
          <6> QED BY <4>2, <4>4, <5>1, <6>1 DEF Apart
        <5>2. CASE StillOpen(d, i)
          <6>1. PICK v \in Worker : job'[d][v].item = i /\ job'[d][v].at = "open"
            BY <5>2 DEF StillOpen
          <6>2. job'[c][w] = Idle /\ \A u \in Worker : u # w => job'[c][u] = job[c][u]
            BY <4>1, <4>2, HandsBack
          <6>3. v # w /\ job[c][v] = job'[c][v]
            BY <4>4, <6>1, <6>2, IdleIsNot
          <6>4. Writing(c, v) /\ job[c][v].item = i
            BY <4>4, <6>1, <6>3 DEF Writing
          <6> QED BY <4>2, <6>3, <6>4 DEF ItemsApart, Apart
        <5> QED BY <5>1, <5>2
      <4> QED BY <4>1, <4>2, <4>5, WithType DEF TypeOK
    <3> QED BY <3>1, <3>2
  <2> QED BY <1>3, <2>1, <2>2, <2>3, <2>4 DEF WorkerStep
<1> QED BY <1>1, <1>2, <1>3 DEF StepOf

\* What is whole stays so, but for a file that is made again.
LEMMA WholeStays ==
    ASSUME TypeOK, NEW c \in Command, StepOf(c), NEW f \in whole
    PROVE  f \in whole' \/ \E i \in Item : f = File(c, i) /\ Ahead(c, i)
<1>1. ASSUME NEW w \in Worker, Open(c, w)
      PROVE f \in whole' \/ \E i \in Item : f = File(c, i) /\ Ahead(c, i)
  <2>1. job[c][w].at = "parents" /\ (f \in whole' \/ f = File(c, job[c][w].item))
    BY <1>1 DEF Open
  <2>2. job[c][w].item \in Item
    BY <2>1, WorkerItem DEF Writing
  <2> QED BY <2>1, <2>2 DEF Ahead
<1>2. ASSUME NEW w \in Worker, Take(c, w) \/ MakeParents(c, w) \/ Write(c, w) \/ WriteFails(c, w)
      PROVE whole \subseteq whole'
  BY <1>2 DEF Take, MakeParents, Write, WriteFails
<1>3. CASE Start(c) \/ CommandStep(c) \/ WorkerDies(c) \/ Interrupted(c) \/ Killed(c) \/ KillOrphans(c)
  BY <1>3 DEF CommandStep, Start, Clear, ClearTree, LayOut, Feed, PoolEnds, PoolFails, Publish, Sync,
     Audit, WorkerDies, Interrupted, Killed, KillOrphans
<1> QED BY <1>1, <1>2, <1>3 DEF StepOf, WorkerStep

\* Where new results come from.
LEMMA NewlyDone ==
    ASSUME TypeOK, OneAtWork, NEW c \in Command, StepOf(c), NEW d \in Command,
           pc'[d] \in {"pool", "publish"}, NEW i \in done'[d], i \notin done[d]
    PROVE  c = d /\ \E w \in Worker : /\ Write(c, w) /\ job[c][w].item = i /\ job[c][w].at = "open"
                                     /\ IsAlive(c) /\ (kind = "materialize" \/ work.there)
<1>1. c = d
  BY OthersStay
<1>2. ~Start(c)
  <2>1. Start(c) => pc'[c] = "clear"
    BY Words, GotoType DEF Start
  <2> QED BY <1>1, <2>1
<1>3. UNCHANGED done \/ \E w \in Worker : Open(c, w) \/ Write(c, w) \/ WriteFails(c, w)
  BY <1>2 DEF StepOf, CommandStep, WorkerStep, Clear, ClearTree, LayOut, Feed, PoolEnds, PoolFails,
     Publish, Sync, Audit, WorkerDies, Interrupted, Killed, KillOrphans, Take, MakeParents
<1>4. PICK w \in Worker : Open(c, w) \/ Write(c, w) \/ WriteFails(c, w)
  BY <1>1, <1>3
<1>5. Writing(c, w)
  BY <1>4 DEF Open, Write, WriteFails, Writing
<1>6. ~Open(c, w) /\ ~WriteFails(c, w)
  <2>1. Returns(c, w, FALSE) => done'[c] = done[c]
    BY <1>5, HandsBack
  <2>2. (Open(c, w) \/ WriteFails(c, w)) => Returns(c, w, FALSE) \/ UNCHANGED done
    BY DEF Open, WriteFails
  <2> QED BY <1>1, <2>1, <2>2
<1>7. Write(c, w) /\ Returns(c, w, kind = "materialize" \/ work.there) /\ job[c][w].at = "open"
  BY <1>4, <1>6 DEF Write
<1>8. PICK ok \in BOOLEAN : ok = (kind = "materialize" \/ work.there) /\ Returns(c, w, ok)
  <2>1. (kind = "materialize" \/ work.there) \in BOOLEAN
    OBVIOUS
  <2> QED BY <1>7, <2>1
<1>9. done'[c] = IF ok /\ IsAlive(c) THEN done[c] \cup {job[c][w].item} ELSE done[c]
  BY <1>5, <1>8, HandsBack
<1>10. ok /\ IsAlive(c) /\ job[c][w].item = i
  BY <1>1, <1>9
<1> QED BY <1>1, <1>7, <1>8, <1>10

\* Where newly opened files come from.
LEMMA NewlyOpen ==
    ASSUME TypeOK, NEW c \in Command, StepOf(c), NEW d \in Command, NEW w \in Worker,
           job'[d][w].at = "open", job[d][w] # job'[d][w], kind = "materialize"
    PROVE  /\ d = c /\ job'[d][w].item \in Item
           /\ work'.file[job'[d][w].item] = File(d, job'[d][w].item)
<1>1. c = d
  BY OthersStay
<1>t. /\ job \in [Command -> [Worker -> Jobs]] /\ Idle \in Jobs /\ Gone \in Jobs
  BY DEF TypeOK, Jobs
<1>2. CASE UNCHANGED job
  BY <1>2
<1>3. CASE LayOut(c) \/ PoolEnds(c) \/ PoolFails(c) \/ WorkerDies(c) \/ KillOrphans(c)
  <2>1. UNCHANGED job \/ job'[c][w] = Idle \/ job'[c][w] = Gone
    <3>1. CASE LayOut(c)
      BY <3>1, <1>t DEF LayOut
    <3>2. CASE PoolEnds(c) \/ PoolFails(c) \/ WorkerDies(c) \/ KillOrphans(c)
      <4>1. job' = [job EXCEPT ![c] = [v \in Worker |-> Gone]]
        BY <3>2 DEF PoolEnds, PoolFails, WorkerDies, KillOrphans
      <4> QED BY <4>1, <1>t
    <3> QED BY <1>3, <3>1, <3>2
  <2> QED BY <1>1, <2>1, IdleIsNot
<1>4. ASSUME NEW v \in Worker, Writing(c, v), NEW ok \in BOOLEAN, Returns(c, v, ok) PROVE FALSE
  <2>1. job'[c][v] = Idle /\ \A u \in Worker : u # v => job'[c][u] = job[c][u]
    BY <1>4, HandsBack
  <2> QED BY <1>1, <2>1, IdleIsNot
<1>5. ASSUME NEW v \in Worker, NEW k \in Item, NEW at \in {"taken", "parents"},
             NowAt(c, v, [item |-> k, at |-> at])
      PROVE  FALSE
  <2>1. job'[c][v].at = at /\ \A u \in Worker : u # v => job'[c][u] = job[c][u]
    BY <1>5, TakesUp
  <2> QED BY <1>1, <2>1
<1>6. ASSUME NEW v \in Worker, Take(c, v) PROVE FALSE
  <2>1. PICK k \in queue[c] : NowAt(c, v, [item |-> k, at |-> "taken"])
    BY <1>6 DEF Take
  <2>2. k \in Item
    BY <2>1 DEF TypeOK
  <2> QED BY <1>5, <2>1, <2>2
<1>7. ASSUME NEW v \in Worker, MakeParents(c, v) PROVE FALSE
  <2>1. NowAt(c, v, [item |-> job[c][v].item, at |-> "parents"]) /\ job[c][v].item \in Item
    BY <1>7, WorkerItem DEF MakeParents, Writing
  <2> QED BY <1>5, <2>1
<1>8. ASSUME NEW v \in Worker, Write(c, v) \/ WriteFails(c, v) PROVE FALSE
  <2>1. Writing(c, v)
    BY <1>8 DEF Write, WriteFails, Writing
  <2>2. \E ok \in BOOLEAN : Returns(c, v, ok)
    <3>1. (kind = "materialize" \/ work.there) \in BOOLEAN
      OBVIOUS
    <3> QED BY <1>8, <3>1 DEF Write, WriteFails
  <2> QED BY <1>4, <2>1, <2>2
<1>9. ASSUME NEW v \in Worker, Open(c, v)
      PROVE  /\ d = c /\ job'[d][w].item \in Item
             /\ work'.file[job'[d][w].item] = File(d, job'[d][w].item)
  <2>1. Writing(c, v) /\ ~Returns(c, v, FALSE)
    <3>1. Writing(c, v)
      BY <1>9 DEF Open, Writing
    <3> QED BY <1>4, <3>1
  <2>2. /\ work' = With(work, job[c][v].item, File(c, job[c][v].item))
        /\ NowAt(c, v, [item |-> job[c][v].item, at |-> "open"])
    BY <1>9, <2>1 DEF Open
  <2>3. job[c][v].item \in Item /\ File(c, job[c][v].item) \in Command \X Item
    BY <2>1, WorkerItem
  <2>4. job'[c][v].item = job[c][v].item /\ \A u \in Worker : u # v => job'[c][u] = job[c][u]
    <3>1. PICK k \in Item : k = job[c][v].item /\ NowAt(c, v, [item |-> k, at |-> "open"])
      BY <2>2, <2>3
    <3>2. job'[c][v].item = k /\ \A u \in Worker : u # v => job'[c][u] = job[c][u]
      BY <3>1, TakesUp
    <3> QED BY <3>1, <3>2
  <2>5. v = w
    BY <1>1, <2>4
  <2>6. work'.file[job[c][v].item] = File(c, job[c][v].item)
    BY <2>2, <2>3, WithType DEF TypeOK
  <2> QED BY <1>1, <2>3, <2>4, <2>5, <2>6
<1> QED BY <1>2, <1>3, <1>6, <1>7, <1>8, <1>9 DEF StepOf, CommandStep, WorkerStep, Start, Clear,
        ClearTree, Feed, Publish, Sync, Audit, Interrupted, Killed

LEMMA SlipsStay == ASSUME TypeOK, NEW c \in Command, StepOf(c), ~slips' PROVE ~slips
BY DEF StepOf, CommandStep, WorkerStep, Start, Clear, ClearTree, LayOut, Feed, PoolEnds, PoolFails,
   Publish, Sync, Audit, WorkerDies, Interrupted, Killed, KillOrphans, Take, MakeParents, Open, Write,
   WriteFails

\* A command comes to its pool by laying out the directory, and to what follows by
\* its pool.
LEMMA PoolBefore ==
    ASSUME TypeOK, NEW c \in Command, StepOf(c), NEW d \in Command
    PROVE  /\ pc'[d] \in {"pool", "publish"} =>
                \/ pc[d] \in {"pool", "publish"}
                \/ c = d /\ LayOut(c) /\ ~work.there /\ pc[c] = "lay out" /\ pc'[d] = "pool"
           /\ pc'[d] = "pool" /\ pc[d] = "publish" => FALSE
<1>1. CASE c # d
  BY <1>1, OthersStay
<1>2. CASE c = d
  <2>1. CASE LayOut(c)
    <3>1. CASE work.there
      <4>1. pc'[c] = "failed"
        BY <2>1, <3>1, GotoType, Words DEF LayOut, End
      <4> QED BY <1>2, <4>1
    <3>2. CASE ~work.there
      BY <1>2, <2>1, <3>2, GotoType, Words DEF LayOut
    <3> QED BY <3>1, <3>2
  <2>2. CASE PoolEnds(c)
    <3>1. pc[c] = "pool" /\ pc'[c] = "publish"
      BY <2>2, GotoType, Words DEF PoolEnds
    <3> QED BY <1>2, <3>1
  <2>3. CASE ~LayOut(c) /\ ~PoolEnds(c)
    <3>1. pc'[c] = pc[c] \/ pc'[c] \in (Steps \cup Ended) \ {"pool", "publish"}
      BY <2>3, Words, GotoType DEF StepOf, CommandStep, WorkerStep, Start, Clear, ClearTree, Feed,
         PoolFails, Publish, Sync, Audit, WorkerDies, Interrupted, Killed, KillOrphans,
         Take, MakeParents, Open, Write, WriteFails, End
    <3> QED BY <1>2, <3>1
  <2> QED BY <2>1, <2>2, <2>3
<1> QED BY <1>1, <1>2

\* The directory that is filled stays while a command is at its pool.
LEMMA StaysThere ==
    ASSUME TypeOK, OneAtWork, NEW c \in Command, StepOf(c), NEW d \in Command, work.there,
           pc[d] \in {"pool", "publish"}, pc'[d] \in {"pool", "publish"}
    PROVE  work'.there
<1>a. IsAlive(d)
  BY DEF IsAlive, Steps
<1>1. ~Clear(c) /\ ~Publish(c)
  <2>1. Clear(c) \/ Publish(c) => c = d
    BY <1>a, OnlyOne DEF Clear, Publish, IsAlive, Steps
  <2>2. Publish(c) => pc'[c] \in {"sync", "failed"}
    BY GotoType, Words DEF Publish, End
  <2>3. Clear(c) => pc[c] = "clear"
    BY DEF Clear
  <2> QED BY <2>1, <2>2, <2>3
<1>2. CASE LayOut(c)
  BY <1>2, WorkIs DEF LayOut
<1>3. ASSUME NEW w \in Worker, WorkerStep(c, w) \/ WriteFails(c, w) PROVE work'.there
  <2>1. CASE Take(c, w) \/ MakeParents(c, w)
    BY <2>1 DEF Take, MakeParents
  <2>2. CASE Open(c, w) \/ Write(c, w) \/ WriteFails(c, w)
    <3>1. \/ work' = work
          \/ \E f : work' = With(work, job[c][w].item, f)
      BY <2>2 DEF Open, Write, WriteFails
    <3> QED BY <3>1 DEF With
  <2> QED BY <1>3, <2>1, <2>2 DEF WorkerStep
<1> QED BY <1>1, <1>2, <1>3 DEF StepOf, CommandStep, Start, ClearTree, Feed, PoolEnds, PoolFails,
        Sync, Audit, WorkerDies, Interrupted, Killed, KillOrphans

LEMMA DoneStep ==
    ASSUME TypeOK, OneAtWork, ItemsApart, AheadIsNew, DoneIsThere, Next
    PROVE  DoneIsThere'
<1>1. PICK c \in Command : StepOf(c)
  BY DEF Next, StepOf
<1> SUFFICES ASSUME NEW d \in Command
             PROVE  /\ pc'[d] \in {"pool", "publish"} => work'.there
                    /\ pc'[d] \in {"pool", "publish"} /\ ~slips' =>
                         \A i \in done'[d] : work'.file[i] = File(d, i) /\ File(d, i) \in whole'
                    /\ pc'[d] = "pool" /\ ~slips' /\ kind' = "materialize" =>
                         \A w \in Worker : job'[d][w].at = "open" =>
                            work'.file[job'[d][w].item] = File(d, job'[d][w].item)
  BY DEF DoneIsThere, File
<1>t. /\ kind' = kind /\ done \in [Command -> SUBSET Item] /\ done' \in [Command -> SUBSET Item]
      /\ job \in [Command -> [Worker -> Jobs]] /\ job' \in [Command -> [Worker -> Jobs]]
  <2>1. TypeOK'
    BY TypeStep
  <2>2. kind' = kind
    BY <1>1 DEF StepOf, CommandStep, WorkerStep, Start, Clear, ClearTree, LayOut, Feed, PoolEnds,
       PoolFails, Publish, Sync, Audit, WorkerDies, Interrupted, Killed, KillOrphans, Take,
       MakeParents, Open, Write, WriteFails
  <2> QED BY <2>1, <2>2 DEF TypeOK, Jobs
<1>a. Apart(d)
  BY DEF ItemsApart
<1>2. CASE c = d /\ LayOut(c) /\ ~work.there /\ pc[c] = "lay out"
  <2>1. /\ work' = EmptyTree /\ done' = done /\ done[d] = {}
        /\ job' = [job EXCEPT ![c] = [w \in Worker |-> Idle]]
    BY <1>2, <1>a DEF LayOut, Apart
  <2>2. \A w \in Worker : job'[d][w] = Idle
    BY <1>2, <2>1, <1>t
  <2> QED BY <2>1, <2>2, WorkIs, IdleIsNot
<1>3. CASE pc'[d] \notin {"pool", "publish"}
  BY <1>3
<1>4. CASE pc[d] \in {"pool", "publish"} /\ pc'[d] \in {"pool", "publish"}
  <2>1. work.there /\ work'.there
    BY <1>1, <1>4, StaysThere DEF DoneIsThere
  <2>2. ASSUME ~slips', NEW i \in done'[d]
        PROVE  work'.file[i] = File(d, i) /\ File(d, i) \in whole'
    <3>1. ~slips /\ i \in Item
      BY <1>1, <1>t, <2>2, SlipsStay
    <3>2. CASE i \in done[d]
      <4>1. work.file[i] = File(d, i) /\ File(d, i) \in whole
        BY <1>4, <3>1, <3>2 DEF DoneIsThere
      <4>2. work'.file[i] = File(d, i)
        BY <1>1, <1>4, <2>1, <2>2, <3>1, <3>2, <4>1, Keeps
      <4>3. ~Ahead(d, i)
        BY <1>a, <3>2 DEF Apart, Ahead, Writing
      <4>4. File(d, i) \in whole'
        <5>1. ASSUME NEW k \in Item, File(d, i) = File(c, k), Ahead(c, k) PROVE FALSE
          BY <3>1, <4>3, <5>1, FileIs
        <5> QED BY <1>1, <4>1, <5>1, WholeStays
      <4> QED BY <4>2, <4>4
    <3>3. CASE i \notin done[d]
      <4>1. PICK w \in Worker : /\ Write(c, w) /\ job[c][w].item = i /\ job[c][w].at = "open"
                                /\ IsAlive(c) /\ (kind = "materialize" \/ work.there)
        BY <1>1, <1>4, <2>2, <3>3, NewlyDone
      <4>2. c = d
        BY <1>1, <1>4, <2>2, <3>3, NewlyDone
      <4>3. whole' = whole \cup {File(c, i)}
        BY <4>1 DEF Write
      <4>4. CASE kind = "transform"
        <5>1. work' = With(work, i, File(c, i))
          BY <2>1, <4>1, <4>4 DEF Write
        <5>2. work'.file[i] = File(c, i)
          BY <3>1, <5>1, FileIs, WithType DEF TypeOK
        <5> QED BY <4>2, <4>3, <5>2
      <4>5. CASE kind = "materialize"
        <5>1. work' = work
          BY <4>1, <4>5 DEF Write
        <5>2. pc[c] = "pool"
          BY <4>1, WritersPlace DEF Writing, IsAlive, Steps
        <5>3. work.file[i] = File(d, i)
          BY <3>1, <4>1, <4>2, <4>5, <5>2 DEF DoneIsThere
        <5> QED BY <4>2, <4>3, <5>1, <5>3
      <4> QED BY <4>4, <4>5 DEF TypeOK
    <3> QED BY <3>2, <3>3
  <2>3. ASSUME pc'[d] = "pool", ~slips', kind = "materialize", NEW w \in Worker,
               job'[d][w].at = "open"
        PROVE  work'.file[job'[d][w].item] = File(d, job'[d][w].item)
    <3>1. CASE job[d][w] # job'[d][w]
      BY <1>1, <2>3, <3>1, NewlyOpen
    <3>2. CASE job[d][w] = job'[d][w]
      <4>1. pc[d] = "pool" /\ ~slips
        BY <1>1, <1>4, <2>3, PoolBefore, SlipsStay
      <4>2. PICK i \in Item : i = job'[d][w].item
        BY <1>t, <2>3, JobKinds
      <4>3. work.file[i] = File(d, i)
        BY <2>3, <3>2, <4>1, <4>2 DEF DoneIsThere
      <4>4. work'.file[i] = File(d, i)
        <5>1. StillOpen(d, i)
          BY <2>3, <4>2 DEF StillOpen
        <5> QED BY <1>1, <1>4, <2>1, <2>3, <4>3, <5>1, Keeps
      <4> QED BY <4>2, <4>4
    <3> QED BY <3>1, <3>2
  <2> QED BY <1>t, <2>1, <2>2, <2>3
<1> QED BY <1>1, <1>2, <1>3, <1>4, PoolBefore

LEMMA PublishedStep ==
    ASSUME TypeOK, OneAtWork, ItemsApart, AheadIsNew, DoneIsThere, PublishedTreeIsWhole, Next
    PROVE  PublishedTreeIsWhole'
<1>1. PICK c \in Command : StepOf(c)
  BY DEF Next, StepOf
<1>a. Apart(c)
  BY DEF ItemsApart
<1>2. CASE Publish(c)
  <2>1. pc[c] = "publish" /\ ~stored /\ UNCHANGED <<stored, audits, whole, slips>> /\ work.there
    BY <1>2 DEF Publish, OneAtWork, IsAlive, Steps, DoneIsThere
  <2>2. tree' = work
    BY <1>2, <2>1 DEF Publish
  <2>3. ~slips => \A i \in Item : work.file[i] \in whole
    BY <1>a, <2>1 DEF Apart, DoneIsThere
  <2> QED BY <2>1, <2>2, <2>3 DEF PublishedTreeIsWhole, IsWhole
<1>3. CASE Audit(c)
  <2>1. /\ pc[c] = "audit" /\ UNCHANGED <<audits, tree, whole, slips>> /\ IsAlive(c)
        /\ pc'[c] \in {"done", "failed"}
    BY <1>3, GotoType, Words DEF Audit, End, IsAlive, Steps
  <2>2. tree.there /\ (~slips => IsWhole(tree))
    BY <2>1 DEF PublishedTreeIsWhole
  <2>3. stored' => IsWhole(tree) \/ ~audits
    BY <1>3, <2>1 DEF Audit, OneAtWork
  <2> QED BY <2>1, <2>2, <2>3 DEF PublishedTreeIsWhole, IsWhole
<1>4. CASE ~Publish(c) /\ ~Audit(c)
  <2>1. UNCHANGED <<stored, audits>>
    BY <1>1, <1>4 DEF StepOf, CommandStep, WorkerStep, Start, Clear, ClearTree, LayOut, Feed,
       PoolEnds, PoolFails, Sync, WorkerDies, Interrupted, Killed, KillOrphans, Take,
       MakeParents, Open, Write, WriteFails
  <2>2. ASSUME NEW d \in Command, pc'[d] \in {"sync", "audit"} PROVE pc[d] \in {"sync", "audit"}
    <3>1. CASE c # d
      BY <1>1, <2>2, <3>1, OthersStay
    <3>2. CASE c = d
      <4>1. CASE LayOut(c)
        <5>1. CASE work.there
          <6>1. pc'[c] = "failed"
            BY <4>1, <5>1, GotoType, Words DEF LayOut, End
          <6> QED BY <2>2, <3>2, <6>1
        <5>2. CASE ~work.there
          <6>1. pc'[c] = "pool"
            BY <4>1, <5>2, GotoType, Words DEF LayOut, End
          <6> QED BY <2>2, <3>2, <6>1
        <5> QED BY <5>1, <5>2
      <4>2. CASE ~LayOut(c) /\ ~Sync(c)
        <5>1. pc'[c] = pc[c] \/ pc'[c] \in (Steps \cup Ended) \ {"sync", "audit"}
          BY <1>1, <1>4, <4>2, Words, GotoType DEF StepOf, CommandStep, WorkerStep, Start, Clear,
             ClearTree, Feed, PoolEnds, PoolFails, WorkerDies, Interrupted, Killed,
             KillOrphans, Take, MakeParents, Open, Write, WriteFails, End
        <5> QED BY <2>2, <3>2, <5>1
      <4>3. CASE Sync(c)
        BY <3>2, <4>3 DEF Sync
      <4> QED BY <4>1, <4>2, <4>3
    <3> QED BY <3>1, <3>2
  <2>3. CASE ~(stored \/ \E d \in Command : pc[d] \in {"sync", "audit"})
    <3>1. ~(stored' \/ \E d \in Command : pc'[d] \in {"sync", "audit"})
      BY <2>1, <2>2, <2>3
    <3> QED BY <3>1 DEF PublishedTreeIsWhole
  <2>4. CASE stored \/ \E d \in Command : pc[d] \in {"sync", "audit"}
    <3>1. tree.there /\ (~slips \/ (stored /\ audits) => IsWhole(tree))
      BY <2>4 DEF PublishedTreeIsWhole
    <3>2. ~ClearTree(c)
      <4>1. ClearTree(c) => IsAlive(c) /\ pc[c] = "clear tree"
        BY DEF ClearTree, IsAlive, Steps
      <4>2. CASE stored
        BY <4>1, <4>2 DEF OneAtWork
      <4>3. ASSUME NEW d \in Command, pc[d] \in {"sync", "audit"} PROVE ~ClearTree(c)
        <5>1. IsAlive(d)
          BY <4>3 DEF IsAlive, Steps
        <5>2. ClearTree(c) => c = d
          BY <4>1, <5>1, OnlyOne
        <5> QED BY <4>1, <4>3, <5>2
      <4> QED BY <2>4, <4>2, <4>3
    <3>3. UNCHANGED tree
      BY <1>1, <1>4, <3>2 DEF StepOf, CommandStep, WorkerStep, Start, Clear, LayOut, Feed,
         PoolEnds, PoolFails, Sync, WorkerDies, Interrupted, Killed, KillOrphans, Take,
         MakeParents, Open, Write, WriteFails
    <3>4. ASSUME IsWhole(tree) PROVE IsWhole(tree)'
      <4>1. ASSUME NEW k \in Item PROVE tree.file[k] \in whole'
        <5>1. tree.file[k] \in whole
          BY <3>4 DEF IsWhole
        <5>2. ASSUME NEW i \in Item, tree.file[k] = File(c, i), Ahead(c, i) PROVE FALSE
          BY <5>2 DEF AheadIsNew
        <5> QED BY <1>1, <5>1, <5>2, WholeStays
      <4> QED BY <3>3, <3>4, <4>1 DEF IsWhole
    <3>5. ~slips' => ~slips
      BY <1>1, SlipsStay
    <3> QED BY <2>1, <3>1, <3>3, <3>4, <3>5 DEF PublishedTreeIsWhole
  <2> QED BY <2>3, <2>4
<1> QED BY <1>2, <1>3, <1>4

-----------------------------------------------------------------------------

LEMMA StageInvInit == Init => StageInv
<1> SUFFICES ASSUME Init PROVE StageInv
  OBVIOUS
<1>1. TypeOK
  <2>1. pc \in [Command -> Steps \cup Ended]
    BY Words DEF Init
  <2>2. job \in [Command -> [Worker -> Busy \cup {Idle, Gone}]]
    BY DEF Init
  <2>3. /\ todo \in [Command -> SUBSET Item] /\ queue \in [Command -> SUBSET Item]
        /\ done \in [Command -> SUBSET Item] /\ broken \in [Command -> BOOLEAN]
    BY DEF Init
  <2>4. faults \in 0..MaxFaults
    BY SizeAssumption DEF Init
  <2> QED BY <2>1, <2>2, <2>3, <2>4, TreeType DEF Init, TypeOK
<1>2. \A c \in Command : pc[c] = "off" /\ ~IsAlive(c) /\ done[c] = {} /\ todo[c] = {} /\ queue[c] = {}
  BY DEF Init, IsAlive, Steps
<1>3. \A c \in Command, w \in Worker : job[c][w] = Gone
  BY DEF Init
<1>4. OneAtWork
  BY <1>2, <1>3 DEF Init, OneAtWork, HasWorkers
<1>5. ItemsApart
  BY <1>2, <1>3, IdleIsNot DEF ItemsApart, Apart, Writing
<1>6. AheadIsNew
  BY <1>2, <1>3, IdleIsNot DEF AheadIsNew, Ahead
<1>7. DoneIsThere /\ PublishedTreeIsWhole
  BY <1>2 DEF Init, DoneIsThere, PublishedTreeIsWhole
<1> QED BY <1>1, <1>4, <1>5, <1>6, <1>7 DEF StageInv

LEMMA StageInvStep == StageInv /\ [Next]_vars => StageInv'
<1> SUFFICES ASSUME StageInv, [Next]_vars PROVE StageInv'
  OBVIOUS
<1>1. CASE Next
  BY <1>1, TypeStep, OneStep, ItemsStep, AheadStep, DoneStep, PublishedStep DEF StageInv
<1>2. CASE UNCHANGED vars
  <2>1. TypeOK'
    BY <1>2 DEF vars, StageInv, TypeOK
  <2>2. OneAtWork'
    BY <1>2 DEF vars, StageInv, OneAtWork, HasWorkers, IsAlive
  <2>3. ItemsApart'
    BY <1>2 DEF vars, StageInv, ItemsApart, Apart, Writing, HasWorkers
  <2>4. AheadIsNew'
    BY <1>2 DEF vars, StageInv, AheadIsNew, Ahead
  <2>5. DoneIsThere' /\ PublishedTreeIsWhole'
    BY <1>2 DEF vars, StageInv, DoneIsThere, PublishedTreeIsWhole, IsWhole
  <2> QED BY <2>1, <2>2, <2>3, <2>4, <2>5 DEF StageInv
<1> QED BY <1>1, <1>2

\* At every moment one command at most is at work on a stage, its work items are in
\* one place each, and what it has opened and finished is there, whatever the workers
\* of killed commands do beside it (vfs.py and readable.py, the process pools).
THEOREM StageInvariant == Spec => []StageInv
BY StageInvInit, StageInvStep, PTL DEF Spec

\* What a stage publishes and stores has all its files, whole, beside any number of
\* killed commands whose workers go on, unless the write of such a worker has failed;
\* and an audit finds that (vfs.py, materialize and its audit; readable.py,
\* transform).
THEOREM PublishedTreesAreWhole == Spec => []PublishedTreeIsWhole
<1>1. StageInv => PublishedTreeIsWhole
  BY DEF StageInv
<1> QED BY <1>1, StageInvariant, PTL

===============================================================================

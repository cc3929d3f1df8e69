-------------------------- MODULE SnapshotSeal_proof --------------------------
(***************************************************************************)
(* A published snapshot is whole, and stays so, for any number of runs of  *)
(* one release, as long as their commands follow one another.              *)
(***************************************************************************)
EXTENDS SnapshotSeal, FiniteSetTheorems, TLAPS

\* No other command works.
Alone(r) == \A q \in Run \ {r} : ~AtWork(q)

\* What one command does.
Acts(r) == Start(r) \/ Step(r) \/ Dies(r)

-----------------------------------------------------------------------------
(* Types.                                                                  *)

\* Of the directories there is one more than the names and the commands can hold
\* when `partial' is free.
LEMMA FreshIsDir == ASSUME TypeOK, partial = NoDir PROVE Fresh \in Dir
<1> DEFINE open == [r \in Run |-> cmd[r].open]
           opens == {cmd[r].open : r \in Run}
<1>1. IsFiniteSet(Run) /\ Cardinality(Run) \in Nat
  BY RunAssumption, FS_CardinalityType
<1>2. IsFiniteSet(opens) /\ Cardinality(opens) <= Cardinality(Run) /\ Cardinality(opens) \in Nat
  <2>1. open \in Surjection(Run, opens)
    BY DEF Surjection
  <2> QED BY <1>1, <2>1, FS_Surjection, FS_CardinalityType
<1> HIDE DEF opens
<1>3. /\ IsFiniteSet(opens \cup {final})
      /\ Cardinality(opens \cup {final}) <= Cardinality(Run) + 1
      /\ Cardinality(opens \cup {final}) \in Nat
  <2>1. /\ IsFiniteSet(opens \cup {final})
        /\ Cardinality(opens \cup {final})
             = IF final \in opens THEN Cardinality(opens) ELSE Cardinality(opens) + 1
    BY <1>2, FS_AddElement
  <2> QED BY <1>1, <1>2, <2>1
<1>4. Cardinality(Dir) = Cardinality(Run) + 2
  BY <1>1, FS_Interval DEF Dir
<1>5. ~(Dir \subseteq opens \cup {final})
  <2> SUFFICES ASSUME Dir \in SUBSET (opens \cup {final}) PROVE FALSE
    OBVIOUS
  <2>1. Cardinality(Dir) <= Cardinality(opens \cup {final})
    BY <1>3, FS_Subset
  <2> QED BY <1>1, <1>3, <1>4, <2>1
<1>6. \E d \in Dir : d \notin Used
  <2>1. NoDir \notin Dir
    BY <1>1, NoDirAssumption DEF Dir
  <2> QED BY <1>5, <2>1 DEF Used, opens
<1> QED BY <1>6 DEF Fresh

LEMMA OffIsCommand == Off \in Command /\ [Off EXCEPT !.pc = "mkdir"] \in Command
                      /\ [Off EXCEPT !.pc = "done"] \in Command
BY DEF Off, Command, PC

\* The ways in which a step changes the command, the trees or neither.
LEMMA GotoType == ASSUME TypeOK, NEW r \in Run, NEW pc \in PC, Goto(r, pc)
                  PROVE cmd' \in [Run -> Command]
BY DEF TypeOK, Goto, Command

LEMMA EditType == ASSUME TypeOK, NEW r \in Run, NEW c \in Command, cmd' = [cmd EXCEPT ![r] = c]
                  PROVE cmd' \in [Run -> Command]
BY DEF TypeOK

LEMMA FieldTypes == ASSUME NEW c \in Command, NEW pc \in PC, NEW todo \in SUBSET File
                    PROVE /\ [c EXCEPT !.pc = pc, !.todo = todo] \in Command
                          /\ [c EXCEPT !.todo = todo, !.pc = pc] \in Command
BY DEF Command

LEMMA FailsType == ASSUME TypeOK, NEW r \in Run, Fails(r) PROVE TypeOK'
BY OffIsCommand DEF TypeOK, Fails, store

LEMMA TreeType == ASSUME TypeOK PROVE Tree \in DirState
BY DEF TypeOK, Tree, Empty, DirState

LEMMA PutType == ASSUME TypeOK, NEW tree \in DirState, Put(tree), cmd' \in [Run -> Command]
                 PROVE TypeOK'
<1>1. partial' \in Dir
  BY FreshIsDir DEF TypeOK, Put
<1>2. dir' \in [Dir -> DirState]
  BY <1>1 DEF TypeOK, Put
<1> QED BY <1>1, <1>2 DEF TypeOK, Put

LEMMA PresentType == ASSUME TypeOK, NEW d \in Dir
                     PROVE Present(d) \in SUBSET (Entry \cup {"descriptor", "ready"})
BY DEF TypeOK, Present, DirState

LEMMA TypeStep == ASSUME TypeOK, NEW r \in Run, Acts(r) PROVE TypeOK'
<1>1. CASE Start(r)
  <2>1. cmd' \in [Run -> Command]
    BY <1>1, GotoType DEF Start, PC
  <2> QED BY <1>1, <2>1 DEF TypeOK, Start, store
<1>2. CASE LookAtFinal(r)
  <2>1. cmd' \in [Run -> Command]
    <3>1. cmd[r] \in Command /\ "head" \in PC /\ "clear" \in PC
      BY DEF TypeOK, PC
    <3>2. CASE final # NoDir
      <4>1. [cmd[r] EXCEPT !.pc = "head", !.tree = "final"] \in Command
        BY <3>1 DEF Command
      <4> QED BY <1>2, <3>2, <4>1, EditType DEF LookAtFinal
    <3>3. CASE final = NoDir
      <4>1. [cmd[r] EXCEPT !.pc = "clear", !.tree = "partial"] \in Command
        BY <3>1 DEF Command
      <4> QED BY <1>2, <3>3, <4>1, EditType DEF LookAtFinal
    <3> QED BY <3>2, <3>3
  <2> QED BY <1>2, <2>1 DEF TypeOK, LookAtFinal, store
<1>3. CASE ClearPartial(r)
  <2>1. cmd' \in [Run -> Command]
    BY <1>3, GotoType DEF ClearPartial, PC
  <2>2. dir' \in [Dir -> DirState]
    BY <1>3 DEF ClearPartial, TypeOK, DirState
  <2> QED BY <1>3, <2>1, <2>2 DEF TypeOK, ClearPartial
<1>4. CASE OpenPartial(r)
  <2>1. CASE partial = NoDir
    BY <1>4, <2>1, FailsType DEF OpenPartial
  <2>2. CASE partial # NoDir
    <3>1. Present(partial) \in SUBSET (Entry \cup {"descriptor", "ready"})
      BY <2>2, PresentType DEF TypeOK
    <3>2. cmd' \in [Run -> Command]
      <4>1. [cmd[r] EXCEPT !.open = partial, !.listed = Present(partial)] \in Command
        BY <2>2, <3>1 DEF TypeOK, Command
      <4> QED BY <1>4, <2>2, <4>1, EditType DEF OpenPartial
    <3> QED BY <1>4, <2>2, <3>2 DEF OpenPartial, TypeOK, store
  <2> QED BY <2>1, <2>2
<1>5. CASE RemoveTop(r)
  <2>1. CASE partial # NoDir /\ Present(partial) = {}
    <3>1. Empty \in DirState
      BY DEF Empty, DirState
    <3> QED BY <1>5, <2>1, <3>1, OffIsCommand DEF RemoveTop, TypeOK
  <2>2. CASE ~(partial # NoDir /\ Present(partial) = {})
    BY <1>5, <2>2, FailsType DEF RemoveTop
  <2> QED BY <2>1, <2>2
<1>6. ASSUME NEW e \in cmd[r].listed, RemoveEntry(r, e) PROVE TypeOK'
  <2> DEFINE d == cmd[r].open
  <2>1. CASE dir[d].sealed
    BY <1>6, <2>1, FailsType DEF RemoveEntry
  <2>2. CASE ~dir[d].sealed
    <3>1. d \in Dir
      BY <1>6 DEF RemoveEntry, TypeOK, Command
    <3>2. Without(dir[d], e) \in DirState
      BY <3>1 DEF Without, TypeOK, DirState
    <3>3. dir' \in [Dir -> DirState]
      BY <1>6, <2>2, <3>1, <3>2 DEF RemoveEntry, TypeOK
    <3>4. cmd' \in [Run -> Command]
      BY <1>6, <2>2 DEF RemoveEntry, TypeOK, Command
    <3> QED BY <1>6, <2>2, <3>3, <3>4 DEF RemoveEntry, TypeOK
  <2> QED BY <2>1, <2>2
<1>7. CASE MakePartial(r)
  <2>1. Empty \in DirState
    BY DEF Empty, DirState
  <2>2. CASE partial = NoDir
    BY <1>7, <2>1, <2>2, GotoType, PutType DEF MakePartial, PC, Writing
  <2>3. CASE partial # NoDir
    BY <1>7, <2>3, FailsType DEF MakePartial
  <2> QED BY <2>2, <2>3
<1>8. CASE MakeLayout(r)
  <2>1. CASE "layout" \in Tree.has \/ Tree.sealed
    BY <1>8, <2>1, FailsType DEF MakeLayout
  <2>2. CASE ~("layout" \in Tree.has \/ Tree.sealed)
    <3>1. [Tree EXCEPT !.has = @ \cup {"layout"}] \in DirState
      BY TreeType DEF DirState, Entry
    <3>2. cmd' \in [Run -> Command]
      <4>1. [cmd[r] EXCEPT !.pc = "files", !.todo = File] \in Command
        BY FieldTypes DEF TypeOK, PC, Writing
      <4> QED BY <1>8, <2>2, <4>1, EditType DEF MakeLayout
    <3> QED BY <1>8, <2>2, <3>1, <3>2, PutType DEF MakeLayout
  <2> QED BY <2>1, <2>2
<1>9. ASSUME NEW f \in File, LinkFile(r, f) PROVE TypeOK'
  <2>1. [Tree EXCEPT !.has = @ \cup {f}] \in DirState
    BY TreeType DEF DirState, Entry
  <2>2. cmd' \in [Run -> Command]
    BY <1>9 DEF LinkFile, TypeOK, Command
  <2> QED BY <1>9, <2>1, <2>2, PutType DEF LinkFile
<1>10. ASSUME NEW f \in File, LinkFails(r, f) PROVE TypeOK'
  BY <1>10, FailsType DEF LinkFails
<1>11. CASE WriteManifests(r)
  <2>1. CASE "manifests" \in Tree.has \/ Tree.sealed
    BY <1>11, <2>1, FailsType DEF WriteManifests
  <2>2. CASE ~("manifests" \in Tree.has \/ Tree.sealed)
    <3>1. [Tree EXCEPT !.has = @ \cup {"manifests"}] \in DirState
      BY TreeType DEF DirState, Entry
    <3> QED BY <1>11, <2>2, <3>1, GotoType, PutType DEF WriteManifests, PC, Writing
  <2> QED BY <2>1, <2>2
<1>12. CASE WriteDescriptor(r)
  <2>1. CASE partial = NoDir \/ Tree.sealed
    BY <1>12, <2>1, FailsType DEF WriteDescriptor
  <2>2. CASE ~(partial = NoDir \/ Tree.sealed)
    <3>1. [Tree EXCEPT !.descriptor = r] \in DirState
      BY TreeType DEF DirState
    <3> QED BY <1>12, <2>2, <3>1, GotoType, PutType DEF WriteDescriptor, PC, Writing
  <2> QED BY <2>1, <2>2
<1>13. CASE WriteReady(r)
  <2>1. CASE partial = NoDir \/ Tree.sealed
    BY <1>13, <2>1, FailsType DEF WriteReady
  <2>2. CASE ~(partial = NoDir \/ Tree.sealed)
    <3>1. [Tree EXCEPT !.ready = r] \in DirState
      BY TreeType DEF DirState
    <3> QED BY <1>13, <2>2, <3>1, GotoType, PutType DEF WriteReady, PC, Writing
  <2> QED BY <2>1, <2>2
<1>14. CASE Seal(r)
  <2>1. cmd' \in [Run -> Command]
    BY <1>14, GotoType DEF Seal, PC
  <2>2. dir' \in [Dir -> DirState]
    BY <1>14 DEF Seal, TypeOK, DirState
  <2> QED BY <1>14, <2>1, <2>2 DEF Seal, TypeOK
<1>15. CASE VerifyHead(r)
  <2>1. CASE Named(r) # NoDir /\ HeadIsValid(dir[Named(r)])
    <3>1. cmd' \in [Run -> Command]
      <4>1. [cmd[r] EXCEPT !.pc = "payload", !.todo = File] \in Command
        BY FieldTypes DEF TypeOK, PC
      <4> QED BY <1>15, <2>1, <4>1, EditType DEF VerifyHead
    <3> QED BY <1>15, <2>1, <3>1 DEF VerifyHead, TypeOK, store
  <2>2. CASE ~(Named(r) # NoDir /\ HeadIsValid(dir[Named(r)]))
    BY <1>15, <2>2, FailsType DEF VerifyHead
  <2> QED BY <2>1, <2>2
<1>16. ASSUME NEW f \in File, VerifyFile(r, f) PROVE TypeOK'
  <2> DEFINE ok == Named(r) # NoDir /\ f \in dir[Named(r)].has /\ dir[Named(r)].sealed
  <2>1. CASE ok
    <3>1. cmd' \in [Run -> Command]
      <4> DEFINE next == IF cmd[r].todo # {f} THEN "payload"
                         ELSE IF cmd[r].tree = "final" THEN "report" ELSE "publish"
      <4>1. cmd[r] \in Command /\ next \in PC /\ cmd[r].todo \ {f} \in SUBSET File
        BY DEF TypeOK, Command, PC
      <4>2. [cmd[r] EXCEPT !.todo = @ \ {f}, !.pc = next] \in Command
        BY <4>1 DEF Command
      <4> QED BY <1>16, <2>1, <4>2, EditType DEF VerifyFile
    <3> QED BY <1>16, <2>1, <3>1 DEF VerifyFile, TypeOK, store
  <2>2. CASE ~ok
    BY <1>16, <2>2, FailsType DEF VerifyFile
  <2> QED BY <2>1, <2>2
<1>17. CASE Publish(r)
  <2>1. CASE partial = NoDir \/ (final # NoDir /\ Present(final) # {})
    BY <1>17, <2>1, FailsType DEF Publish
  <2>2. CASE ~(partial = NoDir \/ (final # NoDir /\ Present(final) # {}))
    <3>1. cmd' \in [Run -> Command]
      BY <1>17, <2>2, GotoType DEF Publish, PC
    <3> QED BY <1>17, <2>2, <3>1 DEF Publish, TypeOK
  <2> QED BY <2>1, <2>2
<1>18. CASE Report(r)
  <2>1. CASE final = NoDir \/ dir[final].descriptor = Nobody
    BY <1>18, <2>1, FailsType DEF Report
  <2>2. CASE ~(final = NoDir \/ dir[final].descriptor = Nobody)
    <3>1. dir[final].descriptor \in Run
      BY <2>2 DEF TypeOK, DirState
    <3> QED BY <1>18, <2>2, <3>1, OffIsCommand DEF Report, TypeOK, store
  <2> QED BY <2>1, <2>2
<1>19. CASE Dies(r)
  BY <1>19, OffIsCommand, FaultAssumption DEF Dies, TypeOK, store
<1> QED BY <1>1, <1>2, <1>3, <1>4, <1>5, <1>6, <1>7, <1>8, <1>9, <1>10, <1>11, <1>12, <1>13,
          <1>14, <1>15, <1>16, <1>17, <1>18, <1>19
       DEF Acts, Step, Remove, Populate, Verify
-----------------------------------------------------------------------------
(* What an action leaves alone.                                            *)

\* A step leaves the other commands where they are, and is taken at work, or it
\* puts the command to work.
LEMMA OthersStay == ASSUME TypeOK, NEW r \in Run, Acts(r)
                    PROVE /\ \A q \in Run \ {r} : cmd'[q] = cmd[q]
                          /\ (AtWork(r) /\ overlap' = overlap) \/ Start(r)
<1>1. CASE Start(r)
  BY <1>1 DEF TypeOK, Start, Goto
<1>2. CASE LookAtFinal(r) \/ ClearPartial(r) \/ OpenPartial(r) \/ RemoveTop(r)
  BY <1>2 DEF TypeOK, LookAtFinal, ClearPartial, OpenPartial, RemoveTop, Goto, Fails, AtWork
<1>3. ASSUME NEW e \in cmd[r].listed, RemoveEntry(r, e)
      PROVE AtWork(r) /\ overlap' = overlap /\ \A q \in Run \ {r} : cmd'[q] = cmd[q]
  BY <1>3 DEF TypeOK, RemoveEntry, Fails, AtWork
<1>4. CASE MakePartial(r) \/ MakeLayout(r) \/ WriteManifests(r)
  BY <1>4 DEF TypeOK, MakePartial, MakeLayout, WriteManifests, Put, Goto, Fails, AtWork
<1>5. CASE WriteDescriptor(r) \/ WriteReady(r) \/ Seal(r)
  BY <1>5 DEF TypeOK, WriteDescriptor, WriteReady, Seal, Put, Goto, Fails, AtWork
<1>6. ASSUME NEW f \in File, LinkFile(r, f) \/ LinkFails(r, f)
      PROVE AtWork(r) /\ overlap' = overlap /\ \A q \in Run \ {r} : cmd'[q] = cmd[q]
  BY <1>6 DEF TypeOK, LinkFile, LinkFails, Put, Fails, AtWork
<1>7. CASE VerifyHead(r) \/ Publish(r) \/ Report(r) \/ Dies(r)
  BY <1>7 DEF TypeOK, VerifyHead, Publish, Report, Dies, Goto, Fails, AtWork
<1>8. ASSUME NEW f \in File, VerifyFile(r, f)
      PROVE AtWork(r) /\ overlap' = overlap /\ \A q \in Run \ {r} : cmd'[q] = cmd[q]
  BY <1>8 DEF TypeOK, VerifyFile, Fails, AtWork
<1> QED BY <1>1, <1>2, <1>3, <1>4, <1>5, <1>6, <1>7, <1>8
       DEF Acts, Step, Remove, Populate, Verify

\* Where nobody overlaps, the command that takes a step is the only one at work.
LEMMA IsAlone == ASSUME SealInv, NEW r \in Run, Acts(r), ~overlap'
                 PROVE ~overlap /\ Alone(r)
<1>1. CASE Start(r)
  BY <1>1 DEF SealInv, TypeOK, Start, Alone
<1>2. CASE AtWork(r) /\ overlap' = overlap
  BY <1>2 DEF SealInv, OneAtATime, Alone
<1> QED BY <1>1, <1>2, OthersStay DEF SealInv

\* A command that works on a tree does so where nothing is published; all others
\* only read.
LEMMA Undisturbed == ASSUME SealInv, NEW r \in Run, Acts(r), ~overlap'
                     PROVE final = NoDir \/ UNCHANGED store
<1>1. ~overlap /\ BuildIsSafe(r)
  BY IsAlone DEF SealInv
<1>2. CASE Building(r)
  BY <1>1, <1>2 DEF BuildIsSafe
<1>3. CASE ~Building(r)
  <2>1. CASE Start(r) \/ LookAtFinal(r) \/ VerifyHead(r) \/ Report(r) \/ Dies(r)
    BY <2>1 DEF Start, LookAtFinal, VerifyHead, Report, Dies, Fails
  <2>2. ASSUME NEW f \in File, VerifyFile(r, f) PROVE UNCHANGED store
    BY <2>2 DEF VerifyFile, Fails
  <2>3. ~(ClearPartial(r) \/ Remove(r) \/ Populate(r) \/ Publish(r))
    BY <1>3 DEF Building, Writing, ClearPartial, Remove, Populate, Publish, OpenPartial,
                RemoveTop, RemoveEntry, MakePartial, MakeLayout, WriteManifests,
                WriteDescriptor, WriteReady, Seal, LinkFile, LinkFails
  <2> QED BY <2>1, <2>2, <2>3 DEF Acts, Step, Verify
<1> QED BY <1>2, <1>3

-----------------------------------------------------------------------------
(* The invariant, put together from what is true of the command that steps.*)

\* The commands that do not work need nothing.
LEMMA CommandsAreSafe == ASSUME SealInv, TypeOK', NEW r \in Run, Acts(r), ~overlap',
                                BuildIsSafe(r)', cmd'[r].open # NoDir => cmd'[r].pc = "remove"
                         PROVE OneAtATime' /\ \A q \in Run : BuildIsSafe(q)'
<1>1. TypeOK /\ ~overlap /\ Alone(r) /\ \A q \in Run \ {r} : cmd'[q] = cmd[q]
  BY IsAlone, OthersStay DEF SealInv
<1>2. \A q \in Run \ {r} : ~AtWork(q)' /\ cmd'[q].open = NoDir
  BY <1>1 DEF Alone, AtWork, SealInv, OneAtATime
<1>3. OneAtATime'
  BY <1>2 DEF OneAtATime
<1>4. ASSUME NEW q \in Run \ {r} PROVE BuildIsSafe(q)'
  BY <1>2 DEF BuildIsSafe, Building, Using, Writing, AtWork
<1> QED BY <1>3, <1>4

\* A step that publishes and reports nothing has only its own command to answer for.
LEMMA Quiet == ASSUME SealInv, TypeOK', NEW r \in Run, Acts(r), ~overlap',
                      BuildIsSafe(r)', cmd'[r].open # NoDir => cmd'[r].pc = "remove",
                      final' = final, told' = told
               PROVE SealInv'
<1>1. OneAtATime' /\ \A q \in Run : BuildIsSafe(q)'
  BY CommandsAreSafe
<1>2. ~overlap
  BY IsAlone
<1>3. final' # NoDir => UNCHANGED store
  BY Undisturbed
<1>4. final' # NoDir => Whole(final)' /\ final' # partial'
  BY <1>2, <1>3 DEF SealInv, Whole, HeadIsValid, store
<1>5. ASSUME NEW q \in Run, told'[q] # Nobody
      PROVE final' # NoDir /\ told'[q] = dir'[final'].descriptor
  <2>1. final # NoDir /\ told[q] = dir[final].descriptor
    BY <1>2, <1>5 DEF SealInv
  <2> QED BY <1>3, <2>1 DEF store
<1> QED BY <1>1, <1>4, <1>5 DEF SealInv

\* A command that has given up relies on nothing.
LEMMA QuietFailure == ASSUME SealInv, NEW r \in Run, Acts(r), ~overlap', Fails(r) PROVE SealInv'
<1>1. TypeOK /\ TypeOK'
  BY FailsType DEF SealInv
<1>2. cmd'[r] = Off
  BY <1>1 DEF Fails, TypeOK
<1>3. BuildIsSafe(r)'
  BY <1>2 DEF BuildIsSafe, Building, Using, Writing, Off
<1> QED BY <1>1, <1>2, <1>3, Quiet DEF Fails, Off, store

\* Nor does one that goes on building where nothing is published, up to its seal.
LEMMA QuietBuilding == ASSUME SealInv, NEW r \in Run, Acts(r), ~overlap', Building(r),
                              cmd'[r].pc \in {"remove", "mkdir", "head"} \cup Writing,
                              cmd'[r].tree = "partial",
                              cmd'[r].open # NoDir => cmd'[r].pc = "remove",
                              final' = final, told' = told
                       PROVE SealInv'
<1>1. ~overlap /\ TypeOK /\ TypeOK'
  BY IsAlone, TypeStep DEF SealInv
<1>2. final' = NoDir
  BY <1>1 DEF SealInv, BuildIsSafe
<1>3. BuildIsSafe(r)'
  BY <1>2 DEF BuildIsSafe, Building, Using, Writing
<1> QED BY <1>1, <1>3, Quiet

-----------------------------------------------------------------------------
(* Every action keeps the invariant.                                       *)

LEMMA SealStep == ASSUME SealInv, NEW r \in Run, Acts(r) PROVE SealInv'
<1>1. TypeOK /\ TypeOK'
  BY TypeStep DEF SealInv
<1> SUFFICES ASSUME ~overlap' PROVE SealInv'
  BY <1>1 DEF SealInv
<1>2. ~overlap /\ Alone(r) /\ BuildIsSafe(r)
  BY IsAlone DEF SealInv
<1>3. cmd[r] \in Command /\ (cmd[r].open # NoDir => cmd[r].pc = "remove")
  BY <1>1, <1>2 DEF TypeOK, SealInv, OneAtATime
<1>4. Building(r) => cmd[r].tree = "partial"
  BY <1>2 DEF BuildIsSafe
<1>5. CASE Start(r)
  <2>1. cmd'[r].pc = "look" /\ cmd'[r].open = cmd[r].open
    BY <1>1, <1>5 DEF Start, Goto, TypeOK, Command
  <2>2. cmd'[r].open = NoDir
    BY <1>3, <1>5, <2>1 DEF Start
  <2>3. BuildIsSafe(r)'
    BY <2>1 DEF BuildIsSafe, Building, Using, Writing
  <2> QED BY <1>1, <1>5, <2>2, <2>3, Quiet DEF Start, store
<1>6. CASE LookAtFinal(r)
  <2>1. cmd'[r].open = NoDir
    BY <1>1, <1>3, <1>6 DEF LookAtFinal, TypeOK, Command
  <2>2. BuildIsSafe(r)'
    <3>1. CASE final # NoDir
      <4>1. cmd'[r].pc = "head" /\ cmd'[r].tree = "final" /\ final' = final
        BY <1>1, <1>6, <3>1 DEF LookAtFinal, TypeOK, Command, store
      <4> QED BY <3>1, <4>1 DEF BuildIsSafe, Building, Using, Writing
    <3>2. CASE final = NoDir
      <4>1. cmd'[r].pc = "clear" /\ cmd'[r].tree = "partial" /\ final' = final
        BY <1>1, <1>6, <3>2 DEF LookAtFinal, TypeOK, Command, store
      <4> QED BY <3>2, <4>1 DEF BuildIsSafe, Building, Using, Writing
    <3> QED BY <3>1, <3>2
  <2> QED BY <1>1, <1>6, <2>1, <2>2, Quiet DEF LookAtFinal, store
<1>7. CASE ClearPartial(r)
  <2>1. Building(r)
    BY <1>7 DEF ClearPartial, Building
  <2>2. cmd'[r].pc \in {"mkdir", "remove"} /\ cmd'[r].tree = "partial" /\ cmd'[r].open = NoDir
    BY <1>1, <1>3, <1>4, <1>7, <2>1 DEF ClearPartial, Goto, TypeOK, Command
  <2> QED BY <1>7, <2>1, <2>2, QuietBuilding DEF ClearPartial
<1>8. CASE OpenPartial(r)
  <2>1. CASE partial = NoDir
    BY <1>8, <2>1, QuietFailure DEF OpenPartial
  <2>2. CASE partial # NoDir
    <3>1. Building(r)
      BY <1>8 DEF OpenPartial, Building
    <3>2. cmd'[r].pc = "remove" /\ cmd'[r].tree = "partial"
      <4>1. cmd'[r] = [cmd[r] EXCEPT !.open = partial, !.listed = Present(partial)]
        BY <1>1, <1>8, <2>2 DEF OpenPartial, TypeOK
      <4>2. cmd[r].pc = "remove" /\ cmd[r].tree = "partial"
        BY <1>4, <1>8, <3>1 DEF OpenPartial
      <4> QED BY <1>3, <4>1, <4>2 DEF Command
    <3> QED BY <1>8, <2>2, <3>1, <3>2, QuietBuilding DEF OpenPartial, store
  <2> QED BY <2>1, <2>2
<1>9. ASSUME NEW e \in cmd[r].listed, RemoveEntry(r, e) PROVE SealInv'
  <2>1. CASE dir[cmd[r].open].sealed
    BY <1>9, <2>1, QuietFailure DEF RemoveEntry
  <2>2. CASE ~dir[cmd[r].open].sealed
    <3>1. Building(r)
      BY <1>9 DEF RemoveEntry, Building
    <3>2. cmd'[r].pc = "remove" /\ cmd'[r].tree = "partial"
      BY <1>1, <1>3, <1>4, <1>9, <2>2, <3>1 DEF RemoveEntry, TypeOK, Command
    <3> QED BY <1>9, <2>2, <3>1, <3>2, QuietBuilding DEF RemoveEntry
  <2> QED BY <2>1, <2>2
<1>10. CASE RemoveTop(r)
  <2>1. CASE partial # NoDir /\ Present(partial) = {}
    <3>1. Building(r)
      BY <1>10 DEF RemoveTop, Building
    <3>2. cmd'[r].pc = "mkdir" /\ cmd'[r].tree = "partial" /\ cmd'[r].open = NoDir
      BY <1>1, <1>10, <2>1 DEF RemoveTop, TypeOK, Off
    <3> QED BY <1>10, <2>1, <3>1, <3>2, QuietBuilding DEF RemoveTop
  <2>2. CASE ~(partial # NoDir /\ Present(partial) = {})
    BY <1>10, <2>2, QuietFailure DEF RemoveTop
  <2> QED BY <2>1, <2>2
<1>11. CASE MakePartial(r)
  <2>1. CASE partial = NoDir
    <3>1. Building(r)
      BY <1>11 DEF MakePartial, Building
    <3>2. cmd'[r].pc = "layout" /\ cmd'[r].tree = "partial" /\ cmd'[r].open = NoDir
      BY <1>1, <1>3, <1>4, <1>11, <2>1, <3>1 DEF MakePartial, Goto, TypeOK, Command
    <3> QED BY <1>11, <2>1, <3>1, <3>2, QuietBuilding DEF MakePartial, Put, Writing
  <2>2. CASE partial # NoDir
    BY <1>11, <2>2, QuietFailure DEF MakePartial
  <2> QED BY <2>1, <2>2
<1>12. CASE MakeLayout(r)
  <2>1. CASE "layout" \in Tree.has \/ Tree.sealed
    BY <1>12, <2>1, QuietFailure DEF MakeLayout
  <2>2. CASE ~("layout" \in Tree.has \/ Tree.sealed)
    <3>1. Building(r)
      BY <1>12 DEF MakeLayout, Building, Writing
    <3>2. cmd'[r].pc = "files" /\ cmd'[r].tree = "partial" /\ cmd'[r].open = NoDir
      <4>1. cmd'[r] = [cmd[r] EXCEPT !.pc = "files", !.todo = File]
        BY <1>1, <1>12, <2>2 DEF MakeLayout, TypeOK
      <4>2. cmd[r].tree = "partial" /\ cmd[r].open = NoDir
        BY <1>3, <1>4, <1>12, <3>1 DEF MakeLayout
      <4> QED BY <1>3, <4>1, <4>2 DEF Command
    <3> QED BY <1>12, <2>2, <3>1, <3>2, QuietBuilding DEF MakeLayout, Put, Writing
  <2> QED BY <2>1, <2>2
<1>13. ASSUME NEW f \in File, LinkFile(r, f) PROVE SealInv'
  <2>1. Building(r)
    BY <1>13 DEF LinkFile, Building, Writing
  <2>2. cmd'[r].pc = "files" /\ cmd'[r].tree = "partial" /\ cmd'[r].open = NoDir
    BY <1>1, <1>3, <1>4, <1>13, <2>1 DEF LinkFile, TypeOK, Command
  <2> QED BY <1>13, <2>1, <2>2, QuietBuilding DEF LinkFile, Put, Writing
<1>14. ASSUME NEW f \in File, LinkFails(r, f) PROVE SealInv'
  BY <1>14, QuietFailure DEF LinkFails
<1>15. CASE WriteManifests(r)
  <2>1. CASE "manifests" \in Tree.has \/ Tree.sealed
    BY <1>15, <2>1, QuietFailure DEF WriteManifests
  <2>2. CASE ~("manifests" \in Tree.has \/ Tree.sealed)
    <3>1. Building(r)
      BY <1>15 DEF WriteManifests, Building, Writing
    <3>2. cmd'[r].pc = "descriptor" /\ cmd'[r].tree = "partial" /\ cmd'[r].open = NoDir
      BY <1>1, <1>3, <1>4, <1>15, <2>2, <3>1 DEF WriteManifests, Goto, TypeOK, Command
    <3> QED BY <1>15, <2>2, <3>1, <3>2, QuietBuilding DEF WriteManifests, Put, Writing
  <2> QED BY <2>1, <2>2
<1>16. CASE WriteDescriptor(r) \/ WriteReady(r)
  <2>1. CASE partial = NoDir \/ Tree.sealed
    BY <1>16, <2>1, QuietFailure DEF WriteDescriptor, WriteReady
  <2>2. CASE ~(partial = NoDir \/ Tree.sealed)
    <3>1. Building(r)
      BY <1>16 DEF WriteDescriptor, WriteReady, Building, Writing
    <3>2. cmd'[r].pc \in {"ready", "seal"} /\ cmd'[r].tree = "partial" /\ cmd'[r].open = NoDir
      BY <1>1, <1>3, <1>4, <1>16, <2>2, <3>1
         DEF WriteDescriptor, WriteReady, Goto, TypeOK, Command
    <3> QED BY <1>16, <2>2, <3>1, <3>2, QuietBuilding DEF WriteDescriptor, WriteReady, Put, Writing
  <2> QED BY <2>1, <2>2
<1>17. CASE Seal(r)
  <2>1. Building(r)
    BY <1>17 DEF Seal, Building, Writing
  <2>2. cmd'[r].pc = "head" /\ cmd'[r].tree = "partial" /\ cmd'[r].open = NoDir
    BY <1>1, <1>3, <1>4, <1>17, <2>1 DEF Seal, Goto, TypeOK, Command
  <2> QED BY <1>17, <2>1, <2>2, QuietBuilding DEF Seal
<1>18. CASE VerifyHead(r)
  <2>1. CASE Named(r) # NoDir /\ HeadIsValid(dir[Named(r)])
    <3>1. /\ cmd'[r].pc = "payload" /\ cmd'[r].todo = File
          /\ cmd'[r].tree = cmd[r].tree /\ cmd'[r].open = NoDir
      <4>1. cmd'[r] = [cmd[r] EXCEPT !.pc = "payload", !.todo = File]
        BY <1>1, <1>18, <2>1 DEF VerifyHead, TypeOK
      <4>2. cmd[r].open = NoDir
        BY <1>3, <1>18 DEF VerifyHead
      <4> QED BY <1>3, <4>1, <4>2 DEF Command
    <3>2. UNCHANGED store /\ cmd[r].pc = "head" /\ told' = told
      BY <1>18, <2>1 DEF VerifyHead
    <3>3. CASE cmd[r].tree = "partial"
      <4>1. final = NoDir /\ partial # NoDir /\ HeadIsValid(dir[partial])
        BY <1>2, <2>1, <3>2, <3>3 DEF Named, BuildIsSafe, Building
      <4>2. BuildIsSafe(r)'
        BY <3>1, <3>2, <3>3, <4>1 DEF BuildIsSafe, Building, Using, Writing, HeadIsValid, store
      <4> QED BY <1>1, <3>1, <3>2, <4>2, Quiet DEF store
    <3>4. CASE cmd[r].tree = "final"
      <4>1. final # NoDir
        BY <2>1, <3>4 DEF Named
      <4>2. BuildIsSafe(r)'
        BY <3>1, <3>2, <3>4, <4>1 DEF BuildIsSafe, Building, Using, Writing, store
      <4> QED BY <1>1, <3>1, <3>2, <4>2, Quiet DEF store
    <3> QED BY <1>3, <3>3, <3>4 DEF Command
  <2>2. CASE ~(Named(r) # NoDir /\ HeadIsValid(dir[Named(r)]))
    BY <1>18, <2>2, QuietFailure DEF VerifyHead
  <2> QED BY <2>1, <2>2
<1>19. ASSUME NEW f \in File, VerifyFile(r, f) PROVE SealInv'
  <2> DEFINE next == IF cmd[r].todo # {f} THEN "payload"
                     ELSE IF cmd[r].tree = "final" THEN "report" ELSE "publish"
  <2>1. CASE Named(r) # NoDir /\ f \in dir[Named(r)].has /\ dir[Named(r)].sealed
    <3>1. UNCHANGED store /\ cmd[r].pc = "payload" /\ told' = told
      BY <1>19, <2>1 DEF VerifyFile
    <3>2. /\ cmd'[r].pc = next /\ cmd'[r].todo = cmd[r].todo \ {f}
          /\ cmd'[r].tree = cmd[r].tree /\ cmd'[r].open = NoDir
      <4>1. cmd'[r] = [cmd[r] EXCEPT !.todo = @ \ {f}, !.pc = next]
        BY <1>1, <1>19, <2>1 DEF VerifyFile, TypeOK
      <4>2. cmd[r].open = NoDir
        BY <1>3, <3>1
      <4> HIDE DEF next
      <4> QED BY <1>3, <4>1, <4>2 DEF Command
    <3>3. CASE cmd[r].tree = "partial"
      <4>1. /\ final = NoDir /\ partial # NoDir /\ HeadIsValid(dir[partial])
            /\ File \ cmd[r].todo \subseteq dir[partial].has
        BY <1>2, <3>1, <3>3 DEF BuildIsSafe, Building
      <4>2. f \in dir[partial].has
        BY <2>1, <3>3 DEF Named
      <4>3. File \ cmd'[r].todo \subseteq dir[partial].has
        BY <3>2, <4>1, <4>2
      <4>4. next = "publish" => Whole(partial)
        BY <3>2, <4>1, <4>2 DEF Whole
      <4>5. next \in {"payload", "publish"}
        BY <3>3
      <4>6. BuildIsSafe(r)'
        <5> HIDE DEF next
        <5> QED BY <3>1, <3>2, <3>3, <4>1, <4>3, <4>4, <4>5
                DEF BuildIsSafe, Building, Using, Writing, Whole, HeadIsValid, store
      <4> QED BY <1>1, <1>19, <3>1, <3>2, <4>6, Quiet DEF store, Acts, Step, Verify
    <3>4. CASE cmd[r].tree = "final"
      <4>1. final # NoDir
        BY <2>1, <3>4 DEF Named
      <4>2. next \in {"payload", "report"}
        BY <3>4
      <4>3. BuildIsSafe(r)'
        <5> HIDE DEF next
        <5> QED BY <3>1, <3>2, <3>4, <4>1, <4>2 DEF BuildIsSafe, Building, Using, Writing, store
      <4> QED BY <1>1, <1>19, <3>1, <3>2, <4>3, Quiet DEF store, Acts, Step, Verify
    <3> QED BY <1>3, <3>3, <3>4 DEF Command
  <2>2. CASE ~(Named(r) # NoDir /\ f \in dir[Named(r)].has /\ dir[Named(r)].sealed)
    BY <1>19, <2>2, QuietFailure DEF VerifyFile
  <2> QED BY <2>1, <2>2
<1>20. CASE Publish(r)
  <2>1. CASE partial = NoDir \/ (final # NoDir /\ Present(final) # {})
    BY <1>20, <2>1, QuietFailure DEF Publish
  <2>2. CASE ~(partial = NoDir \/ (final # NoDir /\ Present(final) # {}))
    <3>1. final' = partial /\ partial' = NoDir /\ dir' = dir /\ told' = told /\ partial # NoDir
      BY <1>20, <2>2 DEF Publish
    <3>2. cmd'[r].pc = "report" /\ cmd'[r].open = NoDir
      BY <1>1, <1>3, <1>20, <2>2 DEF Publish, Goto, TypeOK, Command
    <3>3. final = NoDir /\ Whole(partial)
      BY <1>2, <1>20 DEF Publish, BuildIsSafe, Building
    <3>4. BuildIsSafe(r)'
      BY <3>1, <3>2 DEF BuildIsSafe, Building, Using, Writing
    <3>5. OneAtATime' /\ \A q \in Run : BuildIsSafe(q)'
      BY <1>1, <3>2, <3>4, CommandsAreSafe
    <3>6. Whole(final)' /\ final' # partial'
      BY <3>1, <3>3 DEF Whole, HeadIsValid
    <3>7. \A q \in Run : told'[q] = Nobody
      BY <1>2, <3>1, <3>3 DEF SealInv
    <3> QED BY <1>1, <3>5, <3>6, <3>7 DEF SealInv
  <2> QED BY <2>1, <2>2
<1>21. CASE Report(r)
  <2>1. CASE final = NoDir \/ dir[final].descriptor = Nobody
    BY <1>21, <2>1, QuietFailure DEF Report
  <2>2. CASE ~(final = NoDir \/ dir[final].descriptor = Nobody)
    <3>1. UNCHANGED store /\ told' = [told EXCEPT ![r] = dir[final].descriptor]
      BY <1>21, <2>2 DEF Report
    <3>2. cmd'[r].pc = "done" /\ cmd'[r].open = NoDir
      BY <1>1, <1>21, <2>2 DEF Report, Off, TypeOK
    <3>3. BuildIsSafe(r)'
      BY <3>2 DEF BuildIsSafe, Building, Using, Writing
    <3>4. OneAtATime' /\ \A q \in Run : BuildIsSafe(q)'
      BY <1>1, <3>2, <3>3, CommandsAreSafe
    <3>5. final' # NoDir => Whole(final)' /\ final' # partial'
      BY <1>2, <3>1 DEF SealInv, Whole, HeadIsValid, store
    <3>6. ASSUME NEW q \in Run, told'[q] # Nobody
          PROVE final' # NoDir /\ told'[q] = dir'[final'].descriptor
      BY <1>1, <1>2, <2>2, <3>1, <3>6 DEF SealInv, TypeOK, store
    <3> QED BY <1>1, <3>4, <3>5, <3>6 DEF SealInv
  <2> QED BY <2>1, <2>2
<1>22. CASE Dies(r)
  <2>1. cmd'[r] = Off
    BY <1>1, <1>22 DEF Dies, TypeOK
  <2>2. BuildIsSafe(r)'
    BY <2>1 DEF BuildIsSafe, Building, Using, Writing, Off
  <2> QED BY <1>1, <1>22, <2>1, <2>2, Quiet DEF Dies, Off, store
<1> QED BY <1>5, <1>6, <1>7, <1>8, <1>9, <1>10, <1>11, <1>12, <1>13, <1>14, <1>15, <1>16, <1>17,
          <1>18, <1>19, <1>20, <1>21, <1>22
       DEF Acts, Step, Remove, Populate, Verify

-----------------------------------------------------------------------------
(* The theorems.                                                           *)

\* One command at a time, nothing is published yet or a whole tree is, and what
\* the command at work has verified is as it was: an invariant.
THEOREM Invariant == Spec => []SealInv
<1>1. ASSUME Init PROVE SealInv
  <2>1. Empty \in DirState
    BY DEF Empty, DirState
  <2>2. TypeOK
    <3>1. dir \in [Dir -> DirState] /\ told \in [Run -> {Nobody} \cup Run]
      BY <1>1, <2>1 DEF Init
    <3>2. cmd \in [Run -> Command]
      BY <1>1, OffIsCommand DEF Init
    <3>3. overlap \in BOOLEAN
      BY <1>1 DEF Init
    <3>4. faults \in 0..MaxFaults
      BY <1>1, FaultAssumption DEF Init
    <3>5. final \in {NoDir} \cup Dir /\ partial \in {NoDir} \cup Dir
      BY <1>1 DEF Init
    <3> QED BY <3>1, <3>2, <3>3, <3>4, <3>5, Zenon DEF TypeOK
  <2>3. \A r \in Run : cmd[r] = Off /\ told[r] = Nobody
    BY <1>1 DEF Init
  <2>4. OneAtATime /\ \A r \in Run : BuildIsSafe(r)
    BY <2>3 DEF OneAtATime, AtWork, BuildIsSafe, Building, Using, Writing, Off
  <2> QED BY <1>1, <2>2, <2>3, <2>4 DEF Init, SealInv
<1>2. SealInv /\ [Next]_vars => SealInv'
  <2>1. SealInv /\ Next => SealInv'
    BY SealStep DEF Next, Acts
  <2>2. SealInv /\ UNCHANGED vars => SealInv'
    BY DEF vars, store, SealInv, TypeOK, OneAtATime, AtWork, BuildIsSafe, Building, Using,
           Whole, HeadIsValid
  <2> QED BY <2>1, <2>2
<1> QED BY <1>1, <1>2, PTL DEF Spec

\* Every variable keeps to its kind of value, overlap or not.
THEOREM TypeCorrect == Spec => []TypeOK
<1>1. SealInv => TypeOK
  BY DEF SealInv
<1> QED BY <1>1, Invariant, PTL

\* What commands on runs of one release publish, one after another and whatever
\* step each of them dies at, is a whole snapshot.
THEOREM SnapshotsAreWhole == Spec => []PublishedIsWhole
<1>1. SealInv => PublishedIsWhole
  BY DEF SealInv, PublishedIsWhole
<1> QED BY <1>1, Invariant, PTL

\* A finished run's digest is that of the snapshot that is there.
THEOREM ReportsAreTrue == Spec => []ReportsNameThePublished
<1>1. SealInv => ReportsNameThePublished
  BY DEF SealInv, ReportsNameThePublished
<1> QED BY <1>1, Invariant, PTL

\* No later command moves, empties or writes to what has been published.
THEOREM SnapshotsStay == Spec => PublishedIsForGood
<1>1. ASSUME SealInv, [Next]_vars
      PROVE [final # NoDir /\ ~overlap' => final' = final /\ dir'[final] = dir[final]]_vars
  <2>1. CASE Next
    <3>1. PICK r \in Run : Acts(r)
      BY <2>1 DEF Next, Acts
    <3>2. final # NoDir /\ ~overlap' => final' = final /\ dir'[final] = dir[final]
      BY <1>1, <3>1, Undisturbed DEF store
    <3> QED BY <3>2
  <2> QED BY <1>1, <2>1
<1> QED BY <1>1, Invariant, PTL DEF Spec, PublishedIsForGood

=============================================================================

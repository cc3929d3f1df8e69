--------------------------- MODULE ArtifactDownload ---------------------------
(***************************************************************************)
(* One artifact of an acquisition plan: the directory in which it is       *)
(* collected, the aria2 process that fetches it, and its way into the      *)
(* content-addressed store.  The directory holds the payload, aria2's      *)
(* control file, the downloader's record of what the payload is (state)    *)
(* and, at the end, a receipt; each is changed on its own and the command  *)
(* may die between any two changes.                                        *)
(*                                                                         *)
(* Whoever works on the artifact holds the directory's lock from the first *)
(* step to the last, so that one process counter stands for all commands.  *)
(* A representation is what a source serves at a time: a content and the   *)
(* validator (strong ETag, else Last-Modified) it is served with.  A blob  *)
(* is known by its bytes, here a function from blocks to contents.         *)
(***************************************************************************)
EXTENDS Naturals, Sequences

CONSTANTS
    Url,          \* web seeds
    Sources,      \* the web seeds of the artifact, in the order they are tried
    Attempts,     \* http_attempts_per_url
    NumBlocks,    \* blocks of the payload
    Content,      \* what a file can be
    Declared,     \* the content that the source hash stands for
    Rep,          \* the representations a source may serve
    MaxFaults,    \* bound on crashes, failures and changes of a source
    Hole,         \* a block that has not been written
    NoFile,       \* the file does not exist
    NoValidator   \* the source gives no usable validator

Block == 1..NumBlocks

ASSUME BlocksAssumption  == NumBlocks \in Nat \ {0}
ASSUME SourcesAssumption == Sources \in Seq(Url) /\ Len(Sources) > 0
ASSUME AttemptsAssumption == Attempts \in Nat \ {0} /\ MaxFaults \in Nat
ASSUME DeclaredAssumption == Declared \in Content
ASSUME HoleAssumption    == Hole \notin Content
ASSUME RepAssumption     ==
    \A r \in Rep : r = [content |-> r.content, validator |-> r.validator]
                   /\ r.content \in Content
\* A validator stands for one content, whichever source it comes from.
ASSUME ValidatorAssumption ==
    \A r, s \in Rep : r.validator = s.validator /\ r.validator # NoValidator
                         => r.content = s.content
ASSUME NoFileAssumption  ==
    /\ \A f \in [Block -> Content \cup {Hole}] : f # NoFile
    /\ \A have \in SUBSET Block : have # NoFile

Validator == {r.validator : r \in Rep} \cup {NoValidator}
Bytes == [Block -> Content \cup {Hole}]
Whole(c) == [b \in Block |-> c]
Empty == Whole(Hole)

PartialState == [url : Url, validator : Validator, complete : BOOLEAN]
\* A transfer of aria2: the blocks it has, what its requests are bound to and,
\* for a single stream, what is being read.
Transfer == [url : Url, bound : Validator, split : BOOLEAN,
             reading : Rep \cup {NoFile}, have : SUBSET Block, done : BOOLEAN]

\* What is not there is none of these.
ASSUME NoRecordAssumption == NoFile \notin Rep \cup PartialState \cup Transfer

PC == {"idle", "receipt", "seed", "attempt", "probed", "clear", "record",
       "add", "transfer", "reprobe", "confirm", "hash", "next",
       "adopt", "replace", "commit", "tidy"}
Holding == PC \ {"idle"}
\* What _Aria2HttpAdapter.clear removes, in its order; then the next step.
Clearing == {"payload", "state", "control"}

VARIABLES
    hashed,    \* does the plan declare a source hash for the artifact?
    writable,  \* may a file of mode 0444 be opened for writing (by root)?
    payload,   \* payload.part
    readOnly,  \* has it mode 0444?
    control,   \* payload.part.aria2: the blocks it says are there
    state,     \* state.json
    receipt,   \* receipt.json: the bytes it names
    blobs,     \* the content-addressed store
    served,    \* what each source serves now
    writer,    \* the transfer of aria2, if there is one
    pc,        \* the next step of the command that holds the lock
    clearing,  \* the file that clear removes next
    after,     \* the step that follows clear
    try,       \* the number of the attempt
    probe,     \* the validator the attempt has found
    single,    \* single_stream
    digest,    \* the bytes that have been hashed
    faults     \* faults so far

given == <<hashed, writable>>
files == <<payload, readOnly, control, state>>
local == <<clearing, after, try, probe, single, digest>>
vars == <<given, files, receipt, blobs, served, writer, pc, local, faults>>

Init ==
    /\ hashed \in BOOLEAN
    /\ writable \in BOOLEAN
    /\ payload = NoFile
    /\ readOnly = FALSE
    /\ control = NoFile
    /\ state = NoFile
    /\ receipt = NoFile
    /\ blobs = {}
    /\ served \in [Url -> Rep]
    /\ writer = NoFile
    /\ pc = "idle"
    /\ clearing = "payload"
    /\ after = "idle"
    /\ try = 1
    /\ probe = NoValidator
    /\ single = FALSE
    /\ digest = NoFile
    /\ faults = 0

-----------------------------------------------------------------------------

\* The url of the attempt: each source is tried Attempts times.
CurrentUrl == Sources[((try - 1) \div Attempts) + 1]
LastTry == Attempts * Len(Sources)

\* The file has its full length; nothing is said of the blocks before the last.
FullSize == payload # NoFile /\ payload[NumBlocks] # Hole

\* source_hash_verified of the bytes on disk.
Verified == hashed => payload = Whole(Declared)

SameSource ==
    /\ state # NoFile
    /\ state.url = CurrentUrl
    /\ probe # NoValidator
    /\ state.validator = probe

Confirmed == SameSource /\ state.complete /\ payload # NoFile /\ control = NoFile

\* Mutant: a control file is enough to resume.
ResumableFromAnySource == control # NoFile

Resumable == SameSource /\ control # NoFile

Goto(step) == pc' = step
Quiet == UNCHANGED <<files, receipt, blobs, given, served, writer, faults>>

ClearThen(step) ==
    /\ pc' = "clear"
    /\ clearing' = "payload"
    /\ after' = step

-----------------------------------------------------------------------------
(* _download_one                                                           *)

Begin ==
    /\ pc = "idle"
    /\ Goto("receipt")
    /\ try' = 1
    /\ probe' = NoValidator
    /\ single' = FALSE
    /\ digest' = NoFile
    /\ UNCHANGED <<clearing, after>>
    /\ Quiet

UseReceipt ==
    /\ pc = "receipt"
    /\ receipt # NoFile
    /\ Goto("idle")
    /\ UNCHANGED local
    /\ Quiet

NoReceipt ==
    /\ pc = "receipt"
    /\ receipt = NoFile
    /\ Goto("seed")
    /\ UNCHANGED local
    /\ Quiet

\* A full payload without a control file is complete if its hash says so.
ReuseSeed ==
    /\ pc = "seed"
    /\ FullSize /\ control = NoFile /\ hashed
    /\ Verified
    /\ Goto("adopt")
    /\ digest' = payload
    /\ UNCHANGED <<clearing, after, try, probe, single>>
    /\ Quiet

ClearSeed ==
    /\ pc = "seed"
    /\ FullSize /\ control = NoFile /\ hashed
    /\ ~Verified
    /\ ClearThen("attempt")
    /\ UNCHANGED <<try, probe, single, digest>>
    /\ Quiet

NoSeed ==
    /\ pc = "seed"
    /\ ~(FullSize /\ control = NoFile /\ hashed)
    /\ Goto("attempt")
    /\ UNCHANGED local
    /\ Quiet

-----------------------------------------------------------------------------
(* One attempt: probe, then reuse, resume or start over.                   *)

Probe ==
    /\ pc = "attempt"
    /\ Goto("probed")
    /\ probe' = served[CurrentUrl].validator
    /\ UNCHANGED <<clearing, after, try, single, digest>>
    /\ Quiet

ProbeFails ==
    /\ pc = "attempt"
    /\ faults < MaxFaults
    /\ faults' = faults + 1
    /\ Goto("next")
    /\ UNCHANGED <<files, receipt, blobs, given, served, writer, local>>

ReuseComplete ==
    /\ pc = "probed"
    /\ Confirmed
    /\ Goto("hash")
    /\ UNCHANGED local
    /\ Quiet

Restart ==
    /\ pc = "probed"
    /\ ~Confirmed
    /\ ~Resumable
    /\ ClearThen("record")
    /\ UNCHANGED <<try, probe, single, digest>>
    /\ Quiet

Clear ==
    /\ pc = "clear"
    /\ \/ /\ clearing = "payload"
          /\ payload' = NoFile
          /\ readOnly' = FALSE
          /\ clearing' = "state"
          /\ UNCHANGED <<control, state, pc>>
       \/ /\ clearing = "state"
          /\ state' = NoFile
          /\ clearing' = "control"
          /\ UNCHANGED <<payload, readOnly, control, pc>>
       \/ /\ clearing = "control"
          /\ control' = NoFile
          /\ Goto(after)
          /\ UNCHANGED <<payload, readOnly, state, clearing>>
    /\ UNCHANGED <<receipt, blobs, given, served, writer, after, try, probe, single, digest, faults>>

Resume ==
    /\ pc = "probed"
    /\ ~Confirmed
    /\ Resumable
    /\ Goto("record")
    /\ UNCHANGED local
    /\ Quiet

\* state.json says what the payload is about to be, before aria2 writes to it.
Record ==
    /\ pc = "record"
    /\ state' = [url |-> CurrentUrl, validator |-> probe, complete |-> FALSE]
    /\ Goto("add")
    /\ UNCHANGED <<payload, readOnly, control, receipt, blobs, given, served, writer, local, faults>>

\* Mutant: the ranges of a fresh transfer are not bound.
BoundIfResumed(split) == IF control # NoFile THEN probe ELSE NoValidator

\* What the requests are bound to.  A whole response whose hash is declared need
\* not be bound.
Bound(split) == IF control # NoFile \/ split \/ ~hashed THEN probe ELSE NoValidator

\* A control file that is left at this point is one to resume from.  aria2 takes
\* its blocks for there, unless the payload is gone: then it drops the file.
AddUri ==
    /\ pc = "add"
    /\ \E split \in BOOLEAN :
          /\ split => ~single /\ probe # NoValidator
          /\ writer' = [url |-> CurrentUrl, bound |-> Bound(split), split |-> split,
                        reading |-> NoFile, done |-> FALSE,
                        have |-> IF control # NoFile /\ payload # NoFile THEN control
                                                                        ELSE {}]
    /\ \/ payload # NoFile /\ UNCHANGED <<payload, control>>
       \/ payload = NoFile /\ payload' = Empty /\ control' = NoFile
    /\ Goto("transfer")
    /\ UNCHANGED <<readOnly, state, receipt, blobs, given, served, local, faults>>

-----------------------------------------------------------------------------
(* aria2.  A single stream reads one response, in order; each range of a   *)
(* split transfer is a response of its own.                                *)

Fetch(b) ==
    LET r == IF writer.reading # NoFile THEN writer.reading ELSE served[writer.url]
    IN  /\ pc = "transfer"
        /\ ~writer.done
        /\ b \notin writer.have
        /\ writer.split \/ \A c \in Block : c < b => c \in writer.have
        /\ writer.bound # NoValidator => r.validator = writer.bound
        /\ payload' = [payload EXCEPT ![b] = r.content]
        /\ writer' = [url |-> writer.url, bound |-> writer.bound,
                      split |-> writer.split,
                      reading |-> IF writer.split THEN NoFile ELSE r,
                      have |-> writer.have \cup {b}, done |-> FALSE]
        /\ UNCHANGED <<readOnly, control, state, receipt, blobs, given, served, pc, local, faults>>

SaveControl ==
    /\ pc = "transfer"
    /\ ~writer.done
    /\ control' = writer.have
    /\ UNCHANGED <<payload, readOnly, state, receipt, blobs, given, served, writer, pc, local, faults>>

\* The transfer is complete: aria2 removes its control file.
WriterDone ==
    /\ pc = "transfer"
    /\ ~writer.done
    /\ writer.have = Block
    /\ control' = NoFile
    /\ writer' = [url |-> writer.url, bound |-> writer.bound, split |-> writer.split,
                  reading |-> writer.reading, have |-> writer.have, done |-> TRUE]
    /\ UNCHANGED <<payload, readOnly, state, receipt, blobs, given, served, pc, local, faults>>

-----------------------------------------------------------------------------
(* What the attempt makes of the transfer.                                 *)

TransferComplete ==
    /\ pc = "transfer"
    /\ writer.done
    /\ writer' = NoFile
    /\ Goto(IF ~hashed /\ probe # NoValidator THEN "reprobe" ELSE "confirm")
    /\ UNCHANGED <<files, receipt, blobs, given, served, local, faults>>

\* The transfer is stopped; aria2 has written its control file once more, or not.
Stopped ==
    /\ writer' = NoFile
    /\ \/ UNCHANGED control
       \/ writer # NoFile /\ ~writer.done /\ control' = writer.have

\* A bound request is refused because the source has changed.  With a declared
\* hash the partial is given up for a single stream; without one the next probe
\* finds out.
Refused ==
    /\ pc = "transfer"
    /\ ~writer.done
    /\ writer.bound # NoValidator
    /\ served[writer.url].validator # writer.bound
    /\ Stopped
    /\ \/ /\ hashed
          /\ ClearThen("next")
          /\ single' = TRUE
       \/ /\ ~hashed
          /\ Goto("next")
          /\ UNCHANGED <<clearing, after, single>>
    /\ UNCHANGED <<payload, readOnly, state, receipt, blobs, given, served, try, probe, digest, faults>>

\* Error 8: the source does not serve the range it is asked for, or a range makes
\* no progress that aria2 can see.
RangeFails ==
    /\ pc = "transfer"
    /\ faults < MaxFaults
    /\ faults' = faults + 1
    /\ Stopped
    /\ ClearThen("next")
    /\ single' = TRUE
    /\ UNCHANGED <<payload, readOnly, state, receipt, blobs, given, served, try, probe, digest>>

\* Any other HTTP error: the partial stays.
TransferFails ==
    /\ pc = "transfer"
    /\ ~writer.done
    /\ faults < MaxFaults
    /\ faults' = faults + 1
    /\ Stopped
    /\ Goto("next")
    /\ UNCHANGED <<payload, readOnly, state, receipt, blobs, given, served, local>>

Reprobe ==
    /\ pc = "reprobe"
    /\ Goto(IF served[CurrentUrl].validator = probe THEN "confirm" ELSE "next")
    /\ UNCHANGED local
    /\ Quiet

Confirm ==
    /\ pc = "confirm"
    /\ state' = [url |-> CurrentUrl, validator |-> probe, complete |-> TRUE]
    /\ Goto("hash")
    /\ UNCHANGED <<payload, readOnly, control, receipt, blobs, given, served, writer, local, faults>>

\* A split transfer with the wrong hash is repeated as a single stream.
HashPayload ==
    /\ pc = "hash"
    /\ \/ /\ Verified
          /\ Goto("adopt")
          /\ digest' = payload
          /\ UNCHANGED <<clearing, after, try, probe, single>>
       \/ /\ ~Verified
          /\ ClearThen("next")
          /\ single' \in {single, TRUE}
          /\ UNCHANGED <<try, probe, digest>>
    /\ Quiet

\* The next attempt, with the same url or the next one; or the artifact fails.
NextAttempt ==
    /\ pc = "next"
    /\ \/ /\ try < LastTry
          /\ try' = try + 1
          /\ Goto("attempt")
       \/ /\ try = LastTry
          /\ Goto("idle")
          /\ UNCHANGED try
    /\ UNCHANGED <<clearing, after, probe, single, digest>>
    /\ Quiet

-----------------------------------------------------------------------------
(* adopt_verified_file, and the receipt.                                   *)

\* Mutant: a blob that is there already is an error.
AdoptExistingFails ==
    /\ pc = "adopt"
    /\ digest \in blobs
    /\ Goto("idle")
    /\ UNCHANGED local
    /\ Quiet

AdoptExisting ==
    /\ pc = "adopt"
    /\ digest \in blobs
    /\ payload' = NoFile
    /\ readOnly' = FALSE
    /\ Goto("commit")
    /\ UNCHANGED <<control, state, receipt, blobs, given, served, writer, local, faults>>

\* open(O_RDWR) and fchmod(0444); then fsync, which takes its time.
MakeReadOnly ==
    /\ pc = "adopt"
    /\ digest \notin blobs
    /\ readOnly => writable
    /\ readOnly' = TRUE
    /\ Goto("replace")
    /\ UNCHANGED <<payload, control, state, receipt, blobs, given, served, writer, local, faults>>

CannotOpen ==
    /\ pc = "adopt"
    /\ digest \notin blobs
    /\ readOnly /\ ~writable
    /\ Goto("idle")
    /\ UNCHANGED local
    /\ Quiet

Replace ==
    /\ pc = "replace"
    /\ blobs' = blobs \cup {payload}
    /\ payload' = NoFile
    /\ readOnly' = FALSE
    /\ Goto("commit")
    /\ UNCHANGED <<control, state, receipt, given, served, writer, local, faults>>

ReplaceFails ==
    /\ pc = "replace"
    /\ faults < MaxFaults
    /\ faults' = faults + 1
    /\ readOnly' = FALSE
    /\ Goto("idle")
    /\ UNCHANGED <<payload, control, state, receipt, blobs, given, served, writer, local>>

WriteReceipt ==
    /\ pc = "commit"
    /\ receipt' = digest
    /\ Goto("tidy")
    /\ UNCHANGED <<files, blobs, given, served, writer, local, faults>>

Tidy ==
    /\ pc = "tidy"
    /\ state' = NoFile
    /\ control' = NoFile
    /\ Goto("idle")
    /\ UNCHANGED <<payload, readOnly, receipt, blobs, given, served, writer, local, faults>>

-----------------------------------------------------------------------------
(* Around the command.                                                     *)

\* The command is cancelled because another artifact fails, runs out of its
\* time without progress, or dies, and aria2 with it.
Fail ==
    /\ pc \in Holding
    /\ faults < MaxFaults
    /\ faults' = faults + 1
    /\ Stopped
    /\ Goto("idle")
    /\ UNCHANGED <<payload, readOnly, state, receipt, blobs, given, served, local>>

\* A source serves something else, or another node of its CDN answers.
Republish(u, r) ==
    /\ faults < MaxFaults
    /\ faults' = faults + 1
    /\ served' = [served EXCEPT ![u] = r]
    /\ UNCHANGED <<given, files, receipt, blobs, writer, pc, local>>

\* Another artifact with this content is adopted.  It waits for the lock of the
\* blob while this one is being moved.
AdoptOther(c) ==
    /\ ~(pc = "replace" /\ digest = Whole(c))
    /\ blobs' = blobs \cup {Whole(c)}
    /\ UNCHANGED <<files, receipt, given, served, writer, pc, local, faults>>

-----------------------------------------------------------------------------

Step ==
    \/ UseReceipt \/ NoReceipt \/ ReuseSeed \/ ClearSeed \/ NoSeed
    \/ Probe \/ ReuseComplete \/ Restart \/ Clear \/ Resume \/ Record \/ AddUri
    \/ TransferComplete \/ Refused \/ Reprobe \/ Confirm \/ HashPayload
    \/ NextAttempt
    \/ AdoptExisting \/ MakeReadOnly \/ CannotOpen \/ Replace
    \/ WriteReceipt \/ Tidy

Aria2 == WriterDone \/ \E b \in Block : Fetch(b)

Fault ==
    \/ ProbeFails \/ RangeFails \/ TransferFails \/ ReplaceFails \/ Fail
    \/ \E u \in Url, r \in Rep : Republish(u, r)

Next ==
    \/ Begin \/ Step \/ Aria2 \/ SaveControl \/ Fault
    \/ \E c \in Content : AdoptOther(c)

Spec == Init /\ [][Next]_vars

\* A command goes on, aria2 goes on, and commands are repeated.
FairSpec == Spec /\ WF_vars(Step) /\ WF_vars(Aria2) /\ WF_vars(Begin)

-----------------------------------------------------------------------------
(* Properties.                                                             *)

\* Every variable has its type, and a command tries no source more often than the
\* download policy allows.
TypeOK ==
    /\ hashed \in BOOLEAN /\ writable \in BOOLEAN
    /\ payload \in {NoFile} \cup Bytes
    /\ readOnly \in BOOLEAN
    /\ control \in {NoFile} \cup SUBSET Block
    /\ state \in {NoFile} \cup PartialState
    /\ receipt \in {NoFile} \cup Bytes
    /\ blobs \subseteq Bytes
    /\ served \in [Url -> Rep]
    /\ writer \in {NoFile} \cup Transfer
    /\ pc \in PC
    /\ clearing \in Clearing
    /\ after \in PC
    /\ try \in 1..LastTry
    /\ probe \in Validator
    /\ single \in BOOLEAN
    /\ digest \in {NoFile} \cup Bytes
    /\ faults \in 0..MaxFaults

\* What is accepted is one content from the first block to the last, in the
\* store, and the declared one if a hash is declared: no crash between the
\* changes of the four files, no source that changes under a transfer and no
\* resume of an older partial puts together blocks of two contents or leaves a
\* hole in the payload.
AcceptedIsWhole ==
    /\ \A f \in blobs : \E c \in Content : f = Whole(c)
    /\ receipt # NoFile => receipt \in blobs /\ (hashed => receipt = Whole(Declared))

\* Where a resume would take blocks for there, they are there and have the
\* content that the validator in state.json stands for.  With a declared hash this
\* need not be so: a single stream is not bound, and the hash finds out.
ResumeIsSound ==
    ~hashed /\ state # NoFile /\ control # NoFile /\ payload # NoFile /\ pc # "clear" =>
        \E c \in Content :
            /\ \A b \in control : payload[b] = c
            /\ \A r \in Rep : r.validator = state.validator /\ r.validator # NoValidator
                                 => r.content = c

\* Unless the sources have nothing acceptable, commands that are repeated get
\* the artifact, whatever the failed and killed ones before have left behind, if
\* they may open what those have made read-only.
Acceptable == \A u \in Url : hashed => served[u].content = Declared
EventuallyAccepted ==
    writable /\ <>[]Acceptable => <>(receipt # NoFile)

\* "Completion survives an interrupted hash/commit": a payload that has been
\* found complete by its declared hash is accepted by this command or a later
\* one, without the sources.
CompletionSurvives == hashed /\ pc = "adopt" ~> receipt # NoFile

-----------------------------------------------------------------------------
(* Why: what every step keeps.                                             *)

\* The blocks in `have' are of one content, the one that validator v stands for.
OneContent(have, v) ==
    \E c \in Content :
        /\ \A b \in have : payload[b] = c
        /\ \A r \in Rep : r.validator = v /\ v # NoValidator => r.content = c

IsWhole(bytes) == \E c \in Content : bytes = Whole(c)

\* Up to which step the payload, the record and the requests belong together.
StepsInOrder ==
    /\ pc = "transfer" <=> writer # NoFile
    /\ pc = "transfer" => payload # NoFile
    /\ pc \in {"add", "transfer"} =>
         state # NoFile /\ state.validator = probe /\ ~state.complete
    /\ pc \in {"record", "add"} /\ control # NoFile => probe # NoValidator
    /\ pc = "record" /\ control # NoFile => state # NoFile /\ state.validator = probe
    /\ pc = "clear" => after \in {"attempt", "record", "next"}
    /\ pc = "clear" /\ clearing # "payload" => payload = NoFile
    /\ writer # NoFile /\ writer.done => control = NoFile
    /\ pc \in {"reprobe", "confirm"} => control = NoFile

\* A control file speaks of what is in the payload.
ControlIsSound ==
    ~hashed /\ state # NoFile /\ control # NoFile /\ payload # NoFile =>
        OneContent(control, state.validator)

\* So does aria2, which knows more than it has saved.
WriterIsSound ==
    ~hashed /\ writer # NoFile =>
        /\ OneContent(writer.have, writer.bound)
        /\ writer.bound = probe
        /\ control # NoFile => control \subseteq writer.have
        /\ writer.done => writer.have = Block
        /\ writer.bound = NoValidator =>
             /\ ~writer.split
             /\ writer.reading = NoFile => writer.have = {}
             /\ writer.reading # NoFile =>
                  \A b \in writer.have : payload[b] = writer.reading.content

\* What is called complete is.
CompleteIsWhole ==
    ~hashed => /\ pc \in {"reprobe", "confirm", "hash"} => IsWhole(payload)
               /\ state # NoFile /\ control = NoFile /\ payload # NoFile =>
                    (state.complete => IsWhole(payload))

\* What is hashed is what goes into the store.
DigestIsWhole ==
    /\ pc \in {"adopt", "replace"} =>
         digest = payload /\ IsWhole(digest) /\ (hashed => digest = Whole(Declared))
    /\ pc = "commit" => digest \in blobs /\ (hashed => digest = Whole(Declared))

ArtifactInv ==
    /\ TypeOK /\ StepsInOrder
    /\ ControlIsSound /\ WriterIsSound /\ CompleteIsWhole /\ DigestIsWhole
    /\ AcceptedIsWhole

=============================================================================

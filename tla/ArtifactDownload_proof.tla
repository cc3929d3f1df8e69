------------------------ MODULE ArtifactDownload_proof ------------------------
(***************************************************************************)
(* What enters the store, for any sources, numbers of blocks and attempts, *)
(* representations and faults.                                             *)
(***************************************************************************)
EXTENDS ArtifactDownload, TLAPS

\* An attempt belongs to a source.
LEMMA Quotient == ASSUME NEW a \in Nat \ {0}, NEW n \in Nat, NEW x \in Nat, x < a * n
                  PROVE (x \div a) \in Nat /\ (x \div a) < n
<1> DEFINE q == x \div a
<1>1. q \in Nat
  BY SMT
<1>2. a * q <= x
  BY SMT
<1>3. ASSUME q >= n PROVE FALSE
  <2>1. a * q >= a * n
    BY <1>1, <1>3, SMT
  <2> QED BY <1>1, <1>2, <2>1, SMT
<1> QED BY <1>1, <1>3, SMT

LEMMA UrlType == ASSUME try \in 1..LastTry PROVE CurrentUrl \in Url
<1>1. try - 1 \in Nat /\ try - 1 < Attempts * Len(Sources)
  BY SourcesAssumption, AttemptsAssumption DEF LastTry
<1> DEFINE x == try - 1
<1>l. Len(Sources) \in Nat /\ Attempts \in Nat \ {0}
  BY SourcesAssumption, AttemptsAssumption
<1>2. (x \div Attempts) \in Nat /\ (x \div Attempts) < Len(Sources)
  <2> HIDE DEF x
  <2> QED BY <1>1, <1>l, Quotient DEF x
<1>3. PICK i \in 1..Len(Sources) : i = ((try - 1) \div Attempts) + 1
  BY <1>2, SourcesAssumption
<1>4. Sources[i] \in Url
  BY SourcesAssumption
<1> QED BY <1>3, <1>4 DEF CurrentUrl

LEMMA LastTryType == LastTry \in Nat /\ LastTry >= 1
BY SourcesAssumption, AttemptsAssumption DEF LastTry

\* What a source serves has a content and a validator.
LEMMA RepType == ASSUME NEW r \in Rep
                 PROVE r.content \in Content /\ r.validator \in Validator /\ r # NoFile
BY RepAssumption, NoRecordAssumption DEF Validator

LEMMA WholeType == ASSUME NEW c \in Content
                   PROVE Whole(c) \in Bytes /\ Whole(c) # NoFile
BY NoFileAssumption DEF Whole, Bytes

\* A record of the payload, or of a transfer, is there.
LEMMA RecordType ==
    ASSUME NEW u \in Url, NEW v \in Validator, NEW done \in BOOLEAN
    PROVE  /\ [url |-> u, validator |-> v, complete |-> done] \in PartialState
           /\ [url |-> u, validator |-> v, complete |-> done] # NoFile
<1>1. [url |-> u, validator |-> v, complete |-> done] \in PartialState
  BY DEF PartialState
<1> QED BY <1>1, NoRecordAssumption

LEMMA TransferType ==
    ASSUME NEW u \in Url, NEW v \in Validator, NEW split \in BOOLEAN, NEW done \in BOOLEAN,
           NEW reading \in Rep \cup {NoFile}, NEW have \in SUBSET Block
    PROVE  /\ [url |-> u, bound |-> v, split |-> split, reading |-> reading,
               have |-> have, done |-> done] \in Transfer
           /\ [url |-> u, bound |-> v, split |-> split, reading |-> reading,
               have |-> have, done |-> done] # NoFile
<1>1. [url |-> u, bound |-> v, split |-> split, reading |-> reading,
       have |-> have, done |-> done] \in Transfer
  BY DEF Transfer
<1> QED BY <1>1, NoRecordAssumption

-----------------------------------------------------------------------------

\* The steps that change nothing but the command's own notes.
Noted ==
    \/ Begin \/ UseReceipt \/ NoReceipt \/ ReuseSeed \/ ClearSeed \/ NoSeed \/ Probe
    \/ ReuseComplete \/ Restart \/ Resume \/ Reprobe \/ HashPayload \/ NextAttempt \/ CannotOpen

LEMMA NotedType == ASSUME TypeOK, Noted PROVE TypeOK'
<1>1. UNCHANGED <<files, receipt, blobs, given, served, writer, faults>>
  BY DEF Noted, Begin, UseReceipt, NoReceipt, ReuseSeed, ClearSeed, NoSeed, Probe,
     ReuseComplete, Restart, Resume, Reprobe, HashPayload, NextAttempt, CannotOpen, Quiet
<1>2. /\ hashed' \in BOOLEAN /\ writable' \in BOOLEAN
      /\ payload' \in {NoFile} \cup Bytes /\ readOnly' \in BOOLEAN
      /\ control' \in {NoFile} \cup SUBSET Block /\ state' \in {NoFile} \cup PartialState
      /\ receipt' \in {NoFile} \cup Bytes /\ blobs' \subseteq Bytes
      /\ served' \in [Url -> Rep] /\ writer' \in {NoFile} \cup Transfer
      /\ faults' \in 0..MaxFaults
  BY <1>1 DEF TypeOK, files, given
<1>3. pc' \in PC /\ after' \in PC /\ clearing' \in Clearing
  BY DEF TypeOK, Noted, Begin, UseReceipt, NoReceipt, ReuseSeed, ClearSeed, NoSeed, Probe,
     ReuseComplete, Restart, Resume, Reprobe, HashPayload, NextAttempt, CannotOpen, Goto,
     ClearThen, PC, Clearing, local
<1>4. try' \in 1..LastTry
  <2>1. CASE NextAttempt
    BY <2>1, LastTryType DEF TypeOK, NextAttempt
  <2>2. CASE Begin
    BY <2>2, LastTryType DEF Begin
  <2>3. CASE ~NextAttempt /\ ~Begin
    BY <2>3 DEF TypeOK, Noted, UseReceipt, NoReceipt, ReuseSeed, ClearSeed, NoSeed, Probe,
     ReuseComplete, Restart, Resume, Reprobe, HashPayload, CannotOpen, local
  <2> QED BY <2>1, <2>2, <2>3
<1>5. probe' \in Validator
  <2>1. CASE Probe
    <3>1. served[CurrentUrl] \in Rep
      BY UrlType DEF TypeOK
    <3> QED BY <2>1, <3>1, RepType DEF Probe
  <2>2. CASE ~Probe
    BY <2>2 DEF TypeOK, Noted, Begin, UseReceipt, NoReceipt, ReuseSeed, ClearSeed, NoSeed,
     ReuseComplete, Restart, Resume, Reprobe, HashPayload, NextAttempt, CannotOpen, local,
     Validator
  <2> QED BY <2>1, <2>2
<1>6. single' \in BOOLEAN /\ digest' \in {NoFile} \cup Bytes
  BY DEF TypeOK, Noted, Begin, UseReceipt, NoReceipt, ReuseSeed, ClearSeed, NoSeed, Probe,
     ReuseComplete, Restart, Resume, Reprobe, HashPayload, NextAttempt, CannotOpen, local
<1> QED BY <1>2, <1>3, <1>4, <1>5, <1>6 DEF TypeOK

\* A transfer has a payload, and goes on with an answer of its source.
LEMMA FetchStep ==
    ASSUME TypeOK, StepsInOrder, NEW b \in Block, Fetch(b)
    PROVE  /\ payload \in Bytes /\ payload' \in Bytes /\ payload' # NoFile
           /\ writer \in Transfer /\ writer' \in Transfer /\ writer' # NoFile
           /\ \E r \in Rep :
                /\ r.content \in Content
                /\ writer.reading # NoFile => r = writer.reading
                /\ writer.bound # NoValidator => r.validator = writer.bound
                /\ payload' = [payload EXCEPT ![b] = r.content]
                /\ writer' = [url |-> writer.url, bound |-> writer.bound,
                              split |-> writer.split,
                              reading |-> IF writer.split THEN NoFile ELSE r,
                              have |-> writer.have \cup {b}, done |-> FALSE]
<1> DEFINE r == IF writer.reading # NoFile THEN writer.reading ELSE served[writer.url]
<1>1. writer \in Transfer /\ payload \in Bytes
  BY DEF TypeOK, Fetch, StepsInOrder
<1>2. /\ writer.url \in Url /\ writer.bound \in Validator /\ writer.split \in BOOLEAN
      /\ writer.have \cup {b} \in SUBSET Block
      /\ writer.reading \in Rep \cup {NoFile}
  BY <1>1 DEF Transfer
<1>3. r \in Rep
  BY <1>2 DEF TypeOK
<1>4. r.content \in Content
  BY <1>3, RepType
<1>5. /\ payload' = [payload EXCEPT ![b] = r.content]
      /\ writer.bound # NoValidator => r.validator = writer.bound
      /\ writer' = [url |-> writer.url, bound |-> writer.bound, split |-> writer.split,
                    reading |-> IF writer.split THEN NoFile ELSE r,
                    have |-> writer.have \cup {b}, done |-> FALSE]
  BY DEF Fetch
<1>6. payload' \in Bytes
  BY <1>1, <1>4, <1>5 DEF Bytes
<1>7. (IF writer.split THEN NoFile ELSE r) \in Rep \cup {NoFile}
  BY <1>3
<1>8. writer' \in Transfer /\ writer' # NoFile
  BY <1>2, <1>5, <1>7, TransferType
<1>9. payload' # NoFile
  BY <1>6, NoFileAssumption DEF Bytes
<1> HIDE DEF r
<1>10. writer.reading # NoFile => r = writer.reading
  BY DEF r
<1> QED BY <1>1, <1>3, <1>4, <1>5, <1>6, <1>8, <1>9, <1>10

LEMMA AddStep ==
    ASSUME TypeOK, AddUri
    PROVE  /\ payload' \in Bytes /\ payload' # NoFile
           /\ control' \in {NoFile} \cup SUBSET Block
           /\ writer' \in Transfer /\ writer' # NoFile
           /\ \E split \in BOOLEAN :
                /\ split => probe # NoValidator
                /\ writer' = [url |-> CurrentUrl, bound |-> Bound(split), split |-> split,
                              reading |-> NoFile, done |-> FALSE,
                              have |-> IF control # NoFile /\ payload # NoFile
                                         THEN control ELSE {}]
<1>1. PICK split \in BOOLEAN :
        /\ split => probe # NoValidator
        /\ writer' = [url |-> CurrentUrl, bound |-> Bound(split), split |-> split,
                      reading |-> NoFile, done |-> FALSE,
                      have |-> IF control # NoFile /\ payload # NoFile THEN control ELSE {}]
  BY DEF AddUri
<1>2. Bound(split) \in Validator
  BY DEF Bound, Validator, TypeOK
<1>3. (IF control # NoFile /\ payload # NoFile THEN control ELSE {}) \in SUBSET Block
  BY DEF TypeOK
<1>4. writer' \in Transfer /\ writer' # NoFile
  BY <1>1, <1>2, <1>3, UrlType, TransferType DEF TypeOK
<1>5. payload' \in Bytes /\ control' \in {NoFile} \cup SUBSET Block
  BY DEF AddUri, Empty, Whole, Bytes, TypeOK
<1>6. payload' # NoFile
  BY <1>5, NoFileAssumption DEF Bytes
<1> QED BY <1>1, <1>4, <1>5, <1>6

LEMMA DoneStep ==
    ASSUME TypeOK, StepsInOrder, WriterDone
    PROVE  writer \in Transfer /\ writer' \in Transfer /\ writer' # NoFile
<1>1. writer \in Transfer
  BY DEF TypeOK, WriterDone, StepsInOrder
<1>2. /\ writer.url \in Url /\ writer.bound \in Validator /\ writer.split \in BOOLEAN
      /\ writer.have \in SUBSET Block /\ writer.reading \in Rep \cup {NoFile}
  BY <1>1 DEF Transfer
<1> QED BY <1>1, <1>2, TransferType DEF WriterDone

\* A stopped transfer leaves the control file, or what aria2 has.
LEMMA StopStep ==
    ASSUME TypeOK, Stopped
    PROVE  /\ writer' = NoFile /\ control' \in {NoFile} \cup SUBSET Block
           /\ control' = control \/ (writer # NoFile /\ control' = writer.have)
BY DEF TypeOK, Stopped, Transfer

\* The steps of aria2, and those that write its files and the record.
LEMMA TransferTypes ==
    ASSUME TypeOK, StepsInOrder,
           Clear \/ Record \/ AddUri \/ (\E b \in Block : Fetch(b)) \/ SaveControl \/ WriterDone
           \/ Confirm
    PROVE  TypeOK'
<1> USE DEF TypeOK
<1>u. CurrentUrl \in Url
  BY UrlType
<1>1. CASE Clear
  <2>1. /\ UNCHANGED <<hashed, writable, receipt, blobs, served, writer, after, try, probe,
                       single, digest, faults>>
    BY <1>1 DEF Clear, given
  <2>2. /\ payload' \in {NoFile} \cup Bytes /\ readOnly' \in BOOLEAN
        /\ control' \in {NoFile} \cup SUBSET Block /\ state' \in {NoFile} \cup PartialState
        /\ pc' \in PC /\ clearing' \in Clearing
    BY <1>1 DEF Clear, Clearing, Goto
  <2> QED BY <2>1, <2>2
<1>2. CASE Record
  <2>1. state' \in PartialState
    BY <1>2, <1>u, RecordType DEF Record
  <2> QED BY <1>2, <2>1 DEF Record, Goto, PC, given, local
<1>3. CASE AddUri
  <2>1. UNCHANGED <<hashed, writable, readOnly, state, receipt, blobs, served, clearing, after,
                    try, probe, single, digest, faults>> /\ pc' \in PC
    BY <1>3 DEF AddUri, Goto, PC, given, local
  <2> QED BY <1>3, <2>1, AddStep
<1>4. ASSUME NEW b \in Block, Fetch(b) PROVE TypeOK'
  BY <1>4, FetchStep DEF Fetch, given, local
<1>5. CASE SaveControl
  BY <1>5 DEF SaveControl, StepsInOrder, Transfer, given, local
<1>6. CASE WriterDone
  BY <1>6, DoneStep DEF WriterDone, given, local
<1>7. CASE Confirm
  <2>1. state' \in PartialState
    BY <1>7, <1>u, RecordType DEF Confirm
  <2> QED BY <1>7, <2>1 DEF Confirm, Goto, PC, given, local
<1> QED BY <1>1, <1>2, <1>3, <1>4, <1>5, <1>6, <1>7

\* The steps that end a transfer, and those that bring the payload into the store.
LEMMA OtherTypes ==
    ASSUME TypeOK, StepsInOrder,
           \/ TransferComplete \/ Refused \/ RangeFails \/ TransferFails \/ Fail
           \/ AdoptExisting \/ MakeReadOnly \/ Replace \/ ReplaceFails \/ WriteReceipt \/ Tidy
           \/ ProbeFails
           \/ (\E u \in Url, r \in Rep : Republish(u, r)) \/ \E c \in Content : AdoptOther(c),
           pc = "replace" => IsWhole(payload)
    PROVE  TypeOK'
<1> USE DEF TypeOK
<1>s. ASSUME Stopped PROVE writer' = NoFile /\ control' \in {NoFile} \cup SUBSET Block
  BY <1>s, StopStep
<1>f. ASSUME faults < MaxFaults, faults' = faults + 1 PROVE faults' \in 0..MaxFaults
  BY <1>f, AttemptsAssumption
<1>1. CASE TransferComplete
  BY <1>1 DEF TransferComplete, Goto, PC, files, given, local
<1>2. CASE Refused
  <2>1. /\ UNCHANGED <<hashed, writable, payload, readOnly, state, receipt, blobs, served, try,
                       probe, digest, faults>>
    BY <1>2 DEF Refused, given
  <2>2. pc' \in PC /\ clearing' \in Clearing /\ after' \in PC /\ single' \in BOOLEAN
    BY <1>2 DEF Refused, ClearThen, Goto, PC, Clearing
  <2>3. writer' = NoFile /\ control' \in {NoFile} \cup SUBSET Block
    BY <1>2, <1>s DEF Refused
  <2> QED BY <2>1, <2>2, <2>3
<1>3. CASE RangeFails
  BY <1>3, <1>s, <1>f DEF RangeFails, ClearThen, PC, Clearing, given
<1>4. CASE TransferFails
  BY <1>4, <1>s, <1>f DEF TransferFails, Goto, PC, given, local
<1>5. CASE Fail
  BY <1>5, <1>s, <1>f DEF Fail, Goto, PC, given, local
<1>6. CASE AdoptExisting
  <2>1. UNCHANGED <<hashed, writable, control, state, receipt, blobs, served, writer, clearing,
                    after, try, probe, single, digest, faults>>
    BY <1>6 DEF AdoptExisting, given, local
  <2>2. payload' = NoFile /\ readOnly' = FALSE /\ pc' \in PC
    BY <1>6 DEF AdoptExisting, Goto, PC
  <2> QED BY <2>1, <2>2
<1>7. CASE MakeReadOnly
  BY <1>7 DEF MakeReadOnly, Goto, PC, given, local
<1>8. CASE Replace
  <2>1. UNCHANGED <<hashed, writable, control, state, receipt, served, writer, clearing,
                    after, try, probe, single, digest, faults>>
    BY <1>8 DEF Replace, given, local
  <2>2. payload' = NoFile /\ readOnly' = FALSE /\ pc' \in PC
    BY <1>8 DEF Replace, Goto, PC
  <2>3. blobs' \subseteq Bytes
    BY <1>8, WholeType DEF Replace, IsWhole
  <2> QED BY <2>1, <2>2, <2>3
<1>9. CASE ReplaceFails
  <2>1. UNCHANGED <<hashed, writable, payload, control, state, receipt, blobs, served, writer,
                    clearing, after, try, probe, single, digest>>
    BY <1>9 DEF ReplaceFails, given, local
  <2>2. faults' \in 0..MaxFaults /\ readOnly' = FALSE /\ pc' \in PC
    BY <1>9, <1>f DEF ReplaceFails, Goto, PC
  <2> QED BY <2>1, <2>2
<1>10. CASE WriteReceipt
  BY <1>10 DEF WriteReceipt, Goto, PC, files, given, local
<1>11. CASE Tidy
  BY <1>11 DEF Tidy, Goto, PC, given, local
<1>12. CASE ProbeFails
  BY <1>12, <1>f DEF ProbeFails, Goto, PC, files, given, local
<1>13. ASSUME NEW u \in Url, NEW r \in Rep, Republish(u, r) PROVE TypeOK'
  BY <1>13, <1>f DEF Republish, files, given, local
<1>14. ASSUME NEW c \in Content, AdoptOther(c) PROVE TypeOK'
  BY <1>14, WholeType DEF AdoptOther, files, given, local
<1> QED BY <1>1, <1>2, <1>3, <1>4, <1>5, <1>6, <1>7, <1>8, <1>9, <1>10, <1>11, <1>12, <1>13,
           <1>14

LEMMA TypeStep == ASSUME TypeOK, StepsInOrder, DigestIsWhole, Next PROVE TypeOK'
BY NotedType, TransferTypes, OtherTypes DEF DigestIsWhole, Next, Step, Aria2, Fault, Noted

-----------------------------------------------------------------------------

\* The order of the steps.
LEMMA OrderStep ==
    ASSUME TypeOK, StepsInOrder, DigestIsWhole, Next
    PROVE  StepsInOrder'
<1> USE DEF StepsInOrder
<1>1. CASE Noted
  <2>1. UNCHANGED <<payload, control, state, writer>> /\ pc # "transfer"
    BY <1>1 DEF Noted, Begin, UseReceipt, NoReceipt, ReuseSeed, ClearSeed, NoSeed, Probe,
     ReuseComplete, Restart, Resume, Reprobe, HashPayload, NextAttempt, CannotOpen, Quiet, files
  <2>2. pc' \notin {"add", "transfer"}
    BY <1>1 DEF Noted, Begin, UseReceipt, NoReceipt, ReuseSeed, ClearSeed, NoSeed, Probe,
     ReuseComplete, Restart, Resume, Reprobe, HashPayload, NextAttempt, CannotOpen, Goto,
     ClearThen
  <2>3. pc' = "record" => state # NoFile /\ state.validator = probe' /\ probe' # NoValidator
    BY <1>1 DEF Noted, Begin, UseReceipt, NoReceipt, ReuseSeed, ClearSeed, NoSeed, Probe,
     ReuseComplete, Restart, Resume, Reprobe, HashPayload, NextAttempt, CannotOpen, Goto,
     ClearThen, Resumable, SameSource, local
  <2>5. pc' \in {"reprobe", "confirm"} => pc = "reprobe"
    BY <1>1 DEF Noted, Begin, UseReceipt, NoReceipt, ReuseSeed, ClearSeed, NoSeed, Probe,
     ReuseComplete, Restart, Resume, Reprobe, HashPayload, NextAttempt, CannotOpen, Goto,
     ClearThen
  <2>4. pc' = "clear" => after' \in {"attempt", "record", "next"}
    BY <1>1 DEF Noted, Begin, UseReceipt, NoReceipt, ReuseSeed, ClearSeed, NoSeed, Probe,
     ReuseComplete, Restart, Resume, Reprobe, HashPayload, NextAttempt, CannotOpen, Goto,
     ClearThen, local
  <2>6. pc' = "clear" => clearing' = "payload"
    BY <1>1 DEF Noted, Begin, UseReceipt, NoReceipt, ReuseSeed, ClearSeed, NoSeed, Probe,
     ReuseComplete, Restart, Resume, Reprobe, HashPayload, NextAttempt, CannotOpen, Goto,
     ClearThen
  <2> QED BY <2>1, <2>2, <2>3, <2>4, <2>5, <2>6
<1>2. CASE Clear
  BY <1>2 DEF Clear, Goto
<1>3. CASE Record
  <2>1. state' # NoFile /\ state'.validator = probe /\ state'.complete = FALSE
    BY <1>3, UrlType, RecordType DEF TypeOK, Record
  <2> QED BY <1>3, <2>1 DEF Record, Goto, local
<1>4. CASE AddUri
  <2>1. payload' # NoFile /\ writer' # NoFile /\ writer'.done = FALSE
    BY <1>4, AddStep
  <2>2. pc = "add" /\ pc' = "transfer" /\ UNCHANGED <<state, probe>>
    BY <1>4 DEF AddUri, Goto, local
  <2> QED BY <2>1, <2>2
<1>5. ASSUME NEW b \in Block, Fetch(b) PROVE StepsInOrder'
  BY <1>5, FetchStep DEF Fetch, local
<1>6. CASE SaveControl
  BY <1>6 DEF SaveControl, local
<1>7. CASE WriterDone
  BY <1>7, DoneStep DEF WriterDone, local
<1>8. CASE TransferComplete
  BY <1>8 DEF TransferComplete, Goto, files
<1>9. ASSUME Refused \/ RangeFails \/ TransferFails \/ Fail PROVE StepsInOrder'
  <2>1. writer' = NoFile
    BY <1>9 DEF Refused, RangeFails, TransferFails, Fail, Stopped
  <2>2. /\ pc' \in {"clear", "next", "idle"}
        /\ pc' = "clear" => after' = "next" /\ clearing' = "payload"
    BY <1>9 DEF Refused, RangeFails, TransferFails, Fail, ClearThen, Goto
  <2> QED BY <2>1, <2>2
<1>10. CASE Confirm
  BY <1>10 DEF Confirm, Goto
<1>11. CASE AdoptExisting \/ MakeReadOnly \/ Replace \/ ReplaceFails \/ WriteReceipt \/ Tidy
            \/ ProbeFails
  BY <1>11 DEF AdoptExisting, MakeReadOnly, Replace, ReplaceFails, WriteReceipt, Tidy,
     ProbeFails, Goto, files
<1>12. ASSUME NEW u \in Url, NEW r \in Rep, Republish(u, r) PROVE StepsInOrder'
  BY <1>12 DEF Republish, files, local
<1>13. ASSUME NEW c \in Content, AdoptOther(c) PROVE StepsInOrder'
  BY <1>13 DEF AdoptOther, files, local
<1> QED BY <1>1, <1>2, <1>3, <1>4, <1>5, <1>6, <1>7, <1>8, <1>9, <1>10, <1>11, <1>12, <1>13
        DEF Next, Step, Aria2, Fault, Noted

-----------------------------------------------------------------------------
(* What the files and aria2 know of the payload.                           *)

\* A content that fits some blocks fits them whatever is written elsewhere.
LEMMA OneContentStays ==
    ASSUME NEW have, NEW v, OneContent(have, v), \A b \in have : payload'[b] = payload[b]
    PROVE  \E c \in Content :
              /\ \A b \in have : payload'[b] = c
              /\ \A r \in Rep : r.validator = v /\ v # NoValidator => r.content = c
BY DEF OneContent

LEMMA WriterStep ==
    ASSUME TypeOK, StepsInOrder, ControlIsSound, WriterIsSound, Next
    PROVE  WriterIsSound'
<1> SUFFICES ASSUME ~hashed, writer' # NoFile
             PROVE  /\ OneContent(writer.have, writer.bound)'
                    /\ writer'.bound = probe'
                    /\ control' # NoFile => control' \subseteq writer'.have
                    /\ writer'.done => writer'.have = Block
                    /\ writer'.bound = NoValidator =>
                         /\ ~writer'.split
                         /\ writer'.reading = NoFile => writer'.have = {}
                         /\ writer'.reading # NoFile =>
                              \A b \in writer'.have : payload'[b] = writer'.reading.content
  <2>1. hashed' = hashed
    BY DEF Next, Step, Aria2, Fault, Begin, UseReceipt, NoReceipt, ReuseSeed, ClearSeed,
     NoSeed, Probe, ReuseComplete, Restart, Resume, Reprobe, HashPayload, NextAttempt,
     CannotOpen, Quiet, Clear, Record, AddUri, Fetch, SaveControl, WriterDone, Confirm,
     TransferComplete, Refused, RangeFails, TransferFails, Fail, AdoptExisting, MakeReadOnly,
     Replace, ReplaceFails, WriteReceipt, Tidy, ProbeFails, Republish, AdoptOther, given
  <2> QED BY <2>1 DEF WriterIsSound
<1>1. CASE AddUri
  <2>1. PICK split \in BOOLEAN :
          /\ split => probe # NoValidator
          /\ writer' = [url |-> CurrentUrl, bound |-> Bound(split), split |-> split,
                        reading |-> NoFile, done |-> FALSE,
                        have |-> IF control # NoFile /\ payload # NoFile THEN control ELSE {}]
    BY <1>1, AddStep
  <2>2. Bound(split) = probe
    BY DEF Bound
  <2>3. /\ writer'.bound = probe /\ writer'.done = FALSE /\ writer'.split = split
        /\ writer'.reading = NoFile
        /\ writer'.have = IF control # NoFile /\ payload # NoFile THEN control ELSE {}
    BY <2>1, <2>2
  <2>4. probe' = probe /\ (control' # NoFile => control' \subseteq writer'.have)
    BY <1>1, <2>3 DEF AddUri, local
  <2>5. probe = NoValidator => control = NoFile
    BY <1>1 DEF AddUri, StepsInOrder
  <2>6. OneContent(writer.have, writer.bound)'
    <3>1. CASE control # NoFile /\ payload # NoFile
      <4>1. OneContent(control, probe)
        BY <1>1, <3>1 DEF AddUri, StepsInOrder, ControlIsSound
      <4>2. payload' = payload
        BY <1>1, <3>1 DEF AddUri
      <4> QED BY <2>3, <3>1, <4>1, <4>2 DEF OneContent
    <3>2. CASE ~(control # NoFile /\ payload # NoFile)
      <4>1. writer'.have = {}
        BY <2>3, <3>2
      <4>2. \E c \in Content : \A r \in Rep : r.validator = probe /\ probe # NoValidator
                                                => r.content = c
        <5>1. CASE \E r \in Rep : r.validator = probe /\ probe # NoValidator
          BY <5>1, RepType, ValidatorAssumption
        <5>2. CASE ~ \E r \in Rep : r.validator = probe /\ probe # NoValidator
          BY <5>2, DeclaredAssumption
        <5> QED BY <5>1, <5>2
      <4> QED BY <2>3, <4>1, <4>2 DEF OneContent
    <3> QED BY <3>1, <3>2
  <2> QED BY <2>1, <2>3, <2>4, <2>5, <2>6
<1>2. ASSUME NEW b \in Block, Fetch(b)
      PROVE /\ OneContent(writer.have, writer.bound)'
            /\ writer'.bound = probe'
            /\ control' # NoFile => control' \subseteq writer'.have
            /\ writer'.done => writer'.have = Block
            /\ writer'.bound = NoValidator =>
                 /\ ~writer'.split
                 /\ writer'.reading = NoFile => writer'.have = {}
                 /\ writer'.reading # NoFile =>
                      \A d \in writer'.have : payload'[d] = writer'.reading.content
  <2>1. PICK r \in Rep :
          /\ r.content \in Content
          /\ writer.reading # NoFile => r = writer.reading
          /\ writer.bound # NoValidator => r.validator = writer.bound
          /\ payload' = [payload EXCEPT ![b] = r.content]
          /\ writer' = [url |-> writer.url, bound |-> writer.bound, split |-> writer.split,
                        reading |-> IF writer.split THEN NoFile ELSE r,
                        have |-> writer.have \cup {b}, done |-> FALSE]
    BY <1>2, FetchStep
  <2>2. /\ writer'.bound = writer.bound /\ writer'.split = writer.split
        /\ writer'.reading = (IF writer.split THEN NoFile ELSE r)
        /\ writer'.have = writer.have \cup {b} /\ writer'.done = FALSE
    BY <2>1
  <2>3. payload \in Bytes /\ writer # NoFile /\ writer.have \subseteq Block
    BY <1>2, FetchStep DEF Fetch, StepsInOrder, Transfer
  <2>4. \A d \in writer.have : payload[d] = r.content
    <3>1. CASE writer.bound # NoValidator
      BY <2>1, <2>3, <3>1 DEF WriterIsSound, OneContent
    <3>2. CASE writer.bound = NoValidator
      BY <2>1, <2>3, <3>2 DEF WriterIsSound
    <3> QED BY <3>1, <3>2
  <2>5. \A d \in writer'.have : payload'[d] = r.content
    BY <2>1, <2>2, <2>3, <2>4 DEF Bytes
  <2>6. \A q \in Rep : q.validator = writer'.bound /\ writer'.bound # NoValidator
                          => q.content = r.content
    BY <2>1, <2>2, ValidatorAssumption
  <2>7. OneContent(writer.have, writer.bound)'
    BY <2>1, <2>5, <2>6 DEF OneContent
  <2>8. probe' = probe /\ control' = control
    BY <1>2 DEF Fetch, local
  <2>9. /\ writer'.bound = probe'
        /\ control' # NoFile => control' \subseteq writer'.have
    BY <2>2, <2>3, <2>8 DEF WriterIsSound
  <2>10. writer.bound = NoValidator => ~writer.split
    BY <2>3 DEF WriterIsSound
  <2>11. r # NoFile
    BY RepType
  <2> QED BY <2>2, <2>5, <2>7, <2>9, <2>10, <2>11
<1>3. CASE SaveControl \/ WriterDone
  <2>1. /\ writer # NoFile /\ payload' = payload /\ probe' = probe
        /\ writer'.have = writer.have /\ writer'.bound = writer.bound
        /\ writer'.split = writer.split /\ writer'.reading = writer.reading
        /\ writer'.done => writer'.have = Block
        /\ control' # NoFile => control' = writer.have
    BY <1>3 DEF SaveControl, WriterDone, StepsInOrder, WriterIsSound, local
  <2> QED BY <2>1 DEF WriterIsSound, OneContent
<1>4. CASE UNCHANGED <<writer, payload, control, probe>>
  BY <1>4 DEF WriterIsSound, OneContent
<1>5. ASSUME ~AddUri, ~(\E b \in Block : Fetch(b)), ~SaveControl, ~WriterDone,
             pc = "transfer"
      PROVE UNCHANGED <<writer, payload, control, probe>>
  BY <1>5 DEF Next, Step, Aria2, Fault, Begin, UseReceipt, NoReceipt, ReuseSeed, ClearSeed,
     NoSeed, Probe, ReuseComplete, Restart, Resume, Reprobe, HashPayload, NextAttempt,
     CannotOpen, Quiet, Clear, Record, Confirm, Stopped,
     TransferComplete, Refused, RangeFails, TransferFails, Fail, AdoptExisting, MakeReadOnly,
     Replace, ReplaceFails, WriteReceipt, Tidy, ProbeFails, Republish, AdoptOther, files, local
<1>6. ASSUME ~AddUri, pc # "transfer" PROVE FALSE
  <2>1. writer = NoFile
    BY <1>6 DEF StepsInOrder
  <2>2. writer' = writer
    BY <1>6, <2>1 DEF Next, Step, Aria2, Fault, Begin, UseReceipt, NoReceipt, ReuseSeed, ClearSeed,
     NoSeed, Probe, ReuseComplete, Restart, Resume, Reprobe, HashPayload, NextAttempt,
     CannotOpen, Quiet, Clear, Record, Confirm, Stopped, Fetch, SaveControl, WriterDone,
     TransferComplete, Refused, RangeFails, TransferFails, Fail, AdoptExisting, MakeReadOnly,
     Replace, ReplaceFails, WriteReceipt, Tidy, ProbeFails, Republish, AdoptOther
  <2> QED BY <2>1, <2>2
<1> QED BY <1>1, <1>2, <1>3, <1>4, <1>5, <1>6

\* The steps that write none of the files in the artifact's directory.
LEMMA FilesStay ==
    ASSUME Next, ~Clear, ~Record, ~AddUri, ~(\E b \in Block : Fetch(b)), ~SaveControl,
           ~WriterDone, ~Confirm, ~Refused, ~RangeFails, ~TransferFails, ~Fail,
           ~AdoptExisting, ~Replace, ~Tidy
    PROVE  UNCHANGED <<payload, control, state>>
BY DEF Next, Step, Aria2, Fault, Begin, UseReceipt, NoReceipt, ReuseSeed, ClearSeed,
     NoSeed, Probe, ReuseComplete, Restart, Resume, Reprobe, HashPayload, NextAttempt,
     CannotOpen, Quiet, TransferComplete, MakeReadOnly, ReplaceFails, WriteReceipt,
     ProbeFails, Republish, AdoptOther, files

LEMMA HashedStays == ASSUME Next PROVE hashed' = hashed
BY DEF Next, Step, Aria2, Fault, Begin, UseReceipt, NoReceipt, ReuseSeed, ClearSeed,
     NoSeed, Probe, ReuseComplete, Restart, Resume, Reprobe, HashPayload, NextAttempt,
     CannotOpen, Quiet, Clear, Record, AddUri, Fetch, SaveControl, WriterDone, Confirm,
     TransferComplete, Refused, RangeFails, TransferFails, Fail, AdoptExisting, MakeReadOnly,
     Replace, ReplaceFails, WriteReceipt, Tidy, ProbeFails, Republish, AdoptOther, given

LEMMA ControlStep ==
    ASSUME TypeOK, StepsInOrder, ControlIsSound, WriterIsSound, Next
    PROVE  ControlIsSound'
<1> SUFFICES ASSUME ~hashed, state' # NoFile, control' # NoFile, payload' # NoFile
             PROVE  OneContent(control, state.validator)'
  BY HashedStays DEF ControlIsSound
<1>1. CASE Clear
  <2>1. \/ UNCHANGED <<payload, state>> /\ control' = NoFile
        \/ UNCHANGED <<control, state>> /\ payload' = NoFile
        \/ UNCHANGED <<control, payload>> /\ state' = NoFile
    BY <1>1 DEF Clear
  <2> QED BY <2>1
<1>2. CASE Record
  <2>1. UNCHANGED <<payload, control>>
    BY <1>2 DEF Record
  <2>2. OneContent(control, probe)
    BY <1>2, <2>1 DEF Record, StepsInOrder, ControlIsSound
  <2>3. state'.validator = probe
    BY <1>2 DEF Record
  <2> QED BY <2>1, <2>2, <2>3 DEF OneContent
<1>3. CASE AddUri
  <2>1. UNCHANGED <<payload, control, state>>
    BY <1>3 DEF AddUri
  <2> QED BY <2>1 DEF ControlIsSound, OneContent
<1>4. ASSUME NEW b \in Block, Fetch(b) PROVE OneContent(control, state.validator)'
  <2>1. PICK r \in Rep :
          /\ payload' = [payload EXCEPT ![b] = r.content]
          /\ payload \in Bytes /\ payload # NoFile
    BY <1>4, FetchStep DEF StepsInOrder, Fetch
  <2>2. UNCHANGED <<control, state>> /\ b \notin writer.have /\ writer # NoFile
    BY <1>4 DEF Fetch, StepsInOrder
  <2>3. control \in SUBSET Block /\ b \notin control
    BY <2>2 DEF WriterIsSound, TypeOK
  <2>4. \A d \in control : payload'[d] = payload[d]
    BY <2>1, <2>3 DEF Bytes
  <2>5. OneContent(control, state.validator)
    BY <2>1, <2>2 DEF ControlIsSound
  <2> QED BY <2>2, <2>4, <2>5, OneContentStays DEF OneContent
<1>5. ASSUME writer # NoFile, control' = writer.have, UNCHANGED <<payload, state>>
      PROVE OneContent(control, state.validator)'
  <2>1. state.validator = probe /\ writer.bound = probe
    BY <1>5 DEF StepsInOrder, WriterIsSound
  <2>2. OneContent(writer.have, writer.bound)
    BY <1>5 DEF WriterIsSound
  <2> QED BY <1>5, <2>1, <2>2 DEF OneContent
<1>6. ASSUME UNCHANGED <<payload, state, control>> PROVE OneContent(control, state.validator)'
  BY <1>6 DEF ControlIsSound, OneContent
<1>7. CASE SaveControl
  BY <1>5, <1>7 DEF SaveControl, StepsInOrder
<1>8. CASE WriterDone
  BY <1>8 DEF WriterDone
<1>9. CASE Refused \/ RangeFails \/ TransferFails \/ Fail
  <2>1. UNCHANGED <<payload, state>> /\ Stopped
    BY <1>9 DEF Refused, RangeFails, TransferFails, Fail
  <2> QED BY <1>5, <1>6, <2>1, StopStep
<1>10. CASE Confirm
  BY <1>10 DEF Confirm, StepsInOrder
<1>11. CASE AdoptExisting \/ Replace \/ Tidy
  BY <1>11 DEF AdoptExisting, Replace, Tidy
<1> QED BY <1>1, <1>2, <1>3, <1>4, <1>6, <1>7, <1>8, <1>9, <1>10, <1>11, FilesStay

LEMMA CompleteStep ==
    ASSUME TypeOK, StepsInOrder, WriterIsSound, CompleteIsWhole, Next
    PROVE  CompleteIsWhole'
<1> SUFFICES ASSUME ~hashed
             PROVE  /\ pc' \in {"reprobe", "confirm", "hash"} => IsWhole(payload)'
                    /\ state' # NoFile /\ control' = NoFile /\ payload' # NoFile =>
                         (state'.complete => IsWhole(payload)')
  BY HashedStays DEF CompleteIsWhole
<1> USE DEF CompleteIsWhole, IsWhole
<1>1. CASE UNCHANGED <<payload, control, state>>
  <2>1. CASE pc' \notin {"reprobe", "confirm", "hash"} \/ pc \in {"reprobe", "confirm", "hash"}
    BY <1>1, <2>1
  <2>2. CASE ReuseComplete
    BY <1>1, <2>2 DEF ReuseComplete, Confirmed, SameSource
  <2>3. CASE TransferComplete
    <3>1. writer.have = Block /\ OneContent(writer.have, writer.bound) /\ payload \in Bytes
      BY <2>3 DEF TransferComplete, StepsInOrder, WriterIsSound, TypeOK
    <3>2. IsWhole(payload)
      BY <3>1 DEF OneContent, Bytes, Whole
    <3> QED BY <1>1, <3>2
  <2>4. ASSUME pc \notin {"reprobe", "confirm", "hash"}, pc' \in {"reprobe", "confirm", "hash"},
               ~ReuseComplete, ~TransferComplete
        PROVE FALSE
    BY <2>4 DEF StepsInOrder, Next, Step, Aria2, Fault, Begin, UseReceipt, NoReceipt, ReuseSeed,
     ClearSeed, NoSeed, Probe, Restart, Resume, Reprobe, HashPayload, NextAttempt, CannotOpen,
     Clear, Record, AddUri, Fetch, SaveControl, WriterDone, Confirm,
     Refused, RangeFails, TransferFails, Fail, AdoptExisting, MakeReadOnly,
     Replace, ReplaceFails, WriteReceipt, Tidy, ProbeFails, Republish, AdoptOther,
     Goto, ClearThen, Quiet
  <2> QED BY <2>1, <2>2, <2>3, <2>4
<1>2. CASE Clear
  <2>1. pc' \notin {"reprobe", "confirm", "hash"} /\ payload' = NoFile
    BY <1>2 DEF Clear, StepsInOrder, Goto
  <2> QED BY <2>1
<1>3. CASE Record
  <2>1. pc' = "add" /\ state'.complete = FALSE
    BY <1>3 DEF Record, Goto
  <2> QED BY <2>1
<1>4. CASE AddUri \/ (\E b \in Block : Fetch(b)) \/ SaveControl \/ WriterDone
  <2>1. UNCHANGED state /\ pc' = "transfer" /\ state.complete = FALSE
    BY <1>4 DEF AddUri, Fetch, SaveControl, WriterDone, Goto, StepsInOrder, local
  <2> QED BY <2>1
<1>5. CASE Refused \/ RangeFails \/ TransferFails
  <2>1. UNCHANGED state /\ pc' \in {"next", "clear"} /\ ~state.complete
    BY <1>5 DEF Refused, RangeFails, TransferFails, Goto, ClearThen, StepsInOrder
  <2> QED BY <2>1
<1>6. CASE Fail
  <2>1. UNCHANGED <<payload, state>> /\ pc' = "idle"
    BY <1>6 DEF Fail, Goto
  <2>2. CASE pc = "transfer"
    BY <2>1, <2>2 DEF StepsInOrder
  <2>3. CASE pc # "transfer"
    BY <1>6, <2>1, <2>3, StopStep DEF Fail, StepsInOrder
  <2> QED BY <2>2, <2>3
<1>7. CASE Confirm
  BY <1>7 DEF Confirm, Goto
<1>8. CASE AdoptExisting \/ Replace \/ Tidy
  BY <1>8 DEF AdoptExisting, Replace, Tidy, Goto
<1> QED BY <1>1, <1>2, <1>3, <1>4, <1>5, <1>6, <1>7, <1>8, FilesStay

-----------------------------------------------------------------------------
(* The store.                                                              *)

LEMMA DigestStep ==
    ASSUME TypeOK, StepsInOrder, CompleteIsWhole, DigestIsWhole, Next
    PROVE  DigestIsWhole'
<1> USE DEF DigestIsWhole
<1>h. hashed' = hashed
  BY HashedStays
<1>1. CASE HashPayload
  <2>1. Verified => IsWhole(payload) /\ (hashed => payload = Whole(Declared))
    <3>1. CASE hashed
      BY <3>1, DeclaredAssumption DEF Verified, IsWhole
    <3>2. CASE ~hashed
      BY <1>1, <3>2 DEF HashPayload, CompleteIsWhole
    <3> QED BY <3>1, <3>2
  <2>2. /\ pc' \in {"adopt", "clear"} /\ UNCHANGED payload
        /\ pc' = "adopt" => Verified /\ digest' = payload
    BY <1>1 DEF HashPayload, Goto, ClearThen, Quiet, files
  <2> QED BY <1>h, <2>1, <2>2 DEF IsWhole
<1>2. CASE ReuseSeed
  <2>1. payload = Whole(Declared) /\ IsWhole(payload)
    BY <1>2, DeclaredAssumption DEF ReuseSeed, Verified, IsWhole
  <2>2. UNCHANGED payload /\ pc' = "adopt" /\ digest' = payload
    BY <1>2 DEF ReuseSeed, Goto, Quiet, files
  <2> QED BY <2>1, <2>2 DEF IsWhole
<1>3. CASE AdoptExisting
  BY <1>h, <1>3 DEF AdoptExisting, Goto, local
<1>4. CASE MakeReadOnly
  BY <1>h, <1>4 DEF MakeReadOnly, Goto, local, IsWhole
<1>5. CASE Replace
  BY <1>h, <1>5 DEF Replace, Goto, local
<1>6. ASSUME NEW c \in Content, AdoptOther(c) PROVE DigestIsWhole'
  BY <1>h, <1>6 DEF AdoptOther, files, local, IsWhole
<1>7. ASSUME NEW u \in Url, NEW r \in Rep, Republish(u, r) PROVE DigestIsWhole'
  BY <1>h, <1>7 DEF Republish, files, local, IsWhole
<1>8. ASSUME ~HashPayload, ~ReuseSeed, ~AdoptExisting, ~MakeReadOnly, ~Replace,
             ~(\E c \in Content : AdoptOther(c)),
             ~(\E u \in Url, r \in Rep : Republish(u, r))
      PROVE pc' \notin {"adopt", "replace", "commit"}
  BY <1>8 DEF StepsInOrder, Next, Step, Aria2, Fault, Begin, UseReceipt, NoReceipt,
     ClearSeed, NoSeed, Probe, ReuseComplete, Restart, Resume, Reprobe, NextAttempt, CannotOpen,
     Clear, Record, AddUri, Fetch, SaveControl, WriterDone, Confirm, TransferComplete,
     Refused, RangeFails, TransferFails, Fail,
     ReplaceFails, WriteReceipt, Tidy, ProbeFails, Goto, ClearThen, Quiet
<1> QED BY <1>1, <1>2, <1>3, <1>4, <1>5, <1>6, <1>7, <1>8

LEMMA AcceptedStep ==
    ASSUME DigestIsWhole, AcceptedIsWhole, Next
    PROVE  AcceptedIsWhole'
<1> USE DEF AcceptedIsWhole
<1>h. hashed' = hashed
  BY HashedStays
<1>1. CASE Replace
  <2>1. IsWhole(payload) /\ blobs' = blobs \cup {payload} /\ UNCHANGED receipt
    BY <1>1 DEF Replace, DigestIsWhole
  <2> QED BY <1>h, <2>1 DEF IsWhole
<1>2. CASE WriteReceipt
  BY <1>h, <1>2 DEF WriteReceipt, DigestIsWhole
<1>3. ASSUME NEW c \in Content, AdoptOther(c) PROVE AcceptedIsWhole'
  BY <1>h, <1>3 DEF AdoptOther
<1>4. ASSUME ~Replace, ~WriteReceipt, ~(\E c \in Content : AdoptOther(c))
      PROVE UNCHANGED <<blobs, receipt>>
  BY <1>4 DEF Next, Step, Aria2, Fault, Begin, UseReceipt, NoReceipt, ReuseSeed, ClearSeed,
     NoSeed, Probe, ReuseComplete, Restart, Resume, Reprobe, HashPayload, NextAttempt,
     CannotOpen, Quiet, Clear, Record, AddUri, Fetch, SaveControl, WriterDone, Confirm,
     TransferComplete, Refused, RangeFails, TransferFails, Fail, AdoptExisting, MakeReadOnly,
     ReplaceFails, Tidy, ProbeFails, Republish
<1> QED BY <1>h, <1>1, <1>2, <1>3, <1>4

-----------------------------------------------------------------------------

\* An artifact's directory, its command and aria2 are always in step: the invariant
\* that the theorems below rest on.
THEOREM ArtifactInvariant == Spec => []ArtifactInv
<1>1. Init => ArtifactInv
  <2> SUFFICES ASSUME Init PROVE ArtifactInv
    OBVIOUS
  <2>1. TypeOK
    <3>1. pc \in PC /\ after \in PC /\ clearing \in Clearing /\ probe \in Validator
      BY DEF Init, PC, Clearing, Validator
    <3>2. try \in 1..LastTry /\ faults \in 0..MaxFaults
      BY LastTryType, AttemptsAssumption DEF Init
    <3> QED BY <3>1, <3>2 DEF Init, TypeOK
  <2>2. StepsInOrder /\ ControlIsSound /\ WriterIsSound /\ CompleteIsWhole /\ DigestIsWhole
    BY DEF Init, StepsInOrder, ControlIsSound, WriterIsSound, CompleteIsWhole, DigestIsWhole
  <2>3. AcceptedIsWhole
    BY DEF Init, AcceptedIsWhole
  <2> QED BY <2>1, <2>2, <2>3 DEF ArtifactInv
<1>2. ASSUME ArtifactInv, Next PROVE ArtifactInv'
  BY <1>2, TypeStep, OrderStep, ControlStep, WriterStep, CompleteStep, DigestStep,
     AcceptedStep DEF ArtifactInv
<1>3. ASSUME ArtifactInv, UNCHANGED vars PROVE ArtifactInv'
  <2>1. TypeOK'
    BY <1>3 DEF ArtifactInv, TypeOK, vars, given, files, local
  <2>2. StepsInOrder' /\ DigestIsWhole' /\ AcceptedIsWhole'
    BY <1>3 DEF ArtifactInv, StepsInOrder, DigestIsWhole, AcceptedIsWhole, IsWhole,
       vars, given, files, local
  <2>3. ControlIsSound' /\ WriterIsSound' /\ CompleteIsWhole'
    BY <1>3 DEF ArtifactInv, ControlIsSound, WriterIsSound, CompleteIsWhole, IsWhole,
       OneContent, vars, given, files, local
  <2> QED BY <2>1, <2>2, <2>3 DEF ArtifactInv
<1> QED BY <1>1, <1>2, <1>3, PTL DEF Spec

\* What enters the store is one content from the first block to the last, and the
\* declared one if a hash is declared, whatever crashes, resumes and changes of the
\* sources there were (delivery.py, _download_one; workspace.py,
\* adopt_verified_file).
THEOREM StoreIsWhole == Spec => []AcceptedIsWhole
<1>1. ArtifactInv => AcceptedIsWhole
  BY DEF ArtifactInv
<1> QED BY <1>1, ArtifactInvariant, PTL

\* A resume trusts no block that is not there or of another content than its
\* validator stands for (delivery.py, _Aria2HttpAdapter.attempt).
THEOREM ResumesAreSound == Spec => []ResumeIsSound
<1>1. ArtifactInv => ResumeIsSound
  BY DEF ArtifactInv, ControlIsSound, ResumeIsSound, OneContent
<1> QED BY <1>1, ArtifactInvariant, PTL

===============================================================================

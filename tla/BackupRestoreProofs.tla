-------------------------- MODULE BackupRestoreProofs --------------------------
(***************************************************************************)
(* Proofs about BackupRestore, for every number of operations, parts,      *)
(* faults and writes.                                                      *)
(***************************************************************************)
EXTENDS BackupRestore, TLAPS

Slots == Owners \union {"none"}

\* Setting one part of a library leaves a library.
LEMMA SetPart ==
    ASSUME NEW L \in Library, NEW p \in Parts, NEW v \in Slots
    PROVE  [L EXCEPT ![p] = v] \in Library
BY DEF Library, Slots

\* A part of a library is owned or missing.
LEMMA GetPart ==
    ASSUME NEW L \in Library, NEW p \in Parts
    PROVE  L[p] \in Slots
BY DEF Library, Slots

\* The libraries with one owner are libraries.
LEMMA WholeLibrary ==
    ASSUME NEW v \in Slots
    PROVE  Whole(v) \in Library /\ \A p \in Parts : Whole(v)[p] = v
BY DEF Whole, Library, Slots

\* The emptied library, which TRUNCATE leaves, is a library with every part missing.
LEMMA NothingLibrary == Nothing \in Library /\ \A p \in Parts : Nothing[p] = "none"
BY WholeLibrary DEF Nothing, Slots

\* A library set part by part in a family of libraries.
LEMMA SetFamily ==
    ASSUME NEW F \in [Ops -> Library], NEW o \in Ops, NEW p \in Parts, NEW v \in Slots
    PROVE  [F EXCEPT ![o][p] = v] \in [Ops -> Library]
<1>1. [F[o] EXCEPT ![p] = v] \in Library
  BY SetPart
<1>2. QED
  BY <1>1

\* Stage and loop position stay typed.
Position == stage \in [Ops -> Stages] /\ next \in [Ops -> Parts]

\* A goroutine that goes on with another stage is at a stage and a part.
LEMMA GoToTypes ==
    ASSUME Position, NEW o \in Ops, NEW s \in Stages, GoTo(o, s)
    PROVE  Position'
<1>1. 1 \in Parts
  BY ConstantsAssumption DEF Parts
<1>2. QED
  BY <1>1 DEF Position, GoTo

\* A goroutine that goes on with its loop, or leaves it, is at a stage and a part.
LEMMA AdvanceTypes ==
    ASSUME Position, NEW o \in Ops, NEW s \in Stages, Advance(o, s)
    PROVE  Position'
<1>1. CASE next[o] = Last
  BY <1>1, GoToTypes DEF Advance
<1>2. CASE next[o] # Last
  <2>1. next[o] + 1 \in Parts
    BY <1>2, ConstantsAssumption DEF Position, Parts
  <2>2. next' = [next EXCEPT ![o] = next[o] + 1] /\ UNCHANGED stage
    BY <1>2 DEF Advance
  <2>3. QED
    BY <2>1, <2>2 DEF Position
<1>3. QED
  BY <1>1, <1>2

\* What a backup packs is an archive.
LEMMA PackedArchive ==
    ASSUME NEW b \in Ops, NEW p \in Parts, NEW v \in Slots,
           archive \in [Ops -> Archive], snapshot \in [Ops -> Library]
    PROVE  Packed(b, p, v) \in Archive
<1>1. [archive[b].objects EXCEPT ![p] = v] \in Library
  BY SetPart DEF Archive
<1>2. QED
  BY <1>1 DEF Packed, Archive

-------------------------------------------------------------------------------
\* Clients send archives.
LEMMA SentArchives ==
    ASSUME archive \in [Ops -> Archive]
    PROVE  Sent \subseteq Archive
<1>1. NoArchive \in Archive
  BY NothingLibrary DEF NoArchive, Archive
<1>2. [valid |-> TRUE, rows |-> Whole("other"), objects |-> Whole("other")] \in Archive
  BY WholeLibrary DEF Archive, Slots, Owners
<1>3. \A b \in Backups : archive[b] \in Archive
  BY DEF Ops
<1>4. QED
  BY <1>1, <1>2, <1>3 DEF Sent

\* Every step of requests, goroutines, uploads and process keeps the types.
LEMMA TypingStep ==
    ASSUME TypeOK, [Next]_vars
    PROVE  TypeOK'
<1> USE DEF TypeOK, Fault, NoFault, RequestTo, appVars, opVars
<1>0. Position
  BY DEF Position
<1>1. ASSUME NEW o \in Ops, RequestStep(o) PROVE TypeOK'
  <2>1. CASE Ask(o)
    BY <2>1 DEF Ask, Requests
  <2>2. CASE Lock(o)
    BY <2>2 DEF Lock, Requests
  <2>3. CASE CheckActive(o)
    BY <2>3 DEF CheckActive, Requests
  <2>4. CASE InsertOperation(o)
    BY <2>4 DEF InsertOperation, Requests, Stages
  <2>5. CASE o \in Restores /\ ReceiveArchive(o)
    <3>1. Sent \subseteq Archive
      BY SentArchives
    <3>2. QED
      BY <3>1, <2>5 DEF ReceiveArchive, Requests
  <2>6. QED
    BY <1>1, <2>1, <2>2, <2>3, <2>4, <2>5 DEF RequestStep
<1>2. ASSUME NEW o \in Ops, MarkStarted(o) PROVE TypeOK'
  <2>1. Position'
    BY <1>0, <1>2, GoToTypes DEF MarkStarted, Stages
  <2>2. QED
    BY <2>1, <1>2 DEF MarkStarted, Position
<1>3. ASSUME NEW o \in Ops, ReadTable(o) PROVE TypeOK'
  <2>1. Position'
    BY <1>0, <1>3, GoToTypes, AdvanceTypes DEF ReadTable, Stages
  <2>2. snapshot' \in [Ops -> Library]
    <3>1. rows[next[o]] \in Slots /\ next[o] \in Parts
      BY GetPart
    <3>2. [snapshot EXCEPT ![o][next[o]] = rows[next[o]]] \in [Ops -> Library]
      BY <3>1, SetFamily
    <3>3. QED
      BY <1>3, <3>2 DEF ReadTable
  <2>3. QED
    BY <2>1, <2>2, <1>3 DEF ReadTable, Position
<1>4. ASSUME NEW o \in Ops, FinishWithError(o) PROVE TypeOK'
  <2>1. Position'
    BY <1>0, <1>4, GoToTypes DEF FinishWithError, Ending, Stages
  <2>2. QED
    BY <2>1, <1>4 DEF FinishWithError, Position
<1>5. ASSUME NEW b \in Backups, PackObjects(b) PROVE TypeOK'
  <2>1. b \in Ops /\ next[b] \in Parts
    BY DEF Ops
  <2>2. Position'
    BY <1>0, <1>5, <2>1, GoToTypes, AdvanceTypes DEF PackObjects, Stages
  <2>3. archive' \in [Ops -> Archive]
    <3> DEFINE v == IF snapshot[b][next[b]] = "none" THEN "none" ELSE objects[next[b]]
    <3>1. v \in Slots
      BY <2>1, GetPart DEF Slots
    <3>2. NoArchive \in Archive
      BY NothingLibrary DEF NoArchive, Archive
    <3>3. CASE archive' = [archive EXCEPT ![b] = NoArchive]
      BY <3>2, <3>3
    <3>4. CASE archive' = [archive EXCEPT ![b] = Packed(b, next[b], v)]
      <4> HIDE DEF v
      <4>1. Packed(b, next[b], v) \in Archive
        BY <2>1, <3>1, PackedArchive
      <4>2. QED
        BY <3>4, <4>1
    <3>5. QED
      BY <1>5, <3>3, <3>4 DEF PackObjects
  <2>4. QED
    BY <2>1, <2>2, <2>3, <1>5 DEF PackObjects, Position
<1>6. ASSUME NEW b \in Backups, ConfirmBackup(b) PROVE TypeOK'
  <2>1. b \in Ops
    BY DEF Ops
  <2>2. Position'
    BY <1>0, <1>6, <2>1, GoToTypes DEF ConfirmBackup, Stages
  <2>3. QED
    BY <2>1, <2>2, <1>6 DEF ConfirmBackup, Position
<1>7. ASSUME NEW r \in Restores, RestoreStep(r) PROVE TypeOK'
  <2>1. r \in Ops /\ next[r] \in Parts /\ archive[r] \in Archive
    BY DEF Ops
  <2>2. archive[r].rows \in Library /\ archive[r].objects \in Library
    BY <2>1 DEF Archive
  <2>3. CASE OpenArchive(r)
    <3>1. Position'
      BY <1>0, <2>1, <2>3, GoToTypes DEF OpenArchive, Stages
    <3>2. QED
      BY <3>1, <2>3 DEF OpenArchive, Position
  <2>4. CASE ClearBackupData(r)
    <3>1. Position'
      BY <1>0, <2>1, <2>4, GoToTypes DEF ClearBackupData, Stages
    <3>2. QED
      BY <3>1, <2>4, NothingLibrary DEF ClearBackupData, Position
  <2>5. CASE ClearObjects(r)
    <3>1. Position'
      BY <1>0, <2>1, <2>5, GoToTypes, AdvanceTypes DEF ClearObjects, Stages
    <3>2. objects' \in Library
      <4> DEFINE v == IF snapshot[r][next[r]] = "none" THEN objects[next[r]] ELSE "none"
      <4>1. v \in Slots
        BY <2>1, GetPart DEF Slots
      <4>2. objects' = [objects EXCEPT ![next[r]] = v] \/ UNCHANGED objects
        BY <2>5 DEF ClearObjects
      <4> HIDE DEF v
      <4>3. QED
        BY <2>1, <4>1, <4>2, SetPart
    <3>3. QED
      BY <3>1, <3>2, <2>5 DEF ClearObjects, Position
  <2>6. CASE RestoreRows(r)
    <3>1. Position'
      BY <1>0, <2>1, <2>6, GoToTypes, AdvanceTypes DEF RestoreRows, Stages
    <3>2. rows' \in Library
      BY <2>1, <2>2, <2>6, SetPart, GetPart DEF RestoreRows
    <3>3. QED
      BY <3>1, <3>2, <2>6 DEF RestoreRows, Position
  <2>7. CASE SyncSequences(r)
    <3>1. Position'
      BY <1>0, <2>1, <2>7, GoToTypes DEF SyncSequences, Stages
    <3>2. QED
      BY <3>1, <2>7 DEF SyncSequences, Position
  <2>8. CASE RestoreObjects(r)
    <3>1. Position'
      BY <1>0, <2>1, <2>8, GoToTypes, AdvanceTypes DEF RestoreObjects, Stages
    <3>2. objects' \in Library
      BY <2>1, <2>2, <2>8, SetPart, GetPart DEF RestoreObjects
    <3>3. QED
      BY <3>1, <3>2, <2>8 DEF RestoreObjects, Position
  <2>9. CASE ConfirmRestoring(r)
    <3>1. Position'
      BY <1>0, <2>1, <2>9, GoToTypes DEF ConfirmRestoring, Stages
    <3>2. QED
      BY <3>1, <2>1, <2>9 DEF ConfirmRestoring, Position
  <2>10. CASE RemoveReceived(r)
    <3>1. Position'
      BY <1>0, <2>1, <2>10, GoToTypes DEF RemoveReceived, Stages
    <3>2. QED
      BY <3>1, <2>1, <2>10 DEF RemoveReceived, Position
  <2>11. QED
    BY <1>7, <2>3, <2>4, <2>5, <2>6, <2>7, <2>8, <2>9, <2>10 DEF RestoreStep
<1>8. ASSUME NEW p \in Parts, CreateRows(p) \/ PutObjects(p) PROVE TypeOK'
  <2>1. writes' \in Nat
    BY <1>8 DEF CreateRows, PutObjects, Write
  <2>2. rows' \in Library /\ objects' \in Library
    <3>1. "upload" \in Slots
      BY DEF Slots, Owners
    <3>2. CASE CreateRows(p)
      BY <3>1, <3>2, SetPart DEF CreateRows
    <3>3. CASE PutObjects(p)
      BY <3>1, <3>3, SetPart DEF PutObjects
    <3>4. QED
      BY <1>8, <3>2, <3>3
  <2>3. QED
    BY <1>8, <2>1, <2>2 DEF CreateRows, PutObjects
<1>9. CASE Exit
  <2>1. 1 \in Parts
    BY ConstantsAssumption DEF Parts
  <2>2. QED
    <3>1. request' \in [Ops -> Requests]
      BY <1>9 DEF Exit, Requests
    <3>2. stage' \in [Ops -> Stages] /\ next' \in [Ops -> Parts]
      BY <1>9, <2>1 DEF Exit, Stages
    <3>3. up' \in BOOLEAN /\ faults' \in Nat /\ putting' \in SUBSET Parts
      <4>1. up' \in BOOLEAN
        BY <1>9 DEF Exit
      <4>2. faults' \in Nat
        BY <1>9 DEF Exit
      <4>3. putting' = {}
        BY <1>9 DEF Exit
      <4>4. QED
        BY <4>1, <4>2, <4>3
    <3>4. UNCHANGED <<writes, rows, objects, status, file, snapshot, archive>>
      BY <1>9 DEF Exit
    <3>5. QED
      BY <3>1, <3>2, <3>3, <3>4
<1>10. CASE Restart
  BY <1>10 DEF Restart
<1>11. CASE UNCHANGED vars
  BY <1>11 DEF vars
<1>12. QED
  BY <1>1, <1>2, <1>3, <1>4, <1>5, <1>6, <1>7, <1>8, <1>9, <1>10, <1>11
     DEF Next, OperationStep, BackupStep

\* The state in which the server first starts has the types.
LEMMA InitTypes == Init => TypeOK
<1>1. 1 \in Parts
  BY ConstantsAssumption DEF Parts
<1>2. NoArchive \in Archive
  BY NothingLibrary DEF NoArchive, Archive
<1>3. Whole("first") \in Library
  BY WholeLibrary DEF Slots, Owners
<1>4. QED
  BY <1>1, <1>2, <1>3, NothingLibrary, ConstantsAssumption
     DEF Init, TypeOK, Requests, Stages, Library, Owners

\* The variables stay in their types, for any number of operations.
THEOREM OperationTyping == Spec => []TypeOK
<1>1. Init => TypeOK
  BY InitTypes
<1>2. TypeOK /\ [Next]_vars => TypeOK'
  BY TypingStep
<1>3. QED
  BY <1>1, <1>2, PTL DEF Spec

-------------------------------------------------------------------------------
(* What a step may do to the status of an operation, to its request and to *)
(* the stage of its goroutine.                                             *)

Midway == Stages \ {"none", "mark", "fail", "clean"}

OthersStay(o) ==
    \A q \in Ops \ {o} :
        status'[q] = status[q] /\ stage'[q] = stage[q] /\ request'[q] = request[q]

NoneHolds(o) == \A q \in Ops : SameKind(o, q) => request[q] \notin Holding
NoneActive(o) == \A q \in Ops : SameKind(o, q) => ~Active(q)

RequestMoves(o) ==
    /\ status'[o] = status[o]
    /\ stage'[o] = stage[o]
    /\ \/ request[o] = "idle" /\ request'[o] = "lock"
       \/ request[o] = "lock" /\ request'[o] = "check" /\ NoneHolds(o)
       \/ request[o] = "check" /\ request'[o] \in {"refused", "failed"}
       \/ request[o] = "check" /\ request'[o] \in {"record", "receive"} /\ NoneActive(o)
       \/ request[o] = "receive" /\ request'[o] \in {"record", "failed"}

Recording(o) ==
    /\ request[o] = "record"
    /\ \/ request'[o] = "accepted" /\ status'[o] = "pending" /\ stage'[o] = "mark"
       \/ request'[o] = "failed" /\ status'[o] \in {"none", "pending"} /\ stage'[o] = stage[o]

GoroutineMoves(o) ==
    /\ request'[o] = request[o]
    /\ \/ /\ stage[o] = "mark"
          /\ \/ status'[o] = "started" /\ stage'[o] \in Midway
             \/ status'[o] \in {status[o], "started"} /\ stage'[o] = "fail"
       \/ /\ stage[o] \in Midway
          /\ status'[o] = status[o]
          /\ stage'[o] \in Midway \union {"fail"}
       \/ /\ stage[o] = "fail"
          /\ status'[o] \in {status[o], "error"}
          /\ stage'[o] \in {"none", "clean"}
       \/ /\ stage[o] = "confirm"
          /\ status'[o] \in {status[o], "finished"}
          /\ stage'[o] \in {"none", "clean"}
       \/ stage[o] = "clean" /\ status'[o] = status[o] /\ stage'[o] = "none"

LogUnchanged == UNCHANGED <<status, stage, request>>

\* A goroutine's step to another stage, its operation's status left alone.
LEMMA StageMove ==
    ASSUME TypeOK, NEW o \in Ops, stage[o] \in Midway, UNCHANGED <<status, request>>,
           NEW s \in Midway, GoTo(o, s) \/ GoTo(o, "fail") \/ Advance(o, s)
    PROVE  GoroutineMoves(o) /\ OthersStay(o)
<1>1. stage' = [stage EXCEPT ![o] = s] \/ stage' = [stage EXCEPT ![o] = "fail"] \/ stage' = stage
  BY DEF GoTo, Advance
<1>2. stage'[o] \in Midway \union {"fail"} /\ \A q \in Ops \ {o} : stage'[q] = stage[q]
  BY <1>1 DEF TypeOK
<1>3. QED
  BY <1>2 DEF GoroutineMoves, OthersStay

\* What any step does to requests, goroutines and status rows: it moves one
\* request, records one operation, moves one goroutine, or is the process's.
LEMMA OperationMoves ==
    ASSUME TypeOK, [Next]_vars
    PROVE  \/ \E o \in Ops : OthersStay(o) /\ (RequestMoves(o) \/ Recording(o) \/ GoroutineMoves(o))
           \/ Exit
           \/ LogUnchanged
<1> DEFINE Goal(o) == OthersStay(o) /\ (RequestMoves(o) \/ Recording(o) \/ GoroutineMoves(o))
<1>1. ASSUME NEW o \in Ops, RequestStep(o) PROVE Goal(o)
  <2>1. CASE Ask(o)
    BY <2>1 DEF Ask, RequestTo, TypeOK, OthersStay, RequestMoves
  <2>2. CASE Lock(o)
    BY <2>2 DEF Lock, RequestTo, TypeOK, OthersStay, RequestMoves, NoneHolds
  <2>3. CASE CheckActive(o)
    BY <2>3 DEF CheckActive, RequestTo, TypeOK, OthersStay, RequestMoves, NoneActive
  <2>4. CASE InsertOperation(o)
    BY <2>4 DEF InsertOperation, RequestTo, TypeOK, OthersStay, Recording
  <2>5. CASE o \in Restores /\ ReceiveArchive(o)
    BY <2>5 DEF ReceiveArchive, RequestTo, TypeOK, OthersStay, RequestMoves
  <2>6. QED
    BY <1>1, <2>1, <2>2, <2>3, <2>4, <2>5 DEF RequestStep
<1>2. ASSUME NEW o \in Ops, MarkStarted(o) PROVE Goal(o)
  BY <1>2 DEF MarkStarted, At, GoTo, TypeOK, OthersStay, GoroutineMoves, Midway, Stages
<1>3. ASSUME NEW o \in Ops, ReadTable(o) PROVE Goal(o)
  <2>1. stage[o] \in Midway /\ "pack" \in Midway /\ "clear" \in Midway
    BY <1>3 DEF ReadTable, At, Midway, Stages
  <2>2. QED
    BY <1>3, <2>1, StageMove DEF ReadTable
<1>4. ASSUME NEW o \in Ops, FinishWithError(o) PROVE Goal(o)
  BY <1>4 DEF FinishWithError, Ending, At, GoTo, TypeOK, OthersStay, GoroutineMoves
<1>5. ASSUME NEW b \in Backups, PackObjects(b) PROVE Goal(b)
  <2>1. b \in Ops /\ stage[b] \in Midway /\ "confirm" \in Midway
    BY <1>5 DEF PackObjects, At, Midway, Stages, Ops
  <2>2. QED
    BY <1>5, <2>1, StageMove DEF PackObjects
<1>6. ASSUME NEW b \in Backups, ConfirmBackup(b) PROVE Goal(b)
  <2>1. b \in Ops
    BY DEF Ops
  <2>2. CASE GoTo(b, "none")
    BY <1>6, <2>1, <2>2 DEF ConfirmBackup, At, GoTo, TypeOK, OthersStay, GoroutineMoves
  <2>3. CASE GoTo(b, "fail") /\ UNCHANGED status
    <3>1. stage[b] \in Midway /\ UNCHANGED request
      BY <1>6 DEF ConfirmBackup, At, Midway, Stages
    <3>2. QED
      BY <2>1, <2>3, <3>1, StageMove
  <2>4. QED
    BY <1>6, <2>2, <2>3 DEF ConfirmBackup
<1>7. ASSUME NEW r \in Restores, RestoreStep(r) PROVE Goal(r)
  <2>1. r \in Ops
    BY DEF Ops
  <2>2. {"read", "unstore", "insert", "sync", "store", "confirm"} \subseteq Midway
    BY DEF Midway, Stages
  <2>3. CASE OpenArchive(r)
    <3>1. stage[r] \in Midway
      BY <2>3 DEF OpenArchive, At, Midway, Stages
    <3>2. QED
      BY <2>1, <2>2, <2>3, <3>1, StageMove DEF OpenArchive
  <2>4. CASE ClearBackupData(r)
    <3>1. stage[r] \in Midway
      BY <2>4 DEF ClearBackupData, At, Midway, Stages
    <3>2. QED
      BY <2>1, <2>2, <2>4, <3>1, StageMove DEF ClearBackupData
  <2>5. CASE ClearObjects(r)
    <3>1. stage[r] \in Midway
      BY <2>5 DEF ClearObjects, At, Midway, Stages
    <3>2. QED
      BY <2>1, <2>2, <2>5, <3>1, StageMove DEF ClearObjects
  <2>6. CASE RestoreRows(r)
    <3>1. stage[r] \in Midway
      BY <2>6 DEF RestoreRows, At, Midway, Stages
    <3>2. QED
      BY <2>1, <2>2, <2>6, <3>1, StageMove DEF RestoreRows
  <2>7. CASE SyncSequences(r)
    <3>1. stage[r] \in Midway
      BY <2>7 DEF SyncSequences, At, Midway, Stages
    <3>2. QED
      BY <2>1, <2>2, <2>7, <3>1, StageMove DEF SyncSequences
  <2>8. CASE RestoreObjects(r)
    <3>1. stage[r] \in Midway
      BY <2>8 DEF RestoreObjects, At, Midway, Stages
    <3>2. QED
      BY <2>1, <2>2, <2>8, <3>1, StageMove DEF RestoreObjects
  <2>9. CASE ConfirmRestoring(r)
    <3>1. CASE GoTo(r, "clean")
      BY <2>1, <2>9, <3>1 DEF ConfirmRestoring, At, GoTo, TypeOK, OthersStay, GoroutineMoves
    <3>2. CASE GoTo(r, "fail") /\ UNCHANGED status
      <4>1. stage[r] \in Midway /\ UNCHANGED request
        BY <2>9 DEF ConfirmRestoring, At, Midway, Stages
      <4>2. QED
        BY <2>1, <3>2, <4>1, StageMove
    <3>3. QED
      BY <2>9, <3>1, <3>2 DEF ConfirmRestoring
  <2>10. CASE RemoveReceived(r)
    BY <2>1, <2>10 DEF RemoveReceived, At, GoTo, TypeOK, OthersStay, GoroutineMoves
  <2>11. QED
    BY <1>7, <2>3, <2>4, <2>5, <2>6, <2>7, <2>8, <2>9, <2>10 DEF RestoreStep
<1>8. ASSUME NEW p \in Parts, CreateRows(p) \/ PutObjects(p) PROVE LogUnchanged
  BY <1>8 DEF CreateRows, PutObjects, LogUnchanged, opVars
<1>9. ASSUME Restart PROVE LogUnchanged
  BY <1>9 DEF Restart, LogUnchanged, opVars
<1>10. ASSUME UNCHANGED vars PROVE LogUnchanged
  BY <1>10 DEF vars, opVars, LogUnchanged
<1> HIDE DEF Goal
<1>11. ASSUME NEW o \in Ops, OperationStep(o) PROVE Goal(o)
  BY <1>2, <1>3, <1>4, <1>5, <1>6, <1>7, <1>11 DEF OperationStep, BackupStep
<1>12. (\E o \in Ops : Goal(o)) \/ Exit \/ LogUnchanged
  <2>1. CASE \E o \in Ops : RequestStep(o) \/ OperationStep(o)
    BY <1>1, <1>11, <2>1
  <2>2. CASE \E p \in Parts : CreateRows(p) \/ PutObjects(p)
    BY <1>8, <2>2
  <2>3. QED
    BY <1>9, <1>10, <2>1, <2>2 DEF Next
<1>13. QED
  BY <1>12 DEF Goal

-------------------------------------------------------------------------------
(* One active operation of a kind.                                         *)

\* A request that has not recorded its operation has no goroutine, and between
\* the query for active operations and the insert none becomes active.
RequestInv(o) ==
    /\ request[o] \in {"receive", "record"} => NoneActive(o)
    /\ request[o] \notin {"accepted", "failed"} => status[o] = "none" /\ stage[o] = "none"

\* The status says what the goroutine is at.
StageInv(o) ==
    /\ stage[o] = "mark" => status[o] = "pending"
    /\ stage[o] \in Midway => status[o] = "started"
    /\ stage[o] = "fail" => Active(o)

\* The mutex: two requests of a kind do not hold it at once.
MutexInv == \A o, q \in Ops :
    SameKind(o, q) /\ request[o] \in Holding /\ request[q] \in Holding => o = q

LogInv ==
    /\ \A o \in Ops : RequestInv(o) /\ StageInv(o)
    /\ MutexInv
    /\ OneActiveOperation

\* The mutex and the query for active operations keep LogInv at every step.
LEMMA LogInvStep ==
    ASSUME TypeOK, LogInv, [Next]_vars
    PROVE  LogInv'
<1>1. ASSUME NEW o \in Ops, OthersStay(o), RequestMoves(o) PROVE LogInv'
  <2>1. \A q \in Ops : status'[q] = status[q] /\ stage'[q] = stage[q]
    BY <1>1 DEF OthersStay, RequestMoves
  <2>2. \A q \in Ops : Active(q)' <=> Active(q)
    BY <2>1 DEF Active
  <2>3. OneActiveOperation'
    BY <2>1, <2>2 DEF LogInv, OneActiveOperation, SameKind, Working
  <2>4. \A q \in Ops : NoneActive(q)' <=> NoneActive(q)
    BY <2>2 DEF NoneActive, SameKind
  <2>5. \A q \in Ops : StageInv(q)'
    BY <2>1, <2>2 DEF LogInv, StageInv
  <2>6. \A q \in Ops : RequestInv(q)'
    BY <1>1, <2>1, <2>4 DEF LogInv, RequestInv, OthersStay, RequestMoves
  <2>7. MutexInv'
    BY <1>1 DEF LogInv, MutexInv, OthersStay, RequestMoves, NoneHolds, SameKind, Holding
  <2>8. QED
    BY <2>3, <2>5, <2>6, <2>7 DEF LogInv
<1>2. ASSUME NEW o \in Ops, OthersStay(o), Recording(o) PROVE LogInv'
  <2>1. \A q \in Ops \ {o} : Active(q)' <=> Active(q)
    BY <1>2 DEF Active, OthersStay
  <2>2. NoneActive(o) /\ stage[o] = "none"
    BY <1>2 DEF LogInv, RequestInv, Recording
  <2>3. \A q \in Ops : q # o /\ SameKind(o, q) => request[q] \notin Holding
    BY <1>2 DEF LogInv, MutexInv, Recording, Holding
  <2>4. \A q \in Ops : RequestInv(q)'
    <3>1. RequestInv(o)'
      BY <1>2 DEF Recording, RequestInv
    <3>2. ASSUME NEW q \in Ops, q # o PROVE RequestInv(q)'
      <4>1. CASE SameKind(o, q)
        BY <1>2, <2>3, <3>2, <4>1 DEF LogInv, RequestInv, OthersStay, Holding
      <4>2. CASE ~SameKind(o, q)
        <5>1. NoneActive(q) => NoneActive(q)'
          BY <2>1, <4>2 DEF NoneActive, SameKind
        <5>2. QED
          BY <1>2, <3>2, <5>1 DEF LogInv, RequestInv, OthersStay
      <4>3. QED
        BY <4>1, <4>2
    <3>3. QED
      BY <3>1, <3>2
  <2>5. \A q \in Ops : StageInv(q)'
    BY <1>2, <2>2, <2>1 DEF LogInv, StageInv, OthersStay, Recording, Midway, Stages
  <2>6. MutexInv'
    BY <1>2 DEF LogInv, MutexInv, OthersStay, Recording, Holding, SameKind
  <2>7. OneActiveOperation'
    <3>1. ASSUME NEW q \in Ops, Working(q)' PROVE Active(q)'
      BY <1>2, <2>1, <2>2, <3>1 DEF LogInv, OneActiveOperation, OthersStay, Recording, Active, Working
    <3>2. ASSUME NEW p \in Ops, NEW q \in Ops, SameKind(p, q)', Active(p)', Active(q)'
          PROVE  p = q
      BY <2>1, <2>2, <3>2 DEF LogInv, OneActiveOperation, NoneActive, SameKind
    <3>3. QED
      BY <3>1, <3>2 DEF OneActiveOperation
  <2>8. QED
    BY <2>4, <2>5, <2>6, <2>7 DEF LogInv
<1>3. ASSUME NEW o \in Ops, OthersStay(o), GoroutineMoves(o) PROVE LogInv'
  <2>1. \A q \in Ops : request'[q] = request[q]
    BY <1>3 DEF OthersStay, GoroutineMoves
  <2>2. stage[o] # "none" /\ (stage[o] # "clean" => Active(o))
    BY <1>3 DEF GoroutineMoves, LogInv, StageInv, Active, Midway, TypeOK
  <2>3. \A q \in Ops : Active(q)' => Active(q)
    BY <1>3, <2>2 DEF OthersStay, GoroutineMoves, Active
  <2>4. StageInv(o)'
    BY <1>3 DEF GoroutineMoves, LogInv, StageInv, Active, Midway
  <2>5. \A q \in Ops : StageInv(q)'
    BY <1>3, <2>4 DEF LogInv, StageInv, OthersStay, Active
  <2>6. \A q \in Ops : RequestInv(q)'
    BY <1>3, <2>1, <2>2, <2>3 DEF LogInv, RequestInv, OthersStay, NoneActive, SameKind
  <2>7. MutexInv'
    BY <2>1 DEF LogInv, MutexInv, SameKind
  <2>8. OneActiveOperation'
    <3>1. ASSUME NEW q \in Ops, Working(q)' PROVE Active(q)'
      BY <2>5, <3>1, TypingStep DEF StageInv, Active, Working, Midway, TypeOK
    <3>2. QED
      BY <2>3, <3>1 DEF LogInv, OneActiveOperation, SameKind
  <2>9. QED
    BY <2>5, <2>6, <2>7, <2>8 DEF LogInv
<1>4. CASE Exit
  <2>1. \A q \in Ops : stage'[q] = "none" /\ status'[q] = status[q]
    BY <1>4 DEF Exit
  <2>2. \A q \in Ops : request'[q] \notin Holding
          /\ (request'[q] \notin {"accepted", "failed"} => request'[q] = request[q])
    BY <1>4 DEF Exit, Holding
  <2>3. \A q \in Ops : RequestInv(q)'
    BY <2>1, <2>2 DEF LogInv, RequestInv, Holding
  <2>4. \A q \in Ops : StageInv(q)'
    BY <2>1 DEF StageInv, Midway
  <2>5. MutexInv'
    BY <2>2 DEF MutexInv
  <2>6. OneActiveOperation'
    BY <2>1 DEF LogInv, OneActiveOperation, Working, Active, SameKind
  <2>7. QED
    BY <2>3, <2>4, <2>5, <2>6 DEF LogInv
<1>5. CASE LogUnchanged
  BY <1>5 DEF LogUnchanged, LogInv, RequestInv, StageInv, MutexInv, OneActiveOperation,
              NoneActive, Active, SameKind, Working
<1>6. QED
  BY <1>1, <1>2, <1>3, <1>4, <1>5, OperationMoves

\* With nothing asked for, nothing is held, recorded or at work.
LEMMA InitLogInv == Init => LogInv
BY DEF Init, LogInv, RequestInv, StageInv, MutexInv, OneActiveOperation, NoneActive,
       Active, Working, Holding, Midway

\* In every reachable state the mutexes, the goroutines and the status rows agree.
LEMMA LogInvariant == Spec => [](TypeOK /\ LogInv)
<1>1. Init => TypeOK /\ LogInv
  BY InitTypes, InitLogInv
<1>2. TypeOK /\ LogInv /\ [Next]_vars => (TypeOK /\ LogInv)'
  BY TypingStep, LogInvStep
<1>3. QED
  BY <1>1, <1>2, PTL DEF Spec

\* At most one operation of a kind is active, and a goroutine works on no other:
\* StartBackupOperation and StartRestoreOperation exclude each other by kind.
THEOREM AtMostOneOperation == Spec => []OneActiveOperation
<1>1. LogInv => OneActiveOperation
  BY DEF LogInv
<1>2. QED
  BY <1>1, LogInvariant, PTL

\* Every step is a step of the promised status log or leaves it alone.
LEMMA LogStep ==
    ASSUME TypeOK, LogInv, [Next]_vars
    PROVE  [Log!Next]_status
<1>1. status \in [Ops -> {"none", "pending", "started", "finished", "error"}] /\ TypeOK'
  BY TypingStep DEF TypeOK
<1>2. status' \in [Ops -> {"none", "pending", "started", "finished", "error"}]
  BY <1>1 DEF TypeOK
<1>3. ASSUME NEW o \in Ops, OthersStay(o) PROVE status' = [status EXCEPT ![o] = status'[o]]
  BY <1>1, <1>2, <1>3 DEF OthersStay
<1>4. ASSUME NEW o \in Ops, OthersStay(o), Recording(o) PROVE [Log!Next]_status
  <2>1. NoneActive(o) /\ status[o] = "none"
    BY <1>4 DEF LogInv, RequestInv, Recording
  <2>2. CASE status'[o] = "pending"
    <3>1. Log!Record(o)
      BY <1>3, <1>4, <2>1, <2>2
         DEF Log!Record, Log!Move, Log!Ops, Log!SameKind, Log!Active, NoneActive, Ops, SameKind, Active
    <3>2. QED
      BY <3>1 DEF Log!Next, Log!Ops, Ops
  <2>3. CASE status'[o] = "none"
    BY <1>1, <1>3, <1>4, <2>1, <2>3
  <2>4. QED
    BY <1>4, <2>2, <2>3 DEF Recording
<1>5. ASSUME NEW o \in Ops, OthersStay(o), GoroutineMoves(o) PROVE [Log!Next]_status
  <2>1. StageInv(o)
    BY DEF LogInv
  <2>2. CASE status'[o] = status[o]
    BY <1>1, <1>3, <1>5, <2>2
  <2>3. CASE stage[o] = "mark" /\ status'[o] = "started"
    <3>1. Log!Start(o)
      BY <1>3, <1>5, <2>1, <2>3 DEF Log!Start, Log!Move, StageInv
    <3>2. QED
      BY <3>1 DEF Log!Next, Log!Ops, Ops
  <2>4. CASE stage[o] = "fail" /\ status'[o] = "error"
    <3>1. Log!Fail(o)
      BY <1>3, <1>5, <2>1, <2>4 DEF Log!Fail, Log!Move, StageInv, Active
    <3>2. QED
      BY <3>1 DEF Log!Next, Log!Ops, Ops
  <2>5. CASE stage[o] = "confirm" /\ status'[o] = "finished"
    <3>1. Log!Finish(o)
      BY <1>3, <1>5, <2>1, <2>5 DEF Log!Finish, Log!Move, StageInv, Midway, Stages
    <3>2. QED
      BY <3>1 DEF Log!Next, Log!Ops, Ops
  <2>6. QED
    BY <1>5, <2>2, <2>3, <2>4, <2>5 DEF GoroutineMoves
<1>6. ASSUME NEW o \in Ops, OthersStay(o), RequestMoves(o) PROVE UNCHANGED status
  BY <1>1, <1>3, <1>6 DEF RequestMoves
<1>7. Exit \/ LogUnchanged => UNCHANGED status
  BY DEF Exit, LogUnchanged
<1>8. QED
  BY <1>4, <1>5, <1>6, <1>7, OperationMoves

\* The implementation of the status log by requests and goroutines that may be
\* cut off anywhere: an outcome is reached from "started" only and never changed.
THEOREM OperationsImplementLog == Spec => ImplementsLog
<1>1. Init => Log!Init
  BY DEF Init, Log!Init, Log!Ops, Ops
<1>2. TypeOK /\ LogInv /\ [Next]_vars => [Log!Next]_status
  BY LogStep
<1>3. QED
  BY <1>1, <1>2, LogInvariant, PTL DEF Spec, ImplementsLog, Log!Spec

-------------------------------------------------------------------------------
(* Archives hold an object for every row.                                  *)

Contained(a) == a.valid => \A p \in Parts : a.rows[p] # "none" => a.objects[p] # "none"

PackInv(b) ==
    /\ stage[b] = "pack" =>
           \A p \in Parts : p < next[b] /\ snapshot[b][p] # "none" => archive[b].objects[p] # "none"
    /\ stage[b] = "confirm" \/ status[b] = "finished" => archive[b].valid

ArchiveInv ==
    /\ \A o \in Ops : Contained(archive[o])
    /\ \A b \in Backups : PackInv(b)

\* Clients send archives that hold an object for every row.
LEMMA SentContained ==
    ASSUME ArchiveInv, NEW a \in Sent
    PROVE  Contained(a)
<1>1. CASE a = NoArchive
  BY <1>1 DEF NoArchive, Contained
<1>2. CASE a = [valid |-> TRUE, rows |-> Whole("other"), objects |-> Whole("other")]
  BY <1>2, WholeLibrary DEF Contained, Slots, Owners
<1>3. CASE \E b \in Backups : a = archive[b]
  BY <1>3 DEF ArchiveInv, Ops
<1>4. QED
  BY <1>1, <1>2, <1>3 DEF Sent

\* A loop that comes to another stage has done its last part.
LEMMA AdvanceCases ==
    ASSUME TypeOK, NEW o \in Ops, NEW s \in Stages, Advance(o, s)
    PROVE  /\ \A q \in Ops \ {o} : stage'[q] = stage[q] /\ next'[q] = next[q]
           /\ \/ next[o] = Last /\ stage'[o] = s /\ next'[o] = 1
              \/ next[o] < Last /\ stage'[o] = stage[o] /\ next'[o] = next[o] + 1
<1>1. next[o] \in Parts
  BY DEF TypeOK
<1>2. CASE next[o] = Last
  BY <1>2 DEF Advance, GoTo, TypeOK
<1>3. CASE next[o] # Last
  <2>1. next[o] < Last
    BY <1>1, <1>3, ConstantsAssumption DEF Parts
  <2>2. QED
    BY <1>3, <2>1 DEF Advance, TypeOK
<1>4. QED
  BY <1>2, <1>3

\* GoTo at one operation.
LEMMA GoToCases ==
    ASSUME TypeOK, NEW o \in Ops, NEW s \in Stages, GoTo(o, s)
    PROVE  /\ \A q \in Ops \ {o} : stage'[q] = stage[q] /\ next'[q] = next[q]
           /\ stage'[o] = s /\ next'[o] = 1
BY DEF GoTo, TypeOK

\* Packing one more part keeps the archive's rows and objects together, up to
\* that part.
LEMMA PackedContained ==
    ASSUME TypeOK, NEW b \in Backups, PackInv(b), stage[b] = "pack",
           NEW p \in Parts, p = next[b], NEW v \in Slots,
           snapshot[b][p] # "none" => v # "none"
    PROVE  /\ Contained(Packed(b, p, v))
           /\ \A q \in Parts : q <= p /\ snapshot[b][q] # "none" =>
                  Packed(b, p, v).objects[q] # "none"
<1>1. archive[b].objects \in Library
  BY DEF TypeOK, Ops, Archive
<1>2. \A q \in Parts : Packed(b, p, v).objects[q] = IF q = p THEN v ELSE archive[b].objects[q]
  BY <1>1 DEF Packed, Library
<1>3. \A q \in Parts : q <= p /\ q # p => q < p
  BY DEF Parts
<1>4. \A q \in Parts : q <= p /\ snapshot[b][q] # "none" => Packed(b, p, v).objects[q] # "none"
  BY <1>2, <1>3 DEF PackInv
<1>5. p = Last => \A q \in Parts : q <= p
  BY ConstantsAssumption DEF Parts
<1>6. QED
  BY <1>4, <1>5 DEF Contained, Packed

\* A step that leaves the archives alone, and starts no packing half-way.
LEMMA ArchivesStay ==
    ASSUME ArchiveInv, UNCHANGED archive,
           NEW b \in Backups,
           \/ stage'[b] = stage[b] /\ next'[b] = next[b] /\ snapshot'[b] = snapshot[b]
           \/ stage'[b] # "pack" /\ stage'[b] # "confirm"
           \/ stage'[b] = "pack" /\ next'[b] = 1,
           status'[b] = "finished" => status[b] = "finished" \/ stage[b] = "confirm"
    PROVE  PackInv(b)'
BY DEF ArchiveInv, PackInv, Parts

\* ... and for all of them, when one operation moves.
LEMMA ArchiveStep ==
    ASSUME TypeOK, LogInv, ArchiveInv, [Next]_vars
    PROVE  ArchiveInv'
<1> USE DEF Ops
<1>1. ASSUME NEW b \in Backups, PackObjects(b) PROVE ArchiveInv'
  <2> DEFINE p == next[b]
             v == IF snapshot[b][p] = "none" THEN "none" ELSE objects[p]
  <2>1. p \in Parts /\ v \in Slots /\ stage[b] = "pack" /\ UNCHANGED <<snapshot, status>>
    <3>1. p \in Parts
      BY DEF TypeOK
    <3>2. v \in Slots
      BY <3>1, GetPart DEF Slots, TypeOK
    <3>3. QED
      BY <1>1, <3>1, <3>2 DEF PackObjects, At
  <2>2. status[b] = "started"
    BY <2>1 DEF LogInv, StageInv, Midway, Stages
  <2>3. PackInv(b) /\ \A c \in Backups : PackInv(c)
    BY DEF ArchiveInv
  <2>4. CASE /\ snapshot[b][p] # "none" => objects[p] # "none"
             /\ archive' = [archive EXCEPT ![b] = Packed(b, p, v)]
             /\ Advance(b, "confirm")
    <3>1. snapshot[b][p] # "none" => v # "none"
      BY <2>4
    <3> HIDE DEF v
    <3>2. archive'[b] = Packed(b, p, v) /\ \A o \in Ops \ {b} : archive'[o] = archive[o]
      BY <2>4 DEF TypeOK
    <3>3. Contained(Packed(b, p, v)) /\ \A q \in Parts : q <= p /\ snapshot[b][q] # "none" =>
                  Packed(b, p, v).objects[q] # "none"
      BY <2>1, <2>3, <3>1, PackedContained
    <3>4. /\ \A q \in Ops \ {b} : stage'[q] = stage[q] /\ next'[q] = next[q]
          /\ \/ p = Last /\ stage'[b] = "confirm" /\ next'[b] = 1
             \/ p < Last /\ stage'[b] = "pack" /\ next'[b] = p + 1
      BY <2>1, <2>4, AdvanceCases DEF Stages
    <3>5. PackInv(b)'
      <4>1. CASE stage'[b] = "confirm"
        <5>1. Packed(b, p, v).valid
          BY <3>4, <4>1 DEF Packed
        <5>2. QED
          BY <2>1, <2>2, <3>2, <4>1, <5>1 DEF PackInv
      <4>2. CASE stage'[b] = "pack" /\ next'[b] = p + 1
        <5>1. \A q \in Parts : q < p + 1 => q <= p
          BY <2>1 DEF Parts
        <5>2. QED
          BY <2>1, <2>2, <3>2, <3>3, <4>2, <5>1 DEF PackInv
      <4>3. QED
        BY <3>4, <4>1, <4>2
    <3>6. \A c \in Backups \ {b} : PackInv(c)'
      BY <2>1, <2>3, <3>2, <3>4 DEF PackInv
    <3>7. \A o \in Ops : Contained(archive[o])'
      BY <3>2, <3>3 DEF ArchiveInv, Contained
    <3>8. QED
      BY <3>5, <3>6, <3>7 DEF ArchiveInv
  <2>5. CASE archive' = [archive EXCEPT ![b] = NoArchive] /\ GoTo(b, "fail")
    <3>1. archive'[b] = NoArchive /\ \A o \in Ops \ {b} : archive'[o] = archive[o]
      BY <2>5 DEF TypeOK
    <3>2. (\A q \in Ops \ {b} : stage'[q] = stage[q] /\ next'[q] = next[q]) /\ stage'[b] = "fail"
      BY <2>5, GoToCases DEF Stages
    <3>3. \A o \in Ops : Contained(archive[o])'
      BY <3>1 DEF ArchiveInv, Contained, NoArchive
    <3>4. \A c \in Backups : PackInv(c)'
      BY <2>1, <2>2, <2>3, <3>1, <3>2 DEF PackInv
    <3>5. QED
      BY <3>3, <3>4 DEF ArchiveInv
  <2>6. QED
    BY <1>1, <2>4, <2>5 DEF PackObjects
<1>2. ASSUME NEW r \in Restores, ReceiveArchive(r) PROVE ArchiveInv'
  <2>1. UNCHANGED <<status, stage, next, snapshot>>
    BY <1>2 DEF ReceiveArchive
  <2>2. \A b \in Backups : b # r
    BY ConstantsAssumption
  <2>3. CASE UNCHANGED archive
    BY <2>1, <2>3 DEF ArchiveInv, Contained, PackInv
  <2>4. ASSUME NEW a \in Sent, archive' = [archive EXCEPT ![r] = a] PROVE ArchiveInv'
    <3>1. archive'[r] = a /\ \A o \in Ops \ {r} : archive'[o] = archive[o]
      BY <2>4 DEF TypeOK
    <3>2. Contained(a)
      BY SentContained
    <3>3. \A o \in Ops : Contained(archive[o])'
      BY <3>1, <3>2 DEF ArchiveInv, Contained
    <3>4. \A b \in Backups : PackInv(b)'
      BY <2>1, <2>2, <3>1 DEF ArchiveInv, PackInv
    <3>5. QED
      BY <3>3, <3>4 DEF ArchiveInv
  <2>5. QED
    BY <1>2, <2>3, <2>4 DEF ReceiveArchive
<1>3. ASSUME UNCHANGED archive, \A b \in Backups : PackInv(b)' PROVE ArchiveInv'
  BY <1>3 DEF ArchiveInv, Contained
<1>4. ASSUME NEW o \in Ops, Ask(o) \/ Lock(o) \/ CheckActive(o) \/ InsertOperation(o)
      PROVE  ArchiveInv'
  <2>1. UNCHANGED <<archive, next, snapshot>>
    BY <1>4 DEF Ask, Lock, CheckActive, InsertOperation
  <2>2. \A b \in Backups : status'[b] # "finished" \/ status'[b] = status[b]
    BY <1>4 DEF Ask, Lock, CheckActive, InsertOperation, TypeOK
  <2>3. \A b \in Backups : stage'[b] = "mark" \/ stage'[b] = stage[b]
    BY <1>4 DEF Ask, Lock, CheckActive, InsertOperation, TypeOK
  <2>4. QED
    BY <1>3, <2>1, <2>2, <2>3, ArchivesStay
<1>5. ASSUME NEW o \in Ops, MarkStarted(o) \/ ReadTable(o) \/ FinishWithError(o)
      PROVE  ArchiveInv'
  <2>1. UNCHANGED archive
    BY <1>5 DEF MarkStarted, ReadTable, FinishWithError
  <2>2. \A b \in Backups : status'[b] # "finished" \/ status'[b] = status[b]
    BY <1>5 DEF MarkStarted, ReadTable, FinishWithError, TypeOK
  <2>3. \A b \in Backups :
            \/ stage'[b] = stage[b] /\ next'[b] = next[b] /\ snapshot'[b] = snapshot[b]
            \/ stage'[b] # "pack" /\ stage'[b] # "confirm"
            \/ stage'[b] = "pack" /\ next'[b] = 1
    <3>1. CASE MarkStarted(o)
      BY <3>1 DEF MarkStarted, GoTo, TypeOK
    <3>2. CASE ReadTable(o)
      <4>1. CASE GoTo(o, "fail")
        BY <3>2, <4>1, GoToCases DEF ReadTable, TypeOK, Stages
      <4>2. CASE Advance(o, "pack") \/ Advance(o, "clear")
        BY <3>2, <4>2, AdvanceCases DEF ReadTable, At, TypeOK, Stages
      <4>3. QED
        BY <3>2, <4>1, <4>2 DEF ReadTable
    <3>3. CASE FinishWithError(o)
      BY <3>3 DEF FinishWithError, GoTo, Ending, TypeOK
    <3>4. QED
      BY <1>5, <3>1, <3>2, <3>3
  <2>4. QED
    BY <1>3, <2>1, <2>2, <2>3, ArchivesStay
<1>6. ASSUME NEW b \in Backups, ConfirmBackup(b) PROVE ArchiveInv'
  <2>1. UNCHANGED <<archive, snapshot>> /\ stage[b] = "confirm" /\ (GoTo(b, "none") \/ GoTo(b, "fail"))
    BY <1>6 DEF ConfirmBackup, At
  <2>2. \A c \in Backups : c = b \/ status'[c] = status[c]
    BY <1>6 DEF ConfirmBackup, TypeOK
  <2>3. \A c \in Backups :
            \/ c = b /\ stage'[c] \in {"none", "fail"}
            \/ stage'[c] = stage[c] /\ next'[c] = next[c]
    BY <2>1 DEF GoTo, TypeOK
  <2>4. QED
    BY <1>3, <2>1, <2>2, <2>3, ArchivesStay
<1>7. ASSUME NEW r \in Restores, RestoreStep(r) PROVE ArchiveInv'
  <2>1. \A b \in Backups : b # r
    BY ConstantsAssumption
  <2>2. UNCHANGED <<archive, snapshot>>
    BY <1>7 DEF RestoreStep, OpenArchive, ClearBackupData, ClearObjects, RestoreRows,
            SyncSequences, RestoreObjects, ConfirmRestoring, RemoveReceived, appVars
  <2>3. \A b \in Backups : status'[b] = status[b]
    BY <1>7, <2>1 DEF RestoreStep, OpenArchive, ClearBackupData, ClearObjects, RestoreRows,
            SyncSequences, RestoreObjects, ConfirmRestoring, RemoveReceived, TypeOK
  <2>4. \A b \in Backups : stage'[b] = stage[b] /\ next'[b] = next[b]
    BY <1>7, <2>1 DEF RestoreStep, OpenArchive, ClearBackupData, ClearObjects, RestoreRows,
            SyncSequences, RestoreObjects, ConfirmRestoring, RemoveReceived, GoTo, Advance, TypeOK
  <2>5. QED
    BY <1>3, <2>2, <2>3, <2>4, ArchivesStay
<1>8. ASSUME UNCHANGED opVars PROVE ArchiveInv'
  BY <1>8 DEF opVars, ArchiveInv, Contained, PackInv
<1>9. CASE Exit
  <2>1. UNCHANGED <<archive, snapshot, status>> /\ \A b \in Backups : stage'[b] = "none"
    BY <1>9 DEF Exit
  <2>2. QED
    BY <1>3, <2>1, ArchivesStay
<1>10. ASSUME NEW o \in Ops, RequestStep(o) \/ OperationStep(o) PROVE ArchiveInv'
  BY <1>1, <1>2, <1>4, <1>5, <1>6, <1>7, <1>10 DEF RequestStep, OperationStep, BackupStep
<1>11. ASSUME (\E p \in Parts : CreateRows(p) \/ PutObjects(p)) \/ Restart \/ UNCHANGED vars
       PROVE  UNCHANGED opVars
  BY <1>11 DEF CreateRows, PutObjects, Restart, vars
<1>12. QED
  BY <1>8, <1>9, <1>10, <1>11 DEF Next

\* In every reachable state the archives are self-contained as far as they are
\* packed.
LEMMA ArchiveInvariant == Spec => [](TypeOK /\ LogInv /\ ArchiveInv)
<1>1. Init => TypeOK /\ LogInv
  BY InitTypes, InitLogInv
<1>2. Init => ArchiveInv
  BY DEF Init, ArchiveInv, Contained, PackInv, NoArchive, Ops
<1>3. TypeOK /\ LogInv /\ ArchiveInv /\ [Next]_vars => (TypeOK /\ LogInv /\ ArchiveInv)'
  BY TypingStep, LogInvStep, ArchiveStep
<1>4. QED
  BY <1>1, <1>2, <1>3, PTL DEF Spec

\* A finished backup's archive holds an object for every row in it, for a library
\* of any size.
THEOREM BackupsSelfContained == Spec => []FinishedBackupsSelfContained
<1>1. ArchiveInv => FinishedBackupsSelfContained
  BY DEF ArchiveInv, PackInv, Contained, FinishedBackupsSelfContained, Ops
<1>2. QED
  BY <1>1, ArchiveInvariant, PTL

-------------------------------------------------------------------------------
(* A restore that nothing writes under.                                    *)

\* The stages of a restore from its archive's opening on.
Opened == {"read", "clear", "unstore", "insert", "sync", "store", "confirm"}

\* What a restore has done to rows and objects by the stage that it is at.
RestoreInv(r) ==
    /\ stage[r] \in Opened => archive[r].valid
    /\ writes = MaxWrites =>
       /\ stage[r] = "unstore" => \A p \in Parts : rows[p] = "none"
       /\ stage[r] = "insert" => \A p \in Parts :
              rows[p] = IF p < next[r] THEN archive[r].rows[p] ELSE "none"
       /\ stage[r] \in {"sync", "store", "confirm"} =>
              \A p \in Parts : rows[p] = archive[r].rows[p]
       /\ stage[r] = "store" => \A p \in Parts :
              p < next[r] /\ archive[r].objects[p] # "none" => objects[p] = archive[r].objects[p]
       /\ stage[r] = "confirm" => \A p \in Parts :
              archive[r].objects[p] # "none" => objects[p] = archive[r].objects[p]

QuietInv ==
    /\ writes <= MaxWrites
    /\ \A r \in Restores : RestoreInv(r)

AllInv == TypeOK /\ LogInv /\ ArchiveInv /\ QuietInv

\* A step that does not concern a restore.
LEMMA RestoreStays ==
    ASSUME NEW r \in Restores, RestoreInv(r), UNCHANGED <<writes, rows, objects>>,
           stage'[r] = stage[r], next'[r] = next[r], archive'[r] = archive[r]
    PROVE  RestoreInv(r)'
BY DEF RestoreInv

\* A restore that is not past opening its archive has nothing to keep to.
LEMMA NotRewriting ==
    ASSUME NEW r \in Restores, stage'[r] \notin Opened
    PROVE  RestoreInv(r)'
BY DEF RestoreInv, Opened

\* No other restore is opened while one is at work.
LEMMA OnlyRestore ==
    ASSUME TypeOK, LogInv, NEW r \in Restores, NEW q \in Restores \ {r},
           stage[r] \in Opened
    PROVE  stage[q] \notin Opened
<1>1. r \in Ops /\ q \in Ops /\ SameKind(r, q)
  BY ConstantsAssumption DEF Ops, SameKind
<1>2. Opened \subseteq Midway
  BY DEF Opened, Midway, Stages
<1>3. Active(r) /\ (stage[q] \in Opened => Active(q))
  BY <1>1, <1>2 DEF LogInv, StageInv, Active
<1>4. QED
  BY <1>1, <1>3 DEF LogInv, OneActiveOperation

\* A restore that moves while no other is opened.
LEMMA OneRestoreMoves ==
    ASSUME AllInv, NEW r \in Restores, stage[r] \in Opened,
           UNCHANGED writes,
           \A q \in Ops \ {r} : stage'[q] = stage[q] /\ next'[q] = next[q],
           RestoreInv(r)'
    PROVE  QuietInv'
<1>1. \A q \in Restores \ {r} : stage'[q] \notin Opened
  BY OnlyRestore DEF AllInv, Ops
<1>2. QED
  BY <1>1, NotRewriting DEF AllInv, QuietInv

\* Inserting a part's rows (restoreDBSnapshot) keeps to the archive.
LEMMA RestoreRowsQuiet ==
    ASSUME AllInv, NEW r \in Restores, RestoreRows(r)
    PROVE  QuietInv'
<1> DEFINE p == next[r]
<1>1. r \in Ops /\ p \in Parts /\ stage[r] = "insert" /\ RestoreInv(r)
  BY DEF AllInv, QuietInv, RestoreRows, At, Ops, TypeOK
<1>2. UNCHANGED <<writes, objects, archive>> /\ stage[r] \in Opened /\ "sync" \in Stages /\ "fail" \in Stages
  BY <1>1 DEF RestoreRows, Opened, Stages
<1>3. rows \in Library
  BY DEF AllInv, TypeOK
<1>4. CASE /\ rows' = [rows EXCEPT ![p] = IF archive[r].rows[p] = "none" THEN @ ELSE archive[r].rows[p]]
           /\ Advance(r, "sync")
  <2>1. /\ \A q \in Ops \ {r} : stage'[q] = stage[q] /\ next'[q] = next[q]
        /\ \/ p = Last /\ stage'[r] = "sync" /\ next'[r] = 1
           \/ p < Last /\ stage'[r] = "insert" /\ next'[r] = p + 1
    BY <1>1, <1>2, <1>4, AdvanceCases DEF AllInv
  <2>2. ASSUME writes = MaxWrites, NEW q \in Parts
        PROVE  rows'[q] = IF q < p + 1 THEN archive[r].rows[q] ELSE "none"
    <3>1. rows[q] = IF q < p THEN archive[r].rows[q] ELSE "none"
      BY <1>1, <2>2 DEF RestoreInv
    <3>2. rows'[q] = IF q = p /\ archive[r].rows[p] # "none" THEN archive[r].rows[p] ELSE rows[q]
      BY <1>3, <1>4 DEF Library
    <3>3. q \in Nat /\ p \in Nat
      BY <1>1 DEF Parts
    <3>4. QED
      BY <3>1, <3>2, <3>3
  <2>3. RestoreInv(r)'
    <3>1. archive[r].valid
      BY <1>1, <1>2 DEF RestoreInv
    <3>2. CASE stage'[r] = "sync" /\ p = Last
      <4>1. \A q \in Parts : q < p + 1
        BY <1>1, <3>2, ConstantsAssumption DEF Parts
      <4>2. QED
        BY <1>2, <2>2, <3>1, <3>2, <4>1 DEF RestoreInv, Opened
    <3>3. CASE stage'[r] = "insert" /\ next'[r] = p + 1
      BY <1>2, <2>2, <3>1, <3>3 DEF RestoreInv, Opened
    <3>4. QED
      BY <2>1, <3>2, <3>3
  <2>4. QED
    BY <1>2, <2>1, <2>3, OneRestoreMoves
<1>5. CASE GoTo(r, "fail")
  <2>1. (\A q \in Ops \ {r} : stage'[q] = stage[q] /\ next'[q] = next[q]) /\ stage'[r] = "fail"
    BY <1>1, <1>2, <1>5, GoToCases DEF AllInv
  <2>2. RestoreInv(r)'
    BY <2>1, NotRewriting DEF Opened
  <2>3. QED
    BY <1>2, <2>1, <2>2, OneRestoreMoves
<1>6. QED
  BY <1>4, <1>5 DEF RestoreRows

\* Storing a part's objects (restoreStorageState) keeps to the archive.
LEMMA RestoreObjectsQuiet ==
    ASSUME AllInv, NEW r \in Restores, RestoreObjects(r)
    PROVE  QuietInv'
<1> DEFINE p == next[r]
<1>1. r \in Ops /\ p \in Parts /\ stage[r] = "store" /\ RestoreInv(r)
  BY DEF AllInv, QuietInv, RestoreObjects, At, Ops, TypeOK
<1>2. UNCHANGED <<writes, rows, archive>> /\ stage[r] \in Opened /\ "confirm" \in Stages /\ "fail" \in Stages
  BY <1>1 DEF RestoreObjects, Opened, Stages
<1>3. objects \in Library
  BY DEF AllInv, TypeOK
<1>4. CASE /\ objects' = [objects EXCEPT ![p] = IF archive[r].objects[p] = "none" THEN @
                                                   ELSE archive[r].objects[p]]
           /\ Advance(r, "confirm")
  <2>1. /\ \A q \in Ops \ {r} : stage'[q] = stage[q] /\ next'[q] = next[q]
        /\ \/ p = Last /\ stage'[r] = "confirm" /\ next'[r] = 1
           \/ p < Last /\ stage'[r] = "store" /\ next'[r] = p + 1
    BY <1>1, <1>2, <1>4, AdvanceCases DEF AllInv
  <2>2. ASSUME writes = MaxWrites, NEW q \in Parts, q < p + 1, archive[r].objects[q] # "none"
        PROVE  objects'[q] = archive[r].objects[q]
    <3>1. q < p => objects[q] = archive[r].objects[q]
      BY <1>1, <2>2 DEF RestoreInv
    <3>2. objects'[q] = IF q = p THEN archive[r].objects[p] ELSE objects[q]
      BY <1>3, <1>4, <2>2 DEF Library
    <3>3. q \in Nat /\ p \in Nat
      BY <1>1 DEF Parts
    <3>4. QED
      BY <2>2, <3>1, <3>2, <3>3
  <2>3. RestoreInv(r)'
    <3>1. archive[r].valid /\ (writes = MaxWrites => \A q \in Parts : rows[q] = archive[r].rows[q])
      BY <1>1, <1>2 DEF RestoreInv
    <3>2. CASE stage'[r] = "confirm" /\ p = Last
      <4>1. \A q \in Parts : q < p + 1
        BY <1>1, <3>2, ConstantsAssumption DEF Parts
      <4>2. QED
        BY <1>2, <2>2, <3>1, <3>2, <4>1 DEF RestoreInv, Opened
    <3>3. CASE stage'[r] = "store" /\ next'[r] = p + 1
      BY <1>2, <2>2, <3>1, <3>3 DEF RestoreInv, Opened
    <3>4. QED
      BY <2>1, <3>2, <3>3
  <2>4. QED
    BY <1>2, <2>1, <2>3, OneRestoreMoves
<1>5. CASE GoTo(r, "fail")
  <2>1. (\A q \in Ops \ {r} : stage'[q] = stage[q] /\ next'[q] = next[q]) /\ stage'[r] = "fail"
    BY <1>1, <1>2, <1>5, GoToCases DEF AllInv
  <2>2. RestoreInv(r)'
    BY <2>1, NotRewriting DEF Opened
  <2>3. QED
    BY <1>2, <2>1, <2>2, OneRestoreMoves
<1>6. QED
  BY <1>4, <1>5 DEF RestoreObjects

\* The other steps that rewrite the library, and those that lead to them.
LEMMA RestoreStepQuiet ==
    ASSUME AllInv, NEW r \in Restores, RestoreStep(r)
    PROVE  QuietInv'
<1>1. r \in Ops /\ RestoreInv(r) /\ next[r] \in Parts
  BY DEF AllInv, QuietInv, Ops, TypeOK
<1>2. ASSUME NEW s \in Stages \ Opened, GoTo(r, s), UNCHANGED writes, stage[r] \in Opened
      PROVE  QuietInv'
  <2>1. (\A q \in Ops \ {r} : stage'[q] = stage[q] /\ next'[q] = next[q]) /\ stage'[r] = s
    BY <1>1, <1>2, GoToCases DEF AllInv
  <2>2. RestoreInv(r)'
    BY <1>2, <2>1, NotRewriting
  <2>3. QED
    BY <1>2, <2>1, <2>2, OneRestoreMoves
<1>3. {"fail", "clean", "none"} \subseteq Stages \ Opened /\ Opened \subseteq Stages
  BY DEF Stages, Opened
<1>4. CASE OpenArchive(r)
  <2>1. UNCHANGED <<writes, rows, objects, archive>> /\ stage[r] = "open"
    BY <1>4 DEF OpenArchive, At, appVars
  <2>2. \/ archive[r].valid /\ GoTo(r, "read")
        \/ GoTo(r, "fail")
    BY <1>4 DEF OpenArchive
  <2>3. (\A q \in Ops \ {r} : stage'[q] = stage[q] /\ next'[q] = next[q])
        /\ ((stage'[r] = "read" /\ archive[r].valid) \/ stage'[r] = "fail")
    BY <1>1, <1>3, <2>2, GoToCases DEF AllInv, Opened
  <2>4. RestoreInv(r)'
    BY <2>1, <2>3 DEF RestoreInv, Opened
  <2>5. \A q \in Restores \ {r} : RestoreInv(q)'
    BY <2>1, <2>3, RestoreStays DEF AllInv, QuietInv, Ops
  <2>6. QED
    BY <2>1, <2>4, <2>5 DEF AllInv, QuietInv
<1>5. CASE ClearBackupData(r)
  <2>1. UNCHANGED <<writes, objects, archive>> /\ stage[r] = "clear" /\ stage[r] \in Opened
    BY <1>5 DEF ClearBackupData, At, Opened
  <2>2. CASE rows' = Nothing /\ GoTo(r, "unstore")
    <3>1. (\A q \in Ops \ {r} : stage'[q] = stage[q] /\ next'[q] = next[q]) /\ stage'[r] = "unstore"
      BY <1>1, <1>3, <2>2, GoToCases DEF AllInv, Opened
    <3>2. RestoreInv(r)'
      BY <1>1, <2>1, <2>2, <3>1, NothingLibrary DEF RestoreInv
    <3>3. QED
      BY <2>1, <3>1, <3>2, OneRestoreMoves
  <2>3. QED
    BY <1>2, <1>3, <1>5, <2>1, <2>2 DEF ClearBackupData
<1>6. CASE ClearObjects(r)
  <2>1. UNCHANGED <<writes, rows, archive>> /\ stage[r] = "unstore" /\ stage[r] \in Opened
    BY <1>6 DEF ClearObjects, At, Opened
  <2>2. CASE Advance(r, "insert")
    <3>1. /\ \A q \in Ops \ {r} : stage'[q] = stage[q] /\ next'[q] = next[q]
          /\ (stage'[r] = "insert" /\ next'[r] = 1) \/ stage'[r] = "unstore"
      BY <1>1, <1>3, <2>1, <2>2, AdvanceCases DEF AllInv, Opened
    <3>2. \A p \in Parts : ~(p < 1)
      BY DEF Parts
    <3>3. RestoreInv(r)'
      BY <1>1, <2>1, <3>1, <3>2 DEF RestoreInv
    <3>4. QED
      BY <2>1, <3>1, <3>3, OneRestoreMoves
  <2>3. QED
    BY <1>2, <1>3, <1>6, <2>1, <2>2 DEF ClearObjects
<1>7. CASE SyncSequences(r)
  <2>1. UNCHANGED <<writes, rows, objects, archive>> /\ stage[r] = "sync" /\ stage[r] \in Opened
    BY <1>7 DEF SyncSequences, At, Opened, appVars
  <2>2. CASE GoTo(r, "store")
    <3>1. /\ \A q \in Ops \ {r} : stage'[q] = stage[q] /\ next'[q] = next[q]
          /\ stage'[r] = "store" /\ next'[r] = 1
      BY <1>1, <1>3, <2>2, GoToCases DEF AllInv, Opened
    <3>2. \A p \in Parts : ~(p < 1)
      BY DEF Parts
    <3>3. RestoreInv(r)'
      BY <1>1, <2>1, <3>1, <3>2 DEF RestoreInv
    <3>4. QED
      BY <2>1, <3>1, <3>3, OneRestoreMoves
  <2>3. QED
    BY <1>2, <1>3, <1>7, <2>1, <2>2 DEF SyncSequences
<1>8. CASE ConfirmRestoring(r)
  <2>1. UNCHANGED writes /\ stage[r] \in Opened /\ (GoTo(r, "clean") \/ GoTo(r, "fail"))
    BY <1>8 DEF ConfirmRestoring, At, Opened, appVars
  <2>2. QED
    BY <1>2, <1>3, <2>1
<1>9. CASE RemoveReceived(r)
  <2>1. UNCHANGED <<writes, rows, objects, archive>> /\ GoTo(r, "none")
    BY <1>9 DEF RemoveReceived, appVars
  <2>2. (\A q \in Ops \ {r} : stage'[q] = stage[q] /\ next'[q] = next[q]) /\ stage'[r] = "none"
    BY <1>1, <1>3, <2>1, GoToCases DEF AllInv
  <2>3. RestoreInv(r)'
    BY <2>2, NotRewriting DEF Opened
  <2>4. \A q \in Restores \ {r} : RestoreInv(q)'
    BY <2>1, <2>2, RestoreStays DEF AllInv, QuietInv, Ops
  <2>5. QED
    BY <2>1, <2>3, <2>4 DEF AllInv, QuietInv
<1>10. QED
  BY <1>4, <1>5, <1>6, <1>7, <1>8, <1>9, RestoreRowsQuiet, RestoreObjectsQuiet DEF RestoreStep

\* As long as no upload writes, every step keeps what a restore has put in place.
LEMMA QuietStep ==
    ASSUME AllInv, [Next]_vars
    PROVE  QuietInv'
<1>1. TypeOK /\ LogInv /\ QuietInv /\ \A r \in Restores : RestoreInv(r)
  BY DEF AllInv, QuietInv
<1>2. ASSUME UNCHANGED <<writes, rows, objects>>,
             \A r \in Restores :
                 \/ stage'[r] = stage[r] /\ next'[r] = next[r] /\ archive'[r] = archive[r]
                 \/ stage'[r] \notin Opened
      PROVE  QuietInv'
  BY <1>1, <1>2, RestoreStays, NotRewriting DEF QuietInv
<1>3. ASSUME NEW o \in Ops, RequestStep(o) PROVE QuietInv'
  <2>1. CASE Ask(o) \/ Lock(o) \/ CheckActive(o)
    BY <1>2, <2>1 DEF Ask, Lock, CheckActive, appVars
  <2>2. CASE InsertOperation(o)
    <3>1. UNCHANGED <<writes, rows, objects, next, archive>>
      BY <2>2 DEF InsertOperation, appVars
    <3>2. \A r \in Restores : stage'[r] = stage[r] \/ stage'[r] = "mark"
      BY <1>1, <2>2 DEF InsertOperation, TypeOK, Ops
    <3>3. QED
      BY <1>2, <3>1, <3>2 DEF Opened
  <2>3. CASE o \in Restores /\ ReceiveArchive(o)
    <3>1. stage[o] = "none" /\ UNCHANGED <<writes, rows, objects, stage, next>>
      BY <1>1, <2>3 DEF ReceiveArchive, RequestTo, LogInv, RequestInv, appVars
    <3>2. \A r \in Restores \ {o} : archive'[r] = archive[r]
      BY <1>1, <2>3 DEF ReceiveArchive, TypeOK, Ops
    <3>3. QED
      BY <1>2, <3>1, <3>2 DEF Opened
  <2>4. QED
    BY <1>3, <2>1, <2>2, <2>3 DEF RequestStep
<1>4. ASSUME NEW o \in Ops, MarkStarted(o) \/ FinishWithError(o) PROVE QuietInv'
  <2>1. UNCHANGED <<writes, rows, objects, archive>>
    BY <1>4 DEF MarkStarted, FinishWithError, appVars
  <2>2. \A r \in Restores :
            (stage'[r] = stage[r] /\ next'[r] = next[r]) \/ stage'[r] \notin Opened
    <3>1. CASE MarkStarted(o)
      <4>1. \A q \in Ops \ {o} : stage'[q] = stage[q] /\ next'[q] = next[q]
        BY <1>1, <3>1 DEF MarkStarted, GoTo, TypeOK
      <4>2. o \in Restores => stage'[o] \notin Opened
        BY <1>1, <3>1, ConstantsAssumption DEF MarkStarted, GoTo, TypeOK, Opened
      <4>3. QED
        BY <4>1, <4>2 DEF Ops
    <3>2. CASE FinishWithError(o)
      BY <1>1, <3>2 DEF FinishWithError, Ending, GoTo, TypeOK, Opened, Ops
    <3>3. QED
      BY <1>4, <3>1, <3>2
  <2>3. QED
    BY <1>2, <2>1, <2>2
<1>5. ASSUME NEW o \in Ops, ReadTable(o) PROVE QuietInv'
  <2>1. UNCHANGED <<writes, rows, objects, archive>> /\ stage[o] = "read"
    BY <1>5 DEF ReadTable, At, appVars
  <2>2. /\ \A q \in Ops \ {o} : stage'[q] = stage[q] /\ next'[q] = next[q]
        /\ stage'[o] \in {"read", "pack", "clear", "fail"}
    <3>1. CASE GoTo(o, "fail")
      BY <1>1, <3>1, GoToCases DEF Stages
    <3>2. CASE Advance(o, "pack") \/ Advance(o, "clear")
      BY <1>1, <2>1, <3>2, AdvanceCases DEF Stages
    <3>3. QED
      BY <1>5, <3>1, <3>2 DEF ReadTable
  <2>3. \A r \in Restores \ {o} : RestoreInv(r)'
    BY <1>1, <2>1, <2>2, RestoreStays DEF Ops
  <2>4. o \in Restores => RestoreInv(o)'
    BY <1>1, <2>1, <2>2 DEF RestoreInv, Opened
  <2>5. QED
    BY <1>1, <2>1, <2>3, <2>4 DEF QuietInv
<1>6. ASSUME NEW b \in Backups, BackupStep(b) PROVE QuietInv'
  <2>1. \A r \in Restores : r # b
    BY ConstantsAssumption
  <2>2. UNCHANGED <<writes, rows, objects>>
    BY <1>6 DEF BackupStep, PackObjects, ConfirmBackup, appVars
  <2>3. \A r \in Restores : archive'[r] = archive[r]
    BY <1>1, <1>6, <2>1 DEF BackupStep, PackObjects, ConfirmBackup, TypeOK, Ops
  <2>4. \A r \in Restores : stage'[r] = stage[r] /\ next'[r] = next[r]
    BY <1>1, <1>6, <2>1 DEF BackupStep, PackObjects, ConfirmBackup, GoTo, Advance, TypeOK, Ops
  <2>5. QED
    BY <1>2, <2>2, <2>3, <2>4
<1>7. ASSUME NEW o \in Ops, OperationStep(o) PROVE QuietInv'
  BY <1>4, <1>5, <1>6, <1>7, RestoreStepQuiet DEF OperationStep
<1>8. ASSUME NEW p \in Parts, CreateRows(p) \/ PutObjects(p) PROVE QuietInv'
  <2>1. writes' = writes - 1 /\ UNCHANGED <<stage, archive>> /\ writes > 0
    BY <1>8 DEF CreateRows, PutObjects, Write, opVars
  <2>2. writes' < MaxWrites
    BY <1>1, <2>1, ConstantsAssumption DEF TypeOK, QuietInv
  <2>3. writes' # MaxWrites /\ writes' <= MaxWrites
    BY <1>1, <2>1, <2>2, ConstantsAssumption DEF TypeOK
  <2>4. QED
    BY <1>1, <2>1, <2>3 DEF QuietInv, RestoreInv
<1>9. ASSUME Exit PROVE QuietInv'
  BY <1>2, <1>9 DEF Exit, Opened, Ops
<1>10. ASSUME Restart \/ UNCHANGED vars PROVE QuietInv'
  BY <1>2, <1>10 DEF Restart, vars, appVars, opVars
<1>11. QED
  <2>1. CASE \E o \in Ops : RequestStep(o) \/ OperationStep(o)
    BY <1>3, <1>7, <2>1
  <2>2. CASE \E p \in Parts : CreateRows(p) \/ PutObjects(p)
    BY <1>8, <2>2
  <2>3. QED
    BY <1>9, <1>10, <2>1, <2>2 DEF Next

\* The step that reports a restore as finished is the confirmation of a goroutine
\* that has rewritten the library.
LEMMA FinishedExact ==
    ASSUME AllInv, [Next]_vars, NEW r \in Restores,
           status[r] # "finished", status'[r] = "finished", writes = MaxWrites
    PROVE  \A p \in Parts :
               /\ rows[p] = archive[r].rows[p]
               /\ rows[p] # "none" => objects[p] = archive[r].objects[p]
<1>1. r \in Ops /\ TypeOK /\ RestoreInv(r) /\ Contained(archive[r])
  BY DEF AllInv, QuietInv, ArchiveInv, Ops
<1>2. stage[r] = "confirm"
  <2>1. ~Exit /\ ~LogUnchanged
    BY DEF Exit, LogUnchanged
  <2>2. PICK o \in Ops : OthersStay(o) /\ (RequestMoves(o) \/ Recording(o) \/ GoroutineMoves(o))
    BY <1>1, <2>1, OperationMoves
  <2>3. o = r
    BY <1>1, <2>2 DEF OthersStay
  <2>4. QED
    BY <2>2, <2>3 DEF RequestMoves, Recording, GoroutineMoves
<1>3. archive[r].valid
  BY <1>1, <1>2 DEF RestoreInv, Opened
<1>4. QED
  BY <1>1, <1>2, <1>3 DEF RestoreInv, Contained

\* At first no restore has begun, and no upload has written.
LEMMA InitQuiet == Init => QuietInv
BY ConstantsAssumption DEF Init, QuietInv, RestoreInv, Opened, Ops

\* A restore that is reported as finished, with no upload writing meanwhile, left
\* exactly the archive's rows and their objects, in a library of any size, whatever
\* failed backups, failed restores and kills came before it.
THEOREM RestoreExact == Spec => QuietRestoreExact
<1>1. Init => AllInv
  <2>1. Init => TypeOK /\ LogInv
    BY InitTypes, InitLogInv
  <2>2. Init => ArchiveInv
    BY DEF Init, ArchiveInv, Contained, PackInv, NoArchive, Ops
  <2>3. QED
    BY <2>1, <2>2, InitQuiet DEF AllInv
<1>2. AllInv /\ [Next]_vars => AllInv'
  BY TypingStep, LogInvStep, ArchiveStep, QuietStep DEF AllInv
<1> DEFINE Exact == \A r \in Restores :
           /\ status[r] # "finished"
           /\ status'[r] = "finished"
           /\ writes = MaxWrites
           => \A p \in Parts :
                  /\ rows[p] = archive[r].rows[p]
                  /\ rows[p] # "none" => objects[p] = archive[r].objects[p]
<1>3. AllInv /\ [Next]_vars => [Exact]_vars
  BY FinishedExact
<1>4. QED
  BY <1>1, <1>2, <1>3, PTL DEF Spec, QuietRestoreExact

===============================================================================

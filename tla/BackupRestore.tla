----------------------------- MODULE BackupRestore -----------------------------
(***************************************************************************)
(* Backup and restore of the whole library by BackupService.               *)
(*                                                                         *)
(* A request records an operation in backup_status or restore_status, under *)
(* the service's mutex for that kind, and leaves the work to a goroutine   *)
(* that outlives the request.  No transaction covers the work: a backup    *)
(* reads table after table and then the objects they name; a restore clears *)
(* the tables and the objects and writes the archive's, statement by       *)
(* statement, while uploads and the other kind of operation go on.  The    *)
(* process may be killed at any point, and nothing resumes an operation.   *)
(*                                                                         *)
(* The library is a sequence of parts, in the order of the foreign keys: a *)
(* part stands for the rows of some tables and for the objects they name.  *)
(* Libraries are of different ages of the same installation, so that their *)
(* rows have the same ids and their objects the same keys.                 *)
(***************************************************************************)
EXTENDS Naturals, FiniteSets

CONSTANTS
    Backups,    \* backup operations that may be asked for
    Restores,   \* restore operations that may be asked for
    Last,       \* the library has parts 1..Last
    MaxFaults,  \* bound: errors, panics and kills in a behaviour
    MaxWrites   \* bound: writes of uploads in a behaviour

ASSUME ConstantsAssumption ==
    /\ Backups \intersect Restores = {}
    /\ Last \in Nat \ {0}
    /\ MaxFaults \in Nat
    /\ MaxWrites \in Nat

Ops == Backups \union Restores
Parts == 1..Last

\* Whose a part is: of the library as it was at first, of the one that an
\* archive from elsewhere holds, of an upload made meanwhile; or it is missing.
Owners == {"first", "other", "upload"}
Library == [Parts -> Owners \union {"none"}]
Whole(owner) == [p \in Parts |-> owner]
Nothing == Whole("none")

Archive == [valid : BOOLEAN, rows : Library, objects : Library]
NoArchive == [valid |-> FALSE, rows |-> Nothing, objects |-> Nothing]

VARIABLES
    up,        \* the process runs
    faults,    \* faults left to happen
    writes,    \* writes of uploads left to happen
    \* Postgres
    rows,      \* the application's tables
    status,    \* status[o]: the row of backup_status or restore_status
    \* object storage, local disk
    objects,   \* the application's objects
    file,      \* file[o]: the archive file of o on the disk
    \* requests
    request,   \* request[o]: where the request that starts o is
    putting,   \* parts whose upload has its rows and not yet its objects
    \* goroutines
    stage,     \* stage[o]: where runBackupOperation, runRestoreOperation is
    next,      \* next[o]: the part its current loop has reached
    snapshot,  \* snapshot[o]: what its backupDB has read
    archive    \* archive[o]: what the archive of o holds

appVars == <<writes, rows, objects, putting>>
opVars == <<status, file, request, stage, next, snapshot, archive>>
vars == <<up, faults, appVars, opVars>>

Requests ==
    {"idle", "lock", "check", "receive", "record", "accepted", "refused", "failed"}
Stages ==
    {"none", "mark", "open", "read", "pack", "clear", "unstore", "insert",
     "sync", "store", "confirm", "fail", "clean"}

TypeOK ==
    /\ up \in BOOLEAN
    /\ faults \in Nat
    /\ writes \in Nat
    /\ rows \in Library
    /\ objects \in Library
    /\ putting \in SUBSET Parts
    /\ status \in [Ops -> {"none", "pending", "started", "finished", "error"}]
    /\ file \in [Ops -> {"none", "partial", "whole"}]
    /\ request \in [Ops -> Requests]
    /\ stage \in [Ops -> Stages]
    /\ next \in [Ops -> Parts]
    /\ snapshot \in [Ops -> Library]
    /\ archive \in [Ops -> Archive]

\* The library is whole, but for uploads that have yet to store their objects.
Init ==
    /\ up = TRUE
    /\ faults = MaxFaults
    /\ writes = MaxWrites
    /\ rows = Whole("first")
    /\ putting \in SUBSET Parts
    /\ objects = [p \in Parts |-> IF p \in putting THEN "none" ELSE "first"]
    /\ status = [o \in Ops |-> "none"]
    /\ file = [o \in Ops |-> "none"]
    /\ request = [o \in Ops |-> "idle"]
    /\ stage = [o \in Ops |-> "none"]
    /\ next = [o \in Ops |-> 1]
    /\ snapshot = [o \in Ops |-> Nothing]
    /\ archive = [o \in Ops |-> NoArchive]

Fault == faults > 0 /\ faults' = faults - 1
NoFault == UNCHANGED faults

SameKind(o, q) == (o \in Backups) <=> (q \in Backups)
Active(o) == status[o] \in {"pending", "started"}

\* The stages in which a request holds backupMu or restoreMu.
Holding == {"check", "receive", "record"}

-------------------------------------------------------------------------------
(* StartBackupOperation, StartRestoreOperation.                            *)

RequestTo(o, from, to) ==
    /\ up
    /\ request[o] = from
    /\ request' = [request EXCEPT ![o] = to]

Ask(o) ==
    /\ RequestTo(o, "idle", "lock")
    /\ NoFault
    /\ UNCHANGED <<up, appVars, status, file, stage, next, snapshot, archive>>

\* Mutant of Lock: it waits for the operation itself to end.
LockOperation(o) ==
    /\ \A q \in Ops : SameKind(o, q) => request[q] \notin Holding /\ ~Active(q)
    /\ RequestTo(o, "lock", "check")
    /\ NoFault
    /\ UNCHANGED <<up, appVars, status, file, stage, next, snapshot, archive>>

\* backupMu.Lock, restoreMu.Lock
Lock(o) ==
    /\ \A q \in Ops : SameKind(o, q) => request[q] \notin Holding
    /\ RequestTo(o, "lock", "check")
    /\ NoFault
    /\ UNCHANGED <<up, appVars, status, file, stage, next, snapshot, archive>>

\* Mutant of CheckActive: only operations that are at work count as active.
CheckStarted(o) ==
    /\ \/ /\ \E q \in Ops : SameKind(o, q) /\ status[q] = "started"
          /\ RequestTo(o, "check", "refused")
          /\ NoFault
       \/ /\ \A q \in Ops : SameKind(o, q) => status[q] # "started"
          /\ RequestTo(o, "check", IF o \in Backups THEN "record" ELSE "receive")
          /\ NoFault
       \/ RequestTo(o, "check", "failed") /\ Fault
    /\ UNCHANGED <<up, appVars, status, file, stage, next, snapshot, archive>>

\* The query for an active operation of the kind decides, or fails.  A restore
\* goes on to receive the archive, with the mutex held.
CheckActive(o) ==
    /\ \/ /\ \E q \in Ops : SameKind(o, q) /\ Active(q)
          /\ RequestTo(o, "check", "refused")
          /\ NoFault
       \/ /\ \A q \in Ops : SameKind(o, q) => ~Active(q)
          /\ RequestTo(o, "check", IF o \in Backups THEN "record" ELSE "receive")
          /\ NoFault
       \/ RequestTo(o, "check", "failed") /\ Fault
    /\ UNCHANGED <<up, appVars, status, file, stage, next, snapshot, archive>>

\* What a client may send: a whole library from elsewhere, a backup it has
\* downloaded, or bytes that are no backup.
Sent ==
    {NoArchive}
        \union {[valid |-> TRUE, rows |-> Whole("other"), objects |-> Whole("other")]}
        \union {archive[b] : b \in {q \in Backups : status[q] = "finished" /\ file[q] = "whole"}}

\* The body is copied to a temporary file and not looked at.
ReceiveArchive(r) ==
    /\ \/ /\ RequestTo(r, "receive", "record")
          /\ \E a \in Sent : archive' = [archive EXCEPT ![r] = a]
          /\ file' = [file EXCEPT ![r] = "whole"]
          /\ NoFault
       \/ RequestTo(r, "receive", "failed") /\ Fault /\ UNCHANGED <<archive, file>>
    /\ UNCHANGED <<up, appVars, status, stage, next, snapshot>>

\* The row is inserted and the goroutine started.  If the insert fails, or
\* commits with an error in the reply, there is no goroutine and no file.
InsertOperation(o) ==
    /\ \/ /\ RequestTo(o, "record", "accepted")
          /\ status' = [status EXCEPT ![o] = "pending"]
          /\ stage' = [stage EXCEPT ![o] = "mark"]
          /\ NoFault
          /\ UNCHANGED file
       \/ /\ RequestTo(o, "record", "failed")
          /\ Fault
          /\ \E s \in {"none", "pending"} : status' = [status EXCEPT ![o] = s]
          /\ file' = [file EXCEPT ![o] = "none"]
          /\ UNCHANGED stage
    /\ UNCHANGED <<up, appVars, next, snapshot, archive>>

-------------------------------------------------------------------------------
(* Steps of both goroutines.                                               *)

At(o, s) == up /\ stage[o] = s

\* The goroutine goes on with another stage, from the first part.
GoTo(o, s) ==
    /\ stage' = [stage EXCEPT ![o] = s]
    /\ next' = [next EXCEPT ![o] = 1]

\* Mutant of Advance: the loop is left one turn late.
AdvanceOnceMore(o, s) ==
    IF next[o] > Last
    THEN GoTo(o, s)
    ELSE next' = [next EXCEPT ![o] = @ + 1] /\ UNCHANGED stage

\* One turn of a loop over the parts is done.
Advance(o, s) ==
    IF next[o] = Last
    THEN GoTo(o, s)
    ELSE next' = [next EXCEPT ![o] = @ + 1] /\ UNCHANGED stage

MarkStarted(o) ==
    /\ At(o, "mark")
    /\ \/ /\ status' = [status EXCEPT ![o] = "started"]
          /\ GoTo(o, IF o \in Backups THEN "read" ELSE "open")
          /\ NoFault
       \/ /\ Fault
          /\ \E s \in {status[o], "started"} : status' = [status EXCEPT ![o] = s]
          /\ GoTo(o, "fail")
    /\ UNCHANGED <<up, appVars, file, request, snapshot, archive>>

\* backupDB reads the tables one by one, in no transaction.
ReadTable(o) ==
    /\ At(o, "read")
    /\ \/ /\ snapshot' = [snapshot EXCEPT ![o][next[o]] = rows[next[o]]]
          /\ Advance(o, IF o \in Backups THEN "pack" ELSE "clear")
          /\ NoFault
       \/ GoTo(o, "fail") /\ Fault /\ UNCHANGED snapshot
    /\ UNCHANGED <<up, appVars, status, file, request, archive>>

\* Where the goroutine of o goes when its work is over, well or not.
Ending(o) == IF o \in Backups THEN "none" ELSE "clean"

\* finishBackupWithError, finishRestoreWithError: an error of the update is
\* only logged.
FinishWithError(o) ==
    /\ At(o, "fail")
    /\ \/ status' = [status EXCEPT ![o] = "error"] /\ NoFault
       \/ UNCHANGED status /\ Fault
    /\ GoTo(o, Ending(o))
    /\ UNCHANGED <<up, appVars, file, request, snapshot, archive>>

-------------------------------------------------------------------------------
(* runBackupOperation.                                                     *)

\* The archive of b with its snapshot and the objects up to part p; it is
\* complete with the last.
Packed(b, p, object) ==
    [valid |-> p = Last,
     rows |-> snapshot[b],
     objects |-> [archive[b].objects EXCEPT ![p] = object]]

\* Mutant of PackObjects: a missing track is skipped, as a missing image is.
PackObjectsThereAre(b) ==
    /\ At(b, "pack")
    /\ b \in Backups
    /\ archive' = [archive EXCEPT ![b] =
           Packed(b, next[b], IF snapshot[b][next[b]] = "none" THEN "none" ELSE objects[next[b]])]
    /\ file' = [file EXCEPT ![b] = IF next[b] = Last THEN "whole" ELSE "partial"]
    /\ Advance(b, "confirm")
    /\ NoFault
    /\ UNCHANGED <<up, appVars, status, request, snapshot>>

\* The archive gets the snapshot and then the objects that it names, as they are
\* by now; one that is missing fails the backup.  An error removes the file, a
\* panic does not.
PackObjects(b) ==
    LET p == next[b] IN
    /\ At(b, "pack")
    /\ b \in Backups
    /\ \/ /\ snapshot[b][p] # "none" => objects[p] # "none"
          /\ archive' = [archive EXCEPT ![b] =
                 Packed(b, p, IF snapshot[b][p] = "none" THEN "none" ELSE objects[p])]
          /\ file' = [file EXCEPT ![b] = IF p = Last THEN "whole" ELSE "partial"]
          /\ Advance(b, "confirm")
          /\ NoFault
       \/ /\ \/ snapshot[b][p] # "none" /\ objects[p] = "none" /\ NoFault
             \/ Fault
          /\ file' = [file EXCEPT ![b] = "none"]
          /\ archive' = [archive EXCEPT ![b] = NoArchive]
          /\ GoTo(b, "fail")
       \/ /\ Fault
          /\ file' = [file EXCEPT ![b] = "partial"]
          /\ archive' = [archive EXCEPT ![b] = NoArchive]
          /\ GoTo(b, "fail")
    /\ UNCHANGED <<up, appVars, status, request, snapshot>>

\* Mutant of ConfirmBackup: a failed confirmation is handled as a failed backup.
ConfirmBackupOrFail(b) ==
    /\ At(b, "confirm")
    /\ b \in Backups
    /\ \/ status' = [status EXCEPT ![b] = "finished"] /\ GoTo(b, "none") /\ NoFault /\ UNCHANGED file
       \/ /\ Fault
          /\ \E s \in {status[b], "finished"} : status' = [status EXCEPT ![b] = s]
          /\ file' = [file EXCEPT ![b] = "none"]
          /\ GoTo(b, "fail")
    /\ UNCHANGED <<up, appVars, request, snapshot, archive>>

\* On an error, even of the reply alone, the archive is removed and the row is
\* left as it is.  A panic before the statement is made ends as an error of the
\* backup; behind it there is nothing left to do but to log.
ConfirmBackup(b) ==
    /\ At(b, "confirm")
    /\ b \in Backups
    /\ \/ /\ status' = [status EXCEPT ![b] = "finished"]
          /\ GoTo(b, "none")
          /\ NoFault /\ UNCHANGED file
       \/ /\ Fault
          /\ \E s \in {status[b], "finished"} : status' = [status EXCEPT ![b] = s]
          /\ file' = [file EXCEPT ![b] = "none"]
          /\ GoTo(b, "none")
       \/ GoTo(b, "fail") /\ Fault /\ UNCHANGED <<status, file>>
    /\ UNCHANGED <<up, appVars, request, snapshot, archive>>

-------------------------------------------------------------------------------
(* runRestoreOperation.                                                    *)

\* Mutant of OpenArchive: an archive that is no backup just ends the goroutine.
OpenArchiveOrReturn(r) ==
    /\ At(r, "open")
    /\ GoTo(r, IF archive[r].valid THEN "read" ELSE "clean")
    /\ NoFault
    /\ UNCHANGED <<up, appVars, status, file, request, snapshot, archive>>

\* openZipArchive and loadBackupMetadata
OpenArchive(r) ==
    /\ At(r, "open")
    /\ GoTo(r, IF archive[r].valid THEN "read" ELSE "fail")
    /\ NoFault
    /\ UNCHANGED <<up, appVars, status, file, request, snapshot, archive>>

\* TRUNCATE, which may also commit with an error in the reply.
ClearBackupData(r) ==
    /\ At(r, "clear")
    /\ \/ rows' = Nothing /\ GoTo(r, "unstore") /\ NoFault
       \/ GoTo(r, "fail") /\ Fault /\ rows' \in {rows, Nothing}
    /\ UNCHANGED <<up, writes, objects, putting, status, file, request, snapshot, archive>>

\* clearStorageState removes the objects that the snapshot named.
ClearObjects(r) ==
    LET p == next[r] IN
    /\ At(r, "unstore")
    /\ \/ /\ objects' = [objects EXCEPT ![p] = IF snapshot[r][p] = "none" THEN @ ELSE "none"]
          /\ Advance(r, "insert")
          /\ NoFault
       \/ GoTo(r, "fail") /\ Fault /\ UNCHANGED objects
    /\ UNCHANGED <<up, writes, rows, putting, status, file, request, snapshot, archive>>

\* Rows can be inserted where there are none with their ids and the rows that
\* they refer to are there.
Insertable(p) == rows[p] = "none" /\ (p > 1 => rows[p - 1] # "none")

\* restoreDBSnapshot, in no transaction.
RestoreRows(r) ==
    LET p == next[r]
        fits == archive[r].rows[p] # "none" => Insertable(p) IN
    /\ At(r, "insert")
    /\ \/ /\ fits
          /\ rows' = [rows EXCEPT ![p] = IF archive[r].rows[p] = "none" THEN @
                                                    ELSE archive[r].rows[p]]
          /\ Advance(r, "sync")
          /\ NoFault
       \/ /\ \/ ~fits /\ NoFault
             \/ Fault
          /\ GoTo(r, "fail")
          /\ UNCHANGED rows
    /\ UNCHANGED <<up, writes, objects, putting, status, file, request, snapshot, archive>>

\* syncBackupSequences: later inserts get ids above the restored ones.
SyncSequences(r) ==
    /\ At(r, "sync")
    /\ \/ GoTo(r, "store") /\ NoFault
       \/ GoTo(r, "fail") /\ Fault
    /\ UNCHANGED <<up, appVars, status, file, request, snapshot, archive>>

\* Mutant of RestoreObjects: an object that cannot be stored is passed over.
RestoreObjectsThatGo(r) ==
    LET p == next[r] IN
    /\ At(r, "store")
    /\ \/ /\ objects' = [objects EXCEPT ![p] = IF archive[r].objects[p] = "none" THEN @
                                                    ELSE archive[r].objects[p]]
          /\ NoFault
       \/ Fault /\ UNCHANGED objects
    /\ Advance(r, "confirm")
    /\ UNCHANGED <<up, writes, rows, putting, status, file, request, snapshot, archive>>

\* restoreStorageState
RestoreObjects(r) ==
    LET p == next[r] IN
    /\ At(r, "store")
    /\ \/ /\ objects' = [objects EXCEPT ![p] = IF archive[r].objects[p] = "none" THEN @
                                                    ELSE archive[r].objects[p]]
          /\ Advance(r, "confirm")
          /\ NoFault
       \/ GoTo(r, "fail") /\ Fault /\ UNCHANGED objects
    /\ UNCHANGED <<up, writes, rows, putting, status, file, request, snapshot, archive>>

\* An error leaves the row as it is, a panic before the statement ends as an
\* error of the restore.
ConfirmRestoring(r) ==
    /\ At(r, "confirm")
    /\ r \in Restores
    /\ \/ /\ status' = [status EXCEPT ![r] = "finished"]
          /\ GoTo(r, "clean")
          /\ NoFault
       \/ /\ Fault
          /\ \E s \in {status[r], "finished"} : status' = [status EXCEPT ![r] = s]
          /\ GoTo(r, "clean")
       \/ GoTo(r, "fail") /\ Fault /\ UNCHANGED status
    /\ UNCHANGED <<up, appVars, file, request, snapshot, archive>>

\* The deferred os.Remove of the received file.
RemoveReceived(r) ==
    /\ At(r, "clean")
    /\ file' = [file EXCEPT ![r] = "none"]
    /\ GoTo(r, "none")
    /\ NoFault
    /\ UNCHANGED <<up, appVars, status, request, snapshot, archive>>

-------------------------------------------------------------------------------
(* The rest of the application, and the process.                           *)

Write == writes > 0 /\ writes' = writes - 1

\* An upload creates its rows, with ids that a restore has freed by TRUNCATE ...
\* RESTART IDENTITY, and stores its objects at some later moment.
CreateRows(p) ==
    /\ up
    /\ Insertable(p)
    /\ rows' = [rows EXCEPT ![p] = "upload"]
    /\ putting' = putting \union {p}
    /\ Write /\ NoFault
    /\ UNCHANGED <<up, objects, opVars>>

PutObjects(p) ==
    /\ up
    /\ p \in putting
    /\ objects' = [objects EXCEPT ![p] = "upload"]
    /\ putting' = putting \ {p}
    /\ Write /\ NoFault
    /\ UNCHANGED <<up, rows, opVars>>

\* Requests and goroutines end with the process; rows, objects and files stay.
Exit ==
    /\ up
    /\ Fault
    /\ up' = FALSE
    /\ request' = [o \in Ops |->
           IF request[o] \in Holding \union {"lock"} THEN "failed" ELSE request[o]]
    /\ stage' = [o \in Ops |-> "none"]
    /\ next' = [o \in Ops |-> 1]
    /\ putting' = {}
    /\ UNCHANGED <<writes, rows, objects, status, file, snapshot, archive>>

Restart ==
    /\ ~up
    /\ up' = TRUE
    /\ NoFault
    /\ UNCHANGED <<appVars, opVars>>

-------------------------------------------------------------------------------
RequestStep(o) ==
    \/ Ask(o) \/ Lock(o) \/ CheckActive(o) \/ InsertOperation(o)
    \/ o \in Restores /\ ReceiveArchive(o)

BackupStep(b) == PackObjects(b) \/ ConfirmBackup(b)

RestoreStep(r) ==
    \/ OpenArchive(r) \/ ClearBackupData(r) \/ ClearObjects(r) \/ RestoreRows(r)
    \/ SyncSequences(r) \/ RestoreObjects(r) \/ ConfirmRestoring(r) \/ RemoveReceived(r)

OperationStep(o) ==
    \/ MarkStarted(o) \/ ReadTable(o) \/ FinishWithError(o)
    \/ o \in Backups /\ BackupStep(o)
    \/ o \in Restores /\ RestoreStep(o)

Next ==
    \/ \E o \in Ops : RequestStep(o) \/ OperationStep(o)
    \/ \E p \in Parts : CreateRows(p) \/ PutObjects(p)
    \/ Exit \/ Restart

Spec == Init /\ [][Next]_vars

\* Handlers and goroutines that can run do run, and the process is started
\* again; a client that has begun to send an archive sends it to the end.
Fairness ==
    /\ \A o \in Ops :
           /\ WF_vars(request[o] # "idle" /\ RequestStep(o))
           /\ WF_vars(OperationStep(o))
    /\ WF_vars(Restart)

FairSpec == Spec /\ Fairness

-------------------------------------------------------------------------------
(* Properties.                                                             *)

\* While a goroutine works on an operation, the operation is recorded as active
\* and no other goroutine works on one of the same kind: two restores would
\* clear each other's rows, and a request that finds an active operation is
\* refused.
Working(o) == stage[o] \notin {"none", "clean"}
OneActiveOperation ==
    \A o, q \in Ops :
        /\ Working(o) => Active(o)
        /\ SameKind(o, q) /\ Active(o) /\ Active(q) => o = q

\* The status tables behave as OperationLog promises, with requests, lost
\* replies and kills at any moment, and panics up to the statement that confirms
\* the operation (the recovery's update of the row is unguarded, so that one
\* behind it would take a finished operation for a failed one; only a line of
\* log is written there).
Log == INSTANCE OperationLog
ImplementsLog == Log!Spec

\* A backup reported as finished holds an object for every row that it holds,
\* although objects are read long after the rows were.
FinishedBackupsSelfContained ==
    \A b \in Backups : status[b] = "finished" =>
        /\ archive[b].valid
        /\ \A p \in Parts : archive[b].rows[p] # "none" => archive[b].objects[p] # "none"

\* When a restore is reported as finished and no upload has written meanwhile,
\* rows and objects are those of the archive, whatever earlier operations left.
QuietRestoreExact ==
    [][\A r \in Restores :
           /\ status[r] # "finished"
           /\ status'[r] = "finished"
           /\ writes = MaxWrites
           => \A p \in Parts :
                  /\ rows[p] = archive[r].rows[p]
                  /\ rows[p] # "none" => objects[p] = archive[r].objects[p]]_vars

\* An operation comes to its end, well or with an error, whatever the other
\* operation, an upload and a failing step do: its goroutine gets stuck nowhere.
\* Only a fault that has left no goroutine (a kill, a lost reply of the insert,
\* a failed update of the row) leaves the row active for good.
Orphaned(o) == faults < MaxFaults /\ stage[o] \in {"none", "clean"}
OperationsEnd ==
    \A o \in Ops : Active(o) ~> ~Active(o) \/ Orphaned(o)

\* A request to start an operation is answered: the mutex that it may wait for,
\* held while another client's archive is received, is released.
RequestsAreAnswered ==
    \A o \in Ops : request[o] = "lock" ~> request[o] \in {"accepted", "refused", "failed"}

\* A full backup holds every part of a library that has no part missing before
\* or after any operation.
FinishedBackupsFull ==
    \A b \in Backups : status[b] = "finished" => \A p \in Parts : archive[b].rows[p] # "none"

\* The archive of an accepted restore was received and validated.
AcceptedArchivesValid ==
    \A r \in Restores : request[r] = "accepted" => archive[r].valid

===============================================================================

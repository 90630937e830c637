------------------------------ MODULE OperationLog ------------------------------
(***************************************************************************)
(* What the status tables of backup and restore operations promise: an     *)
(* operation is recorded only while no other of its kind is active, it is   *)
(* finished only after it was started, and its outcome is never changed.   *)
(* An operation cut off by the end of the process stays active.            *)
(***************************************************************************)
CONSTANTS Backups, Restores

VARIABLE status  \* status[o]: the state of operation o

Ops == Backups \union Restores

SameKind(o, p) == (o \in Backups) <=> (p \in Backups)

Active(o) == status[o] \in {"pending", "started"}

Init == status = [o \in Ops |-> "none"]

Move(o, from, to) ==
    /\ status[o] \in from
    /\ status' = [status EXCEPT ![o] = to]

Record(o) ==
    /\ \A p \in Ops : SameKind(o, p) => ~Active(p)
    /\ Move(o, {"none"}, "pending")

Start(o)  == Move(o, {"pending"}, "started")
Finish(o) == Move(o, {"started"}, "finished")
Fail(o)   == Move(o, {"pending", "started"}, "error")

Next == \E o \in Ops : Record(o) \/ Start(o) \/ Finish(o) \/ Fail(o)

Spec == Init /\ [][Next]_status

===============================================================================

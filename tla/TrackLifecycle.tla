---------------------------- MODULE TrackLifecycle ----------------------------
(***************************************************************************)
(* What the transcoding pipeline promises about one track, seen from the   *)
(* API: a track row is created, its transcoding is queued, one transaction *)
(* makes it ready with every preset at once, and a superuser may delete it *)
(* at any point.  A row whose upload was interrupted may stay "created" for *)
(* ever.  An upload is accepted (its request answered with success) only   *)
(* once the track has been queued, and nothing a worker, a crash or a      *)
(* retry does takes an accepted track back to "created".                   *)
(***************************************************************************)
CONSTANT Tracks

VARIABLES
    status,   \* status[t]: where track t is in its life
    accepted  \* the tracks whose upload request was answered with success

vars == <<status, accepted>>

Stages == {"absent", "created", "queued", "ready", "gone"}

Init ==
    /\ status = [t \in Tracks |-> "absent"]
    /\ accepted = {}

Move(t, from, to) ==
    /\ status[t] \in from
    /\ status' = [status EXCEPT ![t] = to]
    /\ UNCHANGED accepted

Create(t)  == Move(t, {"absent"}, "created")
Queue(t)   == Move(t, {"created"}, "queued")
Publish(t) == Move(t, {"queued"}, "ready")
Remove(t)  == Move(t, {"created", "queued", "ready"}, "gone")

Accept(t) ==
    /\ status[t] \in {"queued", "ready", "gone"}
    /\ accepted' = accepted \union {t}
    /\ UNCHANGED status

Next ==
    \E t \in Tracks :
        Create(t) \/ Queue(t) \/ Publish(t) \/ Remove(t) \/ Accept(t)

Spec == Init /\ [][Next]_vars

===============================================================================

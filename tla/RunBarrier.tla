----------------------------- MODULE RunBarrier -----------------------------
(***************************************************************************)
(* What one WebUpdate promises, with no workers, queue or locks: a run     *)
(* plans some units, every unit is recorded at most once, every recorded   *)
(* unit is counted at most once, and the run is closed as "done" only when *)
(* every planned unit has been recorded.  FanOut implements this.          *)
(***************************************************************************)
EXTENDS Naturals, FiniteSets

CONSTANT Units                  \* the ItemSource rows a run may plan

VARIABLES plan,                 \* the units of the run: total_searches = |plan|
          status,               \* WebUpdate.status; "none" before the row exists
          recorded,             \* units whose terminal FetchJob was inserted
          completed             \* WebUpdate.completed_searches

vars == <<plan, status, recorded, completed>>

Statuses == {"none", "pending", "running", "done", "failed"}

Init ==
    /\ plan = {}
    /\ status = "none"
    /\ recorded = {}
    /\ completed = 0

(* dispatch_fan_out creates the WebUpdate with its planned units. *)
Open(P) ==
    /\ status = "none"
    /\ plan' = P
    /\ status' = "pending"
    /\ UNCHANGED <<recorded, completed>>

(* One planned unit reaches its terminal outcome. *)
Record(u) ==
    /\ u \in plan \ recorded
    /\ recorded' = recorded \cup {u}
    /\ UNCHANGED <<plan, status, completed>>

(* One recorded, not yet counted, unit is added to the progress counter. *)
Count ==
    /\ completed < Cardinality(recorded)
    /\ completed' = completed + 1
    /\ UNCHANGED <<plan, status, recorded>>

Start ==
    /\ status = "pending"
    /\ recorded # {}
    /\ status' = "running"
    /\ UNCHANGED <<plan, recorded, completed>>

(* The only way to "done": every planned unit is recorded. *)
Close ==
    /\ status \in {"pending", "running"}
    /\ recorded = plan
    /\ status' = "done"
    /\ UNCHANGED <<plan, recorded, completed>>

(* The enqueue loop itself blew up. *)
Fail ==
    /\ status # "none"
    /\ status' = "failed"
    /\ UNCHANGED <<plan, recorded, completed>>

Next ==
    \/ \E P \in SUBSET Units : Open(P)
    \/ \E u \in Units : Record(u)
    \/ Count \/ Start \/ Close \/ Fail

Spec == Init /\ [][Next]_vars
=============================================================================

----------------------------- MODULE DemoReset ------------------------------
(***************************************************************************)
(* The shared demo sandbox (tracking/demo): the threads of one web process *)
(* serve anonymous visitors from one SQLite database whose transactions    *)
(* take the write lock when they begin.  The middleware of the first       *)
(* request after an idle period resets the data to the seed before the     *)
(* view runs, and records activity, though not on every request; views     *)
(* count visitor rows, then insert; an update run claims a slot; writes to *)
(* seed rows are refused outside a reset.                                  *)
(*                                                                         *)
(* Each request works with the time it read on arrival, which is up to     *)
(* MaxLag old when it writes: it may have waited for the lock, and for its *)
(* own reset.  A reset is one transaction: readers see its commit only.    *)
(***************************************************************************)
EXTENDS Integers, FiniteSets

CONSTANTS
    Workers,         \* threads of the web process
    Idle,            \* DEMO_RESET_IDLE_SECONDS
    WriteInterval,   \* DEMO_ACTIVITY_WRITE_INTERVAL_SECONDS
    MinInterval,     \* DEMO_RESET_MIN_INTERVAL_SECONDS
    UpdateInterval,  \* DEMO_UPDATE_MIN_INTERVAL_SECONDS
    MaxItems,        \* DEMO_MAX_VISITOR_ITEMS; the cap on tags works the same way
    MaxAdd,          \* items one submission adds, at most
    MaxLag,          \* age of a request's reading when it writes, at most
    Nobody,          \* no thread
    MaxTime, MaxFaults, MaxRestarts

ASSUME ConstantsOK ==
    /\ {Idle, WriteInterval, MinInterval, UpdateInterval, MaxLag} \subseteq Nat
    /\ {MaxItems, MaxAdd, MaxTime, MaxFaults, MaxRestarts} \subseteq Nat
    /\ IsFiniteSet(Workers) /\ Workers # {} /\ Nobody \notin Workers

VARIABLES
    now, up,       \* the clock; is the web process running
    lastReset, activity, lastUpdate, \* the DemoState row
    items, seed,   \* visitor items; are the seed rows as seeded
    lock, depth,   \* who holds the write lock; allow_seed_writes, per thread
    req,           \* what each thread is doing
    handled,       \* history: the latest reading of a request let through
    faults, restarts

state == <<lastReset, activity, lastUpdate>>
data == <<items, seed>>
vars == <<now, up, state, data, lock, depth, req, handled, faults, restarts>>

NoTime == -1
Stages == {"idle", "arrived", "due", "resetting", "looked", "marking", "view", "claiming", "writing"}
Request == [stage : Stages, at : Nat, failed : BOOLEAN, fresh : BOOLEAN, adds : Nat]
NoRequest == [stage |-> "idle", at |-> 0, failed |-> FALSE, fresh |-> FALSE, adds |-> 0]
InView == [NoRequest EXCEPT !.stage = "view"]

Init ==
    /\ now = 0 /\ up = FALSE
    /\ lastReset = NoTime /\ activity = NoTime /\ lastUpdate = NoTime
    /\ items = 0 /\ seed = "none"
    /\ lock = Nobody /\ depth = [w \in Workers |-> 0]
    /\ req = [w \in Workers |-> NoRequest]
    /\ handled = NoTime
    /\ faults = 0 /\ restarts = 0

At(w, stage) == req[w].stage = stage
Moves(w, r) == req' = [req EXCEPT ![w] = r]

\* Time passes unless a reading would become older than MaxLag.
Tick ==
    /\ now < MaxTime
    /\ \A w \in Workers : At(w, "idle") \/ At(w, "view") \/ At(w, "writing") \/ now < req[w].at + MaxLag
    /\ now' = now + 1
    /\ UNCHANGED <<up, state, data, lock, depth, req, handled, faults, restarts>>

-----------------------------------------------------------------------------
(* The middleware. *)

\* A mutant: without the interval that the recorded activity may trail.
IsDueOnceIdle(at) ==
    \/ lastReset = NoTime
    \/ /\ activity = NoTime \/ at - activity >= Idle
       /\ at - lastReset >= MinInterval

\* is_reset_due; no reset is recorded before the one of the first boot.
IsDue(at) ==
    \/ lastReset = NoTime
    \/ /\ activity = NoTime \/ at - activity >= Idle + WriteInterval
       /\ at - lastReset >= MinInterval

\* A mutant: the first look is enough.
IsDueAnyway(at) == TRUE

\* A mutant: the second look asks for twice the interval.
IsStillDueLater(at) == IsDue(at) /\ at - lastReset >= 2 * MinInterval

\* perform_reset, for the second time under the lock.
IsStillDue(at) == IsDue(at)

Arrive(w) ==
    /\ up /\ At(w, "idle")
    /\ Moves(w, [NoRequest EXCEPT !.stage = "arrived", !.at = now])
    /\ UNCHANGED <<now, up, state, data, lock, depth, handled, faults, restarts>>

\* A request goes to its view, and counts as handled from here on.
LetThrough(w) ==
    /\ Moves(w, InView)
    /\ handled' = IF handled < req[w].at THEN req[w].at ELSE handled

\* Activity is written when the one just read is WriteInterval old.
MustMark(at) == activity = NoTime \/ at - activity >= WriteInterval

MarkOrLetThrough(w) ==
    IF MustMark(req[w].at)
        THEN Moves(w, [req[w] EXCEPT !.stage = "marking"]) /\ UNCHANGED handled
        ELSE LetThrough(w)

Look(w) ==
    /\ At(w, "arrived")
    /\ IF IsDue(req[w].at)
         THEN Moves(w, [req[w] EXCEPT !.stage = "due"]) /\ UNCHANGED handled
         ELSE MarkOrLetThrough(w)
    /\ UNCHANGED <<now, up, state, data, lock, depth, faults, restarts>>

\* BEGIN IMMEDIATE, and the check that no other request was faster.
BeginReset(w) ==
    /\ At(w, "due") /\ lock = Nobody
    /\ IF IsStillDue(req[w].at)
         THEN /\ lock' = w /\ depth' = [depth EXCEPT ![w] = 1]
              /\ Moves(w, [req[w] EXCEPT !.stage = "resetting"])
         ELSE /\ Moves(w, [req[w] EXCEPT !.stage = "looked"])
              /\ UNCHANGED <<lock, depth>>
    /\ UNCHANGED <<now, up, state, data, handled, faults, restarts>>

\* _wipe, with all that visitors made, and _load_seed.
Wiped == items' = 0
Seeded == seed' = "seed"

\* The data of all requests on their way are the fresh ones from here on.
CommitReset(w) ==
    /\ At(w, "resetting")
    /\ lastReset' = req[w].at
    /\ Wiped /\ Seeded
    /\ lock' = Nobody /\ depth' = [depth EXCEPT ![w] = 0]
    /\ req' = [v \in Workers |->
                 IF v = w THEN [req[v] EXCEPT !.stage = "looked", !.fresh = TRUE]
                 ELSE IF At(v, "due") THEN [req[v] EXCEPT !.fresh = TRUE]
                 ELSE req[v]]
    /\ UNCHANGED <<now, up, activity, lastUpdate, handled, faults, restarts>>

\* The reset is rolled back, the exception logged, and the old data served.
FailReset(w) ==
    /\ At(w, "resetting")
    /\ faults < MaxFaults /\ faults' = faults + 1
    /\ lock' = Nobody /\ depth' = [depth EXCEPT ![w] = 0]
    /\ Moves(w, [req[w] EXCEPT !.stage = "looked", !.failed = TRUE])
    /\ UNCHANGED <<now, up, state, data, handled, restarts>>

\* The lock is not released in time: a failed reset for a request that is due.
WaitTimesOut(w) ==
    /\ At(w, "due") /\ lock # Nobody
    /\ Moves(w, [req[w] EXCEPT !.stage = "looked", !.failed = TRUE])
    /\ UNCHANGED <<now, up, state, data, lock, depth, handled, faults, restarts>>

\* The state is read again, and activity recorded.
LookAgain(w) ==
    /\ At(w, "looked")
    /\ MarkOrLetThrough(w)
    /\ UNCHANGED <<now, up, state, data, lock, depth, faults, restarts>>

Mark(w) ==
    /\ At(w, "marking") /\ lock = Nobody
    /\ activity' = req[w].at
    /\ LetThrough(w)
    /\ UNCHANGED <<now, up, lastReset, lastUpdate, data, lock, depth, faults, restarts>>

\* Nothing catches this one: the visitor gets an error page.
MarkTimesOut(w) ==
    /\ At(w, "marking") /\ lock # Nobody
    /\ Moves(w, NoRequest)
    /\ UNCHANGED <<now, up, state, data, lock, depth, handled, faults, restarts>>

-----------------------------------------------------------------------------
(* The views. *)

Leave(w) ==
    /\ At(w, "view")
    /\ Moves(w, NoRequest)
    /\ UNCHANGED <<now, up, state, data, lock, depth, handled, faults, restarts>>

\* A mutant: full is noticed one item late.
HasRoomStill(n) == items <= MaxItems

\* visitor_item_limit_reached counts; the items are inserted later.
HasRoom(n) == items + n <= MaxItems

Add(w) ==
    /\ At(w, "view")
    /\ \E n \in 1..MaxAdd :
         Moves(w, IF HasRoom(n) THEN [InView EXCEPT !.stage = "writing", !.adds = n] ELSE NoRequest)
    /\ UNCHANGED <<now, up, state, data, lock, depth, handled, faults, restarts>>

\* A mutant: the permission is one for the process.
SeedWritesAllowedToAll(w) == \E v \in Workers : depth[v] > 0

\* A write to a seed row that no view refused: the signal handlers ask the thread.
SeedWritesAllowed(w) == depth[w] > 0

TouchSeed(w) ==
    /\ At(w, "view")
    /\ Moves(w, IF SeedWritesAllowed(w) THEN [InView EXCEPT !.stage = "writing"] ELSE NoRequest)
    /\ UNCHANGED <<now, up, state, data, lock, depth, handled, faults, restarts>>

Write(w) ==
    /\ At(w, "writing") /\ lock = Nobody
    /\ items' = items + req[w].adds
    /\ seed' = IF req[w].adds = 0 THEN "edited" ELSE seed
    /\ Moves(w, NoRequest)
    /\ UNCHANGED <<now, up, state, lock, depth, handled, faults, restarts>>

\* claim_update_slot reads the time, then updates the row on a condition.
AskSlot(w) ==
    /\ At(w, "view")
    /\ Moves(w, [NoRequest EXCEPT !.stage = "claiming", !.at = now])
    /\ UNCHANGED <<now, up, state, data, lock, depth, handled, faults, restarts>>

\* The condition of the UPDATE.
SlotIsFree(at) == lastUpdate = NoTime \/ lastUpdate <= at - UpdateInterval

ClaimSlot(w) ==
    /\ At(w, "claiming") /\ lock = Nobody
    /\ lastUpdate' = IF SlotIsFree(req[w].at) THEN req[w].at ELSE lastUpdate
    /\ Moves(w, NoRequest)
    /\ UNCHANGED <<now, up, lastReset, activity, data, lock, depth, handled, faults, restarts>>

-----------------------------------------------------------------------------
(* The process. *)

\* Stopped or restarted: its requests and its transaction are gone.
Stop ==
    /\ up /\ restarts < MaxRestarts
    /\ up' = FALSE /\ restarts' = restarts + 1
    /\ req' = [w \in Workers |-> NoRequest]
    /\ lock' = Nobody /\ depth' = [w \in Workers |-> 0]
    /\ UNCHANGED <<now, state, data, handled, faults>>

\* The demo_reset command runs before the web server starts.
Boot ==
    /\ ~up /\ up' = TRUE
    /\ lastReset' = now
    /\ Wiped /\ Seeded
    /\ UNCHANGED <<now, activity, lastUpdate, lock, depth, req, handled, faults, restarts>>

Next ==
    \/ Tick \/ Stop \/ Boot
    \/ \E w \in Workers :
         \/ Arrive(w) \/ Look(w) \/ BeginReset(w) \/ CommitReset(w) \/ FailReset(w)
         \/ WaitTimesOut(w) \/ LookAgain(w) \/ Mark(w) \/ MarkTimesOut(w)
         \/ Leave(w) \/ Add(w) \/ TouchSeed(w) \/ Write(w) \/ AskSlot(w) \/ ClaimSlot(w)

Spec == Init /\ [][Next]_vars

-----------------------------------------------------------------------------
(* Properties. *)

Times == Nat \cup {NoTime}
ClockType == now \in Nat /\ up \in BOOLEAN /\ faults \in 0..MaxFaults /\ restarts \in 0..MaxRestarts
StateType == lastReset \in Times /\ activity \in Times /\ lastUpdate \in Times /\ handled \in Times
DataType == items \in Nat /\ seed \in {"none", "seed", "edited"}
LockType == lock \in Workers \cup {Nobody} /\ depth \in [Workers -> {0, 1}]
RequestType == req \in [Workers -> Request]
TypeOK == ClockType /\ StateType /\ DataType /\ LockType /\ RequestType

\* A reading is at most MaxLag old when it is used to write.
ReadingsAreRecent ==
    \A w \in Workers : /\ req[w].at <= now
                       /\ req[w].stage \notin {"idle", "view", "writing"} => now <= req[w].at + MaxLag

\* The lock is held by the one thread that resets, and only it may write seed rows.
LockIsHeld ==
    /\ \A w \in Workers : /\ At(w, "resetting") <=> lock = w
                          /\ depth[w] = 1 <=> lock = w
    /\ ~up => lock = Nobody /\ \A w \in Workers : At(w, "idle")

\* While the process serves, no visitor has changed a seed row, even by a write that
\* starts while another thread resets.
SeedIsIntact ==
    /\ up => seed = "seed"
    /\ \A w \in Workers : At(w, "writing") => req[w].adds > 0

\* What activity trails the latest handled request by, at most.
Trail == IF MaxLag > WriteInterval THEN MaxLag ELSE WriteInterval
ActivityTrails ==
    /\ handled <= now
    /\ handled # NoTime => activity # NoTime /\ activity >= handled - Trail
    /\ activity # NoTime => handled # NoTime /\ activity <= handled

\* A reset that runs is due by the reading it works with, and stays so: the lock keeps
\* everyone from writing what would make it untimely.
ResetIsDue ==
    \A w \in Workers : At(w, "resetting") =>
        /\ activity = NoTime \/ req[w].at - activity >= Idle + WriteInterval
        /\ req[w].at - lastReset >= MinInterval

\* Only a reset by another request comes between a request that is due and its own.
DueUntilReset ==
    \A w \in Workers : At(w, "due") => req[w].fresh \/ req[w].at - lastReset >= MinInterval

\* The invariant the proofs are built on: the recorded activity never trails what the
\* visitors did by more than Trail, though a slow request can move it back, the seed
\* is intact, and the lock and the permission to write seed rows go together.
IInv == /\ TypeOK /\ ReadingsAreRecent /\ LockIsHeld /\ SeedIsIntact
        /\ ActivityTrails /\ ResetIsDue /\ DueUntilReset
        /\ up => lastReset # NoTime

\* "A reset SHALL never occur while any request has been handled within the last
\* DEMO_RESET_IDLE_SECONDS" (demo-sandbox-reset/spec.md): from its check to its commit
\* a reset finds every handled request Idle old, less what a slow request may take
\* beyond the write interval.
NeverUnderActive ==
    \A w \in Workers : lock = w /\ handled # NoTime =>
        req[w].at - handled >= Idle + WriteInterval - Trail

\* However many requests arrive at once: resets of the running process are MinInterval
\* apart, and update runs UpdateInterval apart.
GatesHold ==
    [][/\ up /\ lastReset' # lastReset => lastReset' - lastReset >= MinInterval
       /\ lastUpdate # NoTime /\ lastUpdate' # lastUpdate => lastUpdate' - lastUpdate >= UpdateInterval]_vars

\* A request that found the reset due is served reset data, by its own reset or by
\* another's, unless the attempt failed or somebody turned out to be active.
FreshWhenDue ==
    \A w \in Workers : At(w, "looked") /\ ~req[w].failed =>
        req[w].fresh \/ handled > req[w].at - (Idle + WriteInterval)

\* Submissions counted at once can all pass, so the cap holds only up to what the other
\* threads add: the visitors never have more than that, reset or not.
CapsBounded ==
    items <= MaxItems + MaxAdd * (Cardinality(Workers) - 1)
=============================================================================

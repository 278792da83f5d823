------------------------------- MODULE FanOut -------------------------------
(***************************************************************************)
(* One price-update run of the tracker (one WebUpdate row), from its       *)
(* fan-out to the last unit: dispatch_fan_out creates the row and enqueues *)
(* one Huey task per planned ItemSource ("unit"); worker threads run       *)
(* fetch_one, which fetches, defers and requeues, or terminalizes the      *)
(* unit.  There is no transaction around fetch_one: every database         *)
(* statement and every Redis call is a step of its own.                    *)
(*                                                                         *)
(* Abstracted: what is fetched (see Pacer for when), the dedup result      *)
(* (a unit stores one batch of rows, or none), the six error statuses and  *)
(* the delay of a scheduled task (any delay is possible).                  *)
(***************************************************************************)
EXTENDS Naturals, FiniteSets

CONSTANTS
    Units,           \* ItemSource rows of active items
    Workers,         \* threads of the Huey consumer
    NoUnit,          \* the unit of an idle thread
    MaxAttempts,     \* RateLimitPolicy.max_defer_attempts
    StaleKeys,       \* lock keys that may already be held when the run starts
    MaxCrashes,      \* bound: process deaths, dispatcher or consumer
    MaxRedeliveries, \* bound: deliveries of a task that is already running
    MaxFaults,       \* bound: statements that raise
    MaxLostAcks,     \* bound: enqueues that raise although Redis applied them
    MaxRemovals,     \* bound: rows an operator deletes during the run
    MaxExpiries,     \* bound: lock keys whose TTL runs out
    MaxHazards       \* bound: all of these together

ASSUME ConstantsOK ==
    /\ IsFiniteSet(Units)
    /\ IsFiniteSet(Workers)
    /\ NoUnit \notin Units
    /\ MaxAttempts \in Nat
    /\ StaleKeys \subseteq Units
    /\ {MaxCrashes, MaxRedeliveries, MaxFaults, MaxLostAcks, MaxRemovals,
        MaxExpiries, MaxHazards} \subseteq Nat

VARIABLES
    \* the WebUpdate row, its FetchJob rows and its SearchResult rows
    plan, status, completed, resultCount, errorCount, job, rows,
    \* rows deleted by an operator: the ItemSource, or also its item or source
    removed, purged,
    \* Redis: the unit locks and the task queue (copies of each task)
    lock, queue,
    \* the dispatcher, and the Huey workers
    dpc, todo, dunit, worker,
    \* the run has reached max_run_wall_clock_seconds
    clockOut,
    \* history: units whose FetchJob was ever inserted
    recorded,
    \* environment steps left
    left

counters == <<completed, resultCount, errorCount>>
dbVars == <<plan, status, counters, job, rows, recorded>>
rowVars == <<removed, purged>>
dspVars == <<dpc, todo, dunit>>
sharedVars == <<dbVars, rowVars, lock, queue, dspVars, clockOut, left>>
vars == <<plan, status, completed, resultCount, errorCount, job, rows, recorded,
          removed, purged, lock, queue, dpc, todo, dunit, worker, clockOut, left>>

Attempts == 0 .. MaxAttempts
Outcomes == {"stored", "unchanged", "error"}
NoJob    == "none"
HasJob(u) == job[u] # NoJob

(* Where a worker stands in fetch_one: before its try block ...            *)
Entry == {"load", "check"}
(* ... in the requeue of a deferred unit, ...                              *)
Requeue == {"unlock", "relock", "schedule"}
(* ... or before one of terminalize's statements.                          *)
Terminal == {"exists", "insert", "store", "bump", "start", "count", "flip"}
Busy == Entry \cup Requeue \cup Terminal \cup {"fetch", "release"}

(* A worker: where it stands, its task, and the outcome it is to record    *)
(* with the part of fetch_one that called terminalize.                     *)
Worker == [pc : Busy, unit : Units, attempt : Attempts, outcome : Outcomes,
           caller : {"unit", "except", "giveup"}]
Idle == [pc |-> "idle", unit |-> NoUnit, attempt |-> 0, outcome |-> "error",
         caller |-> "unit"]

Statuses == {"none", "pending", "running", "done", "failed"}
DispatcherStates == {"idle", "empty", "loop", "push", "fail", "finished", "dead"}
Hazards == {"crash", "redeliver", "fault", "lostack", "remove", "expire", "any"}
Limit == [h \in Hazards |-> CASE h = "crash"     -> MaxCrashes
                              [] h = "redeliver" -> MaxRedeliveries
                              [] h = "fault"     -> MaxFaults
                              [] h = "lostack"   -> MaxLostAcks
                              [] h = "remove"    -> MaxRemovals
                              [] h = "expire"    -> MaxExpiries
                              [] h = "any"       -> MaxHazards]

Spend(h) == /\ left[h] > 0
            /\ left["any"] > 0
            /\ left' = [left EXCEPT ![h] = @ - 1, !["any"] = @ - 1]

EmptyQueue == [u \in Units |-> [a \in Attempts |-> 0]]
Enqueued(u, a) == [queue EXCEPT ![u][a] = @ + 1]

Init ==
    /\ plan = {} /\ status = "none"
    /\ completed = 0 /\ resultCount = 0 /\ errorCount = 0
    /\ job = [u \in Units |-> NoJob]
    /\ rows = [u \in Units |-> 0]
    /\ recorded = {}
    /\ removed = {} /\ purged = {}
    /\ lock \in SUBSET StaleKeys
    /\ queue = EmptyQueue
    /\ dpc = "idle" /\ todo = {} /\ dunit = NoUnit
    /\ worker = [w \in Workers |-> Idle]
    /\ clockOut = FALSE
    /\ left = Limit
-----------------------------------------------------------------------------
(* dispatch_fan_out *)

(* WebUpdate.objects.create with the planned item sources. *)
CreateRun ==
    /\ dpc = "idle"
    /\ \E P \in SUBSET (Units \ removed) :
          /\ plan' = P
          /\ todo' = P
          /\ dpc' = IF P = {} THEN "empty" ELSE "loop"
    /\ status' = "pending"
    /\ UNCHANGED <<counters, job, rows, recorded, rowVars, lock, queue, dunit, worker, clockOut, left>>

(* Nothing to fan out to: the run is saved as done at once. *)
CloseEmptyRun ==
    /\ dpc = "empty"
    /\ status' = "done"
    /\ dpc' = "finished"
    /\ UNCHANGED <<plan, counters, job, rows, recorded, rowVars, lock, queue, todo, dunit, worker, clockOut, left>>

(* SET NX of the next unit's key; a held key skips the unit. *)
LockUnit(u) ==
    /\ dpc = "loop"
    /\ u \in todo
    /\ \/ /\ u \notin lock
          /\ lock' = lock \cup {u}
          /\ dunit' = u
          /\ dpc' = "push"
          /\ UNCHANGED todo
       \/ /\ u \in lock
          /\ todo' = todo \ {u}
          /\ UNCHANGED <<lock, dunit, dpc>>
    /\ UNCHANGED <<dbVars, rowVars, queue, worker, clockOut, left>>

(* fetch_one(webupdate.pk, item_source_id, attempt=0) enqueues the task. *)
PushUnit ==
    /\ dpc = "push"
    /\ queue' = Enqueued(dunit, 0)
    /\ todo' = todo \ {dunit}
    /\ dunit' = NoUnit
    /\ dpc' = "loop"
    /\ UNCHANGED <<dbVars, rowVars, lock, worker, clockOut, left>>

(* The lock call or the enqueue raises: the loop ends.  An enqueue whose   *)
(* reply is lost raises although the task is in the queue.                 *)
DispatchRaises ==
    /\ \/ dpc = "push"
       \/ dpc = "loop" /\ todo # {}
    /\ dpc' = "fail"
    /\ \/ Spend("fault") /\ UNCHANGED queue
       \/ dpc = "push" /\ Spend("lostack") /\ queue' = Enqueued(dunit, 0)
    /\ UNCHANGED <<dbVars, rowVars, lock, todo, dunit, worker, clockOut>>

(* The except clause: an unconditional update to FAILED. *)
MarkFailed ==
    /\ dpc = "fail"
    /\ status' = "failed"
    /\ dpc' = "finished"
    /\ UNCHANGED <<plan, counters, job, rows, recorded, rowVars, lock, queue, todo, dunit, worker, clockOut, left>>

FinishDispatch ==
    /\ dpc = "loop"
    /\ todo = {}
    /\ dpc' = "finished"
    /\ UNCHANGED <<dbVars, rowVars, lock, queue, todo, dunit, worker, clockOut, left>>

Dispatcher ==
    \/ CreateRun \/ CloseEmptyRun \/ PushUnit \/ MarkFailed \/ FinishDispatch
    \/ \E u \in Units : LockUnit(u)
-----------------------------------------------------------------------------
(* fetch_one, up to the outcome of fetch_one_unit *)

Goto(w, label) == worker' = [worker EXCEPT ![w].pc = label]

(* Enter terminalize with outcome o, on behalf of part c of fetch_one. *)
Terminalize(w, o, c) ==
    worker' = [worker EXCEPT ![w] = [@ EXCEPT !.pc = "exists", !.outcome = o,
                                              !.caller = c]]

(* A worker takes any queued task: the order of delivery is not fixed. *)
Receive(w, u, a) ==
    /\ worker[w].pc = "idle"
    /\ queue[u][a] > 0
    /\ queue' = [queue EXCEPT ![u][a] = @ - 1]
    /\ worker' = [worker EXCEPT ![w] = [Idle EXCEPT !.pc = "load", !.unit = u,
                                                    !.attempt = a]]
    /\ UNCHANGED <<dbVars, rowVars, lock, dspVars, clockOut, left>>

(* ItemSource.objects.get: a deleted row ends the task with its lock only. *)
LoadUnit(w) ==
    /\ worker[w].pc = "load"
    /\ Goto(w, IF worker[w].unit \in removed THEN "release" ELSE "check")
    /\ UNCHANGED sharedVars

(* Idempotent start: a unit that has its FetchJob is not fetched again. *)
CheckJob(w) ==
    /\ worker[w].pc = "check"
    /\ Goto(w, IF HasJob(worker[w].unit) THEN "release" ELSE "fetch")
    /\ UNCHANGED sharedVars

(* fetch_one_unit terminalizes the unit, or raises: the except clause then *)
(* terminalizes it as an error.                                            *)
FetchEnds(w) ==
    /\ worker[w].pc = "fetch"
    /\ \/ \E o \in Outcomes : Terminalize(w, o, "unit")
       \/ Terminalize(w, "error", "except")
    /\ UNCHANGED sharedVars

(* The pacer deferred without a useful eta, or the attempts or the run's   *)
(* wall clock are used up: terminalized outside the inner try.             *)
GiveUp(w) ==
    /\ worker[w].pc = "fetch"
    /\ Terminalize(w, "error", "giveup")
    /\ UNCHANGED sharedVars

ShouldGiveUp(w) == worker[w].attempt >= MaxAttempts \/ clockOut

(* The pacer deferred with an eta. *)
FetchDefers(w) ==
    /\ worker[w].pc = "fetch"
    /\ ~ShouldGiveUp(w)
    /\ Goto(w, "unlock")
    /\ UNCHANGED sharedVars

(* Mutant: the key is not released before it is taken again. *)
UnlockKeepsKey(w) ==
    /\ worker[w].pc = "unlock"
    /\ Goto(w, "relock")
    /\ UNCHANGED sharedVars

(* Requeue: release the key, take it again, schedule the next attempt. *)
Unlock(w) ==
    /\ worker[w].pc = "unlock"
    /\ lock' = lock \ {worker[w].unit}
    /\ Goto(w, "relock")
    /\ UNCHANGED <<dbVars, rowVars, queue, dspVars, clockOut, left>>

Relock(w) ==
    /\ worker[w].pc = "relock"
    /\ lock' = lock \cup {worker[w].unit}
    /\ Goto(w, IF worker[w].unit \in lock THEN "release" ELSE "schedule")
    /\ UNCHANGED <<dbVars, rowVars, queue, dspVars, clockOut, left>>

Schedule(w) ==
    /\ worker[w].pc = "schedule"
    /\ queue' = Enqueued(worker[w].unit, worker[w].attempt + 1)
    /\ Goto(w, "release")
    /\ UNCHANGED <<dbVars, rowVars, lock, dspVars, clockOut, left>>

(* Mutant: the thread is idle again but keeps its task. *)
ReleaseKeepsTask(w) ==
    /\ worker[w].pc = "release"
    /\ lock' = lock \ {worker[w].unit}
    /\ Goto(w, "idle")
    /\ UNCHANGED <<dbVars, rowVars, queue, dspVars, clockOut, left>>

(* The finally clause, and the early returns: delete the key, whoever      *)
(* holds it.                                                               *)
Release(w) ==
    /\ worker[w].pc = "release"
    /\ lock' = lock \ {worker[w].unit}
    /\ worker' = [worker EXCEPT ![w] = Idle]
    /\ UNCHANGED <<dbVars, rowVars, queue, dspVars, clockOut, left>>
-----------------------------------------------------------------------------
(* terminalize *)

(* An exception inside terminalize: raised by fetch_one_unit it is caught  *)
(* once and the unit terminalized again as an error; otherwise it leaves   *)
(* fetch_one through its finally clause.                                   *)
Raise(w) ==
    IF worker[w].caller = "unit" THEN Terminalize(w, "error", "except")
                                 ELSE Goto(w, "release")

FindJob(w) ==
    /\ worker[w].pc = "exists"
    /\ Goto(w, IF HasJob(worker[w].unit) THEN "release" ELSE "insert")
    /\ UNCHANGED sharedVars

(* Mutant: no unique constraint, so only the pre-check guards the insert. *)
InsertJobUnconstrained(w) ==
    LET u == worker[w].unit IN
    /\ worker[w].pc = "insert"
    /\ \/ u \in purged /\ Raise(w) /\ UNCHANGED <<job, recorded>>
       \/ /\ u \notin purged
          /\ job' = [job EXCEPT ![u] = worker[w].outcome]
          /\ recorded' = recorded \cup {u}
          /\ Goto(w, IF worker[w].outcome = "stored" THEN "store" ELSE "bump")
    /\ UNCHANGED <<plan, status, counters, rows, rowVars, lock, queue, dspVars,
                   clockOut, left>>

(* Mutant: losing the race is not treated as a no-op, the unit is counted. *)
InsertJobCountsLoser(w) ==
    LET u == worker[w].unit IN
    /\ worker[w].pc = "insert"
    /\ u \notin purged
    /\ job' = [job EXCEPT ![u] = IF HasJob(u) THEN @ ELSE worker[w].outcome]
    /\ recorded' = recorded \cup {u}
    /\ Goto(w, "bump")
    /\ UNCHANGED <<plan, status, counters, rows, rowVars, lock, queue, dspVars,
                   clockOut, left>>

(* FetchJob insert.  The unique constraint turns a lost race into a no-op; *)
(* a deleted item or source breaks the foreign key, and looking up the     *)
(* "existing" row then raises.                                             *)
InsertJob(w) ==
    LET u == worker[w].unit IN
    /\ worker[w].pc = "insert"
    /\ \/ /\ HasJob(u)
          /\ Goto(w, "release")
          /\ UNCHANGED <<job, recorded>>
       \/ /\ ~HasJob(u)
          /\ u \in purged
          /\ Raise(w)
          /\ UNCHANGED <<job, recorded>>
       \/ /\ ~HasJob(u)
          /\ u \notin purged
          /\ job' = [job EXCEPT ![u] = worker[w].outcome]
          /\ recorded' = recorded \cup {u}
          /\ Goto(w, IF worker[w].outcome = "stored" THEN "store" ELSE "bump")
    /\ UNCHANGED <<plan, status, counters, rows, rowVars, lock, queue, dspVars,
                   clockOut, left>>

(* bulk_create of the surviving SearchResult rows. *)
StoreRows(w) ==
    LET u == worker[w].unit IN
    /\ worker[w].pc = "store"
    /\ \/ /\ u \in purged
          /\ Raise(w)
          /\ UNCHANGED rows
       \/ /\ u \notin purged
          /\ rows' = [rows EXCEPT ![u] = @ + 1]
          /\ Goto(w, "bump")
    /\ UNCHANGED <<plan, status, counters, job, recorded, rowVars, lock, queue,
                   dspVars, clockOut, left>>

(* One UPDATE with F() expressions. *)
BumpCounters(w) ==
    /\ worker[w].pc = "bump"
    /\ completed' = completed + 1
    /\ resultCount' = resultCount + (IF worker[w].outcome = "stored" THEN 1 ELSE 0)
    /\ errorCount' = errorCount + (IF worker[w].outcome = "error" THEN 1 ELSE 0)
    /\ Goto(w, "start")
    /\ UNCHANGED <<plan, status, job, rows, recorded, rowVars, lock, queue, dspVars,
                   clockOut, left>>

(* Mutant: the status is assigned, not compared first. *)
StartRunAlways(w) ==
    /\ worker[w].pc = "start"
    /\ status' = "running"
    /\ Goto(w, "count")
    /\ UNCHANGED <<plan, counters, job, rows, recorded, rowVars, lock, queue, dspVars,
                   clockOut, left>>

(* Compare-and-set PENDING -> RUNNING. *)
StartRun(w) ==
    /\ worker[w].pc = "start"
    /\ status' = IF status = "pending" THEN "running" ELSE status
    /\ Goto(w, "count")
    /\ UNCHANGED <<plan, counters, job, rows, recorded, rowVars, lock, queue, dspVars,
                   clockOut, left>>

JobRows == {u \in Units : HasJob(u)}
Total   == Cardinality(plan)

(* Mutant: the last unit is not waited for. *)
CountJobsEarly(w) ==
    /\ worker[w].pc = "count"
    /\ Goto(w, IF Cardinality(JobRows) + 1 >= Total THEN "flip" ELSE "release")
    /\ UNCHANGED sharedVars

(* Mutant: a strict comparison. *)
CountJobsStrict(w) ==
    /\ worker[w].pc = "count"
    /\ Goto(w, IF Cardinality(JobRows) > Total THEN "flip" ELSE "release")
    /\ UNCHANGED sharedVars

(* FetchJob.objects.filter(webupdate_id=...).count() against the total. *)
CountJobs(w) ==
    /\ worker[w].pc = "count"
    /\ Goto(w, IF Cardinality(JobRows) >= Total THEN "flip" ELSE "release")
    /\ UNCHANGED sharedVars

(* Mutant: done whatever the status was. *)
CloseRunAlways(w) ==
    /\ worker[w].pc = "flip"
    /\ status' = "done"
    /\ Goto(w, "release")
    /\ UNCHANGED <<plan, counters, job, rows, recorded, rowVars, lock, queue, dspVars,
                   clockOut, left>>

(* Compare-and-set RUNNING -> DONE. *)
CloseRun(w) ==
    /\ worker[w].pc = "flip"
    /\ status' = IF status = "running" THEN "done" ELSE status
    /\ Goto(w, "release")
    /\ UNCHANGED <<plan, counters, job, rows, recorded, rowVars, lock, queue, dspVars,
                   clockOut, left>>

WorkerStep(w) ==
    \/ LoadUnit(w) \/ CheckJob(w) \/ FetchEnds(w) \/ GiveUp(w) \/ FetchDefers(w)
    \/ Unlock(w) \/ Relock(w) \/ Schedule(w) \/ Release(w)
    \/ FindJob(w) \/ InsertJob(w) \/ StoreRows(w) \/ BumpCounters(w)
    \/ StartRun(w) \/ CountJobs(w) \/ CloseRun(w)
-----------------------------------------------------------------------------
(* The environment *)

(* A statement raises: the database connection or Redis is lost, or SQLite *)
(* is locked.  Before the try block, and in the release itself, the task   *)
(* dies with its key still held; in the requeue the follow-up is lost.     *)
StatementFails(w) ==
    /\ Spend("fault")
    /\ \/ /\ worker[w].pc \in Entry \cup {"release"}
          /\ worker' = [worker EXCEPT ![w] = Idle]
       \/ /\ worker[w].pc \in Requeue
          /\ Goto(w, "release")
       \/ /\ worker[w].pc \in Terminal
          /\ Raise(w)
    /\ UNCHANGED <<dbVars, rowVars, lock, queue, dspVars, clockOut>>

(* The queue hands a running task out a second time. *)
Redeliver(w) ==
    /\ worker[w].pc # "idle"
    /\ Spend("redeliver")
    /\ queue' = Enqueued(worker[w].unit, worker[w].attempt)
    /\ UNCHANGED <<dbVars, rowVars, lock, dspVars, worker, clockOut>>

(* The consumer process dies: its running tasks are lost, the keys stay. *)
ConsumerDies ==
    /\ \E w \in Workers : worker[w].pc # "idle"
    /\ Spend("crash")
    /\ worker' = [w \in Workers |-> Idle]
    /\ UNCHANGED <<dbVars, rowVars, lock, queue, dspVars, clockOut>>

DispatcherDies ==
    /\ dpc \in {"empty", "loop", "push", "fail"}
    /\ Spend("crash")
    /\ dpc' = "dead"
    /\ UNCHANGED <<dbVars, rowVars, lock, queue, todo, dunit, worker, clockOut>>

(* The key's TTL runs out; a fetch or a queue delay can outlast it. *)
LockExpires(u) ==
    /\ u \in lock
    /\ Spend("expire")
    /\ lock' = lock \ {u}
    /\ UNCHANGED <<dbVars, rowVars, queue, dspVars, worker, clockOut>>

WallClockPasses ==
    /\ status # "none"
    /\ ~clockOut
    /\ clockOut' = TRUE
    /\ UNCHANGED <<dbVars, rowVars, lock, queue, dspVars, worker, left>>

(* ItemSourceDeleteView. *)
RemoveItemSource(u) ==
    /\ u \notin removed
    /\ Spend("remove")
    /\ removed' = removed \cup {u}
    /\ UNCHANGED <<dbVars, purged, lock, queue, dspVars, worker, clockOut>>

(* The unit's source or item is deleted: the cascade takes the ItemSource, *)
(* the FetchJob and the SearchResult rows with it.                         *)
PurgeOwner(u) ==
    /\ u \notin purged
    /\ Spend("remove")
    /\ removed' = removed \cup {u}
    /\ purged' = purged \cup {u}
    /\ job' = [job EXCEPT ![u] = NoJob]
    /\ rows' = [rows EXCEPT ![u] = 0]
    /\ UNCHANGED <<plan, status, counters, recorded, lock, queue, dspVars, worker, clockOut>>

Environment ==
    \/ DispatchRaises \/ DispatcherDies \/ ConsumerDies \/ WallClockPasses
    \/ \E w \in Workers : StatementFails(w) \/ Redeliver(w)
    \/ \E u \in Units : LockExpires(u) \/ RemoveItemSource(u) \/ PurgeOwner(u)
-----------------------------------------------------------------------------
Next ==
    \/ Dispatcher
    \/ \E w \in Workers, u \in Units, a \in Attempts : Receive(w, u, a)
    \/ \E w \in Workers : WorkerStep(w)
    \/ Environment

Spec == Init /\ [][Next]_vars

(* The dispatcher is not suspended for ever, a consumer thread keeps       *)
(* executing the task it has, and an idle one takes queued tasks: Huey's   *)
(* threads poll the queue in a loop.  Nothing is assumed of the            *)
(* environment.                                                            *)
Fairness ==
    /\ WF_vars(Dispatcher)
    /\ WF_vars(\E w \in Workers, u \in Units, a \in Attempts : Receive(w, u, a))
    /\ \A w \in Workers : WF_vars(WorkerStep(w))

FairSpec == Spec /\ Fairness
-----------------------------------------------------------------------------
(* Properties *)

(* Type invariant: the ranges of the WebUpdate, FetchJob and SearchResult  *)
(* columns, of the Redis keys and of a thread's position in fetch_one.     *)
TypeOK ==
    /\ plan \in SUBSET Units /\ recorded \in SUBSET Units
    /\ status \in Statuses
    /\ completed \in Nat /\ resultCount \in Nat /\ errorCount \in Nat
    /\ job \in [Units -> Outcomes \cup {NoJob}]
    /\ rows \in [Units -> Nat]
    /\ removed \in SUBSET Units /\ purged \in SUBSET removed
    /\ lock \in SUBSET Units
    /\ queue \in [Units -> [Attempts -> Nat]]
    /\ dpc \in DispatcherStates
    /\ todo \in SUBSET plan
    /\ dunit \in Units \cup {NoUnit}
    /\ worker \in [Workers -> Worker \cup {Idle}]
    /\ clockOut \in BOOLEAN
    /\ left \in [Hazards -> Nat]

(* Duplicate deliveries, lost races, retries after an exception, crashes   *)
(* and deletions never make the progress counter pass the number of units  *)
(* that were recorded, nor the recorded units the planned ones: the        *)
(* progress bar stays within completed_searches <= total_searches.         *)
NoDoubleCount ==
    /\ completed <= Cardinality(recorded)
    /\ recorded \subseteq plan

(* However often a unit is delivered, at most one batch of SearchResult    *)
(* rows is stored for it, and only under a FetchJob that says so.          *)
StoredOnce ==
    \A u \in Units : /\ rows[u] <= 1
                     /\ rows[u] = 1 => job[u] = "stored"

(* A run is only ever marked done when every planned unit has had its      *)
(* terminal FetchJob (deleting the owner later may take the row away).     *)
DoneMeansRecorded == status = "done" => recorded = plan

(* The inductive strengthening of the two invariants above.  Work exists   *)
(* only for planned units; ...                                             *)
Planned ==
    /\ recorded \subseteq plan
    /\ \A u \in Units, a \in Attempts : queue[u][a] > 0 => u \in plan
    /\ \A w \in Workers : worker[w].pc # "idle" => worker[w].unit \in plan
    /\ dpc = "push" => dunit \in plan

(* ... a recorded unit is counted, or between its insert and its count in  *)
(* one worker, or was lost there, and its row is gone only with its owner; *)
InFlight == {w \in Workers : worker[w].pc \in {"store", "bump"}}
Accounted ==
    /\ completed + Cardinality(InFlight) <= Cardinality(recorded)
    /\ \A u \in Units : HasJob(u) => u \in recorded
    /\ \A u \in recorded : HasJob(u) \/ u \in purged

(* ... a worker past its insert has a recorded unit, one about to close    *)
(* the run has seen the FetchJob of every unit;                            *)
Recorded == {"store", "bump", "start", "count", "flip"}
Closing ==
    /\ \A w \in Workers : worker[w].pc \in Recorded => worker[w].unit \in recorded
    /\ \A w \in Workers : worker[w].pc = "flip" => recorded = plan
    /\ DoneMeansRecorded

(* ... and the row exists once the dispatcher has started.                 *)
Staged ==
    /\ dpc = "idle" <=> status = "none"
    /\ dpc \in {"idle", "empty"} => plan = {}
    /\ dpc = "empty" => status = "pending"

Consistent == Planned /\ Accounted /\ Closing /\ Staged
IInv == TypeOK /\ Consistent

(* A run whose fan-out failed stays failed: the units that were already    *)
(* enqueued keep terminalizing, but their compare-and-sets do not revive   *)
(* the run.                                                                *)
FailedIsFinal == [][status = "failed" => status' = "failed"]_vars

(* A done run stays done (no enqueue reply is lost): late duplicates of    *)
(* its units, and a fan-out that fails on a later unit, cannot reopen it.  *)
DoneIsFinal == [][status = "done" => status' = "done"]_vars

(* The WebUpdate row behaves as the barrier of RunBarrier.                 *)
Barrier == INSTANCE RunBarrier WITH
    Units <- Units, plan <- plan, status <- status, recorded <- recorded, completed <- completed
Implements == Barrier!Spec

(* Without crashes, failing statements or deletions, a unit that the       *)
(* dispatcher has handled and that has no FetchJob is still queued or in a *)
(* worker, although concurrent duplicates release and take each other's    *)
(* keys while they requeue.                                                *)
NoUnitLost ==
    \A u \in plan \ todo :
        \/ HasJob(u)
        \/ \E a \in Attempts : queue[u][a] > 0
        \/ \E w \in Workers : worker[w].unit = u

(* When such a run has come to rest it is done, and its three counters are *)
(* exactly what its FetchJob and SearchResult rows add up to.              *)
Quiescent ==
    /\ dpc = "finished"
    /\ queue = EmptyQueue
    /\ worker = [w \in Workers |-> Idle]
CountersExact ==
    Quiescent =>
        /\ status = "done"
        /\ completed = Total
        /\ resultCount = Cardinality({u \in plan : job[u] = "stored"})
        /\ resultCount = Cardinality({u \in plan : rows[u] = 1})
        /\ errorCount = Cardinality({u \in plan : job[u] = "error"})

(* Every run is closed in the end: retries are bounded by attempts and     *)
(* wall clock, and the last unit flips the status.                         *)
RunCloses == (dpc = "finished") ~> (status \in {"done", "failed"})

(* terminalize's docstring: recording the Nth terminal FetchJob of a run   *)
(* makes it done; no sweeper is needed.                                    *)
LastJobCloses == (plan # {} /\ recorded = plan) ~> (status \in {"done", "failed"})
=============================================================================

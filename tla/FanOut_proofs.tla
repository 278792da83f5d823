--------------------------- MODULE FanOut_proofs ---------------------------
(***************************************************************************)
(* Proofs about FanOut, for any finite sets of units and workers and any   *)
(* bounds: type correctness, the accounting of the run, that FanOut        *)
(* implements RunBarrier, that a done run stays done, and, for the runs    *)
(* whose process does not die and whose statements do not fail, that no    *)
(* unit is lost and the counters are exact in the end.                     *)
(***************************************************************************)
EXTENDS FanOut, FiniteSetTheorems, TLAPS

(* A worker that has a task is a Worker record; an idle one is Idle.       *)
LEMMA BusyIsWorker ==
    ASSUME TypeOK, NEW w \in Workers, worker[w].pc # "idle"
    PROVE  worker[w] \in Worker
BY DEF TypeOK, Idle

(* Moving a busy thread to another position of fetch_one keeps the type.   *)
LEMMA GotoType ==
    ASSUME TypeOK, NEW w \in Workers, worker[w].pc # "idle",
           NEW label \in Busy, Goto(w, label)
    PROVE  worker' \in [Workers -> Worker \cup {Idle}]
<1>1. worker[w] \in Worker
  BY BusyIsWorker
<1>2. [worker[w] EXCEPT !.pc = label] \in Worker
  BY <1>1 DEF Worker
<1>3. worker' = [worker EXCEPT ![w] = [worker[w] EXCEPT !.pc = label]]
  BY DEF Goto
<1> QED
  BY <1>2, <1>3 DEF TypeOK

(* Entering terminalize keeps the type.                                    *)
LEMMA TerminalizeType ==
    ASSUME TypeOK, NEW w \in Workers, worker[w].pc # "idle",
           NEW o \in Outcomes, NEW c \in {"unit", "except", "giveup"},
           Terminalize(w, o, c)
    PROVE  worker' \in [Workers -> Worker \cup {Idle}]
<1>1. worker[w] \in Worker
  BY BusyIsWorker
<1>2. [worker[w] EXCEPT !.pc = "exists", !.outcome = o, !.caller = c] \in Worker
  BY <1>1 DEF Worker, Busy, Terminal
<1> QED
  BY <1>2 DEF TypeOK, Terminalize

(* An exception inside terminalize keeps the type.                         *)
LEMMA RaiseType ==
    ASSUME TypeOK, NEW w \in Workers, worker[w].pc # "idle", Raise(w)
    PROVE  worker' \in [Workers -> Worker \cup {Idle}]
<1>1. CASE worker[w].caller = "unit"
  BY <1>1, TerminalizeType DEF Raise, Outcomes
<1>2. CASE worker[w].caller # "unit"
  BY <1>2, GotoType DEF Raise, Busy
<1> QED
  BY <1>1, <1>2

(* Adding a copy of a task keeps the type of the queue.                    *)
LEMMA EnqueuedType ==
    ASSUME TypeOK, NEW u, NEW a
    PROVE  Enqueued(u, a) \in [Units -> [Attempts -> Nat]]
<1>1. ASSUME NEW v \in Units PROVE Enqueued(u, a)[v] \in [Attempts -> Nat]
  <2>1. queue[v] \in [Attempts -> Nat]
    BY DEF TypeOK
  <2>2. [queue[v] EXCEPT ![a] = @ + 1] \in [Attempts -> Nat]
    <3>1. ASSUME NEW f0 \in [Attempts -> Nat]
          PROVE  [f0 EXCEPT ![a] = @ + 1] \in [Attempts -> Nat]
      <4>1. \A b \in Attempts : f0[b] \in Nat
        BY <3>1
      <4>2. [f0 EXCEPT ![a] = @ + 1]
              = [b \in Attempts |-> IF b = a THEN f0[b] + 1 ELSE f0[b]]
        BY <3>1
      <4>3. \A b \in Attempts : (IF b = a THEN f0[b] + 1 ELSE f0[b]) \in Nat
        BY <4>1
      <4> QED
        BY <4>2, <4>3
    <3> QED
      BY <2>1, <3>1
  <2>3. Enqueued(u, a)[v] = IF v = u THEN [queue[v] EXCEPT ![a] = @ + 1] ELSE queue[v]
    BY DEF Enqueued, TypeOK
  <2> QED
    BY <2>1, <2>2, <2>3
<1>2. Enqueued(u, a) = [v \in Units |-> Enqueued(u, a)[v]]
  BY DEF Enqueued, TypeOK
<1> QED
  BY <1>1, <1>2

LEMMA SpendType ==
    ASSUME TypeOK, NEW h \in Hazards \ {"any"}, Spend(h)
    PROVE  left' \in [Hazards -> Nat]
BY DEF TypeOK, Spend, Hazards

(* Type correctness of the fan-out, for every value of the constants.      *)
THEOREM TypeCorrect == Spec => []TypeOK
<1> USE DEF sharedVars, dbVars, counters, rowVars, dspVars
<1>1. Init => TypeOK
  <2> SUFFICES ASSUME Init PROVE TypeOK
    OBVIOUS
  <2>1. left \in [Hazards -> Nat]
    BY ConstantsOK DEF Init, Limit, Hazards
  <2>2. queue \in [Units -> [Attempts -> Nat]]
    BY DEF Init, EmptyQueue
  <2>3. worker \in [Workers -> Worker \cup {Idle}]
    BY DEF Init
  <2> QED
    BY <2>1, <2>2, <2>3, ConstantsOK DEF Init, TypeOK, Statuses, DispatcherStates, NoJob
<1>2. TypeOK /\ [Next]_vars => TypeOK'
  <2> SUFFICES ASSUME TypeOK, [Next]_vars PROVE TypeOK'
    OBVIOUS
  <2>1. CASE CreateRun
    BY <2>1 DEF CreateRun, TypeOK, Statuses, DispatcherStates
  <2>2. CASE CloseEmptyRun
    BY <2>2 DEF CloseEmptyRun, TypeOK, Statuses, DispatcherStates
  <2>3. CASE PushUnit
    BY <2>3, EnqueuedType DEF PushUnit, TypeOK, DispatcherStates
  <2>4. CASE MarkFailed
    BY <2>4 DEF MarkFailed, TypeOK, Statuses, DispatcherStates
  <2>5. CASE FinishDispatch
    BY <2>5 DEF FinishDispatch, TypeOK, DispatcherStates
  <2>6. ASSUME NEW u \in Units, LockUnit(u) PROVE TypeOK'
    BY <2>6 DEF LockUnit, TypeOK, DispatcherStates
  <2>7. ASSUME NEW w \in Workers, NEW u \in Units, NEW a \in Attempts, Receive(w, u, a)
        PROVE  TypeOK'
    <3>1. [Idle EXCEPT !.pc = "load", !.unit = u, !.attempt = a] \in Worker
      BY DEF Idle, Worker, Busy, Entry, Outcomes
    <3>2. queue' \in [Units -> [Attempts -> Nat]]
      BY <2>7 DEF Receive, TypeOK
    <3> QED
      BY <2>7, <3>1, <3>2 DEF Receive, TypeOK
  <2>8. ASSUME NEW w \in Workers, WorkerStep(w) PROVE TypeOK'
    <3> USE DEF Busy, Entry, Requeue, Terminal
    <3>1. CASE LoadUnit(w)
      BY <3>1, GotoType DEF LoadUnit, TypeOK
    <3>2. CASE CheckJob(w)
      BY <3>2, GotoType DEF CheckJob, TypeOK
    <3>3. CASE FetchEnds(w)
      BY <3>3, TerminalizeType DEF FetchEnds, TypeOK, Outcomes
    <3>4. CASE GiveUp(w)
      BY <3>4, TerminalizeType DEF GiveUp, TypeOK, Outcomes
    <3>5. CASE FetchDefers(w)
      BY <3>5, GotoType DEF FetchDefers, TypeOK
    <3>6. CASE Unlock(w)
      BY <3>6, GotoType DEF Unlock, TypeOK
    <3>7. CASE Relock(w)
      <4>1. worker[w].unit \in Units
        BY <3>7, BusyIsWorker DEF Relock, Worker
      <4> QED
        BY <3>7, <4>1, GotoType DEF Relock, TypeOK
    <3>8. CASE Schedule(w)
      BY <3>8, GotoType, EnqueuedType DEF Schedule, TypeOK
    <3>9. CASE Release(w)
      BY <3>9 DEF Release, TypeOK
    <3>10. CASE FindJob(w)
      BY <3>10, GotoType DEF FindJob, TypeOK
    <3>11. CASE InsertJob(w)
      <4>1. worker[w].unit \in Units /\ worker[w].outcome \in Outcomes
        BY <3>11, BusyIsWorker DEF InsertJob, Worker
      <4>2. worker' \in [Workers -> Worker \cup {Idle}]
        BY <3>11, GotoType, RaiseType DEF InsertJob
      <4> QED
        BY <3>11, <4>1, <4>2 DEF InsertJob, TypeOK
    <3>12. CASE StoreRows(w)
      <4>1. worker' \in [Workers -> Worker \cup {Idle}]
        BY <3>12, GotoType, RaiseType DEF StoreRows
      <4> QED
        BY <3>12, <4>1 DEF StoreRows, TypeOK
    <3>13. CASE BumpCounters(w)
      BY <3>13, GotoType DEF BumpCounters, TypeOK
    <3>14. CASE StartRun(w)
      BY <3>14, GotoType DEF StartRun, TypeOK, Statuses
    <3>15. CASE CountJobs(w)
      BY <3>15, GotoType DEF CountJobs, TypeOK
    <3>16. CASE CloseRun(w)
      BY <3>16, GotoType DEF CloseRun, TypeOK, Statuses
    <3> QED
      BY <2>8, <3>1, <3>2, <3>3, <3>4, <3>5, <3>6, <3>7, <3>8, <3>9, <3>10, <3>11,
         <3>12, <3>13, <3>14, <3>15, <3>16 DEF WorkerStep
  <2>9. CASE DispatchRaises
    BY <2>9, EnqueuedType, SpendType DEF DispatchRaises, TypeOK, DispatcherStates, Hazards
  <2>10. CASE DispatcherDies
    BY <2>10, SpendType DEF DispatcherDies, TypeOK, DispatcherStates, Hazards
  <2>11. CASE ConsumerDies
    BY <2>11, SpendType DEF ConsumerDies, TypeOK, Hazards
  <2>12. CASE WallClockPasses
    BY <2>12 DEF WallClockPasses, TypeOK
  <2>13. ASSUME NEW w \in Workers, StatementFails(w) PROVE TypeOK'
    <3>1. worker' \in [Workers -> Worker \cup {Idle}]
      <4>1. CASE worker' = [worker EXCEPT ![w] = Idle]
        BY <4>1 DEF TypeOK
      <4>2. CASE worker[w].pc \in Requeue /\ Goto(w, "release")
        BY <4>2, GotoType DEF Requeue, Busy
      <4>3. CASE worker[w].pc \in Terminal /\ Raise(w)
        BY <4>3, RaiseType DEF Terminal
      <4> QED
        BY <2>13, <4>1, <4>2, <4>3 DEF StatementFails
    <3> QED
      BY <2>13, <3>1, SpendType DEF StatementFails, TypeOK, Hazards
  <2>14. ASSUME NEW w \in Workers, Redeliver(w) PROVE TypeOK'
    BY <2>14, EnqueuedType, SpendType DEF Redeliver, TypeOK, Hazards
  <2>15. ASSUME NEW u \in Units, LockExpires(u) PROVE TypeOK'
    BY <2>15, SpendType DEF LockExpires, TypeOK, Hazards
  <2>16. ASSUME NEW u \in Units, RemoveItemSource(u) PROVE TypeOK'
    BY <2>16, SpendType DEF RemoveItemSource, TypeOK, Hazards
  <2>17. ASSUME NEW u \in Units, PurgeOwner(u) PROVE TypeOK'
    BY <2>17, SpendType DEF PurgeOwner, TypeOK, Hazards, NoJob
  <2>18. CASE UNCHANGED vars
    BY <2>18 DEF vars, TypeOK
  <2> QED
    BY <2>1, <2>2, <2>3, <2>4, <2>5, <2>6, <2>7, <2>8, <2>9, <2>10, <2>11, <2>12,
       <2>13, <2>14, <2>15, <2>16, <2>17, <2>18 DEF Next, Dispatcher, Environment
<1> QED
  BY <1>1, <1>2, PTL DEF Spec
-----------------------------------------------------------------------------
(* The sets counted by the accounting are finite.                          *)
LEMMA FiniteCounts ==
    ASSUME TypeOK
    PROVE  /\ IsFiniteSet(InFlight) /\ Cardinality(InFlight) \in Nat
           /\ IsFiniteSet(recorded) /\ Cardinality(recorded) \in Nat
           /\ IsFiniteSet(plan) /\ Cardinality(plan) \in Nat
<1>1. InFlight \in SUBSET Workers
  BY DEF InFlight
<1>2. recorded \in SUBSET Units /\ plan \in SUBSET Units
  BY DEF TypeOK
<1> QED
  BY <1>1, <1>2, ConstantsOK, FS_Subset, FS_CardinalityType

(* Only worker w moved.                                                    *)
OnlyMoves(w) == \A v \in Workers \ {w} : worker'[v] = worker[v]

(* Moving along fetch_one, entering terminalize and raising inside it move *)
(* one worker, which keeps its unit.                                       *)
LEMMA GotoMoves ==
    ASSUME TypeOK, NEW w \in Workers, worker[w].pc # "idle", NEW label, Goto(w, label)
    PROVE  OnlyMoves(w) /\ worker'[w].pc = label /\ worker'[w].unit = worker[w].unit
<1>1. worker[w] \in Worker /\ worker \in [Workers -> Worker \cup {Idle}]
  BY BusyIsWorker DEF TypeOK
<1> QED
  BY <1>1 DEF Goto, OnlyMoves, Worker

LEMMA TerminalizeMoves ==
    ASSUME TypeOK, NEW w \in Workers, worker[w].pc # "idle", NEW o, NEW c,
           Terminalize(w, o, c)
    PROVE  OnlyMoves(w) /\ worker'[w].pc = "exists" /\ worker'[w].unit = worker[w].unit
<1>1. worker[w] \in Worker /\ worker \in [Workers -> Worker \cup {Idle}]
  BY BusyIsWorker DEF TypeOK
<1> QED
  BY <1>1 DEF Terminalize, OnlyMoves, Worker

LEMMA RaiseMoves ==
    ASSUME TypeOK, NEW w \in Workers, worker[w].pc # "idle", Raise(w)
    PROVE  /\ OnlyMoves(w) /\ worker'[w].unit = worker[w].unit
           /\ worker'[w].pc \in {"release", "exists"}
BY GotoMoves, TerminalizeMoves DEF Raise

(* A worker that leaves, or stays outside, the window between insert and   *)
(* count does not raise the number of workers in it.                       *)
LEMMA LeavesWindow ==
    ASSUME TypeOK, NEW w \in Workers, OnlyMoves(w),
           worker'[w].pc \notin {"store", "bump"}
    PROVE  /\ InFlight' = InFlight \ {w}
           /\ Cardinality(InFlight') \in Nat
           /\ Cardinality(InFlight') =
                IF w \in InFlight THEN Cardinality(InFlight) - 1 ELSE Cardinality(InFlight)
<1>1. InFlight' = InFlight \ {w}
  BY DEF InFlight, OnlyMoves
<1>2. IsFiniteSet(InFlight) /\ Cardinality(InFlight) \in Nat
  BY FiniteCounts
<1>3. IsFiniteSet(InFlight \ {w})
      /\ Cardinality(InFlight \ {w}) =
           IF w \in InFlight THEN Cardinality(InFlight) - 1 ELSE Cardinality(InFlight)
  BY <1>2, FS_RemoveElement
<1>4. Cardinality(InFlight \ {w}) \in Nat
  BY <1>3, FS_CardinalityType
<1> QED
  BY <1>1, <1>3, <1>4

(* A worker that moves from one side of the window to the same side, or    *)
(* within it, leaves the set as it is.                                     *)
LEMMA StaysInWindow ==
    ASSUME TypeOK, NEW w \in Workers, OnlyMoves(w),
           worker'[w].pc \in {"store", "bump"}
    PROVE  /\ InFlight' = InFlight \cup {w}
           /\ Cardinality(InFlight') =
                IF w \in InFlight THEN Cardinality(InFlight) ELSE Cardinality(InFlight) + 1
<1>1. InFlight' = InFlight \cup {w}
  BY DEF InFlight, OnlyMoves
<1>2. IsFiniteSet(InFlight)
  BY FiniteCounts
<1> QED
  BY <1>1, <1>2, FS_AddElement

(* The part of the state the invariant reads besides the workers.          *)
invVars == <<plan, status, completed, job, recorded, purged, queue, dpc, dunit>>

(* A worker that steps outside terminalize's recorded part, with the same  *)
(* unit or none, preserves the invariant when it changes nothing else.     *)
LEMMA StepAside ==
    ASSUME TypeOK, Consistent, NEW w \in Workers, OnlyMoves(w), UNCHANGED invVars,
           worker'[w].pc \notin Recorded,
           worker'[w].pc = "idle" \/ (/\ worker[w].pc # "idle"
                                      /\ worker'[w].unit = worker[w].unit)
    PROVE  Consistent'
<1>1. Planned'
  BY DEF Consistent, Planned, invVars, OnlyMoves
<1>2. Accounted'
  <2>1. /\ Cardinality(InFlight') \in Nat
        /\ Cardinality(InFlight') <= Cardinality(InFlight)
    BY LeavesWindow, FiniteCounts DEF Recorded
  <2>2. completed \in Nat /\ Cardinality(recorded) \in Nat /\ Cardinality(InFlight) \in Nat
    BY FiniteCounts DEF TypeOK
  <2>3. completed' + Cardinality(InFlight') <= Cardinality(recorded')
    BY <2>1, <2>2 DEF Consistent, Accounted, invVars
  <2> QED
    BY <2>3 DEF Consistent, Accounted, invVars, HasJob
<1>3. Closing'
  BY DEF Consistent, Closing, Recorded, DoneMeansRecorded, invVars, OnlyMoves
<1>4. Staged'
  BY DEF Consistent, Staged, invVars
<1> QED
  BY <1>1, <1>2, <1>3, <1>4 DEF Consistent

(* A step that moves no worker and no counted row: what it must leave true *)
(* is only what it changes of the queue, the dispatcher and the status.    *)
LEMMA WorkersRest ==
    ASSUME TypeOK, Consistent, UNCHANGED <<plan, completed, recorded, worker>>,
           status' # "done" \/ status = "done",
           \A u \in Units : HasJob(u)' => HasJob(u),
           \A u \in recorded : HasJob(u) => HasJob(u)' \/ u \in purged',
           purged \subseteq purged'
    PROVE  Accounted' /\ Closing'
<1>1. InFlight' = InFlight
  BY DEF InFlight
<1>2. Accounted'
  BY <1>1 DEF Consistent, Accounted
<1>3. Closing'
  BY DEF Consistent, Closing, DoneMeansRecorded
<1> QED
  BY <1>2, <1>3

(* One more copy of a planned unit's task keeps the queue planned.         *)
LEMMA EnqueuePlanned ==
    ASSUME TypeOK, Consistent, NEW u \in plan, NEW a, queue' = Enqueued(u, a), plan' = plan
    PROVE  \A v \in Units, b \in Attempts : queue'[v][b] > 0 => v \in plan'
<1>1. ASSUME NEW v \in Units, NEW b \in Attempts, queue'[v][b] > 0, v # u
      PROVE  v \in plan
  <2>1. queue'[v] = queue[v]
    BY <1>1 DEF TypeOK, Enqueued
  <2> QED
    BY <1>1, <2>1 DEF Consistent, Planned
<1> QED
  BY <1>1

(* The invariant holds before the run.                                     *)
LEMMA InitIInv == Init => Consistent
<1> SUFFICES ASSUME Init PROVE Consistent
  OBVIOUS
<1>1. InFlight = {}
  BY DEF Init, InFlight, Idle
<1>2. Cardinality(InFlight) = 0 /\ Cardinality(recorded) = 0
  BY <1>1, FS_EmptySet DEF Init
<1>3. Planned
  BY DEF Init, Planned, EmptyQueue, Idle
<1>4. Accounted
  BY <1>2 DEF Init, Accounted, HasJob
<1>5. Closing
  BY DEF Init, Closing, Recorded, Idle, DoneMeansRecorded
<1>6. Staged
  BY DEF Init, Staged
<1> QED
  BY <1>3, <1>4, <1>5, <1>6 DEF Consistent

(* Each step of a worker preserves the invariant. *)
LEMMA WorkerKeepsIInv ==
    ASSUME TypeOK, Consistent, NEW w \in Workers, WorkerStep(w)
    PROVE  Consistent'
<1> USE DEF sharedVars, dbVars, counters, rowVars, dspVars
<1> DEFINE u == worker[w].unit
<1>0. worker[w].pc # "idle"
  BY DEF WorkerStep, LoadUnit, CheckJob, FetchEnds, GiveUp, FetchDefers, Unlock, Relock,
         Schedule, Release, FindJob, InsertJob, StoreRows, BumpCounters, StartRun,
         CountJobs, CloseRun
<1>t. worker \in [Workers -> Worker \cup {Idle}] /\ u \in Units
  BY <1>0, BusyIsWorker DEF TypeOK, Worker
<1>g. \A label : Goto(w, label) => OnlyMoves(w) /\ worker'[w].pc = label
                                   /\ worker'[w].unit = worker[w].unit
  BY <1>0, GotoMoves
<1>e. \A o, c : Terminalize(w, o, c) => OnlyMoves(w) /\ worker'[w].pc = "exists"
                                       /\ worker'[w].unit = worker[w].unit
  BY <1>0, TerminalizeMoves
<1>r. Raise(w) => /\ OnlyMoves(w) /\ worker'[w].unit = worker[w].unit
                  /\ worker'[w].pc \notin Recorded \cup {"idle"}
  BY <1>0, RaiseMoves DEF Recorded
<1>p. u \in plan
  BY <1>0, <1>t DEF Consistent, Planned
<1>1. CASE LoadUnit(w) \/ CheckJob(w) \/ FetchEnds(w) \/ GiveUp(w) \/ FetchDefers(w)
           \/ Unlock(w) \/ Relock(w) \/ FindJob(w)
  <2>1. OnlyMoves(w) /\ worker'[w].pc \notin Recorded /\ worker'[w].unit = worker[w].unit
    BY <1>1, <1>g, <1>e DEF LoadUnit, CheckJob, FetchEnds, GiveUp, FetchDefers, Unlock,
       Relock, FindJob, Recorded
  <2>2. UNCHANGED invVars
    BY <1>1 DEF LoadUnit, CheckJob, FetchEnds, GiveUp, FetchDefers, Unlock, Relock,
       FindJob, invVars
  <2> QED
    BY <1>0, <2>1, <2>2, StepAside
<1>2. CASE Release(w)
  <2>1. OnlyMoves(w) /\ worker'[w].pc = "idle"
    BY <1>2, <1>t DEF Release, OnlyMoves, Idle
  <2>2. UNCHANGED invVars
    BY <1>2 DEF Release, invVars
  <2> QED
    BY <2>1, <2>2, StepAside DEF Recorded
<1>3. CASE Schedule(w)
  <2>1. OnlyMoves(w) /\ worker'[w].pc = "release" /\ worker'[w].unit = u
    BY <1>3, <1>g DEF Schedule
  <2>2. Planned'
    <3>1. \A v \in Units, b \in Attempts : queue'[v][b] > 0 => v \in plan'
      BY <1>3, <1>p, EnqueuePlanned DEF Schedule
    <3> QED
      BY <1>3, <1>p, <2>1, <3>1 DEF Schedule, Consistent, Planned, OnlyMoves
  <2>3. InFlight' = InFlight
    BY <1>3, <2>1 DEF InFlight, OnlyMoves, Schedule
  <2>4. Accounted'
    BY <1>3, <2>3 DEF Schedule, Consistent, Accounted, HasJob
  <2>5. Closing' /\ Staged'
    BY <1>3, <2>1 DEF Schedule, Consistent, Closing, Recorded, DoneMeansRecorded, OnlyMoves, Staged
  <2> QED
    BY <2>2, <2>4, <2>5 DEF Consistent
<1>4. CASE InsertJob(w)
  <2>1. CASE UNCHANGED <<job, recorded>> /\ (Goto(w, "release") \/ Raise(w))
    <3>1. OnlyMoves(w) /\ worker'[w].pc \notin Recorded /\ worker'[w].unit = worker[w].unit
      BY <2>1, <1>g, <1>r DEF Recorded
    <3>2. UNCHANGED invVars
      BY <1>4, <2>1 DEF InsertJob, invVars
    <3> QED
      BY <1>0, <3>1, <3>2, StepAside
  <2>2. CASE /\ ~HasJob(u) /\ u \notin purged
             /\ job' = [job EXCEPT ![u] = worker[w].outcome]
             /\ recorded' = recorded \cup {u}
             /\ Goto(w, IF worker[w].outcome = "stored" THEN "store" ELSE "bump")
    <3>1. OnlyMoves(w) /\ worker'[w].unit = u /\ worker'[w].pc \in {"store", "bump"}
      BY <2>2, <1>g
    <3>2. u \notin recorded
      BY <2>2 DEF Consistent, Accounted
    <3>3. worker[w].pc = "insert" /\ w \notin InFlight
      BY <1>4 DEF InsertJob, InFlight
    <3>4. /\ Cardinality(recorded') = Cardinality(recorded) + 1
          /\ Cardinality(InFlight') = Cardinality(InFlight) + 1
      BY <2>2, <3>1, <3>2, <3>3, StaysInWindow, FiniteCounts, FS_AddElement
    <3>u. UNCHANGED <<plan, status, completed, purged, queue, dpc, dunit>>
      BY <1>4 DEF InsertJob
    <3>5. Planned'
      BY <1>p, <3>u, <3>1, <2>2 DEF Consistent, Planned, OnlyMoves
    <3>6. Accounted'
      <4>1. completed' + Cardinality(InFlight') <= Cardinality(recorded')
        BY <3>4, <3>u, FiniteCounts DEF Consistent, Accounted, TypeOK
      <4>o. worker[w].outcome \in Outcomes
        BY <1>0, BusyIsWorker DEF Worker
      <4>2. \A v \in Units : HasJob(v)' <=> HasJob(v) \/ v = u
        BY <2>2, <4>o DEF HasJob, TypeOK, Outcomes, NoJob
      <4> QED
        BY <4>1, <4>2, <3>u, <2>2, <1>t DEF Consistent, Accounted, TypeOK
    <3>7. Closing'
      BY <2>2, <3>1, <3>2, <3>u, <3>5, <1>p
         DEF Consistent, Closing, Recorded, DoneMeansRecorded, OnlyMoves
    <3>8. Staged'
      BY <3>u DEF Consistent, Staged
    <3> QED
      BY <3>5, <3>6, <3>7, <3>8 DEF Consistent
  <2> QED
    BY <1>4, <2>1, <2>2 DEF InsertJob
<1>5. CASE StoreRows(w)
  <2>1. CASE Raise(w)
    <3>1. UNCHANGED invVars
      BY <1>5 DEF StoreRows, invVars
    <3> QED
      BY <1>0, <2>1, <1>r, <3>1, StepAside
  <2>2. CASE Goto(w, "bump")
    <3>1. OnlyMoves(w) /\ worker'[w].unit = u /\ worker'[w].pc = "bump"
      BY <2>2, <1>g
    <3>2. UNCHANGED invVars
      BY <1>5 DEF StoreRows, invVars
    <3>3. InFlight' = InFlight
      BY <1>5, <3>1 DEF StoreRows, InFlight, OnlyMoves
    <3>4. Accounted'
      BY <3>2, <3>3 DEF invVars, Consistent, Accounted, HasJob
    <3>5. Planned' /\ Closing' /\ Staged'
      BY <1>5, <3>1, <3>2, <1>p DEF StoreRows, invVars, Consistent, Planned, Closing, Recorded,
         DoneMeansRecorded, Staged, OnlyMoves
    <3> QED
      BY <3>4, <3>5 DEF Consistent
  <2> QED
    BY <1>5, <2>1, <2>2 DEF StoreRows
<1>6. CASE BumpCounters(w)
  <2>1. OnlyMoves(w) /\ worker'[w].unit = u /\ worker'[w].pc = "start"
    BY <1>6, <1>g DEF BumpCounters
  <2>2. w \in InFlight
    BY <1>6 DEF BumpCounters, InFlight
  <2>3. Cardinality(InFlight') = Cardinality(InFlight) - 1
    BY <2>1, <2>2, LeavesWindow
  <2>u. UNCHANGED <<plan, status, job, recorded, purged, queue, dpc, dunit>>
    BY <1>6 DEF BumpCounters
  <2>4. Accounted'
    <3>1. completed' + Cardinality(InFlight') <= Cardinality(recorded')
      BY <1>6, <2>3, <2>u, FiniteCounts DEF BumpCounters, Consistent, Accounted, TypeOK
    <3> QED
      BY <3>1, <2>u DEF Consistent, Accounted, HasJob
  <2>5. Planned' /\ Closing' /\ Staged'
    BY <1>6, <1>p, <2>1, <2>u DEF BumpCounters, Consistent, Planned, Closing, Recorded,
       DoneMeansRecorded, Staged, OnlyMoves
  <2> QED
    BY <2>4, <2>5 DEF Consistent
<1>7. CASE StartRun(w)
  <2>1. OnlyMoves(w) /\ worker'[w].unit = u /\ worker'[w].pc = "count"
    BY <1>7, <1>g DEF StartRun
  <2>u. UNCHANGED <<plan, completed, job, recorded, purged, queue, dpc, dunit>>
    BY <1>7 DEF StartRun
  <2>2. InFlight' = InFlight
    BY <1>7, <2>1 DEF StartRun, InFlight, OnlyMoves
  <2>3. Accounted'
    BY <2>2, <2>u DEF Consistent, Accounted, HasJob
  <2>s. dpc \notin {"idle", "empty"}
    BY <1>p DEF Consistent, Staged
  <2>4. status # "none" /\ status' # "none" /\ (status' = "done" => status = "done")
    BY <1>7, <2>s DEF StartRun, Consistent, Staged
  <2>5. Planned' /\ Closing'
    BY <1>7, <1>p, <2>1, <2>u, <2>4 DEF StartRun, Consistent, Planned, Closing, Recorded,
       DoneMeansRecorded, OnlyMoves
  <2>6. Staged'
    BY <2>s, <2>4, <2>u DEF Consistent, Staged
  <2> QED
    BY <2>3, <2>5, <2>6 DEF Consistent
<1>8. CASE CountJobs(w)
  <2>u. UNCHANGED invVars
    BY <1>8 DEF CountJobs, invVars
  <2>1. CASE Goto(w, "release")
    BY <1>0, <2>1, <1>g, <2>u, StepAside DEF Recorded
  <2>2. CASE Cardinality(JobRows) >= Total /\ Goto(w, "flip")
    <3>1. OnlyMoves(w) /\ worker'[w].unit = u /\ worker'[w].pc = "flip"
      BY <2>2, <1>g
    <3>2. recorded = plan
      <4>1. JobRows \subseteq recorded /\ recorded \subseteq plan
        BY DEF JobRows, Consistent, Accounted, Planned
      <4>2. IsFiniteSet(plan)
        BY FiniteCounts
      <4>3. IsFiniteSet(JobRows) /\ Cardinality(JobRows) <= Cardinality(plan)
            /\ (Cardinality(JobRows) = Cardinality(plan) => JobRows = plan)
        BY <4>1, <4>2, FS_Subset
      <4>4. Cardinality(JobRows) \in Nat /\ Cardinality(plan) \in Nat
        BY <4>2, <4>3, FS_CardinalityType
      <4>5. JobRows = plan
        BY <2>2, <4>3, <4>4 DEF Total
      <4> QED
        BY <4>1, <4>5
    <3>3. InFlight' = InFlight
      BY <1>8, <3>1 DEF CountJobs, InFlight, OnlyMoves
    <3>4. Accounted'
      BY <3>3, <2>u DEF invVars, Consistent, Accounted, HasJob
    <3>5. Planned' /\ Closing' /\ Staged'
      BY <1>8, <1>p, <3>1, <3>2, <2>u DEF CountJobs, invVars, Consistent, Planned, Closing,
         Recorded, DoneMeansRecorded, Staged, OnlyMoves
    <3> QED
      BY <3>4, <3>5 DEF Consistent
  <2> QED
    BY <1>8, <2>1, <2>2 DEF CountJobs
<1>9. CASE CloseRun(w)
  <2>1. OnlyMoves(w) /\ worker'[w].unit = u /\ worker'[w].pc = "release"
    BY <1>9, <1>g DEF CloseRun
  <2>u. UNCHANGED <<plan, completed, job, recorded, purged, queue, dpc, dunit>>
    BY <1>9 DEF CloseRun
  <2>2. InFlight' = InFlight
    BY <1>9, <2>1 DEF CloseRun, InFlight, OnlyMoves
  <2>3. Accounted'
    BY <2>2, <2>u DEF Consistent, Accounted, HasJob
  <2>s. dpc \notin {"idle", "empty"}
    BY <1>p DEF Consistent, Staged
  <2>4. recorded = plan /\ status' # "none"
    BY <1>9, <2>s DEF CloseRun, Consistent, Closing, Staged
  <2>5. Planned' /\ Closing'
    BY <1>9, <1>p, <2>1, <2>u, <2>4 DEF CloseRun, Consistent, Planned, Closing, Recorded,
       DoneMeansRecorded, OnlyMoves
  <2>6. Staged'
    BY <2>s, <2>4, <2>u DEF Consistent, Staged
  <2> QED
    BY <2>3, <2>5, <2>6 DEF Consistent
<1> QED
  BY <1>1, <1>2, <1>3, <1>4, <1>5, <1>6, <1>7, <1>8, <1>9 DEF WorkerStep

(* Each step of the dispatcher, and each delivery, preserves the invariant. *)
LEMMA DispatchKeepsIInv ==
    ASSUME TypeOK, Consistent, Dispatcher \/ DispatchRaises \/ DispatcherDies
    PROVE  Consistent'
<1> USE DEF dbVars, counters, rowVars, dspVars
<1>1. CASE CreateRun
  <2>1. plan = {} /\ recorded = {} /\ status = "none"
    BY <1>1 DEF CreateRun, Consistent, Staged, Planned
  <2>2. /\ \A w \in Workers : worker[w].pc = "idle"
        /\ \A u \in Units, a \in Attempts : ~(queue[u][a] > 0)
    BY <2>1 DEF Consistent, Planned
  <2>3. UNCHANGED <<completed, job, recorded, purged, queue, dunit, worker>>
    BY <1>1 DEF CreateRun
  <2>4. dpc' \in {"empty", "loop"} /\ status' = "pending" /\ (dpc' = "empty" => plan' = {})
    BY <1>1 DEF CreateRun
  <2>5. Planned'
    BY <2>1, <2>2, <2>3, <2>4 DEF Planned
  <2>6. InFlight' = InFlight
    BY <2>3 DEF InFlight
  <2>7. Accounted'
    BY <2>3, <2>6 DEF Consistent, Accounted, HasJob
  <2>8. Closing'
    BY <2>2, <2>3, <2>4 DEF Closing, Recorded, DoneMeansRecorded
  <2>9. Staged'
    BY <2>4 DEF Staged
  <2> QED
    BY <2>5, <2>7, <2>8, <2>9 DEF Consistent
<1>2. CASE CloseEmptyRun
  <2>1. plan = {} /\ recorded = {}
    BY <1>2 DEF CloseEmptyRun, Consistent, Staged, Planned
  <2>2. UNCHANGED <<plan, completed, job, recorded, purged, queue, dunit, worker>>
    BY <1>2 DEF CloseEmptyRun
  <2>3. Planned'
    BY <1>2, <2>2 DEF CloseEmptyRun, Consistent, Planned
  <2>4. InFlight' = InFlight
    BY <2>2 DEF InFlight
  <2>5. Accounted'
    BY <2>2, <2>4 DEF Consistent, Accounted, HasJob
  <2>6. Closing'
    BY <2>1, <2>2 DEF Consistent, Closing, DoneMeansRecorded
  <2>7. Staged'
    BY <1>2 DEF CloseEmptyRun, Staged
  <2> QED
    BY <2>3, <2>5, <2>6, <2>7 DEF Consistent
<1>3. CASE PushUnit
  <2>1. dunit \in plan
    BY <1>3 DEF PushUnit, Consistent, Planned
  <2>2. \A v \in Units, b \in Attempts : queue'[v][b] > 0 => v \in plan'
    BY <1>3, <2>1, EnqueuePlanned DEF PushUnit
  <2>3. Planned'
    BY <1>3, <2>2 DEF PushUnit, Consistent, Planned
  <2>4. Accounted' /\ Closing'
    BY <1>3, WorkersRest DEF PushUnit, HasJob, Consistent, Accounted
  <2>5. Staged'
    BY <1>3 DEF PushUnit, Consistent, Staged
  <2> QED
    BY <2>3, <2>4, <2>5 DEF Consistent
<1>4. CASE MarkFailed
  <2>1. Planned' /\ Staged'
    BY <1>4 DEF MarkFailed, Consistent, Planned, Staged
  <2>2. Accounted' /\ Closing'
    BY <1>4, WorkersRest DEF MarkFailed, HasJob, Consistent, Accounted
  <2> QED
    BY <2>1, <2>2 DEF Consistent
<1>5. CASE FinishDispatch
  <2>1. Planned' /\ Staged'
    BY <1>5 DEF FinishDispatch, Consistent, Planned, Staged
  <2>2. Accounted' /\ Closing'
    BY <1>5, WorkersRest DEF FinishDispatch, HasJob, Consistent, Accounted
  <2> QED
    BY <2>1, <2>2 DEF Consistent
<1>6. ASSUME NEW u \in Units, LockUnit(u) PROVE Consistent'
  <2>1. u \in plan
    BY <1>6 DEF LockUnit, TypeOK
  <2>2. Planned' /\ Staged'
    BY <1>6, <2>1 DEF LockUnit, Consistent, Planned, Staged
  <2>3. Accounted' /\ Closing'
    BY <1>6, WorkersRest DEF LockUnit, HasJob, Consistent, Accounted
  <2> QED
    BY <2>2, <2>3 DEF Consistent
<1>7. CASE DispatchRaises
  <2>1. CASE UNCHANGED queue
    <3>1. Planned' /\ Staged'
      BY <1>7, <2>1 DEF DispatchRaises, Consistent, Planned, Staged
    <3>2. Accounted' /\ Closing'
      BY <1>7, WorkersRest DEF DispatchRaises, HasJob, Consistent, Accounted
    <3> QED
      BY <3>1, <3>2 DEF Consistent
  <2>2. CASE dpc = "push" /\ queue' = Enqueued(dunit, 0)
    <3>1. dunit \in plan
      BY <2>2 DEF Consistent, Planned
    <3>2. \A v \in Units, b \in Attempts : queue'[v][b] > 0 => v \in plan'
      BY <1>7, <2>2, <3>1, EnqueuePlanned DEF DispatchRaises
    <3>3. Planned' /\ Staged'
      BY <1>7, <3>2 DEF DispatchRaises, Consistent, Planned, Staged
    <3>4. Accounted' /\ Closing'
      BY <1>7, WorkersRest DEF DispatchRaises, HasJob, Consistent, Accounted
    <3> QED
      BY <3>3, <3>4 DEF Consistent
  <2> QED
    BY <1>7, <2>1, <2>2 DEF DispatchRaises
<1>8. CASE DispatcherDies
  <2>1. Planned' /\ Staged'
    BY <1>8 DEF DispatcherDies, Consistent, Planned, Staged
  <2>2. Accounted' /\ Closing'
    BY <1>8, WorkersRest DEF DispatcherDies, HasJob, Consistent, Accounted
  <2> QED
    BY <2>1, <2>2 DEF Consistent
<1> QED
  BY <1>1, <1>2, <1>3, <1>4, <1>5, <1>6, <1>7, <1>8 DEF Dispatcher

(* A delivered task is one of a planned unit. *)
LEMMA ReceiveKeepsIInv ==
    ASSUME TypeOK, Consistent, NEW w \in Workers, NEW u \in Units, NEW a \in Attempts,
           Receive(w, u, a)
    PROVE  Consistent'
<1> USE DEF dbVars, counters, rowVars, dspVars
<1>1. OnlyMoves(w) /\ worker'[w].pc = "load" /\ worker'[w].unit = u
  BY DEF Receive, OnlyMoves, TypeOK, Idle
<1>u. UNCHANGED <<plan, status, completed, job, recorded, purged, dpc, dunit>>
  BY DEF Receive
<1>2. u \in plan
  BY DEF Receive, Consistent, Planned
<1>3. \A v \in Units, b \in Attempts : queue'[v][b] > 0 => v \in plan
  <2>1. ASSUME NEW v \in Units, NEW b \in Attempts, v # u PROVE queue'[v][b] = queue[v][b]
    BY <2>1 DEF Receive, TypeOK
  <2> QED
    BY <1>2, <2>1 DEF Consistent, Planned
<1>4. Planned'
  BY <1>1, <1>2, <1>3, <1>u DEF Consistent, Planned, OnlyMoves
<1>5. InFlight' = InFlight
  BY <1>1 DEF Receive, InFlight, OnlyMoves
<1>6. Accounted'
  BY <1>5, <1>u DEF Consistent, Accounted, HasJob
<1>7. Closing' /\ Staged'
  BY <1>1, <1>u DEF Consistent, Closing, Recorded, DoneMeansRecorded, Staged, OnlyMoves
<1> QED
  BY <1>4, <1>6, <1>7 DEF Consistent

(* Crashes, failing statements, redeliveries, expiries and deletions       *)
(* preserve the invariant.                                                 *)
LEMMA EnvironmentKeepsIInv ==
    ASSUME TypeOK, Consistent, Environment
    PROVE  Consistent'
<1> USE DEF dbVars, counters, rowVars, dspVars
<1>1. CASE DispatchRaises \/ DispatcherDies
  BY <1>1, DispatchKeepsIInv
<1>2. CASE ConsumerDies
  <2>1. InFlight' = {} /\ Cardinality(InFlight') = 0
    <3>1. \A w \in Workers : worker'[w].pc = "idle"
      BY <1>2 DEF ConsumerDies, Idle
    <3> QED
      BY <3>1, FS_EmptySet DEF InFlight
  <2>2. \A w \in Workers : worker'[w].pc = "idle"
    BY <1>2 DEF ConsumerDies, Idle
  <2>u. UNCHANGED <<plan, status, completed, job, recorded, purged, queue, dpc, dunit>>
    BY <1>2 DEF ConsumerDies
  <2>3. Accounted'
    <3>1. completed' + Cardinality(InFlight') <= Cardinality(recorded')
      BY <2>1, <2>u, FiniteCounts DEF Consistent, Accounted, TypeOK
    <3> QED
      BY <3>1, <2>u DEF Consistent, Accounted, HasJob
  <2>4. Planned' /\ Closing' /\ Staged'
    BY <2>2, <2>u DEF Consistent, Planned, Closing, Recorded, DoneMeansRecorded, Staged
  <2> QED
    BY <2>3, <2>4 DEF Consistent
<1>3. CASE WallClockPasses
  <2>1. Planned' /\ Staged'
    BY <1>3 DEF WallClockPasses, Consistent, Planned, Staged
  <2>2. Accounted' /\ Closing'
    BY <1>3, WorkersRest DEF WallClockPasses, HasJob, Consistent, Accounted
  <2> QED
    BY <2>1, <2>2 DEF Consistent
<1>4. ASSUME NEW w \in Workers, StatementFails(w) PROVE Consistent'
  <2>u. UNCHANGED invVars
    BY <1>4 DEF StatementFails, invVars
  <2>0. worker[w].pc # "idle"
    BY <1>4 DEF StatementFails, Entry, Requeue, Terminal
  <2>w. worker[w] \in Worker /\ worker \in [Workers -> Worker \cup {Idle}]
    BY <2>0, BusyIsWorker DEF TypeOK
  <2>1. CASE worker' = [worker EXCEPT ![w] = Idle]
    <3>1. OnlyMoves(w) /\ worker'[w].pc = "idle"
      BY <2>1, <2>w DEF OnlyMoves, Idle
    <3> QED
      BY <3>1, <2>u, StepAside DEF Recorded
  <2>2. CASE Goto(w, "release") \/ Raise(w)
    <3>1. /\ OnlyMoves(w) /\ worker'[w].unit = worker[w].unit
          /\ worker'[w].pc \in {"release", "exists"}
      BY <2>0, <2>2, GotoMoves, RaiseMoves
    <3> QED
      BY <2>0, <3>1, <2>u, StepAside DEF Recorded
  <2> QED
    BY <1>4, <2>1, <2>2 DEF StatementFails
<1>5. ASSUME NEW w \in Workers, Redeliver(w) PROVE Consistent'
  <2>1. worker[w].unit \in plan
    BY <1>5 DEF Redeliver, Consistent, Planned
  <2>2. \A v \in Units, b \in Attempts : queue'[v][b] > 0 => v \in plan'
    BY <1>5, <2>1, EnqueuePlanned DEF Redeliver
  <2>3. Planned' /\ Staged'
    BY <1>5, <2>2 DEF Redeliver, Consistent, Planned, Staged
  <2>4. Accounted' /\ Closing'
    BY <1>5, WorkersRest DEF Redeliver, HasJob, Consistent, Accounted
  <2> QED
    BY <2>3, <2>4 DEF Consistent
<1>6. ASSUME NEW u \in Units, LockExpires(u) \/ RemoveItemSource(u) PROVE Consistent'
  <2>1. Planned' /\ Staged'
    BY <1>6 DEF LockExpires, RemoveItemSource, Consistent, Planned, Staged
  <2>2. Accounted' /\ Closing'
    BY <1>6, WorkersRest DEF LockExpires, RemoveItemSource, HasJob, Consistent, Accounted
  <2> QED
    BY <2>1, <2>2 DEF Consistent
<1>7. ASSUME NEW u \in Units, PurgeOwner(u) PROVE Consistent'
  <2>1. Planned' /\ Staged'
    BY <1>7 DEF PurgeOwner, Consistent, Planned, Staged
  <2>2. \A v \in Units : HasJob(v)' <=> HasJob(v) /\ v # u
    BY <1>7 DEF PurgeOwner, HasJob, TypeOK
  <2>3. Accounted' /\ Closing'
    <3>1. UNCHANGED <<plan, status, completed, recorded, worker>>
      BY <1>7 DEF PurgeOwner
    <3>2. purged' = purged \cup {u}
      BY <1>7 DEF PurgeOwner
    <3>3. \A v \in recorded : v \in Units
      BY DEF TypeOK
    <3> QED
      BY <2>2, <3>1, <3>2, <3>3, WorkersRest
  <2> QED
    BY <2>1, <2>3 DEF Consistent
<1> QED
  BY <1>1, <1>2, <1>3, <1>4, <1>5, <1>6, <1>7 DEF Environment

(* The strengthened invariant holds in every reachable state. *)
THEOREM AlwaysAccounted == Spec => []Consistent
<1>1. TypeOK /\ Consistent /\ [Next]_vars => Consistent'
  <2> SUFFICES ASSUME TypeOK, Consistent, [Next]_vars PROVE Consistent'
    OBVIOUS
  <2>1. CASE Dispatcher \/ Environment
    BY <2>1, DispatchKeepsIInv, EnvironmentKeepsIInv
  <2>2. ASSUME NEW w \in Workers, NEW u \in Units, NEW a \in Attempts, Receive(w, u, a)
        PROVE  Consistent'
    BY <2>2, ReceiveKeepsIInv
  <2>3. ASSUME NEW w \in Workers, WorkerStep(w) PROVE Consistent'
    BY <2>3, WorkerKeepsIInv
  <2>4. CASE UNCHANGED vars
    BY <2>4 DEF vars, Consistent, Planned, Accounted, InFlight, Closing, Recorded, HasJob,
                DoneMeansRecorded, Staged
  <2> QED
    BY <2>1, <2>2, <2>3, <2>4 DEF Next
<1> QED
  BY <1>1, InitIInv, TypeCorrect, PTL DEF Spec

(* The invariant of the fan-out, types included. *)
THEOREM InvariantHolds == Spec => []IInv
<1>1. TypeOK /\ Consistent => IInv
  BY DEF IInv
<1> QED
  BY <1>1, TypeCorrect, AlwaysAccounted, PTL

(* No unit is counted twice: the progress counter never passes the number  *)
(* of recorded units, which are planned ones.                              *)
THEOREM CountedOnce == Spec => []NoDoubleCount
<1>1. TypeOK /\ Consistent => NoDoubleCount
  BY FiniteCounts DEF TypeOK, Consistent, Accounted, Planned, NoDoubleCount
<1> QED
  BY <1>1, TypeCorrect, AlwaysAccounted, PTL

(* A run is done only when every planned unit was recorded. *)
THEOREM DoneIsComplete == Spec => []DoneMeansRecorded
<1>1. Consistent => DoneMeansRecorded
  BY DEF Consistent, Closing
<1> QED
  BY <1>1, AlwaysAccounted, PTL
-----------------------------------------------------------------------------
(* StoredOnce is kept because only one worker can stand before the insert  *)
(* of a unit's rows: it is the one whose FetchJob went in, the row is still *)
(* there unless the owner was deleted, and a deleted owner takes no more    *)
(* rows.                                                                   *)
StoreIsEarned ==
    /\ \A w \in Workers : worker[w].pc = "store" =>
          \/ worker[w].unit \in purged
          \/ job[worker[w].unit] = "stored" /\ rows[worker[w].unit] = 0
    /\ \A v, w \in Workers :
          /\ worker[v].pc = "store" /\ worker[w].pc = "store"
          /\ worker[v].unit = worker[w].unit
          => v = w

(* A step that touches neither rows nor FetchJobs and lets no worker reach *)
(* the insert of the rows keeps both.                                      *)
LEMMA NobodyEntersStore ==
    ASSUME StoredOnce, StoreIsEarned, UNCHANGED <<job, rows>>, purged' = purged,
           \A w \in Workers : worker'[w].pc = "store" => worker'[w] = worker[w]
    PROVE  StoredOnce' /\ StoreIsEarned'
<1>1. StoredOnce'
  BY DEF StoredOnce
<1>2. StoreIsEarned'
  BY DEF StoreIsEarned
<1> QED
  BY <1>1, <1>2

LEMMA WorkerStoresOnce ==
    ASSUME TypeOK, StoredOnce, StoreIsEarned, NEW w \in Workers, WorkerStep(w)
    PROVE  StoredOnce' /\ StoreIsEarned'
<1> USE DEF sharedVars, dbVars, counters, rowVars, dspVars
<1>b. worker[w].pc # "idle"
  BY DEF WorkerStep, LoadUnit, CheckJob, FetchEnds, GiveUp, FetchDefers, Unlock, Relock,
         Schedule, Release, FindJob, InsertJob, StoreRows, BumpCounters, StartRun,
         CountJobs, CloseRun
<1>w. worker[w] \in Worker /\ worker \in [Workers -> Worker \cup {Idle}]
  BY <1>b, BusyIsWorker DEF TypeOK
<1>1. CASE LoadUnit(w) \/ CheckJob(w) \/ FetchDefers(w) \/ Unlock(w) \/ Relock(w)
           \/ Schedule(w) \/ FindJob(w) \/ BumpCounters(w) \/ StartRun(w) \/ CountJobs(w)
           \/ CloseRun(w)
  <2>1. UNCHANGED <<job, rows>> /\ purged' = purged
    BY <1>1 DEF LoadUnit, CheckJob, FetchDefers, Unlock, Relock, Schedule, FindJob,
                BumpCounters, StartRun, CountJobs, CloseRun
  <2>2. PICK label \in Busy \ {"store"} : Goto(w, label)
    BY <1>1 DEF LoadUnit, CheckJob, FetchDefers, Unlock, Relock, Schedule, FindJob,
                BumpCounters, StartRun, CountJobs, CloseRun, Busy, Entry, Requeue, Terminal
  <2>3. OnlyMoves(w) /\ worker'[w].pc # "store"
    BY <1>b, <2>2, GotoMoves
  <2> QED
    BY <2>1, <2>3, NobodyEntersStore DEF OnlyMoves
<1>2. CASE FetchEnds(w) \/ GiveUp(w)
  <2>1. UNCHANGED <<job, rows>> /\ purged' = purged
    BY <1>2 DEF FetchEnds, GiveUp
  <2>2. \E o, c : Terminalize(w, o, c)
    BY <1>2 DEF FetchEnds, GiveUp
  <2>3. OnlyMoves(w) /\ worker'[w].pc # "store"
    BY <1>b, <2>2, TerminalizeMoves
  <2> QED
    BY <2>1, <2>3, NobodyEntersStore DEF OnlyMoves
<1>3. CASE Release(w)
  <2>1. UNCHANGED <<job, rows>> /\ purged' = purged
    BY <1>3 DEF Release
  <2>2. OnlyMoves(w) /\ worker'[w].pc # "store"
    BY <1>3, <1>w DEF Release, OnlyMoves, Idle
  <2> QED
    BY <2>1, <2>2, NobodyEntersStore DEF OnlyMoves
<1>4. CASE InsertJob(w)
  <2> DEFINE u == worker[w].unit
  <2>u. u \in Units
    BY <1>w DEF Worker
  <2>1. CASE UNCHANGED job
    <3>1. UNCHANGED rows /\ purged' = purged
      BY <1>4 DEF InsertJob
    <3>2. CASE HasJob(u)
      <4>1. Goto(w, "release")
        BY <1>4, <3>2 DEF InsertJob
      <4>2. OnlyMoves(w) /\ worker'[w].pc # "store"
        BY <1>b, <4>1, GotoMoves
      <4> QED
        BY <2>1, <3>1, <4>2, NobodyEntersStore DEF OnlyMoves
    <3>3. CASE ~HasJob(u) /\ u \in purged
      <4>1. Raise(w)
        BY <1>4, <3>3 DEF InsertJob
      <4>2. OnlyMoves(w) /\ worker'[w].pc # "store"
        BY <1>b, <4>1, RaiseMoves
      <4> QED
        BY <2>1, <3>1, <4>2, NobodyEntersStore DEF OnlyMoves
    <3>4. CASE ~HasJob(u) /\ u \notin purged
      <4>1. job'[u] # NoJob
        BY <1>4, <3>4, <1>w, <2>u DEF InsertJob, TypeOK, Worker, Outcomes, NoJob
      <4> QED
        BY <4>1, <2>1, <3>4 DEF HasJob
    <3> QED
      BY <3>2, <3>3, <3>4
  <2>2. CASE job' # job
    <3>1. /\ job[u] = NoJob /\ u \notin purged
          /\ job' = [job EXCEPT ![u] = worker[w].outcome]
          /\ Goto(w, IF worker[w].outcome = "stored" THEN "store" ELSE "bump")
          /\ UNCHANGED <<rows, purged>>
      BY <1>4, <2>2 DEF InsertJob, HasJob
    <3>2. job'[u] = worker[w].outcome /\ \A v \in Units \ {u} : job'[v] = job[v]
      BY <3>1, <2>u DEF TypeOK
    <3>3. rows[u] = 0
      <4>1. rows[u] \in Nat /\ rows[u] <= 1 /\ rows[u] # 1
        BY <3>1, <2>u DEF StoredOnce, NoJob, TypeOK
      <4> QED
        BY <4>1
    <3>4. /\ OnlyMoves(w) /\ worker'[w].unit = u
          /\ worker'[w].pc = IF worker[w].outcome = "stored" THEN "store" ELSE "bump"
      BY <3>1, <1>b, GotoMoves
    <3>5. ASSUME NEW v \in Workers \ {w}, worker[v].pc = "store"
          PROVE  worker[v].unit # u
      BY <3>1, <3>5 DEF StoreIsEarned, NoJob
    <3>6. StoredOnce'
      BY <3>1, <3>2, <3>3 DEF StoredOnce
    <3>7. ASSUME NEW v \in Workers, worker'[v].pc = "store"
          PROVE  \/ worker'[v].unit \in purged'
                 \/ job'[worker'[v].unit] = "stored" /\ rows'[worker'[v].unit] = 0
      <4>1. CASE v = w
        BY <4>1, <3>7, <3>1, <3>2, <3>3, <3>4
      <4>2. CASE v # w
        <5>1. worker'[v] = worker[v] /\ worker[v].unit # u
          BY <4>2, <3>4, <3>5, <3>7 DEF OnlyMoves
        <5>2. worker[v].unit \in Units
          BY <5>1, <3>7, BusyIsWorker DEF Worker
        <5> QED
          BY <5>1, <5>2, <3>1, <3>2, <3>7 DEF StoreIsEarned
      <4> QED
        BY <4>1, <4>2
    <3>8. ASSUME NEW v \in Workers, NEW x \in Workers,
                 worker'[v].pc = "store", worker'[x].pc = "store",
                 worker'[v].unit = worker'[x].unit
          PROVE  v = x
      BY <3>8, <3>4, <3>5 DEF StoreIsEarned, OnlyMoves
    <3> QED
      BY <3>6, <3>7, <3>8 DEF StoreIsEarned
  <2> QED
    BY <2>1, <2>2
<1>5. CASE StoreRows(w)
  <2> DEFINE u == worker[w].unit
  <2>u. u \in Units /\ worker[w].pc = "store"
    BY <1>5, <1>w DEF Worker, StoreRows
  <2>1. CASE u \in purged
    <3>1. Raise(w) /\ UNCHANGED <<job, rows>> /\ purged' = purged
      BY <1>5, <2>1 DEF StoreRows
    <3>2. OnlyMoves(w) /\ worker'[w].pc # "store"
      BY <1>b, <3>1, RaiseMoves
    <3> QED
      BY <3>1, <3>2, NobodyEntersStore DEF OnlyMoves
  <2>2. CASE u \notin purged
    <3>1. rows' = [rows EXCEPT ![u] = @ + 1] /\ Goto(w, "bump") /\ UNCHANGED <<job, purged>>
      BY <1>5, <2>2 DEF StoreRows
    <3>2. job[u] = "stored" /\ rows[u] = 0
      BY <2>u, <2>2 DEF StoreIsEarned
    <3>3. rows'[u] = 1 /\ \A v \in Units \ {u} : rows'[v] = rows[v]
      BY <3>1, <3>2, <2>u DEF TypeOK
    <3>4. OnlyMoves(w) /\ worker'[w].pc = "bump"
      BY <3>1, <1>b, GotoMoves
    <3>5. StoredOnce'
      BY <3>1, <3>2, <3>3 DEF StoredOnce
    <3>6. ASSUME NEW v \in Workers, worker'[v].pc = "store"
          PROVE  /\ v # w /\ worker'[v] = worker[v]
                 /\ worker[v].unit # u /\ worker[v].unit \in Units
      <4>1. v # w /\ worker'[v] = worker[v]
        BY <3>4, <3>6 DEF OnlyMoves
      <4>2. worker[v].unit # u
        BY <4>1, <3>6, <2>u DEF StoreIsEarned
      <4> QED
        BY <4>1, <4>2, <3>6, BusyIsWorker DEF Worker
    <3>7. StoreIsEarned'
      BY <3>1, <3>3, <3>6 DEF StoreIsEarned
    <3> QED
      BY <3>5, <3>7
  <2> QED
    BY <2>1, <2>2
<1> QED
  BY <1>1, <1>2, <1>3, <1>4, <1>5 DEF WorkerStep

LEMMA OthersStoreNothing ==
    ASSUME TypeOK, StoredOnce, StoreIsEarned,
           \/ Dispatcher \/ Environment
           \/ \E w \in Workers, u \in Units, a \in Attempts : Receive(w, u, a)
    PROVE  StoredOnce' /\ StoreIsEarned'
<1> USE DEF dbVars, counters, rowVars, dspVars
<1>1. CASE UNCHANGED <<job, rows, worker>> /\ purged' = purged
  BY <1>1, NobodyEntersStore
<1>2. ASSUME NEW w \in Workers, NEW u \in Units, NEW a \in Attempts, Receive(w, u, a)
      PROVE  StoredOnce' /\ StoreIsEarned'
  <2>1. UNCHANGED <<job, rows>> /\ purged' = purged
    BY <1>2 DEF Receive
  <2>2. \A v \in Workers : worker'[v].pc = "store" => worker'[v] = worker[v]
    BY <1>2 DEF Receive, TypeOK, Idle
  <2> QED
    BY <2>1, <2>2, NobodyEntersStore
<1>3. CASE ConsumerDies
  <2>1. UNCHANGED <<job, rows>> /\ purged' = purged
    BY <1>3 DEF ConsumerDies
  <2>2. \A v \in Workers : worker'[v].pc # "store"
    BY <1>3 DEF ConsumerDies, Idle
  <2> QED
    BY <2>1, <2>2, NobodyEntersStore
<1>4. ASSUME NEW w \in Workers, StatementFails(w) PROVE StoredOnce' /\ StoreIsEarned'
  <2>1. UNCHANGED <<job, rows>> /\ purged' = purged
    BY <1>4 DEF StatementFails
  <2>2. worker[w].pc # "idle"
    BY <1>4 DEF StatementFails, Entry, Requeue, Terminal
  <2>3. OnlyMoves(w) /\ worker'[w].pc # "store"
    <3>1. CASE worker' = [worker EXCEPT ![w] = Idle]
      BY <3>1 DEF OnlyMoves, Idle, TypeOK
    <3>2. CASE Goto(w, "release") \/ Raise(w)
      BY <3>2, <2>2, GotoMoves, RaiseMoves
    <3> QED
      BY <1>4, <3>1, <3>2 DEF StatementFails
  <2> QED
    BY <2>1, <2>3, NobodyEntersStore DEF OnlyMoves
<1>5. ASSUME NEW u \in Units, PurgeOwner(u) PROVE StoredOnce' /\ StoreIsEarned'
  <2>1. /\ job' = [job EXCEPT ![u] = NoJob] /\ rows' = [rows EXCEPT ![u] = 0]
        /\ purged' = purged \cup {u} /\ worker' = worker
    BY <1>5 DEF PurgeOwner
  <2>2. \A v \in Units : IF v = u THEN rows'[v] = 0 ELSE rows'[v] = rows[v] /\ job'[v] = job[v]
    BY <2>1 DEF TypeOK
  <2>3. StoredOnce'
    BY <2>2 DEF StoredOnce
  <2>4. \A w \in Workers : worker[w].pc = "store" => worker[w].unit \in Units
    BY BusyIsWorker DEF Worker
  <2>5. StoreIsEarned'
    BY <2>1, <2>2, <2>4 DEF StoreIsEarned
  <2> QED
    BY <2>3, <2>5
<1>6. CASE Dispatcher
  <2>1. UNCHANGED <<job, rows, worker>> /\ purged' = purged
    BY <1>6 DEF Dispatcher, CreateRun, CloseEmptyRun, PushUnit, MarkFailed, FinishDispatch, LockUnit
  <2> QED
    BY <1>1, <2>1
<1>7. CASE DispatchRaises \/ DispatcherDies \/ WallClockPasses
  <2>1. UNCHANGED <<job, rows, worker>> /\ purged' = purged
    BY <1>7 DEF DispatchRaises, DispatcherDies, WallClockPasses
  <2> QED
    BY <1>1, <2>1
<1>8. ASSUME NEW w \in Workers, Redeliver(w) PROVE StoredOnce' /\ StoreIsEarned'
  BY <1>1, <1>8 DEF Redeliver
<1>9. ASSUME NEW u \in Units, LockExpires(u) \/ RemoveItemSource(u)
      PROVE  StoredOnce' /\ StoreIsEarned'
  BY <1>1, <1>9 DEF LockExpires, RemoveItemSource
<1> QED
  BY <1>2, <1>3, <1>4, <1>5, <1>6, <1>7, <1>8, <1>9 DEF Environment

(* However often a unit is delivered, raised, requeued or deleted: at most *)
(* one batch of rows is stored for it, under a FetchJob that says so.      *)
THEOREM RowsStoredOnce == Spec => []StoredOnce
<1>1. Init => StoredOnce /\ StoreIsEarned
  BY DEF Init, StoredOnce, StoreIsEarned, Idle
<1>2. TypeOK /\ StoredOnce /\ StoreIsEarned /\ [Next]_vars => StoredOnce' /\ StoreIsEarned'
  <2> SUFFICES ASSUME TypeOK, StoredOnce, StoreIsEarned, [Next]_vars
               PROVE  StoredOnce' /\ StoreIsEarned'
    OBVIOUS
  <2>1. CASE UNCHANGED vars
    BY <2>1, NobodyEntersStore DEF vars
  <2>2. ASSUME NEW w \in Workers, WorkerStep(w) PROVE StoredOnce' /\ StoreIsEarned'
    BY <2>2, WorkerStoresOnce
  <2>3. CASE \/ Dispatcher \/ Environment
             \/ \E w \in Workers, u \in Units, a \in Attempts : Receive(w, u, a)
    BY <2>3, OthersStoreNothing
  <2> QED
    BY <2>1, <2>2, <2>3 DEF Next
<1> QED
  BY <1>1, <1>2, TypeCorrect, PTL DEF Spec
-----------------------------------------------------------------------------
(* A failed run stays failed: only the creation of the row and the closing *)
(* of an empty run assign the status without comparing it first, and both  *)
(* happen before the fan-out can have failed.                              *)
THEOREM FailedStaysFailed == Spec => FailedIsFinal
<1> USE DEF sharedVars, dbVars, counters, rowVars, dspVars
<1>1. Consistent /\ [Next]_vars => [status = "failed" => status' = "failed"]_vars
  <2> SUFFICES ASSUME Consistent, Next, status = "failed" PROVE status' = "failed"
    BY DEF vars
  <2>1. CASE Dispatcher
    BY <2>1 DEF Dispatcher, CreateRun, CloseEmptyRun, PushUnit, MarkFailed, FinishDispatch,
                LockUnit, Consistent, Staged
  <2>2. ASSUME NEW w \in Workers, WorkerStep(w) PROVE status' = "failed"
    BY <2>2 DEF WorkerStep, LoadUnit, CheckJob, FetchEnds, GiveUp, FetchDefers, Unlock,
                Relock, Schedule, Release, FindJob, InsertJob, StoreRows, BumpCounters,
                StartRun, CountJobs, CloseRun
  <2>3. CASE Environment
    BY <2>3 DEF Environment, DispatchRaises, DispatcherDies, ConsumerDies, WallClockPasses,
                StatementFails, Redeliver, LockExpires, RemoveItemSource, PurgeOwner
  <2> QED
    BY <2>1, <2>2, <2>3 DEF Next, Receive
<1> QED
  BY <1>1, AlwaysAccounted, PTL DEF Spec, FailedIsFinal
-----------------------------------------------------------------------------
(* A step of a worker is a step of the barrier, or changes nothing it sees. *)
LEMMA WorkerRefines ==
    ASSUME TypeOK, Consistent, NEW w \in Workers, WorkerStep(w)
    PROVE  Barrier!Next \/ UNCHANGED Barrier!vars
<1> USE DEF sharedVars, dbVars, counters, rowVars, dspVars, Barrier!vars
<1>1. CASE LoadUnit(w) \/ CheckJob(w) \/ FetchEnds(w) \/ GiveUp(w) \/ FetchDefers(w)
           \/ Unlock(w) \/ Relock(w) \/ Schedule(w) \/ Release(w) \/ FindJob(w)
           \/ StoreRows(w) \/ CountJobs(w)
  BY <1>1 DEF LoadUnit, CheckJob, FetchEnds, GiveUp, FetchDefers, Unlock, Relock,
              Schedule, Release, FindJob, StoreRows, CountJobs
<1>2. CASE InsertJob(w)
  <2>1. worker[w].pc # "idle" /\ worker[w].unit \in Units
    BY <1>2, BusyIsWorker DEF InsertJob, Worker
  <2>2. worker[w].unit \in plan
    BY <2>1 DEF Consistent, Planned
  <2>3. CASE UNCHANGED recorded
    BY <1>2, <2>3 DEF InsertJob
  <2>4. CASE /\ ~HasJob(worker[w].unit) /\ worker[w].unit \notin purged
             /\ recorded' = recorded \cup {worker[w].unit}
    <3>1. worker[w].unit \notin recorded
      BY <2>4 DEF Consistent, Accounted
    <3>2. Barrier!Record(worker[w].unit)
      BY <1>2, <2>2, <2>4, <3>1 DEF InsertJob, Barrier!Record
    <3> QED
      BY <2>1, <3>2 DEF Barrier!Next
  <2> QED
    BY <1>2, <2>3, <2>4 DEF InsertJob
<1>3. CASE BumpCounters(w)
  <2>1. w \in InFlight
    BY <1>3 DEF BumpCounters, InFlight
  <2>2. Cardinality(InFlight) # 0
    BY <2>1, FiniteCounts, FS_EmptySet
  <2>3. completed < Cardinality(recorded)
    BY <2>2, FiniteCounts DEF Consistent, Accounted, TypeOK
  <2>4. Barrier!Count
    BY <1>3, <2>3 DEF BumpCounters, Barrier!Count, Barrier!Cardinality, Cardinality
  <2> QED
    BY <2>4 DEF Barrier!Next
<1>4. CASE StartRun(w)
  <2>1. worker[w].unit \in recorded
    BY <1>4 DEF StartRun, Consistent, Closing, Recorded
  <2>2. CASE status = "pending"
    BY <1>4, <2>1, <2>2 DEF StartRun, Barrier!Start, Barrier!Next
  <2>3. CASE status # "pending"
    BY <1>4, <2>3 DEF StartRun
  <2> QED
    BY <2>2, <2>3
<1>5. CASE CloseRun(w)
  <2>1. recorded = plan
    BY <1>5 DEF CloseRun, Consistent, Closing
  <2>2. CASE status = "running"
    BY <1>5, <2>1, <2>2 DEF CloseRun, Barrier!Close, Barrier!Next
  <2>3. CASE status # "running"
    BY <1>5, <2>3 DEF CloseRun
  <2> QED
    BY <2>2, <2>3
<1> QED
  BY <1>1, <1>2, <1>3, <1>4, <1>5 DEF WorkerStep

(* So is a step of the dispatcher. *)
LEMMA DispatcherRefines ==
    ASSUME TypeOK, Consistent, Dispatcher
    PROVE  Barrier!Next \/ UNCHANGED Barrier!vars
<1> USE DEF sharedVars, dbVars, counters, rowVars, dspVars, Barrier!vars
<1>1. CASE CreateRun
  <2>1. PICK P \in SUBSET Units : plan' = P
    BY <1>1 DEF CreateRun
  <2>2. Barrier!Open(P)
    BY <1>1, <2>1 DEF CreateRun, Consistent, Staged, Barrier!Open
  <2> QED
    BY <2>1, <2>2 DEF Barrier!Next
<1>2. CASE CloseEmptyRun
  <2>1. status = "pending" /\ recorded = plan
    BY <1>2 DEF CloseEmptyRun, Consistent, Staged, Planned
  <2> QED
    BY <1>2, <2>1 DEF CloseEmptyRun, Barrier!Close, Barrier!Next
<1>3. CASE MarkFailed
  <2>1. status # "none"
    BY <1>3 DEF MarkFailed, Consistent, Staged
  <2> QED
    BY <1>3, <2>1 DEF MarkFailed, Barrier!Fail, Barrier!Next
<1>4. CASE PushUnit \/ FinishDispatch \/ \E u \in Units : LockUnit(u)
  BY <1>4 DEF PushUnit, FinishDispatch, LockUnit
<1> QED
  BY <1>1, <1>2, <1>3, <1>4 DEF Dispatcher

(* The fan-out implements the abstract run: through every crash, retry and *)
(* redelivery the WebUpdate row is a barrier over its planned units.       *)
THEOREM ImplementsBarrier == Spec => Implements
<1> USE DEF sharedVars, dbVars, counters, rowVars, dspVars, Barrier!vars
<1>1. Init => Barrier!Init
  BY DEF Init, Barrier!Init
<1>2. TypeOK /\ Consistent /\ [Next]_vars => [Barrier!Next]_(Barrier!vars)
  <2> SUFFICES ASSUME TypeOK, Consistent, [Next]_vars
               PROVE  Barrier!Next \/ UNCHANGED Barrier!vars
    OBVIOUS
  <2>1. CASE Dispatcher
    BY <2>1, DispatcherRefines
  <2>2. ASSUME NEW w \in Workers, WorkerStep(w)
        PROVE  Barrier!Next \/ UNCHANGED Barrier!vars
    BY <2>2, WorkerRefines
  <2>3. CASE Environment
    BY <2>3 DEF Environment, DispatchRaises, DispatcherDies, ConsumerDies, WallClockPasses,
                StatementFails, Redeliver, LockExpires, RemoveItemSource, PurgeOwner
  <2>4. CASE \E w \in Workers, u \in Units, a \in Attempts : Receive(w, u, a)
    BY <2>4 DEF Receive
  <2>5. CASE UNCHANGED vars
    BY <2>5 DEF vars
  <2> QED
    BY <2>1, <2>2, <2>3, <2>4, <2>5 DEF Next
<1> QED
  BY <1>1, <1>2, TypeCorrect, AlwaysAccounted, PTL DEF Spec, Implements, Barrier!Spec
-----------------------------------------------------------------------------
(* A kind of hazard whose bound is zero never happens.                      *)
NeverSpent == \A h \in Hazards \ {"any"} : Limit[h] = 0 => left[h] = 0

LEMMA LimitOf ==
    /\ Limit["crash"] = MaxCrashes /\ Limit["fault"] = MaxFaults
    /\ Limit["lostack"] = MaxLostAcks /\ Limit["remove"] = MaxRemovals
<1>1. \A h \in Hazards : Limit[h] = CASE h = "crash"     -> MaxCrashes
                              [] h = "redeliver" -> MaxRedeliveries
                              [] h = "fault"     -> MaxFaults
                              [] h = "lostack"   -> MaxLostAcks
                              [] h = "remove"    -> MaxRemovals
                              [] h = "expire"    -> MaxExpiries
                              [] h = "any"       -> MaxHazards
  BY DEF Limit
<1>2. {"crash", "fault", "lostack", "remove"} \subseteq Hazards
  BY DEF Hazards
<1> QED
  BY <1>1, <1>2

LEMMA BoundsKept == Spec => []NeverSpent
<1>1. Init => NeverSpent
  BY DEF Init, NeverSpent
<1>2. TypeOK /\ NeverSpent /\ [Next]_vars => NeverSpent'
  <2> SUFFICES ASSUME TypeOK, NeverSpent, [Next]_vars, left' # left PROVE NeverSpent'
    BY DEF NeverSpent
  <2>1. PICK g \in Hazards : Spend(g)
    BY DEF Next, Dispatcher, CreateRun, CloseEmptyRun, PushUnit, MarkFailed, FinishDispatch,
           LockUnit, Receive, WorkerStep, LoadUnit, CheckJob, FetchEnds, GiveUp, FetchDefers,
           Unlock, Relock, Schedule, Release, FindJob, InsertJob, StoreRows, BumpCounters,
           StartRun, CountJobs, CloseRun, Environment, DispatchRaises, DispatcherDies,
           ConsumerDies, WallClockPasses, StatementFails, Redeliver, LockExpires,
           RemoveItemSource, PurgeOwner, Hazards, sharedVars, vars
  <2>2. \A h \in Hazards \ {g, "any"} : left'[h] = left[h]
    BY <2>1 DEF Spend, TypeOK
  <2>3. left[g] # 0
    BY <2>1 DEF Spend
  <2> QED
    BY <2>2, <2>3 DEF NeverSpent
<1> QED
  BY <1>1, <1>2, TypeCorrect, PTL DEF Spec

(* The units the dispatcher has still to handle: nobody else has begun one, *)
(* and a fan-out that fails leaves one behind.  An enqueue that is applied  *)
(* and yet raises would break this.                                         *)
NotBegun ==
    /\ \A u \in todo : /\ \A a \in Attempts : queue[u][a] = 0
                       /\ \A w \in Workers : worker[w].unit # u
                       /\ u \notin recorded
    /\ dpc = "push" => dunit \in todo
    /\ dpc = "fail" => todo # {}

(* A worker moves with its unit, or to no unit, and what it records is its  *)
(* unit; a copy of a task is only made of a unit somebody has begun.        *)
LEMMA WorkersBeginNothing ==
    ASSUME TypeOK, NotBegun, UNCHANGED <<dpc, todo, dunit>>,
           \A u \in todo, a \in Attempts : queue'[u][a] = queue[u][a],
           \A w \in Workers : worker'[w].unit \in {worker[w].unit, NoUnit},
           \A u \in recorded' \ recorded : u \notin todo
    PROVE  NotBegun'
<1>1. \A u \in todo : u \in Units /\ u # NoUnit
  BY ConstantsOK DEF TypeOK
<1> QED
  BY <1>1 DEF NotBegun

LEMMA WorkerKeepsUnit ==
    ASSUME TypeOK, NEW w \in Workers, WorkerStep(w) \/ StatementFails(w)
    PROVE  /\ worker[w].pc # "idle" /\ worker[w] \in Worker /\ OnlyMoves(w)
           /\ \A v \in Workers : worker'[v].unit \in {worker[v].unit, NoUnit}
<1>1. worker[w].pc # "idle"
  BY DEF WorkerStep, LoadUnit, CheckJob, FetchEnds, GiveUp, FetchDefers, Unlock, Relock,
         Schedule, Release, FindJob, InsertJob, StoreRows, BumpCounters, StartRun,
         CountJobs, CloseRun, StatementFails, Entry, Requeue, Terminal
<1>2. \/ \E label : Goto(w, label)
      \/ \E o, c : Terminalize(w, o, c)
      \/ worker' = [worker EXCEPT ![w] = Idle]
  BY DEF WorkerStep, LoadUnit, CheckJob, FetchEnds, GiveUp, FetchDefers, Unlock, Relock,
         Schedule, Release, FindJob, InsertJob, StoreRows, BumpCounters, StartRun,
         CountJobs, CloseRun, StatementFails, Raise
<1>3. OnlyMoves(w) /\ worker'[w].unit \in {worker[w].unit, NoUnit}
  <2>1. CASE worker' = [worker EXCEPT ![w] = Idle]
    BY <2>1 DEF OnlyMoves, Idle, TypeOK
  <2> QED
    BY <1>1, <1>2, <2>1, GotoMoves, TerminalizeMoves
<1> QED
  BY <1>1, <1>3, BusyIsWorker DEF OnlyMoves

(* One more copy of a task touches only its unit's queue. *)
LEMMA EnqueuedElsewhere ==
    ASSUME TypeOK, NEW u, NEW a, queue' = Enqueued(u, a), NEW v \in Units, v # u
    PROVE  queue'[v] = queue[v]
BY DEF TypeOK, Enqueued

LEMMA NotBegunKept ==
    ASSUME TypeOK, Consistent, NotBegun, ~Spend("lostack"), [Next]_vars
    PROVE  NotBegun'
<1> USE DEF sharedVars, dbVars, counters, rowVars, dspVars
<1>t. \A u \in todo : u \in Units /\ u # NoUnit
  BY ConstantsOK DEF TypeOK
<1>1. ASSUME NEW w \in Workers, WorkerStep(w) \/ StatementFails(w) \/ Redeliver(w)
      PROVE  NotBegun'
  <2>1. \A v \in Workers : worker'[v].unit \in {worker[v].unit, NoUnit}
    BY <1>1, WorkerKeepsUnit DEF Redeliver
  <2>2. UNCHANGED <<dpc, todo, dunit>>
    BY <1>1 DEF WorkerStep, LoadUnit, CheckJob, FetchEnds, GiveUp, FetchDefers, Unlock, Relock,
           Schedule, Release, FindJob, InsertJob, StoreRows, BumpCounters, StartRun,
           CountJobs, CloseRun, StatementFails, Redeliver
  <2>3. queue' = queue \/ \E a : queue' = Enqueued(worker[w].unit, a)
    BY <1>1 DEF WorkerStep, LoadUnit, CheckJob, FetchEnds, GiveUp, FetchDefers, Unlock, Relock,
           Schedule, Release, FindJob, InsertJob, StoreRows, BumpCounters, StartRun,
           CountJobs, CloseRun, StatementFails, Redeliver
  <2>4. \A u \in todo, a \in Attempts : queue'[u][a] = queue[u][a]
    BY <2>3, <1>t, EnqueuedElsewhere DEF NotBegun
  <2>5. recorded' \subseteq recorded \cup {worker[w].unit}
    BY <1>1 DEF WorkerStep, LoadUnit, CheckJob, FetchEnds, GiveUp, FetchDefers, Unlock, Relock,
           Schedule, Release, FindJob, InsertJob, StoreRows, BumpCounters, StartRun,
           CountJobs, CloseRun, StatementFails, Redeliver
  <2> QED
    BY <2>1, <2>2, <2>4, <2>5, WorkersBeginNothing DEF NotBegun
<1>2. ASSUME NEW w \in Workers, NEW u \in Units, NEW a \in Attempts, Receive(w, u, a)
      PROVE  NotBegun'
  <2>1. /\ worker[w].pc = "idle" /\ queue[u][a] > 0 /\ worker'[w].unit = u
        /\ OnlyMoves(w) /\ UNCHANGED <<dpc, todo, dunit, recorded>>
    BY <1>2 DEF Receive, OnlyMoves, Idle, TypeOK
  <2>2. u \notin todo
    BY <2>1 DEF NotBegun, TypeOK
  <2>3. \A v \in todo, b \in Attempts : queue'[v][b] = queue[v][b]
    BY <1>2, <2>2, <1>t DEF Receive, TypeOK
  <2> QED
    BY <2>1, <2>2, <2>3 DEF NotBegun, OnlyMoves
<1>3. CASE CreateRun
  <2>1. /\ dpc = "idle" /\ plan = {} /\ recorded = {}
        /\ \A u \in Units : u \notin plan
    BY <1>3 DEF CreateRun, Consistent, Staged, Planned
  <2>2. \A u \in Units : /\ \A a \in Attempts : queue[u][a] = 0
                         /\ \A w \in Workers : worker[w].unit # u
    <3>1. \A u \in Units, a \in Attempts : queue[u][a] \in Nat /\ ~(queue[u][a] > 0)
      BY <2>1 DEF Consistent, Planned, TypeOK
    <3>2. \A w \in Workers : worker[w].pc = "idle"
      BY <2>1 DEF Consistent, Planned
    <3>3. \A w \in Workers : worker[w] = Idle
      BY <3>2 DEF TypeOK, Worker, Busy, Entry, Requeue, Terminal
    <3> QED
      BY <3>1, <3>3, ConstantsOK DEF Idle
  <2>3. todo' \subseteq Units /\ dpc' \in {"empty", "loop"} /\ UNCHANGED <<queue, worker, recorded>>
    BY <1>3 DEF CreateRun
  <2> QED
    BY <2>1, <2>2, <2>3 DEF NotBegun
<1>4. CASE CloseEmptyRun \/ MarkFailed \/ FinishDispatch \/ DispatcherDies
  BY <1>4 DEF CloseEmptyRun, MarkFailed, FinishDispatch, DispatcherDies, NotBegun
<1>5. ASSUME NEW u \in Units, LockUnit(u) PROVE NotBegun'
  BY <1>5 DEF LockUnit, NotBegun
<1>6. CASE PushUnit
  <2>1. dunit \in todo /\ todo' = todo \ {dunit} /\ dpc' = "loop" /\ UNCHANGED <<worker, recorded>>
    BY <1>6 DEF PushUnit, NotBegun
  <2>2. \A v \in todo' : queue'[v] = queue[v]
    BY <1>6, <2>1, <1>t, EnqueuedElsewhere DEF PushUnit
  <2> QED
    BY <2>1, <2>2 DEF NotBegun
<1>7. CASE DispatchRaises
  <2>1. /\ UNCHANGED <<queue, todo, worker, recorded>> /\ dpc' = "fail"
        /\ dpc = "push" \/ todo # {}
    BY <1>7 DEF DispatchRaises
  <2> QED
    BY <2>1 DEF NotBegun
<1>8. CASE ConsumerDies
  <2>1. \A w \in Workers : worker'[w].unit = NoUnit
    BY <1>8 DEF ConsumerDies, Idle
  <2> QED
    BY <1>8, <2>1, WorkersBeginNothing DEF ConsumerDies
<1>9. CASE \/ WallClockPasses \/ UNCHANGED vars
           \/ \E u \in Units : LockExpires(u) \/ RemoveItemSource(u) \/ PurgeOwner(u)
  BY <1>9 DEF WallClockPasses, LockExpires, RemoveItemSource, PurgeOwner, vars, NotBegun
<1> QED
  BY <1>1, <1>2, <1>3, <1>4, <1>5, <1>6, <1>7, <1>8, <1>9 DEF Next, Dispatcher, Environment

LEMMA BegunInTurn ==
    ASSUME MaxLostAcks = 0
    PROVE  Spec => []NotBegun
<1>1. NeverSpent => ~Spend("lostack")
  BY LimitOf DEF Hazards, NeverSpent, Spend
<1>2. Init => NotBegun
  BY DEF Init, NotBegun
<1>3. TypeOK /\ Consistent /\ NotBegun /\ ~Spend("lostack") /\ [Next]_vars => NotBegun'
  BY NotBegunKept
<1> QED
  BY <1>1, <1>2, <1>3, BoundsKept, TypeCorrect, AlwaysAccounted, PTL DEF Spec

(* A done run stays done, whatever crashes, fails, expires or is deleted:   *)
(* when the fan-out fails it leaves a unit that nobody has begun, so the    *)
(* run it marks as failed cannot have been done.  Only an enqueue that      *)
(* raises although it was applied is excluded.                              *)
THEOREM DoneStaysDone ==
    ASSUME MaxLostAcks = 0
    PROVE  Spec => DoneIsFinal
<1> USE DEF sharedVars, dbVars, counters, rowVars, dspVars
<1>1. TypeOK /\ Consistent /\ NotBegun /\ [Next]_vars => [status = "done" => status' = "done"]_vars
  <2> SUFFICES ASSUME TypeOK, Consistent, NotBegun, Next, status = "done"
               PROVE  status' = "done"
    BY DEF vars
  <2>1. CASE MarkFailed
    <3>1. todo # {} /\ todo \subseteq plan /\ recorded = plan
      BY <2>1 DEF MarkFailed, NotBegun, TypeOK, Consistent, Closing, DoneMeansRecorded
    <3> QED
      BY <3>1 DEF NotBegun
  <2>2. CASE CreateRun
    BY <2>2 DEF CreateRun, Consistent, Staged
  <2>3. CASE \/ CloseEmptyRun \/ PushUnit \/ FinishDispatch
             \/ \E u \in Units : LockUnit(u)
    BY <2>3 DEF CloseEmptyRun, PushUnit, FinishDispatch, LockUnit
  <2>4. CASE \E w \in Workers, u \in Units, a \in Attempts : Receive(w, u, a)
    BY <2>4 DEF Receive
  <2>5. ASSUME NEW w \in Workers, WorkerStep(w) PROVE status' = "done"
    BY <2>5 DEF WorkerStep, LoadUnit, CheckJob, FetchEnds, GiveUp, FetchDefers, Unlock, Relock,
         Schedule, Release, FindJob, InsertJob, StoreRows, BumpCounters, StartRun,
         CountJobs, CloseRun
  <2>6. CASE Environment
    BY <2>6 DEF Environment, DispatchRaises, DispatcherDies, ConsumerDies, WallClockPasses,
         StatementFails, Redeliver, LockExpires, RemoveItemSource, PurgeOwner
  <2> QED
    BY <2>1, <2>2, <2>3, <2>4, <2>5, <2>6 DEF Next, Dispatcher
<1> QED
  BY <1>1, BegunInTurn, TypeCorrect, AlwaysAccounted, PTL DEF Spec, DoneIsFinal
-----------------------------------------------------------------------------
(* The run nobody disturbs, but for duplicate deliveries and keys that run  *)
(* out: the process does not die, no statement fails, no row is deleted and *)
(* no key was left over.                                                    *)
Undamaged ==
    /\ MaxCrashes = 0 /\ MaxFaults = 0 /\ MaxLostAcks = 0 /\ MaxRemovals = 0
    /\ StaleKeys = {}
Unharmed == ~Spend("crash") /\ ~Spend("fault") /\ ~Spend("lostack") /\ ~Spend("remove")

(* A worker that will record its unit or schedule it again.  One that is    *)
(* about to take the key again does so only if the key is free: if it is    *)
(* not, the worker gives its unit up, and somebody else must have it.       *)
Carries(w, u) ==
    /\ worker[w].unit = u
    /\ \/ worker[w].pc \in {"load", "check", "fetch", "unlock", "schedule", "exists", "insert"}
       \/ worker[w].pc = "relock" /\ u \notin lock
Carried(u) ==
    \/ HasJob(u)
    \/ \E a \in Attempts : queue[u][a] > 0
    \/ \E w \in Workers : Carries(w, u)

(* Keys are held of units that the dispatcher has handled, or has in hand,  *)
(* so it skips none; a deferred unit has attempts left.                     *)
Kept ==
    /\ removed = {}
    /\ \A u \in lock : u \in plan \ todo \/ (dpc = "push" /\ u = dunit)
    /\ \A u \in plan \ todo : Carried(u)
    /\ \A w \in Workers : worker[w].pc \in Requeue => worker[w].attempt < MaxAttempts
    /\ dpc \notin {"fail", "dead"}
    /\ dpc = "finished" => todo = {}

LEMMA EnqueuedMore ==
    ASSUME TypeOK, NEW u \in Units, NEW a \in Attempts, queue' = Enqueued(u, a)
    PROVE  /\ queue'[u][a] > 0
           /\ \A v \in Units, b \in Attempts : queue[v][b] > 0 => queue'[v][b] > 0
<1>1. queue \in [Units -> [Attempts -> Nat]] /\ queue[u] \in [Attempts -> Nat]
  BY DEF TypeOK
<1>2. /\ queue'[u] = [queue[u] EXCEPT ![a] = @ + 1]
      /\ \A v \in Units \ {u} : queue'[v] = queue[v]
  BY <1>1 DEF Enqueued
<1>3. queue[u][a] \in Nat
  BY <1>1
<1>4. queue'[u][a] = queue[u][a] + 1 /\ \A b \in Attempts \ {a} : queue'[u][b] = queue[u][b]
  BY <1>1, <1>2
<1>5. queue'[u][a] > 0
  BY <1>3, <1>4
<1>6. ASSUME NEW v \in Units, NEW b \in Attempts, queue[v][b] > 0 PROVE queue'[v][b] > 0
  <2>1. CASE v = u /\ b = a
    BY <1>5, <2>1
  <2>2. CASE v = u /\ b # a
    BY <1>4, <1>6, <2>2
  <2>3. CASE v # u
    BY <1>2, <1>6, <2>3
  <2> QED
    BY <2>1, <2>2, <2>3
<1> QED
  BY <1>5, <1>6

(* What leaves a unit carried.                                              *)
LEMMA CarriedRests ==
    ASSUME NEW u, Carried(u), HasJob(u) => HasJob(u)',
           \A a \in Attempts : queue[u][a] > 0 => queue'[u][a] > 0,
           \A w \in Workers : worker[w].unit = u => worker'[w] = worker[w],
           u \in lock' => u \in lock
    PROVE  Carried(u)'
BY DEF Carried, Carries

LEMMA WorkerCarries ==
    ASSUME TypeOK, Kept, NEW w \in Workers, WorkerStep(w), NEW u \in Units, Carried(u)
    PROVE  Carried(u)'
<1> USE DEF sharedVars, dbVars, counters, rowVars, dspVars
<1>0. /\ worker[w].pc # "idle" /\ worker[w] \in Worker /\ OnlyMoves(w)
      /\ worker[w].unit \in Units /\ worker[w].attempt \in Attempts
  BY WorkerKeepsUnit DEF Worker
<1>p. purged = {} /\ removed = {}
  BY DEF Kept, TypeOK
<1>j. HasJob(u) => HasJob(u)'
  <2>1. job' = job \/ (~HasJob(worker[w].unit) /\ job' = [job EXCEPT ![worker[w].unit] = worker[w].outcome])
    BY DEF WorkerStep, LoadUnit, CheckJob, FetchEnds, GiveUp, FetchDefers, Unlock, Relock,
         Schedule, Release, FindJob, InsertJob, StoreRows, BumpCounters, StartRun,
         CountJobs, CloseRun
  <2> QED
    BY <2>1 DEF HasJob, TypeOK
<1>q. \A a \in Attempts : queue[u][a] > 0 => queue'[u][a] > 0
  <2>1. CASE Schedule(w)
    <3>1. queue' = Enqueued(worker[w].unit, worker[w].attempt + 1)
      BY <2>1 DEF Schedule
    <3>2. worker[w].attempt + 1 \in Attempts
      BY <1>0, <2>1, ConstantsOK DEF Kept, Schedule, Requeue, Attempts
    <3> QED
      BY <3>1, <3>2, <1>0, EnqueuedMore
  <2>2. CASE ~Schedule(w)
    BY <2>2 DEF WorkerStep, LoadUnit, CheckJob, FetchEnds, GiveUp, FetchDefers, Unlock, Relock,
         Release, FindJob, InsertJob, StoreRows, BumpCounters, StartRun, CountJobs, CloseRun
  <2> QED
    BY <2>1, <2>2
<1>1. CASE HasJob(u) \/ \E a \in Attempts : queue[u][a] > 0
  BY <1>1, <1>j, <1>q DEF Carried
<1>2. ASSUME NEW v \in Workers \ {w}, Carries(v, u) PROVE Carried(u)'
  <2>1. worker'[v] = worker[v]
    BY <1>0 DEF OnlyMoves
  <2>2. CASE u \in lock' /\ u \notin lock
    <3>1. Relock(w) /\ worker[w].unit = u
      BY <2>2 DEF WorkerStep, LoadUnit, CheckJob, FetchEnds, GiveUp, FetchDefers, Unlock, Relock,
         Schedule, Release, FindJob, InsertJob, StoreRows, BumpCounters, StartRun,
         CountJobs, CloseRun
    <3>2. worker'[w].pc = "schedule" /\ worker'[w].unit = u
      BY <1>0, <2>2, <3>1, GotoMoves DEF Relock
    <3> QED
      BY <3>2 DEF Carried, Carries
  <2>3. CASE u \in lock' => u \in lock
    BY <1>2, <2>1, <2>3 DEF Carried, Carries
  <2> QED
    BY <2>2, <2>3
<1>3. CASE Carries(w, u)
  <2>0. worker[w].unit = u
    BY <1>3 DEF Carries
  <2>1. CASE LoadUnit(w)
    BY <1>0, <1>p, <2>0, <2>1, GotoMoves DEF LoadUnit, Carried, Carries
  <2>2. CASE CheckJob(w)
    <3>1. HasJob(u) \/ Goto(w, "fetch")
      BY <2>0, <2>2 DEF CheckJob
    <3> QED
      BY <1>0, <1>j, <2>0, <3>1, GotoMoves DEF Carried, Carries
  <2>3. CASE FetchEnds(w) \/ GiveUp(w)
    <3>1. \E o, c : Terminalize(w, o, c)
      BY <2>3 DEF FetchEnds, GiveUp
    <3> QED
      BY <1>0, <2>0, <3>1, TerminalizeMoves DEF Carried, Carries
  <2>4. CASE FetchDefers(w)
    BY <1>0, <2>0, <2>4, GotoMoves DEF FetchDefers, Carried, Carries
  <2>5. CASE Unlock(w)
    BY <1>0, <2>0, <2>5, GotoMoves DEF Unlock, Carried, Carries
  <2>6. CASE Relock(w)
    <3>1. u \notin lock
      BY <1>3, <2>6 DEF Relock, Carries
    <3> QED
      BY <1>0, <2>0, <2>6, <3>1, GotoMoves DEF Relock, Carried, Carries
  <2>7. CASE Schedule(w)
    <3>1. queue' = Enqueued(worker[w].unit, worker[w].attempt + 1)
      BY <2>7 DEF Schedule
    <3>2. worker[w].attempt + 1 \in Attempts
      BY <1>0, <2>7, ConstantsOK DEF Kept, Schedule, Requeue, Attempts
    <3> QED
      BY <2>0, <3>1, <3>2, EnqueuedMore DEF Carried
  <2>8. CASE FindJob(w)
    <3>1. HasJob(u) \/ Goto(w, "insert")
      BY <2>0, <2>8 DEF FindJob
    <3> QED
      BY <1>0, <1>j, <2>0, <3>1, GotoMoves DEF Carried, Carries
  <2>9. CASE InsertJob(w)
    <3>1. HasJob(u) \/ job' = [job EXCEPT ![u] = worker[w].outcome]
      BY <1>p, <2>0, <2>9 DEF InsertJob
    <3>2. worker[w].outcome # NoJob
      BY <1>0 DEF Worker, Outcomes, NoJob
    <3>3. HasJob(u)'
      BY <1>j, <3>1, <3>2 DEF HasJob, TypeOK
    <3> QED
      BY <3>3 DEF Carried
  <2>10. CASE \/ Release(w) \/ StoreRows(w) \/ BumpCounters(w) \/ StartRun(w)
              \/ CountJobs(w) \/ CloseRun(w)
    BY <1>3, <2>10 DEF Carries, Release, StoreRows, BumpCounters, StartRun, CountJobs, CloseRun
  <2> QED
    BY <2>1, <2>2, <2>3, <2>4, <2>5, <2>6, <2>7, <2>8, <2>9, <2>10 DEF WorkerStep
<1> QED
  BY <1>1, <1>2, <1>3 DEF Carried

LEMMA WorkerKeeps ==
    ASSUME TypeOK, Consistent, NotBegun, Kept, NEW w \in Workers, WorkerStep(w)
    PROVE  Kept'
<1> USE DEF sharedVars, dbVars, counters, rowVars, dspVars
<1>0. /\ worker[w].pc # "idle" /\ worker[w] \in Worker /\ OnlyMoves(w)
      /\ worker[w].unit \in Units /\ worker[w].attempt \in Attempts
  BY WorkerKeepsUnit DEF Worker
<1>1. UNCHANGED <<plan, removed, dpc, todo, dunit>>
  BY DEF WorkerStep, LoadUnit, CheckJob, FetchEnds, GiveUp, FetchDefers, Unlock, Relock,
         Schedule, Release, FindJob, InsertJob, StoreRows, BumpCounters, StartRun,
         CountJobs, CloseRun
<1>2. worker[w].unit \in plan \ todo
  BY <1>0 DEF Consistent, Planned, NotBegun
<1>3. lock' \subseteq lock \cup {worker[w].unit}
  BY DEF WorkerStep, LoadUnit, CheckJob, FetchEnds, GiveUp, FetchDefers, Unlock, Relock,
         Schedule, Release, FindJob, InsertJob, StoreRows, BumpCounters, StartRun,
         CountJobs, CloseRun
<1>4. \A u \in lock' : u \in plan' \ todo' \/ (dpc' = "push" /\ u = dunit')
  BY <1>1, <1>2, <1>3 DEF Kept
<1>5. \A u \in plan' \ todo' : Carried(u)'
  BY <1>1, WorkerCarries DEF Kept, TypeOK
<1>6. worker'[w].pc \in Requeue => worker'[w].attempt < MaxAttempts
  <2>1. CASE FetchDefers(w)
    BY <1>0, <2>1, ConstantsOK DEF FetchDefers, ShouldGiveUp, Goto, TypeOK, Worker, Attempts
  <2>2. CASE Unlock(w) \/ Relock(w)
    <3>1. worker[w].pc \in Requeue /\ \E label : Goto(w, label)
      BY <2>2 DEF Unlock, Relock, Requeue
    <3>2. worker'[w].attempt = worker[w].attempt
      BY <1>0, <3>1 DEF Goto, TypeOK, Worker
    <3> QED
      BY <3>1, <3>2 DEF Kept
  <2>3. CASE ~FetchDefers(w) /\ ~Unlock(w) /\ ~Relock(w)
    <3>1. \/ \E label : Goto(w, label) /\ label \notin Requeue
          \/ \E o, c : Terminalize(w, o, c)
          \/ worker' = [worker EXCEPT ![w] = Idle]
      BY <2>3 DEF WorkerStep, LoadUnit, CheckJob, FetchEnds, GiveUp, Schedule, Release, FindJob,
             InsertJob, StoreRows, BumpCounters, StartRun, CountJobs, CloseRun, Raise, Requeue
    <3>2. CASE worker' = [worker EXCEPT ![w] = Idle]
      BY <3>2 DEF TypeOK, Idle, Requeue
    <3> QED
      BY <1>0, <3>1, <3>2, GotoMoves, TerminalizeMoves DEF Requeue
  <2> QED
    BY <2>1, <2>2, <2>3
<1> QED
  BY <1>0, <1>1, <1>4, <1>5, <1>6 DEF Kept, OnlyMoves

LEMMA DispatchKeeps ==
    ASSUME TypeOK, Consistent, NotBegun, Kept, Dispatcher
    PROVE  Kept'
<1> USE DEF sharedVars, dbVars, counters, rowVars, dspVars
<1>1. CASE CreateRun
  <2>1. dpc = "idle" /\ plan = {}
    BY <1>1 DEF CreateRun, Consistent, Staged
  <2>2. lock = {}
    BY <2>1 DEF Kept
  <2> QED
    BY <1>1, <2>2 DEF CreateRun, Kept
<1>2. CASE CloseEmptyRun
  <2>1. plan = {} /\ todo = {} /\ dpc = "empty" /\ lock = {}
    BY <1>2 DEF CloseEmptyRun, Consistent, Staged, TypeOK, Kept
  <2> QED
    BY <1>2, <2>1 DEF CloseEmptyRun, Kept
<1>3. ASSUME NEW u \in Units, LockUnit(u) PROVE Kept'
  <2>1. u \in todo /\ u \notin lock
    BY <1>3 DEF LockUnit, Kept
  <2>2. /\ lock' = lock \cup {u} /\ dunit' = u /\ dpc' = "push" /\ dpc = "loop"
        /\ UNCHANGED <<plan, todo, removed, job, queue, worker>>
    BY <1>3, <2>1 DEF LockUnit
  <2>3. \A v \in lock' : v \in plan' \ todo' \/ (dpc' = "push" /\ v = dunit')
    BY <2>2 DEF Kept
  <2>4. ASSUME NEW v \in plan \ todo PROVE Carried(v)'
    <3>1. v # u /\ Carried(v)
      BY <2>1, <2>4 DEF Kept
    <3> QED
      BY <2>2, <3>1, CarriedRests DEF HasJob
  <2> QED
    BY <2>2, <2>3, <2>4 DEF Kept
<1>4. CASE PushUnit
  <2>1. /\ dpc = "push" /\ dunit \in todo /\ dunit \in Units /\ dunit \in plan
        /\ queue' = Enqueued(dunit, 0) /\ todo' = todo \ {dunit} /\ dpc' = "loop"
        /\ UNCHANGED <<plan, lock, removed, job, worker>>
    BY <1>4 DEF PushUnit, NotBegun, TypeOK
  <2>2. 0 \in Attempts
    BY ConstantsOK DEF Attempts
  <2>3. /\ queue'[dunit][0] > 0
        /\ \A v \in Units, b \in Attempts : queue[v][b] > 0 => queue'[v][b] > 0
    BY <2>1, <2>2, EnqueuedMore
  <2>4. ASSUME NEW v \in plan' \ todo' PROVE Carried(v)'
    <3>1. CASE v = dunit
      BY <2>2, <2>3, <3>1 DEF Carried
    <3>2. CASE v # dunit
      <4>1. Carried(v) /\ v \in Units
        BY <2>1, <3>2 DEF Kept, TypeOK
      <4> QED
        BY <2>1, <2>3, <4>1, CarriedRests DEF HasJob
    <3> QED
      BY <3>1, <3>2
  <2>5. \A v \in lock' : v \in plan' \ todo'
    BY <2>1 DEF Kept
  <2> QED
    BY <2>1, <2>4, <2>5 DEF Kept
<1>5. CASE MarkFailed
  BY <1>5 DEF MarkFailed, Kept
<1>6. CASE FinishDispatch
  <2>1. UNCHANGED <<plan, todo, lock, removed, job, queue, worker>> /\ dpc = "loop"
        /\ todo = {} /\ dpc' = "finished"
    BY <1>6 DEF FinishDispatch
  <2>2. \A v \in plan \ todo : Carried(v)'
    BY <2>1, CarriedRests DEF Kept, HasJob
  <2> QED
    BY <2>1, <2>2 DEF Kept
<1> QED
  BY <1>1, <1>2, <1>3, <1>4, <1>5, <1>6 DEF Dispatcher

LEMMA OthersKeep ==
    ASSUME TypeOK, NotBegun, Kept, Unharmed,
           \/ Environment \/ UNCHANGED vars
           \/ \E w \in Workers, u \in Units, a \in Attempts : Receive(w, u, a)
    PROVE  Kept'
<1> USE DEF sharedVars, dbVars, counters, rowVars, dspVars
<1>1. ASSUME NEW w \in Workers, NEW u \in Units, NEW a \in Attempts, Receive(w, u, a)
      PROVE  Kept'
  <2>1. /\ worker[w].pc = "idle" /\ worker'[w].pc = "load" /\ worker'[w].unit = u /\ OnlyMoves(w)
        /\ UNCHANGED <<plan, todo, dpc, dunit, lock, removed, job>>
    BY <1>1 DEF Receive, OnlyMoves, TypeOK, Idle
  <2>2. \A v \in Units \ {u} : queue'[v] = queue[v]
    BY <1>1 DEF Receive, TypeOK
  <2>3. worker[w].unit = NoUnit
    BY <2>1 DEF TypeOK, Idle, Worker, Busy, Entry, Requeue, Terminal
  <2>4. ASSUME NEW v \in plan \ todo PROVE Carried(v)'
    <3>1. CASE v = u
      BY <2>1, <3>1 DEF Carried, Carries
    <3>2. CASE v # u
      <4>1. Carried(v) /\ v \in Units /\ v # NoUnit
        BY ConstantsOK DEF Kept, TypeOK
      <4> QED
        BY <2>1, <2>2, <2>3, <3>2, <4>1, CarriedRests DEF HasJob, OnlyMoves
    <3> QED
      BY <3>1, <3>2
  <2>5. \A v \in Workers : worker'[v].pc \in Requeue => worker'[v].attempt < MaxAttempts
    BY <2>1 DEF Kept, OnlyMoves, Requeue
  <2> QED
    BY <2>1, <2>4, <2>5 DEF Kept
<1>2. CASE UNCHANGED <<plan, todo, dpc, dunit, removed, job, worker>> /\ lock' \subseteq lock
           /\ \A u \in Units, a \in Attempts : queue[u][a] > 0 => queue'[u][a] > 0
  <2>1. \A v \in plan \ todo : v \in Units /\ Carried(v)
    BY DEF Kept, TypeOK
  <2>2. \A v \in plan \ todo : Carried(v)'
    BY <1>2, <2>1, CarriedRests DEF HasJob
  <2> QED
    BY <1>2, <2>2 DEF Kept
<1>3. ASSUME NEW w \in Workers, Redeliver(w) PROVE Kept'
  <2>1. worker[w].unit \in Units /\ worker[w].attempt \in Attempts
    BY <1>3, BusyIsWorker DEF Redeliver, Worker
  <2> QED
    BY <1>2, <1>3, <2>1, EnqueuedMore DEF Redeliver
<1>4. CASE WallClockPasses \/ UNCHANGED vars \/ \E u \in Units : LockExpires(u)
  <2>1. UNCHANGED <<plan, todo, dpc, dunit, removed, job, worker, queue>>
    BY <1>4 DEF WallClockPasses, LockExpires, vars
  <2>2. lock' \subseteq lock
    BY <1>4 DEF WallClockPasses, LockExpires, vars
  <2> QED
    BY <1>2, <2>1, <2>2
<1>5. /\ ~DispatchRaises /\ ~DispatcherDies /\ ~ConsumerDies
      /\ ~\E w \in Workers : StatementFails(w)
      /\ ~\E u \in Units : RemoveItemSource(u) \/ PurgeOwner(u)
  BY DEF Unharmed, DispatchRaises, DispatcherDies, ConsumerDies, StatementFails,
         RemoveItemSource, PurgeOwner
<1> QED
  BY <1>1, <1>3, <1>4, <1>5 DEF Environment

LEMMA UndamagedIsUnharmed ==
    ASSUME Undamaged, NeverSpent
    PROVE  Unharmed
<1>1. {"crash", "fault", "lostack", "remove"} \subseteq Hazards \ {"any"}
  BY DEF Hazards
<1>2. left["crash"] = 0 /\ left["fault"] = 0 /\ left["lostack"] = 0 /\ left["remove"] = 0
  BY <1>1, LimitOf DEF Undamaged, NeverSpent
<1> QED
  BY <1>2 DEF Unharmed, Spend

LEMMA KeptAlways ==
    ASSUME Undamaged
    PROVE  Spec => []Kept
<1>1. Init => Kept
  BY DEF Init, Kept, Undamaged, Idle, Requeue
<1>2. TypeOK /\ Consistent /\ NotBegun /\ NeverSpent /\ Kept /\ [Next]_vars => Kept'
  BY UndamagedIsUnharmed, WorkerKeeps, DispatchKeeps, OthersKeep DEF Next
<1>3. MaxLostAcks = 0
  BY DEF Undamaged
<1>4. Spec => []NotBegun
  BY <1>3, BegunInTurn
<1> QED
  BY <1>1, <1>2, <1>4, BoundsKept, TypeCorrect, AlwaysAccounted, PTL DEF Spec

(* Whatever duplicates are delivered and keys expire, and though the        *)
(* duplicates release and take each other's keys: a unit the dispatcher has *)
(* handled has its FetchJob, or a copy of its task, or a worker.            *)
THEOREM NoUnitIsLost ==
    ASSUME Undamaged
    PROVE  Spec => []NoUnitLost
<1>1. Kept => NoUnitLost
  BY DEF Kept, Carried, Carries, NoUnitLost
<1> QED
  BY <1>1, KeptAlways, PTL
-----------------------------------------------------------------------------
(* What a counter adds up to.  Every FetchJob whose outcome is in S is      *)
(* counted, or its worker stands between the insert and the count.          *)
Window(S) == {w \in InFlight : worker[w].outcome \in S}
Jobs(S) == {u \in Units : job[u] \in S}
Tally(S, n) == n + Cardinality(Window(S)) = Cardinality(Jobs(S))

(* The three counters are exact in this sense, and a job that says "stored" *)
(* has its rows, or the worker that is about to insert them.                *)
Tallies ==
    /\ Tally(Outcomes, completed)
    /\ Tally({"stored"}, resultCount)
    /\ Tally({"error"}, errorCount)
RowsFollow ==
    \A u \in Units : job[u] = "stored" =>
        rows[u] = 1 \/ \E w \in Workers : worker[w].unit = u /\ worker[w].pc = "store"

(* A recorded run is done, or a worker is still on its way to closing it;   *)
(* and that worker finds the run running, or done by another.               *)
ToBeClosed ==
    /\ status # "failed"
    /\ \A w \in Workers : worker[w].pc \in {"count", "flip"} => status \in {"running", "done"}
    /\ dpc \notin {"idle", "empty"} /\ recorded = plan =>
          status = "done" \/ \E w \in Workers : worker[w].pc \in Recorded

LEMMA FiniteTally ==
    ASSUME TypeOK, NEW S
    PROVE  /\ IsFiniteSet(Window(S)) /\ Cardinality(Window(S)) \in Nat
           /\ IsFiniteSet(Jobs(S)) /\ Cardinality(Jobs(S)) \in Nat
<1>1. Window(S) \in SUBSET Workers /\ Jobs(S) \in SUBSET Units
  BY DEF Window, InFlight, Jobs
<1> QED
  BY <1>1, ConstantsOK, FS_Subset, FS_CardinalityType

(* Moving along fetch_one keeps the outcome a worker is to record.          *)
LEMMA GotoKeepsOutcome ==
    ASSUME TypeOK, NEW w \in Workers, worker[w].pc # "idle", NEW label, Goto(w, label)
    PROVE  worker'[w].outcome = worker[w].outcome
<1>1. worker[w] \in Worker /\ worker \in [Workers -> Worker \cup {Idle}]
  BY BusyIsWorker DEF TypeOK
<1> QED
  BY <1>1 DEF Goto, Worker

(* A step that records nothing, counts nothing and moves nobody into the    *)
(* window or out of it.                                                     *)
LEMMA TalliesRest ==
    ASSUME Tallies, UNCHANGED <<job, counters>>,
           \A w \in Workers :
              \/ worker'[w] = worker[w]
              \/ worker[w].pc \notin {"store", "bump"} /\ worker'[w].pc \notin {"store", "bump"}
              \/ /\ worker[w].pc \in {"store", "bump"} /\ worker'[w].pc \in {"store", "bump"}
                 /\ worker'[w].outcome = worker[w].outcome
    PROVE  Tallies'
<1>1. InFlight' = InFlight /\ \A w \in InFlight : worker'[w].outcome = worker[w].outcome
  BY DEF InFlight
<1>2. ASSUME NEW S PROVE Window(S)' = Window(S) /\ Jobs(S)' = Jobs(S)
  BY <1>1 DEF Window, Jobs
<1> QED
  BY <1>2 DEF Tallies, Tally, counters

(* The insert of a FetchJob brings its worker into the window.              *)
LEMMA InsertTallies ==
    ASSUME TypeOK, NEW w \in Workers, OnlyMoves(w), NEW u \in Units, ~HasJob(u),
           worker[w].pc = "insert", worker'[w].pc \in {"store", "bump"},
           worker'[w].outcome = worker[w].outcome,
           job' = [job EXCEPT ![u] = worker[w].outcome],
           NEW S \in SUBSET Outcomes, NEW n \in Nat, Tally(S, n)
    PROVE  n + Cardinality(Window(S)') = Cardinality(Jobs(S)')
<1>1. w \notin Window(S) /\ u \notin Jobs(S)
  BY DEF Window, InFlight, Jobs, HasJob, NoJob, Outcomes
<1>2. CASE worker[w].outcome \in S
  <2>1. Window(S)' = Window(S) \cup {w}
    BY <1>2 DEF Window, InFlight, OnlyMoves
  <2>2. Jobs(S)' = Jobs(S) \cup {u}
    BY <1>2 DEF Jobs, TypeOK
  <2>3. /\ Cardinality(Window(S) \cup {w}) = Cardinality(Window(S)) + 1
        /\ Cardinality(Jobs(S) \cup {u}) = Cardinality(Jobs(S)) + 1
    BY <1>1, FiniteTally, FS_AddElement
  <2> QED
    BY <2>1, <2>2, <2>3, FiniteTally DEF Tally
<1>3. CASE worker[w].outcome \notin S
  <2>1. Window(S)' = Window(S)
    BY <1>1, <1>3 DEF Window, InFlight, OnlyMoves
  <2>2. Jobs(S)' = Jobs(S)
    BY <1>1, <1>3 DEF Jobs, TypeOK
  <2> QED
    BY <2>1, <2>2 DEF Tally
<1> QED
  BY <1>2, <1>3

(* The count takes its worker out of the window.                            *)
LEMMA BumpTallies ==
    ASSUME TypeOK, NEW w \in Workers, OnlyMoves(w), UNCHANGED job,
           worker[w].pc = "bump", worker'[w].pc = "start",
           NEW S, NEW n \in Nat, Tally(S, n)
    PROVE  (n + (IF worker[w].outcome \in S THEN 1 ELSE 0)) + Cardinality(Window(S)')
             = Cardinality(Jobs(S)')
<1>1. Jobs(S)' = Jobs(S)
  BY DEF Jobs
<1>2. CASE worker[w].outcome \in S
  <2>1. w \in Window(S) /\ Window(S)' = Window(S) \ {w}
    BY <1>2 DEF Window, InFlight, OnlyMoves
  <2>2. Cardinality(Window(S) \ {w}) = Cardinality(Window(S)) - 1
    BY <2>1, FiniteTally, FS_RemoveElement
  <2> QED
    BY <1>1, <1>2, <2>1, <2>2, FiniteTally DEF Tally
<1>3. CASE worker[w].outcome \notin S
  <2>1. Window(S)' = Window(S)
    BY <1>3 DEF Window, InFlight, OnlyMoves
  <2> QED
    BY <1>1, <1>3, <2>1, FiniteTally DEF Tally
<1> QED
  BY <1>2, <1>3

LEMMA WorkerTallies ==
    ASSUME TypeOK, Kept, Tallies, NEW w \in Workers, WorkerStep(w)
    PROVE  Tallies'
<1> USE DEF sharedVars, dbVars, counters, rowVars, dspVars
<1>0. worker[w].pc # "idle" /\ worker[w] \in Worker /\ OnlyMoves(w) /\ worker[w].unit \in Units
  BY WorkerKeepsUnit DEF Worker
<1>p. worker[w].unit \notin purged
  BY DEF Kept, TypeOK
<1>n. completed \in Nat /\ resultCount \in Nat /\ errorCount \in Nat
  BY DEF TypeOK
<1>1. CASE InsertJob(w) /\ ~HasJob(worker[w].unit)
  <2> DEFINE u == worker[w].unit
  <2>1. /\ UNCHANGED counters /\ worker[w].pc = "insert"
        /\ job' = [job EXCEPT ![u] = worker[w].outcome]
        /\ Goto(w, IF worker[w].outcome = "stored" THEN "store" ELSE "bump")
    BY <1>1, <1>p DEF InsertJob
  <2>2. worker'[w].pc \in {"store", "bump"} /\ worker'[w].outcome = worker[w].outcome
    BY <1>0, <2>1, GotoMoves, GotoKeepsOutcome
  <2>3. ASSUME NEW S \in SUBSET Outcomes, NEW n \in Nat, Tally(S, n)
        PROVE  n + Cardinality(Window(S)') = Cardinality(Jobs(S)')
    BY <1>0, <1>1, <2>1, <2>2, <2>3, InsertTallies
  <2>4. /\ completed + Cardinality(Window(Outcomes)') = Cardinality(Jobs(Outcomes)')
        /\ resultCount + Cardinality(Window({"stored"})') = Cardinality(Jobs({"stored"})')
        /\ errorCount + Cardinality(Window({"error"})') = Cardinality(Jobs({"error"})')
    BY <1>n, <2>3 DEF Tallies, Outcomes
  <2> QED
    BY <2>1, <2>4 DEF Tallies, Tally
<1>2. CASE BumpCounters(w)
  <2>1. /\ UNCHANGED job /\ worker[w].pc = "bump" /\ Goto(w, "start")
        /\ completed' = completed + 1
        /\ resultCount' = resultCount + (IF worker[w].outcome \in {"stored"} THEN 1 ELSE 0)
        /\ errorCount' = errorCount + (IF worker[w].outcome \in {"error"} THEN 1 ELSE 0)
    BY <1>2 DEF BumpCounters
  <2>2. worker'[w].pc = "start" /\ worker[w].outcome \in Outcomes
    BY <1>0, <2>1, GotoMoves DEF Worker
  <2>3. ASSUME NEW S, NEW n \in Nat, Tally(S, n)
        PROVE  (n + (IF worker[w].outcome \in S THEN 1 ELSE 0)) + Cardinality(Window(S)')
                 = Cardinality(Jobs(S)')
    BY <1>0, <2>1, <2>2, <2>3, BumpTallies
  <2>4. completed' = completed + (IF worker[w].outcome \in Outcomes THEN 1 ELSE 0)
    BY <2>1, <2>2
  <2>5. /\ completed' + Cardinality(Window(Outcomes)') = Cardinality(Jobs(Outcomes)')
        /\ resultCount' + Cardinality(Window({"stored"})') = Cardinality(Jobs({"stored"})')
        /\ errorCount' + Cardinality(Window({"error"})') = Cardinality(Jobs({"error"})')
    BY <1>n, <2>1, <2>3, <2>4 DEF Tallies
  <2> QED
    BY <2>5 DEF Tallies, Tally
<1>3. CASE StoreRows(w)
  <2>1. UNCHANGED <<job, counters>> /\ worker[w].pc = "store" /\ Goto(w, "bump")
    BY <1>3, <1>p DEF StoreRows
  <2>2. worker'[w].pc = "bump" /\ worker'[w].outcome = worker[w].outcome
    BY <1>0, <2>1, GotoMoves, GotoKeepsOutcome
  <2> QED
    BY <1>0, <2>1, <2>2, TalliesRest DEF OnlyMoves
<1>4. CASE ~BumpCounters(w) /\ ~StoreRows(w) /\ ~(InsertJob(w) /\ ~HasJob(worker[w].unit))
  <2>1. UNCHANGED <<job, counters>> /\ worker[w].pc \notin {"store", "bump"}
    BY <1>4 DEF WorkerStep, LoadUnit, CheckJob, FetchEnds, GiveUp, FetchDefers, Unlock, Relock,
         Schedule, Release, FindJob, InsertJob, StartRun, CountJobs, CloseRun
  <2>2. \/ \E label : Goto(w, label) /\ label \notin {"store", "bump"}
        \/ \E o, c : Terminalize(w, o, c)
        \/ worker' = [worker EXCEPT ![w] = Idle]
    BY <1>4 DEF WorkerStep, LoadUnit, CheckJob, FetchEnds, GiveUp, FetchDefers, Unlock, Relock,
         Schedule, Release, FindJob, InsertJob, StartRun, CountJobs, CloseRun
  <2>3. worker'[w].pc \notin {"store", "bump"}
    <3>1. CASE worker' = [worker EXCEPT ![w] = Idle]
      BY <3>1 DEF TypeOK, Idle
    <3> QED
      BY <1>0, <2>2, <3>1, GotoMoves, TerminalizeMoves
  <2> QED
    BY <1>0, <2>1, <2>3, TalliesRest DEF OnlyMoves
<1> QED
  BY <1>1, <1>2, <1>3, <1>4

LEMMA OthersTally ==
    ASSUME TypeOK, Tallies, Unharmed,
           \/ Dispatcher \/ Environment \/ UNCHANGED vars
           \/ \E w \in Workers, u \in Units, a \in Attempts : Receive(w, u, a)
    PROVE  Tallies'
<1> USE DEF sharedVars, dbVars, counters, rowVars, dspVars
<1>1. ASSUME NEW w \in Workers, NEW u \in Units, NEW a \in Attempts, Receive(w, u, a)
      PROVE  Tallies'
  <2>1. /\ worker[w].pc = "idle" /\ worker'[w].pc = "load" /\ OnlyMoves(w)
        /\ UNCHANGED <<job, counters>>
    BY <1>1 DEF Receive, OnlyMoves, TypeOK, Idle
  <2> QED
    BY <2>1, TalliesRest DEF OnlyMoves
<1>2. CASE Dispatcher
  <2>1. UNCHANGED <<job, counters, worker>>
    BY <1>2 DEF Dispatcher, CreateRun, CloseEmptyRun, PushUnit, MarkFailed, FinishDispatch, LockUnit
  <2> QED
    BY <2>1, TalliesRest
<1>3. CASE Environment \/ UNCHANGED vars
  <2>1. UNCHANGED <<job, counters, worker>>
    BY <1>3 DEF Environment, DispatchRaises, DispatcherDies, ConsumerDies, WallClockPasses,
         StatementFails, Redeliver, LockExpires, RemoveItemSource, PurgeOwner, Unharmed, vars
  <2> QED
    BY <2>1, TalliesRest
<1> QED
  BY <1>1, <1>2, <1>3

LEMMA RowsFollowKept ==
    ASSUME TypeOK, Kept, RowsFollow, StoredOnce', Unharmed, [Next]_vars
    PROVE  RowsFollow'
<1> USE DEF sharedVars, dbVars, counters, rowVars, dspVars
<1>1. ASSUME UNCHANGED <<job, rows>>,
             \A w \in Workers : worker[w].pc = "store" => worker'[w] = worker[w]
      PROVE  RowsFollow'
  BY <1>1 DEF RowsFollow
<1>2. ASSUME NEW w \in Workers, WorkerStep(w) PROVE RowsFollow'
  <2>0. worker[w].pc # "idle" /\ worker[w] \in Worker /\ OnlyMoves(w) /\ worker[w].unit \in Units
    BY <1>2, WorkerKeepsUnit DEF Worker
  <2>p. worker[w].unit \notin purged
    BY DEF Kept, TypeOK
  <2> DEFINE u == worker[w].unit
  <2>1. CASE InsertJob(w) /\ ~HasJob(u)
    <3>1. /\ UNCHANGED rows /\ worker[w].pc = "insert"
          /\ job' = [job EXCEPT ![u] = worker[w].outcome]
          /\ Goto(w, IF worker[w].outcome = "stored" THEN "store" ELSE "bump")
      BY <2>1, <2>p DEF InsertJob
    <3>2. ASSUME NEW v \in Units, job'[v] = "stored"
          PROVE  rows'[v] = 1 \/ \E x \in Workers : worker'[x].unit = v /\ worker'[x].pc = "store"
      <4>1. CASE v = u
        <5>1. worker[w].outcome = "stored"
          BY <2>0, <3>1, <3>2, <4>1 DEF TypeOK
        <5> QED
          BY <2>0, <3>1, <4>1, <5>1, GotoMoves
      <4>2. CASE v # u
        BY <2>0, <3>1, <3>2, <4>2 DEF TypeOK, RowsFollow, OnlyMoves
      <4> QED
        BY <4>1, <4>2
    <3> QED
      BY <3>2 DEF RowsFollow
  <2>2. CASE StoreRows(w)
    <3>1. /\ UNCHANGED job /\ worker[w].pc = "store"
          /\ rows' = [rows EXCEPT ![u] = @ + 1]
      BY <2>2, <2>p DEF StoreRows
    <3>2. rows'[u] = rows[u] + 1 /\ rows[u] \in Nat /\ rows'[u] <= 1
      BY <2>0, <3>1 DEF TypeOK, StoredOnce
    <3>3. rows'[u] = 1
      BY <3>2
    <3>4. \A v \in Units \ {u} : rows'[v] = rows[v]
      BY <3>1 DEF TypeOK
    <3> QED
      BY <2>0, <3>1, <3>3, <3>4 DEF RowsFollow, OnlyMoves
  <2>3. CASE ~StoreRows(w) /\ ~(InsertJob(w) /\ ~HasJob(u))
    <3>1. UNCHANGED <<job, rows>> /\ worker[w].pc # "store"
      BY <1>2, <2>3 DEF WorkerStep, LoadUnit, CheckJob, FetchEnds, GiveUp, FetchDefers, Unlock,
           Relock, Schedule, Release, FindJob, InsertJob, BumpCounters, StartRun, CountJobs, CloseRun
    <3> QED
      BY <1>1, <2>0, <3>1 DEF OnlyMoves
  <2> QED
    BY <2>1, <2>2, <2>3
<1>3. ASSUME NEW w \in Workers, NEW u \in Units, NEW a \in Attempts, Receive(w, u, a)
      PROVE  RowsFollow'
  <2>1. worker[w].pc = "idle" /\ OnlyMoves(w) /\ UNCHANGED <<job, rows>>
    BY <1>3 DEF Receive, OnlyMoves, TypeOK
  <2> QED
    BY <1>1, <2>1 DEF OnlyMoves
<1>4. CASE Dispatcher
  <2>1. UNCHANGED <<job, rows, worker>>
    BY <1>4 DEF Dispatcher, CreateRun, CloseEmptyRun, PushUnit, MarkFailed, FinishDispatch, LockUnit
  <2> QED
    BY <1>1, <2>1
<1>5. CASE Environment \/ UNCHANGED vars
  <2>1. UNCHANGED <<job, rows, worker>>
    BY <1>5 DEF Environment, DispatchRaises, DispatcherDies, ConsumerDies, WallClockPasses,
         StatementFails, Redeliver, LockExpires, RemoveItemSource, PurgeOwner, Unharmed, vars
  <2> QED
    BY <1>1, <2>1
<1> QED
  BY <1>2, <1>3, <1>4, <1>5 DEF Next

(* With no row deleted, the FetchJobs are exactly those of the recorded     *)
(* units, so the worker that counts after the last insert counts them all.  *)
LEMMA JobRowsRecorded ==
    ASSUME TypeOK, Consistent, Kept
    PROVE  JobRows = recorded
BY DEF TypeOK, Consistent, Accounted, Kept, JobRows

LEMMA ToBeClosedKept ==
    ASSUME TypeOK, Consistent, Kept, ToBeClosed, Unharmed, [Next]_vars
    PROVE  ToBeClosed'
<1> USE DEF sharedVars, dbVars, counters, rowVars, dspVars
<1>1. ASSUME UNCHANGED <<plan, status, recorded>>, dpc' \in {"idle", "empty"} <=> dpc \in {"idle", "empty"},
             \A w \in Workers : \/ worker'[w] = worker[w]
                                \/ worker'[w].pc \notin Recorded /\ worker[w].pc \notin Recorded
      PROVE  ToBeClosed'
  BY <1>1 DEF ToBeClosed, Recorded
<1>2. ASSUME NEW w \in Workers, WorkerStep(w) PROVE ToBeClosed'
  <2>0. worker[w].pc # "idle" /\ worker[w] \in Worker /\ OnlyMoves(w) /\ worker[w].unit \in Units
    BY <1>2, WorkerKeepsUnit DEF Worker
  <2>p. worker[w].unit \notin purged
    BY DEF Kept, TypeOK
  <2>q. UNCHANGED <<plan, dpc>>
    BY <1>2 DEF WorkerStep, LoadUnit, CheckJob, FetchEnds, GiveUp, FetchDefers, Unlock, Relock,
         Schedule, Release, FindJob, InsertJob, StoreRows, BumpCounters, StartRun, CountJobs, CloseRun
  <2>s. status \in {"pending", "running", "done"}
    <3>1. plan # {}
      BY <2>0 DEF Consistent, Planned
    <3>2. status # "none"
      BY <3>1 DEF Consistent, Staged
    <3> QED
      BY <3>2 DEF ToBeClosed, TypeOK, Statuses
  <2>1. CASE (InsertJob(w) /\ ~HasJob(worker[w].unit)) \/ StoreRows(w) \/ BumpCounters(w)
    <3>1. \E label \in {"store", "bump", "start"} : Goto(w, label)
      BY <2>1, <2>p DEF InsertJob, StoreRows, BumpCounters
    <3>2. worker'[w].pc \in {"store", "bump", "start"}
      BY <2>0, <3>1, GotoMoves
    <3>3. UNCHANGED status
      BY <2>1 DEF InsertJob, StoreRows, BumpCounters
    <3> QED
      BY <2>0, <3>2, <3>3 DEF ToBeClosed, OnlyMoves, Recorded
  <2>2. CASE StartRun(w)
    <3>1. /\ status' = IF status = "pending" THEN "running" ELSE status
          /\ worker'[w].pc = "count"
      BY <2>0, <2>2, GotoMoves DEF StartRun
    <3>2. status' \in {"running", "done"}
      BY <2>s, <3>1
    <3> QED
      BY <2>0, <3>1, <3>2 DEF ToBeClosed, OnlyMoves, Recorded
  <2>3. CASE CountJobs(w)
    <3>1. UNCHANGED <<status, recorded>> /\ worker[w].pc = "count"
      BY <2>3 DEF CountJobs
    <3>2. worker'[w].pc = IF Cardinality(JobRows) >= Total THEN "flip" ELSE "release"
      BY <2>0, <2>3, GotoMoves DEF CountJobs
    <3>3. recorded = plan => worker'[w].pc = "flip"
      BY <3>2, JobRowsRecorded, FiniteCounts DEF Total
    <3>4. status \in {"running", "done"}
      BY <3>1 DEF ToBeClosed
    <3> QED
      BY <2>0, <2>q, <3>1, <3>3, <3>4 DEF ToBeClosed, OnlyMoves, Recorded
  <2>4. CASE CloseRun(w)
    <3>1. status' = (IF status = "running" THEN "done" ELSE status) /\ worker[w].pc = "flip"
      BY <2>4 DEF CloseRun
    <3>2. status' = "done"
      BY <3>1 DEF ToBeClosed
    <3> QED
      BY <3>2 DEF ToBeClosed
  <2>5. CASE /\ ~(InsertJob(w) /\ ~HasJob(worker[w].unit)) /\ ~StoreRows(w) /\ ~BumpCounters(w)
             /\ ~StartRun(w) /\ ~CountJobs(w) /\ ~CloseRun(w)
    <3>1. UNCHANGED <<status, recorded>> /\ worker[w].pc \notin Recorded
      BY <1>2, <2>5 DEF WorkerStep, LoadUnit, CheckJob, FetchEnds, GiveUp, FetchDefers, Unlock,
           Relock, Schedule, Release, FindJob, InsertJob, Recorded
    <3>2. \/ \E label : Goto(w, label) /\ label \notin Recorded
          \/ \E o, c : Terminalize(w, o, c)
          \/ worker' = [worker EXCEPT ![w] = Idle]
      BY <1>2, <2>5 DEF WorkerStep, LoadUnit, CheckJob, FetchEnds, GiveUp, FetchDefers, Unlock,
           Relock, Schedule, Release, FindJob, InsertJob, Recorded
    <3>3. worker'[w].pc \notin Recorded
      <4>1. CASE worker' = [worker EXCEPT ![w] = Idle]
        BY <4>1 DEF TypeOK, Idle, Recorded
      <4> QED
        BY <2>0, <3>2, <4>1, GotoMoves, TerminalizeMoves DEF Recorded
    <3> QED
      BY <1>1, <2>0, <2>q, <3>1, <3>3 DEF OnlyMoves
  <2> QED
    BY <1>2, <2>1, <2>2, <2>3, <2>4, <2>5
<1>3. ASSUME NEW w \in Workers, NEW u \in Units, NEW a \in Attempts, Receive(w, u, a)
      PROVE  ToBeClosed'
  <2>1. /\ worker[w].pc = "idle" /\ worker'[w].pc = "load" /\ OnlyMoves(w)
        /\ UNCHANGED <<plan, status, recorded, dpc>>
    BY <1>3 DEF Receive, OnlyMoves, TypeOK, Idle
  <2> QED
    BY <1>1, <2>1 DEF OnlyMoves, Recorded
<1>4. CASE CreateRun
  <2>1. /\ plan = {} /\ recorded = {} /\ status' = "pending" /\ recorded' = {}
        /\ dpc' = (IF plan' = {} THEN "empty" ELSE "loop")
        /\ UNCHANGED worker
    BY <1>4 DEF CreateRun, Consistent, Staged, Planned
  <2>2. \A w \in Workers : worker[w].pc = "idle"
    BY <2>1 DEF Consistent, Planned
  <2> QED
    BY <2>1, <2>2 DEF ToBeClosed
<1>5. CASE CloseEmptyRun
  BY <1>5 DEF CloseEmptyRun, ToBeClosed
<1>6. CASE PushUnit \/ FinishDispatch \/ \E u \in Units : LockUnit(u)
  <2>1. UNCHANGED <<plan, status, recorded, worker>> /\ dpc \notin {"idle", "empty"}
        /\ dpc' \notin {"idle", "empty"}
    BY <1>6 DEF PushUnit, FinishDispatch, LockUnit
  <2> QED
    BY <1>1, <2>1
<1>7. CASE MarkFailed
  BY <1>7 DEF MarkFailed, Kept
<1>8. CASE Environment \/ UNCHANGED vars
  <2>1. UNCHANGED <<plan, status, recorded, dpc, worker>>
    BY <1>8 DEF Environment, DispatchRaises, DispatcherDies, ConsumerDies, WallClockPasses,
         StatementFails, Redeliver, LockExpires, RemoveItemSource, PurgeOwner, Unharmed, vars
  <2> QED
    BY <1>1, <2>1
<1> QED
  BY <1>2, <1>3, <1>4, <1>5, <1>6, <1>7, <1>8 DEF Next, Dispatcher

LEMMA TalliesAlways ==
    ASSUME Undamaged
    PROVE  Spec => [](Tallies /\ RowsFollow /\ ToBeClosed)
<1>1. Init => Tallies /\ RowsFollow /\ ToBeClosed
  <2> SUFFICES ASSUME Init PROVE Tallies /\ RowsFollow /\ ToBeClosed
    OBVIOUS
  <2>1. ASSUME NEW S \in SUBSET Outcomes PROVE Tally(S, 0)
    <3>1. Window(S) = {} /\ Jobs(S) = {}
      BY DEF Init, Window, InFlight, Idle, Jobs, Outcomes, NoJob
    <3> QED
      BY <3>1, FS_EmptySet DEF Tally
  <2>2. Tallies
    BY <2>1 DEF Init, Tallies, Outcomes
  <2> QED
    BY <2>2 DEF Init, RowsFollow, ToBeClosed, NoJob, Idle
<1>2. /\ TypeOK /\ Consistent /\ NeverSpent /\ Kept /\ StoredOnce'
      /\ Tallies /\ RowsFollow /\ ToBeClosed /\ [Next]_vars
      => (Tallies /\ RowsFollow /\ ToBeClosed)'
  BY UndamagedIsUnharmed, WorkerTallies, OthersTally, RowsFollowKept, ToBeClosedKept DEF Next
<1>3. Spec => []Kept
  BY KeptAlways
<1> QED
  BY <1>1, <1>2, <1>3, BoundsKept, TypeCorrect, AlwaysAccounted, RowsStoredOnce, PTL DEF Spec

(* When such a run has come to rest it is done, and total, stored and error *)
(* counters are exactly what its FetchJob and SearchResult rows add up to,  *)
(* whatever was delivered twice and whichever keys ran out.                 *)
THEOREM CountersAddUp ==
    ASSUME Undamaged
    PROVE  Spec => []CountersExact
<1>1. /\ TypeOK /\ Consistent /\ StoredOnce /\ Kept /\ Tallies /\ RowsFollow /\ ToBeClosed
      => CountersExact
  <2> SUFFICES ASSUME TypeOK, Consistent, StoredOnce, Kept, Tallies, RowsFollow, ToBeClosed, Quiescent
               PROVE  /\ status = "done"
                      /\ completed = Total
                      /\ resultCount = Cardinality({u \in plan : job[u] = "stored"})
                      /\ resultCount = Cardinality({u \in plan : rows[u] = 1})
                      /\ errorCount = Cardinality({u \in plan : job[u] = "error"})
    BY DEF CountersExact
  <2>1. \A w \in Workers : worker[w] = Idle
    BY DEF Quiescent
  <2>2. \A u \in plan : HasJob(u)
    <3>1. todo = {} /\ plan \subseteq Units /\ NoUnit \notin Units
      BY ConstantsOK DEF Quiescent, Kept, TypeOK
    <3>2. \A u \in Units, a \in Attempts : ~(queue[u][a] > 0)
      BY DEF Quiescent, EmptyQueue
    <3>3. \A u \in Units, w \in Workers : ~Carries(w, u)
      BY <2>1, <3>1 DEF Carries, Idle
    <3> QED
      BY <3>1, <3>2, <3>3 DEF Kept, Carried
  <2>3. recorded = plan
    BY <2>2 DEF Consistent, Planned, Accounted, TypeOK
  <2>4. status = "done"
    BY <2>1, <2>3 DEF ToBeClosed, Quiescent, Idle, Recorded
  <2>5. ASSUME NEW S, NEW n \in Nat, Tally(S, n) PROVE n = Cardinality(Jobs(S))
    <3>1. Window(S) = {}
      BY <2>1 DEF Window, InFlight, Idle
    <3> QED
      BY <2>5, <3>1, FS_EmptySet, FiniteTally DEF Tally
  <2>6. /\ completed = Cardinality(Jobs(Outcomes))
        /\ resultCount = Cardinality(Jobs({"stored"}))
        /\ errorCount = Cardinality(Jobs({"error"}))
    BY <2>5 DEF Tallies, TypeOK
  <2>7. Jobs(Outcomes) = plan
    BY <2>2, JobRowsRecorded, <2>3 DEF Jobs, JobRows, HasJob, TypeOK, NoJob, Outcomes
  <2>8. \A u \in Units : job[u] \in {"stored", "error"} => u \in plan
    BY <2>7 DEF Jobs, Outcomes
  <2>9. /\ Jobs({"stored"}) = {u \in plan : job[u] = "stored"}
        /\ Jobs({"error"}) = {u \in plan : job[u] = "error"}
    BY <2>8 DEF Jobs, TypeOK
  <2>10. \A u \in plan : job[u] = "stored" <=> rows[u] = 1
    BY <2>1 DEF RowsFollow, StoredOnce, Idle, TypeOK
  <2>11. {u \in plan : rows[u] = 1} = {u \in plan : job[u] = "stored"}
    BY <2>10
  <2> QED
    BY <2>4, <2>6, <2>7, <2>9, <2>11 DEF Total
<1>2. Spec => [](Tallies /\ RowsFollow /\ ToBeClosed)
  BY TalliesAlways
<1>3. Spec => []Kept
  BY KeptAlways
<1> QED
  BY <1>1, <1>2, <1>3, TypeCorrect, AlwaysAccounted, RowsStoredOnce, PTL
=============================================================================

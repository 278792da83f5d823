-------------------------- MODULE DemoReset_proofs --------------------------
(***************************************************************************)
(* Proofs about the demo sandbox (DemoReset.tla), for any number of        *)
(* threads and any intervals: the seed survives, no reset runs under an    *)
(* active visitor, resets and update runs keep their distance, whoever     *)
(* finds the reset due is served fresh data, and the caps are exceeded by  *)
(* no more than simultaneous submissions add.                              *)
(*                                                                         *)
(* The three invariants need each other: Strong is inductive.  Most steps  *)
(* only give one thread a new record; Fits says which records are safe.    *)
(***************************************************************************)
EXTENDS DemoReset, FiniteSetTheorems, TLAPS

Strong == IInv /\ NeverUnderActive /\ FreshWhenDue

\* A record that a thread which does not reset can be given at any time.
Fits(r) ==
    /\ r \in Request /\ r.at <= now
    /\ r.stage \notin {"idle", "view", "writing"} => now <= r.at + MaxLag
    /\ r.stage # "resetting"
    /\ r.stage = "writing" => r.adds > 0
    /\ r.stage = "due" => r.fresh \/ r.at - lastReset >= MinInterval
    /\ r.stage = "looked" /\ ~r.failed => r.fresh \/ handled > r.at - (Idle + WriteInterval)

still == <<now, up, state, data, lock, depth, faults, restarts>>

\* A thread that does not reset moves on to a record that fits.
LEMMA MoveKeeps ==
    ASSUME Strong, NEW w \in Workers, NEW r, Fits(r), up, ~At(w, "resetting"),
           Moves(w, r), UNCHANGED still, handled' = handled
    PROVE  Strong'
<1> USE ConstantsOK DEF Strong, IInv, state, data, still, At, Moves, Fits
<1>1. r \in Request /\ req \in [Workers -> Request] BY DEF TypeOK, RequestType
<1>2. req' \in [Workers -> Request] /\ req'[w] = r
      /\ \A v \in Workers \ {w} : req'[v] = req[v]  BY <1>1
<1>3. TypeOK'  BY <1>2 DEF TypeOK, ClockType, StateType, DataType, LockType, RequestType, Times
<1>4. ReadingsAreRecent'  BY <1>2 DEF ReadingsAreRecent
<1>5. LockIsHeld'  BY <1>2 DEF LockIsHeld
<1>6. SeedIsIntact'  BY <1>2 DEF SeedIsIntact
<1>7. ActivityTrails'  BY DEF ActivityTrails
<1>8. ResetIsDue' /\ DueUntilReset'  BY <1>2 DEF ResetIsDue, DueUntilReset
<1>9. NeverUnderActive'
  <2> SUFFICES ASSUME NEW v \in Workers, lock = v, handled # NoTime
               PROVE  req'[v].at - handled >= Idle + WriteInterval - Trail
      BY DEF NeverUnderActive
  <2> QED  BY <1>2 DEF NeverUnderActive, LockIsHeld
<1>10. FreshWhenDue'  BY <1>2 DEF FreshWhenDue
<1> QED  BY <1>3, <1>4, <1>5, <1>6, <1>7, <1>8, <1>9, <1>10

\* A thread is let through: handled may grow, but not past what recorded activity trails,
\* and not to within Idle of a reset that runs.
LEMMA LetThroughKeeps ==
    ASSUME Strong, NEW w \in Workers, up, At(w, "arrived") \/ At(w, "looked"),
           ~MustMark(req[w].at), LetThrough(w), UNCHANGED still
    PROVE  Strong'
<1> USE ConstantsOK DEF Strong, IInv, state, data, still, At, Moves, LetThrough, NoTime
<1> DEFINE at == req[w].at
<1>1. /\ InView \in Request /\ InView.stage = "view"
      /\ req \in [Workers -> Request] /\ handled \in Times /\ activity \in Times /\ now \in Nat
      BY DEF TypeOK, RequestType, StateType, ClockType, InView, NoRequest, Request, Stages
<1>2. req' \in [Workers -> Request] /\ req'[w].stage = "view" /\ req'[w].at = 0
      /\ \A v \in Workers \ {w} : req'[v] = req[v]  BY <1>1 DEF InView, NoRequest
<1>a. at \in Nat /\ at <= now  BY <1>1 DEF Request, ReadingsAreRecent
<1>b. activity # NoTime /\ activity \in Nat /\ at - activity < WriteInterval
      BY <1>1, <1>a DEF MustMark, Times
<1>c. handled' \in Nat /\ handled' >= handled /\ handled' >= at /\ (handled' = at \/ handled' = handled)
      BY <1>1, <1>a DEF Times
<1>d. Trail \in Nat /\ Trail >= WriteInterval  BY DEF Trail
<1> HIDE DEF at
<1>3. TypeOK'  BY <1>2, <1>c DEF TypeOK, ClockType, StateType, DataType, LockType, RequestType, Times
<1>4. ReadingsAreRecent'  BY <1>1, <1>2 DEF ReadingsAreRecent
<1>5. LockIsHeld'  BY <1>2 DEF LockIsHeld
<1>6. SeedIsIntact'  BY <1>2 DEF SeedIsIntact
<1>7. ActivityTrails'  BY <1>1, <1>a, <1>b, <1>c, <1>d DEF ActivityTrails, Times
<1>8. ResetIsDue' /\ DueUntilReset'  BY <1>2 DEF ResetIsDue, DueUntilReset
<1>9. NeverUnderActive'
  <2> SUFFICES ASSUME NEW v \in Workers, lock = v
               PROVE  req[v].at - handled' >= Idle + WriteInterval - Trail
      BY <1>2 DEF NeverUnderActive, LockIsHeld
  <2>1. At(v, "resetting") /\ req[v].at \in Nat  BY <1>1 DEF LockIsHeld, Request
  <2>2. req[v].at - activity >= Idle + WriteInterval  BY <2>1, <1>b DEF ResetIsDue
  <2>3. CASE handled' = at  BY <2>1, <2>2, <2>3, <1>a, <1>b, <1>d
  <2>4. CASE handled' = handled
    <3>1. handled # NoTime  BY <1>b DEF ActivityTrails
    <3> QED  BY <2>4, <3>1 DEF NeverUnderActive
  <2> QED  BY <2>3, <2>4, <1>c
<1>10. FreshWhenDue'  BY <1>1, <1>2, <1>c DEF FreshWhenDue, Request, Times
<1> QED  BY <1>3, <1>4, <1>5, <1>6, <1>7, <1>8, <1>9, <1>10

\* Activity is recorded, perhaps an older one than before: no reset runs, and what is
\* recorded is at most MaxLag old.
LEMMA MarkKeeps ==
    ASSUME Strong, NEW w \in Workers, Mark(w), up  PROVE  Strong'
<1> USE ConstantsOK DEF Strong, IInv, state, data, still, At, Moves, LetThrough, NoTime, Mark
<1>1. /\ InView \in Request /\ InView.stage = "view"
      /\ req \in [Workers -> Request] /\ handled \in Times /\ activity \in Times /\ now \in Nat
      BY DEF TypeOK, RequestType, StateType, ClockType, InView, NoRequest, Request, Stages
<1>2. req' \in [Workers -> Request] /\ req'[w].stage = "view" /\ req'[w].at = 0
      /\ \A v \in Workers \ {w} : req'[v] = req[v]  BY <1>1 DEF InView, NoRequest
<1>a. activity' \in Nat /\ activity' <= now /\ now <= activity' + MaxLag
      BY <1>1 DEF Request, ReadingsAreRecent
<1>b. handled' \in Nat /\ handled' >= handled /\ handled' >= activity'
      /\ (handled' = activity' \/ handled' = handled)
      BY <1>1, <1>a DEF Times
<1>c. Trail \in Nat /\ Trail >= MaxLag  BY DEF Trail
<1>d. \A v \in Workers : ~At(v, "resetting") /\ lock # v  BY DEF LockIsHeld
<1>3. TypeOK'  BY <1>2, <1>a, <1>b DEF TypeOK, ClockType, StateType, DataType, LockType, RequestType, Times
<1>4. ReadingsAreRecent'  BY <1>1, <1>2 DEF ReadingsAreRecent
<1>5. LockIsHeld'  BY <1>2 DEF LockIsHeld
<1>6. SeedIsIntact'  BY <1>2 DEF SeedIsIntact
<1>7. ActivityTrails'  BY <1>1, <1>a, <1>b, <1>c DEF ActivityTrails, Times
<1>8. ResetIsDue' /\ DueUntilReset'  BY <1>2, <1>d DEF ResetIsDue, DueUntilReset
<1>9. NeverUnderActive'  BY <1>d DEF NeverUnderActive
<1>10. FreshWhenDue'  BY <1>1, <1>2, <1>b DEF FreshWhenDue, Request, Times
<1> QED  BY <1>3, <1>4, <1>5, <1>6, <1>7, <1>8, <1>9, <1>10

\* A reset begins: due by the state it read under the lock, it is late enough after
\* everything handled.
LEMMA BeginKeeps ==
    ASSUME Strong, NEW w \in Workers, BeginReset(w), up  PROVE  Strong'
<1> USE ConstantsOK DEF At
<1>1. /\ req \in [Workers -> Request] /\ req[w] \in Request /\ req[w].at \in Nat
      /\ handled \in Times /\ activity \in Times /\ lastReset \in Nat /\ now \in Nat
      BY DEF Strong, IInv, TypeOK, RequestType, StateType, ClockType, Request, Times
<1>2. CASE IsStillDue(req[w].at)
  <2> DEFINE r == [req[w] EXCEPT !.stage = "resetting"]
  <2>1. r \in Request /\ r.stage = "resetting" /\ r.at = req[w].at  BY <1>1 DEF Request, Stages
  <2> HIDE DEF r
  <2>2. /\ req' = [req EXCEPT ![w] = r] /\ lock = Nobody /\ lock' = w /\ depth' = [depth EXCEPT ![w] = 1]
        /\ UNCHANGED <<now, up, state, data, handled, faults, restarts>>
        BY <1>2 DEF BeginReset, Moves, r
  <2>3. req' \in [Workers -> Request] /\ req'[w] = r /\ \A v \in Workers \ {w} : req'[v] = req[v]
        BY <1>1, <2>1, <2>2
  <2>4. /\ activity = NoTime \/ req[w].at - activity >= Idle + WriteInterval
        /\ req[w].at - lastReset >= MinInterval
        BY <1>1, <1>2 DEF IsStillDue, IsDue, NoTime
  <2>5. \A v \in Workers : ~At(v, "resetting")  BY <2>2 DEF Strong, IInv, LockIsHeld
  <2> USE <2>2 DEF Strong, IInv, state, data
  <2>6. TypeOK'  BY <2>3 DEF TypeOK, ClockType, StateType, DataType, LockType, RequestType, Times
  <2>7. ReadingsAreRecent'  BY <2>1, <2>3 DEF ReadingsAreRecent, BeginReset
  <2>8. LockIsHeld'  BY <2>1, <2>3, <2>5 DEF LockIsHeld, TypeOK, LockType
  <2>9. SeedIsIntact'  BY <2>1, <2>3 DEF SeedIsIntact
  <2>10. ActivityTrails'  BY DEF ActivityTrails
  <2>11. ResetIsDue' /\ DueUntilReset'  BY <2>1, <2>3, <2>4, <2>5 DEF ResetIsDue, DueUntilReset
  <2>12. NeverUnderActive'
    <3> SUFFICES ASSUME handled # NoTime
                 PROVE  req[w].at - handled >= Idle + WriteInterval - Trail
        BY <2>1, <2>3 DEF NeverUnderActive
    <3> QED  BY <1>1, <2>4 DEF ActivityTrails, Times, NoTime, Trail
  <2>13. FreshWhenDue'  BY <2>1, <2>3 DEF FreshWhenDue
  <2> QED  BY <2>6, <2>7, <2>8, <2>9, <2>10, <2>11, <2>12, <2>13
<1>3. CASE ~IsStillDue(req[w].at)
  <2> DEFINE r == [req[w] EXCEPT !.stage = "looked"]
  <2>1. /\ r \in Request /\ r.stage = "looked" /\ r.at = req[w].at
        /\ r.fresh = req[w].fresh /\ r.failed = req[w].failed  BY <1>1 DEF Request, Stages
  <2>2. ~req[w].fresh => handled > req[w].at - (Idle + WriteInterval)
    <3> HAVE ~req[w].fresh
    <3>1. req[w].at - lastReset >= MinInterval
          BY DEF BeginReset, Strong, IInv, DueUntilReset
    <3>2. activity # NoTime /\ ~(req[w].at - activity >= Idle + WriteInterval)
          BY <1>3, <3>1 DEF IsStillDue, IsDue
    <3> QED  BY <1>1, <3>2 DEF Strong, IInv, ActivityTrails, Times, NoTime
  <2> HIDE DEF r
  <2>3. Fits(r)  BY <1>1, <2>1, <2>2 DEF Fits, Strong, IInv, ReadingsAreRecent, BeginReset
  <2> QED  BY <1>3, <2>3, MoveKeeps DEF BeginReset, Moves, still, r
<1> QED  BY <1>2, <1>3

\* A reset ends: the seed is restored, and whoever waits for a reset of his own got one.
LEMMA CommitKeeps ==
    ASSUME Strong, NEW w \in Workers, CommitReset(w), up  PROVE  Strong'
<1> USE ConstantsOK DEF At, Strong, IInv
<1>1. /\ req \in [Workers -> Request] /\ \A v \in Workers : req[v] \in Request /\ req[v].at \in Nat
      /\ depth \in [Workers -> {0, 1}]
      BY DEF TypeOK, RequestType, LockType, Request
<1>2. \A v \in Workers :
        /\ req'[v] \in Request /\ req'[v].at = req[v].at /\ req'[v].adds = req[v].adds
        /\ req'[v].stage = IF v = w THEN "looked" ELSE req[v].stage
        /\ req'[v].failed = req[v].failed
        /\ req[v].fresh \/ v = w \/ req[v].stage = "due" => req'[v].fresh
        /\ req[v].stage # "due" /\ v # w => req'[v] = req[v]
      BY <1>1 DEF CommitReset, Request, Stages
<1>3. req' \in [Workers -> Request]  BY <1>1, <1>2 DEF CommitReset
<1>4. /\ lock = w /\ lock' = Nobody /\ depth' = [depth EXCEPT ![w] = 0]
      /\ \A v \in Workers \ {w} : ~At(v, "resetting") /\ depth[v] = 0
      BY <1>1 DEF CommitReset, LockIsHeld
<1>5. /\ lastReset' = req[w].at /\ items' = 0 /\ seed' = "seed" /\ At(w, "resetting")
      /\ UNCHANGED <<now, up, activity, lastUpdate, handled, faults, restarts>>
      BY DEF CommitReset, Wiped, Seeded
<1>6. TypeOK'  BY <1>1, <1>3, <1>4, <1>5 DEF TypeOK, ClockType, StateType, DataType, LockType, RequestType, Times
<1>7. ReadingsAreRecent'  BY <1>2, <1>5 DEF ReadingsAreRecent
<1>8. LockIsHeld'  BY <1>1, <1>2, <1>4, <1>5 DEF LockIsHeld
<1>9. SeedIsIntact'  BY <1>2, <1>5 DEF SeedIsIntact
<1>10. ActivityTrails'  BY <1>5 DEF ActivityTrails
<1>11. ResetIsDue' /\ DueUntilReset'  BY <1>2, <1>4 DEF ResetIsDue, DueUntilReset
<1>12. NeverUnderActive'  BY <1>4 DEF NeverUnderActive
<1>13. FreshWhenDue'  BY <1>2, <1>5 DEF FreshWhenDue
<1>14. lastReset' # NoTime  BY <1>1, <1>5 DEF NoTime
<1> QED  BY <1>6, <1>7, <1>8, <1>9, <1>10, <1>11, <1>12, <1>13, <1>14

\* The reset fails: everything is as before, and the thread goes on with the old data.
LEMMA FailKeeps ==
    ASSUME Strong, NEW w \in Workers, FailReset(w), up  PROVE  Strong'
<1> USE ConstantsOK DEF At, Strong, IInv, FailReset, Moves, state, data
<1> DEFINE r == [req[w] EXCEPT !.stage = "looked", !.failed = TRUE]
<1>1. /\ r \in Request /\ r.stage = "looked" /\ r.failed /\ r.at = req[w].at
      /\ req \in [Workers -> Request] /\ depth \in [Workers -> {0, 1}]
      BY DEF TypeOK, RequestType, LockType, Request, Stages
<1>2. req' = [req EXCEPT ![w] = r]  OBVIOUS
<1> HIDE DEF r
<1>3. req' \in [Workers -> Request] /\ req'[w] = r /\ \A v \in Workers \ {w} : req'[v] = req[v]
      BY <1>1, <1>2
<1>4. /\ lock = w /\ lock' = Nobody /\ depth' = [depth EXCEPT ![w] = 0]
      /\ \A v \in Workers \ {w} : ~At(v, "resetting") /\ depth[v] = 0
      BY <1>1 DEF LockIsHeld
<1>6. TypeOK'  BY <1>1, <1>3, <1>4 DEF TypeOK, ClockType, StateType, DataType, LockType, RequestType, Times
<1>7. ReadingsAreRecent'  BY <1>1, <1>3 DEF ReadingsAreRecent
<1>8. LockIsHeld'  BY <1>1, <1>3, <1>4 DEF LockIsHeld
<1>9. SeedIsIntact'  BY <1>1, <1>3 DEF SeedIsIntact
<1>10. ActivityTrails'  BY DEF ActivityTrails
<1>11. ResetIsDue' /\ DueUntilReset'  BY <1>1, <1>3, <1>4 DEF ResetIsDue, DueUntilReset
<1>12. NeverUnderActive'  BY <1>4 DEF NeverUnderActive
<1>13. FreshWhenDue'  BY <1>1, <1>3 DEF FreshWhenDue
<1> QED  BY <1>6, <1>7, <1>8, <1>9, <1>10, <1>11, <1>12, <1>13

\* Records that fit whatever the state is.
LEMMA FreeRecords ==
    ASSUME Strong
    PROVE  /\ Fits(NoRequest) /\ Fits(InView)
           /\ Fits([NoRequest EXCEPT !.stage = "arrived", !.at = now])
           /\ Fits([NoRequest EXCEPT !.stage = "claiming", !.at = now])
           /\ \A n \in 1..MaxAdd : Fits([InView EXCEPT !.stage = "writing", !.adds = n])
<1>1. now \in Nat /\ MaxLag \in Nat /\ MaxAdd \in Nat
      BY ConstantsOK DEF Strong, IInv, TypeOK, ClockType
<1>2. ASSUME NEW r \in Request, r.at <= now,
             r.stage \in {"idle", "view"} \/ (r.stage \in {"arrived", "claiming"} /\ r.at = now)
             \/ (r.stage = "writing" /\ r.adds > 0)
      PROVE  Fits(r)
      BY <1>1, <1>2 DEF Fits, Request
<1>3. Fits(NoRequest) /\ Fits(InView)
  <2>1. NoRequest \in Request /\ NoRequest.at = 0 /\ NoRequest.stage = "idle"
        BY DEF NoRequest, Request, Stages
  <2>2. InView \in Request /\ InView.at = 0 /\ InView.stage = "view"
        BY DEF InView, NoRequest, Request, Stages
  <2> QED  BY <1>1, <1>2, <2>1, <2>2
<1>4. ASSUME NEW stage \in {"arrived", "claiming"}
      PROVE  Fits([NoRequest EXCEPT !.stage = stage, !.at = now])
  <2> DEFINE r == [NoRequest EXCEPT !.stage = stage, !.at = now]
  <2>1. r \in Request /\ r.at = now /\ r.stage = stage
        BY <1>1 DEF NoRequest, Request, Stages
  <2> HIDE DEF r
  <2>2. Fits(r)  BY <1>1, <1>2, <2>1
  <2> QED  BY <2>2 DEF r
<1>5. ASSUME NEW n \in 1..MaxAdd
      PROVE  Fits([InView EXCEPT !.stage = "writing", !.adds = n])
  <2> DEFINE r == [InView EXCEPT !.stage = "writing", !.adds = n]
  <2>0. n \in Nat /\ n > 0  BY <1>1
  <2>a. InView \in Request /\ InView.at = 0  BY DEF InView, NoRequest, Request, Stages
  <2>1. r \in Request /\ r.at = 0 /\ r.stage = "writing" /\ r.adds = n
        BY <2>0, <2>a DEF Request, Stages
  <2> HIDE DEF r
  <2>2. Fits(r)  BY <1>1, <1>2, <2>0, <2>1
  <2> QED  BY <2>2 DEF r
<1> QED  BY <1>3, <1>4, <1>5

\* The moves of the middleware that leave the shared state alone.
LEMMA MiddlewareKeeps ==
    ASSUME Strong, NEW w \in Workers, up,
           \/ Arrive(w) \/ Look(w) \/ WaitTimesOut(w) \/ LookAgain(w) \/ MarkTimesOut(w)
    PROVE  Strong'
<1>0. /\ req[w] \in Request /\ req[w].at \in Nat /\ req[w].at <= now
      /\ req[w].stage \notin {"idle", "view", "writing"} => now <= req[w].at + MaxLag
      /\ lastReset \in Nat
      BY DEF Strong, IInv, TypeOK, RequestType, StateType, Times, NoTime, Request, ReadingsAreRecent
<1>1. CASE Arrive(w)
      BY <1>1, MoveKeeps, FreeRecords DEF Arrive, still, At
<1>a. ASSUME At(w, "arrived") \/ At(w, "looked"), MarkOrLetThrough(w), UNCHANGED still  PROVE Strong'
  <2> DEFINE r == [req[w] EXCEPT !.stage = "marking"]
  <2>1. Fits(r)  BY <1>0, <1>a DEF Fits, Request, Stages, At
  <2>2. CASE MustMark(req[w].at)
    <3>1. Moves(w, r) /\ handled' = handled  BY <1>a, <2>2 DEF MarkOrLetThrough
    <3> HIDE DEF r
    <3> QED  BY <1>a, <2>1, <3>1, MoveKeeps DEF At
  <2>3. CASE ~MustMark(req[w].at)
        BY <1>a, <2>3, LetThroughKeeps DEF MarkOrLetThrough
  <2> QED  BY <2>2, <2>3
<1>2. CASE Look(w)
  <2>1. CASE IsDue(req[w].at)
    <3> DEFINE r == [req[w] EXCEPT !.stage = "due"]
    <3>1. req[w].at - lastReset >= MinInterval
          BY <1>0, <2>1 DEF IsDue, Strong, IInv, NoTime
    <3>2. Fits(r)  BY <1>0, <1>2, <3>1 DEF Fits, Look, Request, Stages, At
    <3>3. Moves(w, r) /\ handled' = handled  BY <1>2, <2>1 DEF Look
    <3> HIDE DEF r
    <3> QED  BY <1>2, <3>2, <3>3, MoveKeeps DEF Look, At, still
  <2>2. CASE ~IsDue(req[w].at)  BY <1>2, <1>a, <2>2 DEF Look, still
  <2> QED  BY <2>1, <2>2
<1>3. CASE WaitTimesOut(w)
  <2> DEFINE r == [req[w] EXCEPT !.stage = "looked", !.failed = TRUE]
  <2>1. Fits(r)  BY <1>0, <1>3 DEF Fits, WaitTimesOut, Request, Stages, At
  <2>2. Moves(w, r)  BY <1>3 DEF WaitTimesOut
  <2> HIDE DEF r
  <2> QED  BY <1>3, <2>1, <2>2, MoveKeeps DEF WaitTimesOut, At, still
<1>4. CASE LookAgain(w)  BY <1>4, <1>a DEF LookAgain, still
<1>5. CASE MarkTimesOut(w)  BY <1>5, MoveKeeps, FreeRecords DEF MarkTimesOut, still, At
<1> QED  BY <1>1, <1>2, <1>3, <1>4, <1>5

\* The moves of the views; no view may write a seed row.
LEMMA ViewKeeps ==
    ASSUME Strong, NEW w \in Workers, up,
           Leave(w) \/ Add(w) \/ TouchSeed(w) \/ AskSlot(w)
    PROVE  Strong'
<1>1. CASE Leave(w)  BY <1>1, MoveKeeps, FreeRecords DEF Leave, still, At
<1>2. CASE Add(w)
  <2>1. PICK n \in 1..MaxAdd :
          Moves(w, IF HasRoom(n) THEN [InView EXCEPT !.stage = "writing", !.adds = n] ELSE NoRequest)
        BY <1>2 DEF Add
  <2> QED  BY <1>2, <2>1, MoveKeeps, FreeRecords DEF Add, still, At
<1>3. CASE TouchSeed(w)
  <2>1. ~SeedWritesAllowed(w)
        BY <1>3 DEF TouchSeed, SeedWritesAllowed, Strong, IInv, LockIsHeld, TypeOK, LockType, At
  <2>2. Moves(w, NoRequest)  BY <1>3, <2>1 DEF TouchSeed
  <2> QED  BY <1>3, <2>2, MoveKeeps, FreeRecords DEF TouchSeed, still, At
<1>4. CASE AskSlot(w)  BY <1>4, MoveKeeps, FreeRecords DEF AskSlot, still, At
<1> QED  BY <1>1, <1>2, <1>3, <1>4

\* What the views write: items, and the claim of the update slot.
LEMMA WriteKeeps ==
    ASSUME Strong, NEW w \in Workers, up, Write(w) \/ ClaimSlot(w)
    PROVE  Strong'
<1> USE ConstantsOK DEF At, Strong, IInv, Moves, state, data
<1>1. /\ NoRequest \in Request /\ NoRequest.stage = "idle" /\ NoRequest.at = 0
      /\ req \in [Workers -> Request] /\ req[w].at \in Nat /\ req[w].adds \in Nat
      BY DEF NoRequest, Request, Stages, TypeOK, RequestType
<1>2. /\ req' = [req EXCEPT ![w] = NoRequest] /\ req[w].stage # "resetting"
      /\ UNCHANGED <<now, up, lastReset, activity, lock, depth, handled, faults, restarts>>
      BY DEF Write, ClaimSlot
<1>3. req' \in [Workers -> Request] /\ req'[w] = NoRequest
      /\ \A v \in Workers \ {w} : req'[v] = req[v]  BY <1>1, <1>2
<1>4. items' \in Nat /\ seed' = seed /\ lastUpdate' \in Times
  <2>1. items \in Nat /\ lastUpdate \in Times  BY DEF TypeOK, DataType, StateType
  <2>2. CASE Write(w)
    <3>1. req[w].adds > 0  BY <2>2 DEF Write, SeedIsIntact
    <3>2. seed' = seed /\ items' = items + req[w].adds /\ lastUpdate' = lastUpdate  BY <1>1, <2>2, <3>1 DEF Write
    <3> QED  BY <1>1, <2>1, <3>2
  <2>3. CASE ClaimSlot(w)
    <3>1. items' = items /\ seed' = seed  BY <2>3 DEF ClaimSlot
    <3>2. lastUpdate' = req[w].at \/ lastUpdate' = lastUpdate  BY <2>3 DEF ClaimSlot
    <3> QED  BY <1>1, <2>1, <3>1, <3>2 DEF Times
  <2> QED  BY <2>2, <2>3
<1>6. TypeOK'  BY <1>2, <1>3, <1>4 DEF TypeOK, ClockType, StateType, DataType, LockType, RequestType
<1>7. ReadingsAreRecent'  BY <1>1, <1>2, <1>3 DEF ReadingsAreRecent, TypeOK, ClockType
<1>8. LockIsHeld'  BY <1>1, <1>2, <1>3 DEF LockIsHeld
<1>9. SeedIsIntact'  BY <1>1, <1>2, <1>3, <1>4 DEF SeedIsIntact
<1>10. ActivityTrails'  BY <1>2 DEF ActivityTrails
<1>11. ResetIsDue' /\ DueUntilReset'  BY <1>1, <1>2, <1>3 DEF ResetIsDue, DueUntilReset
<1>12. NeverUnderActive'  BY <1>1, <1>2, <1>3 DEF NeverUnderActive, LockIsHeld
<1>13. FreshWhenDue'  BY <1>1, <1>2, <1>3 DEF FreshWhenDue
<1> QED  BY <1>2, <1>6, <1>7, <1>8, <1>9, <1>10, <1>11, <1>12, <1>13

\* The clock and the process: a stop leaves no request and no lock behind.
LEMMA ProcessKeeps ==
    ASSUME Strong, Tick \/ Stop \/ Boot
    PROVE  Strong'
<1> USE ConstantsOK DEF At, Strong, IInv, state, data
<1>0. now \in Nat  BY DEF TypeOK, ClockType
<1>1. CASE Tick
  <2> USE <1>1 DEF Tick
  <2>1. TypeOK'  BY DEF TypeOK, ClockType, StateType, DataType, LockType, RequestType, Times
  <2>2. ReadingsAreRecent'  BY <1>0 DEF ReadingsAreRecent, TypeOK, RequestType, Request
  <2>3. LockIsHeld' /\ SeedIsIntact'  BY DEF LockIsHeld, SeedIsIntact
  <2>4. ActivityTrails'  BY <1>0 DEF ActivityTrails, TypeOK, StateType, Times, NoTime
  <2>5. ResetIsDue' /\ DueUntilReset'  BY DEF ResetIsDue, DueUntilReset
  <2>6. NeverUnderActive' /\ FreshWhenDue'  BY DEF NeverUnderActive, FreshWhenDue
  <2> QED  BY <2>1, <2>2, <2>3, <2>4, <2>5, <2>6
<1>2. CASE Stop
  <2> USE <1>2 DEF Stop
  <2>1. NoRequest \in Request /\ NoRequest.stage = "idle" /\ NoRequest.at = 0
        BY DEF NoRequest, Request, Stages
  <2>2. \A w \in Workers : req'[w] = NoRequest /\ depth'[w] = 0  OBVIOUS
  <2>3. TypeOK'
    <3>0. restarts' \in 0..MaxRestarts
      <4>1. restarts \in 0..MaxRestarts /\ MaxRestarts \in Nat  BY DEF TypeOK, ClockType
      <4> QED  BY <4>1
    <3>1. ClockType' /\ StateType' /\ DataType'  BY <3>0 DEF TypeOK, ClockType, StateType, DataType, Times
    <3>2. LockType'  BY DEF LockType
    <3>3. RequestType'  BY <2>1 DEF RequestType
    <3> QED  BY <3>1, <3>2, <3>3 DEF TypeOK
  <2>4. ReadingsAreRecent'  BY <1>0, <2>1, <2>2 DEF ReadingsAreRecent
  <2>5. LockIsHeld' /\ SeedIsIntact'  BY <2>1, <2>2 DEF LockIsHeld, SeedIsIntact
  <2>6. ActivityTrails'  BY DEF ActivityTrails
  <2>7. ResetIsDue' /\ DueUntilReset'  BY <2>1, <2>2 DEF ResetIsDue, DueUntilReset
  <2>8. NeverUnderActive' /\ FreshWhenDue'  BY <2>1, <2>2 DEF NeverUnderActive, FreshWhenDue
  <2> QED  BY <2>3, <2>4, <2>5, <2>6, <2>7, <2>8
<1>3. CASE Boot
  <2> USE <1>3 DEF Boot, Wiped, Seeded
  <2>1. lock = Nobody /\ \A w \in Workers : req[w].stage = "idle"  BY DEF LockIsHeld
  <2>2. TypeOK'  BY <1>0 DEF TypeOK, ClockType, StateType, DataType, LockType, RequestType, Times
  <2>3. ReadingsAreRecent'  BY DEF ReadingsAreRecent
  <2>4. LockIsHeld' /\ SeedIsIntact'  BY <2>1 DEF LockIsHeld, SeedIsIntact
  <2>5. ActivityTrails'  BY DEF ActivityTrails
  <2>6. ResetIsDue' /\ DueUntilReset'  BY <2>1 DEF ResetIsDue, DueUntilReset
  <2>7. NeverUnderActive' /\ FreshWhenDue'  BY <2>1 DEF NeverUnderActive, FreshWhenDue
  <2>8. lastReset' # NoTime  BY <1>0 DEF NoTime
  <2> QED  BY <2>2, <2>3, <2>4, <2>5, <2>6, <2>7, <2>8
<1> QED  BY <1>1, <1>2, <1>3

\* The actions of threads; they all need the process up.
ThreadStep(w) ==
    \/ Arrive(w) \/ Look(w) \/ BeginReset(w) \/ CommitReset(w) \/ FailReset(w)
    \/ WaitTimesOut(w) \/ LookAgain(w) \/ Mark(w) \/ MarkTimesOut(w)
    \/ Leave(w) \/ Add(w) \/ TouchSeed(w) \/ Write(w) \/ AskSlot(w) \/ ClaimSlot(w)

LEMMA ThreadsRunWhenUp ==
    ASSUME Strong, NEW w \in Workers, ThreadStep(w)  PROVE  up
  BY DEF ThreadStep, Strong, IInv, LockIsHeld, At, Arrive, Look, BeginReset, CommitReset, FailReset,
         WaitTimesOut, LookAgain, Mark, MarkTimesOut, Leave, Add, TouchSeed, Write, AskSlot, ClaimSlot

LEMMA StrongInit == Init => Strong
<1> SUFFICES ASSUME Init PROVE Strong  OBVIOUS
<1> USE ConstantsOK DEF Init, At
<1>1. NoRequest \in Request /\ NoRequest.stage = "idle" /\ NoRequest.at = 0
      BY DEF NoRequest, Request, Stages
<1>2. TypeOK
  <2>0. MaxFaults \in Nat /\ MaxRestarts \in Nat  OBVIOUS
  <2>1. ClockType
    <3>1. now \in Nat /\ faults \in 0..MaxFaults /\ restarts \in 0..MaxRestarts  BY <2>0
    <3>2. up \in BOOLEAN  OBVIOUS
    <3> QED  BY <3>1, <3>2 DEF ClockType
  <2>2. StateType /\ DataType  BY DEF StateType, DataType, Times
  <2>3. LockType /\ RequestType  BY <1>1 DEF LockType, RequestType
  <2> QED  BY <2>1, <2>2, <2>3 DEF TypeOK
<1>3. ReadingsAreRecent /\ LockIsHeld /\ SeedIsIntact
      BY <1>1 DEF ReadingsAreRecent, LockIsHeld, SeedIsIntact
<1>4. ActivityTrails /\ ResetIsDue /\ DueUntilReset
      BY <1>1 DEF ActivityTrails, ResetIsDue, DueUntilReset, NoTime
<1>5. NeverUnderActive /\ FreshWhenDue  BY <1>1 DEF NeverUnderActive, FreshWhenDue
<1> QED  BY <1>2, <1>3, <1>4, <1>5 DEF Strong, IInv

LEMMA NextKeepsStrong == Strong /\ [Next]_vars => Strong'
<1> SUFFICES ASSUME Strong, [Next]_vars PROVE Strong'  OBVIOUS
<1>1. CASE UNCHANGED vars
  <2> USE <1>1 DEF vars, state, data, At
  <2>1. TypeOK' /\ ReadingsAreRecent' /\ LockIsHeld' /\ SeedIsIntact'
        BY DEF Strong, IInv, TypeOK, ClockType, StateType, DataType, LockType, RequestType,
               ReadingsAreRecent, LockIsHeld, SeedIsIntact
  <2>2. ActivityTrails' /\ ResetIsDue' /\ DueUntilReset' /\ NeverUnderActive' /\ FreshWhenDue'
        BY DEF Strong, IInv, ActivityTrails, ResetIsDue, DueUntilReset, NeverUnderActive, FreshWhenDue
  <2> QED  BY <2>1, <2>2 DEF Strong, IInv
<1>2. CASE Tick \/ Stop \/ Boot  BY <1>2, ProcessKeeps
<1>3. ASSUME NEW w \in Workers, ThreadStep(w)  PROVE Strong'
      BY <1>3, ThreadsRunWhenUp, BeginKeeps, CommitKeeps, FailKeeps, MarkKeeps,
         MiddlewareKeeps, ViewKeeps, WriteKeeps DEF ThreadStep
<1> QED  BY <1>1, <1>2, <1>3 DEF Next, ThreadStep

\* The invariant of the sandbox, with the seed intact while the process serves.
THEOREM InvariantHolds == Spec => []IInv
<1>1. Strong => IInv  BY DEF Strong
<1> QED  BY <1>1, StrongInit, NextKeepsStrong, PTL DEF Spec

\* No reset runs while a request has been handled within the idle time, less what a slow
\* request may take beyond the write interval.
THEOREM ResetsSpareVisitors == Spec => []NeverUnderActive
<1>1. Strong => NeverUnderActive  BY DEF Strong
<1> QED  BY <1>1, StrongInit, NextKeepsStrong, PTL DEF Spec

\* Whoever finds the reset due is served fresh data, however many find it due at once.
THEOREM DueMeansFresh == Spec => []FreshWhenDue
<1>1. Strong => FreshWhenDue  BY DEF Strong
<1> QED  BY <1>1, StrongInit, NextKeepsStrong, PTL DEF Spec

\* The step property behind GatesHold.
Gates ==
    /\ up /\ lastReset' # lastReset => lastReset' - lastReset >= MinInterval
    /\ lastUpdate # NoTime /\ lastUpdate' # lastUpdate => lastUpdate' - lastUpdate >= UpdateInterval

\* Resets of the running process, and update runs, keep their distance.
THEOREM DistancesAreKept == Spec => GatesHold
<1>1. Strong /\ [Next]_vars => [Gates]_vars
  <2> SUFFICES ASSUME Strong, Next PROVE Gates  BY DEF Gates
  <2>1. CASE Tick \/ Stop \/ Boot  BY <2>1 DEF Tick, Stop, Boot, state, Gates
  <2>2. ASSUME NEW w \in Workers, ThreadStep(w)  PROVE Gates
    <3>1. CASE CommitReset(w)
          BY <3>1 DEF CommitReset, Gates, Strong, IInv, ResetIsDue
    <3>2. CASE ClaimSlot(w)
      <4>1. req[w].at \in Nat /\ lastUpdate \in Times /\ UpdateInterval \in Nat
            BY ConstantsOK DEF Strong, IInv, TypeOK, RequestType, StateType, Request
      <4> QED  BY <3>2, <4>1 DEF ClaimSlot, SlotIsFree, Gates, Times, NoTime
    <3>3. CASE ~CommitReset(w) /\ ~ClaimSlot(w)
      <4>1. lastReset' = lastReset /\ lastUpdate' = lastUpdate
            BY <2>2, <3>3 DEF ThreadStep, state, Arrive, Look, BeginReset, FailReset, WaitTimesOut,
               LookAgain, Mark, MarkTimesOut, Leave, Add, TouchSeed, Write, AskSlot
      <4> QED  BY <4>1 DEF Gates
    <3> QED  BY <3>1, <3>2, <3>3
  <2> QED  BY <2>1, <2>2 DEF Next, ThreadStep
<1> QED  BY <1>1, StrongInit, NextKeepsStrong, PTL DEF Spec, GatesHold, Gates
-----------------------------------------------------------------------------
(* The caps.  A submission that has counted has room for itself, so what   *)
(* the visitors have can pass the cap only by what the others under way    *)
(* add; it is the one that counted last which says how much that is.       *)
Writing == {w \in Workers : At(w, "writing")}
Bound == MaxItems + MaxAdd * (Cardinality(Workers) - 1)
Within(n, k) == items + n + MaxAdd * k <= Bound
CapsKept ==
    /\ \A w \in Writing : req[w].adds \in 1..MaxAdd
    /\ \/ Within(0, Cardinality(Writing))
       \/ \E w \in Writing : Within(req[w].adds, Cardinality(Writing) - 1)

LEMMA Counts ==
    /\ Cardinality(Workers) \in Nat /\ Cardinality(Workers) > 0
    /\ \A S \in SUBSET Workers : /\ IsFiniteSet(S) /\ Cardinality(S) \in Nat
                                 /\ Cardinality(S) <= Cardinality(Workers)
  BY ConstantsOK, FS_Subset, FS_CardinalityType, FS_EmptySet

LEMMA Products ==
    /\ \A k \in Int : MaxAdd * k \in Int /\ MaxAdd * (k - 1) = MaxAdd * k - MaxAdd
    /\ \A j, k \in Int : j <= k => MaxAdd * j <= MaxAdd * k
    /\ MaxAdd * 0 = 0
<1>0. MaxAdd \in Nat  BY ConstantsOK
<1>1. ASSUME NEW a \in Nat, NEW k \in Int
      PROVE  a * k \in Int /\ a * (k - 1) = a * k - a
      OBVIOUS
<1>2. ASSUME NEW a \in Nat, NEW j \in Int, NEW k \in Int, j <= k  PROVE a * j <= a * k
  <2>1. k - j \in Nat  BY <1>2
  <2>2. a * (k - j) \in Nat  BY <2>1
  <2>3. a * (k - j) = a * k - a * j  OBVIOUS
  <2> QED  BY <2>2, <2>3
<1>3. MaxAdd * 0 = 0  BY <1>0
<1> QED  BY <1>0, <1>1, <1>2, <1>3

LEMMA BoundType == Bound \in Int /\ MaxItems <= Bound
<1>1. Cardinality(Workers) - 1 \in Int /\ 0 <= Cardinality(Workers) - 1  BY Counts
<1>2. MaxAdd * (Cardinality(Workers) - 1) \in Int /\ 0 <= MaxAdd * (Cardinality(Workers) - 1)
      BY <1>1, Products
<1> QED  BY <1>2, ConstantsOK DEF Bound

LEMMA KeptIsBounded ==
    ASSUME Strong, CapsKept  PROVE items <= Bound
<1>1. items \in Nat  BY DEF Strong, IInv, TypeOK, DataType
<1>2. Cardinality(Writing) \in Nat  BY Counts DEF Writing
<1>3. CASE Within(0, Cardinality(Writing))
  <2>1. MaxAdd * Cardinality(Writing) \in Int /\ 0 <= MaxAdd * Cardinality(Writing)  BY <1>2, Products
  <2> QED  BY <1>1, <1>3, <2>1, BoundType DEF Within
<1>4. ASSUME NEW w \in Writing, Within(req[w].adds, Cardinality(Writing) - 1)
      PROVE  items <= Bound
  <2>1. Cardinality(Writing) # 0  BY Counts, FS_EmptySet DEF Writing
  <2>2. 0 <= Cardinality(Writing) - 1 /\ Cardinality(Writing) - 1 \in Int  BY <1>2, <2>1
  <2>3. MaxAdd * (Cardinality(Writing) - 1) \in Int /\ 0 <= MaxAdd * (Cardinality(Writing) - 1)
        BY <2>2, Products
  <2>4. req[w].adds \in Nat  BY <1>4, ConstantsOK DEF CapsKept
  <2> QED  BY <1>1, <1>4, <2>3, <2>4, BoundType DEF Within
<1> QED  BY <1>3, <1>4 DEF CapsKept

\* A step that takes items away, or none, and moves no submission keeps the caps.
LEMMA NoSubmission ==
    ASSUME Strong, CapsKept, Writing' = Writing, items' \in Nat, items' <= items,
           \A w \in Writing : req'[w].adds = req[w].adds
    PROVE  CapsKept'
<1>1. items \in Nat  BY DEF Strong, IInv, TypeOK, DataType
<1>2. Cardinality(Writing) \in Nat  BY Counts DEF Writing
<1>3. MaxAdd * Cardinality(Writing) \in Int /\ MaxAdd * (Cardinality(Writing) - 1) \in Int  BY <1>2, Products
<1>4. Bound' = Bound /\ Bound \in Int  BY BoundType DEF Bound
<1>5. \A w \in Writing : req[w].adds \in Nat  BY ConstantsOK DEF CapsKept
<1>6. \A w \in Writing : req'[w].adds \in 1..MaxAdd  BY DEF CapsKept
<1>7. CASE Within(0, Cardinality(Writing))
  <2>1. items' + 0 + MaxAdd * Cardinality(Writing) <= Bound  BY <1>1, <1>3, <1>4, <1>7 DEF Within
  <2> QED  BY <1>4, <1>6, <2>1 DEF CapsKept, Within
<1>8. ASSUME NEW w \in Writing, Within(req[w].adds, Cardinality(Writing) - 1)  PROVE CapsKept'
  <2>1. items' + req[w].adds + MaxAdd * (Cardinality(Writing) - 1) <= Bound
        BY <1>1, <1>3, <1>4, <1>5, <1>8 DEF Within
  <2> QED  BY <1>4, <1>6, <1>8, <2>1 DEF CapsKept, Within
<1> QED  BY <1>7, <1>8 DEF CapsKept

\* A submission has counted: there is room for it beside what the others may add.
LEMMA AddKeepsCaps ==
    ASSUME Strong, CapsKept, NEW w \in Workers, NEW n \in 1..MaxAdd, HasRoom(n), items' = items,
           Writing' = Writing \cup {w}, req'[w].adds = n,
           \A v \in Writing \ {w} : req'[v].adds = req[v].adds
    PROVE  CapsKept'
<1>0. items \in Nat /\ n \in Nat /\ MaxItems \in Nat
      BY ConstantsOK DEF Strong, IInv, TypeOK, DataType
<1>1. Writing' \in SUBSET Workers /\ w \in Writing'  BY DEF Writing
<1>2. Cardinality(Writing') \in Nat /\ Cardinality(Writing') <= Cardinality(Workers)  BY <1>1, Counts
<1>3. Cardinality(Writing') - 1 \in Int /\ Cardinality(Workers) - 1 \in Int
      /\ Cardinality(Writing') - 1 <= Cardinality(Workers) - 1  BY <1>2, Counts
<1>4. /\ MaxAdd * (Cardinality(Writing') - 1) <= MaxAdd * (Cardinality(Workers) - 1)
      /\ MaxAdd * (Cardinality(Writing') - 1) \in Int /\ MaxAdd * (Cardinality(Workers) - 1) \in Int
      BY <1>3, Products
<1>5. items + n + MaxAdd * (Cardinality(Writing') - 1) <= Bound
      BY <1>0, <1>4 DEF HasRoom, Bound
<1>6. \A v \in Writing' : req'[v].adds \in 1..MaxAdd  BY DEF CapsKept
<1>7. Bound' = Bound  BY DEF Bound
<1> QED  BY <1>1, <1>5, <1>6, <1>7 DEF CapsKept, Within

\* A submission is stored: what it adds leaves the ones under way.
LEMMA WriteKeepsCaps ==
    ASSUME Strong, CapsKept, NEW w \in Writing, items' = items + req[w].adds,
           Writing' = Writing \ {w}, \A v \in Writing' : req'[v].adds = req[v].adds
    PROVE  CapsKept'
<1>0. items \in Nat /\ MaxAdd \in Nat /\ Bound' = Bound /\ Bound \in Int
      BY ConstantsOK, BoundType DEF Strong, IInv, TypeOK, DataType, Bound
<1>1. \A v \in Writing : req[v].adds \in 1..MaxAdd  BY DEF CapsKept
<1> DEFINE k == Cardinality(Writing)
<1>2. k \in Nat /\ Cardinality(Writing') = k - 1 /\ Cardinality(Writing') \in Nat
      BY Counts, FS_RemoveElement DEF Writing
<1>3. /\ MaxAdd * k \in Int /\ MaxAdd * (k - 1) = MaxAdd * k - MaxAdd
      /\ MaxAdd * ((k - 1) - 1) = MaxAdd * (k - 1) - MaxAdd
      BY <1>2, Products
<1> HIDE DEF k
<1>4. \A v \in Writing' : req'[v].adds \in 1..MaxAdd  BY <1>1
<1>5. CASE Within(0, k) \/ Within(req[w].adds, k - 1)
  <2>1. items + req[w].adds + MaxAdd * (k - 1) <= Bound
        BY <1>0, <1>1, <1>3, <1>5 DEF Within
  <2>2. items' + 0 + MaxAdd * Cardinality(Writing') <= Bound  BY <1>0, <1>1, <1>2, <1>3, <2>1
  <2> QED  BY <1>0, <1>4, <2>2 DEF CapsKept, Within
<1>6. ASSUME NEW x \in Writing, x # w, Within(req[x].adds, k - 1)  PROVE CapsKept'
  <2>1. items + req[w].adds + req[x].adds + MaxAdd * ((k - 1) - 1) <= Bound
        BY <1>0, <1>1, <1>3, <1>6 DEF Within
  <2>2. x \in Writing' /\ req'[x].adds = req[x].adds  BY <1>6
  <2>3. items' + req'[x].adds + MaxAdd * (Cardinality(Writing') - 1) <= Bound
        BY <1>0, <1>1, <1>2, <1>3, <2>1, <2>2
  <2> QED  BY <1>0, <1>4, <2>2, <2>3 DEF CapsKept, Within
<1> QED  BY <1>5, <1>6 DEF CapsKept, k

LEMMA ThreadKeepsCaps ==
    ASSUME Strong, CapsKept, NEW w \in Workers, ThreadStep(w)
    PROVE  CapsKept'
<1>0. /\ req \in [Workers -> Request] /\ items \in Nat
      BY DEF Strong, IInv, TypeOK, RequestType, DataType
<1>1. CASE Add(w)
  <2>1. PICK n \in 1..MaxAdd :
          Moves(w, IF HasRoom(n) THEN [InView EXCEPT !.stage = "writing", !.adds = n] ELSE NoRequest)
        BY <1>1 DEF Add
  <2>2. items' = items /\ At(w, "view")  BY <1>1 DEF Add, data
  <2>3. CASE HasRoom(n)
    <3>1. /\ req'[w].stage = "writing" /\ req'[w].adds = n
          /\ \A v \in Workers \ {w} : req'[v] = req[v]
          BY <1>0, <2>1, <2>3 DEF Moves, InView, NoRequest
    <3>2. Writing' = Writing \cup {w}  BY <3>1 DEF Writing, At
    <3>3. \A v \in Writing \ {w} : req'[v].adds = req[v].adds  BY <3>1 DEF Writing
    <3> QED  BY <2>2, <2>3, <3>1, <3>2, <3>3, AddKeepsCaps
  <2>4. CASE ~HasRoom(n)
    <3>1. req'[w].stage = "idle" /\ \A v \in Workers \ {w} : req'[v] = req[v]
          BY <1>0, <2>1, <2>4 DEF Moves, NoRequest
    <3>2. Writing' = Writing /\ \A v \in Writing : req'[v].adds = req[v].adds
          BY <2>2, <3>1 DEF Writing, At
    <3> QED  BY <1>0, <2>2, <3>2, NoSubmission
  <2> QED  BY <2>3, <2>4
<1>2. CASE Write(w)
  <2>1. /\ items' = items + req[w].adds /\ w \in Writing
        /\ req'[w].stage = "idle" /\ \A v \in Workers \ {w} : req'[v] = req[v]
        BY <1>0, <1>2 DEF Write, Moves, NoRequest, Writing
  <2>2. Writing' = Writing \ {w}  BY <2>1 DEF Writing, At
  <2>3. \A v \in Writing' : req'[v].adds = req[v].adds  BY <2>1, <2>2 DEF Writing
  <2> QED  BY <2>1, <2>2, <2>3, WriteKeepsCaps
<1>3. CASE CommitReset(w)
  <2>1. /\ items' = 0
        /\ \A v \in Workers : req'[v].stage = "writing" <=> req[v].stage = "writing"
        /\ \A v \in Workers : req[v].stage = "writing" => req'[v] = req[v]
        BY <1>0, <1>3 DEF CommitReset, Wiped, At, Request
  <2>2. Writing' = Writing /\ \A v \in Writing : req'[v].adds = req[v].adds
        BY <2>1 DEF Writing, At
  <2> QED  BY <1>0, <2>1, <2>2, NoSubmission
<1>4. CASE ~Add(w) /\ ~Write(w) /\ ~CommitReset(w)
  <2>1. ~SeedWritesAllowed(w) \/ ~At(w, "view")
        BY DEF SeedWritesAllowed, Strong, IInv, LockIsHeld, TypeOK, LockType, At
  <2>2. /\ items' = items /\ ~At(w, "writing")
        /\ \A v \in Workers \ {w} : req'[v] = req[v]
        BY <1>0, <1>4 DEF ThreadStep, data, Moves, At, LetThrough, MarkOrLetThrough, Arrive, Look,
             BeginReset, FailReset, WaitTimesOut, LookAgain, Mark, MarkTimesOut, Leave, TouchSeed,
             AskSlot, ClaimSlot
  <2>3. req'[w].stage # "writing"
    <3>1. CASE Arrive(w)
          BY <1>0, <3>1 DEF Moves, Arrive, NoRequest
    <3>2. CASE Leave(w) \/ ClaimSlot(w) \/ MarkTimesOut(w)
      <4>1. Moves(w, NoRequest)  BY <3>2 DEF Leave, ClaimSlot, MarkTimesOut
      <4> QED  BY <1>0, <4>1 DEF Moves, NoRequest
    <3>3. CASE AskSlot(w)
          BY <1>0, <3>3 DEF Moves, AskSlot, NoRequest
    <3>4. CASE TouchSeed(w)
      <4>1. Moves(w, NoRequest)  BY <2>1, <3>4 DEF TouchSeed
      <4> QED  BY <1>0, <4>1 DEF Moves, NoRequest
    <3>5. CASE Mark(w)  BY <1>0, <3>5 DEF Mark, LetThrough, Moves, InView, NoRequest
    <3>6. CASE BeginReset(w) \/ FailReset(w) \/ WaitTimesOut(w)
      <4>1. req[w] \in Request  BY <1>0
      <4>2. \/ Moves(w, [req[w] EXCEPT !.stage = "resetting"])
            \/ Moves(w, [req[w] EXCEPT !.stage = "looked"])
            \/ Moves(w, [req[w] EXCEPT !.stage = "looked", !.failed = TRUE])
            BY <3>6 DEF BeginReset, FailReset, WaitTimesOut
      <4> QED  BY <1>0, <4>1, <4>2 DEF Moves, Request
    <3>7. CASE Look(w) \/ LookAgain(w)
      <4>1. req[w] \in Request  BY <1>0
      <4>2. \E r : Moves(w, r) /\ r.stage # "writing"
            BY <3>7, <4>1 DEF Look, LookAgain, MarkOrLetThrough, LetThrough, Request, InView, NoRequest
      <4> QED  BY <1>0, <4>2 DEF Moves
    <3> QED  BY <1>4, <3>1, <3>2, <3>3, <3>4, <3>5, <3>6, <3>7 DEF ThreadStep
  <2>4. Writing' = Writing /\ \A v \in Writing : req'[v].adds = req[v].adds
        BY <2>2, <2>3 DEF Writing, At
  <2> QED  BY <1>0, <2>2, <2>4, NoSubmission
<1> QED  BY <1>1, <1>2, <1>3, <1>4

\* Simultaneous submissions exceed a cap by at most what the other threads add.
THEOREM CapsAlmostHold == Spec => []CapsBounded
<1>1. Init => CapsKept
  <2> SUFFICES ASSUME Init PROVE CapsKept  OBVIOUS
  <2>1. Writing = {}  BY DEF Init, Writing, At, NoRequest
  <2>2. Cardinality(Writing) = 0  BY <2>1, FS_EmptySet
  <2>3. Within(0, Cardinality(Writing))
        BY <2>2, Products, BoundType, ConstantsOK DEF Within, Init
  <2> QED  BY <2>1, <2>3 DEF CapsKept
<1>2. Strong /\ CapsKept /\ [Next]_vars => CapsKept'
  <2> SUFFICES ASSUME Strong, CapsKept, [Next]_vars PROVE CapsKept'  OBVIOUS
  <2>0. items \in Nat  BY DEF Strong, IInv, TypeOK, DataType
  <2>1. CASE UNCHANGED <<items, req>>
        BY <2>0, <2>1, NoSubmission DEF Writing, At
  <2>2. CASE Tick \/ UNCHANGED vars  BY <2>1, <2>2 DEF Tick, data, vars
  <2>3. CASE Boot
    <3>1. items' = 0 /\ req' = req  BY <2>3 DEF Boot, Wiped
    <3> QED  BY <2>0, <3>1, NoSubmission DEF Writing, At
  <2>4. CASE Stop
    <3>1. items' = items /\ Writing' = {}  BY <2>4 DEF Stop, data, Writing, At, NoRequest
    <3>2. Cardinality(Writing') = 0  BY <3>1, FS_EmptySet
    <3>3. Bound' = Bound  BY DEF Bound
    <3>4. items + 0 + MaxAdd * 0 <= Bound  BY <2>0, KeptIsBounded, Products
    <3> QED  BY <3>1, <3>2, <3>3, <3>4 DEF CapsKept, Within
  <2>5. ASSUME NEW w \in Workers, ThreadStep(w)  PROVE CapsKept'
        BY <2>5, ThreadKeepsCaps
  <2> QED  BY <2>2, <2>3, <2>4, <2>5 DEF Next, ThreadStep
<1>3. Strong /\ CapsKept => CapsBounded  BY KeptIsBounded DEF CapsBounded, Bound
<1> QED  BY <1>1, <1>2, <1>3, StrongInit, NextKeepsStrong, PTL DEF Spec
=============================================================================

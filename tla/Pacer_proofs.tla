---------------------------- MODULE Pacer_proofs ----------------------------
(***************************************************************************)
(* Proofs about the shared budget of Pacer, for every number of units and  *)
(* workers, every policy and every set of answers of the vendor.           *)
(***************************************************************************)
EXTENDS Pacer, FiniteSetTheorems, TLAPS

LEMMA Numbers ==
    /\ MaxWorkers \in Nat \ {0} /\ MaxPages \in Nat \ {0} /\ NoResetWait \in Nat \ {0}
    /\ MaxAttempts \in Nat /\ MaxRetries \in Nat /\ MinInterval \in Nat
    /\ Threshold \in Nat /\ Cap \in Nat /\ FetchDelay \in Nat /\ MaxLag \in Nat
    /\ HeadroomPct \in 0 .. 100
BY ConstantsOK

(* The headroom never makes more of a meter usable than there is.          *)
LEMMA UsableBounds ==
    ASSUME NEW r \in Nat
    PROVE  Usable(r) \in Nat /\ Usable(r) <= r
<1> DEFINE p == 100 - HeadroomPct
           n == r * p
<1>1. p \in 0 .. 100
  BY Numbers
<1>2. n \in Nat /\ n <= r * 100
  <2> HIDE DEF p
  <2>1. \A x \in Nat, y \in 0 .. 100 : x * y \in Nat /\ x * y <= x * 100
    OBVIOUS
  <2> QED
    BY <1>1, <2>1
<1>3. n \div 100 \in Nat /\ n \div 100 <= r
  <2> HIDE DEF n
  <2> QED
    BY <1>2
<1> QED
  BY <1>3 DEF Usable

LEMMA UnitFields ==
    ASSUME TypeOK, NEW u \in Units
    PROVE  /\ unit[u] \in Unit
           /\ unit[u].pc \in Busy \cup {"queued", "over"}
           /\ unit[u].timer \in Nat /\ unit[u].cost \in Nat
           /\ unit[u].attempt \in 0 .. MaxAttempts /\ unit[u].page \in 1 .. MaxPages
           /\ unit[u].tries \in 0 .. MaxRetries
BY DEF TypeOK, Unit

(* The wait of a metered request is a number of ticks.                     *)
LEMMA WaitIsTicks ==
    ASSUME TypeOK, NEW u \in Units, Known
    PROVE  /\ FairTicks(u) \in Nat
           /\ Wait(u) \in Nat
           /\ Lag(u) \in Nat
           /\ Usable(remaining) \in Nat
<1>1. Lag(u) \in Nat /\ nextIn \in Int /\ remaining \in Nat
  BY UnitFields DEF Lag, TypeOK, Known
<1>2. Usable(remaining) \in Nat
  BY <1>1, UsableBounds
<1>3. reset # None => Until(u, reset) \in Nat
  BY <1>1 DEF Until, NotNegative, TypeOK
<1>4. Until(u, nextIn) \in Nat
  BY <1>1 DEF Until, NotNegative
<1>5. FairTime(u) \in Nat
  BY <1>3 DEF FairTime
<1>6. FairTicks(u) \in Nat
  <2> DEFINE n == Larger(1, Usable(remaining))
             t == FairTime(u)
  <2>1. n \in Nat \ {0}
    BY <1>2 DEF Larger
  <2>2. \A a \in Nat, b \in Nat \ {0} : (a + b - 1) \div b \in Nat
    OBVIOUS
  <2>3. (t + n - 1) \div n \in Nat
    <3> HIDE DEF n, t
    <3> QED
      BY <1>5, <2>1, <2>2 DEF t
  <2> QED
    BY <2>3 DEF FairTicks
<1>7. ExhaustedWait(u) \in Nat
  BY <1>3, Numbers DEF ExhaustedWait, Larger
<1>8. Wait(u) \in Nat
  BY <1>4, <1>6, <1>7 DEF Wait, Larger
<1> QED
  BY <1>1, <1>2, <1>6, <1>8
-----------------------------------------------------------------------------
(* Only unit u moved, and it is a proper unit now.                         *)
Moves(u) == /\ unit' \in [Units -> Unit]
            /\ \A v \in Units \ {u} : unit'[v] = unit[v]

LEMMA Moved ==
    ASSUME TypeOK, NEW u \in Units, NEW x \in Unit, unit' = [unit EXCEPT ![u] = x]
    PROVE  Moves(u) /\ unit'[u] = x
BY DEF TypeOK, Moves

LEMMA QueuedType ==
    ASSUME NEW a \in 0 .. MaxAttempts, NEW d \in Nat
    PROVE  Queued(a, d) \in Unit
BY Numbers DEF Queued, Unit

LEMMA GotoMoves ==
    ASSUME TypeOK, NEW u \in Units, NEW l \in Busy, NEW d \in Nat, Goto(u, l, d)
    PROVE  Moves(u) /\ unit'[u].pc = l /\ unit'[u].timer = d
<1>1. unit[u] \in Unit
  BY UnitFields
<1>2. [unit[u] EXCEPT !.pc = l, !.timer = d] \in Unit
  BY <1>1 DEF Unit
<1>3. unit' = [unit EXCEPT ![u] = [unit[u] EXCEPT !.pc = l, !.timer = d]]
  BY <1>1 DEF Goto, TypeOK, Unit
<1>4. unit'[u] = [unit[u] EXCEPT !.pc = l, !.timer = d]
  BY <1>2, <1>3, Moved
<1> QED
  BY <1>1, <1>2, <1>3, <1>4, Moved DEF Unit

LEMMA TerminalizeMoves ==
    ASSUME TypeOK, NEW u \in Units, Terminalize(u)
    PROVE  Moves(u) /\ unit'[u].pc = "over"
<1> DEFINE x == [Queued(0, 0) EXCEPT !.pc = "over"]
<1>1. \A q \in Unit : /\ [q EXCEPT !.pc = "over"] \in Unit
                      /\ [q EXCEPT !.pc = "over"].pc = "over"
  BY DEF Unit
<1>2. Queued(0, 0) \in Unit
  BY QueuedType, Numbers
<1>3. x \in Unit /\ x.pc = "over"
  BY <1>1, <1>2
<1>4. unit' = [unit EXCEPT ![u] = x]
  BY DEF Terminalize
<1> QED
  BY <1>3, <1>4, Moved

LEMMA DeferMoves ==
    ASSUME TypeOK, NEW u \in Units, NEW eta \in Int, DeferUntil(u, eta)
    PROVE  Moves(u) /\ unit'[u].pc \in {"queued", "over"}
<1>1. CASE GiveUp(u)
  BY <1>1, TerminalizeMoves DEF DeferUntil
<1>2. CASE ~GiveUp(u)
  <2>1. unit[u].attempt + 1 \in 0 .. MaxAttempts
    BY <1>2, UnitFields, Numbers DEF GiveUp
  <2>2. NotNegative(eta) \in Nat
    BY DEF NotNegative
  <2>3. Queued(unit[u].attempt + 1, NotNegative(eta)) \in Unit
    BY <2>1, <2>2, QueuedType
  <2>4. unit'[u] = Queued(unit[u].attempt + 1, NotNegative(eta)) /\ Moves(u)
    BY <1>2, <2>3, Moved DEF DeferUntil
  <2> QED
    BY <2>4 DEF Queued
<1> QED
  BY <1>1, <1>2

LEMMA ResendMoves ==
    ASSUME TypeOK, NEW u \in Units, NEW d \in Nat, unit[u].tries > 0, Resend(u, d)
    PROVE  Moves(u) /\ unit'[u].pc = "backoff"
<1> DEFINE x == [unit[u] EXCEPT !.pc = "backoff", !.timer = d, !.tries = unit[u].tries - 1]
<1>1. unit[u] \in Unit /\ unit[u].tries - 1 \in 0 .. MaxRetries
  BY UnitFields, Numbers
<1>2. x \in Unit /\ x.pc = "backoff"
  BY <1>1 DEF Unit, Busy
<1>3. unit' = [unit EXCEPT ![u] = x]
  BY DEF Resend
<1>4. Moves(u) /\ unit'[u] = x
  BY <1>2, <1>3, Moved
<1> QED
  BY <1>2, <1>4

LEMMA NextPageMoves ==
    ASSUME TypeOK, NEW u \in Units, NextPage(u)
    PROVE  Moves(u) /\ unit'[u].pc = "gate"
<1>1. PICK c \in Costs \cup {unit[u].cost} :
        unit' = [unit EXCEPT ![u] = [@ EXCEPT !.pc = "gate", !.timer = 0,
                                              !.page = unit[u].page + 1, !.cost = c]]
  BY DEF NextPage
<1> DEFINE x == [unit[u] EXCEPT !.pc = "gate", !.timer = 0, !.page = unit[u].page + 1, !.cost = c]
<1>2. unit[u] \in Unit /\ c \in Nat /\ unit[u].page + 1 \in 1 .. MaxPages
  BY UnitFields, Numbers, ConstantsOK DEF NextPage
<1>3. x \in Unit /\ x.pc = "gate"
  BY <1>2 DEF Unit, Busy
<1>4. unit' = [unit EXCEPT ![u] = x]
  BY <1>1
<1>5. Moves(u) /\ unit'[u] = x
  BY <1>3, <1>4, Moved
<1> QED
  BY <1>3, <1>5
-----------------------------------------------------------------------------
(* A sleeping, waiting or starting unit moves and nothing else changes.    *)
LEMMA QuietMoves ==
    ASSUME TypeOK, NEW u \in Units,
           \/ Start(u) \/ ReadClock(u) \/ Wake(u) \/ DeferInCooldown(u) \/ DeferAtCap(u)
           \/ Nap(u) \/ DeferForWait(u) \/ AnswerUnusable(u) \/ AnswerThrottled(u)
           \/ RetryThrottled(u) \/ AnswerThrottledBare(u)
    PROVE  Moves(u) /\ UNCHANGED <<storeVars, clockOut, historyVars>>
<1> USE DEF Busy
<1>1. CASE Start(u)
  BY <1>1, GotoMoves DEF Start
<1>2. CASE ReadClock(u)
  BY <1>2, GotoMoves DEF ReadClock
<1>3. CASE Wake(u)
  BY <1>3, GotoMoves DEF Wake
<1>4. CASE DeferInCooldown(u)
  BY <1>4, DeferMoves DEF DeferInCooldown, TypeOK
<1>5. CASE DeferAtCap(u)
  BY <1>5, TerminalizeMoves DEF DeferAtCap
<1>6. CASE Nap(u)
  <2> DEFINE x == [unit[u] EXCEPT !.pc = "nap", !.timer = Wait(u)]
  <2>1. Known /\ Wait(u) \in Nat
    BY <1>6, WaitIsTicks DEF Nap, Ready
  <2>2. x \in Unit
    BY <2>1, UnitFields DEF Unit
  <2>3. unit' = [unit EXCEPT ![u] = x]
    BY <1>6 DEF Nap
  <2> QED
    BY <1>6, <2>2, <2>3, Moved DEF Nap
<1>7. CASE DeferForWait(u)
  <2>1. Wait(u) - Lag(u) \in Int
    BY <1>7, WaitIsTicks DEF DeferForWait, Ready
  <2> QED
    BY <1>7, <2>1, DeferMoves DEF DeferForWait
<1>8. CASE AnswerUnusable(u)
  BY <1>8, ResendMoves, TerminalizeMoves, ConstantsOK DEF AnswerUnusable
<1>9. CASE AnswerThrottled(u)
  BY <1>9, GotoMoves, ConstantsOK DEF AnswerThrottled
<1>10. CASE RetryThrottled(u)
  BY <1>10, ResendMoves, UnitFields DEF RetryThrottled
<1>11. CASE AnswerThrottledBare(u)
  BY <1>11, TerminalizeMoves DEF AnswerThrottledBare
<1> QED
  BY <1>1, <1>2, <1>3, <1>4, <1>5, <1>6, <1>7, <1>8, <1>9, <1>10, <1>11

LEMMA GrantMoves ==
    ASSUME TypeOK, NEW u \in Units, Grant(u)
    PROVE  /\ Moves(u)
           /\ unit'[u].pc = IF Known THEN "send" ELSE "pause"
<1> DEFINE x == [unit[u] EXCEPT !.pc = IF Known THEN "send" ELSE "pause",
                                !.timer = IF Known THEN 0 ELSE FetchDelay]
<1>1. x \in Unit /\ x.pc = IF Known THEN "send" ELSE "pause"
  BY UnitFields, Numbers DEF Unit, Busy
<1>2. unit' = [unit EXCEPT ![u] = x]
  BY DEF Grant
<1> QED
  BY <1>1, <1>2, Moved

LEMMA SendMoves ==
    ASSUME TypeOK, NEW u \in Units, Send(u)
    PROVE  Moves(u) /\ unit'[u].pc = "sent"
<1> DEFINE x == [unit[u] EXCEPT !.pc = "sent", !.tries = MaxRetries]
<1>1. unit[u] \in Unit /\ MaxRetries \in 0 .. MaxRetries
  BY UnitFields, Numbers
<1>2. x \in Unit /\ x.pc = "sent"
  BY <1>1 DEF Unit, Busy
<1>3. unit' = [unit EXCEPT ![u] = x]
  BY <1>1 DEF Send, TypeOK, Unit
<1> QED
  BY <1>2, <1>3, Moved

LEMMA AnswerMoves ==
    ASSUME TypeOK, NEW u \in Units, Answer(u)
    PROVE  Moves(u) /\ unit'[u].pc \in {"gate", "over"}
BY NextPageMoves, TerminalizeMoves DEF Answer

LEMMA TickMoves ==
    ASSUME TypeOK, Tick
    PROVE  /\ unit' \in [Units -> Unit]
           /\ \A v \in Units :
                 /\ unit'[v].pc = unit[v].pc
                 /\ unit[v].pc = "ask" => /\ unit[v].timer < MaxLag
                                          /\ unit'[v].timer = unit[v].timer + 1
<1> DEFINE t(v) == IF unit[v].pc = "ask" THEN unit[v].timer + 1
                   ELSE IF unit[v].pc = "throttled" THEN unit[v].timer
                   ELSE NotNegative(unit[v].timer - 1)
<1>1. \A v \in Units : t(v) \in Nat
  BY UnitFields DEF NotNegative
<1>2. unit' = [v \in Units |-> [unit[v] EXCEPT !.timer = t(v)]]
  BY DEF Tick
<1>3. ASSUME NEW v \in Units
      PROVE  /\ [unit[v] EXCEPT !.timer = t(v)] \in Unit
             /\ [unit[v] EXCEPT !.timer = t(v)].pc = unit[v].pc
             /\ [unit[v] EXCEPT !.timer = t(v)].timer = t(v)
  <2> HIDE DEF t
  <2> QED
    BY <1>1, UnitFields DEF Unit
<1>4. \A v \in Units : unit'[v].pc = unit[v].pc /\ unit'[v].timer = t(v)
  BY <1>2, <1>3
<1> QED
  BY <1>2, <1>3, <1>4 DEF Tick

LEMMA TypeOKInitially ==
    ASSUME Init
    PROVE  TypeOK
<1>1. Queued(0, 0) \in Unit /\ -MaxLag \in Int /\ MinInterval + MaxLag \in Nat
  BY QueuedType, Numbers
<1>2. unit \in [Units -> Unit]
  BY <1>1 DEF Init
<1>3. /\ remaining \in Nat \cup {None} /\ told \in Nat \cup {None}
      /\ reset \in Int \cup {None} /\ clockOut \in BOOLEAN
  BY DEF Init
<1>4. /\ nextIn \in Int /\ cooldown \in Int /\ spent \in Nat
      /\ reserved \in Nat /\ sinceGrant \in Nat /\ stragglers \in Nat
  BY <1>1 DEF Init
<1> QED
  BY <1>2, <1>3, <1>4 DEF TypeOK

LEMMA TypeOKKept ==
    ASSUME TypeOK, [Next]_vars
    PROVE  TypeOK'
<1> USE DEF storeVars, historyVars
<1>1. CASE Tick
  BY <1>1, TickMoves, Numbers DEF Tick, TypeOK, Elapse
<1>2. CASE RunTimesOut
  BY <1>2 DEF RunTimesOut, TypeOK
<1>3. ASSUME NEW u \in Units, FetchOne(u) PROVE TypeOK'
  <2>1. CASE Grant(u)
    <3>1. unit' \in [Units -> Unit]
      BY <2>1, GrantMoves DEF Moves
    <3>2. remaining' \in Nat \cup {None}
      BY <2>1, UnitFields DEF Grant, Reserve, NotNegative, Known, TypeOK
    <3>3. spent' \in Nat /\ reserved' \in Nat /\ nextIn' \in Int /\ sinceGrant' \in Nat
      BY <2>1, UnitFields, Numbers DEF Grant, NextSlot, Larger, Lag, TypeOK
    <3> QED
      BY <2>1, <3>1, <3>2, <3>3 DEF Grant, TypeOK
  <2>2. CASE Send(u)
    <3>1. unit' \in [Units -> Unit]
      BY <2>2, SendMoves DEF Moves
    <3>2. stragglers' \in Nat
      BY <2>2 DEF Send, TypeOK
    <3> QED
      BY <2>2, <3>1, <3>2 DEF Send, TypeOK
  <2>3. CASE RecordThrottled(u)
    <3>1. unit[u].timer \in Int
      BY UnitFields
    <3> QED
      BY <2>3, <3>1, DeferMoves DEF RecordThrottled, TypeOK, Moves
  <2>4. CASE Answer(u)
    <3>1. unit' \in [Units -> Unit]
      BY <2>4, AnswerMoves DEF Moves
    <3>2. /\ remaining' \in Nat \cup {None} /\ reset' \in Int \cup {None}
          /\ told' \in Nat \cup {None} /\ reserved' \in Nat
      BY <2>4, ConstantsOK DEF Answer, Reconcile, TypeOK
    <3> QED
      BY <2>4, <3>1, <3>2 DEF Answer, TypeOK
  <2>5. CASE ~(Grant(u) \/ Send(u) \/ RecordThrottled(u) \/ Answer(u))
    BY <1>3, <2>5, QuietMoves DEF FetchOne, Acquire, Exchange, Moves, TypeOK
  <2> QED
    BY <2>1, <2>2, <2>3, <2>4, <2>5
<1>4. CASE UNCHANGED vars
  BY <1>4 DEF vars, TypeOK
<1> QED
  BY <1>1, <1>2, <1>3, <1>4 DEF Next

(* Type correctness of the pacer. *)
THEOREM TypeCorrect == Spec => []TypeOK
<1>1. Init => TypeOK
  BY TypeOKInitially
<1>2. TypeOK /\ [Next]_vars => TypeOK'
  BY TypeOKKept
<1> QED
  BY <1>1, <1>2, PTL DEF Spec
-----------------------------------------------------------------------------
(* A grant for a known meter that is too short for the estimate is one at  *)
(* its reset, so one whose reset is ahead leaves the headroom of the meter. *)
LEMMA ShortGrants ==
    ASSUME TypeOK, NEW u \in Units, Grant(u), Known, ~Enough(u)
    PROVE  AtReset(u)
<1>1. Wait(u) = 0 /\ Lag(u) \in Nat
  BY WaitIsTicks DEF Grant, Ready
<1>2. ExhaustedWait(u) = 0
  BY <1>1 DEF Wait
<1>3. CASE reset = None
  BY <1>2, <1>3, Numbers DEF ExhaustedWait, Larger
<1>4. CASE reset # None
  BY <1>2, <1>4 DEF ExhaustedWait, AtReset
<1> QED
  BY <1>3, <1>4

LEMMA GrantFits ==
    ASSUME TypeOK, NEW u \in Units, Grant(u), Known, ResetPending
    PROVE  Enough(u) /\ unit[u].cost <= remaining
<1>1. Lag(u) \in Nat /\ remaining \in Nat /\ unit[u].cost \in Nat
  BY WaitIsTicks, UnitFields DEF Known, TypeOK
<1>2. ASSUME ~Enough(u) PROVE FALSE
  <2>1. reset # None /\ Until(u, reset) = 0
    BY <1>2, ShortGrants DEF AtReset
  <2> QED
    BY <1>1, <2>1 DEF Until, NotNegative, ResetPending, TypeOK
<1>3. Usable(remaining) \in Nat /\ Usable(remaining) <= remaining
  BY <1>1, UsableBounds
<1> QED
  BY <1>1, <1>2, <1>3 DEF Enough

(* The meter is the last report less what was reserved of it, under every  *)
(* step.                                                                   *)
LEMMA KeepsMeter ==
    ASSUME TypeOK, Meter, [Next]_vars
    PROVE  Meter'
<1> USE DEF storeVars, historyVars
<1>1. CASE Tick
  <2>1. ASSUME reset # None, ResetPending' PROVE reset > 0
    <3>1. reset \in Int /\ reset' = Elapse(reset)
      BY <1>1, <2>1 DEF Tick, TypeOK
    <3>2. reset' \in Int /\ None \notin Int /\ reset' <= reset
      BY <3>1, Numbers, ConstantsOK DEF Elapse
    <3>3. reset' # None
      BY <3>2
    <3>4. reset' > 0
      BY <2>1, <3>3 DEF ResetPending
    <3> QED
      BY <3>1, <3>2, <3>4
  <2>2. ResetPending' => ResetPending
    BY <2>1 DEF ResetPending
  <2> QED
    BY <1>1, <2>2 DEF Tick, Meter
<1>2. CASE RunTimesOut
  BY <1>2 DEF RunTimesOut, Meter, ResetPending
<1>3. ASSUME NEW u \in Units, FetchOne(u) PROVE Meter'
  <2>1. CASE Grant(u)
    <3>1. CASE Known
      <4>1. remaining \in Nat /\ unit[u].cost \in Nat /\ None \notin Int
        BY <3>1, UnitFields, ConstantsOK DEF Known, TypeOK
      <4>2. remaining' \in Nat /\ told' = told /\ told # None /\ ResetPending' = ResetPending
        BY <2>1, <3>1, <4>1 DEF Grant, Reserve, NotNegative, Meter, Known, ResetPending
      <4>3. ASSUME ResetPending PROVE remaining' = told' - reserved'
        <5>1. remaining = told - reserved /\ unit[u].cost <= remaining
          BY <2>1, <3>1, <4>2, <4>3, GrantFits DEF Meter
        <5>2. told \in Nat /\ reserved \in Nat
          BY <4>2 DEF TypeOK
        <5>3. remaining' = remaining - unit[u].cost /\ reserved' = reserved + unit[u].cost
          BY <2>1, <3>1, <4>1, <5>1 DEF Grant, Reserve, NotNegative
        <5> QED
          BY <4>1, <4>2, <5>1, <5>2, <5>3
      <4> QED
        BY <4>1, <4>2, <4>3 DEF Meter
    <3>2. CASE ~Known
      BY <2>1, <3>2 DEF Grant, Reserve, Known, Meter
    <3> QED
      BY <3>1, <3>2
  <2>2. CASE Answer(u)
    <3>1. CASE UNCHANGED <<remaining, reset, told, reserved>>
      BY <3>1 DEF Meter, ResetPending
    <3>2. ASSUME NEW r \in Remainings, remaining' = r, told' = r, reserved' = 0
          PROVE  Meter'
      BY <3>2, ConstantsOK DEF Meter
    <3> QED
      BY <2>2, <3>1, <3>2 DEF Answer, Reconcile
  <2>3. CASE Send(u) \/ RecordThrottled(u)
    BY <2>3 DEF Send, RecordThrottled, Meter, ResetPending
  <2>4. CASE ~(Grant(u) \/ Answer(u) \/ Send(u) \/ RecordThrottled(u))
    <3>1. UNCHANGED <<remaining, reset, told, reserved>>
      BY <1>3, <2>4, QuietMoves DEF FetchOne, Acquire, Exchange
    <3> QED
      BY <3>1 DEF Meter, ResetPending
  <2> QED
    BY <2>1, <2>2, <2>3, <2>4
<1>4. CASE UNCHANGED vars
  BY <1>4 DEF vars, Meter, ResetPending
<1> QED
  BY <1>1, <1>2, <1>3, <1>4 DEF Next

(* Nobody but a grant charges the run. *)
LEMMA KeepsCap ==
    ASSUME TypeOK, SpendWithinCap, [Next]_vars
    PROVE  SpendWithinCap'
<1> USE DEF storeVars, historyVars, SpendWithinCap
<1>1. CASE Tick \/ RunTimesOut
  BY <1>1 DEF Tick, RunTimesOut
<1>2. ASSUME NEW u \in Units, FetchOne(u) PROVE SpendWithinCap'
  <2>1. CASE Grant(u)
    BY <2>1, UnitFields, Numbers DEF Grant, Considered, OverCap, TypeOK
  <2>2. CASE Send(u) \/ RecordThrottled(u) \/ Answer(u)
    BY <2>2 DEF Send, RecordThrottled, Answer
  <2>3. CASE ~(Grant(u) \/ Answer(u) \/ Send(u) \/ RecordThrottled(u))
    BY <1>2, <2>3, QuietMoves DEF FetchOne, Acquire, Exchange
  <2> QED
    BY <2>1, <2>2, <2>3
<1>3. CASE UNCHANGED vars
  BY <1>3 DEF vars
<1> QED
  BY <1>1, <1>2, <1>3 DEF Next

(* Only ReadClock brings a unit to "ask", with a fresh reading. *)
LEMMA AsksFresh ==
    ASSUME TypeOK, NEW u \in Units, FetchOne(u)
    PROVE  /\ \A v \in Units \ {u} : unit'[v] = unit[v]
           /\ unit'[u].pc = "ask" => unit'[u].timer = 0
<1> USE DEF Busy
<1>1. CASE ReadClock(u)
  BY <1>1, GotoMoves DEF ReadClock, Moves
<1>2. CASE Start(u)
  BY <1>2, GotoMoves DEF Start, Moves
<1>3. CASE Wake(u)
  BY <1>3, GotoMoves DEF Wake, Moves
<1>4. CASE AnswerThrottled(u)
  BY <1>4, GotoMoves, ConstantsOK DEF AnswerThrottled, Moves
<1>5. CASE Nap(u)
  <2>1. unit'[u].pc = "nap"
    BY <1>5 DEF Nap, TypeOK, Unit
  <2> QED
    BY <1>5, <2>1, QuietMoves DEF Moves
<1>6. CASE DeferInCooldown(u) \/ DeferForWait(u) \/ RecordThrottled(u)
  <2>1. cooldown \in Int /\ unit[u].timer \in Int
    BY UnitFields DEF TypeOK
  <2>2. DeferForWait(u) => Wait(u) - Lag(u) \in Int
    BY WaitIsTicks DEF DeferForWait, Ready
  <2> QED
    BY <1>6, <2>1, <2>2, DeferMoves DEF DeferInCooldown, DeferForWait, RecordThrottled, Moves
<1>7. CASE DeferAtCap(u) \/ AnswerThrottledBare(u)
  BY <1>7, TerminalizeMoves DEF DeferAtCap, AnswerThrottledBare, Moves
<1>8. CASE AnswerUnusable(u) \/ RetryThrottled(u)
  BY <1>8, ResendMoves, TerminalizeMoves, UnitFields, ConstantsOK
     DEF AnswerUnusable, RetryThrottled, Moves
<1>9. CASE Grant(u)
  BY <1>9, GrantMoves DEF Moves
<1>10. CASE Send(u)
  BY <1>10, SendMoves DEF Moves
<1>11. CASE Answer(u)
  BY <1>11, AnswerMoves DEF Moves
<1> QED
  BY <1>1, <1>2, <1>3, <1>4, <1>5, <1>6, <1>7, <1>8, <1>9, <1>10, <1>11
     DEF FetchOne, Acquire, Exchange

(* The next slot stays min_interval after the reading of the last grant.   *)
LEMMA KeepsSlot ==
    ASSUME TypeOK, Slot, [Next]_vars
    PROVE  Slot'
<1> USE DEF storeVars, historyVars
<1>1. CASE Tick
  <2>1. \A u \in Units : unit'[u].pc = "ask" => unit'[u].timer <= MaxLag
    BY <1>1, TickMoves, UnitFields, Numbers
  <2>2. /\ nextIn' >= -MaxLag
        /\ \/ nextIn' + sinceGrant' >= MinInterval
           \/ sinceGrant' >= MinInterval + MaxLag
    BY <1>1, Numbers DEF Tick, Elapse, Slot, TypeOK
  <2> QED
    BY <2>1, <2>2 DEF Slot
<1>2. CASE RunTimesOut
  BY <1>2 DEF RunTimesOut, Slot
<1>3. ASSUME NEW u \in Units, FetchOne(u) PROVE Slot'
  <2>1. \A v \in Units : unit'[v].pc = "ask" => unit'[v].timer <= MaxLag
    BY <1>3, AsksFresh, Numbers DEF Slot
  <2>2. CASE Grant(u)
    <3>1. Lag(u) \in Nat /\ Lag(u) <= MaxLag
      BY <2>2, UnitFields DEF Grant, Considered, Slot, Lag
    <3>2. nextIn' >= -MaxLag /\ nextIn' + sinceGrant' >= MinInterval
      BY <2>2, <3>1, Numbers DEF Grant, NextSlot, Larger
    <3> QED
      BY <2>1, <3>2 DEF Slot
  <2>3. CASE Send(u) \/ RecordThrottled(u) \/ Answer(u)
    BY <2>1, <2>3 DEF Send, RecordThrottled, Answer, Slot
  <2>4. CASE ~(Grant(u) \/ Answer(u) \/ Send(u) \/ RecordThrottled(u))
    <3>1. UNCHANGED <<nextIn, sinceGrant>>
      BY <1>3, <2>4, QuietMoves DEF FetchOne, Acquire, Exchange
    <3> QED
      BY <2>1, <3>1 DEF Slot
  <2> QED
    BY <2>2, <2>3, <2>4
<1>4. CASE UNCHANGED vars
  BY <1>4 DEF vars, Slot
<1> QED
  BY <1>1, <1>2, <1>3, <1>4 DEF Next
-----------------------------------------------------------------------------
(* The worker threads: a unit that holds one, and one that was granted a   *)
(* request it has not sent.                                                *)
LEMMA CrewTypes ==
    /\ IsFiniteSet(BusyUnits) /\ IsFiniteSet(Granted) /\ Granted \subseteq BusyUnits
    /\ Cardinality(BusyUnits) \in Nat /\ Cardinality(Granted) \in Nat
<1>1. IsFiniteSet(Units)
  BY ConstantsOK
<1>2. BusyUnits \subseteq Units /\ Granted \subseteq Units /\ Granted \subseteq BusyUnits
  BY DEF BusyUnits, Granted, Busy
<1> QED
  BY <1>1, <1>2, FS_Subset, FS_CardinalityType

(* What a unit's move does to the two sets, by where it was and is. *)
LEMMA BusyAfter ==
    ASSUME TypeOK, NEW u \in Units, Moves(u)
    PROVE  /\ unit[u].pc \in Busy => BusyUnits' \subseteq BusyUnits
           /\ BusyUnits' \subseteq BusyUnits \cup {u}
           /\ unit'[u].pc \notin {"pause", "send"} => Granted' = Granted \ {u}
           /\ unit'[u].pc \in {"pause", "send"} => Granted' = Granted \cup {u}
BY DEF Moves, BusyUnits, Granted

(* A step that grants nothing leaves no more units granted, and one that   *)
(* starts no unit leaves no more busy.                                     *)
LEMMA CrewShrinks ==
    ASSUME TypeOK, NEW u \in Units, Moves(u)
    PROVE  /\ unit[u].pc \in Busy => Cardinality(BusyUnits') <= Cardinality(BusyUnits)
           /\ unit'[u].pc \notin {"pause", "send"} \/ unit[u].pc \in {"pause", "send"}
                => Cardinality(Granted') <= Cardinality(Granted)
           /\ unit[u].pc \in {"pause", "send"} /\ unit'[u].pc \notin {"pause", "send"}
                => Cardinality(Granted') = Cardinality(Granted) - 1
           /\ Cardinality(BusyUnits') <= Cardinality(BusyUnits) + 1
<1>1. /\ IsFiniteSet(BusyUnits) /\ IsFiniteSet(Granted)
      /\ Cardinality(BusyUnits) \in Nat /\ Cardinality(Granted) \in Nat
  BY CrewTypes
<1>2. unit[u].pc \in Busy => Cardinality(BusyUnits') <= Cardinality(BusyUnits)
  BY <1>1, BusyAfter, FS_Subset
<1>3. u \in Granted <=> unit[u].pc \in {"pause", "send"}
  BY DEF Granted
<1>4. unit'[u].pc \notin {"pause", "send"} \/ unit[u].pc \in {"pause", "send"}
        => Granted' \subseteq Granted
  BY <1>3, BusyAfter
<1>5. unit'[u].pc \notin {"pause", "send"} \/ unit[u].pc \in {"pause", "send"}
        => Cardinality(Granted') <= Cardinality(Granted)
  BY <1>1, <1>4, FS_Subset
<1>6. unit[u].pc \in {"pause", "send"} /\ unit'[u].pc \notin {"pause", "send"}
        => Cardinality(Granted') = Cardinality(Granted) - 1
  BY <1>1, <1>3, BusyAfter, FS_RemoveElement
<1>7. Cardinality(BusyUnits') <= Cardinality(BusyUnits) + 1
  <2>1. IsFiniteSet(BusyUnits \cup {u})
    BY <1>1, FS_AddElement
  <2>4. Cardinality(BusyUnits \cup {u}) <= Cardinality(BusyUnits) + 1
    <3>1. Cardinality(BusyUnits \cup {u}) = IF u \in BusyUnits THEN Cardinality(BusyUnits)
                                            ELSE Cardinality(BusyUnits) + 1
      BY <1>1, FS_AddElement
    <3> QED
      BY <1>1, <3>1
  <2>2. IsFiniteSet(BusyUnits') /\ Cardinality(BusyUnits') <= Cardinality(BusyUnits \cup {u})
    BY <2>1, BusyAfter, FS_Subset
  <2>3. Cardinality(BusyUnits') \in Nat /\ Cardinality(BusyUnits \cup {u}) \in Nat
    BY <2>1, <2>2, FS_CardinalityType
  <2> QED
    BY <1>1, <2>2, <2>3, <2>4
<1> QED
  BY <1>2, <1>5, <1>6, <1>7

(* A unit that is busy without a grant leaves room for one thread fewer.   *)
LEMMA GrantedBelowBusy ==
    ASSUME NEW u \in Units, unit[u].pc \in Busy \ {"pause", "send"}
    PROVE  Cardinality(Granted) + 1 <= Cardinality(BusyUnits)
<1>1. /\ IsFiniteSet(BusyUnits) /\ Granted \subseteq BusyUnits \ {u} /\ u \in BusyUnits
  BY CrewTypes DEF BusyUnits, Granted, Busy
<1>2. /\ IsFiniteSet(BusyUnits \ {u})
      /\ Cardinality(BusyUnits \ {u}) = Cardinality(BusyUnits) - 1
  BY <1>1, FS_RemoveElement
<1>3. Cardinality(Granted) <= Cardinality(BusyUnits \ {u})
  BY <1>1, <1>2, FS_Subset
<1> QED
  BY <1>2, <1>3, CrewTypes

(* No step but Start takes a thread, and none but a grant gives a request. *)
LEMMA QuietCrew ==
    ASSUME TypeOK, NEW u \in Units, FetchOne(u), ~Start(u), ~Grant(u)
    PROVE  /\ Moves(u)
           /\ unit[u].pc \in Busy
           /\ unit'[u].pc \notin {"pause", "send"} \/ unit[u].pc \in {"pause", "send"}
<1> USE DEF Busy
<1>1. CASE ReadClock(u)
  BY <1>1, GotoMoves DEF ReadClock
<1>2. CASE Wake(u)
  BY <1>2, GotoMoves DEF Wake
<1>3. CASE AnswerThrottled(u)
  BY <1>3, GotoMoves, ConstantsOK DEF AnswerThrottled
<1>4. CASE Nap(u)
  <2>1. unit'[u].pc = "nap"
    BY <1>4 DEF Nap, TypeOK, Unit
  <2> QED
    BY <1>4, <2>1, QuietMoves DEF Nap, Considered
<1>5. CASE DeferInCooldown(u) \/ DeferForWait(u) \/ RecordThrottled(u)
  <2>1. cooldown \in Int /\ unit[u].timer \in Int
    BY UnitFields DEF TypeOK
  <2>2. DeferForWait(u) => Wait(u) - Lag(u) \in Int
    BY WaitIsTicks DEF DeferForWait, Ready
  <2>3. Moves(u) /\ unit'[u].pc \in {"queued", "over"}
    BY <1>5, <2>1, <2>2, DeferMoves DEF DeferInCooldown, DeferForWait, RecordThrottled
  <2> QED
    BY <1>5, <2>3 DEF DeferInCooldown, DeferForWait, RecordThrottled, Considered
<1>6. CASE DeferAtCap(u) \/ AnswerThrottledBare(u)
  BY <1>6, TerminalizeMoves DEF DeferAtCap, AnswerThrottledBare
<1>7. CASE AnswerUnusable(u) \/ RetryThrottled(u)
  BY <1>7, ResendMoves, TerminalizeMoves, UnitFields, ConstantsOK
     DEF AnswerUnusable, RetryThrottled
<1>8. CASE Send(u)
  BY <1>8, SendMoves DEF Send
<1>9. CASE Answer(u)
  BY <1>9, AnswerMoves DEF Answer
<1> QED
  BY <1>1, <1>2, <1>3, <1>4, <1>5, <1>6, <1>7, <1>8, <1>9 DEF FetchOne, Acquire, Exchange

(* The requests sent under a cooldown and those still to be sent stay      *)
(* below the number of threads.                                            *)
LEMMA KeepsCrew ==
    ASSUME TypeOK, Crew, [Next]_vars
    PROVE  Crew'
<1> USE DEF storeVars, historyVars
<1> DEFINE B == Cardinality(BusyUnits)
           G == Cardinality(Granted)
<1>0. /\ B \in Nat /\ G \in Nat /\ B' \in Nat /\ G' \in Nat
      /\ cooldown \in Int /\ stragglers \in Nat /\ MaxWorkers \in Nat \ {0}
  <2>1. B' \in Nat /\ G' \in Nat
    <3>1. BusyUnits' \subseteq Units /\ Granted' \subseteq Units /\ IsFiniteSet(Units)
      BY ConstantsOK DEF BusyUnits, Granted
    <3> QED
      BY <3>1, FS_Subset, FS_CardinalityType
  <2> QED
    BY <2>1, CrewTypes, Numbers DEF TypeOK
<1>a. ASSUME BusyUnits' = BusyUnits, Granted' = Granted,
             cooldown' = cooldown, stragglers' = stragglers
      PROVE  Crew'
  BY <1>a DEF Crew
<1>1. CASE Tick
  <2>1. BusyUnits' = BusyUnits /\ Granted' = Granted
    BY <1>1, TickMoves DEF BusyUnits, Granted
  <2>2. cooldown' \in Int /\ cooldown' <= cooldown /\ (cooldown' > 0 => cooldown > 1)
    BY <1>0, <1>1, Numbers DEF Tick, Elapse
  <2>3. stragglers' = IF cooldown > 1 THEN stragglers ELSE 0
    BY <1>1 DEF Tick
  <2>4. cooldown' <= 0 => stragglers' = 0
    BY <1>0, <1>1, <2>3, Numbers DEF Tick, Elapse, Crew
  <2> QED
    BY <1>0, <2>1, <2>2, <2>3, <2>4 DEF Crew
<1>2. CASE RunTimesOut
  BY <1>2, <1>a DEF RunTimesOut, BusyUnits, Granted
<1>3. ASSUME NEW u \in Units, FetchOne(u) PROVE Crew'
  <2>1. CASE Start(u)
    <3>1. Moves(u) /\ unit'[u].pc = "gate" /\ UNCHANGED <<cooldown, stragglers>>
      BY <2>1, GotoMoves DEF Start, Busy
    <3>2. B' <= B + 1 /\ G' <= G /\ B < MaxWorkers
      BY <2>1, <3>1, CrewShrinks DEF Start
    <3> QED
      BY <1>0, <3>1, <3>2 DEF Crew
  <2>2. CASE Grant(u)
    <3>1. Moves(u) /\ unit[u].pc \in Busy /\ UNCHANGED <<cooldown, stragglers>>
      BY <2>2, GrantMoves DEF Grant, Considered, Busy
    <3>2. cooldown <= 0
      BY <1>0, <2>2, UnitFields DEF Grant, Considered, InCooldown, Lag
    <3> QED
      BY <1>0, <3>1, <3>2, CrewShrinks DEF Crew
  <2>3. CASE ~Start(u) /\ ~Grant(u)
    <3>1. /\ Moves(u) /\ unit[u].pc \in Busy /\ B' <= B /\ G' <= G
      BY <1>3, <2>3, QuietCrew, CrewShrinks
    <3>2. CASE Send(u)
      <4>1. G' = G - 1
        BY <3>1, <3>2, SendMoves, CrewShrinks DEF Send
      <4>2. cooldown' = cooldown
            /\ stragglers' = IF cooldown > 0 THEN stragglers + 1 ELSE stragglers
        BY <3>2 DEF Send
      <4> QED
        BY <1>0, <3>1, <4>1, <4>2 DEF Crew
    <3>3. CASE RecordThrottled(u)
      <4>1. G + 1 <= B
        BY <3>3, GrantedBelowBusy DEF RecordThrottled, Busy
      <4>2. /\ cooldown' = unit[u].timer /\ unit[u].timer \in Nat
            /\ stragglers' = IF cooldown > 0 /\ unit[u].timer > 0 THEN stragglers ELSE 0
        BY <3>3, UnitFields DEF RecordThrottled
      <4> QED
        BY <1>0, <3>1, <4>1, <4>2 DEF Crew
    <3>4. CASE ~Send(u) /\ ~RecordThrottled(u)
      <4>1. UNCHANGED <<cooldown, stragglers>>
        BY <1>3, <2>3, <3>4, QuietMoves DEF FetchOne, Acquire, Exchange, Answer
      <4> QED
        BY <1>0, <3>1, <4>1 DEF Crew
    <3> QED
      BY <3>2, <3>3, <3>4
  <2> QED
    BY <2>1, <2>2, <2>3
<1>4. CASE UNCHANGED vars
  BY <1>4, <1>a DEF vars, BusyUnits, Granted
<1> QED
  BY <1>1, <1>2, <1>3, <1>4 DEF Next
-----------------------------------------------------------------------------
(* The inductive invariant holds in every reachable state. *)
THEOREM AlwaysSound == Spec => []IInv
<1>1. Init => IInv
  <2> SUFFICES ASSUME Init PROVE IInv
    OBVIOUS
  <2>1. TypeOK
    BY TypeOKInitially
  <2>2. SpendWithinCap /\ Meter /\ Slot
    BY Numbers DEF Init, SpendWithinCap, Meter, Slot, Queued
  <2>3. Crew
    <3>1. \A u \in Units : unit[u].pc = "queued"
      BY DEF Init, Queued
    <3>2. BusyUnits = {} /\ Granted = {}
      BY <3>1 DEF BusyUnits, Granted, Busy
    <3>3. Cardinality({}) = 0
      BY FS_EmptySet
    <3> QED
      BY <3>2, <3>3, Numbers DEF Init, Crew
  <2> QED
    BY <2>1, <2>2, <2>3 DEF IInv
<1>2. IInv /\ [Next]_vars => IInv'
  <2> SUFFICES ASSUME IInv, [Next]_vars PROVE IInv'
    OBVIOUS
  <2> USE DEF IInv
  <2>1. TypeOK'
    BY TypeOKKept
  <2> QED
    BY <2>1, KeepsCap, KeepsMeter, KeepsSlot, KeepsCrew
<1> QED
  BY <1>1, <1>2, PTL DEF Spec

(* No interleaving of the workers' check-and-reserve steps charges a run   *)
(* more than max_per_run.                                                  *)
THEOREM CapRespected == Spec => []SpendWithinCap
<1>1. IInv => SpendWithinCap
  BY DEF IInv
<1> QED
  BY <1>1, AlwaysSound, PTL

(* Until the meter resets, a grant takes at most the usable part of what   *)
(* all earlier ones left of the last report: the headroom is kept of the   *)
(* rest, not of the report as the documents say.                           *)
THEOREM HeadroomIsOfTheRest == Spec => HeadroomOfTheRest
<1> USE DEF storeVars, historyVars
<1>1. ASSUME IInv, [Next]_vars, told # None, ResetPending, reserved' > reserved
      PROVE  reserved' - reserved <= Usable(told - reserved)
  <2>1. TypeOK /\ remaining = told - reserved /\ reserved \in Nat
    BY <1>1 DEF IInv, Meter, TypeOK
  <2>2. PICK u \in Units : FetchOne(u)
    BY <1>1, <2>1 DEF Next, Tick, RunTimesOut, vars
  <2>3. ~Answer(u)
    BY <1>1, <2>1 DEF Answer, Reconcile
  <2>4. Grant(u)
    <3>1. ~Send(u) /\ ~RecordThrottled(u)
      BY <1>1, <2>1 DEF Send, RecordThrottled
    <3> QED
      BY <1>1, <2>1, <2>2, <2>3, <3>1, QuietMoves DEF FetchOne, Acquire, Exchange
  <2>5. Known /\ reserved' = reserved + unit[u].cost
    BY <1>1, <2>1, <2>4 DEF Grant
  <2>6. unit[u].cost <= Usable(remaining)
    <3>1. Usable(remaining) \in Nat /\ unit[u].cost \in Nat
      BY <2>1, <2>5, WaitIsTicks, UnitFields
    <3> QED
      BY <1>1, <2>1, <2>4, <2>5, <3>1, GrantFits DEF Enough
  <2>7. unit[u].cost \in Nat
    BY <2>1, UnitFields
  <2>8. reserved' - reserved = unit[u].cost
    BY <2>1, <2>5, <2>7
  <2> QED
    BY <2>1, <2>6, <2>8
<1>2. IInv /\ [Next]_vars =>
        [told # None /\ ResetPending /\ reserved' > reserved
            => reserved' - reserved <= Usable(told - reserved)]_vars
  BY <1>1
<1> QED
  BY <1>2, AlwaysSound, PTL DEF Spec, HeadroomOfTheRest

(* A recorded 429 stops the scope: under its cooldown at most one request  *)
(* granted before it is sent by each other worker thread.                  *)
THEOREM CooldownStopsSends == Spec => []StragglersBounded
<1>1. IInv => StragglersBounded
  BY CrewTypes, Numbers DEF IInv, Crew, TypeOK, StragglersBounded
<1> QED
  BY <1>1, AlwaysSound, PTL

(* Grants, by whichever workers, keep min_interval between their clock     *)
(* readings, but for cold starts and for calls granted to a meter that is  *)
(* too short but whose reset has passed: the code spaces neither of these. *)
THEOREM SlotsKept == Spec => PacedApart
<1> USE DEF storeVars, historyVars
<1>1. ASSUME IInv, [Next]_vars, NEW u \in Units,
             unit[u].pc = "ask", unit'[u].pc \in {"send", "pause"}, Known, ~AtReset(u)
      PROVE  sinceGrant - Lag(u) >= MinInterval
  <2>1. TypeOK /\ Slot
    BY <1>1 DEF IInv
  <2>2. Grant(u)
    <3>1. ~Tick
      BY <1>1, <2>1, TickMoves
    <3>2. ~RunTimesOut /\ ~UNCHANGED vars
      BY <1>1 DEF RunTimesOut, vars
    <3>3. \A v \in Units \ {u} : ~FetchOne(v)
      BY <1>1, <2>1, AsksFresh
    <3>4. FetchOne(u)
      BY <1>1, <3>1, <3>2, <3>3 DEF Next
    <3>5. ~Start(u)
      BY <1>1 DEF Start
    <3> QED
      BY <1>1, <2>1, <3>4, <3>5, QuietCrew
  <2>3. Known /\ Enough(u)
    BY <1>1, <2>1, <2>2, ShortGrants
  <2>4. Wait(u) = 0 /\ FairTicks(u) \in Nat /\ Lag(u) \in Nat /\ Lag(u) <= MaxLag
    BY <1>1, <2>1, <2>2, <2>3, WaitIsTicks DEF Grant, Ready, Slot, Lag
  <2>5. Until(u, nextIn) \in Nat /\ Until(u, nextIn) = 0
    BY <1>1, <2>1, <2>3, <2>4 DEF Wait, Larger, Until, NotNegative, TypeOK
  <2>6. nextIn + Lag(u) <= 0
    BY <2>1, <2>4, <2>5 DEF Until, NotNegative, TypeOK
  <2> QED
    BY <2>1, <2>4, <2>6, Numbers DEF Slot, TypeOK
<1>2. IInv /\ [Next]_vars =>
        [\A u \in Units :
            unit[u].pc = "ask" /\ unit'[u].pc \in {"send", "pause"} /\ Known /\ ~AtReset(u)
              => sinceGrant - Lag(u) >= MinInterval]_vars
  BY <1>1
<1> QED
  BY <1>2, AlwaysSound, PTL DEF Spec, PacedApart
=============================================================================

------------------------------- MODULE Pacer -------------------------------
(***************************************************************************)
(* The rate-limit budget of one scope (one Source with a profile), shared  *)
(* by the workers that fetch the units of one run.  Before each request a  *)
(* worker asks try_acquire, which decides and reserves in one step (a Lua  *)
(* script in Redis); afterwards the answer's meters overwrite the store.   *)
(*                                                                         *)
(* Time is counted in ticks and every deadline is kept as the ticks left   *)
(* until it, down to -MaxLag: the code only ever takes the difference of a *)
(* deadline and a clock reading that is at most MaxLag old, and cuts it at *)
(* zero, so nothing further back can be told apart.                        *)
(*                                                                         *)
(* A profile uses one meter unit ("request" or "cost") for its estimates   *)
(* and its reports alike, so there is one meter.  Abstracted: what is      *)
(* parsed, locks, queue and rows (see FanOut); any report is possible.     *)
(***************************************************************************)
EXTENDS Integers, FiniteSets

CONSTANTS
    Units,        \* units of the run in this scope
    MaxWorkers,   \* threads of the Huey consumer
    None,         \* a meter or a reset that is not known
    MaxPages,     \* Source.max_pages
    MaxAttempts,  \* RateLimitPolicy.max_defer_attempts
    MaxRetries,   \* Retry(total) of the fetcher's API session
    MinInterval,  \* RateLimitPolicy.min_interval
    NoResetWait,  \* the 30 s of an exhausted meter without a reset
    Threshold,    \* RateLimitPolicy.short_wait_threshold
    HeadroomPct,  \* RateLimitPolicy.headroom_pct, in percent
    FairInterval, \* RateLimitPolicy.fair_interval
    Cap,          \* RateLimitPolicy.max_per_run of the unit
    FetchDelay,   \* Fetcher.delay_seconds
    Remainings,   \* what a response may report as remaining
    Resets,       \* ... as ticks until the reset
    Costs,        \* ... as the cost of the query
    RetryAfters,  \* ... as Retry-After; also the backoffs of urllib3
    MaxLag        \* bound: age of a clock reading when the store uses it

ASSUME ConstantsOK ==
    /\ IsFiniteSet(Units)
    /\ None \notin Int
    /\ {MaxWorkers, MaxPages, NoResetWait} \subseteq Nat \ {0}
    /\ {MaxAttempts, MaxRetries, MinInterval, Threshold, Cap, FetchDelay,
        MaxLag} \subseteq Nat
    /\ HeadroomPct \in 0 .. 100
    /\ FairInterval \in BOOLEAN
    /\ Remainings \cup Resets \cup Costs \cup RetryAfters \subseteq Nat

VARIABLES
    \* the store: remaining and reset of the meter, next_allowed_at,
    \* exhausted_until, and what the run has spent
    remaining, reset, nextIn, cooldown, spent,
    \* fetch_one of each unit
    unit,
    \* the run has reached max_run_wall_clock_seconds
    clockOut,
    \* history: the last reported remaining, what was reserved of it since,
    \* the ticks since the clock reading of the last grant (as far as they
    \* matter), and the requests sent under the present cooldown
    told, reserved, sinceGrant, stragglers

storeVars == <<remaining, reset, nextIn, cooldown, spent>>
historyVars == <<told, reserved, sinceGrant, stragglers>>
vars == <<storeVars, unit, clockOut, historyVars>>

NotNegative(n) == IF n > 0 THEN n ELSE 0
Larger(m, n) == IF m > n THEN m ELSE n

(* Where fetch_one stands: in the queue; before try_acquire's clock        *)
(* reading; between the reading and the store; asleep; in the cold-start   *)
(* delay; before, in, and (urllib3) between two tries of the request; with *)
(* a 429 at hand; or over, terminalized with whatever status.              *)
Busy == {"gate", "ask", "nap", "pause", "send", "sent", "backoff", "throttled"}

(* timer: the ticks to wait; in "ask" the age of the reading, and in       *)
(* "throttled" the Retry-After.                                            *)
Unit == [pc : Busy \cup {"queued", "over"}, timer : Nat,
         attempt : 0 .. MaxAttempts, page : 1 .. MaxPages, cost : Nat,
         tries : 0 .. MaxRetries]
Queued(a, delay) == [pc |-> "queued", timer |-> delay, attempt |-> a, page |-> 1,
                     cost |-> 1, tries |-> 0]

BusyUnits == {u \in Units : unit[u].pc \in Busy}

Init ==
    /\ remaining = None /\ reset = None
    /\ nextIn = -MaxLag /\ cooldown = -MaxLag /\ spent = 0
    /\ unit = [u \in Units |-> Queued(0, 0)]
    /\ clockOut = FALSE
    /\ told = None /\ reserved = 0 /\ sinceGrant = MinInterval + MaxLag /\ stragglers = 0
-----------------------------------------------------------------------------
(* decide: all waits are those of unit u with its reading of the clock     *)

Lag(u)    == unit[u].timer
Until(u, deadline) == NotNegative(deadline + Lag(u))
Known     == remaining # None
Usable(r) == (r * (100 - HeadroomPct)) \div 100

(* Mutant: the cold start is admitted before the cooldown is looked at. *)
InCooldownIfKnown(u) == Known /\ cooldown + Lag(u) > 0
InCooldown(u) == cooldown + Lag(u) > 0
(* Mutant: the cap is compared with what was spent before this call. *)
OverCapBefore(u) == spent > Cap
OverCap(u)    == spent + unit[u].cost > Cap
Enough(u)     == Usable(remaining) >= unit[u].cost

(* The time to the reset that is to be shared by the usable requests; the  *)
(* fair interval is FairTime / Usable.                                     *)
FairTime(u) == IF FairInterval /\ reset # None /\ Usable(remaining) > 0
               THEN Until(u, reset) ELSE 0
FairTicks(u) ==
    LET n == Larger(1, Usable(remaining)) IN (FairTime(u) + n - 1) \div n

ExhaustedWait(u) ==
    IF reset # None THEN Until(u, reset) ELSE Larger(MinInterval, NoResetWait)

(* max_wait, rounded up to whole ticks. *)
Wait(u) == IF Enough(u) THEN Larger(Until(u, nextIn), FairTicks(u))
                        ELSE ExhaustedWait(u)

(* max_wait < short_wait_threshold, before rounding. *)
IsShort(u) ==
    IF Enough(u)
    THEN /\ Until(u, nextIn) < Threshold
         /\ FairTime(u) < Threshold * Larger(1, Usable(remaining))
    ELSE ExhaustedWait(u) < Threshold

Considered(u) == unit[u].pc = "ask" /\ ~InCooldown(u) /\ ~OverCap(u)
Ready(u) == Known => Wait(u) = 0
-----------------------------------------------------------------------------
(* fetch_one and the pages of fetch_one_unit *)

Goto(u, label, ticks) == unit' = [unit EXCEPT ![u].pc = label, ![u].timer = ticks]
Terminalize(u) == unit' = [unit EXCEPT ![u] = [Queued(0, 0) EXCEPT !.pc = "over"]]

(* A deferred unit gives up or goes back to the queue until eta; its next  *)
(* attempt starts at page 1 with the default estimate.                     *)
GiveUp(u) == unit[u].attempt >= MaxAttempts \/ clockOut
(* Mutant: the requeued task keeps its attempt number. *)
DeferUncounted(u, eta) ==
    IF GiveUp(u) THEN Terminalize(u)
    ELSE unit' = [unit EXCEPT ![u] = Queued(@.attempt, NotNegative(eta))]
DeferUntil(u, eta) ==
    IF GiveUp(u) THEN Terminalize(u)
    ELSE unit' = [unit EXCEPT ![u] = Queued(@.attempt + 1, NotNegative(eta))]

(* A worker takes the task and reaches the gate of page 1. *)
Start(u) ==
    /\ unit[u].pc = "queued"
    /\ unit[u].timer = 0
    /\ Cardinality(BusyUnits) < MaxWorkers
    /\ Goto(u, "gate", 0)
    /\ UNCHANGED <<storeVars, clockOut, historyVars>>

(* try_acquire reads the clock before it calls the store. *)
ReadClock(u) ==
    /\ unit[u].pc = "gate"
    /\ Goto(u, "ask", 0)
    /\ UNCHANGED <<storeVars, clockOut, historyVars>>

DeferInCooldown(u) ==
    /\ unit[u].pc = "ask"
    /\ InCooldown(u)
    /\ DeferUntil(u, cooldown)
    /\ UNCHANGED <<storeVars, clockOut, historyVars>>

(* The per-run cap has no eta: the unit gives up. *)
DeferAtCap(u) ==
    /\ unit[u].pc = "ask"
    /\ ~InCooldown(u)
    /\ OverCap(u)
    /\ Terminalize(u)
    /\ UNCHANGED <<storeVars, clockOut, historyVars>>

(* ShortWait: sleep, then ask again. *)
Nap(u) ==
    /\ Considered(u)
    /\ ~Ready(u)
    /\ IsShort(u)
    /\ unit' = [unit EXCEPT ![u] = [@ EXCEPT !.pc = "nap", !.timer = Wait(u)]]
    /\ UNCHANGED <<storeVars, clockOut, historyVars>>

DeferForWait(u) ==
    /\ Considered(u)
    /\ ~Ready(u)
    /\ ~IsShort(u)
    /\ DeferUntil(u, Wait(u) - Lag(u))
    /\ UNCHANGED <<storeVars, clockOut, historyVars>>

(* Mutant: the reservation is not cut at zero. *)
ReserveBelowZero(u) == IF Known THEN remaining - unit[u].cost ELSE None
(* Mutant: the reservation of a Ready is left to the answer's meters. *)
ReserveNothing(u) == remaining
(* The estimate comes off a known meter. *)
Reserve(u) == IF Known THEN NotNegative(remaining - unit[u].cost) ELSE None
(* Mutant: a cold start claims no slot. *)
NextSlotIfKnown(u) == IF Known THEN Larger(MinInterval - Lag(u), -MaxLag) ELSE nextIn
NextSlot(u) == Larger(MinInterval - Lag(u), -MaxLag)

(* Ready: reserve the estimate, charge the run, claim the next slot.  With *)
(* no known meter there is nothing to reserve and the worker waits for the *)
(* fetcher's own delay.                                                    *)
Grant(u) ==
    /\ Considered(u)
    /\ Ready(u)
    /\ remaining' = Reserve(u)
    /\ reserved' = IF Known THEN reserved + unit[u].cost ELSE reserved
    /\ spent' = spent + unit[u].cost
    /\ nextIn' = NextSlot(u)
    /\ unit' = [unit EXCEPT ![u] = [@ EXCEPT !.pc = IF Known THEN "send" ELSE "pause",
                                             !.timer = IF Known THEN 0 ELSE FetchDelay]]
    /\ sinceGrant' = Lag(u)
    /\ UNCHANGED <<reset, cooldown, clockOut, told, stragglers>>

(* The end of a sleep: of ShortWait, of the cold-start delay, of urllib3.  *)
Wake(u) ==
    /\ unit[u].timer = 0
    /\ \/ unit[u].pc = "nap" /\ Goto(u, "gate", 0)
       \/ unit[u].pc = "pause" /\ Goto(u, "send", 0)
       \/ unit[u].pc = "backoff" /\ Goto(u, "sent", 0)
    /\ UNCHANGED <<storeVars, clockOut, historyVars>>

Send(u) ==
    /\ unit[u].pc = "send"
    /\ unit' = [unit EXCEPT ![u].pc = "sent", ![u].tries = MaxRetries]
    /\ stragglers' = IF cooldown > 0 THEN stragglers + 1 ELSE stragglers
    /\ UNCHANGED <<storeVars, clockOut, told, reserved, sinceGrant>>
-----------------------------------------------------------------------------
(* The vendor's answer, through urllib3 *)

Resend(u, ticks) ==
    unit' = [unit EXCEPT ![u] = [@ EXCEPT !.pc = "backoff", !.timer = ticks,
                                          !.tries = unit[u].tries - 1]]

(* A 503 or a transport error is tried again below the fetcher; the last   *)
(* one, and an oversized answer at any time, raises.                       *)
AnswerUnusable(u) ==
    /\ unit[u].pc = "sent"
    /\ \/ unit[u].tries > 0 /\ \E b \in RetryAfters : Resend(u, b)
       \/ Terminalize(u)
    /\ UNCHANGED <<storeVars, clockOut, historyVars>>

(* A 429 with Retry-After. *)
AnswerThrottled(u) ==
    /\ unit[u].pc = "sent"
    /\ \E r \in RetryAfters : Goto(u, "throttled", r)
    /\ UNCHANGED <<storeVars, clockOut, historyVars>>

(* urllib3: Retry.is_retry also retries 413, 429 and 503 outside           *)
(* status_forcelist when they carry Retry-After, while tries are left.     *)
RetryThrottled(u) ==
    /\ unit[u].pc = "throttled"
    /\ unit[u].tries > 0
    /\ Resend(u, unit[u].timer)
    /\ UNCHANGED <<storeVars, clockOut, historyVars>>

(* record_429 with a Retry-After, then Defer until then. *)
RecordThrottled(u) ==
    /\ unit[u].pc = "throttled"
    /\ unit[u].tries = 0
    /\ cooldown' = unit[u].timer
    /\ stragglers' = IF cooldown > 0 /\ unit[u].timer > 0 THEN stragglers ELSE 0
    /\ DeferUntil(u, unit[u].timer)
    /\ UNCHANGED <<remaining, reset, nextIn, spent, clockOut, told, reserved, sinceGrant>>

(* A 429 without a usable Retry-After is deferred without an eta. *)
AnswerThrottledBare(u) ==
    /\ unit[u].pc = "sent"
    /\ Terminalize(u)
    /\ UNCHANGED <<storeVars, clockOut, historyVars>>

(* update_meters in Redis: a reset that is not reported stays as it was.   *)
Reconcile ==
    \/ UNCHANGED <<remaining, reset, told, reserved>>
    \/ \E r \in Remainings, t \in Resets \cup {None} :
          /\ remaining' = r
          /\ reset' = IF t = None THEN reset ELSE t
          /\ told' = r
          /\ reserved' = 0

(* The next page, with the cost this answer reported, if any. *)
NextPage(u) ==
    /\ unit[u].page < MaxPages
    /\ \E c \in Costs \cup {unit[u].cost} :
          unit' = [unit EXCEPT ![u] = [@ EXCEPT !.pc = "gate", !.timer = 0,
                                                !.page = unit[u].page + 1, !.cost = c]]

(* Any other answer is reconciled.  Then the unit goes on to the next page *)
(* or is terminalized: failed by page 1's status or a parse error, or with *)
(* its pages at the last one or at a later page's error status.            *)
Answer(u) ==
    /\ unit[u].pc = "sent"
    /\ Reconcile
    /\ Terminalize(u) \/ NextPage(u)
    /\ UNCHANGED <<nextIn, cooldown, spent, clockOut, sinceGrant, stragglers>>
-----------------------------------------------------------------------------
(* Time *)

Elapse(deadline) == IF deadline > -MaxLag THEN deadline - 1 ELSE deadline

(* One tick: deadlines come nearer, sleepers sleep, readings age.          *)
Tick ==
    /\ \A u \in Units : unit[u].pc = "ask" => unit[u].timer < MaxLag
    /\ reset' = IF reset = None THEN None ELSE Elapse(reset)
    /\ nextIn' = Elapse(nextIn)
    /\ cooldown' = Elapse(cooldown)
    /\ sinceGrant' = IF sinceGrant < MinInterval + MaxLag THEN sinceGrant + 1 ELSE sinceGrant
    /\ stragglers' = IF cooldown > 1 THEN stragglers ELSE 0
    /\ unit' = [u \in Units |->
                  [unit[u] EXCEPT !.timer =
                      IF unit[u].pc = "ask" THEN @ + 1
                      ELSE IF unit[u].pc = "throttled" THEN @
                      ELSE NotNegative(@ - 1)]]
    /\ UNCHANGED <<remaining, spent, clockOut, told, reserved>>

RunTimesOut ==
    /\ ~clockOut
    /\ clockOut' = TRUE
    /\ UNCHANGED <<storeVars, unit, historyVars>>

Acquire(u) ==
    \/ ReadClock(u) \/ DeferInCooldown(u) \/ DeferAtCap(u)
    \/ Nap(u) \/ DeferForWait(u) \/ Grant(u)
Exchange(u) ==
    \/ Send(u) \/ AnswerUnusable(u) \/ AnswerThrottled(u) \/ RetryThrottled(u)
    \/ RecordThrottled(u) \/ AnswerThrottledBare(u) \/ Answer(u)
FetchOne(u) == Start(u) \/ Acquire(u) \/ Wake(u) \/ Exchange(u)

Next == Tick \/ RunTimesOut \/ \E u \in Units : FetchOne(u)

Spec == Init /\ [][Next]_vars

(* Time passes, Huey keeps its threads running, sleeps end, and a request  *)
(* is answered or times out.                                               *)
FairSpec == Spec /\ WF_vars(Tick) /\ \A u \in Units : WF_vars(FetchOne(u))
-----------------------------------------------------------------------------
TypeOK ==
    /\ remaining \in Nat \cup {None}
    /\ reset \in Int \cup {None}
    /\ nextIn \in Int /\ cooldown \in Int
    /\ spent \in Nat
    /\ unit \in [Units -> Unit]
    /\ clockOut \in BOOLEAN
    /\ told \in Nat \cup {None}
    /\ reserved \in Nat
    /\ sinceGrant \in Nat
    /\ stragglers \in Nat

(* The reset of the meter is ahead, as far as it is known. *)
ResetPending == reset = None \/ reset > 0

(* No interleaving of the workers' check-and-reserve steps charges the run *)
(* more than max_per_run: what pacer.decide admits is what is charged.     *)
SpendWithinCap == spent <= Cap

(* Until the meter resets, each grant takes at most the usable part of what *)
(* the earlier ones, of all workers and whatever is outstanding, left of    *)
(* the last report.  This is less than documented: only half of what the   *)
(* vendor reports is ever usable (docs/rate_limiting.md:61-63, and with    *)
(* room for one call at most one caller is Ready, openspec/specs/          *)
(* api-rate-limiting/spec.md:44-46, 66), but pacer.py:120 halves what is   *)
(* left anew for each call.  Of 3 reported, 1 usable, two calls are granted. *)
HeadroomOfTheRest ==
    [][told # None /\ ResetPending /\ reserved' > reserved
          => reserved' - reserved <= Usable(told - reserved)]_vars

(* A 429's cooldown stops all workers of the scope: besides the requests   *)
(* granted before it was recorded, at most one for each other worker       *)
(* thread, none is sent until it is over.                                  *)
StragglersBounded == stragglers <= MaxWorkers - 1

(* A grant keeps min_interval to the grant before, whoever got that and on  *)
(* whatever path, by the clock readings of the two workers, but for two    *)
(* kinds of grants for which pacer.py:121-142 does not look at             *)
(* next_allowed_at: a cold start, and a call for which the meter is too    *)
(* short but whose reset has passed.  These break the "floor on the gap    *)
(* between requests to the same source, regardless of how much quota       *)
(* remains" of docs/rate_limiting.md:64-66.                                *)
AtReset(u) == ~Enough(u) /\ reset # None /\ Until(u, reset) = 0
PacedApart ==
    [][\A u \in Units :
          unit[u].pc = "ask" /\ unit'[u].pc \in {"send", "pause"} /\ Known /\ ~AtReset(u)
              => sinceGrant - Lag(u) >= MinInterval]_vars

(* Whatever the vendor answers, the gate, the naps, the requeues and the   *)
(* restarts at page 1 come to an end: every unit is terminalized.          *)
EveryUnitEnds == \A u \in Units : <>(unit[u].pc = "over")

(* The inductive invariant.  Until the reset the meter is the report less  *)
(* the reservations; the next slot and the last grant's reading are        *)
(* min_interval apart; the requests sent under a cooldown and those still  *)
(* to be sent belong to the threads that did not record it.                *)
Meter == /\ told = None <=> remaining = None
         /\ told # None /\ ResetPending => remaining = told - reserved
Slot == /\ nextIn >= -MaxLag
        /\ \/ nextIn + sinceGrant >= MinInterval
           \/ sinceGrant >= MinInterval + MaxLag
        /\ \A u \in Units : unit[u].pc = "ask" => unit[u].timer <= MaxLag
Granted == {u \in Units : unit[u].pc \in {"pause", "send"}}
Crew == /\ Cardinality(BusyUnits) <= MaxWorkers
        /\ cooldown <= 0 => stragglers = 0
        /\ cooldown > 0 => stragglers + Cardinality(Granted) <= MaxWorkers - 1
IInv == TypeOK /\ SpendWithinCap /\ Meter /\ Slot /\ Crew
=============================================================================

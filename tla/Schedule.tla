------------------------------ MODULE Schedule ------------------------------
(***************************************************************************)
(* Recurring runs: the UpdateSchedule rows, the periodic task that wakes   *)
(* in a worker thread, selects the due ones, dispatches a run for each and *)
(* stamps it afterwards, and the operators who edit and delete rows        *)
(* meanwhile.                                                              *)
(*                                                                         *)
(* Time is counted in ticks; clock is the local time of day, and a moment  *)
(* in the past is kept as its age, up to MaxAge: is_due only compares ages *)
(* of at most a day.  Abstracted: the run itself (see FanOut), the tag     *)
(* scope (a due schedule may always turn out to have no active items), and *)
(* days of 23 or 25 hours.                                                 *)
(***************************************************************************)
EXTENDS Integers, FiniteSets

CONSTANTS
    Schedules,    \* in the order of Meta.ordering
    Workers,      \* consumer threads that may run the periodic task
    Never,        \* a schedule that has not run
    Hour, Day,    \* in ticks
    Plans,        \* the frequencies and anchors of the rows
    MaxOutage,    \* bound: ticks without a wake
    MaxLag,       \* bound: ticks that one periodic task takes
    MaxHazards    \* bound: failures, edits, deletions and overlapping executions

Frequency == {"hourly", "twice_daily", "daily"}
Plan == [frequency : Frequency, anchor : 0 .. Day - 1]
MaxAge == Day + MaxLag + 1

ASSUME ConstantsOK ==
    /\ IsFiniteSet(Schedules) /\ Schedules \subseteq Nat /\ IsFiniteSet(Workers) /\ Workers # {}
    /\ Never \notin Int
    /\ Day \in Nat \ {0} /\ Hour \in 1 .. Day /\ Day % (2 * Hour) = 0
    /\ {MaxOutage, MaxLag, MaxHazards} \subseteq Nat
    /\ Plans \subseteq Plan

VARIABLES
    clock,     \* local time of day
    row,       \* the UpdateSchedule rows; age is that of last_run_at
    task,      \* the execution of the periodic task in each thread
    edit,      \* the edit request that has loaded a row and not saved it
    asleep,    \* ticks since the last wake
    \* history: ticks since the reading at which the last run was dispatched,
    \* the runs dispatched within an interval of the one before, whether two
    \* executions have overlapped, the hazards
    sinceRun, doubles, overlapped, hazards

historyVars == <<sinceRun, doubles, overlapped>>
vars == <<clock, row, task, edit, asleep, historyVars, hazards>>

Age == 0 .. MaxAge \cup {Never}
Row == [plan : Plans, enabled : BOOLEAN, age : Age, present : BOOLEAN]
(* lag: the age of the clock reading; todo: the due schedules not stamped   *)
(* yet; at: the one that has been dispatched or skipped.                   *)
Task == [pc : {"idle", "woken", "loop", "stamp"}, lag : 0 .. MaxLag,
         todo : SUBSET Schedules, at : Schedules \cup {Never}]
Idle == [pc |-> "idle", lag |-> 0, todo |-> {}, at |-> Never]
NoEdit == [open |-> FALSE]
Edit == {NoEdit} \cup [open : {TRUE}, of : Schedules, age : Age]

Init ==
    /\ clock \in 0 .. Day - 1
    /\ row \in [Schedules -> {r \in Row : r.age = Never /\ r.present /\ r.enabled}]
    /\ task = [w \in Workers |-> Idle]
    /\ edit = NoEdit
    /\ asleep = 0
    /\ sinceRun = [s \in Schedules |-> Never] /\ doubles = 0 /\ overlapped = FALSE
    /\ hazards = 0
-----------------------------------------------------------------------------
(* is_due, of a plan p at the local time of day c *)

Interval(p) ==
    CASE p.frequency = "hourly" -> Hour
      [] p.frequency = "twice_daily" -> Day \div 2
      [] p.frequency = "daily" -> Day

(* Mutant: the hour before is not considered, nor the day before. *)
TodaysCandidates(p, c) ==
    CASE p.frequency = "hourly" -> {(c - (c % Hour)) + (p.anchor % Hour)}
      [] p.frequency = "twice_daily" -> {p.anchor, p.anchor + Day \div 2}
      [] p.frequency = "daily" -> {p.anchor}
Candidates(p, c) ==
    CASE p.frequency = "hourly" ->
            LET o == (c - (c % Hour)) + (p.anchor % Hour) IN {IF o > c THEN o - Hour ELSE o}
      [] p.frequency = "twice_daily" ->
            {p.anchor - Day \div 2, p.anchor, p.anchor + Day \div 2}
      [] p.frequency = "daily" -> {p.anchor - Day, p.anchor}

(* The ticks since each occurrence that _last_occurrence finds in the past. *)
SincePast(p, c) == {c - o : o \in {k \in Candidates(p, c) : k <= c}}

ClockOf(w) == (clock - task[w].lag) % Day
AgeOf(s, w) == row[s].age - task[w].lag
(* Mutant: due a tick early. *)
ElapsedEarly(s, w) == row[s].age # Never => AgeOf(s, w) >= Interval(row[s].plan) - 1
Elapsed(s, w) == row[s].age # Never => AgeOf(s, w) >= Interval(row[s].plan)

(* The latest occurrence exists and lies after last_run_at. *)
Reached(s, w) ==
    LET past == SincePast(row[s].plan, ClockOf(w))
    IN  /\ past # {}
        /\ row[s].age # Never => \E d \in past : AgeOf(s, w) > d

(* Mutant: the interval since the last run is not awaited. *)
IsDueByAnchor(s, w) == row[s].present /\ row[s].enabled /\ Reached(s, w)
IsDue(s, w) ==
    row[s].present /\ row[s].enabled /\ Elapsed(s, w) /\ Reached(s, w)
-----------------------------------------------------------------------------
(* dispatch_scheduled_updates and dispatch_due_schedules *)

(* The loop is at schedule s. *)
Turn(w, s) ==
    /\ task[w].pc = "loop"
    /\ s \in task[w].todo
    /\ \A t \in task[w].todo : s <= t

Hazard == hazards < MaxHazards /\ hazards' = hazards + 1

(* Huey delivers the periodic task; the clock is read once.  The task of   *)
(* the minute before may still run in another thread.                      *)
Wake(w) ==
    /\ task[w].pc = "idle"
    /\ task' = [task EXCEPT ![w] = [Idle EXCEPT !.pc = "woken"]]
    /\ asleep' = 0
    /\ IF \A v \in Workers : task[v].pc = "idle"
       THEN UNCHANGED <<overlapped, hazards>>
       ELSE Hazard /\ overlapped' = TRUE
    /\ UNCHANGED <<clock, row, edit, sinceRun, doubles>>

(* get_due_schedules *)
Load(w) ==
    /\ task[w].pc = "woken"
    /\ task' = [task EXCEPT ![w].pc = "loop", ![w].todo = {s \in Schedules : IsDue(s, w)}]
    /\ UNCHANGED <<clock, row, edit, asleep, historyVars, hazards>>

(* A run of s dispatched within an interval of the run before. *)
TooSoon(s, w) ==
    /\ sinceRun[s] # Never
    /\ sinceRun[s] - task[w].lag < Interval(row[s].plan)

Dispatch(w, s) ==
    /\ Turn(w, s)
    /\ task' = [task EXCEPT ![w].pc = "stamp", ![w].at = s]
    /\ sinceRun' = [sinceRun EXCEPT ![s] = task[w].lag]
    /\ doubles' = IF TooSoon(s, w) THEN doubles + 1 ELSE doubles
    /\ UNCHANGED <<clock, row, edit, asleep, overlapped, hazards>>

(* Mutant: continue before the stamp. *)
SkipUnstamped(w, s) ==
    /\ Turn(w, s)
    /\ task' = [task EXCEPT ![w].todo = @ \ {s}]
    /\ UNCHANGED <<clock, row, edit, asleep, historyVars, hazards>>
(* A tag without active items: no run, but a stamp. *)
SkipEmpty(w, s) ==
    /\ Turn(w, s)
    /\ task' = [task EXCEPT ![w].pc = "stamp", ![w].at = s]
    /\ UNCHANGED <<clock, row, edit, asleep, historyVars, hazards>>

(* last_run_at = now, in an UPDATE of that column; a row deleted meanwhile *)
(* makes save raise, and the remaining schedules are left to another wake. *)
Stamp(w) ==
    /\ task[w].pc = "stamp"
    /\ LET s == task[w].at
       IN  IF row[s].present
           THEN /\ row' = [row EXCEPT ![s].age = task[w].lag]
                /\ task' = [task EXCEPT ![w] = [@ EXCEPT !.pc = "loop", !.at = Never,
                                                         !.todo = task[w].todo \ {s}]]
           ELSE /\ task' = [task EXCEPT ![w] = Idle]
                /\ UNCHANGED row
    /\ UNCHANGED <<clock, edit, asleep, historyVars, hazards>>

Finish(w) ==
    /\ task[w].pc = "loop"
    /\ task[w].todo = {}
    /\ task' = [task EXCEPT ![w] = Idle]
    /\ UNCHANGED <<clock, row, edit, asleep, historyVars, hazards>>
-----------------------------------------------------------------------------
(* Hazards, each a step that counts against MaxHazards *)

(* The dispatch raises (dispatch_fan_out marks its run failed and passes   *)
(* the exception on): the loop is left and nothing is stamped.             *)
DispatchRaises(w) ==
    /\ Hazard
    /\ task[w].pc = "loop" /\ task[w].todo # {}
    /\ task' = [task EXCEPT ![w] = Idle]
    /\ UNCHANGED <<clock, row, edit, asleep, historyVars>>

ConsumerDies ==
    /\ Hazard
    /\ \E w \in Workers : task[w].pc # "idle"
    /\ task' = [w \in Workers |-> Idle]
    /\ UNCHANGED <<clock, row, edit, asleep, historyVars>>

(* UpdateScheduleUpdateView loads the row and saves all of its columns, the *)
(* stamp it has loaded among them; if the row is gone, save inserts it.    *)
EditLoad(s) ==
    /\ Hazard
    /\ edit = NoEdit
    /\ row[s].present
    /\ edit' = [open |-> TRUE, of |-> s, age |-> row[s].age]
    /\ UNCHANGED <<clock, row, task, asleep, historyVars>>

EditSave ==
    /\ edit.open
    /\ \E p \in Plans, on \in BOOLEAN :
          row' = [row EXCEPT ![edit.of] = [plan |-> p, enabled |-> on, age |-> edit.age,
                                           present |-> TRUE]]
    /\ edit' = NoEdit
    /\ UNCHANGED <<clock, task, asleep, historyVars, hazards>>

DeleteRow(s) ==
    /\ Hazard
    /\ row[s].present
    /\ row' = [row EXCEPT ![s].present = FALSE]
    /\ UNCHANGED <<clock, task, edit, asleep, historyVars>>
-----------------------------------------------------------------------------
Older(age) == IF age = Never \/ age = MaxAge THEN age ELSE age + 1

(* One tick.  Huey wakes a worker every minute; an outage lasts up to      *)
(* MaxOutage ticks and one execution up to MaxLag.                         *)
Tick ==
    /\ asleep < MaxOutage
    /\ \A w \in Workers : task[w].pc # "idle" => task[w].lag < MaxLag
    /\ clock' = (clock + 1) % Day
    /\ row' = [s \in Schedules |-> [row[s] EXCEPT !.age = Older(@)]]
    /\ task' = [w \in Workers |->
                  IF task[w].pc = "idle" THEN Idle ELSE [task[w] EXCEPT !.lag = @ + 1]]
    /\ edit' = IF edit.open THEN [edit EXCEPT !.age = Older(@)] ELSE edit
    /\ asleep' = asleep + 1
    /\ sinceRun' = [s \in Schedules |-> Older(sinceRun[s])]
    /\ UNCHANGED <<doubles, overlapped, hazards>>

RunTask(w) ==
    \/ Load(w) \/ Stamp(w) \/ Finish(w)
    \/ \E s \in Schedules : Dispatch(w, s) \/ SkipEmpty(w, s)

Next ==
    \/ Tick \/ ConsumerDies \/ EditSave
    \/ \E w \in Workers : Wake(w) \/ RunTask(w) \/ DispatchRaises(w)
    \/ \E s \in Schedules : EditLoad(s) \/ DeleteRow(s)

Spec == Init /\ [][Next]_vars

(* Time passes, Huey wakes some thread again and again, each thread runs   *)
(* the execution it holds, and an edit request ends.                       *)
FairSpec == Spec /\ WF_vars(Tick) /\ WF_vars(EditSave)
                 /\ WF_vars(\E w \in Workers : Wake(w))
                 /\ \A w \in Workers : WF_vars(RunTask(w))
-----------------------------------------------------------------------------
TypeOK ==
    /\ clock \in 0 .. Day - 1
    /\ row \in [Schedules -> Row]
    /\ task \in [Workers -> Task]
    /\ edit \in Edit
    /\ asleep \in 0 .. MaxOutage
    /\ sinceRun \in [Schedules -> Age]
    /\ doubles \in Nat /\ overlapped \in BOOLEAN
    /\ hazards \in 0 .. MaxHazards

(* docs/scheduling.md:69-70, "never double-fires within a period", of any   *)
(* number of threads: as long as no execution was delivered while another  *)
(* ran, a schedule fires twice within an interval only after a hazard (a   *)
(* consumer that died between run and stamp, an edit that wrote the old    *)
(* stamp back), and at most once for each.                                 *)
DoublesExplained == ~overlapped => doubles <= hazards

(* models.py:823-824 and docs/scheduling.md:79-81, "A window missed while    *)
(* the worker was down simply runs once on the next wake": once the        *)
(* interval since the last run is over, a wake selects every enabled       *)
(* schedule, but for one exception that breaks the promise.  models.py:    *)
(* 902-906 takes the slot 12 h before a twice-daily anchor to be the day   *)
(* before's second one; with an anchor after noon it is the same day's     *)
(* first one, and until then no slot is found: a window missed in the      *)
(* evening runs at none of the night's wakes.                              *)
BeforeFirstSlot(p, c) == p.frequency = "twice_daily" /\ c < p.anchor - Day \div 2
MissedWindowRuns ==
    [][\A w \in Workers :
          task[w].pc = "woken" /\ task'[w].pc = "loop"
            => task'[w].todo =
                  {t \in Schedules : /\ row[t].present /\ row[t].enabled /\ Elapsed(t, w)
                                     /\ ~BeforeFirstSlot(row[t].plan, ClockOf(w))}]_vars

(* No schedule is starved by the ones before it in the loop, by failing    *)
(* dispatches or by a tag without items: as long as it is there and        *)
(* enabled, it is stamped again and again.                                 *)
AlwaysServedAgain ==
    \A s \in Schedules :
        []<>(row[s].present /\ row[s].enabled
                => row[s].age # Never /\ row[s].age <= MaxLag)

(* The inductive invariant.  A row whose stamp is older than the last run, *)
(* or whose plan an edit has lengthened after it was selected, may fire    *)
(* too soon; so may a deleted one that an edit inserts again.  Each owes   *)
(* this to a hazard that has not been paid with a double run yet.          *)
Selected(s) ==
    \E w \in Workers : s \in task[w].todo /\ s # task[w].at /\ TooSoon(s, w)
Behind(s) ==
    /\ sinceRun[s] # Never
    /\ row[s].age = Never \/ row[s].age > sinceRun[s]
    /\ \A w \in Workers : s # task[w].at
Suspects == {s \in Schedules : ~row[s].present \/ Selected(s) \/ Behind(s)}
Revenants == {s \in Schedules : ~row[s].present /\ Selected(s)}
Credit ==
    ~overlapped =>
        doubles + Cardinality(Suspects) + Cardinality(Revenants)
          + (IF edit.open THEN 1 ELSE 0) <= hazards
(* What a task holds at each stage; as long as executions did not overlap, *)
(* one thread at most has any, and no run is younger than its reading.     *)
InStep ==
    \A w \in Workers :
        /\ task[w].pc \in {"idle", "woken"} => task[w].todo = {}
        /\ IF task[w].pc = "stamp" THEN task[w].at \in task[w].todo ELSE task[w].at = Never
        /\ task[w].pc = "idle" => task[w].lag = 0
        /\ \A v \in Workers :
              ~overlapped /\ task[v].pc # "idle" /\ task[w].pc # "idle" => v = w
        /\ \A s \in Schedules :
              ~overlapped /\ sinceRun[s] # Never => sinceRun[s] >= task[w].lag
IInv == TypeOK /\ InStep /\ Credit

(* docs/scheduling.md:49 and 77-78: Daily runs "Once per day at            *)
(* anchor_time" and "a run fires on the first minute-wake at or after its  *)
(* anchor slot".  With a worker that is always up, a run other than the    *)
(* first is at most as late as an outage and an execution.                 *)
RunsAtAnchor ==
    [][\A w \in Workers :
          \A s \in Schedules :
              Turn(w, s) /\ task'[w].pc = "stamp" /\ row[s].age # Never
                => (ClockOf(w) - row[s].plan.anchor) % Interval(row[s].plan)
                      <= MaxOutage + MaxLag]_vars
=============================================================================

-------------------------- MODULE Schedule_proofs --------------------------
(***************************************************************************)
(* Proofs about Schedule for every set of schedules and plans, every       *)
(* length of the day and any number of threads and hazards: double runs    *)
(* are paid for by hazards, and a missed window runs at the next wake.     *)
(***************************************************************************)
EXTENDS Schedule, FiniteSetTheorems, TLAPS

LEMMA Numbers ==
    /\ Day \in Nat \ {0} /\ Hour \in 1 .. Day
    /\ MaxOutage \in Nat /\ MaxLag \in Nat /\ MaxHazards \in Nat
    /\ MaxAge \in Nat /\ MaxAge = Day + MaxLag + 1
    /\ Never \notin Int
BY ConstantsOK DEF MaxAge

LEMMA IntervalBounds ==
    ASSUME NEW p \in Plans
    PROVE  Interval(p) \in Nat /\ Interval(p) <= Day
<1>1. p.frequency \in {"hourly", "twice_daily", "daily"}
  BY ConstantsOK DEF Plan, Frequency
<1>2. Hour \in Nat /\ Hour <= Day /\ Day \in Nat /\ Day \div 2 \in Nat /\ Day \div 2 <= Day
  BY Numbers
<1> QED
  BY <1>1, <1>2 DEF Interval

LEMMA RowFields ==
    ASSUME TypeOK, NEW s \in Schedules
    PROVE  /\ row[s] \in Row
           /\ row[s].plan \in Plans /\ row[s].enabled \in BOOLEAN
           /\ row[s].present \in BOOLEAN
           /\ row[s].age = Never \/ row[s].age \in 0 .. MaxAge
           /\ sinceRun[s] = Never \/ sinceRun[s] \in 0 .. MaxAge
BY DEF TypeOK, Row, Age

LEMMA TaskFields ==
    ASSUME TypeOK, NEW w \in Workers
    PROVE  /\ task[w] \in Task
           /\ task[w].pc \in {"idle", "woken", "loop", "stamp"}
           /\ task[w].lag \in 0 .. MaxLag
           /\ task[w].todo \subseteq Schedules
           /\ task[w].at \in Schedules \cup {Never}
BY DEF TypeOK, Task

LEMMA OlderAge ==
    ASSUME NEW a \in Age
    PROVE  /\ Older(a) \in Age
           /\ Older(a) = Never <=> a = Never
           /\ a # Never => /\ a \in 0 .. MaxAge /\ Older(a) \in 0 .. MaxAge
                           /\ Older(a) >= a /\ Older(a) <= a + 1
                           /\ a < MaxAge => Older(a) = a + 1
                           /\ a = MaxAge => Older(a) = MaxAge
BY Numbers DEF Age, Older

LEMMA IdleType == Idle \in Task
BY Numbers DEF Idle, Task

LEMMA LagAge == \A l \in 0 .. MaxLag : l \in Age /\ l \in 0 .. MaxAge /\ l < MaxAge
BY Numbers DEF Age
-----------------------------------------------------------------------------
(* Thread w's execution became x and no other thread's changed.            *)
LEMMA TaskMoves ==
    ASSUME TypeOK, NEW w \in Workers, NEW x \in Task, task' = [task EXCEPT ![w] = x]
    PROVE  /\ task' \in [Workers -> Task] /\ task'[w] = x
           /\ \A v \in Workers \ {w} : task'[v] = task[v]
BY DEF TypeOK

(* The execution of thread w after each of its steps. *)
Woken == [Idle EXCEPT !.pc = "woken"]
Looping(w) == [task[w] EXCEPT !.pc = "loop", !.todo = {s \in Schedules : IsDue(s, w)}]
Stamping(w, s) == [task[w] EXCEPT !.pc = "stamp", !.at = s]
Stamped(w) == [task[w] EXCEPT !.pc = "loop", !.at = Never, !.todo = task[w].todo \ {task[w].at}]

LEMMA WakeMoves ==
    ASSUME TypeOK, NEW w \in Workers, Wake(w)
    PROVE  Woken \in Task /\ task' = [task EXCEPT ![w] = Woken]
BY IdleType DEF Wake, Woken, Task, Idle

LEMMA LoadMoves ==
    ASSUME TypeOK, NEW w \in Workers, Load(w)
    PROVE  Looping(w) \in Task /\ task' = [task EXCEPT ![w] = Looping(w)]
BY TaskFields DEF Load, Looping, Task, TypeOK

LEMMA TurnMoves ==
    ASSUME TypeOK, NEW w \in Workers, NEW s \in Schedules,
           Dispatch(w, s) \/ SkipEmpty(w, s)
    PROVE  Stamping(w, s) \in Task /\ task' = [task EXCEPT ![w] = Stamping(w, s)]
BY TaskFields DEF Dispatch, SkipEmpty, Stamping, Task, TypeOK

LEMMA StampMoves ==
    ASSUME TypeOK, InStep, NEW w \in Workers, Stamp(w)
    PROVE  LET s == task[w].at
           IN  /\ s \in task[w].todo /\ s \in Schedules
               /\ IF row[s].present
                  THEN /\ Stamped(w) \in Task /\ task' = [task EXCEPT ![w] = Stamped(w)]
                       /\ row' = [row EXCEPT ![s] = [row[s] EXCEPT !.age = task[w].lag]]
                       /\ [row[s] EXCEPT !.age = task[w].lag] \in Row
                  ELSE task' = [task EXCEPT ![w] = Idle] /\ row' = row
<1> DEFINE s == task[w].at
<1>1. s \in task[w].todo /\ s \in Schedules
  BY TaskFields DEF InStep, Stamp
<1>2. CASE row[s].present
  <2>1. Stamped(w) \in Task
    BY TaskFields DEF Stamped, Task
  <2>2. task' = [task EXCEPT ![w] = Stamped(w)]
    BY <1>2 DEF Stamp, Stamped
  <2>3. row[s] \in Row /\ task[w].lag \in Age
    BY <1>1, RowFields, TaskFields, LagAge
  <2>4. row' = [row EXCEPT ![s] = [row[s] EXCEPT !.age = task[w].lag]]
    BY <1>1, <1>2, <2>3 DEF Stamp, TypeOK, Row
  <2>5. [row[s] EXCEPT !.age = task[w].lag] \in Row
    BY <2>3 DEF Row
  <2> QED
    BY <1>1, <1>2, <2>1, <2>2, <2>4, <2>5
<1>3. CASE ~row[s].present
  BY <1>1, <1>3 DEF Stamp
<1> QED
  BY <1>2, <1>3

LEMMA TickMoves ==
    ASSUME TypeOK, Tick
    PROVE  /\ task' \in [Workers -> Task] /\ row' \in [Schedules -> Row] /\ edit' \in Edit
           /\ \A w \in Workers : IF task[w].pc = "idle" THEN task'[w] = Idle
                                 ELSE /\ task'[w].pc = task[w].pc
                                      /\ task'[w].todo = task[w].todo
                                      /\ task'[w].at = task[w].at
                                      /\ task'[w].lag = task[w].lag + 1
           /\ \A s \in Schedules : /\ row'[s].age = Older(row[s].age)
                                   /\ row'[s].plan = row[s].plan
                                   /\ row'[s].present = row[s].present
                                   /\ sinceRun'[s] = Older(sinceRun[s])
           /\ edit'.open = edit.open
<1>1. ASSUME NEW w \in Workers, task[w].pc # "idle"
      PROVE  /\ [task[w] EXCEPT !.lag = task[w].lag + 1] \in Task
             /\ task'[w] = [task[w] EXCEPT !.lag = task[w].lag + 1]
  <2>1. task[w] \in Task /\ task[w].lag + 1 \in 0 .. MaxLag
    BY <1>1, TaskFields, Numbers DEF Tick
  <2> QED
    BY <1>1, <2>1 DEF Tick, Task
<1>2. ASSUME NEW w \in Workers, task[w].pc = "idle" PROVE task'[w] = Idle
  BY <1>2 DEF Tick
<1>3. task' \in [Workers -> Task]
  BY <1>1, <1>2, IdleType DEF Tick
<1>4. ASSUME NEW s \in Schedules
      PROVE  /\ [row[s] EXCEPT !.age = Older(row[s].age)] \in Row
             /\ row'[s] = [row[s] EXCEPT !.age = Older(row[s].age)]
  <2>1. row[s] \in Row /\ Older(row[s].age) \in Age
    BY RowFields, OlderAge DEF Age
  <2> QED
    BY <2>1 DEF Tick, Row
<1>5. row' \in [Schedules -> Row]
  BY <1>4 DEF Tick
<1>6. edit' \in Edit /\ edit'.open = edit.open
  <2>1. CASE edit = NoEdit
    BY <2>1 DEF Tick, NoEdit, Edit
  <2>2. CASE edit # NoEdit
    <3>1. edit \in [open : {TRUE}, of : Schedules, age : Age]
      BY <2>2 DEF TypeOK, Edit
    <3>2. Older(edit.age) \in Age
      BY <3>1, OlderAge
    <3> QED
      BY <3>1, <3>2 DEF Tick, Edit
  <2> QED
    BY <2>1, <2>2
<1>7. \A w \in Workers : task[w] \in Task
  BY DEF TypeOK
<1>8. \A s \in Schedules : row[s] \in Row /\ sinceRun'[s] = Older(sinceRun[s])
  BY DEF TypeOK, Tick
<1>9. ASSUME NEW w \in Workers
      PROVE  IF task[w].pc = "idle" THEN task'[w] = Idle
             ELSE /\ task'[w].pc = task[w].pc /\ task'[w].todo = task[w].todo
                  /\ task'[w].at = task[w].at /\ task'[w].lag = task[w].lag + 1
  BY <1>1, <1>2, <1>7 DEF Task
<1>10. ASSUME NEW s \in Schedules
       PROVE  /\ row'[s].age = Older(row[s].age) /\ row'[s].plan = row[s].plan
              /\ row'[s].present = row[s].present
  BY <1>4, <1>8 DEF Row
<1> QED
  BY <1>3, <1>5, <1>6, <1>8, <1>9, <1>10
-----------------------------------------------------------------------------
LEMMA TypeOKInitially ==
    ASSUME Init
    PROVE  TypeOK
<1>1. task \in [Workers -> Task] /\ edit \in Edit /\ sinceRun \in [Schedules -> Age]
  BY IdleType DEF Init, Edit, Age
<1>2. row \in [Schedules -> Row]
  BY DEF Init
<1>3. overlapped \in BOOLEAN
  BY DEF Init
<1> QED
  BY <1>1, <1>2, <1>3, Numbers DEF Init, TypeOK

LEMMA HazardType ==
    ASSUME TypeOK, Hazard
    PROVE  hazards' \in 0 .. MaxHazards
BY Numbers DEF TypeOK, Hazard

LEMMA OpenEdit ==
    ASSUME TypeOK, edit.open
    PROVE  edit.of \in Schedules /\ edit.age \in Age
<1>1. edit # NoEdit
  <2>1. ~NoEdit.open
    BY DEF NoEdit
  <2> QED
    BY <2>1
<1>2. edit \in [open : {TRUE}, of : Schedules, age : Age]
  BY <1>1 DEF TypeOK, Edit
<1> QED
  BY <1>2

LEMMA TypeOKKept ==
    ASSUME TypeOK, InStep, [Next]_vars
    PROVE  TypeOK'
<1> USE DEF historyVars
<1>1. CASE Tick
  <2>1. clock' \in 0 .. Day - 1
    <3>1. clock + 1 \in Int /\ \A n \in Int : n % Day \in 0 .. Day - 1
      BY Numbers DEF TypeOK
    <3> QED
      BY <1>1, <3>1 DEF Tick
  <2>2. asleep' \in 0 .. MaxOutage
    BY <1>1, Numbers DEF Tick, TypeOK
  <2>3. sinceRun' \in [Schedules -> Age]
    BY <1>1, OlderAge DEF Tick, TypeOK
  <2> QED
    BY <1>1, <2>1, <2>2, <2>3, TickMoves DEF Tick, TypeOK
<1>2. CASE ConsumerDies
  BY <1>2, IdleType, HazardType DEF ConsumerDies, TypeOK
<1>3. CASE EditSave
  <2>1. edit.of \in Schedules /\ edit.age \in Age
    BY <1>3, OpenEdit DEF EditSave
  <2>2. row' \in [Schedules -> Row]
    BY <1>3, <2>1 DEF EditSave, TypeOK, Row
  <2>3. edit' \in Edit
    BY <1>3 DEF EditSave, Edit
  <2>4. UNCHANGED <<clock, task, asleep, sinceRun, doubles, overlapped, hazards>>
    BY <1>3 DEF EditSave
  <2> QED
    BY <2>2, <2>3, <2>4 DEF TypeOK
<1>4. ASSUME NEW w \in Workers, Wake(w) \/ RunTask(w) \/ DispatchRaises(w) PROVE TypeOK'
  <2>1. CASE Wake(w)
    <3>1. task' \in [Workers -> Task]
      BY <2>1, WakeMoves, TaskMoves
    <3>2. asleep' \in 0 .. MaxOutage
      BY <2>1, Numbers DEF Wake
    <3>3. hazards' \in 0 .. MaxHazards /\ overlapped' \in BOOLEAN
      BY <2>1, HazardType DEF Wake, TypeOK
    <3> QED
      BY <2>1, <3>1, <3>2, <3>3 DEF Wake, TypeOK
  <2>2. CASE Load(w)
    BY <2>2, LoadMoves, TaskMoves DEF Load, TypeOK
  <2>3. CASE Stamp(w)
    <3>1. task' \in [Workers -> Task] /\ row' \in [Schedules -> Row]
      BY <2>3, StampMoves, TaskMoves, IdleType DEF TypeOK
    <3> QED
      BY <2>3, <3>1 DEF Stamp, TypeOK
  <2>4. CASE Finish(w)
    BY <2>4, IdleType, TaskMoves DEF Finish, TypeOK
  <2>5. ASSUME NEW s \in Schedules, Dispatch(w, s) PROVE TypeOK'
    <3>1. sinceRun' \in [Schedules -> Age] /\ doubles' \in Nat
      BY <2>5, TaskFields, LagAge DEF Dispatch, TypeOK
    <3> QED
      BY <2>5, <3>1, TurnMoves, TaskMoves DEF Dispatch, TypeOK
  <2>6. ASSUME NEW s \in Schedules, SkipEmpty(w, s) PROVE TypeOK'
    BY <2>6, TurnMoves, TaskMoves DEF SkipEmpty, TypeOK
  <2>7. CASE DispatchRaises(w)
    BY <2>7, IdleType, TaskMoves, HazardType DEF DispatchRaises, TypeOK
  <2> QED
    BY <1>4, <2>1, <2>2, <2>3, <2>4, <2>5, <2>6, <2>7 DEF RunTask
<1>5. ASSUME NEW s \in Schedules, EditLoad(s) PROVE TypeOK'
  <2>1. edit' \in Edit
    BY <1>5, RowFields DEF EditLoad, Edit, Age
  <2> QED
    BY <1>5, <2>1, HazardType DEF EditLoad, TypeOK
<1>6. ASSUME NEW s \in Schedules, DeleteRow(s) PROVE TypeOK'
  <2>1. row' \in [Schedules -> Row]
    BY <1>6 DEF DeleteRow, TypeOK, Row
  <2> QED
    BY <1>6, <2>1, HazardType DEF DeleteRow, TypeOK
<1>7. CASE UNCHANGED vars
  BY <1>7 DEF vars, TypeOK
<1> QED
  BY <1>1, <1>2, <1>3, <1>4, <1>5, <1>6, <1>7 DEF Next

(* Overlapping is not taken back, and without it a thread wakes only when   *)
(* all are idle.                                                           *)
LEMMA OverlapStays ==
    ASSUME [Next]_vars, ~overlapped'
    PROVE  /\ ~overlapped
           /\ \A w \in Workers : Wake(w) => \A v \in Workers : task[v].pc = "idle"
<1> USE DEF historyVars
<1>1. CASE Tick \/ ConsumerDies \/ EditSave
  BY <1>1 DEF Tick, ConsumerDies, EditSave, Wake
<1>2. ASSUME NEW w \in Workers, Wake(w) \/ RunTask(w) \/ DispatchRaises(w) PROVE ~overlapped
  BY <1>2 DEF Wake, RunTask, Load, Stamp, Finish, Dispatch, SkipEmpty, DispatchRaises
<1>3. ASSUME NEW s \in Schedules, EditLoad(s) \/ DeleteRow(s) PROVE ~overlapped
  BY <1>3 DEF EditLoad, DeleteRow
<1>4. ASSUME UNCHANGED vars PROVE ~overlapped
  <2>1. overlapped' = overlapped
    BY <1>4 DEF vars
  <2> QED
    BY <2>1, Zenon
<1>5. \A w \in Workers : Wake(w) => \A v \in Workers : task[v].pc = "idle"
  BY DEF Wake
<1>6. ~overlapped
  BY <1>1, <1>2, <1>3, <1>4 DEF Next
<1> QED
  BY <1>5, <1>6

(* As long as executions did not overlap, one thread at most has any.      *)
Lone == ~overlapped => \A v, w \in Workers :
                          task[v].pc # "idle" /\ task[w].pc # "idle" => v = w

LEMMA LoneKept ==
    ASSUME TypeOK, InStep, [Next]_vars
    PROVE  Lone'
<1> SUFFICES ASSUME ~overlapped' PROVE Lone'
  BY DEF Lone
<1>1. /\ ~overlapped
      /\ \A v, w \in Workers : task[v].pc # "idle" /\ task[w].pc # "idle" => v = w
  BY OverlapStays DEF InStep
<1>2. ASSUME \A v \in Workers : task'[v].pc # "idle" => task[v].pc # "idle"
      PROVE  Lone'
  BY <1>1, <1>2 DEF Lone
<1>3. CASE Tick
  <2>1. \A v \in Workers : task'[v].pc # "idle" => task[v].pc # "idle"
    BY <1>3, TickMoves DEF Idle
  <2> QED
    BY <1>2, <2>1
<1>4. CASE ConsumerDies
  BY <1>2, <1>4 DEF ConsumerDies, Idle
<1>5. ASSUME NEW w \in Workers, Wake(w) PROVE Lone'
  <2>1. Woken \in Task /\ task' = [task EXCEPT ![w] = Woken]
    BY <1>5, WakeMoves
  <2>2. \A v \in Workers \ {w} : task'[v].pc = "idle"
    BY <1>5, <2>1, TaskMoves, OverlapStays
  <2> QED
    BY <2>2 DEF Lone
<1>6. ASSUME NEW w \in Workers, RunTask(w) \/ DispatchRaises(w) PROVE Lone'
  <2>1. task[w].pc # "idle"
    BY <1>6 DEF RunTask, Load, Stamp, Finish, Dispatch, SkipEmpty, DispatchRaises, Turn
  <2>2. \A v \in Workers \ {w} : task'[v] = task[v]
    BY <1>6 DEF RunTask, Load, Stamp, Finish, Dispatch, SkipEmpty, DispatchRaises, TypeOK
  <2> QED
    BY <1>2, <2>1, <2>2
<1>7. CASE UNCHANGED task
  BY <1>2, <1>7
<1> QED
  BY <1>3, <1>4, <1>5, <1>6, <1>7 DEF Next, EditSave, EditLoad, DeleteRow, vars

(* What a task holds fits its stage. *)
LEMMA InStepKept ==
    ASSUME TypeOK, InStep, [Next]_vars
    PROVE  InStep'
<1> USE DEF historyVars
<1> DEFINE Fits(v) ==
             /\ task[v].pc \in {"idle", "woken"} => task[v].todo = {}
             /\ IF task[v].pc = "stamp" THEN task[v].at \in task[v].todo ELSE task[v].at = Never
             /\ task[v].pc = "idle" => task[v].lag = 0
           Recent(v) ==
             \A s \in Schedules :
                ~overlapped /\ sinceRun[s] # Never => sinceRun[s] >= task[v].lag
<1>1. \A v \in Workers : Fits(v) /\ Recent(v)
  BY DEF InStep
<1>2. InStep' <=> \A v \in Workers : Fits(v)' /\ Recent(v)'
  BY LoneKept DEF InStep, Lone
<1>2a. ~overlapped' => ~overlapped
  BY OverlapStays
<1>3. ASSUME NEW v \in Workers, task'[v] = task[v], UNCHANGED sinceRun
      PROVE  Fits(v)' /\ Recent(v)'
  BY <1>1, <1>2a, <1>3
<1>4. ASSUME NEW v \in Workers, task'[v] = Idle, UNCHANGED sinceRun
      PROVE  Fits(v)' /\ Recent(v)'
  BY <1>4, RowFields DEF Idle
<1>5. ASSUME NEW w \in Workers, NEW x \in Task, task' = [task EXCEPT ![w] = x],
             UNCHANGED sinceRun, Fits(w)', x.lag <= task[w].lag
      PROVE  InStep'
  <2>1. task'[w] = x /\ \A v \in Workers \ {w} : task'[v] = task[v]
    BY <1>5, TaskMoves
  <2>2. x.lag \in Nat
    BY <1>5 DEF Task
  <2>3. Recent(w)'
    <3> SUFFICES ASSUME NEW s \in Schedules, ~overlapped, sinceRun[s] # Never
                 PROVE  sinceRun[s] >= x.lag
      BY <1>2a, <1>5, <2>1
    <3>1. sinceRun[s] >= task[w].lag
      BY <1>1
    <3> QED
      BY <1>5, <2>2, <3>1, RowFields, TaskFields
  <2> QED
    BY <1>2, <1>3, <1>5, <2>1, <2>3
<1>6. CASE Tick
  <2>1. ASSUME NEW v \in Workers PROVE Fits(v)'
    BY <1>1, <1>6, <2>1, TickMoves DEF Idle
  <2>2. ASSUME NEW v \in Workers, NEW s \in Schedules,
               ~overlapped', sinceRun'[s] # Never
        PROVE  sinceRun'[s] >= task'[v].lag
    <3>1. /\ sinceRun[s] # Never /\ sinceRun[s] \in 0 .. MaxAge
          /\ sinceRun'[s] = Older(sinceRun[s]) /\ sinceRun[s] >= task[v].lag
      BY <1>1, <1>2a, <1>6, <2>2, TickMoves, RowFields, OlderAge DEF Older
    <3>2. CASE task[v].pc = "idle"
      BY <1>6, <3>1, <3>2, TickMoves, Numbers DEF Idle, Older
    <3>3. CASE task[v].pc # "idle"
      <4>1. task'[v].lag = task[v].lag + 1 /\ task[v].lag \in 0 .. MaxLag
        BY <1>6, <3>3, TickMoves, TaskFields
      <4> QED
        BY <3>1, <4>1, Numbers DEF Older
    <3> QED
      BY <3>2, <3>3
  <2> QED
    BY <1>2, <2>1, <2>2
<1>7. CASE ConsumerDies
  BY <1>2, <1>4, <1>7 DEF ConsumerDies
<1>8. ASSUME NEW w \in Workers, Wake(w) \/ RunTask(w) \/ DispatchRaises(w) PROVE InStep'
  <2>1. CASE Wake(w)
    <3>1. Woken \in Task /\ task' = [task EXCEPT ![w] = Woken]
      BY <2>1, WakeMoves
    <3>2. task'[w] = Woken
      BY <3>1, TaskMoves
    <3>3. Fits(w)' /\ Woken.lag <= task[w].lag
      BY <3>2, TaskFields DEF Woken, Idle
    <3> QED
      BY <1>5, <2>1, <3>1, <3>3 DEF Wake
  <2>2. CASE Load(w)
    <3>1. Looping(w) \in Task /\ task' = [task EXCEPT ![w] = Looping(w)]
      BY <2>2, LoadMoves
    <3>2. task'[w] = Looping(w)
      BY <3>1, TaskMoves
    <3>3. /\ Looping(w).pc = "loop" /\ Looping(w).at = task[w].at
          /\ Looping(w).lag = task[w].lag
      BY TaskFields DEF Looping, Task
    <3>4. Fits(w)' /\ Looping(w).lag <= task[w].lag
      BY <1>1, <2>2, <3>2, <3>3, TaskFields DEF Load
    <3> QED
      BY <1>5, <2>2, <3>1, <3>4 DEF Load
  <2>3. CASE Stamp(w)
    <3> DEFINE s == task[w].at
    <3>1. CASE row[s].present
      <4>1. Stamped(w) \in Task /\ task' = [task EXCEPT ![w] = Stamped(w)]
        BY <2>3, <3>1, StampMoves
      <4>2. task'[w] = Stamped(w)
        BY <4>1, TaskMoves
      <4>3. /\ Stamped(w).pc = "loop" /\ Stamped(w).at = Never
            /\ Stamped(w).lag = task[w].lag
        BY TaskFields DEF Stamped, Task
      <4>4. Fits(w)' /\ Stamped(w).lag <= task[w].lag
        BY <4>2, <4>3, TaskFields
      <4> QED
        BY <1>5, <2>3, <4>1, <4>4 DEF Stamp
    <3>2. CASE ~row[s].present
      <4>1. task' = [task EXCEPT ![w] = Idle]
        BY <2>3, <3>2, StampMoves
      <4> QED
        BY <1>2, <1>3, <1>4, <2>3, <4>1, IdleType, TaskMoves DEF Stamp
    <3> QED
      BY <3>1, <3>2
  <2>4. CASE Finish(w) \/ DispatchRaises(w)
    <3>1. task' = [task EXCEPT ![w] = Idle] /\ UNCHANGED sinceRun
      BY <2>4 DEF Finish, DispatchRaises
    <3> QED
      BY <1>2, <1>3, <1>4, <3>1, IdleType, TaskMoves
  <2>5. ASSUME NEW s \in Schedules, Dispatch(w, s) \/ SkipEmpty(w, s) PROVE InStep'
    <3>1. Stamping(w, s) \in Task /\ task' = [task EXCEPT ![w] = Stamping(w, s)]
      BY <2>5, TurnMoves
    <3>2. task'[w] = Stamping(w, s) /\ \A v \in Workers \ {w} : task'[v] = task[v]
      BY <3>1, TaskMoves
    <3>3. /\ Stamping(w, s).pc = "stamp" /\ Stamping(w, s).at = s
          /\ Stamping(w, s).lag = task[w].lag /\ Stamping(w, s).todo = task[w].todo
      BY TaskFields DEF Stamping, Task
    <3>4. Fits(w)'
      BY <2>5, <3>2, <3>3 DEF Dispatch, SkipEmpty, Turn
    <3>5. CASE SkipEmpty(w, s)
      <4>1. Stamping(w, s).lag <= task[w].lag
        BY <3>3, TaskFields
      <4> QED
        BY <1>5, <3>1, <3>4, <3>5, <4>1 DEF SkipEmpty
    <3>6. CASE Dispatch(w, s)
      <4>1. sinceRun' = [sinceRun EXCEPT ![s] = task[w].lag]
        BY <3>6 DEF Dispatch
      <4>2. ASSUME NEW v \in Workers PROVE Fits(v)'
        BY <1>1, <3>2, <3>4
      <4>3. ASSUME NEW v \in Workers, NEW t \in Schedules,
                   ~overlapped', sinceRun'[t] # Never
            PROVE  sinceRun'[t] >= task'[v].lag
        <5>1. v # w => task'[v].lag = 0 /\ task[v].lag = 0
          <6>1. ~overlapped /\ task[w].pc # "idle"
            BY <1>2a, <3>6, <4>3 DEF Dispatch, Turn
          <6> QED
            BY <3>2, <6>1 DEF InStep
        <5>2. /\ task'[v].lag = task[v].lag /\ task[v].lag \in 0 .. MaxLag
              /\ task[v].lag <= task[w].lag /\ task[w].lag \in 0 .. MaxLag
          BY <3>2, <3>3, <5>1, TaskFields
        <5>3. CASE t = s
          BY <4>1, <5>2, <5>3 DEF TypeOK
        <5>4. CASE t # s
          BY <1>1, <1>2a, <4>1, <4>3, <5>2, <5>4 DEF TypeOK
        <5> QED
          BY <5>3, <5>4
      <4> QED
        BY <1>2, <4>2, <4>3
    <3> QED
      BY <2>5, <3>5, <3>6
  <2> QED
    BY <1>8, <2>1, <2>2, <2>3, <2>4, <2>5 DEF RunTask
<1>9. CASE EditSave \/ \E s \in Schedules : EditLoad(s) \/ DeleteRow(s)
  <2>1. UNCHANGED <<task, sinceRun>>
    BY <1>9 DEF EditSave, EditLoad, DeleteRow
  <2> QED
    BY <1>2, <1>3, <2>1
<1>10. CASE UNCHANGED vars
  BY <1>2, <1>3, <1>10 DEF vars
<1> QED
  BY <1>6, <1>7, <1>8, <1>9, <1>10 DEF Next
-----------------------------------------------------------------------------
(* The invariant Credit: as long as executions do not overlap, each double *)
(* run is owed to a hazard.                                                *)

LEMMA Counting ==
    ASSUME NEW A, NEW B \in SUBSET Schedules, NEW x
    PROVE  /\ Cardinality(B) \in Nat
           /\ A \subseteq B => Cardinality(A) \in Nat /\ Cardinality(A) <= Cardinality(B)
           /\ A \subseteq B \cup {x} =>
                 Cardinality(A) \in Nat /\ Cardinality(A) <= Cardinality(B) + 1
           /\ x \in B /\ A \subseteq B \ {x} =>
                 Cardinality(A) \in Nat /\ Cardinality(A) + 1 <= Cardinality(B)
           /\ A = {} => Cardinality(A) = 0
<1>1. IsFiniteSet(B)
  BY ConstantsOK, FS_Subset
<1>2. Cardinality(B) \in Nat
  BY <1>1, FS_CardinalityType
<1>3. ASSUME A \subseteq B PROVE Cardinality(A) \in Nat /\ Cardinality(A) <= Cardinality(B)
  BY <1>1, <1>3, FS_Subset, FS_CardinalityType
<1>4. ASSUME A \subseteq B \cup {x}
      PROVE  Cardinality(A) \in Nat /\ Cardinality(A) <= Cardinality(B) + 1
  <2>1. /\ IsFiniteSet(B \cup {x})
        /\ Cardinality(B \cup {x}) \in {Cardinality(B), Cardinality(B) + 1}
    BY <1>1, FS_AddElement
  <2>2. Cardinality(A) \in Nat /\ Cardinality(A) <= Cardinality(B \cup {x})
    BY <1>4, <2>1, FS_Subset, FS_CardinalityType
  <2> QED
    BY <1>2, <2>1, <2>2
<1>5. ASSUME x \in B, A \subseteq B \ {x}
      PROVE  Cardinality(A) \in Nat /\ Cardinality(A) + 1 <= Cardinality(B)
  <2>1. IsFiniteSet(B \ {x}) /\ Cardinality(B \ {x}) = Cardinality(B) - 1
    BY <1>1, <1>5, FS_RemoveElement
  <2>2. Cardinality(A) \in Nat /\ Cardinality(A) <= Cardinality(B \ {x})
    BY <1>5, <2>1, FS_Subset, FS_CardinalityType
  <2> QED
    BY <1>2, <2>1, <2>2
<1> QED
  BY <1>2, <1>3, <1>4, <1>5, FS_EmptySet

LEMMA NeverIsNoSchedule == Never \notin Schedules
<1>1. Schedules \subseteq Int
  BY ConstantsOK
<1> QED
  BY <1>1, Numbers

(* No other thread than w has an execution. *)
Alone(w) == \A v \in Workers \ {w} : task[v].pc = "idle" /\ task[v].todo = {} /\ task[v].at = Never

LEMMA SomebodyIsAlone ==
    ASSUME InStep, ~overlapped
    PROVE  /\ \E w \in Workers : Alone(w)
           /\ \A w \in Workers : task[w].pc # "idle" => Alone(w)
           /\ (\A w \in Workers : task[w].pc = "idle") => \A w \in Workers : Alone(w)
<1>1. \A v \in Workers : task[v].pc = "idle" => task[v].todo = {} /\ task[v].at = Never
  BY DEF InStep
<1>2. ASSUME NEW w \in Workers, task[w].pc # "idle" PROVE Alone(w)
  BY <1>1, <1>2 DEF Alone, InStep
<1>3. PICK w : w \in Workers
  BY ConstantsOK
<1> QED
  BY <1>1, <1>2, <1>3 DEF Alone

(* Selected and Behind read off the only thread. *)
LEMMA OfLoneWorker ==
    ASSUME NEW w \in Workers, Alone(w), Alone(w)', NEW s \in Schedules
    PROVE  /\ Selected(s) <=> s \in task[w].todo /\ s # task[w].at /\ TooSoon(s, w)
           /\ Selected(s)' <=> s \in task'[w].todo /\ s # task'[w].at /\ TooSoon(s, w)'
           /\ Behind(s) <=> /\ sinceRun[s] # Never
                            /\ row[s].age = Never \/ row[s].age > sinceRun[s]
                            /\ s # task[w].at
           /\ Behind(s)' <=> /\ sinceRun'[s] # Never
                             /\ row'[s].age = Never \/ row'[s].age > sinceRun'[s]
                             /\ s # task'[w].at
<1>1. \A v \in Workers \ {w} : s \notin task[v].todo /\ s # task[v].at
  BY NeverIsNoSchedule DEF Alone
<1>2. \A v \in Workers \ {w} : s \notin task'[v].todo /\ s # task'[v].at
  BY NeverIsNoSchedule DEF Alone
<1> QED
  BY <1>1, <1>2 DEF Selected, Behind

(* A schedule is a suspect or a revenant after the step only if before,    *)
(* except x and y.                                                         *)
Suspect(s) == ~row[s].present \/ Selected(s) \/ Behind(s)
Revenant(s) == ~row[s].present /\ Selected(s)

LEMMA TickOldersAll ==
    ASSUME TypeOK, InStep, TypeOK', InStep', Tick, ~overlapped, NEW s \in Schedules
    PROVE  (Suspect(s)' => Suspect(s)) /\ (Revenant(s)' => Revenant(s))
<1>1. PICK w \in Workers : Alone(w)
  BY SomebodyIsAlone
<1>1a. Alone(w)'
  BY <1>1, TickMoves DEF Alone, Idle
<1>2. /\ row'[s].age = Older(row[s].age) /\ row'[s].plan = row[s].plan
      /\ row'[s].present = row[s].present /\ sinceRun'[s] = Older(sinceRun[s])
  BY TickMoves
<1>3. CASE task[w].pc = "idle"
  <2>1. task'[w].todo = {} /\ task'[w].at = Never /\ task[w].at = Never
    BY <1>1, <1>3, TickMoves DEF Idle, InStep
  <2>2. ~Selected(s)'
    BY <1>1, <1>1a, <2>1, OfLoneWorker
  <2>3. Behind(s)' => Behind(s)
    BY <1>1, <1>1a, <1>2, <2>1, OfLoneWorker, RowFields, NeverIsNoSchedule, Numbers DEF Older
  <2> QED
    BY <1>2, <2>2, <2>3 DEF Suspect, Revenant
<1>4. CASE task[w].pc # "idle"
  <2>1. /\ task'[w].todo = task[w].todo /\ task'[w].at = task[w].at
        /\ task'[w].lag = task[w].lag + 1
    BY <1>1, <1>4, TickMoves
  <2>2. task[w].lag \in 0 .. MaxLag /\ task[w].lag + 1 <= MaxLag
    BY <1>1, <1>4, TaskFields, Numbers DEF Tick
  <2>3. Interval(row[s].plan) \in Nat /\ Interval(row[s].plan) <= Day
    BY RowFields, IntervalBounds
  <2>4. TooSoon(s, w)' => TooSoon(s, w)
    <3>1. TooSoon(s, w)' <=> sinceRun'[s] # Never
                             /\ sinceRun'[s] - task'[w].lag < Interval(row'[s].plan)
      BY DEF TooSoon
    <3>2. TooSoon(s, w) <=> sinceRun[s] # Never
                             /\ sinceRun[s] - task[w].lag < Interval(row[s].plan)
      BY DEF TooSoon
    <3> QED
      BY <1>2, <2>1, <2>2, <2>3, <3>1, <3>2, RowFields, Numbers DEF Older
  <2>5. Selected(s)' => Selected(s)
    BY <1>1, <1>1a, <2>1, <2>4, OfLoneWorker
  <2>6. Behind(s)' => Behind(s)
    BY <1>1, <1>1a, <1>2, <2>1, OfLoneWorker, RowFields, Numbers DEF Older
  <2> QED
    BY <1>2, <2>5, <2>6 DEF Suspect, Revenant
<1> QED
  BY <1>3, <1>4

(* The thread's execution became x; row and sinceRun of t are as before.   *)
LEMMA TurnKeeps ==
    ASSUME NEW w \in Workers, Alone(w), Alone(w)', NEW t \in Schedules,
           row'[t] = row[t], sinceRun'[t] = sinceRun[t],
           t \in task'[w].todo =>
              t \in task[w].todo /\ t # task[w].at /\ task'[w].lag = task[w].lag,
           t # task'[w].at => t # task[w].at
    PROVE  (Suspect(t)' => Suspect(t)) /\ (Revenant(t)' => Revenant(t))
<1>1. t \in task'[w].todo /\ TooSoon(t, w)' => TooSoon(t, w)
  BY DEF TooSoon
<1>2. Selected(t)' => Selected(t)
  BY <1>1, OfLoneWorker
<1>3. Behind(t)' => Behind(t)
  BY OfLoneWorker
<1> QED
  BY <1>2, <1>3 DEF Suspect, Revenant

(* The thread is idle or woken after the step.                             *)
LEMMA IdleKeeps ==
    ASSUME NEW w \in Workers, Alone(w), Alone(w)', NEW t \in Schedules,
           row'[t] = row[t], sinceRun'[t] = sinceRun[t], task'[w].todo = {}
    PROVE  /\ t # task[w].at => (Suspect(t)' => Suspect(t))
           /\ ~row[t].present => Suspect(t)
           /\ ~Revenant(t)'
<1>1. ~Selected(t)'
  BY OfLoneWorker
<1>2. t # task[w].at => (Behind(t)' => Behind(t))
  BY OfLoneWorker
<1> QED
  BY <1>1, <1>2 DEF Suspect, Revenant

LEMMA LoadKeeps ==
    ASSUME TypeOK, InStep, NEW w \in Workers, Alone(w), Alone(w)', Load(w),
           NEW t \in Schedules
    PROVE  (Suspect(t)' => Suspect(t)) /\ ~Revenant(t)'
<1>1. Looping(w) \in Task /\ task' = [task EXCEPT ![w] = Looping(w)]
  BY LoadMoves
<1>2. task'[w] = Looping(w)
  BY <1>1, TaskMoves
<1>3. /\ Looping(w).todo = {s \in Schedules : IsDue(s, w)} /\ Looping(w).at = task[w].at
      /\ Looping(w).lag = task[w].lag
  BY TaskFields DEF Looping, Task
<1>4. task[w].at = Never /\ UNCHANGED <<row, sinceRun>>
  BY DEF Load, InStep, historyVars
<1>5. Selected(t)' => row[t].present /\ Behind(t)
  <2>1. SUFFICES ASSUME Selected(t)' PROVE row[t].present /\ Behind(t)
    OBVIOUS
  <2>2. IsDue(t, w) /\ TooSoon(t, w)'
    BY <1>2, <1>3, <2>1, OfLoneWorker
  <2>3. TooSoon(t, w)
    BY <1>2, <1>3, <1>4, <2>2 DEF TooSoon
  <2>4. /\ row[t].present
        /\ row[t].age # Never => row[t].age - task[w].lag >= Interval(row[t].plan)
    BY <2>2 DEF IsDue, Elapsed, AgeOf
  <2>5. Interval(row[t].plan) \in Nat
    BY RowFields, IntervalBounds
  <2>6. row[t].age = Never \/ row[t].age > sinceRun[t]
    BY <2>3, <2>4, <2>5, RowFields, TaskFields, Numbers DEF TooSoon
  <2> QED
    BY <1>4, <2>3, <2>4, <2>6, OfLoneWorker, NeverIsNoSchedule DEF TooSoon
<1>6. Behind(t)' => Behind(t)
  BY <1>2, <1>3, <1>4, OfLoneWorker
<1> QED
  BY <1>4, <1>5, <1>6 DEF Suspect, Revenant

(* The turn of s: a run that is dispatched too soon takes it from the      *)
(* suspects or, if its row is gone, from the revenants.                    *)
LEMMA TurnPays ==
    ASSUME TypeOK, InStep, NEW w \in Workers, Alone(w), Alone(w)', NEW s \in Schedules,
           Dispatch(w, s) \/ SkipEmpty(w, s), NEW t \in Schedules
    PROVE  /\ Suspect(t)' => Suspect(t)
           /\ Revenant(t)' => Revenant(t) /\ t # s
           /\ TooSoon(s, w) => Suspect(s) /\ (row[s].present => ~Suspect(s)')
                                          /\ (~row[s].present => Revenant(s))
<1>1. Stamping(w, s) \in Task /\ task' = [task EXCEPT ![w] = Stamping(w, s)]
  BY TurnMoves
<1>2. task'[w] = Stamping(w, s)
  BY <1>1, TaskMoves
<1>3. /\ Stamping(w, s).todo = task[w].todo /\ Stamping(w, s).at = s
      /\ Stamping(w, s).lag = task[w].lag
  BY TaskFields DEF Stamping, Task
<1>4. /\ s \in task[w].todo /\ task[w].at = Never /\ row' = row
      /\ t # s => sinceRun'[t] = sinceRun[t]
  BY DEF Dispatch, SkipEmpty, Turn, InStep, historyVars, TypeOK
<1>5. t # s => (Suspect(t)' => Suspect(t)) /\ (Revenant(t)' => Revenant(t))
  BY <1>2, <1>3, <1>4, TurnKeeps, NeverIsNoSchedule
<1>6. ~Selected(s)' /\ ~Behind(s)'
  BY <1>2, <1>3, OfLoneWorker
<1>7. TooSoon(s, w) => Selected(s)
  BY <1>4, OfLoneWorker, NeverIsNoSchedule
<1>8. (~row[t].present => Suspect(t)) /\ row'[t] = row[t]
  BY <1>4 DEF Suspect
<1>9. (Suspect(t)' => Suspect(t)) /\ (Revenant(t)' => Revenant(t) /\ t # s)
  BY <1>5, <1>6, <1>8 DEF Suspect, Revenant
<1>10. (row[s].present => ~Suspect(s)')
  BY <1>4, <1>6 DEF Suspect
<1>11. TooSoon(s, w) => Suspect(s) /\ (~row[s].present => Revenant(s))
  BY <1>7 DEF Suspect, Revenant
<1> QED
  BY <1>9, <1>10, <1>11

LEMMA StampKeeps ==
    ASSUME TypeOK, InStep, ~overlapped, NEW w \in Workers, Alone(w), Alone(w)', Stamp(w),
           NEW t \in Schedules
    PROVE  (Suspect(t)' => Suspect(t)) /\ (Revenant(t)' => Revenant(t))
<1>1. PICK s \in Schedules : s = task[w].at /\ s \in task[w].todo
  BY StampMoves
<1>2. sinceRun' = sinceRun
  BY DEF Stamp, historyVars
<1>3. CASE row[s].present
  <2>1. /\ Stamped(w) \in Task /\ task' = [task EXCEPT ![w] = Stamped(w)]
        /\ row' = [row EXCEPT ![s] = [row[s] EXCEPT !.age = task[w].lag]]
    BY <1>1, <1>3, StampMoves
  <2>2. task'[w] = Stamped(w)
    BY <2>1, TaskMoves
  <2>3. /\ Stamped(w).todo = task[w].todo \ {s} /\ Stamped(w).at = Never
        /\ Stamped(w).lag = task[w].lag
    BY <1>1, TaskFields DEF Stamped, Task
  <2>4. CASE t # s
    BY <1>1, <1>2, <2>1, <2>2, <2>3, <2>4, TurnKeeps DEF TypeOK
  <2>5. CASE t = s
    <3>1. row'[s].age = task[w].lag /\ row'[s].present
      BY <1>1, <1>3, <2>1, RowFields DEF TypeOK, Row
    <3>2. sinceRun[s] # Never => sinceRun[s] >= task[w].lag
      BY <1>1 DEF InStep
    <3>3. ~Behind(s)'
      BY <1>1, <1>2, <3>1, <3>2, OfLoneWorker, RowFields, TaskFields, Numbers
    <3>4. ~Selected(s)'
      BY <1>1, <2>2, <2>3, OfLoneWorker
    <3> QED
      BY <2>5, <3>1, <3>3, <3>4 DEF Suspect, Revenant
  <2> QED
    BY <2>4, <2>5
<1>4. CASE ~row[s].present
  <2>1. task'[w] = Idle /\ row' = row
    BY <1>1, <1>4, StampMoves, TaskMoves, IdleType
  <2>2. task'[w].todo = {}
    BY <2>1 DEF Idle
  <2> QED
    BY <1>1, <1>2, <1>4, <2>1, <2>2, IdleKeeps
<1> QED
  BY <1>3, <1>4

(* A step on the row of s leaves every other schedule as it was.           *)
LEMMA RowKeeps ==
    ASSUME InStep, ~overlapped, NEW s \in Schedules, NEW t \in Schedules,
           UNCHANGED <<task, sinceRun>>, row'[t] = row[t]
    PROVE  (Suspect(t)' => Suspect(t)) /\ (Revenant(t)' => Revenant(t))
<1>1. PICK w \in Workers : Alone(w) /\ Alone(w)'
  BY SomebodyIsAlone DEF Alone
<1>2. (Selected(t)' <=> Selected(t)) /\ (Behind(t)' <=> Behind(t))
  BY <1>1, OfLoneWorker DEF TooSoon
<1> QED
  BY <1>2 DEF Suspect, Revenant

LEMMA SaveKeeps ==
    ASSUME TypeOK, InStep, ~overlapped, EditSave, NEW t \in Schedules
    PROVE  /\ t # edit.of => (Suspect(t)' => Suspect(t))
           /\ Revenant(t)' => Revenant(t)
<1>1. PICK s \in Schedules : s = edit.of
  BY OpenEdit DEF EditSave
<1>2. PICK p \in Plans, on \in BOOLEAN :
         row' = [row EXCEPT ![s] = [plan |-> p, enabled |-> on, age |-> edit.age,
                                    present |-> TRUE]]
  BY <1>1 DEF EditSave
<1>3. CASE t # s
  BY <1>1, <1>2, <1>3, RowKeeps DEF EditSave, TypeOK, historyVars
<1>4. CASE t = s
  <2>1. row'[s].present
    BY <1>2 DEF TypeOK
  <2> QED
    BY <1>1, <1>4, <2>1 DEF Revenant
<1> QED
  BY <1>3, <1>4

LEMMA DeleteKeeps ==
    ASSUME TypeOK, InStep, ~overlapped, NEW s \in Schedules, DeleteRow(s),
           NEW t \in Schedules
    PROVE  /\ t # s => (Suspect(t)' => Suspect(t)) /\ (Revenant(t)' => Revenant(t))
           /\ Selected(s) => (Suspect(t)' => Suspect(t))
           /\ ~Selected(s) => (Revenant(t)' => Revenant(t))
<1>1. PICK w \in Workers : Alone(w) /\ Alone(w)'
  BY SomebodyIsAlone DEF DeleteRow, Alone
<1>2. UNCHANGED <<task, sinceRun>> /\ row'[s].plan = row[s].plan
  BY RowFields DEF DeleteRow, TypeOK, Row, historyVars
<1>3. CASE t # s
  BY <1>2, <1>3, RowKeeps DEF DeleteRow, TypeOK
<1>4. Selected(s)' <=> Selected(s)
  BY <1>1, <1>2, OfLoneWorker DEF TooSoon
<1> QED
  BY <1>3, <1>4 DEF Suspect, Revenant

(* The four terms of Credit before and after a step. *)
Open == IF edit.open THEN 1 ELSE 0

LEMMA Terms ==
    ASSUME TypeOK, TypeOK'
    PROVE  /\ Suspects = {s \in Schedules : Suspect(s)} /\ Suspects \in SUBSET Schedules
           /\ Suspects' = {s \in Schedules : Suspect(s)'} /\ Suspects' \in SUBSET Schedules
           /\ Revenants = {s \in Schedules : Revenant(s)} /\ Revenants \in SUBSET Schedules
           /\ Revenants' = {s \in Schedules : Revenant(s)'} /\ Revenants' \in SUBSET Schedules
           /\ {Open, Open', doubles, doubles', hazards, hazards'} \subseteq Nat
BY Numbers DEF Suspects, Revenants, Suspect, Revenant, Open, TypeOK

(* A step that adds neither suspect nor revenant and takes no hazard back. *)
LEMMA NothingOwed ==
    ASSUME TypeOK, TypeOK', Credit, ~overlapped, doubles' = doubles,
           UNCHANGED edit, hazards' = hazards \/ hazards' = hazards + 1,
           \A t \in Schedules : (Suspect(t)' => Suspect(t)) /\ (Revenant(t)' => Revenant(t))
    PROVE  Credit'
<1>1. Suspects' \subseteq Suspects /\ Revenants' \subseteq Revenants /\ Open' = Open
  BY Terms DEF Open
<1>2. /\ Cardinality(Suspects) \in Nat /\ Cardinality(Revenants) \in Nat
      /\ Cardinality(Suspects') \in Nat /\ Cardinality(Suspects') <= Cardinality(Suspects)
      /\ Cardinality(Revenants') \in Nat /\ Cardinality(Revenants') <= Cardinality(Revenants)
  BY <1>1, Terms, Counting
<1> QED
  BY <1>1, <1>2, Terms DEF Credit, Open

LEMMA CreditKept ==
    ASSUME TypeOK, InStep, Credit, [Next]_vars, TypeOK', InStep'
    PROVE  Credit'
<1> SUFFICES ASSUME ~overlapped' PROVE Credit'
  BY DEF Credit
<1>0. ~overlapped
  BY OverlapStays
<1> USE DEF historyVars
<1>2. /\ Cardinality(Suspects) \in Nat /\ Cardinality(Revenants) \in Nat
      /\ doubles + Cardinality(Suspects) + Cardinality(Revenants) + Open <= hazards
  BY <1>0, Terms, Counting DEF Credit, Open
<1>3. CASE Tick
  <2>1. edit'.open = edit.open
    BY <1>3, TickMoves
  <2>2. Suspects' \subseteq Suspects /\ Revenants' \subseteq Revenants
    BY <1>0, <1>3, TickOldersAll, Terms
  <2>3. /\ Cardinality(Suspects') \in Nat /\ Cardinality(Suspects') <= Cardinality(Suspects)
        /\ Cardinality(Revenants') \in Nat
        /\ Cardinality(Revenants') <= Cardinality(Revenants)
    BY <2>2, Terms, Counting
  <2> QED
    BY <1>2, <1>3, <2>1, <2>3, Terms DEF Credit, Open, Tick
<1>4. CASE ConsumerDies
  <2> PICK w \in Workers : task[w].pc # "idle"
    BY <1>4 DEF ConsumerDies
  <2>1. /\ task'[w].todo = {} /\ UNCHANGED <<row, sinceRun>>
        /\ Alone(w) /\ Alone(w)'
    BY <1>0, <1>4, SomebodyIsAlone DEF ConsumerDies, Idle, Alone
  <2>2. Suspects' \subseteq Suspects \cup {task[w].at} /\ Revenants' = {}
    BY <2>1, IdleKeeps, Terms
  <2>3. /\ Cardinality(Suspects') \in Nat
        /\ Cardinality(Suspects') <= Cardinality(Suspects) + 1
        /\ Cardinality(Revenants') = 0
    BY <2>2, Terms, Counting
  <2> QED
    BY <1>2, <1>4, <2>3, Terms DEF Credit, Open, ConsumerDies, Hazard
<1>5. CASE EditSave
  <2>1. Suspects' \subseteq Suspects \cup {edit.of} /\ Revenants' \subseteq Revenants
    BY <1>0, <1>5, SaveKeeps, Terms
  <2>2. /\ Cardinality(Suspects') \in Nat
        /\ Cardinality(Suspects') <= Cardinality(Suspects) + 1
        /\ Cardinality(Revenants') \in Nat
        /\ Cardinality(Revenants') <= Cardinality(Revenants)
    BY <2>1, Terms, Counting
  <2>3. ~edit'.open /\ edit.open /\ UNCHANGED <<doubles, hazards>>
    BY <1>5 DEF EditSave, NoEdit
  <2> QED
    BY <1>2, <2>2, <2>3, Terms DEF Credit, Open
<1>6. ASSUME NEW s \in Schedules, EditLoad(s) PROVE Credit'
  <2>1. /\ edit'.open /\ ~edit.open /\ hazards' = hazards + 1
        /\ UNCHANGED <<row, task, sinceRun, doubles>>
    BY <1>6 DEF EditLoad, NoEdit, Hazard
  <2>2. Suspects' = Suspects /\ Revenants' = Revenants
    BY <2>1 DEF Suspects, Revenants, Selected, Behind, TooSoon
  <2> QED
    BY <1>2, <2>1, <2>2, Terms DEF Credit, Open
<1>7. ASSUME NEW s \in Schedules, DeleteRow(s) PROVE Credit'
  <2>1. hazards' = hazards + 1 /\ UNCHANGED <<doubles, edit>>
    BY <1>7 DEF DeleteRow, Hazard
  <2>2. CASE Selected(s)
    <3>1. Suspects' \subseteq Suspects /\ Revenants' \subseteq Revenants \cup {s}
      BY <1>0, <1>7, <2>2, DeleteKeeps, Terms
    <3>2. /\ Cardinality(Suspects') \in Nat
          /\ Cardinality(Suspects') <= Cardinality(Suspects)
          /\ Cardinality(Revenants') \in Nat
          /\ Cardinality(Revenants') <= Cardinality(Revenants) + 1
      BY <3>1, Terms, Counting
    <3> QED
      BY <1>2, <2>1, <3>2, Terms DEF Credit, Open
  <2>3. CASE ~Selected(s)
    <3>1. Suspects' \subseteq Suspects \cup {s} /\ Revenants' \subseteq Revenants
      BY <1>0, <1>7, <2>3, DeleteKeeps, Terms
    <3>2. /\ Cardinality(Suspects') \in Nat
          /\ Cardinality(Suspects') <= Cardinality(Suspects) + 1
          /\ Cardinality(Revenants') \in Nat
          /\ Cardinality(Revenants') <= Cardinality(Revenants)
      BY <3>1, Terms, Counting
    <3> QED
      BY <1>2, <2>1, <3>2, Terms DEF Credit, Open
  <2> QED
    BY <2>2, <2>3
<1>8. ASSUME NEW v \in Workers, Wake(v) \/ RunTask(v) \/ DispatchRaises(v) PROVE Credit'
  <2>0. Alone(v) /\ Alone(v)'
    <3>1. CASE Wake(v)
      <4>1. Alone(v)
        BY <1>0, <3>1, OverlapStays, SomebodyIsAlone
      <4>2. \A u \in Workers \ {v} : task'[u] = task[u]
        BY <3>1, WakeMoves, TaskMoves
      <4> QED
        BY <4>1, <4>2 DEF Alone
    <3>2. CASE RunTask(v) \/ DispatchRaises(v)
      <4>1. task[v].pc # "idle"
        BY <3>2 DEF RunTask, Load, Stamp, Finish, Dispatch, SkipEmpty, DispatchRaises, Turn
      <4>2. \A u \in Workers \ {v} : task'[u] = task[u]
        BY <3>2 DEF RunTask, Load, Stamp, Finish, Dispatch, SkipEmpty, DispatchRaises, TypeOK
      <4> QED
        BY <1>0, <4>1, <4>2, SomebodyIsAlone DEF Alone
    <3> QED
      BY <1>8, <3>1, <3>2
  <2>1. CASE Wake(v) \/ Finish(v) \/ DispatchRaises(v)
    <3>1. task'[v].todo = {} /\ task[v].at = Never /\ UNCHANGED <<row, sinceRun, doubles, edit>>
      BY <2>1, IdleType, TaskMoves, WakeMoves
         DEF Wake, Woken, Finish, DispatchRaises, Idle, InStep
    <3>2. hazards' = hazards \/ hazards' = hazards + 1
      BY <2>1 DEF Wake, Finish, DispatchRaises, Hazard
    <3> QED
      BY <1>0, <2>0, <3>1, <3>2, IdleKeeps, NothingOwed, NeverIsNoSchedule
  <2>2. CASE Load(v)
    BY <1>0, <2>0, <2>2, LoadKeeps, NothingOwed DEF Load
  <2>3. CASE Stamp(v)
    BY <1>0, <2>0, <2>3, StampKeeps, NothingOwed DEF Stamp
  <2>4. ASSUME NEW s \in Schedules, Dispatch(v, s) \/ SkipEmpty(v, s), doubles' = doubles
        PROVE  Credit'
    <3>1. UNCHANGED <<edit, hazards>>
      BY <2>4 DEF Dispatch, SkipEmpty
    <3> QED
      BY <1>0, <2>0, <2>4, <3>1, TurnPays, NothingOwed
  <2>5. ASSUME NEW s \in Schedules, Dispatch(v, s), TooSoon(s, v)
        PROVE  Credit'
    <3>1. doubles' = doubles + 1 /\ UNCHANGED <<edit, hazards>>
      BY <2>5 DEF Dispatch
    <3>2. /\ Suspects' \subseteq Suspects /\ Revenants' \subseteq Revenants
          /\ s \in Suspects /\ (row[s].present => s \notin Suspects')
          /\ s \notin Revenants' /\ (~row[s].present => s \in Revenants)
      BY <2>0, <2>5, TurnPays, Terms
    <3>3. /\ Cardinality(Suspects') \in Nat /\ Cardinality(Revenants') \in Nat
          /\ Cardinality(Suspects') <= Cardinality(Suspects)
          /\ Cardinality(Revenants') <= Cardinality(Revenants)
      BY <3>2, Terms, Counting
    <3>4. CASE row[s].present
      <4>1. Suspects' \subseteq Suspects \ {s}
        BY <3>2, <3>4
      <4>2. Cardinality(Suspects') + 1 <= Cardinality(Suspects)
        BY <3>2, <4>1, Terms, Counting
      <4> QED
        BY <1>2, <3>1, <3>3, <4>2, Terms DEF Credit, Open
    <3>5. CASE ~row[s].present
      <4>1. Revenants' \subseteq Revenants \ {s} /\ s \in Revenants
        BY <3>2, <3>5
      <4>2. Cardinality(Revenants') + 1 <= Cardinality(Revenants)
        BY <4>1, Terms, Counting
      <4> QED
        BY <1>2, <3>1, <3>3, <4>2, Terms DEF Credit, Open
    <3> QED
      BY <3>4, <3>5
  <2>6. ASSUME NEW s \in Schedules, Dispatch(v, s) \/ SkipEmpty(v, s) PROVE Credit'
    BY <2>4, <2>5, <2>6 DEF Dispatch, SkipEmpty
  <2> QED
    BY <1>8, <2>1, <2>2, <2>3, <2>6 DEF RunTask
<1>9. CASE UNCHANGED vars
  <2>1. UNCHANGED <<Suspects, Revenants>>
    BY <1>9 DEF vars, Suspects, Revenants, Selected, Behind, TooSoon
  <2> QED
    BY <1>2, <1>9, <2>1 DEF vars, Credit, Open
<1> QED
  BY <1>3, <1>4, <1>5, <1>6, <1>7, <1>8, <1>9 DEF Next
-----------------------------------------------------------------------------
LEMMA IInvInitially ==
    ASSUME Init
    PROVE  IInv
<1>1. TypeOK
  BY TypeOKInitially
<1>2. InStep
  BY DEF Init, InStep, Idle
<1>3. \A s \in Schedules : row[s].present /\ ~Selected(s) /\ ~Behind(s)
  BY DEF Init, Selected, Behind, TooSoon
<1>4. Suspects = {} /\ Revenants = {}
  BY <1>3 DEF Suspects, Revenants
<1>5. Cardinality(Suspects) = 0 /\ Cardinality(Revenants) = 0
  BY <1>4, FS_EmptySet
<1>6. Credit
  BY <1>5 DEF Init, Credit, NoEdit
<1> QED
  BY <1>1, <1>2, <1>6 DEF IInv

LEMMA IInvKept == IInv /\ [Next]_vars => IInv'
BY TypeOKKept, InStepKept, CreditKept DEF IInv

LEMMA CreditBounds ==
    ASSUME IInv
    PROVE  DoublesExplained
<1> SUFFICES ASSUME ~overlapped PROVE doubles <= hazards
  BY DEF DoublesExplained
<1>1. Suspects \in SUBSET Schedules /\ Revenants \in SUBSET Schedules
  BY DEF Suspects, Revenants
<1>2. Cardinality(Suspects) \in Nat /\ Cardinality(Revenants) \in Nat
  BY <1>1, Counting
<1> QED
  BY <1>2, Numbers DEF IInv, TypeOK, Credit

(* Type correctness, the stages of the task and the credit of the hazards  *)
(* hold in every reachable state.                                          *)
THEOREM AlwaysSound == Spec => []IInv
BY IInvInitially, IInvKept, PTL DEF Spec

(* As long as executions do not overlap, the runs that a schedule makes    *)
(* within an interval of the one before never outnumber the failures, edits and      *)
(* deletions: Elapsed, read when the task loads the rows, is enough even   *)
(* though the stamp is written after the dispatch.                         *)
THEOREM DoublesBounded == Spec => []DoublesExplained
BY AlwaysSound, CreditBounds, PTL
-----------------------------------------------------------------------------
(* What is_due's anchors come to. *)

LEMMA Multiple ==
    ASSUME NEW a \in Nat, NEW b \in Nat, b > 0, a % b = 0
    PROVE  \E k \in Nat : a = b * k
OBVIOUS

LEMMA Remainders ==
    /\ \A n \in Int : n % Day \in 0 .. Day - 1 /\ n % Hour \in 0 .. Hour - 1
    /\ Day \div 2 \in Nat /\ Day = (Day \div 2) + (Day \div 2)
<1>1. \A n \in Int : n % Day \in 0 .. Day - 1 /\ n % Hour \in 0 .. Hour - 1
  BY Numbers
<1>2. PICK h \in Nat \ {0} : h = 2 * Hour
  BY Numbers
<1>3. Day % h = 0
  BY <1>2, ConstantsOK
<1>4. PICK k \in Nat : Day = h * k
  <2>1. h > 0 /\ Day \in Nat
    BY Numbers
  <2> QED
    BY <1>3, <2>1, Multiple
<1>5. PICK m \in Nat : m = Hour * k
  BY Numbers
<1>6. Day = 2 * m
  BY <1>2, <1>4, <1>5, Numbers
<1>7. Day \div 2 = m
  BY <1>6
<1> QED
  BY <1>1, <1>6, <1>7

(* The latest occurrence of a plan is less than an interval back, unless    *)
(* the day's first slot of a twice-daily one after noon is still to come;  *)
(* then none is found.                                                     *)
LEMMA OccurrenceNear ==
    ASSUME NEW p \in Plans, NEW c \in 0 .. Day - 1, ~BeforeFirstSlot(p, c)
    PROVE  \E d \in SincePast(p, c) : d \in Nat /\ d < Interval(p)
<1>1. p.frequency \in {"hourly", "twice_daily", "daily"} /\ p.anchor \in 0 .. Day - 1
  BY ConstantsOK DEF Plan, Frequency
<1>2. ASSUME NEW o \in Candidates(p, c), o \in Int, o <= c, c - o < Interval(p)
      PROVE  \E d \in SincePast(p, c) : d \in Nat /\ d < Interval(p)
  <2>1. c - o \in SincePast(p, c)
    BY <1>2 DEF SincePast
  <2> QED
    BY <1>2, <2>1, Numbers
<1>3. CASE p.frequency = "hourly"
  <2> DEFINE o == (c - (c % Hour)) + (p.anchor % Hour)
             k == IF o > c THEN o - Hour ELSE o
  <2>1. k \in Candidates(p, c) /\ Interval(p) = Hour
    BY <1>3 DEF Candidates, Interval
  <2>2. c % Hour \in 0 .. Hour - 1 /\ p.anchor % Hour \in 0 .. Hour - 1
    <3>1. c \in Int /\ p.anchor \in Int
      BY <1>1, Numbers
    <3> QED
      BY <3>1, Remainders
  <2>3. k \in Int /\ k <= c /\ c - k < Hour
    BY <2>2, Numbers
  <2> QED
    BY <1>2, <2>1, <2>3
<1>4. CASE p.frequency = "daily"
  <2>1. Candidates(p, c) = {p.anchor - Day, p.anchor} /\ Interval(p) = Day
    BY <1>4 DEF Candidates, Interval
  <2>2. CASE p.anchor <= c
    BY <1>1, <1>2, <2>1, <2>2, Numbers
  <2>3. CASE p.anchor > c
    BY <1>1, <1>2, <2>1, <2>3, Numbers
  <2> QED
    BY <1>1, <2>2, <2>3, Numbers
<1>5. CASE p.frequency = "twice_daily"
  <2> DEFINE half == Day \div 2
  <2>1. /\ Candidates(p, c) = {p.anchor - half, p.anchor, p.anchor + half}
        /\ Interval(p) = half
    BY <1>5 DEF Candidates, Interval
  <2>2. half \in Nat /\ Day = half + half /\ ~(c < p.anchor - half)
    BY <1>5, Remainders DEF BeforeFirstSlot
  <2> HIDE DEF half
  <2>3. CASE c < p.anchor
    BY <1>1, <1>2, <2>1, <2>2, <2>3, Numbers
  <2>4. CASE p.anchor <= c /\ c < p.anchor + half
    BY <1>1, <1>2, <2>1, <2>2, <2>4, Numbers
  <2>5. CASE p.anchor + half <= c
    BY <1>1, <1>2, <2>1, <2>2, <2>5, Numbers
  <2> QED
    BY <1>1, <2>2, <2>3, <2>4, <2>5, Numbers
<1> QED
  BY <1>1, <1>3, <1>4, <1>5

LEMMA NoOccurrence ==
    ASSUME NEW p \in Plans, NEW c \in 0 .. Day - 1, BeforeFirstSlot(p, c)
    PROVE  SincePast(p, c) = {}
<1> DEFINE half == Day \div 2
<1>1. Candidates(p, c) = {p.anchor - half, p.anchor, p.anchor + half}
  BY DEF Candidates, BeforeFirstSlot
<1>2. half \in Nat /\ p.anchor \in Nat /\ c < p.anchor - half
  <2>1. p.anchor \in 0 .. Day - 1
    BY ConstantsOK DEF Plan
  <2> QED
    BY <2>1, Remainders, Numbers DEF BeforeFirstSlot
<1> HIDE DEF half
<1>3. \A o \in Candidates(p, c) : ~(o <= c)
  BY <1>1, <1>2, Numbers
<1> QED
  BY <1>3 DEF SincePast

LEMMA ClockInDay ==
    ASSUME TypeOK, NEW w \in Workers
    PROVE  ClockOf(w) \in 0 .. Day - 1
<1>1. clock - task[w].lag \in Int
  BY TaskFields, Numbers DEF TypeOK
<1> QED
  BY <1>1, Remainders DEF ClockOf

(* Once the interval since the last run is over, the latest occurrence lies *)
(* behind that run, so is_due's second question says yes if there is one.  *)
LEMMA ElapsedIsReached ==
    ASSUME TypeOK, NEW w \in Workers, NEW s \in Schedules, Elapsed(s, w),
           ~BeforeFirstSlot(row[s].plan, ClockOf(w))
    PROVE  Reached(s, w)
<1>1. ClockOf(w) \in 0 .. Day - 1
  BY ClockInDay
<1>2. PICK d \in SincePast(row[s].plan, ClockOf(w)) : d \in Nat /\ d < Interval(row[s].plan)
  BY <1>1, RowFields, OccurrenceNear
<1>3. row[s].age # Never => AgeOf(s, w) > d
  <2>1. ASSUME row[s].age # Never PROVE AgeOf(s, w) \in Int
    BY <2>1, RowFields, TaskFields, Numbers DEF AgeOf
  <2> QED
    BY <1>2, <2>1, RowFields, IntervalBounds DEF Elapsed
<1> QED
  BY <1>2, <1>3 DEF Reached

(* A window missed in an outage or during a failing run runs at the next    *)
(* wake once the interval since the last run is over, for every frequency, *)
(* anchor, and length of the hour and day, with one exception: a twice-    *)
(* daily schedule anchored after noon, before the first slot of the day,   *)
(* for which the code breaks the promise.                                  *)
THEOREM MissedWindowIsMadeUp == Spec => MissedWindowRuns
<1> DEFINE Found(t, w) == ~BeforeFirstSlot(row[t].plan, ClockOf(w))
           Due(w) == {t \in Schedules : /\ row[t].present /\ row[t].enabled /\ Elapsed(t, w)
                                        /\ Found(t, w)}
<1>1. ASSUME IInv, Next, NEW w \in Workers, task[w].pc = "woken", task'[w].pc = "loop"
      PROVE  task'[w].todo = Due(w)
  <2>1. Load(w)
    <3>1. CASE Tick
      BY <1>1, <3>1, TickMoves DEF IInv
    <3>2. CASE ConsumerDies
      BY <1>1, <3>2 DEF ConsumerDies, Idle
    <3>3. ASSUME NEW v \in Workers, Wake(v) \/ RunTask(v) \/ DispatchRaises(v) PROVE Load(w)
      <4>1. v # w => task'[w] = task[w]
        <5>1. task \in [Workers -> Task]
          BY <1>1 DEF IInv, TypeOK
        <5>2. CASE \E s \in Schedules : Dispatch(v, s) \/ SkipEmpty(v, s)
          BY <5>1, <5>2 DEF Dispatch, SkipEmpty
        <5>3. CASE Wake(v) \/ Load(v) \/ Stamp(v) \/ Finish(v) \/ DispatchRaises(v)
          BY <5>1, <5>3 DEF Wake, Load, Stamp, Finish, DispatchRaises
        <5> QED
          BY <3>3, <5>2, <5>3 DEF RunTask
      <4>2. v = w /\ ~Wake(w) /\ ~DispatchRaises(w) /\ RunTask(w)
        BY <1>1, <3>3, <4>1 DEF Wake, DispatchRaises
      <4> QED
        BY <1>1, <4>2 DEF RunTask, Stamp, Finish, Dispatch, SkipEmpty, Turn
    <3>4. CASE UNCHANGED task
      BY <1>1, <3>4
    <3> QED
      BY <1>1, <3>1, <3>2, <3>3, <3>4 DEF Next, EditSave, EditLoad, DeleteRow
  <2>2. task'[w].todo = {s \in Schedules : IsDue(s, w)}
    <3>1. /\ task' = [task EXCEPT ![w] = Looping(w)] /\ Looping(w) \in Task
      BY <1>1, <2>1, LoadMoves DEF IInv
    <3>2. task'[w] = Looping(w)
      BY <1>1, <3>1, TaskMoves DEF IInv
    <3> QED
      BY <1>1, <3>2, TaskFields DEF Looping, Task, IInv
  <2>3. \A s \in Due(w) : IsDue(s, w)
    BY <1>1, ElapsedIsReached DEF IsDue, IInv
  <2>4. ASSUME NEW s \in Schedules, IsDue(s, w) PROVE s \in Due(w)
    <3>1. SincePast(row[s].plan, ClockOf(w)) # {}
      BY <2>4 DEF IsDue, Reached
    <3>2. row[s].plan \in Plans /\ ClockOf(w) \in 0 .. Day - 1
      BY <1>1, RowFields, ClockInDay DEF IInv
    <3>3. Found(s, w)
      BY <3>1, <3>2, NoOccurrence
    <3> QED
      BY <2>4, <3>3 DEF IsDue
  <2> QED
    BY <2>2, <2>3, <2>4
<1>2. IInv /\ [Next]_vars =>
        [\A w \in Workers : task[w].pc = "woken" /\ task'[w].pc = "loop"
            => task'[w].todo =
                  {t \in Schedules : /\ row[t].present /\ row[t].enabled /\ Elapsed(t, w)
                                     /\ ~BeforeFirstSlot(row[t].plan, ClockOf(w))}]_vars
  BY <1>1
<1> QED
  BY <1>2, AlwaysSound, PTL DEF Spec, MissedWindowRuns
=============================================================================

----------------------------- MODULE MCSchedule -----------------------------
(* Plans for the instances of Schedule. *)
EXTENDS Schedule

(* An hourly schedule, a daily one, and one twice a day with an anchor     *)
(* after noon.                                                             *)
ServicePlans == {[frequency |-> "hourly", anchor |-> 1],
                 [frequency |-> "twice_daily", anchor |-> 3],
                 [frequency |-> "daily", anchor |-> 2]}

DailyPlans == {[frequency |-> "daily", anchor |-> 2]}

(* Threads are alike: of the idle ones, always the same takes the task.    *)
FirstIdleWakes ==
    \A w \in Workers :
        task[w].pc = "idle" /\ task'[w].pc = "woken"
            => w = CHOOSE v \in Workers : task[v].pc = "idle"
=============================================================================

---------------------------- MODULE CriticalPath ----------------------------
(***************************************************************************)
(* auction_core/scheduling/cpm.py: the critical path of a task DAG, and the *)
(* lower bound on the makespan.  No result of the program depends on them:  *)
(* they are what schedules are reported against.                            *)
(***************************************************************************)
EXTENDS TaskDag, FiniteSetsExt, Functions

CONSTANT Duration  \* task id -> its duration

\* finish: the earliest end of each of the tasks, prerequisites included.
EarliestFinish(tasks) ==
  LET finish[t \in tasks] ==
        Max({0} \cup {finish[p] : p \in Prerequisites[t]}) + Duration[t]
  IN  finish

CriticalPathLength(tasks) ==
  Max({0} \cup {EarliestFinish(tasks)[t] : t \in tasks})

\* makespan_lower_bound, multiplied out: the mean load is a fraction.
ReachesLowerBound(makespan, tasks, robots) ==
  /\ makespan * robots >= SumFunction([t \in tasks |-> Duration[t]])
  /\ \A t \in tasks : makespan >= Duration[t]
  /\ makespan >= CriticalPathLength(tasks)

=============================================================================

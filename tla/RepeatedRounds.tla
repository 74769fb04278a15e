--------------------------- MODULE RepeatedRounds ---------------------------
(***************************************************************************)
(* auction_core/allocator/repeated_rounds.py: RepeatedRoundsAllocator, which *)
(* plans a whole mission by running an auction round whenever robots are    *)
(* idle and tasks available, and else advancing its clock to the next end   *)
(* of a task.  A step is an iteration of the loop of allocate.              *)
(*                                                                         *)
(* The round runner is external to the allocator: it may return whatever    *)
(* RoundContract lets a round end with.                                     *)
(***************************************************************************)
EXTENDS BenefitModel, RoundContract, CriticalPath, Sequences, SequencesExt

CONSTANTS
  Task,                  \* the tasks there may be
  TaskChoices,           \* the missions allocate may be called with
  RobotChoices,          \* the fleets
  CollaborativeChoices,  \* the tasks that may have required_robots > 1
  Home,                  \* robot -> the place it starts from
  Travel,                \* robot -> place -> task -> travel time at its speed
  Epsilon                \* of the round configuration

ASSUME AllocatorAssumption ==
  /\ Task \subseteq Nat /\ IsFiniteSet(Task)
  /\ TaskChoices \subseteq SUBSET Task
  /\ CollaborativeChoices \subseteq SUBSET Task
  /\ Prerequisites \in [Task -> SUBSET Task]
  /\ Duration \in [Task -> Nat]
  /\ \A fleet \in RobotChoices : fleet \subseteq Nat /\ IsFiniteSet(fleet)
  /\ \A fleet \in RobotChoices : \A r \in fleet :
       \A place \in Task \cup {Home[r]}, t \in Task : Travel[r][place][t] \in Nat

\* Benefits are numbers.
ASSUME AttractionAssumption ==
  \A fleet \in RobotChoices : \A r \in fleet :
    \A place \in Task \cup {Home[r]}, t \in Task : Attraction[r][place][t] \in Int

VARIABLES
  robots, tasks,  \* the arguments of allocate
  collaborative,  \* the tasks that need several robots
  schedulable,    \* the tasks of dag
  state,          \* robot -> its private RobotState: [place, workload]
  now,
  running,        \* the entries under way, in the order of the dict
  completed,
  schedule,       \* entries [task, robot, start, finish]
  unallocated,
  outcome         \* "running", "done" or "raised"

mission == <<robots, tasks, collaborative, schedulable>>
vars == <<robots, tasks, collaborative, schedulable, state, now, running, completed, schedule,
          unallocated, outcome>>

-----------------------------------------------------------------------------
Unsupported == collaborative \cap tasks

Blocked == UNION {Dependents(tasks, t) : t \in Unsupported}

Raises ==
  \/ Unsupported # {} /\ ~WellFormed(tasks)
  \/ ~WellFormed(schedulable)

Init ==
  /\ robots \in RobotChoices /\ tasks \in TaskChoices
  /\ collaborative \in CollaborativeChoices
  /\ schedulable = tasks \ (Unsupported \cup Blocked)
  /\ state = [r \in robots |-> [place |-> Home[r], workload |-> 0]]
  /\ now = 0
  /\ running = <<>> /\ completed = {} /\ schedule = {}
  /\ unallocated = Unsupported \cup Blocked
  /\ outcome = IF Raises THEN "raised" ELSE "running"

AvailableNow == Available(schedulable, completed) \ {e.task : e \in ToSet(running)}

\* Fault: robots that are at work take part.
IdleOrNot == robots

Idle == robots \ {e.robot : e \in ToSet(running)}

\* Fault: a round waits for the whole fleet.
RoundDueWhenAllIdle == AvailableNow # {} /\ Idle # {} /\ Idle = robots

\* Fault: only the tasks are asked about.
RoundDueForTasks == AvailableNow # {}

RoundDue == AvailableNow # {} /\ Idle # {}

RoundBenefits ==
  [r \in Idle |-> Padded([t \in AvailableNow |-> Benefit(r, state[r], t)],
                         Deficit(Cardinality(Idle), Cardinality(AvailableNow)))]

\* What the round may end with.
RoundResults == RoundOutcomes(RoundBenefits, Epsilon)

Allocating == outcome = "running" /\ completed # schedulable

\* The winners of real tasks start.  There is one at least, so that the loop
\* continues with the next iteration.
RunRound ==
  /\ Allocating /\ RoundDue
  /\ \E won \in RoundResults :
       LET winners == {r \in Idle : won[r] >= 0}
           entries == {[task |-> won[r], robot |-> r, start |-> now,
                        finish |-> now + Travel[r][state[r].place][won[r]]
                                       + Duration[won[r]]] : r \in winners}
       IN  /\ \E started \in SetToSeqs(entries) :
                /\ \A i, j \in DOMAIN started : i < j => started[i].robot < started[j].robot
                /\ running' = running \o started
           /\ schedule' = schedule \cup entries
           /\ state' = [r \in robots |->
                          IF r \in winners
                          THEN [state[r] EXCEPT !.workload = @ + Duration[won[r]]]
                          ELSE state[r]]
  /\ UNCHANGED <<mission, now, completed, unallocated, outcome>>

\* Fault: the entry that ends last.
LastToEnd ==
  CHOOSE i \in DOMAIN running : \A j \in DOMAIN running :
    running[j].finish <= running[i].finish

\* The first of the entries that end first.
FirstToEnd ==
  CHOOSE i \in DOMAIN running : \A j \in DOMAIN running :
    \/ running[i].finish < running[j].finish
    \/ running[i].finish = running[j].finish /\ i <= j

\* Fault: the robot is left where it started from.
MovedNowhere(e) == state

\* The robot of an entry is at the task's site when the entry ends, if it has one.
Moved(e) == [state EXCEPT ![e.robot].place = SiteAfter(@, e.task)]

Advance ==
  /\ Allocating /\ ~RoundDue
  /\ running # <<>>
  /\ LET e == running[FirstToEnd]
     IN  /\ running' = RemoveAt(running, FirstToEnd)
         /\ now' = e.finish
         /\ completed' = completed \cup {e.task}
         /\ state' = Moved(e)
  /\ UNCHANGED <<mission, schedule, unallocated, outcome>>

\* No progress possible.
GiveUp ==
  /\ Allocating /\ ~RoundDue
  /\ running = <<>>
  /\ unallocated' = unallocated \cup (schedulable \ completed)
  /\ outcome' = "done"
  /\ UNCHANGED <<mission, state, now, running, completed, schedule>>

Return ==
  /\ outcome = "running" /\ completed = schedulable
  /\ outcome' = "done"
  /\ UNCHANGED <<mission, state, now, running, completed, schedule, unallocated>>

Next == RunRound \/ Advance \/ GiveUp \/ Return

\* One thread runs the loop.
Spec == Init /\ [][Next]_vars /\ WF_vars(Next)

-----------------------------------------------------------------------------
(***************************************************************************)
(* Besides the types: nothing that is under way was due before now, so that *)
(* the clock never runs backwards.                                          *)
(***************************************************************************)
TypeOK ==
  /\ robots \in RobotChoices /\ tasks \in TaskChoices
  /\ collaborative \in CollaborativeChoices
  /\ DOMAIN state = robots /\ \A r \in robots : state[r].workload \in Nat
  /\ now \in Nat
  /\ ToSet(running) \subseteq schedule
  /\ completed \subseteq schedulable /\ unallocated \subseteq tasks
  /\ outcome \in {"running", "done", "raised"}
  /\ \A e \in ToSet(running) : e.finish >= now

\* When the prerequisites of a task were finished.
Ready(task) ==
  Max({0} \cup {e.finish : e \in {d \in schedule : d.task \in Prerequisites[task]}})

(***************************************************************************)
(* The schedule can be executed: no task is in it twice, no robot is given  *)
(* two tasks at a time, and a task starts once its prerequisites are over.  *)
(***************************************************************************)
ScheduleSound ==
  \A d \in schedule :
    /\ \A p \in Prerequisites[d.task] :
         \E e \in schedule : e.task = p /\ e.finish <= d.start
    /\ \A e \in schedule \ {d} :
         /\ d.task # e.task
         /\ d.robot = e.robot => d.finish <= e.start \/ e.finish <= d.start

(***************************************************************************)
(* A robot sets out for a task from the site of the last task before that   *)
(* had one, or else from home, though the planner only moves its private    *)
(* copies when it gets to an end and a task may have no position.           *)
(***************************************************************************)
SetsOutFromLast ==
  \A d \in schedule :
    LET before == {e \in schedule : /\ e.robot = d.robot /\ e.start < d.start
                                    /\ e.task \in Sited}
        place  == IF before = {} THEN Home[d.robot]
                  ELSE (CHOOSE e \in before : \A f \in before : f.start <= e.start).task
    IN  d.finish = d.start + Travel[d.robot][place][d.task] + Duration[d.task]

(***************************************************************************)
(* "Reported, never silently dropped": at the end every task is either in   *)
(* the schedule or unallocated, the latter exactly when it is collaborative *)
(* or waits for one that is, or there is no robot.  allocate raises if and  *)
(* only if the mission is no DAG.                                           *)
(***************************************************************************)
Accounted ==
  /\ (outcome = "raised") <=> ~WellFormed(tasks)
  /\ outcome = "done" =>
       LET scheduled == {e.task : e \in schedule}
           lost == {t \in tasks : \E S \in SUBSET tasks :
                      /\ t \in S /\ S \cap collaborative # {}
                      /\ \A u \in S \ collaborative : Prerequisites[u] \cap S # {}}
       IN  /\ scheduled \cup unallocated = tasks
           /\ scheduled \cap unallocated = {}
           /\ robots # {} => unallocated = lost

(***************************************************************************)
(* "Whenever there are idle robots AND available tasks": in the schedule,   *)
(* no robot is idle while a task is ready that has not started.             *)
(***************************************************************************)
NoIdling ==
  outcome = "done" =>
    \A d \in schedule : \A r \in robots : \A i \in Ready(d.task)..(d.start - 1) :
      \E e \in schedule : e.robot = r /\ e.start <= i /\ i < e.finish

(***************************************************************************)
(* makespan_lower_bound is one: no schedule that allocate returns is        *)
(* shorter, so that what is reported against it is never below 1.           *)
(***************************************************************************)
MakespanAboveBound ==
  outcome = "done" /\ robots # {} =>
    ReachesLowerBound(Max({0} \cup {e.finish : e \in schedule}), schedulable,
                      Cardinality(robots))

(***************************************************************************)
(* "Report and stop, don't spin": allocate returns, or has raised.          *)
(***************************************************************************)
Completes == <>(outcome # "running")

=============================================================================

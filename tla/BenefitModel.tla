---------------------------- MODULE BenefitModel ----------------------------
(***************************************************************************)
(* auction_core/scheduling/benefits.py: what a task is worth to a robot,    *)
(* and the rows of a frozen benefit matrix, padded with idle slots as the   *)
(* allocator and the participants do.  Distance and capabilities are a      *)
(* table of attractions; me is a record with the robot's place and workload.*)
(***************************************************************************)
EXTENDS Integers

CONSTANTS
  Sited,       \* the tasks that have a position
  Attraction,  \* robot -> place -> task -> benefit but the load
  LoadWeight,  \* workload_weight / workload_scale
  IdleGap      \* 1.0, by which idle slots are worth less

ASSUME BenefitAssumption == LoadWeight \in Nat /\ IdleGap \in Nat \ {0}

Benefit(robot, me, task) == Attraction[robot][me.place][task] - LoadWeight * me.workload

\* Where a robot is after a task: task.position or robot.position.
SiteAfter(place, task) == IF task \in Sited THEN task ELSE place

\* Sentinel task ids count down from -1: _IDLE_BASE - k.
IdleSlots(n) == {0 - k : k \in 1..n}

\* Every real task is worth more than an idle slot.
Padded(row, slots) ==
  LET floor == CHOOSE b \in {row[t] : t \in DOMAIN row} :
                 \A t \in DOMAIN row : b <= row[t]
  IN  [t \in DOMAIN row \cup IdleSlots(slots) |->
         IF t \in DOMAIN row THEN row[t] ELSE floor - IdleGap]

\* The slots it takes for every robot to have a task: m >= n.
Deficit(robots, tasks) == IF robots > tasks THEN robots - tasks ELSE 0

=============================================================================

----------------------------- MODULE MCRosFleet -----------------------------
(* RosFleet with two robots and short missions.                             *)
EXTENDS RosFleet

TwoRobots == {0, 1}
InOrder == {SetToSortSeq(Robot, <)}
EitherWay == {SetToSortSeq(Robot, <), SetToSortSeq(Robot, >)}

AnyKind == {"lost", "late", "crash", "stall", "cut"}
Cuts == {"cut"}

NoTasks == {}
OneTask == {0}
OneMore == {1}
TwoMore == {1, 2}

\* Real tasks in order of their ids, then the idle slots -1, -2, ...
SortedThenIdle == [t \in (0 - 5)..10 |-> IF t >= 0 THEN t ELSE 10 - t]

\* Places are the tasks' sites and the robots' homes; a unit of benefit is a
\* quarter of the program's, and everybody wants the lowest task most.
Homes == [r \in Robot |-> 20 + r]
Rivals == [r \in Robot |-> [p \in Place |-> [t \in RealTask |-> 8 - 4 * t]]]
Nearby == [p \in Place |-> [t \in RealTask |-> IF p = 20 + t THEN 0 ELSE 1]]

Independent == [t \in RealTask |-> {}]
\* Everything needs 0.
Chained == [t \in RealTask |-> {0} \ {t}]
Uneven == [t \in RealTask |-> IF t = 0 THEN 6 ELSE 16]
Even == [t \in RealTask |-> 6]

=============================================================================

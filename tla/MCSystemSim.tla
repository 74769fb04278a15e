---------------------------- MODULE MCSystemSim ----------------------------
(* SystemSim on small fleets and missions.                                  *)
EXTENDS SystemSim

TwoRobots == {0, 1}
ThreeRobots == {0, 1, 2}

\* Real tasks in order of their ids, then the idle slots -1, -2, ...
SortedThenIdle == [t \in (0 - 5)..10 |-> IF t >= 0 THEN t ELSE 10 - t]

\* Places are the tasks' sites and the robots' homes; 1 unit of benefit is a
\* quarter of the program's, and robots are drawn to their own ids.
Homes == [r \in Robot |-> 20 + r]
Drawn == [r \in Robot |-> [p \in Place |-> [t \in RealTask |->
            IF t \notin Sited \/ p = 20 + t THEN 6 ELSE IF p \in RealTask /\ t = p + 1 THEN 5 ELSE 4]]]
\* Everybody wants the lowest task most.
Rivals == [r \in Robot |-> [p \in Place |-> [t \in RealTask |-> 8 - 4 * t]]]
Nearby == [p \in Place |-> [t \in RealTask |-> IF t \notin Sited \/ p = 20 + t THEN 0 ELSE 1]]

FourTasks == {0, 1, 2, 3}
ThreeTasks == {0, 1, 2}
NoTasks == {}
OneTask == {0}
AllButOne == RealTask \ {1}
OneMore == {3}
TwoMore == {1, 2}

\* 2 needs 0 and 1; anything after that needs 2.
Joined == [t \in RealTask |-> CASE t < 2 -> {} [] t = 2 -> {0, 1} [] t > 2 -> {2}]
\* The same, but for an injected task that needs only 0.
JoinedAndLater == [t \in RealTask |-> IF t = 3 THEN {0} ELSE Joined[t]]
Independent == [t \in RealTask |-> {}]
Even == [t \in RealTask |-> 4]

SuggestedWindow == SuggestedQuiescence(CompleteTopology(Robot), Delay)

Everyone == CompleteTopology(Robot)

=============================================================================

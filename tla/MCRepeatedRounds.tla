-------------------------- MODULE MCRepeatedRounds --------------------------
(* RepeatedRounds on up to three robots and six tasks of a DAG, and on        *)
(* missions that are none.                                                   *)
EXTENDS RepeatedRounds

EightTasks == 0..7

\* 2 needs 0 and 1, 3 needs 2, 5 needs the task 4 that nothing precedes, and
\* 6 and 7 need each other.
Joined == [t \in Task |-> CASE t = 2 -> {0, 1} [] t = 3 -> {2} [] t = 5 -> {4}
                            [] t = 6 -> {7} [] t = 7 -> {6} [] OTHER -> {}]
Uneven == [t \in Task |-> IF t % 2 = 0 THEN 2 ELSE 3]

\* 2 is defined with a prerequisite that {0, 2, 3} lacks; {0, 6, 7} has a cycle.
Missions == {{}, {4}, 0..3, 0..5, {0, 2, 3}, {0, 6, 7}}
Fleets == {{}, {0}, {0, 1}, {0, 1, 2}}
SomeCollaborative == {{}, {1}, {4}, {2, 5}, 0..5}

\* Robots start at 0, 1 and 2 of a line on which every task but 1 and 4 has its
\* site at its id.
Homes == [r \in 0..2 |-> 20 + r]
Places == Task \cup {Homes[r] : r \in 0..2}
Located == Task \ {1, 4}
Apart(p, t) == IF t \in Sited THEN LET at == p % 20 IN IF at < t THEN t - at ELSE at - t ELSE 0
\* Robots prefer what is near.
Near == [r \in 0..2 |-> [p \in Places |-> [t \in Task |->
           IF Apart(p, t) < 3 THEN 6 - Apart(p, t) ELSE 3]]]
\* Robot 2 is slow.
AtItsSpeed == [r \in 0..2 |-> [p \in Places |-> [t \in Task |->
                 IF r = 2 THEN 2 * Apart(p, t) ELSE Apart(p, t)]]]

=============================================================================

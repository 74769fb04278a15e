--------------------------- MODULE MCRoundHarness ---------------------------
(* RoundHarness on small instances.                                         *)
EXTENDS RoundHarness

TwoAgents == {0, 1}
ThreeAgents == {0, 1, 2}
ThreeTasks == {0, 1, 2}
ScanInOrder == [t \in Task |-> t]

Steady(neighbours) == [tick \in 0..MaxTicks |-> neighbours]
SteadyComplete == {Steady(CompleteTopology(Agent))}

\* Agent 0 is cut off from the line until tick 2.
HealAt == 2
Parted == [a \in Agent |-> LineTopology(Agent)[a] \ {0}]
PartitionHeals ==
  [tick \in 0..MaxTicks |->
     IF tick < HealAt THEN [Parted EXCEPT ![0] = {}] ELSE LineTopology(Agent)]

\* All connected graphs but the complete one, which is the easiest.
AnySparseOrHealing ==
  {Steady(n) : n \in RandomConnected(Agent) \ {CompleteTopology(Agent)}}
    \cup {PartitionHeals}

UpToOne == {0, 1}

AllMatrices(values) == [Agent -> [Task -> values]]
SmallMatrices == AllMatrices({0, 3})
Contested == {[a \in Agent |-> [t \in Task |-> IF t = 0 THEN 2 ELSE 0]]}
ContestedAndIndifferent == Contested \cup {[a \in Agent |-> [t \in Task |-> 0]]}

=============================================================================

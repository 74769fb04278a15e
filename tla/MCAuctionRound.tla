--------------------------- MODULE MCAuctionRound ---------------------------
(* AuctionRound on small instances: agent and task ids are small numbers,   *)
(* the matrices are written out below.                                      *)
EXTENDS AuctionRound

TwoAgents == {0, 1}
ThreeTasks == {0, 1, 2}
ScanInOrder == [t \in Task |-> t]

EveryoneHears == Agent \X Agent

\* A line 0 - 1 - 2: the ends hear each other only through the middle.
LineHears == {<<a, b>> \in Agent \X Agent : a - b \in {-1, 1}}

\* Every matrix over a small range, ties and negative benefits included.
AllMatrices(values) == [Agent -> [Task -> values]]
ThreeAgents == {0, 1, 2}
SmallMatrices == AllMatrices({-1, 0, 3})

\* Everybody wants task 0, or nobody prefers anything.
Contested == {[a \in Agent |-> [t \in Task |-> IF t = 0 THEN 2 ELSE 0]]}
Indifferent == {[a \in Agent |-> [t \in Task |-> 0]]}
ContestedOrIndifferent == Contested \cup Indifferent

=============================================================================

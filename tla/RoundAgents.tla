---------------------------- MODULE RoundAgents ----------------------------
(***************************************************************************)
(* The agents of one auction round as a value: a function from the ids of   *)
(* the participants to their AuctionAgents (AuctionAgents.tla), and what    *)
(* the hosts of a round compute from all of them.  AuctionRound.tla runs    *)
(* them over an arbitrary network, RoundHarness.tla over the simulated one. *)
(***************************************************************************)
EXTENDS AuctionAgents, FiniteSets, Functions

CONSTANTS
  Agent,  \* the round's participants, AgentId's
  Task    \* the round's task ids, idle slots included

\* AuctionAgent.__init__ rejects negative ids and an empty benefit row;
\* run_round rejects a round without agents or with fewer tasks than agents.
ASSUME RoundAssumption ==
  /\ Agent \subseteq Nat
  /\ Agent # {}
  /\ IsFiniteSet(Agent)
  /\ IsFiniteSet(Task)
  /\ Task # {}
  /\ Cardinality(Agent) <= Cardinality(Task)
  /\ NoTask \notin Task
  /\ ScanRank \in [Task -> Int]
  /\ \A t, u \in Task : ScanRank[t] = ScanRank[u] => t = u

Benefits == [Agent -> [Task -> Int]]

Tables == [Task -> Entries(Agent)]

AgentStates ==
  [ benefit : [Task -> Int], prices : Tables, assignment : Task \cup {NoTask},
    quiescent : 0..QuiescenceRounds, dirty : BOOLEAN ]

Messages == [sender : Agent, entries : Tables]

-----------------------------------------------------------------------------
NewAgents(benefits) == [a \in Agent |-> NewAgent(benefits[a])]

\* The agents once a has handled the message m.
Handed(ags, a, m) == [ags EXCEPT ![a] = HandleMessage(a, @, m)]

\* _merged_prices: the converged global table, entry-wise max over the agents.
Merged(ags) ==
  [t \in Task |->
     CHOOSE e \in {ags[a].prices[t] : a \in Agent} :
       \A b \in Agent : AtMost(ags[b].prices[t], e)]

\* total_benefit of a matching.
TotalBenefit(ags, matching) ==
  SumFunction([a \in Agent |-> ags[a].benefit[matching[a]]])

=============================================================================

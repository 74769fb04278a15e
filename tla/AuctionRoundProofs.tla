------------------------- MODULE AuctionRoundProofs -------------------------
(***************************************************************************)
(* The theorems about AuctionRound.tla, for every finite set of agents and  *)
(* tasks, every benefit and every network that loses, repeats, delays and   *)
(* reorders tables: its steps are steps of a round as RoundAgentsProofs.tla *)
(* knows them.                                                              *)
(***************************************************************************)
EXTENDS AuctionRound, RoundAgentsProofs

Inv == RoundInv(agents, sent)

\* At first nobody holds anything and nothing was sent.
LEMMA InitInv == Init => Inv
<1> SUFFICES ASSUME NEW benefits \in BenefitChoices,
                    agents = NewAgents(benefits), sent = {}
             PROVE  Inv
  BY DEF Init
<1>1. benefits \in Benefits
  BY NetworkAssumption DEF NetworkAssumption
<1> QED
  BY <1>1, InitialRound DEF Inv

\* A delivery or a tick is one of the round.
LEMMA NextIsStep == [Next]_vars => RoundStep(agents, agents', sent, sent')
<1>1. ASSUME NEW a \in Agent, NEW m \in sent, Deliver(a, m)
      PROVE  RoundStep(agents, agents', sent, sent')
  BY <1>1 DEF Deliver, Delivers, RoundStep
<1>2. ASSUME NEW a \in Agent, Tick(a)
      PROVE  RoundStep(agents, agents', sent, sent')
  <2>1. Ticks(agents, agents', sent, sent', a)
    BY <1>2 DEF Tick, Ticks
  <2> QED
    BY <2>1 DEF RoundStep
<1>3. CASE UNCHANGED vars
  BY <1>3 DEF vars, Loses, RoundStep
<1> QED
  BY <1>1, <1>2, <1>3 DEF Next

\* Every step keeps the invariant.
LEMMA NextInv == Inv /\ [Next]_vars => Inv'
<1> SUFFICES ASSUME Inv, [Next]_vars PROVE Inv'
  OBVIOUS
<1>1. RoundStep(agents, agents', sent, sent')
  BY NextIsStep
<1>2. RoundInv(agents', sent')
  BY <1>1, StepKeepsInv DEF Inv
<1> QED
  BY <1>2 DEF Inv

\* The invariant holds throughout.
LEMMA InvHolds == Spec => []Inv
BY InitInv, NextInv, PTL DEF Spec

-----------------------------------------------------------------------------
(* The safety of one agent's claims *)

(***************************************************************************)
(* Types: prices stay natural numbers, bidders stay agents or NO_BIDDER and *)
(* assignments tasks, whatever arrives.                                     *)
(***************************************************************************)
THEOREM TypeCorrect == Spec => []TypeOK
<1>1. Inv => TypeOK
  BY DEF Inv, RoundInv, Typed, TypeOK
<1> QED
  BY <1>1, InvHolds, PTL

(***************************************************************************)
(* Invariant I1: no entry of any table ever moves down in (price, bidder)   *)
(* order.                                                                   *)
(***************************************************************************)
THEOREM PricesRise == Spec => PricesNeverDrop
<1> DEFINE Rises == \A a \in Agent, t \in Task :
                      AtMost(agents[a].prices[t], agents'[a].prices[t])
<1>1. Inv /\ [Next]_vars => Rises
  <2> SUFFICES ASSUME Inv, [Next]_vars, NEW a \in Agent, NEW t \in Task
               PROVE  AtMost(agents[a].prices[t], agents'[a].prices[t])
    OBVIOUS
  <2>1. RoundStep(agents, agents', sent, sent')
    BY NextIsStep
  <2>2. Typed(agents, sent)
    BY DEF Inv, RoundInv
  <2> QED
    BY <2>1, <2>2, EntriesRise
<1> QED
  <2> HIDE DEF Rises
  <2>1. Inv /\ [Next]_vars => [Rises]_vars
    BY <1>1
  <2>2. Spec => [][Rises]_vars
    BY <2>1, InvHolds, PTL DEF Spec
  <2> QED
    BY <2>2 DEF Rises, PricesNeverDrop

(***************************************************************************)
(* Nobody knows more of an agent's bids than the agent itself: gossip,      *)
(* however late or repeated, hands no agent a task it did not claim.        *)
(***************************************************************************)
THEOREM OwnBidsAreKnown == Spec => []OwnBidsKnown
<1>1. Inv => OwnBidsKnown
  BY DEF Inv, RoundInv, OwnKnown, OwnBidsKnown
<1> QED
  BY <1>1, InvHolds, PTL

(***************************************************************************)
(* On its own table, an agent is the highest bidder of its assignment only. *)
(***************************************************************************)
THEOREM ClaimsAreSingle == Spec => []SingleClaim
<1>1. Inv => SingleClaim
  BY DEF Inv, RoundInv, SingleClaims, SingleClaim
<1> QED
  BY <1>1, InvHolds, PTL

(***************************************************************************)
(* Epsilon complementary slackness of every agent that is not outbid, at    *)
(* the prices it knows.                                                     *)
(***************************************************************************)
THEOREM SlackStaysSmall == Spec => []EpsilonSlack
<1>1. Inv => EpsilonSlack
  BY DEF Inv, RoundInv, Slack, EpsilonSlack
<1> QED
  BY <1>1, InvHolds, PTL

(***************************************************************************)
(* No tick() ever trips an assertion of PriceTable.bid: at any moment the   *)
(* scan of _place_bid ends with a task, its increment reaches epsilon (I2)  *)
(* and the entry it writes lies above the one it replaces (I1).             *)
(***************************************************************************)
THEOREM BidsNeverAssert == Spec => []AssertionsHold
<1>1. TypeOK => AssertionsHold
  <2> SUFFICES ASSUME TypeOK, NEW a \in Agent, Outbid(a, agents[a])
               PROVE  \E bid \in Bids(agents[a]) :
                        BidAsserts(agents[a].prices, bid.task, bid.increment, a, Epsilon)
    BY DEF AssertionsHold
  <2>1. agents[a] \in AgentStates
    BY DEF TypeOK
  <2>2. PICK bid \in Bids(agents[a]) : TRUE
    BY <2>1, BidExists
  <2> QED
    BY <2>1, <2>2, BidResult, RaiseResult DEF BidAsserts
<1> QED
  BY <1>1, TypeCorrect, PTL

-----------------------------------------------------------------------------
(* The merged table *)

\* The bids of the auction with one table, as SerialAuction.tla states them.
LEMMA BidsAreSerial ==
  ASSUME NEW a \in Agent, BidsNext(MergedPrices, MergedPrices', a)
  PROVE  Serial!Next
<1>1. PICK t \in Task : Overbids(MergedPrices, MergedPrices', a, t)
  BY DEF BidsNext
<1>2. Serial!Overbid(a, t)
  BY <1>1 DEF Overbids, Serial!Overbid, Serial!Below, Below, Serial!Entries, Entries,
       Serial!NO_BIDDER, NO_BIDDER
<1>3. \A u \in Task : ~ Serial!Holds(a, u)
  BY DEF BidsNext, Serial!Holds
<1> QED
  BY <1>2, <1>3 DEF Serial!Bid, Serial!Next

(***************************************************************************)
(* A round of stale, lossy gossip implements the auction with one table:    *)
(* each tick() bids in it, for an agent that holds nothing there either, or *)
(* is overtaken by a bid its agent has not heard of and leaves no trace.    *)
(***************************************************************************)
THEOREM Refinement == Spec => ImplementsSerialAuction
<1>1. Init => Serial!Init
  <2> SUFFICES ASSUME NEW benefits \in BenefitChoices, agents = NewAgents(benefits)
               PROVE  MergedPrices = Serial!InitialTable(Task)
    BY DEF Init, Serial!Init
  <2>1. MergedPrices = InitialTable(Task)
    BY NetworkAssumption, InitialMerged DEF NetworkAssumption, MergedPrices
  <2> QED
    BY <2>1 DEF Serial!InitialTable, InitialTable, Serial!InitialEntry, InitialEntry,
         Serial!NO_BIDDER, NO_BIDDER
<1>2. Inv /\ [Next]_vars => [Serial!Next]_MergedPrices
  <2> SUFFICES ASSUME Inv, [Next]_vars PROVE [Serial!Next]_MergedPrices
    OBVIOUS
  <2>1. RoundStep(agents, agents', sent, sent')
    BY NextIsStep
  <2>2. \/ \E a \in Agent : BidsNext(MergedPrices, MergedPrices', a)
        \/ MergedPrices' = MergedPrices
    BY <2>1, StepBidsOrStutters DEF Inv, MergedPrices
  <2> QED
    BY <2>2, BidsAreSerial
<1> QED
  BY <1>1, <1>2, InvHolds, PTL DEF Spec, ImplementsSerialAuction, Serial!Spec

(***************************************************************************)
(* A snapshot of all agents, taken at any moment, gives no agent two tasks: *)
(* the merged table that _merged_prices would compute is single-claim too.  *)
(***************************************************************************)
THEOREM SnapshotsAreSingle == Spec => []OneTaskEach
<1>1. Inv => OneTaskEach
  <2> SUFFICES ASSUME Inv, NEW a \in Agent, NEW t \in Task, NEW u \in Task,
                      MergedPrices[t].bidder = a, MergedPrices[u].bidder = a
               PROVE  t = u
    BY DEF OneTaskEach, Serial!OneTaskEach, Serial!Holds
  <2> QED
    BY SnapshotIsSingle DEF Inv, RoundInv, MergedPrices
<1> QED
  BY <1>1, InvHolds, PTL

(***************************************************************************)
(* No price rises above the spread of somebody's benefits plus epsilon      *)
(* while a task is without a bid, nor ever above twice that: outbidding     *)
(* each other on stale tables, the agents run out of room.                  *)
(***************************************************************************)
THEOREM PricesAreBounded == Spec => []PricesBounded
<1>1. Init => PriceInv(agents)
  BY NetworkAssumption, InitialCap DEF Init, NetworkAssumption
<1>2. Inv /\ PriceInv(agents) /\ [Next]_vars => PriceInv(agents)'
  <2> SUFFICES ASSUME Inv, PriceInv(agents), [Next]_vars PROVE PriceInv(agents')
    OBVIOUS
  <2>1. RoundStep(agents, agents', sent, sent')
    BY NextIsStep
  <2> QED
    BY <2>1, StepKeepsCap DEF Inv
<1>3. Inv /\ PriceInv(agents) => PricesBounded
  <2> DEFINE left == \E t \in Task : MergedPrices[t].bidder = NO_BIDDER
             factor == IF left THEN 1 ELSE 2
  <2> SUFFICES ASSUME Inv, PriceInv(agents), NEW a \in Agent, NEW t \in Task
               PROVE  \E b \in Agent, u, w \in Task :
                        agents[a].prices[t].price
                          <= factor * (agents[b].benefit[u] - agents[b].benefit[w] + Epsilon)
    BY DEF PricesBounded
  <2>1. factor = IF AllClaimed(agents) THEN 2 ELSE 1
    BY DEF AllClaimed, MergedPrices
  <2> HIDE DEF factor
  <2>2. PriceWithin(agents, a, t, factor)
    BY <2>1, CapOfPrices DEF Inv
  <2> QED
    BY <2>2, Zenon DEF PriceWithin
<1> QED
  BY <1>1, <1>2, <1>3, InvHolds, PTL DEF Spec

-----------------------------------------------------------------------------
(* What agreement is worth *)

(***************************************************************************)
(* Agents whose tables agree, each holding a task, hold different tasks,    *)
(* and nobody ever bid on the others: agreement cannot settle on less than  *)
(* a matching, in whatever order the gossip arrived.                        *)
(***************************************************************************)
THEOREM AgreementIsMatching == Spec => []AgreedMatching
<1>1. Inv => AgreedMatching
  <2> SUFFICES ASSUME Inv, Agreed
               PROVE  /\ \A a, b \in Agent :
                           agents[a].assignment = agents[b].assignment => a = b
                      /\ \A a \in Agent, t \in Task :
                           (\A b \in Agent : agents[b].assignment # t) =>
                             agents[a].prices[t] = InitialEntry
    BY DEF AgreedMatching
  <2>1. ASSUME NEW a \in Agent, NEW b \in Agent,
               agents[a].assignment = agents[b].assignment
        PROVE  a = b
    BY <2>1 DEF Agreed, Outbid
  <2>2. ASSUME NEW a \in Agent, NEW t \in Task,
               \A b \in Agent : agents[b].assignment # t
        PROVE  agents[a].prices[t] = InitialEntry
    <3>1. ASSUME NEW b \in Agent, agents[a].prices[t].bidder = b PROVE FALSE
      BY <2>2, <3>1 DEF Agreed, Inv, RoundInv, SingleClaims
    <3>2. agents[a].prices[t] \in Entries(Agent)
      BY AgentFields DEF Inv, RoundInv
    <3>3. agents[a].prices[t].bidder = NO_BIDDER
      BY <3>1, <3>2, EntryFields
    <3> QED
      BY <3>3 DEF Inv, RoundInv, UnbidInitial, Unbid
  <2> QED
    BY <2>1, <2>2
<1> QED
  BY <1>1, InvHolds, PTL

(***************************************************************************)
(* The bound RoundConfig documents: whenever the tables agree and nobody is *)
(* outbid, the total benefit of the assignment is within n*epsilon of the   *)
(* best of all matchings, whatever tables were lost, repeated or reordered  *)
(* on the way.                                                              *)
(***************************************************************************)
THEOREM AgreementIsNearOptimal == Spec => []NearOptimal
<1>1. Inv => NearOptimal
  <2> SUFFICES ASSUME Inv, Agreed, NEW matching \in Injection(Agent, Task)
               PROVE  Total(matching) <= Total([a \in Agent |-> agents[a].assignment])
                                           + Cardinality(Agent) * Epsilon
    BY DEF NearOptimal
  <2>1. HoldsMerged(agents)
    <3> SUFFICES ASSUME NEW a \in Agent
                 PROVE  /\ agents[a].assignment \in Task
                        /\ Merged(agents)[agents[a].assignment].bidder = a
      BY DEF HoldsMerged
    <3>1. Typed(agents, sent) /\ ~ Outbid(a, agents[a])
      BY DEF Inv, RoundInv, Agreed
    <3>2. /\ agents[a].assignment \in Task
          /\ agents[a].prices[agents[a].assignment].bidder = a
      BY <3>1 DEF Outbid, Typed, AgentStates
    <3>3. MergedIsHighest(agents)
      BY <3>1, MergedTable
    <3>4. PICK b \in Agent : Merged(agents)[agents[a].assignment]
                               = agents[b].prices[agents[a].assignment]
      BY <3>2, <3>3 DEF MergedIsHighest
    <3> QED
      BY <3>2, <3>4 DEF Agreed
  <2>2. TotalBenefit(agents, matching) <= TotalBenefit(agents, Assigned(agents))
                                            + Cardinality(Agent) * Epsilon
    BY <2>1, MergedMatchingIsNearOptimal DEF Inv
  <2> QED
    BY <2>2 DEF Total, Assigned
<1> QED
  BY <1>1, InvHolds, PTL

=============================================================================

---------------------------- MODULE AuctionRound ----------------------------
(***************************************************************************)
(* One auction round: every participant hosts an AuctionAgent               *)
(* (auction_core/auction/engine.py) and gossips its price table over a      *)
(* broadcast network that may lose, duplicate, delay and reorder messages.  *)
(*                                                                         *)
(* sent is the set of every table ever broadcast.  A receiver within range  *)
(* may handle any of them, any number of times, at any later moment, so a   *)
(* lost message is one that is never handled.  Agents tick at their own     *)
(* pace, as the hosts' timers do.                                           *)
(***************************************************************************)
EXTENDS RoundAgents

CONSTANTS
  BenefitChoices, \* the benefit matrices a round may start with
  Hears           \* pairs <<a, b>> such that b receives what a broadcasts

ASSUME NetworkAssumption ==
  /\ BenefitChoices \subseteq Benefits
  /\ Hears \subseteq Agent \X Agent

VARIABLES
  agents,  \* agent id -> the AuctionAgent it hosts
  sent     \* every PriceTableMessage broadcast so far

vars == <<agents, sent>>

TypeOK ==
  /\ agents \in [Agent -> AgentStates]
  /\ sent \subseteq Messages

-----------------------------------------------------------------------------
Init ==
  /\ \E benefits \in BenefitChoices : agents = NewAgents(benefits)
  /\ sent = {}

\* A table arrives; a transport that echoes a broadcast is allowed.
Deliver(a, m) ==
  /\ <<m.sender, a>> \in Hears
  /\ agents' = Handed(agents, a, m)
  /\ UNCHANGED sent

Tick(a) ==
  \E ag \in AfterTick(a, agents[a]) :
    /\ agents' = [agents EXCEPT ![a] = ag]
    /\ sent' = sent \cup Broadcasts(a, ag)

Next ==
  \E a \in Agent :
    \/ \E m \in sent : Deliver(a, m)
    \/ Tick(a)

Spec == Init /\ [][Next]_vars

-----------------------------------------------------------------------------
\* A table of b that would still change a's reaches a.
DeliverNews(a, b) ==
  \E m \in sent :
    /\ m.sender = b
    /\ HandleMessage(a, agents[a], m) # agents[a]
    /\ Deliver(a, m)

(***************************************************************************)
(* Every host calls tick() from a periodic timer (agent_node.py) or a loop  *)
(* (run_round), and an agent whose table changed goes on broadcasting it    *)
(* for QuiescenceRounds ticks: the fairness of DeliverNews says that a link *)
(* does not lose every copy of news.                                        *)
(***************************************************************************)
Fairness ==
  \A a \in Agent :
    /\ WF_vars(Tick(a))
    /\ \A b \in Agent : WF_vars(DeliverNews(a, b))

FairSpec == Spec /\ Fairness

-----------------------------------------------------------------------------
(* Safety *)

(***************************************************************************)
(* Nobody knows more of an agent's bids than the agent itself: a table or a *)
(* message naming a as the highest bidder of t is never above a's own entry *)
(* for t.  Merging late, repeated or reordered gossip (handle_message) can  *)
(* therefore never hand an agent a task it did not claim.                   *)
(***************************************************************************)
OwnBidsKnown ==
  \A a \in Agent, t \in Task :
    /\ \A b \in Agent :
         agents[b].prices[t].bidder = a =>
           AtMost(agents[b].prices[t], agents[a].prices[t])
    /\ \A m \in sent :
         m.entries[t].bidder = a =>
           AtMost(m.entries[t], agents[a].prices[t])

(***************************************************************************)
(* An agent is the highest bidder, on its own table, of its assignment only *)
(* (tick() leaves the old task to whoever outbid it): an agent never holds  *)
(* two tasks of a round.                                                    *)
(***************************************************************************)
SingleClaim ==
  \A a \in Agent, t \in Task :
    agents[a].prices[t].bidder = a => agents[a].assignment = t

(***************************************************************************)
(* Epsilon complementary slackness: while an agent holds its assignment, no *)
(* task is worth more than epsilon more to it at the prices it knows, no    *)
(* matter which tables arrived since it bid (gamma of _place_bid).          *)
(***************************************************************************)
EpsilonSlack ==
  \A a \in Agent :
    ~ Outbid(a, agents[a]) =>
      \A t \in Task :
        Net(agents[a], agents[a].assignment) >= Net(agents[a], t) - Epsilon

(***************************************************************************)
(* The assertions of PriceTable.bid hold of the bid an agent would place in *)
(* its next tick: the increment reaches epsilon (I2) and the entry grows    *)
(* (I1), and the scan of _place_bid does end with a task.                   *)
(***************************************************************************)
AssertionsHold ==
  \A a \in Agent :
    Outbid(a, agents[a]) =>
      \E bid \in Bids(agents[a]) :
        BidAsserts(agents[a].prices, bid.task, bid.increment, a, Epsilon)

MergedPrices == Merged(agents)

(***************************************************************************)
(* What makes the auction end although every bid makes others bid again:    *)
(* while some task has no bid anywhere, no price is above the spread of     *)
(* somebody's benefits plus epsilon, and the bid on the last such task      *)
(* brings no price above twice that: only an outbid agent bids (tick()), so *)
(* its bidder always sees a task that is still free.                         *)
(***************************************************************************)
PricesBounded ==
  LET factor == IF \E t \in Task : MergedPrices[t].bidder = NO_BIDDER THEN 1 ELSE 2
  IN  \A a \in Agent, t \in Task :
        \E b \in Agent, u, w \in Task :
          agents[a].prices[t].price
            <= factor * (agents[b].benefit[u] - agents[b].benefit[w] + Epsilon)

Agreed ==
  /\ \A a, b \in Agent : agents[a].prices = agents[b].prices
  /\ \A a \in Agent : ~ Outbid(a, agents[a])

(***************************************************************************)
(* Once the tables agree and nobody is outbid, the assignment is a matching *)
(* and the tasks outside it were never bid on.                              *)
(***************************************************************************)
AgreedMatching ==
  Agreed =>
    /\ \A a, b \in Agent :
         agents[a].assignment = agents[b].assignment => a = b
    /\ \A a \in Agent, t \in Task :
         (\A b \in Agent : agents[b].assignment # t) =>
           agents[a].prices[t] = InitialEntry

Total(matching) == TotalBenefit(agents, matching)

(***************************************************************************)
(* RoundConfig: "the final assignment's total benefit is within n*epsilon   *)
(* of optimal for n participating agents".                                  *)
(***************************************************************************)
NearOptimal ==
  Agreed =>
    \A matching \in Injection(Agent, Task) :
      Total(matching) <= Total([a \in Agent |-> agents[a].assignment])
                           + Cardinality(Agent) * Epsilon

-----------------------------------------------------------------------------
(* Action properties *)

(***************************************************************************)
(* Invariant I1: whatever arrives in whatever order, no entry of any table  *)
(* ever moves down in (price, bidder) order.                                *)
(***************************************************************************)
PricesNeverDrop ==
  [][\A a \in Agent, t \in Task :
       AtMost(agents[a].prices[t], agents'[a].prices[t])]_vars

-----------------------------------------------------------------------------
(* Refinement *)

Serial == INSTANCE SerialAuction WITH table <- MergedPrices

(***************************************************************************)
(* However stale the tables the agents bid on, their merged table evolves   *)
(* as that of an auction in which agents bid one at a time on up-to-date    *)
(* prices, each only while it holds nothing: a bid is either overtaken      *)
(* before anybody hears of it or counts as the next bid of that auction.    *)
(***************************************************************************)
ImplementsSerialAuction == Serial!Spec

(***************************************************************************)
(* On the merged table, too, no agent is the highest bidder of two tasks:   *)
(* whatever the agents have yet to hear of each other, a snapshot of them   *)
(* all yields at most one task per agent.                                   *)
(***************************************************************************)
OneTaskEach == Serial!OneTaskEach

-----------------------------------------------------------------------------
(* Liveness *)

(***************************************************************************)
(* Every round settles: eventually all agents consider it terminated, with  *)
(* equal tables and everybody holding a task, and so it stays.              *)
(***************************************************************************)
Settled == Agreed /\ \A a \in Agent : Terminated(agents[a])

RoundSettles == <>[]Settled

=============================================================================

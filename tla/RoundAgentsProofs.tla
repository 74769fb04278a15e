------------------------- MODULE RoundAgentsProofs -------------------------
(***************************************************************************)
(* The inductive invariant of an auction round, proved for the agents as a  *)
(* value and for whatever network hosts them: AuctionRoundProofs.tla and    *)
(* RoundHarnessProofs.tla show that their steps are steps of this kind.     *)
(*                                                                         *)
(* The parts of the invariant build on each other: Typed, then OwnKnown,    *)
(* then SingleClaims and Slack.  A table that arrives cannot give an agent  *)
(* a second task only because OwnKnown keeps every entry that names the     *)
(* agent at or below the agent's own.                                       *)
(*                                                                         *)
(* Then the merged table of the agents: it exists, gossip leaves it as it   *)
(* is, a tick bids in it or is overtaken, and what agents hold on it is a   *)
(* near-optimal matching.                                                   *)
(***************************************************************************)
EXTENDS RoundAgents, FoldLemmas

(* The order of the entries *)

\* Bidders are compared as integers: the ids of agents, and NO_BIDDER.
LEMMA BidderIds == Agent \cup {NO_BIDDER} \subseteq Int
<1>1. Agent \subseteq Nat
  BY RoundAssumption DEF RoundAssumption
<1> QED
  BY <1>1 DEF NO_BIDDER

\* What a PriceEntry consists of.
LEMMA EntryFields ==
  ASSUME NEW e \in Entries(Agent)
  PROVE  /\ e.price \in Nat
         /\ e.bidder \in Agent \cup {NO_BIDDER}
         /\ e.bidder \in Int
         /\ e = [price |-> e.price, bidder |-> e.bidder]
<1>1. e.price \in Nat /\ e.bidder \in Agent \cup {NO_BIDDER}
  BY DEF Entries
<1>2. e = [price |-> e.price, bidder |-> e.bidder]
  BY DEF Entries
<1>3. e.bidder \in Int
  BY <1>1, BidderIds, Zenon
<1> QED
  BY <1>1, <1>2, <1>3

\* The dataclass order of PriceEntry is transitive,
LEMMA AtMostTransitive ==
  ASSUME NEW e \in Entries(Agent), NEW f \in Entries(Agent), NEW g \in Entries(Agent),
         AtMost(e, f), AtMost(f, g)
  PROVE  AtMost(e, g)
BY EntryFields DEF AtMost, Below

\* and its strict part is asymmetric.
LEMMA BelowIrreversible ==
  ASSUME NEW e \in Entries(Agent), NEW f \in Entries(Agent),
         AtMost(e, f), Below(f, e)
  PROVE  FALSE
BY EntryFields DEF AtMost, Below

\* MaxEntry returns one of its arguments, and an upper bound of both.
LEMMA MaxEntryIsMax ==
  ASSUME NEW e \in Entries(Agent), NEW f \in Entries(Agent)
  PROVE  /\ MaxEntry(e, f) \in {e, f}
         /\ MaxEntry(e, f) \in Entries(Agent)
         /\ AtMost(e, MaxEntry(e, f))
         /\ AtMost(f, MaxEntry(e, f))
<1>1. \/ e = f
      \/ Below(e, f)
      \/ Below(f, e)
  BY EntryFields DEF Below
<1>2. ~ Below(e, f) => AtMost(f, e)
  BY <1>1 DEF AtMost
<1> QED
  BY <1>2 DEF MaxEntry, AtMost

\* PriceTable.merge leaves an upper bound of both tables, entry by entry.
LEMMA MergeIsMax ==
  ASSUME NEW ours \in Tables, NEW theirs \in Tables
  PROVE  /\ Merge(ours, theirs) \in Tables
         /\ \A t \in Task : Merge(ours, theirs)[t] = MaxEntry(ours[t], theirs[t])
BY MaxEntryIsMax DEF Merge, Tables

-----------------------------------------------------------------------------
(* What the operations of an agent do to its state *)

\* The entries of a table of the round are entries.
LEMMA EntriesOf ==
  ASSUME NEW table \in Tables, NEW t \in Task
  PROVE  table[t] \in Entries(Agent)
BY DEF Tables

\* An arriving table changes only entries it lies above of, to its own.
LEMMA HandleMessageResult ==
  ASSUME NEW a \in Agent, NEW ag \in AgentStates, NEW m \in Messages
  PROVE  LET after == HandleMessage(a, ag, m)
         IN  /\ after \in AgentStates
             /\ after.benefit = ag.benefit
             /\ after.assignment = ag.assignment
             /\ \A t \in Task :
                  \/ after.prices[t] = ag.prices[t]
                  \/ /\ after.prices[t] = m.entries[t]
                     /\ Below(ag.prices[t], m.entries[t])
<1> DEFINE merged == Merge(ag.prices, m.entries)
<1>1. ag.prices \in Tables /\ m.entries \in Tables
  BY DEF AgentStates, Messages
<1>2. merged \in Tables
  BY <1>1, MergeIsMax
<1>3. \A t \in Task : merged[t] = MaxEntry(ag.prices[t], m.entries[t])
  BY <1>1, MergeIsMax
<1>4. \A t \in Task :
        \/ merged[t] = ag.prices[t]
        \/ merged[t] = m.entries[t] /\ Below(ag.prices[t], m.entries[t])
  BY <1>3 DEF MaxEntry
<1>5. CASE m.sender = a
  BY <1>5 DEF HandleMessage
<1>6. CASE m.sender # a
  <2>1. HandleMessage(a, ag, m) =
          [ag EXCEPT !.prices = merged, !.dirty = @ \/ merged # ag.prices]
    BY <1>6 DEF HandleMessage
  <2> HIDE DEF merged
  <2>2. (ag.dirty \/ merged # ag.prices) \in BOOLEAN
    OBVIOUS
  <2>3. HandleMessage(a, ag, m) \in AgentStates
    BY <2>1, <2>2, <1>2 DEF AgentStates
  <2>4. /\ HandleMessage(a, ag, m).prices = merged
        /\ HandleMessage(a, ag, m).benefit = ag.benefit
        /\ HandleMessage(a, ag, m).assignment = ag.assignment
    BY <2>1 DEF AgentStates
  <2> QED
    BY <2>3, <2>4, <1>4
<1> QED
  BY <1>5, <1>6

\* The quiescence half of tick() only touches the counter and the flag.
LEMMA SettleResult ==
  ASSUME NEW ag \in AgentStates
  PROVE  /\ Settle(ag) \in AgentStates
         /\ Settle(ag).benefit = ag.benefit
         /\ Settle(ag).prices = ag.prices
         /\ Settle(ag).assignment = ag.assignment
<1>1. QuiescenceRounds \in Nat /\ 0 \in 0..QuiescenceRounds
  BY RoundConfigAssumption DEF RoundConfigAssumption
<1> DEFINE count == IF ag.quiescent < QuiescenceRounds
                    THEN ag.quiescent + 1 ELSE ag.quiescent
<1>2. count \in 0..QuiescenceRounds
  BY <1>1 DEF AgentStates
<1>3. Settle(ag) = IF ag.dirty THEN [ag EXCEPT !.quiescent = 0, !.dirty = FALSE]
                               ELSE [ag EXCEPT !.quiescent = count]
  BY DEF Settle, AgentStates
<1> HIDE DEF count
<1> QED
  BY <1>1, <1>2, <1>3 DEF AgentStates

\* Every bid raises the price by epsilon at least, and leaves the task it is
\* for within epsilon of the best alternative.
LEMMA BidResult ==
  ASSUME NEW ag \in AgentStates, NEW bid \in Bids(ag)
  PROVE  /\ bid.task \in Task
         /\ bid.increment \in Int
         /\ bid.increment >= Epsilon
         /\ \A u \in Task \ {bid.task} :
              Net(ag, bid.task) - bid.increment >= Net(ag, u) - Epsilon
<1>1. /\ ag.benefit \in [Task -> Int] /\ DOMAIN ag.benefit = Task
      /\ ag.prices \in Tables
  BY DEF AgentStates
<1>2. ASSUME NEW t \in Task PROVE Net(ag, t) \in Int
  BY <1>1, EntriesOf, EntryFields DEF Net
<1>3. Epsilon \in Nat
  BY RoundConfigAssumption DEF RoundConfigAssumption
<1>4. PICK t \in Best(ag, Task) :
        \E g \in Increments(ag, t) : bid = [task |-> t, increment |-> g]
  BY <1>1 DEF Bids
<1>5. PICK g \in Increments(ag, t) : bid = [task |-> t, increment |-> g]
  BY <1>4
<1>6. t \in Task /\ \A u \in Task \ {t} : Net(ag, t) >= Net(ag, u)
  <2>1. t \in Task /\ \A u \in Task \ {t} : ScansAhead(ag, t, u)
    BY <1>4 DEF Best
  <2> QED
    BY <2>1, <1>2 DEF ScansAhead
<1>7. CASE Task = {t}
  <2>1. g = Epsilon
    BY <1>1, <1>5, <1>7 DEF Increments
  <2> QED
    BY <2>1, <1>3, <1>5, <1>6, <1>7
<1>8. CASE Task # {t}
  <2>1. PICK u \in Best(ag, Task \ {t}) : g = Net(ag, t) - Net(ag, u) + Epsilon
    BY <1>1, <1>5, <1>8 DEF Increments
  <2>2. u \in Task \ {t} /\ \A w \in (Task \ {t}) \ {u} : ScansAhead(ag, u, w)
    BY <2>1 DEF Best
  <2>3. \A w \in Task \ {t} : Net(ag, u) >= Net(ag, w)
    BY <2>2, <1>2 DEF ScansAhead
  <2>4. Net(ag, t) \in Int /\ Net(ag, u) \in Int /\ Net(ag, t) >= Net(ag, u)
    BY <2>2, <1>2, <1>6
  <2>5. g \in Int /\ g >= Epsilon
    BY <2>1, <2>4, <1>3
  <2>6. ASSUME NEW w \in Task \ {t} PROVE Net(ag, t) - g >= Net(ag, w) - Epsilon
    BY <2>1, <2>3, <2>4, <1>2, <1>3
  <2> QED
    BY <2>5, <2>6, <1>5, <1>6
<1> QED
  BY <1>7, <1>8

\* An outbid agent ends its tick as the bidder of one more task; any other
\* agent's table and assignment stay as they are.
LEMMA TickResult ==
  ASSUME NEW a \in Agent, NEW ag \in AgentStates, NEW after \in AfterTick(a, ag)
  PROVE  /\ after \in AgentStates
         /\ after.benefit = ag.benefit
         /\ ~ Outbid(a, ag) => /\ after.prices = ag.prices
                               /\ after.assignment = ag.assignment
         /\ Outbid(a, ag) =>
              \E bid \in Bids(ag) :
                /\ after.assignment = bid.task
                /\ after.prices = Raise(ag.prices, bid.task, bid.increment, a)
<1>1. CASE ~ Outbid(a, ag)
  BY <1>1, SettleResult DEF AfterTick
<1>2. CASE Outbid(a, ag)
  <2>1. PICK bid \in Bids(ag) : after = Settle(PlaceBid(a, ag, bid))
    BY <1>2 DEF AfterTick
  <2> DEFINE raised == Raise(ag.prices, bid.task, bid.increment, a)
  <2>2. /\ bid.task \in Task /\ bid.increment \in Int /\ bid.increment >= Epsilon
        /\ Epsilon \in Nat
    BY BidResult, RoundConfigAssumption DEF RoundConfigAssumption
  <2>3. ag.prices \in Tables
    BY DEF AgentStates
  <2>4. [price |-> ag.prices[bid.task].price + bid.increment, bidder |-> a]
          \in Entries(Agent)
    BY <2>2, <2>3, EntriesOf, EntryFields DEF Entries
  <2>5. raised \in Tables
    BY <2>2, <2>3, <2>4 DEF Raise, Tables
  <2>6. PlaceBid(a, ag, bid) =
          [ag EXCEPT !.prices = raised, !.assignment = bid.task, !.dirty = TRUE]
    BY DEF PlaceBid, AgentStates
  <2> HIDE DEF raised
  <2>7. /\ PlaceBid(a, ag, bid) \in AgentStates
        /\ PlaceBid(a, ag, bid).prices = raised
        /\ PlaceBid(a, ag, bid).assignment = bid.task
        /\ PlaceBid(a, ag, bid).benefit = ag.benefit
    BY <2>2, <2>5, <2>6 DEF AgentStates
  <2> QED
    BY <2>1, <2>7, <1>2, SettleResult DEF raised
<1> QED
  BY <1>1, <1>2

\* A bid lifts the entry bid on, puts the bidder on it, and touches no other.
LEMMA RaiseResult ==
  ASSUME NEW a \in Agent, NEW ag \in AgentStates, NEW bid \in Bids(ag)
  PROVE  LET raised == Raise(ag.prices, bid.task, bid.increment, a)
         IN  /\ Below(ag.prices[bid.task], raised[bid.task])
             /\ raised[bid.task].bidder = a
             /\ raised[bid.task].price = ag.prices[bid.task].price + bid.increment
             /\ \A t \in Task \ {bid.task} : raised[t] = ag.prices[t]
<1>1. /\ bid.task \in Task /\ bid.increment \in Int /\ bid.increment >= Epsilon
      /\ Epsilon \in Nat \ {0}
  BY BidResult, RoundConfigAssumption DEF RoundConfigAssumption
<1>2. ag.prices \in Tables /\ ag.prices[bid.task].price \in Nat
  BY <1>1, EntriesOf, EntryFields DEF AgentStates
<1>3. Raise(ag.prices, bid.task, bid.increment, a)[bid.task] =
        [price |-> ag.prices[bid.task].price + bid.increment, bidder |-> a]
  BY <1>1, <1>2 DEF Raise, Tables
<1>4. \A t \in Task \ {bid.task} :
        Raise(ag.prices, bid.task, bid.increment, a)[t] = ag.prices[t]
  BY <1>1, <1>2 DEF Raise, Tables
<1> QED
  BY <1>1, <1>2, <1>3, <1>4 DEF Below

-----------------------------------------------------------------------------
(***************************************************************************)
(* A step of a round, from the agents ags and the tables msgs that may      *)
(* still arrive to new and more: some agent handles a table, some agent     *)
(* ticks and broadcasts, or nothing but tables getting lost.                *)
(***************************************************************************)
Delivers(ags, new, msgs, more, a, m) ==
  /\ m \in msgs
  /\ new = Handed(ags, a, m)
  /\ more \subseteq msgs

Ticks(ags, new, msgs, more, a) ==
  \E ag \in AfterTick(a, ags[a]) :
    /\ new = [ags EXCEPT ![a] = ag]
    /\ more \subseteq msgs \cup Broadcasts(a, ag)

Loses(ags, new, msgs, more) == new = ags /\ more \subseteq msgs

RoundStep(ags, new, msgs, more) ==
  \/ \E a \in Agent : \/ \E m \in msgs : Delivers(ags, new, msgs, more, a, m)
                      \/ Ticks(ags, new, msgs, more, a)
  \/ Loses(ags, new, msgs, more)

\* Tables hold natural prices and known bidders, assignments are tasks.
Typed(ags, msgs) ==
  /\ ags \in [Agent -> AgentStates]
  /\ msgs \subseteq Messages

\* Nobody, and no table, knows more of an agent's bids than the agent itself.
OwnKnown(ags, msgs) ==
  \A a \in Agent, t \in Task :
    /\ \A b \in Agent :
         ags[b].prices[t].bidder = a => AtMost(ags[b].prices[t], ags[a].prices[t])
    /\ \A m \in msgs :
         m.entries[t].bidder = a => AtMost(m.entries[t], ags[a].prices[t])

\* An agent is the highest bidder, on its own table, of its assignment only.
SingleClaims(ags) ==
  \A a \in Agent, t \in Task :
    ags[a].prices[t].bidder = a => ags[a].assignment = t

\* An agent that is not outbid is within epsilon of its best alternative.
Slack(ags) ==
  \A a \in Agent :
    ~ Outbid(a, ags[a]) =>
      \A t \in Task : Net(ags[a], ags[a].assignment) >= Net(ags[a], t) - Epsilon

\* An entry without a bidder is the initial one.
Unbid(table) ==
  \A t \in Task : table[t].bidder = NO_BIDDER => table[t] = InitialEntry

UnbidInitial(ags, msgs) ==
  /\ \A a \in Agent : Unbid(ags[a].prices)
  /\ \A m \in msgs : Unbid(m.entries)

\* Nobody is quiescent before it bid.
BidFirst(ags) ==
  \A a \in Agent : ags[a].quiescent > 0 => ags[a].assignment # NoTask

RoundInv(ags, msgs) ==
  /\ Typed(ags, msgs)
  /\ OwnKnown(ags, msgs)
  /\ SingleClaims(ags)
  /\ Slack(ags)
  /\ UnbidInitial(ags, msgs)
  /\ BidFirst(ags)

-----------------------------------------------------------------------------
(* Types *)

\* At first nobody holds anything and no price is above zero.
LEMMA InitialAgents ==
  ASSUME NEW benefits \in Benefits, NEW a \in Agent
  PROVE  LET ag == NewAgents(benefits)[a]
         IN  /\ ag \in AgentStates
             /\ \A t \in Task : ag.prices[t] = InitialEntry
             /\ ag.assignment = NoTask
             /\ ag.quiescent = 0
<1>1. benefits[a] \in [Task -> Int] /\ DOMAIN benefits[a] = Task
  BY DEF Benefits
<1>2. NewAgents(benefits)[a] = NewAgent(benefits[a])
  BY DEF NewAgents
<1>3. InitialTable(Task) \in Tables
  BY DEF InitialTable, InitialEntry, Tables, Entries
<1>4. 0 \in 0..QuiescenceRounds
  BY RoundConfigAssumption DEF RoundConfigAssumption
<1>5. NewAgent(benefits[a]) =
        [benefit |-> benefits[a], prices |-> InitialTable(Task), assignment |-> NoTask,
         quiescent |-> 0, dirty |-> TRUE]
  BY <1>1 DEF NewAgent
<1>6. NewAgent(benefits[a]) \in AgentStates
  BY <1>1, <1>3, <1>4, <1>5 DEF AgentStates
<1>7. \A t \in Task : InitialTable(Task)[t] = InitialEntry
  BY DEF InitialTable
<1> QED
  BY <1>2, <1>5, <1>6, <1>7

\* What Typed says of one agent and of one message.
LEMMA AgentFields ==
  ASSUME NEW ags, NEW msgs, Typed(ags, msgs), NEW a \in Agent, NEW t \in Task
  PROVE  /\ ags[a] \in AgentStates
         /\ ags[a].prices \in Tables
         /\ ags[a].prices[t] \in Entries(Agent)
         /\ ags[a].assignment \in Task \cup {NoTask}
         /\ ags[a].benefit[t] \in Int
         /\ \A m \in msgs : m.entries[t] \in Entries(Agent)
BY EntriesOf DEF Typed, AgentStates, Messages

\* What a delivery does: to one agent, as HandleMessageResult says.
Delivered(ags, new, msgs, more, a, m) ==
  /\ m \in msgs /\ m \in Messages
  /\ more \subseteq msgs
  /\ new \in [Agent -> AgentStates]
  /\ \A b \in Agent \ {a} : new[b] = ags[b]
  /\ new[a].benefit = ags[a].benefit
  /\ new[a].assignment = ags[a].assignment
  /\ new[a].quiescent = ags[a].quiescent
  /\ \A t \in Task :
       \/ new[a].prices[t] = ags[a].prices[t]
       \/ /\ new[a].prices[t] = m.entries[t]
          /\ Below(ags[a].prices[t], m.entries[t])

\* What a tick does: to one agent, as TickResult says, and to the network.
Ticked(ags, new, msgs, more, a) ==
  /\ more \subseteq Messages
  /\ \A m \in more : m \in msgs \/ m.entries = new[a].prices
  /\ new \in [Agent -> AgentStates]
  /\ \A b \in Agent \ {a} : new[b] = ags[b]
  /\ new[a].benefit = ags[a].benefit
  /\ new[a].assignment # NoTask
  /\ ~ Outbid(a, ags[a]) => /\ new[a].prices = ags[a].prices
                            /\ new[a].assignment = ags[a].assignment
  /\ Outbid(a, ags[a]) =>
       \E bid \in Bids(ags[a]) :
         /\ new[a].assignment = bid.task
         /\ new[a].prices = Raise(ags[a].prices, bid.task, bid.increment, a)

\* Deliveries do that,
LEMMA DeliverStep ==
  ASSUME NEW ags, NEW new, NEW msgs, NEW more, Typed(ags, msgs),
         NEW a \in Agent, NEW m, Delivers(ags, new, msgs, more, a, m)
  PROVE  Delivered(ags, new, msgs, more, a, m)
<1>1. ags[a] \in AgentStates /\ m \in Messages /\ m \in msgs
  BY DEF Typed, Delivers
<1>2. new = [ags EXCEPT ![a] = HandleMessage(a, ags[a], m)] /\ more \subseteq msgs
  BY DEF Delivers, Handed
<1>3. HandleMessage(a, ags[a], m) \in AgentStates
  BY <1>1, HandleMessageResult
<1>4. /\ new \in [Agent -> AgentStates]
      /\ new[a] = HandleMessage(a, ags[a], m)
      /\ \A b \in Agent \ {a} : new[b] = ags[b]
  BY <1>2, <1>3 DEF Typed
<1>5. HandleMessage(a, ags[a], m).quiescent = ags[a].quiescent
  BY <1>1 DEF HandleMessage, AgentStates
<1> QED
  BY <1>1, <1>2, <1>4, <1>5, HandleMessageResult DEF Delivered

\* and ticks.
LEMMA TickStep ==
  ASSUME NEW ags, NEW new, NEW msgs, NEW more, Typed(ags, msgs),
         NEW a \in Agent, Ticks(ags, new, msgs, more, a)
  PROVE  Ticked(ags, new, msgs, more, a)
<1>1. PICK ag \in AfterTick(a, ags[a]) :
        /\ new = [ags EXCEPT ![a] = ag]
        /\ more \subseteq msgs \cup Broadcasts(a, ag)
  BY DEF Ticks
<1>2. ags[a] \in AgentStates
  BY DEF Typed
<1>3. ag \in AgentStates
  BY <1>2, TickResult
<1>4. new[a] = ag /\ \A b \in Agent \ {a} : new[b] = ags[b]
  BY <1>1 DEF Typed
<1>5. \A m \in Broadcasts(a, ag) : m.entries = ag.prices /\ m \in Messages
  BY <1>3 DEF Broadcasts, TableMessage, Messages, AgentStates
<1>6. new \in [Agent -> AgentStates]
  BY <1>1, <1>3 DEF Typed
<1>7. ag.assignment # NoTask
  <2>1. CASE Outbid(a, ags[a])
    <3>1. NoTask \notin Task
      BY RoundAssumption DEF RoundAssumption
    <3> QED
      BY <1>2, <2>1, <3>1, TickResult, BidResult
  <2>2. CASE ~ Outbid(a, ags[a])
    BY <1>2, <2>2, TickResult DEF Outbid
  <2> QED
    BY <2>1, <2>2
<1>8. more \subseteq Messages
  BY <1>1, <1>5 DEF Typed
<1> QED
  BY <1>1, <1>2, <1>4, <1>5, <1>6, <1>7, <1>8, TickResult DEF Ticked

\* Every step is one of these.
LEMMA StepCases ==
  ASSUME NEW ags, NEW new, NEW msgs, NEW more, Typed(ags, msgs),
         RoundStep(ags, new, msgs, more)
  PROVE  \/ \E a \in Agent, m \in msgs : Delivered(ags, new, msgs, more, a, m)
         \/ \E a \in Agent : Ticked(ags, new, msgs, more, a)
         \/ Loses(ags, new, msgs, more)
<1>1. ASSUME NEW a \in Agent, NEW m \in msgs, Delivers(ags, new, msgs, more, a, m)
      PROVE  Delivered(ags, new, msgs, more, a, m)
  BY <1>1, DeliverStep
<1>2. ASSUME NEW a \in Agent, Ticks(ags, new, msgs, more, a)
      PROVE  Ticked(ags, new, msgs, more, a)
  BY <1>2, TickStep
<1> QED
  BY <1>1, <1>2 DEF RoundStep

\* Every step keeps the types.
LEMMA StepTyped ==
  ASSUME NEW ags, NEW new, NEW msgs, NEW more, Typed(ags, msgs),
         RoundStep(ags, new, msgs, more)
  PROVE  Typed(new, more)
<1>1. ASSUME NEW a \in Agent, NEW m \in msgs, Delivered(ags, new, msgs, more, a, m)
      PROVE  Typed(new, more)
  BY <1>1 DEF Typed, Delivered
<1>2. ASSUME NEW a \in Agent, Ticked(ags, new, msgs, more, a)
      PROVE  Typed(new, more)
  BY <1>2 DEF Typed, Ticked
<1>3. CASE Loses(ags, new, msgs, more)
  BY <1>3 DEF Loses, Typed
<1> QED
  BY <1>1, <1>2, <1>3, StepCases

\* No entry of any table ever moves down.
LEMMA EntriesRise ==
  ASSUME NEW ags, NEW new, NEW msgs, NEW more, Typed(ags, msgs),
         RoundStep(ags, new, msgs, more), NEW b \in Agent, NEW t \in Task
  PROVE  AtMost(ags[b].prices[t], new[b].prices[t])
<1>1. ASSUME NEW a \in Agent, NEW m \in msgs, Delivered(ags, new, msgs, more, a, m)
      PROVE  AtMost(ags[b].prices[t], new[b].prices[t])
  BY <1>1 DEF AtMost, Delivered
<1>2. ASSUME NEW a \in Agent, Ticked(ags, new, msgs, more, a)
      PROVE  AtMost(ags[b].prices[t], new[b].prices[t])
  <2>1. CASE b # a \/ ~ Outbid(a, ags[a])
    BY <1>2, <2>1 DEF AtMost, Ticked
  <2>2. CASE b = a /\ Outbid(a, ags[a])
    <3>1. PICK bid \in Bids(ags[a]) :
            new[a].prices = Raise(ags[a].prices, bid.task, bid.increment, a)
      BY <1>2, <2>2 DEF Ticked
    <3>2. /\ Below(ags[a].prices[bid.task], new[a].prices[bid.task])
          /\ \A u \in Task \ {bid.task} : new[a].prices[u] = ags[a].prices[u]
      BY <3>1, AgentFields, RaiseResult
    <3> QED
      BY <2>2, <3>2 DEF AtMost
  <2> QED
    BY <2>1, <2>2
<1>3. CASE Loses(ags, new, msgs, more)
  BY <1>3 DEF Loses, AtMost
<1> QED
  BY <1>1, <1>2, <1>3, StepCases

-----------------------------------------------------------------------------
(* Nobody knows more of an agent's bids than the agent itself *)

\* No agent has the id that marks a task without a bid.
LEMMA NotABidder == NO_BIDDER \notin Agent
<1>1. Agent \subseteq Nat
  BY RoundAssumption DEF RoundAssumption
<1> QED
  BY <1>1 DEF NO_BIDDER

\* Every bid reaches the bidder's own table before it is broadcast.
LEMMA StepOwnKnown ==
  ASSUME NEW ags, NEW new, NEW msgs, NEW more,
         Typed(ags, msgs), OwnKnown(ags, msgs), RoundStep(ags, new, msgs, more)
  PROVE  OwnKnown(new, more)
<1>1. Typed(new, more)
  BY StepTyped
\* What the owner a knew of before, it knows of afterwards.
<1>2. ASSUME NEW a \in Agent, NEW t \in Task, NEW e \in Entries(Agent),
             AtMost(e, ags[a].prices[t])
      PROVE  AtMost(e, new[a].prices[t])
  <2>1. ags[a].prices[t] \in Entries(Agent) /\ new[a].prices[t] \in Entries(Agent)
    BY <1>1, AgentFields DEF Typed, AgentStates, Tables
  <2> QED
    BY <1>2, <2>1, EntriesRise, AtMostTransitive
\* An entry of the next state is an old one, an announced one or a new bid.
<1>3. ASSUME NEW b \in Agent, NEW t \in Task
      PROVE  \/ new[b].prices[t] = ags[b].prices[t]
             \/ \E m \in msgs : new[b].prices[t] = m.entries[t]
             \/ new[b].prices[t].bidder = b
  <2>1. ASSUME NEW a \in Agent, NEW m \in msgs, Delivered(ags, new, msgs, more, a, m)
        PROVE  \/ new[b].prices[t] = ags[b].prices[t]
               \/ new[b].prices[t] = m.entries[t]
    BY <2>1 DEF Delivered
  <2>2. ASSUME NEW a \in Agent, Ticked(ags, new, msgs, more, a)
        PROVE  \/ new[b].prices[t] = ags[b].prices[t]
               \/ new[b].prices[t].bidder = b
    <3>1. CASE b # a \/ ~ Outbid(a, ags[a])
      BY <2>2, <3>1 DEF Ticked
    <3>2. CASE b = a /\ Outbid(a, ags[a])
      <4>1. PICK bid \in Bids(ags[a]) :
              new[a].prices = Raise(ags[a].prices, bid.task, bid.increment, a)
        BY <2>2, <3>2 DEF Ticked
      <4> QED
        BY <3>2, <4>1, AgentFields, RaiseResult
    <3> QED
      BY <3>1, <3>2
  <2>3. CASE Loses(ags, new, msgs, more)
    BY <2>3 DEF Loses
  <2> QED
    BY <2>1, <2>2, <2>3, StepCases
<1>4. ASSUME NEW a \in Agent, NEW b \in Agent, NEW t \in Task,
             new[b].prices[t].bidder = a
      PROVE  AtMost(new[b].prices[t], new[a].prices[t])
  <2>1. CASE new[b].prices[t] = ags[b].prices[t]
    BY <1>2, <1>4, <2>1, AgentFields DEF OwnKnown
  <2>2. ASSUME NEW m \in msgs, new[b].prices[t] = m.entries[t]
        PROVE  AtMost(new[b].prices[t], new[a].prices[t])
    BY <1>2, <1>4, <2>2, AgentFields DEF OwnKnown
  <2>3. CASE new[b].prices[t].bidder = b
    BY <1>4, <2>3 DEF AtMost
  <2> QED
    BY <1>3, <2>1, <2>2, <2>3
<1>5. ASSUME NEW a \in Agent, NEW m \in more, NEW t \in Task, m.entries[t].bidder = a
      PROVE  AtMost(m.entries[t], new[a].prices[t])
  <2>1. CASE m \in msgs
    BY <1>2, <1>5, <2>1, AgentFields DEF OwnKnown
  <2>2. ASSUME NEW b \in Agent, m.entries = new[b].prices
        PROVE  AtMost(m.entries[t], new[a].prices[t])
    BY <1>4, <1>5, <2>2
  <2>3. m \in msgs \/ \E b \in Agent : m.entries = new[b].prices
    <3>1. ASSUME NEW b \in Agent, NEW n \in msgs, Delivered(ags, new, msgs, more, b, n)
          PROVE  m \in msgs
      BY <3>1 DEF Delivered
    <3>2. ASSUME NEW b \in Agent, Ticked(ags, new, msgs, more, b)
          PROVE  m \in msgs \/ m.entries = new[b].prices
      BY <3>2 DEF Ticked
    <3>3. CASE Loses(ags, new, msgs, more)
      BY <3>3 DEF Loses
    <3> QED
      BY <3>1, <3>2, <3>3, StepCases
  <2> QED
    BY <2>1, <2>2, <2>3
<1> QED
  BY <1>4, <1>5 DEF OwnKnown

-----------------------------------------------------------------------------
(* One claim per agent, within epsilon of its best alternative *)

\* An agent that holds its task cannot find that task in arriving gossip; an
\* arriving entry that names the agent is none it does not have already.
LEMMA NoGiftFromGossip ==
  ASSUME NEW ags, NEW new, NEW msgs, NEW more, Typed(ags, msgs), OwnKnown(ags, msgs),
         NEW a \in Agent, NEW m \in msgs, Delivered(ags, new, msgs, more, a, m),
         NEW b \in Agent, NEW t \in Task, new[b].prices[t].bidder = b
  PROVE  new[b].prices[t] = ags[b].prices[t]
<1>1. ASSUME new[b].prices[t] = m.entries[t],
             Below(ags[b].prices[t], m.entries[t])
      PROVE  FALSE
  <2>1. AtMost(m.entries[t], ags[b].prices[t])
    BY <1>1 DEF OwnKnown
  <2> QED
    BY <1>1, <2>1, AgentFields, BelowIrreversible
<1> QED
  BY <1>1 DEF Delivered

\* An outbid agent is the bidder of no entry of its own table.
LEMMA OutbidHoldsNothing ==
  ASSUME NEW ags, SingleClaims(ags), NEW a \in Agent, Outbid(a, ags[a])
  PROVE  \A t \in Task : ags[a].prices[t].bidder # a
<1>1. NoTask \notin Task
  BY RoundAssumption DEF RoundAssumption
<1> QED
  BY <1>1 DEF Outbid, SingleClaims

\* Every agent claims one task at a time.
LEMMA StepSingleClaims ==
  ASSUME NEW ags, NEW new, NEW msgs, NEW more, Typed(ags, msgs), OwnKnown(ags, msgs),
         SingleClaims(ags), RoundStep(ags, new, msgs, more)
  PROVE  SingleClaims(new)
<1> SUFFICES ASSUME NEW b \in Agent, NEW t \in Task, new[b].prices[t].bidder = b
             PROVE  new[b].assignment = t
  BY DEF SingleClaims
<1>1. ASSUME NEW a \in Agent, NEW m \in msgs, Delivered(ags, new, msgs, more, a, m)
      PROVE  new[b].assignment = t
  <2>1. new[b].prices[t] = ags[b].prices[t]
    BY <1>1, NoGiftFromGossip
  <2>2. new[b].assignment = ags[b].assignment
    BY <1>1 DEF Delivered
  <2> QED
    BY <2>1, <2>2 DEF SingleClaims
<1>2. ASSUME NEW a \in Agent, Ticked(ags, new, msgs, more, a)
      PROVE  new[b].assignment = t
  <2>1. CASE b # a \/ ~ Outbid(a, ags[a])
    BY <1>2, <2>1 DEF SingleClaims, Ticked
  <2>2. CASE b = a /\ Outbid(a, ags[a])
    <3>1. PICK bid \in Bids(ags[a]) :
            /\ new[a].assignment = bid.task
            /\ new[a].prices =
                 Raise(ags[a].prices, bid.task, bid.increment, a)
      BY <1>2, <2>2 DEF Ticked
    <3>2. t # bid.task => new[a].prices[t] = ags[a].prices[t]
      BY <3>1, AgentFields, RaiseResult
    <3> QED
      BY <2>2, <3>1, <3>2, OutbidHoldsNothing
  <2> QED
    BY <2>1, <2>2
<1>3. CASE Loses(ags, new, msgs, more)
  BY <1>3 DEF Loses, SingleClaims
<1> QED
  BY <1>1, <1>2, <1>3, StepCases

\* No step makes a task worth more to an agent: entries only rise.
LEMMA NetFalls ==
  ASSUME NEW ags, NEW new, NEW msgs, NEW more, Typed(ags, msgs),
         RoundStep(ags, new, msgs, more), NEW a \in Agent, NEW t \in Task
  PROVE  /\ Net(ags[a], t) \in Int
         /\ Net(new[a], t) \in Int
         /\ Net(new[a], t) <= Net(ags[a], t)
         /\ new[a].prices[t] = ags[a].prices[t]
              => Net(new[a], t) = Net(ags[a], t)
<1>1. new[a].benefit = ags[a].benefit
  <2>1. ASSUME NEW b \in Agent, NEW m \in msgs, Delivered(ags, new, msgs, more, b, m)
        PROVE  new[a].benefit = ags[a].benefit
    BY <2>1 DEF Delivered
  <2>2. ASSUME NEW b \in Agent, Ticked(ags, new, msgs, more, b)
        PROVE  new[a].benefit = ags[a].benefit
    BY <2>2 DEF Ticked
  <2>3. CASE Loses(ags, new, msgs, more)
    BY <2>3 DEF Loses
  <2> QED
    BY <2>1, <2>2, <2>3, StepCases
<1>2. ags[a].prices[t] \in Entries(Agent) /\ new[a].prices[t] \in Entries(Agent)
  BY StepTyped, AgentFields DEF Typed, AgentStates, Tables
<1>3. ags[a].benefit[t] \in Int
  BY AgentFields
<1>4. ags[a].prices[t].price \in Nat /\ new[a].prices[t].price \in Nat
  BY <1>2, EntryFields
<1>5. ags[a].prices[t].price <= new[a].prices[t].price
  BY <1>2, <1>4, EntriesRise DEF AtMost, Below
<1> QED
  BY <1>1, <1>3, <1>4, <1>5 DEF Net

\* A bid leaves the slack, which later news of others can only shrink.
LEMMA StepSlack ==
  ASSUME NEW ags, NEW new, NEW msgs, NEW more, Typed(ags, msgs), OwnKnown(ags, msgs),
         Slack(ags), RoundStep(ags, new, msgs, more)
  PROVE  Slack(new)
<1> SUFFICES ASSUME NEW b \in Agent, ~ Outbid(b, new[b]), NEW t \in Task
             PROVE  Net(new[b], new[b].assignment)
                      >= Net(new[b], t) - Epsilon
  BY DEF Slack, Outbid, Net
<1>1. /\ new[b].assignment \in Task
      /\ new[b].prices[new[b].assignment].bidder = b
  <2>1. Typed(new, more)
    BY StepTyped
  <2> QED
    BY <2>1 DEF Outbid, Typed, AgentStates
<1>2. Epsilon \in Nat
  BY RoundConfigAssumption DEF RoundConfigAssumption
\* A step that leaves b's claim as it was can only make the others dearer.
<1>3. ASSUME new[b].assignment = ags[b].assignment,
             new[b].prices[ags[b].assignment] =
               ags[b].prices[ags[b].assignment]
      PROVE  Net(new[b], new[b].assignment) >= Net(new[b], t) - Epsilon
  <2>1. ~ Outbid(b, ags[b])
    BY <1>1, <1>3 DEF Outbid
  <2>2. Net(ags[b], ags[b].assignment) >= Net(ags[b], t) - Epsilon
    BY <2>1 DEF Slack
  <2>3. Net(new[b], ags[b].assignment) = Net(ags[b], ags[b].assignment)
    BY <1>1, <1>3, NetFalls
  <2>4. /\ Net(new[b], t) <= Net(ags[b], t)
        /\ Net(new[b], t) \in Int /\ Net(ags[b], t) \in Int
        /\ Net(ags[b], ags[b].assignment) \in Int
    BY <1>1, <1>3, NetFalls
  <2> QED
    BY <1>2, <1>3, <2>2, <2>3, <2>4
<1>4. ASSUME NEW a \in Agent, NEW m \in msgs, Delivered(ags, new, msgs, more, a, m)
      PROVE  Net(new[b], new[b].assignment) >= Net(new[b], t) - Epsilon
  <2>1. new[b].assignment = ags[b].assignment
    BY <1>4 DEF Delivered
  <2>2. new[b].prices[ags[b].assignment] = ags[b].prices[ags[b].assignment]
    <3>1. \A u \in Task : new[b].prices[u].bidder = b => new[b].prices[u] = ags[b].prices[u]
      BY <1>4, NoGiftFromGossip
    <3> QED
      BY <1>1, <2>1, <3>1
  <2> QED
    BY <1>3, <2>1, <2>2
<1>5. ASSUME NEW a \in Agent, Ticked(ags, new, msgs, more, a)
      PROVE  Net(new[b], new[b].assignment) >= Net(new[b], t) - Epsilon
  <2>1. CASE b # a \/ ~ Outbid(a, ags[a])
    BY <1>3, <1>5, <2>1 DEF Ticked
  <2>2. CASE b = a /\ Outbid(a, ags[a])
    <3>1. PICK bid \in Bids(ags[a]) :
            /\ new[a].assignment = bid.task
            /\ new[a].prices =
                 Raise(ags[a].prices, bid.task, bid.increment, a)
      BY <1>5, <2>2 DEF Ticked
    <3>2. /\ new[a].prices[bid.task].price =
               ags[a].prices[bid.task].price + bid.increment
          /\ t # bid.task => new[a].prices[t] = ags[a].prices[t]
      BY <3>1, AgentFields, RaiseResult
    <3>3. /\ bid.task \in Task /\ bid.increment \in Int
          /\ t # bid.task =>
               Net(ags[a], bid.task) - bid.increment >= Net(ags[a], t) - Epsilon
      BY AgentFields, BidResult
    <3>4. Net(new[a], bid.task) = Net(ags[a], bid.task) - bid.increment
      BY <1>5, <3>2, <3>3, AgentFields, EntryFields DEF Net, Ticked
    <3>5. CASE t = bid.task
      BY <2>2, <3>1, <3>5, <1>2, NetFalls
    <3>6. CASE t # bid.task
      BY <2>2, <3>1, <3>2, <3>3, <3>4, <3>6, NetFalls
    <3> QED
      BY <3>5, <3>6
  <2> QED
    BY <2>1, <2>2
<1>6. CASE Loses(ags, new, msgs, more)
  BY <1>3, <1>6 DEF Loses
<1> QED
  BY <1>4, <1>5, <1>6, StepCases

-----------------------------------------------------------------------------
(* The entries without a bidder, and the whole invariant *)

\* Only a bid replaces an initial entry.
LEMMA StepUnbid ==
  ASSUME NEW ags, NEW new, NEW msgs, NEW more, Typed(ags, msgs),
         UnbidInitial(ags, msgs), RoundStep(ags, new, msgs, more)
  PROVE  UnbidInitial(new, more)
<1>1. ASSUME NEW a \in Agent, NEW m \in msgs, Delivered(ags, new, msgs, more, a, m)
      PROVE  UnbidInitial(new, more)
  <2>1. Unbid(new[a].prices)
    BY <1>1 DEF UnbidInitial, Unbid, Delivered
  <2>2. \A b \in Agent : Unbid(new[b].prices)
    BY <1>1, <2>1 DEF UnbidInitial, Delivered
  <2> QED
    BY <1>1, <2>2 DEF UnbidInitial, Delivered
<1>2. ASSUME NEW a \in Agent, Ticked(ags, new, msgs, more, a)
      PROVE  UnbidInitial(new, more)
  <2>1. Unbid(new[a].prices)
    <3>1. CASE ~ Outbid(a, ags[a])
      BY <1>2, <3>1 DEF UnbidInitial, Ticked
    <3>2. CASE Outbid(a, ags[a])
      <4>1. PICK bid \in Bids(ags[a]) :
              new[a].prices = Raise(ags[a].prices, bid.task, bid.increment, a)
        BY <1>2, <3>2 DEF Ticked
      <4>2. /\ new[a].prices[bid.task].bidder = a
            /\ \A u \in Task \ {bid.task} : new[a].prices[u] = ags[a].prices[u]
        <5>1. ags[a] \in AgentStates
          BY DEF Typed
        <5> QED
          BY <4>1, <5>1, RaiseResult
      <4> QED
        BY <4>2, NotABidder DEF UnbidInitial, Unbid
    <3> QED
      BY <3>1, <3>2
  <2>2. \A b \in Agent : Unbid(new[b].prices)
    BY <1>2, <2>1 DEF UnbidInitial, Ticked
  <2> QED
    BY <1>2, <2>1, <2>2 DEF UnbidInitial, Ticked
<1>3. CASE Loses(ags, new, msgs, more)
  BY <1>3 DEF Loses, UnbidInitial
<1> QED
  BY <1>1, <1>2, <1>3, StepCases

\* A delivery leaves the counter alone and a tick bids before it counts.
LEMMA StepBidFirst ==
  ASSUME NEW ags, NEW new, NEW msgs, NEW more, Typed(ags, msgs), BidFirst(ags),
         RoundStep(ags, new, msgs, more)
  PROVE  BidFirst(new)
<1>1. ASSUME NEW a \in Agent, NEW m \in msgs, Delivered(ags, new, msgs, more, a, m)
      PROVE  BidFirst(new)
  BY <1>1 DEF BidFirst, Delivered
<1>2. ASSUME NEW a \in Agent, Ticked(ags, new, msgs, more, a)
      PROVE  BidFirst(new)
  BY <1>2 DEF BidFirst, Ticked
<1>3. CASE Loses(ags, new, msgs, more)
  BY <1>3 DEF Loses
<1> QED
  BY <1>1, <1>2, <1>3, StepCases

\* Without bids there is nothing an agent could not know, and no claim.
LEMMA InitialRound ==
  ASSUME NEW benefits \in Benefits
  PROVE  RoundInv(NewAgents(benefits), {})
<1> DEFINE ags == NewAgents(benefits)
<1>1. ASSUME NEW a \in Agent
      PROVE  /\ ags[a] \in AgentStates
             /\ \A t \in Task : ags[a].prices[t] = InitialEntry
             /\ ags[a].assignment = NoTask
             /\ ags[a].quiescent = 0
  BY InitialAgents
<1>2. ags = [a \in Agent |-> ags[a]]
  BY DEF NewAgents
<1> HIDE DEF ags
<1>3. Typed(ags, {})
  BY <1>1, <1>2 DEF Typed
<1>4. OwnKnown(ags, {}) /\ SingleClaims(ags)
  BY <1>1, NotABidder DEF OwnKnown, SingleClaims, InitialEntry
<1>5. Slack(ags) /\ UnbidInitial(ags, {}) /\ BidFirst(ags)
  BY <1>1 DEF Slack, Outbid, UnbidInitial, Unbid, BidFirst
<1>6. RoundInv(ags, {})
  BY <1>3, <1>4, <1>5 DEF RoundInv
<1> QED
  BY <1>6 DEF ags

\* The invariant of a round is inductive, whatever its network does.
LEMMA StepKeepsInv ==
  ASSUME NEW ags, NEW new, NEW msgs, NEW more, RoundInv(ags, msgs),
         RoundStep(ags, new, msgs, more)
  PROVE  RoundInv(new, more)
BY StepTyped, StepOwnKnown, StepSingleClaims, StepSlack, StepUnbid, StepBidFirst
   DEF RoundInv

-----------------------------------------------------------------------------
(* The merged table *)

\* Any two entries are comparable,
LEMMA EntriesAreOrdered ==
  ASSUME NEW e \in Entries(Agent), NEW f \in Entries(Agent)
  PROVE  AtMost(e, f) \/ Below(f, e)
BY EntryFields DEF AtMost, Below

\* and none lies at or below another both ways.
LEMMA AtMostAntisymmetric ==
  ASSUME NEW e \in Entries(Agent), NEW f \in Entries(Agent),
         AtMost(e, f), AtMost(f, e)
  PROVE  e = f
BY BelowIrreversible DEF AtMost

\* The highest entry of each task is the merged one.
MergedIsHighest(ags) ==
  \A t \in Task :
    /\ Merged(ags)[t] \in Entries(Agent)
    /\ \E a \in Agent : Merged(ags)[t] = ags[a].prices[t]
    /\ \A b \in Agent : AtMost(ags[b].prices[t], Merged(ags)[t])

\* The merged table exists: it holds the highest entry of each task.
LEMMA MergedTable ==
  ASSUME NEW ags, NEW msgs, Typed(ags, msgs)
  PROVE  MergedIsHighest(ags)
<1> SUFFICES ASSUME NEW t \in Task
             PROVE  /\ Merged(ags)[t] \in Entries(Agent)
                    /\ \E a \in Agent : Merged(ags)[t] = ags[a].prices[t]
                    /\ \A b \in Agent : AtMost(ags[b].prices[t], Merged(ags)[t])
  BY DEF MergedIsHighest
<1> DEFINE E(a) == ags[a].prices[t]
           R == {p \in Agent \X Agent : Below(E(p[1]), E(p[2]))}
<1>1. \A a \in Agent : E(a) \in Entries(Agent)
  BY AgentFields
<1> HIDE DEF E
<1>2. \A a, b \in Agent : <<a, b>> \in R <=> Below(E(a), E(b))
  OBVIOUS
<1>3. \A a \in Agent : ~ Below(E(a), E(a))
  BY <1>1, EntryFields DEF Below
<1>4. \A a, b, c \in Agent : Below(E(a), E(b)) /\ Below(E(b), E(c)) => Below(E(a), E(c))
  BY <1>1, EntryFields DEF Below
<1>5. PICK a \in Agent : \A b \in Agent : ~ Below(E(a), E(b))
  <2> HIDE DEF R
  <2>1. IsFiniteSet(Agent) /\ Agent # {}
    BY RoundAssumption DEF RoundAssumption
  <2>2. \A x, y, z \in Agent : <<x, y>> \in R /\ <<y, z>> \in R => <<x, z>> \in R
    BY <1>2, <1>4
  <2>3. \A x \in Agent : <<x, x>> \notin R
    BY <1>2, <1>3
  <2>4. \E x \in Agent : \A y \in Agent : <<x, y>> \notin R
    BY <2>1, <2>2, <2>3, FiniteSetHasMaximal, Zenon
  <2> QED
    BY <2>4, <1>2
<1>6. \A b \in Agent : AtMost(E(b), E(a))
  BY <1>1, <1>5, EntriesAreOrdered
<1>7. Merged(ags)[t] = CHOOSE e \in {E(b) : b \in Agent} : \A b \in Agent : AtMost(E(b), e)
  BY DEF Merged, E
<1>8. /\ Merged(ags)[t] \in {E(b) : b \in Agent}
      /\ \A b \in Agent : AtMost(E(b), Merged(ags)[t])
  BY <1>6, <1>7
<1> QED
  BY <1>1, <1>8 DEF E

\* The merged table is a function on the tasks.
LEMMA MergedIsTable ==
  ASSUME NEW ags
  PROVE  Merged(ags) = [t \in Task |-> Merged(ags)[t]]
BY DEF Merged

\* An entry some agent has and no agent's exceeds is the merged one.
LEMMA MergedTableUnique ==
  ASSUME NEW ags, NEW msgs, Typed(ags, msgs), NEW t \in Task, NEW e \in Entries(Agent),
         \E a \in Agent : e = ags[a].prices[t],
         \A b \in Agent : AtMost(ags[b].prices[t], e)
  PROVE  Merged(ags)[t] = e
<1>1. MergedIsHighest(ags)
  BY MergedTable
<1>2. AtMost(Merged(ags)[t], e) /\ AtMost(e, Merged(ags)[t])
  BY <1>1 DEF MergedIsHighest
<1>3. Merged(ags)[t] \in Entries(Agent)
  BY <1>1 DEF MergedIsHighest
<1> QED
  BY <1>2, <1>3, AtMostAntisymmetric

\* No message tells anything the merged table does not know.
LEMMA MessagesBelowMerged ==
  ASSUME NEW ags, NEW msgs, Typed(ags, msgs), OwnKnown(ags, msgs),
         UnbidInitial(ags, msgs), NEW m \in msgs, NEW t \in Task
  PROVE  AtMost(m.entries[t], Merged(ags)[t])
<1>0. MergedIsHighest(ags)
  BY MergedTable
<1>1. /\ m.entries[t] \in Entries(Agent)
      /\ Merged(ags)[t] \in Entries(Agent)
      /\ \A b \in Agent : /\ ags[b].prices[t] \in Entries(Agent)
                          /\ AtMost(ags[b].prices[t], Merged(ags)[t])
  <2>1. PICK c \in Agent : TRUE
    BY RoundAssumption DEF RoundAssumption
  <2> QED
    BY <1>0, <2>1, AgentFields DEF MergedIsHighest
<1>2. CASE m.entries[t].bidder \in Agent
  BY <1>1, <1>2, AtMostTransitive DEF OwnKnown
<1>3. CASE m.entries[t].bidder = NO_BIDDER
  <2>1. m.entries[t] = InitialEntry
    BY <1>3 DEF UnbidInitial, Unbid
  <2>2. ~ Below(Merged(ags)[t], InitialEntry)
    <3>1. Merged(ags)[t].bidder = NO_BIDDER \/ Merged(ags)[t].bidder \in Nat
      BY <1>1, RoundAssumption DEF RoundAssumption, Entries
    <3>2. Merged(ags)[t].price \in Nat
      BY <1>1, EntryFields
    <3> QED
      BY <3>1, <3>2 DEF Below, InitialEntry, NO_BIDDER
  <2> QED
    BY <1>1, <2>1, <2>2, EntriesAreOrdered
<1> QED
  BY <1>1, <1>2, <1>3, EntryFields

\* An agent that the merged table names knows so, and holds the task.
LEMMA MergedBidderHolds ==
  ASSUME NEW ags, NEW msgs, Typed(ags, msgs), OwnKnown(ags, msgs), SingleClaims(ags),
         NEW a \in Agent, NEW t \in Task, Merged(ags)[t].bidder = a
  PROVE  /\ ags[a].prices[t] = Merged(ags)[t]
         /\ ags[a].assignment = t
         /\ ~ Outbid(a, ags[a])
<1>1. MergedIsHighest(ags)
  BY MergedTable
<1>2. PICK b \in Agent : Merged(ags)[t] = ags[b].prices[t]
  BY <1>1 DEF MergedIsHighest
<1>3. AtMost(Merged(ags)[t], ags[a].prices[t])
  BY <1>2 DEF OwnKnown
<1>4. AtMost(ags[a].prices[t], Merged(ags)[t]) /\ Merged(ags)[t] \in Entries(Agent)
  BY <1>1 DEF MergedIsHighest
<1>5. ags[a].prices[t] = Merged(ags)[t]
  BY <1>3, <1>4, AgentFields, AtMostAntisymmetric
<1>6. ags[a].assignment = t
  BY <1>5 DEF SingleClaims
<1>7. t # NoTask
  BY RoundAssumption DEF RoundAssumption
<1> QED
  BY <1>5, <1>6, <1>7 DEF Outbid

\* A snapshot of the agents gives none of them two tasks.
LEMMA SnapshotIsSingle ==
  ASSUME NEW ags, NEW msgs, Typed(ags, msgs), OwnKnown(ags, msgs), SingleClaims(ags),
         NEW a \in Agent, NEW t \in Task, NEW u \in Task,
         Merged(ags)[t].bidder = a, Merged(ags)[u].bidder = a
  PROVE  t = u
<1>1. ags[a].assignment = t
  BY MergedBidderHolds
<1>2. ags[a].assignment = u
  BY MergedBidderHolds
<1> QED
  BY <1>1, <1>2

-----------------------------------------------------------------------------
(* Steps of the round as steps of an auction with one table *)

(***************************************************************************)
(* A bid of a in the auction with one table (SerialAuction.tla), from table *)
(* to new: a holds nothing, and overbids one entry.                         *)
(***************************************************************************)
Overbids(table, new, a, t) ==
  /\ Below(table[t], new[t])
  /\ new[t] \in Entries({a}) /\ new[t].bidder = a
  /\ new = [table EXCEPT ![t] = new[t]]

BidsNext(table, new, a) ==
  /\ \A t \in Task : table[t].bidder # a
  /\ \E t \in Task : Overbids(table, new, a, t)

\* While no agent's entry for t rises above the merged one, that one stays.
LEMMA MergedStays ==
  ASSUME NEW ags, NEW new, NEW msgs, NEW more, Typed(ags, msgs),
         RoundStep(ags, new, msgs, more), NEW t \in Task,
         \A b \in Agent : AtMost(new[b].prices[t], Merged(ags)[t])
  PROVE  Merged(new)[t] = Merged(ags)[t]
<1>1. Typed(new, more)
  BY StepTyped
<1>2. MergedIsHighest(ags)
  BY MergedTable
<1>3. Merged(ags)[t] \in Entries(Agent)
  BY <1>2 DEF MergedIsHighest
<1>4. PICK a \in Agent : Merged(ags)[t] = ags[a].prices[t]
  BY <1>2 DEF MergedIsHighest
<1>5. AtMost(ags[a].prices[t], new[a].prices[t])
  BY EntriesRise
<1>6. new[a].prices[t] \in Entries(Agent)
  BY <1>1, AgentFields
<1>7. new[a].prices[t] = Merged(ags)[t]
  BY <1>3, <1>4, <1>5, <1>6, AtMostAntisymmetric
<1> QED
  BY <1>1, <1>3, <1>7, MergedTableUnique

\* Tables equal on every task are equal.
LEMMA SameMerged ==
  ASSUME NEW ags, NEW new, \A t \in Task : Merged(new)[t] = Merged(ags)[t]
  PROVE  Merged(new) = Merged(ags)
BY MergedIsTable

\* A delivery leaves the merged table as it is.
LEMMA DeliverStutters ==
  ASSUME NEW ags, NEW new, NEW msgs, NEW more, RoundInv(ags, msgs),
         RoundStep(ags, new, msgs, more),
         NEW a \in Agent, NEW m \in msgs, Delivered(ags, new, msgs, more, a, m)
  PROVE  Merged(new) = Merged(ags)
<1>1. Typed(ags, msgs) /\ OwnKnown(ags, msgs) /\ UnbidInitial(ags, msgs)
  BY DEF RoundInv
<1>2. MergedIsHighest(ags)
  BY <1>1, MergedTable
<1>3. ASSUME NEW t \in Task PROVE Merged(new)[t] = Merged(ags)[t]
  <2>1. AtMost(m.entries[t], Merged(ags)[t])
    BY <1>1, MessagesBelowMerged
  <2>2. \A b \in Agent : AtMost(new[b].prices[t], Merged(ags)[t])
    BY <1>2, <2>1 DEF MergedIsHighest, Delivered
  <2> QED
    BY <1>1, <2>2, MergedStays
<1> QED
  BY <1>3, SameMerged

\* A tick of an agent that is not outbid leaves all tables as they are,
LEMMA HolderStutters ==
  ASSUME NEW ags, NEW new, NEW msgs, NEW more, Typed(ags, msgs),
         RoundStep(ags, new, msgs, more),
         NEW a \in Agent, Ticked(ags, new, msgs, more, a), ~ Outbid(a, ags[a])
  PROVE  Merged(new) = Merged(ags)
<1>1. MergedIsHighest(ags)
  BY MergedTable
<1>2. ASSUME NEW t \in Task PROVE Merged(new)[t] = Merged(ags)[t]
  <2>1. \A b \in Agent : AtMost(new[b].prices[t], Merged(ags)[t])
    BY <1>1 DEF MergedIsHighest, Ticked
  <2> QED
    BY <2>1, MergedStays
<1> QED
  BY <1>2, SameMerged

\* and that of an outbid one is the next bid, or overtaken before it is heard of.
LEMMA BidderBidsOrStutters ==
  ASSUME NEW ags, NEW new, NEW msgs, NEW more, RoundInv(ags, msgs),
         RoundStep(ags, new, msgs, more),
         NEW a \in Agent, Ticked(ags, new, msgs, more, a), Outbid(a, ags[a])
  PROVE  BidsNext(Merged(ags), Merged(new), a) \/ Merged(new) = Merged(ags)
<1>1. Typed(ags, msgs) /\ OwnKnown(ags, msgs) /\ SingleClaims(ags)
  BY DEF RoundInv
<1>2. Typed(new, more)
  BY <1>1, StepTyped
<1>3. MergedIsHighest(ags)
  BY <1>1, MergedTable
<1>4. \A t \in Task, b \in Agent : AtMost(ags[b].prices[t], Merged(ags)[t])
  BY <1>3 DEF MergedIsHighest
<1>5. PICK bid \in Bids(ags[a]) :
        new[a].prices = Raise(ags[a].prices, bid.task, bid.increment, a)
  BY DEF Ticked
<1> DEFINE s == bid.task
           e == new[a].prices[s]
<1>6. /\ s \in Task
      /\ e.bidder = a
      /\ \A t \in Task \ {s} : new[a].prices[t] = ags[a].prices[t]
  <2>1. ags[a] \in AgentStates
    BY <1>1 DEF Typed
  <2>2. s \in Task
    BY <2>1, BidResult
  <2> QED
    BY <1>5, <2>1, <2>2, RaiseResult
<1>7. \A b \in Agent \ {a} : new[b] = ags[b]
  BY DEF Ticked
<1>8. \A b \in Agent : new[b].prices[s] \in Entries(Agent)
  BY <1>2, <1>6, AgentFields
<1>9. e \in Entries(Agent) /\ Merged(ags)[s] \in Entries(Agent)
  BY <1>3, <1>6, <1>8 DEF MergedIsHighest
<1>10. ASSUME NEW t \in Task \ {s} PROVE Merged(new)[t] = Merged(ags)[t]
  <2>1. \A b \in Agent : new[b].prices[t] = ags[b].prices[t]
    BY <1>6, <1>7
  <2>2. \A b \in Agent : AtMost(new[b].prices[t], Merged(ags)[t])
    BY <1>4, <2>1
  <2> QED
    BY <1>1, <2>2, MergedStays
<1> HIDE DEF s, e
\* Somebody's bid that a has not heard of is at least as high.
<1>11. CASE AtMost(e, Merged(ags)[s])
  <2>1. \A b \in Agent : AtMost(new[b].prices[s], Merged(ags)[s])
    BY <1>4, <1>6, <1>7, <1>11 DEF e
  <2>2. Merged(new)[s] = Merged(ags)[s]
    BY <1>1, <1>6, <2>1, MergedStays
  <2> QED
    BY <1>10, <2>2, SameMerged
<1>12. CASE Below(Merged(ags)[s], e)
  <2>1. ASSUME NEW b \in Agent PROVE AtMost(new[b].prices[s], e)
    <3>1. CASE b = a
      BY <3>1 DEF AtMost, e
    <3>2. CASE b # a
      <4>1. AtMost(new[b].prices[s], Merged(ags)[s])
        BY <1>4, <1>6, <1>7, <3>2
      <4>2. AtMost(Merged(ags)[s], e)
        BY <1>12 DEF AtMost
      <4> QED
        BY <1>8, <1>9, <4>1, <4>2, AtMostTransitive
    <3> QED
      BY <3>1, <3>2
  <2>2. Merged(new)[s] = e
    BY <1>2, <1>6, <1>9, <2>1, MergedTableUnique DEF e
  <2>3. e \in Entries({a})
    BY <1>6, <1>9 DEF Entries
  <2>4. Merged(new) = [Merged(ags) EXCEPT ![s] = Merged(new)[s]]
    BY <1>10, MergedIsTable
  <2>5. Overbids(Merged(ags), Merged(new), a, s)
    BY <1>6, <1>12, <2>2, <2>3, <2>4 DEF Overbids
  <2>6. \A t \in Task : Merged(ags)[t].bidder # a
    BY <1>1, MergedBidderHolds
  <2> QED
    BY <1>6, <2>5, <2>6 DEF BidsNext
<1> QED
  BY <1>9, <1>11, <1>12, EntriesAreOrdered

\* Every step of the round bids in the auction with one table, or stutters.
LEMMA StepBidsOrStutters ==
  ASSUME NEW ags, NEW new, NEW msgs, NEW more, RoundInv(ags, msgs),
         RoundStep(ags, new, msgs, more)
  PROVE  \/ \E a \in Agent : BidsNext(Merged(ags), Merged(new), a)
         \/ Merged(new) = Merged(ags)
<1>1. Typed(ags, msgs)
  BY DEF RoundInv
<1>2. ASSUME NEW a \in Agent, NEW m \in msgs, Delivered(ags, new, msgs, more, a, m)
      PROVE  Merged(new) = Merged(ags)
  BY <1>2, DeliverStutters
<1>3. ASSUME NEW a \in Agent, Ticked(ags, new, msgs, more, a)
      PROVE  BidsNext(Merged(ags), Merged(new), a) \/ Merged(new) = Merged(ags)
  BY <1>1, <1>3, HolderStutters, BidderBidsOrStutters
<1>4. CASE Loses(ags, new, msgs, more)
  BY <1>4 DEF Loses
<1> QED
  BY <1>1, <1>2, <1>3, <1>4, StepCases

\* The merged table starts without bids.
LEMMA InitialMerged ==
  ASSUME NEW benefits \in Benefits
  PROVE  Merged(NewAgents(benefits)) = InitialTable(Task)
<1> DEFINE ags == NewAgents(benefits)
<1>1. \A a \in Agent, t \in Task : ags[a].prices[t] = InitialEntry
  BY InitialAgents
<1>2. Typed(ags, {})
  BY InitialRound DEF RoundInv
<1> HIDE DEF ags
<1>3. MergedIsHighest(ags)
  BY <1>2, MergedTable
<1>4. \A t \in Task : Merged(ags)[t] = InitialEntry
  BY <1>1, <1>3 DEF MergedIsHighest
<1>5. Merged(ags) = InitialTable(Task)
  BY <1>4, MergedIsTable DEF InitialTable
<1> QED
  BY <1>5 DEF ags

-----------------------------------------------------------------------------
(* The bid that an outbid agent places *)

\* The scan of _place_bid over a non-empty set of tasks ends with one of them.
LEMMA ScanEnds ==
  ASSUME NEW ag \in AgentStates, NEW S \in SUBSET Task, S # {}
  PROVE  Best(ag, S) # {}
<1> DEFINE R == {p \in S \X S : ScansAhead(ag, p[2], p[1])}
<1>1. ASSUME NEW t \in Task PROVE Net(ag, t) \in Int /\ ScanRank[t] \in Int
  <2>1. ScanRank[t] \in Int
    BY RoundAssumption DEF RoundAssumption
  <2> QED
    BY <2>1, EntriesOf, EntryFields DEF Net, AgentStates
<1>2. \A x, y \in S : <<x, y>> \in R <=> ScansAhead(ag, y, x)
  OBVIOUS
<1>3. \A x \in S : ~ ScansAhead(ag, x, x)
  BY <1>1 DEF ScansAhead
<1>4. \A x, y, z \in S : ScansAhead(ag, y, x) /\ ScansAhead(ag, z, y) => ScansAhead(ag, z, x)
  BY <1>1 DEF ScansAhead
<1>5. \A x, y \in S : x # y => ScansAhead(ag, x, y) \/ ScansAhead(ag, y, x)
  <2>1. \A x, y \in S : x # y => ScanRank[x] # ScanRank[y]
    BY RoundAssumption DEF RoundAssumption
  <2> QED
    BY <1>1, <2>1 DEF ScansAhead
<1>6. IsFiniteSet(S)
  <2>1. IsFiniteSet(Task)
    BY RoundAssumption DEF RoundAssumption
  <2> QED
    BY <2>1, FS_Subset, Zenon
<1>7. PICK x \in S : \A y \in S : <<x, y>> \notin R
  <2> HIDE DEF R
  <2>1. \A x, y, z \in S : <<x, y>> \in R /\ <<y, z>> \in R => <<x, z>> \in R
    BY <1>2, <1>4
  <2>2. \A x \in S : <<x, x>> \notin R
    BY <1>2, <1>3
  <2> QED
    BY <1>6, <2>1, <2>2, FiniteSetHasMaximal, Zenon
<1>8. \A y \in S \ {x} : ScansAhead(ag, x, y)
  BY <1>2, <1>5, <1>7
<1> QED
  BY <1>8 DEF Best

\* An agent that is outbid has a bid to place.
LEMMA BidExists ==
  ASSUME NEW ag \in AgentStates
  PROVE  Bids(ag) # {}
<1>1. Task # {} /\ DOMAIN ag.benefit = Task
  BY RoundAssumption DEF RoundAssumption, AgentStates
<1>2. PICK t \in Best(ag, Task) : TRUE
  BY <1>1, ScanEnds
<1>3. t \in Task
  BY <1>2 DEF Best
<1>4. Increments(ag, t) # {}
  <2>1. CASE Task = {t}
    BY <1>1, <2>1 DEF Increments
  <2>2. CASE Task # {t}
    <3>1. Best(ag, Task \ {t}) # {}
      BY <1>3, <2>2, ScanEnds
    <3> QED
      BY <1>1, <2>2, <3>1 DEF Increments
  <2> QED
    BY <2>1, <2>2
<1>5. PICK g \in Increments(ag, t) : TRUE
  BY <1>4
<1>6. [task |-> t, increment |-> g] \in Bids(ag)
  BY <1>1, <1>2, <1>5 DEF Bids
<1> QED
  BY <1>6

-----------------------------------------------------------------------------
(* What a matching on the merged table is worth *)

LEMMA EpsilonInt == Epsilon \in Int
BY RoundConfigAssumption DEF RoundConfigAssumption

Assigned(ags) == [a \in Agent |-> ags[a].assignment]

\* Every agent holds its assignment on the merged table.
HoldsMerged(ags) ==
  \A a \in Agent : /\ ags[a].assignment \in Task
                   /\ Merged(ags)[ags[a].assignment].bidder = a

\* Such agents hold different tasks, and nobody bid on any other.
LEMMA HeldTasks ==
  ASSUME NEW ags, NEW msgs, RoundInv(ags, msgs), HoldsMerged(ags)
  PROVE  /\ Assigned(ags) \in [Agent -> Task]
         /\ \A a, b \in Agent : Assigned(ags)[a] = Assigned(ags)[b] => a = b
         /\ \A t \in Task : (\A a \in Agent : ags[a].assignment # t) =>
                              Merged(ags)[t] = InitialEntry
<1>1. Typed(ags, msgs) /\ OwnKnown(ags, msgs) /\ SingleClaims(ags) /\ UnbidInitial(ags, msgs)
  BY DEF RoundInv
<1>2. Assigned(ags) \in [Agent -> Task]
  BY DEF Assigned, HoldsMerged
<1>3. \A a, b \in Agent : Assigned(ags)[a] = Assigned(ags)[b] => a = b
  BY DEF Assigned, HoldsMerged
<1>4. ASSUME NEW t \in Task, \A a \in Agent : ags[a].assignment # t
      PROVE  Merged(ags)[t] = InitialEntry
  <2>1. MergedIsHighest(ags)
    BY <1>1, MergedTable
  <2>2. ASSUME NEW a \in Agent, Merged(ags)[t].bidder = a PROVE FALSE
    BY <1>1, <1>4, <2>2, MergedBidderHolds
  <2>3. Merged(ags)[t].bidder = NO_BIDDER
    BY <2>1, <2>2, EntryFields DEF MergedIsHighest
  <2>4. PICK c \in Agent : Merged(ags)[t] = ags[c].prices[t]
    BY <2>1 DEF MergedIsHighest
  <2> QED
    BY <1>1, <2>3, <2>4 DEF UnbidInitial, Unbid
<1> QED
  BY <1>2, <1>3, <1>4

\* The merged prices of the tasks a matching takes: no higher in total than
\* those of the tasks that the agents hold.
LEMMA HeldTasksCostMost ==
  ASSUME NEW ags, NEW msgs, RoundInv(ags, msgs), HoldsMerged(ags),
         NEW matching \in Injection(Agent, Task)
  PROVE  SumFunctionOnSet([a \in Agent |-> Merged(ags)[matching[a]].price], Agent)
           <= SumFunctionOnSet(
                [a \in Agent |-> Merged(ags)[Assigned(ags)[a]].price], Agent)
<1> DEFINE p == [t \in Task |-> Merged(ags)[t].price]
           held == Assigned(ags)
           J == {matching[a] : a \in Agent}
           K == {held[a] : a \in Agent}
<1>1. IsFiniteSet(Agent) /\ IsFiniteSet(Task)
  BY RoundAssumption DEF RoundAssumption
<1>2. p \in [Task -> Nat] /\ p \in [Task -> Int]
  <2>1. Typed(ags, msgs)
    BY DEF RoundInv
  <2>2. MergedIsHighest(ags)
    BY <2>1, MergedTable
  <2>3. \A t \in Task : Merged(ags)[t].price \in Nat
    BY <2>2, EntryFields DEF MergedIsHighest
  <2> QED
    BY <2>3
<1>3. /\ matching \in [Agent -> Task]
      /\ \A a, b \in Agent : matching[a] = matching[b] => a = b
  BY DEF Injection, IsInjective
<1>4. /\ held \in [Agent -> Task]
      /\ \A a, b \in Agent : held[a] = held[b] => a = b
      /\ \A t \in Task \ K : p[t] = 0
  <2>1. \A t \in Task : (\A a \in Agent : ags[a].assignment # t) =>
                          Merged(ags)[t] = InitialEntry
    BY HeldTasks
  <2>2. \A t \in Task \ K : p[t] = 0
    BY <2>1 DEF InitialEntry, Assigned
  <2> QED
    BY <2>2, HeldTasks
<1> HIDE DEF held
<1>6. SumFunctionOnSet(p, J) <= SumFunctionOnSet(p, K)
  <2>1. J \in SUBSET Task /\ K \in SUBSET Task
    BY <1>3, <1>4
  <2>2. \A t \in J \ K : p[t] = 0
    BY <1>4, <2>1
  <2> HIDE DEF p, J, K
  <2> QED
    BY <1>1, <1>2, <2>1, <2>2, SumOverMore, Zenon
<1>7. SumFunctionOnSet([a \in Agent |-> p[matching[a]]], Agent) = SumFunctionOnSet(p, J)
  <2> HIDE DEF p
  <2> QED
    BY <1>1, <1>2, <1>3, SumOfImage
<1>8. SumFunctionOnSet([a \in Agent |-> p[held[a]]], Agent) = SumFunctionOnSet(p, K)
  <2> HIDE DEF p
  <2> QED
    BY <1>1, <1>2, <1>4, SumOfImage
<1>9. /\ [a \in Agent |-> p[matching[a]]]
           = [a \in Agent |-> Merged(ags)[matching[a]].price]
      /\ [a \in Agent |-> p[held[a]]]
           = [a \in Agent |-> Merged(ags)[held[a]].price]
  BY <1>3, <1>4
<1> QED
  BY <1>6, <1>7, <1>8, <1>9 DEF held

\* The bound RoundConfig documents, at the merged prices: agents need not know
\* each other's prices, nor that the round is over.
LEMMA MergedMatchingIsNearOptimal ==
  ASSUME NEW ags, NEW msgs, RoundInv(ags, msgs), HoldsMerged(ags),
         NEW matching \in Injection(Agent, Task)
  PROVE  TotalBenefit(ags, matching) <= TotalBenefit(ags, Assigned(ags))
                                          + Cardinality(Agent) * Epsilon
<1> DEFINE held == Assigned(ags)
           f == [a \in Agent |-> ags[a].benefit[matching[a]]]
           p == [a \in Agent |-> Merged(ags)[held[a]].price]
           g == [a \in Agent |-> ags[a].benefit[held[a]]]
           q == [a \in Agent |-> Merged(ags)[matching[a]].price]
           Sum(x) == SumFunctionOnSet(x, Agent)
<1>1. Typed(ags, msgs) /\ OwnKnown(ags, msgs) /\ SingleClaims(ags) /\ Slack(ags)
  BY DEF RoundInv
<1>2. MergedIsHighest(ags)
  BY <1>1, MergedTable
<1>3. ASSUME NEW a \in Agent
      PROVE  /\ matching[a] \in Task
             /\ held[a] \in Task
             /\ held[a] = ags[a].assignment
  BY DEF Injection, Assigned, HoldsMerged
<1>4. /\ f \in [Agent -> Int]
      /\ p \in [Agent -> Int]
      /\ g \in [Agent -> Int]
      /\ q \in [Agent -> Int]
  <2>1. \A a \in Agent : ags[a].benefit \in [Task -> Int]
    BY <1>1 DEF Typed, AgentStates
  <2>2. \A t \in Task : Merged(ags)[t].price \in Int
    BY <1>2, EntryFields DEF MergedIsHighest
  <2> HIDE DEF held
  <2> QED
    BY <1>3, <2>1, <2>2
<1>5. ASSUME NEW a \in Agent PROVE f[a] + p[a] <= g[a] + q[a] + Epsilon
  <2> DEFINE t == held[a]
             u == matching[a]
  <2>0. t \in Task /\ u \in Task /\ t = ags[a].assignment
    BY <1>3
  <2>1. Merged(ags)[t].bidder = a
    BY <1>3 DEF HoldsMerged
  <2> HIDE DEF held, t, u
  <2>2. ~ Outbid(a, ags[a]) /\ ags[a].prices[t] = Merged(ags)[t]
    BY <1>1, <2>0, <2>1, MergedBidderHolds
  <2>3. Net(ags[a], t) >= Net(ags[a], u) - Epsilon
    BY <1>1, <2>0, <2>2 DEF Slack
  <2>4. /\ AtMost(ags[a].prices[u], Merged(ags)[u])
        /\ Merged(ags)[u] \in Entries(Agent)
        /\ ags[a].prices[u] \in Entries(Agent)
    BY <1>1, <1>2, <2>0, AgentFields DEF MergedIsHighest
  <2>5. /\ ags[a].prices[u].price <= Merged(ags)[u].price
        /\ ags[a].prices[u].price \in Int
    BY <2>4, EntryFields DEF AtMost, Below
  <2>6. /\ Net(ags[a], t) = g[a] - p[a]
        /\ Net(ags[a], u) = f[a] - ags[a].prices[u].price
        /\ q[a] = Merged(ags)[u].price
    BY <2>2 DEF Net, t, u
  <2>7. f[a] \in Int /\ p[a] \in Int /\ g[a] \in Int /\ q[a] \in Int
    BY <1>4
  <2> HIDE DEF f, p, g, q
  <2> QED
    BY <2>3, <2>5, <2>6, <2>7, EpsilonInt
<1>6. Sum(f) + Sum(p) <= Sum(g) + Sum(q) + Cardinality(Agent) * Epsilon
  <2>1. IsFiniteSet(Agent)
    BY RoundAssumption DEF RoundAssumption
  <2> HIDE DEF f, p, g, q, held
  <2> QED
    BY <1>4, <1>5, <2>1, SumsCompare, EpsilonInt
<1>7. Sum(q) <= Sum(p)
  BY HeldTasksCostMost
<1>8. TotalBenefit(ags, matching) = Sum(f) /\ TotalBenefit(ags, held) = Sum(g)
  BY DEF TotalBenefit, SumFunction
<1>9. /\ Sum(f) \in Int /\ Sum(p) \in Int /\ Sum(g) \in Int /\ Sum(q) \in Int
      /\ Cardinality(Agent) * Epsilon \in Int
  <2>1. IsFiniteSet(Agent) /\ Cardinality(Agent) \in Nat
    BY RoundAssumption, FS_CardinalityType DEF RoundAssumption
  <2>2. Cardinality(Agent) * Epsilon \in Int
    BY <2>1, EpsilonInt
  <2> HIDE DEF f, p, g, q
  <2> QED
    BY <1>4, <2>1, <2>2, SumSomeElement
<1> HIDE DEF f, p, g, q, Sum
<1> QED
  BY <1>6, <1>7, <1>8, <1>9

-----------------------------------------------------------------------------
(* How far prices can rise *)

\* No agent values a task more than s above another.
SpreadAtMost(ags, s) ==
  \A a \in Agent, t, u \in Task : ags[a].benefit[t] - ags[a].benefit[u] <= s

\* Somebody bid on every task.
AllClaimed(ags) == \A t \in Task : Merged(ags)[t].bidder # NO_BIDDER

\* No price is above s + epsilon, or twice that once every task has a bid.
Capped(ags, s) ==
  \A t \in Task :
    Merged(ags)[t].price <= IF AllClaimed(ags) THEN 2 * (s + Epsilon) ELSE s + Epsilon

PriceInv(ags) == \A s \in Int : SpreadAtMost(ags, s) => Capped(ags, s)

\* A task without a bidder costs nothing, on the merged table and on any other.
LEMMA UnclaimedIsFree ==
  ASSUME NEW ags, NEW msgs, RoundInv(ags, msgs), NEW t \in Task,
         Merged(ags)[t].bidder = NO_BIDDER
  PROVE  /\ Merged(ags)[t] = InitialEntry
         /\ \A a \in Agent : ags[a].prices[t].price = 0
<1>1. Typed(ags, msgs) /\ UnbidInitial(ags, msgs)
  BY DEF RoundInv
<1>2. MergedIsHighest(ags)
  BY <1>1, MergedTable
<1>3. PICK c \in Agent : Merged(ags)[t] = ags[c].prices[t]
  BY <1>2 DEF MergedIsHighest
<1>4. Merged(ags)[t] = InitialEntry
  BY <1>1, <1>3 DEF UnbidInitial, Unbid
<1>5. ASSUME NEW a \in Agent PROVE ags[a].prices[t].price = 0
  <2>1. AtMost(ags[a].prices[t], InitialEntry)
    BY <1>2, <1>4 DEF MergedIsHighest
  <2>2. ags[a].prices[t].price \in Nat
    BY <1>1, AgentFields, EntryFields
  <2> QED
    BY <2>1, <2>2 DEF AtMost, Below, InitialEntry
<1> QED
  BY <1>4, <1>5

\* While an agent is outbid, too few hold tasks for every task to be held.
LEMMA OutbidLeavesATask ==
  ASSUME NEW ags, NEW msgs, RoundInv(ags, msgs), NEW a \in Agent, Outbid(a, ags[a])
  PROVE  ~ AllClaimed(ags)
<1> SUFFICES ASSUME AllClaimed(ags) PROVE FALSE
  OBVIOUS
<1>1. Typed(ags, msgs) /\ OwnKnown(ags, msgs) /\ SingleClaims(ags)
  BY DEF RoundInv
<1>2. MergedIsHighest(ags)
  BY <1>1, MergedTable
<1> DEFINE others == Agent \ {a}
           f == [t \in Task |-> Merged(ags)[t].bidder]
<1>3. ASSUME NEW t \in Task PROVE Merged(ags)[t].bidder \in others
  <2>1. Merged(ags)[t].bidder \in Agent
    BY <1>2, EntryFields DEF MergedIsHighest, AllClaimed
  <2>2. Merged(ags)[t].bidder # a
    BY <1>1, MergedBidderHolds
  <2> QED
    BY <2>1, <2>2
<1>4. ASSUME NEW t \in Task, NEW u \in Task, f[t] = f[u] PROVE t = u
  <2>1. Merged(ags)[t].bidder = Merged(ags)[u].bidder /\ Merged(ags)[t].bidder \in Agent
    BY <1>3, <1>4
  <2> QED
    BY <1>1, <2>1, SnapshotIsSingle
<1>5. f \in Injection(Task, others)
  BY <1>3, <1>4 DEF Injection, IsInjective
<1> HIDE DEF f
<1>6. /\ IsFiniteSet(Agent)
      /\ Cardinality(Agent) <= Cardinality(Task)
  BY RoundAssumption DEF RoundAssumption
<1>7. IsFiniteSet(others) /\ Cardinality(others) = Cardinality(Agent) - 1
  BY <1>6, FS_RemoveElement
<1>8. Cardinality(Task) <= Cardinality(others) /\ IsFiniteSet(Task)
  <2> HIDE DEF others
  <2> QED
    BY <1>5, <1>7, FS_Injection
<1>9. Cardinality(Agent) \in Int /\ Cardinality(Task) \in Int
  BY <1>6, <1>8, FS_CardinalityType
<1> QED
  BY <1>6, <1>7, <1>8, <1>9

\* A bid stays within the spread, plus epsilon, above any other task's price.
LEMMA BidStaysNear ==
  ASSUME NEW ags, NEW msgs, Typed(ags, msgs), NEW s \in Int, SpreadAtMost(ags, s),
         NEW a \in Agent, NEW bid \in Bids(ags[a])
  PROVE  LET price == ags[a].prices[bid.task].price + bid.increment
         IN  /\ \A u \in Task \ {bid.task} : price <= s + Epsilon + ags[a].prices[u].price
             /\ Task = {bid.task} => bid.increment = Epsilon
<1>1. ags[a] \in AgentStates
  BY DEF Typed
<1>2. /\ bid.task \in Task /\ bid.increment \in Int
      /\ \A u \in Task \ {bid.task} :
           Net(ags[a], bid.task) - bid.increment >= Net(ags[a], u) - Epsilon
  BY <1>1, BidResult
<1>3. ASSUME NEW u \in Task \ {bid.task}
      PROVE  ags[a].prices[bid.task].price + bid.increment
               <= s + Epsilon + ags[a].prices[u].price
  <2>1. /\ ags[a].benefit[bid.task] \in Int /\ ags[a].benefit[u] \in Int
        /\ ags[a].prices[bid.task].price \in Int /\ ags[a].prices[u].price \in Int
    BY <1>2, AgentFields, EntryFields
  <2>2. ags[a].benefit[bid.task] - ags[a].benefit[u] <= s
    BY <1>2 DEF SpreadAtMost
  <2> QED
    BY <1>2, <2>1, <2>2, EpsilonInt DEF Net
<1>4. ASSUME Task = {bid.task} PROVE bid.increment = Epsilon
  <2>1. DOMAIN ags[a].benefit = {bid.task}
    BY <1>1, <1>4 DEF AgentStates
  <2>2. PICK t \in Best(ags[a], {bid.task}) :
          \E g \in Increments(ags[a], t) : bid = [task |-> t, increment |-> g]
    BY <2>1 DEF Bids
  <2>3. t = bid.task
    BY <2>2 DEF Best
  <2>4. Increments(ags[a], t) = {Epsilon}
    BY <2>1, <2>3 DEF Increments
  <2> QED
    BY <2>2, <2>4
<1> QED
  BY <1>3, <1>4

\* A step other than a bid changes no merged entry.
LEMMA OnlyBidsMove ==
  ASSUME NEW ags, NEW new, NEW msgs, NEW more, RoundInv(ags, msgs),
         RoundStep(ags, new, msgs, more)
  PROVE  \/ Merged(new) = Merged(ags)
         \/ \E a \in Agent : Ticked(ags, new, msgs, more, a) /\ Outbid(a, ags[a])
<1>1. Typed(ags, msgs)
  BY DEF RoundInv
<1>2. ASSUME NEW a \in Agent, NEW m \in msgs, Delivered(ags, new, msgs, more, a, m)
      PROVE  Merged(new) = Merged(ags)
  BY <1>2, DeliverStutters
<1>3. ASSUME NEW a \in Agent, Ticked(ags, new, msgs, more, a), ~ Outbid(a, ags[a])
      PROVE  Merged(new) = Merged(ags)
  BY <1>1, <1>3, HolderStutters
<1>4. CASE Loses(ags, new, msgs, more)
  BY <1>4 DEF Loses
<1> QED
  BY <1>1, <1>2, <1>3, <1>4, StepCases

\* A merged entry after a bid is the old one or the bid.
LEMMA MergedAfterBid ==
  ASSUME NEW ags, NEW new, NEW msgs, NEW more, RoundInv(ags, msgs),
         RoundStep(ags, new, msgs, more), NEW a \in Agent, NEW bid \in Bids(ags[a]),
         new[a].prices = Raise(ags[a].prices, bid.task, bid.increment, a),
         \A b \in Agent \ {a} : new[b] = ags[b], NEW t \in Task
  PROVE  \/ Merged(new)[t].price <= Merged(ags)[t].price
         \/ /\ t = bid.task
            /\ Merged(new)[t].price = ags[a].prices[t].price + bid.increment
<1>1. Typed(ags, msgs) /\ Typed(new, more)
  BY StepTyped DEF RoundInv
<1>2. MergedIsHighest(ags) /\ MergedIsHighest(new)
  BY <1>1, MergedTable
<1>3. PICK c \in Agent : Merged(new)[t] = new[c].prices[t]
  BY <1>2 DEF MergedIsHighest
<1>4. CASE c = a /\ t = bid.task
  <2>1. ags[a] \in AgentStates
    BY <1>1 DEF Typed
  <2> QED
    BY <1>3, <1>4, <2>1, RaiseResult
<1>5. CASE ~ (c = a /\ t = bid.task)
  <2>1. new[c].prices[t] = ags[c].prices[t]
    <3>1. ags[a] \in AgentStates
      BY <1>1 DEF Typed
    <3>2. \A u \in Task \ {bid.task} : new[a].prices[u] = ags[a].prices[u]
      BY <3>1, RaiseResult
    <3> QED
      BY <1>5, <3>2
  <2>2. AtMost(ags[c].prices[t], Merged(ags)[t])
    BY <1>2 DEF MergedIsHighest
  <2>3. ags[c].prices[t] \in Entries(Agent) /\ Merged(ags)[t] \in Entries(Agent)
    BY <1>1, <1>2, AgentFields DEF MergedIsHighest
  <2> QED
    BY <1>3, <2>1, <2>2, <2>3, EntryFields DEF AtMost, Below
<1> QED
  BY <1>4, <1>5

\* A task that somebody bid on is never free again.
LEMMA ClaimedForGood ==
  ASSUME NEW ags, NEW new, NEW msgs, NEW more, RoundInv(ags, msgs),
         RoundStep(ags, new, msgs, more), NEW t \in Task,
         Merged(new)[t].bidder = NO_BIDDER
  PROVE  Merged(ags)[t].bidder = NO_BIDDER
<1>1. RoundInv(new, more)
  BY StepKeepsInv
<1>2. Typed(ags, msgs)
  BY DEF RoundInv
<1>3. MergedIsHighest(ags)
  BY <1>2, MergedTable
<1>4. MergedIsHighest(new)
  BY <1>1, MergedTable DEF RoundInv
<1>5. PICK c \in Agent : Merged(ags)[t] = ags[c].prices[t]
  BY <1>3 DEF MergedIsHighest
<1>6. /\ AtMost(ags[c].prices[t], new[c].prices[t])
      /\ AtMost(new[c].prices[t], InitialEntry)
  <2>1. Merged(new)[t] = InitialEntry
    BY <1>1, UnclaimedIsFree
  <2> QED
    BY <1>2, <1>4, <2>1, EntriesRise DEF MergedIsHighest
<1>7. /\ ags[c].prices[t] \in Entries(Agent)
      /\ new[c].prices[t] \in Entries(Agent)
      /\ InitialEntry \in Entries(Agent)
  BY <1>1, <1>2, AgentFields DEF RoundInv, InitialEntry, Entries
<1>8. AtMost(ags[c].prices[t], InitialEntry)
  BY <1>6, <1>7, AtMostTransitive
<1>9. ags[c].prices[t].bidder = NO_BIDDER \/ ags[c].prices[t].bidder \in Nat
  BY <1>7, RoundAssumption DEF RoundAssumption, Entries
<1>10. ags[c].prices[t].price \in Nat
  BY <1>7, EntryFields
<1> QED
  BY <1>5, <1>8, <1>9, <1>10 DEF AtMost, Below, InitialEntry, NO_BIDDER

(***************************************************************************)
(* A bid stays below the cap.  Some task is still free to the bidder; if it *)
(* is another one than the bid's, that one's price of 0 keeps the bid below *)
(* the lower cap, and if it is the only one, every task has a bid then.     *)
(***************************************************************************)
LEMMA BidKeepsCap ==
  ASSUME NEW ags, NEW new, NEW msgs, NEW more, RoundInv(ags, msgs),
         RoundStep(ags, new, msgs, more), NEW a \in Agent, Outbid(a, ags[a]),
         Ticked(ags, new, msgs, more, a),
         NEW s \in Int, SpreadAtMost(ags, s), Capped(ags, s)
  PROVE  Capped(new, s)
<1>1. Typed(ags, msgs)
  BY DEF RoundInv
<1>2. PICK bid \in Bids(ags[a]) :
        new[a].prices = Raise(ags[a].prices, bid.task, bid.increment, a)
  BY DEF Ticked
<1>3. ags[a] \in AgentStates
  BY <1>1 DEF Typed
<1>4. bid.task \in Task /\ bid.increment \in Int
  BY <1>3, BidResult
<1>5. \A b \in Agent \ {a} : new[b] = ags[b]
  BY DEF Ticked
<1>6. MergedIsHighest(ags) /\ MergedIsHighest(new)
  BY <1>1, StepTyped, MergedTable
<1>7. \A t \in Task : Merged(ags)[t].price <= s + Epsilon
  BY OutbidLeavesATask DEF Capped
<1>8. s >= 0 /\ Epsilon \in Int /\ Epsilon >= 0
  <2>1. PICK t \in Task : TRUE
    BY RoundAssumption DEF RoundAssumption
  <2>2. ags[a].benefit[t] - ags[a].benefit[t] <= s /\ ags[a].benefit[t] \in Int
    BY <1>1, <2>1, AgentFields DEF SpreadAtMost
  <2> QED
    BY <2>2, RoundConfigAssumption DEF RoundConfigAssumption
<1>9. ASSUME NEW t \in Task
      PROVE  Merged(new)[t].price \in Int /\ Merged(ags)[t].price \in Int
  BY <1>6, EntryFields DEF MergedIsHighest
<1> DEFINE price == ags[a].prices[bid.task].price + bid.increment
<1>10. ASSUME NEW t \in Task, NEW cap \in Int, price <= cap, s + Epsilon <= cap
       PROVE  Merged(new)[t].price <= cap
  <2>1. \/ Merged(new)[t].price <= Merged(ags)[t].price
        \/ Merged(new)[t].price = price
    BY <1>2, <1>5, MergedAfterBid
  <2> HIDE DEF price
  <2> QED
    BY <1>7, <1>8, <1>9, <1>10, <2>1
<1>11. ASSUME NEW u \in Task \ {bid.task}
       PROVE  price <= s + Epsilon + ags[a].prices[u].price
  BY <1>1, BidStaysNear
<1>12. price \in Int
  BY <1>1, <1>4, AgentFields, EntryFields
<1> HIDE DEF price
<1>13. CASE \E u \in Task \ {bid.task} : Merged(ags)[u].bidder = NO_BIDDER
  <2>1. PICK u \in Task \ {bid.task} : Merged(ags)[u].bidder = NO_BIDDER
    BY <1>13
  <2>2. ags[a].prices[u].price = 0
    BY <2>1, UnclaimedIsFree
  <2>3. price <= s + Epsilon
    BY <1>8, <1>11, <2>2
  <2>4. \A t \in Task : Merged(new)[t].price <= s + Epsilon
    BY <1>8, <1>10, <2>3
  <2> QED
    BY <1>8, <1>9, <2>4 DEF Capped
<1>14. CASE \A u \in Task \ {bid.task} : Merged(ags)[u].bidder # NO_BIDDER
  <2>1. Merged(ags)[bid.task].bidder = NO_BIDDER
    BY <1>14, OutbidLeavesATask DEF AllClaimed
  <2>2. ags[a].prices[bid.task].price = 0
    BY <1>4, <2>1, UnclaimedIsFree
  <2>3. price <= 2 * (s + Epsilon)
    <3>1. CASE Task = {bid.task}
      <4>1. bid.increment = Epsilon
        BY <1>1, <3>1, BidStaysNear
      <4> QED
        BY <1>8, <2>2, <4>1 DEF price
    <3>2. CASE Task # {bid.task}
      <4>1. PICK u \in Task \ {bid.task} : TRUE
        BY <1>4, <3>2
      <4>2. /\ AtMost(ags[a].prices[u], Merged(ags)[u])
            /\ ags[a].prices[u] \in Entries(Agent)
            /\ Merged(ags)[u] \in Entries(Agent)
        BY <1>1, <1>6, AgentFields DEF MergedIsHighest
      <4>3. /\ ags[a].prices[u].price <= Merged(ags)[u].price
            /\ ags[a].prices[u].price \in Int
        BY <4>2, EntryFields DEF AtMost, Below
      <4> QED
        BY <1>7, <1>8, <1>9, <1>11, <1>12, <4>3
    <3> QED
      BY <3>1, <3>2
  <2>4. AllClaimed(new)
    <3>1. ASSUME NEW t \in Task, Merged(new)[t].bidder = NO_BIDDER PROVE FALSE
      <4>1. Merged(ags)[t].bidder = NO_BIDDER
        BY <3>1, ClaimedForGood
      <4>2. t = bid.task
        BY <1>14, <4>1
      <4>3. RoundInv(new, more)
        BY StepKeepsInv
      <4>4. new[a].prices[t].price = 0
        BY <3>1, <4>3, UnclaimedIsFree
      <4>5. new[a].prices[t].price = ags[a].prices[t].price + bid.increment
        BY <1>2, <1>3, <4>2, RaiseResult
      <4>6. bid.increment >= Epsilon /\ Epsilon >= 1
        BY <1>3, BidResult, RoundConfigAssumption DEF RoundConfigAssumption
      <4> QED
        BY <1>4, <1>8, <2>2, <4>2, <4>4, <4>5, <4>6
    <3> QED
      BY <3>1 DEF AllClaimed
  <2>5. \A t \in Task : Merged(new)[t].price <= 2 * (s + Epsilon)
    BY <1>8, <1>10, <2>3
  <2> QED
    BY <2>4, <2>5 DEF Capped
<1> QED
  BY <1>13, <1>14

\* The benefits a round was called with.
BenefitsOf(ags) == [a \in Agent |-> ags[a].benefit]

\* They are frozen.
LEMMA BenefitsStay ==
  ASSUME NEW ags, NEW new, NEW msgs, NEW more, Typed(ags, msgs),
         RoundStep(ags, new, msgs, more)
  PROVE  /\ \A b \in Agent : new[b].benefit = ags[b].benefit
         /\ BenefitsOf(new) = BenefitsOf(ags)
<1>1. ASSUME NEW a \in Agent, NEW m \in msgs, Delivered(ags, new, msgs, more, a, m)
      PROVE  \A b \in Agent : new[b].benefit = ags[b].benefit
  BY <1>1 DEF Delivered
<1>2. ASSUME NEW a \in Agent, Ticked(ags, new, msgs, more, a)
      PROVE  \A b \in Agent : new[b].benefit = ags[b].benefit
  BY <1>2 DEF Ticked
<1>3. CASE Loses(ags, new, msgs, more)
  BY <1>3 DEF Loses
<1>4. \A b \in Agent : new[b].benefit = ags[b].benefit
  BY <1>1, <1>2, <1>3, StepCases
<1> QED
  BY <1>4 DEF BenefitsOf

LEMMA SpreadStays ==
  ASSUME NEW ags, NEW new, NEW msgs, NEW more, Typed(ags, msgs),
         RoundStep(ags, new, msgs, more), NEW s \in Int, SpreadAtMost(new, s)
  PROVE  SpreadAtMost(ags, s)
BY BenefitsStay DEF SpreadAtMost

\* The cap is inductive,
LEMMA StepKeepsCap ==
  ASSUME NEW ags, NEW new, NEW msgs, NEW more, RoundInv(ags, msgs), PriceInv(ags),
         RoundStep(ags, new, msgs, more)
  PROVE  PriceInv(new)
<1> SUFFICES ASSUME NEW s \in Int, SpreadAtMost(new, s)
             PROVE  Capped(new, s)
  BY DEF PriceInv
<1>1. SpreadAtMost(ags, s)
  BY SpreadStays DEF RoundInv
<1>2. Capped(ags, s)
  BY <1>1 DEF PriceInv
<1>3. CASE Merged(new) = Merged(ags)
  BY <1>2, <1>3 DEF Capped, AllClaimed
<1>4. ASSUME NEW a \in Agent, Ticked(ags, new, msgs, more, a), Outbid(a, ags[a])
      PROVE  Capped(new, s)
  BY <1>1, <1>2, <1>4, BidKeepsCap
<1> QED
  BY <1>3, <1>4, OnlyBidsMove

\* and holds of a round without bids.
LEMMA InitialCap ==
  ASSUME NEW benefits \in Benefits
  PROVE  PriceInv(NewAgents(benefits))
<1> DEFINE ags == NewAgents(benefits)
<1>1. \A t \in Task : Merged(ags)[t] = InitialEntry
  BY InitialMerged DEF InitialTable
<1>2. RoundInv(ags, {})
  BY InitialRound
<1> HIDE DEF ags
<1> SUFFICES ASSUME NEW s \in Int, SpreadAtMost(ags, s)
             PROVE  Capped(ags, s)
  BY DEF PriceInv, ags
<1>3. PICK a \in Agent, t \in Task : TRUE
  BY RoundAssumption DEF RoundAssumption
<1>4. ags[a].benefit[t] - ags[a].benefit[t] <= s /\ ags[a].benefit[t] \in Int
  BY <1>2, <1>3, AgentFields DEF SpreadAtMost, RoundInv
<1>5. s >= 0 /\ Epsilon \in Nat
  BY <1>4, RoundConfigAssumption DEF RoundConfigAssumption
<1> QED
  BY <1>1, <1>5 DEF Capped, InitialEntry

\* Nobody's table is above the merged one, and some agent's benefits spread most.
PriceWithin(ags, a, t, factor) ==
  \E b \in Agent, u, w \in Task :
    ags[a].prices[t].price <= factor * (ags[b].benefit[u] - ags[b].benefit[w] + Epsilon)

LEMMA CapOfPrices ==
  ASSUME NEW ags, NEW msgs, RoundInv(ags, msgs), PriceInv(ags),
         NEW factor, factor = IF AllClaimed(ags) THEN 2 ELSE 1,
         NEW a \in Agent, NEW t \in Task
  PROVE  PriceWithin(ags, a, t, factor)
<1>1. Typed(ags, msgs)
  BY DEF RoundInv
<1> DEFINE X == (Agent \X Task) \X Task
           D(x) == ags[x[1][1]].benefit[x[1][2]] - ags[x[1][1]].benefit[x[2]]
           R == {p \in X \X X : D(p[1]) < D(p[2])}
<1>2. \A x \in X : D(x) \in Int
  BY <1>1, AgentFields
<1>3. IsFiniteSet(X) /\ X # {}
  <2>1. IsFiniteSet(Agent) /\ IsFiniteSet(Task) /\ <<<<a, t>>, t>> \in X
    BY RoundAssumption DEF RoundAssumption
  <2>2. IsFiniteSet(Agent \X Task)
    BY <2>1, FS_Product
  <2> QED
    BY <2>1, <2>2, FS_Product
<1> HIDE DEF D
<1>4. \A x, y \in X : <<x, y>> \in R <=> D(x) < D(y)
  <2> HIDE DEF X
  <2> QED
    OBVIOUS
<1>5. PICK x \in X : \A y \in X : ~ (D(x) < D(y))
  <2> HIDE DEF R, X
  <2>1. \A p, q, r \in X : <<p, q>> \in R /\ <<q, r>> \in R => <<p, r>> \in R
    BY <1>2, <1>4
  <2>2. \A p \in X : <<p, p>> \notin R
    BY <1>2, <1>4
  <2>3. \E p \in X : \A q \in X : <<p, q>> \notin R
    BY <1>3, <2>1, <2>2, FiniteSetHasMaximal, Zenon
  <2> QED
    BY <1>4, <2>3
<1>6. D(x) \in Int
  BY <1>2
<1>7. SpreadAtMost(ags, D(x))
  <2> SUFFICES ASSUME NEW b \in Agent, NEW u \in Task, NEW w \in Task
               PROVE  ags[b].benefit[u] - ags[b].benefit[w] <= D(x)
    BY DEF SpreadAtMost
  <2>1. <<<<b, u>>, w>> \in X
    OBVIOUS
  <2>2. D(<<<<b, u>>, w>>) \in Int /\ ~ (D(x) < D(<<<<b, u>>, w>>))
    BY <1>2, <1>5, <2>1
  <2>3. D(<<<<b, u>>, w>>) = ags[b].benefit[u] - ags[b].benefit[w]
    BY DEF D
  <2> QED
    BY <1>6, <2>2, <2>3
<1>8. Merged(ags)[t].price <= factor * (D(x) + Epsilon)
  BY <1>6, <1>7, EpsilonInt DEF PriceInv, Capped
<1>9. ags[a].prices[t].price <= Merged(ags)[t].price
  <2>1. MergedIsHighest(ags)
    BY <1>1, MergedTable
  <2>2. AtMost(ags[a].prices[t], Merged(ags)[t]) /\ Merged(ags)[t] \in Entries(Agent)
    BY <2>1 DEF MergedIsHighest
  <2>3. ags[a].prices[t] \in Entries(Agent)
    BY <1>1, AgentFields
  <2> QED
    BY <2>2, <2>3, EntryFields DEF AtMost, Below
<1>10. PICK b \in Agent, u \in Task, w \in Task : x = <<<<b, u>>, w>>
  OBVIOUS
<1>11. D(x) = ags[b].benefit[u] - ags[b].benefit[w]
  BY <1>10 DEF D
<1>12. /\ ags[a].prices[t].price \in Int /\ Merged(ags)[t].price \in Int
       /\ factor * (D(x) + Epsilon) \in Int
  <2>1. MergedIsHighest(ags)
    BY <1>1, MergedTable
  <2>2. Merged(ags)[t] \in Entries(Agent) /\ ags[a].prices[t] \in Entries(Agent)
    BY <1>1, <2>1, AgentFields DEF MergedIsHighest
  <2> QED
    BY <1>6, <2>2, EntryFields, EpsilonInt
<1>13. ags[a].prices[t].price <= factor * (D(x) + Epsilon)
  BY <1>8, <1>9, <1>12
<1> QED
  BY <1>11, <1>13 DEF PriceWithin

=============================================================================

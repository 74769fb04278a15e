--------------------------- MODULE AuctionAgents ---------------------------
(***************************************************************************)
(* The per-agent auction engine of auction_core/auction/engine.py           *)
(* (Zavlanos et al., Algorithm 1) as operators on an agent's state, a       *)
(* record with the fields of class AuctionAgent:                            *)
(*   benefit     _benefits, frozen for the round                            *)
(*   prices      the agent's own price table                                *)
(*   assignment  the task it believes it holds, or NoTask                   *)
(*   quiescent   _quiescent_ticks, counted up to QuiescenceRounds only: the *)
(*               code only ever compares it with that bound                 *)
(*   dirty       _dirty                                                     *)
(* Modules with several agents apply these operators to the agent's state.  *)
(***************************************************************************)
EXTENDS PriceTables

CONSTANTS
  NoTask,            \* assignment of an agent that never bid (None)
  Epsilon,           \* RoundConfig.epsilon, the minimum bid increment
  QuiescenceRounds,  \* RoundConfig.quiescence_rounds
  ScanRank           \* position of each task in the benefit dict

\* RoundConfig.__post_init__ rejects anything else.
ASSUME RoundConfigAssumption ==
  /\ Epsilon \in Nat \ {0}
  /\ QuiescenceRounds \in Nat \ {0}

NewAgent(benefit) ==
  [ benefit    |-> benefit,
    prices     |-> InitialTable(DOMAIN benefit),
    assignment |-> NoTask,
    quiescent  |-> 0,
    dirty      |-> TRUE ]

-----------------------------------------------------------------------------
(* Inputs *)

\* Fault: news does not mark the table as changed.
HandleMessageQuietly(id, ag, msg) ==
  IF msg.sender = id THEN ag ELSE [ag EXCEPT !.prices = Merge(@, msg.entries)]

HandleMessage(id, ag, msg) ==
  LET merged == Merge(ag.prices, msg.entries)
  IN  IF msg.sender = id
      THEN ag
      ELSE [ag EXCEPT !.prices = merged, !.dirty = @ \/ merged # ag.prices]

-----------------------------------------------------------------------------
(* Logic *)

Net(ag, t) == ag.benefit[t] - ag.prices[t].price

\* The scan of _place_bid keeps the first task seen among equal net values.
ScansAhead(ag, t, u) ==
  \/ Net(ag, t) > Net(ag, u)
  \/ Net(ag, t) = Net(ag, u) /\ ScanRank[t] < ScanRank[u]

\* The task that ends the scan of S as the best: a singleton, S being finite.
Best(ag, S) == {t \in S : \A u \in S \ {t} : ScansAhead(ag, t, u)}

\* Faults: any increment but v - w + epsilon, a missing outbid test, a
\* quiescence counter that a change does not reset.
IncrementsByNet(ag, t) == {Net(ag, t) + Epsilon}

IncrementsReversed(ag, t) ==
  {Net(ag, u) - Net(ag, t) + Epsilon : u \in Best(ag, DOMAIN ag.benefit \ {t})}

IncrementsDoubled(ag, t) ==
  IF DOMAIN ag.benefit = {t}
  THEN {Epsilon}
  ELSE {2 * (Net(ag, t) - Net(ag, u)) + Epsilon :
          u \in Best(ag, DOMAIN ag.benefit \ {t})}

OutbidAlways(id, ag) == TRUE

OutbidNever(id, ag) == ag.assignment = NoTask

\* gamma = v - w + epsilon, or epsilon when there is no second task.
Increments(ag, t) ==
  IF DOMAIN ag.benefit = {t}
  THEN {Epsilon}
  ELSE {Net(ag, t) - Net(ag, u) + Epsilon :
          u \in Best(ag, DOMAIN ag.benefit \ {t})}

\* Every bid the scan can end with: exactly one over a finite task set.
Bids(ag) ==
  UNION {{[task |-> t, increment |-> g] : g \in Increments(ag, t)} :
           t \in Best(ag, DOMAIN ag.benefit)}

Outbid(id, ag) ==
  \/ ag.assignment = NoTask
  \/ ag.prices[ag.assignment].bidder # id

\* The bid half of tick(): _place_bid and the _dirty flag it sets.
PlaceBid(id, ag, bid) ==
  [ag EXCEPT !.prices     = Raise(@, bid.task, bid.increment, id),
             !.assignment = bid.task,
             !.dirty      = TRUE]

SettleKeepsCount(ag) ==
  [ag EXCEPT !.dirty = FALSE,
             !.quiescent = IF @ < QuiescenceRounds THEN @ + 1 ELSE @]

\* The quiescence half of tick().
Settle(ag) ==
  IF ag.dirty
  THEN [ag EXCEPT !.quiescent = 0, !.dirty = FALSE]
  ELSE [ag EXCEPT !.quiescent = IF @ < QuiescenceRounds THEN @ + 1 ELSE @]

\* The states tick() can leave the agent in.
AfterTick(id, ag) ==
  IF Outbid(id, ag)
  THEN {Settle(PlaceBid(id, ag, bid)) : bid \in Bids(ag)}
  ELSE {Settle(ag)}

Terminated(ag) == ag.quiescent >= QuiescenceRounds

TableMessage(id, ag) == [sender |-> id, entries |-> ag.prices]

\* What tick() returns, given the state it leaves: nothing once terminated.
Broadcasts(id, ag) == IF Terminated(ag) THEN {} ELSE {TableMessage(id, ag)}

=============================================================================

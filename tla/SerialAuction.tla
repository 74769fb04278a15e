--------------------------- MODULE SerialAuction ---------------------------
(***************************************************************************)
(* What a round of the distributed auction promises, seen as one auction    *)
(* with one price table: agents take turns, an agent bids only while it     *)
(* holds no task, and a bid overbids one task.  Gossip, stale tables and    *)
(* bids nobody ever hears of do not exist at this level.                    *)
(***************************************************************************)
EXTENDS PriceTables

CONSTANTS Agent, Task

VARIABLE table

Init == table = InitialTable(Task)

Holds(a, t) == table[t].bidder = a

Overbid(a, t) ==
  /\ Below(table[t], table'[t])
  /\ table'[t] \in Entries({a}) /\ table'[t].bidder = a
  /\ table' = [table EXCEPT ![t] = table'[t]]

Bid(a) ==
  /\ \A t \in Task : ~ Holds(a, t)
  /\ \E t \in Task : Overbid(a, t)

Next == \E a \in Agent : Bid(a)

Spec == Init /\ [][Next]_table

(***************************************************************************)
(* At most one task per agent: an agent is the highest bidder of no two     *)
(* tasks, as one that holds a task does not bid (tick() of engine.py).      *)
(***************************************************************************)
OneTaskEach ==
  \A a \in Agent, t, u \in Task : Holds(a, t) /\ Holds(a, u) => t = u

=============================================================================

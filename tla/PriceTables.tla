---------------------------- MODULE PriceTables ----------------------------
(***************************************************************************)
(* The local price table of auction_core/auction/prices.py over the        *)
(* PriceEntry values of auction_core/types.py: operators on tables, no      *)
(* state of its own.  A table is a function from the task ids of the round  *)
(* to entries.  Prices, benefits and the bid increment are integers here,   *)
(* in units of some quantum of the program's floats.                        *)
(***************************************************************************)
EXTENDS Integers

\* The bidder of a task nobody has bid on; real agent ids are >= 0.
NO_BIDDER == -1

Entries(bidders) == [price : Nat, bidder : bidders \cup {NO_BIDDER}]

InitialEntry == [price |-> 0, bidder |-> NO_BIDDER]

InitialTable(tasks) == [t \in tasks |-> InitialEntry]

\* PriceEntry's dataclass order: by price, then by bidder.
Below(e, f) ==
  \/ e.price < f.price
  \/ e.price = f.price /\ e.bidder < f.bidder

AtMost(e, f) == e = f \/ Below(e, f)

-----------------------------------------------------------------------------
(***************************************************************************)
(* Plausible faults, substituted one at a time for the operator in the name *)
(* to confirm that the properties below can tell them apart.                *)
(***************************************************************************)

MaxEntryOverwrites(ours, theirs) == theirs

MaxEntryIgnoresIndex(ours, theirs) ==
  IF ours.price <= theirs.price THEN theirs ELSE ours

-----------------------------------------------------------------------------
\* max(ours, theirs): the max-price / max-index rule.
MaxEntry(ours, theirs) == IF Below(ours, theirs) THEN theirs ELSE ours

\* PriceTable.merge: entry-wise max; task ids this table lacks are ignored.
Merge(ours, incoming) ==
  [t \in DOMAIN ours |->
     IF t \in DOMAIN incoming THEN MaxEntry(ours[t], incoming[t]) ELSE ours[t]]

\* PriceTable.bid, without its two assertions (see BidAsserts).
Raise(table, task, increment, bidder) ==
  [table EXCEPT ![task] = [price |-> @.price + increment, bidder |-> bidder]]

\* The assertions of PriceTable.bid: I2 (minimum increment) and I1.
BidAsserts(table, task, increment, bidder, epsilon) ==
  /\ increment >= epsilon
  /\ Below(table[task], Raise(table, task, increment, bidder)[task])

=============================================================================

--------------------------- MODULE RoundContract ---------------------------
(***************************************************************************)
(* What a round is called with and what it returns, the interface that      *)
(* RoundRunner of auction_core/allocator/base.py stands for: the allocator  *)
(* relies on it (RepeatedRounds.tla) and run_round provides it              *)
(* (RoundHarness.tla).  benefits is a function from the ids of the robots   *)
(* to what each of the offered tasks is worth to them.                      *)
(***************************************************************************)
EXTENDS Integers, FiniteSets, Functions

\* The checks of run_round and of AuctionAgent.__init__ pass.
Accepted(benefits) ==
  /\ DOMAIN benefits # {} /\ DOMAIN benefits \subseteq Nat /\ IsFiniteSet(DOMAIN benefits)
  /\ \E offered \in {DOMAIN benefits[r] : r \in DOMAIN benefits} :
       /\ benefits \in [DOMAIN benefits -> [offered -> Int]]
       /\ offered # {} /\ IsFiniteSet(offered)
       /\ Cardinality(DOMAIN benefits) <= Cardinality(offered)

\* A task of its own for every robot, for a total benefit within n * epsilon
\* of the best: what "n * eps" bounds in the tests of the round.
RoundOutcomes(benefits, epsilon) ==
  LET robots    == DOMAIN benefits
      offered   == UNION {DOMAIN benefits[r] : r \in robots}
      matchings == Injection(robots, offered)
      total(f)  == SumFunction([r \in robots |-> benefits[r][f[r]]])
      totals    == {total(f) : f \in matchings}
      slack     == Cardinality(robots) * epsilon
  IN  {f \in matchings :
         LET reach == total(f) + slack IN \A other \in totals : other <= reach}

=============================================================================

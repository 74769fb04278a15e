-------------------------- MODULE HeartbeatMonitor --------------------------
(***************************************************************************)
(* auction_core/liveness/heartbeat.py, as operators on the receipt times a  *)
(* robot keeps: a function from robot ids to the last time each was heard   *)
(* of, Never for those that never were.                                     *)
(***************************************************************************)
EXTENDS Integers

CONSTANTS
  Never,
  HeartbeatInterval,  \* interval, in ticks
  Eta                 \* heartbeats that may be missed

\* __init__ rejects anything else.
ASSUME HeartbeatAssumption ==
  /\ HeartbeatInterval \in Nat \ {0}
  /\ Eta \in Nat \ {0}

Timeout == Eta * HeartbeatInterval

Unheard(robots) == [r \in robots |-> Never]

\* Fault: a robot once heard of is never given up.
HeardInTheFuture(lastSeen, robot, now) == lastSeen[robot] # Never

\* record: a receipt time never goes back.
Record(lastSeen, robot, now) ==
  [lastSeen EXCEPT ![robot] = IF @ = Never THEN now ELSE IF now > @ THEN now ELSE @]

IsAlive(lastSeen, robot, now) ==
  lastSeen[robot] # Never /\ now - lastSeen[robot] <= Timeout

Alive(lastSeen, now) == {r \in DOMAIN lastSeen : IsAlive(lastSeen, r, now)}

=============================================================================

----------------------------- MODULE TaskLeases -----------------------------
(***************************************************************************)
(* The lease replica of auction_core/liveness/lease.py, as operators on a   *)
(* function from task ids to leases.  Entries of the dict that are absent   *)
(* are NoLease here.                                                        *)
(***************************************************************************)
EXTENDS Integers

CONSTANTS
  NoLease,
  NoHolder,       \* what holder() answers for a task without a lease
  LeaseDuration   \* TaskLeases.duration

\* __init__ rejects a duration that is not positive.
ASSUME LeaseAssumption == LeaseDuration \in Nat \ {0}

LeaseOf(robots) == [holder : robots, expires : Nat]

NoLeases(tasks) == [t \in tasks |-> NoLease]

Holder(leases, task) ==
  IF leases[task] = NoLease THEN NoHolder ELSE leases[task].holder

HeldBy(leases, task, robot) ==
  leases[task] # NoLease /\ leases[task].holder = robot

Grant(leases, task, robot, now) ==
  [leases EXCEPT ![task] = [holder |-> robot, expires |-> now + LeaseDuration]]

\* Fault: leases never expire.
SweepNothing(leases, now) == leases

\* Only the holder renews: a stale holder cannot steal its lease back.
Renew(leases, task, robot, now) ==
  IF HeldBy(leases, task, robot) THEN Grant(leases, task, robot, now) ELSE leases

Release(leases, task, robot) ==
  IF HeldBy(leases, task, robot) THEN [leases EXCEPT ![task] = NoLease] ELSE leases

\* sweep: drop the leases that expired.
SweepLeases(leases, now) ==
  [t \in DOMAIN leases |->
     IF leases[t] # NoLease /\ leases[t].expires <= now THEN NoLease ELSE leases[t]]

=============================================================================

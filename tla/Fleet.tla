------------------------------- MODULE Fleet -------------------------------
(***************************************************************************)
(* The robots of a deployment and the tasks they may be given: what the two *)
(* hosts of participants, SystemSim.tla and RosFleet.tla, have in common.   *)
(***************************************************************************)
EXTENDS Participant

CONSTANTS
  Robot,       \* the robots
  Home,        \* robot -> the place it starts from
  Mission,     \* the tasks of the mission
  Injectable,  \* tasks that may be injected at run time
  Travel       \* place -> task -> travel time

RealTask == Mission \cup Injectable

\* Where a robot may be: at home or at the site of a task.
Place == RealTask \cup {Home[r] : r \in Robot}

\* The tasks a round may have: real ones, and idle slots for all robots at most.
TaskIds == RealTask \cup IdleSlots(Cardinality(Robot))

\* The announcements there may be.
Announcements ==
  [ type : {"announcement"}, round : Nat, coordinator : Robot,
    tasks : SUBSET RealTask, participants : SUBSET Robot, idleSlots : Nat ]

\* Rows list a task once.  None is neither a task nor a robot, a time, a flag or a message.
ASSUME FleetAssumption ==
  /\ Robot \subseteq Nat /\ Robot # {} /\ IsFiniteSet(Robot)
  /\ RealTask \subseteq Nat /\ IsFiniteSet(RealTask)
  /\ Collaborative \subseteq RealTask
  /\ Prerequisites \in [RealTask -> SUBSET RealTask]
  /\ \A t, u \in TaskIds : ScanRank[t] \in Int /\ (ScanRank[t] = ScanRank[u] => t = u)
  /\ Duration \in [RealTask -> Nat]
  /\ \A p \in Place, t \in RealTask :
       Travel[p][t] \in Nat /\ \A r \in Robot : Attraction[r][p][t] \in Int
  /\ NoTask \notin RealTask /\ NoRound \notin Announcements /\ NoHolder \notin Robot
  /\ Never \notin Nat /\ NoFlag \notin [stamp : Nat, idle : BOOLEAN]

=============================================================================

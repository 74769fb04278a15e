----------------------------- MODULE SystemSim -----------------------------
(***************************************************************************)
(* auction_core/validation/system_sim.py: a fleet of participants on one    *)
(* clock, over the simulated transport, with crash injection, task          *)
(* injection and an executor that travels and then works.  Every iteration  *)
(* of run() kills and injects, hands over the messages due, ticks every     *)
(* live participant in turn, and finishes the executions that are due.      *)
(***************************************************************************)
EXTENDS Fleet, SimTransport

CONSTANTS
  Topology,     \* the transport's adjacency, constant
  Delay,        \* delay_ticks, constant
  MayDie,       \* robots that kill_at may name
  MaxKills,     \* bound: how many of them do die
  MaxLost,      \* bound: how many copies the links lose
  MaxTime,      \* max_time / tick_period
  NoExecution   \* a robot that executes nothing

Executions == [task : RealTask, since : Nat, finish : Nat]

ASSUME SystemAssumption ==
  /\ Topology \in [Robot -> SUBSET Robot]
  /\ {Delay, MaxKills, MaxLost, MaxTime} \subseteq Nat
  /\ MayDie \subseteq Robot
  /\ NoExecution \notin Executions

VARIABLES
  participants,  \* robot -> its CoordinationParticipant
  queue,         \* the transport's queue
  now,           \* i
  dead,          \* robots killed
  injected,      \* tasks injected so far
  execution,     \* _executing: robot -> [task, since, finish], or NoExecution
  executions,    \* the executions finished, in order: <<task, robot>>
  toTick,        \* robots this iteration has yet to tick
  stage,         \* "begin", "tick" or "finish"
  outcome,       \* "running", or how run() ended
  lost,          \* copies lost so far
  busyAt         \* history: the last tick at which somebody was at work

vars == <<participants, queue, now, dead, injected, execution, executions,
          toTick, stage, outcome, lost, busyAt>>

TypeOK ==
  /\ \A r \in Robot :
       LET p == participants[r]
       IN  /\ p.tasks \subseteq RealTask
           /\ p.completed \in [RealTask -> Robot \cup {NoHolder}]
           /\ p.executing \in RealTask \cup {NoTask}
           /\ p.leases \in [RealTask -> LeaseOf(Robot) \cup {NoLease}]
           /\ p.lastSeen \in [Robot -> Nat \cup {Never}]
           /\ p.idleFlags \in [Robot -> [stamp : Nat, idle : BOOLEAN] \cup {NoFlag}]
           /\ p.openedAt \in Nat /\ p.maxRoundSeen \in Nat
           /\ p.agent # NoAgent => p.announcement # NoRound /\ p.relay = NoRelay
  /\ \A i \in DOMAIN queue : queue[i].dest \in Robot /\ queue[i].at \in Nat
  /\ now \in 0..MaxTime
  /\ dead \subseteq MayDie /\ injected \subseteq Injectable
  /\ execution \in [Robot -> Executions \cup {NoExecution}]
  /\ executions \in Seq(RealTask \X Robot)
  /\ toTick \subseteq Robot
  /\ stage \in {"begin", "tick", "finish"}
  /\ outcome \in {"running", "complete", "timed_out", "raised"}
  /\ lost \in 0..MaxLost
  /\ busyAt \in 0..now

Live == Robot \ dead

-----------------------------------------------------------------------------
Init ==
  /\ participants = [r \in Robot |-> NewParticipant(Home[r], Mission, RealTask, Robot)]
  /\ queue = <<>>
  /\ now = 0
  /\ dead = {} /\ injected = {}
  /\ execution = [r \in Robot |-> NoExecution]
  /\ executions = <<>>
  /\ toTick = {}
  /\ stage = "begin"
  /\ outcome = "running"
  /\ lost = 0
  /\ busyAt = 0

\* range(ticks) is exhausted.
TimeOut ==
  /\ outcome = "running" /\ stage = "begin"
  /\ now = MaxTime
  /\ outcome' = "timed_out"
  /\ UNCHANGED <<participants, queue, now, dead, injected, execution, executions,
                 toTick, stage, lost, busyAt>>

Beginning == outcome = "running" /\ stage = "begin" /\ now < MaxTime

\* kill_at: the robot and what it was executing are gone.
Kill(r) ==
  /\ Beginning
  /\ r \in MayDie \ dead
  /\ Cardinality(dead) < MaxKills
  /\ dead' = dead \cup {r}
  /\ execution' = [execution EXCEPT ![r] = NoExecution]
  /\ UNCHANGED <<participants, queue, now, injected, executions, toTick, stage,
                 outcome, lost, busyAt>>

Inject(t) ==
  /\ Beginning
  /\ t \in Injectable \ injected
  /\ injected' = injected \cup {t}
  /\ participants' = [r \in Robot |->
                        IF r \in dead THEN participants[r]
                        ELSE Handle(r, participants[r], InjectedMsg(t), now)]
  /\ UNCHANGED <<queue, now, dead, execution, executions, toTick, stage, outcome,
                 lost, busyAt>>

\* Messages to the dead are dropped; the others are handled,
HandOver(ps, q) ==
  IF q.dest \in dead THEN ps
  ELSE [ps EXCEPT ![q.dest] = Handle(q.dest, @, q.payload, now)]

\* in order.
DeliverDue ==
  /\ Beginning
  /\ participants' = FoldLeft(HandOver, participants, Due(queue, now))
  /\ queue' = NotDue(queue, now)
  /\ toTick' = Live
  /\ stage' = IF Live = {} THEN "finish" ELSE "tick"
  /\ UNCHANGED <<now, dead, injected, execution, executions, outcome, lost, busyAt>>

Broadcast(q, sender, m) ==
  SendPayload(q, m, Topology[sender], [d \in Topology[sender] |-> Delay], now)

SentAll(q, sender, payloads) ==
  FoldLeft(LAMBDA acc, m : Broadcast(acc, sender, m), q, payloads)

\* Every copy may be lost, as many of them as the bound leaves.
Losses(copies) ==
  {ToSet(cut) \cap DOMAIN copies : cut \in [1..(MaxLost - lost) -> 0..Len(copies)]}

\* The copies that are not lost go out, in order.
Transmit(copies) ==
  \E missing \in Losses(copies) :
    /\ queue' = queue \o CopiesAt(copies, DOMAIN copies \ missing)
    /\ lost' = lost + Cardinality(missing)

\* Fault: an aborted execution runs on.
ExecutionAfterUnheeded(r, step) ==
  IF step.dispatched = {}
  THEN execution[r]
  ELSE LET t == CHOOSE u \in step.dispatched : TRUE
       IN  [task |-> t, since |-> now,
            finish |-> now + Travel[participants[r].place][t] + Duration[t]]

\* The executor the host starts for what a tick dispatched, after aborts.
ExecutionAfter(r, step) ==
  LET p == participants[r]
      kept == IF step.aborted = {} THEN execution[r] ELSE NoExecution
  IN  IF step.dispatched = {}
      THEN kept
      ELSE LET t == CHOOSE u \in step.dispatched : TRUE
           IN  [task |-> t,
                since |-> IF kept = NoExecution THEN now ELSE kept.since,
                finish |-> now + Travel[p.place][t] + Duration[t]]

TickRobot ==
  /\ stage = "tick" /\ outcome = "running"
  /\ LET r == CHOOSE s \in toTick : \A u \in toTick : s <= u
     IN  \E step \in Tick(r, participants[r], now) :
           /\ participants' = [participants EXCEPT ![r] = step.p]
           /\ IF step.raised
              THEN /\ outcome' = "raised"
                   /\ UNCHANGED <<queue, lost, execution>>
              ELSE /\ execution' = [execution EXCEPT ![r] = ExecutionAfter(r, step)]
                   /\ Transmit(SentAll(<<>>, r, step.out))
                   /\ UNCHANGED outcome
           /\ toTick' = toTick \ {r}
           /\ stage' = IF toTick = {r} THEN "finish" ELSE "tick"
  /\ UNCHANGED <<now, dead, injected, executions, busyAt>>

\* The robots whose execution is over.
Finishing == {r \in Robot : execution[r] # NoExecution /\ now >= execution[r].finish}

\* The order of the dict: the entry an unaborted execution is replaced in keeps
\* its place.
EntersBefore(r, s) ==
  \/ execution[r].since < execution[s].since
  \/ execution[r].since = execution[s].since /\ r < s

AllDone(ps) == Live # {} /\ \A r \in Live : MissionComplete(ps[r])

End(ps, r) == [ps EXCEPT ![r] = TaskFinished(r, @, execution[r].task)]

\* The executions of some robots end, one after the other.
Finish(list) ==
  /\ participants' = FoldLeft(End, participants, list)
  /\ execution' = [r \in Robot |-> IF r \in ToSet(list) THEN NoExecution ELSE execution[r]]
  /\ executions' = executions \o
       [i \in DOMAIN list |-> <<execution[list[i]].task, list[i]>>]
  /\ Transmit(FoldLeft(LAMBDA q, r : Broadcast(q, r, CompletedMsg(execution[r].task, r)),
                       <<>>, list))

FinishExecutions ==
  /\ stage = "finish" /\ outcome = "running"
  /\ \E list \in SetToSeqs(Finishing) :
       /\ \A i, j \in DOMAIN list : i < j => EntersBefore(list[i], list[j])
       /\ Finish(list)
  /\ outcome' = IF AllDone(participants') THEN "complete" ELSE "running"
  /\ now' = IF AllDone(participants') THEN now ELSE now + 1
  /\ stage' = "begin"
  /\ busyAt' = IF \E r \in Robot : execution[r] # NoExecution THEN now ELSE busyAt
  /\ UNCHANGED <<dead, injected, toTick>>

Next ==
  \/ TimeOut
  \/ \E r \in Robot : Kill(r)
  \/ \E t \in Injectable : Inject(t)
  \/ DeliverDue
  \/ TickRobot
  \/ FinishExecutions

Spec == Init /\ [][Next]_vars

-----------------------------------------------------------------------------
FinishedTasks == {executions[i][1] : i \in DOMAIN executions}

(***************************************************************************)
(* No two robots work on the same task.                                     *)
(***************************************************************************)
ExclusiveExecution ==
  \A r, s \in Robot :
    /\ execution[r] # NoExecution /\ execution[s] # NoExecution
    /\ execution[r].task = execution[s].task
    => r = s

(***************************************************************************)
(* The executor and the participant agree on what a robot is doing, so the  *)
(* assertion of task_finished holds whenever the executor calls it.         *)
(***************************************************************************)
HostInStep ==
  outcome # "raised" =>
    \A r \in Live :
      participants[r].executing =
        IF execution[r] = NoExecution THEN NoTask ELSE execution[r].task

(***************************************************************************)
(* run() reports success only once every task it was given or injected, but *)
(* for collaborative ones, was executed: none is left with the dead.        *)
(***************************************************************************)
CompleteMeansDone ==
  outcome = "complete" => (Mission \cup injected) \ Collaborative \subseteq FinishedTasks

(***************************************************************************)
(* The mission completes in time, with all its tasks, and no tick raises.   *)
(***************************************************************************)
MissionSucceeds == outcome \in {"running", "complete"} /\ CompleteMeansDone

(***************************************************************************)
(* Rebroadcasts make good any one lost copy, and leases and failover any    *)
(* one crash, in the time the run has.  Both together may take longer.      *)
(***************************************************************************)
OneFaultIsMadeGood == Cardinality(dead) + lost <= 1 => MissionSucceeds

(***************************************************************************)
(* With work left, the fleet is never without anybody at work for longer    *)
(* than it takes to time out one round per crash and one round more, each   *)
(* with its auction, whoever dies and whenever.                             *)
(***************************************************************************)
NeverStalls ==
  now - busyAt <= (MaxKills + 1) * (RoundTimeout + QuiescenceRounds + 2 + Delay)

(***************************************************************************)
(* What a replica records as completed was completed, by the robot named.   *)
(***************************************************************************)
CompletionsTrue ==
  \A r \in Robot, t \in RealTask :
    participants[r].completed[t] # NoHolder =>
      \E i \in DOMAIN executions : executions[i] = <<t, participants[r].completed[t]>>

(***************************************************************************)
(* "Tables from different rounds must never merge": whoever an agent takes  *)
(* for the highest bidder of a task takes part in the agent's round.        *)
(***************************************************************************)
RoundsNeverMix ==
  \A r \in Live :
    LET p == participants[r]
    IN  p.agent # NoAgent =>
          \A t \in DOMAIN p.agent.prices :
            p.agent.prices[t].bidder \in p.announcement.participants \cup {NO_BIDDER}

(***************************************************************************)
(* "frames rounds - available tasks x idle robots": a robot that is still   *)
(* executing a task does not bid for another, though the coordinator knows  *)
(* who is idle from the last heartbeats only.                               *)
(***************************************************************************)
OnlyIdleRobotsBid ==
  \A r \in Live : participants[r].agent # NoAgent => participants[r].executing = NoTask

(***************************************************************************)
(* A collaborative task is set aside, "unsupported in v1": it never makes a *)
(* participant's tick raise.                                                *)
(***************************************************************************)
TicksNeverRaise == outcome # "raised"

-----------------------------------------------------------------------------
Doing ==
  [r \in Robot |-> IF execution[r] = NoExecution THEN NoTask ELSE execution[r].task]

Promised ==
  INSTANCE TaskMission WITH
    Task <- RealTask, Worker <- Robot, Given <- Mission, Needs <- Prerequisites,
    Nothing <- NoTask, known <- Mission \cup injected, doing <- Doing,
    completed <- FinishedTasks

(***************************************************************************)
(* Auctions, leases, crashes and recoveries come down to a mission carried  *)
(* out task by task: each begun by one robot at a time, after what it needs,*)
(* given up only to be begun again, and never begun once it is completed.   *)
(***************************************************************************)
ImplementsTaskMission == Promised!Spec

(***************************************************************************)
(* Whatever is lost and whoever dies: robots work on tasks that were asked  *)
(* for, after what these need, and only what somebody worked on is complete.*)
(***************************************************************************)
CarriesOutMission == Promised!AtLeastOnce

=============================================================================

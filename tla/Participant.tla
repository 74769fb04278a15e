----------------------------- MODULE Participant -----------------------------
(***************************************************************************)
(* The state machine every robot runs:                                      *)
(* auction_core/coordination/participant.py, with the vocabulary of         *)
(* coordination/messages.py, as operators on a record with the fields of    *)
(* class CoordinationParticipant.  Times are in ticks of the host.          *)
(*                                                                         *)
(* Abstracted: the stamps of renewals and completions (no handler reads     *)
(* them), unsupported (nothing reads it), epsilon and the quiescence window *)
(* of an announcement (every robot is configured alike), and the numbers of *)
(* the benefit model (see Benefit).  Tuples of ids are sets; their order is *)
(* ScanRank.  The lists popped by the host right after each tick are part   *)
(* of what Tick returns.                                                    *)
(***************************************************************************)
EXTENDS AuctionAgents, BenefitModel, TaskLeases, HeartbeatMonitor, TaskDag,
        FiniteSetsExt, SequencesExt

CONSTANTS
  NoRound, NoAgent, NoRelay,  \* None, for the three fields of a round
  NoFlag,                     \* a robot no idle flag was received from
  RoundTimeout,               \* round_timeout
  Collaborative,              \* the tasks with required_robots > 1
  Duration                    \* task id -> its duration

-----------------------------------------------------------------------------
(* Messages *)

HeartbeatMsg(sender, stamp, idle) ==
  [type |-> "heartbeat", sender |-> sender, stamp |-> stamp, idle |-> idle]

AnnouncementMsg(round, coordinator, tasks, participants) ==
  [ type |-> "announcement", round |-> round, coordinator |-> coordinator,
    tasks |-> tasks, participants |-> participants,
    idleSlots |-> Deficit(Cardinality(participants), Cardinality(tasks)) ]

GossipMsg(round, inner) == [type |-> "gossip", round |-> round, inner |-> inner]

RenewalMsg(task, holder) == [type |-> "renewal", task |-> task, holder |-> holder]

CompletedMsg(task, by) == [type |-> "completed", task |-> task, by |-> by]

InjectedMsg(task) == [type |-> "injected", task |-> task]

\* Fault: an announcement replaces itself.
PrecedesOrEquals(ann, other) ==
  \/ other.round > ann.round
  \/ other.round = ann.round /\ other.coordinator <= ann.coordinator

\* RoundAnnouncement.precedes: other should replace ann.
Precedes(ann, other) ==
  \/ other.round > ann.round
  \/ other.round = ann.round /\ other.coordinator < ann.coordinator

\* The tasks bid on in a round, idle slots included.
RoundTasks(ann) == ann.tasks \cup IdleSlots(ann.idleSlots)

-----------------------------------------------------------------------------
(* The participant *)

\* tasks and robots are the ids there may ever be; home is where it starts.
NewParticipant(home, mission, tasks, robots) ==
  [ tasks         |-> mission \ Collaborative,
    completed     |-> [t \in tasks |-> NoHolder],
    executing     |-> NoTask,
    place         |-> home,
    workload      |-> 0,
    leases        |-> NoLeases(tasks),
    lastSeen      |-> Unheard(robots),
    idleFlags     |-> [r \in robots |-> NoFlag],
    announcement  |-> NoRound,
    openedAt      |-> 0,
    agent         |-> NoAgent,
    relay         |-> NoRelay,
    relayDirty    |-> FALSE,
    maxRoundSeen  |-> 0,
    lastHeartbeat |-> 0 - HeartbeatInterval ]

Completed(p) == {t \in DOMAIN p.completed : p.completed[t] # NoHolder}

MissionComplete(p) == p.tasks # {} /\ p.tasks \subseteq Completed(p)

IsIdle(p) == p.executing = NoTask /\ p.agent = NoAgent

AddTask(p, task) ==
  IF task \in Collaborative THEN p ELSE [p EXCEPT !.tasks = @ \cup {task}]

-----------------------------------------------------------------------------
(* Handlers *)

\* Liveness by receipt; the idle flag by the sender's stamp.
OnHeartbeat(r, p, msg, now) ==
  IF msg.sender = r
  THEN p
  ELSE [p EXCEPT
          !.lastSeen = Record(@, msg.sender, now),
          !.idleFlags[msg.sender] =
             IF @ = NoFlag
             THEN [stamp |-> msg.stamp, idle |-> msg.idle]
             ELSE IF msg.stamp > @.stamp
             THEN [stamp |-> msg.stamp, idle |-> msg.idle]
             ELSE @]

\* _benefit_row: neutral for tasks not yet learned, idle slots below the rest.
BenefitRow(r, p, ann) ==
  Padded([t \in ann.tasks |-> IF t \in p.tasks THEN Benefit(r, p, t) ELSE 0],
         ann.idleSlots)

\* Fault: a participant of the new round goes on relaying the old one.
AdoptKeepsRelay(r, p, ann, now) ==
  [p EXCEPT
     !.announcement = ann, !.openedAt = now,
     !.maxRoundSeen = IF ann.round > @ THEN ann.round ELSE @,
     !.agent = IF r \in ann.participants THEN NewAgent(BenefitRow(r, p, ann)) ELSE NoAgent,
     !.relay = IF r \in ann.participants THEN @ ELSE InitialTable(RoundTasks(ann))]

Adopt(r, p, ann, now) ==
  [p EXCEPT
     !.announcement = ann,
     !.maxRoundSeen = IF ann.round > @ THEN ann.round ELSE @,
     !.openedAt = now,
     !.agent = IF r \in ann.participants THEN NewAgent(BenefitRow(r, p, ann)) ELSE NoAgent,
     !.relay = IF r \in ann.participants THEN NoRelay ELSE InitialTable(RoundTasks(ann)),
     !.relayDirty = IF r \in ann.participants THEN @ ELSE FALSE]

OnAnnouncement(r, p, msg, now) ==
  IF p.announcement # NoRound /\ ~ Precedes(p.announcement, msg)
  THEN p
  ELSE Adopt(r, p, msg, now)

OnGossip(r, p, msg) ==
  LET relayed == Merge(p.relay, msg.inner.entries)
  IN  CASE p.announcement = NoRound -> p
        [] p.announcement # NoRound /\ p.announcement.round # msg.round -> p
        [] p.announcement # NoRound /\ p.announcement.round = msg.round ->
             IF p.agent # NoAgent
             THEN [p EXCEPT !.agent = HandleMessage(r, @, msg.inner)]
             ELSE IF p.relay # NoRelay
             THEN [p EXCEPT !.relay = relayed, !.relayDirty = @ \/ relayed # p.relay]
             ELSE p

\* Fault: whoever was first prevails.
OnLeaseRenewalFirst(p, msg, now) ==
  [p EXCEPT !.leases = IF Holder(@, msg.task) = NoHolder
                       THEN Grant(@, msg.task, msg.holder, now)
                       ELSE Renew(@, msg.task, msg.holder, now)]

\* Of two holders that both believe they won, the lower id prevails.
OnLeaseRenewal(p, msg, now) ==
  LET holder == Holder(p.leases, msg.task)
  IN  IF holder = NoHolder
      THEN [p EXCEPT !.leases = Grant(@, msg.task, msg.holder, now)]
      ELSE IF holder = msg.holder
      THEN [p EXCEPT !.leases = Renew(@, msg.task, msg.holder, now)]
      ELSE IF msg.holder < holder
      THEN [p EXCEPT !.leases =
              Grant(Release(@, msg.task, holder), msg.task, msg.holder, now)]
      ELSE p

OnCompleted(p, msg) ==
  LET holder == Holder(p.leases, msg.task)
  IN  [p EXCEPT
         !.completed[msg.task] = IF @ = NoHolder THEN msg.by ELSE @,
         !.leases = IF holder = NoHolder THEN @ ELSE Release(@, msg.task, holder)]

Handle(r, p, msg, now) ==
  CASE msg.type = "heartbeat"    -> OnHeartbeat(r, p, msg, now)
    [] msg.type = "announcement" -> OnAnnouncement(r, p, msg, now)
    [] msg.type = "gossip"       -> OnGossip(r, p, msg)
    [] msg.type = "renewal"      -> OnLeaseRenewal(p, msg, now)
    [] msg.type = "completed"    -> OnCompleted(p, msg)
    [] msg.type = "injected"     -> AddTask(p, msg.task)

\* Host callback: execution of task finished.  Asserts executing = task.
TaskFinished(r, p, task) ==
  [p EXCEPT !.executing = NoTask,
            !.completed[task] = r,
            !.leases = Release(@, task, r),
            !.workload = @ + Duration[task],
            !.place = SiteAfter(@, task)]

-----------------------------------------------------------------------------
(* tick, part by part; out is what the part broadcasts, in order *)

SweepLiveness(r, p, now) ==
  [p EXCEPT !.lastSeen = Record(@, r, now),
            !.leases = SweepLeases(@, now)]

\* The lease on what we execute is somebody else's: reallocated.
LostLease(r, p) ==
  /\ p.executing # NoTask
  /\ Holder(p.leases, p.executing) \notin {NoHolder, r}

StopLostWork(r, p) ==
  IF LostLease(r, p) THEN [p EXCEPT !.executing = NoTask] ELSE p

\* The agent's assignment is a real task not known to be completed.
Dispatches(p, task) == task # NoTask /\ task >= 0 /\ task \notin Completed(p)

\* Its next tick would be the last one the agent needs to win t.
AboutToWin(p, t) ==
  /\ p.agent # NoAgent
  /\ p.agent.assignment = t /\ p.agent.quiescent + 1 >= QuiescenceRounds
  /\ Dispatches(p, t)

\* What _tick_round may lead to: as many outcomes as the agent's tick has.
TickRound(r, p, now) ==
  IF p.agent # NoAgent
  THEN {LET won == ag.assignment
            gossip == {GossipMsg(p.announcement.round, m) : m \in Broadcasts(r, ag)}
        IN  IF ~ Terminated(ag)
            THEN [p |-> [p EXCEPT !.agent = ag],
                  out |-> SetToSeq(gossip), dispatched |-> {}]
            ELSE IF ~ Dispatches(p, won)
            THEN [p |-> [p EXCEPT !.agent = NoAgent],
                  out |-> SetToSeq(gossip), dispatched |-> {}]
            ELSE [p |-> [p EXCEPT !.agent = NoAgent,
                                  !.leases = Grant(@, won, r, now),
                                  !.executing = won],
                  out |-> Append(SetToSeq(gossip), RenewalMsg(won, r)),
                  dispatched |-> {won}]
        : ag \in AfterTick(r, p.agent)}
  ELSE IF p.relay # NoRelay /\ p.relayDirty
  THEN {[p |-> [p EXCEPT !.relayDirty = FALSE],
         out |-> <<GossipMsg(p.announcement.round,
                             [sender |-> r, entries |-> p.relay])>>,
         dispatched |-> {}]}
  ELSE {[p |-> p, out |-> <<>>, dispatched |-> {}]}

HeartbeatDue(p, now) == now - p.lastHeartbeat >= HeartbeatInterval

\* Fault: a robot passes on the completions it knows of as its own.
HeartbeatRoundClaims(r, p, now) ==
  <<HeartbeatMsg(r, now, IsIdle(p))>>
    \o (IF p.announcement # NoRound /\ p.announcement.coordinator = r
        THEN <<p.announcement>> ELSE <<>>)
    \o SetToSeq({CompletedMsg(t, r) : t \in Completed(p)})

\* Fault: completions are announced once only.
HeartbeatRoundForgets(r, p, now) ==
  <<HeartbeatMsg(r, now, IsIdle(p))>>
    \o (IF p.announcement # NoRound /\ p.announcement.coordinator = r
        THEN <<p.announcement>> ELSE <<>>)
    \o (IF p.executing # NoTask THEN <<RenewalMsg(p.executing, r)>> ELSE <<>>)

\* Heartbeat; our own framing while it is the latest; our lease; completions.
HeartbeatRound(r, p, now) ==
  <<HeartbeatMsg(r, now, IsIdle(p))>>
    \o (IF p.announcement # NoRound /\ p.announcement.coordinator = r
        THEN <<p.announcement>> ELSE <<>>)
    \o (IF p.executing # NoTask THEN <<RenewalMsg(p.executing, r)>> ELSE <<>>)
    \o SetToSeq({CompletedMsg(t, p.completed[t]) : t \in Completed(p)})

TickHeartbeat(r, p, now) ==
  IF ~ HeartbeatDue(p, now)
  THEN [p |-> p, out |-> <<>>]
  ELSE [p |-> [p EXCEPT !.lastHeartbeat = now,
                        !.leases = IF p.executing = NoTask THEN @
                                   ELSE Renew(@, p.executing, r, now)],
        out |-> HeartbeatRound(r, p, now)]

-----------------------------------------------------------------------------
(* The coordinator *)

IsCoordinator(r, p, now) == \A s \in Alive(p.lastSeen, now) : r <= s

\* Open until every announced real task is leased or completed, or timeout.
RoundOpen(p, now) ==
  \/ p.agent # NoAgent
  \/ /\ now - p.openedAt <= RoundTimeout
     /\ \E t \in p.announcement.tasks :
          t \notin Completed(p) /\ Holder(p.leases, t) = NoHolder

\* Fault: tasks under way are offered again.
AvailableTasksUnleased(p) == Available(p.tasks, Completed(p) \cap p.tasks)

AvailableTasks(p) ==
  {t \in Available(p.tasks, Completed(p) \cap p.tasks) : Holder(p.leases, t) = NoHolder}

IdleRobots(r, p, now) ==
  {s \in DOMAIN p.idleFlags :
     /\ p.idleFlags[s] # NoFlag /\ p.idleFlags[s].idle
     /\ IsAlive(p.lastSeen, s, now)}
  \cup (IF IsIdle(p) THEN {r} ELSE {})

MayFrame(r, p, now) ==
  /\ IsCoordinator(r, p, now)
  /\ p.announcement = NoRound \/ ~ RoundOpen(p, now)

\* TaskDag raises on what the coordinator knows, and tick() with it.
DagRaises(r, p, now) ==
  MayFrame(r, p, now) /\ p.tasks # {} /\ ~ WellFormed(p.tasks)

TickCoordinator(r, p, now) ==
  LET ann == AnnouncementMsg(p.maxRoundSeen + 1, r, AvailableTasks(p),
                             IdleRobots(r, p, now))
  IN  IF \/ ~ MayFrame(r, p, now) \/ DagRaises(r, p, now)
         \/ ann.tasks = {} \/ ann.participants = {}
      THEN [p |-> p, out |-> <<>>]
      ELSE [p |-> OnAnnouncement(r, p, ann, now), out |-> <<ann>>]

-----------------------------------------------------------------------------
(* tick, with the aborts and dispatches the host pops after it.  raised: the *)
(* call ended in an exception, and neither the messages nor the lists ever   *)
(* reach the host.                                                           *)
Tick(r, p, now) ==
  LET swept == SweepLiveness(r, p, now)
  IN  {LET hb == TickHeartbeat(r, rd.p, now)
           co == TickCoordinator(r, hb.p, now)
       IN  [p |-> co.p,
            out |-> rd.out \o hb.out \o co.out,
            aborted |-> IF LostLease(r, swept) THEN {swept.executing} ELSE {},
            dispatched |-> rd.dispatched,
            raised |-> DagRaises(r, hb.p, now)]
       : rd \in TickRound(r, StopLostWork(r, swept), now)}

=============================================================================

------------------------------ MODULE RosFleet ------------------------------
(***************************************************************************)
(* The deployed system: one process per robot (agent_node.py) and one for   *)
(* the mission (mission_node.py), over ROS topics.  Coordination topics are *)
(* BEST_EFFORT with a history of Depth messages, the mission topic is       *)
(* RELIABLE and TRANSIENT_LOCAL: whoever comes up gets the latest array.    *)
(* A node subscribes to the topics it publishes on, so it hears itself.     *)
(*                                                                         *)
(* Time advances in periods of the node timer.  In each period every robot  *)
(* has one turn, in the order of the phases its timer happens to have:      *)
(* its single-threaded executor runs the callbacks of what has arrived,     *)
(* the node timer, and the execution timers that are due, the latter before,*)
(* between or after the others.  A message that is late is taken up a       *)
(* period later.  A callback that raises ends its process.                  *)
(***************************************************************************)
EXTENDS AgentNode

CONSTANTS
  Phases,        \* the orders the robots' timers may fire in
  Depth,         \* history depth of the coordination topics
  MissionTopic,  \* "from" of a task array
  FaultKinds,    \* which of "lost", "late", "crash", "stall", "cut" happen
  MaxFaults,     \* bound: how many of them
  MaxLaunches,   \* bound: how many processes are launched again
  StallLength,   \* periods a host that stalls is unresponsive
  CutLength,     \* periods a partition lasts
  FaultsUntil,   \* bound: the last period with a fault or an injection
  Patience,      \* periods after them in which the mission is completed
  MaxTime        \* bound: periods

ASSUME DeploymentAssumption ==
  /\ Phases # {}
  /\ \A o \in Phases : o \in Seq(Robot) /\ IsInjective(o) /\ ToSet(o) = Robot
  /\ Depth \in Nat \ {0}
  /\ FaultKinds \subseteq {"lost", "late", "crash", "stall", "cut"}
  /\ {MaxFaults, MaxLaunches, StallLength, CutLength, FaultsUntil, Patience,
      MaxTime} \subseteq Nat

VARIABLES
  nodes,     \* robot whose process runs -> its AgentNode
  inbox,     \* robot -> the messages its subscriptions hold, as they came
  latched,   \* the tasks the mission node keeps
  now,       \* the period
  order,     \* the phases of the robots' timers
  turn,      \* the place in order of the robot that is up
  stage,     \* what it has yet to do: "receive" and tick, "tick", or "rest"
  asleep,    \* robot -> the period its host responds again, if it is to come
  cutAt,     \* the period the network was cut in two, or Never
  faults,    \* how many faults there were
  launches,  \* how many processes were launched again
  finished,  \* history: the executions finished, [task, robot, due, at]
  clash,     \* history: for how long two connected robots executed one task
  raised,    \* history: whether a callback raised
  disturbed  \* history: when the last fault or injection was over

clock == <<now, order, turn, asleep, cutAt, clash>>
budget == <<faults, launches, disturbed>>
record == <<finished, raised>>

vars == <<nodes, inbox, latched, stage, clock, budget, record>>

Running == DOMAIN nodes
Awake == {r \in Running : asleep[r] <= now}

Current == order[turn]

-----------------------------------------------------------------------------
(* Topics *)

ArrayMsg(tasks) == [type |-> "tasks", tasks |-> tasks]

TopicDepth(topic) == IF topic = "tasks" THEN 1 ELSE Depth

OfTopic(box, topic) == {i \in DOMAIN box : box[i].msg.type = topic}

\* Fault: nothing gives way.
EnqueueAll(box, from, msg) == Append(box, [from |-> from, msg |-> msg, late |-> FALSE])

\* KEEP_LAST: the oldest message of a full topic gives way.
Enqueue(box, from, msg) ==
  LET topic == OfTopic(box, msg.type)
      kept  == IF Cardinality(topic) < TopicDepth(msg.type)
               THEN box
               ELSE RemoveAt(box, Min(topic))
  IN  Append(kept, [from |-> from, msg |-> msg, late |-> FALSE])

\* A cut separates the lowest id from the rest.
Connected(r, s) ==
  \/ cutAt = Never
  \/ r = s
  \/ Min(Robot) \notin {r, s}

\* Every running subscriber that can be reached has the message.
Published(boxes, up, from, out) ==
  [r \in Robot |->
     IF r \notin up \/ (from # MissionTopic /\ ~ Connected(from, r))
     THEN boxes[r]
     ELSE FoldLeft(LAMBDA box, msg : Enqueue(box, from, msg), boxes[r], out)]

-----------------------------------------------------------------------------
Init ==
  /\ nodes = [r \in Robot |-> NewNode(Home[r], RealTask, Robot)]
  /\ latched = Mission
  /\ inbox = [r \in Robot |-> Enqueue(<<>>, MissionTopic, ArrayMsg(Mission))]
  /\ now = 0
  /\ order \in Phases
  /\ turn = 1 /\ stage = "receive"
  /\ asleep = [r \in Robot |-> 0]
  /\ cutAt = Never
  /\ faults = 0 /\ launches = 0
  /\ finished = {} /\ clash = 0 /\ raised = FALSE /\ disturbed = 0

Disturbed(until) == disturbed' = IF until > disturbed THEN until ELSE disturbed

Fault(kind, length) ==
  /\ kind \in FaultKinds /\ faults < MaxFaults /\ now <= FaultsUntil
  /\ faults' = faults + 1
  /\ Disturbed(now + length)

\* A turn of a robot that is up.
Up(at) == stage = at /\ now < MaxTime /\ Current \in Awake

\* The nodes once the process of r is gone.
Without(r) == Restrict(nodes, Running \ {r})

\* The process of Current after a callback: it goes on, or it is gone.
CameTo(res) ==
  LET r == Current
  IN  /\ nodes' = IF res.raised THEN Without(r) ELSE [nodes EXCEPT ![r] = res.node]
      /\ raised' = (raised \/ res.raised)
      /\ inbox' = LET sent == Published(inbox, Running, r, res.out)
                  IN  IF res.raised THEN [sent EXCEPT ![r] = <<>>] ELSE sent

-----------------------------------------------------------------------------
(* The turn of a robot *)

\* One callback of a subscription, and all that have arrived, as they came.
Callback(r, node, m, at) ==
  IF m.type = "tasks"
  THEN OnTaskArray(r, node, m.tasks, at)
  ELSE HandleMsg(r, node, m, at)

Drained(r, node, box, at) ==
  FoldLeft(LAMBDA n, e : IF e.late THEN n ELSE Callback(r, n, e.msg, at),
           node, box)

\* What is late arrives for the next turn.
StillLate(box) ==
  FoldLeft(LAMBDA kept, e : IF e.late THEN Append(kept, [e EXCEPT !.late = FALSE]) ELSE kept,
           <<>>, box)

Receive ==
  /\ Up("receive")
  /\ nodes' = [nodes EXCEPT ![Current] = Drained(Current, @, inbox[Current], now)]
  /\ inbox' = [inbox EXCEPT ![Current] = StillLate(@)]
  /\ stage' = "tick"
  /\ UNCHANGED <<latched, clock, budget, record>>

Lose(i) ==
  /\ Up("receive") /\ Fault("lost", 0)
  /\ inbox[Current][i].msg.type # "tasks"
  /\ inbox' = [inbox EXCEPT ![Current] = RemoveAt(@, i)]
  /\ UNCHANGED <<nodes, latched, clock, stage, launches, record>>

\* A late message, and with it the later ones of its publisher on its topic.
Delay(i) ==
  /\ Up("receive") /\ Fault("late", 0)
  /\ ~ inbox[Current][i].late
  /\ inbox' = [inbox EXCEPT ![Current] =
                 [j \in DOMAIN @ |->
                    IF j >= i /\ @[j].from = @[i].from /\ @[j].msg.type = @[i].msg.type
                    THEN [@[j] EXCEPT !.late = TRUE]
                    ELSE @[j]]]
  /\ UNCHANGED <<nodes, latched, clock, stage, launches, record>>

TickNode ==
  /\ Up("tick")
  /\ \E res \in NodeTick(Current, nodes[Current], now) : CameTo(res)
  /\ stage' = "rest"
  /\ UNCHANGED <<latched, clock, budget, finished>>

FireExecution(tm) ==
  /\ now < MaxTime /\ Current \in Awake
  /\ tm \in DueTimers(nodes[Current], now)
  /\ LET node == nodes[Current]
         res  == FinishExecution(Current, node, tm)
     IN  /\ CameTo(res)
         /\ finished' = IF res.raised THEN finished
                        ELSE finished \cup
                               {[task |-> node.task, robot |-> Current, at |-> now,
                                 due |-> Min({t.since + t.wait :
                                              t \in {u \in node.timers :
                                                       u.for = node.task}})]}
  /\ UNCHANGED <<latched, clock, stage, budget>>

Clashes ==
  \E r, s \in Awake :
    /\ r # s /\ Connected(r, s)
    /\ nodes[r].p.executing = nodes[s].p.executing
    /\ nodes[r].p.executing # NoTask

\* The next robot's turn; after the last, the next period.
Pass ==
  /\ stage' = "receive"
  /\ order' = order
  /\ IF turn < Len(order)
     THEN turn' = turn + 1 /\ UNCHANGED <<now, clash, cutAt>>
     ELSE /\ turn' = 1
          /\ now' = now + 1
          /\ clash' = IF Clashes THEN clash + 1 ELSE 0
          /\ cutAt' = IF cutAt # Never /\ now - cutAt >= CutLength
                      THEN Never ELSE cutAt

EndTurn ==
  /\ \/ now < MaxTime /\ Current \notin Awake
     \/ Up("rest") /\ DueTimers(nodes[Current], now) = {}
  /\ Pass
  /\ UNCHANGED <<nodes, inbox, latched, asleep, budget, record>>

\* A busy host: the process gets nothing done, and messages pile up.
Stall ==
  /\ Up("receive") /\ Fault("stall", StallLength)
  /\ Pass
  /\ asleep' = [asleep EXCEPT ![Current] = now + StallLength]
  /\ UNCHANGED <<nodes, inbox, latched, launches, record>>

-----------------------------------------------------------------------------
(* Processes and the network *)

\* die_after, or SIGKILL.
Crash ==
  /\ Up("receive") /\ Fault("crash", 0)
  /\ nodes' = Without(Current)
  /\ inbox' = [inbox EXCEPT ![Current] = <<>>]
  /\ UNCHANGED <<latched, clock, stage, launches, record>>

\* The operator launches the node again, where it was first launched.
Launch ==
  /\ now < MaxTime /\ Current \notin Running
  /\ now <= FaultsUntil /\ launches < MaxLaunches
  /\ nodes' = [r \in Running \cup {Current} |->
                IF r \in Running THEN nodes[r] ELSE NewNode(Home[r], RealTask, Robot)]
  /\ inbox' = [inbox EXCEPT ![Current] = Enqueue(<<>>, MissionTopic, ArrayMsg(latched))]
  /\ stage' = "receive"
  /\ launches' = launches + 1
  /\ Disturbed(now)
  /\ UNCHANGED <<latched, clock, faults, record>>

\* _on_inject: an id it has is ignored, anything else is latched anew.  Missions
\* are closed: a task is injected after its prerequisites.
Inject(t) ==
  /\ now < MaxTime /\ now <= FaultsUntil /\ turn = 1 /\ stage = "receive"
  /\ t \notin latched /\ Prerequisites[t] \subseteq latched
  /\ latched' = latched \cup {t}
  /\ inbox' = Published(inbox, Running, MissionTopic, <<ArrayMsg(latched')>>)
  /\ Disturbed(now)
  /\ UNCHANGED <<nodes, clock, stage, faults, launches, record>>

Cut ==
  /\ now < MaxTime /\ turn = 1 /\ stage = "receive"
  /\ cutAt = Never /\ Fault("cut", CutLength)
  /\ cutAt' = now
  /\ UNCHANGED <<nodes, inbox, latched, now, order, turn, asleep, clash, stage, launches,
                 record>>

Next ==
  \/ Receive
  \/ \E i \in DOMAIN inbox[Current] : Lose(i) \/ Delay(i)
  \/ TickNode
  \/ Current \in Running /\ \E tm \in nodes[Current].timers : FireExecution(tm)
  \/ EndTurn
  \/ Stall
  \/ Crash
  \/ Launch
  \/ \E t \in Injectable : Inject(t)
  \/ Cut

Spec == Init /\ [][Next]_vars

-----------------------------------------------------------------------------
TypeOK ==
  /\ \A r \in Running :
       LET n == nodes[r]
       IN  /\ n.p.tasks \subseteq latched
           /\ n.p.completed \in [RealTask -> Robot \cup {NoHolder}]
           /\ n.p.leases \in [RealTask -> LeaseOf(Robot) \cup {NoLease}]
           /\ n.task \in RealTask \cup {NoTask}
           /\ n.timer = NoTimer \/ n.timer \in n.timers
           /\ n.p.agent # NoAgent => n.p.announcement # NoRound
  /\ Running \subseteq Robot
  /\ \A r \in Robot \ Running : inbox[r] = <<>>
  /\ \A r \in Robot : \A i \in DOMAIN inbox[r] :
       Cardinality(OfTopic(inbox[r], inbox[r][i].msg.type))
         <= TopicDepth(inbox[r][i].msg.type)
  /\ asleep \in [Robot -> Nat]
  /\ Mission \subseteq latched /\ latched \subseteq RealTask
  /\ now \in 0..MaxTime
  /\ turn \in DOMAIN order /\ stage \in {"receive", "tick", "rest"}

(***************************************************************************)
(* No callback raises: no look-up of a task the node has not learned of, no *)
(* use of a timer that is gone, no failed assertion, no malformed DAG.      *)
(***************************************************************************)
CallbacksNeverRaise == ~ raised

(***************************************************************************)
(* Between callbacks the node is at work exactly on what its participant    *)
(* takes it to execute, under one timer, which it can cancel.               *)
(***************************************************************************)
TimerMatches ==
  \A r \in Running :
    LET n == nodes[r]
    IN  /\ n.task = n.p.executing
        /\ n.timers = IF n.task = NoTask THEN {} ELSE {n.timer}

(***************************************************************************)
(* Not a property of the code but a hypothesis of theorems about it: by the *)
(* time a robot could win a task it has learned of it and is through with   *)
(* the one before.  Nothing in a node checks either: heartbeats said that   *)
(* it was idle when the round was framed, however long ago, and the task    *)
(* array comes on a topic of its own.                                       *)
(***************************************************************************)
WinnersAreReady ==
  \A r \in Running, t \in RealTask :
    AboutToWin(nodes[r].p, t) =>
      t \in nodes[r].p.tasks /\ nodes[r].p.executing = NoTask

(***************************************************************************)
(* "performs a dispatched task by waiting travel + duration seconds": a node *)
(* completes a task only once the wait it set out on for it is over.        *)
(***************************************************************************)
CompletionsEarned == \A f \in finished : f.at >= f.due

(***************************************************************************)
(* What a replica takes for completed was finished, by the robot it names,  *)
(* whoever crashed, came back or was cut off.                               *)
(***************************************************************************)
CompletionsTrue ==
  \A r \in Running, t \in RealTask :
    LET by == nodes[r].p.completed[t]
    IN  by # NoHolder => \E f \in finished : f.task = t /\ f.robot = by

(***************************************************************************)
(* Of two robots that can hear each other and execute the same task, one    *)
(* gives up once renewals had the time to arrive, lost and late ones and    *)
(* stalls included.                                                         *)
(***************************************************************************)
ConflictsResolve == clash <= (1 + MaxFaults) * HeartbeatInterval

(***************************************************************************)
(* Every robot that is up knows in time that the mission is complete, those *)
(* that came back late included.                                            *)
(***************************************************************************)
MissionInTime ==
  now > disturbed + Patience =>
    \A r \in Awake : latched \subseteq Completed(nodes[r].p) \cap nodes[r].p.tasks

(***************************************************************************)
(* "Every handler is idempotent": a message that is handled again, after    *)
(* all the others that have arrived, changes nothing but leases, which the  *)
(* code extends from whatever renewal comes.  Gossip is left out: what came *)
(* ahead of its announcement is news the next time.                         *)
(***************************************************************************)
RebroadcastSafe ==
  \A r \in Running :
    LET p == Drained(r, nodes[r], inbox[r], now).p
    IN  \A i \in DOMAIN inbox[r] :
          LET m == inbox[r][i].msg
          IN  ~ inbox[r][i].late /\ m.type \notin {"tasks", "gossip"} =>
                [Handle(r, p, m, now) EXCEPT !.leases = p.leases] = p

-----------------------------------------------------------------------------
Doing == [r \in Robot |-> IF r \in Running THEN nodes[r].task ELSE NoTask]

Promised ==
  INSTANCE TaskMission WITH
    Task <- RealTask, Worker <- Robot, Given <- Mission, Needs <- Prerequisites,
    Nothing <- NoTask, known <- latched, doing <- Doing,
    completed <- {f.task : f \in finished}

(***************************************************************************)
(* Whatever is lost, late, cut off, stalled, crashed and launched again: a  *)
(* node sets out only for tasks that were asked for, after all they need    *)
(* was finished by somebody, and what is finished is what a node was at.    *)
(***************************************************************************)
CarriesOutMission == Promised!AtLeastOnce

=============================================================================

# A verification project for the distributed auction and its coordination layer

TLA+ models of `auction_core` and of the ROS nodes that host it, model-checked with TLC on small instances, with
theorems proved by TLAPS for every instance. `src/` below is the repository;
`auction_core/...` abbreviates `src/auction_core/src/auction_core/...`.

## 1. The system

### Components, their state and their operations

| Component | State | Operations |
|---|---|---|
| Price table (`auction/prices.py`, `types.py`) | task -> (price, bidder) | `merge` (entry-wise max), `bid` (asserts I1, I2) |
| Auction agent (`auction/engine.py`) | benefits, price table, assignment, quiescence counter, dirty flag | `handle_message`, `tick` (bid if outbid, count quiet ticks, broadcast until terminated) |
| Round harness (`validation/harness.py`) | the agents, the tick | `run_round`: deliver, tick all, stop or raise; `suggested_quiescence` |
| Simulated transport (`validation/transport.py`) | heap of copies in flight | `send_payload` (loss, delay per link), `deliver_due`, topologies, random connected graphs among them, `diameter` |
| Lease replica (`liveness/lease.py`) | task -> (holder, expiry) | `grant`, `renew`, `release`, `sweep` |
| Heartbeat monitor (`liveness/heartbeat.py`) | robot -> last receipt | `record`, `sweep`, `alive` |
| Task DAG, benefits, CPM (`scheduling/`) | none | `available`, cycle check, `benefit`, critical path |
| Participant (`coordination/participant.py`, `messages.py`) | tasks, completions, what it executes, leases, monitor, idle flags, the latest round with agent or relay table | one handler per message, `tick` (sweeps, lost-lease abort, round, heartbeat, coordinator), `task_finished` |
| System simulator (`validation/system_sim.py`) | the fleet, the transport, executions, the dead | `run`: kill, inject, deliver, tick, finish |
| Centralised allocator (`allocator/`) | robots, running tasks | `allocate`: repeated rounds over simulated time |
| ROS agent node (`ros2_ws/src/auction_ros/auction_ros/agent_node.py`) | participant, `_exec_timer`, `_exec_task` | one callback per subscription, `_tick`, `_finish_execution`, `_die` |
| ROS mission node (`mission_node.py` next to it) | the latched task array | `_latch`, `_on_inject` |
| Hungarian reference, experiments, analysis, launch files, docker | - | test oracle, sweeps, packaging |

### How they interact

A participant is sans-I/O: its host calls `handle(msg, now)` and `tick(now)`,
transmits what `tick` returns, starts and stops executions from `pop_dispatches`
and `pop_aborts`, and calls `task_finished`. The participant holds a
`HeartbeatMonitor`, a `TaskLeases` and, while it bids in a round, one
`AuctionAgent`; robots that do not bid keep a relay table. Everything
else is broadcast messages: heartbeats, announcements, price gossip, renewals,
completions, injections. There are no acknowledgements; the heartbeat rebroadcasts
the state that matters. Whoever has the lowest id it believes alive is the
coordinator and frames rounds: available tasks x idle robots.

### What is hard

* **Order and loss.** Gossip is lost, repeated, delayed and reordered, and agents
  bid on stale prices while it is under way.
* **Silent termination.** A robot decides alone, by a count of quiet ticks, that a
  round is over, and starts executing.
* **Stale knowledge.** Idle flags, leases and completions are replicas; decisions
  are made on what the last heartbeat said.
* **Crashes.** A robot dies with a lease, in a round or as the coordinator;
  recovery is leases lapsing on all replicas and another round.
* **Several coordinators** at start-up, on failover and in a partition.
* **Executor and participant** have to agree after aborts and dispatches.
* **Hosts**: a process is killed and launched again without memory, a busy host misses
  its timers and the older half of its messages, and an execution timer fires between any two
  callbacks.

### What makes each part correct

* Table: entries only rise; merging cannot give an agent what it did not bid on.
* Agent: one claim at a time, epsilon complementary slackness, sound increments,
  the round settles, agreement is a near-optimal matching.
* Harness: returns only agreed results over lossless links, only near-optimal
  matchings over lossy ones; does not raise if the window is large enough.
* Allocator: a schedule that can be executed, non-delay, no task dropped silently.
* Participant and fleet: prerequisites first, each task executed once, true
  completions, no lost tasks, no stall after a crash, no mixing of rounds: in short, a
  mission carried out task by task (`TaskMission`).
* Nodes: no callback raises, the node works on what its participant executes and for as long
  as it takes, everybody that is up learns that the mission is complete.

`PROJECT.json` lists the hazards line by line, with the properties that cover them.

## 2. The modules

```
PriceTables ── AuctionAgents ── RoundAgents ─┬─ AuctionRound ── refines ─┐
      │              │                       └─ RoundHarness ── refines ─┤ (with SimTransport)
      └── SerialAuction <────────────────────────────────────────────────┘
                     │
TaskLeases, HeartbeatMonitor,
TaskDag, BenefitModel ── Participant ── Fleet ─┬─ SystemSim (with SimTransport) ── refines ─┬─ TaskMission
      │                                        └─ AgentNode ── RosFleet ── refines ─────────┘
      └── CriticalPath ── RepeatedRounds (with BenefitModel)
                              └─ RoundContract: what a round is given and returns, between
                                 RepeatedRounds and RoundHarness

proofs:  FoldLemmas ─┬─ RoundAgentsProofs ─┬─ AuctionRoundProofs (of AuctionRound)
                     │                     └─ RoundHarnessProofs (of RoundHarness)
                     ├─ ParticipantProofs ─┬─ SystemSimProofs (of SystemSim)
                     │                     └─ RosFleetProofs (of RosFleet)
                     └─ RepeatedRoundsProofs (of RepeatedRounds)
```

Components without a thread of their own (price table, agent, leases, monitor,
DAG, participant, ROS node, transport) are **operators on records** that have the fields of
the class; the modules that run them (`AuctionRound`, `RoundHarness`, `SystemSim`,
`RosFleet`, `RepeatedRounds`) hold the variables and the actions. So the agent checked in isolation, in the
harness and inside a participant is the same text, and so is the participant in the
simulator and in a ROS node.

| Module | Models | Correspondence |
|---|---|---|
| `PriceTables` | `prices.py`, `PriceEntry` | `MaxEntry`/`Merge` = `merge`, `Raise` + `BidAsserts` = `bid` |
| `AuctionAgents` | `engine.py` | `HandleMessage`; `AfterTick`, `Broadcasts` = `tick`; `Best`, `Increments` = the scan of `_place_bid` |
| `RoundAgents` | the agents of one round | `NewAgents`, `Handed` = who is created and who handles; `Consistent`, `Merged`, `Total` = what `run_round` and its report compute |
| `AuctionRound` | agents on an unreliable network | `Deliver(a, m)`, `Tick(a)`; `sent` is every table ever broadcast, and any of it may be handled at any time, repeatedly or never |
| `SerialAuction` | the promise of a round | one table, agents bid in turn; abstract, translates no code |
| `SimTransport` | `transport.py` | queue operators, topologies, `Diameter` |
| `RoundHarness` | `run_round` | `DeliverDue`, `TickAgent` (agents in order), `EndIteration`, `GiveUp`; `outcome` is the return or the exception |
| `TaskLeases`, `HeartbeatMonitor`, `TaskDag` | `lease.py`, `heartbeat.py`, `dag.py` | one operator per method |
| `BenefitModel`, `CriticalPath` | `benefits.py`, `cpm.py` | `Benefit`, `Padded` (idle slots); `CriticalPathLength`, `ReachesLowerBound` |
| `Participant` | `participant.py`, `messages.py` | `On...` per handler, `Tick` = `TickRound`, `TickHeartbeat`, `TickCoordinator` in the order of `tick`; a tick also returns what the host pops |
| `Fleet` | what the hosts have in common | the robots, the missions, the shape of announcements, and what is assumed of them |
| `SystemSim` | `system_sim.py` | `Kill`, `Inject`, `DeliverDue`, `TickRobot`, `FinishExecutions`, `TimeOut` in the order of the loop of `run` |
| `RepeatedRounds` | `repeated_rounds.py` | one step per iteration of the loop of `allocate`: `RunRound`, `Advance`, `GiveUp`; the round itself is any near-optimal matching (`RoundResults`) |
| `RoundContract` | `RoundRunner`, the checks of `run_round` | `Accepted`: the benefits a round may be called with; `RoundOutcomes`: what it may return |
| `TaskMission` | the promise of a fleet | tasks are asked for, begun, abandoned, completed: each once (`Spec`), or at least once (`AtLeastOnce`); abstract, translates no code |
| `AgentNode` | `agent_node.py` | `HandleMsg`, `OnTaskArray` = the subscriptions; `NodeTick` = `_tick`; `StartExecution`, `FinishExecution`, `CancelExecution` |
| `RosFleet` | the deployed fleet, `mission_node.py` | per robot and period `Receive`, `TickNode`, and `FireExecution` at any point between; `Inject`; `Crash`, `Launch`, `Stall`, `Lose`, `Delay`, `Cut` for what may go wrong |
| `MC...` | - | values of the constants for TLC |
| `...Proofs`, `FoldLemmas` | - | theorems and what they rest on (section 4) |

Definitions whose comment says *Fault* are not part of the model: each is a
plausible bug, put in the place of one operator to confirm that a property
notices it (`mutants` in `PROJECT.json`).

### Abstractions

* **Numbers.** Prices and benefits are integers in units of a quantum of the
  floats; so rounding is not modelled (section 6). The benefit model is a table per
  robot, place and task minus the load term. Time is in ticks of the simulator.
* **Positions.** A place is the site of a task or the home of a robot. Tasks outside `Sited` have no position: whoever
  executes one stays where it was (`SiteAfter`), and what it costs to get there is up to the tables.
* **Quiescence counter.** Counted up to `QuiescenceRounds` only: the code never
  looks further than that comparison.
* **Ties.** The benefit dict's order is `ScanRank`; sets stand for tuples of ids.
* **Messages** keep what a handler reads: stamps of renewals and completions,
  and epsilon and the window of an announcement (configured alike everywhere), are
  left out, as is the write-only `unsupported` dict.
* **Loss.** A choice per copy instead of a random draw, of several copies of one broadcast too; in `SystemSim` at most
  `MaxLost` copies are lost in all, a constant that the theorems leave open. Kills and injections may happen at any iteration
  instead of given times, `MaxKills` of them at most.
* `SystemSim` has one **history variable**, `busyAt` (when somebody last worked).
* **ROS.** `RosFleet` advances in periods of the node timer. In a period each robot has a
  turn: its single-threaded executor takes up what has arrived, then runs the node timer; an
  execution timer that is due fires before, between or after. The order of turns is one of `Phases`,
  fixed at the start. What a robot publishes is there when the next one has its turn; a late message, with
  the later ones of its publisher on its topic, is taken up a period later. Coordination topics keep
  the last five messages per topic (`KEEP_LAST`), the task array is reliable and latched. Nodes
  hear themselves, as subscribers to their own topics do. A callback that raises ends its process. A
  crash is before a turn: `os._exit` runs in a timer of its own, never within a callback. A SIGKILL between two
  publishes of one callback is left out; what it loses is lost in `system_lossy` and by `Lose`, one message at a time. The
  timer record keeps what it was created `for` and `since`, which the node does not read
  and `CompletionsEarned` does.
* **Missions are closed**: a task is injected after its prerequisites. An agent that learns of a task before
  its prerequisite would raise in `TaskDag`. The mission node does not check this; `RosFleet.Inject` assumes it.
* **Topologies** of a round are over its agents; the `ValueError` of `run_round` for a delivery to anybody
  else (`harness.py:93-98`) is left out.
* **Executors.** In its turn a host takes up its whole inbox before the node timer runs. After a stall, rclpy may run
  the timer first; what this amounts to, messages that `tick` does not see until the next period, the model has of one topic of one publisher only, as a late message.
* `RosFleet` has four history variables: `finished`, `clash`, `raised`, `disturbed`.
* **Rounds of the allocator** are one step, which ends with any of `RoundOutcomes`; that `RoundHarness` returns nothing
  else is a theorem (section 4). Why a task is unallocated is left out.

Outcomes of `SystemSim` (the order of executions and the mission time) were compared with
those of the Python simulator on 144 deterministic configurations of fleets, missions,
windows and delays; all agree. The properties of
`RepeatedRounds` were also evaluated on what the Python allocator returns for 400 random
fleets and missions, with a third of the tasks without a position; all hold.

## 3. What is checked

### Passing runs

| Run | Instance | Shows |
|---|---|---|
| `round_safety` | 2 agents, 3 tasks, all 729 matrices over {-1, 0, 3} | the tables' invariants, and near-optimality at agreement |
| `round_line` | 3 agents on a line, all wanting one task or none in particular | refinement of `SerialAuction`, no price above the spread of somebody's benefits plus epsilon while a task is free nor above twice that afterwards, every fair round settles |
| `harness_lossless` | every connected graph of 3 agents but the complete one, and a line whose end is cut off until tick 2; delays 0..1 per copy, window 3 | no result without agreement, news always on its way, no exception, `run_round` returns |
| `harness_lossy` | 2 agents, all matrices over {0, 3}, any copies lost | what is returned is near optimal, though tables may differ |
| `system_crashes` | 3 robots, 3 tasks (2 needs 0 and 1, and 1 has no position), a fourth injected at any iteration or never, one crash at any iteration or none; heartbeats more often than the window | the mission completes, no stall, and the whole refines `TaskMission`: no task begun by two robots, begun again once completed, or begun before what it needs |
| `system_lossy` | 3 rivals, delay 1, one crash and one lost copy anywhere; heartbeat interval and lease of the defaults | although two robots may work on one task and one aborts: the mission completes within 190 ticks after a crash or a lost copy, true completions, executor in step, and the whole refines `AtLeastOnce` |
| `fleet` | 2 ROS nodes, tasks of 6 and 16 periods, the second injected at any period or never; both phase orders; one loss, late message, crash, stall of 14 periods (a lease is 12) or partition of 8 periods at any point, and one relaunch | no callback raises, timers and participants agree, completions are earned and true, conflicts resolve, messages may be repeated, everybody up knows within 60 periods that the mission is complete, and the whole refines `TaskMission`'s `AtLeastOnce`: tasks are undertaken after what they need, and only what a node was at is completed |
| `allocator` | up to 3 robots, one of them slow; 6 missions of up to 6 tasks on a line, two of them without a position; two of the missions no DAG; 5 choices of collaborative tasks; load terms, idle slots | a schedule that can be executed, robots that set out from where they were last, no idling without need, every task accounted for, the lower bound, termination |

`NewsOnItsWay` says why an empty queue may be taken for agreement: whatever an agent knows, its
neighbours know, are being told, or will be told by a broadcast that is due. With the healing partition this
takes a window that outlasts the cut, and a counter that is reset by a merge (the mutant that keeps it
ends the round on one side's view).

`fleet` reaches what its hazards speak of: a robot whose own lease lapsed goes on executing while
its task is given to the other; two robots execute one task and one gives up when renewals cross; a relaunched
robot, which starts with round 1, takes up rounds framed before; histories overflow
during a stall. In this instance tasks come one at a time, since the second depends
on the first, and news is late by a period at most, less than a round takes. So nobody wins a task it has not learned of or while it
executes another, and `TimerMatches`, `CompletionsEarned` and `CallbacksNeverRaise` hold for that reason only
(`WinnersAreReady`, section 4): with independent tasks and a partition none of them does, which is the run `fleet_partition`. What
`fleet` shows of the three is that aborts, lapsed leases, stolen tasks, stalls and relaunches do not break them.

### Runs that end in a violation

Each checks one property that a comment, docstring or test of the repository states and
the code does not keep.

| Run | Property | What happens |
|---|---|---|
| `system_rounds_mix` | `RoundsNeverMix` | at start-up nobody has heard of anybody, so two robots frame round 1 each; gossip is matched by round id only |
| `system_window` | `ExclusiveExecution` | delay 1, no loss, the suggested window: participants adopt a round at different ticks, the first to be quiet leaves, and a later bid takes its task |
| `fleet_partition` | `CompletionsEarned` | after a partition heals, a robot that executes what it won on its side adopts a round of the other side that lists it as idle, and is dispatched a second task over the first; the timer of the first then completes the second at once |
| `system_defaults` | `OnlyIdleRobotsBid` | with the intervals of the defaults and no fault at all: a robot wins a task, starts, and one handler before its next heartbeat arrives the coordinator frames a round for an injected task on the strength of the last one; the robot bids while it executes |

Four related observations that no run checks.

A collaborative task is dropped on arrival (participant.py:99-103) while tasks that need it are kept, and `TaskDag` raises in every tick of a
coordinator (participant.py:347), although types.py:58-59 has the collaborative fields "carried from day one". It takes no
search, and the theorem `SimNeverRaises` draws the border (`NeedsAreGiven`).

messages.py:4-9 says that "heartbeats and renewals are keyed by (sender, stamp)" and that rebroadcasting any
message is "always safe", but `_on_lease_renewal` (participant.py:204-216) reads no stamp: a renewal that is late or handled
again extends the lease, or grants it again after it was released on completion. `fleet` reaches such states; a lease on a completed task is harmless, one whose holder is gone delays the
task by a lease. This is why `RebroadcastSafe` exempts leases and `MissionInTime` and `ConflictsResolve` allow for them.

A round with more tasks than participants
stays open until its timeout, since nobody leases the rest (participant.py:338-342). So a
task orphaned by a crash may wait for more than one timeout, longer than
the comment of `test_recovery_latency_bounded` (test_coordination.py:101) suggests; the bound of
`NeverStalls` allows for it.

`task_finished` (participant.py:121) overwrites
the completer that `_on_completed` keeps with `setdefault` and that the comment at
participant.py:78 calls the original one. It takes a duplicate execution as in
`system_window`, and nothing reads the name.

`ExclusiveExecution` is part of what `TaskMission` promises and `system_crashes` shows, where links have no delay; it fails in
`system_window`: the difference is the skew of adoption times that delay brings.
A round can be framed on a flag that is older than the last dispatch whenever the heartbeat interval is longer than the window, as
in the defaults of `CoordinationParticipant` (1 s and 8 ticks, with the simulator's ticks of 0.1 s): that is
`system_defaults`. A dispatch then replaces what the robot executes, a task is begun by a robot that has not finished the one before, and `TaskMission`'s `Spec` fails.
`system_crashes` shows that `Spec` holds for an interval of 2 and a window of 3, where every flag is newer than the round by the time a win is
dispatched; in the same instance with the interval and the lease of the defaults it fails, while `MissionSucceeds`, `NeverStalls` and `ExclusiveExecution` still
hold. What remains with such an interval is `AtLeastOnce`, and progress after a fault, and `system_lossy` checks both. The ROS node has an interval of 0.5 s, 5 periods of its timer, within its window of 8; what
brings in old flags there is loss, or a partition as in `fleet_partition`.

### Bounds and why they suffice

* Two agents and three tasks are the least with outbidding, a second-best task and
  a free task; three agents on a line are the least with gossip through a third
  party, where an agent sees its own old bids again.
* The matrices include ties, negative values and a spread of several epsilons, so that
  bidding wars take more than one bid.
* Delays of 0 and 1 per copy reorder copies of the same link; with a window of 3, quiet agents are
  woken again by what comes through the cut or over two hops.
* All runs have lease = 2 * eta * interval and a round timeout longer than the lease. `system_lossy` and
  `system_defaults` have the default interval of 10 ticks, longer than a window, so that flags may be older than a
  dispatch; `system_crashes` and the runs of `RosFleet` have 2 against 3, the order of the ROS node. `system_defaults` has the defaults of all of them
  (window 8, lease 60, timeout 300); `system_lossy` and `system_window` have windows from `suggested_quiescence`, and `system_lossy` a timeout of 80 instead of 300,
  so that a run after a crash stays short enough to search.
  `MaxTime` is a deadline: `TimeOut` violates `MissionSucceeds`. In `system_lossy`
  `OneFaultIsMadeGood` does so only after at most one fault: 190 ticks are two round
  timeouts and 30 for rounds and execution, no more than a crash may take (180 are not enough); a crash and a lost copy together may take 195, and
  some such runs time out. One lost copy is any one of any broadcast; theorems are for any number.
* In `fleet` a task of 16 periods is longer than a lease and a stall of 14 longer than a lease and
  shorter than the round timeout of 24, so that a stalled host comes back to a fleet that has moved on. `FaultsUntil`
  = 14 covers start-up, the first round, the first task and the start of the second. `Patience` = 60 allows for a
  lease to lapse, a round to time out and the longer task, done twice; with `MaxTime` = 90 every disturbance
  is followed by the whole of it (14 + 14 + 60 < 90). `ConflictsResolve` allows two heartbeat intervals, of which
  the fault may void one.
* `MaxTicks` in `harness_lossless` is never reached (`Returns` would fail); in `harness_lossy`, 9 ticks include rounds that return,
  that fail the check and that give up.
* Six tasks are the least with a join, a chain behind it and an independent chain; three
  robots are more than the tasks that are sometimes available, and fewer than
  at other times, so that rounds with and without idle slots occur. Of the tasks without a position one is part of the join and one starts the independent chain.
* Deadlock is checked in `AuctionRound`. The harness, the simulator and the allocator
  stop when they return or raise, so those runs do not check it; nor
  does `RosFleet`, which is cut at `MaxTime`.

### Fairness

* `RoundSettles`: weak fairness of every agent's tick (a timer in `agent_node.py`, a
  loop in `run_round`) and of delivering a table that is still news. The second
  assumes that a link does not lose every copy: an agent repeats its table for a whole window
  of ticks, and the repetition is the code's answer to loss. It is an assumption about
  the network, not something the code enforces.
* `Completes`: weak fairness of the next-state relation, `allocate` being a loop.
* `Returns`: the same of `run_round`;
  no assumption about the network beyond lossless links.
* `SystemSim` and `RosFleet` need none: their liveness claims are bounds on the clock
  (`MissionSucceeds`, `NeverStalls`, `MissionInTime`, `ConflictsResolve`), safety properties. A robot has its turn
  every period, as a timer of a live host does; a host that does not respond is a `Stall`.

## 4. What is proved

Each theorem is proved by TLAPS for every value of the constants that satisfies the modules' assumptions, which
say what the constructors and argument checks of the code reject otherwise: `RoundConfigAssumption`,
`RoundAssumption` (non-negative ids, finite sets, no more agents than tasks, no two tasks at one place of
the scan), `NetworkAssumption`, `HarnessAssumption`, `AllocatorAssumption` (times are non-negative), `AttractionAssumption`
(benefits are numbers), `FleetAssumption`
(robots and tasks are finitely many non-negative ids, prerequisites are tasks, no two tasks at one place of the scan, durations
and travel times non-negative),
`SystemAssumption` and `DeploymentAssumption` (every robot has one turn in each order of phases, bounds are numbers). TLC evaluates them in the runs.

### A round, over any network (`AuctionRoundProofs`)

For every finite set of agents and tasks, all benefits, and messages that are lost, repeated and reordered at will:

| Theorem | States |
|---|---|
| `TypeCorrect` | `Spec => []TypeOK` |
| `PricesRise` | `Spec => PricesNeverDrop` (I1) |
| `OwnBidsAreKnown` | `Spec => []OwnBidsKnown` |
| `ClaimsAreSingle` | `Spec => []SingleClaim` |
| `SlackStaysSmall` | `Spec => []EpsilonSlack` |
| `BidsNeverAssert` | `Spec => []AssertionsHold`: an outbid agent has a bid to place, and it passes the assertions of `PriceTable.bid` |
| `PricesAreBounded` | `Spec => []PricesBounded` |
| `Refinement` | `Spec => ImplementsSerialAuction` |
| `SnapshotsAreSingle` | `Spec => []OneTaskEach`: one task per agent on the merged table |
| `AgreementIsMatching` | `Spec => []AgreedMatching` |
| `AgreementIsNearOptimal` | `Spec => []NearOptimal` |

**The argument.** The invariant, `RoundInv(agents, messages)` of `RoundAgentsProofs`, is a predicate of the agents and of
the messages that may still arrive, so that the harness can use it too. `SingleClaim` is not inductive: a table that arrives could name an
agent as the bidder of a task it no longer claims. `OwnBidsKnown` excludes it: no
table or message has an entry naming `a` above `a`'s own entry, so the max rule never
imports one. It is inductive with the types since an agent writes its bid to its own
table before it broadcasts, and its entries only rise. `EpsilonSlack` then follows the
code: after a bid of v - w + epsilon the task is worth w - epsilon, all others at most w;
later merges only raise prices, and a raise of the agent's own task is by another bidder, so
that it is outbid. For the refinement, the merged table exists because the agents are finite
and the order of entries is total. A delivery does not change it (messages are below it).
A tick changes it only if the bid rises above the merged entry, and then the bidder holds
nothing in the merged table: an entry naming it there would be its own entry
(`OwnBidsKnown`), for its assignment (`SingleClaim`), which it has lost.
`AgreedMatching` also needs that an entry without a bidder is the initial one.

`NearOptimal` is the duality argument of the auction algorithm, with the code's asymmetry: there may
be more tasks than agents. Agents within epsilon of their best, on equal tables, beat any matching M by
less than epsilon each, up to the prices of the tasks that only one of the two matchings uses; a task
that only M uses was never bid on, so its price is 0, and no price is negative. The sums are `FoldSet`s of the community
modules, which TLAPS does not unfold; `FoldLemmas` proves from their definition, by the choice of smallest
counterexamples instead of the library's induction theorems, that such a fold exists, what it is for a set with one element more,
and that sums are monotone and additive.

`PricesBounded` is why bidding ends. While an agent is outbid, the others hold distinct tasks on the merged table, and there are at least as
many tasks as agents: some task has no bid anywhere (`OutbidLeavesATask`), and costs nothing on the bidder's own, however stale, table. If it is not the task bid on,
the new price is at most its benefit's distance plus epsilon (`BidStaysNear`): a spread plus epsilon. If it is, the price is bounded by what the
second-best task costs, another spread plus epsilon, and every task has a bid: nobody is outbid from then on. Hence the factor 2, and no bid after it.

### The harness (`RoundHarnessProofs`)

| Theorem | States | If |
|---|---|---|
| `HarnessTypes` | `Spec => []TypeOK` | |
| `ReturnsNearOptimal` | `Spec => []ReturnedNearOptimal` | |
| `RunRoundKeepsContract` | what is returned is in `RoundOutcomes` of the benefits it was called with, and these stay as they are | |
| `HarnessRefinement` | `Spec => ImplementsSerialAuction` | |
| `HarnessPricesBounded` | the bound of `PricesBounded` in the harness | |
| `SilenceIsInformed` | `Spec => []NewsOnItsWay` | lossless, `LinksAppearEarly` |
| `ReturnsAgree` | `Spec => []ReturnedAgreed` | and `ConnectedLate` |
| `LosslessIsConsistent` | the consistency check never fails | and `ConnectedLate` |

**The hypotheses.** `LinksAppearEarly`: a link may vanish at any tick, and appear at ticks before `QuiescenceRounds`,
when nobody can be quiet yet. (An agent that is quiet says nothing to a neighbour it gets later.) `ConnectedLate`: from that tick on the
topology is connected. A fixed connected topology satisfies both, and so does the partition that heals
in `harness_lossless`; the rest of the proof puts no bound on delays.

**The argument.** `HarnessInv` is `RoundInv` of the agents and of the payloads in flight, with the control state
of the loop; a batch of deliveries and the turn of an agent are sequences of the steps of `AuctionRound`. A batch is a
`FoldLeft`; `HandledOneByOne` turns it into a sequence of tables that the invariant is carried along.
`ReturnsNearOptimal` does not need lossless links: the check of `run_round` does not compare tables,
only assignments with merged bidders, and `OwnBidsKnown` makes up for the rest.
`NewsOnItsWay` is not inductive. `NewsInv` adds that what is in flight its sender still knows, that an agent which has had
its turn in this iteration is clean and not outbid, and that nobody has counted more quiet ticks than there were ticks (`CountsTicks`): this is what excludes that an agent is quiet
before the last link appears. Silence of everybody and an empty queue then make the set of agents that know an entry
closed under links, and by `ConnectedLate` it is everybody.

### The allocator (`RepeatedRoundsProofs`)

| Theorem | States | If |
|---|---|---|
| `PlanTypes` | `Spec => []TypeOK` | |
| `ScheduleIsSound` | `Spec => []ScheduleSound` | |
| `EveryTaskAccounted` | `Spec => []Accounted` | |
| `NoRobotIdles` | `Spec => []NoIdling` | |
| `SetsOutFromLastSite` | `Spec => []SetsOutFromLast` | `TasksTakeTime` |
| `MakespanIsAboveBound` | `Spec => []MakespanAboveBound` | |
| `RoundsAreAccepted` | `Spec => []RoundsWellPosed`: the checks of `run_round` pass for every round asked for, and idle slots are worth less than any task | |
| `EveryRoundStartsWork` | after every round somebody starts a task | |

**Allocator and round.** `RepeatedRounds` assumes of a round what `RoundContract` says, and `RunRoundKeepsContract` proves it of
`run_round`; `RoundHarness` assumes of the benefits what the constructors check (`RoundAssumption` and `Benefits`, which `Accepted` states
of a single call), and `RoundsAreAccepted` proves it of `allocate`. So what is proved of schedules holds of the allocator over the simulated transport, for every round that returns. `EveryRoundStartsWork` is a matter of
counting: there are fewer slots than idle robots, and a matching gives every robot a task or slot of its own. This is why `RunRound` leaves
out the case in which nobody is at work after a round (`repeated_rounds.py:98`).

**The hypothesis.** `TasksTakeTime`: every task takes more than no time. The code does not check it. Two tasks of
one robot that start at the same time are not ordered by the schedule that `SetsOutFromLast` reads; with a
travel time of 0 as well, such a pair may occur.

**The argument.** `PlanInv` says what the loop's variables mean: entries under way are scheduled, one per
robot, not over before `now`; the rest of the schedule is over and its tasks are completed; every completed task
has an entry that is over. Each further property has an invariant of its own on top: `NoneIdles` (while a task is ready and has not started, until now, all
robots work), `AtLastSite` (a robot's place is the site of its last entry that has one, or its home, whatever it is doing), `LoadsOK` (the robots' workloads add up to the
durations scheduled, none above the time it had), `AccountOK`. Dependents, a least fixed point computed
by the code with a work list, are shown to be closed: a task that needs a blocked one is
blocked, so that the schedulable tasks are a DAG if all are and `allocate` stops early only without robots.
The lower bound is proved for both of its parts: an entry's finish is at least the earliest finish of its task on the
critical path, and the makespan times the number of robots is at least the sum of the workloads.

### The fleets (`ParticipantProofs`, `SystemSimProofs`, `RosFleetProofs`)

For every finite fleet and mission, any travel times, attractions and intervals; in the simulator for any topology, delays,
losses, crashes and injections, in the deployment for any losses, late messages, stalls, crashes, relaunches and
partitions the model has:

| Theorem | States | Of |
|---|---|---|
| `SimTypes`, `FleetTypes` | `Spec => []TypeOK`; that no history overflows is a part of the second | both |
| `ExecutorsInStep` | `Spec => []HostInStep` | `SystemSim` |
| `RecordsAreTrue`, `FleetRecordsAreTrue` | `Spec => []CompletionsTrue` | both |
| `PrerequisitesComeFirst` | in the list of executions every task comes after all it requires | `SystemSim` |
| `SetsOutInOrder` | a node is at work on a task only if its prerequisites were finished | `RosFleet` |
| `CompletesInOrder` | what was finished was finished after something that finished each prerequisite | `RosFleet` |
| `HandlersAreIdempotent` | `Spec => []RebroadcastSafe` | `RosFleet` |
| `SimCarriesOutMission`, `FleetCarriesOutMission` | `Spec => CarriesOutMission`, that is, `TaskMission`'s `AtLeastOnce` under the refinement mapping | both |
| `BidsNeverFail`, `BidsOfNodesNeverFail` | an agent has exactly one bid to place, and the assertion of `PriceTable.bid` holds for it | both |
| `TicksHaveOneOutcome`, `NodeTicksHaveOneOutcome` | `tick` never blocks and has one result in every state reached | both |
| `TimersMatchWork` | `Spec /\ []WinnersAreReady => []TimerMatches` | `RosFleet` |
| `NoCompletionIsEarly` | `Spec /\ []WinnersAreReady => []CompletionsEarned` | `RosFleet` |
| `ProcessesGoOn` | `Spec /\ []WinnersAreReady => []CallbacksNeverRaise`, if `GraphsHold` | `RosFleet` |
| `SimNeverRaises` | `Spec => []TicksNeverRaise`, if `NeedsAreGiven` and the tasks that are not collaborative have no cycle | `SystemSim` |
| `SimNeverGoesBack`, `NodesNeverGoBack` | every step is `Forward` for every participant (of a living process) | both |
| `SuccessIsEarned` | `Spec => []CompleteMeansDone`, the part of `MissionSucceeds` that is not about exceptions and time | `SystemSim` |
| `OnlyTimeRunsOut` | `MissionSucceeds` unless `run` times out, under the hypotheses of `SimNeverRaises` | `SystemSim` |

**The hypothesis.** `NeedsAreGiven`: a task that is not collaborative needs only such tasks of the mission. A collaborative prerequisite
breaks it (section 3); with a prerequisite that is itself injected, a participant would raise that ticks between the two
injections.

In `RosFleet` a node may win a task before it has the array that lists it, or while it executes another. `WinnersAreReady` says
that it does neither: an agent whose next tick would end its round with a task (`AboutToWin`) knows the task and is not executing. The code does not
check it, and it is not a property of the code: in the instance of `fleet_partition` it fails. It is there
for the three theorems, which show that it is all that stands between the code and its timers: whatever else is lost, late,
stalled, crashed or cut off, no timer is left behind, no work ends early and no process dies. `GraphsHold` (the mission is closed, the
tasks that are not collaborative need only such tasks, without a cycle) is for `TaskDag` only; a graph that arrives in arrays of closed missions is closed
at every node at all times (`ArraysComplete`), on a relaunched one as well. `NodeAssumption` says that `NoTimer` is no timer.

**The invariant.** `ParticipantProofs` is about the operators of `Participant`, whoever calls them. Given what was asked
for, `known`, and what was done, by whom, `done`, it defines the participants that are *sound* (`Members`) and the messages
that are (`Reports`). A sound participant knows tasks of `known` only; its completions name who did them according to
`done`; what it executes, and what its agent bids on, is known, with all prerequisites done
(`Enabled`); the round it follows offers such tasks only. A sound message reports a completion of `done` or offers enabled
tasks. Each handler and each part of `tick` leads from sound to sound (`HandleResult`, `TickResult`), and
soundness is never lost when more is done (`MoreDone`): so a replica may be as late as it likes. The invariants of the hosts are then
short. `SimInv`: the participants and the copies in flight are sound of `executions`, and executor and participant are
in step. `FleetInv`: nodes, inboxes and latched array are sound of `finished`, no more than `TopicDepth` messages of a topic
wait in a box, and the clockwork of turns is in order. None of the theorems follows from its own statement: that
`CompletionsTrue` is preserved when a `TaskCompleted` is handled takes that every copy in flight is true, which takes that its sender's
replica was; that a task may be begun takes that the announcement it was won in, however old, was framed on a sound replica.

**Ticks.** A round's guarantees end where tables of two rounds mix (`system_rounds_mix`), so that `BidsNeverAssert` does not carry over.
What remains in `Members` is enough: prices are numbers, rows are not empty and offer idle slots for all robots at most, and no two tasks are at one
place of the scan. Then the scan's order has one maximum (`ScanResult`), the increment is at least epsilon (`OneBid`), and each part of
`tick` has one result (`TickHasOneOutcome`). For `SimNeverRaises` the invariant keeps that everybody knows the
mission but for its collaborative tasks (`Briefed`): no handler forgets a task, and a set of tasks between this and all
of them is closed and has no cycle (`GraphHolds`).

**Timers.** `AtWork` is the invariant of the timers: the node's task is what the participant executes, a task it knows; with it there
is one timer, `_exec_timer`, set for that task and due at the end of its wait. Callbacks of subscriptions leave it alone (`DrainedLeavesWork`). A
tick keeps it by cases that `TickSound` lists: nothing changes, a lost lease aborts, or a win is dispatched, and then readiness says that there was nothing to
replace (`TickKeepsWork`). Only the timer of the work can fire, and it ends it (`FireEndsWork`). `WorkInv` adds the history and, under
`GraphsHold`, that what a node knows is closed under prerequisites.

**Repetition.** `RebroadcastSafe` asks whether the last message a node took up would still change it after all that
came in the same turn. `Later(p, q)` orders participants by what they have seen: stamps, round by `Precedes`, completions. `Heeded(r, p, m, at)` says that `m` is
not news to `p`. Handling makes a message heeded (`HandleHeeds`), it stays heeded later (`HeededRemains`), and a heeded message changes
leases only (`HeededChangesNothing`).

**Refinement.** `known` is what was asked for, `doing` the executor's task per robot (`Doing`), `completed` what the history lists. All steps but
those of executors and timers stutter. A tick or a callback may replace what one robot does (`OneAtATime`); what it does
then is enabled by the invariant (`WorkIsSound`), which is `Undertake`. A crash or an abort is `Abandon`, the end of executions is `Complete`, of several
robots at once in the simulator. `AtLeastOnce` is as far as a proof for all instances can go: that a task is
begun by one robot at a time, and never again once it is completed (`TaskMission`'s `Spec`), depends on the
proportions of windows, delays and leases. It holds in `system_crashes` and fails in `system_window` and
`system_defaults`.

**Never back.** `Forward(p, q)`: `q` has seen all that `p` has (`Later`: tasks, completions, stamps, the order of rounds), its
`maxRoundSeen` is no less, and if it is in the same round then it has not joined the auction again, and its table or the one it relays has
only risen. It is proved part by part (`HandleForward`, `SweepForward`, `TickRoundForward`, ...) and put together by
`ForwardTransitive`, since a callback or a `DeliverDue` is many handlers in a row. It fails for leases, which expire and are stolen back: they are not in it.

**Success.** `run` ends with `complete` when every live replica calls the mission complete. The replicas know every
task that was asked for (`LiveKnowAll`, kept because participants forget nothing and an injection is handed to all of the living), and what they
take for completed was executed (`RecordsAreTrue`); so nothing is left behind with the dead.

### Only model-checked

* Liveness: `RoundSettles`, `Returns`, `Completes`.
* What depends on proportions of the intervals and is no theorem: the deadlines `NeverStalls`,
  `MissionInTime`, `ConflictsResolve`, `OneFaultIsMadeGood` and that of `MissionSucceeds`; and `ImplementsTaskMission`, which fails with a
  heartbeat interval longer than the window.

## 5. Not modelled

* ROS message conversions (`conversions.py` copies field by field, both ways; `TaskInjected` has no
  message, task arrays stand for it), the optimum of the Hungarian reference (scipy's; `NearOptimal`
  quantifies over matchings instead, with `Total` for `total_benefit`), experiments, analysis, packaging: no state
  machine of their own.
* Message counters, event logs, the failed/recovered lists of
  `sweep` that the participant drops.
* Clocks that differ between hosts: the node passes its own clock to its own participant only, and
  stamps of others are not read.
* A mission node that dies. It is needed for injections and for robots that are launched later; `TRANSIENT_LOCAL`
  history goes with its publisher.

## 6. Hazards without a property

* Float rounding in `bid`: `price + increment` may round to `price`. The model's prices are
  integers; the widths of the benefit model's floats would have to be modelled.
* Who completed a task that was executed twice (see section 3): nothing reads the name.

## 7. Plan

1. *Done*: price tables, agents, rounds, harness, participants, simulator, allocator, ROS nodes
   and their fleet, the abstract mission.
2. *Done*: proofs of the safety properties of the round, the harness and the allocator, and of both refinements of `SerialAuction`.
3. *Done*: proofs of what holds of fleets for all instances: types, executors in step, true records, order, repetition, and the
   refinement of `TaskMission`'s `AtLeastOnce` by both hosts; bids and ticks that never fail; timers and completions of nodes whose
   winners are ready.
4. *Done*: the interface between `RepeatedRounds` and `RoundHarness`, proved on both sides.
5. Left: a fleet of three nodes with two faults, for which the search has to be cut down first; proofs of deadlines.

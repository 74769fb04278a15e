---------------------------- MODULE RoundHarness ----------------------------
(***************************************************************************)
(* run_round of auction_core/validation/harness.py: one auction round over  *)
(* the simulated transport.  Each iteration of its loop hands over the      *)
(* messages that are due, ticks every agent in turn, broadcasts what the    *)
(* ticks return, and ends the round once nothing is in flight and every     *)
(* agent believes it has terminated.                                        *)
(***************************************************************************)
EXTENDS RoundAgents, SimTransport

CONSTANTS
  BenefitChoices,  \* the benefit matrices a round may start with
  TopologyChoices, \* what the topology may be, tick by tick
  Delays,          \* the values delay_ticks may take
  Lossy,           \* whether loss_prob > 0
  MaxTicks         \* max_ticks

ASSUME HarnessAssumption ==
  /\ BenefitChoices \subseteq Benefits
  /\ MaxTicks \in Nat \ {0}
  /\ TopologyChoices \subseteq [0..MaxTicks -> [Agent -> SUBSET Agent]]
  /\ Delays \subseteq Int
  /\ Delays # {}
  /\ Lossy \in BOOLEAN

VARIABLES
  topology, \* tick -> agent -> its neighbours, constant
  agents,   \* agent id -> its AuctionAgent
  queue,    \* the transport's queue
  now,      \* tick
  toTick,   \* the agents this iteration has yet to tick
  stage,    \* where in the iteration the loop is: "deliver", "tick", "end"
  outcome   \* "running", or how run_round ended

vars == <<topology, agents, queue, now, toTick, stage, outcome>>

TypeOK ==
  /\ topology \in TopologyChoices
  /\ agents \in [Agent -> AgentStates]
  /\ queue \in Seq(Copy(Agent, Messages))
  /\ now \in 0..MaxTicks
  /\ toTick \subseteq Agent
  /\ stage \in {"deliver", "tick", "end"}
  /\ outcome \in {"running", "returned", "inconsistent", "did_not_terminate"}

-----------------------------------------------------------------------------
Init ==
  /\ topology \in TopologyChoices
  /\ \E benefits \in BenefitChoices : agents = NewAgents(benefits)
  /\ queue = <<>>
  /\ now = 0
  /\ toTick = {}
  /\ stage = "deliver"
  /\ outcome = "running"

\* The agents once each copy of a batch was handled by its addressee, in order.
Handled(batch) ==
  FoldLeft(LAMBDA ags, q : Handed(ags, q.dest, q.payload), agents, batch)

GiveUp ==
  /\ outcome = "running" /\ stage = "deliver"
  /\ now >= MaxTicks
  /\ outcome' = "did_not_terminate"
  /\ UNCHANGED <<topology, agents, queue, now, toTick, stage>>

DeliverDue ==
  /\ outcome = "running" /\ stage = "deliver"
  /\ now < MaxTicks
  /\ agents' = Handled(Due(queue, now))
  /\ queue' = NotDue(queue, now)
  /\ stage' = "tick"
  /\ toTick' = Agent
  /\ UNCHANGED <<topology, now, outcome>>

\* send: a lossless link keeps every copy, a lossy one any of them.
Survivors(neighbours) == IF Lossy THEN SUBSET neighbours ELSE {neighbours}

TickAgent ==
  /\ stage = "tick"
  /\ LET a == CHOOSE b \in toTick : \A c \in toTick : b <= c
     IN  /\ \E ag \in AfterTick(a, agents[a]),
               kept \in Survivors(topology[now][a]) :
              \E delay \in [kept -> Delays] :
                /\ agents' = [agents EXCEPT ![a] = ag]
                /\ queue' = IF Terminated(ag)
                            THEN queue
                            ELSE SendPayload(queue, TableMessage(a, ag), kept, delay, now)
         /\ toTick' = toTick \ {a}
         /\ stage' = IF toTick = {a} THEN "end" ELSE "tick"
  /\ UNCHANGED <<topology, now, outcome>>

MergedPrices == Merged(agents)

\* Fault: each agent's claim is checked against its own table only.
ConsistentByOwnTable ==
  \A a \in Agent :
    LET task == agents[a].assignment
    IN  task # NoTask => agents[a].prices[task].bidder = a

\* _consistent_assignment does not raise.
Consistent ==
  \A a \in Agent :
    LET task == agents[a].assignment
    IN  task # NoTask =>
          /\ MergedPrices[task].bidder = a
          /\ \A b \in Agent \ {a} : agents[b].assignment # task

RoundOver ==
  /\ queue = <<>>
  /\ \A a \in Agent : Terminated(agents[a])

EndIteration ==
  /\ outcome = "running" /\ stage = "end"
  /\ \/ /\ RoundOver
        /\ outcome' = IF Consistent THEN "returned" ELSE "inconsistent"
        /\ UNCHANGED <<topology, now, stage>>
     \/ /\ ~ RoundOver
        /\ now' = now + 1
        /\ stage' = "deliver"
        /\ UNCHANGED outcome
  /\ UNCHANGED <<topology, agents, queue, toTick>>

Next == GiveUp \/ DeliverDue \/ TickAgent \/ EndIteration

\* A loop: it runs until it returns or raises.
Spec == Init /\ [][Next]_vars /\ WF_vars(Next)

-----------------------------------------------------------------------------
(* Safety *)

(***************************************************************************)
(* A round that returns has converged: every table is the merged one.       *)
(***************************************************************************)
ReturnedAgreed ==
  outcome = "returned" => \A a \in Agent : agents[a].prices = MergedPrices

(***************************************************************************)
(* Silence is informed: whatever an agent knows, each of its neighbours     *)
(* knows already, or has a message in flight that tells it, or will be told *)
(* by the agent's next broadcast, still due because its table is dirty or   *)
(* its window open, even once a partition has healed.  This is why an empty *)
(* queue may be taken for agreement.                                        *)
(***************************************************************************)
NewsOnItsWay ==
  \A a \in Agent :
    LET due == agents[a].dirty \/ agents[a].quiescent + 1 < QuiescenceRounds
        known(b, t) ==
          \/ AtMost(agents[a].prices[t], agents[b].prices[t])
          \/ \E i \in DOMAIN queue :
               /\ queue[i].dest = b
               /\ AtMost(agents[a].prices[t], queue[i].payload.entries[t])
    IN  \A b \in topology[now][a], t \in Task : known(b, t) \/ due

Total(matching) == TotalBenefit(agents, matching)

Result == [a \in Agent |-> agents[a].assignment]

(***************************************************************************)
(* Whatever was lost, delayed or cut off, an assignment run_round returns   *)
(* gives every agent a task of its own, for a total benefit within          *)
(* n * epsilon of the best matching: the consistency check is enough, the   *)
(* agents' tables need not agree.                                           *)
(***************************************************************************)
ReturnedNearOptimal ==
  outcome = "returned" =>
    /\ IsInjective(Result)
    /\ \A matching \in Injection(Agent, Task) :
         Total(matching) <= Total(Result) + Cardinality(Agent) * Epsilon

-----------------------------------------------------------------------------
Serial == INSTANCE SerialAuction WITH table <- MergedPrices

(***************************************************************************)
(* The merged table of a simulated round is that of a one-at-a-time         *)
(* auction, lost and delayed broadcasts included.                           *)
(***************************************************************************)
ImplementsSerialAuction == Serial!Spec

(***************************************************************************)
(* Over lossless links, however slow, a round returns an assignment: it     *)
(* neither gives up nor fails the consistency check.                        *)
(***************************************************************************)
Returns == <>(outcome = "returned")

=============================================================================

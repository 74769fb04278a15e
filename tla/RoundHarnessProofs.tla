------------------------- MODULE RoundHarnessProofs -------------------------
(***************************************************************************)
(* The theorems about RoundHarness.tla, for every finite set of agents and  *)
(* tasks, every benefit, topology, delay and bound on the ticks.  An        *)
(* iteration of run_round is a sequence of steps of a round: DeliverDue one *)
(* delivery per copy of the batch, TickAgent one tick.                      *)
(***************************************************************************)
EXTENDS RoundHarness, RoundContract, RoundAgentsProofs

\* The tables in flight.
Payloads(copies) == {q.payload : q \in Copies(copies)}

CopiesInFlight == Seq(Copy(Agent, Messages))

\* Ids are natural numbers, and there are finitely many.
LEMMA AgentIds == IsFiniteSet(Agent) /\ Agent # {} /\ Agent \subseteq Nat
BY RoundAssumption DEF RoundAssumption

\* What a queue holds.
LEMMA CopyFields ==
  ASSUME NEW copies \in CopiesInFlight, NEW q \in Copies(copies)
  PROVE  q.dest \in Agent /\ q.payload \in Messages /\ q.at \in Nat
<1>1. PICK i \in DOMAIN copies : q = copies[i]
  BY DEF Copies
<1>2. copies[i] \in Copy(Agent, Messages)
  BY DEF CopiesInFlight
<1> QED
  BY <1>1, <1>2 DEF Copy

-----------------------------------------------------------------------------
(* Handling a batch, copy by copy *)

\* A table leaves its addressee an agent.
LEMMA HandedType ==
  ASSUME NEW ags \in [Agent -> AgentStates], NEW a \in Agent, NEW m \in Messages
  PROVE  Handed(ags, a, m) \in [Agent -> AgentStates]
<1>1. HandleMessage(a, ags[a], m) \in AgentStates
  BY HandleMessageResult
<1>2. Handed(ags, a, m) = [ags EXCEPT ![a] = HandleMessage(a, ags[a], m)]
  BY DEF Handed
<1> QED
  BY <1>1, <1>2

\* after[k] are the agents once the first k copies of the batch are handled.
OneByOne(after, batch) ==
  /\ after[0] = agents
  /\ \A k \in 1..Len(batch) :
       after[k] = Handed(after[k - 1], batch[k].dest, batch[k].payload)
  /\ after[Len(batch)] = Handled(batch)

\* Handled is what handling one copy after the other leads to.
LEMMA HandledOneByOne ==
  ASSUME agents \in [Agent -> AgentStates], NEW batch \in CopiesInFlight
  PROVE  \E after : OneByOne(after, batch)
<1> DEFINE X == [Agent -> AgentStates]
           n == Len(batch)
           Defines(f) == f = [U \in SUBSET (1..n) |->
                                IF U = {} THEN agents
                                ELSE Handed(f[U \ {Max(U)}], batch[Max(U)].dest,
                                            batch[Max(U)].payload)]
           iter == CHOOSE f : Defines(f)
           step == [p \in (1..n) \X X |-> Handed(p[2], batch[p[1]].dest, batch[p[1]].payload)]
<1>1. n \in Nat /\ DOMAIN batch = 1..n
  BY DEF CopiesInFlight
<1>2. Handled(batch) = iter[1..n]
  <2>1. Handled(batch) =
          (CHOOSE f : f = [U \in SUBSET (DOMAIN batch) |->
                             IF U = {} THEN agents
                             ELSE Handed(f[U \ {Max(U)}], batch[Max(U)].dest,
                                         batch[Max(U)].payload)])[DOMAIN batch]
    BY Zenon DEF Handled, FoldLeft, MapThenFoldSet
  <2> QED
    BY <1>1, <2>1
<1>3. ASSUME NEW k \in 1..n PROVE batch[k].dest \in Agent /\ batch[k].payload \in Messages
  BY <1>1, CopyFields DEF Copies
<1> HIDE DEF n
<1>4. step \in [(1..n) \X X -> X]
  <2>1. ASSUME NEW k \in 1..n, NEW x \in X
        PROVE  Handed(x, batch[k].dest, batch[k].payload) \in X
    BY <1>3, HandedType
  <2> HIDE DEF X
  <2> QED
    BY <2>1
<1>5. \E f : Defines(f)
  <2>1. agents \in X
    OBVIOUS
  <2>2. PICK g \in [SUBSET (1..n) -> X] :
          \A U \in SUBSET (1..n) :
            g[U] = IF U = {} THEN agents ELSE step[<<Max(U), g[U \ {Max(U)}]>>]
    <3> HIDE DEF step, X
    <3>1. \E g \in [SUBSET (1..n) -> X] : ByMax(g, n, agents, step)
      BY <1>1, <1>4, <2>1, LeftFoldExists, Zenon
    <3> QED
      BY <3>1, Zenon DEF ByMax
  <2>3. ASSUME NEW U \in SUBSET (1..n), U # {}
        PROVE  g[U] = Handed(g[U \ {Max(U)}], batch[Max(U)].dest, batch[Max(U)].payload)
    <3>1. Max(U) \in 1..n
      BY <1>1, <2>3, LastOfPrefix
    <3>2. g[U \ {Max(U)}] \in X
      OBVIOUS
    <3> HIDE DEF X
    <3> QED
      BY <2>2, <2>3, <3>1, <3>2
  <2>4. g[{}] = agents
    BY <2>2
  <2>5. g = [U \in SUBSET (1..n) |->
               IF U = {} THEN agents
               ELSE Handed(g[U \ {Max(U)}], batch[Max(U)].dest, batch[Max(U)].payload)]
    <3> HIDE DEF X
    <3> QED
      BY <2>3, <2>4
  <2> QED
    BY <2>5
<1>6. Defines(iter)
  <2> HIDE DEF Defines
  <2> QED
    BY <1>5
<1> HIDE DEF iter
<1>7. \A U \in SUBSET (1..n) :
        iter[U] = IF U = {} THEN agents
                  ELSE Handed(iter[U \ {Max(U)}], batch[Max(U)].dest, batch[Max(U)].payload)
  BY <1>6, Zenon DEF Defines
<1> DEFINE after == [k \in 0..n |-> iter[1..k]]
<1>8. after[0] = agents
  <2>1. 1..0 = {} /\ 0 \in 0..n
    BY <1>1
  <2>2. {} \in SUBSET (1..n)
    OBVIOUS
  <2>3. iter[{}] = agents
    BY <1>7, <2>2, Zenon
  <2> QED
    BY <2>1, <2>3, Zenon
<1>9. ASSUME NEW k \in 1..n
      PROVE  after[k] = Handed(after[k - 1], batch[k].dest, batch[k].payload)
  <2>1. Max(1..k) = k /\ (1..k) \ {k} = 1..(k - 1)
    BY <1>1, LastOfPrefix
  <2>2. 1..k \in SUBSET (1..n) /\ 1..k # {} /\ k \in 0..n /\ k - 1 \in 0..n
    <3>1. k \in 1..k /\ k \in 0..n /\ k - 1 \in 0..n
      BY <1>1
    <3>2. \A j \in 1..k : j \in 1..n
      BY <1>1
    <3> QED
      BY <3>1, <3>2
  <2>3. iter[1..k] = Handed(iter[1..(k - 1)], batch[k].dest, batch[k].payload)
    BY <1>7, <2>1, <2>2
  <2> QED
    BY <2>2, <2>3
<1>10. after[n] = Handled(batch)
  BY <1>1, <1>2
<1> HIDE DEF after
<1>11. OneByOne(after, batch)
  BY <1>8, <1>9, <1>10 DEF OneByOne, n
<1> QED
  BY <1>11

(***************************************************************************)
(* A batch is a sequence of deliveries: it keeps the invariant of a round,   *)
(* with the tables of the batch still around, and the merged table.          *)
(***************************************************************************)
LEMMA BatchDelivers ==
  ASSUME NEW batch \in CopiesInFlight, NEW msgs, Payloads(batch) \subseteq msgs,
         RoundInv(agents, msgs), NEW after, OneByOne(after, batch)
  PROVE  \A k \in 0..Len(batch) : /\ RoundInv(after[k], msgs)
                                  /\ Merged(after[k]) = Merged(agents)
                                  /\ BenefitsOf(after[k]) = BenefitsOf(agents)
                                  /\ PriceInv(agents) => PriceInv(after[k])
<1> DEFINE n == Len(batch)
           Good == {k \in 0..n : /\ RoundInv(after[k], msgs)
                                 /\ Merged(after[k]) = Merged(agents)
                                 /\ BenefitsOf(after[k]) = BenefitsOf(agents)
                                 /\ PriceInv(agents) => PriceInv(after[k])}
<1>1. n \in Nat
  BY DEF CopiesInFlight
<1>2. 0 \in Good
  BY <1>1 DEF OneByOne
<1>3. ASSUME NEW k \in 1..n, k - 1 \in Good PROVE k \in Good
  <2> DEFINE old == after[k - 1]
             m == batch[k].payload
             a == batch[k].dest
  <2>1. /\ RoundInv(old, msgs) /\ Merged(old) = Merged(agents)
        /\ BenefitsOf(old) = BenefitsOf(agents)
        /\ PriceInv(agents) => PriceInv(old)
    BY <1>3
  <2>2. batch[k] \in Copies(batch)
    BY DEF Copies, CopiesInFlight
  <2>3. a \in Agent /\ m \in msgs
    BY <2>2, CopyFields DEF Payloads
  <2>4. after[k] = Handed(old, a, m)
    BY DEF OneByOne
  <2>5. k \in 0..n
    BY <1>1
  <2> HIDE DEF old, m, a, n
  <2>6. Delivers(old, after[k], msgs, msgs, a, m)
    BY <2>3, <2>4 DEF Delivers
  <2>7. RoundStep(old, after[k], msgs, msgs)
    BY <2>3, <2>6 DEF RoundStep
  <2>8. RoundInv(after[k], msgs)
    BY <2>1, <2>7, StepKeepsInv
  <2>9. Delivered(old, after[k], msgs, msgs, a, m)
    BY <2>1, <2>3, <2>6, DeliverStep DEF RoundInv
  <2>10. Merged(after[k]) = Merged(old)
    BY <2>1, <2>3, <2>7, <2>9, DeliverStutters
  <2>11. PriceInv(agents) => PriceInv(after[k])
    BY <2>1, <2>7, StepKeepsCap
  <2>12. BenefitsOf(after[k]) = BenefitsOf(agents)
    BY <2>1, <2>7, BenefitsStay DEF RoundInv
  <2> QED
    BY <2>1, <2>5, <2>8, <2>10, <2>11, <2>12
<1> HIDE DEF Good, n
<1>4. \A k \in 0..n : k \in Good
  BY <1>1, <1>2, <1>3, PrefixInduction
<1> QED
  BY <1>4 DEF Good, n

\* Losing tables, or having handled them, does not harm.
LEMMA FewerTables ==
  ASSUME NEW ags, NEW msgs, NEW fewer, RoundInv(ags, msgs), fewer \subseteq msgs
  PROVE  RoundInv(ags, fewer)
<1>1. RoundStep(ags, ags, msgs, fewer)
  BY DEF RoundStep, Loses
<1> QED
  BY <1>1, StepKeepsInv

-----------------------------------------------------------------------------
(* The loop *)

(***************************************************************************)
(* Besides the invariant of the round: where the loop is, and what the last *)
(* check before a return saw.                                               *)
(***************************************************************************)
LoopOK ==
  /\ topology \in TopologyChoices
  /\ queue \in CopiesInFlight
  /\ now \in 0..MaxTicks
  /\ toTick \subseteq Agent
  /\ stage \in {"deliver", "tick", "end"}
  /\ outcome \in {"running", "returned", "inconsistent", "did_not_terminate"}
  /\ stage # "deliver" => now < MaxTicks
  /\ stage = "tick" => toTick # {} /\ outcome = "running"
  /\ stage = "end" => toTick = {}

ChecksPassed ==
  outcome = "returned" => stage = "end" /\ RoundOver /\ Consistent

HarnessInv ==
  /\ LoopOK
  /\ RoundInv(agents, Payloads(queue))
  /\ ChecksPassed

\* The agent whose turn it is to tick.
Turn == CHOOSE b \in toTick : \A c \in toTick : b <= c

\* There is one.
LEMMA TurnExists ==
  ASSUME toTick \subseteq Agent, toTick # {}
  PROVE  Turn \in toTick
<1>1. toTick \in SUBSET Nat /\ IsFiniteSet(toTick)
  BY AgentIds, FS_Subset
<1>2. \E x \in toTick : \A y \in toTick : x <= y
  BY <1>1, SmallestNumber
<1> QED
  BY <1>2 DEF Turn

\* The broadcast of a tick that leaves its agent in the state ag.
TellsNeighbours(a, ag) ==
  /\ \A q \in Copies(queue') : q \in Copies(queue) \/ q.payload = TableMessage(a, ag)
  /\ ~ Lossy /\ ~ Terminated(ag) =>
       \A b \in topology[now][a] :
         \E q \in Copies(queue') : q.dest = b /\ q.payload = TableMessage(a, ag)

\* What TickAgent does, for the agent whose turn it is.
TurnTicks(a) ==
  /\ a \in toTick
  /\ stage = "tick"
  /\ Ticks(agents, agents', Payloads(queue), Payloads(queue'), a)
  /\ queue' \in CopiesInFlight
  /\ Copies(queue) \subseteq Copies(queue')
  /\ \E ag \in AfterTick(a, agents[a]) : /\ agents' = [agents EXCEPT ![a] = ag]
                                         /\ TellsNeighbours(a, ag)
  /\ toTick' = toTick \ {a}
  /\ stage' = IF toTick = {a} THEN "end" ELSE "tick"
  /\ UNCHANGED <<topology, now, outcome>>

LEMMA TickAgentStep ==
  ASSUME HarnessInv, TickAgent
  PROVE  TurnTicks(Turn)
<1> DEFINE a == Turn
<1>1. a \in toTick /\ a \in Agent
  BY TurnExists DEF HarnessInv, LoopOK, TickAgent
<1>0. PICK ag \in AfterTick(a, agents[a]), kept \in Survivors(topology[now][a]) :
        \E delay \in [kept -> Delays] :
          /\ agents' = [agents EXCEPT ![a] = ag]
          /\ queue' = IF Terminated(ag) THEN queue
                      ELSE SendPayload(queue, TableMessage(a, ag), kept, delay, now)
  BY DEF TickAgent, Turn
<1>2. PICK delay \in [kept -> Delays] :
        /\ agents' = [agents EXCEPT ![a] = ag]
        /\ queue' = IF Terminated(ag) THEN queue
                    ELSE SendPayload(queue, TableMessage(a, ag), kept, delay, now)
  BY <1>0
<1>3. /\ stage = "tick"
      /\ toTick' = toTick \ {a}
      /\ stage' = IF toTick = {a} THEN "end" ELSE "tick"
      /\ UNCHANGED <<topology, now, outcome>>
  BY DEF TickAgent, Turn
<1> HIDE DEF a
<1>4. TableMessage(a, ag) \in Messages
  <2>1. agents[a] \in AgentStates
    BY <1>1 DEF HarnessInv, RoundInv, Typed
  <2>2. ag \in AgentStates
    BY <1>1, <2>1, TickResult
  <2> QED
    BY <1>1, <2>2 DEF TableMessage, Messages, AgentStates
<1>5. kept \in SUBSET Agent /\ delay \in [kept -> Int]
  <2>1. topology[now][a] \in SUBSET Agent
    <3>1. topology \in [0..MaxTicks -> [Agent -> SUBSET Agent]] /\ now \in 0..MaxTicks
      BY HarnessAssumption DEF HarnessInv, LoopOK, HarnessAssumption
    <3> QED
      BY <1>1, <3>1
  <2>2. kept \in SUBSET Agent
    BY <2>1 DEF Survivors
  <2> QED
    BY <2>2, HarnessAssumption DEF HarnessAssumption
<1>6. now \in Nat /\ queue \in Seq(Copy(Agent, Messages))
  BY HarnessAssumption DEF HarnessInv, LoopOK, HarnessAssumption, CopiesInFlight
<1> DEFINE sent == SendPayload(queue, TableMessage(a, ag), kept, delay, now)
<1>7. /\ sent \in CopiesInFlight
      /\ Copies(queue) \subseteq Copies(sent)
      /\ \A q \in Copies(sent) : q \in Copies(queue) \/ q.payload = TableMessage(a, ag)
      /\ \A b \in kept : \E q \in Copies(sent) : q.dest = b /\ q.payload = TableMessage(a, ag)
  <2>1. PayloadSent(sent, queue, Agent, Messages, TableMessage(a, ag), kept)
    BY <1>4, <1>5, <1>6, AgentIds, SendPayloadResult
  <2> QED
    BY <2>1 DEF PayloadSent, CopiesInFlight
<1> HIDE DEF sent
<1>8. /\ queue' \in CopiesInFlight
      /\ Copies(queue) \subseteq Copies(queue')
      /\ Copies(queue) \subseteq Copies(queue')
      /\ Payloads(queue') \subseteq Payloads(queue) \cup Broadcasts(a, ag)
      /\ TellsNeighbours(a, ag)
  <2>0. ~ Lossy => kept = topology[now][a]
    BY DEF Survivors
  <2>1. CASE Terminated(ag)
    BY <1>2, <1>6, <2>1 DEF CopiesInFlight, TellsNeighbours
  <2>2. CASE ~ Terminated(ag)
    <3>1. queue' = sent
      BY <1>2, <2>2 DEF sent
    <3>2. Broadcasts(a, ag) = {TableMessage(a, ag)}
      BY <2>2 DEF Broadcasts
    <3>3. TellsNeighbours(a, ag)
      BY <1>7, <2>0, <3>1 DEF TellsNeighbours
    <3> QED
      BY <1>7, <3>1, <3>2, <3>3 DEF Payloads
  <2> QED
    BY <2>1, <2>2
<1>9. Ticks(agents, agents', Payloads(queue), Payloads(queue'), a)
  BY <1>2, <1>8 DEF Ticks
<1> QED
  BY <1>1, <1>2, <1>3, <1>8, <1>9 DEF TurnTicks, a

\* What DeliverDue does.
BatchHandled ==
  /\ stage = "deliver" /\ outcome = "running" /\ now < MaxTicks
  /\ Due(queue, now) \in CopiesInFlight
  /\ Copies(Due(queue, now)) \subseteq Copies(queue)
  /\ agents' = Handled(Due(queue, now))
  /\ queue' \in CopiesInFlight
  /\ Copies(queue') \subseteq Copies(queue)
  /\ \A q \in Copies(queue) : q \in Copies(Due(queue, now)) \/ q \in Copies(queue')
  /\ stage' = "tick" /\ toTick' = Agent
  /\ UNCHANGED <<topology, now, outcome>>

LEMMA DeliverDueStep ==
  ASSUME HarnessInv, DeliverDue
  PROVE  BatchHandled
<1>1. queue \in Seq(Copy(Agent, Messages)) /\ now \in Int
  BY HarnessAssumption DEF HarnessInv, LoopOK, HarnessAssumption, CopiesInFlight
<1>2. \A q \in Copies(queue) : q.at \in Nat
  BY CopyFields DEF HarnessInv, LoopOK
<1>3. /\ Due(queue, now) \in CopiesInFlight
      /\ NotDue(queue, now) \in CopiesInFlight
      /\ Copies(Due(queue, now)) \subseteq Copies(queue)
      /\ Copies(NotDue(queue, now)) \subseteq Copies(queue)
      /\ \A q \in Copies(queue) : q.at <= now => q \in Copies(Due(queue, now))
      /\ \A q \in Copies(queue) : q.at > now => q \in Copies(NotDue(queue, now))
  BY <1>1, DueResult DEF CopiesInFlight
<1>4. \A q \in Copies(queue) : q.at <= now \/ q.at > now
  BY <1>1, <1>2
<1> QED
  BY <1>3, <1>4 DEF DeliverDue, BatchHandled

\* The agents after a batch, and the tables still in flight.
LEMMA BatchKeepsInv ==
  ASSUME HarnessInv, BatchHandled
  PROVE  /\ RoundInv(agents', Payloads(queue'))
         /\ Merged(agents') = Merged(agents)
         /\ BenefitsOf(agents') = BenefitsOf(agents)
         /\ PriceInv(agents) => PriceInv(agents')
<1> DEFINE batch == Due(queue, now)
           n == Len(batch)
<1>1. RoundInv(agents, Payloads(queue)) /\ agents \in [Agent -> AgentStates]
  BY DEF HarnessInv, RoundInv, Typed
<1>2. batch \in CopiesInFlight /\ Payloads(batch) \subseteq Payloads(queue)
  BY DEF BatchHandled, Payloads
<1>3. agents' = Handled(batch) /\ Payloads(queue') \subseteq Payloads(queue)
  BY DEF BatchHandled, Payloads
<1> HIDE DEF batch
<1>4. PICK after : OneByOne(after, batch)
  BY <1>1, <1>2, HandledOneByOne
<1>5. n \in 0..n /\ after[n] = agents'
  BY <1>2, <1>3, <1>4 DEF CopiesInFlight, OneByOne
<1>6. /\ RoundInv(after[n], Payloads(queue))
      /\ Merged(after[n]) = Merged(agents)
      /\ BenefitsOf(after[n]) = BenefitsOf(agents)
      /\ PriceInv(agents) => PriceInv(after[n])
  BY <1>1, <1>2, <1>4, <1>5, BatchDelivers
<1> QED
  BY <1>3, <1>5, <1>6, FewerTables

-----------------------------------------------------------------------------
(* The invariant of the loop *)

\* Nothing is in flight when a round starts.
LEMMA InitHarness == Init => HarnessInv
<1> SUFFICES ASSUME Init PROVE HarnessInv
  OBVIOUS
<1>1. PICK benefits \in BenefitChoices : agents = NewAgents(benefits)
  BY DEF Init
<1>2. Payloads(queue) = {}
  BY DEF Init, Payloads, Copies
<1>3. RoundInv(agents, Payloads(queue))
  BY <1>1, <1>2, HarnessAssumption, InitialRound DEF HarnessAssumption
<1>4. LoopOK
  <2>1. queue \in CopiesInFlight
    BY DEF Init, CopiesInFlight
  <2>2. now \in 0..MaxTicks
    BY HarnessAssumption DEF Init, HarnessAssumption
  <2> QED
    BY <2>1, <2>2 DEF Init, LoopOK
<1> QED
  BY <1>3, <1>4 DEF HarnessInv, ChecksPassed, Init

\* Every step of the loop keeps its invariant.
LEMMA NextKeepsHarnessInv == HarnessInv /\ [Next]_vars => HarnessInv'
<1> SUFFICES ASSUME HarnessInv, [Next]_vars PROVE HarnessInv'
  OBVIOUS
<1> USE DEF LoopOK
<1>1. CASE DeliverDue
  <2>1. BatchHandled
    BY <1>1, DeliverDueStep
  <2>2. LoopOK'
    BY <2>1, AgentIds DEF HarnessInv, BatchHandled
  <2>3. ChecksPassed'
    BY <2>1 DEF BatchHandled, ChecksPassed
  <2> QED
    BY <2>1, <2>2, <2>3, BatchKeepsInv DEF HarnessInv
<1>2. CASE TickAgent
  <2>1. TurnTicks(Turn)
    BY <1>2, TickAgentStep
  <2>2. RoundInv(agents', Payloads(queue'))
    <3>1. RoundStep(agents, agents', Payloads(queue), Payloads(queue'))
      BY <2>1 DEF TurnTicks, RoundStep, HarnessInv
    <3> QED
      BY <3>1, StepKeepsInv DEF HarnessInv
  <2>3. LoopOK'
    BY <2>1 DEF HarnessInv, TurnTicks
  <2>4. ChecksPassed'
    BY <2>1 DEF HarnessInv, TurnTicks, ChecksPassed
  <2> QED
    BY <2>2, <2>3, <2>4 DEF HarnessInv
<1>3. CASE EndIteration
  <2>1. UNCHANGED <<topology, agents, queue, toTick>>
    BY <1>3 DEF EndIteration
  <2>2. LoopOK'
    <3>1. now' \in 0..MaxTicks
      BY <1>3, HarnessAssumption DEF HarnessInv, EndIteration, HarnessAssumption
    <3> QED
      BY <1>3, <2>1, <3>1 DEF HarnessInv, EndIteration
  <2>3. ChecksPassed'
    BY <1>3, <2>1 DEF EndIteration, ChecksPassed, RoundOver, Consistent, MergedPrices
  <2> QED
    BY <2>1, <2>2, <2>3 DEF HarnessInv
<1>4. CASE GiveUp
  BY <1>4 DEF GiveUp, HarnessInv, ChecksPassed
<1>5. CASE UNCHANGED vars
  BY <1>5 DEF vars, HarnessInv, ChecksPassed, RoundOver, Consistent, MergedPrices
<1> QED
  BY <1>1, <1>2, <1>3, <1>4, <1>5 DEF Next

\* The invariant holds throughout.
LEMMA HarnessInvHolds == Spec => []HarnessInv
BY InitHarness, NextKeepsHarnessInv, PTL DEF Spec

-----------------------------------------------------------------------------
(* The theorems *)

(***************************************************************************)
(* Types of run_round's state: the agents', and what the transport carries. *)
(***************************************************************************)
THEOREM HarnessTypes == Spec => []TypeOK
<1>1. HarnessInv => TypeOK
  BY DEF HarnessInv, LoopOK, RoundInv, Typed, CopiesInFlight, TypeOK
<1> QED
  BY <1>1, HarnessInvHolds, PTL

\* A round that passes the last check has every agent hold its assignment.
LEMMA PassedMeansHeld ==
  ASSUME NEW msgs, RoundInv(agents, msgs), RoundOver, Consistent
  PROVE  HoldsMerged(agents)
<1> SUFFICES ASSUME NEW a \in Agent
             PROVE  /\ agents[a].assignment \in Task
                    /\ MergedPrices[agents[a].assignment].bidder = a
  BY DEF HoldsMerged, MergedPrices
<1>1. agents[a] \in AgentStates
  BY DEF RoundInv, Typed
<1>2. agents[a].quiescent > 0
  BY <1>1, RoundConfigAssumption DEF RoundOver, Terminated, RoundConfigAssumption, AgentStates
<1>3. agents[a].assignment # NoTask
  BY <1>2 DEF RoundInv, BidFirst
<1> QED
  BY <1>1, <1>3 DEF Consistent, AgentStates

(***************************************************************************)
(* Whatever was lost, delayed or cut off, an assignment run_round returns   *)
(* gives every agent a task of its own, for a total benefit within          *)
(* n * epsilon of the best matching.                                        *)
(***************************************************************************)
THEOREM ReturnsNearOptimal == Spec => []ReturnedNearOptimal
<1>1. HarnessInv => ReturnedNearOptimal
  <2> SUFFICES ASSUME HarnessInv, outcome = "returned"
               PROVE  /\ IsInjective(Result)
                      /\ \A matching \in Injection(Agent, Task) :
                           Total(matching) <= Total(Result) + Cardinality(Agent) * Epsilon
    BY DEF ReturnedNearOptimal
  <2>1. RoundInv(agents, Payloads(queue)) /\ HoldsMerged(agents)
    BY PassedMeansHeld DEF HarnessInv, ChecksPassed
  <2>2. Result = Assigned(agents)
    BY DEF Result, Assigned
  <2>3. IsInjective(Result)
    BY <2>1, <2>2, HeldTasks DEF IsInjective
  <2>4. ASSUME NEW matching \in Injection(Agent, Task)
        PROVE  Total(matching) <= Total(Result) + Cardinality(Agent) * Epsilon
    BY <2>1, <2>2, MergedMatchingIsNearOptimal DEF Total
  <2> QED
    BY <2>3, <2>4
<1> QED
  BY <1>1, HarnessInvHolds, PTL

(***************************************************************************)
(* run_round keeps what RoundRunner stands for: what it returns is one of   *)
(* the outcomes that RepeatedRounds.tla lets a round have, for the benefits *)
(* it was called with, which nothing that happens in the round changes.     *)
(***************************************************************************)
THEOREM RunRoundKeepsContract ==
  Spec => /\ [](outcome = "returned" => Result \in RoundOutcomes(BenefitsOf(agents), Epsilon))
          /\ [][BenefitsOf(agents') = BenefitsOf(agents)]_vars
<1>1. HarnessInv /\ ReturnedNearOptimal
      => (outcome = "returned" => Result \in RoundOutcomes(BenefitsOf(agents), Epsilon))
  <2> SUFFICES ASSUME HarnessInv, ReturnedNearOptimal, outcome = "returned"
               PROVE  Result \in RoundOutcomes(BenefitsOf(agents), Epsilon)
    OBVIOUS
  <2> DEFINE benefits == BenefitsOf(agents)
  <2>1. DOMAIN benefits = Agent /\ \A a \in Agent : DOMAIN benefits[a] = Task
    <3>1. agents \in [Agent -> AgentStates]
      BY DEF HarnessInv, RoundInv, Typed
    <3> QED
      BY <3>1 DEF BenefitsOf, AgentStates
  <2>2. UNION {DOMAIN benefits[r] : r \in Agent} = Task
    BY <2>1, AgentIds
  <2>3. \A f : SumFunction([r \in Agent |-> benefits[r][f[r]]]) = Total(f)
    <3>1. \A a \in Agent : benefits[a] = agents[a].benefit
      BY DEF BenefitsOf
    <3>2. ASSUME NEW f
          PROVE  [r \in Agent |-> benefits[r][f[r]]]
                   = [a \in Agent |-> agents[a].benefit[f[a]]]
      <4> HIDE DEF benefits
      <4> QED
        BY <3>1
    <3> QED
      BY <3>2 DEF Total, TotalBenefit
  <2>4. Result \in Injection(Agent, Task)
    <3>1. RoundInv(agents, Payloads(queue)) /\ HoldsMerged(agents)
      BY PassedMeansHeld DEF HarnessInv, ChecksPassed
    <3>2. Result \in [Agent -> Task]
      BY <3>1 DEF Result, HoldsMerged
    <3> QED
      BY <3>2 DEF Injection, ReturnedNearOptimal
  <2>5. \A matching \in Injection(Agent, Task) :
          Total(matching) <= Total(Result) + Cardinality(Agent) * Epsilon
    BY DEF ReturnedNearOptimal
  <2> HIDE DEF benefits
  <2>6. Result \in RoundOutcomes(benefits, Epsilon)
    BY <2>1, <2>2, <2>3, <2>4, <2>5, Zenon DEF RoundOutcomes
  <2> QED
    BY <2>6 DEF benefits
<1>2. HarnessInv /\ [Next]_vars => BenefitsOf(agents') = BenefitsOf(agents)
  <2> SUFFICES ASSUME HarnessInv, [Next]_vars PROVE BenefitsOf(agents') = BenefitsOf(agents)
    OBVIOUS
  <2>1. CASE DeliverDue
    BY <2>1, DeliverDueStep, BatchKeepsInv
  <2>2. CASE TickAgent
    <3>1. TurnTicks(Turn)
      BY <2>2, TickAgentStep
    <3>2. RoundStep(agents, agents', Payloads(queue), Payloads(queue'))
      BY <3>1 DEF TurnTicks, RoundStep, HarnessInv, LoopOK
    <3> QED
      BY <3>2, BenefitsStay DEF HarnessInv, RoundInv
  <2>3. CASE EndIteration \/ GiveUp \/ UNCHANGED vars
    BY <2>3 DEF EndIteration, GiveUp, vars
  <2> QED
    BY <2>1, <2>2, <2>3 DEF Next
<1> QED
  BY <1>1, <1>2, HarnessInvHolds, ReturnsNearOptimal, PTL DEF Spec

-----------------------------------------------------------------------------
(* How far prices can rise *)

\* Every step of the loop keeps the cap on prices.
LEMMA NextKeepsCap == HarnessInv /\ PriceInv(agents) /\ [Next]_vars => PriceInv(agents)'
<1> SUFFICES ASSUME HarnessInv, PriceInv(agents), [Next]_vars PROVE PriceInv(agents')
  OBVIOUS
<1>1. CASE DeliverDue
  BY <1>1, DeliverDueStep, BatchKeepsInv
<1>2. CASE TickAgent
  <2>1. TurnTicks(Turn)
    BY <1>2, TickAgentStep
  <2>2. RoundStep(agents, agents', Payloads(queue), Payloads(queue'))
    BY <2>1 DEF TurnTicks, RoundStep, HarnessInv, LoopOK
  <2> QED
    BY <2>2, StepKeepsCap DEF HarnessInv
<1>3. CASE EndIteration \/ GiveUp \/ UNCHANGED vars
  BY <1>3 DEF EndIteration, GiveUp, vars
<1> QED
  BY <1>1, <1>2, <1>3 DEF Next

\* Some task has no bid that any agent knows of.
TaskLeft == \E t \in Task : MergedPrices[t].bidder = NO_BIDDER

(***************************************************************************)
(* The bound of AuctionRound's PricesBounded, for run_round: no price is    *)
(* above the spread of somebody's benefits plus epsilon while a task is     *)
(* left, nor ever above twice that.                                         *)
(***************************************************************************)
RoundPricesBounded ==
  LET factor == IF TaskLeft THEN 1 ELSE 2
  IN  \A a \in Agent, t \in Task :
        \E b \in Agent, u, w \in Task :
          agents[a].prices[t].price
            <= factor * (agents[b].benefit[u] - agents[b].benefit[w] + Epsilon)

(***************************************************************************)
(* run_round cannot price its way to did_not_terminate: whatever is lost or *)
(* delayed, the agents outbid each other up to that bound and no further.   *)
(***************************************************************************)
THEOREM HarnessPricesBounded == Spec => []RoundPricesBounded
<1>1. Init => PriceInv(agents)
  BY HarnessAssumption, InitialCap DEF Init, HarnessAssumption
<1>2. HarnessInv /\ PriceInv(agents) => RoundPricesBounded
  <2> SUFFICES ASSUME HarnessInv, PriceInv(agents), NEW a \in Agent, NEW t \in Task
               PROVE  \E b \in Agent, u, w \in Task :
                        agents[a].prices[t].price
                          <= (IF TaskLeft THEN 1 ELSE 2)
                               * (agents[b].benefit[u] - agents[b].benefit[w] + Epsilon)
    BY DEF RoundPricesBounded
  <2> DEFINE factor == IF TaskLeft THEN 1 ELSE 2
  <2>1. factor = IF AllClaimed(agents) THEN 2 ELSE 1
    BY DEF AllClaimed, TaskLeft, MergedPrices
  <2>2. RoundInv(agents, Payloads(queue))
    BY DEF HarnessInv
  <2> HIDE DEF factor
  <2>3. PriceWithin(agents, a, t, factor)
    BY <2>1, <2>2, CapOfPrices
  <2> QED
    BY <2>3, Zenon DEF PriceWithin, factor
<1> QED
  BY <1>1, <1>2, NextKeepsCap, HarnessInvHolds, PTL DEF Spec

-----------------------------------------------------------------------------
(* Refinement *)

\* The bids of the auction with one table, as SerialAuction.tla states them.
LEMMA HarnessBidsAreSerial ==
  ASSUME NEW a \in Agent, BidsNext(MergedPrices, MergedPrices', a)
  PROVE  Serial!Next
<1>1. PICK t \in Task : Overbids(MergedPrices, MergedPrices', a, t)
  BY DEF BidsNext
<1>2. Serial!Overbid(a, t)
  BY <1>1 DEF Overbids, Serial!Overbid, Serial!Below, Below, Serial!Entries, Entries,
       Serial!NO_BIDDER, NO_BIDDER
<1>3. \A u \in Task : ~ Serial!Holds(a, u)
  BY DEF BidsNext, Serial!Holds
<1> QED
  BY <1>2, <1>3 DEF Serial!Bid, Serial!Next

(***************************************************************************)
(* The merged table of a simulated round is that of a one-at-a-time         *)
(* auction: a whole batch of tables leaves it alone, lost and delayed       *)
(* broadcasts included, and a tick bids in it at most once.                 *)
(***************************************************************************)
THEOREM HarnessRefinement == Spec => ImplementsSerialAuction
<1>1. Init => Serial!Init
  <2> SUFFICES ASSUME NEW benefits \in BenefitChoices, agents = NewAgents(benefits)
               PROVE  MergedPrices = Serial!InitialTable(Task)
    BY DEF Init, Serial!Init
  <2>1. MergedPrices = InitialTable(Task)
    BY HarnessAssumption, InitialMerged DEF HarnessAssumption, MergedPrices
  <2> QED
    BY <2>1 DEF Serial!InitialTable, InitialTable, Serial!InitialEntry, InitialEntry,
         Serial!NO_BIDDER, NO_BIDDER
<1>2. HarnessInv /\ [Next]_vars => [Serial!Next]_MergedPrices
  <2> SUFFICES ASSUME HarnessInv, [Next]_vars PROVE [Serial!Next]_MergedPrices
    OBVIOUS
  <2>1. CASE DeliverDue
    BY <2>1, DeliverDueStep, BatchKeepsInv DEF MergedPrices
  <2>2. CASE TickAgent
    <3>1. TurnTicks(Turn)
      BY <2>2, TickAgentStep
    <3>2. RoundStep(agents, agents', Payloads(queue), Payloads(queue'))
      BY <3>1 DEF TurnTicks, RoundStep, HarnessInv, LoopOK
    <3>3. \/ \E a \in Agent : BidsNext(MergedPrices, MergedPrices', a)
          \/ MergedPrices' = MergedPrices
      BY <3>2, StepBidsOrStutters DEF HarnessInv, MergedPrices
    <3> QED
      BY <3>3, HarnessBidsAreSerial
  <2>3. CASE EndIteration \/ GiveUp \/ UNCHANGED vars
    BY <2>3 DEF EndIteration, GiveUp, vars, MergedPrices
  <2> QED
    BY <2>1, <2>2, <2>3 DEF Next
<1> QED
  BY <1>1, <1>2, HarnessInvHolds, PTL DEF Spec, ImplementsSerialAuction, Serial!Spec

-----------------------------------------------------------------------------
(***************************************************************************)
(* Lossless links: what the silence of an agent is worth.  The topologies   *)
(* may lose links at any tick, and gain some as long as no agent can have   *)
(* terminated: one that did would not tell its new neighbours anything.     *)
(***************************************************************************)
LinksAppearEarly ==
  \A links \in TopologyChoices, k \in 1..MaxTicks, a \in Agent :
    k < QuiescenceRounds \/ links[k][a] \subseteq links[k - 1][a]

\* a broadcasts again although it hears nothing new.
SpeaksAgain(ag) == ag.dirty \/ ag.quiescent + 1 < QuiescenceRounds

\* b knows what a knows of t, or will.
Tells(ags, copies, a, b, t) ==
  \/ AtMost(ags[a].prices[t], ags[b].prices[t])
  \/ \E q \in copies : q.dest = b /\ AtMost(ags[a].prices[t], q.payload.entries[t])

Informed(ags, copies) ==
  \A a \in Agent : \A b \in topology[now][a], t \in Task :
    Tells(ags, copies, a, b, t) \/ SpeaksAgain(ags[a])

\* A table in flight tells its sender nothing.
SentIsKnown(ags, copies) ==
  \A q \in copies, t \in Task :
    AtMost(q.payload.entries[t], ags[q.payload.sender].prices[t])

\* A tick clears the flag and leaves its agent a task.
TickedHold ==
  stage # "deliver" =>
    \A a \in Agent \ toTick : ~ agents[a].dirty /\ ~ Outbid(a, agents[a])

\* The first tick counts nothing, every later one at most one quiet tick.
CountsTicks ==
  \A a \in Agent :
    /\ agents[a].quiescent <= now
    /\ (stage = "deliver" \/ a \in toTick) => agents[a].quiescent < now \/ agents[a].dirty

NewsInv ==
  /\ HarnessInv
  /\ SentIsKnown(agents, Copies(queue))
  /\ TickedHold
  /\ CountsTicks
  /\ Informed(agents, Copies(queue))

\* What an agent that handled tables has: what it had and what they told it.
Hears(old, new) ==
  \A b \in Agent :
    /\ new[b].quiescent = old[b].quiescent
    /\ new[b] = old[b] \/ new[b].dirty
    /\ \A t \in Task : AtMost(old[b].prices[t], new[b].prices[t])

LEMMA HandedHears ==
  ASSUME NEW ags \in [Agent -> AgentStates], NEW a \in Agent, NEW m \in Messages
  PROVE  /\ Hears(ags, Handed(ags, a, m))
         /\ m.sender # a =>
              \A t \in Task : AtMost(m.entries[t], Handed(ags, a, m)[a].prices[t])
<1> DEFINE new == Handed(ags, a, m)
           merged == Merge(ags[a].prices, m.entries)
<1>1. /\ new[a] = HandleMessage(a, ags[a], m)
      /\ \A b \in Agent \ {a} : new[b] = ags[b]
  BY DEF Handed
<1>2. ags[a] \in AgentStates /\ ags[a].prices \in Tables /\ m.entries \in Tables
  BY DEF AgentStates, Messages
<1>3. \A t \in Task : /\ AtMost(ags[a].prices[t], merged[t])
                      /\ AtMost(m.entries[t], merged[t])
  BY <1>2, MergeIsMax, EntriesOf, MaxEntryIsMax
<1>4. merged \in Tables
  BY <1>2, MergeIsMax
<1> HIDE DEF merged, new
<1>5. CASE m.sender = a
  <2>1. \A b \in Agent : new[b] = ags[b]
    BY <1>1, <1>5 DEF HandleMessage
  <2> QED
    BY <1>5, <2>1 DEF Hears, AtMost, new
<1>6. CASE m.sender # a
  <2>1. new[a] = [ags[a] EXCEPT !.prices = merged, !.dirty = @ \/ merged # ags[a].prices]
    BY <1>1, <1>6 DEF HandleMessage, merged
  <2>2. /\ new[a].prices = merged
        /\ new[a].quiescent = ags[a].quiescent
        /\ new[a].dirty = (ags[a].dirty \/ merged # ags[a].prices)
    BY <1>2, <2>1 DEF AgentStates
  <2>3. new[a] = ags[a] \/ new[a].dirty
    <3>1. CASE merged # ags[a].prices
      BY <2>2, <3>1
    <3>2. CASE merged = ags[a].prices /\ ~ ags[a].dirty
      <4>1. (ags[a].dirty \/ merged # ags[a].prices) = ags[a].dirty
        BY <1>2, <3>2 DEF AgentStates
      <4>2. new[a] = [ags[a] EXCEPT !.prices = ags[a].prices, !.dirty = ags[a].dirty]
        BY <2>1, <3>2, <4>1
      <4> QED
        BY <1>2, <4>2 DEF AgentStates
    <3>3. CASE ags[a].dirty
      BY <2>2, <3>3
    <3> QED
      BY <3>1, <3>2, <3>3
  <2>4. Hears(ags, new)
    BY <1>1, <1>3, <2>2, <2>3 DEF Hears, AtMost
  <2> QED
    BY <1>3, <2>2, <2>4 DEF new
<1> QED
  BY <1>5, <1>6

\* Hearing twice is hearing.
LEMMA HearsTwice ==
  ASSUME NEW ags \in [Agent -> AgentStates], NEW mid \in [Agent -> AgentStates],
         NEW new \in [Agent -> AgentStates], Hears(ags, mid), Hears(mid, new)
  PROVE  Hears(ags, new)
<1> SUFFICES ASSUME NEW b \in Agent
             PROVE  /\ new[b].quiescent = ags[b].quiescent
                    /\ new[b] = ags[b] \/ new[b].dirty
                    /\ \A t \in Task : AtMost(ags[b].prices[t], new[b].prices[t])
  BY DEF Hears
<1>1. /\ mid[b].quiescent = ags[b].quiescent /\ new[b].quiescent = mid[b].quiescent
      /\ mid[b] = ags[b] \/ mid[b].dirty
      /\ new[b] = mid[b] \/ new[b].dirty
  BY DEF Hears
<1>2. ASSUME NEW t \in Task PROVE AtMost(ags[b].prices[t], new[b].prices[t])
  <2>1. /\ AtMost(ags[b].prices[t], mid[b].prices[t])
        /\ AtMost(mid[b].prices[t], new[b].prices[t])
    BY DEF Hears
  <2>2. /\ ags[b].prices[t] \in Entries(Agent) /\ mid[b].prices[t] \in Entries(Agent)
        /\ new[b].prices[t] \in Entries(Agent)
    BY EntriesOf DEF AgentStates
  <2> QED
    BY <2>1, <2>2, AtMostTransitive
<1> QED
  BY <1>1, <1>2

\* The addressees of the first k copies know what these say.
Told(new, batch, k) ==
  \A j \in 1..k, t \in Task :
    AtMost(batch[j].payload.entries[t], new[batch[j].dest].prices[t])

\* Once a batch is handled, every addressee knows what its copies said.
LEMMA BatchTells ==
  ASSUME NEW batch \in CopiesInFlight, NEW msgs, Payloads(batch) \subseteq msgs,
         RoundInv(agents, msgs), SentIsKnown(agents, Copies(batch)),
         NEW after, OneByOne(after, batch)
  PROVE  \A k \in 0..Len(batch) : Hears(agents, after[k]) /\ Told(after[k], batch, k)
<1> DEFINE n == Len(batch)
           Good == {k \in 0..n : Hears(agents, after[k]) /\ Told(after[k], batch, k)}
<1>1. n \in Nat
  BY DEF CopiesInFlight
<1>2. ASSUME NEW k \in 0..n PROVE after[k] \in [Agent -> AgentStates]
  BY BatchDelivers DEF RoundInv, Typed
<1>3. 0 \in Good
  BY <1>1 DEF OneByOne, Hears, Told, AtMost
<1>4. ASSUME NEW k \in 1..n, k - 1 \in Good PROVE k \in Good
  <2> DEFINE old == after[k - 1]
             new == after[k]
             m == batch[k].payload
             a == batch[k].dest
  <2>1. /\ k \in 0..n /\ k - 1 \in 0..n
        /\ \A j \in 1..k : j \in 1..n /\ (j = k \/ j \in 1..(k - 1))
    BY <1>1
  <2>2. \A j \in 1..n : /\ batch[j] \in Copies(batch)
                        /\ batch[j].dest \in Agent /\ batch[j].payload \in Messages
    <3>1. \A j \in 1..n : batch[j] \in Copies(batch)
      BY DEF Copies, CopiesInFlight
    <3> QED
      BY <3>1, CopyFields
  <2>3. /\ old \in [Agent -> AgentStates] /\ new \in [Agent -> AgentStates]
        /\ agents \in [Agent -> AgentStates]
    BY <1>2, <2>1 DEF RoundInv, Typed
  <2>4. new = Handed(old, a, m)
    BY DEF OneByOne
  <2>5. a \in Agent /\ m \in Messages
    BY <2>2
  <2>6. Hears(agents, old) /\ Told(old, batch, k - 1)
    BY <1>4
  <2> HIDE DEF old, new
  <2>7. /\ Hears(old, new)
        /\ m.sender # a => \A t \in Task : AtMost(m.entries[t], new[a].prices[t])
    BY <2>3, <2>4, <2>5, HandedHears
  <2>8. Hears(agents, new)
    BY <2>3, <2>6, <2>7, HearsTwice
  <2>9. ASSUME NEW b \in Agent, NEW t \in Task
        PROVE  /\ old[b].prices[t] \in Entries(Agent)
               /\ new[b].prices[t] \in Entries(Agent)
               /\ agents[b].prices[t] \in Entries(Agent)
    BY <2>3, EntriesOf DEF AgentStates
  <2>10. ASSUME NEW p \in Messages, NEW t \in Task
         PROVE  p.entries[t] \in Entries(Agent) /\ p.sender \in Agent
    BY EntriesOf DEF Messages
  <2>11. ASSUME NEW t \in Task PROVE AtMost(m.entries[t], new[a].prices[t])
    <3>1. CASE m.sender # a
      BY <2>7, <3>1
    <3>2. CASE m.sender = a
      <4>1. AtMost(m.entries[t], agents[a].prices[t])
        BY <2>2, <3>2 DEF SentIsKnown
      <4>2. AtMost(agents[a].prices[t], new[a].prices[t])
        BY <2>5, <2>8 DEF Hears
      <4> HIDE DEF m, a
      <4> QED
        BY <2>5, <2>9, <2>10, <4>1, <4>2, AtMostTransitive
    <3> QED
      BY <3>1, <3>2
  <2>12. ASSUME NEW j \in 1..(k - 1), NEW t \in Task
         PROVE  AtMost(batch[j].payload.entries[t], new[batch[j].dest].prices[t])
    <3> DEFINE p == batch[j].payload
               b == batch[j].dest
    <3>1. b \in Agent /\ p \in Messages
      BY <2>2
    <3>2. AtMost(p.entries[t], old[b].prices[t])
      BY <2>6 DEF Told
    <3> HIDE DEF p, b
    <3>3. AtMost(old[b].prices[t], new[b].prices[t])
      BY <2>7, <3>1 DEF Hears
    <3>4. AtMost(p.entries[t], new[b].prices[t])
      BY <2>9, <2>10, <3>1, <3>2, <3>3, AtMostTransitive
    <3> QED
      BY <3>4 DEF p, b
  <2>13. Told(new, batch, k)
    BY <2>1, <2>11, <2>12 DEF Told
  <2> QED
    BY <2>1, <2>8, <2>13 DEF new
<1> HIDE DEF Good, n
<1>5. \A k \in 0..n : k \in Good
  BY <1>1, <1>3, <1>4, PrefixInduction
<1> QED
  BY <1>5 DEF Good, n

\* A batch only adds to what the agents know.
LEMMA BatchHears ==
  ASSUME HarnessInv, BatchHandled, SentIsKnown(agents, Copies(queue))
  PROVE  /\ Hears(agents, agents')
         /\ \A q \in Copies(Due(queue, now)), t \in Task :
              AtMost(q.payload.entries[t], agents'[q.dest].prices[t])
<1> DEFINE batch == Due(queue, now)
           n == Len(batch)
<1>1. RoundInv(agents, Payloads(queue)) /\ agents \in [Agent -> AgentStates]
  BY DEF HarnessInv, RoundInv, Typed
<1>2. batch \in CopiesInFlight /\ Payloads(batch) \subseteq Payloads(queue)
  BY DEF BatchHandled, Payloads
<1>3. SentIsKnown(agents, Copies(batch))
  <2>1. Copies(batch) \subseteq Copies(queue)
    BY DEF BatchHandled
  <2> HIDE DEF batch
  <2> QED
    BY <2>1 DEF SentIsKnown
<1>4. agents' = Handled(batch)
  BY DEF BatchHandled
<1> HIDE DEF batch
<1>5. PICK after : OneByOne(after, batch)
  BY <1>1, <1>2, HandledOneByOne
<1>6. n \in 0..n /\ after[n] = agents' /\ DOMAIN batch = 1..n
  BY <1>2, <1>4, <1>5 DEF CopiesInFlight, OneByOne
<1>7. Hears(agents, after[n]) /\ Told(after[n], batch, n)
  BY <1>1, <1>2, <1>3, <1>5, <1>6, BatchTells
<1>8. \A q \in Copies(batch), t \in Task :
        AtMost(q.payload.entries[t], agents'[q.dest].prices[t])
  BY <1>6, <1>7 DEF Copies, Told
<1> QED
  BY <1>6, <1>7, <1>8 DEF batch

\* Neighbours are agents.
LEMMA NeighboursAreAgents ==
  ASSUME HarnessInv, NEW a \in Agent
  PROVE  topology[now][a] \subseteq Agent
<1>1. topology \in [0..MaxTicks -> [Agent -> SUBSET Agent]] /\ now \in 0..MaxTicks
  BY HarnessAssumption DEF HarnessInv, LoopOK, HarnessAssumption
<1> QED
  BY <1>1

\* Entries, in tables and in flight.
LEMMA EntriesInPlay ==
  ASSUME HarnessInv, NEW a \in Agent, NEW t \in Task
  PROVE  /\ agents[a] \in AgentStates
         /\ agents[a].prices[t] \in Entries(Agent)
         /\ \A q \in Copies(queue) : /\ q.payload.entries[t] \in Entries(Agent)
                                     /\ q.payload.sender \in Agent
<1>1. agents[a] \in AgentStates /\ agents[a].prices[t] \in Entries(Agent)
  BY EntriesOf DEF HarnessInv, RoundInv, Typed, AgentStates
<1>2. \A q \in Copies(queue) : q.payload \in Messages
  BY CopyFields DEF HarnessInv, LoopOK
<1> QED
  BY <1>1, <1>2, EntriesOf DEF Messages

\* What was sent stays known to its sender as the sender learns more.
LEMMA SentStaysKnown ==
  ASSUME HarnessInv, HarnessInv', SentIsKnown(agents, Copies(queue)),
         \A b \in Agent, t \in Task : AtMost(agents[b].prices[t], agents'[b].prices[t])
  PROVE  SentIsKnown(agents', Copies(queue))
<1> SUFFICES ASSUME NEW q \in Copies(queue), NEW t \in Task
             PROVE  AtMost(q.payload.entries[t], agents'[q.payload.sender].prices[t])
  BY DEF SentIsKnown
<1> DEFINE b == q.payload.sender
<1>1. q.payload.entries[t] \in Entries(Agent) /\ b \in Agent
  BY RoundAssumption, EntriesInPlay DEF RoundAssumption
<1>2. AtMost(q.payload.entries[t], agents[b].prices[t])
  BY DEF SentIsKnown
<1> HIDE DEF b
<1>3. agents[b].prices[t] \in Entries(Agent) /\ agents'[b].prices[t] \in Entries(Agent)
  BY <1>1, EntriesOf DEF HarnessInv, RoundInv, Typed, AgentStates
<1>4. AtMost(q.payload.entries[t], agents'[b].prices[t])
  BY <1>1, <1>2, <1>3, AtMostTransitive
<1> QED
  BY <1>4 DEF b

\* Handling a batch: a copy that left the queue has told what it had to tell.
LEMMA DeliverKeepsNews ==
  ASSUME NewsInv, BatchHandled, HarnessInv'
  PROVE  NewsInv'
<1>1. /\ Hears(agents, agents')
      /\ \A q \in Copies(Due(queue, now)), t \in Task :
           AtMost(q.payload.entries[t], agents'[q.dest].prices[t])
  BY BatchHears DEF NewsInv
<1>2. SentIsKnown(agents', Copies(queue'))
  <2>1. SentIsKnown(agents', Copies(queue))
    BY <1>1, SentStaysKnown DEF NewsInv, Hears
  <2> QED
    BY <2>1 DEF SentIsKnown, BatchHandled
<1>3. TickedHold'
  BY DEF BatchHandled, TickedHold
<1>4. CountsTicks'
  <2> SUFFICES ASSUME NEW a \in Agent
               PROVE  /\ agents'[a].quiescent <= now
                      /\ agents'[a].quiescent < now \/ agents'[a].dirty
    BY DEF CountsTicks, BatchHandled
  <2> QED
    BY <1>1 DEF Hears, NewsInv, CountsTicks, BatchHandled
<1>5. ASSUME NEW a \in Agent, NEW b \in topology[now][a], NEW t \in Task,
             ~ SpeaksAgain(agents'[a])
      PROVE  Tells(agents', Copies(queue'), a, b, t)
  <2>1. agents'[a] = agents[a]
    BY <1>1, <1>5 DEF Hears, SpeaksAgain
  <2>2. Tells(agents, Copies(queue), a, b, t)
    BY <1>5, <2>1 DEF NewsInv, Informed
  <2>3. b \in Agent
    BY NeighboursAreAgents DEF NewsInv
  <2>4. /\ agents[a].prices[t] \in Entries(Agent)
        /\ agents[b].prices[t] \in Entries(Agent)
        /\ \A q \in Copies(queue) : q.payload.entries[t] \in Entries(Agent)
    BY <2>3, EntriesInPlay DEF NewsInv
  <2>5. agents'[b].prices[t] \in Entries(Agent)
    BY <2>3, EntriesOf DEF HarnessInv, RoundInv, Typed, AgentStates
  <2>6. CASE AtMost(agents[a].prices[t], agents[b].prices[t])
    <3>1. AtMost(agents[b].prices[t], agents'[b].prices[t])
      BY <1>1, <2>3 DEF Hears
    <3>2. AtMost(agents[a].prices[t], agents'[b].prices[t])
      BY <2>4, <2>5, <2>6, <3>1, AtMostTransitive
    <3> QED
      BY <2>1, <3>2 DEF Tells
  <2>7. ASSUME NEW q \in Copies(queue), q.dest = b,
               AtMost(agents[a].prices[t], q.payload.entries[t])
        PROVE  Tells(agents', Copies(queue'), a, b, t)
    <3>1. CASE q \in Copies(queue')
      BY <2>1, <2>7, <3>1 DEF Tells
    <3>2. CASE q \in Copies(Due(queue, now))
      <4>1. AtMost(q.payload.entries[t], agents'[b].prices[t])
        BY <1>1, <2>7, <3>2
      <4>2. AtMost(agents[a].prices[t], agents'[b].prices[t])
        BY <2>4, <2>5, <2>7, <4>1, AtMostTransitive
      <4> QED
        BY <2>1, <4>2 DEF Tells
    <3> QED
      BY <2>7, <3>1, <3>2 DEF BatchHandled
  <2> QED
    BY <2>2, <2>6, <2>7 DEF Tells
<1>6. Informed(agents, Copies(queue))'
  BY <1>5 DEF Informed, BatchHandled
<1> QED
  BY <1>2, <1>3, <1>4, <1>6 DEF NewsInv

\* What a tick leaves: who stays silent had nothing to say.
LEMMA TickSilence ==
  ASSUME NEW a \in Agent, NEW ag \in AgentStates, NEW after \in AfterTick(a, ag)
  PROVE  /\ ~ after.dirty
         /\ ~ Outbid(a, after)
         /\ after.quiescent <= ag.quiescent + 1
         /\ ag.dirty => after.quiescent = 0
         /\ Terminated(after) => after.prices = ag.prices /\ ~ SpeaksAgain(ag)
<1>1. QuiescenceRounds \in Nat \ {0}
  BY RoundConfigAssumption DEF RoundConfigAssumption
<1>2. ag.quiescent \in Nat /\ ag.dirty \in BOOLEAN
  BY <1>1 DEF AgentStates
<1>3. ASSUME NEW x \in AgentStates
      PROVE  /\ ~ Settle(x).dirty
             /\ x.dirty => Settle(x).quiescent = 0
             /\ ~ x.dirty => Settle(x).quiescent =
                              IF x.quiescent < QuiescenceRounds
                              THEN x.quiescent + 1 ELSE x.quiescent
  BY DEF Settle, AgentStates
<1>4. CASE ~ Outbid(a, ag)
  <2>1. after = Settle(ag)
    BY <1>4 DEF AfterTick
  <2>2. ~ Outbid(a, after)
    BY <1>4, <2>1, SettleResult DEF Outbid
  <2> QED
    BY <1>1, <1>2, <1>3, <2>1, <2>2, SettleResult DEF Terminated, SpeaksAgain
<1>5. CASE Outbid(a, ag)
  <2>1. PICK bid \in Bids(ag) : after = Settle(PlaceBid(a, ag, bid))
    BY <1>5 DEF AfterTick
  <2> DEFINE bidder == PlaceBid(a, ag, bid)
  <2>2. bid.task \in Task /\ NoTask \notin Task
    BY BidResult, RoundAssumption DEF RoundAssumption
  <2>3. bidder.dirty
    BY DEF PlaceBid, AgentStates
  <2>4. after.quiescent = 0 /\ ~ after.dirty
    BY <2>1, <2>3 DEF Settle, PlaceBid, AgentStates
  <2>5. /\ after.assignment = bid.task
        /\ after.prices = Raise(ag.prices, bid.task, bid.increment, a)
    BY <2>1 DEF Settle, PlaceBid, AgentStates
  <2>6. ~ Outbid(a, after)
    BY <2>2, <2>5, RaiseResult DEF Outbid
  <2> QED
    BY <1>1, <1>2, <2>4, <2>6 DEF Terminated
<1> QED
  BY <1>4, <1>5

\* A tick: who may stay silent afterwards has told its neighbours everything.
LEMMA TickKeepsNews ==
  ASSUME ~ Lossy, NewsInv, NEW a, TurnTicks(a), HarnessInv'
  PROVE  NewsInv'
<1>1. a \in Agent /\ a \in toTick /\ stage = "tick"
  BY DEF TurnTicks, NewsInv, HarnessInv, LoopOK
<1>2. PICK ag \in AfterTick(a, agents[a]) :
        agents' = [agents EXCEPT ![a] = ag] /\ TellsNeighbours(a, ag)
  BY DEF TurnTicks
<1>3. agents[a] \in AgentStates /\ agents \in [Agent -> AgentStates]
  BY <1>1 DEF NewsInv, HarnessInv, RoundInv, Typed
<1>4. agents'[a] = ag /\ \A b \in Agent \ {a} : agents'[b] = agents[b]
  BY <1>1, <1>2, <1>3
<1>5. /\ ~ ag.dirty /\ ~ Outbid(a, ag)
      /\ ag.quiescent <= agents[a].quiescent + 1
      /\ agents[a].dirty => ag.quiescent = 0
      /\ Terminated(ag) => ag.prices = agents[a].prices /\ ~ SpeaksAgain(agents[a])
  BY <1>1, <1>2, <1>3, TickSilence
<1>6. ASSUME NEW b \in Agent, NEW t \in Task
      PROVE  AtMost(agents[b].prices[t], agents'[b].prices[t])
  <2>1. RoundStep(agents, agents', Payloads(queue), Payloads(queue'))
    BY <1>1 DEF TurnTicks, RoundStep
  <2> QED
    BY <2>1, EntriesRise DEF NewsInv, HarnessInv, RoundInv
<1>7. SentIsKnown(agents', Copies(queue'))
  <2>1. SentIsKnown(agents', Copies(queue))
    BY <1>6, SentStaysKnown DEF NewsInv
  <2>2. ASSUME NEW q, q.payload = TableMessage(a, ag), NEW t \in Task
        PROVE  AtMost(q.payload.entries[t], agents'[q.payload.sender].prices[t])
    BY <1>4, <2>2 DEF TableMessage, AtMost
  <2> QED
    BY <1>2, <2>1, <2>2 DEF SentIsKnown, TellsNeighbours
<1>8. TickedHold'
  BY <1>1, <1>4, <1>5 DEF TurnTicks, TickedHold, NewsInv
<1>9. CountsTicks'
  <2>1. agents[a].quiescent < now \/ agents[a].dirty
    BY <1>1 DEF NewsInv, CountsTicks
  <2>2. /\ now \in Nat
        /\ \A b \in Agent : agents[b].quiescent \in Int
        /\ ag.quiescent \in Int
    <3>1. now \in Nat
      BY HarnessAssumption DEF NewsInv, HarnessInv, LoopOK, HarnessAssumption
    <3>2. \A b \in Agent : agents[b].quiescent \in Int /\ agents'[b].quiescent \in Int
      BY RoundConfigAssumption
         DEF NewsInv, HarnessInv, RoundInv, Typed, AgentStates, RoundConfigAssumption
    <3> QED
      BY <1>1, <1>4, <3>1, <3>2
  <2>3. ag.quiescent <= now
    BY <1>1, <1>5, <2>1, <2>2
  <2>4. stage' # "deliver" /\ toTick' = toTick \ {a} /\ now' = now
    BY DEF TurnTicks
  <2> QED
    BY <1>1, <1>4, <2>3, <2>4 DEF NewsInv, CountsTicks
<1>10. ASSUME NEW b \in Agent, NEW c \in topology[now][b], NEW t \in Task,
              ~ SpeaksAgain(agents'[b])
       PROVE  Tells(agents', Copies(queue'), b, c, t)
  <2>1. c \in Agent
    BY NeighboursAreAgents DEF NewsInv
  <2>2. CASE b = a /\ ~ Terminated(ag)
    <3>1. PICK q \in Copies(queue') : q.dest = c /\ q.payload = TableMessage(a, ag)
      BY <1>2, <2>2 DEF TellsNeighbours
    <3> QED
      BY <1>4, <2>2, <3>1 DEF Tells, TableMessage, AtMost
  <2>3. CASE b # a \/ Terminated(ag)
    <3>1. agents'[b].prices = agents[b].prices /\ ~ SpeaksAgain(agents[b])
      BY <1>4, <1>5, <1>10, <2>3
    <3>2. Tells(agents, Copies(queue), b, c, t)
      BY <3>1 DEF NewsInv, Informed
    <3>3. CASE AtMost(agents[b].prices[t], agents[c].prices[t])
      <4>1. AtMost(agents[c].prices[t], agents'[c].prices[t])
        BY <1>6, <2>1
      <4>2. /\ agents[b].prices[t] \in Entries(Agent)
            /\ agents[c].prices[t] \in Entries(Agent)
            /\ agents'[c].prices[t] \in Entries(Agent)
        BY <2>1, EntriesOf DEF NewsInv, HarnessInv, RoundInv, Typed, AgentStates
      <4>3. AtMost(agents[b].prices[t], agents'[c].prices[t])
        BY <3>3, <4>1, <4>2, AtMostTransitive
      <4> QED
        BY <3>1, <4>3 DEF Tells
    <3>4. ASSUME NEW q \in Copies(queue), q.dest = c,
                 AtMost(agents[b].prices[t], q.payload.entries[t])
          PROVE  Tells(agents', Copies(queue'), b, c, t)
      <4>1. q \in Copies(queue')
        BY DEF TurnTicks
      <4> QED
        BY <3>1, <3>4, <4>1 DEF Tells
    <3> QED
      BY <3>2, <3>3, <3>4 DEF Tells
  <2> QED
    BY <2>2, <2>3
<1>11. Informed(agents, Copies(queue))'
  BY <1>10 DEF Informed, TurnTicks
<1> QED
  BY <1>7, <1>8, <1>9, <1>11 DEF NewsInv

\* The next iteration: links that appear find agents that still speak.
LEMMA LaterKeepsNews ==
  ASSUME LinksAppearEarly, NewsInv, EndIteration, HarnessInv'
  PROVE  NewsInv'
<1>1. /\ UNCHANGED <<topology, agents, queue, toTick>>
      /\ toTick = {} /\ now < MaxTicks
      /\ \/ stage' = stage /\ now' = now
         \/ stage' = "deliver" /\ now' = now + 1
  BY DEF EndIteration, NewsInv, HarnessInv, LoopOK
<1>2. now \in Nat /\ MaxTicks \in Nat /\ QuiescenceRounds \in Nat
  BY HarnessAssumption, RoundConfigAssumption
     DEF NewsInv, HarnessInv, LoopOK, HarnessAssumption, RoundConfigAssumption
<1>3. ASSUME NEW a \in Agent
      PROVE  agents[a].quiescent \in Int /\ agents[a].quiescent <= now
  BY RoundConfigAssumption
     DEF NewsInv, HarnessInv, RoundInv, Typed, AgentStates, RoundConfigAssumption, CountsTicks
<1>4. CountsTicks'
  <2>1. ASSUME NEW a \in Agent
        PROVE  /\ agents[a].quiescent <= now'
               /\ stage' = "deliver" => agents[a].quiescent < now'
    BY <1>1, <1>2, <1>3 DEF NewsInv, EndIteration
  <2> QED
    BY <1>1, <2>1 DEF CountsTicks
<1>5. TickedHold'
  BY <1>1 DEF TickedHold, NewsInv, EndIteration
<1>6. SentIsKnown(agents', Copies(queue'))
  BY <1>1 DEF NewsInv
<1>7. ASSUME NEW a \in Agent, NEW b \in topology[now'][a], NEW t \in Task,
             ~ SpeaksAgain(agents[a])
      PROVE  Tells(agents, Copies(queue), a, b, t)
  <2>1. CASE now' = now
    BY <1>7, <2>1 DEF NewsInv, Informed
  <2>2. CASE now' = now + 1
    <3>1. now' \in 1..MaxTicks /\ now' - 1 = now
      BY <1>1, <1>2, <2>2
    <3>2. ~ (now' < QuiescenceRounds)
      BY <1>2, <1>3, <1>7, <2>2 DEF SpeaksAgain
    <3>3. topology[now'][a] \subseteq topology[now][a]
      BY <3>1, <3>2 DEF LinksAppearEarly, NewsInv, HarnessInv, LoopOK
    <3> QED
      BY <1>7, <3>3 DEF NewsInv, Informed
  <2> QED
    BY <1>1, <2>1, <2>2
<1>8. Informed(agents, Copies(queue))'
  BY <1>1, <1>7 DEF Informed
<1> QED
  BY <1>4, <1>5, <1>6, <1>8 DEF NewsInv

\* At first every agent is due to speak.
LEMMA InitNews == Init => NewsInv
<1> SUFFICES ASSUME Init PROVE NewsInv
  OBVIOUS
<1>1. PICK benefits \in BenefitChoices : agents = NewAgents(benefits)
  BY DEF Init
<1>2. HarnessInv
  BY InitHarness
<1>3. \A a \in Agent : agents[a].quiescent = 0 /\ agents[a].dirty
  BY <1>1 DEF NewAgents, NewAgent
<1>4. SentIsKnown(agents, Copies(queue))
  BY DEF Init, SentIsKnown, Copies
<1>5. TickedHold /\ CountsTicks
  BY <1>3 DEF Init, TickedHold, CountsTicks
<1>6. Informed(agents, Copies(queue))
  BY <1>3 DEF Informed, SpeaksAgain
<1> QED
  BY <1>2, <1>4, <1>5, <1>6 DEF NewsInv

\* Every step keeps the news on its way.
LEMMA NextKeepsNews ==
  ASSUME ~ Lossy, LinksAppearEarly
  PROVE  NewsInv /\ [Next]_vars => NewsInv'
<1> SUFFICES ASSUME NewsInv, [Next]_vars PROVE NewsInv'
  OBVIOUS
<1>1. HarnessInv /\ HarnessInv'
  BY NextKeepsHarnessInv DEF NewsInv
<1>2. CASE DeliverDue
  BY <1>1, <1>2, DeliverDueStep, DeliverKeepsNews
<1>3. CASE TickAgent
  BY <1>1, <1>3, TickAgentStep, TickKeepsNews
<1>4. CASE EndIteration
  BY <1>1, <1>4, LaterKeepsNews
<1>5. CASE GiveUp \/ UNCHANGED vars
  <2>1. UNCHANGED <<topology, agents, queue, now, toTick, stage>>
    BY <1>5 DEF GiveUp, vars
  <2>2. TickedHold' /\ CountsTicks' /\ SentIsKnown(agents', Copies(queue'))
    BY <2>1 DEF NewsInv, TickedHold, CountsTicks
  <2>3. Informed(agents, Copies(queue))'
    BY <2>1 DEF NewsInv, Informed
  <2> QED
    BY <1>1, <2>2, <2>3 DEF NewsInv
<1> QED
  BY <1>2, <1>3, <1>4, <1>5 DEF Next

\* Over lossless links the news is always on its way.
LEMMA NewsInvHolds ==
  ASSUME ~ Lossy, LinksAppearEarly
  PROVE  Spec => []NewsInv
<1>1. NewsInv /\ [Next]_vars => NewsInv'
  BY NextKeepsNews
<1> QED
  BY <1>1, InitNews, PTL DEF Spec

(***************************************************************************)
(* Silence is informed: over lossless links, however slow, whatever an      *)
(* agent knows each of its neighbours knows already, or has a message in    *)
(* flight that tells it, or will be told by the agent's next broadcast.     *)
(***************************************************************************)
THEOREM SilenceIsInformed ==
  ASSUME ~ Lossy, LinksAppearEarly
  PROVE  Spec => []NewsOnItsWay
<1>1. NewsInv => NewsOnItsWay
  <2> SUFFICES ASSUME NewsInv, NEW a \in Agent, NEW b \in topology[now][a], NEW t \in Task
               PROVE  \/ \/ AtMost(agents[a].prices[t], agents[b].prices[t])
                         \/ \E i \in DOMAIN queue :
                              /\ queue[i].dest = b
                              /\ AtMost(agents[a].prices[t], queue[i].payload.entries[t])
                      \/ SpeaksAgain(agents[a])
    BY DEF NewsOnItsWay, SpeaksAgain
  <2>1. Tells(agents, Copies(queue), a, b, t) \/ SpeaksAgain(agents[a])
    BY DEF NewsInv, Informed
  <2> QED
    BY <2>1 DEF Tells, Copies
<1> QED
  BY <1>1, NewsInvHolds, PTL

-----------------------------------------------------------------------------
(* Agreement *)

\* News spreads from any agent to all others.
Connected(links) ==
  \A S \in SUBSET Agent : S # {} /\ (\A a \in S : links[a] \subseteq S) => S = Agent

\* From the tick on at which agents can have terminated.
ConnectedLate ==
  \A links \in TopologyChoices, k \in 0..MaxTicks :
    k >= QuiescenceRounds => Connected(links[k])

\* With nobody left to speak and nothing in flight, connected tables agree.
LEMMA SilenceIsAgreement ==
  ASSUME ConnectedLate, NewsInv, stage = "end", RoundOver
  PROVE  \A a, b \in Agent : agents[a].prices = agents[b].prices
<1>1. Copies(queue) = {} /\ toTick = {}
  BY DEF RoundOver, Copies, NewsInv, HarnessInv, LoopOK
<1>2. \A a \in Agent : agents[a] \in AgentStates /\ ~ SpeaksAgain(agents[a])
  <2> SUFFICES ASSUME NEW a \in Agent
               PROVE  agents[a] \in AgentStates /\ ~ SpeaksAgain(agents[a])
    OBVIOUS
  <2>1. agents[a] \in AgentStates /\ agents[a].quiescent >= QuiescenceRounds
    BY DEF RoundOver, Terminated, NewsInv, HarnessInv, RoundInv, Typed
  <2>2. ~ agents[a].dirty
    BY <1>1 DEF NewsInv, TickedHold
  <2> QED
    BY <2>1, <2>2, RoundConfigAssumption DEF SpeaksAgain, RoundConfigAssumption, AgentStates
<1>3. Connected(topology[now])
  <2>1. PICK a \in Agent : TRUE
    BY AgentIds
  <2>2. agents[a].quiescent >= QuiescenceRounds /\ agents[a].quiescent <= now
    BY DEF RoundOver, Terminated, NewsInv, CountsTicks
  <2>3. /\ now \in 0..MaxTicks /\ now \in Int /\ QuiescenceRounds \in Int
        /\ agents[a].quiescent \in Int
    BY <1>2, HarnessAssumption, RoundConfigAssumption
       DEF NewsInv, HarnessInv, LoopOK, HarnessAssumption, RoundConfigAssumption, AgentStates
  <2>4. now >= QuiescenceRounds
    BY <2>2, <2>3
  <2> QED
    BY <2>3, <2>4 DEF ConnectedLate, NewsInv, HarnessInv, LoopOK
<1>4. ASSUME NEW a \in Agent, NEW t \in Task, NEW b \in Agent
      PROVE  AtMost(agents[a].prices[t], agents[b].prices[t])
  <2> DEFINE S == {c \in Agent : AtMost(agents[a].prices[t], agents[c].prices[t])}
  <2>1. a \in S
    BY DEF AtMost
  <2>2. ASSUME NEW c \in S, NEW d \in topology[now][c] PROVE d \in S
    <3>1. c \in Agent /\ d \in Agent
      BY NeighboursAreAgents DEF NewsInv
    <3>2. Tells(agents, Copies(queue), c, d, t)
      BY <1>2, <3>1 DEF NewsInv, Informed
    <3>3. AtMost(agents[c].prices[t], agents[d].prices[t])
      BY <1>1, <3>2 DEF Tells
    <3>4. AtMost(agents[a].prices[t], agents[d].prices[t])
      BY <3>1, <3>3, EntriesInPlay, AtMostTransitive DEF NewsInv
    <3> QED
      BY <3>1, <3>4
  <2>3. S = Agent
    BY <1>3, <2>1, <2>2 DEF Connected
  <2> QED
    BY <2>3
<1> SUFFICES ASSUME NEW a \in Agent, NEW b \in Agent
             PROVE  agents[a].prices = agents[b].prices
  OBVIOUS
<1>5. ASSUME NEW t \in Task PROVE agents[a].prices[t] = agents[b].prices[t]
  BY <1>4, EntriesInPlay, AtMostAntisymmetric DEF NewsInv
<1>6. agents[a].prices \in Tables /\ agents[b].prices \in Tables
  BY <1>2 DEF AgentStates
<1> QED
  BY <1>5, <1>6 DEF Tables

\* Tables that agree are the merged one.
LEMMA AgreedTablesAreMerged ==
  ASSUME NEW msgs, Typed(agents, msgs),
         \A a, b \in Agent : agents[a].prices = agents[b].prices, NEW a \in Agent
  PROVE  agents[a].prices = MergedPrices
<1>1. agents[a].prices = [t \in Task |-> agents[a].prices[t]]
  BY DEF Typed, AgentStates, Tables
<1>2. MergedIsHighest(agents) /\ Merged(agents) = [t \in Task |-> Merged(agents)[t]]
  BY MergedTable, MergedIsTable
<1>3. ASSUME NEW t \in Task PROVE Merged(agents)[t] = agents[a].prices[t]
  <2>1. PICK b \in Agent : Merged(agents)[t] = agents[b].prices[t]
    BY <1>2 DEF MergedIsHighest
  <2> QED
    BY <2>1
<1> QED
  BY <1>1, <1>2, <1>3 DEF MergedPrices

(***************************************************************************)
(* A round over lossless links that returns has converged: every table is   *)
(* the merged one.                                                          *)
(***************************************************************************)
THEOREM ReturnsAgree ==
  ASSUME ~ Lossy, LinksAppearEarly, ConnectedLate
  PROVE  Spec => []ReturnedAgreed
<1>1. NewsInv => ReturnedAgreed
  <2> SUFFICES ASSUME NewsInv, outcome = "returned", NEW a \in Agent
               PROVE  agents[a].prices = MergedPrices
    BY DEF ReturnedAgreed
  <2>1. \A b, c \in Agent : agents[b].prices = agents[c].prices
    BY SilenceIsAgreement DEF NewsInv, HarnessInv, ChecksPassed
  <2> QED
    BY <2>1, AgreedTablesAreMerged DEF NewsInv, HarnessInv, RoundInv
<1> QED
  BY <1>1, NewsInvHolds, PTL

(***************************************************************************)
(* Over lossless links no round fails the consistency check: two agents     *)
(* that believe to hold one task would still have something to tell.        *)
(***************************************************************************)
NeverInconsistent == outcome # "inconsistent"

THEOREM LosslessIsConsistent ==
  ASSUME ~ Lossy, LinksAppearEarly, ConnectedLate
  PROVE  Spec => []NeverInconsistent
<1>1. ASSUME NewsInv, stage = "end", RoundOver PROVE Consistent
  <2>1. \A a, b \in Agent : agents[a].prices = agents[b].prices
    BY <1>1, SilenceIsAgreement
  <2>2. \A a \in Agent : agents[a].prices = MergedPrices
    BY <1>1, <2>1, AgreedTablesAreMerged DEF NewsInv, HarnessInv, RoundInv
  <2>3. ASSUME NEW a \in Agent PROVE MergedPrices[agents[a].assignment].bidder = a
    <3>1. ~ Outbid(a, agents[a])
      BY <1>1 DEF NewsInv, HarnessInv, LoopOK, TickedHold
    <3> QED
      BY <2>2, <3>1 DEF Outbid
  <2> QED
    BY <2>3 DEF Consistent
<1>2. Init => NeverInconsistent
  BY DEF Init, NeverInconsistent
<1>3. NewsInv /\ NeverInconsistent /\ [Next]_vars => NeverInconsistent'
  <2> SUFFICES ASSUME NewsInv, NeverInconsistent, [Next]_vars PROVE NeverInconsistent'
    OBVIOUS
  <2>1. CASE EndIteration
    BY <1>1, <2>1 DEF EndIteration, NeverInconsistent
  <2>2. CASE GiveUp \/ DeliverDue \/ TickAgent \/ UNCHANGED vars
    BY <2>2 DEF GiveUp, DeliverDue, TickAgent, vars, NeverInconsistent
  <2> QED
    BY <2>1, <2>2 DEF Next
<1> QED
  BY <1>2, <1>3, NewsInvHolds, PTL DEF Spec

=============================================================================

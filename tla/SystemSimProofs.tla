-------------------------- MODULE SystemSimProofs --------------------------
(***************************************************************************)
(* Proofs of what the simulated fleet keeps, for any fleet, mission, travel *)
(* times and topology, whoever dies and whichever copies the links lose:    *)
(* every replica is sound of what was executed, every copy in flight        *)
(* reports what is true, and each robot's executor is in step with its      *)
(* participant.                                                             *)
(***************************************************************************)
EXTENDS SystemSim, ParticipantProofs

\* What was asked for and what was executed, so far.
Known == Mission \cup injected
Executed == Copies(executions)

Sound == Members(Known, Executed)
Copied == Copy(Robot, Reports(Known, Executed))

\* Whoever executes something is alive.
LiveWork == \A r \in dead : execution[r] = NoExecution

ExecutorInStep(r) ==
  participants[r].executing =
    IF execution[r] = NoExecution THEN NoTask ELSE execution[r].task

\* Every participant knows the mission, but for its collaborative tasks.
Briefed == \A r \in Robot : Mission \ Collaborative \subseteq participants[r].tasks

(***************************************************************************)
(* The inductive invariant.                                                 *)
(***************************************************************************)
Clockwork ==
  /\ now \in 0..MaxTime /\ lost \in 0..MaxLost /\ busyAt \in 0..now
  /\ dead \subseteq MayDie /\ injected \subseteq Injectable
  /\ stage \in {"begin", "tick", "finish"}
  /\ outcome \in {"running", "complete", "timed_out", "raised"}
  /\ toTick \subseteq Live
  /\ stage = "tick" <=> toTick # {}
  /\ outcome = "running" /\ stage # "begin" => now < MaxTime

SimInv ==
  /\ Clockwork
  /\ execution \in [Robot -> Executions \cup {NoExecution}]
  /\ executions \in Seq(RealTask \X Robot)
  /\ participants \in [Robot -> Sound]
  /\ queue \in Seq(Copied)
  /\ LiveWork
  /\ Briefed
  /\ outcome # "raised" => \A r \in Live : ExecutorInStep(r)

-----------------------------------------------------------------------------
(* Handing copies over *)

\* Participants that go on with what they execute, and forget no task.
Keeps(ps, qs) ==
  \A r \in Robot : qs[r].executing = ps[r].executing /\ ps[r].tasks \subseteq qs[r].tasks

\* None of them goes back.
AllForward(ps, qs) == \A r \in Robot : Forward(ps[r], qs[r])

LEMMA AllForwardTransitive ==
  ASSUME NEW known, NEW done, NEW ps \in [Robot -> Members(known, done)],
         NEW qs \in [Robot -> Members(known, done)], NEW us \in [Robot -> Members(known, done)],
         AllForward(ps, qs), AllForward(qs, us)
  PROVE  AllForward(ps, us)
<1>1. ASSUME NEW r \in Robot PROVE Forward(ps[r], us[r])
  <2>1. /\ ps[r] \in Members(known, done) /\ qs[r] \in Members(known, done)
        /\ us[r] \in Members(known, done)
    OBVIOUS
  <2>2. Forward(ps[r], qs[r]) /\ Forward(qs[r], us[r])
    BY DEF AllForward
  <2> QED
    BY <2>1, <2>2, ForwardTransitive
<1> QED
  BY <1>1 DEF AllForward

LEMMA OneForward ==
  ASSUME NEW known, NEW done, NEW ps \in [Robot -> Members(known, done)], NEW r \in Robot,
         NEW p, Forward(ps[r], p)
  PROVE  AllForward(ps, [ps EXCEPT ![r] = p])
<1>1. ASSUME NEW s \in Robot, s # r PROVE Forward(ps[s], ps[s])
  BY SameIsForward
<1>2. ASSUME NEW s \in Robot PROVE Forward(ps[s], [ps EXCEPT ![r] = p][s])
  <2>1. [ps EXCEPT ![r] = p][s] = IF s = r THEN p ELSE ps[s]
    OBVIOUS
  <2> QED
    BY <1>1, <2>1
<1> QED
  BY <1>2 DEF AllForward

LEMMA NoneMoves ==
  ASSUME NEW known, NEW done, NEW ps \in [Robot -> Members(known, done)]
  PROVE  AllForward(ps, ps)
<1>1. ASSUME NEW s \in Robot PROVE Forward(ps[s], ps[s])
  BY SameIsForward
<1> QED
  BY <1>1 DEF AllForward

LEMMA HandOverResult ==
  ASSUME NEW known, NEW done, HistoryOK(known, done), now \in Nat,
         NEW ps \in [Robot -> Members(known, done)],
         NEW q \in Copy(Robot, Reports(known, done))
  PROVE  /\ HandOver(ps, q) \in [Robot -> Members(known, done)]
         /\ Keeps(ps, HandOver(ps, q))
         /\ AllForward(ps, HandOver(ps, q))
<1>1. q.dest \in Robot /\ q.payload \in Reports(known, done)
  BY DEF Copy
<1>2. Handled(known, done, ps[q.dest], Handle(q.dest, ps[q.dest], q.payload, now))
  BY <1>1, HandleResult
<1> DEFINE p == Handle(q.dest, ps[q.dest], q.payload, now)
<1>3. HandOver(ps, q) = IF q.dest \in dead THEN ps ELSE [ps EXCEPT ![q.dest] = p]
  BY DEF HandOver
<1>5. Forward(ps[q.dest], p)
  BY <1>1, HandleForward
<1> HIDE DEF p
<1>4. /\ p \in Members(known, done) /\ p.executing = ps[q.dest].executing
      /\ ps[q.dest].tasks \subseteq p.tasks
  BY <1>2 DEF Handled, p
<1>6. AllForward(ps, HandOver(ps, q))
  <2>1. AllForward(ps, ps) /\ AllForward(ps, [ps EXCEPT ![q.dest] = p])
    BY <1>1, <1>5, NoneMoves, OneForward
  <2> QED
    BY <1>3, <2>1
<1>7. HandOver(ps, q) \in [Robot -> Members(known, done)] /\ Keeps(ps, HandOver(ps, q))
  BY <1>1, <1>3, <1>4 DEF Keeps
<1> QED
  BY <1>6, <1>7

\* A batch of copies leaves sound participants, that keep what they had.
LEMMA BatchResult ==
  ASSUME NEW known, NEW done, HistoryOK(known, done), now \in Nat,
         participants \in [Robot -> Members(known, done)],
         NEW batch \in Seq(Copy(Robot, Reports(known, done)))
  PROVE  /\ FoldLeft(HandOver, participants, batch) \in [Robot -> Members(known, done)]
         /\ Keeps(participants, FoldLeft(HandOver, participants, batch))
         /\ AllForward(participants, FoldLeft(HandOver, participants, batch))
<1> DEFINE X == {ps \in [Robot -> Members(known, done)] :
                   Keeps(participants, ps) /\ AllForward(participants, ps)}
           n == Len(batch)
           Defines(f) == f = [U \in SUBSET (1..n) |->
                                IF U = {} THEN participants
                                ELSE HandOver(f[U \ {Max(U)}], batch[Max(U)])]
           iter == CHOOSE f : Defines(f)
           step == [p \in (1..n) \X X |-> HandOver(p[2], batch[p[1]])]
<1>1. n \in Nat /\ DOMAIN batch = 1..n
  OBVIOUS
<1>2. FoldLeft(HandOver, participants, batch) = iter[1..n]
  <2>1. FoldLeft(HandOver, participants, batch) =
          (CHOOSE f : f = [U \in SUBSET (DOMAIN batch) |->
                             IF U = {} THEN participants
                             ELSE HandOver(f[U \ {Max(U)}], batch[Max(U)])])[DOMAIN batch]
    BY Zenon DEF FoldLeft, MapThenFoldSet
  <2> QED
    BY <1>1, <2>1
<1> HIDE DEF n
<1>3. ASSUME NEW k \in 1..n, NEW x \in X PROVE HandOver(x, batch[k]) \in X
  <2>1. batch[k] \in Copy(Robot, Reports(known, done))
    BY <1>1
  <2>2. /\ x \in [Robot -> Members(known, done)]
        /\ Keeps(participants, x) /\ AllForward(participants, x)
    OBVIOUS
  <2>3. /\ HandOver(x, batch[k]) \in [Robot -> Members(known, done)]
        /\ Keeps(x, HandOver(x, batch[k])) /\ AllForward(x, HandOver(x, batch[k]))
    BY <2>1, <2>2, HandOverResult
  <2>4. Keeps(participants, HandOver(x, batch[k]))
    BY <2>2, <2>3 DEF Keeps
  <2>5. AllForward(participants, HandOver(x, batch[k]))
    BY <2>2, <2>3, AllForwardTransitive
  <2> QED
    BY <2>3, <2>4, <2>5
<1>4. participants \in X
  <2>1. Keeps(participants, participants)
    BY DEF Keeps
  <2>2. AllForward(participants, participants)
    BY NoneMoves
  <2> QED
    BY <2>1, <2>2
<1> HIDE DEF X
<1>5. step \in [(1..n) \X X -> X]
  BY <1>3
<1>6. \E f : Defines(f)
  <2> HIDE DEF step
  <2>1. PICK g \in [SUBSET (1..n) -> X] : ByMax(g, n, participants, step)
    BY <1>1, <1>4, <1>5, LeftFoldExists, Zenon
  <2>2. ASSUME NEW U \in SUBSET (1..n), U # {}
        PROVE  g[U] = HandOver(g[U \ {Max(U)}], batch[Max(U)])
    <3>1. Max(U) \in 1..n /\ g[U \ {Max(U)}] \in X
      BY <1>1, <2>2, LastOfPrefix
    <3>2. g[U] = step[<<Max(U), g[U \ {Max(U)}]>>]
      BY <2>1, <2>2 DEF ByMax
    <3> QED
      BY <3>1, <3>2 DEF step
  <2>3. g[{}] = participants
    BY <2>1 DEF ByMax
  <2> QED
    BY <2>2, <2>3
<1>7. Defines(iter)
  <2> HIDE DEF Defines
  <2> QED
    BY <1>6
<1> HIDE DEF iter
<1>8. ASSUME NEW U \in SUBSET (1..n), U # {}, iter[U \ {Max(U)}] \in X
      PROVE  iter[U] = step[<<Max(U), iter[U \ {Max(U)}]>>]
  <2>1. Max(U) \in 1..n
    BY <1>1, <1>8, LastOfPrefix
  <2>2. iter[U] = HandOver(iter[U \ {Max(U)}], batch[Max(U)])
    BY <1>7, <1>8
  <2> QED
    BY <1>8, <2>1, <2>2
<1>9. FoldsFrom(iter, n, X, participants, step)
  BY <1>7, <1>8 DEF FoldsFrom
<1>10. iter[1..n] \in X
  <2> HIDE DEF step, Defines
  <2>1. FoldsInOrder(iter, n, X, participants, step)
    BY <1>1, <1>4, <1>5, <1>9, FoldByPrefix
  <2> QED
    BY <1>1, <2>1 DEF FoldsInOrder
<1> QED
  BY <1>2, <1>10 DEF X


-----------------------------------------------------------------------------
(* Sending *)

\* A copy to each neighbour.
LEMMA BroadcastResult ==
  ASSUME NEW A, NEW q \in Seq(Copy(Robot, A)), NEW r \in Robot, NEW m \in A, now \in Nat
  PROVE  Broadcast(q, r, m) \in Seq(Copy(Robot, A))
<1> DEFINE delay == [d \in Topology[r] |-> Delay]
<1>1. /\ IsFiniteSet(Robot) /\ Topology[r] \in SUBSET Robot
      /\ delay \in [Topology[r] -> Int]
  BY FleetAssumption, SystemAssumption DEF FleetAssumption, SystemAssumption
<1>2. Broadcast(q, r, m) = SendPayload(q, m, Topology[r], delay, now)
  BY DEF Broadcast
<1> HIDE DEF delay
<1>3. PayloadSent(SendPayload(q, m, Topology[r], delay, now), q, Robot, A, m, Topology[r])
  BY <1>1, SendPayloadResult
<1> QED
  BY <1>2, <1>3 DEF PayloadSent

LEMMA SentAllResult ==
  ASSUME NEW A, NEW r \in Robot, NEW payloads \in Seq(A), now \in Nat
  PROVE  SentAll(<<>>, r, payloads) \in Seq(Copy(Robot, A))
<1> DEFINE X == Seq(Copy(Robot, A))
           n == Len(payloads)
           Defines(f) == f = [U \in SUBSET (1..n) |->
                                IF U = {} THEN <<>>
                                ELSE Broadcast(f[U \ {Max(U)}], r, payloads[Max(U)])]
           iter == CHOOSE f : Defines(f)
           step == [p \in (1..n) \X X |-> Broadcast(p[2], r, payloads[p[1]])]
<1>1. n \in Nat /\ DOMAIN payloads = 1..n
  OBVIOUS
<1>2. SentAll(<<>>, r, payloads) = iter[1..n]
  <2>1. SentAll(<<>>, r, payloads) =
          (CHOOSE f : f = [U \in SUBSET (DOMAIN payloads) |->
                             IF U = {} THEN <<>>
                             ELSE Broadcast(f[U \ {Max(U)}], r, payloads[Max(U)])])[DOMAIN payloads]
    BY Zenon DEF SentAll, FoldLeft, MapThenFoldSet
  <2> QED
    BY <1>1, <2>1
<1> HIDE DEF n
<1>3. ASSUME NEW k \in 1..n, NEW x \in X PROVE Broadcast(x, r, payloads[k]) \in X
  <2>1. payloads[k] \in A
    BY <1>1
  <2> QED
    BY <2>1, BroadcastResult
<1>4. <<>> \in X
  OBVIOUS
<1> HIDE DEF X
<1>5. step \in [(1..n) \X X -> X]
  BY <1>3
<1>6. \E f : Defines(f)
  <2> HIDE DEF step
  <2>1. PICK g \in [SUBSET (1..n) -> X] : ByMax(g, n, <<>>, step)
    BY <1>1, <1>4, <1>5, LeftFoldExists, Zenon
  <2>2. ASSUME NEW U \in SUBSET (1..n), U # {}
        PROVE  g[U] = Broadcast(g[U \ {Max(U)}], r, payloads[Max(U)])
    <3>1. Max(U) \in 1..n /\ g[U \ {Max(U)}] \in X
      BY <1>1, <2>2, LastOfPrefix
    <3>2. g[U] = step[<<Max(U), g[U \ {Max(U)}]>>]
      BY <2>1, <2>2 DEF ByMax
    <3> QED
      BY <3>1, <3>2 DEF step
  <2>3. g[{}] = <<>>
    BY <2>1 DEF ByMax
  <2> QED
    BY <2>2, <2>3
<1>7. Defines(iter)
  <2> HIDE DEF Defines
  <2> QED
    BY <1>6
<1> HIDE DEF iter
<1>8. ASSUME NEW U \in SUBSET (1..n), U # {}, iter[U \ {Max(U)}] \in X
      PROVE  iter[U] = step[<<Max(U), iter[U \ {Max(U)}]>>]
  <2>1. Max(U) \in 1..n
    BY <1>1, <1>8, LastOfPrefix
  <2>2. iter[U] = Broadcast(iter[U \ {Max(U)}], r, payloads[Max(U)])
    BY <1>7, <1>8
  <2> QED
    BY <1>8, <2>1, <2>2
<1>9. FoldsFrom(iter, n, X, <<>>, step)
  BY <1>7, <1>8 DEF FoldsFrom
<1>10. iter[1..n] \in X
  <2> HIDE DEF step, Defines
  <2>1. FoldsInOrder(iter, n, X, <<>>, step)
    BY <1>1, <1>4, <1>5, <1>9, FoldByPrefix
  <2> QED
    BY <1>1, <2>1 DEF FoldsInOrder
<1> QED
  BY <1>2, <1>10 DEF X

\* The messages of executions that end.
Ended(list) ==
  FoldLeft(LAMBDA q, r : Broadcast(q, r, CompletedMsg(execution[r].task, r)), <<>>, list)

LEMMA EndedResult ==
  ASSUME NEW A, NEW S \in SUBSET Robot, NEW list \in Seq(S), now \in Nat,
         \A r \in S : CompletedMsg(execution[r].task, r) \in A
  PROVE  Ended(list) \in Seq(Copy(Robot, A))
<1> DEFINE X == Seq(Copy(Robot, A))
           n == Len(list)
           Defines(f) == f = [U \in SUBSET (1..n) |->
                                IF U = {} THEN <<>>
                                ELSE Broadcast(f[U \ {Max(U)}], list[Max(U)], CompletedMsg(execution[list[Max(U)]].task, list[Max(U)]))]
           iter == CHOOSE f : Defines(f)
           step == [p \in (1..n) \X X |-> Broadcast(p[2], list[p[1]], CompletedMsg(execution[list[p[1]]].task, list[p[1]]))]
<1>1. n \in Nat /\ DOMAIN list = 1..n
  OBVIOUS
<1>2. Ended(list) = iter[1..n]
  <2>1. Ended(list) =
          (CHOOSE f : f = [U \in SUBSET (DOMAIN list) |->
                             IF U = {} THEN <<>>
                             ELSE Broadcast(f[U \ {Max(U)}], list[Max(U)], CompletedMsg(execution[list[Max(U)]].task, list[Max(U)]))])[DOMAIN list]
    BY Zenon DEF Ended, FoldLeft, MapThenFoldSet
  <2> QED
    BY <1>1, <2>1
<1> HIDE DEF n
<1>3. ASSUME NEW k \in 1..n, NEW x \in X PROVE Broadcast(x, list[k], CompletedMsg(execution[list[k]].task, list[k])) \in X
  <2>1. list[k] \in S /\ list[k] \in Robot
    BY <1>1
  <2>2. CompletedMsg(execution[list[k]].task, list[k]) \in A
    BY <2>1
  <2> QED
    BY <2>1, <2>2, BroadcastResult
<1>4. <<>> \in X
  OBVIOUS
<1> HIDE DEF X
<1>5. step \in [(1..n) \X X -> X]
  BY <1>3
<1>6. \E f : Defines(f)
  <2> HIDE DEF step
  <2>1. PICK g \in [SUBSET (1..n) -> X] : ByMax(g, n, <<>>, step)
    BY <1>1, <1>4, <1>5, LeftFoldExists, Zenon
  <2>2. ASSUME NEW U \in SUBSET (1..n), U # {}
        PROVE  g[U] = Broadcast(g[U \ {Max(U)}], list[Max(U)], CompletedMsg(execution[list[Max(U)]].task, list[Max(U)]))
    <3>1. Max(U) \in 1..n /\ g[U \ {Max(U)}] \in X
      BY <1>1, <2>2, LastOfPrefix
    <3>2. g[U] = step[<<Max(U), g[U \ {Max(U)}]>>]
      BY <2>1, <2>2 DEF ByMax
    <3> QED
      BY <3>1, <3>2 DEF step
  <2>3. g[{}] = <<>>
    BY <2>1 DEF ByMax
  <2> QED
    BY <2>2, <2>3
<1>7. Defines(iter)
  <2> HIDE DEF Defines
  <2> QED
    BY <1>6
<1> HIDE DEF iter
<1>8. ASSUME NEW U \in SUBSET (1..n), U # {}, iter[U \ {Max(U)}] \in X
      PROVE  iter[U] = step[<<Max(U), iter[U \ {Max(U)}]>>]
  <2>1. Max(U) \in 1..n
    BY <1>1, <1>8, LastOfPrefix
  <2>2. iter[U] = Broadcast(iter[U \ {Max(U)}], list[Max(U)], CompletedMsg(execution[list[Max(U)]].task, list[Max(U)]))
    BY <1>7, <1>8
  <2> QED
    BY <1>8, <2>1, <2>2
<1>9. FoldsFrom(iter, n, X, <<>>, step)
  BY <1>7, <1>8 DEF FoldsFrom
<1>10. iter[1..n] \in X
  <2> HIDE DEF step, Defines
  <2>1. FoldsInOrder(iter, n, X, <<>>, step)
    BY <1>1, <1>4, <1>5, <1>9, FoldByPrefix
  <2> QED
    BY <1>1, <2>1 DEF FoldsInOrder
<1> QED
  BY <1>2, <1>10 DEF X


-----------------------------------------------------------------------------
(* Ending executions *)

LEMMA EndResult ==
  ASSUME NEW known, NEW done, NEW ps \in [Robot -> Members(known, done)], NEW r \in Robot,
         execution[r].task \in RealTask, <<execution[r].task, r>> \in done
  PROVE  /\ End(ps, r) \in [Robot -> Members(known, done)]
         /\ End(ps, r)[r].executing = NoTask /\ End(ps, r)[r].tasks = ps[r].tasks
         /\ \A s \in Robot : s # r => End(ps, r)[s] = ps[s]
<1> DEFINE p == TaskFinished(r, ps[r], execution[r].task)
<1>1. p \in Members(known, done) /\ p.executing = NoTask /\ p.tasks = ps[r].tasks
  BY TaskFinishedResult
<1>2. End(ps, r) = [ps EXCEPT ![r] = p]
  BY DEF End
<1> HIDE DEF p
<1> QED
  BY <1>1, <1>2

LEMMA EndForward ==
  ASSUME NEW known, NEW done, NEW ps \in [Robot -> Members(known, done)], NEW r \in Robot,
         execution[r].task \in RealTask
  PROVE  AllForward(ps, End(ps, r))
<1> DEFINE t == execution[r].task
           p == TaskFinished(r, ps[r], t)
<1>1. ps[r] \in Members(known, done) /\ t \in RealTask
  OBVIOUS
<1>2. End(ps, r) = [ps EXCEPT ![r] = p]
  BY DEF End
<1> HIDE DEF t
<1>3. Forward(ps[r], p)
  BY <1>1, TaskFinishedForward
<1> HIDE DEF p
<1>4. AllForward(ps, [ps EXCEPT ![r] = p])
  BY <1>3, OneForward, Zenon
<1> QED
  BY <1>2, <1>4, Zenon

\* The robots of the list end what they execute, the others go on.
LEMMA EndsResult ==
  ASSUME NEW known, NEW done, participants \in [Robot -> Members(known, done)],
         NEW S \in SUBSET Robot, NEW list \in Seq(S),
         \A r \in S : execution[r].task \in RealTask /\ <<execution[r].task, r>> \in done
  PROVE  /\ FoldLeft(End, participants, list) \in [Robot -> Members(known, done)]
         /\ \A r \in Robot :
              FoldLeft(End, participants, list)[r].executing =
                IF r \in ToSet(list) THEN NoTask ELSE participants[r].executing
         /\ \A r \in Robot : FoldLeft(End, participants, list)[r].tasks = participants[r].tasks
         /\ AllForward(participants, FoldLeft(End, participants, list))
<1> DEFINE X == {ps \in [Robot -> Members(known, done)] :
                   /\ AllForward(participants, ps)
                   /\ \A r \in Robot : /\ ps[r].tasks = participants[r].tasks
                                       /\ r \notin ToSet(list) =>
                                            ps[r].executing = participants[r].executing}
           n == Len(list)
           Defines(f) == f = [U \in SUBSET (1..n) |->
                                IF U = {} THEN participants
                                ELSE End(f[U \ {Max(U)}], list[Max(U)])]
           iter == CHOOSE f : Defines(f)
           step == [p \in (1..n) \X X |-> End(p[2], list[p[1]])]
<1>1. n \in Nat /\ DOMAIN list = 1..n
  OBVIOUS
<1>2. FoldLeft(End, participants, list) = iter[1..n]
  <2>1. FoldLeft(End, participants, list) =
          (CHOOSE f : f = [U \in SUBSET (DOMAIN list) |->
                             IF U = {} THEN participants
                             ELSE End(f[U \ {Max(U)}], list[Max(U)])])[DOMAIN list]
    BY Zenon DEF FoldLeft, MapThenFoldSet
  <2> QED
    BY <1>1, <2>1
<1> HIDE DEF n
<1>3. ASSUME NEW k \in 1..n, NEW x \in X PROVE End(x, list[k]) \in X
  <2>1. list[k] \in S /\ list[k] \in Robot /\ list[k] \in ToSet(list)
    BY <1>1 DEF ToSet
  <2>2. /\ execution[list[k]].task \in RealTask
        /\ <<execution[list[k]].task, list[k]>> \in done
    BY <2>1
  <2>3. x \in [Robot -> Members(known, done)]
    OBVIOUS
  <2>4. /\ End(x, list[k]) \in [Robot -> Members(known, done)]
        /\ End(x, list[k])[list[k]].tasks = x[list[k]].tasks
        /\ \A r \in Robot : r # list[k] => End(x, list[k])[r] = x[r]
    BY <2>1, <2>2, <2>3, EndResult
  <2>5. AllForward(participants, End(x, list[k]))
    <3>1. AllForward(x, End(x, list[k]))
      BY <2>1, <2>2, <2>3, EndForward
    <3>2. AllForward(participants, x)
      OBVIOUS
    <3> QED
      BY <2>3, <2>4, <3>1, <3>2, AllForwardTransitive
  <2> QED
    BY <2>1, <2>4, <2>5
<1>4. participants \in X
  BY NoneMoves
<1> HIDE DEF X
<1>5. step \in [(1..n) \X X -> X]
  BY <1>3
<1>6. \E f : Defines(f)
  <2> HIDE DEF step
  <2>1. PICK g \in [SUBSET (1..n) -> X] : ByMax(g, n, participants, step)
    BY <1>1, <1>4, <1>5, LeftFoldExists, Zenon
  <2>2. ASSUME NEW U \in SUBSET (1..n), U # {}
        PROVE  g[U] = End(g[U \ {Max(U)}], list[Max(U)])
    <3>1. Max(U) \in 1..n /\ g[U \ {Max(U)}] \in X
      BY <1>1, <2>2, LastOfPrefix
    <3>2. g[U] = step[<<Max(U), g[U \ {Max(U)}]>>]
      BY <2>1, <2>2 DEF ByMax
    <3> QED
      BY <3>1, <3>2 DEF step
  <2>3. g[{}] = participants
    BY <2>1 DEF ByMax
  <2> QED
    BY <2>2, <2>3
<1>7. Defines(iter)
  <2> HIDE DEF Defines
  <2> QED
    BY <1>6
<1> HIDE DEF iter
<1>8. ASSUME NEW U \in SUBSET (1..n), U # {}, iter[U \ {Max(U)}] \in X
      PROVE  iter[U] = step[<<Max(U), iter[U \ {Max(U)}]>>]
  <2>1. Max(U) \in 1..n
    BY <1>1, <1>8, LastOfPrefix
  <2>2. iter[U] = End(iter[U \ {Max(U)}], list[Max(U)])
    BY <1>7, <1>8
  <2> QED
    BY <1>8, <2>1, <2>2
<1>9. FoldsFrom(iter, n, X, participants, step)
  BY <1>7, <1>8 DEF FoldsFrom
<1>10. PICK g \in [0..n -> X] : ByPrefix(g, n, participants, step) /\ g[n] = iter[1..n]
  <2> HIDE DEF step, Defines
  <2>1. FoldsInOrder(iter, n, X, participants, step)
    BY <1>1, <1>4, <1>5, <1>9, FoldByPrefix
  <2> QED
    BY <2>1 DEF FoldsInOrder
<1>11. ASSUME NEW k \in 1..n
       PROVE  /\ g[k][list[k]].executing = NoTask
              /\ \A r \in Robot : r # list[k] => g[k][r] = g[k - 1][r]
  <2>1. k \in 0..n /\ k # 0 /\ k - 1 \in 0..n
    BY <1>1
  <2>2. g[k] = step[<<k, g[k - 1]>>] /\ g[k - 1] \in X
    BY <1>10, <2>1 DEF ByPrefix
  <2>3. g[k] = End(g[k - 1], list[k])
    BY <2>2
  <2>4. g[k - 1] \in [Robot -> Members(known, done)]
    BY <2>2 DEF X
  <2>5. list[k] \in S /\ list[k] \in Robot
    BY <1>1
  <2>6. /\ execution[list[k]].task \in RealTask
        /\ <<execution[list[k]].task, list[k]>> \in done
    BY <2>5
  <2>7. /\ End(g[k - 1], list[k])[list[k]].executing = NoTask
        /\ \A s \in Robot : s # list[k] => End(g[k - 1], list[k])[s] = g[k - 1][s]
    BY <2>4, <2>5, <2>6, EndResult
  <2> QED
    BY <2>3, <2>7
<1> HIDE DEF step, Defines
<1> DEFINE Good == {k \in 0..n : \A j \in 1..k : g[k][list[j]].executing = NoTask}
<1>12. 0 \in Good
  BY <1>1
<1>13. ASSUME NEW k \in 1..n, k - 1 \in Good PROVE k \in Good
  <2>1. ASSUME NEW j \in 1..k PROVE g[k][list[j]].executing = NoTask
    <3>1. CASE list[j] = list[k]
      BY <1>11, <3>1
    <3>2. CASE list[j] # list[k]
      <4>1. j \in 1..(k - 1) /\ j \in 1..n
        BY <1>1, <3>2
      <4>2. g[k - 1][list[j]].executing = NoTask
        BY <1>13, <4>1
      <4>3. list[j] \in Robot
        BY <1>1, <4>1
      <4> QED
        BY <1>11, <3>2, <4>2, <4>3
    <3> QED
      BY <3>1, <3>2
  <2> QED
    BY <1>1, <2>1
<1>14. \A j \in 1..n : iter[1..n][list[j]].executing = NoTask
  <2> HIDE DEF Good
  <2>1. \A k \in 0..n : k \in Good
    BY <1>1, <1>12, <1>13, PrefixInduction
  <2>2. n \in Good
    BY <1>1, <2>1
  <2> QED
    BY <1>10, <2>2 DEF Good
<1>15. iter[1..n] \in X
  BY <1>1, <1>10
<1>16. \A r \in Robot : r \in ToSet(list) => iter[1..n][r].executing = NoTask
  BY <1>1, <1>14 DEF ToSet
<1> QED
  BY <1>2, <1>15, <1>16 DEF X


-----------------------------------------------------------------------------
(* Steps *)

\* A step loses no more than the links have left to lose.
LEMMA LossesBounded ==
  ASSUME NEW copies, lost \in 0..MaxLost, NEW missing \in Losses(copies)
  PROVE  Cardinality(missing) \in 0..(MaxLost - lost)
<1> DEFINE left == MaxLost - lost
<1>1. MaxLost \in Nat /\ left \in Nat
  BY SystemAssumption DEF SystemAssumption
<1>2. PICK cut \in [1..left -> 0..Len(copies)] : missing = ToSet(cut) \cap DOMAIN copies
  BY DEF Losses
<1> HIDE DEF left
<1>3. cut \in Surjection(1..left, ToSet(cut))
  BY <1>2 DEF Surjection, ToSet
<1>4. IsFiniteSet(1..left) /\ Cardinality(1..left) = left
  BY <1>1, FS_Interval
<1>5. IsFiniteSet(ToSet(cut)) /\ Cardinality(ToSet(cut)) <= left
  BY <1>3, <1>4, FS_Surjection
<1>6. /\ Cardinality(missing) \in Nat /\ Cardinality(ToSet(cut)) \in Nat
      /\ Cardinality(missing) <= Cardinality(ToSet(cut))
  BY <1>2, <1>5, FS_Subset, FS_CardinalityType
<1> QED
  BY <1>1, <1>5, <1>6 DEF left

LEMMA TransmitResult ==
  ASSUME NEW A, queue \in Seq(A), NEW copies \in Seq(A), lost \in 0..MaxLost,
         Transmit(copies)
  PROVE  queue' \in Seq(A) /\ lost' \in 0..MaxLost
<1>1. PICK missing \in Losses(copies) :
        /\ queue' = queue \o CopiesAt(copies, DOMAIN copies \ missing)
        /\ lost' = lost + Cardinality(missing)
  BY DEF Transmit
<1>2. CopiesAt(copies, DOMAIN copies \ missing) \in Seq(A)
  BY CopiesAtResult
<1>3. lost' \in 0..MaxLost
  BY <1>1, LossesBounded, SystemAssumption DEF SystemAssumption
<1> QED
  BY <1>1, <1>2, <1>3

LEMMA History ==
  ASSUME SimInv
  PROVE  HistoryOK(Known, Executed) /\ now \in Nat
<1>1. Mission \cup injected \subseteq RealTask
  BY DEF SimInv, Clockwork, RealTask
<1>2. Copies(executions) \subseteq RealTask \X Robot
  BY DEF SimInv, Copies
<1>3. now \in Nat
  BY DEF SimInv, Clockwork
<1> QED
  BY <1>1, <1>2, <1>3 DEF HistoryOK, Known, Executed

\* As more is known and executed, participants and copies remain sound.
LEMMA StillSound ==
  ASSUME Known \subseteq Known', Executed \subseteq Executed'
  PROVE  /\ Sound \subseteq Sound'
         /\ [Robot -> Sound] \subseteq [Robot -> Sound']
         /\ Seq(Copied) \subseteq Seq(Copied')
<1>1. /\ Members(Known, Executed) \subseteq Members(Known', Executed')
      /\ Reports(Known, Executed) \subseteq Reports(Known', Executed')
  BY MoreDone
<1>2. Copied \subseteq Copied'
  BY <1>1 DEF Copied, Copy
<1>3. Sound \subseteq Sound'
  BY <1>1 DEF Sound
<1> QED
  BY <1>2, <1>3

LEMMA InitSim == Init => SimInv
<1> SUFFICES ASSUME Init PROVE SimInv
  OBVIOUS
<1> USE DEF Init
<1>1. {MaxTime, MaxLost} \subseteq Nat
  BY SystemAssumption DEF SystemAssumption
<1>2. Clockwork
  BY <1>1 DEF Clockwork
<1>3. ASSUME NEW r \in Robot PROVE participants[r] \in Sound
  <2>1. Mission \in SUBSET RealTask /\ Mission \subseteq Known
    BY DEF RealTask, Known
  <2> QED
    BY <2>1, NewParticipantResult DEF Sound
<1>4. participants \in [Robot -> Sound]
  BY <1>3
<1>5. queue \in Seq(Copied) /\ executions \in Seq(RealTask \X Robot)
  OBVIOUS
<1>6. \A r \in Robot : ExecutorInStep(r)
  BY DEF ExecutorInStep, NewParticipant
<1>7. Briefed
  BY DEF Briefed, NewParticipant
<1> QED
  BY <1>2, <1>4, <1>5, <1>6, <1>7 DEF SimInv, LiveWork, Live, Clockwork

LEMMA TimeOutStep ==
  ASSUME SimInv, TimeOut
  PROVE  SimInv'
<1>1. /\ Known' = Known /\ Executed' = Executed
  BY DEF TimeOut, Known, Executed
<1>2. Sound' = Sound /\ Copied' = Copied
  BY <1>1 DEF Sound, Copied
<1>3. Clockwork'
  BY DEF SimInv, Clockwork, TimeOut, Live
<1> QED
  BY <1>2, <1>3 DEF SimInv, TimeOut, LiveWork, Live, ExecutorInStep, Briefed

LEMMA KillStep ==
  ASSUME SimInv, NEW r \in Robot, Kill(r)
  PROVE  SimInv'
<1>1. Known' = Known /\ Executed' = Executed
  BY DEF Kill, Known, Executed
<1>2. Sound' = Sound /\ Copied' = Copied
  BY <1>1 DEF Sound, Copied
<1>3. Clockwork'
  BY DEF SimInv, Clockwork, Kill, Beginning, Live
<1>4. execution' \in [Robot -> Executions \cup {NoExecution}]
  BY DEF SimInv, Kill
<1>5. LiveWork'
  BY DEF SimInv, Kill, LiveWork
<1>6. outcome' # "raised" => \A s \in Live' : ExecutorInStep(s)'
  <2> SUFFICES ASSUME outcome' # "raised", NEW s \in Live' PROVE ExecutorInStep(s)'
    OBVIOUS
  <2>1. s \in Live /\ s # r /\ outcome # "raised"
    BY DEF Kill, Live
  <2>2. execution'[s] = execution[s] /\ participants' = participants
    BY <2>1 DEF Kill, SimInv
  <2> QED
    BY <2>1, <2>2 DEF SimInv, ExecutorInStep
<1> QED
  BY <1>2, <1>3, <1>4, <1>5, <1>6 DEF SimInv, Kill, Briefed

LEMMA InjectStep ==
  ASSUME SimInv, NEW t \in Injectable, Inject(t)
  PROVE  SimInv' /\ AllForward(participants, participants')
<1>1. Known' = Known \cup {t} /\ Executed' = Executed
  BY DEF Inject, Known, Executed
<1>2. /\ [Robot -> Sound] \subseteq [Robot -> Sound']
      /\ Seq(Copied) \subseteq Seq(Copied')
  BY <1>1, StillSound
<1>3. Clockwork'
  BY DEF SimInv, Clockwork, Inject, Beginning, Live
<1>4. HistoryOK(Known', Executed') /\ now \in Nat
  BY <1>1, History DEF HistoryOK, RealTask
<1>5. InjectedMsg(t) \in Reports(Known', Executed')
  BY <1>1 DEF InjectedMsg, Injections, Reports
<1>6. ASSUME NEW r \in Robot
      PROVE  /\ participants'[r] \in Sound' /\ participants'[r].executing = participants[r].executing
             /\ participants[r].tasks \subseteq participants'[r].tasks
             /\ Forward(participants[r], participants'[r])
  <2>1. participants[r] \in Members(Known', Executed')
    BY <1>2 DEF SimInv, Sound
  <2>2. Handled(Known', Executed', participants[r],
                Handle(r, participants[r], InjectedMsg(t), now))
    BY <1>4, <1>5, <2>1, HandleResult
  <2>3. participants'[r] = IF r \in dead THEN participants[r]
                           ELSE Handle(r, participants[r], InjectedMsg(t), now)
    BY DEF Inject
  <2>4. /\ Forward(participants[r], Handle(r, participants[r], InjectedMsg(t), now))
        /\ Forward(participants[r], participants[r])
    BY <1>4, <1>5, <2>1, HandleForward, SameIsForward
  <2> QED
    BY <2>1, <2>2, <2>3, <2>4 DEF Handled, Sound
<1>7. participants' \in [Robot -> Sound']
  BY <1>6 DEF Inject
<1>8. queue' \in Seq(Copied')
  BY <1>2 DEF SimInv, Inject
<1>9. outcome' # "raised" => \A r \in Live' : ExecutorInStep(r)'
  BY <1>6 DEF SimInv, Inject, Live, ExecutorInStep
<1>10. Briefed'
  BY <1>6 DEF SimInv, Briefed
<1>11. AllForward(participants, participants')
  BY <1>6 DEF AllForward
<1> QED
  BY <1>3, <1>7, <1>8, <1>9, <1>10, <1>11 DEF SimInv, Inject, LiveWork


LEMMA DeliverStep ==
  ASSUME SimInv, DeliverDue
  PROVE  SimInv' /\ AllForward(participants, participants')
<1>1. Known' = Known /\ Executed' = Executed
  BY DEF DeliverDue, Known, Executed
<1>2. Sound' = Sound /\ Copied' = Copied
  BY <1>1 DEF Sound, Copied
<1>3. Clockwork'
  BY DEF SimInv, Clockwork, DeliverDue, Beginning, Live
<1> DEFINE batch == Due(queue, now)
<1>4. batch \in Seq(Copied) /\ NotDue(queue, now) \in Seq(Copied)
  BY DueResult DEF SimInv
<1>5. participants' = FoldLeft(HandOver, participants, batch)
  BY DEF DeliverDue
<1> HIDE DEF batch
<1>6. /\ participants' \in [Robot -> Sound]
      /\ Keeps(participants, participants')
      /\ AllForward(participants, participants')
  <2>1. participants \in [Robot -> Members(Known, Executed)]
    BY DEF SimInv, Sound
  <2>2. batch \in Seq(Copy(Robot, Reports(Known, Executed)))
    BY <1>4 DEF Copied
  <2>3. HistoryOK(Known, Executed) /\ now \in Nat
    BY History
  <2>4. /\ FoldLeft(HandOver, participants, batch) \in [Robot -> Members(Known, Executed)]
        /\ Keeps(participants, FoldLeft(HandOver, participants, batch))
        /\ AllForward(participants, FoldLeft(HandOver, participants, batch))
    BY <2>1, <2>2, <2>3, BatchResult
  <2> QED
    BY <1>5, <2>4 DEF Sound
<1>7. queue' \in Seq(Copied)
  BY <1>4 DEF DeliverDue
<1>8. outcome' # "raised" => \A r \in Live' : ExecutorInStep(r)'
  BY <1>6 DEF SimInv, DeliverDue, Live, ExecutorInStep, Keeps
<1>9. Briefed'
  BY <1>6 DEF SimInv, Briefed, Keeps
<1> QED
  BY <1>2, <1>3, <1>6, <1>7, <1>8, <1>9 DEF SimInv, DeliverDue, LiveWork

\* The executor that a tick leaves is in step with the participant it leaves.
LEMMA ExecutorResult ==
  ASSUME SimInv, NEW r \in Live, outcome # "raised",
         NEW step, TickSound(Known, Executed, participants[r], step)
  PROVE  /\ ExecutionAfter(r, step) \in Executions \cup {NoExecution}
         /\ step.p.executing = IF ExecutionAfter(r, step) = NoExecution THEN NoTask
                               ELSE ExecutionAfter(r, step).task
<1>1. /\ execution[r] \in Executions \cup {NoExecution}
      /\ ExecutorInStep(r) /\ now \in Nat
      /\ participants[r].place \in Place
  BY DEF SimInv, Clockwork, Live, Sound, Members
<1> DEFINE kept == IF step.aborted = {} THEN execution[r] ELSE NoExecution
<1>2. CASE step.dispatched = {}
  <2>1. ExecutionAfter(r, step) = kept
    BY <1>2 DEF ExecutionAfter
  <2>2. CASE step.aborted = {}
    BY <1>1, <1>2, <2>1, <2>2 DEF TickSound, ExecutorInStep
  <2>3. CASE step.aborted # {}
    BY <1>1, <1>2, <2>1, <2>3 DEF TickSound, ExecutorInStep
  <2> QED
    BY <2>2, <2>3
<1>3. CASE step.dispatched # {}
  <2>1. PICK t \in Enabled(Known, Executed) : step.dispatched = {t} /\ step.p.executing = t
    BY <1>3 DEF TickSound
  <2>2. (CHOOSE u \in step.dispatched : TRUE) = t
    BY <2>1
  <2> DEFINE e == [task |-> t,
                   since |-> IF kept = NoExecution THEN now ELSE kept.since,
                   finish |-> now + Travel[participants[r].place][t] + Duration[t]]
  <2>3. ExecutionAfter(r, step) = e
    BY <1>3, <2>2 DEF ExecutionAfter
  <2>4. t \in RealTask /\ Travel[participants[r].place][t] \in Nat /\ Duration[t] \in Nat
    <3>1. t \in RealTask
      BY DEF Enabled
    <3> QED
      BY <1>1, <3>1, FleetAssumption DEF FleetAssumption
  <2>5. (IF kept = NoExecution THEN now ELSE kept.since) \in Nat
    BY <1>1 DEF Executions
  <2> HIDE DEF kept
  <2>6. e \in Executions /\ e.task = t
    BY <1>1, <2>4, <2>5 DEF Executions
  <2> HIDE DEF e
  <2>7. e # NoExecution
    BY <2>6, SystemAssumption DEF SystemAssumption
  <2> QED
    BY <2>1, <2>3, <2>6, <2>7
<1> QED
  BY <1>2, <1>3

LEMMA TickStep ==
  ASSUME SimInv, TickRobot
  PROVE  SimInv' /\ AllForward(participants, participants')
<1> DEFINE r == CHOOSE s \in toTick : \A u \in toTick : s <= u
<1>1. stage = "tick" /\ outcome = "running"
  BY DEF TickRobot
<1>2. r \in toTick
  <2>1. toTick # {} /\ toTick \in SUBSET Robot
    BY <1>1 DEF SimInv, Clockwork, Live
  <2>2. toTick \in SUBSET Nat /\ IsFiniteSet(toTick)
    <3>1. IsFiniteSet(Robot) /\ Robot \subseteq Nat
      BY FleetAssumption DEF FleetAssumption
    <3> QED
      BY <2>1, <3>1, FS_Subset
  <2>3. \E x \in toTick : \A y \in toTick : x <= y
    BY <2>1, <2>2, SmallestNumber
  <2> QED
    BY <2>3
<1>3. PICK step \in Tick(r, participants[r], now) :
        /\ participants' = [participants EXCEPT ![r] = step.p]
        /\ IF step.raised
           THEN /\ outcome' = "raised"
                /\ UNCHANGED <<queue, lost, execution>>
           ELSE /\ execution' = [execution EXCEPT ![r] = ExecutionAfter(r, step)]
                /\ Transmit(SentAll(<<>>, r, step.out))
                /\ UNCHANGED outcome
        /\ toTick' = toTick \ {r}
        /\ stage' = IF toTick = {r} THEN "finish" ELSE "tick"
  BY DEF TickRobot
<1>4. UNCHANGED <<now, dead, injected, executions, busyAt>>
  BY DEF TickRobot
<1> HIDE DEF r
<1>5. r \in Live /\ r \in Robot
  BY <1>2 DEF SimInv, Clockwork, Live
<1>6. Known' = Known /\ Executed' = Executed
  BY <1>4 DEF Known, Executed
<1>7. Sound' = Sound /\ Copied' = Copied
  BY <1>6 DEF Sound, Copied
<1>8. HistoryOK(Known, Executed) /\ now \in Nat
  BY History
<1>9. TickSound(Known, Executed, participants[r], step)
  <2>1. participants[r] \in Members(Known, Executed)
    BY <1>5 DEF SimInv, Sound
  <2> QED
    BY <1>5, <1>8, <2>1, TickResult
<1>10. participants' \in [Robot -> Sound] /\ Briefed'
  BY <1>3, <1>5, <1>9 DEF TickSound, SimInv, Sound, Briefed
<1>11. /\ toTick' \subseteq Live'
       /\ stage' \in {"begin", "tick", "finish"} /\ (stage' = "tick" <=> toTick' # {})
  BY <1>2, <1>3, <1>4 DEF SimInv, Clockwork, Live
<1>14. AllForward(participants, participants')
  <2>1. participants \in [Robot -> Members(Known, Executed)]
    BY DEF SimInv, Sound
  <2>2. participants[r] \in Members(Known, Executed)
    BY <1>5, <2>1
  <2>3. Forward(participants[r], step.p)
    BY <1>5, <1>8, <2>2, TickForward
  <2> QED
    BY <1>3, <1>5, <2>1, <2>3, OneForward
<1>12. CASE step.raised
  <2>1. Clockwork'
    BY <1>3, <1>4, <1>11, <1>12 DEF SimInv, Clockwork
  <2> QED
    BY <1>3, <1>4, <1>7, <1>10, <1>12, <1>14, <2>1 DEF SimInv, LiveWork
<1>13. CASE ~ step.raised
  <2>1. /\ execution' = [execution EXCEPT ![r] = ExecutionAfter(r, step)]
        /\ Transmit(SentAll(<<>>, r, step.out))
        /\ outcome' = "running"
    BY <1>1, <1>3, <1>13
  <2>2. queue' \in Seq(Copied) /\ lost' \in 0..MaxLost
    <3>1. step.out \in Seq(Reports(Known, Executed))
      <4>1. step.out \in Seq(Spoken(Known, Executed))
        BY <1>9 DEF TickSound
      <4> QED
        BY <4>1 DEF Reports
    <3>2. SentAll(<<>>, r, step.out) \in Seq(Copied)
      BY <1>5, <1>8, <3>1, SentAllResult DEF Copied
    <3> QED
      BY <2>1, <3>2, TransmitResult DEF SimInv, Clockwork
  <2>3. Clockwork'
    BY <1>1, <1>4, <1>11, <2>1, <2>2 DEF SimInv, Clockwork
  <2>4. /\ ExecutionAfter(r, step) \in Executions \cup {NoExecution}
        /\ step.p.executing = IF ExecutionAfter(r, step) = NoExecution THEN NoTask
                              ELSE ExecutionAfter(r, step).task
    BY <1>1, <1>5, <1>9, ExecutorResult
  <2>5. execution' \in [Robot -> Executions \cup {NoExecution}]
    BY <2>1, <2>4 DEF SimInv
  <2>6. LiveWork'
    BY <1>4, <1>5, <2>1 DEF SimInv, LiveWork, Live
  <2>7. ASSUME NEW s \in Live' PROVE ExecutorInStep(s)'
    <3>1. s \in Live /\ s \in Robot
      BY <1>4 DEF Live
    <3>2. CASE s = r
      <4>1. execution'[r] = ExecutionAfter(r, step) /\ participants'[r].executing = step.p.executing
        BY <1>3, <1>5, <2>1 DEF SimInv
      <4> QED
        BY <2>4, <3>2, <4>1 DEF ExecutorInStep
    <3>3. CASE s # r
      <4>1. execution'[s] = execution[s] /\ participants'[s] = participants[s]
        BY <1>3, <1>5, <2>1, <3>1, <3>3 DEF SimInv
      <4>2. ExecutorInStep(s)
        BY <1>1, <3>1 DEF SimInv
      <4> QED
        BY <4>1, <4>2 DEF ExecutorInStep
    <3> QED
      BY <3>2, <3>3
  <2> QED
    BY <1>4, <1>7, <1>10, <1>14, <2>2, <2>3, <2>5, <2>6, <2>7 DEF SimInv
<1> QED
  BY <1>12, <1>13


LEMMA FinishStep ==
  ASSUME SimInv, FinishExecutions
  PROVE  SimInv' /\ AllForward(participants, participants')
<1>1. PICK list \in SetToSeqs(Finishing) : Finish(list)
  BY DEF FinishExecutions
<1>2. /\ list \in Seq(Finishing) /\ ToSet(list) = Finishing
      /\ Finishing \in SUBSET Robot
  <2>1. Finishing \in SUBSET Robot /\ IsFiniteSet(Robot)
    BY FleetAssumption DEF FleetAssumption, Finishing
  <2>2. IsFiniteSet(Finishing)
    BY <2>1, FS_Subset
  <2> QED
    BY <2>1, <2>2, ListsOfSet
<1> DEFINE ended == [i \in DOMAIN list |-> <<execution[list[i]].task, list[i]>>]
<1>3. \A r \in Finishing : r \in Robot /\ execution[r].task \in RealTask
  BY DEF Finishing, SimInv, Executions
<1>4. /\ ended \in Seq(RealTask \X Robot)
      /\ \A r \in Finishing : <<execution[r].task, r>> \in Copies(ended)
  <2>1. DOMAIN list = 1..Len(list) /\ Len(list) \in Nat
    BY <1>2
  <2>2. \A i \in DOMAIN list : list[i] \in Finishing
    BY <1>2
  <2>3. \A r \in Finishing : \E i \in DOMAIN list : list[i] = r
    BY <1>2 DEF ToSet
  <2>4. ended \in [1..Len(list) -> RealTask \X Robot]
    BY <1>3, <2>1, <2>2
  <2>5. ended \in Seq(RealTask \X Robot)
    BY <2>1, <2>4
  <2> QED
    BY <2>3, <2>5 DEF Copies
<1>5. executions' = executions \o ended
  BY <1>1 DEF Finish
<1> HIDE DEF ended
<1>6. Executed' = Executed \cup Copies(ended) /\ executions' \in Seq(RealTask \X Robot)
  BY <1>4, <1>5, CopiesOfBoth DEF SimInv, Executed
<1>7. UNCHANGED <<dead, injected, toTick>> /\ Known' = Known
  BY DEF FinishExecutions, Known
<1>8. [Robot -> Sound] \subseteq [Robot -> Sound'] /\ Seq(Copied) \subseteq Seq(Copied')
  BY <1>6, <1>7, StillSound
<1>9. /\ participants \in [Robot -> Members(Known', Executed')]
      /\ \A r \in Finishing : <<execution[r].task, r>> \in Executed'
  BY <1>4, <1>6, <1>8 DEF SimInv, Sound
<1>10. participants' = FoldLeft(End, participants, list)
  BY <1>1 DEF Finish
<1>11. /\ participants' \in [Robot -> Sound']
       /\ \A r \in Robot : participants'[r].executing =
            IF r \in Finishing THEN NoTask ELSE participants[r].executing
       /\ \A r \in Robot : participants'[r].tasks = participants[r].tasks
       /\ AllForward(participants, participants')
  <2>1. /\ FoldLeft(End, participants, list) \in [Robot -> Members(Known', Executed')]
        /\ \A r \in Robot :
             FoldLeft(End, participants, list)[r].executing =
               IF r \in ToSet(list) THEN NoTask ELSE participants[r].executing
        /\ \A r \in Robot : FoldLeft(End, participants, list)[r].tasks = participants[r].tasks
        /\ AllForward(participants, FoldLeft(End, participants, list))
    BY <1>2, <1>3, <1>9, EndsResult
  <2> QED
    BY <1>2, <1>10, <2>1 DEF Sound
<1>12. execution' = [r \in Robot |-> IF r \in Finishing THEN NoExecution ELSE execution[r]]
  BY <1>1, <1>2 DEF Finish
<1>13. now \in Nat
  BY History
<1>14. queue' \in Seq(Copied') /\ lost' \in 0..MaxLost
  <2>1. Transmit(Ended(list))
    BY <1>1 DEF Finish, Ended
  <2>2. ASSUME NEW r \in Finishing
        PROVE  CompletedMsg(execution[r].task, r) \in Reports(Known', Executed')
    <3>1. execution[r].task \in RealTask /\ <<execution[r].task, r>> \in Executed' /\ r \in Robot
      BY <1>3, <1>9
    <3> QED
      BY <3>1 DEF CompletedMsg, TrueCompletions, Reports, Spoken
  <2>3. Ended(list) \in Seq(Copied')
    <3> DEFINE A == Reports(Known', Executed')
    <3>1. \A r \in Finishing : CompletedMsg(execution[r].task, r) \in A
      BY <2>2
    <3> HIDE DEF A
    <3>2. Ended(list) \in Seq(Copy(Robot, A))
      BY <1>2, <1>13, <3>1, EndedResult
    <3> QED
      BY <3>2 DEF Copied, A
  <2>4. queue \in Seq(Copied') /\ lost \in 0..MaxLost
    BY <1>8 DEF SimInv, Clockwork
  <2> QED
    BY <2>1, <2>3, <2>4, TransmitResult
<1>15. Clockwork'
  <2>1. /\ stage = "finish" /\ outcome = "running" /\ stage' = "begin"
        /\ outcome' \in {"running", "complete"}
        /\ now' \in {now, now + 1} /\ busyAt' \in {now, busyAt}
    BY DEF FinishExecutions
  <2>2. MaxTime \in Nat
    BY SystemAssumption DEF SystemAssumption
  <2>3. now' \in 0..MaxTime /\ busyAt' \in 0..now'
    BY <2>1, <2>2 DEF SimInv, Clockwork
  <2> QED
    BY <1>7, <1>14, <2>1, <2>3 DEF SimInv, Clockwork, Live
<1>16. execution' \in [Robot -> Executions \cup {NoExecution}] /\ LiveWork'
  <2>1. dead \subseteq Robot
    BY SystemAssumption DEF SimInv, Clockwork, SystemAssumption
  <2> QED
    BY <1>7, <1>12, <2>1 DEF SimInv, LiveWork
<1>17. outcome' # "raised" => \A r \in Live' : ExecutorInStep(r)'
  <2> SUFFICES ASSUME NEW r \in Live' PROVE ExecutorInStep(r)'
    OBVIOUS
  <2>1. r \in Live /\ r \in Robot /\ outcome # "raised"
    BY <1>7 DEF Live, FinishExecutions
  <2>2. ExecutorInStep(r)
    BY <2>1 DEF SimInv
  <2> QED
    BY <1>11, <1>12, <2>1, <2>2 DEF ExecutorInStep
<1>18. Briefed'
  BY <1>11 DEF SimInv, Briefed
<1> QED
  BY <1>6, <1>11, <1>14, <1>15, <1>16, <1>17, <1>18 DEF SimInv

LEMMA NextKeepsSim == SimInv /\ [Next]_vars => SimInv'
<1> SUFFICES ASSUME SimInv, [Next]_vars PROVE SimInv'
  OBVIOUS
<1>1. CASE TimeOut
  BY <1>1, TimeOutStep
<1>2. ASSUME NEW r \in Robot, Kill(r) PROVE SimInv'
  BY <1>2, KillStep
<1>3. ASSUME NEW t \in Injectable, Inject(t) PROVE SimInv'
  BY <1>3, InjectStep
<1>4. CASE DeliverDue
  BY <1>4, DeliverStep
<1>5. CASE TickRobot
  BY <1>5, TickStep
<1>6. CASE FinishExecutions
  BY <1>6, FinishStep
<1>7. CASE UNCHANGED vars
  <2>1. Sound' = Sound /\ Copied' = Copied
    BY <1>7 DEF vars, Sound, Copied, Known, Executed
  <2> QED
    BY <1>7, <2>1 DEF vars, SimInv, Clockwork, LiveWork, ExecutorInStep, Live, Briefed
<1> QED
  BY <1>1, <1>2, <1>3, <1>4, <1>5, <1>6, <1>7 DEF Next

LEMMA SimInvHolds == Spec => []SimInv
BY InitSim, NextKeepsSim, PTL DEF Spec

-----------------------------------------------------------------------------
(***************************************************************************)
(* The state of the simulation keeps its types: no handler, tick or         *)
(* executor of system_sim.py leaves a participant, a message or an          *)
(* execution that is not one.                                               *)
(***************************************************************************)
THEOREM SimTypes == Spec => []TypeOK
<1>1. SimInv => TypeOK
  <2> SUFFICES ASSUME SimInv PROVE TypeOK
    OBVIOUS
  <2>1. ASSUME NEW r \in Robot
        PROVE  LET p == participants[r]
               IN  /\ p.tasks \subseteq RealTask
                   /\ p.completed \in [RealTask -> Robot \cup {NoHolder}]
                   /\ p.executing \in RealTask \cup {NoTask}
                   /\ p.leases \in [RealTask -> LeaseOf(Robot) \cup {NoLease}]
                   /\ p.lastSeen \in [Robot -> Nat \cup {Never}]
                   /\ p.idleFlags \in [Robot -> [stamp : Nat, idle : BOOLEAN] \cup {NoFlag}]
                   /\ p.openedAt \in Nat /\ p.maxRoundSeen \in Nat
                   /\ p.agent # NoAgent => p.announcement # NoRound /\ p.relay = NoRelay
    <3>1. participants[r] \in Members(Known, Executed)
      BY DEF SimInv, Sound
    <3>2. Known \subseteq RealTask
      BY History DEF HistoryOK
    <3>3. Completions(Executed) \subseteq [RealTask -> Robot \cup {NoHolder}]
      BY DEF Completions
    <3>4. Enabled(Known, Executed) \subseteq RealTask
      BY DEF Enabled
    <3> QED
      BY <3>1, <3>2, <3>3, <3>4 DEF Members, Leases, Flags
  <2>2. ASSUME NEW i \in DOMAIN queue PROVE queue[i].dest \in Robot /\ queue[i].at \in Nat
    <3>1. queue[i] \in Copied
      BY DEF SimInv
    <3> QED
      BY <3>1 DEF Copied, Copy
  <2> QED
    BY <2>1, <2>2 DEF TypeOK, SimInv, Clockwork, Live
<1> QED
  BY <1>1, SimInvHolds, PTL

(***************************************************************************)
(* The assertion of task_finished never fails: the executor that            *)
(* system_sim.py runs for a robot works on what the robot's participant     *)
(* says it executes.                                                        *)
(***************************************************************************)
THEOREM ExecutorsInStep == Spec => []HostInStep
<1>1. SimInv => HostInStep
  BY DEF SimInv, HostInStep, ExecutorInStep
<1> QED
  BY <1>1, SimInvHolds, PTL

(***************************************************************************)
(* Whatever is lost and whoever dies, what a replica records as completed   *)
(* was executed, by the robot it names.                                     *)
(***************************************************************************)
THEOREM RecordsAreTrue == Spec => []CompletionsTrue
<1>1. SimInv => CompletionsTrue
  <2> SUFFICES ASSUME SimInv, NEW r \in Robot, NEW t \in RealTask,
                      participants[r].completed[t] # NoHolder
               PROVE  \E i \in DOMAIN executions :
                        executions[i] = <<t, participants[r].completed[t]>>
    BY DEF CompletionsTrue
  <2>1. participants[r].completed \in Completions(Executed)
    BY DEF SimInv, Sound, Members
  <2>2. <<t, participants[r].completed[t]>> \in Executed
    BY <2>1 DEF Completions
  <2> QED
    BY <2>2 DEF Executed, Copies
<1> QED
  BY <1>1, SimInvHolds, PTL


-----------------------------------------------------------------------------
\* Before every execution come those of the tasks its task requires.
ExecutedInOrder ==
  \A i \in DOMAIN executions :
    \A u \in Prerequisites[executions[i][1]] :
      \E j \in DOMAIN executions : j < i /\ executions[j][1] = u

\* What is under way can be executed.
LEMMA WorkIsEnabled ==
  ASSUME SimInv, outcome # "raised", NEW r \in Robot, execution[r] # NoExecution
  PROVE  /\ execution[r].task \in RealTask
         /\ \A u \in Prerequisites[execution[r].task] : \E d \in Executed : d[1] = u
<1>1. r \in Live /\ execution[r].task \in RealTask
  BY DEF SimInv, LiveWork, Live, Executions
<1>2. participants[r].executing = execution[r].task
  BY <1>1 DEF SimInv, ExecutorInStep
<1>3. participants[r].executing \in Enabled(Known, Executed) \cup {NoTask}
  BY DEF SimInv, Sound, Members
<1>4. NoTask \notin RealTask
  BY FleetAssumption DEF FleetAssumption
<1>5. execution[r].task \in Enabled(Known, Executed)
  BY <1>1, <1>2, <1>3, <1>4
<1> QED
  BY <1>1, <1>5 DEF Enabled

LEMMA FinishKeepsOrder ==
  ASSUME SimInv, ExecutedInOrder, FinishExecutions
  PROVE  ExecutedInOrder'
<1>1. PICK list \in SetToSeqs(Finishing) : Finish(list)
  BY DEF FinishExecutions
<1> DEFINE ended == [i \in DOMAIN list |-> <<execution[list[i]].task, list[i]>>]
<1>2. list \in Seq(Finishing)
  <2>1. Finishing \in SUBSET Robot /\ IsFiniteSet(Robot)
    BY FleetAssumption DEF FleetAssumption, Finishing
  <2>2. IsFiniteSet(Finishing)
    BY <2>1, FS_Subset
  <2> QED
    BY <2>1, <2>2, ListsOfSet
<1>3. executions' = executions \o ended
  BY <1>1 DEF Finish
<1>4. ASSUME NEW i \in DOMAIN list
      PROVE  \A u \in Prerequisites[ended[i][1]] : \E d \in Executed : d[1] = u
  <2>1. list[i] \in Robot /\ execution[list[i]] # NoExecution
    BY <1>2 DEF Finishing
  <2>2. outcome # "raised"
    BY DEF FinishExecutions
  <2> QED
    BY <2>1, <2>2, WorkIsEnabled
<1>5. ended \in Seq(RealTask \X Robot) /\ DOMAIN ended = DOMAIN list
  <2>1. DOMAIN list = 1..Len(list) /\ Len(list) \in Nat
    BY <1>2
  <2>2. \A i \in DOMAIN list : list[i] \in Robot /\ execution[list[i]].task \in RealTask
    BY <1>2 DEF Finishing, SimInv, Executions
  <2> QED
    BY <2>1, <2>2
<1> HIDE DEF ended
<1>6. executions \in Seq(RealTask \X Robot)
  BY DEF SimInv
<1>7. /\ DOMAIN executions \subseteq DOMAIN executions'
      /\ \A j \in DOMAIN executions : executions'[j] = executions[j]
      /\ \A i \in DOMAIN executions' : i \notin DOMAIN executions =>
           /\ i - Len(executions) \in DOMAIN ended
           /\ executions'[i] = ended[i - Len(executions)]
  BY <1>3, <1>5, <1>6, BothInOrder
<1>8. \A i \in DOMAIN executions', j \in DOMAIN executions : i \notin DOMAIN executions => j < i
  BY <1>3, <1>5, <1>6, BothInOrder
<1> SUFFICES ASSUME NEW i \in DOMAIN executions', NEW u \in Prerequisites[executions'[i][1]]
             PROVE  \E j \in DOMAIN executions' : j < i /\ executions'[j][1] = u
  BY DEF ExecutedInOrder
<1>9. CASE i \in DOMAIN executions
  <2>1. \E j \in DOMAIN executions : j < i /\ executions[j][1] = u
    BY <1>7, <1>9 DEF ExecutedInOrder
  <2> QED
    BY <1>7, <2>1
<1>10. CASE i \notin DOMAIN executions
  <2>1. PICK d \in Executed : d[1] = u
    <3> DEFINE k == i - Len(executions)
    <3>1. k \in DOMAIN list /\ executions'[i] = ended[k]
      BY <1>5, <1>7, <1>10
    <3> HIDE DEF k
    <3> QED
      BY <1>4, <3>1
  <2>2. PICK j \in DOMAIN executions : executions[j] = d
    BY DEF Executed, Copies
  <2> QED
    BY <1>7, <1>8, <1>10, <2>1, <2>2
<1> QED
  BY <1>9, <1>10

(***************************************************************************)
(* Whatever is lost and whoever dies, a task is executed after every task   *)
(* it requires: the replicas from which coordinators read what is available *)
(* never run ahead of what was done.                                        *)
(***************************************************************************)
THEOREM PrerequisitesComeFirst == Spec => []ExecutedInOrder
<1>1. Init => ExecutedInOrder
  BY DEF Init, ExecutedInOrder
<1>2. SimInv /\ ExecutedInOrder /\ [Next]_vars => ExecutedInOrder'
  <2> SUFFICES ASSUME SimInv, ExecutedInOrder, [Next]_vars PROVE ExecutedInOrder'
    OBVIOUS
  <2>1. CASE FinishExecutions
    BY <2>1, FinishKeepsOrder
  <2>2. CASE ~ FinishExecutions
    <3>1. executions' = executions
      BY <2>2 DEF Next, vars, TimeOut, Kill, Inject, DeliverDue, TickRobot
    <3> QED
      BY <3>1 DEF ExecutedInOrder
  <2> QED
    BY <2>1, <2>2
<1> QED
  BY <1>1, <1>2, SimInvHolds, PTL DEF Spec

-----------------------------------------------------------------------------
(* The simulated fleet carries out a mission *)

\* Until a tick raises, what robots are at work on can be executed.
SoundWork ==
  /\ Doing \in [Robot -> RealTask \cup {NoTask}]
  /\ outcome # "raised" =>
       \A r \in Robot : Doing[r] # NoTask =>
         Doing[r] \in Known /\ Prerequisites[Doing[r]] \subseteq FinishedTasks

LEMMA WorkIsSound == SimInv => SoundWork
<1> SUFFICES ASSUME SimInv PROVE SoundWork
  OBVIOUS
<1>1. Doing \in [Robot -> RealTask \cup {NoTask}]
  BY DEF SimInv, Executions, Doing
<1>2. ASSUME outcome # "raised", NEW r \in Robot, Doing[r] # NoTask
      PROVE  Doing[r] \in Known /\ Prerequisites[Doing[r]] \subseteq FinishedTasks
  <2>1. execution[r] # NoExecution /\ Doing[r] = execution[r].task
    BY <1>2 DEF Doing
  <2>2. \A u \in Prerequisites[Doing[r]] : \E d \in Executed : d[1] = u
    BY <1>2, <2>1, WorkIsEnabled
  <2>3. \A d \in Executed : d[1] \in FinishedTasks
    BY DEF Executed, Copies, FinishedTasks
  <2>4. Doing[r] \in Known
    <3>1. r \in Live /\ execution[r].task \in RealTask /\ NoTask \notin RealTask
      BY <2>1, FleetAssumption DEF SimInv, LiveWork, Live, Executions, FleetAssumption
    <3>2. participants[r].executing = Doing[r]
      BY <1>2, <2>1, <3>1 DEF SimInv, ExecutorInStep
    <3>3. participants[r].executing \in Enabled(Known, Executed) \cup {NoTask}
      BY DEF SimInv, Sound, Members
    <3> QED
      BY <1>2, <3>2, <3>3 DEF Enabled
  <2> QED
    BY <2>2, <2>3, <2>4
<1> QED
  BY <1>1, <1>2 DEF SoundWork

\* A step in which one robot at most comes to do something else.
LEMMA OneAtATime ==
  ASSUME SoundWork, SoundWork', outcome' # "raised", Known' = Known,
         executions' = executions, NEW r \in Robot,
         \A s \in Robot \ {r} : execution'[s] = execution[s]
  PROVE  [Promised!Attempt]_(Promised!vars)
<1> DEFINE t == Doing'[r]
<1>1. Doing \in [Robot -> RealTask \cup {NoTask}] /\ FinishedTasks' = FinishedTasks
  BY DEF SoundWork, FinishedTasks
<1>2. /\ Doing' \in [Robot -> RealTask \cup {NoTask}]
      /\ t # NoTask => t \in Known /\ Prerequisites[t] \subseteq FinishedTasks
  BY <1>1 DEF SoundWork
<1>3. \A s \in Robot \ {r} : Doing'[s] = Doing[s]
  BY DEF Doing
<1>4. Doing' = [Doing EXCEPT ![r] = t]
  BY <1>1, <1>2, <1>3
<1>5. CASE t = Doing[r]
  <2>1. Doing' = Doing
    BY <1>1, <1>4, <1>5
  <2> QED
    BY <1>1, <2>1 DEF Promised!vars, Known
<1>6. CASE t = NoTask /\ t # Doing[r]
  <2>1. Promised!Abandon(r)
    BY <1>1, <1>4, <1>6 DEF Promised!Abandon, Known
  <2> QED
    BY <2>1 DEF Promised!Attempt
<1>7. CASE t # NoTask
  <2>1. Promised!Undertake(r, t) /\ t \in RealTask
    BY <1>1, <1>2, <1>4, <1>7 DEF Promised!Undertake, Known
  <2> HIDE DEF t
  <2> QED
    BY <2>1 DEF Promised!Attempt
<1> QED
  BY <1>5, <1>6, <1>7

\* A step that leaves the executor alone.
LEMMA NothingDone ==
  ASSUME Known' = Known, UNCHANGED <<execution, executions>>
  PROVE  [Promised!Attempt]_(Promised!vars)
BY DEF Known, Doing, FinishedTasks, Promised!vars

\* The executions that are over complete their tasks, all at once.
LEMMA FinishCarriesOut ==
  ASSUME SimInv, SoundWork, FinishExecutions
  PROVE  [Promised!Attempt]_(Promised!vars)
<1>1. PICK list \in SetToSeqs(Finishing) : Finish(list)
  BY DEF FinishExecutions
<1>2. /\ list \in Seq(Finishing) /\ ToSet(list) = Finishing
      /\ Finishing \in SUBSET Robot
  <2>1. Finishing \in SUBSET Robot /\ IsFiniteSet(Robot)
    BY FleetAssumption DEF FleetAssumption, Finishing
  <2>2. IsFiniteSet(Finishing)
    BY <2>1, FS_Subset
  <2> QED
    BY <2>1, <2>2, ListsOfSet
<1> DEFINE ended == [i \in DOMAIN list |-> <<execution[list[i]].task, list[i]>>]
<1>3. DOMAIN list = 1..Len(list) /\ Len(list) \in Nat /\ \A i \in DOMAIN list : list[i] \in Finishing
  BY <1>2
<1>4. \A r \in Finishing : r \in Robot /\ execution[r].task \in RealTask /\ Doing[r] = execution[r].task
  BY DEF Finishing, SimInv, Executions, Doing
<1>5. ended \in Seq(RealTask \X Robot)
  BY <1>3, <1>4
<1>6. {d[1] : d \in Copies(ended)} = {Doing[r] : r \in Finishing}
  <2>1. Copies(ended) = {ended[i] : i \in DOMAIN list}
    BY DEF Copies
  <2>2. \A i \in DOMAIN list : ended[i][1] = Doing[list[i]]
    BY <1>3, <1>4
  <2>3. \A r \in Finishing : \E i \in DOMAIN list : list[i] = r
    BY <1>2 DEF ToSet
  <2> HIDE DEF ended
  <2> QED
    BY <1>3, <2>1, <2>2, <2>3
<1>7. executions' = executions \o ended
  BY <1>1 DEF Finish
<1> HIDE DEF ended
<1>8. Executed' = Executed \cup Copies(ended)
  BY <1>5, <1>7, CopiesOfBoth DEF SimInv, Executed
<1>9. FinishedTasks = {d[1] : d \in Executed} /\ FinishedTasks' = {d[1] : d \in Executed'}
  BY DEF FinishedTasks, Executed, Copies
<1>10. FinishedTasks' = FinishedTasks \cup {Doing[r] : r \in Finishing}
  BY <1>6, <1>8, <1>9
<1>11. execution' = [r \in Robot |-> IF r \in Finishing THEN NoExecution ELSE execution[r]]
  BY <1>1, <1>2 DEF Finish
<1>12. Doing' = [r \in Robot |-> IF r \in Finishing THEN NoTask ELSE Doing[r]]
  BY <1>11 DEF Doing
<1>13. \A r \in Finishing : Doing[r] # NoTask
  BY <1>4, FleetAssumption DEF FleetAssumption
<1>14. UNCHANGED injected
  BY DEF FinishExecutions
<1>15. CASE Finishing = {}
  <2>1. Doing' = Doing /\ FinishedTasks' = FinishedTasks
    BY <1>10, <1>12, <1>15 DEF SoundWork
  <2> QED
    BY <1>14, <2>1 DEF Promised!vars
<1>16. CASE Finishing # {}
  <2> DEFINE F == Finishing
  <2>1. PICK ws \in SUBSET Robot : ws = F
    BY <1>2
  <2> HIDE DEF F
  <2>2. Promised!Complete(ws)
    BY <1>10, <1>12, <1>13, <1>14, <1>16, <2>1 DEF Promised!Complete, F
  <2> QED
    BY <2>2 DEF Promised!Attempt
<1> QED
  BY <1>15, <1>16

\* A tick changes the execution of the robot it is the turn of.
LEMMA TickedRobot ==
  ASSUME SimInv, TickRobot, execution' # execution
  PROVE  \E r \in toTick : /\ \E e : execution' = [execution EXCEPT ![r] = e]
                           /\ outcome' = "running"
<1> DEFINE r == CHOOSE s \in toTick : \A u \in toTick : s <= u
<1>1. toTick # {} /\ toTick \in SUBSET Nat /\ IsFiniteSet(toTick)
  <2>1. toTick # {} /\ toTick \in SUBSET Robot
    BY DEF SimInv, Clockwork, Live, TickRobot
  <2>2. IsFiniteSet(Robot) /\ Robot \subseteq Nat
    BY FleetAssumption DEF FleetAssumption
  <2> QED
    BY <2>1, <2>2, FS_Subset
<1>2. r \in toTick
  <2>1. \E x \in toTick : \A y \in toTick : x <= y
    BY <1>1, SmallestNumber
  <2> QED
    BY <2>1
<1>3. PICK step \in Tick(r, participants[r], now) :
        IF step.raised
        THEN /\ outcome' = "raised"
             /\ UNCHANGED <<queue, lost, execution>>
        ELSE /\ execution' = [execution EXCEPT ![r] = ExecutionAfter(r, step)]
             /\ Transmit(SentAll(<<>>, r, step.out))
             /\ UNCHANGED outcome
  BY DEF TickRobot
<1>4. outcome = "running"
  BY DEF TickRobot
<1> HIDE DEF r
<1> QED
  BY <1>2, <1>3, <1>4

\* Whatever a step does, it is a step of the mission, or none.
LEMMA StepCarriesOut ==
  SimInv /\ SimInv' /\ SoundWork /\ SoundWork' /\ [Next]_vars
    => [Promised!Attempt]_(Promised!vars)
<1> SUFFICES ASSUME SimInv, SimInv', SoundWork, SoundWork', [Next]_vars
             PROVE  [Promised!Attempt]_(Promised!vars)
  OBVIOUS
<1>1. CASE TimeOut
  BY <1>1, NothingDone DEF TimeOut, Known
<1>2. ASSUME NEW r \in Robot, Kill(r) PROVE [Promised!Attempt]_(Promised!vars)
  <2>1. \A s \in Robot \ {r} : execution'[s] = execution[s]
    BY <1>2 DEF Kill, SimInv
  <2>2. executions' = executions /\ Known' = Known /\ outcome' # "raised"
    BY <1>2 DEF Kill, Beginning, Known
  <2> QED
    BY <2>1, <2>2, OneAtATime
<1>3. ASSUME NEW t \in Injectable, Inject(t) PROVE [Promised!Attempt]_(Promised!vars)
  <2>1. Doing' = Doing /\ FinishedTasks' = FinishedTasks
    BY <1>3 DEF Inject, Doing, FinishedTasks
  <2>2. CASE t \in Mission
    <3>1. Mission \cup injected' = Mission \cup injected
      BY <1>3, <2>2 DEF Inject
    <3> QED
      BY <2>1, <3>1 DEF Promised!vars
  <2>3. CASE t \notin Mission
    <3>1. Promised!Ask(t) /\ t \in RealTask
      BY <1>3, <2>1, <2>3 DEF Inject, Promised!Ask, RealTask
    <3> QED
      BY <3>1 DEF Promised!Attempt
  <2> QED
    BY <2>2, <2>3
<1>4. CASE DeliverDue
  BY <1>4, NothingDone DEF DeliverDue, Known
<1>5. CASE TickRobot
  <2>1. executions' = executions /\ Known' = Known
    BY <1>5 DEF TickRobot, Known
  <2>2. CASE execution' = execution
    BY <2>1, <2>2, NothingDone
  <2>3. CASE execution' # execution
    <3>1. PICK r \in toTick : /\ \E e : execution' = [execution EXCEPT ![r] = e]
                             /\ outcome' = "running"
      BY <1>5, <2>3, TickedRobot
    <3>2. r \in Robot
      BY <3>1 DEF SimInv, Clockwork, Live
    <3>3. \A s \in Robot \ {r} : execution'[s] = execution[s]
      BY <3>1 DEF SimInv
    <3> QED
      BY <2>1, <3>1, <3>2, <3>3, OneAtATime
  <2> QED
    BY <2>2, <2>3
<1>6. CASE FinishExecutions
  BY <1>6, FinishCarriesOut
<1>7. CASE UNCHANGED vars
  BY <1>7, NothingDone DEF vars, Known
<1> QED
  BY <1>1, <1>2, <1>3, <1>4, <1>5, <1>6, <1>7 DEF Next

(***************************************************************************)
(* Whatever is lost and whoever dies, run() carries out a mission task by   *)
(* task: robots set out for tasks that were asked for, after what these     *)
(* need was executed, and nothing is executed that nobody was at.           *)
(***************************************************************************)
THEOREM SimCarriesOutMission == Spec => CarriesOutMission
<1>1. Init => Promised!Init
  BY DEF Init, Doing, FinishedTasks, Promised!Init
<1> QED
  BY <1>1, StepCarriesOut, SimInvHolds, WorkIsSound, PTL
  DEF Spec, CarriesOutMission, Promised!AtLeastOnce


-----------------------------------------------------------------------------
(* Ticks do not fail *)

\* What is not collaborative needs nothing but mission tasks that are not either.
NeedsAreGiven ==
  \A t \in RealTask \ Collaborative : Prerequisites[t] \subseteq Mission \ Collaborative

\* The graph of whoever knows the mission can be built.
LEMMA GraphHolds ==
  ASSUME NeedsAreGiven, Acyclic(RealTask \ Collaborative),
         NEW S \in SUBSET (RealTask \ Collaborative), Mission \ Collaborative \subseteq S
  PROVE  WellFormed(S)
<1>1. Closed(S)
  BY DEF NeedsAreGiven, Closed
<1>2. Acyclic(S)
  BY DEF Acyclic
<1> QED
  BY <1>1, <1>2 DEF WellFormed

LEMMA TickDoesNotRaise ==
  ASSUME NeedsAreGiven, Acyclic(RealTask \ Collaborative), SimInv,
         NEW r \in Robot, NEW step \in Tick(r, participants[r], now)
  PROVE  ~ step.raised
<1>1. HistoryOK(Known, Executed) /\ now \in Nat
  BY History
<1>2. participants[r] \in Members(Known, Executed)
  BY DEF SimInv, Sound
<1>3. TickSound(Known, Executed, participants[r], step)
  BY <1>1, <1>2, TickResult
<1> SUFFICES ASSUME step.raised PROVE FALSE
  OBVIOUS
<1> DEFINE S == participants[r].tasks
<1>4. ~ WellFormed(S)
  BY <1>3 DEF TickSound
<1>5. S \in SUBSET (RealTask \ Collaborative)
  BY <1>1, <1>2 DEF HistoryOK, Members
<1>6. Mission \ Collaborative \subseteq S
  BY DEF SimInv, Briefed
<1> HIDE DEF S
<1> QED
  BY <1>4, <1>5, <1>6, GraphHolds

(***************************************************************************)
(* tick() never raises, and run() never ends with an exception, when the    *)
(* tasks that are not collaborative need only such tasks of the mission and *)
(* have no cycle: whatever arrives in whatever order, the graph that a      *)
(* coordinator builds of what it knows has what it refers to.               *)
(***************************************************************************)
THEOREM SimNeverRaises ==
  ASSUME NeedsAreGiven, Acyclic(RealTask \ Collaborative)
  PROVE  Spec => []TicksNeverRaise
<1>1. Init => TicksNeverRaise
  BY DEF Init, TicksNeverRaise
<1>2. SimInv /\ TicksNeverRaise /\ [Next]_vars => TicksNeverRaise'
  <2> SUFFICES ASSUME SimInv, TicksNeverRaise, [Next]_vars PROVE TicksNeverRaise'
    OBVIOUS
  <2>1. CASE TickRobot
    <3> DEFINE r == CHOOSE s \in toTick : \A u \in toTick : s <= u
    <3>1. r \in Robot
      <4>1. toTick # {} /\ toTick \in SUBSET Robot
        BY <2>1 DEF TickRobot, SimInv, Clockwork, Live
      <4>2. toTick \in SUBSET Nat /\ IsFiniteSet(toTick)
        <5>1. IsFiniteSet(Robot) /\ Robot \subseteq Nat
          BY FleetAssumption DEF FleetAssumption
        <5> QED
          BY <4>1, <5>1, FS_Subset
      <4>3. \E x \in toTick : \A y \in toTick : x <= y
        BY <4>1, <4>2, SmallestNumber
      <4> QED
        BY <4>1, <4>3
    <3>2. \E step \in Tick(r, participants[r], now) :
            IF step.raised
            THEN outcome' = "raised"
            ELSE UNCHANGED outcome
      BY <2>1 DEF TickRobot
    <3> HIDE DEF r
    <3>3. \A step \in Tick(r, participants[r], now) : ~ step.raised
      BY <3>1, TickDoesNotRaise
    <3> QED
      BY <3>2, <3>3 DEF TicksNeverRaise
  <2>2. CASE ~ TickRobot
    BY <2>2 DEF TicksNeverRaise, Next, vars, TimeOut, Kill, Inject, DeliverDue, FinishExecutions
  <2> QED
    BY <2>1, <2>2
<1> QED
  BY <1>1, <1>2, SimInvHolds, PTL DEF Spec

\* The bid that every agent has to place is determined and above the price.
EveryBidHolds ==
  \A r \in Robot : participants[r].agent # NoAgent => BidHolds(r, participants[r].agent)

(***************************************************************************)
(* The assertion of PriceTable.bid, that an increment is at least epsilon,  *)
(* never fails for an agent of the fleet, not even when gossip of another   *)
(* round has come into its table; and the scan for the best task never ends *)
(* in more tasks than one.                                                  *)
(***************************************************************************)
THEOREM BidsNeverFail == Spec => []EveryBidHolds
<1>1. SimInv => EveryBidHolds
  <2> SUFFICES ASSUME SimInv, NEW r \in Robot, participants[r].agent # NoAgent
               PROVE  BidHolds(r, participants[r].agent)
    BY DEF EveryBidHolds
  <2>1. participants[r].agent \in Agents
    BY DEF SimInv, Sound, Members, Bidding
  <2> QED
    BY <2>1, OneBid
<1> QED
  BY <1>1, SimInvHolds, PTL

\* Whatever state a participant is in, its tick comes to an end, in one way only.
TicksEndInOneWay ==
  \A r \in Robot : OneWay(r, participants[r], now)

(***************************************************************************)
(* tick() is deterministic and never blocks: no participant of the fleet    *)
(* comes to a state in which the agent of its round has no bid to place, or *)
(* more than one to choose from.                                            *)
(***************************************************************************)
THEOREM TicksHaveOneOutcome == Spec => []TicksEndInOneWay
<1>1. SimInv => TicksEndInOneWay
  <2> SUFFICES ASSUME SimInv, NEW r \in Robot
               PROVE  OneWay(r, participants[r], now)
    BY DEF TicksEndInOneWay
  <2>1. participants[r] \in Members(Known, Executed) /\ now \in Nat
    BY History DEF SimInv, Sound
  <2> QED
    BY <2>1, TickHasOneOutcome
<1> QED
  BY <1>1, SimInvHolds, PTL



-----------------------------------------------------------------------------
(* Participants never go back *)

LEMMA StepGoesForward == SimInv /\ [Next]_vars => AllForward(participants, participants')
<1> SUFFICES ASSUME SimInv, [Next]_vars PROVE AllForward(participants, participants')
  OBVIOUS
<1>1. CASE participants' = participants
  <2>1. participants \in [Robot -> Members(Known, Executed)]
    BY DEF SimInv, Sound
  <2> QED
    BY <1>1, <2>1, NoneMoves
<1>2. ASSUME NEW t \in Injectable, Inject(t) PROVE AllForward(participants, participants')
  BY <1>2, InjectStep
<1>3. CASE DeliverDue
  BY <1>3, DeliverStep
<1>4. CASE TickRobot
  BY <1>4, TickStep
<1>5. CASE FinishExecutions
  BY <1>5, FinishStep
<1> QED
  BY <1>1, <1>2, <1>3, <1>4, <1>5 DEF Next, TimeOut, Kill, vars

(***************************************************************************)
(* Whatever is delivered late, twice over or not at all, and whoever dies:  *)
(* no robot forgets a task or a completion, believes somebody silent longer *)
(* than it did, takes an older framing for the latest, bids again in a      *)
(* round it has left, or takes back a price, bidding or relaying.           *)
(***************************************************************************)
THEOREM SimNeverGoesBack ==
  Spec => [][\A r \in Robot : Forward(participants[r], participants'[r])]_vars
<1>1. SimInv /\ [Next]_vars =>
        [\A r \in Robot : Forward(participants[r], participants'[r])]_vars
  BY StepGoesForward DEF AllForward
<1> QED
  BY <1>1, SimInvHolds, PTL DEF Spec



-----------------------------------------------------------------------------
(* Success *)

\* Whoever is alive knows all that was asked for.
LiveKnowAll == \A r \in Live : Known \ Collaborative \subseteq participants[r].tasks

LEMMA InjectTeachesAll ==
  ASSUME SimInv, LiveKnowAll, NEW t \in Injectable, Inject(t)
  PROVE  LiveKnowAll'
<1>1. Live' = Live /\ Known' = Known \cup {t}
  BY DEF Inject, Live, Known
<1>2. ASSUME NEW r \in Live PROVE Known' \ Collaborative \subseteq participants'[r].tasks
  <2>1. r \in Robot /\ r \notin dead
    BY DEF Live
  <2>2. participants'[r] = AddTask(participants[r], t)
    BY <2>1 DEF Inject, Handle, InjectedMsg
  <2>3. participants[r].tasks \cup ({t} \ Collaborative) = AddTask(participants[r], t).tasks
    <3>1. participants[r] \in Members(Known, Executed)
      BY <2>1 DEF SimInv, Sound
    <3> QED
      BY <3>1 DEF AddTask, Members
  <2>4. Known \ Collaborative \subseteq participants[r].tasks
    BY DEF LiveKnowAll
  <2> QED
    BY <1>1, <2>2, <2>3, <2>4
<1> QED
  BY <1>1, <1>2 DEF LiveKnowAll

LEMMA AllAreTold == Spec => []LiveKnowAll
<1>1. Init => LiveKnowAll
  BY InitSim DEF Init, LiveKnowAll, Live, Known, SimInv, Briefed
<1>2. SimInv /\ LiveKnowAll /\ [Next]_vars => LiveKnowAll'
  <2> SUFFICES ASSUME SimInv, LiveKnowAll, [Next]_vars PROVE LiveKnowAll'
    OBVIOUS
  <2>1. CASE injected' = injected
    <3>1. Known' = Known /\ \A r \in Live' : r \in Live /\ r \in Robot
      BY <2>1 DEF Next, vars, TimeOut, Kill, Inject, DeliverDue, TickRobot, FinishExecutions,
         Live, Known
    <3>2. \A r \in Robot : participants[r].tasks \subseteq participants'[r].tasks
      BY StepGoesForward DEF AllForward, Forward, Later
    <3> QED
      BY <3>1, <3>2 DEF LiveKnowAll
  <2>2. ASSUME NEW t \in Injectable, Inject(t) PROVE LiveKnowAll'
    BY <2>2, InjectTeachesAll
  <2>3. injected' = injected \/ \E t \in Injectable : Inject(t)
    BY DEF Next, vars, TimeOut, Kill, DeliverDue, TickRobot, FinishExecutions
  <2> QED
    BY <2>1, <2>2, <2>3
<1> QED
  BY <1>1, <1>2, SimInvHolds, PTL DEF Spec

\* A live participant that is through with all it knows is through with everything.
CompleteIsTrue ==
  \A r \in Live : MissionComplete(participants[r]) =>
    Known \ Collaborative \subseteq FinishedTasks

LEMMA CompleteLeavesNothing == SimInv /\ LiveKnowAll => CompleteIsTrue
<1> SUFFICES ASSUME SimInv, LiveKnowAll, NEW r \in Live, MissionComplete(participants[r])
             PROVE  Known \ Collaborative \subseteq FinishedTasks
  BY DEF CompleteIsTrue
<1> DEFINE p == participants[r]
<1>1. p \in Members(Known, Executed)
  BY DEF Live, SimInv, Sound
<1>2. Known \ Collaborative \subseteq Completed(p)
  BY DEF LiveKnowAll, MissionComplete
<1>3. p.completed \in Completions(Executed)
  BY <1>1 DEF Members
<1> HIDE DEF p
<1>4. ASSUME NEW t \in Completed(p) PROVE \E d \in Executed : d[1] = t
  <2>1. t \in RealTask /\ p.completed[t] # NoHolder
    BY <1>3 DEF Completed, Completions
  <2>2. <<t, p.completed[t]>> \in Executed
    BY <1>3, <2>1 DEF Completions
  <2> QED
    BY <2>2
<1>5. \A d \in Executed : d[1] \in FinishedTasks
  BY DEF Executed, Copies, FinishedTasks
<1> QED
  BY <1>2, <1>4, <1>5

(***************************************************************************)
(* When run() reports success, every task of the mission and every one that *)
(* was injected, but for those set aside, was executed to its end: replicas *)
(* that call the mission complete are neither ahead of the executor nor     *)
(* ignorant of a task, whatever was lost and whoever died on the way.       *)
(***************************************************************************)
THEOREM SuccessIsEarned == Spec => []CompleteMeansDone
<1>1. Init => CompleteMeansDone
  BY DEF Init, CompleteMeansDone
<1>2. CompleteIsTrue' /\ CompleteMeansDone /\ [Next]_vars => CompleteMeansDone'
  <2> SUFFICES ASSUME CompleteIsTrue', CompleteMeansDone, [Next]_vars PROVE CompleteMeansDone'
    OBVIOUS
  <2>1. CASE FinishExecutions
    <3>1. CASE AllDone(participants')
      <4>1. PICK r \in Live : MissionComplete(participants'[r])
        BY <3>1 DEF AllDone
      <4>2. r \in Live'
        BY <2>1 DEF FinishExecutions, Live
      <4> QED
        BY <4>1, <4>2 DEF CompleteIsTrue, CompleteMeansDone, Known
    <3>2. CASE ~ AllDone(participants')
      BY <2>1, <3>2 DEF FinishExecutions, CompleteMeansDone
    <3> QED
      BY <3>1, <3>2
  <2>2. CASE ~ FinishExecutions
    <3>1. outcome' = "complete" =>
            outcome = "complete" /\ executions' = executions /\ injected' = injected
      BY <2>2 DEF Next, vars, TimeOut, Kill, Inject, DeliverDue, TickRobot, Beginning
    <3> QED
      BY <3>1 DEF CompleteMeansDone, FinishedTasks
  <2> QED
    BY <2>1, <2>2
<1> QED
  BY <1>1, <1>2, SimInvHolds, AllAreTold, CompleteLeavesNothing, PTL DEF Spec

(***************************************************************************)
(* MissionSucceeds but for its deadline: run() succeeds, with all the work  *)
(* done, or is still at it, or has run out of time; there is no other end.  *)
(***************************************************************************)
THEOREM OnlyTimeRunsOut ==
  ASSUME NeedsAreGiven, Acyclic(RealTask \ Collaborative)
  PROVE  Spec => [](outcome = "timed_out" \/ MissionSucceeds)
<1>1. TypeOK /\ TicksNeverRaise /\ CompleteMeansDone
      => outcome = "timed_out" \/ MissionSucceeds
  BY DEF TypeOK, TicksNeverRaise, MissionSucceeds
<1> QED
  BY <1>1, SimTypes, SimNeverRaises, SuccessIsEarned, PTL

=============================================================================

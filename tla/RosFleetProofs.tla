-------------------------- MODULE RosFleetProofs --------------------------
(***************************************************************************)
(* Proofs of what the deployed fleet keeps, for any fleet, mission, travel  *)
(* times, order of the timers and history depth, whatever is lost, late,    *)
(* stalled, cut off, crashed and launched again: every replica is sound of  *)
(* what was finished, every message in an inbox reports what is true, and a *)
(* robot sets out only for what can be executed.                            *)
(***************************************************************************)
EXTENDS RosFleet, ParticipantProofs

(* The node, between callbacks *)

NodeStates(known, done) ==
  {n \in [ p : Members(known, done), timers : SUBSET Timers, timer : Timers \cup {NoTimer},
           task : Enabled(known, done) \cup {NoTask} ] :
     n.timer = NoTimer \/ n.timer \in n.timers}

LEMMA MoreNodes ==
  ASSUME NEW known, NEW done, NEW known2, NEW done2,
         known \subseteq known2, done \subseteq done2
  PROVE  NodeStates(known, done) \subseteq NodeStates(known2, done2)
<1>1. /\ Members(known, done) \subseteq Members(known2, done2)
      /\ Enabled(known, done) \subseteq Enabled(known2, done2)
  BY MoreDone
<1> QED
  BY <1>1 DEF NodeStates

LEMMA NewNodeResult ==
  ASSUME NEW known, NEW done, NEW r \in Robot
  PROVE  NewNode(Home[r], RealTask, Robot) \in NodeStates(known, done)
<1>1. NewParticipant(Home[r], {}, RealTask, Robot) \in Members(known, done)
  BY NewParticipantResult
<1> QED
  BY <1>1 DEF NewNode, NodeStates

\* Another participant in the same node.
LEMMA OtherParticipant ==
  ASSUME NEW known, NEW done, NEW n \in NodeStates(known, done),
         NEW q \in Members(known, done)
  PROVE  [n EXCEPT !.p = q] \in NodeStates(known, done)
BY DEF NodeStates

LEMMA HandleMsgResult ==
  ASSUME NEW known, NEW done, HistoryOK(known, done), NEW r \in Robot,
         NEW n \in NodeStates(known, done), NEW m \in Reports(known, done), NEW at \in Nat
  PROVE  HandleMsg(r, n, m, at) \in NodeStates(known, done)
<1>1. n.p \in Members(known, done)
  BY DEF NodeStates
<1>2. Handle(r, n.p, m, at) \in Members(known, done)
  BY <1>1, HandleResult DEF Handled
<1> QED
  BY <1>2, OtherParticipant DEF HandleMsg

\* The participant once the tasks of an array that are new to it are added.
Taught(r, p, new, at) == FoldSet(LAMBDA t, q : Handle(r, q, InjectedMsg(t), at), p, new)

\* What holds of no task taught, and goes on to hold with one more, holds of all.
LEMMA TaughtInduction ==
  ASSUME NEW known, NEW done, HistoryOK(known, done), NEW r \in Robot,
         NEW p \in Members(known, done), NEW new \in SUBSET known, NEW at \in Nat,
         NEW Z, <<{}, p>> \in Z,
         \A U \in SUBSET new, t \in new, q \in Members(known, done) :
           t \in U /\ <<U \ {t}, q>> \in Z => <<U, Handle(r, q, InjectedMsg(t), at)>> \in Z
  PROVE  /\ Taught(r, p, new, at) \in Members(known, done)
         /\ <<new, Taught(r, p, new, at)>> \in Z
<1> DEFINE X == Members(known, done)
           some(U) == CHOOSE x \in U : TRUE
           pick == [U \in SUBSET new |-> some(U)]
           Defines(f) == f = [U \in SUBSET new |->
                                IF U = {} THEN p
                                ELSE Handle(r, f[U \ {some(U)}], InjectedMsg(some(U)), at)]
           iter == CHOOSE f : Defines(f)
           step == [z \in new \X X |-> Handle(r, z[2], InjectedMsg(z[1]), at)]
<1>1. IsFiniteSet(new)
  <2>1. IsFiniteSet(RealTask) /\ new \in SUBSET RealTask
    BY FleetAssumption DEF FleetAssumption, HistoryOK
  <2> QED
    BY <2>1, FS_Subset
<1>2. Taught(r, p, new, at) = iter[new]
  BY Zenon DEF Taught, FoldSet, MapThenFoldSet
<1>3. ASSUME NEW t \in new, NEW q \in X
      PROVE  Handle(r, q, InjectedMsg(t), at) \in X
  <2>1. InjectedMsg(t) \in Reports(known, done)
    BY DEF InjectedMsg, Injections, Reports
  <2> QED
    BY <2>1, HandleResult DEF Handled
<1> HIDE DEF X
<1>4. step \in [new \X X -> X] /\ p \in X
  BY <1>3 DEF X
<1>5. Picks(pick, new) /\ \A U \in SUBSET new : U # {} => some(U) \in U
  BY DEF Picks
<1> HIDE DEF some
<1>6. \E f : Defines(f)
  <2> HIDE DEF step
  <2>1. PICK g \in [SUBSET new -> X] : IsFold(g, new, pick, p, step)
    <3> HIDE DEF pick
    <3> QED
      BY <1>1, <1>4, <1>5, FoldExists
  <2>2. ASSUME NEW U \in SUBSET new, U # {}
        PROVE  g[U] = Handle(r, g[U \ {some(U)}], InjectedMsg(some(U)), at)
    <3>1. some(U) \in new /\ g[U \ {some(U)}] \in X
      BY <1>5, <2>2
    <3>2. g[U] = step[<<some(U), g[U \ {some(U)}]>>]
      BY <2>1, <2>2 DEF IsFold
    <3> QED
      BY <3>1, <3>2 DEF step
  <2>3. g[{}] = p
    BY <2>1 DEF IsFold
  <2> QED
    BY <2>2, <2>3
<1>7. Defines(iter)
  <2> HIDE DEF Defines
  <2> QED
    BY <1>6
<1> HIDE DEF iter
<1>more. ASSUME NEW U \in SUBSET new, NEW t \in new, t \in U, NEW q \in X, <<U \ {t}, q>> \in Z
         PROVE  <<U, Handle(r, q, InjectedMsg(t), at)>> \in Z
  BY <1>more DEF X
<1> DEFINE Good == {U \in SUBSET new : iter[U] \in X /\ <<U, iter[U]>> \in Z}
<1>8. {} \in Good
  BY <1>4, <1>7
<1>9. ASSUME NEW U \in SUBSET new, U # {}
      PROVE  \E x \in U : U \ {x} \in Good => U \in Good
  <2>1. some(U) \in U /\ some(U) \in new
    BY <1>5, <1>9
  <2>2. iter[U] = Handle(r, iter[U \ {some(U)}], InjectedMsg(some(U)), at)
    BY <1>7, <1>9
  <2>3. ASSUME U \ {some(U)} \in Good PROVE U \in Good
    <3>1. iter[U \ {some(U)}] \in X /\ <<U \ {some(U)}, iter[U \ {some(U)}]>> \in Z
      BY <2>3
    <3>2. iter[U] \in X /\ <<U, iter[U]>> \in Z
      BY <1>3, <1>more, <2>1, <2>2, <3>1
    <3> QED
      BY <3>2
  <2> QED
    BY <2>1, <2>3
<1>10. new \in Good
  <2> HIDE DEF Good
  <2>1. \A U \in SUBSET new : U \in Good
    BY <1>1, <1>8, <1>9, SubsetInduction, Zenon
  <2> QED
    BY <2>1
<1> QED
  BY <1>2, <1>10 DEF X

LEMMA TaughtResult ==
  ASSUME NEW known, NEW done, HistoryOK(known, done), NEW r \in Robot,
         NEW p \in Members(known, done), NEW new \in SUBSET known, NEW at \in Nat
  PROVE  /\ Taught(r, p, new, at) \in Members(known, done)
         /\ Later(p, Taught(r, p, new, at))
<1> DEFINE Z == {z \in (SUBSET new) \X Members(known, done) : Later(p, z[2])}
<1>1. <<{}, p>> \in Z
  <2>1. Later(p, p)
    BY SameIsLater DEF SameNews
  <2> QED
    BY <2>1
<1>2. ASSUME NEW U \in SUBSET new, NEW t \in new, NEW q \in Members(known, done),
             t \in U, <<U \ {t}, q>> \in Z
      PROVE  <<U, Handle(r, q, InjectedMsg(t), at)>> \in Z
  <2>1. InjectedMsg(t) \in Reports(known, done)
    BY DEF InjectedMsg, Injections, Reports
  <2>2. /\ Handle(r, q, InjectedMsg(t), at) \in Members(known, done)
        /\ Later(q, Handle(r, q, InjectedMsg(t), at))
    BY <2>1, HandleResult, HandleHeeds DEF Handled, Heeds
  <2>3. Later(p, Handle(r, q, InjectedMsg(t), at))
    BY <1>2, <2>2, LaterTransitive
  <2> QED
    BY <2>2, <2>3
<1>3. /\ Taught(r, p, new, at) \in Members(known, done)
      /\ <<new, Taught(r, p, new, at)>> \in Z
  <2> HIDE DEF Z
  <2> QED
    BY <1>1, <1>2, TaughtInduction
<1> QED
  BY <1>3

\* A participant that is taught tasks does not go back.
LEMMA TaughtForward ==
  ASSUME NEW known, NEW done, HistoryOK(known, done), NEW r \in Robot,
         NEW p \in Members(known, done), NEW new \in SUBSET known, NEW at \in Nat
  PROVE  Forward(p, Taught(r, p, new, at))
<1> DEFINE Z == {z \in (SUBSET new) \X Members(known, done) : Forward(p, z[2])}
<1>1. <<{}, p>> \in Z
  BY SameIsForward
<1>2. ASSUME NEW U \in SUBSET new, NEW t \in new, NEW q \in Members(known, done),
             t \in U, <<U \ {t}, q>> \in Z
      PROVE  <<U, Handle(r, q, InjectedMsg(t), at)>> \in Z
  <2> DEFINE k == Handle(r, q, InjectedMsg(t), at)
  <2>1. InjectedMsg(t) \in Reports(known, done)
    BY DEF InjectedMsg, Injections, Reports
  <2>2. k \in Members(known, done) /\ Forward(q, k)
    BY <2>1, HandleResult, HandleForward DEF Handled
  <2>3. Forward(p, q)
    BY <1>2
  <2> HIDE DEF k
  <2>4. Forward(p, k)
    BY <2>2, <2>3, ForwardTransitive
  <2>5. <<U, k>> \in Z
    BY <2>2, <2>4
  <2> QED
    BY <2>5 DEF k
<1>3. <<new, Taught(r, p, new, at)>> \in Z
  <2> HIDE DEF Z
  <2> QED
    BY <1>1, <1>2, TaughtInduction
<1> QED
  BY <1>3

\* No task is left out but those that are collaborative, and work goes on.
LEMMA TaughtExactly ==
  ASSUME NEW known, NEW done, HistoryOK(known, done), NEW r \in Robot,
         NEW p \in Members(known, done), NEW new \in SUBSET known, NEW at \in Nat
  PROVE  /\ Taught(r, p, new, at).executing = p.executing
         /\ Taught(r, p, new, at).tasks = p.tasks \cup (new \ Collaborative)
<1> DEFINE Z == {z \in (SUBSET new) \X Members(known, done) :
                   /\ z[2].executing = p.executing
                   /\ z[2].tasks = p.tasks \cup (z[1] \ Collaborative)}
<1>1. <<{}, p>> \in Z
  OBVIOUS
<1>2. ASSUME NEW U \in SUBSET new, NEW t \in new, NEW q \in Members(known, done),
             t \in U, <<U \ {t}, q>> \in Z
      PROVE  <<U, Handle(r, q, InjectedMsg(t), at)>> \in Z
  <2>1. InjectedMsg(t) \in Reports(known, done)
    BY DEF InjectedMsg, Injections, Reports
  <2>2. /\ Handle(r, q, InjectedMsg(t), at) \in Members(known, done)
        /\ Handle(r, q, InjectedMsg(t), at).executing = q.executing
    BY <2>1, HandleResult DEF Handled
  <2>3. Handle(r, q, InjectedMsg(t), at).tasks = q.tasks \cup ({t} \ Collaborative)
    <3>1. Handle(r, q, InjectedMsg(t), at) = AddTask(q, t)
      BY DEF Handle, InjectedMsg
    <3> QED
      BY <3>1 DEF AddTask, Members
  <2>4. q.executing = p.executing /\ q.tasks = p.tasks \cup ((U \ {t}) \ Collaborative)
    BY <1>2
  <2> QED
    BY <1>2, <2>2, <2>3, <2>4
<1>3. <<new, Taught(r, p, new, at)>> \in Z
  <2> HIDE DEF Z
  <2> QED
    BY <1>1, <1>2, TaughtInduction
<1> QED
  BY <1>3

LEMMA OnTaskArrayResult ==
  ASSUME NEW known, NEW done, HistoryOK(known, done), NEW r \in Robot,
         NEW n \in NodeStates(known, done), NEW tasks \in SUBSET known, NEW at \in Nat
  PROVE  OnTaskArray(r, n, tasks, at) \in NodeStates(known, done)
<1> DEFINE q == Taught(r, n.p, tasks \ n.p.tasks, at)
<1>1. n.p \in Members(known, done)
  BY DEF NodeStates
<1>2. q \in Members(known, done)
  BY <1>1, TaughtResult
<1>3. OnTaskArray(r, n, tasks, at) = [n EXCEPT !.p = q]
  BY DEF OnTaskArray, Taught
<1> HIDE DEF q
<1> QED
  BY <1>2, <1>3, OtherParticipant


(* The execution timer *)

LEMMA StartExecutionResult ==
  ASSUME NEW known, NEW done, NEW n \in NodeStates(known, done), NEW t \in Enabled(known, done),
         NEW at \in Nat
  PROVE  StartExecution(n, t, at) \in NodeStates(known, done)
<1> DEFINE wait == Travel[n.p.place][t] + Duration[t]
           tm == [for |-> t, since |-> at, wait |-> wait, next |-> at + wait]
<1>1. t \in RealTask /\ n.p.place \in Place
  BY DEF Enabled, NodeStates, Members
<1>2. Travel[n.p.place][t] \in Nat /\ Duration[t] \in Nat
  BY <1>1, FleetAssumption DEF FleetAssumption
<1>3. tm \in Timers
  BY <1>1, <1>2 DEF Timers
<1>4. StartExecution(n, t, at) =
        [n EXCEPT !.timers = n.timers \cup {tm}, !.timer = tm, !.task = t]
  BY DEF StartExecution
<1> HIDE DEF tm
<1> QED
  BY <1>3, <1>4, ZenonT(40) DEF NodeStates

LEMMA CancelExecutionResult ==
  ASSUME NEW known, NEW done, NEW n \in NodeStates(known, done)
  PROVE  CancelExecution(n) \in NodeStates(known, done) /\ CancelExecution(n).p = n.p
<1>1. CASE n.timer = NoTimer
  BY <1>1 DEF CancelExecution
<1>2. CASE n.timer # NoTimer
  <2>1. CancelExecution(n) =
          [n EXCEPT !.timers = n.timers \ {n.timer}, !.timer = NoTimer, !.task = NoTask]
    BY <1>2 DEF CancelExecution
  <2> QED
    BY <2>1 DEF NodeStates
<1> QED
  BY <1>1, <1>2

LEMMA RearmedResult ==
  ASSUME NEW known, NEW done, NEW n \in NodeStates(known, done), NEW tm \in n.timers
  PROVE  /\ Rearmed(n, tm) \in NodeStates(known, done)
         /\ Rearmed(n, tm).p = n.p /\ Rearmed(n, tm).task = n.task
<1> DEFINE again == [tm EXCEPT !.next = tm.next + tm.wait]
           timers == (n.timers \ {tm}) \cup {again}
           timer == IF n.timer = tm THEN again ELSE n.timer
<1>1. tm \in Timers
  BY DEF NodeStates
<1>2. again \in Timers
  BY <1>1 DEF Timers
<1>3. Rearmed(n, tm) = [n EXCEPT !.timers = timers, !.timer = timer]
  BY DEF Rearmed, NodeStates
<1> HIDE DEF again
<1>4. /\ timers \in SUBSET Timers /\ timer \in Timers \cup {NoTimer}
      /\ timer = NoTimer \/ timer \in timers
  BY <1>2 DEF NodeStates
<1> HIDE DEF timers, timer
<1> DEFINE m == [n EXCEPT !.timers = timers, !.timer = timer]
<1>5. /\ m.p = n.p /\ m.task = n.task /\ m.timers = timers /\ m.timer = timer
      /\ m \in [ p : Members(known, done), timers : SUBSET Timers,
                 timer : Timers \cup {NoTimer}, task : Enabled(known, done) \cup {NoTask} ]
  BY <1>4 DEF NodeStates
<1> HIDE DEF m
<1>6. m \in NodeStates(known, done)
  BY <1>4, <1>5 DEF NodeStates
<1> QED
  BY <1>3, <1>5, <1>6 DEF m

\* A timer that does not raise completes the task the node is at work on.
Finishes(known, done, r, n, tm) ==
  LET res == FinishExecution(r, n, tm)
  IN  /\ res.raised = FALSE =>
           /\ n.task \in RealTask
           /\ res.node \in NodeStates(known, done)
           /\ res.out \in Seq(Spoken(known, done))
      /\ res.raised # FALSE => res.raised = TRUE /\ res.out = <<>>

LEMMA FinishExecutionResult ==
  ASSUME NEW known, NEW done, NEW done2, HistoryOK(known, done), done \subseteq done2,
         NEW r \in Robot, NEW n \in NodeStates(known, done), NEW tm \in n.timers,
         <<n.task, r>> \in done2
  PROVE  Finishes(known, done2, r, n, tm)
<1> DEFINE fired == Rearmed(n, tm)
           stopped == CancelExecution(fired)
           fails == \/ fired.timer = NoTimer \/ fired.p.executing # fired.task
                    \/ fired.task \notin fired.p.tasks
<1>1. /\ fired \in NodeStates(known, done) /\ fired.p = n.p /\ fired.task = n.task
  BY RearmedResult
<1> HIDE DEF fired
<1>2. stopped \in NodeStates(known, done) /\ stopped.p = n.p
  BY <1>1, CancelExecutionResult
<1>3. CASE fails
  <2>1. FinishExecution(r, n, tm) = Raised(stopped, <<>>)
    BY <1>3 DEF FinishExecution, fired
  <2> QED
    BY <2>1 DEF Raised, Finishes
<1>4. CASE ~ fails
  <2> DEFINE q == TaskFinished(r, stopped.p, n.task)
  <2>1. FinishExecution(r, n, tm) =
          [node |-> [stopped EXCEPT !.p = q], out |-> <<CompletedMsg(n.task, r)>>,
           raised |-> FALSE]
    BY <1>1, <1>4 DEF FinishExecution, fired, Returned
  <2> HIDE DEF stopped
  <2>2. n.task \in RealTask
    <3>1. n.p.tasks \subseteq RealTask
      BY DEF NodeStates, Members, HistoryOK
    <3> QED
      BY <1>1, <1>4, <3>1
  <2>3. stopped \in NodeStates(known, done2)
    BY <1>2, MoreNodes
  <2>4. q \in Members(known, done2)
    <3>1. stopped.p \in Members(known, done2)
      BY <2>3 DEF NodeStates
    <3> QED
      BY <2>2, <3>1, TaskFinishedResult
  <2> HIDE DEF q
  <2>5. [stopped EXCEPT !.p = q] \in NodeStates(known, done2)
    BY <2>3, <2>4, OtherParticipant
  <2>6. CompletedMsg(n.task, r) \in Spoken(known, done2)
    BY <2>2 DEF CompletedMsg, TrueCompletions, Spoken
  <2> QED
    BY <2>1, <2>2, <2>5, <2>6 DEF Finishes
<1> QED
  BY <1>3, <1>4

(* The tick of a node *)

\* The node once it has started what was dispatched.
Started(n, dispatched, at) ==
  FoldSet(LAMBDA t, x : StartExecution(x, t, at), n, dispatched)

LEMMA StartedResult ==
  ASSUME NEW known, NEW done, NEW n \in NodeStates(known, done),
         NEW dispatched \in SUBSET Enabled(known, done), NEW at \in Nat
  PROVE  Started(n, dispatched, at) \in NodeStates(known, done)
<1> DEFINE X == NodeStates(known, done)
           some(U) == CHOOSE y \in U : TRUE
           pick == [U \in SUBSET dispatched |-> some(U)]
           Defines(f) == f = [U \in SUBSET dispatched |->
                                IF U = {} THEN n
                                ELSE StartExecution(f[U \ {some(U)}], some(U), at)]
           iter == CHOOSE f : Defines(f)
           step == [z \in dispatched \X X |-> StartExecution(z[2], z[1], at)]
<1>1. IsFiniteSet(dispatched)
  <2>1. IsFiniteSet(RealTask) /\ dispatched \in SUBSET RealTask
    BY FleetAssumption DEF FleetAssumption, Enabled
  <2> QED
    BY <2>1, FS_Subset
<1>2. Started(n, dispatched, at) = iter[dispatched]
  BY Zenon DEF Started, FoldSet, MapThenFoldSet
<1>3. ASSUME NEW t \in dispatched, NEW x \in X PROVE StartExecution(x, t, at) \in X
  BY StartExecutionResult
<1>4. n \in X
  OBVIOUS
<1> HIDE DEF X
<1>5. step \in [dispatched \X X -> X]
  BY <1>3
<1>6. Picks(pick, dispatched) /\ \A U \in SUBSET dispatched : U # {} => some(U) \in U
  BY DEF Picks
<1> HIDE DEF some
<1>7. \E f : Defines(f)
  <2> HIDE DEF step
  <2>1. PICK g \in [SUBSET dispatched -> X] : IsFold(g, dispatched, pick, n, step)
    <3> HIDE DEF pick
    <3> QED
      BY <1>1, <1>4, <1>5, <1>6, FoldExists
  <2>2. ASSUME NEW U \in SUBSET dispatched, U # {}
        PROVE  g[U] = StartExecution(g[U \ {some(U)}], some(U), at)
    <3>1. some(U) \in dispatched /\ g[U \ {some(U)}] \in X
      BY <1>6, <2>2
    <3>2. g[U] = step[<<some(U), g[U \ {some(U)}]>>]
      BY <2>1, <2>2 DEF IsFold
    <3> QED
      BY <3>1, <3>2 DEF step
  <2>3. g[{}] = n
    BY <2>1 DEF IsFold
  <2> QED
    BY <2>2, <2>3
<1>8. Defines(iter)
  <2> HIDE DEF Defines
  <2> QED
    BY <1>7
<1> HIDE DEF iter
<1> DEFINE Good == {U \in SUBSET dispatched : iter[U] \in X}
<1>9. {} \in Good
  BY <1>4, <1>8
<1>10. ASSUME NEW U \in SUBSET dispatched, U # {}
       PROVE  \E y \in U : U \ {y} \in Good => U \in Good
  <2>1. some(U) \in U /\ some(U) \in dispatched
    BY <1>6, <1>10
  <2>2. iter[U] = StartExecution(iter[U \ {some(U)}], some(U), at)
    BY <1>8, <1>10
  <2> QED
    BY <1>3, <2>1, <2>2
<1>11. dispatched \in Good
  <2> HIDE DEF Good
  <2>1. \A U \in SUBSET dispatched : U \in Good
    BY <1>1, <1>9, <1>10, SubsetInduction, Zenon
  <2> QED
    BY <2>1
<1> QED
  BY <1>2, <1>11 DEF X

LEMMA NodeTickResult ==
  ASSUME NEW known, NEW done, HistoryOK(known, done), NEW r \in Robot,
         NEW n \in NodeStates(known, done), NEW at \in Nat, NEW res \in NodeTick(r, n, at)
  PROVE  /\ res.raised \in BOOLEAN
         /\ ~ res.raised => res.node \in NodeStates(known, done)
         /\ res.out \in Seq(Spoken(known, done))
<1>1. PICK step \in Tick(r, n.p, at) :
        LET ticked == [n EXCEPT !.p = step.p]
            kept   == AfterAborts(ticked, step)
        IN  res = IF step.raised
                  THEN Raised(ticked, <<>>)
                  ELSE IF ~ step.dispatched \subseteq step.p.tasks
                  THEN Raised(kept, step.out)
                  ELSE Returned(Started(kept, step.dispatched, at), step.out)
  BY DEF NodeTick, Started
<1> DEFINE ticked == [n EXCEPT !.p = step.p]
           kept   == AfterAborts(ticked, step)
<1>2. TickSound(known, done, n.p, step)
  BY TickResult DEF NodeStates
<1>3. /\ step.p \in Members(known, done) /\ step.out \in Seq(Spoken(known, done))
      /\ step.dispatched \in SUBSET Enabled(known, done)
  BY <1>2 DEF TickSound
<1>4. ticked \in NodeStates(known, done)
  BY <1>3, OtherParticipant
<1> HIDE DEF ticked
<1>5. kept \in NodeStates(known, done)
  BY <1>4, CancelExecutionResult DEF AfterAborts
<1> HIDE DEF kept
<1>6. Started(kept, step.dispatched, at) \in NodeStates(known, done)
  BY <1>3, <1>5, StartedResult
<1>7. res = IF step.raised
            THEN Raised(ticked, <<>>)
            ELSE IF ~ step.dispatched \subseteq step.p.tasks
            THEN Raised(kept, step.out)
            ELSE Returned(Started(kept, step.dispatched, at), step.out)
  BY <1>1 DEF ticked, kept
<1>8. <<>> \in Seq(Spoken(known, done))
  OBVIOUS
<1> QED
  BY <1>3, <1>6, <1>7, <1>8 DEF Raised, Returned


-----------------------------------------------------------------------------
(* Inboxes *)

\* Arrays are closed under prerequisites, if the mission is.
Arrays(known) ==
  [type : {"tasks"}, tasks : {S \in SUBSET known : Closed(Mission) => Closed(S)}]

Messages(known, done) == Spoken(known, done) \cup Arrays(known)

Parcels(known, done) ==
  [from : Robot \cup {MissionTopic}, msg : Messages(known, done), late : BOOLEAN]

Topics ==
  {"tasks", "heartbeat", "announcement", "gossip", "renewal", "completed", "injected"}

\* No topic holds more than its history.
WithinDepth(box) == \A ty \in Topics : Cardinality(OfTopic(box, ty)) <= TopicDepth(ty)

Boxes(known, done) == {box \in Seq(Parcels(known, done)) : WithinDepth(box)}

LEMMA MoreBoxes ==
  ASSUME NEW known, NEW done, NEW known2, NEW done2,
         known \subseteq known2, done \subseteq done2
  PROVE  /\ Messages(known, done) \subseteq Messages(known2, done2)
         /\ Boxes(known, done) \subseteq Boxes(known2, done2)
<1>1. Spoken(known, done) \subseteq Spoken(known2, done2)
  BY MoreDone
<1>2. Arrays(known) \subseteq Arrays(known2)
  BY DEF Arrays
<1>3. Messages(known, done) \subseteq Messages(known2, done2)
  BY <1>1, <1>2 DEF Messages
<1>4. Parcels(known, done) \subseteq Parcels(known2, done2)
  BY <1>3 DEF Parcels
<1> QED
  BY <1>3, <1>4 DEF Boxes

LEMMA TopicOf ==
  ASSUME NEW known, NEW done, NEW m \in Messages(known, done)
  PROVE  /\ m.type \in Topics
         /\ m.type = "tasks" => m \in Arrays(known)
         /\ m.type # "tasks" => m \in Spoken(known, done)
<1>1. CASE m \in Arrays(known)
  BY <1>1 DEF Arrays, Topics
<1>2. CASE m \in Spoken(known, done)
  BY <1>2 DEF Spoken, Heartbeats, Framed, Announcements, Gossips, Renewals, TrueCompletions,
     Injections, Topics
<1> QED
  BY <1>1, <1>2 DEF Messages

LEMMA DepthType == \A ty : TopicDepth(ty) \in Nat \ {0}
BY DeploymentAssumption DEF DeploymentAssumption, TopicDepth

LEMMA OfTopicFinite ==
  ASSUME NEW A, NEW box \in Seq(A), NEW ty
  PROVE  /\ OfTopic(box, ty) \in SUBSET (1..Len(box))
         /\ IsFiniteSet(OfTopic(box, ty)) /\ Cardinality(OfTopic(box, ty)) \in Nat
<1>1. OfTopic(box, ty) \in SUBSET (1..Len(box))
  BY DEF OfTopic
<1>2. IsFiniteSet(1..Len(box))
  BY FS_Interval
<1>3. IsFiniteSet(OfTopic(box, ty))
  BY <1>1, <1>2, FS_Subset
<1> QED
  BY <1>1, <1>3, FS_CardinalityType

\* What is taken out no longer counts.
LEMMA RemovedOfTopic ==
  ASSUME NEW A, NEW box \in Seq(A), NEW i \in DOMAIN box, NEW ty
  PROVE  /\ RemoveAt(box, i) \in Seq(A)
         /\ Cardinality(OfTopic(RemoveAt(box, i), ty)) <= Cardinality(OfTopic(box, ty) \ {i})
<1> DEFINE w == RemoveAt(box, i)
           S == OfTopic(box, ty) \ {i}
           T == OfTopic(w, ty)
           f == [j \in S |-> IF j < i THEN j ELSE j - 1]
<1>1. /\ w \in Seq(A) /\ DOMAIN w = 1..(Len(box) - 1)
      /\ \A j \in DOMAIN w : w[j] = IF j < i THEN box[j] ELSE box[j + 1]
  BY AllButOne
<1>2. Len(box) \in Nat /\ i \in 1..Len(box) /\ DOMAIN box = 1..Len(box)
  OBVIOUS
<1> HIDE DEF w
<1>3. ASSUME NEW j \in S PROVE f[j] \in T
  <2>1. j \in 1..Len(box) /\ j # i /\ box[j].msg.type = ty
    BY <1>2 DEF OfTopic
  <2>2. f[j] \in DOMAIN w /\ w[f[j]] = box[j]
    <3>1. CASE j < i
      <4>1. f[j] = j /\ j \in 1..(Len(box) - 1)
        BY <1>2, <2>1, <3>1
      <4> QED
        BY <1>1, <3>1, <4>1
    <3>2. CASE ~ (j < i)
      <4>1. f[j] = j - 1 /\ j - 1 \in 1..(Len(box) - 1) /\ ~ (j - 1 < i) /\ (j - 1) + 1 = j
        BY <1>2, <2>1, <3>2
      <4> QED
        BY <1>1, <4>1
    <3> QED
      BY <3>1, <3>2
  <2> QED
    BY <2>1, <2>2 DEF OfTopic
<1>4. ASSUME NEW k \in T PROVE \E j \in S : f[j] = k
  <2>1. k \in DOMAIN w /\ w[k].msg.type = ty
    BY DEF OfTopic
  <2>2. CASE k < i
    <3>1. k \in S /\ f[k] = k
      BY <1>1, <1>2, <2>1, <2>2 DEF OfTopic
    <3> QED
      BY <3>1
  <2>3. CASE ~ (k < i)
    <3>1. k + 1 \in 1..Len(box) /\ k + 1 # i /\ ~ (k + 1 < i) /\ (k + 1) - 1 = k
      BY <1>1, <1>2, <2>1, <2>3
    <3>2. box[k + 1].msg.type = ty
      BY <1>1, <2>1, <2>3
    <3>3. k + 1 \in S
      BY <1>2, <3>1, <3>2 DEF OfTopic
    <3> QED
      BY <3>1, <3>3
  <2> QED
    BY <2>2, <2>3
<1>5. IsFiniteSet(S)
  <2>1. IsFiniteSet(OfTopic(box, ty))
    BY OfTopicFinite
  <2> QED
    BY <2>1, FS_RemoveElement
<1>6. f \in Surjection(S, T)
  <2>1. f \in [S -> T]
    BY <1>3
  <2> HIDE DEF f, S, T
  <2> QED
    BY <1>4, <2>1 DEF Surjection
<1> HIDE DEF f, S, T
<1>7. Cardinality(T) <= Cardinality(S)
  BY <1>5, <1>6, FS_Surjection
<1> QED
  BY <1>1, <1>7 DEF S, T, w

LEMMA AppendOfTopic ==
  ASSUME NEW A, NEW box \in Seq(A), NEW e \in A, NEW ty
  PROVE  Cardinality(OfTopic(Append(box, e), ty))
           = Cardinality(OfTopic(box, ty)) + (IF e.msg.type = ty THEN 1 ELSE 0)
<1> DEFINE w == Append(box, e)
           S == OfTopic(box, ty)
           n == Len(box) + 1
<1>1. /\ DOMAIN box = 1..Len(box) /\ Len(box) \in Nat
      /\ DOMAIN w = 1..n /\ w[n] = e
      /\ \A i \in DOMAIN box : w[i] = box[i]
  OBVIOUS
<1>2. /\ S \in SUBSET (1..Len(box)) /\ IsFiniteSet(S) /\ Cardinality(S) \in Nat
  BY OfTopicFinite
<1>3. n \notin S
  BY <1>1, <1>2
<1> HIDE DEF w
<1>4. CASE e.msg.type = ty
  <2>1. OfTopic(w, ty) = S \cup {n}
    BY <1>1, <1>4 DEF OfTopic
  <2> HIDE DEF S, n
  <2>2. Cardinality(S \cup {n}) = Cardinality(S) + 1
    BY <1>2, <1>3, FS_AddElement
  <2> QED
    BY <1>4, <2>1, <2>2 DEF w, S
<1>5. CASE e.msg.type # ty
  <2>1. OfTopic(w, ty) = S
    BY <1>1, <1>5 DEF OfTopic
  <2> HIDE DEF S
  <2> QED
    BY <1>2, <1>5, <2>1 DEF w, S
<1> QED
  BY <1>4, <1>5

\* A box stays within its depth, whatever is added.
LEMMA EnqueueResult ==
  ASSUME NEW known, NEW done, NEW box \in Boxes(known, done),
         NEW from \in Robot \cup {MissionTopic}, NEW m \in Messages(known, done)
  PROVE  Enqueue(box, from, m) \in Boxes(known, done)
<1> DEFINE A == Parcels(known, done)
           e == [from |-> from, msg |-> m, late |-> FALSE]
           topic == OfTopic(box, m.type)
           first == Min(topic)
           full == ~ (Cardinality(topic) < TopicDepth(m.type))
           kept == IF full THEN RemoveAt(box, first) ELSE box
<1>1. box \in Seq(A) /\ WithinDepth(box)
  BY DEF Boxes
<1>2. e \in A /\ e.msg.type = m.type /\ m.type \in Topics
  BY TopicOf DEF Parcels
<1>3. Enqueue(box, from, m) = Append(kept, e)
  BY DEF Enqueue
<1> HIDE DEF A, e
<1>4. \A ty : TopicDepth(ty) \in Nat \ {0}
  BY DepthType
<1>5. \A ty : Cardinality(OfTopic(box, ty)) \in Nat
  BY <1>1, OfTopicFinite
<1>6. ASSUME full PROVE first \in topic /\ first \in DOMAIN box
  <2>1. topic \in SUBSET (1..Len(box)) /\ IsFiniteSet(topic)
    BY <1>1, OfTopicFinite
  <2>2. topic # {}
    <3>1. Cardinality({}) = 0
      BY FS_EmptySet
    <3> QED
      BY <1>4, <1>6, <3>1
  <2>3. topic \in SUBSET Nat
    BY <2>1
  <2> HIDE DEF topic
  <2>4. \E x \in topic : \A y \in topic : x <= y
    BY <2>1, <2>2, <2>3, SmallestNumber
  <2>5. first \in topic
    BY <2>4 DEF Min
  <2>6. DOMAIN box = 1..Len(box)
    BY <1>1
  <2> HIDE DEF first
  <2> QED
    BY <2>1, <2>5, <2>6
<1>7. kept \in Seq(A)
  BY <1>1, <1>6, RemovedOfTopic
<1>8. ASSUME NEW ty \in Topics
      PROVE  /\ Cardinality(OfTopic(kept, ty)) <= TopicDepth(ty)
             /\ ty = m.type => Cardinality(OfTopic(kept, ty)) + 1 <= TopicDepth(ty)
  <2>1. CASE ~ full
    BY <1>1, <1>4, <1>5, <2>1 DEF WithinDepth
  <2>2. CASE full
    <3> DEFINE S == OfTopic(box, ty)
    <3>1. Cardinality(OfTopic(kept, ty)) <= Cardinality(S \ {first})
      BY <1>1, <1>6, <2>2, RemovedOfTopic
    <3>2. IsFiniteSet(S) /\ Cardinality(S) \in Nat
      BY <1>1, OfTopicFinite
    <3>3. /\ Cardinality(S \ {first}) = IF first \in S THEN Cardinality(S) - 1 ELSE Cardinality(S)
          /\ IsFiniteSet(S \ {first})
      BY <3>2, FS_RemoveElement
    <3>4. ty = m.type => first \in S
      BY <1>6, <2>2
    <3>5. Cardinality(S) <= TopicDepth(ty)
      BY <1>1 DEF WithinDepth
    <3>6. Cardinality(OfTopic(kept, ty)) \in Nat
      BY <1>7, OfTopicFinite
    <3> HIDE DEF S, first, kept
    <3> QED
      BY <1>4, <3>1, <3>2, <3>3, <3>4, <3>5, <3>6
  <2> QED
    BY <2>1, <2>2
<1> HIDE DEF kept
<1>9. Append(kept, e) \in Seq(A)
  BY <1>2, <1>7
<1>10. WithinDepth(Append(kept, e))
  <2> SUFFICES ASSUME NEW ty \in Topics
               PROVE  Cardinality(OfTopic(Append(kept, e), ty)) <= TopicDepth(ty)
    BY DEF WithinDepth
  <2>1. Cardinality(OfTopic(Append(kept, e), ty))
          = Cardinality(OfTopic(kept, ty)) + (IF e.msg.type = ty THEN 1 ELSE 0)
    BY <1>2, <1>7, AppendOfTopic
  <2>2. Cardinality(OfTopic(kept, ty)) \in Nat
    BY <1>7, OfTopicFinite
  <2> QED
    BY <1>2, <1>4, <1>8, <2>1, <2>2
<1> QED
  BY <1>3, <1>9, <1>10 DEF Boxes, A


\* What a subscription takes in, message by message.
TakenIn(box, from, out) == FoldLeft(LAMBDA b, m : Enqueue(b, from, m), box, out)

LEMMA TakenInResult ==
  ASSUME NEW known, NEW done, NEW box \in Boxes(known, done),
         NEW from \in Robot \cup {MissionTopic}, NEW out \in Seq(Messages(known, done))
  PROVE  TakenIn(box, from, out) \in Boxes(known, done)
<1> DEFINE X == Boxes(known, done)
           n == Len(out)
           Defines(f) == f = [U \in SUBSET (1..n) |->
                                IF U = {} THEN box
                                ELSE Enqueue(f[U \ {Max(U)}], from, out[Max(U)])]
           iter == CHOOSE f : Defines(f)
           step == [p \in (1..n) \X X |-> Enqueue(p[2], from, out[p[1]])]
<1>1. n \in Nat /\ DOMAIN out = 1..n
  OBVIOUS
<1>2. TakenIn(box, from, out) = iter[1..n]
  <2>1. TakenIn(box, from, out) =
          (CHOOSE f : f = [U \in SUBSET (DOMAIN out) |->
                             IF U = {} THEN box
                             ELSE Enqueue(f[U \ {Max(U)}], from, out[Max(U)])])[DOMAIN out]
    BY Zenon DEF TakenIn, FoldLeft, MapThenFoldSet
  <2> QED
    BY <1>1, <2>1
<1> HIDE DEF n
<1>3. ASSUME NEW k \in 1..n, NEW x \in X PROVE Enqueue(x, from, out[k]) \in X
  <2>1. out[k] \in Messages(known, done)
    BY <1>1
  <2> QED
    BY <2>1, EnqueueResult
<1>4. box \in X
  OBVIOUS
<1> HIDE DEF X
<1>5. step \in [(1..n) \X X -> X]
  BY <1>3
<1>6. \E f : Defines(f)
  <2> HIDE DEF step
  <2>1. PICK g \in [SUBSET (1..n) -> X] : ByMax(g, n, box, step)
    BY <1>1, <1>4, <1>5, LeftFoldExists, Zenon
  <2>2. ASSUME NEW U \in SUBSET (1..n), U # {}
        PROVE  g[U] = Enqueue(g[U \ {Max(U)}], from, out[Max(U)])
    <3>1. Max(U) \in 1..n /\ g[U \ {Max(U)}] \in X
      BY <1>1, <2>2, LastOfPrefix
    <3>2. g[U] = step[<<Max(U), g[U \ {Max(U)}]>>]
      BY <2>1, <2>2 DEF ByMax
    <3> QED
      BY <3>1, <3>2 DEF step
  <2>3. g[{}] = box
    BY <2>1 DEF ByMax
  <2> QED
    BY <2>2, <2>3
<1>7. Defines(iter)
  <2> HIDE DEF Defines
  <2> QED
    BY <1>6
<1> HIDE DEF iter
<1>8. ASSUME NEW U \in SUBSET (1..n), U # {}, iter[U \ {Max(U)}] \in X
      PROVE  iter[U] = step[<<Max(U), iter[U \ {Max(U)}]>>]
  <2>1. Max(U) \in 1..n
    BY <1>1, <1>8, LastOfPrefix
  <2>2. iter[U] = Enqueue(iter[U \ {Max(U)}], from, out[Max(U)])
    BY <1>7, <1>8
  <2> QED
    BY <1>8, <2>1, <2>2
<1>9. FoldsFrom(iter, n, X, box, step)
  BY <1>7, <1>8 DEF FoldsFrom
<1>10. iter[1..n] \in X
  <2> HIDE DEF step, Defines
  <2>1. FoldsInOrder(iter, n, X, box, step)
    BY <1>1, <1>4, <1>5, <1>9, FoldByPrefix
  <2> QED
    BY <1>1, <2>1 DEF FoldsInOrder
<1> QED
  BY <1>2, <1>10 DEF X

\* Whoever is up has sound boxes still, and the others what they had.
CameIn(known, done, boxes, up, from, out) ==
  /\ Published(boxes, up, from, out) \in [Robot -> Boxes(known, done)]
  /\ \A r \in Robot \ up : Published(boxes, up, from, out)[r] = boxes[r]

LEMMA PublishedResult ==
  ASSUME NEW known, NEW done, NEW boxes \in [Robot -> Boxes(known, done)], NEW up,
         NEW from \in Robot \cup {MissionTopic}, NEW out \in Seq(Messages(known, done))
  PROVE  CameIn(known, done, boxes, up, from, out)
<1>1. Published(boxes, up, from, out) =
        [r \in Robot |->
           IF r \notin up \/ (from # MissionTopic /\ ~ Connected(from, r))
           THEN boxes[r]
           ELSE TakenIn(boxes[r], from, out)]
  BY DEF Published, TakenIn
<1>2. \A r \in Robot : TakenIn(boxes[r], from, out) \in Boxes(known, done)
  BY TakenInResult
<1> QED
  BY <1>1, <1>2 DEF CameIn

\* The messages of a topic among the first k.
FirstOf(box, k, ty) == {j \in 1..k : box[j].msg.type = ty}

LEMMA FirstOfTopic ==
  ASSUME NEW box, NEW k \in Nat, NEW ty
  PROVE  /\ IsFiniteSet(FirstOf(box, k, ty)) /\ Cardinality(FirstOf(box, k, ty)) \in Nat
         /\ k + 1 \notin FirstOf(box, k, ty)
<1>1. IsFiniteSet(1..k) /\ FirstOf(box, k, ty) \in SUBSET (1..k)
  BY FS_Interval DEF FirstOf
<1>2. IsFiniteSet(FirstOf(box, k, ty))
  BY <1>1, FS_Subset
<1> QED
  BY <1>1, <1>2, FS_CardinalityType

\* What is late stays, and is no more than what there was.
LEMMA StillLateResult ==
  ASSUME NEW known, NEW done, NEW box \in Boxes(known, done)
  PROVE  StillLate(box) \in Boxes(known, done)
<1> DEFINE A == Parcels(known, done)
           Keep(kept, e) == IF e.late THEN Append(kept, [e EXCEPT !.late = FALSE]) ELSE kept
<1>box. box \in Seq(A) /\ WithinDepth(box)
  BY DEF Boxes
<1>type. ASSUME NEW kept \in Seq(A), NEW e \in A PROVE Keep(kept, e) \in Seq(A)
  <2>1. [e EXCEPT !.late = FALSE] \in A
    BY DEF Parcels
  <2> QED
    BY <2>1
<1>size. ASSUME NEW kept \in Seq(A), NEW e \in A, NEW ty
      PROVE  Cardinality(OfTopic(Keep(kept, e), ty))
               <= Cardinality(OfTopic(kept, ty)) + (IF e.msg.type = ty THEN 1 ELSE 0)
  <2> DEFINE e2 == [e EXCEPT !.late = FALSE]
  <2>1. e2 \in A /\ e2.msg.type = e.msg.type
    BY DEF Parcels
  <2> HIDE DEF e2, A
  <2>2. Cardinality(OfTopic(Append(kept, e2), ty))
          = Cardinality(OfTopic(kept, ty)) + (IF e2.msg.type = ty THEN 1 ELSE 0)
    BY <2>1, AppendOfTopic
  <2>3. Cardinality(OfTopic(kept, ty)) \in Nat
    BY OfTopicFinite
  <2> QED
    BY <2>1, <2>2, <2>3 DEF e2
<1> HIDE DEF A, Keep
<1> DEFINE X == Seq(A)
           n == Len(box)
           Defines(f) == f = [U \in SUBSET (1..n) |->
                                IF U = {} THEN <<>>
                                ELSE Keep(f[U \ {Max(U)}], box[Max(U)])]
           iter == CHOOSE f : Defines(f)
           step == [p \in (1..n) \X X |-> Keep(p[2], box[p[1]])]
<1>1. n \in Nat /\ DOMAIN box = 1..n
  BY <1>box
<1>2. StillLate(box) = iter[1..n]
  <2>1. StillLate(box) =
          (CHOOSE f : f = [U \in SUBSET (DOMAIN box) |->
                             IF U = {} THEN <<>>
                             ELSE Keep(f[U \ {Max(U)}], box[Max(U)])])[DOMAIN box]
    BY Zenon DEF StillLate, Keep, FoldLeft, MapThenFoldSet
  <2> QED
    BY <1>1, <2>1
<1> HIDE DEF n
<1>3. ASSUME NEW k \in 1..n, NEW x \in X PROVE Keep(x, box[k]) \in X
  <2>1. box[k] \in A
    BY <1>1, <1>box
  <2> QED
    BY <1>type, <2>1
<1>4. <<>> \in X
  OBVIOUS
<1> HIDE DEF X
<1>5. step \in [(1..n) \X X -> X]
  BY <1>3
<1>6. \E f : Defines(f)
  <2> HIDE DEF step
  <2>1. PICK g \in [SUBSET (1..n) -> X] : ByMax(g, n, <<>>, step)
    BY <1>1, <1>4, <1>5, LeftFoldExists, Zenon
  <2>2. ASSUME NEW U \in SUBSET (1..n), U # {}
        PROVE  g[U] = Keep(g[U \ {Max(U)}], box[Max(U)])
    <3>1. Max(U) \in 1..n /\ g[U \ {Max(U)}] \in X
      BY <1>1, <2>2, LastOfPrefix
    <3>2. g[U] = step[<<Max(U), g[U \ {Max(U)}]>>]
      BY <2>1, <2>2 DEF ByMax
    <3> QED
      BY <3>1, <3>2 DEF step
  <2>3. g[{}] = <<>>
    BY <2>1 DEF ByMax
  <2> QED
    BY <2>2, <2>3
<1>7. Defines(iter)
  <2> HIDE DEF Defines
  <2> QED
    BY <1>6
<1> HIDE DEF iter
<1>8. ASSUME NEW U \in SUBSET (1..n), U # {}, iter[U \ {Max(U)}] \in X
      PROVE  iter[U] = step[<<Max(U), iter[U \ {Max(U)}]>>]
  <2>1. Max(U) \in 1..n
    BY <1>1, <1>8, LastOfPrefix
  <2>2. iter[U] = Keep(iter[U \ {Max(U)}], box[Max(U)])
    BY <1>7, <1>8
  <2> QED
    BY <1>8, <2>1, <2>2
<1>9. FoldsFrom(iter, n, X, <<>>, step)
  BY <1>7, <1>8 DEF FoldsFrom
<1>10. PICK g \in [0..n -> X] : ByPrefix(g, n, <<>>, step) /\ g[n] = iter[1..n]
  <2> HIDE DEF step, Defines
  <2>1. FoldsInOrder(iter, n, X, <<>>, step)
    BY <1>1, <1>4, <1>5, <1>9, FoldByPrefix
  <2> QED
    BY <2>1 DEF FoldsInOrder
<1>11. ASSUME NEW k \in 1..n PROVE g[k] = Keep(g[k - 1], box[k]) /\ g[k - 1] \in X
  <2>1. k \in 0..n /\ k # 0 /\ k - 1 \in 0..n
    BY <1>1
  <2>2. g[k] = step[<<k, g[k - 1]>>] /\ g[k - 1] \in X
    BY <1>10, <2>1 DEF ByPrefix
  <2> QED
    BY <2>2
<1> HIDE DEF step, Defines
<1> DEFINE Good == {k \in 0..n : \A ty \in Topics :
                                   Cardinality(OfTopic(g[k], ty)) <= Cardinality(FirstOf(box, k, ty))}
<1>13. 0 \in Good
  <2>0. 0 \in 0..n
    BY <1>1
  <2>1. 0 \in 0..n /\ g[0] = <<>>
    BY <1>10, <2>0, Zenon DEF ByPrefix
  <2>2. \A ty : OfTopic(g[0], ty) = {} /\ FirstOf(box, 0, ty) = {}
    BY <2>1 DEF OfTopic, FirstOf
  <2>3. Cardinality({}) <= Cardinality({})
    BY FS_EmptySet
  <2> QED
    BY <2>1, <2>2, <2>3
<1>14. ASSUME NEW k \in 1..n, k - 1 \in Good PROVE k \in Good
  <2>1. k \in 0..n /\ k - 1 \in 0..n
    BY <1>1
  <2>nat. k \in Nat /\ k - 1 \in Nat
    BY <1>1
  <2>2. ASSUME NEW ty \in Topics
        PROVE  Cardinality(OfTopic(g[k], ty)) <= Cardinality(FirstOf(box, k, ty))
    <3> DEFINE one == IF box[k].msg.type = ty THEN 1 ELSE 0
    <3>1. /\ g[k - 1] \in Seq(A) /\ g[k] \in Seq(A) /\ box[k] \in A
      BY <1>1, <1>11, <1>box, <2>1 DEF X
    <3>2. Cardinality(OfTopic(g[k], ty)) <= Cardinality(OfTopic(g[k - 1], ty)) + one
      BY <1>11, <1>size, <3>1
    <3>3. Cardinality(OfTopic(g[k - 1], ty)) <= Cardinality(FirstOf(box, k - 1, ty))
      BY <1>14
    <3>4. Cardinality(FirstOf(box, k, ty)) = Cardinality(FirstOf(box, k - 1, ty)) + one
      <4>1. FirstOf(box, k, ty) = IF box[k].msg.type = ty THEN FirstOf(box, k - 1, ty) \cup {k}
                           ELSE FirstOf(box, k - 1, ty)
        BY <1>1 DEF FirstOf
      <4>2. /\ IsFiniteSet(FirstOf(box, k - 1, ty)) /\ Cardinality(FirstOf(box, k - 1, ty)) \in Nat
            /\ (k - 1) + 1 \notin FirstOf(box, k - 1, ty)
        BY <2>nat, FirstOfTopic, Zenon
      <4>5. (k - 1) + 1 = k
        BY <2>1
      <4>3. Cardinality(FirstOf(box, k - 1, ty) \cup {k}) = Cardinality(FirstOf(box, k - 1, ty)) + 1
        BY <4>2, <4>5, FS_AddElement
      <4> QED
        BY <4>1, <4>2, <4>3
    <3>5. /\ Cardinality(OfTopic(g[k], ty)) \in Nat /\ Cardinality(OfTopic(g[k - 1], ty)) \in Nat
      BY <3>1, OfTopicFinite
    <3>6. Cardinality(FirstOf(box, k - 1, ty)) \in Nat /\ Cardinality(FirstOf(box, k, ty)) \in Nat
      BY <2>nat, FirstOfTopic, Zenon
    <3>7. one \in Nat
      OBVIOUS
    <3> HIDE DEF one
    <3> QED
      BY <3>2, <3>3, <3>4, <3>5, <3>6, <3>7
  <2> QED
    BY <2>1, <2>2
<1>15. n \in Good
  <2> HIDE DEF Good
  <2>1. \A k \in 0..n : k \in Good
    BY <1>1, <1>13, <1>14, PrefixInduction, Zenon
  <2> QED
    BY <1>1, <2>1
<1>16. g[n] \in Seq(A)
  BY <1>1 DEF X
<1>17. WithinDepth(g[n])
  <2> SUFFICES ASSUME NEW ty \in Topics PROVE Cardinality(OfTopic(g[n], ty)) <= TopicDepth(ty)
    BY DEF WithinDepth
  <2>1. FirstOf(box, n, ty) = OfTopic(box, ty)
    BY <1>1 DEF OfTopic, FirstOf
  <2>2. Cardinality(OfTopic(g[n], ty)) <= Cardinality(FirstOf(box, n, ty))
    BY <1>15
  <2>3. Cardinality(OfTopic(box, ty)) <= TopicDepth(ty)
    BY <1>box DEF WithinDepth
  <2>4. Cardinality(OfTopic(g[n], ty)) \in Nat /\ Cardinality(OfTopic(box, ty)) \in Nat
    BY <1>16, <1>box, OfTopicFinite
  <2>5. TopicDepth(ty) \in Nat
    BY DepthType
  <2> QED
    BY <2>1, <2>2, <2>3, <2>4, <2>5
<1> QED
  BY <1>2, <1>10, <1>16, <1>17 DEF Boxes, A

\* Parcels that are late all the same are the parcels they were.
LEMMA DelayedResult ==
  ASSUME NEW known, NEW done, NEW box \in Boxes(known, done), NEW i \in DOMAIN box
  PROVE  [j \in DOMAIN box |->
            IF j >= i /\ box[j].from = box[i].from /\ box[j].msg.type = box[i].msg.type
            THEN [box[j] EXCEPT !.late = TRUE]
            ELSE box[j]] \in Boxes(known, done)
<1> DEFINE A == Parcels(known, done)
           w == [j \in DOMAIN box |->
                   IF j >= i /\ box[j].from = box[i].from /\ box[j].msg.type = box[i].msg.type
                   THEN [box[j] EXCEPT !.late = TRUE]
                   ELSE box[j]]
<1>1. box \in Seq(A) /\ WithinDepth(box) /\ DOMAIN box = 1..Len(box)
  BY DEF Boxes
<1>2. ASSUME NEW j \in DOMAIN box PROVE w[j] \in A /\ w[j].msg = box[j].msg
  <2>1. box[j] \in A
    BY <1>1
  <2>2. [box[j] EXCEPT !.late = TRUE] \in A /\ [box[j] EXCEPT !.late = TRUE].msg = box[j].msg
    BY <2>1 DEF Parcels
  <2> QED
    BY <2>1, <2>2
<1>3. DOMAIN w = DOMAIN box
  OBVIOUS
<1>4. w \in [1..Len(box) -> A]
  <2>1. w \in [DOMAIN box -> A]
    BY <1>2
  <2> QED
    BY <1>1, <2>1
<1> HIDE DEF w, A
<1>5. w \in Seq(A)
  BY <1>1, <1>4
<1>6. \A ty : OfTopic(w, ty) = OfTopic(box, ty)
  BY <1>2, <1>3 DEF OfTopic
<1>7. WithinDepth(w)
  BY <1>1, <1>6 DEF WithinDepth
<1> QED
  BY <1>5, <1>7 DEF Boxes, w, A

LEMMA RemovedResult ==
  ASSUME NEW known, NEW done, NEW box \in Boxes(known, done), NEW i \in DOMAIN box
  PROVE  RemoveAt(box, i) \in Boxes(known, done)
<1> DEFINE A == Parcels(known, done)
           w == RemoveAt(box, i)
<1>1. box \in Seq(A) /\ WithinDepth(box)
  BY DEF Boxes
<1>2. w \in Seq(A)
  BY <1>1, RemovedOfTopic
<1>3. ASSUME NEW ty \in Topics PROVE Cardinality(OfTopic(w, ty)) <= TopicDepth(ty)
  <2> DEFINE S == OfTopic(box, ty)
             T == OfTopic(w, ty)
  <2>1. Cardinality(T) <= Cardinality(S \ {i})
    BY <1>1, RemovedOfTopic
  <2>2. IsFiniteSet(S) /\ Cardinality(S) \in Nat /\ Cardinality(T) \in Nat
    BY <1>1, <1>2, OfTopicFinite
  <2>3. Cardinality(S \ {i}) = IF i \in S THEN Cardinality(S) - 1 ELSE Cardinality(S)
    BY <2>2, FS_RemoveElement
  <2>4. Cardinality(S) <= TopicDepth(ty) /\ TopicDepth(ty) \in Nat
    BY <1>1, DepthType DEF WithinDepth
  <2> HIDE DEF S, T
  <2>5. Cardinality(T) <= TopicDepth(ty)
    BY <2>1, <2>2, <2>3, <2>4
  <2> QED
    BY <2>5 DEF T
<1> HIDE DEF w, A
<1> QED
  BY <1>2, <1>3 DEF Boxes, WithinDepth, w, A

LEMMA EmptyBox ==
  ASSUME NEW known, NEW done
  PROVE  <<>> \in Boxes(known, done)
<1>1. \A ty : OfTopic(<<>>, ty) = {}
  BY DEF OfTopic
<1>2. WithinDepth(<<>>)
  <2>1. Cardinality({}) = 0
    BY FS_EmptySet
  <2>2. \A ty : 0 <= TopicDepth(ty)
    BY DepthType
  <2>3. \A ty : Cardinality(OfTopic(<<>>, ty)) = 0
    BY <1>1, <2>1
  <2> QED
    BY <2>2, <2>3 DEF WithinDepth
<1> QED
  BY <1>2 DEF Boxes

\* What a new subscription finds: the latched array.
LEMMA FreshBox ==
  ASSUME NEW known, NEW done, NEW tasks \in SUBSET known, Closed(Mission) => Closed(tasks)
  PROVE  Enqueue(<<>>, MissionTopic, ArrayMsg(tasks)) \in Boxes(known, done)
<1>3. <<>> \in Boxes(known, done)
  BY EmptyBox
<1>4. ArrayMsg(tasks) \in Messages(known, done)
  BY DEF ArrayMsg, Arrays, Messages
<1> QED
  BY <1>3, <1>4, EnqueueResult

-----------------------------------------------------------------------------
(* What a node receives *)

\* One parcel: late, or a callback.
TakenUp(r, node, e, at) == IF e.late THEN node ELSE Callback(r, node, e.msg, at)

LEMMA TakenUpResult ==
  ASSUME NEW known, NEW done, HistoryOK(known, done), NEW r \in Robot,
         NEW node \in NodeStates(known, done), NEW e \in Parcels(known, done), NEW at \in Nat
  PROVE  TakenUp(r, node, e, at) \in NodeStates(known, done)
<1>1. e.msg \in Messages(known, done)
  BY DEF Parcels
<1>2. CASE e.msg.type = "tasks"
  <2>1. e.msg.tasks \in SUBSET known
    BY <1>1, <1>2, TopicOf DEF Arrays
  <2> QED
    BY <1>2, <2>1, OnTaskArrayResult DEF TakenUp, Callback
<1>3. CASE e.msg.type # "tasks"
  <2>1. e.msg \in Reports(known, done)
    BY <1>1, <1>3, TopicOf DEF Reports
  <2> QED
    BY <1>3, <2>1, HandleMsgResult DEF TakenUp, Callback
<1> QED
  BY <1>2, <1>3

\* What every callback keeps is kept by all of them.
LEMMA DrainedStays ==
  ASSUME NEW X, NEW P, NEW r, NEW node \in X, NEW box \in Seq(P), NEW at,
         \A e \in P, x \in X : TakenUp(r, x, e, at) \in X
  PROVE  Drained(r, node, box, at) \in X
<1> DEFINE n == Len(box)
           Defines(f) == f = [U \in SUBSET (1..n) |->
                                IF U = {} THEN node
                                ELSE TakenUp(r, f[U \ {Max(U)}], box[Max(U)], at)]
           iter == CHOOSE f : Defines(f)
           step == [p \in (1..n) \X X |-> TakenUp(r, p[2], box[p[1]], at)]
<1>1. n \in Nat /\ DOMAIN box = 1..n
  OBVIOUS
<1>2. Drained(r, node, box, at) = iter[1..n]
  <2>1. Drained(r, node, box, at) =
          (CHOOSE f : f = [U \in SUBSET (DOMAIN box) |->
                             IF U = {} THEN node
                             ELSE TakenUp(r, f[U \ {Max(U)}], box[Max(U)], at)])[DOMAIN box]
    BY Zenon DEF Drained, TakenUp, FoldLeft, MapThenFoldSet
  <2> QED
    BY <1>1, <2>1
<1> HIDE DEF n
<1>3. ASSUME NEW k \in 1..n, NEW x \in X PROVE TakenUp(r, x, box[k], at) \in X
  <2>1. box[k] \in P
    BY <1>1
  <2> QED
    BY <2>1
<1>4. node \in X
  OBVIOUS
<1>5. step \in [(1..n) \X X -> X]
  BY <1>3
<1>6. \E f : Defines(f)
  <2> HIDE DEF step
  <2>1. PICK g \in [SUBSET (1..n) -> X] : ByMax(g, n, node, step)
    BY <1>1, <1>4, <1>5, LeftFoldExists, Zenon
  <2>2. ASSUME NEW U \in SUBSET (1..n), U # {}
        PROVE  g[U] = TakenUp(r, g[U \ {Max(U)}], box[Max(U)], at)
    <3>1. Max(U) \in 1..n /\ g[U \ {Max(U)}] \in X
      BY <1>1, <2>2, LastOfPrefix
    <3>2. g[U] = step[<<Max(U), g[U \ {Max(U)}]>>]
      BY <2>1, <2>2 DEF ByMax
    <3> QED
      BY <3>1, <3>2 DEF step
  <2>3. g[{}] = node
    BY <2>1 DEF ByMax
  <2> QED
    BY <2>2, <2>3
<1>7. Defines(iter)
  <2> HIDE DEF Defines
  <2> QED
    BY <1>6
<1> HIDE DEF iter
<1>8. ASSUME NEW U \in SUBSET (1..n), U # {}, iter[U \ {Max(U)}] \in X
      PROVE  iter[U] = step[<<Max(U), iter[U \ {Max(U)}]>>]
  <2>1. Max(U) \in 1..n
    BY <1>1, <1>8, LastOfPrefix
  <2>2. iter[U] = TakenUp(r, iter[U \ {Max(U)}], box[Max(U)], at)
    BY <1>7, <1>8
  <2> QED
    BY <1>8, <2>1, <2>2
<1>9. FoldsFrom(iter, n, X, node, step)
  BY <1>7, <1>8 DEF FoldsFrom
<1>10. iter[1..n] \in X
  <2> HIDE DEF step, Defines
  <2>1. FoldsInOrder(iter, n, X, node, step)
    BY <1>1, <1>4, <1>5, <1>9, FoldByPrefix
  <2> QED
    BY <1>1, <2>1 DEF FoldsInOrder
<1> QED
  BY <1>2, <1>10

LEMMA DrainedResult ==
  ASSUME NEW known, NEW done, HistoryOK(known, done), NEW r \in Robot,
         NEW node \in NodeStates(known, done), NEW box \in Boxes(known, done), NEW at \in Nat
  PROVE  Drained(r, node, box, at) \in NodeStates(known, done)
<1>1. box \in Seq(Parcels(known, done))
  BY DEF Boxes
<1>2. \A e \in Parcels(known, done), x \in NodeStates(known, done) :
        TakenUp(r, x, e, at) \in NodeStates(known, done)
  BY TakenUpResult
<1> QED
  BY <1>1, <1>2, DrainedStays


\* Nothing is lost by a callback, and what it heard is heeded.
LEMMA TakenUpHeeds ==
  ASSUME NEW known, NEW done, HistoryOK(known, done), NEW r \in Robot,
         NEW node \in NodeStates(known, done), NEW e \in Parcels(known, done), NEW at \in Nat
  PROVE  /\ Later(node.p, TakenUp(r, node, e, at).p)
         /\ ~ e.late /\ e.msg.type # "tasks" => Heeded(r, TakenUp(r, node, e, at).p, e.msg, at)
<1>1. e.msg \in Messages(known, done) /\ node.p \in Members(known, done)
  BY DEF Parcels, NodeStates
<1>2. CASE e.late
  <2>1. Later(node.p, node.p)
    BY <1>1, SameIsLater DEF SameNews
  <2> QED
    BY <1>2, <2>1 DEF TakenUp
<1>3. CASE ~ e.late /\ e.msg.type = "tasks"
  <2> DEFINE q == Taught(r, node.p, e.msg.tasks \ node.p.tasks, at)
  <2>1. e.msg.tasks \in SUBSET known
    BY <1>1, <1>3, TopicOf DEF Arrays
  <2>2. Later(node.p, q)
    BY <1>1, <2>1, TaughtResult
  <2>3. TakenUp(r, node, e, at) = [node EXCEPT !.p = q]
    BY <1>3 DEF TakenUp, Callback, OnTaskArray, Taught
  <2> HIDE DEF q
  <2>4. TakenUp(r, node, e, at).p = q
    BY <2>3 DEF NodeStates
  <2> QED
    BY <1>3, <2>2, <2>4
<1>4. CASE ~ e.late /\ e.msg.type # "tasks"
  <2> DEFINE q == Handle(r, node.p, e.msg, at)
  <2>1. e.msg \in Reports(known, done)
    BY <1>1, <1>4, TopicOf DEF Reports
  <2>2. Heeds(r, node.p, q, e.msg, at)
    BY <1>1, <2>1, HandleHeeds
  <2>3. TakenUp(r, node, e, at) = [node EXCEPT !.p = q]
    BY <1>4 DEF TakenUp, Callback, HandleMsg
  <2> HIDE DEF q
  <2>4. TakenUp(r, node, e, at).p = q
    BY <2>3 DEF NodeStates
  <2> QED
    BY <2>2, <2>4 DEF Heeds
<1> QED
  BY <1>2, <1>3, <1>4

\* Once a box is drained, all that was in it is heeded.
LEMMA DrainedHeeds ==
  ASSUME NEW known, NEW done, HistoryOK(known, done), NEW r \in Robot,
         NEW node \in NodeStates(known, done), NEW box \in Boxes(known, done), NEW at \in Nat,
         NEW i \in DOMAIN box, ~ box[i].late, box[i].msg.type # "tasks"
  PROVE  Heeded(r, Drained(r, node, box, at).p, box[i].msg, at)
<1>box. box \in Seq(Parcels(known, done))
  BY DEF Boxes
<1> DEFINE X == NodeStates(known, done)
           n == Len(box)
           Defines(f) == f = [U \in SUBSET (1..n) |->
                                IF U = {} THEN node
                                ELSE TakenUp(r, f[U \ {Max(U)}], box[Max(U)], at)]
           iter == CHOOSE f : Defines(f)
           step == [p \in (1..n) \X X |-> TakenUp(r, p[2], box[p[1]], at)]
<1>1. n \in Nat /\ DOMAIN box = 1..n
  BY <1>box
<1>2. Drained(r, node, box, at) = iter[1..n]
  <2>1. Drained(r, node, box, at) =
          (CHOOSE f : f = [U \in SUBSET (DOMAIN box) |->
                             IF U = {} THEN node
                             ELSE TakenUp(r, f[U \ {Max(U)}], box[Max(U)], at)])[DOMAIN box]
    BY Zenon DEF Drained, TakenUp, FoldLeft, MapThenFoldSet
  <2> QED
    BY <1>1, <2>1
<1> HIDE DEF n
<1>3. ASSUME NEW k \in 1..n, NEW x \in X PROVE TakenUp(r, x, box[k], at) \in X
  <2>1. box[k] \in Parcels(known, done)
    BY <1>1, <1>box
  <2> QED
    BY <2>1, TakenUpResult
<1>4. node \in X
  OBVIOUS
<1> HIDE DEF X
<1>5. step \in [(1..n) \X X -> X]
  BY <1>3
<1>6. \E f : Defines(f)
  <2> HIDE DEF step
  <2>1. PICK g \in [SUBSET (1..n) -> X] : ByMax(g, n, node, step)
    BY <1>1, <1>4, <1>5, LeftFoldExists, Zenon
  <2>2. ASSUME NEW U \in SUBSET (1..n), U # {}
        PROVE  g[U] = TakenUp(r, g[U \ {Max(U)}], box[Max(U)], at)
    <3>1. Max(U) \in 1..n /\ g[U \ {Max(U)}] \in X
      BY <1>1, <2>2, LastOfPrefix
    <3>2. g[U] = step[<<Max(U), g[U \ {Max(U)}]>>]
      BY <2>1, <2>2 DEF ByMax
    <3> QED
      BY <3>1, <3>2 DEF step
  <2>3. g[{}] = node
    BY <2>1 DEF ByMax
  <2> QED
    BY <2>2, <2>3
<1>7. Defines(iter)
  <2> HIDE DEF Defines
  <2> QED
    BY <1>6
<1> HIDE DEF iter
<1>8. ASSUME NEW U \in SUBSET (1..n), U # {}, iter[U \ {Max(U)}] \in X
      PROVE  iter[U] = step[<<Max(U), iter[U \ {Max(U)}]>>]
  <2>1. Max(U) \in 1..n
    BY <1>1, <1>8, LastOfPrefix
  <2>2. iter[U] = TakenUp(r, iter[U \ {Max(U)}], box[Max(U)], at)
    BY <1>7, <1>8
  <2> QED
    BY <1>8, <2>1, <2>2
<1>9. FoldsFrom(iter, n, X, node, step)
  BY <1>7, <1>8 DEF FoldsFrom
<1>10. PICK g \in [0..n -> X] : ByPrefix(g, n, node, step) /\ g[n] = iter[1..n]
  <2> HIDE DEF step, Defines
  <2>1. FoldsInOrder(iter, n, X, node, step)
    BY <1>1, <1>4, <1>5, <1>9, FoldByPrefix
  <2> QED
    BY <2>1 DEF FoldsInOrder
<1>11. ASSUME NEW k \in 1..n
       PROVE  g[k] = TakenUp(r, g[k - 1], box[k], at) /\ g[k - 1] \in X /\ g[k] \in X
  <2>1. k \in 0..n /\ k # 0 /\ k - 1 \in 0..n
    BY <1>1
  <2>2. g[k] = step[<<k, g[k - 1]>>] /\ g[k - 1] \in X /\ g[k] \in X
    BY <1>10, <2>1 DEF ByPrefix
  <2> QED
    BY <2>2
<1> HIDE DEF step, Defines
<1> DEFINE Heard(j) == ~ box[j].late /\ box[j].msg.type # "tasks"
           Good == {k \in 0..n : \A j \in 1..k : Heard(j) => Heeded(r, g[k].p, box[j].msg, at)}
<1>12. 0 \in Good
  BY <1>1
<1>13. ASSUME NEW k \in 1..n, k - 1 \in Good PROVE k \in Good
  <2>1. k \in 0..n /\ 1..k = 1..(k - 1) \cup {k} /\ \A j \in 1..k : j \in DOMAIN box
    BY <1>1
  <2>2. /\ g[k - 1] \in NodeStates(known, done) /\ g[k] \in NodeStates(known, done)
        /\ box[k] \in Parcels(known, done) /\ g[k] = TakenUp(r, g[k - 1], box[k], at)
    BY <1>11, <1>box, <2>1 DEF X
  <2>3. g[k - 1].p \in Members(known, done) /\ g[k].p \in Members(known, done)
    BY <2>2 DEF NodeStates
  <2>4. /\ Later(g[k - 1].p, g[k].p)
        /\ Heard(k) => Heeded(r, g[k].p, box[k].msg, at)
    BY <2>2, TakenUpHeeds
  <2>5. ASSUME NEW j \in 1..(k - 1), Heard(j) PROVE Heeded(r, g[k].p, box[j].msg, at)
    <3>1. Heeded(r, g[k - 1].p, box[j].msg, at)
      BY <1>13, <2>5
    <3>2. box[j].msg \in Reports(known, done)
      <4>1. j \in DOMAIN box
        BY <2>1
      <4>2. box[j] \in Parcels(known, done)
        BY <1>box, <4>1
      <4>3. box[j].msg \in Messages(known, done)
        BY <4>2 DEF Parcels
      <4> QED
        BY <2>5, <4>3, TopicOf DEF Reports
    <3> QED
      BY <2>3, <2>4, <3>1, <3>2, HeededRemains
  <2> HIDE DEF Heard
  <2>6. \A j \in 1..k : Heard(j) => Heeded(r, g[k].p, box[j].msg, at)
    BY <2>1, <2>4, <2>5
  <2> QED
    BY <2>1, <2>6
<1>14. n \in Good
  <2> HIDE DEF Good
  <2>1. \A k \in 0..n : k \in Good
    BY <1>1, <1>12, <1>13, PrefixInduction, Zenon
  <2> QED
    BY <1>1, <2>1
<1>15. Heard(i) /\ i \in 1..n
  BY <1>1
<1>16. Heeded(r, g[n].p, box[i].msg, at)
  BY <1>14, <1>15
<1> QED
  BY <1>2, <1>10, <1>16

-----------------------------------------------------------------------------
(* The inductive invariant *)

\* What was executed, by whom.
Done == {<<f.task, f.robot>> : f \in finished}

Nodes == NodeStates(latched, Done)
Inboxes == Boxes(latched, Done)

Clockwork ==
  /\ asleep \in [Robot -> Nat] /\ now \in 0..MaxTime
  /\ order \in Phases /\ turn \in DOMAIN order
  /\ stage \in {"receive", "tick", "rest"}

\* Every process is sound, and so is what it will hear of.
Hosts ==
  /\ Running \subseteq Robot /\ nodes \in [Running -> Nodes]
  /\ inbox \in [Robot -> Inboxes]
  /\ \A r \in Robot \ Running : inbox[r] = <<>>

FleetInv ==
  /\ Clockwork /\ Hosts
  /\ Mission \subseteq latched /\ latched \subseteq RealTask
  /\ Closed(Mission) => Closed(latched)
  /\ Done \subseteq RealTask \X Robot

LEMMA Bounds ==
  {MaxFaults, MaxLaunches, StallLength, CutLength, FaultsUntil, Patience, MaxTime} \subseteq Nat
BY DeploymentAssumption DEF DeploymentAssumption

\* The robot whose turn it is.
LEMMA TurnOf ==
  ASSUME order \in Phases, turn \in DOMAIN order
  PROVE  /\ Current \in Robot
         /\ Len(order) \in Nat /\ turn \in 1..Len(order) /\ DOMAIN order = 1..Len(order)
<1>1. order \in Seq(Robot)
  BY DeploymentAssumption DEF DeploymentAssumption
<1> QED
  BY <1>1 DEF Current

LEMMA FirstTurn ==
  ASSUME NEW o \in Phases
  PROVE  1 \in DOMAIN o
<1>1. o \in Seq(Robot) /\ ToSet(o) = Robot /\ Robot # {}
  BY DeploymentAssumption, FleetAssumption DEF DeploymentAssumption, FleetAssumption
<1>2. PICK i \in DOMAIN o : TRUE
  BY <1>1 DEF ToSet
<1> QED
  BY <1>1, <1>2

LEMMA FleetHistory ==
  ASSUME FleetInv
  PROVE  /\ HistoryOK(latched, Done) /\ now \in Nat
         /\ Current \in Robot
<1>1. HistoryOK(latched, Done) /\ now \in Nat
  BY Bounds DEF FleetInv, Clockwork, HistoryOK
<1> QED
  BY <1>1, TurnOf DEF FleetInv, Clockwork

\* As more is known and done, nodes and inboxes remain sound.
LEMMA StillSoundFleet ==
  ASSUME latched \subseteq latched', Done \subseteq Done'
  PROVE  Nodes \subseteq Nodes' /\ Inboxes \subseteq Inboxes'
BY MoreNodes, MoreBoxes DEF Nodes, Inboxes

\* What a callback returns, if it does not raise, is sound.
SoundCallback(known, done, res) ==
  /\ res.raised \in BOOLEAN /\ (~ res.raised => res.node \in NodeStates(known, done))
  /\ res.out \in Seq(Spoken(known, done))

\* A callback of the robot whose turn it is, and what it leads to.
LEMMA CameToResult ==
  ASSUME FleetInv, Current \in Running, NEW res, CameTo(res),
         latched' = latched, Done \subseteq Done',
         SoundCallback(latched', Done', res)
  PROVE  Hosts'
<1> DEFINE r == Current
           sent == Published(inbox, Running, r, res.out)
<1>1. r \in Robot /\ r \in Running /\ Running \subseteq Robot /\ nodes \in [Running -> Nodes]
  BY FleetHistory DEF FleetInv, Hosts
<1>2. Nodes \subseteq Nodes' /\ Inboxes \subseteq Inboxes'
  BY StillSoundFleet
<1>call. /\ res.raised \in BOOLEAN /\ (~ res.raised => res.node \in Nodes')
         /\ res.out \in Seq(Spoken(latched', Done'))
  BY DEF SoundCallback, Nodes
<1>3. sent \in [Robot -> Inboxes'] /\ \A s \in Robot \ Running : sent[s] = <<>>
  <2>1. inbox \in [Robot -> Inboxes]
    BY DEF FleetInv, Hosts
  <2>2. inbox \in [Robot -> Boxes(latched', Done')]
    BY <1>2, <2>1 DEF Inboxes
  <2>3. res.out \in Seq(Messages(latched', Done'))
    BY <1>call DEF Messages
  <2>4. /\ sent \in [Robot -> Boxes(latched', Done')]
        /\ \A s \in Robot \ Running : sent[s] = inbox[s]
    <3>1. r \in Robot \cup {MissionTopic}
      BY <1>1
    <3>2. CameIn(latched', Done', inbox, Running, r, res.out)
      BY <2>2, <2>3, <3>1, PublishedResult, Zenon
    <3> QED
      BY <3>2 DEF CameIn
  <2> HIDE DEF sent
  <2>5. sent \in [Robot -> Inboxes']
    BY <2>4 DEF Inboxes
  <2>6. \A s \in Robot \ Running : inbox[s] = <<>>
    BY DEF FleetInv, Hosts
  <2> QED
    BY <2>4, <2>5, <2>6
<1>4. <<>> \in Inboxes'
  BY EmptyBox DEF Inboxes
<1> HIDE DEF sent
<1>5. CASE res.raised
  <2>1. nodes' = [s \in Running \ {r} |-> nodes[s]]
    BY <1>5 DEF CameTo, Without, Restrict
  <2>2. inbox' = [sent EXCEPT ![r] = <<>>]
    BY <1>5 DEF CameTo, sent
  <2>3. Running' = Running \ {r} /\ nodes' \in [Running' -> Nodes']
    BY <1>1, <1>2, <2>1 DEF Running
  <2>4. inbox' \in [Robot -> Inboxes']
    BY <1>3, <1>4, <2>2
  <2>5. \A s \in Robot \ Running' : inbox'[s] = <<>>
    BY <1>3, <2>2, <2>3
  <2> QED
    BY <1>1, <2>3, <2>4, <2>5 DEF Hosts
<1>6. CASE ~ res.raised
  <2>1. nodes' = [nodes EXCEPT ![r] = res.node]
    BY <1>6 DEF CameTo
  <2>2. inbox' = sent
    BY <1>6 DEF CameTo, sent
  <2>3. Running' = Running
    BY <1>1, <2>1 DEF Running
  <2>4. nodes' \in [Running' -> Nodes']
    <3>1. res.node \in Nodes'
      BY <1>6, <1>call, Zenon
    <3>2. nodes \in [Running -> Nodes']
      BY <1>1, <1>2
    <3> HIDE DEF r
    <3> QED
      BY <2>1, <2>3, <3>1, <3>2
  <2> QED
    BY <1>1, <1>3, <2>2, <2>3, <2>4 DEF Hosts
<1> QED
  BY <1>5, <1>6


-----------------------------------------------------------------------------
(* The steps *)

LEMMA InitFleet == Init => FleetInv
<1> SUFFICES ASSUME Init PROVE FleetInv
  OBVIOUS
<1>1. Clockwork
  BY Bounds, FirstTurn DEF Init, Clockwork
<1>2. Done = {} /\ latched = Mission /\ Mission \subseteq RealTask
  BY DEF Init, Done, RealTask
<1>3. Running = Robot /\ nodes \in [Robot -> Nodes]
  <2>1. \A r \in Robot : NewNode(Home[r], RealTask, Robot) \in Nodes
    BY NewNodeResult DEF Nodes
  <2> QED
    BY <2>1 DEF Init, Running
<1>4. inbox \in [Robot -> Inboxes]
  <2>1. Enqueue(<<>>, MissionTopic, ArrayMsg(Mission)) \in Inboxes
    BY <1>2, FreshBox DEF Inboxes
  <2> QED
    BY <2>1 DEF Init
<1>5. Hosts
  BY <1>3, <1>4 DEF Hosts
<1> QED
  BY <1>1, <1>2, <1>5 DEF FleetInv

\* Steps that leave the history and the processes alone.
LEMMA SameSets ==
  ASSUME latched' = latched, finished' = finished
  PROVE  Done' = Done /\ Nodes' = Nodes /\ Inboxes' = Inboxes
<1>1. Done' = Done
  BY DEF Done
<1> QED
  BY <1>1 DEF Nodes, Inboxes

LEMMA ReceiveStep ==
  ASSUME FleetInv, Receive
  PROVE  FleetInv'
<1> DEFINE r == Current
           n == Drained(r, nodes[r], inbox[r], now)
           box == StillLate(inbox[r])
<1>1. Done' = Done /\ Nodes' = Nodes /\ Inboxes' = Inboxes
  BY SameSets DEF Receive, record
<1>2. r \in Robot /\ r \in Running /\ nodes \in [Running -> Nodes] /\ inbox \in [Robot -> Inboxes]
  BY FleetHistory DEF Receive, Up, Awake, FleetInv, Hosts
<1>3. n \in Nodes
  BY <1>2, FleetHistory, DrainedResult DEF Nodes, Inboxes
<1>4. box \in Inboxes
  BY <1>2, StillLateResult DEF Inboxes
<1>5. nodes' = [nodes EXCEPT ![r] = n] /\ inbox' = [inbox EXCEPT ![r] = box]
  BY DEF Receive
<1> HIDE DEF n, box
<1>6. Running' = Running /\ nodes' \in [Running -> Nodes] /\ inbox' \in [Robot -> Inboxes]
  BY <1>2, <1>3, <1>4, <1>5 DEF Running
<1>7. \A s \in Robot \ Running : inbox'[s] = <<>>
  BY <1>2, <1>5 DEF FleetInv, Hosts
<1>8. Hosts'
  BY <1>1, <1>6, <1>7 DEF FleetInv, Hosts
<1>9. Clockwork'
  BY DEF FleetInv, Clockwork, Receive, clock
<1> QED
  BY <1>1, <1>8, <1>9 DEF FleetInv, Receive

\* A fault in the box of the robot whose turn it is.
LEMMA BoxStep ==
  ASSUME FleetInv, Up("receive"), NEW box \in Inboxes,
         inbox' = [inbox EXCEPT ![Current] = box],
         UNCHANGED <<nodes, latched, clock, stage, record>>
  PROVE  FleetInv'
<1>1. Done' = Done /\ Nodes' = Nodes /\ Inboxes' = Inboxes
  BY SameSets DEF record
<1>2. Current \in Robot /\ Current \in Running /\ inbox \in [Robot -> Inboxes]
  BY FleetHistory DEF Up, Awake, FleetInv, Hosts
<1>3. Running' = Running
  BY DEF Running
<1>4. inbox' \in [Robot -> Inboxes] /\ \A s \in Robot \ Running : inbox'[s] = <<>>
  BY <1>2 DEF FleetInv, Hosts
<1>5. Hosts'
  BY <1>1, <1>3, <1>4 DEF FleetInv, Hosts
<1>6. Clockwork'
  BY DEF FleetInv, Clockwork, clock
<1> QED
  BY <1>1, <1>5, <1>6 DEF FleetInv

LEMMA LoseStep ==
  ASSUME FleetInv, NEW i \in DOMAIN inbox[Current], Lose(i)
  PROVE  FleetInv'
<1>1. inbox[Current] \in Inboxes
  BY FleetHistory DEF FleetInv, Hosts
<1>2. RemoveAt(inbox[Current], i) \in Inboxes
  BY <1>1, RemovedResult DEF Inboxes
<1>3. /\ Up("receive") /\ inbox' = [inbox EXCEPT ![Current] = RemoveAt(inbox[Current], i)]
      /\ UNCHANGED <<nodes, latched, clock, stage, record>>
  BY DEF Lose
<1> QED
  BY <1>2, <1>3, BoxStep

LEMMA DelayStep ==
  ASSUME FleetInv, NEW i \in DOMAIN inbox[Current], Delay(i)
  PROVE  FleetInv'
<1> DEFINE was == inbox[Current]
           box == [j \in DOMAIN was |->
                     IF j >= i /\ was[j].from = was[i].from /\ was[j].msg.type = was[i].msg.type
                     THEN [was[j] EXCEPT !.late = TRUE]
                     ELSE was[j]]
<1>1. was \in Inboxes
  BY FleetHistory DEF FleetInv, Hosts
<1>2. box \in Inboxes
  <2> HIDE DEF was
  <2>1. i \in DOMAIN was
    BY DEF was
  <2> QED
    BY <1>1, <2>1, DelayedResult DEF Inboxes
<1>3. /\ Up("receive") /\ inbox' = [inbox EXCEPT ![Current] = box]
      /\ UNCHANGED <<nodes, latched, clock, stage, record>>
  BY DEF Delay
<1> HIDE DEF box
<1> QED
  BY <1>2, <1>3, BoxStep

LEMMA TickNodeStep ==
  ASSUME FleetInv, TickNode
  PROVE  FleetInv'
<1> DEFINE r == Current
<1>1. Done' = Done /\ Nodes' = Nodes /\ Inboxes' = Inboxes /\ latched' = latched
  BY SameSets DEF TickNode
<1>2. PICK res \in NodeTick(r, nodes[r], now) : CameTo(res)
  BY DEF TickNode
<1>3. r \in Robot /\ r \in Running /\ nodes[r] \in Nodes
  BY FleetHistory DEF TickNode, Up, Awake, FleetInv, Hosts
<1>4. SoundCallback(latched, Done, res)
  BY <1>3, FleetHistory, NodeTickResult DEF Nodes, SoundCallback
<1>5. Hosts'
  <2>1. SoundCallback(latched', Done', res) /\ Done \subseteq Done'
    BY <1>1, <1>4
  <2> QED
    BY <1>1, <1>2, <1>3, <2>1, CameToResult, Zenon
<1>6. Clockwork'
  BY DEF FleetInv, Clockwork, TickNode, clock
<1> QED
  BY <1>1, <1>5, <1>6 DEF FleetInv

LEMMA FireExecutionStep ==
  ASSUME FleetInv, Current \in Running, NEW tm \in nodes[Current].timers, FireExecution(tm)
  PROVE  FleetInv' /\ finished \subseteq finished'
<1> DEFINE r == Current
           n == nodes[r]
           res == FinishExecution(r, n, tm)
           done2 == Done \cup {<<n.task, r>>}
<1>1. r \in Robot /\ n \in Nodes /\ HistoryOK(latched, Done)
  BY FleetHistory DEF FleetInv, Hosts
<1>2. Finishes(latched, done2, r, n, tm)
  BY <1>1, FinishExecutionResult, Zenon DEF Nodes
<1>3. /\ res.raised = FALSE =>
           /\ n.task \in RealTask
           /\ res.node \in NodeStates(latched, done2)
           /\ res.out \in Seq(Spoken(latched, done2))
      /\ res.raised # FALSE => res.raised = TRUE /\ res.out = <<>>
  BY <1>2 DEF Finishes
<1>4. /\ CameTo(res) /\ latched' = latched /\ UNCHANGED <<clock, stage>>
      /\ \E due : finished' = IF res.raised THEN finished
                              ELSE finished \cup {[task |-> n.task, robot |-> r, at |-> now,
                                                   due |-> due]}
  BY DEF FireExecution
<1> HIDE DEF res, n
<1>5. finished \subseteq finished' /\ Done' = IF res.raised THEN Done ELSE done2
  <2>1. CASE res.raised
    BY <1>4, <2>1 DEF Done
  <2>2. CASE ~ res.raised
    <3>1. PICK due : finished' = finished \cup {[task |-> n.task, robot |-> r, at |-> now,
                                                  due |-> due]}
      BY <1>4, <2>2
    <3> DEFINE f == [task |-> n.task, robot |-> r, at |-> now, due |-> due]
    <3>2. f.task = n.task /\ f.robot = r /\ finished' = finished \cup {f}
      BY <3>1
    <3> HIDE DEF f, r
    <3> QED
      BY <2>2, <3>2 DEF Done
  <2> QED
    BY <2>1, <2>2
<1>6. SoundCallback(latched', Done', res)
  <2>1. CASE res.raised = FALSE
    BY <1>3, <1>4, <1>5, <2>1 DEF SoundCallback
  <2>2. CASE res.raised # FALSE
    <3>1. res.raised = TRUE /\ res.out = <<>>
      BY <1>3, <2>2
    <3>2. <<>> \in Seq(Spoken(latched', Done'))
      OBVIOUS
    <3>3. res.raised \in BOOLEAN /\ res.out \in Seq(Spoken(latched', Done'))
      BY <3>1, <3>2
    <3> QED
      BY <3>1, <3>3, Zenon DEF SoundCallback
  <2> QED
    BY <2>1, <2>2
<1>7. Done \subseteq Done' /\ Done' \subseteq RealTask \X Robot
  BY <1>1, <1>3, <1>5 DEF FleetInv
<1> HIDE DEF done2
<1>8. Hosts'
  BY <1>4, <1>6, <1>7, CameToResult, Zenon
<1>9. Clockwork'
  BY <1>4 DEF FleetInv, Clockwork, clock
<1> QED
  BY <1>4, <1>5, <1>7, <1>8, <1>9 DEF FleetInv


\* The clock after a turn: the next robot's, or the next period.
LEMMA PassResult ==
  ASSUME Clockwork, now < MaxTime, Pass
  PROVE  /\ order' \in Phases /\ turn' \in DOMAIN order' /\ now' \in 0..MaxTime
         /\ stage' \in {"receive", "tick", "rest"}
<1>1. /\ Len(order) \in Nat /\ turn \in 1..Len(order) /\ DOMAIN order = 1..Len(order)
  BY TurnOf DEF Clockwork
<1>2. MaxTime \in Nat /\ now \in 0..MaxTime
  BY Bounds DEF Clockwork
<1>3. order' = order /\ order \in Phases /\ stage' = "receive"
  BY DEF Pass, Clockwork
<1>4. CASE turn < Len(order)
  <2>1. turn' = turn + 1 /\ now' = now
    BY <1>4 DEF Pass
  <2> QED
    BY <1>1, <1>2, <1>3, <1>4, <2>1
<1>5. CASE ~ (turn < Len(order))
  <2>1. turn' = 1 /\ now' = now + 1
    BY <1>5 DEF Pass
  <2> QED
    BY <1>1, <1>2, <1>3, <2>1
<1> QED
  BY <1>4, <1>5

LEMMA EndTurnStep ==
  ASSUME FleetInv, EndTurn
  PROVE  FleetInv'
<1>1. Done' = Done /\ Nodes' = Nodes /\ Inboxes' = Inboxes
  BY SameSets DEF EndTurn, record
<1>2. Clockwork'
  <2>1. now < MaxTime /\ Pass /\ asleep' = asleep
    BY DEF EndTurn, Up
  <2> QED
    BY <2>1, PassResult DEF FleetInv, Clockwork
<1>3. Hosts'
  BY <1>1 DEF EndTurn, FleetInv, Hosts, Running
<1> QED
  BY <1>1, <1>2, <1>3 DEF FleetInv, EndTurn

LEMMA StallStep ==
  ASSUME FleetInv, Stall
  PROVE  FleetInv'
<1>1. Done' = Done /\ Nodes' = Nodes /\ Inboxes' = Inboxes
  BY SameSets DEF Stall, record
<1>2. Clockwork'
  <2>1. /\ now < MaxTime /\ Pass
        /\ asleep' = [asleep EXCEPT ![Current] = now + StallLength]
    BY DEF Stall, Up
  <2>2. now + StallLength \in Nat /\ asleep \in [Robot -> Nat]
    BY Bounds, FleetHistory DEF FleetInv, Clockwork
  <2>3. asleep' \in [Robot -> Nat]
    BY <2>1, <2>2
  <2> QED
    BY <2>1, <2>3, PassResult DEF FleetInv, Clockwork
<1>3. Hosts'
  BY <1>1 DEF Stall, FleetInv, Hosts, Running
<1> QED
  BY <1>1, <1>2, <1>3 DEF FleetInv, Stall

LEMMA CrashStep ==
  ASSUME FleetInv, Crash
  PROVE  FleetInv'
<1> DEFINE r == Current
<1>1. Done' = Done /\ Nodes' = Nodes /\ Inboxes' = Inboxes
  BY SameSets DEF Crash, record
<1>2. r \in Robot /\ Running \subseteq Robot /\ nodes \in [Running -> Nodes]
  BY FleetHistory DEF FleetInv, Hosts
<1>3. nodes' = [s \in Running \ {r} |-> nodes[s]] /\ inbox' = [inbox EXCEPT ![r] = <<>>]
  BY DEF Crash, Without, Restrict
<1>4. Running' = Running \ {r} /\ nodes' \in [Running' -> Nodes]
  BY <1>2, <1>3 DEF Running
<1>5. inbox' \in [Robot -> Inboxes] /\ \A s \in Robot \ Running' : inbox'[s] = <<>>
  <2>1. <<>> \in Inboxes
    BY EmptyBox DEF Inboxes
  <2> QED
    BY <1>2, <1>3, <1>4, <2>1 DEF FleetInv, Hosts
<1>6. Hosts'
  BY <1>1, <1>2, <1>4, <1>5 DEF Hosts
<1>7. Clockwork'
  BY DEF FleetInv, Clockwork, Crash, clock
<1> QED
  BY <1>1, <1>6, <1>7 DEF FleetInv, Crash

LEMMA LaunchStep ==
  ASSUME FleetInv, Launch
  PROVE  FleetInv'
<1> DEFINE r == Current
           box == Enqueue(<<>>, MissionTopic, ArrayMsg(latched))
           new == NewNode(Home[r], RealTask, Robot)
<1>1. Done' = Done /\ Nodes' = Nodes /\ Inboxes' = Inboxes
  BY SameSets DEF Launch, record
<1>2. r \in Robot /\ Running \subseteq Robot /\ nodes \in [Running -> Nodes]
  BY FleetHistory DEF FleetInv, Hosts
<1>3. new \in Nodes /\ box \in Inboxes
  <2>1. new \in Nodes
    BY <1>2, NewNodeResult DEF Nodes
  <2>2. latched \in SUBSET latched /\ (Closed(Mission) => Closed(latched))
    BY DEF FleetInv
  <2>3. box \in Inboxes
    BY <2>2, FreshBox DEF Inboxes
  <2> QED
    BY <2>1, <2>3
<1>4. /\ nodes' = [s \in Running \cup {r} |-> IF s \in Running THEN nodes[s] ELSE new]
      /\ inbox' = [inbox EXCEPT ![r] = box]
  BY DEF Launch
<1> HIDE DEF new, box
<1>5. Running' = Running \cup {r} /\ nodes' \in [Running' -> Nodes]
  BY <1>2, <1>3, <1>4 DEF Running
<1>6. inbox' \in [Robot -> Inboxes] /\ \A s \in Robot \ Running' : inbox'[s] = <<>>
  BY <1>2, <1>3, <1>4, <1>5 DEF FleetInv, Hosts
<1>7. Hosts'
  BY <1>1, <1>2, <1>5, <1>6 DEF Hosts
<1>8. Clockwork'
  BY DEF FleetInv, Clockwork, Launch, clock
<1> QED
  BY <1>1, <1>7, <1>8 DEF FleetInv, Launch

LEMMA InjectStep ==
  ASSUME FleetInv, NEW t \in Injectable, Inject(t)
  PROVE  FleetInv'
<1> DEFINE sent == Published(inbox, Running, MissionTopic, <<ArrayMsg(latched')>>)
<1>1. latched' = latched \cup {t} /\ inbox' = sent
  BY DEF Inject
<1>2. Done' = Done /\ Running' = Running /\ UNCHANGED <<nodes, clock, stage>>
  BY DEF Inject, record, Done, Running
<1>3. Mission \subseteq latched' /\ latched' \subseteq RealTask
  BY <1>1 DEF FleetInv, RealTask
<1>closed. Closed(Mission) => Closed(latched')
  <2>1. Prerequisites[t] \subseteq latched
    BY DEF Inject
  <2> QED
    BY <1>1, <2>1 DEF FleetInv, Closed
<1>4. Nodes \subseteq Nodes' /\ Inboxes \subseteq Inboxes'
  BY <1>1, <1>2, StillSoundFleet
<1>5. /\ sent \in [Robot -> Inboxes']
      /\ \A s \in Robot \ Running : sent[s] = <<>>
  <2>1. inbox \in [Robot -> Boxes(latched', Done')]
    <3>1. inbox \in [Robot -> Inboxes]
      BY DEF FleetInv, Hosts
    <3> QED
      BY <1>4, <3>1 DEF Inboxes
  <2>2. <<ArrayMsg(latched')>> \in Seq(Messages(latched', Done'))
    <3>1. ArrayMsg(latched') \in Messages(latched', Done')
      BY <1>closed DEF ArrayMsg, Arrays, Messages
    <3> QED
      BY <3>1
  <2>3. CameIn(latched', Done', inbox, Running, MissionTopic, <<ArrayMsg(latched')>>)
    <3>1. MissionTopic \in Robot \cup {MissionTopic}
      OBVIOUS
    <3> QED
      BY <2>1, <2>2, <3>1, PublishedResult, Zenon
  <2>4. \A s \in Robot \ Running : inbox[s] = <<>>
    BY DEF FleetInv, Hosts
  <2> QED
    BY <2>3, <2>4 DEF CameIn, Inboxes
<1> HIDE DEF sent
<1>6. nodes' \in [Running' -> Nodes'] /\ Running' \subseteq Robot
  BY <1>2, <1>4 DEF FleetInv, Hosts
<1>7. Hosts'
  BY <1>1, <1>2, <1>5, <1>6 DEF Hosts
<1>8. Clockwork'
  BY <1>2 DEF FleetInv, Clockwork, clock
<1> QED
  BY <1>2, <1>3, <1>closed, <1>7, <1>8 DEF FleetInv

LEMMA CutStep ==
  ASSUME FleetInv, Cut
  PROVE  FleetInv'
<1>1. Done' = Done /\ Nodes' = Nodes /\ Inboxes' = Inboxes
  BY SameSets DEF Cut, record
<1>2. Clockwork'
  BY DEF FleetInv, Clockwork, Cut
<1>3. Hosts'
  BY <1>1 DEF Cut, FleetInv, Hosts, Running
<1> QED
  BY <1>1, <1>2, <1>3 DEF FleetInv, Cut

LEMMA NextKeepsFleet == FleetInv /\ [Next]_vars => FleetInv'
<1> SUFFICES ASSUME FleetInv, [Next]_vars PROVE FleetInv'
  OBVIOUS
<1>1. CASE Receive
  BY <1>1, ReceiveStep
<1>2. CASE \E i \in DOMAIN inbox[Current] : Lose(i) \/ Delay(i)
  BY <1>2, LoseStep, DelayStep
<1>3. CASE TickNode
  BY <1>3, TickNodeStep
<1>4. CASE Current \in Running /\ \E tm \in nodes[Current].timers : FireExecution(tm)
  BY <1>4, FireExecutionStep
<1>5. CASE EndTurn
  BY <1>5, EndTurnStep
<1>6. CASE Stall
  BY <1>6, StallStep
<1>7. CASE Crash
  BY <1>7, CrashStep
<1>8. CASE Launch
  BY <1>8, LaunchStep
<1>9. CASE \E t \in Injectable : Inject(t)
  BY <1>9, InjectStep
<1>10. CASE Cut
  BY <1>10, CutStep
<1>11. CASE UNCHANGED vars
  <2>1. /\ UNCHANGED <<nodes, inbox, latched, stage, finished>>
        /\ UNCHANGED <<now, order, turn, asleep>>
    BY <1>11 DEF vars, clock, record
  <2>2. Done' = Done /\ Nodes' = Nodes /\ Inboxes' = Inboxes
    BY <2>1, SameSets
  <2>3. Clockwork' /\ Hosts'
    BY <2>1, <2>2 DEF FleetInv, Clockwork, Hosts, Running
  <2> QED
    BY <2>1, <2>2, <2>3 DEF FleetInv
<1> QED
  BY <1>1, <1>2, <1>3, <1>4, <1>5, <1>6, <1>7, <1>8, <1>9, <1>10, <1>11 DEF Next

LEMMA FleetInvHolds == Spec => []FleetInv
BY InitFleet, NextKeepsFleet, PTL DEF Spec


-----------------------------------------------------------------------------
(***************************************************************************)
(* The types of the fleet: a replica knows tasks that are latched only, its *)
(* table of leases and completions names robots, a timer that can be        *)
(* cancelled runs, a process that is gone hears nothing, and no topic holds *)
(* more than its history (the subscriptions of agent_node.py, their QoS).   *)
(***************************************************************************)
THEOREM FleetTypes == Spec => []TypeOK
<1>1. FleetInv => TypeOK
  <2> SUFFICES ASSUME FleetInv PROVE TypeOK
    OBVIOUS
  <2>1. ASSUME NEW r \in Running
        PROVE  LET n == nodes[r]
               IN  /\ n.p.tasks \subseteq latched
                   /\ n.p.completed \in [RealTask -> Robot \cup {NoHolder}]
                   /\ n.p.leases \in [RealTask -> LeaseOf(Robot) \cup {NoLease}]
                   /\ n.task \in RealTask \cup {NoTask}
                   /\ n.timer = NoTimer \/ n.timer \in n.timers
                   /\ n.p.agent # NoAgent => n.p.announcement # NoRound
    <3>1. nodes[r] \in NodeStates(latched, Done)
      BY DEF FleetInv, Hosts, Nodes
    <3>2. nodes[r].p \in Members(latched, Done)
      BY <3>1 DEF NodeStates
    <3>3. /\ nodes[r].task \in RealTask \cup {NoTask}
          /\ nodes[r].timer = NoTimer \/ nodes[r].timer \in nodes[r].timers
      BY <3>1 DEF NodeStates, Enabled
    <3>4. /\ nodes[r].p.tasks \subseteq latched
          /\ nodes[r].p.completed \in [RealTask -> Robot \cup {NoHolder}]
          /\ nodes[r].p.leases \in [RealTask -> LeaseOf(Robot) \cup {NoLease}]
          /\ nodes[r].p.agent # NoAgent => nodes[r].p.announcement # NoRound
      BY <3>2 DEF Members, Completions, Leases
    <3> QED
      BY <3>3, <3>4
  <2>2. ASSUME NEW r \in Robot, NEW i \in DOMAIN inbox[r]
        PROVE  Cardinality(OfTopic(inbox[r], inbox[r][i].msg.type))
                 <= TopicDepth(inbox[r][i].msg.type)
    <3>1. inbox[r] \in Seq(Parcels(latched, Done)) /\ WithinDepth(inbox[r])
      BY DEF FleetInv, Hosts, Inboxes, Boxes
    <3>2. inbox[r][i].msg \in Messages(latched, Done)
      <4>1. inbox[r][i] \in Parcels(latched, Done)
        BY <3>1
      <4> QED
        BY <4>1 DEF Parcels
    <3>3. inbox[r][i].msg.type \in Topics
      BY <3>2, TopicOf
    <3> QED
      BY <3>1, <3>3 DEF WithinDepth
  <2>3. Running \subseteq Robot /\ \A r \in Robot \ Running : inbox[r] = <<>>
    BY DEF FleetInv, Hosts
  <2>4. /\ asleep \in [Robot -> Nat] /\ now \in 0..MaxTime
        /\ turn \in DOMAIN order /\ stage \in {"receive", "tick", "rest"}
        /\ Mission \subseteq latched /\ latched \subseteq RealTask
    BY DEF FleetInv, Clockwork
  <2> QED
    BY <2>1, <2>2, <2>3, <2>4 DEF TypeOK
<1> QED
  BY <1>1, FleetInvHolds, PTL

(***************************************************************************)
(* What a node is at work on needs only what was finished.                  *)
(***************************************************************************)
PrerequisitesFirst ==
  \A r \in Running :
    nodes[r].task # NoTask =>
      Prerequisites[nodes[r].task] \subseteq {f.task : f \in finished}

(***************************************************************************)
(* Whatever is lost, late or cut off, and whoever crashes and comes back    *)
(* with nothing, a node sets out (_start_execution) only for a task all of  *)
(* whose prerequisites were finished.                                       *)
(***************************************************************************)
THEOREM SetsOutInOrder == Spec => []PrerequisitesFirst
<1>1. FleetInv => PrerequisitesFirst
  <2> SUFFICES ASSUME FleetInv, NEW r \in Running, nodes[r].task # NoTask,
                      NEW u \in Prerequisites[nodes[r].task]
               PROVE  u \in {f.task : f \in finished}
    BY DEF PrerequisitesFirst
  <2>1. nodes[r] \in NodeStates(latched, Done)
    BY DEF FleetInv, Hosts, Nodes
  <2>2. nodes[r].task \in Enabled(latched, Done)
    BY <2>1 DEF NodeStates
  <2>3. PICK d \in Done : d[1] = u
    BY <2>2 DEF Enabled
  <2>4. PICK f \in finished : d = <<f.task, f.robot>>
    BY DEF Done
  <2> QED
    BY <2>3, <2>4
<1> QED
  BY <1>1, FleetInvHolds, PTL

(***************************************************************************)
(* What a replica takes for completed (_completed, as its own executions,   *)
(* completions and heartbeat rounds filled it in) was finished by the robot *)
(* it names.                                                                *)
(***************************************************************************)
THEOREM FleetRecordsAreTrue == Spec => []CompletionsTrue
<1>1. FleetInv => CompletionsTrue
  <2> SUFFICES ASSUME FleetInv, NEW r \in Running, NEW t \in RealTask,
                      nodes[r].p.completed[t] # NoHolder
               PROVE  \E f \in finished : f.task = t /\ f.robot = nodes[r].p.completed[t]
    BY DEF CompletionsTrue
  <2>1. nodes[r] \in NodeStates(latched, Done)
    BY DEF FleetInv, Hosts, Nodes
  <2>2. nodes[r].p.completed \in Completions(Done)
    BY <2>1 DEF NodeStates, Members
  <2>3. <<t, nodes[r].p.completed[t]>> \in Done
    BY <2>2 DEF Completions
  <2>4. PICK f \in finished : <<t, nodes[r].p.completed[t]>> = <<f.task, f.robot>>
    BY <2>3 DEF Done
  <2> QED
    BY <2>4
<1> QED
  BY <1>1, FleetInvHolds, PTL

(***************************************************************************)
(* "Every handler is idempotent" (participant.py): what a robot has heard   *)
(* and is sent again, after whatever else has arrived in between, changes   *)
(* nothing but leases; gossip apart, which may have come ahead of its round.*)
(***************************************************************************)
THEOREM HandlersAreIdempotent == Spec => []RebroadcastSafe
<1>1. FleetInv => RebroadcastSafe
  <2> SUFFICES ASSUME FleetInv, NEW r \in Running, NEW i \in DOMAIN inbox[r],
                      ~ inbox[r][i].late, inbox[r][i].msg.type \notin {"tasks", "gossip"}
               PROVE  LET p == Drained(r, nodes[r], inbox[r], now).p
                      IN  [Handle(r, p, inbox[r][i].msg, now) EXCEPT !.leases = p.leases] = p
    BY DEF RebroadcastSafe
  <2> DEFINE n == Drained(r, nodes[r], inbox[r], now)
             m == inbox[r][i].msg
  <2>1. HistoryOK(latched, Done) /\ now \in Nat
    BY FleetHistory
  <2>2. /\ r \in Robot /\ nodes[r] \in NodeStates(latched, Done)
        /\ inbox[r] \in Boxes(latched, Done)
    BY DEF FleetInv, Hosts, Nodes, Inboxes
  <2>3. n.p \in Members(latched, Done)
    <3>1. n \in NodeStates(latched, Done)
      BY <2>1, <2>2, DrainedResult
    <3> QED
      BY <3>1 DEF NodeStates
  <2>4. m \in Reports(latched, Done)
    <3>1. inbox[r][i] \in Parcels(latched, Done)
      BY <2>2 DEF Boxes
    <3>2. m \in Messages(latched, Done)
      BY <3>1 DEF Parcels
    <3> QED
      BY <3>2, TopicOf DEF Reports
  <2>5. Heeded(r, n.p, m, now)
    BY <2>1, <2>2, DrainedHeeds
  <2> HIDE DEF n
  <2>6. [Handle(r, n.p, m, now) EXCEPT !.leases = n.p.leases] = n.p
    BY <2>1, <2>2, <2>3, <2>4, <2>5, HeededChangesNothing
  <2> QED
    BY <2>6 DEF n
<1> QED
  BY <1>1, FleetInvHolds, PTL

-----------------------------------------------------------------------------
(* The fleet carries out a mission *)

FinishedTasks == {f.task : f \in finished}

\* What the nodes are at work on can be executed.
SoundWork ==
  /\ Doing \in [Robot -> RealTask \cup {NoTask}]
  /\ \A r \in Robot : Doing[r] # NoTask =>
       Doing[r] \in latched /\ Prerequisites[Doing[r]] \subseteq FinishedTasks

LEMMA WorkIsSound == FleetInv => SoundWork
<1> SUFFICES ASSUME FleetInv, NEW r \in Robot
             PROVE  /\ Doing[r] \in RealTask \cup {NoTask}
                    /\ Doing[r] # NoTask =>
                         Doing[r] \in latched /\ Prerequisites[Doing[r]] \subseteq FinishedTasks
  BY DEF SoundWork, Doing
<1>1. CASE r \notin Running
  BY <1>1 DEF Doing
<1>2. CASE r \in Running
  <2>1. Doing[r] = nodes[r].task /\ nodes[r] \in NodeStates(latched, Done)
    BY <1>2 DEF Doing, FleetInv, Hosts, Nodes
  <2>2. Doing[r] \in Enabled(latched, Done) \cup {NoTask}
    BY <2>1 DEF NodeStates
  <2>3. ASSUME NEW t \in Enabled(latched, Done)
        PROVE  t \in RealTask /\ t \in latched /\ Prerequisites[t] \subseteq FinishedTasks
    BY DEF Enabled, Done, FinishedTasks
  <2> QED
    BY <2>2, <2>3
<1> QED
  BY <1>1, <1>2

\* A step in which one robot at most comes to do something else.
LEMMA OneAtATime ==
  ASSUME SoundWork, SoundWork', latched' = latched, finished' = finished, NEW r \in Robot,
         \A s \in Robot \ {r} : Doing'[s] = Doing[s]
  PROVE  [Promised!Attempt]_(Promised!vars)
<1> DEFINE t == Doing'[r]
<1>1. Doing \in [Robot -> RealTask \cup {NoTask}]
  BY DEF SoundWork
<1>2. /\ Doing' \in [Robot -> RealTask \cup {NoTask}]
      /\ t # NoTask => t \in latched /\ Prerequisites[t] \subseteq FinishedTasks
  BY DEF SoundWork, FinishedTasks
<1>3. Doing' = [Doing EXCEPT ![r] = t]
  BY <1>1, <1>2
<1>4. CASE t = Doing[r]
  <2>1. Doing' = Doing
    BY <1>1, <1>3, <1>4
  <2> QED
    BY <2>1 DEF Promised!vars
<1>5. CASE t = NoTask /\ t # Doing[r]
  <2>1. Promised!Abandon(r)
    BY <1>3, <1>5 DEF Promised!Abandon
  <2> QED
    BY <2>1 DEF Promised!Attempt
<1>6. CASE t # NoTask
  <2>1. Promised!Undertake(r, t) /\ t \in RealTask
    BY <1>2, <1>3, <1>6 DEF Promised!Undertake, FinishedTasks
  <2> HIDE DEF t
  <2> QED
    BY <2>1 DEF Promised!Attempt
<1> QED
  BY <1>4, <1>5, <1>6

\* Only the process of r changes, or is gone.
LEMMA OthersGoOn ==
  ASSUME NEW r \in Running, NEW m,
         nodes' = Without(r) \/ nodes' = [nodes EXCEPT ![r] = m]
  PROVE  /\ \A s \in Robot \ {r} : Doing'[s] = Doing[s]
         /\ r \in Robot /\ nodes' = Without(r) => Doing'[r] = NoTask
         /\ r \in Robot /\ nodes' # Without(r) => Doing'[r] = m.task
<1>1. CASE nodes' = Without(r)
  <2>1. nodes' = [s \in Running \ {r} |-> nodes[s]]
    BY <1>1 DEF Without, Restrict
  <2>2. Running' = Running \ {r} /\ \A s \in Running' : nodes'[s] = nodes[s]
    BY <2>1 DEF Running
  <2> QED
    BY <1>1, <2>2 DEF Doing
<1>2. CASE nodes' # Without(r)
  <2>1. nodes' = [nodes EXCEPT ![r] = m]
    BY <1>2
  <2>2. Running' = Running /\ nodes'[r] = m /\ \A s \in Running \ {r} : nodes'[s] = nodes[s]
    BY <2>1 DEF Running
  <2> QED
    BY <1>2, <2>2 DEF Doing
<1> QED
  BY <1>1, <1>2

\* A timer that does not raise leaves the node with nothing to do.
LEMMA FinishedIsIdle ==
  ASSUME NEW known, NEW done, HistoryOK(known, done), NEW r \in Robot,
         NEW n \in NodeStates(known, done), NEW tm \in n.timers,
         ~ FinishExecution(r, n, tm).raised
  PROVE  n.task # NoTask /\ FinishExecution(r, n, tm).node.task = NoTask
<1> DEFINE fired == Rearmed(n, tm)
           stopped == CancelExecution(fired)
<1>1. fired \in NodeStates(known, done) /\ fired.p = n.p /\ fired.task = n.task
  BY RearmedResult
<1>2. ~ (fired.timer = NoTimer \/ fired.p.executing # fired.task \/ fired.task \notin fired.p.tasks)
  BY DEF FinishExecution, Raised
<1>3. FinishExecution(r, n, tm).node = [stopped EXCEPT !.p = TaskFinished(r, stopped.p, fired.task)]
  BY <1>2 DEF FinishExecution, Returned
<1> HIDE DEF fired
<1>4. stopped = [fired EXCEPT !.timers = fired.timers \ {fired.timer}, !.timer = NoTimer,
                              !.task = NoTask]
  BY <1>2 DEF CancelExecution
<1>5. stopped.task = NoTask /\ stopped \in NodeStates(known, done)
  BY <1>1, <1>4, CancelExecutionResult DEF NodeStates
<1>6. n.task \in RealTask /\ NoTask \notin RealTask
  BY <1>1, <1>2, FleetAssumption DEF FleetAssumption, NodeStates, Members, HistoryOK
<1> HIDE DEF stopped
<1>7. FinishExecution(r, n, tm).node.task = stopped.task
  BY <1>3, <1>5 DEF NodeStates
<1> QED
  BY <1>5, <1>6, <1>7

\* What an execution timer does: somebody's work is abandoned, or completed.
LEMMA FireCarriesOut ==
  ASSUME FleetInv, SoundWork, SoundWork', NEW r \in Running, r = Current,
         NEW tm \in nodes[r].timers, FireExecution(tm)
  PROVE  [Promised!Attempt]_(Promised!vars)
<1> DEFINE n == nodes[r]
           res == FinishExecution(r, n, tm)
<1>1. r \in Robot /\ n \in NodeStates(latched, Done) /\ HistoryOK(latched, Done)
  BY FleetHistory DEF FleetInv, Hosts, Nodes
<1>2. /\ CameTo(res) /\ latched' = latched
      /\ \E due : finished' = IF res.raised THEN finished
                              ELSE finished \cup {[task |-> n.task, robot |-> r, at |-> now,
                                                   due |-> due]}
  BY DEF FireExecution
<1>3. ~ res.raised => n.task # NoTask /\ res.node.task = NoTask
  BY <1>1, FinishedIsIdle
<1>4. Doing \in [Robot -> RealTask \cup {NoTask}] /\ Doing' \in [Robot -> RealTask \cup {NoTask}]
  BY DEF SoundWork
<1>5. Doing[r] = n.task
  BY <1>1 DEF Doing
<1> HIDE DEF res, n
<1>6. CASE res.raised
  <2>1. nodes' = Without(r) /\ finished' = finished
    BY <1>2, <1>6 DEF CameTo
  <2>2. \A s \in Robot \ {r} : Doing'[s] = Doing[s]
    BY <2>1, OthersGoOn
  <2> QED
    BY <1>1, <1>2, <2>1, <2>2, OneAtATime
<1>7. CASE ~ res.raised
  <2>1. nodes' = [nodes EXCEPT ![r] = res.node]
    BY <1>2, <1>7 DEF CameTo
  <2>2. \A s \in Robot \ {r} : Doing'[s] = Doing[s]
    BY <2>1, OthersGoOn
  <2>3. Doing'[r] = NoTask
    BY <1>1, <1>3, <1>7, <2>1, OthersGoOn
  <2>4. FinishedTasks' = FinishedTasks \cup {n.task}
    <3>1. PICK due : finished' = finished \cup {[task |-> n.task, robot |-> r, at |-> now,
                                                  due |-> due]}
      BY <1>2, <1>7
    <3> DEFINE f == [task |-> n.task, robot |-> r, at |-> now, due |-> due]
    <3>2. f.task = n.task /\ finished' = finished \cup {f}
      BY <3>1
    <3> HIDE DEF f
    <3> QED
      BY <3>2 DEF FinishedTasks
  <2>5. Doing' = [w \in Robot |-> IF w \in {r} THEN NoTask ELSE Doing[w]]
    BY <1>4, <2>2, <2>3
  <2>6. Promised!Complete({r})
    <3>1. {Doing[w] : w \in {r}} = {n.task}
      BY <1>5
    <3> QED
      BY <1>2, <1>3, <1>5, <1>7, <2>4, <2>5, <3>1 DEF Promised!Complete, FinishedTasks
  <2>7. {r} \in SUBSET Robot
    BY <1>1
  <2>8. \E ws \in SUBSET Robot : Promised!Complete(ws)
    BY <2>6, <2>7, Zenon
  <2> QED
    BY <2>8 DEF Promised!Attempt
<1> QED
  BY <1>6, <1>7


\* A step that leaves what was finished alone and one robot's work at most
\* different.
LEMMA QuietStep ==
  ASSUME FleetInv, SoundWork, SoundWork', latched' = latched, finished' = finished,
         NEW r \in Robot, r = Current,
         \/ nodes' = nodes
         \/ /\ r \in Running
            /\ nodes' = Without(r) \/ \E m : nodes' = [nodes EXCEPT ![r] = m]
         \/ \E m : nodes' = [s \in Running \cup {r} |-> IF s \in Running THEN nodes[s] ELSE m]
  PROVE  [Promised!Attempt]_(Promised!vars)
<1>1. CASE nodes' = nodes
  <2>1. Doing' = Doing
    BY <1>1 DEF Doing, Running
  <2> QED
    BY <2>1, OneAtATime
<1>2. CASE r \in Running /\ (nodes' = Without(r) \/ \E m : nodes' = [nodes EXCEPT ![r] = m])
  BY <1>2, OthersGoOn, OneAtATime
<1>3. CASE \E m : nodes' = [s \in Running \cup {r} |-> IF s \in Running THEN nodes[s] ELSE m]
  <2>1. PICK m : nodes' = [s \in Running \cup {r} |-> IF s \in Running THEN nodes[s] ELSE m]
    BY <1>3
  <2>2. Running' = Running \cup {r} /\ \A s \in Running : nodes'[s] = nodes[s]
    BY <2>1 DEF Running
  <2>3. \A s \in Robot \ {r} : Doing'[s] = Doing[s]
    BY <2>2 DEF Doing
  <2> QED
    BY <2>3, OneAtATime
<1> QED
  BY <1>1, <1>2, <1>3

(***************************************************************************)
(* What is deployed carries out a mission, task by task, under any losses,  *)
(* delays, stalls, partitions, crashes and relaunches: nodes set out for    *)
(* tasks that were asked for, after what these need was finished, and       *)
(* finish nothing they were not at.  What is not promised is that nobody    *)
(* else is at it too.                                                       *)
(***************************************************************************)
THEOREM FleetCarriesOutMission == Spec => CarriesOutMission
<1>1. Init => Promised!Init
  <2> SUFFICES ASSUME Init PROVE Promised!Init
    OBVIOUS
  <2>1. nodes = [r \in Robot |-> NewNode(Home[r], RealTask, Robot)]
    BY DEF Init
  <2>2. Doing = [r \in Robot |-> NoTask]
    BY <2>1 DEF Doing, Running, NewNode
  <2> QED
    BY <2>2 DEF Init, Promised!Init
<1>2. FleetInv /\ SoundWork /\ SoundWork' /\ [Next]_vars => [Promised!Attempt]_(Promised!vars)
  <2> SUFFICES ASSUME FleetInv, SoundWork, SoundWork', [Next]_vars
               PROVE  [Promised!Attempt]_(Promised!vars)
    OBVIOUS
  <2>0. PICK r \in Robot : r = Current
    BY FleetHistory
  <2>1. CASE Receive
    <3>1. r \in Running
      BY <2>0, <2>1 DEF Receive, Up, Awake
    <3>2. \E m : nodes' = [nodes EXCEPT ![r] = m]
      BY <2>0, <2>1 DEF Receive
    <3> QED
      BY <2>0, <2>1, <3>1, <3>2, QuietStep DEF Receive, record
  <2>2. CASE \E i \in DOMAIN inbox[Current] : Lose(i) \/ Delay(i)
    BY <2>0, <2>2, QuietStep DEF Lose, Delay, record
  <2>3. CASE TickNode
    <3>1. r \in Running
      BY <2>0, <2>3 DEF TickNode, Up, Awake
    <3>2. nodes' = Without(r) \/ \E m : nodes' = [nodes EXCEPT ![r] = m]
      BY <2>0, <2>3 DEF TickNode, CameTo
    <3> QED
      BY <2>0, <2>3, <3>1, <3>2, QuietStep DEF TickNode
  <2>4. CASE Current \in Running /\ \E tm \in nodes[Current].timers : FireExecution(tm)
    BY <2>0, <2>4, FireCarriesOut
  <2>5. CASE EndTurn
    BY <2>0, <2>5, QuietStep DEF EndTurn, record
  <2>6. CASE Stall
    BY <2>0, <2>6, QuietStep DEF Stall, record
  <2>7. CASE Crash
    <3>1. r \in Running /\ nodes' = Without(r)
      BY <2>0, <2>7 DEF Crash, Up, Awake
    <3> QED
      BY <2>0, <2>7, <3>1, QuietStep DEF Crash, record
  <2>8. CASE Launch
    <3> DEFINE m == NewNode(Home[r], RealTask, Robot)
    <3>1. nodes' = [s \in Running \cup {r} |-> IF s \in Running THEN nodes[s] ELSE m]
      BY <2>0, <2>8 DEF Launch
    <3> HIDE DEF m
    <3> QED
      BY <2>0, <2>8, <3>1, QuietStep DEF Launch, record
  <2>9. CASE \E t \in Injectable : Inject(t)
    <3>1. PICK t \in Injectable : Inject(t)
      BY <2>9
    <3>2. Doing' = Doing
      BY <3>1 DEF Inject, Doing, Running
    <3>3. Promised!Ask(t) /\ t \in RealTask
      BY <3>1, <3>2 DEF Inject, Promised!Ask, RealTask, record
    <3> QED
      BY <3>3 DEF Promised!Attempt
  <2>10. CASE Cut
    BY <2>0, <2>10, QuietStep DEF Cut, record
  <2>11. CASE UNCHANGED vars
    BY <2>0, <2>11, QuietStep DEF vars, record
  <2> QED
    BY <2>1, <2>2, <2>3, <2>4, <2>5, <2>6, <2>7, <2>8, <2>9, <2>10, <2>11 DEF Next
<1> QED
  BY <1>1, <1>2, FleetInvHolds, WorkIsSound, PTL DEF Spec, CarriesOutMission, Promised!AtLeastOnce


-----------------------------------------------------------------------------
\* What was finished came after something finished for each prerequisite.
FinishedInOrder ==
  \A f \in finished :
    /\ f.task \in latched
    /\ \A u \in Prerequisites[f.task] : \E g \in finished : g.task = u /\ g.at <= f.at

\* Nothing was finished in the future.
FinishedBefore == \A f \in finished : f.at \in Nat /\ f.at <= now

LEMMA FireKeepsOrder ==
  ASSUME FleetInv, SoundWork, FinishedInOrder, FinishedBefore, NEW r \in Running, r = Current,
         NEW tm \in nodes[r].timers, FireExecution(tm)
  PROVE  FinishedInOrder' /\ FinishedBefore'
<1> DEFINE n == nodes[r]
           res == FinishExecution(r, n, tm)
<1>1. /\ r \in Robot /\ n \in NodeStates(latched, Done) /\ HistoryOK(latched, Done)
      /\ now \in Nat
  BY FleetHistory DEF FleetInv, Hosts, Nodes
<1>2. /\ latched' = latched /\ now' = now
      /\ \E due : finished' = IF res.raised THEN finished
                              ELSE finished \cup {[task |-> n.task, robot |-> r, at |-> now,
                                                   due |-> due]}
  BY DEF FireExecution, clock
<1>3. ~ res.raised => n.task # NoTask
  BY <1>1, FinishedIsIdle
<1>4. Doing[r] = n.task
  BY <1>1 DEF Doing
<1> HIDE DEF res, n
<1>5. CASE res.raised
  BY <1>2, <1>5 DEF FinishedInOrder, FinishedBefore
<1>6. CASE ~ res.raised
  <2>1. PICK due : finished' = finished \cup {[task |-> n.task, robot |-> r, at |-> now,
                                                due |-> due]}
    BY <1>2, <1>6
  <2> DEFINE f == [task |-> n.task, robot |-> r, at |-> now, due |-> due]
  <2>2. f.task = n.task /\ f.at = now /\ finished' = finished \cup {f}
    BY <2>1
  <2>3. n.task \in latched /\ Prerequisites[n.task] \subseteq FinishedTasks
    BY <1>1, <1>3, <1>4, <1>6 DEF SoundWork
  <2> HIDE DEF f
  <2>4. \A u \in Prerequisites[f.task] : \E g \in finished : g.task = u /\ g.at <= f.at
    BY <2>2, <2>3 DEF FinishedTasks, FinishedBefore
  <2> QED
    BY <1>1, <1>2, <2>2, <2>3, <2>4 DEF FinishedInOrder, FinishedBefore
<1> QED
  BY <1>5, <1>6

(***************************************************************************)
(* In the history of the deployed fleet every task was asked for, and comes *)
(* no earlier than some execution of each of its prerequisites, across any  *)
(* crash, relaunch and partition, although no process keeps that history.   *)
(***************************************************************************)
THEOREM CompletesInOrder == Spec => []FinishedInOrder
<1>1. Init => FinishedInOrder /\ FinishedBefore
  BY DEF Init, FinishedInOrder, FinishedBefore
<1>2. /\ FleetInv /\ FleetInv' /\ SoundWork /\ FinishedInOrder /\ FinishedBefore
      /\ [Next]_vars
      => FinishedInOrder' /\ FinishedBefore'
  <2> SUFFICES ASSUME FleetInv, FleetInv', SoundWork, FinishedInOrder, FinishedBefore,
                      [Next]_vars
               PROVE  FinishedInOrder' /\ FinishedBefore'
    OBVIOUS
  <2>1. CASE Current \in Running /\ \E tm \in nodes[Current].timers : FireExecution(tm)
    <3>1. PICK r \in Running : r = Current
      BY <2>1
    <3> QED
      BY <2>1, <3>1, FireKeepsOrder
  <2>2. CASE ~ (Current \in Running /\ \E tm \in nodes[Current].timers : FireExecution(tm))
    <3>1. finished' = finished /\ latched \subseteq latched'
      BY <2>2 DEF Next, vars, record, Receive, Lose, Delay, TickNode, EndTurn, Stall, Crash,
         Launch, Inject, Cut
    <3>2. now \in Nat /\ now' \in Nat
      BY Bounds DEF FleetInv, Clockwork
    <3>3. now' = now \/ now' = now + 1
      BY <2>2 DEF Next, vars, clock, Receive, Lose, Delay, TickNode, EndTurn, Stall, Crash,
         Launch, Inject, Cut, Pass
    <3> QED
      BY <3>1, <3>2, <3>3 DEF FinishedInOrder, FinishedBefore
  <2> QED
    BY <2>1, <2>2
<1> QED
  BY <1>1, <1>2, FleetInvHolds, WorkIsSound, PTL DEF Spec


-----------------------------------------------------------------------------
\* The bid of every agent of a running process is determined and above the price.
EveryBidHolds ==
  \A r \in Running : nodes[r].p.agent # NoAgent => BidHolds(r, nodes[r].p.agent)

(***************************************************************************)
(* In the deployed fleet the assertion of PriceTable.bid never fails: not   *)
(* in a process launched again, on tables mixed of several rounds, or after *)
(* any messages lost and late, is there an agent whose best bid is not one  *)
(* bid, at least epsilon above the price.                                   *)
(***************************************************************************)
THEOREM BidsOfNodesNeverFail == Spec => []EveryBidHolds
<1>1. FleetInv => EveryBidHolds
  <2> SUFFICES ASSUME FleetInv, NEW r \in Running, nodes[r].p.agent # NoAgent
               PROVE  BidHolds(r, nodes[r].p.agent)
    BY DEF EveryBidHolds
  <2>1. r \in Robot /\ nodes[r] \in Nodes
    BY DEF FleetInv, Hosts
  <2>2. nodes[r].p.agent \in Agents
    BY <2>1 DEF Nodes, NodeStates, Members, Bidding
  <2> QED
    BY <2>1, <2>2, OneBid
<1> QED
  BY <1>1, FleetInvHolds, PTL

\* The tick of a running process comes to an end, in one way only.
TicksEndInOneWay ==
  \A r \in Running : OneWay(r, nodes[r].p, now)

(***************************************************************************)
(* The tick timer of a process never hangs or fails in the auction: its     *)
(* participant always has one way to go, whatever the process was told.     *)
(***************************************************************************)
THEOREM NodeTicksHaveOneOutcome == Spec => []TicksEndInOneWay
<1>1. FleetInv => TicksEndInOneWay
  <2> SUFFICES ASSUME FleetInv, NEW r \in Running
               PROVE  OneWay(r, nodes[r].p, now)
    BY DEF TicksEndInOneWay
  <2>1. r \in Robot /\ nodes[r].p \in Members(latched, Done) /\ now \in Nat
    BY DEF FleetInv, Hosts, Clockwork, Nodes, NodeStates
  <2> QED
    BY <2>1, TickHasOneOutcome
<1> QED
  BY <1>1, FleetInvHolds, PTL


-----------------------------------------------------------------------------
(***************************************************************************)
(* The execution timer.  A node that wins only tasks it has learned of, and *)
(* only while it executes none, is at work on what its participant takes it *)
(* to execute, under the timer it set for that.  WinnersAreReady is assumed *)
(* where it is needed: nothing in the code secures it, and without it all   *)
(* of what follows is false (the run fleet_partition).                      *)
(***************************************************************************)

\* The node is at work on what its participant executes, a task it knows, under
\* one timer, which it can cancel and which is due at the end of the wait.
AtWork(n) ==
  /\ n.task = n.p.executing
  /\ n.task = NoTask => n.timers = {}
  /\ n.task # NoTask =>
       /\ n.task \in n.p.tasks
       /\ n.timers = {n.timer} /\ n.timer.for = n.task
       /\ n.timer.next = n.timer.since + n.timer.wait

\* The tasks that are not collaborative need only such tasks, of the mission or
\* injected after what they need, without a cycle.
GraphsHold ==
  /\ Closed(Mission)
  /\ \A t \in RealTask \ Collaborative : Prerequisites[t] \cap Collaborative = {}
  /\ Acyclic(RealTask \ Collaborative)

\* The node is at the same work, and knows whatever the tasks it knows need.
SameWork(n, m) ==
  /\ m.p.executing = n.p.executing /\ m.task = n.task
  /\ m.timers = n.timers /\ m.timer = n.timer
  /\ n.p.tasks \subseteq m.p.tasks
  /\ GraphsHold /\ Closed(n.p.tasks) => Closed(m.p.tasks)

LEMMA SameWorkGoesOn ==
  ASSUME NEW n, NEW m, SameWork(n, m), AtWork(n)
  PROVE  AtWork(m)
BY DEF SameWork, AtWork

\* A graph that an array completes is complete.
LEMMA ArraysComplete ==
  ASSUME GraphsHold, NEW A \in SUBSET (RealTask \ Collaborative), Closed(A),
         NEW S \in SUBSET RealTask, Closed(S)
  PROVE  Closed(A \cup ((S \ A) \ Collaborative))
<1> SUFFICES ASSUME NEW t \in A \cup ((S \ A) \ Collaborative), NEW u \in Prerequisites[t]
             PROVE  u \in A \cup ((S \ A) \ Collaborative)
  BY DEF Closed
<1>1. CASE t \in A
  BY <1>1 DEF Closed
<1>2. CASE t \in S \ Collaborative
  BY <1>2 DEF Closed, GraphsHold
<1> QED
  BY <1>1, <1>2

\* What a node hears does not touch its work.
LEMMA TakenUpLeavesWork ==
  ASSUME NEW known, NEW done, HistoryOK(known, done), NEW r \in Robot,
         NEW n \in NodeStates(known, done), NEW e \in Parcels(known, done), NEW at \in Nat
  PROVE  SameWork(n, TakenUp(r, n, e, at))
<1>1. /\ e.msg \in Messages(known, done) /\ n.p \in Members(known, done)
      /\ known \subseteq RealTask
  BY DEF Parcels, NodeStates, HistoryOK
<1>2. CASE e.late
  BY <1>2 DEF TakenUp, SameWork
<1>3. CASE ~ e.late /\ e.msg.type = "tasks"
  <2> DEFINE S == e.msg.tasks
             q == Taught(r, n.p, S \ n.p.tasks, at)
  <2>1. S \in SUBSET known /\ (Closed(Mission) => Closed(S))
    BY <1>1, <1>3, TopicOf DEF Arrays
  <2>2. /\ q.executing = n.p.executing
        /\ q.tasks = n.p.tasks \cup ((S \ n.p.tasks) \ Collaborative)
    <3>1. (S \ n.p.tasks) \in SUBSET known
      BY <2>1
    <3> HIDE DEF S
    <3> QED
      BY <1>1, <3>1, TaughtExactly
  <2>3. TakenUp(r, n, e, at) = [n EXCEPT !.p = q]
    BY <1>3 DEF TakenUp, Callback, OnTaskArray, Taught
  <2>4. GraphsHold /\ Closed(n.p.tasks) => Closed(q.tasks)
    <3>1. n.p.tasks \in SUBSET (RealTask \ Collaborative) /\ S \in SUBSET RealTask
      BY <1>1, <2>1 DEF Members
    <3>2. GraphsHold => Closed(S)
      BY <2>1 DEF GraphsHold
    <3> HIDE DEF S, q
    <3> QED
      BY <2>2, <3>1, <3>2, ArraysComplete
  <2> HIDE DEF S, q
  <2>5. n.p.tasks \subseteq q.tasks
    BY <2>2
  <2> QED
    BY <2>2, <2>3, <2>4, <2>5 DEF SameWork, NodeStates
<1>4. CASE ~ e.late /\ e.msg.type # "tasks"
  <2> DEFINE q == Handle(r, n.p, e.msg, at)
  <2>1. e.msg \in Spoken(known, done) /\ e.msg \in Reports(known, done)
    BY <1>1, <1>4, TopicOf DEF Reports
  <2>2. q.executing = n.p.executing /\ q.tasks = n.p.tasks
    BY <1>1, <2>1, HandleResult, SpokenTeachNothing DEF Handled
  <2>3. TakenUp(r, n, e, at) = [n EXCEPT !.p = q]
    BY <1>4 DEF TakenUp, Callback, HandleMsg
  <2> HIDE DEF q
  <2> QED
    BY <2>2, <2>3 DEF SameWork, NodeStates
<1> QED
  BY <1>2, <1>3, <1>4

LEMMA DrainedLeavesWork ==
  ASSUME NEW known, NEW done, HistoryOK(known, done), NEW r \in Robot,
         NEW n \in NodeStates(known, done), NEW box \in Boxes(known, done), NEW at \in Nat
  PROVE  SameWork(n, Drained(r, n, box, at))
<1> DEFINE X == {x \in NodeStates(known, done) : SameWork(n, x)}
           P == Parcels(known, done)
<1>1. n \in X /\ box \in Seq(P)
  BY DEF SameWork, Boxes
<1>2. ASSUME NEW e \in P, NEW x \in X PROVE TakenUp(r, x, e, at) \in X
  <2>1. TakenUp(r, x, e, at) \in NodeStates(known, done)
    BY TakenUpResult
  <2>2. SameWork(x, TakenUp(r, x, e, at))
    BY TakenUpLeavesWork
  <2>3. SameWork(n, x)
    OBVIOUS
  <2> QED
    BY <2>1, <2>2, <2>3 DEF SameWork
<1>3. Drained(r, n, box, at) \in X
  <2> HIDE DEF X, P
  <2> QED
    BY <1>1, <1>2, DrainedStays
<1> QED
  BY <1>3

\* A node starts what it is told to start: nothing, or one task.
LEMMA StartedNone ==
  ASSUME NEW n, NEW at
  PROVE  Started(n, {}, at) = n
<1> DEFINE Defines(f) == f = [U \in SUBSET {} |->
                                IF U = {} THEN n
                                ELSE StartExecution(f[U \ {CHOOSE y \in U : TRUE}],
                                                    CHOOSE y \in U : TRUE, at)]
           iter == CHOOSE f : Defines(f)
<1>1. Started(n, {}, at) = iter[{}]
  BY Zenon DEF Started, FoldSet, MapThenFoldSet
<1>2. \E f : Defines(f)
  <2> DEFINE g == [U \in SUBSET {} |-> n]
  <2>1. Defines(g)
    OBVIOUS
  <2> HIDE DEF Defines, g
  <2> QED
    BY <2>1
<1>3. Defines(iter)
  <2> HIDE DEF Defines
  <2> QED
    BY <1>2
<1> HIDE DEF iter
<1> QED
  BY <1>1, <1>3

LEMMA StartedOne ==
  ASSUME NEW n, NEW t, NEW at
  PROVE  Started(n, {t}, at) = StartExecution(n, t, at)
<1> DEFINE some(U) == CHOOSE y \in U : TRUE
           Defines(f) == f = [U \in SUBSET {t} |->
                                IF U = {} THEN n
                                ELSE StartExecution(f[U \ {some(U)}], some(U), at)]
           iter == CHOOSE f : Defines(f)
<1>1. Started(n, {t}, at) = iter[{t}]
  BY Zenon DEF Started, FoldSet, MapThenFoldSet
<1>2. some({t}) = t /\ \A U \in SUBSET {t} : U = {} \/ U = {t}
  OBVIOUS
<1> HIDE DEF some
<1>3. \E f : Defines(f)
  <2> DEFINE g == [U \in SUBSET {t} |-> IF U = {} THEN n ELSE StartExecution(n, t, at)]
  <2>1. g[{}] = n /\ g[{t}] = StartExecution(n, t, at)
    OBVIOUS
  <2>2. \A U \in SUBSET {t} :
          g[U] = IF U = {} THEN n ELSE StartExecution(g[U \ {some(U)}], some(U), at)
    <3>1. {t} \ {t} = {}
      OBVIOUS
    <3> HIDE DEF g
    <3> QED
      BY <1>2, <2>1, <3>1
  <2>3. Defines(g)
    BY <2>2
  <2> HIDE DEF Defines, g
  <2> QED
    BY <2>3
<1>4. Defines(iter)
  <2> HIDE DEF Defines
  <2> QED
    BY <1>3
<1> HIDE DEF iter
<1>5. {t} \ {t} = {} /\ {t} # {} /\ {t} \in SUBSET {t} /\ {} \in SUBSET {t}
  OBVIOUS
<1>6. iter[{}] = n
  BY <1>4, <1>5
<1>7. iter[{t}] = StartExecution(iter[{t} \ {some({t})}], some({t}), at)
  BY <1>4, <1>5
<1> QED
  BY <1>1, <1>2, <1>5, <1>6, <1>7


\* A node that wins only what it knows, and only when it has nothing to do.
Ready(n) ==
  \A t \in RealTask : AboutToWin(n.p, t) => t \in n.p.tasks /\ n.p.executing = NoTask

\* A timer set for the work and the way there.
LEMMA StartedWork ==
  ASSUME NEW known, NEW done, NEW n \in NodeStates(known, done), NEW t \in RealTask, t # NoTask,
         n.timers = {}, n.p.executing = t, t \in n.p.tasks, NEW at \in Nat
  PROVE  /\ AtWork(StartExecution(n, t, at))
         /\ StartExecution(n, t, at).p = n.p
<1> DEFINE wait == Travel[n.p.place][t] + Duration[t]
           tm == [for |-> t, since |-> at, wait |-> wait, next |-> at + wait]
           m == [n EXCEPT !.timers = n.timers \cup {tm}, !.timer = tm, !.task = t]
<1>1. StartExecution(n, t, at) = m
  BY DEF StartExecution
<1>2. tm.for = t /\ tm.next = tm.since + tm.wait
  OBVIOUS
<1> HIDE DEF tm
<1>3. m.timers = n.timers \cup {tm} /\ m.timer = tm /\ m.task = t /\ m.p = n.p
  BY DEF NodeStates
<1>4. m.timers = {tm}
  BY <1>3
<1> HIDE DEF m
<1> QED
  BY <1>1, <1>2, <1>3, <1>4 DEF AtWork

\* The timer of a node at work can be cancelled, and then there is none.
LEMMA CancelledWork ==
  ASSUME NEW known, NEW done, NEW n \in NodeStates(known, done),
         n.timers = {n.timer}
  PROVE  /\ CancelExecution(n).timers = {} /\ CancelExecution(n).task = NoTask
         /\ CancelExecution(n).p = n.p
<1>1. n.timer # NoTimer
  BY NodeAssumption DEF NodeAssumption, NodeStates
<1>2. CancelExecution(n) =
        [n EXCEPT !.timers = n.timers \ {n.timer}, !.timer = NoTimer, !.task = NoTask]
  BY <1>1 DEF CancelExecution
<1>3. n.timers \ {n.timer} = {}
  OBVIOUS
<1> QED
  BY <1>2, <1>3 DEF NodeStates

LEMMA TickKeepsWork ==
  ASSUME NEW known, NEW done, HistoryOK(known, done), NEW r \in Robot,
         NEW n \in NodeStates(known, done), NEW at \in Nat, NEW res \in NodeTick(r, n, at),
         AtWork(n), Ready(n)
  PROVE  /\ res.raised => ~ WellFormed(n.p.tasks)
         /\ ~ res.raised => AtWork(res.node) /\ res.node.p.tasks = n.p.tasks
<1>1. PICK step \in Tick(r, n.p, at) :
        LET ticked == [n EXCEPT !.p = step.p]
            kept   == AfterAborts(ticked, step)
        IN  res = IF step.raised
                  THEN Raised(ticked, <<>>)
                  ELSE IF ~ step.dispatched \subseteq step.p.tasks
                  THEN Raised(kept, step.out)
                  ELSE Returned(Started(kept, step.dispatched, at), step.out)
  BY DEF NodeTick, Started
<1> DEFINE ticked == [n EXCEPT !.p = step.p]
           kept   == AfterAborts(ticked, step)
<1>2. TickSound(known, done, n.p, step)
  BY TickResult DEF NodeStates
<1>3. /\ step.p \in Members(known, done) /\ step.p.tasks = n.p.tasks
      /\ step.raised \in BOOLEAN /\ (step.raised => ~ WellFormed(n.p.tasks))
      /\ step.aborted # {} => n.p.executing # NoTask
  BY <1>2 DEF TickSound
<1>4. /\ ticked \in NodeStates(known, done) /\ ticked.p = step.p
      /\ ticked.task = n.task /\ ticked.timers = n.timers /\ ticked.timer = n.timer
  BY <1>3, OtherParticipant DEF NodeStates
<1>5. res = IF step.raised
            THEN Raised(ticked, <<>>)
            ELSE IF ~ step.dispatched \subseteq step.p.tasks
            THEN Raised(kept, step.out)
            ELSE Returned(Started(kept, step.dispatched, at), step.out)
  BY <1>1
<1> HIDE DEF ticked
<1> SUFFICES ASSUME step.raised = FALSE
             PROVE  /\ step.dispatched \subseteq step.p.tasks
                    /\ AtWork(Started(kept, step.dispatched, at))
                    /\ Started(kept, step.dispatched, at).p = step.p
  BY <1>3, <1>5 DEF Raised, Returned
<1>6. CASE step.dispatched = {} /\ step.aborted = {} /\ step.p.executing = n.p.executing
  <2>1. kept = ticked
    BY <1>6 DEF AfterAborts
  <2>2. Started(kept, step.dispatched, at) = ticked
    BY <1>6, <2>1, StartedNone
  <2>3. AtWork(ticked)
    BY <1>3, <1>4, <1>6 DEF AtWork
  <2> QED
    BY <1>4, <1>6, <2>2, <2>3
<1>7. CASE step.dispatched = {} /\ step.aborted # {} /\ step.p.executing = NoTask
  <2>1. kept = CancelExecution(ticked)
    BY <1>7 DEF AfterAborts
  <2>2. n.task # NoTask /\ ticked.timers = {ticked.timer}
    BY <1>3, <1>4, <1>7 DEF AtWork
  <2>3. kept.timers = {} /\ kept.task = NoTask /\ kept.p = step.p
    BY <1>4, <2>1, <2>2, CancelledWork
  <2> HIDE DEF kept
  <2>4. AtWork(kept)
    BY <1>7, <2>3 DEF AtWork
  <2> QED
    BY <1>7, <2>3, <2>4, StartedNone
<1>8. ASSUME NEW t \in Enabled(known, done), step.dispatched = {t}, step.p.executing = t,
             AboutToWin(n.p, t)
      PROVE  /\ step.dispatched \subseteq step.p.tasks
             /\ AtWork(Started(kept, step.dispatched, at))
             /\ Started(kept, step.dispatched, at).p = step.p
  <2>1. t \in RealTask /\ t # NoTask
    BY <1>8 DEF Enabled, AboutToWin, Dispatches
  <2>2. t \in n.p.tasks /\ n.p.executing = NoTask
    BY <1>8, <2>1 DEF Ready
  <2>3. kept = ticked
    BY <1>3, <2>2 DEF AfterAborts
  <2>4. ticked.timers = {}
    BY <1>4, <2>2 DEF AtWork
  <2>5. AtWork(StartExecution(ticked, t, at)) /\ StartExecution(ticked, t, at).p = ticked.p
    BY <1>3, <1>4, <1>8, <2>1, <2>2, <2>4, StartedWork
  <2> QED
    BY <1>3, <1>4, <1>8, <2>2, <2>3, <2>5, StartedOne
<1> QED
  BY <1>2, <1>6, <1>7, <1>8 DEF TickSound

\* The timer of the work, and what its callback returns.
EndsWork(n, tm, res) ==
  /\ res.raised = FALSE /\ AtWork(res.node) /\ res.node.p.tasks = n.p.tasks
  /\ n.task # NoTask /\ n.timers = {tm} /\ tm \in Timers
  /\ tm.for = n.task /\ tm.next = tm.since + tm.wait

\* The timer that fires is the one of the work, and ends it.
LEMMA FireEndsWork ==
  ASSUME NEW known, NEW done, NEW r \in Robot, NEW n \in NodeStates(known, done),
         NEW tm \in n.timers, AtWork(n)
  PROVE  EndsWork(n, tm, FinishExecution(r, n, tm))
<1> DEFINE fired == Rearmed(n, tm)
           again == [tm EXCEPT !.next = tm.next + tm.wait]
           stopped == CancelExecution(fired)
<1>1. /\ n.task # NoTask /\ n.timer = tm /\ n.timers = {tm} /\ tm \in Timers
      /\ n.task = n.p.executing /\ n.task \in n.p.tasks
      /\ tm.for = n.task /\ tm.next = tm.since + tm.wait
  BY DEF AtWork, NodeStates
<1>2. fired \in NodeStates(known, done) /\ fired.p = n.p /\ fired.task = n.task
  BY RearmedResult
<1>3. fired.timers = {again} /\ fired.timer = again
  <2>1. fired = [n EXCEPT !.timers = (n.timers \ {tm}) \cup {again}, !.timer = again]
    BY <1>1 DEF Rearmed
  <2> HIDE DEF again
  <2>2. (n.timers \ {tm}) \cup {again} = {again}
    BY <1>1
  <2> HIDE DEF fired
  <2> QED
    BY <2>1, <2>2 DEF NodeStates
<1>4. again \in Timers /\ again # NoTimer
  <2>1. again \in Timers
    BY <1>1 DEF Timers
  <2> HIDE DEF again
  <2> QED
    BY <2>1, NodeAssumption DEF NodeAssumption
<1> HIDE DEF fired, again
<1>5. stopped.timers = {} /\ stopped.task = NoTask /\ stopped.p = n.p
  BY <1>2, <1>3, CancelledWork
<1>stop. stopped \in NodeStates(known, done)
  BY <1>2, CancelExecutionResult
<1> DEFINE q == TaskFinished(r, n.p, n.task)
<1>6. FinishExecution(r, n, tm) =
        [node |-> [stopped EXCEPT !.p = TaskFinished(r, stopped.p, n.task)],
         out |-> <<CompletedMsg(n.task, r)>>, raised |-> FALSE]
  BY <1>1, <1>2, <1>3, <1>4 DEF FinishExecution, fired, Returned
<1> HIDE DEF stopped
<1>7. q.executing = NoTask /\ q.tasks = n.p.tasks
  <2>1. n.p \in Members(known, done)
    BY DEF NodeStates
  <2> QED
    BY <2>1 DEF TaskFinished, Members
<1> HIDE DEF q
<1>8. /\ [stopped EXCEPT !.p = q].p = q /\ [stopped EXCEPT !.p = q].timers = {}
      /\ [stopped EXCEPT !.p = q].task = NoTask
  BY <1>5, <1>stop DEF NodeStates
<1>9. AtWork([stopped EXCEPT !.p = q])
  BY <1>7, <1>8 DEF AtWork
<1>10. /\ FinishExecution(r, n, tm).node = [stopped EXCEPT !.p = q]
       /\ FinishExecution(r, n, tm).raised = FALSE
  BY <1>5, <1>6 DEF q
<1> QED
  BY <1>1, <1>7, <1>8, <1>9, <1>10 DEF EndsWork


\* A sound process: at its work, and whatever it has learned of is complete.
Sane(n) == AtWork(n) /\ (GraphsHold => Closed(n.p.tasks))

Working == \A r \in Running : Sane(nodes[r])

\* What a callback may do to the process it runs in.
LEMMA OneCallback ==
  ASSUME FleetInv, Working, NEW r \in Running, r = Current, NEW res, CameTo(res),
         ~ res.raised => Sane(res.node)
  PROVE  Working'
<1>1. nodes \in [Running -> Nodes]
  BY DEF FleetInv, Hosts
<1>2. CASE res.raised
  <2>1. nodes' = [s \in Running \ {r} |-> nodes[s]]
    BY <1>2 DEF CameTo, Without, Restrict
  <2>2. Running' = Running \ {r} /\ \A s \in Running \ {r} : nodes'[s] = nodes[s]
    BY <2>1 DEF Running
  <2> QED
    BY <2>2 DEF Working
<1>3. CASE ~ res.raised
  <2>1. nodes' = [nodes EXCEPT ![r] = res.node]
    BY <1>3 DEF CameTo
  <2>2. Running' = Running /\ nodes'[r] = res.node
        /\ \A s \in Running \ {r} : nodes'[s] = nodes[s]
    BY <1>1, <2>1 DEF Running
  <2> QED
    BY <1>3, <2>2 DEF Working
<1> QED
  BY <1>2, <1>3

LEMMA ReceiveKeepsWorking ==
  ASSUME FleetInv, Working, NEW r, r = Current, Receive
  PROVE  Working'
<1> DEFINE n == Drained(r, nodes[r], inbox[r], now)
<1>1. r \in Robot /\ r \in Running /\ nodes \in [Running -> Nodes] /\ inbox[r] \in Inboxes
  BY FleetHistory DEF Receive, Up, Awake, FleetInv, Hosts
<1>2. SameWork(nodes[r], n)
  BY <1>1, FleetHistory, DrainedLeavesWork DEF Nodes, Inboxes
<1>3. nodes' = [nodes EXCEPT ![r] = n]
  BY DEF Receive
<1> HIDE DEF n
<1>4. Sane(nodes[r])
  BY <1>1 DEF Working
<1>5. AtWork(n)
  BY <1>2, <1>4, SameWorkGoesOn DEF Sane
<1>6. Sane(n)
  BY <1>2, <1>4, <1>5 DEF Sane, SameWork
<1>7. Running' = Running /\ nodes'[r] = n /\ \A s \in Running \ {r} : nodes'[s] = nodes[s]
  BY <1>1, <1>3 DEF Running
<1> QED
  BY <1>6, <1>7 DEF Working

\* A graph without cycles, all of which is known.
LEMMA LearnedIsWellFormed ==
  ASSUME GraphsHold, NEW S \in SUBSET (RealTask \ Collaborative), Closed(S)
  PROVE  WellFormed(S)
BY DEF GraphsHold, WellFormed, Acyclic

LEMMA TickKeepsWorking ==
  ASSUME FleetInv, WinnersAreReady, Working, NEW r, r = Current, TickNode
  PROVE  Working' /\ (GraphsHold /\ ~ raised => ~ raised')
<1>1. /\ r \in Robot /\ r \in Running /\ nodes[r] \in NodeStates(latched, Done)
      /\ HistoryOK(latched, Done) /\ now \in Nat
  BY FleetHistory DEF TickNode, Up, Awake, FleetInv, Hosts, Nodes
<1>2. PICK res \in NodeTick(r, nodes[r], now) : CameTo(res)
  BY DEF TickNode
<1>3. Sane(nodes[r]) /\ Ready(nodes[r])
  BY <1>1 DEF Working, WinnersAreReady, Ready
<1>4. /\ res.raised => ~ WellFormed(nodes[r].p.tasks)
      /\ ~ res.raised => AtWork(res.node) /\ res.node.p.tasks = nodes[r].p.tasks
  BY <1>1, <1>3, TickKeepsWork DEF Sane
<1>5. GraphsHold => ~ res.raised
  <2>1. nodes[r].p.tasks \in SUBSET (RealTask \ Collaborative)
    BY <1>1 DEF NodeStates, Members, HistoryOK
  <2> QED
    BY <1>3, <1>4, <2>1, LearnedIsWellFormed DEF Sane
<1>6. ~ res.raised => Sane(res.node)
  BY <1>3, <1>4 DEF Sane
<1>7. Working'
  BY <1>1, <1>2, <1>6, OneCallback
<1>8. SoundCallback(latched, Done, res)
  BY <1>1, NodeTickResult DEF SoundCallback
<1>9. raised' = (raised \/ res.raised)
  BY <1>2 DEF CameTo
<1> QED
  BY <1>5, <1>7, <1>8, <1>9 DEF SoundCallback

\* The executor calls a timer when it is due, and there is one of the task.
LEMMA FireKeepsWorking ==
  ASSUME FleetInv, Working, NEW r \in Running, r = Current, NEW tm \in nodes[r].timers,
         FireExecution(tm)
  PROVE  Working' /\ (~ raised => ~ raised') /\ (CompletionsEarned => CompletionsEarned')
<1> DEFINE n == nodes[r]
           res == FinishExecution(r, n, tm)
           ending(t) == t.since + t.wait
           over == {ending(t) : t \in {u \in n.timers : u.for = n.task}}
<1>1. r \in Robot /\ n \in NodeStates(latched, Done) /\ Sane(n)
  BY FleetHistory DEF FleetInv, Hosts, Nodes, Working
<1>2. /\ CameTo(res) /\ tm \in DueTimers(n, now)
      /\ finished' = IF res.raised THEN finished
                     ELSE finished \cup {[task |-> n.task, robot |-> r, at |-> now,
                                          due |-> Min(over)]}
  BY DEF FireExecution
<1> HIDE DEF n, res
<1>3. /\ res.raised = FALSE /\ AtWork(res.node) /\ res.node.p.tasks = n.p.tasks
      /\ n.timers = {tm} /\ tm \in Timers /\ tm.for = n.task
      /\ tm.next = tm.since + tm.wait
  <2>1. tm \in n.timers /\ AtWork(n)
    BY <1>1 DEF n, Sane
  <2>2. EndsWork(n, tm, FinishExecution(r, n, tm))
    BY <1>1, <2>1, FireEndsWork, Zenon
  <2>3. EndsWork(n, tm, res)
    BY <2>2 DEF res
  <2> QED
    BY <2>3 DEF EndsWork
<1>4. Working'
  BY <1>1, <1>2, <1>3, OneCallback DEF Sane
<1>5. Min(over) = tm.next
  <2>1. {u \in n.timers : u.for = n.task} = {tm}
    BY <1>3
  <2>2. ending(tm) = tm.next /\ tm.next \in Nat
    BY <1>3 DEF Timers
  <2> HIDE DEF ending
  <2>3. over = {tm.next}
    BY <2>1, <2>2
  <2> QED
    BY <2>2, <2>3 DEF Min
<1> HIDE DEF over
<1>6. now' = now /\ tm.next <= now
  BY <1>2 DEF FireExecution, clock, DueTimers
<1>7. CompletionsEarned => CompletionsEarned'
  <2> DEFINE f == [task |-> n.task, robot |-> r, at |-> now, due |-> Min(over)]
  <2>1. finished' = finished \cup {f} /\ f.at = now /\ f.due = tm.next
    BY <1>2, <1>3, <1>5
  <2> HIDE DEF f
  <2> QED
    BY <1>6, <2>1 DEF CompletionsEarned
<1>8. raised' = (raised \/ res.raised)
  BY <1>2 DEF CameTo
<1> QED
  BY <1>3, <1>4, <1>7, <1>8


\* The steps that are no callbacks start processes anew, or leave them as they are.
LEMMA OthersKeepWorking ==
  ASSUME FleetInv, Working,
         \/ UNCHANGED nodes
         \/ Crash
         \/ Launch
  PROVE  Working'
<1>1. nodes \in [Running -> Nodes]
  BY DEF FleetInv, Hosts
<1>2. CASE UNCHANGED nodes
  BY <1>2 DEF Working, Running
<1>3. CASE Crash
  <2>1. nodes' = [s \in Running \ {Current} |-> nodes[s]]
    BY <1>3 DEF Crash, Without, Restrict
  <2>2. Running' = Running \ {Current} /\ \A s \in Running' : nodes'[s] = nodes[s]
    BY <2>1 DEF Running
  <2> QED
    BY <2>2 DEF Working
<1>4. CASE Launch
  <2>1. Sane(NewNode(Home[Current], RealTask, Robot))
    BY DEF Sane, AtWork, NewNode, NewParticipant, Closed
  <2>2. nodes' = [s \in Running \cup {Current} |->
                    IF s \in Running THEN nodes[s]
                    ELSE NewNode(Home[Current], RealTask, Robot)]
    BY <1>4 DEF Launch
  <2>3. \A s \in Running' :
          nodes'[s] = IF s \in Running THEN nodes[s]
                      ELSE NewNode(Home[Current], RealTask, Robot)
    BY <2>2 DEF Running
  <2> QED
    BY <2>1, <2>3 DEF Working
<1> QED
  BY <1>2, <1>3, <1>4

\* All that a process owes to the readiness of winners.
WorkInv ==
  Working /\ CompletionsEarned /\ (GraphsHold => ~ raised)

LEMMA InitWork == Init => WorkInv
<1> SUFFICES ASSUME Init PROVE WorkInv
  OBVIOUS
<1>1. CompletionsEarned /\ ~ raised
  BY DEF Init, CompletionsEarned
<1>2. \A r \in Robot : Sane(NewNode(Home[r], RealTask, Robot))
  BY DEF Sane, AtWork, NewNode, NewParticipant, Closed
<1>3. Running = Robot /\ \A r \in Robot : nodes[r] = NewNode(Home[r], RealTask, Robot)
  BY DEF Init, Running
<1>4. Working
  BY <1>2, <1>3 DEF Working
<1> QED
  BY <1>1, <1>4 DEF WorkInv

LEMMA NextKeepsWork ==
  FleetInv /\ WinnersAreReady /\ WorkInv /\ [Next]_vars => WorkInv'
<1> SUFFICES ASSUME FleetInv, WinnersAreReady, WorkInv, [Next]_vars
             PROVE  WorkInv'
  OBVIOUS
<1>1. Working /\ CompletionsEarned /\ (GraphsHold => ~ raised)
  BY DEF WorkInv
<1>2. PICK r : r = Current
  OBVIOUS
<1>3. CASE TickNode
  <2>1. finished' = finished
    BY <1>3 DEF TickNode
  <2> QED
    BY <1>1, <1>2, <1>3, <2>1, TickKeepsWorking DEF WorkInv, CompletionsEarned
<1>4. CASE Current \in Running /\ \E tm \in nodes[Current].timers : FireExecution(tm)
  <2>1. r \in Running /\ \E tm \in nodes[r].timers : FireExecution(tm)
    BY <1>2, <1>4
  <2> QED
    BY <1>1, <1>2, <2>1, FireKeepsWorking DEF WorkInv
<1>5. CASE /\ ~ TickNode
           /\ ~ (Current \in Running /\ \E tm \in nodes[Current].timers : FireExecution(tm))
  <2>1. finished' = finished /\ raised' = raised
    BY <1>5 DEF Next, vars, record, Receive, Lose, Delay, EndTurn, Stall, Crash, Launch,
       Inject, Cut
  <2>2. Receive \/ UNCHANGED nodes \/ Crash \/ Launch
    BY <1>5 DEF Next, vars, Lose, Delay, EndTurn, Stall, Inject, Cut
  <2>3. Working'
    BY <1>1, <1>2, <2>2, ReceiveKeepsWorking, OthersKeepWorking
  <2> QED
    BY <1>1, <2>1, <2>3 DEF WorkInv, CompletionsEarned
<1> QED
  BY <1>3, <1>4, <1>5

LEMMA WorkHolds == Spec /\ []WinnersAreReady => []WorkInv
BY InitWork, NextKeepsWork, FleetInvHolds, PTL DEF Spec

(***************************************************************************)
(* While winners are ready, a node is at work between callbacks on exactly  *)
(* what its participant executes, under the one timer it can cancel: no     *)
(* abort, expired lease, completion of another or lost dispatch leaves a    *)
(* timer behind, or work without one (_start_execution, _cancel_execution). *)
(***************************************************************************)
THEOREM TimersMatchWork == Spec /\ []WinnersAreReady => []TimerMatches
<1>1. WorkInv => TimerMatches
  BY DEF WorkInv, Working, Sane, AtWork, TimerMatches
<1> QED
  BY <1>1, WorkHolds, PTL

(***************************************************************************)
(* While winners are ready, a completion is published only once the travel  *)
(* and the duration of the task are over, counted from the dispatch that    *)
(* led to it (_finish_execution, whichever timer calls it).                 *)
(***************************************************************************)
THEOREM NoCompletionIsEarly == Spec /\ []WinnersAreReady => []CompletionsEarned
<1>1. WorkInv => CompletionsEarned
  BY DEF WorkInv
<1> QED
  BY <1>1, WorkHolds, PTL

(***************************************************************************)
(* Of a mission that is closed and acyclic, also without its collaborative  *)
(* tasks, no message, timer or tick ends a process while winners are ready: *)
(* no look-up fails, no timer is gone when it is called, no assertion about *)
(* the executing task fails, and no graph is rejected (dag.py), not even by *)
(* a process that was launched again and has heard of a part of the tasks.  *)
(***************************************************************************)
THEOREM ProcessesGoOn ==
  ASSUME GraphsHold
  PROVE  Spec /\ []WinnersAreReady => []CallbacksNeverRaise
<1>1. WorkInv => CallbacksNeverRaise
  BY GraphsHold DEF WorkInv, CallbacksNeverRaise
<1> QED
  BY <1>1, WorkHolds, PTL



-----------------------------------------------------------------------------
(* Participants never go back *)

LEMMA TakenUpForward ==
  ASSUME NEW known, NEW done, HistoryOK(known, done), NEW r \in Robot,
         NEW n \in NodeStates(known, done), NEW e \in Parcels(known, done), NEW at \in Nat
  PROVE  Forward(n.p, TakenUp(r, n, e, at).p)
<1>1. e.msg \in Messages(known, done) /\ n.p \in Members(known, done)
  BY DEF Parcels, NodeStates
<1>2. CASE e.late
  BY <1>1, <1>2, SameIsForward DEF TakenUp
<1>3. CASE ~ e.late /\ e.msg.type = "tasks"
  <2> DEFINE q == Taught(r, n.p, e.msg.tasks \ n.p.tasks, at)
  <2>1. e.msg.tasks \in SUBSET known
    BY <1>1, <1>3, TopicOf DEF Arrays
  <2>2. Forward(n.p, q)
    BY <1>1, <2>1, TaughtForward
  <2>3. TakenUp(r, n, e, at) = [n EXCEPT !.p = q]
    BY <1>3 DEF TakenUp, Callback, OnTaskArray, Taught
  <2> HIDE DEF q
  <2>4. TakenUp(r, n, e, at).p = q
    BY <2>3 DEF NodeStates
  <2> QED
    BY <2>2, <2>4
<1>4. CASE ~ e.late /\ e.msg.type # "tasks"
  <2> DEFINE q == Handle(r, n.p, e.msg, at)
  <2>1. e.msg \in Reports(known, done)
    BY <1>1, <1>4, TopicOf DEF Reports
  <2>2. Forward(n.p, q)
    BY <1>1, <2>1, HandleForward
  <2>3. TakenUp(r, n, e, at) = [n EXCEPT !.p = q]
    BY <1>4 DEF TakenUp, Callback, HandleMsg
  <2> HIDE DEF q
  <2>4. TakenUp(r, n, e, at).p = q
    BY <2>3 DEF NodeStates
  <2> QED
    BY <2>2, <2>4
<1> QED
  BY <1>2, <1>3, <1>4

LEMMA DrainedForward ==
  ASSUME NEW known, NEW done, HistoryOK(known, done), NEW r \in Robot,
         NEW n \in NodeStates(known, done), NEW box \in Boxes(known, done), NEW at \in Nat
  PROVE  Forward(n.p, Drained(r, n, box, at).p)
<1> DEFINE X == {x \in NodeStates(known, done) : Forward(n.p, x.p)}
           P == Parcels(known, done)
<1>0. n.p \in Members(known, done)
  BY DEF NodeStates
<1>1. n \in X /\ box \in Seq(P)
  BY <1>0, SameIsForward DEF Boxes
<1>2. ASSUME NEW e \in P, NEW x \in X PROVE TakenUp(r, x, e, at) \in X
  <2> DEFINE y == TakenUp(r, x, e, at)
  <2>1. x \in NodeStates(known, done) /\ Forward(n.p, x.p)
    OBVIOUS
  <2>2. y \in NodeStates(known, done) /\ Forward(x.p, y.p)
    BY <2>1, TakenUpResult, TakenUpForward
  <2> HIDE DEF y
  <2>3. x.p \in Members(known, done) /\ y.p \in Members(known, done)
    BY <2>1, <2>2 DEF NodeStates
  <2>4. Forward(n.p, y.p)
    BY <1>0, <2>1, <2>2, <2>3, ForwardTransitive
  <2>5. y \in X
    BY <2>2, <2>4
  <2> QED
    BY <2>5 DEF y
<1>3. Drained(r, n, box, at) \in X
  <2> HIDE DEF X, P
  <2> QED
    BY <1>1, <1>2, DrainedStays
<1> QED
  BY <1>3

\* What is dispatched is started, if anything is, and the participant is left alone.
LEMMA StartedLeavesParticipant ==
  ASSUME NEW known, NEW done, NEW n \in NodeStates(known, done), NEW at,
         NEW D, D = {} \/ \E t \in Enabled(known, done) : D = {t}
  PROVE  Started(n, D, at).p = n.p
<1>1. CASE D = {}
  BY <1>1, StartedNone
<1>2. ASSUME NEW t, D = {t} PROVE Started(n, D, at).p = n.p
  <2>1. StartExecution(n, t, at).p = n.p
    BY DEF StartExecution, NodeStates
  <2> QED
    BY <1>2, <2>1, StartedOne
<1> QED
  BY <1>1, <1>2

LEMMA NodeTickForward ==
  ASSUME NEW known, NEW done, HistoryOK(known, done), NEW r \in Robot,
         NEW n \in NodeStates(known, done), NEW at \in Nat, NEW res \in NodeTick(r, n, at),
         ~ res.raised
  PROVE  Forward(n.p, res.node.p)
<1>1. PICK step \in Tick(r, n.p, at) :
        LET ticked == [n EXCEPT !.p = step.p]
            kept   == AfterAborts(ticked, step)
        IN  res = IF step.raised
                  THEN Raised(ticked, <<>>)
                  ELSE IF ~ step.dispatched \subseteq step.p.tasks
                  THEN Raised(kept, step.out)
                  ELSE Returned(Started(kept, step.dispatched, at), step.out)
  BY DEF NodeTick, Started
<1> DEFINE ticked == [n EXCEPT !.p = step.p]
           kept   == AfterAborts(ticked, step)
<1>2. TickSound(known, done, n.p, step) /\ Forward(n.p, step.p)
  BY TickResult, TickForward DEF NodeStates
<1>3. /\ step.p \in Members(known, done)
      /\ step.dispatched = {} \/ \E t \in Enabled(known, done) : step.dispatched = {t}
  BY <1>2 DEF TickSound
<1>4. ticked \in NodeStates(known, done) /\ ticked.p = step.p
  BY <1>3, OtherParticipant DEF NodeStates
<1>5. res = IF step.raised
            THEN Raised(ticked, <<>>)
            ELSE IF ~ step.dispatched \subseteq step.p.tasks
            THEN Raised(kept, step.out)
            ELSE Returned(Started(kept, step.dispatched, at), step.out)
  BY <1>1
<1> HIDE DEF ticked
<1>6. kept \in NodeStates(known, done) /\ kept.p = step.p
  BY <1>4, CancelExecutionResult DEF AfterAborts
<1> HIDE DEF kept
<1>7. Started(kept, step.dispatched, at).p = step.p
  BY <1>3, <1>6, StartedLeavesParticipant
<1>8. res.node = Started(kept, step.dispatched, at)
  BY <1>5 DEF Raised, Returned
<1> QED
  BY <1>2, <1>7, <1>8

LEMMA FinishExecutionForward ==
  ASSUME NEW known, NEW done, HistoryOK(known, done), NEW r \in Robot,
         NEW n \in NodeStates(known, done), NEW tm \in n.timers,
         ~ FinishExecution(r, n, tm).raised
  PROVE  Forward(n.p, FinishExecution(r, n, tm).node.p)
<1> DEFINE fired == Rearmed(n, tm)
           stopped == CancelExecution(fired)
           fails == \/ fired.timer = NoTimer \/ fired.p.executing # fired.task
                    \/ fired.task \notin fired.p.tasks
           q == TaskFinished(r, stopped.p, n.task)
<1>1. /\ fired \in NodeStates(known, done) /\ fired.p = n.p /\ fired.task = n.task
  BY RearmedResult
<1>2. ~ fails
  BY DEF FinishExecution, Raised
<1> HIDE DEF fired
<1>3. stopped \in NodeStates(known, done) /\ stopped.p = n.p
  BY <1>1, CancelExecutionResult
<1>4. FinishExecution(r, n, tm) =
        [node |-> [stopped EXCEPT !.p = q], out |-> <<CompletedMsg(n.task, r)>>,
         raised |-> FALSE]
  BY <1>1, <1>2 DEF FinishExecution, fired, Returned
<1>5. n.task \in RealTask /\ n.p \in Members(known, done)
  <2>1. n.p \in Members(known, done)
    BY DEF NodeStates
  <2>2. n.p.tasks \subseteq RealTask
    BY <2>1 DEF Members, HistoryOK
  <2> QED
    BY <1>1, <1>2, <2>1, <2>2
<1> HIDE DEF stopped
<1>6. Forward(n.p, q)
  BY <1>3, <1>5, TaskFinishedForward
<1> HIDE DEF q
<1>7. FinishExecution(r, n, tm).node.p = q
  BY <1>3, <1>4 DEF NodeStates
<1> QED
  BY <1>6, <1>7

\* The processes that are there before and after a step, and their participants.
NoneGoesBack == \A r \in Running \cap Running' : Forward(nodes[r].p, nodes'[r].p)

\* What a callback does to the process it runs in, if it is there afterwards.
LEMMA CallbackForward ==
  ASSUME FleetInv, NEW r \in Running,
         \/ nodes' = Without(r)
         \/ \E m : nodes' = [nodes EXCEPT ![r] = m] /\ Forward(nodes[r].p, m.p)
  PROVE  NoneGoesBack
<1>1. nodes \in [Running -> Nodes]
  BY DEF FleetInv, Hosts
<1>2. ASSUME NEW s \in Running PROVE Forward(nodes[s].p, nodes[s].p)
  <2>1. nodes[s].p \in Members(latched, Done)
    BY <1>1 DEF Nodes, NodeStates
  <2> QED
    BY <2>1, SameIsForward
<1>3. CASE nodes' = Without(r)
  <2>1. nodes' = [s \in Running \ {r} |-> nodes[s]]
    BY <1>3 DEF Without, Restrict
  <2>2. Running' = Running \ {r} /\ \A s \in Running' : nodes'[s] = nodes[s]
    BY <2>1 DEF Running
  <2> QED
    BY <1>2, <2>2 DEF NoneGoesBack
<1>4. ASSUME NEW m, nodes' = [nodes EXCEPT ![r] = m], Forward(nodes[r].p, m.p)
      PROVE  NoneGoesBack
  <2>1. nodes'[r] = m /\ \A s \in Running \ {r} : nodes'[s] = nodes[s]
    BY <1>1, <1>4
  <2>2. ASSUME NEW s \in Running PROVE Forward(nodes[s].p, nodes'[s].p)
    <3>1. CASE s = r
      BY <1>4, <2>1, <3>1
    <3>2. CASE s # r
      BY <1>2, <2>1, <3>2
    <3> QED
      BY <3>1, <3>2
  <2> QED
    BY <2>2 DEF NoneGoesBack
<1> QED
  BY <1>3, <1>4

\* The steps that are no callbacks.
LEMMA OthersForward ==
  ASSUME FleetInv, UNCHANGED nodes \/ Launch
  PROVE  NoneGoesBack
<1>1. nodes \in [Running -> Nodes]
  BY DEF FleetInv, Hosts
<1>2. ASSUME NEW s \in Running PROVE Forward(nodes[s].p, nodes[s].p)
  <2>1. nodes[s].p \in Members(latched, Done)
    BY <1>1 DEF Nodes, NodeStates
  <2> QED
    BY <2>1, SameIsForward
<1>3. \A s \in Running : nodes'[s] = nodes[s]
  BY DEF Launch
<1> QED
  BY <1>2, <1>3 DEF NoneGoesBack

LEMMA FleetGoesForward == FleetInv /\ [Next]_vars => NoneGoesBack
<1> SUFFICES ASSUME FleetInv, [Next]_vars PROVE NoneGoesBack
  OBVIOUS
<1>1. PICK r : r = Current
  OBVIOUS
<1>2. r \in Robot /\ HistoryOK(latched, Done) /\ now \in Nat
  BY <1>1, FleetHistory
<1>node. r \in Running => nodes[r] \in NodeStates(latched, Done)
  BY DEF FleetInv, Hosts, Nodes
<1>3. CASE Receive
  <2> DEFINE n == Drained(r, nodes[r], inbox[r], now)
  <2>1. r \in Running /\ inbox[r] \in Boxes(latched, Done)
    BY <1>1, <1>2, <1>3 DEF Receive, Up, Awake, FleetInv, Hosts, Inboxes
  <2>2. Forward(nodes[r].p, n.p)
    BY <1>2, <1>node, <2>1, DrainedForward
  <2>3. nodes' = [nodes EXCEPT ![r] = n]
    BY <1>1, <1>3 DEF Receive
  <2> HIDE DEF n
  <2> QED
    BY <2>1, <2>2, <2>3, CallbackForward
<1>4. CASE TickNode
  <2>1. r \in Running
    BY <1>1, <1>4 DEF TickNode, Up, Awake
  <2>2. PICK res \in NodeTick(r, nodes[r], now) : CameTo(res)
    BY <1>1, <1>4 DEF TickNode
  <2>3. ~ res.raised => Forward(nodes[r].p, res.node.p)
    BY <1>2, <1>node, <2>1, NodeTickForward
  <2>4. nodes' = IF res.raised THEN Without(r) ELSE [nodes EXCEPT ![r] = res.node]
    BY <1>1, <2>2 DEF CameTo
  <2> QED
    BY <2>1, <2>3, <2>4, CallbackForward
<1>5. CASE Current \in Running /\ \E tm \in nodes[Current].timers : FireExecution(tm)
  <2>1. PICK tm \in nodes[r].timers : FireExecution(tm)
    BY <1>1, <1>5
  <2> DEFINE res == FinishExecution(r, nodes[r], tm)
  <2>2. r \in Running
    BY <1>1, <1>5
  <2>3. ~ res.raised => Forward(nodes[r].p, res.node.p)
    BY <1>2, <1>node, <2>2, FinishExecutionForward
  <2>4. CameTo(res)
    BY <1>1, <2>1 DEF FireExecution
  <2> HIDE DEF res
  <2>5. nodes' = IF res.raised THEN Without(r) ELSE [nodes EXCEPT ![r] = res.node]
    BY <1>1, <2>4 DEF CameTo
  <2> QED
    BY <2>2, <2>3, <2>5, CallbackForward
<1>6. CASE Crash
  <2>1. r \in Running /\ nodes' = Without(r)
    BY <1>1, <1>6 DEF Crash, Up, Awake
  <2> QED
    BY <2>1, CallbackForward
<1>7. CASE Launch \/ UNCHANGED nodes
  BY <1>7, OthersForward
<1> QED
  BY <1>3, <1>4, <1>5, <1>6, <1>7
  DEF Next, vars, Lose, Delay, EndTurn, Stall, Inject, Cut

(***************************************************************************)
(* For as long as a process lives, its participant never goes back:         *)
(* whatever is lost, late, cut off or stalled, and whichever of the others  *)
(* crash or come back, it forgets no task or completion and enters no round *)
(* again that it has left, and its prices and the ones it relays only rise. *)
(***************************************************************************)
THEOREM NodesNeverGoBack ==
  Spec => [][\A r \in Running \cap Running' : Forward(nodes[r].p, nodes'[r].p)]_vars
<1>1. FleetInv /\ [Next]_vars =>
        [\A r \in Running \cap Running' : Forward(nodes[r].p, nodes'[r].p)]_vars
  BY FleetGoesForward DEF NoneGoesBack
<1> QED
  BY <1>1, FleetInvHolds, PTL DEF Spec

=============================================================================

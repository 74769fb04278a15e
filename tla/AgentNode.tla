------------------------------ MODULE AgentNode ------------------------------
(***************************************************************************)
(* ros2_ws/src/auction_ros/auction_ros/agent_node.py: the ROS node that      *)
(* hosts a participant, as operators on a record of what the node keeps:    *)
(*   p       its CoordinationParticipant                                    *)
(*   timers  the execution timers that were created and not destroyed, with *)
(*           what they were created for, which nothing in the node reads    *)
(*   timer   _exec_timer, the one of them the node can still cancel         *)
(*   task    _exec_task                                                     *)
(* Timers of rclpy are periodic: one that is not cancelled fires again.     *)
(* Times are in periods of the node's own timer.                            *)
(***************************************************************************)
EXTENDS Fleet

CONSTANT NoTimer  \* _exec_timer is None

\* What is known of a timer: the task, when it was set, how long the work and
\* the way there take, and when it fires next.
Timers == [for : RealTask, since : Nat, wait : Nat, next : Nat]

ASSUME NodeAssumption == NoTimer \notin Timers

NewNode(home, tasks, robots) ==
  [ p      |-> NewParticipant(home, {}, tasks, robots),
    timers |-> {},
    timer  |-> NoTimer,
    task   |-> NoTask ]

\* What a callback leaves behind: the node, what it published, and whether it
\* raised, which ends rclpy.spin and the process.
Returned(node, out) == [node |-> node, out |-> out, raised |-> FALSE]
Raised(node, out) == [node |-> node, out |-> out, raised |-> TRUE]

-----------------------------------------------------------------------------
(* Subscriptions *)

HandleMsg(r, node, msg, now) == [node EXCEPT !.p = Handle(r, @, msg, now)]

\* _on_task_array: tasks it knows already are left alone.
OnTaskArray(r, node, tasks, now) ==
  [node EXCEPT !.p = FoldSet(LAMBDA t, p : Handle(r, p, InjectedMsg(t), now),
                             @, tasks \ @.tasks)]

-----------------------------------------------------------------------------
(* The execution timer *)

DueTimers(node, now) == {tm \in node.timers : tm.next <= now}

\* Fault: the timer is set for the work and not for the way there.
StartExecutionAtOnce(node, task, now) ==
  LET wait == Travel[node.p.place][task] + Duration[task]
      tm   == [for |-> task, since |-> now, wait |-> wait,
               next |-> now + Duration[task]]
  IN  [node EXCEPT !.timers = @ \cup {tm}, !.timer = tm, !.task = task]

StartExecution(node, task, now) ==
  LET wait == Travel[node.p.place][task] + Duration[task]
      tm   == [for |-> task, since |-> now, wait |-> wait, next |-> now + wait]
  IN  [node EXCEPT !.timers = @ \cup {tm}, !.timer = tm, !.task = task]

\* Fault: the timer runs on.
CancelNothing(node) == node

CancelExecution(node) ==
  IF node.timer = NoTimer
  THEN node
  ELSE [node EXCEPT !.timers = @ \ {node.timer}, !.timer = NoTimer, !.task = NoTask]

\* A timer that fired is set to fire again.
Rearmed(node, tm) ==
  [node EXCEPT !.timers = (@ \ {tm}) \cup {[tm EXCEPT !.next = @ + tm.wait]},
               !.timer = IF @ = tm THEN [tm EXCEPT !.next = @ + tm.wait] ELSE @]

\* _finish_execution, called by tm: it disposes of _exec_timer, whichever
\* timer called it, and completes _exec_task.
FinishExecution(r, node, tm) ==
  LET fired   == Rearmed(node, tm)
      stopped == CancelExecution(fired)
  IN  IF fired.timer = NoTimer \/ fired.p.executing # fired.task
         \/ fired.task \notin fired.p.tasks
      THEN Raised(stopped, <<>>)
      ELSE Returned([stopped EXCEPT !.p = TaskFinished(r, @, fired.task)],
                    <<CompletedMsg(fired.task, r)>>)

-----------------------------------------------------------------------------
(* _tick: the participant's tick, then its aborts, then its dispatches. *)

\* Fault: aborts are not heeded.
AfterAbortsUnheeded(node, step) == node

AfterAborts(node, step) ==
  IF step.aborted = {} THEN node ELSE CancelExecution(node)

NodeTick(r, node, now) ==
  {LET ticked == [node EXCEPT !.p = step.p]
       kept   == AfterAborts(ticked, step)
   IN  IF step.raised
       THEN Raised(ticked, <<>>)
       ELSE IF ~ step.dispatched \subseteq step.p.tasks
       THEN Raised(kept, step.out)
       ELSE Returned(FoldSet(LAMBDA t, n : StartExecution(n, t, now),
                             kept, step.dispatched),
                     step.out)
   : step \in Tick(r, node.p, now)}

=============================================================================

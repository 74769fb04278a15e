------------------------------ MODULE TaskDag ------------------------------
(***************************************************************************)
(* auction_core/scheduling/dag.py: which of a set of known tasks can run,   *)
(* given the prerequisites every task is defined with.                      *)
(***************************************************************************)
EXTENDS Integers, FiniteSets

CONSTANT Prerequisites  \* task id -> the set of the ids it depends on

\* Every prerequisite is a known task.
Closed(tasks) == \A t \in tasks : Prerequisites[t] \subseteq tasks

\* No task waits for itself: what _topological_order finds out by removing
\* tasks without open prerequisites until none is left.
Acyclic(tasks) ==
  \A S \in (SUBSET tasks) \ {{}} : \E t \in S : Prerequisites[t] \cap S = {}

\* TaskDag(tasks) does not raise.
WellFormed(tasks) == Closed(tasks) /\ Acyclic(tasks)

\* Fault: one finished prerequisite is enough.
AvailableEarly(tasks, completed) ==
  {t \in tasks \ completed :
     Prerequisites[t] = {} \/ Prerequisites[t] \cap completed # {}}

\* Fault: prerequisites are not looked at.
AvailableAtOnce(tasks, completed) == tasks \ completed

Available(tasks, completed) ==
  {t \in tasks \ completed : Prerequisites[t] \subseteq completed}

\* Fault: only the tasks that name it are blocked.
DependentsDirect(tasks, task) == {t \in tasks : task \in Prerequisites[t]}

\* dependents: the tasks that need this one, directly or not.
Dependents(tasks, task) ==
  LET within[k \in 0..Cardinality(tasks)] ==
        IF k = 0
        THEN {}
        ELSE LET needed == {task} \cup within[k - 1]
             IN  {t \in tasks : Prerequisites[t] \cap needed # {}}
  IN  within[Cardinality(tasks)]

=============================================================================

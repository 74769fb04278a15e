---------------------------- MODULE TaskMission ----------------------------
(***************************************************************************)
(* What a fleet promises, whatever it does to get there: every task that is *)
(* known is carried out once, by one worker, after all it depends on; and   *)
(* what it keeps to in any case: only known tasks, none before what it      *)
(* depends on, and none completed that nobody carried out.                  *)
(***************************************************************************)
CONSTANTS
  Task,
  Worker,
  Given,    \* the tasks known from the start
  Needs,    \* task -> the tasks it depends on
  Nothing   \* what an idle worker does

VARIABLES
  known,     \* tasks that were asked for
  doing,     \* worker -> the task it carries out, or Nothing
  completed  \* tasks carried out

vars == <<known, doing, completed>>

Init ==
  /\ known = Given
  /\ doing = [w \in Worker |-> Nothing]
  /\ completed = {}

Ask(t) ==
  /\ t \in Task \ known
  /\ known' = known \cup {t}
  /\ UNCHANGED <<doing, completed>>

UnderWay == {doing[w] : w \in Worker} \ {Nothing}

\* What it depends on is carried out.
Undertake(w, t) ==
  /\ t \in known /\ Needs[t] \subseteq completed
  /\ doing' = [doing EXCEPT ![w] = t]
  /\ UNCHANGED <<known, completed>>

\* Nobody is at it, and nobody was.
Begin(w, t) ==
  /\ doing[w] = Nothing /\ t \notin completed \cup UnderWay
  /\ Undertake(w, t)

\* A worker that dies or is told to stop leaves the task open.
Abandon(w) ==
  /\ doing[w] # Nothing
  /\ doing' = [doing EXCEPT ![w] = Nothing]
  /\ UNCHANGED <<known, completed>>

\* Several workers may be done at the same time.
Complete(ws) ==
  /\ ws # {} /\ \A w \in ws : doing[w] # Nothing
  /\ completed' = completed \cup {doing[w] : w \in ws}
  /\ doing' = [w \in Worker |-> IF w \in ws THEN Nothing ELSE doing[w]]
  /\ UNCHANGED known

Next ==
  \/ \E t \in Task : Ask(t)
  \/ \E w \in Worker, t \in Task : Begin(w, t)
  \/ \E w \in Worker : Abandon(w)
  \/ \E ws \in SUBSET Worker : Complete(ws)

Spec == Init /\ [][Next]_vars

\* What is left of the promise without the exclusion: a task may be undertaken
\* by several workers, again, and in the place of another.
Attempt ==
  \/ \E t \in Task : Ask(t)
  \/ \E w \in Worker, t \in Task : Undertake(w, t)
  \/ \E w \in Worker : Abandon(w)
  \/ \E ws \in SUBSET Worker : Complete(ws)

AtLeastOnce == Init /\ [][Attempt]_vars

=============================================================================

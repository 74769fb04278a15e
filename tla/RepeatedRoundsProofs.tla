------------------------ MODULE RepeatedRoundsProofs ------------------------
(***************************************************************************)
(* The theorems about RepeatedRounds.tla: whatever the mission, the fleet   *)
(* and the results of the rounds, the schedule can be executed, leaves no   *)
(* robot idle that could work, and accounts for every task.                 *)
(***************************************************************************)
EXTENDS RepeatedRounds, FoldLemmas

-----------------------------------------------------------------------------
(* Task DAGs *)

\* The dependents of a task are the tasks that name it or one of them.
LEMMA DependentsAreClosed ==
  ASSUME NEW T, IsFiniteSet(T), NEW task
  PROVE  /\ Dependents(T, task) \subseteq T
         /\ \A t \in T : t \in Dependents(T, task) <=>
                        Prerequisites[t] \cap ({task} \cup Dependents(T, task)) # {}
<1> DEFINE n == Cardinality(T)
           Needing(W) == {t \in T : Prerequisites[t] \cap ({task} \cup W) # {}}
           step == [p \in (1..n) \X SUBSET T |-> Needing(p[2])]
           Within(g) == g = [k \in 0..n |->
                               IF k = 0
                               THEN {}
                               ELSE LET needed == {task} \cup g[k - 1]
                                    IN  {t \in T : Prerequisites[t] \cap needed # {}}]
           within == CHOOSE g : Within(g)
<1>1. n \in Nat
  BY FS_CardinalityType
<1>2. \A W \in SUBSET T : Needing(W) \in SUBSET T
  OBVIOUS
<1>3. \E g \in [0..n -> SUBSET T] : ByPrefix(g, n, {}, step)
  <2>1. step \in [(1..n) \X SUBSET T -> SUBSET T]
    OBVIOUS
  <2>2. {} \in SUBSET T
    OBVIOUS
  <2> HIDE DEF step, n
  <2> QED
    BY <1>1, <2>1, <2>2, PrefixFunction, Zenon
<1>4. \E g : Within(g)
  <2>1. PICK g \in [0..n -> SUBSET T] : ByPrefix(g, n, {}, step)
    BY <1>3
  <2>2. ASSUME NEW k \in 0..n, k # 0 PROVE g[k] = Needing(g[k - 1])
    <3>1. k \in 1..n /\ k - 1 \in 0..n
      BY <1>1, <2>2
    <3>2. g[k] = step[<<k, g[k - 1]>>] /\ g[k - 1] \in SUBSET T
      BY <2>1, <2>2, <3>1 DEF ByPrefix
    <3> QED
      BY <3>1, <3>2
  <2>3. \A k \in 0..n : k = 0 => g[k] = {}
    BY <2>1 DEF ByPrefix
  <2>4. g = [k \in 0..n |-> g[k]]
    OBVIOUS
  <2>5. \A k \in 0..n : g[k] = IF k = 0 THEN {} ELSE Needing(g[k - 1])
    BY <2>2, <2>3
  <2>6. Within(g)
    <3> HIDE DEF n
    <3> QED
      BY <2>4, <2>5, Zenon
  <2> HIDE DEF Within
  <2> QED
    BY <2>6
<1>5. Within(within)
  <2> HIDE DEF Within
  <2> QED
    BY <1>4
<1>6. Dependents(T, task) = within[n]
  BY DEF Dependents
<1>7. /\ within[0] = {}
      /\ \A k \in 1..n : within[k] = Needing(within[k - 1])
  <2> HIDE DEF within, n
  <2>1. within = [k \in 0..n |-> IF k = 0 THEN {} ELSE Needing(within[k - 1])]
    BY <1>5, Zenon
  <2>2. \A k \in 0..n : within[k] = IF k = 0 THEN {} ELSE Needing(within[k - 1])
    BY <2>1, Zenon
  <2>3. 0 \in 0..n /\ \A k \in 1..n : k \in 0..n /\ k # 0
    BY <1>1
  <2> QED
    BY <2>2, <2>3
<1> HIDE DEF within, Within, step
\* As long as a round adds a task, there are as many as there were rounds.
<1> DEFINE Grown == {k \in 0..n : /\ within[k] \in SUBSET T
                                 /\ within[k] \subseteq Needing(within[k])
                                 /\ \/ Needing(within[k]) = within[k]
                                    \/ Cardinality(within[k]) >= k}
<1>8. 0 \in Grown
  BY <1>1, <1>7, FS_EmptySet
<1>9. ASSUME NEW k \in 1..n, k - 1 \in Grown PROVE k \in Grown
  <2> DEFINE V == within[k - 1]
             W == within[k]
  <2>1. /\ V \in SUBSET T /\ V \subseteq Needing(V)
        /\ Needing(V) = V \/ Cardinality(V) >= k - 1
    BY <1>9
  <2>2. W = Needing(V)
    BY <1>7
  <2>3. W \in SUBSET T /\ V \subseteq W
    BY <1>2, <2>1, <2>2
  <2>4. W \subseteq Needing(W)
    BY <2>2, <2>3
  <2>5. CASE Needing(V) = V
    BY <1>1, <2>2, <2>3, <2>4, <2>5
  <2>6. CASE Needing(V) # V
    <3>1. W # V
      BY <2>2, <2>6
    <3>2. IsFiniteSet(W)
      BY <2>3, FS_Subset
    <3>3. /\ Cardinality(V) <= Cardinality(W)
          /\ Cardinality(W) = Cardinality(V) => W = V
      <4> HIDE DEF V, W
      <4>1. V \in SUBSET W
        BY <2>3
      <4> QED
        BY <3>2, <4>1, FS_Subset
    <3>4. Cardinality(V) \in Nat /\ Cardinality(W) \in Nat
      BY <2>1, <3>2, FS_Subset, FS_CardinalityType
    <3>5. Cardinality(W) >= k
      <4> HIDE DEF V, W, Needing
      <4>1. Cardinality(V) >= k - 1 /\ Cardinality(V) < Cardinality(W)
        BY <2>1, <2>6, <3>1, <3>3, <3>4
      <4> QED
        BY <3>4, <4>1
    <3> QED
      BY <1>1, <2>3, <2>4, <3>5
  <2> QED
    BY <2>5, <2>6
<1>10. n \in Grown
  <2> HIDE DEF Grown, n
  <2>1. \A k \in 0..n : k \in Grown
    BY <1>1, <1>8, <1>9, PrefixInduction, Zenon
  <2> QED
    BY <1>1, <2>1
<1>11. within[n] \in SUBSET T /\ Needing(within[n]) = within[n]
  <2> DEFINE W == within[n]
  <2>1. /\ W \in SUBSET T /\ W \subseteq Needing(W)
        /\ Needing(W) = W \/ Cardinality(W) >= n
    BY <1>10
  <2>2. CASE Cardinality(W) >= n
    <3>1. Cardinality(W) <= n /\ (Cardinality(T) = Cardinality(W) => T = W)
          /\ IsFiniteSet(W)
      <4> HIDE DEF W
      <4> QED
        BY <2>1, FS_Subset
    <3>2. Cardinality(W) \in Nat
      BY <3>1, FS_CardinalityType
    <3>3. T = W
      BY <1>1, <2>2, <3>1, <3>2
    <3> QED
      BY <1>2, <2>1, <3>3
  <2> QED
    BY <2>1, <2>2
<1> DEFINE D == Dependents(T, task)
<1>12. D \in SUBSET T /\ Needing(D) = D
  BY <1>6, <1>11
<1> HIDE DEF D
<1>13. D \subseteq T /\ \A t \in T : t \in D <=> Prerequisites[t] \cap ({task} \cup D) # {}
  BY <1>12
<1> QED
  BY <1>13 DEF D

-----------------------------------------------------------------------------
(* The invariant *)

Entry == [task : Task, robot : Nat, start : Nat, finish : Nat]

UnderWay == ToSet(running)

\* Each robot of the list once.
OnePerRobot(list) ==
  \A i, j \in DOMAIN list : list[i].robot = list[j].robot => i = j

ArgsOK ==
  /\ robots \in RobotChoices /\ tasks \in TaskChoices
  /\ collaborative \in CollaborativeChoices
  /\ schedulable = tasks \ (Unsupported \cup Blocked)

RobotStates == [place : Task \cup {Home[r] : r \in robots}, workload : Nat]

StateOK ==
  /\ state \in [robots -> RobotStates]
  /\ \A r \in robots : state[r].place \in Task \cup {Home[r]}

PlanTyped ==
  /\ ArgsOK /\ StateOK
  /\ now \in Nat
  /\ running \in Seq(Entry)
  /\ completed \subseteq schedulable /\ unallocated \subseteq tasks
  /\ outcome \in {"running", "done", "raised"}
  /\ schedule \subseteq Entry /\ IsFiniteSet(schedule)
  /\ \A e \in schedule : e.task \in schedulable /\ e.robot \in robots

\* What is under way has started and is not over, one task per robot.
UnderWayOK ==
  /\ UnderWay \subseteq schedule
  /\ OnePerRobot(running)
  /\ \A e \in UnderWay : e.finish >= now /\ e.task \notin completed

\* The rest is over, and what is completed was scheduled.
OverOK ==
  /\ \A e \in schedule : e.start <= now /\ e.start <= e.finish
  /\ \A e \in schedule \ UnderWay : e.finish <= now /\ e.task \in completed
  /\ \A t \in completed : \E e \in schedule : e.task = t /\ e.finish <= now

PlanInv == PlanTyped /\ UnderWayOK /\ OverOK /\ ScheduleSound

\* Robots and tasks.
LEMMA RobotsAndTasks ==
  ASSUME PlanTyped
  PROVE  /\ IsFiniteSet(robots) /\ robots \subseteq Nat
         /\ tasks \subseteq Task /\ schedulable \subseteq tasks
         /\ IsFiniteSet(tasks)
         /\ Task \subseteq Nat
<1>1. tasks \subseteq Task /\ Task \subseteq Nat /\ IsFiniteSet(Task)
  BY AllocatorAssumption DEF AllocatorAssumption, PlanTyped, ArgsOK
<1>2. IsFiniteSet(tasks)
  BY <1>1, FS_Subset
<1> QED
  BY <1>1, <1>2, AllocatorAssumption DEF AllocatorAssumption, PlanTyped, ArgsOK

\* How long robot r takes for task t from where it is.
LEMMA TripTakesTime ==
  ASSUME PlanTyped, NEW r \in robots, NEW t \in Task
  PROVE  Travel[r][state[r].place][t] \in Nat /\ Duration[t] \in Nat
<1>1. state[r].place \in Task \cup {Home[r]} /\ robots \in RobotChoices
  BY DEF PlanTyped, StateOK, ArgsOK
<1> QED
  BY <1>1, AllocatorAssumption DEF AllocatorAssumption

\* The idle slots a round is padded with.
Slots == IdleSlots(Deficit(Cardinality(Idle), Cardinality(AvailableNow)))

LEMMA RoundOffers ==
  ASSUME RoundDue
  PROVE  /\ DOMAIN RoundBenefits = Idle
         /\ \A r \in Idle : DOMAIN RoundBenefits[r] = AvailableNow \cup Slots
         /\ UNION {DOMAIN RoundBenefits[r] : r \in Idle} = AvailableNow \cup Slots
<1>1. DOMAIN RoundBenefits = Idle
  BY DEF RoundBenefits
<1>2. \A r \in Idle : DOMAIN RoundBenefits[r] = AvailableNow \cup Slots
  <2>1. ASSUME NEW row, NEW n
        PROVE  DOMAIN Padded(row, n) = DOMAIN row \cup IdleSlots(n)
    BY DEF Padded
  <2> SUFFICES ASSUME NEW r \in Idle
               PROVE  DOMAIN RoundBenefits[r] = AvailableNow \cup Slots
    OBVIOUS
  <2> DEFINE row == [t \in AvailableNow |-> Benefit(r, state[r], t)]
             n == Deficit(Cardinality(Idle), Cardinality(AvailableNow))
  <2>2. RoundBenefits[r] = Padded(row, n)
    BY DEF RoundBenefits
  <2>3. DOMAIN row = AvailableNow
    OBVIOUS
  <2> HIDE DEF row
  <2> QED
    BY <2>1, <2>2, <2>3 DEF Slots
<1>3. Idle # {}
  BY DEF RoundDue
<1> QED
  BY <1>1, <1>2, <1>3

\* There are as many slots as robots without a task.
LEMMA SlotsCount ==
  ASSUME PlanTyped
  PROVE  /\ IsFiniteSet(Idle) /\ Cardinality(Idle) \in Nat
         /\ IsFiniteSet(AvailableNow) /\ Cardinality(AvailableNow) \in Nat
         /\ AvailableNow \subseteq Nat
         /\ IsFiniteSet(Slots) /\ Slots \cap AvailableNow = {}
         /\ Cardinality(Slots) = Deficit(Cardinality(Idle), Cardinality(AvailableNow))
         /\ Cardinality(Slots) \in Nat
         /\ Cardinality(Idle) <= Cardinality(AvailableNow) + Cardinality(Slots)
<1> DEFINE n == Cardinality(Idle)
           m == Cardinality(AvailableNow)
           k == Deficit(n, m)
<1>1. IsFiniteSet(Idle) /\ n \in Nat
  BY RobotsAndTasks, FS_Subset, FS_CardinalityType DEF Idle
<1>2. AvailableNow \subseteq Nat /\ IsFiniteSet(AvailableNow) /\ m \in Nat
  <2>1. AvailableNow \subseteq tasks
    BY RobotsAndTasks DEF AvailableNow, Available
  <2> QED
    BY <2>1, RobotsAndTasks, FS_Subset, FS_CardinalityType
<1> HIDE DEF n, m
<1>3. k \in Nat /\ n <= m + k
  BY <1>1, <1>2 DEF Deficit
<1> HIDE DEF k
<1>4. IdleSlots(k) = (0 - k)..(0 - 1)
  <2>1. \A i \in (0 - k)..(0 - 1) : 0 - i \in 1..k /\ i = 0 - (0 - i)
    BY <1>3
  <2>2. \A i \in 1..k : 0 - i \in (0 - k)..(0 - 1)
    BY <1>3
  <2> QED
    BY <2>1, <2>2 DEF IdleSlots
<1>5. IsFiniteSet(IdleSlots(k)) /\ Cardinality(IdleSlots(k)) = k
  <2>1. /\ IsFiniteSet((0 - k)..(0 - 1))
        /\ Cardinality((0 - k)..(0 - 1)) =
             IF 0 - k > 0 - 1 THEN 0 ELSE (0 - 1) - (0 - k) + 1
    <3>1. 0 - k \in Int /\ 0 - 1 \in Int
      BY <1>3
    <3> QED
      BY <3>1, FS_Interval
  <2> QED
    BY <1>3, <1>4, <2>1
<1>6. AvailableNow \cap IdleSlots(k) = {}
  BY <1>2, <1>3, <1>4
<1>7. Slots = IdleSlots(k)
  BY DEF Slots, k, n, m
<1> QED
  BY <1>1, <1>2, <1>3, <1>5, <1>6, <1>7 DEF k, n, m

LEMMA SlotsFillUp ==
  ASSUME PlanTyped
  PROVE  /\ IsFiniteSet(Idle) /\ IsFiniteSet(AvailableNow \cup Slots)
         /\ Cardinality(Idle) <= Cardinality(AvailableNow \cup Slots)
<1>1. /\ IsFiniteSet(AvailableNow \cup Slots)
      /\ Cardinality(AvailableNow \cup Slots) =
           Cardinality(AvailableNow) + Cardinality(Slots) - Cardinality(AvailableNow \cap Slots)
  BY SlotsCount, FS_Union
<1>2. AvailableNow \cap Slots = {}
  BY SlotsCount
<1>3. Cardinality(AvailableNow \cap Slots) = 0
  BY <1>2, FS_EmptySet
<1> QED
  BY <1>1, <1>3, SlotsCount

\* There are fewer slots than idle robots, so that one wins a task.
LEMMA SomebodyWins ==
  ASSUME PlanTyped, RoundDue, NEW won \in RoundResults
  PROVE  \E r \in Idle : won[r] \in AvailableNow
<1> SUFFICES ASSUME \A r \in Idle : won[r] \notin AvailableNow PROVE FALSE
  OBVIOUS
<1> DEFINE n == Cardinality(Idle)
           m == Cardinality(AvailableNow)
           k == Deficit(n, m)
<1>1. won \in Injection(Idle, AvailableNow \cup Slots)
  <2>1. won \in Injection(DOMAIN RoundBenefits,
                         UNION {DOMAIN RoundBenefits[r] : r \in DOMAIN RoundBenefits})
    BY Zenon DEF RoundResults, RoundOutcomes
  <2> QED
    BY <2>1, RoundOffers
<1>2. won \in Injection(Idle, Slots)
  BY <1>1 DEF Injection, IsInjective
<1>3. IsFiniteSet(Slots) /\ Cardinality(Slots) = k /\ n \in Nat /\ m \in Nat
  BY SlotsCount DEF Slots
<1>4. n <= k
  BY <1>2, <1>3, SlotsFillUp, FS_Injection
<1>5. n > 0 /\ m > 0
  <2>1. Idle # {} /\ AvailableNow # {}
    BY DEF RoundDue
  <2>2. IsFiniteSet(Idle) /\ IsFiniteSet(AvailableNow)
    BY SlotsFillUp, SlotsCount
  <2>3. n # 0 /\ m # 0
    BY <2>1, <2>2, FS_EmptySet
  <2> QED
    BY <1>3, <2>3
<1> HIDE DEF n, m
<1> QED
  BY <1>3, <1>4, <1>5 DEF Deficit

\* What RunRound does.
RoundStarts(entries) ==
  /\ entries \subseteq Entry /\ IsFiniteSet(entries) /\ entries # {}
  /\ \A e \in entries : /\ e.task \in AvailableNow /\ e.robot \in Idle
                        /\ e.start = now
                        /\ e.finish = now + Travel[e.robot][state[e.robot].place][e.task]
                                           + Duration[e.task]
  /\ \A d, e \in entries : d.task = e.task \/ d.robot = e.robot => d = e
  /\ running' \in Seq(Entry)
  /\ UnderWay' = UnderWay \cup entries
  /\ OnePerRobot(running')
  /\ schedule' = schedule \cup entries
  /\ StateOK'
  /\ \A r \in robots : state'[r].place = state[r].place
  /\ \A e \in entries :
       state'[e.robot].workload = state[e.robot].workload + Duration[e.task]
  /\ \A r \in robots : (\A e \in entries : e.robot # r) => state'[r] = state[r]
  /\ UNCHANGED <<mission, now, completed, unallocated, outcome>>

LEMMA RunRoundStarts ==
  ASSUME PlanTyped, UnderWayOK, RunRound
  PROVE  \E entries : RoundStarts(entries)
<1> DEFINE entry(won, r) ==
             [task |-> won[r], robot |-> r, start |-> now,
              finish |-> now + Travel[r][state[r].place][won[r]] + Duration[won[r]]]
           winners(won) == {r \in Idle : won[r] >= 0}
<1>1. PICK won \in RoundResults :
        /\ \E started \in SetToSeqs({entry(won, r) : r \in winners(won)}) :
             running' = running \o started
        /\ schedule' = schedule \cup {entry(won, r) : r \in winners(won)}
        /\ state' = [r \in robots |->
                       IF r \in winners(won)
                       THEN [state[r] EXCEPT !.workload = @ + Duration[won[r]]]
                       ELSE state[r]]
  BY DEF RunRound
<1>2. /\ \A r \in Idle : won[r] >= 0 => won[r] \in AvailableNow
      /\ \A q, r \in Idle : won[q] = won[r] => q = r
  <2>1. PICK n : won \in Injection(Idle, AvailableNow \cup IdleSlots(n))
    <3>1. won \in Injection(DOMAIN RoundBenefits,
                           UNION {DOMAIN RoundBenefits[r] : r \in DOMAIN RoundBenefits})
      BY Zenon DEF RoundResults, RoundOutcomes
    <3>2. won \in Injection(Idle, AvailableNow \cup Slots)
      BY <3>1, RoundOffers DEF RunRound
    <3> QED
      BY <3>2 DEF Slots
  <2>2. \A t \in IdleSlots(n) : ~ (t >= 0)
    BY DEF IdleSlots
  <2> QED
    BY <2>1, <2>2 DEF Injection, IsInjective
<1> DEFINE W == winners(won)
           entries == {entry(won, r) : r \in W}
<1>3. W \subseteq robots /\ IsFiniteSet(W)
  BY RobotsAndTasks, FS_Subset DEF Idle
<1>4. ASSUME NEW r \in W
      PROVE  /\ entry(won, r) \in Entry
             /\ r \in Idle /\ won[r] \in AvailableNow
             /\ Duration[won[r]] \in Nat
  <2>1. r \in Idle /\ r \in robots /\ won[r] \in AvailableNow
    BY <1>2, <1>3
  <2>2. won[r] \in Task
    BY <2>1, RobotsAndTasks DEF AvailableNow, Available
  <2>3. /\ Travel[r][state[r].place][won[r]] \in Nat /\ Duration[won[r]] \in Nat
        /\ now \in Nat /\ r \in Nat
    BY <2>1, <2>2, TripTakesTime, RobotsAndTasks DEF PlanTyped
  <2> QED
    BY <2>1, <2>2, <2>3 DEF Entry
<1>5. IsFiniteSet(entries)
  <2> DEFINE g == [r \in W |-> entry(won, r)]
  <2>1. g \in Surjection(W, entries)
    BY DEF Surjection
  <2> HIDE DEF g, W, entries
  <2> QED
    BY <1>3, <2>1, FS_Surjection
<1>6. PICK started \in SetToSeqs(entries) : running' = running \o started
  BY <1>1
<1>7. \A e \in entries : \E r \in W : e = entry(won, r)
  OBVIOUS
<1>8. \A d, e \in entries : d.task = e.task \/ d.robot = e.robot => d = e
  <2> SUFFICES ASSUME NEW d \in entries, NEW e \in entries,
                      d.task = e.task \/ d.robot = e.robot
               PROVE  d = e
    OBVIOUS
  <2>1. PICK q \in W : d = entry(won, q)
    OBVIOUS
  <2>2. PICK r \in W : e = entry(won, r)
    OBVIOUS
  <2>3. won[q] = won[r] \/ q = r
    BY <2>1, <2>2
  <2>4. q = r
    BY <1>2, <2>3
  <2> QED
    BY <2>1, <2>2, <2>4
<1>9. entries \subseteq Entry
  BY <1>4
<1>10. \A e \in entries : /\ e.task \in AvailableNow /\ e.robot \in Idle
                          /\ e.start = now
                          /\ e.finish = now + Travel[e.robot][state[e.robot].place][e.task]
                                             + Duration[e.task]
  BY <1>4
<1>11. StateOK' /\ \A r \in robots : state'[r].place = state[r].place
  <2>1. robots' = robots
    BY DEF RunRound, mission
  <2>2. state \in [robots -> RobotStates]
    BY DEF PlanTyped, StateOK
  <2>3. ASSUME NEW r \in robots
        PROVE  state'[r] \in RobotStates /\ state'[r].place = state[r].place
    <3>1. CASE r \in W
      <4>1. state'[r] = [state[r] EXCEPT !.workload = @ + Duration[won[r]]]
        BY <1>1, <3>1
      <4>2. Duration[won[r]] \in Nat
        BY <1>4, <3>1
      <4>3. state[r] \in RobotStates
        BY <2>2
      <4> HIDE DEF W
      <4> QED
        BY <4>1, <4>2, <4>3 DEF RobotStates
    <3>2. CASE r \notin W
      BY <1>1, <2>2, <3>2
    <3> QED
      BY <3>1, <3>2
  <2>4. state' \in [robots -> RobotStates]
    <3>1. state' = [r \in robots |-> state'[r]]
      BY <1>1
    <3> QED
      BY <2>3, <3>1
  <2> QED
    BY <2>1, <2>3, <2>4 DEF PlanTyped, StateOK, RobotStates
<1>12. schedule' = schedule \cup entries
  BY <1>1
<1> HIDE DEF entries, W
<1>13. /\ started \in Seq(Entry) /\ ToSet(started) = entries
       /\ \A i, j \in DOMAIN started : started[i] = started[j] => i = j
  <2>1. /\ started \in Seq(entries) /\ ToSet(started) = entries
        /\ \A i, j \in DOMAIN started : started[i] = started[j] => i = j
    BY <1>5, ListsOfSet
  <2> QED
    BY <1>9, <2>1
<1>14. /\ running' \in Seq(Entry)
       /\ ToSet(running') = ToSet(running) \cup entries
       /\ DOMAIN running' = 1..(Len(running) + Len(started))
       /\ \A i \in DOMAIN running : running'[i] = running[i]
       /\ \A i \in DOMAIN running' :
            i \notin DOMAIN running =>
              /\ i - Len(running) \in DOMAIN started
              /\ running'[i] = started[i - Len(running)]
  BY <1>6, <1>13, BothInOrder DEF PlanTyped
<1>15. OnePerRobot(running')
  <2> SUFFICES ASSUME NEW i \in DOMAIN running', NEW j \in DOMAIN running',
                      running'[i].robot = running'[j].robot
               PROVE  i = j
    BY DEF OnePerRobot
  <2>1. ASSUME NEW k \in DOMAIN running', k \notin DOMAIN running
        PROVE  running'[k].robot \in Idle
    BY <1>10, <1>13, <1>14, <2>1 DEF ToSet
  <2>2. ASSUME NEW k \in DOMAIN running PROVE running'[k].robot \notin Idle
    BY <1>14 DEF Idle, ToSet
  <2>3. CASE i \in DOMAIN running /\ j \in DOMAIN running
    BY <1>14, <2>3 DEF UnderWayOK, OnePerRobot
  <2>4. CASE i \notin DOMAIN running /\ j \notin DOMAIN running
    <3>1. /\ i - Len(running) \in DOMAIN started /\ j - Len(running) \in DOMAIN started
          /\ started[i - Len(running)].robot = started[j - Len(running)].robot
      BY <1>14, <2>4
    <3>2. started[i - Len(running)] = started[j - Len(running)]
      BY <1>8, <1>13, <3>1 DEF ToSet
    <3>3. i - Len(running) = j - Len(running)
      BY <1>13, <3>1, <3>2
    <3>4. i \in Int /\ j \in Int /\ Len(running) \in Int
      BY <1>14 DEF PlanTyped
    <3> QED
      BY <3>3, <3>4
  <2> QED
    BY <2>1, <2>2, <2>3, <2>4
<1>16. UNCHANGED <<mission, now, completed, unallocated, outcome>>
  BY DEF RunRound
<1>17. /\ \A e \in entries :
            state'[e.robot].workload = state[e.robot].workload + Duration[e.task]
       /\ \A r \in robots : (\A e \in entries : e.robot # r) => state'[r] = state[r]
  <2>1. ASSUME NEW e \in entries
        PROVE  state'[e.robot].workload = state[e.robot].workload + Duration[e.task]
    <3>1. PICK r \in W : e = entry(won, r)
      BY <1>7
    <3>2. e.robot = r /\ e.task = won[r]
      BY <3>1
    <3>3. /\ state'[r] = [state[r] EXCEPT !.workload = @ + Duration[won[r]]]
          /\ state[r] \in RobotStates
      BY <1>1, <1>3 DEF W, PlanTyped, StateOK
    <3> QED
      BY <3>2, <3>3 DEF RobotStates
  <2>2. ASSUME NEW r \in robots, \A e \in entries : e.robot # r
        PROVE  state'[r] = state[r]
    <3>1. ASSUME r \in W PROVE FALSE
      <4>1. entry(won, r) \in entries /\ entry(won, r).robot = r
        BY <3>1 DEF entries
      <4> HIDE DEF entry
      <4> QED
        BY <2>2, <4>1
    <3> QED
      BY <1>1, <3>1 DEF W
  <2> QED
    BY <2>1, <2>2
<1>18. entries # {}
  <2>1. PICK r \in Idle : won[r] \in AvailableNow
    BY <1>1, SomebodyWins DEF RunRound
  <2>2. won[r] >= 0
    BY <2>1, SlotsCount
  <2>3. entry(won, r) \in entries
    BY <2>2 DEF entries, W
  <2> QED
    BY <2>3
<1>19. RoundStarts(entries)
  BY <1>5, <1>8, <1>9, <1>10, <1>11, <1>12, <1>14, <1>15, <1>16, <1>17, <1>18
  DEF RoundStarts, UnderWay
<1> QED
  BY <1>19

\* Something ends first.
LEMMA FirstEnds ==
  ASSUME running \in Seq(Entry), running # <<>>
  PROVE  /\ FirstToEnd \in DOMAIN running
         /\ \A j \in DOMAIN running : running[FirstToEnd].finish <= running[j].finish
<1> DEFINE D == DOMAIN running
           Sooner(x, y) == \/ running[y].finish < running[x].finish
                           \/ running[y].finish = running[x].finish /\ y < x
           R == {p \in D \X D : Sooner(p[1], p[2])}
<1>1. D = 1..Len(running) /\ Len(running) \in Nat /\ D # {}
  OBVIOUS
<1>2. IsFiniteSet(D)
  BY <1>1, FS_Interval
<1>3. \A x \in D : running[x].finish \in Nat /\ x \in Nat
  <2>1. \A x \in D : running[x] \in Entry
    OBVIOUS
  <2>2. \A e \in Entry : e.finish \in Nat
    BY DEF Entry
  <2>3. \A x \in D : x \in Nat
    BY <1>1
  <2> QED
    BY <2>1, <2>2, <2>3
<1>4. \A x, y \in D : <<x, y>> \in R <=> Sooner(x, y)
  OBVIOUS
<1>5. \A x, y, z \in D : Sooner(x, y) /\ Sooner(y, z) => Sooner(x, z)
  BY <1>3
<1>6. \A x \in D : ~Sooner(x, x)
  BY <1>3
<1>7. \E x \in D : \A y \in D : <<x, y>> \notin R
  <2> HIDE DEF D, R, Sooner
  <2>1. \A x, y, z \in D : <<x, y>> \in R /\ <<y, z>> \in R => <<x, z>> \in R
    BY <1>4, <1>5
  <2>2. \A x \in D : <<x, x>> \notin R
    BY <1>4, <1>6
  <2>3. D # {}
    BY <1>1
  <2> QED
    BY <1>2, <2>1, <2>2, <2>3, FiniteSetHasMaximal, Zenon
<1>8. \E x \in D : \A y \in D : ~Sooner(x, y)
  <2> HIDE DEF D, R, Sooner
  <2> QED
    BY <1>4, <1>7
<1>9. \E i \in D : \A j \in D : \/ running[i].finish < running[j].finish
                                \/ running[i].finish = running[j].finish /\ i <= j
  <2>1. PICK i \in D : \A j \in D : ~Sooner(i, j)
    BY <1>8
  <2>2. ASSUME NEW j \in D
        PROVE  \/ running[i].finish < running[j].finish
               \/ running[i].finish = running[j].finish /\ i <= j
    <3>1. ~Sooner(i, j)
      BY <2>1
    <3>2. running[i].finish \in Nat /\ running[j].finish \in Nat /\ i \in Nat /\ j \in Nat
      BY <1>3
    <3> HIDE DEF D
    <3> QED
      BY <3>1, <3>2
  <2> QED
    BY <2>2
<1>10. /\ FirstToEnd \in D
       /\ \A j \in D : \/ running[FirstToEnd].finish < running[j].finish
                       \/ running[FirstToEnd].finish = running[j].finish /\ FirstToEnd <= j
  <2> HIDE DEF D
  <2> QED
    BY <1>9, Zenon DEF FirstToEnd, D
<1> QED
  BY <1>3, <1>10

\* What Advance does.
Ends(e) ==
  /\ e \in UnderWay
  /\ \A d \in UnderWay : e.finish <= d.finish
  /\ running' \in Seq(Entry)
  /\ UnderWay' = UnderWay \ {e}
  /\ OnePerRobot(running')
  /\ now' = e.finish
  /\ completed' = completed \cup {e.task}
  /\ state' = Moved(e)
  /\ UNCHANGED <<mission, schedule, unallocated, outcome>>

LEMMA AdvanceEnds ==
  ASSUME PlanTyped, UnderWayOK, Advance
  PROVE  \E e \in UnderWay : Ends(e)
<1> DEFINE i == FirstToEnd
           e == running[i]
<1>1. /\ i \in DOMAIN running
      /\ \A j \in DOMAIN running : e.finish <= running[j].finish
  BY FirstEnds DEF PlanTyped, Advance
<1>2. /\ running' = RemoveAt(running, i)
      /\ now' = e.finish
      /\ completed' = completed \cup {e.task}
      /\ state' = Moved(e)
      /\ UNCHANGED <<mission, schedule, unallocated, outcome>>
  BY DEF Advance
<1> HIDE DEF i
<1>3. /\ running' \in Seq(Entry)
      /\ DOMAIN running' = 1..(Len(running) - 1)
      /\ \A j \in DOMAIN running' :
           running'[j] = IF j < i THEN running[j] ELSE running[j + 1]
  BY <1>1, <1>2, AllButOne DEF PlanTyped
<1>4. /\ DOMAIN running = 1..Len(running) /\ Len(running) \in Nat
      /\ \A j, k \in DOMAIN running : running[j].robot = running[k].robot => j = k
  BY DEF PlanTyped, UnderWayOK, OnePerRobot
<1>5. ASSUME NEW j \in DOMAIN running'
      PROVE  \E k \in DOMAIN running : /\ k # i /\ running'[j] = running[k]
                                      /\ k = IF j < i THEN j ELSE j + 1
  <2>1. CASE j < i
    <3>1. j \in DOMAIN running /\ j # i
      BY <1>1, <1>3, <1>4, <2>1
    <3> QED
      BY <1>3, <2>1, <3>1
  <2>2. CASE ~ (j < i)
    <3>1. j + 1 \in DOMAIN running /\ j + 1 # i
      BY <1>1, <1>3, <1>4, <2>2
    <3> QED
      BY <1>3, <2>2, <3>1
  <2> QED
    BY <2>1, <2>2
<1>6. OnePerRobot(running')
  <2> SUFFICES ASSUME NEW j \in DOMAIN running', NEW k \in DOMAIN running',
                      running'[j].robot = running'[k].robot
               PROVE  j = k
    BY DEF OnePerRobot
  <2>1. PICK m \in DOMAIN running : running'[j] = running[m] /\ m = IF j < i THEN j ELSE j + 1
    BY <1>5
  <2>2. PICK n \in DOMAIN running : running'[k] = running[n] /\ n = IF k < i THEN k ELSE k + 1
    BY <1>5
  <2>3. m = n
    BY <1>4, <2>1, <2>2
  <2>4. j \in Int /\ k \in Int /\ i \in Int
    BY <1>1, <1>3, <1>4
  <2> QED
    BY <2>1, <2>2, <2>3, <2>4
<1>7. ToSet(running') = ToSet(running) \ {e}
  <2>1. ASSUME NEW d \in ToSet(running') PROVE d \in ToSet(running) \ {e}
    <3>1. PICK j \in DOMAIN running' : d = running'[j]
      BY DEF ToSet
    <3>2. PICK k \in DOMAIN running : k # i /\ d = running[k]
      BY <1>5, <3>1
    <3>3. d # e
      BY <1>1, <1>4, <3>2
    <3> QED
      BY <3>2, <3>3 DEF ToSet
  <2>2. ASSUME NEW d \in ToSet(running), d # e PROVE d \in ToSet(running')
    <3>1. PICK k \in DOMAIN running : d = running[k]
      BY DEF ToSet
    <3>2. k # i
      BY <2>2, <3>1
    <3>3. CASE k < i
      <4>1. k \in DOMAIN running' /\ running'[k] = d
        BY <1>1, <1>3, <1>4, <3>1, <3>3
      <4> QED
        BY <4>1 DEF ToSet
    <3>4. CASE ~ (k < i)
      <4>1. k - 1 \in DOMAIN running' /\ ~ (k - 1 < i) /\ (k - 1) + 1 = k
        BY <1>1, <1>3, <1>4, <3>2, <3>4
      <4>2. running'[k - 1] = d
        BY <1>3, <3>1, <4>1
      <4> QED
        BY <4>1, <4>2 DEF ToSet
    <3> QED
      BY <3>3, <3>4
  <2> QED
    BY <2>1, <2>2
<1>8. e \in UnderWay /\ \A d \in UnderWay : e.finish <= d.finish
  BY <1>1 DEF UnderWay, ToSet
<1> HIDE DEF e
<1>9. Ends(e)
  BY <1>2, <1>3, <1>6, <1>7, <1>8 DEF Ends, UnderWay
<1> QED
  BY <1>8, <1>9

-----------------------------------------------------------------------------
(* The schedule is sound *)

\* What a round starts is new, and can start now.
LEMMA EntriesAreNew ==
  ASSUME PlanInv, NEW entries, RoundStarts(entries), NEW e \in entries
  PROVE  /\ e \in Entry /\ e.task \in schedulable /\ e.robot \in robots
         /\ e.start = now /\ e.finish \in Nat /\ e.finish >= now + Duration[e.task]
         /\ Duration[e.task] \in Nat
         /\ e.task \notin completed /\ Prerequisites[e.task] \subseteq completed
         /\ \A d \in UnderWay : d.task # e.task /\ d.robot # e.robot
         /\ \A d \in schedule : /\ d.task # e.task
                                /\ d.robot = e.robot => d.finish <= now
<1>1. e \in Entry /\ e.task \in AvailableNow /\ e.robot \in Idle /\ e.start = now
  BY DEF RoundStarts
<1>2. /\ e.task \in schedulable /\ e.task \notin completed
      /\ Prerequisites[e.task] \subseteq completed
      /\ \A d \in UnderWay : d.task # e.task /\ d.robot # e.robot
  BY <1>1 DEF AvailableNow, Available, Idle, UnderWay
<1>3. e.robot \in robots
  BY <1>1 DEF Idle
<1>4. e.finish >= now + Duration[e.task] /\ Duration[e.task] \in Nat
  <2>1. /\ Travel[e.robot][state[e.robot].place][e.task] \in Nat
        /\ Duration[e.task] \in Nat
    <3>1. e.task \in Task
      BY <1>1 DEF Entry
    <3> QED
      BY <1>3, <3>1, TripTakesTime DEF PlanInv
  <2>2. e.finish = now + Travel[e.robot][state[e.robot].place][e.task] + Duration[e.task]
    BY DEF RoundStarts
  <2>3. now \in Nat
    BY DEF PlanInv, PlanTyped
  <2> QED
    BY <2>1, <2>2, <2>3
<1>5. ASSUME NEW d \in schedule
      PROVE  d.task # e.task /\ (d.robot = e.robot => d.finish <= now)
  <2>1. CASE d \in UnderWay
    BY <1>2, <2>1
  <2>2. CASE d \notin UnderWay
    BY <1>2, <2>2 DEF PlanInv, OverOK
  <2> QED
    BY <2>1, <2>2
<1> QED
  BY <1>1, <1>2, <1>3, <1>4, <1>5 DEF Entry

LEMMA RoundKeepsPlan ==
  ASSUME PlanInv, NEW entries, RoundStarts(entries)
  PROVE  PlanInv'
<1>1. /\ mission' = mission /\ now' = now /\ completed' = completed
      /\ unallocated' = unallocated /\ outcome' = outcome
      /\ robots' = robots /\ tasks' = tasks /\ schedulable' = schedulable
      /\ schedule' = schedule \cup entries /\ UnderWay' = UnderWay \cup entries
  BY DEF RoundStarts, mission
<1>2. /\ now \in Nat /\ schedule \subseteq Entry /\ entries \subseteq Entry
      /\ UnderWay \subseteq schedule
  BY DEF PlanInv, PlanTyped, UnderWayOK, RoundStarts
<1>3. ASSUME NEW e \in entries
      PROVE  /\ e \in Entry /\ e.task \in schedulable /\ e.robot \in robots
             /\ e.start = now /\ e.finish \in Nat /\ e.finish >= now
             /\ e.task \notin completed /\ Prerequisites[e.task] \subseteq completed
             /\ \A d \in schedule : /\ d.task # e.task
                                    /\ d.robot = e.robot => d.finish <= now
  <2>1. e.finish >= now + Duration[e.task] /\ Duration[e.task] \in Nat /\ e.finish \in Nat
    BY EntriesAreNew
  <2>2. e.finish >= now
    BY <1>2, <2>1
  <2> QED
    BY <2>1, <2>2, EntriesAreNew
<1>4. PlanTyped'
  <2>1. ArgsOK'
    BY DEF PlanInv, PlanTyped, ArgsOK, RoundStarts, mission, Unsupported, Blocked
  <2>2. schedule' \subseteq Entry /\ IsFiniteSet(schedule')
    <3>1. IsFiniteSet(schedule) /\ IsFiniteSet(entries)
      BY DEF PlanInv, PlanTyped, RoundStarts
    <3>2. IsFiniteSet(schedule \cup entries)
      BY <3>1, FS_Union
    <3> QED
      BY <1>1, <1>2, <3>2
  <2>3. \A e \in schedule' : e.task \in schedulable' /\ e.robot \in robots'
    BY <1>1, <1>3 DEF PlanInv, PlanTyped
  <2>4. running' \in Seq(Entry) /\ StateOK'
    BY DEF RoundStarts
  <2>5. /\ now' \in Nat /\ completed' \subseteq schedulable' /\ unallocated' \subseteq tasks'
        /\ outcome' \in {"running", "done", "raised"}
    BY <1>1 DEF PlanInv, PlanTyped
  <2> QED
    BY <2>1, <2>2, <2>3, <2>4, <2>5 DEF PlanTyped
<1>5. UnderWayOK'
  <2>1. OnePerRobot(running')
    BY DEF RoundStarts
  <2>2. \A e \in UnderWay' : e.finish >= now' /\ e.task \notin completed'
    BY <1>1, <1>3 DEF PlanInv, UnderWayOK
  <2> QED
    BY <1>1, <1>2, <2>1, <2>2 DEF UnderWayOK, OnePerRobot
<1>6. OverOK'
  <2>1. \A e \in entries : e.start <= now /\ e.start <= e.finish
    BY <1>2, <1>3
  <2> QED
    BY <1>1, <2>1 DEF PlanInv, OverOK
<1>7. ScheduleSound'
  <2> SUFFICES ASSUME NEW d \in schedule'
               PROVE  /\ \A p \in Prerequisites[d.task] :
                           \E e \in schedule' : e.task = p /\ e.finish <= d.start
                      /\ \A e \in schedule' : e # d =>
                           /\ d.task # e.task
                           /\ d.robot = e.robot => d.finish <= e.start \/ e.finish <= d.start
    BY DEF ScheduleSound
  <2>1. ASSUME NEW c \in schedule, NEW e \in entries
        PROVE  c.task # e.task /\ (c.robot = e.robot => c.finish <= e.start)
    <3>1. e.start = now /\ c.task # e.task /\ (c.robot = e.robot => c.finish <= now)
      BY <1>3
    <3> QED
      BY <3>1
  <2>2. CASE d \in schedule
    BY <1>1, <2>1, <2>2 DEF PlanInv, ScheduleSound
  <2>3. CASE d \in entries
    <3>1. ASSUME NEW p \in Prerequisites[d.task]
          PROVE  \E e \in schedule' : e.task = p /\ e.finish <= d.start
      <4>1. p \in completed /\ d.start = now
        BY <1>3, <2>3
      <4> QED
        BY <1>1, <4>1 DEF PlanInv, OverOK
    <3>2. \A e \in entries : e # d => d.task # e.task /\ d.robot # e.robot
      BY <2>3 DEF RoundStarts
    <3> QED
      BY <1>1, <2>1, <2>3, <3>1, <3>2
  <2> QED
    BY <1>1, <2>2, <2>3
<1> QED
  BY <1>4, <1>5, <1>6, <1>7 DEF PlanInv

LEMMA EndKeepsPlan ==
  ASSUME PlanInv, NEW e \in UnderWay, Ends(e)
  PROVE  PlanInv'
<1>1. /\ unallocated' = unallocated /\ outcome' = outcome /\ schedule' = schedule
      /\ robots' = robots /\ tasks' = tasks /\ schedulable' = schedulable
      /\ UnderWay' = UnderWay \ {e} /\ now' = e.finish
      /\ completed' = completed \cup {e.task}
  BY DEF Ends, mission
<1>2. /\ now \in Nat /\ schedule \subseteq Entry
      /\ UnderWay \subseteq schedule /\ e \in schedule
  BY DEF PlanInv, PlanTyped, UnderWayOK
<1>3. /\ e.task \in schedulable /\ e.task \in Task /\ e.robot \in robots
      /\ e.finish \in Nat /\ e.finish >= now
  BY <1>2 DEF PlanInv, PlanTyped, UnderWayOK, Entry
<1>4. \A d \in schedule : d.start \in Nat /\ d.finish \in Nat
  BY <1>2 DEF Entry
<1>5. PlanTyped'
  <2>1. ArgsOK'
    BY DEF PlanInv, PlanTyped, ArgsOK, Ends, mission, Unsupported, Blocked
  <2>2. StateOK'
    <3> DEFINE site == SiteAfter(state[e.robot].place, e.task)
    <3>1. state' = [state EXCEPT ![e.robot] = [state[e.robot] EXCEPT !.place = site]]
      BY DEF Ends, Moved
    <3>2. state \in [robots -> RobotStates] /\ \A r \in robots : state[r] \in RobotStates
      BY DEF PlanInv, PlanTyped, StateOK
    <3>3. site \in Task \cup {Home[e.robot]}
      BY <1>3 DEF PlanInv, PlanTyped, StateOK, SiteAfter
    <3> HIDE DEF site
    <3>4. /\ [state[e.robot] EXCEPT !.place = site] \in RobotStates
          /\ [state[e.robot] EXCEPT !.place = site].place = site
      BY <1>3, <3>2, <3>3 DEF RobotStates
    <3>5. RobotStates' = RobotStates
      BY <1>1 DEF RobotStates
    <3> QED
      BY <1>1, <1>3, <3>1, <3>2, <3>3, <3>4, <3>5 DEF PlanInv, PlanTyped, StateOK
  <2>3. running' \in Seq(Entry)
    BY DEF Ends
  <2> QED
    BY <1>1, <1>3, <2>1, <2>2, <2>3 DEF PlanInv, PlanTyped
<1>6. UnderWayOK'
  <2>1. OnePerRobot(running') /\ \A d \in UnderWay : e.finish <= d.finish
    BY DEF Ends
  <2>2. \A d \in UnderWay \ {e} : d.task # e.task /\ d.task \notin completed
    BY <1>2 DEF PlanInv, UnderWayOK, ScheduleSound
  <2>3. \A d \in UnderWay \ {e} : d.finish >= e.finish
    BY <1>2, <1>3, <1>4, <2>1
  <2> QED
    BY <1>1, <1>2, <2>1, <2>2, <2>3 DEF UnderWayOK, OnePerRobot
<1>7. OverOK'
  <2>1. \A d \in schedule : d.start <= now' /\ d.start <= d.finish
    BY <1>1, <1>2, <1>3, <1>4 DEF PlanInv, OverOK
  <2>2. \A d \in schedule \ UnderWay' : d.finish <= now' /\ d.task \in completed'
    BY <1>1, <1>2, <1>3, <1>4 DEF PlanInv, OverOK
  <2>3. \A t \in completed' : \E d \in schedule : d.task = t /\ d.finish <= now'
    BY <1>1, <1>2, <1>3, <1>4 DEF PlanInv, OverOK
  <2> QED
    BY <1>1, <2>1, <2>2, <2>3 DEF OverOK
<1>8. ScheduleSound'
  BY <1>1 DEF PlanInv, ScheduleSound
<1> QED
  BY <1>5, <1>6, <1>7, <1>8 DEF PlanInv

LEMMA StopKeepsPlan ==
  ASSUME PlanInv, GiveUp \/ Return \/ UNCHANGED vars
  PROVE  PlanInv'
<1>1. /\ UNCHANGED <<mission, state, now, running, completed, schedule>>
      /\ unallocated' \subseteq unallocated \cup schedulable
      /\ outcome' \in {outcome, "done"}
  BY DEF GiveUp, Return, vars, mission
<1>2. /\ UnderWay' = UnderWay /\ now' = now /\ completed' = completed /\ schedule' = schedule
      /\ running' = running /\ state' = state
      /\ robots' = robots /\ tasks' = tasks /\ collaborative' = collaborative
      /\ schedulable' = schedulable
  BY <1>1 DEF UnderWay, mission
<1>3. PlanTyped'
  <2>1. ArgsOK' /\ StateOK'
    BY <1>2 DEF PlanInv, PlanTyped, ArgsOK, StateOK, RobotStates, Unsupported, Blocked
  <2>2. unallocated' \subseteq tasks'
    <3>1. schedulable \subseteq tasks /\ unallocated \subseteq tasks
      BY DEF PlanInv, PlanTyped, ArgsOK
    <3> QED
      BY <1>1, <1>2, <3>1
  <2>3. outcome' \in {"running", "done", "raised"}
    BY <1>1 DEF PlanInv, PlanTyped
  <2> QED
    BY <1>2, <2>1, <2>2, <2>3 DEF PlanInv, PlanTyped
<1>4. UnderWayOK' /\ OverOK' /\ ScheduleSound'
  BY <1>2 DEF PlanInv, UnderWayOK, OverOK, ScheduleSound, OnePerRobot
<1> QED
  BY <1>3, <1>4 DEF PlanInv

-----------------------------------------------------------------------------
(* The tasks that are not scheduled *)

\* What is blocked is what depends on something unsupported or blocked.
LEMMA BlockedTasks ==
  ASSUME IsFiniteSet(tasks)
  PROVE  /\ Unsupported \subseteq tasks /\ Blocked \subseteq tasks
         /\ \A t \in tasks :
              t \in Blocked <=> Prerequisites[t] \cap (Unsupported \cup Blocked) # {}
         /\ Unsupported = {} => Blocked = {}
<1>1. ASSUME NEW u \in Unsupported
      PROVE  /\ Dependents(tasks, u) \subseteq tasks
             /\ \A t \in tasks : t \in Dependents(tasks, u) <=>
                               Prerequisites[t] \cap ({u} \cup Dependents(tasks, u)) # {}
  BY DependentsAreClosed
<1>2. \A t : t \in Blocked <=> \E u \in Unsupported : t \in Dependents(tasks, u)
  BY DEF Blocked
<1>3. Unsupported \subseteq tasks /\ Blocked \subseteq tasks
  BY <1>1, <1>2 DEF Unsupported
<1>4. ASSUME NEW t \in tasks, t \in Blocked
      PROVE  Prerequisites[t] \cap (Unsupported \cup Blocked) # {}
  <2>1. PICK u \in Unsupported : t \in Dependents(tasks, u)
    BY <1>2, <1>4
  <2>2. PICK p \in Prerequisites[t] : p = u \/ p \in Dependents(tasks, u)
    BY <1>1, <2>1
  <2>3. p \in Unsupported \/ p \in Blocked
    BY <1>2, <2>2
  <2> QED
    BY <2>3
<1>5. ASSUME NEW t \in tasks, NEW p \in Prerequisites[t], p \in Unsupported \/ p \in Blocked
      PROVE  t \in Blocked
  <2>1. PICK u \in Unsupported : p = u \/ p \in Dependents(tasks, u)
    BY <1>2, <1>5
  <2>2. Prerequisites[t] \cap ({u} \cup Dependents(tasks, u)) # {}
    BY <2>1
  <2>3. t \in Dependents(tasks, u)
    BY <1>1, <2>2
  <2> QED
    BY <1>2, <2>3
<1>6. Unsupported = {} => Blocked = {}
  BY <1>2
<1> QED
  BY <1>3, <1>4, <1>5, <1>6

\* The rest of a DAG is one.
LEMMA SchedulableIsDag ==
  ASSUME IsFiniteSet(tasks), schedulable = tasks \ (Unsupported \cup Blocked),
         WellFormed(tasks)
  PROVE  WellFormed(schedulable)
<1>1. \A t \in schedulable : Prerequisites[t] \cap (Unsupported \cup Blocked) = {}
  BY BlockedTasks
<1>2. Closed(schedulable)
  BY <1>1 DEF Closed, WellFormed
<1>3. Acyclic(schedulable)
  <2>1. schedulable \subseteq tasks
    OBVIOUS
  <2> QED
    BY <2>1 DEF Acyclic, WellFormed
<1> QED
  BY <1>2, <1>3 DEF WellFormed

\* allocate raises exactly when the mission is no DAG.
LEMMA RaisesForNoDag ==
  ASSUME IsFiniteSet(tasks), schedulable = tasks \ (Unsupported \cup Blocked)
  PROVE  Raises <=> ~WellFormed(tasks)
<1>1. CASE Unsupported = {}
  <2>1. schedulable = tasks
    BY <1>1, BlockedTasks
  <2> QED
    BY <1>1, <2>1 DEF Raises
<1>2. CASE Unsupported # {}
  BY <1>2, SchedulableIsDag DEF Raises
<1> QED
  BY <1>1, <1>2

\* The tasks that cannot be executed: collaborative ones, and those that wait
\* for one or, in a circle, for each other.
Lost ==
  {t \in tasks : \E S \in SUBSET tasks :
     /\ t \in S /\ S \cap collaborative # {}
     /\ \A u \in S \ collaborative : Prerequisites[u] \cap S # {}}

LEMMA LostIsBlocked ==
  ASSUME IsFiniteSet(tasks), schedulable = tasks \ (Unsupported \cup Blocked),
         WellFormed(tasks)
  PROVE  Lost = tasks \ schedulable
<1> DEFINE B == Unsupported \cup Blocked
<1>1. /\ B \in SUBSET tasks /\ Unsupported = collaborative \cap tasks
      /\ tasks \ schedulable = B
      /\ \A t \in tasks : t \in Blocked <=> Prerequisites[t] \cap B # {}
      /\ B # {} => Unsupported # {}
  BY BlockedTasks DEF Unsupported
<1> HIDE DEF B
<1>2. ASSUME NEW t \in B PROVE t \in Lost
  <2>1. \A u \in B \ collaborative : Prerequisites[u] \cap B # {}
    BY <1>1 DEF B
  <2>2. B \cap collaborative # {}
    BY <1>1 DEF B
  <2> QED
    BY <1>1, <2>1, <2>2 DEF Lost
<1>3. ASSUME NEW t \in Lost, t \in schedulable PROVE FALSE
  <2>1. PICK S \in SUBSET tasks :
          t \in S /\ \A u \in S \ collaborative : Prerequisites[u] \cap S # {}
    BY DEF Lost
  <2> DEFINE C == S \cap schedulable
  <2>2. C \in (SUBSET tasks) \ {{}}
    BY <1>3, <2>1
  <2>3. PICK u \in C : Prerequisites[u] \cap C = {}
    BY <2>2 DEF WellFormed, Acyclic
  <2>4. u \in tasks /\ u \notin collaborative /\ u \notin Blocked
    BY <1>1, <2>3 DEF B
  <2>5. PICK p \in Prerequisites[u] : p \in S
    BY <2>1, <2>3, <2>4
  <2>6. p \in B
    BY <1>1, <2>3, <2>5
  <2> QED
    BY <1>1, <2>4, <2>6
<1>4. Lost \subseteq tasks
  BY DEF Lost
<1> QED
  BY <1>1, <1>2, <1>3, <1>4

-----------------------------------------------------------------------------
(* The invariant holds *)

\* What is not scheduled: until the end, what cannot be; everything, if there
\* is no robot.
AccountOK ==
  /\ (outcome = "raised") <=> ~WellFormed(tasks)
  /\ outcome # "done" => unallocated = tasks \ schedulable
  /\ outcome = "done" => \/ completed = schedulable /\ unallocated = tasks \ schedulable
                         \/ robots = {} /\ unallocated = tasks

LEMMA InitPlan == Init => PlanInv /\ AccountOK
<1> SUFFICES ASSUME Init PROVE PlanInv /\ AccountOK
  OBVIOUS
<1>1. /\ robots \in RobotChoices /\ tasks \in TaskChoices
      /\ collaborative \in CollaborativeChoices
      /\ schedulable = tasks \ (Unsupported \cup Blocked)
      /\ state = [r \in robots |-> [place |-> Home[r], workload |-> 0]]
      /\ now = 0 /\ running = <<>> /\ completed = {} /\ schedule = {}
      /\ unallocated = Unsupported \cup Blocked
      /\ outcome = IF Raises THEN "raised" ELSE "running"
  BY DEF Init
<1>2. IsFiniteSet(tasks)
  <2>1. tasks \subseteq Task /\ IsFiniteSet(Task)
    BY <1>1, AllocatorAssumption DEF AllocatorAssumption
  <2> QED
    BY <2>1, FS_Subset
<1>3. UnderWay = {}
  BY <1>1 DEF UnderWay, ToSet
<1>4. /\ unallocated \subseteq tasks /\ unallocated = tasks \ schedulable
  BY <1>1, <1>2, BlockedTasks
<1>5. StateOK
  <2>1. \A r \in robots : [place |-> Home[r], workload |-> 0] \in RobotStates
    BY DEF RobotStates
  <2> QED
    BY <1>1, <2>1 DEF StateOK
<1>6. PlanTyped
  <2>1. ArgsOK
    BY <1>1 DEF ArgsOK
  <2>2. running \in Seq(Entry) /\ IsFiniteSet(schedule)
    BY <1>1, FS_EmptySet
  <2> QED
    BY <1>1, <1>4, <1>5, <2>1, <2>2 DEF PlanTyped
<1>7. UnderWayOK /\ OverOK /\ ScheduleSound
  BY <1>1, <1>3 DEF UnderWayOK, OverOK, ScheduleSound, OnePerRobot
<1>8. AccountOK
  <2>1. outcome = "raised" <=> ~WellFormed(tasks)
    BY <1>1, <1>2, RaisesForNoDag
  <2> QED
    BY <1>1, <1>4, <2>1 DEF AccountOK
<1> QED
  BY <1>6, <1>7, <1>8 DEF PlanInv

\* What a step may be.
Stops == GiveUp \/ Return \/ UNCHANGED vars

LEMMA PlanSteps ==
  ASSUME PlanInv, [Next]_vars
  PROVE  \/ RunRound /\ \E entries : RoundStarts(entries)
         \/ Advance /\ \E e \in UnderWay : Ends(e)
         \/ Stops
<1>1. PlanTyped /\ UnderWayOK
  BY DEF PlanInv
<1>2. RunRound => \E entries : RoundStarts(entries)
  BY <1>1, RunRoundStarts
<1>3. Advance => \E e \in UnderWay : Ends(e)
  BY <1>1, AdvanceEnds
<1> QED
  BY <1>2, <1>3 DEF Next, Stops

LEMMA NextKeepsPlan == PlanInv /\ [Next]_vars => PlanInv'
<1> SUFFICES ASSUME PlanInv, [Next]_vars PROVE PlanInv'
  OBVIOUS
<1>1. CASE \E entries : RoundStarts(entries)
  BY <1>1, RoundKeepsPlan
<1>2. CASE \E e \in UnderWay : Ends(e)
  BY <1>2, EndKeepsPlan
<1>3. CASE Stops
  BY <1>3, StopKeepsPlan DEF Stops
<1> QED
  BY <1>1, <1>2, <1>3, PlanSteps

LEMMA PlanInvHolds == Spec => []PlanInv
<1>1. Init => PlanInv
  BY InitPlan
<1> QED
  BY <1>1, NextKeepsPlan, PTL DEF Spec

(***************************************************************************)
(* The types of the allocator's state, with a clock that never runs         *)
(* backwards: nothing under way was due before now.                         *)
(***************************************************************************)
THEOREM PlanTypes == Spec => []TypeOK
<1>1. ASSUME PlanInv PROVE TypeOK
  <2>1. DOMAIN state = robots /\ \A r \in robots : state[r].workload \in Nat
    <3>1. state \in [robots -> RobotStates]
      BY <1>1 DEF PlanInv, PlanTyped, StateOK
    <3>2. \A r \in robots : state[r] \in RobotStates
      BY <3>1
    <3> QED
      BY <3>1, <3>2 DEF RobotStates
  <2> QED
    BY <1>1, <2>1 DEF PlanInv, PlanTyped, ArgsOK, UnderWayOK, UnderWay, TypeOK
<1> QED
  BY <1>1, PlanInvHolds, PTL

(***************************************************************************)
(* Every schedule that allocate builds can be executed, whatever the rounds *)
(* end with.                                                                *)
(***************************************************************************)
THEOREM ScheduleIsSound == Spec => []ScheduleSound
<1>1. PlanInv => ScheduleSound
  BY DEF PlanInv
<1> QED
  BY <1>1, PlanInvHolds, PTL

\* The planner gives up only when there is no robot: in a DAG, something that
\* is left can run.
LEMMA GivesUpWithoutRobots ==
  ASSUME PlanInv, AccountOK, GiveUp
  PROVE  robots = {}
<1>1. /\ outcome = "running" /\ completed # schedulable /\ running = <<>>
      /\ AvailableNow = {} \/ Idle = {}
  BY DEF GiveUp, Allocating, RoundDue
<1>2. ToSet(running) = {}
  BY <1>1 DEF ToSet
<1>3. completed \subseteq schedulable
  BY DEF PlanInv, PlanTyped
<1>4. WellFormed(schedulable)
  <2>1. WellFormed(tasks) /\ IsFiniteSet(tasks)
    BY <1>1, RobotsAndTasks DEF AccountOK, PlanInv
  <2> QED
    BY <2>1, SchedulableIsDag DEF PlanInv, PlanTyped, ArgsOK
<1>5. AvailableNow # {}
  <2>1. schedulable \ completed \in (SUBSET schedulable) \ {{}}
    BY <1>1, <1>3
  <2>2. PICK t \in schedulable \ completed :
          Prerequisites[t] \cap (schedulable \ completed) = {}
    BY <1>4, <2>1 DEF WellFormed, Acyclic
  <2>3. Prerequisites[t] \subseteq schedulable
    BY <1>4, <2>2 DEF WellFormed, Closed
  <2>4. t \in Available(schedulable, completed)
    BY <2>2, <2>3 DEF Available
  <2> QED
    BY <1>2, <2>4 DEF AvailableNow
<1> QED
  BY <1>1, <1>2, <1>5 DEF Idle

LEMMA NextKeepsAccount == PlanInv /\ AccountOK /\ [Next]_vars => AccountOK'
<1> SUFFICES ASSUME PlanInv, AccountOK, [Next]_vars PROVE AccountOK'
  OBVIOUS
<1>1. ASSUME mission' = mission /\ unallocated' = unallocated /\ outcome' = outcome,
             outcome # "done" \/ completed' = completed
      PROVE  AccountOK'
  BY <1>1 DEF mission, AccountOK
<1>2. CASE RunRound
  <2>1. outcome # "done" /\ UNCHANGED <<mission, unallocated, outcome>>
    BY <1>2 DEF RunRound, Allocating
  <2> QED
    BY <1>1, <2>1
<1>3. CASE Advance
  <2>1. outcome # "done" /\ UNCHANGED <<mission, unallocated, outcome>>
    BY <1>3 DEF Advance, Allocating
  <2> QED
    BY <1>1, <2>1
<1>4. CASE GiveUp
  <2>1. robots = {}
    BY <1>4, GivesUpWithoutRobots
  <2>2. /\ outcome = "running" /\ outcome' = "done" /\ UNCHANGED <<mission, completed>>
        /\ unallocated' = unallocated \cup (schedulable \ completed)
    BY <1>4 DEF GiveUp, Allocating
  <2>3. completed = {}
    <3>1. schedule = {}
      BY <2>1 DEF PlanInv, PlanTyped
    <3> QED
      BY <3>1 DEF PlanInv, OverOK
  <2>4. unallocated = tasks \ schedulable /\ schedulable \subseteq tasks
    BY <2>2, RobotsAndTasks DEF AccountOK, PlanInv
  <2>5. unallocated' = tasks
    BY <2>2, <2>3, <2>4
  <2>6. WellFormed(tasks)
    BY <2>2 DEF AccountOK
  <2> QED
    BY <2>1, <2>2, <2>5, <2>6 DEF AccountOK, mission
<1>5. CASE Return
  <2>1. /\ outcome = "running" /\ outcome' = "done" /\ completed = schedulable
        /\ UNCHANGED <<mission, completed, unallocated>>
    BY <1>5 DEF Return
  <2> QED
    BY <2>1 DEF AccountOK, mission
<1>6. CASE UNCHANGED vars
  BY <1>1, <1>6 DEF vars, mission
<1> QED
  BY <1>2, <1>3, <1>4, <1>5, <1>6 DEF Next

(***************************************************************************)
(* No task is dropped silently: when allocate returns, each is either in    *)
(* the schedule or reported, and with a robot in the fleet only those are   *)
(* reported that cannot be executed.  It raises for missions that are no    *)
(* DAG and for no other.                                                    *)
(***************************************************************************)
THEOREM EveryTaskAccounted == Spec => []Accounted
<1>1. ASSUME PlanInv, AccountOK PROVE Accounted
  <2> DEFINE scheduled == {e.task : e \in schedule}
  <2>1. /\ scheduled \subseteq schedulable /\ completed \subseteq scheduled
        /\ completed \subseteq schedulable
    BY <1>1 DEF PlanInv, PlanTyped, OverOK
  <2>2. robots = {} => scheduled = {}
    BY <1>1 DEF PlanInv, PlanTyped
  <2>3. schedulable \subseteq tasks /\ IsFiniteSet(tasks)
    BY <1>1, RobotsAndTasks DEF PlanInv
  <2>4. WellFormed(tasks) => Lost = tasks \ schedulable
    BY <1>1, <2>3, LostIsBlocked DEF PlanInv, PlanTyped, ArgsOK
  <2>5. (outcome = "raised") <=> ~WellFormed(tasks)
    BY <1>1 DEF AccountOK
  <2>6. ASSUME outcome = "done"
        PROVE  /\ scheduled \cup unallocated = tasks
               /\ scheduled \cap unallocated = {}
               /\ robots # {} => unallocated = Lost
    <3>1. CASE completed = schedulable /\ unallocated = tasks \ schedulable
      <4>1. WellFormed(tasks)
        BY <2>5, <2>6
      <4> HIDE DEF scheduled
      <4> QED
        BY <2>1, <2>3, <2>4, <3>1, <4>1
    <3>2. CASE robots = {} /\ unallocated = tasks
      <4> HIDE DEF scheduled
      <4> QED
        BY <2>2, <3>2
    <3> QED
      BY <1>1, <2>6, <3>1, <3>2 DEF AccountOK
  <2> QED
    BY <2>5, <2>6 DEF Accounted, Lost
<1>2. Init => AccountOK
  BY InitPlan
<1>3. PlanInv /\ AccountOK /\ [Next]_vars => AccountOK'
  BY NextKeepsAccount
<1> QED
  BY <1>1, <1>2, <1>3, PlanInvHolds, PTL DEF Spec

-----------------------------------------------------------------------------
(* No robot idles *)

\* A finite set of naturals has a maximum.
LEMMA MaxOfFinite ==
  ASSUME NEW T, IsFiniteSet(T), T # {}, T \subseteq Nat
  PROVE  Max(T) \in T /\ \A x \in T : x <= Max(T)
<1> DEFINE R == {p \in T \X T : p[1] < p[2]}
<1>1. \A x, y \in T : <<x, y>> \in R <=> x < y
  OBVIOUS
<1>2. /\ \A x, y, z \in T : <<x, y>> \in R /\ <<y, z>> \in R => <<x, z>> \in R
      /\ \A x \in T : <<x, x>> \notin R
  <2> HIDE DEF R
  <2> QED
    BY <1>1
<1>3. \E x \in T : \A y \in T : <<x, y>> \notin R
  <2> HIDE DEF R
  <2> QED
    BY <1>2, FiniteSetHasMaximal, Zenon
<1>4. \E x \in T : \A y \in T : x >= y
  <2>1. PICK x \in T : \A y \in T : <<x, y>> \notin R
    BY <1>3
  <2>2. ASSUME NEW y \in T PROVE x >= y
    <3>1. ~ (x < y) /\ x \in Nat /\ y \in Nat
      BY <1>1, <2>1
    <3> QED
      BY <3>1
  <2> QED
    BY <2>2
<1>5. Max(T) \in T /\ \A y \in T : Max(T) >= y
  BY <1>4, Zenon DEF Max
<1> QED
  BY <1>5

\* The ends of the entries of some of the schedule.
LEMMA LastEnd ==
  ASSUME PlanInv, NEW D \in SUBSET schedule
  PROVE  LET last == Max({0} \cup {e.finish : e \in D})
         IN  /\ last \in Nat
             /\ \A e \in D : e.finish <= last
             /\ last = 0 \/ \E e \in D : e.finish = last
<1> DEFINE g == [e \in D |-> e.finish]
           E == {e.finish : e \in D}
           T == {0} \cup E
<1>1. IsFiniteSet(D) /\ \A e \in D : e.finish \in Nat
  <2>1. IsFiniteSet(schedule) /\ schedule \subseteq Entry
    BY DEF PlanInv, PlanTyped
  <2> QED
    BY <2>1, FS_Subset DEF Entry
<1>2. IsFiniteSet(E)
  <2>1. g \in Surjection(D, E)
    BY DEF Surjection
  <2> HIDE DEF g, E
  <2> QED
    BY <1>1, <2>1, FS_Surjection
<1>3. IsFiniteSet(T) /\ T # {} /\ T \subseteq Nat
  <2>1. IsFiniteSet({0})
    BY FS_Singleton
  <2>2. IsFiniteSet(T)
    <3> HIDE DEF E
    <3> QED
      BY <1>2, <2>1, FS_Union
  <2> QED
    BY <1>1, <2>2
<1>4. Max(T) \in T /\ \A x \in T : x <= Max(T)
  <2> HIDE DEF T
  <2> QED
    BY <1>3, MaxOfFinite
<1>5. Max(T) \in Nat /\ (Max(T) = 0 \/ Max(T) \in E)
  BY <1>3, <1>4
<1>6. \A e \in D : e.finish \in T
  OBVIOUS
<1>7. \A e \in D : e.finish <= Max(T)
  <2> HIDE DEF T
  <2> QED
    BY <1>4, <1>6
<1> QED
  BY <1>5, <1>7

\* A task is ready when the last of its prerequisites is over.
LEMMA ReadyIsLastEnd ==
  ASSUME PlanInv, NEW t
  PROVE  /\ Ready(t) \in Nat
         /\ \A e \in schedule : e.task \in Prerequisites[t] => e.finish <= Ready(t)
<1> DEFINE D == {d \in schedule : d.task \in Prerequisites[t]}
<1>1. D \in SUBSET schedule
  OBVIOUS
<1>2. Ready(t) = Max({0} \cup {e.finish : e \in D})
  BY DEF Ready
<1> HIDE DEF D
<1>3. Ready(t) \in Nat /\ \A e \in D : e.finish <= Ready(t)
  BY <1>1, <1>2, LastEnd
<1> QED
  BY <1>3 DEF D

BusyAt(entries, r, i) == \E e \in entries : e.robot = r /\ e.start <= i /\ i < e.finish

\* While a task that is ready has not started, all robots work: until it
\* starts, if it has, and else until now.
NoneIdles ==
  /\ \A d \in schedule, r \in robots : \A i \in Ready(d.task)..(d.start - 1) :
       BusyAt(schedule, r, i)
  /\ \A t \in schedulable :
       /\ Prerequisites[t] \subseteq completed
       /\ \A d \in schedule : d.task # t
       => \A r \in robots : \A i \in Ready(t)..(now - 1) : BusyAt(schedule, r, i)

LEMMA RoundKeepsBusy ==
  ASSUME PlanInv, NoneIdles, NEW entries, RoundStarts(entries)
  PROVE  NoneIdles'
<1>1. /\ now' = now /\ completed' = completed /\ robots' = robots
      /\ schedulable' = schedulable /\ schedule' = schedule \cup entries
  BY DEF RoundStarts, mission
<1>2. ASSUME NEW t, \A p \in Prerequisites[t] : \E d \in schedule : d.task = p
      PROVE  Ready(t)' = Ready(t)
  <2>1. ASSUME NEW e \in entries PROVE \A d \in schedule : d.task # e.task
    BY EntriesAreNew
  <2>2. {d \in schedule' : d.task \in Prerequisites[t]} =
          {d \in schedule : d.task \in Prerequisites[t]}
    BY <1>1, <1>2, <2>1
  <2> QED
    BY <2>2 DEF Ready
<1>3. \A r, i : BusyAt(schedule, r, i) => BusyAt(schedule', r, i)
  BY <1>1 DEF BusyAt
<1>4. \A p \in completed : \E d \in schedule : d.task = p
  BY DEF PlanInv, OverOK
<1>5. ASSUME NEW d \in schedule', NEW r \in robots, NEW i \in Ready(d.task)'..(d.start - 1)
      PROVE  BusyAt(schedule', r, i)
  <2>1. CASE d \in schedule
    <3>1. Ready(d.task)' = Ready(d.task)
      BY <1>2, <2>1 DEF PlanInv, ScheduleSound
    <3> QED
      BY <1>3, <1>5, <2>1, <3>1 DEF NoneIdles
  <2>2. CASE d \in entries
    <3>1. /\ d.task \in schedulable /\ d.start = now
          /\ Prerequisites[d.task] \subseteq completed
          /\ \A c \in schedule : c.task # d.task
      BY <2>2, EntriesAreNew
    <3>2. Ready(d.task)' = Ready(d.task)
      BY <1>2, <1>4, <3>1
    <3>3. i \in Ready(d.task)..(now - 1)
      BY <1>5, <3>1, <3>2
    <3>4. BusyAt(schedule, r, i)
      BY <3>1, <3>3 DEF NoneIdles
    <3> QED
      BY <1>3, <3>4
  <2> QED
    BY <1>1, <2>1, <2>2
<1>6. ASSUME NEW t \in schedulable, Prerequisites[t] \subseteq completed,
             \A d \in schedule' : d.task # t,
             NEW r \in robots, NEW i \in Ready(t)'..(now - 1)
      PROVE  BusyAt(schedule', r, i)
  <2>1. Ready(t)' = Ready(t)
    BY <1>2, <1>4, <1>6
  <2>2. \A d \in schedule : d.task # t
    BY <1>1, <1>6
  <2>3. BusyAt(schedule, r, i)
    BY <1>6, <2>1, <2>2 DEF NoneIdles
  <2> QED
    BY <1>3, <2>3
<1> QED
  BY <1>1, <1>5, <1>6 DEF NoneIdles

LEMMA AdvanceKeepsBusy ==
  ASSUME PlanInv, NoneIdles, Advance, NEW e \in UnderWay, Ends(e)
  PROVE  NoneIdles'
<1>1. /\ now' = e.finish /\ completed' = completed \cup {e.task} /\ robots' = robots
      /\ schedulable' = schedulable /\ schedule' = schedule
      /\ \A d \in UnderWay : e.finish <= d.finish
  BY DEF Ends, mission
<1>2. \A t : Ready(t)' = Ready(t)
  BY <1>1 DEF Ready
<1>3. /\ now \in Nat /\ UnderWay \subseteq schedule /\ e \in schedule
      /\ \A d \in schedule : d.start \in Nat /\ d.finish \in Nat /\ d.start <= now
  BY DEF PlanInv, PlanTyped, UnderWayOK, OverOK, Entry
<1>4. ASSUME NEW t \in schedulable, Prerequisites[t] \subseteq completed',
             \A d \in schedule : d.task # t,
             NEW r \in robots, NEW i \in Ready(t)..(now' - 1)
      PROVE  BusyAt(schedule, r, i)
  <2>1. /\ Ready(t) \in Nat
        /\ \A d \in schedule : d.task \in Prerequisites[t] => d.finish <= Ready(t)
    BY ReadyIsLastEnd
  <2>2. Prerequisites[t] \subseteq completed
    <3>1. ASSUME e.task \in Prerequisites[t] PROVE FALSE
      <4>1. e.finish <= Ready(t)
        BY <1>3, <2>1, <3>1
      <4>2. i \in Int /\ Ready(t) <= i /\ i <= e.finish - 1 /\ e.finish \in Nat
        BY <1>1, <1>3, <1>4, <2>1
      <4> QED
        BY <2>1, <4>1, <4>2
    <3> QED
      BY <1>1, <1>4, <3>1
  <2>3. CASE i < now
    <3>1. i \in Ready(t)..(now - 1)
      BY <1>1, <1>3, <1>4, <2>1, <2>3
    <3> QED
      BY <1>4, <2>2, <3>1 DEF NoneIdles
  <2>4. CASE ~ (i < now)
    <3>1. t \in AvailableNow
      <4>1. t \notin completed /\ t \notin {d.task : d \in UnderWay}
        BY <1>3, <1>4 DEF PlanInv, OverOK
      <4> QED
        BY <2>2, <4>1 DEF AvailableNow, Available, UnderWay
    <3>2. Idle = {}
      BY <3>1 DEF Advance, RoundDue
    <3>3. PICK d \in UnderWay : d.robot = r
      BY <3>2 DEF Idle, UnderWay
    <3>4. d \in schedule /\ e.finish <= d.finish /\ d.start <= now
      BY <1>1, <1>3
    <3>5. d.start <= i /\ i < d.finish
      BY <1>1, <1>3, <1>4, <2>1, <2>4, <3>4
    <3> QED
      BY <3>3, <3>4, <3>5 DEF BusyAt
  <2> QED
    BY <2>3, <2>4
<1> QED
  BY <1>1, <1>2, <1>4 DEF NoneIdles

LEMMA StopKeepsBusy ==
  ASSUME NoneIdles, Stops
  PROVE  NoneIdles'
<1>1. UNCHANGED <<mission, now, completed, schedule>>
  BY DEF Stops, GiveUp, Return, vars, mission
<1>2. /\ now' = now /\ completed' = completed /\ robots' = robots
      /\ schedulable' = schedulable /\ schedule' = schedule
  BY <1>1 DEF mission
<1>3. \A t : Ready(t)' = Ready(t)
  BY <1>2 DEF Ready
<1> QED
  BY <1>2, <1>3 DEF NoneIdles

LEMMA NoneIdlesHolds == Spec => []NoneIdles
<1>1. ASSUME Init PROVE NoneIdles
  <2>1. PlanInv /\ schedule = {} /\ now = 0
    BY <1>1, InitPlan DEF Init
  <2>2. \A t : Ready(t) \in Nat
    BY <2>1, ReadyIsLastEnd
  <2>3. \A t : Ready(t)..(now - 1) = {}
    BY <2>1, <2>2
  <2> QED
    BY <2>1, <2>3 DEF NoneIdles
<1>2. ASSUME PlanInv, NoneIdles, [Next]_vars PROVE NoneIdles'
  <2>1. CASE \E entries : RoundStarts(entries)
    BY <1>2, <2>1, RoundKeepsBusy
  <2>2. CASE Advance /\ \E e \in UnderWay : Ends(e)
    BY <1>2, <2>2, AdvanceKeepsBusy
  <2>3. CASE Stops
    BY <1>2, <2>3, StopKeepsBusy
  <2> QED
    BY <1>2, <2>1, <2>2, <2>3, PlanSteps
<1> QED
  BY <1>1, <1>2, PlanInvHolds, PTL DEF Spec

(***************************************************************************)
(* In what allocate returns, no robot idles while a task is ready that has  *)
(* not started.                                                             *)
(***************************************************************************)
THEOREM NoRobotIdles == Spec => []NoIdling
<1>1. NoneIdles => NoIdling
  BY DEF NoneIdles, NoIdling, BusyAt
<1> QED
  BY <1>1, NoneIdlesHolds, PTL

-----------------------------------------------------------------------------
(* Robots set out from where they are *)

\* An entry takes at least its task's time.
TakesItsTime == \A e \in schedule : e.finish >= e.start + Duration[e.task]

LEMMA TakesItsTimeHolds == Spec => []TakesItsTime
<1>1. Init => TakesItsTime
  BY DEF Init, TakesItsTime
<1>2. ASSUME PlanInv, TakesItsTime, [Next]_vars PROVE TakesItsTime'
  <2>1. ASSUME NEW entries, RoundStarts(entries) PROVE TakesItsTime'
    <3>1. schedule' = schedule \cup entries
      BY <2>1 DEF RoundStarts
    <3>2. ASSUME NEW e \in entries PROVE e.finish >= e.start + Duration[e.task]
      <4>1. e.finish >= now + Duration[e.task] /\ e.start = now
        BY <1>2, <2>1, EntriesAreNew
      <4> QED
        BY <4>1
    <3> QED
      BY <1>2, <3>1, <3>2 DEF TakesItsTime
  <2>2. ASSUME NEW e \in UnderWay, Ends(e) PROVE TakesItsTime'
    BY <1>2, <2>2 DEF Ends, TakesItsTime
  <2>3. ASSUME Stops PROVE TakesItsTime'
    BY <1>2, <2>3 DEF Stops, GiveUp, Return, vars, TakesItsTime
  <2> QED
    BY <1>2, <2>1, <2>2, <2>3, PlanSteps
<1> QED
  BY <1>1, <1>2, PlanInvHolds, PTL DEF Spec

\* No task is over as soon as it starts.
TasksTakeTime == \A t \in Task : Duration[t] > 0

LEMMA EntriesTakeTime ==
  ASSUME PlanInv, TakesItsTime, TasksTakeTime
  PROVE  \A e \in schedule : e.start \in Nat /\ e.finish \in Nat /\ e.start < e.finish
<1> SUFFICES ASSUME NEW e \in schedule
             PROVE  e.start \in Nat /\ e.finish \in Nat /\ e.start < e.finish
  OBVIOUS
<1>1. e.start \in Nat /\ e.finish \in Nat /\ e.task \in Task
  BY DEF PlanInv, PlanTyped, Entry
<1>2. Duration[e.task] \in Nat /\ Duration[e.task] > 0
  BY <1>1, AllocatorAssumption DEF AllocatorAssumption, TasksTakeTime
<1>3. e.finish >= e.start + Duration[e.task]
  BY DEF TakesItsTime
<1> QED
  BY <1>1, <1>2, <1>3

\* The entries of a robot that are over and led it to a site.
Visits(r) == {e \in schedule \ UnderWay : e.robot = r /\ e.task \in Sited}

LastVisit(r, e) == e \in Visits(r) /\ \A f \in Visits(r) : f.start <= e.start

\* A robot, idle or not, is where the last task that had a site led it.
AtLastSite ==
  \A r \in robots :
    \/ Visits(r) = {} /\ state[r].place = Home[r]
    \/ \E e \in Visits(r) : LastVisit(r, e) /\ state[r].place = e.task

Before(entries, d) ==
  {e \in entries : e.robot = d.robot /\ e.start < d.start /\ e.task \in Sited}

SiteBefore(entries, d) ==
  IF Before(entries, d) = {}
  THEN Home[d.robot]
  ELSE (CHOOSE e \in Before(entries, d) :
          \A f \in Before(entries, d) : f.start <= e.start).task

PlacesOK == AtLastSite /\ SetsOutFromLast

AllSetOut(entries) ==
  \A d \in entries :
    d.finish = d.start + Travel[d.robot][SiteBefore(entries, d)][d.task] + Duration[d.task]

LEMMA SetsOut ==
  /\ SetsOutFromLast <=> AllSetOut(schedule)
  /\ SetsOutFromLast' <=> AllSetOut(schedule')
<1>1. SetsOutFromLast <=> AllSetOut(schedule)
  BY Zenon DEF SetsOutFromLast, AllSetOut, SiteBefore, Before
<1>2. SetsOutFromLast' <=> AllSetOut(schedule')
  BY Zenon DEF SetsOutFromLast, AllSetOut, SiteBefore, Before
<1> QED
  BY <1>1, <1>2

\* The last of a robot's visits is where it is.
LEMMA LastVisitIsPlace ==
  ASSUME PlanInv, TakesItsTime, TasksTakeTime, AtLastSite, NEW r \in robots,
         NEW d, d.robot = r, NEW entries, Before(entries, d) = Visits(r)
  PROVE  SiteBefore(entries, d) = state[r].place
<1>1. \A e \in schedule : e.start \in Nat /\ e.finish \in Nat /\ e.start < e.finish
  BY EntriesTakeTime
<1>2. CASE Visits(r) = {} /\ state[r].place = Home[r]
  BY <1>2 DEF SiteBefore
<1>3. ASSUME NEW e \in Visits(r), LastVisit(r, e), state[r].place = e.task
      PROVE  SiteBefore(entries, d) = state[r].place
  <2> DEFINE c == CHOOSE c \in Visits(r) : \A f \in Visits(r) : f.start <= c.start
  <2>1. c \in Visits(r) /\ \A f \in Visits(r) : f.start <= c.start
    BY <1>3 DEF LastVisit
  <2>2. SiteBefore(entries, d) = c.task
    BY <2>1 DEF SiteBefore
  <2> HIDE DEF c
  <2>3. /\ c \in schedule /\ e \in schedule /\ c.robot = e.robot
        /\ c.start <= e.start /\ e.start <= c.start
    BY <1>3, <2>1 DEF Visits, LastVisit
  <2>4. c # e => c.finish <= e.start \/ e.finish <= c.start
    BY <2>3 DEF PlanInv, ScheduleSound
  <2>5. c = e
    BY <1>1, <2>3, <2>4
  <2> QED
    BY <1>3, <2>2, <2>5
<1> QED
  BY <1>2, <1>3 DEF AtLastSite

LEMMA RoundKeepsPlaces ==
  ASSUME PlanInv, TakesItsTime, TasksTakeTime, PlacesOK, NEW entries, RoundStarts(entries)
  PROVE  PlacesOK'
<1>1. /\ schedule' = schedule \cup entries /\ UnderWay' = UnderWay \cup entries
      /\ robots' = robots /\ now' = now
      /\ \A r \in robots : state'[r].place = state[r].place
  BY DEF RoundStarts, mission
<1>2. /\ now \in Nat
      /\ \A d \in schedule : d.start \in Nat /\ d.finish \in Nat /\ d.start < d.finish
      /\ \A d \in schedule : d.start <= now
      /\ \A d \in schedule \ UnderWay : d.finish <= now
  BY EntriesTakeTime DEF PlanInv, PlanTyped, OverOK
<1>3. \A e \in entries : e.robot \in Idle /\ e.start = now
  BY DEF RoundStarts
<1>4. AtLastSite'
  <2>1. schedule' \ UnderWay' = schedule \ UnderWay
    BY <1>1, <1>2, <1>3
  <2>2. \A r : Visits(r)' = Visits(r)
    BY <2>1 DEF Visits
  <2> QED
    BY <1>1, <2>2 DEF PlacesOK, AtLastSite, LastVisit
<1>5. ASSUME NEW d \in schedule
      PROVE  d.finish = d.start + Travel[d.robot][SiteBefore(schedule', d)][d.task]
                                + Duration[d.task]
  <2>1. Before(schedule', d) = Before(schedule, d)
    BY <1>1, <1>2, <1>3 DEF Before
  <2>2. SiteBefore(schedule', d) = SiteBefore(schedule, d)
    BY <2>1 DEF SiteBefore
  <2> QED
    BY <2>2, SetsOut DEF PlacesOK, AllSetOut
<1>6. ASSUME NEW d \in entries
      PROVE  d.finish = d.start + Travel[d.robot][SiteBefore(schedule', d)][d.task]
                                + Duration[d.task]
  <2> DEFINE r == d.robot
  <2>1. r \in Idle /\ r \in robots /\ d.start = now
    BY <1>3 DEF Idle
  <2>2. \A e \in schedule : e.robot = r => e \notin UnderWay
    BY <2>1 DEF Idle, UnderWay
  <2>3. \A e \in entries : ~ (e.start < now)
    BY <1>2, <1>3
  <2>4. \A e \in schedule : e.robot = r => e.start < now
    BY <1>2, <2>2
  <2>5. Before(schedule', d) = Visits(r)
    BY <1>1, <2>1, <2>2, <2>3, <2>4 DEF Before, Visits
  <2>6. SiteBefore(schedule', d) = state[r].place
    BY <2>1, <2>5, LastVisitIsPlace DEF PlacesOK
  <2>7. d.finish = now + Travel[r][state[r].place][d.task] + Duration[d.task]
    BY DEF RoundStarts
  <2> QED
    BY <2>1, <2>6, <2>7
<1>7. SetsOutFromLast'
  <2>1. AllSetOut(schedule')
    BY <1>1, <1>5, <1>6 DEF AllSetOut
  <2> QED
    BY <2>1, SetsOut
<1> QED
  BY <1>4, <1>7 DEF PlacesOK

LEMMA EndKeepsPlaces ==
  ASSUME PlanInv, TakesItsTime, TasksTakeTime, PlacesOK, NEW e \in UnderWay, Ends(e)
  PROVE  PlacesOK'
<1>1. /\ schedule' = schedule /\ UnderWay' = UnderWay \ {e} /\ robots' = robots
      /\ state' = Moved(e)
  BY DEF Ends, mission
<1>2. /\ now \in Nat /\ UnderWay \subseteq schedule
      /\ \A d \in schedule : d.start \in Nat /\ d.finish \in Nat /\ d.start < d.finish
  BY EntriesTakeTime DEF PlanInv, PlanTyped, UnderWayOK
<1>3. \A r \in robots :
        state'[r].place = IF r = e.robot /\ e.task \in Sited THEN e.task ELSE state[r].place
  <2>1. state \in [robots -> RobotStates]
    BY DEF PlanInv, PlanTyped, StateOK
  <2> QED
    BY <1>1, <2>1 DEF Moved, SiteAfter, RobotStates
<1>4. schedule' \ UnderWay' = (schedule \ UnderWay) \cup {e}
  BY <1>1, <1>2
<1>5. ASSUME NEW r \in robots, ~ (r = e.robot /\ e.task \in Sited)
      PROVE  \/ Visits(r)' = {} /\ state'[r].place = Home[r]
             \/ \E d \in Visits(r)' : LastVisit(r, d)' /\ state'[r].place = d.task
  <2>1. Visits(r)' = Visits(r) /\ state'[r].place = state[r].place
    BY <1>3, <1>4, <1>5 DEF Visits
  <2> QED
    BY <2>1 DEF PlacesOK, AtLastSite, LastVisit
<1>6. ASSUME e.robot \in robots, e.task \in Sited
      PROVE  LastVisit(e.robot, e)' /\ state'[e.robot].place = e.task
  <2>1. Visits(e.robot)' = Visits(e.robot) \cup {e}
    BY <1>4, <1>6 DEF Visits
  <2>2. ASSUME NEW f \in Visits(e.robot) PROVE f.start <= e.start
    <3>1. f \in schedule \ UnderWay /\ f.robot = e.robot /\ e \in schedule
      BY <1>2 DEF Visits
    <3>2. f.finish <= now /\ now <= e.finish
      BY <3>1 DEF PlanInv, OverOK, UnderWayOK
    <3>3. f.finish <= e.start \/ e.finish <= f.start
      BY <3>1 DEF PlanInv, ScheduleSound
    <3> QED
      BY <1>2, <3>1, <3>2, <3>3
  <2>3. e.start <= e.start
    BY <1>2
  <2> QED
    BY <1>3, <1>6, <2>1, <2>2, <2>3 DEF LastVisit
<1>7. AtLastSite'
  <2>1. ASSUME e.robot \in robots, e.task \in Sited
        PROVE  \E d \in Visits(e.robot)' : LastVisit(e.robot, d)' /\ state'[e.robot].place = d.task
    BY <1>6, <2>1 DEF LastVisit
  <2> QED
    BY <1>1, <1>5, <2>1 DEF AtLastSite
<1>8. SetsOutFromLast'
  BY <1>1, SetsOut DEF PlacesOK
<1> QED
  BY <1>7, <1>8 DEF PlacesOK

LEMMA StopKeepsPlaces ==
  ASSUME PlacesOK, Stops
  PROVE  PlacesOK'
<1>1. UNCHANGED <<mission, schedule, running, state>>
  BY DEF Stops, GiveUp, Return, vars, mission
<1>2. /\ schedule' = schedule /\ running' = running /\ robots' = robots /\ state' = state
  BY <1>1 DEF mission
<1>3. SetsOutFromLast'
  BY <1>2, SetsOut DEF PlacesOK
<1>4. AtLastSite'
  BY <1>2 DEF PlacesOK, AtLastSite, Visits, LastVisit, UnderWay
<1> QED
  BY <1>3, <1>4 DEF PlacesOK

(***************************************************************************)
(* If every task takes time, a robot sets out for a task from the site of   *)
(* the last one before that had a position, or else from home.  (Of two     *)
(* that take no time and are done at the same instant, the schedule does    *)
(* not tell which was the last.)                                            *)
(***************************************************************************)
THEOREM SetsOutFromLastSite == ASSUME TasksTakeTime PROVE Spec => []SetsOutFromLast
<1>1. ASSUME Init PROVE PlacesOK
  <2>1. /\ schedule = {} /\ state = [r \in robots |-> [place |-> Home[r], workload |-> 0]]
    BY <1>1 DEF Init
  <2> QED
    BY <2>1 DEF PlacesOK, SetsOutFromLast, AtLastSite, Visits
<1>2. ASSUME PlanInv, TakesItsTime, PlacesOK, [Next]_vars PROVE PlacesOK'
  <2>1. CASE \E entries : RoundStarts(entries)
    BY <1>2, <2>1, RoundKeepsPlaces
  <2>2. CASE \E e \in UnderWay : Ends(e)
    BY <1>2, <2>2, EndKeepsPlaces
  <2>3. CASE Stops
    BY <1>2, <2>3, StopKeepsPlaces
  <2> QED
    BY <1>2, <2>1, <2>2, <2>3, PlanSteps
<1>3. PlacesOK => SetsOutFromLast
  BY DEF PlacesOK
<1> QED
  BY <1>1, <1>2, <1>3, PlanInvHolds, TakesItsTimeHolds, PTL DEF Spec

-----------------------------------------------------------------------------
(* The makespan *)

Work(load) == SumFunctionOnSet(load, robots)

TasksOf(entries) == {e.task : e \in entries}

\* Work that is added robot by robot and task by task adds up to the same.
LEMMA WorkIsShared ==
  ASSUME IsFiniteSet(robots), NEW load \in [robots -> Int],
         NEW entries, IsFiniteSet(entries), NEW D \in SUBSET Task,
         \A e \in entries : e.robot \in robots /\ e.task \in Task \ D,
         \A d, e \in entries : d.task = e.task \/ d.robot = e.robot => d = e,
         NEW new \in [robots -> Int],
         \A e \in entries : new[e.robot] = load[e.robot] + Duration[e.task],
         \A r \in robots : (\A e \in entries : e.robot # r) => new[r] = load[r]
  PROVE  Work(new) + SumFunctionOnSet(Duration, D) =
           Work(load) + SumFunctionOnSet(Duration, D \cup TasksOf(entries))
<1> DEFINE Sum(K) == SumFunctionOnSet(Duration, K)
           Adds(E, v) == /\ \A e \in E : v[e.robot] = load[e.robot] + Duration[e.task]
                         /\ \A r \in robots : (\A e \in E : e.robot # r) => v[r] = load[r]
           Good == {E \in SUBSET entries :
                      \A v \in [robots -> Int] :
                        Adds(E, v) => Work(v) + Sum(D) = Work(load) + Sum(D \cup TasksOf(E))}
<1>1. Duration \in [Task -> Int] /\ IsFiniteSet(Task)
  BY AllocatorAssumption DEF AllocatorAssumption
<1>2. /\ \A K \in SUBSET Task : Sum(K) \in Int
      /\ \A K \in SUBSET Task : \A t \in K : Sum(K) = Duration[t] + Sum(K \ {t})
  <2>1. ASSUME NEW K \in SUBSET Task PROVE Sum(K) \in Int
    BY <1>1, SumSomeElement
  <2>2. ASSUME NEW K \in SUBSET Task, NEW t \in K PROVE Sum(K) = Duration[t] + Sum(K \ {t})
    BY <1>1, SumAnyElement
  <2> QED
    BY <2>1, <2>2
<1>3. ASSUME NEW v \in [robots -> Int] PROVE Work(v) \in Int
  BY SumSomeElement DEF Work
<1>4. {} \in Good
  <2>1. ASSUME NEW v \in [robots -> Int], Adds({}, v) PROVE v = load
    BY <2>1
  <2>2. D \cup TasksOf({}) = D
    BY DEF TasksOf
  <2> HIDE DEF Adds, Sum
  <2> QED
    BY <2>1, <2>2
<1>5. ASSUME NEW E \in SUBSET entries, E # {}
      PROVE  \E e \in E : E \ {e} \in Good => E \in Good
  <2>1. PICK e \in E : TRUE
    BY <1>5
  <2> DEFINE r == e.robot
             t == e.task
             F == E \ {e}
  <2>2. r \in robots /\ t \in Task /\ t \notin D /\ e \in entries
    BY <2>1
  <2>3. SUFFICES ASSUME F \in Good, NEW v \in [robots -> Int], Adds(E, v)
                 PROVE  Work(v) + Sum(D) = Work(load) + Sum(D \cup TasksOf(E))
    BY <2>1
  <2> DEFINE u == [v EXCEPT ![r] = load[r]]
  <2>4. u \in [robots -> Int] /\ u[r] = load[r] /\ \A q \in robots \ {r} : u[q] = v[q]
    BY <2>2
  <2> HIDE DEF u
  <2>5. \A d \in F : d.robot # r /\ d.task # t /\ d.robot \in robots
    BY <2>2
  <2>6. Adds(F, u)
    <3>1. \A d \in F : u[d.robot] = load[d.robot] + Duration[d.task]
      BY <2>3, <2>4, <2>5
    <3>2. ASSUME NEW q \in robots, \A d \in F : d.robot # q PROVE u[q] = load[q]
      <4>1. CASE q = r
        BY <2>4, <4>1
      <4>2. CASE q # r
        <5>1. \A d \in E : d.robot # q
          BY <3>2, <4>2
        <5>2. v[q] = load[q]
          BY <2>3, <5>1
        <5> QED
          BY <2>4, <4>2, <5>2
      <4> QED
        BY <4>1, <4>2
    <3> QED
      BY <3>1, <3>2
  <2>7. Work(u) + Sum(D) = Work(load) + Sum(D \cup TasksOf(F))
    BY <2>3, <2>4, <2>6
  <2>8. Work(v) = Work(u) + Duration[t]
    <3> DEFINE R == robots \ {r}
               V == SumFunctionOnSet(v, R)
               U == SumFunctionOnSet(u, R)
    <3>1. Work(v) = v[r] + V
      BY <2>2, SumAnyElement DEF Work
    <3>2. Work(u) = u[r] + U
      BY <2>2, <2>4, SumAnyElement DEF Work
    <3>3. V = U
      <4>1. R \subseteq robots /\ \A q \in R : v[q] = u[q]
        BY <2>4
      <4> HIDE DEF R
      <4> QED
        BY <2>4, <4>1, SumsAgree
    <3>4. U \in Int
      <4>1. R \in SUBSET robots
        OBVIOUS
      <4> HIDE DEF R
      <4> QED
        BY <2>4, <4>1, SumSomeElement
    <3>5. v[r] = load[r] + Duration[t]
      BY <2>1, <2>3
    <3>6. load[r] \in Int /\ Duration[t] \in Int
      BY <1>1, <2>2
    <3> HIDE DEF V, U
    <3> QED
      BY <2>4, <3>1, <3>2, <3>3, <3>4, <3>5, <3>6
  <2>9. Sum(D \cup TasksOf(E)) = Duration[t] + Sum(D \cup TasksOf(F))
    <3> DEFINE K == D \cup TasksOf(E)
    <3>1. K \in SUBSET Task /\ t \in K
      BY <2>1 DEF TasksOf
    <3>2. K \ {t} = D \cup TasksOf(F)
      BY <2>2, <2>5 DEF TasksOf
    <3>3. Sum(K) = Duration[t] + Sum(K \ {t})
      <4> HIDE DEF K, Sum
      <4> QED
        BY <1>2, <3>1
    <3> QED
      BY <3>2, <3>3
  <2>10. /\ Sum(D) \in Int /\ Sum(D \cup TasksOf(F)) \in Int /\ Duration[t] \in Int
         /\ Work(u) \in Int /\ Work(load) \in Int
    <3>1. D \cup TasksOf(F) \in SUBSET Task
      BY DEF TasksOf
    <3> QED
      BY <1>1, <1>2, <1>3, <2>2, <2>4, <3>1
  <2> HIDE DEF Sum, F, t
  <2> QED
    BY <2>7, <2>8, <2>9, <2>10
<1>6. entries \in Good
  <2> HIDE DEF Good
  <2>1. \A E \in SUBSET entries : E # {} => \E e \in E : E \ {e} \in Good => E \in Good
    BY <1>5
  <2>2. \A E \in SUBSET entries : E \in Good
    BY <1>4, <2>1, SubsetInduction, Zenon
  <2> QED
    BY <2>2
<1> QED
  BY <1>6

Load == [r \in robots |-> state[r].workload]

\* The robots have as much work as the schedule has, none more than it had
\* time for, and the clock shows when something ended.
LoadsOK ==
  /\ Work(Load) = SumFunctionOnSet(Duration, TasksOf(schedule))
  /\ \A r \in Idle : state[r].workload <= now
  /\ \A e \in UnderWay : state[e.robot].workload <= e.finish
  /\ now = 0 \/ \E e \in schedule : e.finish = now

LEMMA LoadType ==
  ASSUME PlanInv
  PROVE  Load \in [robots -> Nat] /\ Load \in [robots -> Int]
<1>1. \A r \in robots : state[r] \in RobotStates
  BY DEF PlanInv, PlanTyped, StateOK
<1>2. \A r \in robots : state[r].workload \in Nat
  BY <1>1 DEF RobotStates
<1> QED
  BY <1>2 DEF Load

LEMMA RoundKeepsLoads ==
  ASSUME PlanInv, LoadsOK, NEW entries, RoundStarts(entries)
  PROVE  LoadsOK'
<1>1. /\ schedule' = schedule \cup entries /\ UnderWay' = UnderWay \cup entries
      /\ robots' = robots /\ now' = now
      /\ \A e \in entries :
           state'[e.robot].workload = state[e.robot].workload + Duration[e.task]
      /\ \A r \in robots : (\A e \in entries : e.robot # r) => state'[r] = state[r]
      /\ \A d, e \in entries : d.task = e.task \/ d.robot = e.robot => d = e
      /\ IsFiniteSet(entries)
  BY DEF RoundStarts, mission
<1>2. /\ PlanInv' /\ Load \in [robots -> Nat] /\ Load \in [robots -> Int]
      /\ IsFiniteSet(robots)
  BY RoundKeepsPlan, LoadType, RobotsAndTasks DEF PlanInv
<1>3. Load' \in [robots -> Int]
  <2>1. \A r \in robots' : state'[r] \in RobotStates'
    BY <1>2 DEF PlanInv, PlanTyped, StateOK
  <2>2. \A r \in robots' : state'[r].workload \in Nat
    BY <2>1 DEF RobotStates
  <2> QED
    BY <1>1, <2>2 DEF Load
<1>4. ASSUME NEW e \in entries
      PROVE  /\ e.robot \in robots /\ e.robot \in Idle /\ e.task \in Task
             /\ \A d \in schedule : d.task # e.task
             /\ \A d \in UnderWay : d.robot # e.robot
             /\ e.finish >= now + Duration[e.task]
             /\ e.finish \in Nat /\ Duration[e.task] \in Nat
  <2>1. e.task \in Task
    BY EntriesAreNew DEF Entry
  <2>2. e.robot \in Idle
    BY DEF RoundStarts
  <2> QED
    BY <2>1, <2>2, EntriesAreNew
<1>5. Work(Load)' = SumFunctionOnSet(Duration, TasksOf(schedule'))
  <2> DEFINE D == TasksOf(schedule)
             new == Load'
  <2>1. D \in SUBSET Task
    BY DEF TasksOf, PlanInv, PlanTyped, Entry
  <2>2. \A e \in entries : e.robot \in robots /\ e.task \in Task \ D
    BY <1>4 DEF TasksOf
  <2>3. /\ \A e \in entries : new[e.robot] = Load[e.robot] + Duration[e.task]
        /\ \A r \in robots : (\A e \in entries : e.robot # r) => new[r] = Load[r]
    <3>1. \A r \in robots : new[r] = state'[r].workload /\ Load[r] = state[r].workload
      BY <1>1 DEF Load
    <3> QED
      BY <1>1, <1>4, <3>1
  <2> HIDE DEF D, new
  <2>4. new \in [robots -> Int]
    BY <1>3 DEF new
  <2>5. Work(new) + SumFunctionOnSet(Duration, D) =
          Work(Load) + SumFunctionOnSet(Duration, D \cup TasksOf(entries))
    BY <1>1, <1>2, <2>1, <2>2, <2>3, <2>4, WorkIsShared
  <2>6. D \cup TasksOf(entries) = TasksOf(schedule')
    BY <1>1 DEF D, TasksOf
  <2>7. Work(Load) = SumFunctionOnSet(Duration, D)
    BY DEF LoadsOK, D
  <2>8. Work(new) \in Int /\ Work(Load) \in Int
    BY <1>2, <2>4, SumSomeElement DEF Work
  <2>9. SumFunctionOnSet(Duration, TasksOf(schedule')) \in Int
    <3>1. TasksOf(schedule') \in SUBSET Task
      BY <2>1, <2>2, <2>6 DEF TasksOf
    <3>2. Duration \in [Task -> Int] /\ IsFiniteSet(Task)
      BY AllocatorAssumption DEF AllocatorAssumption
    <3> QED
      BY <3>1, <3>2, SumSomeElement
  <2>10. Work(new) = SumFunctionOnSet(Duration, TasksOf(schedule'))
    <3> DEFINE S == SumFunctionOnSet(Duration, TasksOf(schedule'))
               T == SumFunctionOnSet(Duration, D)
               V == Work(new)
               W == Work(Load)
    <3>1. V + T = W + S
      BY <2>5, <2>6
    <3>2. W = T /\ V \in Int /\ W \in Int /\ S \in Int
      BY <2>7, <2>8, <2>9
    <3> HIDE DEF S, T, V, W
    <3>3. V = S
      BY <3>1, <3>2
    <3> QED
      BY <3>3 DEF V, S
  <2> QED
    BY <1>1, <2>10 DEF Work, new
<1>6. \A r \in Idle' : state'[r].workload <= now'
  <2> SUFFICES ASSUME NEW r \in Idle' PROVE state'[r].workload <= now'
    OBVIOUS
  <2>1. r \in Idle /\ r \in robots /\ \A e \in entries : e.robot # r
    BY <1>1 DEF Idle, UnderWay
  <2> QED
    BY <1>1, <2>1 DEF LoadsOK
<1>7. ASSUME NEW e \in UnderWay' PROVE state'[e.robot].workload <= e.finish
  <2>1. CASE e \in entries
    <3>1. state[e.robot].workload <= now /\ state[e.robot].workload \in Nat /\ now \in Nat
      BY <1>2, <1>4, <2>1 DEF LoadsOK, Load, PlanInv, PlanTyped
    <3>2. /\ state'[e.robot].workload = state[e.robot].workload + Duration[e.task]
          /\ e.finish >= now + Duration[e.task]
          /\ e.finish \in Nat /\ Duration[e.task] \in Nat
      BY <1>1, <1>4, <2>1
    <3> QED
      BY <3>1, <3>2
  <2>2. CASE e \in UnderWay
    <3>1. e.robot \in robots /\ \A d \in entries : d.robot # e.robot
      BY <1>4, <2>2 DEF PlanInv, PlanTyped, UnderWayOK
    <3>2. state'[e.robot] = state[e.robot]
      BY <1>1, <3>1
    <3> QED
      BY <2>2, <3>2 DEF LoadsOK
  <2> QED
    BY <1>1, <2>1, <2>2
<1>8. now' = 0 \/ \E e \in schedule' : e.finish = now'
  BY <1>1 DEF LoadsOK
<1> QED
  BY <1>5, <1>6, <1>7, <1>8 DEF LoadsOK, TasksOf, Work

LEMMA EndKeepsLoads ==
  ASSUME PlanInv, LoadsOK, NEW e \in UnderWay, Ends(e)
  PROVE  LoadsOK'
<1>1. /\ schedule' = schedule /\ UnderWay' = UnderWay \ {e} /\ robots' = robots
      /\ now' = e.finish /\ state' = Moved(e)
      /\ \A d \in UnderWay : e.finish <= d.finish
  BY DEF Ends, mission
<1>2. /\ UnderWay \subseteq schedule /\ now \in Nat /\ e.finish \in Nat /\ now <= e.finish
      /\ \A d \in schedule : d.robot \in robots
      /\ state \in [robots -> RobotStates] /\ \A r \in robots : state[r] \in RobotStates
  BY DEF PlanInv, PlanTyped, UnderWayOK, StateOK, Entry
<1>3. ASSUME NEW r \in robots
      PROVE  state'[r].workload = state[r].workload /\ state[r].workload \in Nat
  <2> DEFINE site == SiteAfter(state[e.robot].place, e.task)
  <2>1. state' = [state EXCEPT ![e.robot] = [state[e.robot] EXCEPT !.place = site]]
    BY <1>1 DEF Moved
  <2> HIDE DEF site
  <2>2. state'[r] = IF r = e.robot THEN [state[r] EXCEPT !.place = site] ELSE state[r]
    BY <1>2, <2>1
  <2>3. state[r] \in RobotStates
    BY <1>2
  <2> QED
    BY <2>2, <2>3 DEF RobotStates
<1>4. Load' = Load
  BY <1>1, <1>3 DEF Load
<1>5. \A r \in Idle' : state'[r].workload <= now'
  <2> SUFFICES ASSUME NEW r \in Idle' PROVE state'[r].workload <= now'
    OBVIOUS
  <2>1. r \in robots /\ \A d \in UnderWay \ {e} : d.robot # r
    BY <1>1 DEF Idle, UnderWay
  <2>2. state'[r].workload = state[r].workload /\ state[r].workload \in Nat
    BY <1>3, <2>1
  <2>3. CASE r = e.robot
    BY <1>1, <2>2, <2>3 DEF LoadsOK
  <2>4. CASE r # e.robot
    <3>1. r \in Idle
      BY <2>1, <2>4 DEF Idle, UnderWay
    <3>2. state[r].workload <= now
      BY <3>1 DEF LoadsOK
    <3> QED
      BY <1>1, <1>2, <2>2, <3>2
  <2> QED
    BY <2>3, <2>4
<1>6. \A d \in UnderWay' : state'[d.robot].workload <= d.finish
  BY <1>1, <1>2, <1>3 DEF LoadsOK
<1>7. \E d \in schedule' : d.finish = now'
  BY <1>1, <1>2
<1>8. Work(Load)' = Work(Load)
  BY <1>1, <1>4 DEF Work
<1> QED
  BY <1>1, <1>5, <1>6, <1>7, <1>8 DEF LoadsOK, TasksOf

LEMMA LoadsHold == Spec => []LoadsOK
<1>1. ASSUME Init PROVE LoadsOK
  <2>1. /\ schedule = {} /\ now = 0 /\ running = <<>>
        /\ state = [r \in robots |-> [place |-> Home[r], workload |-> 0]]
    BY <1>1 DEF Init
  <2>2. IsFiniteSet(robots) /\ PlanInv
    BY <1>1, InitPlan, RobotsAndTasks DEF PlanInv
  <2>3. Load = [r \in robots |-> 0]
    BY <2>1 DEF Load
  <2>4. Work(Load) = 0
    <3> DEFINE zero == [r \in robots |-> 0]
               S == SumFunctionOnSet(zero, robots)
               N == SumFunctionOnSet(zero, {})
    <3>1. zero \in [robots -> Nat] /\ zero \in [robots -> Int] /\ \A r \in robots : zero[r] = 0
      OBVIOUS
    <3>2. robots \in SUBSET robots /\ {} \in SUBSET robots
      OBVIOUS
    <3> HIDE DEF zero
    <3>3. S <= N
      BY <2>2, <3>1, <3>2, SumOverMore
    <3>4. N <= S
      BY <2>2, <3>1, <3>2, SumOverMore
    <3>5. N = 0 /\ S \in Int
      BY <2>2, <3>1, <3>2, SumSomeElement
    <3>6. S = 0
      <4> HIDE DEF S, N
      <4> QED
        BY <3>3, <3>4, <3>5
    <3> QED
      BY <2>3, <3>6 DEF Work, zero
  <2>5. SumFunctionOnSet(Duration, TasksOf(schedule)) = 0
    <3>1. TasksOf(schedule) = {}
      BY <2>1 DEF TasksOf
    <3>2. Duration \in [Task -> Int] /\ IsFiniteSet(Task)
      BY AllocatorAssumption DEF AllocatorAssumption
    <3> QED
      BY <3>1, <3>2, SumSomeElement
  <2>6. UnderWay = {}
    BY <2>1 DEF UnderWay, ToSet
  <2>7. \A r \in Idle : state[r].workload <= now
    BY <2>1 DEF Idle
  <2> QED
    BY <2>1, <2>4, <2>5, <2>6, <2>7 DEF LoadsOK
<1>2. ASSUME PlanInv, LoadsOK, [Next]_vars PROVE LoadsOK'
  <2>1. CASE \E entries : RoundStarts(entries)
    BY <1>2, <2>1, RoundKeepsLoads
  <2>2. CASE \E e \in UnderWay : Ends(e)
    BY <1>2, <2>2, EndKeepsLoads
  <2>3. CASE Stops
    <3>1. UNCHANGED <<mission, schedule, running, state, now>>
      BY <2>3 DEF Stops, GiveUp, Return, vars, mission
    <3>2. /\ schedule' = schedule /\ running' = running /\ robots' = robots
          /\ state' = state /\ now' = now
      BY <3>1 DEF mission
    <3> QED
      BY <1>2, <3>2 DEF LoadsOK, Idle, UnderWay, Load, Work, TasksOf
  <2> QED
    BY <1>2, <2>1, <2>2, <2>3, PlanSteps
<1> QED
  BY <1>1, <1>2, PlanInvHolds, PTL DEF Spec

\* The earliest ends solve their equation, for the tasks of a DAG one by one.
EndsEarly(T, f) ==
  f = [t \in T |-> Max({0} \cup {f[p] : p \in Prerequisites[t]}) + Duration[t]]

LEMMA EarliestFinishExists ==
  ASSUME NEW T, IsFiniteSet(T), WellFormed(T)
  PROVE  EndsEarly(T, EarliestFinish(T))
<1> DEFINE Solved == {U \in SUBSET T : Closed(U) /\ \E f : EndsEarly(U, f)}
           Rest == {T \ U : U \in Solved}
<1>1. {} \in Solved
  <2> DEFINE f == [t \in {} |-> Max({0} \cup {t}) + Duration[t]]
  <2>1. Closed({})
    BY DEF Closed
  <2>2. EndsEarly({}, f)
    BY DEF EndsEarly
  <2> HIDE DEF f
  <2> QED
    BY <2>1, <2>2
<1>2. Rest \subseteq SUBSET T /\ Rest # {}
  BY <1>1
<1>3. \E K \in Rest : \A L \in Rest : L \subseteq K => L = K
  <2>1. Rest \subseteq SUBSET T
    BY <1>2
  <2>2. Rest # {}
    BY <1>2
  <2> HIDE DEF Rest
  <2> QED
    BY <2>1, <2>2, SmallestSubset
<1>4. PICK K \in Rest : \A L \in Rest : L \subseteq K => L = K
  BY <1>3
<1>5. PICK U \in Solved : K = T \ U
  OBVIOUS
<1>6. PICK f : EndsEarly(U, f)
  OBVIOUS
<1>7. U \subseteq T /\ \A x \in U : Prerequisites[x] \subseteq U
  BY DEF Closed
<1>8. ASSUME K # {} PROVE FALSE
  <2>1. PICK t \in K : Prerequisites[t] \cap K = {}
    <3>1. K \in (SUBSET T) \ {{}}
      BY <1>2, <1>8
    <3> QED
      BY <3>1 DEF WellFormed, Acyclic
  <2>2. t \in T /\ t \notin U /\ Prerequisites[t] \subseteq U
    BY <1>5, <2>1 DEF WellFormed, Closed
  <2> DEFINE W == U \cup {t}
             Time(g, x) == Max({0} \cup {g[p] : p \in Prerequisites[x]}) + Duration[x]
             g == [x \in W |-> IF x = t THEN Time(f, t) ELSE f[x]]
  <2>3. W \in SUBSET T /\ Closed(W)
    BY <1>7, <2>2 DEF Closed
  <2>4. \A x \in U : g[x] = f[x]
    BY <2>2
  <2>5. g[t] = Time(f, t)
    OBVIOUS
  <2>6. \A x \in U : f[x] = Time(f, x)
    BY <1>6 DEF EndsEarly
  <2>7. g = [x \in W |-> g[x]]
    OBVIOUS
  <2> HIDE DEF g
  <2>8. \A x \in W : Prerequisites[x] \subseteq U
    BY <1>7, <2>2
  <2>9. ASSUME NEW x \in W
        PROVE  {g[p] : p \in Prerequisites[x]} = {f[p] : p \in Prerequisites[x]}
    BY <2>4, <2>8
  <2>10. \A x \in W : Time(g, x) = Time(f, x)
    BY <2>9
  <2>11. \A x \in W : g[x] = Time(g, x)
    <3> HIDE DEF Time
    <3> QED
      BY <2>4, <2>5, <2>6, <2>10
  <2>12. EndsEarly(W, g)
    <3> HIDE DEF W
    <3> QED
      BY <2>7, <2>11, Zenon DEF EndsEarly
  <2>13. T \ W \in Rest
    BY <2>3, <2>12
  <2> QED
    BY <1>4, <1>5, <2>1, <2>2, <2>13
<1>9. U = T
  BY <1>5, <1>7, <1>8
<1>10. \E h : EndsEarly(T, h)
  BY <1>6, <1>9
<1>11. EarliestFinish(T) = CHOOSE h : EndsEarly(T, h)
  BY Zenon DEF EarliestFinish, EndsEarly
<1> QED
  BY <1>10, <1>11, Zenon

\* No task ends earlier than it can.
LEMMA EndsNoEarlier ==
  ASSUME PlanInv, TakesItsTime, WellFormed(schedulable), TasksOf(schedule) = schedulable
  PROVE  \A t \in schedulable :
           /\ EarliestFinish(schedulable)[t] \in Nat
           /\ \A d \in schedule : d.task = t => EarliestFinish(schedulable)[t] <= d.finish
<1> DEFINE F == EarliestFinish(schedulable)
           Fits(t) == /\ F[t] \in Nat
                      /\ \A d \in schedule : d.task = t => F[t] <= d.finish
           Bad == {t \in schedulable : ~Fits(t)}
<1>1. IsFiniteSet(schedulable) /\ schedulable \subseteq Task
  <2>1. IsFiniteSet(tasks) /\ schedulable \subseteq tasks /\ tasks \subseteq Task
    BY RobotsAndTasks DEF PlanInv
  <2> QED
    BY <2>1, FS_Subset
<1>2. \A t \in schedulable : F[t] = Max({0} \cup {F[p] : p \in Prerequisites[t]}) + Duration[t]
  <2>1. EndsEarly(schedulable, F)
    BY <1>1, EarliestFinishExists
  <2> HIDE DEF F
  <2> QED
    BY <2>1 DEF EndsEarly
<1> HIDE DEF F
<1>3. ASSUME NEW t \in schedulable, \A p \in Prerequisites[t] : Fits(p)
      PROVE  Fits(t)
  <2> DEFINE g == [p \in Prerequisites[t] |-> F[p]]
             E == {F[p] : p \in Prerequisites[t]}
             M == {0} \cup E
  <2>1. IsFiniteSet(Prerequisites[t])
    <3>1. Prerequisites[t] \in SUBSET schedulable
      BY DEF WellFormed, Closed
    <3> QED
      BY <1>1, <3>1, FS_Subset
  <2>2. IsFiniteSet(M) /\ M # {} /\ M \subseteq Nat
    <3>1. g \in Surjection(Prerequisites[t], E)
      BY DEF Surjection
    <3>2. E \subseteq Nat
      BY <1>3
    <3> HIDE DEF g, E
    <3>3. IsFiniteSet(E)
      BY <2>1, <3>1, FS_Surjection
    <3>4. IsFiniteSet(M)
      BY <3>3, FS_Singleton, FS_Union
    <3> QED
      BY <3>2, <3>4
  <2>3. Max(M) \in M /\ Max(M) \in Nat
    <3> HIDE DEF M
    <3> QED
      BY <2>2, MaxOfFinite
  <2>4. Duration[t] \in Nat
    BY <1>1, AllocatorAssumption DEF AllocatorAssumption
  <2>5. F[t] = Max(M) + Duration[t]
    BY <1>2
  <2>6. ASSUME NEW d \in schedule, d.task = t PROVE F[t] <= d.finish
    <3>1. d.start \in Nat /\ d.finish \in Nat
      BY DEF PlanInv, PlanTyped, Entry
    <3>2. ASSUME NEW p \in Prerequisites[t] PROVE F[p] <= d.start
      <4>1. PICK e \in schedule : e.task = p /\ e.finish <= d.start
        BY <2>6, <3>2 DEF PlanInv, ScheduleSound
      <4>2. F[p] \in Nat /\ F[p] <= e.finish /\ e.finish \in Nat
        BY <1>3, <3>2, <4>1 DEF PlanInv, PlanTyped, Entry
      <4> QED
        BY <3>1, <4>1, <4>2
    <3>3. Max(M) <= d.start
      <4>1. Max(M) = 0 \/ \E p \in Prerequisites[t] : Max(M) = F[p]
        BY <2>3
      <4> QED
        BY <3>1, <3>2, <4>1
    <3>4. d.finish >= d.start + Duration[t]
      BY <2>6 DEF TakesItsTime
    <3> HIDE DEF M
    <3> QED
      BY <2>3, <2>4, <2>5, <3>1, <3>3, <3>4
  <2> HIDE DEF M
  <2> QED
    BY <2>3, <2>4, <2>5, <2>6
<1>4. Bad = {}
  <2> SUFFICES ASSUME Bad # {} PROVE FALSE
    OBVIOUS
  <2>1. Bad \in (SUBSET schedulable) \ {{}}
    OBVIOUS
  <2> HIDE DEF Fits
  <2>2. PICK t \in Bad : Prerequisites[t] \cap Bad = {}
    BY <2>1 DEF WellFormed, Acyclic
  <2>3. Prerequisites[t] \subseteq schedulable
    BY <2>2 DEF WellFormed, Closed
  <2> QED
    BY <1>3, <2>2, <2>3
<1> QED
  BY <1>4 DEF F

(***************************************************************************)
(* makespan_lower_bound is a lower bound: no schedule that allocate returns *)
(* is shorter than the critical path, the longest task, or the mean work of *)
(* a robot.                                                                 *)
(***************************************************************************)
THEOREM MakespanIsAboveBound == Spec => []MakespanAboveBound
<1>1. ASSUME PlanInv, AccountOK, TakesItsTime, LoadsOK PROVE MakespanAboveBound
  <2> DEFINE M == Max({0} \cup {e.finish : e \in schedule})
             F == EarliestFinish(schedulable)
             Work0 == SumFunction([t \in schedulable |-> Duration[t]])
  <2> SUFFICES ASSUME outcome = "done", robots # {}
               PROVE  ReachesLowerBound(M, schedulable, Cardinality(robots))
    BY DEF MakespanAboveBound
  <2>1. M \in Nat /\ \A e \in schedule : e.finish <= M
    BY <1>1, LastEnd
  <2>2. completed = schedulable /\ TasksOf(schedule) = schedulable
    BY <1>1 DEF AccountOK, PlanInv, PlanTyped, OverOK, TasksOf
  <2>3. IsFiniteSet(tasks) /\ schedulable \subseteq tasks /\ schedulable \subseteq Task
        /\ IsFiniteSet(robots) /\ IsFiniteSet(schedulable)
    <3>1. IsFiniteSet(tasks) /\ schedulable \subseteq tasks /\ tasks \subseteq Task
          /\ IsFiniteSet(robots)
      BY <1>1, RobotsAndTasks DEF PlanInv
    <3> QED
      BY <3>1, FS_Subset
  <2>4. WellFormed(schedulable)
    BY <1>1, <2>3, SchedulableIsDag DEF AccountOK, PlanInv, PlanTyped, ArgsOK
  <2>5. \A d \in schedule : /\ d.start \in Nat /\ d.finish \in Nat
                            /\ d.finish >= d.start + Duration[d.task]
    BY <1>1 DEF PlanInv, PlanTyped, Entry, TakesItsTime
  <2>6. Duration \in [Task -> Int] /\ IsFiniteSet(Task) /\ \A t \in Task : Duration[t] \in Nat
    BY AllocatorAssumption DEF AllocatorAssumption
  <2> HIDE DEF M, F
  <2>7. now \in Nat /\ now <= M
    BY <1>1, <2>1 DEF LoadsOK, PlanInv, PlanTyped
  <2>8. ASSUME NEW t \in schedulable PROVE M >= Duration[t]
    <3>1. PICK d \in schedule : d.task = t
      BY <2>2 DEF TasksOf
    <3>2. d.finish <= M /\ d.start \in Nat /\ d.finish >= d.start + Duration[t]
          /\ d.finish \in Nat /\ Duration[t] \in Nat
      BY <2>1, <2>3, <2>5, <2>6, <3>1
    <3> QED
      BY <2>1, <3>2
  <2>9. M >= CriticalPathLength(schedulable)
    <3> DEFINE E == {F[t] : t \in schedulable}
               g == [t \in schedulable |-> F[t]]
               U == {0} \cup E
    <3>1. ASSUME NEW t \in schedulable PROVE F[t] \in Nat /\ F[t] <= M
      <4>1. F[t] \in Nat /\ \A d \in schedule : d.task = t => F[t] <= d.finish
        BY <1>1, <2>2, <2>4, EndsNoEarlier DEF F
      <4>2. PICK d \in schedule : d.task = t
        BY <2>2 DEF TasksOf
      <4> QED
        BY <2>1, <2>5, <4>1, <4>2
    <3>2. IsFiniteSet(E)
      <4>1. g \in Surjection(schedulable, E)
        BY DEF Surjection
      <4> HIDE DEF g, E
      <4> QED
        BY <2>3, <4>1, FS_Surjection
    <3>3. E \subseteq Nat
      BY <3>1
    <3>4. IsFiniteSet(U) /\ U # {} /\ U \subseteq Nat
      <4>1. IsFiniteSet({0})
        BY FS_Singleton
      <4> HIDE DEF E
      <4>2. IsFiniteSet(U)
        BY <3>2, <4>1, FS_Union
      <4> QED
        BY <3>3, <4>2
    <3>5. Max(U) \in U
      <4> HIDE DEF U
      <4> QED
        BY <3>4, MaxOfFinite
    <3>6. Max(U) <= M
      BY <2>1, <3>1, <3>5
    <3>7. Max(U) \in Nat
      BY <3>4, <3>5
    <3>8. CriticalPathLength(schedulable) = Max(U)
      BY DEF CriticalPathLength, F
    <3> HIDE DEF U
    <3> QED
      BY <2>1, <3>6, <3>7, <3>8
  <2>10. M * Cardinality(robots) >= Work0
    <3> DEFINE zero == [r \in robots |-> 0]
               n == Cardinality(robots)
               Z == SumFunctionOnSet(zero, robots)
               L == Work(Load)
    <3>1. UnderWay = {}
      BY <1>1, <2>2 DEF PlanInv, PlanTyped, UnderWayOK
    <3>2. Idle = robots
      BY <3>1 DEF Idle, UnderWay
    <3>3. Load \in [robots -> Int] /\ \A r \in robots : Load[r] \in Nat /\ Load[r] <= now
      BY <1>1, <3>2, LoadType DEF LoadsOK, Load
    <3>4. zero \in [robots -> Int] /\ \A r \in robots : zero[r] = 0
      OBVIOUS
    <3>5. \A r \in robots : Load[r] + zero[r] <= zero[r] + zero[r] + M
      BY <2>1, <2>7, <3>3, <3>4
    <3>6. M \in Int
      BY <2>1
    <3> HIDE DEF zero
    <3>7. L + Z <= Z + Z + n * M
      BY <2>3, <3>3, <3>4, <3>5, <3>6, SumsCompare DEF Work
    <3>8. Z = 0
      <4> DEFINE N == SumFunctionOnSet(zero, {})
      <4>1. zero \in [robots -> Nat] /\ robots \in SUBSET robots /\ {} \in SUBSET robots
        BY <3>4 DEF zero
      <4>2. Z <= N
        BY <2>3, <3>4, <4>1, SumOverMore
      <4>3. N <= Z
        BY <2>3, <3>4, <4>1, SumOverMore
      <4>4. N = 0 /\ Z \in Int
        BY <2>3, <3>4, <4>1, SumSomeElement
      <4> HIDE DEF Z, N
      <4> QED
        BY <4>2, <4>3, <4>4
    <3>9. L \in Int /\ n \in Nat
      BY <2>3, <3>3, SumSomeElement, FS_CardinalityType DEF Work
    <3>10. L = Work0
      <4> DEFINE d == [t \in schedulable |-> Duration[t]]
      <4>1. Work0 = SumFunctionOnSet(d, schedulable)
        BY DEF SumFunction
      <4>2. d \in [schedulable -> Int] /\ \A t \in schedulable : d[t] = Duration[t]
        BY <2>3, <2>6
      <4> HIDE DEF d, Work0
      <4>3. SumFunctionOnSet(d, schedulable) = SumFunctionOnSet(Duration, schedulable)
        BY <2>3, <2>6, <4>2, SumsAgree
      <4>4. L = SumFunctionOnSet(Duration, schedulable)
        BY <1>1, <2>2 DEF LoadsOK
      <4> QED
        BY <4>1, <4>3, <4>4
    <3> HIDE DEF L, n, Z, Work0
    <3>11. n * M = M * n /\ n * M \in Int
      BY <3>6, <3>9
    <3>12. L <= n * M
      BY <3>7, <3>8, <3>9, <3>11
    <3>13. M * n >= L
      BY <3>9, <3>11, <3>12
    <3> QED
      BY <3>10, <3>13 DEF n
  <2> QED
    BY <2>8, <2>9, <2>10 DEF ReachesLowerBound
<1>2. Spec => []AccountOK
  <2>1. Init => AccountOK
    BY InitPlan
  <2> QED
    BY <2>1, NextKeepsAccount, PlanInvHolds, PTL DEF Spec
<1> QED
  BY <1>1, <1>2, PlanInvHolds, TakesItsTimeHolds, LoadsHold, PTL

-----------------------------------------------------------------------------
(* The rounds that are asked for *)

\* What the tasks of a round are worth; slots are worth less than any of them.
LEMMA RoundRows ==
  ASSUME PlanTyped, RoundDue, NEW r \in Idle
  PROVE  /\ RoundBenefits[r] \in [AvailableNow \cup Slots -> Int]
         /\ \A t \in AvailableNow, s \in Slots : RoundBenefits[r][s] < RoundBenefits[r][t]
<1> DEFINE row == [t \in AvailableNow |-> Benefit(r, state[r], t)]
           least == CHOOSE b \in {row[t] : t \in DOMAIN row} : \A t \in DOMAIN row : b <= row[t]
<1>1. AvailableNow \subseteq tasks /\ AvailableNow # {}
  BY RobotsAndTasks DEF AvailableNow, Available, RoundDue
<1>2. IsFiniteSet(AvailableNow)
  BY <1>1, RobotsAndTasks, FS_Subset
<1>3. ASSUME NEW t \in AvailableNow PROVE Benefit(r, state[r], t) \in Int
  <2>1. r \in robots /\ robots \in RobotChoices /\ t \in Task
    BY <1>1, RobotsAndTasks DEF PlanTyped, ArgsOK, Idle
  <2>2. state[r].place \in Task \cup {Home[r]} /\ state[r].workload \in Nat
    BY <2>1 DEF PlanTyped, StateOK, RobotStates
  <2>3. Attraction[r][state[r].place][t] \in Int
    BY <2>1, <2>2, AttractionAssumption DEF AttractionAssumption
  <2>4. LoadWeight * state[r].workload \in Int
    BY <2>2, BenefitAssumption DEF BenefitAssumption
  <2> QED
    BY <2>3, <2>4 DEF Benefit
<1>4. row \in [AvailableNow -> Int] /\ DOMAIN row = AvailableNow
  BY <1>3
<1>5. RoundBenefits[r] = [t \in AvailableNow \cup Slots |->
                            IF t \in AvailableNow THEN row[t] ELSE least - IdleGap]
  BY DEF RoundBenefits, Padded, Slots
<1> HIDE DEF row
<1>6. least \in Int /\ \A t \in AvailableNow : least <= row[t]
  <2>1. \E x \in AvailableNow : \A y \in AvailableNow : row[x] <= row[y]
    BY <1>1, <1>2, <1>4, LeastValue
  <2> QED
    BY <1>4, <2>1
<1> HIDE DEF least
<1>7. \A s \in Slots : s \notin AvailableNow
  BY SlotsCount
<1>8. IdleGap \in Int /\ IdleGap > 0
  BY BenefitAssumption DEF BenefitAssumption
<1>9. RoundBenefits[r] \in [AvailableNow \cup Slots -> Int]
  BY <1>4, <1>5, <1>6, <1>8
<1>10. ASSUME NEW t \in AvailableNow, NEW s \in Slots
       PROVE  RoundBenefits[r][s] < RoundBenefits[r][t]
  <2>1. RoundBenefits[r][s] = least - IdleGap /\ RoundBenefits[r][t] = row[t]
    BY <1>5, <1>7
  <2>2. row[t] \in Int /\ least <= row[t]
    BY <1>4, <1>6
  <2> QED
    BY <1>6, <1>8, <2>1, <2>2
<1> QED
  BY <1>9, <1>10

(***************************************************************************)
(* Every round allocate asks for passes the checks of run_round and of its  *)
(* agents, and prices idle slots "strictly below every real option so they  *)
(* only absorb surplus robots".                                             *)
(***************************************************************************)
RoundsWellPosed ==
  Allocating /\ RoundDue =>
    /\ Accepted(RoundBenefits)
    /\ \A r \in Idle, t \in AvailableNow, s \in Slots :
         RoundBenefits[r][s] < RoundBenefits[r][t]

THEOREM RoundsAreAccepted == Spec => []RoundsWellPosed
<1>1. PlanInv => RoundsWellPosed
  <2> SUFFICES ASSUME PlanTyped, RoundDue
               PROVE  /\ Accepted(RoundBenefits)
                      /\ \A r \in Idle, t \in AvailableNow, s \in Slots :
                           RoundBenefits[r][s] < RoundBenefits[r][t]
    BY DEF RoundsWellPosed, PlanInv
  <2> DEFINE offered == AvailableNow \cup Slots
             benefits == RoundBenefits
  <2>1. DOMAIN benefits = Idle /\ \A r \in Idle : DOMAIN benefits[r] = offered
    BY RoundOffers
  <2>2. Idle # {} /\ Idle \subseteq Nat /\ IsFiniteSet(Idle)
    BY RobotsAndTasks, SlotsFillUp DEF RoundDue, Idle
  <2>3. offered # {} /\ IsFiniteSet(offered) /\ Cardinality(Idle) <= Cardinality(offered)
    BY SlotsFillUp DEF RoundDue
  <2>4. \A r \in Idle : benefits[r] \in [offered -> Int]
    BY RoundRows
  <2>5. benefits = [r \in Idle |-> benefits[r]]
    BY DEF RoundBenefits
  <2> HIDE DEF offered, benefits
  <2>6. benefits \in [Idle -> [offered -> Int]]
    BY <2>4, <2>5
  <2>7. offered \in {DOMAIN benefits[r] : r \in DOMAIN benefits}
    BY <2>1, <2>2
  <2>8. Accepted(benefits)
    BY <2>1, <2>2, <2>3, <2>6, <2>7 DEF Accepted
  <2> QED
    BY <2>8, RoundRows DEF benefits
<1> QED
  BY <1>1, PlanInvHolds, PTL

(***************************************************************************)
(* Whatever the round returns, somebody starts a task: allocate never goes  *)
(* from one round to the same round again without work under way, which is  *)
(* why RunRound need not fall through to the advance of the clock.          *)
(***************************************************************************)
THEOREM EveryRoundStartsWork == Spec => [][RunRound => running' # running]_vars
<1>1. PlanInv /\ [Next]_vars => (RunRound => running' # running)
  <2> SUFFICES ASSUME PlanInv, RunRound PROVE running' # running
    OBVIOUS
  <2>1. PICK entries : RoundStarts(entries)
    BY RunRoundStarts DEF PlanInv
  <2>2. PICK e \in entries : e \in UnderWay' /\ e.task \in AvailableNow
    BY <2>1 DEF RoundStarts
  <2>3. e \notin UnderWay
    BY <2>2 DEF AvailableNow, UnderWay
  <2> QED
    BY <2>2, <2>3 DEF UnderWay
<1> QED
  BY <1>1, PlanInvHolds, PTL DEF Spec

=============================================================================

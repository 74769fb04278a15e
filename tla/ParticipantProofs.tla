------------------------- MODULE ParticipantProofs -------------------------
(***************************************************************************)
(* What the participants of a fleet keep, proved of the operators of        *)
(* Participant.tla and thus for whatever host calls them: given the tasks   *)
(* that are known and the tasks that are done, by whom, a participant that  *)
(* is sound and handles sound messages stays sound, and sends sound         *)
(* messages.  SystemSimProofs.tla and RosFleetProofs.tla carry this through *)
(* their steps.                                                             *)
(***************************************************************************)
EXTENDS Fleet, FoldLemmas

(* Agents *)

Rows == UNION {[S -> Int] : S \in SUBSET TaskIds}

Tables == UNION {[S -> Entries(Robot)] : S \in SUBSET TaskIds}

Agents ==
  {ag \in [ benefit : Rows, prices : Tables, assignment : TaskIds \cup {NoTask},
            quiescent : 0..QuiescenceRounds, dirty : BOOLEAN ] :
     /\ DOMAIN ag.prices = DOMAIN ag.benefit /\ DOMAIN ag.benefit # {}
     /\ ag.assignment = NoTask \/ ag.assignment \in DOMAIN ag.benefit}

Inners == [sender : Robot, entries : Tables]

LEMMA FleetIsFinite ==
  /\ IsFiniteSet(Robot) /\ IsFiniteSet(RealTask) /\ Cardinality(Robot) \in Nat
  /\ IsFiniteSet(TaskIds) /\ TaskIds \subseteq Int
<1>1. IsFiniteSet(Robot) /\ IsFiniteSet(RealTask) /\ RealTask \subseteq Nat
  BY FleetAssumption DEF FleetAssumption
<1>2. Cardinality(Robot) \in Nat
  BY <1>1, FS_CardinalityType
<1> DEFINE n == Cardinality(Robot)
<1>3. IdleSlots(n) = (0 - n)..(0 - 1)
  <2>1. n \in Nat
    BY <1>2
  <2> HIDE DEF n
  <2>2. \A i \in (0 - n)..(0 - 1) : 0 - i \in 1..n /\ i = 0 - (0 - i)
    BY <2>1
  <2>3. \A k \in 1..n : 0 - k \in (0 - n)..(0 - 1)
    BY <2>1
  <2> QED
    BY <2>2, <2>3 DEF IdleSlots
<1>4. IsFiniteSet(IdleSlots(n))
  BY <1>2, <1>3, FS_Interval
<1>5. IsFiniteSet(TaskIds) /\ TaskIds \subseteq Int
  <2>1. TaskIds = RealTask \cup IdleSlots(n)
    BY DEF TaskIds
  <2>2. IdleSlots(n) \subseteq Int
    BY <1>2, <1>3
  <2> HIDE DEF n
  <2>3. IsFiniteSet(RealTask \cup IdleSlots(n))
    BY <1>1, <1>4, FS_Union
  <2>4. RealTask \subseteq Int
    BY <1>1
  <2> QED
    BY <2>1, <2>2, <2>3, <2>4, Zenon
<1> QED
  BY <1>1, <1>2, <1>5

LEMMA TableFields ==
  ASSUME NEW table \in Tables
  PROVE  /\ DOMAIN table \in SUBSET TaskIds
         /\ table \in [DOMAIN table -> Entries(Robot)]
         /\ \A t \in DOMAIN table : table[t].price \in Nat /\ table[t] \in Entries(Robot)
BY DEF Tables, Entries

\* A merge keeps a table of the same tasks.
LEMMA MergeResult ==
  ASSUME NEW ours \in Tables, NEW incoming \in Tables
  PROVE  Merge(ours, incoming) \in [DOMAIN ours -> Entries(Robot)]
<1>1. /\ ours \in [DOMAIN ours -> Entries(Robot)]
      /\ incoming \in [DOMAIN incoming -> Entries(Robot)]
  BY TableFields
<1>2. \A t \in DOMAIN ours :
        (IF t \in DOMAIN incoming THEN MaxEntry(ours[t], incoming[t]) ELSE ours[t])
          \in Entries(Robot)
  BY <1>1 DEF MaxEntry
<1> QED
  BY <1>2 DEF Merge

LEMMA SomeTable ==
  ASSUME NEW S \in SUBSET TaskIds, NEW table \in [S -> Entries(Robot)]
  PROVE  table \in Tables /\ DOMAIN table = S
BY DEF Tables

LEMMA InitialTableResult ==
  ASSUME NEW S \in SUBSET TaskIds
  PROVE  InitialTable(S) \in Tables /\ DOMAIN InitialTable(S) = S
<1>1. InitialTable(S) \in [S -> Entries(Robot)]
  BY DEF InitialTable, InitialEntry, Entries
<1> QED
  BY <1>1, SomeTable

LEMMA NewAgentResult ==
  ASSUME NEW row \in Rows, DOMAIN row # {}
  PROVE  NewAgent(row) \in Agents /\ NewAgent(row).benefit = row
<1>1. DOMAIN row \in SUBSET TaskIds
  BY DEF Rows
<1>2. InitialTable(DOMAIN row) \in Tables /\ DOMAIN InitialTable(DOMAIN row) = DOMAIN row
  BY <1>1, InitialTableResult
<1>3. 0 \in 0..QuiescenceRounds
  BY RoundConfigAssumption DEF RoundConfigAssumption
<1> QED
  BY <1>2, <1>3 DEF NewAgent, Agents

LEMMA HandleMessageResult ==
  ASSUME NEW r \in Robot, NEW ag \in Agents, NEW m \in Inners
  PROVE  /\ HandleMessage(r, ag, m) \in Agents
         /\ HandleMessage(r, ag, m).benefit = ag.benefit
<1>1. ag.prices \in Tables /\ m.entries \in Tables
  BY DEF Agents, Inners
<1> DEFINE merged == Merge(ag.prices, m.entries)
<1>2. merged \in Tables /\ DOMAIN merged = DOMAIN ag.prices
  BY <1>1, MergeResult, TableFields, SomeTable
<1>3. (merged # ag.prices) \in BOOLEAN
  OBVIOUS
<1> HIDE DEF merged
<1>4. CASE m.sender = r
  BY <1>4 DEF HandleMessage
<1>5. CASE m.sender # r
  <2>1. HandleMessage(r, ag, m) =
          [ag EXCEPT !.prices = merged, !.dirty = ag.dirty \/ merged # ag.prices]
    BY <1>5 DEF HandleMessage, merged
  <2> QED
    BY <1>2, <1>3, <2>1 DEF Agents
<1> QED
  BY <1>4, <1>5

LEMMA SettleResult ==
  ASSUME NEW ag \in Agents
  PROVE  Settle(ag) \in Agents /\ Settle(ag).benefit = ag.benefit
<1>1. QuiescenceRounds \in Nat \ {0}
  BY RoundConfigAssumption DEF RoundConfigAssumption
<1>2. ag.quiescent \in 0..QuiescenceRounds
  BY DEF Agents
<1>3. /\ 0 \in 0..QuiescenceRounds
      /\ (IF ag.quiescent < QuiescenceRounds THEN ag.quiescent + 1 ELSE ag.quiescent)
           \in 0..QuiescenceRounds
  BY <1>1, <1>2
<1> QED
  BY <1>3 DEF Settle, Agents

\* A bid is on a task of the round, and raises its price.
LEMMA BidResult ==
  ASSUME NEW ag \in Agents, NEW bid \in Bids(ag)
  PROVE  bid.task \in DOMAIN ag.benefit /\ bid.increment \in Nat
<1>1. PICK t \in Best(ag, DOMAIN ag.benefit) :
        bid \in {[task |-> t, increment |-> g] : g \in Increments(ag, t)}
  BY DEF Bids
<1>2. bid.task = t /\ bid.increment \in Increments(ag, t)
  BY <1>1
<1>3. t \in DOMAIN ag.benefit
  BY DEF Best
<1>4. Epsilon \in Nat
  BY RoundConfigAssumption DEF RoundConfigAssumption
<1>5. \A u \in DOMAIN ag.benefit : Net(ag, u) \in Int
  <2>1. ag.benefit \in Rows /\ ag.prices \in Tables /\ DOMAIN ag.prices = DOMAIN ag.benefit
    BY DEF Agents
  <2>2. \A u \in DOMAIN ag.benefit : ag.benefit[u] \in Int
    BY <2>1 DEF Rows
  <2>3. \A u \in DOMAIN ag.benefit : ag.prices[u].price \in Nat
    BY <2>1, TableFields
  <2> QED
    BY <2>2, <2>3 DEF Net
<1>6. ASSUME NEW u \in Best(ag, DOMAIN ag.benefit \ {t})
      PROVE  Net(ag, t) - Net(ag, u) + Epsilon \in Nat
  <2>1. u \in DOMAIN ag.benefit /\ u # t
    BY DEF Best
  <2>2. ScansAhead(ag, t, u)
    BY <2>1 DEF Best
  <2>3. Net(ag, t) >= Net(ag, u)
    BY <1>3, <1>5, <2>1, <2>2 DEF ScansAhead
  <2> QED
    BY <1>3, <1>4, <1>5, <2>1, <2>3
<1>7. \A g \in Increments(ag, t) : g \in Nat
  BY <1>4, <1>6 DEF Increments
<1> QED
  BY <1>2, <1>3, <1>7

LEMMA PlaceBidResult ==
  ASSUME NEW r \in Robot, NEW ag \in Agents, NEW bid \in Bids(ag)
  PROVE  PlaceBid(r, ag, bid) \in Agents /\ PlaceBid(r, ag, bid).benefit = ag.benefit
<1>1. bid.task \in DOMAIN ag.benefit /\ bid.increment \in Nat
  BY BidResult
<1>2. ag.prices \in Tables /\ DOMAIN ag.prices = DOMAIN ag.benefit
  BY DEF Agents
<1>3. /\ DOMAIN ag.prices \in SUBSET TaskIds
      /\ ag.prices \in [DOMAIN ag.prices -> Entries(Robot)]
      /\ ag.prices[bid.task].price \in Nat
  BY <1>1, <1>2, TableFields
<1>4. [price |-> ag.prices[bid.task].price + bid.increment, bidder |-> r] \in Entries(Robot)
  BY <1>1, <1>3 DEF Entries
<1> DEFINE raised == Raise(ag.prices, bid.task, bid.increment, r)
<1>5. raised \in [DOMAIN ag.prices -> Entries(Robot)]
  BY <1>3, <1>4 DEF Raise
<1>6. raised \in Tables /\ DOMAIN raised = DOMAIN ag.prices
  BY <1>3, <1>5, SomeTable
<1> HIDE DEF raised
<1>7. PlaceBid(r, ag, bid) =
        [ag EXCEPT !.prices = raised, !.assignment = bid.task, !.dirty = TRUE]
  BY DEF PlaceBid, raised
<1>8. bid.task \in TaskIds
  BY <1>1, <1>2, <1>3
<1> QED
  BY <1>1, <1>2, <1>6, <1>7, <1>8 DEF Agents

\* What a tick does to an agent.
LEMMA AfterTickResult ==
  ASSUME NEW r \in Robot, NEW ag \in Agents, NEW new \in AfterTick(r, ag)
  PROVE  new \in Agents /\ new.benefit = ag.benefit
<1>1. CASE Outbid(r, ag)
  <2>1. PICK bid \in Bids(ag) : new = Settle(PlaceBid(r, ag, bid))
    BY <1>1 DEF AfterTick
  <2> QED
    BY <2>1, PlaceBidResult, SettleResult
<1>2. CASE ~ Outbid(r, ag)
  BY <1>2, SettleResult DEF AfterTick
<1> QED
  BY <1>1, <1>2

-----------------------------------------------------------------------------
(* The scan of _place_bid *)

LEMMA NetOfTasks ==
  ASSUME NEW ag \in Agents
  PROVE  /\ DOMAIN ag.benefit \in SUBSET TaskIds /\ IsFiniteSet(DOMAIN ag.benefit)
         /\ \A t \in DOMAIN ag.benefit :
              Net(ag, t) \in Int /\ ScanRank[t] \in Int /\ ag.prices[t].price \in Nat
<1>1. ag.benefit \in Rows /\ ag.prices \in Tables /\ DOMAIN ag.prices = DOMAIN ag.benefit
  BY DEF Agents
<1>2. DOMAIN ag.benefit \in SUBSET TaskIds /\ \A t \in DOMAIN ag.benefit : ag.benefit[t] \in Int
  BY <1>1 DEF Rows
<1>3. IsFiniteSet(DOMAIN ag.benefit)
  BY <1>2, FleetIsFinite, FS_Subset, Zenon
<1>4. \A t \in DOMAIN ag.benefit : ag.prices[t].price \in Nat
  BY <1>1, TableFields
<1>5. \A t \in DOMAIN ag.benefit : Net(ag, t) \in Int
  BY <1>2, <1>4 DEF Net
<1>6. \A t \in DOMAIN ag.benefit : ScanRank[t] \in Int
  BY <1>2, FleetAssumption DEF FleetAssumption
<1> QED
  BY <1>2, <1>3, <1>4, <1>5, <1>6

\* The scan of some tasks ends with one of them, and one only.
LEMMA ScanResult ==
  ASSUME NEW ag \in Agents, NEW S \in SUBSET DOMAIN ag.benefit, S # {}
  PROVE  \E t \in S : Best(ag, S) = {t}
<1> DEFINE R == {p \in S \X S : ScansAhead(ag, p[2], p[1])}
<1>1. \A t \in S : Net(ag, t) \in Int /\ ScanRank[t] \in Int
  BY NetOfTasks
<1>2. \A x, y \in S : <<x, y>> \in R <=> ScansAhead(ag, y, x)
  OBVIOUS
<1>3. \A x \in S : ~ ScansAhead(ag, x, x)
  BY <1>1 DEF ScansAhead
<1>4. \A x, y, z \in S : ScansAhead(ag, y, x) /\ ScansAhead(ag, z, y) => ScansAhead(ag, z, x)
  BY <1>1 DEF ScansAhead
<1>5. \A x, y \in S : x # y => ScansAhead(ag, x, y) \/ ScansAhead(ag, y, x)
  <2>1. S \subseteq TaskIds
    BY NetOfTasks
  <2>2. \A x, y \in S : x # y => ScanRank[x] # ScanRank[y]
    BY <2>1, FleetAssumption DEF FleetAssumption
  <2> QED
    BY <1>1, <2>2 DEF ScansAhead
<1>6. IsFiniteSet(S)
  BY NetOfTasks, FS_Subset, Zenon
<1>7. PICK x \in S : \A y \in S : <<x, y>> \notin R
  <2> HIDE DEF R
  <2>1. \A x, y, z \in S : <<x, y>> \in R /\ <<y, z>> \in R => <<x, z>> \in R
    BY <1>2, <1>4
  <2>2. \A x \in S : <<x, x>> \notin R
    BY <1>2, <1>3
  <2> QED
    BY <1>6, <2>1, <2>2, FiniteSetHasMaximal, Zenon
<1>8. \A y \in S \ {x} : ScansAhead(ag, x, y)
  BY <1>2, <1>5, <1>7
<1>9. \A y \in S \ {x} : ~ ScansAhead(ag, y, x)
  BY <1>2, <1>7
<1> QED
  BY <1>8, <1>9 DEF Best

\* An agent that has to bid has one bid to place, and PriceTable.bid takes it.
BidHolds(r, ag) ==
  \E bid : /\ Bids(ag) = {bid}
          /\ BidAsserts(ag.prices, bid.task, bid.increment, r, Epsilon)

LEMMA OneBid ==
  ASSUME NEW r \in Robot, NEW ag \in Agents
  PROVE  BidHolds(r, ag)
<1> DEFINE S == DOMAIN ag.benefit
<1>1. S # {} /\ DOMAIN ag.prices = S
  BY DEF Agents
<1>2. PICK t \in S : Best(ag, S) = {t}
  BY <1>1, ScanResult
<1>3. Epsilon \in Nat \ {0}
  BY RoundConfigAssumption DEF RoundConfigAssumption
<1>4. \A u \in S : Net(ag, u) \in Int /\ ag.prices[u].price \in Nat
  BY NetOfTasks
<1>5. PICK g \in Int : Increments(ag, t) = {g} /\ g >= Epsilon
  <2>1. CASE S = {t}
    BY <1>3, <2>1 DEF Increments
  <2>2. CASE S # {t}
    <3>1. PICK u \in S \ {t} : Best(ag, S \ {t}) = {u}
      <4>1. S \ {t} \in SUBSET DOMAIN ag.benefit /\ S \ {t} # {}
        BY <2>2
      <4> HIDE DEF S
      <4> QED
        BY <4>1, ScanResult
    <3>2. ScansAhead(ag, t, u)
      BY <1>2, <3>1 DEF Best
    <3>3. Net(ag, t) >= Net(ag, u) /\ Net(ag, t) \in Int /\ Net(ag, u) \in Int
      BY <1>4, <3>1, <3>2 DEF ScansAhead
    <3>4. Increments(ag, t) = {Net(ag, t) - Net(ag, u) + Epsilon}
      BY <2>2, <3>1 DEF Increments
    <3> QED
      BY <1>3, <3>3, <3>4
  <2> QED
    BY <2>1, <2>2
<1> DEFINE bid == [task |-> t, increment |-> g]
<1>6. Bids(ag) = {bid}
  BY <1>2, <1>5 DEF Bids
<1>7. Raise(ag.prices, t, g, r)[t] = [price |-> ag.prices[t].price + g, bidder |-> r]
  BY <1>1 DEF Raise
<1>8. BidAsserts(ag.prices, bid.task, bid.increment, r, Epsilon)
  BY <1>3, <1>4, <1>5, <1>7 DEF BidAsserts, Below
<1> QED
  BY <1>6, <1>8 DEF BidHolds

-----------------------------------------------------------------------------
(***************************************************************************)
(* Members and messages.  known are the tasks that were asked for, done the *)
(* pairs <<task, robot>> that were executed.                                *)
(***************************************************************************)
HistoryOK(known, done) == known \subseteq RealTask /\ done \subseteq RealTask \X Robot

\* Real tasks that were asked for and whose prerequisites are done.
Enabled(known, done) ==
  {t \in RealTask : t \in known /\ \A u \in Prerequisites[t] : \E d \in done : d[1] = u}

Framed(known, done) ==
  {ann \in Announcements :
     /\ ann.tasks # {} /\ ann.tasks \subseteq Enabled(known, done)
     /\ ann.idleSlots <= Cardinality(Robot)}

\* Completions that are true.
Completions(done) ==
  {c \in [RealTask -> Robot \cup {NoHolder}] :
     \A t \in RealTask : c[t] # NoHolder => <<t, c[t]>> \in done}

\* Agents of rounds on tasks that can be executed.
Bidding(known, done) ==
  {ag \in Agents : \A t \in DOMAIN ag.benefit : t >= 0 => t \in Enabled(known, done)}

Leases == [RealTask -> LeaseOf(Robot) \cup {NoLease}]

Flags == [stamp : Nat, idle : BOOLEAN]

Members(known, done) ==
  {p \in [ tasks : SUBSET (known \ Collaborative), completed : Completions(done),
           executing : Enabled(known, done) \cup {NoTask}, place : Place, workload : Nat,
           leases : Leases, lastSeen : [Robot -> Nat \cup {Never}],
           idleFlags : [Robot -> Flags \cup {NoFlag}],
           announcement : Framed(known, done) \cup {NoRound}, openedAt : Nat,
           agent : Bidding(known, done) \cup {NoAgent}, relay : Tables \cup {NoRelay},
           relayDirty : BOOLEAN, maxRoundSeen : Nat, lastHeartbeat : Int ] :
     /\ p.agent # NoAgent => p.announcement # NoRound /\ p.relay = NoRelay
     /\ p.relay # NoRelay => p.announcement # NoRound}

Heartbeats == [type : {"heartbeat"}, sender : Robot, stamp : Nat, idle : BOOLEAN]
Gossips == [type : {"gossip"}, round : Nat, inner : Inners]
Renewals == [type : {"renewal"}, task : RealTask, holder : Robot]
Injections(known) == [type : {"injected"}, task : known]

\* Messages that report what was executed.
TrueCompletions(done) ==
  {m \in [type : {"completed"}, task : RealTask, by : Robot] : <<m.task, m.by>> \in done}

\* What participants broadcast, and that or what was injected.
Spoken(known, done) ==
  Heartbeats \cup Framed(known, done) \cup Gossips \cup Renewals \cup TrueCompletions(done)

Reports(known, done) == Spoken(known, done) \cup Injections(known)

\* As more is known and done, what was sound remains so.
LEMMA MoreDone ==
  ASSUME NEW known, NEW done, NEW known2, NEW done2,
         known \subseteq known2, done \subseteq done2
  PROVE  /\ Enabled(known, done) \subseteq Enabled(known2, done2)
         /\ Framed(known, done) \subseteq Framed(known2, done2)
         /\ Bidding(known, done) \subseteq Bidding(known2, done2)
         /\ Members(known, done) \subseteq Members(known2, done2)
         /\ Spoken(known, done) \subseteq Spoken(known2, done2)
         /\ Reports(known, done) \subseteq Reports(known2, done2)
<1>1. Enabled(known, done) \subseteq Enabled(known2, done2)
  BY DEF Enabled
<1>2. /\ Framed(known, done) \subseteq Framed(known2, done2)
      /\ Bidding(known, done) \subseteq Bidding(known2, done2)
  BY <1>1 DEF Framed, Bidding
<1>3. Completions(done) \subseteq Completions(done2)
  BY DEF Completions
<1>4. TrueCompletions(done) \subseteq TrueCompletions(done2)
  BY DEF TrueCompletions
<1>5. Injections(known) \subseteq Injections(known2)
  BY DEF Injections
<1>6. Members(known, done) \subseteq Members(known2, done2)
  <2> SUFFICES ASSUME NEW p \in Members(known, done) PROVE p \in Members(known2, done2)
    OBVIOUS
  <2> QED
    BY <1>1, <1>2, <1>3 DEF Members
<1> QED
  BY <1>1, <1>2, <1>4, <1>5, <1>6 DEF Reports, Spoken

\* A participant at its start.
LEMMA NewParticipantResult ==
  ASSUME NEW r \in Robot, NEW mission \in SUBSET RealTask, NEW known, NEW done,
         mission \subseteq known
  PROVE  NewParticipant(Home[r], mission, RealTask, Robot) \in Members(known, done)
<1> DEFINE p == NewParticipant(Home[r], mission, RealTask, Robot)
<1>1. /\ p.tasks \subseteq known
      /\ p.completed \in Completions(done)
      /\ p.place \in Place
      /\ p.leases \in Leases
      /\ p.lastSeen \in [Robot -> Nat \cup {Never}]
      /\ p.idleFlags \in [Robot -> Flags \cup {NoFlag}]
      /\ p.lastHeartbeat \in Int
  BY HeartbeatAssumption DEF NewParticipant, Completions, Place, Leases, NoLeases, Unheard,
     HeartbeatAssumption
<1> QED
  BY <1>1 DEF NewParticipant, Members

-----------------------------------------------------------------------------
(* Handlers *)

\* Leases of robots on real tasks remain so.
LEMMA LeaseResults ==
  ASSUME NEW leases \in Leases, NEW t \in RealTask, NEW r \in Robot, NEW now \in Nat
  PROVE  /\ Grant(leases, t, r, now) \in Leases
         /\ Renew(leases, t, r, now) \in Leases
         /\ \A s : Release(leases, t, s) \in Leases
         /\ SweepLeases(leases, now) \in Leases
<1>1. now + LeaseDuration \in Nat
  BY LeaseAssumption DEF LeaseAssumption
<1>2. Grant(leases, t, r, now) \in Leases
  BY <1>1 DEF Grant, Leases, LeaseOf
<1>3. \A s : Release(leases, t, s) \in Leases
  BY DEF Release, Leases
<1>4. SweepLeases(leases, now) \in Leases
  BY DEF SweepLeases, Leases
<1> QED
  BY <1>2, <1>3, <1>4 DEF Renew

LEMMA RecordResult ==
  ASSUME NEW lastSeen \in [Robot -> Nat \cup {Never}], NEW r \in Robot, NEW now \in Nat
  PROVE  Record(lastSeen, r, now) \in [Robot -> Nat \cup {Never}]
BY DEF Record

\* The handler leaves a sound participant, which forgets no task, and what it
\* executes alone.
Handled(known, done, p, q) ==
  q \in Members(known, done) /\ q.executing = p.executing /\ p.tasks \subseteq q.tasks

LEMMA OnHeartbeatResult ==
  ASSUME NEW known, NEW done, NEW r \in Robot, NEW p \in Members(known, done),
         NEW now \in Nat, NEW m \in Heartbeats
  PROVE  Handled(known, done, p, OnHeartbeat(r, p, m, now))
<1>1. CASE m.sender = r
  BY <1>1 DEF OnHeartbeat, Handled
<1>2. CASE m.sender # r
  <2> DEFINE s == m.sender
             new == [stamp |-> m.stamp, idle |-> m.idle]
             seen == Record(p.lastSeen, s, now)
             flags == [p.idleFlags EXCEPT ![s] =
                         IF @ = NoFlag THEN new
                         ELSE IF m.stamp > @.stamp THEN new ELSE @]
  <2>1. s \in Robot /\ new \in Flags
    BY DEF Heartbeats, Flags
  <2>2. /\ p.lastSeen \in [Robot -> Nat \cup {Never}]
        /\ p.idleFlags \in [Robot -> Flags \cup {NoFlag}]
    BY DEF Members
  <2>3. seen \in [Robot -> Nat \cup {Never}]
    BY <2>1, <2>2, RecordResult
  <2>4. flags \in [Robot -> Flags \cup {NoFlag}]
    <3> HIDE DEF s, new
    <3> QED
      BY <2>1, <2>2
  <2>5. OnHeartbeat(r, p, m, now) = [p EXCEPT !.lastSeen = seen, !.idleFlags = flags]
    <3>1. OnHeartbeat(r, p, m, now) =
            [[p EXCEPT !.lastSeen = seen]
               EXCEPT !.idleFlags[s] = IF @ = NoFlag THEN new
                                       ELSE IF m.stamp > @.stamp THEN new ELSE @]
      BY <1>2 DEF OnHeartbeat
    <3> HIDE DEF seen, s, new
    <3> QED
      BY <3>1 DEF flags, Members
  <2> HIDE DEF seen, flags
  <2> QED
    BY <2>3, <2>4, <2>5, ZenonT(40) DEF Handled, Members
<1> QED
  BY <1>1, <1>2

\* What the tasks of a round are worth to a robot.
LEMMA BenefitRowResult ==
  ASSUME NEW known, NEW done, HistoryOK(known, done), NEW r \in Robot,
         NEW p \in Members(known, done), NEW ann \in Framed(known, done)
  PROVE  /\ BenefitRow(r, p, ann) \in Rows
         /\ DOMAIN BenefitRow(r, p, ann) = RoundTasks(ann)
         /\ RoundTasks(ann) \in SUBSET TaskIds /\ RoundTasks(ann) # {}
<1> DEFINE row == [t \in ann.tasks |-> IF t \in p.tasks THEN Benefit(r, p, t) ELSE 0]
<1>1. /\ ann.tasks # {} /\ ann.tasks \subseteq RealTask /\ IsFiniteSet(RealTask)
      /\ ann.idleSlots \in Nat /\ ann.idleSlots <= Cardinality(Robot)
  BY FleetAssumption DEF Framed, Announcements, FleetAssumption
<1>2. \A t \in RealTask : Benefit(r, p, t) \in Int
  <2>1. p.place \in Place /\ p.workload \in Nat
    BY DEF Members
  <2>2. \A t \in RealTask : Attraction[r][p.place][t] \in Int
    BY <2>1, FleetAssumption DEF FleetAssumption
  <2>3. LoadWeight * p.workload \in Int
    BY <2>1, BenefitAssumption DEF BenefitAssumption
  <2> QED
    BY <2>2, <2>3 DEF Benefit
<1>3. row \in [ann.tasks -> Int]
  BY <1>1, <1>2
<1>4. DOMAIN row = ann.tasks
  OBVIOUS
<1> HIDE DEF row
<1> DEFINE least == CHOOSE b \in {row[t] : t \in DOMAIN row} : \A t \in DOMAIN row : b <= row[t]
<1>5. least \in Int
  <2>1. IsFiniteSet(ann.tasks)
    BY <1>1, FS_Subset, Zenon
  <2>2. \E x \in ann.tasks : \A y \in ann.tasks : row[x] <= row[y]
    BY <1>1, <1>3, <2>1, LeastValue
  <2> QED
    BY <1>3, <1>4, <2>2
<1>6. /\ BenefitRow(r, p, ann) =
           [t \in ann.tasks \cup IdleSlots(ann.idleSlots) |->
              IF t \in ann.tasks THEN row[t] ELSE least - IdleGap]
  BY <1>4 DEF BenefitRow, Padded, row
<1> HIDE DEF least
<1>7. ann.tasks \cup IdleSlots(ann.idleSlots) \in SUBSET TaskIds
  BY <1>1, FleetIsFinite DEF IdleSlots, TaskIds
<1>8. BenefitRow(r, p, ann) \in [ann.tasks \cup IdleSlots(ann.idleSlots) -> Int]
  BY <1>3, <1>5, <1>6, BenefitAssumption DEF BenefitAssumption
<1> QED
  BY <1>1, <1>7, <1>8 DEF Rows, RoundTasks

\* A robot that adopts a round bids on tasks that can be executed.
LEMMA AdoptResult ==
  ASSUME NEW known, NEW done, HistoryOK(known, done), NEW r \in Robot,
         NEW p \in Members(known, done), NEW now \in Nat, NEW ann \in Framed(known, done)
  PROVE  Handled(known, done, p, Adopt(r, p, ann, now))
<1> DEFINE row == BenefitRow(r, p, ann)
           table == InitialTable(RoundTasks(ann))
<1>1. /\ row \in Rows /\ DOMAIN row = RoundTasks(ann)
      /\ RoundTasks(ann) \in SUBSET TaskIds /\ RoundTasks(ann) # {}
  BY BenefitRowResult
<1>2. NewAgent(row) \in Agents /\ NewAgent(row).benefit = row
  BY <1>1, NewAgentResult
<1>3. ann \in Announcements /\ ann.tasks \subseteq Enabled(known, done) /\ ann.idleSlots \in Nat
  BY DEF Framed, Announcements
<1>4. \A t \in RoundTasks(ann) : t >= 0 => t \in Enabled(known, done)
  BY <1>3 DEF RoundTasks, IdleSlots
<1>5. NewAgent(row) \in Bidding(known, done)
  BY <1>1, <1>2, <1>4 DEF Bidding
<1>6. table \in Tables
  BY <1>1, InitialTableResult
<1> DEFINE agent == IF r \in ann.participants THEN NewAgent(row) ELSE NoAgent
           relay == IF r \in ann.participants THEN NoRelay ELSE table
           dirty == IF r \in ann.participants THEN p.relayDirty ELSE FALSE
           seen == IF ann.round > p.maxRoundSeen THEN ann.round ELSE p.maxRoundSeen
<1>7. Adopt(r, p, ann, now) =
        [p EXCEPT !.announcement = ann, !.maxRoundSeen = seen, !.openedAt = now,
                  !.agent = agent, !.relay = relay, !.relayDirty = dirty]
  BY DEF Adopt
<1>8. /\ agent \in Bidding(known, done) \cup {NoAgent} /\ relay \in Tables \cup {NoRelay}
      /\ agent # NoAgent => relay = NoRelay
      /\ dirty \in BOOLEAN /\ seen \in Nat
  <2>1. p.relayDirty \in BOOLEAN /\ p.maxRoundSeen \in Nat /\ ann.round \in Nat
    BY <1>3 DEF Members, Announcements
  <2> HIDE DEF row, table
  <2> QED
    BY <1>5, <1>6, <2>1
<1>9. ann # NoRound
  BY <1>3, FleetAssumption DEF FleetAssumption
<1> HIDE DEF agent, relay, dirty, seen
<1> DEFINE q == [p EXCEPT !.announcement = ann, !.maxRoundSeen = seen, !.openedAt = now,
                          !.agent = agent, !.relay = relay, !.relayDirty = dirty]
<1>10. q \in Members(known, done)
  BY <1>8, <1>9, ZenonT(40) DEF Members
<1>11. q.executing = p.executing
  BY DEF Members
<1> QED
  BY <1>7, <1>10, <1>11 DEF Handled

LEMMA OnAnnouncementResult ==
  ASSUME NEW known, NEW done, HistoryOK(known, done), NEW r \in Robot,
         NEW p \in Members(known, done), NEW now \in Nat, NEW m \in Framed(known, done)
  PROVE  Handled(known, done, p, OnAnnouncement(r, p, m, now))
<1>1. Handled(known, done, p, Adopt(r, p, m, now)) /\ Handled(known, done, p, p)
  BY AdoptResult DEF Handled
<1> QED
  BY <1>1 DEF OnAnnouncement

LEMMA OnAnnouncementKeepsTasks ==
  ASSUME NEW known, NEW done, NEW r, NEW p \in Members(known, done), NEW now, NEW m
  PROVE  OnAnnouncement(r, p, m, now).tasks = p.tasks
<1>1. Adopt(r, p, m, now).tasks = p.tasks
  BY DEF Adopt, Members
<1> QED
  BY <1>1 DEF OnAnnouncement

LEMMA OnGossipResult ==
  ASSUME NEW known, NEW done, NEW r \in Robot, NEW p \in Members(known, done),
         NEW m \in Gossips
  PROVE  Handled(known, done, p, OnGossip(r, p, m))
<1>1. m.inner \in Inners /\ m.inner.entries \in Tables
  BY DEF Gossips, Inners
<1>2. Handled(known, done, p, p)
  BY DEF Handled
<1>3. ASSUME p.agent # NoAgent
      PROVE  Handled(known, done, p, [p EXCEPT !.agent = HandleMessage(r, @, m.inner)])
  <2>1. p.agent \in Bidding(known, done)
    BY <1>3 DEF Members
  <2> DEFINE new == HandleMessage(r, p.agent, m.inner)
  <2>2. new \in Agents /\ new.benefit = p.agent.benefit
    BY <1>1, <2>1, HandleMessageResult DEF Bidding
  <2>3. new \in Bidding(known, done)
    BY <2>1, <2>2 DEF Bidding
  <2> HIDE DEF new
  <2>4. [p EXCEPT !.agent = new] \in Members(known, done)
    BY <1>3, <2>3 DEF Members
  <2> QED
    BY <2>4 DEF Handled, Members, new
<1>4. ASSUME p.agent = NoAgent, p.relay # NoRelay
      PROVE  Handled(known, done, p,
                     [p EXCEPT !.relay = Merge(p.relay, m.inner.entries),
                               !.relayDirty = @ \/ Merge(p.relay, m.inner.entries) # p.relay])
  <2>1. p.relay \in Tables /\ p.relayDirty \in BOOLEAN
    BY <1>4 DEF Members
  <2> DEFINE relayed == Merge(p.relay, m.inner.entries)
  <2>2. relayed \in Tables
    BY <1>1, <2>1, MergeResult, TableFields, SomeTable
  <2> HIDE DEF relayed
  <2>3. (p.relayDirty \/ relayed # p.relay) \in BOOLEAN
    BY <2>1
  <2>4. [p EXCEPT !.relay = relayed, !.relayDirty = p.relayDirty \/ relayed # p.relay]
          \in Members(known, done)
    BY <1>4, <2>2, <2>3 DEF Members
  <2> QED
    BY <2>4 DEF Handled, Members, relayed
<1>5. OnGossip(r, p, m) \in
        {p} \cup (IF p.agent # NoAgent
                  THEN {[p EXCEPT !.agent = HandleMessage(r, @, m.inner)]} ELSE {})
            \cup (IF p.agent = NoAgent /\ p.relay # NoRelay
                  THEN {[p EXCEPT !.relay = Merge(p.relay, m.inner.entries),
                                  !.relayDirty = @ \/ Merge(p.relay, m.inner.entries) # p.relay]}
                  ELSE {})
  BY DEF OnGossip
<1> QED
  BY <1>2, <1>3, <1>4, <1>5

LEMMA OnLeaseRenewalResult ==
  ASSUME NEW known, NEW done, NEW p \in Members(known, done), NEW now \in Nat,
         NEW m \in Renewals
  PROVE  Handled(known, done, p, OnLeaseRenewal(p, m, now))
<1>1. p.leases \in Leases /\ m.task \in RealTask /\ m.holder \in Robot
  BY DEF Members, Renewals
<1>2. ASSUME NEW leases \in Leases PROVE Handled(known, done, p, [p EXCEPT !.leases = leases])
  BY DEF Handled, Members
<1> DEFINE released == Release(p.leases, m.task, Holder(p.leases, m.task))
<1>3. /\ Grant(p.leases, m.task, m.holder, now) \in Leases
      /\ Renew(p.leases, m.task, m.holder, now) \in Leases
      /\ released \in Leases
  BY <1>1, LeaseResults
<1>4. Grant(released, m.task, m.holder, now) \in Leases
  BY <1>1, <1>3, LeaseResults
<1>5. Handled(known, done, p, p)
  BY DEF Handled
<1> QED
  BY <1>2, <1>3, <1>4, <1>5 DEF OnLeaseRenewal

LEMMA OnCompletedResult ==
  ASSUME NEW known, NEW done, NEW p \in Members(known, done), NEW m \in TrueCompletions(done)
  PROVE  Handled(known, done, p, OnCompleted(p, m))
<1>1. /\ m.task \in RealTask /\ m.by \in Robot /\ <<m.task, m.by>> \in done
      /\ p.leases \in Leases /\ p.completed \in Completions(done)
  BY DEF TrueCompletions, Members
<1> DEFINE holder == Holder(p.leases, m.task)
           leases == IF holder = NoHolder THEN p.leases ELSE Release(p.leases, m.task, holder)
           completed == [p.completed EXCEPT ![m.task] = IF @ = NoHolder THEN m.by ELSE @]
<1>2. leases \in Leases
  <2>1. Release(p.leases, m.task, holder) \in Leases
    BY <1>1 DEF Release, Leases
  <2> QED
    BY <1>1, <2>1
<1>3. completed \in Completions(done)
  BY <1>1 DEF Completions
<1>4. OnCompleted(p, m) = [p EXCEPT !.completed = completed, !.leases = leases]
  BY DEF OnCompleted, Members
<1> HIDE DEF leases, completed
<1> QED
  BY <1>2, <1>3, <1>4, ZenonT(40) DEF Handled, Members

\* Every message is handled soundly.
LEMMA HandleResult ==
  ASSUME NEW known, NEW done, HistoryOK(known, done), NEW r \in Robot,
         NEW p \in Members(known, done), NEW now \in Nat, NEW m \in Reports(known, done)
  PROVE  Handled(known, done, p, Handle(r, p, m, now))
<1>1. CASE m \in Heartbeats
  BY <1>1, OnHeartbeatResult DEF Handle, Heartbeats
<1>2. CASE m \in Framed(known, done)
  <2>1. m.type = "announcement"
    BY <1>2 DEF Framed, Announcements
  <2> QED
    BY <1>2, <2>1, OnAnnouncementResult DEF Handle
<1>3. CASE m \in Gossips
  BY <1>3, OnGossipResult DEF Handle, Gossips
<1>4. CASE m \in Renewals
  BY <1>4, OnLeaseRenewalResult DEF Handle, Renewals
<1>5. CASE m \in TrueCompletions(done)
  BY <1>5, OnCompletedResult DEF Handle, TrueCompletions
<1>6. CASE m \in Injections(known)
  <2>1. m.type = "injected" /\ m.task \in known
    BY <1>6 DEF Injections
  <2>2. Handle(r, p, m, now) = AddTask(p, m.task)
    BY <2>1 DEF Handle
  <2> QED
    BY <2>1, <2>2 DEF AddTask, Handled, Members
<1> QED
  BY <1>1, <1>2, <1>3, <1>4, <1>5, <1>6 DEF Reports, Spoken

\* Only injections teach tasks.
LEMMA SpokenTeachNothing ==
  ASSUME NEW known, NEW done, NEW r, NEW p \in Members(known, done), NEW now,
         NEW m \in Spoken(known, done)
  PROVE  Handle(r, p, m, now).tasks = p.tasks
<1>1. CASE m \in Heartbeats
  <2>1. Handle(r, p, m, now) = OnHeartbeat(r, p, m, now)
    BY <1>1 DEF Handle, Heartbeats
  <2> QED
    BY <2>1 DEF OnHeartbeat, Members
<1>2. CASE m \in Framed(known, done)
  <2>1. m.type = "announcement"
    BY <1>2 DEF Framed, Announcements
  <2>2. Handle(r, p, m, now) = OnAnnouncement(r, p, m, now)
    BY <2>1 DEF Handle
  <2> QED
    BY <2>2, OnAnnouncementKeepsTasks
<1>3. CASE m \in Gossips
  <2>1. Handle(r, p, m, now) = OnGossip(r, p, m)
    BY <1>3 DEF Handle, Gossips
  <2> QED
    BY <2>1 DEF OnGossip, Members
<1>4. CASE m \in Renewals
  <2>1. Handle(r, p, m, now) = OnLeaseRenewal(p, m, now)
    BY <1>4 DEF Handle, Renewals
  <2> QED
    BY <2>1 DEF OnLeaseRenewal, Members
<1>5. CASE m \in TrueCompletions(done)
  <2>1. Handle(r, p, m, now) = OnCompleted(p, m)
    BY <1>5 DEF Handle, TrueCompletions
  <2> QED
    BY <2>1 DEF OnCompleted, Members
<1> QED
  BY <1>1, <1>2, <1>3, <1>4, <1>5 DEF Spoken

\* The host reports the end of an execution.
LEMMA TaskFinishedResult ==
  ASSUME NEW known, NEW done, NEW r \in Robot, NEW p \in Members(known, done),
         NEW t \in RealTask, <<t, r>> \in done
  PROVE  /\ TaskFinished(r, p, t) \in Members(known, done)
         /\ TaskFinished(r, p, t).executing = NoTask
         /\ TaskFinished(r, p, t).tasks = p.tasks
<1> DEFINE completed == [p.completed EXCEPT ![t] = r]
           leases == Release(p.leases, t, r)
<1>1. completed \in Completions(done)
  BY DEF Members, Completions
<1>2. leases \in Leases
  BY DEF Release, Leases, Members
<1>3. p.workload + Duration[t] \in Nat /\ SiteAfter(p.place, t) \in Place
  BY FleetAssumption DEF FleetAssumption, Members, Place, SiteAfter
<1>4. TaskFinished(r, p, t) =
        [p EXCEPT !.executing = NoTask, !.completed = completed, !.leases = leases,
                  !.workload = p.workload + Duration[t], !.place = SiteAfter(p.place, t)]
  BY DEF TaskFinished, Members
<1> HIDE DEF completed, leases
<1> QED
  BY <1>1, <1>2, <1>3, <1>4, ZenonT(40) DEF Members

-----------------------------------------------------------------------------
(* tick *)

LEMMA SweepResult ==
  ASSUME NEW known, NEW done, NEW r \in Robot, NEW p \in Members(known, done), NEW now \in Nat
  PROVE  /\ Handled(known, done, p, SweepLiveness(r, p, now))
         /\ StopLostWork(r, p) \in Members(known, done)
         /\ StopLostWork(r, p).executing = IF LostLease(r, p) THEN NoTask ELSE p.executing
         /\ StopLostWork(r, p).tasks = p.tasks
<1>1. Record(p.lastSeen, r, now) \in [Robot -> Nat \cup {Never}]
  BY RecordResult DEF Members
<1>2. SweepLeases(p.leases, now) \in Leases
  BY DEF Members, Leases, SweepLeases
<1>3. Handled(known, done, p, SweepLiveness(r, p, now))
  BY <1>1, <1>2 DEF SweepLiveness, Handled, Members
<1> QED
  BY <1>3 DEF StopLostWork, Members

\* A tick begins with what time did to liveness, leases and the work they stand
\* for, and with nothing else.
LEMMA SweepMeansTime ==
  ASSUME NEW known, NEW done, NEW r, NEW p \in Members(known, done), NEW now
  PROVE  /\ SweepLiveness(r, p, now).tasks = p.tasks
         /\ SweepLiveness(r, p, now).agent = p.agent
         /\ SweepLiveness(r, p, now).completed = p.completed
         /\ StopLostWork(r, p).tasks = p.tasks
         /\ StopLostWork(r, p).agent = p.agent
         /\ StopLostWork(r, p).completed = p.completed
BY DEF SweepLiveness, StopLostWork, Members

\* What a part of a tick broadcasts.
LEMMA OutOfSet ==
  ASSUME NEW T, IsFiniteSet(T), NEW A, T \subseteq A
  PROVE  SetToSeq(T) \in Seq(A)
<1>1. SetToSeq(T) \in Seq(T)
  BY SetToSeqLists
<1> QED
  BY <1>1

LEMMA JoinedOut ==
  ASSUME NEW A, NEW s \in Seq(A), NEW u \in Seq(A)
  PROVE  s \o u \in Seq(A)
OBVIOUS

\* A robot that wins starts a task that can be executed, the others none.
Dispatched(known, done, p, rd) ==
  \/ rd.dispatched = {} /\ rd.p.executing = p.executing
  \/ \E t \in Enabled(known, done) :
       rd.dispatched = {t} /\ rd.p.executing = t /\ AboutToWin(p, t)

\* An agent that ends its window with this tick was one tick short of it, and
\* keeps its assignment: a bid starts the window over.
LEMMA TerminatesQuietly ==
  ASSUME NEW r \in Robot, NEW ag \in Agents, NEW new \in AfterTick(r, ag), Terminated(new)
  PROVE  new.assignment = ag.assignment /\ ag.quiescent + 1 >= QuiescenceRounds
<1>1. QuiescenceRounds \in Nat \ {0} /\ ag.quiescent \in Nat
  BY RoundConfigAssumption DEF RoundConfigAssumption, Agents
<1>2. ~ Outbid(r, ag)
  <2> SUFFICES ASSUME Outbid(r, ag) PROVE FALSE
    OBVIOUS
  <2>1. PICK bid \in Bids(ag) : new = Settle(PlaceBid(r, ag, bid))
    BY DEF AfterTick
  <2> DEFINE placed == PlaceBid(r, ag, bid)
  <2>2. placed.dirty = TRUE /\ [placed EXCEPT !.quiescent = 0, !.dirty = FALSE].quiescent = 0
    BY DEF PlaceBid, Agents
  <2> HIDE DEF placed
  <2>3. new.quiescent = 0
    BY <2>1, <2>2 DEF Settle, placed
  <2> QED
    BY <1>1, <2>3 DEF Terminated
<1>3. new = Settle(ag)
  BY <1>2 DEF AfterTick
<1>4. CASE ag.dirty
  <2>1. new.quiescent = 0
    BY <1>3, <1>4 DEF Settle, Agents
  <2> QED
    BY <1>1, <2>1 DEF Terminated
<1>5. CASE ~ ag.dirty
  <2>1. /\ new.assignment = ag.assignment
        /\ new.quiescent = IF ag.quiescent < QuiescenceRounds THEN ag.quiescent + 1
                            ELSE ag.quiescent
    BY <1>3, <1>5 DEF Settle, Agents
  <2> QED
    BY <1>1, <2>1 DEF Terminated
<1> QED
  BY <1>4, <1>5

LEMMA TickRoundResult ==
  ASSUME NEW known, NEW done, NEW r \in Robot, NEW p \in Members(known, done),
         NEW now \in Nat, NEW rd \in TickRound(r, p, now)
  PROVE  /\ rd.p \in Members(known, done)
         /\ rd.out \in Seq(Spoken(known, done))
         /\ Dispatched(known, done, p, rd)
         /\ rd.p.tasks = p.tasks
<1>1. CASE p.agent # NoAgent
  <2>1. /\ p.agent \in Bidding(known, done) /\ p.announcement \in Framed(known, done)
        /\ p.relay = NoRelay
    BY <1>1 DEF Members
  <2>2. PICK ag \in AfterTick(r, p.agent) :
          LET won == ag.assignment
              gossip == {GossipMsg(p.announcement.round, m) : m \in Broadcasts(r, ag)}
          IN  rd = IF ~ Terminated(ag)
                   THEN [p |-> [p EXCEPT !.agent = ag],
                         out |-> SetToSeq(gossip), dispatched |-> {}]
                   ELSE IF ~ Dispatches(p, won)
                   THEN [p |-> [p EXCEPT !.agent = NoAgent],
                         out |-> SetToSeq(gossip), dispatched |-> {}]
                   ELSE [p |-> [p EXCEPT !.agent = NoAgent,
                                         !.leases = Grant(@, won, r, now),
                                         !.executing = won],
                         out |-> Append(SetToSeq(gossip), RenewalMsg(won, r)),
                         dispatched |-> {won}]
    BY <1>1 DEF TickRound
  <2> DEFINE won == ag.assignment
             gossip == {GossipMsg(p.announcement.round, m) : m \in Broadcasts(r, ag)}
  <2>3. ag \in Bidding(known, done)
    <3>1. ag \in Agents /\ ag.benefit = p.agent.benefit
      BY <2>1, AfterTickResult DEF Bidding
    <3> QED
      BY <2>1, <3>1 DEF Bidding
  <2>4. SetToSeq(gossip) \in Seq(Spoken(known, done))
    <3>1. TableMessage(r, ag) \in Inners
      BY <2>3 DEF TableMessage, Inners, Bidding, Agents
    <3>2. p.announcement.round \in Nat
      BY <2>1 DEF Framed, Announcements
    <3>3. GossipMsg(p.announcement.round, TableMessage(r, ag)) \in Spoken(known, done)
      BY <3>1, <3>2 DEF GossipMsg, Gossips, Spoken
    <3>4. gossip = {} \/ gossip = {GossipMsg(p.announcement.round, TableMessage(r, ag))}
      BY DEF Broadcasts
    <3>5. IsFiniteSet(gossip)
      BY <3>4, FS_EmptySet, FS_Singleton
    <3>6. gossip \subseteq Spoken(known, done)
      BY <3>3, <3>4
    <3> HIDE DEF gossip
    <3> QED
      BY <3>5, <3>6, OutOfSet
  <2> HIDE DEF gossip
  <2>5. CASE ~ Terminated(ag)
    <3>1. rd = [p |-> [p EXCEPT !.agent = ag], out |-> SetToSeq(gossip), dispatched |-> {}]
      BY <2>2, <2>5 DEF gossip
    <3>2. [p EXCEPT !.agent = ag] \in Members(known, done)
      BY <1>1, <2>1, <2>3 DEF Members
    <3>3. /\ [p EXCEPT !.agent = ag].executing = p.executing
          /\ [p EXCEPT !.agent = ag].tasks = p.tasks
      BY DEF Members
    <3> QED
      BY <2>4, <3>1, <3>2, <3>3 DEF Dispatched
  <2>6. [p EXCEPT !.agent = NoAgent] \in Members(known, done)
    BY DEF Members
  <2>7. CASE Terminated(ag) /\ ~ Dispatches(p, won)
    <3>1. rd = [p |-> [p EXCEPT !.agent = NoAgent],
                out |-> SetToSeq(gossip), dispatched |-> {}]
      BY <2>2, <2>7 DEF gossip
    <3>2. /\ [p EXCEPT !.agent = NoAgent].executing = p.executing
          /\ [p EXCEPT !.agent = NoAgent].tasks = p.tasks
      BY DEF Members
    <3> QED
      BY <2>4, <2>6, <3>1, <3>2 DEF Dispatched
  <2>8. CASE Terminated(ag) /\ Dispatches(p, won)
    <3> DEFINE leases == Grant(p.leases, won, r, now)
               q == [p EXCEPT !.agent = NoAgent, !.leases = leases, !.executing = won]
    <3>1. won \in Enabled(known, done) /\ won \in RealTask
      <4>1. won # NoTask /\ won >= 0
        BY <2>8 DEF Dispatches
      <4>2. won \in DOMAIN ag.benefit
        BY <2>3, <4>1 DEF Bidding, Agents
      <4> QED
        BY <2>3, <4>1, <4>2 DEF Bidding, Enabled
    <3>2. leases \in Leases
      BY <3>1, LeaseResults DEF Members
    <3>3. RenewalMsg(won, r) \in Spoken(known, done)
      BY <3>1 DEF RenewalMsg, Renewals, Spoken
    <3>4. rd = [p |-> q, out |-> Append(SetToSeq(gossip), RenewalMsg(won, r)),
                dispatched |-> {won}]
      BY <2>2, <2>8 DEF gossip, Members
    <3>win. AboutToWin(p, won)
      <4>1. p.agent \in Agents
        BY <2>1 DEF Bidding
      <4>2. won = p.agent.assignment /\ p.agent.quiescent + 1 >= QuiescenceRounds
        BY <2>8, <4>1, TerminatesQuietly
      <4> HIDE DEF won
      <4> QED
        BY <1>1, <2>8, <4>2 DEF AboutToWin
    <3> HIDE DEF leases, won
    <3>5. q \in Members(known, done) /\ q.executing = won /\ q.tasks = p.tasks
      BY <3>1, <3>2 DEF Members
    <3>6. Append(SetToSeq(gossip), RenewalMsg(won, r)) \in Seq(Spoken(known, done))
      BY <2>4, <3>3
    <3> QED
      BY <3>1, <3>win, <3>4, <3>5, <3>6 DEF Dispatched
  <2> QED
    BY <2>5, <2>7, <2>8
<1>2. CASE p.agent = NoAgent /\ p.relay # NoRelay /\ p.relayDirty
  <2> DEFINE m == GossipMsg(p.announcement.round, [sender |-> r, entries |-> p.relay])
             q == [p EXCEPT !.relayDirty = FALSE]
  <2>1. rd = [p |-> q, out |-> <<m>>, dispatched |-> {}]
    BY <1>2 DEF TickRound
  <2>2. q \in Members(known, done) /\ q.executing = p.executing /\ q.tasks = p.tasks
    BY DEF Members
  <2>3. m \in Spoken(known, done)
    <3>1. p.announcement.round \in Nat /\ p.relay \in Tables
      BY <1>2 DEF Members, Framed, Announcements
    <3> QED
      BY <3>1 DEF GossipMsg, Gossips, Inners, Spoken
  <2> HIDE DEF m, q
  <2> QED
    BY <2>1, <2>2, <2>3 DEF Dispatched
<1>3. CASE p.agent = NoAgent /\ ~ (p.relay # NoRelay /\ p.relayDirty)
  <2>1. rd = [p |-> p, out |-> <<>>, dispatched |-> {}]
    BY <1>3 DEF TickRound
  <2> QED
    BY <2>1 DEF Dispatched
<1> QED
  BY <1>1, <1>2, <1>3

\* What a heartbeat repeats is true.
LEMMA HeartbeatRoundResult ==
  ASSUME NEW known, NEW done, NEW r \in Robot, NEW p \in Members(known, done), NEW now \in Nat
  PROVE  HeartbeatRound(r, p, now) \in Seq(Spoken(known, done))
<1> DEFINE A == Spoken(known, done)
           told == {CompletedMsg(t, p.completed[t]) : t \in Completed(p)}
           framing == IF p.announcement # NoRound /\ p.announcement.coordinator = r
                      THEN <<p.announcement>> ELSE <<>>
           lease == IF p.executing # NoTask THEN <<RenewalMsg(p.executing, r)>> ELSE <<>>
<1>1. p.completed \in Completions(done) /\ IsFiniteSet(RealTask)
  BY FleetAssumption DEF Members, FleetAssumption
<1>2. Completed(p) \subseteq RealTask
  BY <1>1 DEF Completed, Completions
<1>3. IsFiniteSet(told)
  <2> DEFINE f == [t \in Completed(p) |-> CompletedMsg(t, p.completed[t])]
  <2>1. IsFiniteSet(Completed(p))
    BY <1>1, <1>2, FS_Subset, Zenon
  <2>2. f \in Surjection(Completed(p), told)
    BY DEF Surjection
  <2> HIDE DEF f, told
  <2> QED
    BY <2>1, <2>2, FS_Surjection
<1>4. told \subseteq A
  <2> SUFFICES ASSUME NEW t \in Completed(p) PROVE CompletedMsg(t, p.completed[t]) \in A
    OBVIOUS
  <2>1. t \in RealTask /\ p.completed[t] # NoHolder
    BY <1>2 DEF Completed
  <2>2. <<t, p.completed[t]>> \in done /\ p.completed[t] \in Robot
    BY <1>1, <2>1 DEF Completions
  <2> QED
    BY <2>1, <2>2 DEF CompletedMsg, TrueCompletions, Spoken
<1>5. SetToSeq(told) \in Seq(A)
  BY <1>3, <1>4, OutOfSet
<1>6. <<HeartbeatMsg(r, now, IsIdle(p))>> \in Seq(A)
  <2>1. HeartbeatMsg(r, now, IsIdle(p)) \in A
    BY DEF HeartbeatMsg, Heartbeats, Spoken, IsIdle
  <2> QED
    BY <2>1
<1>7. framing \in Seq(A)
  <2>1. p.announcement # NoRound => p.announcement \in A
    BY DEF Members, Spoken
  <2> QED
    BY <2>1
<1>8. lease \in Seq(A)
  <2>1. p.executing # NoTask => RenewalMsg(p.executing, r) \in A
    BY DEF Members, Enabled, RenewalMsg, Renewals, Spoken
  <2> QED
    BY <2>1
<1>9. HeartbeatRound(r, p, now) =
        ((<<HeartbeatMsg(r, now, IsIdle(p))>> \o framing) \o lease) \o SetToSeq(told)
  BY DEF HeartbeatRound
<1> HIDE DEF A, told, framing, lease
<1>10. (<<HeartbeatMsg(r, now, IsIdle(p))>> \o framing) \in Seq(A)
  BY <1>6, <1>7, JoinedOut
<1>11. ((<<HeartbeatMsg(r, now, IsIdle(p))>> \o framing) \o lease) \in Seq(A)
  BY <1>8, <1>10, JoinedOut
<1> QED
  BY <1>5, <1>9, <1>11, JoinedOut DEF A

LEMMA TickHeartbeatResult ==
  ASSUME NEW known, NEW done, NEW r \in Robot, NEW p \in Members(known, done), NEW now \in Nat
  PROVE  /\ Handled(known, done, p, TickHeartbeat(r, p, now).p)
         /\ TickHeartbeat(r, p, now).p.tasks = p.tasks
         /\ TickHeartbeat(r, p, now).out \in Seq(Spoken(known, done))
<1>1. CASE ~ HeartbeatDue(p, now)
  BY <1>1 DEF TickHeartbeat, Handled
<1>2. CASE HeartbeatDue(p, now)
  <2> DEFINE leases == IF p.executing = NoTask THEN p.leases
                       ELSE Renew(p.leases, p.executing, r, now)
  <2>1. leases \in Leases
    BY LeaseResults DEF Members, Enabled
  <2>2. TickHeartbeat(r, p, now) =
          [p |-> [p EXCEPT !.lastHeartbeat = now, !.leases = leases],
           out |-> HeartbeatRound(r, p, now)]
    <3>1. CASE p.executing = NoTask
      <4>1. [p EXCEPT !.lastHeartbeat = now]
              = [p EXCEPT !.lastHeartbeat = now, !.leases = leases]
        BY <3>1 DEF Members
      <4> HIDE DEF leases
      <4> QED
        BY <1>2, <3>1, <4>1 DEF TickHeartbeat
    <3>2. CASE p.executing # NoTask
      BY <1>2, <3>2 DEF TickHeartbeat, Members
    <3> QED
      BY <3>1, <3>2
  <2> HIDE DEF leases
  <2>3. Handled(known, done, p, [p EXCEPT !.lastHeartbeat = now, !.leases = leases])
    <3> DEFINE q == [p EXCEPT !.lastHeartbeat = now]
    <3>1. q \in Members(known, done) /\ now \in Int
      BY DEF Members
    <3>2. q.executing = p.executing
      BY DEF Members
    <3>3. [p EXCEPT !.lastHeartbeat = now, !.leases = leases] = [q EXCEPT !.leases = leases]
      OBVIOUS
    <3> HIDE DEF q
    <3>4. [q EXCEPT !.leases = leases] \in Members(known, done)
      BY <2>1, <3>1 DEF Members
    <3>5. [q EXCEPT !.leases = leases].executing = q.executing
      BY <3>1 DEF Members
    <3> QED
      BY <3>2, <3>3, <3>4, <3>5 DEF Handled
  <2>4. [p EXCEPT !.lastHeartbeat = now, !.leases = leases].tasks = p.tasks
    BY DEF Members
  <2>5. HeartbeatRound(r, p, now) \in Seq(Spoken(known, done))
    BY HeartbeatRoundResult
  <2> DEFINE q == [p EXCEPT !.lastHeartbeat = now, !.leases = leases]
  <2>6. TickHeartbeat(r, p, now).p = q /\ TickHeartbeat(r, p, now).out = HeartbeatRound(r, p, now)
    BY <2>2
  <2> HIDE DEF q
  <2> QED
    BY <2>3, <2>4, <2>5, <2>6 DEF q
<1> QED
  BY <1>1, <1>2

\* A coordinator offers what can be executed, as far as it was told, and what
\* it was told is true.
LEMMA AvailableIsEnabled ==
  ASSUME NEW known, NEW done, HistoryOK(known, done), NEW p \in Members(known, done)
  PROVE  AvailableTasks(p) \subseteq Enabled(known, done)
<1> SUFFICES ASSUME NEW t \in AvailableTasks(p) PROVE t \in Enabled(known, done)
  OBVIOUS
<1>1. t \in p.tasks /\ Prerequisites[t] \subseteq Completed(p) \cap p.tasks
  BY DEF AvailableTasks, Available
<1>2. p.tasks \subseteq known /\ known \subseteq RealTask /\ p.completed \in Completions(done)
  BY DEF HistoryOK, Members
<1>3. ASSUME NEW u \in Prerequisites[t] PROVE \E d \in done : d[1] = u
  <2>1. u \in RealTask /\ p.completed[u] # NoHolder
    BY <1>1, <1>2 DEF Completed
  <2>2. <<u, p.completed[u]>> \in done
    BY <1>2, <2>1 DEF Completions
  <2> QED
    BY <2>2
<1> QED
  BY <1>1, <1>2, <1>3 DEF Enabled

\* At most a round on tasks that can be executed is framed, and adopted.
FramesAtMost(known, done, r, p, now) ==
  \/ TickCoordinator(r, p, now).p = p
  \/ \E m \in Framed(known, done) : TickCoordinator(r, p, now).p = OnAnnouncement(r, p, m, now)

LEMMA TickCoordinatorResult ==
  ASSUME NEW known, NEW done, HistoryOK(known, done), NEW r \in Robot,
         NEW p \in Members(known, done), NEW now \in Nat
  PROVE  /\ Handled(known, done, p, TickCoordinator(r, p, now).p)
         /\ TickCoordinator(r, p, now).p.tasks = p.tasks
         /\ TickCoordinator(r, p, now).out \in Seq(Spoken(known, done))
         /\ FramesAtMost(known, done, r, p, now)
<1> DEFINE idle == IdleRobots(r, p, now)
           ann == AnnouncementMsg(p.maxRoundSeen + 1, r, AvailableTasks(p), idle)
<1>1. CASE TickCoordinator(r, p, now) = [p |-> p, out |-> <<>>]
  BY <1>1 DEF Handled, FramesAtMost
<1>2. CASE /\ ann.tasks # {}
           /\ TickCoordinator(r, p, now) = [p |-> OnAnnouncement(r, p, ann, now), out |-> <<ann>>]
  <2>1. AvailableTasks(p) \subseteq Enabled(known, done) /\ Enabled(known, done) \subseteq RealTask
    BY AvailableIsEnabled DEF Enabled
  <2>2. idle \subseteq Robot
    BY DEF IdleRobots, Members
  <2>3. p.maxRoundSeen + 1 \in Nat
    BY DEF Members
  <2>4. /\ Deficit(Cardinality(idle), Cardinality(AvailableTasks(p))) \in Nat
        /\ Deficit(Cardinality(idle), Cardinality(AvailableTasks(p))) <= Cardinality(Robot)
    <3>1. IsFiniteSet(idle) /\ IsFiniteSet(AvailableTasks(p))
      <4>1. IsFiniteSet(Robot) /\ IsFiniteSet(RealTask)
        BY FleetAssumption DEF FleetAssumption
      <4>2. idle \in SUBSET Robot /\ AvailableTasks(p) \in SUBSET RealTask
        BY <2>1, <2>2
      <4> HIDE DEF idle
      <4> QED
        BY <4>1, <4>2, FS_Subset
    <3>2. Cardinality(idle) \in Nat /\ Cardinality(AvailableTasks(p)) \in Nat
      BY <3>1, FS_CardinalityType
    <3>3. Cardinality(idle) <= Cardinality(Robot)
      BY <2>2, FleetIsFinite, FS_Subset
    <3> QED
      BY <3>2, <3>3, FleetIsFinite DEF Deficit
  <2> HIDE DEF idle
  <2>5. ann \in Announcements
    BY <2>1, <2>2, <2>3, <2>4 DEF AnnouncementMsg, Announcements
  <2>6. ann \in Framed(known, done)
    BY <1>2, <2>1, <2>4, <2>5 DEF AnnouncementMsg, Framed
  <2>7. ann \in Spoken(known, done)
    BY <2>6 DEF Spoken
  <2> HIDE DEF ann
  <2>8. Handled(known, done, p, OnAnnouncement(r, p, ann, now))
    BY <2>6, OnAnnouncementResult
  <2>9. <<ann>> \in Seq(Spoken(known, done))
    BY <2>7
  <2>10. OnAnnouncement(r, p, ann, now).tasks = p.tasks
    BY OnAnnouncementKeepsTasks
  <2>11. FramesAtMost(known, done, r, p, now)
    BY <1>2, <2>6 DEF FramesAtMost
  <2> QED
    BY <1>2, <2>8, <2>9, <2>10, <2>11
<1> QED
  BY <1>1, <1>2 DEF TickCoordinator

\* A tick of a sound participant: what it leaves, sends, and has its host do.
TickSound(known, done, p, step) ==
  /\ step.p \in Members(known, done)
  /\ step.out \in Seq(Spoken(known, done))
  /\ step.raised \in BOOLEAN
  /\ step.p.tasks = p.tasks
  /\ step.raised => ~ WellFormed(p.tasks)
  /\ step.aborted # {} => p.executing # NoTask
  /\ \/ /\ step.dispatched = {}
        /\ step.aborted = {} /\ step.p.executing = p.executing
     \/ /\ step.dispatched = {}
        /\ step.aborted # {} /\ step.p.executing = NoTask
     \/ \E t \in Enabled(known, done) :
          step.dispatched = {t} /\ step.p.executing = t /\ AboutToWin(p, t)

LEMMA TickResult ==
  ASSUME NEW known, NEW done, HistoryOK(known, done), NEW r \in Robot,
         NEW p \in Members(known, done), NEW now \in Nat, NEW step \in Tick(r, p, now)
  PROVE  TickSound(known, done, p, step)
<1> DEFINE swept == SweepLiveness(r, p, now)
           kept == StopLostWork(r, swept)
<1>1. /\ swept \in Members(known, done) /\ swept.executing = p.executing
      /\ swept.tasks = p.tasks /\ swept.agent = p.agent /\ swept.completed = p.completed
  BY SweepResult, SweepMeansTime DEF Handled
<1>2. /\ kept \in Members(known, done) /\ kept.tasks = p.tasks
      /\ kept.agent = p.agent /\ kept.completed = p.completed
      /\ kept.executing = IF LostLease(r, swept) THEN NoTask ELSE p.executing
  <2> HIDE DEF swept
  <2> QED
    BY <1>1, SweepResult, SweepMeansTime
<1>3. PICK rd \in TickRound(r, kept, now) :
        LET hb == TickHeartbeat(r, rd.p, now)
            co == TickCoordinator(r, hb.p, now)
        IN  step = [p |-> co.p,
                    out |-> rd.out \o hb.out \o co.out,
                    aborted |-> IF LostLease(r, swept) THEN {swept.executing} ELSE {},
                    dispatched |-> rd.dispatched,
                    raised |-> DagRaises(r, hb.p, now)]
  BY DEF Tick
<1> HIDE DEF swept, kept
<1> DEFINE hb == TickHeartbeat(r, rd.p, now)
           co == TickCoordinator(r, hb.p, now)
<1>4. /\ rd.p \in Members(known, done)
      /\ rd.out \in Seq(Spoken(known, done))
      /\ Dispatched(known, done, kept, rd) /\ rd.p.tasks = kept.tasks
  BY <1>2, TickRoundResult
<1>5. /\ Handled(known, done, rd.p, hb.p) /\ hb.p.tasks = rd.p.tasks
      /\ hb.out \in Seq(Spoken(known, done))
  BY <1>4, TickHeartbeatResult
<1>6. /\ hb.p \in Members(known, done) /\ hb.p.executing = rd.p.executing
      /\ hb.p.tasks = p.tasks
  BY <1>1, <1>2, <1>4, <1>5 DEF Handled
<1> HIDE DEF hb
<1>7. /\ Handled(known, done, hb.p, co.p) /\ co.p.tasks = hb.p.tasks
      /\ co.out \in Seq(Spoken(known, done))
  BY <1>6, TickCoordinatorResult
<1>8. /\ co.p \in Members(known, done) /\ co.p.executing = rd.p.executing
      /\ co.p.tasks = p.tasks
  BY <1>6, <1>7 DEF Handled
<1> HIDE DEF co
<1>9. /\ step.p = co.p /\ step.out = (rd.out \o hb.out) \o co.out
      /\ step.aborted = (IF LostLease(r, swept) THEN {swept.executing} ELSE {})
      /\ step.dispatched = rd.dispatched /\ step.raised = DagRaises(r, hb.p, now)
  BY <1>3 DEF hb, co
<1>10. step.out \in Seq(Spoken(known, done))
  <2>1. (rd.out \o hb.out) \in Seq(Spoken(known, done))
    BY <1>4, <1>5, JoinedOut
  <2> QED
    BY <1>7, <1>9, <2>1, JoinedOut
<1>11. step.raised \in BOOLEAN /\ (step.raised => ~ WellFormed(p.tasks))
  BY <1>6, <1>9 DEF DagRaises, MayFrame
<1>lost. step.aborted # {} => p.executing # NoTask
  BY <1>1, <1>9 DEF LostLease
<1>12. ASSUME NEW t \in Enabled(known, done), rd.dispatched = {t}, rd.p.executing = t,
              AboutToWin(kept, t)
       PROVE  TickSound(known, done, p, step)
  <2>1. AboutToWin(p, t)
    BY <1>2, <1>12 DEF AboutToWin, Dispatches, Completed
  <2> QED
    BY <1>8, <1>9, <1>10, <1>11, <1>lost, <1>12, <2>1 DEF TickSound
<1>13. CASE rd.dispatched = {} /\ rd.p.executing = kept.executing
  BY <1>2, <1>8, <1>9, <1>10, <1>11, <1>lost, <1>13 DEF TickSound
<1> QED
  BY <1>4, <1>12, <1>13 DEF Dispatched

\* A tick is determined by the participant's state: nothing blocks it, and no
\* scan is left open.
OneWay(r, p, now) == \E step : Tick(r, p, now) = {step}

LEMMA TickHasOneOutcome ==
  ASSUME NEW known, NEW done, NEW r \in Robot, NEW p \in Members(known, done), NEW now \in Nat
  PROVE  OneWay(r, p, now)
<1> DEFINE swept == SweepLiveness(r, p, now)
           kept == StopLostWork(r, swept)
<1>1. kept \in Members(known, done)
  <2>1. swept \in Members(known, done)
    BY SweepResult DEF Handled
  <2> HIDE DEF swept
  <2> QED
    BY <2>1, SweepResult
<1>2. PICK rd : TickRound(r, kept, now) = {rd}
  <2> HIDE DEF kept
  <2>1. CASE kept.agent # NoAgent
    <3>1. kept.agent \in Agents
      BY <1>1, <2>1 DEF Members, Bidding
    <3>2. PICK ag : AfterTick(r, kept.agent) = {ag}
      <4>1. PICK bid : Bids(kept.agent) = {bid}
        BY <3>1, OneBid DEF BidHolds
      <4> QED
        BY <4>1 DEF AfterTick
    <3> DEFINE rd(x) ==
              LET won == x.assignment
                  gossip == {GossipMsg(kept.announcement.round, m) : m \in Broadcasts(r, x)}
              IN  IF ~ Terminated(x)
                  THEN [p |-> [kept EXCEPT !.agent = x],
                        out |-> SetToSeq(gossip), dispatched |-> {}]
                  ELSE IF ~ Dispatches(kept, won)
                  THEN [p |-> [kept EXCEPT !.agent = NoAgent],
                        out |-> SetToSeq(gossip), dispatched |-> {}]
                  ELSE [p |-> [kept EXCEPT !.agent = NoAgent,
                                           !.leases = Grant(@, won, r, now),
                                           !.executing = won],
                        out |-> Append(SetToSeq(gossip), RenewalMsg(won, r)),
                        dispatched |-> {won}]
    <3>3. TickRound(r, kept, now) = {rd(x) : x \in AfterTick(r, kept.agent)}
      BY <2>1 DEF TickRound
    <3> HIDE DEF rd
    <3>4. {rd(x) : x \in AfterTick(r, kept.agent)} = {rd(ag)}
      BY <3>2
    <3> QED
      BY <3>3, <3>4
  <2>2. CASE kept.agent = NoAgent
    BY <2>2 DEF TickRound
  <2> QED
    BY <2>1, <2>2
<1> DEFINE step(x) ==
             LET hb == TickHeartbeat(r, x.p, now)
                 co == TickCoordinator(r, hb.p, now)
             IN  [p |-> co.p,
                  out |-> x.out \o hb.out \o co.out,
                  aborted |-> IF LostLease(r, swept) THEN {swept.executing} ELSE {},
                  dispatched |-> x.dispatched,
                  raised |-> DagRaises(r, hb.p, now)]
<1>3. Tick(r, p, now) = {step(x) : x \in TickRound(r, kept, now)}
  BY DEF Tick
<1> HIDE DEF swept, kept, step
<1>4. {step(x) : x \in TickRound(r, kept, now)} = {step(rd)}
  BY <1>2
<1> QED
  BY <1>3, <1>4 DEF OneWay

-----------------------------------------------------------------------------
(* Handlers are idempotent *)

\* What q has heard, and what it knows, goes no way behind p.
Later(p, q) ==
  /\ p.tasks \subseteq q.tasks
  /\ \A t \in RealTask : p.completed[t] # NoHolder => q.completed[t] # NoHolder
  /\ \A s \in Robot : p.lastSeen[s] \in Nat =>
       q.lastSeen[s] \in Nat /\ p.lastSeen[s] <= q.lastSeen[s]
  /\ \A s \in Robot : p.idleFlags[s] # NoFlag =>
       q.idleFlags[s] # NoFlag /\ p.idleFlags[s].stamp <= q.idleFlags[s].stamp
  /\ p.announcement # NoRound =>
       /\ q.announcement # NoRound
       /\ q.announcement = p.announcement \/ Precedes(p.announcement, q.announcement)

\* A message that has nothing new for p, leases and gossip apart.
Heeded(r, p, m, at) ==
  /\ m \in Heartbeats /\ m.sender # r =>
       /\ p.lastSeen[m.sender] \in Nat /\ at <= p.lastSeen[m.sender]
       /\ p.idleFlags[m.sender] # NoFlag /\ m.stamp <= p.idleFlags[m.sender].stamp
  /\ m \in Announcements => p.announcement # NoRound /\ ~ Precedes(p.announcement, m)
  /\ m.type = "completed" => p.completed[m.task] # NoHolder
  /\ m.type = "injected" => m.task \in p.tasks \cup Collaborative

\* The fields Later looks at.
SameNews(p, q) ==
  /\ q.tasks = p.tasks /\ q.completed = p.completed /\ q.lastSeen = p.lastSeen
  /\ q.idleFlags = p.idleFlags /\ q.announcement = p.announcement

LEMMA SameIsLater ==
  ASSUME NEW known, NEW done, NEW p \in Members(known, done), NEW q, SameNews(p, q)
  PROVE  Later(p, q)
<1>1. /\ p.lastSeen \in [Robot -> Nat \cup {Never}]
      /\ p.idleFlags \in [Robot -> Flags \cup {NoFlag}]
  BY DEF Members
<1>2. \A s \in Robot : p.lastSeen[s] \in Nat => p.lastSeen[s] <= p.lastSeen[s]
  OBVIOUS
<1>3. \A s \in Robot : p.idleFlags[s] # NoFlag => p.idleFlags[s].stamp <= p.idleFlags[s].stamp
  BY <1>1 DEF Flags
<1> QED
  BY <1>2, <1>3 DEF SameNews, Later

LEMMA PrecedesOrder ==
  ASSUME NEW a \in Announcements, NEW b \in Announcements
  PROVE  /\ ~ Precedes(a, a)
         /\ \A c \in Announcements : Precedes(a, b) /\ Precedes(b, c) => Precedes(a, c)
<1>1. \A x \in Announcements : x.round \in Nat /\ x.coordinator \in Nat
  BY FleetAssumption DEF FleetAssumption, Announcements
<1> QED
  BY <1>1 DEF Precedes

\* What the five fields of participants are.
LEMMA NewsFields ==
  ASSUME NEW known, NEW done, NEW p \in Members(known, done)
  PROVE  /\ p.lastSeen \in [Robot -> Nat \cup {Never}]
         /\ p.idleFlags \in [Robot -> Flags \cup {NoFlag}]
         /\ p.announcement \in Announcements \cup {NoRound}
         /\ p.completed \in [RealTask -> Robot \cup {NoHolder}]
BY DEF Members, Framed, Completions

LEMMA LaterTransitive ==
  ASSUME NEW known, NEW done, NEW p \in Members(known, done), NEW q \in Members(known, done),
         NEW x \in Members(known, done), Later(p, q), Later(q, x)
  PROVE  Later(p, x)
<1>1. \A s \in Robot : p.lastSeen[s] \in Nat =>
        x.lastSeen[s] \in Nat /\ p.lastSeen[s] <= x.lastSeen[s]
  BY DEF Later
<1>2. \A s \in Robot : p.idleFlags[s] # NoFlag =>
        x.idleFlags[s] # NoFlag /\ p.idleFlags[s].stamp <= x.idleFlags[s].stamp
  <2> SUFFICES ASSUME NEW s \in Robot, p.idleFlags[s] # NoFlag
               PROVE  x.idleFlags[s] # NoFlag /\ p.idleFlags[s].stamp <= x.idleFlags[s].stamp
    OBVIOUS
  <2>1. /\ q.idleFlags[s] # NoFlag /\ p.idleFlags[s].stamp <= q.idleFlags[s].stamp
        /\ x.idleFlags[s] # NoFlag /\ q.idleFlags[s].stamp <= x.idleFlags[s].stamp
    BY DEF Later
  <2>2. /\ p.idleFlags[s].stamp \in Nat /\ q.idleFlags[s].stamp \in Nat
        /\ x.idleFlags[s].stamp \in Nat
    BY <2>1, NewsFields DEF Flags
  <2> QED
    BY <2>1, <2>2
<1>3. p.announcement # NoRound =>
        /\ x.announcement # NoRound
        /\ x.announcement = p.announcement \/ Precedes(p.announcement, x.announcement)
  <2> SUFFICES ASSUME p.announcement # NoRound
               PROVE  /\ x.announcement # NoRound
                      /\ \/ x.announcement = p.announcement
                         \/ Precedes(p.announcement, x.announcement)
    OBVIOUS
  <2>1. /\ q.announcement # NoRound /\ x.announcement # NoRound
        /\ q.announcement = p.announcement \/ Precedes(p.announcement, q.announcement)
        /\ x.announcement = q.announcement \/ Precedes(q.announcement, x.announcement)
    BY DEF Later
  <2>2. /\ p.announcement \in Announcements /\ q.announcement \in Announcements
        /\ x.announcement \in Announcements
    BY <2>1, NewsFields
  <2> QED
    BY <2>1, <2>2, PrecedesOrder
<1>4. /\ p.tasks \subseteq x.tasks
      /\ \A t \in RealTask : p.completed[t] # NoHolder => x.completed[t] # NoHolder
  BY DEF Later
<1> QED
  BY <1>1, <1>2, <1>3, <1>4 DEF Later

\* What was heeded remains so.
LEMMA HeededRemains ==
  ASSUME NEW known, NEW done, NEW p \in Members(known, done), NEW q \in Members(known, done),
         Later(p, q), NEW r \in Robot, NEW m \in Reports(known, done), NEW at \in Nat,
         Heeded(r, p, m, at)
  PROVE  Heeded(r, q, m, at)
<1>1. ASSUME m \in Heartbeats, m.sender # r
      PROVE  /\ q.lastSeen[m.sender] \in Nat /\ at <= q.lastSeen[m.sender]
             /\ q.idleFlags[m.sender] # NoFlag /\ m.stamp <= q.idleFlags[m.sender].stamp
  <2> DEFINE s == m.sender
  <2>1. s \in Robot /\ m.stamp \in Nat
    BY <1>1 DEF Heartbeats
  <2>2. /\ p.lastSeen[s] \in Nat /\ at <= p.lastSeen[s]
        /\ p.idleFlags[s] # NoFlag /\ m.stamp <= p.idleFlags[s].stamp
    BY <1>1 DEF Heeded
  <2> HIDE DEF s
  <2>3. /\ q.lastSeen[s] \in Nat /\ p.lastSeen[s] <= q.lastSeen[s]
        /\ q.idleFlags[s] # NoFlag /\ p.idleFlags[s].stamp <= q.idleFlags[s].stamp
    BY <2>1, <2>2 DEF Later
  <2>4. p.idleFlags[s].stamp \in Nat /\ q.idleFlags[s].stamp \in Nat
    BY <2>1, <2>2, <2>3, NewsFields DEF Flags
  <2>5. /\ q.lastSeen[s] \in Nat /\ at <= q.lastSeen[s]
        /\ q.idleFlags[s] # NoFlag /\ m.stamp <= q.idleFlags[s].stamp
    BY <2>1, <2>2, <2>3, <2>4
  <2> QED
    BY <2>5 DEF s
<1>2. ASSUME m \in Announcements
      PROVE  q.announcement # NoRound /\ ~ Precedes(q.announcement, m)
  <2>1. p.announcement # NoRound /\ ~ Precedes(p.announcement, m)
    BY <1>2 DEF Heeded
  <2>2. /\ q.announcement # NoRound
        /\ q.announcement = p.announcement \/ Precedes(p.announcement, q.announcement)
    BY <2>1 DEF Later
  <2>3. p.announcement \in Announcements /\ q.announcement \in Announcements
    BY <2>1, <2>2, NewsFields
  <2> QED
    BY <1>2, <2>1, <2>2, <2>3, PrecedesOrder
<1>3. m.type = "completed" => q.completed[m.task] # NoHolder
  <2>1. m.type = "completed" => m.task \in RealTask
    BY DEF Reports, Spoken, Heartbeats, Framed, Announcements, Gossips, Renewals, TrueCompletions,
       Injections
  <2> QED
    BY <2>1 DEF Heeded, Later
<1>4. m.type = "injected" => m.task \in q.tasks \cup Collaborative
  BY DEF Heeded, Later
<1> QED
  BY <1>1, <1>2, <1>3, <1>4 DEF Heeded

\* A handler that is done with its message: nothing lost, and the message heeded.
Heeds(r, p, q, m, at) == Later(p, q) /\ Heeded(r, q, m, at)

LEMMA HeartbeatHeeded ==
  ASSUME NEW known, NEW done, NEW r \in Robot, NEW p \in Members(known, done),
         NEW at \in Nat, NEW m \in Heartbeats
  PROVE  Heeds(r, p, OnHeartbeat(r, p, m, at), m, at)
<1> DEFINE q == OnHeartbeat(r, p, m, at)
           s == m.sender
<1>1. s \in Robot /\ m.stamp \in Nat /\ m.type = "heartbeat"
  BY DEF Heartbeats
<1>2. /\ p.lastSeen \in [Robot -> Nat \cup {Never}]
      /\ p.idleFlags \in [Robot -> Flags \cup {NoFlag}]
  BY NewsFields
<1>type. m \notin Announcements
  BY <1>1 DEF Announcements
<1>3. CASE s = r
  <2>1. q = p
    BY <1>3 DEF OnHeartbeat
  <2>2. Later(p, p)
    BY SameIsLater DEF SameNews
  <2>3. Heeded(r, q, m, at)
    BY <1>1, <1>3, <1>type DEF Heeded
  <2> QED
    BY <2>1, <2>2, <2>3 DEF Heeds
<1>4. CASE s # r
  <2>1. /\ q.tasks = p.tasks /\ q.completed = p.completed /\ q.announcement = p.announcement
        /\ q.lastSeen = Record(p.lastSeen, s, at)
        /\ \A x \in Robot \ {s} : q.idleFlags[x] = p.idleFlags[x]
        /\ q.idleFlags[s] = IF p.idleFlags[s] = NoFlag
                            THEN [stamp |-> m.stamp, idle |-> m.idle]
                            ELSE IF m.stamp > p.idleFlags[s].stamp
                            THEN [stamp |-> m.stamp, idle |-> m.idle]
                            ELSE p.idleFlags[s]
    BY <1>1, <1>2, <1>4 DEF OnHeartbeat, Members
  <2> HIDE DEF q, s
  <2>2. /\ \A x \in Robot : p.lastSeen[x] \in Nat =>
             q.lastSeen[x] \in Nat /\ p.lastSeen[x] <= q.lastSeen[x]
        /\ q.lastSeen[s] \in Nat /\ at <= q.lastSeen[s]
    <3>1. \A x \in Robot :
            q.lastSeen[x] = IF x # s THEN p.lastSeen[x]
                            ELSE IF p.lastSeen[s] = Never THEN at
                            ELSE IF at > p.lastSeen[s] THEN at ELSE p.lastSeen[s]
      BY <1>1, <1>2, <2>1 DEF Record
    <3>2. \A x \in Robot : p.lastSeen[x] # Never => p.lastSeen[x] \in Nat
      BY <1>2
    <3>3. Never \notin Nat
      BY FleetAssumption DEF FleetAssumption
    <3> QED
      BY <1>1, <3>1, <3>2, <3>3
  <2>3. q.idleFlags[s] # NoFlag /\ m.stamp <= q.idleFlags[s].stamp
    <3>1. [stamp |-> m.stamp, idle |-> m.idle] \in Flags
      BY DEF Heartbeats, Flags
    <3>2. NoFlag \notin Flags
      BY FleetAssumption DEF FleetAssumption, Flags
    <3>3. p.idleFlags[s] # NoFlag => p.idleFlags[s].stamp \in Nat
      BY <1>1, <1>2 DEF Flags
    <3> QED
      BY <1>1, <2>1, <3>1, <3>2, <3>3
  <2>4. \A x \in Robot : p.idleFlags[x] # NoFlag =>
          q.idleFlags[x] # NoFlag /\ p.idleFlags[x].stamp <= q.idleFlags[x].stamp
    <3> SUFFICES ASSUME NEW x \in Robot, p.idleFlags[x] # NoFlag
                 PROVE  q.idleFlags[x] # NoFlag /\ p.idleFlags[x].stamp <= q.idleFlags[x].stamp
      OBVIOUS
    <3>1. p.idleFlags[x].stamp \in Nat
      BY <1>2 DEF Flags
    <3>2. CASE x # s
      BY <2>1, <3>1, <3>2
    <3>3. CASE x = s
      BY <1>1, <2>1, <2>3, <3>1, <3>3
    <3> QED
      BY <3>2, <3>3
  <2>5. Later(p, q)
    <3>1. Later(p, p)
      BY SameIsLater DEF SameNews
    <3> QED
      BY <2>1, <2>2, <2>4, <3>1 DEF Later
  <2>6. Heeded(r, q, m, at)
    BY <1>1, <1>type, <2>2, <2>3 DEF Heeded, s
  <2> QED
    BY <2>5, <2>6 DEF Heeds, q
<1> QED
  BY <1>3, <1>4

LEMMA AnnouncementHeeded ==
  ASSUME NEW known, NEW done, NEW r \in Robot, NEW p \in Members(known, done),
         NEW at \in Nat, NEW m \in Framed(known, done)
  PROVE  Heeds(r, p, OnAnnouncement(r, p, m, at), m, at)
<1> DEFINE q == OnAnnouncement(r, p, m, at)
<1>1. m \in Announcements /\ m.type = "announcement" /\ m \notin Heartbeats /\ m # NoRound
  BY FleetAssumption DEF Framed, Announcements, Heartbeats, FleetAssumption
<1>2. Later(p, p)
  BY SameIsLater DEF SameNews
<1>3. CASE p.announcement # NoRound /\ ~ Precedes(p.announcement, m)
  BY <1>1, <1>2, <1>3 DEF OnAnnouncement, Heeds, Heeded
<1>4. CASE ~ (p.announcement # NoRound /\ ~ Precedes(p.announcement, m))
  <2>1. /\ q.tasks = p.tasks /\ q.completed = p.completed /\ q.lastSeen = p.lastSeen
        /\ q.idleFlags = p.idleFlags /\ q.announcement = m
    BY <1>4 DEF OnAnnouncement, Adopt, Members
  <2> HIDE DEF q
  <2>2. ~ Precedes(m, m)
    BY <1>1, PrecedesOrder
  <2>3. Later(p, q)
    BY <1>1, <1>2, <1>4, <2>1 DEF Later
  <2>4. Heeded(r, q, m, at)
    BY <1>1, <2>1, <2>2 DEF Heeded
  <2> QED
    BY <2>3, <2>4 DEF Heeds, q
<1> QED
  BY <1>3, <1>4

LEMMA CompletedHeeded ==
  ASSUME NEW known, NEW done, NEW r \in Robot, NEW p \in Members(known, done),
         NEW at \in Nat, NEW m \in TrueCompletions(done)
  PROVE  Heeds(r, p, OnCompleted(p, m), m, at)
<1> DEFINE q == OnCompleted(p, m)
<1>1. /\ m.type = "completed" /\ m.task \in RealTask /\ m.by \in Robot /\ m.by # NoHolder
      /\ m \notin Announcements /\ m \notin Heartbeats
  BY FleetAssumption DEF TrueCompletions, Announcements, Heartbeats, FleetAssumption
<1>2. p.completed \in [RealTask -> Robot \cup {NoHolder}]
  BY NewsFields
<1>3. /\ q.tasks = p.tasks /\ q.lastSeen = p.lastSeen
      /\ q.idleFlags = p.idleFlags /\ q.announcement = p.announcement
      /\ q.completed = [p.completed EXCEPT ![m.task] = IF @ = NoHolder THEN m.by ELSE @]
  BY DEF OnCompleted, Members
<1> HIDE DEF q
<1>4. /\ q.completed[m.task] # NoHolder
      /\ \A t \in RealTask : p.completed[t] # NoHolder => q.completed[t] # NoHolder
  BY <1>1, <1>2, <1>3
<1>5. Later(p, p)
  BY SameIsLater DEF SameNews
<1>6. Later(p, q) /\ Heeded(r, q, m, at)
  BY <1>1, <1>3, <1>4, <1>5 DEF Later, Heeded
<1> QED
  BY <1>6 DEF Heeds, q

LEMMA HandleHeeds ==
  ASSUME NEW known, NEW done, HistoryOK(known, done), NEW r \in Robot,
         NEW p \in Members(known, done), NEW m \in Reports(known, done), NEW at \in Nat
  PROVE  Heeds(r, p, Handle(r, p, m, at), m, at)
<1>1. CASE m \in Heartbeats
  BY <1>1, HeartbeatHeeded DEF Handle, Heartbeats
<1>2. CASE m \in Framed(known, done)
  <2>1. m.type = "announcement"
    BY <1>2 DEF Framed, Announcements
  <2> QED
    BY <1>2, <2>1, AnnouncementHeeded DEF Handle
<1>3. CASE m \in Gossips
  <2>1. m.type = "gossip" /\ m \notin Announcements /\ m \notin Heartbeats
    BY <1>3 DEF Gossips, Announcements, Heartbeats
  <2>2. Handle(r, p, m, at) = OnGossip(r, p, m)
    BY <2>1 DEF Handle
  <2>3. SameNews(p, OnGossip(r, p, m))
    BY DEF OnGossip, SameNews, Members
  <2>4. Later(p, OnGossip(r, p, m))
    BY <2>3, SameIsLater
  <2> QED
    BY <2>1, <2>2, <2>4 DEF Heeds, Heeded
<1>4. CASE m \in Renewals
  <2>1. m.type = "renewal" /\ m \notin Announcements /\ m \notin Heartbeats
    BY <1>4 DEF Renewals, Announcements, Heartbeats
  <2>2. Handle(r, p, m, at) = OnLeaseRenewal(p, m, at)
    BY <2>1 DEF Handle
  <2>3. SameNews(p, OnLeaseRenewal(p, m, at))
    BY DEF OnLeaseRenewal, SameNews, Members
  <2>4. Later(p, OnLeaseRenewal(p, m, at))
    BY <2>3, SameIsLater
  <2> QED
    BY <2>1, <2>2, <2>4 DEF Heeds, Heeded
<1>5. CASE m \in TrueCompletions(done)
  BY <1>5, CompletedHeeded DEF Handle, TrueCompletions
<1>6. CASE m \in Injections(known)
  <2> DEFINE q == AddTask(p, m.task)
  <2>1. m.type = "injected" /\ m \notin Announcements /\ m \notin Heartbeats
    BY <1>6 DEF Injections, Announcements, Heartbeats
  <2>2. Handle(r, p, m, at) = q
    BY <2>1 DEF Handle
  <2>3. /\ q.completed = p.completed /\ q.lastSeen = p.lastSeen /\ q.idleFlags = p.idleFlags
        /\ q.announcement = p.announcement /\ p.tasks \subseteq q.tasks
        /\ m.task \in q.tasks \cup Collaborative
    BY DEF AddTask, Members
  <2> HIDE DEF q
  <2>4. Later(p, p)
    BY SameIsLater DEF SameNews
  <2>5. Later(p, q) /\ Heeded(r, q, m, at)
    BY <2>1, <2>3, <2>4 DEF Later, Heeded
  <2> QED
    BY <2>2, <2>5 DEF Heeds
<1> QED
  BY <1>1, <1>2, <1>3, <1>4, <1>5, <1>6 DEF Reports, Spoken

\* A message that was heeded changes nothing but leases.
LEMMA HeededChangesNothing ==
  ASSUME NEW known, NEW done, NEW r \in Robot, NEW p \in Members(known, done),
         NEW m \in Reports(known, done), m.type # "gossip", NEW at \in Nat,
         Heeded(r, p, m, at)
  PROVE  [Handle(r, p, m, at) EXCEPT !.leases = p.leases] = p
<1>1. CASE m \in Heartbeats
  <2> DEFINE s == m.sender
  <2>1. s \in Robot /\ Handle(r, p, m, at) = OnHeartbeat(r, p, m, at) /\ m.stamp \in Nat
    BY <1>1 DEF Handle, Heartbeats
  <2>2. CASE s = r
    BY <2>1, <2>2 DEF OnHeartbeat, Members
  <2>3. CASE s # r
    <3>1. /\ p.lastSeen[s] \in Nat /\ at <= p.lastSeen[s]
          /\ p.idleFlags[s] # NoFlag /\ m.stamp <= p.idleFlags[s].stamp
      BY <1>1, <2>3 DEF Heeded
    <3>2. /\ p.lastSeen \in [Robot -> Nat \cup {Never}]
          /\ p.idleFlags \in [Robot -> Flags \cup {NoFlag}]
      BY NewsFields
    <3>3. p.idleFlags[s].stamp \in Nat
      BY <2>1, <3>1, <3>2 DEF Flags
    <3>4. Record(p.lastSeen, s, at) = p.lastSeen
      <4>1. p.lastSeen[s] # Never
        BY <3>1, FleetAssumption DEF FleetAssumption
      <4> QED
        BY <2>1, <3>1, <3>2, <4>1 DEF Record
    <3>5. ~ (m.stamp > p.idleFlags[s].stamp)
      BY <2>1, <3>1, <3>3
    <3>6. [p.idleFlags EXCEPT ![s] = p.idleFlags[s]] = p.idleFlags
      BY <3>2
    <3>7. OnHeartbeat(r, p, m, at) = p
      <4> DEFINE h == [p EXCEPT !.lastSeen = p.lastSeen]
      <4>1. h = p
        BY DEF Members
      <4>2. OnHeartbeat(r, p, m, at) =
              [[p EXCEPT !.lastSeen = Record(p.lastSeen, s, at)]
                 EXCEPT !.idleFlags[s] = IF @ = NoFlag
                                         THEN [stamp |-> m.stamp, idle |-> m.idle]
                                         ELSE IF m.stamp > @.stamp
                                         THEN [stamp |-> m.stamp, idle |-> m.idle]
                                         ELSE @]
        BY <2>3 DEF OnHeartbeat
      <4>3. OnHeartbeat(r, p, m, at) = [p EXCEPT !.idleFlags[s] = p.idleFlags[s]]
        <5> HIDE DEF s
        <5> QED
          BY <3>1, <3>4, <3>5, <4>1, <4>2
      <4> QED
        BY <3>6, <4>3 DEF Members
    <3> QED
      BY <2>1, <3>7 DEF Members
  <2> QED
    BY <2>2, <2>3
<1>2. CASE m \in Framed(known, done)
  <2>1. m.type = "announcement" /\ m \in Announcements
    BY <1>2 DEF Framed, Announcements
  <2>2. Handle(r, p, m, at) = p
    BY <2>1 DEF Handle, Heeded, OnAnnouncement
  <2> QED
    BY <2>2 DEF Members
<1>3. CASE m \in Renewals
  <2>1. Handle(r, p, m, at) = OnLeaseRenewal(p, m, at)
    BY <1>3 DEF Handle, Renewals
  <2> QED
    BY <2>1 DEF OnLeaseRenewal, Members
<1>4. CASE m \in TrueCompletions(done)
  <2>1. m.type = "completed" /\ Handle(r, p, m, at) = OnCompleted(p, m) /\ m.task \in RealTask
    BY <1>4 DEF Handle, TrueCompletions
  <2>2. p.completed[m.task] # NoHolder /\ p.completed \in [RealTask -> Robot \cup {NoHolder}]
    BY <2>1, NewsFields DEF Heeded
  <2>3. [p.completed EXCEPT ![m.task] = p.completed[m.task]] = p.completed
    BY <2>2
  <2> QED
    BY <2>1, <2>2, <2>3 DEF OnCompleted, Members
<1>5. CASE m \in Injections(known)
  <2>1. m.type = "injected" /\ Handle(r, p, m, at) = AddTask(p, m.task)
    BY <1>5 DEF Handle, Injections
  <2>2. m.task \in p.tasks \cup Collaborative
    BY <2>1 DEF Heeded
  <2>3. AddTask(p, m.task) = p
    <3>1. m.task \in p.tasks => p.tasks \cup {m.task} = p.tasks
      OBVIOUS
    <3> QED
      BY <2>2, <3>1 DEF AddTask, Members
  <2> QED
    BY <2>1, <2>3 DEF Members
<1>6. CASE m \in Gossips
  BY <1>6 DEF Gossips
<1> QED
  BY <1>1, <1>2, <1>3, <1>4, <1>5, <1>6 DEF Reports, Spoken


-----------------------------------------------------------------------------
(* Participants never go back *)

\* Of the same tasks, and no entry went down.
Rises(old, new) ==
  DOMAIN new = DOMAIN old /\ \A t \in DOMAIN old : AtMost(old[t], new[t])

\* What q bids or relays in its round, p did already, and prices only rose since.
StaysInRound(p, q) ==
  /\ q.agent # NoAgent =>
       /\ p.agent # NoAgent /\ q.agent.benefit = p.agent.benefit
       /\ Rises(p.agent.prices, q.agent.prices)
  /\ q.relay # NoRelay => p.relay # NoRelay /\ Rises(p.relay, q.relay)

\* From p to q nothing was unlearned, no round was taken back, and none that was
\* left was entered again.
Forward(p, q) ==
  /\ Later(p, q)
  /\ p.maxRoundSeen <= q.maxRoundSeen
  /\ q.announcement = p.announcement => StaysInRound(p, q)

\* Entries are ordered by price, then by bidder.
LEMMA EntriesOrder ==
  ASSUME NEW e \in Entries(Robot), NEW f \in Entries(Robot)
  PROVE  /\ AtMost(e, MaxEntry(e, f))
         /\ \A g \in Entries(Robot) : AtMost(e, f) /\ AtMost(f, g) => AtMost(e, g)
<1>0. \A x \in Robot \cup {NO_BIDDER} : x \in Int
  BY FleetAssumption DEF FleetAssumption, NO_BIDDER
<1>1. \A x \in Entries(Robot) : x.price \in Nat /\ x.bidder \in Int
  <2>1. \A x \in Entries(Robot) : x.price \in Nat /\ x.bidder \in Robot \cup {NO_BIDDER}
    BY DEF Entries
  <2> QED
    BY <1>0, <2>1
<1>2. e.price \in Nat /\ e.bidder \in Int /\ f.price \in Nat /\ f.bidder \in Int
  BY <1>1
<1>3. AtMost(e, MaxEntry(e, f))
  BY DEF AtMost, MaxEntry
<1>4. ASSUME NEW g \in Entries(Robot), AtMost(e, f), AtMost(f, g) PROVE AtMost(e, g)
  <2>1. g.price \in Nat /\ g.bidder \in Int
    BY <1>1
  <2> QED
    BY <1>2, <1>4, <2>1 DEF AtMost, Below
<1> QED
  BY <1>3, <1>4

LEMMA RisesTransitive ==
  ASSUME NEW a \in Tables, NEW b \in Tables, NEW c \in Tables, Rises(a, b), Rises(b, c)
  PROVE  Rises(a, c)
<1>1. DOMAIN b = DOMAIN a /\ DOMAIN c = DOMAIN a
  BY DEF Rises
<1>2. ASSUME NEW t \in DOMAIN a PROVE AtMost(a[t], c[t])
  <2>1. a[t] \in Entries(Robot) /\ b[t] \in Entries(Robot) /\ c[t] \in Entries(Robot)
    BY <1>1, TableFields
  <2>2. AtMost(a[t], b[t]) /\ AtMost(b[t], c[t])
    BY <1>1 DEF Rises
  <2> QED
    BY <2>1, <2>2, EntriesOrder
<1> QED
  BY <1>1, <1>2 DEF Rises

LEMMA MergeRises ==
  ASSUME NEW ours \in Tables, NEW incoming \in Tables
  PROVE  Rises(ours, Merge(ours, incoming))
<1>1. DOMAIN Merge(ours, incoming) = DOMAIN ours
  BY DEF Merge
<1>2. ASSUME NEW t \in DOMAIN ours PROVE AtMost(ours[t], Merge(ours, incoming)[t])
  <2>1. ours[t] \in Entries(Robot)
    BY TableFields
  <2>2. CASE t \in DOMAIN incoming
    <3>1. incoming[t] \in Entries(Robot)
      BY <2>2, TableFields
    <3>2. Merge(ours, incoming)[t] = MaxEntry(ours[t], incoming[t])
      BY <2>2 DEF Merge
    <3> QED
      BY <2>1, <3>1, <3>2, EntriesOrder
  <2>3. CASE t \notin DOMAIN incoming
    BY <2>3 DEF Merge, AtMost
  <2> QED
    BY <2>2, <2>3
<1> QED
  BY <1>1, <1>2 DEF Rises

\* A tick of an agent raises the price of the task it bids on, and no other.
LEMMA AfterTickRises ==
  ASSUME NEW r \in Robot, NEW ag \in Agents, NEW new \in AfterTick(r, ag)
  PROVE  Rises(ag.prices, new.prices)
<1>1. /\ ag.prices \in Tables /\ DOMAIN ag.prices = DOMAIN ag.benefit
      /\ \A t \in DOMAIN ag.prices : ag.prices[t].price \in Nat
  BY TableFields DEF Agents
<1>2. \A x \in Agents : Settle(x).prices = x.prices
  BY DEF Settle, Agents
<1>3. CASE Outbid(r, ag)
  <2>1. PICK bid \in Bids(ag) : new = Settle(PlaceBid(r, ag, bid))
    BY <1>3 DEF AfterTick
  <2>2. PICK b : Bids(ag) = {b} /\ BidAsserts(ag.prices, b.task, b.increment, r, Epsilon)
    BY OneBid DEF BidHolds
  <2>3. bid = b
    BY <2>2
  <2>4. /\ bid.task \in DOMAIN ag.prices
        /\ Below(ag.prices[bid.task], Raise(ag.prices, bid.task, bid.increment, r)[bid.task])
    BY <1>1, <2>2, <2>3, BidResult DEF BidAsserts
  <2>5. new.prices = Raise(ag.prices, bid.task, bid.increment, r)
    <3>1. PlaceBid(r, ag, bid).prices = Raise(ag.prices, bid.task, bid.increment, r)
      BY DEF PlaceBid, Agents
    <3>2. PlaceBid(r, ag, bid) \in Agents
      BY PlaceBidResult
    <3> QED
      BY <1>2, <2>1, <3>1, <3>2
  <2>6. \A t \in DOMAIN ag.prices \ {bid.task} : new.prices[t] = ag.prices[t]
    BY <2>5 DEF Raise
  <2>7. DOMAIN new.prices = DOMAIN ag.prices
    BY <2>5 DEF Raise
  <2> QED
    BY <2>4, <2>5, <2>6, <2>7 DEF Rises, AtMost
<1>4. CASE ~ Outbid(r, ag)
  BY <1>2, <1>4 DEF AfterTick, Rises, AtMost
<1> QED
  BY <1>3, <1>4

LEMMA StaysPut ==
  ASSUME NEW p, NEW q, q.agent = p.agent, q.relay = p.relay
  PROVE  StaysInRound(p, q)
BY DEF StaysInRound, Rises, AtMost

\* What the round of a participant is made of.
LEMMA RoundFields ==
  ASSUME NEW known, NEW done, NEW p \in Members(known, done)
  PROVE  /\ p.agent # NoAgent => p.agent \in Agents /\ p.agent.prices \in Tables
         /\ p.relay # NoRelay => p.relay \in Tables
         /\ p.maxRoundSeen \in Nat
BY DEF Members, Bidding, Agents

LEMMA ForwardTransitive ==
  ASSUME NEW known, NEW done, NEW p \in Members(known, done), NEW q \in Members(known, done),
         NEW x \in Members(known, done), Forward(p, q), Forward(q, x)
  PROVE  Forward(p, x)
<1>1. Later(p, x)
  BY LaterTransitive DEF Forward
<1>2. p.maxRoundSeen <= x.maxRoundSeen
  BY RoundFields DEF Forward
<1>3. ASSUME x.announcement = p.announcement
      PROVE  StaysInRound(p, x)
  <2>1. q.announcement = p.announcement
    <3>1. CASE p.announcement = NoRound
      BY <1>3, <3>1 DEF Forward, Later
    <3>2. CASE p.announcement # NoRound
      <4>1. /\ q.announcement # NoRound
            /\ q.announcement = p.announcement \/ Precedes(p.announcement, q.announcement)
            /\ p.announcement = q.announcement \/ Precedes(q.announcement, p.announcement)
        BY <1>3, <3>2 DEF Forward, Later
      <4>2. p.announcement \in Announcements /\ q.announcement \in Announcements
        BY <3>2, <4>1, NewsFields
      <4>3. ~ (Precedes(p.announcement, q.announcement)
                 /\ Precedes(q.announcement, p.announcement))
        BY <4>2, PrecedesOrder
      <4> QED
        BY <4>1, <4>3
    <3> QED
      BY <3>1, <3>2
  <2>2. StaysInRound(p, q) /\ StaysInRound(q, x)
    BY <1>3, <2>1 DEF Forward
  <2>3. ASSUME x.agent # NoAgent
        PROVE  /\ p.agent # NoAgent /\ x.agent.benefit = p.agent.benefit
               /\ Rises(p.agent.prices, x.agent.prices)
    <3>1. /\ p.agent # NoAgent /\ q.agent # NoAgent
          /\ q.agent.benefit = p.agent.benefit /\ x.agent.benefit = q.agent.benefit
          /\ Rises(p.agent.prices, q.agent.prices) /\ Rises(q.agent.prices, x.agent.prices)
      BY <2>2, <2>3 DEF StaysInRound
    <3>2. p.agent.prices \in Tables /\ q.agent.prices \in Tables /\ x.agent.prices \in Tables
      BY <2>3, <3>1, RoundFields
    <3> QED
      BY <3>1, <3>2, RisesTransitive
  <2>4. ASSUME x.relay # NoRelay
        PROVE  p.relay # NoRelay /\ Rises(p.relay, x.relay)
    <3>1. /\ p.relay # NoRelay /\ q.relay # NoRelay
          /\ Rises(p.relay, q.relay) /\ Rises(q.relay, x.relay)
      BY <2>2, <2>4 DEF StaysInRound
    <3>2. p.relay \in Tables /\ q.relay \in Tables /\ x.relay \in Tables
      BY <2>4, <3>1, RoundFields
    <3> QED
      BY <3>1, <3>2, RisesTransitive
  <2> QED
    BY <2>3, <2>4 DEF StaysInRound
<1> QED
  BY <1>1, <1>2, <1>3 DEF Forward

\* Nothing of a round but perhaps the agent's or the relay's tables.
LEMMA SameRoundForward ==
  ASSUME NEW known, NEW done, NEW p \in Members(known, done), NEW q,
         Later(p, q), q.maxRoundSeen = p.maxRoundSeen, StaysInRound(p, q)
  PROVE  Forward(p, q)
<1>1. p.maxRoundSeen <= p.maxRoundSeen
  BY RoundFields
<1> QED
  BY <1>1 DEF Forward

LEMMA SameIsForward ==
  ASSUME NEW known, NEW done, NEW p \in Members(known, done)
  PROVE  Forward(p, p)
<1>1. Later(p, p)
  BY SameIsLater DEF SameNews
<1> QED
  BY <1>1, StaysPut, SameRoundForward

\* An announcement that is adopted begins a round p was never in.
LEMMA AnnouncementForward ==
  ASSUME NEW known, NEW done, NEW r \in Robot, NEW p \in Members(known, done),
         NEW at \in Nat, NEW m \in Framed(known, done)
  PROVE  Forward(p, OnAnnouncement(r, p, m, at))
<1> DEFINE q == OnAnnouncement(r, p, m, at)
<1>1. m \in Announcements /\ m # NoRound /\ m.round \in Nat
  BY FleetAssumption DEF Framed, Announcements, FleetAssumption
<1>2. CASE p.announcement # NoRound /\ ~ Precedes(p.announcement, m)
  BY <1>2, SameIsForward DEF OnAnnouncement
<1>3. CASE p.announcement = NoRound \/ Precedes(p.announcement, m)
  <2>1. Later(p, q)
    BY AnnouncementHeeded DEF Heeds
  <2>2. /\ q.announcement = m
        /\ q.maxRoundSeen = IF m.round > p.maxRoundSeen THEN m.round ELSE p.maxRoundSeen
    BY <1>3 DEF OnAnnouncement, Adopt, Members
  <2> HIDE DEF q
  <2>3. p.maxRoundSeen <= q.maxRoundSeen
    BY <1>1, <2>2, RoundFields
  <2>4. q.announcement # p.announcement
    BY <1>1, <1>3, <2>2, PrecedesOrder
  <2> QED
    BY <2>1, <2>3, <2>4 DEF Forward, q
<1> QED
  BY <1>2, <1>3

LEMMA GossipForward ==
  ASSUME NEW known, NEW done, NEW r \in Robot, NEW p \in Members(known, done),
         NEW m \in Gossips
  PROVE  Forward(p, OnGossip(r, p, m))
<1> DEFINE q == OnGossip(r, p, m)
<1>1. m.inner \in Inners /\ m.inner.entries \in Tables
  BY DEF Gossips, Inners
<1>2. SameNews(p, q) /\ q.maxRoundSeen = p.maxRoundSeen
  BY DEF OnGossip, SameNews, Members
<1>3. Later(p, q)
  BY <1>2, SameIsLater
<1>4. CASE q = p
  BY <1>4, SameIsForward
<1>5. CASE p.agent # NoAgent /\ q = [p EXCEPT !.agent = HandleMessage(r, @, m.inner)]
  <2>1. p.agent \in Agents /\ p.agent.prices \in Tables
    BY <1>5, RoundFields
  <2> DEFINE new == HandleMessage(r, p.agent, m.inner)
  <2>2. new.benefit = p.agent.benefit
    BY <1>1, <2>1, HandleMessageResult
  <2>3. Rises(p.agent.prices, new.prices)
    <3>1. \/ new.prices = p.agent.prices
          \/ new.prices = Merge(p.agent.prices, m.inner.entries)
      BY <2>1 DEF HandleMessage, Agents
    <3>2. Rises(p.agent.prices, p.agent.prices)
      BY DEF Rises, AtMost
    <3> HIDE DEF new
    <3> QED
      BY <1>1, <2>1, <3>1, <3>2, MergeRises
  <2>4. q.agent = new /\ q.relay = NoRelay
    BY <1>5 DEF Members
  <2> HIDE DEF new, q
  <2>5. StaysInRound(p, q)
    BY <1>5, <2>2, <2>3, <2>4 DEF StaysInRound
  <2>6. Forward(p, q)
    BY <1>2, <1>3, <2>5, SameRoundForward
  <2> QED
    BY <2>6 DEF q
<1>6. CASE /\ p.agent = NoAgent /\ p.relay # NoRelay
           /\ q = [p EXCEPT !.relay = Merge(p.relay, m.inner.entries),
                            !.relayDirty = @ \/ Merge(p.relay, m.inner.entries) # p.relay]
  <2>1. p.relay \in Tables
    BY <1>6, RoundFields
  <2>2. q.agent = NoAgent /\ q.relay = Merge(p.relay, m.inner.entries)
    BY <1>6 DEF Members
  <2> HIDE DEF q
  <2>3. StaysInRound(p, q)
    BY <1>1, <1>6, <2>1, <2>2, MergeRises DEF StaysInRound
  <2>4. Forward(p, q)
    BY <1>2, <1>3, <2>3, SameRoundForward
  <2> QED
    BY <2>4 DEF q
<1> QED
  BY <1>4, <1>5, <1>6 DEF OnGossip

LEMMA HandleForward ==
  ASSUME NEW known, NEW done, HistoryOK(known, done), NEW r \in Robot,
         NEW p \in Members(known, done), NEW m \in Reports(known, done), NEW at \in Nat
  PROVE  Forward(p, Handle(r, p, m, at))
<1> DEFINE q == Handle(r, p, m, at)
<1>1. Later(p, q)
  BY HandleHeeds DEF Heeds
<1>2. CASE m \in Framed(known, done)
  <2>1. m.type = "announcement"
    BY <1>2 DEF Framed, Announcements
  <2> QED
    BY <1>2, <2>1, AnnouncementForward DEF Handle
<1>3. CASE m \in Gossips
  BY <1>3, GossipForward DEF Handle, Gossips
<1>4. CASE m \in Heartbeats \cup Renewals \cup TrueCompletions(done) \cup Injections(known)
  <2>1. m.type \in {"heartbeat", "renewal", "completed", "injected"}
    BY <1>4 DEF Heartbeats, Renewals, TrueCompletions, Injections
  <2>2. q \in {OnHeartbeat(r, p, m, at), OnLeaseRenewal(p, m, at), OnCompleted(p, m),
               AddTask(p, m.task)}
    BY <2>1 DEF Handle
  <2>3. q.agent = p.agent /\ q.relay = p.relay /\ q.maxRoundSeen = p.maxRoundSeen
    <3>1. \A f \in {OnHeartbeat(r, p, m, at), AddTask(p, m.task)} :
            f.agent = p.agent /\ f.relay = p.relay /\ f.maxRoundSeen = p.maxRoundSeen
      BY DEF OnHeartbeat, AddTask, Members
    <3>2. \A f \in {OnLeaseRenewal(p, m, at)} :
            f.agent = p.agent /\ f.relay = p.relay /\ f.maxRoundSeen = p.maxRoundSeen
      BY DEF OnLeaseRenewal, Members
    <3>3. \A f \in {OnCompleted(p, m)} :
            f.agent = p.agent /\ f.relay = p.relay /\ f.maxRoundSeen = p.maxRoundSeen
      BY DEF OnCompleted, Members
    <3> HIDE DEF q
    <3> QED
      BY <2>2, <3>1, <3>2, <3>3
  <2> HIDE DEF q
  <2>4. Forward(p, q)
    BY <1>1, <2>3, StaysPut, SameRoundForward
  <2> QED
    BY <2>4 DEF q
<1> QED
  BY <1>2, <1>3, <1>4 DEF Reports, Spoken

LEMMA TaskFinishedForward ==
  ASSUME NEW known, NEW done, NEW r \in Robot, NEW p \in Members(known, done),
         NEW t \in RealTask
  PROVE  Forward(p, TaskFinished(r, p, t))
<1> DEFINE q == TaskFinished(r, p, t)
<1>1. /\ q.tasks = p.tasks /\ q.lastSeen = p.lastSeen /\ q.idleFlags = p.idleFlags
      /\ q.announcement = p.announcement /\ q.agent = p.agent /\ q.relay = p.relay
      /\ q.maxRoundSeen = p.maxRoundSeen /\ q.completed = [p.completed EXCEPT ![t] = r]
  BY DEF TaskFinished, Members
<1> HIDE DEF q
<1>2. \A u \in RealTask : p.completed[u] # NoHolder => q.completed[u] # NoHolder
  <2>1. r # NoHolder
    BY FleetAssumption DEF FleetAssumption
  <2> QED
    BY <1>1, <2>1, NewsFields
<1>3. Later(p, p)
  BY SameIsLater DEF SameNews
<1>4. Later(p, q)
  BY <1>1, <1>2, <1>3 DEF Later
<1>5. Forward(p, q)
  BY <1>1, <1>4, StaysPut, SameRoundForward
<1> QED
  BY <1>5 DEF q

\* A tick, part by part.
LEMMA SweepForward ==
  ASSUME NEW known, NEW done, NEW r \in Robot, NEW p \in Members(known, done), NEW now \in Nat
  PROVE  /\ Forward(p, SweepLiveness(r, p, now))
         /\ Forward(p, StopLostWork(r, p))
<1> DEFINE q == SweepLiveness(r, p, now)
           k == StopLostWork(r, p)
<1>1. Later(p, p)
  BY SameIsLater DEF SameNews
<1>2. /\ q.tasks = p.tasks /\ q.completed = p.completed /\ q.idleFlags = p.idleFlags
      /\ q.announcement = p.announcement /\ q.agent = p.agent /\ q.relay = p.relay
      /\ q.maxRoundSeen = p.maxRoundSeen /\ q.lastSeen = Record(p.lastSeen, r, now)
  BY DEF SweepLiveness, Members
<1>3. SameNews(p, k) /\ k.agent = p.agent /\ k.relay = p.relay /\ k.maxRoundSeen = p.maxRoundSeen
  BY DEF StopLostWork, SameNews, Members
<1>4. Later(p, k)
  BY <1>3, SameIsLater
<1> HIDE DEF q, k
<1>5. \A s \in Robot : p.lastSeen[s] \in Nat => q.lastSeen[s] \in Nat /\ p.lastSeen[s] <= q.lastSeen[s]
  <2>1. \A s \in Robot :
          q.lastSeen[s] = IF s # r THEN p.lastSeen[s]
                          ELSE IF p.lastSeen[r] = Never THEN now
                          ELSE IF now > p.lastSeen[r] THEN now ELSE p.lastSeen[r]
    BY <1>2, NewsFields DEF Record
  <2>2. Never \notin Nat
    BY FleetAssumption DEF FleetAssumption
  <2> QED
    BY <2>1, <2>2
<1>6. Later(p, q)
  BY <1>1, <1>2, <1>5 DEF Later
<1>7. Forward(p, q)
  BY <1>2, <1>6, StaysPut, SameRoundForward
<1>8. Forward(p, k)
  BY <1>3, <1>4, StaysPut, SameRoundForward
<1> QED
  BY <1>7, <1>8 DEF q, k

LEMMA TickRoundForward ==
  ASSUME NEW known, NEW done, NEW r \in Robot, NEW p \in Members(known, done),
         NEW now \in Nat, NEW rd \in TickRound(r, p, now)
  PROVE  Forward(p, rd.p)
<1> DEFINE Kept(q) == /\ SameNews(p, q)
                      /\ q.maxRoundSeen = p.maxRoundSeen /\ q.relay = p.relay
<1>0. /\ Kept(rd.p)
      /\ \/ rd.p.agent = p.agent \/ rd.p.agent = NoAgent
         \/ p.agent # NoAgent /\ rd.p.agent \in AfterTick(r, p.agent)
  <2>1. CASE p.agent # NoAgent
    <3>1. PICK ag \in AfterTick(r, p.agent) :
            LET won == ag.assignment
                gossip == {GossipMsg(p.announcement.round, m) : m \in Broadcasts(r, ag)}
            IN  rd = IF ~ Terminated(ag)
                     THEN [p |-> [p EXCEPT !.agent = ag],
                           out |-> SetToSeq(gossip), dispatched |-> {}]
                     ELSE IF ~ Dispatches(p, won)
                     THEN [p |-> [p EXCEPT !.agent = NoAgent],
                           out |-> SetToSeq(gossip), dispatched |-> {}]
                     ELSE [p |-> [p EXCEPT !.agent = NoAgent,
                                           !.leases = Grant(@, won, r, now),
                                           !.executing = won],
                           out |-> Append(SetToSeq(gossip), RenewalMsg(won, r)),
                           dispatched |-> {won}]
      BY <2>1 DEF TickRound
    <3> DEFINE q == [p EXCEPT !.agent = NoAgent,
                              !.leases = Grant(@, ag.assignment, r, now),
                              !.executing = ag.assignment]
    <3>2. rd.p = [p EXCEPT !.agent = ag] \/ rd.p = [p EXCEPT !.agent = NoAgent] \/ rd.p = q
      BY <3>1
    <3>3. Kept([p EXCEPT !.agent = ag]) /\ [p EXCEPT !.agent = ag].agent = ag
      BY DEF SameNews, Members
    <3>4. Kept([p EXCEPT !.agent = NoAgent]) /\ [p EXCEPT !.agent = NoAgent].agent = NoAgent
      BY DEF SameNews, Members
    <3>5. Kept(q) /\ q.agent = NoAgent
      BY DEF SameNews, Members
    <3> HIDE DEF Kept, q
    <3>6. CASE rd.p = [p EXCEPT !.agent = ag]
      BY <2>1, <3>3, <3>6
    <3>7. CASE rd.p = [p EXCEPT !.agent = NoAgent]
      BY <3>4, <3>7
    <3>8. CASE rd.p = q
      BY <3>5, <3>8
    <3> QED
      BY <3>2, <3>6, <3>7, <3>8
  <2>2. CASE p.agent = NoAgent
    <3> DEFINE q == [p EXCEPT !.relayDirty = FALSE]
    <3>1. CASE p.relay # NoRelay /\ p.relayDirty
      <4>1. rd = [p |-> q, out |-> <<GossipMsg(p.announcement.round,
                                             [sender |-> r, entries |-> p.relay])>>,
                  dispatched |-> {}]
        BY <2>2, <3>1 DEF TickRound
      <4>2. Kept(q) /\ q.agent = p.agent
        BY DEF SameNews, Members
      <4> HIDE DEF q, Kept
      <4>3. rd.p = q
        BY <4>1
      <4> QED
        BY <4>2, <4>3
    <3>2. CASE ~ (p.relay # NoRelay /\ p.relayDirty)
      <4>1. rd = [p |-> p, out |-> <<>>, dispatched |-> {}]
        BY <2>2, <3>2 DEF TickRound
      <4>2. rd.p = p
        BY <4>1
      <4> QED
        BY <4>2 DEF SameNews
    <3> QED
      BY <3>1, <3>2
  <2> QED
    BY <2>1, <2>2
<1>1. SameNews(p, rd.p) /\ rd.p.maxRoundSeen = p.maxRoundSeen /\ rd.p.relay = p.relay
  BY <1>0
<1>2. Later(p, rd.p)
  BY <1>1, SameIsLater
<1>3. \/ rd.p.agent = p.agent \/ rd.p.agent = NoAgent
      \/ p.agent # NoAgent /\ rd.p.agent \in AfterTick(r, p.agent)
  BY <1>0
<1>4. StaysInRound(p, rd.p)
  <2>1. ASSUME rd.p.agent # NoAgent
        PROVE  /\ p.agent # NoAgent /\ rd.p.agent.benefit = p.agent.benefit
               /\ Rises(p.agent.prices, rd.p.agent.prices)
    <3>1. CASE rd.p.agent = p.agent
      BY <2>1, <3>1 DEF Rises, AtMost
    <3>2. CASE p.agent # NoAgent /\ rd.p.agent \in AfterTick(r, p.agent)
      <4>1. p.agent \in Agents
        BY <3>2, RoundFields
      <4> QED
        BY <3>2, <4>1, AfterTickResult, AfterTickRises
    <3> QED
      BY <1>3, <2>1, <3>1, <3>2
  <2>2. Rises(p.relay, p.relay)
    BY DEF Rises, AtMost
  <2> QED
    BY <1>1, <2>1, <2>2 DEF StaysInRound
<1> QED
  BY <1>1, <1>2, <1>4, SameRoundForward

LEMMA TickHeartbeatForward ==
  ASSUME NEW known, NEW done, NEW r \in Robot, NEW p \in Members(known, done), NEW now \in Nat
  PROVE  Forward(p, TickHeartbeat(r, p, now).p)
<1> DEFINE q == TickHeartbeat(r, p, now).p
<1>1. SameNews(p, q) /\ q.agent = p.agent /\ q.relay = p.relay /\ q.maxRoundSeen = p.maxRoundSeen
  BY DEF TickHeartbeat, SameNews, Members
<1> HIDE DEF q
<1>2. Later(p, q)
  BY <1>1, SameIsLater
<1>3. Forward(p, q)
  BY <1>1, <1>2, StaysPut, SameRoundForward
<1> QED
  BY <1>3 DEF q

LEMMA TickCoordinatorForward ==
  ASSUME NEW known, NEW done, HistoryOK(known, done), NEW r \in Robot,
         NEW p \in Members(known, done), NEW now \in Nat
  PROVE  Forward(p, TickCoordinator(r, p, now).p)
<1>1. CASE TickCoordinator(r, p, now).p = p
  BY <1>1, SameIsForward
<1>2. ASSUME NEW m \in Framed(known, done),
             TickCoordinator(r, p, now).p = OnAnnouncement(r, p, m, now)
      PROVE  Forward(p, TickCoordinator(r, p, now).p)
  BY <1>2, AnnouncementForward
<1> QED
  BY <1>1, <1>2, TickCoordinatorResult DEF FramesAtMost

LEMMA TickForward ==
  ASSUME NEW known, NEW done, HistoryOK(known, done), NEW r \in Robot,
         NEW p \in Members(known, done), NEW now \in Nat, NEW step \in Tick(r, p, now)
  PROVE  Forward(p, step.p)
<1> DEFINE swept == SweepLiveness(r, p, now)
           kept == StopLostWork(r, swept)
<1>1. swept \in Members(known, done) /\ Forward(p, swept)
  BY SweepResult, SweepForward DEF Handled
<1>2. kept \in Members(known, done) /\ Forward(swept, kept)
  <2> HIDE DEF swept
  <2> QED
    BY <1>1, SweepResult, SweepForward
<1>3. PICK rd \in TickRound(r, kept, now) :
        step.p = TickCoordinator(r, TickHeartbeat(r, rd.p, now).p, now).p
  <2> DEFINE hb(x) == TickHeartbeat(r, x.p, now)
             co(x) == TickCoordinator(r, hb(x).p, now)
  <2>1. PICK rd \in TickRound(r, kept, now) :
          step = [p |-> co(rd).p, out |-> rd.out \o hb(rd).out \o co(rd).out,
                  aborted |-> IF LostLease(r, swept) THEN {swept.executing} ELSE {},
                  dispatched |-> rd.dispatched, raised |-> DagRaises(r, hb(rd).p, now)]
    BY DEF Tick
  <2> HIDE DEF swept, kept
  <2> QED
    BY <2>1
<1> HIDE DEF swept, kept
<1>4. rd.p \in Members(known, done) /\ Forward(kept, rd.p)
  BY <1>2, TickRoundResult, TickRoundForward
<1> DEFINE hb == TickHeartbeat(r, rd.p, now).p
           co == TickCoordinator(r, hb, now).p
<1>5. hb \in Members(known, done) /\ Forward(rd.p, hb)
  BY <1>4, TickHeartbeatResult, TickHeartbeatForward DEF Handled
<1> HIDE DEF hb
<1>6. co \in Members(known, done) /\ Forward(hb, co)
  BY <1>5, TickCoordinatorResult, TickCoordinatorForward DEF Handled
<1> HIDE DEF co
<1>7. Forward(p, kept)
  BY <1>1, <1>2, ForwardTransitive
<1>8. Forward(p, rd.p)
  BY <1>2, <1>4, <1>7, ForwardTransitive
<1>9. Forward(p, hb)
  BY <1>4, <1>5, <1>8, ForwardTransitive
<1>10. Forward(p, co)
  BY <1>5, <1>6, <1>9, ForwardTransitive
<1> QED
  BY <1>3, <1>10 DEF co, hb

=============================================================================

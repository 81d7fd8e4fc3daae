---------------------------- MODULE RetainProofs ----------------------------
(* That no check, discard or purge of the retained store hides or removes  *)
(* a message it was not about, for every number of brokers, topics and     *)
(* publications.                                                           *)
EXTENDS Retain, TLAPS

\* The stream holds at most the newest message of a topic.
Newest ==
    \A n \in alive : \A m \in 1..Last : log[m].topic = log[n].topic => m <= n

\* What a task knows of its entry stays true: a sequence that left the stream
\* does not come back.
Knows(k) ==
    /\ k.op \in {"expired", "delete"} => log[k.entry.seq].kind = "timed"
    /\ k.op = "purge" => log[k.entry.seq].kind = "clear"
    /\ k.op \in {"purged", "checked"} => k.entry.seq \notin alive
    /\ k.res # 0 => log[k.res].topic = k.topic
Informed == \A k \in tasks : Knows(k)

\* The consumer is sent what the stream holds in order and without gaps.
Ordered(b, k) ==
    /\ pos[b] < k.seq /\ \A j \in wire[b] : j.seq = k.seq => j = k
    /\ \A n \in alive : pos[b] < n /\ n < k.seq => \E j \in wire[b] : j.seq = n
    /\ k.last => ready[b] \/ \A n \in alive : n <= start[b] => n <= k.seq
InOrder == \A b \in Brokers : \A k \in wire[b] : Ordered(b, k)

RInv == TypeOK /\ Newest /\ Informed /\ InOrder
           /\ FedIsShown /\ OnlyReplacedLeaves /\ ReadyIsComplete

\* What a publication does to the log.
LEMMA Appended ==
  ASSUME TypeOK, NEW b, NEW plan \in Plans, Publish(b, plan)
  PROVE  /\ Last \in Nat /\ Last' = Last + 1 /\ log' \in Seq(Publications)
         /\ plan[Last + 1] \in Publications
         /\ log'[Last + 1] = plan[Last + 1]
         /\ \A n \in 1..Last : log'[n] = log[n]
<1>1. plan \in Seq(Publications) /\ Last \in Nat /\ Last + 1 \in 1..Len(plan)
  BY RetainAssumption, SMT DEF TypeOK, Publish, Last
<1>2. plan[Last + 1] \in Publications
  BY <1>1
<1>3. QED
  BY <1>1, <1>2, SMT DEF TypeOK, Publish, Last

\* The initial states.
LEMMA InitInv == Init => RInv
<1> SUFFICES ASSUME Init PROVE RInv
  OBVIOUS
<1>1. Last = 0
  BY DEF Init, Last
<1>2. TypeOK
  BY <1>1, SMT DEF Init, TypeOK
<1>3. Newest /\ Informed /\ FedIsShown /\ ReadyIsComplete
  BY SMT DEF Init, Newest, Informed, FedIsShown, ReadyIsComplete
<1>4. InOrder /\ OnlyReplacedLeaves
  BY <1>1, SMT DEF Init, InOrder, OnlyReplacedLeaves
<1>5. QED
  BY <1>2, <1>3, <1>4 DEF RInv

\* The step lemmas' case split: what is proved of every action is proved of Next.
LEMMA NextCases ==
  ASSUME [Next]_vars
  PROVE  \/ \E b \in Brokers, plan \in Plans : Publish(b, plan)
         \/ \E b \in Brokers, t \in Topics : FindExpired(b, t) \/ Purge(b, t)
         \/ \E b \in Brokers : \/ LocalUpdate(b) \/ Send(b) \/ Apply(b) \/ Discard(b)
                               \/ DiscardDelete(b) \/ PurgeDelete(b) \/ PurgeLocal(b)
                               \/ Reconcile(b) \/ Lookup(b) \/ LookupUnknown(b)
                               \/ Mend(b) \/ Outage(b) \/ Reconnect(b) \/ Restart(b)
         \/ UNCHANGED vars
  BY DEF Next, Background

\* An entry of a view that is not None can become a task.
LEMMA TaskTyped ==
  ASSUME TypeOK, NEW b \in Brokers, NEW t \in Topics, view[b][t] # None, NEW op \in Ops
  PROVE  Task(b, t, op) \in TaskSet
<1>1. view[b][t] \in Made
  BY DEF TypeOK
<1>2. 0 \in 0..Last
  BY SMT DEF TypeOK, Last
<1>3. QED
  BY <1>1, <1>2, SMT DEF Task, TaskSet

\* The two shapes in which a step changes a view or a task.
LEMMA ViewUpdated ==
  ASSUME NEW E, NEW v \in [Brokers -> [Topics -> E]], NEW b \in Brokers, NEW t \in Topics,
         NEW e \in E
  PROVE  [v EXCEPT ![b][t] = e] \in [Brokers -> [Topics -> E]]
  BY SMT

\* A step that changes one broker's task.
LEMMA TaskUpdated ==
  ASSUME NEW k \in TaskSet, NEW op \in Ops, NEW r \in 0..Last
  PROVE  then(k, op, r) \in TaskSet
  BY SMT DEF TaskSet, then

\* Every publication in the log is on a topic.
LEMMA OnTopic ==
  ASSUME TypeOK, NEW n \in 1..Last
  PROVE  log[n].topic \in Topics /\ log[n].kind \in Kinds
<1>1. log \in Seq(Publications)
  BY DEF TypeOK
<1>2. log[n] \in Publications
  BY <1>1, SMT DEF Last
<1>3. QED
  BY <1>2, SMT DEF Publications

\* A lookup ends its task, or gives it the topic's message or 0.
LEMMA LookedUp ==
  ASSUME NEW b, Lookup(b)
  PROVE  \E k \in tasks : \E found :
            /\ found \subseteq alive \cup {0}
            /\ \A m \in found : m # 0 => log[m].topic = k.topic
            /\ found # {} => k.entry.seq \notin alive
            /\ tasks' = (tasks \ {k}) \cup {then(k, "checked", m) : m \in found}
<1>1. PICK k \in tasks :
        LET latest == IF isMsg(k.entry.seq) THEN {m \in On(k.topic) : isMsg(m)} ELSE {}
            checked == IF latest = {} THEN {0} ELSE latest
        IN  becomes(k, IF k.entry.seq \notin alive
                       THEN {then(k, "checked", m) : m \in checked} ELSE {})
  BY DEF Lookup
<1> DEFINE latest == IF isMsg(k.entry.seq) THEN {m \in On(k.topic) : isMsg(m)} ELSE {}
           found == IF k.entry.seq \in alive THEN {} ELSE IF latest = {} THEN {0} ELSE latest
<1>2. latest \subseteq On(k.topic)
  OBVIOUS
<1>3. found \subseteq alive \cup {0} /\ \A m \in found : m # 0 => log[m].topic = k.topic
  BY <1>2 DEF On
<1>4. tasks' = (tasks \ {k}) \cup {then(k, "checked", m) : m \in found}
  <2>1. CASE k.entry.seq \in alive
    BY <1>1, <2>1 DEF becomes
  <2>2. CASE k.entry.seq \notin alive
    BY <1>1, <2>2 DEF becomes
  <2>3. QED
    BY <2>1, <2>2
<1>5. found # {} => k.entry.seq \notin alive
  OBVIOUS
<1>6. QED
  <2> HIDE DEF found
  <2> QED
    BY <1>3, <1>4, <1>5

\* Every step keeps the types.
LEMMA TypeStep == TypeOK /\ [Next]_vars => TypeOK'
<1> SUFFICES ASSUME TypeOK, [Next]_vars PROVE TypeOK'
  OBVIOUS
<1>0. Last \in Nat
  BY SMT DEF TypeOK, Last
<1>b. 0 \in 0..Last
  BY <1>0, SMT
<1>a. log' = log => Last' = Last /\ Made' = Made /\ TaskSet' = TaskSet
  BY DEF Last, Made, TaskSet
<1>1. ASSUME NEW b \in Brokers, NEW plan \in Plans, Publish(b, plan)
      PROVE  TypeOK'
  <2>1. Last' = Last + 1 /\ log' \in Seq(Publications)
    BY <1>1, Appended
  <2>2. alive' \subseteq 1..Last'
    <3>1. alive' \subseteq alive \cup {Last + 1} /\ alive \subseteq 1..Last
      BY <1>1, Zenon DEF Publish, TypeOK
    <3>2. QED
      BY <1>0, <2>1, <3>1, SMT
  <2>3. storing' \in [Brokers -> SUBSET (1..Last')]
    <3>1. storing' = storing \/ storing' = [storing EXCEPT ![b] = @ \cup {Last + 1}]
      BY <1>1 DEF Publish
    <3>2. storing \in [Brokers -> SUBSET (1..Last')] /\ Last + 1 \in 1..Last'
      BY <1>0, <2>1, SMT DEF TypeOK
    <3>3. QED
      BY <3>1, <3>2, SMT
  <2>4. Made \subseteq Made' /\ 0..Last \subseteq 0..Last'
    BY <1>0, <2>1, SMT DEF Made
  <2>5. TaskSet \subseteq TaskSet'
    BY <2>4, SMT DEF TaskSet
  <2>6. /\ view' \in [Brokers -> [Topics -> {None} \cup Made']]
        /\ tasks' \subseteq TaskSet'
    BY <1>1, <2>4, <2>5, SMT DEF Publish, TypeOK
  <2>7. wire' \in [Brokers -> SUBSET [seq : 1..Last', last : BOOLEAN]]
    BY <1>0, <1>1, <2>1, SMT DEF Publish, TypeOK
  <2>8. pos' \in [Brokers -> 0..Last'] /\ start' \in [Brokers -> 0..Last']
    BY <1>1, <2>4, SMT DEF Publish, TypeOK
  <2>9. QED
    BY <1>1, <2>1, <2>2, <2>3, <2>6, <2>7, <2>8, Zenon DEF Publish, TypeOK
<1>2. ASSUME NEW b \in Brokers, NEW t \in Topics, FindExpired(b, t) \/ Purge(b, t)
      PROVE  TypeOK'
  <2>1. view[b][t] # None
    BY <1>2 DEF FindExpired, Purge, Held, isMsg, None
  <2>2. Task(b, t, "expired") \in TaskSet /\ Task(b, t, "purge") \in TaskSet
    BY <2>1, TaskTyped DEF Ops
  <2>3. tasks' \subseteq TaskSet
    BY <1>2, <2>2, Zenon DEF FindExpired, Purge, starts, TypeOK
  <2>4. QED
    BY <1>a, <1>2, <2>3, Zenon DEF FindExpired, Purge, TypeOK
<1>3. ASSUME NEW b \in Brokers, LocalUpdate(b)
      PROVE  TypeOK'
  <2>1. PICK n \in storing[b] :
          /\ storing' = [storing EXCEPT ![b] = @ \ {n}]
          /\ view' = [view EXCEPT ![b][log[n].topic] = [seq |-> n, by |-> "own"]]
          /\ crossed' \in {crossed, crossed \cup {<<b, log[n].topic>>}}
          /\ UNCHANGED <<log, alive, wire, pos, ready, online, verify, tasks, start>>
    BY <1>3, Zenon DEF LocalUpdate
  <2>2. n \in 1..Last /\ log[n].topic \in Topics
    <3>1. n \in 1..Last
      BY Zenon DEF TypeOK
    <3>2. QED
      BY <3>1, OnTopic
  <2>3. [seq |-> n, by |-> "own"] \in Made
    BY <2>2, SMT DEF Made, Makers
  <2>4. view' \in [Brokers -> [Topics -> {None} \cup Made]]
    BY <2>1, <2>2, <2>3, ViewUpdated, Zenon DEF TypeOK
  <2>7. storing' \in [Brokers -> SUBSET (1..Last)]
    BY <2>1, Zenon DEF TypeOK
  <2>5. crossed' \subseteq Brokers \X Topics
    BY <2>1, <2>2, SMT DEF TypeOK
  <2>6. QED
    BY <1>a, <2>1, <2>4, <2>5, <2>7, Zenon DEF TypeOK
<1>4. ASSUME NEW b \in Brokers, Send(b)
      PROVE  TypeOK'
  <2>1. wire' \in [Brokers -> SUBSET [seq : 1..Last, last : BOOLEAN]]
    BY <1>4, SMT DEF Send, Unsent, TypeOK
  <2>2. QED
    BY <1>a, <1>4, <2>1, Zenon DEF Send, TypeOK
<1>5. ASSUME NEW b \in Brokers, Apply(b)
      PROVE  TypeOK'
  <2>1. PICK k \in wire[b] :
          /\ wire' = [wire EXCEPT ![b] = @ \ {k}]
          /\ pos' = [pos EXCEPT ![b] = k.seq]
          /\ view' = [view EXCEPT ![b][log[k.seq].topic] = [seq |-> k.seq, by |-> "fed"]]
          /\ ready' = [ready EXCEPT ![b] = @ \/ caughtUp(k)]
          /\ crossed' = crossed \ {<<b, log[k.seq].topic>>}
          /\ UNCHANGED <<log, alive, storing, online, verify, tasks, start>>
    BY <1>5, Zenon DEF Apply
  <2>2. k.seq \in 1..Last /\ log[k.seq].topic \in Topics /\ caughtUp(k) \in BOOLEAN
    <3>1. k \in [seq : 1..Last, last : BOOLEAN]
      BY Zenon DEF TypeOK
    <3>2. k.seq \in 1..Last /\ k.last \in BOOLEAN
      BY <3>1
    <3>3. QED
      BY <3>2, OnTopic DEF caughtUp
  <2>3. [seq |-> k.seq, by |-> "fed"] \in Made /\ k.seq \in 0..Last
    BY <1>0, <2>2, SMT DEF Made, Makers
  <2>4. view' \in [Brokers -> [Topics -> {None} \cup Made]]
    BY <2>1, <2>2, <2>3, ViewUpdated, Zenon DEF TypeOK
  <2>8. wire' \in [Brokers -> SUBSET [seq : 1..Last, last : BOOLEAN]]
    BY <2>1, Zenon DEF TypeOK
  <2>5. pos' \in [Brokers -> 0..Last]
    BY <2>1, <2>3, SMT DEF TypeOK
  <2>6. ready' \in [Brokers -> BOOLEAN]
    BY <2>1, <2>2, Zenon DEF TypeOK
  <2>7. QED
    BY <1>a, <2>1, <2>4, <2>5, <2>6, <2>8, Zenon DEF TypeOK
<1>6. ASSUME NEW b \in Brokers, Discard(b) \/ PurgeLocal(b)
      PROVE  TypeOK'
  <2>1. PICK k \in tasks : /\ dropIfSame(b, k)
                           /\ becomes(k, {}) \/ becomes(k, {then(k, "delete", 0)})
    BY <1>6 DEF Discard, PurgeLocal
  <2>2. k \in TaskSet /\ k.topic \in Topics
    BY DEF TypeOK, TaskSet
  <2>3. view' \in [Brokers -> [Topics -> {None} \cup Made]]
    BY <2>1, <2>2, ViewUpdated, Zenon DEF dropIfSame, TypeOK
  <2>6. then(k, "delete", 0) \in TaskSet
    BY <1>b, <2>2, TaskUpdated DEF Ops
  <2>4. tasks' \subseteq TaskSet
    BY <2>1, <2>6, Zenon DEF becomes, TypeOK
  <2>5. QED
    BY <1>a, <1>6, <2>3, <2>4, Zenon DEF Discard, PurgeLocal, TypeOK
<1>7. ASSUME NEW b \in Brokers, DiscardDelete(b) \/ PurgeDelete(b)
      PROVE  TypeOK'
  <2>1. alive' \subseteq alive
    BY <1>7, Zenon DEF DiscardDelete, PurgeDelete
  <2>2. PICK k \in tasks : becomes(k, {}) \/ becomes(k, {then(k, "purged", 0)})
    BY <1>7 DEF DiscardDelete, PurgeDelete
  <2>5. then(k, "purged", 0) \in TaskSet
    BY <1>b, TaskUpdated DEF Ops, TypeOK
  <2>3. tasks' \subseteq TaskSet
    BY <2>2, <2>5, Zenon DEF becomes, TypeOK
  <2>4. QED
    BY <1>a, <1>7, <2>1, <2>3, Zenon DEF DiscardDelete, PurgeDelete, TypeOK
<1>8. ASSUME NEW b \in Brokers, Reconcile(b)
      PROVE  TypeOK'
  <2>1. \A t \in {u \in Topics : view[b][u] # None} : Task(b, t, "check") \in TaskSet
    BY TaskTyped DEF Ops
  <2>2. tasks' \subseteq TaskSet
    BY <1>8, <2>1, Zenon DEF Reconcile, starts, TypeOK
  <2>3. verify' \in [Brokers -> BOOLEAN]
    BY <1>8, SMT DEF Reconcile, TypeOK
  <2>4. QED
    BY <1>a, <1>8, <2>2, <2>3, Zenon DEF Reconcile, TypeOK
<1>9. ASSUME NEW b \in Brokers, Lookup(b) \/ LookupUnknown(b)
      PROVE  TypeOK'
  <2>1. CASE LookupUnknown(b)
    BY <1>a, <2>1, Zenon DEF LookupUnknown, becomes, TypeOK
  <2>2. CASE Lookup(b)
    <3>1. PICK k \in tasks : \E found :
            /\ found \subseteq alive \cup {0}
            /\ tasks' = (tasks \ {k}) \cup {then(k, "checked", m) : m \in found}
      BY <2>2, LookedUp
    <3>2. PICK found :
            /\ found \subseteq alive \cup {0}
            /\ tasks' = (tasks \ {k}) \cup {then(k, "checked", m) : m \in found}
      BY <3>1
    <3>3. \A m \in found : m \in 0..Last
      <4>1. alive \subseteq 1..Last /\ found \subseteq alive \cup {0}
        BY <3>2, Zenon DEF TypeOK
      <4>2. QED
        BY <1>0, <4>1, SMT
    <3>4. \A m \in found : then(k, "checked", m) \in TaskSet
      BY <3>3, TaskUpdated DEF Ops, TypeOK
    <3>5. tasks' \subseteq TaskSet
      BY <3>2, <3>4, Zenon DEF TypeOK
    <3>6. QED
      BY <1>a, <2>2, <3>5, Zenon DEF Lookup, TypeOK
  <2>3. QED
    BY <1>9, <2>1, <2>2
<1>10. ASSUME NEW b \in Brokers, Mend(b)
       PROVE  TypeOK'
  <2>1. PICK k \in tasks :
          /\ becomes(k, {})
          /\ \/ view' = view
             \/ k.res = 0 /\ view' = [view EXCEPT ![b][k.topic] = None]
             \/ k.res # 0 /\ view' = [view EXCEPT ![b][k.topic] = [seq |-> k.res, by |-> "read"]]
          /\ crossed' \subseteq crossed
          /\ UNCHANGED <<log, alive, storing, wire, pos, ready, online, verify, start>>
    BY <1>10, Zenon DEF Mend
  <2>5. k \in TaskSet
    BY DEF TypeOK
  <2>6. k.topic \in Topics /\ k.res \in 0..Last
    BY <2>5, Zenon DEF TaskSet
  <2>2. k.topic \in Topics /\ (k.res # 0 => [seq |-> k.res, by |-> "read"] \in Made)
    BY <1>0, <2>6, SMT DEF Made, Makers
  <2>3. view' \in [Brokers -> [Topics -> {None} \cup Made]]
    <3>1. view \in [Brokers -> [Topics -> {None} \cup Made]]
      BY DEF TypeOK
    <3>2. [view EXCEPT ![b][k.topic] = None] \in [Brokers -> [Topics -> {None} \cup Made]]
      BY <2>2, <3>1, ViewUpdated, Zenon
    <3>3. k.res # 0 => [view EXCEPT ![b][k.topic] = [seq |-> k.res, by |-> "read"]]
                          \in [Brokers -> [Topics -> {None} \cup Made]]
      BY <2>2, <3>1, ViewUpdated, Zenon
    <3>4. QED
      BY <2>1, <3>1, <3>2, <3>3, Zenon
  <2>4. QED
    BY <1>a, <2>1, <2>3, Zenon DEF becomes, TypeOK
<1>11. ASSUME NEW b \in Brokers, Outage(b) \/ Reconnect(b)
       PROVE  TypeOK'
  <2>1. /\ wire' \in {wire, [wire EXCEPT ![b] = {}]}
        /\ online' \in {[online EXCEPT ![b] = FALSE], [online EXCEPT ![b] = TRUE]}
        /\ verify' \in {verify, [verify EXCEPT ![b] = TRUE]}
    BY <1>11, Zenon DEF Outage, Reconnect
  <2>2. wire' \in [Brokers -> SUBSET [seq : 1..Last, last : BOOLEAN]]
    <3>1. wire \in [Brokers -> SUBSET [seq : 1..Last, last : BOOLEAN]]
      BY DEF TypeOK
    <3>2. QED
      BY <2>1, <3>1, Zenon
  <2>3. online' \in [Brokers -> BOOLEAN] /\ verify' \in [Brokers -> BOOLEAN]
    <3>1. online \in [Brokers -> BOOLEAN] /\ verify \in [Brokers -> BOOLEAN]
      BY DEF TypeOK
    <3>2. QED
      BY <2>1, <3>1, Zenon
  <2>4. QED
    BY <1>11, <1>a, <2>2, <2>3, Zenon DEF Outage, Reconnect, TypeOK
<1>12. ASSUME NEW b \in Brokers, Restart(b)
       PROVE  TypeOK'
  <2>1. /\ view' \in [Brokers -> [Topics -> {None} \cup Made]]
        /\ storing' \in [Brokers -> SUBSET (1..Last)]
        /\ wire' \in [Brokers -> SUBSET [seq : 1..Last, last : BOOLEAN]]
    BY <1>12, SMT DEF Restart, TypeOK
  <2>2. pos' \in [Brokers -> 0..Last] /\ start' \in [Brokers -> 0..Last]
    BY <1>0, <1>12, SMT DEF Restart, TypeOK
  <2>3. ready' \in [Brokers -> BOOLEAN] /\ verify' \in [Brokers -> BOOLEAN]
    BY <1>12, Zenon DEF Restart, TypeOK
  <2>4. QED
    BY <1>a, <1>12, <2>1, <2>2, <2>3, Zenon DEF Restart, TypeOK
<1>13. CASE UNCHANGED vars
  BY <1>13, <1>a, Zenon DEF vars, TypeOK
<1>14. QED
  BY NextCases, <1>1, <1>2, <1>3, <1>4, <1>5, <1>6, <1>7, <1>8, <1>9, <1>10, <1>11, <1>12,
     <1>13

-----------------------------------------------------------------------------
(* The facts of TypeOK that the step lemmas use. *)
LEMMA Ranges ==
  ASSUME TypeOK
  PROVE  /\ Last \in Nat
         /\ \A n \in alive : n \in 1..Last
         /\ \A b \in Brokers : pos[b] \in 0..Last /\ start[b] \in 0..Last
         /\ \A b \in Brokers : \A k \in wire[b] : k.seq \in 1..Last
         /\ \A k \in tasks : k.entry.seq \in 1..Last /\ k.topic \in Topics /\ k.res \in 0..Last
<1>1. Last \in Nat
  BY SMT DEF TypeOK, Last
<1>2. \A n \in alive : n \in 1..Last
  BY DEF TypeOK
<1>3. \A b \in Brokers : pos[b] \in 0..Last /\ start[b] \in 0..Last
  BY DEF TypeOK
<1>4. \A b \in Brokers : \A k \in wire[b] : k.seq \in 1..Last
  <2>1. \A b \in Brokers : wire[b] \subseteq [seq : 1..Last, last : BOOLEAN]
    BY Zenon DEF TypeOK
  <2>2. QED
    BY <2>1, Zenon
<1>5. \A k \in tasks : k.entry.seq \in 1..Last /\ k.topic \in Topics /\ k.res \in 0..Last
  BY Zenon DEF TypeOK, TaskSet, Made
<1>6. QED
  BY <1>1, <1>2, <1>3, <1>4, <1>5

\* Only a publication adds to the stream, and only a deletion takes from it otherwise.
LEMMA StreamSteps ==
  ASSUME [Next]_vars
  PROVE  \/ \E b \in Brokers, plan \in Plans : Publish(b, plan)
         \/ \E b \in Brokers : DiscardDelete(b) \/ PurgeDelete(b)
         \/ log' = log /\ alive' = alive
<1>1. ASSUME NEW b \in Brokers, NEW t \in Topics, FindExpired(b, t) \/ Purge(b, t)
      PROVE  log' = log /\ alive' = alive
  BY <1>1 DEF FindExpired, Purge
<1>2. ASSUME NEW b \in Brokers, \/ LocalUpdate(b) \/ Send(b) \/ Apply(b) \/ Discard(b) \/ PurgeLocal(b)
                               \/ Reconcile(b) \/ Lookup(b) \/ LookupUnknown(b) \/ Mend(b)
                               \/ Outage(b) \/ Reconnect(b) \/ Restart(b)
      PROVE  log' = log /\ alive' = alive
  BY <1>2, Zenon DEF LocalUpdate, Send, Apply, Discard, PurgeLocal, Reconcile, Lookup,
                     LookupUnknown, Mend, Outage, Reconnect, Restart
<1>3. UNCHANGED vars => log' = log /\ alive' = alive
  BY DEF vars
<1>4. QED
  BY NextCases, <1>1, <1>2, <1>3, Zenon

\* The stream keeps one message of a topic, its newest.
LEMMA NewestStep ==
  ASSUME TypeOK, Newest, [Next]_vars
  PROVE  Newest'
<1>1. CASE log' = log /\ alive' \subseteq alive
  BY <1>1, Zenon DEF Newest, Last
<1>2. ASSUME NEW b \in Brokers, NEW plan \in Plans, Publish(b, plan)
      PROVE  Newest'
  <2>1. /\ Last \in Nat /\ Last' = Last + 1 /\ log'[Last + 1] = plan[Last + 1]
        /\ \A n \in 1..Last : log'[n] = log[n]
    BY <1>2, Appended
  <2>2. SUFFICES ASSUME NEW n \in alive', NEW m \in 1..Last', log'[m].topic = log'[n].topic
                 PROVE  m <= n
    BY DEF Newest
  <2>3. n = Last + 1 \/ (n \in alive /\ n \notin On(plan[Last + 1].topic))
    <3>1. alive' = (alive \ On(plan[Last + 1].topic)) \cup {Last + 1}
      BY <1>2 DEF Publish
    <3>2. QED
      BY <3>1, Zenon
  <2>4. CASE n = Last + 1
    BY <2>1, <2>4, SMT
  <2>5. CASE n \in alive /\ n \notin On(plan[Last + 1].topic)
    <3>1. n \in 1..Last /\ log'[n] = log[n] /\ log[n].topic # plan[Last + 1].topic
      BY <2>1, <2>5, Ranges, Zenon DEF On
    <3>2. m # Last + 1
      BY <2>1, <2>2, <3>1, Zenon
    <3>3. m \in 1..Last
      BY <2>1, <3>2, SMT
    <3>4. log[m].topic = log[n].topic
      BY <2>1, <2>2, <3>1, <3>3, Zenon
    <3>5. QED
      BY <2>5, <3>3, <3>4, Zenon DEF Newest
  <2>6. QED
    BY <2>3, <2>4, <2>5
<1>3. ASSUME NEW b \in Brokers, DiscardDelete(b) \/ PurgeDelete(b)
      PROVE  log' = log /\ alive' \subseteq alive
  BY <1>3, Zenon DEF DiscardDelete, PurgeDelete
<1>4. QED
  BY StreamSteps, <1>1, <1>2, <1>3, Zenon

\* No deletion removes what was not replaced.
LEMMA ReplacedStep ==
  ASSUME TypeOK, Informed, OnlyReplacedLeaves, [Next]_vars
  PROVE  OnlyReplacedLeaves'
<1>1. ASSUME NEW b \in Brokers, NEW plan \in Plans, Publish(b, plan)
      PROVE  OnlyReplacedLeaves'
  <2>1. /\ Last \in Nat /\ Last' = Last + 1 /\ log'[Last + 1] = plan[Last + 1]
        /\ \A n \in 1..Last : log'[n] = log[n]
    BY <1>1, Appended
  <2>2. SUFFICES ASSUME NEW n \in 1..Last', log'[n].kind = "plain", n \notin alive'
                 PROVE  \E m \in n + 1..Last' : log'[m].topic = log'[n].topic
    BY Zenon DEF OnlyReplacedLeaves
  <2>3. n # Last + 1
    BY <1>1, <2>2, Zenon DEF Publish
  <2>4. n \in 1..Last /\ Last + 1 \in n + 1..Last' /\ log'[n] = log[n]
    BY <2>1, <2>3, SMT
  <2>5. CASE n \in alive
    <3>1. log[n].topic = plan[Last + 1].topic
      BY <1>1, <2>2, <2>5, Zenon DEF Publish, On
    <3>2. QED
      BY <2>1, <2>4, <3>1, Zenon
  <2>6. CASE n \notin alive
    <3>1. PICK m \in n + 1..Last : log[m].topic = log[n].topic
      BY <2>2, <2>4, <2>6, Zenon DEF OnlyReplacedLeaves
    <3>2. m \in n + 1..Last' /\ m \in 1..Last
      BY <2>1, <2>4, SMT
    <3>3. QED
      BY <2>1, <2>4, <3>1, <3>2, Zenon
  <2>7. QED
    BY <2>5, <2>6
<1>2. ASSUME NEW b \in Brokers, DiscardDelete(b) \/ PurgeDelete(b)
      PROVE  OnlyReplacedLeaves'
  <2>1. PICK k \in tasks : /\ k.op \in {"delete", "purge"} /\ log' = log
                           /\ alive \ {k.entry.seq} \subseteq alive'
    BY <1>2, Zenon DEF DiscardDelete, PurgeDelete, DeleteMsg
  <2>2. log[k.entry.seq].kind # "plain"
    BY <2>1 DEF Informed, Knows
  <2>3. QED
    BY <2>1, <2>2, Zenon DEF OnlyReplacedLeaves, Last
<1>3. CASE log' = log /\ alive' = alive
  BY <1>3, Zenon DEF OnlyReplacedLeaves, Last
<1>4. QED
  BY StreamSteps, <1>1, <1>2, <1>3, Zenon

\* A sequence that left the stream stays out, and the log does not change.
LEMMA KnowsStep ==
  ASSUME TypeOK, Informed, [Next]_vars, NEW k \in tasks
  PROVE  Knows(k)'
<1>1. Knows(k) /\ k.entry.seq \in 1..Last /\ k.res \in 0..Last /\ Last \in Nat
  BY Ranges DEF Informed
<1>2. CASE log' = log /\ alive' \subseteq alive
  BY <1>1, <1>2, Zenon DEF Knows
<1>3. ASSUME NEW b \in Brokers, NEW plan \in Plans, Publish(b, plan)
      PROVE  Knows(k)'
  <2>1. \A n \in 1..Last : log'[n] = log[n]
    BY <1>3, Appended
  <2>2. k.res # 0 => k.res \in 1..Last
    BY <1>1, SMT
  <2>3. k.entry.seq # Last + 1
    BY <1>1, SMT
  <2>4. alive' \subseteq alive \cup {Last + 1}
    BY <1>3, Zenon DEF Publish
  <2>5. QED
    BY <1>1, <2>1, <2>2, <2>3, <2>4, Zenon DEF Knows
<1>4. ASSUME NEW b \in Brokers, DiscardDelete(b) \/ PurgeDelete(b)
      PROVE  log' = log /\ alive' \subseteq alive
  BY <1>4, Zenon DEF DiscardDelete, PurgeDelete
<1>5. QED
  BY StreamSteps, <1>2, <1>3, <1>4, Zenon

\* What a task knows of its entry stays true.
LEMMA InformedStep ==
  ASSUME TypeOK, Informed, [Next]_vars
  PROVE  Informed'
<1>0. \A k \in tasks : Knows(k)'
  BY KnowsStep
<1>1. CASE tasks' \subseteq tasks
  BY <1>0, <1>1, Zenon DEF Informed
<1>2. ASSUME NEW b \in Brokers, NEW t \in Topics, FindExpired(b, t) \/ Purge(b, t)
      PROVE  Informed'
  <2>a. PICK e : e = Task(b, t, "expired")
    OBVIOUS
  <2>b. PICK p : p = Task(b, t, "purge")
    OBVIOUS
  <2>1. FindExpired(b, t) => /\ tasks' = tasks \cup {e} /\ log' = log
                             /\ log[Held(b, t)].kind = "timed"
    BY <2>a, Zenon DEF FindExpired, starts
  <2>2. Purge(b, t) => /\ tasks' = tasks \cup {p} /\ log' = log
                       /\ log[Held(b, t)].kind = "clear"
    BY <2>b, Zenon DEF Purge, starts, isMsg
  <2>3. /\ e.op = "expired" /\ e.entry.seq = Held(b, t) /\ e.res = 0
        /\ p.op = "purge" /\ p.entry.seq = Held(b, t) /\ p.res = 0
    BY <2>a, <2>b DEF Task, Held
  <2>4. FindExpired(b, t) => Knows(e)'
    BY <2>1, <2>3 DEF Knows
  <2>5. Purge(b, t) => Knows(p)'
    BY <2>2, <2>3 DEF Knows
  <2>6. QED
    BY <1>0, <1>2, <2>1, <2>2, <2>4, <2>5, Zenon DEF Informed
<1>3. ASSUME NEW b \in Brokers, Discard(b)
      PROVE  Informed'
  <2>1. PICK k \in tasks : /\ k.op = "expired" /\ log' = log
                           /\ tasks' = (tasks \ {k}) \cup {then(k, "delete", 0)}
    BY <1>3 DEF Discard, becomes
  <2> DEFINE d == then(k, "delete", 0)
  <2>2. d.op = "delete" /\ d.entry = k.entry /\ d.res = 0
    BY DEF then
  <2>3. log[k.entry.seq].kind = "timed"
    BY <2>1 DEF Informed, Knows
  <2>4. Knows(d)'
    <3> HIDE DEF d
    <3> QED
      BY <2>1, <2>2, <2>3 DEF Knows
  <2>5. QED
    BY <1>0, <2>1, <2>4, Zenon DEF Informed
<1>4. ASSUME NEW b \in Brokers, PurgeDelete(b), ~(tasks' \subseteq tasks)
      PROVE  Informed'
  <2>1. PICK k \in tasks : /\ alive' = alive \ {k.entry.seq} /\ log' = log
                           /\ tasks' = (tasks \ {k}) \cup {then(k, "purged", 0)}
    BY <1>4, Zenon DEF PurgeDelete, becomes
  <2> DEFINE d == then(k, "purged", 0)
  <2>2. d.op = "purged" /\ d.entry = k.entry /\ d.res = 0
    BY DEF then
  <2>3. Knows(d)'
    <3> HIDE DEF d
    <3> QED
      BY <2>1, <2>2 DEF Knows
  <2>4. QED
    BY <1>0, <2>1, <2>3, Zenon DEF Informed
<1>5. ASSUME NEW b \in Brokers, Reconcile(b)
      PROVE  Informed'
  <2>1. \A t \in Topics : Task(b, t, "check").op = "check" /\ Task(b, t, "check").res = 0
    BY DEF Task
  <2>2. \A k \in tasks' : k \in tasks \/ (k.op = "check" /\ k.res = 0)
    BY <1>5, <2>1, Zenon DEF Reconcile, starts
  <2>3. \A k \in tasks' : Knows(k)'
    BY <1>0, <2>2 DEF Knows
  <2>4. QED
    BY <2>3, Zenon DEF Informed
<1>6. ASSUME NEW b \in Brokers, Lookup(b)
      PROVE  Informed'
  <2>1. PICK k \in tasks : \E found :
          /\ \A m \in found : m # 0 => log[m].topic = k.topic
          /\ found # {} => k.entry.seq \notin alive
          /\ tasks' = (tasks \ {k}) \cup {then(k, "checked", m) : m \in found}
    BY <1>6, LookedUp, Zenon
  <2>2. log' = log /\ alive' = alive
    BY <1>6 DEF Lookup
  <2>3. \A c \in tasks' : c \in tasks \/ \E m : /\ c = then(k, "checked", m)
                                                /\ m # 0 => log[m].topic = k.topic
                                                /\ k.entry.seq \notin alive
    BY <2>1, Zenon
  <2>4. \A m : /\ then(k, "checked", m).op = "checked" /\ then(k, "checked", m).res = m
               /\ then(k, "checked", m).topic = k.topic /\ then(k, "checked", m).entry = k.entry
    BY DEF then
  <2>5. \A c \in tasks' : Knows(c)'
    BY <1>0, <2>2, <2>3, <2>4 DEF Knows
  <2>6. QED
    BY <2>5, Zenon DEF Informed
<1>7. ASSUME NEW b \in Brokers, \/ LocalUpdate(b) \/ Send(b) \/ Apply(b) \/ DiscardDelete(b)
                               \/ PurgeLocal(b) \/ LookupUnknown(b) \/ Mend(b)
                               \/ Outage(b) \/ Reconnect(b) \/ Restart(b)
      PROVE  tasks' \subseteq tasks
  BY <1>7, Zenon DEF LocalUpdate, Send, Apply, DiscardDelete, PurgeLocal, LookupUnknown, Mend,
                     Outage, Reconnect, Restart, becomes
<1>8. ASSUME NEW b \in Brokers, NEW plan \in Plans, Publish(b, plan)
      PROVE  tasks' \subseteq tasks
  BY <1>8, Zenon DEF Publish
<1>9. UNCHANGED vars => tasks' \subseteq tasks
  BY DEF vars
<1>10. QED
  BY NextCases, <1>1, <1>2, <1>3, <1>4, <1>5, <1>6, <1>7, <1>8, <1>9, Zenon

\* The steps by what they do to the consumers.
LEMMA ConsumerSteps ==
  ASSUME [Next]_vars
  PROVE  \/ \E b \in Brokers, plan \in Plans : Publish(b, plan)
         \/ \E b \in Brokers : Send(b) \/ Apply(b) \/ Outage(b) \/ Restart(b)
         \/ alive' \subseteq alive /\ UNCHANGED <<wire, pos, ready, start>>
<1>1. ASSUME NEW b \in Brokers, NEW t \in Topics, FindExpired(b, t) \/ Purge(b, t)
      PROVE  alive' \subseteq alive /\ UNCHANGED <<wire, pos, ready, start>>
  BY <1>1 DEF FindExpired, Purge
<1>2. ASSUME NEW b \in Brokers, \/ LocalUpdate(b) \/ Discard(b) \/ DiscardDelete(b)
                               \/ PurgeDelete(b) \/ PurgeLocal(b) \/ Reconcile(b)
                               \/ Lookup(b) \/ LookupUnknown(b) \/ Mend(b) \/ Reconnect(b)
      PROVE  alive' \subseteq alive /\ UNCHANGED <<wire, pos, ready, start>>
  BY <1>2, Zenon DEF LocalUpdate, Discard, DiscardDelete, PurgeDelete, PurgeLocal, Reconcile,
                     Lookup, LookupUnknown, Mend, Reconnect
<1>3. UNCHANGED vars => alive' \subseteq alive /\ UNCHANGED <<wire, pos, ready, start>>
  BY DEF vars
<1>4. QED
  BY NextCases, <1>1, <1>2, <1>3, Zenon

\* What is on its way to a consumer is in stream order, without gaps.
LEMMA InOrderStep ==
  ASSUME TypeOK, InOrder, [Next]_vars
  PROVE  InOrder'
<1>1. CASE alive' \subseteq alive /\ UNCHANGED <<wire, pos, ready, start>>
  BY <1>1, Zenon DEF InOrder, Ordered
<1>2. ASSUME NEW b \in Brokers, NEW plan \in Plans, Publish(b, plan)
      PROVE  InOrder'
  <2>1. alive' \subseteq alive \cup {Last + 1} /\ UNCHANGED <<wire, pos, ready, start>>
    BY <1>2, Zenon DEF Publish
  <2>2. SUFFICES ASSUME NEW c \in Brokers, NEW k \in wire[c]
                 PROVE  Ordered(c, k)'
    BY <2>1, Zenon DEF InOrder
  <2>3. ~(Last + 1 < k.seq) /\ ~(Last + 1 <= start[c])
    BY Ranges, SMT
  <2>4. Ordered(c, k)
    BY DEF InOrder
  <2>5. QED
    BY <2>1, <2>3, <2>4, Zenon DEF Ordered
<1>3. ASSUME NEW b \in Brokers, Send(b)
      PROVE  InOrder'
  <2>1. PICK n \in Unsent(b) :
          /\ \A m \in Unsent(b) : n <= m
          /\ wire' = [wire EXCEPT ![b] = @ \cup {[seq |-> n, last |-> ready[b] \/ Unsent(b) = {n}]}]
          /\ UNCHANGED <<alive, pos, ready, start>>
    BY <1>3 DEF Send
  <2>2. PICK s : s = [seq |-> n, last |-> ready[b] \/ Unsent(b) = {n}]
    OBVIOUS
  <2>3. s.seq = n /\ (s.last => ready[b] \/ Unsent(b) = {n})
    BY <2>2
  <2>4. wire'[b] = wire[b] \cup {s} /\ \A c \in Brokers \ {b} : wire'[c] = wire[c]
    BY <2>1, <2>2, Zenon DEF TypeOK
  <2>5. ASSUME NEW c \in Brokers, NEW k \in wire[c]
        PROVE  Ordered(c, k)'
    <3>1. Ordered(c, k) /\ wire[c] \subseteq wire'[c]
      BY <2>4, Zenon DEF InOrder
    <3>2. \A j \in wire'[c] : j.seq = k.seq => j = k
      <4>1. c = b => s.seq # k.seq
        BY <2>3, Ranges, SMT DEF Unsent
      <4>2. QED
        BY <2>4, <3>1, <4>1, Zenon DEF Ordered
    <3>3. QED
      BY <2>1, <3>1, <3>2, Zenon DEF Ordered
  <2>6. Ordered(b, s)'
    <3>1. n \in alive /\ n > pos[b] /\ n \in Int /\ pos[b] \in Int
      BY Ranges, SMT DEF Unsent
    <3>2. ASSUME NEW m \in alive, pos[b] < m, m < n
          PROVE  \E j \in wire[b] : j.seq = m
      <4>1. m \notin Unsent(b) /\ m \in Int
        BY <2>1, <3>1, <3>2, Ranges, SMT
      <4>2. PICK k \in wire[b] : ~(m > k.seq)
        BY <3>2, <4>1, <3>1, SMT DEF Unsent
      <4>3. m = k.seq \/ m < k.seq
        BY <4>1, <4>2, Ranges, SMT
      <4>4. QED
        BY <3>2, <4>3, Zenon DEF InOrder, Ordered
    <3>3. ASSUME Unsent(b) = {n}, NEW m \in alive
          PROVE  m <= n
      <4>1. CASE m \in Unsent(b)
        <5>1. m = n
          BY <3>3, <4>1, Zenon
        <5>2. QED
          BY <3>1, <5>1, SMT
      <4>2. CASE m \notin Unsent(b)
        <5>1. m <= pos[b] \/ \E k \in wire[b] : m <= k.seq
          BY <4>2, Ranges, SMT DEF Unsent
        <5>2. \A k \in wire[b] : k.seq < n
          BY Ranges, SMT DEF Unsent
        <5>3. m \in Int /\ \A k \in wire[b] : k.seq \in Int
          BY Ranges, SMT
        <5>4. CASE m <= pos[b]
          BY <3>1, <5>3, <5>4, SMT
        <5>5. ASSUME NEW k \in wire[b], m <= k.seq PROVE m <= n
          <6>1. k.seq < n /\ k.seq \in Int
            BY <5>2, <5>3, Zenon
          <6>2. QED
            BY <3>1, <5>3, <5>5, <6>1, SMT
        <5>6. QED
          BY <5>1, <5>4, <5>5, Zenon
      <4>3. QED
        BY <4>1, <4>2
    <3>4. pos'[b] = pos[b] /\ alive' = alive /\ ready'[b] = ready[b] /\ start'[b] = start[b]
      BY <2>1
    <3>5. \A m \in alive' : pos'[b] < m /\ m < s.seq => \E j \in wire'[b] : j.seq = m
      BY <2>3, <2>4, <3>2, <3>4, Zenon
    <3>6. s.last => ready'[b] \/ \A m \in alive' : m <= start'[b] => m <= s.seq
      BY <2>3, <3>3, <3>4, Zenon
    <3>7. pos'[b] < s.seq
      BY <2>3, <3>1, <3>4, SMT
    <3>8. \A j \in wire'[b] : j.seq = s.seq => j = s
      <4>1. \A j \in wire[b] : j.seq # n
        BY Ranges, SMT DEF Unsent
      <4>2. QED
        BY <2>3, <2>4, <4>1, Zenon
    <3>9. QED
      BY <3>5, <3>6, <3>7, <3>8, Zenon DEF Ordered
  <2>7. QED
    BY <2>4, <2>5, <2>6, Zenon DEF InOrder
<1>4. ASSUME NEW b \in Brokers, Apply(b)
      PROVE  InOrder'
  <2>1. PICK k \in wire[b] :
          /\ \A other \in wire[b] : k.seq <= other.seq
          /\ wire' = [wire EXCEPT ![b] = @ \ {k}]
          /\ pos' = [pos EXCEPT ![b] = k.seq]
          /\ ready' = [ready EXCEPT ![b] = @ \/ caughtUp(k)]
          /\ UNCHANGED <<alive, start>>
    BY <1>4, Zenon DEF Apply
  <2>2. /\ wire'[b] = wire[b] \ {k} /\ pos'[b] = k.seq /\ (ready[b] => ready'[b])
        /\ \A c \in Brokers \ {b} : wire'[c] = wire[c] /\ pos'[c] = pos[c] /\ ready'[c] = ready[c]
    BY <2>1, Zenon DEF TypeOK
  <2>3. ASSUME NEW c \in Brokers \ {b}, NEW j \in wire'[c]
        PROVE  Ordered(c, j)'
    <3>1. /\ Ordered(c, j) /\ wire'[c] = wire[c] /\ pos'[c] = pos[c] /\ ready'[c] = ready[c]
          /\ alive' = alive /\ start'[c] = start[c]
      BY <2>1, <2>2, Zenon DEF InOrder
    <3>2. QED
      BY <3>1, Zenon DEF Ordered
  <2>4. ASSUME NEW j \in wire'[b]
        PROVE  Ordered(b, j)'
    <3>1. j \in wire[b] /\ j # k /\ Ordered(b, j) /\ pos[b] < k.seq /\ k.seq <= j.seq
      BY <2>1, <2>2, Zenon DEF InOrder, Ordered
    <3>2. k.seq \in Int /\ j.seq \in Int /\ pos[b] \in Int /\ \A n \in alive : n \in Int
      BY <3>1, Ranges, SMT
    <3>3. k.seq # j.seq
      BY <3>1, Zenon DEF Ordered
    <3>4. ASSUME NEW n \in alive, k.seq < n, n < j.seq
          PROVE  \E i \in wire'[b] : i.seq = n
      <4>1. pos[b] < n
        BY <3>1, <3>2, <3>4, SMT
      <4>2. PICK i \in wire[b] : i.seq = n
        BY <3>1, <3>4, <4>1, Zenon DEF Ordered
      <4>3. i # k
        BY <3>2, <3>4, <4>2, SMT
      <4>4. QED
        BY <2>2, <4>2, <4>3, Zenon
    <3>5. k.seq < j.seq
      BY <3>1, <3>2, <3>3, SMT
    <3>6. QED
      BY <2>1, <2>2, <3>1, <3>4, <3>5, Zenon DEF Ordered
  <2>5. QED
    BY <2>3, <2>4, Zenon DEF InOrder
<1>5. ASSUME NEW b \in Brokers, Outage(b) \/ Restart(b)
      PROVE  InOrder'
  <2>1. /\ alive' = alive /\ wire' = [wire EXCEPT ![b] = {}]
        /\ \A c \in Brokers \ {b} : pos'[c] = pos[c] /\ ready'[c] = ready[c] /\ start'[c] = start[c]
    BY <1>5, Zenon DEF Outage, Restart, TypeOK
  <2>2. wire'[b] = {} /\ \A c \in Brokers \ {b} : wire'[c] = wire[c]
    BY <2>1, Zenon DEF TypeOK
  <2>3. ASSUME NEW c \in Brokers, NEW j \in wire'[c]
        PROVE  Ordered(c, j)'
    <3>1. c \in Brokers \ {b}
      BY <2>2, Zenon
    <3>2. /\ Ordered(c, j) /\ wire'[c] = wire[c] /\ pos'[c] = pos[c] /\ ready'[c] = ready[c]
          /\ alive' = alive /\ start'[c] = start[c]
      BY <2>1, <2>2, <3>1, Zenon DEF InOrder
    <3>3. QED
      BY <3>2, Zenon DEF Ordered
  <2>4. QED
    BY <2>3, Zenon DEF InOrder
<1>6. QED
  BY ConsumerSteps, <1>1, <1>2, <1>3, <1>4, <1>5, Zenon

\* A broker that serves has seen the stream as it was when it started.
LEMMA ReadyStep ==
  ASSUME TypeOK, InOrder, ReadyIsComplete, [Next]_vars
  PROVE  ReadyIsComplete'
<1>1. CASE alive' \subseteq alive /\ UNCHANGED <<wire, pos, ready, start>>
  BY <1>1, Zenon DEF ReadyIsComplete
<1>2. ASSUME NEW b \in Brokers, NEW plan \in Plans, Publish(b, plan)
      PROVE  ReadyIsComplete'
  <2>1. alive' \subseteq alive \cup {Last + 1} /\ UNCHANGED <<pos, ready, start>>
    BY <1>2, Zenon DEF Publish
  <2>2. \A c \in Brokers : ~(Last + 1 <= start[c])
    BY Ranges, SMT
  <2>3. QED
    BY <2>1, <2>2, Zenon DEF ReadyIsComplete
<1>3. ASSUME NEW b \in Brokers, Send(b) \/ Outage(b)
      PROVE  alive' = alive /\ UNCHANGED <<pos, ready, start>>
  BY <1>3, Zenon DEF Send, Outage
<1>4. ASSUME NEW b \in Brokers, Apply(b)
      PROVE  ReadyIsComplete'
  <2>1. PICK k \in wire[b] :
          /\ pos' = [pos EXCEPT ![b] = k.seq]
          /\ ready' = [ready EXCEPT ![b] = @ \/ caughtUp(k)]
          /\ UNCHANGED <<alive, start>>
    BY <1>4, Zenon DEF Apply
  <2>2. /\ pos'[b] = k.seq /\ (ready'[b] => ready[b] \/ k.last)
        /\ \A c \in Brokers \ {b} : pos'[c] = pos[c] /\ ready'[c] = ready[c]
    BY <2>1, Zenon DEF TypeOK, caughtUp
  <2>3. ASSUME ready'[b], NEW n \in alive, n <= start[b]
        PROVE  n <= k.seq
    <3>1. Ordered(b, k)
      BY DEF InOrder
    <3>2. CASE ready[b]
      <4>1. n <= pos[b] /\ pos[b] < k.seq
        BY <2>3, <3>1, <3>2, Zenon DEF ReadyIsComplete, Ordered
      <4>2. QED
        BY <4>1, Ranges, SMT
    <3>3. CASE ~ready[b]
      BY <2>2, <2>3, <3>1, <3>3, Zenon DEF Ordered
    <3>4. QED
      BY <3>2, <3>3
  <2>4. QED
    BY <2>1, <2>2, <2>3, Zenon DEF ReadyIsComplete
<1>5. ASSUME NEW b \in Brokers, Restart(b)
      PROVE  ReadyIsComplete'
  <2>1. /\ alive' = alive /\ (ready'[b] => alive = {})
        /\ \A c \in Brokers \ {b} : pos'[c] = pos[c] /\ ready'[c] = ready[c] /\ start'[c] = start[c]
    BY <1>5, Zenon DEF Restart, TypeOK
  <2>2. QED
    BY <2>1, Zenon DEF ReadyIsComplete
<1>6. QED
  <2>1. ASSUME NEW b \in Brokers, Send(b) \/ Outage(b)
        PROVE  ReadyIsComplete'
    BY <1>3, <2>1, Zenon DEF ReadyIsComplete
  <2>2. QED
    BY ConsumerSteps, <1>1, <1>2, <2>1, <1>4, <1>5, Zenon

\* The exception of FedIsShown apart: what it says of one broker and one message.
Fed(b, n) ==
    n <= pos[b] /\ log[n].kind # "timed" /\ <<b, log[n].topic>> \notin crossed
        => Shows(b, log[n].topic, n)

\* The steps by what they do to the views.
LEMMA ViewSteps ==
  ASSUME [Next]_vars
  PROVE  \/ \E b \in Brokers, plan \in Plans : Publish(b, plan)
         \/ \E b \in Brokers : LocalUpdate(b) \/ Apply(b) \/ Discard(b) \/ PurgeLocal(b)
                               \/ Mend(b) \/ Restart(b)
         \/ alive' \subseteq alive /\ UNCHANGED <<log, view, pos, crossed>>
<1>1. ASSUME NEW b \in Brokers, NEW t \in Topics, FindExpired(b, t) \/ Purge(b, t)
      PROVE  alive' \subseteq alive /\ UNCHANGED <<log, view, pos, crossed>>
  BY <1>1 DEF FindExpired, Purge
<1>2. ASSUME NEW b \in Brokers, \/ Send(b) \/ DiscardDelete(b) \/ PurgeDelete(b) \/ Reconcile(b)
                               \/ Lookup(b) \/ LookupUnknown(b) \/ Outage(b) \/ Reconnect(b)
      PROVE  alive' \subseteq alive /\ UNCHANGED <<log, view, pos, crossed>>
  BY <1>2, Zenon DEF Send, DiscardDelete, PurgeDelete, Reconcile, Lookup, LookupUnknown, Outage,
                     Reconnect
<1>3. UNCHANGED vars => alive' \subseteq alive /\ UNCHANGED <<log, view, pos, crossed>>
  BY DEF vars
<1>4. QED
  BY NextCases, <1>1, <1>2, <1>3, Zenon

\* An entry that a step does not change.
LEMMA SameView ==
  ASSUME NEW v, NEW E, NEW w \in [Brokers -> [Topics -> E]], NEW e,
         NEW b \in Brokers, NEW t \in Topics, v = [w EXCEPT ![b][t] = e],
         NEW c \in Brokers, NEW u \in Topics
  PROVE  /\ v[b][t] = e
         /\ c # b \/ u # t => v[c][u] = w[c][u]
  BY SMT

\* Two messages of one topic that the stream holds are the same one.
LEMMA OneOnTopic ==
  ASSUME TypeOK, Newest, NEW n \in alive, NEW m \in alive, log[m].topic = log[n].topic
  PROVE  m = n
<1>1. m <= n /\ n <= m
  BY Ranges, Zenon DEF Newest
<1>2. QED
  BY <1>1, Ranges, SMT

\* What a broker was fed is shown until it is replaced.
LEMMA FedStep ==
  ASSUME TypeOK, Newest, Informed, InOrder, FedIsShown, [Next]_vars
  PROVE  FedIsShown'
<1>0. \A b \in Brokers : \A n \in alive : Fed(b, n)
  BY Zenon DEF FedIsShown, Fed
<1>a. (\A b \in Brokers : \A n \in alive' : Fed(b, n)') => FedIsShown'
  BY Zenon DEF FedIsShown, Fed
<1>b. \A n \in alive : n \in 1..Last /\ log[n].topic \in Topics
  BY Ranges, OnTopic, Zenon
<1>c. view \in [Brokers -> [Topics -> {None} \cup Made]]
  BY DEF TypeOK
<1>v. ASSUME NEW b \in Brokers, NEW t \in Topics, NEW e, view' = [view EXCEPT ![b][t] = e]
      PROVE  /\ view'[b][t] = e
             /\ \A c \in Brokers, u \in Topics : c # b \/ u # t => view'[c][u] = view[c][u]
  BY <1>c, <1>v, SameView, Zenon
<1>1. CASE alive' \subseteq alive /\ UNCHANGED <<log, view, pos, crossed>>
  BY <1>0, <1>a, <1>1, Zenon DEF Fed, Shows, Held
<1>2. ASSUME NEW b \in Brokers, NEW plan \in Plans, Publish(b, plan)
      PROVE  FedIsShown'
  <2>1. /\ alive' \subseteq alive \cup {Last + 1} /\ UNCHANGED <<view, pos, crossed>>
        /\ \A n \in 1..Last : log'[n] = log[n]
    BY <1>2, Appended, Zenon DEF Publish
  <2>2. ASSUME NEW c \in Brokers, NEW n \in alive'
        PROVE  Fed(c, n)'
    <3>1. CASE n \in alive
      BY <1>0, <1>b, <2>1, <3>1, Zenon DEF Fed, Shows, Held
    <3>2. CASE n = Last + 1
      <4>1. ~(n <= pos[c])
        BY <3>2, Ranges, SMT
      <4>2. QED
        BY <2>1, <4>1, Zenon DEF Fed
    <3>3. QED
      BY <2>1, <3>1, <3>2, Zenon
  <2>3. QED
    BY <1>a, <2>2, Zenon
<1>3. ASSUME NEW b \in Brokers, LocalUpdate(b)
      PROVE  FedIsShown'
  <2>1. PICK n \in storing[b] :
          /\ view' = [view EXCEPT ![b][log[n].topic] = [seq |-> n, by |-> "own"]]
          /\ crossed' = IF \E m \in n + 1..pos[b] : log[m].topic = log[n].topic
                        THEN crossed \cup {<<b, log[n].topic>>} ELSE crossed
          /\ UNCHANGED <<log, alive, pos>>
    BY <1>3, Zenon DEF LocalUpdate
  <2>2. n \in 1..Last /\ log[n].topic \in Topics
    <3>1. n \in 1..Last
      BY Zenon DEF TypeOK
    <3>2. QED
      BY <3>1, OnTopic
  <2>v. /\ view'[b][log[n].topic] = [seq |-> n, by |-> "own"]
        /\ \A c \in Brokers, u \in Topics :
              c # b \/ u # log[n].topic => view'[c][u] = view[c][u]
    <3>1. PICK t \in Topics, e \in {[seq |-> n, by |-> "own"]} :
              /\ t = log[n].topic /\ e = [seq |-> n, by |-> "own"]
              /\ view' = [view EXCEPT ![b][t] = e]
      BY <2>1, <2>2, Zenon
    <3>2. view' = [view EXCEPT ![b][t] = e]
      BY <3>1
    <3>3. /\ view'[b][t] = e
          /\ \A c \in Brokers, u \in Topics : c # b \/ u # t => view'[c][u] = view[c][u]
      BY <1>c, <3>2, SMT
    <3>4. QED
      BY <3>1, <3>3, Zenon
  <2>3. ASSUME NEW c \in Brokers, NEW m \in alive
        PROVE  Fed(c, m)'
    <3>1. CASE c # b \/ log[m].topic # log[n].topic
      <4>1. view'[c][log[m].topic] = view[c][log[m].topic]
        BY <1>b, <2>v, <3>1, Zenon
      <4>2. crossed \subseteq crossed'
        BY <2>1
      <4>3. QED
        BY <1>0, <2>1, <4>1, <4>2, Zenon DEF Fed, Shows, Held
    <3>2. CASE c = b /\ log[m].topic = log[n].topic
      <4>1. n <= m
        BY <2>2, <3>2, Zenon DEF Newest
      <4>2. CASE m = n
        <5>1. view'[b][log[n].topic].seq = n
          BY <2>v
        <5>2. QED
          BY <2>1, <3>2, <4>2, <5>1, Zenon DEF Fed, Shows, Held
      <4>3. CASE m # n /\ m <= pos[b]
        <5>1. m \in n + 1..pos[b]
          BY <1>b, <2>2, <4>1, <4>3, Ranges, SMT
        <5>2. <<b, log[n].topic>> \in crossed'
          BY <2>1, <3>2, <5>1, Zenon
        <5>3. QED
          BY <2>1, <3>2, <5>2, Zenon DEF Fed
      <4>4. CASE ~(m <= pos[b])
        BY <2>1, <3>2, <4>4, Zenon DEF Fed
      <4>5. QED
        BY <4>2, <4>3, <4>4
    <3>3. QED
      BY <3>1, <3>2
  <2>4. QED
    BY <1>a, <2>1, <2>3, Zenon
<1>4. ASSUME NEW b \in Brokers, Apply(b)
      PROVE  FedIsShown'
  <2>1. PICK k \in wire[b] :
          /\ \A other \in wire[b] : k.seq <= other.seq
          /\ pos' = [pos EXCEPT ![b] = k.seq]
          /\ view' = [view EXCEPT ![b][log[k.seq].topic] = [seq |-> k.seq, by |-> "fed"]]
          /\ crossed' = crossed \ {<<b, log[k.seq].topic>>}
          /\ UNCHANGED <<log, alive>>
    BY <1>4, Zenon DEF Apply
  <2>2. k.seq \in 1..Last /\ log[k.seq].topic \in Topics
    BY Ranges, OnTopic, Zenon
  <2>3. pos'[b] = k.seq /\ \A c \in Brokers \ {b} : pos'[c] = pos[c]
    BY <2>1, Zenon DEF TypeOK
  <2>v. /\ view'[b][log[k.seq].topic] = [seq |-> k.seq, by |-> "fed"]
        /\ \A c \in Brokers, u \in Topics :
              c # b \/ u # log[k.seq].topic => view'[c][u] = view[c][u]
    <3>1. PICK t \in Topics, e \in {[seq |-> k.seq, by |-> "fed"]} :
              /\ t = log[k.seq].topic /\ e = [seq |-> k.seq, by |-> "fed"]
              /\ view' = [view EXCEPT ![b][t] = e]
      BY <2>1, <2>2, Zenon
    <3>2. view' = [view EXCEPT ![b][t] = e]
      BY <3>1
    <3>3. /\ view'[b][t] = e
          /\ \A c \in Brokers, u \in Topics : c # b \/ u # t => view'[c][u] = view[c][u]
      BY <1>c, <3>2, SMT
    <3>4. QED
      BY <3>1, <3>3, Zenon
  <2>4. ASSUME NEW c \in Brokers, NEW m \in alive
        PROVE  Fed(c, m)'
    <3>1. CASE c # b
      <4>1. view'[c][log[m].topic] = view[c][log[m].topic] /\ pos'[c] = pos[c]
        BY <1>b, <2>v, <2>3, <3>1, Zenon
      <4>2. <<c, log[m].topic>> \notin crossed' => <<c, log[m].topic>> \notin crossed
        BY <2>1, <3>1
      <4>3. QED
        BY <1>0, <2>1, <4>1, <4>2, Zenon DEF Fed, Shows, Held
    <3>2. CASE c = b /\ log[m].topic = log[k.seq].topic /\ m <= k.seq
      <4>1. k.seq <= m
        BY <2>2, <3>2, Zenon DEF Newest
      <4>2. m = k.seq
        BY <1>b, <2>2, <3>2, <4>1, SMT
      <4>3. view'[b][log[k.seq].topic].seq = k.seq
        BY <2>v
      <4>4. QED
        BY <2>1, <3>2, <4>2, <4>3, Zenon DEF Fed, Shows, Held
    <3>3. CASE c = b /\ log[m].topic # log[k.seq].topic /\ m <= k.seq
      <4>1. m # k.seq
        BY <3>3
      <4>2. m <= pos[b]
        <5>1. SUFFICES ASSUME ~(m <= pos[b]) PROVE FALSE
          OBVIOUS
        <5>2. pos[b] < m /\ m < k.seq
          BY <1>b, <2>2, <3>3, <4>1, <5>1, Ranges, SMT
        <5>3. PICK j \in wire[b] : j.seq = m
          BY <5>2, Zenon DEF InOrder, Ordered
        <5>4. k.seq <= m
          BY <2>1, <5>3, Zenon
        <5>5. QED
          BY <1>b, <2>2, <5>2, <5>4, SMT
      <4>3. view'[b][log[m].topic] = view[b][log[m].topic]
        BY <1>b, <2>v, <3>3, Zenon
      <4>4. <<b, log[m].topic>> \notin crossed' => <<b, log[m].topic>> \notin crossed
        BY <2>1, <3>3
      <4>5. QED
        BY <1>0, <2>1, <3>3, <4>2, <4>3, <4>4, Zenon DEF Fed, Shows, Held
    <3>4. CASE c = b /\ ~(m <= k.seq)
      BY <2>3, <3>4, Zenon DEF Fed
    <3>5. QED
      BY <3>1, <3>2, <3>3, <3>4, Zenon
  <2>5. QED
    BY <1>a, <2>1, <2>4, Zenon
<1>5. ASSUME NEW b \in Brokers, Discard(b) \/ PurgeLocal(b)
      PROVE  FedIsShown'
  <2>1. PICK k \in tasks : /\ k.op \in {"expired", "purged"} /\ dropIfSame(b, k)
                           /\ UNCHANGED <<log, alive, pos, crossed>>
    BY <1>5, Zenon DEF Discard, PurgeLocal
  <2>2. k.topic \in Topics /\ Knows(k)
    BY Ranges, Zenon DEF Informed
  <2>3. ASSUME NEW c \in Brokers, NEW m \in alive
        PROVE  Fed(c, m)'
    <3>1. CASE view'[c][log[m].topic] = view[c][log[m].topic]
      BY <1>0, <2>1, <3>1, Zenon DEF Fed, Shows, Held
    <3>2. CASE view'[c][log[m].topic] # view[c][log[m].topic]
      <4>1. c = b /\ log[m].topic = k.topic /\ view[b][k.topic] = k.entry
        <5>1. view[b][k.topic] = k.entry /\ view' = [view EXCEPT ![b][k.topic] = None]
          BY <2>1, <3>2, Zenon DEF dropIfSame
        <5>2. \A u \in Topics : c # b \/ u # k.topic => view'[c][u] = view[c][u]
          BY <1>v, <2>2, <5>1
        <5>3. QED
          BY <1>b, <3>2, <5>1, <5>2, Zenon
      <4>2. Shows(c, log[m].topic, m) => log[m].kind = "timed"
        BY <2>1, <2>2, <4>1, Zenon DEF Shows, Held, Knows
      <4>3. QED
        BY <1>0, <2>1, <4>2, Zenon DEF Fed
    <3>3. QED
      BY <3>1, <3>2
  <2>4. QED
    BY <1>a, <2>1, <2>3, Zenon
<1>6. ASSUME NEW b \in Brokers, Mend(b)
      PROVE  FedIsShown'
  <2>1. PICK k \in tasks :
          /\ k.op = "checked" /\ UNCHANGED <<log, alive, pos>>
          /\ \/ UNCHANGED <<view, crossed>>
             \/ /\ view[b][k.topic] = k.entry
                /\ view' = [view EXCEPT ![b][k.topic] =
                                IF k.res = 0 THEN None ELSE [seq |-> k.res, by |-> "read"]]
                /\ crossed' = IF k.res \in alive THEN crossed \ {<<b, k.topic>>} ELSE crossed
    BY <1>6, Zenon DEF Mend, sameEntry
  <2>2. CASE UNCHANGED <<view, crossed>>
    BY <1>0, <1>a, <2>1, <2>2, Zenon DEF Fed, Shows, Held
  <2>3. ASSUME view[b][k.topic] = k.entry,
               view' = [view EXCEPT ![b][k.topic] =
                            IF k.res = 0 THEN None ELSE [seq |-> k.res, by |-> "read"]],
               crossed' = IF k.res \in alive THEN crossed \ {<<b, k.topic>>} ELSE crossed,
               NEW c \in Brokers, NEW m \in alive
        PROVE  Fed(c, m)'
    <3>1. k.topic \in Topics /\ Knows(k)
      BY Ranges, Zenon DEF Informed
    <3>2. CASE c # b \/ log[m].topic # k.topic
      <4>1. view'[c][log[m].topic] = view[c][log[m].topic]
        <5>1. \A u \in Topics : c # b \/ u # k.topic => view'[c][u] = view[c][u]
          BY <1>v, <2>3, <3>1
        <5>2. QED
          BY <1>b, <3>2, <5>1, Zenon
      <4>2. <<c, log[m].topic>> \notin crossed' => <<c, log[m].topic>> \notin crossed
        BY <2>3, <3>2
      <4>3. QED
        BY <1>0, <2>1, <4>1, <4>2, Zenon DEF Fed, Shows, Held
    <3>3. CASE c = b /\ log[m].topic = k.topic /\ <<b, k.topic>> \notin crossed
      <4>1. ~Shows(b, k.topic, m)
        BY <2>1, <2>3, <3>1, Zenon DEF Shows, Held, Knows
      <4>2. QED
        BY <1>0, <2>1, <3>3, <4>1, Zenon DEF Fed
    <3>4. CASE c = b /\ log[m].topic = k.topic /\ k.res \in alive
      <4>1. k.res # 0
        BY <3>4, Ranges, SMT
      <4>2. k.res = m
        BY <3>1, <3>4, <4>1, OneOnTopic, Zenon DEF Knows
      <4>3. view'[b][k.topic] = [seq |-> k.res, by |-> "read"]
        <5>1. view'[b][k.topic] = IF k.res = 0 THEN None ELSE [seq |-> k.res, by |-> "read"]
          BY <1>c, <2>3, <3>1, SameView, Zenon
        <5>2. QED
          BY <4>1, <5>1
      <4>4. QED
        BY <2>1, <3>4, <4>2, <4>3 DEF Fed, Shows, Held
    <3>5. CASE c = b /\ log[m].topic = k.topic /\ <<b, k.topic>> \in crossed /\ k.res \notin alive
      BY <2>1, <2>3, <3>5, Zenon DEF Fed
    <3>6. QED
      BY <3>2, <3>3, <3>4, <3>5, Zenon
  <2>4. QED
    BY <1>a, <2>1, <2>2, <2>3, Zenon
<1>7. ASSUME NEW b \in Brokers, Restart(b)
      PROVE  FedIsShown'
  <2>1. /\ view' = [view EXCEPT ![b] = [t \in Topics |-> None]] /\ pos' = [pos EXCEPT ![b] = 0]
        /\ crossed' = {p \in crossed : p[1] # b} /\ UNCHANGED <<log, alive>>
    BY <1>7 DEF Restart
  <2>2. /\ pos'[b] = 0
        /\ \A c \in Brokers \ {b} : pos'[c] = pos[c] /\ view'[c] = view[c]
    BY <2>1, Zenon DEF TypeOK
  <2>3. ASSUME NEW c \in Brokers, NEW m \in alive
        PROVE  Fed(c, m)'
    <3>1. CASE c = b
      <4>1. ~(m <= 0)
        BY Ranges, SMT
      <4>2. QED
        BY <2>2, <3>1, <4>1, Zenon DEF Fed
    <3>2. CASE c # b
      <4>1. <<c, log[m].topic>> \notin crossed' => <<c, log[m].topic>> \notin crossed
        BY <2>1, <3>2
      <4>2. QED
        BY <1>0, <2>1, <2>2, <3>2, <4>1, Zenon DEF Fed, Shows, Held
    <3>3. QED
      BY <3>1, <3>2
  <2>4. QED
    BY <1>a, <2>1, <2>3, Zenon
<1>8. QED
  BY ViewSteps, <1>1, <1>2, <1>3, <1>4, <1>5, <1>6, <1>7, Zenon

-----------------------------------------------------------------------------
(* The conjunction is inductive. *)
THEOREM Invariance == Spec => []RInv
<1>1. Init => RInv
  BY InitInv
<1>2. RInv /\ [Next]_vars => RInv'
  BY TypeStep, NewestStep, InformedStep, InOrderStep, FedStep, ReplacedStep, ReadyStep DEF RInv
<1>3. QED
  BY <1>1, <1>2, PTL DEF Spec

(***************************************************************************)
(* What a broker was fed and the stream still holds stays in its view:     *)
(* reconcile, discard and purgeTombstones compare the entry by identity    *)
(* before they touch it.                                                   *)
(***************************************************************************)
THEOREM FedStaysShown == Spec => []FedIsShown
<1>1. RInv => FedIsShown
  BY DEF RInv
<1>2. QED
  BY Invariance, <1>1, PTL

(***************************************************************************)
(* discard and purgeTombstones delete by sequence, so that a message       *)
(* without an expiry leaves the stream only when its topic is published on *)
(* again.                                                                  *)
(***************************************************************************)
THEOREM NothingElseLeaves == Spec => []OnlyReplacedLeaves
<1>1. RInv => OnlyReplacedLeaves
  BY DEF RInv
<1>2. QED
  BY Invariance, <1>1, PTL

(***************************************************************************)
(* A broker that serves (newRetainedStore returned) was fed everything     *)
(* retained when it started and retained still.                            *)
(***************************************************************************)
THEOREM StartIsComplete == Spec => []ReadyIsComplete
<1>1. RInv => ReadyIsComplete
  BY DEF RInv
<1>2. QED
  BY Invariance, <1>1, PTL
=============================================================================

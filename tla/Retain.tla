------------------------------- MODULE Retain -------------------------------
(***************************************************************************)
(* The retained-message store (retain.go): one JetStream stream that keeps *)
(* the last message of each topic, and in every broker a view of it, fed   *)
(* by an ordered consumer and, ahead of the consumer, by the broker's own  *)
(* publications.  A clear is a message of its own, a tombstone, purged     *)
(* later.  Views are mended by comparing them with the stream.             *)
(***************************************************************************)
EXTENDS Integers, Sequences, FiniteSetsExt

CONSTANTS
    Topics, Brokers,
    Plans,          \* the sequences of publications the clients may make
    MaxTasks,       \* entries being discarded, purged or checked at a time
    MaxFaults       \* outages, restarts, and requests the stream does not answer

(***************************************************************************)
(* A "timed" message has a Message Expiry Interval, a "plain" one has not. *)
(* An entry of a view is a Go pointer or a stamped tombstone: it is        *)
(* compared by identity, so it says who made it: the broker's own store,   *)
(* its consumer ("fed") or a check of the stream ("read").                 *)
(***************************************************************************)
Kinds == {"plain", "timed", "clear"}
Makers == {"own", "fed", "read"}
Publications == [topic : Topics, kind : Kinds]
None == [seq |-> 0, by |-> "none"]

ASSUME RetainAssumption ==
    Plans \subseteq Seq(Publications) /\ MaxTasks \in Nat /\ MaxFaults \in Nat

VARIABLES
    log,        \* every publication the stream accepted: [topic, kind]
    alive,      \* the sequences the stream still holds
    view,       \* view[b][t]: the broker's entry or tombstone of a topic
    storing,    \* storing[b]: own publications acknowledged, view not updated yet
    wire,       \* wire[b]: [seq, last] sent to the consumer, not applied yet
    pos,        \* pos[b]: the last sequence the consumer applied
    ready,      \* ready[b]: the initial replay has caught up
    online,     \* online[b]: connected to NATS
    verify,     \* verify[b]: the reconnect count moved since the last full check
    tasks,      \* what the brokers' goroutines have begun to do with an entry
    faults,     \* faults so far
    start,      \* ghost: the stream's end when b started
    crossed     \* ghost: <<b, t>> whose view was set back by b's own late update

vars == <<log, alive, view, storing, wire, pos, ready, online, verify, tasks,
          faults, start, crossed>>

Last == Len(log)
On(t) == {n \in alive : log[n].topic = t}
Held(b, t) == view[b][t].seq
isMsg(n) == n # 0 /\ log[n].kind # "clear"

Task(b, t, op) == [at |-> b, topic |-> t, entry |-> view[b][t], op |-> op, res |-> 0]
starts(new) == Cardinality(tasks) < MaxTasks /\ tasks' = tasks \cup new
becomes(k, new) == tasks' = (tasks \ {k}) \cup new
then(k, op, res) == [at |-> k.at, topic |-> k.topic, entry |-> k.entry, op |-> op, res |-> res]
Sweeping(b) == \E k \in tasks : k.at = b /\ k.op \notin {"expired", "delete"}

Fault == faults < MaxFaults /\ faults' = faults + 1

Init ==
    /\ log = << >> /\ alive = {}
    /\ view = [b \in Brokers |-> [t \in Topics |-> None]]
    /\ storing = [b \in Brokers |-> {}]
    /\ wire = [b \in Brokers |-> {}]
    /\ pos = [b \in Brokers |-> 0]
    /\ ready = [b \in Brokers |-> TRUE]
    /\ online = [b \in Brokers |-> TRUE]
    /\ verify = [b \in Brokers |-> FALSE]
    /\ tasks = {}
    /\ faults = 0
    /\ start = [b \in Brokers |-> 0]
    /\ crossed = {}

-----------------------------------------------------------------------------
(***************************************************************************)
(* store: PublishMsg first.  The stream keeps one message per subject.  An *)
(* acknowledgement that does not come back leaves the message stored, the  *)
(* view as it is and the publisher refused.                                *)
(***************************************************************************)
Publish(b, plan) ==
    /\ online[b] /\ ready[b]
    /\ Last < Len(plan) /\ log = SubSeq(plan, 1, Last)
    /\ log' = Append(log, plan[Last + 1])
    /\ alive' = (alive \ On(plan[Last + 1].topic)) \cup {Last + 1}
    /\ \/ storing' = [storing EXCEPT ![b] = @ \cup {Last + 1}] /\ UNCHANGED faults
       \/ UNCHANGED storing /\ Fault
    /\ UNCHANGED <<view, wire, pos, ready, online, verify, tasks, start, crossed>>

(* ... then the view, whatever it holds by now. *)
LocalUpdate(b) ==
    \E n \in storing[b] :
        LET t == log[n].topic
            newer == \E m \in n + 1..pos[b] : log[m].topic = t
        IN  /\ storing' = [storing EXCEPT ![b] = @ \ {n}]
            /\ view' = [view EXCEPT ![b][t] = [seq |-> n, by |-> "own"]]
            /\ crossed' = IF newer THEN crossed \cup {<<b, t>>} ELSE crossed
            /\ UNCHANGED <<log, alive, wire, pos, ready, online, verify, tasks, faults, start>>

(***************************************************************************)
(* The server sends the consumer the next message it still holds, and says *)
(* whether more are pending, which the broker heeds until it is ready.     *)
(***************************************************************************)
Unsent(b) == {n \in alive : n > pos[b] /\ \A k \in wire[b] : n > k.seq}
Send(b) ==
    \E n \in Unsent(b) :
        /\ online[b] /\ \A m \in Unsent(b) : n <= m
        /\ wire' = [wire EXCEPT ![b] = @ \cup {[seq |-> n, last |-> ready[b] \/ Unsent(b) = {n}]}]
        /\ UNCHANGED <<log, alive, view, storing, pos, ready, online, verify, tasks, faults,
                       start, crossed>>

caughtUp(k) == k.last

(* The consumer's loop: apply, and the end of the initial replay. *)
Apply(b) ==
    \E k \in wire[b] :
        LET t == log[k.seq].topic
        IN  /\ \A other \in wire[b] : k.seq <= other.seq
            /\ wire' = [wire EXCEPT ![b] = @ \ {k}]
            /\ pos' = [pos EXCEPT ![b] = k.seq]
            /\ view' = [view EXCEPT ![b][t] = [seq |-> k.seq, by |-> "fed"]]
            /\ ready' = [ready EXCEPT ![b] = @ \/ caughtUp(k)]
            /\ crossed' = crossed \ {<<b, t>>}
            /\ UNCHANGED <<log, alive, storing, online, verify, tasks, faults, start>>

-----------------------------------------------------------------------------
(***************************************************************************)
(* A message does not expire, and a tombstone is not due, before the       *)
(* brokers that are connected were fed it: the intervals are seconds and   *)
(* hours, the delivery milliseconds.                                       *)
(***************************************************************************)
DeliveredWhereOnline(n) == n \in alive => \A b \in Brokers : online[b] => pos[b] >= n

(* match and sweep: an entry is found expired. *)
FindExpired(b, t) ==
    LET n == Held(b, t)
        k == Task(b, t, "expired")
    IN  /\ isMsg(n) /\ log[n].kind = "timed" /\ DeliveredWhereOnline(n)
        /\ k \notin tasks /\ starts({k})
        /\ UNCHANGED <<log, alive, view, storing, wire, pos, ready, online, verify, faults,
                       start, crossed>>

dropIfSame(b, k) ==
    view' = IF view[b][k.topic] = k.entry THEN [view EXCEPT ![b][k.topic] = None] ELSE view

(* discard: out of the view if it is still there, ... *)
Discard(b) ==
    \E k \in tasks :
        /\ k.at = b /\ k.op = "expired"
        /\ dropIfSame(b, k)
        /\ becomes(k, {then(k, "delete", 0)})
        /\ UNCHANGED <<log, alive, storing, wire, pos, ready, online, verify, faults, start,
                       crossed>>

\* Mutant: the topic's message is removed, not the one that expired.
DeleteMsgOfTopic(k) == On(k.topic)
DeleteMsg(k) == {k.entry.seq}

(* ... then out of the stream; a failed delete is only logged. *)
DiscardDelete(b) ==
    \E k \in tasks :
        /\ k.at = b /\ k.op = "delete"
        /\ becomes(k, {})
        /\ \/ online[b] /\ alive' = alive \ DeleteMsg(k) /\ UNCHANGED faults
           \/ UNCHANGED alive /\ IF online[b] THEN Fault ELSE UNCHANGED faults
        /\ UNCHANGED <<log, view, storing, wire, pos, ready, online, verify, start, crossed>>

(* purgeTombstones, on the sweep's goroutine: a tombstone is due, ... *)
Purge(b, t) ==
    LET n == Held(b, t)
    IN  /\ n # 0 /\ ~isMsg(n) /\ DeliveredWhereOnline(n)
        /\ ready[b] /\ ~Sweeping(b)
        /\ starts({Task(b, t, "purge")})
        /\ UNCHANGED <<log, alive, view, storing, wire, pos, ready, online, verify, faults,
                       start, crossed>>

(* ... it leaves the stream, or a failed delete leaves it to the next sweep, ... *)
PurgeDelete(b) ==
    \E k \in tasks :
        /\ k.at = b /\ k.op = "purge"
        /\ \/ /\ online[b] /\ alive' = alive \ {k.entry.seq} /\ UNCHANGED faults
              /\ becomes(k, {then(k, "purged", 0)})
           \/ /\ becomes(k, {}) /\ UNCHANGED alive
              /\ IF online[b] THEN Fault ELSE UNCHANGED faults
        /\ UNCHANGED <<log, view, storing, wire, pos, ready, online, verify, start, crossed>>

(* ... then the view. *)
PurgeLocal(b) ==
    \E k \in tasks :
        /\ k.at = b /\ k.op = "purged"
        /\ dropIfSame(b, k)
        /\ becomes(k, {})
        /\ UNCHANGED <<log, alive, storing, wire, pos, ready, online, verify, faults, start,
                       crossed>>

-----------------------------------------------------------------------------
(* reconcile looks entries up when it must: a reconnect, or too many entries. *)
checkDue(b) == verify[b] \/ Cardinality({t \in Topics : view[b][t] # None}) > Cardinality(alive)

(* reconcile: the entries to look up. *)
Reconcile(b) ==
    /\ ready[b] /\ online[b] /\ ~Sweeping(b)
    /\ checkDue(b)
    /\ verify' = [verify EXCEPT ![b] = FALSE]
    /\ starts({Task(b, t, "check") : t \in {u \in Topics : view[b][u] # None}})
    /\ UNCHANGED <<log, alive, view, storing, wire, pos, ready, online, faults, start, crossed>>

(* GetMsg, and for a message that is gone GetLastMsgForSubject. *)
Lookup(b) ==
    \E k \in tasks :
        LET gone == k.entry.seq \notin alive
            latest == IF isMsg(k.entry.seq) THEN {m \in On(k.topic) : isMsg(m)} ELSE {}
            checked == IF latest = {} THEN {0} ELSE latest
        IN  /\ k.at = b /\ k.op = "check" /\ online[b]
            /\ becomes(k, IF gone THEN {then(k, "checked", m) : m \in checked} ELSE {})
            /\ UNCHANGED <<log, alive, view, storing, wire, pos, ready, online, verify, faults,
                           start, crossed>>

(* A lookup that is not answered leaves the entry; the check counts as made. *)
LookupUnknown(b) ==
    \E k \in tasks :
        /\ k.at = b /\ k.op = "check"
        /\ IF online[b] THEN Fault ELSE UNCHANGED faults
        /\ becomes(k, {})
        /\ UNCHANGED <<log, alive, view, storing, wire, pos, ready, online, verify, start,
                       crossed>>

\* Mutant: what was looked up is written whatever the view holds by now.
sameEntryAny(b, k) == TRUE
\* Mutant: an entry that is gone is left for a newer message that is to arrive.
sameEntryReplaced(b, k) == view[b][k.topic] = k.entry /\ k.res # 0
sameEntry(b, k) == view[b][k.topic] = k.entry

(* The entry makes way for the stream's message, or goes. *)
Mend(b) ==
    \E k \in tasks :
        LET read == IF k.res = 0 THEN None ELSE [seq |-> k.res, by |-> "read"]
        IN  /\ k.at = b /\ k.op = "checked"
            /\ becomes(k, {})
            /\ view' = IF sameEntry(b, k) THEN [view EXCEPT ![b][k.topic] = read] ELSE view
            /\ crossed' = IF sameEntry(b, k) /\ k.res \in alive THEN crossed \ {<<b, k.topic>>} ELSE crossed
            /\ UNCHANGED <<log, alive, storing, wire, pos, ready, online, verify, faults, start>>

-----------------------------------------------------------------------------
(* NATS is lost: what was on its way to the consumer is sent again later. *)
Outage(b) ==
    /\ online[b] /\ ready[b] /\ Fault
    /\ online' = [online EXCEPT ![b] = FALSE]
    /\ wire' = [wire EXCEPT ![b] = {}]
    /\ UNCHANGED <<log, alive, view, storing, pos, ready, verify, tasks, start, crossed>>

(* The reconnect count moves, which the sweep's goroutine is told. *)
Reconnect(b) ==
    /\ ~online[b]
    /\ online' = [online EXCEPT ![b] = TRUE]
    /\ verify' = [verify EXCEPT ![b] = TRUE]
    /\ UNCHANGED <<log, alive, view, storing, wire, pos, ready, tasks, faults, start, crossed>>

(* newRetainedStore: an empty view, and not ready unless the stream is empty. *)
Restart(b) ==
    /\ online[b] /\ Fault
    /\ view' = [view EXCEPT ![b] = [t \in Topics |-> None]]
    /\ storing' = [storing EXCEPT ![b] = {}]
    /\ wire' = [wire EXCEPT ![b] = {}]
    /\ pos' = [pos EXCEPT ![b] = 0]
    /\ ready' = [ready EXCEPT ![b] = alive = {}]
    /\ verify' = [verify EXCEPT ![b] = FALSE]
    /\ tasks' = {k \in tasks : k.at # b}
    /\ start' = [start EXCEPT ![b] = Last]
    /\ crossed' = {p \in crossed : p[1] # b}
    /\ UNCHANGED <<log, alive, online>>

Background(b) ==
    \/ LocalUpdate(b) \/ Send(b) \/ Apply(b)
    \/ \E t \in Topics : FindExpired(b, t) \/ Purge(b, t)
    \/ Discard(b) \/ DiscardDelete(b) \/ PurgeDelete(b) \/ PurgeLocal(b)
    \/ Reconcile(b) \/ Lookup(b) \/ Mend(b)

Next ==
    \E b \in Brokers :
        \/ \E plan \in Plans : Publish(b, plan)
        \/ Background(b) \/ LookupUnknown(b)
        \/ Outage(b) \/ Reconnect(b) \/ Restart(b)

Spec == Init /\ [][Next]_vars

(* Goroutines run, the consumer is served, the sweep ticks, NATS comes back. *)
Fairness == \A b \in Brokers : WF_vars(Background(b)) /\ WF_vars(Reconnect(b))
FairSpec == Spec /\ Fairness

-----------------------------------------------------------------------------
Ops == {"expired", "delete", "purge", "purged", "check", "checked"}
Made == [seq : 1..Last, by : Makers]
TaskSet == [at : Brokers, topic : Topics, entry : Made, op : Ops, res : 0..Last]
TypeOK ==
    /\ log \in Seq(Publications) /\ alive \subseteq 1..Last
    /\ view \in [Brokers -> [Topics -> {None} \cup Made]]
    /\ storing \in [Brokers -> SUBSET (1..Last)]
    /\ wire \in [Brokers -> SUBSET [seq : 1..Last, last : BOOLEAN]]
    /\ pos \in [Brokers -> 0..Last] /\ start \in [Brokers -> 0..Last]
    /\ ready \in [Brokers -> BOOLEAN] /\ online \in [Brokers -> BOOLEAN]
    /\ verify \in [Brokers -> BOOLEAN]
    /\ tasks \subseteq TaskSet
    /\ crossed \subseteq Brokers \X Topics

Shows(b, t, n) == Held(b, t) = n

(***************************************************************************)
(* What a broker was fed and the stream still holds is what its            *)
(* subscribers are sent: neither a check of the stream that read an older  *)
(* state, nor a discard or purge of another entry takes its place.         *)
(* Excepted: a message found expired, and a topic on which the broker's    *)
(* own update came after its consumer had applied something newer.         *)
(***************************************************************************)
FedIsShown ==
    \A b \in Brokers : \A n \in alive :
        LET t == log[n].topic
        IN  n <= pos[b] /\ log[n].kind # "timed" /\ <<b, t>> \notin crossed
                => Shows(b, t, n)

(* As FedIsShown, without the exception for the broker's own late update. *)
FedIsAlwaysShown ==
    \A b \in Brokers : \A n \in alive :
        n <= pos[b] /\ log[n].kind # "timed" => Shows(b, log[n].topic, n)

(***************************************************************************)
(* A retained message that does not expire leaves the stream only because  *)
(* its topic was published on again, whichever brokers discard expired     *)
(* messages and purge tombstones of the topic at the same time.            *)
(***************************************************************************)
OnlyReplacedLeaves ==
    \A n \in 1..Last : log[n].kind = "plain" /\ n \notin alive
        => \E m \in n + 1..Last : log[m].topic = log[n].topic

(***************************************************************************)
(* A broker that serves has been fed everything that was retained when it  *)
(* started and still is.                                                   *)
(***************************************************************************)
ReadyIsComplete ==
    \A b \in Brokers : ready[b] => \A n \in alive : n <= start[b] => n <= pos[b]

Agrees(b, t) ==
    /\ On(t) = {} => Held(b, t) = 0
    /\ \A n \in On(t) : Shows(b, t, n) \/ (log[n].kind = "timed" /\ Held(b, t) = 0)

(***************************************************************************)
(* Once publishing stops every view comes to agree with the stream and     *)
(* stays so, also one that was cut off while a clear came and its          *)
(* tombstone was purged: the check after a reconnect finds it.             *)
(***************************************************************************)
ViewsSettle ==
    <>[](\A b \in Brokers, t \in Topics : <<b, t>> \notin crossed => Agrees(b, t))
=============================================================================

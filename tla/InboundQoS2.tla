---------------------------- MODULE InboundQoS2 ----------------------------
(***************************************************************************)
(* What a client publishes at QoS 1 and 2 (handlePublish, handlePubrel,    *)
(* durable_dedupe.go, the checkpoint before an acknowledgement).           *)
(*                                                                         *)
(* The client follows the protocol: it resends what is unacknowledged when *)
(* it connects again, on any broker.  Each connection has a reader that    *)
(* handles one packet at a time; the reader of a connection that has been  *)
(* displaced goes on with the packet it has in hand.  The offline queue is *)
(* on.  A broker has heard of every claim before the client returns to it. *)
(***************************************************************************)
EXTENDS Integers, FiniteSets, Sequences

CONSTANTS
    Brokers,
    First,          \* the broker the client connects to first
    Ids,            \* Packet Identifiers
    Levels,         \* the QoS levels published at, of 1 and 2
    ReceiveMax,     \* the Receive Maximum the broker announced
    Dedupe,         \* Options.DurablePublishDedupe
    MaxMsgs,        \* messages the client publishes
    MaxConns,       \* connections it makes
    MaxFaults       \* brokers killed, publishes refused, writes that fail

ASSUME InboundAssumption ==
    /\ Levels \subseteq {1, 2} /\ Dedupe \in BOOLEAN
    /\ ReceiveMax \in Nat /\ MaxMsgs \in Nat /\ MaxConns \in Nat
    /\ MaxFaults \in Nat

Msgs == 1..MaxMsgs
Conns == 1..MaxConns
Nil == 0
NoPacket == [t |-> "none", id |-> Nil, m |-> Nil, dup |-> FALSE, mid |-> Nil]
NoEntry == [m |-> Nil, mid |-> Nil]

VARIABLES
    cst,       \* per message: the client's view of it
    pid,       \* per message: its Packet Identifier
    qos,       \* per message: its QoS
    conn,      \* the client's connection, Nil when it has none
    up,        \* the brokers that run
    at,        \* per connection: its broker, once made
    in,        \* per connection: the packets its reader has still to read
    stage,     \* per connection: what its reader is doing
    hand,      \* per connection: the packet its reader handles
    shut,      \* the connections the broker has closed
    openQoS2,  \* per connection: the identifiers counted against ReceiveMax
    obj,       \* per connection: its session object
    sess,      \* the session objects
    mem,       \* per broker: the session it remembers
    rec,       \* the stored record: the claim, and the identifiers received
    queued,    \* per message: the ids it has queue copies under
    sent,      \* per message: the ids it has live copies under
    faults     \* faults so far

VARIABLES
    overlap,   \* two readers had packets of one identifier in hand, or a reader
               \* took a packet after its connection was closed
    exposed,   \* the messages a session was rebuilt without
    known,     \* the messages the record has had as received
    unwritten  \* a checkpoint before an acknowledgement was not written

clientVars == <<cst, pid, qos, conn>>
readerVars == <<at, in, stage, hand, shut, openQoS2, obj>>
sessVars == <<sess, mem, rec>>
outVars == <<queued, sent>>
ghosts == <<overlap, exposed, known, unwritten>>
vars == <<clientVars, up, readerVars, sessVars, outVars, faults, ghosts>>

\* newSession: receivedQoS2, qos2Forwarding, publishIDs (what the last publish
\* under an identifier was, and its message id) and the connection whose claim is
\* bound.  A message id is the number of the connection that made it.
NewSession(recv, k) ==
    [recv |-> recv, forwarding |-> {}, pending |-> [i \in Ids |-> NoEntry],
     gen |-> k]

Init ==
    /\ cst = [m \in Msgs |-> "new"]
    /\ pid = [m \in Msgs |-> Nil]
    /\ qos = [m \in Msgs |-> Nil]
    /\ conn = Nil
    /\ up = Brokers
    /\ at = [k \in Conns |-> Nil]
    /\ in = [k \in Conns |-> <<>>]
    /\ stage = [k \in Conns |-> "none"]
    /\ hand = [k \in Conns |-> NoPacket]
    /\ shut = {}
    /\ openQoS2 = [k \in Conns |-> {}]
    /\ obj = [k \in Conns |-> Nil]
    /\ sess = [k \in Conns |-> NewSession({}, Nil)]
    /\ mem = [b \in Brokers |-> Nil]
    /\ rec = [by |-> Nil, recv |-> {}]
    /\ queued = [m \in Msgs |-> {}]
    /\ sent = [m \in Msgs |-> {}]
    /\ faults = 0
    /\ overlap = FALSE
    /\ exposed = {}
    /\ known = {}
    /\ unwritten = FALSE

Unfinished(m) == cst[m] \in {"pub", "rel"}
Goes(k, to) == stage' = [stage EXCEPT ![k] = to]

----------------------------------------------------------------------------
(* The client. *)

Packet(t, id, m, dup) == [t |-> t, id |-> id, m |-> m, dup |-> dup, mid |-> Nil]

\* A conforming client resends in order what is not acknowledged.
Resent(m) == Packet(IF cst[m] = "pub" THEN "PUBLISH" ELSE "PUBREL", pid[m], m, TRUE)
InOrder(f, n) ==
    /\ \A i, j \in 1..n : i < j => f[i] < f[j]
    /\ {f[i] : i \in 1..n} = {m \in Msgs : Unfinished(m)}

Publish(m, id, q) ==
    /\ conn # Nil
    /\ cst[m] = "new" /\ \A n \in 1..(m - 1) : cst[n] # "new"
    /\ \A n \in Msgs : Unfinished(n) => pid[n] # id
    /\ q = 2 => Cardinality({n \in Msgs : Unfinished(n) /\ qos[n] = 2}) < ReceiveMax
    /\ cst' = [cst EXCEPT ![m] = "pub"]
    /\ pid' = [pid EXCEPT ![m] = id]
    /\ qos' = [qos EXCEPT ![m] = q]
    /\ in' = [in EXCEPT ![conn] = Append(in[conn], Packet("PUBLISH", id, m, FALSE))]
    /\ UNCHANGED <<conn, up, at, stage, hand, shut, openQoS2, obj, sessVars,
                   outVars, faults, ghosts>>

\* The connection breaks; of what was on its way some is still read.
Drop ==
    /\ conn \notin {Nil, MaxConns}
    /\ conn' = Nil
    /\ \E n \in 0..Len(in[conn]) : in' = [in EXCEPT ![conn] = SubSeq(in[conn], 1, n)]
    /\ UNCHANGED <<cst, pid, qos, up, at, stage, hand, shut, openQoS2, obj,
                   sessVars, outVars, faults, ghosts>>

\* The client connects to b, which resumes the session it remembers or rebuilds
\* it from the record (restoreReceivedQoS2); the claim takes the identifiers out
\* of the record.  The connection before it is closed, and a broker that has lost
\* the record forgets the session (sessionLost).
Connect(k, b) ==
    LET warm == mem[b] # Nil
        o == IF warm THEN mem[b] ELSE k
        unknown == {m \in Msgs : cst[m] = "pub" /\ pid[m] \notin rec.recv}
    IN
    /\ conn = Nil /\ b \in up
    /\ stage[k] = "none" /\ \A j \in 1..(k - 1) : stage[j] # "none"
    /\ k = 1 => b = First
    /\ conn' = k
    /\ Goes(k, "idle")
    /\ at' = [at EXCEPT ![k] = b]
    /\ obj' = [obj EXCEPT ![k] = o]
    /\ sess' = [sess EXCEPT ![o] = IF warm THEN [sess[o] EXCEPT !.gen = k]
                                   ELSE NewSession(rec.recv, k)]
    /\ mem' = [c \in Brokers |-> IF c = b THEN o ELSE Nil]
    /\ rec' = [by |-> k, recv |-> {}]
    /\ shut' = shut \cup {j \in Conns : j < k}
    /\ \E n \in 0..MaxMsgs : \E f \in [1..n -> Msgs] :
          InOrder(f, n) /\ in' = [in EXCEPT ![k] = [i \in 1..n |-> Resent(f[i])]]
    /\ exposed' = IF warm THEN exposed ELSE exposed \cup unknown
    /\ UNCHANGED <<cst, pid, qos, up, hand, openQoS2, outVars, faults, overlap,
                   known, unwritten>>

----------------------------------------------------------------------------
(* The reader of connection k. *)

\* Writing the acknowledgement t of message m: the client takes it, and answers
\* a PUBREC with the PUBREL, unless the connection is gone.
Received(t, m) ==
    CASE t = "PUBREC" /\ cst[m] = "pub"  -> "rel"
      [] t = "refusal" /\ cst[m] = "pub" -> "refused"
      [] t \in {"PUBACK", "PUBCOMP"}     -> "done"
      [] OTHER                           -> cst[m]

Write(k, t, m, rest) ==
    IF conn = k /\ k \notin shut
    THEN /\ cst' = [cst EXCEPT ![m] = Received(t, m)]
         /\ in' = IF t = "PUBREC" /\ cst[m] = "pub"
                  THEN [rest EXCEPT ![k] = Append(rest[k], Packet("PUBREL", pid[m], m, FALSE))]
                  ELSE rest
         /\ Goes(k, "idle")
    ELSE Goes(k, "end") /\ in' = rest /\ UNCHANGED cst

\* readLoop: a connection that has been closed reads no more; one that is closed
\* after this check still reads a packet it has.
Arm(k) ==
    /\ stage[k] = "idle" /\ at[k] \in up
    /\ Goes(k, IF k \in shut THEN "end" ELSE "armed")
    /\ UNCHANGED <<clientVars, up, at, in, hand, shut, openQoS2, obj, sessVars,
                   outVars, faults, ghosts>>

ReadFails(k) ==
    /\ stage[k] = "armed" /\ at[k] \in up
    /\ in[k] = <<>> /\ (conn # k \/ k \in shut)
    /\ Goes(k, "end")
    /\ UNCHANGED <<clientVars, up, at, in, hand, shut, openQoS2, obj, sessVars,
                   outVars, faults, ghosts>>

Overlaps(k, p) ==
    k \in shut \/ \E j \in Conns : obj[j] = obj[k] /\ hand[j].id = p.id

\* Mutant: a repeat is dropped without an answer.
repeatIgnored == "nothing"

\* What a repeat is answered with.
repeatAnswer == "PUBREC"

\* markQoS2Received.
received(o, id) ==
    [sess EXCEPT ![o] = [sess[o] EXCEPT !.recv = sess[o].recv \cup {id},
                                        !.forwarding = sess[o].forwarding \cup {id}]]

\* handlePublish as far as markQoS2Received: over the Receive Maximum, a repeat,
\* or a message to forward.
ReadPublish(k) ==
    LET p == Head(in[k])
        o == obj[k]
        exact == qos[p.m] = 2
        over == exact /\ p.id \notin openQoS2[k]
                /\ Cardinality(openQoS2[k]) >= ReceiveMax
        repeat == exact /\ p.id \in sess[o].recv
        rest == [in EXCEPT ![k] = Tail(in[k])]
    IN
    /\ stage[k] = "armed" /\ at[k] \in up
    /\ in[k] # <<>> /\ p.t = "PUBLISH"
    /\ overlap' = (overlap \/ Overlaps(k, p))
    /\ openQoS2' = IF exact /\ ~over
                   THEN [openQoS2 EXCEPT ![k] = openQoS2[k] \cup {p.id}] ELSE openQoS2
    /\ \/ /\ over
          /\ Goes(k, "kicked")
          /\ in' = rest
          /\ UNCHANGED <<cst, hand, sess>>
       \/ /\ ~over /\ repeat
          /\ Write(k, repeatAnswer, p.m, rest)
          /\ UNCHANGED <<hand, sess>>
       \/ /\ ~over /\ ~repeat
          /\ Goes(k, "auth")
          /\ in' = rest
          /\ hand' = [hand EXCEPT ![k] = p]
          /\ sess' = IF exact THEN received(o, p.id) ELSE sess
          /\ UNCHANGED cst
    /\ UNCHANGED <<pid, qos, conn, up, at, shut, obj, mem, rec, outVars, faults,
                   exposed, known, unwritten>>

\* releaseQoS2.
released(o, id) ==
    [sess EXCEPT ![o] = [sess[o] EXCEPT !.recv = sess[o].recv \ {id},
                                        !.forwarding = sess[o].forwarding \ {id}]]

quotaBack(k, id) == [openQoS2 EXCEPT ![k] = openQoS2[k] \ {id}]

\* rejectPublish, for whatever reason.
Reject(k) ==
    LET p == hand[k] IN
    /\ faults < MaxFaults
    /\ faults' = faults + 1
    /\ hand' = [hand EXCEPT ![k] = NoPacket]
    /\ IF qos[p.m] = 2
       THEN /\ sess' = released(obj[k], p.id)
            /\ openQoS2' = quotaBack(k, p.id)
       ELSE UNCHANGED <<sess, openQoS2>>
    /\ Write(k, "refusal", p.m, in)

\* publishIDs: what the last publish under an identifier was.
pends(s, id, e) == [s EXCEPT !.pending = [s.pending EXCEPT ![id] = e]]

\* Mutant: every publish has an id of its own.
idForFresh(k) == k

\* idFor: the repeat of a publish that was not acknowledged has its message id.
idFor(k) ==
    LET p == hand[k]
        e == sess[obj[k]].pending[p.id]
    IN IF Dedupe /\ p.dup /\ e.m = p.m THEN e.mid ELSE k

\* The Authorizer allows the message, which gets its message id, or does not.
Authorize(k) ==
    LET p == hand[k] IN
    /\ stage[k] = "auth" /\ at[k] \in up
    /\ \/ /\ Goes(k, "keep")
          /\ hand' = [hand EXCEPT ![k] = [hand[k] EXCEPT !.mid = idFor(k)]]
          /\ sess' = IF Dedupe
                     THEN [sess EXCEPT ![obj[k]] =
                             pends(sess[obj[k]], p.id, [m |-> p.m, mid |-> idFor(k)])]
                     ELSE sess
          /\ UNCHANGED <<cst, in, openQoS2, faults>>
       \/ Reject(k)
    /\ UNCHANGED <<pid, qos, conn, up, at, shut, obj, mem, rec, outVars, ghosts>>

\* Mutant: there is no queue copy.
keptNowhere(k) == queued
kept(k) == [queued EXCEPT ![hand[k].m] = queued[hand[k].m] \cup {hand[k].mid}]

\* offlineQueue.keep: the queue copy is stored, which JetStream does once for a
\* message id; a write that fails may have been stored.
Keep(k) ==
    /\ stage[k] = "keep" /\ at[k] \in up
    /\ \/ /\ queued' = kept(k)
          /\ Goes(k, "live")
          /\ UNCHANGED <<cst, in, hand, openQoS2, sess, faults>>
       \/ Reject(k) /\ queued' \in {queued, kept(k)}
    /\ UNCHANGED <<pid, qos, conn, up, at, shut, obj, mem, rec, sent, ghosts>>

\* The live copy is published, and with DurablePublish confirmed.
Live(k) ==
    LET out == [sent EXCEPT ![hand[k].m] = sent[hand[k].m] \cup {hand[k].mid}] IN
    /\ stage[k] = "live" /\ at[k] \in up
    /\ \/ /\ sent' = out
          /\ Goes(k, "record")
          /\ UNCHANGED <<cst, in, hand, openQoS2, sess, faults>>
       \/ Reject(k) /\ sent' \in {sent, out}
    /\ UNCHANGED <<pid, qos, conn, up, at, shut, obj, mem, rec, queued, ghosts>>

\* inflightState: only what has been forwarded is recorded.
recorded(s) == s.recv \ s.forwarding

\* checkpointSession of connection k, with s its session: nothing is written for
\* a connection that is closed or no longer holds the claim.
Holds(k) == k \notin shut /\ sess[obj[k]].gen = k /\ rec.by = k
checkpointed(k, s) == [rec EXCEPT !.recv = recorded(s)]

Has(ids) == {m \in Msgs : cst[m] = "pub" /\ pid[m] \in ids}

\* checkpointNow: a failed write does not stop the acknowledgement.
CheckpointNow(k, s) ==
    \/ /\ rec' = IF Holds(k) THEN checkpointed(k, s) ELSE rec
       /\ known' = known \cup Has(rec'.recv)
       /\ UNCHANGED <<faults, unwritten>>
    \/ /\ Holds(k) /\ faults < MaxFaults
       /\ faults' = faults + 1
       /\ unwritten' = TRUE
       /\ UNCHANGED <<rec, known>>

\* The message is forwarded: publishIDs.done, qos2Forwarded, the checkpoint, and
\* the PUBACK or PUBREC.
Record(k) ==
    LET p == hand[k]
        o == obj[k]
        done == IF Dedupe THEN pends(sess[o], p.id, NoEntry) ELSE sess[o]
        s == [done EXCEPT !.forwarding = sess[o].forwarding \ {p.id}]
    IN
    /\ stage[k] = "record" /\ at[k] \in up
    /\ hand' = [hand EXCEPT ![k] = NoPacket]
    /\ IF qos[p.m] = 2
       THEN /\ sess' = [sess EXCEPT ![o] = s]
            /\ CheckpointNow(k, s)
            /\ Write(k, "PUBREC", p.m, in)
       ELSE /\ sess' = [sess EXCEPT ![o] = done]
            /\ Write(k, "PUBACK", p.m, in)
            /\ UNCHANGED <<rec, faults, known, unwritten>>
    /\ UNCHANGED <<pid, qos, conn, up, at, shut, openQoS2, obj, mem, outVars,
                   overlap, exposed>>

\* handlePubrel: the identifier is released, then recorded and confirmed.
ReadPubrel(k) ==
    LET p == Head(in[k]) IN
    /\ stage[k] = "armed" /\ at[k] \in up
    /\ in[k] # <<>> /\ p.t = "PUBREL"
    /\ Goes(k, "release")
    /\ in' = [in EXCEPT ![k] = Tail(in[k])]
    /\ hand' = [hand EXCEPT ![k] = p]
    /\ openQoS2' = quotaBack(k, p.id)
    /\ sess' = released(obj[k], p.id)
    /\ overlap' = (overlap \/ Overlaps(k, p))
    /\ UNCHANGED <<clientVars, up, at, shut, obj, mem, rec, outVars, faults,
                   exposed, known, unwritten>>

Release(k) ==
    /\ stage[k] = "release" /\ at[k] \in up
    /\ hand' = [hand EXCEPT ![k] = NoPacket]
    /\ CheckpointNow(k, sess[obj[k]])
    /\ Write(k, "PUBCOMP", hand[k].m, in)
    /\ UNCHANGED <<pid, qos, conn, up, at, shut, openQoS2, obj, sess, mem,
                   outVars, overlap, exposed>>

\* checkpointLoop: a tick.
Checkpoint(k) ==
    /\ stage[k] \notin {"none", "end", "over", "kicked"} /\ at[k] \in up
    /\ Holds(k) /\ rec.recv # recorded(sess[obj[k]])
    /\ rec' = checkpointed(k, sess[obj[k]])
    /\ known' = known \cup Has(rec'.recv)
    /\ UNCHANGED <<clientVars, up, readerVars, sess, mem, outVars, faults, overlap,
                   exposed, unwritten>>

\* finish: the connection is closed, and the record released if still held.
Finish(k) ==
    /\ stage[k] \in {"end", "kicked"} /\ at[k] \in up
    /\ Goes(k, "over")
    /\ conn' = IF conn = k THEN Nil ELSE conn
    /\ shut' = shut \cup {k}
    /\ rec' = IF sess[obj[k]].gen = k /\ rec.by = k
              THEN checkpointed(k, sess[obj[k]]) ELSE rec
    /\ known' = known \cup Has(rec'.recv)
    /\ UNCHANGED <<cst, pid, qos, up, at, in, hand, openQoS2, obj, sess, mem,
                   outVars, faults, overlap, exposed, unwritten>>

\* A broker is killed.
Kill(b) ==
    LET gone == {k \in Conns : at[k] = b /\ stage[k] \notin {"none", "over"}} IN
    /\ b \in up /\ faults < MaxFaults
    /\ faults' = faults + 1
    /\ up' = up \ {b}
    /\ mem' = [mem EXCEPT ![b] = Nil]
    /\ conn' = IF conn \in gone THEN Nil ELSE conn
    /\ stage' = [k \in Conns |-> IF k \in gone THEN "over" ELSE stage[k]]
    /\ UNCHANGED <<cst, pid, qos, at, in, hand, shut, openQoS2, obj, sess, rec,
                   outVars, ghosts>>

----------------------------------------------------------------------------

ReaderStep(k) ==
    \/ Arm(k) \/ ReadFails(k) \/ ReadPublish(k) \/ ReadPubrel(k) \/ Authorize(k)
    \/ Keep(k) \/ Live(k) \/ Record(k) \/ Release(k) \/ Finish(k)

Next ==
    \/ \E m \in Msgs, id \in Ids, q \in Levels : Publish(m, id, q)
    \/ Drop
    \/ \E k \in Conns, b \in Brokers : Connect(k, b)
    \/ \E k \in Conns : ReaderStep(k) \/ Checkpoint(k)
    \/ \E b \in Brokers : Kill(b)

Spec == Init /\ [][Next]_vars

\* Readers go on with what they have, and the client connects again.
Fairness ==
    /\ \A k \in Conns : WF_vars(ReaderStep(k))
    /\ WF_vars(\E k \in Conns, b \in Brokers : Connect(k, b))

FairSpec == Spec /\ Fairness

----------------------------------------------------------------------------
(* Properties. *)

\* checkpoint.go, checkpointNow: once the client need not send a message again,
\* it has been forwarded, to the queue and live.
AckedIsForwarded ==
    \A m \in Msgs : cst[m] \in {"rel", "done"} => queued[m] # {} /\ sent[m] # {}

\* The same, as long as one reader at a time handles an identifier and records
\* are written.
AckedWasForwarded ==
    ~overlap /\ ~unwritten => AckedIsForwarded

\* A message is forwarded twice only if the session was rebuilt from a record
\* that did not have it yet, or a record could not be written.
ForwardedOnce ==
    ~overlap /\ ~unwritten => \A m \in Msgs :
        qos[m] = 2 /\ m \notin exposed => \A x, y \in queued[m] \cup sent[m] : x = y

\* publish.go, handlePublish: "a successor of a broker killed after it must not
\* forward a resend": a connection does not take for a new message the resend of
\* one whose identifier has been in the record.
KnownIsRepeat ==
    [][~overlap' /\ ~unwritten =>
           \A k \in Conns : stage[k] = "armed" /\ stage'[k] = "auth"
                           => hand'[k].m \notin known]_vars

\* Every message is settled in the end, unless the client has no connection left
\* to make: a refusal or a displaced reader never leaves an exchange hanging.
Stranded == conn = Nil /\ \A k \in Conns : stage[k] # "none"
Settled ==
    \A m \in Msgs :
        Unfinished(m) ~> cst[m] \in {"done", "refused"} \/ Stranded
=============================================================================

------------------------------ MODULE Inflight ------------------------------
(***************************************************************************)
(* The QoS 1 and QoS 2 messages one session has sent and is waiting to     *)
(* have acknowledged (session.go, publish.go, retransmit.go): Packet       *)
(* Identifiers, the in-flight set, the send quota of each connection, the  *)
(* resend after a resumption, withdrawn and resent identifiers, and a      *)
(* displaced connection whose reader and delivery goroutine are still      *)
(* finishing while its successor runs.                                     *)
(*                                                                         *)
(* Connections are numbered in the order they attach; 0 is no connection.  *)
(* A message is its place in the order of sending, which is outbound.seq.  *)
(* The client obeys MQTT: it acknowledges in order what it receives, and   *)
(* reads only its newest connection.                                       *)
(***************************************************************************)
EXTENDS Naturals, FiniteSets, Sequences, SequencesExt

CONSTANTS
    MaxId,          \* Packet Identifiers 1..MaxId (65535 in the code)
    Levels,         \* the QoS levels in use, a subset of {1, 2}
    Settings,       \* the clients and the circumstances, one of which Init chooses
    MaxConns        \* bound: connections, in any setting

ASSUME SizesAssumption ==
    /\ MaxId \in Nat \ {0} /\ Levels \subseteq {1, 2}
    /\ Settings \subseteq [receiveMaximum : Nat \ {0}, maxMsgs : Nat,
                           maxAttaches : 1..MaxConns, maxWithdrawals : Nat,
                           keepsAcks : BOOLEAN, discards : BOOLEAN, slowStart : BOOLEAN]
    /\ MaxConns \in Nat \ {0}

VARIABLES
    setting,      \* the client and the circumstances of this behaviour
    inflight,     \* session.inflight
    withdrawn,    \* session.withdrawn
    resent,       \* session.resent
    nextPacketID, \* session.nextPacketID
    conn,         \* session.conn
    predecessor,  \* session.predecessor
    attaches,     \* session.attaches: also the number of the newest connection
    msgs,         \* messages sent so far (session.sendSeq)
    revoked,      \* permissions revoked so far
    quota,        \* the slots taken in each connection's send quota
    done,         \* the connections closed
    loop,         \* each connection's delivery goroutine
    reader,       \* each connection's read loop
    pubrels,      \* conn.relIDs
    out,          \* packets on their way to the client
    inp,          \* acknowledgements on their way to the newest connection
    owed,         \* acknowledgements the client has yet to send
    unreleased,   \* identifiers the client holds for QoS 2, until a PUBREL
    got,          \* history: the QoS 2 messages the client took as new
    twice,        \* history: those it took as new more than once
    open,         \* history: written on the newest connection, no answer read
    kicked        \* history: a connection ended for an unknown identifier

sessVars == <<inflight, withdrawn, resent>>
idVars   == <<nextPacketID, msgs, revoked>>
connVars == <<conn, predecessor, attaches, done>>
loopVars == <<quota, loop>>
readVars == <<reader, pubrels>>
netVars  == <<out, inp, owed>>
userVars == <<unreleased, got, twice>>
vars == <<sessVars, idVars, connVars, loopVars, readVars, netVars, userVars, open, kicked>>

ReceiveMaximum == setting.receiveMaximum  \* the client's Receive Maximum
MaxMsgs   == setting.maxMsgs     \* bound: messages sent
MaxAttaches    == setting.maxAttaches     \* bound: connections
MaxWithdrawals == setting.maxWithdrawals  \* bound: permissions revoked
KeepsAcks == setting.keepsAcks   \* the client sends what it owes on the next connection
Discards  == setting.discards    \* messages expire, or exceed the Maximum Packet Size
SlowStart == setting.slowStart   \* a takeover may fall between a CONNACK and loopStarted

Ids   == 1..MaxId
Conns == 1..MaxConns

\* A map without the identifiers in S, and with one set.
Without(f, S) == Restrict(f, DOMAIN f \ S)
With(f, id, v) == [i \in DOMAIN f \cup {id} |-> IF i = id THEN v ELSE f[i]]

NoIds == [id \in {} |-> 0]

NoAck == [typ |-> "NONE", id |-> 0, msg |-> 0]
ack(typ, id, msg) == [typ |-> typ, id |-> id, msg |-> msg]

\* The acknowledgement that ends an exchange from the client's side.
owedAck(o) == IF o.qos = 1 THEN "PUBACK" ELSE "PUBCOMP"

-----------------------------------------------------------------------------
(* The session's state, under session.mu.                                  *)

\* The first copy's acknowledgement comes before the second copy, which has its
\* slot, is written.
overtaken(c, id, o) ==
    /\ id \in DOMAIN resent
    /\ resent[id].conn = c /\ ~resent[id].written /\ ~resent[id].quota
    /\ o.quotaHeld /\ o.resentOn = c

\* What completing id on connection c leaves; slot is whether c's send quota
\* gets a slot back.
completeInflight(c, id) ==
    IF id \notin DOMAIN inflight
    THEN [inflight |-> inflight, withdrawn |-> withdrawn, resent |-> resent, slot |-> FALSE]
    ELSE LET o        == inflight[id]
             overtook == overtaken(c, id, o)
             displaced == o.resentOn \notin {0, c}
         IN  [inflight  |-> Without(inflight, {id}),
              withdrawn |-> IF displaced
                            THEN With(withdrawn, id,
                                      [madeAt |-> attaches, owed |-> owedAck(o),
                                       holder |-> IF o.quotaHeld THEN o.resentOn ELSE 0])
                            ELSE withdrawn,
              resent    |-> IF overtook THEN [resent EXCEPT ![id].quota = TRUE] ELSE resent,
              slot      |-> o.quotaHeld /\ ~overtook /\ ~displaced]

\* abandonResend: the copy does not go out after all.
abandonResend(c, id) ==
    IF id \in DOMAIN resent /\ resent[id].conn = c THEN Without(resent, {id}) ELSE resent

\* releaseQuota never blocks: an empty quota stays empty.
releaseQuota(c) == quota' = [quota EXCEPT ![c] = IF @ = 0 THEN 0 ELSE @ - 1]

\* The identifiers after nextPacketID, in the order nextID tries them.
idAfter(k) == ((nextPacketID + k - 1) % MaxId) + 1

\* Mutant: an identifier still in flight is handed out again.
freeIdUnchecked(id) == id \notin DOMAIN withdrawn

freeId(id) == id \notin DOMAIN inflight /\ id \notin DOMAIN withdrawn
nextID(id) == \E k \in Ids : /\ id = idAfter(k) /\ freeId(id)
                             /\ \A j \in 1..(k - 1) : ~freeId(idAfter(j))

\* Mutant: only PUBLISH packets are resent.
unacknowledgedPublishes ==
    LET order == SetToSortSeq({id \in DOMAIN inflight : ~inflight[id].pubcomp},
                              LAMBDA a, b : inflight[a].msg < inflight[b].msg)
    IN  [i \in DOMAIN order |-> [id |-> order[i], pubcomp |-> FALSE]]

\* unacknowledged: the in-flight set in the order it was sent.
unacknowledged ==
    LET snapshot(id) == [id |-> id, pubcomp |-> inflight[id].pubcomp]
        order == SetToSortSeq(DOMAIN inflight, LAMBDA a, b : inflight[a].msg < inflight[b].msg)
    IN  [i \in DOMAIN order |-> snapshot(order[i])]

-----------------------------------------------------------------------------
(* Writing to the client.  A write on a closed connection fails, and the   *)
(* connection that fails to write closes.                                  *)

write(c, p) == c \notin done /\ out' = Append(out, p)

NoEntry == [id |-> 0, msg |-> 0, qos |-> 0]
idle == [at |-> "run", todo |-> <<>>, slot |-> FALSE, o |-> NoEntry, ready |-> <<>>]
over == [idle EXCEPT !.at = "over"]

-----------------------------------------------------------------------------
(* The delivery goroutine: the resend, then new messages.                  *)

\* The end of the handshake: a CONNACK that cannot be written ends the connection
\* before it has a delivery goroutine; otherwise serve starts one.
Connack(c) ==
    /\ loop[c].at = "connack"
    /\ loop' = [loop EXCEPT ![c] = IF c \in done THEN over
                                   ELSE [@ EXCEPT !.at = IF SlowStart THEN "starting" ELSE "wait"]]
    /\ UNCHANGED <<sessVars, idVars, connVars, quota, readVars, netVars, userVars, open, kicked>>

LoopStart(c) ==
    /\ loop[c].at = "starting"
    /\ loop' = [loop EXCEPT ![c].at = "wait"]
    /\ UNCHANGED <<sessVars, idVars, connVars, quota, readVars, netVars, userVars, open, kicked>>

\* Mutant: the snapshot does not wait for the predecessor's goroutine.
LoopBeginAtOnce(c) ==
    /\ loop[c].at = "wait"
    /\ loop' = [loop EXCEPT ![c] = [idle EXCEPT !.at = "resend", !.todo = unacknowledged]]
    /\ UNCHANGED <<sessVars, idVars, connVars, quota, readVars, netVars, userVars, open, kicked>>

\* awaitPredecessorLoop, then the snapshot retransmit works from.  One that has
\* not started is not waited for.  A goroutine whose writes fail ends within the
\* ten seconds of predecessorWait, so that the wait never gives up.
LoopBegin(c) ==
    /\ loop[c].at = "wait"
    /\ predecessor \notin {0, c} => loop[predecessor].at \in {"connack", "starting", "over"} \/ c \in done
    /\ loop' = [loop EXCEPT ![c] = [idle EXCEPT !.at = "resend", !.todo = unacknowledged]]
    /\ UNCHANGED <<sessVars, idVars, connVars, quota, readVars, netVars, userVars, open, kicked>>

\* The goroutine goes on with the next entry of its snapshot.
nextEntry(l) == [l EXCEPT !.at = "resend", !.todo = Tail(@), !.slot = FALSE, !.o = NoEntry]

\* Mutant: the slot of a resend that did not go out is kept.
UnspentKept(c) == loop' = [loop EXCEPT ![c] = nextEntry(@)] /\ UNCHANGED quota

\* resend: nothing went out that an acknowledgement will pay for.
Unspent(c) ==
    /\ loop' = [loop EXCEPT ![c] = nextEntry(@)]
    /\ IF loop[c].slot THEN releaseQuota(c) ELSE UNCHANGED quota

Resending(c, at) == loop[c].at = at /\ loop[c].todo # <<>>
entry(c) == Head(loop[c].todo).id

\* A PUBREL costs no send quota; a PUBLISH waits for a slot, or for the end.
ResendSlot(c) ==
    /\ Resending(c, "resend")
    /\ \/ /\ Head(loop[c].todo).pubcomp
          /\ loop' = [loop EXCEPT ![c].at = "read"]
          /\ UNCHANGED quota
       \/ /\ ~Head(loop[c].todo).pubcomp
          /\ quota[c] < ReceiveMaximum
          /\ quota' = [quota EXCEPT ![c] = @ + 1]
          /\ loop' = [loop EXCEPT ![c].at = "read", ![c].slot = TRUE]
       \/ /\ ~Head(loop[c].todo).pubcomp
          /\ c \in done
          /\ loop' = [loop EXCEPT ![c] = nextEntry(@)]
          /\ UNCHANGED quota
    /\ UNCHANGED <<sessVars, idVars, connVars, readVars, netVars, userVars, open, kicked>>

copyOf(id) == [id |-> id, msg |-> inflight[id].msg, qos |-> inflight[id].qos]

\* inflightEntry: the live entry decides what is still owed.
ResendRead(c) ==
    /\ Resending(c, "read")
    /\ \/ entry(c) \notin DOMAIN inflight /\ Unspent(c)
       \/ /\ entry(c) \in DOMAIN inflight
          /\ loop' = [loop EXCEPT ![c].at = IF inflight[entry(c)].pubcomp THEN "mark" ELSE "claim",
                                  ![c].o = copyOf(entry(c))]
          /\ UNCHANGED quota
    /\ UNCHANGED <<sessVars, idVars, connVars, readVars, netVars, userVars, open, kicked>>

\* takeQuotaSlot, or markResent for a PUBREL: record who resends the entry.
claimed(c, o) == [o EXCEPT !.resentOn = c, !.quotaHeld = @ \/ loop[c].at = "claim"]
ResendClaim(c) ==
    /\ \E at \in {"claim", "mark"} : Resending(c, at)
    /\ \/ /\ entry(c) \notin DOMAIN inflight
          /\ Unspent(c)
          /\ UNCHANGED sessVars
       \/ /\ entry(c) \in DOMAIN inflight
          /\ inflight' = [inflight EXCEPT ![entry(c)] = claimed(c, @)]
          /\ resent' = With(resent, entry(c), [conn |-> c, typ |-> owedAck(inflight[entry(c)]),
                                               written |-> FALSE, quota |-> FALSE])
          /\ loop' = [loop EXCEPT ![c].at = IF @ = "claim" THEN "expiry" ELSE "pubrel"]
          /\ UNCHANGED <<withdrawn, quota>>
    /\ UNCHANGED <<idVars, connVars, readVars, netVars, userVars, open, kicked>>

\* The copy does not go out: expired (QoS 1), or too large.
Abandon(c) ==
    /\ Discards
    /\ resent' = abandonResend(c, entry(c))
    /\ loop' = [loop EXCEPT ![c].at = "discard"]
    /\ UNCHANGED <<inflight, withdrawn, quota>>

\* The copy c is about to write, if a client is there to count it.
copies(c) == IF c = attaches THEN {[id |-> entry(c), msg |-> loop[c].o.msg]} ELSE {}

\* remainingExpiry ends a QoS 1 exchange; otherwise markResentWritten.
ResendExpiry(c) ==
    /\ Resending(c, "expiry")
    /\ \/ loop[c].o.qos = 1 /\ Abandon(c) /\ UNCHANGED open
       \/ /\ resent' = IF entry(c) \in DOMAIN resent /\ resent[entry(c)].conn = c
                       THEN [resent EXCEPT ![entry(c)].written = TRUE] ELSE resent
          /\ open' = open \cup copies(c)
          /\ loop' = [loop EXCEPT ![c].at = "publish"]
          /\ UNCHANGED <<inflight, withdrawn, quota>>
    /\ UNCHANGED <<idVars, connVars, readVars, netVars, userVars, kicked>>

publish(o) == [typ |-> "PUBLISH", id |-> o.id, msg |-> o.msg, qos |-> o.qos]
pubrel(id, msg) == [typ |-> "PUBREL", id |-> id, msg |-> msg, qos |-> 2]

\* A failed write closes the connection and ends its delivery goroutine.
LoopFails(c) ==
    /\ done' = done \cup {c}
    /\ loop' = [loop EXCEPT ![c] = over]

ResendFails(c) ==
    /\ LoopFails(c)
    /\ IF loop[c].slot THEN releaseQuota(c) ELSE UNCHANGED quota

\* writePublish, with DUP; too large for the client ends the exchange.
ResendPublish(c) ==
    /\ Resending(c, "publish")
    /\ \/ /\ write(c, publish(loop[c].o))
          /\ loop' = [loop EXCEPT ![c] = nextEntry(@)]
          /\ UNCHANGED <<sessVars, done, quota, open>>
       \/ /\ Abandon(c)
          /\ open' = open \ copies(c)
          /\ UNCHANGED <<done, out>>
       \/ /\ c \in done
          /\ ResendFails(c)
          /\ UNCHANGED <<sessVars, out, open>>
    /\ UNCHANGED <<idVars, conn, predecessor, attaches, readVars, inp, owed, userVars, kicked>>

\* Then the exchange ends, if nothing else has ended it.
ResendDiscard(c) ==
    /\ Resending(c, "discard")
    /\ LET d == completeInflight(c, entry(c))
       IN  inflight' = d.inflight /\ withdrawn' = d.withdrawn /\ resent' = d.resent
    /\ Unspent(c)
    /\ UNCHANGED <<idVars, connVars, readVars, netVars, userVars, open, kicked>>

ResendPubrel(c) ==
    /\ Resending(c, "pubrel")
    /\ \/ write(c, pubrel(entry(c), loop[c].o.msg)) /\ Unspent(c) /\ UNCHANGED done
       \/ c \in done /\ ResendFails(c) /\ UNCHANGED out
    /\ UNCHANGED <<sessVars, idVars, conn, predecessor, attaches, readVars, inp, owed, userVars,
                   open, kicked>>

\* retransmit returns, and the loop serves the queue of deliveries.
ResendDone(c) ==
    /\ loop[c].at = "resend" /\ loop[c].todo = <<>>
    /\ loop' = [loop EXCEPT ![c] = idle]
    /\ UNCHANGED <<sessVars, idVars, connVars, quota, readVars, netVars, userVars, open, kicked>>

\* prepare: a slot for the next delivery of the burst.
PrepareSlot(c) ==
    /\ loop[c].at = "run" /\ c \notin done /\ msgs < MaxMsgs
    /\ quota[c] < ReceiveMaximum
    /\ quota' = [quota EXCEPT ![c] = @ + 1]
    /\ loop' = [loop EXCEPT ![c].at = "prepare"]
    /\ UNCHANGED <<sessVars, idVars, connVars, readVars, netVars, userVars, open, kicked>>

\* Going once round all 65535 identifiers takes longer than the last packet of
\* a displaced connection; the few identifiers here must not undo that.
CycleOutlastsReaders(id) ==
    id <= nextPacketID => \A c \in Conns \ {attaches} : reader[c].at = "read"

\* nextID and trackInflight.
Track(c) ==
    /\ loop[c].at = "prepare" /\ msgs < MaxMsgs
    /\ \E id \in Ids, q \in Levels :
          /\ nextID(id) /\ CycleOutlastsReaders(id)
          /\ nextPacketID' = id
          /\ msgs' = msgs + 1
          /\ inflight' = With(inflight, id, [msg |-> msgs + 1, qos |-> q, pubcomp |-> FALSE,
                                             quotaHeld |-> TRUE, resentOn |-> 0, by |-> c])
          /\ loop' = [loop EXCEPT ![c].at = "run",
                       ![c].ready = Append(@, [id |-> id, msg |-> msgs + 1, qos |-> q])]
    /\ UNCHANGED <<withdrawn, resent, revoked, connVars, quota, readVars, netVars, userVars, open, kicked>>

\* prepare gives up: unsubscribed or expired while it waited for the slot.
PrepareDrops(c) ==
    /\ loop[c].at = "prepare"
    /\ releaseQuota(c)
    /\ loop' = [loop EXCEPT ![c].at = "run"]
    /\ UNCHANGED <<sessVars, idVars, connVars, readVars, netVars, userVars, open, kicked>>

\* No identifier is free: the error closes the connection.
PrepareFails(c) ==
    /\ loop[c].at = "prepare"
    /\ \A id \in Ids : ~freeId(id)
    /\ releaseQuota(c)
    /\ LoopFails(c)
    /\ UNCHANGED <<sessVars, idVars, conn, predecessor, attaches, readVars, netVars, userVars, open, kicked>>

\* The burst ends: what is prepared is written.
Flush(c) ==
    /\ loop[c].at = "run" /\ loop[c].ready # <<>>
    /\ loop' = [loop EXCEPT ![c].at = "flush"]
    /\ UNCHANGED <<sessVars, idVars, connVars, quota, readVars, netVars, userVars, open, kicked>>

flushed(l) == [l EXCEPT !.ready = Tail(@), !.at = IF Len(l.ready) = 1 THEN "run" ELSE "flush"]

\* sendPrepared; too large for the client ends the exchange.
SendPrepared(c) ==
    /\ loop[c].at = "flush"
    /\ LET o == Head(loop[c].ready)
           d == completeInflight(c, o.id)
       IN  \/ /\ write(c, publish(o))
              /\ open' = open \cup {[id |-> o.id, msg |-> o.msg]}
              /\ loop' = [loop EXCEPT ![c] = flushed(@)]
              /\ UNCHANGED <<sessVars, done, quota>>
           \/ /\ Discards
              /\ inflight' = d.inflight /\ withdrawn' = d.withdrawn /\ resent' = d.resent
              /\ releaseQuota(c)
              /\ loop' = [loop EXCEPT ![c] = flushed(@)]
              /\ UNCHANGED <<done, out, open>>
           \/ /\ c \in done
              /\ LoopFails(c)
              /\ UNCHANGED <<sessVars, quota, out, open>>
    /\ UNCHANGED <<idVars, conn, predecessor, attaches, readVars, inp, owed, userVars, kicked>>

\* A closed connection's goroutine takes nothing more.
LoopEnd(c) ==
    /\ loop[c].at = "run" /\ c \in done
    /\ loop' = [loop EXCEPT ![c] = over]
    /\ UNCHANGED <<sessVars, idVars, connVars, quota, readVars, netVars, userVars, open, kicked>>

-----------------------------------------------------------------------------
(* The reader.  It looks at done before each read, so a displaced          *)
(* connection still handles the one packet it had already read.            *)

Take(c) ==
    /\ c = attaches /\ c \notin done
    /\ reader[c].at = "read" /\ inp # <<>>
    /\ reader' = [reader EXCEPT ![c] = [at |-> Head(inp).typ, ack |-> Head(inp)]]
    /\ inp' = Tail(inp)
    /\ UNCHANGED <<sessVars, idVars, connVars, loopVars, pubrels, out, owed, userVars, open, kicked>>

resting == [at |-> "read", ack |-> NoAck]
handled(c) == reader' = [reader EXCEPT ![c] = resting]

\* An acknowledgement that ends an exchange answers what c wrote under its
\* identifier.
answered(c, id) == open' = IF c = attaches THEN {w \in open : w.id # id} ELSE open

Complete(c, id) ==
    LET d == completeInflight(c, id) IN
    /\ inflight' = d.inflight /\ withdrawn' = d.withdrawn /\ resent' = d.resent
    /\ IF d.slot THEN releaseQuota(c) ELSE UNCHANGED quota
    /\ answered(c, id)
    /\ handled(c)

\* sendDisconnect with a Protocol Error, and the read loop ends.
Kick(c) ==
    /\ kicked' = (kicked \/ c \notin done)
    /\ done' = done \cup {c}
    /\ handled(c)

\* handlePuback and handlePubcomp for an exchange in flight.
HandleAck(c) ==
    /\ reader[c].at \in {"PUBACK", "PUBCOMP"}
    /\ LET a == reader[c].ack IN
       \/ /\ a.id \notin DOMAIN inflight
          /\ reader' = [reader EXCEPT ![c].at = "unknown"]
          /\ UNCHANGED <<sessVars, quota, open, done, kicked>>
       \/ /\ a.id \in DOMAIN inflight
          /\ a.typ = "PUBACK" => inflight[a.id].qos = 1
          /\ Complete(c, a.id)
          /\ UNCHANGED <<done, kicked>>
       \/ /\ a.id \in DOMAIN inflight
          /\ a.typ = "PUBACK" /\ inflight[a.id].qos = 2
          /\ LET d == completeInflight(c, a.id)
             IN  inflight' = d.inflight /\ withdrawn' = d.withdrawn /\ resent' = d.resent
          /\ Kick(c)
          /\ UNCHANGED <<quota, open>>
    /\ UNCHANGED <<idVars, conn, predecessor, attaches, loop, pubrels, netVars, userVars>>

\* forgetWithdrawn, else forgetResent, else a Protocol Error.
HandleUnknown(c) ==
    /\ reader[c].at = "unknown"
    /\ LET a         == reader[c].ack
           taken     == a.id \in DOMAIN withdrawn /\ withdrawn[a.id].owed = a.typ
           copied    == a.id \in DOMAIN resent /\ resent[a.id].conn = c /\ resent[a.id].typ = a.typ
       IN  \/ /\ taken
              /\ withdrawn' = Without(withdrawn, {a.id})
              /\ IF withdrawn[a.id].holder = c THEN releaseQuota(c) ELSE UNCHANGED quota
              /\ answered(c, a.id) /\ handled(c)
              /\ UNCHANGED <<resent, done, kicked>>
           \/ /\ ~taken /\ copied
              /\ resent' = Without(resent, {a.id})
              /\ IF resent[a.id].quota THEN releaseQuota(c) ELSE UNCHANGED quota
              /\ answered(c, a.id) /\ handled(c)
              /\ UNCHANGED <<withdrawn, done, kicked>>
           \/ /\ ~taken /\ ~copied
              /\ Kick(c)
              /\ UNCHANGED <<withdrawn, resent, quota, open>>
    /\ UNCHANGED <<inflight, idVars, conn, predecessor, attaches, loop, pubrels, netVars, userVars>>

\* handlePubrec: an identifier not in flight is answered with 0x92, an error code
\* ends the exchange, and a QoS 1 exchange is a Protocol Error.
HandlePubrec(c) ==
    /\ reader[c].at \in {"PUBREC", "PUBREJ"}
    /\ LET a == reader[c].ack IN
       \/ /\ a.id \notin DOMAIN inflight
          /\ \/ write(c, pubrel(a.id, a.msg)) /\ UNCHANGED done
             \/ c \in done /\ UNCHANGED <<out, done>>
          /\ handled(c)
          /\ UNCHANGED <<sessVars, quota, open, kicked>>
       \/ /\ a.id \in DOMAIN inflight /\ inflight[a.id].qos = 1
          /\ LET d == completeInflight(c, a.id)
             IN  inflight' = d.inflight /\ withdrawn' = d.withdrawn /\ resent' = d.resent
          /\ Kick(c)
          /\ UNCHANGED <<quota, open, out>>
       \/ /\ a.id \in DOMAIN inflight /\ inflight[a.id].qos = 2
          /\ a.typ = "PUBREJ"
          /\ Complete(c, a.id)
          /\ UNCHANGED <<out, done, kicked>>
       \/ /\ a.id \in DOMAIN inflight /\ inflight[a.id].qos = 2
          /\ a.typ = "PUBREC"
          /\ reader' = [reader EXCEPT ![c].at = "await"]
          /\ UNCHANGED <<sessVars, quota, open, out, done, kicked>>
    /\ UNCHANGED <<idVars, conn, predecessor, attaches, loop, pubrels, inp, owed, userVars>>

\* Mutant: the PUBREL goes out and the exchange does not move on.
AwaitPubcompForgotten(c) ==
    /\ reader[c].at = "await"
    /\ LET a == reader[c].ack
       IN  pubrels' = [pubrels EXCEPT ![c] = Append(@, [id |-> a.id, msg |-> a.msg])]
    /\ handled(c)
    /\ UNCHANGED <<sessVars, idVars, connVars, loopVars, netVars, userVars, open, kicked>>

\* awaitPubcomp, then the PUBREL is queued until the record says so.
AwaitPubcomp(c) ==
    /\ reader[c].at = "await"
    /\ LET a == reader[c].ack IN
       /\ inflight' = IF a.id \in DOMAIN inflight
                      THEN [inflight EXCEPT ![a.id].pubcomp = TRUE] ELSE inflight
       /\ pubrels' = [pubrels EXCEPT ![c] = Append(@, [id |-> a.id, msg |-> a.msg])]
    /\ handled(c)
    /\ UNCHANGED <<withdrawn, resent, idVars, connVars, loopVars, netVars, userVars, open, kicked>>

\* drainPubrels writes one; a failed write ends it.
DrainPubrel(c) ==
    /\ pubrels[c] # <<>>
    /\ \/ /\ write(c, pubrel(Head(pubrels[c]).id, Head(pubrels[c]).msg))
          /\ pubrels' = [pubrels EXCEPT ![c] = Tail(@)]
       \/ /\ c \in done
          /\ pubrels' = [pubrels EXCEPT ![c] = <<>>]
          /\ UNCHANGED out
    /\ UNCHANGED <<sessVars, idVars, connVars, loopVars, reader, inp, owed, userVars, open, kicked>>

-----------------------------------------------------------------------------
(* The session's connections, and permissions revoked.                     *)

\* The network, the client or a takeover ends the connection.
Close(c) ==
    /\ c = attaches /\ c \notin done
    /\ done' = done \cup {c}
    /\ UNCHANGED <<sessVars, idVars, conn, predecessor, attaches, loopVars, readVars, netVars,
                   userVars, open, kicked>>

\* finish: once the delivery goroutine has stopped.
Detach(c) ==
    /\ c = conn /\ c \in done /\ loop[c].at = "over" /\ reader[c].at = "read"
    /\ conn' = 0
    /\ UNCHANGED <<sessVars, idVars, predecessor, attaches, done, loopVars, readVars, netVars,
                   userVars, open, kicked>>

stale(at) == {id \in DOMAIN withdrawn : at - withdrawn[id].madeAt >= 2}

\* Mutant: entries keep the slots they held on the old connection.
carriedOverKept(o) == o

\* The quota is the connection's: no entry carried over holds a slot in it.
carriedOver(o) == [o EXCEPT !.quotaHeld = FALSE]

\* attach, on a connection of its own; the client forgets what it had on the
\* old one, or sends it here.
Attach ==
    /\ attaches < MaxAttaches
    /\ LET c == attaches + 1 IN
       /\ conn' = c /\ attaches' = c
       /\ predecessor' = IF conn # 0 THEN conn ELSE predecessor
       /\ done' = IF conn # 0 THEN done \cup {conn} ELSE done
       /\ inflight' = [id \in DOMAIN inflight |-> carriedOver(inflight[id])]
       /\ resent' = NoIds
       /\ withdrawn' = Without(withdrawn, stale(c))
       /\ loop' = [loop EXCEPT ![c] = [idle EXCEPT !.at = "connack"]]
    /\ out' = <<>> /\ inp' = <<>> /\ open' = {}
    /\ owed' = IF KeepsAcks THEN owed ELSE <<>>
    /\ UNCHANGED <<idVars, quota, readVars, userVars, kicked>>

\* What the client may still acknowledge of the entries taken back.
takenBack(S) ==
    [id \in S \cup DOMAIN withdrawn |->
        IF id \notin S THEN withdrawn[id]
        ELSE [madeAt |-> attaches, owed |-> owedAck(inflight[id]),
              holder |-> IF inflight[id].quotaHeld THEN conn ELSE 0]]

\* withdrawInflight: a filter denied at the resumption or by Reauthorize takes
\* back what it earned; heldSubjects does the same past its hold limit.
Withdraw ==
    /\ revoked < MaxWithdrawals
    /\ revoked' = revoked + 1
    /\ \E S \in SUBSET {id \in DOMAIN inflight : ~inflight[id].pubcomp} :
          /\ S # {}
          /\ inflight' = Without(inflight, S)
          /\ withdrawn' = takenBack(S)
    /\ UNCHANGED <<resent, nextPacketID, msgs, connVars, loopVars, readVars, netVars, userVars, open, kicked>>

-----------------------------------------------------------------------------
(* The client.                                                             *)

ClientTakes ==
    /\ out # <<>> /\ attaches \notin done
    /\ out' = Tail(out)
    /\ LET p == Head(out) IN
       \/ /\ p.typ = "PUBLISH" /\ p.qos = 1
          /\ owed' = Append(owed, ack("PUBACK", p.id, p.msg))
          /\ UNCHANGED userVars
       \/ /\ p.typ = "PUBLISH" /\ p.qos = 2
          /\ owed' = Append(owed, ack("PUBREC", p.id, p.msg))
          /\ unreleased' = unreleased \cup {p.id}
          /\ got' = IF p.id \in unreleased THEN got ELSE got \cup {p.msg}
          /\ twice' = IF p.id \in unreleased THEN twice ELSE twice \cup (got \cap {p.msg})
       \/ /\ p.typ = "PUBLISH" /\ p.qos = 2 /\ p.id \notin unreleased
          /\ owed' = Append(owed, ack("PUBREJ", p.id, p.msg))
          /\ UNCHANGED userVars
       \/ /\ p.typ = "PUBREL"
          /\ owed' = Append(owed, ack("PUBCOMP", p.id, p.msg))
          /\ unreleased' = unreleased \ {p.id}
          /\ UNCHANGED <<got, twice>>
    /\ UNCHANGED <<sessVars, idVars, connVars, loopVars, readVars, inp, open, kicked>>

ClientAcks ==
    /\ owed # <<>> /\ attaches \notin done
    /\ inp' = Append(inp, Head(owed))
    /\ owed' = Tail(owed)
    /\ UNCHANGED <<sessVars, idVars, connVars, loopVars, readVars, out, userVars, open, kicked>>

-----------------------------------------------------------------------------
Init ==
    /\ setting \in Settings
    /\ inflight = NoIds /\ withdrawn = NoIds /\ resent = NoIds
    /\ nextPacketID = 0 /\ msgs = 0 /\ revoked = 0
    /\ conn = 0 /\ predecessor = 0 /\ attaches = 0 /\ done = {}
    /\ quota = [c \in Conns |-> 0]
    /\ loop = [c \in Conns |-> [idle EXCEPT !.at = "off"]]
    /\ reader = [c \in Conns |-> resting]
    /\ pubrels = [c \in Conns |-> <<>>]
    /\ out = <<>> /\ inp = <<>> /\ owed = <<>>
    /\ unreleased = {} /\ got = {} /\ twice = {}
    /\ open = {} /\ kicked = FALSE

resendStep(c) == \/ Connack(c) \/ LoopStart(c)
                 \/ LoopBegin(c) \/ ResendSlot(c) \/ ResendRead(c) \/ ResendClaim(c)
                 \/ ResendExpiry(c) \/ ResendPublish(c) \/ ResendDiscard(c)
                 \/ ResendPubrel(c) \/ ResendDone(c)
deliverStep(c) == \/ PrepareSlot(c) \/ Track(c) \/ PrepareDrops(c) \/ PrepareFails(c)
                  \/ Flush(c) \/ SendPrepared(c) \/ LoopEnd(c)
readStep(c) == \/ Take(c) \/ HandleAck(c) \/ HandleUnknown(c) \/ HandlePubrec(c)
               \/ AwaitPubcomp(c) \/ DrainPubrel(c)

Next ==
    /\ \/ \E c \in Conns : resendStep(c) \/ deliverStep(c) \/ readStep(c) \/ Close(c) \/ Detach(c)
       \/ Attach \/ Withdraw
       \/ ClientTakes \/ ClientAcks
    /\ UNCHANGED setting

Spec == Init /\ [][Next]_<<vars, setting>>

\* The broker's goroutines run while they can; the client reads its socket and
\* sends the acknowledgements it owes.
FairSpec ==
    /\ Spec
    /\ \A c \in Conns : WF_vars(resendStep(c)) /\ WF_vars(deliverStep(c)) /\ WF_vars(readStep(c))
    /\ WF_vars(ClientTakes) /\ WF_vars(ClientAcks)

-----------------------------------------------------------------------------
Msgs == 1..Max({s.maxMsgs : s \in Settings})
entryType == [msg : Msgs, qos : {1, 2}, pubcomp : BOOLEAN, quotaHeld : BOOLEAN,
              resentOn : 0..MaxConns, by : Conns]
ackType == [typ : {"PUBACK", "PUBREC", "PUBREJ", "PUBCOMP"}, id : Ids, msg : Msgs]

\* Type invariant; the send quota is a channel of ReceiveMaximum places
\* (handshake.go:113).
TypeOK ==
    /\ DOMAIN inflight \subseteq Ids /\ \A id \in DOMAIN inflight : inflight[id] \in entryType
    /\ DOMAIN withdrawn \subseteq Ids
    /\ \A id \in DOMAIN withdrawn :
          withdrawn[id] \in [madeAt : Conns, owed : {"PUBACK", "PUBCOMP"}, holder : 0..MaxConns]
    /\ DOMAIN resent \subseteq Ids
    /\ \A id \in DOMAIN resent :
          resent[id] \in [conn : Conns, typ : {"PUBACK", "PUBCOMP"}, written : BOOLEAN, quota : BOOLEAN]
    /\ nextPacketID \in 0..MaxId /\ msgs \in 0..MaxMsgs /\ revoked \in 0..MaxWithdrawals
    /\ conn \in 0..MaxConns /\ predecessor \in 0..MaxConns /\ attaches \in 0..MaxConns
    /\ done \subseteq Conns
    /\ quota \in [Conns -> 0..ReceiveMaximum]
    /\ \A i \in DOMAIN owed : owed[i] \in ackType
    /\ \A i \in DOMAIN inp : inp[i] \in ackType
    /\ unreleased \subseteq Ids /\ got \subseteq Msgs /\ twice \subseteq got
    /\ kicked \in BOOLEAN

\* A client that forgets what it owed on an ended connection never has more
\* unanswered PUBLISH packets on the new one than its Receive Maximum
\* (subscribe.go:778, [MQTT-3.3.4-9]): the PUBCOMP of a resent PUBREL, which spent
\* no slot, returns none, and neither does an acknowledgement on a displaced
\* connection.
ReceiveMaximumKept == ~KeepsAcks => Cardinality(open) <= ReceiveMaximum

\* A connection sends nothing new before it has resent everything unacknowledged
\* that its predecessor, or a connection since, sent or resent, including what the
\* predecessor's goroutine tracked last (deliverLoop, subscribe.go:543).
ResumeResends ==
    conn # 0 /\ conn \notin done /\ loop[conn].at \in {"run", "prepare", "flush"} =>
        \A id \in DOMAIN inflight :
            LET on == {inflight[id].by, inflight[id].resentOn}
            IN  (\E c \in on : c >= predecessor) => conn \in on

\* The client takes a QoS 2 message as new once: past its PUBREC only the PUBREL
\* is repeated (awaitPubcomp, session.go:826).  A client that answers on the new
\* connection what it was sent on the old one can have its PUBREL first
\* (writeResend, retransmit.go:118), and is left out.
AtMostOnce == ~KeepsAcks => twice = {}

\* An acknowledgement completes the message the client acknowledged, never one
\* that has since been given its identifier (nextID, session.go:709).
CompletesItsOwn ==
    [][\A c \in Conns :
         LET a == reader[c].ack
         IN  a.id \in DOMAIN inflight \ DOMAIN inflight' /\ reader'[c] # reader[c]
             => inflight[a.id].msg = a.msg]_vars

InFlight(m) == \E id \in DOMAIN inflight : inflight[id].msg = m

\* Every message in flight is settled, across a resumption too, unless the last
\* connection ends first (retransmit.go:10, [MQTT-4.4.0-1]).
AllSettled == \A m \in Msgs : InFlight(m) ~> ~InFlight(m) \/ attaches \in done

\* A full send quota gets a slot back: no slot is lost to a resend that did not
\* go out or an acknowledgement that came elsewhere (releaseQuotaFor,
\* publish.go:458).
SlotsReturn == \A c \in Conns : quota[c] = ReceiveMaximum ~> c \in done \/ quota[c] < ReceiveMaximum
=============================================================================

---------------------------- MODULE HeldMessage ----------------------------
(***************************************************************************)
(* One message of a shared subscription, from the group's backlog to the   *)
(* member that is given it and back (shared.go, held.go, recordQoS2 and    *)
(* the release of a PUBREL).                                               *)
(*                                                                         *)
(* A member pulls the message and holds it, unacknowledged to JetStream,   *)
(* until its client has answered.  Its broker says meanwhile that it is    *)
(* being worked on, and the survivors say it for a broker that died.  What *)
(* nobody speaks for goes to another member after the AckWait.  Instances, *)
(* and the move of a session between brokers, are as in SharedGroup.       *)
(* The members are granted QoS 1 or 2 and persist their sessions; the      *)
(* message neither expires nor exceeds a Maximum Packet Size.              *)
(***************************************************************************)
EXTENDS GroupSessions

ASSUME HeldAssumption ==
    /\ \A c \in Clients : \E i \in First : ClientOf[i] = c
    /\ \A i, j \in First : ClientOf[i] = ClientOf[j] => i = j
    /\ "none" \notin Clients

VARIABLES
    qos,       \* the QoS the members were granted
    js,        \* the message in the backlog: "ready", "pending" or "acked"
    wire,      \* the replies on their way to JetStream, and the brokers that sent them
    entry,     \* what each instance has of it
    named,     \* the instances whose entry carries its acknowledgement subject
    rec,       \* each client's record
    got,       \* the clients that were sent the message
    owner,     \* the client whose record says PUBREL: the message is its own
    taken,     \* a client has answered for it
    unguarded  \* it was left with nobody to speak for it, or handed back while another
               \* instance of the session, or its record, has it

backlog == <<js, wire>>
sessVars == <<entry, named, state>>
bounds == <<changes, faults>>
ghosts == <<got, owner, taken, unguarded>>
vars == <<qos, backlog, sessVars, rec, up, bounds, ghosts>>

Init ==
    /\ qos \in {1, 2}
    /\ js = "ready" /\ wire = {}
    /\ entry = [i \in Instances |-> "none"]
    /\ named = {}
    /\ state = [i \in Instances |-> IF i \in First THEN "open" ELSE "new"]
    /\ rec = [c \in Clients |->
                [by |-> CHOOSE i \in First : ClientOf[i] = c,
                 attached |-> TRUE, entry |-> "none", named |-> FALSE]]
    /\ up = Brokers
    /\ changes = 0 /\ faults = 0
    /\ got = {} /\ owner = "none" /\ taken = FALSE /\ unguarded = FALSE

Runs(i) == Home[i] \in up
Becomes(i, e) == entry' = [entry EXCEPT ![i] = e]
Reply(i, do) == wire' = wire \cup {[do |-> do, by |-> Home[i]]}
Record(c, e, n) == rec' = [rec EXCEPT ![c] = [rec[c] EXCEPT !.entry = e, !.named = n]]

\* The record of a session that has ended goes.
Ended(c) == rec' = [rec EXCEPT ![c] = [rec[c] EXCEPT !.by = "none", !.entry = "none"]]

\* An entry as inflightState stores it: what is left of it is a PUBLISH or a PUBREL.
InFlight == {"tracked", "recorded", "sent", "queued", "written", "rel"}
Stored(e) ==
    CASE e \in {"tracked", "recorded", "sent"} -> "sent"
      [] e \in {"queued", "written", "rel"} -> "rel"
      [] OTHER -> "none"

----------------------------------------------------------------------------
(* JetStream.                                                               *)

\* A reply arrives.  It names the message, whichever delivery of it is meant.
Arrive(r) ==
    /\ r \in wire
    /\ wire' = wire \ {r}
    /\ js' = CASE r.do = "ack" -> "acked"
               [] r.do = "nak" /\ js = "pending" -> "ready"
               [] OTHER -> js
    /\ UNCHANGED <<qos, sessVars, rec, up, bounds, ghosts>>

\* Mutant: a session that has ended is spoken for.
heldHereEnded(i) == Runs(i) /\ entry[i] \in InFlight /\ i \in named
\* holdLoop: the brokers speak for what the in-flight sets of their sessions name.
heldHere(i) ==
    /\ Runs(i) /\ state[i] \in {"open", "away", "lost"}
    /\ entry[i] \in InFlight /\ i \in named

\* orphanedHolds and holdOrphans: a survivor speaks for what is named by a record
\* a dead broker left attached.
orphanHeld(c) ==
    /\ rec[c].by # "none" /\ ~Runs(rec[c].by) /\ up # {}
    /\ rec[c].attached
    /\ rec[c].entry = "sent" /\ rec[c].named

\* The AckWait, three rounds of holdLoop, runs out: no goroutine is about to go on
\* with it and nobody has spoken for it.
InHand(i) ==
    \/ entry[i] = "hand"
    \/ i \in named /\ entry[i] \in {"tracked", "recorded", "queued", "written"}
AckWait ==
    /\ js = "pending" /\ wire = {}
    /\ ~\E i \in Instances : Runs(i) /\ (InHand(i) \/ heldHere(i))
    /\ ~\E c \in Clients : orphanHeld(c)
    /\ js' = "ready"
    /\ UNCHANGED <<qos, wire, sessVars, rec, up, bounds, ghosts>>

----------------------------------------------------------------------------
(* The puller and the delivery goroutine.                                   *)

fetch(i) == js = "ready" /\ js' = "pending" /\ Becomes(i, "hand")

\* pull: with room in the send quota, the puller fetches the message.
Fetch(i) ==
    /\ Runs(i) /\ state[i] = "open" /\ entry[i] = "none"
    /\ fetch(i)
    /\ UNCHANGED <<qos, wire, named, state, rec, up, bounds, ghosts>>

\* pullOne: the connection ended, or the subscription is not wanted any more,
\* before the session took the message.
HandBack(i) ==
    /\ Runs(i) /\ entry[i] = "hand"
    /\ state[i] # "open"
    /\ Becomes(i, "none")
    /\ Reply(i, "nak")
    /\ UNCHANGED <<qos, js, named, state, rec, up, bounds, ghosts>>

\* pullOne: what is in flight is the session's to acknowledge.
pullerDone(i) == UNCHANGED wire

\* deliverShared and prepare: the message is in flight.
Track(i) ==
    /\ Runs(i) /\ entry[i] = "hand" /\ state[i] \in {"open", "lost"}
    /\ Becomes(i, "tracked")
    /\ named' = named \cup {i}
    /\ pullerDone(i)
    /\ UNCHANGED <<qos, js, state, rec, up, bounds, ghosts>>

\* The connection ends and the record is released (finish), if it is still the
\* session's; e and n are what the session has of the message.
Ends(i, e, n) ==
    /\ state' = [state EXCEPT ![i] = IF state[i] = "open" THEN "away" ELSE state[i]]
    /\ rec' = IF rec[ClientOf[i]].by = i
              THEN [rec EXCEPT ![ClientOf[i]] =
                      [rec[ClientOf[i]] EXCEPT !.attached = FALSE, !.entry = Stored(e),
                                               !.named = n]]
              ELSE rec

\* A write is answered after the replies sent before it on the same connection to NATS.
Flushed(i) == \A r \in wire : r.by # Home[i]
Writes(i) == state[i] = "open" /\ rec[ClientOf[i]].by = i /\ Flushed(i)
Fails(i) == (state[i] = "lost" /\ UNCHANGED faults) \/ (state[i] = "open" /\ Fault)

\* recordQoS2: the record names a QoS 2 message before it is sent; a message it
\* could not name goes back, and the connection ends.
RecordQoS2(i) ==
    /\ Runs(i) /\ entry[i] = "tracked" /\ qos = 2
    /\ \/ /\ Writes(i)
          /\ Record(ClientOf[i], "sent", TRUE)
          /\ Becomes(i, "recorded")
          /\ UNCHANGED <<named, state, wire, faults, unguarded>>
       \/ /\ Fails(i)
          /\ Becomes(i, "none")
          /\ named' = named \ {i}
          /\ Reply(i, "nak")
          /\ Ends(i, "none", FALSE)
          /\ unguarded' = (unguarded \/ state[i] = "lost")
    /\ UNCHANGED <<qos, js, up, changes, got, owner, taken>>

\* sendPrepared; a displaced connection writes to nobody.
Send(i) ==
    /\ Runs(i) /\ state[i] \in {"open", "lost"}
    /\ entry[i] = IF qos = 2 THEN "recorded" ELSE "tracked"
    /\ Becomes(i, "sent")
    /\ got' = IF state[i] = "open" THEN got \cup {ClientOf[i]} ELSE got
    /\ UNCHANGED <<qos, backlog, named, state, rec, up, bounds, owner, taken, unguarded>>

----------------------------------------------------------------------------
(* The client's answers.                                                    *)

Reads(i) == Runs(i) /\ state[i] \in {"open", "lost"} /\ ClientOf[i] \in got

\* completeInflight: the backlog message is acknowledged to its group.
acks(i) == IF i \in named THEN Reply(i, "ack") ELSE UNCHANGED wire

\* handlePuback, or handlePubcomp of an exchange past its PUBREC.
Complete(i) ==
    /\ Reads(i)
    /\ \/ qos = 1 /\ entry[i] = "sent"
       \/ entry[i] = "rel" /\ (state[i] = "open" \/ i \notin named)
    /\ Becomes(i, "none")
    /\ named' = named \ {i}
    /\ acks(i)
    /\ taken' = TRUE
    /\ UNCHANGED <<qos, js, state, rec, up, bounds, got, owner, unguarded>>

\* handlePubrec: the client owns the message; its PUBREL is queued.
Pubrec(i) ==
    /\ Reads(i) /\ qos = 2 /\ entry[i] = "sent"
    /\ Becomes(i, "queued")
    /\ taken' = TRUE
    /\ UNCHANGED <<qos, backlog, named, state, rec, up, bounds, got, owner, unguarded>>

\* drainPubrels: the record says PUBREL before it is sent.  A closed connection
\* writes none; a write that fails ends the connection while the group waits.
DrainPubrels(i) ==
    /\ Runs(i) /\ entry[i] = "queued"
    /\ \/ /\ Writes(i)
          /\ Record(ClientOf[i], "rel", i \in named)
          /\ Becomes(i, "written")
          /\ owner' = ClientOf[i]
          /\ UNCHANGED <<state, faults>>
       \/ /\ state[i] \in {"away", "gone"} \/ (state[i] = "lost" /\ i \notin named)
          /\ Becomes(i, "written")
          /\ UNCHANGED <<state, rec, faults, owner>>
       \/ /\ i \in named /\ Fails(i)
          /\ Becomes(i, "rel")
          /\ Ends(i, "rel", TRUE)
          /\ UNCHANGED owner
    /\ UNCHANGED <<qos, backlog, named, up, changes, got, taken, unguarded>>

\* Mutant: the group is told only when the PUBCOMP arrives.
settlesLater(i) == UNCHANGED <<wire, named>>
\* settleOwned: the group is told that the client owns the message.
settles(i) == IF i \in named THEN Reply(i, "ack") /\ named' = named \ {i}
              ELSE UNCHANGED <<wire, named>>

SettleOwned(i) ==
    /\ Runs(i) /\ entry[i] = "written"
    /\ Becomes(i, "rel")
    /\ settles(i)
    /\ UNCHANGED <<qos, js, state, rec, up, bounds, ghosts>>

----------------------------------------------------------------------------
(* The session.                                                             *)

Checkpoint(i) ==
    /\ Runs(i) /\ Writes(i)
    /\ Record(ClientOf[i], Stored(entry[i]), i \in named)
    /\ UNCHANGED <<qos, backlog, sessVars, up, bounds, ghosts>>

\* The connection ends once its delivery goroutine has.
Disconnect(i) ==
    /\ Runs(i) /\ state[i] = "open" /\ entry[i] \notin {"tracked", "recorded"}
    /\ changes < MaxChanges /\ Flushed(i)
    /\ changes' = changes + 1
    /\ Ends(i, entry[i], i \in named)
    /\ UNCHANGED <<qos, backlog, entry, named, up, faults, ghosts>>

\* restoreEntry: a PUBLISH has to be read back, which may fail; a PUBREL has not.
Unreadable(e) == e = "sent" /\ Fault

\* restoreSessionState, of what the record r has: a PUBREL's message is acknowledged,
\* one that cannot be read goes back.
Restore(i, r) ==
    \/ /\ Becomes(i, r.entry)
       /\ named' = IF r.entry = "sent" /\ r.named THEN named \cup {i} ELSE named
       /\ IF r.entry = "rel" /\ r.named THEN Reply(i, "ack") ELSE UNCHANGED wire
       /\ UNCHANGED faults
    \/ /\ Unreadable(r.entry)
       /\ Becomes(i, "none")
       /\ IF r.named THEN Reply(i, "nak") ELSE UNCHANGED wire
       /\ UNCHANGED named

\* The client is back at the broker that has its session, or takes it to another.
\* The claim clears the record; what is in flight is resent.
Connect(i) ==
    LET c == ClientOf[i] IN
    /\ Runs(i) /\ rec[c].by # "none"
    /\ \/ state[i] = "away" /\ rec[c].by = i /\ UNCHANGED <<entry, named, wire, faults>>
       \/ state[i] = "new" /\ Restore(i, rec[c])
    /\ got' = IF entry'[i] = "sent" THEN got \cup {c} ELSE got
    /\ state' = [j \in Instances |->
                    IF j = i THEN "open"
                    ELSE IF j = rec[c].by /\ state[j] # "gone" THEN "lost" ELSE state[j]]
    /\ rec' = [rec EXCEPT ![c] = [by |-> i, attached |-> TRUE, entry |-> "none", named |-> FALSE]]
    /\ UNCHANGED <<qos, js, up, changes, owner, taken, unguarded>>

\* Mutant: a session that has moved hands its messages back.
movedHandsBack(i) == IF i \in named /\ Stored(entry[i]) = "sent"
                     THEN Reply(i, "nak") ELSE UNCHANGED wire
\* discardMoved: they are the session's still, wherever it is.
moved(i) == UNCHANGED wire

SessionLost(i) ==
    /\ Runs(i) /\ state[i] = "lost"
    /\ state' = [state EXCEPT ![i] = "gone"]
    /\ named' = named \ {i}
    /\ moved(i)
    /\ unguarded' = (unguarded \/ (i \in named /\ entry[i] = "written"))
    /\ UNCHANGED <<qos, js, entry, rec, up, bounds, got, owner, taken>>

\* The session ends; handBackHeld.
Expire(i) ==
    /\ Runs(i) /\ state[i] = "away" /\ rec[ClientOf[i]].by = i /\ Flushed(i)
    /\ state' = [state EXCEPT ![i] = "gone"]
    /\ Ended(ClientOf[i])
    /\ IF i \in named /\ Stored(entry[i]) = "sent"
       THEN Reply(i, "nak") /\ named' = named \ {i}
       ELSE UNCHANGED <<wire, named>>
    /\ UNCHANGED <<qos, js, entry, up, bounds, ghosts>>

\* heldSubjects: held for longer than SharedHoldLimit, it leaves the in-flight set.
HoldLimit(i) ==
    /\ heldHere(i) /\ entry[i] = "sent"
    /\ Becomes(i, "none")
    /\ named' = named \ {i}
    /\ Reply(i, "nak")
    /\ unguarded' = (unguarded \/ state[i] = "lost" \/ rec[ClientOf[i]].named)
    /\ UNCHANGED <<qos, js, state, rec, up, bounds, got, owner, taken>>

\* holdOrphans: the same for a session nobody has restored; its record names the
\* message still.
OrphanLimit(c) ==
    /\ orphanHeld(c) /\ ~unguarded
    /\ \E b \in up : wire' = wire \cup {[do |-> "nak", by |-> b]}
    /\ unguarded' = TRUE
    /\ UNCHANGED <<qos, js, sessVars, rec, up, bounds, got, owner, taken>>

----------------------------------------------------------------------------

\* A broker dies, with the replies it had yet to send.
Kill(b) ==
    LET Gone(i) == Home[i] = b
        Spoken(c) == rec[c].attached /\ rec[c].entry = "sent" /\ rec[c].named
    IN
    /\ b \in up /\ Fault
    /\ up' = up \ {b}
    /\ state' = [i \in Instances |-> IF Gone(i) /\ state[i] # "new" THEN "gone" ELSE state[i]]
    /\ entry' = [i \in Instances |-> IF Gone(i) THEN "none" ELSE entry[i]]
    /\ named' = {i \in named : ~Gone(i)}
    /\ wire' \in {wire, {r \in wire : r.by # b}}
    /\ unguarded' = (\/ unguarded \/ up' = {}
                     \/ \E i \in named : Gone(i) /\ entry[i] = "written"
                     \/ \E r \in wire \ wire' : r.do = "ack"
                     \/ \E c \in Clients :
                           rec[c].by # "none" /\ Gone(rec[c].by) /\ ~Spoken(c)
                           /\ (owner = c \/ rec[c].named))
    /\ UNCHANGED <<qos, js, rec, changes, got, owner, taken>>

\* The record of a dead broker's session expires.
Reclaim(c) ==
    /\ rec[c].by # "none" /\ ~Runs(rec[c].by)
    /\ Ended(c)
    /\ UNCHANGED <<qos, backlog, sessVars, up, bounds, ghosts>>

GoOn(i) ==
    \/ HandBack(i) \/ Track(i) \/ RecordQoS2(i) \/ Send(i)
    \/ DrainPubrels(i) \/ SettleOwned(i) \/ SessionLost(i)
Answer(i) == Complete(i) \/ Pubrec(i)

Next ==
    \/ \E r \in wire : Arrive(r)
    \/ AckWait
    \/ \E i \in Instances :
          \/ Fetch(i) \/ GoOn(i) \/ Answer(i)
          \/ Checkpoint(i) \/ Disconnect(i) \/ Connect(i) \/ Expire(i) \/ HoldLimit(i)
    \/ \E c \in Clients : OrphanLimit(c) \/ Reclaim(c)
    \/ \E b \in Brokers : Kill(b)

Spec == Init /\ [][Next]_vars

\* The goroutines go on, JetStream redelivers, a client that is sent the message
\* again and again answers in the end.
FairSpec ==
    /\ Spec
    /\ WF_vars((\E r \in wire : Arrive(r)) \/ AckWait)
    /\ \A i \in Instances :
          /\ WF_vars(Fetch(i) \/ GoOn(i))
          /\ SF_vars(Answer(i))

----------------------------------------------------------------------------
(* Properties.                                                              *)

\* While a session has the message, in the memory of a broker or in the record of
\* one that died, the group is not given it (holdLoop, holdOrphans; held.go:14
\* "JetStream must not give the message to another member"), whichever brokers the
\* session moves between.
Has(c) ==
    LET i == rec[c].by IN
    /\ i # "none"
    /\ IF Runs(i) THEN entry[i] \in InFlight /\ i \in named
       ELSE rec[c].entry = "sent" /\ rec[c].named
HeldIsKept == (\E c \in Clients : Has(c)) => js # "ready" \/ unguarded

\* Once the record says PUBREL the client owns the message, and no end of its
\* connection or session gives it to another member (settleOwned, handBackHeld).
OwnedIsKept == owner # "none" => js # "ready" \/ unguarded

\* session.go:843, of settleOwned: "the group must never give it to another member,
\* whatever happens to the session or to this broker next".
NeverGivenAway == owner # "none" => js # "ready"

\* A message is not stuck, whichever of its holders fails or moves: it is settled in
\* the end, unless no member is connected or a session that is away keeps it
\* (pull, handBack, holdOrphans).
Awaited(c) ==
    LET i == rec[c].by IN
    i # "none" /\ IF Runs(i) THEN state[i] = "away" /\ entry[i] \in InFlight /\ i \in named
                 ELSE orphanHeld(c)
EventuallySettled ==
    <>[](\/ js = "acked"
         \/ \A i \in Instances : ~(Runs(i) /\ state[i] = "open")
         \/ \E c \in Clients : Awaited(c))
=============================================================================

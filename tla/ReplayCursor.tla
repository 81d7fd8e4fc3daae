---------------------------- MODULE ReplayCursor ----------------------------
(***************************************************************************)
(* The replay cursor of one session (cursor.go), with everything that      *)
(* moves it: live copies of queued messages reaching the connection, the   *)
(* delivery goroutine (live delivery, catch-up, resume replay), the scans  *)
(* that read the queue stream ahead of it, SUBSCRIBE, and the end and      *)
(* resumption of the connection.                                           *)
(*                                                                         *)
(* A queued message is its stream sequence; its id is the same number.     *)
(* Sequence 0 means "none", as in the code.  Time does not appear: where   *)
(* the code starts a read at a time, the model starts it at any sequence   *)
(* that time may name.                                                     *)
(***************************************************************************)
EXTENDS Naturals, FiniteSets, FiniteSetsExt

CONSTANTS
    Filters,         \* the non-shared topic filters the session may hold
    MaxSeq,          \* bound: messages stored in the queue stream
    MaxConns,        \* bound: connections of the session
    MaxRequests,     \* bound: SUBSCRIBE and UNSUBSCRIBE packets
    QueueDepth,      \* deliveryQueueDepth: room in a connection's queue
    MaxReplayHoles,  \* maxReplayHoles
    CursorIDBound,   \* cursorIDBound
    CursorScanAfter  \* cursorScanAfter

ASSUME BoundsAssumption ==
    /\ MaxSeq \in Nat /\ MaxRequests \in Nat /\ QueueDepth \in Nat
    /\ MaxReplayHoles \in Nat /\ CursorIDBound \in Nat
    /\ MaxConns \in Nat \ {0} /\ CursorScanAfter \in Nat \ {0}

VARIABLES
    topic,       \* the filter each message's topic matches
    last,        \* the stream's last sequence
    transit,     \* live copies published and not yet arrived
    noting,      \* copies placed in the connection, noteLiveCopy still to run
    subs,        \* the filters subscribed
    since,       \* subscription.since
    made,        \* history: the stream's end when the interest was confirmed
    asking,      \* the SUBSCRIBE being handled
    requests,    \* SUBSCRIBE and UNSUBSCRIBE packets so far
    phase,       \* "attached", "closed" (ended, session not let go), "away"
    conns,       \* connections so far: the number of the current one
    pending,     \* sequences waiting in the connection's queue
    unwanted,    \* those of pending and inHand whose subscription was removed
    inHand,      \* the sequence being sent
    fromSeq,     \* the lowest sequence turned away
    behind,      \* copies are turned away
    catchup,     \* the channel that wakes catchUp holds a signal
    streamNext,  \* the position of a stream read
    replayed,    \* conn.replayed
    replayedBefore, \* conn.replayedBefore
    loop,        \* where the delivery goroutine is
    delivered,   \* the ids session.delivered keeps
    cur,         \* session.cur
    scan,        \* the scan goroutine
    sent,        \* history: messages sent to the client as new
    promised,    \* history: the lowest sequence the cursor accounts for
    blind        \* history: messages a read passed without classifying them

netVars   == <<topic, last, transit, noting>>
subVars   == <<subs, since, made, asking, requests>>
queueVars == <<pending, unwanted, inHand, fromSeq, behind, catchup>>
readVars  == <<streamNext, replayed, replayedBefore, loop>>
connVars  == <<phase, conns>>
sentVars  == <<delivered, sent>>
curVars   == <<cur, scan, promised, blind>>
vars == <<netVars, subVars, queueVars, readVars, connVars, sentVars, curVars>>

Seqs == 1..MaxSeq

\* sinceUnknown is the largest value, so nothing is stored after it.
sinceUnknown == MaxSeq + 1

\* lowestSeq is the lowest of the sequences that are set, or 0.
lowestSeq(S) == IF S \ {0} = {} THEN 0 ELSE Min(S \ {0})

Larger(a, b) == IF a >= b THEN a ELSE b

\* Mutant: the delivery in hand is not counted as owed.
HeldNotInHand == (pending \cup {fromSeq, streamNext}) \ {0}

\* What owedFloor finds: waiting, in hand, turned away, or being read.
Held == (pending \cup {inHand, fromSeq, streamNext}) \ {0}
owedFloor == lowestSeq(Held)

sinceKnown == \A f \in subs : since[f] # sinceUnknown

\* owedBy: a subscription held matches m and was made before m was stored.
owedBy(m) == topic[m] \in subs /\ since[topic[m]] # sinceUnknown /\ m > since[topic[m]]

\* Ids noteDelivered has forgotten.
Forgotten == sent \ delivered

-----------------------------------------------------------------------------
(* The cursor's own operations.                                            *)

\* Mutant: a cursor that starts one past where it was told to.
setCursorPast(c, n) ==
    [next |-> IF n = 0 THEN 0 ELSE n + 1, holes |-> {}, changed |-> (scan.at \in {"begun", "read"}),
     above |-> 0, asked |-> c.asked, pin |-> 0, base |-> 0]

\* gen++ shows in changed: gen is compared only with what a running scan read.
setCursorLocked(c, n) ==
    [next |-> n, holes |-> {}, changed |-> (scan.at \in {"begun", "read"}), above |-> 0,
     asked |-> c.asked, pin |-> 0, base |-> 0]

dropCursorLocked(c) == setCursorLocked(c, 0)

\* addHoleLocked for each sequence of S, in order, until one drops the cursor.
addHolesLocked(c, S) ==
    LET holes == c.holes \cup (S \ delivered)
    IN  IF (\E s \in S : s < c.base) \/ Cardinality(holes) > MaxReplayHoles
        THEN dropCursorLocked(c)
        ELSE [c EXCEPT !.holes = holes]

\* What noteLiveCopy and lateCopy do to the cursor for a copy of m.
noteBelow(c, m) == IF c.next # 0 /\ m < c.next THEN addHolesLocked(c, {m}) ELSE c

countAboveLocked(n) == Cardinality({d \in delivered : d >= n})

\* above, which is compared only with cursorScanAfter, is counted up to it.
capAbove(n) == IF n \in 0..CursorScanAfter THEN n ELSE CursorScanAfter

NoScan == [at |-> "off", conn |-> 0, restart |-> FALSE, start |-> 0,
           same |-> FALSE, to |-> 0, owed |-> {}, base |-> 0]

ScanDue == [NoScan EXCEPT !.at = "due", !.conn = conns]

\* The ids a pruning noteDelivered may forget: below the cursor (or pin), older
\* than twice the rewind and far below the newest.  No copy still on its way or
\* held is that old, a restart scan that outlived the rewind is refused, and a
\* SUBSCRIBE waits 250 ms (sinceReadTimeout) for the stream's end it read.
Forgettable ==
    {d \in delivered :
        /\ \A k \in {cur.next, cur.pin} \ {0} : d < k
        /\ \A h \in transit \cup noting \cup Held : d < h
        /\ scan.at = "read" /\ scan.restart => d < scan.base
        /\ asking.at = "read" => d <= asking.to}

\* session.noteDelivered, and conn.noteDelivered starting the scan it asks for.
noteDelivered(m) ==
    LET ds    == delivered \cup {m}
        keep  == lowestSeq({cur.next, cur.pin})
        noted == [cur EXCEPT !.holes = @ \ {m},
                             !.above = IF m >= cur.next THEN capAbove(@ + 1) ELSE @]
    IN  \E prune \in BOOLEAN, old \in SUBSET (Forgettable \ {m}) :
          LET over == prune /\ keep # 0 /\ Cardinality({d \in ds : d >= keep}) > CursorIDBound
              c    == IF over THEN dropCursorLocked(noted) ELSE noted
              due  == c.above >= CursorScanAfter /\ (c.next # 0 \/ c.pin = 0)
          IN  /\ prune \/ old = {}
              /\ delivered' = ds \ old
              /\ sent' = sent \cup {m}
              /\ cur' = [c EXCEPT !.asked = @ \/ (due /\ scan.at # "off")]
              /\ scan' = IF due /\ scan.at = "off" THEN ScanDue ELSE scan

-----------------------------------------------------------------------------
(* Publishers, and the live copies of what they publish.                   *)

\* keep stores the queue copy, then the live copy is published.  That copy is at
\* most once: it may be lost.
Publish ==
    /\ last < MaxSeq
    /\ last' = last + 1
    /\ \/ transit' = transit
       \/ topic[last + 1] \in subs /\ transit' = transit \cup {last + 1}
    /\ UNCHANGED <<topic, noting, subVars, queueVars, readVars, connVars, sentVars, curVars>>

\* placeQueued on a connection that has room, or turns the copy away.
placeQueued(m) ==
    IF ~behind /\ Cardinality(pending) < QueueDepth
    THEN pending' = pending \cup {m} /\ UNCHANGED <<fromSeq, behind, catchup>>
    ELSE /\ behind' = TRUE /\ catchup' = TRUE
         /\ fromSeq' = lowestSeq({fromSeq, m}) /\ UNCHANGED pending

\* The NATS handler of the copy's subscription, which runs one copy at a time.
ArriveLive(m) ==
    /\ m \in transit
    /\ \A k \in noting : topic[k] # topic[m]
    /\ topic[m] \in subs
    /\ phase = "attached"
    /\ transit' = transit \ {m}
    /\ noting' = noting \cup {m}
    /\ placeQueued(m)
    /\ UNCHANGED <<topic, last, subVars, unwanted, inHand, readVars, connVars, sentVars, curVars>>

\* lateCopy: the connection has ended, or there is none.
ArriveLate(m) ==
    /\ m \in transit
    /\ \A k \in noting : topic[k] # topic[m]
    /\ topic[m] \in subs
    /\ phase # "attached"
    /\ transit' = transit \ {m}
    /\ cur' = noteBelow(cur, m)
    /\ UNCHANGED <<topic, last, noting, subVars, queueVars, readVars, connVars, sentVars,
                   scan, promised, blind>>

\* The second half of enqueueQueued, after the copy was placed.
noteLiveCopy(m) ==
    /\ m \in noting
    /\ noting' = noting \ {m}
    /\ cur' = noteBelow(cur, m)
    /\ UNCHANGED <<topic, last, transit, subVars, queueVars, readVars, connVars, sentVars,
                   scan, promised, blind>>

-----------------------------------------------------------------------------
(* SUBSCRIBE and UNSUBSCRIBE, handled one at a time by the reader.         *)

NoAsk == [at |-> "none", fresh |-> {}, had |-> FALSE, to |-> 0, exact |-> FALSE]

\* A scan that read for the subscriptions as they were no longer does.
subsChanged == scan' = [scan EXCEPT !.same = FALSE]

\* installSubscription: a repeated SUBSCRIBE keeps since when keepsSince says so.
Subscribe(f) ==
    /\ phase = "attached"
    /\ asking.at = "none"
    /\ requests < MaxRequests /\ requests' = requests + 1
    /\ subs' = subs \cup {f}
    /\ \E kept \in BOOLEAN :
        /\ kept => f \in subs /\ since[f] # sinceUnknown
        /\ since' = IF kept THEN since ELSE [since EXCEPT ![f] = sinceUnknown]
        /\ made' = IF kept THEN made ELSE [made EXCEPT ![f] = sinceUnknown]
        /\ asking' = IF kept THEN asking
                     ELSE [NoAsk EXCEPT !.at = "installed", !.fresh = {f}, !.had = subs # {}]
    /\ subsChanged
    /\ UNCHANGED <<netVars, queueVars, readVars, connVars, sentVars, cur, promised, blind>>

\* readSince: the stream's last sequence, or one this broker has seen.
ReadSince ==
    /\ asking.at = "installed"
    /\ made' = [f \in Filters |-> IF f \in asking.fresh THEN last ELSE made[f]]
    /\ \E to \in 0..last, exact \in BOOLEAN :
        /\ exact => to = last
        /\ asking' = [asking EXCEPT !.at = "read", !.to = to, !.exact = exact]
    /\ UNCHANGED <<netVars, subs, since, requests, queueVars, readVars, connVars, sentVars, curVars>>

setSince ==
    /\ asking.at = "read"
    /\ asking' = NoAsk
    /\ since' = [f \in Filters |-> IF f \in asking.fresh /\ since[f] = sinceUnknown
                                  THEN asking.to ELSE since[f]]
    /\ IF /\ asking.exact /\ cur.next = 0 /\ ~asking.had /\ owedFloor = 0
          /\ phase # "away" /\ \A f \in subs : since'[f] # sinceUnknown
       THEN cur' = setCursorLocked(cur, asking.to + 1) /\ promised' = 1
       ELSE UNCHANGED <<cur, promised>>
    /\ UNCHANGED <<netVars, subs, made, requests, queueVars, readVars, connVars, sentVars, scan, blind>>

\* removeSubscriptionFor: what is queued for the filter is no longer wanted, and
\* what its NATS subscription has not handled is dropped with it.
Unsubscribe(f) ==
    /\ phase = "attached"
    /\ asking.at = "none"
    /\ f \in subs
    /\ requests < MaxRequests /\ requests' = requests + 1
    /\ subs' = subs \ {f}
    /\ transit' = {m \in transit : topic[m] # f}
    /\ unwanted' = unwanted \cup {m \in Held \cap (pending \cup {inHand}) : topic[m] = f}
    /\ subsChanged
    /\ UNCHANGED <<topic, last, noting, since, made, asking, pending, inHand, fromSeq, behind,
                   catchup, readVars, connVars, sentVars, cur, promised, blind>>

-----------------------------------------------------------------------------
(* The delivery goroutine: live delivery and catch-up.                     *)

Idle == [at |-> "idle", ok |-> FALSE, had |-> {}, next |-> 0, start |-> 0,
         byTime |-> FALSE, known |-> {}, filters |-> {}, todo |-> {}, to |-> 0]

wasReplayed(m) == m \in replayed \cup replayedBefore

\* One waiting delivery: skipDelivery drops it, or it is taken in hand.
TakeDelivery(m) ==
    /\ phase = "attached" /\ loop.at = "idle"
    /\ m \in pending
    /\ pending' = pending \ {m}
    /\ IF wasReplayed(m) \/ m \in unwanted
       THEN unwanted' = unwanted \ {m} /\ UNCHANGED <<inHand, loop>>
       ELSE inHand' = m /\ loop' = [Idle EXCEPT !.at = "hand"] /\ UNCHANGED unwanted
    /\ UNCHANGED <<netVars, subVars, fromSeq, behind, catchup, streamNext, replayed, replayedBefore,
                   connVars, sentVars, curVars>>

\* prepare and sendPrepared, the id noted before the write.
Deliver ==
    /\ phase # "away" /\ loop.at = "hand"
    /\ IF inHand \in unwanted
       THEN UNCHANGED <<delivered, sent, cur, scan>>
       ELSE noteDelivered(inHand)
    /\ unwanted' = unwanted \ {inHand}
    /\ inHand' = 0
    /\ loop' = Idle
    /\ UNCHANGED <<netVars, subVars, pending, fromSeq, behind, catchup, streamNext, replayed,
                   replayedBefore, connVars, promised, blind>>

\* Mutant: only what this connection replayed is recognised.
sendReadKnown(m) ==
    /\ IF ~wasReplayed(m) /\ topic[m] \in subs
       THEN /\ noteDelivered(m)
            /\ replayed' = replayed \cup {m}
       ELSE UNCHANGED <<delivered, sent, cur, scan, replayed>>
    /\ streamNext' = m + 1
    /\ loop' = [loop EXCEPT !.todo = @ \ {m}]
    /\ UNCHANGED <<netVars, subVars, queueVars, replayedBefore, connVars, promised, blind>>

\* deliverQueuedOwed for m, read from the stream, unless its id was known when
\* the read began or it was replayed; and the position after it.
sendRead(m) ==
    /\ IF m \notin loop.known /\ ~wasReplayed(m) /\ topic[m] \in subs
       THEN /\ noteDelivered(m)
            /\ replayed' = replayed \cup {m}
       ELSE UNCHANGED <<delivered, sent, cur, scan, replayed>>
    /\ streamNext' = m + 1
    /\ loop' = [loop EXCEPT !.todo = @ \ {m}]
    /\ UNCHANGED <<netVars, subVars, queueVars, replayedBefore, connVars, promised, blind>>

\* catchUp, once drainDeliveries has sent what was waiting; a copy turned away
\* meanwhile has left another signal.  One that is left when the rounds are over
\* runs catchUp again, with nothing to read.
CatchUp ==
    /\ phase = "attached" /\ loop.at = "idle"
    /\ catchup /\ pending = {}
    /\ catchup' \in {FALSE, behind}
    /\ replayedBefore' = replayed
    /\ replayed' = {}
    /\ loop' = [Idle EXCEPT !.at = "round"]
    /\ UNCHANGED <<netVars, subVars, pending, unwanted, inHand, fromSeq, behind, streamNext,
                   connVars, sentVars, curVars>>

\* Mutant: a drained queue ends the catch-up, whatever was turned away.
CatchUpRoundDrained ==
    /\ phase = "attached" /\ loop.at = "round"
    /\ behind' = FALSE /\ fromSeq' = 0 /\ loop' = Idle
    /\ UNCHANGED <<netVars, subVars, pending, unwanted, inHand, catchup, streamNext, replayed,
                   replayedBefore, connVars, sentVars, curVars>>

\* A round: from the lowest sequence turned away to the stream's end now.
CatchUpRound ==
    /\ phase = "attached" /\ loop.at = "round"
    /\ IF fromSeq = 0
       THEN /\ behind' = FALSE
            /\ loop' = Idle
            /\ UNCHANGED <<streamNext, fromSeq>>
       ELSE /\ streamNext' = fromSeq
            /\ fromSeq' = 0
            /\ loop' = [Idle EXCEPT !.at = "catchup", !.known = delivered,
                                    !.todo = {m \in fromSeq..last : topic[m] \in subs}]
            /\ UNCHANGED behind
    /\ UNCHANGED <<netVars, subVars, pending, unwanted, inHand, catchup, replayed,
                   replayedBefore, connVars, sentVars, curVars>>

CatchUpStep(m) ==
    /\ phase = "attached" /\ loop.at = "catchup"
    /\ m = lowestSeq(loop.todo) /\ m # 0
    /\ sendRead(m)

CatchUpRoundDone ==
    /\ phase = "attached" /\ loop.at = "catchup" /\ loop.todo = {}
    /\ streamNext' = 0
    /\ loop' = [Idle EXCEPT !.at = "round"]
    /\ UNCHANGED <<netVars, subVars, queueVars, replayed, replayedBefore, connVars, sentVars,
                   curVars>>

-----------------------------------------------------------------------------
(* The end of a connection and the resumption of the session.              *)

Close ==
    /\ phase = "attached"
    /\ phase' = "closed"
    /\ UNCHANGED <<netVars, subVars, queueVars, readVars, conns, sentVars, curVars>>

\* finish, which the reader runs after its last packet, once the delivery
\* goroutine has stopped; a read that was cut short unpins.
Detach ==
    /\ phase = "closed" /\ asking.at = "none"
    /\ phase' = "away"
    /\ pending' = {} /\ unwanted' = {} /\ inHand' = 0 /\ fromSeq' = 0 /\ behind' = FALSE
    /\ catchup' = FALSE /\ streamNext' = 0 /\ replayed' = {} /\ replayedBefore' = {} /\ loop' = Idle
    /\ cur' = [cur EXCEPT !.pin = 0]
    /\ UNCHANGED <<netVars, subVars, conns, sentVars, scan, promised, blind>>

Attach ==
    /\ phase = "away"
    /\ conns < MaxConns
    /\ phase' = "attached"
    /\ conns' = conns + 1
    /\ loop' = [Idle EXCEPT !.at = "resume"]
    /\ UNCHANGED <<netVars, subVars, queueVars, streamNext, replayed, replayedBefore,
                   sentVars, curVars>>

\* resume.Load() # nil on the current connection.
resuming == loop.at \in {"holes", "filters", "seq"}

\* replayOffline with a cursor: replayFromCursor begins with the holes.
ReplayFromCursor ==
    /\ phase = "attached" /\ loop.at = "resume" /\ cur.next # 0
    /\ LET start == lowestSeq(cur.holes \cup {cur.next})
       IN  /\ streamNext' = start
           /\ loop' = [Idle EXCEPT !.at = "holes", !.ok = TRUE, !.had = cur.holes,
                                   !.next = cur.next, !.start = start, !.known = delivered,
                                   !.todo = cur.holes]
    /\ UNCHANGED <<netVars, subVars, queueVars, replayed, replayedBefore, connVars, sentVars,
                   curVars>>

\* replayOffline without one, or when the stream's end could not be read for it:
\* a read from a time or a sequence, pinned unless there is a cursor.  Ids are
\* kept for longer than either reaches back.
ReplayFromRewind(start, byTime) ==
    /\ phase = "attached" /\ loop.at = "resume"
    /\ start \in 1..(last + 1) /\ \A d \in Forgotten : d < start
    /\ cur' = IF cur.next # 0 THEN cur ELSE [cur EXCEPT !.pin = IF byTime THEN 1 ELSE start]
    /\ streamNext' = IF byTime THEN 0 ELSE start
    /\ loop' = [Idle EXCEPT !.at = "filters", !.next = start, !.start = start,
                            !.byTime = byTime, !.known = delivered, !.filters = subs]
    /\ UNCHANGED <<netVars, subVars, queueVars, replayed, replayedBefore, connVars, sentVars,
                   scan, promised, blind>>

ReplayStep(m) ==
    /\ phase = "attached" /\ loop.at \in {"holes", "seq"}
    /\ m = lowestSeq(loop.todo) /\ m # 0
    /\ sendRead(m)

\* The subscriptions the stream read is narrowed to.
ReplayHolesDone ==
    /\ phase = "attached" /\ loop.at = "holes" /\ loop.todo = {}
    /\ loop' = [loop EXCEPT !.at = "filters", !.filters = subs]
    /\ UNCHANGED <<netVars, subVars, queueVars, streamNext, replayed, replayedBefore,
                   connVars, sentVars, curVars>>

\* Mutant: the read of the stream starts one after the cursor.
ReplayReadAfterNext ==
    /\ phase = "attached" /\ loop.at = "filters"
    /\ loop' = [loop EXCEPT !.at = "seq", !.to = last,
                            !.todo = {m \in (loop.next + 1)..last : topic[m] \in loop.filters}]
    /\ blind' = blind \cup {m \in loop.next..last : topic[m] \in subs \ loop.filters}
    /\ UNCHANGED <<netVars, subVars, queueVars, streamNext, replayed, replayedBefore,
                   connVars, sentVars, cur, scan, promised>>

\* replayFrom: the stream's end when the read starts, and what it matches.
ReplayRead ==
    /\ phase = "attached" /\ loop.at = "filters"
    /\ LET todo == {m \in loop.next..last : topic[m] \in loop.filters}
       IN  loop' = [loop EXCEPT !.at = "seq", !.to = last, !.todo = todo,
                       !.start = CASE ~loop.byTime -> @
                                   [] loop.byTime /\ todo # {} -> Min(todo)
                                   [] OTHER -> last + 1]
    /\ blind' = blind \cup {m \in loop.next..last : topic[m] \in subs \ loop.filters}
    /\ UNCHANGED <<netVars, subVars, queueVars, streamNext, replayed, replayedBefore,
                   connVars, sentVars, cur, scan, promised>>

\* readUntilDone reads again after an error: the holes too, when it began with
\* them, and with the subscriptions as they are then.
ReplayRetry ==
    /\ phase = "attached" /\ resuming
    /\ loop' = IF loop.ok THEN [loop EXCEPT !.at = "holes", !.todo = loop.had, !.to = 0]
               ELSE [loop EXCEPT !.at = "filters", !.todo = {}, !.to = 0]
    /\ loop' # loop
    /\ UNCHANGED <<netVars, subVars, queueVars, streamNext, replayed, replayedBefore,
                   connVars, sentVars, curVars>>

\* Mutant: the pin of a read that failed stays.
ReplayFailsPinned ==
    /\ phase = "attached" /\ resuming
    /\ streamNext' = 0
    /\ loop' = Idle
    /\ UNCHANGED <<netVars, subVars, queueVars, replayed, replayedBefore, connVars, sentVars, curVars>>

\* readUntilDone gives up: the cursor stays, a pin does not.
ReplayFails ==
    /\ phase = "attached" /\ resuming
    /\ streamNext' = 0
    /\ loop' = Idle
    /\ cur' = [cur EXCEPT !.pin = IF loop.ok THEN @ ELSE 0]
    /\ UNCHANGED <<netVars, subVars, queueVars, replayed, replayedBefore, connVars, sentVars,
                   scan, promised, blind>>

\* The read is complete: resume and the position are cleared, then replayedTo.
ReplayComplete ==
    /\ phase = "attached" /\ loop.at = "seq" /\ loop.todo = {}
    /\ streamNext' = 0
    /\ loop' = [loop EXCEPT !.at = "replayed"]
    /\ UNCHANGED <<netVars, subVars, queueVars, replayed, replayedBefore, connVars, sentVars,
                   curVars>>

\* min(to + 1, floor), the floor counting when it is set.
belowFloor(to) == lowestSeq({to + 1, owedFloor})

replayedTo ==
    /\ phase = "attached" /\ loop.at = "replayed"
    /\ since' = [f \in Filters |-> IF f \in subs /\ since[f] = sinceUnknown
                                  THEN loop.to ELSE since[f]]
    /\ loop' = Idle
    /\ LET n == belowFloor(loop.to)
           c == [cur EXCEPT !.pin = 0]
           settled == [c EXCEPT !.holes = @ \ loop.had]
       IN  \/ /\ ~loop.ok
              /\ IF \/ cur.next # 0 \/ cur.pin = 0 \/ cur.pin > loop.start
                    \/ (owedFloor # 0 /\ owedFloor < loop.start)
                 THEN cur' = c /\ UNCHANGED promised
                 ELSE /\ cur' = [setCursorLocked(c, n) EXCEPT !.above = capAbove(countAboveLocked(n))]
                      /\ promised' = loop.start
           \/ /\ loop.ok
              /\ cur' = CASE cur.next = 0 -> c
                          [] cur.next # 0 /\ n <= cur.next -> settled
                          [] OTHER -> [settled EXCEPT !.next = n, !.above = capAbove(countAboveLocked(n))]
              /\ UNCHANGED promised
    /\ UNCHANGED <<netVars, subs, made, asking, requests, queueVars, streamNext, replayed,
                   replayedBefore, connVars, sentVars, scan, blind>>

-----------------------------------------------------------------------------
(* The scan goroutine.                                                     *)

\* scanAgain: the cursor c with asked taken, and the scan that runs next.
scanAgain(c, again) ==
    LET due == again /\ c.next # 0 /\ c.above >= CursorScanAfter
    IN  /\ cur' = [c EXCEPT !.asked = FALSE, !.changed = FALSE]
        /\ scan' = IF (c.asked \/ due) /\ phase # "away" THEN ScanDue ELSE NoScan

scanUnchanged == UNCHANGED <<netVars, subVars, queueVars, readVars, connVars, sentVars>>

\* The connection the scan runs for is the session's and is open.
scanConnLive == scan.conn = conns /\ phase = "attached"

\* scanOnce up to the read; without a cursor it is a restart scan.
ScanBegin ==
    /\ scan.at = "due"
    /\ LET c == IF cur.next = 0 THEN [cur EXCEPT !.above = 0] ELSE cur
           runs == scanConnLive /\ ~resuming
       IN  IF runs /\ sinceKnown /\ (cur.next = 0 => cur.pin = 0)
           THEN /\ cur' = c
                /\ scan' = [scan EXCEPT !.at = "begun", !.start = cur.next,
                                        !.restart = (cur.next = 0)]
           ELSE scanAgain(IF runs THEN c ELSE cur, FALSE)
    /\ scanUnchanged /\ UNCHANGED <<promised, blind>>

\* The read: the subscriptions, the stream's end, and what is owed up to it.
\* A restart reads from a time, so base is what a subscription matched first.
ScanRead(from) ==
    /\ scan.at = "begun"
    /\ IF scan.restart
       THEN subs # {} /\ from \in 1..(last + 1) /\ \A d \in Forgotten : d < from
       ELSE from = scan.start
    /\ LET seen == {m \in from..last : topic[m] \in subs}
       IN  /\ scan' = [scan EXCEPT !.at = "read", !.same = TRUE, !.to = last,
                           !.owed = {m \in seen : owedBy(m)},
                           !.base = CASE ~scan.restart -> 0
                                      [] scan.restart /\ seen # {} -> Min(seen)
                                      [] OTHER -> last + 1]
           /\ blind' = blind \cup {m \in seen : since[topic[m]] = sinceUnknown}
    /\ scanUnchanged /\ UNCHANGED <<cur, promised>>

\* The read failed, found nothing to read, or a restart outlived the rewind.
ScanFails ==
    /\ scan.at = "begun" \/ (scan.at = "read" /\ scan.restart)
    /\ scanAgain(cur, FALSE)
    /\ scanUnchanged /\ UNCHANGED <<promised, blind>>

\* applyScanLocked once nothing it depends on has changed.
applyScanLocked ==
    LET floor == owedFloor
        n     == IF floor # 0 /\ floor < scan.to + 1 THEN Larger(floor, scan.start)
                 ELSE scan.to + 1
        c     == addHolesLocked(cur, {m \in scan.owed : m < n})
    IN  IF c.next = 0 THEN scanAgain(c, FALSE)
        ELSE scanAgain([c EXCEPT !.next = n, !.above = capAbove(countAboveLocked(n))], n > cur.next)

applyScan ==
    /\ scan.at = "read" /\ ~scan.restart
    /\ LET current == scanConnLive /\ ~cur.changed /\ cur.next = scan.start
       IN  \/ ~current /\ scanAgain(cur, FALSE)
           \/ current /\ ~scan.same /\ scanAgain(cur, TRUE)
           \/ current /\ scan.same /\ ~sinceKnown /\ scanAgain(cur, FALSE)
           \/ current /\ scan.same /\ sinceKnown /\ applyScanLocked
    /\ scanUnchanged /\ UNCHANGED <<promised, blind>>

\* restartCursorLocked.
restartAllowed ==
    /\ scanConnLive /\ ~resuming
    /\ cur.next = 0 /\ ~cur.changed /\ cur.pin = 0
    /\ sinceKnown /\ scan.same
    /\ owedFloor = 0 \/ owedFloor >= scan.base

applyRestart ==
    /\ scan.at = "read" /\ scan.restart
    /\ LET n     == belowFloor(scan.to)
           holes == {m \in scan.owed : m < n} \ delivered
           c     == [setCursorLocked(cur, n) EXCEPT !.base = scan.base, !.holes = holes,
                                                    !.above = capAbove(countAboveLocked(n))]
       IN  IF /\ restartAllowed
              /\ Cardinality(holes) <= MaxReplayHoles
              /\ countAboveLocked(n) <= CursorIDBound
           THEN scanAgain(c, FALSE) /\ promised' = scan.base
           ELSE scanAgain(cur, FALSE) /\ UNCHANGED promised
    /\ scanUnchanged /\ UNCHANGED blind

-----------------------------------------------------------------------------
NoCursor == [next |-> 0, holes |-> {}, changed |-> FALSE, above |-> 0, asked |-> FALSE,
             pin |-> 0, base |-> 0]

\* A session just created, its first connection attached.
Init ==
    /\ topic \in [Seqs -> Filters]
    /\ last = 0 /\ transit = {} /\ noting = {}
    /\ subs = {} /\ since = [f \in Filters |-> sinceUnknown] /\ made = [f \in Filters |-> sinceUnknown]
    /\ asking = NoAsk /\ requests = 0
    /\ phase = "attached" /\ conns = 1
    /\ pending = {} /\ unwanted = {} /\ inHand = 0 /\ fromSeq = 0 /\ behind = FALSE
    /\ catchup = FALSE
    /\ streamNext = 0 /\ replayed = {} /\ replayedBefore = {} /\ loop = Idle
    /\ delivered = {} /\ sent = {}
    /\ cur = NoCursor /\ scan = NoScan
    /\ promised = 0 /\ blind = {}

Next ==
    \/ Publish
    \/ \E m \in Seqs : ArriveLive(m) \/ ArriveLate(m) \/ noteLiveCopy(m)
    \/ \E f \in Filters : Subscribe(f) \/ Unsubscribe(f)
    \/ ReadSince \/ setSince
    \/ \E m \in Seqs : TakeDelivery(m) \/ CatchUpStep(m) \/ ReplayStep(m)
    \/ Deliver \/ CatchUp \/ CatchUpRound \/ CatchUpRoundDone
    \/ Close \/ Detach \/ Attach
    \/ ReplayFromCursor
    \/ \E start \in 1..(MaxSeq + 1), byTime \in BOOLEAN : ReplayFromRewind(start, byTime)
    \/ ReplayHolesDone \/ ReplayRead \/ ReplayRetry \/ ReplayFails \/ ReplayComplete \/ replayedTo
    \/ ScanBegin \/ ScanFails \/ applyScan \/ applyRestart
    \/ \E from \in 1..(MaxSeq + 1) : ScanRead(from)

Spec == Init /\ [][Next]_vars

\* The delivery goroutine where it sends: prepare waits for a slot of the send
\* quota without a limit (subscribe.go:785).
sendStep == Deliver \/ \E m \in Seqs : CatchUpStep(m) \/ ReplayStep(m)

\* The delivery goroutine, reads that fail left out.
deliveryStep ==
    \/ \E m \in Seqs : TakeDelivery(m)
    \/ sendStep
    \/ CatchUp \/ CatchUpRound \/ CatchUpRoundDone
    \/ ReplayFromCursor
    \/ \E start \in 1..(MaxSeq + 1), byTime \in BOOLEAN : ReplayFromRewind(start, byTime)
    \/ ReplayHolesDone \/ ReplayRead \/ ReplayComplete \/ replayedTo

\* The scan goroutine.
scanStep ==
    \/ ScanBegin \/ ScanFails \/ applyScan \/ applyRestart
    \/ \E from \in 1..(MaxSeq + 1) : ScanRead(from)

\* readUntilDone looks at its 30 s after a read that failed (offline.go:639), so
\* that a resume reads again only finitely often.
RetriesEnd == <>[][~ReplayRetry]_vars

\* Each goroutine runs: the delivery goroutine, the scan, and the reader, which
\* finishes the SUBSCRIBE it is handling and then lets an ended connection go.
\* That sendStep runs is an assumption on the client, who acknowledges what it is
\* sent, so that the slot comes back.  Nothing makes a read fail.
FairSpec ==
    /\ Spec
    /\ WF_vars(deliveryStep) /\ RetriesEnd
    /\ WF_vars(scanStep)
    /\ WF_vars(ReadSince \/ setSince \/ Detach)

-----------------------------------------------------------------------------
(* Properties.                                                             *)

askType == [at : {"none", "installed", "read"}, fresh : SUBSET Filters, had : BOOLEAN,
            to : 0..MaxSeq, exact : BOOLEAN]

loopType == [at : {"idle", "hand", "round", "catchup", "resume", "holes", "filters", "seq",
                   "replayed"},
             ok : BOOLEAN, had : SUBSET Seqs, next : 0..(MaxSeq + 1), start : 0..(MaxSeq + 1),
             byTime : BOOLEAN, known : SUBSET Seqs, filters : SUBSET Filters,
             todo : SUBSET Seqs, to : 0..MaxSeq]

curType == [next : 0..(MaxSeq + 1), holes : SUBSET Seqs, changed : BOOLEAN,
            above : 0..CursorScanAfter, asked : BOOLEAN, pin : 0..(MaxSeq + 1),
            base : 0..(MaxSeq + 1)]

scanType == [at : {"off", "due", "begun", "read"}, conn : 0..MaxConns, restart : BOOLEAN,
             start : 0..(MaxSeq + 1), same : BOOLEAN, to : 0..MaxSeq, owed : SUBSET Seqs,
             base : 0..(MaxSeq + 1)]

\* The variables have the types the code gives them.
TypeOK ==
    /\ topic \in [Seqs -> Filters] /\ last \in 0..MaxSeq
    /\ transit \subseteq Seqs /\ noting \subseteq Seqs
    /\ subs \subseteq Filters
    /\ since \in [Filters -> 0..sinceUnknown] /\ made \in [Filters -> 0..sinceUnknown]
    /\ asking \in askType /\ requests \in 0..MaxRequests
    /\ phase \in {"attached", "closed", "away"} /\ conns \in 1..MaxConns
    /\ pending \subseteq Seqs /\ unwanted \subseteq Seqs
    /\ inHand \in 0..MaxSeq /\ fromSeq \in 0..MaxSeq /\ behind \in BOOLEAN
    /\ catchup \in BOOLEAN
    /\ streamNext \in 0..(MaxSeq + 1)
    /\ replayed \subseteq Seqs /\ replayedBefore \subseteq Seqs /\ loop \in loopType
    /\ delivered \subseteq sent /\ sent \subseteq Seqs
    /\ cur \in curType /\ scan \in scanType
    /\ promised \in 0..(MaxSeq + 1) /\ blind \subseteq Seqs

\* The session is owed m: stored after a subscription it holds was confirmed.
Owed(m) == owedBy(m) /\ m > made[topic[m]]

\* cursor.go:29, "every message below next that the session was owed is
\* delivered, or is a hole" -- from where the cursor began to account for
\* messages, and except those a read could not classify.
NothingOwedSkipped ==
    cur.next # 0 =>
        \A m \in 1..last : (/\ promised <= m /\ m < cur.next
                            /\ Owed(m) /\ m \notin blind) => m \in sent \cup cur.holes

\* The same without the exception, as the comment states it.
EveryOwedAccounted ==
    cur.next # 0 =>
        \A m \in 1..last : (promised <= m /\ m < cur.next /\ Owed(m)) => m \in sent \cup cur.holes

\* cursor.go:46, "a live copy waiting in the connection is never passed": one
\* still wanted and not sent is at or above next, or a hole, or about to be noted
\* as one.
HeldNotPassed ==
    cur.next # 0 =>
        \A m \in (pending \cup {inHand}) \ ({0} \cup unwanted) :
            m >= cur.next \/ m \in sent \cup cur.holes \cup noting

\* cursor.go:40, "next only moves forward": a cursor goes back only by being
\* dropped, whatever is held below it when a scan or a replay moves it.
NextMovesForward == [][cur.next # 0 /\ cur'.next # 0 => cur'.next >= cur.next]_vars

\* cursor.go:32, a stream read never sends a message the client was sent.
ReadNeverRepeats == [][(replayed' \ replayed) \cap sent = {}]_vars

\* subscribe.go:690, a live copy of a message replayed is recognised too.
NeverSentTwice == [][Deliver /\ inHand \notin unwanted => inHand \notin sent]_vars

\* A hole is a message that was not sent.
HolesUnsent == cur.holes \cap sent = {}

\* cursor.go:71, a restarted cursor holds only while the connection holds
\* nothing below its base.
NothingHeldBelowBase ==
    cur.base # 0 =>
        \A m \in (pending \cup {inHand, fromSeq}) \ {0} : m >= cur.base \/ m \in noting

\* offline.go:797, a resume that read to the stream's end has sent every hole
\* of the cursor it began with, and everything from there on, that the session
\* is owed and the read could classify.
ResumeLosesNothing ==
    loop.at = "replayed" =>
        \A m \in loop.had \cup (loop.next..loop.to) : (Owed(m) /\ m \notin blind) => m \in sent

\* catchup.go:17, a copy turned away for want of room is read from the stream and
\* sent, with all that follows it there, while the connection and the subscription
\* last; also one that is turned away while the stream is being read (catchup.go:141).
TurnedAwayIsSent ==
    \A m \in Seqs : (fromSeq # 0 /\ m \in fromSeq..last /\ topic[m] \in subs)
                        ~> (m \in sent \/ topic[m] \notin subs \/ phase # "attached")

\* cursor.go:665, what pins the ids always lets them go: read through, failed or
\* cut off by the connection's end.
PinReleased == cur.pin # 0 ~> cur.pin = 0
=============================================================================

----------------------------- MODULE Reconnect ------------------------------
(***************************************************************************)
(* Catching up after a broker was off NATS (reconnect.go, routewatch.go,   *)
(* catchup.go, Options.ReconnectCatchUp): a drop of the NATS connection or *)
(* a change of the cluster's routes holds a connected session's live       *)
(* copies back; once the connection is back, or the routes have settled,   *)
(* the session reads the offline queue from before the drop.               *)
(*                                                                         *)
(* One session whose replay cursor was dropped, its one connection and one *)
(* subscription.  Messages are published "here", through this broker, or   *)
(* "there", through one that a route connects; each is stored in the queue *)
(* and then sent live.  A message is its sequence in the queue.            *)
(***************************************************************************)
EXTENDS Naturals, Sequences, SequencesExt, FiniteSetsExt

CONSTANTS
    Settings,           \* what happens at most, one of which Init chooses
    QueueDepth,         \* deliveryQueueDepth
    DeliveredSeqWindow, \* deliveredSeqWindow
    RouteOutlasts       \* whether a route may be away for longer than the rewind

ASSUME ReconnectAssumption ==
    /\ \A s \in Settings : s \in [subscribed : BOOLEAN, msgs : Nat, faults : Nat]
    /\ QueueDepth \in Nat \ {0}
    /\ DeliveredSeqWindow \in Nat /\ RouteOutlasts \in BOOLEAN

VARIABLES
    setting,    \* the bounds, and whether the session is subscribed from the start
    origin,     \* origin[m]: where m was published
    transit,    \* live copies on their way to the broker
    aged,       \* messages 1..aged were stored longer ago than the rewind
    link,       \* the NATS connection: "up", "dead" (not noticed yet) or "down"
    route,      \* the route between the two brokers' servers: "up" or "down"
    urls,       \* nats.Conn.DiscoveredServers, as the route it shows
    calls,      \* nats.go's handlers, to be called in this order
    known,      \* watchRoutes: the servers of the last poll
    changed,    \* watchRoutes: they changed, and catching up is due
    watch,      \* natsWatch: lostAt # 0 (as lost), what lostAt - window names, seenAt
    finder,     \* catchUpAfterReconnect, begun by the handler or by watchRoutes
    seen,       \* offlineQueue.seen
    sub,        \* the subscription: none, installed, or its since is known
    since,      \* subscription.since
    held, behind, fromSeq, owedOnly,  \* the connection, under catchMu
    pending,    \* conn.deliveries
    wake,       \* conn.catchup has a signal
    loop,       \* the delivery goroutine
    replayed, replayedBefore,
    delivered,  \* the ids session.delivered keeps
    closed,     \* the connection has ended
    sent,       \* history: the messages sent, in order
    made,       \* history: the queue's end when the subscription was installed
    faults,     \* faults so far
    flapped,    \* history: a route has dropped
    stray       \* history: lost on their way to a dying server, at or below seen

netVars  == <<origin, transit, aged, link, route, urls, faults, flapped, stray>>
watchVars == <<calls, known, changed, watch, finder>>
subVars  == <<sub, since, made>>
catchVars == <<held, behind, fromSeq, owedOnly, wake>>
loopVars == <<loop, replayed, replayedBefore>>
sentVars == <<delivered, sent>>
vars == <<netVars, watchVars, seen, subVars, catchVars, pending, loopVars, sentVars, closed>>

last == Len(origin)
MaxSeq == setting.msgs       \* bound: messages, the one stored before included
MaxFaults == setting.faults  \* bound: servers that die, routes that drop
Seqs == 1..Max({s.msgs : s \in Settings})
saw(n) == seen' = IF n > seen THEN n ELSE seen
maxDelivered == Max({0} \cup Range(sent))

-----------------------------------------------------------------------------
(* The connection, under catchMu.                                          *)

\* noteOwedLocked.
lowest(a, b) == IF a = 0 \/ b < a THEN b ELSE a

\* holdLive.
holdLive == held' = TRUE /\ behind' = TRUE

catchUpFloor(n) ==
    IF maxDelivered > DeliveredSeqWindow THEN Max({n, maxDelivered - DeliveredSeqWindow}) ELSE n

\* Mutant: the delivery goroutine is not told.
releaseLiveUntold(n) ==
    /\ held' = FALSE /\ behind' = TRUE /\ owedOnly' = TRUE /\ UNCHANGED wake
    /\ fromSeq' = lowest(fromSeq, catchUpFloor(n))

\* releaseLive: the catch-up starts at n.
releaseLive(n) ==
    /\ held' = FALSE /\ behind' = TRUE /\ owedOnly' = TRUE /\ wake' = TRUE
    /\ fromSeq' = lowest(fromSeq, catchUpFloor(n))

\* placeQueued, on a connection that has not ended.
placeQueued(m) ==
    IF ~behind /\ Len(pending) < QueueDepth
    THEN pending' = Append(pending, m) /\ UNCHANGED catchVars
    ELSE /\ behind' = TRUE /\ wake' = TRUE /\ fromSeq' = lowest(fromSeq, m)
         /\ UNCHANGED <<pending, held, owedOnly>>

-----------------------------------------------------------------------------
(* natsWatch, under its lock.                                              *)
NotLost == [lost |-> FALSE, at |-> 0, seen |-> 0]
NoFinder == [at |-> "none", start |-> 0, seen |-> 0]
Callers == {"handler", "watcher"}

\* lostAt and seenAt are those of the first drop that was not caught up.
lostNow == IF watch.lost THEN watch ELSE [lost |-> TRUE, at |-> aged, seen |-> seen]

\* gen++: a catch-up begun for an earlier drop ends without effect.
otherDrop == finder' = [c \in Callers |-> NoFinder]

natsLost ==
    /\ watch' = lostNow
    /\ otherDrop
    /\ holdLive /\ UNCHANGED <<fromSeq, owedOnly, wake>>

natsBack(c) ==
    finder' = IF watch.lost
              THEN [finder EXCEPT ![c] = [at |-> "read", start |-> watch.at, seen |-> watch.seen]]
              ELSE finder

-----------------------------------------------------------------------------
(* Publishing, NATS and time.                                              *)

\* A message is stored, then sent live; keep needs the connection.
Publish(p) ==
    /\ last < MaxSeq
    /\ p = "here" => link = "up"
    /\ origin' = Append(origin, p)
    /\ IF p = "here" THEN saw(last + 1) ELSE UNCHANGED seen
    /\ transit' = IF sub # "none" /\ link = "up" /\ (p = "here" \/ route = "up")
                  THEN transit \cup {last + 1} ELSE transit
    /\ UNCHANGED <<aged, link, route, urls, faults, flapped, stray, watchVars, subVars, catchVars,
                   pending, loopVars, sentVars, closed>>

\* The NATS handler of the subscription.  One publisher's copies keep their order.
Arrive(m) ==
    /\ m \in transit /\ \A n \in transit : origin[n] = origin[m] => m <= n
    /\ transit' = transit \ {m}
    /\ saw(m)
    /\ placeQueued(m)
    /\ UNCHANGED <<origin, aged, link, route, urls, faults, flapped, stray, watchVars, subVars,
                   loopVars, sentVars, closed>>

\* What is lost of one publisher's copies is the end of them.
cutOff(lost) == \A m \in lost, n \in transit : origin[n] = origin[m] /\ n > m => n \in lost

Fault == faults < MaxFaults /\ faults' = faults + 1

\* The server dies, or its connection breaks: some of what is on its way is lost.
Die(lost) ==
    /\ Fault /\ link = "up" /\ cutOff(lost)
    /\ link' = "dead"
    /\ transit' = transit \ lost
    /\ stray' = stray \cup {m \in lost : m <= seen}
    /\ UNCHANGED <<origin, aged, route, urls, flapped, watchVars, seen, subVars, catchVars, pending,
                   loopVars, sentVars, closed>>

\* nats.go reports it, at once or when its pings fail.
Notice ==
    /\ link = "dead" /\ link' = "down"
    /\ calls' = Append(calls, "lost")
    /\ UNCHANGED <<origin, transit, aged, route, urls, faults, flapped, stray, known, changed, watch,
                   finder, seen, subVars, catchVars, pending, loopVars, sentVars, closed>>

\* nats.go connects again, after it reported the loss.
Relink ==
    /\ link = "down" /\ "lost" \notin Range(calls)
    /\ link' = "up" /\ urls' = route
    /\ calls' = Append(calls, "back")
    /\ loop' = [loop EXCEPT !.cut = loop.at \in {"begin", "read"}]
    /\ UNCHANGED <<origin, transit, aged, route, faults, flapped, stray, known, changed, watch, finder,
                   seen, subVars, catchVars, pending, replayed, replayedBefore, sentVars, closed>>

\* The handlers watchReconnects chained to the connection's.
HandleLost ==
    /\ calls # <<>> /\ Head(calls) = "lost" /\ calls' = Tail(calls)
    /\ natsLost
    /\ UNCHANGED <<netVars, known, changed, seen, subVars, pending, loopVars, sentVars, closed>>

HandleBack ==
    /\ calls # <<>> /\ Head(calls) = "back" /\ calls' = Tail(calls)
    /\ natsBack("handler")
    /\ UNCHANGED <<netVars, known, changed, watch, seen, subVars, catchVars, pending, loopVars,
                   sentVars, closed>>

shown(r) == IF link = "up" THEN r ELSE urls

RouteDrops(lost) ==
    /\ Fault /\ route = "up" /\ cutOff(lost) /\ \A m \in lost : origin[m] = "there"
    /\ route' = "down" /\ urls' = shown("down") /\ flapped' = TRUE
    /\ transit' = transit \ lost
    /\ UNCHANGED <<origin, aged, link, stray, watchVars, seen, subVars, catchVars, pending, loopVars,
                   sentVars, closed>>

\* A flap shorter than routePollInterval is not seen, and left out.
RouteReturns ==
    /\ route = "down"
    /\ link = "up" => known = "down"
    /\ route' = "up" /\ urls' = shown("up")
    /\ UNCHANGED <<origin, transit, aged, link, faults, flapped, stray, watchVars, seen, subVars,
                   catchVars, pending, loopVars, sentVars, closed>>

\* Time: nothing on its way, no call of a handler and no poll takes as long as the
\* rewind; a dead server may go unnoticed for longer.
Age(n) ==
    /\ n \in (aged + 1)..last /\ \A m \in transit : n < m
    /\ calls = <<>> /\ urls = known
    /\ route = "down" => RouteOutlasts
    /\ aged' = n
    /\ UNCHANGED <<origin, transit, link, route, urls, faults, flapped, stray, watchVars, seen, subVars,
                   catchVars, pending, loopVars, sentVars, closed>>
-----------------------------------------------------------------------------
(* watchRoutes, one poll.  The routes settle at any time after a change.   *)
PollDisconnected ==
    /\ link = "down" /\ (known # urls \/ changed)
    /\ known' = urls /\ changed' = FALSE
    /\ UNCHANGED <<netVars, calls, watch, finder, seen, subVars, catchVars, pending, loopVars,
                   sentVars, closed>>

PollChanged ==
    /\ link # "down" /\ known # urls
    /\ known' = urls /\ changed' = TRUE
    /\ natsLost
    /\ UNCHANGED <<netVars, calls, seen, subVars, pending, loopVars, sentVars, closed>>

PollSettled ==
    /\ link # "down" /\ known = urls /\ changed
    /\ changed' = FALSE
    /\ natsBack("watcher")
    /\ UNCHANGED <<netVars, calls, known, watch, seen, subVars, catchVars, pending, loopVars,
                   sentVars, closed>>

\* The first message not older than the rewind when 1..at were.
firstSeqSince(at) == at + 1

\* catchUpAfterReconnect tries until it can read the queue.
FindStart(c) ==
    /\ finder[c].at = "read" /\ link = "up"
    /\ finder' = [finder EXCEPT ![c].at = "apply",
                     ![c].start = IF finder[c].seen # 0 /\ finder[c].seen + 1 < firstSeqSince(@)
                                  THEN finder[c].seen + 1 ELSE firstSeqSince(@)]
    /\ saw(last)
    /\ UNCHANGED <<netVars, calls, known, changed, watch, subVars, catchVars, pending, loopVars,
                   sentVars, closed>>

Release(c) ==
    /\ finder[c].at = "apply"
    /\ finder' = [finder EXCEPT ![c] = NoFinder]
    /\ watch' = NotLost
    /\ releaseLive(finder[c].start)
    /\ UNCHANGED <<netVars, calls, known, changed, seen, subVars, pending, loopVars, sentVars, closed>>

-----------------------------------------------------------------------------
(* SUBSCRIBE: the subscription is bound and installed, then its since read. *)
Subscribe ==
    /\ sub = "none" /\ link = "up"
    /\ sub' = "installed" /\ made' = last
    /\ UNCHANGED <<netVars, watchVars, seen, since, catchVars, pending, loopVars, sentVars, closed>>

ReadSince ==
    /\ sub = "installed"
    /\ sub' = "known"
    /\ \/ link = "up" /\ since' = last /\ saw(last)
       \/ since' = seen /\ UNCHANGED seen
    /\ UNCHANGED <<netVars, watchVars, made, catchVars, pending, loopVars, sentVars, closed>>

-----------------------------------------------------------------------------
(* The delivery goroutine.                                                 *)
Idle == [at |-> "idle", drained |-> {}, had |-> {}, subbed |-> FALSE, owedOnly |-> FALSE,
         next |-> 0, to |-> 0, cut |-> FALSE]

\* sendPrepared and noteDelivered, which may prune the ids.
send(m) ==
    LET newest == Max({m, maxDelivered})
        old == {k \in delivered : k <= aged /\ k + DeliveredSeqWindow < newest}
    IN  /\ sent' = Append(sent, m)
        /\ \E forgotten \in {{}, old} : delivered' = (delivered \cup {m}) \ forgotten

\* Mutant: only this catch-up's messages are known.
wasReplayedNow(m) == m \in replayed

\* skipDelivery: the copy was read from the queue, in this catch-up or the last.
wasReplayed(m) == m \in replayed \cup replayedBefore

takeDelivery(m) ==
    /\ pending # <<>> /\ m = Head(pending) /\ pending' = Tail(pending)
    /\ IF wasReplayed(m) THEN UNCHANGED sentVars ELSE send(m)

Deliver ==
    /\ loop.at = "idle"
    /\ takeDelivery(Head(pending))
    /\ UNCHANGED <<netVars, watchVars, seen, subVars, catchVars, loopVars, closed>>

CatchUp ==
    /\ loop.at = "idle" /\ wake
    /\ wake' = FALSE
    /\ loop' = [Idle EXCEPT !.at = "drain"]
    /\ UNCHANGED <<netVars, watchVars, seen, subVars, held, behind, fromSeq, owedOnly, pending,
                   replayed, replayedBefore, sentVars, closed>>

\* drainDeliveries.
Drain ==
    /\ loop.at = "drain"
    /\ takeDelivery(Head(pending))
    /\ loop' = [loop EXCEPT !.drained = IF wasReplayed(Head(pending)) THEN @ ELSE @ \cup {Head(pending)}]
    /\ UNCHANGED <<netVars, watchVars, seen, subVars, catchVars, replayed, replayedBefore, closed>>

\* Bound: no copy is on its way for as long as two catch-ups take.
ArrivedInTime == replayedBefore \cap transit = {}

DrainDone ==
    /\ loop.at = "drain" /\ pending = <<>> /\ ArrivedInTime
    /\ loop' = [loop EXCEPT !.at = "round"]
    /\ replayedBefore' = replayed /\ replayed' = {}
    /\ UNCHANGED <<netVars, watchVars, seen, subVars, catchVars, pending, sentVars, closed>>

\* Mutant: a held connection starts its read where the first copy was turned away.
waitsForReleaseNever == FALSE

waitsForRelease == held

\* A round of catchUp begins, or the catch-up ends.
Round ==
    /\ loop.at = "round"
    /\ IF waitsForRelease
       THEN loop' = Idle /\ UNCHANGED catchVars
       ELSE /\ fromSeq' = 0 /\ owedOnly' = FALSE /\ behind' = (behind /\ fromSeq # 0)
            /\ loop' = IF fromSeq = 0 THEN Idle
                       ELSE [loop EXCEPT !.at = "begin", !.next = fromSeq, !.owedOnly = owedOnly,
                               !.had = delivered, !.subbed = (sub # "none"), !.cut = FALSE]
            /\ UNCHANGED <<held, wake>>
    /\ UNCHANGED <<netVars, watchVars, seen, subVars, pending, replayed, replayedBefore, sentVars,
                   closed>>

\* replaySeq reads up to the queue's end as it is when it begins.
ReadEnd ==
    /\ loop.at = "begin" /\ link = "up"
    /\ loop' = [loop EXCEPT !.at = "read", !.to = last]
    /\ saw(last)
    /\ UNCHANGED <<netVars, watchVars, subVars, catchVars, pending, replayed, replayedBefore, sentVars,
                   closed>>

\* deliverQueuedOwed.
owedNow(m) == loop.subbed /\ (loop.owedOnly /\ sub = "known" => m > since)

ReadStep ==
    /\ loop.at = "read" /\ loop.next <= loop.to
    /\ loop' = [loop EXCEPT !.next = @ + 1]
    /\ LET m == loop.next
       IN  IF owedNow(m) /\ m \notin loop.had \cup loop.drained /\ ~wasReplayed(m)
           THEN send(m) /\ replayed' = replayed \cup {m}
           ELSE UNCHANGED <<sentVars, replayed>>
    /\ UNCHANGED <<netVars, watchVars, seen, subVars, catchVars, pending, replayedBefore, closed>>

RoundDone ==
    /\ loop.at = "read" /\ loop.next > loop.to
    /\ loop' = [loop EXCEPT !.at = "round", !.next = 0, !.to = 0, !.had = {}]
    /\ UNCHANGED <<netVars, watchVars, seen, subVars, catchVars, pending, replayed, replayedBefore,
                   sentVars, closed>>

retriesOwed == owedOnly \/ loop.owedOnly

\* A read that fails: retryAfterDrop keeps the position when the NATS connection
\* dropped meanwhile; otherwise the connection ends.
ReadFails ==
    /\ loop.at \in {"begin", "read"}
    /\ loop' = Idle
    /\ IF link = "down" \/ loop.cut
       THEN /\ fromSeq' = lowest(fromSeq, loop.next) /\ owedOnly' = retriesOwed
            /\ UNCHANGED <<held, behind, wake, closed>>
       ELSE closed' = TRUE /\ UNCHANGED catchVars
    /\ UNCHANGED <<netVars, watchVars, seen, subVars, pending, replayed, replayedBefore, sentVars>>
-----------------------------------------------------------------------------
\* The queue holds one message, which the broker has seen.
Init ==
    /\ origin = <<"here">> /\ transit = {} /\ aged = 0
    /\ link = "up" /\ route = "up" /\ urls = "up" /\ faults = 0 /\ flapped = FALSE /\ stray = {}
    /\ calls = <<>> /\ known = "up" /\ changed = FALSE
    /\ watch = NotLost /\ finder = [c \in Callers |-> NoFinder]
    /\ seen = 1
    /\ setting \in Settings
    /\ sub = (IF setting.subscribed THEN "known" ELSE "none") /\ since = 1 /\ made = 1
    /\ held = FALSE /\ behind = FALSE /\ fromSeq = 0 /\ owedOnly = FALSE /\ wake = FALSE
    /\ pending = <<>>
    /\ loop = Idle /\ replayed = {} /\ replayedBefore = {}
    /\ delivered = {} /\ sent = <<>> /\ closed = FALSE

watcher == PollDisconnected \/ PollChanged \/ PollSettled
finding(c) == FindStart(c) \/ Release(c)
deliverLoop == \/ Deliver \/ CatchUp \/ Drain \/ DrainDone \/ Round
               \/ ReadEnd \/ ReadStep \/ RoundDone

\* The behaviour ends with the connection.
Step ==
    \/ \E p \in {"here", "there"} : Publish(p)
    \/ \E m \in transit : Arrive(m)
    \/ \E lost \in SUBSET transit : Die(lost) \/ RouteDrops(lost)
    \/ Notice \/ Relink \/ HandleLost \/ HandleBack \/ RouteReturns
    \/ \E n \in Seqs : Age(n)
    \/ watcher
    \/ \E c \in Callers : finding(c)
    \/ Subscribe \/ ReadSince
    \/ deliverLoop \/ ReadFails

Next == ~closed /\ Step /\ UNCHANGED setting

Spec == Init /\ [][Next]_<<vars, setting>>

(***************************************************************************)
(* nats.go notices a dead server, connects again and calls its handlers;   *)
(* what is on its way arrives; the goroutines run.  Nothing else: routes   *)
(* need not return, and messages need not be published.                    *)
(***************************************************************************)
FairSpec ==
    /\ Spec
    /\ WF_vars(Notice) /\ WF_vars(Relink) /\ WF_vars(HandleLost \/ HandleBack)
    /\ WF_vars(\E m \in transit : Arrive(m))
    /\ WF_vars(watcher) /\ \A c \in Callers : WF_vars(finding(c))
    /\ WF_vars(deliverLoop)

-----------------------------------------------------------------------------
Owed(m) == m <= last /\ sub = "known" /\ m > since /\ m > made

(***************************************************************************)
(* What was published while the broker was off NATS is sent to the session *)
(* that stayed connected (Options.ReconnectCatchUp): every message stored  *)
(* after the subscription was made is sent, whichever drops, retries and   *)
(* flaps come in between, unless a route stays down.  Left out: a message  *)
(* that was on its way to a dying server below one already seen, and one   *)
(* overtaken by more than deliveredSeqWindow.                              *)
(***************************************************************************)
MissedAreSent ==
    \A m \in Seqs :
        Owed(m) ~> \/ m \in Range(sent) \/ closed \/ route = "down" \/ m \in stray
                   \/ m + DeliveredSeqWindow < maxDelivered

\* The ids a session keeps stop a catch-up, its retry and the live copies from
\* sending a message twice (catchUpFloor, noteDelivered, wasReplayed).
NothingTwice == \A i, j \in DOMAIN sent : sent[i] = sent[j] => i = j

\* Nothing newer overtakes what a drop of the connection lost [MQTT-4.6.0-5]: one
\* publisher's messages are sent in the order they were stored (holdLive, the
\* held check of catchUp).  A flap of a route is noticed too late to promise it.
NothingOvertaken ==
    flapped \/ \A i, j \in DOMAIN sent :
                  i < j /\ origin[sent[i]] = origin[sent[j]] /\ sent[j] > Max({made, since})
                  => sent[i] <= sent[j]
=============================================================================

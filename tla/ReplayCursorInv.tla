-------------------------- MODULE ReplayCursorInv ---------------------------
(***************************************************************************)
(* The inductive invariant of ReplayCursor.  Its parts say what the cursor *)
(* properties rest on; ReplayCursorProofs shows that it is inductive.      *)
(***************************************************************************)
EXTENDS ReplayCursor

\* Nothing names a sequence the stream has not reached.
InStream ==
    /\ \A m \in transit \cup noting \cup pending \cup sent \cup loop.had \cup loop.todo
             \cup cur.holes \cup scan.owed \cup blind : m <= last
    /\ inHand <= last /\ fromSeq <= last /\ streamNext <= last + 1
    /\ asking.to <= last
    /\ loop.next <= last + 1 /\ loop.start <= last + 1 /\ loop.to <= last
    /\ cur.next <= last + 1 /\ scan.start <= last + 1 /\ scan.to <= last

\* Live copies on their way or held, which may still become holes or be read from.
Copies == (transit \cup noting \cup pending \cup {inHand, fromSeq}) \ {0}

\* No copy that may still name a sequence is as old as an id noteDelivered forgot.
ForgottenIsOld == \A d \in Forgotten : \A h \in Copies : d < h

\* Every id at or above the cursor is kept (cursor.go:32), as are those a
\* SUBSCRIBE, a restart scan or a pinned replay may yet put a cursor below.
IdsKept ==
    \A d \in Forgotten :
        /\ cur.next # 0 => d < cur.next
        /\ asking.at = "read" /\ asking.exact => d <= asking.to
        /\ scan.at = "read" /\ scan.restart => d < scan.base
        /\ cur.pin # 0 => d < loop.next

\* A pin belongs to a replay without a cursor, and is at or below its start.
PinShape ==
    cur.pin # 0 => /\ cur.next = 0 /\ ~loop.ok
                   /\ loop.at \in {"filters", "seq", "replayed"}
                   /\ cur.pin <= loop.next

\* A restarted cursor's base is at or below it.
BaseShape == cur.base <= cur.next

\* What a read recognises as sent: its ids, and those the connection replayed.
Recognised == loop.known \cup replayed \cup replayedBefore

\* A stream read recognises everything it may meet that was sent.
ReadsRecognise ==
    /\ Recognised \subseteq sent
    /\ loop.at = "catchup" => loop.todo \cap sent \subseteq Recognised
    /\ resuming =>
        /\ \A m \in loop.todo : m \in loop.had \/ m >= loop.next
        /\ \A m \in sent : m \in loop.had \/ m >= loop.next => m \in Recognised

\* since is unknown only while its SUBSCRIBE is handled, and until it is known
\* the cursor does not pass what the subscription is owed.
SinceShape ==
    /\ \A f \in subs : since[f] = sinceUnknown => asking.at # "none" /\ f \in asking.fresh
    /\ asking.at # "none" /\ ~asking.had => subs \subseteq asking.fresh
    /\ asking.at = "installed" => \A f \in asking.fresh : made[f] = sinceUnknown
    /\ asking.at = "read" =>
        \A f \in asking.fresh :
            /\ asking.exact => made[f] = asking.to
            /\ f \in subs /\ since[f] = sinceUnknown => cur.next <= made[f] + 1

\* Where a scan began.
scanFrom == IF scan.restart THEN scan.base ELSE scan.start

\* A scan begins at the cursor or, without one, at a base; it finds nothing below.
ScanShape ==
    /\ scan.at = "begun" => (scan.restart <=> scan.start = 0)
    /\ scan.at = "read" =>
        /\ scanFrom \in 1..(scan.to + 1)
        /\ \A m \in scan.owed : m >= scanFrom

\* A scan whose subscriptions have not changed has found everything the session
\* may be owed from where it began to the stream's end then.
ScanClassifies ==
    scan.at = "read" /\ scan.same =>
        \A m \in scanFrom..scan.to :
            topic[m] \in subs /\ (since[topic[m]] = sinceUnknown \/ m > since[topic[m]])
                => m \in scan.owed \cup blind

\* Wanted by a subscription held since before m was stored.
Wanted(m) == topic[m] \in subs /\ m > made[topic[m]]

\* A resume has sent, or is still to send, the cursor's holes and what follows.
ReplayClassifies ==
    /\ loop.at \in {"seq", "replayed"} =>
        \A m \in loop.next..loop.to : Wanted(m) => m \in sent \cup loop.todo \cup blind
    /\ loop.at \in {"holes", "filters", "seq", "replayed"} =>
        /\ loop.next # 0
        /\ \A m \in loop.had :
            Wanted(m) => m \in sent \/ (loop.at = "holes" /\ m \in loop.todo)
    /\ loop.at \in {"filters", "seq", "replayed"} /\ ~loop.ok => loop.next <= loop.start
    /\ loop.at \in {"seq", "replayed"} => loop.next <= loop.to + 1
    /\ loop.at = "holes" => loop.ok
    /\ loop.at = "replayed" => loop.todo = {}

\* While a resume reads from the cursor's next, a cursor dropped under it never
\* comes back lower, except where what the connection holds stops it.
ResumeShape ==
    /\ phase = "away" => asking.at = "none"
    /\ scan.at \in {"begun", "read"} /\ scan.restart /\ cur.next # 0 => cur.changed
    /\ loop.at = "resume" /\ asking.at # "none" =>
        \E f \in asking.fresh : f \in subs /\ since[f] = sinceUnknown
    /\ loop.at \in {"holes", "filters", "seq", "replayed"} /\ loop.ok =>
        /\ \/ cur.next = 0 \/ loop.next <= cur.next
           \/ loop.at = "replayed" /\ \E h \in Held : h <= cur.next
        /\ asking.at = "read" /\ asking.exact => loop.next <= asking.to + 1
        /\ scan.at = "read" /\ scan.restart => cur.changed \/ loop.next <= scan.to + 1

\* Copies placed or about to be, for a subscription the session still holds.
WantedCopies == transit \cup (((pending \cup {inHand}) \ {0}) \ unwanted)

\* Such copies are for subscriptions held, and each message has one; a hole a
\* resume has passed is sent or has none.  No delivery goroutine runs while away.
CopiesShape ==
    /\ phase = "away" => loop.at = "idle"
    /\ \A m \in WantedCopies : topic[m] \in subs
    /\ inHand # 0 <=> loop.at = "hand"
    /\ inHand \notin pending \cup transit /\ transit \cap pending = {}
    /\ loop.at \in {"holes", "filters", "seq", "replayed"} =>
        \A m \in loop.had : \/ m \in sent
                            \/ loop.at = "holes" /\ m \in loop.todo
                            \/ m \notin WantedCopies

\* The inductive invariant: the cursor properties of ReplayCursor and what keeps
\* them true from one step of the session to the next (cursor.go:17-75).
IInv ==
    /\ TypeOK /\ InStream
    /\ ForgottenIsOld /\ IdsKept /\ PinShape /\ BaseShape
    /\ ReadsRecognise
    /\ SinceShape /\ ScanShape /\ ScanClassifies
    /\ ReplayClassifies /\ ResumeShape /\ CopiesShape
    /\ NothingOwedSkipped /\ HeldNotPassed /\ HolesUnsent /\ NothingHeldBelowBase
=============================================================================

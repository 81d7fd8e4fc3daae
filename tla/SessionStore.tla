---------------------------- MODULE SessionStore ----------------------------
(***************************************************************************)
(* The stored session of one client across brokers (sessionstore.go, the   *)
(* handshake's claim, the writes of broker.go and checkpoint.go).          *)
(*                                                                         *)
(* A bucket holds one record per Client Identifier.  Every write is a      *)
(* compare-and-swap on its revision; a CONNECT claims the record, and a    *)
(* watcher tells a broker that another one did.  A connection, and the     *)
(* session object it creates, share a number; 0 stands for nil.            *)
(***************************************************************************)
EXTENDS Integers, FiniteSets

CONSTANTS
    Brokers,
    First,          \* the broker the client connects to first
    Filters,
    MaxConns,       \* connections the client makes
    Ephemeral,      \* the connections with a Session Expiry Interval of 0
    ClaimAttempts,  \* claimAttempts
    MaxChanges,     \* SUBSCRIBE and UNSUBSCRIBE packets
    MaxFaults       \* brokers killed, answers lost, watchers set back

ASSUME StoreAssumption ==
    /\ MaxConns \in Nat /\ ClaimAttempts \in Nat
    /\ MaxChanges \in Nat /\ MaxFaults \in Nat
    /\ Ephemeral \subseteq 1..MaxConns

Conns == 1..MaxConns
Nil == 0
NoBroker == "no broker"
NoRec == [rev |-> 0, by |-> Nil]

VARIABLES
    kv,        \* the record: its revision, owner, whether attached, contents
    last,      \* the bucket's last revision
    claims,    \* the claims so far: their revisions, per broker
    news,      \* per broker: claims of others its watcher has still to deliver
    up,        \* the brokers that run
    pc,        \* per connection: its progress
    at,        \* per connection: its broker
    clean,     \* per connection: Clean Start
    got,       \* per connection: the record its claim read, or wrote
    tries,     \* per connection: attempts of its claim
    present,   \* per connection: the claim resumed a record
    shut,      \* the connections their broker has closed
    obj,       \* per connection: its session object
    sess,      \* the session objects
    cur,       \* per broker: the session registered for the client
    swept,     \* per broker: the revision its sweep is about to delete
    faults,    \* faults so far
    changes    \* SUBSCRIBE and UNSUBSCRIBE packets so far

VARIABLES
    acked,     \* the subscriptions the client was told it has
    failed,    \* what has failed: a holder's write or restore, a sweep's question
    missed     \* the connections whose broker heard of a newer claim too early

bucket == <<kv, last, claims, news>>
connVars == <<pc, at, clean, got, tries, present, shut, obj>>
sessVars == <<sess, cur>>
vars == <<bucket, up, connVars, sessVars, swept, faults, changes, acked,
          failed, missed>>

\* newSession: gen is the connection whose claim is bound, rec the record as this
\* broker last read or wrote it, due that the session's expiry has passed, rest
\* the stored subscriptions still to be rebuilt.
NewSession ==
    [conn |-> Nil, subs |-> {}, gen |-> Nil, rec |-> NoRec, due |-> FALSE,
     discarded |-> FALSE, rest |-> {}]

Init ==
    /\ kv = NoRec
    /\ last = 0
    /\ claims = [b \in Brokers |-> {}]
    /\ news = [b \in Brokers |-> {}]
    /\ up = Brokers
    /\ pc = [k \in Conns |-> "new"]
    /\ at = [k \in Conns |-> NoBroker]
    /\ clean = [k \in Conns |-> FALSE]
    /\ got = [k \in Conns |-> NoRec]
    /\ tries = [k \in Conns |-> 0]
    /\ present = [k \in Conns |-> FALSE]
    /\ shut = {}
    /\ obj = [k \in Conns |-> Nil]
    /\ sess = [k \in Conns |-> NewSession]
    /\ cur = [b \in Brokers |-> Nil]
    /\ swept = [b \in Brokers |-> 0]
    /\ faults = 0
    /\ changes = 0
    /\ acked = {}
    /\ failed = {}
    /\ missed = {}

----------------------------------------------------------------------------
(* The bucket. *)

AtRevision(r) == kv # NoRec /\ kv.rev = r

\* How a write at revision r can go: applied or refused, and either way its
\* answer may be lost.
Outcomes(r) ==
    {[ok |-> AtRevision(r), applied |-> AtRevision(r), fault |-> 0]}
    \cup {[ok |-> FALSE, applied |-> a, fault |-> 1] :
             a \in IF faults < MaxFaults THEN {FALSE, AtRevision(r)} ELSE {}}

Put(rec) ==
    /\ kv' = [rec EXCEPT !.rev = last + 1]
    /\ last' = last + 1

\* A watcher is told of every write.  What it makes of a later write of the same
\* owner is what it made of the claim, so only claims are kept; a delete carries
\* no owner and is ignored.
Tell(b) ==
    /\ claims' = [claims EXCEPT ![b] = @ \cup {last + 1}]
    /\ news' = [c \in Brokers |-> IF c = b THEN news[c]
                                  ELSE news[c] \cup {last + 1}]

Delete ==
    /\ kv' = NoRec
    /\ last' = last + 1
    /\ UNCHANGED <<claims, news>>

\* kv.Update and kv.Delete, as they went.
Update(w, rec) ==
    IF w.applied THEN Put(rec) /\ UNCHANGED <<claims, news>> ELSE UNCHANGED bucket
DeleteAt(w) == IF w.applied THEN Delete ELSE UNCHANGED bucket

\* ownerAlive: the answer of a broker that runs may be lost.
ownerAlive(b) ==
    {[alive |-> b \in up, fault |-> 0]}
    \cup {[alive |-> FALSE, fault |-> 1] :
             x \in IF b \in up /\ faults < MaxFaults THEN {1} ELSE {}}

Goes(k, to) == pc' = [pc EXCEPT ![k] = to]

----------------------------------------------------------------------------
(* The handshake: takeOverSession. *)

\* A Session Expiry Interval of 0, as the last CONNECT set it.
endsWithConn(o) == sess[o].gen \in Ephemeral

\* expiredLocked.
expired(o) ==
    LET s == sess[o] IN
    s.discarded \/ (s.conn = Nil /\ (endsWithConn(o) \/ s.due))

\* discardKeeping.
discarded(s) == [s EXCEPT !.subs = {}, !.discarded = TRUE]

TakeOver(k, b, cs) ==
    LET o == cur[b] IN
    /\ pc[k] = "new" /\ b \in up
    /\ \A j \in 1..(k - 1) : pc[j] # "new"
    /\ k = 1 => b = First /\ ~cs
    /\ Goes(k, "get")
    /\ at' = [at EXCEPT ![k] = b]
    /\ clean' = [clean EXCEPT ![k] = cs]
    /\ acked' = IF cs THEN {} ELSE acked
    /\ IF o = Nil THEN UNCHANGED <<shut, obj, sess, cur>>
       ELSE /\ shut' = shut \cup ({sess[o].conn} \ {Nil})
            /\ IF cs \/ expired(o)
               THEN /\ sess' = [sess EXCEPT ![o] = discarded(@)]
                    /\ cur' = [cur EXCEPT ![b] = Nil]
                    /\ UNCHANGED obj
               ELSE /\ sess' = [sess EXCEPT ![o].due = FALSE]
                    /\ obj' = [obj EXCEPT ![k] = o]
                    /\ UNCHANGED cur
    /\ UNCHANGED <<bucket, up, got, tries, present, swept, faults, changes,
                   failed, missed>>

----------------------------------------------------------------------------
(* claim. *)

\* resumable.
resumable(rec) == rec.attached \/ ~rec.expired

\* The record is read; a read that fails refuses the connection.
ClaimGet(k) ==
    /\ pc[k] = "get" /\ at[k] \in up
    /\ \/ /\ got' = [got EXCEPT ![k] = kv]
          /\ Goes(k, CASE kv = NoRec -> "create"
                       [] kv # NoRec /\ (clean[k] \/ ~resumable(kv)) -> "delete"
                       [] OTHER -> "update")
          /\ UNCHANGED faults
       \/ /\ faults < MaxFaults
          /\ faults' = faults + 1
          /\ Goes(k, "refused")
          /\ UNCHANGED got
    /\ UNCHANGED <<bucket, up, at, clean, tries, present, shut, obj,
                   sessVars, swept, changes, acked, failed, missed>>

\* Everything read is stale: the next attempt reads again.
Again(k) ==
    /\ tries' = [tries EXCEPT ![k] = @ + 1]
    /\ Goes(k, IF tries[k] + 1 = ClaimAttempts THEN "refused" ELSE "get")

\* A clean start, or a session that has expired, deletes before it creates.
ClaimDelete(k) ==
    /\ pc[k] = "delete" /\ at[k] \in up
    /\ \E w \in Outcomes(got[k].rev) :
        /\ DeleteAt(w)
        /\ faults' = faults + w.fault
        /\ acked' = IF w.applied THEN {} ELSE acked
        /\ IF w.ok THEN Goes(k, "create") /\ UNCHANGED tries ELSE Again(k)
    /\ UNCHANGED <<up, at, clean, got, present, shut, obj, sessVars, swept,
                   changes, failed, missed>>

Fresh(k) ==
    [rev |-> 0, by |-> k, owner |-> at[k], attached |-> TRUE, subs |-> {},
     pos |-> 0, expired |-> FALSE]

\* createFresh; without an answer the connection is refused.
ClaimCreate(k) ==
    /\ pc[k] = "create" /\ at[k] \in up
    /\ \/ /\ kv = NoRec
          /\ Put(Fresh(k)) /\ Tell(at[k])
          /\ got' = [got EXCEPT ![k] = kv']
          /\ failed' = {}
          /\ Goes(k, "bind")
          /\ UNCHANGED <<faults, tries>>
       \/ /\ kv = NoRec /\ faults < MaxFaults
          /\ faults' = faults + 1
          /\ (Put(Fresh(k)) /\ Tell(at[k])) \/ UNCHANGED bucket
          /\ Goes(k, "refused")
          /\ UNCHANGED <<got, tries, failed>>
       \/ /\ kv # NoRec
          /\ Again(k)
          /\ UNCHANGED <<bucket, got, faults, failed>>
    /\ UNCHANGED <<up, at, clean, present, shut, obj, sessVars, swept,
                   changes, acked, missed>>

\* Mutant: the position of a session another broker still serves is kept.
positionKept(rec, b, alive) == rec.pos

\* The replay position a claim resumes from: none when another broker serves the
\* session at this moment.
position(rec, b, alive) ==
    IF rec.attached /\ rec.owner # b /\ alive THEN 0 ELSE rec.pos

Claimed(k, rec, alive) ==
    [rec EXCEPT !.by = k, !.owner = at[k], !.attached = TRUE, !.expired = FALSE,
                !.pos = position(rec, at[k], alive)]

ClaimUpdate(k) ==
    /\ pc[k] = "update" /\ at[k] \in up
    /\ \E a \in ownerAlive(got[k].owner), w \in Outcomes(got[k].rev) :
        /\ faults' = faults + a.fault + w.fault
        /\ faults' <= MaxFaults
        /\ IF w.applied THEN Put(Claimed(k, got[k], a.alive)) /\ Tell(at[k])
                        ELSE UNCHANGED bucket
        /\ IF w.ok
           THEN /\ got' = [got EXCEPT ![k] = kv']
                /\ present' = [present EXCEPT ![k] = TRUE]
                /\ Goes(k, "bind")
                /\ UNCHANGED tries
           ELSE Again(k) /\ UNCHANGED <<got, present>>
    /\ UNCHANGED <<up, at, clean, shut, obj, sessVars, swept, changes,
                   acked, failed, missed>>

----------------------------------------------------------------------------
(* The rest of the handshake. *)

\* A session this broker has no memory of is created, with the record's
\* subscriptions to rebuild; bindRecord gives the connection the claim.
Bind(k) ==
    LET o == IF obj[k] = Nil THEN k ELSE obj[k] IN
    /\ pc[k] = "bind" /\ at[k] \in up
    /\ Goes(k, "attach")
    /\ obj' = [obj EXCEPT ![k] = o]
    /\ got' = [got EXCEPT ![k] = NoRec]
    /\ tries' = [tries EXCEPT ![k] = 0]
    /\ clean' = [clean EXCEPT ![k] = FALSE]
    /\ sess' = [sess EXCEPT ![o] =
                  [sess[o] EXCEPT !.rec = got[k], !.gen = k,
                                  !.rest = IF obj[k] = Nil /\ present[k]
                                           THEN got[k].subs ELSE @]]
    /\ UNCHANGED <<bucket, up, at, present, shut, cur, swept, faults,
                   changes, acked, failed, missed>>

\* attach and registerSession.
Attach(k) ==
    LET o == obj[k] IN
    /\ pc[k] = "attach" /\ at[k] \in up
    /\ Goes(k, "restore")
    /\ shut' = shut \cup ({sess[o].conn} \ {Nil})
    /\ sess' = [sess EXCEPT ![o].conn = k]
    /\ cur' = [cur EXCEPT ![at[k]] = o]
    /\ UNCHANGED <<bucket, up, at, clean, got, tries, present, obj, swept,
                   faults, changes, acked, failed, missed>>

\* Whether the client is told Session Present.
resumed(k) == present[k] \/ obj[k] # k

\* Mutant: the record is written as it was read.
snapshotAsRead(o) == sess[o].rec

\* snapshot: the record with the session's subscriptions.
snapshot(o) == [sess[o].rec EXCEPT !.subs = sess[o].subs]

\* Mutant: a write that is refused learns the revision to try at.
commitLatest(o, w) == [sess EXCEPT ![o].rec.rev = kv'.rev]

\* commitRecord, after a write that was answered.
commitRecord(o, w) == IF w.ok THEN [sess EXCEPT ![o].rec = kv'] ELSE sess

\* persistSession: written and committed if the claim is still the session's; a
\* failure is only logged.
Persist(k) ==
    LET o == obj[k] IN
    IF sess[o].gen # k THEN UNCHANGED <<bucket, faults, sess, failed>>
    ELSE \E w \in Outcomes(sess[o].rec.rev) :
        /\ Update(w, snapshot(o))
        /\ faults' = faults + w.fault
        /\ sess' = commitRecord(o, w)
        /\ failed' = failed \cup IF w.fault = 1 /\ kv.by = k THEN {"write"} ELSE {}

\* resumeSubscriptions: what is to be rebuilt is installed, unless the session
\* was taken over; with nothing to rebuild the live set is written.  When NATS
\* does not take the subscriptions the session is discarded and the connection
\* refused.
Restore(k) ==
    LET o == obj[k] IN
    /\ pc[k] = "restore" /\ at[k] \in up
    /\ \/ /\ sess[o].rest # {} /\ resumed(k)
          /\ IF sess[o].conn = k
             THEN /\ sess' = [sess EXCEPT ![o] =
                                [sess[o] EXCEPT !.subs = @ \cup sess[o].rest,
                                                !.rest = {}]]
                  /\ Goes(k, "open")
             ELSE Goes(k, "end") /\ UNCHANGED sess
          /\ UNCHANGED <<bucket, faults, failed>>
       \/ /\ sess[o].rest # {} /\ resumed(k) /\ faults < MaxFaults
          /\ faults' = faults + 1
          /\ sess' = [sess EXCEPT ![o] = discarded(@)]
          /\ failed' = failed \cup {"restore"}
          /\ Goes(k, "end")
          /\ UNCHANGED bucket
       \/ /\ sess[o].rest = {} /\ resumed(k)
          /\ Persist(k)
          /\ Goes(k, "open")
       \/ /\ ~resumed(k)
          /\ Goes(k, "open")
          /\ UNCHANGED <<bucket, faults, sess, failed>>
    /\ UNCHANGED <<up, at, clean, got, tries, present, shut, obj, cur,
                   swept, changes, acked, missed>>

----------------------------------------------------------------------------
(* A connection is served. *)

\* handleSubscribe and handleUnsubscribe: the set changes, unless the session
\* has been taken over.
Change(k, f) ==
    LET o == obj[k] IN
    /\ pc[k] = "open" /\ at[k] \in up
    /\ changes < MaxChanges
    /\ changes' = changes + 1
    /\ IF sess[o].conn # k THEN Goes(k, "end") /\ UNCHANGED <<sess, acked>>
       ELSE /\ Goes(k, "ack")
            /\ \/ f \notin sess[o].subs
                  /\ sess' = [sess EXCEPT ![o].subs = @ \cup {f}]
                  /\ UNCHANGED acked
               \/ f \in sess[o].subs
                  /\ sess' = [sess EXCEPT ![o].subs = @ \ {f}]
                  /\ acked' = acked \ {f}
    /\ UNCHANGED <<bucket, up, at, clean, got, tries, present, shut, obj,
                   cur, swept, faults, failed, missed>>

\* It is written, and acknowledged whether or not that went well.
Acknowledge(k) ==
    /\ pc[k] = "ack" /\ at[k] \in up
    /\ Goes(k, "open")
    /\ Persist(k)
    /\ acked' = IF kv.by = k THEN sess[obj[k]].subs ELSE acked
    /\ UNCHANGED <<up, at, clean, got, tries, present, shut, obj, cur,
                   swept, changes, missed>>

\* checkpointSession: the connection's position is written too.
Checkpoint(k) ==
    LET o == obj[k] IN
    /\ pc[k] = "open" /\ at[k] \in up
    /\ k \notin shut /\ ~endsWithConn(o)
    /\ sess[o].gen = k
    /\ sess[o].rec.pos # k
    /\ \E w \in Outcomes(sess[o].rec.rev) :
        /\ Update(w, [snapshot(o) EXCEPT !.pos = k])
        /\ faults' = faults + w.fault
        /\ sess' = commitRecord(o, w)
        /\ failed' = failed \cup IF w.fault = 1 /\ kv.by = k THEN {"write"} ELSE {}
    /\ UNCHANGED <<up, connVars, cur, swept, changes, acked, missed>>

----------------------------------------------------------------------------
(* A connection ends (finish). *)

\* The socket closes, or the client disconnects: detach.
End(k) ==
    LET o == obj[k] IN
    /\ pc[k] \in {"open", "end"} /\ at[k] \in up
    /\ Goes(k, "release")
    /\ sess' = [sess EXCEPT ![o].conn = IF @ = k THEN Nil ELSE @]
    /\ UNCHANGED <<bucket, up, at, clean, got, tries, present, shut, obj,
                   cur, swept, faults, changes, acked, failed, missed>>

\* releaseStoredSession, under the claim; a session whose interval is 0 ends.
Release(k) ==
    LET o == obj[k]
        over == endsWithConn(o)
        rec == [snapshot(o) EXCEPT !.attached = FALSE, !.pos = k]
    IN
    /\ pc[k] = "release" /\ at[k] \in up
    /\ Goes(k, "done")
    /\ \E w \in Outcomes(sess[o].rec.rev) :
        LET writes == sess[o].gen = k IN
        /\ writes \/ (w.fault = 0)
        /\ IF ~writes THEN UNCHANGED bucket
           ELSE IF over THEN DeleteAt(w) ELSE Update(w, rec)
        /\ faults' = faults + w.fault
        /\ failed' = failed \cup IF w.fault = 1 /\ kv.by = k THEN {"write"} ELSE {}
        /\ acked' = IF over /\ kv.by = k THEN {} ELSE acked
        /\ sess' = IF over THEN [sess EXCEPT ![o] = discarded(@)]
                   ELSE IF writes THEN commitRecord(o, w) ELSE sess
    /\ cur' = IF over /\ cur[at[k]] = o THEN [cur EXCEPT ![at[k]] = Nil] ELSE cur
    /\ UNCHANGED <<up, at, clean, got, tries, present, shut, obj, swept,
                   changes, missed>>

\* persistLateCopy: a released record is written once more.
LateCopy(b) ==
    LET o == cur[b] IN
    /\ b \in up /\ o # Nil
    /\ sess[o].conn = Nil /\ sess[o].gen # Nil /\ ~sess[o].rec.attached
    /\ changes < MaxChanges
    /\ changes' = changes + 1
    /\ \E w \in Outcomes(sess[o].rec.rev) :
        /\ Update(w, sess[o].rec)
        /\ faults' = faults + w.fault
        /\ sess' = commitRecord(o, w)
    /\ UNCHANGED <<up, connVars, cur, swept, acked, failed, missed>>

----------------------------------------------------------------------------
(* The watcher. *)

\* Mutant: the first write after this broker's own is taken for its own.
supersedesNext(o, r) == sess[o].gen # Nil /\ sess[o].rec.rev + 1 >= r

supersedes(o, r) == sess[o].gen # Nil /\ sess[o].rec.rev >= r

\* onUpdate and sessionLost, for write r.  The bucket keeps one revision of a
\* key, so a write that was replaced may be passed over.
OnUpdate(b, r) ==
    LET o == cur[b] IN
    /\ b \in up /\ r \in news[b]
    /\ news' = [news EXCEPT ![b] = {x \in @ : x > r}]
    /\ IF o = Nil \/ (o # Nil /\ supersedes(o, r))
       THEN UNCHANGED <<cur, shut, sess>>
       ELSE /\ cur' = [cur EXCEPT ![b] = Nil]
            /\ shut' = shut \cup ({sess[o].conn} \ {Nil})
            /\ sess' = [sess EXCEPT ![o] = discarded(@)]
    /\ missed' = missed \cup {k \in Conns : at[k] = b /\ pc[k] \in {"bind", "attach"}}
    /\ UNCHANGED <<kv, last, claims, up, pc, at, clean, got, tries, present, obj,
                   swept, faults, changes, acked, failed>>

\* The watcher's consumer is created anew and reads an old write again.
SetBack(b) ==
    /\ b \in up /\ faults < MaxFaults
    /\ faults' = faults + 1
    /\ \E c \in Brokers \ {b} : \E r \in claims[c] :
          news' = [news EXCEPT ![b] = @ \cup {r}]
    /\ UNCHANGED <<kv, last, claims, up, connVars, sessVars, swept, changes,
                   acked, failed, missed>>

----------------------------------------------------------------------------
(* Expiry. *)

\* The Session Expiry Interval of a detached session passes, which is no sooner
\* than a release or a handshake takes; that of its record, which was released
\* later, no earlier.
Due(o) ==
    /\ sess[o].gen # Nil /\ sess[o].conn = Nil /\ ~sess[o].discarded /\ ~sess[o].due
    /\ pc[sess[o].gen] = "done"
    /\ \A k \in Conns : obj[k] = o => pc[k] \in {"release", "done"}
    /\ sess' = [sess EXCEPT ![o].due = TRUE]
    /\ UNCHANGED <<bucket, up, connVars, cur, swept, faults, changes, acked,
                   failed, missed>>

RecordDue ==
    /\ kv # NoRec /\ ~kv.attached /\ ~kv.expired
    /\ LET o == obj[kv.by] IN
        at[kv.by] \in up => sess[o].due \/ sess[o].discarded
    /\ kv' = [kv EXCEPT !.expired = TRUE]
    /\ UNCHANGED <<last, claims, news, up, connVars, sessVars, swept, faults,
                   changes, acked, failed, missed>>

\* sweepSessions: a session that is due is discarded.
SweepSessions(b) ==
    LET o == cur[b] IN
    /\ b \in up /\ o # Nil
    /\ sess[o].due /\ sess[o].conn = Nil
    /\ sess' = [sess EXCEPT ![o] = discarded(@)]
    /\ cur' = [cur EXCEPT ![b] = Nil]
    /\ UNCHANGED <<bucket, up, connVars, swept, faults, changes, acked,
                   failed, missed>>

\* Mutant: a record that is attached is taken for an abandoned one.
reclaimableAttached(b, alive) == kv.attached \/ ~resumable(kv)

\* reclaimable: an expired record, or one still attached to a broker that does
\* not answer (and old, which any record may be).
reclaimable(b, alive) ==
    \/ ~resumable(kv)
    \/ kv.attached /\ kv.owner # b /\ ~alive

\* sweep: the record is read and judged, then deleted at that revision.
SweepRead(b) ==
    /\ b \in up /\ swept[b] = 0 /\ kv # NoRec
    /\ \E a \in ownerAlive(kv.owner) :
        /\ reclaimable(b, a.alive)
        /\ faults' = faults + a.fault
        /\ failed' = failed \cup IF a.fault = 1 THEN {"sweep"} ELSE {}
    /\ swept' = [swept EXCEPT ![b] = kv.rev]
    /\ UNCHANGED <<bucket, up, connVars, sessVars, changes, acked, missed>>

SweepDelete(b) ==
    /\ b \in up /\ swept[b] # 0
    /\ swept' = [swept EXCEPT ![b] = 0]
    /\ IF AtRevision(swept[b]) THEN Delete /\ acked' = {}
                               ELSE UNCHANGED <<bucket, acked>>
    /\ UNCHANGED <<up, connVars, sessVars, faults, changes, failed, missed>>

\* A broker is killed.
Kill(b) ==
    /\ b \in up /\ faults < MaxFaults
    /\ faults' = faults + 1
    /\ up' = up \ {b}
    /\ pc' = [k \in Conns |->
                IF at[k] = b /\ pc[k] \notin {"done", "refused"} THEN "dead"
                                                                ELSE pc[k]]
    /\ cur' = [cur EXCEPT ![b] = Nil]
    /\ swept' = [swept EXCEPT ![b] = 0]
    /\ UNCHANGED <<bucket, at, clean, got, tries, present, shut, obj, sess,
                   changes, acked, failed, missed>>

----------------------------------------------------------------------------

ConnStep(k) ==
    \/ ClaimGet(k) \/ ClaimDelete(k) \/ ClaimCreate(k) \/ ClaimUpdate(k)
    \/ Bind(k) \/ Attach(k) \/ Restore(k) \/ Acknowledge(k) \/ Release(k)

BrokerStep(b) ==
    \/ LateCopy(b) \/ SetBack(b) \/ SweepSessions(b) \/ SweepRead(b)
    \/ SweepDelete(b) \/ Kill(b)

Next ==
    \/ \E k \in Conns, b \in Brokers, cs \in BOOLEAN : TakeOver(k, b, cs)
    \/ \E k \in Conns : ConnStep(k) \/ Checkpoint(k) \/ End(k) \/ Due(k)
    \/ \E k \in Conns, f \in Filters : Change(k, f)
    \/ \E b \in Brokers : BrokerStep(b) \/ \E r \in news[b] : OnUpdate(b, r)
    \/ RecordDue

Spec == Init /\ [][Next]_vars

\* A connection works through its handshake and its end, one that was closed
\* ends, and a watcher delivers.
Fairness ==
    /\ \A k \in Conns :
        WF_vars(ConnStep(k)) /\ WF_vars((k \in shut \/ pc[k] = "end") /\ End(k))
    /\ \A b \in Brokers : WF_vars(\E r \in news[b] : OnUpdate(b, r))

FairSpec == Spec /\ Fairness

----------------------------------------------------------------------------
(* Properties. *)

\* A session is restored with every subscription the client was told it has,
\* unless a write of the connection that held the record failed.
Restored(k) ==
    pc[k] = "restore" /\ pc'[k] = "open" /\ kv.by = k /\ resumed(k)
    /\ failed' = {}

RestoresAcked ==
    [][\A k \in Conns :
          Restored(k) /\ obj[k] = k => acked \subseteq sess'[k].subs]_vars

\* conn.go, finish: "Hand the durable record back before tearing the session
\* down, so the snapshot it writes still describes the session that existed".
ReleaseKeeps ==
    [][\A k \in Conns :
          pc[k] = "release" /\ pc'[k] = "done" /\ kv' # kv /\ kv' # NoRec
          /\ "write" \notin failed
              => acked \subseteq kv'.subs]_vars

\* No handshake is under way, every watcher has caught up and every connection
\* that was closed has ended.
Serving(k) == pc[k] \in {"open", "ack"} /\ at[k] \in up
Quiet ==
    /\ \A b \in up : news[b] = {}
    /\ \A k \in Conns : pc[k] \in {"new", "open", "ack", "done", "refused", "dead"}
    /\ \A k \in shut : ~Serving(k)

\* sessionLost finds a session that was registered, and stayed registered, when
\* its broker heard of the claim.
Registered(k) == cur[at[k]] = obj[k] /\ k \notin missed

\* README.md, Persistent sessions: of two brokers racing for one Client
\* Identifier exactly one wins, and the loser disconnects its client: once all is
\* quiet, one of the connections with a registered session is served.
OneRegistered ==
    Quiet => \A j, k \in Conns :
        Serving(j) /\ Serving(k) /\ Registered(j) /\ Registered(k) => j = k

\* claim: the replay position is resumed from only when the broker that held the
\* record is this one, or is dead, or its connection wrote the position as the
\* last thing it did; a broker still serving the client has gone on since, and
\* what it sent would be sent again.
NoStalePosition ==
    [][\A k \in Conns :
          pc[k] = "update" /\ pc'[k] = "bind" /\ failed = {} /\ faults' = faults
          /\ kv'.pos # 0 =>
              \/ at[kv.by] = at[k]
              \/ at[kv.by] \notin up
              \/ pc[kv.by] = "done" /\ kv'.pos = kv.by]_vars

\* reclaimable: the sweep never deletes the record of a session that is being
\* served, unless a live owner's answer was lost.
SweepSpares ==
    [][\A b \in Brokers :
          swept'[b] # swept[b] /\ kv # NoRec /\ kv' = NoRec /\ "sweep" \notin failed
              => ~kv.attached \/ kv.owner \notin up]_vars

\* The bucket's promise: every write is the holder's, and whoever lost the record
\* never writes it again, whatever answers are lost (StoredSession).
Settled == {k \in Conns :
    pc[k] \notin {"new", "get", "delete", "create", "update"}}
Stored == INSTANCE StoredSession WITH
    holder <- kv.by,
    served <- kv # NoRec /\ kv.attached,
    stored <- IF kv = NoRec THEN {} ELSE kv.subs,
    settled <- Settled
Implements == Stored!Spec
=============================================================================

---------------------------- MODULE SharedGroup ----------------------------
(***************************************************************************)
(* Who is subscribed to one shared subscription, and the consumer that     *)
(* holds its backlog (sharedmembers.go and shared.go).                     *)
(*                                                                         *)
(* A session is an instance: an object in the memory of one broker.  When  *)
(* its client connects to another broker, another instance takes its       *)
(* place.  Three goroutines work on an instance: its connection, the       *)
(* broker's refresh of the members, and the connection's puller.  Every    *)
(* request to JetStream is a step of its own.                              *)
(***************************************************************************)
EXTENDS GroupSessions

CONSTANT MaxRefreshes  \* bound on the rounds of refreshMembers

NoEntry == "none"

ASSUME GroupAssumption == MaxRefreshes \in Nat

Procs == Instances \X {"conn", "refresh", "pull"}
Conn(s) == <<s, "conn">>
Sweep == <<"none", "sweep">>

VARIABLES
    members,    \* the members bucket: the writer of each client's entry
    lock,       \* who holds the group's lock, "free", or "stale" if nobody will free it
    cons,       \* whether the group's consumer exists
    record,     \* each client's record: the instance that serves it, and its filter
    live,       \* the instances that hold the subscription
    restoring,  \* the instances whose handshake restores it from the record
    pc,         \* where each goroutine is
    current,    \* the goroutines that have read an entry at the revision it has now
    sweeper,    \* the sweep: where it is, whose entry it has read, on which broker
    refreshes,
    owed,       \* the clients whose SUBACK promised them the group's messages
    crossed,    \* the clients whose entry was removed while they were owed or joining
    unlocked,   \* a lock could not be taken
    abandoned   \* a request of a leave or a refresh failed

bucket == <<members, current>>
group == <<lock, cons>>
memberVars == <<record, up, state, live, restoring>>
groupBounds == <<changes, refreshes, faults>>
groupGhosts == <<owed, crossed, unlocked, abandoned>>
groupVars == <<bucket, group, memberVars, pc, sweeper, groupBounds, groupGhosts>>

GroupInit ==
    /\ members = [c \in Clients |-> NoEntry]
    /\ current = {}
    /\ lock = "free"
    /\ cons = FALSE
    /\ record = [c \in Clients |-> [by |-> "none", attached |-> FALSE, sub |-> FALSE]]
    /\ up = Brokers
    /\ state = [s \in Instances |-> "new"]
    /\ live = {} /\ restoring = {}
    /\ pc = [p \in Procs |-> "idle"]
    /\ sweeper = [at |-> "idle", of |-> "none", on |-> "none"]
    /\ changes = 0 /\ refreshes = 0 /\ faults = 0
    /\ owed = {} /\ crossed = {}
    /\ unlocked = FALSE /\ abandoned = FALSE

ProcRuns(p) == Home[p[1]] \in up
Goes(p, to) == pc' = [pc EXCEPT ![p] = to]
hasMember == \E c \in Clients : members[c] # NoEntry

\* The goroutines of a client between the record of a member and its SUBACK.
Joining(c) ==
    \E p \in Procs : ClientOf[p[1]] = c /\
        pc[p] \in {"lock", "ensure", "ensureUnlocked", "unlock", "install"}

----------------------------------------------------------------------------
(* The connection.                                                          *)

\* The client connects, or connects again, at the instance's broker.  A session
\* it has on another broker is taken from it, and its filter is restored here.
ConnectMember(s) ==
    LET c == ClientOf[s]
        old == record[c].by
    IN
    /\ Home[s] \in up
    /\ \/ state[s] = "new" /\ (old # "none" \/ s \in First)
       \/ state[s] = "away" /\ old = s
    /\ old # "none" => state[old] \in {"away", "open", "gone"}
    /\ pc[Conn(s)] = "idle"
    /\ state' = [i \in Instances |->
                    IF i = s THEN "open"
                    ELSE IF i = old /\ state[i] # "gone" THEN "lost" ELSE state[i]]
    /\ record' = [record EXCEPT ![c].by = s, ![c].attached = TRUE]
    /\ IF record[c].sub /\ s \notin live
       THEN Goes(Conn(s), "join") /\ restoring' = restoring \cup {s}
       ELSE UNCHANGED <<pc, restoring>>
    /\ UNCHANGED <<bucket, group, up, live, sweeper, groupBounds, groupGhosts>>

\* sessionLost: the broker learns that another one has the session; discardMoved
\* drops the subscriptions without leaving the group.
MemberLost(s) ==
    /\ Home[s] \in up /\ state[s] = "lost"
    /\ state' = [state EXCEPT ![s] = "gone"]
    /\ live' = live \ {s}
    /\ UNCHANGED <<bucket, group, record, up, restoring, pc, sweeper, groupBounds,
                   groupGhosts>>

DisconnectMember(s) ==
    /\ Home[s] \in up /\ state[s] = "open" /\ pc[Conn(s)] = "idle"
    /\ changes < MaxChanges
    /\ changes' = changes + 1
    /\ state' = [state EXCEPT ![s] = "away"]
    /\ record' = [record EXCEPT ![ClientOf[s]] = [@ EXCEPT !.attached = FALSE,
                                                     !.sub = s \in live]]
    /\ UNCHANGED <<bucket, group, up, live, restoring, pc, sweeper, refreshes,
                   faults, groupGhosts>>

\* A SUBSCRIBE: bindNATS begins to join the group.
Subscribe(s) ==
    /\ Home[s] \in up /\ state[s] = "open" /\ pc[Conn(s)] = "idle"
    /\ s \notin live
    /\ changes < MaxChanges
    /\ changes' = changes + 1
    /\ Goes(Conn(s), "join")
    /\ UNCHANGED <<bucket, group, memberVars, sweeper, refreshes, faults, groupGhosts>>

\* The end of a subscription: removeSubscriptionFor, then leaveGroup.
Unsubscribe(s) ==
    /\ Home[s] \in up /\ state[s] = "open" /\ pc[Conn(s)] = "idle"
    /\ s \in live
    /\ changes < MaxChanges
    /\ changes' = changes + 1
    /\ live' = live \ {s}
    /\ owed' = owed \ {ClientOf[s]}
    /\ Goes(Conn(s), "leave")
    /\ UNCHANGED <<bucket, group, record, up, state, restoring, sweeper, refreshes,
                   faults, crossed, unlocked, abandoned>>

\* The end of a session that is away: its record goes and leaveGroups follows.
ExpireMember(s) ==
    LET c == ClientOf[s] IN
    /\ Home[s] \in up /\ state[s] = "away" /\ pc[Conn(s)] = "idle"
    /\ record[c].by = s
    /\ state' = [state EXCEPT ![s] = "gone"]
    /\ live' = live \ {s}
    /\ record' = [record EXCEPT ![c] = [by |-> "none", attached |-> FALSE, sub |-> FALSE]]
    /\ owed' = owed \ {c}
    /\ Goes(Conn(s), IF s \in live THEN "leave" ELSE "idle")
    /\ UNCHANGED <<bucket, group, up, restoring, sweeper, groupBounds, crossed,
                   unlocked, abandoned>>

----------------------------------------------------------------------------
(* joinGroup, for a SUBSCRIBE, a restored filter or a puller that heals.    *)

\* The revision an entry was read at is no longer its own.
Stale(c) == {r \in current : IF r = Sweep THEN sweeper.of = c ELSE ClientOf[r[1]] = c}

Put(s) ==
    /\ members' = [members EXCEPT ![ClientOf[s]] = s]
    /\ current' = current \ Stale(ClientOf[s])

\* A join that failed: bindFailed leaves the group, a handshake refuses the
\* connection, and a puller tries again later.
Failed(p) ==
    IF p[2] = "pull" THEN "idle" ELSE IF p[1] \in restoring THEN "refuse" ELSE "leave"

\* join records the member; a write that fails ends the attempt (bindFailed).
Join(p) ==
    /\ ProcRuns(p) /\ pc[p] = "join"
    /\ \/ Put(p[1]) /\ Goes(p, "lock") /\ UNCHANGED faults
       \/ /\ Fault
          /\ Goes(p, Failed(p))
          /\ Put(p[1]) \/ UNCHANGED bucket
    /\ UNCHANGED <<group, memberVars, sweeper, changes, refreshes, groupGhosts>>

\* lock: a key only one can create.  One whose holder died, or did not learn
\* that it has it, is taken over once it is old.
Take(p) ==
    lock \in {"free", "stale"} /\ lock' = "held"

LockFails ==
    /\ Fault
    /\ unlocked' = TRUE
    /\ lock' \in {lock, IF lock = "free" THEN "stale" ELSE lock}

Lock(p) ==
    /\ ProcRuns(p) /\ pc[p] = "lock"
    /\ \/ Take(p) /\ Goes(p, "ensure") /\ UNCHANGED <<faults, unlocked>>
       \/ LockFails /\ Goes(p, "ensureUnlocked")
    /\ UNCHANGED <<bucket, cons, memberVars, sweeper, changes, refreshes, owed,
                   crossed, abandoned>>

\* sharedConsumer: the consumer is found or made.
Ensure(p) ==
    LET locked == pc[p] = "ensure" IN
    /\ ProcRuns(p) /\ pc[p] \in {"ensure", "ensureUnlocked"}
    /\ \/ /\ cons' = TRUE
          /\ Goes(p, IF locked THEN "unlock" ELSE "install")
          /\ UNCHANGED faults
       \/ /\ Fault
          /\ cons' \in {cons, TRUE}
          /\ Goes(p, IF locked THEN "bail" ELSE Failed(p))
    /\ UNCHANGED <<bucket, lock, memberVars, sweeper, changes, refreshes, groupGhosts>>

\* The lock is given back; a deletion that fails leaves it to go stale.
FreeLock ==
    \/ lock' = "free" /\ UNCHANGED faults
    \/ Fault /\ lock' = "stale"

Unlock(p) ==
    /\ ProcRuns(p) /\ pc[p] \in {"unlock", "bail"}
    /\ FreeLock
    /\ Goes(p, IF pc[p] = "unlock" THEN "install" ELSE Failed(p))
    /\ UNCHANGED <<bucket, cons, memberVars, sweeper, changes, refreshes, groupGhosts>>

\* installSubscription, the SUBACK or CONNACK and the record, unless the
\* connection has lost the session; a puller only looks whether the filter is
\* still wanted.
Install(p) ==
    LET s == p[1]
        c == ClientOf[s]
    IN
    /\ ProcRuns(p) /\ pc[p] = "install"
    /\ IF p[2] = "conn" /\ state[s] \in {"open", "lost"}
       THEN /\ live' = live \cup {s}
            /\ owed' = IF state[s] = "open" THEN owed \cup {c} ELSE owed
            /\ record' = IF state[s] = "open" THEN [record EXCEPT ![c].sub = TRUE] ELSE record
            /\ Goes(p, "idle")
       ELSE /\ Goes(p, IF s \in live \cup restoring THEN "idle" ELSE "leave")
            /\ UNCHANGED <<live, owed, record>>
    /\ restoring' = IF p[2] = "conn" THEN restoring \ {s} ELSE restoring
    /\ UNCHANGED <<bucket, group, up, state, sweeper, groupBounds, crossed,
                   unlocked, abandoned>>

\* resumeSubscriptions fails: the session is discarded, and the end of the
\* connection writes what is left of it (module SessionStore).
Refuse(p) ==
    LET s == p[1]
        c == ClientOf[s]
    IN
    /\ ProcRuns(p) /\ pc[p] = "refuse"
    /\ Goes(p, "idle")
    /\ state' = [state EXCEPT ![s] = "gone"]
    /\ restoring' = restoring \ {s}
    /\ IF record[c].by = s
       THEN /\ record' = [record EXCEPT ![c].attached = FALSE, ![c].sub = FALSE]
            /\ owed' = owed \ {c}
       ELSE UNCHANGED <<record, owed>>
    /\ UNCHANGED <<bucket, group, up, live, sweeper, groupBounds, crossed,
                   unlocked, abandoned>>

----------------------------------------------------------------------------
(* leaveGroup.                                                              *)

writtenBy(s) == members[ClientOf[s]] = s

\* A request of the leave fails: the rest is left to the sweep and to the
\* consumer's inactivity limit.
GivesUp(p, to) == Fault /\ abandoned' = TRUE /\ Goes(p, to)

\* leaveGroup and the read of leave: a session that holds the filter stays, and
\* so does the entry of another instance.
LeaveRead(p) ==
    LET s == p[1]
        c == ClientOf[s]
    IN
    /\ ProcRuns(p) /\ pc[p] = "leave"
    /\ \/ /\ Goes(p, IF s \in live THEN "left"
                     ELSE IF members[c] = NoEntry THEN "count"
                     ELSE IF writtenBy(s) THEN "remove" ELSE "left")
          /\ current' = IF s \notin live /\ writtenBy(s) THEN current \cup {p} ELSE current
          /\ UNCHANGED <<faults, abandoned>>
       \/ s \notin live /\ GivesUp(p, "left") /\ UNCHANGED current
    /\ UNCHANGED <<members, group, memberVars, sweeper, changes, refreshes, owed,
                   crossed, unlocked>>

unchangedSince(r) == r \in current

Removed(c) ==
    /\ members' = [members EXCEPT ![c] = NoEntry]
    /\ current' = current \ Stale(c)
    /\ crossed' = IF c \in owed \/ Joining(c) THEN crossed \cup {c} ELSE crossed

\* leave removes the entry, unless it was written again since.
LeaveRemove(p) ==
    LET c == ClientOf[p[1]] IN
    /\ ProcRuns(p) /\ pc[p] = "remove"
    /\ \/ /\ unchangedSince(p) /\ Removed(c)
          /\ \/ Goes(p, "count") /\ UNCHANGED <<faults, abandoned>>
             \/ GivesUp(p, "left")
       \/ /\ current' = current \ {p} /\ UNCHANGED <<members, crossed>>
          /\ \/ ~unchangedSince(p) /\ Goes(p, "left") /\ UNCHANGED <<faults, abandoned>>
             \/ GivesUp(p, "left")
    /\ UNCHANGED <<group, memberVars, sweeper, changes, refreshes, owed, unlocked>>

LeaveCount(p) ==
    /\ ProcRuns(p) /\ pc[p] = "count"
    /\ \/ Goes(p, IF hasMember THEN "left" ELSE "end") /\ UNCHANGED <<faults, abandoned>>
       \/ GivesUp(p, "left")
    /\ UNCHANGED <<bucket, group, memberVars, sweeper, changes, refreshes, owed,
                   crossed, unlocked>>

\* endGroup takes the lock and counts again; without it, it does not count.
EndLock(p) ==
    /\ ProcRuns(p) /\ pc[p] = "end"
    /\ \/ Take(p) /\ Goes(p, "recount") /\ UNCHANGED <<faults, unlocked>>
       \/ LockFails /\ Goes(p, "deleteUnlocked")
    /\ UNCHANGED <<bucket, cons, memberVars, sweeper, changes, refreshes, owed,
                   crossed, abandoned>>

\* Mutant: the group is not counted again under the lock.
stillEmptyNotAsked == TRUE
stillEmpty == ~hasMember

EndCount(p) ==
    /\ ProcRuns(p) /\ pc[p] = "recount"
    /\ \/ Goes(p, IF stillEmpty THEN "delete" ELSE "endUnlock") /\ UNCHANGED <<faults, abandoned>>
       \/ GivesUp(p, "endUnlock")
    /\ UNCHANGED <<bucket, group, memberVars, sweeper, changes, refreshes, owed,
                   crossed, unlocked>>

EndDelete(p) ==
    /\ ProcRuns(p) /\ pc[p] \in {"delete", "deleteUnlocked"}
    /\ LET to == IF pc[p] = "delete" THEN "endUnlock" ELSE "left" IN
       \/ cons' = FALSE /\ Goes(p, to) /\ UNCHANGED <<faults, abandoned>>
       \/ GivesUp(p, to) /\ cons' \in {cons, FALSE}
    /\ UNCHANGED <<bucket, lock, memberVars, sweeper, changes, refreshes, owed,
                   crossed, unlocked>>

EndUnlock(p) ==
    /\ ProcRuns(p) /\ pc[p] = "endUnlock"
    /\ FreeLock
    /\ Goes(p, "left")
    /\ UNCHANGED <<bucket, cons, memberVars, sweeper, changes, refreshes, groupGhosts>>

\* What follows a leave: the UNSUBSCRIBE writes the record (persistSession).
Left(p) ==
    LET s == p[1] IN
    /\ ProcRuns(p) /\ pc[p] = "left"
    /\ record' = IF p[2] = "conn" /\ record[ClientOf[s]].by = s /\ state[s] = "open"
              THEN [record EXCEPT ![ClientOf[s]].sub = s \in live] ELSE record
    /\ Goes(p, "idle")
    /\ UNCHANGED <<bucket, group, up, state, live, restoring, sweeper, groupBounds,
                   groupGhosts>>

----------------------------------------------------------------------------
(* The refresh, the pullers and the sweep.                                  *)

\* refreshMembers has found the subscription in a session the broker holds.
RefreshRead(s) ==
    LET p == <<s, "refresh">> IN
    /\ ProcRuns(p) /\ pc[p] = "idle"
    /\ s \in live
    /\ refreshes < MaxRefreshes
    /\ refreshes' = refreshes + 1
    /\ Goes(p, "write")
    /\ UNCHANGED <<bucket, group, memberVars, sweeper, changes, faults, groupGhosts>>

\* It writes the entry again; a write that is not answered is not looked after.
RefreshWrite(s) ==
    LET p == <<s, "refresh">> IN
    /\ ProcRuns(p) /\ pc[p] = "write"
    /\ \/ Put(s) /\ Goes(p, "check") /\ UNCHANGED <<faults, abandoned>>
       \/ GivesUp(p, "idle") /\ (Put(s) \/ UNCHANGED bucket)
    /\ UNCHANGED <<group, memberVars, sweeper, changes, refreshes, owed, crossed,
                   unlocked>>

\* Mutant: the subscription is not looked for again after the write.
stillHeldAssumed(s) == TRUE
stillHeld(s) == s \in live

RefreshCheck(s) ==
    LET p == <<s, "refresh">> IN
    /\ ProcRuns(p) /\ pc[p] = "check"
    /\ Goes(p, IF stillHeld(s) THEN "idle" ELSE "leave")
    /\ UNCHANGED <<bucket, group, memberVars, sweeper, groupBounds, groupGhosts>>

heals(s) == s \in live /\ state[s] \in {"open", "lost"}

\* pull and healBacklog: the consumer is gone, and a connection that is there
\* makes it again.
Heal(s) ==
    LET p == <<s, "pull">> IN
    /\ ProcRuns(p) /\ pc[p] = "idle"
    /\ heals(s) /\ ~cons
    /\ Goes(p, "join")
    /\ UNCHANGED <<bucket, group, memberVars, sweeper, groupBounds, groupGhosts>>

\* sessionMayHoldGroup.
mayHold(c) == record[c].by # "none" /\ (record[c].attached \/ record[c].sub)

\* sweepShareMembers reads an entry nobody has written for a while, longer than
\* any join lasts, and then the client's record.
SweepRead(c, b) ==
    /\ b \in up /\ sweeper.at = "idle"
    /\ members[c] # NoEntry /\ ~Joining(c)
    /\ ~mayHold(c)
    /\ sweeper' = [at |-> "remove", of |-> c, on |-> b]
    /\ current' = current \cup {Sweep}
    /\ UNCHANGED <<members, group, memberVars, pc, groupBounds, groupGhosts>>

SweepRemove ==
    /\ sweeper.at = "remove"
    /\ IF unchangedSince(Sweep)
       THEN /\ Removed(sweeper.of)
            /\ sweeper' = [sweeper EXCEPT !.at = "end"]
       ELSE /\ sweeper' = [sweeper EXCEPT !.at = "idle"]
            /\ current' = current \ {Sweep}
            /\ UNCHANGED <<members, crossed>>
    /\ UNCHANGED <<group, memberVars, pc, groupBounds, owed, unlocked, abandoned>>

\* endGroup for a group the sweep has left without a member, counted before and
\* under the lock.
SweepEnd ==
    /\ sweeper.at = "end"
    /\ \/ hasMember /\ sweeper' = [sweeper EXCEPT !.at = "idle"] /\ UNCHANGED lock
       \/ /\ ~hasMember /\ lock \in {"free", "stale"}
          /\ lock' = "held"
          /\ sweeper' = [sweeper EXCEPT !.at = "recount"]
    /\ UNCHANGED <<bucket, cons, memberVars, pc, groupBounds, groupGhosts>>

SweepDelete ==
    /\ sweeper.at = "recount"
    /\ cons' = (cons /\ ~stillEmpty)
    /\ lock' = "free"
    /\ sweeper' = [sweeper EXCEPT !.at = "idle"]
    /\ UNCHANGED <<bucket, memberVars, pc, groupBounds, groupGhosts>>

----------------------------------------------------------------------------

\* A broker dies.  The lock it may hold is left to go stale, and a leave it was
\* at is not finished.
KillBroker(b) ==
    LET Of(pcs) == \E p \in Procs : Home[p[1]] = b /\ pc[p] \in pcs
        swept(ats) == sweeper.on = b /\ sweeper.at \in ats
    IN
    /\ b \in up /\ Fault
    /\ up' = up \ {b}
    /\ state' = [s \in Instances |->
                    IF Home[s] = b /\ state[s] # "new" THEN "gone" ELSE state[s]]
    /\ live' = {s \in live : Home[s] # b}
    /\ restoring' = {s \in restoring : Home[s] # b}
    /\ pc' = [p \in Procs |-> IF Home[p[1]] = b THEN "idle" ELSE pc[p]]
    /\ lock' = IF Of({"ensure", "unlock", "bail", "recount", "delete", "endUnlock"})
                  \/ swept({"recount"})
               THEN "stale" ELSE lock
    /\ abandoned' = (abandoned \/ swept({"end", "recount"})
                     \/ Of({"leave", "remove", "count", "end", "recount", "delete",
                            "deleteUnlocked"}))
    /\ sweeper' = IF sweeper.on = b THEN [sweeper EXCEPT !.at = "idle"] ELSE sweeper
    /\ current' = {r \in current : IF r = Sweep THEN sweeper.on # b ELSE Home[r[1]] # b}
    /\ UNCHANGED <<members, cons, record, changes, refreshes, owed, crossed, unlocked>>

\* The session store reclaims the record a dead broker left, or an expired one.
ReclaimRecord(c) ==
    LET s == record[c].by IN
    /\ s # "none" /\ state[s] = "gone"
    /\ record' = [record EXCEPT ![c] = [by |-> "none", attached |-> FALSE, sub |-> FALSE]]
    /\ owed' = owed \ {c}
    /\ UNCHANGED <<bucket, group, up, state, live, restoring, pc, sweeper,
                   groupBounds, crossed, unlocked, abandoned>>

JoinStep(p) ==
    Join(p) \/ Lock(p) \/ Ensure(p) \/ Unlock(p) \/ Install(p) \/ Refuse(p)
LeaveStep(p) ==
    \/ LeaveRead(p) \/ LeaveRemove(p) \/ LeaveCount(p)
    \/ EndLock(p) \/ EndCount(p) \/ EndDelete(p) \/ EndUnlock(p) \/ Left(p)
RefreshStep(s) == RefreshWrite(s) \/ RefreshCheck(s)
SweepStep ==
    \/ \E c \in Clients, b \in Brokers : SweepRead(c, b)
    \/ SweepRemove \/ SweepEnd \/ SweepDelete

GroupNext ==
    \/ \E s \in Instances :
          \/ ConnectMember(s) \/ MemberLost(s) \/ DisconnectMember(s) \/ ExpireMember(s)
          \/ Subscribe(s) \/ Unsubscribe(s)
          \/ RefreshRead(s) \/ RefreshStep(s) \/ Heal(s)
    \/ \E p \in Procs : JoinStep(p) \/ LeaveStep(p)
    \/ SweepStep
    \/ \E b \in Brokers : KillBroker(b)
    \/ \E c \in Clients : ReclaimRecord(c)

GroupSpec == GroupInit /\ [][GroupNext]_groupVars

----------------------------------------------------------------------------
(* Properties.                                                              *)

\* sharedmembers.go: "a leaver after the join finds the joiner's entry and keeps
\* the consumer": as long as a client that was promised the group's messages is
\* subscribed, over every move of its session, the backlog exists.
OwedHasBacklog == owed # {} => cons

\* The same for a client whose entry was not removed under it, when locks can be
\* taken.
MemberHasBacklog == owed \ crossed # {} => cons \/ unlocked

\* sharedmembers.go: "A Shared Subscription ends ... when there are no longer any
\* Sessions subscribed to it": when no session holds the filter and every leave is
\* done, neither an entry nor the backlog is left, whatever refreshes, pullers and
\* joins the leaves crossed.  A request that failed, a broker that died and a
\* session that moved leave it to the sweep and to the consumer's inactivity limit.
Moved(c) == Cardinality({s \in Instances : ClientOf[s] = c /\ state[s] # "new"}) > 1
LastLeaverEnds ==
    /\ live = {} /\ up = Brokers
    /\ sweeper.at = "idle" /\ \A p \in Procs : pc[p] = "idle"
    /\ ~\E c \in Clients : Moved(c)
    => abandoned \/ ~(cons \/ hasMember)
=============================================================================

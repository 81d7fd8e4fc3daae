-------------------------------- MODULE Wills --------------------------------
(***************************************************************************)
(* The Will Messages of one client across brokers (willstore.go, the Wills *)
(* of conn.go, session.go and handshake.go).                               *)
(*                                                                         *)
(* Every connection with a Will holds it twice: in the session of its      *)
(* broker, and as a record of the Will bucket under a key of its own.      *)
(* Whoever removes the record, by compare-and-swap, publishes.             *)
(* A connection, its Will, its record and the session object it creates    *)
(* share a number; 0 stands for nil.                                       *)
(***************************************************************************)
EXTENDS Integers, FiniteSets

CONSTANTS
    Brokers,
    First,      \* the broker the client connects to first
    MaxConns,   \* connections the client makes
    Delayed,    \* the connections whose Will has a delay
    MaxFaults   \* brokers killed, shut down or cut off, acknowledgements lost

NoBroker == "no broker"

ASSUME WillsAssumption == MaxConns \in Nat /\ NoBroker \notin Brokers

Conns == 1..MaxConns
Nil == 0
NoRec == [rev |-> 0]

VARIABLES
    up,        \* the brokers that run
    linked,    \* the brokers that reach the cluster
    cutOff,    \* the brokers that have fenced themselves
    closing,   \* the brokers that are shutting down
    claimedBy, \* the broker named in the client's session record
    pc,        \* per connection: its progress
    at,        \* per connection: its broker
    clean,     \* per connection: Clean Start
    resumed,   \* per connection: Session Present
    shut,      \* the connections whose socket their broker closed
    obj,       \* per connection: its session object
    sess,      \* the session objects
    cur,       \* per broker: the session registered for the client
    todo,      \* per connection: records it has still to settle
    kv,        \* the Will bucket
    held,      \* per record and broker: the revision of the broker's lease
    task,      \* per record and broker: the goroutine that handles the Will
    published, \* per Will: how often it was published
    faults     \* faults so far

brokerVars == <<up, linked, cutOff, closing, claimedBy>>
connVars == <<pc, at, clean, resumed, shut, obj, todo>>
sessVars == <<sess, cur>>
willVars == <<kv, held, task, published>>

VARIABLES
    back,      \* the last connection that has resumed the session
    decided,   \* the Wills something other than their publication settled
    moved,     \* the Wills a resumption left to a live broker (settle)
    late,      \* the Wills already being published when a resumption ended
    leaked,    \* the Wills an operation that failed was about
    forced     \* the Wills published without winning the removal

ghosts == <<back, decided, moved, late, leaked, forced>>
vars == <<brokerVars, connVars, sessVars, willVars, faults, ghosts>>

NewSession == [conn |-> Nil, will |-> Nil, pending |-> Nil, lease |-> Nil]

Init ==
    /\ up = Brokers
    /\ linked = Brokers
    /\ cutOff = {}
    /\ closing = {}
    /\ claimedBy = NoBroker
    /\ pc = [k \in Conns |-> "new"]
    /\ at = [k \in Conns |-> NoBroker]
    /\ clean = [k \in Conns |-> FALSE]
    /\ resumed = [k \in Conns |-> FALSE]
    /\ shut = {}
    /\ obj = [k \in Conns |-> Nil]
    /\ sess = [k \in Conns |-> NewSession]
    /\ cur = [b \in Brokers |-> Nil]
    /\ todo = [k \in Conns |-> {}]
    /\ kv = [k \in Conns |-> NoRec]
    /\ held = [k \in Conns |-> [b \in Brokers |-> 0]]
    /\ task = [k \in Conns |-> [b \in Brokers |-> "none"]]
    /\ published = [k \in Conns |-> 0]
    /\ faults = 0
    /\ back = Nil
    /\ decided = {} /\ moved = {} /\ late = {} /\ leaked = {} /\ forced = {}

----------------------------------------------------------------------------
(* The bucket. *)

AtRevision(k, r) == r # 0 /\ kv[k].rev = r

\* A write of a record, or its removal, at revision r: it is applied or it
\* conflicts; cut off from the cluster it fails, and its acknowledgement may be
\* lost whether it was applied or not.
Cas(b, k, r, new) ==
    LET hit == AtRevision(k, r)
        rec == IF hit THEN new ELSE kv[k]
    IN  IF b \notin linked
        THEN {[out |-> "error", rec |-> kv[k], lost |-> 0]}
        ELSE {[out |-> IF hit THEN "ok" ELSE "conflict", rec |-> rec, lost |-> 0]}
             \cup {[out |-> "error", rec |-> x, lost |-> 1] :
                      x \in IF faults < MaxFaults THEN {kv[k], rec} ELSE {}}

Applied(k, w) ==
    /\ kv' = [kv EXCEPT ![k] = w.rec]
    /\ faults' = faults + w.lost

\* drop: the record of a Will that will not be published is removed; an error is
\* only logged.
drop(b, k) ==
    IF k = Nil \/ (k # Nil /\ held[k][b] = 0)
    THEN UNCHANGED <<kv, faults, leaked>>
    ELSE \E w \in Cas(b, k, held[k][b], NoRec) :
            /\ Applied(k, w)
            /\ leaked' = IF w.out = "error" THEN leaked \cup {k} ELSE leaked

\* ownerAlive, as a broker that reaches the cluster finds it.
ownerAlive(o) == o \in up /\ o \in linked

----------------------------------------------------------------------------
(* The session's Wills. *)

Wills(s) == {s.will, s.pending} \ {Nil}
cancelled(s) == IF Wills(s) = {} THEN Nil ELSE s.lease
cancelWills(s) ==
    IF Wills(s) = {} THEN s
    ELSE [s EXCEPT !.will = Nil, !.pending = Nil, !.lease = Nil]

\* takePendingWill, for Will k of object o.
takePendingWill(o, k) ==
    sess' = [sess EXCEPT ![o].pending = IF @ = k THEN Nil ELSE @]

Goes(k, to) == pc' = [pc EXCEPT ![k] = to]
Run(k, b, to) == task' = [task EXCEPT ![k][b] = to]

----------------------------------------------------------------------------
(* A connection is accepted (negotiate).                                    *)

BeingPublished ==
    {j \in Conns : \E b \in Brokers : task[j][b] \in {"fire", "retry", "won"}}

InHandshake(k) == pc[k] \in {"claim", "settle", "set"}

\* takeOverSession: unless it asks for a clean start, the Wills of the session
\* in memory are cancelled; its connection is closed.
TakeOver(k, b, cs) ==
    /\ pc[k] = "new"
    /\ \A j \in 1..(k - 1) : pc[j] # "new" /\ ~InHandshake(j)
    /\ k = 1 => b = First /\ ~cs
    /\ b \in (up \cap linked) \ closing
    /\ Goes(k, "claim")
    /\ at' = [at EXCEPT ![k] = b]
    /\ clean' = [clean EXCEPT ![k] = cs]
    /\ LET o == cur[b] IN
        IF o = Nil
        THEN UNCHANGED <<shut, obj, sess, cur, kv, faults, leaked, decided>>
        ELSE /\ shut' = shut \cup ({sess[o].conn} \ {Nil})
             /\ obj' = [obj EXCEPT ![k] = IF cs THEN Nil ELSE o]
             /\ cur' = [cur EXCEPT ![b] = IF cs THEN Nil ELSE o]
             /\ IF cs THEN UNCHANGED <<sess, kv, faults, leaked, decided>>
                ELSE /\ sess' = [sess EXCEPT ![o] = cancelWills(@)]
                     /\ decided' = decided \cup Wills(sess[o])
                     /\ drop(b, cancelled(sess[o]))
    /\ UNCHANGED <<brokerVars, resumed, todo, held, task, published, moved,
                   late, forced, back>>

\* The session record is claimed, the session's Wills are cancelled once more
\* and the connection is attached; the records to settle are listed.
Attach(k) ==
    LET b == at[k]
        o == IF obj[k] = Nil THEN k ELSE obj[k]
    IN
    /\ pc[k] = "claim" /\ b \in up /\ b \in linked
    /\ Goes(k, "settle")
    /\ claimedBy' = b
    /\ obj' = [obj EXCEPT ![k] = o]
    /\ resumed' = [resumed EXCEPT ![k] =
                     obj[k] # Nil \/ (~clean[k] /\ claimedBy # NoBroker)]
    /\ sess' = [sess EXCEPT ![o] = [cancelWills(@) EXCEPT !.conn = k,
                                                        !.pending = Nil]]
    /\ decided' = decided \cup Wills(sess[o])
    /\ drop(b, cancelled(sess[o]))
    /\ shut' = shut \cup ({sess[o].conn} \ {Nil})
    /\ cur' = [cur EXCEPT ![b] = o]
    /\ todo' = [todo EXCEPT ![k] = {j \in Conns : kv'[j] # NoRec}]
    /\ late' = late \cup BeingPublished
    /\ UNCHANGED <<up, linked, cutOff, closing, at, clean, held, task,
                   published, moved, forced, back>>

\* The session store cannot be reached: the connection is refused.
Refuse(k) ==
    /\ pc[k] = "claim" /\ at[k] \in up /\ at[k] \notin linked
    /\ Goes(k, "refused")
    /\ UNCHANGED <<brokerVars, at, clean, resumed, shut, obj, todo, sessVars,
                   willVars, faults, ghosts>>

\* Mutant: a record this broker adopted is taken for one of its own.
ourOwnAdopted(j, b) == kv[j] = NoRec \/ kv[j].owner = b

ourOwn(j, b) == kv[j] = NoRec \/ (kv[j].owner = b /\ ~kv[j].adopted)

\* settle, one record.  A record of this broker, or of a connection that is open
\* on a live one, is left alone.  A resumption removes any other, reading it
\* again when it changed; a clean start fires it.
Settle(k, j) ==
    LET b == at[k]
        rec == kv[j]
        own == ourOwn(j, b)
        open == ~own /\ ~rec.ended /\ ownerAlive(rec.owner)
    IN
    /\ pc[k] = "settle" /\ b \in up /\ j \in todo[k]
    /\ todo' = [todo EXCEPT ![k] = @ \ {j}]
    /\ CASE b \notin linked ->
                /\ leaked' = leaked \cup {j}
                /\ UNCHANGED <<kv, held, task, faults, decided, moved>>
         [] b \in linked /\ own ->
                UNCHANGED <<kv, held, task, faults, decided, moved, leaked>>
         [] b \in linked /\ open ->
                /\ moved' = IF resumed[k] THEN moved \cup {j} ELSE moved
                /\ UNCHANGED <<kv, held, task, faults, decided, leaked>>
         [] b \in linked /\ ~own /\ ~open /\ resumed[k] ->
                \E w \in Cas(b, j, rec.rev, NoRec) :
                    /\ Applied(j, w)
                    /\ decided' = decided \cup {j}
                    /\ leaked' = IF w.out = "error" THEN leaked \cup {j}
                                                    ELSE leaked
                    /\ UNCHANGED <<held, task, moved>>
         [] OTHER ->
                /\ held' = [held EXCEPT ![j][b] = rec.rev]
                /\ Run(j, b, "fire")
                /\ UNCHANGED <<kv, faults, decided, moved, leaked>>
    /\ UNCHANGED <<brokerVars, pc, at, clean, resumed, shut, obj, sessVars,
                   published, late, forced, back>>

\* register: the Will's record is created; without an answer the Will is held in
\* memory only, and has no lease.
Register(k) ==
    LET b == at[k]
        rec == [owner |-> b, ended |-> FALSE, adopted |-> FALSE, rev |-> 1]
    IN
    /\ pc[k] = "settle" /\ b \in up /\ todo[k] = {}
    /\ \A j \in Conns : task[j][b] # "fire"
    /\ Goes(k, "set")
    /\ \/ /\ b \in linked
          /\ kv' = [kv EXCEPT ![k] = rec]
          /\ held' = [held EXCEPT ![k][b] = 1]
          /\ UNCHANGED <<faults, leaked>>
       \/ /\ b \in linked /\ faults < MaxFaults
          /\ kv' = [kv EXCEPT ![k] = rec]
          /\ faults' = faults + 1
          /\ leaked' = leaked \cup {k}
          /\ UNCHANGED held
       \/ /\ b \notin linked
          /\ leaked' = leaked \cup {k}
          /\ UNCHANGED <<kv, held, faults>>
    /\ UNCHANGED <<brokerVars, at, clean, resumed, shut, obj, todo, sessVars,
                   task, published, decided, moved, late, forced, back>>

\* setWill, and the CONNACK.
SetWill(k) ==
    LET b == at[k]
        s == sess[obj[k]]
    IN
    /\ pc[k] = "set" /\ b \in up
    /\ Goes(k, "open")
    /\ sess' = [sess EXCEPT ![obj[k]] = [@ EXCEPT !.will = k, !.lease = k]]
    /\ drop(b, IF s.will = Nil THEN Nil ELSE s.lease)
    /\ IF resumed[k] THEN back' = k /\ late' = late \cup BeingPublished
                     ELSE UNCHANGED <<back, late>>
    /\ UNCHANGED <<brokerVars, at, clean, resumed, shut, obj, todo, cur, held,
                   task, published, decided, moved, forced>>

----------------------------------------------------------------------------
(* A connection ends (finish).                                              *)

\* A DISCONNECT with Reason Code 0x00: takeWill, drop.
EndClean(k) ==
    LET b == at[k]
        o == obj[k]
    IN
    /\ pc[k] = "open" /\ b \in up /\ k \notin shut
    /\ Goes(k, "detach")
    /\ IF sess[o].will = k
       THEN /\ sess' = [sess EXCEPT ![o] = [@ EXCEPT !.will = Nil, !.lease = Nil]]
            /\ decided' = decided \cup {k}
            /\ drop(b, sess[o].lease)
       ELSE UNCHANGED <<sess, decided, kv, faults, leaked>>
    /\ UNCHANGED <<brokerVars, at, clean, resumed, shut, obj, todo, cur, held,
                   task, published, moved, late, forced, back>>

\* Anything else: takeWillToPublish makes the Will the session's pending one.
EndAbrupt(k) ==
    LET o == obj[k] IN
    /\ pc[k] = "open" /\ at[k] \in up
    /\ IF sess[o].will = k
       THEN /\ sess' = [sess EXCEPT ![o] = [@ EXCEPT !.will = Nil, !.pending = k]]
            /\ Goes(k, "mark")
       ELSE Goes(k, "detach") /\ UNCHANGED sess
    /\ UNCHANGED <<brokerVars, at, clean, resumed, shut, obj, todo, cur,
                   willVars, faults, ghosts>>

\* scheduleWill: a Will without a delay is fired; the record of one with a delay
\* is marked as ended, unless it is another broker's by now, and a timer started.
Mark(k) ==
    LET b == at[k]
        o == obj[k]
        rec == kv[k]
    IN
    /\ pc[k] = "mark" /\ b \in up
    /\ Goes(k, "detach")
    /\ \/ /\ k \notin Delayed
          /\ takePendingWill(o, k)
          /\ task' = IF sess[o].pending = k THEN [task EXCEPT ![k][b] = "fire"]
                                            ELSE task
          /\ UNCHANGED <<kv, held, faults, leaked>>
       \/ /\ k \in Delayed /\ held[k][b] = 0
          /\ Run(k, b, "wait")
          /\ UNCHANGED <<sess, kv, held, faults, leaked>>
       \/ /\ k \in Delayed /\ held[k][b] # 0
          /\ \E w \in Cas(b, k, held[k][b],
                          [owner |-> b, ended |-> TRUE, adopted |-> FALSE,
                           rev |-> held[k][b] + 1]) :
                /\ Applied(k, w)
                /\ held' = IF w.out = "ok" THEN [held EXCEPT ![k][b] = @ + 1]
                                           ELSE held
                /\ leaked' = IF w.lost = 1 THEN leaked \cup {k} ELSE leaked
                /\ IF w.out = "conflict"
                   THEN takePendingWill(o, k) /\ UNCHANGED task
                   ELSE Run(k, b, "wait") /\ UNCHANGED sess
    /\ UNCHANGED <<brokerVars, at, clean, resumed, shut, obj, todo, cur,
                   published, decided, moved, late, forced, back>>

\* The rest of finish, once a Will fired at once has been: detach.
Detach(k) ==
    LET b == at[k]
        o == obj[k]
    IN
    /\ pc[k] = "detach" /\ b \in up /\ task[k][b] \notin {"fire", "won"}
    /\ Goes(k, "done")
    /\ sess' = [sess EXCEPT ![o].conn = IF @ = k THEN Nil ELSE @]
    /\ UNCHANGED <<brokerVars, at, clean, resumed, shut, obj, todo, cur,
                   willVars, faults, ghosts>>

----------------------------------------------------------------------------
(* The goroutines that publish.                                             *)

\* The timer of scheduleWill.  The delay is a second or more, so the connection
\* that started it is through finish, unless the broker shuts down and the timer
\* does not wait.
Timer(k) ==
    LET b == at[k]
        o == obj[k]
    IN
    /\ pc[k] # "new" /\ b \in up /\ task[k][b] = "wait"
    /\ pc[k] = "done" \/ b \in closing
    /\ IF sess[o].conn # Nil
       THEN /\ Run(k, b, "none")
            /\ decided' = decided \cup {k}
            /\ drop(b, k)
            /\ UNCHANGED sess
       ELSE /\ Run(k, b, IF sess[o].pending = k THEN "fire" ELSE "none")
            /\ takePendingWill(o, k)
            /\ UNCHANGED <<decided, kv, faults, leaked>>
    /\ UNCHANGED <<brokerVars, connVars, cur, held, published, moved, late,
                   forced, back>>

\* publishWhenDue, for an adopted Will.
Due(k, b) ==
    /\ b \in up \ closing /\ task[k][b] = "adopted"
    /\ Run(k, b, "fire")
    /\ UNCHANGED <<brokerVars, connVars, sessVars, kv, held, published, faults,
                   ghosts>>

\* Mutant: a removal that failed is not tried again.
afterRemovalOnce(out) == IF out = "ok" THEN "won" ELSE "none"

afterRemoval(out) ==
    CASE out = "ok" -> "won" [] out = "conflict" -> "none" [] out = "error" -> "retry"

\* Mutant: the record of a Will that is published stays.
leftThere(k, b) == Cas(b, k, held[k][b], kv[k])
removal(k, b) == Cas(b, k, held[k][b], NoRec)

\* fire, and every attempt of fireLater: only the winner of the removal
\* publishes; a Will without a record is published.
Fire(k, b) ==
    /\ b \in up
    /\ task[k][b] = "fire" \/ (task[k][b] = "retry" /\ b \notin closing)
    /\ IF held[k][b] = 0
       THEN Run(k, b, "won") /\ UNCHANGED <<kv, faults, leaked>>
       ELSE \E w \in removal(k, b) :
                /\ Applied(k, w)
                /\ leaked' = IF w.lost = 1 THEN leaked \cup {k} ELSE leaked
                /\ Run(k, b, afterRemoval(w.out))
    /\ UNCHANGED <<brokerVars, connVars, sessVars, held, published, decided,
                   moved, late, forced, back>>

\* fireLater after retryFor: a broker cut off that long would be fenced, so the
\* store alone is failing, and the Will is published anyway.
GiveUp(k, b) ==
    /\ b \in (up \cap linked) \ (closing \cup cutOff)
    /\ task[k][b] = "retry" /\ k \in leaked
    /\ Run(k, b, "won")
    /\ forced' = forced \cup {k}
    /\ UNCHANGED <<brokerVars, connVars, sessVars, kv, held, published, faults,
                   decided, moved, late, leaked, back>>

Publish(k, b) ==
    /\ b \in up /\ task[k][b] = "won"
    /\ Run(k, b, "none")
    /\ published' = [published EXCEPT ![k] = @ + 1]
    /\ UNCHANGED <<brokerVars, connVars, sessVars, kv, held, faults, ghosts>>

\* Mutant: the owner is not given time to fence itself.
outwaitedAtOnce(o) == o \notin up \/ o \notin linked

\* An owner that is silent for waitOut is dead or has fenced itself (module Fence).
outwaited(o) == o \notin up \/ o \in cutOff \ linked

\* adoptOrphans and adopt; an update without an answer is looked up.
Adopt(k, b) ==
    LET rec == kv[k] IN
    /\ b \in up /\ b \in linked
    /\ rec # NoRec /\ rec.owner # b
    /\ outwaited(rec.owner)
    /\ kv' = [kv EXCEPT ![k] = [owner |-> b, ended |-> TRUE, adopted |-> TRUE,
                                rev |-> rec.rev + 1]]
    /\ held' = [held EXCEPT ![k][b] = rec.rev + 1]
    /\ Run(k, b, "adopted")
    /\ UNCHANGED <<brokerVars, connVars, sessVars, published, faults, ghosts>>

\* sweepStale: a record a day overdue, which no goroutine handles any more.
SweepStale(k) ==
    /\ kv[k] # NoRec /\ kv[k].ended
    /\ \A b \in Brokers : task[k][b] = "none"
    /\ ownerAlive(kv[k].owner)
    /\ kv' = [kv EXCEPT ![k] = NoRec]
    /\ decided' = decided \cup {k}
    /\ UNCHANGED <<brokerVars, connVars, sessVars, held, task, published,
                   faults, moved, late, leaked, forced, back>>

----------------------------------------------------------------------------
(* What else happens to a broker.                                           *)

\* sessionLost: the bucket watcher reports that another broker claimed the
\* session; its connection here is closed.
SessionLost(b) ==
    /\ b \in up \cap linked /\ cur[b] # Nil /\ claimedBy # b
    /\ ~\E k \in Conns : InHandshake(k) /\ at[k] = b
    /\ cur' = [cur EXCEPT ![b] = Nil]
    /\ shut' = shut \cup ({sess[cur[b]].conn} \ {Nil})
    /\ UNCHANGED <<brokerVars, pc, at, clean, resumed, obj, todo, sess,
                   willVars, faults, ghosts>>

\* Reauthorize: a Will that is no longer allowed is discarded, from the
\* connection or from its delay.
Reauthorize(b) ==
    LET o == cur[b] IN
    /\ b \in up /\ o # Nil
    /\ Wills(sess[o]) # {}
    /\ sess' = [sess EXCEPT ![o] = cancelWills(@)]
    /\ decided' = decided \cup Wills(sess[o])
    /\ drop(b, sess[o].lease)
    /\ UNCHANGED <<brokerVars, connVars, cur, held, task, published, moved,
                   late, forced, back>>

\* A broker goes without a word: what it had removed and not yet published is
\* never published.
Gone(b) ==
    /\ up' = up \ {b}
    /\ pc' = [k \in Conns |-> IF at[k] = b /\ pc[k] \notin {"done", "refused"}
                              THEN "dead" ELSE pc[k]]
    /\ cur' = [cur EXCEPT ![b] = Nil]
    /\ task' = [k \in Conns |-> [task[k] EXCEPT ![b] = "none"]]
    /\ decided' = decided \cup {k \in Conns : task[k][b] = "won"}
    /\ UNCHANGED <<linked, cutOff, closing, claimedBy, at, clean, resumed, shut,
                   obj, todo, sess, kv, held, published, moved, late, leaked,
                   forced, back>>

Kill(b) ==
    /\ b \in up /\ faults < MaxFaults
    /\ faults' = faults + 1
    /\ Gone(b)

\* Close: every connection is closed and waited for.
Close(b) ==
    /\ b \in up \ closing /\ faults < MaxFaults
    /\ closing' = closing \cup {b}
    /\ faults' = faults + 1
    /\ shut' = shut \cup {k \in Conns : at[k] = b}
    /\ UNCHANGED <<up, linked, cutOff, claimedBy, pc, at, clean, resumed, obj,
                   todo, sessVars, willVars, ghosts>>

Exit(b) ==
    /\ b \in up \cap closing
    /\ \A k \in Conns : at[k] = b => pc[k] \in {"done", "refused"}
    /\ Gone(b)
    /\ UNCHANGED faults

Cut(b) ==
    /\ b \in up \cap linked /\ faults < MaxFaults
    /\ linked' = linked \ {b}
    /\ faults' = faults + 1
    /\ UNCHANGED <<up, cutOff, closing, claimedBy, connVars, sessVars,
                   willVars, ghosts>>

\* selfLoop fences the broker (fenceConns).
FenceSelf(b) ==
    /\ b \in up \ (linked \cup cutOff)
    /\ cutOff' = cutOff \cup {b}
    /\ shut' = shut \cup {k \in Conns : at[k] = b}
    /\ UNCHANGED <<up, linked, closing, claimedBy, pc, at, clean, resumed, obj,
                   todo, sessVars, willVars, faults, ghosts>>

Relink(b) ==
    /\ b \in up \ linked
    /\ linked' = linked \cup {b}
    /\ cutOff' = cutOff \ {b}
    /\ UNCHANGED <<up, closing, claimedBy, connVars, sessVars, willVars,
                   faults, ghosts>>

----------------------------------------------------------------------------

ConnStep(k) ==
    \/ Attach(k) \/ Refuse(k) \/ Register(k) \/ SetWill(k) \/ Mark(k)
    \/ Detach(k) \/ \E j \in Conns : Settle(k, j)

WillStep(k, b) ==
    Due(k, b) \/ Fire(k, b) \/ Publish(k, b) \/ Adopt(k, b)

Next ==
    \/ \E k \in Conns, b \in Brokers :
          (\E cs \in BOOLEAN : TakeOver(k, b, cs)) \/ WillStep(k, b) \/ GiveUp(k, b)
    \/ \E k \in Conns :
          ConnStep(k) \/ EndClean(k) \/ EndAbrupt(k) \/ Timer(k) \/ SweepStale(k)
    \/ \E b \in Brokers :
          SessionLost(b) \/ Reauthorize(b) \/ Kill(b) \/ Close(b) \/ Exit(b)
          \/ Cut(b) \/ FenceSelf(b) \/ Relink(b)

Spec == Init /\ [][Next]_vars

\* What the code is bound to do: a connection works through its handshake and
\* its end, one whose socket was closed ends, timers fire, retries go on, and
\* the loops of the Will store run.  A broker that loses the cluster fences
\* itself or comes back.
Fairness ==
    /\ \A k \in Conns :
        /\ WF_vars(ConnStep(k))
        /\ WF_vars(k \in shut /\ EndAbrupt(k))
        /\ WF_vars(Timer(k))
        /\ \A b \in Brokers : WF_vars(WillStep(k, b))
    /\ \A b \in Brokers :
        WF_vars(SessionLost(b)) /\ WF_vars(FenceSelf(b)) /\ WF_vars(Exit(b))

FairSpec == Spec /\ Fairness

----------------------------------------------------------------------------
(* Properties. *)

\* README.md, Durable Will Messages: "Whoever wins a compare-and-swap delete of
\* the record publishes it, so there is one publication however many brokers
\* noticed".  Only a Will whose record was created without an answer, and one
\* whose broker gave up removing the record (fireLater), may go out twice.
PublishedOnce ==
    \A k \in Conns : published[k] > 1 => k \in leaked \cup forced

\* A Will is published only after its connection is over: it has ended, it was
\* closed (taken over, or fenced), or it died with its broker; or the client
\* has started another one.
NotWhileOpen ==
    \A k \in Conns :
        published[k] > 0 /\ pc[k] = "open" /\ k \notin shut
            => \E j \in Conns : j > k /\ pc[j] # "new"

\* [MQTT-3.1.3-9] as settle and cancelWills implement it: once a later
\* connection has resumed the session, no earlier Will is published any more,
\* except one that was already on its way, one whose connection was open on
\* another live broker at that moment, and one an operation without an answer
\* was about.
ResumptionSilences ==
    [][\A j \in Conns :
          published'[j] > published[j] /\ j < back
              => j \in late \cup moved \cup leaked]_vars

\* Every Will is seen to: that of a connection that ended without a DISCONNECT,
\* or whose broker died, is published, or cancelled by a resumption, or
\* discarded, as long as a broker is there to do it and no operation about it
\* went without an answer.
Owed(k) == pc[k] \in {"mark", "dead"} /\ kv[k] # NoRec
SeenTo(k) == published[k] > 0 \/ k \in decided \cup leaked \/ up = {}

EveryWillSeenTo == \A k \in Conns : Owed(k) ~> SeenTo(k)
=============================================================================

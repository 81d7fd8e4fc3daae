------------------------ MODULE SessionStoreProofs -------------------------
(***************************************************************************)
(* That the session store implements StoredSession, resumes from no stale  *)
(* position, sweeps no record that is being served and lets one of two     *)
(* racing claims win, for every number of brokers, connections, filters    *)
(* and faults.                                                             *)
(***************************************************************************)
EXTENDS SessionStore, TLAPS

Claiming == {"new", "get", "delete", "create", "update"}
PCs == Claiming \cup {"bind", "attach", "restore", "open", "ack", "end", "release",
                      "done", "refused", "dead"}
Bound == {"attach", "restore", "open", "ack", "end", "release", "done"}

Rec == [rev : Nat, by : Conns, owner : Brokers \cup {NoBroker}, attached : BOOLEAN,
        subs : SUBSET Filters, pos : Nat, expired : BOOLEAN]
Session == [conn : Conns \cup {Nil}, subs : SUBSET Filters, gen : Conns \cup {Nil},
            rec : Rec \cup {NoRec}, due : BOOLEAN, discarded : BOOLEAN,
            rest : SUBSET Filters]

TypeOK ==
    /\ kv \in Rec \cup {NoRec} /\ last \in Nat
    /\ pc \in [Conns -> PCs]
    /\ at \in [Conns -> Brokers \cup {NoBroker}]
    /\ got \in [Conns -> Rec \cup {NoRec}]
    /\ obj \in [Conns -> Conns \cup {Nil}]
    /\ sess \in [Conns -> Session]
    /\ cur \in [Brokers -> Conns \cup {Nil}]
    /\ swept \in [Brokers -> Nat]
    /\ up \subseteq Brokers /\ faults \in Nat

\* Two copies of the record that agree, except that one may have expired since.
Same(r, s) ==
    /\ r.by = s.by /\ r.owner = s.owner /\ r.attached = s.attached
    /\ r.subs = s.subs /\ r.pos = s.pos

\* A broker's copy of the record, at the revision the record has, is the record.
Faithful(r) ==
    r # NoRec => /\ 0 < r.rev /\ r.rev <= last
                 /\ kv # NoRec /\ kv.rev = r.rev => Same(r, kv)
CopiesFaithful ==
    /\ kv # NoRec => 0 < kv.rev /\ kv.rev <= last
    /\ \A k \in Conns : Faithful(got[k]) /\ Faithful(sess[k].rec)

\* What a claim has read or written, and the session that holds it.
ClaimsHeld ==
    \A k \in Conns :
        /\ pc[k] \in {"delete", "update"} => got[k] # NoRec
        /\ pc[k] = "bind" => got[k] # NoRec /\ got[k].by = k
        /\ pc[k] \in Bound => obj[k] # Nil
        /\ sess[k].gen # Nil => /\ sess[k].rec # NoRec /\ sess[k].rec.by = sess[k].gen
                                /\ sess[k].gen \in Settled

\* The record is its owner's; one that was released is as the release left it.
RecordShape ==
    kv # NoRec => /\ pc[kv.by] # "new" /\ kv.owner = at[kv.by]
                  /\ ~kv.attached => kv.pos = kv.by /\ pc[kv.by] = "done"

\* What a sweep has judged to be abandoned is so as long as nobody writes it.
Judged ==
    "sweep" \notin failed =>
        \A b \in Brokers :
            kv # NoRec /\ swept[b] # 0 /\ kv.rev = swept[b]
                => ~kv.attached \/ kv.owner \notin up
SweptOld == \A b \in Brokers : swept[b] <= last

SInv == TypeOK /\ CopiesFaithful /\ ClaimsHeld /\ RecordShape /\ Judged /\ SweptOld

----------------------------------------------------------------------------
(* What the operators of the model give. *)

\* A record is not the absence of one.
LEMMA RecFacts ==
  /\ 0 \notin Conns
  /\ \A r \in Rec : r # NoRec
  /\ NoRec.by = 0 /\ NoRec.rev = 0
<1>1. 0 \notin Conns /\ NoRec.by = 0 /\ NoRec.rev = 0
  BY StoreAssumption DEF Conns, NoRec, Nil
<1>2. \A r \in Rec : r.by \in Conns
  BY Zenon DEF Rec
<1>3. QED
  BY <1>1, <1>2, Zenon

\* A connection whose claim is bound has a session (handshake, bindRecord).
LEMMA BoundSession ==
  ASSUME TypeOK, ClaimsHeld, NEW k \in Conns, pc[k] \in Bound
  PROVE  obj[k] \in Conns /\ obj[k] # Nil
<1>1. obj[k] # Nil
  BY Zenon DEF ClaimsHeld
<1>2. obj[k] \in Conns \cup {Nil}
  BY Zenon DEF TypeOK
<1>3. QED
  BY <1>1, <1>2, Zenon

\* A write that was answered was applied, and one that was applied met the record
\* at the revision it named (kv.Update, kv.Delete).
LEMMA OutcomeFacts ==
  ASSUME NEW r, NEW w \in Outcomes(r)
  PROVE  /\ w.applied => kv # NoRec /\ kv.rev = r
         /\ w.ok => w.applied
         /\ w.fault \in {0, 1}
<1>1. CASE w = [ok |-> AtRevision(r), applied |-> AtRevision(r), fault |-> 0]
  BY <1>1, Zenon DEF AtRevision
<1>2. ASSUME NEW a \in {FALSE, AtRevision(r)}, w = [ok |-> FALSE, applied |-> a, fault |-> 1]
      PROVE  (w.applied => kv # NoRec /\ kv.rev = r) /\ (w.ok => w.applied) /\ w.fault = 1
  BY <1>2, Zenon DEF AtRevision
<1>3. QED
  BY <1>1, <1>2, Zenon DEF Outcomes

\* A broker that does not answer is down, or its answer was lost (ownerAlive).
LEMMA OwnerFacts ==
  ASSUME NEW b, NEW a \in ownerAlive(b)
  PROVE  a.alive \in BOOLEAN /\ a.fault \in {0, 1} /\ (a.fault = 0 => (a.alive <=> b \in up))
<1>1. CASE a = [alive |-> b \in up, fault |-> 0]
  <2> DEFINE x == b \in up
  <2>1. x \in BOOLEAN /\ a = [alive |-> x, fault |-> 0]
    BY <1>1
  <2> HIDE DEF x
  <2>2. a.alive \in BOOLEAN /\ a.alive = x /\ a.fault = 0
    BY <2>1, Zenon
  <2>3. QED
    BY <2>2, Zenon DEF x
<1>2. CASE a = [alive |-> FALSE, fault |-> 1]
  BY <1>2
<1>3. QED
  BY <1>1, <1>2, Zenon DEF ownerAlive

\* The steps, one by one.
LEMMA NextCases ==
  ASSUME [Next]_vars
  PROVE  \/ \E k \in Conns, b \in Brokers, cs \in BOOLEAN : TakeOver(k, b, cs)
         \/ \E k \in Conns :
               \/ ClaimGet(k) \/ ClaimDelete(k) \/ ClaimCreate(k) \/ ClaimUpdate(k)
               \/ Bind(k) \/ Attach(k) \/ Restore(k) \/ Acknowledge(k) \/ Release(k)
               \/ Checkpoint(k) \/ End(k) \/ Due(k)
         \/ \E k \in Conns, f \in Filters : Change(k, f)
         \/ \E b \in Brokers :
               \/ LateCopy(b) \/ SetBack(b) \/ SweepSessions(b) \/ SweepRead(b)
               \/ SweepDelete(b) \/ Kill(b)
               \/ \E r \in news[b] : OnUpdate(b, r)
         \/ RecordDue
         \/ UNCHANGED vars
  BY Zenon DEF Next, ConnStep, BrokerStep

\* Which steps touch which variables.
LEMMA Frame ==
  ASSUME [Next]_vars
  PROVE  /\ up' = up \/ \E b \in Brokers : Kill(b)
         /\ swept' = swept \/ \E b \in Brokers : SweepRead(b) \/ SweepDelete(b) \/ Kill(b)
         /\ \/ got' = got
            \/ \E k \in Conns : ClaimGet(k) \/ ClaimCreate(k) \/ ClaimUpdate(k) \/ Bind(k)
         /\ \/ failed' = failed
            \/ \E k \in Conns : \/ ClaimCreate(k) \/ Restore(k) \/ Acknowledge(k)
                                \/ Release(k) \/ Checkpoint(k)
            \/ \E b \in Brokers : SweepRead(b)
         /\ \/ faults' = faults \/ faults' = faults + 1
            \/ \E k \in Conns : \/ ClaimUpdate(k) \/ ClaimDelete(k) \/ Checkpoint(k)
                                \/ Release(k) \/ Restore(k) \/ Acknowledge(k)
            \/ \E b \in Brokers : SweepRead(b) \/ LateCopy(b)
<1>1. ASSUME NEW k \in Conns, NEW b \in Brokers, NEW cs \in BOOLEAN, TakeOver(k, b, cs)
      PROVE  UNCHANGED <<up, swept, got, failed, faults>>
  BY <1>1, Zenon DEF TakeOver
<1>2. ASSUME NEW k \in Conns, ClaimGet(k)
      PROVE  UNCHANGED <<up, swept, failed>> /\ (faults' = faults \/ faults' = faults + 1)
  BY <1>2, Zenon DEF ClaimGet
<1>3. ASSUME NEW k \in Conns, ClaimCreate(k)
      PROVE  UNCHANGED <<up, swept>> /\ (faults' = faults \/ faults' = faults + 1)
  BY <1>3, Zenon DEF ClaimCreate
<1>4. ASSUME NEW k \in Conns, ClaimDelete(k) PROVE UNCHANGED <<up, swept, got, failed>>
  BY <1>4, Zenon DEF ClaimDelete
<1>5. ASSUME NEW k \in Conns, ClaimUpdate(k) PROVE UNCHANGED <<up, swept, failed>>
  BY <1>5, Zenon DEF ClaimUpdate
<1>6. ASSUME NEW k \in Conns, Bind(k) PROVE UNCHANGED <<up, swept, failed, faults>>
  BY <1>6, Zenon DEF Bind
<1>7. ASSUME NEW k \in Conns, Restore(k) \/ Acknowledge(k) \/ Release(k) \/ Checkpoint(k)
      PROVE  UNCHANGED <<up, swept, got>>
  BY <1>7, Zenon DEF Restore, Acknowledge, Release, Checkpoint, connVars
<1>8. ASSUME NEW k \in Conns, Attach(k) \/ End(k) \/ Due(k) \/ \E f \in Filters : Change(k, f)
      PROVE  UNCHANGED <<up, swept, got, failed, faults>>
  BY <1>8, Zenon DEF Attach, End, Due, Change, connVars
<1>9. ASSUME NEW b \in Brokers,
             LateCopy(b) \/ SetBack(b) \/ SweepSessions(b) \/ \E r \in news[b] : OnUpdate(b, r)
      PROVE  /\ UNCHANGED <<up, swept, got, failed>>
             /\ LateCopy(b) \/ faults' = faults \/ faults' = faults + 1
  BY <1>9, Zenon DEF LateCopy, SetBack, SweepSessions, OnUpdate, connVars
<1>10. ASSUME NEW b \in Brokers, SweepRead(b) PROVE UNCHANGED <<up, got>>
  BY <1>10, Zenon DEF SweepRead, connVars
<1>11. ASSUME NEW b \in Brokers, SweepDelete(b) PROVE UNCHANGED <<up, got, failed, faults>>
  BY <1>11, Zenon DEF SweepDelete, connVars
<1>12. ASSUME NEW b \in Brokers, Kill(b)
       PROVE  UNCHANGED <<got, failed>> /\ faults' = faults + 1
  BY <1>12, Zenon DEF Kill
<1>13. ASSUME RecordDue \/ UNCHANGED vars PROVE UNCHANGED <<up, swept, got, failed, faults>>
  BY <1>13, Zenon DEF RecordDue, vars, connVars
<1>14. QED
  BY <1>1, <1>2, <1>3, <1>4, <1>5, <1>6, <1>7, <1>8, <1>9, <1>10, <1>11, <1>12, <1>13,
     NextCases, Zenon

\* The initial states.
LEMMA InitInv == Init => SInv
<1> SUFFICES ASSUME Init PROVE SInv
  BY Zenon
<1>1. TypeOK
  BY Zenon DEF Init, TypeOK, PCs, Claiming, Session, NewSession, Nil
<1>2. CopiesFaithful /\ ClaimsHeld
  BY Zenon DEF Init, CopiesFaithful, Faithful, ClaimsHeld, Bound, NewSession
<1>3. RecordShape /\ Judged /\ SweptOld
  BY DEF Init, RecordShape, Judged, SweptOld
<1>4. QED
  BY <1>1, <1>2, <1>3, Zenon DEF SInv

----------------------------------------------------------------------------
(* Type correctness. *)

\* The record a session would be written with (snapshot).
LEMMA SnapshotTyped ==
  ASSUME TypeOK, NEW o \in Conns, sess[o].rec # NoRec
  PROVE  /\ snapshot(o) \in Rec
         /\ snapshot(o).by = sess[o].rec.by /\ snapshot(o).owner = sess[o].rec.owner
         /\ snapshot(o).attached = sess[o].rec.attached
         /\ snapshot(o).pos = sess[o].rec.pos
<1>1. sess[o].rec \in Rec /\ sess[o].subs \in SUBSET Filters
  BY Zenon DEF TypeOK, Session
<1>2. QED
  BY <1>1, Zenon DEF snapshot, Rec

\* A write leaves a record of the bucket's next revision.
LEMMA PutTyped ==
  ASSUME TypeOK, NEW rec \in Rec, Put(rec)
  PROVE  /\ kv' \in Rec /\ kv'.rev = last + 1 /\ last' = last + 1
         /\ kv'.by = rec.by /\ kv'.owner = rec.owner /\ kv'.attached = rec.attached
         /\ kv'.subs = rec.subs /\ kv'.pos = rec.pos
  BY DEF TypeOK, Put, Rec

\* The record with the connection's position (checkpointSession and the release).
LEMMA RecordPos ==
  ASSUME NEW r \in Rec, NEW k \in Conns
  PROVE  /\ [r EXCEPT !.pos = k] \in Rec
         /\ [r EXCEPT !.pos = k].by = r.by /\ [r EXCEPT !.pos = k].owner = r.owner
         /\ [r EXCEPT !.pos = k].attached = r.attached
         /\ [r EXCEPT !.attached = FALSE, !.pos = k] \in Rec
         /\ [r EXCEPT !.attached = FALSE, !.pos = k].by = r.by
         /\ [r EXCEPT !.attached = FALSE, !.pos = k].owner = r.owner
         /\ [r EXCEPT !.attached = FALSE, !.pos = k].attached = FALSE
         /\ [r EXCEPT !.attached = FALSE, !.pos = k].pos = k
<1>1. k \in Nat
  BY StoreAssumption DEF Conns
<1>2. QED
  BY <1>1, Zenon DEF Rec

\* A claim's record (createFresh, and the update of claim).
LEMMA ClaimTyped ==
  ASSUME TypeOK, NEW k \in Conns
  PROVE  /\ Fresh(k) \in Rec
         /\ \A alive \in BOOLEAN : got[k] # NoRec =>
               /\ Claimed(k, got[k], alive) \in Rec
               /\ Claimed(k, got[k], alive).subs = got[k].subs
               /\ Claimed(k, got[k], alive).owner = at[k]
               /\ Claimed(k, got[k], alive).by = k
               /\ Claimed(k, got[k], alive).attached = TRUE
               /\ Claimed(k, got[k], alive).pos = position(got[k], at[k], alive)
<1>1. Fresh(k) \in Rec
  BY Zenon DEF TypeOK, Fresh, Rec
<1>2. ASSUME NEW alive \in BOOLEAN, got[k] # NoRec
      PROVE  /\ Claimed(k, got[k], alive) \in Rec
             /\ Claimed(k, got[k], alive).subs = got[k].subs
             /\ Claimed(k, got[k], alive).owner = at[k]
             /\ Claimed(k, got[k], alive).by = k
             /\ Claimed(k, got[k], alive).attached = TRUE
             /\ Claimed(k, got[k], alive).pos = position(got[k], at[k], alive)
  <2>1. got[k] \in Rec
    BY <1>2, Zenon DEF TypeOK
  <2>2. position(got[k], at[k], alive) \in Nat
    BY <2>1, Zenon DEF position, Rec
  <2>3. QED
    BY <2>1, <2>2, Zenon DEF Claimed, TypeOK, Rec
<1>3. QED
  BY <1>1, <1>2, Zenon

----------------------------------------------------------------------------
(* What a step does to the record, to the sessions' copies of it and to the *)
(* claims'.                                                                 *)

\* The record stays as it is, except that it may expire once it was released.
Kept ==
    /\ last' = last /\ claims' = claims
    /\ \/ kv' = kv
       \/ kv # NoRec /\ ~kv.attached /\ kv' = [kv EXCEPT !.expired = TRUE]

\* A write of some record at the next revision.
Wrote(k) ==
    /\ kv' \in Rec /\ kv'.by = k
    /\ kv'.rev = last + 1 /\ last' = last + 1

\* A claim under way takes the record.
Taken(k) ==
    /\ k \notin Settled /\ pc[k] # "new" /\ Wrote(k) /\ Tell(at[k])
    /\ kv'.attached /\ kv'.owner = at[k]
    /\ kv'.subs = IF kv = NoRec THEN {} ELSE kv.subs

\* The connection that holds the record writes it, or leaves it behind.
Written(k) ==
    /\ kv # NoRec /\ kv.by = k /\ k \in Settled /\ Wrote(k) /\ claims' = claims
    /\ kv'.owner = kv.owner
    /\ kv'.attached => kv.attached
    /\ ~kv'.attached => kv'.pos = k /\ pc'[k] = "done"

Removed == kv # NoRec /\ kv' = NoRec /\ last' = last + 1 /\ claims' = claims

BucketStep ==
    \/ Kept
    \/ \E k \in Conns : Taken(k) \/ Written(k)
    \/ Removed

\* A session keeps its copy, or has written it, or is bound to a claim.
SessStep(o) ==
    \/ sess'[o].rec = sess[o].rec /\ sess'[o].gen = sess[o].gen
    \/ /\ sess'[o].gen = sess[o].gen /\ sess[o].gen # Nil
       /\ sess'[o].rec = kv' /\ kv' # NoRec /\ kv'.by = sess[o].gen
    \/ \E k \in Conns : /\ pc[k] = "bind" /\ pc'[k] = "attach"
                        /\ sess'[o].rec = got[k] /\ sess'[o].gen = k /\ obj'[k] = o
SessSteps == sess' \in [Conns -> Session] /\ \A o \in Conns : SessStep(o)

\* What attach, detach, discardKeeping, a change of the subscriptions, the
\* restore and the expiry do to a session leaves its claim alone.
ClaimLeft(o) ==
    \/ sess' = [sess EXCEPT ![o] = discarded(@)]
    \/ \E c \in Conns \cup {Nil} : sess' = [sess EXCEPT ![o].conn = c]
    \/ \E d \in BOOLEAN : sess' = [sess EXCEPT ![o].due = d]
    \/ \E f \in SUBSET Filters : sess' = [sess EXCEPT ![o].subs = f]
    \/ sess' = [sess EXCEPT ![o] = [sess[o] EXCEPT !.subs = @ \cup sess[o].rest, !.rest = {}]]

\* Whatever leaves the claim alone leaves the session's copy of the record alone.
LEMMA ClaimLeftAlone ==
  ASSUME TypeOK, NEW o \in Conns, ClaimLeft(o)
  PROVE  SessSteps
<1>1. sess[o] \in Session /\ sess[o].subs \cup sess[o].rest \in SUBSET Filters
  BY Zenon DEF TypeOK, Session
<1>2. ASSUME NEW s \in Session, s.rec = sess[o].rec, s.gen = sess[o].gen,
             sess' = [sess EXCEPT ![o] = s]
      PROVE  SessSteps
  BY <1>2, Zenon DEF TypeOK, SessSteps, SessStep
<1>3. CASE sess' = [sess EXCEPT ![o] = discarded(@)]
  <2>1. discarded(sess[o]) \in Session /\ discarded(sess[o]).rec = sess[o].rec
          /\ discarded(sess[o]).gen = sess[o].gen
    BY <1>1, Zenon DEF Session, discarded
  <2>2. QED
    BY <1>2, <1>3, <2>1, Zenon
<1>4. ASSUME NEW c \in Conns \cup {Nil}, sess' = [sess EXCEPT ![o].conn = c]
      PROVE  SessSteps
  <2> DEFINE s == [sess[o] EXCEPT !.conn = c]
  <2>1. s \in Session /\ s.rec = sess[o].rec /\ s.gen = sess[o].gen
    BY <1>1, Zenon DEF Session
  <2>2. QED
    BY <1>2, <1>4, <2>1, Zenon
<1>5. ASSUME NEW d \in BOOLEAN, sess' = [sess EXCEPT ![o].due = d]
      PROVE  SessSteps
  <2> DEFINE s == [sess[o] EXCEPT !.due = d]
  <2>1. s \in Session /\ s.rec = sess[o].rec /\ s.gen = sess[o].gen
    BY <1>1, Zenon DEF Session
  <2>2. QED
    BY <1>2, <1>5, <2>1, Zenon
<1>6. ASSUME NEW f \in SUBSET Filters, sess' = [sess EXCEPT ![o].subs = f]
      PROVE  SessSteps
  <2> DEFINE s == [sess[o] EXCEPT !.subs = f]
  <2>1. s \in Session /\ s.rec = sess[o].rec /\ s.gen = sess[o].gen
    BY <1>1, Zenon DEF Session
  <2>2. QED
    BY <1>2, <1>6, <2>1, Zenon
<1>7. CASE sess' = [sess EXCEPT ![o] =
                       [sess[o] EXCEPT !.subs = @ \cup sess[o].rest, !.rest = {}]]
  <2> DEFINE s == [sess[o] EXCEPT !.subs = @ \cup sess[o].rest, !.rest = {}]
  <2>1. s \in Session /\ s.rec = sess[o].rec /\ s.gen = sess[o].gen
    BY <1>1, Zenon DEF Session
  <2>2. QED
    BY <1>2, <1>7, <2>1, Zenon
<1>8. QED
  BY <1>3, <1>4, <1>5, <1>6, <1>7, Zenon DEF ClaimLeft

\* persistSession, checkpointSession, releaseStoredSession and persistLateCopy:
\* only the copy that is the record's latest can be written.
LEMMA Committed ==
  ASSUME SInv, NEW o \in Conns, sess[o].gen # Nil,
         NEW w \in Outcomes(sess[o].rec.rev),
         NEW rec \in Rec, rec.by = sess[o].gen, rec.owner = sess[o].rec.owner,
         Update(w, rec)
  PROVE  /\ \/ UNCHANGED <<kv, last, claims>>
            \/ /\ Wrote(sess[o].gen) /\ claims' = claims
               /\ kv'.owner = kv.owner /\ kv'.attached = rec.attached /\ kv'.pos = rec.pos
               /\ kv # NoRec /\ kv.by = sess[o].gen /\ kv.by \in Settled
               /\ Same(sess[o].rec, kv)
         /\ sess' = commitRecord(o, w) => SessSteps
<1>1. sess[o].rec \in Rec /\ sess[o].rec.by = sess[o].gen /\ sess[o].gen \in Settled
  BY SMTT(60) DEF SInv, TypeOK, Session, ClaimsHeld
<1>2. CASE ~w.applied
  <2>1. ~w.ok
    BY <1>2, OutcomeFacts, Zenon
  <2>2. UNCHANGED <<kv, last, claims>>
    BY <1>2, Zenon DEF Update, bucket
  <2>3. sess' = commitRecord(o, w) => sess' = sess
    BY <2>1, Zenon DEF commitRecord
  <2>4. QED
    BY <2>2, <2>3, Zenon DEF SessSteps, SessStep, SInv, TypeOK
<1>3. CASE w.applied
  <2>1. kv # NoRec /\ kv.rev = sess[o].rec.rev
    BY <1>3, OutcomeFacts, Zenon
  <2>2. Same(sess[o].rec, kv)
    BY <1>1, <2>1, RecFacts, Zenon DEF SInv, CopiesFaithful, Faithful
  <2>3. Put(rec) /\ claims' = claims
    BY <1>3, SMTT(60) DEF Update
  <2>4. Wrote(sess[o].gen) /\ kv'.owner = kv.owner /\ kv'.attached = rec.attached
          /\ kv'.pos = rec.pos
    BY <2>2, <2>3, PutTyped, Zenon DEF SInv, Wrote, Same
  <2>5. ASSUME sess' = commitRecord(o, w) PROVE SessSteps
    <3>1. CASE ~w.ok
      BY <2>5, <3>1, SMTT(60) DEF commitRecord, SessSteps, SessStep, SInv, TypeOK
    <3>2. CASE w.ok
      <4>1. sess' = [sess EXCEPT ![o].rec = kv']
        BY <2>5, <3>2, Zenon DEF commitRecord
      <4>2. kv' \in Rec /\ kv'.by = sess[o].gen
        BY <2>4, Zenon DEF Wrote
      <4>3. sess' \in [Conns -> Session]
        BY <4>1, <4>2 DEF SInv, TypeOK, Session
      <4>4. sess'[o].gen = sess[o].gen /\ sess'[o].rec = kv'
        BY <4>1, Zenon DEF SInv, TypeOK, Session
      <4>5. \A p \in Conns : p # o => sess'[p] = sess[p]
        BY <4>1, Zenon DEF SInv, TypeOK
      <4>6. QED
        BY <4>2, <4>3, <4>4, <4>5, RecFacts, Zenon DEF SessSteps, SessStep
    <3>3. QED
      BY <3>1, <3>2, Zenon
  <2>6. QED
    BY <1>1, <2>1, <2>2, <2>3, <2>4, <2>5, Zenon DEF Same
<1>4. QED
  BY <1>2, <1>3, Zenon

\* persistSession, of a connection that has not released its session.
LEMMA PersistStep ==
  ASSUME SInv, NEW k \in Conns, pc[k] \in Bound \ {"done"}, Persist(k)
  PROVE  BucketStep /\ SessSteps
<1> DEFINE o == obj[k]
<1>1. o \in Conns
  BY DEF SInv, TypeOK, ClaimsHeld
<1>2. CASE sess[o].gen # k
  BY <1>2, Zenon DEF Persist, BucketStep, Kept, SessSteps, SessStep, SInv, TypeOK, bucket
<1>3. CASE sess[o].gen = k
  <2>1. PICK w \in Outcomes(sess[o].rec.rev) :
            Update(w, snapshot(o)) /\ sess' = commitRecord(o, w)
    BY <1>3, Zenon DEF Persist
  <2>2. sess[o].gen # Nil /\ sess[o].rec # NoRec /\ sess[o].rec.by = k
    BY <1>1, <1>3, RecFacts, Zenon DEF SInv, ClaimsHeld, Nil
  <2>3. /\ snapshot(o) \in Rec /\ snapshot(o).by = k /\ snapshot(o).owner = sess[o].rec.owner
        /\ snapshot(o).attached = sess[o].rec.attached
    BY <1>1, <2>2, SnapshotTyped, Zenon DEF SInv
  <2>4. SessSteps
    BY <1>1, <1>3, <2>1, <2>2, <2>3, Committed, Zenon
  <2>5. CASE UNCHANGED <<kv, last, claims>>
    BY <2>4, <2>5, Zenon DEF BucketStep, Kept
  <2>6. CASE ~UNCHANGED <<kv, last, claims>>
    <3>1. /\ Wrote(k) /\ claims' = claims /\ kv'.owner = kv.owner /\ kv'.attached = sess[o].rec.attached
          /\ kv # NoRec /\ kv.by = k /\ k \in Settled /\ Same(sess[o].rec, kv)
      BY <1>1, <1>3, <2>1, <2>2, <2>3, <2>6, Committed, Zenon
    <3>2. kv.attached
      BY <3>1, SMTT(60) DEF SInv, RecordShape
    <3>3. kv'.attached
      BY <3>1, <3>2, SMTT(60) DEF Same
    <3>4. Written(k)
      BY <3>1, <3>2, <3>3, Zenon DEF Written
    <3>5. QED
      BY <2>4, <3>4, Zenon DEF BucketStep
  <2>7. QED
    BY <2>5, <2>6, Zenon
<1>4. QED
  BY <1>2, <1>3, Zenon

\* No other step writes the record, or gives a session another copy.
LEMMA StepEffects ==
  ASSUME SInv, [Next]_vars
  PROVE  BucketStep /\ SessSteps
<1> DEFINE Idle == UNCHANGED <<last, kv, claims>>
<1>t. TypeOK /\ CopiesFaithful /\ ClaimsHeld /\ RecordShape
  BY Zenon DEF SInv
<1>a. Idle => BucketStep
  BY Zenon DEF BucketStep, Kept
<1>b. sess' = sess => SessSteps
  BY <1>t, Zenon DEF TypeOK, SessSteps, SessStep
<1>c. \A k \in Conns : pc[k] \in Bound => obj[k] \in Conns
  BY <1>t, BoundSession, Zenon
<1>1. ASSUME NEW k \in Conns, NEW b \in Brokers, NEW cs \in BOOLEAN, TakeOver(k, b, cs)
      PROVE  BucketStep /\ SessSteps
  <2>1. Idle
    BY <1>1, Zenon DEF TakeOver, bucket
  <2>2. CASE cur[b] = Nil
    BY <1>1, <1>a, <1>b, <2>1, <2>2, Zenon DEF TakeOver
  <2>3. CASE cur[b] # Nil
    <3>1. cur[b] \in Conns
      BY <1>t, <2>3, Zenon DEF TypeOK
    <3>2. ClaimLeft(cur[b])
      BY <1>1, <2>3, Zenon DEF TakeOver, ClaimLeft
    <3>3. QED
      BY <1>a, <1>t, <2>1, <3>1, <3>2, ClaimLeftAlone, Zenon
  <2>4. QED
    BY <2>2, <2>3, Zenon
<1>2. ASSUME NEW k \in Conns, ClaimGet(k) PROVE BucketStep /\ SessSteps
  BY <1>2, <1>a, <1>b, Zenon DEF ClaimGet, bucket, sessVars
<1>3. ASSUME NEW k \in Conns, ClaimDelete(k) PROVE BucketStep /\ SessSteps
  <2>1. PICK w \in Outcomes(got[k].rev) : DeleteAt(w)
    BY <1>3, Zenon DEF ClaimDelete
  <2>2. w.applied => kv # NoRec
    BY OutcomeFacts, Zenon
  <2>3. BucketStep
    BY <1>a, <2>1, <2>2, Zenon DEF DeleteAt, Delete, bucket, BucketStep, Removed
  <2>4. QED
    BY <1>3, <1>b, <2>3, Zenon DEF ClaimDelete, sessVars
<1>4. ASSUME NEW k \in Conns, ClaimCreate(k) PROVE BucketStep /\ SessSteps
  <2>1. SessSteps
    BY <1>4, <1>b, Zenon DEF ClaimCreate, sessVars
  <2>2. Idle \/ (kv = NoRec /\ Put(Fresh(k)) /\ Tell(at[k]))
    BY <1>4, Zenon DEF ClaimCreate, bucket
  <2>3. CASE kv = NoRec /\ Put(Fresh(k)) /\ Tell(at[k])
    <3>1. Fresh(k).by = k /\ Fresh(k).owner = at[k] /\ Fresh(k).attached = TRUE
            /\ Fresh(k).subs = {}
      BY Zenon DEF Fresh
    <3>2. k \notin Settled /\ pc[k] # "new"
      BY <1>4, Zenon DEF ClaimCreate, Settled
    <3>3. Taken(k)
      BY <1>t, <2>3, <3>1, <3>2, ClaimTyped, PutTyped, Zenon DEF Taken, Wrote
    <3>4. QED
      BY <2>1, <3>3, Zenon DEF BucketStep
  <2>4. QED
    BY <1>a, <2>1, <2>2, <2>3, Zenon
<1>5. ASSUME NEW k \in Conns, ClaimUpdate(k) PROVE BucketStep /\ SessSteps
  <2>1. SessSteps
    BY <1>5, <1>b, Zenon DEF ClaimUpdate, sessVars
  <2>2. PICK a \in ownerAlive(got[k].owner), w \in Outcomes(got[k].rev) :
            IF w.applied THEN Put(Claimed(k, got[k], a.alive)) /\ Tell(at[k])
                         ELSE UNCHANGED bucket
    BY <1>5, Zenon DEF ClaimUpdate
  <2>3. CASE w.applied
    <3>1. kv # NoRec /\ kv.rev = got[k].rev
      BY <2>3, OutcomeFacts, Zenon
    <3>2. got[k] # NoRec /\ got[k] \in Rec
      <4>1. pc[k] = "update" /\ got[k] \in Rec \cup {NoRec}
        BY <1>5, <1>t, Zenon DEF ClaimUpdate, TypeOK
      <4>2. QED
        BY <1>t, <4>1, Zenon DEF ClaimsHeld
    <3>3. got[k].subs = kv.subs
      BY <1>t, <3>1, <3>2, Zenon DEF CopiesFaithful, Faithful, Same
    <3>4. a.alive \in BOOLEAN
      BY OwnerFacts, Zenon
    <3>5. k \notin Settled /\ pc[k] # "new"
      BY <1>5, Zenon DEF ClaimUpdate, Settled
    <3>6. /\ Claimed(k, got[k], a.alive) \in Rec
          /\ Claimed(k, got[k], a.alive).subs = got[k].subs
          /\ Claimed(k, got[k], a.alive).owner = at[k]
          /\ Claimed(k, got[k], a.alive).by = k
          /\ Claimed(k, got[k], a.alive).attached = TRUE
      BY <1>t, <3>2, <3>4, ClaimTyped, Zenon
    <3>7. Taken(k)
      BY <1>t, <2>2, <2>3, <3>1, <3>3, <3>5, <3>6, PutTyped, Zenon DEF Taken, Wrote
    <3>8. QED
      BY <2>1, <3>7, Zenon DEF BucketStep
  <2>4. QED
    BY <1>a, <2>1, <2>2, <2>3, Zenon DEF bucket
<1>6. ASSUME NEW k \in Conns, Bind(k) PROVE BucketStep /\ SessSteps
  <2> DEFINE o == IF obj[k] = Nil THEN k ELSE obj[k]
  <2>1. o \in Conns /\ got[k] \in Rec /\ pc[k] = "bind" /\ pc'[k] = "attach" /\ obj'[k] = o
    BY <1>6, <1>t DEF Bind, ClaimsHeld, Goes, TypeOK
  <2> DEFINE rest == IF obj[k] = Nil /\ present[k] THEN got[k].subs ELSE sess[o].rest
             s == [sess[o] EXCEPT !.rec = got[k], !.gen = k, !.rest = rest]
  <2>2. sess' = [sess EXCEPT ![o] = s]
    BY <1>6, Zenon DEF Bind
  <2>a. sess[o] \in Session
    BY <1>t, <2>1, Zenon DEF TypeOK
  <2>b. rest \in SUBSET Filters
    BY <2>1, <2>a, Zenon DEF Rec, Session
  <2> HIDE DEF o, rest
  <2>c. s \in Session /\ s.rec = got[k] /\ s.gen = k
    BY <2>1, <2>a, <2>b, Zenon DEF Session
  <2> HIDE DEF s
  <2>3. SessSteps
    BY <1>t, <2>1, <2>2, <2>c, Zenon DEF TypeOK, SessSteps, SessStep
  <2>4. QED
    BY <1>6, <1>a, <2>3, Zenon DEF Bind, bucket
<1>7. ASSUME NEW k \in Conns, Attach(k) \/ End(k) PROVE BucketStep /\ SessSteps
  <2>1. obj[k] \in Conns
    BY <1>7, <1>c, Zenon DEF Attach, End, Bound
  <2>2. sess[obj[k]].conn \in Conns \cup {Nil}
    BY <1>t, <2>1, Zenon DEF TypeOK, Session
  <2>3. CASE Attach(k)
    BY <1>a, <1>t, <2>1, <2>3, ClaimLeftAlone, Zenon DEF Attach, bucket, ClaimLeft
  <2>4. CASE End(k)
    <3>1. (IF sess[obj[k]].conn = k THEN Nil ELSE sess[obj[k]].conn) \in Conns \cup {Nil}
      BY <2>2, Zenon
    <3>2. ClaimLeft(obj[k])
      BY <2>4, <3>1, Zenon DEF End, ClaimLeft
    <3>3. QED
      BY <1>a, <1>t, <2>1, <2>4, <3>2, ClaimLeftAlone, Zenon DEF End, bucket
  <2>5. QED
    BY <1>7, <2>3, <2>4, Zenon
<1>8. ASSUME NEW k \in Conns, Restore(k) PROVE BucketStep /\ SessSteps
  <2>1. obj[k] \in Conns /\ pc[k] \in Bound \ {"done"}
    BY <1>8, <1>c, Zenon DEF Restore, Bound
  <2>2. CASE Persist(k)
    BY <2>1, <2>2, PersistStep, Zenon
  <2>3. CASE ~Persist(k)
    <3>1. Idle
      BY <1>8, <2>3, Zenon DEF Restore, bucket
    <3>2. sess' = sess \/ ClaimLeft(obj[k])
      BY <1>8, <2>3, Zenon DEF Restore, ClaimLeft
    <3>3. QED
      BY <1>a, <1>b, <1>t, <2>1, <3>1, <3>2, ClaimLeftAlone, Zenon
  <2>4. QED
    BY <2>2, <2>3, Zenon
<1>9. ASSUME NEW k \in Conns, Acknowledge(k) PROVE BucketStep /\ SessSteps
  BY <1>9, PersistStep, Zenon DEF Acknowledge, Bound
<1>10. ASSUME NEW k \in Conns, Checkpoint(k) PROVE BucketStep /\ SessSteps
  <2> DEFINE o == obj[k]
  <2>1. o \in Conns /\ sess[o].gen = k /\ sess[o].rec # NoRec /\ sess[o].rec.by = k
          /\ pc[k] = "open" /\ sess[o].gen # Nil
    BY <1>10, <1>c, <1>t, RecFacts, SMTT(60) DEF Checkpoint, ClaimsHeld, Bound, Nil
  <2> DEFINE rec == [snapshot(o) EXCEPT !.pos = k]
  <2>2. /\ snapshot(o) \in Rec /\ snapshot(o).by = k
        /\ snapshot(o).owner = sess[o].rec.owner /\ snapshot(o).attached = sess[o].rec.attached
    BY <1>t, <2>1, SnapshotTyped, Zenon
  <2>3. rec \in Rec /\ rec.by = k /\ rec.owner = sess[o].rec.owner
          /\ rec.attached = sess[o].rec.attached
    BY <2>2, RecordPos, Zenon
  <2>4. PICK w \in Outcomes(sess[o].rec.rev) : Update(w, rec) /\ sess' = commitRecord(o, w)
    BY <1>10, Zenon DEF Checkpoint
  <2> HIDE DEF o, rec
  <2>5. SessSteps
    BY <2>1, <2>3, <2>4, Committed, Zenon
  <2>6. CASE UNCHANGED <<kv, last, claims>>
    BY <1>a, <2>5, <2>6, Zenon
  <2>7. CASE ~UNCHANGED <<kv, last, claims>>
    <3>1. /\ Wrote(k) /\ claims' = claims /\ kv'.owner = kv.owner /\ kv'.attached = sess[o].rec.attached
          /\ kv # NoRec /\ kv.by = k /\ k \in Settled /\ Same(sess[o].rec, kv)
      BY <2>1, <2>3, <2>4, <2>7, Committed, Zenon
    <3>2. kv.attached
      BY <1>t, <2>1, <3>1, Zenon DEF RecordShape
    <3>3. Written(k)
      BY <3>1, <3>2, SMTT(60) DEF Written, Same
    <3>4. QED
      BY <2>5, <3>3, Zenon DEF BucketStep
  <2>8. QED
    BY <2>6, <2>7, SMTT(60)
<1>11. ASSUME NEW k \in Conns, Release(k) PROVE BucketStep /\ SessSteps
  <2> DEFINE o == obj[k]
             rec == [snapshot(o) EXCEPT !.attached = FALSE, !.pos = k]
  <2>1. o \in Conns /\ pc[k] = "release" /\ pc'[k] = "done"
    BY <1>11, <1>c, <1>t, Zenon DEF Release, Bound, Goes, TypeOK
  <2>2. PICK w \in Outcomes(sess[o].rec.rev) :
          /\ IF sess[o].gen # k THEN UNCHANGED bucket
             ELSE IF endsWithConn(o) THEN DeleteAt(w) ELSE Update(w, rec)
          /\ sess' = IF endsWithConn(o) THEN [sess EXCEPT ![o] = discarded(@)]
                     ELSE IF sess[o].gen = k THEN commitRecord(o, w) ELSE sess
    BY <1>11, Zenon DEF Release
  <2>3. CASE sess[o].gen # k \/ endsWithConn(o)
    <3>1. w.applied => kv # NoRec
      BY OutcomeFacts, Zenon
    <3>2. BucketStep
      BY <1>a, <2>2, <2>3, <3>1, Zenon DEF bucket, DeleteAt, Delete, BucketStep, Removed
    <3>3. sess' = sess \/ ClaimLeft(o)
      BY <2>2, <2>3, Zenon DEF ClaimLeft
    <3>4. QED
      BY <1>b, <1>t, <2>1, <3>2, <3>3, ClaimLeftAlone, SMTT(60)
  <2>4. CASE sess[o].gen = k /\ ~endsWithConn(o)
    <3>1. sess[o].rec # NoRec /\ sess[o].rec.by = k /\ sess[o].gen # Nil
      BY <1>t, <2>1, <2>4, RecFacts, ZenonT(60) DEF ClaimsHeld, Nil
    <3>2. /\ snapshot(o) \in Rec /\ snapshot(o).by = k
          /\ snapshot(o).owner = sess[o].rec.owner
      BY <1>t, <2>1, <3>1, SnapshotTyped, SMTT(60)
    <3>3. rec \in Rec /\ rec.by = k /\ rec.owner = sess[o].rec.owner
            /\ rec.attached = FALSE /\ rec.pos = k
      BY <3>2, RecordPos, Zenon
    <3>4. Update(w, rec) /\ sess' = commitRecord(o, w)
      BY <2>2, <2>4, Zenon
    <3> HIDE DEF o, rec
    <3>5. SessSteps
      BY <2>1, <2>4, <3>1, <3>3, <3>4, Committed, Zenon
    <3>6. CASE UNCHANGED <<kv, last, claims>>
      BY <1>a, <3>5, <3>6, Zenon
    <3>7. CASE ~UNCHANGED <<kv, last, claims>>
      <4>1. /\ Wrote(k) /\ claims' = claims /\ kv'.owner = kv.owner /\ kv'.attached = FALSE /\ kv'.pos = k
            /\ kv # NoRec /\ kv.by = k /\ k \in Settled
        BY <2>1, <2>4, <3>1, <3>3, <3>4, <3>7, Committed, Zenon
      <4>2. Written(k)
        BY <2>1, <4>1, Zenon DEF Written
      <4>3. QED
        BY <3>5, <4>2, Zenon DEF BucketStep
    <3>8. QED
      BY <3>6, <3>7, Zenon
  <2>5. QED
    BY <2>3, <2>4, SMTT(60)
<1>12. ASSUME NEW k \in Conns, Due(k) PROVE BucketStep /\ SessSteps
  BY <1>12, <1>a, <1>t, ClaimLeftAlone, Zenon DEF Due, bucket, ClaimLeft
<1>13. ASSUME NEW k \in Conns, NEW f \in Filters, Change(k, f) PROVE BucketStep /\ SessSteps
  <2>1. obj[k] \in Conns
    BY <1>13, <1>c, Zenon DEF Change, Bound
  <2>2. /\ sess[obj[k]].subs \cup {f} \in SUBSET Filters
        /\ sess[obj[k]].subs \ {f} \in SUBSET Filters
    BY <1>t, <2>1, Zenon DEF TypeOK, Session
  <2>3. sess' = sess \/ ClaimLeft(obj[k])
    BY <1>13, <2>2, Zenon DEF Change, ClaimLeft
  <2>4. QED
    BY <1>13, <1>a, <1>b, <1>t, <2>1, <2>3, ClaimLeftAlone, Zenon DEF Change, bucket
<1>14. ASSUME NEW b \in Brokers, LateCopy(b) PROVE BucketStep /\ SessSteps
  <2> DEFINE o == cur[b]
  <2>1. o \in Conns /\ sess[o].gen # Nil /\ ~sess[o].rec.attached
    BY <1>14, <1>t, Zenon DEF LateCopy, TypeOK
  <2>2. sess[o].rec \in Rec /\ sess[o].rec.by = sess[o].gen
    BY <1>t, <2>1, ZenonT(60) DEF ClaimsHeld, Session, TypeOK
  <2>3. PICK w \in Outcomes(sess[o].rec.rev) :
            Update(w, sess[o].rec) /\ sess' = commitRecord(o, w)
    BY <1>14, Zenon DEF LateCopy
  <2>4. SessSteps
    BY <2>1, <2>2, <2>3, Committed, Zenon
  <2>5. CASE UNCHANGED <<kv, last, claims>>
    BY <1>a, <2>4, <2>5, Zenon
  <2>6. CASE ~UNCHANGED <<kv, last, claims>>
    <3>1. /\ Wrote(kv.by) /\ claims' = claims /\ kv'.owner = kv.owner /\ kv'.attached = sess[o].rec.attached
          /\ kv'.pos = sess[o].rec.pos
          /\ kv # NoRec /\ kv.by \in Settled /\ Same(sess[o].rec, kv)
      BY <2>1, <2>2, <2>3, <2>6, Committed, Zenon
    <3>2. ~kv.attached /\ ~kv'.attached /\ kv'.pos = kv.pos
      BY <2>1, <3>1, Zenon DEF Same
    <3>3. kv'.pos = kv.by /\ pc[kv.by] = "done" /\ pc' = pc
      BY <1>14, <1>t, <3>1, <3>2, Zenon DEF RecordShape, LateCopy, connVars
    <3>4. Written(kv.by)
      BY <3>1, <3>2, <3>3, Zenon DEF Written
    <3>5. kv.by \in Conns
      BY <3>1, Zenon DEF Settled
    <3>6. QED
      BY <2>4, <3>4, <3>5, Zenon DEF BucketStep
  <2>7. QED
    BY <2>5, <2>6, Zenon
<1>15. ASSUME NEW b \in Brokers, SetBack(b) \/ SweepRead(b) \/ Kill(b)
       PROVE  BucketStep /\ SessSteps
  BY <1>15, <1>a, <1>b, Zenon DEF SetBack, SweepRead, Kill, bucket, sessVars
<1>16. ASSUME NEW b \in Brokers, SweepSessions(b) \/ \E r \in news[b] : OnUpdate(b, r)
       PROVE  BucketStep /\ SessSteps
  <2>1. Idle
    BY <1>16, Zenon DEF SweepSessions, OnUpdate, bucket
  <2>2. sess' = sess \/ (cur[b] \in Conns /\ ClaimLeft(cur[b]))
    BY <1>16, <1>t, Zenon DEF SweepSessions, OnUpdate, ClaimLeft, TypeOK
  <2>3. QED
    BY <1>a, <1>b, <1>t, <2>1, <2>2, ClaimLeftAlone, Zenon
<1>17. ASSUME NEW b \in Brokers, SweepDelete(b) PROVE BucketStep /\ SessSteps
  <2>1. Idle \/ Removed
    BY <1>17, Zenon DEF SweepDelete, AtRevision, Delete, Removed, bucket
  <2>2. QED
    BY <1>17, <1>a, <1>b, <2>1, Zenon DEF SweepDelete, BucketStep, sessVars
<1>18. ASSUME RecordDue PROVE BucketStep /\ SessSteps
  BY <1>18, <1>b, Zenon DEF RecordDue, BucketStep, Kept, sessVars
<1>19. ASSUME UNCHANGED vars PROVE BucketStep /\ SessSteps
  BY <1>19, <1>a, <1>b, Zenon DEF vars, bucket, sessVars
<1>20. QED
  BY <1>1, <1>2, <1>3, <1>4, <1>5, <1>6, <1>7, <1>8, <1>9, <1>10, <1>11, <1>12, <1>13,
     <1>14, <1>15, <1>16, <1>17, <1>18, <1>19, NextCases, Zenon

----------------------------------------------------------------------------
(* The invariant is inductive. *)

\* A copy stays faithful: the bucket never gives a revision twice.
LEMMA FaithfulKept ==
  ASSUME SInv, BucketStep, NEW r \in Rec \cup {NoRec}, Faithful(r)
  PROVE  last' \in Nat /\ last <= last'
         /\ (kv' # NoRec => 0 < kv'.rev /\ kv'.rev <= last')
         /\ (r # NoRec => /\ 0 < r.rev /\ r.rev <= last'
                          /\ kv' # NoRec /\ kv'.rev = r.rev => Same(r, kv'))
<1>t. last \in Nat /\ kv \in Rec \cup {NoRec} /\ (kv # NoRec => 0 < kv.rev /\ kv.rev <= last)
  BY Zenon DEF SInv, TypeOK, CopiesFaithful
<1>r. r # NoRec => r.rev \in Nat
  BY Zenon DEF Rec
<1>1. CASE Kept
  <2>1. CASE kv' = kv
    BY <1>1, <1>t, <1>r, <2>1 DEF Kept, Faithful
  <2>2. CASE kv # NoRec /\ kv' = [kv EXCEPT !.expired = TRUE]
    <3>1. kv'.rev = kv.rev /\ kv'.by = kv.by /\ kv'.owner = kv.owner /\ kv'.pos = kv.pos
            /\ kv'.attached = kv.attached /\ kv'.subs = kv.subs
      BY <1>t, <2>2, Zenon DEF Rec
    <3>2. QED
      BY <1>1, <1>t, <1>r, <2>2, <3>1 DEF Kept, Faithful, Same
  <2>3. QED
    BY <1>1, <2>1, <2>2, Zenon DEF Kept
<1>2. CASE \E k \in Conns : Wrote(k)
  BY <1>2, <1>t, <1>r DEF Wrote, Faithful
<1>3. CASE Removed
  BY <1>3, <1>t, <1>r DEF Removed, Faithful
<1>4. QED
  BY <1>1, <1>2, <1>3, Zenon DEF BucketStep, Taken, Written

\* A claim keeps what it read, reads the record, or has written it.
GotStep(k) ==
    \/ got'[k] = got[k] \/ got'[k] = NoRec \/ got'[k] = kv
    \/ got'[k] = kv' /\ kv' # NoRec

\* What a claim has read or written, step by step (claim).
LEMMA GotSteps ==
  ASSUME SInv, [Next]_vars
  PROVE  got' \in [Conns -> Rec \cup {NoRec}] /\ \A k \in Conns : GotStep(k)
<1>t. TypeOK
  BY Zenon DEF SInv
<1>1. got' = got => got' \in [Conns -> Rec \cup {NoRec}] /\ \A k \in Conns : GotStep(k)
  BY <1>t, Zenon DEF TypeOK, GotStep
<1>2. kv' \in Rec \cup {NoRec}
  <2>1. kv # NoRec /\ kv' = [kv EXCEPT !.expired = TRUE] => kv' \in Rec
    BY <1>t, Zenon DEF TypeOK, Rec
  <2>2. QED
    BY <1>t, <2>1, StepEffects, Zenon DEF TypeOK, BucketStep, Kept, Taken, Written, Wrote, Removed
<1>3. ASSUME NEW k \in Conns, got' = [got EXCEPT ![k] = kv]
      PROVE  got' \in [Conns -> Rec \cup {NoRec}] /\ \A j \in Conns : GotStep(j)
  BY <1>3, <1>t, Zenon DEF TypeOK, GotStep
<1>4. ASSUME NEW k \in Conns, got' = [got EXCEPT ![k] = kv']
      PROVE  got' \in [Conns -> Rec \cup {NoRec}] /\ \A j \in Conns : GotStep(j)
  BY <1>4, <1>t, <1>2, Zenon DEF TypeOK, GotStep
<1>5. ASSUME NEW k \in Conns, got' = [got EXCEPT ![k] = NoRec]
      PROVE  got' \in [Conns -> Rec \cup {NoRec}] /\ \A j \in Conns : GotStep(j)
  BY <1>5, <1>t, Zenon DEF TypeOK, GotStep
<1>6. ASSUME NEW k \in Conns,
             ClaimGet(k) \/ ClaimCreate(k) \/ ClaimUpdate(k) \/ Bind(k)
      PROVE  \/ got' = got \/ got' = [got EXCEPT ![k] = kv] \/ got' = [got EXCEPT ![k] = kv']
             \/ got' = [got EXCEPT ![k] = NoRec]
  BY <1>6, Zenon DEF ClaimGet, ClaimCreate, ClaimUpdate, Bind
<1>7. CASE ~ \E k \in Conns : ClaimGet(k) \/ ClaimCreate(k) \/ ClaimUpdate(k) \/ Bind(k)
  <2>1. got' = got
    BY <1>7, Frame, Zenon
  <2>2. QED
    BY <1>1, <2>1, Zenon
<1>8. QED
  BY <1>1, <1>3, <1>4, <1>5, <1>6, <1>7, Zenon

\* Copies stay faithful: the bucket gives every write a revision of its own.
LEMMA CopiesStay ==
  ASSUME SInv, [Next]_vars
  PROVE  CopiesFaithful' /\ kv' \in Rec \cup {NoRec} /\ last' \in Nat /\ last <= last'
<1>t. TypeOK /\ CopiesFaithful
  BY Zenon DEF SInv
<1>1. BucketStep /\ SessSteps
  BY StepEffects, Zenon
<1>2. Faithful(NoRec)
  BY Zenon DEF Faithful
<1>3. last' \in Nat /\ last <= last' /\ (kv' # NoRec => 0 < kv'.rev /\ kv'.rev <= last')
  BY <1>1, <1>2, FaithfulKept, Zenon
<1>4. \A r \in Rec \cup {NoRec} : Faithful(r) =>
         (r # NoRec => /\ 0 < r.rev /\ r.rev <= last'
                       /\ kv' # NoRec /\ kv'.rev = r.rev => Same(r, kv'))
  BY <1>1, FaithfulKept, Zenon
<1>5. kv' \in Rec \cup {NoRec}
  <2>1. kv # NoRec /\ kv' = [kv EXCEPT !.expired = TRUE] => kv' \in Rec
    BY <1>t, Zenon DEF TypeOK, Rec
  <2>2. QED
    BY <1>t, <1>1, <2>1, Zenon DEF TypeOK, BucketStep, Kept, Taken, Written, Wrote, Removed
<1>6. /\ kv # NoRec => Faithful(kv) /\ kv \in Rec
      /\ kv' # NoRec => /\ 0 < kv'.rev /\ kv'.rev <= last' /\ Same(kv', kv')
  BY <1>t, <1>3, Zenon DEF TypeOK, CopiesFaithful, Faithful, Same
<1>7. \A k \in Conns : Faithful(got[k])' 
  <2> TAKE k \in Conns
  <2>1. Faithful(got[k]) /\ got[k] \in Rec \cup {NoRec} /\ kv \in Rec \cup {NoRec}
    BY <1>t, Zenon DEF CopiesFaithful, TypeOK
  <2>2. GotStep(k)
    BY GotSteps, Zenon
  <2>3. QED
    BY <1>4, <1>6, <2>1, <2>2, Zenon DEF GotStep, Faithful
<1>8. \A k \in Conns : Faithful(sess[k].rec)'
  <2> TAKE k \in Conns
  <2>1. \A j \in Conns : Faithful(got[j]) /\ got[j] \in Rec \cup {NoRec}
    BY <1>t, Zenon DEF CopiesFaithful, TypeOK
  <2>2. Faithful(sess[k].rec) /\ sess[k].rec \in Rec \cup {NoRec}
    BY <1>t, Zenon DEF CopiesFaithful, TypeOK, Session
  <2>3. SessStep(k)
    BY <1>1, Zenon DEF SessSteps
  <2>4. QED
    BY <1>4, <1>6, <2>1, <2>2, <2>3, Zenon DEF SessStep, Faithful
<1>9. QED
  BY <1>3, <1>5, <1>7, <1>8, Zenon DEF CopiesFaithful

\* A connection's claim stays settled and its broker the same; what it has read
\* or written is at hand when its next step needs it.
ConnMoves(k) ==
    /\ pc[k] # "new" => pc'[k] # "new" /\ at'[k] = at[k]
    /\ pc[k] = "new" => pc'[k] = "new" \/ at'[k] \in Brokers
    /\ pc[k] \notin Claiming => pc'[k] \notin Claiming
    /\ pc[k] = "done" => pc'[k] = "done"
    /\ pc'[k] \in {"delete", "update"} => got'[k] # NoRec
    /\ pc'[k] = "bind" => /\ got'[k] # NoRec /\ got'[k].by = k
                          /\ \/ pc[k] = "bind" /\ got'[k] = got[k]
                             \/ /\ pc[k] \in {"create", "update"} /\ got'[k] = kv'
                                /\ kv'.owner = at[k] /\ Tell(at[k]) /\ last' = last + 1
    /\ pc'[k] \in Bound => obj'[k] # Nil
    /\ pc'[k] = "attach" => pc[k] \in {"bind", "attach"}
    /\ pc'[k] \in {"restore", "open", "ack"} => pc[k] \in {"attach", "restore", "open", "ack"}
ConnTyped ==
    /\ pc' \in [Conns -> PCs] /\ at' \in [Conns -> Brokers \cup {NoBroker}]
    /\ obj' \in [Conns -> Conns \cup {Nil}]
    /\ cur' \in [Brokers -> Conns \cup {Nil}]

\* The same, step by step (handshake, finish and Shutdown).
LEMMA ConnSteps ==
  ASSUME SInv, [Next]_vars
  PROVE  ConnTyped /\ \A k \in Conns : ConnMoves(k)
<1> DEFINE Goal == ConnTyped /\ \A k \in Conns : ConnMoves(k)
<1>t. TypeOK /\ ClaimsHeld
  BY Zenon DEF SInv
<1>a. ASSUME UNCHANGED <<pc, at, obj, got>>, cur' \in [Brokers -> Conns \cup {Nil}]
      PROVE  Goal
  BY <1>a, <1>t, Zenon DEF TypeOK, ClaimsHeld, ConnTyped, ConnMoves
<1>b. ASSUME NEW k \in Conns, NEW to \in PCs \ (Claiming \cup {"bind", "attach"}), pc[k] # "new", pc[k] # "done",
             Goes(k, to), UNCHANGED <<at, obj, got>>, cur' \in [Brokers -> Conns \cup {Nil}],
             to \in Bound => obj[k] # Nil,
             to \in {"restore", "open", "ack"} => pc[k] \in {"attach", "restore", "open", "ack"}
      PROVE  Goal
  <2>1. pc' = [pc EXCEPT ![k] = to] /\ to # "new"
    BY <1>b, Zenon DEF Goes, Claiming
  <2>2. ConnTyped
    BY <1>b, <1>t, <2>1, Zenon DEF TypeOK, ConnTyped
  <2>3. ASSUME NEW j \in Conns PROVE ConnMoves(j)
    <3>1. CASE j = k
      <4>1. pc'[j] = to
        BY <1>t, <2>1, <3>1, Zenon DEF TypeOK
      <4>2. QED
        BY <1>b, <3>1, <4>1, Zenon DEF ConnMoves, Claiming
    <3>2. CASE j # k
      <4>1. pc'[j] = pc[j]
        BY <1>t, <2>1, <3>2, Zenon DEF TypeOK
      <4>2. QED
        BY <1>b, <1>t, <4>1, Zenon DEF ConnMoves, ClaimsHeld
    <3>3. QED
      BY <3>1, <3>2, Zenon
  <2>4. QED
    BY <2>2, <2>3, Zenon
<1>c. cur' = cur => cur' \in [Brokers -> Conns \cup {Nil}]
  BY <1>t, Zenon DEF TypeOK
<1>1. ASSUME NEW k \in Conns, NEW b \in Brokers, NEW cs \in BOOLEAN, TakeOver(k, b, cs)
      PROVE  Goal
  <2>1. /\ pc[k] = "new" /\ pc' = [pc EXCEPT ![k] = "get"] /\ at' = [at EXCEPT ![k] = b]
        /\ got' = got
    BY <1>1, Zenon DEF TakeOver, Goes
  <2>2. cur' = cur \/ cur' = [cur EXCEPT ![b] = Nil]
    BY <1>1, Zenon DEF TakeOver
  <2>3. obj' = obj \/ (cur[b] # Nil /\ obj' = [obj EXCEPT ![k] = cur[b]])
    BY <1>1, Zenon DEF TakeOver
  <2>4. ConnTyped
    BY <1>t, <2>1, <2>2, <2>3, SMTT(60) DEF TypeOK, ConnTyped, PCs, Claiming
  <2>5. \A j \in Conns : obj[j] # Nil => obj'[j] # Nil
    BY <1>t, <2>3, Zenon DEF TypeOK
  <2>6. \A j \in Conns : j # k => pc'[j] = pc[j] /\ at'[j] = at[j]
    BY <1>t, <2>1, Zenon DEF TypeOK
  <2>7. pc'[k] = "get" /\ at'[k] = b
    BY <1>t, <2>1, Zenon DEF TypeOK
  <2>8. ASSUME NEW j \in Conns PROVE ConnMoves(j)
    BY <1>t, <2>1, <2>5, <2>6, <2>7, Zenon DEF ConnMoves, ClaimsHeld, Claiming, Bound
  <2>9. QED
    BY <2>4, <2>8, Zenon
<1>2. ASSUME NEW k \in Conns, ClaimGet(k) PROVE Goal
  <2>1. CASE Goes(k, "refused") /\ got' = got
    BY <1>2, <1>b, <1>c, <2>1, Zenon DEF ClaimGet, sessVars, PCs, Claiming, Bound
  <2> DEFINE next == CASE kv = NoRec -> "create"
                       [] kv # NoRec /\ (clean[k] \/ ~resumable(kv)) -> "delete"
                       [] OTHER -> "update"
  <2>2. CASE got' = [got EXCEPT ![k] = kv] /\ Goes(k, next)
    <3>1. PICK to \in {"create", "delete", "update"} :
            Goes(k, to) /\ (to # "create" => kv # NoRec)
      BY <2>2, Zenon
    <3>2. pc[k] = "get" /\ at' = at /\ obj' = obj /\ cur' = cur
      BY <1>2, Zenon DEF ClaimGet, sessVars
    <3>3. pc' = [pc EXCEPT ![k] = to]
      BY <3>1, Zenon DEF Goes
    <3>4. ConnTyped
      BY <1>t, <3>2, <3>3, Zenon DEF ConnTyped, TypeOK, PCs, Claiming
    <3>5. /\ pc'[k] = to /\ got'[k] = kv
          /\ \A j \in Conns : j # k => pc'[j] = pc[j] /\ got'[j] = got[j]
      BY <1>t, <2>2, <3>3, Zenon DEF TypeOK
    <3>6. ASSUME NEW j \in Conns PROVE ConnMoves(j)
      BY <1>t, <3>1, <3>2, <3>5, Zenon DEF ConnMoves, ClaimsHeld, Claiming, Bound
    <3>7. QED
      BY <3>4, <3>6, Zenon
  <2>3. QED
    BY <1>2, <2>1, <2>2, Zenon DEF ClaimGet
<1>3. ASSUME NEW k \in Conns, NEW from \in {"delete", "create", "update"}, pc[k] = from,
             Again(k), UNCHANGED <<at, obj, got, cur>>
      PROVE  Goal
  <2>1. PICK to \in {"refused", "get"} : pc' = [pc EXCEPT ![k] = to]
    <3>1. \E to \in {"refused", "get"} : Goes(k, to)
      BY <1>3, Zenon DEF Again
    <3>2. QED
      BY <3>1, Zenon DEF Goes
  <2>2. ConnTyped
    BY <1>3, <1>t, <2>1, Zenon DEF ConnTyped, TypeOK, PCs, Claiming
  <2>3. pc'[k] = to /\ \A j \in Conns : j # k => pc'[j] = pc[j]
    BY <1>t, <2>1, Zenon DEF TypeOK
  <2>4. ASSUME NEW j \in Conns PROVE ConnMoves(j)
    BY <1>3, <1>t, <2>3, Zenon DEF ConnMoves, ClaimsHeld, Claiming, Bound
  <2>5. QED
    BY <2>2, <2>4, Zenon
<1>4. ASSUME NEW k \in Conns, ClaimDelete(k) PROVE Goal
  <2>1. UNCHANGED <<at, obj, got, cur>> /\ pc[k] = "delete"
    BY <1>4, Zenon DEF ClaimDelete, sessVars
  <2>2. CASE Again(k)
    BY <1>3, <2>1, <2>2, Zenon
  <2>3. CASE Goes(k, "create")
    <3>1. pc' = [pc EXCEPT ![k] = "create"]
      BY <2>3, Zenon DEF Goes
    <3>2. ConnTyped
      BY <1>t, <2>1, <3>1, Zenon DEF ConnTyped, TypeOK, PCs, Claiming
    <3>3. pc'[k] = "create" /\ \A j \in Conns : j # k => pc'[j] = pc[j]
      BY <1>t, <3>1, Zenon DEF TypeOK
    <3>4. ASSUME NEW j \in Conns PROVE ConnMoves(j)
      BY <1>t, <2>1, <3>3, Zenon DEF ConnMoves, ClaimsHeld, Claiming, Bound
    <3>5. QED
      BY <3>2, <3>4, Zenon
  <2>4. QED
    BY <1>4, <2>2, <2>3, Zenon DEF ClaimDelete
<1>5. ASSUME NEW k \in Conns, pc[k] \in {"create", "update"}, Goes(k, "bind"),
             got' = [got EXCEPT ![k] = kv'], kv' \in Rec, kv'.by = k, kv'.owner = at[k],
             Tell(at[k]), last' = last + 1, UNCHANGED <<at, obj, cur>>
      PROVE  Goal
  <2>1. pc' = [pc EXCEPT ![k] = "bind"]
    BY <1>5, Zenon DEF Goes
  <2>2. ConnTyped
    BY <1>5, <1>t, <2>1, Zenon DEF ConnTyped, TypeOK, PCs
  <2>3. /\ pc'[k] = "bind" /\ got'[k] = kv'
        /\ \A j \in Conns : j # k => pc'[j] = pc[j] /\ got'[j] = got[j]
    BY <1>5, <1>t, <2>1, Zenon DEF TypeOK
  <2>4. ASSUME NEW j \in Conns PROVE ConnMoves(j)
    <3>1. CASE j = k
      BY <1>5, <2>3, <3>1, RecFacts, Zenon DEF ConnMoves, Claiming, Bound
    <3>2. CASE j # k
      BY <1>5, <1>t, <2>3, <3>2, Zenon DEF ConnMoves, ClaimsHeld
    <3>3. QED
      BY <3>1, <3>2, Zenon
  <2>5. QED
    BY <2>2, <2>4, Zenon
<1>6. ASSUME NEW k \in Conns, ClaimCreate(k) PROVE Goal
  <2>1. UNCHANGED <<at, obj, cur>> /\ pc[k] = "create"
    BY <1>6, Zenon DEF ClaimCreate, sessVars
  <2>2. CASE Goes(k, "bind") /\ Put(Fresh(k)) /\ Tell(at[k]) /\ got' = [got EXCEPT ![k] = kv']
    <3> DEFINE rec == Fresh(k)
    <3>1. rec.by = k /\ rec.owner = at[k]
      BY Zenon DEF Fresh
    <3>2. rec \in Rec /\ Put(rec)
      BY <1>t, <2>2, ClaimTyped, Zenon
    <3> HIDE DEF rec
    <3>3. kv' \in Rec /\ kv'.by = k /\ kv'.owner = at[k] /\ last' = last + 1
      BY <1>t, <3>1, <3>2, PutTyped, Zenon
    <3>4. QED
      BY <1>5, <2>1, <2>2, <3>3, Zenon
  <2>3. CASE Goes(k, "refused") /\ got' = got
    BY <1>b, <1>c, <2>1, <2>3, Zenon DEF PCs, Claiming, Bound
  <2>4. CASE Again(k) /\ got' = got
    BY <1>3, <2>1, <2>4, Zenon
  <2>5. QED
    BY <1>6, <2>2, <2>3, <2>4, Zenon DEF ClaimCreate
<1>7. ASSUME NEW k \in Conns, ClaimUpdate(k) PROVE Goal
  <2>1. UNCHANGED <<at, obj, cur>> /\ pc[k] = "update"
    BY <1>7, Zenon DEF ClaimUpdate, sessVars
  <2>2. PICK a \in ownerAlive(got[k].owner), w \in Outcomes(got[k].rev) :
          /\ IF w.applied THEN Put(Claimed(k, got[k], a.alive)) /\ Tell(at[k])
                          ELSE UNCHANGED bucket
          /\ IF w.ok THEN got' = [got EXCEPT ![k] = kv'] /\ Goes(k, "bind")
                     ELSE Again(k) /\ got' = got
    BY <1>7, Zenon DEF ClaimUpdate
  <2>3. CASE w.ok
    <3>1. /\ Put(Claimed(k, got[k], a.alive)) /\ Tell(at[k])
          /\ got' = [got EXCEPT ![k] = kv'] /\ Goes(k, "bind")
      BY <2>2, <2>3, OutcomeFacts, Zenon
    <3>2. got[k] # NoRec /\ a.alive \in BOOLEAN
      BY <1>t, <2>1, OwnerFacts, Zenon DEF ClaimsHeld
    <3> DEFINE rec == Claimed(k, got[k], a.alive)
    <3>3. rec \in Rec /\ rec.by = k /\ rec.owner = at[k]
      BY <1>t, <3>2, ClaimTyped, Zenon
    <3>4. Put(rec)
      BY <3>1, Zenon
    <3> HIDE DEF rec
    <3>5. kv' \in Rec /\ kv'.by = k /\ kv'.owner = at[k] /\ last' = last + 1
      BY <1>t, <3>3, <3>4, PutTyped, Zenon
    <3>6. QED
      BY <1>5, <2>1, <3>1, <3>5, Zenon
  <2>4. CASE ~w.ok
    BY <1>3, <2>1, <2>2, <2>4, Zenon
  <2>5. QED
    BY <2>3, <2>4, Zenon
<1>8. ASSUME NEW k \in Conns, Bind(k) PROVE Goal
  <2> DEFINE o == IF obj[k] = Nil THEN k ELSE obj[k]
  <2>1. /\ pc[k] = "bind" /\ pc' = [pc EXCEPT ![k] = "attach"] /\ at' = at /\ cur' = cur
        /\ obj' = [obj EXCEPT ![k] = o] /\ got' = [got EXCEPT ![k] = NoRec]
    BY <1>8, Zenon DEF Bind, Goes
  <2>2. o \in Conns /\ o # Nil
    BY <1>t, RecFacts, Zenon DEF TypeOK, Nil
  <2> HIDE DEF o
  <2>3. ConnTyped
    BY <1>t, <2>1, <2>2, Zenon DEF ConnTyped, TypeOK, PCs
  <2>4. /\ pc'[k] = "attach" /\ obj'[k] = o
        /\ \A j \in Conns : j # k => pc'[j] = pc[j] /\ got'[j] = got[j] /\ obj'[j] = obj[j]
    BY <1>t, <2>1, Zenon DEF TypeOK
  <2>5. ASSUME NEW j \in Conns PROVE ConnMoves(j)
    BY <1>t, <2>1, <2>2, <2>4, Zenon DEF ConnMoves, ClaimsHeld, Claiming, Bound
  <2>6. QED
    BY <2>3, <2>5, Zenon
<1>9. ASSUME NEW k \in Conns,
             Attach(k) \/ Restore(k) \/ Acknowledge(k) \/ Release(k) \/ End(k)
               \/ \E f \in Filters : Change(k, f)
      PROVE  Goal
  <2>1. pc[k] \in Bound \ {"done"}
    BY <1>9, Zenon DEF Attach, Restore, Acknowledge, Release, End, Change, Bound
  <2>2. obj[k] \in Conns
    <3>1. obj[k] # Nil
      BY <1>t, <2>1, Zenon DEF ClaimsHeld
    <3>2. QED
      BY <1>t, <3>1, Zenon DEF TypeOK
  <2>3. PICK to \in {"restore", "open", "ack", "end", "release", "done"} :
            /\ Goes(k, to)
            /\ to \in {"restore", "open", "ack"} =>
                  pc[k] \in {"attach", "restore", "open", "ack"}
    BY <1>9, Zenon DEF Attach, Restore, Acknowledge, Release, End, Change
  <2>4. UNCHANGED <<at, obj, got>>
    BY <1>9, Zenon DEF Attach, Restore, Acknowledge, Release, End, Change
  <2>5. cur' \in [Brokers -> Conns \cup {Nil}]
    <3>1. CASE Attach(k)
      BY <1>t, <2>2, <3>1, Zenon DEF Attach, TypeOK
    <3>2. CASE Release(k)
      BY <1>t, <3>2, Zenon DEF Release, TypeOK
    <3>3. CASE Restore(k) \/ Acknowledge(k) \/ End(k) \/ \E f \in Filters : Change(k, f)
      <4>1. cur' = cur
        BY <3>3, Zenon DEF Restore, Acknowledge, End, Change
      <4>2. QED
        BY <1>c, <4>1, Zenon
    <3>4. QED
      BY <1>9, <3>1, <3>2, <3>3, Zenon
  <2>6. /\ to \in PCs \ (Claiming \cup {"bind", "attach"}) /\ pc[k] # "new" /\ pc[k] # "done"
        /\ obj[k] # Nil
    BY <2>1, <2>2, RecFacts, Zenon DEF PCs, Claiming, Bound, Nil
  <2>7. QED
    BY <1>b, <2>3, <2>4, <2>5, <2>6, Zenon
<1>10. ASSUME NEW k \in Conns, Checkpoint(k) \/ Due(k) PROVE Goal
  BY <1>10, <1>a, <1>c, Zenon DEF Checkpoint, Due, connVars
<1>11. ASSUME NEW b \in Brokers, LateCopy(b) \/ SetBack(b) \/ SweepSessions(b)
                \/ SweepRead(b) \/ SweepDelete(b) \/ \E r \in news[b] : OnUpdate(b, r)
       PROVE  Goal
  <2>1. UNCHANGED <<pc, at, obj, got>>
    BY <1>11, Zenon DEF LateCopy, SetBack, SweepSessions, SweepRead, SweepDelete, OnUpdate, connVars
  <2>2. cur' = cur \/ cur' = [cur EXCEPT ![b] = Nil]
    BY <1>11, Zenon DEF LateCopy, SetBack, SweepSessions, SweepRead, SweepDelete, OnUpdate, sessVars
  <2>3. cur' \in [Brokers -> Conns \cup {Nil}]
    BY <1>t, <2>2, Zenon DEF TypeOK
  <2>4. QED
    BY <1>a, <2>1, <2>3, Zenon
<1>12. ASSUME NEW b \in Brokers, Kill(b) PROVE Goal
  <2>1. UNCHANGED <<at, obj, got>> /\ cur' = [cur EXCEPT ![b] = Nil]
    BY <1>12, Zenon DEF Kill
  <2>2. pc' = [k \in Conns |->
                 IF at[k] = b /\ pc[k] \notin {"done", "refused"} THEN "dead" ELSE pc[k]]
    BY <1>12, Zenon DEF Kill
  <2>3. ConnTyped
    BY <1>t, <2>1, <2>2, Zenon DEF ConnTyped, TypeOK, PCs
  <2>4. \A j \in Conns :
          pc'[j] = pc[j] \/ (pc'[j] = "dead" /\ pc[j] # "done" /\ at[j] = b)
    BY <1>t, <2>2, Zenon DEF TypeOK
  <2>5. ASSUME NEW j \in Conns PROVE ConnMoves(j)
    BY <1>t, <2>1, <2>4, Zenon DEF ConnMoves, ClaimsHeld, Claiming, Bound
  <2>6. QED
    BY <2>3, <2>5, Zenon
<1>13. ASSUME RecordDue \/ UNCHANGED vars PROVE Goal
  BY <1>13, <1>a, <1>c, Zenon DEF RecordDue, vars, connVars, sessVars
<1>14. QED
  BY <1>1, <1>2, <1>4, <1>6, <1>7, <1>8, <1>9, <1>10, <1>11, <1>12, <1>13, NextCases, Zenon

\* The steps that change what a broker is about to sweep.
LEMMA SweepActs ==
  ASSUME [Next]_vars
  PROVE  \/ swept' = swept
         \/ \E b \in Brokers :
               \/ SweepRead(b) /\ swept' = [swept EXCEPT ![b] = kv.rev] /\ kv' = kv
               \/ SweepDelete(b) /\ swept' = [swept EXCEPT ![b] = 0]
               \/ swept' = [swept EXCEPT ![b] = 0] /\ kv' = kv
<1>1. ASSUME NEW b \in Brokers, SweepRead(b)
      PROVE  swept' = [swept EXCEPT ![b] = kv.rev] /\ kv' = kv
  BY <1>1, Zenon DEF SweepRead, bucket
<1>2. ASSUME NEW b \in Brokers, SweepDelete(b) PROVE swept' = [swept EXCEPT ![b] = 0]
  BY <1>2, Zenon DEF SweepDelete
<1>3. ASSUME NEW b \in Brokers, Kill(b) PROVE swept' = [swept EXCEPT ![b] = 0] /\ kv' = kv
  BY <1>3, Zenon DEF Kill, bucket
<1>4. QED
  BY <1>1, <1>2, <1>3, Frame, Zenon

\* What the sweep and a kill leave of a sweep's judgement.
LEMMA SweepSteps ==
  ASSUME SInv, [Next]_vars
  PROVE  /\ up' \subseteq up
         /\ swept' \in [Brokers -> Nat] /\ faults' \in Nat
         /\ failed \subseteq failed' \/ kv'.rev = last + 1
         /\ \A b \in Brokers : swept'[b] \in {swept[b], 0} \/ SweepRead(b)
<1>t. TypeOK
  BY Zenon DEF SInv
<1>1. up' \subseteq up
  BY Frame, Zenon DEF Kill
<1>2. failed \subseteq failed' \/ kv'.rev = last + 1
  <2>1. ASSUME NEW k \in Conns, ClaimCreate(k) PROVE failed \subseteq failed' \/ kv'.rev = last + 1
    BY <1>t, <2>1, ClaimTyped, PutTyped, Zenon DEF ClaimCreate
  <2>2. ASSUME NEW k \in Conns, Restore(k) \/ Acknowledge(k) PROVE failed \subseteq failed'
    BY <2>2, Zenon DEF Restore, Acknowledge, Persist
  <2>3. ASSUME NEW k \in Conns, Release(k) \/ Checkpoint(k) PROVE failed \subseteq failed'
    BY <2>3, Zenon DEF Release, Checkpoint
  <2>4. ASSUME NEW b \in Brokers, SweepRead(b) PROVE failed \subseteq failed'
    BY <2>4, Zenon DEF SweepRead
  <2>5. QED
    BY <2>1, <2>2, <2>3, <2>4, Frame, Zenon
<1>3. \/ swept' = swept
      \/ \E b \in Brokers : \/ SweepRead(b) /\ swept' = [swept EXCEPT ![b] = kv.rev]
                            \/ swept' = [swept EXCEPT ![b] = 0]
  BY SweepActs, Zenon
<1>4. swept' \in [Brokers -> Nat] /\ \A b \in Brokers : swept'[b] \in {swept[b], 0} \/ SweepRead(b)
  <2>1. CASE swept' = swept
    BY <1>t, <2>1, Zenon DEF TypeOK
  <2>2. ASSUME NEW b \in Brokers, swept' = [swept EXCEPT ![b] = 0]
        PROVE  swept' \in [Brokers -> Nat] /\ \A c \in Brokers : swept'[c] \in {swept[c], 0}
    BY <1>t, <2>2, Zenon DEF TypeOK
  <2>3. ASSUME NEW b \in Brokers, SweepRead(b), swept' = [swept EXCEPT ![b] = kv.rev]
        PROVE  swept' \in [Brokers -> Nat]
               /\ \A c \in Brokers : swept'[c] \in {swept[c], 0} \/ SweepRead(c)
    <3>1. kv.rev \in Nat
      BY <1>t, <2>3, Zenon DEF TypeOK, SweepRead, Rec
    <3>2. \A c \in Brokers : c # b => swept'[c] = swept[c]
      BY <1>t, <2>3, Zenon DEF TypeOK
    <3>3. QED
      BY <1>t, <2>3, <3>1, <3>2, Zenon DEF TypeOK
  <2>4. QED
    BY <1>3, <2>1, <2>2, <2>3, Zenon
<1>5. faults' \in Nat
  <2>1. faults \in Nat
    BY <1>t, Zenon DEF TypeOK
  <2>2. ASSUME NEW r, NEW w \in Outcomes(r), faults' = faults + w.fault PROVE faults' \in Nat
    BY <2>1, <2>2, OutcomeFacts
  <2>3. ASSUME NEW k \in Conns, ClaimUpdate(k) PROVE faults' \in Nat
    <3>1. PICK a \in ownerAlive(got[k].owner), w \in Outcomes(got[k].rev) :
            faults' = faults + a.fault + w.fault
      BY <2>3, Zenon DEF ClaimUpdate
    <3>2. a.fault \in {0, 1} /\ w.fault \in {0, 1}
      BY OwnerFacts, OutcomeFacts, Zenon
    <3>3. QED
      BY <2>1, <3>1, <3>2
  <2>4. ASSUME NEW b \in Brokers, SweepRead(b) PROVE faults' \in Nat
    <3>1. PICK a \in ownerAlive(kv.owner) : faults' = faults + a.fault
      BY <2>4, Zenon DEF SweepRead
    <3>2. QED
      BY <2>1, <3>1, OwnerFacts
  <2>5. ASSUME NEW k \in Conns, ClaimDelete(k) \/ Checkpoint(k) \/ Release(k)
        PROVE  faults' \in Nat
    BY <2>2, <2>5, Zenon DEF ClaimDelete, Checkpoint, Release
  <2>6. ASSUME NEW k \in Conns, Restore(k) \/ Acknowledge(k) PROVE faults' \in Nat
    <3>1. Persist(k) => faults' \in Nat
      BY <2>1, <2>2, Zenon DEF Persist
    <3>2. Persist(k) \/ faults' = faults \/ faults' = faults + 1
      BY <2>6, Zenon DEF Restore, Acknowledge
    <3>3. QED
      BY <2>1, <3>1, <3>2, SMTT(60)
  <2>7. ASSUME NEW b \in Brokers, LateCopy(b) PROVE faults' \in Nat
    BY <2>2, <2>7, Zenon DEF LateCopy
  <2>8. QED
    BY <2>1, <2>3, <2>4, <2>5, <2>6, <2>7, Frame
<1>6. QED
  BY <1>1, <1>2, <1>4, <1>5, Zenon

\* Every step keeps the invariant.
LEMMA StepInv == SInv /\ [Next]_vars => SInv'
<1> SUFFICES ASSUME SInv, [Next]_vars PROVE SInv'
  BY Zenon
<1>t. TypeOK /\ ClaimsHeld /\ RecordShape /\ Judged /\ SweptOld /\ CopiesFaithful
  BY Zenon DEF SInv
<1>1. BucketStep /\ SessSteps
  BY StepEffects, Zenon
<1>2. ConnTyped /\ \A k \in Conns : ConnMoves(k)
  BY ConnSteps, Zenon
<1>3. /\ CopiesFaithful' /\ kv' \in Rec \cup {NoRec} /\ last' \in Nat /\ last <= last'
      /\ last \in Nat
  BY <1>t, CopiesStay, Zenon DEF TypeOK
<1>4. TypeOK'
  BY <1>t, <1>1, <1>2, <1>3, GotSteps, SweepSteps, Zenon DEF TypeOK, ConnTyped, SessSteps
<1>5. Settled \subseteq Settled'
  BY <1>2, Zenon DEF Settled, ConnMoves, Claiming
<1>6. ClaimsHeld'
  <2> SUFFICES ASSUME NEW k \in Conns
               PROVE  /\ pc'[k] \in {"delete", "update"} => got'[k] # NoRec
                      /\ pc'[k] = "bind" => got'[k] # NoRec /\ got'[k].by = k
                      /\ pc'[k] \in Bound => obj'[k] # Nil
                      /\ sess'[k].gen # Nil => /\ sess'[k].rec # NoRec
                                               /\ sess'[k].rec.by = sess'[k].gen
                                               /\ sess'[k].gen \in Settled'
    BY Zenon DEF ClaimsHeld
  <2>1. ConnMoves(k) /\ SessStep(k)
    BY <1>1, <1>2, Zenon DEF SessSteps
  <2>2. \A j \in Conns : pc[j] = "bind" => got[j] # NoRec /\ got[j].by = j /\ j \in Settled
    BY <1>t, Zenon DEF ClaimsHeld, Settled
  <2>3. sess[k].gen # Nil => /\ sess[k].rec # NoRec /\ sess[k].rec.by = sess[k].gen
                             /\ sess[k].gen \in Settled
    BY <1>t, Zenon DEF ClaimsHeld
  <2>4. sess'[k].gen # Nil => /\ sess'[k].rec # NoRec /\ sess'[k].rec.by = sess'[k].gen
                              /\ sess'[k].gen \in Settled'
    BY <1>5, <2>1, <2>2, <2>3, Zenon DEF SessStep
  <2>5. QED
    BY <2>1, <2>4, Zenon DEF ConnMoves
<1>7. RecordShape'
  <2>1. CASE Kept
    <3>1. kv' # NoRec => /\ kv # NoRec /\ kv'.by = kv.by /\ kv'.owner = kv.owner
                         /\ kv'.attached = kv.attached /\ kv'.pos = kv.pos /\ kv.by \in Conns
      BY <1>t, <2>1, Zenon DEF TypeOK, Kept, Rec
    <3>2. kv # NoRec => /\ pc[kv.by] # "new" => pc'[kv.by] # "new" /\ at'[kv.by] = at[kv.by]
                        /\ pc[kv.by] = "done" => pc'[kv.by] = "done"
      BY <1>t, <1>2, Zenon DEF ConnMoves, TypeOK, Rec
    <3>3. QED
      BY <1>t, <3>1, <3>2, Zenon DEF RecordShape
  <2>2. ASSUME NEW k \in Conns, Taken(k) PROVE RecordShape'
    BY <1>2, <2>2, Zenon DEF Taken, Wrote, RecordShape, ConnMoves
  <2>3. ASSUME NEW k \in Conns, Written(k) PROVE RecordShape'
    <3>1. /\ kv # NoRec /\ kv.by = k /\ kv'.by = k /\ kv'.owner = kv.owner
          /\ ~kv'.attached => kv'.pos = k /\ pc'[k] = "done"
      BY <2>3, Zenon DEF Written, Wrote
    <3>2. pc[k] # "new" /\ kv.owner = at[k]
      BY <1>t, <3>1, Zenon DEF RecordShape
    <3>3. pc'[k] # "new" /\ at'[k] = at[k]
      BY <1>2, <3>2, Zenon DEF ConnMoves
    <3>4. QED
      BY <3>1, <3>2, <3>3, Zenon DEF RecordShape
  <2>4. CASE Removed
    BY <2>4, Zenon DEF Removed, RecordShape
  <2>5. QED
    BY <1>1, <2>1, <2>2, <2>3, <2>4, Zenon DEF BucketStep
<1>8. SweptOld'
  <2> SUFFICES ASSUME NEW b \in Brokers PROVE swept'[b] <= last'
    BY Zenon DEF SweptOld
  <2>1. swept[b] \in Nat /\ swept[b] <= last
    BY <1>t, Zenon DEF TypeOK, SweptOld
  <2>2. CASE swept'[b] \in {swept[b], 0}
    BY <1>3, <2>1, <2>2
  <2>3. CASE SweepRead(b)
    <3>1. swept'[b] = kv.rev /\ kv # NoRec
      BY <1>t, <2>3, Zenon DEF SweepRead, TypeOK
    <3>2. kv.rev \in Nat /\ kv.rev <= last
      BY <1>t, <3>1, Zenon DEF CopiesFaithful, TypeOK, Rec
    <3>3. QED
      BY <1>3, <3>1, <3>2
  <2>4. QED
    BY <2>2, <2>3, SweepSteps, Zenon
<1>9. Judged'
  <2> SUFFICES ASSUME "sweep" \notin failed', NEW b \in Brokers,
                      kv' # NoRec, swept'[b] # 0, kv'.rev = swept'[b]
               PROVE  ~kv'.attached \/ kv'.owner \notin up'
    BY Zenon DEF Judged
  <2>1. CASE SweepRead(b)
    <3>1. kv' = kv /\ up' = up
      BY <2>1, Zenon DEF SweepRead, bucket
    <3>2. PICK a \in ownerAlive(kv.owner) :
             reclaimable(b, a.alive) /\ failed' = failed \cup IF a.fault = 1 THEN {"sweep"} ELSE {}
      BY <2>1, Zenon DEF SweepRead
    <3>3. a.fault = 0
      BY <3>2, OwnerFacts, Zenon
    <3>4. a.alive <=> kv.owner \in up
      BY <3>3, OwnerFacts, Zenon
    <3>5. QED
      BY <3>1, <3>2, <3>4, Zenon DEF reclaimable, resumable
  <2>2. CASE ~SweepRead(b)
    <3>1. swept'[b] = swept[b]
      BY <2>2, SweepSteps, Zenon
    <3>2. swept[b] \in Nat /\ swept[b] <= last
      BY <1>t, Zenon DEF TypeOK, SweptOld
    <3>3. kv'.rev # last + 1
      BY <1>3, <3>1, <3>2, SMTT(60)
    <3>4. Kept
      BY <1>1, <3>3, Zenon DEF BucketStep, Taken, Written, Wrote, Removed
    <3>5. kv # NoRec /\ kv'.rev = kv.rev /\ kv'.owner = kv.owner /\ kv'.attached = kv.attached
      BY <1>t, <3>4, Zenon DEF TypeOK, Kept, Rec
    <3>6. "sweep" \notin failed /\ up' \subseteq up
      BY <3>3, SweepSteps, Zenon
    <3>7. QED
      BY <1>t, <3>1, <3>5, <3>6, Zenon DEF Judged
  <2>3. QED
    BY <2>1, <2>2, Zenon
<1>10. QED
  BY <1>3, <1>4, <1>6, <1>7, <1>8, <1>9, Zenon DEF SInv

\* The invariant the results rest on: the copies brokers hold of the record are
\* the record while the bucket's revision is the one they hold, and the record is
\* as its owner, or the release, left it (sessionstore.go).
THEOREM StoreInvariant == Spec => []SInv
<1>1. QED
  BY InitInv, StepInv, PTL DEF Spec

----------------------------------------------------------------------------
(* The results. *)

\* reclaimable and sweep: the sweep never deletes the record of a session that is
\* being served, unless the answer of a broker that runs was lost.
THEOREM SweepIsSafe == Spec => SweepSpares
<1>1. SInv /\ [Next]_vars =>
        [\A b \in Brokers :
           swept'[b] # swept[b] /\ kv # NoRec /\ kv' = NoRec /\ "sweep" \notin failed
              => ~kv.attached \/ kv.owner \notin up]_vars
  <2> SUFFICES ASSUME SInv, [Next]_vars, NEW b \in Brokers,
                      swept'[b] # swept[b], kv # NoRec, kv' = NoRec, "sweep" \notin failed
               PROVE  ~kv.attached \/ kv.owner \notin up
    BY Zenon
  <2>t. TypeOK /\ Judged
    BY Zenon DEF SInv
  <2>1. SweepDelete(b)
    <3>1. PICK c \in Brokers : SweepDelete(c) /\ swept' = [swept EXCEPT ![c] = 0]
      BY SweepActs, Zenon
    <3>2. c = b
      BY <2>t, <3>1, Zenon DEF TypeOK
    <3>3. QED
      BY <3>1, <3>2, Zenon
  <2>2. swept[b] # 0 /\ kv.rev = swept[b]
    BY <2>1, Zenon DEF SweepDelete, AtRevision, bucket
  <2>3. QED
    BY <2>t, <2>2, Zenon DEF Judged
<1>2. QED
  BY <1>1, StoreInvariant, PTL DEF Spec, SweepSpares

\* A claim that ends in "bind" from "update" is the update of claim.
LEMMA BindsByUpdate ==
  ASSUME TypeOK, [Next]_vars, NEW k \in Conns, pc[k] = "update", pc'[k] = "bind"
  PROVE  ClaimUpdate(k)
<1>1. ASSUME NEW j \in Conns, NEW to, Goes(j, to) PROVE j = k /\ to = "bind"
  BY <1>1, Zenon DEF TypeOK, Goes
<1>2. pc' # pc
  BY Zenon
<1>3. ~ \E b \in Brokers : Kill(b)
  BY Zenon DEF Kill, TypeOK
<1>4. ASSUME NEW j \in Conns, ClaimDelete(j) \/ ClaimCreate(j) PROVE FALSE
  BY <1>1, <1>4, Zenon DEF ClaimDelete, ClaimCreate, Again
<1>5. ASSUME NEW j \in Conns, ClaimGet(j) \/ Bind(j) \/ Attach(j) \/ Restore(j)
               \/ Acknowledge(j) \/ Release(j) \/ End(j)
               \/ (\E f \in Filters : Change(j, f))
               \/ \E b \in Brokers, cs \in BOOLEAN : TakeOver(j, b, cs)
      PROVE  FALSE
  BY <1>1, <1>5, Zenon DEF ClaimGet, Bind, Attach, Restore, Acknowledge, Release, End, Change, TakeOver
<1>6. ASSUME NEW j \in Conns, ClaimUpdate(j) PROVE j = k
  BY <1>1, <1>6, Zenon DEF ClaimUpdate, Again
<1>7. ~ \/ \E j \in Conns : Checkpoint(j) \/ Due(j)
        \/ \E b \in Brokers : \/ LateCopy(b) \/ SetBack(b) \/ SweepSessions(b) \/ SweepRead(b)
                              \/ SweepDelete(b) \/ \E r \in news[b] : OnUpdate(b, r)
        \/ RecordDue \/ UNCHANGED vars
  BY <1>2, Zenon DEF Checkpoint, Due, LateCopy, SetBack, SweepSessions, SweepRead, SweepDelete,
     OnUpdate, RecordDue, vars, connVars
<1>8. QED
  BY <1>3, <1>4, <1>5, <1>6, <1>7, NextCases, Zenon

\* The position a claim resumes from (claim): it is the record's only when the
\* broker that held the record is this one, or does not run, or its connection
\* wrote the position when it ended.
THEOREM PositionIsFresh == Spec => NoStalePosition
<1> DEFINE Fresher(k) ==
        pc[k] = "update" /\ pc'[k] = "bind" /\ failed = {} /\ faults' = faults
        /\ kv'.pos # 0 =>
            \/ at[kv.by] = at[k]
            \/ at[kv.by] \notin up
            \/ pc[kv.by] = "done" /\ kv'.pos = kv.by
<1>1. SInv /\ [Next]_vars => [\A k \in Conns : Fresher(k)]_vars
  <2> SUFFICES ASSUME SInv, [Next]_vars, NEW k \in Conns, pc[k] = "update", pc'[k] = "bind",
                      faults' = faults, kv'.pos # 0
               PROVE  \/ at[kv.by] = at[k] \/ at[kv.by] \notin up
                      \/ pc[kv.by] = "done" /\ kv'.pos = kv.by
    BY Zenon
  <2>t. TypeOK /\ ClaimsHeld /\ CopiesFaithful /\ RecordShape
    BY Zenon DEF SInv
  <2>1. ClaimUpdate(k)
    BY <2>t, BindsByUpdate, Zenon
  <2>2. PICK a \in ownerAlive(got[k].owner), w \in Outcomes(got[k].rev) :
          /\ faults' = faults + a.fault + w.fault
          /\ w.applied => Put(Claimed(k, got[k], a.alive))
          /\ ~w.ok => Again(k)
    BY <2>1, Zenon DEF ClaimUpdate
  <2>3. w.ok /\ w.applied
    <3>1. ~Again(k)
      BY <2>t, Zenon DEF Again, Goes, TypeOK
    <3>2. QED
      BY <2>2, <3>1, OutcomeFacts, Zenon
  <2>4. a.fault = 0
    BY <2>2, <2>t, OwnerFacts, OutcomeFacts DEF TypeOK
  <2>5. kv # NoRec /\ kv.rev = got[k].rev /\ got[k] # NoRec
    BY <2>3, <2>1, <2>t, OutcomeFacts, Zenon DEF ClaimUpdate, ClaimsHeld
  <2>6. got[k].attached = kv.attached /\ got[k].owner = kv.owner /\ got[k].pos = kv.pos
    BY <2>5, <2>t, Zenon DEF CopiesFaithful, Faithful, Same
  <2>7. kv'.pos = position(got[k], at[k], a.alive)
    <3>1. a.alive \in BOOLEAN /\ Put(Claimed(k, got[k], a.alive))
      BY <2>2, <2>3, OwnerFacts, Zenon
    <3>2. /\ Claimed(k, got[k], a.alive) \in Rec
          /\ Claimed(k, got[k], a.alive).pos = position(got[k], at[k], a.alive)
      BY <2>5, <2>t, <3>1, ClaimTyped, Zenon
    <3>3. QED
      BY <2>t, <3>1, <3>2, PutTyped, Zenon
  <2>8. CASE ~kv.attached
    BY <2>5, <2>6, <2>7, <2>8, <2>t, Zenon DEF position, RecordShape
  <2>9. CASE kv.attached
    <3>1. a.alive <=> kv.owner \in up
      BY <2>4, <2>6, OwnerFacts, Zenon
    <3>2. kv.owner = at[k] \/ kv.owner \notin up
      BY <2>6, <2>7, <2>9, <3>1, Zenon DEF position
    <3>3. QED
      BY <2>5, <2>t, <3>2, Zenon DEF RecordShape
  <2>10. QED
    BY <2>8, <2>9, SMTT(60)
<1>2. QED
  BY <1>1, StoreInvariant, PTL DEF Spec, NoStalePosition

\* The bucket's promise (claim, commitRecord, releaseStoredSession): the record is
\* held by one connection at a time, and whoever lost it never writes it again.
THEOREM StoreImplements == Spec => Implements
<1>1. Init => Stored!Init
  <2> SUFFICES ASSUME Init PROVE Stored!Init
    BY Zenon
  <2>1. kv = NoRec /\ kv.by = 0
    BY RecFacts, Zenon DEF Init
  <2>2. Settled = {}
    BY Zenon DEF Init, Settled
  <2>3. QED
    BY <2>1, <2>2, Zenon DEF Stored!Init
<1>2. SInv /\ [Next]_vars => [Stored!Next]_(Stored!vars)
  <2> SUFFICES ASSUME SInv, [Next]_vars PROVE Stored!Next
    BY Zenon
  <2>t. TypeOK
    BY Zenon DEF SInv
  <2>1. BucketStep
    BY StepEffects, Zenon
  <2>2. Settled \subseteq Settled'
    BY ConnSteps, Zenon DEF Settled, ConnMoves, Claiming
  <2>3. ASSUME NEW k \in Conns, Taken(k) PROVE Stored!Claim(k)
    <3>1. kv' # NoRec /\ kv'.by = k /\ kv'.attached
      BY <2>3, RecFacts, Zenon DEF Taken, Wrote
    <3>2. kv.by = 0 <=> kv = NoRec
      BY <2>t, RecFacts, Zenon DEF TypeOK, Rec
    <3>3. kv'.subs = IF kv = NoRec THEN {} ELSE kv.subs
      BY <2>3, Zenon DEF Taken
    <3>4. k \in Conns \ Settled
      BY <2>3, Zenon DEF Taken
    <3>5. QED
      BY <3>1, <3>2, <3>3, <3>4, Zenon DEF Stored!Claim
  <2>4. ASSUME NEW k \in Conns, Written(k) PROVE Stored!Write(k)
    <3>1. kv # NoRec /\ kv' # NoRec /\ kv'.by = k /\ kv.by = k /\ k \in Settled
      BY <2>4, RecFacts, Zenon DEF Written, Wrote
    <3>2. kv'.attached => kv.attached
      BY <2>4, Zenon DEF Written
    <3>3. kv'.subs \in SUBSET Filters
      BY <2>4, Zenon DEF Written, Wrote, Rec
    <3>4. QED
      BY <3>1, <3>2, <3>3, Zenon DEF Stored!Write
  <2>5. CASE Removed
    <3>1. kv.by # 0 /\ kv'.by = 0 /\ kv' = NoRec
      BY <2>5, <2>t, RecFacts, Zenon DEF Removed, TypeOK, Rec
    <3>2. QED
      BY <3>1, <2>2, Zenon DEF Stored!Next, Stored!Remove
  <2>6. CASE Kept
    <3>1. CASE kv' = kv
      BY <2>2, <3>1, Zenon DEF Stored!Next
    <3>2. CASE kv # NoRec /\ kv' = [kv EXCEPT !.expired = TRUE]
      <4>1. kv \in Rec /\ kv' \in Rec /\ kv'.by = kv.by /\ kv'.attached = kv.attached
              /\ kv'.subs = kv.subs
        BY <2>t, <3>2, Zenon DEF TypeOK, Rec
      <4>2. kv' # NoRec
        BY <4>1, RecFacts, Zenon
      <4>3. QED
        BY <2>2, <3>2, <4>1, <4>2, Zenon DEF Stored!Next
    <3>3. QED
      BY <2>6, <3>1, <3>2, Zenon DEF Kept
  <2>7. QED
    BY <2>1, <2>2, <2>3, <2>4, <2>5, <2>6, Zenon DEF BucketStep, Stored!Next
<1>3. QED
  BY <1>1, <1>2, StoreInvariant, PTL DEF Spec, Implements, Stored!Spec

----------------------------------------------------------------------------
(* Of two brokers that race for the client, one goes on serving it. *)

Live == {"bind", "attach", "restore", "open", "ack"}
Served == {"restore", "open", "ack"}

\* The claim with the bucket's largest revision, and the broker that made it.
IsLast(r, d) == r \in claims[d] /\ \A c \in Brokers : \A s \in claims[c] : s <= r

ClaimsTyped ==
    /\ claims \in [Brokers -> SUBSET Nat] /\ news \in [Brokers -> SUBSET Nat]
    /\ \A b \in Brokers : \A r \in claims[b] : r <= last
    /\ \A k \in Conns : pc[k] # "new" => at[k] \in Brokers
    /\ \A k \in Conns : pc[k] \in Live => claims[at[k]] # {}
    /\ (\E b \in Brokers : claims[b] # {}) => \E d \in Brokers, r \in Nat : IsLast(r, d)

\* A connection, its session object and the claim that is bound to it are of one
\* broker.
OneBroker ==
    /\ \A k \in Conns : obj[k] # Nil =>
          pc[k] # "new" /\ pc[obj[k]] # "new" /\ at[obj[k]] = at[k]
    /\ \A b \in Brokers : cur[b] # Nil => pc[cur[b]] # "new" /\ at[cur[b]] = b
    /\ \A k \in Conns : pc[k] = "bind" => got[k].owner = at[k]
    /\ \A o \in Conns : sess[o].gen # Nil =>
          pc[o] # "new" /\ at[sess[o].gen] = at[o] /\ sess[o].rec.owner = at[o]

\* A session object serves one connection: the others it served were closed.
OneAttached ==
    \A k \in Conns : pc[k] \in Served /\ k \notin shut => sess[obj[k]].conn = k

\* What was written since the last claim is the claimant's.
LastHolds ==
    \A d \in Brokers, r \in Nat : IsLast(r, d) =>
        /\ kv # NoRec => kv.owner = d
        /\ \A k \in Conns :
              /\ got[k] # NoRec /\ r <= got[k].rev => got[k].owner = d
              /\ sess[k].rec # NoRec /\ r <= sess[k].rec.rev => sess[k].rec.owner = d

\* A connection that another broker's claim has overtaken is yet to be told, unless
\* its session was not registered when the watcher came by.
Overtaken(k, d) ==
    /\ at[k] # d /\ k \notin missed /\ at[k] \in up
    /\ \/ pc[k] \in {"bind", "attach"}
       \/ pc[k] \in Served /\ cur[at[k]] = obj[k] /\ k \notin shut
ToldLater ==
    \A d \in Brokers, r \in Nat : IsLast(r, d) =>
        \A k \in Conns : Overtaken(k, d) => r \in news[at[k]]

RaceInv == ClaimsTyped /\ OneBroker /\ OneAttached /\ LastHolds /\ ToldLater

\* A revision past one that supersedes another is past the other.
LEMMA PastF == \A a, b, c \in Nat : ~(a <= b) /\ b >= c => a > c
  OBVIOUS

\* What the steps do to where a connection is, to its session object, to what a
\* broker has registered and to what its watcher is yet to be told.
NewsLeft == \E b \in Brokers : \E r \in news[b] : OnUpdate(b, r)
NewsMore ==
    /\ missed' = missed
    /\ \/ news' = news \/ \E b \in Brokers : Tell(b)
       \/ \E b, c \in Brokers : \E r \in claims[c] : news' = [news EXCEPT ![b] = @ \cup {r}]
Placed ==
    \/ at' = at /\ obj' = obj
    \/ \E k \in Conns, b \in Brokers :
          /\ pc[k] = "new" /\ at' = [at EXCEPT ![k] = b] /\ pc' = [pc EXCEPT ![k] = "get"]
          /\ obj' = obj \/ (cur[b] # Nil /\ obj' = [obj EXCEPT ![k] = cur[b]])
    \/ \E k \in Conns :
          /\ pc[k] = "bind" /\ at' = at
          /\ obj' = [obj EXCEPT ![k] = IF obj[k] = Nil THEN k ELSE obj[k]]
Unregisters == cur' = cur \/ \E b \in Brokers : cur' = [cur EXCEPT ![b] = Nil]
ConnKept == \A o \in Conns : sess'[o].conn = sess[o].conn

\* The same, step by step.
LEMMA PlaceSteps ==
  ASSUME [Next]_vars
  PROVE  Placed
<1>1. ASSUME NEW k \in Conns, NEW b \in Brokers, NEW cs \in BOOLEAN, TakeOver(k, b, cs)
      PROVE  Placed
  BY <1>1, Zenon DEF TakeOver, Goes, Placed
<1>2. ASSUME NEW k \in Conns, Bind(k) PROVE Placed
  <2>1. /\ pc[k] = "bind" /\ at' = at
        /\ obj' = [obj EXCEPT ![k] = IF obj[k] = Nil THEN k ELSE obj[k]]
    BY <1>2, Zenon DEF Bind
  <2>2. QED
    BY <2>1, Zenon DEF Placed
<1>3. ASSUME NEW k \in Conns,
             ClaimGet(k) \/ ClaimDelete(k) \/ ClaimCreate(k) \/ ClaimUpdate(k) \/ Attach(k)
      PROVE  Placed
  BY <1>3, Zenon DEF ClaimGet, ClaimDelete, ClaimCreate, ClaimUpdate, Attach, Placed
<1>4. ASSUME NEW k \in Conns,
             \/ Restore(k) \/ Acknowledge(k) \/ Release(k) \/ Checkpoint(k) \/ End(k)
             \/ Due(k) \/ \E f \in Filters : Change(k, f)
      PROVE  Placed
  BY <1>4, Zenon DEF Restore, Acknowledge, Release, Checkpoint, End, Due, Change, connVars, Placed
<1>5. ASSUME NEW b \in Brokers,
             \/ LateCopy(b) \/ SetBack(b) \/ SweepSessions(b) \/ SweepRead(b)
             \/ SweepDelete(b) \/ Kill(b) \/ \E r \in news[b] : OnUpdate(b, r)
      PROVE  Placed
  BY <1>5, Zenon DEF LateCopy, SetBack, SweepSessions, SweepRead, SweepDelete, Kill, OnUpdate,
              connVars, Placed
<1>6. ASSUME RecordDue \/ UNCHANGED vars PROVE Placed
  BY <1>6, Zenon DEF RecordDue, vars, connVars, Placed
<1>7. QED
  BY <1>1, <1>2, <1>3, <1>4, <1>5, <1>6, NextCases, Zenon

\* A watcher is told of every claim, and forgets only what it has acted on.
LEMMA NewsSteps ==
  ASSUME TypeOK, [Next]_vars, \A k \in Conns : pc[k] # "new" => at[k] \in Brokers
  PROVE  NewsLeft \/ NewsMore
<1>1. ASSUME NEW k \in Conns, NEW b \in Brokers, NEW cs \in BOOLEAN, TakeOver(k, b, cs)
      PROVE  NewsMore
  BY <1>1, Zenon DEF TakeOver, bucket, NewsMore
<1>2. ASSUME NEW k \in Conns, ClaimCreate(k) \/ ClaimUpdate(k) PROVE NewsMore
  <2>1. at[k] \in Brokers
    BY <1>2, Zenon DEF ClaimCreate, ClaimUpdate
  <2>2. missed' = missed /\ (news' = news \/ Tell(at[k]))
    BY <1>2, Zenon DEF ClaimCreate, ClaimUpdate, bucket
  <2>3. QED
    BY <2>1, <2>2, Zenon DEF NewsMore
<1>3. ASSUME NEW k \in Conns, ClaimGet(k) \/ ClaimDelete(k) \/ Bind(k) \/ Attach(k)
      PROVE  NewsMore
  BY <1>3, Zenon DEF ClaimGet, ClaimDelete, DeleteAt, Delete, Bind, Attach, bucket, NewsMore
<1>4. ASSUME NEW k \in Conns,
             \/ Restore(k) \/ Acknowledge(k) \/ Release(k) \/ Checkpoint(k) \/ End(k)
             \/ Due(k) \/ \E f \in Filters : Change(k, f)
      PROVE  NewsMore
  BY <1>4, Zenon DEF Restore, Acknowledge, Persist, Release, Checkpoint, End, Due, Change, Update,
              DeleteAt, Delete, bucket, NewsMore
<1>5. ASSUME NEW b \in Brokers,
             \/ LateCopy(b) \/ SweepSessions(b) \/ SweepRead(b) \/ SweepDelete(b) \/ Kill(b)
      PROVE  NewsMore
  BY <1>5, Zenon DEF LateCopy, SweepSessions, SweepRead, SweepDelete, Kill, Update, Delete, bucket,
              NewsMore
<1>6. ASSUME NEW b \in Brokers, SetBack(b) PROVE NewsMore
  BY <1>6, Zenon DEF SetBack, NewsMore
<1>7. ASSUME RecordDue \/ UNCHANGED vars PROVE NewsMore
  BY <1>7, Zenon DEF RecordDue, vars, bucket, NewsMore
<1>8. QED
  BY <1>1, <1>2, <1>3, <1>4, <1>5, <1>6, <1>7, NextCases, Zenon DEF NewsLeft

\* Only attach registers a session; a connection that was shut stays so.
LEMMA RegisterSteps ==
  ASSUME TypeOK, [Next]_vars
  PROVE  shut \subseteq shut' /\ (Unregisters \/ \E k \in Conns : Attach(k))
<1> DEFINE Goal == shut \subseteq shut' /\ Unregisters
<1>1. ASSUME NEW k \in Conns, NEW b \in Brokers, NEW cs \in BOOLEAN, TakeOver(k, b, cs)
      PROVE  Goal
  BY <1>1, Zenon DEF TakeOver, Unregisters
<1>2. ASSUME NEW k \in Conns,
             ClaimGet(k) \/ ClaimDelete(k) \/ ClaimCreate(k) \/ ClaimUpdate(k) \/ Bind(k)
      PROVE  Goal
  BY <1>2, Zenon DEF ClaimGet, ClaimDelete, ClaimCreate, ClaimUpdate, Bind, sessVars, Unregisters
<1>3. ASSUME NEW k \in Conns, Attach(k) PROVE shut \subseteq shut'
  BY <1>3, Zenon DEF Attach
<1>4. ASSUME NEW k \in Conns,
             \/ Restore(k) \/ Acknowledge(k) \/ Checkpoint(k) \/ End(k)
             \/ Due(k) \/ \E f \in Filters : Change(k, f)
      PROVE  Goal
  BY <1>4, Zenon DEF Restore, Acknowledge, Checkpoint, End, Due, Change, connVars, Unregisters
<1>5. ASSUME NEW k \in Conns, Release(k), at[k] \in Brokers PROVE Goal
  BY <1>5, Zenon DEF Release, Unregisters
<1>6. ASSUME NEW k \in Conns, Release(k) PROVE at[k] \in Brokers
  BY <1>6, Zenon DEF Release, TypeOK
<1>7. ASSUME NEW b \in Brokers,
             \/ LateCopy(b) \/ SetBack(b) \/ SweepSessions(b) \/ SweepRead(b)
             \/ SweepDelete(b) \/ Kill(b) \/ \E r \in news[b] : OnUpdate(b, r)
      PROVE  Goal
  BY <1>7, Zenon DEF LateCopy, SetBack, SweepSessions, SweepRead, SweepDelete, Kill, OnUpdate,
              connVars, sessVars, Unregisters
<1>8. ASSUME RecordDue \/ UNCHANGED vars PROVE Goal
  BY <1>8, Zenon DEF RecordDue, vars, connVars, sessVars, Unregisters
<1>9. QED
  BY <1>1, <1>2, <1>3, <1>4, <1>5, <1>6, <1>7, <1>8, NextCases, Zenon

\* Only attach and detach change which connection a session serves.
LEMMA ServeSteps ==
  ASSUME SInv, [Next]_vars
  PROVE  ConnKept \/ \E k \in Conns : Attach(k) \/ End(k)
<1>t. TypeOK /\ ClaimsHeld
  BY Zenon DEF SInv
<1>a. sess' = sess => ConnKept
  BY Zenon DEF ConnKept
<1>b. ASSUME NEW o \in Conns, NEW s, s.conn = sess[o].conn, sess' = [sess EXCEPT ![o] = s]
      PROVE  ConnKept
  BY <1>b, <1>t, Zenon DEF ConnKept, TypeOK
<1>c. ASSUME NEW o \in Conns
      PROVE  /\ discarded(sess[o]).conn = sess[o].conn
             /\ \A d : [sess[o] EXCEPT !.due = d].conn = sess[o].conn
             /\ \A d : [sess[o] EXCEPT !.subs = d].conn = sess[o].conn
             /\ \A d : [sess[o] EXCEPT !.rec = d].conn = sess[o].conn
             /\ [sess[o] EXCEPT !.subs = @ \cup sess[o].rest, !.rest = {}].conn = sess[o].conn
             /\ \A x, y, z : [sess[o] EXCEPT !.rec = x, !.gen = y, !.rest = z].conn = sess[o].conn
  BY <1>t, Zenon DEF TypeOK, Session, discarded
<1>d. ASSUME NEW o \in Conns, NEW w, sess' = commitRecord(o, w) PROVE ConnKept
  <2>1. CASE sess' = sess
    BY <1>a, <2>1, Zenon
  <2>2. CASE sess' = [sess EXCEPT ![o].rec = kv']
    BY <1>b, <1>c, <2>2, Zenon
  <2>3. QED
    BY <1>d, <2>1, <2>2, Zenon DEF commitRecord
<1>e. \A k \in Conns : pc[k] \in Bound => obj[k] \in Conns
  BY <1>t, BoundSession, Zenon
<1>f. \A b \in Brokers : cur[b] # Nil => cur[b] \in Conns
  BY <1>t, Zenon DEF TypeOK
<1>1. ASSUME NEW k \in Conns, NEW b \in Brokers, NEW cs \in BOOLEAN, TakeOver(k, b, cs)
      PROVE  ConnKept
  <2>1. \/ sess' = sess
        \/ cur[b] # Nil /\ sess' = [sess EXCEPT ![cur[b]] = discarded(@)]
        \/ cur[b] # Nil /\ sess' = [sess EXCEPT ![cur[b]].due = FALSE]
    BY <1>1, Zenon DEF TakeOver
  <2>2. CASE cur[b] # Nil /\ sess' = [sess EXCEPT ![cur[b]] = discarded(@)]
    BY <1>b, <1>c, <1>f, <2>2, Zenon
  <2>3. CASE cur[b] # Nil /\ sess' = [sess EXCEPT ![cur[b]].due = FALSE]
    BY <1>b, <1>c, <1>f, <2>3, Zenon
  <2>4. QED
    BY <1>a, <2>1, <2>2, <2>3, Zenon
<1>2. ASSUME NEW k \in Conns, ClaimGet(k) \/ ClaimDelete(k) \/ ClaimCreate(k) \/ ClaimUpdate(k)
      PROVE  ConnKept
  BY <1>2, <1>a, Zenon DEF ClaimGet, ClaimDelete, ClaimCreate, ClaimUpdate, sessVars
<1>3. ASSUME NEW k \in Conns, Bind(k) PROVE ConnKept
  <2>1. PICK o \in Conns : \E x, y, z :
            sess' = [sess EXCEPT ![o] = [sess[o] EXCEPT !.rec = x, !.gen = y, !.rest = z]]
    BY <1>3, <1>t, Zenon DEF Bind, TypeOK
  <2>2. PICK x, y, z :
            sess' = [sess EXCEPT ![o] = [sess[o] EXCEPT !.rec = x, !.gen = y, !.rest = z]]
    BY <2>1, Zenon
  <2>3. [sess[o] EXCEPT !.rec = x, !.gen = y, !.rest = z].conn = sess[o].conn
    BY <1>c
  <2>4. QED
    BY <1>b, <2>2, <2>3, Zenon
<1>4. ASSUME NEW k \in Conns, pc[k] \in Bound, Persist(k) PROVE ConnKept
  BY <1>4, <1>a, <1>d, <1>e, Zenon DEF Persist
<1>5. ASSUME NEW k \in Conns, Restore(k) PROVE ConnKept
  <2>1. pc[k] \in Bound /\ obj[k] \in Conns
    BY <1>5, <1>e, Zenon DEF Restore, Bound
  <2>2. \/ sess' = sess \/ Persist(k)
        \/ sess' = [sess EXCEPT ![obj[k]] = discarded(@)]
        \/ sess' = [sess EXCEPT ![obj[k]] =
                      [sess[obj[k]] EXCEPT !.subs = @ \cup sess[obj[k]].rest, !.rest = {}]]
    BY <1>5, Zenon DEF Restore
  <2>3. QED
    BY <1>a, <1>b, <1>c, <1>4, <2>1, <2>2, Zenon
<1>6. ASSUME NEW k \in Conns, Acknowledge(k) PROVE ConnKept
  BY <1>6, <1>4, Zenon DEF Acknowledge, Bound
<1>7. ASSUME NEW k \in Conns, Checkpoint(k) PROVE ConnKept
  BY <1>7, <1>d, <1>e, Zenon DEF Checkpoint, Bound
<1>8. ASSUME NEW k \in Conns, Release(k) PROVE ConnKept
  <2>1. obj[k] \in Conns
    BY <1>8, <1>e, Zenon DEF Release, Bound
  <2>2. \/ sess' = sess \/ \E w : sess' = commitRecord(obj[k], w)
        \/ sess' = [sess EXCEPT ![obj[k]] = discarded(@)]
    BY <1>8, Zenon DEF Release
  <2>3. QED
    BY <1>a, <1>b, <1>c, <1>d, <2>1, <2>2, Zenon
<1>9. ASSUME NEW k \in Conns, Due(k) \/ \E f \in Filters : Change(k, f) PROVE ConnKept
  <2>1. CASE Due(k)
    BY <1>b, <1>c, <2>1, Zenon DEF Due
  <2>2. ASSUME NEW f \in Filters, Change(k, f) PROVE ConnKept
    <3>1. obj[k] \in Conns
      BY <1>e, <2>2, Zenon DEF Change, Bound
    <3>2. sess' = sess \/ \E d : sess' = [sess EXCEPT ![obj[k]].subs = d]
      BY <2>2, Zenon DEF Change
    <3>3. QED
      BY <1>a, <1>b, <1>c, <3>1, <3>2, Zenon
  <2>3. QED
    BY <1>9, <2>1, <2>2, Zenon
<1>10. ASSUME NEW b \in Brokers, LateCopy(b) PROVE ConnKept
  BY <1>10, <1>d, <1>f, Zenon DEF LateCopy
<1>11. ASSUME NEW b \in Brokers, SweepSessions(b) \/ \E r \in news[b] : OnUpdate(b, r)
       PROVE  ConnKept
  <2>1. sess' = sess \/ (cur[b] # Nil /\ sess' = [sess EXCEPT ![cur[b]] = discarded(@)])
    BY <1>11, Zenon DEF SweepSessions, OnUpdate
  <2>2. QED
    BY <1>a, <1>b, <1>c, <1>f, <2>1, Zenon
<1>12. ASSUME NEW b \in Brokers, SetBack(b) \/ SweepRead(b) \/ SweepDelete(b) \/ Kill(b)
       PROVE  ConnKept
  BY <1>12, <1>a, Zenon DEF SetBack, SweepRead, SweepDelete, Kill, sessVars
<1>13. ASSUME RecordDue \/ UNCHANGED vars PROVE ConnKept
  BY <1>13, <1>a, Zenon DEF RecordDue, vars, sessVars
<1>14. QED
  BY <1>1, <1>2, <1>3, <1>5, <1>6, <1>7, <1>8, <1>9, <1>10, <1>11, <1>12, <1>13, NextCases, Zenon

\* A connection that is restored, or served, was attached.
LEMMA ServedSteps ==
  ASSUME TypeOK, [Next]_vars, NEW k \in Conns, pc'[k] \in Served
  PROVE  pc[k] \in Served \/ Attach(k)
<1> SUFFICES ASSUME pc[k] \notin Served PROVE Attach(k)
  BY Zenon
<1>1. ASSUME NEW j \in Conns, NEW to, Goes(j, to) PROVE j = k /\ to \in Served
  BY <1>1, Zenon DEF TypeOK, Goes
<1>2. pc' # pc
  BY Zenon
<1>3. ~ \E b \in Brokers : Kill(b)
  BY Zenon DEF Kill, TypeOK, Served
<1>4. ASSUME NEW j \in Conns, ClaimDelete(j) \/ ClaimCreate(j) \/ ClaimUpdate(j) PROVE FALSE
  <2>1. \E to \in {"create", "refused", "get", "bind"} : Goes(j, to)
    <3>1. Again(j) => \E to \in {"refused", "get"} : Goes(j, to)
      BY Zenon DEF Again
    <3>2. QED
      BY <1>4, <3>1, Zenon DEF ClaimDelete, ClaimCreate, ClaimUpdate
  <2>2. QED
    BY <1>1, <2>1, Zenon DEF Served
<1>5. ASSUME NEW j \in Conns, ClaimGet(j) \/ Bind(j) \/ Release(j) \/ End(j)
               \/ \E b \in Brokers, cs \in BOOLEAN : TakeOver(j, b, cs)
      PROVE  FALSE
  <2>1. \E to \in {"refused", "create", "delete", "update", "attach", "done", "release", "get"} :
            Goes(j, to)
    <3>1. CASE ClaimGet(j)
      BY <3>1, Zenon DEF ClaimGet
    <3>2. CASE ~ClaimGet(j)
      BY <1>5, <3>2, Zenon DEF Bind, Release, End, TakeOver
    <3>3. QED
      BY <3>1, <3>2, Zenon
  <2>2. QED
    BY <1>1, <2>1, Zenon DEF Served
<1>6. ASSUME NEW j \in Conns, Restore(j) \/ Acknowledge(j) \/ \E f \in Filters : Change(j, f)
      PROVE  FALSE
  <2>1. pc[j] \in Served /\ \E to : Goes(j, to)
    BY <1>6, Zenon DEF Restore, Acknowledge, Change, Served
  <2>2. QED
    BY <1>1, <2>1, Zenon
<1>7. ASSUME NEW j \in Conns, Attach(j) PROVE j = k
  BY <1>1, <1>7, Zenon DEF Attach
<1>8. ASSUME NEW j \in Conns, Checkpoint(j) \/ Due(j) PROVE FALSE
  BY <1>2, <1>8, Zenon DEF Checkpoint, Due, connVars
<1>9. ASSUME NEW b \in Brokers, LateCopy(b) \/ SetBack(b) \/ SweepSessions(b)
                \/ SweepRead(b) \/ SweepDelete(b) \/ \E r \in news[b] : OnUpdate(b, r)
      PROVE  FALSE
  BY <1>2, <1>9, Zenon DEF LateCopy, SetBack, SweepSessions, SweepRead, SweepDelete, OnUpdate, connVars
<1>10. ASSUME RecordDue \/ UNCHANGED vars PROVE FALSE
  BY <1>2, <1>10, Zenon DEF RecordDue, vars, connVars
<1>11. QED
  BY <1>3, <1>4, <1>5, <1>6, <1>7, <1>8, <1>9, <1>10, NextCases, Zenon

\* A claim that is made now is the last one, and its broker's alone.
LEMMA NewestClaim ==
  ASSUME last \in Nat, ClaimsTyped, NEW b \in Brokers, Tell(b)
  PROVE  /\ claims' \in [Brokers -> SUBSET Nat] /\ news' \in [Brokers -> SUBSET Nat]
         /\ \A c \in Brokers : claims[c] \subseteq claims'[c]
         /\ \A c \in Brokers : \A r \in claims'[c] : r <= last + 1
         /\ last + 1 \in claims'[b] /\ last + 1 \notin claims[b]
         /\ \A c \in Brokers : c # b => last + 1 \in news'[c]
         /\ \A c \in Brokers : news[c] \subseteq news'[c]
         /\ \E n \in Nat : IsLast(n, b)'
         /\ \A r \in Nat, d \in Brokers : IsLast(r, d)' => r = last + 1 /\ d = b
<1>1. /\ claims \in [Brokers -> SUBSET Nat] /\ news \in [Brokers -> SUBSET Nat]
      /\ \A c \in Brokers : \A r \in claims[c] : r \in Nat /\ r <= last
  BY Zenon DEF ClaimsTyped
<1>2. /\ claims' = [claims EXCEPT ![b] = @ \cup {last + 1}]
      /\ news' = [c \in Brokers |-> IF c = b THEN news[c] ELSE news[c] \cup {last + 1}]
      /\ last + 1 \in Nat
  BY DEF Tell
<1>3. \A c \in Brokers : claims'[c] = IF c = b THEN claims[c] \cup {last + 1} ELSE claims[c]
  BY <1>1, <1>2, Zenon
<1>4. claims' \in [Brokers -> SUBSET Nat] /\ news' \in [Brokers -> SUBSET Nat]
  BY <1>1, <1>2, Zenon
<1>5. ASSUME NEW c \in Brokers, NEW r \in claims'[c] PROVE r \in Nat /\ r <= last + 1
  <2>1. r \in claims[c] \/ r = last + 1
    BY <1>3, Zenon
  <2>2. QED
    BY <1>1, <1>2, <2>1
<1>6. last + 1 \in claims'[b] /\ \A c \in Brokers : last + 1 \notin claims[c]
  <2>1. ~(last + 1 <= last)
    OBVIOUS
  <2>2. QED
    BY <1>1, <1>3, <2>1, Zenon
<1>7. ASSUME NEW r \in Nat, NEW d \in Brokers, IsLast(r, d)' PROVE r = last + 1 /\ d = b
  <2>1. r \in claims'[d] /\ last + 1 <= r
    BY <1>6, <1>7, Zenon DEF IsLast
  <2>2. r = last + 1
    BY <1>5, <2>1
  <2>3. QED
    BY <1>3, <1>6, <2>1, <2>2, Zenon
<1>8. \E n \in Nat : IsLast(n, b)'
  <2>1. PICK n \in Nat : n = last + 1
    BY <1>2, Zenon
  <2>2. n \in claims'[b] /\ \A c \in Brokers : \A r \in claims'[c] : r <= n
    BY <1>5, <1>6, <2>1, Zenon
  <2>3. IsLast(n, b)'
    BY <2>2, Zenon DEF IsLast
  <2>4. QED
    BY <2>3, Zenon
<1>9. QED
  BY <1>2, <1>3, <1>4, <1>5, <1>6, <1>7, <1>8, Zenon

\* The claims grow with a claim that is made, and with nothing else.
LEMMA ClaimsStep ==
  ASSUME SInv, ClaimsTyped, [Next]_vars
  PROVE  \/ claims' = claims
         \/ \E y \in Conns : Taken(y) /\ at[y] \in Brokers
<1>1. \A y \in Conns : Taken(y) => at[y] \in Brokers
  BY Zenon DEF Taken, ClaimsTyped
<1>2. QED
  BY <1>1, StepEffects, Zenon DEF BucketStep, Kept, Written, Removed

\* Claims and what the watchers are told of stay revisions the bucket gave.
LEMMA ClaimsTypedStep ==
  ASSUME SInv, ClaimsTyped, [Next]_vars
  PROVE  ClaimsTyped'
<1>t. TypeOK /\ last \in Nat /\ last' \in Nat /\ last <= last'
  BY CopiesStay, Zenon DEF SInv, TypeOK
<1>c. /\ claims \in [Brokers -> SUBSET Nat] /\ news \in [Brokers -> SUBSET Nat]
      /\ \A b \in Brokers : \A r \in claims[b] : r <= last
      /\ \A k \in Conns : pc[k] # "new" => at[k] \in Brokers
      /\ \A k \in Conns : pc[k] \in Live => claims[at[k]] # {}
      /\ (\E b \in Brokers : claims[b] # {}) => \E d \in Brokers, r \in Nat : IsLast(r, d)
  BY Zenon DEF ClaimsTyped
<1>m. \A k \in Conns : ConnMoves(k)
  BY ConnSteps, Zenon
<1>1. \A k \in Conns : pc'[k] # "new" => at'[k] \in Brokers
  BY <1>c, <1>m, Zenon DEF ConnMoves
<1>2. CASE claims' = claims
  <2>1. news' \in [Brokers -> SUBSET Nat]
    <3>1. CASE NewsLeft
      <4>0. PICK b \in Brokers : \E r \in news[b] : OnUpdate(b, r)
        BY <3>1, Zenon DEF NewsLeft
      <4>1. PICK r \in news[b] : news' = [news EXCEPT ![b] = {x \in @ : x > r}]
        BY <4>0, Zenon DEF OnUpdate
      <4>2. news[b] \subseteq Nat /\ {x \in news[b] : x > r} \subseteq Nat
        BY <1>c, Zenon
      <4>3. QED
        BY <1>c, <4>1, <4>2, Zenon
    <3>2. ASSUME NEW b \in Brokers, Tell(b) PROVE news' \in [Brokers -> SUBSET Nat]
      BY <1>t, <3>2, NewestClaim, Zenon
    <3>3. ASSUME NEW b \in Brokers, NEW c \in Brokers, NEW r \in claims[c],
                 news' = [news EXCEPT ![b] = @ \cup {r}]
          PROVE  news' \in [Brokers -> SUBSET Nat]
      BY <1>c, <3>3, Zenon
    <3>4. QED
      BY <1>t, <1>c, <3>1, <3>2, <3>3, NewsSteps, Zenon DEF NewsMore
  <2>2. ASSUME NEW k \in Conns, pc'[k] \in Live PROVE claims'[at'[k]] # {}
    <3>1. pc[k] \in Live \/ (pc[k] \in {"create", "update"} /\ Tell(at[k]))
      BY <1>m, <2>2, Zenon DEF ConnMoves, Live
    <3>2. at[k] \in Brokers /\ at'[k] = at[k]
      BY <1>c, <1>m, <3>1, Zenon DEF ConnMoves, Live
    <3>3. CASE pc[k] \in Live
      BY <1>c, <1>2, <3>2, <3>3, Zenon
    <3>4. CASE Tell(at[k])
      BY <1>t, <3>2, <3>4, NewestClaim, Zenon
    <3>5. QED
      BY <3>1, <3>3, <3>4, Zenon
  <2>3. (\E b \in Brokers : claims'[b] # {}) => \E d \in Brokers, r \in Nat : IsLast(r, d)'
    BY <1>c, <1>2, Zenon DEF IsLast
  <2>4. \A b \in Brokers : \A r \in claims'[b] : r <= last'
    BY <1>t, <1>c, <1>2
  <2>5. QED
    BY <1>1, <1>2, <1>c, <2>1, <2>2, <2>3, <2>4, Zenon DEF ClaimsTyped
<1>3. ASSUME NEW y \in Conns, Taken(y), at[y] \in Brokers PROVE ClaimsTyped'
  <2>1. PICK b \in Brokers : b = at[y] /\ Tell(b) /\ last' = last + 1
    BY <1>3, Zenon DEF Taken, Wrote
  <2>2. /\ claims' \in [Brokers -> SUBSET Nat] /\ news' \in [Brokers -> SUBSET Nat]
        /\ \A c \in Brokers : claims[c] \subseteq claims'[c]
        /\ \A c \in Brokers : \A r \in claims'[c] : r <= last'
        /\ \E n \in Nat : IsLast(n, b)'
    BY <1>t, <2>1, NewestClaim, Zenon
  <2>3. ASSUME NEW k \in Conns, pc'[k] \in Live PROVE claims'[at'[k]] # {}
    <3>1. pc[k] \in Live \/ (pc[k] \in {"create", "update"} /\ Tell(at[k]))
      BY <1>m, <2>3, Zenon DEF ConnMoves, Live
    <3>2. at[k] \in Brokers /\ at'[k] = at[k]
      BY <1>c, <1>m, <3>1, Zenon DEF ConnMoves, Live
    <3>3. CASE pc[k] \in Live
      BY <1>c, <2>2, <3>2, <3>3, Zenon
    <3>4. CASE Tell(at[k])
      BY <1>t, <3>2, <3>4, NewestClaim, Zenon
    <3>5. QED
      BY <3>1, <3>3, <3>4, Zenon
  <2>4. \E d \in Brokers, r \in Nat : IsLast(r, d)'
    BY <2>2, Zenon
  <2>5. QED
    BY <1>1, <2>2, <2>3, <2>4, Zenon DEF ClaimsTyped
<1>4. QED
  BY <1>2, <1>3, ClaimsStep, Zenon

\* takeOverSession finds, and registerSession registers, sessions of this broker.
LEMMA OneBrokerStep ==
  ASSUME SInv, SInv', ClaimsTyped, OneBroker, [Next]_vars
  PROVE  OneBroker'
<1>t. TypeOK /\ ClaimsHeld
  BY Zenon DEF SInv
<1>m. \A k \in Conns : ConnMoves(k)
  BY ConnSteps, Zenon
<1>n. \A k \in Conns : pc[k] # "new" => pc'[k] # "new" /\ at'[k] = at[k]
  BY <1>m, Zenon DEF ConnMoves
<1>1. ASSUME NEW k \in Conns, obj'[k] # Nil
      PROVE  pc'[k] # "new" /\ pc'[obj'[k]] # "new" /\ at'[obj'[k]] = at'[k]
  <2>1. CASE obj'[k] = obj[k]
    <3>1. obj[k] \in Conns /\ pc[k] # "new" /\ pc[obj[k]] # "new" /\ at[obj[k]] = at[k]
      BY <1>t, <1>1, <2>1, Zenon DEF OneBroker, TypeOK
    <3>2. QED
      BY <1>n, <2>1, <3>1, Zenon
  <2>2. ASSUME NEW b \in Brokers, pc[k] = "new", at' = [at EXCEPT ![k] = b],
               pc' = [pc EXCEPT ![k] = "get"], cur[b] # Nil, obj'[k] = cur[b]
        PROVE  pc'[k] # "new" /\ pc'[obj'[k]] # "new" /\ at'[obj'[k]] = at'[k]
    <3>1. cur[b] \in Conns /\ pc[cur[b]] # "new" /\ at[cur[b]] = b
      BY <1>t, <2>2, Zenon DEF OneBroker, TypeOK
    <3>2. at'[k] = b /\ pc'[k] = "get"
      BY <1>t, <2>2, Zenon DEF TypeOK
    <3>3. QED
      BY <1>n, <2>2, <3>1, <3>2, Zenon
  <2>3. CASE pc[k] = "bind" /\ obj'[k] = k
    BY <1>n, <2>3, Zenon
  <2>4. \/ obj'[k] = obj[k] \/ (pc[k] = "bind" /\ obj'[k] = k)
        \/ \E b \in Brokers : /\ pc[k] = "new" /\ at' = [at EXCEPT ![k] = b]
                              /\ pc' = [pc EXCEPT ![k] = "get"] /\ cur[b] # Nil /\ obj'[k] = cur[b]
    <3>1. CASE obj' = obj
      BY <3>1, Zenon
    <3>2. ASSUME NEW j \in Conns, NEW b \in Brokers, pc[j] = "new", at' = [at EXCEPT ![j] = b],
                 pc' = [pc EXCEPT ![j] = "get"], cur[b] # Nil, obj' = [obj EXCEPT ![j] = cur[b]]
          PROVE  \/ obj'[k] = obj[k]
                 \/ /\ pc[k] = "new" /\ at' = [at EXCEPT ![k] = b]
                    /\ pc' = [pc EXCEPT ![k] = "get"] /\ cur[b] # Nil /\ obj'[k] = cur[b]
      BY <1>t, <3>2, Zenon DEF TypeOK
    <3>3. ASSUME NEW j \in Conns, pc[j] = "bind",
                 obj' = [obj EXCEPT ![j] = IF obj[j] = Nil THEN j ELSE obj[j]]
          PROVE  obj'[k] = obj[k] \/ (pc[k] = "bind" /\ obj'[k] = k)
      BY <1>t, <3>3, Zenon DEF TypeOK
    <3>4. QED
      BY <3>1, <3>2, <3>3, PlaceSteps, Zenon DEF Placed
  <2>5. QED
    BY <2>1, <2>2, <2>3, <2>4, Zenon
<1>2. ASSUME NEW b \in Brokers, cur'[b] # Nil
      PROVE  pc'[cur'[b]] # "new" /\ at'[cur'[b]] = b
  <2>1. cur'[b] = cur[b] \/ \E k \in Conns : Attach(k) /\ at[k] = b /\ cur'[b] = obj[k]
    <3>1. CASE Unregisters
      BY <1>t, <1>2, <3>1, Zenon DEF Unregisters, TypeOK
    <3>2. ASSUME NEW k \in Conns, Attach(k)
          PROVE  cur'[b] = cur[b] \/ (at[k] = b /\ cur'[b] = obj[k])
      BY <1>t, <3>2, Zenon DEF Attach, TypeOK
    <3>3. QED
      BY <1>t, <3>1, <3>2, RegisterSteps, Zenon
  <2>2. CASE cur'[b] = cur[b]
    <3>1. cur[b] \in Conns /\ pc[cur[b]] # "new" /\ at[cur[b]] = b
      BY <1>t, <1>2, <2>2, Zenon DEF OneBroker, TypeOK
    <3>2. QED
      BY <1>n, <2>2, <3>1, Zenon
  <2>3. ASSUME NEW k \in Conns, Attach(k), at[k] = b, cur'[b] = obj[k]
        PROVE  pc'[cur'[b]] # "new" /\ at'[cur'[b]] = b
    <3>1. obj[k] \in Conns /\ obj[k] # Nil
      BY <1>t, <2>3, BoundSession, Zenon DEF Attach, Bound
    <3>2. pc[obj[k]] # "new" /\ at[obj[k]] = at[k]
      BY <3>1, Zenon DEF OneBroker
    <3>3. QED
      BY <1>n, <2>3, <3>1, <3>2, Zenon
  <2>4. QED
    BY <2>1, <2>2, <2>3, Zenon
<1>3. ASSUME NEW k \in Conns, pc'[k] = "bind" PROVE got'[k].owner = at'[k]
  <2>1. /\ pc[k] # "new" /\ at'[k] = at[k]
        /\ \/ pc[k] = "bind" /\ got'[k] = got[k]
           \/ got'[k] = kv' /\ kv'.owner = at[k]
    BY <1>m, <1>3, Zenon DEF ConnMoves
  <2>2. QED
    BY <2>1, Zenon DEF OneBroker
<1>4. ASSUME NEW o \in Conns, sess'[o].gen # Nil
      PROVE  pc'[o] # "new" /\ at'[sess'[o].gen] = at'[o] /\ sess'[o].rec.owner = at'[o]
  <2>1. SessStep(o)
    BY StepEffects, Zenon DEF SessSteps
  <2>2. CASE sess'[o].gen = sess[o].gen
    <3>1. /\ sess[o].gen \in Conns /\ pc[sess[o].gen] # "new" /\ pc[o] # "new"
          /\ at[sess[o].gen] = at[o] /\ sess[o].rec.owner = at[o]
      BY <1>t, <1>4, <2>2, Zenon DEF OneBroker, ClaimsHeld, Settled, TypeOK, Session
    <3>2. pc'[o] # "new" /\ at'[o] = at[o] /\ at'[sess[o].gen] = at[sess[o].gen]
      BY <1>n, <3>1, Zenon
    <3>3. CASE sess'[o].rec = sess[o].rec
      BY <2>2, <3>1, <3>2, <3>3, Zenon
    <3>4. CASE sess'[o].rec = kv' /\ kv' # NoRec /\ kv'.by = sess[o].gen
      <4>1. kv'.owner = at'[kv'.by]
        BY <3>4, Zenon DEF SInv, RecordShape
      <4>2. QED
        BY <2>2, <3>1, <3>2, <3>4, <4>1, Zenon
    <3>5. CASE \E k \in Conns : /\ pc[k] = "bind" /\ pc'[k] = "attach"
                                /\ sess'[o].rec = got[k] /\ sess'[o].gen = k
      <4>1. pc[sess[o].gen] = "bind" /\ sess'[o].rec = got[sess[o].gen]
        BY <2>2, <3>5, Zenon
      <4>2. QED
        BY <2>2, <3>1, <3>2, <4>1, Zenon DEF OneBroker
    <3>6. QED
      BY <2>1, <3>3, <3>4, <3>5, Zenon DEF SessStep
  <2>3. ASSUME NEW k \in Conns, pc[k] = "bind", sess'[o].rec = got[k], sess'[o].gen = k,
               obj'[k] = o
        PROVE  pc'[o] # "new" /\ at'[sess'[o].gen] = at'[o] /\ sess'[o].rec.owner = at'[o]
    <3>1. o # Nil
      BY RecFacts, Zenon DEF Nil
    <3>2. pc'[o] # "new" /\ at'[o] = at'[k]
      BY <1>1, <2>3, <3>1, Zenon
    <3>3. at'[k] = at[k] /\ got[k].owner = at[k]
      BY <1>n, <2>3, Zenon DEF OneBroker
    <3>4. QED
      BY <2>3, <3>2, <3>3, Zenon
  <2>4. QED
    BY <2>1, <2>2, <2>3, Zenon DEF SessStep
<1>5. QED
  BY <1>1, <1>2, <1>3, <1>4, Zenon DEF OneBroker

\* attach shuts the connection that the session served before.
LEMMA OneAttachedStep ==
  ASSUME SInv, OneAttached, [Next]_vars
  PROVE  OneAttached'
<1>t. TypeOK /\ ClaimsHeld
  BY Zenon DEF SInv
<1> SUFFICES ASSUME NEW k \in Conns, pc'[k] \in Served, k \notin shut'
             PROVE  sess'[obj'[k]].conn = k
  BY Zenon DEF OneAttached, Served
<1>1. pc[k] \in Served \cup {"attach"}
  BY <1>t, ServedSteps, Zenon DEF Attach
<1>2. obj[k] \in Conns /\ obj'[k] = obj[k]
  <2>1. obj[k] # Nil /\ pc[k] # "new" /\ pc[k] # "bind"
    BY <1>t, <1>1, Zenon DEF ClaimsHeld, Served, Bound
  <2>2. obj'[k] = obj[k]
    BY <1>t, <2>1, PlaceSteps, Zenon DEF Placed, TypeOK
  <2>3. QED
    BY <1>t, <2>1, <2>2, Zenon DEF TypeOK
<1>3. CASE Attach(k)
  <2>1. sess' = [sess EXCEPT ![obj[k]].conn = k]
    BY <1>3, Zenon DEF Attach
  <2>2. QED
    BY <1>t, <1>2, <2>1, Zenon DEF TypeOK, Session
<1>4. CASE ~Attach(k)
  <2>1. k \notin shut /\ sess[obj[k]].conn = k
    BY <1>t, <1>4, ServedSteps, RegisterSteps, Zenon DEF OneAttached
  <2>2. CASE ConnKept
    BY <1>2, <2>1, <2>2, Zenon DEF ConnKept
  <2>3. ASSUME NEW j \in Conns, Attach(j) PROVE sess'[obj[k]].conn = k
    <3>1. obj[j] # obj[k]
      <4>1. shut' = shut \cup ({sess[obj[j]].conn} \ {Nil})
        BY <2>3, Zenon DEF Attach
      <4>2. k # Nil
        BY RecFacts, Zenon DEF Nil
      <4>3. QED
        BY <2>1, <4>1, <4>2, Zenon
    <3>2. sess' = [sess EXCEPT ![obj[j]].conn = j]
      BY <2>3, Zenon DEF Attach
    <3>3. sess'[obj[k]] = sess[obj[k]]
      BY <1>t, <1>2, <3>1, <3>2, Zenon DEF TypeOK
    <3>4. QED
      BY <2>1, <3>3, Zenon
  <2>4. ASSUME NEW j \in Conns, End(j) PROVE sess'[obj[k]].conn = k
    <3>1. sess' = [sess EXCEPT ![obj[j]].conn = IF @ = j THEN Nil ELSE @] /\ pc'[j] = "release"
      BY <1>t, <2>4, Zenon DEF End, Goes, TypeOK
    <3>2. j # k
      BY <3>1, Zenon DEF Served
    <3>3. CASE obj[j] = obj[k]
      <4>1. sess' = [sess EXCEPT ![obj[k]].conn = k]
        BY <2>1, <3>1, <3>2, <3>3, Zenon
      <4>2. QED
        BY <1>t, <1>2, <4>1, Zenon DEF TypeOK, Session
    <3>4. CASE obj[j] # obj[k]
      <4>1. sess'[obj[k]] = sess[obj[k]]
        BY <1>t, <1>2, <3>1, <3>4, Zenon DEF TypeOK
      <4>2. QED
        BY <2>1, <4>1, Zenon
    <3>5. QED
      BY <3>3, <3>4, Zenon
  <2>5. QED
    BY <1>2, <2>2, <2>3, <2>4, ServeSteps, Zenon
<1>5. QED
  BY <1>2, <1>3, <1>4, Zenon

\* Only a claim changes the owner of the record (kv.Update compares revisions).
LEMMA LastHoldsStep ==
  ASSUME SInv, SInv', ClaimsTyped, LastHolds, [Next]_vars
  PROVE  LastHolds'
<1>t. TypeOK /\ CopiesFaithful /\ last \in Nat /\ TypeOK' /\ CopiesFaithful'
  BY Zenon DEF SInv, TypeOK
<1> SUFFICES ASSUME NEW d \in Brokers, NEW r \in Nat, IsLast(r, d)'
             PROVE  /\ kv' # NoRec => kv'.owner = d
                    /\ \A k \in Conns :
                         /\ got'[k] # NoRec /\ r <= got'[k].rev => got'[k].owner = d
                         /\ sess'[k].rec # NoRec /\ r <= sess'[k].rec.rev =>
                                sess'[k].rec.owner = d
  BY Zenon DEF LastHolds
<1>a. /\ BucketStep
      /\ \A k \in Conns : SessStep(k) /\ GotStep(k)
  BY StepEffects, GotSteps, Zenon DEF SessSteps
\* A copy of a broker's own is an older one, and not the record that was just written.
<1>b. ASSUME NEW c \in Rec \cup {NoRec}, Faithful(c) PROVE c # NoRec => c.rev \in Nat /\ c.rev <= last
  BY <1>b, Zenon DEF Faithful, Rec
<1>c. \A k \in Conns :
        /\ got[k] \in Rec \cup {NoRec} /\ Faithful(got[k])
        /\ sess[k].rec \in Rec \cup {NoRec} /\ Faithful(sess[k].rec)
  BY <1>t, Zenon DEF TypeOK, CopiesFaithful, Session
<1>1. CASE claims' = claims
  <2>1. IsLast(r, d)
    BY <1>1, Zenon DEF IsLast
  <2>2. /\ kv # NoRec => kv.owner = d
        /\ \A k \in Conns :
             /\ got[k] # NoRec /\ r <= got[k].rev => got[k].owner = d
             /\ sess[k].rec # NoRec /\ r <= sess[k].rec.rev => sess[k].rec.owner = d
    BY <2>1, Zenon DEF LastHolds
  <2>3. ASSUME kv' # NoRec PROVE kv'.owner = d
    <3>1. CASE Kept
      <4>1. CASE kv' = kv
        BY <2>2, <2>3, <4>1, Zenon
      <4>2. CASE kv # NoRec /\ kv' = [kv EXCEPT !.expired = TRUE]
        BY <1>t, <2>2, <4>2, Zenon DEF TypeOK, Rec
      <4>3. QED
        BY <3>1, <4>1, <4>2, Zenon DEF Kept
    <3>2. ASSUME NEW k \in Conns, Written(k) PROVE kv'.owner = d
      BY <2>2, <3>2, Zenon DEF Written
    <3>3. ASSUME NEW k \in Conns, Taken(k) PROVE FALSE
      <4>1. at[k] \in Brokers /\ Tell(at[k])
        BY <3>3, Zenon DEF Taken, ClaimsTyped
      <4>2. QED
        BY <1>t, <1>1, <4>1, NewestClaim, Zenon
    <3>4. QED
      BY <1>a, <2>3, <3>1, <3>2, <3>3, Zenon DEF BucketStep, Removed
  <2>4. ASSUME NEW k \in Conns, got'[k] # NoRec, r <= got'[k].rev PROVE got'[k].owner = d
    BY <1>a, <2>2, <2>3, <2>4, Zenon DEF GotStep
  <2>5. ASSUME NEW k \in Conns, sess'[k].rec # NoRec, r <= sess'[k].rec.rev
        PROVE  sess'[k].rec.owner = d
    <3>1. SessStep(k)
      BY <1>a, Zenon
    <3>2. \/ sess'[k].rec = sess[k].rec \/ sess'[k].rec = kv'
          \/ \E j \in Conns : sess'[k].rec = got[j]
      BY <3>1, Zenon DEF SessStep
    <3>3. QED
      BY <2>2, <2>3, <2>5, <3>2, Zenon
  <2>6. QED
    BY <2>3, <2>4, <2>5, Zenon
<1>2. ASSUME NEW y \in Conns, Taken(y), at[y] \in Brokers
      PROVE  /\ kv' # NoRec => kv'.owner = d
             /\ \A k \in Conns :
                  /\ got'[k] # NoRec /\ r <= got'[k].rev => got'[k].owner = d
                  /\ sess'[k].rec # NoRec /\ r <= sess'[k].rec.rev => sess'[k].rec.owner = d
  <2>1. r = last + 1 /\ d = at[y]
    BY <1>t, <1>2, NewestClaim, Zenon DEF Taken
  <2>2. kv'.owner = d
    BY <1>2, <2>1, Zenon DEF Taken
  <2>3. ASSUME NEW c \in Rec \cup {NoRec}, Faithful(c), c # NoRec PROVE ~(r <= c.rev)
    BY <1>b, <1>t, <2>1, <2>3
  <2>4. kv # NoRec => ~(r <= kv.rev)
    <3>1. kv # NoRec => kv.rev \in Nat /\ kv.rev <= last
      BY <1>t, Zenon DEF CopiesFaithful, TypeOK, Rec
    <3>2. QED
      BY <1>t, <2>1, <3>1
  <2>5. ASSUME NEW k \in Conns, got'[k] # NoRec, r <= got'[k].rev PROVE got'[k].owner = d
    BY <1>a, <1>c, <2>2, <2>3, <2>4, <2>5, Zenon DEF GotStep
  <2>6. ASSUME NEW k \in Conns, sess'[k].rec # NoRec, r <= sess'[k].rec.rev
        PROVE  sess'[k].rec.owner = d
    <3>1. SessStep(k)
      BY <1>a, Zenon
    <3>2. \/ sess'[k].rec = sess[k].rec \/ sess'[k].rec = kv'
          \/ \E j \in Conns : sess'[k].rec = got[j]
      BY <3>1, Zenon DEF SessStep
    <3>3. QED
      BY <1>c, <2>2, <2>3, <2>6, <3>2, Zenon
  <2>7. QED
    BY <2>2, <2>5, <2>6, Zenon
<1>3. QED
  BY <1>1, <1>2, ClaimsStep, Zenon

\* A watcher that has dealt with a claim has closed what the claim overtook
\* (onUpdate, supersedes and sessionLost).
LEMMA ToldLaterStep ==
  ASSUME SInv, RaceInv, [Next]_vars
  PROVE  ToldLater'
<1>t. TypeOK /\ ClaimsHeld /\ last \in Nat /\ up' \subseteq up
  BY SweepSteps, Zenon DEF SInv, TypeOK
<1>r. ClaimsTyped /\ OneBroker /\ OneAttached /\ LastHolds /\ ToldLater
  BY Zenon DEF RaceInv
<1>m. \A k \in Conns : ConnMoves(k)
  BY ConnSteps, Zenon
<1> SUFFICES ASSUME NEW d \in Brokers, NEW r \in Nat, IsLast(r, d)', NEW k \in Conns,
                    Overtaken(k, d)'
             PROVE  r \in news'[at'[k]]
  BY Zenon DEF ToldLater
<1>1. /\ at'[k] # d /\ k \notin missed' /\ at'[k] \in up'
      /\ \/ pc'[k] \in {"bind", "attach"}
         \/ pc'[k] \in Served /\ cur'[at'[k]] = obj'[k] /\ k \notin shut'
  BY Zenon DEF Overtaken
<1>2. pc[k] \in Live \/ (pc[k] \in {"create", "update"} /\ Tell(at[k]))
  BY <1>m, <1>1, Zenon DEF ConnMoves, Live, Served
<1>3. at[k] \in Brokers /\ at'[k] = at[k] /\ at[k] \in up
  BY <1>t, <1>r, <1>m, <1>1, <1>2, Zenon DEF ConnMoves, ClaimsTyped, Live
<1>4. ASSUME NEW b \in Brokers, Tell(b) PROVE r \in news'[at'[k]]
  <2>1. r = last + 1 /\ d = b
    BY <1>t, <1>r, <1>4, NewestClaim, Zenon
  <2>2. QED
    BY <1>t, <1>r, <1>1, <1>3, <1>4, <2>1, NewestClaim, Zenon
<1>5. CASE ~ \E b \in Brokers : Tell(b)
  <2>1. claims' = claims /\ IsLast(r, d)
    <3>1. claims' = claims
      BY <1>r, <1>5, ClaimsStep, Zenon DEF Taken
    <3>2. QED
      BY <3>1, Zenon DEF IsLast
  <2>2. pc[k] \in Live
    BY <1>2, <1>3, <1>5, Zenon
  <2>3. missed \subseteq missed' /\ shut \subseteq shut'
    BY <1>t, <1>r, NewsSteps, RegisterSteps, Zenon DEF NewsLeft, NewsMore, OnUpdate, ClaimsTyped
  <2>4. pc[k] \in Served => pc'[k] \in Served
    <3>1. pc[k] \in Served => pc'[k] \notin {"bind", "attach"}
      BY <1>m, Zenon DEF ConnMoves, Served
    <3>2. QED
      BY <1>1, <3>1, Zenon
  <2>5. Overtaken(k, d)
    <3>1. CASE pc[k] \in {"bind", "attach"}
      BY <1>1, <1>3, <2>3, <3>1, Zenon DEF Overtaken
    <3>2. CASE pc[k] \in Served
      <4>1. pc'[k] \in Served /\ cur'[at[k]] = obj'[k] /\ k \notin shut' /\ k \notin shut
        BY <1>1, <1>3, <2>3, <2>4, <3>2, Zenon DEF Served
      <4>2. obj[k] \in Conns /\ obj'[k] = obj[k]
        <5>1. obj[k] # Nil /\ pc[k] # "new" /\ pc[k] # "bind"
          BY <1>t, <3>2, Zenon DEF ClaimsHeld, Served, Bound
        <5>2. obj'[k] = obj[k]
          BY <1>t, <5>1, PlaceSteps, Zenon DEF Placed, TypeOK
        <5>3. QED
          BY <1>t, <5>1, <5>2, Zenon DEF TypeOK
      <4>3. cur[at[k]] = obj[k]
        <5>1. CASE Unregisters
          BY <1>t, <1>3, <4>1, <4>2, <5>1, RecFacts, Zenon DEF Unregisters, TypeOK, Nil
        <5>2. ASSUME NEW y \in Conns, Attach(y) PROVE cur[at[k]] = obj[k]
          <6>1. /\ shut' = shut \cup ({sess[obj[y]].conn} \ {Nil})
                /\ cur' = [cur EXCEPT ![at[y]] = obj[y]]
            BY <5>2, Zenon DEF Attach
          <6>2. sess[obj[k]].conn = k /\ k # Nil
            BY <1>r, <3>2, <4>1, RecFacts, Zenon DEF OneAttached, Nil
          <6>3. obj[y] # obj[k]
            BY <4>1, <6>1, <6>2, Zenon
          <6>4. QED
            BY <1>t, <1>3, <4>1, <4>2, <6>1, <6>3, Zenon DEF TypeOK
        <5>3. QED
          BY <1>t, <5>1, <5>2, RegisterSteps, Zenon
      <4>4. QED
        BY <1>1, <1>3, <2>3, <3>2, <4>1, <4>3, Zenon DEF Overtaken
    <3>3. QED
      BY <2>2, <3>1, <3>2, Zenon DEF Live, Served
  <2>6. r \in news[at[k]]
    BY <1>r, <2>1, <2>5, Zenon DEF ToldLater
  <2>7. CASE NewsMore
    <3>1. ASSUME NEW b \in Brokers, NEW x, news' = [news EXCEPT ![b] = @ \cup {x}]
          PROVE  r \in news'[at[k]]
      BY <1>r, <1>3, <2>6, <3>1, Zenon DEF ClaimsTyped
    <3>2. QED
      BY <1>3, <1>5, <2>6, <2>7, <3>1, Zenon DEF NewsMore
  <2>8. ASSUME NEW b \in Brokers, NEW q \in news[b], OnUpdate(b, q) PROVE r \in news'[at[k]]
    <3>1. /\ news' = [news EXCEPT ![b] = {x \in @ : x > q}]
          /\ missed' = missed \cup {j \in Conns : at[j] = b /\ pc[j] \in {"bind", "attach"}}
          /\ cur[b] = Nil \/ supersedes(cur[b], q) \/ cur' = [cur EXCEPT ![b] = Nil]
          /\ pc' = pc
      BY <2>8, Zenon DEF OnUpdate
    <3>2. CASE b # at[k]
      BY <1>r, <1>3, <2>6, <3>1, <3>2, Zenon DEF ClaimsTyped
    <3>3. CASE b = at[k]
      <4>1. pc[k] \in Served /\ cur[b] = obj[k] /\ cur'[b] = obj'[k]
        BY <1>1, <1>3, <2>5, <3>1, <3>3, Zenon DEF Overtaken, Served
      <4>2. obj[k] \in Conns /\ obj[k] # Nil
        BY <1>t, <4>1, BoundSession, Zenon DEF Served, Bound
      <4>3. obj'[k] = obj[k]
        BY <2>8, Zenon DEF OnUpdate
      <4>4. supersedes(obj[k], q)
        BY <1>t, <3>1, <4>1, <4>2, <4>3, Zenon DEF TypeOK
      <4> DEFINE rec == sess[obj[k]].rec
                 n == rec.rev
      <4>a. sess[obj[k]].gen # Nil /\ n >= q
        BY <4>4, Zenon DEF supersedes
      <4>b. rec \in Rec \cup {NoRec} /\ rec # NoRec
        BY <1>t, <4>2, <4>a, Zenon DEF ClaimsHeld, TypeOK, Session
      <4>5. rec \in Rec /\ n \in Nat
        BY <4>b, Zenon DEF Rec
      <4>6. rec.owner = at[k]
        BY <1>r, <4>2, <4>a, Zenon DEF OneBroker
      <4>7. ~(r <= n)
        BY <1>r, <1>1, <1>3, <2>1, <4>2, <4>b, <4>6, Zenon DEF LastHolds
      <4>8. q \in Nat
        BY <1>r, Zenon DEF ClaimsTyped
      <4> HIDE DEF n, rec
      <4>c. n >= q
        BY <4>a, Zenon
      <4>d. n \in Nat
        BY <4>5, Zenon
      <4>9. r > q
        BY <4>c, <4>d, <4>7, <4>8, PastF, Zenon
      <4>10. QED
        BY <1>r, <2>6, <3>1, <3>3, <4>9, Zenon DEF ClaimsTyped
    <3>4. QED
      BY <3>2, <3>3, Zenon
  <2>9. QED
    BY <1>t, <1>r, <1>3, <2>7, <2>8, NewsSteps, Zenon DEF NewsLeft, ClaimsTyped
<1>6. QED
  BY <1>4, <1>5, Zenon

\* The inductive invariant of the race.
THEOREM RaceInvariant == Spec => []RaceInv
<1>1. Init => RaceInv
  <2> SUFFICES ASSUME Init PROVE RaceInv
    BY Zenon
  <2>1. ClaimsTyped
    BY Zenon DEF Init, ClaimsTyped, Live
  <2>2. OneBroker /\ OneAttached
    BY Zenon DEF Init, OneBroker, OneAttached, NewSession, Served
  <2>3. LastHolds /\ ToldLater
    BY Zenon DEF Init, LastHolds, ToldLater, IsLast
  <2>4. QED
    BY <2>1, <2>2, <2>3, Zenon DEF RaceInv
<1>2. SInv /\ SInv' /\ RaceInv /\ [Next]_vars => RaceInv'
  BY ClaimsTypedStep, OneBrokerStep, OneAttachedStep, LastHoldsStep, ToldLaterStep, Zenon DEF RaceInv
<1>3. QED
  BY <1>1, <1>2, StoreInvariant, PTL DEF Spec

\* README.md, Persistent sessions, and sessionLost: of the connections of one
\* client whose session was registered when their broker heard of the last claim,
\* one is served once every broker has heard of it.
THEOREM OneWins == Spec => []OneRegistered
<1>1. SInv /\ RaceInv => OneRegistered
  <2> SUFFICES ASSUME SInv, RaceInv, Quiet, NEW j \in Conns, NEW k \in Conns,
                      Serving(j), Serving(k), Registered(j), Registered(k)
               PROVE  j = k
    BY Zenon DEF OneRegistered
  <2>t. ClaimsTyped /\ OneAttached /\ ToldLater
    BY Zenon DEF RaceInv
  <2>1. ASSUME NEW x \in {j, k}
        PROVE  /\ x \in Conns /\ pc[x] \in Served /\ pc[x] \in Live /\ x \notin shut
               /\ at[x] \in up /\ cur[at[x]] = obj[x] /\ x \notin missed
               /\ at[x] \in Brokers /\ claims[at[x]] # {} /\ news[at[x]] = {}
    BY <2>t, Zenon DEF Quiet, Serving, Registered, Served, Live, ClaimsTyped
  <2>2. CASE at[j] = at[k]
    <3>1. obj[j] = obj[k] /\ sess[obj[j]].conn = j /\ sess[obj[k]].conn = k
      BY <2>t, <2>1, <2>2, Zenon DEF OneAttached
    <3>2. QED
      BY <3>1, Zenon
  <2>3. CASE at[j] # at[k]
    <3>1. PICK d \in Brokers, r \in Nat : IsLast(r, d)
      BY <2>t, <2>1, Zenon DEF ClaimsTyped
    <3>2. \A x \in {j, k} : at[x] = d
      BY <2>t, <2>1, <3>1, Zenon DEF ToldLater, Overtaken
    <3>3. QED
      BY <2>3, <3>2, Zenon
  <2>4. QED
    BY <2>2, <2>3, Zenon
<1>2. QED
  BY <1>1, StoreInvariant, RaceInvariant, PTL
=============================================================================

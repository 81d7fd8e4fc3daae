-------------------------- MODULE InboundQoS2Facts ---------------------------
(***************************************************************************)
(* The inductive invariant QInv of InboundQoS2, what the actions do in     *)
(* terms of it, that every step keeps Sound, and that the steps which take *)
(* no packet keep Certain.  InboundQoS2Proofs has the rest.                *)
(***************************************************************************)
EXTENDS InboundQoS2, TLAPS

----------------------------------------------------------------------------
(* The inductive invariant. *)

States == {"new", "pub", "rel", "done", "refused"}
Forwarding == {"auth", "keep", "live", "record"}
Busy == Forwarding \cup {"release"}
Stages == {"none", "idle", "armed", "end", "over", "kicked"} \cup Busy
Packets == [t : {"none", "PUBLISH", "PUBREL"}, id : Ids \cup {Nil},
            m : Msgs \cup {Nil}, dup : BOOLEAN, mid : Conns \cup {Nil}]
Entries == [m : Msgs \cup {Nil}, mid : Conns \cup {Nil}]
Sessions == [recv : SUBSET Ids, forwarding : SUBSET Ids, pending : [Ids -> Entries],
             gen : Conns \cup {Nil}]

TypeOK ==
    /\ cst \in [Msgs -> States]
    /\ pid \in [Msgs -> Ids \cup {Nil}] /\ qos \in [Msgs -> 0..2]
    /\ conn \in Conns \cup {Nil} /\ up \subseteq Brokers
    /\ at \in [Conns -> Brokers \cup {Nil}]
    /\ in \in [Conns -> Seq(Packets)]
    /\ stage \in [Conns -> Stages] /\ hand \in [Conns -> Packets]
    /\ shut \subseteq Conns
    /\ obj \in [Conns -> Conns \cup {Nil}] /\ sess \in [Conns -> Sessions]
    /\ mem \in [Brokers -> Conns \cup {Nil}]
    /\ rec \in [by : Conns \cup {Nil}, recv : SUBSET Ids]
    /\ queued \in [Msgs -> SUBSET (Conns \cup {Nil})]
    /\ sent \in [Msgs -> SUBSET (Conns \cup {Nil})]
    /\ overlap \in BOOLEAN /\ unwritten \in BOOLEAN /\ exposed \subseteq Msgs

Started(k) == stage[k] # "none"

\* The newest connection has the record's claim; those before it are closed.
Newest ==
    /\ \A k \in Conns : Started(k) <=> k <= rec.by
    /\ \A k \in Conns : k < rec.by => k \in shut
    /\ \A k \in shut : Started(k)
    /\ conn # Nil => conn = rec.by /\ conn \notin shut /\ stage[conn] # "over"
    /\ \A k \in Conns : stage[k] \notin {"none", "over"} => at[k] \in up

\* The session in a broker's memory is the one the newest connection has.
Cur == obj[rec.by]
Alive == rec.by # Nil /\ at[rec.by] \in up
Remembered ==
    /\ \A k \in Conns : Started(k) => at[k] \in Brokers /\ obj[k] \in Conns /\ obj[k] <= k
    /\ \A j, k \in Conns : Started(j) /\ Started(k) /\ obj[j] = obj[k] => at[j] = at[k]
    /\ rec.by # Nil => sess[Cur].gen = rec.by
    /\ Alive => mem[at[rec.by]] = Cur
    /\ \A b \in Brokers : mem[b] # Nil => Alive /\ b = at[rec.by]

\* A packet is about a message that was published, by its identifier.
About(p) ==
    /\ p.m \in Msgs /\ cst[p.m] # "new" /\ p.id = pid[p.m]
    /\ p.t = "PUBREL" => qos[p.m] = 2
Queues ==
    \A k \in Conns : \A i \in DOMAIN in[k] :
        About(in[k][i]) /\ in[k][i].t \in {"PUBLISH", "PUBREL"}
Hands ==
    \A k \in Conns :
        /\ stage[k] \in Forwarding => About(hand[k]) /\ hand[k].t = "PUBLISH"
        /\ stage[k] = "release" => About(hand[k]) /\ hand[k].t = "PUBREL"

\* An identifier is in use by one message at a time; QoS 2 ones are released.
Distinct ==
    /\ \A m \in Msgs : cst[m] # "new" => pid[m] \in Ids
    /\ \A m \in Msgs : cst[m] = "rel" => qos[m] = 2
    /\ \A m, n \in Msgs : Unfinished(m) /\ Unfinished(n) /\ pid[m] = pid[n] => m = n

\* What has passed the queue and the live subject.
Passed ==
    \A k \in Conns :
        /\ stage[k] \in {"live", "record"} => queued[hand[k].m] # {}
        /\ stage[k] = "record" => sent[hand[k].m] # {}

Sound == TypeOK /\ Newest /\ Remembered /\ Queues /\ Hands /\ Distinct /\ Passed

Forwarded(m) == queued[m] # {} /\ sent[m] # {}

\* The message of an identifier that was received and forwarded is under way still.
Taken(id) ==
    \E m \in Msgs : pid[m] = id /\ Unfinished(m) /\ qos[m] = 2 /\ Forwarded(m)

\* What the open connection has still to read is what the client waits for.
Waits(p) == cst[p.m] = IF p.t = "PUBLISH" THEN "pub" ELSE "rel"
Fresh ==
    rec.by # Nil /\ rec.by \notin shut =>
        /\ \A i \in DOMAIN in[rec.by] : Waits(in[rec.by][i])
        /\ \A i, j \in DOMAIN in[rec.by] : in[rec.by][i].m = in[rec.by][j].m => i = j
        /\ stage[rec.by] \in Busy =>
              /\ Waits(hand[rec.by])
              /\ \A i \in DOMAIN in[rec.by] : in[rec.by][i].m # hand[rec.by].m

\* Two readers of one session do not handle one identifier.
Apart ==
    \A j, k \in Conns :
        stage[j] \in Busy /\ stage[k] \in Busy /\ obj[j] = obj[k] /\ hand[j].id = hand[k].id
            => j = k

\* What the session in memory has of an identifier, and what the record has.
Readers == {j \in Conns : Started(j) /\ obj[j] = Cur}
Kept == sess[Cur].recv \ sess[Cur].forwarding
Held ==
    \A j \in Readers :
        /\ stage[j] \in Forwarding =>
              /\ cst[hand[j].m] = "pub"
              /\ qos[hand[j].m] = 2 => hand[j].id \in sess[Cur].forwarding \cap sess[Cur].recv
        /\ stage[j] = "release" => hand[j].id \notin sess[Cur].recv
Owned ==
    \A id \in sess[Cur].forwarding :
        \E j \in Readers :
            stage[j] \in Forwarding /\ hand[j].id = id /\ qos[hand[j].m] = 2
Recorded == \A id \in rec.recv : id \in Kept \/ \E m \in Msgs : pid[m] = id /\ cst[m] = "rel"

InStep == Alive => Held /\ Owned /\ Recorded /\ \A id \in Kept : Taken(id)
Record0 == \A id \in rec.recv : Taken(id)

Certain == Fresh /\ Apart /\ InStep /\ Record0 /\ AckedIsForwarded
Guarded == ~overlap /\ ~unwritten => Certain

\* The copies of a message have one message id, which a repeat will have as well.
Copies(m) == queued[m] \cup sent[m]
Tracked(m) == qos[m] = 2 /\ m \notin exposed
Single == \A m \in Msgs : Tracked(m) => \A x, y \in Copies(m) : x = y
Unsent == \A m \in Msgs : cst[m] = "new" => Copies(m) = {}

Pends ==
    Alive =>
        /\ \A m \in Msgs :
              Tracked(m) /\ cst[m] = "pub" /\ pid[m] \notin Kept =>
                  \A x \in Copies(m) : sess[Cur].pending[pid[m]] = [m |-> m, mid |-> x]
        /\ \A j \in Readers :
              stage[j] \in {"keep", "live", "record"} /\ qos[hand[j].m] = 2 =>
                  sess[Cur].pending[hand[j].id] = [m |-> hand[j].m, mid |-> hand[j].mid]
        /\ \A j \in Readers : stage[j] = "auth" /\ ~hand[j].dup =>
              /\ Copies(hand[j].m) = {}
              /\ \A i \in Conns \ {j} : stage[i] \in Busy => hand[i].m # hand[j].m

\* What is sent for the first time has no copies, and nobody has it in hand.
FirstSent ==
    rec.by # Nil /\ rec.by \notin shut =>
        \A i \in DOMAIN in[rec.by] :
            in[rec.by][i].t = "PUBLISH" /\ ~in[rec.by][i].dup =>
                /\ Copies(in[rec.by][i].m) = {}
                /\ \A j \in Conns : stage[j] \in Busy => hand[j].m # in[rec.by][i].m

\* A reader whose session is in nobody's memory handles what a session was rebuilt
\* without.
Left ==
    \A j \in Conns :
        stage[j] \in Forwarding /\ obj[j] # Cur /\ qos[hand[j].m] = 2
            => hand[j].m \in exposed

Tidy == Single /\ Unsent /\ Pends /\ FirstSent /\ Left
Onefold == Dedupe /\ ~overlap /\ ~unwritten => Tidy

QInv == Sound /\ Guarded /\ Onefold

----------------------------------------------------------------------------
(* Queues of packets. *)

\* What is left of a queue, in its order.
Part(s, t) ==
    \E g \in [DOMAIN s -> DOMAIN t] :
        /\ \A i \in DOMAIN s : s[i] = t[g[i]]
        /\ \A i, j \in DOMAIN s : g[i] = g[j] => i = j

\* A queue is left of itself.
LEMMA PartSelf == ASSUME NEW s PROVE Part(s, s)
<1> DEFINE g == [i \in DOMAIN s |-> i]
<1>1. g \in [DOMAIN s -> DOMAIN s] /\ \A i \in DOMAIN s : g[i] = i
  BY Zenon
<1> HIDE DEF g
<1>2. QED
  BY <1>1, Zenon DEF Part

\* The reader takes the first packet of its queue.
LEMMA TailF ==
    ASSUME NEW S, NEW s \in Seq(S), s # <<>>
    PROVE  /\ 1 \in DOMAIN s /\ Head(s) = s[1] /\ Head(s) \in S
           /\ Tail(s) \in Seq(S)
           /\ \A i \in DOMAIN Tail(s) : i + 1 \in DOMAIN s /\ i + 1 # 1 /\ Tail(s)[i] = s[i + 1]
  OBVIOUS

\* The rest of a queue is a part of it.
LEMMA TailPart ==
    ASSUME NEW S, NEW s \in Seq(S), s # <<>>
    PROVE  Part(Tail(s), s)
<1> DEFINE g == [i \in DOMAIN Tail(s) |-> i + 1]
<1>1. \A i \in DOMAIN Tail(s) : i \in Nat
  OBVIOUS
<1>2. g \in [DOMAIN Tail(s) -> DOMAIN s] /\ \A i \in DOMAIN Tail(s) : Tail(s)[i] = s[g[i]]
  BY TailF, Zenon
<1>3. \A i, j \in DOMAIN Tail(s) : g[i] = g[j] => i = j
  BY <1>1
<1> HIDE DEF g
<1>4. QED
  BY <1>2, <1>3, Zenon DEF Part

\* A connection breaks: of its queue the beginning is left.
LEMMA SubSeqPart ==
    ASSUME NEW S, NEW s \in Seq(S), NEW n \in 0..Len(s)
    PROVE  SubSeq(s, 1, n) \in Seq(S) /\ Part(SubSeq(s, 1, n), s)
<1> DEFINE t == SubSeq(s, 1, n)
           g == [i \in DOMAIN t |-> i]
<1>1. t \in Seq(S) /\ \A i \in DOMAIN t : i \in DOMAIN s /\ t[i] = s[i]
  OBVIOUS
<1>2. g \in [DOMAIN t -> DOMAIN s] /\ \A i \in DOMAIN t : g[i] = i
  BY <1>1, Zenon
<1> HIDE DEF g
<1>3. QED
  BY <1>1, <1>2, ZenonT(60) DEF Part

\* A packet is sent: it is the last of the queue.
LEMMA AppendF ==
    ASSUME NEW S, NEW s \in Seq(S), NEW e \in S
    PROVE  /\ Append(s, e) \in Seq(S)
           /\ \A i \in DOMAIN Append(s, e) :
                 \/ i \in DOMAIN s /\ Append(s, e)[i] = s[i]
                 \/ i = Len(s) + 1 /\ Append(s, e)[i] = e
  OBVIOUS

----------------------------------------------------------------------------
(* What the parts of an action do. *)

\* Session o becomes one with these identifiers and publishes.
Becomes(s, o, r, f, p) ==
    /\ s \in [Conns -> Sessions]
    /\ \A x \in Conns \ {o} : s[x] = sess[x]
    /\ s[o].gen = sess[o].gen /\ s[o].recv = r /\ s[o].forwarding = f /\ s[o].pending = p

\* markQoS2Received.
LEMMA ReceivedF ==
    ASSUME TypeOK, NEW o \in Conns, NEW id \in Ids
    PROVE  Becomes(received(o, id), o, sess[o].recv \cup {id},
                   sess[o].forwarding \cup {id}, sess[o].pending)
<1>1. sess \in [Conns -> Sessions] /\ sess[o] \in Sessions
  BY Zenon DEF TypeOK
<1> DEFINE s == [sess[o] EXCEPT !.recv = sess[o].recv \cup {id},
                                !.forwarding = sess[o].forwarding \cup {id}]
<1>2. /\ s \in Sessions /\ s.recv = sess[o].recv \cup {id} /\ s.gen = sess[o].gen
      /\ s.forwarding = sess[o].forwarding \cup {id} /\ s.pending = sess[o].pending
  BY <1>1, Zenon DEF Sessions
<1>3. received(o, id) = [sess EXCEPT ![o] = s]
  BY Zenon DEF received
<1> HIDE DEF s
<1>4. QED
  BY <1>1, <1>2, <1>3, Zenon DEF Becomes

\* releaseQoS2.
LEMMA ReleasedF ==
    ASSUME TypeOK, NEW o \in Conns, NEW id \in Ids
    PROVE  Becomes(released(o, id), o, sess[o].recv \ {id},
                   sess[o].forwarding \ {id}, sess[o].pending)
<1>1. sess \in [Conns -> Sessions] /\ sess[o] \in Sessions
  BY Zenon DEF TypeOK
<1> DEFINE s == [sess[o] EXCEPT !.recv = sess[o].recv \ {id},
                                !.forwarding = sess[o].forwarding \ {id}]
<1>2. /\ s \in Sessions /\ s.recv = sess[o].recv \ {id} /\ s.gen = sess[o].gen
      /\ s.forwarding = sess[o].forwarding \ {id} /\ s.pending = sess[o].pending
  BY <1>1, Zenon DEF Sessions
<1>3. released(o, id) = [sess EXCEPT ![o] = s]
  BY Zenon DEF released
<1> HIDE DEF s
<1>4. QED
  BY <1>1, <1>2, <1>3, Zenon DEF Becomes

\* publishIDs.
LEMMA PendsF ==
    ASSUME TypeOK, NEW o \in Conns, NEW id \in Ids, NEW e \in Entries
    PROVE  /\ pends(sess[o], id, e) \in Sessions
           /\ Becomes([sess EXCEPT ![o] = pends(sess[o], id, e)], o, sess[o].recv,
                      sess[o].forwarding, [sess[o].pending EXCEPT ![id] = e])
<1>1. sess \in [Conns -> Sessions] /\ sess[o] \in Sessions
  BY Zenon DEF TypeOK
<1> DEFINE p == [sess[o].pending EXCEPT ![id] = e]
           s == [sess[o] EXCEPT !.pending = p]
<1>2. p \in [Ids -> Entries]
  BY <1>1, Zenon DEF Sessions
<1> HIDE DEF p
<1>3. /\ s \in Sessions /\ s.recv = sess[o].recv /\ s.gen = sess[o].gen
      /\ s.forwarding = sess[o].forwarding /\ s.pending = p
  BY <1>1, <1>2, Zenon DEF Sessions
<1>4. pends(sess[o], id, e) = s
  BY Zenon DEF pends, p
<1> HIDE DEF s
<1>5. Becomes([sess EXCEPT ![o] = s], o, sess[o].recv, sess[o].forwarding, p)
  BY <1>1, <1>3, Zenon DEF Becomes
<1>6. QED
  BY <1>3, <1>4, <1>5, Zenon DEF p

\* qos2Forwarded, with the publish done or not.
LEMMA ForwardedF ==
    ASSUME TypeOK, NEW o \in Conns, NEW id \in Ids, NEW d \in Sessions,
           d.recv = sess[o].recv, d.gen = sess[o].gen
    PROVE  Becomes([sess EXCEPT ![o] = [d EXCEPT !.forwarding = sess[o].forwarding \ {id}]],
                   o, sess[o].recv, sess[o].forwarding \ {id}, d.pending)
<1>1. sess \in [Conns -> Sessions] /\ sess[o] \in Sessions
  BY Zenon DEF TypeOK
<1> DEFINE s == [d EXCEPT !.forwarding = sess[o].forwarding \ {id}]
<1>2. /\ s \in Sessions /\ s.recv = sess[o].recv /\ s.gen = sess[o].gen
      /\ s.forwarding = sess[o].forwarding \ {id} /\ s.pending = d.pending
  BY <1>1, Zenon DEF Sessions
<1> HIDE DEF s
<1>3. Becomes([sess EXCEPT ![o] = s], o, sess[o].recv, sess[o].forwarding \ {id}, d.pending)
  BY <1>1, <1>2, Zenon DEF Becomes
<1>4. QED
  BY <1>3, Zenon DEF s

\* A connection that was made has a session, and the newest one has the claim: one
\* that is not closed is the newest.
LEMMA StartedF ==
    ASSUME Sound, NEW k \in Conns, stage[k] # "none"
    PROVE  /\ obj[k] \in Conns /\ at[k] \in Brokers /\ obj[k] <= k
           /\ rec.by \in Conns /\ k <= rec.by /\ Cur \in Conns /\ stage[rec.by] # "none"
           /\ k \notin shut => k = rec.by
<1>1. TypeOK /\ Newest /\ Remembered
  BY Zenon DEF Sound
<1>2. rec.by \in Conns \cup {Nil} /\ k <= rec.by /\ k \in Nat /\ k # 0
  BY <1>1, InboundAssumption DEF TypeOK, Newest, Started, Conns
<1>3. rec.by \in Conns
  BY <1>2 DEF Nil, Conns
<1>4. rec.by \in Nat /\ rec.by <= rec.by
  BY <1>3, InboundAssumption DEF Conns
<1>5. stage[rec.by] # "none"
  BY <1>1, <1>3, <1>4, Zenon DEF Newest, Started
<1>6. k \notin shut => k = rec.by
  BY <1>1, <1>2, <1>4 DEF Newest
<1>7. /\ obj[k] \in Conns /\ at[k] \in Brokers /\ obj[k] <= k /\ obj[rec.by] \in Conns
  BY <1>1, <1>3, <1>5, Zenon DEF Remembered, Started
<1>8. QED
  BY <1>2, <1>3, <1>5, <1>6, <1>7, Zenon DEF Cur

\* The client's connection is the newest, and open.
LEMMA OpenF ==
    ASSUME Sound, conn # Nil
    PROVE  conn \in Conns /\ conn = rec.by /\ conn \notin shut /\ stage[conn] \notin {"none", "over"}
<1>1. conn \in Conns /\ conn = rec.by /\ conn \notin shut /\ stage[conn] # "over"
  BY Zenon DEF Sound, Newest, TypeOK
<1>2. conn \in Nat /\ conn <= rec.by
  BY <1>1, InboundAssumption DEF Conns
<1>3. QED
  BY <1>1, <1>2, Zenon DEF Sound, Newest, Started

\* The packet a reader takes next.
LEMMA HeadF ==
    ASSUME Sound, NEW k \in Conns, in[k] # <<>>
    PROVE  /\ Head(in[k]) \in Packets /\ 1 \in DOMAIN in[k] /\ Head(in[k]) = in[k][1]
           /\ About(Head(in[k])) /\ Head(in[k]).t \in {"PUBLISH", "PUBREL"}
           /\ Head(in[k]).m \in Msgs /\ Head(in[k]).id \in Ids /\ cst[Head(in[k]).m] # "new"
           /\ Tail(in[k]) \in Seq(Packets) /\ Part(Tail(in[k]), in[k])
<1>1. in[k] \in Seq(Packets)
  BY Zenon DEF Sound, TypeOK
<1>2. /\ 1 \in DOMAIN in[k] /\ Head(in[k]) = in[k][1] /\ Head(in[k]) \in Packets
      /\ Tail(in[k]) \in Seq(Packets) /\ Part(Tail(in[k]), in[k])
  BY <1>1, TailF, TailPart, Zenon
<1>3. About(in[k][1]) /\ in[k][1].t \in {"PUBLISH", "PUBREL"}
  BY <1>2, Zenon DEF Sound, Queues
<1>4. QED
  BY <1>2, <1>3, Zenon DEF Sound, Distinct, About

\* The packet a reader handles.
LEMMA HandF ==
    ASSUME Sound, NEW k \in Conns, stage[k] \in Busy
    PROVE  /\ hand[k] \in Packets /\ About(hand[k]) /\ hand[k].m \in Msgs /\ hand[k].id \in Ids
           /\ hand[k].id = pid[hand[k].m] /\ cst[hand[k].m] # "new"
<1>1. About(hand[k])
  BY Zenon DEF Sound, Hands, Busy
<1>2. QED
  BY <1>1, Zenon DEF Sound, TypeOK, Distinct, About

\* The acknowledgement of m is written and taken, or the connection is gone.
Answered(k, t, m, rest) ==
    /\ stage' \in [Conns -> Stages] /\ stage'[k] \in {"idle", "end"}
    /\ \A j \in Conns \ {k} : stage'[j] = stage[j]
    /\ cst' \in [Msgs -> States] /\ in' \in [Conns -> Seq(Packets)]
    /\ \A j \in Conns \ {k} : in'[j] = rest[j]
    /\ \/ cst' = cst /\ in' = rest
       \/ /\ k = rec.by /\ k \notin shut
          /\ \A n \in Msgs \ {m} : cst'[n] = cst[n]
          /\ cst'[m] = Received(t, m)
          /\ \/ in' = rest /\ (t = "PUBREC" => cst[m] # "pub")
             \/ /\ t = "PUBREC" /\ cst[m] = "pub"
                /\ in'[k] = Append(rest[k], Packet("PUBREL", pid[m], m, FALSE))

\* Write does one of the two.
LEMMA WriteF ==
    ASSUME Sound, NEW k \in Conns, stage[k] # "none", NEW m \in Msgs, cst[m] # "new",
           NEW t \in {"PUBACK", "PUBREC", "PUBCOMP", "refusal"},
           NEW rest \in [Conns -> Seq(Packets)], Write(k, t, m, rest)
    PROVE  Answered(k, t, m, rest)
<1>1. /\ stage \in [Conns -> Stages] /\ cst \in [Msgs -> States] /\ pid[m] \in Ids
  BY Zenon DEF Sound, TypeOK, Distinct
<1>2. CASE ~(conn = k /\ k \notin shut)
  <2>1. stage' = [stage EXCEPT ![k] = "end"] /\ in' = rest /\ cst' = cst
    BY <1>2, Zenon DEF Write, Goes
  <2>2. QED
    BY <1>1, <2>1, Zenon DEF Answered, Stages
<1>3. CASE conn = k /\ k \notin shut
  <2> DEFINE q == Packet("PUBREL", pid[m], m, FALSE)
  <2>1. /\ stage' = [stage EXCEPT ![k] = "idle"]
        /\ cst' = [cst EXCEPT ![m] = Received(t, m)]
        /\ in' = IF t = "PUBREC" /\ cst[m] = "pub"
                 THEN [rest EXCEPT ![k] = Append(rest[k], q)] ELSE rest
    BY <1>3, Zenon DEF Write, Goes
  <2>2. Received(t, m) \in States
    BY <1>1, Zenon DEF Received, States
  <2>3. q \in Packets
    BY <1>1, Zenon DEF Packet, Packets, Nil
  <2> HIDE DEF q
  <2>4. Append(rest[k], q) \in Seq(Packets)
    BY <2>3
  <2>5. in' \in [Conns -> Seq(Packets)] /\ \A j \in Conns \ {k} : in'[j] = rest[j]
    BY <2>1, <2>4, Zenon
  <2>6. k = rec.by
    <3>1. conn # Nil
      BY <1>3, InboundAssumption DEF Conns, Nil
    <3>2. QED
      BY <1>3, <3>1, OpenF, Zenon
  <2>7. stage' \in [Conns -> Stages] /\ stage'[k] = "idle" /\ \A j \in Conns \ {k} : stage'[j] = stage[j]
    BY <1>1, <2>1, Zenon DEF Stages
  <2>8. /\ cst' \in [Msgs -> States] /\ cst'[m] = Received(t, m)
        /\ \A n \in Msgs \ {m} : cst'[n] = cst[n]
    BY <1>1, <2>1, <2>2, Zenon
  <2>9. \/ in' = rest /\ (t = "PUBREC" => cst[m] # "pub")
        \/ t = "PUBREC" /\ cst[m] = "pub" /\ in'[k] = Append(rest[k], q)
    BY <2>1, Zenon
  <2>10. QED
    BY <1>3, <2>5, <2>6, <2>7, <2>8, <2>9, Zenon DEF Answered, q
<1>4. QED
  BY <1>2, <1>3, Zenon

----------------------------------------------------------------------------
(* What keeps Sound. *)

\* No connection is made or ends, and no claim.
Steady ==
    /\ rec'.by = rec.by /\ at' = at /\ up' = up /\ obj' = obj /\ mem' = mem /\ shut' = shut
    /\ conn' \in {conn, Nil}
    /\ \A o \in Conns : sess'[o].gen = sess[o].gen
    /\ \A k \in Conns : /\ stage'[k] = "none" <=> stage[k] = "none"
                        /\ stage'[k] = "over" <=> stage[k] = "over"

\* A step in which no connection starts and the claim stays keeps Newest and Remembered.
LEMMA SteadyKeeps ==
    ASSUME Sound, Steady
    PROVE  Newest' /\ Remembered'
<1>1. TypeOK /\ Newest /\ Remembered
  BY Zenon DEF Sound
<1>2. Newest'
  BY <1>1, Zenon DEF Newest, Steady, Started, TypeOK
<1>3. rec.by # Nil => Cur \in Conns
  <2>1. SUFFICES ASSUME rec.by # Nil PROVE Cur \in Conns
    BY Zenon
  <2>2. rec.by \in Conns /\ rec.by <= rec.by
    BY <1>1, <2>1, InboundAssumption DEF TypeOK, Conns
  <2>3. QED
    BY <1>1, <2>2, Zenon DEF Newest, Remembered, Cur
<1>4. (\A k \in Conns : Started(k) => at[k] \in Brokers /\ obj[k] \in Conns /\ obj[k] <= k)'
  BY <1>1, Zenon DEF Remembered, Steady, Started
<1>5. (\A j, k \in Conns : Started(j) /\ Started(k) /\ obj[j] = obj[k] => at[j] = at[k])'
  BY <1>1, Zenon DEF Remembered, Steady, Started
<1>6. (rec.by # Nil => sess[Cur].gen = rec.by)'
  BY <1>1, <1>3, Zenon DEF Remembered, Steady, Cur
<1>7. (Alive => mem[at[rec.by]] = Cur)' /\ (\A b \in Brokers : mem[b] # Nil => Alive /\ b = at[rec.by])'
  BY <1>1, Zenon DEF Remembered, Steady, Cur, Alive
<1>8. QED
  BY <1>2, <1>4, <1>5, <1>6, <1>7, Zenon DEF Remembered

\* A message that was published keeps its identifier and its QoS.
Along ==
    \A m \in Msgs : cst[m] # "new" => cst'[m] # "new" /\ pid'[m] = pid[m] /\ qos'[m] = qos[m]

AboutNext(p) ==
    /\ p.m \in Msgs /\ cst'[p.m] # "new" /\ p.id = pid'[p.m]
    /\ p.t = "PUBREL" => qos'[p.m] = 2

\* What a packet is about stays so while messages keep their identifiers.
LEMMA AboutStays == ASSUME Along, NEW p, About(p) PROVE AboutNext(p)
  BY Zenon DEF Along, About, AboutNext

\* What is queued was queued, or is sent now.
Fed ==
    \A k \in Conns : \A i \in DOMAIN in'[k] :
        \/ \E j \in DOMAIN in[k] : in'[k][i] = in[k][j]
        \/ AboutNext(in'[k][i]) /\ in'[k][i].t \in {"PUBLISH", "PUBREL"}

\* A queue that gains only packets about published messages stays in order.
LEMMA FedKeeps == ASSUME Queues, Along, Fed PROVE Queues'
<1> SUFFICES ASSUME NEW k \in Conns, NEW i \in DOMAIN in'[k]
             PROVE  AboutNext(in'[k][i]) /\ in'[k][i].t \in {"PUBLISH", "PUBREL"}
  BY Zenon DEF Queues, About, AboutNext
<1>1. ASSUME NEW j \in DOMAIN in[k], in'[k][i] = in[k][j]
      PROVE  AboutNext(in'[k][i]) /\ in'[k][i].t \in {"PUBLISH", "PUBREL"}
  <2>1. About(in[k][j]) /\ in[k][j].t \in {"PUBLISH", "PUBREL"}
    BY Zenon DEF Queues
  <2>2. AboutNext(in[k][j])
    BY <2>1, AboutStays, Zenon
  <2>3. QED
    BY <1>1, <2>1, <2>2, Zenon
<1>2. QED
  BY <1>1, Zenon DEF Fed

\* What a reader has in hand it had, or takes now; it goes on once the copy is out.
SameHand(k) == hand'[k].m = hand[k].m /\ hand'[k].id = hand[k].id /\ hand'[k].t = hand[k].t
Onward(k) ==
    /\ stage'[k] = "release" <=> stage[k] = "release"
    /\ stage'[k] \in {"live", "record"} => stage[k] \in {"live", "record"} \/ queued'[hand[k].m] # {}
    /\ stage'[k] = "record" => stage[k] = "record" \/ sent'[hand[k].m] # {}
Taking(k) ==
    /\ About(hand'[k])
    /\ \/ stage'[k] = "auth" /\ hand'[k].t = "PUBLISH"
       \/ stage'[k] = "release" /\ hand'[k].t = "PUBREL"
Handled ==
    \A k \in Conns : stage'[k] \in Busy =>
        (stage[k] \in Busy /\ SameHand(k) /\ Onward(k)) \/ Taking(k)

\* Copies stay.
More == \A m \in Msgs : queued[m] \subseteq queued'[m] /\ sent[m] \subseteq sent'[m]

\* What readers have in hand stays in order while they go on or take a packet.
LEMMA HandledKeeps == ASSUME Sound, Along, Handled, More PROVE Hands' /\ Passed'
<1>1. ASSUME NEW k \in Conns, stage'[k] \in Busy, stage[k] \in Busy, SameHand(k), Onward(k)
      PROVE  /\ stage'[k] \in Forwarding => AboutNext(hand'[k]) /\ hand'[k].t = "PUBLISH"
             /\ stage'[k] = "release" => AboutNext(hand'[k]) /\ hand'[k].t = "PUBREL"
             /\ stage'[k] \in {"live", "record"} => queued'[hand'[k].m] # {}
             /\ stage'[k] = "record" => sent'[hand'[k].m] # {}
  <2>1. hand[k].m \in Msgs /\ About(hand[k])
    BY <1>1, HandF, Zenon
  <2>2. AboutNext(hand[k])
    BY <2>1, AboutStays, Zenon
  <2>3. AboutNext(hand'[k])
    BY <1>1, <2>2, Zenon DEF AboutNext, SameHand
  <2>4. hand[k].t = IF stage[k] = "release" THEN "PUBREL" ELSE "PUBLISH"
    BY <1>1, Zenon DEF Sound, Hands, Busy
  <2>5. /\ stage[k] \in {"live", "record"} => queued'[hand[k].m] # {}
        /\ stage[k] = "record" => sent'[hand[k].m] # {}
    BY <2>1, Zenon DEF Sound, Passed, More
  <2>6. /\ stage'[k] \in {"live", "record"} => queued'[hand'[k].m] # {}
        /\ stage'[k] = "record" => sent'[hand'[k].m] # {}
    BY <1>1, <2>5, Zenon DEF Onward, SameHand
  <2>7. QED
    BY <1>1, <2>3, <2>4, <2>6, Zenon DEF Onward, SameHand, Forwarding
<1>2. ASSUME NEW k \in Conns, stage'[k] \in Busy, Taking(k)
      PROVE  /\ stage'[k] \in Forwarding => AboutNext(hand'[k]) /\ hand'[k].t = "PUBLISH"
             /\ stage'[k] = "release" => AboutNext(hand'[k]) /\ hand'[k].t = "PUBREL"
             /\ stage'[k] \notin {"live", "record"}
  <2>1. AboutNext(hand'[k])
    BY <1>2, Zenon DEF Taking, AboutNext, Along, About
  <2>2. QED
    BY <1>2, <2>1, Zenon DEF Taking, Forwarding
<1>3. Hands'
  <2> SUFFICES ASSUME NEW k \in Conns
               PROVE  /\ stage'[k] \in Forwarding => AboutNext(hand'[k]) /\ hand'[k].t = "PUBLISH"
                      /\ stage'[k] = "release" => AboutNext(hand'[k]) /\ hand'[k].t = "PUBREL"
    BY Zenon DEF Hands, About, AboutNext
  <2>1. QED
    BY <1>1, <1>2, Zenon DEF Handled, Busy
<1>4. Passed'
  <2> SUFFICES ASSUME NEW k \in Conns
               PROVE  /\ stage'[k] \in {"live", "record"} => queued'[hand'[k].m] # {}
                      /\ stage'[k] = "record" => sent'[hand'[k].m] # {}
    BY Zenon DEF Passed
  <2>1. stage'[k] \in {"live", "record"} => stage'[k] \in Busy
    BY Zenon DEF Busy, Forwarding
  <2>2. QED
    BY <1>1, <1>2, <2>1, Zenon DEF Handled
<1>5. QED
  BY <1>3, <1>4, Zenon

\* No message is published.
NoneNew ==
    /\ pid' = pid /\ qos' = qos
    /\ \A m \in Msgs : cst'[m] = "new" <=> cst[m] = "new"
    /\ \A m \in Msgs : cst'[m] \in {"pub", "rel"} => cst[m] \in {"pub", "rel"}
    /\ \A m \in Msgs : cst'[m] = "rel" => cst[m] = "rel" \/ qos[m] = 2

\* Acknowledgements keep identifiers apart.
LEMMA NoneNewKeeps == ASSUME Distinct, NoneNew PROVE Distinct' /\ Along
<1>1. Along
  BY Zenon DEF NoneNew, Along
<1>2. Distinct'
  BY Zenon DEF NoneNew, Distinct, Unfinished
<1>3. QED
  BY <1>1, <1>2, Zenon

\* The effect of most steps.
LEMMA SoundStep ==
    ASSUME Sound, TypeOK', Newest', Remembered', NoneNew, Fed, Handled, More
    PROVE  Sound' /\ Along
<1>1. Distinct' /\ Along
  BY NoneNewKeeps, Zenon DEF Sound
<1>2. Queues' /\ Hands' /\ Passed'
  BY <1>1, FedKeeps, HandledKeeps, Zenon DEF Sound
<1>3. QED
  BY <1>1, <1>2, Zenon DEF Sound

----------------------------------------------------------------------------
(* Steps that answer nothing and take no packet. *)

Calm ==
    /\ rec'.by = rec.by /\ obj' = obj /\ at' = at /\ up' \subseteq up /\ shut \subseteq shut'
    /\ cst' = cst /\ pid' = pid /\ qos' = qos /\ More
    /\ \A k \in Conns : Part(in'[k], in[k])
    /\ \A k \in Conns : stage'[k] \in Busy =>
          stage[k] \in Busy /\ SameHand(k) /\ (stage'[k] = "release" <=> stage[k] = "release")
    /\ \A k \in Conns : stage[k] \in Forwarding /\ at[k] \in up' => stage'[k] \in Forwarding
    /\ \A o \in Conns : sess'[o].recv = sess[o].recv /\ sess'[o].forwarding = sess[o].forwarding
    /\ rec'.recv = rec.recv \/ (Alive /\ rec'.recv = Kept)
    /\ (overlap => overlap') /\ (unwritten => unwritten')

\* A part of a queue has nothing new.
LEMMA PartFed == ASSUME \A k \in Conns : Part(in'[k], in[k]) PROVE Fed
<1> SUFFICES ASSUME NEW k \in Conns, NEW i \in DOMAIN in'[k]
             PROVE  \E j \in DOMAIN in[k] : in'[k][i] = in[k][j]
  BY Zenon DEF Fed
<1>1. PICK g \in [DOMAIN in'[k] -> DOMAIN in[k]] : \A x \in DOMAIN in'[k] : in'[k][x] = in[k][g[x]]
  BY Zenon DEF Part
<1>2. g[i] \in DOMAIN in[k] /\ in'[k][i] = in[k][g[i]]
  BY <1>1, Zenon
<1>3. QED
  BY <1>2, Zenon

\* What a step leaves alone.
LEMMA CalmSound ==
    ASSUME Sound, TypeOK', Newest', Remembered', Calm,
           \A k \in Conns : stage'[k] \in Busy => Onward(k)
    PROVE  Sound'
<1>1. NoneNew
  BY Zenon DEF Calm, NoneNew
<1>2. Fed
  BY PartFed, Zenon DEF Calm
<1>3. Handled
  BY Zenon DEF Handled, Calm
<1>4. QED
  BY <1>1, <1>2, <1>3, SoundStep, Zenon DEF Calm

\* The connection breaks.
LEMMA Drop_Sound == ASSUME Sound, Drop PROVE Sound' /\ Calm
<1>1. conn \in Conns /\ in \in [Conns -> Seq(Packets)]
  BY OpenF, Zenon DEF Drop, Sound, TypeOK
<1>2. PICK n \in 0..Len(in[conn]) : in' = [in EXCEPT ![conn] = SubSeq(in[conn], 1, n)]
  BY Zenon DEF Drop
<1>3. SubSeq(in[conn], 1, n) \in Seq(Packets) /\ Part(SubSeq(in[conn], 1, n), in[conn])
  BY <1>1, SubSeqPart, Zenon
<1>4. in' \in [Conns -> Seq(Packets)]
  BY <1>1, <1>2, <1>3, Zenon
<1>5. \A k \in Conns : Part(in'[k], in[k])
  BY <1>1, <1>2, <1>3, PartSelf, Zenon
<1>6. /\ conn' = Nil
      /\ UNCHANGED <<cst, pid, qos, up, at, stage, hand, shut, openQoS2, obj,
                     sess, mem, rec, queued, sent, overlap, exposed, known, unwritten>>
  BY Zenon DEF Drop, sessVars, outVars, ghosts
<1>7. TypeOK'
  BY <1>4, <1>6, Zenon DEF Sound, TypeOK
<1>8. Steady
  BY <1>6, Zenon DEF Steady
<1>9. Calm
  BY <1>5, <1>6, Zenon DEF Calm, More, SameHand
<1>10. \A k \in Conns : stage'[k] \in Busy => Onward(k)
  BY <1>6, Zenon DEF Onward
<1>11. QED
  BY <1>7, <1>8, <1>9, <1>10, SteadyKeeps, CalmSound, Zenon

\* A reader that rests goes on resting.
Idles(k) ==
    /\ stage[k] \notin Busy \cup {"none", "over"}
    /\ \E to \in {"idle", "armed", "end", "kicked"} : stage' = [stage EXCEPT ![k] = to]
    /\ in' = in \/ (in[k] # <<>> /\ in' = [in EXCEPT ![k] = Tail(in[k])])
    /\ (overlap => overlap') /\ overlap' \in BOOLEAN
    /\ UNCHANGED <<cst, pid, qos, conn, up, at, hand, shut, obj, sess, mem, rec, queued,
                   sent, exposed, unwritten>>

\* readLoop without a packet in hand keeps Sound.
LEMMA Idles_Sound == ASSUME Sound, NEW k \in Conns, Idles(k) PROVE Sound' /\ Calm
<1>1. in \in [Conns -> Seq(Packets)] /\ stage \in [Conns -> Stages]
  BY Zenon DEF Sound, TypeOK
<1>2. PICK to \in {"idle", "armed", "end", "kicked"} : stage' = [stage EXCEPT ![k] = to]
  BY Zenon DEF Idles
<1>3. /\ stage' \in [Conns -> Stages] /\ stage'[k] \notin Busy \cup {"none", "over"}
      /\ \A j \in Conns \ {k} : stage'[j] = stage[j]
  BY <1>1, <1>2, Zenon DEF Stages, Busy, Forwarding
<1>4. in' \in [Conns -> Seq(Packets)] /\ \A j \in Conns : Part(in'[j], in[j])
  <2>1. CASE in' = in
    BY <1>1, <2>1, PartSelf, Zenon
  <2>2. CASE in[k] # <<>> /\ in' = [in EXCEPT ![k] = Tail(in[k])]
    <3>1. Tail(in[k]) \in Seq(Packets) /\ Part(Tail(in[k]), in[k])
      BY <2>2, HeadF, Zenon
    <3>2. QED
      BY <1>1, <2>2, <3>1, PartSelf, Zenon
  <2>3. QED
    BY <2>1, <2>2, Zenon DEF Idles
<1>5. TypeOK'
  BY <1>3, <1>4, Zenon DEF Sound, TypeOK, Idles
<1>6. Steady
  BY <1>3, Zenon DEF Steady, Idles
<1>7. \A j \in Conns : stage'[j] \in Busy => j # k /\ stage[j] = stage'[j]
  BY <1>3, Zenon
<1>8. Calm
  <2>1. \A j \in Conns : stage[j] \in Forwarding => stage'[j] \in Forwarding
    BY <1>3, Zenon DEF Idles, Busy
  <2>2. QED
    BY <1>4, <1>7, <2>1, Zenon DEF Calm, More, SameHand, Idles
<1>9. \A j \in Conns : stage'[j] \in Busy => Onward(j)
  BY <1>7, Zenon DEF Onward
<1>10. QED
  BY <1>5, <1>6, <1>8, <1>9, SteadyKeeps, CalmSound, Zenon

\* The check of readLoop and a read that fails are such steps.
LEMMA Arm_Idles == ASSUME Sound, NEW k \in Conns, Arm(k) \/ ReadFails(k) PROVE Idles(k)
  BY Zenon DEF Arm, ReadFails, Idles, Goes, Busy, Forwarding, sessVars, outVars, ghosts, clientVars,
         Sound, TypeOK

\* A message is allowed, and gets its message id; its queue copy is stored; its
\* live copy is published.
Allows(k) ==
    LET p == hand[k] IN
    /\ stage[k] = "auth" /\ at[k] \in up /\ Goes(k, "keep")
    /\ hand' = [hand EXCEPT ![k] = [hand[k] EXCEPT !.mid = idFor(k)]]
    /\ sess' = IF Dedupe
               THEN [sess EXCEPT ![obj[k]] =
                       pends(sess[obj[k]], p.id, [m |-> p.m, mid |-> idFor(k)])]
               ELSE sess
    /\ UNCHANGED <<cst, pid, qos, conn, up, at, in, shut, obj, mem, rec, queued, sent,
                   overlap, exposed, unwritten>>
Stores(k) ==
    /\ stage[k] = "keep" /\ at[k] \in up /\ Goes(k, "live")
    /\ queued' = [queued EXCEPT ![hand[k].m] = queued[hand[k].m] \cup {hand[k].mid}]
    /\ UNCHANGED <<cst, pid, qos, conn, up, at, in, hand, shut, obj, sess, mem, rec, sent,
                   overlap, exposed, unwritten>>
Sends(k) ==
    /\ stage[k] = "live" /\ at[k] \in up /\ Goes(k, "record")
    /\ sent' = [sent EXCEPT ![hand[k].m] = sent[hand[k].m] \cup {hand[k].mid}]
    /\ UNCHANGED <<cst, pid, qos, conn, up, at, in, hand, shut, obj, sess, mem, rec, queued,
                   overlap, exposed, unwritten>>

\* What is allowed has an id, which the session remembers.
LEMMA AllowsF ==
    ASSUME Sound, NEW k \in Conns, Allows(k)
    PROVE  /\ idFor(k) \in Conns \cup {Nil}
           /\ hand' \in [Conns -> Packets] /\ SameHand(k) /\ hand'[k].dup = hand[k].dup
           /\ hand'[k].mid = idFor(k) /\ \A j \in Conns \ {k} : hand'[j] = hand[j]
           /\ Becomes(sess', obj[k], sess[obj[k]].recv, sess[obj[k]].forwarding,
                      IF Dedupe THEN [sess[obj[k]].pending EXCEPT ![hand[k].id] =
                                         [m |-> hand[k].m, mid |-> idFor(k)]]
                      ELSE sess[obj[k]].pending)
<1>1. stage[k] \in Busy /\ stage[k] # "none" /\ TypeOK
  BY Zenon DEF Allows, Busy, Forwarding, Sound
<1>2. hand[k] \in Packets /\ hand[k].m \in Msgs /\ hand[k].id \in Ids /\ obj[k] \in Conns
  BY <1>1, HandF, StartedF, Zenon
<1>3. sess[obj[k]].pending[hand[k].id] \in Entries
  BY <1>1, <1>2 DEF TypeOK, Sessions
<1>4. idFor(k) \in Conns \cup {Nil}
  BY <1>2, <1>3, Zenon DEF idFor, Entries
<1> DEFINE h == [hand[k] EXCEPT !.mid = idFor(k)]
           e == [m |-> hand[k].m, mid |-> idFor(k)]
<1>5. /\ h \in Packets /\ h.m = hand[k].m /\ h.id = hand[k].id /\ h.t = hand[k].t
      /\ h.dup = hand[k].dup /\ h.mid = idFor(k)
  BY <1>2, <1>4, Zenon DEF Packets
<1>6. hand' = [hand EXCEPT ![k] = h]
  BY Zenon DEF Allows
<1>7. e \in Entries
  BY <1>2, <1>4, Zenon DEF Entries
<1>8. sess' = IF Dedupe THEN [sess EXCEPT ![obj[k]] = pends(sess[obj[k]], hand[k].id, e)] ELSE sess
  BY Zenon DEF Allows
<1> HIDE DEF h, e
<1>9. /\ hand' \in [Conns -> Packets] /\ SameHand(k) /\ hand'[k].dup = hand[k].dup
      /\ hand'[k].mid = idFor(k) /\ \A j \in Conns \ {k} : hand'[j] = hand[j]
  BY <1>1, <1>5, <1>6, Zenon DEF TypeOK, SameHand
<1>10. Becomes(sess', obj[k], sess[obj[k]].recv, sess[obj[k]].forwarding,
               IF Dedupe THEN [sess[obj[k]].pending EXCEPT ![hand[k].id] = e]
               ELSE sess[obj[k]].pending)
  <2>1. CASE Dedupe
    BY <1>1, <1>2, <1>7, <1>8, <2>1, PendsF, Zenon
  <2>2. CASE ~Dedupe
    BY <1>1, <1>8, <2>2, Zenon DEF Becomes, TypeOK
  <2>3. QED
    BY <2>1, <2>2, Zenon
<1>11. QED
  BY <1>4, <1>9, <1>10, Zenon DEF e

\* The reader goes on to the next stage.
LEMMA OnwardF ==
    ASSUME Sound, NEW k \in Conns, NEW to \in Forwarding, stage[k] \in Forwarding,
           stage' = [stage EXCEPT ![k] = to]
    PROVE  /\ stage' \in [Conns -> Stages] /\ stage'[k] = to
           /\ \A j \in Conns \ {k} : stage'[j] = stage[j]
           /\ \A j \in Conns : /\ stage'[j] \in Forwarding <=> stage[j] \in Forwarding
                               /\ stage'[j] \in Busy <=> stage[j] \in Busy
                               /\ stage'[j] = "release" <=> stage[j] = "release"
                               /\ stage'[j] = "none" <=> stage[j] = "none"
                               /\ stage'[j] = "over" <=> stage[j] = "over"
<1>1. stage \in [Conns -> Stages]
  BY Zenon DEF Sound, TypeOK
<1>2. stage'[k] = to /\ \A j \in Conns \ {k} : stage'[j] = stage[j]
  BY <1>1, Zenon
<1>3. stage' \in [Conns -> Stages]
  BY <1>1, Zenon DEF Stages, Busy
<1>4. \A x \in Forwarding : x \in Busy /\ x \notin {"release", "none", "over"}
  BY Zenon DEF Busy, Forwarding
<1>5. QED
  BY <1>2, <1>3, <1>4, Zenon

\* An allowed message keeps Sound.
LEMMA Allows_Sound == ASSUME Sound, NEW k \in Conns, Allows(k) PROVE Sound' /\ Calm
<1>1. stage[k] \in Forwarding /\ stage[k] # "none" /\ stage[k] = "auth"
  BY Zenon DEF Allows, Forwarding
<1>2. /\ stage' \in [Conns -> Stages] /\ stage'[k] = "keep"
      /\ \A j \in Conns \ {k} : stage'[j] = stage[j]
      /\ \A j \in Conns : /\ stage'[j] \in Forwarding <=> stage[j] \in Forwarding
                          /\ stage'[j] \in Busy <=> stage[j] \in Busy
                          /\ stage'[j] = "release" <=> stage[j] = "release"
                          /\ stage'[j] = "none" <=> stage[j] = "none"
                          /\ stage'[j] = "over" <=> stage[j] = "over"
  BY <1>1, OnwardF, Zenon DEF Allows, Goes, Forwarding
<1>3. /\ hand' \in [Conns -> Packets] /\ \A j \in Conns : SameHand(j)
  BY AllowsF, Zenon DEF SameHand
<1>4. /\ sess' \in [Conns -> Sessions]
      /\ \A o \in Conns : /\ sess'[o].gen = sess[o].gen /\ sess'[o].recv = sess[o].recv
                          /\ sess'[o].forwarding = sess[o].forwarding
  BY AllowsF, Zenon DEF Becomes
<1>5. UNCHANGED <<cst, pid, qos, conn, up, at, in, shut, obj, mem, rec, queued, sent,
                  overlap, exposed, unwritten>>
  BY Zenon DEF Allows
<1>6. TypeOK'
  BY <1>2, <1>3, <1>4, <1>5, Zenon DEF Sound, TypeOK
<1>7. Steady
  BY <1>2, <1>4, <1>5, Zenon DEF Steady
<1>8. Calm
  BY <1>2, <1>3, <1>4, <1>5, PartSelf, Zenon DEF Calm, More
<1>9. \A j \in Conns : stage'[j] \in Busy => Onward(j)
  BY <1>1, <1>2, Zenon DEF Onward
<1>10. QED
  BY <1>6, <1>7, <1>8, <1>9, SteadyKeeps, CalmSound, Zenon

\* A copy is added to those of message m.
LEMMA AddedF ==
    ASSUME NEW C, NEW f \in [Msgs -> SUBSET C], NEW m \in Msgs, NEW x \in C
    PROVE  LET g == [f EXCEPT ![m] = f[m] \cup {x}] IN
           /\ g \in [Msgs -> SUBSET C] /\ x \in g[m] /\ g[m] = f[m] \cup {x}
           /\ \A n \in Msgs : f[n] \subseteq g[n] /\ (n # m => g[n] = f[n])
  BY Zenon

\* The same for the two copies.
LEMMA Copies_Sound == ASSUME Sound, NEW k \in Conns, Stores(k) \/ Sends(k) PROVE Sound' /\ Calm
<1>1. stage[k] \in Forwarding /\ stage[k] # "none" /\ stage[k] \in Busy
  BY Zenon DEF Stores, Sends, Forwarding, Busy
<1>2. hand[k].m \in Msgs /\ hand[k].mid \in Conns \cup {Nil}
  BY <1>1, HandF, Zenon DEF Packets
<1>3. PICK to \in {"live", "record"} : stage' = [stage EXCEPT ![k] = to]
  BY Zenon DEF Stores, Sends, Goes
<1>4. /\ stage' \in [Conns -> Stages] /\ stage'[k] = to
      /\ \A j \in Conns \ {k} : stage'[j] = stage[j]
      /\ \A j \in Conns : /\ stage'[j] \in Forwarding <=> stage[j] \in Forwarding
                          /\ stage'[j] \in Busy <=> stage[j] \in Busy
                          /\ stage'[j] = "release" <=> stage[j] = "release"
                          /\ stage'[j] = "none" <=> stage[j] = "none"
                          /\ stage'[j] = "over" <=> stage[j] = "over"
  <2>1. to \in Forwarding
    BY Zenon DEF Forwarding
  <2>2. QED
    BY <1>1, <1>3, <2>1, OnwardF, Zenon
<1>5. /\ queued' \in [Msgs -> SUBSET (Conns \cup {Nil})] /\ sent' \in [Msgs -> SUBSET (Conns \cup {Nil})]
      /\ More
  <2> DEFINE C == Conns \cup {Nil}
  <2>1. queued \in [Msgs -> SUBSET C] /\ sent \in [Msgs -> SUBSET C]
    BY Zenon DEF Sound, TypeOK
  <2>2. CASE Stores(k)
    BY <1>2, <2>1, <2>2, AddedF DEF Stores, More
  <2>3. CASE Sends(k)
    BY <1>2, <2>1, <2>3, AddedF DEF Sends, More
  <2>4. QED
    BY <2>2, <2>3, Zenon
<1>6. /\ stage'[k] \in {"live", "record"} => stage[k] \in {"live", "record"} \/ queued'[hand[k].m] # {}
      /\ stage'[k] = "record" => stage[k] = "record" \/ sent'[hand[k].m] # {}
  <2>1. CASE Stores(k)
    <3>1. stage'[k] = "live"
      BY <2>1, Zenon DEF Stores, Goes, Sound, TypeOK
    <3>2. hand[k].mid \in queued'[hand[k].m]
      BY <1>2, <2>1, Zenon DEF Stores, Sound, TypeOK
    <3>3. QED
      BY <3>1, <3>2, Zenon
  <2>2. CASE Sends(k)
    <3>1. stage[k] = "live"
      BY <2>2, Zenon DEF Sends
    <3>2. hand[k].mid \in sent'[hand[k].m]
      BY <1>2, <2>2, Zenon DEF Sends, Sound, TypeOK
    <3>3. QED
      BY <3>1, <3>2, Zenon
  <2>3. QED
    BY <2>1, <2>2, Zenon
<1>7. UNCHANGED <<cst, pid, qos, conn, up, at, in, hand, shut, obj, sess, mem, rec,
                  overlap, exposed, unwritten>>
  BY Zenon DEF Stores, Sends
<1>8. TypeOK'
  BY <1>4, <1>5, <1>7, Zenon DEF Sound, TypeOK
<1>9. Steady
  BY <1>4, <1>7, Zenon DEF Steady
<1>10. Calm
  BY <1>4, <1>5, <1>7, PartSelf, Zenon DEF Calm, SameHand
<1>11. \A j \in Conns : stage'[j] \in Busy => Onward(j)
  BY <1>4, <1>6, Zenon DEF Onward
<1>12. QED
  BY <1>8, <1>9, <1>10, <1>11, SteadyKeeps, CalmSound, Zenon

\* A PUBLISH over the Receive Maximum ends the connection.
Kicks(k) ==
    /\ stage[k] = "armed" /\ in[k] # <<>> /\ Goes(k, "kicked")
    /\ in' = [in EXCEPT ![k] = Tail(in[k])]
    /\ overlap' = (overlap \/ Overlaps(k, Head(in[k])))
    /\ UNCHANGED <<cst, pid, qos, conn, up, at, hand, shut, obj, sess, mem, rec, queued,
                   sent, exposed, unwritten>>

\* It leaves no packet in hand.
LEMMA Kicks_Idles == ASSUME Sound, NEW k \in Conns, Kicks(k) PROVE Idles(k)
<1>1. overlap' \in BOOLEAN /\ (overlap => overlap')
  BY Zenon DEF Kicks, Overlaps, Sound, TypeOK
<1>2. QED
  BY <1>1, Zenon DEF Kicks, Idles, Goes, Busy, Forwarding

\* What is recorded of a session.
LEMMA CheckF ==
    ASSUME Sound, NEW k \in Conns, NEW s \in Sessions
    PROVE  /\ checkpointed(k, s) \in [by : Conns \cup {Nil}, recv : SUBSET Ids]
           /\ checkpointed(k, s).by = rec.by
           /\ checkpointed(k, s).recv = s.recv \ s.forwarding
  BY Zenon DEF Sound, TypeOK, Sessions, checkpointed, recorded

\* The connections stay with their brokers and sessions.
LEMMA RememberedStays ==
    ASSUME Sound, rec'.by = rec.by, at' = at, obj' = obj, mem' = mem, up' = up,
           \A o \in Conns : sess'[o].gen = sess[o].gen,
           \A k \in Conns : stage'[k] = "none" <=> stage[k] = "none"
    PROVE  Remembered'
<1>1. TypeOK /\ Newest /\ Remembered
  BY Zenon DEF Sound
<1>3. rec.by # Nil => Cur \in Conns
  <2>1. SUFFICES ASSUME rec.by # Nil PROVE Cur \in Conns
    BY Zenon
  <2>2. rec.by \in Conns /\ rec.by <= rec.by
    BY <1>1, <2>1, InboundAssumption DEF TypeOK, Conns
  <2>3. QED
    BY <1>1, <2>2, Zenon DEF Newest, Remembered, Cur
<1>4. (\A k \in Conns : Started(k) => at[k] \in Brokers /\ obj[k] \in Conns /\ obj[k] <= k)'
  BY <1>1, Zenon DEF Remembered, Started
<1>5. (\A j, k \in Conns : Started(j) /\ Started(k) /\ obj[j] = obj[k] => at[j] = at[k])'
  BY <1>1, Zenon DEF Remembered, Started
<1>6. (rec.by # Nil => sess[Cur].gen = rec.by)'
  BY <1>1, <1>3, Zenon DEF Remembered, Cur
<1>7. (Alive => mem[at[rec.by]] = Cur)' /\ (\A b \in Brokers : mem[b] # Nil => Alive /\ b = at[rec.by])'
  BY <1>1, Zenon DEF Remembered, Cur, Alive
<1>8. QED
  BY <1>4, <1>5, <1>6, <1>7, Zenon DEF Remembered

\* A tick of the checkpoint.
LEMMA Checkpoint_Sound == ASSUME Sound, NEW k \in Conns, Checkpoint(k) PROVE Sound' /\ Calm
<1>1. /\ stage[k] # "none" /\ at[k] \in up /\ rec.by = k
      /\ rec' = checkpointed(k, sess[obj[k]])
  BY Zenon DEF Checkpoint, Holds
<1>2. UNCHANGED <<cst, pid, qos, conn, up, at, in, stage, hand, shut, obj, sess, mem, queued,
                  sent, overlap, exposed, unwritten>>
  BY Zenon DEF Checkpoint, clientVars, readerVars, outVars
<1>3. obj[k] \in Conns /\ sess[obj[k]] \in Sessions
  BY <1>1, StartedF, Zenon DEF Sound, TypeOK
<1>4. /\ rec' \in [by : Conns \cup {Nil}, recv : SUBSET Ids] /\ rec'.by = rec.by
      /\ rec'.recv = Kept
  BY <1>1, <1>3, CheckF, Zenon DEF Kept, Cur
<1>5. Alive
  BY <1>1, InboundAssumption DEF Alive, Conns, Nil
<1>6. TypeOK'
  BY <1>2, <1>4, Zenon DEF Sound, TypeOK
<1>7. Steady
  BY <1>2, <1>4, Zenon DEF Steady
<1>8. Calm
  BY <1>2, <1>4, <1>5, PartSelf, Zenon DEF Calm, SameHand, More
<1>9. \A j \in Conns : stage'[j] \in Busy => Onward(j)
  BY <1>2, Zenon DEF Onward
<1>10. QED
  BY <1>6, <1>7, <1>8, <1>9, SteadyKeeps, CalmSound, Zenon

\* The end of a connection.
LEMMA Finish_Sound == ASSUME Sound, NEW k \in Conns, Finish(k) PROVE Sound' /\ Calm
<1>1. /\ stage[k] \in {"end", "kicked"} /\ at[k] \in up
      /\ stage' = [stage EXCEPT ![k] = "over"]
      /\ conn' = IF conn = k THEN Nil ELSE conn
      /\ shut' = shut \cup {k}
      /\ rec' = IF sess[obj[k]].gen = k /\ rec.by = k THEN checkpointed(k, sess[obj[k]]) ELSE rec
      /\ UNCHANGED <<cst, pid, qos, up, at, in, hand, obj, sess, mem, queued, sent, overlap,
                     exposed, unwritten>>
  BY Zenon DEF Finish, Goes, outVars
<1>2. stage[k] # "none" /\ stage[k] \notin Busy
  BY <1>1, Zenon DEF Busy, Forwarding
<1>3. obj[k] \in Conns /\ sess[obj[k]] \in Sessions
  BY <1>2, StartedF, Zenon DEF Sound, TypeOK
<1>4. /\ rec' \in [by : Conns \cup {Nil}, recv : SUBSET Ids] /\ rec'.by = rec.by
      /\ rec'.recv = rec.recv \/ (Alive /\ rec'.recv = Kept)
  <2>1. CASE sess[obj[k]].gen = k /\ rec.by = k
    <3>1. Alive
      BY <1>1, <2>1, InboundAssumption DEF Alive, Conns, Nil
    <3>2. QED
      BY <1>1, <1>3, <2>1, <3>1, CheckF, Zenon DEF Kept, Cur
  <2>2. CASE ~(sess[obj[k]].gen = k /\ rec.by = k)
    BY <1>1, <2>2, Zenon DEF Sound, TypeOK
  <2>3. QED
    BY <2>1, <2>2, Zenon
<1>5. /\ stage' \in [Conns -> Stages] /\ stage'[k] = "over"
      /\ \A j \in Conns \ {k} : stage'[j] = stage[j]
  BY <1>1, Zenon DEF Sound, TypeOK, Stages
<1>6. "over" \notin Busy
  BY Zenon DEF Busy, Forwarding
<1>7. TypeOK'
  BY <1>1, <1>4, <1>5, Zenon DEF Sound, TypeOK
<1>8. Newest'
  BY <1>1, <1>2, <1>4, <1>5 DEF Sound, Newest, Started
<1>9. Remembered'
  BY <1>1, <1>2, <1>4, <1>5, RememberedStays, Zenon
<1>10. \A j \in Conns : stage'[j] \in Busy => stage'[j] = stage[j]
  BY <1>5, <1>6, Zenon
<1>11. Calm
  <2>1. \A j \in Conns : stage[j] \in Forwarding => stage'[j] \in Forwarding
    BY <1>2, <1>5, Zenon DEF Busy
  <2>2. QED
    BY <1>1, <1>4, <1>10, <2>1, PartSelf, Zenon DEF Calm, SameHand, More
<1>12. \A j \in Conns : stage'[j] \in Busy => Onward(j)
  BY <1>10, Zenon DEF Onward
<1>13. QED
  BY <1>7, <1>8, <1>9, <1>11, <1>12, CalmSound, Zenon

\* The end of a broker.
LEMMA Kill_Sound == ASSUME Sound, NEW b \in Brokers, Kill(b) PROVE Sound' /\ Calm
<1> DEFINE gone == {k \in Conns : at[k] = b /\ stage[k] \notin {"none", "over"}}
<1>1. /\ up' = up \ {b}
      /\ mem' = [mem EXCEPT ![b] = Nil]
      /\ conn' = IF conn \in gone THEN Nil ELSE conn
      /\ stage' = [k \in Conns |-> IF k \in gone THEN "over" ELSE stage[k]]
      /\ UNCHANGED <<cst, pid, qos, at, in, hand, shut, obj, sess, rec, queued, sent, overlap,
                     exposed, unwritten>>
  BY Zenon DEF Kill, outVars, ghosts
<1>2. stage' \in [Conns -> Stages]
  BY <1>1, Zenon DEF Sound, TypeOK, Stages
<1>3. \A k \in Conns : /\ k \in gone => stage'[k] = "over" /\ stage[k] \notin {"none", "over"}
                       /\ k \notin gone => stage'[k] = stage[k]
                       /\ at[k] = b => k \in gone \/ stage[k] \in {"none", "over"}
                       /\ k \in gone => at[k] = b
  BY <1>1, Zenon
<1>a. mem' \in [Brokers -> Conns \cup {Nil}] /\ mem'[b] = Nil /\ \A c \in Brokers \ {b} : mem'[c] = mem[c]
  BY <1>1, Zenon DEF Sound, TypeOK
<1>b. conn' = conn \/ conn' = Nil
  BY <1>1, Zenon
<1>c. conn \in gone => conn' = Nil
  BY <1>1, Zenon
<1> HIDE DEF gone
<1>4. TypeOK'
  BY <1>1, <1>2, <1>a, <1>b, Zenon DEF Sound, TypeOK
<1>5. Newest'
  <2>1. \A k \in Conns : Started(k)' <=> Started(k)
    BY <1>3, Zenon DEF Started
  <2>2. (conn # Nil => conn = rec.by /\ conn \notin shut /\ stage[conn] # "over")'
    <3>1. SUFFICES ASSUME conn' # Nil
                   PROVE  conn' = rec.by /\ conn' \notin shut /\ stage'[conn'] # "over"
      BY <1>1, Zenon
    <3>2. conn' = conn /\ conn \notin gone
      BY <1>b, <1>c, <3>1, Zenon
    <3>3. conn \in Conns /\ conn = rec.by /\ conn \notin shut /\ stage[conn] # "over"
      BY <3>1, <3>2, OpenF, Zenon
    <3>4. QED
      BY <1>3, <3>2, <3>3, Zenon
  <2>3. (\A k \in Conns : stage[k] \notin {"none", "over"} => at[k] \in up)'
    BY <1>1, <1>3, Zenon DEF Sound, Newest
  <2>4. (\A k \in Conns : Started(k) <=> k <= rec.by)' /\ (\A k \in Conns : k < rec.by => k \in shut)'
        /\ (\A k \in shut : Started(k))'
    BY <1>1, <2>1, Zenon DEF Sound, Newest, TypeOK
  <2>5. QED
    BY <2>2, <2>3, <2>4, Zenon DEF Newest
<1>6. Remembered'
  <2>1. \A k \in Conns : Started(k)' <=> Started(k)
    BY <1>3, Zenon DEF Started
  <2>2. Remembered /\ TypeOK
    BY Zenon DEF Sound
  <2>3. (\A k \in Conns : Started(k) => at[k] \in Brokers /\ obj[k] \in Conns /\ obj[k] <= k)'
    BY <1>1, <2>1, <2>2, Zenon DEF Remembered
  <2>4. (\A j, k \in Conns : Started(j) /\ Started(k) /\ obj[j] = obj[k] => at[j] = at[k])'
    BY <1>1, <2>1, <2>2, Zenon DEF Remembered
  <2>5. (rec.by # Nil => sess[Cur].gen = rec.by)'
    BY <1>1, <2>2, Zenon DEF Remembered, Cur
  <2>6. (Alive => mem[at[rec.by]] = Cur)'
    BY <1>1, <1>a, <2>2, Zenon DEF Remembered, Cur, Alive, TypeOK
  <2>7. (\A c \in Brokers : mem[c] # Nil => Alive /\ c = at[rec.by])'
    BY <1>1, <1>a, <2>2, Zenon DEF Remembered, Cur, Alive
  <2>8. QED
    BY <2>3, <2>4, <2>5, <2>6, <2>7, Zenon DEF Remembered
<1>7. "over" \notin Busy
  BY Zenon DEF Busy, Forwarding
<1>8. \A k \in Conns : stage'[k] \in Busy => stage'[k] = stage[k]
  BY <1>3, <1>7, Zenon
<1>9. \A k \in Conns : stage[k] \in Forwarding /\ at[k] \in up' => stage'[k] \in Forwarding
  BY <1>1, <1>3, Zenon
<1>10. Calm
  BY <1>1, <1>8, <1>9, PartSelf, Zenon DEF Calm, SameHand, More
<1>11. \A k \in Conns : stage'[k] \in Busy => Onward(k)
  BY <1>8, Zenon DEF Onward
<1>12. QED
  BY <1>4, <1>5, <1>6, <1>10, <1>11, CalmSound, Zenon

----------------------------------------------------------------------------
(* Steps that take or answer a packet. *)

\* A step that answers message m keeps Sound.
LEMMA AnswerSound ==
    ASSUME Sound, NEW k \in Conns, NEW t \in {"PUBACK", "PUBREC", "PUBCOMP", "refusal"},
           NEW m \in Msgs, cst[m] # "new", t = "PUBREC" => qos[m] = 2,
           NEW rest \in [Conns -> Seq(Packets)], \A j \in Conns : Part(rest[j], in[j]),
           Answered(k, t, m, rest), TypeOK', Steady, pid' = pid, qos' = qos, More,
           \A j \in Conns \ {k} : SameHand(j)
    PROVE  Sound'
<1>1. Newest' /\ Remembered'
  BY SteadyKeeps, Zenon
<1>2. \/ cst'[m] = cst[m] \/ (cst[m] = "pub" /\ cst'[m] = "rel" /\ qos[m] = 2)
      \/ cst'[m] \in {"done", "refused"}
  BY Zenon DEF Answered, Received
<1>3. \A n \in Msgs \ {m} : cst'[n] = cst[n]
  BY Zenon DEF Answered
<1>4. NoneNew
  BY <1>2, <1>3, Zenon DEF NoneNew
<1>5. Along
  BY <1>4, NoneNewKeeps, Zenon DEF Sound
<1>6. Fed
  <2> SUFFICES ASSUME NEW j \in Conns, NEW i \in DOMAIN in'[j]
               PROVE  \/ \E x \in DOMAIN in[j] : in'[j][i] = in[j][x]
                      \/ AboutNext(in'[j][i]) /\ in'[j][i].t \in {"PUBLISH", "PUBREL"}
    BY Zenon DEF Fed
  <2>1. ASSUME NEW y \in DOMAIN rest[j] PROVE \E x \in DOMAIN in[j] : rest[j][y] = in[j][x]
    <3>1. PICK g \in [DOMAIN rest[j] -> DOMAIN in[j]] : \A x \in DOMAIN rest[j] : rest[j][x] = in[j][g[x]]
      BY Zenon DEF Part
    <3>2. g[y] \in DOMAIN in[j] /\ rest[j][y] = in[j][g[y]]
      BY <3>1, Zenon
    <3>3. QED
      BY <3>2, Zenon
  <2>2. CASE in'[j] = rest[j]
    BY <2>1, <2>2, Zenon
  <2>3. CASE in'[j] # rest[j]
    <3> DEFINE q == Packet("PUBREL", pid[m], m, FALSE)
    <3>1. j = k /\ in'[j] = Append(rest[j], q) /\ t = "PUBREC"
      BY <2>3, Zenon DEF Answered
    <3>2. q \in Packets /\ q.t = "PUBREL" /\ q.m = m /\ q.id = pid[m]
      BY Zenon DEF q, Packet, Packets, Nil, Sound, Distinct
    <3> HIDE DEF q
    <3>3. (i \in DOMAIN rest[j] /\ in'[j][i] = rest[j][i]) \/ in'[j][i] = q
      BY <3>1, <3>2, AppendF
    <3>4. AboutNext(q)
      BY <1>5, <3>1, <3>2, Zenon DEF AboutNext, Along
    <3>5. QED
      BY <2>1, <3>2, <3>3, <3>4, Zenon
  <2>4. QED
    BY <2>2, <2>3, Zenon
<1>7. Handled
  <2>1. ASSUME NEW j \in Conns, stage'[j] \in Busy
        PROVE  stage[j] \in Busy /\ SameHand(j) /\ Onward(j)
    <3>1. j # k
      BY <2>1, Zenon DEF Answered, Busy, Forwarding
    <3>2. QED
      BY <2>1, <3>1, Zenon DEF Answered, Onward
  <2>2. QED
    BY <2>1, Zenon DEF Handled
<1>8. QED
  BY <1>1, <1>4, <1>6, <1>7, SoundStep, Zenon

\* A reader that has something in hand, or has still to read it, is at work: the
\* step after it is neither the first nor the last of its connection.
LEMMA AnsweredSteady ==
    ASSUME Sound, NEW k \in Conns, stage[k] \notin {"none", "over"}, NEW t, NEW m, NEW rest,
           Answered(k, t, m, rest), rec'.by = rec.by,
           UNCHANGED <<at, up, obj, mem, shut, conn>>,
           \A o \in Conns : sess'[o].gen = sess[o].gen
    PROVE  Steady
  BY Zenon DEF Answered, Steady

\* A repeat is answered.
Repeats(k) ==
    LET p == Head(in[k]) IN
    /\ stage[k] = "armed" /\ at[k] \in up /\ in[k] # <<>> /\ p.t = "PUBLISH"
    /\ qos[p.m] = 2 /\ p.id \in sess[obj[k]].recv
    /\ Answered(k, "PUBREC", p.m, [in EXCEPT ![k] = Tail(in[k])])
    /\ overlap' = (overlap \/ Overlaps(k, p))
    /\ UNCHANGED <<pid, qos, conn, up, at, hand, shut, obj, sess, mem, rec, queued, sent,
                   exposed, unwritten>>

\* A message is taken to be forwarded.
Takes(k) ==
    LET p == Head(in[k]) IN
    /\ stage[k] = "armed" /\ at[k] \in up /\ in[k] # <<>> /\ p.t = "PUBLISH"
    /\ qos[p.m] = 2 => p.id \notin sess[obj[k]].recv
    /\ Goes(k, "auth") /\ in' = [in EXCEPT ![k] = Tail(in[k])]
    /\ hand' = [hand EXCEPT ![k] = p]
    /\ sess' = IF qos[p.m] = 2 THEN received(obj[k], p.id) ELSE sess
    /\ overlap' = (overlap \/ Overlaps(k, p))
    /\ UNCHANGED <<cst, pid, qos, conn, up, at, shut, obj, mem, rec, queued, sent, exposed,
                   unwritten>>

\* What handlePublish does with a PUBLISH.
LEMMA ReadPublishF ==
    ASSUME Sound, NEW k \in Conns, ReadPublish(k)
    PROVE  Kicks(k) \/ Repeats(k) \/ Takes(k)
<1>1. /\ stage[k] = "armed" /\ at[k] \in up /\ in[k] # <<>> /\ Head(in[k]).t = "PUBLISH"
      /\ overlap' = (overlap \/ Overlaps(k, Head(in[k])))
      /\ UNCHANGED <<pid, qos, conn, up, at, shut, obj, mem, rec, queued, sent, exposed, unwritten>>
  BY Zenon DEF ReadPublish, outVars
<1>2. CASE Goes(k, "kicked") /\ in' = [in EXCEPT ![k] = Tail(in[k])] /\ UNCHANGED <<cst, hand, sess>>
  BY <1>1, <1>2, Zenon DEF Kicks
<1>3. CASE /\ qos[Head(in[k]).m] = 2 /\ Head(in[k]).id \in sess[obj[k]].recv
           /\ Write(k, "PUBREC", Head(in[k]).m, [in EXCEPT ![k] = Tail(in[k])])
           /\ UNCHANGED <<hand, sess>>
  <2> DEFINE rest == [in EXCEPT ![k] = Tail(in[k])]
  <2>1. rest \in [Conns -> Seq(Packets)]
    BY <1>1, HeadF, Zenon DEF Sound, TypeOK
  <2>2. Head(in[k]).m \in Msgs /\ cst[Head(in[k]).m] # "new" /\ stage[k] # "none"
    BY <1>1, HeadF, Zenon
  <2> HIDE DEF rest
  <2>3. Answered(k, "PUBREC", Head(in[k]).m, rest)
    BY <1>3, <2>1, <2>2, WriteF, Zenon DEF rest
  <2>4. QED
    BY <1>1, <1>3, <2>3, Zenon DEF Repeats, rest
<1>4. CASE /\ ~(qos[Head(in[k]).m] = 2 /\ Head(in[k]).id \in sess[obj[k]].recv)
           /\ Goes(k, "auth") /\ in' = [in EXCEPT ![k] = Tail(in[k])]
           /\ hand' = [hand EXCEPT ![k] = Head(in[k])]
           /\ sess' = IF qos[Head(in[k]).m] = 2 THEN received(obj[k], Head(in[k]).id) ELSE sess
           /\ UNCHANGED cst
  BY <1>1, <1>4, Zenon DEF Takes
<1>5. QED
  BY <1>2, <1>3, <1>4, Zenon DEF ReadPublish, repeatAnswer

\* The queues without the packet that is read.
LEMMA RestF ==
    ASSUME Sound, NEW k \in Conns, in[k] # <<>>
    PROVE  LET rest == [in EXCEPT ![k] = Tail(in[k])] IN
           /\ rest \in [Conns -> Seq(Packets)] /\ \A j \in Conns : Part(rest[j], in[j])
           /\ rest[k] = Tail(in[k]) /\ \A j \in Conns \ {k} : rest[j] = in[j]
<1>1. in \in [Conns -> Seq(Packets)] /\ Tail(in[k]) \in Seq(Packets) /\ Part(Tail(in[k]), in[k])
  BY HeadF, Zenon DEF Sound, TypeOK
<1>2. QED
  BY <1>1, PartSelf, Zenon

\* The answer to a repeat.
LEMMA Repeats_Sound == ASSUME Sound, NEW k \in Conns, Repeats(k) PROVE Sound'
<1> DEFINE rest == [in EXCEPT ![k] = Tail(in[k])]
<1>1. rest \in [Conns -> Seq(Packets)] /\ \A j \in Conns : Part(rest[j], in[j])
  BY RestF, Zenon DEF Repeats
<1>2. Head(in[k]).m \in Msgs /\ cst[Head(in[k]).m] # "new" /\ stage[k] \notin {"none", "over"}
  BY HeadF, Zenon DEF Repeats
<1>3. Answered(k, "PUBREC", Head(in[k]).m, rest) /\ qos[Head(in[k]).m] = 2
  BY Zenon DEF Repeats
<1> HIDE DEF rest
<1>4. overlap' \in BOOLEAN
  BY Zenon DEF Repeats, Sound, TypeOK, Overlaps
<1>5. TypeOK'
  BY <1>3, <1>4, Zenon DEF Repeats, Answered, Sound, TypeOK
<1>6. Steady
  BY <1>2, <1>3, AnsweredSteady, Zenon DEF Repeats
<1>7. More /\ pid' = pid /\ qos' = qos /\ \A j \in Conns : SameHand(j)
  BY Zenon DEF Repeats, More, SameHand
<1>8. QED
  BY <1>1, <1>2, <1>3, <1>5, <1>6, <1>7, AnswerSound, Zenon

\* A packet is taken in hand.
LEMMA TakingSound ==
    ASSUME Sound, NEW k \in Conns, stage[k] = "armed", in[k] # <<>>,
           NEW to \in {"auth", "release"}, stage' = [stage EXCEPT ![k] = to],
           Head(in[k]).t = IF to = "auth" THEN "PUBLISH" ELSE "PUBREL",
           in' = [in EXCEPT ![k] = Tail(in[k])], hand' = [hand EXCEPT ![k] = Head(in[k])],
           sess' \in [Conns -> Sessions], \A o \in Conns : sess'[o].gen = sess[o].gen,
           overlap' = (overlap \/ Overlaps(k, Head(in[k]))),
           UNCHANGED <<cst, pid, qos, conn, up, at, shut, obj, mem, rec, queued, sent, exposed,
                       unwritten>>
    PROVE  Sound'
<1>1. in' \in [Conns -> Seq(Packets)] /\ \A j \in Conns : Part(in'[j], in[j])
  BY RestF, Zenon
<1>2. Head(in[k]) \in Packets /\ About(Head(in[k]))
  BY HeadF, Zenon
<1>3. stage' \in [Conns -> Stages] /\ stage'[k] = to /\ \A j \in Conns \ {k} : stage'[j] = stage[j]
  BY Zenon DEF Sound, TypeOK, Stages, Busy, Forwarding
<1>4. hand' \in [Conns -> Packets] /\ hand'[k] = Head(in[k]) /\ \A j \in Conns \ {k} : hand'[j] = hand[j]
  BY <1>2, Zenon DEF Sound, TypeOK
<1>5. overlap' \in BOOLEAN
  BY Zenon DEF Sound, TypeOK, Overlaps
<1>6. TypeOK'
  BY <1>1, <1>3, <1>4, <1>5, Zenon DEF Sound, TypeOK
<1>7. Steady
  BY <1>3, Zenon DEF Steady
<1>8. NoneNew /\ More
  BY Zenon DEF NoneNew, More
<1>9. Fed
  BY <1>1, PartFed, Zenon
<1>10. Taking(k)
  BY <1>2, <1>3, <1>4, Zenon DEF Taking
<1>11. \A j \in Conns \ {k} : SameHand(j) /\ Onward(j)
  BY <1>3, <1>4, Zenon DEF SameHand, Onward
<1>12. Handled
  BY <1>3, <1>10, <1>11, Zenon DEF Handled
<1>13. QED
  BY <1>6, <1>7, <1>8, <1>9, <1>12, SteadyKeeps, SoundStep, Zenon

\* What taking a message does to the sessions.
LEMMA TakesF ==
    ASSUME Sound, NEW k \in Conns, Takes(k)
    PROVE  LET p == Head(in[k]) IN
           /\ p.id \in Ids /\ obj[k] \in Conns
           /\ IF qos[p.m] = 2
              THEN Becomes(sess', obj[k], sess[obj[k]].recv \cup {p.id},
                           sess[obj[k]].forwarding \cup {p.id}, sess[obj[k]].pending)
              ELSE sess' = sess
<1>1. Head(in[k]).id \in Ids /\ obj[k] \in Conns /\ TypeOK
  BY HeadF, StartedF, Zenon DEF Takes, Sound
<1>2. QED
  BY <1>1, ReceivedF, Zenon DEF Takes

\* A message is taken.
LEMMA Takes_Sound == ASSUME Sound, NEW k \in Conns, Takes(k) PROVE Sound'
<1>1. sess' \in [Conns -> Sessions] /\ \A o \in Conns : sess'[o].gen = sess[o].gen
  BY TakesF, Zenon DEF Becomes, Sound, TypeOK
<1>2. "auth" \in {"auth", "release"}
  BY Zenon
<1>3. QED
  BY <1>1, <1>2, TakingSound, Zenon DEF Takes, Goes

\* What releasing an identifier does to the sessions.
LEMMA PubrelF ==
    ASSUME Sound, NEW k \in Conns, ReadPubrel(k)
    PROVE  LET p == Head(in[k]) IN
           /\ p.id \in Ids /\ obj[k] \in Conns
           /\ Becomes(sess', obj[k], sess[obj[k]].recv \ {p.id},
                      sess[obj[k]].forwarding \ {p.id}, sess[obj[k]].pending)
<1>1. Head(in[k]).id \in Ids /\ obj[k] \in Conns /\ TypeOK
  BY HeadF, StartedF, Zenon DEF ReadPubrel, Sound
<1>2. QED
  BY <1>1, ReleasedF, Zenon DEF ReadPubrel

\* A PUBREL is taken.
LEMMA ReadPubrel_Sound == ASSUME Sound, NEW k \in Conns, ReadPubrel(k) PROVE Sound'
<1>1. sess' \in [Conns -> Sessions] /\ \A o \in Conns : sess'[o].gen = sess[o].gen
  BY PubrelF, Zenon DEF Becomes
<1>2. "release" \in {"auth", "release"} /\ "release" # "auth"
  BY Zenon
<1>3. QED
  BY <1>1, <1>2, TakingSound, Zenon DEF ReadPubrel, Goes, clientVars, outVars

\* A reader leaves what it has in hand with the answer t.
Leaves(k, t) ==
    /\ stage[k] \in Busy /\ at[k] \in up
    /\ Answered(k, t, hand[k].m, in)
    /\ t \in {"PUBACK", "PUBREC", "PUBCOMP", "refusal"}
    /\ t \in {"PUBACK", "PUBREC"} => stage[k] = "record"
    /\ t = "PUBCOMP" <=> stage[k] = "release"
    /\ t = "PUBREC" => qos[hand[k].m] = 2
    /\ t = "PUBACK" => qos[hand[k].m] # 2
    /\ hand' = [hand EXCEPT ![k] = NoPacket]
    /\ sess' \in [Conns -> Sessions] /\ \A o \in Conns : sess'[o].gen = sess[o].gen
    /\ \A o \in Conns \ {obj[k]} : sess'[o] = sess[o]
    /\ rec' \in [by : Conns \cup {Nil}, recv : SUBSET Ids] /\ rec'.by = rec.by
    /\ unwritten' \in BOOLEAN /\ (unwritten => unwritten')
    /\ queued' \in [Msgs -> SUBSET (Conns \cup {Nil})]
    /\ sent' \in [Msgs -> SUBSET (Conns \cup {Nil})] /\ More
    /\ UNCHANGED <<pid, qos, conn, up, at, shut, obj, mem, overlap, exposed>>

\* A step that leaves a packet keeps Sound.
LEMMA LeavesSound == ASSUME Sound, NEW k \in Conns, NEW t, Leaves(k, t) PROVE Sound'
<1>1. hand[k].m \in Msgs /\ cst[hand[k].m] # "new" /\ stage[k] \notin {"none", "over"}
  BY HandF, Zenon DEF Leaves, Busy, Forwarding
<1>2. NoPacket \in Packets
  BY Zenon DEF NoPacket, Packets, Nil
<1>3. hand' \in [Conns -> Packets] /\ \A j \in Conns \ {k} : SameHand(j)
  BY <1>2, Zenon DEF Leaves, Sound, TypeOK, SameHand
<1>4. in \in [Conns -> Seq(Packets)] /\ \A j \in Conns : Part(in[j], in[j])
  BY PartSelf, Zenon DEF Sound, TypeOK
<1>5. TypeOK'
  BY <1>3, Zenon DEF Leaves, Answered, Sound, TypeOK
<1>6. Steady
  BY <1>1, AnsweredSteady, Zenon DEF Leaves
<1>7. QED
  BY <1>1, <1>3, <1>4, <1>5, <1>6, AnswerSound, Zenon DEF Leaves

\* What a checkpoint before an acknowledgement does: r and f are the identifiers
\* of the session.
Checks(k, r, f) ==
    /\ rec' \in [by : Conns \cup {Nil}, recv : SUBSET Ids] /\ rec'.by = rec.by
    /\ unwritten' \in BOOLEAN /\ (unwritten => unwritten')
    /\ rec'.recv = rec.recv \/ (Holds(k) /\ rec'.recv = r \ f)
    /\ Holds(k) /\ ~unwritten' => rec'.recv = r \ f

\* checkpointNow.
LEMMA ChecksF ==
    ASSUME Sound, NEW k \in Conns, NEW s \in Sessions, CheckpointNow(k, s)
    PROVE  Checks(k, s.recv, s.forwarding)
<1>1. rec \in [by : Conns \cup {Nil}, recv : SUBSET Ids] /\ unwritten \in BOOLEAN
  BY Zenon DEF Sound, TypeOK
<1>2. CASE rec' = (IF Holds(k) THEN checkpointed(k, s) ELSE rec) /\ unwritten' = unwritten
  BY <1>1, <1>2, CheckF, Zenon DEF Checks
<1>3. CASE rec' = rec /\ unwritten' = TRUE
  BY <1>1, <1>3, Zenon DEF Checks
<1>4. QED
  BY <1>2, <1>3, Zenon DEF CheckpointNow

\* A message that was forwarded is recorded and acknowledged.
Records(k) ==
    LET p == hand[k]
        o == obj[k]
    IN
    /\ Leaves(k, IF qos[p.m] = 2 THEN "PUBREC" ELSE "PUBACK") /\ stage[k] = "record"
    /\ Becomes(sess', o, sess[o].recv,
               IF qos[p.m] = 2 THEN sess[o].forwarding \ {p.id} ELSE sess[o].forwarding,
               IF Dedupe THEN [sess[o].pending EXCEPT ![p.id] = NoEntry] ELSE sess[o].pending)
    /\ IF qos[p.m] = 2 THEN Checks(k, sess[o].recv, sess[o].forwarding \ {p.id})
       ELSE UNCHANGED <<rec, unwritten>>
    /\ UNCHANGED <<queued, sent>>

\* The end of handlePublish.
LEMMA RecordF == ASSUME Sound, NEW k \in Conns, Record(k) PROVE Records(k)
<1> DEFINE p == hand[k]
           o == obj[k]
           d == IF Dedupe THEN pends(sess[o], p.id, NoEntry) ELSE sess[o]
           s == [d EXCEPT !.forwarding = sess[o].forwarding \ {p.id}]
<1>1. /\ stage[k] = "record" /\ at[k] \in up
      /\ hand' = [hand EXCEPT ![k] = NoPacket]
      /\ IF qos[p.m] = 2
         THEN /\ sess' = [sess EXCEPT ![o] = s]
              /\ CheckpointNow(k, s)
              /\ Write(k, "PUBREC", p.m, in)
         ELSE /\ sess' = [sess EXCEPT ![o] = d]
              /\ Write(k, "PUBACK", p.m, in)
              /\ UNCHANGED <<rec, unwritten>>
      /\ UNCHANGED <<pid, qos, conn, up, at, shut, obj, mem, queued, sent, overlap, exposed>>
  BY Zenon DEF Record, outVars
<1>2. stage[k] \in Busy /\ stage[k] # "none" /\ stage[k] # "release"
  BY <1>1, Zenon DEF Busy, Forwarding
<1>3. p \in Packets /\ p.m \in Msgs /\ p.id \in Ids /\ o \in Conns /\ cst[p.m] # "new"
  BY <1>2, HandF, StartedF, Zenon
<1>4. TypeOK /\ sess[o] \in Sessions /\ in \in [Conns -> Seq(Packets)] /\ sess \in [Conns -> Sessions]
  BY <1>3, Zenon DEF Sound, TypeOK
<1>5. NoEntry \in Entries
  BY Zenon DEF NoEntry, Entries, Nil
<1> DEFINE q == IF Dedupe THEN [sess[o].pending EXCEPT ![p.id] = NoEntry] ELSE sess[o].pending
<1>6. /\ d \in Sessions
      /\ Becomes([sess EXCEPT ![o] = d], o, sess[o].recv, sess[o].forwarding, q)
  <2>1. CASE Dedupe
    BY <1>3, <1>4, <1>5, <2>1, PendsF, Zenon
  <2>2. CASE ~Dedupe
    BY <1>3, <1>4, <2>2, Zenon DEF Becomes
  <2>3. QED
    BY <2>1, <2>2, Zenon
<1> HIDE DEF d, q, p, o
<1>7. d.recv = sess[o].recv /\ d.gen = sess[o].gen /\ d.pending = q
  BY <1>3, <1>4, <1>6, Zenon DEF Becomes
<1>8. Becomes([sess EXCEPT ![o] = s], o, sess[o].recv, sess[o].forwarding \ {p.id}, q)
  BY <1>3, <1>4, <1>6, <1>7, ForwardedF, Zenon
<1>9. s \in Sessions /\ s.recv = sess[o].recv /\ s.forwarding = sess[o].forwarding \ {p.id}
  <2>1. [sess EXCEPT ![o] = s][o] = s
    BY <1>3, <1>4, Zenon
  <2>2. QED
    BY <1>3, <1>8, <2>1, Zenon DEF Becomes
<1> HIDE DEF s
<1> DEFINE t == IF qos[p.m] = 2 THEN "PUBREC" ELSE "PUBACK"
<1>10. Answered(k, t, p.m, in)
  BY <1>1, <1>2, <1>3, <1>4, WriteF, Zenon
<1>11. Becomes(sess', o, sess[o].recv,
               IF qos[p.m] = 2 THEN sess[o].forwarding \ {p.id} ELSE sess[o].forwarding, q)
  BY <1>1, <1>6, <1>8, Zenon
<1>12. IF qos[p.m] = 2 THEN Checks(k, sess[o].recv, sess[o].forwarding \ {p.id})
       ELSE UNCHANGED <<rec, unwritten>>
  <2>1. CASE qos[p.m] = 2
    <3>1. Checks(k, s.recv, s.forwarding)
      BY <1>1, <1>9, <2>1, ChecksF, Zenon
    <3>2. QED
      BY <1>9, <2>1, <3>1, Zenon
  <2>2. CASE qos[p.m] # 2
    BY <1>1, <2>2, Zenon
  <2>3. QED
    BY <2>1, <2>2, Zenon
<1>13. /\ rec' \in [by : Conns \cup {Nil}, recv : SUBSET Ids] /\ rec'.by = rec.by
       /\ unwritten' \in BOOLEAN /\ (unwritten => unwritten')
  BY <1>4, <1>12, Zenon DEF Checks, TypeOK
<1>14. sess' \in [Conns -> Sessions] /\ (\A x \in Conns : sess'[x].gen = sess[x].gen)
       /\ \A x \in Conns \ {o} : sess'[x] = sess[x]
  BY <1>11, Zenon DEF Becomes
<1>15. Leaves(k, t)
  BY <1>1, <1>2, <1>4, <1>10, <1>13, <1>14, Zenon DEF Leaves, More, TypeOK, p, o
<1>16. QED
  BY <1>1, <1>11, <1>12, <1>15, Zenon DEF Records, p, o, q

\* A released identifier is recorded and confirmed.
Completes(k) ==
    /\ Leaves(k, "PUBCOMP") /\ stage[k] = "release"
    /\ Checks(k, sess[obj[k]].recv, sess[obj[k]].forwarding)
    /\ UNCHANGED <<sess, queued, sent>>

\* The end of handlePubrel.
LEMMA ReleaseF == ASSUME Sound, NEW k \in Conns, Release(k) PROVE Completes(k)
<1>1. /\ stage[k] = "release" /\ at[k] \in up
      /\ hand' = [hand EXCEPT ![k] = NoPacket]
      /\ CheckpointNow(k, sess[obj[k]])
      /\ Write(k, "PUBCOMP", hand[k].m, in)
      /\ UNCHANGED <<pid, qos, conn, up, at, shut, obj, sess, mem, queued, sent, overlap, exposed>>
  BY Zenon DEF Release, outVars
<1>2. stage[k] \in Busy /\ stage[k] # "none"
  BY <1>1, Zenon DEF Busy
<1>3. hand[k].m \in Msgs /\ cst[hand[k].m] # "new" /\ obj[k] \in Conns
  BY <1>2, HandF, StartedF, Zenon
<1>4. TypeOK /\ sess[obj[k]] \in Sessions /\ in \in [Conns -> Seq(Packets)]
  BY <1>3, Zenon DEF Sound, TypeOK
<1>5. Answered(k, "PUBCOMP", hand[k].m, in)
  BY <1>1, <1>2, <1>3, <1>4, WriteF, Zenon
<1>6. Checks(k, sess[obj[k]].recv, sess[obj[k]].forwarding)
  BY <1>1, <1>4, ChecksF, Zenon
<1>7. Leaves(k, "PUBCOMP")
  BY <1>1, <1>2, <1>4, <1>5, <1>6, Zenon DEF Leaves, More, TypeOK, Checks
<1>8. QED
  BY <1>1, <1>6, <1>7, Zenon DEF Completes

\* A message is refused; of the copy whose write failed there may be one.
Refuses(k) ==
    LET p == hand[k]
        o == obj[k]
    IN
    /\ Leaves(k, "refusal") /\ stage[k] \in {"auth", "keep", "live"}
    /\ IF qos[p.m] = 2
       THEN Becomes(sess', o, sess[o].recv \ {p.id}, sess[o].forwarding \ {p.id}, sess[o].pending)
       ELSE sess' = sess
    /\ \A m \in Msgs :
          \/ queued'[m] = queued[m] /\ sent'[m] = sent[m]
          \/ /\ m = p.m /\ stage[k] # "auth"
             /\ queued'[m] \cup sent'[m] = queued[m] \cup sent[m] \cup {p.mid}
    /\ UNCHANGED <<rec, unwritten>>

\* rejectPublish.
LEMMA RejectF ==
    ASSUME Sound, NEW k \in Conns, stage[k] \in {"auth", "keep", "live"}, at[k] \in up, Reject(k),
           queued' = queued \/ (stage[k] # "auth" /\ queued' = kept(k)),
           sent' = sent \/ (/\ stage[k] # "auth"
                            /\ sent' = [sent EXCEPT ![hand[k].m] = sent[hand[k].m] \cup {hand[k].mid}]),
           queued' = queued \/ sent' = sent,
           UNCHANGED <<pid, qos, conn, up, at, shut, obj, mem, rec, overlap, exposed, unwritten>>
    PROVE  Refuses(k)
<1>1. stage[k] \in Busy /\ stage[k] \notin {"none", "release"}
  BY Zenon DEF Busy, Forwarding
<1>2. /\ hand[k].m \in Msgs /\ hand[k].id \in Ids /\ obj[k] \in Conns /\ cst[hand[k].m] # "new"
      /\ hand[k].mid \in Conns \cup {Nil}
  BY <1>1, HandF, StartedF, Zenon DEF Packets
<1>3. TypeOK /\ in \in [Conns -> Seq(Packets)] /\ sess \in [Conns -> Sessions]
  BY Zenon DEF Sound, TypeOK
<1>4. Answered(k, "refusal", hand[k].m, in)
  BY <1>1, <1>2, <1>3, WriteF, Zenon DEF Reject
<1>5. IF qos[hand[k].m] = 2
      THEN Becomes(sess', obj[k], sess[obj[k]].recv \ {hand[k].id},
                   sess[obj[k]].forwarding \ {hand[k].id}, sess[obj[k]].pending)
      ELSE sess' = sess
  BY <1>2, <1>3, ReleasedF, Zenon DEF Reject
<1>6. sess' \in [Conns -> Sessions] /\ (\A x \in Conns : sess'[x].gen = sess[x].gen)
      /\ \A x \in Conns \ {obj[k]} : sess'[x] = sess[x]
  BY <1>3, <1>5, Zenon DEF Becomes
<1> DEFINE C == Conns \cup {Nil}
<1>7. queued \in [Msgs -> SUBSET C] /\ sent \in [Msgs -> SUBSET C]
  BY <1>3, Zenon DEF TypeOK
<1>8. /\ queued' \in [Msgs -> SUBSET C] /\ \A m \in Msgs : queued[m] \subseteq queued'[m]
      /\ queued' # queued => /\ stage[k] # "auth" /\ \A m \in Msgs \ {hand[k].m} : queued'[m] = queued[m]
                             /\ queued'[hand[k].m] = queued[hand[k].m] \cup {hand[k].mid}
  <2>1. CASE queued' = queued
    BY <1>7, <2>1, Zenon
  <2>2. CASE stage[k] # "auth" /\ queued' = kept(k)
    BY <1>2, <1>7, <2>2, AddedF DEF kept
  <2>3. QED
    BY <2>1, <2>2, Zenon
<1>9. /\ sent' \in [Msgs -> SUBSET C] /\ \A m \in Msgs : sent[m] \subseteq sent'[m]
      /\ sent' # sent => /\ stage[k] # "auth" /\ \A m \in Msgs \ {hand[k].m} : sent'[m] = sent[m]
                         /\ sent'[hand[k].m] = sent[hand[k].m] \cup {hand[k].mid}
  <2>1. CASE sent' = sent
    BY <1>7, <2>1, Zenon
  <2>2. CASE stage[k] # "auth" /\ sent' = [sent EXCEPT ![hand[k].m] = sent[hand[k].m] \cup {hand[k].mid}]
    BY <1>2, <1>7, <2>2, AddedF
  <2>3. QED
    BY <2>1, <2>2, Zenon
<1>10. \A m \in Msgs :
          \/ queued'[m] = queued[m] /\ sent'[m] = sent[m]
          \/ /\ m = hand[k].m /\ stage[k] # "auth"
             /\ queued'[m] \cup sent'[m] = queued[m] \cup sent[m] \cup {hand[k].mid}
  BY <1>8, <1>9, Zenon
<1>11. Leaves(k, "refusal")
  BY <1>1, <1>3, <1>4, <1>6, <1>8, <1>9, Zenon DEF Leaves, More, TypeOK, Reject
<1>12. QED
  BY <1>5, <1>10, <1>11, Zenon DEF Refuses

\* Authorize, Keep and Live: the reader goes on, or refuses.
LEMMA ForwardF ==
    ASSUME Sound, NEW k \in Conns, Authorize(k) \/ Keep(k) \/ Live(k)
    PROVE  Allows(k) \/ Stores(k) \/ Sends(k) \/ Refuses(k)
<1>1. CASE Authorize(k)
  <2>1. CASE Reject(k)
    <3>1. /\ stage[k] = "auth" /\ at[k] \in up
          /\ UNCHANGED <<pid, qos, conn, up, at, shut, obj, mem, rec, queued, sent, overlap,
                         exposed, unwritten>>
      BY <1>1, Zenon DEF Authorize, outVars, ghosts
    <3>2. QED
      BY <2>1, <3>1, RejectF, Zenon
  <2>2. CASE ~Reject(k)
    BY <1>1, <2>2, Zenon DEF Authorize, Allows, outVars, ghosts
  <2>3. QED
    BY <2>1, <2>2, Zenon
<1>2. CASE Keep(k)
  <2>1. CASE Reject(k) /\ queued' \in {queued, kept(k)}
    <3>1. /\ stage[k] = "keep" /\ at[k] \in up
          /\ UNCHANGED <<pid, qos, conn, up, at, shut, obj, mem, rec, sent, overlap, exposed,
                         unwritten>>
      BY <1>2, Zenon DEF Keep, ghosts
    <3>2. QED
      BY <2>1, <3>1, RejectF, Zenon
  <2>2. CASE ~(Reject(k) /\ queued' \in {queued, kept(k)})
    BY <1>2, <2>2, Zenon DEF Keep, Stores, kept, ghosts
  <2>3. QED
    BY <2>1, <2>2, Zenon
<1>3. CASE Live(k)
  <2> DEFINE out == [sent EXCEPT ![hand[k].m] = sent[hand[k].m] \cup {hand[k].mid}]
  <2>1. CASE Reject(k) /\ sent' \in {sent, out}
    <3>1. /\ stage[k] = "live" /\ at[k] \in up
          /\ UNCHANGED <<pid, qos, conn, up, at, shut, obj, mem, rec, queued, overlap, exposed,
                         unwritten>>
      BY <1>3, Zenon DEF Live, ghosts
    <3>2. QED
      BY <2>1, <3>1, RejectF, Zenon
  <2>2. CASE ~(Reject(k) /\ sent' \in {sent, out})
    BY <1>3, <2>2, Zenon DEF Live, Sends, ghosts
  <2>3. QED
    BY <2>1, <2>2, Zenon
<1>4. QED
  BY <1>1, <1>2, <1>3, Zenon

----------------------------------------------------------------------------
(* The client publishes and connects. *)

\* A message is published, and queued last.
Publishes(m, id, q) ==
    /\ conn # Nil /\ cst[m] = "new" /\ id \in Ids /\ q \in {1, 2}
    /\ \A n \in Msgs : Unfinished(n) => pid[n] # id
    /\ cst' \in [Msgs -> States] /\ pid' \in [Msgs -> Ids \cup {Nil}] /\ qos' \in [Msgs -> 0..2]
    /\ cst'[m] = "pub" /\ pid'[m] = id /\ qos'[m] = q
    /\ \A n \in Msgs \ {m} : cst'[n] = cst[n] /\ pid'[n] = pid[n] /\ qos'[n] = qos[n]
    /\ in' \in [Conns -> Seq(Packets)] /\ \A j \in Conns \ {conn} : in'[j] = in[j]
    /\ Packet("PUBLISH", id, m, FALSE) \in Packets
    /\ in'[conn] = Append(in[conn], Packet("PUBLISH", id, m, FALSE))
    /\ UNCHANGED <<conn, up, at, stage, hand, shut, obj, sess, mem, rec, queued, sent,
                   overlap, exposed, unwritten>>

\* What Publish does.
LEMMA PublishF ==
    ASSUME Sound, NEW m \in Msgs, NEW id \in Ids, NEW q \in Levels, Publish(m, id, q)
    PROVE  Publishes(m, id, q)
<1>1. /\ conn # Nil /\ cst[m] = "new" /\ (\A n \in Msgs : Unfinished(n) => pid[n] # id)
      /\ cst' = [cst EXCEPT ![m] = "pub"] /\ pid' = [pid EXCEPT ![m] = id]
      /\ qos' = [qos EXCEPT ![m] = q]
      /\ in' = [in EXCEPT ![conn] = Append(in[conn], Packet("PUBLISH", id, m, FALSE))]
      /\ UNCHANGED <<conn, up, at, stage, hand, shut, obj, sess, mem, rec, queued, sent,
                     overlap, exposed, unwritten>>
  BY Zenon DEF Publish, sessVars, outVars, ghosts
<1>2. /\ cst \in [Msgs -> States] /\ pid \in [Msgs -> Ids \cup {Nil}] /\ qos \in [Msgs -> 0..2]
      /\ in \in [Conns -> Seq(Packets)] /\ conn \in Conns
  BY <1>1, Zenon DEF Sound, TypeOK
<1>3. q \in {1, 2} /\ "pub" \in States
  BY InboundAssumption, Zenon DEF States
<1> DEFINE p == Packet("PUBLISH", id, m, FALSE)
<1>4. p \in Packets
  BY Zenon DEF Packet, Packets, Nil
<1> HIDE DEF p
<1>5. Append(in[conn], p) \in Seq(Packets)
  BY <1>2, <1>4
<1>6. /\ in' \in [Conns -> Seq(Packets)] /\ (\A j \in Conns \ {conn} : in'[j] = in[j])
      /\ in'[conn] = Append(in[conn], p)
  BY <1>1, <1>2, <1>5, Zenon DEF p
<1>7. /\ cst' \in [Msgs -> States] /\ cst'[m] = "pub" /\ \A n \in Msgs \ {m} : cst'[n] = cst[n]
  BY <1>1, <1>2, <1>3, Zenon
<1>8. /\ pid' \in [Msgs -> Ids \cup {Nil}] /\ pid'[m] = id /\ \A n \in Msgs \ {m} : pid'[n] = pid[n]
  BY <1>1, <1>2, Zenon
<1>9. /\ qos' \in [Msgs -> 0..2] /\ qos'[m] = q /\ \A n \in Msgs \ {m} : qos'[n] = qos[n]
  BY <1>1, <1>2, <1>3
<1>10. QED
  BY <1>1, <1>3, <1>4, <1>6, <1>7, <1>8, <1>9, Zenon DEF Publishes, p

\* A new message has an identifier no unfinished one has.
LEMMA Publishes_Sound ==
    ASSUME Sound, NEW m \in Msgs, NEW id, NEW q, Publishes(m, id, q)
    PROVE  Sound'
<1>1. TypeOK'
  BY Zenon DEF Sound, TypeOK, Publishes
<1>2. Steady
  BY Zenon DEF Steady, Publishes
<1>3. Along
  BY Zenon DEF Along, Publishes
<1> DEFINE p == Packet("PUBLISH", id, m, FALSE)
<1>4. p \in Packets /\ p.m = m /\ p.id = id /\ p.t = "PUBLISH" /\ conn \in Conns
  BY OpenF, Zenon DEF Publishes, Packet
<1>5. in'[conn] = Append(in[conn], p) /\ \A j \in Conns \ {conn} : in'[j] = in[j]
  BY Zenon DEF Publishes
<1> HIDE DEF p
<1>6. AboutNext(p)
  BY <1>4, Zenon DEF AboutNext, Publishes
<1>7. Fed
  <2> SUFFICES ASSUME NEW j \in Conns, NEW i \in DOMAIN in'[j]
               PROVE  \/ \E x \in DOMAIN in[j] : in'[j][i] = in[j][x]
                      \/ AboutNext(in'[j][i]) /\ in'[j][i].t \in {"PUBLISH", "PUBREL"}
    BY Zenon DEF Fed
  <2>1. CASE j # conn
    BY <1>5, <2>1, Zenon
  <2>2. CASE j = conn
    <3>a. in[j] \in Seq(Packets)
      BY Zenon DEF Sound, TypeOK
    <3>b. in'[j] = Append(in[j], p)
      BY <1>5, <2>2, Zenon
    <3>1. (i \in DOMAIN in[j] /\ in'[j][i] = in[j][i]) \/ in'[j][i] = p
      BY <1>4, <3>a, <3>b, AppendF
    <3>2. QED
      BY <1>4, <1>6, <3>1, Zenon
  <2>3. QED
    BY <2>1, <2>2, Zenon
<1>8. Handled /\ More
  BY Zenon DEF Handled, More, SameHand, Onward, Publishes
<1>9. Distinct'
  <2>1. (\A n \in Msgs : cst[n] # "new" => pid[n] \in Ids)'
    BY Zenon DEF Publishes, Sound, Distinct
  <2>2. (\A n, x \in Msgs : Unfinished(n) /\ Unfinished(x) /\ pid[n] = pid[x] => n = x)'
    BY DEF Publishes, Sound, Distinct, Unfinished
  <2>3. (\A n \in Msgs : cst[n] = "rel" => qos[n] = 2)'
    BY Zenon DEF Publishes, Sound, Distinct
  <2>4. QED
    BY <2>1, <2>2, <2>3, Zenon DEF Distinct
<1>10. QED
  BY <1>1, <1>2, <1>3, <1>7, <1>8, <1>9, SteadyKeeps, FedKeeps, HandledKeeps, Zenon DEF Sound

\* What the client sends when it connects again.
LEMMA ResentF ==
    ASSUME Sound, NEW m \in Msgs, Unfinished(m)
    PROVE  /\ Resent(m) \in Packets /\ Resent(m).m = m /\ Resent(m).id = pid[m] /\ Resent(m).dup
           /\ Resent(m).t = IF cst[m] = "pub" THEN "PUBLISH" ELSE "PUBREL"
           /\ pid[m] \in Ids /\ cst[m] # "new"
<1>1. pid[m] \in Ids /\ cst[m] # "new"
  BY Zenon DEF Sound, Distinct, Unfinished
<1>2. QED
  BY <1>1, Zenon DEF Resent, Packet, Packets, Nil

\* The queue of connection k has what is not acknowledged, each message once.
Resends(k) ==
    /\ \A i \in DOMAIN in'[k] : \E m \in Msgs : Unfinished(m) /\ in'[k][i] = Resent(m)
    /\ \A i, j \in DOMAIN in'[k] : in'[k][i].m = in'[k][j].m => i = j

\* A client that resends in order sends each unfinished message once.
LEMMA ResendsF ==
    ASSUME Sound, NEW k \in Conns, NEW n \in 0..MaxMsgs, NEW f \in [1..n -> Msgs], InOrder(f, n),
           in' = [in EXCEPT ![k] = [i \in 1..n |-> Resent(f[i])]]
    PROVE  /\ in' \in [Conns -> Seq(Packets)] /\ \A j \in Conns \ {k} : in'[j] = in[j]
           /\ Resends(k)
<1> DEFINE q == [i \in 1..n |-> Resent(f[i])]
<1>1. in \in [Conns -> Seq(Packets)] /\ n \in Nat
  BY InboundAssumption DEF Sound, TypeOK
<1>2. in' = [in EXCEPT ![k] = q]
  BY Zenon
<1>3. \A i \in 1..n : f[i] \in Msgs /\ Unfinished(f[i])
  <2>1. \A i \in 1..n : f[i] \in {f[j] : j \in 1..n}
    BY Zenon
  <2>2. QED
    BY <2>1, Zenon DEF InOrder
<1>4. \A i \in 1..n : q[i] = Resent(f[i]) /\ q[i] \in Packets /\ q[i].m = f[i]
  BY <1>3, ResentF, Zenon
<1>5. DOMAIN q = 1..n
  BY Zenon
<1>6. q \in Seq(Packets)
  BY <1>1, <1>4
<1> HIDE DEF q
<1>7. in' \in [Conns -> Seq(Packets)] /\ in'[k] = q /\ \A j \in Conns \ {k} : in'[j] = in[j]
  BY <1>1, <1>2, <1>6, Zenon
<1>8. \A i, j \in 1..n : f[i] = f[j] => i = j
  <2> SUFFICES ASSUME NEW i \in 1..n, NEW j \in 1..n, f[i] = f[j], i # j PROVE FALSE
    BY Zenon
  <2>1. f[i] \in Nat /\ f[j] \in Nat
    BY <1>3, InboundAssumption DEF Msgs
  <2>2. i < j \/ j < i
    OBVIOUS
  <2>3. f[i] < f[j] \/ f[j] < f[i]
    BY <2>2, Zenon DEF InOrder
  <2>4. QED
    BY <2>1, <2>3
<1>9. Resends(k)
  BY <1>3, <1>4, <1>5, <1>7, <1>8 DEF Resends
<1>10. QED
  BY <1>7, <1>9, Zenon

\* The client connects: to the session in memory, or to one made from the record.
Connects(k, b) ==
    LET o == IF mem[b] # Nil THEN mem[b] ELSE k IN
    /\ conn = Nil /\ b \in up /\ stage[k] = "none" /\ \A j \in Conns : j < k => stage[j] # "none"
    /\ conn' = k
    /\ stage' \in [Conns -> Stages] /\ stage'[k] = "idle" /\ \A j \in Conns \ {k} : stage'[j] = stage[j]
    /\ at' \in [Conns -> Brokers \cup {Nil}] /\ at'[k] = b /\ \A j \in Conns \ {k} : at'[j] = at[j]
    /\ obj' \in [Conns -> Conns \cup {Nil}] /\ obj'[k] = o /\ o \in Conns
    /\ \A j \in Conns \ {k} : obj'[j] = obj[j]
    /\ sess' \in [Conns -> Sessions] /\ \A x \in Conns \ {o} : sess'[x] = sess[x]
    /\ sess'[o].gen = k
    /\ mem[b] # Nil => /\ sess'[o].recv = sess[o].recv /\ sess'[o].forwarding = sess[o].forwarding
                       /\ sess'[o].pending = sess[o].pending
    /\ mem[b] = Nil => sess'[o].recv = rec.recv /\ sess'[o].forwarding = {}
    /\ mem' \in [Brokers -> Conns \cup {Nil}] /\ mem'[b] = o /\ \A c \in Brokers \ {b} : mem'[c] = Nil
    /\ rec' \in [by : Conns \cup {Nil}, recv : SUBSET Ids] /\ rec'.by = k /\ rec'.recv = {}
    /\ shut' = shut \cup {j \in Conns : j < k}
    /\ in' \in [Conns -> Seq(Packets)] /\ Resends(k) /\ \A j \in Conns \ {k} : in'[j] = in[j]
    /\ exposed' = IF mem[b] # Nil THEN exposed
                  ELSE exposed \cup {m \in Msgs : cst[m] = "pub" /\ pid[m] \notin rec.recv}
    /\ UNCHANGED <<cst, pid, qos, up, hand, queued, sent, overlap, unwritten>>

\* What Connect does.
LEMMA ConnectF ==
    ASSUME Sound, NEW k \in Conns, NEW b \in Brokers, Connect(k, b)
    PROVE  Connects(k, b)
<1> DEFINE o == IF mem[b] # Nil THEN mem[b] ELSE k
           s == IF mem[b] # Nil THEN [sess[o] EXCEPT !.gen = k] ELSE NewSession(rec.recv, k)
<1>1. /\ conn = Nil /\ b \in up /\ stage[k] = "none" /\ (\A j \in 1..(k - 1) : stage[j] # "none")
      /\ conn' = k /\ stage' = [stage EXCEPT ![k] = "idle"] /\ at' = [at EXCEPT ![k] = b]
      /\ obj' = [obj EXCEPT ![k] = o] /\ sess' = [sess EXCEPT ![o] = s]
      /\ mem' = [c \in Brokers |-> IF c = b THEN o ELSE Nil]
      /\ rec' = [by |-> k, recv |-> {}]
      /\ shut' = shut \cup {j \in Conns : j < k}
      /\ exposed' = IF mem[b] # Nil THEN exposed
                    ELSE exposed \cup {m \in Msgs : cst[m] = "pub" /\ pid[m] \notin rec.recv}
      /\ UNCHANGED <<cst, pid, qos, up, hand, queued, sent, overlap, unwritten>>
  BY Zenon DEF Connect, Goes, outVars
<1>2. \E n \in 0..MaxMsgs : \E f \in [1..n -> Msgs] :
         InOrder(f, n) /\ in' = [in EXCEPT ![k] = [i \in 1..n |-> Resent(f[i])]]
  BY Zenon DEF Connect
<1>3. TypeOK
  BY Zenon DEF Sound
<1>4. o \in Conns
  BY <1>3, Zenon DEF TypeOK
<1>5. /\ s \in Sessions /\ s.gen = k
      /\ mem[b] # Nil => /\ s.recv = sess[o].recv /\ s.forwarding = sess[o].forwarding
                         /\ s.pending = sess[o].pending
      /\ mem[b] = Nil => s.recv = rec.recv /\ s.forwarding = {}
  <2>1. CASE mem[b] # Nil
    <3>1. s = [sess[o] EXCEPT !.gen = k] /\ sess[o] \in Sessions
      BY <1>3, <1>4, <2>1, Zenon DEF TypeOK
    <3> HIDE DEF s
    <3>2. QED
      BY <2>1, <3>1, Zenon DEF Sessions
  <2>2. CASE mem[b] = Nil
    <3>1. s = NewSession(rec.recv, k) /\ rec.recv \in SUBSET Ids
      BY <1>3, <2>2, Zenon DEF TypeOK
    <3>2. [i \in Ids |-> NoEntry] \in [Ids -> Entries]
      BY Zenon DEF NoEntry, Entries, Nil
    <3> HIDE DEF s
    <3>3. QED
      BY <2>2, <3>1, <3>2, Zenon DEF NewSession, Sessions
  <2>3. QED
    BY <2>1, <2>2, Zenon
<1>6. /\ in' \in [Conns -> Seq(Packets)] /\ Resends(k) /\ \A j \in Conns \ {k} : in'[j] = in[j]
  <2>1. PICK n \in 0..MaxMsgs : \E f \in [1..n -> Msgs] :
           InOrder(f, n) /\ in' = [in EXCEPT ![k] = [i \in 1..n |-> Resent(f[i])]]
    BY <1>2, Zenon
  <2>2. PICK f \in [1..n -> Msgs] :
           InOrder(f, n) /\ in' = [in EXCEPT ![k] = [i \in 1..n |-> Resent(f[i])]]
    BY <2>1, Zenon
  <2>3. QED
    BY <2>2, ResendsF, Zenon
<1> HIDE DEF s, o
<1>7. sess' \in [Conns -> Sessions] /\ sess'[o] = s /\ \A x \in Conns \ {o} : sess'[x] = sess[x]
  BY <1>1, <1>3, <1>4, <1>5, Zenon DEF TypeOK
<1>8. /\ stage' \in [Conns -> Stages] /\ stage'[k] = "idle"
      /\ \A j \in Conns \ {k} : stage'[j] = stage[j]
  BY <1>1, <1>3, Zenon DEF TypeOK, Stages
<1>9. /\ at' \in [Conns -> Brokers \cup {Nil}] /\ at'[k] = b /\ (\A j \in Conns \ {k} : at'[j] = at[j])
      /\ obj' \in [Conns -> Conns \cup {Nil}] /\ obj'[k] = o /\ \A j \in Conns \ {k} : obj'[j] = obj[j]
  BY <1>1, <1>3, <1>4, Zenon DEF TypeOK
<1>10. /\ mem' \in [Brokers -> Conns \cup {Nil}] /\ mem'[b] = o /\ \A c \in Brokers \ {b} : mem'[c] = Nil
  BY <1>1, <1>4, Zenon
<1>11. rec' \in [by : Conns \cup {Nil}, recv : SUBSET Ids] /\ rec'.by = k /\ rec'.recv = {}
  BY <1>1, Zenon
<1>12. \A j \in Conns : j < k => stage[j] # "none"
  BY <1>1, InboundAssumption DEF Conns
<1>13. QED
  BY <1>1, <1>4, <1>5, <1>6, <1>7, <1>8, <1>9, <1>10, <1>11, <1>12, Zenon DEF Connects, o

\* The connection is the newest one, and resumes no session but the current one.
LEMMA ConnectsF ==
    ASSUME Sound, NEW k \in Conns, NEW b \in Brokers, Connects(k, b)
    PROVE  /\ rec.by < k /\ rec.by \in Nat /\ k \in Nat
           /\ \A j \in Conns : j < k <=> stage[j] # "none"
           /\ mem[b] # Nil => mem[b] = Cur /\ Alive /\ b = at[rec.by] /\ rec.by \in Conns
           /\ \A j \in Conns : stage[j] # "none" => j <= rec.by /\ obj[j] \in Conns /\ obj[j] <= j /\ obj[j] # k
           /\ k \notin shut
<1>1. TypeOK /\ Newest /\ Remembered
  BY Zenon DEF Sound
<1>2. stage[k] = "none" /\ \A j \in Conns : j < k => stage[j] # "none"
  BY Zenon DEF Connects
<1>3. rec.by \in Nat /\ k \in Nat /\ \A j \in Conns : j \in Nat
  BY <1>1, InboundAssumption DEF TypeOK, Conns, Nil
<1>4. rec.by < k
  BY <1>1, <1>2, <1>3 DEF Newest, Started
<1>5. \A j \in Conns : j < k <=> stage[j] # "none"
  BY <1>1, <1>2, <1>3, <1>4 DEF Newest, Started
<1>6. mem[b] # Nil => mem[b] = Cur /\ Alive /\ b = at[rec.by] /\ rec.by \in Conns
  BY <1>1, Zenon DEF Remembered, Alive, TypeOK
<1>7. \A j \in Conns : stage[j] # "none" => j <= rec.by /\ obj[j] \in Conns /\ obj[j] <= j
  BY <1>1, Zenon DEF Newest, Remembered, Started
<1>8. \A j \in Conns : stage[j] # "none" => obj[j] # k
  BY <1>3, <1>4, <1>7
<1>9. k \notin shut
  BY <1>1, <1>2, Zenon DEF Newest, Started
<1>10. QED
  BY <1>3, <1>4, <1>5, <1>6, <1>7, <1>8, <1>9, Zenon

\* A connection is made.
LEMMA Connects_Sound ==
    ASSUME Sound, NEW k \in Conns, NEW b \in Brokers, Connects(k, b)
    PROVE  Sound'
<1> DEFINE o == IF mem[b] # Nil THEN mem[b] ELSE k
<1>1. TypeOK /\ Newest /\ Remembered
  BY Zenon DEF Sound
<1>a. /\ rec.by < k /\ rec.by \in Nat /\ k \in Nat
      /\ \A j \in Conns : j < k <=> stage[j] # "none"
      /\ mem[b] # Nil => mem[b] = Cur /\ Alive /\ b = at[rec.by] /\ rec.by \in Conns
      /\ \A j \in Conns : stage[j] # "none" => j <= rec.by /\ obj[j] \in Conns /\ obj[j] <= j /\ obj[j] # k
      /\ k \notin shut
  BY ConnectsF, Zenon
<1>b. /\ conn' = k /\ stage'[k] = "idle" /\ (\A j \in Conns \ {k} : stage'[j] = stage[j])
      /\ at'[k] = b /\ (\A j \in Conns \ {k} : at'[j] = at[j])
      /\ obj'[k] = o /\ o \in Conns /\ (\A j \in Conns \ {k} : obj'[j] = obj[j])
      /\ rec'.by = k /\ shut' = shut \cup {j \in Conns : j < k} /\ up' = up /\ b \in up
  BY Zenon DEF Connects
<1>c. stage[k] = "none" /\ \A j \in Conns : j \in Nat
  BY InboundAssumption DEF Connects, Conns
<1>2. TypeOK'
  BY <1>1, Zenon DEF TypeOK, Connects
<1>3. Newest'
  <2>1. (\A j \in Conns : Started(j) <=> j <= rec.by)'
    <3>1. \A j \in Conns : stage'[j] # "none" <=> j <= k
      <4> SUFFICES ASSUME NEW j \in Conns PROVE stage'[j] # "none" <=> j <= k
        BY Zenon
      <4>1. CASE j = k
        BY <1>a, <1>b, <4>1
      <4>2. CASE j # k
        BY <1>a, <1>b, <1>c, <4>2
      <4>3. QED
        BY <4>1, <4>2, Zenon
    <3>2. QED
      BY <1>b, <3>1, Zenon DEF Started
  <2>2. (\A j \in Conns : j < rec.by => j \in shut)' /\ (\A j \in shut : Started(j))'
    <3>1. \A j \in shut : j \in Conns /\ j # k /\ stage[j] # "none"
      BY <1>1, <1>a, Zenon DEF Newest, Started, TypeOK
    <3>2. \A j \in Conns : j < k => j # k /\ stage[j] # "none"
      BY <1>a, <1>c, Zenon
    <3>3. QED
      BY <1>b, <3>1, <3>2, Zenon DEF Started
  <2>3. (conn # Nil => conn = rec.by /\ conn \notin shut /\ stage[conn] # "over")'
    <3>1. k \notin shut'
      BY <1>a, <1>b
    <3>2. QED
      BY <1>b, <3>1, Zenon
  <2>4. (\A j \in Conns : stage[j] \notin {"none", "over"} => at[j] \in up)'
    BY <1>1, <1>b, Zenon DEF Newest
  <2>5. QED
    BY <2>1, <2>2, <2>3, <2>4, Zenon DEF Newest
<1>4. Remembered'
  <2>1. (\A j \in Conns : Started(j) => at[j] \in Brokers /\ obj[j] \in Conns /\ obj[j] <= j)'
    <3>1. o \in Conns /\ o <= k
      <4>1. CASE mem[b] = Nil
        BY <1>a, <4>1
      <4>2. CASE mem[b] # Nil
        <5>1. o = obj[rec.by] /\ rec.by \in Conns /\ rec.by < k
          BY <1>a, <4>2, Zenon DEF Cur
        <5>2. o \in Conns /\ o <= rec.by
          BY <1>a, <5>1, Zenon
        <5>3. o \in Nat /\ rec.by \in Nat /\ k \in Nat
          BY <1>a, <1>c, <5>2, Zenon
        <5> HIDE DEF o
        <5>4. QED
          BY <5>1, <5>2, <5>3
      <4>3. QED
        BY <4>1, <4>2, Zenon
    <3>2. QED
      BY <1>1, <1>b, <3>1 DEF Remembered, Started
  <2>2. (\A j, n \in Conns : Started(j) /\ Started(n) /\ obj[j] = obj[n] => at[j] = at[n])'
    <3>1. \A j \in Conns : stage[j] # "none" /\ obj[j] = o => at[j] = b
      <4>1. CASE mem[b] = Nil
        BY <1>a, <4>1, Zenon
      <4>2. CASE mem[b] # Nil
        <5>1. o = obj[rec.by] /\ rec.by \in Conns /\ b = at[rec.by] /\ stage[rec.by] # "none"
          BY <1>a, <4>2, Zenon DEF Cur
        <5>2. QED
          BY <1>1, <5>1 DEF Remembered, Started
      <4>3. QED
        BY <4>1, <4>2, Zenon
    <3>2. QED
      BY <1>1, <1>b, <3>1 DEF Remembered, Started
  <2>3. (rec.by # Nil => sess[Cur].gen = rec.by)'
    BY Zenon DEF Connects, Cur
  <2>4. (Alive => mem[at[rec.by]] = Cur)' /\ (\A c \in Brokers : mem[c] # Nil => Alive /\ c = at[rec.by])'
    <3>1. k # Nil
      BY <1>a DEF Nil
    <3>2. QED
      BY <3>1, Zenon DEF Connects, Cur, Alive
  <2>5. QED
    BY <2>1, <2>2, <2>3, <2>4, Zenon DEF Remembered
<1>5. NoneNew /\ More
  BY Zenon DEF Connects, NoneNew, More
<1>6. Fed
  <2> SUFFICES ASSUME NEW j \in Conns, NEW i \in DOMAIN in'[j]
               PROVE  \/ \E x \in DOMAIN in[j] : in'[j][i] = in[j][x]
                      \/ AboutNext(in'[j][i]) /\ in'[j][i].t \in {"PUBLISH", "PUBREL"}
    BY Zenon DEF Fed
  <2>1. CASE j # k
    BY <2>1, Zenon DEF Connects
  <2>2. CASE j = k
    <3>1. PICK m \in Msgs : Unfinished(m) /\ in'[j][i] = Resent(m)
      BY <2>2 DEF Connects, Resends
    <3>2. cst[m] = "rel" => qos[m] = 2
      BY Zenon DEF Sound, Distinct
    <3>3. Resent(m).t = "PUBREL" => cst[m] = "rel"
      BY <3>1, ResentF, Zenon DEF Unfinished
    <3>a. cst' = cst /\ pid' = pid /\ qos' = qos
      BY Zenon DEF Connects
    <3>b. /\ Resent(m).m = m /\ Resent(m).id = pid[m] /\ cst[m] # "new"
          /\ Resent(m).t \in {"PUBLISH", "PUBREL"}
      BY <3>1, ResentF, Zenon
    <3>4. AboutNext(Resent(m)) /\ Resent(m).t \in {"PUBLISH", "PUBREL"}
      BY <3>2, <3>3, <3>a, <3>b DEF AboutNext
    <3>5. QED
      BY <3>1, <3>4, Zenon
  <2>3. QED
    BY <2>1, <2>2, Zenon
<1>7. Handled
  <2>1. "idle" \notin Busy
    BY Zenon DEF Busy, Forwarding
  <2>2. QED
    BY <2>1 DEF Connects, Handled, SameHand, Onward
<1>8. QED
  BY <1>2, <1>3, <1>4, <1>5, <1>6, <1>7, SoundStep, Zenon

----------------------------------------------------------------------------
(* What keeps Guarded. *)

\* The message of an identifier goes on being under way.
LEMMA TakenStays ==
    ASSUME pid' = pid, qos' = qos, More, NEW id, Taken(id),
           \A m \in Msgs : pid[m] = id /\ Unfinished(m) /\ qos[m] = 2 => cst'[m] \in {"pub", "rel"}
    PROVE  Taken(id)'
<1>1. PICK m \in Msgs : pid[m] = id /\ Unfinished(m) /\ qos[m] = 2 /\ Forwarded(m)
  BY Zenon DEF Taken
<1>2. cst'[m] \in {"pub", "rel"} /\ queued'[m] # {} /\ sent'[m] # {}
  BY <1>1, Zenon DEF More, Forwarded
<1>3. QED
  BY <1>1, <1>2, Zenon DEF Taken, Unfinished, Forwarded

\* What is acknowledged had been forwarded.
LEMMA AckedStays ==
    ASSUME AckedIsForwarded, More,
           \A m \in Msgs : cst'[m] \in {"rel", "done"} => cst[m] \in {"rel", "done"} \/ Forwarded(m)
    PROVE  AckedIsForwarded'
  BY Zenon DEF AckedIsForwarded, More, Forwarded

\* Two readers of a session go on apart when nobody takes a packet.
LEMMA ApartStays ==
    ASSUME Apart, obj' = obj,
           \A k \in Conns : stage'[k] \in Busy => stage[k] \in Busy /\ SameHand(k)
    PROVE  Apart'
  BY Zenon DEF Apart, SameHand

\* A part of a queue the client waits for.
LEMMA FreshPart ==
    ASSUME NEW s, NEW t, Part(s, t), NEW C,
           \A i \in DOMAIN t : cst[t[i].m] = IF t[i].t = "PUBLISH" THEN "pub" ELSE "rel",
           \A i, j \in DOMAIN t : t[i].m = t[j].m => i = j
    PROVE  /\ \A i \in DOMAIN s : cst[s[i].m] = IF s[i].t = "PUBLISH" THEN "pub" ELSE "rel"
           /\ \A i, j \in DOMAIN s : s[i].m = s[j].m => i = j
           /\ (\A i \in DOMAIN t : t[i].m # C) => \A i \in DOMAIN s : s[i].m # C
<1>1. PICK g \in [DOMAIN s -> DOMAIN t] : /\ \A i \in DOMAIN s : s[i] = t[g[i]]
                                          /\ \A i, j \in DOMAIN s : g[i] = g[j] => i = j
  BY Zenon DEF Part
<1>2. \A i \in DOMAIN s : g[i] \in DOMAIN t /\ s[i] = t[g[i]]
  BY <1>1, Zenon
<1>3. \A i \in DOMAIN s : cst[s[i].m] = IF s[i].t = "PUBLISH" THEN "pub" ELSE "rel"
  BY <1>2
<1>4. \A i, j \in DOMAIN s : s[i].m = s[j].m => i = j
  BY <1>1, <1>2
<1>5. (\A i \in DOMAIN t : t[i].m # C) => \A i \in DOMAIN s : s[i].m # C
  BY <1>2
<1>6. QED
  BY <1>3, <1>4, <1>5, Zenon

\* A step that answers nothing and takes nothing.
LEMMA Calm_Certain == ASSUME Sound, Certain, Calm PROVE Certain'
<1>1. /\ rec'.by = rec.by /\ obj' = obj /\ at' = at /\ up' \subseteq up /\ shut \subseteq shut'
      /\ cst' = cst /\ pid' = pid /\ qos' = qos /\ More
      /\ \A k \in Conns : Part(in'[k], in[k])
      /\ \A k \in Conns : stage'[k] \in Busy =>
            stage[k] \in Busy /\ SameHand(k) /\ (stage'[k] = "release" <=> stage[k] = "release")
      /\ \A k \in Conns : stage[k] \in Forwarding /\ at[k] \in up' => stage'[k] \in Forwarding
      /\ \A o \in Conns : sess'[o].recv = sess[o].recv /\ sess'[o].forwarding = sess[o].forwarding
      /\ rec'.recv = rec.recv \/ (Alive /\ rec'.recv = Kept)
  BY Zenon DEF Calm
<1>2. \A x \in Forwarding : x \in Busy /\ x # "release" /\ x # "none"
  BY Zenon DEF Busy, Forwarding
<1>3. \A x \in Busy : x # "none" /\ (x \in Forwarding <=> x # "release")
  BY Zenon DEF Busy, Forwarding
<1>4. \A id : Taken(id) => Taken(id)'
  BY <1>1, TakenStays, Zenon DEF Unfinished
<1>5. Apart'
  BY <1>1, ApartStays, Zenon DEF Certain
<1>6. AckedIsForwarded'
  BY <1>1, AckedStays, Zenon DEF Certain
<1>7. rec.by # Nil => rec.by \in Conns /\ Cur \in Conns /\ stage[rec.by] # "none"
  <2>1. SUFFICES ASSUME rec.by # Nil
                 PROVE  rec.by \in Conns /\ Cur \in Conns /\ stage[rec.by] # "none"
    BY Zenon
  <2>2. rec.by \in Conns /\ rec.by \in Nat
    BY <2>1, InboundAssumption DEF Sound, TypeOK, Conns
  <2>3. stage[rec.by] # "none"
    BY <2>2 DEF Sound, Newest, Started
  <2>4. QED
    BY <2>2, <2>3, StartedF, Zenon
<1>8. Fresh'
  <2> DEFINE n == rec.by
  <2>1. SUFFICES ASSUME n # Nil, n \notin shut'
                 PROVE  /\ \A i \in DOMAIN in'[n] : cst[in'[n][i].m] =
                                IF in'[n][i].t = "PUBLISH" THEN "pub" ELSE "rel"
                        /\ \A i, j \in DOMAIN in'[n] : in'[n][i].m = in'[n][j].m => i = j
                        /\ stage'[n] \in Busy =>
                              /\ cst[hand'[n].m] = IF hand'[n].t = "PUBLISH" THEN "pub" ELSE "rel"
                              /\ \A i \in DOMAIN in'[n] : in'[n][i].m # hand'[n].m
    BY <1>1, SMTT(30) DEF Fresh, Waits
  <2>2. /\ \A i \in DOMAIN in[n] : cst[in[n][i].m] = IF in[n][i].t = "PUBLISH" THEN "pub" ELSE "rel"
        /\ \A i, j \in DOMAIN in[n] : in[n][i].m = in[n][j].m => i = j
        /\ stage[n] \in Busy =>
              /\ cst[hand[n].m] = IF hand[n].t = "PUBLISH" THEN "pub" ELSE "rel"
              /\ \A i \in DOMAIN in[n] : in[n][i].m # hand[n].m
    BY <1>1, <2>1, Zenon DEF Certain, Fresh, Waits
  <2>3. Part(in'[n], in[n]) /\ n \in Conns
    BY <1>1, <1>7, <2>1, Zenon
  <2>4. /\ \A i \in DOMAIN in'[n] : cst[in'[n][i].m] = IF in'[n][i].t = "PUBLISH" THEN "pub" ELSE "rel"
        /\ \A i, j \in DOMAIN in'[n] : in'[n][i].m = in'[n][j].m => i = j
        /\ (\A i \in DOMAIN in[n] : in[n][i].m # hand[n].m) => \A i \in DOMAIN in'[n] : in'[n][i].m # hand[n].m
    <3> DEFINE s == in'[n]
               t == in[n]
               C == hand[n].m
    <3>1. /\ \A i \in DOMAIN t : cst[t[i].m] = IF t[i].t = "PUBLISH" THEN "pub" ELSE "rel"
          /\ \A i, j \in DOMAIN t : t[i].m = t[j].m => i = j
      BY <2>2, Zenon
    <3>2. Part(s, t)
      BY <2>3, Zenon
    <3> HIDE DEF s, t, C, n
    <3>3. /\ \A i \in DOMAIN s : cst[s[i].m] = IF s[i].t = "PUBLISH" THEN "pub" ELSE "rel"
          /\ \A i, j \in DOMAIN s : s[i].m = s[j].m => i = j
          /\ (\A i \in DOMAIN t : t[i].m # C) => \A i \in DOMAIN s : s[i].m # C
      BY <3>1, <3>2, FreshPart, Zenon
    <3>4. QED
      BY <3>3, Zenon DEF s, t, C
  <2>5. stage'[n] \in Busy => stage[n] \in Busy /\ SameHand(n)
    BY <1>1, <2>3, Zenon
  <2>6. QED
    BY <2>2, <2>4, <2>5, Zenon DEF SameHand
<1>9. Record0'
  BY <1>1, <1>4, Zenon DEF Certain, Record0, InStep
<1>10. InStep'
  <2>1. SUFFICES ASSUME Alive' PROVE (Held /\ Owned /\ Recorded /\ \A id \in Kept : Taken(id))'
    BY Zenon DEF InStep
  <2>2. Alive /\ rec.by # Nil /\ Cur' = Cur /\ Cur \in Conns /\ rec.by \in Conns /\ stage[rec.by] # "none"
        /\ at[rec.by] \in up'
    BY <1>1, <1>7, <2>1, Zenon DEF Alive, Cur
  <2>3. Held /\ Owned /\ Recorded /\ \A id \in Kept : Taken(id)
    BY <2>2, Zenon DEF Certain, InStep
  <2>4. Kept' = Kept /\ sess'[Cur].recv = sess[Cur].recv /\ sess'[Cur].forwarding = sess[Cur].forwarding
    BY <1>1, <2>2, Zenon DEF Kept
  <2>5. Held'
    <3> SUFFICES ASSUME NEW j \in Readers'
                 PROVE  /\ stage'[j] \in Forwarding =>
                              /\ cst[hand'[j].m] = "pub"
                              /\ qos[hand'[j].m] = 2 => hand'[j].id \in sess[Cur].forwarding \cap sess[Cur].recv
                        /\ stage'[j] = "release" => hand'[j].id \notin sess[Cur].recv
      BY <1>1, <2>2, <2>4, Zenon DEF Held
    <3>1. j \in Conns /\ obj[j] = Cur
      BY <1>1, <2>2, Zenon DEF Readers
    <3>2. stage'[j] \in Busy => j \in Readers
      BY <1>1, <1>3, <3>1, Zenon DEF Readers, Started
    <3>3. QED
      BY <1>1, <1>2, <1>3, <2>3, <3>1, <3>2, SMTT(30) DEF Held, SameHand, Busy
  <2>6. Owned'
    <3> SUFFICES ASSUME NEW id \in sess[Cur].forwarding
                 PROVE  \E j \in Readers' : stage'[j] \in Forwarding /\ hand'[j].id = id /\ qos[hand'[j].m] = 2
      BY <1>1, <2>2, <2>4, ZenonT(60) DEF Owned
    <3>1. PICK j \in Readers : stage[j] \in Forwarding /\ hand[j].id = id /\ qos[hand[j].m] = 2
      BY <2>3, Zenon DEF Owned
    <3>2. j \in Conns /\ obj[j] = Cur /\ stage[j] # "none"
      BY <3>1, Zenon DEF Readers, Started
    <3>3. at[j] = at[rec.by]
      BY <2>2, <3>2, Zenon DEF Sound, Remembered, Started, Cur
    <3>4. stage'[j] \in Forwarding /\ stage'[j] \in Busy /\ stage'[j] # "none"
      BY <1>1, <1>2, <2>2, <3>1, <3>2, <3>3, Zenon
    <3>5. j \in Readers'
      BY <1>1, <2>2, <3>2, <3>4, Zenon DEF Readers, Started
    <3>6. SameHand(j)
      BY <1>1, <3>2, <3>4, Zenon
    <3>7. QED
      BY <3>1, <3>4, <3>5, <3>6, Zenon DEF SameHand
  <2>7. Recorded'
    BY <1>1, <2>3, <2>4, Zenon DEF Recorded
  <2>8. (\A id \in Kept : Taken(id))'
    BY <1>4, <2>3, <2>4, Zenon
  <2>9. QED
    BY <2>5, <2>6, <2>7, <2>8, Zenon
<1>11. QED
  BY <1>5, <1>6, <1>8, <1>9, <1>10, Zenon DEF Certain

\* The newest connection and its session.
LEMMA CurF ==
    ASSUME Sound, rec.by # Nil
    PROVE  rec.by \in Conns /\ Cur \in Conns /\ stage[rec.by] # "none" /\ rec.by \in Readers
<1>1. rec.by \in Conns /\ rec.by \in Nat
  BY InboundAssumption DEF Sound, TypeOK, Conns
<1>2. stage[rec.by] # "none"
  BY <1>1 DEF Sound, Newest, Started
<1>3. QED
  BY <1>1, <1>2, StartedF, Zenon DEF Readers, Started, Cur

\* A connection that has the current session, on a broker that runs.
LEMMA ReaderF ==
    ASSUME Sound, NEW k \in Conns, stage[k] # "none", at[k] \in up
    PROVE  /\ rec.by # Nil /\ Cur \in Conns
           /\ obj[k] = Cur => Alive /\ k \in Readers
           /\ k = rec.by => obj[k] = Cur
<1>1. rec.by \in Conns /\ stage[rec.by] # "none" /\ Cur \in Conns
  BY StartedF, Zenon
<1>2. rec.by # Nil
  BY <1>1, InboundAssumption DEF Conns, Nil
<1>3. obj[k] = Cur => at[k] = at[rec.by]
  BY <1>1, Zenon DEF Sound, Remembered, Started, Cur
<1>4. QED
  BY <1>1, <1>2, <1>3, Zenon DEF Alive, Readers, Started, Cur

\* A reader that leaves a packet: the others stay as they are.
LEMMA LeavesF ==
    ASSUME Sound, NEW k \in Conns, NEW t, Leaves(k, t)
    PROVE  /\ hand[k].m \in Msgs /\ hand[k].id \in Ids /\ hand[k].id = pid[hand[k].m]
           /\ stage'[k] \notin Busy /\ stage'[k] # "none" /\ stage[k] # "none"
           /\ \A j \in Conns \ {k} : stage'[j] = stage[j] /\ hand'[j] = hand[j]
           /\ \A n \in Msgs \ {hand[k].m} : cst'[n] = cst[n]
           /\ cst'[hand[k].m] = cst[hand[k].m] \/
                 (k = rec.by /\ k \notin shut /\ cst'[hand[k].m] = Received(t, hand[k].m))
           /\ Readers' = Readers /\ Cur' = Cur /\ Alive' = Alive
<1>1. stage[k] \in Busy /\ stage[k] # "none"
  BY Zenon DEF Leaves, Busy, Forwarding
<1>2. hand[k].m \in Msgs /\ hand[k].id \in Ids /\ hand[k].id = pid[hand[k].m]
  BY <1>1, HandF, Zenon
<1>3. /\ stage'[k] \in {"idle", "end"} /\ \A j \in Conns \ {k} : stage'[j] = stage[j]
  BY Zenon DEF Leaves, Answered
<1>4. stage'[k] \notin Busy /\ stage'[k] # "none"
  BY <1>3, Zenon DEF Busy, Forwarding
<1>5. \A j \in Conns \ {k} : hand'[j] = hand[j]
  BY Zenon DEF Leaves, Sound, TypeOK
<1>6. /\ \A n \in Msgs \ {hand[k].m} : cst'[n] = cst[n]
      /\ cst'[hand[k].m] = cst[hand[k].m] \/
            (k = rec.by /\ k \notin shut /\ cst'[hand[k].m] = Received(t, hand[k].m))
  BY Zenon DEF Leaves, Answered
<1>7. Cur' = Cur /\ Alive' = Alive
  BY Zenon DEF Leaves, Cur, Alive
<1>8. \A j \in Conns : Started(j)' <=> Started(j)
  BY <1>1, <1>3, <1>4, Zenon DEF Started
<1>9. Readers' = Readers
  BY <1>7, <1>8, Zenon DEF Leaves, Readers
<1>10. QED
  BY <1>1, <1>2, <1>3, <1>4, <1>5, <1>6, <1>7, <1>9, Zenon

\* What is acknowledged has been forwarded, and the open connection has still to
\* read what the client waits for.
LEMMA LeavesFresh ==
    ASSUME Sound, Certain, NEW k \in Conns, NEW t, Leaves(k, t)
    PROVE  Fresh' /\ Apart' /\ AckedIsForwarded'
<1> DEFINE m == hand[k].m
<1>1. /\ m \in Msgs /\ stage'[k] \notin Busy
      /\ \A j \in Conns \ {k} : stage'[j] = stage[j] /\ hand'[j] = hand[j]
      /\ \A n \in Msgs \ {m} : cst'[n] = cst[n]
      /\ cst'[m] = cst[m] \/ (k = rec.by /\ k \notin shut /\ cst'[m] = Received(t, m))
  BY LeavesF, Zenon
<1>2. Apart'
  BY <1>1, ApartStays, Zenon DEF Certain, Leaves, SameHand
<1>3. k = rec.by /\ k \notin shut =>
         /\ \A i \in DOMAIN in[k] : Waits(in[k][i]) /\ in[k][i].m # m
         /\ \A i, j \in DOMAIN in[k] : in[k][i].m = in[k][j].m => i = j
         /\ cst[m] = IF hand[k].t = "PUBLISH" THEN "pub" ELSE "rel"
  BY InboundAssumption DEF Certain, Fresh, Leaves, Conns, Nil, Waits
<1>4. AckedIsForwarded'
  <2>1. Forwarded(m) \/ stage[k] # "record"
    BY Zenon DEF Sound, Passed, Forwarded
  <2>2. stage[k] = "release" => hand[k].t = "PUBREL"
    BY Zenon DEF Sound, Hands
  <2>3. cst'[m] \in {"rel", "done"} => cst[m] \in {"rel", "done"} \/ Forwarded(m)
    BY <1>1, <1>3, <2>1, <2>2, Zenon DEF Leaves, Received
  <2>4. \A n \in Msgs : cst'[n] \in {"rel", "done"} => cst[n] \in {"rel", "done"} \/ Forwarded(n)
    BY <1>1, <2>3, Zenon
  <2>5. QED
    BY <2>4, AckedStays, Zenon DEF Certain, Leaves
<1>5. Fresh'
  <2>1. rec'.by = rec.by /\ shut' = shut
    BY Zenon DEF Leaves
  <2>2. SUFFICES ASSUME rec.by # Nil, rec.by \notin shut
                 PROVE  /\ \A i \in DOMAIN in'[rec.by] : cst'[in'[rec.by][i].m] =
                              IF in'[rec.by][i].t = "PUBLISH" THEN "pub" ELSE "rel"
                        /\ \A i, j \in DOMAIN in'[rec.by] :
                              in'[rec.by][i].m = in'[rec.by][j].m => i = j
                        /\ stage'[rec.by] \in Busy =>
                              /\ cst'[hand'[rec.by].m] = IF hand'[rec.by].t = "PUBLISH" THEN "pub" ELSE "rel"
                              /\ \A i \in DOMAIN in'[rec.by] : in'[rec.by][i].m # hand'[rec.by].m
    BY <2>1, Zenon DEF Fresh, Waits
  <2>3. rec.by \in Conns
    BY <2>2, CurF, Zenon
  <2>4. CASE rec.by # k
    <3>1. in'[rec.by] = in[rec.by] /\ stage'[rec.by] = stage[rec.by] /\ hand'[rec.by] = hand[rec.by]
      BY <1>1, <2>3, <2>4, Zenon DEF Leaves, Answered
    <3>2. cst' = cst
      BY <2>4, Zenon DEF Leaves, Answered
    <3>3. QED
      BY <2>2, <3>1, <3>2, Zenon DEF Certain, Fresh, Waits
  <2>5. CASE rec.by = k
    <3>1. stage'[rec.by] \notin Busy
      BY <1>1, <2>5, Zenon
    <3>2. \A i \in DOMAIN in[k] : /\ in[k][i].m \in Msgs /\ in[k][i].m # m
                                  /\ cst[in[k][i].m] = IF in[k][i].t = "PUBLISH" THEN "pub" ELSE "rel"
      BY <1>3, <2>2, <2>5, Zenon DEF Sound, Queues, About, Waits
    <3>3. \A i \in DOMAIN in[k] : cst'[in[k][i].m] = IF in[k][i].t = "PUBLISH" THEN "pub" ELSE "rel"
      BY <1>1, <3>2, SMTT(30)
    <3>4. CASE in'[k] = in[k]
      BY <1>3, <2>2, <2>5, <3>1, <3>3, <3>4
    <3>5. CASE in'[k] # in[k]
      <4> DEFINE q == Packet("PUBREL", pid[m], m, FALSE)
      <4>1. in'[k] = Append(in[k], q) /\ t = "PUBREC" /\ cst[m] = "pub" /\ cst'[m] = Received(t, m)
        BY <3>5, Zenon DEF Leaves, Answered
      <4>2. q \in Packets /\ q.t = "PUBREL" /\ q.m = m
        BY <1>1, Zenon DEF q, Packet, Packets, Nil, Sound, TypeOK
      <4>3. cst'[m] = "rel"
        BY <4>1, Zenon DEF Received
      <4>4. in[k] \in Seq(Packets)
        BY Zenon DEF Sound, TypeOK
      <4> HIDE DEF q, m
      <4>5. \A i \in DOMAIN in'[k] : \/ i \in DOMAIN in[k] /\ in'[k][i] = in[k][i]
                                     \/ i = Len(in[k]) + 1 /\ in'[k][i] = q
        BY <4>1, <4>2, <4>4, AppendF
      <4>6. \A i \in DOMAIN in'[k] : cst'[in'[k][i].m] = IF in'[k][i].t = "PUBLISH" THEN "pub" ELSE "rel"
        BY <3>3, <4>2, <4>3, <4>5, Zenon
      <4>7. \A i, j \in DOMAIN in'[k] : in'[k][i].m = in'[k][j].m => i = j
        BY <1>3, <2>2, <2>5, <3>2, <4>2, <4>5
      <4>8. QED
        BY <2>5, <3>1, <4>6, <4>7, Zenon
    <3>6. QED
      BY <3>4, <3>5, Zenon
  <2>6. QED
    BY <2>4, <2>5, Zenon
<1>6. QED
  BY <1>2, <1>4, <1>5, Zenon

\* A reader of a session that is in nobody's memory changes nothing that matters.
LEMMA LeavesAside ==
    ASSUME Sound, Certain, NEW k \in Conns, NEW t, Leaves(k, t), obj[k] # Cur, rec'.recv = rec.recv
    PROVE  InStep' /\ Record0'
<1>1. /\ stage[k] # "none" /\ Readers' = Readers /\ Cur' = Cur /\ Alive' = Alive
      /\ \A j \in Conns \ {k} : stage'[j] = stage[j] /\ hand'[j] = hand[j]
      /\ \A n \in Msgs \ {hand[k].m} : cst'[n] = cst[n]
      /\ cst'[hand[k].m] = cst[hand[k].m] \/ k = rec.by
  BY LeavesF, Zenon
<1>2. at[k] \in up /\ pid' = pid /\ qos' = qos /\ More
  BY Zenon DEF Leaves
<1>3. k # rec.by /\ Cur \in Conns
  BY <1>1, <1>2, ReaderF, Zenon
<1>4. \A n \in Msgs : cst'[n] = cst[n]
  BY <1>1, <1>3, Zenon
<1>5. sess'[Cur] = sess[Cur]
  BY <1>3, Zenon DEF Leaves
<1>6. \A id : Taken(id) => Taken(id)'
  BY <1>2, <1>4, TakenStays, Zenon DEF Unfinished
<1>7. Record0'
  BY <1>6, Zenon DEF Certain, Record0
<1>8. InStep'
  <2>1. SUFFICES ASSUME Alive PROVE (Held /\ Owned /\ Recorded /\ \A id \in Kept : Taken(id))'
    BY <1>1, Zenon DEF InStep
  <2>2. Held /\ Owned /\ Recorded /\ \A id \in Kept : Taken(id)
    BY <2>1, Zenon DEF Certain, InStep
  <2>3. Kept' = Kept
    BY <1>1, <1>5, Zenon DEF Kept
  <2>4. \A j \in Readers : /\ j \in Conns \ {k} /\ stage'[j] = stage[j] /\ hand'[j] = hand[j]
                           /\ stage[j] \in Busy => hand[j].m \in Msgs
    BY <1>1, HandF, Zenon DEF Readers
  <2>5. Held'
    BY <1>1, <1>2, <1>4, <1>5, <2>2, <2>4 DEF Held, Busy
  <2>6. Owned'
    BY <1>1, <1>2, <1>5, <2>2, <2>4 DEF Owned
  <2>7. Recorded'
    BY <1>2, <1>4, <2>2, <2>3 DEF Recorded
  <2>8. QED
    BY <1>6, <2>2, <2>3, <2>5, <2>6, <2>7, Zenon
<1>9. QED
  BY <1>7, <1>8, Zenon

\* A reader of the current session: the others handle other identifiers.
LEMMA OthersF ==
    ASSUME Sound, Certain, NEW k \in Conns, stage[k] \in Busy, at[k] \in up, obj[k] = Cur
    PROVE  /\ Alive /\ k \in Readers /\ Held /\ Owned /\ Recorded /\ (\A id \in Kept : Taken(id))
           /\ Cur \in Conns
           /\ \A j \in Readers \ {k} : stage[j] \in Busy =>
                 /\ hand[j].id # hand[k].id /\ hand[j].m # hand[k].m
                 /\ hand[j].m \in Msgs /\ hand[j].id \in Ids
           /\ stage[k] \in Forwarding =>
                 /\ cst[hand[k].m] = "pub"
                 /\ qos[hand[k].m] = 2 => hand[k].id \in sess[Cur].forwarding \cap sess[Cur].recv
           /\ stage[k] = "release" => hand[k].id \notin sess[Cur].recv
<1>1. stage[k] # "none"
  BY Zenon DEF Busy, Forwarding
<1>2. Alive /\ k \in Readers /\ Cur \in Conns
  BY <1>1, ReaderF, Zenon
<1>3. Held /\ Owned /\ Recorded /\ \A id \in Kept : Taken(id)
  BY <1>2, Zenon DEF Certain, InStep
<1>4. hand[k].id = pid[hand[k].m]
  BY HandF, Zenon
<1>5. ASSUME NEW j \in Readers \ {k}, stage[j] \in Busy
      PROVE  /\ hand[j].id # hand[k].id /\ hand[j].m # hand[k].m
             /\ hand[j].m \in Msgs /\ hand[j].id \in Ids
  <2>1. j \in Conns /\ obj[j] = obj[k]
    BY <1>5, Zenon DEF Readers
  <2>2. hand[j].id # hand[k].id
    BY <1>5, <2>1, Zenon DEF Certain, Apart
  <2>3. hand[j].id = pid[hand[j].m] /\ hand[j].m \in Msgs /\ hand[j].id \in Ids
    BY <1>5, <2>1, HandF, Zenon
  <2>4. QED
    BY <1>4, <2>2, <2>3, Zenon
<1>6. QED
  BY <1>2, <1>3, <1>5, Zenon DEF Held

\* A reader leaves its packet, and its identifier at most becomes free.
LEMMA HeldStays ==
    ASSUME Sound, Certain, NEW k \in Conns, NEW t, Leaves(k, t), obj[k] = Cur,
           \A id \in Ids \ {hand[k].id} :
               /\ id \in sess'[Cur].recv <=> id \in sess[Cur].recv
               /\ id \in sess'[Cur].forwarding <=> id \in sess[Cur].forwarding,
           hand[k].id \in sess'[Cur].forwarding =>
               /\ hand[k].id \in sess[Cur].forwarding
               /\ ~(stage[k] \in Forwarding /\ qos[hand[k].m] = 2)
    PROVE  Held' /\ Owned'
<1>1. /\ Readers' = Readers /\ Cur' = Cur /\ stage'[k] \notin Busy
      /\ \A j \in Conns \ {k} : stage'[j] = stage[j] /\ hand'[j] = hand[j]
      /\ \A n \in Msgs \ {hand[k].m} : cst'[n] = cst[n]
  BY LeavesF, Zenon
<1>2. qos' = qos /\ stage[k] \in Busy /\ at[k] \in up /\ sess' \in [Conns -> Sessions]
  BY Zenon DEF Leaves
<1>3. /\ Held /\ Owned /\ Cur \in Conns
      /\ \A j \in Readers \ {k} : stage[j] \in Busy =>
            /\ hand[j].id # hand[k].id /\ hand[j].m # hand[k].m
            /\ hand[j].m \in Msgs /\ hand[j].id \in Ids
  BY <1>2, OthersF, Zenon
<1>4. Forwarding \subseteq Busy /\ "release" \in Busy /\ Readers \subseteq Conns
  BY Zenon DEF Busy, Readers
<1>5. Held'
  <2> SUFFICES ASSUME NEW j \in Readers
               PROVE  /\ stage'[j] \in Forwarding =>
                            /\ cst'[hand'[j].m] = "pub"
                            /\ qos[hand'[j].m] = 2 => hand'[j].id \in sess'[Cur].forwarding \cap sess'[Cur].recv
                      /\ stage'[j] = "release" => hand'[j].id \notin sess'[Cur].recv
    BY <1>1, <1>2, Zenon DEF Held
  <2>1. CASE j = k
    BY <1>1, <1>4, <2>1, Zenon
  <2>2. CASE j # k
    <3>1. stage'[j] = stage[j] /\ hand'[j] = hand[j]
      BY <1>1, <1>4, <2>2, Zenon
    <3>2. CASE stage[j] \notin Busy
      BY <1>4, <3>1, <3>2, Zenon
    <3>3. CASE stage[j] \in Busy
      <4>1. /\ hand[j].id # hand[k].id /\ hand[j].m # hand[k].m /\ hand[j].m \in Msgs /\ hand[j].id \in Ids
        BY <1>3, <2>2, <3>3, Zenon
      <4>2. cst'[hand[j].m] = cst[hand[j].m]
        BY <1>1, <4>1, Zenon
      <4>3. /\ hand[j].id \in sess'[Cur].recv <=> hand[j].id \in sess[Cur].recv
            /\ hand[j].id \in sess'[Cur].forwarding <=> hand[j].id \in sess[Cur].forwarding
        BY <4>1, Zenon
      <4>4. QED
        BY <1>3, <3>1, <4>2, <4>3, Zenon DEF Held
    <3>4. QED
      BY <3>2, <3>3, Zenon
  <2>3. QED
    BY <2>1, <2>2, Zenon
<1>6. Owned'
  <2> SUFFICES ASSUME NEW id \in sess'[Cur].forwarding
               PROVE  \E j \in Readers : stage'[j] \in Forwarding /\ hand'[j].id = id /\ qos[hand'[j].m] = 2
    BY <1>1, <1>2, SMTT(30) DEF Owned
  <2>1. id \in Ids
    BY <1>2, <1>3, Zenon DEF Sessions
  <2>2. id \in sess[Cur].forwarding
    BY <2>1, Zenon
  <2>3. PICK j \in Readers : stage[j] \in Forwarding /\ hand[j].id = id /\ qos[hand[j].m] = 2
    BY <1>3, <2>2, Zenon DEF Owned
  <2>4. j # k
    <3>1. CASE id = hand[k].id
      BY <2>3, <3>1, Zenon
    <3>2. CASE id # hand[k].id
      BY <2>3, <3>2, Zenon
    <3>3. QED
      BY <3>1, <3>2, Zenon
  <2>5. stage'[j] = stage[j] /\ hand'[j] = hand[j]
    BY <1>1, <1>4, <2>4, Zenon
  <2>6. QED
    BY <2>3, <2>5, Zenon
<1>7. QED
  BY <1>5, <1>6, Zenon

\* What is Taken goes on so when its message is not answered for good.
LEMMA LeavesTaken ==
    ASSUME Sound, NEW k \in Conns, NEW t, Leaves(k, t), NEW id, Taken(id),
           qos[hand[k].m] # 2 \/ id # hand[k].id \/ cst'[hand[k].m] \in {"pub", "rel"}
    PROVE  Taken(id)'
<1>1. /\ hand[k].id = pid[hand[k].m]
      /\ \A n \in Msgs \ {hand[k].m} : cst'[n] = cst[n]
  BY LeavesF, Zenon
<1>2. pid' = pid /\ qos' = qos /\ More
  BY Zenon DEF Leaves
<1>3. \A m \in Msgs : pid[m] = id /\ Unfinished(m) /\ qos[m] = 2 => cst'[m] \in {"pub", "rel"}
  BY <1>1, Zenon DEF Unfinished
<1>4. QED
  BY <1>2, <1>3, TakenStays, Zenon

\* rejectPublish: the identifier was not in the record.
LEMMA Refuses_Certain == ASSUME Sound, Certain, NEW k \in Conns, Refuses(k) PROVE Certain'
<1> DEFINE m == hand[k].m
           id == hand[k].id
<1>1. /\ Leaves(k, "refusal") /\ stage[k] \in {"auth", "keep", "live"} /\ rec' = rec
      /\ IF qos[m] = 2
         THEN Becomes(sess', obj[k], sess[obj[k]].recv \ {id}, sess[obj[k]].forwarding \ {id},
                      sess[obj[k]].pending)
         ELSE sess' = sess
  BY Zenon DEF Refuses
<1>2. Fresh' /\ Apart' /\ AckedIsForwarded'
  BY <1>1, LeavesFresh, Zenon
<1>3. InStep' /\ Record0'
  <2>1. CASE obj[k] # Cur
    BY <1>1, <2>1, LeavesAside, Zenon
  <2>2. CASE obj[k] = Cur
    <3>1. /\ m \in Msgs /\ id \in Ids /\ id = pid[m] /\ Readers' = Readers /\ Cur' = Cur /\ Alive' = Alive
          /\ \A n \in Msgs \ {m} : cst'[n] = cst[n]
          /\ cst'[m] = cst[m] \/ cst'[m] = Received("refusal", m)
      BY <1>1, LeavesF, Zenon
    <3>2. stage[k] \in Busy /\ stage[k] \in Forwarding /\ at[k] \in up /\ pid' = pid
      BY <1>1, Zenon DEF Leaves, Forwarding
    <3>3. /\ Held /\ Owned /\ Recorded /\ (\A x \in Kept : Taken(x)) /\ Cur \in Conns
          /\ cst[m] = "pub"
          /\ qos[m] = 2 => id \in sess[Cur].forwarding \cap sess[Cur].recv
      BY <2>2, <3>2, OthersF, Zenon
    <3>4. /\ \A x \in Ids \ {id} : /\ x \in sess'[Cur].recv <=> x \in sess[Cur].recv
                                   /\ x \in sess'[Cur].forwarding <=> x \in sess[Cur].forwarding
          /\ id \in sess'[Cur].forwarding => id \in sess[Cur].forwarding /\ qos[m] # 2
          /\ Kept' = Kept
      BY <1>1, <2>2, <3>1, <3>3, Zenon DEF Becomes, Kept
    <3>5. Held' /\ Owned'
      BY <1>1, <2>2, <3>4, HeldStays, Zenon
    <3>6. qos[m] = 2 => id \notin Kept
      BY <3>3, Zenon DEF Kept
    <3>7. qos[m] = 2 => id \notin rec.recv
      <4> SUFFICES ASSUME qos[m] = 2, id \in rec.recv PROVE FALSE
        BY Zenon
      <4>1. PICK n \in Msgs : pid[n] = id /\ cst[n] = "rel"
        BY <3>3, <3>6, Zenon DEF Recorded
      <4>2. n = m
        BY <3>1, <3>3, <4>1, Zenon DEF Sound, Distinct, Unfinished
      <4>3. QED
        BY <3>3, <4>1, <4>2, Zenon
    <3>8. \A x \in Kept : Taken(x)'
      BY <1>1, <3>3, <3>6, LeavesTaken, Zenon
    <3>9. \A x \in rec.recv : Taken(x)'
      BY <1>1, <3>7, LeavesTaken, Zenon DEF Certain, Record0
    <3>10. \A n \in Msgs : cst[n] = "rel" => cst'[n] = "rel"
      BY <3>1, <3>3, Zenon
    <3>11. Recorded'
      BY <1>1, <3>2, <3>3, <3>4, <3>10, ZenonT(60) DEF Recorded
    <3>12. QED
      BY <1>1, <3>4, <3>5, <3>8, <3>9, <3>11, Zenon DEF InStep, Record0
  <2>3. QED
    BY <2>1, <2>2, Zenon
<1>4. QED
  BY <1>2, <1>3, Zenon DEF Certain

\* qos2Forwarded and the checkpoint: what the record has is forwarded.
LEMMA Records_Certain ==
    ASSUME Sound, Certain, NEW k \in Conns, Records(k) PROVE Certain'
<1> DEFINE m == hand[k].m
           id == hand[k].id
           t == IF qos[m] = 2 THEN "PUBREC" ELSE "PUBACK"
<1>1. Leaves(k, t) /\ stage[k] = "record"
  BY Zenon DEF Records
<1>2. Fresh' /\ Apart' /\ AckedIsForwarded'
  BY <1>1, LeavesFresh, Zenon
<1>3. /\ m \in Msgs /\ id \in Ids /\ id = pid[m] /\ Readers' = Readers /\ Cur' = Cur /\ Alive' = Alive
      /\ \A n \in Msgs \ {m} : cst'[n] = cst[n]
      /\ cst'[m] = cst[m] \/ (k = rec.by /\ k \notin shut /\ cst'[m] = Received(t, m))
      /\ stage[k] # "none"
  BY <1>1, LeavesF, ZenonT(60)
<1>4. stage[k] \in Busy /\ stage[k] \in Forwarding /\ at[k] \in up /\ pid' = pid
  BY <1>1, Zenon DEF Leaves, Forwarding
<1>5. k = rec.by => obj[k] = Cur
  BY <1>3, <1>4, ReaderF, Zenon
<1>6. InStep' /\ Record0'
  <2>1. CASE obj[k] # Cur
    <3>1. rec'.recv = rec.recv
      BY <1>5, <2>1, Zenon DEF Records, Checks, Holds
    <3>2. QED
      BY <1>1, <2>1, <3>1, LeavesAside, Zenon
  <2>2. CASE obj[k] = Cur
    <3>1. /\ Held /\ Owned /\ Recorded /\ (\A x \in Kept : Taken(x)) /\ Cur \in Conns
          /\ cst[m] = "pub"
          /\ qos[m] = 2 => id \in sess[Cur].forwarding \cap sess[Cur].recv
      BY <1>4, <2>2, OthersF, Zenon
    <3>2. /\ sess'[Cur].recv = sess[Cur].recv
          /\ sess'[Cur].forwarding = IF qos[m] = 2 THEN sess[Cur].forwarding \ {id} ELSE sess[Cur].forwarding
      BY <2>2, Zenon DEF Records, Becomes
    <3>3. /\ \A x \in Ids \ {id} : /\ x \in sess'[Cur].recv <=> x \in sess[Cur].recv
                                   /\ x \in sess'[Cur].forwarding <=> x \in sess[Cur].forwarding
          /\ id \in sess'[Cur].forwarding => id \in sess[Cur].forwarding /\ qos[m] # 2
      BY <3>2, Zenon
    <3>4. Held' /\ Owned'
      BY <1>1, <2>2, <3>3, HeldStays, Zenon
    <3>5. Kept' = IF qos[m] = 2 THEN Kept \cup {id} ELSE Kept
      BY <1>3, <3>1, <3>2, Zenon DEF Kept
    <3>6. \A x : Taken(x) => Taken(x)'
      <4>1. qos[m] # 2 \/ cst'[m] \in {"pub", "rel"}
        BY <1>3, <3>1, Zenon DEF Received
      <4>2. QED
        BY <1>1, <4>1, LeavesTaken, Zenon
    <3>7. qos[m] = 2 => Taken(id)
      BY <1>1, <1>3, <3>1, Zenon DEF Taken, Unfinished, Forwarded, Sound, Passed
    <3>8. \A x \in Kept' : Taken(x)'
      BY <3>1, <3>5, <3>6, <3>7, Zenon
    <3>9. rec'.recv = rec.recv \/ rec'.recv = Kept'
      BY <1>3, <2>2, <3>2, Zenon DEF Records, Checks, Kept
    <3>10. Record0'
      BY <3>6, <3>8, <3>9, Zenon DEF Certain, Record0
    <3>11. \A n \in Msgs : cst[n] = "rel" => cst'[n] = "rel"
      BY <1>3, <3>1, Zenon
    <3>12. Recorded'
      BY <1>4, <3>1, <3>5, <3>9, <3>11, Zenon DEF Recorded
    <3>13. QED
      BY <3>4, <3>8, <3>10, <3>12, Zenon DEF InStep
  <2>3. QED
    BY <2>1, <2>2, Zenon
<1>7. QED
  BY <1>2, <1>6, Zenon DEF Certain

\* The end of an exchange: the record no longer has its identifier.
LEMMA Completes_Certain ==
    ASSUME Sound, Certain, NEW k \in Conns, Completes(k), ~unwritten' PROVE Certain'
<1> DEFINE m == hand[k].m
           id == hand[k].id
<1>1. Leaves(k, "PUBCOMP") /\ stage[k] = "release" /\ sess' = sess
  BY Zenon DEF Completes
<1>2. Fresh' /\ Apart' /\ AckedIsForwarded'
  BY <1>1, LeavesFresh, Zenon
<1>3. /\ m \in Msgs /\ id \in Ids /\ id = pid[m] /\ Readers' = Readers /\ Cur' = Cur /\ Alive' = Alive
      /\ \A n \in Msgs \ {m} : cst'[n] = cst[n]
      /\ cst'[m] = cst[m] \/ (k = rec.by /\ k \notin shut)
      /\ stage[k] # "none"
  BY <1>1, LeavesF, Zenon
<1>4. stage[k] \in Busy /\ stage[k] \notin Forwarding /\ at[k] \in up /\ pid' = pid /\ qos' = qos /\ More
  BY <1>1, Zenon DEF Leaves, Forwarding
<1>5. k = rec.by => obj[k] = Cur
  BY <1>3, <1>4, ReaderF, Zenon
<1>6. InStep' /\ Record0'
  <2>1. CASE obj[k] # Cur
    <3>1. rec'.recv = rec.recv
      BY <1>5, <2>1, Zenon DEF Completes, Checks, Holds
    <3>2. QED
      BY <1>1, <2>1, <3>1, LeavesAside, Zenon
  <2>2. CASE obj[k] = Cur
    <3>1. /\ Held /\ Owned /\ Recorded /\ (\A x \in Kept : Taken(x)) /\ Cur \in Conns
          /\ id \notin sess[Cur].recv
      BY <1>1, <1>4, <2>2, OthersF, Zenon
    <3>2. /\ \A x \in Ids \ {id} : /\ x \in sess'[Cur].recv <=> x \in sess[Cur].recv
                                   /\ x \in sess'[Cur].forwarding <=> x \in sess[Cur].forwarding
          /\ id \in sess'[Cur].forwarding => id \in sess[Cur].forwarding
      BY <1>1, Zenon
    <3>3. Held' /\ Owned'
      BY <1>1, <1>4, <2>2, <3>2, HeldStays, Zenon
    <3>4. Kept' = Kept /\ id \notin Kept
      BY <1>1, <1>3, <3>1, Zenon DEF Kept
    <3>5. \A x \in Kept : Taken(x)'
      BY <1>1, <3>1, <3>4, LeavesTaken, Zenon
    <3>6. CASE \A n \in Msgs : cst'[n] = cst[n]
      <4>1. \A x : Taken(x) => Taken(x)'
        BY <1>4, <3>6, TakenStays, Zenon DEF Unfinished
      <4>2. rec'.recv = rec.recv \/ rec'.recv = Kept
        BY <2>2, Zenon DEF Completes, Checks, Kept
      <4>3. Record0'
        BY <3>5, <4>1, <4>2, Zenon DEF Certain, Record0
      <4>4. Recorded'
        BY <1>4, <3>1, <3>4, <3>6, <4>2 DEF Recorded
      <4>5. QED
        BY <3>3, <3>4, <3>5, <4>3, <4>4, Zenon DEF InStep
    <3>7. CASE ~ \A n \in Msgs : cst'[n] = cst[n]
      <4>1. k = rec.by /\ k \notin shut
        BY <1>3, <3>7, Zenon
      <4>2. Holds(k)
        <5>1. rec.by # Nil
          BY <1>3, <1>4, ReaderF, Zenon
        <5>2. sess[Cur].gen = rec.by
          BY <5>1, Zenon DEF Sound, Remembered
        <5>3. QED
          BY <2>2, <4>1, <5>2, Zenon DEF Holds
      <4>3. rec'.recv = Kept
        BY <2>2, <4>2, Zenon DEF Completes, Checks, Kept
      <4>4. Record0' /\ Recorded'
        BY <3>4, <3>5, <4>3, Zenon DEF Record0, Recorded
      <4>5. QED
        BY <3>3, <3>4, <3>5, <4>4, Zenon DEF InStep
    <3>8. QED
      BY <3>6, <3>7, Zenon
  <2>3. QED
    BY <2>1, <2>2, Zenon
<1>7. QED
  BY <1>2, <1>6, Zenon DEF Certain
==============================================================================

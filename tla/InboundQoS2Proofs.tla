-------------------------- MODULE InboundQoS2Proofs --------------------------
(***************************************************************************)
(* That what a client need not send again has been forwarded, and a QoS 2  *)
(* message under one message id: AckedWasForwarded and ForwardedOnce of    *)
(* module InboundQoS2, for every number of messages, identifiers,          *)
(* connections, brokers and faults.  The invariant, and what keeps its     *)
(* first parts, are in InboundQoS2Facts.                                   *)
(***************************************************************************)
EXTENDS InboundQoS2Facts

----------------------------------------------------------------------------
(* What keeps Guarded: packets are taken. *)

\* A reader that takes or answers a packet, and nobody else has its identifier: its
\* connection is the open one.
LEMMA TakerF ==
    ASSUME Sound, Certain, NEW k \in Conns, stage[k] = "armed", at[k] \in up, in[k] # <<>>,
           ~Overlaps(k, Head(in[k]))
    PROVE  LET p == Head(in[k]) IN
           /\ k = rec.by /\ k \notin shut /\ rec.by # Nil /\ obj[k] = Cur /\ Cur \in Conns
           /\ Alive /\ Held /\ Owned /\ Recorded /\ (\A id \in Kept : Taken(id))
           /\ \A j \in Readers : hand[j].id # p.id
           /\ p.m \in Msgs /\ p.id \in Ids /\ p.id = pid[p.m]
           /\ cst[p.m] = IF p.t = "PUBLISH" THEN "pub" ELSE "rel"
           /\ \A i \in DOMAIN Tail(in[k]) :
                 /\ Waits(Tail(in[k])[i]) /\ Tail(in[k])[i].m # p.m /\ Tail(in[k])[i].m \in Msgs
           /\ \A i, j \in DOMAIN Tail(in[k]) : Tail(in[k])[i].m = Tail(in[k])[j].m => i = j
<1> DEFINE p == Head(in[k])
<1>1. k \notin shut /\ \A j \in Conns : obj[j] = obj[k] => hand[j].id # p.id
  BY Zenon DEF Overlaps
<1>2. k = rec.by
  BY <1>1, StartedF, Zenon
<1>3. rec.by # Nil /\ Cur \in Conns /\ obj[k] = Cur /\ Alive
  BY <1>2, ReaderF, Zenon
<1>4. Held /\ Owned /\ Recorded /\ \A id \in Kept : Taken(id)
  BY <1>3, Zenon DEF Certain, InStep
<1>5. \A j \in Readers : hand[j].id # p.id
  BY <1>1, <1>3, Zenon DEF Readers
<1>6. /\ \A i \in DOMAIN in[k] : Waits(in[k][i])
      /\ \A i, j \in DOMAIN in[k] : in[k][i].m = in[k][j].m => i = j
  BY <1>1, <1>2, <1>3, Zenon DEF Certain, Fresh
<1>7. p = in[k][1] /\ 1 \in DOMAIN in[k] /\ About(p) /\ p.m \in Msgs /\ p.id \in Ids
  BY HeadF, Zenon
<1>8. p.id = pid[p.m]
  BY <1>7, Zenon DEF About
<1>9. cst[p.m] = IF p.t = "PUBLISH" THEN "pub" ELSE "rel"
  BY <1>6, <1>7, Zenon DEF Waits
<1>10. in[k] \in Seq(Packets)
  BY Zenon DEF Sound, TypeOK
<1>11. \A i \in DOMAIN Tail(in[k]) : i + 1 \in DOMAIN in[k] /\ i + 1 # 1 /\ Tail(in[k])[i] = in[k][i + 1]
  BY <1>10, TailF, Zenon
<1>12. \A i \in DOMAIN Tail(in[k]) : i \in Nat
  BY <1>10
<1>13. \A i \in DOMAIN in[k] : in[k][i].m \in Msgs
  BY Zenon DEF Sound, Queues, About
<1> HIDE DEF p
<1>14. \A i \in DOMAIN Tail(in[k]) :
          /\ Waits(Tail(in[k])[i]) /\ Tail(in[k])[i].m # p.m /\ Tail(in[k])[i].m \in Msgs
  BY <1>6, <1>7, <1>11, <1>13, ZenonT(60)
<1>15. \A i, j \in DOMAIN Tail(in[k]) : Tail(in[k])[i].m = Tail(in[k])[j].m => i = j
  <2> SUFFICES ASSUME NEW i \in DOMAIN Tail(in[k]), NEW j \in DOMAIN Tail(in[k]),
                      Tail(in[k])[i].m = Tail(in[k])[j].m
               PROVE  i = j
    BY Zenon
  <2>1. i + 1 = j + 1
    BY <1>6, <1>11
  <2>2. QED
    BY <1>12, <2>1
<1>16. QED
  BY <1>1, <1>2, <1>3, <1>4, <1>5, <1>7, <1>8, <1>9, <1>14, <1>15, Zenon DEF p

\* A packet is taken in hand: what the other readers and the record have stays.
LEMMA TakingCertain ==
    ASSUME Sound, Certain, NEW k \in Conns, stage[k] = "armed", at[k] \in up, in[k] # <<>>,
           ~Overlaps(k, Head(in[k])),
           NEW to \in {"auth", "release"}, stage' = [stage EXCEPT ![k] = to],
           in' = [in EXCEPT ![k] = Tail(in[k])], hand' = [hand EXCEPT ![k] = Head(in[k])],
           UNCHANGED <<cst, pid, qos, up, at, shut, obj, rec, queued, sent>>
    PROVE  /\ Fresh' /\ Apart' /\ Record0' /\ AckedIsForwarded'
           /\ Readers' = Readers /\ Cur' = Cur /\ (\A id : Taken(id) => Taken(id)')
           /\ stage'[k] = to /\ hand'[k] = Head(in[k]) /\ k \in Readers
           /\ \A j \in Conns \ {k} : stage'[j] = stage[j] /\ hand'[j] = hand[j]
<1> DEFINE p == Head(in[k])
<1>1. /\ k = rec.by /\ obj[k] = Cur /\ rec.by # Nil
      /\ \A j \in Readers : hand[j].id # p.id
      /\ cst[p.m] = IF p.t = "PUBLISH" THEN "pub" ELSE "rel"
      /\ \A i \in DOMAIN Tail(in[k]) : Waits(Tail(in[k])[i]) /\ Tail(in[k])[i].m # p.m
      /\ \A i, j \in DOMAIN Tail(in[k]) : Tail(in[k])[i].m = Tail(in[k])[j].m => i = j
  BY TakerF, Zenon
<1>2. /\ stage'[k] = to /\ hand'[k] = p /\ in'[k] = Tail(in[k])
      /\ \A j \in Conns \ {k} : stage'[j] = stage[j] /\ hand'[j] = hand[j]
  BY Zenon DEF Sound, TypeOK
<1>3. Cur' = Cur
  BY Zenon DEF Cur
<1>4. \A j \in Conns : Started(j)' <=> Started(j)
  BY <1>2, Zenon DEF Started
<1>5. Readers' = Readers /\ k \in Readers
  BY <1>1, <1>3, <1>4, Zenon DEF Readers, Started
<1>6. \A id : Taken(id) <=> Taken(id)'
  BY Zenon DEF Taken, Unfinished, Forwarded
<1>7. Record0' /\ AckedIsForwarded'
  BY <1>6, Zenon DEF Certain, Record0, AckedIsForwarded
<1>8. Fresh'
  <2> DEFINE s == Tail(in[k])
  <2>1. /\ in'[k] = s /\ hand'[k] = p /\ rec' = rec /\ cst' = cst /\ k = rec.by
        /\ cst[p.m] = IF p.t = "PUBLISH" THEN "pub" ELSE "rel"
        /\ \A i \in DOMAIN s : Waits(s[i]) /\ s[i].m # p.m
        /\ \A i, j \in DOMAIN s : s[i].m = s[j].m => i = j
    BY <1>1, <1>2, Zenon
  <2> HIDE DEF s, p
  <2>2. QED
    BY ONLY <2>1, Zenon DEF Fresh, Waits
<1>9. Apart'
  <2>1. \A j \in Conns \ {k} : stage'[j] \in Busy /\ obj[j] = Cur => hand'[j].id # p.id
    <3> SUFFICES ASSUME NEW j \in Conns \ {k}, stage'[j] \in Busy, obj[j] = Cur PROVE hand'[j].id # p.id
      BY Zenon
    <3>1. j \in Readers
      BY <1>2, Zenon DEF Readers, Started, Busy, Forwarding
    <3>2. QED
      BY <1>1, <1>2, <3>1
  <2>2. QED
    BY <1>1, <1>2, <2>1 DEF Certain, Apart
<1>10. QED
  BY <1>2, <1>3, <1>5, <1>6, <1>7, <1>8, <1>9, Zenon

\* A message is taken, and its identifier is in use.
LEMMA Takes_Certain ==
    ASSUME Sound, Certain, NEW k \in Conns, Takes(k), ~overlap' PROVE Certain'
<1> DEFINE p == Head(in[k])
<1>1. /\ stage[k] = "armed" /\ at[k] \in up /\ in[k] # <<>> /\ p.t = "PUBLISH" /\ ~Overlaps(k, p)
      /\ qos[p.m] = 2 => p.id \notin sess[obj[k]].recv
      /\ stage' = [stage EXCEPT ![k] = "auth"] /\ in' = [in EXCEPT ![k] = Tail(in[k])]
      /\ hand' = [hand EXCEPT ![k] = p]
      /\ UNCHANGED <<cst, pid, qos, up, at, shut, obj, rec, queued, sent>>
  BY Zenon DEF Takes, Goes
<1>2. /\ obj[k] = Cur /\ Cur \in Conns /\ Held /\ Owned /\ Recorded /\ (\A id \in Kept : Taken(id))
      /\ (\A j \in Readers : hand[j].id # p.id) /\ cst[p.m] = "pub"
  BY <1>1, TakerF, Zenon
<1>3. /\ Fresh' /\ Apart' /\ Record0' /\ AckedIsForwarded'
      /\ Readers' = Readers /\ Cur' = Cur /\ (\A id : Taken(id) => Taken(id)')
      /\ stage'[k] = "auth" /\ hand'[k] = p /\ k \in Readers
      /\ \A j \in Conns \ {k} : stage'[j] = stage[j] /\ hand'[j] = hand[j]
  <2>1. "auth" \in {"auth", "release"}
    BY Zenon
  <2>2. QED
    BY <1>1, <2>1, TakingCertain, Zenon
<1>4. /\ sess'[Cur].recv = IF qos[p.m] = 2 THEN sess[Cur].recv \cup {p.id} ELSE sess[Cur].recv
      /\ sess'[Cur].forwarding = IF qos[p.m] = 2 THEN sess[Cur].forwarding \cup {p.id}
                                 ELSE sess[Cur].forwarding
  BY <1>2, TakesF, Zenon DEF Becomes
<1>5. Kept' = Kept
  BY <1>1, <1>2, <1>3, <1>4, Zenon DEF Kept
<1>6. \A j \in Readers \ {k} : stage'[j] = stage[j] /\ hand'[j] = hand[j] /\ hand[j].id # p.id
  BY <1>2, <1>3, Zenon DEF Readers
<1> HIDE DEF p
<1>7. Held'
  <2> SUFFICES ASSUME NEW j \in Readers
               PROVE  /\ stage'[j] \in Forwarding =>
                            /\ cst[hand'[j].m] = "pub"
                            /\ qos[hand'[j].m] = 2 => hand'[j].id \in sess'[Cur].forwarding \cap sess'[Cur].recv
                      /\ stage'[j] = "release" => hand'[j].id \notin sess'[Cur].recv
    BY <1>1, <1>3, Zenon DEF Held
  <2>1. CASE j = k
    BY <1>2, <1>3, <1>4, <2>1, Zenon
  <2>2. CASE j # k
    BY <1>2, <1>4, <1>6, <2>2, SMTT(30) DEF Held
  <2>3. QED
    BY <2>1, <2>2, Zenon
<1>8. Owned'
  <2> SUFFICES ASSUME NEW id \in sess'[Cur].forwarding
               PROVE  \E j \in Readers : stage'[j] \in Forwarding /\ hand'[j].id = id /\ qos[hand'[j].m] = 2
    BY <1>1, <1>3, ZenonT(60) DEF Owned
  <2>1. CASE id \in sess[Cur].forwarding
    <3>1. PICK j \in Readers : stage[j] \in Forwarding /\ hand[j].id = id /\ qos[hand[j].m] = 2
      BY <1>2, <2>1, Zenon DEF Owned
    <3>2. j # k
      BY <1>1, <3>1, Zenon DEF Forwarding
    <3>3. QED
      BY <1>6, <3>1, <3>2, Zenon
  <2>2. CASE id \notin sess[Cur].forwarding
    <3>1. id = p.id /\ qos[p.m] = 2 /\ stage'[k] \in Forwarding
      BY <1>3, <1>4, <2>2, Zenon DEF Forwarding
    <3>2. QED
      BY <1>3, <3>1, Zenon
  <2>3. QED
    BY <2>1, <2>2, Zenon
<1>9. Recorded'
  BY <1>1, <1>2, <1>5, Zenon DEF Recorded
<1>10. QED
  BY <1>2, <1>3, <1>5, <1>7, <1>8, <1>9, Zenon DEF Certain, InStep

\* A PUBREL is taken, and its identifier is free.
LEMMA ReadPubrel_Certain ==
    ASSUME Sound, Certain, NEW k \in Conns, ReadPubrel(k), ~overlap' PROVE Certain'
<1> DEFINE p == Head(in[k])
<1>1. /\ stage[k] = "armed" /\ at[k] \in up /\ in[k] # <<>> /\ p.t = "PUBREL" /\ ~Overlaps(k, p)
      /\ stage' = [stage EXCEPT ![k] = "release"] /\ in' = [in EXCEPT ![k] = Tail(in[k])]
      /\ hand' = [hand EXCEPT ![k] = p]
      /\ UNCHANGED <<cst, pid, qos, up, at, shut, obj, rec, queued, sent>>
  BY Zenon DEF ReadPubrel, Goes, clientVars, outVars
<1>2. /\ obj[k] = Cur /\ Cur \in Conns /\ Held /\ Owned /\ Recorded /\ (\A id \in Kept : Taken(id))
      /\ (\A j \in Readers : hand[j].id # p.id) /\ cst[p.m] = "rel" /\ p.m \in Msgs /\ p.id = pid[p.m]
  BY <1>1, TakerF, Zenon
<1>3. /\ Fresh' /\ Apart' /\ Record0' /\ AckedIsForwarded'
      /\ Readers' = Readers /\ Cur' = Cur /\ (\A id : Taken(id) => Taken(id)')
      /\ stage'[k] = "release" /\ hand'[k] = p /\ k \in Readers
      /\ \A j \in Conns \ {k} : stage'[j] = stage[j] /\ hand'[j] = hand[j]
  <2>1. "release" \in {"auth", "release"}
    BY Zenon
  <2>2. QED
    BY <1>1, <2>1, TakingCertain, Zenon
<1>4. /\ sess'[Cur].recv = sess[Cur].recv \ {p.id}
      /\ sess'[Cur].forwarding = sess[Cur].forwarding \ {p.id}
  BY <1>2, PubrelF, Zenon DEF Becomes
<1>5. Kept' = Kept \ {p.id}
  BY <1>3, <1>4, Zenon DEF Kept
<1>6. \A j \in Readers \ {k} : stage'[j] = stage[j] /\ hand'[j] = hand[j] /\ hand[j].id # p.id
  BY <1>2, <1>3, Zenon DEF Readers
<1> HIDE DEF p
<1>7. Held'
  <2> SUFFICES ASSUME NEW j \in Readers
               PROVE  /\ stage'[j] \in Forwarding =>
                            /\ cst[hand'[j].m] = "pub"
                            /\ qos[hand'[j].m] = 2 => hand'[j].id \in sess'[Cur].forwarding \cap sess'[Cur].recv
                      /\ stage'[j] = "release" => hand'[j].id \notin sess'[Cur].recv
    BY <1>1, <1>3, Zenon DEF Held
  <2>1. CASE j = k
    BY <1>3, <1>4, <2>1, Zenon DEF Forwarding
  <2>2. CASE j # k
    BY <1>2, <1>4, <1>6, <2>2, ZenonT(60) DEF Held
  <2>3. QED
    BY <2>1, <2>2, Zenon
<1>8. Owned'
  <2> SUFFICES ASSUME NEW id \in sess'[Cur].forwarding
               PROVE  \E j \in Readers : stage'[j] \in Forwarding /\ hand'[j].id = id /\ qos[hand'[j].m] = 2
    BY <1>1, <1>3, ZenonT(60) DEF Owned
  <2>1. PICK j \in Readers : stage[j] \in Forwarding /\ hand[j].id = id /\ qos[hand[j].m] = 2
    BY <1>2, <1>4, Zenon DEF Owned
  <2>2. j # k
    BY <1>1, <2>1, Zenon DEF Forwarding
  <2>3. QED
    BY <1>6, <2>1, <2>2, Zenon
<1>9. Recorded'
  BY <1>1, <1>2, <1>5, Zenon DEF Recorded
<1>10. QED
  BY <1>2, <1>3, <1>5, <1>7, <1>8, <1>9, Zenon DEF Certain, InStep

\* A repeat is answered only if its message has been forwarded.
LEMMA Repeats_Certain ==
    ASSUME Sound, Certain, NEW k \in Conns, Repeats(k), ~overlap' PROVE Certain'
<1> DEFINE p == Head(in[k])
           m == p.m
           rest == [in EXCEPT ![k] = Tail(in[k])]
<1>1. /\ stage[k] = "armed" /\ at[k] \in up /\ in[k] # <<>> /\ p.t = "PUBLISH" /\ ~Overlaps(k, p)
      /\ qos[m] = 2 /\ p.id \in sess[obj[k]].recv
      /\ Answered(k, "PUBREC", m, rest)
      /\ UNCHANGED <<pid, qos, up, at, hand, shut, obj, sess, rec, queued, sent>>
  BY Zenon DEF Repeats
<1>2. /\ k = rec.by /\ k \notin shut /\ obj[k] = Cur /\ Cur \in Conns /\ rec.by # Nil
      /\ Alive /\ Held /\ Owned /\ Recorded /\ (\A id \in Kept : Taken(id))
      /\ (\A j \in Readers : hand[j].id # p.id) /\ cst[m] = "pub" /\ m \in Msgs /\ p.id = pid[m]
  BY <1>1, TakerF, Zenon
<1>3. /\ \A i \in DOMAIN Tail(in[k]) :
            Waits(Tail(in[k])[i]) /\ Tail(in[k])[i].m # m /\ Tail(in[k])[i].m \in Msgs
      /\ \A i, j \in DOMAIN Tail(in[k]) : Tail(in[k])[i].m = Tail(in[k])[j].m => i = j
  BY <1>1, TakerF, Zenon
<1>4. rest[k] = Tail(in[k]) /\ Tail(in[k]) \in Seq(Packets)
  BY <1>1, RestF, HeadF, Zenon
<1> HIDE DEF rest, m
<1>5. Forwarded(m)
  <2>1. p.id \notin sess[Cur].forwarding
    BY <1>2, Zenon DEF Owned
  <2>2. Taken(p.id)
    BY <1>1, <1>2, <2>1, Zenon DEF Kept
  <2>3. PICK n \in Msgs : pid[n] = p.id /\ Unfinished(n) /\ Forwarded(n)
    BY <2>2, Zenon DEF Taken
  <2>4. n = m
    BY <1>2, <2>3, Zenon DEF Sound, Distinct, Unfinished
  <2>5. QED
    BY <2>3, <2>4, Zenon
<1>6. /\ \A n \in Msgs \ {m} : cst'[n] = cst[n]
      /\ cst'[m] \in {"pub", "rel"}
      /\ stage'[k] \in {"idle", "end"} /\ \A j \in Conns \ {k} : stage'[j] = stage[j]
  BY <1>1, <1>2, Zenon DEF Answered, Received
<1>7. stage'[k] \notin Busy /\ stage'[k] # "none" /\ Cur' = Cur /\ More
  BY <1>1, <1>6, Zenon DEF Busy, Forwarding, Cur, More
<1>8. AckedIsForwarded'
  BY <1>5, <1>6, <1>7, AckedStays, Zenon DEF Certain
<1>9. Apart'
  BY <1>1, <1>6, <1>7, ApartStays, Zenon DEF Certain, SameHand
<1>10. \A id : Taken(id) => Taken(id)'
  BY <1>1, <1>6, <1>7, TakenStays, Zenon DEF Unfinished
<1>11. Fresh'
  <2>1. \A i \in DOMAIN Tail(in[k]) : cst'[Tail(in[k])[i].m] =
           IF Tail(in[k])[i].t = "PUBLISH" THEN "pub" ELSE "rel"
    BY <1>3, <1>6, ZenonT(60) DEF Waits
  <2>2. /\ \A i \in DOMAIN in'[k] : cst'[in'[k][i].m] = IF in'[k][i].t = "PUBLISH" THEN "pub" ELSE "rel"
        /\ \A i, j \in DOMAIN in'[k] : in'[k][i].m = in'[k][j].m => i = j
    <3>1. CASE in'[k] = Tail(in[k])
      BY <1>3, <2>1, <3>1, Zenon
    <3>2. CASE in'[k] # Tail(in[k])
      <4> DEFINE q == Packet("PUBREL", pid[m], m, FALSE)
      <4>1. in'[k] = Append(Tail(in[k]), q) /\ cst'[m] = Received("PUBREC", m)
        BY <1>1, <1>4, <3>2, Zenon DEF Answered
      <4>2. q \in Packets /\ q.t = "PUBREL" /\ q.m = m
        BY <1>2, Zenon DEF q, Packet, Packets, Nil, Sound, TypeOK
      <4>3. cst'[m] = "rel"
        BY <1>2, <4>1, Zenon DEF Received
      <4> HIDE DEF q
      <4>4. \A i \in DOMAIN in'[k] : \/ i \in DOMAIN Tail(in[k]) /\ in'[k][i] = Tail(in[k])[i]
                                     \/ i = Len(Tail(in[k])) + 1 /\ in'[k][i] = q
        BY <1>4, <4>1, <4>2, AppendF
      <4>5. QED
        BY <1>3, <2>1, <4>2, <4>3, <4>4, Zenon
    <3>3. QED
      BY <3>1, <3>2, Zenon
  <2>3. QED
    BY <1>1, <1>2, <1>7, <2>2, Zenon DEF Fresh, Waits
<1>12. Record0'
  BY <1>1, <1>10, Zenon DEF Certain, Record0
<1>13. \A j \in Conns : Started(j)' <=> Started(j)
  BY <1>1, <1>6, <1>7, Zenon DEF Started
<1>14. Readers' = Readers /\ Kept' = Kept
  BY <1>1, <1>7, <1>13, Zenon DEF Readers, Kept
<1>15. Held'
  <2> SUFFICES ASSUME NEW j \in Readers
               PROVE  /\ stage'[j] \in Forwarding =>
                            /\ cst'[hand[j].m] = "pub"
                            /\ qos[hand[j].m] = 2 => hand[j].id \in sess[Cur].forwarding \cap sess[Cur].recv
                      /\ stage'[j] = "release" => hand[j].id \notin sess[Cur].recv
    BY <1>1, <1>7, <1>14, Zenon DEF Held
  <2>1. CASE j = k
    BY <1>7, <2>1, Zenon DEF Busy
  <2>2. CASE j # k
    <3>1. stage'[j] = stage[j] /\ j \in Conns
      BY <1>6, <2>2, Zenon DEF Readers
    <3>2. stage[j] \in Busy => hand[j].m \in Msgs /\ hand[j].m # m
      BY <1>2, <3>1, HandF, Zenon
    <3>3. QED
      BY <1>2, <1>6, <3>1, <3>2, Zenon DEF Held, Busy
  <2>3. QED
    BY <2>1, <2>2, Zenon
<1>16. Owned'
  <2>1. \A j \in Readers : stage[j] \in Forwarding => stage'[j] = stage[j]
    BY <1>1, <1>6, Zenon DEF Readers, Forwarding
  <2>2. QED
    BY <1>1, <1>2, <1>7, <1>14, <2>1 DEF Owned
<1>17. Recorded'
  <2>1. \A n \in Msgs : cst[n] = "rel" => cst'[n] = "rel"
    BY <1>2, <1>6, Zenon
  <2>2. QED
    BY <1>1, <1>2, <1>14, <2>1, Zenon DEF Recorded
<1>18. QED
  BY <1>2, <1>8, <1>9, <1>10, <1>11, <1>12, <1>14, <1>15, <1>16, <1>17, Zenon DEF Certain, InStep

\* A new message: nobody has it in hand.
LEMMA Publishes_Certain ==
    ASSUME Sound, Certain, NEW m \in Msgs, NEW id, NEW q, Publishes(m, id, q) PROVE Certain'
<1> DEFINE p == Packet("PUBLISH", id, m, FALSE)
<1>1. /\ conn # Nil /\ cst[m] = "new" /\ cst'[m] = "pub"
      /\ \A n \in Msgs \ {m} : cst'[n] = cst[n] /\ pid'[n] = pid[n] /\ qos'[n] = qos[n]
      /\ UNCHANGED <<up, at, stage, hand, shut, obj, sess, rec, queued, sent>>
      /\ in'[conn] = Append(in[conn], p)
  BY Zenon DEF Publishes
<1>2. p \in Packets /\ p.m = m /\ p.t = "PUBLISH"
  BY Zenon DEF Publishes, Packet
<1> HIDE DEF p
<1>3. conn \in Conns /\ conn = rec.by
  BY <1>1, OpenF, Zenon
<1>4. \A j \in Conns : stage[j] \in Busy => hand[j].m \in Msgs /\ hand[j].m # m
  BY <1>1, HandF, Zenon
<1>5. More /\ Cur' = Cur /\ Readers' = Readers /\ Kept' = Kept /\ Alive' = Alive
  BY <1>1, Zenon DEF More, Cur, Readers, Kept, Alive, Started
<1>6. Apart'
  BY <1>1, Zenon DEF Certain, Apart
<1>7. AckedIsForwarded'
  <2>1. \A n \in Msgs : cst'[n] \in {"rel", "done"} => cst[n] \in {"rel", "done"} \/ Forwarded(n)
    BY <1>1, Zenon
  <2>2. QED
    BY <1>5, <2>1, AckedStays, Zenon DEF Certain
<1>8. \A x : Taken(x) => Taken(x)'
  BY <1>1, Zenon DEF Taken, Unfinished, Forwarded
<1>9. Record0'
  BY <1>1, <1>8, Zenon DEF Certain, Record0
<1>10. Fresh'
  <2> DEFINE n == rec.by
  <2>1. SUFFICES ASSUME n # Nil, n \notin shut
                 PROVE  /\ \A i \in DOMAIN in'[n] : cst'[in'[n][i].m] =
                              IF in'[n][i].t = "PUBLISH" THEN "pub" ELSE "rel"
                        /\ \A i, j \in DOMAIN in'[n] : in'[n][i].m = in'[n][j].m => i = j
                        /\ stage[n] \in Busy =>
                              /\ cst'[hand[n].m] = IF hand[n].t = "PUBLISH" THEN "pub" ELSE "rel"
                              /\ \A i \in DOMAIN in'[n] : in'[n][i].m # hand[n].m
    BY <1>1, Zenon DEF Fresh, Waits
  <2>2. /\ \A i \in DOMAIN in[n] : cst[in[n][i].m] = IF in[n][i].t = "PUBLISH" THEN "pub" ELSE "rel"
        /\ \A i, j \in DOMAIN in[n] : in[n][i].m = in[n][j].m => i = j
        /\ stage[n] \in Busy =>
              /\ cst[hand[n].m] = IF hand[n].t = "PUBLISH" THEN "pub" ELSE "rel"
              /\ \A i \in DOMAIN in[n] : in[n][i].m # hand[n].m
    BY <2>1, Zenon DEF Certain, Fresh, Waits
  <2>3. n \in Conns /\ in[n] \in Seq(Packets) /\ in'[n] = Append(in[n], p)
    BY <1>1, <1>3, Zenon DEF Sound, TypeOK
  <2>4. \A i \in DOMAIN in[n] : in[n][i].m \in Msgs /\ in[n][i].m # m
    BY <1>1, <2>3, Zenon DEF Sound, Queues, About
  <2> HIDE DEF n
  <2>5. \A i \in DOMAIN in'[n] : \/ i \in DOMAIN in[n] /\ in'[n][i] = in[n][i]
                                 \/ i = Len(in[n]) + 1 /\ in'[n][i] = p
    BY <1>2, <2>3, AppendF
  <2>6. \A i \in DOMAIN in'[n] : cst'[in'[n][i].m] = IF in'[n][i].t = "PUBLISH" THEN "pub" ELSE "rel"
    BY <1>1, <1>2, <2>2, <2>4, <2>5
  <2>7. \A i, j \in DOMAIN in'[n] : in'[n][i].m = in'[n][j].m => i = j
    BY <1>2, <2>2, <2>4, <2>5, Zenon
  <2>8. stage[n] \in Busy =>
              /\ cst'[hand[n].m] = IF hand[n].t = "PUBLISH" THEN "pub" ELSE "rel"
              /\ \A i \in DOMAIN in'[n] : in'[n][i].m # hand[n].m
    BY <1>1, <1>2, <1>4, <2>2, <2>3, <2>5, ZenonT(60)
  <2>9. QED
    BY <2>6, <2>7, <2>8, Zenon
<1>11. InStep'
  <2>1. SUFFICES ASSUME Alive PROVE (Held /\ Owned /\ Recorded /\ \A x \in Kept : Taken(x))'
    BY <1>5, Zenon DEF InStep
  <2>2. Held /\ Owned /\ Recorded /\ \A x \in Kept : Taken(x)
    BY <2>1, Zenon DEF Certain, InStep
  <2>3. \A j \in Readers : /\ stage[j] \in Forwarding =>
                                 /\ cst'[hand[j].m] = cst[hand[j].m] /\ qos'[hand[j].m] = qos[hand[j].m]
    BY <1>1, <1>4, Zenon DEF Readers, Busy
  <2>4. Held'
    BY <1>1, <1>5, <2>2, <2>3, Zenon DEF Held
  <2>5. Owned'
    BY <1>1, <1>5, <2>2, <2>3 DEF Owned
  <2>6. Recorded'
    <3>1. \A n \in Msgs : cst[n] = "rel" => cst'[n] = "rel" /\ pid'[n] = pid[n]
      BY <1>1, Zenon
    <3>2. QED
      BY <1>1, <1>5, <2>2, <3>1 DEF Recorded
  <2>7. QED
    BY <1>5, <1>8, <2>2, <2>4, <2>5, <2>6, Zenon
<1>12. QED
  BY <1>6, <1>7, <1>9, <1>10, <1>11, Zenon DEF Certain

\* A connection has the session in memory, or one made from the record, which has
\* only what was forwarded.
LEMMA Connects_Certain ==
    ASSUME Sound, Certain, NEW k \in Conns, NEW b \in Brokers, Connects(k, b) PROVE Certain'
<1> DEFINE o == IF mem[b] # Nil THEN mem[b] ELSE k
<1>1. /\ stage'[k] = "idle" /\ (\A j \in Conns \ {k} : stage'[j] = stage[j])
      /\ obj'[k] = o /\ o \in Conns /\ (\A j \in Conns \ {k} : obj'[j] = obj[j])
      /\ mem[b] # Nil => sess'[o].recv = sess[o].recv /\ sess'[o].forwarding = sess[o].forwarding
      /\ mem[b] = Nil => sess'[o].recv = rec.recv /\ sess'[o].forwarding = {}
      /\ rec'.by = k /\ rec'.recv = {} /\ Resends(k)
      /\ UNCHANGED <<cst, pid, qos, hand, queued, sent>>
  BY Zenon DEF Connects
<1>a. stage[k] = "none"
  BY Zenon DEF Connects
<1>2. /\ \A j \in Conns : stage[j] # "none" => obj[j] # k /\ j # k
      /\ mem[b] # Nil => mem[b] = Cur /\ Alive
  BY <1>a, ConnectsF, Zenon
<1>3. More /\ stage'[k] \notin Busy /\ stage'[k] # "none" /\ Cur' = o
  BY <1>1, Zenon DEF More, Busy, Forwarding, Cur
<1>4. \A id : Taken(id) => Taken(id)'
  BY <1>1, <1>3, TakenStays, Zenon DEF Unfinished
<1>5. AckedIsForwarded' /\ Record0'
  BY <1>1, Zenon DEF Certain, AckedIsForwarded, Record0
<1>6. Apart'
  BY <1>1, <1>3, ZenonT(60) DEF Certain, Apart
<1>7. Fresh'
  <2>1. \A i \in DOMAIN in'[k] : cst[in'[k][i].m] = IF in'[k][i].t = "PUBLISH" THEN "pub" ELSE "rel"
    <3> SUFFICES ASSUME NEW i \in DOMAIN in'[k]
                 PROVE  cst[in'[k][i].m] = IF in'[k][i].t = "PUBLISH" THEN "pub" ELSE "rel"
      BY Zenon
    <3>1. PICK m \in Msgs : Unfinished(m) /\ in'[k][i] = Resent(m)
      BY <1>1, Zenon DEF Resends
    <3>2. Resent(m).m = m /\ Resent(m).t = IF cst[m] = "pub" THEN "PUBLISH" ELSE "PUBREL"
      BY <3>1, ResentF, Zenon
    <3>3. QED
      BY <3>1, <3>2, Zenon DEF Unfinished
  <2>2. \A i, j \in DOMAIN in'[k] : in'[k][i].m = in'[k][j].m => i = j
    BY <1>1, Zenon DEF Resends
  <2>3. QED
    BY <1>1, <1>3, <2>1, <2>2, Zenon DEF Fresh, Waits
<1>8. InStep'
  <2>1. CASE mem[b] = Nil
    <3>1. \A j \in Readers' : j = k
      <4> SUFFICES ASSUME NEW j \in Readers', j # k PROVE FALSE
        BY Zenon
      <4>1. j \in Conns /\ stage'[j] # "none" /\ obj'[j] = k
        BY <1>3, <2>1, Zenon DEF Readers, Started
      <4>2. stage[j] # "none" /\ obj[j] = k
        BY <1>1, <4>1, Zenon
      <4>3. QED
        BY <1>2, <4>1, <4>2, Zenon
    <3>2. Held'
      BY <1>3, <3>1, Zenon DEF Held, Busy
    <3>3. Owned' /\ Recorded'
      BY <1>1, <1>3, <2>1, Zenon DEF Owned, Recorded
    <3>4. Kept' = rec.recv
      BY <1>1, <1>3, <2>1, Zenon DEF Kept
    <3>5. \A id \in Kept' : Taken(id)'
      BY <1>4, <3>4, Zenon DEF Certain, Record0
    <3>6. QED
      BY <3>2, <3>3, <3>5, Zenon DEF InStep
  <2>2. CASE mem[b] # Nil
    <3>1. o = Cur /\ Held /\ Owned /\ \A id \in Kept : Taken(id)
      BY <1>2, <2>2, Zenon DEF Certain, InStep
    <3>2. /\ Cur' = Cur /\ Kept' = Kept
          /\ sess'[Cur].recv = sess[Cur].recv /\ sess'[Cur].forwarding = sess[Cur].forwarding
      BY <1>1, <1>3, <2>2, <3>1, Zenon DEF Kept
    <3>3. \A j \in Conns : stage'[j] \in Busy => j # k /\ stage'[j] = stage[j] /\ obj'[j] = obj[j]
      BY <1>1, <1>3, Zenon
    <3>4. \A j \in Readers' : stage'[j] \in Busy => j \in Readers /\ stage'[j] = stage[j]
      BY <3>2, <3>3, Zenon DEF Readers, Started, Busy, Forwarding
    <3>5. \A j \in Readers : j \in Readers' /\ stage'[j] = stage[j]
      BY <1>1, <1>2, <3>2, Zenon DEF Readers, Started
    <3>6. Held'
      BY <1>1, <3>1, <3>2, <3>4 DEF Held, Busy
    <3>7. Owned'
      BY <1>1, <3>1, <3>2, <3>5 DEF Owned
    <3>8. Recorded'
      BY <1>1, Zenon DEF Recorded
    <3>9. \A id \in Kept' : Taken(id)'
      BY <1>4, <3>1, <3>2, Zenon
    <3>10. QED
      BY <3>6, <3>7, <3>8, <3>9, Zenon DEF InStep
  <2>3. QED
    BY <2>1, <2>2, Zenon
<1>9. QED
  BY <1>5, <1>6, <1>7, <1>8, Zenon DEF Certain

----------------------------------------------------------------------------
(* What keeps Onefold. *)

\* The entry of a publish.
Entry(m, x) == [m |-> m, mid |-> x]
\* Entries are told apart by their message and their message id.
LEMMA EntryF ==
    ASSUME NEW m, NEW n, NEW x, NEW y, Entry(m, x) = Entry(n, y)
    PROVE  m = n /\ x = y
<1>1. Entry(m, x).m = m /\ Entry(n, y).m = n /\ Entry(m, x).mid = x /\ Entry(n, y).mid = y
  BY Zenon DEF Entry
<1>2. QED
  BY <1>1, Zenon

\* A reader that has a message id writes copies under the id the others have.
LEMMA CopyF ==
    ASSUME Sound, Certain, Tidy, NEW k \in Conns, stage[k] \in {"keep", "live", "record"},
           at[k] \in up, Tracked(hand[k].m)
    PROVE  /\ obj[k] = Cur
           /\ sess[Cur].pending[hand[k].id] = Entry(hand[k].m, hand[k].mid)
           /\ \A x \in Copies(hand[k].m) : x = hand[k].mid
<1> DEFINE m == hand[k].m
           id == hand[k].id
<1>1. stage[k] \in Forwarding /\ stage[k] \in Busy
  BY Zenon DEF Forwarding, Busy
<1>2. obj[k] = Cur
  BY <1>1, Zenon DEF Tidy, Left, Tracked
<1>3. Alive /\ k \in Readers /\ cst[m] = "pub" /\ id \in sess[Cur].forwarding
  BY <1>1, <1>2, OthersF, Zenon DEF Tracked
<1>4. sess[Cur].pending[id] = Entry(m, hand[k].mid)
  BY <1>3, Zenon DEF Tidy, Pends, Tracked, Entry
<1>5. id \notin Kept /\ id = pid[m] /\ m \in Msgs
  BY <1>1, <1>3, HandF, Zenon DEF Kept
<1>6. \A x \in Copies(m) : sess[Cur].pending[id] = Entry(m, x)
  BY <1>3, <1>5 DEF Tidy, Pends, Entry
<1>7. QED
  BY <1>2, <1>4, <1>6, EntryF

\* A step that changes neither hands, sessions nor copies.
Quiet ==
    /\ Calm
    /\ UNCHANGED <<queued, sent, exposed, hand, sess>>
    /\ \A k \in Conns : stage'[k] \in Busy => stage'[k] = stage[k]

\* Such a step keeps the copies in order.
LEMMA Quiet_Tidy == ASSUME Sound, Tidy, Quiet PROVE Tidy'
<1>1. /\ rec'.by = rec.by /\ obj' = obj /\ at' = at /\ up' \subseteq up /\ shut \subseteq shut'
      /\ cst' = cst /\ pid' = pid /\ qos' = qos
      /\ UNCHANGED <<queued, sent, exposed, hand, sess>>
      /\ \A k \in Conns : Part(in'[k], in[k])
      /\ \A k \in Conns : stage'[k] \in Busy => stage'[k] = stage[k]
  BY Zenon DEF Quiet, Calm
<1>2. Cur' = Cur /\ (Alive' => Alive) /\ Kept' = Kept
  BY <1>1, Zenon DEF Cur, Alive, Kept
<1>3. \A m \in Msgs : Copies(m)' = Copies(m) /\ (Tracked(m)' <=> Tracked(m))
  BY <1>1, Zenon DEF Copies, Tracked
<1>4. {"auth", "keep", "live", "record"} \subseteq Busy /\ Forwarding \subseteq Busy /\ "none" \notin Busy
  BY Zenon DEF Busy, Forwarding
<1>5. \A j \in Readers' : stage'[j] \in Busy => j \in Readers /\ stage'[j] = stage[j]
  BY <1>1, <1>2, <1>4, Zenon DEF Readers, Started
<1>6. Single' /\ Unsent'
  BY <1>1, <1>3, Zenon DEF Tidy, Single, Unsent
<1>7. Left'
  BY <1>1, <1>2, <1>4, Zenon DEF Tidy, Left
<1>8. Pends'
  <2>1. SUFFICES ASSUME Alive'
                 PROVE  /\ \A m \in Msgs :
                              Tracked(m)' /\ cst[m] = "pub" /\ pid[m] \notin Kept =>
                                  \A x \in Copies(m)' : sess[Cur].pending[pid[m]] = [m |-> m, mid |-> x]
                        /\ \A j \in Readers' :
                              stage'[j] \in {"keep", "live", "record"} /\ qos[hand[j].m] = 2 =>
                                  sess[Cur].pending[hand[j].id] = [m |-> hand[j].m, mid |-> hand[j].mid]
                        /\ \A j \in Readers' : stage'[j] = "auth" /\ ~hand[j].dup =>
                              /\ queued[hand[j].m] \cup sent[hand[j].m] = {}
                              /\ \A i \in Conns \ {j} : stage'[i] \in Busy => hand[i].m # hand[j].m
    BY <1>1, <1>2, Zenon DEF Pends, Copies
  <2>2. Pends /\ Alive
    BY <1>2, <2>1, Zenon DEF Tidy
  <2>3. \A m \in Msgs : Tracked(m)' /\ cst[m] = "pub" /\ pid[m] \notin Kept =>
           \A x \in Copies(m)' : sess[Cur].pending[pid[m]] = [m |-> m, mid |-> x]
    BY <1>3, <2>2 DEF Pends
  <2>4. \A j \in Readers' : stage'[j] \in {"keep", "live", "record"} /\ qos[hand[j].m] = 2 =>
           sess[Cur].pending[hand[j].id] = [m |-> hand[j].m, mid |-> hand[j].mid]
    BY <1>4, <1>5, <2>2 DEF Pends
  <2>5. \A j \in Readers' : stage'[j] = "auth" /\ ~hand[j].dup =>
           /\ queued[hand[j].m] \cup sent[hand[j].m] = {}
           /\ \A i \in Conns \ {j} : stage'[i] \in Busy => hand[i].m # hand[j].m
    BY <1>1, <1>4, <1>5, <2>2, Zenon DEF Pends, Copies
  <2>6. QED
    BY <2>3, <2>4, <2>5, Zenon
<1>9. FirstSent'
  <2> DEFINE n == rec.by
  <2>1. SUFFICES ASSUME n # Nil, n \notin shut', NEW i \in DOMAIN in'[n],
                        in'[n][i].t = "PUBLISH", ~in'[n][i].dup
                 PROVE  /\ queued[in'[n][i].m] \cup sent[in'[n][i].m] = {}
                        /\ \A j \in Conns : stage'[j] \in Busy => hand[j].m # in'[n][i].m
    BY <1>1, Zenon DEF FirstSent, Copies
  <2>2. n \in Conns /\ Part(in'[n], in[n])
    BY <1>1, <2>1, CurF, Zenon
  <2>3. PICK g \in [DOMAIN in'[n] -> DOMAIN in[n]] : \A x \in DOMAIN in'[n] : in'[n][x] = in[n][g[x]]
    BY <2>2, Zenon DEF Part
  <2>4. g[i] \in DOMAIN in[n] /\ in'[n][i] = in[n][g[i]]
    BY <2>3, Zenon
  <2>5. /\ Copies(in[n][g[i]].m) = {}
        /\ \A j \in Conns : stage[j] \in Busy => hand[j].m # in[n][g[i]].m
    BY <1>1, <2>1, <2>4, Zenon DEF Tidy, FirstSent
  <2>6. QED
    BY <1>1, <2>4, <2>5, Zenon DEF Copies
<1>10. QED
  BY <1>6, <1>7, <1>8, <1>9, Zenon DEF Tidy

\* A message gets its id: that of the copies, if it has any.
LEMMA Allows_Tidy ==
    ASSUME Sound, Certain, Tidy, Dedupe, NEW k \in Conns, Allows(k) PROVE Tidy'
<1> DEFINE m == hand[k].m
           id == hand[k].id
<1>1. /\ stage[k] = "auth" /\ at[k] \in up /\ stage' = [stage EXCEPT ![k] = "keep"]
      /\ UNCHANGED <<cst, pid, qos, up, at, in, shut, obj, rec, queued, sent, exposed>>
  BY Zenon DEF Allows, Goes
<1>2. stage[k] \in Forwarding /\ stage[k] \in Busy
  BY <1>1, Zenon DEF Forwarding, Busy
<1>3. /\ stage'[k] = "keep" /\ (\A j \in Conns \ {k} : stage'[j] = stage[j])
      /\ \A j \in Conns : /\ stage'[j] \in Forwarding <=> stage[j] \in Forwarding
                          /\ stage'[j] \in Busy <=> stage[j] \in Busy
                          /\ stage'[j] = "none" <=> stage[j] = "none"
  <2>1. "keep" \in Forwarding
    BY Zenon DEF Forwarding
  <2>2. QED
    BY <1>1, <1>2, <2>1, OnwardF, Zenon
<1>4. /\ hand'[k].m = m /\ hand'[k].id = id /\ hand'[k].t = hand[k].t /\ hand'[k].mid = idFor(k)
      /\ \A j \in Conns \ {k} : hand'[j] = hand[j]
  BY AllowsF, Zenon DEF SameHand
<1>5. /\ \A o \in Conns \ {obj[k]} : sess'[o] = sess[o]
      /\ sess'[obj[k]].recv = sess[obj[k]].recv /\ sess'[obj[k]].forwarding = sess[obj[k]].forwarding
      /\ sess'[obj[k]].pending = [sess[obj[k]].pending EXCEPT ![id] = Entry(m, idFor(k))]
  BY AllowsF, Zenon DEF Becomes, Entry
<1>6. Cur' = Cur /\ Alive' = Alive /\ Readers' = Readers
  BY <1>1, <1>3, Zenon DEF Cur, Alive, Readers, Started
<1>7. \A n : Copies(n)' = Copies(n) /\ (Tracked(n)' <=> Tracked(n))
  BY <1>1, Zenon DEF Copies, Tracked
<1>8. Single' /\ Unsent'
  BY <1>1, <1>7, Zenon DEF Tidy, Single, Unsent
<1>9. \A j \in Conns : hand'[j].m = hand[j].m
  BY <1>4, Zenon
<1>10. Left'
  BY <1>1, <1>3, <1>6, <1>9, Zenon DEF Tidy, Left
<1>11. FirstSent'
  BY <1>1, <1>3, <1>9 DEF Tidy, FirstSent, Copies
<1>12. Pends'
  <2>1. SUFFICES ASSUME Alive
                 PROVE  /\ \A n \in Msgs :
                              Tracked(n) /\ cst[n] = "pub" /\ pid[n] \notin Kept' =>
                                  \A x \in Copies(n) : sess'[Cur].pending[pid[n]] = Entry(n, x)
                        /\ \A j \in Readers :
                              stage'[j] \in {"keep", "live", "record"} /\ qos[hand'[j].m] = 2 =>
                                  sess'[Cur].pending[hand'[j].id] = Entry(hand'[j].m, hand'[j].mid)
                        /\ \A j \in Readers : stage'[j] = "auth" /\ ~hand'[j].dup =>
                              /\ queued[hand'[j].m] \cup sent[hand'[j].m] = {}
                              /\ \A i \in Conns \ {j} : stage'[i] \in Busy => hand'[i].m # hand'[j].m
    BY <1>1, <1>6, <1>7, Zenon DEF Pends, Copies, Entry
  <2>2. Pends /\ Cur \in Conns /\ Readers \subseteq Conns
    BY <2>1, CurF, Zenon DEF Tidy, Alive, Readers
  <2>3. Kept' = Kept
    BY <1>5, <1>6, <2>2, Zenon DEF Kept
  <2>4. \A j \in Readers : stage'[j] = "auth" /\ ~hand'[j].dup =>
           /\ queued[hand'[j].m] \cup sent[hand'[j].m] = {}
           /\ \A i \in Conns \ {j} : stage'[i] \in Busy => hand'[i].m # hand'[j].m
    <3> SUFFICES ASSUME NEW j \in Readers, stage'[j] = "auth", ~hand'[j].dup
                 PROVE  /\ queued[hand'[j].m] \cup sent[hand'[j].m] = {}
                        /\ \A i \in Conns \ {j} : stage'[i] \in Busy => hand'[i].m # hand'[j].m
      BY Zenon
    <3>1. j # k /\ stage[j] = "auth" /\ hand'[j] = hand[j]
      BY <1>3, <1>4, <2>2, Zenon
    <3>2. /\ Copies(hand[j].m) = {} /\ \A i \in Conns \ {j} : stage[i] \in Busy => hand[i].m # hand[j].m
      BY <2>1, <2>2, <3>1, Zenon DEF Pends
    <3>3. QED
      BY <1>3, <1>9, <3>1, <3>2, Zenon DEF Copies
  <2>5. CASE obj[k] # Cur
    <3>1. sess'[Cur] = sess[Cur] /\ \A j \in Readers : j \in Conns \ {k}
      BY <1>5, <2>2, <2>5, Zenon DEF Readers
    <3>2. \A n \in Msgs : Tracked(n) /\ cst[n] = "pub" /\ pid[n] \notin Kept' =>
             \A x \in Copies(n) : sess'[Cur].pending[pid[n]] = Entry(n, x)
      BY <2>1, <2>2, <2>3, <3>1 DEF Pends, Entry
    <3>3. \A j \in Readers : stage'[j] \in {"keep", "live", "record"} /\ qos[hand'[j].m] = 2 =>
             sess'[Cur].pending[hand'[j].id] = Entry(hand'[j].m, hand'[j].mid)
      BY <1>3, <1>4, <2>1, <2>2, <3>1 DEF Pends, Entry
    <3>4. QED
      BY <2>4, <3>2, <3>3, Zenon
  <2>6. CASE obj[k] = Cur
    <3>1. /\ k \in Readers /\ cst[m] = "pub" /\ m \in Msgs /\ id \in Ids /\ id = pid[m]
          /\ \A j \in Readers \ {k} : stage[j] \in Busy => hand[j].id # id /\ hand[j].id \in Ids
      BY <1>1, <1>2, <2>6, OthersF, HandF, Zenon
    <3>2. sess[Cur].pending \in [Ids -> Entries]
      BY <2>2, Zenon DEF Sound, TypeOK, Sessions
    <3>3. /\ sess'[Cur].pending[id] = Entry(m, idFor(k))
          /\ \A x \in Ids \ {id} : sess'[Cur].pending[x] = sess[Cur].pending[x]
      BY <1>5, <2>6, <3>1, <3>2, Zenon
    <3>4. ASSUME NEW n \in Msgs, Tracked(n), cst[n] = "pub", pid[n] \notin Kept, NEW x \in Copies(n)
          PROVE  sess'[Cur].pending[pid[n]] = Entry(n, x)
      <4>1. sess[Cur].pending[pid[n]] = Entry(n, x)
        BY <2>1, <2>2, <3>4, Zenon DEF Pends, Entry
      <4>2. pid[n] \in Ids
        BY <3>4, Zenon DEF Sound, Distinct
      <4>3. CASE pid[n] # id
        BY <3>3, <4>1, <4>2, <4>3, Zenon
      <4>4. CASE pid[n] = id
        <5>1. n = m
          BY <3>1, <3>4, <4>4, Zenon DEF Sound, Distinct, Unfinished
        <5>2. hand[k].dup
          BY <1>1, <2>1, <2>2, <3>1, <3>4, <5>1, Zenon DEF Pends
        <5>3. sess[Cur].pending[id].m = m /\ sess[Cur].pending[id].mid = x
          BY <4>1, <4>4, <5>1 DEF Entry
        <5>4. idFor(k) = x
          BY <2>6, <5>2, <5>3, Zenon DEF idFor
        <5>5. QED
          BY <3>3, <4>4, <5>1, <5>4, Zenon
      <4>5. QED
        BY <4>3, <4>4, Zenon
    <3>5. ASSUME NEW j \in Readers, stage'[j] \in {"keep", "live", "record"}, qos[hand'[j].m] = 2
          PROVE  sess'[Cur].pending[hand'[j].id] = Entry(hand'[j].m, hand'[j].mid)
      <4>1. CASE j = k
        BY <1>4, <3>3, <4>1, Zenon
      <4>2. CASE j # k
        <5>1. stage'[j] = stage[j] /\ hand'[j] = hand[j] /\ stage[j] \in Busy
          BY <1>3, <1>4, <2>2, <3>5, <4>2, Zenon DEF Busy, Forwarding
        <5>2. sess[Cur].pending[hand[j].id] = Entry(hand[j].m, hand[j].mid)
          BY <2>1, <2>2, <3>5, <5>1, Zenon DEF Pends, Entry
        <5>3. hand[j].id \in Ids \ {id}
          BY <3>1, <4>2, <5>1, Zenon
        <5>4. QED
          BY <3>3, <5>1, <5>2, <5>3, Zenon
      <4>3. QED
        BY <4>1, <4>2, Zenon
    <3>6. QED
      BY <2>3, <2>4, <3>4, <3>5, Zenon
  <2>7. QED
    BY <2>5, <2>6, Zenon
<1>13. QED
  BY <1>8, <1>10, <1>11, <1>12, Zenon DEF Tidy

\* A reader adds a copy of its message at most, under its message id.
Adds(k) ==
    \A n \in Msgs :
        \/ Copies(n)' = Copies(n)
        \/ /\ n = hand[k].m /\ stage[k] \in {"keep", "live", "record"}
           /\ Copies(n)' = Copies(n) \cup {hand[k].mid}

\* The copies of a message keep one message id, and what has none keeps none.
LEMMA AddsF ==
    ASSUME Sound, Certain, Tidy, NEW k \in Conns, stage[k] \in Busy, at[k] \in up, Adds(k),
           qos' = qos, exposed' = exposed, \A n \in Msgs : cst'[n] = "new" => cst[n] = "new"
    PROVE  /\ Single' /\ Unsent'
           /\ \A n \in Msgs : n # hand[k].m => Copies(n)' = Copies(n)
           /\ \A n \in Msgs : Tracked(n) => \A x \in Copies(n)' :
                 x \in Copies(n) \/ (/\ n = hand[k].m /\ x = hand[k].mid /\ obj[k] = Cur
                                     /\ sess[Cur].pending[hand[k].id] = Entry(n, x))
<1>1. \A n : Tracked(n)' <=> Tracked(n)
  BY Zenon DEF Tracked
<1>2. \A n \in Msgs : n # hand[k].m => Copies(n)' = Copies(n)
  BY Zenon DEF Adds
<1>3. hand[k].m \in Msgs /\ cst[hand[k].m] # "new"
  BY HandF, Zenon
<1>4. Unsent'
  BY <1>2, <1>3, Zenon DEF Tidy, Unsent
<1>5. ASSUME NEW n \in Msgs, Tracked(n), Copies(n)' # Copies(n)
      PROVE  /\ n = hand[k].m /\ Copies(n)' = Copies(n) \cup {hand[k].mid} /\ obj[k] = Cur
             /\ sess[Cur].pending[hand[k].id] = Entry(n, hand[k].mid)
             /\ \A x \in Copies(n) : x = hand[k].mid
  <2>1. /\ n = hand[k].m /\ stage[k] \in {"keep", "live", "record"}
        /\ Copies(n)' = Copies(n) \cup {hand[k].mid}
    BY <1>5, Zenon DEF Adds
  <2>2. QED
    BY <1>5, <2>1, CopyF, Zenon
<1>6. ASSUME NEW n \in Msgs, Tracked(n), NEW x \in Copies(n)', NEW y \in Copies(n)'
      PROVE  x = y
  <2>1. CASE Copies(n)' = Copies(n)
    BY <1>6, <2>1, Zenon DEF Tidy, Single
  <2>2. CASE Copies(n)' # Copies(n)
    BY <1>5, <1>6, <2>2
  <2>3. QED
    BY <2>1, <2>2, Zenon
<1>7. Single'
  BY <1>1, <1>6, Zenon DEF Single
<1>8. QED
  BY <1>2, <1>4, <1>5, <1>7, Zenon

\* A copy is stored or published.
LEMMA Copies_Tidy ==
    ASSUME Sound, Certain, Tidy, NEW k \in Conns, Stores(k) \/ Sends(k) PROVE Tidy'
<1>1. /\ stage[k] \in {"keep", "live"} /\ at[k] \in up /\ stage[k] \in Forwarding /\ stage[k] \in Busy
      /\ UNCHANGED <<cst, pid, qos, up, at, in, hand, shut, obj, sess, rec, exposed>>
  BY Zenon DEF Stores, Sends, Busy, Forwarding
<1>2. /\ stage'[k] \in {"live", "record"} /\ (\A j \in Conns \ {k} : stage'[j] = stage[j])
      /\ \A j \in Conns : /\ stage'[j] \in Forwarding <=> stage[j] \in Forwarding
                          /\ stage'[j] \in Busy <=> stage[j] \in Busy
                          /\ stage'[j] = "none" <=> stage[j] = "none"
  <2>1. PICK to \in {"live", "record"} : stage' = [stage EXCEPT ![k] = to]
    BY Zenon DEF Stores, Sends, Goes
  <2>2. to \in Forwarding
    BY <2>1, Zenon DEF Forwarding
  <2>3. QED
    BY <1>1, <2>1, <2>2, OnwardF, Zenon
<1>3. hand[k].m \in Msgs /\ queued \in [Msgs -> SUBSET (Conns \cup {Nil})]
      /\ sent \in [Msgs -> SUBSET (Conns \cup {Nil})]
  BY <1>1, HandF, Zenon DEF Sound, TypeOK
<1>4. \A n \in Msgs :
         \/ queued'[n] = queued[n] /\ sent'[n] = sent[n]
         \/ n = hand[k].m /\ queued'[n] \cup sent'[n] = queued[n] \cup sent[n] \cup {hand[k].mid}
  BY <1>3, ZenonT(60) DEF Stores, Sends
<1>5. Adds(k)
  BY <1>1, <1>4, Zenon DEF Adds, Copies
<1>6. /\ Single' /\ Unsent'
      /\ \A n \in Msgs : n # hand[k].m => Copies(n)' = Copies(n)
      /\ \A n \in Msgs : Tracked(n) => \A x \in Copies(n)' :
            x \in Copies(n) \/ (/\ n = hand[k].m /\ x = hand[k].mid /\ obj[k] = Cur
                                /\ sess[Cur].pending[hand[k].id] = Entry(n, x))
  BY <1>1, <1>5, AddsF, Zenon
<1>7. Cur' = Cur /\ Alive' = Alive /\ Readers' = Readers /\ Kept' = Kept
  BY <1>1, <1>2, Zenon DEF Cur, Alive, Readers, Started, Kept
<1>8. Left'
  BY <1>1, <1>2, <1>7, Zenon DEF Tidy, Left
<1>9. FirstSent'
  <2> SUFFICES ASSUME rec.by # Nil, rec.by \notin shut, NEW i \in DOMAIN in[rec.by],
                      in[rec.by][i].t = "PUBLISH", ~in[rec.by][i].dup
               PROVE  /\ queued'[in[rec.by][i].m] \cup sent'[in[rec.by][i].m] = {}
                      /\ \A j \in Conns : stage'[j] \in Busy => hand[j].m # in[rec.by][i].m
    BY <1>1, Zenon DEF FirstSent, Copies
  <2>1. /\ Copies(in[rec.by][i].m) = {}
        /\ \A j \in Conns : stage[j] \in Busy => hand[j].m # in[rec.by][i].m
    BY Zenon DEF Tidy, FirstSent
  <2>2. in[rec.by][i].m \in Msgs
    BY CurF, Zenon DEF Sound, Queues, About
  <2>3. QED
    BY <1>1, <1>2, <1>4, <2>1, <2>2, Zenon DEF Copies
<1>10. Pends'
  <2>1. SUFFICES ASSUME Alive
                 PROVE  /\ \A n \in Msgs :
                              Tracked(n) /\ cst[n] = "pub" /\ pid[n] \notin Kept =>
                                  \A x \in Copies(n)' : sess[Cur].pending[pid[n]] = Entry(n, x)
                        /\ \A j \in Readers :
                              stage'[j] \in {"keep", "live", "record"} /\ qos[hand[j].m] = 2 =>
                                  sess[Cur].pending[hand[j].id] = Entry(hand[j].m, hand[j].mid)
                        /\ \A j \in Readers : stage'[j] = "auth" /\ ~hand[j].dup =>
                              /\ queued'[hand[j].m] \cup sent'[hand[j].m] = {}
                              /\ \A i \in Conns \ {j} : stage'[i] \in Busy => hand[i].m # hand[j].m
    BY <1>1, <1>7, Zenon DEF Pends, Tracked, Copies, Entry
  <2>2. Pends /\ Readers \subseteq Conns
    BY Zenon DEF Tidy, Readers
  <2>3. ASSUME NEW n \in Msgs, Tracked(n), cst[n] = "pub", pid[n] \notin Kept, NEW x \in Copies(n)'
        PROVE  sess[Cur].pending[pid[n]] = Entry(n, x)
    <3>1. CASE x \in Copies(n)
      BY <2>1, <2>2, <2>3, <3>1, Zenon DEF Pends, Entry
    <3>2. CASE n = hand[k].m /\ sess[Cur].pending[hand[k].id] = Entry(n, x)
      BY <1>1, <3>2, HandF, Zenon
    <3>3. QED
      BY <1>6, <2>3, <3>1, <3>2, Zenon
  <2>4. \A j \in Readers : stage'[j] \in {"keep", "live", "record"} /\ qos[hand[j].m] = 2 =>
           sess[Cur].pending[hand[j].id] = Entry(hand[j].m, hand[j].mid)
    BY <1>1, <1>2, <2>1, <2>2 DEF Pends, Entry
  <2>5. ASSUME NEW j \in Readers, stage'[j] = "auth", ~hand[j].dup
        PROVE  /\ queued'[hand[j].m] \cup sent'[hand[j].m] = {}
               /\ \A i \in Conns \ {j} : stage'[i] \in Busy => hand[i].m # hand[j].m
    <3>1. j # k /\ stage[j] = "auth" /\ j \in Conns /\ stage[j] \in Busy
      BY <1>2, <2>2, <2>5, Zenon DEF Busy, Forwarding
    <3>2. /\ Copies(hand[j].m) = {} /\ \A i \in Conns \ {j} : stage[i] \in Busy => hand[i].m # hand[j].m
      BY <2>1, <2>2, <2>5, <3>1, Zenon DEF Pends
    <3>3. hand[j].m \in Msgs /\ hand[j].m # hand[k].m
      BY <1>1, <3>1, <3>2, HandF, Zenon
    <3>4. QED
      BY <1>2, <1>4, <3>2, <3>3, Zenon DEF Copies
  <2>6. QED
    BY <2>3, <2>4, <2>5, Zenon
<1>11. QED
  BY <1>6, <1>8, <1>9, <1>10, Zenon DEF Tidy

\* A reader leaves its packet: its identifier is kept when what was pending under
\* it is forgotten.
LEMMA LeavesTidy ==
    ASSUME Sound, Certain, Tidy, NEW k \in Conns, NEW t, Leaves(k, t), Adds(k),
           obj[k] = Cur =>
               /\ Kept \subseteq Kept'
               /\ \A x \in Ids : \/ sess'[Cur].pending[x] = sess[Cur].pending[x]
                                 \/ /\ x = hand[k].id /\ stage[k] = "record"
                                    /\ qos[hand[k].m] = 2 => x \in Kept'
                                    /\ \A n \in Msgs : Copies(n)' = Copies(n)
    PROVE  Tidy'
<1> DEFINE m == hand[k].m
           id == hand[k].id
<1>1. /\ m \in Msgs /\ id \in Ids /\ id = pid[m]
      /\ stage'[k] \notin Busy /\ stage[k] # "none"
      /\ \A j \in Conns \ {k} : stage'[j] = stage[j] /\ hand'[j] = hand[j]
      /\ \A n \in Msgs \ {m} : cst'[n] = cst[n]
      /\ Readers' = Readers /\ Cur' = Cur /\ Alive' = Alive
  BY LeavesF, Zenon
<1>2. /\ stage[k] \in Busy /\ at[k] \in up /\ rec'.by = rec.by
      /\ UNCHANGED <<pid, qos, up, at, shut, obj, exposed>>
      /\ \A o \in Conns \ {obj[k]} : sess'[o] = sess[o]
  BY Zenon DEF Leaves
<1>3. cst'[m] = cst[m] \/ cst'[m] \in {"rel", "refused", "done"}
  <2>1. cst'[m] = cst[m] \/ cst'[m] = Received(t, m)
    BY LeavesF, Zenon
  <2>2. QED
    BY <2>1, Zenon DEF Received
<1>4. \A n \in Msgs : /\ cst'[n] = "pub" => cst[n] = "pub"
                      /\ cst'[n] = "new" => cst[n] = "new"
  BY <1>1, <1>3, Zenon
<1>5. /\ Single' /\ Unsent'
      /\ \A n \in Msgs : n # m => Copies(n)' = Copies(n)
      /\ \A n \in Msgs : Tracked(n) => \A x \in Copies(n)' :
            x \in Copies(n) \/ (/\ n = m /\ x = hand[k].mid /\ obj[k] = Cur
                                /\ sess[Cur].pending[id] = Entry(n, x))
  BY <1>2, <1>4, AddsF, Zenon
<1>6. Forwarding \subseteq Busy /\ "auth" \in Busy /\ {"keep", "live", "record"} \subseteq Busy
  BY Zenon DEF Busy, Forwarding
<1>7. Left'
  BY <1>1, <1>2, <1>6, Zenon DEF Tidy, Left
<1>8. FirstSent'
  <2> DEFINE n == rec.by
  <2> SUFFICES ASSUME n # Nil, n \notin shut, NEW i \in DOMAIN in'[n],
                      in'[n][i].t = "PUBLISH", ~in'[n][i].dup
               PROVE  /\ queued'[in'[n][i].m] \cup sent'[in'[n][i].m] = {}
                      /\ \A j \in Conns : stage'[j] \in Busy => hand'[j].m # in'[n][i].m
    BY <1>2, Zenon DEF FirstSent, Copies
  <2>1. n \in Conns /\ in[n] \in Seq(Packets)
    BY CurF, Zenon DEF Sound, TypeOK
  <2>2. in'[n] = in[n] \/ in'[n] = Append(in[n], Packet("PUBREL", pid[m], m, FALSE))
    BY <2>1, Zenon DEF Leaves, Answered
  <2>3. Packet("PUBREL", pid[m], m, FALSE).t = "PUBREL"
    BY Zenon DEF Packet
  <2>4. i \in DOMAIN in[n] /\ in'[n][i] = in[n][i]
    <3> DEFINE q == Packet("PUBREL", pid[m], m, FALSE)
               s == in[n]
    <3>1. q.t = "PUBREL" /\ s \in Seq(Packets) /\ (in'[n] = s \/ in'[n] = Append(s, q))
      BY <2>1, <2>2, <2>3, Zenon
    <3> HIDE DEF q, s
    <3>2. i \in DOMAIN s /\ in'[n][i] = s[i]
      BY <3>1
    <3>3. QED
      BY <3>2, Zenon DEF s
  <2>5. /\ Copies(in[n][i].m) = {} /\ in[n][i].m \in Msgs
        /\ \A j \in Conns : stage[j] \in Busy => hand[j].m # in[n][i].m
    BY <2>1, <2>4, Zenon DEF Tidy, FirstSent, Sound, Queues, About
  <2>6. in[n][i].m # m
    BY <1>2, <2>5, Zenon
  <2>7. queued'[in[n][i].m] \cup sent'[in[n][i].m] = {}
    BY <1>5, <2>5, <2>6, Zenon DEF Copies
  <2>8. QED
    BY <1>1, <2>4, <2>5, <2>7, Zenon
<1>9. Pends'
  <2>1. SUFFICES ASSUME Alive
                 PROVE  /\ \A n \in Msgs :
                              Tracked(n) /\ cst'[n] = "pub" /\ pid[n] \notin Kept' =>
                                  \A x \in Copies(n)' : sess'[Cur].pending[pid[n]] = Entry(n, x)
                        /\ \A j \in Readers :
                              stage'[j] \in {"keep", "live", "record"} /\ qos[hand'[j].m] = 2 =>
                                  sess'[Cur].pending[hand'[j].id] = Entry(hand'[j].m, hand'[j].mid)
                        /\ \A j \in Readers : stage'[j] = "auth" /\ ~hand'[j].dup =>
                              /\ queued'[hand'[j].m] \cup sent'[hand'[j].m] = {}
                              /\ \A i \in Conns \ {j} : stage'[i] \in Busy => hand'[i].m # hand'[j].m
    BY <1>1, <1>2, ZenonT(60) DEF Pends, Tracked, Copies, Entry
  <2>2. Pends /\ Readers \subseteq Conns /\ Cur \in Conns
    BY <2>1, CurF, Zenon DEF Tidy, Readers, Alive
  <2>3. obj[k] # Cur => sess'[Cur] = sess[Cur] /\ Kept' = Kept /\ k \notin Readers
    BY <1>1, <1>2, <2>2, Zenon DEF Kept, Readers
  <2>4. ASSUME NEW n \in Msgs, Tracked(n), cst'[n] = "pub", pid[n] \notin Kept', NEW x \in Copies(n)'
        PROVE  sess'[Cur].pending[pid[n]] = Entry(n, x)
    <3>1. cst[n] = "pub" /\ pid[n] \notin Kept /\ pid[n] \in Ids
      BY <1>4, <2>3, <2>4, Zenon DEF Sound, Distinct
    <3>2. sess[Cur].pending[pid[n]] = Entry(n, x)
      <4>1. CASE x \in Copies(n)
        BY <2>1, <2>2, <2>4, <3>1, <4>1, Zenon DEF Pends, Entry
      <4>2. CASE n = m /\ sess[Cur].pending[id] = Entry(n, x)
        BY <1>1, <4>2, Zenon
      <4>3. QED
        BY <1>5, <2>4, <4>1, <4>2, Zenon
    <3>3. sess'[Cur].pending[pid[n]] = sess[Cur].pending[pid[n]]
      <4>1. CASE obj[k] # Cur
        BY <2>3, <4>1, Zenon
      <4>2. CASE obj[k] = Cur
        <5>1. SUFFICES ASSUME pid[n] = id, stage[k] = "record", qos[m] = 2 => id \in Kept' PROVE FALSE
          BY <3>1, <4>2, Zenon
        <5>2. cst[m] = "pub"
          <6>1. stage[k] \in Forwarding
            BY <5>1, Zenon DEF Forwarding
          <6>2. QED
            BY <1>2, <4>2, <6>1, OthersF, Zenon
        <5>3. n = m
          BY <1>1, <3>1, <5>1, <5>2, ZenonT(60) DEF Sound, Distinct, Unfinished
        <5>4. QED
          BY <2>4, <5>1, <5>3, Zenon DEF Tracked
      <4>3. QED
        BY <4>1, <4>2, Zenon
    <3>4. QED
      BY <3>2, <3>3, Zenon
  <2>5. ASSUME NEW j \in Readers, stage'[j] \in {"keep", "live", "record"}, qos[hand'[j].m] = 2
        PROVE  sess'[Cur].pending[hand'[j].id] = Entry(hand'[j].m, hand'[j].mid)
    <3>1. j \in Conns \ {k} /\ stage'[j] = stage[j] /\ hand'[j] = hand[j] /\ stage[j] \in Busy
      BY <1>1, <1>6, <2>2, <2>5, Zenon
    <3>2. sess[Cur].pending[hand[j].id] = Entry(hand[j].m, hand[j].mid)
      BY <2>1, <2>2, <2>5, <3>1, Zenon DEF Pends, Entry
    <3>3. sess'[Cur].pending[hand[j].id] = sess[Cur].pending[hand[j].id]
      <4>1. CASE obj[k] # Cur
        BY <2>3, <4>1, Zenon
      <4>2. CASE obj[k] = Cur
        <5>1. hand[j].id # id /\ hand[j].id \in Ids
          BY <1>2, <3>1, <4>2, OthersF, Zenon
        <5>2. QED
          BY <4>2, <5>1, Zenon
      <4>3. QED
        BY <4>1, <4>2, Zenon
    <3>4. QED
      BY <3>1, <3>2, <3>3, Zenon
  <2>6. ASSUME NEW j \in Readers, stage'[j] = "auth", ~hand'[j].dup
        PROVE  /\ queued'[hand'[j].m] \cup sent'[hand'[j].m] = {}
               /\ \A i \in Conns \ {j} : stage'[i] \in Busy => hand'[i].m # hand'[j].m
    <3>1. j \in Conns \ {k} /\ stage'[j] = stage[j] /\ hand'[j] = hand[j] /\ stage[j] \in Busy
      BY <1>1, <1>6, <2>2, <2>6, Zenon
    <3>2. /\ Copies(hand[j].m) = {} /\ \A i \in Conns \ {j} : stage[i] \in Busy => hand[i].m # hand[j].m
      BY <2>1, <2>2, <2>6, <3>1, Zenon DEF Pends
    <3>3. hand[j].m \in Msgs /\ hand[j].m # m
      BY <1>2, <3>1, <3>2, HandF, Zenon
    <3>4. QED
      BY <1>1, <1>5, <3>1, <3>2, <3>3, Zenon DEF Copies
  <2>7. QED
    BY <2>4, <2>5, <2>6, Zenon
<1>10. QED
  BY <1>5, <1>7, <1>8, <1>9, Zenon DEF Tidy

\* A message is refused.
LEMMA Refuses_Tidy ==
    ASSUME Sound, Certain, Tidy, NEW k \in Conns, Refuses(k) PROVE Tidy'
<1> DEFINE p == hand[k]
           o == obj[k]
<1>1. /\ Leaves(k, "refusal") /\ stage[k] \in {"auth", "keep", "live"}
      /\ \A m \in Msgs :
            \/ queued'[m] = queued[m] /\ sent'[m] = sent[m]
            \/ /\ m = p.m /\ stage[k] # "auth"
               /\ queued'[m] \cup sent'[m] = queued[m] \cup sent[m] \cup {p.mid}
  BY Zenon DEF Refuses
<1>2. Adds(k)
  BY <1>1, Zenon DEF Adds, Copies
<1>3. stage[k] \in Forwarding /\ stage[k] \in Busy /\ at[k] \in up
  BY <1>1, Zenon DEF Forwarding, Busy, Leaves
<1>4. ASSUME o = Cur
      PROVE  Kept \subseteq Kept' /\ sess'[Cur].pending = sess[Cur].pending
  <2>1. CASE qos[p.m] = 2
    <3>1. p.id \in sess[Cur].forwarding
      BY <1>3, <1>4, <2>1, OthersF, Zenon
    <3>2. /\ sess'[Cur].recv = sess[Cur].recv \ {p.id}
          /\ sess'[Cur].forwarding = sess[Cur].forwarding \ {p.id}
          /\ sess'[Cur].pending = sess[Cur].pending
      BY <1>4, <2>1, Zenon DEF Refuses, Becomes
    <3>3. Cur' = Cur
      BY <1>1, LeavesF, Zenon
    <3>4. QED
      BY <3>1, <3>2, <3>3, Zenon DEF Kept
  <2>2. CASE qos[p.m] # 2
    <3>1. sess' = sess /\ Cur' = Cur
      BY <1>1, <2>2, LeavesF, Zenon DEF Refuses
    <3>2. QED
      BY <3>1, Zenon DEF Kept
  <2>3. QED
    BY <2>1, <2>2, Zenon
<1>5. QED
  BY <1>1, <1>2, <1>4, LeavesTidy, Zenon

\* A message is recorded: what was pending under its identifier is forgotten.
LEMMA Records_Tidy ==
    ASSUME Sound, Certain, Tidy, NEW k \in Conns, Records(k) PROVE Tidy'
<1> DEFINE p == hand[k]
           o == obj[k]
           t == IF qos[p.m] = 2 THEN "PUBREC" ELSE "PUBACK"
           f == IF qos[p.m] = 2 THEN sess[o].forwarding \ {p.id} ELSE sess[o].forwarding
           g == IF Dedupe THEN [sess[o].pending EXCEPT ![p.id] = NoEntry] ELSE sess[o].pending
<1>1. /\ Leaves(k, t) /\ stage[k] = "record" /\ UNCHANGED <<queued, sent>>
      /\ sess'[o].recv = sess[o].recv /\ sess'[o].forwarding = f /\ sess'[o].pending = g
  BY Zenon DEF Records, Becomes
<1>2. Adds(k) /\ \A n \in Msgs : Copies(n)' = Copies(n)
  BY <1>1, Zenon DEF Adds, Copies
<1>3. stage[k] \in Forwarding /\ stage[k] \in Busy /\ at[k] \in up
  BY <1>1, Zenon DEF Forwarding, Busy, Leaves
<1>4. Cur' = Cur /\ p.id \in Ids
  BY <1>1, LeavesF, Zenon
<1>5. ASSUME o = Cur
      PROVE  /\ Kept \subseteq Kept'
             /\ \A x \in Ids : \/ sess'[Cur].pending[x] = sess[Cur].pending[x]
                               \/ x = p.id /\ (qos[p.m] = 2 => x \in Kept')
  <2>1. /\ Cur \in Conns /\ (qos[p.m] = 2 => p.id \in sess[Cur].recv)
    BY <1>3, <1>5, OthersF, Zenon
  <2>2. Kept' = sess[Cur].recv \ f
    BY <1>1, <1>4, <1>5, Zenon DEF Kept
  <2>3. sess[Cur].pending \in [Ids -> Entries]
    BY <2>1, Zenon DEF Sound, TypeOK, Sessions
  <2>4. \A x \in Ids : x # p.id => g[x] = sess[Cur].pending[x]
    BY <1>5, <2>3, Zenon
  <2>5. qos[p.m] = 2 => p.id \in Kept'
    BY <2>1, <2>2, Zenon
  <2>6. Kept \subseteq Kept'
    BY <1>5, <2>2, Zenon DEF Kept
  <2>7. QED
    BY <1>1, <1>5, <2>4, <2>5, <2>6, Zenon
<1> HIDE DEF t, f, g
<1>6. QED
  BY <1>1, <1>2, <1>5, LeavesTidy, Zenon

\* An identifier is released.
LEMMA Completes_Tidy ==
    ASSUME Sound, Certain, Tidy, NEW k \in Conns, Completes(k) PROVE Tidy'
<1>1. Leaves(k, "PUBCOMP") /\ UNCHANGED <<sess, queued, sent>>
  BY Zenon DEF Completes
<1>2. Adds(k) /\ Cur' = Cur
  BY <1>1, LeavesF, Zenon DEF Adds, Copies
<1>3. Kept' = Kept
  BY <1>1, <1>2, Zenon DEF Kept
<1>4. QED
  BY <1>1, <1>2, <1>3, LeavesTidy, Zenon

\* A packet is taken in hand: what is sent for the first time has no copies.
Reads(k, to) ==
    /\ stage[k] = "armed" /\ at[k] \in up /\ in[k] # <<>> /\ ~Overlaps(k, Head(in[k]))
    /\ Head(in[k]).t = IF to = "auth" THEN "PUBLISH" ELSE "PUBREL"
    /\ stage' = [stage EXCEPT ![k] = to] /\ in' = [in EXCEPT ![k] = Tail(in[k])]
    /\ hand' = [hand EXCEPT ![k] = Head(in[k])]
    /\ UNCHANGED <<cst, pid, qos, up, at, shut, obj, rec, queued, sent, exposed>>

\* The same, for the copies.
LEMMA TakingTidy ==
    ASSUME Sound, Certain, Tidy, NEW k \in Conns, NEW to \in {"auth", "release"}, Reads(k, to),
           sess'[Cur].pending = sess[Cur].pending,
           \A n \in Msgs : cst[n] = "pub" /\ pid[n] \in Kept => pid[n] \in Kept'
    PROVE  Tidy'
<1> DEFINE p == Head(in[k])
           s == Tail(in[k])
<1>a. /\ in[k] # <<>> /\ p.t = (IF to = "auth" THEN "PUBLISH" ELSE "PUBREL") /\ stage[k] = "armed"
      /\ UNCHANGED <<cst, pid, qos, up, at, shut, obj, rec, queued, sent, exposed>>
  BY Zenon DEF Reads
<1>1. /\ k = rec.by /\ k \notin shut /\ rec.by # Nil /\ obj[k] = Cur /\ Alive
      /\ \A j \in Readers : hand[j].id # p.id
      /\ p.m \in Msgs /\ p.id = pid[p.m]
      /\ \A i \in DOMAIN s : s[i].m # p.m
  BY TakerF, Zenon DEF Reads
<1>2. /\ stage'[k] = to /\ hand'[k] = p /\ in'[k] = s
      /\ \A j \in Conns \ {k} : stage'[j] = stage[j] /\ hand'[j] = hand[j]
  BY Zenon DEF Sound, TypeOK, Reads
<1>3. Readers' = Readers /\ Cur' = Cur /\ Alive' = Alive
  BY <1>a, TakingCertain, Zenon DEF Reads, Alive
<1>4. \A n : Copies(n)' = Copies(n) /\ (Tracked(n)' <=> Tracked(n))
  BY <1>a, Zenon DEF Copies, Tracked
<1>5. Single' /\ Unsent'
  BY <1>a, <1>4, Zenon DEF Tidy, Single, Unsent
<1>6. Left'
  BY <1>a, <1>1, <1>2, <1>3, Zenon DEF Tidy, Left
<1>7. /\ 1 \in DOMAIN in[k] /\ p = in[k][1]
      /\ \A i \in DOMAIN s : i + 1 \in DOMAIN in[k] /\ s[i] = in[k][i + 1]
  BY <1>a, TailF DEF Sound, TypeOK
<1> HIDE DEF p, s
<1>8. \A i \in DOMAIN in[k] : in[k][i].t = "PUBLISH" /\ ~in[k][i].dup =>
         /\ queued[in[k][i].m] \cup sent[in[k][i].m] = {}
         /\ \A j \in Conns : stage[j] \in Busy => hand[j].m # in[k][i].m
  BY <1>1, Zenon DEF Tidy, FirstSent, Copies
<1>9. FirstSent'
  <2> SUFFICES ASSUME NEW i \in DOMAIN in'[k], in'[k][i].t = "PUBLISH", ~in'[k][i].dup
               PROVE  /\ queued[in'[k][i].m] \cup sent[in'[k][i].m] = {}
                      /\ \A j \in Conns : stage'[j] \in Busy => hand'[j].m # in'[k][i].m
    BY <1>a, <1>1, Zenon DEF FirstSent, Copies
  <2>1. i + 1 \in DOMAIN in[k] /\ in'[k][i] = in[k][i + 1] /\ in'[k][i].m # p.m
    BY <1>1, <1>2, <1>7, Zenon
  <2>2. QED
    BY <1>2, <1>8, <2>1, Zenon
<1>10. Pends'
  <2>1. SUFFICES /\ \A n \in Msgs :
                      Tracked(n) /\ cst[n] = "pub" /\ pid[n] \notin Kept' =>
                          \A x \in Copies(n) : sess[Cur].pending[pid[n]] = Entry(n, x)
                 /\ \A j \in Readers :
                      stage'[j] \in {"keep", "live", "record"} /\ qos[hand'[j].m] = 2 =>
                          sess[Cur].pending[hand'[j].id] = Entry(hand'[j].m, hand'[j].mid)
                 /\ \A j \in Readers : stage'[j] = "auth" /\ ~hand'[j].dup =>
                      /\ queued[hand'[j].m] \cup sent[hand'[j].m] = {}
                      /\ \A i \in Conns \ {j} : stage'[i] \in Busy => hand'[i].m # hand'[j].m
    BY <1>a, <1>3, <1>4 DEF Pends, Copies, Entry
  <2>2. Pends /\ Readers \subseteq Conns
    BY Zenon DEF Tidy, Readers
  <2>3. \A n \in Msgs : Tracked(n) /\ cst[n] = "pub" /\ pid[n] \notin Kept' =>
           \A x \in Copies(n) : sess[Cur].pending[pid[n]] = Entry(n, x)
    BY <1>1, <2>2, Zenon DEF Pends, Entry
  <2>4. \A j \in Readers : stage'[j] \in {"keep", "live", "record"} /\ qos[hand'[j].m] = 2 =>
           sess[Cur].pending[hand'[j].id] = Entry(hand'[j].m, hand'[j].mid)
    BY <1>1, <1>2, <2>2, SMTT(60) DEF Pends, Entry
  <2>5. ASSUME NEW j \in Readers, stage'[j] = "auth", ~hand'[j].dup
        PROVE  /\ queued[hand'[j].m] \cup sent[hand'[j].m] = {}
               /\ \A i \in Conns \ {j} : stage'[i] \in Busy => hand'[i].m # hand'[j].m
    <3>1. CASE j = k
      <4>1. p.t = "PUBLISH" /\ ~p.dup /\ hand'[j] = p
        BY <1>a, <1>2, <2>5, <3>1, Zenon
      <4>2. QED
        BY <1>2, <1>7, <1>8, <3>1, <4>1
    <3>2. CASE j # k
      <4>1. j \in Conns /\ stage[j] = "auth" /\ stage[j] \in Busy /\ hand'[j] = hand[j]
        BY <1>2, <2>2, <2>5, <3>2, Zenon DEF Busy, Forwarding
      <4>2. /\ Copies(hand[j].m) = {}
            /\ \A i \in Conns \ {j} : stage[i] \in Busy => hand[i].m # hand[j].m
        BY <1>1, <2>2, <2>5, <4>1, Zenon DEF Pends
      <4>3. hand[j].m # p.m
        BY <1>1, <4>1, HandF, Zenon
      <4>4. QED
        BY <1>2, <4>1, <4>2, <4>3, Zenon DEF Copies
    <3>3. QED
      BY <3>1, <3>2, Zenon
  <2>6. QED
    BY <2>1, <2>3, <2>4, <2>5, Zenon
<1>11. QED
  BY <1>5, <1>6, <1>9, <1>10, Zenon DEF Tidy

\* A message is taken.
LEMMA Takes_Tidy ==
    ASSUME Sound, Certain, Tidy, NEW k \in Conns, Takes(k), ~overlap' PROVE Tidy'
<1> DEFINE p == Head(in[k])
<1>1. /\ stage[k] = "armed" /\ at[k] \in up /\ in[k] # <<>> /\ p.t = "PUBLISH" /\ ~Overlaps(k, p)
      /\ stage' = [stage EXCEPT ![k] = "auth"] /\ in' = [in EXCEPT ![k] = Tail(in[k])]
      /\ hand' = [hand EXCEPT ![k] = p]
      /\ UNCHANGED <<cst, pid, qos, up, at, shut, obj, rec, queued, sent, exposed>>
  BY Zenon DEF Takes, Goes
<1>2. obj[k] = Cur /\ Cur' = Cur
  BY <1>1, TakerF, Zenon DEF Cur
<1>3. sess'[Cur].pending = sess[Cur].pending /\ Kept \subseteq Kept'
  <2>1. CASE qos[p.m] = 2
    <3>1. /\ sess'[Cur].recv = sess[Cur].recv \cup {p.id} /\ sess'[Cur].pending = sess[Cur].pending
          /\ sess'[Cur].forwarding = sess[Cur].forwarding \cup {p.id}
      BY <1>2, <2>1, TakesF, Zenon DEF Becomes
    <3>2. p.id \notin sess[Cur].recv
      BY <1>2, <2>1, Zenon DEF Takes
    <3>3. QED
      BY <1>2, <3>1, <3>2, Zenon DEF Kept
  <2>2. CASE qos[p.m] # 2
    <3>1. sess' = sess
      BY <2>2, TakesF, Zenon
    <3>2. QED
      BY <1>2, <3>1, Zenon DEF Kept
  <2>3. QED
    BY <2>1, <2>2, Zenon
<1>4. "auth" \in {"auth", "release"}
  BY Zenon
<1>5. Reads(k, "auth")
  BY <1>1, Zenon DEF Reads
<1>6. QED
  BY <1>3, <1>4, <1>5, TakingTidy, Zenon

\* A PUBREL is taken: no message that waits has its identifier.
LEMMA ReadPubrel_Tidy ==
    ASSUME Sound, Certain, Tidy, NEW k \in Conns, ReadPubrel(k), ~overlap' PROVE Tidy'
<1> DEFINE p == Head(in[k])
<1>1. /\ stage[k] = "armed" /\ at[k] \in up /\ in[k] # <<>> /\ p.t = "PUBREL" /\ ~Overlaps(k, p)
      /\ stage' = [stage EXCEPT ![k] = "release"] /\ in' = [in EXCEPT ![k] = Tail(in[k])]
      /\ hand' = [hand EXCEPT ![k] = p]
      /\ UNCHANGED <<cst, pid, qos, up, at, shut, obj, rec, queued, sent, exposed>>
  BY Zenon DEF ReadPubrel, Goes, clientVars, outVars
<1>2. /\ obj[k] = Cur /\ p.m \in Msgs /\ p.id = pid[p.m]
      /\ cst[p.m] = IF p.t = "PUBLISH" THEN "pub" ELSE "rel"
  BY <1>1, TakerF, Zenon
<1>3. cst[p.m] = "rel" /\ Cur' = Cur
  BY <1>1, <1>2, Zenon DEF Cur
<1>4. /\ sess'[Cur].recv = sess[Cur].recv \ {p.id} /\ sess'[Cur].pending = sess[Cur].pending
      /\ sess'[Cur].forwarding = sess[Cur].forwarding \ {p.id}
  BY <1>2, PubrelF, Zenon DEF Becomes
<1>5. \A n \in Msgs : cst[n] = "pub" => pid[n] # p.id
  BY <1>2, <1>3, Zenon DEF Sound, Distinct, Unfinished
<1>6. \A n \in Msgs : cst[n] = "pub" /\ pid[n] \in Kept => pid[n] \in Kept'
  BY <1>3, <1>4, <1>5, Zenon DEF Kept
<1>7. "release" \in {"auth", "release"} /\ "release" # "auth"
  BY Zenon
<1>8. Reads(k, "release")
  BY <1>1, <1>7, Zenon DEF Reads
<1>9. QED
  BY <1>4, <1>6, <1>7, <1>8, TakingTidy, Zenon

\* A repeat is answered.
LEMMA Repeats_Tidy ==
    ASSUME Sound, Certain, Tidy, NEW k \in Conns, Repeats(k), ~overlap' PROVE Tidy'
<1> DEFINE p == Head(in[k])
           m == p.m
           rest == [in EXCEPT ![k] = Tail(in[k])]
<1>1. /\ stage[k] = "armed" /\ at[k] \in up /\ in[k] # <<>> /\ ~Overlaps(k, p)
      /\ Answered(k, "PUBREC", m, rest)
      /\ UNCHANGED <<pid, qos, up, at, hand, shut, obj, sess, rec, queued, sent, exposed>>
  BY Zenon DEF Repeats
<1>2. k = rec.by /\ m \in Msgs
  BY <1>1, TakerF, Zenon
<1>3. rest[k] = Tail(in[k]) /\ Tail(in[k]) \in Seq(Packets)
  BY <1>1, RestF, HeadF, Zenon
<1> HIDE DEF rest
<1>4. /\ stage'[k] \notin Busy /\ stage'[k] # "none" /\ (\A j \in Conns \ {k} : stage'[j] = stage[j])
      /\ \A n \in Msgs \ {m} : cst'[n] = cst[n]
      /\ cst'[m] = cst[m] \/ cst'[m] = Received("PUBREC", m)
      /\ in'[k] = rest[k] \/ in'[k] = Append(rest[k], Packet("PUBREL", pid[m], m, FALSE))
  BY <1>1, Zenon DEF Answered, Busy, Forwarding
<1>5. cst'[m] = cst[m] \/ cst'[m] = "rel"
  BY <1>4, Zenon DEF Received
<1>6. Cur' = Cur /\ Alive' = Alive /\ Kept' = Kept
  BY <1>1, Zenon DEF Cur, Alive, Kept
<1>7. Readers' = Readers /\ Readers \subseteq Conns
  BY <1>1, <1>4, <1>6, Zenon DEF Readers, Started
<1>8. \A n : Copies(n)' = Copies(n) /\ (Tracked(n)' <=> Tracked(n))
  BY <1>1, Zenon DEF Copies, Tracked
<1>9. \A n \in Msgs : (cst'[n] = "pub" => cst[n] = "pub") /\ (cst'[n] = "new" => cst[n] = "new")
  BY <1>4, <1>5, Zenon
<1>10. Single' /\ Unsent'
  BY <1>8, <1>9, Zenon DEF Tidy, Single, Unsent
<1>11. Forwarding \subseteq Busy /\ "auth" \in Busy /\ {"keep", "live", "record"} \subseteq Busy
  BY Zenon DEF Busy, Forwarding
<1>12. Left'
  BY <1>1, <1>4, <1>6, <1>11, Zenon DEF Tidy, Left
<1>13. FirstSent'
  <2> SUFFICES ASSUME k # Nil, k \notin shut, NEW i \in DOMAIN in'[k],
                      in'[k][i].t = "PUBLISH", ~in'[k][i].dup
               PROVE  /\ queued[in'[k][i].m] \cup sent[in'[k][i].m] = {}
                      /\ \A j \in Conns : stage'[j] \in Busy => hand[j].m # in'[k][i].m
    BY <1>1, <1>2, Zenon DEF FirstSent, Copies
  <2>1. i \in DOMAIN Tail(in[k]) /\ in'[k][i] = Tail(in[k])[i]
    <3> DEFINE q == Packet("PUBREL", pid[m], m, FALSE)
               s == Tail(in[k])
    <3>1. q.t = "PUBREL" /\ s \in Seq(Packets) /\ (in'[k] = s \/ in'[k] = Append(s, q))
      BY <1>3, <1>4, Zenon DEF Packet
    <3> HIDE DEF q, s
    <3>2. i \in DOMAIN s /\ in'[k][i] = s[i]
      BY <3>1
    <3>3. QED
      BY <3>2, Zenon DEF s
  <2>2. i + 1 \in DOMAIN in[k] /\ Tail(in[k])[i] = in[k][i + 1]
    <3>1. in[k] \in Seq(Packets) /\ in[k] # <<>>
      BY <1>1, Zenon DEF Sound, TypeOK
    <3>2. QED
      BY <2>1, <3>1, TailF, Zenon
  <2>3. /\ Copies(in[k][i + 1].m) = {}
        /\ \A j \in Conns : stage[j] \in Busy => hand[j].m # in[k][i + 1].m
    BY <1>2, <2>1, <2>2, Zenon DEF Tidy, FirstSent
  <2>4. QED
    BY <1>4, <2>1, <2>2, <2>3, Zenon DEF Copies
<1>14. Pends'
  <2>1. SUFFICES ASSUME Alive
                 PROVE  /\ \A n \in Msgs :
                              Tracked(n) /\ cst'[n] = "pub" /\ pid[n] \notin Kept =>
                                  \A x \in Copies(n) : sess[Cur].pending[pid[n]] = Entry(n, x)
                        /\ \A j \in Readers :
                              stage'[j] \in {"keep", "live", "record"} /\ qos[hand[j].m] = 2 =>
                                  sess[Cur].pending[hand[j].id] = Entry(hand[j].m, hand[j].mid)
                        /\ \A j \in Readers : stage'[j] = "auth" /\ ~hand[j].dup =>
                              /\ queued[hand[j].m] \cup sent[hand[j].m] = {}
                              /\ \A i \in Conns \ {j} : stage'[i] \in Busy => hand[i].m # hand[j].m
    BY <1>1, <1>6, <1>7, <1>8, Zenon DEF Pends, Copies, Entry
  <2>2. Pends
    BY Zenon DEF Tidy
  <2>3. \A n \in Msgs : Tracked(n) /\ cst'[n] = "pub" /\ pid[n] \notin Kept =>
           \A x \in Copies(n) : sess[Cur].pending[pid[n]] = Entry(n, x)
    BY <1>9, <2>1, <2>2, Zenon DEF Pends, Entry
  <2>4. \A j \in Readers : stage'[j] \in {"keep", "live", "record"} /\ qos[hand[j].m] = 2 =>
           sess[Cur].pending[hand[j].id] = Entry(hand[j].m, hand[j].mid)
    BY <1>4, <1>7, <1>11, <2>1, <2>2, Zenon DEF Pends, Entry
  <2>5. \A j \in Readers : stage'[j] = "auth" /\ ~hand[j].dup =>
           /\ queued[hand[j].m] \cup sent[hand[j].m] = {}
           /\ \A i \in Conns \ {j} : stage'[i] \in Busy => hand[i].m # hand[j].m
    BY <1>4, <1>7, <1>11, <2>1, <2>2, Zenon DEF Pends, Copies
  <2>6. QED
    BY <2>3, <2>4, <2>5, Zenon
<1>15. QED
  BY <1>10, <1>12, <1>13, <1>14, Zenon DEF Tidy

\* A message is published: it has no copies, and nobody has it in hand.
LEMMA Publishes_Tidy ==
    ASSUME Sound, Certain, Tidy, NEW m \in Msgs, NEW id, NEW q, Publishes(m, id, q) PROVE Tidy'
<1> DEFINE p == Packet("PUBLISH", id, m, FALSE)
<1>1. /\ conn # Nil /\ cst[m] = "new" /\ cst'[m] = "pub"
      /\ \A n \in Msgs \ {m} : cst'[n] = cst[n] /\ pid'[n] = pid[n] /\ qos'[n] = qos[n]
      /\ UNCHANGED <<up, at, stage, hand, shut, obj, sess, rec, queued, sent, exposed>>
      /\ in'[conn] = Append(in[conn], p) /\ p \in Packets
  BY Zenon DEF Publishes
<1>2. p.m = m
  BY Zenon DEF Packet
<1> HIDE DEF p
<1>3. conn \in Conns /\ conn = rec.by
  BY <1>1, OpenF, Zenon
<1>4. \A j \in Conns : stage[j] \in Busy => hand[j].m \in Msgs /\ hand[j].m # m
  BY <1>1, HandF, Zenon
<1>5. Copies(m) = {} /\ \A n : Copies(n)' = Copies(n)
  BY <1>1, Zenon DEF Tidy, Unsent, Copies
<1>6. Cur' = Cur /\ Alive' = Alive /\ Kept' = Kept /\ Readers' = Readers /\ Readers \subseteq Conns
  BY <1>1, Zenon DEF Cur, Alive, Kept, Readers, Started
<1>7. \A n \in Msgs \ {m} : Tracked(n)' <=> Tracked(n)
  BY <1>1, Zenon DEF Tracked
<1>8. Single' /\ Unsent'
  BY <1>1, <1>5, <1>7, Zenon DEF Tidy, Single, Unsent
<1>9. Forwarding \subseteq Busy /\ "auth" \in Busy /\ {"keep", "live", "record"} \subseteq Busy
  BY Zenon DEF Busy, Forwarding
<1>10. \A j \in Conns : stage[j] \in Busy => hand[j].m \in Msgs \ {m} /\ qos'[hand[j].m] = qos[hand[j].m]
  BY <1>1, <1>4, Zenon
<1>11. Left'
  BY <1>1, <1>6, <1>9, <1>10, Zenon DEF Tidy, Left
<1>12. FirstSent'
  <2> DEFINE s == in[conn]
  <2> SUFFICES ASSUME rec.by # Nil, rec.by \notin shut, NEW i \in DOMAIN in'[conn],
                      in'[conn][i].t = "PUBLISH", ~in'[conn][i].dup
               PROVE  /\ queued[in'[conn][i].m] \cup sent[in'[conn][i].m] = {}
                      /\ \A j \in Conns : stage[j] \in Busy => hand[j].m # in'[conn][i].m
    BY <1>1, <1>3, Zenon DEF FirstSent, Copies
  <2>1. s \in Seq(Packets) /\ in'[conn] = Append(s, p)
    BY <1>1, <1>3, Zenon DEF Sound, TypeOK
  <2>2. \A x \in DOMAIN s : s[x].t = "PUBLISH" /\ ~s[x].dup =>
           /\ Copies(s[x].m) = {} /\ \A j \in Conns : stage[j] \in Busy => hand[j].m # s[x].m
    BY <1>3, Zenon DEF Tidy, FirstSent
  <2> HIDE DEF s
  <2>3. (i \in DOMAIN s /\ in'[conn][i] = s[i]) \/ in'[conn][i] = p
    BY <1>1, <2>1, AppendF
  <2>4. QED
    BY <1>2, <1>4, <1>5, <2>2, <2>3, Zenon DEF Copies
<1>13. Pends'
  <2>1. SUFFICES ASSUME Alive
                 PROVE  /\ (\A n \in Msgs : Tracked(n) /\ cst[n] = "pub" /\ pid[n] \notin Kept =>
                               \A x \in Copies(n) : sess[Cur].pending[pid[n]] = Entry(n, x))'
                        /\ (\A j \in Readers :
                               stage[j] \in {"keep", "live", "record"} /\ qos[hand[j].m] = 2 =>
                                   sess[Cur].pending[hand[j].id] = Entry(hand[j].m, hand[j].mid))'
                        /\ (\A j \in Readers : stage[j] = "auth" /\ ~hand[j].dup =>
                               /\ Copies(hand[j].m) = {}
                               /\ \A i \in Conns \ {j} : stage[i] \in Busy => hand[i].m # hand[j].m)'
    BY <1>6, Zenon DEF Pends, Entry
  <2>2. Pends
    BY Zenon DEF Tidy
  <2>3. \A n \in Msgs : Tracked(n)' /\ cst'[n] = "pub" /\ pid'[n] \notin Kept =>
           \A x \in Copies(n) : sess[Cur].pending[pid'[n]] = Entry(n, x)
    <3>1. \A n \in Msgs : Tracked(n) /\ cst[n] = "pub" /\ pid[n] \notin Kept =>
             \A x \in Copies(n) : sess[Cur].pending[pid[n]] = Entry(n, x)
      BY <2>1, <2>2, Zenon DEF Pends, Entry
    <3> SUFFICES ASSUME NEW n \in Msgs, Tracked(n)', cst'[n] = "pub", pid'[n] \notin Kept,
                        NEW x \in Copies(n)
                 PROVE  sess[Cur].pending[pid'[n]] = Entry(n, x)
      BY Zenon
    <3>2. n # m
      BY <1>5, Zenon
    <3>3. Tracked(n) /\ cst[n] = "pub" /\ pid'[n] = pid[n]
      BY <1>1, <1>7, <3>2, Zenon
    <3>4. QED
      BY <3>1, <3>3, Zenon
  <2>4. \A j \in Readers : stage[j] \in {"keep", "live", "record"} /\ qos'[hand[j].m] = 2 =>
           sess[Cur].pending[hand[j].id] = Entry(hand[j].m, hand[j].mid)
    BY <1>6, <1>9, <1>10, <2>1, <2>2, Zenon DEF Pends, Entry
  <2>5. \A j \in Readers : stage[j] = "auth" /\ ~hand[j].dup =>
           /\ Copies(hand[j].m) = {}
           /\ \A i \in Conns \ {j} : stage[i] \in Busy => hand[i].m # hand[j].m
    BY <2>1, <2>2, Zenon DEF Pends
  <2>6. (\A n \in Msgs : Tracked(n) /\ cst[n] = "pub" /\ pid[n] \notin Kept =>
             \A x \in Copies(n) : sess[Cur].pending[pid[n]] = Entry(n, x))'
    BY <1>1, <1>5, <1>6, <2>3, Zenon DEF Entry
  <2>7. (\A j \in Readers : stage[j] \in {"keep", "live", "record"} /\ qos[hand[j].m] = 2 =>
             sess[Cur].pending[hand[j].id] = Entry(hand[j].m, hand[j].mid))'
    BY <1>1, <1>6, <2>4, Zenon DEF Entry
  <2>8. (\A j \in Readers : stage[j] = "auth" /\ ~hand[j].dup =>
             /\ Copies(hand[j].m) = {}
             /\ \A i \in Conns \ {j} : stage[i] \in Busy => hand[i].m # hand[j].m)'
    BY <1>1, <1>5, <1>6, <2>5, Zenon
  <2>9. QED
    BY <2>6, <2>7, <2>8, Zenon
<1>14. QED
  BY <1>8, <1>11, <1>12, <1>13, Zenon DEF Tidy

\* A connection: a session that is rebuilt lacks only what becomes exposed.
LEMMA Connects_Tidy ==
    ASSUME Sound, Certain, Tidy, NEW k \in Conns, NEW b \in Brokers, Connects(k, b) PROVE Tidy'
<1> DEFINE o == IF mem[b] # Nil THEN mem[b] ELSE k
           unknown == {m \in Msgs : cst[m] = "pub" /\ pid[m] \notin rec.recv}
<1>1. /\ stage'[k] = "idle" /\ (\A j \in Conns \ {k} : stage'[j] = stage[j])
      /\ obj'[k] = o /\ o \in Conns /\ (\A j \in Conns \ {k} : obj'[j] = obj[j])
      /\ mem[b] # Nil => /\ sess'[o].recv = sess[o].recv /\ sess'[o].forwarding = sess[o].forwarding
                         /\ sess'[o].pending = sess[o].pending
      /\ mem[b] = Nil => sess'[o].recv = rec.recv /\ sess'[o].forwarding = {}
      /\ rec'.by = k /\ rec'.recv = {} /\ Resends(k)
      /\ exposed' = IF mem[b] # Nil THEN exposed ELSE exposed \cup unknown
      /\ UNCHANGED <<cst, pid, qos, hand, queued, sent>>
  BY Zenon DEF Connects
<1>a. stage[k] = "none"
  BY Zenon DEF Connects
<1>2. /\ \A j \in Conns : stage[j] # "none" => obj[j] # k /\ j # k
      /\ mem[b] # Nil => mem[b] = Cur /\ Alive
  BY <1>a, ConnectsF, Zenon
<1>3. stage'[k] \notin Busy /\ stage'[k] # "none" /\ Cur' = o
  BY <1>1, Zenon DEF Busy, Forwarding, Cur
<1>4. \A n : Copies(n)' = Copies(n) /\ (Tracked(n)' => Tracked(n))
  BY <1>1, Zenon DEF Copies, Tracked
<1>5. Single' /\ Unsent'
  BY <1>1, <1>4, Zenon DEF Tidy, Single, Unsent
<1>6. Forwarding \subseteq Busy /\ "auth" \in Busy /\ {"keep", "live", "record"} \subseteq Busy
      /\ "none" \notin Busy /\ "over" \notin Busy
  BY Zenon DEF Busy, Forwarding
<1>7. \A j \in Conns : stage'[j] \in Busy =>
         /\ j # k /\ stage'[j] = stage[j] /\ obj'[j] = obj[j] /\ obj[j] # k /\ stage[j] # "none"
  BY <1>1, <1>2, <1>3, <1>6, ZenonT(60)
<1>8. FirstSent'
  <2> SUFFICES \A i \in DOMAIN in'[k] : in'[k][i].dup
    BY <1>1, Zenon DEF FirstSent
  <2> TAKE i \in DOMAIN in'[k]
  <2>1. PICK m \in Msgs : Unfinished(m) /\ in'[k][i] = Resent(m)
    BY <1>1, Zenon DEF Resends
  <2>2. QED
    BY <2>1, ResentF, Zenon
<1> HIDE DEF o, unknown
<1>9. CASE mem[b] # Nil
  <2>1. o = Cur /\ Cur' = Cur /\ Alive /\ exposed' = exposed /\ Kept' = Kept
    BY <1>1, <1>2, <1>3, <1>9, Zenon DEF o, Kept
  <2>2. \A j \in Readers' : stage'[j] \in Busy => j \in Readers /\ stage'[j] = stage[j]
    BY <1>7, <2>1, Zenon DEF Readers, Started
  <2>3. Left'
    BY <1>1, <1>6, <1>7, <2>1, Zenon DEF Tidy, Left
  <2>4. Pends'
    <3>1. SUFFICES /\ \A n \in Msgs :
                        Tracked(n)' /\ cst[n] = "pub" /\ pid[n] \notin Kept =>
                            \A x \in Copies(n) : sess[Cur].pending[pid[n]] = Entry(n, x)
                   /\ \A j \in Readers' :
                        stage'[j] \in {"keep", "live", "record"} /\ qos[hand[j].m] = 2 =>
                            sess[Cur].pending[hand[j].id] = Entry(hand[j].m, hand[j].mid)
                   /\ \A j \in Readers' : stage'[j] = "auth" /\ ~hand[j].dup =>
                        /\ queued[hand[j].m] \cup sent[hand[j].m] = {}
                        /\ \A i \in Conns \ {j} : stage'[i] \in Busy => hand[i].m # hand[j].m
      <4>1. /\ sess'[Cur].pending = sess[Cur].pending /\ Cur' = Cur /\ Kept' = Kept
            /\ UNCHANGED <<cst, pid, qos, hand, queued, sent>>
        BY <1>1, <1>9, <2>1, Zenon
      <4>2. QED
        BY ONLY <3>1, <4>1 DEF Pends, Copies, Entry
    <3>2. Pends
      BY Zenon DEF Tidy
    <3>3. \A n \in Msgs : Tracked(n)' /\ cst[n] = "pub" /\ pid[n] \notin Kept =>
             \A x \in Copies(n) : sess[Cur].pending[pid[n]] = Entry(n, x)
      BY <1>4, <2>1, <3>2, Zenon DEF Pends, Entry
    <3>4. \A j \in Readers' : stage'[j] \in {"keep", "live", "record"} /\ qos[hand[j].m] = 2 =>
             sess[Cur].pending[hand[j].id] = Entry(hand[j].m, hand[j].mid)
      BY <1>6, <2>1, <2>2, <3>2, Zenon DEF Pends, Entry
    <3>5. \A j \in Readers' : stage'[j] = "auth" /\ ~hand[j].dup =>
             /\ queued[hand[j].m] \cup sent[hand[j].m] = {}
             /\ \A i \in Conns \ {j} : stage'[i] \in Busy => hand[i].m # hand[j].m
      BY <1>6, <1>7, <2>1, <2>2, <3>2, Zenon DEF Pends, Copies
    <3>6. QED
      BY <3>1, <3>3, <3>4, <3>5, Zenon
  <2>5. QED
    BY <1>5, <1>8, <2>3, <2>4, Zenon DEF Tidy
<1>10. CASE mem[b] = Nil
  <2>1. o = k /\ Cur' = k /\ exposed' = exposed \cup unknown /\ Kept' = rec.recv
    BY <1>1, <1>3, <1>10, Zenon DEF o, Kept
  <2>2. \A j \in Readers' : stage'[j] \notin Busy
    BY <1>7, <2>1, Zenon DEF Readers
  <2>3. Pends'
    <3>1. \A n \in Msgs : ~(Tracked(n)' /\ cst'[n] = "pub" /\ pid'[n] \notin Kept')
      BY <1>1, <2>1, Zenon DEF Tracked, unknown
    <3>2. QED
      BY <1>6, <2>2, <3>1, Zenon DEF Pends
  <2>4. Left'
    <3> SUFFICES ASSUME NEW j \in Conns, stage'[j] \in Forwarding, qos[hand[j].m] = 2
                 PROVE  hand[j].m \in exposed \cup unknown
      BY <1>1, <2>1, Zenon DEF Left
    <3>1. stage[j] \in Forwarding /\ stage[j] \in Busy /\ stage[j] # "none" /\ stage[j] # "over"
      BY <1>6, <1>7, Zenon
    <3>2. CASE obj[j] # Cur
      BY <3>1, <3>2, Zenon DEF Tidy, Left
    <3>3. CASE obj[j] = Cur
      <4>1. at[j] \in up
        BY <3>1, Zenon DEF Sound, Newest
      <4>2. /\ Recorded /\ cst[hand[j].m] = "pub" /\ hand[j].id \in sess[Cur].forwarding
        BY <3>1, <3>3, <4>1, OthersF, Zenon
      <4>3. hand[j].m \in Msgs /\ hand[j].id = pid[hand[j].m]
        BY <3>1, HandF, Zenon
      <4>4. ASSUME pid[hand[j].m] \in rec.recv PROVE FALSE
        <5>1. PICK n \in Msgs : pid[n] = pid[hand[j].m] /\ cst[n] = "rel"
          BY <4>2, <4>3, <4>4, Zenon DEF Recorded, Kept
        <5>2. n = hand[j].m
          BY <4>2, <4>3, <5>1, Zenon DEF Sound, Distinct, Unfinished
        <5>3. QED
          BY <4>2, <5>1, <5>2, Zenon
      <4>5. QED
        BY <4>2, <4>3, <4>4, Zenon DEF unknown
    <3>4. QED
      BY <3>2, <3>3, Zenon
  <2>5. QED
    BY <1>5, <1>8, <2>3, <2>4, Zenon DEF Tidy
<1>11. QED
  BY <1>9, <1>10, Zenon

----------------------------------------------------------------------------
(* The theorems. *)

\* A step keeps the invariant if it keeps its three parts.
LEMMA KeepsF ==
    ASSUME QInv, Sound', overlap => overlap', unwritten => unwritten',
           Certain /\ ~overlap' => Certain',
           Certain /\ Tidy /\ Dedupe /\ ~overlap' => Tidy'
    PROVE  QInv'
  BY Zenon DEF QInv, Guarded, Onefold

\* A step that leaves hands, sessions and copies as they are keeps the invariant.
LEMMA Quiet_QInv == ASSUME QInv, Sound', Quiet PROVE QInv'
<1>1. Sound /\ Calm
  BY Zenon DEF QInv, Quiet
<1>2. (overlap => overlap') /\ (unwritten => unwritten')
  BY <1>1, Zenon DEF Calm
<1>3. QED
  BY <1>1, <1>2, Calm_Certain, Quiet_Tidy, KeepsF, Zenon

\* The steps of that kind: the connection breaks, a reader looks for a packet, a
\* tick of checkpointLoop, the end of a connection, the death of a broker.
LEMMA Quiet_Steps ==
    ASSUME QInv,
           \/ Drop
           \/ \E k \in Conns : Idles(k) \/ Checkpoint(k) \/ Finish(k)
           \/ \E b \in Brokers : Kill(b)
    PROVE  QInv'
<1> Sound
  BY Zenon DEF QInv
<1>a. stage \in [Conns -> Stages]
  BY Zenon DEF Sound, TypeOK
<1>1. CASE Drop
  <2>1. Quiet
    BY <1>1, Drop_Sound, Zenon DEF Drop, Quiet, sessVars, outVars, ghosts
  <2>2. QED
    BY <1>1, <2>1, Drop_Sound, Quiet_QInv, Zenon
<1>2. ASSUME NEW k \in Conns, Idles(k) PROVE QInv'
  <2>1. PICK to \in {"idle", "armed", "end", "kicked"} : stage' = [stage EXCEPT ![k] = to]
    BY <1>2, Zenon DEF Idles
  <2>2. stage'[k] \notin Busy /\ \A j \in Conns \ {k} : stage'[j] = stage[j]
    BY <1>a, <2>1, Zenon DEF Busy, Forwarding
  <2>3. UNCHANGED <<queued, sent, exposed, hand, sess>>
    BY <1>2, Zenon DEF Idles
  <2>4. Quiet
    BY <1>2, <2>2, <2>3, Idles_Sound, Zenon DEF Quiet
  <2>5. QED
    BY <1>2, <2>4, Idles_Sound, Quiet_QInv, Zenon
<1>3. ASSUME NEW k \in Conns, Checkpoint(k) PROVE QInv'
  <2>1. UNCHANGED <<queued, sent, exposed, hand, sess, stage>>
    BY <1>3, Zenon DEF Checkpoint, outVars, readerVars
  <2>2. Quiet
    BY <1>3, <2>1, Checkpoint_Sound, Zenon DEF Quiet
  <2>3. QED
    BY <1>3, <2>2, Checkpoint_Sound, Quiet_QInv, Zenon
<1>4. ASSUME NEW k \in Conns, Finish(k) PROVE QInv'
  <2>1. UNCHANGED <<queued, sent, exposed, hand, sess>> /\ stage' = [stage EXCEPT ![k] = "over"]
    BY <1>4, Zenon DEF Finish, outVars, Goes
  <2>2. stage'[k] \notin Busy /\ \A j \in Conns \ {k} : stage'[j] = stage[j]
    BY <1>a, <2>1, Zenon DEF Busy, Forwarding
  <2>3. Quiet
    BY <1>4, <2>1, <2>2, Finish_Sound, Zenon DEF Quiet
  <2>4. QED
    BY <1>4, <2>3, Finish_Sound, Quiet_QInv, Zenon
<1>5. ASSUME NEW b \in Brokers, Kill(b) PROVE QInv'
  <2>1. /\ UNCHANGED <<queued, sent, exposed, hand, sess>>
        /\ \A j \in Conns : stage'[j] = "over" \/ stage'[j] = stage[j]
    BY <1>5, Zenon DEF Kill, outVars, ghosts
  <2>2. Quiet
    BY <1>5, <2>1, Kill_Sound, Zenon DEF Quiet, Busy, Forwarding
  <2>3. QED
    BY <1>5, <2>2, Kill_Sound, Quiet_QInv, Zenon
<1>6. QED
  BY <1>1, <1>2, <1>3, <1>4, <1>5, Zenon

\* The way of a PUBLISH to its two copies, or to its refusal.
LEMMA Forward_Steps ==
    ASSUME QInv, NEW k \in Conns, Allows(k) \/ Stores(k) \/ Sends(k) \/ Refuses(k)
    PROVE  QInv'
<1> Sound
  BY Zenon DEF QInv
<1>1. CASE Allows(k)
  <2>1. Sound' /\ Calm /\ UNCHANGED <<overlap, unwritten>>
    BY <1>1, Allows_Sound, Zenon DEF Allows
  <2>2. QED
    BY <1>1, <2>1, Calm_Certain, Allows_Tidy, KeepsF, Zenon
<1>2. CASE Stores(k) \/ Sends(k)
  <2>1. Sound' /\ Calm /\ UNCHANGED <<overlap, unwritten>>
    BY <1>2, Copies_Sound, Zenon DEF Stores, Sends
  <2>2. QED
    BY <1>2, <2>1, Calm_Certain, Copies_Tidy, KeepsF, Zenon
<1>3. CASE Refuses(k)
  <2>1. Leaves(k, "refusal") /\ UNCHANGED <<overlap, unwritten>>
    BY <1>3, Zenon DEF Refuses, Leaves
  <2>2. Sound'
    BY <2>1, LeavesSound, Zenon
  <2>3. QED
    BY <1>3, <2>1, <2>2, Refuses_Certain, Refuses_Tidy, KeepsF, Zenon
<1>4. QED
  BY <1>1, <1>2, <1>3, Zenon

\* The acknowledgements.
LEMMA Answer_Steps ==
    ASSUME QInv, NEW k \in Conns, Records(k) \/ Completes(k)
    PROVE  QInv'
<1> Sound
  BY Zenon DEF QInv
<1> DEFINE t == IF Records(k) THEN IF qos[hand[k].m] = 2 THEN "PUBREC" ELSE "PUBACK" ELSE "PUBCOMP"
<1>1. Leaves(k, t)
  BY Zenon DEF Records, Completes
<1> HIDE DEF t
<1>2. Sound' /\ overlap' = overlap /\ (unwritten => unwritten')
  BY <1>1, LeavesSound, Zenon DEF Leaves
<1>3. ~unwritten' => (Certain /\ ~overlap' => Certain')
  BY Records_Certain, Completes_Certain, Zenon
<1>4. Certain /\ Tidy => Tidy'
  BY Records_Tidy, Completes_Tidy, Zenon
<1>5. QED
  BY <1>2, <1>3, <1>4, Zenon DEF QInv, Guarded, Onefold

\* A packet is read and handled.
LEMMA Read_Steps ==
    ASSUME QInv, NEW k \in Conns, Repeats(k) \/ Takes(k) \/ ReadPubrel(k)
    PROVE  QInv'
<1> Sound
  BY Zenon DEF QInv
<1>1. Sound'
  BY Repeats_Sound, Takes_Sound, ReadPubrel_Sound, Zenon
<1>2. overlap' = (overlap \/ Overlaps(k, Head(in[k]))) /\ unwritten' = unwritten
  BY Zenon DEF Repeats, Takes, ReadPubrel
<1>3. Certain /\ ~overlap' => Certain'
  BY Repeats_Certain, Takes_Certain, ReadPubrel_Certain, Zenon
<1>4. Certain /\ Tidy /\ ~overlap' => Tidy'
  BY Repeats_Tidy, Takes_Tidy, ReadPubrel_Tidy, Zenon
<1>5. QED
  BY <1>1, <1>2, <1>3, <1>4, KeepsF, Zenon

\* What the client does.
LEMMA Client_Steps ==
    ASSUME QInv,
           \/ \E m \in Msgs, id \in Ids, q \in Levels : Publish(m, id, q)
           \/ \E k \in Conns, b \in Brokers : Connect(k, b)
    PROVE  QInv'
<1> Sound
  BY Zenon DEF QInv
<1>1. ASSUME NEW m \in Msgs, NEW id \in Ids, NEW q \in Levels, Publish(m, id, q) PROVE QInv'
  <2>1. Publishes(m, id, q)
    BY <1>1, PublishF, Zenon
  <2>2. Sound' /\ UNCHANGED <<overlap, unwritten>>
    BY <2>1, Publishes_Sound, Zenon DEF Publishes
  <2>3. QED
    BY <2>1, <2>2, Publishes_Certain, Publishes_Tidy, KeepsF, Zenon
<1>2. ASSUME NEW k \in Conns, NEW b \in Brokers, Connect(k, b) PROVE QInv'
  <2>1. Connects(k, b)
    BY <1>2, ConnectF, Zenon
  <2>2. UNCHANGED <<overlap, unwritten>>
    BY <2>1, Zenon DEF Connects
  <2>3. QED
    BY <2>1, <2>2, Connects_Sound, Connects_Certain, Connects_Tidy, KeepsF, Zenon
<1>3. QED
  BY <1>1, <1>2, Zenon

\* Every step of the client, the readers and the brokers keeps the invariant.
LEMMA Next_QInv == ASSUME QInv, Next PROVE QInv'
<1> Sound
  BY Zenon DEF QInv
<1>1. CASE \/ \E m \in Msgs, id \in Ids, q \in Levels : Publish(m, id, q)
           \/ \E k \in Conns, b \in Brokers : Connect(k, b)
  BY <1>1, Client_Steps, Zenon
<1>2. CASE Drop \/ \E b \in Brokers : Kill(b)
  BY <1>2, Quiet_Steps, Zenon
<1>3. ASSUME NEW k \in Conns, Checkpoint(k) \/ Finish(k) PROVE QInv'
  BY <1>3, Quiet_Steps, Zenon
<1>4. ASSUME NEW k \in Conns, Arm(k) \/ ReadFails(k) PROVE QInv'
  BY <1>4, Arm_Idles, Quiet_Steps, Zenon
<1>5. ASSUME NEW k \in Conns, ReadPublish(k) \/ ReadPubrel(k) PROVE QInv'
  <2>1. Kicks(k) \/ Repeats(k) \/ Takes(k) \/ ReadPubrel(k)
    BY <1>5, ReadPublishF, Zenon
  <2>2. CASE Kicks(k)
    BY <2>2, Kicks_Idles, Quiet_Steps, Zenon
  <2>3. QED
    BY <2>1, <2>2, Read_Steps, Zenon
<1>6. ASSUME NEW k \in Conns, Authorize(k) \/ Keep(k) \/ Live(k) PROVE QInv'
  BY <1>6, ForwardF, Forward_Steps, Zenon
<1>7. ASSUME NEW k \in Conns, Record(k) \/ Release(k) PROVE QInv'
  BY <1>7, RecordF, ReleaseF, Answer_Steps, Zenon
<1>8. ASSUME NEW k \in Conns, ReaderStep(k) PROVE QInv'
  BY <1>3, <1>4, <1>5, <1>6, <1>7, <1>8, Zenon DEF ReaderStep
<1>9. QED
  BY <1>1, <1>2, <1>3, <1>8, Zenon DEF Next

\* Nothing has been published, and nobody is connected.
LEMMA Init_QInv == ASSUME Init PROVE QInv
<1>1. /\ cst = [m \in Msgs |-> "new"] /\ pid = [m \in Msgs |-> Nil] /\ qos = [m \in Msgs |-> Nil]
      /\ conn = Nil /\ up = Brokers /\ at = [k \in Conns |-> Nil] /\ in = [k \in Conns |-> <<>>]
      /\ stage = [k \in Conns |-> "none"] /\ hand = [k \in Conns |-> NoPacket] /\ shut = {}
      /\ obj = [k \in Conns |-> Nil] /\ sess = [k \in Conns |-> NewSession({}, Nil)]
      /\ mem = [b \in Brokers |-> Nil] /\ rec = [by |-> Nil, recv |-> {}]
      /\ queued = [m \in Msgs |-> {}] /\ sent = [m \in Msgs |-> {}]
      /\ overlap = FALSE /\ exposed = {} /\ unwritten = FALSE
  BY Zenon DEF Init
<1>2. NewSession({}, Nil) \in Sessions /\ NoPacket \in Packets
  BY Zenon DEF NewSession, Sessions, Entries, NoEntry, NoPacket, Packets, Nil
<1>3. \A k \in Conns : k \in Nat /\ k > 0
  BY InboundAssumption DEF Conns
<1>4. TypeOK
  <2>1. rec \in [by : Conns \cup {Nil}, recv : SUBSET Ids] /\ 0 \in 0..2 /\ <<>> \in Seq(Packets)
    BY <1>1
  <2>2. "new" \in States /\ "none" \in Stages
    BY Zenon DEF States, Stages
  <2>3. qos \in [Msgs -> 0..2] /\ in \in [Conns -> Seq(Packets)]
    BY <1>1, <2>1, Zenon DEF Nil
  <2>4. QED
    BY <1>1, <1>2, <2>1, <2>2, <2>3, Zenon DEF TypeOK
<1>5. rec.by = Nil /\ rec.recv = {} /\ (\A k \in Conns : stage[k] = "none" /\ in[k] = <<>>)
      /\ (\A m \in Msgs : cst[m] = "new" /\ queued[m] = {} /\ sent[m] = {})
      /\ (\A b \in Brokers : mem[b] = Nil)
  BY <1>1, Zenon
<1>6. "none" \notin Busy /\ "none" \notin Forwarding
  BY Zenon DEF Busy, Forwarding
<1>7. Newest
  BY <1>1, <1>3, <1>5 DEF Newest, Started, Nil
<1>8. Remembered
  BY <1>5, Zenon DEF Remembered, Started, Alive
<1>9. Queues /\ Hands /\ Distinct /\ Passed
  BY <1>5, <1>6 DEF Queues, Hands, Distinct, Passed, Unfinished
<1>10. Certain
  BY <1>5, <1>6, Zenon DEF Certain, Fresh, Apart, InStep, Alive, Record0, AckedIsForwarded
<1>11. Tidy
  BY <1>5, <1>6, Zenon DEF Tidy, Single, Unsent, Pends, Alive, FirstSent, Left, Copies
<1>12. QED
  BY <1>4, <1>7, <1>8, <1>9, <1>10, <1>11, Zenon DEF QInv, Sound, Guarded, Onefold

\* The invariant behind durable_dedupe.go and the checkpoint before an
\* acknowledgement holds of every execution: what a reader has in hand, what the
\* session in memory and the record have of an identifier, and the message ids of
\* the copies belong together.
THEOREM InboundInvariant == Spec => []QInv
<1>1. Init => QInv
  BY Init_QInv, Zenon
<1>2. QInv /\ [Next]_vars => QInv'
  <2>1. ASSUME QInv, UNCHANGED vars PROVE QInv'
    <3>1. UNCHANGED <<cst, pid, qos, conn, up, at, in, stage, hand, shut, obj, sess, mem, rec,
                      queued, sent, overlap, exposed, unwritten>>
      BY <2>1, Zenon DEF vars, clientVars, readerVars, sessVars, outVars, ghosts
    <3>2. Sound /\ Cur' = Cur /\ Alive' = Alive
      BY <2>1, <3>1, Zenon DEF QInv, Cur, Alive
    <3>3. TypeOK' /\ Newest' /\ Remembered'
      BY <3>1, <3>2, Zenon DEF Sound, TypeOK, Newest, Remembered, Started
    <3>4. Queues' /\ Hands' /\ Distinct' /\ Passed'
      BY <3>1, <3>2, Zenon DEF Sound, Queues, Hands, Distinct, Passed, About, Unfinished
    <3>5. Sound'
      BY <3>3, <3>4, Zenon DEF Sound
    <3>6. \A k \in Conns : Part(in'[k], in[k])
      BY <3>1, PartSelf, Zenon
    <3>7. Calm
      BY <3>1, <3>6, Zenon DEF Calm, More, SameHand
    <3>8. Quiet
      BY <3>1, <3>7, Zenon DEF Quiet
    <3>9. QED
      BY <2>1, <3>5, <3>8, Quiet_QInv, Zenon
  <2>2. QED
    BY <2>1, Next_QInv, Zenon
<1>3. QED
  BY <1>1, <1>2, PTL DEF Spec

\* checkpoint.go, checkpointNow: once the client need not send a message again, it
\* has been forwarded, to the queue and live; for any number of messages, brokers,
\* connections, refusals and kills, as long as one reader at a time handles an
\* identifier and records are written.
THEOREM AcknowledgedWasForwarded == Spec => []AckedWasForwarded
<1>1. QInv => AckedWasForwarded
  BY Zenon DEF QInv, Guarded, Certain, AckedWasForwarded
<1>2. QED
  BY <1>1, InboundInvariant, PTL

\* With DurablePublishDedupe every copy of a QoS 2 message has one message id,
\* unless the session was rebuilt from a record that did not have the message yet.
THEOREM OneMessageId == Dedupe => (Spec => []ForwardedOnce)
<1> SUFFICES ASSUME Dedupe PROVE Spec => []ForwardedOnce
  BY Zenon
<1>1. QInv => ForwardedOnce
  BY Zenon DEF QInv, Onefold, Tidy, Single, Tracked, Copies, ForwardedOnce
<1>2. QED
  BY <1>1, InboundInvariant, PTL
=============================================================================

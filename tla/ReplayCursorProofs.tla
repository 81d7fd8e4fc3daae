------------------------- MODULE ReplayCursorProofs -------------------------
(***************************************************************************)
(* The actions that read the queue stream, those of the end and the        *)
(* resumption of a connection, and the scans preserve IInv, which is       *)
(* therefore an inductive invariant of ReplayCursor, whatever the          *)
(* constants; and what follows from it.                                    *)
(***************************************************************************)
EXTENDS ReplayCursorFacts

-----------------------------------------------------------------------------
(* Reads of the stream.                                                    *)

\* A delivery of m read from the stream, while catching up or resuming.
LEMMA sendRead_Inv ==
    ASSUME IInv, NEW m \in loop.todo, loop.at \in {"catchup", "holes", "seq"}, sendRead(m)
    PROVE  IInv'
<1> USE DEF netVars, subVars, queueVars, readVars, connVars, sentVars, curVars
<1> DEFINE skips == UNCHANGED <<delivered, sent, cur, scan, replayed>>
                    /\ (m \in Recognised \/ topic[m] \notin subs)
           sends == noteDelivered(m) /\ m \notin Recognised /\ replayed' = replayed \cup {m}
<1>1. TypeOK /\ InStream
  BY Zenon DEF IInv
<1>2. /\ streamNext' = m + 1 /\ loop' = [loop EXCEPT !.todo = @ \ {m}]
      /\ UNCHANGED <<netVars, subVars, queueVars, replayedBefore, connVars, promised, blind>>
      /\ skips \/ sends
  BY Zenon DEF sendRead, wasReplayed, Recognised
<1>3. m \in Seqs /\ m \in Nat /\ m <= last /\ m + 1 \in 0..(MaxSeq + 1)
  BY <1>1, LoopF, SeqsNat, SMTT(60) DEF InStream
<1>4. /\ loop' \in loopType /\ loop'.todo = loop.todo \ {m}
      /\ loop'.at = loop.at /\ loop'.ok = loop.ok /\ loop'.had = loop.had /\ loop'.next = loop.next
      /\ loop'.start = loop.start /\ loop'.known = loop.known /\ loop'.to = loop.to
  BY <1>1, <1>2, Zenon DEF TypeOK, loopType
<1>5. Copies' = Copies /\ WantedCopies' = WantedCopies
  BY <1>2, Zenon DEF Copies, WantedCopies
<1>6. /\ \/ sends /\ sent' = sent \cup {m}
         \/ skips /\ sent' = sent
      /\ delivered' \subseteq sent'
      /\ cur' \in curType /\ scan' \in scanType /\ ChangedKept(cur')
      /\ scan' = scan \/ scan'.at = "due"
      /\ cur'.next \in {0, cur.next} /\ cur'.pin \in {0, cur.pin}
      /\ cur'.base \in {0, cur.base} /\ cur'.holes \subseteq cur.holes
      /\ cur'.next # 0 => cur.holes \ {m} \subseteq cur'.holes \/ cur' = cur
      /\ \A k \in scan'.owed : k <= last
      /\ scan'.start <= last + 1 /\ scan'.to <= last
      /\ (ForgottenIsOld /\ IdsKept /\ BaseShape /\ SinceShape /\ ScanShape)'
      /\ (ScanClassifies /\ NothingOwedSkipped /\ HolesUnsent)'
  <2>1. CASE skips
    <3>1. /\ delivered' \subseteq sent' /\ cur' \in curType /\ scan' \in scanType /\ ChangedKept(cur')
          /\ \A k \in scan'.owed : k <= last
          /\ scan'.start <= last + 1 /\ scan'.to <= last
      BY Zenon, <1>1, <2>1, VarF DEF TypeOK, InStream, ChangedKept
    <3>2. (ForgottenIsOld /\ IdsKept /\ BaseShape /\ SinceShape /\ ScanShape)'
      BY <1>2, <1>4, <1>5, <2>1, Zenon DEF IInv, ForgottenIsOld, IdsKept, BaseShape, SinceShape, ScanShape,
         Forgotten, scanFrom
    <3>3. (ScanClassifies /\ NothingOwedSkipped /\ HolesUnsent)'
      BY <1>2, <2>1, Zenon DEF IInv, ScanClassifies, scanFrom, NothingOwedSkipped, HolesUnsent, Owed, owedBy
    <3> QED BY Zenon, <2>1, <3>1, <3>2, <3>3
  <2>2. CASE sends
    <3>1. /\ noteDelivered(m) /\ UNCHANGED <<netVars, subVars, connVars, promised, blind>>
          /\ Copies' \subseteq Copies /\ (cur.pin # 0 => loop'.next = loop.next)
      BY <1>2, <1>4, <1>5, <2>2, Zenon
    <3> HIDE DEF sends, skips
    <3> QED BY Zenon, <1>3, <2>2, <3>1, NoteDeliveredStep
  <2> QED BY <1>2, <2>1, <2>2, Zenon
<1>7. TypeOK' /\ InStream'
  <2>1. /\ sent' \subseteq Seqs /\ \A k \in sent' : k <= last
        /\ replayed' \subseteq Seqs
    BY <1>1, <1>2, <1>3, <1>6, Zenon DEF TypeOK, InStream
  <2>2. TypeOK'
    BY <1>1, <1>2, <1>3, <1>4, <1>6, <2>1, Zenon DEF TypeOK
  <2>3. cur'.next <= last + 1 /\ (\A k \in cur'.holes : k <= last) /\ m + 1 <= last + 1
    BY <1>1, <1>3, <1>6, VarF, SMTT(60) DEF InStream
  <2>4. InStream'
    BY <1>1, <1>2, <1>4, <1>6, <2>1, <2>3, Zenon DEF InStream
  <2> QED BY <2>2, <2>4, Zenon
<1>8. PinShape'
  BY Zenon, <1>1, <1>4, <1>6 DEF IInv, PinShape, BaseShape
<1>9. /\ Recognised \subseteq Recognised' /\ Recognised' \subseteq Recognised \cup (sent' \ sent)
      /\ sent' \ sent \subseteq Recognised' /\ sent \subseteq sent'
      /\ m \in sent' \/ topic[m] \notin subs
      /\ sent' \ sent \subseteq {m}
  <2>1. Recognised \subseteq sent
    BY Zenon DEF IInv, ReadsRecognise
  <2>2. CASE sends /\ sent' = sent \cup {m}
    <3>1. replayed' = replayed \cup {m} /\ m \notin Recognised
      BY <2>2, Zenon
    <3>2. m \notin sent
      BY <3>1, Zenon DEF IInv, ReadsRecognise, resuming
    <3> QED BY <1>2, <1>4, <2>2, <3>1, <3>2, Zenon DEF Recognised
  <2>3. CASE skips /\ sent' = sent
    BY <1>2, <1>4, <2>1, <2>3, Zenon DEF Recognised
  <2> QED BY Zenon, <1>6, <2>2, <2>3
<1>10. ReadsRecognise'
  BY <1>4, <1>9, Zenon DEF IInv, ReadsRecognise, resuming
<1>11. ReplayClassifies'
  BY <1>2, <1>4, <1>9, Zenon DEF IInv, ReplayClassifies, Wanted
<1>12. CopiesShape'
  BY <1>2, <1>4, <1>5, <1>9, Zenon DEF IInv, CopiesShape
<1>13. (HeldNotPassed /\ NothingHeldBelowBase)'
  BY <1>2, <1>6, <1>9, Zenon DEF IInv, HeldNotPassed, NothingHeldBelowBase
<1>14. ResumeShape'
  BY Zenon, <1>2, <1>4, <1>6 DEF IInv, ResumeShape, ChangedKept
<1> QED BY Zenon, <1>6, <1>7, <1>8, <1>10, <1>11, <1>12, <1>13, <1>14 DEF IInv

\* One message of a catch-up or of a resume (catchup.go:119, offline.go:657).
LEMMA ReadSteps_Inv == \A m \in Seqs : IInv /\ (CatchUpStep(m) \/ ReplayStep(m)) => IInv'
<1> SUFFICES ASSUME NEW m \in Seqs, IInv, CatchUpStep(m) \/ ReplayStep(m) PROVE IInv'
  BY Zenon
<1>1. /\ m = lowestSeq(loop.todo) /\ m # 0 /\ loop.at \in {"catchup", "holes", "seq"}
      /\ sendRead(m)
  BY Zenon DEF CatchUpStep, ReplayStep
<1>2. loop.todo \subseteq Nat
  BY LoopF, Zenon DEF IInv
<1>3. m \in loop.todo
  BY <1>1, <1>2, Lowest, Zenon
<1> QED BY <1>1, <1>3, sendRead_Inv, Zenon

\* catchUp between its rounds (catchup.go:119).
LEMMA CatchUp_Inv == IInv /\ (CatchUp \/ CatchUpRoundDone) => IInv'
<1> SUFFICES ASSUME IInv, CatchUp \/ CatchUpRoundDone PROVE IInv'
  BY Zenon
<1> USE DEF netVars, subVars, queueVars, connVars, sentVars, curVars
<1>1. TypeOK /\ InStream
  BY Zenon DEF IInv
<1>2. /\ phase = "attached" /\ loop.at \in {"idle", "catchup"} /\ loop' = [Idle EXCEPT !.at = "round"]
      /\ streamNext' \in {0, streamNext}
      /\ replayed' \subseteq replayed /\ replayedBefore' \subseteq replayed \cup replayedBefore
      /\ catchup' \in {FALSE, behind, catchup}
      /\ UNCHANGED <<netVars, subVars, pending, unwanted, inHand, fromSeq, behind,
                     connVars, sentVars, curVars>>
  BY Zenon DEF CatchUp, CatchUpRoundDone
<1>3. /\ loop' \in loopType /\ loop'.at = "round" /\ loop'.next = 0 /\ loop'.start = 0
      /\ loop'.to = 0 /\ loop'.had = {} /\ loop'.todo = {} /\ loop'.known = {}
  BY <1>2, IdleF, Zenon DEF loopType
<1>4. cur.pin = 0 /\ inHand = 0
  BY <1>2, Zenon DEF IInv, PinShape, CopiesShape
<1>5. /\ (TypeOK /\ InStream /\ ForgottenIsOld /\ IdsKept /\ BaseShape)'
      /\ (SinceShape /\ ScanShape /\ ScanClassifies)'
      /\ (NothingOwedSkipped /\ HeldNotPassed /\ HolesUnsent /\ NothingHeldBelowBase)'
  <2>1. streamNext' \in 0..(last + 1) /\ cur \in curType
        /\ phase \in {"attached", "closed", "away"} /\ conns \in 1..MaxConns
        /\ last \in Nat /\ 0 <= last /\ 0 <= last + 1
    BY <1>1, <1>2, VarF DEF TypeOK, InStream
  <2>2. behind' \in BOOLEAN /\ catchup' \in BOOLEAN
    BY <1>1, <1>2, Zenon DEF TypeOK
  <2> QED BY <1>2, <1>3, <1>4, <2>1, <2>2, LoopStep, Zenon
<1>6. (PinShape /\ ReplayClassifies)'
  BY <1>2, <1>3, <1>4, Zenon DEF PinShape, ReplayClassifies
<1>7. ReadsRecognise'
  BY <1>2, <1>3, Zenon DEF IInv, ReadsRecognise, Recognised, resuming
<1>8. CopiesShape'
  BY <1>2, <1>3, <1>4, Zenon DEF IInv, CopiesShape, WantedCopies
<1>9. ResumeShape'
  BY <1>2, <1>3, Zenon DEF IInv, ResumeShape
<1> QED BY <1>5, <1>6, <1>7, <1>8, <1>9, Zenon DEF IInv

\* A catch-up round starts at the lowest sequence turned away (catchup.go:119).
LEMMA CatchUpRound_Inv == IInv /\ CatchUpRound => IInv'
<1> SUFFICES ASSUME IInv, CatchUpRound PROVE IInv'
  BY SMTT(60)
<1> USE DEF netVars, subVars, queueVars, connVars, sentVars, curVars
<1> DEFINE todo == {m \in fromSeq..last : topic[m] \in subs}
           reads == /\ fromSeq # 0 /\ streamNext' = fromSeq /\ fromSeq' = 0
                    /\ loop' = [Idle EXCEPT !.at = "catchup", !.known = delivered, !.todo = todo]
           ends  == loop' = Idle /\ streamNext' = streamNext /\ fromSeq' = fromSeq
<1>1. TypeOK /\ InStream
  BY Zenon DEF IInv
<1>2. /\ phase = "attached" /\ loop.at = "round" /\ behind' \in {behind, FALSE}
      /\ UNCHANGED <<netVars, subVars, pending, unwanted, inHand, catchup, replayed,
                     replayedBefore, connVars, sentVars, curVars>>
      /\ reads \/ ends
  BY Zenon DEF CatchUpRound
<1>3. cur.pin = 0 /\ inHand = 0
  BY <1>2, Zenon DEF IInv, PinShape, CopiesShape
<1>4. /\ fromSeq # 0 => todo \in SUBSET Seqs
      /\ \A m \in todo : m <= last
      /\ delivered \in SUBSET Seqs /\ last \in Nat /\ 0 <= last /\ 0 <= last + 1
  <2>1. last \in Nat /\ fromSeq \in Nat
    BY <1>1, VarF, Zenon
  <2> QED BY <1>1, <2>1, Spans DEF TypeOK
<1>5. /\ loop' \in loopType /\ loop'.next = 0 /\ loop'.start = 0 /\ loop'.to = 0 /\ loop'.had = {}
      /\ loop'.todo \subseteq todo /\ loop'.known \subseteq delivered
      /\ \/ reads /\ loop'.at = "catchup" /\ loop'.known = delivered /\ loop'.todo = todo
         \/ ends /\ loop'.at = "idle" /\ loop'.known = {}
  <2> HIDE DEF todo
  <2>1. CASE reads
    BY Zenon, <1>4, <2>1, IdleF DEF loopType
  <2>2. CASE ends
    BY <2>2, IdleF, Zenon
  <2> QED BY <1>2, <2>1, <2>2, Zenon
<1> HIDE DEF todo
<1>6. /\ (TypeOK /\ InStream /\ ForgottenIsOld /\ IdsKept /\ BaseShape)'
      /\ (SinceShape /\ ScanShape /\ ScanClassifies)'
      /\ (NothingOwedSkipped /\ HeldNotPassed /\ HolesUnsent /\ NothingHeldBelowBase)'
  <2>1. streamNext' \in 0..(last + 1) /\ fromSeq' \in {0, fromSeq} /\ cur \in curType
        /\ behind' \in BOOLEAN /\ catchup' \in BOOLEAN
        /\ phase \in {"attached", "closed", "away"} /\ conns \in 1..MaxConns
    <3>1. /\ fromSeq \in Nat /\ streamNext \in Nat /\ last \in Nat
          /\ fromSeq <= last /\ streamNext <= last + 1
      BY <1>1, VarF, Zenon DEF InStream
    <3>2. fromSeq' \in {0, fromSeq} /\ streamNext' \in {fromSeq, streamNext}
      BY <1>2, Zenon
    <3>3. behind' \in BOOLEAN /\ catchup' \in BOOLEAN /\ cur \in curType
          /\ phase \in {"attached", "closed", "away"} /\ conns \in 1..MaxConns
      BY Zenon, <1>1, <1>2 DEF TypeOK
    <3> QED BY <3>1, <3>2, <3>3, SMTT(60)
  <2> QED BY <1>2, <1>3, <1>4, <1>5, <2>1, LoopStep, Zenon
<1>7. (PinShape /\ ReplayClassifies)'
  BY <1>2, <1>3, <1>5, Zenon DEF PinShape, ReplayClassifies
<1>8. ReadsRecognise'
  <2>1. delivered \subseteq sent
    BY <1>1, VarF, Zenon
  <2>2. reads => todo \cap sent \subseteq delivered
    <3> SUFFICES ASSUME reads, NEW m \in todo, m \in sent, m \notin delivered PROVE FALSE
      BY SMTT(60)
    <3>1. m < fromSeq
      BY Zenon DEF IInv, ForgottenIsOld, Forgotten, Copies
    <3> QED BY <1>1, <3>1, VarF DEF todo
  <2> QED BY <1>2, <1>5, <2>1, <2>2, Zenon DEF IInv, ReadsRecognise, Recognised, resuming
<1>9. CopiesShape'
  BY <1>2, <1>3, <1>5, Zenon DEF IInv, CopiesShape, WantedCopies
<1>10. ResumeShape'
  BY <1>2, <1>5, Zenon DEF IInv, ResumeShape
<1> QED BY <1>6, <1>7, <1>8, <1>9, <1>10, Zenon DEF IInv

-----------------------------------------------------------------------------
(* The connection's end and the resume.                                    *)

\* conn.close (conn.go:758).
LEMMA Close_Inv == IInv /\ Close => IInv'
<1> SUFFICES ASSUME IInv, Close PROVE IInv'
  BY Zenon
<1> USE DEF netVars, subVars, queueVars, readVars, sentVars, curVars
<1>1. TypeOK /\ InStream
  BY Zenon DEF IInv
<1>2. /\ phase = "attached" /\ phase' = "closed"
      /\ UNCHANGED <<netVars, subVars, queueVars, readVars, conns, sentVars, curVars>>
  BY Zenon DEF Close
<1>3. /\ (TypeOK /\ InStream /\ ForgottenIsOld /\ IdsKept /\ BaseShape)'
      /\ (SinceShape /\ ScanShape /\ ScanClassifies)'
      /\ (NothingOwedSkipped /\ HeldNotPassed /\ HolesUnsent /\ NothingHeldBelowBase)'
  <2>1. cur.pin # 0 => \A d \in Forgotten : d < loop.next
    BY SMTT(60) DEF IInv, IdsKept
  <2>2. streamNext \in 0..(last + 1)
    BY <1>1, VarF, SMTT(60) DEF InStream
  <2>3. /\ loop \in loopType /\ loop.next <= last + 1 /\ loop.start <= last + 1 /\ loop.to <= last
        /\ \A m \in loop.had \cup loop.todo : m <= last
        /\ cur \in curType /\ behind \in BOOLEAN /\ catchup \in BOOLEAN /\ conns \in 1..MaxConns
    BY Zenon, <1>1 DEF TypeOK, InStream
  <2> QED BY Zenon, <1>2, <2>1, <2>2, <2>3, LoopStep
<1>4. (PinShape /\ ReadsRecognise)'
  BY Zenon, <1>2 DEF IInv, PinShape, ReadsRecognise, Recognised, resuming
<1>5. (ReplayClassifies /\ CopiesShape)'
  BY Zenon, <1>2 DEF IInv, ReplayClassifies, CopiesShape, WantedCopies, Wanted
<1>6. ResumeShape'
  BY Zenon, <1>2 DEF IInv, ResumeShape, Held
<1> QED BY <1>3, <1>4, <1>5, <1>6, Zenon DEF IInv

\* finish and detach (conn.go:435): what the connection held is no longer held,
\* and is at or above the cursor or one of its holes.
LEMMA Detach_Inv == IInv /\ Detach => IInv'
<1> SUFFICES ASSUME IInv, Detach PROVE IInv'
  BY Zenon
<1> USE DEF netVars, subVars, queueVars, readVars, sentVars, curVars
<1>1. TypeOK /\ InStream
  BY Zenon DEF IInv
<1>2. /\ asking.at = "none" /\ phase' = "away" /\ pending' = {} /\ unwanted' = {} /\ inHand' = 0 /\ fromSeq' = 0
      /\ behind' = FALSE /\ catchup' = FALSE /\ streamNext' = 0 /\ replayed' = {} /\ replayedBefore' = {}
      /\ loop' = Idle /\ cur' = [cur EXCEPT !.pin = 0]
      /\ UNCHANGED <<netVars, subVars, conns, sentVars, scan, promised, blind>>
  BY SMTT(60) DEF Detach
<1>3. /\ cur' \in curType /\ cur'.pin = 0 /\ cur'.next = cur.next /\ cur'.holes = cur.holes
      /\ cur'.base = cur.base /\ cur'.changed = cur.changed
  <2>1. 0 \in 0..(MaxSeq + 1)
    BY SeqsNat
  <2> QED BY <1>1, <1>2, <2>1, Zenon DEF TypeOK, curType
<1>4. /\ (TypeOK /\ InStream /\ ForgottenIsOld /\ IdsKept /\ BaseShape)'
      /\ (SinceShape /\ ScanShape /\ ScanClassifies)'
      /\ (NothingOwedSkipped /\ HeldNotPassed /\ HolesUnsent /\ NothingHeldBelowBase)'
  <2>1. conns \in 1..MaxConns /\ 0 \in 0..(last + 1) /\ 0 <= last /\ 0 <= last + 1
    BY <1>1, VarF DEF TypeOK
  <2>2. /\ loop' \in loopType /\ loop'.next <= last + 1 /\ loop'.start <= last + 1
        /\ loop'.to <= last /\ \A m \in loop'.had \cup loop'.todo : m <= last
    BY <1>2, <2>1, IdleF, Zenon
  <2> QED BY Zenon, <1>2, <1>3, <2>1, <2>2, LoopStep
<1>5. (PinShape /\ ReadsRecognise /\ ReplayClassifies)'
  BY <1>2, <1>3, IdleF, Zenon DEF PinShape, ReadsRecognise, ReplayClassifies, Recognised, resuming
<1>6. CopiesShape'
  <2>1. 0 \notin transit
    BY <1>1, SeqsNat, Zenon DEF TypeOK
  <2>2. WantedCopies' \subseteq WantedCopies
    BY <1>2, Zenon DEF WantedCopies
  <2> QED BY <1>2, <2>1, <2>2, IdleF, Zenon DEF IInv, CopiesShape
<1>7. ResumeShape'
  BY <1>2, <1>3, IdleF, Zenon DEF IInv, ResumeShape
<1> QED BY <1>4, <1>5, <1>6, <1>7, Zenon DEF IInv

\* attach (session.go:421).
LEMMA Attach_Inv == IInv /\ Attach => IInv'
<1> SUFFICES ASSUME IInv, Attach PROVE IInv'
  BY Zenon
<1> USE DEF netVars, subVars, queueVars, sentVars, curVars
<1>1. TypeOK /\ InStream
  BY Zenon DEF IInv
<1>2. /\ phase = "away" /\ phase' = "attached" /\ conns < MaxConns /\ conns' = conns + 1
      /\ loop' = [Idle EXCEPT !.at = "resume"]
      /\ UNCHANGED <<netVars, subVars, queueVars, streamNext, replayed, replayedBefore,
                     sentVars, curVars>>
  BY Zenon DEF Attach
<1>3. /\ loop' \in loopType /\ loop'.at = "resume" /\ loop'.next = 0 /\ loop'.start = 0
      /\ loop'.to = 0 /\ loop'.had = {} /\ loop'.todo = {} /\ loop'.known = {}
  BY <1>2, IdleF, SMTT(60) DEF loopType
<1>4. cur.pin = 0 /\ inHand = 0
  BY <1>2, Zenon DEF IInv, PinShape, CopiesShape
<1>5. /\ (TypeOK /\ InStream /\ ForgottenIsOld /\ IdsKept /\ BaseShape)'
      /\ (SinceShape /\ ScanShape /\ ScanClassifies)'
      /\ (NothingOwedSkipped /\ HeldNotPassed /\ HolesUnsent /\ NothingHeldBelowBase)'
  <2>1. streamNext \in 0..(last + 1) /\ last \in Nat /\ 0 <= last /\ 0 <= last + 1
    BY <1>1, VarF DEF InStream
  <2>2. cur \in curType /\ behind \in BOOLEAN /\ catchup \in BOOLEAN /\ conns \in 1..MaxConns
    BY <1>1, Zenon DEF TypeOK
  <2>3. conns' \in 1..MaxConns
    BY <1>2, <2>2, BoundsAssumption
  <2> QED BY <1>2, <1>3, <1>4, <2>1, <2>2, <2>3, LoopStep, Zenon
<1>6. (PinShape /\ ReplayClassifies)'
  BY <1>2, <1>3, <1>4, Zenon DEF PinShape, ReplayClassifies
<1>7. ReadsRecognise'
  BY <1>2, <1>3, Zenon DEF IInv, ReadsRecognise, Recognised, resuming
<1>8. CopiesShape'
  BY <1>2, <1>3, <1>4, Zenon DEF IInv, CopiesShape, WantedCopies
<1>9. ResumeShape'
  BY <1>2, <1>3, Zenon DEF IInv, ResumeShape
<1> QED BY <1>5, <1>6, <1>7, <1>8, <1>9, Zenon DEF IInv

\* replayFromCursor takes the cursor, its holes and the ids known (offline.go:803).
LEMMA ReplayFromCursor_Inv == IInv /\ ReplayFromCursor => IInv'
<1> SUFFICES ASSUME IInv, ReplayFromCursor PROVE IInv'
  BY Zenon
<1> USE DEF netVars, subVars, queueVars, connVars, sentVars, curVars
<1> DEFINE start == lowestSeq(cur.holes \cup {cur.next})
<1>1. TypeOK /\ InStream
  BY Zenon DEF IInv
<1>2. /\ phase = "attached" /\ loop.at = "resume" /\ cur.next # 0 /\ streamNext' = start
      /\ loop' = [Idle EXCEPT !.at = "holes", !.ok = TRUE, !.had = cur.holes,
                              !.next = cur.next, !.start = start, !.known = delivered,
                              !.todo = cur.holes]
      /\ UNCHANGED <<netVars, subVars, queueVars, replayed, replayedBefore, connVars, sentVars,
                     curVars>>
  BY Zenon DEF ReplayFromCursor
<1>3. start \in 0..(last + 1) /\ start \in 0..(MaxSeq + 1)
  <2>1. cur.holes \cup {cur.next} \subseteq Nat /\ cur.next <= last + 1 /\ last \in 0..MaxSeq
    BY Zenon, <1>1, CurF DEF InStream, TypeOK
  <2>2. start \in Nat /\ start <= cur.next
    BY <1>2, <2>1, Lowest
  <2> QED BY <1>1, <2>1, <2>2, CurF, SeqsNat
<1>4. /\ loop' \in loopType /\ loop'.at = "holes" /\ loop'.ok = TRUE /\ loop'.had = cur.holes
      /\ loop'.next = cur.next /\ loop'.start = start /\ loop'.known = delivered
      /\ loop'.todo = cur.holes /\ loop'.to = 0
  <2>1. cur.holes \in SUBSET Seqs /\ cur.next \in 0..(MaxSeq + 1) /\ delivered \in SUBSET Seqs
    BY <1>1, Zenon DEF TypeOK, curType
  <2> QED BY Zenon, <1>2, <1>3, <2>1, IdleF DEF loopType
<1>5. cur.pin = 0 /\ inHand = 0
  BY <1>2, SMTT(60) DEF IInv, PinShape, CopiesShape
<1>6. /\ (TypeOK /\ InStream /\ ForgottenIsOld /\ IdsKept /\ BaseShape)'
      /\ (SinceShape /\ ScanShape /\ ScanClassifies)'
      /\ (NothingOwedSkipped /\ HeldNotPassed /\ HolesUnsent /\ NothingHeldBelowBase)'
  <2>1. /\ cur \in curType /\ behind \in BOOLEAN /\ catchup \in BOOLEAN
        /\ phase \in {"attached", "closed", "away"}
        /\ conns \in 1..MaxConns /\ last \in Nat
        /\ cur.next <= last + 1 /\ \A m \in cur.holes : m <= last
    BY Zenon, <1>1, VarF DEF TypeOK, InStream
  <2>2. start <= last + 1 /\ 0 <= last
    BY <1>3, <2>1
  <2> HIDE DEF start
  <2> QED BY <1>2, <1>3, <1>4, <1>5, <2>1, <2>2, LoopStep, Zenon
<1>7. ReadsRecognise'
  <2>1. Recognised' \subseteq sent /\ delivered \subseteq Recognised'
    BY <1>1, <1>2, <1>4, VarF, Zenon DEF IInv, ReadsRecognise, Recognised
  <2>2. \A m \in sent : m \in cur.holes \/ m >= cur.next => m \in delivered
    BY <1>1, <1>2, VarF, CurF, SMTT(60) DEF IInv, HolesUnsent, IdsKept, Forgotten
  <2> QED BY <1>2, <1>4, <2>1, <2>2, Zenon DEF ReadsRecognise, resuming
<1>8. (PinShape /\ ReplayClassifies /\ CopiesShape)'
  BY <1>2, <1>4, <1>5, Zenon DEF IInv, PinShape, ReplayClassifies, CopiesShape, WantedCopies
<1>9. ResumeShape'
  <2>1. asking.at = "read" /\ asking.exact => cur.next <= asking.to + 1
    BY <1>2, Zenon DEF IInv, ResumeShape, SinceShape
  <2>2. cur.next \in Nat /\ cur.next <= cur.next
    BY <1>1, CurF
  <2> QED BY <1>2, <1>4, <2>1, <2>2, Zenon DEF IInv, ResumeShape
<1> QED BY <1>6, <1>7, <1>8, <1>9, Zenon DEF IInv

\* replayOffline without a cursor pins the ids it may start one with
\* (offline.go:657).
LEMMA ReplayFromRewind_Inv ==
    \A start \in 1..(MaxSeq + 1), byTime \in BOOLEAN : IInv /\ ReplayFromRewind(start, byTime) => IInv'
<1> SUFFICES ASSUME NEW start \in 1..(MaxSeq + 1), NEW byTime \in BOOLEAN, IInv,
                    ReplayFromRewind(start, byTime)
             PROVE  IInv'
  BY Zenon
<1> USE DEF netVars, subVars, queueVars, connVars, sentVars, curVars
<1>1. TypeOK /\ InStream
  BY Zenon DEF IInv
<1>2. /\ phase = "attached" /\ loop.at = "resume" /\ start \in 1..(last + 1)
      /\ \A d \in Forgotten : d < start
      /\ cur' = IF cur.next # 0 THEN cur ELSE [cur EXCEPT !.pin = IF byTime THEN 1 ELSE start]
      /\ streamNext' \in {0, start}
      /\ loop' = [Idle EXCEPT !.at = "filters", !.next = start, !.start = start,
                              !.byTime = byTime, !.known = delivered, !.filters = subs]
      /\ UNCHANGED <<netVars, subVars, queueVars, replayed, replayedBefore, connVars, sentVars,
                     scan, promised, blind>>
  BY Zenon DEF ReplayFromRewind
<1>3. start \in 0..(MaxSeq + 1) /\ 1 \in 0..(MaxSeq + 1) /\ start # 0 /\ start \in Nat
  BY <1>2, SeqsNat
<1>4. /\ loop' \in loopType /\ loop'.at = "filters" /\ loop'.ok = FALSE /\ loop'.had = {}
      /\ loop'.next = start /\ loop'.start = start /\ loop'.known = delivered
      /\ loop'.todo = {} /\ loop'.to = 0
  <2>1. subs \in SUBSET Filters /\ delivered \in SUBSET Seqs
    BY <1>1, Zenon DEF TypeOK
  <2> QED BY Zenon, <1>2, <1>3, <2>1, IdleF DEF loopType
<1>5. cur.pin = 0 /\ inHand = 0
  BY <1>2, Zenon DEF IInv, PinShape, CopiesShape
<1>6. /\ cur' \in curType /\ cur'.next = cur.next /\ cur'.holes = cur.holes /\ cur'.base = cur.base
      /\ cur'.changed = cur.changed
      /\ cur'.pin # 0 => cur'.next = 0 /\ cur'.pin <= start
  <2>1. cur \in curType
    BY <1>1, Zenon DEF TypeOK
  <2>2. CASE cur.next # 0
    BY <1>2, <1>5, <2>1, <2>2, Zenon
  <2>3. CASE cur.next = 0
    <3>1. PICK p \in {1, start} : cur' = [cur EXCEPT !.pin = p]
      BY <1>2, <2>3, Zenon
    <3>2. p \in 0..(MaxSeq + 1) /\ p <= start
      BY <1>3, <3>1
    <3> QED BY <2>1, <2>3, <3>1, <3>2, Zenon DEF curType
  <2> QED BY Zenon, <2>2, <2>3
<1>7. /\ (TypeOK /\ InStream /\ ForgottenIsOld /\ IdsKept /\ BaseShape)'
      /\ (SinceShape /\ ScanShape /\ ScanClassifies)'
      /\ (NothingOwedSkipped /\ HeldNotPassed /\ HolesUnsent /\ NothingHeldBelowBase)'
  <2>1. /\ behind \in BOOLEAN /\ catchup \in BOOLEAN /\ phase \in {"attached", "closed", "away"}
        /\ conns \in 1..MaxConns /\ last \in Nat
    BY <1>1, VarF, Zenon DEF TypeOK
  <2>2. start <= last + 1 /\ 0 <= last /\ streamNext' \in 0..(last + 1)
    BY <1>2, <2>1
  <2> QED BY <1>2, <1>4, <1>6, <2>1, <2>2, LoopStep, Zenon
<1>8. ReadsRecognise'
  <2>1. Recognised' \subseteq sent /\ delivered \subseteq Recognised'
    BY <1>1, <1>2, <1>4, VarF, Zenon DEF IInv, ReadsRecognise, Recognised
  <2>2. \A m \in sent : m >= start => m \in delivered
    BY <1>1, <1>2, <1>3, VarF, SMTT(60) DEF Forgotten
  <2> QED BY <1>2, <1>4, <2>1, <2>2, Zenon DEF ReadsRecognise, resuming
<1>9. (PinShape /\ ReplayClassifies /\ CopiesShape)'
  BY <1>2, <1>3, <1>4, <1>5, <1>6 DEF IInv, PinShape, ReplayClassifies, CopiesShape, WantedCopies
<1>10. ResumeShape'
  BY <1>2, <1>4, <1>6, Zenon DEF IInv, ResumeShape
<1> QED BY <1>7, <1>8, <1>9, <1>10, Zenon DEF IInv

\* replayHoles is done (offline.go:302).
LEMMA ReplayHolesDone_Inv == IInv /\ ReplayHolesDone => IInv'
<1> SUFFICES ASSUME IInv, ReplayHolesDone PROVE IInv'
  BY Zenon
<1> USE DEF netVars, subVars, queueVars, connVars, sentVars, curVars
<1>1. TypeOK /\ InStream
  BY Zenon DEF IInv
<1>2. /\ phase = "attached" /\ loop.at = "holes" /\ loop.todo = {}
      /\ loop' = [loop EXCEPT !.at = "filters", !.filters = subs]
      /\ UNCHANGED <<netVars, subVars, queueVars, streamNext, replayed, replayedBefore,
                     connVars, sentVars, curVars>>
  BY Zenon DEF ReplayHolesDone
<1>3. /\ loop' \in loopType /\ loop'.at = "filters" /\ loop'.ok = loop.ok /\ loop'.had = loop.had
      /\ loop'.next = loop.next /\ loop'.start = loop.start /\ loop'.known = loop.known
      /\ loop'.todo = loop.todo /\ loop'.to = loop.to
  BY Zenon, <1>1, <1>2 DEF TypeOK, loopType
<1>4. loop.ok /\ cur.pin = 0
  BY <1>2, Zenon DEF IInv, PinShape, ReplayClassifies
<1>5. /\ (TypeOK /\ InStream /\ ForgottenIsOld /\ IdsKept /\ BaseShape)'
      /\ (SinceShape /\ ScanShape /\ ScanClassifies)'
      /\ (NothingOwedSkipped /\ HeldNotPassed /\ HolesUnsent /\ NothingHeldBelowBase)'
  <2>1. /\ cur \in curType /\ behind \in BOOLEAN /\ catchup \in BOOLEAN
        /\ phase \in {"attached", "closed", "away"}
        /\ conns \in 1..MaxConns
        /\ loop.next <= last + 1 /\ loop.start <= last + 1 /\ loop.to <= last
        /\ \A m \in loop.had \cup loop.todo : m <= last
    BY Zenon, <1>1 DEF TypeOK, InStream
  <2>2. streamNext \in 0..(last + 1)
    BY <1>1, VarF DEF InStream
  <2> QED BY <1>2, <1>3, <1>4, <2>1, <2>2, LoopStep, Zenon
<1>6. (PinShape /\ ReadsRecognise)'
  BY <1>2, <1>3, <1>4, Zenon DEF IInv, PinShape, ReadsRecognise, Recognised, resuming
<1>7. (ReplayClassifies /\ CopiesShape)'
  BY <1>2, <1>3, <1>4, Zenon DEF IInv, ReplayClassifies, CopiesShape, WantedCopies, Wanted
<1>8. ResumeShape'
  BY <1>2, <1>3, Zenon DEF IInv, ResumeShape
<1> QED BY <1>5, <1>6, <1>7, <1>8, Zenon DEF IInv

\* replayFrom reads the stream's end (offline.go:366).
LEMMA ReplayRead_Inv == IInv /\ ReplayRead => IInv'
<1> SUFFICES ASSUME IInv, ReplayRead PROVE IInv'
  BY Zenon
<1> USE DEF netVars, subVars, queueVars, connVars, sentVars
<1> DEFINE todo  == {m \in loop.next..last : topic[m] \in loop.filters}
           start == CASE ~loop.byTime -> loop.start
                      [] loop.byTime /\ todo # {} -> Min(todo)
                      [] OTHER -> last + 1
<1>1. TypeOK /\ InStream
  BY Zenon DEF IInv
<1>2. /\ phase = "attached" /\ loop.at = "filters"
      /\ loop' = [loop EXCEPT !.at = "seq", !.to = last, !.todo = todo, !.start = start]
      /\ blind' = blind \cup {m \in loop.next..last : topic[m] \in subs \ loop.filters}
      /\ UNCHANGED <<netVars, subVars, queueVars, streamNext, replayed, replayedBefore,
                     connVars, sentVars, cur, scan, promised>>
  BY Zenon DEF ReplayRead
<1>3. /\ loop.next \in Nat /\ last \in Nat /\ last <= MaxSeq /\ loop.next # 0
      /\ loop.next <= last + 1 /\ loop.start \in Nat /\ loop.start <= last + 1
      /\ ~loop.ok => loop.next <= loop.start
  <2>1. /\ last \in 0..MaxSeq /\ loop.next <= last + 1 /\ loop.start <= last + 1
        /\ loop.next # 0 /\ (~loop.ok => loop.next <= loop.start)
    BY Zenon, <1>1, <1>2 DEF IInv, TypeOK, InStream, ReplayClassifies
  <2>2. loop.next \in Nat /\ loop.start \in Nat
    BY Zenon, <1>1, LoopF
  <2>3. last \in Nat /\ last <= MaxSeq
    BY <2>1, SeqsNat
  <2> QED BY Zenon, <2>1, <2>2, <2>3
<1>4. /\ todo \subseteq 1..last /\ todo \subseteq Seqs /\ todo \subseteq Nat
      /\ \A m \in todo : m >= loop.next /\ m <= last
      /\ blind' \subseteq blind \cup 1..last
  BY <1>2, <1>3, SeqsNat DEF Seqs
<1>5. /\ start \in 0..(MaxSeq + 1) /\ start <= last + 1
      /\ ~loop.ok => loop.next <= start
  <2> HIDE DEF todo
  <2>1. CASE ~loop.byTime
    BY <1>3, <2>1, SeqsNat
  <2>2. CASE loop.byTime /\ todo # {}
    <3>1. Min(todo) \in todo
      BY Zenon, <1>4, <2>2, MinNat
    <3> QED BY <1>3, <1>4, <2>2, <3>1, SeqsNat
  <2>3. CASE loop.byTime /\ todo = {}
    BY <1>3, <2>3, SeqsNat
  <2> QED BY <2>1, <2>2, <2>3, Zenon
<1> HIDE DEF todo, start
<1>6. /\ loop' \in loopType /\ loop'.at = "seq" /\ loop'.ok = loop.ok /\ loop'.had = loop.had
      /\ loop'.next = loop.next /\ loop'.start = start /\ loop'.known = loop.known
      /\ loop'.todo = todo /\ loop'.to = last
  <2>1. last \in 0..MaxSeq /\ loop \in loopType
    BY <1>1, Zenon DEF TypeOK
  <2> QED BY Zenon, <1>2, <1>4, <1>5, <2>1 DEF loopType
<1>7. /\ (TypeOK /\ InStream /\ ForgottenIsOld /\ IdsKept /\ BaseShape)'
      /\ (SinceShape /\ ScanShape /\ ScanClassifies)'
      /\ (NothingOwedSkipped /\ HeldNotPassed /\ HolesUnsent /\ NothingHeldBelowBase)'
  <2>1. /\ cur \in curType /\ behind \in BOOLEAN /\ catchup \in BOOLEAN
        /\ phase \in {"attached", "closed", "away"}
        /\ conns \in 1..MaxConns
        /\ \A m \in loop.had : m <= last
    BY <1>1, Zenon DEF TypeOK, InStream
  <2>2. streamNext \in 0..(last + 1) /\ last <= last
    BY <1>1, VarF DEF InStream
  <2>3. cur.pin # 0 => \A d \in Forgotten : d < loop.next
    BY Zenon DEF IInv, IdsKept
  <2>4. \A m \in loop'.had \cup loop'.todo : m <= last
    BY Zenon, <1>4, <1>6, <2>1
  <2>5. blind \subseteq blind'
    BY <1>2, Zenon
  <2> QED BY <1>2, <1>3, <1>4, <1>5, <1>6, <2>1, <2>2, <2>3, <2>4, <2>5, LoopStep, Zenon
<1>8. (PinShape /\ ReadsRecognise)'
  BY <1>2, <1>4, <1>6, Zenon DEF IInv, PinShape, ReadsRecognise, Recognised, resuming
<1>9. ReplayClassifies'
  <2>1. \A m \in loop.next..last : topic[m] \in subs => m \in todo \cup blind'
    BY <1>2, Zenon DEF todo
  <2> QED BY <1>2, <1>3, <1>5, <1>6, <2>1, Zenon DEF IInv, ReplayClassifies, Wanted
<1>10. CopiesShape'
  BY <1>2, <1>6, Zenon DEF IInv, CopiesShape, WantedCopies
<1>11. ResumeShape'
  BY <1>2, <1>6, Zenon DEF IInv, ResumeShape
<1> QED BY <1>7, <1>8, <1>9, <1>10, <1>11, Zenon DEF IInv

\* readUntilDone reads again (offline.go:634).
LEMMA ReplayRetry_Inv == IInv /\ ReplayRetry => IInv'
<1> SUFFICES ASSUME IInv, ReplayRetry PROVE IInv'
  BY Zenon
<1> USE DEF netVars, subVars, queueVars, connVars, sentVars, curVars
<1>1. TypeOK /\ InStream
  BY Zenon DEF IInv
<1>2. /\ phase = "attached" /\ resuming
      /\ loop' = IF loop.ok THEN [loop EXCEPT !.at = "holes", !.todo = loop.had, !.to = 0]
                 ELSE [loop EXCEPT !.at = "filters", !.todo = {}, !.to = 0]
      /\ UNCHANGED <<netVars, subVars, queueVars, streamNext, replayed, replayedBefore,
                     connVars, sentVars, curVars>>
  BY Zenon DEF ReplayRetry
<1>3. /\ loop' \in loopType /\ loop'.ok = loop.ok /\ loop'.had = loop.had
      /\ loop'.next = loop.next /\ loop'.start = loop.start /\ loop'.known = loop.known
      /\ loop'.to = 0
      /\ \/ loop.ok /\ loop'.at = "holes" /\ loop'.todo = loop.had
         \/ ~loop.ok /\ loop'.at = "filters" /\ loop'.todo = {}
  <2>1. 0 \in 0..MaxSeq
    BY SeqsNat
  <2> QED BY Zenon, <1>1, <1>2, <2>1 DEF TypeOK, loopType
<1>4. /\ (TypeOK /\ InStream /\ ForgottenIsOld /\ IdsKept /\ BaseShape)'
      /\ (SinceShape /\ ScanShape /\ ScanClassifies)'
      /\ (NothingOwedSkipped /\ HeldNotPassed /\ HolesUnsent /\ NothingHeldBelowBase)'
  <2>1. /\ cur \in curType /\ behind \in BOOLEAN /\ catchup \in BOOLEAN
        /\ phase \in {"attached", "closed", "away"}
        /\ conns \in 1..MaxConns
        /\ loop.next <= last + 1 /\ loop.start <= last + 1
        /\ \A m \in loop.had : m <= last
    BY <1>1, Zenon DEF TypeOK, InStream
  <2>2. streamNext \in 0..(last + 1) /\ 0 <= last
    BY <1>1, VarF DEF InStream
  <2>3. cur.pin # 0 => \A d \in Forgotten : d < loop.next
    BY Zenon DEF IInv, IdsKept
  <2>4. \A m \in loop'.had \cup loop'.todo : m <= last
    BY <1>3, <2>1, Zenon
  <2> QED BY <1>2, <1>3, <2>1, <2>2, <2>3, <2>4, LoopStep, Zenon
<1>5. PinShape'
  BY <1>2, <1>3, Zenon DEF IInv, PinShape
<1>6. ReadsRecognise'
  BY <1>2, <1>3, Zenon DEF IInv, ReadsRecognise, Recognised, resuming
<1>7. ReplayClassifies'
  BY <1>2, <1>3, Zenon DEF IInv, ReplayClassifies, Wanted, resuming
<1>8. CopiesShape'
  BY <1>2, <1>3, Zenon DEF IInv, CopiesShape, WantedCopies, resuming, ReplayClassifies
<1>9. ResumeShape'
  BY <1>2, <1>3, Zenon DEF IInv, ResumeShape, resuming
<1> QED BY <1>4, <1>5, <1>6, <1>7, <1>8, <1>9, Zenon DEF IInv

\* readUntilDone gives up (offline.go:634).
LEMMA ReplayFails_Inv == IInv /\ ReplayFails => IInv'
<1> SUFFICES ASSUME IInv, ReplayFails PROVE IInv'
  BY Zenon
<1> USE DEF netVars, subVars, queueVars, connVars, sentVars
<1>1. TypeOK /\ InStream
  BY Zenon DEF IInv
<1>2. /\ phase = "attached" /\ resuming /\ streamNext' = 0 /\ loop' = Idle
      /\ cur' = [cur EXCEPT !.pin = IF loop.ok THEN @ ELSE 0]
      /\ UNCHANGED <<netVars, subVars, queueVars, replayed, replayedBefore, connVars, sentVars,
                     scan, promised, blind>>
  BY Zenon DEF ReplayFails
<1>3. /\ cur' \in curType /\ cur'.pin = 0 /\ cur'.next = cur.next /\ cur'.holes = cur.holes
      /\ cur'.base = cur.base /\ cur'.changed = cur.changed
  <2>1. 0 \in 0..(MaxSeq + 1) /\ cur \in curType
    BY <1>1, SeqsNat DEF TypeOK
  <2>2. loop.ok => cur.pin = 0
    BY Zenon DEF IInv, PinShape
  <2> QED BY <1>2, <2>1, <2>2, Zenon DEF curType
<1>4. inHand = 0
  BY <1>2, Zenon DEF IInv, CopiesShape, resuming
<1>5. /\ (TypeOK /\ InStream /\ ForgottenIsOld /\ IdsKept /\ BaseShape)'
      /\ (SinceShape /\ ScanShape /\ ScanClassifies)'
      /\ (NothingOwedSkipped /\ HeldNotPassed /\ HolesUnsent /\ NothingHeldBelowBase)'
  <2>1. /\ behind \in BOOLEAN /\ catchup \in BOOLEAN /\ phase \in {"attached", "closed", "away"}
        /\ conns \in 1..MaxConns /\ 0 \in 0..(last + 1) /\ 0 <= last /\ 0 <= last + 1
    BY <1>1, VarF DEF TypeOK
  <2>2. /\ loop' \in loopType /\ loop'.next <= last + 1 /\ loop'.start <= last + 1
        /\ loop'.to <= last /\ \A m \in loop'.had \cup loop'.todo : m <= last
    BY <1>2, <2>1, IdleF, Zenon
  <2> QED BY <1>2, <1>3, <2>1, <2>2, LoopStep, Zenon
<1>6. (PinShape /\ ReadsRecognise)'
  BY <1>2, <1>3, IdleF, Zenon DEF IInv, PinShape, ReadsRecognise, Recognised, resuming
<1>7. (ReplayClassifies /\ CopiesShape)'
  BY <1>2, <1>4, IdleF, SMTT(60) DEF IInv, ReplayClassifies, CopiesShape, WantedCopies
<1>8. ResumeShape'
  BY <1>2, <1>3, IdleF, Zenon DEF IInv, ResumeShape
<1> QED BY <1>5, <1>6, <1>7, <1>8, Zenon DEF IInv

\* A read to the end clears the position (offline.go:657).
LEMMA ReplayComplete_Inv == IInv /\ ReplayComplete => IInv'
<1> SUFFICES ASSUME IInv, ReplayComplete PROVE IInv'
  BY Zenon
<1> USE DEF netVars, subVars, queueVars, connVars, sentVars, curVars
<1>1. TypeOK /\ InStream
  BY Zenon DEF IInv
<1>2. /\ phase = "attached" /\ loop.at = "seq" /\ loop.todo = {} /\ streamNext' = 0
      /\ loop' = [loop EXCEPT !.at = "replayed"]
      /\ UNCHANGED <<netVars, subVars, queueVars, replayed, replayedBefore, connVars, sentVars,
                     curVars>>
  BY Zenon DEF ReplayComplete
<1>3. /\ loop' \in loopType /\ loop'.at = "replayed" /\ loop'.ok = loop.ok /\ loop'.had = loop.had
      /\ loop'.next = loop.next /\ loop'.start = loop.start /\ loop'.known = loop.known
      /\ loop'.to = loop.to /\ loop'.todo = {}
  BY <1>1, <1>2, Zenon DEF TypeOK, loopType
<1>4. /\ (TypeOK /\ InStream /\ ForgottenIsOld /\ IdsKept /\ BaseShape)'
      /\ (SinceShape /\ ScanShape /\ ScanClassifies)'
      /\ (NothingOwedSkipped /\ HeldNotPassed /\ HolesUnsent /\ NothingHeldBelowBase)'
  <2>1. /\ cur \in curType /\ behind \in BOOLEAN /\ catchup \in BOOLEAN
        /\ phase \in {"attached", "closed", "away"}
        /\ conns \in 1..MaxConns
        /\ loop.next <= last + 1 /\ loop.start <= last + 1 /\ loop.to <= last
        /\ \A m \in loop.had : m <= last
    BY <1>1, Zenon DEF TypeOK, InStream
  <2>2. 0 \in 0..(last + 1)
    BY <1>1, VarF
  <2>3. cur.pin # 0 => \A d \in Forgotten : d < loop.next
    BY Zenon DEF IInv, IdsKept
  <2> QED BY <1>2, <1>3, <2>1, <2>2, <2>3, LoopStep, Zenon
<1>5. (PinShape /\ ReadsRecognise)'
  BY <1>2, <1>3, Zenon DEF IInv, PinShape, ReadsRecognise, Recognised, resuming
<1>6. (ReplayClassifies /\ CopiesShape)'
  BY <1>2, <1>3, Zenon DEF IInv, ReplayClassifies, CopiesShape, WantedCopies, Wanted
<1>7. ResumeShape'
  BY <1>2, <1>3, Zenon DEF IInv, ResumeShape
<1> QED BY <1>4, <1>5, <1>6, <1>7, Zenon DEF IInv

\* replayedTo (cursor.go:678): the cursor moves to the end of the read, or to what
\* the connection holds, whichever is lower.
LEMMA replayedTo_Inv == IInv /\ replayedTo => IInv'
<1> SUFFICES ASSUME IInv, replayedTo PROVE IInv'
  BY Zenon
<1> USE DEF netVars, queueVars, connVars, sentVars
<1> DEFINE n == belowFloor(loop.to)
           c == [cur EXCEPT !.pin = 0]
           settled == [c EXCEPT !.holes = @ \ loop.had]
           count == capAbove(countAboveLocked(n))
           canStart == /\ ~loop.ok /\ cur.next = 0 /\ cur.pin # 0
                       /\ ~(owedFloor # 0 /\ owedFloor < loop.start)
           canMove  == loop.ok /\ cur.next # 0 /\ ~(n <= cur.next)
           stays  == /\ cur'.next = cur.next /\ promised' = promised
                     /\ cur'.holes \subseteq cur.holes /\ cur.holes \ loop.had \subseteq cur'.holes
                     /\ cur'.base = cur.base /\ cur'.changed = cur.changed
           starts == /\ canStart /\ cur'.next = n /\ promised' = loop.start
                     /\ cur'.holes = {} /\ cur'.base = 0
                     /\ cur'.changed = (scan.at \in {"begun", "read"})
           moves  == /\ canMove /\ cur'.next = n /\ promised' = promised
                     /\ cur'.holes \subseteq cur.holes /\ cur.holes \ loop.had \subseteq cur'.holes
                     /\ cur'.base = cur.base /\ cur'.changed = cur.changed
<1>1. TypeOK /\ InStream
  BY Zenon DEF IInv
<1>2. /\ loop.at = "replayed" /\ loop' = Idle
      /\ since' = [f \in Filters |-> IF f \in subs /\ since[f] = sinceUnknown
                                    THEN loop.to ELSE since[f]]
      /\ UNCHANGED <<netVars, subs, made, asking, requests, queueVars, streamNext, replayed,
                     replayedBefore, connVars, sentVars, scan, blind>>
  BY Zenon DEF replayedTo
<1>3. \/ cur' \in {c, settled} /\ promised' = promised
      \/ canStart /\ cur' = [setCursorLocked(c, n) EXCEPT !.above = count] /\ promised' = loop.start
      \/ canMove /\ cur' = [settled EXCEPT !.next = n, !.above = count] /\ promised' = promised
  BY Zenon DEF replayedTo
<1>4. /\ loop.to \in Nat /\ loop.to <= last /\ last \in Nat /\ last <= MaxSeq /\ loop.next \in Nat
      /\ loop.next # 0 /\ loop.next <= loop.to + 1 /\ loop.start \in 0..(MaxSeq + 1)
      /\ loop.start \in Nat /\ inHand = 0 /\ loop.to \in 0..sinceUnknown /\ loop.to # sinceUnknown
      /\ ~loop.ok => loop.next <= loop.start
  <2>1. loop.start \in 0..(MaxSeq + 1)
    BY <1>1, Zenon DEF TypeOK, loopType
  <2>2. /\ loop.next # 0 /\ loop.next <= loop.to + 1
        /\ ~loop.ok => loop.next <= loop.start
        /\ inHand = 0
    BY <1>2, Zenon DEF IInv, ReplayClassifies, CopiesShape
  <2> QED BY <1>1, <2>1, <2>2, LoopF, VarF, SeqsNat DEF InStream, TypeOK, sinceUnknown
<1>5. /\ n \in Nat /\ n # 0 /\ n <= loop.to + 1 /\ n \in 0..(MaxSeq + 1) /\ n <= last + 1
      /\ n = loop.to + 1 \/ (owedFloor # 0 /\ n = owedFloor)
      /\ \A m \in (pending \cup {inHand, fromSeq}) \ {0} : n <= m
  <2>1. /\ n \in Nat /\ n # 0 /\ n <= loop.to + 1
        /\ n = loop.to + 1 \/ (owedFloor # 0 /\ n = owedFloor)
        /\ \A m \in (pending \cup {inHand, fromSeq}) \ {0} : n <= m
    BY <1>1, <1>4, BelowFloorF, Zenon
  <2> HIDE DEF n
  <2> QED BY <1>4, <2>1, SeqsNat
<1>6. count \in 0..CursorScanAfter
  BY <1>1, CountF, Zenon
<1> HIDE DEF n, count
<1>7. cur' \in curType /\ cur'.pin = 0 /\ (stays \/ starts \/ moves)
  <2>1. /\ cur \in curType /\ 0 \in 0..(MaxSeq + 1) /\ cur.holes \in SUBSET Seqs
        /\ cur.asked \in BOOLEAN /\ 0 \in 0..CursorScanAfter
    BY <1>1, SeqsNat, BoundsAssumption DEF TypeOK, curType
  <2>2. /\ c \in curType /\ c.pin = 0 /\ c.next = cur.next /\ c.holes = cur.holes
        /\ c.base = cur.base /\ c.changed = cur.changed /\ c.asked = cur.asked
    BY <2>1, Zenon DEF curType
  <2> HIDE DEF c
  <2>3. /\ settled \in curType /\ settled.pin = 0 /\ settled.next = cur.next
        /\ settled.holes = cur.holes \ loop.had
        /\ settled.base = cur.base /\ settled.changed = cur.changed
    BY <2>1, <2>2, Zenon DEF curType
  <2> HIDE DEF settled
  <2>4. CASE cur' \in {c, settled} /\ promised' = promised
    BY <2>2, <2>3, <2>4, Zenon
  <2>5. CASE canStart /\ cur' = [setCursorLocked(c, n) EXCEPT !.above = count]
             /\ promised' = loop.start
    <3> DEFINE z == setCursorLocked(c, n)
    <3>1. /\ z \in curType /\ z.next = n /\ z.holes = {} /\ z.base = 0 /\ z.pin = 0
          /\ z.changed = (scan.at \in {"begun", "read"})
      <4>1. n \in 0..(MaxSeq + 1) /\ {} \in SUBSET Seqs /\ c.asked \in BOOLEAN
        BY Zenon, <1>5, <2>1, <2>2
      <4> HIDE DEF z
      <4>2. z = [next |-> n, holes |-> {}, changed |-> (scan.at \in {"begun", "read"}), above |-> 0,
                 asked |-> c.asked, pin |-> 0, base |-> 0]
        BY Zenon DEF z, setCursorLocked
      <4>3. z \in curType
        BY <2>1, <4>1, <4>2 DEF curType
      <4> QED BY Zenon, <4>2, <4>3
    <3> HIDE DEF z
    <3>2. /\ cur' \in curType /\ cur'.next = n /\ cur'.holes = {} /\ cur'.base = 0 /\ cur'.pin = 0
          /\ cur'.changed = z.changed
      BY <1>6, <2>5, <3>1, Zenon DEF curType, z
    <3> QED BY <2>5, <3>1, <3>2, Zenon
  <2>6. CASE canMove /\ cur' = [settled EXCEPT !.next = n, !.above = count]
             /\ promised' = promised
    <3>1. /\ cur' \in curType /\ cur'.next = n /\ cur'.holes = settled.holes
          /\ cur'.base = settled.base /\ cur'.pin = 0 /\ cur'.changed = settled.changed
      BY Zenon, <1>5, <1>6, <2>3, <2>6 DEF curType
    <3> QED BY <2>3, <2>6, <3>1, Zenon
  <2> QED BY <1>3, <2>4, <2>5, <2>6, Zenon
<1> HIDE DEF c, settled
<1>8. /\ cur'.next <= last + 1 /\ cur'.holes \subseteq cur.holes
      /\ cur'.next \in Nat /\ cur.next \in Nat /\ cur.base \in Nat
  BY <1>1, <1>5, <1>7, CurF, Zenon DEF InStream
<1>9. TypeOK' /\ InStream'
  <2>1. /\ since' \in [Filters -> 0..sinceUnknown] /\ promised' \in 0..(MaxSeq + 1)
    BY Zenon, <1>1, <1>2, <1>4, <1>7 DEF TypeOK
  <2>2. TypeOK'
    BY Zenon, <1>1, <1>2, <1>7, <2>1, IdleF DEF TypeOK
  <2>3. InStream'
    <3>1. \A k \in cur'.holes : k <= last
      BY Zenon, <1>1, <1>8 DEF InStream
    <3>2. 0 <= last /\ 0 <= last + 1
      BY <1>4
    <3>3. /\ loop'.had = {} /\ loop'.todo = {} /\ loop'.next = 0 /\ loop'.start = 0 /\ loop'.to = 0
      BY Zenon, <1>2, IdleF
    <3>4. \A k \in transit \cup noting \cup pending \cup sent \cup scan.owed \cup blind : k <= last
      BY Zenon, <1>1 DEF InStream
    <3>5. UNCHANGED <<last, transit, noting, asking, queueVars, streamNext, sent, scan, blind>>
      BY Zenon, <1>2
    <3>6. \A k \in (transit \cup noting \cup pending \cup sent \cup loop.had \cup loop.todo
                     \cup cur.holes \cup scan.owed \cup blind)' : k <= last'
      BY <3>1, <3>3, <3>4, <3>5, Zenon
    <3> QED BY Zenon, <1>1, <1>8, <3>2, <3>3, <3>5, <3>6 DEF InStream
  <2> QED BY <2>2, <2>3, Zenon
<1>10. (ForgottenIsOld /\ ScanShape /\ PinShape)'
  BY Zenon, <1>2, <1>7 DEF IInv, ForgottenIsOld, ScanShape, PinShape, Forgotten, Copies, scanFrom
<1>11. ReadsRecognise' /\ ReplayClassifies' /\ CopiesShape'
  <2>1. Recognised' \subseteq sent
    BY <1>2, IdleF, Zenon DEF IInv, ReadsRecognise, Recognised
  <2> QED BY Zenon, <1>2, <1>4, <2>1, IdleF DEF IInv, ReadsRecognise, ReplayClassifies, CopiesShape,
             WantedCopies, resuming
<1>12. IdsKept'
  <2> SUFFICES ASSUME NEW d \in Forgotten, cur'.next # 0 PROVE d < cur'.next
    BY Zenon, <1>2, <1>7 DEF IInv, IdsKept, Forgotten
  <2>1. /\ d \in Nat
        /\ cur.next # 0 => d < cur.next
        /\ cur.pin # 0 => d < loop.next
    BY <1>1, VarF, Zenon DEF IInv, IdsKept, Forgotten
  <2>2. CASE starts
    <3>1. loop.next <= n
      BY <1>1, <1>4, <1>5, <2>2, FloorF
    <3> QED BY <1>4, <1>5, <2>1, <2>2, <3>1, SMTT(60)
  <2>3. CASE stays
    BY <2>1, <2>3, Zenon
  <2>4. CASE moves
    BY <1>5, <1>8, <2>1, <2>4, SMTT(60)
  <2> QED BY Zenon, <1>7, <2>2, <2>3, <2>4
<1>13. BaseShape'
  BY <1>5, <1>7, <1>8, SMTT(60) DEF IInv, BaseShape
<1>14. \A f \in subs : /\ since'[f] # sinceUnknown
                       /\ since[f] # sinceUnknown => since'[f] = since[f]
  BY <1>1, <1>2, <1>4, Zenon DEF TypeOK
<1>15. (SinceShape /\ ScanClassifies)'
  <2>1. SinceShape'
    BY <1>2, <1>14, Zenon DEF IInv, SinceShape
  <2>2. ScanClassifies'
    BY <1>2, <1>14, Zenon DEF IInv, ScanClassifies, scanFrom
  <2> QED BY <2>1, <2>2, Zenon
<1>16. HolesUnsent'
  BY <1>2, <1>8, Zenon DEF IInv, HolesUnsent
<1>17. HeldNotPassed'
  <2>1. CASE stays
    <3>1. \A m \in (pending \cup {inHand}) \ ({0} \cup unwanted) : m \in loop.had => m \in sent
      BY <1>2, Zenon DEF IInv, CopiesShape, WantedCopies
    <3> QED BY Zenon, <1>2, <2>1, <3>1 DEF IInv, HeldNotPassed
  <2>2. CASE starts \/ moves
    <3>1. \A m \in (pending \cup {inHand}) \ ({0} \cup unwanted) : m >= n
      BY <1>1, <1>5, VarF, Zenon
    <3> QED BY <1>2, <2>2, <3>1, Zenon DEF HeldNotPassed
  <2> QED BY <1>7, <2>1, <2>2, Zenon
<1>18. NothingHeldBelowBase'
  BY Zenon, <1>2, <1>7 DEF IInv, NothingHeldBelowBase
<1>19. ResumeShape'
  BY Zenon, <1>2, <1>7, IdleF DEF IInv, ResumeShape
<1>20. NothingOwedSkipped'
  <2> SUFFICES ASSUME cur'.next # 0, NEW m \in 1..last, promised' <= m, m < cur'.next,
                      Owed(m)', m \notin blind
               PROVE  m \in sent \cup cur'.holes
    BY Zenon, <1>2 DEF NothingOwedSkipped
  <2>1. m \in Seqs /\ m \in Nat /\ Wanted(m) /\ topic[m] \in subs /\ made[topic[m]] \in Nat
        /\ m > made[topic[m]]
    BY <1>1, <1>2, Spans, SeqsNat, SinceF, Zenon DEF Owed, owedBy, Wanted
  <2>2. m \in loop.next..loop.to => m \in sent
    BY <1>2, <2>1, Zenon DEF IInv, ReplayClassifies
  <2>3. m \in loop.had => m \in sent
    BY <1>2, <2>1, Zenon DEF IInv, ReplayClassifies
  <2>4. CASE starts
    BY <1>4, <1>5, <2>1, <2>2, <2>4
  <2>5. ASSUME stays \/ moves, cur.next # 0, m < cur.next PROVE m \in sent \cup cur'.holes
    <3>1. since[topic[m]] # sinceUnknown
      <4> SUFFICES ASSUME since[topic[m]] = sinceUnknown PROVE FALSE
        BY Zenon
      <4>1. asking.at # "none" /\ topic[m] \in asking.fresh
        BY <2>1, Zenon DEF IInv, SinceShape
      <4>2. CASE asking.at = "read"
        <5>1. cur.next <= made[topic[m]] + 1
          BY <2>1, <4>1, <4>2, Zenon DEF IInv, SinceShape
        <5> QED BY <1>8, <2>1, <2>5, <5>1
      <4>3. CASE asking.at = "installed"
        <5>1. made[topic[m]] = sinceUnknown
          BY <4>1, <4>3, Zenon DEF IInv, SinceShape
        <5> QED BY <1>1, <2>1, <5>1, FreshOwesNothing, Zenon
      <4>4. asking.at \in {"none", "installed", "read"}
        BY <1>1, Zenon DEF TypeOK, askType
      <4> QED BY <4>1, <4>2, <4>3, <4>4, Zenon
    <3>2. Owed(m)
      BY Zenon, <1>2, <1>14, <2>1, <3>1 DEF Owed, owedBy, sinceUnknown
    <3>3. m \in sent \cup cur.holes
      BY <2>5, <3>2, Zenon DEF IInv, NothingOwedSkipped
    <3> QED BY <2>3, <2>5, <3>3, Zenon
  <2>6. CASE stays
    BY <2>5, <2>6, Zenon
  <2>7. CASE moves
    <3>1. CASE m < cur.next
      BY <2>5, <2>7, <3>1, Zenon
    <3>2. CASE ~(m < cur.next)
      <4>1. loop.next <= cur.next
        <5> SUFFICES ASSUME ~(loop.next <= cur.next) PROVE FALSE
          BY Zenon
        <5>1. PICK h \in Held : h <= cur.next
          BY <1>2, <2>7, Zenon DEF IInv, ResumeShape
        <5>2. owedFloor # 0 /\ owedFloor <= h /\ h \in Nat /\ owedFloor \in Nat
          <6>1. Held \subseteq Nat /\ h # 0
            BY <1>1, FloorF, Zenon
          <6> QED BY Zenon, <6>1, Lowest DEF owedFloor
        <5>3. n <= owedFloor
          BY <1>5, <5>2, <1>1, <1>4, BelowFloorF, Zenon DEF n
        <5> QED BY <1>5, <1>8, <2>7, <5>1, <5>2, <5>3
      <4>2. m \in loop.next..loop.to
        <5>1. m < n
          BY Zenon, <2>7
        <5> QED BY <1>4, <1>5, <1>8, <2>1, <3>2, <4>1, <5>1
      <4> QED BY <2>2, <4>2, Zenon
    <3> QED BY <3>1, <3>2, Zenon
  <2> QED BY Zenon, <1>7, <2>4, <2>6, <2>7
<1> QED BY <1>9, <1>10, <1>11, <1>12, <1>13, <1>15, <1>16, <1>17, <1>18, <1>19, <1>20, Zenon DEF IInv

-----------------------------------------------------------------------------
(* The scans.                                                              *)

\* scanAgain leaves the cursor it is given, and no scan that has begun.
LEMMA ScanAgainF ==
    ASSUME TypeOK, NEW c \in curType, NEW again, scanAgain(c, again)
    PROVE  /\ cur' \in curType /\ cur'.next = c.next /\ cur'.holes = c.holes
           /\ cur'.pin = c.pin /\ cur'.base = c.base
           /\ scan' \in scanType /\ scan'.at \in {"off", "due"}
           /\ scan'.start = 0 /\ scan'.to = 0 /\ scan'.owed = {}
<1>1. cur' = [c EXCEPT !.asked = FALSE, !.changed = FALSE] /\ scan' \in {ScanDue, NoScan}
  BY Zenon DEF scanAgain
<1>2. conns \in 0..MaxConns /\ 0 \in 0..MaxConns /\ 0 \in 0..(MaxSeq + 1) /\ 0 \in 0..MaxSeq
  BY SeqsNat, BoundsAssumption DEF TypeOK
<1>3. \A s \in {ScanDue, NoScan} : /\ s \in scanType /\ s.at \in {"off", "due"}
                                   /\ s.start = 0 /\ s.to = 0 /\ s.owed = {}
  <2>1. NoScan \in scanType /\ NoScan.at = "off" /\ NoScan.start = 0 /\ NoScan.to = 0 /\ NoScan.owed = {}
    BY <1>2, Zenon DEF NoScan, scanType
  <2>2. ScanDue \in scanType /\ ScanDue.at = "due" /\ ScanDue.start = 0 /\ ScanDue.to = 0 /\ ScanDue.owed = {}
    BY Zenon, <1>2 DEF ScanDue, NoScan, scanType
  <2> QED BY <2>1, <2>2, Zenon
<1>4. /\ cur' \in curType /\ cur'.next = c.next /\ cur'.holes = c.holes
      /\ cur'.pin = c.pin /\ cur'.base = c.base
  BY Zenon, <1>1 DEF curType
<1> QED BY <1>1, <1>3, <1>4, Zenon

\* The parts of the invariant kept when a scan ends, whatever it did to the cursor.
LEMMA ScanEnds ==
    ASSUME IInv, scanUnchanged, blind' = blind, promised' \in 0..(MaxSeq + 1),
           cur' \in curType, cur'.next <= last + 1, \A m \in cur'.holes : m <= last,
           scan' \in scanType, scan'.at \in {"off", "due"},
           scan'.start = 0, scan'.to = 0, scan'.owed = {}
    PROVE  /\ (TypeOK /\ InStream /\ ForgottenIsOld /\ ReadsRecognise /\ ScanShape)'
           /\ (ScanClassifies /\ ReplayClassifies /\ CopiesShape)'
<1> USE DEF scanUnchanged, netVars, subVars, queueVars, readVars, connVars, sentVars
<1>1. TypeOK /\ InStream
  BY Zenon DEF IInv
<1>2. TypeOK'
  BY <1>1, Zenon DEF TypeOK
<1>3. 0 <= last /\ 0 <= last + 1
  BY <1>1, VarF
<1>4. InStream'
  BY <1>1, <1>3, Zenon DEF InStream
<1>5. (ForgottenIsOld /\ ReadsRecognise)'
  BY Zenon DEF IInv, ForgottenIsOld, ReadsRecognise, Forgotten, Copies, Recognised, resuming
<1>6. (ScanShape /\ ScanClassifies)'
  BY Zenon DEF ScanShape, ScanClassifies
<1>7. (ReplayClassifies /\ CopiesShape)'
  BY Zenon DEF IInv, ReplayClassifies, CopiesShape, Wanted, WantedCopies
<1> QED BY <1>2, <1>4, <1>5, <1>6, <1>7, Zenon

\* A scan that ends without moving the cursor.
LEMMA ScanIdle ==
    ASSUME IInv, scanUnchanged, UNCHANGED <<promised, blind>>,
           NEW c \in curType, NEW again, scanAgain(c, again),
           c.next = cur.next, c.holes = cur.holes, c.pin = cur.pin, c.base = cur.base
    PROVE  IInv'
<1> USE DEF scanUnchanged, netVars, subVars, queueVars, readVars, connVars, sentVars
<1>1. TypeOK /\ InStream
  BY Zenon DEF IInv
<1>2. /\ cur' \in curType /\ cur'.next = cur.next /\ cur'.holes = cur.holes
      /\ cur'.pin = cur.pin /\ cur'.base = cur.base
      /\ scan' \in scanType /\ scan'.at \in {"off", "due"}
      /\ scan'.start = 0 /\ scan'.to = 0 /\ scan'.owed = {}
  BY <1>1, ScanAgainF, Zenon
<1>3. /\ (TypeOK /\ InStream /\ ForgottenIsOld /\ ReadsRecognise /\ ScanShape)'
      /\ (ScanClassifies /\ ReplayClassifies /\ CopiesShape)'
  <2>1. /\ cur'.next <= last + 1 /\ (\A m \in cur'.holes : m <= last)
        /\ promised' \in 0..(MaxSeq + 1) /\ blind' = blind
    BY <1>1, <1>2, Zenon DEF InStream, TypeOK
  <2>2. scanUnchanged
    BY Zenon
  <2> QED BY <1>2, <2>1, <2>2, ScanEnds, Zenon
<1>4. (IdsKept /\ PinShape /\ BaseShape /\ SinceShape)'
  BY <1>2, Zenon DEF IInv, IdsKept, PinShape, BaseShape, SinceShape, Forgotten
<1>5. (ResumeShape /\ NothingOwedSkipped)'
  BY Zenon, <1>2 DEF IInv, ResumeShape, NothingOwedSkipped, Held, Owed, owedBy
<1>6. (HeldNotPassed /\ HolesUnsent /\ NothingHeldBelowBase)'
  BY <1>2, Zenon DEF IInv, HeldNotPassed, HolesUnsent, NothingHeldBelowBase
<1> QED BY <1>3, <1>4, <1>5, <1>6, Zenon DEF IInv

\* A scan that could not read (cursor.go:363).
LEMMA ScanFails_Inv == IInv /\ ScanFails => IInv'
<1> SUFFICES ASSUME IInv, ScanFails PROVE IInv'
  BY Zenon
<1>1. cur \in curType
  BY Zenon DEF IInv, TypeOK
<1>2. scanAgain(cur, FALSE) /\ scanUnchanged /\ UNCHANGED <<promised, blind>>
  BY Zenon DEF ScanFails
<1> QED BY Zenon, <1>1, <1>2, ScanIdle

\* A scan takes the position to read from (cursor.go:363).
LEMMA ScanBegin_Inv == IInv /\ ScanBegin => IInv'
<1> SUFFICES ASSUME IInv, ScanBegin PROVE IInv'
  BY Zenon
<1> DEFINE c == IF cur.next = 0 THEN [cur EXCEPT !.above = 0] ELSE cur
<1>1. TypeOK /\ InStream
  BY Zenon DEF IInv
<1>2. /\ scan.at = "due" /\ scanUnchanged /\ UNCHANGED <<promised, blind>>
      /\ \/ cur' = c /\ scan' = [scan EXCEPT !.at = "begun", !.start = cur.next,
                                             !.restart = (cur.next = 0)]
         \/ scanAgain(c, FALSE) \/ scanAgain(cur, FALSE)
  BY Zenon DEF ScanBegin
<1>3. /\ cur \in curType /\ c \in curType /\ c.next = cur.next /\ c.holes = cur.holes
      /\ c.pin = cur.pin /\ c.base = cur.base /\ c.changed = cur.changed
  <2>1. cur \in curType /\ 0 \in 0..CursorScanAfter
    BY <1>1, BoundsAssumption DEF TypeOK
  <2> QED BY <2>1, Zenon DEF curType
<1> HIDE DEF c
<1>4. CASE scanAgain(c, FALSE) \/ scanAgain(cur, FALSE)
  BY Zenon, <1>2, <1>3, <1>4, ScanIdle
<1>5. CASE cur' = c /\ scan' = [scan EXCEPT !.at = "begun", !.start = cur.next,
                                            !.restart = (cur.next = 0)]
  <2> USE DEF scanUnchanged, netVars, subVars, queueVars, readVars, connVars, sentVars
  <2>1. /\ scan' \in scanType /\ scan'.at = "begun" /\ scan'.start = cur.next
        /\ scan'.restart = (cur.next = 0) /\ scan'.to = scan.to /\ scan'.owed = scan.owed
    <3>1. cur.next \in 0..(MaxSeq + 1) /\ scan \in scanType
      BY <1>1, Zenon DEF TypeOK, curType
    <3> QED BY Zenon, <1>5, <3>1 DEF scanType
  <2>2. TypeOK'
    BY <1>1, <1>2, <1>3, <1>5, <2>1, Zenon DEF TypeOK
  <2>3. InStream'
    BY <1>1, <1>2, <1>3, <1>5, <2>1, Zenon DEF InStream
  <2>4. (ForgottenIsOld /\ ReadsRecognise /\ ScanShape /\ ScanClassifies)'
    BY Zenon, <1>2, <2>1 DEF IInv, ForgottenIsOld, ReadsRecognise, ScanShape, ScanClassifies, Forgotten,
       Copies, Recognised, resuming
  <2>5. (IdsKept /\ PinShape /\ BaseShape /\ SinceShape)'
    BY <1>2, <1>3, <1>5, <2>1, Zenon DEF IInv, IdsKept, PinShape, BaseShape, SinceShape, Forgotten
  <2>6. (ReplayClassifies /\ CopiesShape)'
    BY <1>2, Zenon DEF IInv, ReplayClassifies, CopiesShape, Wanted, WantedCopies
  <2>7. (ResumeShape /\ NothingOwedSkipped)'
    BY Zenon, <1>2, <1>3, <1>5, <2>1 DEF IInv, ResumeShape, NothingOwedSkipped, Held, Owed, owedBy
  <2>8. (HeldNotPassed /\ HolesUnsent /\ NothingHeldBelowBase)'
    BY <1>2, <1>3, <1>5, Zenon DEF IInv, HeldNotPassed, HolesUnsent, NothingHeldBelowBase
  <2> QED BY <2>2, <2>3, <2>4, <2>5, <2>6, <2>7, <2>8, Zenon DEF IInv
<1> QED BY Zenon, <1>2, <1>4, <1>5

\* A scan reads what the subscriptions match (cursor.go:363, 520).
LEMMA ScanRead_Inv == \A from \in 1..(MaxSeq + 1) : IInv /\ ScanRead(from) => IInv'
<1> SUFFICES ASSUME NEW from \in 1..(MaxSeq + 1), IInv, ScanRead(from) PROVE IInv'
  BY Zenon
<1> USE DEF scanUnchanged, netVars, subVars, queueVars, readVars, connVars, sentVars
<1> DEFINE seen == {m \in from..last : topic[m] \in subs}
           owed == {m \in seen : owedBy(m)}
           base == CASE ~scan.restart -> 0
                     [] scan.restart /\ seen # {} -> Min(seen)
                     [] OTHER -> last + 1
<1>1. TypeOK /\ InStream
  BY Zenon DEF IInv
<1>2. /\ scan.at = "begun"
      /\ ~scan.restart => from = scan.start
      /\ scan.restart => from \in 1..(last + 1) /\ \A d \in Forgotten : d < from
      /\ scan' = [scan EXCEPT !.at = "read", !.same = TRUE, !.to = last, !.owed = owed, !.base = base]
      /\ blind' = blind \cup {m \in seen : since[topic[m]] = sinceUnknown}
      /\ scanUnchanged /\ UNCHANGED <<cur, promised>>
  BY Zenon DEF ScanRead
<1>3. /\ last \in Nat /\ last <= MaxSeq /\ from \in Nat /\ from # 0 /\ from <= last + 1
  BY <1>1, <1>2, VarF, SeqsNat DEF TypeOK, InStream
<1>4. /\ seen \subseteq Seqs /\ seen \subseteq Nat /\ \A m \in seen : m >= from /\ m <= last
      /\ \A m \in from..last : topic[m] \in subs => m \in seen
  BY <1>3, SeqsNat DEF Seqs
<1> HIDE DEF seen
<1>5. /\ base \in 0..(MaxSeq + 1)
      /\ scan.restart => base >= from /\ base <= last + 1 /\ \A m \in seen : m >= base
  <2>1. CASE ~scan.restart
    BY <2>1, SeqsNat
  <2>2. CASE scan.restart /\ seen # {}
    <3>1. Min(seen) \in seen /\ \A y \in seen : Min(seen) <= y
      BY Zenon, <1>4, <2>2, MinNat
    <3> QED BY <1>3, <1>4, <2>2, <3>1, SeqsNat
  <2>3. CASE scan.restart /\ seen = {}
    BY <1>3, <2>3, SeqsNat
  <2> QED BY <2>1, <2>2, <2>3, Zenon
<1> HIDE DEF base
<1>6. /\ scan' \in scanType /\ scan'.at = "read" /\ scan'.restart = scan.restart
      /\ scan'.start = scan.start /\ scan'.to = last /\ scan'.owed = owed /\ scan'.base = base
  <2>1. last \in 0..MaxSeq /\ scan \in scanType /\ owed \in SUBSET Seqs
    BY Zenon, <1>1, <1>4 DEF TypeOK
  <2> HIDE DEF owed
  <2> QED BY Zenon, <1>2, <1>5, <2>1 DEF scanType
<1>7. /\ scanFrom' \in Nat /\ scanFrom' # 0 /\ scanFrom' >= from /\ scanFrom' <= last + 1
      /\ \A m \in seen : m >= scanFrom'
  <2>1. CASE scan.restart
    BY <1>3, <1>5, <1>6, <2>1, SeqsNat DEF scanFrom
  <2>2. CASE ~scan.restart
    <3>1. scanFrom' = from
      BY <1>2, <1>6, <2>2, Zenon DEF scanFrom
    <3> QED BY <1>3, <1>4, <3>1
  <2> QED BY <2>1, <2>2, Zenon
<1>8. blind' \subseteq Seqs /\ (\A m \in blind' : m <= last) /\ blind \subseteq blind'
  BY <1>1, <1>2, <1>4, Zenon DEF TypeOK, InStream
<1>9. TypeOK' /\ InStream'
  <2>1. TypeOK'
    BY <1>1, <1>2, <1>6, <1>8, Zenon DEF TypeOK
  <2>2. last <= last /\ scan'.start <= last + 1 /\ \A m \in owed : m <= last
    BY <1>1, <1>3, <1>4, <1>6 DEF InStream
  <2>3. InStream'
    BY <1>1, <1>2, <1>6, <1>8, <2>2, ZenonT(60) DEF InStream
  <2> QED BY <2>1, <2>3, Zenon
<1>10. (ForgottenIsOld /\ PinShape /\ BaseShape /\ SinceShape)'
  BY <1>2, Zenon DEF IInv, ForgottenIsOld, PinShape, BaseShape, SinceShape, Forgotten, Copies
<1>11. ReadsRecognise'
  BY <1>2, Zenon DEF IInv, ReadsRecognise, Recognised, resuming
<1>12. IdsKept'
  <2>1. scan.restart => \A d \in Forgotten : d < base
    BY <1>1, <1>2, <1>3, <1>5, VarF DEF Forgotten
  <2> QED BY <1>2, <1>6, <2>1, Zenon DEF IInv, IdsKept, Forgotten
<1>13. ScanShape'
  <2>1. scanFrom' \in 1..(last + 1)
    BY <1>3, <1>7
  <2> QED BY <1>6, <1>7, <2>1, Zenon DEF ScanShape
<1>14. ScanClassifies'
  <2> SUFFICES ASSUME NEW m \in scanFrom'..last, topic[m] \in subs,
                      since[topic[m]] = sinceUnknown \/ m > since[topic[m]]
               PROVE  m \in owed \cup blind'
    BY <1>2, <1>6, Zenon DEF ScanClassifies
  <2>1. m \in seen
    BY <1>3, <1>4, <1>7, SMTT(60)
  <2> QED BY <1>2, <2>1, Zenon DEF owedBy
<1>15. ReplayClassifies' /\ CopiesShape'
  BY <1>2, <1>8, Zenon DEF IInv, ReplayClassifies, CopiesShape, Wanted, WantedCopies
<1>16. ResumeShape'
  <2>1. loop.next <= last + 1
    BY <1>1, Zenon DEF InStream
  <2> QED BY <1>2, <1>6, <2>1, Zenon DEF IInv, ResumeShape, Held
<1>17. NothingOwedSkipped'
  BY <1>2, <1>8, Zenon DEF IInv, NothingOwedSkipped, Owed, owedBy
<1>18. (HeldNotPassed /\ HolesUnsent /\ NothingHeldBelowBase)'
  BY <1>2, Zenon DEF IInv, HeldNotPassed, HolesUnsent, NothingHeldBelowBase
<1> QED BY <1>9, <1>10, <1>11, <1>12, <1>13, <1>14, <1>15, <1>16, <1>17, <1>18, Zenon DEF IInv

\* applyScan (cursor.go:429): the cursor passes what was read, up to what the
\* connection holds, with a hole for each message owed and not delivered.
LEMMA applyScan_Inv == IInv /\ applyScan => IInv'
<1> SUFFICES ASSUME IInv, applyScan PROVE IInv'
  BY Zenon
<1> DEFINE floor == owedFloor
           n == IF floor # 0 /\ floor < scan.to + 1 THEN Larger(floor, scan.start) ELSE scan.to + 1
           S == {m \in scan.owed : m < n}
           c == addHolesLocked(cur, S)
           z == [c EXCEPT !.next = n, !.above = capAbove(countAboveLocked(n))]
           applies == /\ cur.next = scan.start /\ scan.same /\ sinceKnown
                      /\ \/ c.next = 0 /\ scanAgain(c, FALSE)
                         \/ c.next # 0 /\ scanAgain(z, n > cur.next)
<1>1. TypeOK /\ InStream
  BY Zenon DEF IInv
<1>2. /\ scan.at = "read" /\ ~scan.restart /\ scanUnchanged /\ UNCHANGED <<promised, blind>>
      /\ scanAgain(cur, FALSE) \/ scanAgain(cur, TRUE) \/ applies
  BY Zenon DEF applyScan, applyScanLocked
<1>3. CASE scanAgain(cur, FALSE) \/ scanAgain(cur, TRUE)
  <2>1. cur \in curType
    BY <1>1, Zenon DEF TypeOK
  <2> QED BY Zenon, <1>2, <1>3, <2>1, ScanIdle
<1>4. CASE applies
  <2> USE DEF scanUnchanged, netVars, subVars, queueVars, readVars, connVars, sentVars
  <2>1. /\ cur.next = scan.start /\ scan.same /\ sinceKnown /\ scanFrom = scan.start
        /\ scan.start \in 1..(scan.to + 1) /\ scan.start \in Nat /\ scan.to \in Nat
        /\ scan.to <= last /\ last \in Nat /\ last <= MaxSeq
        /\ \A m \in scan.owed : m >= scan.start
    <3>1. cur.next = scan.start /\ scan.same /\ sinceKnown /\ scanFrom = scan.start
      BY <1>2, <1>4, Zenon DEF scanFrom
    <3>2. scan.start \in 1..(scan.to + 1) /\ \A m \in scan.owed : m >= scan.start
      BY <1>2, <3>1, Zenon DEF IInv, ScanShape
    <3> QED BY <1>1, <3>1, <3>2, ScanF, VarF, SeqsNat DEF InStream, TypeOK
  <2>2. /\ n \in Nat /\ n >= cur.next /\ n <= scan.to + 1 /\ n # 0 /\ n \in 0..(MaxSeq + 1)
        /\ \A m \in (pending \cup {inHand, fromSeq}) \ {0} : m >= n \/ n = cur.next
    <3>1. /\ floor \in Nat
          /\ floor = 0 => pending = {} /\ inHand = 0 /\ fromSeq = 0
          /\ floor # 0 => \A m \in (pending \cup {inHand, fromSeq}) \ {0} : floor <= m
          /\ (pending \cup {inHand, fromSeq}) \ {0} \subseteq Nat
      BY <1>1, FloorF, VarF, Zenon
    <3> HIDE DEF floor
    <3>2. CASE floor # 0 /\ floor < scan.to + 1
      BY <2>1, <3>1, <3>2, SeqsNat, SMTT(60) DEF Larger
    <3>3. CASE ~(floor # 0 /\ floor < scan.to + 1)
      BY <2>1, <3>1, <3>3, SeqsNat, SMTT(60)
    <3> QED BY <3>2, <3>3, Zenon
  <2> HIDE DEF n
  <2>3. /\ c \in curType
        /\ \/ Dropped(c)
           \/ /\ c.next = cur.next /\ c.pin = cur.pin /\ c.base = cur.base
              /\ c.holes = cur.holes \cup (S \ delivered)
    <3>1. S \in SUBSET Seqs
      BY <1>1, ScanF, Zenon
    <3> HIDE DEF S
    <3> QED BY <1>1, <3>1, AddHolesF, Zenon
  <2> HIDE DEF c
  <2>4. z \in curType /\ z.next = n /\ z.holes = c.holes /\ z.pin = c.pin /\ z.base = c.base
    <3>1. capAbove(countAboveLocked(n)) \in 0..CursorScanAfter
      BY <1>1, CountF, Zenon
    <3> QED BY Zenon, <2>2, <2>3, <3>1 DEF curType
  <2> HIDE DEF z
  <2>5. /\ cur' \in curType
        /\ \/ Dropped(cur')
           \/ /\ cur'.next = n /\ cur'.pin = cur.pin /\ cur'.base = cur.base
              /\ cur'.holes = cur.holes \cup (S \ delivered)
        /\ scan' \in scanType /\ scan'.at \in {"off", "due"}
        /\ scan'.start = 0 /\ scan'.to = 0 /\ scan'.owed = {}
    <3>1. CASE c.next = 0 /\ scanAgain(c, FALSE)
      <4>1. Dropped(c)
        BY <2>1, <2>3, <3>1
      <4>2. /\ cur' \in curType /\ cur'.next = c.next /\ cur'.holes = c.holes
            /\ cur'.pin = c.pin /\ cur'.base = c.base
            /\ scan' \in scanType /\ scan'.at \in {"off", "due"}
            /\ scan'.start = 0 /\ scan'.to = 0 /\ scan'.owed = {}
        BY Zenon, <1>1, <2>3, <3>1, ScanAgainF
      <4> QED BY <4>1, <4>2, Zenon DEF Dropped
    <3>2. CASE c.next # 0 /\ scanAgain(z, n > cur.next)
      <4>1. /\ cur' \in curType /\ cur'.next = z.next /\ cur'.holes = z.holes
            /\ cur'.pin = z.pin /\ cur'.base = z.base
            /\ scan' \in scanType /\ scan'.at \in {"off", "due"}
            /\ scan'.start = 0 /\ scan'.to = 0 /\ scan'.owed = {}
        BY <1>1, <2>4, <3>2, ScanAgainF, Zenon
      <4> QED BY <2>3, <2>4, <3>2, <4>1, Zenon DEF Dropped
    <3> QED BY Zenon, <1>4, <3>1, <3>2
  <2>6. /\ (TypeOK /\ InStream /\ ForgottenIsOld /\ ReadsRecognise /\ ScanShape)'
        /\ (ScanClassifies /\ ReplayClassifies /\ CopiesShape)'
    <3>1. cur'.next <= last + 1
      BY <2>1, <2>2, <2>5 DEF Dropped
    <3>2. \A m \in cur'.holes : m <= last
      BY <1>1, <2>5, Zenon DEF InStream, Dropped
    <3>3. promised' \in 0..(MaxSeq + 1) /\ blind' = blind /\ scanUnchanged
      BY <1>1, <1>2, Zenon DEF TypeOK
    <3> QED BY <2>5, <3>1, <3>2, <3>3, ScanEnds, Zenon
  <2>7. CASE Dropped(cur')
    <3>1. (IdsKept /\ PinShape /\ BaseShape /\ NothingOwedSkipped)'
      BY <1>2, <2>5, <2>7, SMTT(60) DEF IInv, Dropped, IdsKept, PinShape, BaseShape, NothingOwedSkipped, Forgotten
    <3>2. (HeldNotPassed /\ HolesUnsent /\ NothingHeldBelowBase /\ ResumeShape)'
      BY Zenon, <1>2, <2>5, <2>7 DEF IInv, Dropped, HeldNotPassed, HolesUnsent, NothingHeldBelowBase, ResumeShape
    <3>3. SinceShape'
      <4>1. \A f \in asking.fresh : made[f] \in Nat
        BY <1>1, AskF, SeqsNat DEF TypeOK, sinceUnknown
      <4> QED BY <1>2, <2>7, <4>1, SMTT(60) DEF IInv, Dropped, SinceShape
    <3> QED BY <2>6, <3>1, <3>2, <3>3, Zenon DEF IInv
  <2>8. CASE ~Dropped(cur')
    <3>1. /\ cur'.next = n /\ cur'.pin = cur.pin /\ cur'.base = cur.base
          /\ cur'.holes = cur.holes \cup (S \ delivered)
          /\ cur.next \in Nat /\ cur.base \in Nat /\ cur.next # 0
      BY <1>1, <2>1, <2>5, <2>8, CurF
    <3>2. IdsKept'
      <4>1. \A d \in Forgotten : d \in Nat /\ d < cur.next
        BY <1>1, <3>1, VarF, Zenon DEF IInv, IdsKept, Forgotten
      <4>2. \A d \in Forgotten : d < n
        BY <2>2, <3>1, <4>1
      <4> QED BY Zenon, <1>2, <2>5, <3>1, <4>2 DEF IInv, IdsKept, Forgotten
    <3>3. (PinShape /\ BaseShape /\ SinceShape)'
      <4>1. PinShape' /\ BaseShape'
        BY <1>2, <2>2, <3>1 DEF IInv, PinShape, BaseShape
      <4>2. SinceShape'
        BY Zenon, <1>2, <2>1 DEF IInv, SinceShape, sinceKnown
      <4> QED BY <4>1, <4>2, Zenon
    <3>4. HolesUnsent'
      <4>1. \A m \in S : m \notin Forgotten
        BY <1>1, <2>1, <3>1, ScanF, VarF DEF IInv, IdsKept, Forgotten
      <4> QED BY <1>2, <3>1, <4>1, Zenon DEF IInv, HolesUnsent, Forgotten
    <3>5. HeldNotPassed'
      BY Zenon, <1>2, <2>2, <3>1 DEF IInv, HeldNotPassed
    <3>6. NothingHeldBelowBase'
      BY Zenon, <1>2, <3>1 DEF IInv, NothingHeldBelowBase
    <3>7. ResumeShape'
      <4>1. loop.next <= cur.next => loop.next <= n
        BY <1>1, <2>2, <3>1, LoopF
      <4>2. \A h \in Held : h <= cur.next => h <= n
        BY <1>1, <2>2, <3>1, FloorF
      <4>3. (\E h \in Held : h <= cur.next) => \E h \in Held' : h <= n
        BY <1>2, <4>2, Zenon DEF Held
      <4> QED BY Zenon, <1>2, <2>5, <3>1, <4>1, <4>3 DEF IInv, ResumeShape
    <3>8. NothingOwedSkipped'
      <4> SUFFICES ASSUME NEW m \in 1..last, promised <= m, m < n, Owed(m), m \notin blind
                   PROVE  m \in sent \cup cur'.holes
        BY <1>2, <3>1, Zenon DEF NothingOwedSkipped, Owed, owedBy
      <4>1. CASE m < cur.next
        BY <3>1, <4>1, Zenon DEF IInv, NothingOwedSkipped
      <4>2. CASE ~(m < cur.next)
        <5>1. m \in Nat /\ m \in scan.start..scan.to
          BY <1>1, <2>1, <2>2, <3>1, <4>2, VarF
        <5>2. m \in scan.owed
          BY Zenon, <1>2, <2>1, <5>1 DEF IInv, ScanClassifies, Owed, owedBy
        <5>3. m \in sent \/ m \notin delivered
          BY <1>1, VarF, Zenon
        <5> QED BY <3>1, <5>2, <5>3, Zenon
      <4> QED BY <4>1, <4>2, Zenon
    <3> QED BY <2>6, <3>2, <3>3, <3>4, <3>5, <3>6, <3>7, <3>8, SMTT(60) DEF IInv
  <2> QED BY <2>7, <2>8, Zenon
<1> QED BY Zenon, <1>2, <1>3, <1>4

\* restartCursorLocked (cursor.go:586): a new cursor, only when the connection
\* holds nothing below where the scan began.
LEMMA applyRestart_Inv == IInv /\ applyRestart => IInv'
<1> SUFFICES ASSUME IInv, applyRestart PROVE IInv'
  BY Zenon
<1> DEFINE n == belowFloor(scan.to)
           holes == {m \in scan.owed : m < n} \ delivered
           count == capAbove(countAboveLocked(n))
           c == [setCursorLocked(cur, n) EXCEPT !.base = scan.base, !.holes = holes, !.above = count]
<1>1. TypeOK /\ InStream
  BY Zenon DEF IInv
<1>2. /\ scan.at = "read" /\ scan.restart /\ scanUnchanged /\ blind' = blind
      /\ \/ restartAllowed /\ scanAgain(c, FALSE) /\ promised' = scan.base
         \/ scanAgain(cur, FALSE) /\ promised' = promised
  BY Zenon DEF applyRestart
<1>3. CASE scanAgain(cur, FALSE) /\ promised' = promised
  <2>1. cur \in curType
    BY <1>1, Zenon DEF TypeOK
  <2> QED BY Zenon, <1>2, <1>3, <2>1, ScanIdle
<1>4. CASE restartAllowed /\ scanAgain(c, FALSE) /\ promised' = scan.base
  <2> USE DEF scanUnchanged, netVars, subVars, queueVars, readVars, connVars, sentVars
  <2>1. /\ scan.same /\ sinceKnown /\ scanFrom = scan.base /\ cur.next = 0 /\ ~cur.changed
        /\ ~resuming /\ (owedFloor = 0 \/ owedFloor >= scan.base)
        /\ scan.base \in Nat /\ scan.base # 0 /\ scan.base <= scan.to + 1 /\ scan.to \in Nat
        /\ scan.to <= last /\ last \in Nat /\ last <= MaxSeq /\ scan.base \in 0..(MaxSeq + 1)
        /\ \A m \in scan.owed : m >= scan.base
    <3>1. /\ scan.same /\ sinceKnown /\ scanFrom = scan.base /\ cur.next = 0 /\ ~cur.changed
          /\ ~resuming /\ (owedFloor = 0 \/ owedFloor >= scan.base)
      BY <1>2, <1>4, Zenon DEF scanFrom, restartAllowed
    <3>2. scan.base \in 1..(scan.to + 1) /\ \A m \in scan.owed : m >= scan.base
      BY <1>2, <3>1, Zenon DEF IInv, ScanShape
    <3>3. scan.base \in 0..(MaxSeq + 1)
      BY <1>1, Zenon DEF TypeOK, scanType
    <3>4. scan.to <= last /\ last \in 0..MaxSeq
      BY Zenon, <1>1 DEF InStream, TypeOK
    <3>5. scan.to \in Nat /\ scan.base \in Nat
      BY Zenon, <1>1, ScanF
    <3>6. scan.base # 0 /\ scan.base <= scan.to + 1 /\ last \in Nat /\ last <= MaxSeq
      BY <3>2, <3>4, <3>5, SeqsNat
    <3> QED BY Zenon, <3>1, <3>2, <3>3, <3>4, <3>5, <3>6
  <2>2. /\ n \in Nat /\ n # 0 /\ n <= scan.to + 1 /\ n \in 0..(MaxSeq + 1) /\ n <= last + 1
        /\ scan.base <= n
        /\ n = scan.to + 1 \/ (owedFloor # 0 /\ n = owedFloor)
        /\ \A m \in (pending \cup {inHand, fromSeq}) \ {0} : n <= m
    <3>1. /\ n \in Nat /\ n # 0 /\ n <= scan.to + 1
          /\ n = scan.to + 1 \/ (owedFloor # 0 /\ n = owedFloor)
          /\ \A m \in (pending \cup {inHand, fromSeq}) \ {0} : n <= m
      BY <1>1, <2>1, BelowFloorF, Zenon
    <3> HIDE DEF n
    <3> QED BY <2>1, <3>1, SeqsNat, SMTT(60)
  <2>3. count \in 0..CursorScanAfter
    BY <1>1, CountF, Zenon
  <2> HIDE DEF n, count
  <2>4. holes \in SUBSET Seqs
    BY <1>1, ScanF, Zenon
  <2> HIDE DEF holes
  <2>5. c \in curType /\ c.next = n /\ c.holes = holes /\ c.pin = 0 /\ c.base = scan.base
    <3> DEFINE z == setCursorLocked(cur, n)
    <3>1. cur.asked \in BOOLEAN /\ 0 \in 0..(MaxSeq + 1) /\ 0 \in 0..CursorScanAfter
      BY <1>1, SeqsNat, BoundsAssumption, SMTT(60) DEF TypeOK, curType
    <3>2. z \in curType /\ z.next = n /\ z.pin = 0
      BY <2>2, <3>1 DEF setCursorLocked, curType
    <3> HIDE DEF z
    <3>3. c = [z EXCEPT !.base = scan.base, !.holes = holes, !.above = count]
      BY Zenon DEF z
    <3> QED BY Zenon, <2>1, <2>3, <2>4, <3>2, <3>3 DEF curType
  <2> HIDE DEF c
  <2>6. /\ cur' \in curType /\ cur'.next = n /\ cur'.holes = holes
        /\ cur'.pin = 0 /\ cur'.base = scan.base
        /\ scan' \in scanType /\ scan'.at \in {"off", "due"}
        /\ scan'.start = 0 /\ scan'.to = 0 /\ scan'.owed = {}
    BY Zenon, <1>1, <1>4, <2>5, ScanAgainF
  <2>7. /\ (TypeOK /\ InStream /\ ForgottenIsOld /\ ReadsRecognise /\ ScanShape)'
        /\ (ScanClassifies /\ ReplayClassifies /\ CopiesShape)'
    <3>1. \A m \in holes : m <= last
      BY <1>1, Zenon DEF InStream, holes
    <3>2. promised' \in 0..(MaxSeq + 1) /\ blind' = blind /\ scanUnchanged
      BY Zenon, <1>2, <1>4, <2>1
    <3> QED BY <2>2, <2>6, <3>1, <3>2, ScanEnds, Zenon
  <2>8. IdsKept'
    <3>1. \A d \in Forgotten : d \in Nat /\ d < scan.base
      BY Zenon, <1>1, <1>2, VarF DEF IInv, IdsKept, Forgotten
    <3>2. \A d \in Forgotten : d < n
      BY <2>1, <2>2, <3>1
    <3> QED BY Zenon, <1>2, <2>6, <3>2 DEF IInv, IdsKept, Forgotten
  <2>9. (PinShape /\ BaseShape /\ SinceShape)'
    <3>1. PinShape' /\ BaseShape'
      BY <2>2, <2>6, Zenon DEF PinShape, BaseShape
    <3>2. SinceShape'
      BY Zenon, <1>2, <2>1 DEF IInv, SinceShape, sinceKnown
    <3> QED BY <3>1, <3>2, Zenon
  <2>10. HolesUnsent'
    <3>1. \A m \in holes : m \notin Forgotten
      <4>1. \A d \in Forgotten : d \in Nat /\ d < scan.base
        BY Zenon, <1>1, <1>2, VarF DEF IInv, IdsKept, Forgotten
      <4>2. \A m \in holes : m \in Nat /\ m >= scan.base
        BY Zenon, <1>1, <2>1, ScanF DEF holes
      <4> QED BY <2>1, <4>1, <4>2
    <3> QED BY <1>2, <2>6, <3>1, Zenon DEF HolesUnsent, Forgotten, holes
  <2>11. (HeldNotPassed /\ NothingHeldBelowBase)'
    <3>1. \A m \in (pending \cup {inHand, fromSeq}) \ {0} : m \in Nat /\ m >= n /\ m >= scan.base
      BY <1>1, <2>1, <2>2, VarF
    <3> QED BY <1>2, <2>6, <3>1, Zenon DEF HeldNotPassed, NothingHeldBelowBase
  <2>12. ResumeShape'
    <3>1. loop.at \in {"holes", "filters", "seq", "replayed"} /\ loop.ok =>
             loop.at = "replayed" /\ loop.next <= scan.to + 1
      BY Zenon, <1>2, <2>1 DEF IInv, ResumeShape, resuming
    <3>2. owedFloor # 0 => owedFloor \in Held
      BY <1>1, FloorF, Zenon
    <3>3. n <= n
      BY <2>2
    <3>4. n = owedFloor /\ owedFloor # 0 => \E h \in Held' : h <= n
      BY <1>2, <3>2, <3>3, Zenon DEF Held
    <3> QED BY Zenon, <1>2, <2>2, <2>6, <3>1, <3>4 DEF IInv, ResumeShape
  <2>13. NothingOwedSkipped'
    <3> SUFFICES ASSUME NEW m \in 1..last, scan.base <= m, m < n, Owed(m), m \notin blind
                 PROVE  m \in sent \cup holes
      BY Zenon, <1>2, <1>4, <2>6 DEF NothingOwedSkipped, Owed, owedBy
    <3>1. m \in Nat /\ m \in scan.base..scan.to
      BY <2>1, <2>2
    <3>2. m \in scan.owed
      BY Zenon, <1>2, <2>1, <3>1 DEF IInv, ScanClassifies, Owed, owedBy
    <3>3. m \in sent \/ m \notin delivered
      BY <1>1, VarF, Zenon
    <3> QED BY <3>2, <3>3, Zenon DEF holes
  <2> QED BY <2>7, <2>8, <2>9, <2>10, <2>11, <2>12, <2>13, Zenon DEF IInv
<1> QED BY Zenon, <1>2, <1>3, <1>4

-----------------------------------------------------------------------------
(* The theorems.                                                           *)

\* A session just created satisfies the invariant.
LEMMA Init_Inv == Init => IInv
<1> SUFFICES ASSUME Init PROVE IInv
  BY Zenon
<1>1. /\ topic \in [Seqs -> Filters] /\ last = 0 /\ transit = {} /\ noting = {}
      /\ subs = {} /\ since = [f \in Filters |-> sinceUnknown] /\ made = [f \in Filters |-> sinceUnknown]
      /\ asking = NoAsk /\ requests = 0 /\ phase = "attached" /\ conns = 1
      /\ pending = {} /\ unwanted = {} /\ inHand = 0 /\ fromSeq = 0 /\ behind = FALSE /\ catchup = FALSE
      /\ streamNext = 0 /\ replayed = {} /\ replayedBefore = {} /\ loop = Idle
      /\ delivered = {} /\ sent = {} /\ cur = NoCursor /\ scan = NoScan /\ promised = 0 /\ blind = {}
  BY Zenon DEF Init
<1>2. /\ 0 \in 0..(MaxSeq + 1) /\ 0 \in 0..MaxSeq /\ 0 \in 0..MaxRequests /\ 1 \in 1..MaxConns
      /\ 0 \in 0..MaxConns /\ 0 \in 0..CursorScanAfter /\ sinceUnknown \in 0..sinceUnknown
  BY SeqsNat, BoundsAssumption DEF sinceUnknown
<1>3. asking \in askType /\ asking.at = "none" /\ asking.to = 0
  BY Zenon, <1>1, <1>2 DEF NoAsk, askType
<1>4. /\ cur \in curType /\ cur.next = 0 /\ cur.holes = {} /\ cur.pin = 0 /\ cur.base = 0
  BY <1>1, <1>2, Zenon DEF NoCursor, curType
<1>5. scan \in scanType /\ scan.at = "off" /\ scan.start = 0 /\ scan.to = 0 /\ scan.owed = {}
  BY <1>1, <1>2, Zenon DEF NoScan, scanType
<1>6. TypeOK
  BY Zenon, <1>1, <1>2, <1>3, <1>4, <1>5, IdleF DEF TypeOK
<1>7. InStream
  BY <1>1, <1>3, <1>4, <1>5, IdleF, SMTT(60) DEF InStream
<1>8. ForgottenIsOld /\ IdsKept /\ PinShape /\ BaseShape /\ ReadsRecognise
  BY <1>1, <1>4, IdleF, SMTT(60) DEF ForgottenIsOld, IdsKept, PinShape, BaseShape, ReadsRecognise, Forgotten,
     Recognised, resuming
<1>9. SinceShape /\ ScanShape /\ ScanClassifies
  BY <1>1, <1>3, <1>5, Zenon DEF SinceShape, ScanShape, ScanClassifies
<1>10. ReplayClassifies /\ ResumeShape /\ CopiesShape
  BY Zenon, <1>1, <1>3, <1>4, <1>5, IdleF DEF ReplayClassifies, ResumeShape, CopiesShape, WantedCopies
<1>11. NothingOwedSkipped /\ HeldNotPassed /\ HolesUnsent /\ NothingHeldBelowBase
  BY Zenon, <1>1, <1>4 DEF NothingOwedSkipped, HeldNotPassed, HolesUnsent, NothingHeldBelowBase
<1> QED BY <1>6, <1>7, <1>8, <1>9, <1>10, <1>11, Zenon DEF IInv

\* A step that changes nothing keeps the invariant.
LEMMA Stutter_Inv == IInv /\ UNCHANGED vars => IInv'
<1> SUFFICES ASSUME IInv, UNCHANGED vars PROVE IInv'
  BY Zenon
<1> USE DEF vars, netVars, subVars, queueVars, readVars, connVars, sentVars, curVars
<1>1. TypeOK' /\ InStream'
  BY Zenon DEF IInv, TypeOK, InStream
<1>2. (ForgottenIsOld /\ IdsKept /\ PinShape /\ BaseShape /\ ReadsRecognise)'
  BY Zenon DEF IInv, ForgottenIsOld, IdsKept, PinShape, BaseShape, ReadsRecognise, Forgotten, Copies,
         Recognised, resuming
<1>3. (SinceShape /\ ScanShape /\ ScanClassifies)'
  BY Zenon DEF IInv, SinceShape, ScanShape, ScanClassifies, scanFrom
<1>4. (ReplayClassifies /\ ResumeShape /\ CopiesShape)'
  <2>1. ReplayClassifies'
    BY Zenon DEF IInv, ReplayClassifies, Wanted
  <2>2. ResumeShape'
    BY Zenon DEF IInv, ResumeShape, Held
  <2>3. CopiesShape'
    BY Zenon DEF IInv, CopiesShape, WantedCopies
  <2> QED BY <2>1, <2>2, <2>3, Zenon
<1>5. (NothingOwedSkipped /\ HeldNotPassed /\ HolesUnsent /\ NothingHeldBelowBase)'
  BY Zenon DEF IInv, NothingOwedSkipped, HeldNotPassed, HolesUnsent, NothingHeldBelowBase, Owed, owedBy
<1> QED BY <1>1, <1>2, <1>3, <1>4, <1>5, Zenon DEF IInv

\* Every step of the broker keeps the invariant: one case per action.
LEMMA Next_Inv == IInv /\ [Next]_vars => IInv'
<1> SUFFICES ASSUME IInv, [Next]_vars PROVE IInv'
  BY Zenon
<1>1. CASE Publish
  BY <1>1, Publish_Inv, Zenon
<1>2. CASE \E m \in Seqs : ArriveLive(m) \/ ArriveLate(m) \/ noteLiveCopy(m)
  BY <1>2, ArriveLive_Inv, ArriveLate_Inv, noteLiveCopy_Inv, Zenon
<1>3. CASE \E f \in Filters : Subscribe(f) \/ Unsubscribe(f)
  BY <1>3, Subscribe_Inv, Unsubscribe_Inv, Zenon
<1>4. CASE ReadSince \/ setSince
  BY <1>4, ReadSince_Inv, setSince_Inv, Zenon
<1>5. CASE \E m \in Seqs : TakeDelivery(m) \/ CatchUpStep(m) \/ ReplayStep(m)
  BY <1>5, TakeDelivery_Inv, ReadSteps_Inv, Zenon
<1>6. CASE Deliver \/ CatchUp \/ CatchUpRound \/ CatchUpRoundDone
  BY <1>6, Deliver_Inv, CatchUp_Inv, CatchUpRound_Inv, Zenon
<1>7. CASE Close \/ Detach \/ Attach
  BY <1>7, Close_Inv, Detach_Inv, Attach_Inv, Zenon
<1>8. CASE ReplayFromCursor
  BY <1>8, ReplayFromCursor_Inv, Zenon
<1>9. CASE \E start \in 1..(MaxSeq + 1), byTime \in BOOLEAN : ReplayFromRewind(start, byTime)
  BY <1>9, ReplayFromRewind_Inv, Zenon
<1>10. CASE ReplayHolesDone \/ ReplayRead \/ ReplayRetry \/ ReplayFails \/ ReplayComplete
            \/ replayedTo
  BY <1>10, ReplayHolesDone_Inv, ReplayRead_Inv, ReplayRetry_Inv, ReplayFails_Inv,
     ReplayComplete_Inv, replayedTo_Inv, Zenon
<1>11. CASE ScanBegin \/ ScanFails \/ applyScan \/ applyRestart
  BY <1>11, ScanBegin_Inv, ScanFails_Inv, applyScan_Inv, applyRestart_Inv, Zenon
<1>12. CASE \E from \in 1..(MaxSeq + 1) : ScanRead(from)
  BY <1>12, ScanRead_Inv, Zenon
<1>13. CASE UNCHANGED vars
  BY <1>13, Stutter_Inv, Zenon
<1> QED BY <1>1, <1>2, <1>3, <1>4, <1>5, <1>6, <1>7, <1>8, <1>9, <1>10, <1>11, <1>12, <1>13, Zenon
        DEF Next

\* IInv is an invariant of the session, whatever the bounds.
THEOREM Invariance == Spec => []IInv
<1>1. Init => IInv
  BY Init_Inv, Zenon
<1>2. IInv /\ [Next]_vars => IInv'
  BY Next_Inv, Zenon
<1> QED BY <1>1, <1>2, PTL DEF Spec

\* The variables keep their types.
THEOREM TypeCorrect == Spec => []TypeOK
<1>1. IInv => TypeOK
  BY Zenon DEF IInv
<1> QED BY <1>1, Invariance, PTL

\* No scan, replay, SUBSCRIBE or late copy moves the cursor past a message the
\* session is owed that was neither sent nor recorded as a hole (cursor.go:29),
\* unless the read that passed it could not classify it.
THEOREM CursorSkipsNothing == Spec => []NothingOwedSkipped
<1>1. IInv => NothingOwedSkipped
  BY Zenon DEF IInv
<1> QED BY <1>1, Invariance, PTL

\* The cursor never passes a live copy waiting in the connection (cursor.go:46),
\* a hole is never a message that was sent, and a restarted cursor stands only
\* while the connection holds nothing below its base (cursor.go:71).
THEOREM CursorHeld == Spec => [](HeldNotPassed /\ HolesUnsent /\ NothingHeldBelowBase)
<1>1. IInv => HeldNotPassed /\ HolesUnsent /\ NothingHeldBelowBase
  BY Zenon DEF IInv
<1> QED BY <1>1, Invariance, PTL

\* A resume that read to the stream's end has sent every hole it began with and
\* everything owed from the cursor on that it could classify (offline.go:797).
THEOREM ResumeComplete == Spec => []ResumeLosesNothing
<1>1. IInv => ResumeLosesNothing
  BY Zenon DEF IInv, ReplayClassifies, ResumeLosesNothing, Owed, Wanted, owedBy
<1> QED BY <1>1, Invariance, PTL

\* Only a stream read adds to replayed, and never what the client was sent.
LEMMA ReadIsNew ==
    ASSUME IInv, NEW m \in Seqs, CatchUpStep(m) \/ ReplayStep(m)
    PROVE  (replayed' \ replayed) \cap sent = {}
<1>1. /\ m = lowestSeq(loop.todo) /\ m # 0 /\ loop.at \in {"catchup", "holes", "seq"}
      /\ replayed' = replayed \/ (m \notin Recognised /\ replayed' = replayed \cup {m})
  BY Zenon DEF CatchUpStep, ReplayStep, sendRead, wasReplayed, Recognised
<1>2. loop.todo \subseteq Nat
  BY LoopF, Zenon DEF IInv
<1>3. m \in loop.todo
  BY <1>1, <1>2, Lowest, Zenon
<1>4. m \in sent => m \in Recognised
  BY <1>1, <1>3, Zenon DEF IInv, ReadsRecognise, resuming
<1> QED BY <1>1, <1>4, Zenon

\* A stream read, catching up or resuming, never sends a message the client was
\* sent: every id it could meet is kept until it has passed (cursor.go:32).
THEOREM ReadsNeverRepeat == Spec => ReadNeverRepeats
<1> USE DEF netVars, subVars, queueVars, readVars, connVars, sentVars, curVars
<1>1. IInv /\ [Next]_vars => [(replayed' \ replayed) \cap sent = {}]_vars
  <2> SUFFICES ASSUME IInv, Next PROVE (replayed' \ replayed) \cap sent = {}
    BY Zenon DEF vars
  <2>1. CASE \E m \in Seqs : CatchUpStep(m) \/ ReplayStep(m)
    BY <2>1, ReadIsNew, Zenon
  <2>2. CASE CatchUp \/ Detach
    BY <2>2, Zenon DEF CatchUp, Detach
  <2>3. CASE \E m \in Seqs : ArriveLive(m) \/ ArriveLate(m) \/ noteLiveCopy(m) \/ TakeDelivery(m)
    BY <2>3, Zenon DEF ArriveLive, ArriveLate, noteLiveCopy, TakeDelivery
  <2>4. CASE Publish \/ \E f \in Filters : Subscribe(f) \/ Unsubscribe(f)
    BY <2>4, Zenon DEF Publish, Subscribe, Unsubscribe
  <2>5. CASE ReadSince \/ setSince \/ Deliver \/ CatchUpRound \/ CatchUpRoundDone
    BY <2>5, Zenon DEF ReadSince, setSince, Deliver, CatchUpRound, CatchUpRoundDone
  <2>6. CASE Close \/ Attach \/ ReplayFromCursor
    BY <2>6, Zenon DEF Close, Attach, ReplayFromCursor
  <2>7. CASE \E start \in 1..(MaxSeq + 1), byTime \in BOOLEAN : ReplayFromRewind(start, byTime)
    BY <2>7, Zenon DEF ReplayFromRewind
  <2>8. CASE ReplayHolesDone \/ ReplayRead \/ ReplayRetry \/ ReplayFails \/ ReplayComplete
             \/ replayedTo
    BY <2>8, Zenon DEF ReplayHolesDone, ReplayRead, ReplayRetry, ReplayFails, ReplayComplete,
       replayedTo
  <2>9. CASE ScanBegin \/ ScanFails \/ applyScan \/ applyRestart
             \/ \E from \in 1..(MaxSeq + 1) : ScanRead(from)
    BY <2>9, Zenon DEF ScanBegin, ScanFails, applyScan, applyRestart, ScanRead, scanUnchanged
  <2> QED BY <2>1, <2>2, <2>3, <2>4, <2>5, <2>6, <2>7, <2>8, <2>9, Zenon DEF Next
<1> QED BY <1>1, Invariance, PTL DEF Spec, ReadNeverRepeats

\* A scan moves the cursor only from where it stood, and never below it.
LEMMA ScanForward ==
    ASSUME IInv, applyScan, cur.next # 0, cur'.next # 0
    PROVE  cur'.next >= cur.next
<1> DEFINE floor == owedFloor
           n == IF floor # 0 /\ floor < scan.to + 1 THEN Larger(floor, scan.start) ELSE scan.to + 1
           S == {m \in scan.owed : m < n}
           c == addHolesLocked(cur, S)
           z == [c EXCEPT !.next = n, !.above = capAbove(countAboveLocked(n))]
<1>1. TypeOK /\ cur \in curType /\ cur.next \in Nat
  BY Zenon, CurF DEF IInv, TypeOK
<1>2. /\ scan.at = "read" /\ ~scan.restart
      /\ \/ scanAgain(cur, FALSE) \/ scanAgain(cur, TRUE)
         \/ c.next = 0 /\ scanAgain(c, FALSE)
         \/ cur.next = scan.start /\ scanAgain(z, n > cur.next)
  BY Zenon DEF applyScan, applyScanLocked
<1>3. n \in Nat /\ (cur.next = scan.start => n >= cur.next)
  <2>1. scan.start \in 1..(scan.to + 1)
    BY <1>2, Zenon DEF IInv, ScanShape, scanFrom
  <2>2. floor \in Nat /\ scan.to \in Nat /\ scan.start \in Nat
    BY <1>1, FloorF, ScanF, Zenon
  <2> HIDE DEF floor
  <2> QED BY <2>1, <2>2 DEF Larger
<1> HIDE DEF n
<1>4. c \in curType
  <2>1. S \in SUBSET Seqs
    BY <1>1, ScanF, Zenon
  <2> HIDE DEF S
  <2> QED BY Zenon, <1>1, <2>1, AddHolesF
<1> HIDE DEF c
<1>5. scanAgain(z, n > cur.next) => cur'.next = n
  <2>1. cur' = [z EXCEPT !.asked = FALSE, !.changed = FALSE] \/ ~scanAgain(z, n > cur.next)
    BY Zenon DEF scanAgain
  <2>2. [z EXCEPT !.asked = FALSE, !.changed = FALSE].next = n
    BY <1>4, Zenon DEF curType
  <2> QED BY Zenon, <2>1, <2>2
<1>6. scanAgain(cur, FALSE) \/ scanAgain(cur, TRUE) => cur'.next = cur.next
  BY Zenon, <1>1, ScanAgainF
<1>7. c.next = 0 /\ scanAgain(c, FALSE) => cur'.next = 0
  BY Zenon, <1>1, <1>4, ScanAgainF
<1> HIDE DEF z
<1>8. cur'.next = cur.next \/ (cur'.next = n /\ cur.next = scan.start)
  BY <1>2, <1>5, <1>6, <1>7, Zenon
<1> QED BY <1>1, <1>3, <1>8, SMTT(60)

\* "next only moves forward" (cursor.go:40): a scan, a replay, a SUBSCRIBE, a late
\* copy or a restart never sets a cursor below the one that stands.
THEOREM CursorMovesForward == Spec => NextMovesForward
<1> DEFINE Forward == cur.next # 0 /\ cur'.next # 0 => cur'.next >= cur.next
<1> USE DEF netVars, subVars, queueVars, readVars, connVars, sentVars, curVars
<1>1. IInv /\ [Next]_vars => [Forward]_vars
  <2> SUFFICES ASSUME IInv, Next, cur.next # 0, cur'.next # 0 PROVE cur'.next >= cur.next
    BY Zenon DEF vars
  <2>1. TypeOK /\ cur \in curType /\ cur.next \in Nat
    BY Zenon, CurF DEF IInv, TypeOK
  <2>2. cur'.next = cur.next => cur'.next >= cur.next
    BY <2>1
  <2>3. CASE cur' = cur
    BY <2>2, <2>3, Zenon
  <2>4. CASE \E m \in Seqs : noteDelivered(m)
    BY Zenon, <2>1, <2>2, <2>4, NoteDeliveredF DEF Dropped
  <2>5. CASE \E m \in Seqs : cur' = noteBelow(cur, m)
    BY <2>1, <2>2, <2>5, NoteBelowF, Zenon DEF Dropped
  <2>6. CASE \E m \in Seqs : ArriveLive(m) \/ ArriveLate(m) \/ noteLiveCopy(m) \/ TakeDelivery(m)
    <3>1. \/ cur' = cur \/ \E m \in Seqs : cur' = noteBelow(cur, m)
      BY <2>6, Zenon DEF ArriveLive, ArriveLate, noteLiveCopy, TakeDelivery
    <3> QED BY <3>1, <2>3, <2>5, Zenon
  <2>7. CASE \E m \in Seqs : CatchUpStep(m) \/ ReplayStep(m)
    <3>1. \/ cur' = cur \/ \E m \in Seqs : noteDelivered(m)
      BY <2>7, Zenon DEF CatchUpStep, ReplayStep, sendRead
    <3> QED BY <3>1, <2>3, <2>4, Zenon
  <2>8. CASE Deliver
    <3>1. inHand \in Seqs
      <4>1. loop.at = "hand" /\ inHand # 0 /\ inHand \in 0..MaxSeq
        BY Zenon, <2>1, <2>8 DEF Deliver, IInv, CopiesShape, TypeOK
      <4> QED BY <4>1, SeqsNat, SMTT(60) DEF Seqs
    <3>2. cur' = cur \/ noteDelivered(inHand)
      BY <2>8, Zenon DEF Deliver
    <3> QED BY <3>1, <3>2, <2>3, <2>4, Zenon
  <2>9. CASE \/ Publish \/ ReadSince \/ CatchUp \/ CatchUpRound \/ CatchUpRoundDone \/ Close \/ Attach
             \/ ReplayFromCursor \/ ReplayHolesDone \/ ReplayRead \/ ReplayRetry \/ ReplayComplete
             \/ \E f \in Filters : Subscribe(f) \/ Unsubscribe(f)
             \/ \E from \in 1..(MaxSeq + 1) : ScanRead(from)
    <3>1. cur' = cur
      BY <2>9, Zenon DEF Publish, ReadSince, CatchUp, CatchUpRound, CatchUpRoundDone, Close, Attach,
         ReplayFromCursor, ReplayHolesDone, ReplayRead, ReplayRetry, ReplayComplete, Subscribe,
         Unsubscribe, ScanRead
    <3> QED BY <3>1, <2>3, Zenon
  <2>10. CASE setSince
    <3>1. cur' = cur
      BY Zenon, <2>10 DEF setSince
    <3> QED BY <3>1, <2>3, Zenon
  <2>11. CASE \/ Detach \/ ReplayFails
              \/ \E start \in 1..(MaxSeq + 1), byTime \in BOOLEAN : ReplayFromRewind(start, byTime)
    <3>1. cur' = cur \/ \E p : cur' = [cur EXCEPT !.pin = p]
      BY Zenon, <2>11 DEF Detach, ReplayFails, ReplayFromRewind
    <3>2. cur'.next = cur.next
      BY <2>1, <3>1, Zenon DEF curType
    <3> QED BY <3>2, <2>2, Zenon
  <2>12. CASE ScanBegin \/ ScanFails
    <3>1. cur' = cur \/ scanAgain(cur, FALSE)
      BY Zenon, <2>12 DEF ScanBegin, ScanFails
    <3>2. cur'.next = cur.next
      BY Zenon, <2>1, <3>1, ScanAgainF
    <3> QED BY <3>2, <2>2, Zenon
  <2>13. CASE applyScan
    BY <2>13, ScanForward, Zenon
  <2>14. CASE applyRestart
    <3>1. scanAgain(cur, FALSE)
      BY <2>14, Zenon DEF applyRestart, restartAllowed
    <3>2. cur'.next = cur.next
      BY Zenon, <2>1, <3>1, ScanAgainF
    <3> QED BY <3>2, <2>2, Zenon
  <2>15. CASE replayedTo
    <3> DEFINE n == belowFloor(loop.to)
               c == [cur EXCEPT !.pin = 0]
               settled == [c EXCEPT !.holes = @ \ loop.had]
    <3>1. \/ cur' = c \/ cur' = settled
          \/ ~(n <= cur.next) /\ \E a : cur' = [settled EXCEPT !.next = n, !.above = a]
      BY <2>15, Zenon DEF replayedTo
    <3>2. n \in Nat
      BY <2>1, LoopF, BelowFloorF, Zenon
    <3> HIDE DEF n
    <3>3. c.next = cur.next /\ settled.next = cur.next
          /\ \A a : [settled EXCEPT !.next = n, !.above = a].next = n
      BY <2>1, Zenon DEF curType
    <3> HIDE DEF c, settled
    <3>4. cur'.next = cur.next \/ (~(n <= cur.next) /\ cur'.next = n)
      BY Zenon, <3>1, <3>3
    <3> QED BY <2>1, <3>2, <3>4
  <2> QED BY <2>6, <2>7, <2>8, <2>9, <2>10, <2>11, <2>12, <2>13, <2>14, <2>15, Zenon DEF Next
<1> QED BY <1>1, Invariance, PTL DEF Spec, NextMovesForward
=============================================================================

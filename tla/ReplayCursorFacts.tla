------------------------- MODULE ReplayCursorFacts --------------------------
(***************************************************************************)
(* Facts about ReplayCursor that the proofs of its actions share (the types*)
(* of its fields, its helpers, the two steps several actions take), and    *)
(* that the actions of publishers, live copies, SUBSCRIBE, UNSUBSCRIBE and *)
(* live delivery preserve IInv.                                            *)
(***************************************************************************)
EXTENDS ReplayCursorInv, TLAPS, WellFoundedInduction

-----------------------------------------------------------------------------
(* The helpers.                                                            *)

\* A nonempty set of naturals has a minimum, and Min is it.
LEMMA MinNat ==
    ASSUME NEW S, S \subseteq Nat, S # {}
    PROVE  Min(S) \in S /\ \A y \in S : Min(S) <= y
<1>1. PICK x \in S : \A y \in S : ~ (<<y, x>> \in OpToRel(<, Nat))
  BY Zenon, NatLessThanWellFounded, WFMin
<1>2. \A y \in S : x <= y
  <2> SUFFICES ASSUME NEW y \in S, ~(x <= y) PROVE FALSE
    BY Zenon
  <2>1. y < x /\ x \in Nat /\ y \in Nat
    OBVIOUS
  <2>2. <<y, x>> \in OpToRel(<, Nat)
    BY <2>1, Zenon DEF OpToRel
  <2> QED BY Zenon, <1>1, <2>2
<1> QED BY Zenon, <1>2 DEF Min

\* lowestSeq is the lowest sequence set, 0 only when none is (session.go:1222).
LEMMA Lowest ==
    ASSUME NEW S, S \subseteq Nat
    PROVE  /\ lowestSeq(S) \in Nat
           /\ lowestSeq(S) # 0 => lowestSeq(S) \in S
           /\ lowestSeq(S) = 0 <=> S \ {0} = {}
           /\ \A y \in S \ {0} : lowestSeq(S) <= y
<1>1. CASE S \ {0} = {}
  BY <1>1, Zenon DEF lowestSeq
<1>2. CASE S \ {0} # {}
  <2>1. Min(S \ {0}) \in S \ {0} /\ \A y \in S \ {0} : Min(S \ {0}) <= y
    BY Zenon, <1>2, MinNat
  <2> QED BY Zenon, <1>2, <2>1 DEF lowestSeq
<1> QED BY <1>1, <1>2, Zenon

\* Sequences are positive naturals, 0 being "none".
LEMMA SeqsNat == MaxSeq \in Nat /\ Seqs \subseteq Nat /\ \A m \in Seqs : m # 0 /\ m <= MaxSeq
  BY BoundsAssumption DEF Seqs

\* What the types of the variables and of the records' fields give.
LEMMA VarF ==
    ASSUME TypeOK
    PROVE  /\ last \in Nat /\ inHand \in Nat /\ fromSeq \in Nat /\ streamNext \in Nat
           /\ transit \cup noting \cup pending \cup sent \cup blind \subseteq Nat
           /\ delivered \subseteq sent
  BY SeqsNat DEF TypeOK

\* The types of the SUBSCRIBE being handled.
LEMMA AskF ==
    ASSUME TypeOK
    PROVE  asking.to \in Nat /\ asking.fresh \subseteq Filters
  BY SeqsNat DEF TypeOK, askType

\* The types of the delivery goroutine's position.
LEMMA LoopF ==
    ASSUME TypeOK
    PROVE  /\ loop.next \in Nat /\ loop.start \in Nat /\ loop.to \in Nat
           /\ loop.had \subseteq Seqs /\ loop.todo \subseteq Seqs /\ loop.known \subseteq Seqs
           /\ loop.had \cup loop.todo \cup loop.known \subseteq Nat
<1>1. /\ loop.next \in 0..(MaxSeq + 1) /\ loop.start \in 0..(MaxSeq + 1)
      /\ loop.to \in 0..MaxSeq
  BY Zenon DEF TypeOK, loopType
<1>2. loop.had \subseteq Seqs /\ loop.todo \subseteq Seqs /\ loop.known \subseteq Seqs
  BY Zenon DEF TypeOK, loopType
<1>3. loop.next \in Nat /\ loop.start \in Nat /\ loop.to \in Nat
  BY <1>1, SeqsNat
<1>4. loop.had \cup loop.todo \cup loop.known \subseteq Nat
  BY <1>2, SeqsNat, Zenon
<1> QED BY <1>2, <1>3, <1>4, Zenon

\* The types of the cursor's fields.
LEMMA CurF ==
    ASSUME TypeOK
    PROVE  /\ cur.next \in Nat /\ cur.pin \in Nat /\ cur.base \in Nat
           /\ cur.holes \subseteq Seqs /\ cur.holes \subseteq Nat
<1>1. cur.next \in 0..(MaxSeq + 1) /\ cur.pin \in 0..(MaxSeq + 1) /\ cur.base \in 0..(MaxSeq + 1)
  BY Zenon DEF TypeOK, curType
<1>2. cur.holes \subseteq Seqs
  BY Zenon DEF TypeOK, curType
<1>3. \A n \in 0..(MaxSeq + 1) : n \in Nat
  BY BoundsAssumption
<1>4. cur.next \in Nat /\ cur.pin \in Nat /\ cur.base \in Nat
  BY <1>1, <1>3, Zenon
<1>5. cur.holes \subseteq Nat
  BY <1>2, SeqsNat, Zenon
<1> QED BY <1>2, <1>4, <1>5, Zenon

\* The types of the scan's fields.
LEMMA ScanF ==
    ASSUME TypeOK
    PROVE  /\ scan.start \in Nat /\ scan.to \in Nat /\ scan.base \in Nat
           /\ scan.owed \subseteq Seqs /\ scan.owed \subseteq Nat
           /\ scanFrom \in Nat
<1>1. /\ scan.start \in 0..(MaxSeq + 1) /\ scan.base \in 0..(MaxSeq + 1)
      /\ scan.to \in 0..MaxSeq
  BY Zenon DEF TypeOK, scanType
<1>2. scan.owed \subseteq Seqs
  BY Zenon DEF TypeOK, scanType
<1>3. scan.start \in Nat /\ scan.to \in Nat /\ scan.base \in Nat
  BY <1>1, SeqsNat
<1>4. scan.owed \subseteq Nat
  BY Zenon, <1>2, SeqsNat
<1> QED BY <1>2, <1>3, <1>4, Zenon DEF scanFrom

\* The types of a message's topic and of its subscription's since.
LEMMA SinceF ==
    ASSUME TypeOK
    PROVE  \A m \in Seqs : topic[m] \in Filters /\ since[topic[m]] \in Nat /\ made[topic[m]] \in Nat
<1>1. sinceUnknown \in Nat
  BY SeqsNat DEF sinceUnknown
<1> QED BY <1>1 DEF TypeOK

\* Nothing is owed under a subscription whose interest is not confirmed yet.
LEMMA FreshOwesNothing ==
    ASSUME TypeOK, NEW m \in Seqs
    PROVE  ~(m > sinceUnknown)
  BY SeqsNat DEF sinceUnknown

\* What a resume's read spans, and what the cursor has passed, are sequences.
LEMMA Spans ==
    ASSUME IInv
    PROVE  /\ loop.at \in {"seq", "replayed"} => \A m \in loop.next..loop.to : m \in Seqs
           /\ \A m \in 1..last : m \in Seqs
           /\ scan.at = "read" => \A m \in scanFrom..scan.to : m \in Seqs
<1>1. TypeOK /\ InStream /\ last \in Nat /\ last <= MaxSeq
  BY SeqsNat, SMTT(60) DEF IInv, TypeOK
<1>2. loop.at \in {"seq", "replayed"} => \A m \in loop.next..loop.to : m \in Seqs
  BY <1>1, LoopF, SeqsNat DEF IInv, ReplayClassifies, InStream, Seqs
<1>3. \A m \in 1..last : m \in Seqs
  BY <1>1, SeqsNat, SMTT(60) DEF Seqs
<1>4. scan.at = "read" => \A m \in scanFrom..scan.to : m \in Seqs
  BY <1>1, ScanF, SeqsNat DEF IInv, ScanShape, InStream, Seqs
<1> QED BY <1>2, <1>3, <1>4, Zenon

\* A cursor that dropCursorLocked has dropped.
Dropped(c) == c.next = 0 /\ c.holes = {} /\ c.pin = 0 /\ c.base = 0

\* A scan that runs still sees that the cursor was set under it.
ChangedKept(c) == cur.changed /\ scan.at \in {"begun", "read"} => c.changed

\* addHolesLocked adds the sequences not delivered, none below base, or drops.
LEMMA AddHolesF ==
    ASSUME TypeOK, NEW S \in SUBSET Seqs
    PROVE  LET c == addHolesLocked(cur, S)
           IN  /\ c \in curType /\ ChangedKept(c)
               /\ \/ Dropped(c)
                  \/ /\ c.next = cur.next /\ c.pin = cur.pin /\ c.base = cur.base
                     /\ c.holes = cur.holes \cup (S \ delivered)
                     /\ \A s \in S : ~(s < cur.base)
<1> DEFINE holes == cur.holes \cup (S \ delivered)
           over == (\E s \in S : s < cur.base) \/ Cardinality(holes) > MaxReplayHoles
<1>1. cur \in curType /\ cur.asked \in BOOLEAN
  BY Zenon DEF TypeOK, curType
<1>2. CASE over
  <2>1. addHolesLocked(cur, S) = dropCursorLocked(cur)
    BY <1>2, Zenon DEF addHolesLocked
  <2>2. /\ dropCursorLocked(cur) \in curType /\ Dropped(dropCursorLocked(cur))
        /\ ChangedKept(dropCursorLocked(cur))
    BY <1>1, SeqsNat, BoundsAssumption
       DEF dropCursorLocked, setCursorLocked, curType, Dropped, ChangedKept
  <2> QED BY <2>1, <2>2, Zenon
<1>3. CASE ~over
  <2>1. addHolesLocked(cur, S) = [cur EXCEPT !.holes = holes]
    BY <1>3, Zenon DEF addHolesLocked
  <2>2. holes \in SUBSET Seqs
    BY <1>1, CurF, SMTT(60)
  <2> QED BY <1>1, <1>3, <2>1, <2>2, Zenon DEF curType, ChangedKept
<1> QED BY <1>2, <1>3, Zenon

\* noteBelow adds m when the cursor has passed it and it was not delivered.
LEMMA NoteBelowF ==
    ASSUME TypeOK, NEW m \in Seqs
    PROVE  LET c == noteBelow(cur, m)
           IN  /\ c \in curType /\ ChangedKept(c)
               /\ \/ Dropped(c)
                  \/ /\ c.next = cur.next /\ c.pin = cur.pin /\ c.base = cur.base
                     /\ c.holes \subseteq cur.holes \cup ({m} \ delivered)
                     /\ cur.holes \subseteq c.holes
                     /\ cur.next # 0 /\ m < cur.next =>
                           ~(m < cur.base) /\ m \in c.holes \cup delivered
<1>1. CASE cur.next # 0 /\ m < cur.next
  <2>1. noteBelow(cur, m) = addHolesLocked(cur, {m})
    BY <1>1, Zenon DEF noteBelow
  <2>2. {m} \in SUBSET Seqs
    BY Zenon
  <2> DEFINE c == addHolesLocked(cur, {m})
  <2>3. /\ c \in curType /\ ChangedKept(c)
        /\ \/ Dropped(c)
           \/ /\ c.next = cur.next /\ c.pin = cur.pin /\ c.base = cur.base
              /\ c.holes = cur.holes \cup ({m} \ delivered)
              /\ ~(m < cur.base)
    BY <2>2, AddHolesF, Zenon
  <2> HIDE DEF c
  <2>4. CASE ~Dropped(c)
    <3>1. c.holes = cur.holes \cup ({m} \ delivered)
      BY <2>3, <2>4, Zenon
    <3>2. c.holes \subseteq cur.holes \cup ({m} \ delivered) /\ cur.holes \subseteq c.holes
          /\ m \in c.holes \cup delivered
      BY <3>1, Zenon
    <3> QED BY <2>1, <2>3, <2>4, <3>2, SMTT(60) DEF c
  <2> QED BY <2>1, <2>3, <2>4, SMTT(60) DEF c
<1>2. CASE ~(cur.next # 0 /\ m < cur.next)
  BY <1>2, Zenon DEF noteBelow, TypeOK, ChangedKept
<1> QED BY <1>1, <1>2, SMTT(60)

\* What a copy of m reaching noteLiveCopy or lateCopy does to the cursor.
LEMMA NoteBelowStep ==
    ASSUME IInv, NEW m \in Copies, m \in Seqs, cur' = noteBelow(cur, m),
           UNCHANGED <<topic, last, subVars, queueVars, readVars, connVars, sentVars, scan,
                       promised, blind>>
    PROVE  /\ cur' \in curType /\ cur'.next \in {0, cur.next} /\ ResumeShape'
           /\ cur'.holes \subseteq cur.holes \cup {m}
           /\ (IdsKept /\ PinShape /\ BaseShape /\ SinceShape)'
           /\ (NothingOwedSkipped /\ HolesUnsent)'
           /\ cur'.next # 0 => /\ cur'.base = cur.base /\ cur.holes \subseteq cur'.holes
                               /\ m < cur'.next => ~(m < cur.base) /\ m \in sent \cup cur'.holes
           /\ cur'.next = 0 => cur'.base = 0
<1> USE DEF subVars, queueVars, readVars, connVars, sentVars
<1>1. TypeOK /\ InStream
  BY Zenon DEF IInv
<1>2. /\ cur' \in curType /\ ChangedKept(cur')
      /\ \/ Dropped(cur')
         \/ /\ cur'.next = cur.next /\ cur'.pin = cur.pin /\ cur'.base = cur.base
            /\ cur'.holes \subseteq cur.holes \cup ({m} \ delivered)
            /\ cur.holes \subseteq cur'.holes
            /\ cur.next # 0 /\ m < cur.next => ~(m < cur.base) /\ m \in cur'.holes \cup delivered
  BY <1>1, NoteBelowF, Zenon
<1>3. ResumeShape'
  BY <1>2, Zenon DEF IInv, ResumeShape, ChangedKept, Dropped, Held
<1>4. CASE Dropped(cur')
  <2>1. (IdsKept /\ PinShape /\ BaseShape /\ NothingOwedSkipped /\ HolesUnsent)'
    BY <1>4 DEF IInv, Dropped, IdsKept, PinShape, BaseShape, NothingOwedSkipped, HolesUnsent,
                Forgotten
  <2>2. SinceShape'
    <3>1. \A f \in asking.fresh : made[f] \in Nat
      BY <1>1, AskF, SeqsNat, SMTT(60) DEF TypeOK, sinceUnknown
    <3> QED BY <1>4, <3>1 DEF IInv, Dropped, SinceShape
  <2> QED BY <1>2, <1>3, <1>4, <2>1, <2>2, Zenon DEF Dropped
<1>5. CASE ~Dropped(cur')
  <2>1. /\ cur'.next = cur.next /\ cur'.pin = cur.pin /\ cur'.base = cur.base
        /\ cur'.holes \subseteq cur.holes \cup ({m} \ delivered)
        /\ cur.holes \subseteq cur'.holes
    BY <1>2, <1>5, Zenon
  <2>2. (IdsKept /\ PinShape /\ BaseShape /\ SinceShape)'
    BY <2>1, Zenon DEF IInv, IdsKept, PinShape, BaseShape, SinceShape, Forgotten
  <2>3. NothingOwedSkipped'
    BY <2>1, Zenon DEF IInv, NothingOwedSkipped, Owed, owedBy
  <2>4. HolesUnsent'
    <3>1. m \notin Forgotten
      <4>1. \A d \in Forgotten : d < m
        BY Zenon DEF IInv, ForgottenIsOld
      <4>2. ~(m < m)
        BY SeqsNat
      <4> QED  BY <4>1, <4>2, Zenon
    <3> QED BY Zenon, <2>1, <3>1 DEF IInv, HolesUnsent, Forgotten
  <2>5. cur.next = 0 => cur'.base = 0
    BY <1>1, <2>1, CurF DEF IInv, BaseShape
  <2> QED BY <1>1, <1>2, <1>3, <1>5, <2>1, <2>2, <2>3, <2>4, <2>5, VarF, Zenon
<1> QED BY <1>4, <1>5, Zenon

\* owedFloor is 0 only when the connection holds nothing, and at or below what it
\* holds (cursor.go:267).
LEMMA FloorF ==
    ASSUME TypeOK
    PROVE  /\ owedFloor \in Nat
           /\ owedFloor # 0 => owedFloor \in Held
           /\ owedFloor = 0 => pending = {} /\ inHand = 0 /\ fromSeq = 0
           /\ owedFloor # 0 => \A m \in (pending \cup {inHand, fromSeq}) \ {0} : owedFloor <= m
           /\ Held \subseteq Nat /\ \A m \in Held : m # 0
<1>1. Held \subseteq Nat /\ Held \ {0} = Held /\ (pending \cup {inHand, fromSeq}) \ {0} \subseteq Held
  BY VarF, Zenon DEF Held
<1>2. 0 \notin pending
  BY SeqsNat, Zenon DEF TypeOK
<1>3. /\ owedFloor \in Nat
      /\ owedFloor # 0 => owedFloor \in Held
      /\ owedFloor = 0 <=> Held = {}
      /\ \A y \in Held : owedFloor <= y
  BY Zenon, <1>1, Lowest DEF owedFloor
<1>4. \A m \in Held : m # 0
  BY <1>1, SMTT(60)
<1> QED BY Zenon, <1>1, <1>2, <1>3, <1>4

\* noteDelivered keeps m's id, forgets only forgettable ones, and removes the
\* hole or drops the cursor (session.go:1526).
LEMMA NoteDeliveredF ==
    ASSUME TypeOK, NEW m \in Seqs, noteDelivered(m)
    PROVE  /\ sent' = sent \cup {m} /\ delivered' \subseteq sent'
           /\ \A d \in Forgotten' : d \in Forgotten \/ d \in Forgettable
           /\ cur' \in curType /\ scan' \in scanType /\ ChangedKept(cur')
           /\ \/ Dropped(cur')
              \/ /\ cur'.next = cur.next /\ cur'.pin = cur.pin /\ cur'.base = cur.base
                 /\ cur'.holes = cur.holes \ {m}
           /\ scan' = scan \/ (scan'.at = "due" /\ scan'.start = 0 /\ scan'.to = 0
                               /\ scan'.owed = {})
<1> DEFINE ds    == delivered \cup {m}
           keep  == lowestSeq({cur.next, cur.pin})
           noted == [cur EXCEPT !.holes = @ \ {m},
                                !.above = IF m >= cur.next THEN capAbove(@ + 1) ELSE @]
<1>1. PICK prune \in BOOLEAN, old \in SUBSET (Forgettable \ {m}) :
          LET over == prune /\ keep # 0 /\ Cardinality({d \in ds : d >= keep}) > CursorIDBound
              c    == IF over THEN dropCursorLocked(noted) ELSE noted
              due  == c.above >= CursorScanAfter /\ (c.next # 0 \/ c.pin = 0)
          IN  /\ prune \/ old = {}
              /\ delivered' = ds \ old
              /\ sent' = sent \cup {m}
              /\ cur' = [c EXCEPT !.asked = @ \/ (due /\ scan.at # "off")]
              /\ scan' = IF due /\ scan.at = "off" THEN ScanDue ELSE scan
  BY Zenon DEF noteDelivered
<1>2. /\ sent' = sent \cup {m} /\ delivered' \subseteq sent'
      /\ \A d \in Forgotten' : d \in Forgotten \/ d \in Forgettable
  BY <1>1, VarF, Zenon DEF Forgotten
<1>3. noted \in curType /\ noted.next = cur.next /\ noted.pin = cur.pin /\ noted.base = cur.base
      /\ noted.holes = cur.holes \ {m} /\ noted.changed = cur.changed
  <2>1. cur \in curType /\ cur.above \in 0..CursorScanAfter /\ cur.holes \in SUBSET Seqs
    BY Zenon DEF TypeOK, curType
  <2>2. (IF m >= cur.next THEN capAbove(cur.above + 1) ELSE cur.above) \in 0..CursorScanAfter
    BY <2>1, BoundsAssumption, SMTT(60) DEF capAbove
  <2> QED BY Zenon, <2>1, <2>2 DEF curType
<1> HIDE DEF noted
<1>4. /\ dropCursorLocked(noted) \in curType /\ Dropped(dropCursorLocked(noted))
      /\ ChangedKept(dropCursorLocked(noted))
  <2>1. noted.asked \in BOOLEAN /\ 0 \in 0..(MaxSeq + 1) /\ 0 \in 0..CursorScanAfter
    BY <1>3, SeqsNat, BoundsAssumption DEF curType
  <2>2. dropCursorLocked(noted).changed = (scan.at \in {"begun", "read"})
    BY Zenon DEF dropCursorLocked, setCursorLocked
  <2>3. ChangedKept(dropCursorLocked(noted))
    BY Zenon, <2>2 DEF ChangedKept
  <2> QED BY <2>1, <2>3, SMTT(60) DEF dropCursorLocked, setCursorLocked, curType, Dropped
<1>5. PICK c \in {noted, dropCursorLocked(noted)}, a \in BOOLEAN : cur' = [c EXCEPT !.asked = a]
  <2>1. \A c \in {noted, dropCursorLocked(noted)} : c.asked \in BOOLEAN
    BY Zenon, <1>3, <1>4 DEF curType
  <2> QED BY Zenon, <1>1, <2>1
<1>6. c \in curType
  BY Zenon, <1>3, <1>4
<1>7. /\ cur' \in curType /\ cur'.next = c.next /\ cur'.pin = c.pin /\ cur'.base = c.base
      /\ cur'.holes = c.holes /\ cur'.changed = c.changed
  BY <1>5, <1>6, Zenon DEF curType
<1>8. /\ scan' \in {scan, ScanDue} /\ ScanDue \in scanType /\ ScanDue.at = "due"
      /\ ScanDue.start = 0 /\ ScanDue.to = 0 /\ ScanDue.owed = {}
  <2>1. conns \in 0..MaxConns /\ 0 \in 0..(MaxSeq + 1) /\ 0 \in 0..MaxSeq
    BY SeqsNat, BoundsAssumption DEF TypeOK
  <2> QED BY Zenon, <1>1, <2>1 DEF ScanDue, NoScan, scanType
<1>9. ChangedKept(cur')
  BY Zenon, <1>3, <1>4, <1>5, <1>7 DEF ChangedKept
<1> QED BY <1>2, <1>3, <1>4, <1>5, <1>7, <1>8, <1>9, Zenon DEF Dropped, TypeOK

\* The parts of the invariant that a delivery of m preserves, whatever else the
\* step does to the connection.
LEMMA NoteDeliveredStep ==
    ASSUME IInv, NEW m \in Seqs, m <= last, noteDelivered(m),
           UNCHANGED <<netVars, subVars, connVars, promised, blind>>,
           Copies' \subseteq Copies, cur.pin # 0 => loop'.next = loop.next
    PROVE  /\ sent' = sent \cup {m} /\ delivered' \subseteq sent'
           /\ cur' \in curType /\ scan' \in scanType /\ ChangedKept(cur')
           /\ scan' = scan \/ scan'.at = "due"
           /\ cur'.next \in {0, cur.next} /\ cur'.pin \in {0, cur.pin}
           /\ cur'.base \in {0, cur.base} /\ cur'.holes \subseteq cur.holes
           /\ cur'.next # 0 => cur.holes \ {m} \subseteq cur'.holes
           /\ \A k \in scan'.owed : k <= last
           /\ scan'.start <= last + 1 /\ scan'.to <= last
           /\ (ForgottenIsOld /\ IdsKept /\ BaseShape /\ SinceShape /\ ScanShape)'
           /\ (ScanClassifies /\ NothingOwedSkipped /\ HolesUnsent)'
<1> USE DEF netVars, subVars, connVars
<1>1. TypeOK /\ InStream
  BY Zenon DEF IInv
<1>2. /\ sent' = sent \cup {m} /\ delivered' \subseteq sent'
      /\ \A d \in Forgotten' : d \in Forgotten \/ d \in Forgettable
      /\ cur' \in curType /\ scan' \in scanType /\ ChangedKept(cur')
      /\ \/ Dropped(cur')
         \/ /\ cur'.next = cur.next /\ cur'.pin = cur.pin /\ cur'.base = cur.base
            /\ cur'.holes = cur.holes \ {m}
      /\ scan' = scan \/ (scan'.at = "due" /\ scan'.start = 0 /\ scan'.to = 0
                          /\ scan'.owed = {})
  BY Zenon, <1>1, NoteDeliveredF
<1>3. /\ cur'.next \in {0, cur.next} /\ cur'.pin \in {0, cur.pin}
      /\ cur'.base \in {0, cur.base} /\ cur'.holes \subseteq cur.holes
      /\ cur'.next # 0 => cur.holes \ {m} \subseteq cur'.holes
  BY <1>2, Zenon DEF Dropped
<1>4. (\A k \in scan'.owed : k <= last) /\ scan'.start <= last + 1 /\ scan'.to <= last
  BY <1>1, <1>2, VarF, SMTT(60) DEF InStream
<1>5. ForgottenIsOld'
  <2>1. Copies \subseteq transit \cup noting \cup Held
    BY Zenon DEF Copies, Held
  <2> QED BY <1>2, <2>1, Zenon DEF IInv, ForgottenIsOld, Forgettable
<1>6. IdsKept'
  <2> SUFFICES ASSUME NEW d \in Forgotten'
               PROVE  /\ cur'.next # 0 => d < cur'.next
                      /\ asking.at = "read" /\ asking.exact => d <= asking.to
                      /\ scan'.at = "read" /\ scan'.restart => d < scan'.base
                      /\ cur'.pin # 0 => d < loop'.next
    BY Zenon DEF IdsKept
  <2>1. CASE d \in Forgotten
    BY <1>2, <1>3, <2>1, Zenon DEF IInv, IdsKept
  <2>2. CASE d \in Forgettable
    <3>1. /\ cur.next # 0 => d < cur.next
          /\ asking.at = "read" => d <= asking.to
          /\ scan.at = "read" /\ scan.restart => d < scan.base
          /\ cur.pin # 0 => d < cur.pin
          /\ d \in Nat
      BY <1>1, <2>2, VarF, Zenon DEF Forgettable
    <3>2. cur.pin # 0 => d < loop'.next
      BY <1>1, <3>1, CurF, LoopF, SMTT(60) DEF IInv, PinShape
    <3> QED BY <1>2, <1>3, <3>1, <3>2, Zenon
  <2> QED BY <1>2, <2>1, <2>2, Zenon
<1>7. BaseShape'
  BY <1>1, <1>2, CurF, SMTT(60) DEF IInv, BaseShape, Dropped
<1>8. SinceShape'
  <2>1. \A f \in asking.fresh : made[f] \in Nat
    BY <1>1, AskF, SeqsNat DEF TypeOK, sinceUnknown
  <2> QED BY <1>3, <2>1, SMTT(60) DEF IInv, SinceShape
<1>9. ScanShape' /\ ScanClassifies'
  BY Zenon, <1>2 DEF IInv, ScanShape, ScanClassifies, scanFrom
<1>10. NothingOwedSkipped' /\ HolesUnsent'
  <2>1. NothingOwedSkipped'
    BY <1>2, <1>3, Zenon DEF IInv, NothingOwedSkipped, Owed, owedBy
  <2>2. HolesUnsent'
    BY Zenon, <1>2 DEF IInv, HolesUnsent, Dropped
  <2> QED BY <2>1, <2>2, Zenon
<1> QED BY Zenon, <1>2, <1>3, <1>4, <1>5, <1>6, <1>7, <1>8, <1>9, <1>10

\* The delivery goroutine at rest has the type of its position.
LEMMA IdleF ==
    /\ Idle \in loopType /\ Idle.at = "idle" /\ Idle.next = 0 /\ Idle.start = 0 /\ Idle.to = 0
    /\ Idle.had = {} /\ Idle.todo = {} /\ Idle.known = {} /\ Idle.ok = FALSE
<1>1. 0 \in 0..(MaxSeq + 1) /\ 0 \in 0..MaxSeq
  BY SeqsNat
<1> QED BY Zenon, <1>1 DEF Idle, loopType

\* The parts of the invariant kept by a step of the connection or of its delivery
\* goroutine that neither delivers nor moves the cursor.
LEMMA LoopStep ==
    ASSUME IInv,
           UNCHANGED <<netVars, subVars, sentVars, scan, promised>>,
           \/ UNCHANGED <<pending, unwanted, inHand>>
           \/ pending' = {} /\ unwanted' = {} /\ inHand' = 0,
           fromSeq' \in {0, fromSeq}, behind' \in BOOLEAN, catchup' \in BOOLEAN,
           phase' \in {"attached", "closed", "away"}, conns' \in 1..MaxConns,
           replayed' \subseteq replayed, replayedBefore' \subseteq replayed \cup replayedBefore,
           streamNext' \in 0..(last + 1), loop' \in loopType,
           loop'.next <= last + 1, loop'.start <= last + 1, loop'.to <= last,
           \A m \in loop'.had \cup loop'.todo : m <= last,
           cur' \in curType, cur'.next = cur.next, cur'.holes = cur.holes, cur'.base = cur.base,
           cur'.pin # 0 => \A d \in Forgotten : d < loop'.next,
           blind \subseteq blind', blind' \subseteq blind \cup 1..last
    PROVE  /\ (TypeOK /\ InStream /\ ForgottenIsOld /\ IdsKept /\ BaseShape)'
           /\ (SinceShape /\ ScanShape /\ ScanClassifies)'
           /\ (NothingOwedSkipped /\ HeldNotPassed /\ HolesUnsent /\ NothingHeldBelowBase)'
<1> USE DEF netVars, subVars, sentVars
<1>1. TypeOK /\ InStream
  BY Zenon DEF IInv
<1>2. blind' \subseteq Seqs /\ \A m \in blind' : m <= last
  BY <1>1, Spans, VarF, SMTT(60) DEF TypeOK, InStream
<1>3. /\ pending' \subseteq pending /\ unwanted' \subseteq Seqs /\ inHand' \in 0..MaxSeq
      /\ fromSeq' \in 0..MaxSeq /\ inHand' <= last /\ fromSeq' <= last
      /\ streamNext' \in 0..(MaxSeq + 1) /\ streamNext' <= last + 1
  <2>1. /\ last \in 0..MaxSeq /\ inHand \in 0..MaxSeq /\ fromSeq \in 0..MaxSeq
        /\ inHand <= last /\ fromSeq <= last /\ unwanted \subseteq Seqs
    BY Zenon, <1>1 DEF TypeOK, InStream
  <2>2. pending' \subseteq pending /\ unwanted' \subseteq Seqs /\ inHand' \in {0, inHand}
    BY Zenon, <2>1
  <2> QED BY <2>1, <2>2, SeqsNat
<1>4. TypeOK'
  BY Zenon, <1>1, <1>2, <1>3 DEF TypeOK
<1>5. InStream'
  BY Zenon, <1>1, <1>2, <1>3 DEF InStream
<1>6. ForgottenIsOld'
  <2>1. Copies' \subseteq Copies
    BY Zenon DEF Copies
  <2> QED BY Zenon, <2>1 DEF IInv, ForgottenIsOld, Forgotten
<1>7. (IdsKept /\ BaseShape)'
  BY Zenon DEF IInv, IdsKept, BaseShape, Forgotten
<1>8. (SinceShape /\ ScanShape /\ ScanClassifies)'
  BY Zenon DEF IInv, SinceShape, ScanShape, ScanClassifies, scanFrom
<1>9. (NothingOwedSkipped /\ HolesUnsent)'
  BY Zenon DEF IInv, NothingOwedSkipped, HolesUnsent, Owed, owedBy
<1>10. (HeldNotPassed /\ NothingHeldBelowBase)'
  BY Zenon DEF IInv, HeldNotPassed, NothingHeldBelowBase
<1> QED BY Zenon, <1>4, <1>5, <1>6, <1>7, <1>8, <1>9, <1>10

\* above is counted up to its bound.
LEMMA CountF == ASSUME TypeOK, NEW n PROVE capAbove(countAboveLocked(n)) \in 0..CursorScanAfter
  BY BoundsAssumption DEF capAbove

\* belowFloor is at most to + 1 and at most anything the connection holds.
LEMMA BelowFloorF ==
    ASSUME TypeOK, NEW to \in Nat
    PROVE  /\ belowFloor(to) \in Nat /\ belowFloor(to) # 0 /\ belowFloor(to) <= to + 1
           /\ belowFloor(to) = to + 1 \/ (owedFloor # 0 /\ belowFloor(to) = owedFloor)
           /\ owedFloor # 0 => belowFloor(to) <= owedFloor
           /\ \A m \in (pending \cup {inHand, fromSeq}) \ {0} : belowFloor(to) <= m
<1>1. /\ owedFloor \in Nat /\ {to + 1, owedFloor} \subseteq Nat
      /\ to + 1 \in {to + 1, owedFloor} \ {0}
  BY FloorF
<1>2. /\ belowFloor(to) \in Nat
      /\ belowFloor(to) # 0 => belowFloor(to) \in {to + 1, owedFloor}
      /\ belowFloor(to) = 0 <=> {to + 1, owedFloor} \ {0} = {}
      /\ \A y \in {to + 1, owedFloor} \ {0} : belowFloor(to) <= y
  BY <1>1, Lowest, Zenon DEF belowFloor
<1>3. belowFloor(to) # 0 /\ belowFloor(to) <= to + 1
      /\ (belowFloor(to) = to + 1 \/ (owedFloor # 0 /\ belowFloor(to) = owedFloor))
      /\ (owedFloor # 0 => belowFloor(to) <= owedFloor)
  BY <1>1, <1>2, Zenon
<1>4. \A m \in (pending \cup {inHand, fromSeq}) \ {0} : belowFloor(to) <= m
  <2> SUFFICES ASSUME NEW m \in (pending \cup {inHand, fromSeq}) \ {0} PROVE belowFloor(to) <= m
    BY Zenon
  <2>1. m \in Nat /\ owedFloor # 0 /\ owedFloor <= m
    BY FloorF, VarF, Zenon
  <2>2. belowFloor(to) <= owedFloor
    BY <1>1, <1>2, <2>1, Zenon
  <2> QED BY <1>1, <1>2, <2>1, <2>2
<1> QED BY <1>2, <1>3, <1>4, Zenon

-----------------------------------------------------------------------------
(* Publishers, and live copies.                                            *)

\* keep and the live publish (offline.go:250): the new last sequence is above
\* whatever the cursor, a scan or a read has passed.
LEMMA Publish_Inv == IInv /\ Publish => IInv'
<1> SUFFICES ASSUME IInv, Publish PROVE IInv'
  BY Zenon
<1> USE DEF Publish, netVars, subVars, queueVars, readVars, connVars, sentVars, curVars
<1>1. TypeOK /\ InStream
  BY Zenon DEF IInv
<1>2. last \in Nat /\ last + 1 \in Seqs /\ last + 1 \in 0..MaxSeq
  BY <1>1, SeqsNat DEF TypeOK, Seqs
<1>3. TypeOK' /\ InStream'
  <2>1. TypeOK'
    BY <1>1, <1>2, Zenon DEF TypeOK
  <2>2. InStream'
    BY <1>1, <1>2, VarF, AskF, LoopF, CurF, ScanF DEF InStream
  <2> QED BY <2>1, <2>2, Zenon
<1>4. ForgottenIsOld'
  <2>1. /\ Forgotten' = Forgotten /\ Copies' \subseteq Copies \cup {last + 1}
        /\ \A d \in Forgotten : d \in Nat /\ d <= last
    BY <1>1, VarF, Zenon DEF Forgotten, Copies, InStream
  <2> QED BY <2>1, <1>2, SMTT(60) DEF IInv, ForgottenIsOld
<1>5. (IdsKept /\ PinShape /\ BaseShape /\ ReadsRecognise /\ SinceShape /\ ScanShape)'
  BY ZenonT(60) DEF IInv, IdsKept, PinShape, BaseShape, ReadsRecognise, SinceShape, ScanShape, Forgotten,
         Recognised, resuming, scanFrom
<1>6. (ScanClassifies /\ ReplayClassifies)'
  BY Zenon DEF IInv, ScanClassifies, ReplayClassifies, scanFrom, Wanted
<1>7. CopiesShape'
  <2>1. WantedCopies' \subseteq WantedCopies \cup {last + 1}
    BY Zenon DEF WantedCopies
  <2>2. last + 1 \notin loop.had
    BY <1>1, <1>2, LoopF DEF InStream
  <2>3. \A m \in WantedCopies' : topic[m] \in subs
    BY <2>1, Zenon DEF IInv, CopiesShape, WantedCopies
  <2>4. last + 1 \notin pending /\ inHand # last + 1
    BY <1>1, <1>2, VarF DEF InStream
  <2>5. transit' \subseteq transit \cup {last + 1}
    BY Zenon
  <2> QED BY <2>1, <2>2, <2>3, <2>4, <2>5, Zenon DEF IInv, CopiesShape
<1>8. NothingOwedSkipped'
  <2>1. CASE cur.next # 0
    <3>1. \A m \in 1..last' : m < cur.next => m \in 1..last
      BY <1>1, <1>2, CurF DEF InStream
    <3> QED BY <3>1, Zenon DEF NothingOwedSkipped, IInv, Owed, owedBy, sinceUnknown
  <2> QED BY <2>1, Zenon DEF NothingOwedSkipped
<1>9. (HeldNotPassed /\ HolesUnsent /\ NothingHeldBelowBase)'
  BY Zenon DEF IInv, HeldNotPassed, HolesUnsent, NothingHeldBelowBase
<1>10. ResumeShape'
  BY Zenon DEF IInv, ResumeShape, Held
<1> QED BY <1>3, <1>4, <1>5, <1>6, <1>7, <1>8, <1>9, <1>10, Zenon DEF IInv

\* placeQueued puts the copy where owedFloor finds it (catchup.go:49).
LEMMA PlaceF ==
    ASSUME TypeOK, NEW m \in Seqs, placeQueued(m)
    PROVE  /\ pending' \subseteq pending \cup {m} /\ fromSeq' \in {fromSeq, m}
           /\ behind' \in BOOLEAN /\ catchup' \in BOOLEAN
           /\ pending \subseteq pending'
           /\ fromSeq # 0 => fromSeq' # 0 /\ fromSeq' <= fromSeq
<1>1. /\ lowestSeq({fromSeq, m}) \in {fromSeq, m}
      /\ fromSeq # 0 => lowestSeq({fromSeq, m}) # 0 /\ lowestSeq({fromSeq, m}) <= fromSeq
  <2>1. {fromSeq, m} \subseteq Nat /\ {fromSeq, m} \ {0} # {}
    BY VarF, SeqsNat, Zenon
  <2> QED BY <2>1, Lowest, Zenon
<1>2. /\ pending' \subseteq pending \cup {m} /\ pending \subseteq pending'
      /\ behind' \in BOOLEAN /\ catchup' \in BOOLEAN /\ fromSeq' \in {fromSeq, lowestSeq({fromSeq, m})}
  BY Zenon DEF placeQueued, TypeOK
<1> QED BY <1>1, <1>2, VarF

\* placeQueued (catchup.go:49): the copy is held before noteLiveCopy runs, so a
\* floor read in between already counts it.
LEMMA ArriveLive_Inv == \A m \in Seqs : IInv /\ ArriveLive(m) => IInv'
<1> SUFFICES ASSUME NEW m \in Seqs, IInv, ArriveLive(m) PROVE IInv'
  BY Zenon
<1> USE DEF ArriveLive, netVars, subVars, queueVars, readVars, connVars, sentVars, curVars
<1>1. TypeOK /\ InStream
  BY Zenon DEF IInv
<1>2. /\ pending' \subseteq pending \cup {m} /\ fromSeq' \in {fromSeq, m}
      /\ behind' \in BOOLEAN /\ catchup' \in BOOLEAN
      /\ pending \subseteq pending'
      /\ fromSeq # 0 => fromSeq' # 0 /\ fromSeq' <= fromSeq
  BY <1>1, PlaceF, Zenon
<1>3. /\ transit' = transit \ {m} /\ m \in transit /\ noting' = noting \cup {m}
  BY Zenon
<1> HIDE DEF ArriveLive
<1>4. UNCHANGED <<topic, last, subVars, unwanted, inHand, readVars, connVars, sentVars, curVars>>
  BY Zenon DEF ArriveLive
<1>5. TypeOK' /\ InStream'
  <2>1. TypeOK'
    BY <1>1, <1>2, <1>3, <1>4, SeqsNat, SMTT(60) DEF TypeOK
  <2>2. InStream'
    BY <1>1, <1>2, <1>3, <1>4, VarF DEF InStream
  <2> QED BY <2>1, <2>2, Zenon
<1>6. ForgottenIsOld'
  <2>1. Forgotten' = Forgotten /\ Copies' \subseteq Copies
    BY <1>2, <1>3, <1>4, SeqsNat, Zenon DEF Forgotten, Copies
  <2> QED BY <2>1, Zenon DEF IInv, ForgottenIsOld
<1>7. (IdsKept /\ PinShape /\ BaseShape /\ ReadsRecognise /\ SinceShape /\ ScanShape)'
  BY <1>4, ZenonT(60) DEF IInv, IdsKept, PinShape, BaseShape, ReadsRecognise, SinceShape, ScanShape,
         Forgotten, Recognised, resuming, scanFrom
<1>8. (ScanClassifies /\ ReplayClassifies)'
  BY <1>4, Zenon DEF IInv, ScanClassifies, ReplayClassifies, scanFrom, Wanted
<1>9. CopiesShape'
  <2>1. WantedCopies' \subseteq WantedCopies
    BY <1>2, <1>3, <1>4, Zenon DEF WantedCopies
  <2> QED BY <2>1, <1>2, <1>3, <1>4, Zenon DEF IInv, CopiesShape
<1>10. (NothingOwedSkipped /\ HolesUnsent)'
  BY <1>4, Zenon DEF IInv, NothingOwedSkipped, HolesUnsent, Owed, owedBy
<1>11. (HeldNotPassed /\ NothingHeldBelowBase)'
  BY <1>2, <1>3, <1>4, Zenon DEF IInv, HeldNotPassed, NothingHeldBelowBase
<1>12. ResumeShape'
  <2>1. \A h \in Held : \E k \in Held' : k <= h
    <3> SUFFICES ASSUME NEW h \in Held PROVE \E k \in Held' : k <= h
      BY SMTT(60)
    <3>1. h \in Nat /\ h # 0
      BY <1>1, VarF, Zenon DEF Held
    <3>2. CASE h = fromSeq
      BY <1>2, <3>1, <3>2, Zenon DEF Held
    <3>3. CASE h # fromSeq
      <4>1. h \in Held'
        BY <1>2, <1>4, <3>1, <3>3, Zenon DEF Held
      <4> QED BY <3>1, <4>1
    <3> QED BY <3>2, <3>3, Zenon
  <2>2. cur.next \in Nat /\ Held \subseteq Nat /\ Held' \subseteq Nat
    BY <1>1, <1>2, <1>4, CurF, VarF, SeqsNat, Zenon DEF Held
  <2>3. (\E h \in Held : h <= cur.next) => \E h \in Held' : h <= cur.next
    BY <2>1, <2>2, SMTT(60)
  <2> QED BY <1>4, <2>3, Zenon DEF IInv, ResumeShape
<1> QED BY <1>5, <1>6, <1>7, <1>8, <1>9, <1>10, <1>11, <1>12, Zenon DEF IInv

\* lateCopy (session.go:1439): a copy without a connection becomes a hole when
\* the cursor has passed it.
LEMMA ArriveLate_Inv == \A m \in Seqs : IInv /\ ArriveLate(m) => IInv'
<1> SUFFICES ASSUME NEW m \in Seqs, IInv, ArriveLate(m) PROVE IInv'
  BY Zenon
<1> USE DEF netVars, subVars, queueVars, readVars, connVars, sentVars, curVars
<1>1. TypeOK /\ InStream
  BY Zenon DEF IInv
<1>2. /\ m \in Copies /\ transit' \subseteq transit /\ cur' = noteBelow(cur, m)
      /\ UNCHANGED <<topic, last, noting, subVars, queueVars, readVars, connVars, sentVars,
                     scan, promised, blind>>
  BY SeqsNat, Zenon DEF ArriveLate, Copies
<1>3. /\ cur' \in curType /\ cur'.next \in {0, cur.next} /\ ResumeShape'
      /\ cur'.holes \subseteq cur.holes \cup {m}
      /\ (IdsKept /\ PinShape /\ BaseShape /\ SinceShape)'
      /\ (NothingOwedSkipped /\ HolesUnsent)'
      /\ cur'.next # 0 => cur'.base = cur.base /\ cur.holes \subseteq cur'.holes
      /\ cur'.next = 0 => cur'.base = 0
  BY <1>2, NoteBelowStep, Zenon
<1>4. TypeOK' /\ InStream'
  <2>1. TypeOK'
    BY Zenon, <1>1, <1>2, <1>3 DEF TypeOK
  <2>2. InStream'
    <3>1. \A k \in cur'.holes : k <= last
      BY Zenon, <1>1, <1>2, <1>3 DEF InStream, Copies
    <3>2. 0 <= last + 1
      BY <1>1, VarF
    <3>3. cur'.next <= last + 1
      BY Zenon, <1>1, <1>3, <3>2 DEF InStream
    <3>4. \A k \in transit' : k <= last
      BY Zenon, <1>1, <1>2 DEF InStream
    <3>5. UNCHANGED <<last, noting, subVars, queueVars, readVars, sentVars, scan, blind>>
      BY Zenon, <1>2
    <3>6. \A k \in noting \cup pending \cup sent \cup loop.had \cup loop.todo \cup scan.owed
                    \cup blind : k <= last
      BY Zenon, <1>1 DEF InStream
    <3>7. \A k \in (transit \cup noting \cup pending \cup sent \cup loop.had \cup loop.todo
                     \cup cur.holes \cup scan.owed \cup blind)' : k <= last'
      BY <3>1, <3>4, <3>5, <3>6, Zenon
    <3> QED BY Zenon, <1>1, <3>3, <3>5, <3>7 DEF InStream
  <2> QED BY <2>1, <2>2, Zenon
<1>5. (ForgottenIsOld /\ ReadsRecognise /\ ScanShape)'
  BY <1>2, ZenonT(60) DEF IInv, ForgottenIsOld, ReadsRecognise, ScanShape, Forgotten, Copies, Recognised,
              resuming, scanFrom
<1>6. (ScanClassifies /\ ReplayClassifies)'
  BY Zenon, <1>2 DEF IInv, ScanClassifies, ReplayClassifies, scanFrom, Wanted
<1>7. CopiesShape'
  <2>1. WantedCopies' \subseteq WantedCopies
    BY <1>2, Zenon DEF WantedCopies
  <2> QED BY Zenon, <2>1, <1>2 DEF IInv, CopiesShape
<1>8. (HeldNotPassed /\ NothingHeldBelowBase)'
  BY Zenon, <1>2, <1>3 DEF IInv, HeldNotPassed, NothingHeldBelowBase
<1> QED BY <1>3, <1>4, <1>5, <1>6, <1>7, <1>8, Zenon DEF IInv

\* noteLiveCopy (cursor.go:245): a copy placed below the cursor becomes a hole.
LEMMA noteLiveCopy_Inv == \A m \in Seqs : IInv /\ noteLiveCopy(m) => IInv'
<1> SUFFICES ASSUME NEW m \in Seqs, IInv, noteLiveCopy(m) PROVE IInv'
  BY Zenon
<1> USE DEF netVars, subVars, queueVars, readVars, connVars, sentVars, curVars
<1>1. TypeOK /\ InStream
  BY Zenon DEF IInv
<1>2. /\ m \in Copies /\ noting' = noting \ {m} /\ cur' = noteBelow(cur, m)
      /\ UNCHANGED <<topic, last, transit, subVars, queueVars, readVars, connVars, sentVars,
                     scan, promised, blind>>
  BY SeqsNat, Zenon DEF noteLiveCopy, Copies
<1>3. /\ cur' \in curType /\ cur'.next \in {0, cur.next} /\ ResumeShape'
      /\ cur'.holes \subseteq cur.holes \cup {m}
      /\ (IdsKept /\ PinShape /\ BaseShape /\ SinceShape)'
      /\ (NothingOwedSkipped /\ HolesUnsent)'
      /\ cur'.next # 0 => /\ cur'.base = cur.base /\ cur.holes \subseteq cur'.holes
                          /\ m < cur'.next => ~(m < cur.base) /\ m \in sent \cup cur'.holes
      /\ cur'.next = 0 => cur'.base = 0
  BY <1>2, NoteBelowStep, Zenon
<1>4. TypeOK' /\ InStream'
  <2>1. TypeOK'
    BY Zenon, <1>1, <1>2, <1>3 DEF TypeOK
  <2>2. InStream'
    <3>1. \A k \in cur'.holes : k <= last
      BY Zenon, <1>1, <1>2, <1>3 DEF InStream, Copies
    <3>2. 0 <= last + 1
      BY <1>1, VarF
    <3>3. cur'.next <= last + 1
      BY Zenon, <1>1, <1>3, <3>2 DEF InStream
    <3> QED BY Zenon, <1>1, <1>2, <3>1, <3>3 DEF InStream
  <2> QED BY <2>1, <2>2, Zenon
<1>5. (ForgottenIsOld /\ ReadsRecognise /\ ScanShape)'
  BY Zenon, <1>2 DEF IInv, ForgottenIsOld, ReadsRecognise, ScanShape, Forgotten, Copies, Recognised,
              resuming, scanFrom
<1>6. (ScanClassifies /\ ReplayClassifies /\ CopiesShape)'
  BY Zenon, <1>2 DEF IInv, ScanClassifies, ReplayClassifies, CopiesShape, scanFrom, Wanted, WantedCopies
<1>7. HeldNotPassed'
  <2> SUFFICES ASSUME cur'.next # 0, NEW k \in (pending \cup {inHand}) \ ({0} \cup unwanted)
               PROVE  k >= cur'.next \/ k \in sent \cup cur'.holes \cup noting'
    BY Zenon, <1>2 DEF HeldNotPassed
  <2>1. cur'.next = cur.next /\ cur.holes \subseteq cur'.holes
    BY Zenon, <1>3
  <2>2. k >= cur.next \/ k \in sent \cup cur.holes \cup noting
    BY <2>1, Zenon DEF IInv, HeldNotPassed
  <2>3. CASE k # m
    BY <1>2, <2>1, <2>2, <2>3, Zenon
  <2>4. CASE k = m
    <3>1. m \in Nat /\ cur.next \in Nat
      BY Zenon, <1>1, CurF, SeqsNat
    <3>2. m < cur.next \/ m >= cur.next
      BY <3>1
    <3> QED BY Zenon, <1>3, <2>1, <2>4, <3>2
  <2> QED BY <2>3, <2>4, Zenon
<1>8. NothingHeldBelowBase'
  <2>1. m < cur.base => m < cur.next
    BY <1>1, CurF, SeqsNat, SMTT(60) DEF IInv, BaseShape
  <2>2. cur'.base # 0 => cur'.base = cur.base /\ ~(m < cur.base)
    BY <1>3, <2>1, Zenon
  <2>3. m < cur.base \/ m >= cur.base
    <3>1. m \in Nat /\ cur.base \in Nat
      BY Zenon, <1>1, CurF, SeqsNat
    <3> QED BY <3>1
  <2> QED BY Zenon, <1>2, <2>2, <2>3 DEF IInv, NothingHeldBelowBase
<1> QED BY Zenon, <1>3, <1>4, <1>5, <1>6, <1>7, <1>8 DEF IInv

-----------------------------------------------------------------------------
(* SUBSCRIBE and UNSUBSCRIBE.                                              *)

\* installSubscription (session.go:1076): a new subscription owes nothing until
\* its since is known.
LEMMA Subscribe_Inv == \A f \in Filters : IInv /\ Subscribe(f) => IInv'
<1> SUFFICES ASSUME NEW f \in Filters, IInv, Subscribe(f) PROVE IInv'
  BY Zenon
<1> USE DEF netVars, subVars, queueVars, readVars, connVars, sentVars, curVars
<1>1. TypeOK /\ InStream
  BY Zenon DEF IInv
<1>2. /\ asking.at = "none" /\ subs' = subs \cup {f} /\ requests' \in 0..MaxRequests
      /\ scan' = [scan EXCEPT !.same = FALSE]
      /\ UNCHANGED <<netVars, queueVars, readVars, connVars, sentVars, cur, promised, blind>>
  BY <1>1, BoundsAssumption DEF Subscribe, subsChanged, TypeOK
<1>3. PICK kept \in BOOLEAN :
        /\ kept => f \in subs /\ since[f] # sinceUnknown
        /\ since' = IF kept THEN since ELSE [since EXCEPT ![f] = sinceUnknown]
        /\ made' = IF kept THEN made ELSE [made EXCEPT ![f] = sinceUnknown]
        /\ asking' = IF kept THEN asking
                     ELSE [NoAsk EXCEPT !.at = "installed", !.fresh = {f}, !.had = subs # {}]
  BY Zenon DEF Subscribe
<1>4. /\ scan' \in scanType /\ ~scan'.same
      /\ scan'.at = scan.at /\ scan'.restart = scan.restart /\ scan'.start = scan.start
      /\ scan'.to = scan.to /\ scan'.owed = scan.owed /\ scan'.base = scan.base
  BY Zenon, <1>1, <1>2 DEF TypeOK, scanType
<1>5. /\ since' \in [Filters -> 0..sinceUnknown] /\ made' \in [Filters -> 0..sinceUnknown]
      /\ asking' \in askType /\ asking'.to <= last
  <2>1. sinceUnknown \in 0..sinceUnknown /\ 0 \in 0..MaxSeq /\ 0 <= last
    BY <1>1, SeqsNat, VarF DEF sinceUnknown
  <2>2. CASE kept
    BY <1>1, <1>3, <2>2, Zenon DEF TypeOK, InStream
  <2>3. CASE ~kept
    BY Zenon, <1>1, <1>3, <2>1, <2>3 DEF TypeOK, askType, NoAsk
  <2> QED BY <2>2, <2>3, Zenon
<1>6. TypeOK' /\ InStream'
  <2>1. TypeOK'
    BY <1>1, <1>2, <1>4, <1>5, Zenon DEF TypeOK
  <2>2. InStream'
    BY <1>1, <1>2, <1>4, <1>5, SMTT(60) DEF InStream
  <2> QED BY <2>1, <2>2, Zenon
<1>7. (ForgottenIsOld /\ PinShape /\ BaseShape /\ ReadsRecognise /\ ScanShape /\ ScanClassifies)'
  BY <1>2, <1>4, Zenon DEF IInv, ForgottenIsOld, PinShape, BaseShape, ReadsRecognise, ScanShape,
         ScanClassifies, Forgotten, Copies, Recognised, resuming, scanFrom
<1>8. asking'.at # "read"
  BY <1>2, <1>3, Zenon DEF NoAsk
<1>9. IdsKept'
  BY <1>2, <1>4, <1>8, Zenon DEF IInv, IdsKept, Forgotten
<1>10. SinceShape'
  <2>1. CASE kept
    BY <1>2, <1>3, <2>1, Zenon DEF IInv, SinceShape
  <2>2. CASE ~kept
    <3>1. asking'.at = "installed" /\ asking'.fresh = {f} /\ asking'.had = (subs # {})
      BY <1>3, <2>2, Zenon DEF NoAsk
    <3>2. made'[f] = sinceUnknown /\ \A g \in Filters \ {f} : since'[g] = since[g]
      BY <1>1, <1>3, <2>2, Zenon DEF TypeOK
    <3> QED BY Zenon, <1>1, <1>2, <3>1, <3>2 DEF IInv, SinceShape, TypeOK
  <2> QED BY <2>1, <2>2, Zenon
<1>11. \A m \in Seqs : (Wanted(m)' => Wanted(m)) /\ (Owed(m)' => Owed(m))
  <2> SUFFICES ASSUME NEW m \in Seqs
               PROVE  (Wanted(m)' => Wanted(m)) /\ (Owed(m)' => Owed(m))
    BY Zenon
  <2>1. topic' = topic /\ topic[m] \in Filters /\ ~(m > sinceUnknown)
    BY <1>1, <1>2, SinceF, FreshOwesNothing, Zenon
  <2>2. CASE topic[m] = f /\ ~kept
    <3>1. made'[topic[m]] = sinceUnknown
      BY <1>1, <1>3, <2>2, Zenon DEF TypeOK
    <3> QED BY <2>1, <3>1, Zenon DEF Wanted, Owed
  <2>3. CASE topic[m] # f \/ kept
    <3>1. /\ since'[topic[m]] = since[topic[m]] /\ made'[topic[m]] = made[topic[m]]
          /\ topic[m] \in subs' => topic[m] \in subs
      BY <1>1, <1>2, <1>3, <2>1, <2>3, Zenon DEF TypeOK
    <3> QED BY <2>1, <3>1, Zenon DEF Wanted, Owed, owedBy, sinceUnknown
  <2> QED BY <2>2, <2>3, Zenon
<1>12. (ReplayClassifies /\ NothingOwedSkipped)'
  <2>1. NothingOwedSkipped'
    BY <1>2, <1>11, Spans, Zenon DEF IInv, NothingOwedSkipped
  <2>2. ReplayClassifies'
    BY <1>1, <1>2, <1>11, Spans, LoopF, Zenon DEF IInv, ReplayClassifies
  <2> QED BY <2>1, <2>2, Zenon
<1>13. CopiesShape'
  BY <1>2, Zenon DEF IInv, CopiesShape, WantedCopies
<1>14. (HeldNotPassed /\ HolesUnsent /\ NothingHeldBelowBase)'
  BY <1>2, Zenon DEF IInv, HeldNotPassed, HolesUnsent, NothingHeldBelowBase
<1>15. ResumeShape'
  <2>1. asking'.at # "none" => \E g \in asking'.fresh : g \in subs' /\ since'[g] = sinceUnknown
    <3>1. CASE kept
      BY <1>2, <1>3, <3>1, Zenon
    <3>2. CASE ~kept
      <4>1. asking'.fresh = {f} /\ since'[f] = sinceUnknown
        BY <1>1, <1>3, <3>2, Zenon DEF NoAsk, TypeOK
      <4> QED BY <1>2, <4>1, Zenon
    <3> QED BY <3>1, <3>2, Zenon
  <2>2. phase = "attached"
    BY Zenon DEF Subscribe
  <2> QED BY <1>2, <1>4, <1>8, <2>1, <2>2, Zenon DEF IInv, ResumeShape, Held
<1> QED BY <1>6, <1>7, <1>9, <1>10, <1>12, <1>13, <1>14, <1>15, Zenon DEF IInv

\* readSince (cursor.go:806): the stream's end is read after the interest is
\* confirmed, so what is stored later is owed.
LEMMA ReadSince_Inv == IInv /\ ReadSince => IInv'
<1> SUFFICES ASSUME IInv, ReadSince PROVE IInv'
  BY Zenon
<1> USE DEF netVars, subVars, queueVars, readVars, connVars, sentVars, curVars
<1>1. TypeOK /\ InStream
  BY Zenon DEF IInv
<1>2. /\ asking.at = "installed"
      /\ made' = [f \in Filters |-> IF f \in asking.fresh THEN last ELSE made[f]]
      /\ UNCHANGED <<netVars, subs, since, requests, queueVars, readVars, connVars, sentVars,
                     curVars>>
  BY Zenon DEF ReadSince
<1>3. PICK to \in 0..last, exact \in BOOLEAN :
        /\ exact => to = last
        /\ asking' = [asking EXCEPT !.at = "read", !.to = to, !.exact = exact]
  BY Zenon DEF ReadSince
<1>4. /\ asking' \in askType /\ asking'.at = "read" /\ asking'.to = to /\ asking'.exact = exact
      /\ asking'.fresh = asking.fresh /\ asking'.had = asking.had
  <2>1. to \in 0..MaxSeq
    BY <1>1, SeqsNat DEF TypeOK
  <2> QED BY Zenon, <1>1, <1>3, <2>1 DEF TypeOK, askType
<1>5. last \in 0..sinceUnknown /\ made' \in [Filters -> 0..sinceUnknown]
  <2>1. last \in 0..sinceUnknown
    BY <1>1, SeqsNat DEF TypeOK, sinceUnknown
  <2> QED BY <1>1, <1>2, <2>1, Zenon DEF TypeOK
<1>6. TypeOK' /\ InStream'
  <2>1. TypeOK'
    BY Zenon, <1>1, <1>2, <1>4, <1>5 DEF TypeOK
  <2>2. asking'.to <= last
    BY <1>4, <1>1, VarF
  <2>3. InStream'
    BY Zenon, <1>1, <1>2, <2>2 DEF InStream
  <2> QED BY <2>1, <2>3, Zenon
<1>7. (ForgottenIsOld /\ PinShape /\ BaseShape /\ ReadsRecognise /\ ScanShape /\ ScanClassifies)'
  BY Zenon, <1>2 DEF IInv, ForgottenIsOld, PinShape, BaseShape, ReadsRecognise, ScanShape,
         ScanClassifies, Forgotten, Copies, Recognised, resuming, scanFrom, sinceUnknown
<1>8. IdsKept'
  <2>1. \A d \in Forgotten : exact => d <= to
    BY <1>1, <1>3, Zenon DEF Forgotten, InStream
  <2> QED BY <1>2, <1>4, <2>1, Zenon DEF IInv, IdsKept, Forgotten
<1>9. SinceShape'
  <2>1. \A f \in asking.fresh : made'[f] = last
    BY Zenon, <1>1, <1>2, AskF
  <2>2. cur.next <= last + 1
    BY <1>1, Zenon DEF InStream
  <2> QED BY <1>2, <1>3, <1>4, <2>1, <2>2, Zenon DEF IInv, SinceShape
<1>10. \A m \in Seqs : m <= last => (Wanted(m)' => Wanted(m)) /\ (Owed(m)' => Owed(m))
  <2> SUFFICES ASSUME NEW m \in Seqs, m <= last
               PROVE  (Wanted(m)' => Wanted(m)) /\ (Owed(m)' => Owed(m))
    BY Zenon
  <2>1. topic[m] \in Filters /\ ~(m > last)
    BY <1>1, SinceF, SeqsNat, VarF
  <2>2. made'[topic[m]] \in {last, made[topic[m]]}
    BY Zenon, <1>2, <2>1
  <2> QED BY Zenon, <1>2, <2>1, <2>2 DEF Wanted, Owed, owedBy, sinceUnknown
<1>11. NothingOwedSkipped'
  <2>1. \A m \in 1..last : m <= last
    BY <1>1, VarF
  <2> QED BY Zenon, <1>2, <1>10, <2>1, Spans DEF IInv, NothingOwedSkipped
<1>12. ReplayClassifies'
  <2>1. \A m \in loop.next..loop.to : m <= last
    BY <1>1, LoopF, VarF, SMTT(60) DEF InStream
  <2>2. \A m \in loop.had : m \in Seqs /\ m <= last
    BY <1>1, LoopF, Zenon DEF InStream
  <2> QED BY Zenon, <1>2, <1>10, <2>1, <2>2, Spans DEF IInv, ReplayClassifies
<1>13. (CopiesShape /\ HeldNotPassed /\ HolesUnsent /\ NothingHeldBelowBase)'
  BY Zenon, <1>2 DEF IInv, CopiesShape, WantedCopies, HeldNotPassed, HolesUnsent, NothingHeldBelowBase
<1>14. ResumeShape'
  <2>1. exact => loop.next <= to + 1
    BY <1>1, <1>3, Zenon DEF InStream
  <2> QED BY Zenon, <1>2, <1>4, <2>1 DEF IInv, ResumeShape, Held
<1> QED BY <1>6, <1>7, <1>8, <1>9, <1>11, <1>12, <1>13, <1>14, Zenon DEF IInv

\* setSince (cursor.go:730): the first subscription starts the cursor after all
\* that is stored.
LEMMA setSince_Inv == IInv /\ setSince => IInv'
<1> SUFFICES ASSUME IInv, setSince PROVE IInv'
  BY Zenon
<1> USE DEF netVars, subVars, queueVars, readVars, connVars, sentVars, curVars
<1> DEFINE starts == /\ asking.exact /\ cur.next = 0 /\ ~asking.had /\ owedFloor = 0
                     /\ cur' = setCursorLocked(cur, asking.to + 1) /\ promised' = 1
<1>1. TypeOK /\ InStream
  BY Zenon DEF IInv
<1>2. /\ asking.at = "read" /\ asking' = NoAsk
      /\ since' = [f \in Filters |-> IF f \in asking.fresh /\ since[f] = sinceUnknown
                                    THEN asking.to ELSE since[f]]
      /\ UNCHANGED <<netVars, subs, made, requests, queueVars, readVars, connVars, sentVars,
                     scan, blind>>
      /\ starts \/ UNCHANGED <<cur, promised>>
  BY Zenon DEF setSince
<1>3. /\ asking.to \in Nat /\ asking.to <= last /\ last <= MaxSeq /\ last \in Nat
      /\ asking.to \in 0..sinceUnknown /\ asking.to # sinceUnknown
      /\ asking.to + 1 \in 0..(MaxSeq + 1) /\ asking.to + 1 <= last + 1
  <2>1. asking.to <= last /\ last \in 0..MaxSeq
    BY Zenon, <1>1 DEF InStream, TypeOK
  <2>2. asking.to \in Nat
    BY Zenon, <1>1, AskF
  <2> QED BY <2>1, <2>2, SeqsNat DEF sinceUnknown
<1>4. /\ since' \in [Filters -> 0..sinceUnknown] /\ asking' \in askType /\ asking'.to = 0
      /\ asking'.at = "none"
  <2>1. since' \in [Filters -> 0..sinceUnknown]
    BY Zenon, <1>1, <1>2, <1>3 DEF TypeOK
  <2>2. 0 \in 0..MaxSeq
    BY SeqsNat
  <2> QED BY Zenon, <1>2, <2>1, <2>2 DEF NoAsk, askType
<1>5. starts => /\ cur' \in curType /\ cur'.next = asking.to + 1 /\ cur'.holes = {}
                /\ cur'.pin = 0 /\ cur'.base = 0
                /\ scan.at \in {"begun", "read"} => cur'.changed
  <2>1. cur.asked \in BOOLEAN /\ 0 \in 0..(MaxSeq + 1) /\ 0 \in 0..CursorScanAfter
    BY <1>1, SeqsNat, BoundsAssumption, SMTT(60) DEF TypeOK, curType
  <2>2. starts => /\ cur' \in curType /\ cur'.next = asking.to + 1 /\ cur'.holes = {}
                  /\ cur'.pin = 0 /\ cur'.base = 0
    BY <1>3, <2>1 DEF setCursorLocked, curType
  <2>3. starts /\ scan.at \in {"begun", "read"} => cur'.changed
    <3> SUFFICES ASSUME starts PROVE cur'.changed = (scan.at \in {"begun", "read"})
      BY Zenon
    <3> QED BY Zenon DEF setCursorLocked
  <2> QED BY Zenon, <2>2, <2>3
<1>6. TypeOK' /\ InStream'
  <2>1. cur' \in curType /\ promised' \in 0..(MaxSeq + 1)
    <3>1. 1 \in 0..(MaxSeq + 1)
      BY SeqsNat
    <3> QED BY Zenon, <1>1, <1>2, <1>5, <3>1 DEF TypeOK
  <2>2. TypeOK'
    BY Zenon, <1>1, <1>2, <1>4, <2>1 DEF TypeOK
  <2>3. cur'.next <= last + 1 /\ cur'.holes \subseteq cur.holes /\ asking'.to <= last
    <3>1. 0 <= last
      BY <1>3
    <3>2. cur.next <= last + 1
      BY Zenon, <1>1 DEF InStream
    <3>3. CASE starts
      BY Zenon, <1>3, <1>4, <1>5, <3>1, <3>3
    <3>4. CASE UNCHANGED <<cur, promised>>
      BY Zenon, <1>4, <3>1, <3>2, <3>4
    <3> QED BY Zenon, <1>2, <3>3, <3>4
  <2>4. InStream'
    <3>1. \A k \in cur'.holes : k <= last
      BY Zenon, <1>1, <2>3 DEF InStream
    <3> QED BY Zenon, <1>1, <1>2, <2>3, <3>1 DEF InStream
  <2> QED BY <2>2, <2>4, Zenon
<1>7. (ForgottenIsOld /\ ReadsRecognise /\ ScanShape)'
  BY Zenon, <1>2 DEF IInv, ForgottenIsOld, ReadsRecognise, ScanShape, Forgotten, Copies, Recognised,
         resuming, scanFrom
<1>8. IdsKept'
  <2>1. \A d \in Forgotten : d \in Nat
    BY <1>1, VarF, Zenon DEF Forgotten
  <2>2. starts => \A d \in Forgotten : d < asking.to + 1
    <3>1. starts => \A d \in Forgotten : d <= asking.to
      BY Zenon, <1>2 DEF IInv, IdsKept
    <3> QED BY <1>3, <2>1, <3>1
  <2> QED BY Zenon, <1>2, <1>4, <1>5, <2>2 DEF IInv, IdsKept, Forgotten
<1>9. (PinShape /\ BaseShape)'
  <2>1. 0 <= asking.to + 1
    BY <1>3
  <2>2. CASE starts
    BY Zenon, <1>5, <2>1, <2>2 DEF PinShape, BaseShape
  <2>3. CASE UNCHANGED <<cur, promised>>
    BY Zenon, <1>2, <2>3 DEF IInv, PinShape, BaseShape
  <2> QED BY Zenon, <1>2, <2>2, <2>3
<1>10. \A f \in subs : /\ since'[f] # sinceUnknown
                       /\ since[f] # sinceUnknown => since'[f] = since[f]
  BY Zenon, <1>1, <1>2, <1>3 DEF IInv, SinceShape, TypeOK
<1>11. SinceShape'
  BY Zenon, <1>2, <1>4, <1>10 DEF SinceShape
<1>12. ScanClassifies'
  BY Zenon, <1>2, <1>10, Spans DEF IInv, ScanClassifies, scanFrom
<1>13. NothingOwedSkipped'
  <2> SUFFICES ASSUME cur'.next # 0, NEW m \in 1..last, promised' <= m, m < cur'.next,
                      Owed(m)', m \notin blind
               PROVE  m \in sent \cup cur'.holes
    BY <1>2, Zenon DEF NothingOwedSkipped
  <2>1. m \in Seqs /\ m \in Nat /\ topic[m] \in subs /\ m > made[topic[m]] /\ made[topic[m]] \in Nat
    BY Zenon, <1>1, <1>2, Spans, SeqsNat, SinceF DEF Owed, owedBy
  <2>2. CASE starts
    <3>1. made[topic[m]] = asking.to
      BY Zenon, <1>2, <2>1, <2>2 DEF IInv, SinceShape
    <3> QED BY <1>3, <1>5, <2>1, <2>2, <3>1
  <2>3. CASE cur' = cur /\ promised' = promised
    <3>1. CASE since[topic[m]] = sinceUnknown
      <4>1. cur.next <= made[topic[m]] + 1
        BY Zenon, <1>2, <2>1, <3>1 DEF IInv, SinceShape
      <4> QED BY <1>1, <2>1, <2>3, <4>1, CurF
    <3>2. CASE since[topic[m]] # sinceUnknown
      <4>1. Owed(m)
        BY Zenon, <1>2, <1>10, <2>1, <3>2 DEF Owed, owedBy, sinceUnknown
      <4> QED BY <2>3, <4>1, Zenon DEF IInv, NothingOwedSkipped
    <3> QED BY Zenon, <3>1, <3>2
  <2> QED BY Zenon, <1>2, <2>2, <2>3
<1>14. (ReplayClassifies /\ CopiesShape)'
  BY Zenon, <1>2 DEF IInv, ReplayClassifies, CopiesShape, Wanted, WantedCopies
<1>15. (HeldNotPassed /\ HolesUnsent /\ NothingHeldBelowBase)'
  <2>1. CASE starts
    <3>1. pending = {} /\ inHand = 0
      BY <1>1, <2>1, FloorF, Zenon
    <3> QED BY <1>2, <1>5, <2>1, <3>1, Zenon DEF HeldNotPassed, HolesUnsent, NothingHeldBelowBase
  <2>2. CASE cur' = cur
    BY Zenon, <1>2, <2>2 DEF IInv, HeldNotPassed, HolesUnsent, NothingHeldBelowBase
  <2> QED BY <1>2, <2>1, <2>2, Zenon
<1>16. ResumeShape'
  <2>1. CASE starts
    BY Zenon, <1>2, <1>4, <1>5, <2>1 DEF IInv, ResumeShape, Held
  <2>2. CASE cur' = cur
    BY Zenon, <1>2, <1>4, <2>2 DEF IInv, ResumeShape, Held
  <2> QED BY <1>2, <2>1, <2>2, Zenon
<1> QED BY <1>6, <1>7, <1>8, <1>9, <1>11, <1>12, <1>13, <1>14, <1>15, <1>16, Zenon DEF IInv

\* removeSubscriptionFor (session.go:1118): what the filter was owed is owed no
\* more, and a scan that read for it is not applied.
LEMMA Unsubscribe_Inv == \A f \in Filters : IInv /\ Unsubscribe(f) => IInv'
<1> SUFFICES ASSUME NEW f \in Filters, IInv, Unsubscribe(f) PROVE IInv'
  BY Zenon
<1> USE DEF netVars, subVars, queueVars, readVars, connVars, sentVars, curVars
<1>1. TypeOK /\ InStream
  BY Zenon DEF IInv
<1>2. /\ asking.at = "none" /\ subs' = subs \ {f} /\ requests' \in 0..MaxRequests
      /\ transit' = {m \in transit : topic[m] # f}
      /\ unwanted' = unwanted \cup {m \in Held \cap (pending \cup {inHand}) : topic[m] = f}
      /\ scan' = [scan EXCEPT !.same = FALSE]
      /\ UNCHANGED <<topic, last, noting, since, made, asking, pending, inHand, fromSeq, behind, catchup,
                     readVars, connVars, sentVars, cur, promised, blind>>
  BY <1>1, BoundsAssumption DEF Unsubscribe, subsChanged, TypeOK
<1>3. /\ scan' \in scanType /\ ~scan'.same
      /\ scan'.at = scan.at /\ scan'.restart = scan.restart /\ scan'.start = scan.start
      /\ scan'.to = scan.to /\ scan'.owed = scan.owed /\ scan'.base = scan.base
  BY Zenon, <1>1, <1>2 DEF TypeOK, scanType
<1>4. TypeOK' /\ InStream'
  <2>1. unwanted' \subseteq Seqs
    <3>1. pending \subseteq Seqs /\ unwanted \subseteq Seqs /\ (inHand = 0 \/ inHand \in Seqs)
      BY <1>1, SeqsNat DEF TypeOK, Seqs
    <3> QED BY <1>2, <3>1, Zenon DEF Held
  <2>2. TypeOK'
    BY <1>1, <1>2, <1>3, <2>1, Zenon DEF TypeOK
  <2>3. InStream'
    BY <1>1, <1>2, <1>3, Zenon DEF InStream
  <2> QED BY <2>2, <2>3, Zenon
<1>5. (ForgottenIsOld /\ IdsKept /\ PinShape /\ BaseShape /\ ReadsRecognise)'
  BY <1>2, <1>3, Zenon DEF IInv, ForgottenIsOld, IdsKept, PinShape, BaseShape, ReadsRecognise,
         Forgotten, Copies, Recognised, resuming
<1>6. (SinceShape /\ ScanShape /\ ScanClassifies)'
  BY <1>2, <1>3, Zenon DEF IInv, SinceShape, ScanShape, ScanClassifies, scanFrom
<1>7. (ReplayClassifies /\ NothingOwedSkipped)'
  BY <1>2, Zenon DEF IInv, ReplayClassifies, NothingOwedSkipped, Wanted, Owed, owedBy
<1>8. CopiesShape'
  <2>1. WantedCopies' \subseteq WantedCopies /\ \A m \in WantedCopies' : topic[m] # f
    BY <1>2, Zenon DEF WantedCopies, Held
  <2> QED BY <1>2, <2>1, Zenon DEF IInv, CopiesShape
<1>9. (HeldNotPassed /\ HolesUnsent /\ NothingHeldBelowBase)'
  BY <1>2, Zenon DEF IInv, HeldNotPassed, HolesUnsent, NothingHeldBelowBase
<1>10. ResumeShape'
  BY <1>2, <1>3, Zenon DEF IInv, ResumeShape, Held
<1> QED BY <1>4, <1>5, <1>6, <1>7, <1>8, <1>9, <1>10, Zenon DEF IInv

-----------------------------------------------------------------------------
(* The delivery goroutine.                                                 *)

\* drainDeliveries and skipDelivery (subscribe.go:688): a delivery moves from the
\* queue to the hand, held throughout.
LEMMA TakeDelivery_Inv == \A m \in Seqs : IInv /\ TakeDelivery(m) => IInv'
<1> SUFFICES ASSUME NEW m \in Seqs, IInv, TakeDelivery(m) PROVE IInv'
  BY Zenon
<1> USE DEF netVars, subVars, queueVars, readVars, connVars, sentVars, curVars
<1>1. TypeOK /\ InStream
  BY Zenon DEF IInv
<1>2. /\ phase = "attached" /\ loop.at = "idle" /\ m \in pending /\ pending' = pending \ {m}
      /\ \/ /\ wasReplayed(m) \/ m \in unwanted
            /\ unwanted' = unwanted \ {m} /\ UNCHANGED <<inHand, loop>>
         \/ m \notin unwanted /\ inHand' = m /\ loop' = [Idle EXCEPT !.at = "hand"]
            /\ UNCHANGED unwanted
      /\ UNCHANGED <<netVars, subVars, fromSeq, behind, catchup, streamNext, replayed, replayedBefore,
                     connVars, sentVars, curVars>>
  BY Zenon DEF TakeDelivery
<1>3. \/ loop' = loop /\ inHand' = inHand
      \/ /\ loop' \in loopType /\ loop'.at = "hand" /\ loop'.had = {} /\ loop'.todo = {}
         /\ loop'.next = 0 /\ loop'.start = 0 /\ loop'.to = 0 /\ loop'.known = {}
         /\ inHand' = m /\ m \notin unwanted /\ unwanted' = unwanted
  BY <1>2, IdleF DEF loopType
<1>4. cur.pin = 0 /\ inHand = 0
  BY <1>2, Zenon DEF IInv, PinShape, CopiesShape
<1>5. TypeOK' /\ InStream'
  <2>1. inHand' \in 0..MaxSeq /\ inHand' <= last /\ unwanted' \subseteq Seqs
    BY <1>1, <1>2, <1>3, SeqsNat DEF TypeOK, InStream, Seqs
  <2>2. TypeOK'
    BY <1>1, <1>2, <1>3, <2>1, Zenon DEF TypeOK
  <2>3. InStream'
    BY <1>1, <1>2, <1>3, <2>1, VarF DEF InStream
  <2> QED BY <2>2, <2>3, Zenon
<1>6. Copies' \subseteq Copies
  BY <1>2, <1>3, Zenon DEF Copies
<1>7. (ForgottenIsOld /\ IdsKept /\ PinShape /\ BaseShape)'
  BY <1>2, <1>4, <1>6, Zenon DEF IInv, ForgottenIsOld, IdsKept, PinShape, BaseShape, Forgotten
<1>8. ReadsRecognise'
  BY <1>2, <1>3, Zenon DEF IInv, ReadsRecognise, Recognised, resuming
<1>9. (SinceShape /\ ScanShape /\ ScanClassifies /\ NothingOwedSkipped /\ HolesUnsent)'
  BY <1>2, Zenon DEF IInv, SinceShape, ScanShape, ScanClassifies, scanFrom, NothingOwedSkipped, HolesUnsent,
              Owed, owedBy
<1>10. ReplayClassifies'
  BY <1>2, <1>3, Zenon DEF IInv, ReplayClassifies
<1>11. CopiesShape'
  <2>1. WantedCopies' \subseteq WantedCopies
    BY <1>2, <1>3, <1>4, SeqsNat, Zenon DEF WantedCopies
  <2>2. inHand' \notin pending' \cup transit /\ (inHand' # 0 <=> loop'.at = "hand")
    BY <1>2, <1>3, SeqsNat, Zenon DEF IInv, CopiesShape
  <2> QED BY <1>2, <1>3, <2>1, <2>2, Zenon DEF IInv, CopiesShape
<1>12. (HeldNotPassed /\ NothingHeldBelowBase)'
  <2>1. HeldNotPassed'
    <3>1. (pending' \cup {inHand'}) \ ({0} \cup unwanted') \subseteq
              (pending \cup {inHand}) \ ({0} \cup unwanted)
      <4>1. m \notin pending' /\ pending' \subseteq pending /\ (inHand' = inHand \/ unwanted' = unwanted)
        BY <1>2, <1>3, Zenon
      <4> QED BY <1>2, <1>3, <1>4, <4>1, Zenon
    <3> QED BY <1>2, <3>1, Zenon DEF IInv, HeldNotPassed
  <2>2. NothingHeldBelowBase'
    BY <1>2, <1>3, Zenon DEF IInv, NothingHeldBelowBase
  <2> QED BY <2>1, <2>2, Zenon
<1>13. ResumeShape'
  BY <1>2, <1>3, Zenon DEF IInv, ResumeShape
<1> QED BY <1>5, <1>7, <1>8, <1>9, <1>10, <1>11, <1>12, <1>13, Zenon DEF IInv

\* sendPrepared with noteDelivered (subscribe.go:841): what leaves the hand is
\* sent.
LEMMA Deliver_Inv == IInv /\ Deliver => IInv'
<1> SUFFICES ASSUME IInv, Deliver PROVE IInv'
  BY Zenon
<1> USE DEF netVars, subVars, queueVars, readVars, connVars, sentVars, curVars
<1> DEFINE skips == inHand \in unwanted /\ UNCHANGED <<delivered, sent, cur, scan>>
           sends == inHand \notin unwanted /\ noteDelivered(inHand)
<1>1. TypeOK /\ InStream
  BY Zenon DEF IInv
<1>2. /\ loop.at = "hand" /\ unwanted' = unwanted \ {inHand} /\ inHand' = 0 /\ loop' = Idle
      /\ UNCHANGED <<netVars, subVars, pending, fromSeq, behind, catchup, streamNext, replayed,
                     replayedBefore, connVars, promised, blind>>
      /\ skips \/ sends
  BY Zenon DEF Deliver
<1>3. /\ inHand \in Seqs /\ inHand <= last /\ cur.pin = 0 /\ inHand \notin pending \cup transit
  <2>1. inHand # 0 /\ cur.pin = 0 /\ inHand \notin pending \cup transit
    BY Zenon, <1>2 DEF IInv, CopiesShape, PinShape
  <2> QED BY <1>1, <2>1, SeqsNat DEF TypeOK, InStream, Seqs
<1>4. Copies' \subseteq Copies /\ WantedCopies' \subseteq WantedCopies
  BY Zenon, <1>2, <1>3 DEF Copies, WantedCopies
<1>5. /\ sent' \in {sent, sent \cup {inHand}} /\ delivered' \subseteq sent'
      /\ sends => inHand \in sent'
      /\ cur' \in curType /\ scan' \in scanType /\ ChangedKept(cur')
      /\ scan' = scan \/ scan'.at = "due"
      /\ cur'.next \in {0, cur.next} /\ cur'.pin = 0
      /\ cur'.base \in {0, cur.base} /\ cur'.holes \subseteq cur.holes
      /\ cur'.next # 0 => cur.holes \ {inHand} \subseteq cur'.holes
      /\ \A k \in scan'.owed : k <= last
      /\ scan'.start <= last + 1 /\ scan'.to <= last
      /\ (ForgottenIsOld /\ IdsKept /\ BaseShape /\ SinceShape /\ ScanShape)'
      /\ (ScanClassifies /\ NothingOwedSkipped /\ HolesUnsent)'
  <2>1. CASE skips
    <3>1. /\ delivered' \subseteq sent' /\ cur' \in curType /\ scan' \in scanType /\ ChangedKept(cur')
          /\ \A k \in scan'.owed : k <= last
          /\ scan'.start <= last + 1 /\ scan'.to <= last
      BY Zenon, <1>1, <2>1, VarF DEF TypeOK, InStream, ChangedKept
    <3>2. (ForgottenIsOld /\ IdsKept /\ BaseShape /\ SinceShape /\ ScanShape)'
      BY Zenon, <1>2, <1>3, <1>4, <2>1 DEF IInv, ForgottenIsOld, IdsKept, BaseShape, SinceShape, ScanShape,
         Forgotten, scanFrom
    <3>3. (ScanClassifies /\ NothingOwedSkipped /\ HolesUnsent)'
      BY Zenon, <1>2, <2>1 DEF IInv, ScanClassifies, scanFrom, NothingOwedSkipped, HolesUnsent, Owed, owedBy
    <3> QED BY Zenon, <1>3, <2>1, <3>1, <3>2, <3>3
  <2>2. CASE sends
    BY Zenon, <1>2, <1>3, <1>4, <2>2, NoteDeliveredStep
  <2> QED BY Zenon, <1>2, <2>1, <2>2
<1>6. TypeOK' /\ InStream'
  <2>1. sent' \subseteq Seqs /\ \A k \in sent' : k <= last
    BY Zenon, <1>1, <1>3, <1>5 DEF TypeOK, InStream
  <2>2. 0 \in 0..MaxSeq
    BY SeqsNat
  <2>3. TypeOK'
    BY Zenon, <1>1, <1>2, <1>5, <2>1, <2>2, IdleF DEF TypeOK
  <2>4. cur'.next <= last + 1 /\ \A k \in cur'.holes : k <= last
    <3>1. 0 <= last + 1
      BY <1>1, VarF
    <3>2. cur.next <= last + 1 /\ \A k \in cur.holes : k <= last
      BY Zenon, <1>1 DEF InStream
    <3> QED BY Zenon, <1>5, <3>1, <3>2
  <2>5. 0 <= last /\ 0 <= last + 1
    BY <1>1, VarF
  <2>6. InStream'
    BY Zenon, <1>1, <1>2, <1>5, <2>1, <2>4, <2>5, IdleF DEF InStream
  <2> QED BY <2>3, <2>6, Zenon
<1>7. (PinShape /\ ReadsRecognise /\ ReplayClassifies)'
  BY Zenon, <1>2, <1>5, IdleF DEF IInv, PinShape, ReadsRecognise, ReplayClassifies, Recognised, resuming
<1>8. CopiesShape'
  <2>1. 0 \notin pending \cup transit
    BY <1>1, SeqsNat, Zenon DEF TypeOK
  <2> QED BY Zenon, <1>2, <1>4, <2>1, IdleF DEF IInv, CopiesShape
<1>9. HeldNotPassed'
  <2>1. (pending' \cup {inHand'}) \ ({0} \cup unwanted') \subseteq
            (pending \cup {inHand}) \ ({0} \cup unwanted \cup {inHand})
    BY Zenon, <1>2, <1>3
  <2> QED BY Zenon, <1>2, <1>5, <2>1 DEF IInv, HeldNotPassed
<1>10. NothingHeldBelowBase'
  BY Zenon, <1>2, <1>5 DEF IInv, NothingHeldBelowBase
<1>11. ResumeShape'
  BY Zenon, <1>2, <1>5, IdleF DEF IInv, ResumeShape, ChangedKept
<1> QED BY Zenon, <1>5, <1>6, <1>7, <1>8, <1>9, <1>10, <1>11 DEF IInv
=============================================================================

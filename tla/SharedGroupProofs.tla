-------------------------- MODULE SharedGroupProofs --------------------------
(***************************************************************************)
(* Shared subscriptions, for every number of sessions, brokers, requests,  *)
(* moves and faults.                                                       *)
(*                                                                         *)
(* A message somebody has is not given to another member: HeldIsKept and   *)
(* OwnedIsKept of module HeldMessage.  The argument is that the message is *)
(* a token: as long as it was not left unguarded, one instance, one        *)
(* session or one nak has it, and when the backlog has it nobody does.     *)
(*                                                                         *)
(* The group of a member whose entry is there has its backlog:             *)
(* MemberHasBacklog of module SharedGroup.                                 *)
(***************************************************************************)
EXTENDS HeldMessage, SharedGroup, TLAPS

----------------------------------------------------------------------------
(* The message: the inductive invariant. *)

Entries == {"none", "hand"} \cup InFlight
States == {"new", "open", "away", "lost", "gone"}
Records == [by : Instances \cup {"none"}, attached : BOOLEAN,
            entry : {"none", "sent", "rel"}, named : BOOLEAN]

TypeOK ==
    /\ js \in {"ready", "pending", "acked"}
    /\ wire \subseteq [do : {"ack", "nak"}, by : Brokers]
    /\ entry \in [Instances -> Entries] /\ named \subseteq Instances
    /\ state \in [Instances -> States]
    /\ rec \in [Clients -> Records]
    /\ up \subseteq Brokers
    /\ unguarded \in BOOLEAN

\* The instance a record names is its client's, and is connected or waits for it
\* as long as its broker runs; no other instance of the client does.
Serving ==
    /\ \A c \in Clients :
          LET i == rec[c].by IN
          i # "none" => /\ ClientOf[i] = c
                        /\ state[i] \in (IF Runs(i) THEN {"open", "away"} ELSE {"gone"})
    /\ \A i \in Instances : state[i] \in {"open", "away"} => rec[ClientOf[i]].by = i

\* A dead broker's instances, and those of a session that was not here yet, have
\* nothing.
Blank ==
    \A i \in Instances : ~Runs(i) \/ state[i] = "new" => entry[i] = "none"

\* What has the subject of the message is in flight; up to the PUBREL, what is in
\* flight in a session has it, and so has the record.
Subjects ==
    /\ \A i \in named : entry[i] \in InFlight
    /\ \A i \in Instances :
          state[i] \in {"open", "away"} /\ entry[i] \in InFlight \ {"rel"} => i \in named
    /\ \A c \in Clients : rec[c].by # "none" /\ rec[c].entry = "sent" => rec[c].named

Hands == {i \in Instances : entry[i] = "hand"}
Naks == {r \in wire : r.do = "nak"}
Acked == js = "acked" \/ \E r \in wire : r.do = "ack"

\* The record has the message, or the instance that serves the session has.
Written(c) == rec[c].by # "none" /\ rec[c].entry # "none" /\ rec[c].named
Holds(c) == Written(c) \/ (rec[c].by # "none" /\ rec[c].by \in named)

\* The message is in one place.
Single ==
    /\ js = "ready" => Hands = {} /\ Naks = {} /\ \A c \in Clients : ~Holds(c)
    /\ \A i, j \in Hands : i = j
    /\ \A r, s \in Naks : r = s
    /\ \A c, d \in Clients : Holds(c) /\ Holds(d) => c = d
    /\ Hands # {} => Naks = {} /\ \A c \in Clients : ~Holds(c)
    /\ Naks # {} => \A c \in Clients : ~Holds(c)

\* A record that has what its instance has not is of a message that is done with,
\* and that of a dead broker is spoken for.
Spoken(c) ==
    Written(c) =>
        IF Runs(rec[c].by) THEN rec[c].by \in named \/ Acked
        ELSE rec[c].attached /\ rec[c].entry = "sent" /\ up # {}

\* A message a client owns is acknowledged or about to be, and nobody who has it
\* will hand it back.
Owns(c) ==
    /\ Written(c) => rec[c].entry = "rel"
    /\ rec[c].by # "none" /\ rec[c].by \in named => Stored(entry[rec[c].by]) = "rel"
Owned ==
    /\ Acked \/ \E i \in named : entry[i] = "written"
    /\ js # "ready" /\ Hands = {} /\ Naks = {}
    /\ \A c \in Clients : Owns(c)

Guarded ==
    js = "acked" \/ unguarded \/
        /\ Single
        /\ \A c \in Clients : Spoken(c)
        /\ owner # "none" => Owned

Sound == TypeOK /\ Serving /\ Blank /\ Subjects
HInv == Sound /\ Guarded

----------------------------------------------------------------------------
(* What a step may do to the message, and that this keeps it in one place. *)

\* inflightState stores a PUBLISH or a PUBREL of what is in flight, and nothing
\* of what is not.
LEMMA StoredFacts ==
    ASSUME NEW e \in Entries
    PROVE  /\ Stored(e) \in {"none", "sent", "rel"}
           /\ Stored(e) = "none" <=> e \notin InFlight
           /\ Stored(e) = "rel" <=> e \in {"queued", "written", "rel"}
  BY Zenon DEF Entries, InFlight, Stored

\* Nobody comes to have the message, no reply is lost, and what was spoken for or
\* owned is.
Quiet ==
    /\ js' \in {js, "acked"}
    /\ Hands' \subseteq Hands /\ Naks' \subseteq Naks
    /\ Acked => Acked'
    /\ \A c \in Clients : /\ Holds(c)' => Holds(c)
                          /\ Spoken(c) => Spoken(c)'
                          /\ Owns(c) => Owns(c)'
    /\ \A i \in named : entry[i] = "written" =>
           Acked' \/ (i \in named' /\ entry'[i] = "written")

\* Such a step keeps the message where it is.
LEMMA QuietKeeps ==
    ASSUME Guarded, unguarded => unguarded', Quiet,
           owner' = owner \/ unguarded \/ js = "acked" \/ Owned'
    PROVE  Guarded'
<1> SUFFICES ASSUME js' # "acked", ~unguarded'
             PROVE  Single' /\ (\A c \in Clients : Spoken(c)') /\ (owner' # "none" => Owned')
  BY Zenon DEF Guarded
<1>1. /\ js' = js /\ js # "acked" /\ ~unguarded
  BY Zenon DEF Quiet
<1>2. /\ Single /\ (\A c \in Clients : Spoken(c)) /\ (owner # "none" => Owned)
  BY <1>1, Zenon DEF Guarded
<1>3. Single'
  BY <1>1, <1>2, Zenon DEF Quiet, Single
<1>4. \A c \in Clients : Spoken(c)'
  BY <1>2, Zenon DEF Quiet
<1>5. owner' # "none" => Owned'
  BY <1>1, <1>2, Zenon DEF Quiet, Owned
<1> QED
  BY <1>3, <1>4, <1>5, Zenon

\* Whoever has the message hands it back.
Returns ==
    /\ Hands # {} \/ \E c \in Clients : Holds(c)
    /\ owner # "none" => ~Owned
    /\ js' = js /\ owner' = owner
    /\ Hands' = {} /\ (\A c \in Clients : ~Holds(c)')
    /\ \E r : Naks' \subseteq Naks \cup {r}

\* Then the nak alone has it.
LEMMA ReturnsKeeps ==
    ASSUME Guarded, unguarded => unguarded', ~unguarded' => Returns,
           js = "acked" => js' = "acked"
    PROVE  Guarded'
<1> SUFFICES ASSUME js' # "acked", ~unguarded'
             PROVE  Single' /\ (\A c \in Clients : Spoken(c)') /\ (owner' # "none" => Owned')
  BY Zenon DEF Guarded
<1>1. js # "acked" /\ ~unguarded /\ Returns
  BY Zenon
<1>2. Single /\ (owner # "none" => Owned)
  BY <1>1, Zenon DEF Guarded
<1>3. owner' = "none"
  BY <1>1, <1>2, Zenon DEF Returns
<1>4. js # "ready" /\ Naks = {}
  BY <1>1, <1>2, Zenon DEF Single, Returns
<1>5. Single'
  BY <1>1, <1>4, Zenon DEF Single, Returns
<1>6. \A c \in Clients : Spoken(c)'
  BY <1>1, Zenon DEF Returns, Holds, Spoken
<1> QED
  BY <1>3, <1>5, <1>6, Zenon

----------------------------------------------------------------------------
(* Steps of one instance that leave the records alone. *)

Wired ==
    /\ js' \in {"ready", "pending", "acked"}
    /\ wire' \subseteq [do : {"ack", "nak"}, by : Brokers]
    /\ unguarded' \in BOOLEAN

\* Instance i has e of the message from now on.
Local(i, e) ==
    /\ Runs(i) /\ state[i] # "new" /\ Becomes(i, e)
    /\ UNCHANGED <<state, rec, up>>
    /\ named \ {i} \subseteq named' /\ named' \subseteq named \cup {i}
    /\ i \in named' => e \in InFlight
    /\ state[i] \in {"open", "away"} /\ e \in InFlight \ {"rel"} => i \in named'

\* A reply names a broker.
LEMMA ReplyFacts ==
    ASSUME TypeOK, NEW i \in Instances, NEW do \in {"ack", "nak"}, Reply(i, do)
    PROVE  /\ wire' \subseteq [do : {"ack", "nak"}, by : Brokers]
           /\ do = "ack" => Acked' /\ Naks' = Naks
           /\ do = "nak" => (Acked /\ js' = js => Acked')
                            /\ \E r : Naks' \subseteq Naks \cup {r}
<1>1. Home[i] \in Brokers
  BY HeldAssumption, SessionsAssumption, Zenon
<1> DEFINE r == [do |-> do, by |-> Home[i]]
<1>2. wire' = wire \cup {r} /\ r.do = do /\ r \in [do : {"ack", "nak"}, by : Brokers]
  BY <1>1, Zenon DEF Reply
<1> HIDE DEF r
<1> QED
  BY <1>2, Zenon DEF TypeOK, Acked, Naks

\* Becomes changes one instance.
LEMMA BecomesFacts ==
    ASSUME TypeOK, NEW i \in Instances, NEW e \in Entries, Becomes(i, e)
    PROVE  /\ entry' \in [Instances -> Entries] /\ entry'[i] = e
           /\ \A j \in Instances : j # i => entry'[j] = entry[j]
  BY Zenon DEF TypeOK, Becomes

\* Such a step leaves the sessions as they should be.
LEMMA LocalSound ==
    ASSUME Sound, NEW i \in Instances, NEW e \in Entries, Local(i, e), Wired
    PROVE  Sound'
<1>t. TypeOK /\ Serving /\ Blank /\ Subjects
  BY Zenon DEF Sound
<1>1. /\ entry' \in [Instances -> Entries] /\ entry'[i] = e
      /\ \A j \in Instances : j # i => entry'[j] = entry[j]
  BY <1>t, BecomesFacts, Zenon DEF Local
<1>2. /\ UNCHANGED <<state, rec, up>> /\ Runs(i) /\ state[i] # "new"
      /\ \A j \in Instances : j # i => (j \in named' <=> j \in named)
      /\ named' \subseteq Instances
      /\ i \in named' => e \in InFlight
      /\ state[i] \in {"open", "away"} /\ e \in InFlight \ {"rel"} => i \in named'
  BY <1>t, Zenon DEF Local, TypeOK
<1>3. TypeOK'
  BY <1>t, <1>1, <1>2, Zenon DEF TypeOK, Wired
<1>4. Serving'
  BY <1>t, <1>2, Zenon DEF Serving, Runs
<1>5. Blank'
  BY <1>t, <1>1, <1>2, Zenon DEF Blank, Runs
<1>6. Subjects'
  <2>1. \A j \in named' : entry'[j] \in InFlight
    BY <1>t, <1>1, <1>2, Zenon DEF Subjects
  <2>2. \A j \in Instances :
          state'[j] \in {"open", "away"} /\ entry'[j] \in InFlight \ {"rel"} => j \in named'
    BY <1>t, <1>1, <1>2, Zenon DEF Subjects
  <2> QED
    BY <1>t, <1>2, <2>1, <2>2, Zenon DEF Subjects
<1> QED
  BY <1>3, <1>4, <1>5, <1>6, Zenon DEF Sound

\* It gives nobody the message if i does not come to have it, and what i lets go
\* of is acknowledged.
LEMMA LocalQuiet ==
    ASSUME Sound, NEW i \in Instances, NEW e \in Entries, Local(i, e),
           js' = js, Naks' = Naks, Acked => Acked',
           e # "hand", i \in named' => i \in named,
           i \in named /\ i \notin named' /\ rec[ClientOf[i]].by = i => Acked',
           i \in named /\ entry[i] = "written" => Acked' \/ (i \in named' /\ e = "written"),
           i \in named' /\ Stored(entry[i]) = "rel" => Stored(e) = "rel"
    PROVE  Quiet
<1>t. TypeOK /\ Serving
  BY Zenon DEF Sound
<1>1. /\ entry' \in [Instances -> Entries] /\ entry'[i] = e
      /\ \A j \in Instances : j # i => entry'[j] = entry[j]
  BY <1>t, BecomesFacts, Zenon DEF Local
<1>2. /\ UNCHANGED <<state, rec, up>> /\ Runs(i)
      /\ \A j \in Instances : j # i => (j \in named' <=> j \in named)
  BY <1>t, Zenon DEF Local, TypeOK
<1>3. named \subseteq Instances /\ named' \subseteq named
  BY <1>t, <1>2, Zenon DEF TypeOK, Local
<1>4. Hands' \subseteq Hands
  BY <1>1, Zenon DEF Hands
<1>5. ASSUME NEW c \in Clients
      PROVE  /\ Holds(c)' => Holds(c)
             /\ Spoken(c) => Spoken(c)'
             /\ Owns(c) => Owns(c)'
  <2> DEFINE j == rec[c].by
  <2>1. j # "none" => j \in Instances /\ ClientOf[j] = c
    BY <1>t DEF Serving, TypeOK, Records
  <2>2. Written(c)' = Written(c) /\ rec' = rec /\ up' = up
    BY <1>2, Zenon DEF Written
  <2>3. Holds(c)' => Holds(c)
    BY <1>3, <2>2, Zenon DEF Holds
  <2>4. Spoken(c) => Spoken(c)'
    <3>1. Written(c) => j # "none"
      BY Zenon DEF Written
    <3>2. Written(c) /\ j \in named => j \in named' \/ Acked'
      BY <1>2, <2>1, <3>1, Zenon
    <3> QED
      BY <2>2, <3>2, Zenon DEF Spoken, Runs
  <2>5. Owns(c) => Owns(c)'
    <3>1. j # "none" /\ j \in named' /\ Stored(entry[j]) = "rel" => Stored(entry'[j]) = "rel"
      BY <1>1, <2>1, Zenon
    <3> QED
      BY <1>3, <2>2, <3>1, Zenon DEF Owns
  <2> QED
    BY <2>3, <2>4, <2>5, Zenon
<1>6. \A j \in named : entry[j] = "written" =>
         Acked' \/ (j \in named' /\ entry'[j] = "written")
  BY <1>1, <1>2, <1>3, Zenon
<1> QED
  BY <1>4, <1>5, <1>6, Zenon DEF Quiet

----------------------------------------------------------------------------
(* JetStream. *)

\* The backlog changes, and no session does.
LEMMA SameSound ==
    ASSUME Sound, UNCHANGED <<entry, named, state, rec, up>>, Wired
    PROVE  Sound'
  BY Zenon DEF Sound, TypeOK, Wired, Serving, Blank, Subjects, Runs

\* An acknowledgement, or the nak of a message nobody else has, arrives.
LEMMA ArriveKeeps ==
    ASSUME HInv, NEW r \in wire, Arrive(r)
    PROVE  HInv'
<1>t. Sound /\ TypeOK /\ Guarded
  BY Zenon DEF HInv, Sound
<1>1. /\ UNCHANGED <<entry, named, state, rec, up, owner, unguarded>>
      /\ wire' = wire \ {r}
      /\ r.do \in {"ack", "nak"}
      /\ js' = CASE r.do = "ack" -> "acked"
                 [] r.do = "nak" /\ js = "pending" -> "ready"
                 [] OTHER -> js
  BY <1>t, Zenon DEF Arrive, sessVars, ghosts, TypeOK
<1>2. Wired
  BY <1>t, <1>1, Zenon DEF Wired, TypeOK
<1>3. Sound'
  BY <1>t, <1>1, <1>2, SameSound, Zenon
<1>4. Guarded'
  <2>1. CASE unguarded
    BY <1>1, <2>1, Zenon DEF Guarded
  <2>2. CASE r.do = "ack" \/ js = "acked"
    BY <1>1, <2>2, Zenon DEF Guarded
  <2>3. CASE ~unguarded /\ r.do # "ack" /\ js # "acked"
    <3>1. Single /\ (owner # "none" => Owned)
      BY <1>t, <2>3, Zenon DEF Guarded
    <3>2. r \in Naks
      BY <1>1, <2>3, Zenon DEF Naks
    <3>3. owner' = "none"
      BY <1>1, <3>1, <3>2, Zenon DEF Owned
    <3>4. /\ Hands = {} /\ (\A c \in Clients : ~Holds(c)) /\ (\A s \in Naks : s = r)
      BY <3>1, <3>2, Zenon DEF Single
    <3>5. Hands' = {} /\ Naks' = {} /\ \A c \in Clients : ~Holds(c)'
      BY <1>1, <3>4, Zenon DEF Hands, Naks, Holds, Written
    <3>6. Single' /\ \A c \in Clients : Spoken(c)'
      BY <3>5, Zenon DEF Single, Spoken, Holds
    <3> QED
      BY <3>3, <3>6, Zenon DEF Guarded
  <2> QED
    BY <2>1, <2>2, <2>3, Zenon
<1> QED
  BY <1>3, <1>4, Zenon DEF HInv

\* The AckWait runs out on nobody's message.
LEMMA AckWaitKeeps ==
    ASSUME HInv, AckWait
    PROVE  HInv'
<1>t. Sound /\ TypeOK /\ Serving /\ Blank /\ Subjects /\ Guarded
  BY Zenon DEF HInv, Sound
<1>1. /\ UNCHANGED <<entry, named, state, rec, up, owner, unguarded, wire>>
      /\ wire = {} /\ js = "pending" /\ js' = "ready"
      /\ \A i \in Instances : ~(Runs(i) /\ (InHand(i) \/ heldHere(i)))
      /\ \A c \in Clients : ~orphanHeld(c)
  BY Zenon DEF AckWait, sessVars, ghosts
<1>2. Sound'
  BY <1>t, <1>1, SameSound, Zenon DEF Wired, TypeOK
<1>3. Guarded'
  <2> SUFFICES ASSUME ~unguarded
               PROVE  /\ Single' /\ (\A c \in Clients : Spoken(c)')
                      /\ owner' = "none"
    BY <1>1, Zenon DEF Guarded
  <2>1. (\A c \in Clients : Spoken(c)) /\ (owner # "none" => Owned)
    BY <1>t, <1>1, Zenon DEF Guarded
  <2>2. ~Acked /\ Naks = {}
    BY <1>1, Zenon DEF Acked, Naks
  <2>3. \A i \in named : Runs(i) /\ entry[i] \in InFlight /\ i \in Instances
    BY <1>t, Zenon DEF Subjects, Blank, TypeOK, InFlight
  <2>4. Hands = {}
    <3>1. \A i \in Instances : entry[i] = "hand" => Runs(i) /\ InHand(i)
      BY <1>t, Zenon DEF Blank, InHand
    <3> QED
      BY <1>1, <3>1, Zenon DEF Hands
  <2>5. ASSUME NEW c \in Clients, Holds(c)
        PROVE  FALSE
    <3> DEFINE i == rec[c].by
    <3>1. i # "none" /\ i \in Instances
      BY <1>t, <2>5, Zenon DEF Holds, Written, TypeOK, Records
    <3>2. CASE i \in named
      <4>1. Runs(i) /\ entry[i] \in InFlight
        BY <2>3, <3>2, Zenon
      <4>2. state[i] \in {"open", "away"}
        BY <1>t, <3>1, <4>1, Zenon DEF Serving
      <4> QED
        BY <1>1, <3>1, <3>2, <4>1, <4>2, Zenon DEF heldHere
    <3>3. CASE i \notin named
      <4>1. Written(c) /\ ~Runs(i)
        BY <2>1, <2>2, <2>5, <3>3, Zenon DEF Holds, Spoken
      <4>2. orphanHeld(c)
        BY <2>1, <4>1, Zenon DEF Spoken, Written, orphanHeld
      <4> QED
        BY <1>1, <4>2, Zenon
    <3> QED
      BY <3>2, <3>3, Zenon
  <2>6. owner = "none"
    <3>1. \A i \in named : entry[i] # "written"
      BY <1>1, <2>3, Zenon DEF InHand
    <3> QED
      BY <2>1, <2>2, <3>1, Zenon DEF Owned
  <2>7. Hands' = {} /\ Naks' = {} /\ \A c \in Clients : ~Holds(c)'
    BY <1>1, <2>2, <2>4, <2>5, Zenon DEF Hands, Naks, Holds, Written
  <2>8. Single' /\ \A c \in Clients : Spoken(c)'
    BY <2>7, Zenon DEF Single, Spoken, Holds
  <2> QED
    BY <1>1, <2>6, <2>8, Zenon
<1> QED
  BY <1>2, <1>3, Zenon DEF HInv

\* A survivor gives up a session nobody has restored.
LEMMA OrphanLimitKeeps ==
    ASSUME HInv, NEW c \in Clients, OrphanLimit(c)
    PROVE  HInv'
<1>t. Sound /\ TypeOK
  BY Zenon DEF HInv, Sound
<1>1. /\ UNCHANGED <<entry, named, state, rec, up, js>> /\ unguarded'
  BY Zenon DEF OrphanLimit, sessVars
<1>2. PICK b \in up : wire' = wire \cup {[do |-> "nak", by |-> b]}
  BY Zenon DEF OrphanLimit
<1>3. b \in Brokers
  BY <1>t, Zenon DEF TypeOK
<1>4. Wired
  BY <1>t, <1>1, <1>2, <1>3 DEF Wired, TypeOK, OrphanLimit
<1> QED
  BY <1>t, <1>1, <1>4, SameSound, Zenon DEF HInv, Guarded

----------------------------------------------------------------------------
(* The puller and the delivery goroutine. *)

\* Somebody has the message: nobody else has.
LEMMA HandFacts ==
    ASSUME Guarded, ~unguarded, js # "acked", NEW i \in Instances, entry[i] = "hand"
    PROVE  /\ js # "ready" /\ Naks = {} /\ owner = "none"
           /\ \A j \in Instances : entry[j] = "hand" => j = i
           /\ \A c \in Clients : ~Holds(c)
<1>1. Single /\ (owner # "none" => Owned)
  BY Zenon DEF Guarded
<1>2. i \in Hands
  BY Zenon DEF Hands
<1>3. \A j \in Instances : entry[j] = "hand" => j \in Hands
  BY Zenon DEF Hands
<1> QED
  BY <1>1, <1>2, <1>3, Zenon DEF Single, Owned

\* The puller takes the message from JetStream into its hand (pull).
LEMMA FetchKeeps ==
    ASSUME HInv, NEW i \in Instances, Fetch(i)
    PROVE  HInv'
<1>t. Sound /\ TypeOK /\ Serving /\ Subjects /\ Guarded
  BY Zenon DEF HInv, Sound
<1>1. /\ Runs(i) /\ state[i] = "open" /\ entry[i] = "none" /\ js = "ready"
      /\ js' = "pending" /\ Becomes(i, "hand")
      /\ UNCHANGED <<wire, named, state, rec, up, owner, unguarded>>
  BY Zenon DEF Fetch, fetch, ghosts
<1>2. i \notin named
  BY <1>t, <1>1, Zenon DEF Subjects, InFlight
<1>3. Local(i, "hand") /\ "hand" \in Entries
  BY <1>1, <1>2, Zenon DEF Local, Entries, InFlight
<1>4. Sound'
  BY <1>t, <1>1, <1>3, LocalSound, Zenon DEF Wired, TypeOK
<1>5. Guarded'
  <2> SUFFICES ASSUME ~unguarded
               PROVE  Single' /\ (\A c \in Clients : Spoken(c)') /\ owner' = "none"
    BY <1>1, Zenon DEF Guarded
  <2>1. Single /\ (owner # "none" => Owned)
    BY <1>t, <1>1, Zenon DEF Guarded
  <2>2. Hands = {} /\ Naks = {} /\ \A c \in Clients : ~Holds(c)
    BY <1>1, <2>1, Zenon DEF Single
  <2>3. entry' = [entry EXCEPT ![i] = "hand"] /\ entry \in [Instances -> Entries]
    BY <1>t, <1>1, Zenon DEF Becomes, TypeOK
  <2>4. Hands' = {i}
    BY <2>2, <2>3, Zenon DEF Hands
  <2>5. Naks' = {} /\ \A c \in Clients : ~Holds(c)'
    BY <1>1, <2>2, Zenon DEF Naks, Holds, Written
  <2>6. Single' /\ \A c \in Clients : Spoken(c)'
    BY <1>1, <2>4, <2>5, Zenon DEF Single, Spoken, Holds
  <2> QED
    BY <1>1, <2>1, <2>6, Zenon DEF Owned
<1> QED
  BY <1>4, <1>5, Zenon DEF HInv

\* What the puller has in hand goes back as one nak (pullOne).
LEMMA HandBackKeeps ==
    ASSUME HInv, NEW i \in Instances, HandBack(i)
    PROVE  HInv'
<1>t. Sound /\ TypeOK /\ Serving /\ Blank /\ Subjects /\ Guarded
  BY Zenon DEF HInv, Sound
<1>1. /\ Runs(i) /\ entry[i] = "hand" /\ Becomes(i, "none") /\ Reply(i, "nak")
      /\ UNCHANGED <<js, named, state, rec, up, owner, unguarded>>
  BY Zenon DEF HandBack, ghosts
<1>2. i \notin named /\ state[i] # "new"
  BY <1>t, <1>1, Zenon DEF Subjects, Blank, InFlight
<1>3. Local(i, "none") /\ "none" \in Entries
  BY <1>1, <1>2, Zenon DEF Local, Entries, InFlight
<1>4. /\ wire' \subseteq [do : {"ack", "nak"}, by : Brokers]
      /\ \E r : Naks' \subseteq Naks \cup {r}
  BY <1>t, <1>1, ReplyFacts, Zenon
<1>5. Sound'
  BY <1>t, <1>1, <1>3, <1>4, LocalSound, Zenon DEF Wired, TypeOK
<1>6. ASSUME ~unguarded, js # "acked" PROVE Returns
  <2>1. /\ owner = "none" /\ (\A j \in Instances : entry[j] = "hand" => j = i)
        /\ \A c \in Clients : ~Holds(c)
    BY <1>t, <1>1, <1>6, HandFacts, Zenon
  <2>2. entry' = [entry EXCEPT ![i] = "none"] /\ entry \in [Instances -> Entries]
    BY <1>t, <1>1, Zenon DEF Becomes, TypeOK
  <2>3. Hands' = {} /\ i \in Hands
    BY <1>1, <2>1, <2>2, Zenon DEF Hands
  <2>4. \A c \in Clients : ~Holds(c)'
    BY <1>1, <2>1, Zenon DEF Holds, Written
  <2> QED
    BY <1>1, <1>4, <2>1, <2>3, <2>4, Zenon DEF Returns
<1>7. Guarded'
  BY <1>t, <1>1, <1>6, ReturnsKeeps, Zenon DEF Guarded
<1> QED
  BY <1>5, <1>7, Zenon DEF HInv

\* The message goes from the hand into the in-flight set that names it (prepare).
LEMMA TrackKeeps ==
    ASSUME HInv, NEW i \in Instances, Track(i)
    PROVE  HInv'
<1>t. Sound /\ TypeOK /\ Serving /\ Blank /\ Subjects /\ Guarded
  BY Zenon DEF HInv, Sound
<1>1. /\ Runs(i) /\ entry[i] = "hand" /\ Becomes(i, "tracked") /\ named' = named \cup {i}
      /\ UNCHANGED <<js, wire, state, rec, up, owner, unguarded>>
  BY Zenon DEF Track, pullerDone, ghosts
<1>2. i \notin named /\ state[i] # "new"
  BY <1>t, <1>1, Zenon DEF Subjects, Blank, InFlight
<1>3. Local(i, "tracked") /\ "tracked" \in Entries
  BY <1>1, <1>2, Zenon DEF Local, Entries, InFlight
<1>4. Sound'
  BY <1>t, <1>1, <1>3, LocalSound, Zenon DEF Wired, TypeOK
<1>5. Guarded'
  <2> SUFFICES ASSUME ~unguarded, js # "acked"
               PROVE  Single' /\ (\A c \in Clients : Spoken(c)') /\ owner' = "none"
    BY <1>1, Zenon DEF Guarded
  <2>1. /\ js # "ready" /\ Naks = {} /\ owner = "none"
        /\ \A j \in Instances : entry[j] = "hand" => j = i
        /\ \A c \in Clients : ~Holds(c)
    BY <1>t, <1>1, HandFacts, Zenon
  <2>2. entry' = [entry EXCEPT ![i] = "tracked"] /\ entry \in [Instances -> Entries]
    BY <1>t, <1>1, Zenon DEF Becomes, TypeOK
  <2>3. Hands' = {}
    BY <2>1, <2>2, Zenon DEF Hands
  <2>4. Naks' = {}
    BY <1>1, <2>1, Zenon DEF Naks
  <2>5. \A c \in Clients : ~Written(c)'
    BY <1>1, <2>1, Zenon DEF Written, Holds
  <2>6. \A c \in Clients : Holds(c)' => c = ClientOf[i]
    BY <1>t, <1>1, <2>1, <2>5, Zenon DEF Holds, Serving
  <2>7. Single' /\ \A c \in Clients : Spoken(c)'
    BY <1>1, <2>1, <2>3, <2>4, <2>5, <2>6, Zenon DEF Single, Spoken
  <2> QED
    BY <1>1, <2>1, <2>7, Zenon
<1> QED
  BY <1>4, <1>5, Zenon DEF HInv

\* While one client holds the message nobody else has it and it is not on its way
\* back.
LEMMA HoldsFacts ==
    ASSUME Guarded, ~unguarded, js # "acked", NEW c \in Clients, Holds(c)
    PROVE  /\ js # "ready" /\ Naks = {} /\ Hands = {}
           /\ \A d \in Clients : Holds(d) => d = c
<1>1. Single
  BY Zenon DEF Guarded
<1> QED
  BY <1>1, Zenon DEF Single

\* A message that is sent stays in the in-flight set it was in (sendPrepared).
LEMMA SendKeeps ==
    ASSUME HInv, NEW i \in Instances, Send(i)
    PROVE  HInv'
<1>t. Sound /\ TypeOK /\ Subjects /\ Guarded
  BY Zenon DEF HInv, Sound
<1>1. /\ Runs(i) /\ state[i] \in {"open", "lost"} /\ entry[i] \in {"recorded", "tracked"}
      /\ Becomes(i, "sent")
      /\ UNCHANGED <<js, wire, named, state, rec, up, owner, unguarded>>
  BY Zenon DEF Send, backlog
<1>2. Local(i, "sent") /\ "sent" \in Entries
  BY <1>t, <1>1, Zenon DEF Local, Entries, InFlight, Subjects
<1>3. Sound'
  BY <1>t, <1>1, <1>2, LocalSound, Zenon DEF Wired, TypeOK
<1>4. Naks' = Naks /\ (Acked => Acked') /\ Stored(entry[i]) # "rel"
  BY <1>1, StoredFacts, Zenon DEF Naks, Acked, Entries, InFlight
<1>5. Quiet
  BY <1>t, <1>1, <1>2, <1>4, LocalQuiet, Zenon
<1> QED
  BY <1>t, <1>1, <1>3, <1>5, QuietKeeps, Zenon DEF HInv

\* The client's answers: what they let go of is acknowledged.
LEMMA CompleteKeeps ==
    ASSUME HInv, NEW i \in Instances, Complete(i)
    PROVE  HInv'
<1>t. Sound /\ TypeOK /\ Subjects /\ Guarded
  BY Zenon DEF HInv, Sound
<1>1. /\ Runs(i) /\ state[i] \in {"open", "lost"} /\ entry[i] \in {"sent", "rel"}
      /\ Becomes(i, "none") /\ named' = named \ {i} /\ acks(i)
      /\ UNCHANGED <<js, state, rec, up, owner, unguarded>>
  BY Zenon DEF Complete, Reads
<1>2. Local(i, "none") /\ "none" \in Entries
  BY <1>1, Zenon DEF Local, Entries, InFlight
<1>3. /\ wire' \subseteq [do : {"ack", "nak"}, by : Brokers] /\ Naks' = Naks
      /\ (i \in named => Acked') /\ (Acked => Acked')
  <2>1. CASE i \in named
    BY <1>t, <1>1, <2>1, ReplyFacts, Zenon DEF acks
  <2>2. CASE i \notin named
    BY <1>t, <1>1, <2>2, Zenon DEF acks, TypeOK, Naks, Acked
  <2> QED
    BY <2>1, <2>2, Zenon
<1>4. Sound'
  BY <1>t, <1>1, <1>2, <1>3, LocalSound, Zenon DEF Wired, TypeOK
<1>5. Quiet
  BY <1>t, <1>1, <1>2, <1>3, LocalQuiet, Zenon
<1> QED
  BY <1>t, <1>1, <1>4, <1>5, QuietKeeps, Zenon DEF HInv

\* A PUBREC moves the message on inside the in-flight set (handlePubrec).
LEMMA PubrecKeeps ==
    ASSUME HInv, NEW i \in Instances, Pubrec(i)
    PROVE  HInv'
<1>t. Sound /\ TypeOK /\ Subjects /\ Guarded
  BY Zenon DEF HInv, Sound
<1>1. /\ Runs(i) /\ state[i] \in {"open", "lost"} /\ entry[i] = "sent"
      /\ Becomes(i, "queued")
      /\ UNCHANGED <<js, wire, named, state, rec, up, owner, unguarded>>
  BY Zenon DEF Pubrec, Reads, backlog
<1>2. Local(i, "queued") /\ "queued" \in Entries
  BY <1>t, <1>1, Zenon DEF Local, Entries, InFlight, Subjects
<1>3. Sound'
  BY <1>t, <1>1, <1>2, LocalSound, Zenon DEF Wired, TypeOK
<1>4. Naks' = Naks /\ (Acked => Acked') /\ Stored("queued") = "rel"
  BY <1>1, <1>2, StoredFacts, Zenon DEF Naks, Acked
<1>5. Quiet
  BY <1>t, <1>1, <1>2, <1>4, LocalQuiet, Zenon
<1> QED
  BY <1>t, <1>1, <1>3, <1>5, QuietKeeps, Zenon DEF HInv

\* settleOwned tells the group before it forgets the subject.
LEMMA SettleOwnedKeeps ==
    ASSUME HInv, NEW i \in Instances, SettleOwned(i)
    PROVE  HInv'
<1>t. Sound /\ TypeOK /\ Blank /\ Subjects /\ Guarded
  BY Zenon DEF HInv, Sound
<1>1. /\ Runs(i) /\ entry[i] = "written" /\ Becomes(i, "rel") /\ settles(i)
      /\ UNCHANGED <<js, state, rec, up, owner, unguarded>>
  BY Zenon DEF SettleOwned, ghosts
<1>2. /\ named' = named \ {i} /\ state[i] # "new"
  BY <1>t, <1>1, Zenon DEF settles, Blank
<1>3. Local(i, "rel") /\ "rel" \in Entries
  BY <1>1, <1>2, Zenon DEF Local, Entries, InFlight
<1>4. /\ wire' \subseteq [do : {"ack", "nak"}, by : Brokers] /\ Naks' = Naks
      /\ (i \in named => Acked') /\ (Acked => Acked')
  <2>1. CASE i \in named
    BY <1>t, <1>1, <2>1, ReplyFacts, Zenon DEF settles
  <2>2. CASE i \notin named
    BY <1>t, <1>1, <2>2, Zenon DEF settles, TypeOK, Naks, Acked
  <2> QED
    BY <2>1, <2>2, Zenon
<1>5. Sound'
  BY <1>t, <1>1, <1>3, <1>4, LocalSound, Zenon DEF Wired, TypeOK
<1>6. Quiet
  BY <1>t, <1>1, <1>2, <1>3, <1>4, LocalQuiet, Zenon
<1> QED
  BY <1>t, <1>1, <1>5, <1>6, QuietKeeps, Zenon DEF HInv

\* heldSubjects gives up what the session, and nothing else, has.
LEMMA HoldLimitKeeps ==
    ASSUME HInv, NEW i \in Instances, HoldLimit(i)
    PROVE  HInv'
<1>t. Sound /\ TypeOK /\ Serving /\ Subjects /\ Guarded
  BY Zenon DEF HInv, Sound
<1> DEFINE c == ClientOf[i]
<1>1. /\ Runs(i) /\ state[i] \in {"open", "away", "lost"} /\ i \in named
      /\ entry[i] = "sent" /\ Becomes(i, "none") /\ named' = named \ {i}
      /\ Reply(i, "nak") /\ UNCHANGED <<js, state, rec, up, owner>>
      /\ unguarded' = (unguarded \/ state[i] = "lost" \/ rec[c].named)
      /\ c \in Clients
  BY HeldAssumption, SessionsAssumption, Zenon DEF HoldLimit, heldHere
<1>2. Local(i, "none") /\ "none" \in Entries
  BY <1>1, Zenon DEF Local, Entries, InFlight
<1>3. /\ wire' \subseteq [do : {"ack", "nak"}, by : Brokers]
      /\ \E r : Naks' \subseteq Naks \cup {r}
  BY <1>t, <1>1, ReplyFacts, Zenon
<1>4. Sound'
  BY <1>t, <1>1, <1>2, <1>3, LocalSound, Zenon DEF Wired, TypeOK
<1>5. ASSUME ~unguarded', js # "acked" PROVE Returns
  <2>1. ~unguarded /\ ~rec[c].named /\ rec[c].by = i /\ i # "none"
    BY <1>t, <1>1, <1>5, HeldAssumption, SessionsAssumption, Zenon DEF Serving
  <2>2. Holds(c)
    BY <1>1, <2>1, Zenon DEF Holds
  <2>3. Hands = {} /\ \A d \in Clients : Holds(d) => d = c
    BY <1>t, <1>1, <1>5, <2>1, <2>2, HoldsFacts, Zenon
  <2>4. entry' = [entry EXCEPT ![i] = "none"] /\ entry \in [Instances -> Entries]
    BY <1>t, <1>1, Zenon DEF Becomes, TypeOK
  <2>5. Hands' = {}
    BY <2>3, <2>4, Zenon DEF Hands
  <2>6. \A d \in Clients : ~Holds(d)'
    <3>1. \A d \in Clients : Holds(d)' => Holds(d)
      BY <1>1, Zenon DEF Holds, Written
    <3>2. ~Holds(c)'
      BY <1>1, <2>1, Zenon DEF Holds, Written
    <3> QED
      BY <2>3, <3>1, <3>2, Zenon
  <2>7. ~Owned
    <3>1. Stored(entry[i]) # "rel"
      BY <1>1, StoredFacts, Zenon DEF Entries, InFlight
    <3> QED
      BY <1>1, <2>1, <3>1, Zenon DEF Owned, Owns
  <2> QED
    BY <1>1, <1>3, <2>2, <2>5, <2>6, <2>7, Zenon DEF Returns
<1>6. Guarded'
  BY <1>t, <1>1, <1>5, ReturnsKeeps, Zenon DEF Guarded
<1> QED
  BY <1>4, <1>6, Zenon DEF HInv

----------------------------------------------------------------------------
(* Steps of one instance that write its record. *)

\* Instance i has e of the message, and its record says so.
Saves(i, e) ==
    LET c == ClientOf[i] IN
    /\ Runs(i) /\ state[i] = "open" /\ rec[c].by = i
    /\ Becomes(i, e) /\ up' = up
    /\ named \ {i} \subseteq named' /\ named' \subseteq named \cup {i}
    /\ i \in named' => e \in InFlight
    /\ e \in InFlight \ {"rel"} => i \in named'
    /\ \E s \in {"open", "away"} : state' = [state EXCEPT ![i] = s]
    /\ \E r \in Records :
          /\ rec' = [rec EXCEPT ![c] = r]
          /\ r.by = i /\ r.entry = Stored(e) /\ r.named = (i \in named')

\* What Saves leaves behind.
LEMMA SavesFacts ==
    ASSUME Sound, NEW i \in Instances, NEW e \in Entries, Saves(i, e)
    PROVE  /\ ClientOf[i] \in Clients /\ i # "none"
           /\ entry' \in [Instances -> Entries] /\ entry'[i] = e
           /\ \A j \in Instances : j # i => /\ entry'[j] = entry[j] /\ state'[j] = state[j]
                                            /\ j \in named' <=> j \in named
           /\ state' \in [Instances -> States] /\ state'[i] \in {"open", "away"}
           /\ rec' \in [Clients -> Records] /\ named' \subseteq Instances
           /\ rec'[ClientOf[i]].by = i /\ rec'[ClientOf[i]].entry = Stored(e)
           /\ rec'[ClientOf[i]].named = (i \in named')
           /\ \A c \in Clients : c # ClientOf[i] => rec'[c] = rec[c] /\ rec[c].by # i
<1>t. TypeOK /\ Serving
  BY Zenon DEF Sound
<1>1. ClientOf[i] \in Clients /\ i # "none"
  BY HeldAssumption, SessionsAssumption, Zenon
<1>2. /\ entry' \in [Instances -> Entries] /\ entry'[i] = e
      /\ \A j \in Instances : j # i => entry'[j] = entry[j]
  BY <1>t, BecomesFacts, Zenon DEF Saves
<1>3. /\ named' \subseteq Instances
      /\ \A j \in Instances : j # i => (j \in named' <=> j \in named)
  BY <1>t, Zenon DEF Saves, TypeOK
<1>4. /\ state' \in [Instances -> States] /\ state'[i] \in {"open", "away"}
      /\ \A j \in Instances : j # i => state'[j] = state[j]
  BY <1>t DEF Saves, TypeOK, States
<1>5. PICK r \in Records :
          /\ rec' = [rec EXCEPT ![ClientOf[i]] = r]
          /\ r.by = i /\ r.entry = Stored(e) /\ r.named = (i \in named')
  BY Zenon DEF Saves
<1>6. rec \in [Clients -> Records]
  BY <1>t, Zenon DEF TypeOK
<1>8. /\ rec' \in [Clients -> Records] /\ rec'[ClientOf[i]] = r
      /\ \A c \in Clients : c # ClientOf[i] => rec'[c] = rec[c]
  BY <1>1, <1>5, <1>6, Zenon
<1>9. \A c \in Clients : c # ClientOf[i] => rec[c].by # i
  BY <1>t, <1>1, Zenon DEF Serving
<1> QED
  BY <1>1, <1>2, <1>3, <1>4, <1>5, <1>8, <1>9, Zenon

\* A save of the record leaves each record with the instance that serves it.
LEMMA SavesSound ==
    ASSUME Sound, NEW i \in Instances, NEW e \in Entries, Saves(i, e), Wired
    PROVE  Sound'
<1>t. TypeOK /\ Serving /\ Blank /\ Subjects
  BY Zenon DEF Sound
<1> DEFINE c == ClientOf[i]
<1>1. /\ c \in Clients /\ i # "none"
      /\ entry' \in [Instances -> Entries] /\ entry'[i] = e
      /\ \A j \in Instances : j # i => /\ entry'[j] = entry[j] /\ state'[j] = state[j]
                                       /\ j \in named' <=> j \in named
      /\ state' \in [Instances -> States] /\ state'[i] \in {"open", "away"}
      /\ rec' \in [Clients -> Records] /\ named' \subseteq Instances
      /\ rec'[c].by = i /\ rec'[c].entry = Stored(e)
      /\ rec'[c].named = (i \in named')
      /\ \A d \in Clients : d # c => rec'[d] = rec[d] /\ rec[d].by # i
  BY SavesFacts, Zenon
<1>2. /\ Runs(i) /\ state[i] = "open" /\ rec[c].by = i /\ up' = up
      /\ i \in named' => e \in InFlight
      /\ e \in InFlight \ {"rel"} => i \in named'
  BY Zenon DEF Saves
<1>3. TypeOK'
  BY <1>t, <1>1, <1>2, Zenon DEF TypeOK, Wired
<1>4. Serving'
  <2>1. ASSUME NEW d \in Clients, rec'[d].by # "none"
        PROVE  /\ ClientOf[rec'[d].by] = d
               /\ state'[rec'[d].by] \in
                     (IF Runs(rec'[d].by) THEN {"open", "away"} ELSE {"gone"})
    <3>1. CASE d = c
      BY <1>1, <1>2, <3>1, Zenon
    <3>2. CASE d # c
      <4>1. rec'[d] = rec[d] /\ rec[d].by # i /\ rec[d].by \in Instances
        BY <1>t, <1>1, <2>1, <3>2 DEF TypeOK, Records
      <4>2. /\ ClientOf[rec[d].by] = d
            /\ state[rec[d].by] \in
                  (IF Runs(rec[d].by) THEN {"open", "away"} ELSE {"gone"})
        BY <1>t, <4>1, <2>1, Zenon DEF Serving
      <4> QED
        BY <1>1, <4>1, <4>2
    <3> QED
      BY <3>1, <3>2, Zenon
  <2>2. ASSUME NEW j \in Instances, state'[j] \in {"open", "away"}
        PROVE  rec'[ClientOf[j]].by = j
    <3>1. ClientOf[j] \in Clients
      BY HeldAssumption, SessionsAssumption, Zenon
    <3>2. CASE j = i
      BY <1>1, <3>2, Zenon
    <3>3. CASE j # i
      <4>1. rec[ClientOf[j]].by = j
        BY <1>t, <1>1, <2>2, <3>3, Zenon DEF Serving
      <4> QED
        BY <1>1, <1>2, <3>1, <3>3, <4>1, Zenon
    <3> QED
      BY <3>2, <3>3, Zenon
  <2> QED
    BY <1>2, <2>1, <2>2, Zenon DEF Serving, Runs
<1>5. Blank'
  BY <1>t, <1>1, <1>2, Zenon DEF Blank, Runs
<1>6. Subjects'
  <2>1. \A j \in named' : entry'[j] \in InFlight
    BY <1>t, <1>1, <1>2, Zenon DEF Subjects
  <2>2. \A j \in Instances :
          state'[j] \in {"open", "away"} /\ entry'[j] \in InFlight \ {"rel"} => j \in named'
    BY <1>t, <1>1, <1>2, Zenon DEF Subjects
  <2>3. Stored(e) = "sent" => e \in InFlight \ {"rel"}
    BY StoredFacts, Zenon
  <2>4. \A d \in Clients : rec'[d].by # "none" /\ rec'[d].entry = "sent" => rec'[d].named
    BY <1>t, <1>1, <1>2, <2>3, Zenon DEF Subjects
  <2> QED
    BY <2>1, <2>2, <2>4, Zenon DEF Subjects
<1> QED
  BY <1>3, <1>4, <1>5, <1>6, Zenon DEF Sound

\* It gives nobody the message if i has it already.
LEMMA SavesQuiet ==
    ASSUME Sound, NEW i \in Instances, NEW e \in Entries, Saves(i, e),
           UNCHANGED <<js, wire, named>>,
           e = "hand" => entry[i] = "hand",
           i \in named /\ entry[i] = "written" => e = "written",
           i \in named /\ Stored(entry[i]) = "rel" => Stored(e) = "rel"
    PROVE  Quiet
<1>t. TypeOK /\ Serving
  BY Zenon DEF Sound
<1> DEFINE c == ClientOf[i]
<1>1. /\ c \in Clients /\ i # "none"
      /\ entry' \in [Instances -> Entries] /\ entry'[i] = e
      /\ \A j \in Instances : j # i => entry'[j] = entry[j]
      /\ rec'[c].by = i /\ rec'[c].entry = Stored(e)
      /\ rec'[c].named = (i \in named)
      /\ \A d \in Clients : d # c => rec'[d] = rec[d] /\ rec[d].by # i
  BY SavesFacts, ZenonT(60)
<1>2. Runs(i) /\ rec[c].by = i /\ up' = up
  BY Zenon DEF Saves
<1>3. Hands' \subseteq Hands /\ Naks' = Naks /\ (Acked => Acked') /\ named \subseteq Instances
  BY <1>t, <1>1, Zenon DEF Hands, Naks, Acked, TypeOK
<1>4. ASSUME NEW d \in Clients
      PROVE  /\ Holds(d)' => Holds(d)
             /\ Spoken(d) => Spoken(d)'
             /\ Owns(d) => Owns(d)'
  <2>1. CASE d = c
    <3>1. Holds(c)' => i \in named
      BY <1>1, Zenon DEF Holds, Written
    <3>2. Written(c)' => i \in named
      BY <1>1, Zenon DEF Written
    <3>3. i \in named => Holds(c)
      BY <1>1, <1>2, Zenon DEF Holds
    <3>4. Spoken(c)'
      BY <1>1, <1>2, <3>2, Zenon DEF Spoken, Runs
    <3>5. Owns(c) => Owns(c)'
      BY <1>1, <1>2, <3>2, Zenon DEF Owns
    <3> QED
      BY <2>1, <3>1, <3>3, <3>4, <3>5, Zenon
  <2>2. CASE d # c
    <3>1. rec'[d] = rec[d] /\ rec[d].by # i /\ rec[d].by \in Instances \cup {"none"}
      BY <1>t, <1>1, <2>2, Zenon DEF TypeOK, Records
    <3>2. Holds(d)' = Holds(d) /\ Written(d)' = Written(d)
      BY <3>1, Zenon DEF Holds, Written
    <3>3. rec[d].by # "none" => entry'[rec[d].by] = entry[rec[d].by]
      BY <1>1, <3>1, Zenon
    <3> QED
      BY <1>2, <1>3, <3>1, <3>2, <3>3, Zenon DEF Spoken, Owns, Runs
  <2> QED
    BY <2>1, <2>2, Zenon
<1>5. \A j \in named : entry[j] = "written" =>
         Acked' \/ (j \in named' /\ entry'[j] = "written")
  BY <1>1, <1>3, Zenon
<1> QED
  BY <1>3, <1>4, <1>5, Zenon DEF Quiet

\* A write of what i has.
LEMMA WritesSaves ==
    ASSUME Sound, NEW i \in Instances, NEW e \in Entries, Runs(i), Writes(i),
           Becomes(i, e), Record(ClientOf[i], Stored(e), i \in named),
           UNCHANGED <<named, state, up>>,
           i \in named => e \in InFlight, e \in InFlight \ {"rel"} => i \in named
    PROVE  Saves(i, e)
<1>t. TypeOK
  BY Zenon DEF Sound
<1>1. rec[ClientOf[i]] \in Records /\ state = [state EXCEPT ![i] = "open"]
      /\ state[i] = "open" /\ rec[ClientOf[i]].by = i
  BY <1>t, HeldAssumption, SessionsAssumption DEF TypeOK, Writes
<1>2. Stored(e) \in {"none", "sent", "rel"} /\ (i \in named) \in BOOLEAN
  BY StoredFacts
<1> DEFINE r == [rec[ClientOf[i]] EXCEPT !.entry = Stored(e), !.named = i \in named]
<1>3. r \in Records /\ r.by = i /\ r.entry = Stored(e) /\ r.named = (i \in named)
  BY <1>1, <1>2, Zenon DEF Records
<1>4. rec' = [rec EXCEPT ![ClientOf[i]] = r]
  BY Zenon DEF Record
<1> HIDE DEF r
<1> QED
  BY <1>1, <1>3, <1>4, Zenon DEF Saves

\* The end of a connection that has its record still, and of one that has not.
LEMMA EndsSaves ==
    ASSUME Sound, NEW i \in Instances, NEW e \in Entries, Runs(i), state[i] = "open",
           Becomes(i, e), Ends(i, e, i \in named'), up' = up,
           named \ {i} \subseteq named', named' \subseteq named \cup {i},
           i \in named' => e \in InFlight, e \in InFlight \ {"rel"} => i \in named'
    PROVE  Saves(i, e)
<1>t. TypeOK /\ Serving
  BY Zenon DEF Sound
<1>1. rec[ClientOf[i]] \in Records /\ rec[ClientOf[i]].by = i
  BY <1>t, HeldAssumption, SessionsAssumption, Zenon DEF TypeOK, Serving
<1>2. Stored(e) \in {"none", "sent", "rel"} /\ (i \in named') \in BOOLEAN
  BY StoredFacts
<1> DEFINE n == i \in named'
           r == [rec[ClientOf[i]] EXCEPT !.attached = FALSE, !.entry = Stored(e), !.named = n]
<1>3. r \in Records /\ r.by = i /\ r.entry = Stored(e) /\ r.named = n
  BY <1>1, <1>2, Zenon DEF Records
<1>4. rec' = [rec EXCEPT ![ClientOf[i]] = r] /\ state' = [state EXCEPT ![i] = "away"]
  BY <1>1, Zenon DEF Ends
<1> HIDE DEF r
<1> QED
  BY <1>1, <1>3, <1>4, Zenon DEF Saves

\* An instance that has lost its record does not write it when its connection ends
\* (finish).
LEMMA EndsLost ==
    ASSUME Sound, NEW i \in Instances, NEW e, NEW n, Runs(i), state[i] = "lost", Ends(i, e, n)
    PROVE  UNCHANGED <<rec, state>>
<1>t. TypeOK /\ Serving
  BY Zenon DEF Sound
<1>1. ClientOf[i] \in Clients /\ i # "none"
  BY HeldAssumption, SessionsAssumption, Zenon
<1>2. rec[ClientOf[i]].by # i
  BY <1>t, <1>1, Zenon DEF Serving
<1> QED
  BY <1>t, <1>2, Zenon DEF Ends, TypeOK

\* Checkpoint, and a connection that ends, write what is there.
LEMMA CheckpointKeeps ==
    ASSUME HInv, NEW i \in Instances, Checkpoint(i) \/ Disconnect(i)
    PROVE  HInv'
<1>t. Sound /\ TypeOK /\ Subjects /\ Guarded
  BY Zenon DEF HInv, Sound
<1> DEFINE e == entry[i]
<1>1. /\ UNCHANGED <<entry, named, up, js, wire, owner, unguarded>> /\ Runs(i)
      /\ state[i] = "open"
  BY Zenon DEF Checkpoint, Disconnect, Writes, sessVars, backlog, ghosts
<1>2. /\ Becomes(i, e) /\ e \in Entries
      /\ i \in named => e \in InFlight
      /\ e \in InFlight \ {"rel"} => i \in named
  BY <1>t, <1>1, Zenon DEF Becomes, TypeOK, Subjects
<1>3. Saves(i, e)
  <2>1. CASE Checkpoint(i)
    <3>1. Writes(i) /\ Record(ClientOf[i], Stored(e), i \in named) /\ UNCHANGED state
      BY <2>1, Zenon DEF Checkpoint, sessVars
    <3> HIDE DEF e
    <3> QED
      BY <1>t, <1>1, <1>2, <3>1, WritesSaves, Zenon
  <2>2. CASE Disconnect(i)
    <3>1. Ends(i, e, i \in named')
      BY <1>1, <2>2, Zenon DEF Disconnect
    <3> HIDE DEF e
    <3> QED
      BY <1>t, <1>1, <1>2, <3>1, EndsSaves, Zenon
  <2> QED
    BY <2>1, <2>2, Zenon
<1>4. Sound'
  BY <1>t, <1>1, <1>2, <1>3, SavesSound, Zenon DEF Wired, TypeOK
<1>5. Quiet
  BY <1>t, <1>1, <1>2, <1>3, SavesQuiet, Zenon
<1> QED
  BY <1>t, <1>1, <1>4, <1>5, QuietKeeps, Zenon DEF HInv

\* recordQoS2.
LEMMA RecordQoS2Keeps ==
    ASSUME HInv, NEW i \in Instances, RecordQoS2(i)
    PROVE  HInv'
<1>t. Sound /\ TypeOK /\ Serving /\ Blank /\ Subjects /\ Guarded
  BY Zenon DEF HInv, Sound
<1>1. /\ Runs(i) /\ entry[i] = "tracked" /\ UNCHANGED <<js, up, owner>> /\ state[i] # "new"
  BY <1>t, Zenon DEF RecordQoS2, Blank
<1>2. {"none", "recorded"} \subseteq Entries /\ "recorded" \in InFlight
      /\ "none" \notin InFlight /\ "tracked" \in InFlight \ {"rel"}
  BY Zenon DEF Entries, InFlight
<1>3. Stored("recorded") = "sent" /\ Stored("none") = "none" /\ Stored("tracked") = "sent"
  BY Zenon DEF Stored
<1>4. CASE /\ Writes(i) /\ Record(ClientOf[i], "sent", TRUE) /\ Becomes(i, "recorded")
           /\ UNCHANGED <<named, state, wire, unguarded>>
  <2>1. i \in named
    BY <1>t, <1>1, <1>2, <1>4, Zenon DEF Subjects, Writes
  <2>2. Record(ClientOf[i], Stored("recorded"), i \in named)
    BY <1>3, <1>4, <2>1, Zenon DEF Record
  <2>3. Saves(i, "recorded")
    BY <1>t, <1>1, <1>2, <1>4, <2>1, <2>2, WritesSaves, Zenon
  <2>4. Sound'
    BY <1>t, <1>1, <1>2, <1>4, <2>3, SavesSound, Zenon DEF Wired, TypeOK
  <2>5. Quiet
    BY <1>t, <1>1, <1>2, <1>3, <1>4, <2>3, SavesQuiet, Zenon
  <2> QED
    BY <1>t, <1>1, <1>4, <2>4, <2>5, QuietKeeps, Zenon DEF HInv
<1>5. CASE /\ Fails(i) /\ Becomes(i, "none") /\ named' = named \ {i} /\ Reply(i, "nak")
           /\ Ends(i, "none", FALSE) /\ unguarded' = (unguarded \/ state[i] = "lost")
  <2>1. /\ wire' \subseteq [do : {"ack", "nak"}, by : Brokers]
        /\ \E r : Naks' \subseteq Naks \cup {r}
    BY <1>t, <1>5, ReplyFacts, Zenon
  <2>2. Wired
    BY <1>t, <1>1, <1>5, <2>1, Zenon DEF Wired, TypeOK
  <2>3. CASE state[i] = "lost"
    <3>1. UNCHANGED <<rec, state>>
      BY <1>t, <1>1, <1>5, <2>3, EndsLost, Zenon
    <3>2. Local(i, "none")
      BY <1>1, <1>2, <1>5, <3>1, Zenon DEF Local
    <3>3. Sound'
      BY <1>t, <1>2, <2>2, <3>2, LocalSound, Zenon
    <3> QED
      BY <1>5, <2>3, <3>3, Zenon DEF HInv, Guarded
  <2>4. CASE state[i] = "open"
    <3> DEFINE c == ClientOf[i]
    <3>1. Ends(i, "none", i \in named')
      <4>1. (i \in named') = FALSE
        BY <1>5
      <4> QED
        BY <1>5, <4>1, Zenon
    <3>2. Saves(i, "none")
      BY <1>t, <1>1, <1>2, <1>5, <2>4, <3>1, EndsSaves, Zenon
    <3>3. Sound'
      BY <1>t, <1>2, <2>2, <3>2, SavesSound, Zenon
    <3>r. rec[c].by = i
      BY <3>2, Zenon DEF Saves
    <3>4. /\ c \in Clients /\ i # "none" /\ rec[c].by = i
          /\ entry' \in [Instances -> Entries] /\ entry'[i] = "none"
          /\ \A j \in Instances : j # i => entry'[j] = entry[j]
          /\ rec'[c].by = i /\ rec'[c].named = (i \in named')
          /\ \A d \in Clients : d # c => rec'[d] = rec[d]
      <4>1. "none" \in Entries
        BY <1>2, Zenon
      <4> QED
        BY <1>t, <3>2, <3>r, <4>1, SavesFacts, SMTT(60)
    <3>5. ASSUME ~unguarded', js # "acked" PROVE Returns
      <4>1. i \in named /\ ~unguarded
        BY <1>t, <1>1, <1>2, <1>5, <2>4, <3>5, Zenon DEF Subjects
      <4>2. Holds(c)
        BY <3>4, <4>1, Zenon DEF Holds
      <4>3. Hands = {} /\ \A d \in Clients : Holds(d) => d = c
        BY <1>t, <3>4, <3>5, <4>1, <4>2, HoldsFacts, Zenon
      <4>4. Hands' = {}
        BY <3>4, <4>3, Zenon DEF Hands
      <4>5. \A d \in Clients : ~Holds(d)'
        <5>1. ~Holds(c)'
          BY <1>5, <3>4, Zenon DEF Holds, Written
        <5>2. \A d \in Clients : d # c => (Holds(d)' => Holds(d))
          BY <1>5, <3>4, Zenon DEF Holds, Written
        <5> QED
          BY <4>3, <5>1, <5>2, Zenon
      <4>6. ~Owned
        BY <1>1, <1>3, <3>4, <4>1, Zenon DEF Owned, Owns
      <4> QED
        BY <1>1, <2>1, <3>4, <4>2, <4>4, <4>5, <4>6, Zenon DEF Returns
    <3>6. Guarded'
      BY <1>t, <1>1, <1>5, <3>5, ReturnsKeeps, Zenon DEF Guarded
    <3> QED
      BY <3>3, <3>6, Zenon DEF HInv
  <2> QED
    BY <1>5, <2>3, <2>4, Zenon DEF Fails
<1> QED
  BY <1>4, <1>5, Zenon DEF RecordQoS2

\* drainPubrels: the client whose record says PUBREL is the one that has the
\* message, and owns it from now on.
LEMMA DrainPubrelsKeeps ==
    ASSUME HInv, NEW i \in Instances, DrainPubrels(i)
    PROVE  HInv'
<1>t. Sound /\ TypeOK /\ Serving /\ Blank /\ Subjects /\ Guarded
  BY Zenon DEF HInv, Sound
<1>1. /\ Runs(i) /\ entry[i] = "queued" /\ state[i] # "new"
      /\ UNCHANGED <<js, wire, named, up, unguarded>>
  BY <1>t, Zenon DEF DrainPubrels, backlog, Blank
<1>2. /\ {"written", "rel"} \subseteq Entries /\ {"written", "rel"} \subseteq InFlight
      /\ "queued" \in InFlight \ {"rel"} /\ "written" # "rel"
  BY Zenon DEF Entries, InFlight
<1>3. Stored("written") = "rel" /\ Stored("rel") = "rel"
  BY Zenon DEF Stored
<1>4. Wired /\ Naks' = Naks /\ (Acked => Acked')
  BY <1>t, <1>1, Zenon DEF Wired, TypeOK, Naks, Acked
<1>5. state[i] \in {"open", "away"} => i \in named
  BY <1>t, <1>1, <1>2, Zenon DEF Subjects
<1>6. CASE /\ Writes(i) /\ Record(ClientOf[i], "rel", i \in named)
           /\ Becomes(i, "written") /\ owner' = ClientOf[i] /\ UNCHANGED state
  <2> DEFINE c == ClientOf[i]
  <2>1. i \in named /\ rec[c].by = i
    BY <1>5, <1>6, Zenon DEF Writes
  <2>2. Record(c, Stored("written"), i \in named)
    BY <1>3, <1>6, Zenon
  <2>3. Saves(i, "written")
    BY <1>t, <1>1, <1>2, <1>6, <2>1, <2>2, WritesSaves, Zenon
  <2>4. Sound'
    BY <1>t, <1>2, <1>4, <2>3, SavesSound, Zenon
  <2>5. Quiet
    BY <1>t, <1>1, <1>2, <1>3, <2>3, SavesQuiet, Zenon
  <2>6. /\ c \in Clients /\ i # "none" /\ entry'[i] = "written"
        /\ rec'[c].by = i /\ rec'[c].entry = "rel"
    <3>1. "written" \in Entries /\ Stored("written") = "rel"
      BY <1>2, <1>3, Zenon
    <3> QED
      BY <1>t, <2>3, <3>1, SavesFacts, SMTT(60)
  <2>7. ASSUME ~unguarded, js # "acked"
        PROVE  Owned'
    <3>1. Holds(c)
      BY <2>1, <2>6, Zenon DEF Holds
    <3>2. /\ js # "ready" /\ Naks = {} /\ Hands = {}
          /\ \A d \in Clients : Holds(d) => d = c
      BY <1>t, <2>6, <2>7, <3>1, HoldsFacts, Zenon
    <3>3. ASSUME NEW d \in Clients PROVE Owns(d)'
      <4>1. CASE d = c
        BY <1>3, <2>6, <4>1, Zenon DEF Owns
      <4>2. CASE d # c
        <5>1. ~Holds(d)'
          BY <2>5, <3>2, <4>2, Zenon DEF Quiet
        <5> QED
          BY <5>1, Zenon DEF Holds, Owns
      <4> QED
        BY <4>1, <4>2, Zenon
    <3>4. Hands' = {} /\ Naks' = {} /\ js' # "ready"
      BY <1>1, <2>5, <3>2, Zenon DEF Quiet
    <3> QED
      BY <1>1, <2>1, <2>6, <3>3, <3>4, Zenon DEF Owned
  <2> QED
    BY <1>t, <1>1, <2>4, <2>5, <2>7, QuietKeeps, Zenon DEF HInv
<1>7. CASE /\ state[i] \in {"away", "gone"} \/ (state[i] = "lost" /\ i \notin named)
           /\ Becomes(i, "written") /\ UNCHANGED <<state, rec, owner>>
  <2>1. Local(i, "written")
    BY <1>1, <1>2, <1>5, <1>7, Zenon DEF Local
  <2>2. Sound'
    BY <1>t, <1>2, <1>4, <2>1, LocalSound, Zenon
  <2>3. Quiet
    BY <1>t, <1>1, <1>2, <1>3, <1>4, <2>1, LocalQuiet, Zenon
  <2> QED
    BY <1>t, <1>1, <1>7, <2>2, <2>3, QuietKeeps, Zenon DEF HInv
<1>8. CASE /\ i \in named /\ Fails(i) /\ Becomes(i, "rel") /\ Ends(i, "rel", TRUE)
           /\ UNCHANGED owner
  <2>1. CASE state[i] = "lost"
    <3>1. UNCHANGED <<rec, state>>
      BY <1>t, <1>1, <1>8, <2>1, EndsLost, Zenon
    <3>2. Local(i, "rel")
      BY <1>1, <1>2, <1>8, <2>1, <3>1, Zenon DEF Local
    <3>3. Sound'
      BY <1>t, <1>2, <1>4, <3>2, LocalSound, Zenon
    <3>4. Quiet
      BY <1>t, <1>1, <1>2, <1>3, <1>4, <3>2, LocalQuiet, Zenon
    <3> QED
      BY <1>t, <1>1, <1>8, <3>3, <3>4, QuietKeeps, Zenon DEF HInv
  <2>2. CASE state[i] = "open"
    <3>1. (i \in named') = TRUE
      BY <1>1, <1>8, Zenon
    <3>2. Ends(i, "rel", i \in named')
      BY <1>8, <3>1, Zenon
    <3>3. Saves(i, "rel")
      BY <1>t, <1>1, <1>2, <1>8, <2>2, <3>2, EndsSaves, Zenon
    <3>4. Sound'
      BY <1>t, <1>2, <1>4, <3>3, SavesSound, Zenon
    <3>5. Quiet
      BY <1>t, <1>1, <1>2, <1>3, <3>3, SavesQuiet, Zenon
    <3> QED
      BY <1>t, <1>1, <1>8, <3>4, <3>5, QuietKeeps, Zenon DEF HInv
  <2> QED
    BY <1>8, <2>1, <2>2, Zenon DEF Fails
<1> QED
  BY <1>6, <1>7, <1>8, Zenon DEF DrainPubrels

----------------------------------------------------------------------------
(* The session. *)

\* discardMoved: the session is another instance's by now.
LEMMA SessionLostKeeps ==
    ASSUME HInv, NEW i \in Instances, SessionLost(i)
    PROVE  HInv'
<1>t. Sound /\ TypeOK /\ Serving /\ Blank /\ Subjects /\ Guarded
  BY Zenon DEF HInv, Sound
<1>1. /\ Runs(i) /\ state[i] = "lost" /\ state' = [state EXCEPT ![i] = "gone"]
      /\ named' = named \ {i} /\ UNCHANGED <<js, wire, entry, rec, up, owner>>
      /\ unguarded' = (unguarded \/ (i \in named /\ entry[i] = "written"))
  BY Zenon DEF SessionLost, moved
<1>2. /\ state' \in [Instances -> States] /\ state'[i] = "gone"
      /\ \A j \in Instances : j # i => state'[j] = state[j]
  BY <1>t, <1>1, Zenon DEF TypeOK, States
<1>3. \A c \in Clients : rec[c].by # i
  BY <1>t, <1>1, HeldAssumption, SessionsAssumption DEF Serving
<1>4. Sound'
  <2>1. TypeOK'
    BY <1>t, <1>1, <1>2, Zenon DEF TypeOK
  <2>2. \A c \in Clients : rec[c].by # "none" =>
            rec[c].by \in Instances /\ state'[rec[c].by] = state[rec[c].by]
    BY <1>t, <1>2, <1>3, Zenon DEF TypeOK, Records
  <2>3. Serving'
    BY <1>t, <1>1, <1>2, <2>2, Zenon DEF Serving, Runs
  <2>4. Blank'
    BY <1>t, <1>1, <1>2, Zenon DEF Blank, Runs
  <2>5. Subjects'
    BY <1>t, <1>1, <1>2, Zenon DEF Subjects
  <2> QED
    BY <2>1, <2>3, <2>4, <2>5, Zenon DEF Sound
<1>5. CASE unguarded'
  BY <1>4, <1>5, Zenon DEF HInv, Guarded
<1>6. CASE ~unguarded'
  <2>1. Hands' = Hands /\ Naks' = Naks /\ (Acked => Acked')
    BY <1>1, Zenon DEF Hands, Naks, Acked
  <2>2. ASSUME NEW c \in Clients
        PROVE  Holds(c)' = Holds(c) /\ Spoken(c)' = (Spoken(c)) /\ Owns(c)' = (Owns(c))
    <3>1. rec[c].by \in named' <=> rec[c].by \in named
      BY <1>1, <1>3, Zenon
    <3>2. Acked' <=> Acked
      BY <1>1, Zenon DEF Acked
    <3> QED
      BY <1>1, <3>1, <3>2, Zenon DEF Holds, Written, Spoken, Owns, Runs
  <2>3. Quiet
    BY <1>1, <1>6, <2>1, <2>2, Zenon DEF Quiet
  <2> QED
    BY <1>t, <1>1, <1>4, <2>3, QuietKeeps, Zenon DEF HInv
<1> QED
  BY <1>5, <1>6, Zenon DEF HInv, Guarded

\* The record of client c goes, and with it the session that had it.
LEMMA EndedFacts ==
    ASSUME TypeOK, NEW c \in Clients, Ended(c)
    PROVE  /\ rec' \in [Clients -> Records] /\ rec'[c].by = "none"
           /\ \A d \in Clients : d # c => rec'[d] = rec[d]
<1>1. rec \in [Clients -> Records] /\ rec[c] \in Records
  BY Zenon DEF TypeOK
<1> DEFINE r == [rec[c] EXCEPT !.by = "none", !.entry = "none"]
<1>2. r \in Records /\ r.by = "none"
  BY <1>1, Zenon DEF Records
<1>3. rec' = [rec EXCEPT ![c] = r]
  BY Zenon DEF Ended
<1> HIDE DEF r
<1> QED
  BY <1>1, <1>2, <1>3, Zenon

\* A record that goes leaves the other sessions as they were.
LEMMA EndedSound ==
    ASSUME Sound, NEW c \in Clients, Ended(c), Wired, UNCHANGED <<entry, up>>,
           named' \subseteq named,
           \A j \in Instances : j # rec[c].by => /\ state'[j] = state[j]
                                                 /\ j \in named' <=> j \in named,
           state' \in [Instances -> States],
           rec[c].by # "none" => state'[rec[c].by] = "gone"
    PROVE  Sound'
<1>t. TypeOK /\ Serving /\ Blank /\ Subjects
  BY Zenon DEF Sound
<1>1. /\ rec' \in [Clients -> Records] /\ rec'[c].by = "none"
      /\ \A d \in Clients : d # c => rec'[d] = rec[d]
  BY <1>t, EndedFacts, Zenon
<1>2. TypeOK'
  BY <1>t, <1>1, Zenon DEF TypeOK, Wired
<1>3. \A j \in Instances : state'[j] \in {"open", "away", "new"} =>
          state'[j] = state[j] /\ j # rec[c].by
  BY HeldAssumption, SessionsAssumption
<1>4. Serving'
  <2>1. ASSUME NEW d \in Clients, rec'[d].by # "none"
        PROVE  /\ ClientOf[rec'[d].by] = d
               /\ state'[rec'[d].by] \in
                     (IF Runs(rec'[d].by) THEN {"open", "away"} ELSE {"gone"})
    <3>1. d # c /\ rec'[d] = rec[d] /\ rec[d].by \in Instances
      BY <1>t, <1>1, <2>1 DEF TypeOK, Records
    <3>2. /\ ClientOf[rec[d].by] = d
          /\ state[rec[d].by] \in
                (IF Runs(rec[d].by) THEN {"open", "away"} ELSE {"gone"})
      BY <1>t, <2>1, <3>1, Zenon DEF Serving
    <3>3. rec[c].by # "none" => ClientOf[rec[c].by] = c
      BY <1>t, Zenon DEF Serving
    <3>4. rec[d].by # rec[c].by
      BY <2>1, <3>1, <3>2, <3>3, Zenon
    <3> QED
      BY <1>3, <3>1, <3>2, <3>4, Zenon
  <2>2. ASSUME NEW j \in Instances, state'[j] \in {"open", "away"}
        PROVE  rec'[ClientOf[j]].by = j
    <3>1. ClientOf[j] \in Clients /\ rec[ClientOf[j]].by = j /\ j # rec[c].by
      BY <1>t, <1>3, <2>2, HeldAssumption, SessionsAssumption, Zenon DEF Serving
    <3> QED
      BY <1>1, <3>1, Zenon
  <2> QED
    BY <2>1, <2>2, Zenon DEF Serving, Runs
<1>5. Blank'
  BY <1>t, <1>3, Zenon DEF Blank, Runs
<1>6. Subjects'
  <2>1. \A d \in Clients : rec'[d].by # "none" /\ rec'[d].entry = "sent" => rec'[d].named
    BY <1>t, <1>1, Zenon DEF Subjects
  <2>2. \A j \in named' : entry'[j] \in InFlight
    BY <1>t, Zenon DEF Subjects
  <2> QED
    BY <1>t, <1>3, <2>1, <2>2, Zenon DEF Subjects
<1> QED
  BY <1>2, <1>4, <1>5, <1>6, Zenon DEF Sound

\* A record that goes adds nobody who holds the message.
LEMMA EndedQuiet ==
    ASSUME Sound, NEW c \in Clients, Ended(c), UNCHANGED <<js, wire, entry, named, up>>
    PROVE  Quiet
<1>1. /\ rec'[c].by = "none" /\ \A d \in Clients : d # c => rec'[d] = rec[d]
  BY EndedFacts, Zenon DEF Sound
<1>2. Hands' = Hands /\ Naks' = Naks /\ Acked' = Acked
  BY Zenon DEF Hands, Naks, Acked
<1>3. ~Holds(c)' /\ Spoken(c)' /\ Owns(c)'
  BY <1>1, Zenon DEF Holds, Written, Spoken, Owns
<1>4. ASSUME NEW d \in Clients, d # c
      PROVE  Holds(d)' = Holds(d) /\ (Spoken(d) => Spoken(d)') /\ (Owns(d) => Owns(d)')
  BY <1>1, <1>2, <1>4, Zenon DEF Holds, Written, Spoken, Owns, Runs
<1> QED
  BY <1>2, <1>3, <1>4, Zenon DEF Quiet

\* A dead broker's session is removed by a survivor that does not serve it (the sweep).
LEMMA ReclaimKeeps ==
    ASSUME HInv, NEW c \in Clients, Reclaim(c)
    PROVE  HInv'
<1>t. Sound /\ TypeOK /\ Serving /\ Guarded
  BY Zenon DEF HInv, Sound
<1>1. /\ rec[c].by # "none" /\ ~Runs(rec[c].by) /\ Ended(c)
      /\ UNCHANGED <<js, wire, entry, named, state, up, owner, unguarded>>
  BY Zenon DEF Reclaim, backlog, sessVars, ghosts
<1>2. state[rec[c].by] = "gone" /\ Wired /\ state' \in [Instances -> States]
  BY <1>t, <1>1, Zenon DEF Serving, Wired, TypeOK
<1>3. Sound'
  BY <1>t, <1>1, <1>2, EndedSound, Zenon
<1>4. Quiet
  BY <1>t, <1>1, EndedQuiet, Zenon
<1> QED
  BY <1>t, <1>1, <1>3, <1>4, QuietKeeps, Zenon DEF HInv

\* handBackHeld.
LEMMA ExpireKeeps ==
    ASSUME HInv, NEW i \in Instances, Expire(i)
    PROVE  HInv'
<1>t. Sound /\ TypeOK /\ Serving /\ Subjects /\ Guarded
  BY Zenon DEF HInv, Sound
<1> DEFINE c == ClientOf[i]
<1>1. /\ rec[c].by = i /\ state' = [state EXCEPT ![i] = "gone"] /\ Ended(c)
      /\ UNCHANGED <<js, entry, up, owner, unguarded>> /\ c \in Clients /\ i # "none"
  BY HeldAssumption, SessionsAssumption, Zenon DEF Expire, ghosts
<1>2. /\ state' \in [Instances -> States] /\ state'[i] = "gone"
      /\ \A j \in Instances : j # i => state'[j] = state[j]
  BY <1>t, <1>1, Zenon DEF TypeOK, States
<1>3. CASE i \in named /\ Stored(entry[i]) = "sent"
  <2>1. Reply(i, "nak") /\ named' = named \ {i}
    BY <1>3, Zenon DEF Expire
  <2>2. /\ wire' \subseteq [do : {"ack", "nak"}, by : Brokers]
        /\ \E r : Naks' \subseteq Naks \cup {r}
    BY <1>t, <2>1, ReplyFacts, Zenon
  <2>3. Wired
    BY <1>t, <1>1, <2>2, Zenon DEF Wired, TypeOK
  <2>4. Sound'
    BY <1>t, <1>1, <1>2, <2>1, <2>3, EndedSound, Zenon
  <2>5. ASSUME ~unguarded', js # "acked" PROVE Returns
    <3>1. Holds(c) /\ ~unguarded
      BY <1>1, <1>3, <2>5, Zenon DEF Holds
    <3>2. Hands = {} /\ \A d \in Clients : Holds(d) => d = c
      BY <1>t, <1>1, <2>5, <3>1, HoldsFacts, Zenon
    <3>3. Hands' = {}
      BY <1>1, <3>2, Zenon DEF Hands
    <3>4. rec'[c].by = "none" /\ \A d \in Clients : d # c => rec'[d] = rec[d]
      BY <1>t, <1>1, EndedFacts, Zenon
    <3>5. \A d \in Clients : ~Holds(d)'
      <4>1. ~Holds(c)'
        BY <3>4, Zenon DEF Holds, Written
      <4>2. \A d \in Clients : d # c => (Holds(d)' => Holds(d))
        BY <2>1, <3>4, Zenon DEF Holds, Written
      <4> QED
        BY <3>2, <4>1, <4>2, Zenon
    <3>6. ~Owned
      BY <1>1, <1>3, Zenon DEF Owned, Owns
    <3> QED
      BY <1>1, <2>2, <3>1, <3>3, <3>5, <3>6, Zenon DEF Returns
  <2>6. Guarded'
    BY <1>t, <1>1, <2>5, ReturnsKeeps, Zenon DEF Guarded
  <2> QED
    BY <2>4, <2>6, Zenon DEF HInv
<1>4. CASE ~(i \in named /\ Stored(entry[i]) = "sent")
  <2>1. UNCHANGED <<wire, named>>
    BY <1>4, Zenon DEF Expire
  <2>2. Sound'
    BY <1>t, <1>1, <1>2, <2>1, EndedSound, Zenon DEF Wired, TypeOK
  <2>3. Quiet
    BY <1>t, <1>1, <2>1, EndedQuiet, Zenon
  <2> QED
    BY <1>t, <1>1, <2>2, <2>3, QuietKeeps, Zenon DEF HInv
<1> QED
  BY <1>3, <1>4, Zenon

\* A broker dies.
LEMMA KillKeeps ==
    ASSUME HInv, NEW b \in Brokers, Kill(b)
    PROVE  HInv'
<1>t. Sound /\ TypeOK /\ Serving /\ Blank /\ Subjects /\ Guarded
  BY Zenon DEF HInv, Sound
<1>1. /\ up' = up \ {b} /\ UNCHANGED <<js, rec, owner>>
      /\ state' = [i \in Instances |->
                      IF Home[i] = b /\ state[i] # "new" THEN "gone" ELSE state[i]]
      /\ entry' = [i \in Instances |-> IF Home[i] = b THEN "none" ELSE entry[i]]
      /\ named' = {i \in named : Home[i] # b}
      /\ wire' \subseteq wire
  BY Zenon DEF Kill
<1>2. unguarded' = (\/ unguarded \/ up' = {}
                    \/ \E i \in named : Home[i] = b /\ entry[i] = "written"
                    \/ \E r \in wire \ wire' : r.do = "ack"
                    \/ \E c \in Clients :
                          /\ rec[c].by # "none" /\ Home[rec[c].by] = b
                          /\ ~(rec[c].attached /\ rec[c].entry = "sent" /\ rec[c].named)
                          /\ (owner = c \/ rec[c].named))
  BY Zenon DEF Kill
<1>3. Sound'
  <2>1. TypeOK'
    BY <1>t, <1>1, <1>2, Zenon DEF TypeOK, States, Entries
  <2>2. \A i \in Instances : Runs(i)' <=> Runs(i) /\ Home[i] # b
    BY <1>1, Zenon DEF Runs
  <2>3. ASSUME NEW c \in Clients, rec[c].by # "none"
        PROVE  /\ ClientOf[rec[c].by] = c
               /\ state'[rec[c].by] \in
                     (IF Runs(rec[c].by)' THEN {"open", "away"} ELSE {"gone"})
    <3>1. rec[c].by \in Instances
      BY <1>t, <2>3, Zenon DEF TypeOK, Records
    <3>2. /\ ClientOf[rec[c].by] = c
          /\ state[rec[c].by] \in (IF Runs(rec[c].by) THEN {"open", "away"} ELSE {"gone"})
      BY <1>t, <2>3, Zenon DEF Serving
    <3> QED
      BY <1>1, <2>2, <3>1, <3>2, Zenon
  <2>4. Serving'
    <3>1. \A i \in Instances : state'[i] \in {"open", "away"} => rec[ClientOf[i]].by = i
      BY <1>t, <1>1, Zenon DEF Serving
    <3> QED
      BY <1>1, <2>3, <3>1, Zenon DEF Serving, Runs
  <2>5. Blank'
    BY <1>t, <1>1, <2>2, Zenon DEF Blank
  <2>6. Subjects'
    BY <1>t, <1>1, Zenon DEF Subjects, TypeOK, InFlight
  <2> QED
    BY <2>1, <2>4, <2>5, <2>6, Zenon DEF Sound
<1>4. CASE ~unguarded'
  <2>1. Hands' \subseteq Hands /\ Naks' \subseteq Naks /\ (Acked => Acked')
    BY <1>1, <1>2, <1>4, Zenon DEF Hands, Naks, Acked
  <2>2. ASSUME NEW c \in Clients
        PROVE  /\ Holds(c)' => Holds(c)
               /\ Spoken(c) => Spoken(c)'
               /\ Owns(c) => Owns(c)'
    <3>1. Written(c)' = Written(c) /\ rec' = rec /\ named' \subseteq named
      BY <1>1, Zenon DEF Written
    <3>2. Holds(c)' => Holds(c)
      BY <3>1, Zenon DEF Holds
    <3>3. Spoken(c) => Spoken(c)'
      <4> SUFFICES ASSUME Spoken(c), Written(c)
                   PROVE  IF Runs(rec[c].by)' THEN rec[c].by \in named' \/ Acked'
                          ELSE rec[c].attached /\ rec[c].entry = "sent" /\ up' # {}
        BY <3>1, Zenon DEF Spoken, Runs
      <4>1. rec[c].by # "none" /\ rec[c].named
        BY Zenon DEF Written
      <4>2. CASE Home[rec[c].by] = b
        BY <1>1, <1>2, <1>4, <4>1, <4>2, Zenon DEF Runs
      <4>3. CASE Home[rec[c].by] # b
        BY <1>1, <1>2, <1>4, <2>1, <4>3, Zenon DEF Spoken, Runs
      <4> QED
        BY <4>2, <4>3, Zenon
    <3>4. Owns(c) => Owns(c)'
      <4>1. \A i \in named' : entry'[i] = entry[i]
        BY <1>t, <1>1, Zenon DEF TypeOK
      <4> QED
        BY <3>1, <4>1, Zenon DEF Owns
    <3> QED
      BY <3>2, <3>3, <3>4, Zenon
  <2>3. \A i \in named : entry[i] = "written" => i \in named' /\ entry'[i] = "written"
    BY <1>t, <1>1, <1>2, <1>4, Zenon DEF TypeOK
  <2>4. Quiet
    BY <1>1, <2>1, <2>2, <2>3, Zenon DEF Quiet
  <2> QED
    BY <1>t, <1>1, <1>2, <1>3, <2>4, QuietKeeps, Zenon DEF HInv
<1> QED
  BY <1>2, <1>3, <1>4, Zenon DEF HInv, Guarded

\* What every Connect does to the record and to the instances.
Claims(i) ==
    LET c == ClientOf[i] IN
    /\ Runs(i) /\ rec[c].by # "none" /\ up' = up
    /\ state' = [j \in Instances |->
                    IF j = i THEN "open"
                    ELSE IF j = rec[c].by /\ state[j] # "gone" THEN "lost" ELSE state[j]]
    /\ rec' = [rec EXCEPT ![c] = [by |-> i, attached |-> TRUE, entry |-> "none",
                                  named |-> FALSE]]

\* After the claim the record is the claimant's and names nothing (claimRecord).
LEMMA ClaimsFacts ==
    ASSUME Sound, NEW i \in Instances, Claims(i)
    PROVE  /\ ClientOf[i] \in Clients /\ i # "none"
           /\ rec' \in [Clients -> Records]
           /\ rec'[ClientOf[i]].by = i /\ rec'[ClientOf[i]].entry = "none"
           /\ ~rec'[ClientOf[i]].named
           /\ \A d \in Clients : d # ClientOf[i] => rec'[d] = rec[d] /\ rec[d].by # i
<1>t. TypeOK /\ Serving
  BY Zenon DEF Sound
<1>1. ClientOf[i] \in Clients /\ i # "none" /\ rec \in [Clients -> Records]
  BY <1>t, HeldAssumption, SessionsAssumption, Zenon DEF TypeOK
<1> DEFINE r == [by |-> i, attached |-> TRUE, entry |-> "none", named |-> FALSE]
<1>2. r \in Records /\ r.by = i /\ r.entry = "none" /\ ~r.named
  BY Zenon DEF Records
<1>3. rec' = [rec EXCEPT ![ClientOf[i]] = r]
  BY Zenon DEF Claims
<1> HIDE DEF r
<1>4. \A d \in Clients : d # ClientOf[i] => rec[d].by # i
  BY <1>t, <1>1, Zenon DEF Serving
<1> QED
  BY <1>1, <1>2, <1>3, <1>4, Zenon

\* The instance that claims the session has what its client's session had.
LEMMA ClaimsSound ==
    ASSUME Sound, NEW i \in Instances, NEW e \in Entries, Claims(i), Becomes(i, e), Wired,
           named \subseteq named', named' \subseteq named \cup {i},
           i \in named' => e \in InFlight, e \in InFlight \ {"rel"} => i \in named'
    PROVE  Sound'
<1>t. TypeOK /\ Serving /\ Blank /\ Subjects
  BY Zenon DEF Sound
<1> DEFINE c == ClientOf[i]
<1>1. /\ c \in Clients /\ i # "none"
      /\ rec' \in [Clients -> Records] /\ rec'[c].by = i /\ rec'[c].entry = "none"
      /\ \A d \in Clients : d # c => rec'[d] = rec[d] /\ rec[d].by # i
  BY ClaimsFacts, Zenon
<1>2. /\ entry' \in [Instances -> Entries] /\ entry'[i] = e
      /\ \A j \in Instances : j # i => entry'[j] = entry[j]
  BY <1>t, BecomesFacts, Zenon
<1>3. /\ Runs(i) /\ up' = up /\ state' \in [Instances -> States] /\ state'[i] = "open"
      /\ \A j \in Instances : j # i => state'[j] =
             IF j = rec[c].by /\ state[j] # "gone" THEN "lost" ELSE state[j]
  BY <1>t, Zenon DEF Claims, TypeOK, States
<1>4. TypeOK'
  BY <1>t, <1>1, <1>2, <1>3, Zenon DEF TypeOK, Wired
<1>5. Serving'
  <2>1. ASSUME NEW d \in Clients, rec'[d].by # "none"
        PROVE  /\ ClientOf[rec'[d].by] = d
               /\ state'[rec'[d].by] \in
                     (IF Runs(rec'[d].by) THEN {"open", "away"} ELSE {"gone"})
    <3>1. CASE d = c
      BY <1>1, <1>3, <3>1, Zenon
    <3>2. CASE d # c
      <4>1. rec'[d] = rec[d] /\ rec[d].by # i /\ rec[d].by \in Instances
        BY <1>t, <1>1, <2>1, <3>2 DEF TypeOK, Records
      <4>2. /\ ClientOf[rec[d].by] = d
            /\ state[rec[d].by] \in
                  (IF Runs(rec[d].by) THEN {"open", "away"} ELSE {"gone"})
        BY <1>t, <4>1, <2>1, Zenon DEF Serving
      <4>3. rec[c].by # "none" => ClientOf[rec[c].by] = c
        BY <1>t, <1>1, Zenon DEF Serving
      <4>4. rec[d].by # rec[c].by
        BY <2>1, <3>2, <4>1, <4>2, <4>3, Zenon
      <4> QED
        BY <1>3, <4>1, <4>2, <4>4, Zenon
    <3> QED
      BY <3>1, <3>2, Zenon
  <2>2. ASSUME NEW j \in Instances, state'[j] \in {"open", "away"}
        PROVE  rec'[ClientOf[j]].by = j
    <3>1. CASE j = i
      BY <1>1, <3>1, Zenon
    <3>2. CASE j # i
      <4>1. j # rec[c].by /\ state[j] \in {"open", "away"} /\ ClientOf[j] \in Clients
        BY <1>3, <2>2, <3>2, HeldAssumption, SessionsAssumption, Zenon
      <4>2. rec[ClientOf[j]].by = j
        BY <1>t, <4>1, Zenon DEF Serving
      <4> QED
        BY <1>1, <4>1, <4>2, Zenon
    <3> QED
      BY <3>1, <3>2, Zenon
  <2> QED
    BY <1>3, <2>1, <2>2, Zenon DEF Serving, Runs
<1>6. Blank'
  BY <1>t, <1>2, <1>3, Zenon DEF Blank, Runs
<1>7. Subjects'
  <2>1. \A j \in named' : entry'[j] \in InFlight
    BY <1>t, <1>2, Zenon DEF Subjects, TypeOK
  <2>2. \A j \in Instances :
          state'[j] \in {"open", "away"} /\ entry'[j] \in InFlight \ {"rel"} => j \in named'
    BY <1>t, <1>2, <1>3, Zenon DEF Subjects
  <2>3. \A d \in Clients : rec'[d].by # "none" /\ rec'[d].entry = "sent" => rec'[d].named
    BY <1>t, <1>1, Zenon DEF Subjects
  <2> QED
    BY <2>1, <2>2, <2>3, Zenon DEF Subjects
<1> QED
  BY <1>4, <1>5, <1>6, <1>7, Zenon DEF Sound

\* It has no more than the session had.
LEMMA ClaimsQuiet ==
    ASSUME Sound, NEW i \in Instances, NEW e \in Entries, Claims(i), Becomes(i, e),
           js' = js, Naks' = Naks, Acked => Acked',
           named \subseteq named', named' \subseteq named \cup {i},
           e = "hand" => entry[i] = "hand",
           entry[i] = "written" => e = "written",
           i \in named' => Holds(ClientOf[i]),
           i \in named' /\ Owns(ClientOf[i]) => Stored(e) = "rel"
    PROVE  Quiet
<1>t. TypeOK /\ Serving
  BY Zenon DEF Sound
<1> DEFINE c == ClientOf[i]
<1>1. /\ c \in Clients /\ i # "none" /\ rec'[c].by = i
      /\ rec'[c].entry = "none" /\ ~rec'[c].named
      /\ \A d \in Clients : d # c => rec'[d] = rec[d] /\ rec[d].by # i
  BY ClaimsFacts, Zenon
<1>2. /\ entry' \in [Instances -> Entries] /\ entry'[i] = e
      /\ \A j \in Instances : j # i => entry'[j] = entry[j]
  BY <1>t, BecomesFacts, Zenon
<1>3. Hands' \subseteq Hands /\ named \subseteq Instances /\ up' = up
  BY <1>t, <1>2, Zenon DEF Hands, TypeOK, Claims
<1>4. ASSUME NEW d \in Clients
      PROVE  /\ Holds(d)' => Holds(d)
             /\ Spoken(d) => Spoken(d)'
             /\ Owns(d) => Owns(d)'
  <2>1. CASE d = c
    <3>1. ~Written(c)'
      BY <1>1, Zenon DEF Written
    <3>2. Holds(c)' => Holds(c)
      BY <1>1, <3>1, Zenon DEF Holds
    <3>3. Owns(c) => Owns(c)'
      BY <1>1, <1>2, <3>1, Zenon DEF Owns
    <3> QED
      BY <2>1, <3>1, <3>2, <3>3, Zenon DEF Spoken
  <2>2. CASE d # c
    <3>1. rec'[d] = rec[d] /\ rec[d].by # i /\ rec[d].by \in Instances \cup {"none"}
      BY <1>t, <1>1, <2>2, Zenon DEF TypeOK, Records
    <3>2. /\ Written(d)' = Written(d) /\ (rec[d].by \in named' <=> rec[d].by \in named)
          /\ rec[d].by # "none" => entry'[rec[d].by] = entry[rec[d].by]
      BY <1>2, <3>1, Zenon DEF Written
    <3> QED
      BY <1>3, <3>1, <3>2, Zenon DEF Holds, Spoken, Owns, Runs
  <2> QED
    BY <2>1, <2>2, Zenon
<1>5. \A j \in named : entry[j] = "written" => j \in named' /\ entry'[j] = "written"
  BY <1>2, <1>3, Zenon
<1> QED
  BY <1>3, <1>4, <1>5, Zenon DEF Quiet

\* The client is back: restoreSessionState resends, acknowledges or hands back what
\* its record had.
LEMMA ConnectKeeps ==
    ASSUME HInv, NEW i \in Instances, Connect(i)
    PROVE  HInv'
<1>t. Sound /\ TypeOK /\ Serving /\ Blank /\ Subjects /\ Guarded
  BY Zenon DEF HInv, Sound
<1> DEFINE c == ClientOf[i]
<1>1. Claims(i) /\ UNCHANGED <<js, owner, unguarded>>
  BY Zenon DEF Connect, Claims
<1>2. c \in Clients /\ i # "none" /\ rec[c] \in Records /\ rec[c].by # "none"
  BY <1>t, <1>1, HeldAssumption, SessionsAssumption, Zenon DEF TypeOK, Claims
<1>3. CASE state[i] = "away" /\ rec[c].by = i /\ UNCHANGED <<entry, named, wire>>
  <2>1. Becomes(i, entry[i]) /\ entry[i] \in Entries
    BY <1>t, <1>3, Zenon DEF Becomes, TypeOK
  <2>2. /\ i \in named => entry[i] \in InFlight
        /\ entry[i] \in InFlight \ {"rel"} => i \in named
    BY <1>t, <1>3, Zenon DEF Subjects
  <2>3. Wired /\ Naks' = Naks /\ (Acked => Acked')
    BY <1>t, <1>1, <1>3, Zenon DEF Wired, TypeOK, Naks, Acked
  <2>4. Sound'
    BY <1>t, <1>1, <1>3, <2>1, <2>2, <2>3, ClaimsSound, Zenon
  <2>5. i \in named => Holds(c) /\ (Owns(c) => Stored(entry[i]) = "rel")
    BY <1>2, <1>3, Zenon DEF Holds, Owns
  <2>6. Quiet
    BY <1>t, <1>1, <1>3, <2>1, <2>3, <2>5, ClaimsQuiet, Zenon
  <2> QED
    BY <1>t, <1>1, <2>4, <2>6, QuietKeeps, Zenon DEF HInv
<1>4. CASE state[i] = "new" /\ Restore(i, rec[c])
  <2> DEFINE e == rec[c].entry
  <2>1. entry[i] = "none" /\ i \notin named /\ e \in {"none", "sent", "rel"}
    BY <1>t, <1>2, <1>4, Zenon DEF Blank, Subjects, InFlight, Records
  <2>2. /\ {"none", "sent", "rel"} \subseteq Entries /\ "sent" \in InFlight
        /\ "none" \notin InFlight
    BY Zenon DEF Entries, InFlight
  <2>3. e = "sent" => rec[c].named
    BY <1>t, <1>2, Zenon DEF Subjects
  <2>4. CASE /\ Becomes(i, e)
             /\ named' = IF e = "sent" /\ rec[c].named THEN named \cup {i} ELSE named
             /\ IF e = "rel" /\ rec[c].named THEN Reply(i, "ack") ELSE UNCHANGED wire
    <3>1. /\ wire' \subseteq [do : {"ack", "nak"}, by : Brokers]
          /\ Naks' = Naks /\ (Acked => Acked')
      <4>1. CASE Reply(i, "ack")
        BY <1>t, <4>1, ReplyFacts, Zenon
      <4>2. CASE UNCHANGED wire
        BY <1>t, <1>1, <4>2, Zenon DEF TypeOK, Naks, Acked
      <4> QED
        BY <2>4, <4>1, <4>2, Zenon
    <3>2. i \in named' <=> e = "sent"
      BY <2>1, <2>3, <2>4, Zenon
    <3>3. named \subseteq named' /\ named' \subseteq named \cup {i}
      BY <2>4, Zenon
    <3>4. Wired
      BY <1>t, <1>1, <3>1, Zenon DEF Wired, TypeOK
    <3>5. e \in Entries /\ (i \in named' => e \in InFlight)
          /\ (e \in InFlight \ {"rel"} => i \in named') /\ e # "hand"
      BY <2>1, <2>2, <3>2, Zenon
    <3>6. i \in named' => Holds(c) /\ ~Owns(c)
      BY <1>2, <2>3, <3>2, Zenon DEF Holds, Written, Owns
    <3> HIDE DEF e
    <3>7. Sound'
      BY <1>t, <1>1, <2>4, <3>3, <3>4, <3>5, ClaimsSound, Zenon
    <3>8. Quiet
      BY <1>t, <1>1, <2>1, <2>4, <3>1, <3>3, <3>5, <3>6, ClaimsQuiet, Zenon
    <3> QED
      BY <1>t, <1>1, <3>7, <3>8, QuietKeeps, Zenon DEF HInv
  <2>5. CASE /\ Unreadable(e) /\ Becomes(i, "none") /\ UNCHANGED named
             /\ IF rec[c].named THEN Reply(i, "nak") ELSE UNCHANGED wire
    <3>1. e = "sent" /\ rec[c].named /\ Reply(i, "nak")
      BY <2>3, <2>5, Zenon DEF Unreadable
    <3>2. /\ wire' \subseteq [do : {"ack", "nak"}, by : Brokers]
          /\ \E r : Naks' \subseteq Naks \cup {r}
      BY <1>t, <3>1, ReplyFacts, Zenon
    <3>3. Wired
      BY <1>t, <1>1, <3>2, Zenon DEF Wired, TypeOK
    <3>4. Sound'
      BY <1>t, <1>1, <2>1, <2>2, <2>5, <3>3, ClaimsSound, Zenon
    <3>5. ASSUME ~unguarded', js # "acked" PROVE Returns
      <4>1. Holds(c) /\ ~Owns(c) /\ ~unguarded
        BY <1>1, <1>2, <3>1, <3>5, Zenon DEF Holds, Written, Owns
      <4>2. Hands = {} /\ \A d \in Clients : Holds(d) => d = c
        BY <1>t, <1>2, <3>5, <4>1, HoldsFacts, Zenon
      <4>3. entry' = [entry EXCEPT ![i] = "none"] /\ entry \in [Instances -> Entries]
        BY <1>t, <2>5, Zenon DEF Becomes, TypeOK
      <4>4. Hands' = {}
        BY <4>2, <4>3, Zenon DEF Hands
      <4>5. /\ rec'[c].by = i /\ ~rec'[c].named
            /\ \A d \in Clients : d # c => rec'[d] = rec[d]
        BY <1>t, <1>1, ClaimsFacts, ZenonT(60)
      <4>6. \A d \in Clients : ~Holds(d)'
        <5>1. ~Holds(c)'
          BY <2>1, <2>5, <4>5, Zenon DEF Holds, Written
        <5>2. \A d \in Clients : d # c => (Holds(d)' => Holds(d))
          BY <2>5, <4>5, Zenon DEF Holds, Written
        <5> QED
          BY <4>2, <5>1, <5>2, Zenon
      <4> QED
        BY <1>1, <1>2, <3>2, <4>1, <4>4, <4>6, Zenon DEF Returns, Owned
    <3>6. Guarded'
      BY <1>t, <1>1, <3>5, ReturnsKeeps, Zenon DEF Guarded
    <3> QED
      BY <3>4, <3>6, Zenon DEF HInv
  <2> QED
    BY <1>4, <2>4, <2>5, Zenon DEF Restore
<1> QED
  BY <1>3, <1>4, Zenon DEF Connect

----------------------------------------------------------------------------
(* The theorems. *)

\* At first the message is in the backlog, and nobody has it.
LEMMA InitGood == Init => HInv
<1> SUFFICES ASSUME Init PROVE HInv
  BY Zenon
<1>1. \A c \in Clients : rec[c].by \in First /\ ClientOf[rec[c].by] = c
  BY HeldAssumption, SessionsAssumption, Zenon DEF Init
<1>2. \A c \in Clients : /\ rec[c] \in Records /\ rec[c].by \in Instances
                         /\ rec[c].by # "none" /\ rec[c].entry = "none" /\ ~rec[c].named
  BY <1>1, HeldAssumption, SessionsAssumption, SMTT(60) DEF Init, Records
<1>3. TypeOK
  <2>1. rec \in [Clients -> Records]
    BY <1>2, Zenon DEF Init
  <2> QED
    BY <2>1, Zenon DEF Init, TypeOK, Entries, States
<1>4. \A i \in Instances : Runs(i) /\ entry[i] = "none"
  BY HeldAssumption, SessionsAssumption, Zenon DEF Init, Runs
<1>5. Serving
  <2>1. \A c \in Clients : state[rec[c].by] = "open" /\ Runs(rec[c].by)
    BY <1>1, <1>2, <1>4, Zenon DEF Init
  <2>2. \A i \in Instances : state[i] \in {"open", "away"} => i \in First
    BY Zenon DEF Init
  <2>3. \A i \in First : rec[ClientOf[i]].by = i
    BY <1>1, HeldAssumption, SessionsAssumption, ZenonT(60)
  <2> QED
    BY <1>1, <1>2, <2>1, <2>2, <2>3, Zenon DEF Serving
<1>6. Blank /\ Subjects
  BY <1>2, <1>4, Zenon DEF Blank, Subjects, Init, InFlight
<1>7. Hands = {} /\ Naks = {} /\ \A c \in Clients : ~Holds(c) /\ ~Written(c)
  BY <1>2, <1>4 DEF Init, Hands, Naks, Holds, Written
<1>8. Guarded
  BY <1>7, Zenon DEF Guarded, Single, Spoken, Init
<1> QED
  BY <1>3, <1>5, <1>6, <1>8, Zenon DEF HInv, Sound

\* Every step keeps the message in one place.
LEMMA NextKeeps ==
    ASSUME HInv, [Next]_vars
    PROVE  HInv'
<1>1. CASE UNCHANGED vars
  <2>1. UNCHANGED <<js, wire, entry, named, state, rec, up, owner, unguarded>>
    BY <1>1, Zenon DEF vars, backlog, sessVars, ghosts
  <2>2. Sound'
    BY <2>1, SameSound, Zenon DEF HInv, Sound, TypeOK, Wired
  <2>3. Quiet
    BY <2>1, Zenon DEF Quiet, Hands, Naks, Acked, Holds, Written, Spoken, Owns, Runs
  <2> QED
    BY <2>1, <2>2, <2>3, QuietKeeps, Zenon DEF HInv
<1>2. ASSUME NEW i \in Instances, GoOn(i)
      PROVE  HInv'
  BY <1>2, HandBackKeeps, TrackKeeps, RecordQoS2Keeps, SendKeeps, DrainPubrelsKeeps,
     SettleOwnedKeeps, SessionLostKeeps, Zenon DEF GoOn
<1>3. ASSUME NEW i \in Instances,
             \/ Fetch(i) \/ Answer(i) \/ Checkpoint(i) \/ Disconnect(i)
             \/ Connect(i) \/ Expire(i) \/ HoldLimit(i)
      PROVE  HInv'
  BY <1>3, FetchKeeps, CompleteKeeps, PubrecKeeps, CheckpointKeeps, ConnectKeeps,
     ExpireKeeps, HoldLimitKeeps, Zenon DEF Answer
<1>4. CASE (\E r \in wire : Arrive(r)) \/ AckWait
  BY <1>4, ArriveKeeps, AckWaitKeeps, Zenon
<1>5. CASE \E c \in Clients : OrphanLimit(c) \/ Reclaim(c)
  BY <1>5, OrphanLimitKeeps, ReclaimKeeps, Zenon
<1>6. CASE \E b \in Brokers : Kill(b)
  BY <1>6, KillKeeps, Zenon
<1> QED
  BY <1>1, <1>2, <1>3, <1>4, <1>5, <1>6, Zenon DEF Next

\* A message of a group is in one place, the backlog, a member's hands, a session
\* or a nak, for every number of members, brokers, moves and faults, until it is
\* acknowledged or left unguarded.
THEOREM HeldInvariant == Spec => []HInv
<1>1. HInv /\ [Next]_vars => HInv'
  BY NextKeeps, Zenon
<1> QED
  BY <1>1, InitGood, PTL DEF Spec

\* held.go: "JetStream must not give the message to another member" while a session
\* has it, in the memory of a broker or in the record of one that died.
THEOREM HeldStays == Spec => []HeldIsKept
<1>1. HInv => HeldIsKept
  <2> SUFFICES ASSUME HInv, NEW c \in Clients, Has(c), js = "ready"
               PROVE  unguarded
    BY Zenon DEF HeldIsKept
  <2>1. Holds(c)
    BY Zenon DEF Has, Holds, Written
  <2> QED
    BY <2>1, Zenon DEF HInv, Guarded, Single
<1> QED
  BY <1>1, HeldInvariant, PTL

\* settleOwned and handBackHeld: a message its client owns is not given to another
\* member, whatever ends its connection or its session.
THEOREM OwnedStays == Spec => []OwnedIsKept
<1>1. HInv => OwnedIsKept
  BY Zenon DEF HInv, Guarded, Owned, OwnedIsKept
<1> QED
  BY <1>1, HeldInvariant, PTL

----------------------------------------------------------------------------
(* The group: the inductive invariant. *)

PCs == {"idle", "join", "lock", "ensure", "ensureUnlocked", "unlock", "bail",
        "install", "refuse", "leave", "remove", "count", "end", "recount",
        "delete", "deleteUnlocked", "endUnlock", "left", "write", "check"}

GroupTypeOK ==
    /\ members \in [Clients -> Instances \cup {NoEntry}]
    /\ pc \in [Procs -> PCs]
    /\ sweeper \in [at : {"idle", "remove", "end", "recount"},
                    of : Clients \cup {"none"}, on : Brokers \cup {"none"}]
    /\ sweeper.at # "idle" => sweeper.of \in Clients
    /\ cons \in BOOLEAN /\ unlocked \in BOOLEAN

\* The goroutines between lock and unlock, the sweep aside.
Locked == {"ensure", "unlock", "bail", "recount", "delete", "endUnlock"}

\* The key only one can create has one holder.
Exclusive ==
    /\ \A p, q \in Procs : pc[p] \in Locked /\ pc[q] \in Locked => p = q
    /\ \A p \in Procs : pc[p] \in Locked =>
           lock = "held" /\ sweeper.at # "recount"
    /\ sweeper.at = "recount" => lock = "held"

\* A client that is owed the messages, or about to be: its entry is there, and
\* from Ensure on the consumer is.
Awaits(c) == {p \in Procs : ClientOf[p[1]] = c
                            /\ pc[p] \in {"lock", "ensure", "unlock", "install"}}

Entered(c) == c \in owed \/ Awaits(c) # {} => members[c] # NoEntry

Backed(c) ==
    c \in owed \/ (\E p \in Awaits(c) : pc[p] \in {"unlock", "install"}) => cons

\* Whoever is about to delete the consumer has counted no member: nobody is owed
\* anything, or on the point of being.
Empty(c) ==
    (\E q \in Procs : pc[q] = "delete") =>
        c \notin owed /\ \A p \in Awaits(c) : pc[p] = "lock"

Counted ==
    unlocked \/
        /\ \A p \in Procs : pc[p] \notin {"ensureUnlocked", "deleteUnlocked"}
        /\ \A c \in Clients \ crossed : Entered(c) /\ Backed(c) /\ Empty(c)

GInv == GroupTypeOK /\ Exclusive /\ Counted

----------------------------------------------------------------------------
(* Steps that take nobody into the group and end no group. *)

Resting == {"idle", "join", "refuse", "leave", "remove", "count", "end", "left",
            "write", "check"}

\* The consumer stays; goroutines go on outside the lock, or give it back; an
\* entry goes only if its client does not need it, or is counted as crossed.
Calm ==
    /\ GroupTypeOK'
    /\ cons' = cons /\ unlocked' = unlocked
    /\ crossed \subseteq crossed' /\ owed' \subseteq owed
    /\ sweeper'.at = "recount" => sweeper.at = "recount"
    /\ \A p \in Procs : pc'[p] = pc[p] \/ pc'[p] \in Resting
    /\ \/ lock' = lock
       \/ sweeper'.at # "recount" /\ \A p \in Procs : pc'[p] \notin Locked
    /\ \A c \in Clients :
          members'[c] = NoEntry =>
              members[c] = NoEntry \/ c \in crossed' \/ (c \notin owed /\ ~Joining(c))

\* Such a step keeps the invariant.
LEMMA CalmKeeps ==
    ASSUME GInv, Calm
    PROVE  GInv'
<1>t. GroupTypeOK /\ Exclusive /\ Counted
  BY Zenon DEF GInv
<1>1. \A p \in Procs : pc'[p] \notin Resting => pc'[p] = pc[p]
  BY Zenon DEF Calm
<1>2. Exclusive'
  <2>1. \A p \in Procs : pc'[p] \in Locked => pc[p] \in Locked
    BY <1>1, Zenon DEF Resting, Locked
  <2>2. sweeper'.at = "recount" => sweeper.at = "recount"
    BY Zenon DEF Calm
  <2>3. \/ lock' = lock
        \/ sweeper'.at # "recount" /\ \A p \in Procs : pc'[p] \notin Locked
    BY Zenon DEF Calm
  <2> QED
    BY <1>t, <2>1, <2>2, <2>3, Zenon DEF Exclusive
<1>3. ASSUME ~unlocked', NEW c \in Clients \ crossed'
      PROVE  Entered(c)' /\ Backed(c)' /\ Empty(c)'
  <2>1. Entered(c) /\ Backed(c) /\ Empty(c)
    BY <1>t, <1>3, Zenon DEF Counted, Calm
  <2>2. \A p \in Awaits(c)' : p \in Awaits(c) /\ pc'[p] = pc[p]
    BY <1>1, Zenon DEF Awaits, Resting
  <2>3. Awaits(c) # {} => Joining(c)
    BY Zenon DEF Awaits, Joining
  <2>4. c \in owed' => c \in owed
    BY Zenon DEF Calm
  <2>5. Entered(c)'
    <3> SUFFICES ASSUME c \in owed' \/ Awaits(c)' # {}
                 PROVE  members'[c] # NoEntry
      BY Zenon DEF Entered
    <3>1. c \in owed \/ Awaits(c) # {}
      BY <2>2, <2>4, Zenon
    <3>2. members[c] # NoEntry
      BY <2>1, <3>1, Zenon DEF Entered
    <3> QED
      BY <1>3, <2>3, <3>1, <3>2, Zenon DEF Calm
  <2>6. Backed(c)'
    BY <2>1, <2>2, <2>4, Zenon DEF Backed, Calm
  <2>7. \A q \in Procs : pc'[q] = "delete" => pc[q] = "delete"
    BY <1>1, Zenon DEF Resting
  <2>8. Empty(c)'
    BY <2>1, <2>2, <2>4, <2>7, Zenon DEF Empty
  <2> QED
    BY <2>5, <2>6, <2>8, Zenon
<1>4. \A p \in Procs : pc'[p] \in {"ensureUnlocked", "deleteUnlocked"} => pc[p] = pc'[p]
  BY <1>1, Zenon DEF Resting
<1>5. Counted'
  BY <1>t, <1>3, <1>4, Zenon DEF Counted, Calm
<1> QED
  BY <1>2, <1>5, Zenon DEF GInv, Calm

\* Goes moves one goroutine.
LEMMA GoesFacts ==
    ASSUME GroupTypeOK, NEW p \in Procs, NEW to \in PCs, Goes(p, to)
    PROVE  /\ pc' \in [Procs -> PCs] /\ pc'[p] = to
           /\ \A q \in Procs : q # p => pc'[q] = pc[q]
  BY Zenon DEF GroupTypeOK, Goes

\* Put writes an entry and removes none.
LEMMA PutFacts ==
    ASSUME GroupTypeOK, NEW s \in Instances, Put(s)
    PROVE  /\ members' \in [Clients -> Instances \cup {NoEntry}]
           /\ members'[ClientOf[s]] # NoEntry
           /\ \A c \in Clients : members'[c] = NoEntry => members[c] = NoEntry
<1>1. /\ ClientOf[s] \in Clients /\ s # NoEntry
      /\ members' = [members EXCEPT ![ClientOf[s]] = s]
  BY SessionsAssumption, Zenon DEF NoEntry, Put
<1> QED
  BY <1>1, Zenon DEF GroupTypeOK

\* Connections, leaves, refreshes and pullers.
LEMMA ConnCalm ==
    ASSUME GInv, NEW s \in Instances,
           \/ ConnectMember(s) \/ MemberLost(s) \/ DisconnectMember(s) \/ ExpireMember(s)
           \/ Subscribe(s) \/ Unsubscribe(s) \/ RefreshRead(s)
           \/ RefreshCheck(s) \/ Heal(s)
    PROVE  Calm
<1>t. GroupTypeOK
  BY Zenon DEF GInv
<1>1. /\ UNCHANGED <<members, lock, cons, sweeper, crossed, unlocked>>
      /\ owed' \subseteq owed
  BY Zenon DEF ConnectMember, MemberLost, DisconnectMember, ExpireMember, Subscribe, Unsubscribe,
     RefreshRead, RefreshCheck, Heal, bucket, group, groupGhosts
<1>2. pc' = pc \/ \E p \in Procs, to \in Resting : Goes(p, to)
  <2>1. Conn(s) \in Procs /\ <<s, "refresh">> \in Procs /\ <<s, "pull">> \in Procs
    BY Zenon DEF Procs, Conn
  <2> QED
    BY <2>1, Zenon DEF ConnectMember, MemberLost, DisconnectMember, ExpireMember, Subscribe, Unsubscribe,
       RefreshRead, RefreshCheck, Heal, memberVars, Resting
<1>3. pc' \in [Procs -> PCs] /\ \A p \in Procs : pc'[p] = pc[p] \/ pc'[p] \in Resting
  <2>1. Resting \subseteq PCs
    BY Zenon DEF Resting, PCs
  <2>2. CASE pc' = pc
    BY <1>t, <2>2, Zenon DEF GroupTypeOK
  <2>3. CASE \E p \in Procs, to \in Resting : Goes(p, to)
    BY <1>t, <2>1, <2>3, GoesFacts, Zenon
  <2> QED
    BY <1>2, <2>2, <2>3, Zenon
<1> QED
  BY <1>t, <1>1, <1>3, Zenon DEF Calm, GroupTypeOK

\* The steps of a join or a leave that stay outside the lock.
LEMMA GoroutineCalm ==
    ASSUME GInv, NEW p \in Procs,
           \/ Join(p) /\ ~Goes(p, "lock")
           \/ Install(p) /\ ~(p[2] = "conn" /\ state[p[1]] = "open")
           \/ Refuse(p) \/ LeaveRead(p) \/ LeaveCount(p) \/ Left(p)
           \/ \E s \in Instances : p = <<s, "refresh">> /\ RefreshWrite(s)
    PROVE  Calm
<1>t. GroupTypeOK
  BY Zenon DEF GInv
<1>1. /\ UNCHANGED <<lock, cons, sweeper, crossed, unlocked>>
      /\ owed' \subseteq owed
  BY Zenon DEF Join, Install, Refuse, LeaveRead, LeaveCount, Left, RefreshWrite, group,
     groupGhosts
<1>2. \E to \in Resting : Goes(p, to)
  BY Zenon DEF Join, Install, Refuse, LeaveRead, LeaveCount, Left, RefreshWrite,
     Failed, GivesUp, Resting
<1>3. members' = members \/ \E s \in Instances : Put(s)
  <2>1. p[1] \in Instances
    BY Zenon DEF Procs
  <2> QED
    BY <2>1, Zenon DEF Join, Install, Refuse, LeaveRead, LeaveCount, Left, RefreshWrite, bucket
<1>4. pc' \in [Procs -> PCs] /\ \A q \in Procs : pc'[q] = pc[q] \/ pc'[q] \in Resting
  <2>1. Resting \subseteq PCs
    BY Zenon DEF Resting, PCs
  <2> QED
    BY <1>t, <1>2, <2>1, GoesFacts, Zenon
<1>5. /\ members' \in [Clients -> Instances \cup {NoEntry}]
      /\ \A c \in Clients : members'[c] = NoEntry => members[c] = NoEntry
  <2>1. CASE members' = members
    BY <1>t, <2>1, Zenon DEF GroupTypeOK
  <2>2. CASE \E s \in Instances : Put(s)
    BY <1>t, <2>2, PutFacts, Zenon
  <2> QED
    BY <1>3, <2>1, <2>2, Zenon
<1> QED
  BY <1>t, <1>1, <1>4, <1>5, Zenon DEF Calm, GroupTypeOK

\* The removal of an entry spares the client that needs it, or is counted.
LEMMA RemovedFacts ==
    ASSUME GroupTypeOK, NEW c \in Clients, Removed(c)
    PROVE  /\ members' \in [Clients -> Instances \cup {NoEntry}]
           /\ crossed \subseteq crossed'
           /\ \A d \in Clients :
                 members'[d] = NoEntry =>
                     members[d] = NoEntry \/ d \in crossed'
                     \/ (d \notin owed /\ ~Joining(d))
<1>1. members' = [members EXCEPT ![c] = NoEntry]
  BY Zenon DEF Removed
<1>2. crossed \subseteq crossed' /\ (c \in owed \/ Joining(c) => c \in crossed')
  BY Zenon DEF Removed
<1> QED
  BY <1>1, <1>2, Zenon DEF GroupTypeOK

\* leave removes the entry.
LEMMA LeaveRemoveCalm ==
    ASSUME GInv, NEW p \in Procs, LeaveRemove(p)
    PROVE  Calm
<1>t. GroupTypeOK
  BY Zenon DEF GInv
<1>1. UNCHANGED <<lock, cons, sweeper, owed, unlocked>>
  BY Zenon DEF LeaveRemove, group
<1>2. \E to \in Resting : Goes(p, to)
  BY Zenon DEF LeaveRemove, GivesUp, Resting
<1>3. pc' \in [Procs -> PCs] /\ \A q \in Procs : pc'[q] = pc[q] \/ pc'[q] \in Resting
  <2>1. Resting \subseteq PCs
    BY Zenon DEF Resting, PCs
  <2> QED
    BY <1>t, <1>2, <2>1, GoesFacts, Zenon
<1>4. ClientOf[p[1]] \in Clients
  BY SessionsAssumption, Zenon DEF NoEntry, Procs
<1>5. UNCHANGED <<members, crossed>> \/ Removed(ClientOf[p[1]])
  BY Zenon DEF LeaveRemove
<1>6. CASE UNCHANGED <<members, crossed>>
  BY <1>t, <1>1, <1>3, <1>6, Zenon DEF Calm, GroupTypeOK
<1>7. CASE Removed(ClientOf[p[1]])
  <2>1. /\ members' \in [Clients -> Instances \cup {NoEntry}]
        /\ crossed \subseteq crossed'
        /\ \A d \in Clients :
              members'[d] = NoEntry =>
                  members[d] = NoEntry \/ d \in crossed'
                  \/ (d \notin owed /\ ~Joining(d))
    BY <1>t, <1>4, <1>7, RemovedFacts, Zenon
  <2> QED
    BY <1>t, <1>1, <1>3, <2>1, Zenon DEF Calm, GroupTypeOK
<1> QED
  BY <1>5, <1>6, <1>7, Zenon

\* The sweep reads and removes entries.
LEMMA SweepCalm ==
    ASSUME GInv,
           \/ \E c \in Clients, b \in Brokers : SweepRead(c, b)
           \/ SweepRemove
           \/ SweepEnd /\ UNCHANGED lock
    PROVE  Calm
<1>t. GroupTypeOK
  BY Zenon DEF GInv
<1>1. UNCHANGED <<lock, cons, pc, owed, unlocked>>
  BY Zenon DEF SweepRead, SweepRemove, SweepEnd, group, groupGhosts
<1>2. CASE \E c \in Clients, b \in Brokers : SweepRead(c, b)
  BY <1>t, <1>1, <1>2 DEF SweepRead, Calm, GroupTypeOK, groupGhosts
<1>3. CASE SweepEnd /\ UNCHANGED lock
  <2>1. UNCHANGED <<members, crossed>>
        /\ \E a \in {"idle", "recount"} : sweeper' = [sweeper EXCEPT !.at = a]
    BY <1>3, Zenon DEF SweepEnd, bucket, groupGhosts
  <2>2. sweeper'.at # "recount" \/ lock' = "held"
    BY <1>t, <1>3, Zenon DEF SweepEnd, GroupTypeOK
  <2>3. sweeper'.at # "recount"
    BY <1>t, <1>3, Zenon DEF SweepEnd, GroupTypeOK
  <2> QED
    BY <1>t, <1>1, <2>1, <2>3, Zenon DEF Calm, GroupTypeOK
<1>4. CASE SweepRemove
  <2>1. /\ \E a \in {"idle", "end"} : sweeper' = [sweeper EXCEPT !.at = a]
        /\ sweeper.of \in Clients
        /\ UNCHANGED <<members, crossed>> \/ Removed(sweeper.of)
    BY <1>t, <1>4, Zenon DEF SweepRemove, GroupTypeOK
  <2>2. /\ sweeper' \in [at : {"idle", "remove", "end", "recount"},
                         of : Clients \cup {"none"}, on : Brokers \cup {"none"}]
        /\ sweeper'.at # "recount" /\ sweeper'.of \in Clients
    BY <1>t, <2>1, Zenon DEF GroupTypeOK
  <2>3. CASE UNCHANGED <<members, crossed>>
    BY <1>t, <1>1, <2>2, <2>3, Zenon DEF Calm, GroupTypeOK
  <2>4. CASE Removed(sweeper.of)
    <3>1. /\ members' \in [Clients -> Instances \cup {NoEntry}]
          /\ crossed \subseteq crossed'
          /\ \A d \in Clients :
                members'[d] = NoEntry =>
                    members[d] = NoEntry \/ d \in crossed'
                    \/ (d \notin owed /\ ~Joining(d))
      BY <1>t, <2>1, <2>4, RemovedFacts, Zenon
    <3> QED
      BY <1>t, <1>1, <2>2, <3>1, Zenon DEF Calm, GroupTypeOK
  <2> QED
    BY <2>1, <2>3, <2>4, Zenon
<1> QED
  BY <1>2, <1>3, <1>4, Zenon

\* The lock is given back at the end of a leave or of a join that failed.
LEMMA UnlockCalm ==
    ASSUME GInv, NEW p \in Procs, EndUnlock(p) \/ (Unlock(p) /\ pc[p] = "bail")
    PROVE  Calm
<1>t. GroupTypeOK /\ Exclusive
  BY Zenon DEF GInv
<1>1. UNCHANGED <<members, cons, sweeper, owed, crossed, unlocked>>
  BY Zenon DEF EndUnlock, Unlock, bucket, groupGhosts
<1>2. PICK to \in Resting : Goes(p, to)
  BY Zenon DEF EndUnlock, Unlock, Failed, Resting
<1>3. /\ pc' \in [Procs -> PCs] /\ pc'[p] = to
      /\ \A q \in Procs : q # p => pc'[q] = pc[q]
  <2>1. to \in PCs
    BY Zenon DEF Resting, PCs
  <2> QED
    BY <1>t, <1>2, <2>1, GoesFacts, Zenon
<1>4. pc[p] \in Locked
  BY Zenon DEF EndUnlock, Unlock, Locked
<1>5. sweeper.at # "recount" /\ \A q \in Procs : pc'[q] \notin Locked
  BY <1>t, <1>3, <1>4, Zenon DEF Exclusive, Locked, Resting
<1> QED
  BY <1>t, <1>1, <1>3, <1>5, Zenon DEF Calm, GroupTypeOK

\* A broker dies, with the lock it may hold; a record is reclaimed.
LEMMA KillCalm ==
    ASSUME GInv, (\E b \in Brokers : KillBroker(b)) \/ (\E c \in Clients : ReclaimRecord(c))
    PROVE  Calm
<1>t. GroupTypeOK /\ Exclusive
  BY Zenon DEF GInv
<1>1. CASE \E c \in Clients : ReclaimRecord(c)
  BY <1>t, <1>1, Zenon DEF ReclaimRecord, Calm, GroupTypeOK, bucket, group
<1>2. ASSUME NEW b \in Brokers, KillBroker(b)
      PROVE  Calm
  <2> DEFINE dies == \/ \E p \in Procs : Home[p[1]] = b /\ pc[p] \in Locked
                     \/ sweeper.on = b /\ sweeper.at \in {"recount"}
  <2>1. /\ UNCHANGED <<members, cons, owed, crossed, unlocked>>
        /\ pc' = [p \in Procs |-> IF Home[p[1]] = b THEN "idle" ELSE pc[p]]
        /\ sweeper' = IF sweeper.on = b THEN [sweeper EXCEPT !.at = "idle"] ELSE sweeper
        /\ lock' = IF dies THEN "stale" ELSE lock
    BY <1>2, Zenon DEF KillBroker, Locked
  <2>2. pc' \in [Procs -> PCs] /\ \A p \in Procs : pc'[p] = pc[p] \/ pc'[p] \in Resting
    BY <1>t, <2>1, Zenon DEF GroupTypeOK, PCs, Resting
  <2>3. /\ sweeper' \in [at : {"idle", "remove", "end", "recount"},
                         of : Clients \cup {"none"}, on : Brokers \cup {"none"}]
        /\ sweeper'.at # "idle" => sweeper'.of \in Clients
        /\ sweeper'.at = "recount" => sweeper.at = "recount" /\ sweeper.on # b
    BY <1>t, <2>1, Zenon DEF GroupTypeOK
  <2>4. dies => sweeper'.at # "recount" /\ \A p \in Procs : pc'[p] \notin Locked
    <3>1. ASSUME NEW p \in Procs, Home[p[1]] = b, pc[p] \in Locked
          PROVE  sweeper'.at # "recount" /\ \A q \in Procs : pc'[q] \notin Locked
      BY <1>t, <2>1, <2>3, <3>1, Zenon DEF Exclusive, Locked
    <3>2. ASSUME sweeper.on = b, sweeper.at = "recount"
          PROVE  sweeper'.at # "recount" /\ \A q \in Procs : pc'[q] \notin Locked
      BY <1>t, <2>1, <2>3, <3>2, Zenon DEF Exclusive, Locked
    <3> QED
      BY <3>1, <3>2, Zenon
  <2> HIDE DEF dies
  <2> QED
    BY <1>t, <2>1, <2>2, <2>3, <2>4, Zenon DEF Calm, GroupTypeOK
<1> QED
  BY <1>1, <1>2, Zenon

----------------------------------------------------------------------------
(* Steps into the group, and out of it. *)

\* The member's entry is recorded before the lock is asked for.
LEMMA JoinKeeps ==
    ASSUME GInv, NEW p \in Procs, Join(p), Goes(p, "lock")
    PROVE  GInv'
<1>t. GroupTypeOK /\ Exclusive /\ Counted
  BY Zenon DEF GInv
<1>1. /\ UNCHANGED <<lock, cons, sweeper, owed, crossed, unlocked>>
      /\ Put(p[1]) /\ pc[p] = "join" /\ p[1] \in Instances
  <2>1. pc'[p] = "lock"
    BY <1>t, Zenon DEF Goes, GroupTypeOK
  <2>2. ~Goes(p, Failed(p))
    BY <1>t, <2>1, Zenon DEF Goes, GroupTypeOK, Failed
  <2>3. p[1] \in Instances
    BY Zenon DEF Procs
  <2> QED
    BY <2>2, <2>3, Zenon DEF Join, group, groupGhosts
<1>2. /\ pc' \in [Procs -> PCs] /\ pc'[p] = "lock"
      /\ \A q \in Procs : q # p => pc'[q] = pc[q]
  <2>1. "lock" \in PCs
    BY Zenon DEF PCs
  <2> QED
    BY <1>t, <2>1, GoesFacts, Zenon
<1>3. /\ members' \in [Clients -> Instances \cup {NoEntry}]
      /\ members'[ClientOf[p[1]]] # NoEntry
      /\ \A c \in Clients : members'[c] = NoEntry => members[c] = NoEntry
  BY <1>t, <1>1, PutFacts, Zenon
<1>4. GroupTypeOK'
  BY <1>t, <1>1, <1>2, <1>3, Zenon DEF GroupTypeOK
<1>5. Exclusive'
  BY <1>t, <1>1, <1>2, Zenon DEF Exclusive, Locked
<1>6. ASSUME ~unlocked', NEW c \in Clients \ crossed'
      PROVE  Entered(c)' /\ Backed(c)' /\ Empty(c)'
  <2>1. Entered(c) /\ Backed(c) /\ Empty(c)
    BY <1>t, <1>1, <1>6, Zenon DEF Counted
  <2>2. \A q \in Awaits(c)' : \/ q \in Awaits(c) /\ pc'[q] = pc[q]
                              \/ q = p /\ ClientOf[p[1]] = c /\ pc'[q] = "lock"
    BY <1>2, Zenon DEF Awaits
  <2>3. Entered(c)'
    BY <1>1, <1>3, <2>1, <2>2, Zenon DEF Entered
  <2>4. Backed(c)'
    BY <1>1, <2>1, <2>2, Zenon DEF Backed
  <2>5. \A q \in Procs : pc'[q] = "delete" => pc[q] = "delete"
    BY <1>2, Zenon
  <2>6. Empty(c)'
    BY <1>1, <2>1, <2>2, <2>5, Zenon DEF Empty
  <2> QED
    BY <2>3, <2>4, <2>6, Zenon
<1>7. Counted'
  BY <1>t, <1>1, <1>2, <1>6, Zenon DEF Counted
<1> QED
  BY <1>4, <1>5, <1>7, Zenon DEF GInv

\* A goroutine that moves inside the lock, or takes it, leaving the bucket and
\* the promises alone.
Moves(p, to) ==
    /\ Goes(p, to) /\ UNCHANGED <<members, owed, crossed, sweeper>>

\* It is taken without an answer: nothing is promised after that.
LEMMA LockFailsKeeps ==
    ASSUME GInv, NEW p \in Procs, NEW to \in PCs \ Locked, Moves(p, to),
           UNCHANGED cons, unlocked', lock' # lock => lock = "free"
    PROVE  GInv'
<1>t. GroupTypeOK /\ Exclusive
  BY Zenon DEF GInv
<1>1. /\ pc' \in [Procs -> PCs] /\ pc'[p] = to
      /\ \A q \in Procs : q # p => pc'[q] = pc[q]
  BY <1>t, GoesFacts, Zenon DEF Moves
<1>2. GroupTypeOK'
  BY <1>t, <1>1, Zenon DEF GroupTypeOK, Moves
<1>3. Exclusive'
  BY <1>t, <1>1, Zenon DEF Exclusive, Moves
<1> QED
  BY <1>2, <1>3, Zenon DEF GInv, Counted

\* The lock is taken by a goroutine that joins, or that ends the group.
LEMMA TakeKeeps ==
    ASSUME GInv, NEW p \in Procs, NEW to \in {"ensure", "recount"}, Moves(p, to),
           Take(p), to = "ensure" => pc[p] = "lock", UNCHANGED <<cons, unlocked>>
    PROVE  GInv'
<1>t. GroupTypeOK /\ Exclusive /\ Counted
  BY Zenon DEF GInv
<1>1. /\ pc' \in [Procs -> PCs] /\ pc'[p] = to
      /\ \A q \in Procs : q # p => pc'[q] = pc[q]
  <2>1. to \in PCs
    BY Zenon DEF PCs
  <2> QED
    BY <1>t, <2>1, GoesFacts, Zenon DEF Moves
<1>2. GroupTypeOK'
  BY <1>t, <1>1, Zenon DEF GroupTypeOK, Moves
<1>3. sweeper.at # "recount" /\ \A q \in Procs : pc[q] \notin Locked
  BY <1>t, Zenon DEF Exclusive, Take
<1>4. Exclusive'
  BY <1>1, <1>3, Zenon DEF Exclusive, Moves, Take
<1>5. ASSUME ~unlocked', NEW c \in Clients \ crossed'
      PROVE  Entered(c)' /\ Backed(c)' /\ Empty(c)'
  <2>1. Entered(c) /\ Backed(c)
    BY <1>t, <1>5, Zenon DEF Counted, Moves
  <2>2. \A q \in Awaits(c)' : q \in Awaits(c) /\ (pc'[q] = pc[q] \/ pc'[q] = "ensure")
    BY <1>1, Zenon DEF Awaits
  <2>3. Entered(c)'
    BY <2>1, <2>2, Zenon DEF Entered, Moves
  <2>4. Backed(c)'
    BY <2>1, <2>2, Zenon DEF Backed, Moves
  <2>5. \A q \in Procs : pc'[q] # "delete"
    BY <1>1, <1>3, Zenon DEF Locked
  <2> QED
    BY <2>3, <2>4, <2>5, Zenon DEF Empty
<1>6. Counted'
  BY <1>t, <1>1, <1>5, Zenon DEF Counted
<1> QED
  BY <1>2, <1>4, <1>6, Zenon DEF GInv

\* The consumer is found or made, under the lock.
LEMMA EnsureKeeps ==
    ASSUME GInv, NEW p \in Procs, Ensure(p)
    PROVE  GInv'
<1>t. GroupTypeOK /\ Exclusive /\ Counted
  BY Zenon DEF GInv
<1>1. /\ UNCHANGED <<members, lock, owed, crossed, unlocked, sweeper>>
      /\ cons' \in BOOLEAN /\ (cons => cons')
  BY <1>t, Zenon DEF Ensure, bucket, groupGhosts, GroupTypeOK
<1>2. PICK to \in PCs :
         /\ Goes(p, to)
         /\ pc[p] = "ensure" => to = "bail" \/ (to = "unlock" /\ cons')
         /\ pc[p] # "ensure" => pc[p] = "ensureUnlocked" /\ to \notin Locked
  BY Zenon DEF Ensure, Failed, PCs, Locked
<1>3. /\ pc' \in [Procs -> PCs] /\ pc'[p] = to
      /\ \A q \in Procs : q # p => pc'[q] = pc[q]
  BY <1>t, <1>2, GoesFacts, Zenon
<1>4. GroupTypeOK'
  BY <1>t, <1>1, <1>3, Zenon DEF GroupTypeOK
<1>5. Exclusive'
  BY <1>t, <1>1, <1>2, <1>3, Zenon DEF Exclusive, Locked
<1>6. ASSUME ~unlocked', NEW c \in Clients \ crossed'
      PROVE  Entered(c)' /\ Backed(c)' /\ Empty(c)'
  <2>1. /\ Entered(c) /\ Backed(c) /\ Empty(c) /\ pc[p] = "ensure"
        /\ to = "bail" \/ (to = "unlock" /\ cons')
    BY <1>t, <1>1, <1>2, <1>6, Zenon DEF Counted
  <2>2. \A q \in Awaits(c)' : q \in Awaits(c) /\ (q # p => pc'[q] = pc[q])
    BY <1>3, <2>1, Zenon DEF Awaits
  <2>3. Entered(c)'
    BY <1>1, <2>1, <2>2, Zenon DEF Entered
  <2>4. Backed(c)'
    BY <1>1, <1>3, <2>1, <2>2, Zenon DEF Backed, Awaits
  <2>5. \A q \in Procs : pc'[q] # "delete"
    BY <1>t, <1>3, <2>1, Zenon DEF Exclusive, Locked
  <2> QED
    BY <2>3, <2>4, <2>5, Zenon DEF Empty
<1>7. Counted'
  BY <1>t, <1>1, <1>2, <1>3, <1>6, Zenon DEF Counted
<1> QED
  BY <1>4, <1>5, <1>7, Zenon DEF GInv

\* The lock is given back by a join that has its consumer.
LEMMA UnlockKeeps ==
    ASSUME GInv, NEW p \in Procs, Unlock(p), pc[p] = "unlock"
    PROVE  GInv'
<1>t. GroupTypeOK /\ Exclusive /\ Counted
  BY Zenon DEF GInv
<1>1. UNCHANGED <<members, cons, sweeper, owed, crossed, unlocked>> /\ Goes(p, "install")
  BY Zenon DEF Unlock, bucket, groupGhosts
<1>2. /\ pc' \in [Procs -> PCs] /\ pc'[p] = "install"
      /\ \A q \in Procs : q # p => pc'[q] = pc[q]
  <2>1. "install" \in PCs
    BY Zenon DEF PCs
  <2> QED
    BY <1>t, <1>1, <2>1, GoesFacts, Zenon
<1>3. GroupTypeOK'
  BY <1>t, <1>1, <1>2, Zenon DEF GroupTypeOK
<1>4. sweeper.at # "recount" /\ \A q \in Procs : pc'[q] \notin Locked
  BY <1>t, <1>2, Zenon DEF Exclusive, Locked
<1>5. Exclusive'
  BY <1>1, <1>4, Zenon DEF Exclusive
<1>6. ASSUME ~unlocked', NEW c \in Clients \ crossed'
      PROVE  Entered(c)' /\ Backed(c)' /\ Empty(c)'
  <2>1. Entered(c) /\ Backed(c)
    BY <1>t, <1>1, <1>6, Zenon DEF Counted
  <2>2. \A q \in Awaits(c)' : q \in Awaits(c) /\ (q # p => pc'[q] = pc[q])
    BY <1>2, Zenon DEF Awaits
  <2>3. Entered(c)'
    BY <1>1, <2>1, <2>2, Zenon DEF Entered
  <2>4. Backed(c)'
    BY <1>1, <2>1, <2>2, Zenon DEF Backed
  <2>5. \A q \in Procs : pc'[q] # "delete"
    BY <1>4, Zenon DEF Locked
  <2> QED
    BY <2>3, <2>4, <2>5, Zenon DEF Empty
<1>7. Counted'
  BY <1>t, <1>1, <1>2, <1>6, Zenon DEF Counted
<1> QED
  BY <1>3, <1>5, <1>7, Zenon DEF GInv

\* The SUBACK: the client is owed what its entry and the consumer stand for.
LEMMA InstallKeeps ==
    ASSUME GInv, NEW p \in Procs, Install(p), p[2] = "conn", state[p[1]] = "open"
    PROVE  GInv'
<1>t. GroupTypeOK /\ Exclusive /\ Counted
  BY Zenon DEF GInv
<1>1. /\ UNCHANGED <<members, lock, cons, sweeper, crossed, unlocked>>
      /\ pc[p] = "install" /\ Goes(p, "idle")
      /\ owed' = owed \cup {ClientOf[p[1]]}
  BY Zenon DEF Install, bucket, group
<1>2. /\ pc' \in [Procs -> PCs] /\ pc'[p] = "idle"
      /\ \A q \in Procs : q # p => pc'[q] = pc[q]
  <2>1. "idle" \in PCs
    BY Zenon DEF PCs
  <2> QED
    BY <1>t, <1>1, <2>1, GoesFacts, Zenon
<1>3. GroupTypeOK'
  BY <1>t, <1>1, <1>2, Zenon DEF GroupTypeOK
<1>4. Exclusive'
  BY <1>t, <1>1, <1>2, Zenon DEF Exclusive, Locked
<1>5. ASSUME ~unlocked', NEW c \in Clients \ crossed'
      PROVE  Entered(c)' /\ Backed(c)' /\ Empty(c)'
  <2>1. Entered(c) /\ Backed(c) /\ Empty(c)
    BY <1>t, <1>1, <1>5, Zenon DEF Counted
  <2>2. \A q \in Awaits(c)' : q \in Awaits(c) /\ pc'[q] = pc[q]
    BY <1>2, Zenon DEF Awaits
  <2>3. c \in owed' => c \in owed \/ p \in Awaits(c)
    BY <1>1, Zenon DEF Awaits
  <2>4. Entered(c)'
    BY <1>1, <2>1, <2>2, <2>3, Zenon DEF Entered
  <2>5. Backed(c)'
    BY <1>1, <2>1, <2>2, <2>3, Zenon DEF Backed
  <2>6. \A q \in Procs : pc'[q] = "delete" => pc[q] = "delete"
    BY <1>2, Zenon
  <2>7. Empty(c)'
    BY <1>1, <2>1, <2>2, <2>3, <2>6, Zenon DEF Empty
  <2> QED
    BY <2>4, <2>5, <2>7, Zenon
<1>6. Counted'
  BY <1>t, <1>1, <1>2, <1>5, Zenon DEF Counted
<1> QED
  BY <1>3, <1>4, <1>6, Zenon DEF GInv

\* Nobody is owed anything, or about to be, where no entry is.
LEMMA EmptyMeansNobody ==
    ASSUME GInv, ~unlocked, ~hasMember, NEW c \in Clients \ crossed
    PROVE  c \notin owed /\ Awaits(c) = {}
  BY Zenon DEF GInv, Counted, Entered, hasMember

\* endGroup counts again under the lock.
LEMMA EndCountKeeps ==
    ASSUME GInv, NEW p \in Procs, EndCount(p)
    PROVE  GInv'
<1>t. GroupTypeOK /\ Exclusive /\ Counted
  BY Zenon DEF GInv
<1>1. /\ UNCHANGED <<members, lock, cons, sweeper, owed, crossed, unlocked>>
      /\ pc[p] = "recount"
  BY Zenon DEF EndCount, bucket, group
<1>2. PICK to \in {"delete", "endUnlock"} :
         Goes(p, to) /\ (to = "delete" => ~hasMember)
  BY Zenon DEF EndCount, stillEmpty, GivesUp
<1>3. /\ pc' \in [Procs -> PCs] /\ pc'[p] = to
      /\ \A q \in Procs : q # p => pc'[q] = pc[q]
  <2>1. to \in PCs
    BY Zenon DEF PCs
  <2> QED
    BY <1>t, <1>2, <2>1, GoesFacts, Zenon
<1>4. GroupTypeOK'
  BY <1>t, <1>1, <1>3, Zenon DEF GroupTypeOK
<1>5. Exclusive'
  BY <1>t, <1>1, <1>3, Zenon DEF Exclusive, Locked
<1>6. ASSUME ~unlocked', NEW c \in Clients \ crossed'
      PROVE  Entered(c)' /\ Backed(c)' /\ Empty(c)'
  <2>1. Entered(c) /\ Backed(c) /\ Empty(c)
    BY <1>t, <1>1, <1>6, Zenon DEF Counted
  <2>2. \A q \in Awaits(c)' : q \in Awaits(c) /\ pc'[q] = pc[q]
    BY <1>3, Zenon DEF Awaits
  <2>3. Entered(c)'
    BY <1>1, <2>1, <2>2, Zenon DEF Entered
  <2>4. Backed(c)'
    BY <1>1, <2>1, <2>2, Zenon DEF Backed
  <2>5. Empty(c)'
    <3>1. CASE to = "delete"
      <4>1. c \notin owed /\ Awaits(c) = {}
        BY <1>1, <1>2, <1>6, <3>1, EmptyMeansNobody, Zenon
      <4> QED
        BY <1>1, <2>2, <4>1, Zenon DEF Empty
    <3>2. CASE to # "delete"
      <4>1. \A q \in Procs : pc'[q] = "delete" => pc[q] = "delete"
        BY <1>3, <3>2, Zenon
      <4> QED
        BY <1>1, <2>1, <2>2, <4>1, Zenon DEF Empty
    <3> QED
      BY <3>1, <3>2, Zenon
  <2> QED
    BY <2>3, <2>4, <2>5, Zenon
<1>7. Counted'
  BY <1>t, <1>1, <1>3, <1>6, Zenon DEF Counted
<1> QED
  BY <1>4, <1>5, <1>7, Zenon DEF GInv

\* endGroup deletes the consumer; without the lock nothing is promised.
LEMMA EndDeleteKeeps ==
    ASSUME GInv, NEW p \in Procs, EndDelete(p)
    PROVE  GInv'
<1>t. GroupTypeOK /\ Exclusive /\ Counted
  BY Zenon DEF GInv
<1>1. /\ UNCHANGED <<members, lock, sweeper, owed, crossed, unlocked>>
      /\ cons' \in BOOLEAN /\ pc[p] \in {"delete", "deleteUnlocked"}
  BY <1>t, Zenon DEF EndDelete, bucket, GroupTypeOK
<1>2. PICK to \in {"endUnlock", "left"} :
         Goes(p, to) /\ (to = "endUnlock" => pc[p] = "delete")
  BY Zenon DEF EndDelete, GivesUp
<1>3. /\ pc' \in [Procs -> PCs] /\ pc'[p] = to
      /\ \A q \in Procs : q # p => pc'[q] = pc[q]
  <2>1. to \in PCs
    BY Zenon DEF PCs
  <2> QED
    BY <1>t, <1>2, <2>1, GoesFacts, Zenon
<1>4. GroupTypeOK'
  BY <1>t, <1>1, <1>3, Zenon DEF GroupTypeOK
<1>5. Exclusive'
  BY <1>t, <1>1, <1>2, <1>3, Zenon DEF Exclusive, Locked
<1>6. ASSUME ~unlocked', NEW c \in Clients \ crossed'
      PROVE  Entered(c)' /\ Backed(c)' /\ Empty(c)'
  <2>1. Entered(c) /\ Empty(c) /\ pc[p] = "delete"
    BY <1>t, <1>1, <1>6, Zenon DEF Counted
  <2>2. \A q \in Awaits(c)' : q \in Awaits(c) /\ pc'[q] = pc[q]
    BY <1>3, Zenon DEF Awaits
  <2>3. Entered(c)'
    BY <1>1, <2>1, <2>2, Zenon DEF Entered
  <2>4. c \notin owed /\ \A q \in Awaits(c) : pc[q] = "lock"
    BY <2>1, Zenon DEF Empty
  <2>5. Backed(c)'
    BY <1>1, <2>2, <2>4, Zenon DEF Backed
  <2>6. Empty(c)'
    BY <1>1, <2>2, <2>4, Zenon DEF Empty
  <2> QED
    BY <2>3, <2>5, <2>6, Zenon
<1>7. Counted'
  BY <1>t, <1>1, <1>3, <1>6, Zenon DEF Counted
<1> QED
  BY <1>4, <1>5, <1>7, Zenon DEF GInv
\* The sweep takes the lock, counts again and deletes.
LEMMA SweepKeeps ==
    ASSUME GInv, SweepEnd \/ SweepDelete
    PROVE  GInv'
<1>t. GroupTypeOK /\ Exclusive /\ Counted
  BY Zenon DEF GInv
<1>1. UNCHANGED <<members, pc, owed, crossed, unlocked>>
  BY Zenon DEF SweepEnd, SweepDelete, bucket, groupGhosts
<1>2. \A c \in Clients : Awaits(c)' = Awaits(c)
  BY <1>1, Zenon DEF Awaits
<1>3. CASE SweepEnd
  <2>1. CASE UNCHANGED lock
    BY <1>3, <2>1, SweepCalm, CalmKeeps, Zenon
  <2>2. CASE lock' # lock
    <3>1. /\ lock \in {"free", "stale"} /\ lock' = "held" /\ cons' = cons
          /\ sweeper' = [sweeper EXCEPT !.at = "recount"] /\ sweeper.at = "end"
      BY <1>3, <2>2, Zenon DEF SweepEnd
    <3>2. GroupTypeOK'
      BY <1>t, <1>1, <3>1, Zenon DEF GroupTypeOK
    <3>3. \A p \in Procs : pc[p] \notin Locked
      BY <1>t, <3>1, Zenon DEF Exclusive
    <3>4. Exclusive'
      BY <1>1, <3>1, <3>3, Zenon DEF Exclusive
    <3>5. Counted'
      BY <1>t, <1>1, <1>2, <3>1, Zenon DEF Counted, Entered, Backed, Empty
    <3> QED
      BY <3>2, <3>4, <3>5, Zenon DEF GInv
  <2> QED
    BY <2>1, <2>2, Zenon
<1>4. CASE SweepDelete
  <2>1. /\ cons' = (cons /\ hasMember) /\ sweeper.at = "recount"
        /\ sweeper' = [sweeper EXCEPT !.at = "idle"]
    BY <1>4, Zenon DEF SweepDelete, stillEmpty, hasMember
  <2>2. cons' \in BOOLEAN /\ sweeper'.at = "idle"
    BY <1>t, <2>1, Zenon DEF GroupTypeOK
  <2>3. GroupTypeOK'
    BY <1>t, <1>1, <2>1, <2>2, Zenon DEF GroupTypeOK
  <2>4. \A p \in Procs : pc[p] \notin Locked
    BY <1>t, <2>1, Zenon DEF Exclusive
  <2>5. Exclusive'
    BY <1>1, <2>2, <2>4, Zenon DEF Exclusive
  <2>6. ASSUME ~unlocked', NEW c \in Clients \ crossed'
        PROVE  Entered(c)' /\ Backed(c)' /\ Empty(c)'
    <3>1. Entered(c) /\ Backed(c) /\ Empty(c)
      BY <1>t, <1>1, <2>6, Zenon DEF Counted
    <3>2. Entered(c)' /\ Empty(c)'
      BY <1>1, <1>2, <3>1, Zenon DEF Entered, Empty
    <3>3. CASE hasMember
      <4>1. cons' = cons
        BY <1>t, <2>1, <3>3, Zenon DEF GroupTypeOK
      <4> QED
        BY <1>1, <1>2, <3>1, <3>2, <4>1, Zenon DEF Backed
    <3>4. CASE ~hasMember
      <4>1. c \notin owed /\ Awaits(c) = {}
        BY <1>1, <2>6, <3>4, EmptyMeansNobody, Zenon
      <4> QED
        BY <1>1, <1>2, <3>2, <4>1, Zenon DEF Backed
    <3> QED
      BY <3>3, <3>4, Zenon
  <2>7. Counted'
    BY <1>t, <1>1, <2>6, Zenon DEF Counted
  <2> QED
    BY <2>3, <2>5, <2>7, Zenon DEF GInv
<1> QED
  BY <1>3, <1>4, Zenon

\* The lock is asked for, by a join or by the end of the group.
LEMMA LockKeeps ==
    ASSUME GInv, NEW p \in Procs, Lock(p) \/ EndLock(p)
    PROVE  GInv'
<1>1. CASE Lock(p) /\ Take(p) /\ Goes(p, "ensure") /\ UNCHANGED unlocked
  BY <1>1, TakeKeeps, Zenon DEF Lock, Moves, bucket
<1>2. CASE EndLock(p) /\ Take(p) /\ Goes(p, "recount") /\ UNCHANGED unlocked
  BY <1>2, TakeKeeps, Zenon DEF EndLock, Moves, bucket
<1>3. CASE LockFails /\ \E to \in {"ensureUnlocked", "deleteUnlocked"} : Goes(p, to)
  <2>1. PICK to \in {"ensureUnlocked", "deleteUnlocked"} : Goes(p, to)
    BY <1>3, Zenon
  <2>2. to \in PCs \ Locked
    BY Zenon DEF PCs, Locked
  <2>3. UNCHANGED <<members, owed, crossed, sweeper, cons>>
    BY Zenon DEF Lock, EndLock, bucket
  <2>4. unlocked' /\ (lock' # lock => lock = "free")
    BY <1>3, Zenon DEF LockFails
  <2> QED
    BY <2>1, <2>2, <2>3, <2>4, LockFailsKeeps, Zenon DEF Moves
<1> QED
  BY <1>1, <1>2, <1>3, Zenon DEF Lock, EndLock

\* Every step keeps the invariant.
LEMMA GroupNextKeeps ==
    ASSUME GInv, [GroupNext]_groupVars
    PROVE  GInv'
<1>1. CASE UNCHANGED groupVars
  <2>1. Calm
    BY <1>1, Zenon DEF Calm, GInv, GroupTypeOK, groupVars, bucket, group, groupGhosts
  <2> QED
    BY <2>1, CalmKeeps, Zenon
<1>2. ASSUME NEW s \in Instances,
             \/ ConnectMember(s) \/ MemberLost(s) \/ DisconnectMember(s) \/ ExpireMember(s)
             \/ Subscribe(s) \/ Unsubscribe(s)
             \/ RefreshRead(s) \/ RefreshStep(s) \/ Heal(s)
      PROVE  GInv'
  <2>1. CASE RefreshWrite(s)
    <3>1. <<s, "refresh">> \in Procs
      BY Zenon DEF Procs
    <3> QED
      BY <2>1, <3>1, GoroutineCalm, CalmKeeps, Zenon
  <2>2. CASE ~RefreshWrite(s)
    BY <1>2, <2>2, ConnCalm, CalmKeeps, Zenon DEF RefreshStep
  <2> QED
    BY <2>1, <2>2, Zenon
<1>3. ASSUME NEW p \in Procs, JoinStep(p)
      PROVE  GInv'
  <2>1. CASE Join(p)
    BY <2>1, JoinKeeps, GoroutineCalm, CalmKeeps, Zenon
  <2>2. CASE Lock(p) \/ Ensure(p)
    BY <2>2, LockKeeps, EnsureKeeps, Zenon
  <2>3. CASE Unlock(p)
    <3>1. pc[p] \in {"unlock", "bail"}
      BY <2>3, Zenon DEF Unlock
    <3> QED
      BY <2>3, <3>1, UnlockKeeps, UnlockCalm, CalmKeeps, Zenon
  <2>4. CASE Install(p)
    BY <2>4, InstallKeeps, GoroutineCalm, CalmKeeps, Zenon
  <2>5. CASE Refuse(p)
    BY <2>5, GoroutineCalm, CalmKeeps, Zenon
  <2> QED
    BY <1>3, <2>1, <2>2, <2>3, <2>4, <2>5, Zenon DEF JoinStep
<1>4. ASSUME NEW p \in Procs, LeaveStep(p)
      PROVE  GInv'
  <2>1. CASE LeaveRead(p) \/ LeaveCount(p) \/ Left(p)
    BY <2>1, GoroutineCalm, CalmKeeps, Zenon
  <2>2. CASE LeaveRemove(p) \/ EndUnlock(p)
    BY <2>2, LeaveRemoveCalm, UnlockCalm, CalmKeeps, Zenon
  <2>3. CASE EndLock(p) \/ EndCount(p) \/ EndDelete(p)
    BY <2>3, LockKeeps, EndCountKeeps, EndDeleteKeeps, Zenon
  <2> QED
    BY <1>4, <2>1, <2>2, <2>3, Zenon DEF LeaveStep
<1>5. CASE SweepStep
  <2>1. CASE (\E c \in Clients, b \in Brokers : SweepRead(c, b)) \/ SweepRemove
    BY <2>1, SweepCalm, CalmKeeps, Zenon
  <2> QED
    BY <1>5, <2>1, SweepKeeps, Zenon DEF SweepStep
<1>6. CASE (\E b \in Brokers : KillBroker(b)) \/ (\E c \in Clients : ReclaimRecord(c))
  BY <1>6, KillCalm, CalmKeeps, Zenon
<1> QED
  BY <1>1, <1>2, <1>3, <1>4, <1>5, <1>6, Zenon DEF GroupNext

\* Nothing is in the bucket, and nobody is at anything.
LEMMA GroupInitGood == GroupInit => GInv
<1> SUFFICES ASSUME GroupInit PROVE GInv
  BY Zenon
<1>1. \A p \in Procs : pc[p] = "idle"
  BY Zenon DEF GroupInit
<1>2. GroupTypeOK
  BY Zenon DEF GroupInit, GroupTypeOK, PCs
<1>3. Exclusive
  BY <1>1, Zenon DEF GroupInit, Exclusive, Locked
<1>4. \A c \in Clients : Awaits(c) = {} /\ c \notin owed
  BY <1>1, Zenon DEF GroupInit, Awaits
<1>5. Counted
  BY <1>1, <1>4, Zenon DEF Counted, Entered, Backed, Empty
<1> QED
  BY <1>2, <1>3, <1>5, Zenon DEF GInv

\* Only clients are promised anything.
LEMMA OwedKnown ==
    ASSUME owed \subseteq Clients, [GroupNext]_groupVars
    PROVE  owed' \subseteq Clients
<1>1. ASSUME NEW s \in Instances,
             \/ ConnectMember(s) \/ MemberLost(s) \/ DisconnectMember(s) \/ ExpireMember(s)
             \/ Subscribe(s) \/ Unsubscribe(s)
             \/ RefreshRead(s) \/ RefreshStep(s) \/ Heal(s)
      PROVE  owed' \subseteq Clients
  BY <1>1, Zenon DEF ConnectMember, MemberLost, DisconnectMember, ExpireMember, Subscribe, Unsubscribe,
     RefreshRead, RefreshStep, RefreshWrite, RefreshCheck, Heal, groupGhosts
<1>2. ASSUME NEW p \in Procs, JoinStep(p)
      PROVE  owed' \subseteq Clients
  <2>1. ClientOf[p[1]] \in Clients
    BY SessionsAssumption, Zenon DEF NoEntry, Procs
  <2> QED
    BY <1>2, <2>1, Zenon DEF JoinStep, Join, Lock, Ensure, Unlock, Install, Refuse, groupGhosts
<1>3. ASSUME NEW p \in Procs, LeaveStep(p)
      PROVE  owed' \subseteq Clients
  BY <1>3, Zenon DEF LeaveStep, LeaveRead, LeaveRemove, LeaveCount, EndLock, EndCount,
     EndDelete, EndUnlock, Left, groupGhosts
<1>4. CASE SweepStep
  BY <1>4, Zenon DEF SweepStep, SweepRead, SweepRemove, SweepEnd, SweepDelete, groupGhosts
<1>5. CASE (\E b \in Brokers : KillBroker(b)) \/ (\E c \in Clients : ReclaimRecord(c))
  BY <1>5, Zenon DEF KillBroker, ReclaimRecord
<1>6. CASE UNCHANGED groupVars
  BY <1>6, Zenon DEF groupVars, groupGhosts
<1> QED
  BY <1>1, <1>2, <1>3, <1>4, <1>5, <1>6, Zenon DEF GroupNext

----------------------------------------------------------------------------
(* The theorems. *)

\* The lock of a group has one holder, whoever dies and whichever request fails,
\* and under it the consumer is there for everybody whose entry is.
THEOREM GroupInvariant == GroupSpec => []GInv
<1>1. GroupInit => GInv
  BY GroupInitGood, Zenon
<1>2. GInv /\ [GroupNext]_groupVars => GInv'
  BY GroupNextKeeps, Zenon
<1> QED
  BY <1>1, <1>2, PTL DEF GroupSpec

\* sharedmembers.go: "a leaver after the join finds the joiner's entry and keeps
\* the consumer": whatever the number of members, leaves, sweeps and faults, the
\* backlog of a client that was promised its messages exists, as long as its
\* entry was not removed under it and locks can be taken.
THEOREM BacklogStays == GroupSpec => []MemberHasBacklog
<1> DEFINE Known == owed \subseteq Clients
<1>1. GroupInit => Known
  BY Zenon DEF GroupInit
<1>2. Known /\ [GroupNext]_groupVars => Known'
  BY OwedKnown, Zenon
<1>3. GInv /\ Known => MemberHasBacklog
  BY Zenon DEF GInv, Counted, Backed, MemberHasBacklog
<1> HIDE DEF Known
<1>4. GroupSpec => []Known
  BY <1>1, <1>2, PTL DEF GroupSpec
<1> QED
  BY <1>3, <1>4, GroupInvariant, PTL
=============================================================================

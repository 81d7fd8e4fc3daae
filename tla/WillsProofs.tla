----------------------------- MODULE WillsProofs -----------------------------
(***************************************************************************)
(* That a Will is published once, and never while its connection is open   *)
(* and the client has no later one: PublishedOnce and NotWhileOpen of      *)
(* module Wills, for every number of brokers, connections and faults.      *)
(* And what Wills takes as a guard, that an owner that was outwaited has   *)
(* closed its clients: SilenceMeansClosed, AdoptsOnlyClosed and            *)
(* FenceLeavesTime of module Fence, for every interval and timeout.        *)
(***************************************************************************)
EXTENDS Wills, Fence, TLAPS

----------------------------------------------------------------------------
(* The inductive invariant. *)

PCs == {"new", "claim", "settle", "refused", "set", "open", "mark", "detach",
        "done", "dead"}
Tasks == {"none", "wait", "adopted", "fire", "retry", "won"}
Rec == [owner : Brokers, ended : BOOLEAN, adopted : BOOLEAN, rev : Nat \ {0}]
Conn0 == Conns \cup {Nil}
Session == [conn : Conn0, will : Conn0, pending : Conn0, lease : Conn0]

TypeOK ==
    /\ pc \in [Conns -> PCs]
    /\ at \in [Conns -> Brokers \cup {NoBroker}]
    /\ obj \in [Conns -> Conn0]
    /\ sess \in [Conns -> Session]
    /\ cur \in [Brokers -> Conn0]
    /\ kv \in [Conns -> Rec \cup {NoRec}]
    /\ held \in [Conns -> [Brokers -> Nat]]
    /\ task \in [Conns -> [Brokers -> Tasks]]
    /\ published \in [Conns -> Nat]

\* A connection has its broker from TakeOver on, and its session from Attach on.
Placed ==
    \A k \in Conns :
        /\ pc[k] = "new" <=> at[k] = NoBroker
        /\ pc[k] \in {"settle", "set", "open", "mark", "detach", "done"}
               => obj[k] # Nil

\* Before register there is no record of a Will, and nobody handles it.
Unset(k) ==
    pc[k] \in {"new", "claim", "settle", "refused"} =>
        /\ kv[k] = NoRec /\ published[k] = 0
        /\ \A b \in Brokers : task[k][b] = "none"

\* Whoever won the removal of a record is the only one, and has yet to publish.
Alone(k) ==
    \A b \in Brokers : task[k][b] = "won" =>
        /\ published[k] = 0 /\ kv[k] = NoRec
        /\ \A c \in Brokers : task[k][c] = "won" => c = b

\* Whoever handles a Will, or will, knows a revision of its record: it
\* publishes only after removing that.
Leased(k) ==
    /\ pc[k] \in {"set", "open", "mark"} => held[k][at[k]] # 0
    /\ \A b \in Brokers :
        task[k][b] \in {"wait", "adopted", "fire", "retry"} => held[k][b] # 0

Once(k) ==
    k \notin leaked =>
        /\ published[k] <= 1
        /\ kv[k] # NoRec => published[k] = 0
        /\ Alone(k)
        /\ Leased(k)

\* The client's last connection, open or about to be.
Newest(k) ==
    /\ pc[k] \in {"set", "open"} /\ k \notin shut
    /\ \A j \in Conns : j > k => pc[j] = "new"

\* Its Will is its broker's, and nobody handles it.
Kept(k) ==
    Newest(k) =>
        /\ published[k] = 0
        /\ kv[k] = NoRec \/ kv[k].owner = at[k]
        /\ \A b \in Brokers : task[k][b] = "none"

\* The broker of a connection that goes on runs; a fenced broker has closed its
\* connections; the client makes one connection after the other.
Standing ==
    /\ cutOff \cap linked = {}
    /\ \A k \in Conns :
        /\ pc[k] \in {"claim", "settle", "set", "open", "mark", "detach"}
               => at[k] \in up
        /\ at[k] \in cutOff => k \in shut
        /\ pc[k] # "new" =>
               \A j \in Conns : j < k => pc[j] # "new" /\ ~InHandshake(j)

WInv ==
    /\ TypeOK /\ Placed /\ Standing
    /\ \A k \in Conns : Unset(k) /\ Once(k) /\ Kept(k)

----------------------------------------------------------------------------
(* What a step does to the Will of a connection. *)

\* Nothing is forgotten, and no connection starts over.
Grows ==
    /\ shut \subseteq shut' /\ leaked \subseteq leaked'
    /\ \A j \in Conns :
        /\ pc'[j] = "new" => pc[j] = "new"
        /\ pc[j] # "new" => at'[j] = at[j]

\* The connection does not get past register.
Onward(k) ==
    /\ pc'[k] \in {"new", "claim", "settle", "refused"}
           => pc[k] \in {"new", "claim", "settle", "refused"}
    /\ pc'[k] \in {"set", "open"} => pc[k] \in {"set", "open"}
    /\ pc'[k] = "mark" => pc[k] \in {"open", "mark"}

\* At most the record is removed, and whoever handled the Will is gone.
Calm(k) ==
    /\ Onward(k)
    /\ kv'[k] \in {kv[k], NoRec} /\ held'[k] = held[k]
    /\ published'[k] = published[k]
    /\ \A b \in Brokers : task'[k][b] \in {task[k][b], "none"}

\* register.
Registers(k) ==
    /\ pc[k] = "settle" /\ pc'[k] = "set"
    /\ kv'[k] = NoRec \/ kv'[k].owner = at'[k]
    /\ k \in leaked' \/ held'[k][at'[k]] # 0
    /\ task'[k] = task[k] /\ published'[k] = published[k]

\* A broker takes a record for its own: an orphan, or one a clean start fires.
Handed(k, b) ==
    /\ Onward(k)
    /\ (\E j \in Conns : pc[j] = "settle") \/ outwaited(kv[k].owner)
    /\ kv[k] # NoRec /\ published'[k] = published[k]
    /\ held'[k][b] # 0
    /\ task'[k][b] \in {"adopted", "fire"}
    /\ \A c \in Brokers : c # b => held'[k][c] = held[k][c] /\ task'[k][c] = task[k][c]

\* The goroutine of a Will goes on, or starts when its connection ends.
Handles(k, b) ==
    /\ Onward(k)
    /\ \/ task[k][b] \in {"wait", "adopted", "fire", "retry"}
       \/ pc[k] = "mark" /\ b = at[k]
    /\ pc[k] = "mark" => pc'[k] \in {"mark", "detach"}
    /\ kv'[k] # NoRec => kv[k] # NoRec
    /\ published'[k] = published[k]
    /\ task'[k][b] = "won" => task[k][b] = "won" \/ k \in leaked'
    /\ \A c \in Brokers :
        /\ held[k][c] # 0 => held'[k][c] # 0
        /\ c # b => task'[k][c] = task[k][c]

\* The removal of the record is won.
Wins(k, b) ==
    /\ pc'[k] = pc[k]
    /\ task[k][b] \in {"fire", "retry"}
    /\ kv[k] # NoRec /\ kv'[k] = NoRec
    /\ held'[k] = held[k] /\ published'[k] = published[k]
    /\ \A c \in Brokers : c # b => task'[k][c] = task[k][c]

Publishes(k, b) ==
    /\ pc'[k] = pc[k]
    /\ task[k][b] = "won" /\ task'[k][b] = "none"
    /\ kv'[k] = kv[k] /\ held'[k] = held[k]
    /\ published'[k] = published[k] + 1
    /\ \A c \in Brokers : c # b => task'[k][c] = task[k][c]

Effect(k) ==
    \/ Calm(k) \/ Registers(k)
    \/ \E b \in Brokers :
          Handed(k, b) \/ Handles(k, b) \/ Wins(k, b) \/ Publishes(k, b)

----------------------------------------------------------------------------
(* A step of each kind keeps what the invariant says of a Will. *)

\* A step that is over with a record leaves the Will's conjuncts alone.
LEMMA CalmKeeps ==
    ASSUME WInv, TypeOK', Grows, NEW k \in Conns, Calm(k)
    PROVE  Unset(k)' /\ Once(k)' /\ Kept(k)'
<1>t. TypeOK /\ Placed /\ Unset(k) /\ Once(k) /\ Kept(k)
  BY Zenon DEF WInv
<1>1. Unset(k)'
  BY <1>t, Zenon DEF Calm, Onward, Unset
<1>2. Once(k)'
  <2> SUFFICES ASSUME k \notin leaked'
               PROVE  (/\ published[k] <= 1 /\ (kv[k] # NoRec => published[k] = 0)
                       /\ Alone(k) /\ Leased(k))'
    BY Zenon DEF Once
  <2>1. /\ published[k] <= 1 /\ (kv[k] # NoRec => published[k] = 0)
        /\ Alone(k) /\ Leased(k)
    BY <1>t, Zenon DEF Once, Grows
  <2>2. published'[k] <= 1 /\ (kv'[k] # NoRec => published'[k] = 0)
    BY <2>1, Zenon DEF Calm
  <2>3. Alone(k)'
    BY <2>1, Zenon DEF Calm, Alone
  <2>4. pc'[k] \in {"set", "open", "mark"} => held'[k][at'[k]] # 0
    BY <2>1, Zenon DEF Calm, Onward, Leased, Grows
  <2>5. Leased(k)'
    BY <2>1, <2>4, Zenon DEF Calm, Leased
  <2> QED
    BY <2>2, <2>3, <2>5, Zenon
<1>3. Kept(k)'
  <2> SUFFICES ASSUME Newest(k)'
               PROVE  (/\ published[k] = 0 /\ (kv[k] = NoRec \/ kv[k].owner = at[k])
                       /\ \A b \in Brokers : task[k][b] = "none")'
    BY Zenon DEF Kept
  <2>1. Newest(k) /\ at'[k] = at[k]
    BY Zenon DEF Newest, Grows, Calm, Onward
  <2> QED
    BY <1>t, <2>1, Zenon DEF Kept, Calm
<1> QED
  BY <1>1, <1>2, <1>3, Zenon

\* register creates the record of a Will nobody knew of.
LEMMA RegistersKeeps ==
    ASSUME WInv, TypeOK', Grows, NEW k \in Conns, Registers(k)
    PROVE  Unset(k)' /\ Once(k)' /\ Kept(k)'
<1>1. kv[k] = NoRec /\ published[k] = 0 /\ \A b \in Brokers : task[k][b] = "none"
  BY Zenon DEF WInv, Registers, Unset
<1>2. published'[k] = 0 /\ \A b \in Brokers : task'[k][b] = "none"
  BY <1>1, Zenon DEF Registers
<1>3. Once(k)'
  BY <1>2 DEF Once, Alone, Leased, Registers
<1> QED
  BY <1>2, <1>3, Zenon DEF Registers, Unset, Kept

\* Taking over a record keeps the conjuncts: the Will was not published, and the
\* client's last connection is not taken for dead.
LEMMA HandedKeeps ==
    ASSUME WInv, TypeOK', Grows, NEW k \in Conns, NEW b \in Brokers, Handed(k, b)
    PROVE  Unset(k)' /\ Once(k)' /\ Kept(k)'
<1>t. TypeOK /\ Placed /\ Standing /\ Unset(k) /\ Once(k) /\ Kept(k)
  BY Zenon DEF WInv
<1>1. Unset(k)'
  BY <1>t, Zenon DEF Handed, Onward, Unset
<1>2. Once(k)'
  <2> SUFFICES ASSUME k \notin leaked'
               PROVE  (/\ published[k] <= 1 /\ (kv[k] # NoRec => published[k] = 0)
                       /\ Alone(k) /\ Leased(k))'
    BY Zenon DEF Once
  <2>1. published[k] = 0 /\ Alone(k) /\ Leased(k) /\ kv[k] # NoRec
    BY <1>t, Zenon DEF Once, Grows, Handed
  <2>2. \A c \in Brokers : task'[k][c] # "won"
    BY <2>1, Zenon DEF Alone, Handed
  <2>3. pc'[k] \in {"set", "open", "mark"} => held'[k][at'[k]] # 0
    <3> SUFFICES ASSUME pc'[k] \in {"set", "open", "mark"}
                 PROVE  held'[k][at'[k]] # 0
      BY Zenon
    <3>1. held[k][at[k]] # 0 /\ at'[k] = at[k] /\ at[k] \in Brokers
      BY <1>t, <2>1 DEF Handed, Onward, Leased, Grows, Placed, TypeOK
    <3> QED
      BY <3>1, Zenon DEF Handed
  <2>4. Leased(k)'
    BY <2>1, <2>3, Zenon DEF Handed, Leased
  <2> QED
    BY <2>1, <2>2, <2>4 DEF Handed, Alone
<1>3. ~Newest(k)'
  <2> SUFFICES ASSUME Newest(k)' PROVE FALSE
    BY Zenon
  <2>1. Newest(k)
    BY Zenon DEF Newest, Grows, Handed, Onward
  <2>2. kv[k].owner = at[k] /\ at[k] \in up /\ at[k] \notin cutOff
    BY <1>t, <2>1, Zenon DEF Kept, Handed, Standing, Newest
  <2>3. PICK j \in Conns : pc[j] = "settle"
    BY <2>2, Zenon DEF Handed, outwaited
  <2>4. j < k
    <3>1. j # k /\ ~(j > k)
      BY <2>1, <2>3, Zenon DEF Newest
    <3> QED
      BY <3>1, WillsAssumption DEF Conns
  <2> QED
    BY <1>t, <2>1, <2>3, <2>4, Zenon DEF Standing, Newest, InHandshake
<1> QED
  BY <1>1, <1>2, <1>3, Zenon DEF Kept

\* Whoever handles a Will goes on without publishing it.
LEMMA HandlesKeeps ==
    ASSUME WInv, TypeOK', Grows, NEW k \in Conns, NEW b \in Brokers, Handles(k, b)
    PROVE  Unset(k)' /\ Once(k)' /\ Kept(k)'
<1>t. TypeOK /\ Placed /\ Unset(k) /\ Once(k) /\ Kept(k)
  BY Zenon DEF WInv
<1>0. pc[k] \notin {"new", "claim", "settle", "refused"}
  BY <1>t, Zenon DEF Handles, Unset
<1>1. Unset(k)'
  BY <1>0, Zenon DEF Handles, Onward, Unset
<1>2. Once(k)'
  <2> SUFFICES ASSUME k \notin leaked'
               PROVE  (/\ published[k] <= 1 /\ (kv[k] # NoRec => published[k] = 0)
                       /\ Alone(k) /\ Leased(k))'
    BY Zenon DEF Once
  <2>1. /\ published[k] <= 1 /\ (kv[k] # NoRec => published[k] = 0)
        /\ Alone(k) /\ Leased(k)
    BY <1>t, Zenon DEF Once, Grows
  <2>2. published'[k] <= 1 /\ (kv'[k] # NoRec => published'[k] = 0)
    BY <2>1, Zenon DEF Handles
  <2>3. Alone(k)'
    BY <2>1, Zenon DEF Handles, Alone
  <2>4. at'[k] = at[k] /\ at[k] \in Brokers
    BY <1>0, <1>t, Zenon DEF Grows, Placed, TypeOK
  <2>5. held[k][b] # 0
    BY <2>1, Zenon DEF Handles, Leased
  <2>6. pc'[k] \in {"set", "open", "mark"} => held'[k][at'[k]] # 0
    BY <2>1, <2>4, Zenon DEF Handles, Onward, Leased
  <2>7. Leased(k)'
    BY <2>1, <2>5, <2>6, Zenon DEF Handles, Leased
  <2> QED
    BY <2>2, <2>3, <2>7, Zenon
<1>3. ~Newest(k)'
  <2> SUFFICES ASSUME Newest(k)' PROVE FALSE
    BY Zenon
  <2>1. Newest(k)
    BY Zenon DEF Newest, Grows, Handles, Onward
  <2> QED
    BY <1>t, <2>1, Zenon DEF Kept, Handles, Newest
<1> QED
  BY <1>1, <1>2, <1>3, Zenon DEF Kept

\* Winning the removal: there was a record, so nobody has published.
LEMMA WinsKeeps ==
    ASSUME WInv, TypeOK', Grows, NEW k \in Conns, NEW b \in Brokers, Wins(k, b)
    PROVE  Unset(k)' /\ Once(k)' /\ Kept(k)'
<1>t. TypeOK /\ Placed /\ Unset(k) /\ Once(k) /\ Kept(k)
  BY Zenon DEF WInv
<1>0. pc[k] \notin {"new", "claim", "settle", "refused"}
  BY <1>t, Zenon DEF Wins, Unset
<1>1. Unset(k)'
  BY <1>0, Zenon DEF Wins, Unset
<1>2. Once(k)'
  <2> SUFFICES ASSUME k \notin leaked'
               PROVE  (/\ published[k] <= 1 /\ (kv[k] # NoRec => published[k] = 0)
                       /\ Alone(k) /\ Leased(k))'
    BY Zenon DEF Once
  <2>1. published[k] = 0 /\ Alone(k) /\ Leased(k)
    BY <1>t, Zenon DEF Once, Grows, Wins
  <2>2. \A c \in Brokers : task[k][c] # "won"
    BY <2>1, Zenon DEF Alone, Wins
  <2>3. at'[k] = at[k]
    BY <1>0, Zenon DEF Grows
  <2>4. Alone(k)'
    BY <2>1, <2>2, Zenon DEF Alone, Wins
  <2>5. Leased(k)'
    BY <2>1, <2>3, Zenon DEF Leased, Wins
  <2> QED
    BY <2>1, <2>4, <2>5 DEF Wins
<1>3. ~Newest(k)'
  <2> SUFFICES ASSUME Newest(k)' PROVE FALSE
    BY Zenon
  <2>1. Newest(k)
    BY Zenon DEF Newest, Grows, Wins
  <2> QED
    BY <1>t, <2>1, Zenon DEF Kept, Wins
<1> QED
  BY <1>1, <1>2, <1>3, Zenon DEF Kept

\* The winner publishes, the first time.
LEMMA PublishesKeeps ==
    ASSUME WInv, TypeOK', Grows, NEW k \in Conns, NEW b \in Brokers, Publishes(k, b)
    PROVE  Unset(k)' /\ Once(k)' /\ Kept(k)'
<1>t. TypeOK /\ Placed /\ Unset(k) /\ Once(k) /\ Kept(k)
  BY Zenon DEF WInv
<1>0. pc[k] \notin {"new", "claim", "settle", "refused"}
  BY <1>t, Zenon DEF Publishes, Unset
<1>1. Unset(k)'
  BY <1>0, Zenon DEF Publishes, Unset
<1>2. Once(k)'
  <2> SUFFICES ASSUME k \notin leaked'
               PROVE  (/\ published[k] <= 1 /\ (kv[k] # NoRec => published[k] = 0)
                       /\ Alone(k) /\ Leased(k))'
    BY Zenon DEF Once
  <2>1. Alone(k) /\ Leased(k)
    BY <1>t, Zenon DEF Once, Grows
  <2>2. published[k] = 0 /\ kv[k] = NoRec
    BY <2>1, Zenon DEF Alone, Publishes
  <2>3. \A c \in Brokers : task'[k][c] # "won"
    BY <2>1, Zenon DEF Alone, Publishes
  <2>4. at'[k] = at[k]
    BY <1>0, Zenon DEF Grows
  <2>5. Leased(k)'
    BY <2>1, <2>4, Zenon DEF Leased, Publishes
  <2> QED
    BY <2>2, <2>3, <2>5 DEF Alone, Publishes
<1>3. ~Newest(k)'
  <2> SUFFICES ASSUME Newest(k)' PROVE FALSE
    BY Zenon
  <2>1. Newest(k)
    BY Zenon DEF Newest, Grows, Publishes
  <2> QED
    BY <1>t, <2>1, Zenon DEF Kept, Publishes
<1> QED
  BY <1>1, <1>2, <1>3, Zenon DEF Kept

\* A step of any kind keeps what the invariant says of a Will.
LEMMA EffectKeeps ==
    ASSUME WInv, TypeOK', Grows, NEW k \in Conns, Effect(k)
    PROVE  Unset(k)' /\ Once(k)' /\ Kept(k)'
  BY CalmKeeps, RegistersKeeps, HandedKeeps, HandlesKeeps, WinsKeeps,
     PublishesKeeps, Zenon
  DEF Effect

----------------------------------------------------------------------------
(* What the actions do. *)

\* The brokers stay as they are, and no connection starts or goes back.
Steady ==
    /\ up' = up /\ linked' = linked /\ cutOff' = cutOff /\ at' = at
    /\ shut \subseteq shut' /\ leaked \subseteq leaked'
    /\ \A k \in Conns :
        /\ pc[k] = "new" <=> pc'[k] = "new"
        /\ pc'[k] \in {"claim", "settle", "set", "open", "mark", "detach"}
              => pc[k] \in {"claim", "settle", "set", "open", "mark", "detach"}
        /\ pc'[k] \in {"claim", "settle", "set"}
              => pc[k] \in {"claim", "settle", "set"}
        /\ pc'[k] \in {"settle", "set", "open", "mark", "detach", "done"}
              => obj'[k] # Nil

\* Such a step keeps the conjuncts about connections and brokers.
LEMMA SteadyKeeps ==
    ASSUME Placed, Standing, Steady
    PROVE  Placed' /\ Standing' /\ Grows
<1>1. Placed'
  BY Zenon DEF Placed, Steady
<1>2. Standing'
  BY Zenon DEF Standing, Steady, InHandshake
<1> QED
  BY <1>1, <1>2, Zenon DEF Grows, Steady

\* A write of a record applies at the revision it expects, or changes nothing;
\* its answer is an error that counts as lost when it may have been applied.
LEMMA CasFacts ==
    ASSUME TypeOK, NEW b \in Brokers, NEW k \in Conns, NEW r \in Nat,
           NEW new \in Rec \cup {NoRec}, NEW w \in Cas(b, k, r, new)
    PROVE  /\ w.rec \in {kv[k], new} /\ w.rec \in Rec \cup {NoRec}
           /\ w.out \in {"ok", "conflict", "error"} /\ w.lost \in {0, 1}
           /\ w.out = "ok" => w.rec = new /\ kv[k] # NoRec
           /\ w.rec # kv[k] => kv[k] # NoRec
           /\ w.lost = 0 /\ w.out # "ok" => w.rec = kv[k]
           /\ w.lost = 1 => w.out = "error"
<1>1. kv[k] \in Rec \cup {NoRec}
  BY Zenon DEF TypeOK
<1>2. AtRevision(k, r) => kv[k] # NoRec
  BY DEF AtRevision, NoRec
<1>3. CASE b \notin linked
  BY <1>1, <1>3 DEF Cas
<1>4. CASE b \in linked
  <2> DEFINE rec == IF AtRevision(k, r) THEN new ELSE kv[k]
  <2>1. rec \in {kv[k], new} /\ (rec # kv[k] => kv[k] # NoRec)
    BY <1>2, Zenon
  <2>2. \/ w = [out |-> IF AtRevision(k, r) THEN "ok" ELSE "conflict",
                rec |-> rec, lost |-> 0]
        \/ \E x \in {kv[k], rec} : w = [out |-> "error", rec |-> x, lost |-> 1]
    BY <1>4, SMT DEF Cas
  <2> QED
    BY <1>1, <1>2, <2>1, <2>2
<1> QED
  BY <1>3, <1>4, Zenon

\* drop removes the record at most.
LEMMA DropFacts ==
    ASSUME TypeOK, NEW b \in Brokers, NEW l \in Conn0, drop(b, l)
    PROVE  /\ kv' \in [Conns -> Rec \cup {NoRec}]
           /\ \A k \in Conns : kv'[k] \in {kv[k], NoRec}
           /\ leaked \subseteq leaked'
<1>1. CASE UNCHANGED <<kv, faults, leaked>>
  BY <1>1, Zenon DEF TypeOK
<1>2. CASE l \in Conns /\ \E w \in Cas(b, l, held[l][b], NoRec) :
              /\ Applied(l, w)
              /\ leaked' = IF w.out = "error" THEN leaked \cup {l} ELSE leaked
  <2>1. PICK w \in Cas(b, l, held[l][b], NoRec) :
              /\ Applied(l, w)
              /\ leaked' = IF w.out = "error" THEN leaked \cup {l} ELSE leaked
    BY <1>2, Zenon
  <2>2. held[l][b] \in Nat
    BY <1>2, Zenon DEF TypeOK
  <2>3. w.rec \in {kv[l], NoRec} /\ w.rec \in Rec \cup {NoRec}
    BY <1>2, <2>2, CasFacts, Zenon
  <2>4. kv' = [kv EXCEPT ![l] = w.rec]
    BY <2>1, Zenon DEF Applied
  <2> QED
    BY <1>2, <2>1, <2>3, <2>4, Zenon DEF TypeOK
<1> QED
  BY <1>1, <1>2, Zenon DEF drop, Conn0

\* cancelWills leaves a session a session, and names a lease of it.
LEMMA CancelTyped ==
    ASSUME NEW s \in Session
    PROVE  /\ cancelWills(s) \in Session /\ cancelled(s) \in Conn0
           /\ s.lease \in Conn0 /\ s.conn \in Conn0
  BY Zenon DEF cancelWills, cancelled, Session, Conn0

\* The step keeps the invariant.
Good ==
    TypeOK' /\ Placed' /\ Standing' /\ Grows /\ \A k \in Conns : Effect(k)

\* A step that leaves every goroutine and lease alone is calm.
Untouched ==
    /\ held' = held /\ task' = task /\ published' = published
    /\ \A k \in Conns : kv'[k] \in {kv[k], NoRec} /\ Onward(k)

\* takeOverSession.
LEMMA TakeOverGood ==
    ASSUME WInv, NEW i \in Conns, NEW b \in Brokers, NEW cs \in BOOLEAN,
           TakeOver(i, b, cs)
    PROVE  Good
<1>t. TypeOK /\ Placed /\ Standing
  BY Zenon DEF WInv
<1>b. pc[i] = "new" /\ b \in up /\ b \in linked /\ at[i] = NoBroker
  BY <1>t, Zenon DEF TakeOver, Placed
<1>1. /\ kv' \in [Conns -> Rec \cup {NoRec}]
      /\ \A k \in Conns : kv'[k] \in {kv[k], NoRec}
      /\ leaked \subseteq leaked' /\ shut \subseteq shut'
      /\ obj' \in [Conns -> Conn0] /\ cur' \in [Brokers -> Conn0]
      /\ sess' \in [Conns -> Session]
      /\ \A k \in Conns : k # i => obj'[k] = obj[k]
  <2>1. CASE cur[b] = Nil
    BY <1>t, <2>1, Zenon DEF TakeOver, TypeOK
  <2>2. CASE cur[b] # Nil
    <3> DEFINE o == cur[b]
    <3>1. o \in Conns /\ sess[o] \in Session /\ Nil \in Conn0 /\ o \in Conn0
      BY <1>t, <2>2, Zenon DEF TypeOK, Conn0
    <3>2. /\ shut' = shut \cup ({sess[o].conn} \ {Nil})
          /\ obj' = [obj EXCEPT ![i] = IF cs THEN Nil ELSE o]
          /\ cur' = [cur EXCEPT ![b] = IF cs THEN Nil ELSE o]
      BY <2>2, Zenon DEF TakeOver
    <3>3. obj' \in [Conns -> Conn0] /\ cur' \in [Brokers -> Conn0]
          /\ \A k \in Conns : k # i => obj'[k] = obj[k]
      BY <1>t, <3>1, <3>2, Zenon DEF TypeOK
    <3>4. CASE cs
      BY <1>t, <2>2, <3>2, <3>3, <3>4, Zenon DEF TakeOver, TypeOK
    <3>5. CASE ~cs
      <4>1. sess' = [sess EXCEPT ![o] = cancelWills(sess[o])]
            /\ drop(b, cancelled(sess[o]))
        BY <2>2, <3>5, Zenon DEF TakeOver
      <4>2. cancelWills(sess[o]) \in Session /\ cancelled(sess[o]) \in Conn0
        BY <3>1, CancelTyped, Zenon
      <4>3. sess' \in [Conns -> Session]
        BY <1>t, <3>1, <4>1, <4>2, Zenon DEF TypeOK
      <4> QED
        BY <1>t, <3>2, <3>3, <4>1, <4>2, <4>3, DropFacts, Zenon
    <3> QED
      BY <3>4, <3>5, Zenon
  <2> QED
    BY <2>1, <2>2, Zenon
<1>2. /\ pc' = [pc EXCEPT ![i] = "claim"] /\ at' = [at EXCEPT ![i] = b]
      /\ held' = held /\ task' = task /\ published' = published
      /\ up' = up /\ linked' = linked /\ cutOff' = cutOff
      /\ \A j \in 1..(i - 1) : pc[j] # "new" /\ ~InHandshake(j)
  BY Zenon DEF TakeOver, Goes, brokerVars
<1>3. TypeOK'
  BY <1>t, <1>1, <1>2, Zenon DEF TypeOK, PCs
<1>4. /\ pc'[i] = "claim" /\ at'[i] = b
      /\ \A k \in Conns : k # i => pc'[k] = pc[k] /\ at'[k] = at[k]
  BY <1>t, <1>2, Zenon DEF TypeOK
<1>5. Placed'
  BY <1>t, <1>1, <1>4, WillsAssumption, Zenon DEF Placed
<1>6. Standing'
  <2>1. b \notin cutOff'
    BY <1>t, <1>b, <1>2, Zenon DEF Standing
  <2>2. \A j \in Conns : j < i => pc[j] # "new" /\ ~InHandshake(j)
    BY <1>2, WillsAssumption DEF Conns
  <2>3. \A k \in Conns : k > i => pc[k] = "new"
    BY <1>t, <1>b, Zenon DEF Standing
  <2>4. ASSUME NEW k \in Conns, pc'[k] # "new", NEW j \in Conns, j < k
        PROVE  pc'[j] # "new" /\ ~InHandshake(j)'
    <3>1. CASE k = i
      BY <1>4, <2>2, <2>4, <3>1, WillsAssumption DEF InHandshake, Conns
    <3>2. CASE k # i
      <4>1. pc[k] # "new" /\ ~(k > i)
        BY <1>4, <2>3, <2>4, <3>2, Zenon
      <4>2. j # i
        BY <4>1, <2>4, WillsAssumption, Zenon DEF Conns
      <4> QED
        BY <1>t, <1>4, <2>4, <4>1, <4>2, Zenon DEF Standing, InHandshake
    <3> QED
      BY <3>1, <3>2, Zenon
  <2>5. \A k \in Conns :
            /\ pc'[k] \in {"claim", "settle", "set", "open", "mark", "detach"}
                  => at'[k] \in up'
            /\ at'[k] \in cutOff' => k \in shut'
    BY <1>t, <1>b, <1>1, <1>2, <1>4, <2>1 DEF Standing
  <2> QED
    BY <1>t, <1>2, <2>4, <2>5, Zenon DEF Standing
<1>7. Grows
  BY <1>b, <1>1, <1>4, Zenon DEF Grows
<1>8. \A k \in Conns : Calm(k)
  BY <1>t, <1>b, <1>1, <1>2, <1>4, Zenon DEF Calm, Onward
<1> QED
  BY <1>3, <1>5, <1>6, <1>7, <1>8, Zenon DEF Good, Effect

\* A step of one connection that handles no Will is good.
LEMMA UntouchedGood ==
    ASSUME WInv, TypeOK', Steady, Untouched
    PROVE  Good
<1>1. \A k \in Conns : Calm(k)
  BY Zenon DEF Untouched, Calm
<1> QED
  BY <1>1, SteadyKeeps, Zenon DEF Good, Effect, WInv

\* The connection is attached.
LEMMA AttachGood ==
    ASSUME WInv, NEW i \in Conns, Attach(i)
    PROVE  Good
<1>t. TypeOK /\ Placed /\ Standing
  BY Zenon DEF WInv
<1> DEFINE b == at[i]
           o == IF obj[i] = Nil THEN i ELSE obj[i]
<1>1. b \in Brokers /\ o \in Conns /\ pc[i] = "claim" /\ sess[o] \in Session
  BY <1>t, Zenon DEF Attach, TypeOK, Placed, Conn0
<1>2. /\ cancelWills(sess[o]) \in Session /\ cancelled(sess[o]) \in Conn0
      /\ i \in Conn0 /\ Nil \in Conn0 /\ o \in Conn0 /\ o # Nil
  BY <1>1, CancelTyped, WillsAssumption DEF Conn0, Conns, Nil
<1>3. /\ pc' = [pc EXCEPT ![i] = "settle"] /\ obj' = [obj EXCEPT ![i] = o]
      /\ cur' = [cur EXCEPT ![b] = o] /\ drop(b, cancelled(sess[o]))
      /\ sess' = [sess EXCEPT ![o] = [cancelWills(sess[o]) EXCEPT !.conn = i,
                                                          !.pending = Nil]]
      /\ at' = at /\ held' = held /\ task' = task /\ published' = published
      /\ up' = up /\ linked' = linked /\ cutOff' = cutOff
      /\ shut \subseteq shut'
  BY Zenon DEF Attach, Goes
<1>4. [cancelWills(sess[o]) EXCEPT !.conn = i, !.pending = Nil] \in Session
  BY <1>2, Zenon DEF Session
<1> HIDE DEF o, b
<1>5. sess' \in [Conns -> Session] /\ obj' \in [Conns -> Conn0]
      /\ cur' \in [Brokers -> Conn0] /\ pc' \in [Conns -> PCs]
  BY <1>t, <1>1, <1>2, <1>3, <1>4, Zenon DEF TypeOK, PCs
<1>6. /\ kv' \in [Conns -> Rec \cup {NoRec}] /\ leaked \subseteq leaked'
      /\ \A k \in Conns : kv'[k] \in {kv[k], NoRec}
  BY <1>t, <1>1, <1>2, <1>3, DropFacts, Zenon
<1>7. TypeOK'
  BY <1>t, <1>3, <1>5, <1>6, Zenon DEF TypeOK
<1>8. /\ pc'[i] = "settle" /\ obj'[i] # Nil
      /\ \A k \in Conns : k # i => pc'[k] = pc[k] /\ obj'[k] = obj[k]
  BY <1>t, <1>2, <1>3, Zenon DEF TypeOK
<1>9. Steady
  BY <1>t, <1>1, <1>3, <1>6, <1>8, Zenon DEF Steady, Placed
<1>10. Untouched
  BY <1>1, <1>3, <1>6, <1>8, Zenon DEF Untouched, Onward
<1> QED
  BY <1>7, <1>9, <1>10, UntouchedGood, Zenon

\* The connection is refused.
LEMMA RefuseGood ==
    ASSUME WInv, NEW i \in Conns, Refuse(i)
    PROVE  Good
<1>t. TypeOK /\ Placed
  BY Zenon DEF WInv
<1>1. /\ pc[i] = "claim" /\ pc' = [pc EXCEPT ![i] = "refused"]
      /\ UNCHANGED <<brokerVars, at, shut, obj, sessVars, willVars, ghosts>>
  BY Zenon DEF Refuse, Goes
<1>2. pc'[i] = "refused" /\ \A k \in Conns : k # i => pc'[k] = pc[k]
  BY <1>t, <1>1, Zenon DEF TypeOK
<1>3. TypeOK'
  BY <1>t, <1>1, Zenon DEF TypeOK, PCs, sessVars, willVars
<1>4. Steady
  BY <1>t, <1>1, <1>2, Zenon DEF Steady, Placed, brokerVars, ghosts
<1>5. Untouched
  BY <1>1, <1>2, Zenon DEF Untouched, Onward, willVars
<1> QED
  BY <1>3, <1>4, <1>5, UntouchedGood, Zenon

\* settle: a clean start fires the record, anything else removes it at most.
LEMMA SettleGood ==
    ASSUME WInv, NEW i \in Conns, NEW j \in Conns, Settle(i, j)
    PROVE  Good
<1>t. TypeOK /\ Placed /\ Standing
  BY Zenon DEF WInv
<1> DEFINE b == at[i]
<1>1. /\ pc[i] = "settle" /\ b \in Brokers
      /\ UNCHANGED <<brokerVars, pc, at, shut, obj, sessVars, published>>
  BY <1>t, Zenon DEF Settle, Placed, TypeOK
<1>2. \/ /\ UNCHANGED <<kv, held, task>>
         /\ leaked \subseteq leaked'
      \/ /\ \E w \in Cas(b, j, kv[j].rev, NoRec) : Applied(j, w)
         /\ kv[j] # NoRec /\ UNCHANGED <<held, task>>
         /\ leaked \subseteq leaked'
      \/ /\ held' = [held EXCEPT ![j][b] = kv[j].rev]
         /\ Run(j, b, "fire") /\ kv[j] # NoRec
         /\ UNCHANGED <<kv, leaked>>
  BY Zenon DEF Settle, ourOwn
<1>3. Steady
  BY <1>t, <1>1, <1>2, Zenon DEF Steady, Placed, brokerVars
<1>4. \A k \in Conns : Onward(k)
  BY <1>1, Zenon DEF Onward
<1> HIDE DEF b
<1>5. kv[j] # NoRec => kv[j].rev \in Nat \ {0}
  BY <1>t, Zenon DEF TypeOK, Rec
<1>6. CASE UNCHANGED <<kv, held, task>>
  <2>1. TypeOK'
    BY <1>t, <1>1, <1>6, Zenon DEF TypeOK, sessVars
  <2> QED
    BY <1>1, <1>3, <1>4, <1>6, <2>1, UntouchedGood, Zenon DEF Untouched
<1>7. CASE /\ \E w \in Cas(b, j, kv[j].rev, NoRec) : Applied(j, w)
           /\ kv[j] # NoRec /\ UNCHANGED <<held, task>>
  <2>1. PICK w \in Cas(b, j, kv[j].rev, NoRec) : Applied(j, w)
    BY <1>7, Zenon
  <2>2. w.rec \in {kv[j], NoRec} /\ w.rec \in Rec \cup {NoRec}
    BY <1>t, <1>1, <1>5, <1>7, CasFacts, Zenon
  <2>3. kv' = [kv EXCEPT ![j] = w.rec]
    BY <2>1, Zenon DEF Applied
  <2>4. TypeOK'
    BY <1>t, <1>1, <1>7, <2>2, <2>3, Zenon DEF TypeOK, sessVars
  <2>5. \A k \in Conns : kv'[k] \in {kv[k], NoRec}
    BY <1>t, <2>2, <2>3, Zenon DEF TypeOK
  <2> QED
    BY <1>1, <1>3, <1>4, <1>7, <2>4, <2>5, UntouchedGood, Zenon DEF Untouched
<1>8. CASE /\ held' = [held EXCEPT ![j][b] = kv[j].rev]
           /\ Run(j, b, "fire") /\ kv[j] # NoRec
           /\ UNCHANGED <<kv, leaked>>
  <2>1. task' = [task EXCEPT ![j][b] = "fire"]
    BY <1>8, Zenon DEF Run
  <2>2. TypeOK'
    BY <1>t, <1>1, <1>5, <1>8, <2>1, Zenon DEF TypeOK, Tasks, sessVars
  <2>3. /\ held'[j][b] # 0 /\ task'[j][b] = "fire"
        /\ \A c \in Brokers : c # b => held'[j][c] = held[j][c]
                                       /\ task'[j][c] = task[j][c]
        /\ \A k \in Conns : k # j => held'[k] = held[k] /\ task'[k] = task[k]
    BY <1>t, <1>1, <1>5, <1>8, <2>1, Zenon DEF TypeOK
  <2>4. Handed(j, b)
    BY <1>1, <1>4, <1>8, <2>3, Zenon DEF Handed
  <2>5. \A k \in Conns : k # j => Calm(k)
    BY <1>1, <1>4, <1>8, <2>3, Zenon DEF Calm
  <2> QED
    BY <1>t, <1>1, <1>3, <2>2, <2>4, <2>5, SteadyKeeps, Zenon DEF Good, Effect
<1> QED
  BY <1>2, <1>6, <1>7, <1>8, Zenon

\* register.
LEMMA RegisterGood ==
    ASSUME WInv, NEW i \in Conns, Register(i)
    PROVE  Good
<1>t. TypeOK /\ Placed /\ Standing /\ kv[i] = NoRec
  BY Zenon DEF WInv, Unset, Register
<1> DEFINE b == at[i]
           rec == [owner |-> b, ended |-> FALSE, adopted |-> FALSE, rev |-> 1]
<1>1. /\ pc[i] = "settle" /\ b \in Brokers /\ pc' = [pc EXCEPT ![i] = "set"]
      /\ UNCHANGED <<brokerVars, at, shut, obj, sessVars, task, published>>
  BY <1>t, Zenon DEF Register, Goes, Placed, TypeOK
<1>2. /\ leaked \subseteq leaked'
      /\ kv' = kv \/ kv' = [kv EXCEPT ![i] = rec]
      /\ \/ held' = [held EXCEPT ![i][b] = 1]
         \/ held' = held /\ i \in leaked'
  BY Zenon DEF Register
<1>3. rec \in Rec /\ rec.owner = b
  BY <1>1 DEF Rec
<1> HIDE DEF b, rec
<1>4. TypeOK'
  <2>1. kv' \in [Conns -> Rec \cup {NoRec}]
    BY <1>t, <1>2, <1>3, Zenon DEF TypeOK
  <2>2. held' \in [Conns -> [Brokers -> Nat]]
    <3>1. CASE held' = held
      BY <1>t, <3>1, Zenon DEF TypeOK
    <3>2. CASE held' = [held EXCEPT ![i][b] = 1]
      <4>1. 1 \in Nat /\ held \in [Conns -> [Brokers -> Nat]]
        BY <1>t, Zenon DEF TypeOK
      <4> QED
        BY <1>1, <3>2, <4>1, Zenon
    <3> QED
      BY <1>2, <3>1, <3>2, Zenon
  <2>3. pc' \in [Conns -> PCs]
    BY <1>t, <1>1, Zenon DEF TypeOK, PCs
  <2> QED
    BY <1>t, <1>1, <2>1, <2>2, <2>3, Zenon DEF TypeOK, sessVars
<1>5. /\ pc'[i] = "set"
      /\ \A k \in Conns : k # i => /\ pc'[k] = pc[k] /\ kv'[k] = kv[k]
                                   /\ held'[k] = held[k]
  BY <1>t, <1>1, <1>2, Zenon DEF TypeOK
<1>6. Steady
  BY <1>t, <1>1, <1>2, <1>5, Zenon DEF Steady, Placed, brokerVars
<1>7. i \in leaked' \/ held'[i][b] # 0
  BY <1>t, <1>1, <1>2 DEF TypeOK
<1>8. kv'[i] = NoRec \/ kv'[i].owner = b
  BY <1>t, <1>2, <1>3, Zenon DEF TypeOK
<1>9. Registers(i)
  BY <1>1, <1>5, <1>7, <1>8, Zenon DEF Registers, b
<1>10. \A k \in Conns : k # i => Calm(k)
  BY <1>1, <1>5, Zenon DEF Calm, Onward
<1> QED
  BY <1>t, <1>4, <1>6, <1>9, <1>10, SteadyKeeps, Zenon DEF Good, Effect

\* setWill, and the CONNACK.
LEMMA SetWillGood ==
    ASSUME WInv, NEW i \in Conns, SetWill(i)
    PROVE  Good
<1>t. TypeOK /\ Placed
  BY Zenon DEF WInv
<1> DEFINE o == obj[i]
           l == IF sess[o].will = Nil THEN Nil ELSE sess[o].lease
<1>1. pc[i] = "set" /\ at[i] \in Brokers /\ o \in Conns /\ sess[o] \in Session
  BY <1>t, Zenon DEF SetWill, TypeOK, Placed, Conn0
<1>2. l \in Conn0 /\ i \in Conn0
  BY <1>1, CancelTyped, Zenon DEF Conn0
<1>3. /\ pc' = [pc EXCEPT ![i] = "open"] /\ drop(at[i], l)
      /\ sess' = [sess EXCEPT ![o] = [sess[o] EXCEPT !.will = i, !.lease = i]]
      /\ UNCHANGED <<brokerVars, at, shut, obj, cur, held, task, published>>
  BY Zenon DEF SetWill, Goes
<1>4. [sess[o] EXCEPT !.will = i, !.lease = i] \in Session
  BY <1>1, <1>2, Zenon DEF Session
<1> HIDE DEF o, l
<1>5. sess' \in [Conns -> Session] /\ pc' \in [Conns -> PCs]
  BY <1>t, <1>1, <1>3, <1>4, Zenon DEF TypeOK, PCs
<1>6. /\ kv' \in [Conns -> Rec \cup {NoRec}] /\ leaked \subseteq leaked'
      /\ \A k \in Conns : kv'[k] \in {kv[k], NoRec}
  BY <1>t, <1>1, <1>2, <1>3, DropFacts, Zenon
<1>7. TypeOK'
  BY <1>t, <1>3, <1>5, <1>6, Zenon DEF TypeOK
<1>8. pc'[i] = "open" /\ \A k \in Conns : k # i => pc'[k] = pc[k]
  BY <1>t, <1>3, Zenon DEF TypeOK
<1>9. Steady
  BY <1>t, <1>1, <1>3, <1>6, <1>8, Zenon DEF Steady, Placed, brokerVars
<1>10. Untouched
  BY <1>1, <1>3, <1>6, <1>8, Zenon DEF Untouched, Onward
<1> QED
  BY <1>7, <1>9, <1>10, UntouchedGood, Zenon

\* A DISCONNECT.
LEMMA EndCleanGood ==
    ASSUME WInv, NEW i \in Conns, EndClean(i)
    PROVE  Good
<1>t. TypeOK /\ Placed
  BY Zenon DEF WInv
<1> DEFINE o == obj[i]
<1>1. pc[i] = "open" /\ at[i] \in Brokers /\ o \in Conns /\ sess[o] \in Session
  BY <1>t, Zenon DEF EndClean, TypeOK, Placed, Conn0
<1>2. sess[o].lease \in Conn0 /\ Nil \in Conn0
  BY <1>1, CancelTyped, Zenon DEF Conn0
<1>3. /\ pc' = [pc EXCEPT ![i] = "detach"]
      /\ UNCHANGED <<brokerVars, at, shut, obj, cur, held, task, published>>
      /\ \/ /\ sess' = [sess EXCEPT ![o] = [sess[o] EXCEPT !.will = Nil,
                                                           !.lease = Nil]]
            /\ drop(at[i], sess[o].lease)
         \/ UNCHANGED <<sess, kv, leaked>>
  BY Zenon DEF EndClean, Goes
<1>4. [sess[o] EXCEPT !.will = Nil, !.lease = Nil] \in Session
  BY <1>1, <1>2, Zenon DEF Session
<1> HIDE DEF o
<1>5. sess' \in [Conns -> Session] /\ pc' \in [Conns -> PCs]
  BY <1>t, <1>1, <1>3, <1>4, Zenon DEF TypeOK, PCs
<1>6. /\ kv' \in [Conns -> Rec \cup {NoRec}] /\ leaked \subseteq leaked'
      /\ \A k \in Conns : kv'[k] \in {kv[k], NoRec}
  <2>1. CASE drop(at[i], sess[o].lease)
    BY <1>t, <1>1, <1>2, <2>1, DropFacts, Zenon
  <2>2. CASE UNCHANGED <<sess, kv, leaked>>
    BY <1>t, <2>2, Zenon DEF TypeOK
  <2> QED
    BY <1>3, <2>1, <2>2, Zenon
<1>7. TypeOK'
  BY <1>t, <1>3, <1>5, <1>6, Zenon DEF TypeOK
<1>8. pc'[i] = "detach" /\ \A k \in Conns : k # i => pc'[k] = pc[k]
  BY <1>t, <1>3, Zenon DEF TypeOK
<1>9. Steady
  BY <1>t, <1>1, <1>3, <1>6, <1>8, Zenon DEF Steady, Placed, brokerVars
<1>10. Untouched
  BY <1>1, <1>3, <1>6, <1>8, Zenon DEF Untouched, Onward
<1> QED
  BY <1>7, <1>9, <1>10, UntouchedGood, Zenon

\* takeWillToPublish.
LEMMA EndAbruptGood ==
    ASSUME WInv, NEW i \in Conns, EndAbrupt(i)
    PROVE  Good
<1>t. TypeOK /\ Placed
  BY Zenon DEF WInv
<1> DEFINE o == obj[i]
<1>1. pc[i] = "open" /\ o \in Conns /\ sess[o] \in Session
  BY <1>t, Zenon DEF EndAbrupt, TypeOK, Placed, Conn0
<1>2. /\ UNCHANGED <<brokerVars, at, shut, obj, cur, willVars, ghosts>>
      /\ \E to \in {"mark", "detach"} : pc' = [pc EXCEPT ![i] = to]
      /\ \/ sess' = [sess EXCEPT ![o] = [sess[o] EXCEPT !.will = Nil,
                                                        !.pending = i]]
         \/ sess' = sess
  BY Zenon DEF EndAbrupt, Goes
<1>3. [sess[o] EXCEPT !.will = Nil, !.pending = i] \in Session
  BY <1>1, Zenon DEF Session, Conn0
<1> HIDE DEF o
<1>4. sess' \in [Conns -> Session] /\ pc' \in [Conns -> PCs]
  <2>1. sess \in [Conns -> Session] /\ pc \in [Conns -> PCs]
    BY <1>t, Zenon DEF TypeOK
  <2>2. sess' \in [Conns -> Session]
    BY <1>1, <1>2, <1>3, <2>1, Zenon
  <2>3. {"mark", "detach"} \subseteq PCs
    BY Zenon DEF PCs
  <2> QED
    BY <1>2, <2>1, <2>2, <2>3, Zenon
<1>5. TypeOK'
  BY <1>t, <1>2, <1>4, Zenon DEF TypeOK, willVars
<1>6. pc'[i] \in {"mark", "detach"} /\ \A k \in Conns : k # i => pc'[k] = pc[k]
  BY <1>t, <1>2, Zenon DEF TypeOK
<1>7. Steady
  BY <1>t, <1>1, <1>2, <1>6, Zenon DEF Steady, Placed, brokerVars, ghosts
<1>8. Untouched
  BY <1>1, <1>2, <1>6, Zenon DEF Untouched, Onward, willVars
<1> QED
  BY <1>5, <1>7, <1>8, UntouchedGood, Zenon

\* The rest of finish.
LEMMA DetachGood ==
    ASSUME WInv, NEW i \in Conns, Detach(i)
    PROVE  Good
<1>t. TypeOK /\ Placed
  BY Zenon DEF WInv
<1> DEFINE o == obj[i]
           c == IF sess[o].conn = i THEN Nil ELSE sess[o].conn
<1>1. pc[i] = "detach" /\ o \in Conns /\ sess[o] \in Session
  BY <1>t, Zenon DEF Detach, TypeOK, Placed, Conn0
<1>2. c \in Conn0
  BY <1>1, CancelTyped, Zenon DEF Conn0
<1>3. /\ UNCHANGED <<brokerVars, at, shut, obj, cur, willVars, ghosts>>
      /\ pc' = [pc EXCEPT ![i] = "done"]
      /\ sess' = [sess EXCEPT ![o].conn = c]
  BY Zenon DEF Detach, Goes
<1> HIDE DEF o, c
<1>4. sess' \in [Conns -> Session] /\ pc' \in [Conns -> PCs]
  BY <1>t, <1>1, <1>2, <1>3, Zenon DEF TypeOK, PCs, Session
<1>5. TypeOK'
  BY <1>t, <1>3, <1>4, Zenon DEF TypeOK, willVars
<1>6. pc'[i] = "done" /\ \A k \in Conns : k # i => pc'[k] = pc[k]
  BY <1>t, <1>3, Zenon DEF TypeOK
<1>7. Steady
  BY <1>t, <1>1, <1>3, <1>6, Zenon DEF Steady, Placed, brokerVars, ghosts
<1>8. Untouched
  BY <1>1, <1>3, <1>6, Zenon DEF Untouched, Onward, willVars
<1> QED
  BY <1>5, <1>7, <1>8, UntouchedGood, Zenon

\* Reauthorize discards the Wills of a session.
LEMMA ReauthorizeGood ==
    ASSUME WInv, NEW b \in Brokers, Reauthorize(b)
    PROVE  Good
<1>t. TypeOK /\ Placed
  BY Zenon DEF WInv
<1> DEFINE o == cur[b]
<1>1. o \in Conns /\ sess[o] \in Session
  BY <1>t, Zenon DEF Reauthorize, TypeOK, Conn0
<1>2. sess[o].lease \in Conn0 /\ cancelWills(sess[o]) \in Session
  BY <1>1, CancelTyped, Zenon
<1>3. /\ UNCHANGED <<brokerVars, pc, at, shut, obj, cur, held, task, published>>
      /\ sess' = [sess EXCEPT ![o] = cancelWills(sess[o])]
      /\ drop(b, sess[o].lease)
  BY Zenon DEF Reauthorize, connVars
<1> HIDE DEF o
<1>4. sess' \in [Conns -> Session]
  BY <1>t, <1>1, <1>2, <1>3, Zenon DEF TypeOK
<1>5. /\ kv' \in [Conns -> Rec \cup {NoRec}] /\ leaked \subseteq leaked'
      /\ \A k \in Conns : kv'[k] \in {kv[k], NoRec}
  BY <1>t, <1>2, <1>3, DropFacts, Zenon
<1>6. TypeOK'
  BY <1>t, <1>3, <1>4, <1>5, Zenon DEF TypeOK
<1>7. Steady
  BY <1>t, <1>3, <1>5, Zenon DEF Steady, Placed, brokerVars
<1>8. Untouched
  BY <1>3, <1>5, Zenon DEF Untouched, Onward
<1> QED
  BY <1>6, <1>7, <1>8, UntouchedGood, Zenon

\* sessionLost and sweepStale.
LEMMA LostOrSweptGood ==
    ASSUME WInv,
           (\E b \in Brokers : SessionLost(b)) \/ (\E k \in Conns : SweepStale(k))
    PROVE  Good
<1>t. TypeOK /\ Placed
  BY Zenon DEF WInv
<1>1. /\ UNCHANGED <<brokerVars, pc, at, obj, sess, held, task, published, leaked>>
      /\ shut \subseteq shut'
      /\ cur' = cur \/ \E b \in Brokers : cur' = [cur EXCEPT ![b] = Nil]
      /\ kv' = kv \/ \E k \in Conns : kv' = [kv EXCEPT ![k] = NoRec]
  BY Zenon DEF SessionLost, SweepStale, connVars, sessVars, willVars, ghosts
<1>2. cur' \in [Brokers -> Conn0] /\ kv' \in [Conns -> Rec \cup {NoRec}]
      /\ \A k \in Conns : kv'[k] \in {kv[k], NoRec}
  BY <1>t, <1>1, Zenon DEF TypeOK, Conn0
<1>3. TypeOK'
  BY <1>t, <1>1, <1>2, Zenon DEF TypeOK
<1>4. Steady
  BY <1>t, <1>1, Zenon DEF Steady, Placed, brokerVars
<1>5. Untouched
  BY <1>1, <1>2, Zenon DEF Untouched, Onward
<1> QED
  BY <1>3, <1>4, <1>5, UntouchedGood, Zenon

\* The step of a Will's goroutine is good when the rest stays as it is.
LEMMA HandleGood ==
    ASSUME WInv, NEW i \in Conns, NEW b \in Brokers, TypeOK', Steady,
           \/ Handed(i, b) \/ Handles(i, b) \/ Wins(i, b) \/ Publishes(i, b),
           \A k \in Conns : k # i => Calm(k)
    PROVE  Good
<1>1. Effect(i)
  BY Zenon DEF Effect
<1>2. \A k \in Conns : Effect(k)
  BY <1>1, Zenon DEF Effect
<1> QED
  BY <1>2, SteadyKeeps, Zenon DEF Good, WInv

\* takePendingWill leaves the sessions sessions.
LEMMA PendingTyped ==
    ASSUME TypeOK, NEW o \in Conn0, NEW i \in Conns, takePendingWill(o, i)
    PROVE  sess' \in [Conns -> Session]
<1>1. CASE o \notin Conns
  BY <1>1, Zenon DEF takePendingWill, TypeOK
<1>2. CASE o \in Conns
  <2> DEFINE p == IF sess[o].pending = i THEN Nil ELSE sess[o].pending
  <2>1. sess[o] \in Session
    BY <1>2, Zenon DEF TypeOK
  <2>2. p \in Conn0 /\ sess' = [sess EXCEPT ![o].pending = p]
    BY <2>1, Zenon DEF takePendingWill, Session, Conn0
  <2> HIDE DEF p
  <2> QED
    BY <1>2, <2>1, <2>2, Zenon DEF TypeOK, Session
<1> QED
  BY <1>1, <1>2, Zenon

\* scheduleWill: the Will is fired, waits, or is another broker's.
LEMMA MarkGood ==
    ASSUME WInv, NEW i \in Conns, Mark(i)
    PROVE  Good
<1>t. TypeOK /\ Placed /\ Once(i)
  BY Zenon DEF WInv
<1> DEFINE b == at[i]
           o == obj[i]
<1>1. /\ pc[i] = "mark" /\ b \in Brokers /\ o \in Conns /\ sess[o] \in Session
      /\ held[i][b] \in Nat
  BY <1>t, Zenon DEF Mark, TypeOK, Placed, Conn0
<1>2. /\ pc' = [pc EXCEPT ![i] = "detach"]
      /\ UNCHANGED <<brokerVars, at, shut, obj, cur, published>>
  BY Zenon DEF Mark, Goes
<1>3. sess' = sess \/ takePendingWill(o, i)
  BY Zenon DEF Mark
<1>4. sess' \in [Conns -> Session]
  <2>1. CASE sess' = sess
    BY <1>t, <2>1, Zenon DEF TypeOK
  <2>2. CASE takePendingWill(o, i)
    BY <1>t, <2>2, PendingTyped, Zenon DEF TypeOK
  <2> QED
    BY <1>3, <2>1, <2>2, Zenon
<1>5. /\ task' \in [Conns -> [Brokers -> Tasks]]
      /\ task'[i][b] = "won" => task[i][b] = "won"
      /\ \A c \in Brokers : c # b => task'[i][c] = task[i][c]
      /\ \A k \in Conns : k # i => task'[k] = task[k]
  <2>1. CASE task' = task
    BY <1>t, <2>1, Zenon DEF TypeOK
  <2>2. CASE task' # task
    <3>1. PICK to \in {"fire", "wait"} : task' = [task EXCEPT ![i][b] = to]
      BY <2>2, Zenon DEF Mark, Run
    <3>2. to \in Tasks /\ to # "won" /\ task \in [Conns -> [Brokers -> Tasks]]
      BY <1>t, Zenon DEF TypeOK, Tasks
    <3> HIDE DEF b
    <3> QED
      BY <1>1, <3>1, <3>2, Zenon
  <2> QED
    BY <2>1, <2>2, Zenon
<1>6. /\ kv' \in [Conns -> Rec \cup {NoRec}] /\ held' \in [Conns -> [Brokers -> Nat]]
      /\ leaked \subseteq leaked'
      /\ kv'[i] # NoRec => kv[i] # NoRec
      /\ \A c \in Brokers : held[i][c] # 0 => held'[i][c] # 0
      /\ \A k \in Conns : k # i => kv'[k] = kv[k] /\ held'[k] = held[k]
  <2>1. CASE UNCHANGED <<kv, held, leaked>>
    BY <1>t, <2>1, Zenon DEF TypeOK
  <2> DEFINE new == [owner |-> b, ended |-> TRUE, adopted |-> FALSE,
                     rev |-> held[i][b] + 1]
  <2>2. CASE \E w \in Cas(b, i, held[i][b], new) :
                /\ Applied(i, w)
                /\ held' = IF w.out = "ok" THEN [held EXCEPT ![i][b] = @ + 1]
                                           ELSE held
                /\ leaked' = IF w.lost = 1 THEN leaked \cup {i} ELSE leaked
    <3>1. PICK w \in Cas(b, i, held[i][b], new) :
                /\ Applied(i, w)
                /\ held' = IF w.out = "ok" THEN [held EXCEPT ![i][b] = @ + 1]
                                           ELSE held
                /\ leaked' = IF w.lost = 1 THEN leaked \cup {i} ELSE leaked
      BY <2>2, Zenon
    <3>2. new \in Rec
      BY <1>1 DEF Rec
    <3> HIDE DEF b, new
    <3>r. b \in Brokers /\ held[i][b] \in Nat
      BY <1>t, <1>1, Zenon DEF TypeOK
    <3>3. w.rec \in Rec \cup {NoRec} /\ (w.rec # kv[i] => kv[i] # NoRec)
      BY <1>t, <3>r, <3>2, CasFacts
    <3>4. kv' = [kv EXCEPT ![i] = w.rec] /\ leaked \subseteq leaked'
      BY <3>1, Zenon DEF Applied
    <3>5. /\ kv' \in [Conns -> Rec \cup {NoRec}]
          /\ kv'[i] # NoRec => kv[i] # NoRec
          /\ \A k \in Conns : k # i => kv'[k] = kv[k]
      BY <1>t, <3>3, <3>4, Zenon DEF TypeOK
    <3>6. held' = held \/ held' = [held EXCEPT ![i][b] = held[i][b] + 1]
      BY <3>1, Zenon
    <3>7. /\ held' \in [Conns -> [Brokers -> Nat]]
          /\ \A c \in Brokers : held[i][c] # 0 => held'[i][c] # 0
          /\ \A k \in Conns : k # i => held'[k] = held[k]
      <4>1. CASE held' = held
        BY <1>t, <4>1, Zenon DEF TypeOK
      <4>2. CASE held' = [held EXCEPT ![i][b] = held[i][b] + 1]
        <5>1. held \in [Conns -> [Brokers -> Nat]]
          BY <1>t, Zenon DEF TypeOK
        <5> QED
          BY <1>1, <4>2, <5>1
      <4> QED
        BY <3>6, <4>1, <4>2, Zenon
    <3> QED
      BY <3>4, <3>5, <3>7, Zenon
  <2> QED
    BY <2>1, <2>2, Zenon DEF Mark
<1>7. TypeOK'
  BY <1>t, <1>2, <1>4, <1>5, <1>6, Zenon DEF TypeOK, PCs
<1>8. pc'[i] = "detach" /\ \A k \in Conns : k # i => pc'[k] = pc[k]
  BY <1>t, <1>2, Zenon DEF TypeOK
<1>9. Steady
  BY <1>t, <1>1, <1>2, <1>6, <1>8, Zenon DEF Steady, Placed, brokerVars
<1>10. Handles(i, b)
  BY <1>1, <1>2, <1>5, <1>6, <1>8, Zenon DEF Handles, Onward
<1>11. \A k \in Conns : k # i => Calm(k)
  BY <1>2, <1>5, <1>6, <1>8, Zenon DEF Calm, Onward
<1> QED
  BY <1>1, <1>7, <1>9, <1>10, <1>11, HandleGood, Zenon

\* The timer: the delay is over, or the session was resumed.
LEMMA TimerGood ==
    ASSUME WInv, NEW i \in Conns, Timer(i)
    PROVE  Good
<1>t. TypeOK /\ Placed
  BY Zenon DEF WInv
<1> DEFINE b == at[i]
           o == obj[i]
<1>1. /\ pc[i] # "new" /\ b \in Brokers /\ task[i][b] = "wait"
      /\ UNCHANGED <<brokerVars, connVars, cur, held, published>>
  BY <1>t, Zenon DEF Timer, TypeOK, Placed
<1>2. i \in Conn0
  BY Zenon DEF Conn0
<1>3. \/ drop(b, i) /\ sess' = sess
      \/ takePendingWill(o, i) /\ UNCHANGED <<kv, leaked>>
  BY Zenon DEF Timer
<1>4. /\ kv' \in [Conns -> Rec \cup {NoRec}] /\ leaked \subseteq leaked'
      /\ \A k \in Conns : kv'[k] \in {kv[k], NoRec}
  <2>1. CASE drop(b, i)
    BY <1>t, <1>1, <1>2, <2>1, DropFacts, Zenon
  <2>2. CASE UNCHANGED <<kv, leaked>>
    BY <1>t, <2>2, Zenon DEF TypeOK
  <2> QED
    BY <1>3, <2>1, <2>2, Zenon
<1>5. sess' \in [Conns -> Session]
  <2>1. CASE sess' = sess
    BY <1>t, <2>1, Zenon DEF TypeOK
  <2>2. CASE takePendingWill(o, i)
    BY <1>t, <2>2, PendingTyped, Zenon DEF TypeOK
  <2> QED
    BY <1>3, <2>1, <2>2, Zenon
<1>6. PICK to \in {"none", "fire"} : task' = [task EXCEPT ![i][b] = to]
  BY Zenon DEF Timer, Run
<1> HIDE DEF b, o
<1>7. /\ task' \in [Conns -> [Brokers -> Tasks]]
      /\ task'[i][b] = to /\ to # "won"
      /\ \A c \in Brokers : c # b => task'[i][c] = task[i][c]
      /\ \A k \in Conns : k # i => task'[k] = task[k]
  BY <1>t, <1>1, <1>6, Zenon DEF TypeOK, Tasks
<1>8. TypeOK'
  BY <1>t, <1>1, <1>4, <1>5, <1>7, Zenon DEF TypeOK, connVars
<1>9. Steady
  BY <1>t, <1>1, <1>4, Zenon DEF Steady, Placed, brokerVars, connVars
<1>10. Handles(i, b)
  BY <1>1, <1>4, <1>7, Zenon DEF Handles, Onward, connVars
<1>11. \A k \in Conns : k # i => Calm(k)
  BY <1>1, <1>4, <1>7, Zenon DEF Calm, Onward, connVars
<1> QED
  BY <1>1, <1>8, <1>9, <1>10, <1>11, HandleGood, Zenon

\* Run moves one goroutine.
LEMMA RunFacts ==
    ASSUME TypeOK, NEW i \in Conns, NEW b \in Brokers, NEW to \in Tasks,
           Run(i, b, to)
    PROVE  /\ task' \in [Conns -> [Brokers -> Tasks]]
           /\ task'[i][b] = to
           /\ \A c \in Brokers : c # b => task'[i][c] = task[i][c]
           /\ \A k \in Conns : k # i => task'[k] = task[k]
<1>1. task \in [Conns -> [Brokers -> Tasks]] /\ task' = [task EXCEPT ![i][b] = to]
  BY Zenon DEF TypeOK, Run
<1> QED
  BY <1>1, Zenon

\* publishWhenDue, and fireLater after retryFor.
LEMMA DueOrGiveUpGood ==
    ASSUME WInv, NEW i \in Conns, NEW b \in Brokers, Due(i, b) \/ GiveUp(i, b)
    PROVE  Good
<1>t. TypeOK /\ Placed
  BY Zenon DEF WInv
<1>1. /\ task[i][b] \in {"adopted", "retry"}
      /\ UNCHANGED <<brokerVars, connVars, sessVars, kv, held, published, leaked>>
      /\ Run(i, b, "fire") \/ (Run(i, b, "won") /\ i \in leaked)
  BY Zenon DEF Due, GiveUp, ghosts
<1>2. /\ task' \in [Conns -> [Brokers -> Tasks]]
      /\ task'[i][b] = "won" => i \in leaked
      /\ \A c \in Brokers : c # b => task'[i][c] = task[i][c]
      /\ \A k \in Conns : k # i => task'[k] = task[k]
  <2>1. "fire" \in Tasks /\ "won" \in Tasks
    BY Zenon DEF Tasks
  <2> QED
    BY <1>t, <1>1, <2>1, RunFacts, Zenon
<1>3. TypeOK'
  BY <1>t, <1>1, <1>2, Zenon DEF TypeOK, connVars, sessVars
<1>4. Steady
  BY <1>t, <1>1, Zenon DEF Steady, Placed, brokerVars, connVars
<1>5. Handles(i, b)
  BY <1>1, <1>2, Zenon DEF Handles, Onward, connVars
<1>6. \A k \in Conns : k # i => Calm(k)
  BY <1>1, <1>2, Zenon DEF Calm, Onward, connVars
<1> QED
  BY <1>3, <1>4, <1>5, <1>6, HandleGood, Zenon

\* fire: the removal is won, lost, or tried again.
LEMMA FireGood ==
    ASSUME WInv, NEW i \in Conns, NEW b \in Brokers, Fire(i, b)
    PROVE  Good
<1>t. TypeOK /\ Placed /\ Once(i)
  BY Zenon DEF WInv
<1>1. /\ task[i][b] \in {"fire", "retry"}
      /\ UNCHANGED <<brokerVars, connVars, sessVars, held, published>>
  BY Zenon DEF Fire
<1>2. Steady \/ ~(leaked \subseteq leaked')
  BY <1>t, <1>1, Zenon DEF Steady, Placed, brokerVars, connVars
<1>3. \A k \in Conns : Onward(k) /\ pc'[k] = pc[k]
  BY <1>1, Zenon DEF Onward, connVars
<1>4. CASE held[i][b] = 0
  <2>1. Run(i, b, "won") /\ UNCHANGED <<kv, leaked>> /\ "won" \in Tasks
    BY <1>4, Zenon DEF Fire, Tasks
  <2>2. /\ task' \in [Conns -> [Brokers -> Tasks]]
        /\ \A c \in Brokers : c # b => task'[i][c] = task[i][c]
        /\ \A k \in Conns : k # i => task'[k] = task[k]
    BY <1>t, <2>1, RunFacts, Zenon
  <2>3. i \in leaked
    BY <1>t, <1>1, <1>4, Zenon DEF Once, Leased
  <2>4. TypeOK'
    BY <1>t, <1>1, <2>1, <2>2, Zenon DEF TypeOK, connVars, sessVars
  <2>5. Handles(i, b)
    BY <1>1, <1>3, <2>1, <2>2, <2>3, Zenon DEF Handles
  <2>6. \A k \in Conns : k # i => Calm(k)
    BY <1>1, <1>3, <2>1, <2>2, Zenon DEF Calm
  <2> QED
    BY <1>2, <2>1, <2>4, <2>5, <2>6, HandleGood, Zenon
<1>5. CASE held[i][b] # 0
  <2>1. PICK w \in Cas(b, i, held[i][b], NoRec) :
            /\ Applied(i, w)
            /\ leaked' = IF w.lost = 1 THEN leaked \cup {i} ELSE leaked
            /\ Run(i, b, afterRemoval(w.out))
    BY <1>5, Zenon DEF Fire, removal
  <2>2. /\ w.rec \in {kv[i], NoRec} /\ w.rec \in Rec \cup {NoRec}
        /\ w.out \in {"ok", "conflict", "error"}
        /\ w.out = "ok" => w.rec = NoRec /\ kv[i] # NoRec
    <3>1. held[i][b] \in Nat
      BY <1>t, Zenon DEF TypeOK
    <3> QED
      BY <1>t, <3>1, CasFacts, ZenonT(60)
  <2>3. /\ afterRemoval(w.out) \in Tasks
        /\ afterRemoval(w.out) = "won" => w.out = "ok"
    BY <2>2, Zenon DEF afterRemoval, Tasks
  <2>4. /\ task' \in [Conns -> [Brokers -> Tasks]]
        /\ task'[i][b] = afterRemoval(w.out)
        /\ \A c \in Brokers : c # b => task'[i][c] = task[i][c]
        /\ \A k \in Conns : k # i => task'[k] = task[k]
    BY <1>t, <2>1, <2>3, RunFacts, Zenon
  <2>5. kv' = [kv EXCEPT ![i] = w.rec] /\ leaked \subseteq leaked'
    BY <2>1, Zenon DEF Applied
  <2>6. /\ kv' \in [Conns -> Rec \cup {NoRec}] /\ kv'[i] = w.rec
        /\ \A k \in Conns : k # i => kv'[k] = kv[k]
    BY <1>t, <2>2, <2>5, Zenon DEF TypeOK
  <2>7. TypeOK'
    BY <1>t, <1>1, <2>4, <2>6, Zenon DEF TypeOK, connVars, sessVars
  <2>8. Handles(i, b) \/ Wins(i, b)
    <3>1. CASE w.out = "ok"
      BY <1>1, <1>3, <2>2, <2>4, <2>6, <3>1, Zenon DEF Wins
    <3>2. CASE w.out # "ok"
      BY <1>1, <1>3, <2>2, <2>3, <2>4, <2>6, <3>2, Zenon DEF Handles
    <3> QED
      BY <3>1, <3>2, Zenon
  <2>9. \A k \in Conns : k # i => Calm(k)
    BY <1>1, <1>3, <2>4, <2>6, Zenon DEF Calm
  <2> QED
    BY <1>2, <2>5, <2>7, <2>8, <2>9, HandleGood, Zenon
<1> QED
  BY <1>4, <1>5, Zenon

\* The winner publishes.
LEMMA PublishGood ==
    ASSUME WInv, NEW i \in Conns, NEW b \in Brokers, Publish(i, b)
    PROVE  Good
<1>t. TypeOK /\ Placed
  BY Zenon DEF WInv
<1>1. /\ task[i][b] = "won" /\ Run(i, b, "none") /\ "none" \in Tasks
      /\ published' = [published EXCEPT ![i] = published[i] + 1]
      /\ UNCHANGED <<brokerVars, connVars, sessVars, kv, held, leaked>>
  BY Zenon DEF Publish, Tasks, ghosts
<1>2. /\ task' \in [Conns -> [Brokers -> Tasks]] /\ task'[i][b] = "none"
      /\ \A c \in Brokers : c # b => task'[i][c] = task[i][c]
      /\ \A k \in Conns : k # i => task'[k] = task[k]
  BY <1>t, <1>1, RunFacts, Zenon
<1>3. /\ published' \in [Conns -> Nat] /\ published'[i] = published[i] + 1
      /\ \A k \in Conns : k # i => published'[k] = published[k]
  BY <1>t, <1>1 DEF TypeOK
<1>4. TypeOK'
  BY <1>t, <1>1, <1>2, <1>3, Zenon DEF TypeOK, connVars, sessVars
<1>5. Steady
  BY <1>t, <1>1, Zenon DEF Steady, Placed, brokerVars, connVars
<1>6. Publishes(i, b)
  BY <1>1, <1>2, <1>3, Zenon DEF Publishes, connVars
<1>7. \A k \in Conns : k # i => Calm(k)
  BY <1>1, <1>2, <1>3, Zenon DEF Calm, Onward, connVars
<1> QED
  BY <1>4, <1>5, <1>6, <1>7, HandleGood, Zenon

\* adopt.
LEMMA AdoptGood ==
    ASSUME WInv, NEW i \in Conns, NEW b \in Brokers, Adopt(i, b)
    PROVE  Good
<1>t. TypeOK /\ Placed
  BY Zenon DEF WInv
<1> DEFINE new == [owner |-> b, ended |-> TRUE, adopted |-> TRUE,
                   rev |-> kv[i].rev + 1]
<1>1. /\ kv[i] # NoRec /\ outwaited(kv[i].owner)
      /\ kv' = [kv EXCEPT ![i] = new]
      /\ held' = [held EXCEPT ![i][b] = kv[i].rev + 1]
      /\ Run(i, b, "adopted") /\ "adopted" \in Tasks
      /\ UNCHANGED <<brokerVars, connVars, sessVars, published, leaked>>
  BY Zenon DEF Adopt, Tasks, ghosts
<1>2. kv[i].rev + 1 \in Nat \ {0}
  BY <1>t, <1>1 DEF TypeOK, Rec
<1>3. new \in Rec
  BY <1>2, Zenon DEF Rec
<1>4. /\ task' \in [Conns -> [Brokers -> Tasks]] /\ task'[i][b] = "adopted"
      /\ \A c \in Brokers : c # b => task'[i][c] = task[i][c]
      /\ \A k \in Conns : k # i => task'[k] = task[k]
  BY <1>t, <1>1, RunFacts, ZenonT(60)
<1> HIDE DEF new
<1>5. /\ kv' \in [Conns -> Rec \cup {NoRec}]
      /\ \A k \in Conns : k # i => kv'[k] = kv[k]
  BY <1>t, <1>1, <1>3, Zenon DEF TypeOK
<1>6. /\ held' \in [Conns -> [Brokers -> Nat]] /\ held'[i][b] # 0
      /\ \A c \in Brokers : c # b => held'[i][c] = held[i][c]
      /\ \A k \in Conns : k # i => held'[k] = held[k]
  BY <1>t, <1>1, <1>2, Zenon DEF TypeOK
<1>7. TypeOK'
  BY <1>t, <1>1, <1>4, <1>5, <1>6, Zenon DEF TypeOK, connVars, sessVars
<1>8. Steady
  BY <1>t, <1>1, Zenon DEF Steady, Placed, brokerVars, connVars
<1>9. Handed(i, b)
  BY <1>1, <1>4, <1>6, Zenon DEF Handed, Onward, connVars
<1>10. \A k \in Conns : k # i => Calm(k)
  BY <1>1, <1>4, <1>5, <1>6, Zenon DEF Calm, Onward, connVars
<1> QED
  BY <1>7, <1>8, <1>9, <1>10, HandleGood, Zenon

\* The death of a broker takes its goroutines along.
LEMMA GoneGood ==
    ASSUME WInv, NEW b \in Brokers, Gone(b)
    PROVE  Good
<1>t. TypeOK /\ Placed /\ Standing
  BY Zenon DEF WInv
<1>1. /\ up' = up \ {b} /\ cur' = [cur EXCEPT ![b] = Nil]
      /\ pc' = [k \in Conns |-> IF at[k] = b /\ pc[k] \notin {"done", "refused"}
                                THEN "dead" ELSE pc[k]]
      /\ task' = [k \in Conns |-> [task[k] EXCEPT ![b] = "none"]]
      /\ UNCHANGED <<linked, cutOff, at, shut, obj, sess, kv, held, published,
                     leaked>>
  BY Zenon DEF Gone
<1>2. /\ task' \in [Conns -> [Brokers -> Tasks]]
      /\ \A k \in Conns, c \in Brokers : task'[k][c] \in {task[k][c], "none"}
  <2>1. \A k \in Conns : task[k] \in [Brokers -> Tasks] /\ "none" \in Tasks
    BY <1>t, Zenon DEF TypeOK, Tasks
  <2>2. \A k \in Conns : task'[k] = [task[k] EXCEPT ![b] = "none"]
    BY <1>1, Zenon
  <2>3. ASSUME NEW k \in Conns
        PROVE  /\ task'[k] \in [Brokers -> Tasks]
               /\ \A c \in Brokers : task'[k][c] \in {task[k][c], "none"}
    <3>1. task[k] \in [Brokers -> Tasks] /\ task'[k] = [task[k] EXCEPT ![b] = "none"]
      BY <2>1, <2>2, Zenon
    <3> QED
      BY <2>1, <3>1, Zenon
  <2> QED
    BY <1>1, <2>3, Zenon
<1>3. pc' \in [Conns -> PCs] /\ cur' \in [Brokers -> Conn0]
  BY <1>t, <1>1, Zenon DEF TypeOK, PCs, Conn0
<1>4. TypeOK'
  BY <1>t, <1>1, <1>2, <1>3, Zenon DEF TypeOK
<1>5. \A k \in Conns :
        /\ at[k] = b => pc'[k] \in {"dead", "done", "refused"}
        /\ at[k] # b => pc'[k] = pc[k]
        /\ pc'[k] # "dead" => pc'[k] = pc[k]
  BY <1>1, Zenon
<1>6. \A k \in Conns : pc[k] = "new" <=> pc'[k] = "new"
  BY <1>t, <1>1, WillsAssumption, Zenon DEF Placed
<1>7. Placed'
  BY <1>t, <1>1, <1>5, <1>6, Zenon DEF Placed
<1>8. Standing'
  BY <1>t, <1>1, <1>5, <1>6, Zenon DEF Standing, InHandshake
<1>9. Grows
  BY <1>1, <1>6, Zenon DEF Grows
<1>10. \A k \in Conns : Calm(k)
  BY <1>1, <1>2, <1>5, Zenon DEF Calm, Onward
<1> QED
  BY <1>4, <1>7, <1>8, <1>9, <1>10, Zenon DEF Good, Effect

\* Close, the link and the fence: what happens to a broker that goes on.
LEMMA BrokerGood ==
    ASSUME WInv, NEW b \in Brokers,
           Close(b) \/ Cut(b) \/ FenceSelf(b) \/ Relink(b)
    PROVE  Good
<1>t. TypeOK /\ Placed /\ Standing
  BY Zenon DEF WInv
<1>1. UNCHANGED <<up, pc, at, obj, sess, cur, kv, held, task, published, leaked>>
  BY Zenon DEF Close, Cut, FenceSelf, Relink, connVars, sessVars, willVars, ghosts
<1>2. shut \subseteq shut'
  BY Zenon DEF Close, Cut, FenceSelf, Relink, connVars
<1>3. TypeOK' /\ Placed'
  BY <1>t, <1>1, Zenon DEF TypeOK, Placed
<1>4. cutOff' \cap linked' = {}
  BY <1>t, Zenon DEF Standing, Close, Cut, FenceSelf, Relink
<1>5. \A k \in Conns : at'[k] \in cutOff' => k \in shut'
  BY <1>t, <1>1, <1>2, Zenon DEF Standing, Close, Cut, FenceSelf, Relink
<1>6. Standing'
  BY <1>t, <1>1, <1>4, <1>5, Zenon DEF Standing, InHandshake
<1>7. Grows /\ \A k \in Conns : Calm(k)
  BY <1>1, <1>2, Zenon DEF Grows, Calm, Onward
<1> QED
  BY <1>3, <1>6, <1>7, Zenon DEF Good, Effect

----------------------------------------------------------------------------
(* The theorems. *)

\* Every step is good.
LEMMA NextGood ==
    ASSUME WInv, [Next]_vars
    PROVE  Good
<1>1. CASE UNCHANGED vars
  <2>1. /\ UNCHANGED <<up, linked, cutOff, pc, at, shut, obj, sess, cur, kv,
                       held, task, published, leaked>>
    BY <1>1, Zenon DEF vars, brokerVars, connVars, sessVars, willVars, ghosts
  <2>2. TypeOK'
    BY <2>1, Zenon DEF WInv, TypeOK
  <2>3. Steady
    BY <2>1, Zenon DEF WInv, Steady, Placed
  <2>4. Untouched
    BY <2>1, Zenon DEF Untouched, Onward
  <2> QED
    BY <2>2, <2>3, <2>4, UntouchedGood, Zenon
<1>2. CASE Next
  <2>1. CASE \E k \in Conns, b \in Brokers :
                (\E cs \in BOOLEAN : TakeOver(k, b, cs))
                \/ WillStep(k, b) \/ GiveUp(k, b)
    BY <2>1, TakeOverGood, DueOrGiveUpGood, FireGood, PublishGood, AdoptGood, Zenon
    DEF WillStep
  <2>2. CASE \E k \in Conns :
                ConnStep(k) \/ EndClean(k) \/ EndAbrupt(k) \/ Timer(k)
                \/ SweepStale(k)
    BY <2>2, AttachGood, RefuseGood, RegisterGood, SetWillGood, MarkGood,
       DetachGood, SettleGood, EndCleanGood, EndAbruptGood, TimerGood,
       LostOrSweptGood, Zenon
    DEF ConnStep
  <2>3. CASE \E b \in Brokers :
                SessionLost(b) \/ Reauthorize(b) \/ Kill(b) \/ Close(b)
                \/ Exit(b) \/ Cut(b) \/ FenceSelf(b) \/ Relink(b)
    BY <2>3, LostOrSweptGood, ReauthorizeGood, GoneGood, BrokerGood, Zenon
    DEF Kill, Exit
  <2> QED
    BY <1>2, <2>1, <2>2, <2>3, Zenon DEF Next
<1> QED
  BY <1>1, <1>2, Zenon

\* Everything an execution reaches satisfies the invariant: a record is
\* removed by at most one broker, which publishes at most once, and the Will of
\* the client's last open connection is in nobody's hands.
THEOREM WillsInvariant == Spec => []WInv
<1>1. Init => WInv
  <2> SUFFICES ASSUME Init PROVE WInv
    BY Zenon
  <2>1. /\ \A k \in Conns : /\ pc[k] = "new" /\ at[k] = NoBroker /\ kv[k] = NoRec
                            /\ published[k] = 0
        /\ \A k \in Conns, b \in Brokers : task[k][b] = "none"
        /\ cutOff = {}
    BY Zenon DEF Init
  <2>2. TypeOK
    <3>1. NewSession \in Session /\ Nil \in Conn0
      BY Zenon DEF NewSession, Session, Conn0
    <3>2. sess \in [Conns -> Session] /\ obj \in [Conns -> Conn0]
          /\ cur \in [Brokers -> Conn0]
      BY <3>1, Zenon DEF Init
    <3> QED
      BY <3>2, Zenon DEF Init, TypeOK, PCs, Tasks
  <2>3. Placed /\ Standing
    BY <2>1, WillsAssumption, Zenon DEF Placed, Standing
  <2>4. \A k \in Conns : Unset(k) /\ Once(k) /\ Kept(k)
    <3>1. 0 <= 1
      OBVIOUS
    <3> QED
      BY <2>1, <3>1, Zenon DEF Unset, Once, Alone, Leased, Kept, Newest
  <2> QED
    BY <2>2, <2>3, <2>4, Zenon DEF WInv
<1>2. WInv /\ [Next]_vars => WInv'
  <2> SUFFICES ASSUME WInv, [Next]_vars PROVE WInv'
    BY Zenon
  <2>1. Good
    BY NextGood, Zenon
  <2>2. \A k \in Conns : (Unset(k) /\ Once(k) /\ Kept(k))'
    BY <2>1, EffectKeeps, Zenon DEF Good
  <2> QED
    BY <2>1, <2>2, Zenon DEF Good, WInv
<1> QED
  BY <1>1, <1>2, PTL DEF Spec

\* README.md: "there is one publication however many brokers noticed": whatever
\* the number of brokers, connections and faults, a Will goes out a second time
\* only if an operation on its record went without an answer (fire, fireLater).
THEOREM WillsOnce == Spec => []PublishedOnce
<1>1. WInv => PublishedOnce
  <2> SUFFICES ASSUME WInv, NEW k \in Conns, published[k] > 1
               PROVE  k \in leaked
    BY Zenon DEF PublishedOnce
  <2>1. Once(k) /\ published[k] \in Nat
    BY Zenon DEF WInv, TypeOK
  <2>2. \A n \in Nat : ~(n <= 1 /\ n > 1)
    OBVIOUS
  <2> QED
    BY <2>1, <2>2, Zenon DEF Once
<1> QED
  BY <1>1, WillsInvariant, PTL

\* adoptOrphans, settle and the fence: nobody publishes the Will of the client's
\* last connection while that is open.
THEOREM OpenWillsStay == Spec => []NotWhileOpen
<1>1. WInv => NotWhileOpen
  <2> SUFFICES ASSUME WInv, NEW k \in Conns, published[k] > 0, pc[k] = "open",
                      k \notin shut, \A j \in Conns : j > k => pc[j] = "new"
               PROVE  FALSE
    BY Zenon DEF NotWhileOpen
  <2>1. Kept(k) /\ Newest(k)
    BY Zenon DEF WInv, Newest
  <2> QED
    BY <2>1 DEF Kept
<1> QED
  BY <1>1, WillsInvariant, PTL

----------------------------------------------------------------------------
(* The fence: the durations of newWillStore close the clients of a silent  *)
(* broker before a survivor takes their Wills, for every interval and      *)
(* timeout.                                                                *)

\* How far past the owner's last sign of life its next check may be due.
Horizon == larger(fenceAfter + selfEvery - 1, selfTimeout)

\* The owner's last sign of life, as a survivor can see it.
LastSign == larger(lastOK, openedAt)

\* The clock and what was read from it.
Past ==
    /\ lastOK <= now /\ openedAt <= now
    /\ open => alive
    /\ alive => due <= now + selfEvery

\* The pace of selfLoop.
Pace ==
    alive => IF probing = None
          THEN now <= due + Slack
          ELSE /\ lastOK <= probing /\ probing <= now
               /\ probing <= due + Slack
               /\ now <= probing + selfTimeout

\* A broker that still holds a client has a check due soon after the last sign
\* of life: a failed check that ended later would have closed the client.
Held == open => due <= LastSign + Horizon

\* Until the link first fails every check is answered, so that the first fault
\* comes soon after the last answered check.
Faults ==
    alive => IF fault = None
          THEN /\ Owner \in links
               /\ due <= lastOK + larger(selfEvery, selfTimeout)
          ELSE fault <= lastOK + Notice

FInv == FenceTypeOK /\ Past /\ Pace /\ Held /\ Faults

\* The durations the fence and the reapers derive from the health interval, in the
\* order the argument needs.
LEMMA Durations ==
    /\ selfEvery \in Nat /\ fenceAfter \in Nat /\ fenceAfter >= 1
    /\ selfTimeout \in Nat /\ Slack \in Nat
    /\ Slack <= selfTimeout /\ Slack < fenceAfter + selfEvery
    /\ waitOut = fenceAfter + selfEvery + 2 * selfTimeout
  BY FenceAssumption, SMT
  DEF selfEvery, fenceAfter, selfTimeout, waitOut, smaller, larger

\* A broker that has just started has had no fault and is within its probing pace.
LEMMA InitInv == FenceInit => FInv
<1> SUFFICES ASSUME FenceInit PROVE FInv
  BY Zenon
<1>1. FenceTypeOK
  <2>1. now \in Nat /\ due \in Nat /\ lastOK \in Nat /\ openedAt \in Nat
    BY Durations, SMT DEF FenceInit
  <2>2. probing \in Times /\ fault \in Times
    BY SMT DEF FenceInit, Times
  <2>3. round \in [Survivors -> {"idle", "listed", "adopt"}]
    BY Zenon DEF FenceInit
  <2>4. first \in [Survivors -> Times]
    BY Zenon DEF FenceInit, Times
  <2>5. QED
    BY <2>1, <2>2, <2>3, <2>4, Zenon DEF FenceInit, FenceTypeOK
<1>2. Past /\ Pace /\ Held
  BY Durations, SMT DEF FenceInit, Past, Pace, Held, None
<1>3. Faults
  BY Durations, SMT DEF FenceInit, Faults, None, larger, Members
<1>4. QED
  BY <1>1, <1>2, <1>3, Zenon DEF FInv

\* Every step keeps the clocks natural numbers.
LEMMA TypeStep == FenceTypeOK /\ [FenceNext]_fenceVars => FenceTypeOK'
<1> SUFFICES ASSUME FenceTypeOK, [FenceNext]_fenceVars PROVE FenceTypeOK'
  BY Zenon
<1> USE Durations DEF FenceTypeOK, Times, None
<1>1. CASE StartProbe
  BY <1>1, SMT DEF StartProbe
<1>2. CASE ProbeAnswered \/ ProbeFails
  <2>1. NextDue \in Nat
    BY <1>2, SMT DEF ProbeAnswered, ProbeFails, NextDue, larger
  <2>2. probing' \in Times /\ lastOK' \in Nat /\ fault' \in Times
    BY <1>2, SMT DEF ProbeAnswered, ProbeFails
  <2>3. due' \in Nat
    BY <1>2, <2>1, Zenon DEF ProbeAnswered, ProbeFails
  <2>4. open' \in BOOLEAN /\ UNCHANGED <<now, alive, links, openedAt, stored,
                                         round, first, adopted>>
    BY <1>2, Zenon DEF ProbeAnswered, ProbeFails
  <2>5. QED
    BY <2>2, <2>3, <2>4, Zenon
<1>3. CASE Connect
  BY <1>3, Zenon DEF Connect
<1>4. CASE Remove \/ Stop
  BY <1>4, Zenon DEF Remove, Stop
<1>5. ASSUME NEW s \in Survivors, List(s) \/ Answered(s)
      PROVE  FenceTypeOK'
  BY <1>5, SMT DEF List, Answered, owner
<1>6. ASSUME NEW s \in Survivors, Silent(s)
      PROVE  FenceTypeOK'
  <2>1. silentSince(s) \in Times
    BY Zenon DEF silentSince
  <2>2. QED
    BY <1>6, <2>1, SMT DEF Silent, owner
<1>7. ASSUME NEW s \in Survivors, Take(s)
      PROVE  FenceTypeOK'
  BY <1>7, SMT DEF Take, owner
<1>8. ASSUME NEW b \in Members, Unlink(b) \/ Rejoin(b)
      PROVE  FenceTypeOK'
  BY <1>8, SMT DEF Unlink, Rejoin
<1>9. CASE Tick
  BY <1>9, SMT DEF Tick
<1>10. CASE UNCHANGED fenceVars
  BY <1>10, SMT DEF fenceVars
<1>11. QED
  BY <1>1, <1>2, <1>3, <1>4, <1>5, <1>6, <1>7, <1>8, <1>9, <1>10, Zenon DEF FenceNext

\* Every step keeps the pace of the probes, and closes the connections in time after
\* a fault (fence).
LEMMA ClockStep ==
  ASSUME FInv, [FenceNext]_fenceVars
  PROVE  Past' /\ Pace' /\ Held' /\ Faults'
<1> USE Durations
    DEF FInv, FenceTypeOK, Past, Pace, Held, Faults, Times, None
<1>1. CASE StartProbe
  BY <1>1, SMT DEF StartProbe, LastSign
<1>2. CASE ProbeAnswered
  <2>1. /\ probing' = None /\ lastOK' = probing /\ fault' = None
        /\ now' = now /\ openedAt' = openedAt /\ links' = links
        /\ Owner \in links /\ due' = NextDue
    BY <1>2, Zenon DEF ProbeAnswered
  <2>2. /\ alive /\ (open' => alive')
        /\ probing \in Nat /\ lastOK <= probing /\ probing <= now
        /\ now <= probing + selfTimeout
    BY <1>2, Zenon DEF ProbeAnswered
  <2>3. /\ due' <= probing + larger(selfEvery, selfTimeout)
        /\ now <= due' /\ due' <= now + selfEvery /\ due' \in Nat
    BY <2>1, <2>2, SMT DEF NextDue, larger
  <2>4. Past'
    <3>1. lastOK' <= now' /\ openedAt' <= now' /\ due' <= now' + selfEvery
      BY <2>1, <2>2, <2>3, SMT
    <3>2. QED
      BY <3>1, <2>2, Zenon
  <2>5. Pace'
    <3>1. now' <= due' + Slack
      BY <2>1, <2>3, SMT
    <3>2. QED
      BY <3>1, <2>1, Zenon
  <2>6. Held'
    <3>1. due' <= LastSign' + Horizon
      BY <2>1, <2>2, <2>3, SMT DEF LastSign, Horizon, larger
    <3>2. QED
      BY <3>1, Zenon DEF Horizon
  <2>7. Faults'
    BY <2>1, <2>3, Zenon
  <2>8. QED
    BY <2>4, <2>5, <2>6, <2>7, Zenon
<1>3. CASE ProbeFails
  <2>1. /\ probing' = None /\ due' = NextDue
        /\ now' = now /\ openedAt' = openedAt /\ lastOK' = lastOK
        /\ fault' = fault /\ fault # None
    BY <1>3, Zenon DEF ProbeFails
  <2>2. /\ alive /\ (open' => alive')
        /\ probing \in Nat /\ probing <= now /\ now <= probing + selfTimeout
    BY <1>3, Zenon DEF ProbeFails
  <2>3. /\ now <= due' /\ due' <= now + selfEvery /\ due' \in Nat
    BY <2>1, <2>2, SMT DEF NextDue, larger
  <2>4. Past'
    <3>1. due' <= now' + selfEvery
      BY <2>1, <2>3, SMT
    <3>2. QED
      BY <3>1, <2>1, <2>2, Zenon
  <2>5. Pace'
    <3>1. now' <= due' + Slack
      BY <2>1, <2>3, SMT
    <3>2. QED
      BY <3>1, <2>1, Zenon
  <2>6. Held'
    <3>1. ASSUME open' PROVE now - lastOK < fenceAfter
      <4>1. ~Fenced
        BY <1>3, <3>1, Zenon DEF ProbeFails
      <4>2. QED
        BY <4>1, SMT DEF Fenced
    <3>2. ASSUME now - lastOK < fenceAfter PROVE due' <= LastSign' + Horizon
      BY <3>2, <2>1, <2>3, SMT DEF LastSign, Horizon, larger
    <3>3. QED
      BY <3>1, <3>2, Zenon DEF Horizon
  <2>7. Faults'
    BY <2>1, <2>2, Zenon DEF Notice
  <2>8. QED
    BY <2>4, <2>5, <2>6, <2>7, Zenon
<1>4. CASE Connect
  BY <1>4, SMT DEF Connect, LastSign, Horizon, larger
<1>5. CASE Remove
  BY <1>5, SMT DEF Remove, LastSign
<1>6. CASE Stop
  BY <1>6, SMT DEF Stop, LastSign
<1>7. CASE \E s \in Survivors : List(s) \/ Answered(s) \/ Silent(s) \/ Take(s)
  BY <1>7, SMT DEF List, Answered, Silent, Take, owner, LastSign
<1>8. ASSUME NEW b \in Members, Unlink(b)
      PROVE  Past' /\ Pace' /\ Held' /\ Faults'
  BY <1>8, SMT DEF Unlink, LastSign, Notice, larger
<1>9. ASSUME NEW b \in Members, Rejoin(b)
      PROVE  Past' /\ Pace' /\ Held' /\ Faults'
  BY <1>9, SMT DEF Rejoin, LastSign
<1>10. CASE Tick
  BY <1>10, SMT DEF Tick, LastSign
<1>11. CASE UNCHANGED fenceVars
  BY <1>11, SMT DEF fenceVars, LastSign
<1>12. QED
  BY <1>1, <1>2, <1>3, <1>4, <1>5, <1>6, <1>7, <1>8, <1>9, <1>10, <1>11, Zenon
  DEF FenceNext

\* The invariant is inductive.
LEMMA Invariance == FenceSpec => []FInv
<1>1. FInv /\ [FenceNext]_fenceVars => FInv'
  BY TypeStep, ClockStep, Zenon DEF FInv
<1>2. QED
  BY InitInv, <1>1, PTL DEF FenceSpec

\* A broker that holds a client has shown a sign of life less than waitOut ago.
LEMMA HeldIsRecent == FInv /\ open => now < LastSign + waitOut
  BY Durations, SMT
  DEF FInv, FenceTypeOK, Past, Pace, Held, Horizon, LastSign, larger, Times, None

\* When a survivor's count of an owner's silence reaches waitOut, an owner that
\* was quiet all along has closed its clients (newWillStore, waitOut).
THEOREM SilentOwnerHasClosed == FenceSpec => []SilenceMeansClosed
<1>1. FInv => SilenceMeansClosed
  BY HeldIsRecent, Durations, SMT
  DEF SilenceMeansClosed, QuietSince, FInv, FenceTypeOK, LastSign, larger, Times,
      None
<1>2. QED
  BY Invariance, <1>1, PTL

\* A survivor that calls adopt has counted waitOut.
Outwaited ==
    \A s \in Survivors :
        round[s] = "adopt" => first[s] \in Nat /\ now - first[s] >= waitOut

\* A survivor adopts a silent broker's Wills only after it has waited the silence out
\* (adoptOrphans).
LEMMA OutwaitedStep == FInv /\ Outwaited /\ [FenceNext]_fenceVars => Outwaited'
<1> SUFFICES ASSUME FInv, Outwaited, [FenceNext]_fenceVars, NEW s \in Survivors,
                    round'[s] = "adopt"
             PROVE  (first[s] \in Nat /\ now - first[s] >= waitOut)'
  BY Zenon DEF Outwaited
<1> USE DEF FInv, FenceTypeOK, Outwaited
<1>1. now' \in Nat /\ now <= now'
  BY SMT DEF FenceNext, fenceVars, StartProbe, ProbeAnswered, ProbeFails, Connect,
     Remove, Stop, List, Answered, Silent, Take, Unlink, Rejoin, Tick, owner
<1>2. ASSUME round[s] = "adopt", first'[s] = first[s]
      PROVE  (first[s] \in Nat /\ now - first[s] >= waitOut)'
  BY <1>1, <1>2, Durations, SMT
<1>3. CASE Connect
  BY <1>3, Zenon DEF Connect
<1>4. ASSUME NEW t \in Survivors, List(t) \/ Answered(t) \/ Take(t)
      PROVE  round[s] = "adopt" /\ first'[s] = first[s]
  BY <1>4, SMT DEF List, Answered, Take
<1>5. ASSUME NEW t \in Survivors, Silent(t)
      PROVE  (first[s] \in Nat /\ now - first[s] >= waitOut)'
  <2>1. CASE t = s
    <3>1. waitedOut(s) /\ first'[s] = silentSince(s) /\ now' = now
      BY <1>5, <2>1, SMT DEF Silent, owner
    <3>2. silentSince(s) \in Nat
      BY SMT DEF silentSince, Times
    <3>3. QED
      BY <3>1, <3>2, Zenon DEF waitedOut
  <2>2. CASE t # s
    <3>1. round[s] = "adopt" /\ first'[s] = first[s]
      BY <1>5, <2>2, SMT DEF Silent
    <3>2. QED
      BY <3>1, <1>2, Zenon
  <2>3. QED
    BY <2>1, <2>2, Zenon
<1>6. CASE UNCHANGED <<round, first>>
  BY <1>6, <1>2, Zenon
<1>7. QED
  BY <1>2, <1>3, <1>4, <1>5, <1>6, Zenon
  DEF FenceNext, fenceVars, StartProbe, ProbeAnswered, ProbeFails, Remove, Stop, Unlink,
      Rejoin, Tick

\* adoptOrphans takes the Will of no client that is still connected to a broker
\* that was quiet since the silence began: the survivor counted waitOut before
\* it called adopt, and a client accepted since has a record of its own.
THEOREM OnlyClosedAreAdopted == FenceSpec => AdoptsOnlyClosed
<1>1. FenceInit => Outwaited
  BY Zenon DEF FenceInit, Outwaited
<1>2. FInv /\ Outwaited
        => \A s \in Survivors :
              Take(s) /\ stored # stored' /\ QuietSince(s) => ~open
  <2> SUFFICES ASSUME FInv, Outwaited, NEW s \in Survivors, Take(s),
                      QuietSince(s), open
               PROVE  FALSE
    BY Zenon
  <2>1. first[s] \in Nat /\ now - first[s] >= waitOut
    BY Zenon DEF Take, Outwaited
  <2>2. now < LastSign + waitOut
    BY HeldIsRecent, Zenon
  <2>3. LastSign <= first[s] /\ LastSign \in Nat
    BY <2>1, SMT DEF QuietSince, LastSign, larger, FInv, FenceTypeOK
  <2>4. QED
    BY <2>1, <2>2, <2>3, Durations, SMT DEF FInv, FenceTypeOK
<1>3. QED
  BY InitInv, TypeStep, ClockStep, OutwaitedStep, Invariance, <1>1, <1>2, PTL
  DEF FenceSpec, AdoptsOnlyClosed

\* selfLoop closes the clients no earlier than fenceAfter, less the time in
\* which the first check must fail, after the link first failed.
THEOREM TimeIsLeft == FenceSpec => FenceLeavesTime
<1>1. FInv /\ [FenceNext]_fenceVars
        => (open /\ ~open' /\ alive' => now - fault >= fenceAfter - Notice)
  <2> SUFFICES ASSUME FInv, [FenceNext]_fenceVars, open, ~open', alive'
               PROVE  now - fault >= fenceAfter - Notice
    BY Zenon
  <2>1. ProbeFails
    BY Zenon DEF FenceNext, fenceVars, StartProbe, ProbeAnswered, Connect, Remove, Stop,
       List, Answered, Silent, Take, Unlink, Rejoin, Tick, owner
  <2>2. Fenced /\ alive /\ fault # None
    BY <2>1, Zenon DEF ProbeFails
  <2>3. fault \in Nat /\ fault <= lastOK + Notice
    BY <2>2, SMT DEF FInv, FenceTypeOK, Faults, Times
  <2>4. Notice \in Nat
    BY Durations, SMT DEF Notice, larger
  <2>5. QED
    BY <2>2, <2>3, <2>4, Durations, SMT DEF Fenced, FInv, FenceTypeOK
<1>2. QED
  BY Invariance, <1>1, PTL DEF FenceSpec, FenceLeavesTime

\* Type correctness.
THEOREM TypeCorrect == FenceSpec => []FenceTypeOK
  BY Invariance, PTL DEF FInv
=============================================================================

--------------------------- MODULE StoredSession ---------------------------
(***************************************************************************)
(* What the bucket promises about one session record: it is held by one    *)
(* connection at a time, a connection that has held it and lost it never   *)
(* holds or writes it again, and a claim keeps what was stored or starts   *)
(* from nothing.                                                           *)
(***************************************************************************)
EXTENDS Integers

CONSTANTS Conns, Filters

VARIABLES
    holder,     \* the connection that holds the record, 0 for no record
    served,     \* whether it does so still, or has left the record behind
    stored,     \* the subscriptions in the record
    settled     \* the connections whose claim has come to an end

vars == <<holder, served, stored, settled>>

Init ==
    /\ holder = 0
    /\ served = FALSE
    /\ stored = {}
    /\ settled = {}

\* A connection whose claim is under way takes the record, whoever holds it.
Claim(k) ==
    /\ k \in Conns \ settled
    /\ holder' = k
    /\ served' = TRUE
    /\ stored' = IF holder = 0 THEN {} ELSE stored

\* The connection that holds the record writes it, and may leave it behind.
Write(k) ==
    /\ k = holder /\ k \in settled
    /\ holder' = k
    /\ served' => served
    /\ stored' \in SUBSET Filters

\* The record is deleted.
Remove ==
    /\ holder # 0
    /\ holder' = 0
    /\ served' = FALSE
    /\ stored' = {}

Next ==
    /\ settled \subseteq settled'
    /\ \/ \E k \in Conns : Claim(k) \/ Write(k)
       \/ Remove
       \/ UNCHANGED <<holder, served, stored>>

Spec == Init /\ [][Next]_vars
=============================================================================

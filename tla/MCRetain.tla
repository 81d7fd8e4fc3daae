------------------------------ MODULE MCRetain ------------------------------
(***************************************************************************)
(* Model checking Retain: every two publications on one topic, and a       *)
(* message cleared before another topic's message takes its place in the   *)
(* stream's count.                                                         *)
(***************************************************************************)
EXTENDS Retain

CONSTANTS t1, t2

Pub(t, kind) == [topic |-> t, kind |-> kind]
MCPlans == {<<Pub(t1, k1), Pub(t1, k2)>> : k1, k2 \in Kinds}
               \cup {<<Pub(t1, "plain"), Pub(t1, "clear"), Pub(t2, "plain")>>}
=============================================================================

--------------------------- MODULE MCSharedGroup ---------------------------
(***************************************************************************)
(* Model checking SharedGroup: client a has a session on b1 and may move   *)
(* it to b2, where client z has its own.                                   *)
(***************************************************************************)
EXTENDS SharedGroup

MCInstances == {"a1", "a2", "z2"}
MCClients == {"a", "z"}
MCBrokers == {"b1", "b2"}
MCFirst == {"a1", "z2"}
MCClientOf == [s \in MCInstances |-> IF s = "z2" THEN "z" ELSE "a"]
MCHome == [s \in MCInstances |-> IF s = "a1" THEN "b1" ELSE "b2"]
=============================================================================

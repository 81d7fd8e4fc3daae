--------------------------- MODULE MCInboundQoS2 ---------------------------
(* Instances of InboundQoS2 for TLC. *)
EXTENDS InboundQoS2
=============================================================================

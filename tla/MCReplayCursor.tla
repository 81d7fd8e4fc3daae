--------------------------- MODULE MCReplayCursor ---------------------------
(* ReplayCursor on small instances.                                        *)
EXTENDS ReplayCursor, TLC

\* Two messages over two connections, or three over one that has subscribed
\* before any of them was stored.  Only Publish, Subscribe, Unsubscribe, Close and
\* Attach lead out, all under no fairness: what the goroutines owe is still owed.
ThreeMessagesOrTwoConnections ==
    \/ last + conns <= 3
    \/ conns = 1 /\ requests = 1 /\ phase = "attached" /\ promised = 1
       /\ \A f \in Filters : made[f] = 0

\* The third message is stored while the stream is read for what was turned away,
\* the second request is made before the second message: Publish, Subscribe and
\* Unsubscribe only.
Paced ==
    /\ last = 2 /\ last' = 3 => behind /\ loop.at # "idle"
    /\ requests = 1 /\ requests' = 2 => last <= 1
=============================================================================

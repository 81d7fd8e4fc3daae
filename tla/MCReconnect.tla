---------------------------- MODULE MCReconnect -----------------------------
EXTENDS Reconnect, TLC

\* Two drops, and a client that is subscribed all along.
TwoDrops == [subscribed |-> TRUE, msgs |-> 2, faults |-> 2]

\* Messages before, during and after one drop.
OneDrop == [subscribed |-> TRUE, msgs |-> 3, faults |-> 1]

\* A client that subscribes before, between or after the steps of one drop.
Subscribes == [subscribed |-> FALSE, msgs |-> 2, faults |-> 1]

MCSettings == {TwoDrops, OneDrop, Subscribes}
=============================================================================

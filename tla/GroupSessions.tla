--------------------------- MODULE GroupSessions ---------------------------
(***************************************************************************)
(* The sessions of the members of one shared subscription, as SharedGroup  *)
(* and HeldMessage have them: each is an instance, an object in the memory *)
(* of one broker, and a client has one on every broker it may connect to.  *)
(***************************************************************************)
EXTENDS Integers, FiniteSets

CONSTANTS
    Instances,   \* the sessions in the memory of some broker
    Clients,
    Brokers,
    ClientOf,    \* the client of an instance
    Home,        \* the broker that holds an instance
    First,       \* the instances a client connects to first
    MaxChanges,  \* bound on what the clients ask for
    MaxFaults    \* bound on the requests that fail and the brokers that die

ASSUME SessionsAssumption ==
    /\ ClientOf \in [Instances -> Clients]
    /\ Home \in [Instances -> Brokers]
    /\ First \subseteq Instances
    /\ "none" \notin Instances
    /\ {MaxChanges, MaxFaults} \subseteq Nat

VARIABLES
    up,     \* the brokers that run
    state,  \* each instance: "new", "open", "away", "lost" or "gone"
    changes, faults

Fault == faults < MaxFaults /\ faults' = faults + 1
=============================================================================

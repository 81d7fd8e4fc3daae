------------------------------- MODULE Fence -------------------------------
(***************************************************************************)
(* The fence of the durable Wills (willstore.go), in discrete time.        *)
(*                                                                         *)
(* A broker that cannot prove to the cluster that it is alive closes its   *)
(* clients (selfLoop); a survivor takes the Wills of a silent broker only  *)
(* after waitOut (adoptOrphans).  Nothing passes between the two: that the *)
(* clients are closed before a Will is taken rests on the durations        *)
(* newWillStore computes.  One owner, the survivors that watch it, and a   *)
(* link of each to the cluster that fails and comes back.                  *)
(***************************************************************************)
EXTENDS Integers

CONSTANTS
    Owner,             \* the broker whose fence this is
    Survivors,         \* the brokers that watch it
    Every,             \* Options.WillCheckInterval
    MinProbeTimeout,   \* minProbeTimeout
    OwnerPingTimeout,  \* ownerPingTimeout
    Slack,             \* how late the scheduler may start a due check
    MaxTime            \* bound of the model

Members == Survivors \cup {Owner}

larger(a, b) == IF a >= b THEN a ELSE b
smaller(a, b) == IF a <= b THEN a ELSE b

selfEvery == Every \div 2
fenceAfter == 2 * Every + selfEvery
selfTimeout == smaller(OwnerPingTimeout, larger(Every, MinProbeTimeout))
\* Mutant: no time is left for a check that times out.
waitOutBare == fenceAfter + selfEvery

waitOut == fenceAfter + selfEvery + 2 * selfTimeout

\* The timed-out check waitOut adds as slack is how late a check may start.
ASSUME FenceAssumption ==
    /\ Owner \notin Survivors
    /\ Every \in Nat \ {0}
    /\ MinProbeTimeout \in Nat /\ OwnerPingTimeout \in Nat /\ MaxTime \in Nat
    /\ Slack \in Nat /\ Slack <= selfTimeout /\ Slack < fenceAfter + selfEvery

None == -1

VARIABLES
    now,      \* the time
    alive,    \* the owner's process runs
    links,    \* the brokers that reach the cluster
    probing,  \* when the running check started, None between checks
    due,      \* when the next check is due
    lastOK,   \* selfLoop's lastOK
    open,     \* a client with a stored Will is connected to the owner
    openedAt, \* when that Will was stored
    fault,    \* when the link first failed since the last answered check
    stored,   \* the Will's record names the owner
    round,    \* per survivor: where it is in adoptOrphans
    first,    \* per survivor: silentSince of the owner, None if it has none
    adopted   \* a survivor has taken the Will of the last connection

fenceVars == <<now, alive, links, probing, due, lastOK, open, openedAt, fault,
              stored, round, first, adopted>>

FenceInit ==
    /\ now = 0
    /\ alive = TRUE
    /\ links = Members
    /\ probing = None
    /\ due = selfEvery
    /\ lastOK = 0
    /\ open = FALSE
    /\ openedAt = 0
    /\ fault = None
    /\ stored = FALSE
    /\ round = [s \in Survivors |-> "idle"]
    /\ first = [s \in Survivors |-> None]
    /\ adopted = FALSE

----------------------------------------------------------------------------
(* The owner. *)

\* A tick of selfLoop's ticker: a check starts.
StartProbe ==
    /\ alive /\ probing = None /\ now >= due
    /\ probing' = now
    /\ UNCHANGED <<now, alive, links, due, lastOK, open, openedAt, fault,
                   stored, round, first, adopted>>

\* The ticker keeps one tick: a check that outlasts selfEvery is followed at
\* once by the next.
NextDue == larger(probing + selfEvery, now)

\* reachable: a majority acknowledged the write of the probe key.
ProbeAnswered ==
    /\ alive /\ probing # None /\ Owner \in links
    /\ probing' = None
    /\ due' = NextDue
    /\ lastOK' = probing
    /\ fault' = None
    /\ UNCHANGED <<now, alive, links, open, openedAt, stored, round, first,
                   adopted>>

Fenced == now - lastOK >= fenceAfter

\* Not reachable (not connected, an error, a timeout; every one of them a
\* fault of the link): past fenceAfter the broker closes its clients.

ProbeFails ==
    /\ alive /\ probing # None /\ fault # None
    /\ probing' = None
    /\ due' = NextDue
    /\ open' = (open /\ ~Fenced)
    /\ UNCHANGED <<now, alive, links, lastOK, openedAt, fault, stored, round,
                   first, adopted>>

\* register: a client connects and its Will is stored under a key of its own,
\* which no round of a survivor has listed.
Connect ==
    /\ alive /\ Owner \in links /\ ~open
    /\ open' = TRUE
    /\ openedAt' = now
    /\ stored' = TRUE
    /\ round' = [s \in Survivors |-> "idle"]
    /\ adopted' = FALSE
    /\ UNCHANGED <<now, alive, links, probing, due, lastOK, fault, first>>

\* fire or drop: the owner removes the record of a connection that is over.
Remove ==
    /\ alive /\ Owner \in links /\ ~open /\ stored
    /\ stored' = FALSE
    /\ UNCHANGED <<now, alive, links, probing, due, lastOK, open, openedAt, fault,
                   round, first, adopted>>

\* The owner is killed, and its sockets close with it.
Stop ==
    /\ alive
    /\ alive' = FALSE
    /\ open' = FALSE
    /\ UNCHANGED <<now, links, probing, due, lastOK, openedAt, fault, stored,
                   round, first, adopted>>

----------------------------------------------------------------------------
(* A survivor's adoptOrphans. *)

owner == <<now, alive, links, probing, due, lastOK, open, openedAt, fault>>

\* The records of other brokers are listed; an owner with none is forgotten.
List(s) ==
    /\ round[s] = "idle"
    /\ round' = [round EXCEPT ![s] = IF stored THEN "listed" ELSE "idle"]
    /\ first' = [first EXCEPT ![s] = IF stored THEN @ ELSE None]
    /\ UNCHANGED <<owner, stored, adopted>>

\* brokerAnswers(owner) is true.
Answered(s) ==
    /\ round[s] = "listed" /\ alive /\ {Owner, s} \subseteq links
    /\ round' = [round EXCEPT ![s] = "idle"]
    /\ first' = [first EXCEPT ![s] = None]
    /\ UNCHANGED <<owner, stored, adopted>>

\* brokerAnswers(owner) is false: the silence is counted from the first time.
silentSince(s) == IF first[s] = None THEN now ELSE first[s]

\* Mutant: one ping that fails is enough.
waitedOutAtOnce(s) == now >= silentSince(s)

waitedOut(s) == now - silentSince(s) >= waitOut

Silent(s) ==
    /\ round[s] = "listed" /\ ~(alive /\ {Owner, s} \subseteq links)
    /\ round' = [round EXCEPT ![s] = IF waitedOut(s) THEN "adopt" ELSE "idle"]
    /\ first' = [first EXCEPT ![s] = silentSince(s)]
    /\ UNCHANGED <<owner, stored, adopted>>

\* adopt: the record is taken if it still names the owner, which the survivor
\* can only see and change while it reaches the cluster itself.
Take(s) ==
    /\ round[s] = "adopt"
    /\ round' = [round EXCEPT ![s] = "idle"]
    /\ LET takes == stored /\ s \in links IN
        /\ stored' = (stored /\ ~takes)
        /\ adopted' = (adopted \/ takes)
    /\ UNCHANGED <<owner, first>>

----------------------------------------------------------------------------
(* The environment. *)

Unlink(b) ==
    /\ b \in links
    /\ links' = links \ {b}
    /\ fault' = IF b = Owner /\ fault = None THEN now ELSE fault
    /\ UNCHANGED <<now, alive, probing, due, lastOK, open, openedAt,
                   stored, round, first, adopted>>

Rejoin(b) ==
    /\ b \notin links
    /\ links' = links \cup {b}
    /\ UNCHANGED <<now, alive, probing, due, lastOK, open, openedAt, fault,
                   stored, round, first, adopted>>

\* Time passes; a running check ends within selfTimeout, and a due one starts
\* within Slack.
Tick ==
    /\ now < MaxTime
    /\ alive => IF probing # None THEN now < probing + selfTimeout
                               ELSE now < due + Slack
    /\ now' = now + 1
    /\ UNCHANGED <<alive, links, probing, due, lastOK, open, openedAt, fault,
                   stored, round, first, adopted>>

FenceNext ==
    \/ StartProbe \/ ProbeAnswered \/ ProbeFails \/ Connect \/ Remove \/ Stop
    \/ \E s \in Survivors : List(s) \/ Answered(s) \/ Silent(s) \/ Take(s)
    \/ \E b \in Members : Unlink(b) \/ Rejoin(b)
    \/ Tick

FenceSpec == FenceInit /\ [][FenceNext]_fenceVars

----------------------------------------------------------------------------
(* Properties. *)

Times == Nat \cup {None}

\* Type correctness.
FenceTypeOK ==
    /\ now \in Nat /\ due \in Nat /\ lastOK \in Nat /\ openedAt \in Nat
    /\ alive \in BOOLEAN /\ open \in BOOLEAN /\ stored \in BOOLEAN
    /\ adopted \in BOOLEAN
    /\ links \subseteq Members
    /\ probing \in Times /\ fault \in Times
    /\ round \in [Survivors -> {"idle", "listed", "adopt"}]
    /\ first \in [Survivors -> Times]

\* The owner has shown no sign of life since a survivor began to count its
\* silence: no check of selfLoop that started later was answered, and no Will
\* was stored later.
QuietSince(s) ==
    /\ first[s] # None
    /\ lastOK <= first[s]
    /\ openedAt <= first[s]

\* What waitOut is for (willstore.go, the fields of willStore): "a silent owner
\* has closed its connections by then".  When a survivor's count of the silence
\* has reached waitOut, an owner that was quiet all along holds no connection.
SilenceMeansClosed ==
    \A s \in Survivors :
        QuietSince(s) /\ now - first[s] >= waitOut => ~open

\* A survivor takes the Will of a connection that is still open only if the
\* owner gave a sign of life after the silence began: adoptOrphans never takes
\* the Will of a client of a broker that was quiet throughout.
AdoptsOnlyClosed ==
    [][\A s \in Survivors :
          Take(s) /\ stored # stored' /\ QuietSince(s) => ~open]_fenceVars

\* The fence leaves a faulty cluster time to recover (newWillStore, on
\* fenceAfter: a leader election must not close the clients): the clients are
\* closed no earlier than fenceAfter, less the time to the end of the first
\* check the fault can fail, after the link first failed.
Notice == larger(selfEvery, selfTimeout) + Slack + selfTimeout

FenceLeavesTime ==
    [][open /\ ~open' /\ alive' => now - fault >= fenceAfter - Notice]_fenceVars

\* README.md: "A Will is therefore published only after its client's connection
\* is closed".
PublishedAfterClose == adopted => ~open
=============================================================================

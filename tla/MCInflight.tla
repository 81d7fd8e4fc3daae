----------------------------- MODULE MCInflight -----------------------------
(***************************************************************************)
(* Inflight on small instances.  Two messages and two connections are the  *)
(* least with which an acknowledgement, a resend and a displaced reader    *)
(* meet; a third message takes an identifier that was used before.         *)
(***************************************************************************)
EXTENDS Inflight, TLC

\* A client that forgets what it owed on the connection that ended, with a third
\* message to take a used identifier.
Forgets ==
    [receiveMaximum |-> 1, maxMsgs |-> 3, maxAttaches |-> 2, maxWithdrawals |-> 1,
     keepsAcks |-> FALSE, discards |-> TRUE, slowStart |-> FALSE]

\* The same with two slots, which can be mistaken for one another.
ForgetsTwo == [Forgets EXCEPT !.receiveMaximum = 2, !.maxWithdrawals = 0]

\* The same over three connections, the last of which forgets stale withdrawals.
ForgetsTwice == [Forgets EXCEPT !.maxMsgs = 2, !.maxAttaches = 3, !.discards = FALSE]

\* Two messages in flight, and a takeover may fall before the delivery
\* goroutine's start.
ForgetsSlow ==
    [Forgets EXCEPT !.receiveMaximum = 2, !.maxMsgs = 2, !.discards = FALSE, !.slowStart = TRUE]

\* A client that sends on the next connection what it owed.
Keeps == [Forgets EXCEPT !.maxMsgs = 2, !.maxWithdrawals = 0, !.keepsAcks = TRUE]

\* One slot, and nothing that returns it but an acknowledgement.
OneSlot == [Forgets EXCEPT !.maxMsgs = 2, !.discards = FALSE]

ResumeSettings == {Forgets, ForgetsTwo, ForgetsTwice, ForgetsSlow, Keeps}
SettleSettings == {Keeps}
LostSettings == {OneSlot}
=============================================================================

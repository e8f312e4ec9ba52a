---------------------------- MODULE EventDelivery ----------------------------
(***************************************************************************)
(* What the reporter promises about each recorded fact, whatever awaits,   *)
(* failures and restarts lie in between.  The stage of a fact is the one a *)
(* restart would find:                                                     *)
(*                                                                         *)
(*   absent      not recorded here, or erased by a withdrawal              *)
(*   waiting     recorded; no request that carries it can be under way     *)
(*   attempting  a request that carries it may be, or have been, under way *)
(*   unknown     the server said it cannot tell whether it kept it         *)
(*   delivered   the server took it                                        *)
(*   refused     the server did not, and said so                           *)
(*                                                                         *)
(* The server takes a fact only while its stage says so (the intent is     *)
(* durable before the request leaves); `delivered` is never a guess; and a *)
(* fact leaves this device only when all of them do.                       *)
(***************************************************************************)
EXTENDS FiniteSets

CONSTANT Facts

VARIABLES
  stage,    \* of each fact
  received  \* the facts the server ever took

vars == <<stage, received>>

Stages == {"absent", "waiting", "attempting", "unknown", "delivered", "refused"}

In(S) == {f \in Facts : stage[f] \in S}

\* The facts of S, all at a stage of from, move to stage to.
Move(S, from, to) ==
  /\ S \subseteq In(from)
  /\ stage' = [f \in Facts |-> IF f \in S THEN to ELSE stage[f]]
  /\ UNCHANGED received

Init == stage = [f \in Facts |-> "absent"] /\ received = {}

Record(S) == Move(S, {"absent"}, "waiting")

Attempt(S) == Move(S, {"waiting"}, "attempting")

\* The server takes what it is sent: it may already have it.
Receive(S) ==
  /\ S \subseteq In({"attempting", "unknown"})
  /\ received' = received \union S
  /\ UNCHANGED stage

\* An ordinary failure (or a request never sent): it may be tried again.
GiveUp(S) == Move(S, {"attempting"}, "waiting")

LoseTrack(S) == Move(S, {"attempting", "unknown"}, "unknown")

Settle(kept, refused) ==
  /\ kept \union refused \subseteq In({"attempting", "unknown"})
  /\ kept \subseteq received
  /\ stage' = [f \in Facts |-> IF f \in kept THEN "delivered"
                               ELSE IF f \in refused THEN "refused" ELSE stage[f]]
  /\ UNCHANGED received

\* Only the person's own resend gives a refused fact another chance.
Reopen(S) == Move(S, {"refused"}, "waiting")

Erase == Move(Facts, Stages, "absent")

Next ==
  \/ \E S \in SUBSET Facts :
       Record(S) \/ Attempt(S) \/ Receive(S) \/ GiveUp(S) \/ LoseTrack(S) \/ Reopen(S)
  \/ \E kept, refused \in SUBSET Facts : Settle(kept, refused)
  \/ Erase

Spec == Init /\ [][Next]_vars

=============================================================================

----------------------- MODULE MC_SessionSummaries -----------------------
(* A session and a fork of it that starts with one inherited turn.         *)
EXTENDS SessionSummaries, ActivityCheck

MC_Inherited == [s \in Sessions |-> IF s = "fork" THEN 1 ELSE 0]
=============================================================================

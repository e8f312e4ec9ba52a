---------------------------- MODULE MC_EventStore ----------------------------
(* Model values for the event buffer. *)
EXTENDS EventStore

CONSTANTS e1, old, c1, c2, bundle
=============================================================================

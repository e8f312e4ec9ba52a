---------------------------- MODULE MC_PageClient ----------------------------
(* Interchangeable credentials and commands of one connection and one        *)
(* session.  Many credentials, or many commands, under consent that may be   *)
(* taken back and given again; credentials beyond the limit, or one of each, *)
(* under consent that is given and taken back; a withdrawal that stayed      *)
(* recorded though consent was given since.                                  *)
EXTENDS PageClient, TLC

Start(t, c, given, recorded) ==
  {l \in [tokens : SUBSET Tokens, commands : SUBSET Commands, choice : {given}, marker : {recorded}] :
     Cardinality(l.tokens) = t /\ Cardinality(l.commands) = c}

MC_Loads ==
  UNION {Start(2, 0, "granted", FALSE), Start(0, 3, "granted", FALSE),
         Start(3, 0, "withheld", FALSE), Start(1, 1, "withheld", TRUE),
         Start(1, 0, "granted", TRUE)}
MC_SessionOf == [c \in Commands |-> "session"]
MC_Symmetry == Permutations(Tokens) \cup Permutations(Commands)
=============================================================================

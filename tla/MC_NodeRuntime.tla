--------------------------- MODULE MC_NodeRuntime ---------------------------
(* Model values and the environments of the agent's run. *)
EXTENDS NodeRuntime, TLC

CONSTANTS f1, f2, install0, p1, p2, s1, s2

Allow(some) == [k \in BudgetKinds |-> IF k \in DOMAIN some THEN some[k] ELSE 0]

Alike == Permutations(Procs) \union Permutations(Sessions)

\* Hooks and ticks around requests that fail, killed processes and a resend;
\* around calls retained before Node was there; around a withdrawal and a new
\* consent; entries of every kind around a download that fails or is killed.
AgentBudgets ==
  {Allow([hook |-> 1, tick |-> 2, network |-> 1, crash |-> 1, resend |-> 1]),
   Allow([hook |-> 2, tick |-> 1, withdraw |-> 1, network |-> 1]),
   Allow([hook |-> 1, prepare |-> 2, tick |-> 1, withdraw |-> 1]),
   Allow([hook |-> 1, tick |-> 2, withdraw |-> 1, network |-> 1, crash |-> 1, grant |-> 1]),
   Allow([session |-> 3, other |-> 1, prepare |-> 1, crash |-> 1, network |-> 1])}
=============================================================================

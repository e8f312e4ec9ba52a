--------------------------- MODULE MC_AgentSender ---------------------------
(* Model values and the environments of the agent's runs. *)
EXTENDS AgentSender, TLC

CONSTANTS f1, f2, install0, p1, p2

Allow(some) == [k \in BudgetKinds |-> IF k \in DOMAIN some THEN some[k] ELSE 0]

Alike == Permutations(Procs)

\* A preparation record and a withdrawal.
PreparedBudgets == {Allow([prepare |-> 1, withdraw |-> 1])}

\* Two withdrawals with a consent in between.
BarrierBudgets == {Allow([withdraw |-> 2, grant |-> 1])}
=============================================================================

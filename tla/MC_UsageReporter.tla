--------------------------- MODULE MC_UsageReporter ---------------------------
(* Model values and the environments of the reporter's runs. *)
EXTENDS ReporterProperties

CONSTANTS e1, e2, fact

Allow(some) == [k \in BudgetKinds |-> IF k \in DOMAIN some THEN some[k] ELSE 0]

\* Requests fail, consent changes, the server origin goes; the process stops,
\* Core goes, a local write fails, the person resends, with consent throughout
\* or not at all; then the environment comes to rest.
LivenessBudgets ==
  {Allow([consent |-> 2, record |-> 1, network |-> 2]),
   Allow([consent |-> 1, origin |-> 1]),
   Allow([crash |-> 1, record |-> 1, network |-> 1]),
   Allow([link |-> 1, record |-> 1]),
   Allow([storage |-> 1, record |-> 1]),
   Allow([resend |-> 1, network |-> 1]),
   Allow([resend |-> 1, storage |-> 1])}

\* A withdrawal, a grant while Core is away, and a second withdrawal.
MarkerBudgets == {Allow([consent |-> 3, link |-> 1, record |-> 1])}

\* A withdrawal while there is no server origin, which then comes back.
OfflineBudgets == {Allow([consent |-> 1, origin |-> 2, record |-> 1])}

\* A withdrawal of consent while a request is being signed.
SignBudgets == {Allow([consent |-> 1, record |-> 1])}
=============================================================================

--------------------------- MODULE MC_UsageRecords ---------------------------
(* Model values and the environments of the reporter's safety run. *)
EXTENDS UsageRecords

CONSTANTS e1, e2, fact

Allow(some) == [k \in BudgetKinds |-> IF k \in DOMAIN some THEN some[k] ELSE 0]

\* Consent goes and comes back, around a record, a resend and a failing
\* request; the process stops, Core goes or a local write fails around them;
\* the panel is opened, refreshed or closed, and a resend is clicked, around a
\* request that fails, a withdrawal, or a crash; and so is the list, without
\* the resend controls, around an answer lost, a withdrawal, a crash, or no server.
ReporterBudgets ==
  {Allow([consent |-> 2, record |-> 1, network |-> 1]),
   Allow([consent |-> 2, record |-> 1, resend |-> 1]),
   Allow([consent |-> 2, origin |-> 1, network |-> 1, resend |-> 1]),
   Allow([crash |-> 1, record |-> 1, network |-> 1, storage |-> 1]),
   Allow([crash |-> 1, network |-> 1, resend |-> 1, storage |-> 1]),
   Allow([crash |-> 1, record |-> 1, network |-> 1, resend |-> 1]),
   Allow([link |-> 1, record |-> 1, network |-> 1]),
   Allow([view |-> 2, click |-> 1, record |-> 1]),
   Allow([view |-> 2, click |-> 1, network |-> 1]),
   Allow([view |-> 1, click |-> 1, record |-> 1, network |-> 1]),
   Allow([view |-> 1, click |-> 2, crash |-> 1, network |-> 1]),
   Allow([view |-> 1, click |-> 1, consent |-> 1, record |-> 1]),
   Allow([list |-> 2, network |-> 1]),
   Allow([list |-> 2, consent |-> 2]),
   Allow([list |-> 1, crash |-> 1, origin |-> 1])}
=============================================================================

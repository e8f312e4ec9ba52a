SPECIFICATION RuntimeSpec
CONSTANTS
  f1 = f1
  f2 = f2
  install0 = install0
  p1 = p1
  p2 = p2
  s1 = s1
  s2 = s2
  Facts = {f1, f2}
  Install = install0
  Procs = {p1, p2}
  Sessions = {s1, s2}
  Budgets <- AgentBudgets
SYMMETRY Alike
CHECK_DEADLOCK FALSE
INVARIANTS SignedOutcomeKept UnknownNotReplayed UnansweredHasMarker NothingSentAfterBarrier WithdrawnLeavesNothing WithdrawnIsErasedAtServer OneProducer PublishedWhole OneAttemptPerSession

SPECIFICATION Spec
CONSTANTS
  f1 = f1
  f2 = f2
  install0 = install0
  p1 = p1
  p2 = p2
  Facts = {f1}
  Install = install0
  Procs = {p1, p2}
  Budgets <- PreparedBudgets
SYMMETRY Alike
CHECK_DEADLOCK FALSE
INVARIANT WithdrawnLeavesNoPreparation

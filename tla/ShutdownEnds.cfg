SPECIFICATION Spec
CONSTANTS
  Child = child
  Descendants = {job}
  Daemons = {job}
  InCap = 1
  OutCap = 1
  StdinKinds = {"pipe"}
  PollEvery = 1
  GraceStep = 1
  TermStep = 1
  Grace = 0
  TermWait = 1
  NoBudget = none
  Budgets = {none, 1}
PROPERTIES
  StopEndsSession
  BudgetEndsSession

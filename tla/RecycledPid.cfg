SPECIFICATION Spec
CONSTANTS
  Child = child
  Descendants = {job}
  Daemons = {}
  InCap = 2
  OutCap = 1
  StdinKinds = {"tty"}
  PollEvery = 1
  GraceStep = 1
  TermStep = 1
  Grace = 1
  TermWait = 1
  NoBudget = none
  Budgets = {none}
INVARIANTS
  NoStranger

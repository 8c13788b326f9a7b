SPECIFICATION Spec
CONSTANTS
  Child = child
  Descendants = {job}
  Daemons = {job}
  InCap = 1
  OutCap = 1
  StdinKinds = {"tty", "pipe", "file"}
  PollEvery = 1
  GraceStep = 1
  TermStep = 2
  Grace = 2
  TermWait = 1
  NoBudget = none
  Budgets = {none, 1}
INVARIANTS
  TypeOK
  IInv
  NeverAbandoned
  OutputComplete
  NoMemberSurvives
  LadderInv
PROPERTIES
  NoSignalAfterJoin
  EscalationSpec

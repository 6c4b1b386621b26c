SPECIFICATION Spec
CONSTANTS
  u1 = u1
  u2 = u2
  h1 = h1
  h2 = h2
  Users = {u1, u2}
  Handlers = {h1, h2}
  OnLeave <- Holiday
  MaxDays = 2
  MaxLogs = 3
SYMMETRY Symmetry
INVARIANTS OneSession AnsweredTruly
PROPERTY SummaryIsTrue

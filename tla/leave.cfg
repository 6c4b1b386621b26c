SPECIFICATION Spec
CONSTANTS
  h1 = h1
  h2 = h2
  u1 = u1
  sick = sick
  casual = casual
  r1 = r1
  r2 = r2
  NoUser = NoUser
  Handlers = {h1, h2}
  Users = {u1}
  Members = {u1}
  Types = {sick, casual}
  Years = {1, 2}
  SeedOrder <- Seeds
  SeedDays = 2
  DayChoices = {1}
  Requests = {r1, r2}
  AccountOf <- OneAccount
  DaysOf <- OneDayEach
  MaxFails = 1
INVARIANTS AdjustmentsStand LeaveInv ChargesMatch
PROPERTY DecisionIsFinal
SYMMETRY Symmetry

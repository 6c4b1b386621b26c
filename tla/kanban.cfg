SPECIFICATION RSpec
CONSTANTS
  h1 = h1
  h2 = h2
  t1 = t1
  t2 = t2
  t3 = t3
  Planning = Planning
  Deployment = Deployment
  NoStage = NoStage
  Handlers = {h1, h2}
  Tasks = {t1, t2, t3}
  Stages = {Planning, Deployment}
  Fields = {"due"}
  Values = {1}
  Default = 1
  Drops = {1}
  MaxPosition = 2
  MaxMarred = 0
  RiskDays = 1
  Critical = 1
  MaxDay = 2
CHECK_DEADLOCK FALSE
SYMMETRY Symmetry
INVARIANTS ColumnsContiguous
PROPERTIES OrderKept ImplementsColumns StageChangeAppends TimeOnlyWorsens

SPECIFICATION SessionSpec
CONSTANTS
  u1 = u1
  t1 = t1
  t2 = t2
  c1 = c1
  c2 = c2
  b1 = b1
  l1 = l1
  l2 = l2
  l3 = l3
  a = a
  b = b
  NoBoard = NoBoard
  NoTab = NoTab
  Users = {u1}
  Tabs = {t1, t2}
  Owner <- OneUser
  MaxKeys = 2
  Calls = {c1, c2}
  BoardIds = {b1}
  Lists = {l1, l2, l3}
  Urls = {a, b}
  Content <- Whole
SYMMETRY Symmetry
INVARIANTS KeysInv RetiredRunsNothing AnswerReadable
PROPERTIES ListsReplaced

SPECIFICATION Spec
CONSTANTS
  f1 = f1
  f2 = f2
  h1 = h1
  h2 = h2
  h3 = h3
  u1 = u1
  blank = blank
  small = small
  Blank = blank
  NoDoc = NoDoc
  FlowIds = {f1, f2}
  Users = {u1}
  Docs = {blank, small}
  Size <- Sizes
  Handlers = {h1, h2, h3}
SYMMETRY Symmetry
INVARIANTS CountsMatch NothingLeft
PROPERTY CopyIsWhole

SPECIFICATION Spec
CONSTANTS
  c1 = c1
  c2 = c2
  h1 = h1
  h2 = h2
  e1 = e1
  e2 = e2
  NoHandler = NoHandler
  NoEdit = NoEdit
  Clients = {c1, c2}
  Handlers = {h1, h2}
  Edits = {e1, e2}
  MaxVersion = 3
INVARIANT AnswerHasOwnEdit
PROPERTY ImplementsEditLog

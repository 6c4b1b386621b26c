SPECIFICATION Spec
CONSTANTS
  c1 = c1
  c2 = c2
  c3 = c3
  u1 = u1
  u2 = u2
  s1 = s1
  s2 = s2
  f1 = f1
  NoUser = NoUser
  Clients = {c1, c3}
  Users = {u1}
  Servers = {s1, s2}
  Flows = {f1}
  UserOf <- TabsApart
  HostOf <- TwoHosts
  QueueCap = 1
  SendBufSize = 1
  InboxCap = 1
  Flaky = {}
  FrameKinds <- LeaverFrames
  MaxFrames <- LeaverReturns
  MaxSaves = 1
CHECK_DEADLOCK FALSE
INVARIANTS AtMostOnce SenderSpared

SPECIFICATION FairSpec
CONSTANTS
  c1 = c1
  c2 = c2
  c3 = c3
  u1 = u1
  u2 = u2
  s1 = s1
  s2 = s2
  f1 = f1
  NoUser = NoUser
  Clients = {c1, c2}
  Users = {c1, c2}
  Servers = {s1}
  Flows = {f1}
  UserOf <- OneTabEach
  HostOf <- OneHost
  QueueCap = 1
  SendBufSize = 1
  InboxCap = 0
  Flaky = {c1}
  FrameKinds <- JoinsLeaves
  MaxFrames <- OneFrame
  MaxSaves = 0
CHECK_DEADLOCK FALSE
PROPERTIES DisconnectCompletes BroadcastsFinish

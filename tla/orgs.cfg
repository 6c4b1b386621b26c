SPECIFICATION Spec
CONSTANTS
  u1 = u1
  u2 = u2
  o1 = o1
  o2 = o2
  k1 = k1
  h1 = h1
  h2 = h2
  NoUser = NoUser
  NoOrg = NoOrg
  NoToken = NoToken
  NoInvite = NoInvite
  Users = {u1, u2}
  OrgIds = {o1, o2}
  Tokens = {k1}
  Handlers = {h1, h2}
  Assignable = {"admin", "member"}
SYMMETRY Symmetry
INVARIANTS OwnerSeated OneActiveOrg
PROPERTY PromotedByOwner

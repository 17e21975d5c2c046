SPECIFICATION AssistantSpec
CONSTANTS
  Prompt = {p1, p2}
  user = user
  User = {user}
  Tenant = tenant
  UserOf <- UserOfAll
  Override <- Limits
  Default <- Defaults
  MaxChats = 2
  edit = edit
  editTenant = editTenant
  remove = remove
  ask = ask
  unknown = unknown
  Call = {edit, editTenant, remove, ask, unknown}
  ToolOf <- Tools
  Offered = {"edit", "remove", "ask"}
  Mutating = {"edit"}
  Destructive = {"remove"}
  Question = "ask"
  Inputs <- SomeInputs
  Batches <- SomeCalls
  Connection = {d1, d2, d3}
  Existing = {d1}
  Job = {j1, j2, j3}
  Patch <- SomePatches
  Chooser = {tenant, user}
  r1 = r1
  s1 = s1
  s2 = s2
  s3 = s3
  s4 = s4
  one = one
  other = other
  Session = {s1, s2, s3, s4}
  OwnerOf <- Owners
  k1 = k1
  k2 = k2
  Post = {k1, k2}
  MaxSessionsPerUser = 2
  MaxSessions = 2
  Replica = {r1, r2}
  MaxTime = 0
  g1 = g1
  g2 = g2
  x = x
  y = y
  Grant = {g1, g2}
  Client = {x, y}
  ClientOf <- Clients
  Exchange = {e1, e2, e3}
  MaxTokens = 3
SYMMETRY Symmetry
INVARIANTS
  AssistantTypeOK
  OverspendBounded
  GatesHold
  ConnectionsKept
  SentToHolder
  OneHeir
CHECK_DEADLOCK FALSE

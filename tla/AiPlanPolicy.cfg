SPECIFICATION MCSpec
CONSTANTS
  Prompt = {p1, p2}
  user = user
  User = {user}
  Tenant = tenant
  UserOf <- UserOfAll
  Override <- Limits
  Default <- Defaults
  MaxChats = 2
  edit = edit
  editTenant = editTenant
  remove = remove
  ask = ask
  unknown = unknown
  Call = {edit, editTenant, remove, ask, unknown}
  ToolOf <- Tools
  Offered = {"edit", "remove", "ask"}
  Mutating = {"edit"}
  Destructive = {"remove"}
  Question = "ask"
  Inputs <- SomeInputs
  Batches <- SomeCalls
SYMMETRY Symmetry
INVARIANT DenyAborts
CHECK_DEADLOCK FALSE

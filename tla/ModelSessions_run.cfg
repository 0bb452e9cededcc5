SPECIFICATION Spec
CONSTANTS
  narrow = narrow
  wide = wide
  Callers = {k1, k2}
  Sessions = {s1, s2}
  Requests = {q1, q2}
  Tools = {t1, t2}
  Results = {x, y}
  Models = {narrow, wide}
  Providers = {narrow, wide}
  ProviderOf <- Itself
  Configs <- Routes
  Unset = Unset
  None = None
  GlobalLimit = 2
  ProviderLimit <- OneAndTwo
  CallLimit = 3
  ToolLimit = 2
  TimeLimit = 4
  RetryLimit = 2
  Timeout = 2
  MaxOverrun = 1
  MaxRestarts = 1
INVARIANTS BudgetHeld PromptComplete
PROPERTIES KeepsDialogue
SYMMETRY Interchangeable
CHECK_DEADLOCK FALSE

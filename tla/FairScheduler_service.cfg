\* a service that keeps ticking until it is shut down
SPECIFICATION ServiceSpec
CONSTANTS
  a1 = a1
  a2 = a2
  b1 = b1
  c1 = c1
  c2 = c2
  A = A
  B = B
  C = C
  p = p
  q = q
  Works = {a1, a2, b1, c1}
  Repos = {A, B, C}
  RepoOf <- MCRepoOf
  Model <- MCModel
  Providers = {p, q}
  ProviderOf <- MCProviderOf
  Timed = {a1, c1}
  GlobalLimit = 2
  RepositoryLimit = 1
  ModelLimit = 2
  ProviderLimit <- OneProviderLimited
INVARIANTS WithinLimits OnePlace
PROPERTIES SlotHeldUntilStopped WorkConserving ControlServed TakesTurns

SPECIFICATION ExecFairSpec
CONSTANTS
  c1 = c1
  c2 = c2
  c3 = c3
  alice = alice
  x = x
  Comments = {c1, c2}
  Actors = {alice}
  Contents = {x}
  Policies <- OnePolicy
  Commands <- Controls
  NoOne = NoOne
  Nobody = Nobody
  MaxRequirements = 1
  MaxDesigns = 1
  MaxEpoch = 4
  MaxChanges = 1
INVARIANTS OneLaunch NoProcessBehind
PROPERTIES ImplementsWorkflow RunSettles

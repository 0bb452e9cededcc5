SPECIFICATION Spec
CONSTANTS
  c1 = c1
  c2 = c2
  c3 = c3
  alice = alice
  x = x
  y = y
  Comments = {c1, c2, c3}
  Actors = {alice}
  Contents = {x, y}
  Policies <- WithStarter
  Commands <- Written
  NoOne = NoOne
  Nobody = Nobody
  MaxRequirements = 1
  MaxDesigns = 1
  MaxEpoch = 5
  MaxChanges = 1
SYMMETRY Swap
INVARIANTS ApprovalsCurrent EpochTells
PROPERTIES RunsAuthorised CommentUsedOnce CancelSticks SetsTerms

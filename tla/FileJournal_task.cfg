SPECIFICATION Spec
CONSTANTS
  k1 = k1
  k2 = k2
  r1 = r1
  a = a
  b = b
  x = x
  y = y
  t1 = t1
  t2 = t2
  Keys = {k1}
  Repos = {r1}
  RepoOf <- OneTask
  Provisioned = {r1}
  Threads = {t1, t2}
  EventIds = {1, 2, 3}
  Bodies = {a, b}
  Blobs = {x, y}
  BlobsOf <- TwoBlobs
  Faults <- BothFaults
INVARIANTS BlobsBeforeRecord NoLostUpdate HealthyViewDurable
PROPERTIES KeepsTaskLog

SPECIFICATION Spec
CONSTANTS
  k1 = k1
  k2 = k2
  r1 = r1
  a = a
  b = b
  x = x
  y = y
  t1 = t1
  t2 = t2
  Keys = {k1, k2}
  Repos = {r1}
  RepoOf <- SharedRepo
  Provisioned = {}
  Threads = {t1, t2}
  EventIds = {1, 2}
  Bodies = {a}
  Blobs = {x}
  BlobsOf <- OneBlob
  Faults <- BothFaults
PROPERTY AckedKept

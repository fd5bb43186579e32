CONSTANTS
  n1 = n1
  n2 = n2
  x = x
  y = y
  b1 = b1
  b2 = b2
  A = A
  B = B
  c1 = c1
  c2 = c2
  None = None
  NoFile = NoFile
  Names = {x}
  Nodes = {n1, n2}
  Hashes = {b1, b2}
  Contents = {A, B}
  Manifests <- OneSmallFile
  PickOrder <- TwoNodes
  Bytes <- MCBytes
  Replicas = 2
  Ops <- NoDeletes
  MaxFid = 2
  MaxIdx = 1
  MaxLate = 1
  Handlers = {c1, c2}
SPECIFICATION EitherFairSpec
INVARIANTS TypeOK UploadedIsStored
PROPERTY EveryRequestAnswered

CONSTANTS
  n1 = n1
  n2 = n2
  x = x
  y = y
  b1 = b1
  b2 = b2
  A = A
  B = B
  c1 = c1
  c2 = c2
  None = None
  NoFile = NoFile
  Names = {x}
  Nodes = {n1}
  Hashes = {b1, b2}
  Contents = {A, B}
  Manifests <- TwoBlockFiles
  PickOrder <- OneNode
  Bytes <- MCBytes
  Replicas = 1
  Ops <- WritesReads
  MaxFid = 2
  MaxIdx = 2
  MaxLate = 0
  Handlers = {c1, c2}
SPECIFICATION EitherSpec
INVARIANTS CompleteIsWhole DownloadIsWhole
PROPERTIES ImplementsNamespace 

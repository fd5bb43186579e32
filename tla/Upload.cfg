CONSTANTS
  file = file
  copy = copy
  even = even
  none = none
  a = a
  b = b
  d = d
  p = p
  q = q
  t = t
  empty = empty
  Empty = empty
  PAGE_SIZE = 2
  c1 = c1
  c2 = c2
  Mortal = {c1}
  Testers = {c1}
  Choice <- Uploads
  Servers = {0, 1}
  Clients = {c1, c2}
  Files = {file, copy, even, none}
  FileName <- Names
  FileSize <- Sizes
  Content <- Contents
  Pages = {p, q, t, empty}
  Server <- Places
SPECIFICATION Spec
INVARIANTS
  AcceptedWasForwarded
  SkippedWasAccepted
  SuccessMeansAccepted
  StoredIsForwarded
  UploadEnds
CHECK_DEADLOCK FALSE

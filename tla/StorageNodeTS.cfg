CONSTANTS
  b1 = b1
  b2 = b2
  s1 = s1
  s2 = s2
  s3 = s3
  f1 = f1
  f2 = f2
  f3 = f3
  f4 = f4
  None = None
  Files = {f1, f2, f3, f4}
  Hashes = {b1, b2}
  Slots = {s1, s2}
  Ops <- Every
  CrossDevice = FALSE
  Kills = TRUE
SPECIFICATION Spec
INVARIANTS
  NamedFilesAreWhole
  GetServesWhole

  

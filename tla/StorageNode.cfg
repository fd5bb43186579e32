CONSTANTS
  b1 = b1
  b2 = b2
  s1 = s1
  s2 = s2
  Junk = Junk
  Absent = Absent
  Hashes <- MCHashes
  Slots <- MCSlots
SPECIFICATION FairSpec
INVARIANTS
  TypeOK
  VisibleIsVerified
  GetServesItsBlock
PROPERTIES
  
  EveryRequestAnswered

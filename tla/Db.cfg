CONSTANTS
  h1 = h1
  h2 = h2
  d1 = d1
  d2 = d2
  a = a
  b = b
  Helpers = {h1, h2}
  Names = {a, b}
  Md5s <- Contents
  Rounds = 2
  BLOCK_NUM = 3
  Players = {d1, d2}
  PlayRounds = 2
  BLOCKS = 3
SPECIFICATION Spec
INVARIANTS
  
  
  
  DemoComplete
  RequestsAreCounted
CHECK_DEADLOCK FALSE

CONSTANTS
  down = down
  up = up
  kvmap = kvmap
  other = other
  p = p
  q = q
  r = r
  Downloads = {down}
  Uploads = {up}
  Names = {kvmap, other}
  Wanted = kvmap
  Dirs <- Found
  Stored <- Blocks
  Servers = {0, 1, 2}
SPECIFICATION Spec
INVARIANTS
  
  OneThreadAppends
  DeliversOnlyOvertaken
  
CHECK_DEADLOCK FALSE

--------------------------- MODULE MCStorageNode ---------------------------
(***************************************************************************)
(* Two requests at a time over one or two blocks: every race between put,  *)
(* get and delete of one block, and power losses at every point.           *)
(***************************************************************************)
EXTENDS StorageNode

CONSTANTS b1, b2, s1, s2

MCHashes == {b1, b2}
MCSlots  == {s1, s2}
=============================================================================

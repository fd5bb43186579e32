-------------------------- MODULE MCStorageNodeTS --------------------------
(***************************************************************************)
(* Two or three requests at a time over one or two blocks.  A request that *)
(* needs a fresh file has none open, so one is always left.                *)
(***************************************************************************)
EXTENDS StorageNodeTS, Naturals, FiniteSets, TLC

CONSTANTS b1, b2, s1, s2, s3, f1, f2, f3, f4

ASSUME EnoughFiles ==
  Cardinality(Files) >= Cardinality(Hashes) + Cardinality(Slots)

FileNames  == Permutations(Files)
AnyRequest == FileNames \cup Permutations(Slots)

NoReads  == {"put", "delete"}
Every    == {"put", "get", "head", "delete"}
=============================================================================

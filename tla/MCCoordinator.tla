--------------------------- MODULE MCCoordinator ---------------------------
(***************************************************************************)
(* Small instances of the coordinator.  Two contents of the same size      *)
(* share their blocks, so a name can change hands between requests without *)
(* a length or a block giving it away.                                     *)
(***************************************************************************)
EXTENDS CoordinatorTS

CONSTANTS n1, n2,  \* storage nodes
          x, y,    \* file names
          b1, b2,  \* blocks
          A, B,    \* contents
          c1, c2   \* handlers

MCBytes(s) == Len(s)

\* Candidates is what streamBlock computes: the nodes of the row, then the
\* ranked nodes that are not among them.
ASSUME CandidatesAssumption ==
  \A k \in Hashes :
    LET row == [hash |-> k, nodes |-> ReplicasOf(k), uploaded |-> TRUE] IN
    Candidates(row) = row.nodes \o
      SelectSeq(PickOrder[k], LAMBDA n : \A i \in DOMAIN row.nodes : row.nodes[i] # n)

MA  == [sha |-> A, size |-> 2, blocks |-> <<b1, b2>>]
MB  == [sha |-> B, size |-> 2, blocks |-> <<b2, b1>>]
MA1 == [sha |-> A, size |-> 1, blocks |-> <<b1>>]

TwoBlockFiles == {MA, MB}
OneSmallFile  == {MA1}

OneNode    == [k \in {b1, b2} |-> <<n1>>]
TwoNodes   == [k \in {b1, b2} |-> IF k = b1 THEN <<n1, n2>> ELSE <<n2, n1>>]

Writes       == {"init", "put", "commit", "delete"}
WritesReads  == Writes \cup {"get"}
NoDeletes    == {"init", "put", "commit", "get", "manifest", "getblock"}
=============================================================================

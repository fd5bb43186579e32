----------------------------- MODULE MCDownload -----------------------------
(***************************************************************************)
(* A download next to an upload, of the same name or another.  The         *)
(* directory holds a page, a page that was saved twice, and a last part of *)
(* a page that was saved twice, or it is not there.                        *)
(***************************************************************************)
EXTENDS Download

CONSTANTS down, up,      \* clients
          kvmap, other,  \* names
          p, q, r        \* pages

Blocks == {[page |-> p, copies |-> 1, full |-> TRUE], [page |-> q, copies |-> 2, full |-> TRUE],
           [page |-> r, copies |-> 2, full |-> FALSE]}
Found  == {{}, {kvmap}}
=============================================================================

------------------------------ MODULE MCUpload ------------------------------
(***************************************************************************)
(* A small instance of the upload: a file, a changed copy of it, a file    *)
(* whose size is a multiple of PAGE_SIZE, and an empty one.                *)
(***************************************************************************)
EXTENDS Upload, TLC

CONSTANTS file, copy, even, none, \* files
          a, b, d,                \* names
          p, q, t, empty,         \* pages
          c1, c2                  \* clients

Names    == file :> a @@ copy :> a @@ even :> b @@ none :> d
Sizes    == file :> 3 @@ copy :> 3 @@ even :> 2 @@ none :> 0
Contents == file :> <<p, q>> @@ copy :> <<p, t>> @@ even :> <<q>> @@ none :> <<>>
Uploads  == c1 :> {file} @@ c2 :> {file, copy, even, none}
Places   == p :> 0 @@ q :> 1 @@ t :> 0 @@ empty :> 0
=============================================================================

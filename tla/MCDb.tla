-------------------------------- MODULE MCDb --------------------------------
(* Two programs, a file whose blocks differ and one whose blocks are equal. *)
EXTENDS Db, TLC

CONSTANTS h1, h2, d1, d2, a, b

Contents == a :> <<2, 1>> @@ b :> <<1, 1>>
=============================================================================

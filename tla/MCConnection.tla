---------------------------- MODULE MCConnection ----------------------------
(***************************************************************************)
(* A small instance of the connections of a server: an acceptor's loop and *)
(* a pool of none or one.                                                  *)
(***************************************************************************)
EXTENDS Connection

CONSTANTS base, io \* loops

NoneOrOne == {<<>>, <<io>>}
=============================================================================

---------------------------- MODULE MCEventLoop ----------------------------
(***************************************************************************)
(* The main loop, one loop of the pool and one thread without a loop: a    *)
(* functor can come from the loop's own thread, from another loop and from *)
(* outside.                                                                *)
(***************************************************************************)
EXTENDS EventLoop

CONSTANTS main, io, w, k1, k2, k3
=============================================================================

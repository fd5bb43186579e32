------------------------------ MODULE Namespace ------------------------------
(***************************************************************************)
(* What the coordinator promises about a file name.  A name is free, or    *)
(* holds one upload whose list of blocks never changes; blocks arrive in   *)
(* any order and never become missing again; the upload is completed only  *)
(* when all of them have arrived, and stays complete; only removing it     *)
(* frees the name for another content.                                     *)
(*                                                                         *)
(* Coordinator implements this specification, however many requests for    *)
(* one name run at the same time.                                          *)
(***************************************************************************)
EXTENDS Sequences

CONSTANTS Names, BlockLists, Free

VARIABLE ns   \* ns[n]: Free or the upload the name holds

Register(n, bs) ==
  /\ ns[n] = Free
  /\ ns' = [ns EXCEPT ![n] = [blocks |-> bs, up |-> {}, complete |-> FALSE]]

Arrive(n, i) ==
  /\ ns[n] # Free
  /\ i \in DOMAIN ns[n].blocks
  /\ ns' = [ns EXCEPT ![n].up = @ \cup {i}]

Complete(n) ==
  /\ ns[n] # Free
  /\ ns[n].up = DOMAIN ns[n].blocks
  /\ ns' = [ns EXCEPT ![n].complete = TRUE]

Remove(n) == ns[n] # Free /\ ns' = [ns EXCEPT ![n] = Free]

Init == ns = [n \in Names |-> Free]

Next == \E n \in Names : \/ \E bs \in BlockLists : Register(n, bs)
                         \/ ns[n] # Free /\ \E i \in DOMAIN ns[n].blocks : Arrive(n, i)
                         \/ Complete(n)
                         \/ Remove(n)

Spec == Init /\ [][Next]_ns
=============================================================================

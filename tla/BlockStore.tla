----------------------------- MODULE BlockStore -----------------------------
(***************************************************************************)
(* What one storage node promises to its callers.  A block is named by the *)
(* SHA-256 of its content, so the node is a set of hashes; a request takes *)
(* effect at one instant between its arrival and its answer:               *)
(*                                                                         *)
(*   - a put that is answered with success found the block on the node, or *)
(*     stored it, at some instant of the call;                             *)
(*   - a get, head or put answered "not found" or an error did not change  *)
(*     the node;                                                           *)
(*   - nothing but a put adds a block and nothing but a delete, or a power *)
(*     loss before the directory reached the disk, takes one away.         *)
(*                                                                         *)
(* StorageNode implements this specification.                              *)
(***************************************************************************)

CONSTANTS Hashes,  \* block ids
          Slots,   \* requests the node can serve at the same time
          NoBlock  \* the id in a slot without a request

VARIABLES present, \* blocks a reader finds
          settled, \* blocks a reader would find after a power loss
          call     \* call[c]: the request in slot c and how far it is

vars == <<present, settled, call>>

Kinds  == {"put", "get", "head", "delete"}
Phases == {"idle", "pending", "effective", "missed", "failed"}

IdleCall == [phase |-> "idle", kind |-> "none", id |-> NoBlock]

Call == [phase: Phases \ {"idle"}, kind: Kinds, id: Hashes] \cup {IdleCall}

TypeOK == /\ present \subseteq Hashes
          /\ settled \subseteq Hashes
          /\ call \in [Slots -> Call]

Init == /\ present = {}
        /\ settled = {}
        /\ call = [c \in Slots |-> IdleCall]

-----------------------------------------------------------------------------
Moved(c, from, to) == /\ call[c].phase \in from
                      /\ call' = [call EXCEPT ![c].phase = to]

Request(c, k, b) == /\ call[c].phase = "idle"
                    /\ call' = [call EXCEPT ![c] =
                                  [phase |-> "pending", kind |-> k, id |-> b]]
                    /\ UNCHANGED <<present, settled>>

\* The block is put on the node.
Store(c) == /\ call[c].kind = "put"
            /\ Moved(c, {"pending"}, "effective")
            /\ present' = present \cup {call[c].id}
            /\ UNCHANGED settled

\* The block is seen on the node: a get or head succeeds, a put need not write.
See(c) == /\ call[c].kind # "delete"
          /\ call[c].id \in present
          /\ Moved(c, {"pending"}, "effective")
          /\ UNCHANGED <<present, settled>>

Miss(c) == /\ call[c].kind \in {"get", "head"}
           /\ call[c].id \notin present
           /\ Moved(c, {"pending"}, "missed")
           /\ UNCHANGED <<present, settled>>

Remove(c) == /\ call[c].kind = "delete"
             /\ Moved(c, {"pending"}, "effective")
             /\ present' = present \ {call[c].id}
             /\ UNCHANGED settled

\* An error answer.  It takes back no effect: a put that saw its block and
\* then received a body with another hash is refused, and that is all.
Fail(c) == /\ Moved(c, {"pending", "effective"}, "failed")
           /\ UNCHANGED <<present, settled>>

Answer(c) == /\ call[c].phase \in {"effective", "missed", "failed"}
             /\ call' = [call EXCEPT ![c] = IdleCall]
             /\ UNCHANGED <<present, settled>>

-----------------------------------------------------------------------------
\* The kernel writes the directory entry of b.
Settle(b) == /\ settled' = IF b \in present THEN settled \cup {b}
                                            ELSE settled \ {b}
             /\ UNCHANGED <<present, call>>

AllStop == call' = [c \in Slots |-> IdleCall]

Kill == /\ AllStop
        /\ UNCHANGED <<present, settled>>

PowerLoss == /\ present' = settled
             /\ AllStop
             /\ UNCHANGED settled

Next == \/ \E c \in Slots :
             \/ \E k \in Kinds, b \in Hashes : Request(c, k, b)
             \/ Store(c) \/ See(c) \/ Miss(c) \/ Remove(c)
             \/ Fail(c) \/ Answer(c)
        \/ \E b \in Hashes : Settle(b)
        \/ Kill
        \/ PowerLoss

Spec == Init /\ [][Next]_vars
=============================================================================

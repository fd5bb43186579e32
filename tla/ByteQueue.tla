----------------------------- MODULE ByteQueue -----------------------------
(***************************************************************************)
(* What a buffer of the reactor library promises to the code that builds   *)
(* and parses messages: a queue of bytes.  Bytes are added at the back,    *)
(* taken or dropped from the front, and a header may be put before them;   *)
(* none is lost, repeated or changed on the way.  Buffer implements this   *)
(* specification.                                                          *)
(***************************************************************************)
EXTENDS Integers, Sequences

CONSTANT Byte

VARIABLES queue, \* the bytes that were added and are still in the buffer
          call   \* the last call: its kind and the bytes given or handed out

Init == queue = <<>> /\ call = [op |-> "new", bytes |-> <<>>]

Add == call'.op = "add" /\ queue' = queue \o call'.bytes

Before == call'.op = "before" /\ queue' = call'.bytes \o queue

Take == /\ call'.op \in {"take", "drop"}
        /\ queue = call'.bytes \o queue'

Next == call'.bytes \in Seq(Byte) /\ (Add \/ Before \/ Take)

Spec == Init /\ [][Next]_<<queue, call>>
=============================================================================

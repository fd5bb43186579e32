------------------------------- MODULE Buffer -------------------------------
(***************************************************************************)
(* Reactor::Buffer (ReactorService/inc/Buffer.h and src/Buffer.cc; the     *)
(* client and the three storage servers carry copies of it): a vector of   *)
(* bytes with a reader and a writer index,                                 *)
(*                                                                         *)
(*   0 <= readerIndex_ <= writerIndex_ <= buffer_.size()                   *)
(*                                                                         *)
(* The bytes between the indices are the ones to read, the bytes before    *)
(* the reader index are room for a header.  When the room after the writer *)
(* index does not suffice the vector grows, or the readable bytes move to  *)
(* the front.                                                              *)
(*                                                                         *)
(* No operation of the class checks its argument.  The actions below are   *)
(* the calls a careful caller makes: it takes no more than readableBytes() *)
(* and prepends no more than prependableBytes().  Connection models the    *)
(* one caller that does not (handleWrite).                                 *)
(***************************************************************************)
EXTENDS Integers, Sequences

CONSTANTS Byte,         \* the values of a byte
          Zero,         \* the value of the bytes a vector is grown by
          CheapPrepend, \* kCheapPrepend
          InitialSize,  \* kInitialSize
          MaxChunk,     \* bound: the bytes of one call
          MaxReadable   \* bound: the bytes the callers leave unread

ASSUME BufferAssumption ==
  /\ Zero \in Byte
  /\ CheapPrepend \in Nat /\ InitialSize \in Nat
  /\ MaxChunk \in Nat /\ MaxReadable \in Nat

VARIABLES buf,  \* the object: its vector and its indices
          last  \* the last call and the bytes it was given or handed out

bufferVars == <<buf, last>>

-----------------------------------------------------------------------------
(* The object and its members.  cells has buffer_.size() = size elements.   *)
NewBuffer == [cells |-> [i \in 0 .. CheapPrepend + InitialSize - 1 |-> Zero],
              size  |-> CheapPrepend + InitialSize,
              r     |-> CheapPrepend,
              w     |-> CheapPrepend]

readableBytes(b)    == b.w - b.r
writableBytes(b)    == b.size - b.w
prependableBytes(b) == b.r

\* The n bytes from index i on.
Bytes(b, i, n) == [k \in 1 .. n |-> b.cells[i + k - 1]]

Readable(b) == Bytes(b, b.r, readableBytes(b))

\* std::copy of the bytes s to index i.  What would fall behind the end of
\* the vector is lost.
Copy(b, i, s) ==
  [b EXCEPT !.cells = [k \in 0 .. b.size - 1 |->
                         IF k >= i /\ k < i + Len(s) THEN s[k - i + 1] ELSE b.cells[k]]]

Indexed(b, r, w) == [b EXCEPT !.r = r, !.w = w]

retrieve(b, n) == Indexed(b, b.r + n, b.w)

retrieveAll(b) == Indexed(b, CheapPrepend, CheapPrepend)

\* buffer_.resize(n), to more than its size
Resize(b, n) == [b EXCEPT !.size = n,
                          !.cells = [k \in 0 .. n - 1 |-> IF k < b.size THEN b.cells[k] ELSE Zero]]

\* Mistaken: always grows.
makeSpaceGrows(b, n) == Resize(b, b.w + n)

\* Mistaken: moves the indices before the bytes.
makeSpaceIndicesFirst(b, n) ==
  LET moved == Indexed(b, CheapPrepend, CheapPrepend + readableBytes(b)) IN
  IF writableBytes(b) + prependableBytes(b) < n + CheapPrepend
  THEN Resize(b, b.w + n)
  ELSE Copy(moved, CheapPrepend, Readable(moved))

makeSpace(b, n) ==
  IF writableBytes(b) + prependableBytes(b) < n + CheapPrepend
  THEN Resize(b, b.w + n)
  ELSE Indexed(Copy(b, CheapPrepend, Readable(b)),
               CheapPrepend, CheapPrepend + readableBytes(b))

ensureWritableBytes(b, n) == IF writableBytes(b) < n THEN makeSpace(b, n) ELSE b

\* Copy s behind the readable bytes and move the writer index.
Write(b, s) == Indexed(Copy(b, b.w, s), b.r, b.w + Len(s))

append(b, s) == Write(ensureWritableBytes(b, Len(s)), s)

prepend(b, s) == Copy(Indexed(b, b.r - Len(s), b.w), b.r - Len(s), s)

\* readv(fd, ...) put s into the room of the vector and, behind it, into
\* extrabuf, from where it is appended.
readFd(b, s) ==
  LET room == writableBytes(b) IN
  IF Len(s) <= room THEN Write(b, s)
  ELSE append(Write(b, SubSeq(s, 1, room)), SubSeq(s, room + 1, Len(s)))

-----------------------------------------------------------------------------
Chunks == UNION {[1 .. n -> Byte] : n \in 0 .. MaxChunk}

Called(op, bytes) == last' = [op |-> op, bytes |-> bytes]

\* bound: a caller that has MaxReadable bytes reads before it adds more
Fits(s) == readableBytes(buf) + Len(s) <= MaxReadable

BufferInit == buf = NewBuffer /\ last = [op |-> "new", bytes |-> <<>>]

AppendBytes(s) == Fits(s) /\ buf' = append(buf, s) /\ Called("add", s)

ReadFd(s) == Fits(s) /\ buf' = readFd(buf, s) /\ Called("add", s)

Prepend(s) == /\ Fits(s)
              /\ Len(s) <= prependableBytes(buf)
              /\ buf' = prepend(buf, s)
              /\ Called("before", s)

Retrieve(n) == buf' = retrieve(buf, n) /\ Called("drop", Bytes(buf, buf.r, n))

RetrieveAll == buf' = retrieveAll(buf) /\ Called("drop", Readable(buf))

ReadAsBlock(n) == buf' = retrieve(buf, n) /\ Called("take", Bytes(buf, buf.r, n))

ReadAsString == buf' = retrieveAll(buf) /\ Called("take", Readable(buf))

BufferNext ==
  \/ \E s \in Chunks : AppendBytes(s) \/ ReadFd(s) \/ Prepend(s)
  \/ \E n \in 0 .. readableBytes(buf) : Retrieve(n) \/ ReadAsBlock(n)
  \/ RetrieveAll \/ ReadAsString

BufferSpec == BufferInit /\ [][BufferNext]_bufferVars

-----------------------------------------------------------------------------
\* A buffer as the class keeps it: the vector and two indices into it.
Wellformed(b) ==
  /\ b \in [cells : [0 .. b.size - 1 -> Byte], size : Nat, r : Nat, w : Nat]
  /\ b.r <= b.w /\ b.w <= b.size /\ CheapPrepend <= b.size

(* The indices are in order and inside the vector after every sequence of   *)
(* calls, so that no call of a careful caller reads or writes outside of    *)
(* the vector.                                                              *)
IndicesInOrder == Wellformed(buf)

(* The vector of a connection that lives for ever does not grow for ever:   *)
(* when its callers never leave more than MaxReadable bytes unread it stays *)
(* under twice that, because makeSpace reuses the room of what was read.    *)
GrowthIsBounded ==
  buf.size <= CheapPrepend + InitialSize \/ buf.size < CheapPrepend + 2 * MaxReadable

Queue == INSTANCE ByteQueue WITH queue <- Readable(buf), call <- last

(* Whatever the sequence of calls, and however often the bytes moved or the *)
(* vector grew in between, the readers get the bytes in the order and the   *)
(* number in which they were added.                                         *)
ImplementsQueue == Queue!Spec
=============================================================================

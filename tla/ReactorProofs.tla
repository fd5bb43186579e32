--------------------------- MODULE ReactorProofs ---------------------------
(***************************************************************************)
(* Proofs about the reactor library.  The event loops, for any number of   *)
(* loops, threads and functors: types, the order in which functors run,    *)
(* and that no loop sleeps over its work.  The buffers, for every capacity *)
(* and every sequence of calls: the indices stay inside the vector, it     *)
(* stays bounded, and a buffer is a queue of bytes.                        *)
(***************************************************************************)
EXTENDS EventLoop, Buffer, SequenceTheorems, TLAPS

\* Moving the head of the middle sequence to the end of the first one leaves
\* the whole as it is (RunFunctor).
LEMMA MoveHead ==
  ASSUME NEW S, NEW r \in Seq(S), NEW b \in Seq(S), NEW f \in Seq(S), b # <<>>
  PROVE  Append(r, Head(b)) \o Tail(b) \o f = r \o b \o f
<1>1. /\ Head(b) \in S /\ Tail(b) \in Seq(S)
      /\ b = <<Head(b)>> \o Tail(b)
  <2>1. Head(b) \in S /\ Tail(b) \in Seq(S)
    BY HeadTailProperties
  <2>2. Len(Tail(b)) = Len(b) - 1
    BY HeadTailProperties
  <2>3. \A i \in 1..Len(Tail(b)) : Tail(b)[i] = b[i + 1]
    BY HeadTailProperties
  <2> QED
    BY <2>1, <2>2, <2>3
<1>2. Append(r, Head(b)) = r \o <<Head(b)>>
  BY <1>1
<1>3. (r \o <<Head(b)>>) \o Tail(b) = r \o (<<Head(b)>> \o Tail(b))
  BY <1>1, ConcatAssociative
<1> QED
  BY <1>1, <1>2, <1>3
\* Appending to a concatenation appends to its last part (QueueInLoop).
LEMMA AppendLast ==
  ASSUME NEW q \in Seq(Tasks), NEW f \in Seq(Tasks), NEW e \in Tasks
  PROVE  Append(q \o f, e) = q \o Append(f, e)
<1>1. q \o f \in Seq(Tasks) /\ <<e>> \in Seq(Tasks)
  BY ConcatProperties
<1>2. (q \o f) \o <<e>> = q \o (f \o <<e>>)
  BY <1>1, ConcatAssociative
<1>3. Append(q \o f, e) = (q \o f) \o <<e>>
  BY <1>1, AppendIsConcat
<1>4. Append(f, e) = f \o <<e>>
  BY AppendIsConcat
<1> QED
  BY <1>2, <1>3, <1>4
-----------------------------------------------------------------------------
LEMMA TypeInit == Init => TypeOK
  BY DEF Init, TypeOK, PCs, Loops, Threads

LEMMA TypeStep == TypeOK /\ [Next]_vars => TypeOK'
<1> SUFFICES ASSUME TypeOK, [Next]_vars PROVE TypeOK'
  OBVIOUS
<1> USE ThreadAssumption DEF TypeOK, Loops, Threads, startup
<1>1. ASSUME NEW l \in Pool, NewLoopThread(l) PROVE TypeOK'
  BY <1>1 DEF NewLoopThread, PCs
<1>2. CASE StartLoopWait
  BY <1>2 DEF StartLoopWait, Goto, PCs
<1>3. CASE StartLoopReturn
  BY <1>3 DEF StartLoopReturn, PCs
<1>4. CASE PoolStarted
  BY <1>4 DEF PoolStarted, Goto, PCs
<1>5. ASSUME NEW l \in Pool, Publish(l) PROVE TypeOK'
  BY <1>5 DEF Publish, PCs
<1>6. ASSUME NEW l \in Loops, Enter(l) PROVE TypeOK'
  BY <1>6 DEF Enter, Goto, PCs
<1>7. ASSUME NEW l \in Loops, Check(l) PROVE TypeOK'
  BY <1>7 DEF Check, Goto, PCs
<1>8. ASSUME NEW l \in Loops, Poll(l) PROVE TypeOK'
  BY <1>8 DEF Poll, Goto, PCs
<1>9. ASSUME NEW l \in Loops, HandleRead(l) PROVE TypeOK'
  BY <1>9 DEF HandleRead
<1>10. ASSUME NEW l \in Loops, DoFunctors(l) PROVE TypeOK'
  BY <1>10 DEF DoFunctors, Goto, PCs
<1>11. ASSUME NEW l \in Loops, RunFunctor(l) PROVE TypeOK'
  <2>1. /\ Head(batch[l]) \in Tasks
        /\ Tail(batch[l]) \in Seq(Tasks)
    BY <1>11, HeadTailProperties DEF RunFunctor
  <2>2. Append(ran[l], Head(batch[l])) \in Seq(Tasks)
    BY <2>1
  <2> QED
    BY <1>11, <2>1, <2>2 DEF RunFunctor
<1>12. ASSUME NEW l \in Loops, FunctorsDone(l) PROVE TypeOK'
  BY <1>12 DEF FunctorsDone, Goto, PCs
<1>13. ASSUME NEW t \in Threads, Wakeup(t) PROVE TypeOK'
  BY <1>13 DEF Wakeup
<1>14. ASSUME NEW t \in Threads, NEW l \in Loops, Quit(t, l) PROVE TypeOK'
  BY <1>14 DEF Quit
<1>15. ASSUME NEW t \in Threads, NEW l \in Loops, NEW k \in Tasks,
              QueueInLoop(t, l, k)
       PROVE  TypeOK'
  <2>1. Append(Functors[l], k) \in Seq(Tasks) /\ Append(queued[l], k) \in Seq(Tasks)
    BY <1>15, AppendProperties
  <2>2. Functors' \in [Loops -> Seq(Tasks)] /\ queued' \in [Loops -> Seq(Tasks)]
    BY <1>15, <2>1 DEF QueueInLoop
  <2>3. waking' \in [Threads -> Loops \cup {Null}]
    BY <1>15 DEF QueueInLoop, ToWake
  <2> QED
    BY <1>15, <2>2, <2>3 DEF QueueInLoop
<1>16. CASE UNCHANGED vars
  BY <1>16 DEF vars
<1> QED
  BY <1>1, <1>2, <1>3, <1>4, <1>5, <1>6, <1>7, <1>8, <1>9, <1>10, <1>11,
     <1>12, <1>13, <1>14, <1>15, <1>16 DEF Next, StartStep, LoopStep

\* The variables keep their types, whatever the threads do.
THEOREM LoopTypes == Spec => []TypeOK
  BY TypeInit, TypeStep, PTL DEF Spec
-----------------------------------------------------------------------------
LEMMA OrderInit == Init => LoopsInOrder
  BY DEF Init, LoopsInOrder, LoopInOrder

\* A step that leaves the wake-ups, queues and flags of every loop alone and
\* takes no loop into epoll_wait, into its events or out of them.
LEMMA OrderKept ==
  ASSUME TypeOK, LoopsInOrder,
         UNCHANGED <<Functors, batch, callFunctors, eventfd, quit, waking>>,
         \A l \in Loops : \/ pc'[l] = pc[l]
                          \/ /\ pc[l] \notin {"events", "run"}
                             /\ pc'[l] \notin {"poll", "run"}
  PROVE  LoopsInOrder'
BY DEF LoopsInOrder, LoopInOrder, Announced

LEMMA OrderStep == TypeOK /\ LoopsInOrder /\ [Next]_vars => LoopsInOrder'
<1> SUFFICES ASSUME TypeOK, LoopsInOrder, [Next]_vars PROVE LoopsInOrder'
  OBVIOUS
<1> USE ThreadAssumption DEF startup
<1>1. ASSUME NEW l \in Pool, NewLoopThread(l) PROVE LoopsInOrder'
  BY <1>1, OrderKept DEF NewLoopThread, Unstarted, TypeOK, Loops
<1>2. CASE StartLoopWait
  BY <1>2, OrderKept DEF StartLoopWait, Goto, TypeOK, Loops
<1>3. CASE StartLoopReturn
  BY <1>3, OrderKept DEF StartLoopReturn, TypeOK, Loops
<1>4. CASE PoolStarted
  BY <1>4, OrderKept DEF PoolStarted, Goto, TypeOK, Loops
<1>5. ASSUME NEW l \in Pool, Publish(l) PROVE LoopsInOrder'
  BY <1>5, OrderKept DEF Publish, TypeOK, Loops
<1>6. ASSUME NEW l \in Loops, Enter(l) PROVE LoopsInOrder'
  BY <1>6 DEF Enter, Goto, TypeOK, LoopsInOrder, LoopInOrder, Announced
\* The loop goes to sleep: what is queued is announced already, and quit_ was
\* not set.
<1>7. ASSUME NEW l \in Loops, Check(l) PROVE LoopsInOrder'
  BY <1>7 DEF Check, Goto, TypeOK, LoopsInOrder, LoopInOrder, Announced
<1>8. ASSUME NEW l \in Loops, Poll(l) PROVE LoopsInOrder'
  BY <1>8 DEF Poll, Goto, TypeOK, LoopsInOrder, LoopInOrder, Announced
<1>9. ASSUME NEW l \in Loops, HandleRead(l) PROVE LoopsInOrder'
  BY <1>9 DEF HandleRead, TypeOK, LoopsInOrder, LoopInOrder, Announced
<1>10. ASSUME NEW l \in Loops, DoFunctors(l) PROVE LoopsInOrder'
  BY <1>10 DEF DoFunctors, Goto, TypeOK, LoopsInOrder, LoopInOrder, Announced
<1>11. ASSUME NEW l \in Loops, RunFunctor(l) PROVE LoopsInOrder'
  BY <1>11 DEF RunFunctor, TypeOK, LoopsInOrder, LoopInOrder, Announced
<1>12. ASSUME NEW l \in Loops, FunctorsDone(l) PROVE LoopsInOrder'
  BY <1>12 DEF FunctorsDone, Goto, TypeOK, LoopsInOrder, LoopInOrder, Announced
\* The wake-up on its way arrives in the eventfd.
<1>13. ASSUME NEW t \in Threads, Wakeup(t) PROVE LoopsInOrder'
  <2>1. \A k \in Loops : Announced(k) => Announced(k)'
    BY <1>13 DEF Wakeup, Announced, TypeOK
  <2> QED
    BY <1>13, <2>1 DEF Wakeup, LoopsInOrder, LoopInOrder
<1>14. ASSUME NEW t \in Threads, NEW l \in Loops, Quit(t, l) PROVE LoopsInOrder'
  <2>1. \A k \in Loops : Announced(k) => Announced(k)'
    BY <1>14 DEF Quit, Calling, Announced, TypeOK, Loops, Threads
  <2>2. t # l => Announced(l)'
    BY <1>14 DEF Quit, Announced, TypeOK
  <2>3. t = l => pc[l] # "poll"
    BY <1>14 DEF Quit, Calling
  <2> QED
    BY <1>14, <2>1, <2>2, <2>3 DEF Quit, TypeOK, LoopsInOrder, LoopInOrder
<1>15. ASSUME NEW t \in Threads, NEW l \in Loops, NEW k \in Tasks,
              QueueInLoop(t, l, k)
       PROVE  LoopsInOrder'
  <2>1. \A m \in Loops : Announced(m) => Announced(m)'
    BY <1>15 DEF QueueInLoop, Calling, Announced, TypeOK, Loops, Threads
  <2>2. ToWake(t, l) = l => Announced(l)'
    BY <1>15 DEF QueueInLoop, Announced, TypeOK
  <2>3. pc[l] # "events" => ToWake(t, l) = l
    BY <1>15 DEF QueueInLoop, Calling, ToWake, LoopsInOrder, LoopInOrder
  <2> QED
    BY <1>15, <2>1, <2>2, <2>3
    DEF QueueInLoop, TypeOK, LoopsInOrder, LoopInOrder
<1>16. CASE UNCHANGED vars
  BY <1>16 DEF vars, LoopsInOrder, LoopInOrder, Announced
<1> QED
  BY <1>1, <1>2, <1>3, <1>4, <1>5, <1>6, <1>7, <1>8, <1>9, <1>10, <1>11,
     <1>12, <1>13, <1>14, <1>15, <1>16 DEF Next, StartStep, LoopStep

\* A loop's queue, flag, batch and wake-ups agree at every moment.
THEOREM LoopsAreInOrder == Spec => []LoopsInOrder
  BY TypeInit, TypeStep, OrderInit, OrderStep, PTL DEF Spec

\* No loop sleeps over a queued functor or a call of quit without a wake-up
\* on its way, however queueInLoop, quit and the loop interleave.
THEOREM NoLoopSleepsOverWork == Spec => []NoSleepOverWork
<1>1. LoopsInOrder => NoSleepOverWork
  BY DEF LoopsInOrder, LoopInOrder, NoSleepOverWork
<1> QED
  BY <1>1, LoopsAreInOrder, PTL
-----------------------------------------------------------------------------
LEMMA RunInit == Init => RunInOrder
  BY DEF Init, RunInOrder

LEMMA RunKept ==
  ASSUME RunInOrder, UNCHANGED <<Functors, batch, queued, ran>>
  PROVE  RunInOrder'
BY DEF RunInOrder

LEMMA RunStep == TypeOK /\ LoopsInOrder /\ RunInOrder /\ [Next]_vars => RunInOrder'
<1> SUFFICES ASSUME TypeOK, LoopsInOrder, RunInOrder, [Next]_vars
             PROVE  RunInOrder'
  OBVIOUS
<1>1. ASSUME NEW l \in Pool, NewLoopThread(l) \/ Publish(l) PROVE RunInOrder'
  BY <1>1, RunKept DEF NewLoopThread, Publish
<1>2. CASE StartLoopWait \/ StartLoopReturn \/ PoolStarted
  BY <1>2, RunKept DEF StartLoopWait, StartLoopReturn, PoolStarted
<1>3. ASSUME NEW l \in Loops, Enter(l) \/ Check(l) \/ Poll(l) \/ HandleRead(l)
                                \/ FunctorsDone(l)
      PROVE  RunInOrder'
  BY <1>3, RunKept DEF Enter, Check, Poll, HandleRead, FunctorsDone
\* The batch was empty, and takes the place of the queue.
<1>4. ASSUME NEW l \in Loops, DoFunctors(l) PROVE RunInOrder'
  <2>1. batch[l] = <<>>
    BY <1>4 DEF DoFunctors, Goto, LoopsInOrder, LoopInOrder
  <2>2. /\ ran[l] \o <<>> \o Functors[l] = ran[l] \o Functors[l]
        /\ ran[l] \o Functors[l] \o <<>> = ran[l] \o Functors[l]
    <3>1. ran[l] \in Seq(Tasks) /\ Functors[l] \in Seq(Tasks)
      BY DEF TypeOK
    <3>2. ran[l] \o <<>> = ran[l]
      BY <3>1, ConcatEmptySeq
    <3>3. ran[l] \o Functors[l] \in Seq(Tasks)
      BY <3>1, ConcatProperties
    <3>4. (ran[l] \o Functors[l]) \o <<>> = ran[l] \o Functors[l]
      BY <3>3, ConcatEmptySeq
    <3> QED
      BY <3>2, <3>4
  <2>3. \A k \in Loops : /\ batch'[k] = IF k = l THEN Functors[l] ELSE batch[k]
                         /\ Functors'[k] = IF k = l THEN <<>> ELSE Functors[k]
                         /\ ran'[k] = ran[k] /\ queued'[k] = queued[k]
    BY <1>4 DEF DoFunctors, TypeOK
  <2>4. queued[l] = ran[l] \o Functors[l]
    BY <2>1, <2>2 DEF RunInOrder
  <2>5. ASSUME NEW k \in Loops PROVE queued'[k] = ran'[k] \o batch'[k] \o Functors'[k]
    <3>1. CASE k = l
      BY <3>1, <2>2, <2>3, <2>4
    <3>2. CASE k # l
      BY <3>2, <2>3 DEF RunInOrder
    <3> QED
      BY <3>1, <3>2
  <2> QED
    BY <2>5 DEF RunInOrder
<1>5. ASSUME NEW l \in Loops, RunFunctor(l) PROVE RunInOrder'
  <2>1. Append(ran[l], Head(batch[l])) \o Tail(batch[l]) \o Functors[l]
          = ran[l] \o batch[l] \o Functors[l]
    BY <1>5, MoveHead DEF RunFunctor, TypeOK
  <2>2. \A k \in Loops :
          /\ batch'[k] = IF k = l THEN Tail(batch[l]) ELSE batch[k]
          /\ ran'[k] = IF k = l THEN Append(ran[l], Head(batch[l])) ELSE ran[k]
          /\ Functors'[k] = Functors[k] /\ queued'[k] = queued[k]
    BY <1>5 DEF RunFunctor, TypeOK
  <2>3. ASSUME NEW k \in Loops PROVE queued'[k] = ran'[k] \o batch'[k] \o Functors'[k]
    <3>1. CASE k = l
      BY <3>1, <2>1, <2>2 DEF RunInOrder
    <3>2. CASE k # l
      BY <3>2, <2>2 DEF RunInOrder
    <3> QED
      BY <3>1, <3>2
  <2> QED
    BY <2>3 DEF RunInOrder
<1>6. ASSUME NEW t \in Threads, Wakeup(t) PROVE RunInOrder'
  BY <1>6, RunKept DEF Wakeup
<1>7. ASSUME NEW t \in Threads, NEW l \in Loops, Quit(t, l) PROVE RunInOrder'
  BY <1>7, RunKept DEF Quit
\* The functor is appended to the queue and to the history.
<1>8. ASSUME NEW t \in Threads, NEW l \in Loops, NEW k \in Tasks,
             QueueInLoop(t, l, k)
      PROVE  RunInOrder'
  <2>1. Append(ran[l] \o batch[l] \o Functors[l], k)
          = ran[l] \o batch[l] \o Append(Functors[l], k)
    <3>1. ran[l] \o batch[l] \in Seq(Tasks) /\ Functors[l] \in Seq(Tasks)
      BY ConcatProperties DEF TypeOK
    <3> QED
      BY <3>1, AppendLast
  <2>2. \A m \in Loops :
          /\ Functors'[m] = IF m = l THEN Append(Functors[l], k) ELSE Functors[m]
          /\ queued'[m] = IF m = l THEN Append(queued[l], k) ELSE queued[m]
          /\ batch'[m] = batch[m] /\ ran'[m] = ran[m]
    BY <1>8 DEF QueueInLoop, TypeOK
  <2>3. ASSUME NEW m \in Loops PROVE queued'[m] = ran'[m] \o batch'[m] \o Functors'[m]
    <3>1. CASE m = l
      BY <3>1, <2>1, <2>2 DEF RunInOrder
    <3>2. CASE m # l
      BY <3>2, <2>2 DEF RunInOrder
    <3> QED
      BY <3>1, <3>2
  <2> QED
    BY <2>3 DEF RunInOrder
<1>9. CASE UNCHANGED vars
  BY <1>9, RunKept DEF vars
<1> QED
  BY <1>1, <1>2, <1>3, <1>4, <1>5, <1>6, <1>7, <1>8, <1>9
  DEF Next, StartStep, LoopStep

\* Functors run in the order in which they were queued, none is lost and none
\* runs twice.
THEOREM FunctorsRunInOrder == Spec => []RunInOrder
  BY TypeInit, TypeStep, OrderInit, OrderStep, RunInit, RunStep, PTL DEF Spec
-----------------------------------------------------------------------------
(* Buffers.                                                                 *)
USE BufferAssumption

Strings == Seq(Byte)

LEMMA NewIsEmpty == Wellformed(NewBuffer) /\ Readable(NewBuffer) = <<>>
<1>1. NewBuffer.cells \in [0 .. NewBuffer.size - 1 -> Byte]
  BY DEF NewBuffer
<1>2. Wellformed(NewBuffer)
  BY <1>1 DEF NewBuffer, Wellformed
<1>3. Readable(NewBuffer) = <<>>
  BY DEF NewBuffer, Readable, Bytes, readableBytes
<1> QED BY <1>2, <1>3

LEMMA BytesType ==
  ASSUME NEW b, Wellformed(b), NEW i \in Nat, NEW n \in Nat, i + n <= b.size
  PROVE  /\ Bytes(b, i, n) \in Strings
         /\ Len(Bytes(b, i, n)) = n
         /\ \A k \in 1 .. n : Bytes(b, i, n)[k] = b.cells[i + k - 1]
  BY DEF Bytes, Strings, Wellformed

\* Sequences of bytes are equal when they agree in length and everywhere.
LEMMA SameBytes ==
  ASSUME NEW s \in Strings, NEW t \in Strings, Len(s) = Len(t),
         \A k \in 1 .. Len(s) : s[k] = t[k]
  PROVE  s = t
  BY SeqEqual DEF Strings

LEMMA CopyCells ==
  ASSUME NEW b, Wellformed(b), NEW i \in Nat, NEW s \in Strings
  PROVE  /\ Wellformed(Copy(b, i, s))
         /\ Copy(b, i, s).size = b.size /\ Copy(b, i, s).r = b.r /\ Copy(b, i, s).w = b.w
         /\ \A k \in 0 .. b.size - 1 :
              Copy(b, i, s).cells[k] = IF k >= i /\ k < i + Len(s) THEN s[k - i + 1] ELSE b.cells[k]
<1> DEFINE c == [k \in 0 .. b.size - 1 |->
                   IF k >= i /\ k < i + Len(s) THEN s[k - i + 1] ELSE b.cells[k]]
<1>1. c \in [0 .. b.size - 1 -> Byte]
  BY DEF Wellformed, Strings
<1>2. Copy(b, i, s) = [b EXCEPT !.cells = c]
  BY DEF Copy
<1>3. \A k \in 0 .. b.size - 1 :
        c[k] = IF k >= i /\ k < i + Len(s) THEN s[k - i + 1] ELSE b.cells[k]
  OBVIOUS
<1> HIDE DEF c
<1>4. /\ Copy(b, i, s) \in [cells : [0 .. b.size - 1 -> Byte], size : Nat, r : Nat, w : Nat]
      /\ Copy(b, i, s).size = b.size /\ Copy(b, i, s).r = b.r /\ Copy(b, i, s).w = b.w
      /\ Copy(b, i, s).cells = c
  BY <1>1, <1>2 DEF Wellformed
<1> QED
  BY <1>3, <1>4 DEF Wellformed

\* Moving the indices of a buffer.
LEMMA IndexedKeeps ==
  ASSUME NEW b, Wellformed(b), NEW x \in Nat, NEW y \in Nat, x <= y, y <= b.size
  PROVE  /\ Wellformed(Indexed(b, x, y))
         /\ Indexed(b, x, y).cells = b.cells /\ Indexed(b, x, y).size = b.size
         /\ Indexed(b, x, y).r = x /\ Indexed(b, x, y).w = y
  BY DEF Wellformed, Indexed

LEMMA IndexTypes ==
  ASSUME NEW b, Wellformed(b)
  PROVE  /\ b.r \in Nat /\ b.w \in Nat /\ b.size \in Nat /\ b.r <= b.w /\ b.w <= b.size
         /\ CheapPrepend <= b.size
  BY DEF Wellformed

LEMMA ReadableType ==
  ASSUME NEW b, Wellformed(b)
  PROVE  /\ Readable(b) \in Strings
         /\ Len(Readable(b)) = b.w - b.r
         /\ \A k \in 1 .. b.w - b.r : Readable(b)[k] = b.cells[b.r + k - 1]
  BY IndexTypes, BytesType DEF Readable, readableBytes

\* Writing where there is room adds the bytes behind the readable ones.
LEMMA WriteAdds ==
  ASSUME NEW b, Wellformed(b), NEW s \in Strings, Len(s) <= writableBytes(b)
  PROVE  /\ Wellformed(Write(b, s))
         /\ Readable(Write(b, s)) = Readable(b) \o s
         /\ Write(b, s).size = b.size /\ Write(b, s).r = b.r
         /\ Write(b, s).w = b.w + Len(s)
<1> DEFINE c == Copy(b, b.w, s)
           t == Write(b, s)
<1>0. /\ b.w \in Nat /\ b.r \in Nat /\ b.size \in Nat /\ b.r <= b.w /\ Len(s) \in Nat
      /\ b.w + Len(s) <= b.size
  BY IndexTypes, LenProperties DEF writableBytes, Strings
<1>1. /\ Wellformed(c) /\ c.size = b.size /\ c.r = b.r /\ c.w = b.w
      /\ \A k \in 0 .. b.size - 1 :
           c.cells[k] = IF k >= b.w /\ k < b.w + Len(s) THEN s[k - b.w + 1] ELSE b.cells[k]
  BY <1>0, CopyCells
<1>2. t = Indexed(c, b.r, b.w + Len(s))
  BY DEF Write
<1> HIDE DEF c
<1>3. /\ Wellformed(t) /\ t.size = b.size /\ t.r = b.r /\ t.w = b.w + Len(s)
      /\ t.cells = c.cells
  BY <1>0, <1>1, <1>2, IndexedKeeps
<1> HIDE DEF t
<1>4. /\ Readable(t) \in Strings
      /\ Len(Readable(t)) = t.w - t.r
      /\ \A k \in 1 .. t.w - t.r : Readable(t)[k] = t.cells[t.r + k - 1]
  BY <1>3, ReadableType
<1>5. /\ Readable(b) \in Strings
      /\ Len(Readable(b)) = b.w - b.r
      /\ \A k \in 1 .. b.w - b.r : Readable(b)[k] = b.cells[b.r + k - 1]
  BY ReadableType
<1>6. /\ Readable(b) \o s \in Strings
      /\ Len(Readable(b) \o s) = b.w - b.r + Len(s)
      /\ \A k \in 1 .. b.w - b.r + Len(s) :
           (Readable(b) \o s)[k] = IF k <= b.w - b.r THEN Readable(b)[k] ELSE s[k - (b.w - b.r)]
  <2> DEFINE q == Readable(b)
  <2>1. q \in Seq(Byte) /\ s \in Seq(Byte)
    BY <1>5 DEF Strings
  <2> HIDE DEF q
  <2>2. /\ q \o s \in Seq(Byte)
        /\ Len(q \o s) = Len(q) + Len(s)
        /\ \A i \in 1 .. Len(q) + Len(s) :
             (q \o s)[i] = IF i <= Len(q) THEN q[i] ELSE s[i - Len(q)]
    BY <2>1, ConcatProperties
  <2>3. Len(q) = b.w - b.r
    BY <1>5 DEF q
  <2>4. /\ q \o s \in Strings
        /\ Len(q \o s) = b.w - b.r + Len(s)
        /\ \A k \in 1 .. b.w - b.r + Len(s) :
             (q \o s)[k] = IF k <= b.w - b.r THEN q[k] ELSE s[k - (b.w - b.r)]
    BY <2>2, <2>3 DEF Strings
  <2> QED
    BY <2>4 DEF q
<1>7. ASSUME NEW k \in 1 .. b.w - b.r + Len(s) PROVE Readable(t)[k] = (Readable(b) \o s)[k]
  <2>1. /\ k \in Nat /\ 1 <= k
        /\ b.r + k - 1 \in 0 .. b.size - 1
        /\ k \in 1 .. t.w - t.r
    BY <1>0, <1>3, <1>7
  <2>2. Readable(t)[k] = c.cells[b.r + k - 1]
    BY <1>3, <1>4, <2>1
  <2>3. CASE k <= b.w - b.r
    <3>1. c.cells[b.r + k - 1] = b.cells[b.r + k - 1]
      BY <1>0, <1>1, <2>1, <2>3
    <3>2. k \in 1 .. b.w - b.r
      BY <1>0, <2>1, <2>3
    <3> QED BY <1>5, <1>6, <1>7, <2>2, <2>3, <3>1, <3>2
  <2>4. CASE ~(k <= b.w - b.r)
    <3> DEFINE j == b.r + k - 1
    <3>1. /\ j \in 0 .. b.size - 1 /\ j >= b.w /\ j < b.w + Len(s)
          /\ j - b.w + 1 = k - (b.w - b.r)
      <4>1. j \in 0 .. b.size - 1
        BY <2>1
      <4>2. j >= b.w
        BY <1>0, <2>1, <2>4
      <4>3. k <= b.w - b.r + Len(s)
        BY <1>0, <1>7
      <4>4. j < b.w + Len(s)
        BY <1>0, <2>1, <4>3
      <4>5. j - b.w + 1 = k - (b.w - b.r)
        BY <1>0, <2>1
      <4> QED BY <4>1, <4>2, <4>4, <4>5
    <3>2. Readable(t)[k] = c.cells[j]
      BY <2>2
    <3> HIDE DEF j
    <3>3. c.cells[j] = s[j - b.w + 1]
      BY <1>1, <3>1
    <3> QED BY <1>6, <1>7, <2>4, <3>1, <3>2, <3>3
  <2> QED BY <2>3, <2>4
<1>8. Len(Readable(t)) = b.w - b.r + Len(s)
  BY <1>0, <1>3, <1>4
<1>9. Readable(t) = Readable(b) \o s
  BY <1>4, <1>6, <1>7, <1>8, SameBytes
<1> QED
  BY <1>3, <1>9 DEF t

LEMMA ResizeKeeps ==
  ASSUME NEW b, Wellformed(b), NEW n \in Nat, b.size <= n
  PROVE  /\ Wellformed(Resize(b, n))
         /\ Resize(b, n).size = n /\ Resize(b, n).r = b.r /\ Resize(b, n).w = b.w
         /\ \A k \in 0 .. b.size - 1 : Resize(b, n).cells[k] = b.cells[k]
<1> DEFINE c == [k \in 0 .. n - 1 |-> IF k < b.size THEN b.cells[k] ELSE Zero]
<1>0. b.size \in Nat /\ b.w <= n
  BY IndexTypes
<1>1. c \in [0 .. n - 1 -> Byte] /\ \A k \in 0 .. b.size - 1 : c[k] = b.cells[k]
  BY <1>0 DEF Wellformed
<1>2. Resize(b, n) = [b EXCEPT !.size = n, !.cells = c]
  BY DEF Resize
<1> HIDE DEF c
<1>3. /\ Resize(b, n) \in [cells : [0 .. n - 1 -> Byte], size : Nat, r : Nat, w : Nat]
      /\ Resize(b, n).size = n /\ Resize(b, n).r = b.r /\ Resize(b, n).w = b.w
      /\ Resize(b, n).cells = c
  BY <1>1, <1>2 DEF Wellformed
<1> QED
  BY <1>0, <1>1, <1>3 DEF Wellformed

\* Making room keeps the bytes to read, and makes the room.
LEMMA SpaceIsMade ==
  ASSUME NEW b, Wellformed(b), NEW n \in Nat, writableBytes(b) < n
  PROVE  /\ Wellformed(makeSpace(b, n))
         /\ Readable(makeSpace(b, n)) = Readable(b)
         /\ n <= writableBytes(makeSpace(b, n))
         /\ makeSpace(b, n).size = b.size
            \/ makeSpace(b, n).size < CheapPrepend + readableBytes(b) + n + n
<1> DEFINE t == makeSpace(b, n)
<1>0. /\ b.w \in Nat /\ b.r \in Nat /\ b.size \in Nat /\ b.r <= b.w /\ b.w <= b.size
      /\ b.size - b.w < n
  BY IndexTypes DEF writableBytes
<1>1. CASE b.size - b.w + b.r < n + CheapPrepend
  <2>1. b.w + n \in Nat /\ b.size <= b.w + n
    BY <1>0
  <2>2. t = Resize(b, b.w + n)
    BY <1>1 DEF makeSpace, writableBytes, prependableBytes
  <2> HIDE DEF t
  <2>3. /\ Wellformed(t) /\ t.size = b.w + n /\ t.r = b.r /\ t.w = b.w
        /\ \A k \in 0 .. b.size - 1 : t.cells[k] = b.cells[k]
    BY <2>1, <2>2, ResizeKeeps
  <2>4. Readable(t) = Readable(b)
    <3>1. ASSUME NEW k \in 1 .. b.w - b.r PROVE t.cells[b.r + k - 1] = b.cells[b.r + k - 1]
      <4>1. b.r + k - 1 \in 0 .. b.size - 1
        BY <1>0
      <4> QED BY <2>3, <4>1
    <3> QED
      BY <2>3, <3>1 DEF Readable, Bytes, readableBytes
  <2> QED
    BY <1>0, <1>1, <2>3, <2>4 DEF t, writableBytes, readableBytes
<1>2. CASE ~(b.size - b.w + b.r < n + CheapPrepend)
  <2> DEFINE c == Copy(b, CheapPrepend, Readable(b))
             m == b.w - b.r
  <2>0. m \in Nat /\ CheapPrepend + m + n <= b.size
    BY <1>0, <1>2
  <2>1. Readable(b) \in Strings /\ Len(Readable(b)) = m
    BY ReadableType
  <2>2. /\ Wellformed(c) /\ c.size = b.size
        /\ \A k \in 0 .. b.size - 1 :
             c.cells[k] = IF k >= CheapPrepend /\ k < CheapPrepend + m
                          THEN Readable(b)[k - CheapPrepend + 1] ELSE b.cells[k]
    BY <2>1, CopyCells
  <2>3. t = Indexed(c, CheapPrepend, CheapPrepend + m)
    BY <1>2 DEF makeSpace, writableBytes, prependableBytes, readableBytes
  <2> HIDE DEF c, t, m
  <2>4. /\ Wellformed(t) /\ t.size = b.size /\ t.cells = c.cells
        /\ t.r = CheapPrepend /\ t.w = CheapPrepend + m
    <3>1. CheapPrepend + m \in Nat /\ CheapPrepend <= CheapPrepend + m /\ CheapPrepend + m <= c.size
      BY <1>0, <2>0, <2>2
    <3> QED
      BY <2>2, <2>3, <3>1, IndexedKeeps
  <2>5. Readable(t) = Readable(b)
    <3>1. ASSUME NEW k \in 1 .. m PROVE t.cells[CheapPrepend + k - 1] = Readable(b)[k]
      <4>1. /\ CheapPrepend + k - 1 \in 0 .. b.size - 1
            /\ CheapPrepend + k - 1 >= CheapPrepend
            /\ CheapPrepend + k - 1 < CheapPrepend + m
            /\ CheapPrepend + k - 1 - CheapPrepend + 1 = k
        BY <1>0, <2>0, <3>1
      <4> QED BY <2>2, <2>4, <4>1
    <3>2. Readable(t) \in Strings /\ Len(Readable(t)) = m
          /\ \A k \in 1 .. t.w - t.r : Readable(t)[k] = t.cells[t.r + k - 1]
      BY <2>0, <2>4, ReadableType
    <3>3. ASSUME NEW k \in 1 .. m PROVE Readable(t)[k] = Readable(b)[k]
      <4>1. k \in 1 .. t.w - t.r /\ t.r + k - 1 = CheapPrepend + k - 1
        BY <2>0, <2>4
      <4> QED BY <3>1, <3>2, <3>3, <4>1
    <3> QED
      BY <2>1, <3>2, <3>3, SameBytes
  <2> QED
    BY <1>0, <2>0, <2>4, <2>5 DEF t, writableBytes
<1> QED
  BY <1>1, <1>2

\* What every operation that adds bytes promises about the size.
Grown(b, t, n) == t.size = b.size \/ t.size < CheapPrepend + readableBytes(b) + n + n

LEMMA AppendAdds ==
  ASSUME NEW b, Wellformed(b), NEW s \in Strings
  PROVE  /\ Wellformed(append(b, s))
         /\ Readable(append(b, s)) = Readable(b) \o s
         /\ Grown(b, append(b, s), Len(s))
<1> DEFINE t == ensureWritableBytes(b, Len(s))
<1>0. Len(s) \in Nat /\ writableBytes(b) \in Int
  BY IndexTypes, LenProperties DEF Strings, writableBytes
<1>1. /\ Wellformed(t) /\ Readable(t) = Readable(b)
      /\ Len(s) <= writableBytes(t) /\ Grown(b, t, Len(s))
  <2>1. CASE writableBytes(b) < Len(s)
    BY <1>0, <2>1, SpaceIsMade DEF ensureWritableBytes, Grown
  <2>2. CASE ~(writableBytes(b) < Len(s))
    BY <1>0, <2>2 DEF ensureWritableBytes, Grown
  <2> QED BY <2>1, <2>2
<1>2. append(b, s) = Write(t, s)
  BY DEF append
<1> HIDE DEF t
<1> QED
  BY <1>1, <1>2, WriteAdds DEF Grown

LEMMA PrependAdds ==
  ASSUME NEW b, Wellformed(b), NEW s \in Strings, Len(s) <= prependableBytes(b)
  PROVE  /\ Wellformed(prepend(b, s))
         /\ Readable(prepend(b, s)) = s \o Readable(b)
         /\ prepend(b, s).size = b.size
<1> DEFINE i == b.r - Len(s)
           d == Indexed(b, i, b.w)
           t == prepend(b, s)
           m == b.w - b.r
<1>0. /\ b.w \in Nat /\ b.r \in Nat /\ b.size \in Nat /\ b.r <= b.w /\ b.w <= b.size
      /\ Len(s) \in Nat /\ i \in Nat /\ i <= b.w /\ m \in Nat /\ b.r = i + Len(s)
  BY IndexTypes, LenProperties DEF prependableBytes, Strings
<1>1. /\ Wellformed(d) /\ d.cells = b.cells /\ d.size = b.size /\ d.r = i /\ d.w = b.w
  BY <1>0, IndexedKeeps
<1>2. t = Copy(d, i, s)
  BY DEF prepend
<1> HIDE DEF d, i, t
<1>3. /\ Wellformed(t) /\ t.size = b.size /\ t.r = i /\ t.w = b.w
      /\ \A k \in 0 .. b.size - 1 :
           t.cells[k] = IF k >= i /\ k < i + Len(s) THEN s[k - i + 1] ELSE b.cells[k]
  <2>1. /\ Wellformed(t) /\ t.size = d.size /\ t.r = d.r /\ t.w = d.w
        /\ \A k \in 0 .. d.size - 1 :
             t.cells[k] = IF k >= i /\ k < i + Len(s) THEN s[k - i + 1] ELSE d.cells[k]
    <3>1. Wellformed(d) /\ i \in Nat
      BY <1>0, <1>1
    <3> QED BY <1>2, <3>1, CopyCells
  <2> QED BY <1>1, <2>1
<1>4. /\ Readable(t) \in Strings
      /\ Len(Readable(t)) = t.w - t.r
      /\ \A k \in 1 .. t.w - t.r : Readable(t)[k] = t.cells[t.r + k - 1]
  BY <1>3, ReadableType
<1>5. /\ Readable(b) \in Strings
      /\ Len(Readable(b)) = m
      /\ \A k \in 1 .. m : Readable(b)[k] = b.cells[b.r + k - 1]
  BY ReadableType
<1> HIDE DEF m
<1>6. /\ s \o Readable(b) \in Strings
      /\ Len(s \o Readable(b)) = Len(s) + m
      /\ \A k \in 1 .. Len(s) + m :
           (s \o Readable(b))[k] = IF k <= Len(s) THEN s[k] ELSE Readable(b)[k - Len(s)]
  <2> DEFINE q == Readable(b)
  <2>1. q \in Seq(Byte) /\ s \in Seq(Byte) /\ Len(q) = m
    BY <1>5 DEF Strings
  <2> HIDE DEF q
  <2>2. /\ s \o q \in Seq(Byte)
        /\ Len(s \o q) = Len(s) + Len(q)
        /\ \A k \in 1 .. Len(s) + Len(q) :
             (s \o q)[k] = IF k <= Len(s) THEN s[k] ELSE q[k - Len(s)]
    BY <2>1, ConcatProperties
  <2> QED
    BY <2>1, <2>2 DEF q, Strings
<1>7. t.w - t.r = Len(s) + m
  BY <1>0, <1>3 DEF m
<1>8. ASSUME NEW k \in 1 .. Len(s) + m PROVE Readable(t)[k] = (s \o Readable(b))[k]
  <2> DEFINE j == i + k - 1
  <2>1. /\ j \in 0 .. b.size - 1 /\ j >= i /\ k \in Nat
        /\ j < i + Len(s) <=> k <= Len(s)
        /\ j - i + 1 = k
        /\ k > Len(s) => k - Len(s) \in 1 .. m /\ j = b.r + (k - Len(s)) - 1
    BY <1>0, <1>8 DEF m
  <2>2. Readable(t)[k] = t.cells[j]
    BY <1>3, <1>4, <1>7, <1>8
  <2> HIDE DEF j
  <2>3. CASE k <= Len(s)
    BY <1>3, <1>6, <1>8, <2>1, <2>2, <2>3
  <2>4. CASE ~(k <= Len(s))
    <3>1. k - Len(s) \in 1 .. m /\ j = b.r + (k - Len(s)) - 1
      BY <1>0, <2>1, <2>4
    <3>2. Readable(t)[k] = b.cells[j]
      BY <1>3, <2>1, <2>2, <2>4
    <3> QED
      BY <1>5, <1>6, <1>8, <2>4, <3>1, <3>2
  <2> QED BY <2>3, <2>4
<1>9. Readable(t) = s \o Readable(b)
  BY <1>4, <1>6, <1>7, <1>8, SameBytes
<1> QED
  BY <1>3, <1>9 DEF t

LEMMA ReadFdAdds ==
  ASSUME NEW b, Wellformed(b), NEW s \in Strings
  PROVE  /\ Wellformed(readFd(b, s))
         /\ Readable(readFd(b, s)) = Readable(b) \o s
         /\ Grown(b, readFd(b, s), Len(s))
<1> DEFINE room == writableBytes(b)
<1>0. room \in Nat /\ Len(s) \in Nat
  BY IndexTypes, LenProperties DEF Strings, writableBytes
<1>1. CASE Len(s) <= room
  BY <1>1, WriteAdds DEF readFd, Grown
<1>2. CASE ~(Len(s) <= room)
  <2> DEFINE s1 == SubSeq(s, 1, room)
             s2 == SubSeq(s, room + 1, Len(s))
             t  == Write(b, s1)
  <2>1. /\ s1 \in Strings /\ Len(s1) = room
        /\ s2 \in Strings /\ Len(s2) = Len(s) - room
        /\ s1 \o s2 = s
    <3>1. \A k \in 1 .. room : s1[k] = s[k]
      BY <1>0, <1>2 DEF Strings
    <3>2. \A k \in 1 .. Len(s) - room : s2[k] = s[k + room]
      BY <1>0, <1>2 DEF Strings
    <3>3. s1 \in Strings /\ Len(s1) = room
      BY <1>0, <1>2 DEF Strings
    <3>4. s2 \in Strings /\ Len(s2) = Len(s) - room
      BY <1>0, <1>2 DEF Strings
    <3> HIDE DEF s1, s2, room
    <3>5. /\ s1 \o s2 \in Seq(Byte)
          /\ Len(s1 \o s2) = Len(s1) + Len(s2)
          /\ \A k \in 1 .. Len(s1) + Len(s2) :
               (s1 \o s2)[k] = IF k <= Len(s1) THEN s1[k] ELSE s2[k - Len(s1)]
      BY <3>3, <3>4, ConcatProperties DEF Strings
    <3>6. Len(s1 \o s2) = Len(s)
      BY <1>0, <3>3, <3>4, <3>5
    <3>7. ASSUME NEW k \in 1 .. Len(s1 \o s2) PROVE (s1 \o s2)[k] = s[k]
      <4>1. k \in Nat /\ k \in 1 .. Len(s1) + Len(s2)
        BY <1>0, <3>3, <3>4, <3>5, <3>7
      <4>2. CASE k <= room
        <5>1. k \in 1 .. room
          BY <1>0, <3>7, <4>1, <4>2
        <5> QED BY <3>1, <3>3, <3>5, <4>1, <4>2, <5>1
      <4>3. CASE ~(k <= room)
        <5>1. k - room \in 1 .. Len(s) - room /\ k - room + room = k
          BY <1>0, <3>6, <3>7, <4>1, <4>3
        <5> QED BY <3>2, <3>3, <3>5, <4>1, <4>3, <5>1
      <4> QED BY <4>2, <4>3
    <3>8. s1 \o s2 = s
      BY <3>5, <3>6, <3>7, SameBytes DEF Strings
    <3> QED BY <3>3, <3>4, <3>8
  <2>2. readFd(b, s) = append(t, s2)
    BY <1>2 DEF readFd
  <2> HIDE DEF s1, s2
  <2>3. /\ Wellformed(t) /\ Readable(t) = Readable(b) \o s1
        /\ t.size = b.size /\ t.r = b.r /\ t.w = b.w + Len(s1)
    <3>1. Len(s1) <= writableBytes(b)
      BY <1>0, <2>1
    <3> QED BY <2>1, <3>1, WriteAdds
  <2> HIDE DEF t
  <2>4. /\ Wellformed(append(t, s2))
        /\ Readable(append(t, s2)) = Readable(t) \o s2
        /\ Grown(t, append(t, s2), Len(s2))
    BY <2>1, <2>3, AppendAdds
  <2>5. (Readable(b) \o s1) \o s2 = Readable(b) \o s
    <3>1. Readable(b) \in Seq(Byte) /\ s1 \in Seq(Byte) /\ s2 \in Seq(Byte)
      BY <2>1, ReadableType DEF Strings
    <3>2. (Readable(b) \o s1) \o s2 = Readable(b) \o (s1 \o s2)
      BY <3>1, ConcatAssociative
    <3> QED BY <2>1, <3>2
  <2>6. append(t, s2).size \in Nat
    BY <2>4, IndexTypes
  <2>7. Grown(b, append(t, s2), Len(s))
    <3> DEFINE v == append(t, s2).size
               m == readableBytes(b)
    <3>1. m \in Int /\ v \in Nat /\ readableBytes(t) = m + room
      BY <1>0, <2>1, <2>3, <2>6, IndexTypes DEF readableBytes
    <3>2. v = b.size \/ v < CheapPrepend + (m + room) + Len(s2) + Len(s2)
      BY <2>3, <2>4, <3>1 DEF Grown
    <3> HIDE DEF v, m, room
    <3>3. v = b.size \/ v < CheapPrepend + m + Len(s) + Len(s)
      BY <1>0, <1>2, <2>1, <3>1, <3>2
    <3> QED BY <3>3 DEF Grown, v, m
  <2> QED
    BY <2>2, <2>3, <2>4, <2>5, <2>7
<1> QED
  BY <1>1, <1>2

\* Taking bytes from the front.
LEMMA RetrieveTakes ==
  ASSUME NEW b, Wellformed(b), NEW n \in 0 .. readableBytes(b)
  PROVE  /\ Wellformed(retrieve(b, n)) /\ retrieve(b, n).size = b.size
         /\ Bytes(b, b.r, n) \in Strings
         /\ Readable(b) = Bytes(b, b.r, n) \o Readable(retrieve(b, n))
         /\ readableBytes(retrieve(b, n)) = readableBytes(b) - n
<1> DEFINE t == retrieve(b, n)
           q == Bytes(b, b.r, n)
           m == b.w - b.r
<1>0. /\ b.w \in Nat /\ b.r \in Nat /\ b.size \in Nat /\ b.r <= b.w /\ b.w <= b.size
      /\ n \in Nat /\ n <= m /\ m \in Nat /\ b.r + n \in Nat /\ b.r + n <= b.w
      /\ b.r + n <= b.size
  BY IndexTypes DEF readableBytes
<1>1. /\ Wellformed(t) /\ t.cells = b.cells /\ t.size = b.size /\ t.r = b.r + n /\ t.w = b.w
  BY <1>0, IndexedKeeps DEF retrieve
<1> HIDE DEF t
<1>2. /\ Readable(t) \in Strings
      /\ Len(Readable(t)) = t.w - t.r
      /\ \A k \in 1 .. t.w - t.r : Readable(t)[k] = t.cells[t.r + k - 1]
  BY <1>1, ReadableType
<1>3. /\ Readable(b) \in Strings
      /\ Len(Readable(b)) = m
      /\ \A k \in 1 .. m : Readable(b)[k] = b.cells[b.r + k - 1]
  BY ReadableType
<1>4. /\ q \in Strings
      /\ Len(q) = n
      /\ \A k \in 1 .. n : q[k] = b.cells[b.r + k - 1]
  <2>1. b.r \in Nat /\ n \in Nat /\ b.r + n <= b.size
    BY <1>0
  <2> QED BY <2>1, BytesType
<1>5. t.w - t.r = m - n
  BY <1>0, <1>1
<1> HIDE DEF q, m
<1>6. /\ q \o Readable(t) \in Strings
      /\ Len(q \o Readable(t)) = m
      /\ \A k \in 1 .. m :
           (q \o Readable(t))[k] = IF k <= n THEN q[k] ELSE Readable(t)[k - n]
  <2> DEFINE u == Readable(t)
  <2>1. u \in Seq(Byte) /\ q \in Seq(Byte) /\ Len(u) = m - n
    BY <1>2, <1>4, <1>5 DEF Strings
  <2> HIDE DEF u
  <2>2. /\ q \o u \in Seq(Byte)
        /\ Len(q \o u) = Len(q) + Len(u)
        /\ \A k \in 1 .. Len(q) + Len(u) :
             (q \o u)[k] = IF k <= Len(q) THEN q[k] ELSE u[k - Len(q)]
    BY <2>1, ConcatProperties
  <2>3. Len(q) + Len(u) = m
    BY <1>0, <1>4, <2>1
  <2> QED
    BY <1>4, <2>2, <2>3 DEF u, Strings
<1>7. ASSUME NEW k \in 1 .. m PROVE Readable(b)[k] = (q \o Readable(t))[k]
  <2>1. CASE k <= n
    <3>1. k \in 1 .. n
      BY <1>0, <1>7, <2>1
    <3> QED BY <1>3, <1>4, <1>6, <1>7, <2>1, <3>1
  <2>2. CASE ~(k <= n)
    <3>1. k - n \in 1 .. t.w - t.r /\ t.r + (k - n) - 1 = b.r + k - 1
      BY <1>0, <1>1, <1>5, <1>7, <2>2
    <3> QED BY <1>1, <1>2, <1>3, <1>6, <1>7, <2>2, <3>1
  <2> QED BY <2>1, <2>2
<1>8. Readable(b) = q \o Readable(t)
  BY <1>3, <1>6, <1>7, SameBytes
<1> QED
  BY <1>1, <1>4, <1>5, <1>8 DEF t, q, m, readableBytes

-----------------------------------------------------------------------------
(* The inductive invariant.  GrowthIsBounded is not inductive without the   *)
(* bound on what the callers leave unread.                                  *)
IInv == IndicesInOrder /\ readableBytes(buf) <= MaxReadable /\ GrowthIsBounded

LEMMA ChunksAreStrings == ASSUME NEW s \in Chunks PROVE s \in Strings
  BY DEF Chunks, Strings

\* What one call does, in terms of the bytes to read.
LEMMA CallEffect ==
  ASSUME IndicesInOrder, BufferNext
  PROVE  /\ IndicesInOrder'
         /\ Queue!Next
         /\ \/ /\ buf'.size = buf.size /\ readableBytes(buf)' <= readableBytes(buf)
            \/ \E s \in Chunks : /\ Fits(s)
                                 /\ readableBytes(buf)' = readableBytes(buf) + Len(s)
                                 /\ Grown(buf, buf', Len(s))
<1> USE DEF IndicesInOrder
<1>1. ASSUME NEW s \in Chunks, AppendBytes(s) \/ ReadFd(s) \/ Prepend(s)
      PROVE  /\ Wellformed(buf') /\ Queue!Next /\ Fits(s)
             /\ readableBytes(buf)' = readableBytes(buf) + Len(s)
             /\ Grown(buf, buf', Len(s))
  <2>0. s \in Strings /\ Len(s) \in Nat
    BY ChunksAreStrings, LenProperties DEF Strings
  <2>1. /\ Wellformed(buf') /\ Fits(s) /\ Grown(buf, buf', Len(s))
        /\ last'.bytes = s
        /\ \/ last'.op = "add" /\ Readable(buf)' = Readable(buf) \o s
           \/ last'.op = "before" /\ Readable(buf)' = s \o Readable(buf)
    <3>1. CASE AppendBytes(s)
      BY <2>0, <3>1, AppendAdds DEF AppendBytes, Called
    <3>2. CASE ReadFd(s)
      BY <2>0, <3>2, ReadFdAdds DEF ReadFd, Called
    <3>3. CASE Prepend(s)
      BY <2>0, <3>3, PrependAdds DEF Prepend, Called, Grown
    <3> QED BY <1>1, <3>1, <3>2, <3>3
  <2>2. Queue!Next
    BY <2>0, <2>1 DEF Queue!Next, Queue!Add, Queue!Before, Strings
  <2>3. Len(Readable(buf')) = Len(Readable(buf)) + Len(s)
    <3>1. Readable(buf) \in Seq(Byte) /\ s \in Seq(Byte)
      BY <2>0, ReadableType DEF Strings
    <3>2. /\ Len(Readable(buf) \o s) = Len(Readable(buf)) + Len(s)
          /\ Len(s \o Readable(buf)) = Len(s) + Len(Readable(buf))
      BY <3>1, ConcatProperties
    <3>3. Len(Readable(buf)) \in Nat
      BY <3>1, LenProperties
    <3> QED BY <2>0, <2>1, <3>2, <3>3
  <2> QED
    BY <2>1, <2>2, <2>3, ReadableType DEF readableBytes
<1>2. ASSUME NEW n \in 0 .. readableBytes(buf), buf' = retrieve(buf, n),
             Called("drop", Bytes(buf, buf.r, n)) \/ Called("take", Bytes(buf, buf.r, n))
      PROVE  /\ Wellformed(buf') /\ Queue!Next
             /\ buf'.size = buf.size /\ readableBytes(buf)' <= readableBytes(buf)
  <2>1. /\ Wellformed(buf') /\ buf'.size = buf.size
        /\ Bytes(buf, buf.r, n) \in Strings
        /\ Readable(buf) = Bytes(buf, buf.r, n) \o Readable(buf')
        /\ readableBytes(buf') = readableBytes(buf) - n
    BY <1>2, RetrieveTakes
  <2>2. last'.bytes = Bytes(buf, buf.r, n) /\ last'.op \in {"take", "drop"}
    BY <1>2 DEF Called
  <2>3. Queue!Next
    BY <2>1, <2>2 DEF Queue!Next, Queue!Take, Strings
  <2>4. readableBytes(buf) \in Nat
    BY IndexTypes DEF readableBytes
  <2> QED
    BY <1>2, <2>1, <2>3, <2>4
<1>3. ASSUME buf' = retrieveAll(buf),
             Called("drop", Readable(buf)) \/ Called("take", Readable(buf))
      PROVE  /\ Wellformed(buf') /\ Queue!Next
             /\ buf'.size = buf.size /\ readableBytes(buf)' <= readableBytes(buf)
  <2>1. /\ Wellformed(buf') /\ buf'.size = buf.size
        /\ buf'.r = CheapPrepend /\ buf'.w = CheapPrepend
    BY <1>3, IndexTypes, IndexedKeeps DEF retrieveAll
  <2>2. Readable(buf') = <<>>
    BY <2>1 DEF Readable, Bytes, readableBytes
  <2>3. Readable(buf) \in Strings /\ readableBytes(buf) \in Nat
    BY IndexTypes, ReadableType DEF readableBytes
  <2>4. Readable(buf) = Readable(buf) \o Readable(buf')
    BY <2>2, <2>3, ConcatEmptySeq DEF Strings
  <2>5. last'.bytes = Readable(buf) /\ last'.op \in {"take", "drop"}
    BY <1>3 DEF Called
  <2>6. Queue!Next
    BY <2>3, <2>4, <2>5 DEF Queue!Next, Queue!Take, Strings
  <2> QED
    BY <2>1, <2>3, <2>6 DEF readableBytes
<1> QED
  BY <1>1, <1>2, <1>3 DEF BufferNext, Retrieve, RetrieveAll, ReadAsBlock, ReadAsString

LEMMA InvInit == BufferInit => IInv
<1> SUFFICES ASSUME BufferInit PROVE IInv
  OBVIOUS
<1>1. Wellformed(buf)
  BY NewIsEmpty DEF BufferInit
<1>2. buf.size = CheapPrepend + InitialSize /\ buf.w = CheapPrepend /\ buf.r = CheapPrepend
  BY DEF BufferInit, NewBuffer
<1> QED
  BY <1>1, <1>2 DEF IInv, IndicesInOrder, GrowthIsBounded, readableBytes

LEMMA InvStep == IInv /\ [BufferNext]_bufferVars => IInv'
<1>1. ASSUME IInv, BufferNext PROVE IInv'
  <2>1. /\ IndicesInOrder'
        /\ \/ /\ buf'.size = buf.size /\ readableBytes(buf)' <= readableBytes(buf)
           \/ \E s \in Chunks : /\ Fits(s)
                                /\ readableBytes(buf)' = readableBytes(buf) + Len(s)
                                /\ Grown(buf, buf', Len(s))
    BY <1>1, CallEffect DEF IInv
  <2>2. readableBytes(buf) \in Nat /\ readableBytes(buf)' \in Nat /\ buf.size \in Nat /\ buf'.size \in Nat
    BY <1>1, <2>1, IndexTypes DEF IInv, IndicesInOrder, readableBytes
  <2>3. CASE buf'.size = buf.size /\ readableBytes(buf)' <= readableBytes(buf)
    BY <1>1, <2>1, <2>2, <2>3 DEF IInv, GrowthIsBounded
  <2>4. ASSUME NEW s \in Chunks, Fits(s),
               readableBytes(buf)' = readableBytes(buf) + Len(s),
               Grown(buf, buf', Len(s))
        PROVE  IInv'
    <3>1. Len(s) \in Nat
      BY ChunksAreStrings, LenProperties DEF Strings
    <3>2. readableBytes(buf)' <= MaxReadable
      BY <2>4 DEF Fits
    <3>3. buf'.size = buf.size \/ buf'.size < CheapPrepend + 2 * MaxReadable
      BY <2>2, <2>4, <3>1 DEF Fits, Grown
    <3> QED
      BY <1>1, <2>1, <2>2, <3>2, <3>3 DEF IInv, GrowthIsBounded
  <2> QED
    BY <2>1, <2>3, <2>4
<1>2. ASSUME IInv, UNCHANGED bufferVars PROVE IInv'
  BY <1>2 DEF bufferVars, IInv, IndicesInOrder, GrowthIsBounded, readableBytes, Wellformed
<1> QED
  BY <1>1, <1>2

(* The indices of a buffer are in order and inside its vector, whatever its *)
(* callers do within their contract.                                        *)
THEOREM BufferIndices == BufferSpec => []IndicesInOrder
<1> QED
  BY InvInit, InvStep, PTL DEF BufferSpec, IInv

(* A buffer whose callers never leave more than MaxReadable bytes unread    *)
(* does not grow beyond twice that, however many bytes pass through it.     *)
THEOREM BufferGrowth == BufferSpec => []GrowthIsBounded
<1> QED
  BY InvInit, InvStep, PTL DEF BufferSpec, IInv

(* A buffer is a queue of bytes: what is read is what was added, in order   *)
(* and complete, across every growth and every move of the readable bytes.  *)
THEOREM BufferIsQueue == BufferSpec => ImplementsQueue
<1>1. BufferInit => Queue!Init
  BY NewIsEmpty DEF BufferInit, Queue!Init
<1>2. IInv /\ [BufferNext]_bufferVars => [Queue!Next]_<<Readable(buf), last>>
  <2>1. ASSUME IInv, BufferNext PROVE Queue!Next
    BY <2>1, CallEffect DEF IInv
  <2>2. ASSUME UNCHANGED bufferVars PROVE UNCHANGED <<Readable(buf), last>>
    BY <2>2 DEF bufferVars, Readable, Bytes, readableBytes
  <2> QED
    BY <2>1, <2>2
<1> QED
  BY <1>1, <1>2, InvInit, InvStep, PTL DEF BufferSpec, ImplementsQueue, Queue!Spec
=============================================================================

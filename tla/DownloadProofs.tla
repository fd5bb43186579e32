--------------------------- MODULE DownloadProofs ---------------------------
(***************************************************************************)
(* The properties of the C++ download, for any number of servers, names    *)
(* and blocks, in three steps.  Inv: servers 1 and 2 lost the boundaries,  *)
(* so they send nothing, and their threads never read a frame.  DInv: what *)
(* travels is of its type, the first word decides what server 0 is for,    *)
(* and it answers the "down ack" and then frames.  AInv: the stages of a   *)
(* download that is alone.                                                 *)
(***************************************************************************)
EXTENDS Download, FiniteSetTheorems, NaturalsInduction, SequenceTheorems, TLAPS

Deaf(d) == [phase |-> "lost", buf |-> <<>>, dirs |-> d, out |-> <<>>]

Silent(s) == /\ \E d : srv[s] = Deaf(d)
             /\ reply[s] = <<>>
             /\ thr[s].appends = FALSE

Inv ==
  /\ DOMAIN srv = Servers /\ DOMAIN reply = Servers /\ DOMAIN thr = Servers
  /\ \A s \in Servers : DOMAIN thr[s] = {"status", "lost", "read", "appends"}
  /\ \A s \in Servers \ {0} : Silent(s)

(* Servers 1 and 2 start without a program for what they are sent.          *)
LEMMA InitInv == Init => Inv
<1> SUFFICES ASSUME Init
             PROVE  Inv
  OBVIOUS
<1>1. PICK d : srv = [s \in Servers |-> Connected(s, d)]
  BY DEF Init
<1>2. \A s \in Servers \ {0} : srv[s] = Deaf(d)
  BY <1>1 DEF Deaf, Connected, MainOfServer, Sync
<1> QED
  BY <1>1, <1>2 DEF Init, Inv, Silent

(* No step of a client or of the proxy's loop changes a server, what it     *)
(* sends, or a thread.                                                      *)
LEMMA ClientKeeps ==
  ASSUME Inv, NEW c \in Clients, Start(c) \/ Read(c) \/ Write(c) \/ Kill(c) \/ Gone(c)
  PROVE  Inv'
<1>1. UNCHANGED <<srv, reply, thr>>
  BY DEF Start, Read, Write, Kill, Gone
<1> QED
  BY <1>1 DEF Inv, Silent

(* A thread only takes away from what its server sends, and appends only    *)
(* after it has read.                                                       *)
LEMMA ThreadKeeps ==
  ASSUME Inv, NEW s \in Servers, Thread(s)
  PROVE  Inv'
<1>1. CASE senddownload(s)
  <2>1. thr' = [thr EXCEPT ![s].status = 2] /\ UNCHANGED <<srv, reply>>
    BY <1>1 DEF senddownload
  <2>2. \A t \in Servers : thr'[t].appends = thr[t].appends /\ DOMAIN thr'[t] = DOMAIN thr[t]
    BY <2>1 DEF Inv
  <2> QED
    BY <2>1, <2>2 DEF Inv, Silent
<1>2. CASE sendFileName(s)
  <2>1. /\ reply[s] # <<>>
        /\ thr' = [thr EXCEPT ![s].status = 3]
        /\ reply' = [reply EXCEPT ![s] = Tail(@)] /\ UNCHANGED srv
    BY <1>2 DEF sendFileName
  <2>2. s = 0
    BY <2>1 DEF Inv, Silent
  <2>3. \A t \in Servers : thr'[t].appends = thr[t].appends /\ DOMAIN thr'[t] = DOMAIN thr[t]
    BY <2>1 DEF Inv
  <2> QED
    BY <2>1, <2>2, <2>3 DEF Inv, Silent
<1>3. CASE resvBlockFile(s)
  <2>1. PICK k \in 1 .. Len(reply[s]) :
          /\ reply' = [reply EXCEPT ![s] = SubSeq(@, k + 1, Len(@))]
          /\ \E l, n, a : thr' = [thr EXCEPT ![s].lost = l, ![s].read = n, ![s].appends = a]
    <3> DEFINE frames(k) == SubSeq(reply[s], 1, k)
               good(k) == IF thr[s].lost \/ Wanted \notin FileMap THEN <<>> ELSE Verified(Whole(frames(k)))
               l(k) == thr[s].lost \/ Whole(frames(k)) # frames(k)
               a(k) == thr[s].appends \/ good(k) # <<>>
    <3>1. PICK k \in 1 .. Len(reply[s]) :
            /\ reply' = [reply EXCEPT ![s] = SubSeq(@, k + 1, Len(@))]
            /\ thr' = [thr EXCEPT ![s].lost = l(k), ![s].read = @ + k, ![s].appends = a(k)]
      BY <1>3, Zenon DEF resvBlockFile
    <3>2. thr' = [thr EXCEPT ![s].lost = l(k), ![s].read = thr[s].read + k, ![s].appends = a(k)]
      <4> HIDE DEF l, a
      <4> QED
        BY <3>1 DEF Inv
    <3>3. reply' = [reply EXCEPT ![s] = SubSeq(reply[s], k + 1, Len(reply[s]))]
      BY <3>1
    <3> DEFINE n == thr[s].read + k
    <3> HIDE DEF l, a, n
    <3> QED
      BY <3>2, <3>3 DEF n
  <2>2. reply[s] # <<>>
    BY <2>1
  <2>3. s = 0
    BY <2>2 DEF Inv, Silent
  <2>4. \A t \in Servers : DOMAIN thr'[t] = DOMAIN thr[t] /\ (t # 0 => thr'[t] = thr[t])
    BY <2>1, <2>3 DEF Inv
  <2> QED
    <3>1. UNCHANGED srv
      BY <1>3 DEF resvBlockFile
    <3> QED
      BY <2>1, <2>3, <2>4, <3>1 DEF Inv, Silent
<1> QED
  BY <1>1, <1>2, <1>3 DEF Thread

(* A server that lost the boundaries reads, and does nothing else.          *)
LEMMA ServerKeeps ==
  ASSUME Inv, NEW s \in Servers, ServerReads(s)
  PROVE  Inv'
<1>1. /\ UNCHANGED thr /\ DOMAIN srv' = Servers /\ DOMAIN reply' = Servers
      /\ \A t \in Servers \ {s} : srv'[t] = srv[t] /\ reply'[t] = reply[t]
  BY DEF ServerReads, Inv
<1>2. ASSUME s # 0
      PROVE  Silent(s)'
  <2>1. PICK d : srv[s] = Deaf(d)
    BY <1>2 DEF Inv, Silent
  <2> DEFINE x == [srv[s] EXCEPT !.buf = <<>>]
  <2>2. x = Deaf(d) /\ x.phase = "lost"
    BY <2>1 DEF Deaf
  <2>3. PICK y \in {x} : /\ srv' = [srv EXCEPT ![s] = [y EXCEPT !.out = <<>>]]
                         /\ reply' = [reply EXCEPT ![s] = @ \o y.out]
    <3> DEFINE units(k) == srv[s].buf \o SubSeq(link[s], 1, k)
               after(k) == CASE x.phase = "sw"   -> {[switch(x, Head(units(k))) EXCEPT !.buf = Tail(units(k))]}
                             [] x.phase = "down" -> downLoad(x, units(k))
                             [] OTHER            -> {x}
    <3>1. PICK k \in 1 .. Len(link[s]) : \E y \in after(k) :
            /\ srv' = [srv EXCEPT ![s] = [y EXCEPT !.out = <<>>]]
            /\ reply' = [reply EXCEPT ![s] = @ \o y.out]
      BY Zenon DEF ServerReads
    <3>2. after(k) = {x}
      <4> HIDE DEF x
      <4> QED
        BY <2>2
    <3> QED
      BY <3>1, <3>2
  <2>4. [y EXCEPT !.out = <<>>] = Deaf(d) /\ y.out = <<>>
    BY <2>2, <2>3 DEF Deaf
  <2>5. srv'[s] = Deaf(d)
    <3> HIDE DEF x
    <3> QED
      BY <2>3, <2>4 DEF Inv
  <2>6. reply'[s] = reply[s] \o y.out
    <3> HIDE DEF x
    <3> QED
      BY <2>3 DEF Inv
  <2>7. reply[s] = <<>>
    BY <1>2 DEF Inv, Silent
  <2>8. reply'[s] = <<>>
    BY <2>4, <2>6, <2>7
  <2> QED
    BY <2>5, <2>8, <1>1, <1>2 DEF Inv, Silent
<1> QED
  BY <1>1, <1>2 DEF Inv, Silent

(* Every step keeps the silence of servers 1 and 2.                         *)
LEMMA NextInv == Inv /\ [Next]_vars => Inv'
<1> SUFFICES ASSUME Inv, [Next]_vars
             PROVE  Inv'
  OBVIOUS
<1>1. CASE \E c \in Clients : Start(c) \/ Read(c) \/ Write(c) \/ Kill(c) \/ Gone(c)
  BY <1>1, ClientKeeps
<1>2. CASE \E s \in Servers : Thread(s)
  BY <1>2, ThreadKeeps
<1>3. CASE \E s \in Servers : ServerReads(s)
  BY <1>3, ServerKeeps
<1>4. CASE UNCHANGED vars
  BY <1>4 DEF vars, Inv, Silent
<1> QED
  BY <1>1, <1>2, <1>3, <1>4 DEF Next

(* No two download threads append to Bloc, the buffer they share without a  *)
(* lock, whatever uploads do in between and in whatever pieces words, names *)
(* and frames are read.                                                     *)
THEOREM BlocHasOneUser == Spec => []OneThreadAppends
<1>1. Inv => OneThreadAppends
  BY DEF Inv, Silent, OneThreadAppends
<1> QED
  BY <1>1, InitInv, NextInv, PTL DEF Spec

-----------------------------------------------------------------------------
(* Folds.  FoldLeft is a function on the subsets of a domain that calls     *)
(* itself: there is one, and it does what a loop does.                      *)

(* A set of naturals that is not empty has a least element.                 *)
LEMMA Below ==
  ASSUME NEW S \in SUBSET Nat, S # {}
  PROVE  \E m \in S : \A k \in S : m <= k
<1> DEFINE R == OpToRel(<, Nat)
<1>1. IsWellFoundedOn(R, Nat)
  BY NatLessThanWellFounded
<1>2. \A x, y \in Nat : <<x, y>> \in R <=> x < y
  BY DEF OpToRel
<1> HIDE DEF R
<1>3. PICK m \in S : \A y \in S : ~(<<y, m>> \in R)
  BY <1>1, WFMin
<1>4. ASSUME NEW y \in S PROVE m <= y
  <2>1. m \in Nat /\ y \in Nat /\ ~(<<y, m>> \in R)
    BY <1>3
  <2> QED BY <1>2, <2>1
<1> QED BY <1>4

(* What holds before a loop, and after a pass when it held before, holds    *)
(* all along.                                                               *)
LEMMA AllPasses ==
  ASSUME NEW n \in Nat, NEW S, NEW f, f[0] \in S, \A k \in 1 .. n : f[k - 1] \in S => f[k] \in S
  PROVE  \A k \in 0 .. n : f[k] \in S
<1> SUFFICES ASSUME NEW b \in 0 .. n, f[b] \notin S PROVE FALSE
  OBVIOUS
<1> DEFINE B == {k \in 0 .. n : f[k] \notin S}
<1>0. B \in SUBSET Nat /\ B # {}
  OBVIOUS
<1>1. PICK m \in B : \A k \in B : m <= k
  <2> HIDE DEF B
  <2> QED BY <1>0, Below
<1>2. m \in 1 .. n /\ f[m] \notin S /\ m - 1 \in 0 .. n
  BY <1>1
<1>3. m - 1 \notin B
  BY <1>1, <1>2
<1> QED BY <1>2, <1>3

(* The Max of the community modules, a CHOOSE, exists in sets of numbers up *)
(* to n.                                                                    *)
LEMMA MaxOfNumbers ==
  ASSUME NEW n \in Nat, NEW s \in SUBSET (1 .. n), s # {}
  PROVE  Max(s) \in s /\ \A y \in s : Max(s) >= y
<1> DEFINE B == {n - y : y \in s}
<1>1. B \in SUBSET Nat /\ B # {}
  <2>1. PICK y \in s : TRUE
    OBVIOUS
  <2>2. n - y \in B
    BY <2>1
  <2>3. \A z \in s : n - z \in Nat
    OBVIOUS
  <2> QED BY <2>2, <2>3
<1>2. PICK m \in B : \A k \in B : m <= k
  <2> HIDE DEF B
  <2> QED BY <1>1, Below
<1>3. PICK x \in s : m = n - x
  BY <1>2
<1>4. \A y \in s : x >= y
  <2> SUFFICES ASSUME NEW y \in s PROVE x >= y
    OBVIOUS
  <2>1. n - x <= n - y
    BY <1>2, <1>3
  <2> QED BY <2>1
<1> QED BY <1>4 DEF Max

(* The step in which the folds of the community modules take the last       *)
(* element.                                                                 *)
LEMMA MaxOfPrefix ==
  ASSUME NEW n \in Nat, NEW k \in 1 .. n
  PROVE  1 .. k \in SUBSET (1 .. n) /\ 1 .. k # {} /\ Max(1 .. k) = k /\ (1 .. k) \ {k} = 1 .. (k - 1)
<1>1. 1 .. k \in SUBSET (1 .. n) /\ k \in 1 .. k
  OBVIOUS
<1>2. Max(1 .. k) \in 1 .. k /\ Max(1 .. k) >= k
  BY <1>1, MaxOfNumbers
<1> QED BY <1>1, <1>2

(* it maps the sets of indices to what a loop over them makes of b, and G   *)
(* makes one pass of it.                                                    *)
IsFold(n, b, G, it) ==
  /\ it[{}] = b
  /\ \A s \in SUBSET (1 .. n) : s # {} => it[s] = G[<<Max(s), it[s \ {Max(s)}]>>]

(* Such a function exists.                                                  *)
LEMMA Iterates ==
  ASSUME NEW n \in Nat, NEW S, NEW b \in S, NEW G \in [(1 .. n) \X S -> S]
  PROVE  \E it \in [SUBSET (1 .. n) -> S] : IsFold(n, b, G, it)
<1> DEFINE Iter(m, it) == IsFold(m, b, G, it)
           B == {m \in 0 .. n : ~\E it \in [SUBSET (1 .. m) -> S] : Iter(m, it)}
<1> SUFFICES ASSUME ~\E it \in [SUBSET (1 .. n) -> S] : Iter(n, it) PROVE FALSE
  BY Zenon
<1>0. n \in B
  <2>1. n \in 0 .. n
    OBVIOUS
  <2> QED BY <2>1, Zenon
<1>1. PICK m \in B : \A k \in B : m <= k
  <2>1. B \in SUBSET Nat
    <3>1. \A m : m \in B => m \in 0 .. n
      BY Zenon
    <3> HIDE DEF B
    <3> QED BY <3>1
  <2> HIDE DEF B
  <2> QED BY <1>0, <2>1, Below
<1>2. m \in 0 .. n /\ ~\E it \in [SUBSET (1 .. m) -> S] : Iter(m, it)
  BY <1>1
<1>3. CASE m = 0
  <2> DEFINE it == [s \in SUBSET (1 .. m) |-> b]
  <2>1. SUBSET (1 .. m) = {{}}
    BY <1>3
  <2>2. it \in [SUBSET (1 .. m) -> S] /\ Iter(m, it)
    BY <2>1 DEF IsFold
  <2> QED BY <1>2, <2>2
<1>4. CASE m # 0
  <2>0. m \in 1 .. n /\ m - 1 \in 0 .. n
    BY <1>2, <1>4
  <2>1. PICK it \in [SUBSET (1 .. m - 1) -> S] : Iter(m - 1, it)
    <3>1. m - 1 \notin B
      <4> HIDE DEF B
      <4> QED BY <1>1, <2>0
    <3> QED BY <2>0, <3>1
  <2> DEFINE on == [s \in SUBSET (1 .. m) |-> IF m \in s THEN G[<<m, it[s \ {m}]>>] ELSE it[s]]
  <2>2. \A s \in SUBSET (1 .. m) : IF m \in s THEN s \ {m} \in SUBSET (1 .. m - 1) ELSE s \in SUBSET (1 .. m - 1)
    BY <2>0
  <2> HIDE DEF Iter, IsFold
  <2>3. on \in [SUBSET (1 .. m) -> S]
    BY <2>0, <2>2
  <2>4. ASSUME NEW s \in SUBSET (1 .. m), s # {}
        PROVE  on[s] = G[<<Max(s), on[s \ {Max(s)}]>>]
    <3>1. Max(s) \in s /\ \A y \in s : Max(s) >= y
      <4>1. m \in Nat
        BY <2>0
      <4> HIDE DEF on, B
      <4> QED BY <2>4, <4>1, MaxOfNumbers
    <3>2. CASE m \in s
      <4>1. Max(s) = m
        <5>1. Max(s) \in 1 .. m /\ Max(s) >= m
          BY <3>1, <3>2
        <5> QED BY <2>0, <5>1
      <4>2. on[s \ {m}] = it[s \ {m}]
        BY <2>2
      <4> QED BY <3>2, <4>1, <4>2
    <3>3. CASE m \notin s
      <4>1. s \in SUBSET (1 .. m - 1) /\ on[s] = it[s]
        BY <2>2, <3>3
      <4>2. it[s] = G[<<Max(s), it[s \ {Max(s)}]>>]
        BY <2>1, <2>4, <4>1 DEF Iter, IsFold
      <4>3. on[s \ {Max(s)}] = it[s \ {Max(s)}]
        BY <3>3
      <4> QED BY <4>1, <4>2, <4>3
    <3> QED BY <3>2, <3>3
  <2>5. on[{}] = b
    <3>1. it[{}] = b
      BY <2>1 DEF Iter, IsFold
    <3> QED BY <3>1
  <2>6. Iter(m, on)
    <3> HIDE DEF on
    <3> QED BY <2>4, <2>5 DEF Iter, IsFold
  <2> QED BY <1>2, <2>3, <2>6
<1> QED BY <1>3, <1>4

(* What every pass of a loop keeps, the loop keeps: that of initFileNumber. *)
LEMMA LoopOfHeaders ==
  ASSUME NEW n \in Nat, NEW q, DOMAIN q = 1 .. n, NEW S, NEW b \in S,
         \A k \in 1 .. n, h \in S : initFileNumber(h, q[k]) \in S
  PROVE  FoldLeft(initFileNumber, b, q) \in S
<1> DEFINE Iter(it) == it = [s \in SUBSET DOMAIN q |-> IF s = {} THEN b
                                                      ELSE initFileNumber(it[s \ {Max(s)}], q[Max(s)])]
           iter == CHOOSE it : Iter(it)
           G == [x \in (1 .. n) \X S |-> initFileNumber(x[2], q[x[1]])]
<1>1. FoldLeft(initFileNumber, b, q) = iter[1 .. n]
  BY DEF FoldLeft, MapThenFoldSet
<1>2. G \in [(1 .. n) \X S -> S] /\ \A k \in 1 .. n, h \in S : G[<<k, h>>] = initFileNumber(h, q[k])
  OBVIOUS
<1> HIDE DEF G
<1>3. PICK it \in [SUBSET (1 .. n) -> S] : IsFold(n, b, G, it)
  BY <1>2, Iterates
<1>4. Iter(it)
  <2>1. ASSUME NEW s \in SUBSET (1 .. n), s # {}
        PROVE  it[s] = initFileNumber(it[s \ {Max(s)}], q[Max(s)])
    <3>1. Max(s) \in 1 .. n /\ it[s \ {Max(s)}] \in S
      BY <1>3, <2>1, MaxOfNumbers
    <3> QED BY <1>2, <1>3, <2>1, <3>1 DEF IsFold
  <2> QED BY <1>3, <2>1 DEF IsFold
<1>5. Iter(iter)
  BY <1>4, Zenon
<1> HIDE DEF iter
<1>6. iter[{}] = b
  BY <1>5
<1>7. \A k \in 1 .. n : iter[1 .. k] = initFileNumber(iter[1 .. k - 1], q[k])
  <2> SUFFICES ASSUME NEW k \in 1 .. n PROVE iter[1 .. k] = initFileNumber(iter[1 .. k - 1], q[k])
    OBVIOUS
  <2>1. 1 .. k \in SUBSET (1 .. n) /\ 1 .. k # {} /\ Max(1 .. k) = k /\ (1 .. k) \ {k} = 1 .. (k - 1)
    BY MaxOfPrefix
  <2> QED BY <1>5, <2>1
<1> DEFINE f == [k \in 0 .. n |-> iter[1 .. k]]
<1>8. f[0] \in S
  <2>1. 1 .. 0 = {}
    OBVIOUS
  <2> QED BY <1>6, <2>1
<1>9. ASSUME NEW k \in 1 .. n, f[k - 1] \in S PROVE f[k] \in S
  <2>1. f[k - 1] = iter[1 .. k - 1] /\ f[k] = iter[1 .. k]
    OBVIOUS
  <2> HIDE DEF f
  <2> QED BY <1>7, <1>9, <2>1
<1>10. f[n] \in S
  <2> HIDE DEF f
  <2>1. \A k \in 0 .. n : f[k] \in S
    BY <1>8, <1>9, AllPasses
  <2> QED BY <2>1
<1> QED BY <1>1, <1>10

(* That of downLoad of a server; its first pass does what it does.          *)
LEMMA LoopOfNames ==
  ASSUME NEW n \in Nat, NEW q, DOMAIN q = 1 .. n, NEW S, NEW b \in S,
         \A k \in 1 .. n, h \in S : readName(h, q[k]) \in S
  PROVE  FoldLeft(readName, b, q) \in S /\ (n = 1 => FoldLeft(readName, b, q) = readName(b, q[1]))
<1> DEFINE Iter(it) == it = [s \in SUBSET DOMAIN q |-> IF s = {} THEN b
                                                      ELSE readName(it[s \ {Max(s)}], q[Max(s)])]
           iter == CHOOSE it : Iter(it)
           G == [x \in (1 .. n) \X S |-> readName(x[2], q[x[1]])]
<1>1. FoldLeft(readName, b, q) = iter[1 .. n]
  BY DEF FoldLeft, MapThenFoldSet
<1>2. G \in [(1 .. n) \X S -> S] /\ \A k \in 1 .. n, h \in S : G[<<k, h>>] = readName(h, q[k])
  OBVIOUS
<1> HIDE DEF G
<1>3. PICK it \in [SUBSET (1 .. n) -> S] : IsFold(n, b, G, it)
  BY <1>2, Iterates
<1>4. Iter(it)
  <2>1. ASSUME NEW s \in SUBSET (1 .. n), s # {}
        PROVE  it[s] = readName(it[s \ {Max(s)}], q[Max(s)])
    <3>1. Max(s) \in 1 .. n /\ it[s \ {Max(s)}] \in S
      BY <1>3, <2>1, MaxOfNumbers
    <3> QED BY <1>2, <1>3, <2>1, <3>1 DEF IsFold
  <2> QED BY <1>3, <2>1 DEF IsFold
<1>5. Iter(iter)
  BY <1>4, Zenon
<1> HIDE DEF iter
<1>6. iter[{}] = b
  BY <1>5
<1>7. \A k \in 1 .. n : iter[1 .. k] = readName(iter[1 .. k - 1], q[k])
  <2> SUFFICES ASSUME NEW k \in 1 .. n PROVE iter[1 .. k] = readName(iter[1 .. k - 1], q[k])
    OBVIOUS
  <2>1. 1 .. k \in SUBSET (1 .. n) /\ 1 .. k # {} /\ Max(1 .. k) = k /\ (1 .. k) \ {k} = 1 .. (k - 1)
    BY MaxOfPrefix
  <2> QED BY <1>5, <2>1
<1> DEFINE f == [k \in 0 .. n |-> iter[1 .. k]]
<1>8. f[0] \in S
  <2>1. 1 .. 0 = {}
    OBVIOUS
  <2> QED BY <1>6, <2>1
<1>9. ASSUME NEW k \in 1 .. n, f[k - 1] \in S PROVE f[k] \in S
  <2>1. f[k - 1] = iter[1 .. k - 1] /\ f[k] = iter[1 .. k]
    OBVIOUS
  <2> HIDE DEF f
  <2> QED BY <1>7, <1>9, <2>1
<1>10. f[n] \in S
  <2> HIDE DEF f
  <2>1. \A k \in 0 .. n : f[k] \in S
    BY <1>8, <1>9, AllPasses
  <2> QED BY <2>1
<1>11. n = 1 => iter[1 .. n] = readName(b, q[1])
  <2>1. 1 .. 0 = {}
    OBVIOUS
  <2> QED BY <1>6, <1>7, <2>1
<1> QED BY <1>1, <1>10, <1>11

(* And that of resvBlockFile.                                               *)
LEMMA LoopOfFrames ==
  ASSUME NEW n \in Nat, NEW q, DOMAIN q = 1 .. n, NEW S, NEW b \in S,
         \A k \in 1 .. n, h \in S : passOn(h, q[k]) \in S
  PROVE  FoldLeft(passOn, b, q) \in S
<1> DEFINE Iter(it) == it = [s \in SUBSET DOMAIN q |-> IF s = {} THEN b
                                                      ELSE passOn(it[s \ {Max(s)}], q[Max(s)])]
           iter == CHOOSE it : Iter(it)
           G == [x \in (1 .. n) \X S |-> passOn(x[2], q[x[1]])]
<1>1. FoldLeft(passOn, b, q) = iter[1 .. n]
  BY DEF FoldLeft, MapThenFoldSet
<1>2. G \in [(1 .. n) \X S -> S] /\ \A k \in 1 .. n, h \in S : G[<<k, h>>] = passOn(h, q[k])
  OBVIOUS
<1> HIDE DEF G
<1>3. PICK it \in [SUBSET (1 .. n) -> S] : IsFold(n, b, G, it)
  BY <1>2, Iterates
<1>4. Iter(it)
  <2>1. ASSUME NEW s \in SUBSET (1 .. n), s # {}
        PROVE  it[s] = passOn(it[s \ {Max(s)}], q[Max(s)])
    <3>1. Max(s) \in 1 .. n /\ it[s \ {Max(s)}] \in S
      BY <1>3, <2>1, MaxOfNumbers
    <3> QED BY <1>2, <1>3, <2>1, <3>1 DEF IsFold
  <2> QED BY <1>3, <2>1 DEF IsFold
<1>5. Iter(iter)
  BY <1>4, Zenon
<1> HIDE DEF iter
<1>6. iter[{}] = b
  BY <1>5
<1>7. \A k \in 1 .. n : iter[1 .. k] = passOn(iter[1 .. k - 1], q[k])
  <2> SUFFICES ASSUME NEW k \in 1 .. n PROVE iter[1 .. k] = passOn(iter[1 .. k - 1], q[k])
    OBVIOUS
  <2>1. 1 .. k \in SUBSET (1 .. n) /\ 1 .. k # {} /\ Max(1 .. k) = k /\ (1 .. k) \ {k} = 1 .. (k - 1)
    BY MaxOfPrefix
  <2> QED BY <1>5, <2>1
<1> DEFINE f == [k \in 0 .. n |-> iter[1 .. k]]
<1>8. f[0] \in S
  <2>1. 1 .. 0 = {}
    OBVIOUS
  <2> QED BY <1>6, <2>1
<1>9. ASSUME NEW k \in 1 .. n, f[k - 1] \in S PROVE f[k] \in S
  <2>1. f[k - 1] = iter[1 .. k - 1] /\ f[k] = iter[1 .. k]
    OBVIOUS
  <2> HIDE DEF f
  <2> QED BY <1>7, <1>9, <2>1
<1>10. f[n] \in S
  <2> HIDE DEF f
  <2>1. \A k \in 0 .. n : f[k] \in S
    BY <1>8, <1>9, AllPasses
  <2> QED BY <2>1
<1> QED BY <1>1, <1>10

-----------------------------------------------------------------------------
(* What travels.                                                            *)
Words    == {Down, Up, One, Lost} \cup {Header(n) : n \in Names}
Sent     == {Up, Down} \cup {Name(n) : n \in Names}
Frames   == {Frame(x) : x \in Stored}
Verifies == {x \in Stored : x.copies = 1}

Globals == [Operate : {"sw", "up", "down", "gg"}, upStatu : 1 .. 3, alive : BOOLEAN, started : BOOLEAN]

Reached == {"down", "lost", "exited"}

(* A server, and one in the middle of a read with what it answers.          *)
Storages  == [phase : {"sw", "up"} \cup Reached, buf : Seq(Sent), dirs : Dirs, out : {<<>>}]
Answering == [phase : Reached, buf : Seq(Sent), dirs : Dirs, out : Seq(Frames)]

(* A callback of the proxy that found the names m.                          *)
Callbacks(m) ==
  {h \in [px : Globals, map : SUBSET Names, buf : Seq(Words), all : Seq(Sent), end : BOOLEAN, wild : BOOLEAN] :
     m \subseteq h.map /\ (h.all # <<>> => Head(h.all) = Up) /\ (h.all = <<>> => h.map = m)}

(* The MD5 keeps out every block that was appended twice.                   *)
LEMMA VerifiedPages == ASSUME NEW q \in Seq(Frames) PROVE Verified(q) \in Seq(Verifies)
<1>1. \A h \in Seq(Verifies), u \in Frames : passOn(h, u) \in Seq(Verifies)
  <2> SUFFICES ASSUME NEW h \in Seq(Verifies), NEW x \in Stored PROVE passOn(h, Frame(x)) \in Seq(Verifies)
    BY DEF Frames
  <2>1. Frame(x).block = x
    BY DEF Frame
  <2>2. CASE x.copies = 1
    BY <2>1, <2>2 DEF passOn, Verifies
  <2>3. CASE x.copies # 1
    BY <2>1, <2>3 DEF passOn
  <2> QED BY <2>2, <2>3
<1> DEFINE n == Len(q)  S == Seq(Verifies)  b == <<>>
<1>2. n \in Nat /\ DOMAIN q = 1 .. n /\ b \in S /\ \A k \in 1 .. n : q[k] \in Frames
  OBVIOUS
<1>3. \A k \in 1 .. n, h \in S : passOn(h, q[k]) \in S
  BY <1>1, <1>2
<1> HIDE DEF n, S, b
<1>4. FoldLeft(passOn, b, q) \in S
  BY <1>2, <1>3, LoopOfFrames
<1> QED BY <1>4 DEF Verified, S, b

(* What precedes the first frame whose length is wrong is frames.           *)
LEMMA WholeFrames == ASSUME NEW q \in Seq(Frames) PROVE Whole(q) \in Seq(Frames)
<1> DEFINE short == {i \in DOMAIN q : Short(q[i])}
<1>1. CASE short = {}
  <2>1. Whole(q) = q
    BY <1>1 DEF Whole
  <2> QED BY <2>1
<1>2. CASE short # {}
  <2>1. PICK m \in short : \A k \in short : m <= k
    <3>1. short \in SUBSET Nat
      OBVIOUS
    <3> HIDE DEF short
    <3> QED BY <1>2, <3>1, Below
  <2>2. Min(short) \in short
    <3> HIDE DEF short
    <3> QED BY <2>1 DEF Min
  <2>3. Min(short) - 1 \in 0 .. Len(q)
    BY <2>2
  <2>4. SubSeq(q, 1, Min(short) - 1) \in Seq(Frames)
    <3> HIDE DEF short
    <3> QED BY <2>3
  <2>5. Whole(q) = SubSeq(q, 1, Min(short) - 1)
    BY <1>2 DEF Whole
  <2> QED BY <2>4, <2>5
<1> QED BY <1>1, <1>2

(* The blocks of a directory, each once.                                    *)
LEMMA Listings ==
  /\ Cardinality(Stored) \in Nat
  /\ \A p \in SetToSeqs(Stored) :
       LET q == [i \in DOMAIN p |-> Frame(p[i])] IN q \in Seq(Frames) /\ Len(q) = Cardinality(Stored)
<1>1. Cardinality(Stored) \in Nat
  BY DownloadAssumption, FS_CardinalityType
<1>2. ASSUME NEW p \in SetToSeqs(Stored)
      PROVE  LET q == [i \in DOMAIN p |-> Frame(p[i])] IN q \in Seq(Frames) /\ Len(q) = Cardinality(Stored)
  <2>1. p \in [1 .. Cardinality(Stored) -> Stored]
    BY <1>2 DEF SetToSeqs
  <2> DEFINE q == [i \in DOMAIN p |-> Frame(p[i])]
  <2>2. q \in [1 .. Cardinality(Stored) -> Frames]
    BY <2>1 DEF Frames
  <2> HIDE DEF q
  <2>3. q \in Seq(Frames) /\ Len(q) = Cardinality(Stored)
    BY <1>1, <2>2
  <2> QED BY <2>3 DEF q
<1> QED BY <1>1, <1>2

(* What server x becomes and answers when it reads the name n.              *)
LEMMA NameRead ==
  ASSUME NEW x \in Answering, x.phase = "down", NEW n, NEW y \in readFileList(x, n)
  PROVE  /\ y \in Answering
         /\ y.phase = "exited" \/ y.phase = "down"
         /\ y.buf = x.buf
         /\ n = Wanted /\ x.out = <<>> /\ y.phase = "down" => Len(y.out) = Cardinality(Stored)
<1>1. CASE n \notin x.dirs
  <2>1. y = [x EXCEPT !.phase = "exited"]
    BY <1>1 DEF readFileList
  <2> QED BY <2>1 DEF Answering, Reached
<1>2. CASE n \in x.dirs
  <2>1. PICK p \in IF n = Wanted THEN SetToSeqs(Stored) ELSE {<<>>} :
          y = [x EXCEPT !.out = @ \o [i \in DOMAIN p |-> Frame(p[i])]]
    BY <1>2 DEF readFileList
  <2> DEFINE q == [i \in DOMAIN p |-> Frame(p[i])]
  <2>2. q \in Seq(Frames) /\ (n = Wanted => Len(q) = Cardinality(Stored))
    <3>1. CASE n = Wanted
      BY <2>1, <3>1, Listings
    <3>2. CASE n # Wanted
      <4>1. q = <<>>
        BY <2>1, <3>2
      <4> QED BY <3>2, <4>1
    <3> QED BY <3>1, <3>2
  <2>3. y = [x EXCEPT !.out = x.out \o q]
    BY <2>1
  <2> DEFINE o == x.out \o q
  <2>4. o \in Seq(Frames) /\ (x.out = <<>> => o = q)
    <3> HIDE DEF q
    <3> QED BY <2>2 DEF Answering
  <2> HIDE DEF o, q
  <2>5. y = [x EXCEPT !.out = o]
    BY <2>3 DEF o
  <2>6. y \in Answering /\ y.phase = x.phase /\ y.out = o /\ y.buf = x.buf
    BY <2>4, <2>5 DEF Answering
  <2> QED BY <2>2, <2>4, <2>6
<1> QED BY <1>1, <1>2

(* And what it comes to when it reads all that it has.                      *)
LEMMA NamesRead ==
  ASSUME NEW x \in Answering, x.phase = "down", NEW units \in Seq(Sent)
  PROVE  /\ downLoad(x, units) \subseteq Answering
         /\ units = <<Name(Wanted)>> => downLoad(x, units) = readFileList(x, Wanted)
<1>1. ASSUME NEW y \in Answering, NEW u, NEW z \in readName({y}, u) PROVE z \in Answering
  <2>1. CASE y.phase # "down"
    BY <1>1, <2>1 DEF readName
  <2>2. CASE y.phase = "down" /\ u.u = "name"
    <3>1. z \in readFileList(y, u.name)
      BY <1>1, <2>2 DEF readName
    <3> QED BY <2>2, <3>1, NameRead
  <2>3. CASE y.phase = "down" /\ u.u # "name"
    <3>1. z = [y EXCEPT !.phase = "lost"]
      BY <1>1, <2>3 DEF readName
    <3> QED BY <3>1 DEF Answering, Reached
  <2> QED BY <2>1, <2>2, <2>3
<1>2. ASSUME NEW xs \in SUBSET Answering, NEW u PROVE readName(xs, u) \in SUBSET Answering
  <2> SUFFICES ASSUME NEW z \in readName(xs, u) PROVE z \in Answering
    OBVIOUS
  <2>1. PICK y \in xs : z \in readName({y}, u)
    BY Zenon DEF readName
  <2> QED BY <1>1, <2>1
<1> DEFINE n == Len(units)  S == SUBSET Answering  b == {x}
<1>3. n \in Nat /\ DOMAIN units = 1 .. n /\ b \in S
  OBVIOUS
<1>4. \A k \in 1 .. n, h \in S : readName(h, units[k]) \in S
  BY <1>2
<1> HIDE DEF n, S, b
<1>5. FoldLeft(readName, b, units) \in S /\ (n = 1 => FoldLeft(readName, b, units) = readName(b, units[1]))
  BY <1>3, <1>4, LoopOfNames
<1>6. units = <<Name(Wanted)>> => n = 1 /\ units[1] = Name(Wanted)
  BY DEF n
<1>7. readName(b, Name(Wanted)) = readFileList(x, Wanted)
  <2>1. Name(Wanted).u = "name" /\ Name(Wanted).name = Wanted
    BY DEF Name
  <2> HIDE DEF Name
  <2> QED BY <2>1 DEF readName, b
<1> QED BY <1>5, <1>6, <1>7 DEF downLoad, S, b

(* The Tail of a sequence, empty or not.                                    *)
LEMMA Tails == ASSUME NEW S, NEW q \in Seq(S) PROVE Tail(q) \in Seq(S)
<1>1. CASE q = <<>>
  <2>1. Tail(<<>>) = <<>>
    BY SMT
  <2>2. <<>> \in Seq(S)
    OBVIOUS
  <2> QED BY <1>1, <2>1, <2>2
<1>2. CASE q # <<>>
  BY <1>2
<1> QED BY <1>1, <1>2

(* Appending keeps the first word, when there is one.                       *)
LEMMA Headed ==
  ASSUME NEW S, NEW q \in Seq(S), NEW e \in S
  PROVE  /\ Append(q, e) \in Seq(S) /\ Append(q, e) # <<>>
         /\ Head(Append(q, e)) = IF q = <<>> THEN e ELSE Head(q)
BY AppendProperties, HeadTailAppend

(* One pass over the unit u, and the whole loop.                            *)
LEMMA HeaderPass ==
  ASSUME NEW m \in SUBSET Names, NEW h \in Callbacks(m), NEW u \in Words
  PROVE  initFileNumber(h, u) \in Callbacks(m)
<1>0. /\ h.all \in Seq(Sent) /\ h.buf \in Seq(Words) /\ h.px \in Globals /\ h.map \in SUBSET Names
      /\ m \subseteq h.map /\ (h.all # <<>> => Head(h.all) = Up)
  BY DEF Callbacks
<1> DEFINE a == Append(h.all, Up)
           b == Tail(h.buf)
           p2 == [h.px EXCEPT !.upStatu = 2]
           p3 == [h.px EXCEPT !.upStatu = 3]
<1>1. a \in Seq(Sent) /\ a # <<>> /\ Head(a) = Up
  <2>1. Up \in Sent
    BY DEF Sent
  <2> QED BY <1>0, <2>1, Headed
<1>2. b \in Seq(Words)
  BY <1>0, Tails
<1>3. p2 \in Globals /\ p3 \in Globals
  BY <1>0 DEF Globals
<1> DEFINE told == [h EXCEPT !.all = a]
<1>4. told \in Callbacks(m) /\ told.px = h.px /\ told.buf = h.buf /\ told.map = h.map /\ told.all = a
  <2> HIDE DEF a, b, p2, p3
  <2> QED BY <1>0, <1>1 DEF Callbacks
<1> HIDE DEF told
<1>5. CASE h.end \/ u = One
  BY <1>5 DEF initFileNumber
<1>6. CASE ~(h.end \/ u = One) /\ u.u # "header"
  <2>1. initFileNumber(h, u) = [told EXCEPT !.end = TRUE]
    BY <1>6 DEF initFileNumber, told, a
  <2> QED BY <1>4, <2>1 DEF Callbacks
<1>7. CASE ~(h.end \/ u = One) /\ u.u = "header" /\ u.name \in h.map
  <2>1. initFileNumber(h, u) = [told EXCEPT !.buf = Tail(@), !.px.upStatu = 3]
    BY <1>7 DEF initFileNumber, told, a
  <2>2. initFileNumber(h, u) = [told EXCEPT !.buf = b, !.px = p3]
    BY <1>4, <2>1 DEF Callbacks
  <2> HIDE DEF b, p3
  <2> QED BY <1>2, <1>3, <1>4, <2>2 DEF Callbacks
<1>8. CASE ~(h.end \/ u = One) /\ u.u = "header" /\ u.name \notin h.map
  <2> DEFINE w == Append(a, Name(u.name))
             f == h.map \cup {u.name}
  <2>1. u.name \in Names
    BY <1>8 DEF Words, Down, Up, One, Lost, Header
  <2>2. w \in Seq(Sent) /\ w # <<>> /\ Head(w) = Up
    <3>1. Name(u.name) \in Sent
      BY <2>1 DEF Sent
    <3> HIDE DEF a
    <3> QED BY <1>1, <3>1
  <2>3. initFileNumber(h, u) = [told EXCEPT !.buf = Tail(@), !.px.upStatu = 2, !.map = @ \cup {u.name},
                                  !.all = Append(@, Name(u.name))]
    BY <1>8 DEF initFileNumber, told, a
  <2>4. initFileNumber(h, u) = [told EXCEPT !.buf = b, !.px = p2, !.map = f, !.all = w]
    BY <1>4, <2>3 DEF Callbacks
  <2>5. f \in SUBSET Names /\ m \subseteq f
    BY <1>0, <2>1
  <2> HIDE DEF b, p2, f, w
  <2> QED BY <1>2, <1>3, <1>4, <2>2, <2>4, <2>5 DEF Callbacks
<1> QED BY <1>5, <1>6, <1>7, <1>8

(* The loop of initFileNumber over the input buffer.                        *)
LEMMA HeadersRead ==
  ASSUME NEW m \in SUBSET Names, NEW h \in Callbacks(m)
  PROVE  FoldLeft(initFileNumber, h, h.buf) \in Callbacks(m)
<1> DEFINE q == h.buf  n == Len(q)  S == Callbacks(m)
<1>1. n \in Nat /\ DOMAIN q = 1 .. n /\ h \in S /\ \A k \in 1 .. n : q[k] \in Words
  <2>1. q \in Seq(Words)
    BY DEF Callbacks
  <2> HIDE DEF q
  <2> QED BY <2>1
<1>2. \A k \in 1 .. n, g \in S : initFileNumber(g, q[k]) \in S
  BY <1>1, HeaderPass
<1> HIDE DEF n, S, q
<1>3. FoldLeft(initFileNumber, h, q) \in S
  BY <1>1, <1>2, LoopOfHeaders
<1> QED BY <1>3 DEF S, q

(* A callback of the proxy sends the word of an upload first, whatever it   *)
(* sends, and learns a name only when it sends something.                   *)
LEMMA Called ==
  ASSUME NEW m \in SUBSET Names, NEW h \in Callbacks(m), h.buf # <<>>
  PROVE  onMessage(h) \in Callbacks(m)
<1>0. /\ h.buf \in Seq(Words) /\ h.px \in Globals
  BY DEF Callbacks
<1>1. CASE h.px.Operate = "sw"
  <2> DEFINE u == Head(h.buf)
             p == [h.px EXCEPT !.Operate = IF u = Up THEN "up" ELSE "down"]
             b == Tail(h.buf)
             lost == <<Lost>>
  <2>1. p \in Globals /\ b \in Seq(Words) /\ lost \in Seq(Words)
    <3>1. b \in Seq(Words) /\ lost \in Seq(Words)
      BY <1>0 DEF Words
    <3>2. p \in Globals
      BY <1>0 DEF Globals
    <3> QED BY <3>1, <3>2
  <2>2. onMessage(h) = switchOperate(h)
    BY <1>1 DEF onMessage
  <2>3. \/ switchOperate(h) = [h EXCEPT !.px = p, !.buf = b]
        \/ switchOperate(h) = [h EXCEPT !.buf = lost, !.wild = TRUE]
    <3>1. CASE u \in {Up, Down}
      <4>1. switchOperate(h) = [h EXCEPT !.px.Operate = IF u = Up THEN "up" ELSE "down", !.buf = Tail(@)]
        BY <3>1 DEF switchOperate
      <4> QED BY <4>1 DEF Callbacks
    <3>2. CASE u \notin {Up, Down}
      BY <3>2 DEF switchOperate
    <3> QED BY <3>1, <3>2
  <2> HIDE DEF u, p, b, lost
  <2> QED BY <2>1, <2>2, <2>3 DEF Callbacks
<1>2. CASE h.px.Operate = "up"
  <2>1. onMessage(h) = IF h.px.upStatu = 1 THEN FoldLeft(initFileNumber, h, h.buf) ELSE h
    BY <1>2 DEF onMessage
  <2> QED BY <2>1, HeadersRead
<1>3. CASE h.px.Operate = "down"
  <2> DEFINE p == [h.px EXCEPT !.Operate = "gg", !.started = TRUE]
  <2>1. onMessage(h) = [h EXCEPT !.px.Operate = "gg", !.px.started = TRUE]
    BY <1>3 DEF onMessage, startThreads
  <2>2. onMessage(h) = [h EXCEPT !.px = p]
    BY <2>1 DEF Callbacks
  <2>3. p \in Globals
    BY <1>0 DEF Globals
  <2> HIDE DEF p
  <2> QED BY <2>2, <2>3 DEF Callbacks
<1>4. CASE h.px.Operate = "gg"
  <2> DEFINE b == <<>>
  <2>1. onMessage(h) = [h EXCEPT !.buf = b] /\ b \in Seq(Words)
    BY <1>4 DEF onMessage
  <2> HIDE DEF b
  <2> QED BY <2>1 DEF Callbacks
<1> QED BY <1>0, <1>1, <1>2, <1>3, <1>4 DEF Globals

(* What the proxy holds and passes on.                                      *)
Threads == [status : 1 .. 3, lost : BOOLEAN, read : Nat, appends : BOOLEAN]

Answers == {Ack} \cup Frames

Types ==
  /\ cl \in [Clients -> {"idle", "open", "killed", "closed"}]
  /\ wire \in [Clients -> Seq(Words)] /\ buf \in [Clients -> Seq(Words)]
  /\ back \in [Clients -> Seq(Verifies)] /\ file \in [Clients -> Seq(Verifies)]
  /\ px \in Globals /\ FileMap \in SUBSET Names /\ knew \in BOOLEAN /\ alone \in BOOLEAN
  /\ thr \in [Servers -> Threads] /\ srv \in [Servers -> Storages]
  /\ link \in [Servers -> Seq(Sent)] /\ reply \in [Servers -> Seq(Answers)]

(* Server 0, v, answers the "down ack" first and then frames; q is what its *)
(* thread, t, has not read.                                                 *)
Listed(t, q, v) ==
  /\ v.phase \notin Reached => t.status # 3 /\ q = <<>>
  /\ v.phase \in Reached =>
       /\ t.status # 1
       /\ t.status = 2 => q # <<>> /\ Head(q) = Ack /\ Tail(q) \in Seq(Frames)
       /\ t.status = 3 => q \in Seq(Frames)

(* The first word that server 0 is sent decides what it is for.  When the   *)
(* proxy learns a name, it has sent the word of an upload before; l is what *)
(* server 0 has not read.                                                   *)
Asked(t, l, v, map, known) ==
  /\ v.phase = "sw" =>
       /\ v.buf = <<>>
       /\ l # <<>> => Head(l) \in {Up, Down} /\ (t.status = 1 => Head(l) = Up)
       /\ map # {} => l # <<>>
  /\ known => v.phase = "up" \/ (v.phase = "sw" /\ l # <<>> /\ Head(l) = Up)
  /\ t.appends => t.status = 3 /\ Wanted \in map

Server0 == Listed(thr[0], reply[0], srv[0]) /\ Asked(thr[0], link[0], srv[0], FileMap, knew)

DInv == Types /\ Server0

(* All is of its type at the start, and server 0 waits for its first word.  *)
LEMMA TypesInit == Init => DInv
<1> SUFFICES ASSUME Init PROVE DInv
  OBVIOUS
<1>1. PICK d \in Dirs : srv = [s \in Servers |-> Connected(s, d)]
  BY DEF Init
<1>2. \A s \in Servers : /\ Connected(s, d) \in Storages /\ Connected(s, d).phase \in {"sw", "lost"}
                         /\ s = 0 => Connected(s, d).phase = "sw" /\ Connected(s, d).buf = <<>>
  <2>1. MainOfServer(d) \in Storages
    BY DEF MainOfServer, Storages, Reached
  <2>2. ASSUME NEW s \in Servers
        PROVE /\ Connected(s, d) \in Storages /\ Connected(s, d).phase \in {"sw", "lost"}
              /\ s = 0 => Connected(s, d).phase = "sw" /\ Connected(s, d).buf = <<>>
    <3>1. Sync(s) = IF s = 0 THEN "sw" ELSE "lost"
      BY DEF Sync
    <3>2. MainOfServer(d).buf = <<>>
      BY DEF MainOfServer
    <3> HIDE DEF Sync, MainOfServer
    <3> QED BY <2>1, <3>1, <3>2 DEF Connected, Storages, Reached
  <2> QED BY <2>2
<1>3. srv \in [Servers -> Storages] /\ srv[0].phase = "sw" /\ srv[0].buf = <<>>
  BY <1>1, <1>2, DownloadAssumption
<1>4. px \in Globals
  BY DEF Init, Globals
<1> DEFINE t0 == [status |-> 1, lost |-> FALSE, read |-> 0, appends |-> FALSE]
<1>5. t0 \in Threads /\ t0.status = 1 /\ t0.appends = FALSE
  BY DEF Threads
<1>6. thr = [s \in Servers |-> t0]
  BY DEF Init
<1> HIDE DEF t0
<1>7. thr \in [Servers -> Threads] /\ thr[0].status = 1 /\ thr[0].appends = FALSE
  BY <1>5, <1>6, DownloadAssumption
<1>8. /\ link = [s \in Servers |-> <<>>] /\ reply = [s \in Servers |-> <<>>]
      /\ link[0] = <<>> /\ reply[0] = <<>> /\ FileMap = {} /\ knew = FALSE /\ alone = TRUE
  BY DownloadAssumption DEF Init
<1>9. /\ cl = [c \in Clients |-> "idle"]
      /\ wire = [c \in Clients |-> <<>>] /\ buf = [c \in Clients |-> <<>>]
      /\ back = [c \in Clients |-> <<>>] /\ file = [c \in Clients |-> <<>>]
  BY DEF Init
<1>10. Types
  <2>1. /\ cl \in [Clients -> {"idle", "open", "killed", "closed"}]
        /\ wire \in [Clients -> Seq(Words)] /\ buf \in [Clients -> Seq(Words)]
        /\ back \in [Clients -> Seq(Verifies)] /\ file \in [Clients -> Seq(Verifies)]
    BY <1>9
  <2>2. link \in [Servers -> Seq(Sent)] /\ reply \in [Servers -> Seq(Answers)]
    BY <1>8
  <2> QED BY <1>3, <1>4, <1>7, <1>8, <2>1, <2>2 DEF Types
<1>11. Server0
  BY <1>3, <1>7, <1>8 DEF Server0, Listed, Asked, Reached
<1> QED BY <1>10, <1>11 DEF DInv

(* The steps of the clients.                                                *)
LEMMA StartTypes == ASSUME DInv, NEW c \in Clients, Start(c) PROVE DInv'
<1>1. UNCHANGED <<buf, FileMap, thr, link, reply, srv, back, file, knew>>
  BY DEF Start
<1>2. cl' \in [Clients -> {"idle", "open", "killed", "closed"}]
  BY DEF Start, mySocket2, DInv, Types
<1>3. px' \in Globals
  <2>1. px \in Globals /\ px' = [px EXCEPT !.Operate = "sw", !.upStatu = 1]
    BY DEF Start, onConnection, DInv, Types
  <2>2. 1 \in 1 .. 3
    OBVIOUS
  <2> QED BY <2>1, <2>2 DEF Globals
<1>4. wire' \in [Clients -> Seq(Words)]
  <2>1. Down \in Words /\ One \in Words /\ Up \in Words /\ \A n \in Names : Header(n) \in Words
    BY DEF Words
  <2>2. <<Down, One>> \in Seq(Words) /\ \A n \in Names : <<Up, Header(n)>> \in Seq(Words)
    BY <2>1
  <2>3. \E q \in Seq(Words) : wire' = [wire EXCEPT ![c] = q]
    BY <2>2 DEF Start
  <2> QED BY <2>3 DEF DInv, Types
<1>5. alone' \in BOOLEAN
  BY DEF Start, DInv, Types
<1> QED BY <1>1, <1>2, <1>3, <1>4, <1>5 DEF DInv, Types, Server0, Listed, Asked

(* A client that writes, is killed or is gone.                              *)
LEMMA EndTypes == ASSUME DInv, NEW c \in Clients, Write(c) \/ Kill(c) \/ Gone(c) PROVE DInv'
<1>1. UNCHANGED <<px, FileMap, thr, link, reply, srv, knew>>
  BY DEF Write, Kill, Gone
<1>2. Server0'
  BY <1>1 DEF DInv, Server0, Listed, Asked
<1>3. /\ wire \in [Clients -> Seq(Words)] /\ back \in [Clients -> Seq(Verifies)]
      /\ file \in [Clients -> Seq(Verifies)]
  BY DEF DInv, Types
<1>4. CASE Write(c)
  <2> DEFINE q == file[c] \o back[c]
  <2>1. file' = [file EXCEPT ![c] = q] /\ back' = [back EXCEPT ![c] = <<>>] /\ q \in Seq(Verifies)
    BY <1>3, <1>4 DEF Write
  <2> HIDE DEF q
  <2>2. file' \in [Clients -> Seq(Verifies)] /\ back' \in [Clients -> Seq(Verifies)]
    BY <1>3, <2>1
  <2> QED BY <1>1, <1>2, <1>4, <2>2 DEF Write, DInv, Types
<1>5. CASE Kill(c)
  <2>1. PICK k \in 0 .. Len(wire[c]) : wire' = [wire EXCEPT ![c] = SubSeq(@, 1, k)]
    BY <1>5 DEF Kill
  <2> DEFINE q == SubSeq(wire[c], 1, k)
  <2>2. q \in Seq(Words) /\ wire' = [wire EXCEPT ![c] = q]
    BY <1>3, <2>1
  <2> HIDE DEF q
  <2>3. wire' \in [Clients -> Seq(Words)]
    BY <1>3, <2>2
  <2>4. cl' \in [Clients -> {"idle", "open", "killed", "closed"}] /\ alone' \in BOOLEAN
    BY <1>5 DEF Kill, DInv, Types
  <2> QED BY <1>1, <1>2, <1>5, <2>3, <2>4 DEF Kill, DInv, Types
<1>6. CASE Gone(c)
  <2>1. buf' \in [Clients -> Seq(Words)] /\ back' \in [Clients -> Seq(Verifies)]
    BY <1>6 DEF Gone, DInv, Types
  <2>2. cl' \in [Clients -> {"idle", "open", "killed", "closed"}]
    BY <1>6 DEF Gone, DInv, Types
  <2> QED BY <1>1, <1>2, <1>6, <2>1, <2>2 DEF Gone, DInv, Types
<1> QED BY <1>4, <1>5, <1>6

(* Appending keeps the first word, when there is one.                       *)
LEMMA Behind ==
  ASSUME NEW S, NEW l \in Seq(S), NEW a \in Seq(S)
  PROVE  /\ l \o a \in Seq(S) /\ (l \o a = <<>> <=> l = <<>> /\ a = <<>>)
         /\ l # <<>> => Head(l \o a) = Head(l) /\ Tail(l \o a) = Tail(l) \o a
         /\ l = <<>> => l \o a = a
<1>1. l \o a \in Seq(S) /\ (l \o a = <<>> <=> l = <<>> /\ a = <<>>) /\ (l = <<>> => l \o a = a)
  BY ConcatProperties, ConcatEmptySeq, ConcatEqualIffEmpty
<1>2. ASSUME l # <<>> PROVE Head(l \o a) = Head(l) /\ Tail(l \o a) = Tail(l) \o a
  BY <1>2, HeadTailProperties, ConcatProperties, ConcatSimplifications
<1> QED BY <1>1, <1>2

(* What is read of a sequence, and what is left.                            *)
LEMMA Part ==
  ASSUME NEW S, NEW q \in Seq(S), NEW k \in 1 .. Len(q)
  PROVE  /\ SubSeq(q, 1, k) \in Seq(S) /\ SubSeq(q, 1, k) # <<>> /\ Len(SubSeq(q, 1, k)) = k
         /\ Head(SubSeq(q, 1, k)) = Head(q)
         /\ SubSeq(q, k + 1, Len(q)) \in Seq(S) /\ Len(SubSeq(q, k + 1, Len(q))) = Len(q) - k
<1>1. /\ SubSeq(q, 1, k) \in Seq(S) /\ Len(SubSeq(q, 1, k)) = k /\ SubSeq(q, 1, k)[1] = q[1]
      /\ SubSeq(q, k + 1, Len(q)) \in Seq(S) /\ Len(SubSeq(q, k + 1, Len(q))) = Len(q) - k
  OBVIOUS
<1> DEFINE w == SubSeq(q, 1, k)
<1> HIDE DEF w
<1>2. w # <<>> /\ Head(w) = w[1] /\ Head(q) = q[1]
  <2>1. w \in Seq(S) /\ Len(w) = k
    BY <1>1 DEF w
  <2> QED BY <2>1
<1> QED BY <1>1, <1>2 DEF w

(* A callback of the proxy sends the words of an upload before it learns    *)
(* its name.                                                                *)
LEMMA ReadTypes == ASSUME DInv, NEW c \in Clients, Read(c) PROVE DInv'
<1> DEFINE h0(k) == [px |-> px, map |-> FileMap, buf |-> buf[c] \o SubSeq(wire[c], 1, k),
                     all |-> <<>>, end |-> FALSE, wild |-> FALSE]
<1>0. /\ px \in Globals /\ FileMap \in SUBSET Names /\ wire[c] \in Seq(Words) /\ buf[c] \in Seq(Words)
      /\ wire \in [Clients -> Seq(Words)] /\ buf \in [Clients -> Seq(Words)]
      /\ link \in [Servers -> Seq(Sent)] /\ alone \in BOOLEAN
  BY DEF DInv, Types
<1>1. PICK k \in 1 .. Len(wire[c]) :
        LET h == onMessage(h0(k)) IN
        /\ wire' = [wire EXCEPT ![c] = SubSeq(@, k + 1, Len(@))]
        /\ buf' = [buf EXCEPT ![c] = h.buf]
        /\ \E alive \in IF h.wild THEN BOOLEAN ELSE {TRUE} : px' = [h.px EXCEPT !.alive = alive]
        /\ FileMap' = h.map
        /\ link' = ToAll(link, h.all)
        /\ alone' = (alone /\ k = 1)
  BY Zenon DEF Read
<1>2. h0(k) \in Callbacks(FileMap) /\ h0(k).buf # <<>>
  <2> DEFINE b == buf[c] \o SubSeq(wire[c], 1, k)  e == <<>>  f == FALSE
             r == [px |-> px, map |-> FileMap, buf |-> b, all |-> e, end |-> f, wild |-> f]
  <2>1. b \in Seq(Words) /\ b # <<>>
    <3>1. SubSeq(wire[c], 1, k) \in Seq(Words) /\ SubSeq(wire[c], 1, k) # <<>>
      BY <1>0, Part
    <3> DEFINE w == SubSeq(wire[c], 1, k)
    <3> HIDE DEF w
    <3>2. w \in Seq(Words) /\ w # <<>>
      BY <3>1 DEF w
    <3>3. buf[c] \o w \in Seq(Words) /\ buf[c] \o w # <<>>
      BY <1>0, <3>2, Behind
    <3> QED BY <3>3 DEF w
  <2>2. e \in Seq(Sent) /\ f \in BOOLEAN /\ e = <<>>
    OBVIOUS
  <2> HIDE DEF b, e, f
  <2>3. r \in Callbacks(FileMap) /\ r.buf = b
    BY <1>0, <2>1, <2>2 DEF Callbacks
  <2> QED BY <2>1, <2>3 DEF b, e, f
<1> DEFINE h == onMessage(h0(k))
<1>3. h \in Callbacks(FileMap)
  <2> HIDE DEF h0
  <2> QED BY <1>0, <1>2, Called
<1> HIDE DEF h0, h
<1>4. /\ wire' = [wire EXCEPT ![c] = SubSeq(@, k + 1, Len(@))]
      /\ buf' = [buf EXCEPT ![c] = h.buf]
      /\ \E alive \in BOOLEAN : px' = [h.px EXCEPT !.alive = alive]
      /\ FileMap' = h.map
      /\ link' = ToAll(link, h.all)
      /\ alone' = (alone /\ k = 1)
  BY <1>1 DEF h
<1>5. /\ h.buf \in Seq(Words) /\ h.px \in Globals /\ h.map \in SUBSET Names /\ h.all \in Seq(Sent)
      /\ FileMap \subseteq h.map /\ (h.all # <<>> => Head(h.all) = Up) /\ (h.all = <<>> => h.map = FileMap)
  BY <1>3 DEF Callbacks
<1>6. wire' \in [Clients -> Seq(Words)] /\ buf' \in [Clients -> Seq(Words)]
  <2>1. SubSeq(wire[c], k + 1, Len(wire[c])) \in Seq(Words)
    BY <1>0
  <2> QED BY <1>0, <1>4, <1>5, <2>1
<1>7. px' \in Globals
  BY <1>4, <1>5 DEF Globals
<1>8. /\ link' \in [Servers -> Seq(Sent)] /\ link'[0] = link[0] \o h.all
      /\ link[0] \in Seq(Sent)
  BY <1>0, <1>4, <1>5, DownloadAssumption DEF ToAll
<1>9. UNCHANGED <<cl, thr, reply, srv, back, file, knew>>
  BY DEF Read
<1>10. Types'
  BY <1>4, <1>5, <1>6, <1>7, <1>8, <1>9 DEF DInv, Types
<1>11. Asked(thr[0], link'[0], srv[0], FileMap', knew)
  <2>1. Asked(thr[0], link[0], srv[0], FileMap, knew)
    BY DEF DInv, Server0
  <2>0. /\ link[0] \o h.all = <<>> <=> link[0] = <<>> /\ h.all = <<>>
        /\ link[0] # <<>> => Head(link[0] \o h.all) = Head(link[0])
        /\ link[0] = <<>> => link[0] \o h.all = h.all
    <3>1. PICK l \in Seq(Sent), a \in Seq(Sent) : l = link[0] /\ a = h.all
      BY <1>5, <1>8
    <3>2. /\ l \o a = <<>> <=> l = <<>> /\ a = <<>>
          /\ l # <<>> => Head(l \o a) = Head(l)
          /\ l = <<>> => l \o a = a
      BY Behind
    <3> QED BY <3>1, <3>2
  <2>2. CASE link[0] # <<>>
    <3>1. link'[0] # <<>> /\ Head(link'[0]) = Head(link[0])
      BY <1>8, <2>0, <2>2
    <3> QED BY <1>4, <1>5, <2>1, <2>2, <3>1 DEF Asked
  <2>3. CASE link[0] = <<>>
    <3>1. link'[0] = h.all
      BY <1>8, <2>0, <2>3
    <3> QED BY <1>4, <1>5, <2>1, <2>3, <3>1 DEF Asked
  <2> QED BY <2>2, <2>3
<1> QED BY <1>9, <1>10, <1>11 DEF DInv, Server0

(* The download threads.                                                    *)
LEMMA ThreadTypes == ASSUME DInv, Inv, NEW s \in Servers, Thread(s) PROVE DInv'
<1>0. /\ thr \in [Servers -> Threads] /\ link \in [Servers -> Seq(Sent)] /\ reply \in [Servers -> Seq(Answers)]
      /\ thr[s] \in Threads /\ link[s] \in Seq(Sent) /\ reply[s] \in Seq(Answers) /\ px \in Globals
      /\ back \in [Clients -> Seq(Verifies)] /\ FileMap \in SUBSET Names /\ knew \in BOOLEAN /\ alone \in BOOLEAN
  BY DEF DInv, Types
<1>1. Listed(thr[0], reply[0], srv[0]) /\ Asked(thr[0], link[0], srv[0], FileMap, knew) /\ 0 \in Servers
  BY DownloadAssumption DEF DInv, Server0
<1>2. reply[s] # <<>> => s = 0
  BY DEF Inv, Silent
<1>3. CASE senddownload(s)
  <2> DEFINE t == [thr[s] EXCEPT !.status = 2]
             l == Append(link[s], Down)
  <2>1. /\ thr[s].status = 1 /\ thr' = [thr EXCEPT ![s] = t] /\ link' = [link EXCEPT ![s] = l]
        /\ knew' = (knew \/ (s = 0 /\ Wanted \in FileMap))
        /\ UNCHANGED <<cl, wire, buf, px, FileMap, reply, srv, back, file, alone>>
    BY <1>3 DEF senddownload
  <2>2. t \in Threads /\ t.status = 2 /\ t.appends = thr[s].appends
    <3>1. 2 \in 1 .. 3
      OBVIOUS
    <3> QED BY <1>0, <3>1 DEF Threads
  <2>3. l \in Seq(Sent) /\ l # <<>> /\ Head(l) = IF link[s] = <<>> THEN Down ELSE Head(link[s])
    <3>1. Down \in Sent
      BY DEF Sent
    <3> QED BY <1>0, <3>1, Headed
  <2> HIDE DEF t, l
  <2>4. Types'
    <3>1. thr' \in [Servers -> Threads] /\ link' \in [Servers -> Seq(Sent)] /\ knew' \in BOOLEAN
      BY <1>0, <2>1, <2>2, <2>3
    <3> QED BY <2>1, <3>1 DEF DInv, Types
  <2>5. CASE s # 0
    <3>1. thr'[0] = thr[0] /\ link'[0] = link[0] /\ knew' = knew
      BY <1>0, <1>1, <2>1, <2>5
    <3> QED BY <1>1, <2>1, <2>4, <3>1 DEF DInv, Server0
  <2>6. CASE s = 0
    <3>1. thr'[0] = t /\ link'[0] = l
      BY <1>0, <1>1, <2>1, <2>6
    <3>2. Listed(t, reply[0], srv[0])
      BY <1>1, <2>1, <2>2, <2>6 DEF Listed
    <3>3. knew' => knew \/ FileMap # {}
      BY <2>1
    <3>4. srv[0].phase \in {"sw", "up"}
      <4>1. srv[0] \in Storages
        BY <1>1 DEF DInv, Types
      <4> QED BY <1>1, <2>1, <2>6, <4>1 DEF Storages, Listed
    <3>5. Asked(t, l, srv[0], FileMap, knew')
      BY <1>1, <2>1, <2>2, <2>3, <2>6, <3>3, <3>4 DEF Asked
    <3> QED BY <2>1, <2>4, <3>1, <3>2, <3>5 DEF DInv, Server0
  <2> QED BY <2>5, <2>6
<1>4. CASE sendFileName(s)
  <2> DEFINE t == [thr[s] EXCEPT !.status = 3]
             l == Append(link[s], Name(Wanted))
             q == Tail(reply[s])
  <2>1. /\ thr[s].status = 2 /\ reply[s] # <<>>
        /\ thr' = [thr EXCEPT ![s] = t] /\ link' = [link EXCEPT ![s] = l] /\ reply' = [reply EXCEPT ![s] = q]
        /\ UNCHANGED <<cl, wire, buf, px, FileMap, srv, back, file, knew, alone>>
    BY <1>4 DEF sendFileName
  <2>2. t \in Threads /\ t.status = 3 /\ t.appends = thr[s].appends
    <3>1. 3 \in 1 .. 3
      OBVIOUS
    <3> QED BY <1>0, <3>1 DEF Threads
  <2>3. l \in Seq(Sent) /\ q \in Seq(Answers)
    <3>1. Name(Wanted) \in Sent
      BY DownloadAssumption DEF Sent
    <3> QED BY <1>0, <2>1, <3>1
  <2> HIDE DEF t, l
  <2>4. s = 0
    BY <1>2, <2>1
  <2>5. srv[0].phase \in Reached /\ q \in Seq(Frames)
    BY <1>1, <2>1, <2>4 DEF Listed
  <2> HIDE DEF q
  <2>6. Types'
    <3>1. thr' \in [Servers -> Threads] /\ link' \in [Servers -> Seq(Sent)] /\ reply' \in [Servers -> Seq(Answers)]
      BY <1>0, <2>1, <2>2, <2>3
    <3> QED BY <2>1, <3>1 DEF DInv, Types
  <2>7. thr'[0] = t /\ link'[0] = l /\ reply'[0] = q
    BY <1>0, <1>1, <2>1, <2>4
  <2>8. Listed(t, q, srv[0])
    BY <2>2, <2>5 DEF Listed
  <2>9. Asked(t, l, srv[0], FileMap, knew)
    BY <1>1, <2>1, <2>2, <2>4, <2>5 DEF Asked, Reached
  <2> QED BY <2>1, <2>6, <2>7, <2>8, <2>9 DEF DInv, Server0
<1>5. CASE resvBlockFile(s)
  <2> DEFINE frames(k) == SubSeq(reply[s], 1, k)
             good(k) == IF thr[s].lost \/ Wanted \notin FileMap THEN <<>> ELSE Verified(Whole(frames(k)))
             l(k) == thr[s].lost \/ Whole(frames(k)) # frames(k)
             a(k) == thr[s].appends \/ good(k) # <<>>
             n(k) == thr[s].read + k
             t(k) == [thr[s] EXCEPT !.lost = l(k), !.read = n(k), !.appends = a(k)]
             q(k) == SubSeq(reply[s], k + 1, Len(reply[s]))
  <2>1. PICK k \in 1 .. Len(reply[s]) :
          /\ reply' = [reply EXCEPT ![s] = SubSeq(@, k + 1, Len(@))]
          /\ thr' = [thr EXCEPT ![s].lost = l(k), ![s].read = @ + k, ![s].appends = a(k)]
          /\ alone' = (alone /\ k = 1)
          /\ \/ /\ \E c \in Clients : /\ good(k) # <<>> => cl[c] \in {"open", "killed"}
                                      /\ back' = [back EXCEPT ![c] = @ \o good(k)]
                /\ UNCHANGED px
             \/ /\ good(k) # <<>>
                /\ px' = [px EXCEPT !.alive = FALSE]
                /\ UNCHANGED back
    BY <1>5, Zenon DEF resvBlockFile
  <2>2. thr[s].status = 3 /\ UNCHANGED <<cl, wire, buf, FileMap, link, srv, file, knew>>
    BY <1>5 DEF resvBlockFile
  <2>3. s = 0 /\ reply[s] \in Seq(Frames)
    <3>1. s = 0
      <4>1. Len(reply[s]) # 0
        BY <1>0
      <4> QED BY <1>2, <4>1
    <3>2. srv[0].phase \in Reached => reply[0] \in Seq(Frames)
      BY <1>1, <2>2, <3>1 DEF Listed
    <3>3. srv[0].phase \notin Reached => reply[0] = <<>>
      BY <1>1 DEF Listed
    <3> QED BY <3>1, <3>2, <3>3
  <2>4. frames(k) \in Seq(Frames) /\ q(k) \in Seq(Frames) /\ q(k) \in Seq(Answers)
    <3>1. k \in 1 .. Len(reply[s])
      OBVIOUS
    <3>2. frames(k) \in Seq(Frames) /\ q(k) \in Seq(Frames)
      BY <2>3, <3>1, Part
    <3>3. q(k) \in Seq(Answers)
      BY <1>0, <3>1, Part
    <3> QED BY <3>2, <3>3
  <2> HIDE DEF frames
  <2>5. good(k) \in Seq(Verifies) /\ (good(k) # <<>> => Wanted \in FileMap)
    <3>1. Whole(frames(k)) \in Seq(Frames)
      BY <2>4, WholeFrames
    <3>2. Verified(Whole(frames(k))) \in Seq(Verifies)
      BY <3>1, VerifiedPages
    <3> QED BY <3>2
  <2>6. l(k) \in BOOLEAN
    BY <1>0 DEF Threads
  <2>7. n(k) \in Nat
    BY <1>0 DEF Threads
  <2> HIDE DEF l, good
  <2>8. a(k) \in BOOLEAN
    BY <1>0 DEF Threads
  <2>9. thr' = [thr EXCEPT ![s] = t(k)] /\ reply' = [reply EXCEPT ![s] = q(k)]
    <3> HIDE DEF a
    <3> QED BY <1>0, <2>1
  <2>10. t(k) \in Threads /\ t(k).status = 3 /\ t(k).appends = a(k)
    <3> HIDE DEF a, n
    <3> QED BY <1>0, <2>2, <2>6, <2>7, <2>8 DEF Threads
  <2>11. a(k) => Wanted \in FileMap
    BY <1>1, <2>3, <2>5 DEF Asked
  <2> HIDE DEF a, n, t, q
  <2>12. thr' \in [Servers -> Threads] /\ reply' \in [Servers -> Seq(Answers)]
    BY <1>0, <2>4, <2>9, <2>10
  <2>13. px' \in Globals /\ back' \in [Clients -> Seq(Verifies)]
    <3>1. CASE UNCHANGED px /\ \E c \in Clients : back' = [back EXCEPT ![c] = @ \o good(k)]
      <4>1. PICK c \in Clients : back' = [back EXCEPT ![c] = @ \o good(k)]
        BY <3>1
      <4>2. back[c] \o good(k) \in Seq(Verifies)
        BY <1>0, <2>5
      <4> QED BY <1>0, <3>1, <4>1, <4>2
    <3>2. CASE px' = [px EXCEPT !.alive = FALSE] /\ UNCHANGED back
      BY <1>0, <3>2 DEF Globals
    <3> QED BY <2>1, <3>1, <3>2
  <2>14. alone' \in BOOLEAN
    BY <1>0, <2>1
  <2>15. Types'
    BY <2>2, <2>12, <2>13, <2>14 DEF DInv, Types
  <2>16. thr'[0] = t(k) /\ reply'[0] = q(k)
    BY <1>0, <2>3, <2>9
  <2>17. Listed(t(k), q(k), srv[0])
    BY <1>1, <2>2, <2>3, <2>4, <2>10 DEF Listed
  <2>18. Asked(t(k), link[0], srv[0], FileMap, knew)
    BY <1>1, <2>2, <2>3, <2>10, <2>11 DEF Asked
  <2> QED BY <2>2, <2>15, <2>16, <2>17, <2>18 DEF DInv, Server0
<1> QED BY <1>3, <1>4, <1>5 DEF Thread

(* What server x becomes and answers when it reads units, in the cases of   *)
(* onMessage.                                                               *)
Becomes(x, units) ==
  CASE x.phase = "sw"   -> {[switch(x, Head(units)) EXCEPT !.buf = Tail(units)]}
    [] x.phase = "down" -> downLoad(x, units)
    [] OTHER            -> {x}

(* ServerReads in terms of Becomes.                                         *)
LEMMA Reads ==
  ASSUME NEW s \in Servers, ServerReads(s), Types
  PROVE  LET x == [srv[s] EXCEPT !.buf = <<>>] IN
         \E k \in 1 .. Len(link[s]) : \E y \in Becomes(x, srv[s].buf \o SubSeq(link[s], 1, k)) :
           /\ link' = [link EXCEPT ![s] = SubSeq(link[s], k + 1, Len(link[s]))]
           /\ srv' = [srv EXCEPT ![s] = [y EXCEPT !.out = <<>>]]
           /\ reply' = [reply EXCEPT ![s] = reply[s] \o y.out]
           /\ alone' = (alone /\ k = 1)
<1>1. PICK k \in 1 .. Len(link[s]) :
        LET units == srv[s].buf \o SubSeq(link[s], 1, k)
            x == [srv[s] EXCEPT !.buf = <<>>]
            after == CASE x.phase = "sw"   -> {[switch(x, Head(units)) EXCEPT !.buf = Tail(units)]}
                       [] x.phase = "down" -> downLoad(x, units)
                       [] OTHER            -> {x} IN
        /\ link' = [link EXCEPT ![s] = SubSeq(@, k + 1, Len(@))]
        /\ \E y \in after : /\ srv' = [srv EXCEPT ![s] = [y EXCEPT !.out = <<>>]]
                            /\ reply' = [reply EXCEPT ![s] = @ \o y.out]
        /\ alone' = (alone /\ k = 1)
  BY Zenon DEF ServerReads
<1> DEFINE units == srv[s].buf \o SubSeq(link[s], 1, k)
           x == [srv[s] EXCEPT !.buf = <<>>]
<1>2. PICK y \in Becomes(x, units) :
        /\ srv' = [srv EXCEPT ![s] = [y EXCEPT !.out = <<>>]]
        /\ reply' = [reply EXCEPT ![s] = @ \o y.out]
  BY <1>1, Zenon DEF Becomes
<1> DEFINE b == [y EXCEPT !.out = <<>>]  o == y.out
<1>3. reply' = [reply EXCEPT ![s] = reply[s] \o o]
  <2> HIDE DEF o
  <2>1. reply' = [reply EXCEPT ![s] = @ \o o]
    BY <1>2 DEF o
  <2> QED BY <2>1
<1>4. link' = [link EXCEPT ![s] = SubSeq(link[s], k + 1, Len(link[s]))] /\ alone' = (alone /\ k = 1)
  BY <1>1
<1> QED BY <1>2, <1>3, <1>4, Zenon

(* A server that reads: what comes of it.                                   *)
LEMMA Became ==
  ASSUME NEW x \in Storages, x.buf = <<>>, NEW units \in Seq(Sent), units # <<>>,
         x.phase = "sw" => Head(units) \in {Up, Down},
         NEW y \in Becomes(x, units)
  PROVE  /\ y.out \in Seq(Answers) /\ [y EXCEPT !.out = <<>>] \in Storages
         /\ [y EXCEPT !.out = <<>>].phase = y.phase /\ [y EXCEPT !.out = <<>>].buf = y.buf
         /\ x.phase = "sw" =>
              IF Head(units) = Up THEN y.phase = "up" /\ y.out = <<>>
              ELSE y.phase = "down" /\ y.out = <<Ack>> /\ y.buf = Tail(units)
         /\ x.phase = "down" => y.phase \in Reached /\ y.out \in Seq(Frames)
         /\ x.phase \notin {"sw", "down"} => y = x
         /\ x.phase # "sw" => y.out \in Seq(Frames)
<1>0. x.out = <<>> /\ x.phase \in {"sw", "up"} \cup Reached /\ x.dirs \in Dirs
  BY DEF Storages
<1> DEFINE e == <<>>  z == [y EXCEPT !.out = e]
<1>e. e = <<>> /\ e \in Seq(Answers) /\ e \in Seq(Frames) /\ e \in Seq(Sent)
  OBVIOUS
<1>1. CASE x.phase = "sw"
  <2> DEFINE t == Tail(units)  a == <<Ack>>  u == Head(units)
  <2>1. t \in Seq(Sent) /\ a \in Seq(Answers) /\ a = <<Ack>>
    BY DEF Answers
  <2>2. y = [switch(x, u) EXCEPT !.buf = t]
    BY <1>1 DEF Becomes
  <2> HIDE DEF t, a, u, e
  <2>3. CASE u = Up
    <3>1. y = [[x EXCEPT !.phase = "up"] EXCEPT !.buf = t]
      BY <2>2, <2>3 DEF switch
    <3>2. y \in Storages /\ y.phase = "up" /\ y.out = <<>>
      BY <2>1, <3>1 DEF Storages
    <3>3. z \in Storages /\ z.phase = y.phase /\ z.buf = y.buf
      BY <1>e, <3>2 DEF Storages
    <3> QED BY <1>1, <1>e, <2>3, <3>2, <3>3 DEF e, u
  <2>4. CASE u # Up
    <3>1. y = [[x EXCEPT !.phase = "down", !.out = a] EXCEPT !.buf = t]
      BY <2>2, <2>4 DEF switch, a
    <3> DEFINE m == [x EXCEPT !.phase = "down", !.out = a]
    <3>2. m \in [phase : {"sw", "up"} \cup Reached, buf : Seq(Sent), dirs : Dirs, out : Seq(Answers)]
          /\ m.phase = "down" /\ m.out = a
      BY <2>1 DEF Storages, Reached
    <3> HIDE DEF m
    <3>3. y \in [phase : {"sw", "up"} \cup Reached, buf : Seq(Sent), dirs : Dirs, out : Seq(Answers)]
          /\ y.phase = "down" /\ y.out = a /\ y.buf = t
      BY <2>1, <3>1, <3>2 DEF m
    <3>4. z \in Storages /\ z.phase = y.phase /\ z.buf = y.buf
      BY <1>e, <3>3 DEF Storages
    <3> QED BY <1>1, <1>e, <2>1, <2>4, <3>3, <3>4 DEF e, u, t
  <2> QED BY <2>3, <2>4
<1>2. CASE x.phase = "down"
  <2>1. x \in Answering
    BY <1>e, <1>2 DEF Storages, Answering, Reached
  <2>2. y \in downLoad(x, units)
    BY <1>2 DEF Becomes
  <2>3. y \in Answering
    BY <1>2, <2>1, <2>2, NamesRead
  <2> HIDE DEF e
  <2>4. z \in Storages /\ z.phase = y.phase /\ z.buf = y.buf
    BY <1>e, <2>3 DEF Storages, Answering
  <2>5. y.out \in Seq(Frames) /\ y.phase \in Reached
    BY <2>3 DEF Answering
  <2>6. y.out \in Seq(Answers)
    BY <2>5 DEF Answers
  <2> QED BY <1>2, <2>4, <2>5, <2>6 DEF e
<1>3. CASE x.phase \notin {"sw", "down"}
  <2>1. y = x
    BY <1>3 DEF Becomes
  <2> HIDE DEF e
  <2>2. z \in Storages /\ z.phase = y.phase /\ z.buf = y.buf
    BY <1>e, <2>1 DEF Storages
  <2> QED BY <1>0, <1>3, <1>e, <2>1, <2>2 DEF e
<1> QED BY <1>1, <1>2, <1>3

(* A server that reads: only server 0 waits for a word, and it answers the  *)
(* "down ack" when it goes from one phase to the other, and frames after    *)
(* that.                                                                    *)
LEMMA ServerTypes == ASSUME DInv, Inv, NEW s \in Servers, ServerReads(s) PROVE DInv'
<1>0. /\ link \in [Servers -> Seq(Sent)] /\ reply \in [Servers -> Seq(Answers)] /\ srv \in [Servers -> Storages]
      /\ link[s] \in Seq(Sent) /\ reply[s] \in Seq(Answers) /\ srv[s] \in Storages /\ alone \in BOOLEAN
      /\ 0 \in Servers /\ thr[0] \in Threads
  BY DownloadAssumption DEF DInv, Types
<1>00. Listed(thr[0], reply[0], srv[0]) /\ Asked(thr[0], link[0], srv[0], FileMap, knew)
  BY DEF DInv, Server0
<1> DEFINE x == [srv[s] EXCEPT !.buf = <<>>]
           units(k) == srv[s].buf \o SubSeq(link[s], 1, k)
<1>1. PICK k \in 1 .. Len(link[s]) : \E y \in Becomes(x, units(k)) :
        /\ link' = [link EXCEPT ![s] = SubSeq(link[s], k + 1, Len(link[s]))]
        /\ srv' = [srv EXCEPT ![s] = [y EXCEPT !.out = <<>>]]
        /\ reply' = [reply EXCEPT ![s] = reply[s] \o y.out]
        /\ alone' = (alone /\ k = 1)
  <2>1. Types
    BY DEF DInv
  <2> QED BY <2>1, Reads
<1>2. PICK y \in Becomes(x, units(k)) :
        /\ link' = [link EXCEPT ![s] = SubSeq(link[s], k + 1, Len(link[s]))]
        /\ srv' = [srv EXCEPT ![s] = [y EXCEPT !.out = <<>>]]
        /\ reply' = [reply EXCEPT ![s] = reply[s] \o y.out]
        /\ alone' = (alone /\ k = 1)
  BY <1>1
<1>3. UNCHANGED <<cl, wire, buf, px, FileMap, thr, back, file, knew>>
  BY DEF ServerReads
<1>4. /\ x \in Storages /\ x.buf = <<>> /\ x.phase = srv[s].phase
  <2> DEFINE e == <<>>
  <2>1. e \in Seq(Sent) /\ e = <<>>
    OBVIOUS
  <2> HIDE DEF e
  <2>2. [srv[s] EXCEPT !.buf = e] \in Storages /\ [srv[s] EXCEPT !.buf = e].buf = e
        /\ [srv[s] EXCEPT !.buf = e].phase = srv[s].phase
    BY <1>0, <2>1 DEF Storages
  <2> QED BY <2>1, <2>2 DEF e
<1> DEFINE now == SubSeq(link[s], 1, k)
           rest == SubSeq(link[s], k + 1, Len(link[s]))
<1>5. now \in Seq(Sent) /\ now # <<>> /\ Head(now) = Head(link[s]) /\ rest \in Seq(Sent) /\ link[s] # <<>>
  <2>1. link[s] \in Seq(Sent) /\ k \in 1 .. Len(link[s])
    BY <1>0
  <2>2. link[s] # <<>>
    BY <2>1
  <2> QED BY <2>1, <2>2, Part
<1>6. srv[s].buf \in Seq(Sent)
  BY <1>0 DEF Storages
<1> DEFINE us == units(k)
<1> HIDE DEF now, rest
<1>7. us \in Seq(Sent) /\ us # <<>> /\ (srv[s].buf = <<>> => Head(us) = Head(link[s]))
  <2>1. PICK l \in Seq(Sent), a \in Seq(Sent) : l = srv[s].buf /\ a = now
    BY <1>5, <1>6
  <2>2. l \o a \in Seq(Sent) /\ (l \o a = <<>> <=> l = <<>> /\ a = <<>>) /\ (l = <<>> => l \o a = a)
    BY Behind
  <2>3. us = l \o a
    BY <2>1 DEF now
  <2> HIDE DEF us
  <2> QED BY <1>5, <2>1, <2>2, <2>3
\* only server 0 is in the phase in which it waits for a word
<1>8. srv[s].phase = "sw" => s = 0 /\ Head(us) = Head(link[s]) /\ Head(us) \in {Up, Down}
  <2> SUFFICES ASSUME srv[s].phase = "sw" PROVE s = 0 /\ Head(us) = Head(link[s]) /\ Head(us) \in {Up, Down}
    OBVIOUS
  <2>1. s = 0
    BY DEF Inv, Silent, Deaf
  <2>2. srv[s].buf = <<>> /\ Head(link[s]) \in {Up, Down}
    BY <1>00, <1>5, <2>1 DEF Asked
  <2> HIDE DEF us
  <2> QED BY <1>7, <2>1, <2>2
<1> DEFINE v == [y EXCEPT !.out = <<>>]  o == y.out
<1>9. /\ o \in Seq(Answers) /\ v \in Storages /\ v.phase = y.phase
      /\ x.phase = "sw" => IF Head(us) = Up THEN y.phase = "up" /\ o = <<>> ELSE y.phase = "down" /\ o = <<Ack>>
      /\ x.phase = "down" => y.phase \in Reached /\ o \in Seq(Frames)
      /\ x.phase \notin {"sw", "down"} => y = x
  <2>1. y \in Becomes(x, us)
    OBVIOUS
  <2>2. x.phase = "sw" => Head(us) \in {Up, Down}
    BY <1>4, <1>8
  <2>3. x \in Storages /\ x.buf = <<>> /\ us \in Seq(Sent) /\ us # <<>>
    BY <1>4, <1>7
  <2> HIDE DEF x, us
  <2> QED BY <2>1, <2>2, <2>3, Became
<1>10. /\ link' = [link EXCEPT ![s] = rest] /\ srv' = [srv EXCEPT ![s] = v] /\ reply' = [reply EXCEPT ![s] = reply[s] \o o]
       /\ alone' = (alone /\ k = 1)
  BY <1>2 DEF rest
<1>11. x.phase \notin {"sw", "down"} => o = <<>>
  BY <1>4, <1>9 DEF Storages
<1>12. x.phase = srv[s].phase
  BY <1>4
<1> HIDE DEF us, v, o, x
<1>13. Types'
  <2>1. reply[s] \o o \in Seq(Answers)
    BY <1>0, <1>9
  <2>2. /\ link' \in [Servers -> Seq(Sent)] /\ srv' \in [Servers -> Storages] /\ reply' \in [Servers -> Seq(Answers)]
        /\ alone' \in BOOLEAN
    BY <1>0, <1>5, <1>9, <1>10, <2>1
  <2> QED BY <1>3, <2>2 DEF DInv, Types
<1>14. CASE s # 0
  <2>1. link'[0] = link[0] /\ srv'[0] = srv[0] /\ reply'[0] = reply[0]
    BY <1>0, <1>10, <1>14
  <2> QED BY <1>00, <1>3, <1>13, <2>1 DEF DInv, Server0
<1>15. CASE s = 0
  <2>1. link'[0] = rest /\ srv'[0] = v /\ reply'[0] = reply[0] \o o
    BY <1>0, <1>10, <1>15
  <2>2. CASE srv[0].phase = "sw"
    <3>1. thr[0].status # 3 /\ reply[0] = <<>>
      BY <1>00, <2>2 DEF Listed, Reached
    <3>2. CASE Head(us) = Up
      <4>1. v.phase = "up" /\ reply'[0] = <<>>
        BY <1>9, <1>12, <1>15, <2>1, <2>2, <3>1, <3>2
      <4> QED BY <1>00, <1>3, <1>13, <2>1, <2>2, <3>1, <4>1 DEF DInv, Server0, Listed, Asked, Reached
    <3>3. CASE Head(us) # Up
      <4>1. v.phase = "down" /\ reply'[0] = <<Ack>>
        <5>1. o = <<Ack>> /\ v.phase = "down"
          BY <1>9, <1>12, <1>15, <2>2, <3>3
        <5>2. <<>> \o <<Ack>> = <<Ack>>
          OBVIOUS
        <5> QED BY <2>1, <3>1, <5>1, <5>2
      <4>2. Head(link[0]) # Up /\ link[0] # <<>>
        BY <1>5, <1>8, <1>15, <2>2, <3>3
      <4>3. thr[0].status = 2 /\ ~knew /\ ~thr[0].appends
        BY <1>0, <1>00, <2>2, <3>1, <4>2 DEF Asked, Threads
      <4>4. reply'[0] # <<>> /\ Head(reply'[0]) = Ack /\ Tail(reply'[0]) \in Seq(Frames)
        <5>1. <<Ack>> # <<>> /\ Head(<<Ack>>) = Ack /\ Tail(<<Ack>>) = <<>> /\ <<>> \in Seq(Frames)
          OBVIOUS
        <5> QED BY <4>1, <5>1
      <4> QED BY <1>3, <1>13, <2>1, <4>1, <4>3, <4>4 DEF DInv, Server0, Listed, Asked, Reached
    <3> QED BY <3>2, <3>3
  <2>3. CASE srv[0].phase = "down"
    <3>1. v.phase \in Reached /\ o \in Seq(Frames)
      BY <1>9, <1>12, <1>15, <2>3
    <3>2. /\ thr[0].status # 1
          /\ thr[0].status = 2 => reply[0] # <<>> /\ Head(reply[0]) = Ack /\ Tail(reply[0]) \in Seq(Frames)
          /\ thr[0].status = 3 => reply[0] \in Seq(Frames)
      BY <1>00, <2>3 DEF Listed, Reached
    <3>3. thr[0].status = 2 => reply'[0] # <<>> /\ Head(reply'[0]) = Ack /\ Tail(reply'[0]) \in Seq(Frames)
      <4> SUFFICES ASSUME thr[0].status = 2
                   PROVE  reply'[0] # <<>> /\ Head(reply'[0]) = Ack /\ Tail(reply'[0]) \in Seq(Frames)
        OBVIOUS
      <4>1. PICK l \in Seq(Answers), a \in Seq(Answers) : l = reply[0] /\ a = o
        BY <1>0, <1>9, <1>15
      <4>2. l # <<>> => l \o a # <<>> /\ Head(l \o a) = Head(l) /\ Tail(l \o a) = Tail(l) \o a
        BY Behind
      <4>3. Tail(l) \o a \in Seq(Frames)
        BY <3>1, <3>2, <4>1
      <4> QED BY <2>1, <3>2, <4>1, <4>2, <4>3
    <3>4. thr[0].status = 3 => reply'[0] \in Seq(Frames)
      BY <2>1, <3>1, <3>2
    <3>5. Listed(thr[0], reply'[0], v)
      BY <3>1, <3>2, <3>3, <3>4 DEF Listed
    <3>6. Asked(thr[0], rest, v, FileMap, knew)
      BY <1>00, <2>3, <3>1 DEF Asked, Reached
    <3> QED BY <1>3, <1>13, <2>1, <3>5, <3>6 DEF DInv, Server0
  <2>4. CASE srv[0].phase \notin {"sw", "down"}
    <3>1. v.phase = srv[0].phase /\ o = <<>>
      BY <1>9, <1>11, <1>12, <1>15, <2>4
    <3>2. reply'[0] = reply[0]
      BY <1>0, <1>15, <2>1, <3>1
    <3> QED BY <1>00, <1>3, <1>13, <2>1, <2>4, <3>1, <3>2 DEF DInv, Server0, Listed, Asked
  <2> QED BY <2>2, <2>3, <2>4
<1> QED BY <1>14, <1>15

(* The inductive invariant: the types of all that travels, and the order in *)
(* which server 0 is asked and answers.                                     *)
THEOREM DownloadsAreOrdered == Spec => [](Inv /\ DInv)
<1>1. Init => Inv /\ DInv
  BY InitInv, TypesInit
<1>2. Inv /\ DInv /\ [Next]_vars => (Inv /\ DInv)'
  <2> SUFFICES ASSUME Inv, DInv, [Next]_vars PROVE Inv' /\ DInv'
    OBVIOUS
  <2>1. Inv'
    BY NextInv
  <2>2. ASSUME NEW c \in Clients, Start(c) \/ Read(c) \/ Write(c) \/ Kill(c) \/ Gone(c) PROVE DInv'
    BY <2>2, StartTypes, ReadTypes, EndTypes
  <2>3. ASSUME NEW s \in Servers, Thread(s) \/ ServerReads(s) PROVE DInv'
    BY <2>3, ThreadTypes, ServerTypes
  <2>4. CASE UNCHANGED vars
    BY <2>1, <2>4 DEF vars, DInv, Types, Server0, Listed, Asked
  <2> QED BY <2>1, <2>2, <2>3, <2>4 DEF Next
<1> QED BY <1>1, <1>2, PTL DEF Spec

(* What the proxy passes on, to whichever client, and what a client writes, *)
(* are pages that server 0 holds once and whole.                            *)
THEOREM PassedOnIsVerified == Spec => []DeliveredIsVerified
<1>1. DInv => DeliveredIsVerified
  <2> SUFFICES ASSUME DInv, NEW c \in Clients, NEW x \in Range(back[c]) \cup Range(file[c])
               PROVE  x \in Stored /\ x.copies = 1
    BY DEF DeliveredIsVerified
  <2>1. back[c] \in Seq(Verifies) /\ file[c] \in Seq(Verifies)
    BY DEF DInv, Types
  <2>2. x \in Verifies
    BY <2>1 DEF Range
  <2> QED BY <2>2 DEF Verifies
<1> QED BY <1>1, DownloadsAreOrdered, PTL

(* A thread appends a block only when the name was learned after server 0   *)
(* was asked for it.                                                        *)
THEOREM DeliveryIsOvertaken == Spec => []DeliversOnlyOvertaken
<1>1. Inv /\ DInv => DeliversOnlyOvertaken
  <2> SUFFICES ASSUME Inv, DInv, NEW s \in Servers, thr[s].appends PROVE ~knew /\ Wanted \in FileMap
    BY DEF DeliversOnlyOvertaken
  <2>1. s = 0
    BY DEF Inv, Silent
  <2>2. Listed(thr[0], reply[0], srv[0]) /\ Asked(thr[0], link[0], srv[0], FileMap, knew)
    BY DEF DInv, Server0
  <2> QED BY <2>1, <2>2 DEF Listed, Asked, Reached
<1> QED BY <1>1, DownloadsAreOrdered, PTL

-----------------------------------------------------------------------------
(* The first unit of a sequence of one or two, and the rest.                *)
LEMMA Pieces ==
  ASSUME NEW a, NEW b
  PROVE  /\ SubSeq(<<a>>, 1, 1) = <<a>> /\ SubSeq(<<a>>, 2, Len(<<a>>)) = <<>>
         /\ SubSeq(<<a, b>>, 1, 1) = <<a>> /\ SubSeq(<<a, b>>, 2, Len(<<a, b>>)) = <<b>>
<1> DEFINE S == {a, b}  one == <<a>>  two == <<a, b>>  last == <<b>>
<1>1. one \in Seq(S) /\ Len(one) = 1 /\ one[1] = a
  OBVIOUS
<1>2. two \in Seq(S) /\ Len(two) = 2 /\ two[1] = a /\ two[2] = b
  OBVIOUS
<1>3. last \in Seq(S) /\ Len(last) = 1 /\ last[1] = b
  OBVIOUS
<1> HIDE DEF S, one, two, last
<1>4. SubSeq(one, 1, 1) \in Seq(S) /\ Len(SubSeq(one, 1, 1)) = 1 /\ SubSeq(one, 1, 1)[1] = a
  BY <1>1
<1>5. SubSeq(one, 1, 1) = one
  BY <1>1, <1>4, SeqEqual
<1>6. SubSeq(one, 2, 1) = <<>>
  BY <1>1
<1>7. SubSeq(two, 1, 1) \in Seq(S) /\ Len(SubSeq(two, 1, 1)) = 1 /\ SubSeq(two, 1, 1)[1] = a
  BY <1>2, SubSeqProperties
<1>8. SubSeq(two, 1, 1) = one
  BY <1>1, <1>7, SeqEqual
<1>9. SubSeq(two, 2, 2) \in Seq(S) /\ Len(SubSeq(two, 2, 2)) = 1 /\ SubSeq(two, 2, 2)[1] = b
  BY <1>2, SubSeqProperties
<1>10. SubSeq(two, 2, 2) = last
  BY <1>3, <1>9, SeqEqual
<1> QED BY <1>1, <1>2, <1>5, <1>6, <1>8, <1>10 DEF one, two, last

(* The stages of a download that is alone: of its client with the input     *)
(* buffer b, and of server 0 with its thread.  A word or a name travels on  *)
(* its own, so nothing stays in a buffer that waits for it.                 *)
Stage(state, w, b, g) ==
  \/ state = "idle" /\ w = <<>> /\ b = <<>> /\ g.Operate = "sw"
  \/ state = "open" /\ w = <<Down, One>> /\ b = <<>> /\ g.Operate = "sw"
  \/ state = "open" /\ w = <<One>> /\ b = <<>> /\ g.Operate = "down"
  \/ state = "open" /\ w = <<>> /\ g.Operate = "gg"

Served(t, l, q, v) ==
  \/ t.status = 1 /\ l = <<>> /\ q = <<>> /\ v.phase = "sw" /\ v.buf = <<>> /\ t.read = 0
  \/ t.status = 2 /\ l = <<Down>> /\ q = <<>> /\ v.phase = "sw" /\ v.buf = <<>> /\ t.read = 0
  \/ t.status = 2 /\ l = <<>> /\ q = <<Ack>> /\ v.phase = "down" /\ v.buf = <<>> /\ t.read = 0
  \/ t.status = 3 /\ l = <<Name(Wanted)>> /\ q = <<>> /\ v.phase = "down" /\ v.buf = <<>> /\ t.read = 0
  \/ t.status = 3 /\ l = <<>> /\ v.phase = "down" /\ t.read + Len(q) = Cardinality(Stored)
  \/ t.status = 3 /\ l = <<>> /\ v.phase = "exited"

AInv ==
  alone => /\ \A c \in Downloads : Stage(cl[c], wire[c], buf[c], px)
           /\ \A c \in Clients \ Downloads : cl[c] = "idle"
           /\ Served(thr[0], link[0], reply[0], srv[0])

(* Before the one client starts, nothing travels.                           *)
LEMMA AloneInit == Init => AInv
<1> SUFFICES ASSUME Init PROVE AInv
  OBVIOUS
<1>1. PICK d \in Dirs : srv = [s \in Servers |-> Connected(s, d)]
  BY DEF Init
<1>2. srv[0].phase = "sw" /\ srv[0].buf = <<>>
  BY <1>1, DownloadAssumption DEF Connected, MainOfServer, Sync
<1>3. thr[0].status = 1 /\ thr[0].read = 0 /\ link[0] = <<>> /\ reply[0] = <<>>
  BY DownloadAssumption DEF Init
<1>4. \A c \in Clients : cl[c] = "idle" /\ wire[c] = <<>> /\ buf[c] = <<>>
  BY DEF Init
<1>5. px.Operate = "sw"
  BY DEF Init
<1> QED BY <1>2, <1>3, <1>4, <1>5 DEF AInv, Stage, Served, Clients

(* The bound on the clients: a set of one has one member.                   *)
LEMMA OneDownload == \A c, d \in Downloads : c = d
<1>1. IsFiniteSet(Downloads)
  BY DownloadAssumption, FS_Subset DEF Clients
<1>2. \E d : Downloads = {d}
  BY <1>1, DownloadAssumption, FS_Singleton
<1> QED BY <1>2

(* The words of the client, one in each callback.                           *)
LEMMA WordRead ==
  ASSUME NEW h, NEW g \in Globals, h = [px |-> g, map |-> FileMap, buf |-> <<Down>>, all |-> <<>>, end |-> FALSE, wild |-> FALSE],
         g.Operate = "sw"
  PROVE  onMessage(h).px.Operate = "down" /\ onMessage(h).buf = <<>> /\ onMessage(h).all = <<>> /\ onMessage(h).px \in Globals
<1>1. onMessage(h) = switchOperate(h)
  BY DEF onMessage
<1>2. Head(h.buf) = Down /\ Tail(h.buf) = <<>> /\ Down # Up
  BY DEF Down, Up
<1> DEFINE e == <<>>
<1>3. switchOperate(h) = [h EXCEPT !.px.Operate = "down", !.buf = Tail(@)]
  BY <1>2 DEF switchOperate
<1>4. switchOperate(h) = [h EXCEPT !.px = [g EXCEPT !.Operate = "down"], !.buf = e]
  BY <1>2, <1>3
<1> HIDE DEF e
<1>5. [g EXCEPT !.Operate = "down"] \in Globals /\ [g EXCEPT !.Operate = "down"].Operate = "down"
  BY DEF Globals
<1> QED BY <1>1, <1>4, <1>5 DEF e

(* The "1" that starts the threads; it stays in the input buffer.           *)
LEMMA StartRead ==
  ASSUME NEW h, NEW g \in Globals, h.px = g, h.all = <<>>, g.Operate = "down",
         DOMAIN h = {"px", "map", "buf", "all", "end", "wild"}, h = [i \in DOMAIN h |-> h[i]]
  PROVE  onMessage(h).px.Operate = "gg" /\ onMessage(h).all = <<>> /\ onMessage(h).px \in Globals
<1>1. onMessage(h) = startThreads(h)
  BY DEF onMessage
<1> DEFINE p == [g EXCEPT !.Operate = "gg", !.started = TRUE]
<1>2. p \in Globals /\ p.Operate = "gg"
  BY DEF Globals
<1>3. startThreads(h) = [h EXCEPT !.px = p]
  BY DEF startThreads
<1> HIDE DEF p
<1> QED BY <1>1, <1>2, <1>3

(* A callback of the proxy moves the download to its next stage.            *)
LEMMA ReadAlone == ASSUME DInv, AInv, NEW c \in Clients, Read(c) PROVE AInv'
<1> DEFINE h0(k) == [px |-> px, map |-> FileMap, buf |-> buf[c] \o SubSeq(wire[c], 1, k),
                     all |-> <<>>, end |-> FALSE, wild |-> FALSE]
<1>0. /\ px \in Globals /\ wire[c] \in Seq(Words) /\ buf[c] \in Seq(Words)
      /\ wire \in [Clients -> Seq(Words)] /\ buf \in [Clients -> Seq(Words)]
      /\ link \in [Servers -> Seq(Sent)] /\ alone \in BOOLEAN
  BY DEF DInv, Types
<1>1. PICK k \in 1 .. Len(wire[c]) :
        LET h == onMessage(h0(k)) IN
        /\ wire' = [wire EXCEPT ![c] = SubSeq(@, k + 1, Len(@))]
        /\ buf' = [buf EXCEPT ![c] = h.buf]
        /\ \E alive \in IF h.wild THEN BOOLEAN ELSE {TRUE} : px' = [h.px EXCEPT !.alive = alive]
        /\ FileMap' = h.map
        /\ link' = ToAll(link, h.all)
        /\ alone' = (alone /\ k = 1)
  BY Zenon DEF Read
<1>2. UNCHANGED <<cl, thr, reply, srv>> /\ cl[c] \in {"open", "killed"}
  BY DEF Read
<1> SUFFICES ASSUME alone' PROVE AInv'
  BY DEF AInv
<1>3. alone /\ k = 1
  BY <1>1
<1>4. c \in Downloads /\ Stage(cl[c], wire[c], buf[c], px) /\ wire[c] # <<>>
      /\ Served(thr[0], link[0], reply[0], srv[0]) /\ \A d \in Clients \ Downloads : cl[d] = "idle"
  <2>1. wire[c] # <<>>
    BY <1>0
  <2> QED BY <1>2, <1>3, <2>1 DEF AInv
<1> DEFINE h == onMessage(h0(1))
<1>5. /\ wire' = [wire EXCEPT ![c] = SubSeq(wire[c], 2, Len(wire[c]))]
      /\ buf' = [buf EXCEPT ![c] = h.buf]
      /\ \E alive \in BOOLEAN : px' = [h.px EXCEPT !.alive = alive]
      /\ link' = ToAll(link, h.all)
  <2>1. LET g == onMessage(h0(k)) IN
        /\ wire' = [wire EXCEPT ![c] = SubSeq(wire[c], k + 1, Len(wire[c]))]
        /\ buf' = [buf EXCEPT ![c] = g.buf]
        /\ \E alive \in BOOLEAN : px' = [g.px EXCEPT !.alive = alive]
        /\ link' = ToAll(link, g.all)
    <3> DEFINE g == onMessage(h0(k))
    <3> HIDE DEF g
    <3>1. /\ wire' = [wire EXCEPT ![c] = SubSeq(@, k + 1, Len(@))]
          /\ buf' = [buf EXCEPT ![c] = g.buf]
          /\ \E alive \in IF g.wild THEN BOOLEAN ELSE {TRUE} : px' = [g.px EXCEPT !.alive = alive]
          /\ link' = ToAll(link, g.all)
      BY <1>1 DEF g
    <3>2. \E alive \in BOOLEAN : px' = [g.px EXCEPT !.alive = alive]
      BY <3>1
    <3> QED BY <3>1, <3>2 DEF g
  <2>2. k = 1 /\ k + 1 = 2
    BY <1>3
  <2> HIDE DEF h0
  <2> QED BY <2>1, <2>2
<1>6. CASE wire[c] = <<Down, One>>
  <2>1. buf[c] = <<>> /\ px.Operate = "sw"
    <3>1. <<Down, One>> # <<One>> /\ <<Down, One>> # <<>>
      OBVIOUS
    <3> QED BY <1>4, <1>6, <3>1 DEF Stage
  <2>2. buf[c] \o SubSeq(wire[c], 1, 1) = <<Down>> /\ SubSeq(wire[c], 2, Len(wire[c])) = <<One>>
    <3>1. SubSeq(<<Down, One>>, 1, 1) = <<Down>> /\ SubSeq(<<Down, One>>, 2, Len(<<Down, One>>)) = <<One>>
      BY Pieces
    <3>2. <<>> \o <<Down>> = <<Down>>
      OBVIOUS
    <3> QED BY <1>6, <2>1, <3>1, <3>2
  <2>3. h0(1) = [px |-> px, map |-> FileMap, buf |-> <<Down>>, all |-> <<>>, end |-> FALSE, wild |-> FALSE]
    BY <2>2
  <2> HIDE DEF h0
  <2>4. h.px.Operate = "down" /\ h.buf = <<>> /\ h.all = <<>> /\ h.px \in Globals
    BY <1>0, <2>1, <2>3, WordRead
  <2> HIDE DEF h
  <2>5. px'.Operate = "down" /\ wire'[c] = <<One>> /\ buf'[c] = <<>> /\ link'[0] = link[0]
    BY <1>0, <1>5, <2>2, <2>4, DownloadAssumption DEF ToAll, Globals
  <2>6. Stage(cl'[c], wire'[c], buf'[c], px')
    BY <1>2, <1>4, <1>6, <2>5 DEF Stage
  <2> QED BY <1>2, <1>4, <2>5, <2>6, OneDownload DEF AInv
<1>7. CASE wire[c] = <<One>>
  <2>1. buf[c] = <<>> /\ px.Operate = "down"
    <3>1. <<Down, One>> # <<One>> /\ <<One>> # <<>>
      OBVIOUS
    <3> QED BY <1>4, <1>7, <3>1 DEF Stage
  <2>2. SubSeq(wire[c], 2, Len(wire[c])) = <<>>
    BY <1>7
  <2>3. h0(1).px = px /\ h0(1).all = <<>> /\ DOMAIN h0(1) = {"px", "map", "buf", "all", "end", "wild"}
        /\ h0(1) = [i \in DOMAIN h0(1) |-> h0(1)[i]]
    <3> DEFINE z == buf[c] \o SubSeq(wire[c], 1, 1)
    <3> HIDE DEF z
    <3> QED BY DEF z
  <2> HIDE DEF h0
  <2>4. h.px.Operate = "gg" /\ h.all = <<>> /\ h.px \in Globals
    BY <1>0, <2>1, <2>3, StartRead
  <2> HIDE DEF h
  <2>5. px'.Operate = "gg" /\ wire'[c] = <<>> /\ link'[0] = link[0]
    BY <1>0, <1>5, <2>2, <2>4, DownloadAssumption DEF ToAll, Globals
  <2>6. Stage(cl'[c], wire'[c], buf'[c], px')
    BY <1>2, <1>4, <1>7, <2>5 DEF Stage
  <2> QED BY <1>2, <1>4, <2>5, <2>6, OneDownload DEF AInv
<1> QED BY <1>4, <1>6, <1>7 DEF Stage

(* The other steps of the clients.                                          *)
LEMMA StartAlone == ASSUME DInv, AInv, NEW c \in Clients, Start(c) \/ Write(c) \/ Kill(c) \/ Gone(c) PROVE AInv'
<1>0. cl \in [Clients -> {"idle", "open", "killed", "closed"}] /\ wire \in [Clients -> Seq(Words)] /\ px \in Globals
  BY DEF DInv, Types
<1>1. UNCHANGED <<link, thr, reply, srv>>
  BY DEF Start, Write, Kill, Gone
<1> SUFFICES ASSUME alone' PROVE AInv'
  BY DEF AInv
<1>2. CASE Start(c)
  <2>1. c \in Downloads /\ alone /\ cl[c] = "idle"
    BY <1>2 DEF Start
  <2>2. wire' = [wire EXCEPT ![c] = <<Down, One>>] /\ cl' = [cl EXCEPT ![c] = "open"] /\ buf' = buf
        /\ px' = [px EXCEPT !.Operate = "sw", !.upStatu = 1]
    BY <1>2, <2>1 DEF Start, mySocket2, onConnection
  <2>3. buf[c] = <<>>
    BY <2>1 DEF AInv, Stage
  <2>4. px'.Operate = "sw"
    BY <1>0, <2>2 DEF Globals
  <2>5. Stage(cl'[c], wire'[c], buf'[c], px')
    BY <1>0, <2>2, <2>3, <2>4 DEF Stage
  <2>6. \A d \in Clients \ Downloads : cl'[d] = "idle"
    BY <1>0, <2>1, <2>2 DEF AInv
  <2> QED BY <1>1, <2>1, <2>5, <2>6, OneDownload DEF AInv
<1>3. CASE Write(c)
  BY <1>1, <1>3 DEF Write, AInv
<1>4. CASE Kill(c)
  <2>1. alone /\ c \notin Downloads /\ cl[c] = "open"
    BY <1>4 DEF Kill
  <2> QED BY <2>1 DEF AInv
<1>5. CASE Gone(c)
  <2>1. alone /\ cl[c] = "killed"
    BY <1>5 DEF Gone
  <2> QED BY <2>1 DEF AInv, Stage
<1> QED BY <1>2, <1>3, <1>4, <1>5

(* The download threads.                                                    *)
LEMMA ThreadAlone == ASSUME DInv, Inv, AInv, NEW s \in Servers, Thread(s) PROVE AInv'
<1>0. /\ thr \in [Servers -> Threads] /\ link \in [Servers -> Seq(Sent)] /\ reply \in [Servers -> Seq(Answers)]
      /\ thr[s] \in Threads /\ link[s] \in Seq(Sent) /\ reply[s] \in Seq(Answers) /\ px \in Globals
      /\ 0 \in Servers
  BY DownloadAssumption DEF DInv, Types
<1>1. UNCHANGED <<cl, wire, buf, srv>>
  BY DEF Thread, senddownload, sendFileName, resvBlockFile
<1> SUFFICES ASSUME alone' PROVE AInv'
  BY DEF AInv
<1>2. alone
  BY DEF Thread, senddownload, sendFileName, resvBlockFile
<1>3. \A c \in Downloads : Stage(cl'[c], wire'[c], buf'[c], px')
  <2>1. px'.Operate = px.Operate
    <3>1. px' = px \/ px' = [px EXCEPT !.alive = FALSE]
      BY DEF Thread, senddownload, sendFileName, resvBlockFile
    <3> QED BY <1>0, <3>1 DEF Globals
  <2> QED BY <1>1, <1>2, <2>1 DEF AInv, Stage
<1>4. Served(thr[0], link[0], reply[0], srv[0])
  BY <1>2 DEF AInv
<1>5. SUFFICES Served(thr'[0], link'[0], reply'[0], srv[0])
  BY <1>1, <1>2, <1>3 DEF AInv
<1>6. CASE s # 0
  <2>1. thr'[0] = thr[0] /\ link'[0] = link[0] /\ reply'[0] = reply[0]
    BY <1>0, <1>6, Zenon DEF Thread, senddownload, sendFileName, resvBlockFile
  <2> QED BY <1>4, <2>1
<1>7. CASE s = 0 /\ senddownload(s)
  <2> DEFINE t == [thr[0] EXCEPT !.status = 2]
  <2>1. /\ thr[0].status = 1 /\ thr'[0] = t /\ link'[0] = Append(link[0], Down) /\ reply'[0] = reply[0]
    BY <1>0, <1>7 DEF senddownload
  <2>2. t.status = 2 /\ t.read = thr[0].read
    BY <1>0, <1>7 DEF Threads
  <2>3. link[0] = <<>> /\ reply[0] = <<>> /\ srv[0].phase = "sw" /\ srv[0].buf = <<>> /\ thr[0].read = 0
    BY <1>4, <2>1 DEF Served
  <2>4. Append(<<>>, Down) = <<Down>>
    OBVIOUS
  <2> HIDE DEF t
  <2> QED BY <2>1, <2>2, <2>3, <2>4 DEF Served
<1>8. CASE s = 0 /\ sendFileName(s)
  <2> DEFINE t == [thr[0] EXCEPT !.status = 3]
  <2>1. /\ thr[0].status = 2 /\ reply[0] # <<>> /\ thr'[0] = t /\ link'[0] = Append(link[0], Name(Wanted))
        /\ reply'[0] = Tail(reply[0])
    BY <1>0, <1>8 DEF sendFileName
  <2>2. t.status = 3 /\ t.read = thr[0].read
    BY <1>0, <1>8 DEF Threads
  <2>3. link[0] = <<>> /\ reply[0] = <<Ack>> /\ srv[0].phase = "down" /\ srv[0].buf = <<>> /\ thr[0].read = 0
    BY <1>4, <2>1 DEF Served
  <2>4. Append(<<>>, Name(Wanted)) = <<Name(Wanted)>> /\ Tail(<<Ack>>) = <<>>
    OBVIOUS
  <2> HIDE DEF t
  <2> QED BY <2>1, <2>2, <2>3, <2>4 DEF Served
<1>9. CASE s = 0 /\ resvBlockFile(s)
  <2> DEFINE frames(k) == SubSeq(reply[s], 1, k)
             good(k) == IF thr[s].lost \/ Wanted \notin FileMap THEN <<>> ELSE Verified(Whole(frames(k)))
             l(k) == thr[s].lost \/ Whole(frames(k)) # frames(k)
             a(k) == thr[s].appends \/ good(k) # <<>>
  <2>1. PICK k \in 1 .. Len(reply[s]) :
          /\ reply' = [reply EXCEPT ![s] = SubSeq(@, k + 1, Len(@))]
          /\ thr' = [thr EXCEPT ![s].lost = l(k), ![s].read = @ + k, ![s].appends = a(k)]
          /\ alone' = (alone /\ k = 1)
    BY <1>9, Zenon DEF resvBlockFile
  <2>2. thr[0].status = 3 /\ link' = link
    BY <1>9 DEF resvBlockFile
  <2>3. k = 1
    BY <2>1
  <2> HIDE DEF l, a
  <2>4. thr'[0].status = thr[0].status /\ thr'[0].read = thr[0].read + 1
    BY <1>0, <1>9, <2>1, <2>3 DEF Threads
  <2>5. reply'[0] = SubSeq(reply[0], 2, Len(reply[0])) /\ Len(reply[0]) >= 1
    <3>1. reply' = [reply EXCEPT ![s] = SubSeq(reply[s], k + 1, Len(reply[s]))]
      BY <2>1
    <3>2. k + 1 = 2
      BY <2>3
    <3> QED BY <1>0, <1>9, <2>3, <3>1, <3>2
  <2>6. Len(reply'[0]) = Len(reply[0]) - 1 /\ reply[0] # <<>>
    <3>1. PICK q \in Seq(Answers) : q = reply[0]
      BY <1>0
    <3>2. Len(q) \in Nat /\ \A i \in 1 .. Len(q) : q[i] \in Answers
      OBVIOUS
    <3>3. Len(q) >= 1 => Len(SubSeq(q, 2, Len(q))) = Len(q) - 1 /\ q # <<>>
      <4>1. ASSUME Len(q) >= 1 PROVE Len(SubSeq(q, 2, Len(q))) = Len(q) - 1
        <5>1. 2 \in Int /\ Len(q) \in Int /\ \A i \in 2 .. Len(q) : q[i] \in Answers
          BY <3>2
        <5>2. Len(SubSeq(q, 2, Len(q))) = IF 2 <= Len(q) THEN Len(q) - 2 + 1 ELSE 0
          BY <5>1, SubSeqProperties
        <5> DEFINE m == Len(SubSeq(q, 2, Len(q)))  n == Len(q)
        <5>3. m = (IF 2 <= n THEN n - 2 + 1 ELSE 0) /\ n \in Nat /\ n >= 1
          BY <3>2, <4>1, <5>2
        <5> HIDE DEF m, n
        <5>4. m = n - 1
          BY <5>3
        <5> QED BY <5>4 DEF m, n
      <4>2. Len(q) >= 1 => q # <<>>
        OBVIOUS
      <4> QED BY <4>1, <4>2
    <3> QED BY <2>5, <3>1, <3>3
  <2>7. thr[0].read \in Nat /\ Len(reply[0]) \in Nat
    BY <1>0, <1>9 DEF Threads
  <2> QED BY <1>4, <2>2, <2>4, <2>6, <2>7 DEF Served
<1> QED BY <1>6, <1>7, <1>8, <1>9 DEF Thread

(* Server 0 reads the one word, or the one name.                            *)
LEMMA ServerAlone == ASSUME DInv, AInv, NEW s \in Servers, ServerReads(s) PROVE AInv'
<1>0. /\ link \in [Servers -> Seq(Sent)] /\ reply \in [Servers -> Seq(Answers)] /\ srv \in [Servers -> Storages]
      /\ link[0] \in Seq(Sent) /\ reply[0] \in Seq(Answers) /\ srv[0] \in Storages /\ alone \in BOOLEAN
      /\ 0 \in Servers /\ thr[0] \in Threads /\ Types
  BY DownloadAssumption DEF DInv, Types
<1>1. UNCHANGED <<cl, wire, buf, px, thr>>
  BY DEF ServerReads
<1> SUFFICES ASSUME alone' PROVE AInv'
  BY DEF AInv
<1> DEFINE x == [srv[s] EXCEPT !.buf = <<>>]
           units(k) == srv[s].buf \o SubSeq(link[s], 1, k)
<1>2. PICK k \in 1 .. Len(link[s]) : \E y \in Becomes(x, units(k)) :
        /\ link' = [link EXCEPT ![s] = SubSeq(link[s], k + 1, Len(link[s]))]
        /\ srv' = [srv EXCEPT ![s] = [y EXCEPT !.out = <<>>]]
        /\ reply' = [reply EXCEPT ![s] = reply[s] \o y.out]
        /\ alone' = (alone /\ k = 1)
  BY <1>0, Reads
<1>3. PICK y \in Becomes(x, units(k)) :
        /\ link' = [link EXCEPT ![s] = SubSeq(link[s], k + 1, Len(link[s]))]
        /\ srv' = [srv EXCEPT ![s] = [y EXCEPT !.out = <<>>]]
        /\ reply' = [reply EXCEPT ![s] = reply[s] \o y.out]
        /\ alone' = (alone /\ k = 1)
  BY <1>2
<1>4. alone /\ k = 1 /\ k + 1 = 2
  <2>1. alone' = (alone /\ k = 1)
    BY <1>3
  <2>2. alone /\ k = 1
    BY <2>1
  <2> QED BY <2>2
<1>5. Served(thr[0], link[0], reply[0], srv[0])
  BY <1>4 DEF AInv
<1>6. SUFFICES Served(thr[0], link'[0], reply'[0], srv'[0])
  BY <1>1, <1>4 DEF AInv
<1>7. CASE s # 0
  <2>1. link'[0] = link[0] /\ reply'[0] = reply[0] /\ srv'[0] = srv[0]
    BY <1>0, <1>3, <1>7
  <2> QED BY <1>5, <2>1
<1>8. CASE s = 0
  <2>1. /\ x \in Storages /\ x.buf = <<>> /\ x.phase = srv[0].phase
    <3> DEFINE e == <<>>
    <3>1. e \in Seq(Sent) /\ e = <<>>
      OBVIOUS
    <3> HIDE DEF e
    <3>2. [srv[0] EXCEPT !.buf = e] \in Storages /\ [srv[0] EXCEPT !.buf = e].buf = e
          /\ [srv[0] EXCEPT !.buf = e].phase = srv[0].phase
      BY <1>0, <3>1 DEF Storages
    <3> QED BY <1>8, <3>1, <3>2 DEF e
  <2> DEFINE v == [y EXCEPT !.out = <<>>]  o == y.out  us == units(k)  rest == SubSeq(link[0], 2, Len(link[0]))
  <2>2. link'[0] = rest /\ srv'[0] = v /\ reply'[0] = reply[0] \o o
    BY <1>0, <1>3, <1>4, <1>8
  <2>3. us = srv[0].buf \o SubSeq(link[0], 1, 1)
    BY <1>4, <1>8
  <2>4. Len(link[0]) # 0 /\ link[0] # <<>>
    BY <1>0, <1>8
  <2>5. y \in Becomes(x, us)
    OBVIOUS
  <2> HIDE DEF x, us, v, o, rest
  <2>6. CASE link[0] = <<Down>>
    <3>1. thr[0].status = 2 /\ reply[0] = <<>> /\ srv[0].phase = "sw" /\ srv[0].buf = <<>> /\ thr[0].read = 0
      <4>1. <<Down>> # <<>> /\ <<Down>> # <<Name(Wanted)>>
        BY DEF Down, Name
      <4> QED BY <1>5, <2>6, <4>1 DEF Served
    <3>2. us = <<Down>> /\ rest = <<>>
      <4>1. SubSeq(<<Down>>, 1, 1) = <<Down>> /\ SubSeq(<<Down>>, 2, Len(<<Down>>)) = <<>>
        BY Pieces
      <4>2. <<>> \o <<Down>> = <<Down>>
        OBVIOUS
      <4> QED BY <2>3, <2>6, <3>1, <4>1, <4>2 DEF rest
    <3>3. us \in Seq(Sent) /\ us # <<>> /\ Head(us) = Down /\ Tail(us) = <<>> /\ Down # Up
      BY <3>2 DEF Sent, Down, Up
    <3>4. y.phase = "down" /\ o = <<Ack>> /\ v.phase = y.phase /\ v.buf = <<>>
      <4>1. x.phase = "sw" /\ Head(us) \in {Up, Down} /\ Head(us) # Up
        BY <2>1, <3>1, <3>3
      <4>2. us \in Seq(Sent) /\ us # <<>>
        BY <3>3
      <4>3. /\ v.phase = y.phase /\ v.buf = y.buf
            /\ x.phase = "sw" => IF Head(us) = Up THEN y.phase = "up" /\ y.out = <<>>
                                 ELSE y.phase = "down" /\ y.out = <<Ack>> /\ y.buf = Tail(us)
        <5>1. x \in Storages /\ x.buf = <<>> /\ (x.phase = "sw" => Head(us) \in {Up, Down})
          BY <2>1, <4>1
        <5> QED BY <2>5, <4>2, <5>1, Became DEF v
      <4> QED BY <3>3, <4>1, <4>3 DEF v, o
    <3>5. reply'[0] = <<Ack>>
      <4>1. <<>> \o <<Ack>> = <<Ack>>
        OBVIOUS
      <4> QED BY <2>2, <3>1, <3>4, <4>1
    <3> QED BY <2>2, <3>1, <3>2, <3>4, <3>5 DEF Served
  <2>7. CASE link[0] = <<Name(Wanted)>>
    <3>1. thr[0].status = 3 /\ reply[0] = <<>> /\ srv[0].phase = "down" /\ srv[0].buf = <<>> /\ thr[0].read = 0
      <4>1. <<Name(Wanted)>> # <<>> /\ <<Down>> # <<Name(Wanted)>>
        BY DEF Down, Name
      <4> QED BY <1>5, <2>7, <4>1 DEF Served
    <3>2. us = <<Name(Wanted)>> /\ rest = <<>>
      <4> DEFINE w == Name(Wanted)
      <4> HIDE DEF w
      <4>1. SubSeq(<<w>>, 1, 1) = <<w>> /\ SubSeq(<<w>>, 2, Len(<<w>>)) = <<>>
        BY Pieces
      <4>2. <<>> \o <<w>> = <<w>>
        OBVIOUS
      <4> QED BY <2>3, <2>7, <3>1, <4>1, <4>2 DEF rest, w
    <3>3. us \in Seq(Sent) /\ us # <<>>
      BY <3>2, DownloadAssumption DEF Sent
    <3>4. v.phase = y.phase
      BY <2>1, <2>5, <3>1, <3>3, Became DEF v
    <3>5. x \in Answering /\ x.out = <<>>
      <4>1. x.out = <<>> /\ <<>> \in Seq(Frames) /\ x.phase = "down"
        BY <2>1, <3>1 DEF Storages
      <4> QED BY <2>1, <4>1 DEF Storages, Answering, Reached
    <3>6. y \in readFileList(x, Wanted)
      <4>1. y \in downLoad(x, us)
        BY <2>1, <2>5, <3>1 DEF Becomes
      <4> QED BY <2>1, <3>1, <3>2, <3>3, <3>5, <4>1, NamesRead
    <3>7. y \in Answering /\ y.phase \in {"exited", "down"} /\ (y.phase = "down" => Len(o) = Cardinality(Stored))
      BY <2>1, <3>1, <3>5, <3>6, NameRead DEF o
    <3>8. reply'[0] = o
      <4>1. o \in Seq(Frames)
        BY <3>7 DEF Answering, o
      <4> QED BY <2>2, <3>1, <4>1
    <3>9. Cardinality(Stored) \in Nat
      BY Listings
    <3> QED BY <2>2, <3>1, <3>2, <3>4, <3>7, <3>8, <3>9 DEF Served
  <2> QED BY <1>5, <2>4, <2>6, <2>7 DEF Served
<1> QED BY <1>7, <1>8

(* One client and one unit in each read: when nothing is left to read, the  *)
(* thread of server 0 has read a frame for each of the blocks, however many *)
(* there are, or the server has ended.                                      *)
THEOREM LoneDownloadReadsAll == Spec => []DownloadReadsAll
<1>1. Init => AInv
  BY AloneInit
<1>2. Inv /\ DInv /\ AInv /\ [Next]_vars => AInv'
  <2> SUFFICES ASSUME Inv, DInv, AInv, [Next]_vars PROVE AInv'
    OBVIOUS
  <2>1. ASSUME NEW c \in Clients, Start(c) \/ Read(c) \/ Write(c) \/ Kill(c) \/ Gone(c) PROVE AInv'
    BY <2>1, StartAlone, ReadAlone
  <2>2. ASSUME NEW s \in Servers, Thread(s) \/ ServerReads(s) PROVE AInv'
    BY <2>2, ThreadAlone, ServerAlone
  <2>3. CASE UNCHANGED vars
    BY <2>3 DEF vars, AInv
  <2> QED BY <2>1, <2>2, <2>3 DEF Next
<1>3. DInv /\ AInv => DownloadReadsAll
  <2> SUFFICES ASSUME DInv, AInv, alone, Quiet, thr[0].status # 1
               PROVE  srv[0].phase = "exited" \/ thr[0].read = Cardinality(Stored)
    BY DEF DownloadReadsAll
  <2>1. /\ link \in [Servers -> Seq(Sent)] /\ reply \in [Servers -> Seq(Answers)] /\ thr[0] \in Threads /\ 0 \in Servers
    BY DownloadAssumption DEF DInv, Types
  <2>2. link[0] = <<>> /\ reply[0] = <<>>
    <3>1. link[0] \in Range(link) /\ reply[0] \in Range(reply)
      BY <2>1 DEF Range
    <3> QED BY <3>1 DEF Quiet
  <2>3. Served(thr[0], link[0], reply[0], srv[0])
    BY DEF AInv
  <2>4. thr[0].read \in Nat /\ Len(<<>>) = 0 /\ <<Ack>> # <<>> /\ <<Down>> # <<>> /\ <<Name(Wanted)>> # <<>>
    BY <2>1 DEF Threads
  <2>5. thr[0].read + 0 = thr[0].read
    BY <2>4
  <2> QED BY <2>2, <2>3, <2>4, <2>5 DEF Served
<1> QED BY <1>1, <1>2, <1>3, DownloadsAreOrdered, PTL DEF Spec
=============================================================================

---------------------------- MODULE UploadProofs ----------------------------
(***************************************************************************)
(* Proofs about the upload, for any number of clients, files, blocks and   *)
(* servers, and reads of any size.                                         *)
(*                                                                         *)
(* A callback is a loop over the units of a buffer, a FoldLeft: first what *)
(* holds after each pass of a loop holds at its end.  Then what one pass   *)
(* does, what the passes of a callback lead to (Leads), and that each step *)
(* keeps the invariant of overlapping clients (UploadInOrder), from which  *)
(* three properties follow; then the invariant of one client at a time     *)
(* (LoneInOrder), on top of it, for what "success" means; last the stages  *)
(* of an upload of which each read takes one unit (Stages), for its end.   *)
(***************************************************************************)
EXTENDS Upload, FiniteSetTheorems, NaturalsInduction, WellFoundedInduction, SequenceTheorems, TLAPS

-----------------------------------------------------------------------------
(* Folds.  FoldLeft is a function on the subsets of a domain that calls     *)
(* itself: there is one, and it does what a loop does.                      *)

(* A set of naturals that is not empty has a least element.                 *)
LEMMA Below ==
  ASSUME NEW S \in SUBSET Nat, S # {}
  PROVE  \E m \in S : \A k \in S : m <= k
<1> DEFINE R == OpToRel(<, Nat)
<1>1. IsWellFoundedOn(R, Nat)
  BY NatLessThanWellFounded
<1>2. \A x, y \in Nat : <<x, y>> \in R <=> x < y
  BY DEF OpToRel
<1> HIDE DEF R
<1>3. PICK m \in S : \A y \in S : ~(<<y, m>> \in R)
  BY <1>1, WFMin
<1>4. ASSUME NEW y \in S PROVE m <= y
  <2>1. m \in Nat /\ y \in Nat /\ ~(<<y, m>> \in R)
    BY <1>3
  <2> QED BY <1>2, <2>1
<1> QED BY <1>4

(* What holds before a loop, and after each pass when it held before that   *)
(* pass, holds at its end; T[k] is what holds after k passes.               *)
LEMMA AllPasses ==
  ASSUME NEW n \in Nat, NEW T, NEW f, f[0] \in T[0], \A k \in 1 .. n : f[k - 1] \in T[k - 1] => f[k] \in T[k]
  PROVE  f[n] \in T[n]
<1> SUFFICES ASSUME f[n] \notin T[n] PROVE FALSE
  OBVIOUS
<1> DEFINE B == {k \in 0 .. n : f[k] \notin T[k]}
<1>0. B \in SUBSET Nat /\ B # {}
  OBVIOUS
<1>1. PICK m \in B : \A k \in B : m <= k
  <2> HIDE DEF B
  <2> QED BY <1>0, Below
<1>2. m \in 1 .. n /\ f[m] \notin T[m] /\ m - 1 \in 0 .. n
  BY <1>1
<1>3. m - 1 \notin B
  BY <1>1, <1>2
<1> QED BY <1>2, <1>3

(* The Max of the community modules, a CHOOSE, exists in sets of numbers up *)
(* to n.                                                                    *)
LEMMA MaxOfNumbers ==
  ASSUME NEW n \in Nat, NEW s \in SUBSET (1 .. n), s # {}
  PROVE  Max(s) \in s /\ \A y \in s : Max(s) >= y
<1> DEFINE B == {n - y : y \in s}
<1>1. B \in SUBSET Nat /\ B # {}
  <2>1. PICK y \in s : TRUE
    OBVIOUS
  <2>2. n - y \in B
    BY <2>1
  <2>3. \A z \in s : n - z \in Nat
    OBVIOUS
  <2> QED BY <2>2, <2>3
<1>2. PICK m \in B : \A k \in B : m <= k
  <2> HIDE DEF B
  <2> QED BY <1>1, Below
<1>3. PICK x \in s : m = n - x
  BY <1>2
<1>4. \A y \in s : x >= y
  <2> SUFFICES ASSUME NEW y \in s PROVE x >= y
    OBVIOUS
  <2>1. n - x <= n - y
    BY <1>2, <1>3
  <2> QED BY <2>1
<1> QED BY <1>4 DEF Max

(* The step in which the folds of the community modules take the last       *)
(* element.                                                                 *)
LEMMA MaxOfPrefix ==
  ASSUME NEW n \in Nat, NEW k \in 1 .. n
  PROVE  1 .. k \in SUBSET (1 .. n) /\ 1 .. k # {} /\ Max(1 .. k) = k /\ (1 .. k) \ {k} = 1 .. (k - 1)
<1>1. 1 .. k \in SUBSET (1 .. n) /\ k \in 1 .. k
  OBVIOUS
<1>2. Max(1 .. k) \in 1 .. k /\ Max(1 .. k) >= k
  BY <1>1, MaxOfNumbers
<1> QED BY <1>1, <1>2

(* it maps the sets of indices to what a loop over them makes of b, and G   *)
(* makes one pass of it.                                                    *)
IsFold(n, b, G, it) ==
  /\ it[{}] = b
  /\ \A s \in SUBSET (1 .. n) : s # {} => it[s] = G[<<Max(s), it[s \ {Max(s)}]>>]

(* Such a function exists.                                                  *)
LEMMA Iterates ==
  ASSUME NEW n \in Nat, NEW S, NEW b \in S, NEW G \in [(1 .. n) \X S -> S]
  PROVE  \E it \in [SUBSET (1 .. n) -> S] : IsFold(n, b, G, it)
<1> DEFINE Iter(m, it) == IsFold(m, b, G, it)
           B == {m \in 0 .. n : ~\E it \in [SUBSET (1 .. m) -> S] : Iter(m, it)}
<1> SUFFICES ASSUME ~\E it \in [SUBSET (1 .. n) -> S] : Iter(n, it) PROVE FALSE
  BY Zenon
<1>0. n \in B
  <2>1. n \in 0 .. n
    OBVIOUS
  <2> QED BY <2>1, Zenon
<1>1. PICK m \in B : \A k \in B : m <= k
  <2>1. B \in SUBSET Nat
    <3>1. \A m : m \in B => m \in 0 .. n
      BY Zenon
    <3> HIDE DEF B
    <3> QED BY <3>1
  <2> HIDE DEF B
  <2> QED BY <1>0, <2>1, Below
<1>2. m \in 0 .. n /\ ~\E it \in [SUBSET (1 .. m) -> S] : Iter(m, it)
  BY <1>1
<1>3. CASE m = 0
  <2> DEFINE it == [s \in SUBSET (1 .. m) |-> b]
  <2>1. SUBSET (1 .. m) = {{}}
    BY <1>3
  <2>2. it \in [SUBSET (1 .. m) -> S] /\ Iter(m, it)
    BY <2>1 DEF IsFold
  <2> QED BY <1>2, <2>2
<1>4. CASE m # 0
  <2>0. m \in 1 .. n /\ m - 1 \in 0 .. n
    BY <1>2, <1>4
  <2>1. PICK it \in [SUBSET (1 .. m - 1) -> S] : Iter(m - 1, it)
    <3>1. m - 1 \notin B
      <4> HIDE DEF B
      <4> QED BY <1>1, <2>0
    <3> QED BY <2>0, <3>1
  <2> DEFINE on == [s \in SUBSET (1 .. m) |-> IF m \in s THEN G[<<m, it[s \ {m}]>>] ELSE it[s]]
  <2>2. \A s \in SUBSET (1 .. m) : IF m \in s THEN s \ {m} \in SUBSET (1 .. m - 1) ELSE s \in SUBSET (1 .. m - 1)
    BY <2>0
  <2> HIDE DEF Iter, IsFold
  <2>3. on \in [SUBSET (1 .. m) -> S]
    BY <2>0, <2>2
  <2>4. ASSUME NEW s \in SUBSET (1 .. m), s # {}
        PROVE  on[s] = G[<<Max(s), on[s \ {Max(s)}]>>]
    <3>1. Max(s) \in s /\ \A y \in s : Max(s) >= y
      <4>1. m \in Nat
        BY <2>0
      <4> HIDE DEF on, B
      <4> QED BY <2>4, <4>1, MaxOfNumbers
    <3>2. CASE m \in s
      <4>1. Max(s) = m
        <5>1. Max(s) \in 1 .. m /\ Max(s) >= m
          BY <3>1, <3>2
        <5> QED BY <2>0, <5>1
      <4>2. on[s \ {m}] = it[s \ {m}]
        BY <2>2
      <4> QED BY <3>2, <4>1, <4>2
    <3>3. CASE m \notin s
      <4>1. s \in SUBSET (1 .. m - 1) /\ on[s] = it[s]
        BY <2>2, <3>3
      <4>2. it[s] = G[<<Max(s), it[s \ {Max(s)}]>>]
        BY <2>1, <2>4, <4>1 DEF Iter, IsFold
      <4>3. on[s \ {Max(s)}] = it[s \ {Max(s)}]
        BY <3>3
      <4> QED BY <4>1, <4>2, <4>3
    <3> QED BY <3>2, <3>3
  <2>5. on[{}] = b
    <3>1. it[{}] = b
      BY <2>1 DEF Iter, IsFold
    <3> QED BY <3>1
  <2>6. Iter(m, on)
    <3> HIDE DEF on
    <3> QED BY <2>4, <2>5 DEF Iter, IsFold
  <2> QED BY <1>2, <2>3, <2>6
<1> QED BY <1>3, <1>4

(* What holds after the passes of initFileNumber over the units q; S is the *)
(* type of h.                                                               *)
LEMMA LoopOfHeaders ==
  ASSUME NEW n \in Nat, NEW q, DOMAIN q = 1 .. n, NEW S, NEW b \in S,
         \A k \in 1 .. n, h \in S : initFileNumberStep(h, q[k]) \in S,
         NEW T \in [0 .. n -> SUBSET S], b \in T[0],
         \A k \in 1 .. n, h \in S : h \in T[k - 1] => initFileNumberStep(h, q[k]) \in T[k]
  PROVE  FoldLeft(initFileNumberStep, b, q) \in T[n]
<1> DEFINE Iter(it) == it = [s \in SUBSET DOMAIN q |-> IF s = {} THEN b
                                                      ELSE initFileNumberStep(it[s \ {Max(s)}], q[Max(s)])]
           iter == CHOOSE it : Iter(it)
           G == [x \in (1 .. n) \X S |-> initFileNumberStep(x[2], q[x[1]])]
<1>1. FoldLeft(initFileNumberStep, b, q) = iter[1 .. n]
  BY DEF FoldLeft, MapThenFoldSet
<1>2. G \in [(1 .. n) \X S -> S] /\ \A k \in 1 .. n, h \in S : G[<<k, h>>] = initFileNumberStep(h, q[k])
  OBVIOUS
<1> HIDE DEF G
<1>3. PICK it \in [SUBSET (1 .. n) -> S] : IsFold(n, b, G, it)
  BY <1>2, Iterates
<1>4. Iter(it)
  <2>1. ASSUME NEW s \in SUBSET (1 .. n), s # {}
        PROVE  it[s] = initFileNumberStep(it[s \ {Max(s)}], q[Max(s)])
    <3>1. Max(s) \in 1 .. n /\ it[s \ {Max(s)}] \in S
      BY <1>3, <2>1, MaxOfNumbers
    <3> QED BY <1>2, <1>3, <2>1, <3>1 DEF IsFold
  <2> QED BY <1>3, <2>1 DEF IsFold
<1>5. Iter(iter)
  BY <1>4, Zenon
<1> HIDE DEF iter
<1>6. iter[{}] = b
  BY <1>5
<1>7. \A k \in 1 .. n : iter[1 .. k] = initFileNumberStep(iter[1 .. k - 1], q[k])
  <2> SUFFICES ASSUME NEW k \in 1 .. n PROVE iter[1 .. k] = initFileNumberStep(iter[1 .. k - 1], q[k])
    OBVIOUS
  <2>1. 1 .. k \in SUBSET (1 .. n) /\ 1 .. k # {} /\ Max(1 .. k) = k /\ (1 .. k) \ {k} = 1 .. (k - 1)
    BY MaxOfPrefix
  <2> QED BY <1>5, <2>1
<1> DEFINE f == [k \in 0 .. n |-> iter[1 .. k]]
<1>8. f[0] \in T[0]
  <2>1. 1 .. 0 = {}
    OBVIOUS
  <2> QED BY <1>6, <2>1
<1>9. ASSUME NEW k \in 1 .. n, f[k - 1] \in T[k - 1] PROVE f[k] \in T[k]
  <2>1. f[k - 1] = iter[1 .. k - 1] /\ f[k] = iter[1 .. k] /\ f[k - 1] \in S
    <3>1. T[k - 1] \in SUBSET S
      OBVIOUS
    <3> QED BY <1>9, <3>1
  <2> HIDE DEF f
  <2> QED BY <1>7, <1>9, <2>1
<1>10. f[n] \in T[n]
  <2> HIDE DEF f
  <2> QED BY <1>8, <1>9, AllPasses
<1> QED BY <1>1, <1>10

(* After those of sendBlock.                                                *)
LEMMA LoopOfBlocks ==
  ASSUME NEW n \in Nat, NEW q, DOMAIN q = 1 .. n, NEW S, NEW b \in S,
         \A k \in 1 .. n, h \in S : sendBlockStep(h, q[k]) \in S,
         NEW T \in [0 .. n -> SUBSET S], b \in T[0],
         \A k \in 1 .. n, h \in S : h \in T[k - 1] => sendBlockStep(h, q[k]) \in T[k]
  PROVE  FoldLeft(sendBlockStep, b, q) \in T[n]
<1> DEFINE Iter(it) == it = [s \in SUBSET DOMAIN q |-> IF s = {} THEN b
                                                      ELSE sendBlockStep(it[s \ {Max(s)}], q[Max(s)])]
           iter == CHOOSE it : Iter(it)
           G == [x \in (1 .. n) \X S |-> sendBlockStep(x[2], q[x[1]])]
<1>1. FoldLeft(sendBlockStep, b, q) = iter[1 .. n]
  BY DEF FoldLeft, MapThenFoldSet
<1>2. G \in [(1 .. n) \X S -> S] /\ \A k \in 1 .. n, h \in S : G[<<k, h>>] = sendBlockStep(h, q[k])
  OBVIOUS
<1> HIDE DEF G
<1>3. PICK it \in [SUBSET (1 .. n) -> S] : IsFold(n, b, G, it)
  BY <1>2, Iterates
<1>4. Iter(it)
  <2>1. ASSUME NEW s \in SUBSET (1 .. n), s # {}
        PROVE  it[s] = sendBlockStep(it[s \ {Max(s)}], q[Max(s)])
    <3>1. Max(s) \in 1 .. n /\ it[s \ {Max(s)}] \in S
      BY <1>3, <2>1, MaxOfNumbers
    <3> QED BY <1>2, <1>3, <2>1, <3>1 DEF IsFold
  <2> QED BY <1>3, <2>1 DEF IsFold
<1>5. Iter(iter)
  BY <1>4, Zenon
<1> HIDE DEF iter
<1>6. iter[{}] = b
  BY <1>5
<1>7. \A k \in 1 .. n : iter[1 .. k] = sendBlockStep(iter[1 .. k - 1], q[k])
  <2> SUFFICES ASSUME NEW k \in 1 .. n PROVE iter[1 .. k] = sendBlockStep(iter[1 .. k - 1], q[k])
    OBVIOUS
  <2>1. 1 .. k \in SUBSET (1 .. n) /\ 1 .. k # {} /\ Max(1 .. k) = k /\ (1 .. k) \ {k} = 1 .. (k - 1)
    BY MaxOfPrefix
  <2> QED BY <1>5, <2>1
<1> DEFINE f == [k \in 0 .. n |-> iter[1 .. k]]
<1>8. f[0] \in T[0]
  <2>1. 1 .. 0 = {}
    OBVIOUS
  <2> QED BY <1>6, <2>1
<1>9. ASSUME NEW k \in 1 .. n, f[k - 1] \in T[k - 1] PROVE f[k] \in T[k]
  <2>1. f[k - 1] = iter[1 .. k - 1] /\ f[k] = iter[1 .. k] /\ f[k - 1] \in S
    <3>1. T[k - 1] \in SUBSET S
      OBVIOUS
    <3> QED BY <1>9, <3>1
  <2> HIDE DEF f
  <2> QED BY <1>7, <1>9, <2>1
<1>10. f[n] \in T[n]
  <2> HIDE DEF f
  <2> QED BY <1>8, <1>9, AllPasses
<1> QED BY <1>1, <1>10

(* After those of saveBlockFile of a server.                                *)
LEMMA LoopOfSaves ==
  ASSUME NEW n \in Nat, NEW q, DOMAIN q = 1 .. n, NEW S, NEW b \in S,
         \A k \in 1 .. n, h \in S : saveBlockFile(h, q[k]) \in S,
         NEW T \in [0 .. n -> SUBSET S], b \in T[0],
         \A k \in 1 .. n, h \in S : h \in T[k - 1] => saveBlockFile(h, q[k]) \in T[k]
  PROVE  FoldLeft(saveBlockFile, b, q) \in T[n]
<1> DEFINE Iter(it) == it = [s \in SUBSET DOMAIN q |-> IF s = {} THEN b
                                                      ELSE saveBlockFile(it[s \ {Max(s)}], q[Max(s)])]
           iter == CHOOSE it : Iter(it)
           G == [x \in (1 .. n) \X S |-> saveBlockFile(x[2], q[x[1]])]
<1>1. FoldLeft(saveBlockFile, b, q) = iter[1 .. n]
  BY DEF FoldLeft, MapThenFoldSet
<1>2. G \in [(1 .. n) \X S -> S] /\ \A k \in 1 .. n, h \in S : G[<<k, h>>] = saveBlockFile(h, q[k])
  OBVIOUS
<1> HIDE DEF G
<1>3. PICK it \in [SUBSET (1 .. n) -> S] : IsFold(n, b, G, it)
  BY <1>2, Iterates
<1>4. Iter(it)
  <2>1. ASSUME NEW s \in SUBSET (1 .. n), s # {}
        PROVE  it[s] = saveBlockFile(it[s \ {Max(s)}], q[Max(s)])
    <3>1. Max(s) \in 1 .. n /\ it[s \ {Max(s)}] \in S
      BY <1>3, <2>1, MaxOfNumbers
    <3> QED BY <1>2, <1>3, <2>1, <3>1 DEF IsFold
  <2> QED BY <1>3, <2>1 DEF IsFold
<1>5. Iter(iter)
  BY <1>4, Zenon
<1> HIDE DEF iter
<1>6. iter[{}] = b
  BY <1>5
<1>7. \A k \in 1 .. n : iter[1 .. k] = saveBlockFile(iter[1 .. k - 1], q[k])
  <2> SUFFICES ASSUME NEW k \in 1 .. n PROVE iter[1 .. k] = saveBlockFile(iter[1 .. k - 1], q[k])
    OBVIOUS
  <2>1. 1 .. k \in SUBSET (1 .. n) /\ 1 .. k # {} /\ Max(1 .. k) = k /\ (1 .. k) \ {k} = 1 .. (k - 1)
    BY MaxOfPrefix
  <2> QED BY <1>5, <2>1
<1> DEFINE f == [k \in 0 .. n |-> iter[1 .. k]]
<1>8. f[0] \in T[0]
  <2>1. 1 .. 0 = {}
    OBVIOUS
  <2> QED BY <1>6, <2>1
<1>9. ASSUME NEW k \in 1 .. n, f[k - 1] \in T[k - 1] PROVE f[k] \in T[k]
  <2>1. f[k - 1] = iter[1 .. k - 1] /\ f[k] = iter[1 .. k] /\ f[k - 1] \in S
    <3>1. T[k - 1] \in SUBSET S
      OBVIOUS
    <3> QED BY <1>9, <3>1
  <2> HIDE DEF f
  <2> QED BY <1>7, <1>9, <2>1
<1>10. f[n] \in T[n]
  <2> HIDE DEF f
  <2> QED BY <1>8, <1>9, AllPasses
<1> QED BY <1>1, <1>10

(* After those of sendFileBlock of a client.                                *)
LEMMA LoopOfSends ==
  ASSUME NEW x, NEW n \in Nat, n = blockNum(x.file), NEW S, <<>> \in S,
         \A k \in 1 .. n, h \in S : sendBlockFile(x, h, k - 1) \in S,
         NEW T \in [0 .. n -> SUBSET S], <<>> \in T[0],
         \A k \in 1 .. n, h \in S : h \in T[k - 1] => sendBlockFile(x, h, k - 1) \in T[k]
  PROVE  sendFileBlock(x) \in T[n]
<1> DEFINE q == [j \in 1 .. blockNum(x.file) |-> j - 1]
           Iter(it) == it = [s \in SUBSET DOMAIN q |-> IF s = {} THEN <<>>
                                                      ELSE sendBlockFile(x, it[s \ {Max(s)}], q[Max(s)])]
           iter == CHOOSE it : Iter(it)
           G == [y \in (1 .. n) \X S |-> sendBlockFile(x, y[2], y[1] - 1)]
<1>1. sendFileBlock(x) = iter[1 .. n]
  <2>1. sendFileBlock(x) = iter[DOMAIN q]
    BY DEF FoldLeft, MapThenFoldSet, sendFileBlock
  <2>2. DOMAIN q = 1 .. n
    OBVIOUS
  <2> QED BY <2>1, <2>2
<1>0. DOMAIN q = 1 .. n /\ \A k \in 1 .. n : q[k] = k - 1
  OBVIOUS
<1> HIDE DEF q
<1>2. G \in [(1 .. n) \X S -> S] /\ \A k \in 1 .. n, h \in S : G[<<k, h>>] = sendBlockFile(x, h, k - 1)
  OBVIOUS
<1> HIDE DEF G
<1>3. PICK it \in [SUBSET (1 .. n) -> S] : IsFold(n, <<>>, G, it)
  BY <1>2, Iterates
<1>4. Iter(it)
  <2>1. ASSUME NEW s \in SUBSET (1 .. n), s # {}
        PROVE  it[s] = sendBlockFile(x, it[s \ {Max(s)}], q[Max(s)])
    <3>1. Max(s) \in 1 .. n /\ it[s \ {Max(s)}] \in S
      BY <1>3, <2>1, MaxOfNumbers
    <3> QED BY <1>0, <1>2, <1>3, <2>1, <3>1 DEF IsFold
  <2> QED BY <1>0, <1>3, <2>1 DEF IsFold
<1>5. Iter(iter)
  BY <1>4, Zenon
<1> HIDE DEF iter
<1>6. iter[{}] = <<>>
  BY <1>5
<1>7. \A k \in 1 .. n : iter[1 .. k] = sendBlockFile(x, iter[1 .. k - 1], k - 1)
  <2> SUFFICES ASSUME NEW k \in 1 .. n PROVE iter[1 .. k] = sendBlockFile(x, iter[1 .. k - 1], k - 1)
    OBVIOUS
  <2>1. 1 .. k \in SUBSET (1 .. n) /\ 1 .. k # {} /\ Max(1 .. k) = k /\ (1 .. k) \ {k} = 1 .. (k - 1)
    BY MaxOfPrefix
  <2> QED BY <1>0, <1>5, <2>1
<1> DEFINE f == [k \in 0 .. n |-> iter[1 .. k]]
<1>8. f[0] \in T[0]
  <2>1. 1 .. 0 = {}
    OBVIOUS
  <2> QED BY <1>6, <2>1
<1>9. ASSUME NEW k \in 1 .. n, f[k - 1] \in T[k - 1] PROVE f[k] \in T[k]
  <2>1. f[k - 1] = iter[1 .. k - 1] /\ f[k] = iter[1 .. k] /\ f[k - 1] \in S
    <3>0. k - 1 \in 0 .. n
      OBVIOUS
    <3>1. T[k - 1] \in SUBSET S
      BY <3>0
    <3> QED BY <1>9, <3>1
  <2> HIDE DEF f
  <2>2. iter[1 .. k - 1] \in S /\ iter[1 .. k - 1] \in T[k - 1]
    BY <1>9, <2>1
  <2>3. sendBlockFile(x, iter[1 .. k - 1], k - 1) \in T[k]
    BY <2>2
  <2> QED BY <1>7, <2>1, <2>3
<1>10. f[n] \in T[n]
  <2> HIDE DEF f
  <2> QED BY <1>8, <1>9, AllPasses
<1> QED BY <1>1, <1>10

-----------------------------------------------------------------------------
(* How often x is in q.                                                     *)

(* The places of x in a sequence are finitely many.                         *)
LEMMA CountType ==
  ASSUME NEW S, NEW q \in Seq(S), NEW x
  PROVE  IsFiniteSet({i \in DOMAIN q : q[i] = x}) /\ Count(q, x) \in Nat
<1>1. {i \in DOMAIN q : q[i] = x} \in SUBSET (1 .. Len(q)) /\ Len(q) \in Int
  OBVIOUS
<1>2. IsFiniteSet(1 .. Len(q))
  BY <1>1, FS_Interval
<1> HIDE DEF Count
<1>3. IsFiniteSet({i \in DOMAIN q : q[i] = x})
  BY <1>1, <1>2, FS_Subset
<1> QED BY <1>3, FS_CardinalityType DEF Count

(* Append adds one when it appends x.                                       *)
LEMMA CountAppend ==
  ASSUME NEW S, NEW q \in Seq(S), NEW u \in S, NEW x
  PROVE  Count(Append(q, u), x) = Count(q, x) + IF u = x THEN 1 ELSE 0
<1> DEFINE A == {i \in DOMAIN q : q[i] = x}
           n == Len(q) + 1
<1>1. IsFiniteSet(A) /\ Cardinality(A) \in Nat
  BY CountType DEF Count
<1>2. n \notin A /\ {i \in DOMAIN Append(q, u) : Append(q, u)[i] = x} = IF u = x THEN A \cup {n} ELSE A
  OBVIOUS
<1> HIDE DEF A, n
<1>3. Cardinality(A \cup {n}) = Cardinality(A) + 1
  BY <1>1, <1>2, FS_AddElement
<1>4. Count(q, x) = Cardinality(A) /\ Count(Append(q, u), x) = Cardinality(IF u = x THEN A \cup {n} ELSE A)
  BY <1>2 DEF Count, A
<1> QED BY <1>1, <1>3, <1>4

(* The counts of two sequences add up.                                      *)
LEMMA CountConcat ==
  ASSUME NEW S, NEW q \in Seq(S), NEW r \in Seq(S), NEW x
  PROVE  Count(q \o r, x) = Count(q, x) + Count(r, x)
<1> DEFINE A == {i \in DOMAIN q : q[i] = x}
           B == {i \in DOMAIN r : r[i] = x}
           C == {i \in DOMAIN (q \o r) : (q \o r)[i] = x}
           D == {i \in C : i > Len(q)}
           f == [i \in B |-> i + Len(q)]
<1>1. /\ IsFiniteSet(A) /\ Cardinality(A) \in Nat /\ IsFiniteSet(B) /\ Cardinality(B) \in Nat
      /\ IsFiniteSet(C)
  <2>1. q \o r \in Seq(S)
    OBVIOUS
  <2> HIDE DEF Count, A, B, C
  <2> QED BY <2>1, CountType DEF Count, A, B, C
<1>2. f \in Bijection(B, D)
  <2>1. \A i \in B : i + Len(q) \in D
    OBVIOUS
  <2>2. \A j \in D : j - Len(q) \in B /\ f[j - Len(q)] = j
    OBVIOUS
  <2>3. \A i, j \in B : f[i] = f[j] => i = j
    OBVIOUS
  <2>4. f \in [B -> D]
    BY <2>1
  <2> HIDE DEF f, B, D
  <2> QED BY <2>2, <2>3, <2>4 DEF Bijection, Injection, Surjection, IsInjective
<1>3. IsFiniteSet(D) /\ Cardinality(D) = Cardinality(B)
  <2> HIDE DEF f, B, D
  <2> QED BY <1>1, <1>2, FS_Bijection DEF ExistsBijection
<1>4. C = A \cup D /\ A \cap D = {}
  OBVIOUS
<1> HIDE DEF A, B, C, D, f
<1>5. Cardinality(C) = Cardinality(A) + Cardinality(D) - Cardinality({})
  BY <1>1, <1>3, <1>4, FS_Union
<1>6. Cardinality(C) = Cardinality(A) + Cardinality(B)
  BY <1>1, <1>3, <1>5, FS_EmptySet
<1> QED BY <1>6 DEF Count, A, B, C

(* Those of the first k elements and of the others do.                      *)
LEMMA CountSplit ==
  ASSUME NEW S, NEW q \in Seq(S), NEW k \in 0 .. Len(q), NEW x
  PROVE  /\ SubSeq(q, 1, k) \in Seq(S) /\ SubSeq(q, k + 1, Len(q)) \in Seq(S)
         /\ Count(q, x) = Count(SubSeq(q, 1, k), x) + Count(SubSeq(q, k + 1, Len(q)), x)
<1>1. SubSeq(q, 1, k) \in Seq(S) /\ SubSeq(q, k + 1, Len(q)) \in Seq(S)
  OBVIOUS
<1>2. SubSeq(q, 1, k) \o SubSeq(q, k + 1, Len(q)) = q
  <2>1. SubSeq(q, 1, k) \o SubSeq(q, k + 1, Len(q)) = SubSeq(q, 1, Len(q))
    <3>1. 1 \in 1 .. Len(q) + 1 /\ k \in 1 - 1 .. Len(q) /\ Len(q) \in k .. Len(q)
      OBVIOUS
    <3> QED BY <3>1, ConcatAdjacentSubSeq
  <2> QED BY <2>1, SubSeqFull
<1> DEFINE a == SubSeq(q, 1, k)
           b == SubSeq(q, k + 1, Len(q))
<1>3. a \in Seq(S) /\ b \in Seq(S) /\ a \o b = q
  BY <1>1, <1>2
<1> HIDE DEF a, b
<1>4. Count(a \o b, x) = Count(a, x) + Count(b, x)
  BY <1>3, CountConcat
<1> QED BY <1>3, <1>4 DEF a, b

(* What follows the head is there as often as it was, or once less.         *)
LEMMA CountTail ==
  ASSUME NEW S, NEW q \in Seq(S), q # <<>>, NEW x
  PROVE  Tail(q) \in Seq(S) /\ Count(Tail(q), x) <= Count(q, x)
<1>1. Tail(q) \in Seq(S) /\ 1 \in 0 .. Len(q) /\ Tail(q) = SubSeq(q, 1 + 1, Len(q))
  <2>1. Len(q) \in Nat /\ Len(q) # 0
    OBVIOUS
  <2>2. Tail(q) \in Seq(S) /\ Tail(q) = SubSeq(q, 2, Len(q))
    BY TailIsSubSeq, HeadTailProperties
  <2> QED BY <2>1, <2>2
<1>2. /\ SubSeq(q, 1, 1) \in Seq(S)
      /\ Count(q, x) = Count(SubSeq(q, 1, 1), x) + Count(Tail(q), x)
  BY <1>1, CountSplit
<1>3. Count(SubSeq(q, 1, 1), x) \in Nat /\ Count(Tail(q), x) \in Nat
  BY <1>1, <1>2, CountType
<1> QED BY <1>1, <1>2, <1>3

-----------------------------------------------------------------------------
(* The blocks of a file.                                                    *)

(* What is larger after the multiplication by a positive number was larger. *)
LEMMA Cancel ==
  ASSUME NEW a \in Int, NEW b \in Int, NEW m \in Nat \ {0}, a * m < b * m
  PROVE  a < b
<1> SUFFICES ASSUME a >= b PROVE FALSE
  OBVIOUS
<1>1. (a - b) * m >= 0
  BY Z3
<1>2. (a - b) * m = a * m - b * m
  BY Z3
<1> QED BY <1>1, <1>2

(* The client cuts a file into its pages, or fewer bytes: each block has a  *)
(* page for content, or nothing (BlockFile, initFile).                      *)
LEMMA Cutting ==
  ASSUME NEW f \in Files
  PROVE  /\ blockNum(f) \in Nat /\ blockNum(f) = Len(Content[f])
         /\ \A i \in 0 .. blockNum(f) - 1 : BlockFile(f, i) \in Pages
<1> DEFINE m == PAGE_SIZE
           s == FileSize[f]
           n == Len(Content[f])
           a == s \div m
           r == s % m
<1>1. /\ m \in Nat \ {0} /\ s \in Nat /\ n \in Nat
      /\ (n - 1) * m < s /\ s <= n * m
  BY UploadAssumption
<1>2. a \in Nat /\ r \in 0 .. m - 1 /\ s = a * m + r
  <2> HIDE DEF m, s
  <2> QED BY <1>1, Z3 DEF a, r
<1>3. blockNum(f) = a + IF r = 0 THEN 0 ELSE 1
  BY DEF blockNum
<1> HIDE DEF m, s, n, a, r
<1>4. (a + 1) * m = a * m + m /\ (n + 1) * m = n * m + m
  BY <1>1, <1>2, Z3
<1>5. n - 1 < a + 1
  <2>1. (n - 1) * m < (a + 1) * m
    BY <1>1, <1>2, <1>4
  <2> QED BY <1>1, <1>2, <2>1, Cancel
<1>6. n = a + IF r = 0 THEN 0 ELSE 1
  <2>1. CASE r = 0
    <3>1. a < n + 1
      <4>1. a * m < (n + 1) * m
        BY <1>1, <1>2, <1>4, <2>1
      <4> QED BY <1>1, <1>2, <4>1, Cancel
    <3>2. n - 1 < a
      <4>1. (n - 1) * m < a * m
        BY <1>1, <1>2, <2>1
      <4> QED BY <1>1, <1>2, <4>1, Cancel
    <3> QED BY <1>1, <1>2, <2>1, <3>1, <3>2
  <2>2. CASE r # 0
    <3>1. a < n
      <4>1. a * m < n * m
        BY <1>1, <1>2, <2>2
      <4> QED BY <1>1, <1>2, <4>1, Cancel
    <3> QED BY <1>1, <1>2, <1>5, <2>2, <3>1
  <2> QED BY <2>1, <2>2
<1>7. blockNum(f) = n
  BY <1>3, <1>6
<1>8. \A i \in 0 .. n - 1 : Content[f][i + 1] \in Pages /\ Empty \in Pages
  <2>1. Content[f] \in Seq(Pages \ {Empty}) /\ Empty \in Pages
    BY UploadAssumption
  <2> QED BY <1>1, <2>1 DEF n
<1>9. \A i \in 0 .. n - 1 : BlockFile(f, i) \in Pages
  BY <1>8 DEF BlockFile
<1> QED BY <1>1, <1>7, <1>9 DEF n

-----------------------------------------------------------------------------
(* Types.                                                                   *)
Sums     == {getMD5(p) : p \in Pages} \cup {NoMd5, WrongMd5}
ValuesOf(n) == [blockNum : {n}, md5 : [0 .. n - 1 -> Sums], uploadId : SUBSET (0 .. n - 1)]
Values   == UNION {ValuesOf(n) : n \in Nat}
\* Of files, and of the blocks that were taken for headers.
Names    == {FileName[f] : f \in Files} \cup Pages
Maps     == UNION {[N -> Values] : N \in SUBSET Names}
Globals  == [Operate : {"sw", "up"}, upStatu : 1 .. 4, g_FileName : Names \cup {""}, alive : BOOLEAN]
Answers  == {ACK, Success} \cup {[r |-> "ids", ids |-> I] : I \in SUBSET Nat}
Orders   == {"smooth", "alone", "overlapped"}

\* What a client of file f sends, and what is left of it.
Blocks(f)  == {Rec(i, BlockFile(f, i)) : i \in 0 .. blockNum(f) - 1}
Sums1(f)   == [u |-> "md5s", md5s |-> [i \in 1 .. blockNum(f) |-> getMD5(BlockFile(f, i - 1))]]
UnitsOf(f) == {Op, Lost, Header(f), Sums1(f)} \cup Blocks(f)

ServerUnits == {Up, Name} \cup {Block(p) : p \in Pages}
Phases      == {"sw", "names", "blocks", "lost"}
Stores      == [in : Seq(ServerUnits), buf : Seq(ServerUnits), phase : Phases, saved : [Pages -> Nat]]

\* h of a callback.
Handlers(f) == [px : Globals, map : Maps, buf : Seq(UnitsOf(f)), back : Seq(Answers),
                in : [Servers -> Seq(ServerUnits)], forwarded : Seq(Pages),
                end : BOOLEAN, wild : BOOLEAN]

(* A record of the layout of a header is the header of the file or one of   *)
(* its blocks; a page is no name of a file.                                 *)
LEMMA RecUnit ==
  ASSUME NEW f \in Files, NEW u \in UnitsOf(f), u.u = "rec"
  PROVE  /\ u.num \in Nat /\ getFileName(u.text) \in Names
         /\ \/ u = Header(f) /\ u.text = f /\ u.num = blockNum(f) /\ getFileName(u.text) = FileName[f]
            \/ /\ u.text \in Pages /\ getFileName(u.text) = u.text /\ u.num \in 0 .. blockNum(f) - 1
               /\ u.text = BlockFile(f, u.num) /\ u = Rec(u.num, BlockFile(f, u.num))
<1>1. CASE u = Header(f)
  <2>1. u.text = f /\ u.num = blockNum(f)
    BY <1>1 DEF Header, Rec
  <2>2. getFileName(u.text) = FileName[f] /\ FileName[f] \in Names
    BY <2>1 DEF getFileName, Names
  <2> QED BY <1>1, <2>1, <2>2, Cutting
<1>2. CASE u \in Blocks(f)
  <2>1. PICK i \in 0 .. blockNum(f) - 1 : u = Rec(i, BlockFile(f, i))
    BY <1>2 DEF Blocks
  <2>2. u.num = i /\ u.text = BlockFile(f, i)
    BY <2>1 DEF Rec
  <2>3. blockNum(f) \in Nat /\ u.text \in Pages
    BY <2>2, Cutting
  <2>4. u.text \notin Files
    BY <2>3, UploadAssumption
  <2> QED BY <2>1, <2>2, <2>3, <2>4 DEF getFileName, Names
<1>3. u \in {Header(f)} \cup Blocks(f)
  BY DEF UnitsOf, Op, Lost, Sums1
<1> QED BY <1>1, <1>2, <1>3

(* A new value, and what the setters make of one.                           *)
LEMMA ValueTypes ==
  /\ \A n \in Nat : FileValue(n) \in Values /\ FileValue(n).blockNum = n /\ FileValue(n).uploadId = {}
  /\ \A v \in Values : /\ v.blockNum \in Nat /\ v.md5 \in [0 .. v.blockNum - 1 -> Sums]
                       /\ v.uploadId \subseteq 0 .. v.blockNum - 1
  /\ \A v \in Values : \A id \in 0 .. v.blockNum - 1 :
       /\ setuploadId(v, id) \in Values /\ setuploadId(v, id).blockNum = v.blockNum
       /\ setuploadId(v, id).md5 = v.md5 /\ setuploadId(v, id).uploadId = v.uploadId \cup {id}
  /\ \A v \in Values : \A md5 \in [1 .. v.blockNum -> Sums] :
       /\ setBlockFileMD5(v, md5) \in Values /\ setBlockFileMD5(v, md5).blockNum = v.blockNum
       /\ setBlockFileMD5(v, md5).uploadId = v.uploadId
       /\ \A i \in 0 .. v.blockNum - 1 : setBlockFileMD5(v, md5).md5[i] = md5[i + 1]
<1>1. ASSUME NEW n \in Nat
      PROVE  FileValue(n) \in Values /\ FileValue(n).blockNum = n /\ FileValue(n).uploadId = {}
  <2>1. FileValue(n) \in ValuesOf(n)
    BY DEF FileValue, ValuesOf, Sums
  <2> QED BY <2>1 DEF Values, FileValue
<1>2. ASSUME NEW v \in Values
      PROVE  /\ v.blockNum \in Nat /\ v.md5 \in [0 .. v.blockNum - 1 -> Sums]
             /\ v.uploadId \subseteq 0 .. v.blockNum - 1 /\ v \in ValuesOf(v.blockNum)
  <2>1. PICK n \in Nat : v \in ValuesOf(n)
    BY DEF Values
  <2> QED BY <2>1 DEF ValuesOf
<1>3. ASSUME NEW v \in Values, NEW id \in 0 .. v.blockNum - 1
      PROVE  /\ setuploadId(v, id) \in Values /\ setuploadId(v, id).blockNum = v.blockNum
             /\ setuploadId(v, id).md5 = v.md5 /\ setuploadId(v, id).uploadId = v.uploadId \cup {id}
  <2>1. v \in ValuesOf(v.blockNum) /\ v.blockNum \in Nat
    BY <1>2
  <2>2. setuploadId(v, id) \in ValuesOf(v.blockNum)
    BY <2>1 DEF setuploadId, ValuesOf
  <2> QED BY <2>1, <2>2 DEF setuploadId, ValuesOf, Values
<1>4. ASSUME NEW v \in Values, NEW md5 \in [1 .. v.blockNum -> Sums]
      PROVE  /\ setBlockFileMD5(v, md5) \in Values /\ setBlockFileMD5(v, md5).blockNum = v.blockNum
             /\ setBlockFileMD5(v, md5).uploadId = v.uploadId
             /\ \A i \in 0 .. v.blockNum - 1 : setBlockFileMD5(v, md5).md5[i] = md5[i + 1]
  <2>1. v \in ValuesOf(v.blockNum) /\ v.blockNum \in Nat /\ v.md5 \in [0 .. v.blockNum - 1 -> Sums]
    BY <1>2
  <2>2. [i \in DOMAIN v.md5 |-> md5[i + 1]] \in [0 .. v.blockNum - 1 -> Sums]
    BY <2>1
  <2>3. setBlockFileMD5(v, md5) \in ValuesOf(v.blockNum)
    BY <2>1, <2>2 DEF setBlockFileMD5, ValuesOf
  <2>4. /\ setBlockFileMD5(v, md5).blockNum = v.blockNum
        /\ setBlockFileMD5(v, md5).uploadId = v.uploadId
        /\ setBlockFileMD5(v, md5).md5 = [i \in DOMAIN v.md5 |-> md5[i + 1]]
    BY <2>1 DEF setBlockFileMD5, ValuesOf
  <2>5. setBlockFileMD5(v, md5) \in Values
    BY <2>1, <2>3 DEF Values
  <2> HIDE DEF setBlockFileMD5
  <2> QED BY <2>1, <2>4, <2>5
<1> QED BY <1>1, <1>2, <1>3, <1>4

(* The map with another name, and with another value of a name.             *)
LEMMA MapTypes ==
  ASSUME NEW map \in Maps
  PROVE  /\ DOMAIN map \subseteq Names /\ \A n \in DOMAIN map : map[n] \in Values
         /\ \A n \in Names, k \in Nat :
              /\ addFile(map, n, k) \in Maps /\ DOMAIN addFile(map, n, k) = DOMAIN map \cup {n}
              /\ \A g \in DOMAIN map \ {n} : addFile(map, n, k)[g] = map[g]
              /\ addFile(map, n, k)[n] = FileValue(k)
         /\ \A n \in DOMAIN map, v \in Values : [map EXCEPT ![n] = v] \in Maps
<1>1. PICK N \in SUBSET Names : map \in [N -> Values]
  BY DEF Maps
<1>2. ASSUME NEW n \in Names, NEW k \in Nat
      PROVE  /\ addFile(map, n, k) \in Maps /\ DOMAIN addFile(map, n, k) = DOMAIN map \cup {n}
             /\ \A g \in DOMAIN map \ {n} : addFile(map, n, k)[g] = map[g]
             /\ addFile(map, n, k)[n] = FileValue(k)
  <2>1. FileValue(k) \in Values
    BY ValueTypes
  <2>2. N \cup {n} \in SUBSET Names
    OBVIOUS
  <2>3. addFile(map, n, k) \in [N \cup {n} -> Values]
    BY <1>1, <2>1 DEF addFile
  <2>4. addFile(map, n, k) \in Maps
    BY <2>2, <2>3 DEF Maps
  <2> QED BY <1>1, <2>4 DEF addFile
<1>3. ASSUME NEW n \in DOMAIN map, NEW v \in Values PROVE [map EXCEPT ![n] = v] \in Maps
  <2>1. [map EXCEPT ![n] = v] \in [N -> Values]
    BY <1>1
  <2> QED BY <2>1 DEF Maps
<1> QED BY <1>1, <1>2, <1>3

(* What the servers are sent, and how often a block is among it.            *)
LEMMA InTypes ==
  ASSUME NEW in \in [Servers -> Seq(ServerUnits)]
  PROVE  /\ \A u \in {Up, Name} :
              /\ tell(in, u) \in [Servers -> Seq(ServerUnits)]
              /\ \A s \in Servers, p \in Pages : Count(tell(in, u)[s], Block(p)) = Count(in[s], Block(p))
         /\ \A r \in Pages :
              /\ sendTo(in, r) \in [Servers -> Seq(ServerUnits)]
              /\ \A s \in Servers, p \in Pages :
                   Count(sendTo(in, r)[s], Block(p)) =
                     Count(in[s], Block(p)) + IF Server[p] = s /\ r = p THEN 1 ELSE 0
<1>1. ASSUME NEW u \in {Up, Name}
      PROVE  /\ tell(in, u) \in [Servers -> Seq(ServerUnits)]
             /\ \A s \in Servers, p \in Pages : Count(tell(in, u)[s], Block(p)) = Count(in[s], Block(p))
  <2>1. u \in ServerUnits /\ \A p \in Pages : u # Block(p)
    BY DEF ServerUnits, Up, Name, Block
  <2>2. ASSUME NEW s \in Servers, NEW p \in Pages
        PROVE  Count(tell(in, u)[s], Block(p)) = Count(in[s], Block(p))
    <3>1. in[s] \in Seq(ServerUnits) /\ tell(in, u)[s] = Append(in[s], u)
      BY DEF tell
    <3>2. Count(Append(in[s], u), Block(p)) = Count(in[s], Block(p)) + IF u = Block(p) THEN 1 ELSE 0
      BY <2>1, <3>1, CountAppend
    <3>3. Count(in[s], Block(p)) \in Nat
      BY <3>1, CountType
    <3> QED BY <2>1, <3>1, <3>2, <3>3
  <2> QED BY <2>1, <2>2 DEF tell
<1>2. ASSUME NEW r \in Pages
      PROVE  /\ sendTo(in, r) \in [Servers -> Seq(ServerUnits)]
             /\ \A s \in Servers, p \in Pages :
                  Count(sendTo(in, r)[s], Block(p)) =
                    Count(in[s], Block(p)) + IF Server[p] = s /\ r = p THEN 1 ELSE 0
  <2>1. Block(r) \in ServerUnits /\ Server[r] \in Servers /\ \A p \in Pages : Block(r) = Block(p) => r = p
    BY UploadAssumption DEF ServerUnits, Block
  <2>2. ASSUME NEW s \in Servers, NEW p \in Pages
        PROVE  Count(sendTo(in, r)[s], Block(p)) =
                 Count(in[s], Block(p)) + IF Server[p] = s /\ r = p THEN 1 ELSE 0
    <3>1. in[s] \in Seq(ServerUnits) /\ sendTo(in, r)[s] = IF s = Server[r] THEN Append(in[s], Block(r)) ELSE in[s]
      BY <2>1 DEF sendTo
    <3>2. Count(Append(in[s], Block(r)), Block(p)) = Count(in[s], Block(p)) + IF Block(r) = Block(p) THEN 1 ELSE 0
      BY <2>1, <3>1, CountAppend
    <3>3. Count(in[s], Block(p)) \in Nat
      BY <3>1, CountType
    <3>4. CASE r = p
      BY <3>1, <3>2, <3>3, <3>4
    <3>5. CASE r # p
      BY <2>1, <3>1, <3>2, <3>3, <3>5
    <3> QED BY <3>4, <3>5
  <2> QED BY <2>1, <2>2 DEF sendTo
<1> QED BY <1>1, <1>2

-----------------------------------------------------------------------------
(* What each pass does.                                                     *)

(* the servers are told d rather than h, no block among it.                 *)
NoBlocks(h, d) ==
  \A s \in Servers, p \in Pages : Count(d.in[s], Block(p)) = Count(h.in[s], Block(p))

(* A pass of initFileNumber: over something else or an incomplete header,   *)
(* over a new header, or over that of a known name.                         *)
HeaderNone(h, d) == d.map = h.map /\ d.back = h.back /\ d.buf = h.buf
                    /\ d.px.upStatu = h.px.upStatu /\ d.px.g_FileName = h.px.g_FileName
HeaderNew(h, u, d) ==
  LET name == getFileName(u.text) IN
  /\ u.u = "rec" /\ name \notin DOMAIN h.map /\ d.map = addFile(h.map, name, u.num)
  /\ d.px.upStatu = 2 /\ d.px.g_FileName = name /\ d.back = Append(h.back, ACK) /\ d.buf = Tail(h.buf)
HeaderKnown(h, u, d) ==
  LET name == getFileName(u.text) IN
  /\ u.u = "rec" /\ name \in DOMAIN h.map /\ d.map = h.map
  /\ d.px.upStatu = 3 /\ d.px.g_FileName = name /\ d.buf = Tail(h.buf)
  /\ \/ lsFileFinish(h.map[name]) /\ d.back = Append(h.back, Success)
     \/ ~lsFileFinish(h.map[name]) /\ h.map[name].uploadId = {} /\ d.back = h.back
     \/ ~lsFileFinish(h.map[name]) /\ d.back = Append(h.back, Ids(h.map[name]))

(* No element follows those of an empty sequence either.                    *)
LEMMA TailType ==
  ASSUME NEW S, NEW q \in Seq(S)
  PROVE  Tail(q) \in Seq(S)
<1>1. CASE q = <<>>
  <2>1. Tail(<<>>) = <<>>
    BY SMT
  <2> QED BY <1>1, <2>1
<1>2. CASE q # <<>>
  BY <1>2, HeadTailProperties
<1> QED BY <1>1, <1>2

\* A pass of initFileNumber does one of the three.
LEMMA HeaderStep ==
  ASSUME NEW f \in Files, NEW h \in Handlers(f), NEW u \in UnitsOf(f),
         NEW d, d = initFileNumberStep(h, u)
  PROVE  /\ d \in Handlers(f) /\ d.px.Operate = h.px.Operate
         /\ d.forwarded = h.forwarded /\ d.wild = h.wild /\ NoBlocks(h, d)
         /\ \/ HeaderNone(h, d) /\ (h.end \/ u.u # "rec" \/ u.text = Empty)
            \/ HeaderNew(h, u, d) \/ HeaderKnown(h, u, d)
<1> DEFINE name == getFileName(u.text)
           told == [h EXCEPT !.in = tell(@, Up)]
           read == [told EXCEPT !.buf = Tail(@), !.px.g_FileName = name]
<1>0. PICK p \in Globals, m \in Maps, b \in Seq(UnitsOf(f)), r \in Seq(Answers),
           i \in [Servers -> Seq(ServerUnits)], q \in Seq(Pages), e \in BOOLEAN, w \in BOOLEAN :
        h = [px |-> p, map |-> m, buf |-> b, back |-> r, in |-> i, forwarded |-> q, end |-> e, wild |-> w]
  BY DEF Handlers
<1>1. /\ h.px = p /\ h.map = m /\ h.buf = b /\ h.back = r /\ h.in = i /\ h.forwarded = q
      /\ h.end = e /\ h.wild = w
  BY <1>0
<1>2. /\ tell(i, Up) \in [Servers -> Seq(ServerUnits)]
      /\ \A s \in Servers, a \in Pages : Count(tell(i, Up)[s], Block(a)) = Count(i[s], Block(a))
  BY <1>1, InTypes
<1>3. told = [px |-> p, map |-> m, buf |-> b, back |-> r, in |-> tell(i, Up),
              forwarded |-> q, end |-> e, wild |-> w]
  BY <1>0
<1>4. told \in Handlers(f)
  BY <1>1, <1>2, <1>3 DEF Handlers
<1>5. CASE e
  <2>1. d = h
    BY <1>1, <1>5 DEF initFileNumberStep
  <2> QED BY <1>1, <1>5, <2>1 DEF HeaderNone, NoBlocks
<1>6. CASE ~e /\ u.u # "rec"
  <2>1. d = [told EXCEPT !.end = TRUE]
    BY <1>1, <1>6 DEF initFileNumberStep
  <2>2. d \in Handlers(f)
    BY <1>4, <2>1 DEF Handlers
  <2>3. /\ d.px = p /\ d.map = m /\ d.buf = b /\ d.back = r /\ d.in = tell(i, Up)
        /\ d.forwarded = q /\ d.wild = w
    BY <1>3, <2>1
  <2> QED BY <1>1, <1>2, <1>6, <2>2, <2>3 DEF HeaderNone, NoBlocks
<1>7. CASE ~e /\ u.u = "rec"
  <2>1. u.num \in Nat /\ name \in Names
    BY <1>7, RecUnit
  <2>2. read = [px |-> [p EXCEPT !.g_FileName = name], map |-> m, buf |-> Tail(b), back |-> r,
                in |-> tell(i, Up), forwarded |-> q, end |-> e, wild |-> w]
    <3> DEFINE t == tell(i, Up)
               c == Tail(b)
               g == [p EXCEPT !.g_FileName = name]
    <3>1. told = [px |-> p, map |-> m, buf |-> b, back |-> r, in |-> t, forwarded |-> q, end |-> e, wild |-> w]
      BY <1>3
    <3> HIDE DEF told
    <3>2. read = [[told EXCEPT !.buf = c] EXCEPT !.px = g]
      BY <3>1
    <3> HIDE DEF t, c, g, read
    <3>3. read = [px |-> g, map |-> m, buf |-> c, back |-> r, in |-> t, forwarded |-> q, end |-> e, wild |-> w]
      BY <3>1, <3>2
    <3> QED BY <3>3 DEF t, c, g
  <2>3. Tail(b) \in Seq(UnitsOf(f)) /\ [p EXCEPT !.g_FileName = name] \in Globals
    BY <1>1, <2>1, TailType DEF Globals
  <2> DEFINE At(k) == [[p EXCEPT !.g_FileName = name] EXCEPT !.upStatu = k]
  <2>4. /\ At(2) \in Globals /\ At(2).upStatu = 2 /\ At(2).g_FileName = name /\ At(2).Operate = p.Operate
        /\ At(3) \in Globals /\ At(3).upStatu = 3 /\ At(3).g_FileName = name /\ At(3).Operate = p.Operate
    <3>1. 2 \in 1 .. 4 /\ 3 \in 1 .. 4
      OBVIOUS
    <3> QED BY <1>1, <2>1, <3>1 DEF Globals
  <2> HIDE DEF told, read, name, At
  <2>5. CASE ~lsFile(m, name) /\ u.text = Empty
    <3>1. d = [told EXCEPT !.end = TRUE, !.px.alive = FALSE]
      BY <1>1, <1>7, <2>5, Zenon DEF initFileNumberStep, told, name
    <3>2. d = [px |-> [p EXCEPT !.alive = FALSE], map |-> m, buf |-> b, back |-> r,
               in |-> tell(i, Up), forwarded |-> q, end |-> TRUE, wild |-> w]
      BY <1>3, <3>1
    <3>3. /\ [p EXCEPT !.alive = FALSE] \in Globals
          /\ [p EXCEPT !.alive = FALSE].upStatu = p.upStatu
          /\ [p EXCEPT !.alive = FALSE].g_FileName = p.g_FileName
          /\ [p EXCEPT !.alive = FALSE].Operate = p.Operate
      BY <1>1 DEF Globals
    <3> DEFINE g == [p EXCEPT !.alive = FALSE]
    <3>4. g \in Globals /\ g.upStatu = p.upStatu /\ g.g_FileName = p.g_FileName /\ g.Operate = p.Operate
      BY <3>3
    <3>7. d = [px |-> g, map |-> m, buf |-> b, back |-> r, in |-> tell(i, Up), forwarded |-> q, end |-> TRUE, wild |-> w]
      BY <3>2
    <3> HIDE DEF g
    <3>5. d \in Handlers(f)
      BY <1>1, <1>2, <3>7, <3>4 DEF Handlers
    <3>6. HeaderNone(h, d)
      BY <1>1, <3>7, <3>4 DEF HeaderNone
    <3> QED BY <1>1, <1>2, <2>5, <3>7, <3>4, <3>5, <3>6 DEF NoBlocks
  <2>6. CASE ~lsFile(m, name) /\ u.text # Empty
    <3> DEFINE n == addFile(m, name, u.num)
               j == tell(tell(i, Up), Name)
    <3>1. d = Phase(Answer([read EXCEPT !.map = n, !.in = tell(@, Name)], ACK), 2)
      BY <1>1, <1>7, <2>6, Zenon DEF initFileNumberStep, told, name, read
    <3>2. n \in Maps /\ Append(r, ACK) \in Seq(Answers)
      <4>1. n \in Maps
        BY <1>1, <2>1, MapTypes
      <4>2. ACK \in Answers
        BY DEF Answers
      <4> QED BY <1>1, <4>1, <4>2
    <3>3. /\ j \in [Servers -> Seq(ServerUnits)]
          /\ \A s \in Servers, a \in Pages : Count(j[s], Block(a)) = Count(i[s], Block(a))
      <4>1. \A s \in Servers, a \in Pages : Count(j[s], Block(a)) = Count(tell(i, Up)[s], Block(a))
        BY <1>2, InTypes
      <4> QED BY <1>2, <4>1, InTypes
    <3> HIDE DEF n, j
    <3>4. d = [px |-> At(2), map |-> n, buf |-> Tail(b),
               back |-> Append(r, ACK), in |-> j, forwarded |-> q, end |-> e, wild |-> w]
      BY <2>2, <3>1 DEF Phase, Answer, j, At
    <3>5. d \in Handlers(f)
      BY <1>1, <2>3, <2>4, <3>2, <3>3, <3>4 DEF Handlers
    <3>6. HeaderNew(h, u, d)
      BY <1>1, <1>7, <2>4, <2>6, <3>4 DEF HeaderNew, lsFile, n, name
    <3> QED BY <1>1, <2>4, <3>3, <3>4, <3>5, <3>6 DEF NoBlocks
  <2>7. CASE lsFile(m, name)
    <3> DEFINE To(a) == [px |-> At(3), map |-> m, buf |-> Tail(b), back |-> a, in |-> tell(i, Up),
                         forwarded |-> q, end |-> e, wild |-> w]
    <3>1. name \in DOMAIN m /\ m[name] \in Values
      BY <1>1, <2>7, MapTypes DEF lsFile
    <3>2. CASE lsFileFinish(m[name])
      <4>1. d = Phase(Answer(read, Success), 3)
        BY <1>1, <1>7, <2>7, <3>2, Zenon DEF initFileNumberStep, told, name, read
      <4>2. d = To(Append(r, Success))
        BY <2>2, <4>1 DEF Phase, Answer, At
      <4>3. Append(r, Success) \in Seq(Answers)
        BY <1>1 DEF Answers
      <4>4. d \in Handlers(f)
        BY <1>1, <1>2, <2>3, <2>4, <4>2, <4>3 DEF Handlers
      <4>5. HeaderKnown(h, u, d)
        BY <1>1, <1>7, <2>4, <3>1, <3>2, <4>2 DEF HeaderKnown, name
      <4> QED BY <1>1, <1>2, <2>4, <4>2, <4>4, <4>5 DEF NoBlocks
    <3>3. CASE ~lsFileFinish(m[name]) /\ m[name].uploadId = {}
      <4>1. d = Phase(read, 3)
        BY <1>1, <1>7, <2>7, <3>3, Zenon DEF initFileNumberStep, told, name, read
      <4>2. d = To(r)
        BY <2>2, <4>1 DEF Phase, At
      <4>4. d \in Handlers(f)
        BY <1>1, <1>2, <2>3, <2>4, <4>2 DEF Handlers
      <4>5. HeaderKnown(h, u, d)
        BY <1>1, <1>7, <2>4, <3>1, <3>3, <4>2 DEF HeaderKnown, name
      <4> QED BY <1>1, <1>2, <2>4, <4>2, <4>4, <4>5 DEF NoBlocks
    <3>4. CASE ~lsFileFinish(m[name]) /\ m[name].uploadId # {}
      <4>1. d = Phase(Answer(read, Ids(m[name])), 3)
        BY <1>1, <1>7, <2>7, <3>4, Zenon DEF initFileNumberStep, told, name, read
      <4>2. d = To(Append(r, Ids(m[name])))
        BY <2>2, <4>1 DEF Phase, Answer, At
      <4>3. Append(r, Ids(m[name])) \in Seq(Answers)
        <5>1. m[name].uploadId \in SUBSET Nat
          BY <3>1, ValueTypes
        <5>2. Ids(m[name]) \in Answers
          BY <5>1 DEF Answers, Ids
        <5> QED BY <1>1, <5>2
      <4>4. d \in Handlers(f)
        BY <1>1, <1>2, <2>3, <2>4, <4>2, <4>3 DEF Handlers
      <4>5. HeaderKnown(h, u, d)
        BY <1>1, <1>7, <2>4, <3>1, <3>4, <4>2 DEF HeaderKnown, name
      <4> QED BY <1>1, <1>2, <2>4, <4>2, <4>4, <4>5 DEF NoBlocks
    <3> QED BY <3>2, <3>3, <3>4
  <2> QED BY <2>5, <2>6, <2>7
<1> QED BY <1>1, <1>5, <1>6, <1>7

(* A pass of sendBlock: over something else, over a block with another MD5  *)
(* (or an id that the file does not have), or over one that is accepted.    *)
BlockNone(h, d) == d.map = h.map /\ d.back = h.back /\ d.buf = h.buf /\ d.in = h.in
                   /\ d.forwarded = h.forwarded /\ d.px = h.px /\ d.end
\* The last missing block.
BlockLast(h, d) ==
  IF lsFileFinish(d.map[h.px.g_FileName])
  THEN d.back = Append(h.back, Success) /\ d.px.upStatu = 4 /\ d.end
  ELSE d.back = h.back /\ d.px = h.px /\ d.end = h.end
BlockOther(h, u, d) ==
  /\ u.u = "rec" /\ d.map = h.map /\ d.buf = Tail(h.buf) /\ d.in = h.in /\ d.forwarded = h.forwarded
  /\ ~(/\ u.num \in 0 .. h.map[h.px.g_FileName].blockNum - 1
       /\ getstringMD5(u.text) = h.map[h.px.g_FileName].md5[u.num])
  /\ BlockLast(h, d)
BlockTaken(h, u, d) ==
  LET g == h.px.g_FileName IN
  /\ u.u = "rec" /\ u.text \in Pages
  /\ u.num \in 0 .. h.map[g].blockNum - 1 /\ getMD5(u.text) = h.map[g].md5[u.num]
  /\ d.map = [h.map EXCEPT ![g] = setuploadId(@, u.num)] /\ d.buf = Tail(h.buf)
  /\ d.in = sendTo(h.in, u.text) /\ d.forwarded = Append(h.forwarded, u.text)
  /\ BlockLast(h, d)

InFile(h) == h.end \/ h.px.g_FileName \in DOMAIN h.map

\* A callback's record, field by field.
Fields(p, m, b, r, i, q, e, w) ==
  [px |-> p, map |-> m, buf |-> b, back |-> r, in |-> i, forwarded |-> q, end |-> e, wild |-> w]

\* The end of an upload in the callback.
Said(r)   == Append(r, Success)
Closed(h) == [Phase(Answer(h, Success), 4) EXCEPT !.px.g_FileName = "", !.end = TRUE]
Finish(h, g) == IF lsFileFinish(h.map[g]) THEN Closed(h) ELSE h

(* The end of an upload in the callback.                                    *)
LEMMA LastFields ==
  ASSUME NEW p \in Globals, NEW m, NEW b, NEW r, NEW i, NEW q, NEW e, NEW w,
         NEW h, h = Fields(p, m, b, r, i, q, e, w), NEW a, a = Said(r)
  PROVE  \E g \in Globals, x \in BOOLEAN :
           /\ g.upStatu = 4 /\ g.Operate = p.Operate /\ x
           /\ Closed(h) = Fields(g, m, b, a, i, q, x, w)
<1> DEFINE p3 == [p EXCEPT !.upStatu = 4]
           g == [p3 EXCEPT !.g_FileName = ""]
<1>1. g \in Globals /\ g.upStatu = 4 /\ g.Operate = p.Operate
  <2>1. 4 \in 1 .. 4
    OBVIOUS
  <2> QED BY <2>1 DEF Globals
<1>2. h.px = p /\ h.back = r
  BY DEF Fields
<1> DEFINE h1 == Answer(h, Success)
<1>3. h1 = [h EXCEPT !.back = a]
  BY <1>2 DEF Answer, Said
<1> HIDE DEF h1
<1>4. h1 = Fields(p, m, b, a, i, q, e, w)
  BY <1>3 DEF Fields
<1>5. h1.px = p
  BY <1>4 DEF Fields
<1> DEFINE h2 == Phase(h1, 4)
<1>6. h2 = [h1 EXCEPT !.px = p3]
  BY <1>5 DEF Phase
<1>7. Closed(h) = [[h2 EXCEPT !.px = [h2.px EXCEPT !.g_FileName = ""]] EXCEPT !.end = TRUE]
  BY DEF Closed, h1, h2
<1> HIDE DEF h2, p3
<1>8. h2 = Fields(p3, m, b, a, i, q, e, w)
  BY <1>4, <1>6 DEF Fields
<1>9. h2.px = p3
  BY <1>8 DEF Fields
<1> DEFINE h3 == [h2 EXCEPT !.px = g]
<1>10. Closed(h) = [h3 EXCEPT !.end = TRUE] /\ h3 = [h2 EXCEPT !.px = g]
  BY <1>7, <1>9
<1> HIDE DEF h3, g
<1>11. h3 = Fields(g, m, b, a, i, q, e, w)
  BY <1>8, <1>10 DEF Fields
<1> DEFINE z == Closed(h)
           x == TRUE
<1>12. z = [h3 EXCEPT !.end = x] /\ x \in BOOLEAN /\ x
  BY <1>10
<1> HIDE DEF z, x
<1>13. z = Fields(g, m, b, a, i, q, x, w)
  BY <1>11, <1>12 DEF Fields
<1> QED BY <1>1, <1>12, <1>13 DEF z

\* What a pass leaves when it has looked at the block.
Passed(f, p, m, b, r, i, q, e, g, d) ==
  /\ d \in Handlers(f) /\ InFile(d) /\ d.px.Operate = p.Operate
  /\ d.map = m /\ d.buf = b /\ d.in = i /\ d.forwarded = q
  /\ IF lsFileFinish(m[g]) THEN d.back = Append(r, Success) /\ d.px.upStatu = 4 /\ d.end
                          ELSE d.back = r /\ d.px = p /\ d.end = e

(* What is left of a pass when the block has been looked at.                *)
LEMMA LastStep ==
  ASSUME NEW f \in Files, NEW p \in Globals, NEW m \in Maps, NEW b \in Seq(UnitsOf(f)),
         NEW r \in Seq(Answers), NEW i \in [Servers -> Seq(ServerUnits)], NEW q \in Seq(Pages),
         NEW e \in BOOLEAN, NEW w \in BOOLEAN, NEW g, g = p.g_FileName, g \in DOMAIN m,
         NEW t, t = Fields(p, m, b, r, i, q, e, w),
         NEW d, d = Finish(t, g)
  PROVE  Passed(f, p, m, b, r, i, q, e, g, d)
<1> SUFFICES /\ d \in Handlers(f) /\ InFile(d) /\ d.px.Operate = p.Operate
             /\ d.map = m /\ d.buf = b /\ d.in = i /\ d.forwarded = q
             /\ IF lsFileFinish(m[g])
                THEN d.back = Append(r, Success) /\ d.px.upStatu = 4 /\ d.end
                ELSE d.back = r /\ d.px = p /\ d.end = e
  BY DEF Passed
<1>1. t.map = m
  BY DEF Fields
<1>2. CASE lsFileFinish(m[g])
  <2> DEFINE a == Append(r, Success)
  <2>1. a \in Seq(Answers)
    BY DEF Answers
  <2>6. a = Said(r)
    BY DEF Said
  <2>7. a = Append(r, Success)
    OBVIOUS
  <2> HIDE DEF a
  <2>2. PICK v \in Globals, x \in BOOLEAN :
          /\ v.upStatu = 4 /\ v.Operate = p.Operate /\ x
          /\ Closed(t) = Fields(v, m, b, a, i, q, x, w)
    BY <2>6, LastFields
  <2>3. d = Fields(v, m, b, a, i, q, x, w)
    BY <1>1, <1>2, <2>2 DEF Finish
  <2>4. d \in Handlers(f)
    BY <2>1, <2>3 DEF Handlers, Fields
  <2>5. /\ d.px = v /\ d.map = m /\ d.buf = b /\ d.back = a /\ d.in = i
        /\ d.forwarded = q /\ d.end = x
    BY <2>3 DEF Fields
  <2> QED BY <1>2, <2>2, <2>7, <2>4, <2>5 DEF InFile
<1>3. CASE ~lsFileFinish(m[g])
  <2>1. d = Fields(p, m, b, r, i, q, e, w)
    BY <1>1, <1>3 DEF Finish
  <2>2. d \in Handlers(f)
    BY <2>1 DEF Handlers, Fields
  <2>3. /\ d.px = p /\ d.map = m /\ d.buf = b /\ d.back = r /\ d.in = i /\ d.forwarded = q
        /\ d.end = e
    BY <2>1 DEF Fields
  <2> QED BY <1>3, <2>2, <2>3 DEF InFile
<1> QED BY <1>2, <1>3

\* A pass of sendBlock does one of the three.
LEMMA BlockStep ==
  ASSUME NEW f \in Files, NEW h \in Handlers(f), InFile(h), NEW u \in UnitsOf(f),
         NEW d, d = sendBlockStep(h, u)
  PROVE  /\ d \in Handlers(f) /\ InFile(d) /\ d.px.Operate = h.px.Operate
         /\ \/ BlockNone(h, d) /\ (h.end \/ u.u # "rec")
            \/ ~h.end /\ (BlockOther(h, u, d) \/ BlockTaken(h, u, d))
<1>0. PICK p \in Globals, m \in Maps, b \in Seq(UnitsOf(f)), r \in Seq(Answers),
           i \in [Servers -> Seq(ServerUnits)], q \in Seq(Pages), e \in BOOLEAN, w \in BOOLEAN :
        h = Fields(p, m, b, r, i, q, e, w)
  BY DEF Handlers, Fields
<1>1. /\ h.px = p /\ h.map = m /\ h.buf = b /\ h.back = r /\ h.in = i /\ h.forwarded = q
      /\ h.end = e /\ h.wild = w
  BY <1>0 DEF Fields
<1> DEFINE g == h.px.g_FileName
<1>2. CASE e \/ u.u # "rec"
  <2>1. d = [h EXCEPT !.end = TRUE]
    BY <1>1, <1>2 DEF sendBlockStep
  <2>2. d = Fields(p, m, b, r, i, q, TRUE, w)
    BY <1>0, <2>1 DEF Fields
  <2>3. d \in Handlers(f)
    BY <2>2 DEF Handlers, Fields
  <2> QED BY <1>1, <1>2, <2>2, <2>3 DEF BlockNone, InFile, Fields
<1>3. CASE ~e /\ u.u = "rec"
  <2> DEFINE id == u.num
             known == id \in 0 .. h.map[g].blockNum - 1
             fits == known /\ getstringMD5(u.text) = getBlockFileMD5(h.map[g], id)
             read == [h EXCEPT !.buf = Tail(@)]
             yes == [read EXCEPT !.map[g] = setuploadId(@, id), !.in = sendTo(@, u.text),
                                 !.forwarded = Append(@, u.text)]
             no == [read EXCEPT !.wild = @ \/ ~known]
             taken == IF fits THEN yes ELSE no
  <2>1. g \in DOMAIN m /\ m[g] \in Values /\ g \in Names
    BY <1>1, <1>3, MapTypes DEF InFile, Globals
  <2>2. d = Finish(taken, g)
    <3>1. ~h.end /\ u.u = "rec"
      BY <1>1, <1>3
    <3> QED BY <3>1, Zenon DEF sendBlockStep, Finish, Closed
  <2>3. Tail(b) \in Seq(UnitsOf(f)) /\ Append(r, Success) \in Seq(Answers)
    BY TailType DEF Answers
  <2>5. CASE fits
    <3> DEFINE n == [m EXCEPT ![g] = setuploadId(@, id)]
               j == sendTo(i, u.text)
               a == Append(q, u.text)
               c == Tail(b)
    <3>1. u.text \in Pages
      <4>1. m[g].md5[id] \in Sums
        BY <1>1, <2>1, <2>5, ValueTypes
      <4>2. getstringMD5(u.text) \in Sums
        BY <1>1, <2>5, <4>1 DEF getBlockFileMD5
      <4>3. getstringMD5(u.text) # NoMd5 /\ getstringMD5(u.text) # WrongMd5
        BY DEF getstringMD5, NoMd5, WrongMd5
      <4> QED BY <4>2, <4>3 DEF Sums, getstringMD5, getMD5
    <3>2. n \in Maps /\ j \in [Servers -> Seq(ServerUnits)] /\ a \in Seq(Pages)
      <4>1. setuploadId(m[g], id) \in Values
        BY <1>1, <2>1, <2>5, ValueTypes
      <4>2. n \in Maps
        <5> DEFINE v == setuploadId(m[g], id)
        <5>1. n = [m EXCEPT ![g] = v] /\ v \in Values /\ g \in DOMAIN m
          BY <2>1, <4>1
        <5> HIDE DEF v, n, g
        <5> QED BY <5>1, MapTypes
      <4>3. j \in [Servers -> Seq(ServerUnits)]
        BY <3>1, InTypes
      <4>4. a \in Seq(Pages)
        BY <3>1
      <4> QED BY <4>2, <4>3, <4>4
    <3>3. taken = yes
      BY <2>5
    <3>4. yes = [[[[h EXCEPT !.buf = c] EXCEPT !.map = n] EXCEPT !.in = j] EXCEPT !.forwarded = a]
      BY <1>0 DEF Fields
    <3> HIDE DEF n, j, a, c, yes
    <3>5. yes = Fields(p, n, c, r, j, a, e, w)
      BY <1>0, <3>4 DEF Fields
    <3>6. taken = Fields(p, n, c, r, j, a, e, w)
      BY <3>3, <3>5
    <3>7. c \in Seq(UnitsOf(f)) /\ g \in DOMAIN n /\ g = p.g_FileName
      BY <1>1, <2>1, <2>3 DEF c, n
    <3>8. BlockTaken(h, u, d) /\ d \in Handlers(f) /\ InFile(d) /\ d.px.Operate = p.Operate
      <4> HIDE DEF taken, fits, known, g
      <4>1. /\ d \in Handlers(f) /\ InFile(d) /\ d.px.Operate = p.Operate
            /\ d.map = n /\ d.buf = c /\ d.in = j /\ d.forwarded = a
            /\ IF lsFileFinish(n[g]) THEN d.back = Append(r, Success) /\ d.px.upStatu = 4 /\ d.end
                                    ELSE d.back = r /\ d.px = p /\ d.end = e
        <5>1. Passed(f, p, n, c, r, j, a, e, g, d)
          BY <2>2, <3>2, <3>6, <3>7, LastStep
        <5> QED BY <5>1 DEF Passed
      <4>2. BlockLast(h, d)
        BY <1>1, <4>1 DEF BlockLast, g
      <4>3. id \in 0 .. h.map[g].blockNum - 1 /\ getMD5(u.text) = h.map[g].md5[id]
        <5>1. known /\ getstringMD5(u.text) = getBlockFileMD5(h.map[g], id)
          BY <2>5 DEF fits
        <5>2. getstringMD5(u.text) = getMD5(u.text)
          BY DEF getstringMD5, getMD5
        <5> QED BY <5>1, <5>2 DEF known, getBlockFileMD5
      <4>4. n = [h.map EXCEPT ![g] = setuploadId(@, id)] /\ c = Tail(h.buf) /\ j = sendTo(h.in, u.text)
            /\ a = Append(h.forwarded, u.text)
        BY <1>1 DEF n, c, j, a
      <4> QED BY <1>3, <3>1, <4>1, <4>2, <4>3, <4>4 DEF BlockTaken, g
    <3> QED BY <1>1, <1>3, <3>8
  <2>6. CASE ~fits
    <3> DEFINE c == Tail(b)
               x == (w \/ ~known)
    <3>1. x \in BOOLEAN
      OBVIOUS
    <3>3. taken = no
      BY <2>6
    <3>4. no = [[h EXCEPT !.buf = c] EXCEPT !.wild = x]
      BY <1>0 DEF Fields
    <3> HIDE DEF c, x, no
    <3>5. no = Fields(p, m, c, r, i, q, e, x)
      BY <1>0, <3>4 DEF Fields
    <3>6. taken = Fields(p, m, c, r, i, q, e, x)
      BY <3>3, <3>5
    <3>7. c \in Seq(UnitsOf(f)) /\ g \in DOMAIN m /\ g = p.g_FileName
      BY <1>1, <2>1, <2>3 DEF c
    <3>8. BlockOther(h, u, d) /\ d \in Handlers(f) /\ InFile(d) /\ d.px.Operate = p.Operate
      <4> HIDE DEF taken, fits, known, g
      <4>1. /\ d \in Handlers(f) /\ InFile(d) /\ d.px.Operate = p.Operate
            /\ d.map = m /\ d.buf = c /\ d.in = i /\ d.forwarded = q
            /\ IF lsFileFinish(m[g]) THEN d.back = Append(r, Success) /\ d.px.upStatu = 4 /\ d.end
                                    ELSE d.back = r /\ d.px = p /\ d.end = e
        <5>1. Passed(f, p, m, c, r, i, q, e, g, d)
          BY <2>2, <3>1, <3>6, <3>7, LastStep
        <5> QED BY <5>1 DEF Passed
      <4>2. BlockLast(h, d)
        BY <1>1, <4>1 DEF BlockLast, g
      <4>3. ~(id \in 0 .. h.map[g].blockNum - 1 /\ getstringMD5(u.text) = h.map[g].md5[id])
        BY <2>6 DEF fits, known, getBlockFileMD5
      <4> QED BY <1>1, <1>3, <4>1, <4>2, <4>3 DEF BlockOther, g, c
    <3> QED BY <1>1, <1>3, <3>8
  <2> QED BY <2>5, <2>6
<1> QED BY <1>2, <1>3

-----------------------------------------------------------------------------
(* What the proxy knows only grows.                                         *)
Grown(m, n) == /\ DOMAIN m \subseteq DOMAIN n
               /\ \A a \in DOMAIN m : n[a].blockNum = m[a].blockNum /\ m[a].uploadId \subseteq n[a].uploadId

\* What is marked was forwarded.
Accepted(m, q) ==
  \A n \in DOMAIN m : \A i \in m[n].uploadId : m[n].md5[i] \in {getMD5(p) : p \in Range(q)}

\* The ids are among those marked under the name of f; so are those of answers.
Known(m, f, I) == I # {} => FileName[f] \in DOMAIN m /\ I \subseteq m[FileName[f]].uploadId
Told(m, f, q)  == \A i \in DOMAIN q : q[i].r = "ids" => Known(m, f, q[i].ids)

\* The phase fits the file.
Phased(x, m) == /\ x.Operate = "sw" => x.upStatu = 1
                /\ x.upStatu \in {2, 3} => x.g_FileName \in DOMAIN m
                /\ x.upStatu = 2 => m[x.g_FileName].uploadId = {}

\* Growing twice is growing.
LEMMA GrownTrans ==
  ASSUME NEW m, NEW n, NEW k, Grown(m, n), Grown(n, k)
  PROVE  Grown(m, k)
BY DEF Grown

\* What a client was told stays true.
LEMMA ToldGrows ==
  ASSUME NEW m, NEW n, NEW f, NEW q, Grown(m, n), Told(m, f, q)
  PROVE  Told(n, f, q)
BY DEF Grown, Told, Known

(* More was forwarded.                                                      *)
LEMMA RangeAppend ==
  ASSUME NEW q \in Seq(Pages), NEW p \in Pages
  PROVE  Range(Append(q, p)) = Range(q) \cup {p}
<1>1. DOMAIN Append(q, p) = DOMAIN q \cup {Len(q) + 1} /\ Append(q, p)[Len(q) + 1] = p
  OBVIOUS
<1>2. \A i \in DOMAIN q : Append(q, p)[i] = q[i]
  OBVIOUS
<1> QED BY <1>1, <1>2 DEF Range

(* A name is added, a block is marked, the MD5s are set.                    *)
LEMMA AddedGrows ==
  ASSUME NEW m \in Maps, NEW n \in Names, n \notin DOMAIN m, NEW k \in Nat, NEW a, a = addFile(m, n, k)
  PROVE  /\ a \in Maps /\ DOMAIN a = DOMAIN m \cup {n} /\ a[n].blockNum = k /\ a[n].uploadId = {}
         /\ Grown(m, a) /\ \A q : Accepted(m, q) => Accepted(a, q)
<1>1. /\ a \in Maps /\ DOMAIN a = DOMAIN m \cup {n} /\ \A g \in DOMAIN m \ {n} : a[g] = m[g]
      /\ a[n] = FileValue(k)
  BY MapTypes
<1>2. a[n].blockNum = k /\ a[n].uploadId = {}
  BY <1>1, ValueTypes
<1>3. Grown(m, a)
  BY <1>1 DEF Grown
<1>4. ASSUME NEW q, Accepted(m, q) PROVE Accepted(a, q)
  BY <1>1, <1>2, <1>4 DEF Accepted
<1> QED BY <1>1, <1>2, <1>3, <1>4

\* A block that is marked adds its id; the records stay accepted when its page is forwarded.
LEMMA MarkedGrows ==
  ASSUME NEW m \in Maps, NEW n \in DOMAIN m, NEW id \in 0 .. m[n].blockNum - 1,
         NEW a, a = [m EXCEPT ![n] = setuploadId(@, id)]
  PROVE  /\ Grown(m, a) /\ DOMAIN a = DOMAIN m
         /\ a[n].uploadId = m[n].uploadId \cup {id} /\ a[n].md5 = m[n].md5
         /\ \A q \in Seq(Pages), p \in Pages :
              Accepted(m, q) /\ m[n].md5[id] = getMD5(p) => Accepted(a, Append(q, p))
<1> DEFINE v == setuploadId(m[n], id)
<1>1. m[n] \in Values
  BY MapTypes
<1>2. /\ v.blockNum = m[n].blockNum /\ v.md5 = m[n].md5 /\ v.uploadId = m[n].uploadId \cup {id}
  BY <1>1, ValueTypes
<1>3. a = [m EXCEPT ![n] = v]
  OBVIOUS
<1> HIDE DEF v
<1>4. DOMAIN a = DOMAIN m /\ a[n] = v /\ \A g \in DOMAIN m \ {n} : a[g] = m[g]
  <2>1. PICK N \in SUBSET Names : m \in [N -> Values]
    BY DEF Maps
  <2> QED BY <1>3, <2>1
<1>5. Grown(m, a)
  BY <1>2, <1>4 DEF Grown
<1>6. ASSUME NEW q \in Seq(Pages), NEW p \in Pages, Accepted(m, q), m[n].md5[id] = getMD5(p)
      PROVE  Accepted(a, Append(q, p))
  <2> DEFINE r == Append(q, p)
  <2>1. Range(r) = Range(q) \cup {p}
    BY RangeAppend
  <2> HIDE DEF r
  <2> SUFFICES ASSUME NEW g \in DOMAIN a, NEW i \in a[g].uploadId
               PROVE  a[g].md5[i] \in {getMD5(x) : x \in Range(r)}
    BY DEF Accepted, r
  <2>2. CASE g = n /\ i = id
    BY <1>2, <1>4, <1>6, <2>1, <2>2
  <2>3. CASE ~(g = n /\ i = id)
    <3>1. i \in m[g].uploadId /\ a[g].md5[i] = m[g].md5[i] /\ g \in DOMAIN m
      BY <1>2, <1>4, <2>3
    <3>2. m[g].md5[i] \in {getMD5(x) : x \in Range(q)}
      BY <1>6, <3>1 DEF Accepted
    <3> QED BY <2>1, <3>1, <3>2
  <2> QED BY <2>2, <2>3
<1> QED BY <1>2, <1>4, <1>5, <1>6

\* The MD5s of a name are set.
Announced(m, n, md5) == [m EXCEPT ![n] = setBlockFileMD5(@, md5)]

\* The MD5s are set as long as no block is marked.
LEMMA SetGrows ==
  ASSUME NEW m \in Maps, NEW n \in DOMAIN m, NEW md5 \in [1 .. m[n].blockNum -> Sums], m[n].uploadId = {},
         NEW a, a = Announced(m, n, md5)
  PROVE  /\ a \in Maps /\ Grown(m, a) /\ DOMAIN a = DOMAIN m /\ a[n].uploadId = {}
         /\ a[n].blockNum = m[n].blockNum /\ \A i \in 0 .. m[n].blockNum - 1 : a[n].md5[i] = md5[i + 1]
         /\ \A q : Accepted(m, q) => Accepted(a, q)
<1> DEFINE v == setBlockFileMD5(m[n], md5)
<1>1. m[n] \in Values
  BY MapTypes
<1>2. /\ v \in Values /\ v.blockNum = m[n].blockNum /\ v.uploadId = {}
      /\ \A i \in 0 .. m[n].blockNum - 1 : v.md5[i] = md5[i + 1]
  BY <1>1, ValueTypes
<1>3. a = [m EXCEPT ![n] = v]
  BY DEF Announced
<1> HIDE DEF v
<1>4. DOMAIN a = DOMAIN m /\ a[n] = v /\ \A g \in DOMAIN m \ {n} : a[g] = m[g]
  <2>1. PICK N \in SUBSET Names : m \in [N -> Values]
    BY DEF Maps
  <2> QED BY <1>3, <2>1
<1>5. a \in Maps
  <2>1. \A g \in DOMAIN m, x \in Values : [m EXCEPT ![g] = x] \in Maps
    BY MapTypes
  <2>2. [m EXCEPT ![n] = v] \in Maps
    BY <1>2, <2>1
  <2> QED BY <1>3, <2>2
<1>6. Grown(m, a)
  BY <1>2, <1>4 DEF Grown
<1>7. ASSUME NEW q, Accepted(m, q) PROVE Accepted(a, q)
  BY <1>2, <1>4, <1>7 DEF Accepted
<1> QED BY <1>2, <1>4, <1>5, <1>6, <1>7

-----------------------------------------------------------------------------
(* What the passes of a callback lead to, from h to d.                      *)

\* A block that the servers are sent was forwarded, and to its server.
Forwards(i, q, j, r) ==
  \A s \in Servers, p \in Pages :
    /\ Count(j[s], Block(p)) - Count(i[s], Block(p)) <= IF Server[p] = s THEN Count(r, p) - Count(q, p) ELSE 0
    /\ Count(q, p) <= Count(r, p)

Honest(m, f, q) == DOMAIN m \cap Pages = {} => Told(m, f, q)

Leads(f, h, d) ==
  /\ Grown(h.map, d.map)
  /\ Accepted(h.map, h.forwarded) => Accepted(d.map, d.forwarded)
  /\ Phased(h.px, h.map) => Phased(d.px, d.map)
  /\ Honest(h.map, f, h.back) => Honest(d.map, f, d.back)
  /\ Forwards(h.in, h.forwarded, d.in, d.forwarded)

(* The types of the parts.                                                  *)
LEMMA HandlerParts ==
  ASSUME NEW f, NEW h \in Handlers(f)
  PROVE  /\ h.px \in Globals /\ h.map \in Maps /\ h.buf \in Seq(UnitsOf(f)) /\ h.back \in Seq(Answers)
         /\ h.in \in [Servers -> Seq(ServerUnits)] /\ h.forwarded \in Seq(Pages)
         /\ h.end \in BOOLEAN /\ h.wild \in BOOLEAN
BY DEF Handlers

\* How often a block was sent or forwarded is a number.
LEMMA CountsAreNatural ==
  ASSUME NEW f, NEW h \in Handlers(f), NEW s \in Servers, NEW p \in Pages
  PROVE  Count(h.in[s], Block(p)) \in Nat /\ Count(h.forwarded, p) \in Nat
<1>1. h.in[s] \in Seq(ServerUnits) /\ h.forwarded \in Seq(Pages)
  BY HandlerParts
<1> QED BY <1>1, CountType

\* One pass after the other.
LEMMA LeadsTrans ==
  ASSUME NEW f, NEW h \in Handlers(f), NEW d \in Handlers(f), NEW e \in Handlers(f),
         Leads(f, h, d), Leads(f, d, e)
  PROVE  Leads(f, h, e)
<1>1. Grown(h.map, e.map)
  BY GrownTrans DEF Leads
<1>2. Forwards(h.in, h.forwarded, e.in, e.forwarded)
  <2> SUFFICES ASSUME NEW s \in Servers, NEW p \in Pages
               PROVE  /\ Count(e.in[s], Block(p)) - Count(h.in[s], Block(p))
                           <= IF Server[p] = s THEN Count(e.forwarded, p) - Count(h.forwarded, p) ELSE 0
                      /\ Count(h.forwarded, p) <= Count(e.forwarded, p)
    BY DEF Forwards
  <2> DEFINE a == Count(h.in[s], Block(p))
             b == Count(d.in[s], Block(p))
             c == Count(e.in[s], Block(p))
             x == Count(h.forwarded, p)
             y == Count(d.forwarded, p)
             z == Count(e.forwarded, p)
  <2>1. a \in Nat /\ b \in Nat /\ c \in Nat /\ x \in Nat /\ y \in Nat /\ z \in Nat
    BY CountsAreNatural
  <2>2. /\ b - a <= IF Server[p] = s THEN y - x ELSE 0
        /\ c - b <= IF Server[p] = s THEN z - y ELSE 0
        /\ x <= y /\ y <= z
    BY DEF Leads, Forwards
  <2> HIDE DEF a, b, c, x, y, z
  <2>3. c - a <= (IF Server[p] = s THEN z - x ELSE 0) /\ x <= z
    BY <2>1, <2>2
  <2> QED BY <2>3 DEF a, c, x, z
<1> QED BY <1>1, <1>2 DEF Leads

\* A pass that leaves the records, the answers and the blocks alone.
LEMMA LeadsSame ==
  ASSUME NEW f, NEW h \in Handlers(f), NEW d \in Handlers(f), NoBlocks(h, d), d.forwarded = h.forwarded,
         d.map = h.map, d.back = h.back, Phased(h.px, h.map) => Phased(d.px, h.map)
  PROVE  Leads(f, h, d)
<1>1. Forwards(h.in, h.forwarded, d.in, d.forwarded)
  <2> SUFFICES ASSUME NEW s \in Servers, NEW p \in Pages
               PROVE  /\ Count(d.in[s], Block(p)) - Count(h.in[s], Block(p))
                           <= IF Server[p] = s THEN Count(d.forwarded, p) - Count(h.forwarded, p) ELSE 0
                      /\ Count(h.forwarded, p) <= Count(d.forwarded, p)
    BY DEF Forwards
  <2>1. Count(d.in[s], Block(p)) = Count(h.in[s], Block(p)) /\ Count(h.in[s], Block(p)) \in Nat
        /\ Count(h.forwarded, p) \in Nat
    BY CountsAreNatural DEF NoBlocks
  <2> QED BY <2>1
<1>2. Grown(h.map, d.map)
  <2>1. h.map \in Maps
    BY HandlerParts
  <2> QED BY <2>1 DEF Grown
<1> QED BY <1>1, <1>2 DEF Leads

(* Nothing but the answers and the phase: what was told stays told.         *)
LEMMA ToldAppend ==
  ASSUME NEW m, NEW f, NEW q \in Seq(Answers), Told(m, f, q), NEW r \in Answers,
         r.r = "ids" => Known(m, f, r.ids)
  PROVE  Told(m, f, Append(q, r))
<1>1. \A i \in DOMAIN Append(q, r) : (i \in DOMAIN q /\ Append(q, r)[i] = q[i]) \/ Append(q, r)[i] = r
  OBVIOUS
<1> QED BY <1>1 DEF Told

(* A pass over a header.                                                    *)
LEMMA HeaderLeads ==
  ASSUME NEW f \in Files, NEW h \in Handlers(f), h.px.Operate = "up", NEW u \in UnitsOf(f),
         NEW d, d = initFileNumberStep(h, u)
  PROVE  d \in Handlers(f) /\ d.px.Operate = "up" /\ Leads(f, h, d)
<1>0. /\ d \in Handlers(f) /\ d.px.Operate = "up"
      /\ d.forwarded = h.forwarded /\ NoBlocks(h, d)
      /\ HeaderNone(h, d) \/ HeaderNew(h, u, d) \/ HeaderKnown(h, u, d)
  BY HeaderStep
<1> DEFINE name == getFileName(u.text)
<1>1. CASE HeaderNone(h, d)
  <2>1. Phased(h.px, h.map) => Phased(d.px, h.map)
    BY <1>0, <1>1 DEF HeaderNone, Phased
  <2> QED BY <1>0, <1>1, <2>1, LeadsSame DEF HeaderNone
<1>2. Forwards(h.in, h.forwarded, d.in, d.forwarded)
  <2> SUFFICES ASSUME NEW s \in Servers, NEW p \in Pages
               PROVE  /\ Count(d.in[s], Block(p)) - Count(h.in[s], Block(p))
                           <= IF Server[p] = s THEN Count(d.forwarded, p) - Count(h.forwarded, p) ELSE 0
                      /\ Count(h.forwarded, p) <= Count(d.forwarded, p)
    BY DEF Forwards
  <2>1. Count(d.in[s], Block(p)) = Count(h.in[s], Block(p)) /\ Count(h.in[s], Block(p)) \in Nat
        /\ Count(h.forwarded, p) \in Nat
    BY <1>0, CountsAreNatural DEF NoBlocks
  <2> QED BY <1>0, <2>1
<1>3. CASE HeaderNew(h, u, d)
  <2>1. u.u = "rec" /\ name \notin DOMAIN h.map /\ d.map = addFile(h.map, name, u.num)
    BY <1>3 DEF HeaderNew
  <2>2. name \in Names /\ u.num \in Nat /\ h.map \in Maps
    BY <2>1, RecUnit, HandlerParts
  <2>3. /\ name \in DOMAIN d.map /\ d.map[name].uploadId = {}
        /\ Grown(h.map, d.map) /\ \A q : Accepted(h.map, q) => Accepted(d.map, q)
    <3> DEFINE n == name
               k == u.num
               a == d.map
               m == h.map
    <3>1. m \in Maps /\ n \in Names /\ n \notin DOMAIN m /\ k \in Nat /\ a = addFile(m, n, k)
      BY <2>1, <2>2
    <3> HIDE DEF n, k, a, m
    <3>2. /\ DOMAIN a = DOMAIN m \cup {n} /\ a[n].uploadId = {}
          /\ Grown(m, a) /\ \A q : Accepted(m, q) => Accepted(a, q)
      BY <3>1, AddedGrows
    <3> QED BY <3>2 DEF n, a, m
  <2>4. d.px.upStatu = 2 /\ d.px.g_FileName = name /\ d.back = Append(h.back, ACK)
    BY <1>3 DEF HeaderNew
  <2>5. Phased(d.px, d.map)
    BY <1>0, <2>3, <2>4 DEF Phased
  <2>6. Honest(h.map, f, h.back) => Honest(d.map, f, d.back)
    <3> SUFFICES ASSUME Honest(h.map, f, h.back), DOMAIN d.map \cap Pages = {} PROVE Told(d.map, f, d.back)
      BY DEF Honest
    <3>1. Told(d.map, f, h.back)
      BY <2>3, ToldGrows DEF Honest, Grown
    <3>2. h.back \in Seq(Answers) /\ ACK \in Answers /\ ACK.r # "ids"
      BY HandlerParts DEF Answers, ACK
    <3> QED BY <2>4, <3>1, <3>2, ToldAppend
  <2> QED BY <1>0, <1>2, <2>3, <2>5, <2>6 DEF Leads
<1>4. CASE HeaderKnown(h, u, d)
  <2>1. /\ u.u = "rec" /\ name \in DOMAIN h.map /\ d.map = h.map
        /\ d.px.upStatu = 3 /\ d.px.g_FileName = name
        /\ \/ d.back = h.back \/ d.back = Append(h.back, Success)
           \/ d.back = Append(h.back, Ids(h.map[name]))
    BY <1>4 DEF HeaderKnown
  <2>2. Phased(d.px, d.map)
    BY <1>0, <2>1 DEF Phased
  <2>3. Grown(h.map, d.map)
    BY <2>1, HandlerParts DEF Grown
  <2>4. Honest(h.map, f, h.back) => Honest(d.map, f, d.back)
    <3> SUFFICES ASSUME Told(h.map, f, h.back), DOMAIN h.map \cap Pages = {} PROVE Told(h.map, f, d.back)
      BY <2>1 DEF Honest
    <3>1. h.back \in Seq(Answers) /\ Success \in Answers /\ Success.r # "ids"
      BY HandlerParts DEF Answers, Success
    <3>2. name = FileName[f]
      BY <2>1, RecUnit
    <3> DEFINE a == Ids(h.map[name])
    <3>3. a \in Answers /\ Known(h.map, f, a.ids)
      <4>1. h.map[name] \in Values
        BY <2>1, HandlerParts, MapTypes
      <4>2. h.map[name].uploadId \in SUBSET Nat
        BY <4>1, ValueTypes
      <4> QED BY <2>1, <3>2, <4>2 DEF Ids, Answers, Known
    <3>4. d.back = h.back \/ d.back = Append(h.back, Success) \/ d.back = Append(h.back, a)
      BY <2>1
    <3> HIDE DEF a
    <3>5. CASE d.back = h.back
      BY <3>5
    <3>6. CASE d.back = Append(h.back, Success)
      BY <3>1, <3>6, ToldAppend
    <3>7. CASE d.back = Append(h.back, a)
      BY <3>1, <3>3, <3>7, ToldAppend
    <3> QED BY <3>4, <3>5, <3>6, <3>7
  <2> QED BY <1>0, <1>2, <2>1, <2>2, <2>3, <2>4 DEF Leads
<1> QED BY <1>0, <1>1, <1>3, <1>4

(* A pass over a block.                                                     *)
LEMMA BlockLeads ==
  ASSUME NEW f \in Files, NEW h \in Handlers(f), InFile(h), h.px.Operate = "up", h.px.upStatu \in {3, 4},
         NEW u \in UnitsOf(f), NEW d, d = sendBlockStep(h, u)
  PROVE  d \in Handlers(f) /\ InFile(d) /\ d.px.Operate = "up" /\ d.px.upStatu \in {3, 4} /\ Leads(f, h, d)
<1>0. /\ d \in Handlers(f) /\ InFile(d) /\ d.px.Operate = "up"
      /\ BlockNone(h, d) \/ (~h.end /\ BlockOther(h, u, d)) \/ (~h.end /\ BlockTaken(h, u, d))
  BY BlockStep
<1> DEFINE g == h.px.g_FileName
<1>1. CASE BlockNone(h, d)
  <2>1. /\ d.map = h.map /\ d.back = h.back /\ d.in = h.in /\ d.forwarded = h.forwarded /\ d.px = h.px
    BY <1>1 DEF BlockNone
  <2>2. NoBlocks(h, d)
    BY <2>1 DEF NoBlocks
  <2> QED BY <1>0, <2>1, <2>2, LeadsSame
<1>2. ASSUME ~h.end, BlockLast(h, d), DOMAIN d.map = DOMAIN h.map, Grown(h.map, d.map)
      PROVE  /\ d.px.upStatu \in {3, 4} /\ (Phased(h.px, h.map) => Phased(d.px, d.map))
             /\ Honest(h.map, f, h.back) => Honest(d.map, f, d.back)
  <2>1. g \in DOMAIN h.map
    BY <1>2 DEF InFile
  <2>2. (d.back = h.back /\ d.px = h.px) \/ (d.back = Append(h.back, Success) /\ d.px.upStatu = 4)
    BY <1>2 DEF BlockLast
  <2>3. Phased(h.px, h.map) => Phased(d.px, d.map)
    BY <1>0, <1>2, <2>1, <2>2 DEF Phased
  <2>4. Honest(h.map, f, h.back) => Honest(d.map, f, d.back)
    <3> SUFFICES ASSUME Told(h.map, f, h.back) PROVE Told(d.map, f, d.back)
      BY <1>2 DEF Honest
    <3>1. h.back \in Seq(Answers) /\ Success \in Answers /\ Success.r # "ids"
      BY HandlerParts DEF Answers, Success
    <3>2. Told(d.map, f, h.back)
      BY <1>2, ToldGrows
    <3> QED BY <2>2, <3>1, <3>2, ToldAppend
  <2> QED BY <2>2, <2>3, <2>4
<1>3. CASE ~h.end /\ BlockOther(h, u, d)
  <2>1. d.map = h.map /\ d.in = h.in /\ d.forwarded = h.forwarded /\ BlockLast(h, d)
    BY <1>3 DEF BlockOther
  <2>2. Grown(h.map, d.map)
    BY <2>1, HandlerParts DEF Grown
  <2>3. /\ d.px.upStatu \in {3, 4} /\ (Phased(h.px, h.map) => Phased(d.px, d.map))
        /\ Honest(h.map, f, h.back) => Honest(d.map, f, d.back)
    BY <1>2, <1>3, <2>1, <2>2
  <2>4. Forwards(h.in, h.forwarded, d.in, d.forwarded)
    <3> SUFFICES ASSUME NEW s \in Servers, NEW p \in Pages
                 PROVE  /\ Count(h.in[s], Block(p)) - Count(h.in[s], Block(p))
                             <= IF Server[p] = s THEN Count(h.forwarded, p) - Count(h.forwarded, p) ELSE 0
                        /\ Count(h.forwarded, p) <= Count(h.forwarded, p)
      BY <2>1 DEF Forwards
    <3>1. Count(h.in[s], Block(p)) \in Nat /\ Count(h.forwarded, p) \in Nat
      BY CountsAreNatural
    <3> QED BY <3>1
  <2> QED BY <1>0, <2>1, <2>2, <2>3, <2>4 DEF Leads
<1>4. CASE ~h.end /\ BlockTaken(h, u, d)
  <2> DEFINE id == u.num
             t == u.text
  <2>1. /\ t \in Pages /\ id \in 0 .. h.map[g].blockNum - 1 /\ getMD5(t) = h.map[g].md5[id]
        /\ d.map = [h.map EXCEPT ![g] = setuploadId(@, id)]
        /\ d.in = sendTo(h.in, t) /\ d.forwarded = Append(h.forwarded, t) /\ BlockLast(h, d)
    BY <1>4 DEF BlockTaken
  <2>2. g \in DOMAIN h.map /\ h.map \in Maps /\ h.forwarded \in Seq(Pages)
    BY <1>4, HandlerParts DEF InFile
  <2> HIDE DEF g, id, t
  <2>3. /\ Grown(h.map, d.map) /\ DOMAIN d.map = DOMAIN h.map
        /\ Accepted(h.map, h.forwarded) => Accepted(d.map, d.forwarded)
    <3> DEFINE a == d.map
    <3>1. a = [h.map EXCEPT ![g] = setuploadId(@, id)]
      BY <2>1
    <3> HIDE DEF a
    <3>2. /\ Grown(h.map, a) /\ DOMAIN a = DOMAIN h.map
          /\ \A q \in Seq(Pages), p \in Pages :
               Accepted(h.map, q) /\ h.map[g].md5[id] = getMD5(p) => Accepted(a, Append(q, p))
      BY <2>1, <2>2, <3>1, MarkedGrows
    <3> QED BY <2>1, <2>2, <3>2 DEF a
  <2>4. /\ d.px.upStatu \in {3, 4} /\ (Phased(h.px, h.map) => Phased(d.px, d.map))
        /\ Honest(h.map, f, h.back) => Honest(d.map, f, d.back)
    BY <1>2, <1>4, <2>1, <2>3
  <2>5. Forwards(h.in, h.forwarded, d.in, d.forwarded)
    <3> SUFFICES ASSUME NEW s \in Servers, NEW p \in Pages
                 PROVE  /\ Count(d.in[s], Block(p)) - Count(h.in[s], Block(p))
                             <= IF Server[p] = s THEN Count(d.forwarded, p) - Count(h.forwarded, p) ELSE 0
                        /\ Count(h.forwarded, p) <= Count(d.forwarded, p)
      BY DEF Forwards
    <3>1. Count(d.in[s], Block(p)) = Count(h.in[s], Block(p)) + IF Server[p] = s /\ t = p THEN 1 ELSE 0
      <4> DEFINE i == h.in
                 j == sendTo(i, t)
      <4>1. i \in [Servers -> Seq(ServerUnits)] /\ t \in Pages /\ d.in = j
        BY <2>1, HandlerParts
      <4> HIDE DEF i
      <4>2. Count(j[s], Block(p)) = Count(i[s], Block(p)) + IF Server[p] = s /\ t = p THEN 1 ELSE 0
        <5>1. \A r \in Pages : \A x \in Servers, y \in Pages :
                Count(sendTo(i, r)[x], Block(y)) = Count(i[x], Block(y)) + IF Server[y] = x /\ r = y THEN 1 ELSE 0
          BY <4>1, InTypes
        <5> QED BY <4>1, <5>1
      <4> QED BY <4>1, <4>2 DEF i
    <3>2. Count(d.forwarded, p) = Count(h.forwarded, p) + IF t = p THEN 1 ELSE 0
      BY <2>1, <2>2, CountAppend
    <3>3. Count(h.in[s], Block(p)) \in Nat /\ Count(h.forwarded, p) \in Nat
      BY CountsAreNatural
    <3> DEFINE a == Count(h.in[s], Block(p))
               b == Count(d.in[s], Block(p))
               x == Count(h.forwarded, p)
               y == Count(d.forwarded, p)
    <3>4. /\ a \in Nat /\ x \in Nat
          /\ b = a + (IF Server[p] = s /\ t = p THEN 1 ELSE 0) /\ y = x + IF t = p THEN 1 ELSE 0
      BY <3>1, <3>2, <3>3
    <3> HIDE DEF a, b, x, y
    <3>5. b - a <= (IF Server[p] = s THEN y - x ELSE 0) /\ x <= y
      BY <3>4
    <3> QED BY <3>5 DEF a, b, x, y
  <2> QED BY <1>0, <2>3, <2>4, <2>5 DEF Leads
<1> QED BY <1>0, <1>1, <1>3, <1>4

-----------------------------------------------------------------------------
(* The other calls of onMessage.                                            *)
LEMMA SwitchStep ==
  ASSUME NEW f \in Files, NEW h \in Handlers(f), h.buf # <<>>, NEW d, d = switchOperate(h)
  PROVE  /\ d \in Handlers(f) /\ d.map = h.map /\ d.back = h.back /\ d.in = h.in
         /\ d.forwarded = h.forwarded
         /\ d.px.upStatu = h.px.upStatu /\ d.px.g_FileName = h.px.g_FileName
         /\ \/ Head(h.buf) = Op /\ d.px.Operate = "up" /\ d.buf = Tail(h.buf)
            \/ Head(h.buf) # Op /\ d.px = h.px /\ d.buf = <<Lost>>
<1>0. PICK p \in Globals, m \in Maps, b \in Seq(UnitsOf(f)), r \in Seq(Answers),
           i \in [Servers -> Seq(ServerUnits)], q \in Seq(Pages), e \in BOOLEAN, w \in BOOLEAN :
        h = Fields(p, m, b, r, i, q, e, w)
  BY DEF Handlers, Fields
<1>1. /\ h.px = p /\ h.map = m /\ h.buf = b /\ h.back = r /\ h.in = i /\ h.forwarded = q
      /\ h.end = e /\ h.wild = w
  BY <1>0 DEF Fields
<1>2. CASE Head(h.buf) = Op
  <2> DEFINE c == Tail(b)
             g == [p EXCEPT !.Operate = "up"]
             y == [h EXCEPT !.px = g]
  <2>1. c \in Seq(UnitsOf(f)) /\ g \in Globals
    BY TailType DEF Globals
  <2>2. g.Operate = "up" /\ g.upStatu = p.upStatu /\ g.g_FileName = p.g_FileName
    BY DEF Globals
  <2>3. d = [y EXCEPT !.buf = c]
    BY <1>1, <1>2 DEF switchOperate
  <2>4. y = [h EXCEPT !.px = g] /\ c = Tail(b)
    OBVIOUS
  <2> HIDE DEF c, g, y
  <2>5. y = Fields(g, m, b, r, i, q, e, w)
    BY <1>0, <2>4 DEF Fields
  <2>6. d = Fields(g, m, c, r, i, q, e, w)
    BY <2>3, <2>5 DEF Fields
  <2>7. d \in Handlers(f)
    BY <2>1, <2>6 DEF Handlers, Fields
  <2>8. d.px = g /\ d.map = m /\ d.back = r /\ d.in = i /\ d.forwarded = q /\ d.buf = c
    BY <2>6 DEF Fields
  <2> QED BY <1>1, <1>2, <2>2, <2>4, <2>7, <2>8
<1>3. CASE Head(h.buf) # Op
  <2> DEFINE c == <<Lost>>
             y == [h EXCEPT !.buf = c]
             x == TRUE
  <2>1. c \in Seq(UnitsOf(f)) /\ x \in BOOLEAN
    BY DEF UnitsOf
  <2>2. d = [y EXCEPT !.wild = x]
    BY <1>3 DEF switchOperate
  <2>3. y = [h EXCEPT !.buf = c] /\ c = <<Lost>>
    OBVIOUS
  <2> HIDE DEF c, y, x
  <2>4. y = Fields(p, m, c, r, i, q, e, w)
    BY <1>0, <2>3 DEF Fields
  <2>5. d = Fields(p, m, c, r, i, q, e, x)
    BY <2>2, <2>4 DEF Fields
  <2>6. d \in Handlers(f)
    BY <2>1, <2>5 DEF Handlers, Fields
  <2>7. d.px = p /\ d.map = m /\ d.back = r /\ d.in = i /\ d.forwarded = q /\ d.buf = c
    BY <2>5 DEF Fields
  <2> QED BY <1>1, <1>3, <2>3, <2>6, <2>7
<1> QED BY <1>2, <1>3

\* The MD5s of the file are there, and as many as it is to have.
Announces(u, n) == u.u = "md5s" /\ Len(u.md5s) = n

\* The unit of the MD5s announces a function.
LEMMA SumsUnit ==
  ASSUME NEW f \in Files, NEW u \in UnitsOf(f), u.u = "md5s"
  PROVE  u = Sums1(f) /\ u.md5s \in [1 .. blockNum(f) -> Sums] /\ Len(u.md5s) = blockNum(f)
<1>1. u = Sums1(f)
  BY DEF UnitsOf, Op, Lost, Header, Rec, Blocks
<1>2. u.md5s = [i \in 1 .. blockNum(f) |-> getMD5(BlockFile(f, i - 1))]
  BY <1>1 DEF Sums1
<1>3. blockNum(f) \in Nat /\ \A i \in 1 .. blockNum(f) : BlockFile(f, i - 1) \in Pages
  BY Cutting
<1>4. u.md5s \in [1 .. blockNum(f) -> Sums]
  BY <1>2, <1>3 DEF Sums
<1>5. Len(u.md5s) = blockNum(f)
  BY <1>3, <1>4
<1> QED BY <1>1, <1>4, <1>5

\* initFileMD5 waits, goes on without blocks, or sets the MD5s, announced or not.
LEMMA MD5Step ==
  ASSUME NEW f \in Files, NEW h \in Handlers(f), h.buf # <<>>, NEW g, g = h.px.g_FileName, g \in DOMAIN h.map,
         h.map[g].uploadId = {}, NEW n, n = h.map[g].blockNum, NEW d \in initFileMD5(h)
  PROVE  \/ d = h /\ n # 0 /\ ~Announces(Head(h.buf), n)
         \/ /\ d \in Handlers(f) /\ d.back = h.back /\ d.in = h.in /\ d.forwarded = h.forwarded
            /\ d.px = [h.px EXCEPT !.upStatu = 3]
            /\ \/ n = 0 /\ d.map = h.map /\ d.buf = h.buf
               \/ /\ n # 0
                  /\ \E md5 \in [1 .. n -> Sums] :
                       /\ d.map = Announced(h.map, g, md5)
                       /\ \/ Announces(Head(h.buf), n) /\ md5 = Head(h.buf).md5s /\ d.buf = Tail(h.buf)
                          \/ ~Announces(Head(h.buf), n) /\ d.buf = <<Lost>>
<1>0. PICK p \in Globals, m \in Maps, b \in Seq(UnitsOf(f)), r \in Seq(Answers),
           i \in [Servers -> Seq(ServerUnits)], q \in Seq(Pages), e \in BOOLEAN, w \in BOOLEAN :
        h = Fields(p, m, b, r, i, q, e, w)
  BY DEF Handlers, Fields
<1>1. /\ h.px = p /\ h.map = m /\ h.buf = b /\ h.back = r /\ h.in = i /\ h.forwarded = q
      /\ h.end = e /\ h.wild = w
  BY <1>0 DEF Fields
<1>2. n \in Nat
  BY <1>1, MapTypes, ValueTypes
<1> DEFINE p3 == [p EXCEPT !.upStatu = 3]
           u == Head(b)
           set(md5, rest) == Phase([h EXCEPT !.map[g] = setBlockFileMD5(@, md5), !.buf = rest], 3)
<1>3. p3 \in Globals
  <2>1. 3 \in 1 .. 4
    OBVIOUS
  <2> QED BY <2>1 DEF Globals
<1>4. /\ n = 0 => d = Phase(h, 3)
      /\ n # 0 /\ Announces(u, n) => d = set(u.md5s, Tail(b))
      /\ n # 0 /\ ~Announces(u, n) => d = h \/ d = set([k \in 1 .. n |-> WrongMd5], <<Lost>>)
  BY <1>1, Zenon DEF initFileMD5, Announces, getFileNum
<1>5. CASE n = 0
  <2>1. d = [h EXCEPT !.px = p3]
    BY <1>1, <1>4, <1>5 DEF Phase
  <2>2. p3 = [h.px EXCEPT !.upStatu = 3]
    BY <1>1
  <2> HIDE DEF p3
  <2>3. d = Fields(p3, m, b, r, i, q, e, w)
    BY <1>0, <2>1 DEF Fields
  <2>4. d \in Handlers(f)
    BY <1>3, <2>3 DEF Handlers, Fields
  <2>5. d.px = p3 /\ d.map = m /\ d.buf = b /\ d.back = r /\ d.in = i /\ d.forwarded = q
    BY <2>3 DEF Fields
  <2> QED BY <1>1, <1>5, <2>2, <2>4, <2>5
<1>6. ASSUME NEW md5 \in [1 .. n -> Sums], NEW rest \in Seq(UnitsOf(f)), d = set(md5, rest)
      PROVE  /\ d \in Handlers(f) /\ d.back = h.back /\ d.in = h.in /\ d.forwarded = h.forwarded
             /\ d.px = [h.px EXCEPT !.upStatu = 3]
             /\ d.map = Announced(h.map, g, md5) /\ d.buf = rest
  <2> DEFINE a == [m EXCEPT ![g] = setBlockFileMD5(@, md5)]
             y == [[h EXCEPT !.map = a] EXCEPT !.buf = rest]
  <2>1. a \in Maps
    <3> DEFINE v == setBlockFileMD5(m[g], md5)
    <3>1. m[g] \in Values /\ g \in DOMAIN m /\ md5 \in [1 .. m[g].blockNum -> Sums]
      BY <1>1, <1>6, MapTypes
    <3>2. v \in Values
      BY <3>1, ValueTypes
    <3>3. \A x \in DOMAIN m, z \in Values : [m EXCEPT ![x] = z] \in Maps
      BY MapTypes
    <3>4. a = [m EXCEPT ![g] = v]
      OBVIOUS
    <3> HIDE DEF a, v
    <3> QED BY <3>1, <3>2, <3>3, <3>4
  <2>2. d = Phase(y, 3)
    BY <1>1, <1>6
  <2>3. a = Announced(h.map, g, md5) /\ y = [[h EXCEPT !.map = a] EXCEPT !.buf = rest]
    BY <1>1 DEF Announced
  <2> HIDE DEF a, y
  <2>4. y = Fields(p, a, rest, r, i, q, e, w)
    BY <1>0, <2>3 DEF Fields
  <2>5. y.px = p
    BY <2>4 DEF Fields
  <2>6. d = [y EXCEPT !.px = p3]
    BY <2>2, <2>5 DEF Phase
  <2>7. p3 = [h.px EXCEPT !.upStatu = 3]
    BY <1>1
  <2> HIDE DEF p3
  <2>8. d = Fields(p3, a, rest, r, i, q, e, w)
    BY <2>4, <2>6 DEF Fields
  <2>9. d \in Handlers(f)
    BY <1>3, <2>1, <2>8 DEF Handlers, Fields
  <2>10. d.px = p3 /\ d.map = a /\ d.buf = rest /\ d.back = r /\ d.in = i /\ d.forwarded = q
    BY <2>8 DEF Fields
  <2> QED BY <1>1, <2>3, <2>7, <2>9, <2>10
<1> HIDE DEF set, u
<1>7. CASE n # 0 /\ Announces(u, n)
  <2> DEFINE md5 == u.md5s
             rest == Tail(b)
  <2>1. d = set(md5, rest)
    BY <1>4, <1>7
  <2>2. rest \in Seq(UnitsOf(f)) /\ u \in UnitsOf(f)
    BY <1>1, TailType DEF u
  <2>3. md5 \in [1 .. n -> Sums]
    BY <1>7, <2>2, SumsUnit DEF Announces
  <2>4. md5 = Head(h.buf).md5s /\ rest = Tail(h.buf) /\ Announces(Head(h.buf), n)
    BY <1>1, <1>7 DEF u
  <2> HIDE DEF md5, rest
  <2> QED BY <1>6, <1>7, <2>1, <2>2, <2>3, <2>4
<1>8. CASE n # 0 /\ ~Announces(u, n)
  <2> DEFINE md5 == [k \in 1 .. n |-> WrongMd5]
             rest == <<Lost>>
  <2>1. d = h \/ d = set(md5, rest)
    BY <1>4, <1>8
  <2>2. rest \in Seq(UnitsOf(f)) /\ md5 \in [1 .. n -> Sums] /\ rest = <<Lost>>
    BY DEF UnitsOf, Sums
  <2>3. ~Announces(Head(h.buf), n)
    BY <1>1, <1>8 DEF u
  <2> HIDE DEF md5, rest
  <2> QED BY <1>6, <1>8, <2>1, <2>2, <2>3
<1> QED BY <1>5, <1>7, <1>8

-----------------------------------------------------------------------------
(* onMessage.                                                               *)
LEMMA NumbersLead ==
  ASSUME NEW f \in Files, NEW h \in Handlers(f), h.px.Operate = "up"
  PROVE  LET d == initFileNumber(h) IN d \in Handlers(f) /\ d.px.Operate = "up" /\ Leads(f, h, d)
<1> DEFINE S == {d \in Handlers(f) : d.px.Operate = "up"}
           R == {d \in S : Leads(f, h, d)}
           q == h.buf
           n == Len(q)
           T == [k \in 0 .. n |-> R]
<1>1. q \in Seq(UnitsOf(f)) /\ n \in Nat /\ DOMAIN q = 1 .. n /\ \A k \in 1 .. n : q[k] \in UnitsOf(f)
  BY HandlerParts
<1>2. h \in R
  <2>1. NoBlocks(h, h)
    BY DEF NoBlocks
  <2> QED BY <2>1, LeadsSame
<1>3. \A k \in 1 .. n, d \in S : initFileNumberStep(d, q[k]) \in S
  <2> SUFFICES ASSUME NEW k \in 1 .. n, NEW d \in S PROVE initFileNumberStep(d, q[k]) \in S
    OBVIOUS
  <2> DEFINE u == q[k]
             e == initFileNumberStep(d, u)
  <2>1. u \in UnitsOf(f) /\ e = initFileNumberStep(d, u)
    BY <1>1
  <2> HIDE DEF u, e
  <2>2. e \in S
    BY <2>1, HeaderLeads
  <2> QED BY <2>2 DEF e, u
<1>4. \A k \in 1 .. n, d \in S : d \in R => initFileNumberStep(d, q[k]) \in R
  <2> SUFFICES ASSUME NEW k \in 1 .. n, NEW d \in R PROVE initFileNumberStep(d, q[k]) \in R
    OBVIOUS
  <2> DEFINE u == q[k]
             e == initFileNumberStep(d, u)
  <2>1. u \in UnitsOf(f) /\ e = initFileNumberStep(d, u)
    BY <1>1
  <2> HIDE DEF u, e
  <2>2. e \in S /\ Leads(f, d, e)
    BY <2>1, HeaderLeads
  <2>3. Leads(f, h, e)
    BY <2>2, LeadsTrans
  <2> QED BY <2>2, <2>3 DEF e, u
<1>5. /\ T \in [0 .. n -> SUBSET S] /\ h \in T[0]
      /\ \A k \in 1 .. n, d \in S : d \in T[k - 1] => initFileNumberStep(d, q[k]) \in T[k]
  <2>1. T[0] = R /\ \A k \in 1 .. n : T[k - 1] = R /\ T[k] = R
    BY <1>1
  <2>2. T \in [0 .. n -> SUBSET S]
    OBVIOUS
  <2> HIDE DEF T, R
  <2> QED BY <1>2, <1>4, <2>1, <2>2
<1>6. FoldLeft(initFileNumberStep, h, q) \in T[n]
  <2>1. h \in S
    OBVIOUS
  <2> HIDE DEF S, T, q, n
  <2> QED BY <1>1, <1>3, <1>5, <2>1, LoopOfHeaders
<1>7. T[n] = R
  BY <1>1
<1>8. initFileNumber(h) \in R
  BY <1>6, <1>7 DEF initFileNumber
<1> QED BY <1>8

\* sendBlock, all passes.
LEMMA BlocksLead ==
  ASSUME NEW f \in Files, NEW h \in Handlers(f), h.px.Operate = "up", h.px.upStatu = 3, InFile(h)
  PROVE  LET d == sendBlock(h) IN
         /\ d \in Handlers(f) /\ d.px.Operate = "up" /\ d.px.upStatu \in {3, 4} /\ Leads(f, h, d)
<1> DEFINE S == {d \in Handlers(f) : InFile(d) /\ d.px.Operate = "up" /\ d.px.upStatu \in {3, 4}}
           R == {d \in S : Leads(f, h, d)}
           q == h.buf
           n == Len(q)
           T == [k \in 0 .. n |-> R]
<1>1. q \in Seq(UnitsOf(f)) /\ n \in Nat /\ DOMAIN q = 1 .. n /\ \A k \in 1 .. n : q[k] \in UnitsOf(f)
  BY HandlerParts
<1>2. h \in R
  <2>1. NoBlocks(h, h)
    BY DEF NoBlocks
  <2> QED BY <2>1, LeadsSame
<1>3. \A k \in 1 .. n, d \in S : sendBlockStep(d, q[k]) \in S
  <2> SUFFICES ASSUME NEW k \in 1 .. n, NEW d \in S PROVE sendBlockStep(d, q[k]) \in S
    OBVIOUS
  <2> DEFINE u == q[k]
             e == sendBlockStep(d, u)
  <2>1. u \in UnitsOf(f) /\ e = sendBlockStep(d, u)
    BY <1>1
  <2> HIDE DEF u, e
  <2>2. e \in S
    BY <2>1, BlockLeads
  <2> QED BY <2>2 DEF e, u
<1>4. \A k \in 1 .. n, d \in S : d \in R => sendBlockStep(d, q[k]) \in R
  <2> SUFFICES ASSUME NEW k \in 1 .. n, NEW d \in R PROVE sendBlockStep(d, q[k]) \in R
    OBVIOUS
  <2> DEFINE u == q[k]
             e == sendBlockStep(d, u)
  <2>1. u \in UnitsOf(f) /\ e = sendBlockStep(d, u)
    BY <1>1
  <2> HIDE DEF u, e
  <2>2. e \in S /\ Leads(f, d, e)
    BY <2>1, BlockLeads
  <2>3. Leads(f, h, e)
    BY <2>2, LeadsTrans
  <2> QED BY <2>2, <2>3 DEF e, u
<1>5. /\ T \in [0 .. n -> SUBSET S] /\ h \in T[0]
      /\ \A k \in 1 .. n, d \in S : d \in T[k - 1] => sendBlockStep(d, q[k]) \in T[k]
  <2>1. T[0] = R /\ \A k \in 1 .. n : T[k - 1] = R /\ T[k] = R
    BY <1>1
  <2>2. T \in [0 .. n -> SUBSET S]
    OBVIOUS
  <2> HIDE DEF T, R
  <2> QED BY <1>2, <1>4, <2>1, <2>2
<1>6. FoldLeft(sendBlockStep, h, q) \in T[n]
  <2>1. h \in S
    OBVIOUS
  <2> HIDE DEF S, T, q, n
  <2> QED BY <1>1, <1>3, <1>5, <2>1, LoopOfBlocks
<1>7. T[n] = R
  BY <1>1
<1>8. sendBlock(h) \in R
  BY <1>6, <1>7 DEF sendBlock
<1> QED BY <1>8

\* Whatever the phase.
LEMMA MessageLeads ==
  ASSUME NEW f \in Files, NEW h \in Handlers(f), h.buf # <<>>, ~h.end, Phased(h.px, h.map),
         NEW d \in onMessage(h)
  PROVE  d \in Handlers(f) /\ Leads(f, h, d)
<1>0. h.px \in Globals /\ h.map \in Maps
  BY HandlerParts
<1>1. CASE h.px.Operate = "sw"
  <2>1. d = switchOperate(h)
    BY <1>1 DEF onMessage
  <2>2. /\ d \in Handlers(f) /\ d.map = h.map /\ d.back = h.back /\ d.in = h.in
        /\ d.forwarded = h.forwarded /\ d.px.upStatu = h.px.upStatu
    BY <2>1, SwitchStep
  <2>3. NoBlocks(h, d)
    BY <2>2 DEF NoBlocks
  <2>4. Phased(d.px, h.map)
    BY <1>1, <2>2 DEF Phased
  <2> QED BY <2>2, <2>3, <2>4, LeadsSame
<1>2. CASE h.px.Operate # "sw"
  <2>0. h.px.Operate = "up" /\ h.px.upStatu \in 1 .. 4
    BY <1>0, <1>2 DEF Globals
  <2>1. CASE h.px.upStatu = 1
    <3>1. d = initFileNumber(h)
      BY <1>2, <2>1 DEF onMessage
    <3> QED BY <2>0, <3>1, NumbersLead
  <2>2. CASE h.px.upStatu = 2
    <3>1. d \in initFileMD5(h)
      BY <1>2, <2>2 DEF onMessage
    <3> DEFINE g == h.px.g_FileName
               n == h.map[g].blockNum
    <3>2. g \in DOMAIN h.map /\ h.map[g].uploadId = {}
      BY <2>2 DEF Phased
    <3>3. \/ d = h
          \/ /\ d \in Handlers(f) /\ d.back = h.back /\ d.in = h.in /\ d.forwarded = h.forwarded
             /\ d.px = [h.px EXCEPT !.upStatu = 3]
             /\ \/ d.map = h.map
                \/ \E md5 \in [1 .. n -> Sums] : d.map = Announced(h.map, g, md5)
      <4> DEFINE k == g
                 l == n
      <4>1. k = h.px.g_FileName /\ k \in DOMAIN h.map /\ h.map[k].uploadId = {} /\ l = h.map[k].blockNum
        BY <3>2
      <4> HIDE DEF k, l
      <4>2. \/ d = h
            \/ /\ d \in Handlers(f) /\ d.back = h.back /\ d.in = h.in /\ d.forwarded = h.forwarded
               /\ d.px = [h.px EXCEPT !.upStatu = 3]
               /\ \/ d.map = h.map
                  \/ \E md5 \in [1 .. l -> Sums] : d.map = Announced(h.map, k, md5)
        BY <3>1, <4>1, MD5Step
      <4> QED BY <4>2 DEF k, l
    <3>4. NoBlocks(h, d)
      BY <3>3 DEF NoBlocks
    <3>5. CASE d = h
      BY <3>4, <3>5, LeadsSame
    <3>6. CASE d # h
      <4>1. d.px.upStatu = 3 /\ d.px.g_FileName = g /\ d.px.Operate = h.px.Operate
        BY <1>0, <3>3, <3>6 DEF Globals
      <4>2. CASE d.map = h.map
        <5>1. Phased(d.px, h.map)
          BY <2>0, <3>2, <4>1 DEF Phased
        <5> QED BY <3>3, <3>4, <3>6, <4>2, <5>1, LeadsSame
      <4>3. CASE d.map # h.map
        <5>1. PICK md5 \in [1 .. n -> Sums] : d.map = Announced(h.map, g, md5)
          BY <3>3, <3>6, <4>3
        <5>2. /\ Grown(h.map, d.map) /\ DOMAIN d.map = DOMAIN h.map
              /\ \A q : Accepted(h.map, q) => Accepted(d.map, q)
          <6> DEFINE m == h.map
                     a == d.map
                     k == g
          <6>1. /\ m \in Maps /\ k \in DOMAIN m /\ md5 \in [1 .. m[k].blockNum -> Sums]
                /\ m[k].uploadId = {} /\ a = Announced(m, k, md5)
            BY <1>0, <3>2, <5>1
          <6> HIDE DEF m, a, k
          <6>2. Grown(m, a) /\ DOMAIN a = DOMAIN m /\ \A q : Accepted(m, q) => Accepted(a, q)
            BY <6>1, SetGrows
          <6> QED BY <6>2 DEF m, a
        <5>3. Phased(d.px, d.map)
          BY <2>0, <3>2, <4>1, <5>2 DEF Phased
        <5>4. Honest(h.map, f, h.back) => Honest(d.map, f, d.back)
          BY <3>3, <3>6, <5>2, ToldGrows DEF Honest
        <5>5. Forwards(h.in, h.forwarded, d.in, d.forwarded)
          <6> SUFFICES ASSUME NEW s \in Servers, NEW p \in Pages
                       PROVE  /\ Count(h.in[s], Block(p)) - Count(h.in[s], Block(p))
                                   <= IF Server[p] = s THEN Count(h.forwarded, p) - Count(h.forwarded, p) ELSE 0
                              /\ Count(h.forwarded, p) <= Count(h.forwarded, p)
            BY <3>3, <3>6 DEF Forwards
          <6>1. Count(h.in[s], Block(p)) \in Nat /\ Count(h.forwarded, p) \in Nat
            BY CountsAreNatural
          <6> QED BY <6>1
        <5> QED BY <3>3, <3>6, <5>2, <5>3, <5>4, <5>5 DEF Leads
      <4> QED BY <4>2, <4>3
    <3> QED BY <3>5, <3>6
  <2>3. CASE h.px.upStatu = 3
    <3>1. d = sendBlock(h)
      BY <1>2, <2>3 DEF onMessage
    <3>2. InFile(h)
      BY <2>3 DEF Phased, InFile
    <3> QED BY <2>0, <2>3, <3>1, <3>2, BlocksLead
  <2>4. CASE h.px.upStatu = 4
    <3>1. d = h
      BY <1>2, <2>4 DEF onMessage
    <3>2. NoBlocks(h, h)
      BY DEF NoBlocks
    <3> QED BY <3>1, <3>2, LeadsSame
  <2> QED BY <2>0, <2>1, <2>2, <2>3, <2>4
<1> QED BY <1>1, <1>2

-----------------------------------------------------------------------------
(* The state: types, and what is between a client and the proxy.            *)
ClientRecs == [st : {"idle", "asks", "sent", "done", "killed"}, test : BOOLEAN, file : Files,
               uploadId : SUBSET Nat, open : BOOLEAN, part : BOOLEAN]
Units == UNION {UnitsOf(f) : f \in Files}

\* A client that has no connection has nothing in it, and skips nothing yet
\* before it is answered.
Fits(x, w, b, r) ==
  /\ w \in Seq(UnitsOf(x.file)) /\ b \in Seq(UnitsOf(x.file))
  /\ x.st = "idle" => ~x.open /\ x.uploadId = {}
  /\ x.st \in {"asks", "sent"} => x.open
  /\ x.st = "asks" => x.uploadId = {}
  /\ ~x.open => w = <<>> /\ b = <<>> /\ r = <<>>

Types ==
  /\ cl \in [Clients -> ClientRecs]
  /\ wire \in [Clients -> Seq(Units)] /\ buf \in [Clients -> Seq(Units)]
  /\ back \in [Clients -> Seq(Answers)]
  /\ px \in Globals /\ FileMap \in Maps /\ srv \in [Servers -> Stores]
  /\ forwarded \in Seq(Pages) /\ order \in Orders

AllFit == \A c \in Clients : Fits(cl[c], wire[c], buf[c], back[c])

\* What a client left out, and the ids it will be told, are accepted.
Skips == DOMAIN FileMap \cap Pages = {} =>
           \A c \in Clients : /\ Known(FileMap, cl[c].file, cl[c].uploadId)
                              /\ Told(FileMap, cl[c].file, back[c])

\* x of a server that is to store own many at most: what it saved, what it
\* holds and what it will read.
Keeps(x, p, own) == x.saved[p] + Count(x.buf, Block(p)) + Count(x.in, Block(p)) <= own

Stored == \A s \in Servers, p \in Pages :
            Keeps(srv[s], p, IF Server[p] = s THEN Count(forwarded, p) ELSE 0)

\* The inductive invariant of what holds however the clients overlap.
UploadInOrder == /\ Types /\ AllFit /\ Phased(px, FileMap) /\ Accepted(FileMap, forwarded)
                 /\ Skips /\ Stored

\* What is sent of a file is among all that is sent.
LEMMA UnitsOfFile ==
  ASSUME NEW f \in Files, NEW q \in Seq(UnitsOf(f))
  PROVE  q \in Seq(Units)
<1>1. UnitsOf(f) \subseteq Units
  BY DEF Units
<1> QED BY <1>1

\* The parts of a server and their counts.
LEMMA ServerCounts ==
  ASSUME NEW x \in Stores, NEW p \in Pages
  PROVE  /\ x.in \in Seq(ServerUnits) /\ x.buf \in Seq(ServerUnits) /\ x.phase \in {"sw", "names", "blocks", "lost"}
         /\ x.saved \in [Pages -> Nat] /\ x.saved[p] \in Nat
         /\ Count(x.in, Block(p)) \in Nat /\ Count(x.buf, Block(p)) \in Nat
<1>1. x.in \in Seq(ServerUnits) /\ x.buf \in Seq(ServerUnits) /\ x.saved \in [Pages -> Nat]
      /\ x.phase \in {"sw", "names", "blocks", "lost"}
  BY DEF Stores, Phases
<1> QED BY <1>1, CountType

\* The fields of a callback's record have their types.
LEMMA FieldsType ==
  ASSUME NEW f, NEW p \in Globals, NEW m \in Maps, NEW b \in Seq(UnitsOf(f)), NEW r \in Seq(Answers),
         NEW i \in [Servers -> Seq(ServerUnits)], NEW q \in Seq(Pages), NEW e \in BOOLEAN, NEW w \in BOOLEAN,
         NEW h, h = Fields(p, m, b, r, i, q, e, w)
  PROVE  h \in Handlers(f)
BY DEF Handlers, Fields

(* The record of a callback.                                                *)
Holding(c, b) == [Callback(c) EXCEPT !.buf = b]

\* A callback begins with the globals and what its connection holds.
LEMMA CallbackType ==
  ASSUME Types, NEW c \in Clients, NEW b \in Seq(UnitsOf(cl[c].file)), NEW h, h = Holding(c, b)
  PROVE  /\ h \in Handlers(cl[c].file) /\ h.px = px /\ h.map = FileMap /\ h.buf = b /\ h.back = back[c]
         /\ h.in = [s \in Servers |-> srv[s].in] /\ h.forwarded = forwarded /\ ~h.end /\ ~h.wild
<1> DEFINE no == FALSE
           i == [s \in Servers |-> srv[s].in]
           a == buf[c]
           r == back[c]
           f == cl[c].file
           y == Callback(c)
<1>1. i \in [Servers -> Seq(ServerUnits)] /\ r \in Seq(Answers) /\ no \in BOOLEAN
  BY DEF Types, Stores
<1>2. px \in Globals /\ FileMap \in Maps /\ forwarded \in Seq(Pages)
  BY DEF Types
<1>3. y = Fields(px, FileMap, a, r, i, forwarded, no, no)
  BY DEF Callback, Fields
<1>4. i = [s \in Servers |-> srv[s].in] /\ r = back[c] /\ ~no
  OBVIOUS
<1>5. h = [y EXCEPT !.buf = b] /\ b \in Seq(UnitsOf(f))
  BY DEF Holding
<1> HIDE DEF no, i, a, r, f, y
<1>6. h = Fields(px, FileMap, b, r, i, forwarded, no, no)
  BY <1>3, <1>5 DEF Fields
<1>7. h \in Handlers(f)
  BY <1>1, <1>2, <1>5, <1>6, FieldsType
<1>8. /\ h.px = px /\ h.map = FileMap /\ h.buf = b /\ h.back = r /\ h.in = i /\ h.forwarded = forwarded
      /\ h.end = no /\ h.wild = no
  BY <1>6 DEF Fields
<1> QED BY <1>1, <1>4, <1>7, <1>8 DEF f

\* g is what h leaves of the globals, but for the end of the process.
SameGlobals(g, h) ==
  g.Operate = h.px.Operate /\ g.upStatu = h.px.upStatu /\ g.g_FileName = h.px.g_FileName

(* What the callback did is in the state.                                   *)
LEMMA Committed ==
  ASSUME Types, NEW c \in Clients, NEW f, f = cl[c].file, f \in Files, NEW h \in Handlers(f), Commit(c, h)
  PROVE  /\ px' \in Globals /\ SameGlobals(px', h)
         /\ FileMap' = h.map /\ FileMap' \in Maps
         /\ buf' = [buf EXCEPT ![c] = h.buf] /\ buf' \in [Clients -> Seq(Units)]
         /\ back' = [back EXCEPT ![c] = h.back] /\ back' \in [Clients -> Seq(Answers)]
         /\ forwarded' = h.forwarded /\ forwarded' \in Seq(Pages)
         /\ srv' \in [Servers -> Stores]
         /\ \A s \in Servers :
              /\ srv[s].phase = "lost" => srv'[s] = srv[s]
              /\ srv[s].phase # "lost" => /\ srv'[s].in = h.in[s] /\ srv'[s].buf = srv[s].buf
                                          /\ srv'[s].phase = srv[s].phase /\ srv'[s].saved = srv[s].saved
<1>1. /\ h.px \in Globals /\ h.map \in Maps /\ h.buf \in Seq(UnitsOf(f)) /\ h.back \in Seq(Answers)
      /\ h.in \in [Servers -> Seq(ServerUnits)] /\ h.forwarded \in Seq(Pages)
  BY HandlerParts
<1>2. px' \in Globals /\ SameGlobals(px', h)
  <2>1. PICK ends \in BOOLEAN : px' = [h.px EXCEPT !.alive = @ /\ ~ends]
    BY DEF Commit
  <2> DEFINE y == h.px.alive /\ ~ends
             g == h.px
  <2>2. y \in BOOLEAN /\ px' = [g EXCEPT !.alive = y]
    BY <2>1
  <2> HIDE DEF y, g
  <2>3. g \in Globals /\ g = h.px
    BY <1>1 DEF g
  <2>4. px' \in Globals /\ px'.Operate = g.Operate /\ px'.upStatu = g.upStatu /\ px'.g_FileName = g.g_FileName
    BY <2>2, <2>3 DEF Globals
  <2> QED BY <2>3, <2>4 DEF SameGlobals
<1>3. /\ FileMap' = h.map /\ buf' = [buf EXCEPT ![c] = h.buf] /\ back' = [back EXCEPT ![c] = h.back]
      /\ forwarded' = h.forwarded
      /\ srv' = [s \in Servers |-> IF srv[s].phase = "lost" THEN srv[s] ELSE [srv[s] EXCEPT !.in = h.in[s]]]
  BY DEF Commit
<1>4. buf' \in [Clients -> Seq(Units)] /\ back' \in [Clients -> Seq(Answers)]
  <2>1. h.buf \in Seq(Units)
    BY <1>1, UnitsOfFile
  <2> QED BY <1>1, <1>3, <2>1 DEF Types
<1>5. ASSUME NEW s \in Servers
      PROVE  /\ srv'[s] \in Stores
             /\ srv[s].phase = "lost" => srv'[s] = srv[s]
             /\ srv[s].phase # "lost" => /\ srv'[s].in = h.in[s] /\ srv'[s].buf = srv[s].buf
                                         /\ srv'[s].phase = srv[s].phase /\ srv'[s].saved = srv[s].saved
  <2> DEFINE x == srv[s]
             y == srv'[s]
             i == h.in[s]
  <2>1. x \in Stores /\ i \in Seq(ServerUnits)
    BY <1>1 DEF Types
  <2>2. y = IF x.phase = "lost" THEN x ELSE [x EXCEPT !.in = i]
    BY <1>3
  <2> HIDE DEF x, y, i
  <2>3. /\ y \in Stores
        /\ x.phase = "lost" => y = x
        /\ x.phase # "lost" => /\ y.in = i /\ y.buf = x.buf
                              /\ y.phase = x.phase /\ y.saved = x.saved
    BY <2>1, <2>2 DEF Stores
  <2> QED BY <2>3 DEF x, y, i
<1>6. srv' \in [Servers -> Stores]
  BY <1>3, <1>5
<1> QED BY <1>1, <1>2, <1>3, <1>4, <1>5, <1>6

(* What a callback does keeps the phases, the records, what clients were    *)
(* told and what servers store in order.                                    *)
LEMMA CommitKeeps ==
  ASSUME UploadInOrder, NEW c \in Clients, NEW f \in Files, f = cl[c].file,
         NEW o \in Handlers(f), o.px = px, o.map = FileMap, o.back = back[c], o.forwarded = forwarded,
         o.in = [s \in Servers |-> srv[s].in],
         NEW h \in Handlers(f), Leads(f, o, h), Commit(c, h),
         \A d \in Clients : cl'[d].file = cl[d].file /\ cl'[d].uploadId = cl[d].uploadId
  PROVE  Phased(px', FileMap') /\ Accepted(FileMap', forwarded') /\ Skips' /\ Stored'
<1>1. Types /\ Phased(px, FileMap) /\ Accepted(FileMap, forwarded) /\ Skips /\ Stored
  BY DEF UploadInOrder
<1>2. /\ px' \in Globals /\ SameGlobals(px', h) /\ FileMap' = h.map /\ forwarded' = h.forwarded
      /\ back' = [back EXCEPT ![c] = h.back]
      /\ \A s \in Servers :
           /\ srv[s].phase = "lost" => srv'[s] = srv[s]
           /\ srv[s].phase # "lost" => /\ srv'[s].in = h.in[s] /\ srv'[s].buf = srv[s].buf
                                       /\ srv'[s].phase = srv[s].phase /\ srv'[s].saved = srv[s].saved
  BY <1>1, Committed
<1>3. Phased(px', FileMap')
  <2>1. Phased(h.px, h.map)
    BY <1>1 DEF Leads
  <2> QED BY <1>2, <2>1 DEF Phased, SameGlobals
<1>4. Accepted(FileMap', forwarded')
  BY <1>1, <1>2 DEF Leads
<1>5. Skips'
  <2> SUFFICES ASSUME DOMAIN FileMap' \cap Pages = {}, NEW d \in Clients
               PROVE  /\ Known(FileMap', cl'[d].file, cl'[d].uploadId)
                      /\ Told(FileMap', cl'[d].file, back'[d])
    BY DEF Skips
  <2>1. Grown(FileMap, FileMap')
    BY <1>2 DEF Leads
  <2>2. DOMAIN FileMap \cap Pages = {}
    BY <2>1 DEF Grown
  <2>3. Known(FileMap, cl[d].file, cl[d].uploadId) /\ Told(FileMap, cl[d].file, back[d])
    BY <1>1, <2>2 DEF Skips
  <2>4. Known(FileMap', cl'[d].file, cl'[d].uploadId)
    BY <2>1, <2>3 DEF Known, Grown
  <2>5. CASE d = c
    <3>1. Honest(o.map, f, o.back)
      BY <2>3, <2>5 DEF Honest
    <3>2. Told(h.map, f, h.back)
      BY <1>2, <3>1 DEF Leads, Honest
    <3>3. back'[c] = h.back
      BY <1>1, <1>2 DEF Types
    <3> QED BY <1>2, <2>4, <2>5, <3>2, <3>3
  <2>6. CASE d # c
    <3>1. back'[d] = back[d]
      BY <1>1, <1>2, <2>6 DEF Types
    <3>2. Told(FileMap', cl[d].file, back[d])
      BY <2>1, <2>3, ToldGrows
    <3> QED BY <2>4, <3>1, <3>2
  <2> QED BY <2>5, <2>6
<1>6. Stored'
  <2> SUFFICES ASSUME NEW s \in Servers, NEW p \in Pages
               PROVE  Keeps(srv'[s], p, IF Server[p] = s THEN Count(forwarded', p) ELSE 0)
    BY DEF Stored
  <2> DEFINE x == srv[s]
             y == srv'[s]
             i == Count(srv[s].in, Block(p))
             j == Count(h.in[s], Block(p))
             a == Count(forwarded, p)
             b == Count(forwarded', p)
             v == srv[s].saved[p]
             w == Count(srv[s].buf, Block(p))
  <2>1. x \in Stores /\ v \in Nat /\ w \in Nat /\ i \in Nat
    <3>1. x \in Stores
      BY <1>1 DEF Types
    <3> QED BY <3>1, ServerCounts
  <2>2. j \in Nat /\ b \in Nat
    BY <1>2, CountsAreNatural
  <2>3. a \in Nat
    <3>1. forwarded \in Seq(Pages)
      BY <1>1 DEF Types
    <3> QED BY <3>1, CountType
  <2>4. (j - i <= IF Server[p] = s THEN b - a ELSE 0) /\ a <= b
    <3>1. Forwards(o.in, o.forwarded, h.in, h.forwarded)
      BY DEF Leads
    <3>2. o.in[s] = srv[s].in /\ o.forwarded = forwarded /\ h.forwarded = forwarded'
      BY <1>2
    <3> QED BY <3>1, <3>2 DEF Forwards
  <2>5. v + w + i <= IF Server[p] = s THEN a ELSE 0
    BY <1>1 DEF Stored, Keeps
  <2>6. CASE x.phase = "lost"
    <3>1. y = x
      BY <1>2, <2>6
    <3>2. Keeps(y, p, IF Server[p] = s THEN b ELSE 0) <=> v + w + i <= IF Server[p] = s THEN b ELSE 0
      BY <3>1 DEF Keeps
    <3> HIDE DEF i, j, a, b, v, w, x, y
    <3>3. v + w + i <= IF Server[p] = s THEN b ELSE 0
      BY <2>1, <2>2, <2>3, <2>4, <2>5
    <3> QED BY <3>2, <3>3 DEF y, b
  <2>7. CASE x.phase # "lost"
    <3>1. y.in = h.in[s] /\ y.buf = x.buf /\ y.saved = x.saved
      BY <1>2, <2>7
    <3>2. Keeps(y, p, IF Server[p] = s THEN b ELSE 0) <=> v + w + j <= IF Server[p] = s THEN b ELSE 0
      BY <3>1 DEF Keeps
    <3> HIDE DEF i, j, a, b, v, w, x, y
    <3>3. v + w + j <= IF Server[p] = s THEN b ELSE 0
      BY <2>1, <2>2, <2>3, <2>4, <2>5
    <3> QED BY <3>2, <3>3 DEF y, b
  <2> QED BY <2>6, <2>7
<1> QED BY <1>3, <1>4, <1>5, <1>6

(* A client of whose file, ids and connection nothing changes fits as it did. *)
LEMMA OthersFit ==
  ASSUME Types, AllFit, NEW c \in Clients,
         Fits(cl'[c], wire'[c], buf'[c], back'[c]),
         \A d \in Clients \ {c} : /\ cl'[d] = cl[d] /\ wire'[d] = wire[d]
                                  /\ buf'[d] = buf[d] /\ back'[d] = back[d]
  PROVE  AllFit'
<1> SUFFICES ASSUME NEW d \in Clients PROVE Fits(cl'[d], wire'[d], buf'[d], back'[d])
  BY DEF AllFit
<1>1. CASE d = c
  BY <1>1
<1>2. CASE d # c
  <2>1. Fits(cl[d], wire[d], buf[d], back[d])
    BY DEF AllFit
  <2> QED BY <1>2, <2>1
<1> QED BY <1>1, <1>2

(* The orders only get worse.                                               *)
LEMMA ReadsType ==
  ASSUME order \in Orders, NEW k
  PROVE  Reads(k) \in Orders
BY DEF Reads, Orders

-----------------------------------------------------------------------------
(* The steps of the proxy.                                                  *)
LEMMA ClientParts ==
  ASSUME Types, AllFit, NEW c \in Clients, NEW f, f = cl[c].file
  PROVE  /\ cl[c] \in ClientRecs /\ f \in Files
         /\ wire[c] \in Seq(UnitsOf(f)) /\ buf[c] \in Seq(UnitsOf(f)) /\ back[c] \in Seq(Answers)
         /\ Fits(cl[c], wire[c], buf[c], back[c])
<1>1. cl[c] \in ClientRecs /\ back[c] \in Seq(Answers)
  BY DEF Types
<1>2. f \in Files
  BY <1>1 DEF ClientRecs
<1>3. Fits(cl[c], wire[c], buf[c], back[c])
  BY DEF AllFit
<1> QED BY <1>1, <1>2, <1>3 DEF Fits

\* A callback on any number of units.
LEMMA ReadKeeps ==
  ASSUME UploadInOrder, NEW c \in Clients, Read(c)
  PROVE  UploadInOrder'
<1> DEFINE f == cl[c].file
<1>1. Types /\ AllFit /\ Phased(px, FileMap)
  BY DEF UploadInOrder
<1>2. /\ cl[c] \in ClientRecs /\ f \in Files
      /\ wire[c] \in Seq(UnitsOf(f)) /\ buf[c] \in Seq(UnitsOf(f)) /\ back[c] \in Seq(Answers)
      /\ Fits(cl[c], wire[c], buf[c], back[c])
  BY <1>1, ClientParts
<1>3. cl[c].open /\ UNCHANGED cl
  BY DEF Read
<1>4. PICK k \in 1 .. Len(wire[c]) :
        /\ wire' = [wire EXCEPT ![c] = SubSeq(@, k + 1, Len(@))]
        /\ \E h \in onMessage([Callback(c) EXCEPT !.buf = @ \o SubSeq(wire[c], 1, k)]) : Commit(c, h)
        /\ order' = Reads(k)
  BY Zenon DEF Read
<1>5. PICK o : o = [Callback(c) EXCEPT !.buf = @ \o SubSeq(wire[c], 1, k)]
  OBVIOUS
<1>6. PICK h \in onMessage(o) : Commit(c, h)
  BY <1>4, <1>5
<1> DEFINE b == buf[c] \o SubSeq(wire[c], 1, k)
           r == SubSeq(wire[c], k + 1, Len(wire[c]))
<1>7. b \in Seq(UnitsOf(f)) /\ b # <<>> /\ r \in Seq(UnitsOf(f))
  <2> DEFINE S == UnitsOf(f)
             w == wire[c]
             z == buf[c]
             y == SubSeq(w, 1, k)
  <2>1. w \in Seq(S) /\ z \in Seq(S) /\ k \in 1 .. Len(w)
    BY <1>2
  <2> HIDE DEF S, w, z
  <2>2. y \in Seq(S) /\ Len(y) = k /\ SubSeq(w, k + 1, Len(w)) \in Seq(S)
    BY <2>1
  <2> HIDE DEF y
  <2>3. z \o y \in Seq(S) /\ Len(z \o y) = Len(z) + k /\ Len(z) \in Nat
    BY <2>1, <2>2
  <2>4. z \o y # <<>>
    BY <2>1, <2>3
  <2> QED BY <2>2, <2>3, <2>4 DEF S, w, z, y
<1>8. o = Holding(c, b)
  <2>1. Callback(c).buf = buf[c]
    BY DEF Callback
  <2> QED BY <1>5, <2>1 DEF Holding
<1> HIDE DEF b
<1>9. /\ o \in Handlers(f) /\ o.px = px /\ o.map = FileMap /\ o.buf = b /\ o.back = back[c]
      /\ o.in = [s \in Servers |-> srv[s].in] /\ o.forwarded = forwarded /\ ~o.end
  BY <1>1, <1>7, <1>8, CallbackType
<1>10. h \in Handlers(f) /\ Leads(f, o, h)
  BY <1>1, <1>2, <1>6, <1>7, <1>9, MessageLeads
<1>11. Phased(px', FileMap') /\ Accepted(FileMap', forwarded') /\ Skips' /\ Stored'
  BY <1>2, <1>3, <1>6, <1>9, <1>10, CommitKeeps
<1>12. /\ px' \in Globals /\ FileMap' \in Maps /\ buf' = [buf EXCEPT ![c] = h.buf] /\ buf' \in [Clients -> Seq(Units)]
       /\ back' = [back EXCEPT ![c] = h.back] /\ back' \in [Clients -> Seq(Answers)]
       /\ forwarded' \in Seq(Pages) /\ srv' \in [Servers -> Stores]
  BY <1>1, <1>2, <1>6, <1>10, Committed
<1>13. wire' = [wire EXCEPT ![c] = r]
  BY <1>4
<1> HIDE DEF r
<1>14. wire' \in [Clients -> Seq(Units)]
  <2>1. r \in Seq(Units)
    BY <1>2, <1>7, UnitsOfFile
  <2> QED BY <1>1, <1>13, <2>1 DEF Types
<1>15. order' \in Orders
  BY <1>1, <1>4, ReadsType DEF Types
<1>16. Types'
  BY <1>1, <1>3, <1>12, <1>14, <1>15 DEF Types
<1>17. AllFit'
  <2>1. h.buf \in Seq(UnitsOf(f))
    BY <1>10, HandlerParts
  <2>2. wire'[c] = r /\ buf'[c] = h.buf /\ cl'[c] = cl[c]
    BY <1>1, <1>3, <1>12, <1>13 DEF Types
  <2>3. Fits(cl'[c], wire'[c], buf'[c], back'[c])
    BY <1>2, <1>3, <1>7, <2>1, <2>2 DEF Fits
  <2>4. \A d \in Clients \ {c} : /\ cl'[d] = cl[d] /\ wire'[d] = wire[d]
                                 /\ buf'[d] = buf[d] /\ back'[d] = back[d]
    BY <1>1, <1>3, <1>12, <1>13 DEF Types
  <2> QED BY <1>1, <2>3, <2>4, OthersFit
<1> QED BY <1>11, <1>16, <1>17 DEF UploadInOrder

(* The servers are told to read an operation.                               *)
LEMMA TellType ==
  ASSUME NEW i \in [Servers -> Seq(ServerUnits)], NEW u \in {Up, Name}
  PROVE  /\ tell(i, u) \in [Servers -> Seq(ServerUnits)]
         /\ \A s \in Servers, p \in Pages : Count(tell(i, u)[s], Block(p)) = Count(i[s], Block(p))
<1>1. u \in ServerUnits /\ \A p \in Pages : u # Block(p)
  BY DEF ServerUnits, Up, Name, Block
<1>2. \A s \in Servers : tell(i, u)[s] = Append(i[s], u)
  BY DEF tell
<1>3. tell(i, u) \in [Servers -> Seq(ServerUnits)]
  BY <1>1 DEF tell
<1>4. ASSUME NEW s \in Servers, NEW p \in Pages
      PROVE  Count(tell(i, u)[s], Block(p)) = Count(i[s], Block(p))
  <2>1. i[s] \in Seq(ServerUnits)
    OBVIOUS
  <2> DEFINE a == Append(i[s], u)
             n == Count(i[s], Block(p))
  <2>2. Count(a, Block(p)) = n + IF u = Block(p) THEN 1 ELSE 0
    BY <1>1, <2>1, CountAppend
  <2>3. n \in Nat /\ u # Block(p) /\ tell(i, u)[s] = a
    BY <1>1, <1>2, <2>1, CountType
  <2> HIDE DEF a, n
  <2>4. Count(a, Block(p)) = n
    BY <2>2, <2>3
  <2> QED BY <2>3, <2>4 DEF n
<1> QED BY <1>3, <1>4

\* A callback on a part of a header tells the servers only.
LEMMA ReadPartKeeps ==
  ASSUME UploadInOrder, NEW c \in Clients, ReadPart(c)
  PROVE  UploadInOrder'
<1> DEFINE f == cl[c].file
<1>1. Types /\ AllFit /\ Phased(px, FileMap)
  BY DEF UploadInOrder
<1>2. /\ cl[c] \in ClientRecs /\ f \in Files
      /\ wire[c] \in Seq(UnitsOf(f)) /\ buf[c] \in Seq(UnitsOf(f)) /\ back[c] \in Seq(Answers)
      /\ Fits(cl[c], wire[c], buf[c], back[c])
  BY <1>1, ClientParts
<1>3. /\ Commit(c, [Callback(c) EXCEPT !.in = tell(@, Up)])
      /\ cl' = [cl EXCEPT ![c].part = TRUE] /\ order' = Reads(2) /\ UNCHANGED wire
  BY DEF ReadPart
<1> DEFINE b == buf[c]
<1>4. PICK o : o = Callback(c)
  OBVIOUS
<1>5. o = Holding(c, b)
  BY <1>4 DEF Callback, Holding
<1> HIDE DEF b
<1>6. /\ o \in Handlers(f) /\ o.px = px /\ o.map = FileMap /\ o.buf = b /\ o.back = back[c]
      /\ o.in = [s \in Servers |-> srv[s].in] /\ o.forwarded = forwarded
  BY <1>1, <1>2, <1>5, CallbackType DEF b
<1> DEFINE i == tell(o.in, Up)
<1>7. PICK h : h = [o EXCEPT !.in = i]
  OBVIOUS
<1>8. i \in [Servers -> Seq(ServerUnits)] /\ \A s \in Servers, p \in Pages : Count(i[s], Block(p)) = Count(o.in[s], Block(p))
  BY <1>6, HandlerParts, TellType
<1>9. Commit(c, h)
  BY <1>3, <1>4, <1>7
<1> HIDE DEF i
<1>10. /\ h \in Handlers(f) /\ h.px = o.px /\ h.map = o.map /\ h.back = o.back /\ h.forwarded = o.forwarded
       /\ h.in = i /\ h.buf = o.buf
  BY <1>6, <1>7, <1>8 DEF Handlers
<1>11. Leads(f, o, h)
  <2>1. NoBlocks(o, h)
    BY <1>8, <1>10 DEF NoBlocks
  <2> QED BY <1>6, <1>10, <2>1, LeadsSame
<1>12. cl' \in [Clients -> ClientRecs] /\ \A d \in Clients :
         /\ cl'[d].file = cl[d].file /\ cl'[d].uploadId = cl[d].uploadId /\ cl'[d].st = cl[d].st /\ cl'[d].open = cl[d].open
         /\ d # c => cl'[d] = cl[d]
  <2> SUFFICES ASSUME NEW d \in Clients
               PROVE  /\ cl'[d] \in ClientRecs
                      /\ cl'[d].file = cl[d].file /\ cl'[d].uploadId = cl[d].uploadId /\ cl'[d].st = cl[d].st /\ cl'[d].open = cl[d].open
                      /\ d # c => cl'[d] = cl[d]
    BY <1>1, <1>3 DEF Types
  <2> DEFINE x == cl[d]
             y == cl'[d]
             t == TRUE
  <2>1. x \in ClientRecs
    BY <1>1 DEF Types
  <2>2. t \in BOOLEAN /\ y = IF d = c THEN [x EXCEPT !.part = t] ELSE x
    BY <1>1, <1>3 DEF Types
  <2> HIDE DEF x, y, t
  <2>3. /\ y \in ClientRecs
        /\ y.file = x.file /\ y.uploadId = x.uploadId /\ y.st = x.st /\ y.open = x.open
        /\ d # c => y = x
    BY <2>1, <2>2 DEF ClientRecs
  <2> QED BY <2>3 DEF x, y
<1>13. Phased(px', FileMap') /\ Accepted(FileMap', forwarded') /\ Skips' /\ Stored'
  BY <1>2, <1>6, <1>9, <1>10, <1>11, <1>12, CommitKeeps
<1>14. /\ px' \in Globals /\ FileMap' \in Maps /\ buf' = [buf EXCEPT ![c] = h.buf] /\ buf' \in [Clients -> Seq(Units)]
       /\ back' = [back EXCEPT ![c] = h.back] /\ back' \in [Clients -> Seq(Answers)]
       /\ forwarded' \in Seq(Pages) /\ srv' \in [Servers -> Stores]
  BY <1>1, <1>2, <1>9, <1>10, Committed
<1>15. order' \in Orders
  BY <1>1, <1>3, ReadsType DEF Types
<1>16. Types'
  BY <1>1, <1>3, <1>12, <1>14, <1>15 DEF Types
<1>17. AllFit'
  <2>1. buf'[c] = buf[c] /\ back'[c] = back[c] /\ wire'[c] = wire[c]
    BY <1>1, <1>3, <1>6, <1>10, <1>14 DEF Types, b
  <2>2. Fits(cl'[c], wire'[c], buf'[c], back'[c])
    BY <1>2, <1>12, <2>1 DEF Fits
  <2>3. \A d \in Clients \ {c} : /\ cl'[d] = cl[d] /\ wire'[d] = wire[d]
                                 /\ buf'[d] = buf[d] /\ back'[d] = back[d]
    BY <1>1, <1>3, <1>12, <1>14 DEF Types
  <2> QED BY <1>1, <2>2, <2>3, OthersFit
<1> QED BY <1>13, <1>16, <1>17 DEF UploadInOrder

-----------------------------------------------------------------------------
(* The steps of the clients, and the end of a connection.                   *)
LEMMA ClientKeeps ==
  ASSUME UploadInOrder, NEW c \in Clients,
         cl' \in [Clients -> ClientRecs], wire' \in [Clients -> Seq(Units)],
         buf' \in [Clients -> Seq(Units)], back' \in [Clients -> Seq(Answers)],
         px' \in Globals, Phased(px', FileMap), order' \in Orders, UNCHANGED <<FileMap, srv, forwarded>>,
         Fits(cl'[c], wire'[c], buf'[c], back'[c]),
         DOMAIN FileMap \cap Pages = {} => /\ Known(FileMap, cl'[c].file, cl'[c].uploadId)
                                           /\ Told(FileMap, cl'[c].file, back'[c]),
         \A d \in Clients \ {c} : /\ cl'[d] = cl[d] /\ wire'[d] = wire[d]
                                  /\ buf'[d] = buf[d] /\ back'[d] = back[d]
  PROVE  UploadInOrder'
<1>1. Types /\ AllFit /\ Accepted(FileMap, forwarded) /\ Skips /\ Stored
  BY DEF UploadInOrder
<1>2. Types'
  BY <1>1 DEF Types
<1>3. AllFit'
  BY <1>1, OthersFit
<1>4. Phased(px', FileMap') /\ Accepted(FileMap', forwarded')
  BY <1>1
<1>5. Stored'
  BY <1>1 DEF Stored
<1>6. Skips'
  <2> SUFFICES ASSUME DOMAIN FileMap \cap Pages = {}, NEW d \in Clients
               PROVE  /\ Known(FileMap, cl'[d].file, cl'[d].uploadId)
                      /\ Told(FileMap, cl'[d].file, back'[d])
    BY DEF Skips
  <2>1. CASE d = c
    BY <2>1
  <2>2. CASE d # c
    BY <1>1, <2>2 DEF Skips
  <2> QED BY <2>1, <2>2
<1> QED BY <1>2, <1>3, <1>4, <1>5, <1>6 DEF UploadInOrder

(* A sequence of one client is replaced.                                    *)
LEMMA OneReplaced ==
  ASSUME NEW S, NEW m \in [Clients -> S], NEW c \in Clients, NEW q \in S
  PROVE  /\ [m EXCEPT ![c] = q] \in [Clients -> S] /\ [m EXCEPT ![c] = q][c] = q
         /\ \A d \in Clients \ {c} : [m EXCEPT ![c] = q][d] = m[d]
OBVIOUS

\* What a closed connection held is gone.
LEMMA DownKeeps ==
  ASSUME UploadInOrder, NEW c \in Clients, Down(c)
  PROVE  UploadInOrder'
<1>1. Types /\ AllFit /\ Phased(px, FileMap) /\ Skips
  BY DEF UploadInOrder
<1>2. /\ cl[c] \in ClientRecs /\ cl[c].file \in Files
      /\ wire[c] \in Seq(UnitsOf(cl[c].file)) /\ buf[c] \in Seq(UnitsOf(cl[c].file)) /\ back[c] \in Seq(Answers)
      /\ Fits(cl[c], wire[c], buf[c], back[c])
  BY <1>1, ClientParts
<1>3. /\ cl[c].st \in {"done", "killed"} /\ wire[c] = <<>>
      /\ cl' = [cl EXCEPT ![c].open = FALSE, ![c].part = FALSE]
      /\ buf' = [buf EXCEPT ![c] = <<>>] /\ back' = [back EXCEPT ![c] = <<>>]
      /\ UNCHANGED <<wire, px, FileMap, srv, forwarded, order>>
  BY DEF Down
<1> DEFINE x == cl[c]
           no == FALSE
           y == [[x EXCEPT !.open = no] EXCEPT !.part = no]
<1>4. cl' = [cl EXCEPT ![c] = y]
  BY <1>1, <1>3 DEF Types
<1>5. x \in ClientRecs /\ no \in BOOLEAN
  BY <1>2
<1>6. ~no
  OBVIOUS
<1> HIDE DEF x, no
<1>7. y \in ClientRecs /\ y.file = x.file /\ y.st = x.st /\ y.uploadId = x.uploadId /\ y.open = no
  BY <1>5 DEF ClientRecs
<1> HIDE DEF y
<1>8. /\ cl' \in [Clients -> ClientRecs] /\ cl'[c] = y
      /\ \A d \in Clients \ {c} : cl'[d] = cl[d]
  BY <1>1, <1>4, <1>7 DEF Types
<1>9. <<>> \in Seq(Units) /\ <<>> \in Seq(Answers) /\ <<>> \in Seq(UnitsOf(y.file))
  OBVIOUS
<1>10. /\ buf' \in [Clients -> Seq(Units)] /\ buf'[c] = <<>> /\ \A d \in Clients \ {c} : buf'[d] = buf[d]
       /\ back' \in [Clients -> Seq(Answers)] /\ back'[c] = <<>> /\ \A d \in Clients \ {c} : back'[d] = back[d]
  BY <1>1, <1>3, <1>9 DEF Types
<1>11. Fits(cl'[c], wire'[c], buf'[c], back'[c])
  BY <1>2, <1>3, <1>6, <1>7, <1>8, <1>9, <1>10 DEF Fits, x
<1>12. DOMAIN FileMap \cap Pages = {} => /\ Known(FileMap, cl'[c].file, cl'[c].uploadId)
                                         /\ Told(FileMap, cl'[c].file, back'[c])
  <2> SUFFICES ASSUME DOMAIN FileMap \cap Pages = {}
               PROVE  /\ Known(FileMap, cl'[c].file, cl'[c].uploadId)
                      /\ Told(FileMap, cl'[c].file, back'[c])
    OBVIOUS
  <2>1. Known(FileMap, x.file, x.uploadId)
    BY <1>1 DEF Skips, x
  <2>2. Told(FileMap, cl'[c].file, <<>>)
    BY DEF Told
  <2> QED BY <1>7, <1>8, <1>10, <2>1, <2>2
<1>13. px' \in Globals /\ Phased(px', FileMap) /\ order' \in Orders /\ wire' \in [Clients -> Seq(Units)]
  BY <1>1, <1>3 DEF Types
<1> QED BY <1>3, <1>8, <1>10, <1>11, <1>12, <1>13, ClientKeeps

\* A killed client is as it was, but for what it had yet to send.
LEMMA KillKeeps ==
  ASSUME UploadInOrder, NEW c \in Clients, Kill(c)
  PROVE  UploadInOrder'
<1>1. Types /\ AllFit /\ Phased(px, FileMap) /\ Skips
  BY DEF UploadInOrder
<1>2. /\ cl[c] \in ClientRecs /\ cl[c].file \in Files
      /\ wire[c] \in Seq(UnitsOf(cl[c].file)) /\ buf[c] \in Seq(UnitsOf(cl[c].file)) /\ back[c] \in Seq(Answers)
      /\ Fits(cl[c], wire[c], buf[c], back[c])
  BY <1>1, ClientParts
<1>3. /\ cl[c].st \in {"asks", "sent"} /\ cl' = [cl EXCEPT ![c].st = "killed"]
      /\ UNCHANGED <<back, px, buf, FileMap, srv, forwarded, order>>
  BY DEF Kill
<1>4. PICK k \in 0 .. Len(wire[c]) : wire' = [wire EXCEPT ![c] = SubSeq(@, 1, k)]
  BY DEF Kill
<1> DEFINE x == cl[c]
           y == [x EXCEPT !.st = "killed"]
           w == SubSeq(wire[c], 1, k)
<1>5. cl' = [cl EXCEPT ![c] = y] /\ wire' = [wire EXCEPT ![c] = w]
  BY <1>1, <1>3, <1>4 DEF Types
<1>6. x \in ClientRecs
  BY <1>2
<1> HIDE DEF x
<1>7. y \in ClientRecs /\ y.file = x.file /\ y.st = "killed" /\ y.uploadId = x.uploadId /\ y.open = x.open
  BY <1>6 DEF ClientRecs
<1>8. w \in Seq(UnitsOf(x.file))
  <2> DEFINE S == UnitsOf(x.file)
             z == wire[c]
  <2>1. z \in Seq(S) /\ k \in 0 .. Len(z)
    BY <1>2 DEF x
  <2> HIDE DEF S, z
  <2>2. SubSeq(z, 1, k) \in Seq(S)
    BY <2>1
  <2> QED BY <2>2 DEF S, z
<1> HIDE DEF y, w
<1>9. /\ cl' \in [Clients -> ClientRecs] /\ cl'[c] = y
      /\ \A d \in Clients \ {c} : cl'[d] = cl[d]
  BY <1>1, <1>5, <1>7 DEF Types
<1>10. /\ wire' \in [Clients -> Seq(Units)] /\ wire'[c] = w
       /\ \A d \in Clients \ {c} : wire'[d] = wire[d]
  <2>1. w \in Seq(Units)
    BY <1>2, <1>8, UnitsOfFile DEF x
  <2> QED BY <1>1, <1>5, <2>1 DEF Types
<1>11. Fits(cl'[c], wire'[c], buf'[c], back'[c])
  BY <1>2, <1>3, <1>7, <1>8, <1>9, <1>10 DEF Fits, x
<1>12. DOMAIN FileMap \cap Pages = {} => /\ Known(FileMap, cl'[c].file, cl'[c].uploadId)
                                         /\ Told(FileMap, cl'[c].file, back'[c])
  BY <1>1, <1>3, <1>7, <1>9 DEF Skips, x
<1>13. /\ px' \in Globals /\ Phased(px', FileMap) /\ order' \in Orders
       /\ buf' \in [Clients -> Seq(Units)] /\ back' \in [Clients -> Seq(Answers)]
  BY <1>1, <1>3 DEF Types
<1> QED BY <1>3, <1>9, <1>10, <1>11, <1>12, <1>13, ClientKeeps

\* A client is connected, the phase is the first.
LEMMA StartKeeps ==
  ASSUME UploadInOrder, NEW c \in Clients, Start(c)
  PROVE  UploadInOrder'
<1>1. Types /\ AllFit /\ Phased(px, FileMap) /\ Skips
  BY DEF UploadInOrder
<1>2. /\ cl[c] \in ClientRecs /\ Fits(cl[c], wire[c], buf[c], back[c])
  BY <1>1, ClientParts
<1>3. /\ cl[c].st = "idle" /\ px' = onConnection(px)
      /\ order' = (IF \E d \in Clients : cl[d].open THEN "overlapped" ELSE order)
      /\ UNCHANGED <<back, buf, FileMap, srv, forwarded>>
  BY DEF Start
<1>4. PICK f \in Choice[c], test \in {FALSE} \cup {t \in {TRUE} : c \in Testers} :
        ClientStep(c, [mySocket1(cl[c]) EXCEPT !.st = "asks", !.file = f, !.test = test], Asks(f, test))
  BY Zenon DEF Start
<1>5. f \in Files /\ test \in BOOLEAN
  BY UploadAssumption
<1>6. wire[c] = <<>> /\ buf[c] = <<>> /\ back[c] = <<>> /\ cl[c].uploadId = {}
  BY <1>2, <1>3 DEF Fits
<1> DEFINE x == cl[c]
           yes == TRUE
           y == [[[[x EXCEPT !.open = yes] EXCEPT !.st = "asks"] EXCEPT !.file = f] EXCEPT !.test = test]
           w == Asks(f, test)
<1>7. cl' = [cl EXCEPT ![c] = y] /\ wire' = [wire EXCEPT ![c] = <<>> \o w]
  BY <1>1, <1>4, <1>6 DEF ClientStep, mySocket1, Types
<1>8. x \in ClientRecs /\ yes \in BOOLEAN
  BY <1>2
<1>9. yes
  OBVIOUS
<1> HIDE DEF x, yes
<1>10. y \in ClientRecs /\ y.file = f /\ y.st = "asks" /\ y.uploadId = x.uploadId /\ y.open = yes
  BY <1>5, <1>8 DEF ClientRecs
<1>11. w \in Seq(UnitsOf(f))
  <2>1. Op \in UnitsOf(f) /\ Header(f) \in UnitsOf(f)
    BY DEF UnitsOf
  <2> QED BY <2>1 DEF Asks
<1> HIDE DEF y, w
<1>12. <<>> \o w = w
  BY <1>11
<1>13. /\ cl' \in [Clients -> ClientRecs] /\ cl'[c] = y
       /\ \A d \in Clients \ {c} : cl'[d] = cl[d]
  BY <1>1, <1>7, <1>10 DEF Types
<1>14. /\ wire' \in [Clients -> Seq(Units)] /\ wire'[c] = w
       /\ \A d \in Clients \ {c} : wire'[d] = wire[d]
  <2>1. w \in Seq(Units)
    BY <1>5, <1>11, UnitsOfFile
  <2> QED BY <1>1, <1>7, <1>12, <2>1 DEF Types
<1>15. Fits(cl'[c], wire'[c], buf'[c], back'[c])
  <2>1. <<>> \in Seq(UnitsOf(f))
    OBVIOUS
  <2> QED BY <1>3, <1>6, <1>9, <1>10, <1>11, <1>13, <1>14, <2>1 DEF Fits, x
<1>16. Known(FileMap, cl'[c].file, cl'[c].uploadId) /\ Told(FileMap, cl'[c].file, back'[c])
  BY <1>3, <1>6, <1>10, <1>13 DEF Known, Told, x
<1>17. px' \in Globals /\ Phased(px', FileMap)
  <2> DEFINE g == px'
             p == px
             q == [p EXCEPT !.Operate = "sw"]
  <2>1. p \in Globals /\ g = [q EXCEPT !.upStatu = 1] /\ 1 \in 1 .. 4
    BY <1>1, <1>3 DEF Types, onConnection
  <2> HIDE DEF g, p
  <2>2. g \in Globals /\ g.upStatu = 1
    BY <2>1 DEF Globals
  <2> QED BY <2>2 DEF g, Phased
<1>18. order' \in Orders /\ buf' \in [Clients -> Seq(Units)] /\ back' \in [Clients -> Seq(Answers)]
  BY <1>1, <1>3 DEF Types, Orders
<1> QED BY <1>3, <1>13, <1>14, <1>15, <1>16, <1>17, <1>18, ClientKeeps

(* What a client sends after an answer is of its file.                      *)
LEMMA SendsType ==
  ASSUME NEW x, NEW f, f = x.file, f \in Files
  PROVE  sendFileBlock(x) \in Seq(UnitsOf(f)) /\ Md5s(f) \in Seq(UnitsOf(f))
<1> DEFINE n == blockNum(f)
           S == Seq(UnitsOf(f))
           T == [k \in 0 .. n |-> S]
<1>1. n \in Nat /\ n = blockNum(x.file)
  BY Cutting
<1>2. <<>> \in S
  OBVIOUS
<1>3. ASSUME NEW k \in 1 .. n, NEW h \in S PROVE sendBlockFile(x, h, k - 1) \in S
  <2>1. Rec(k - 1, BlockFile(f, k - 1)) \in UnitsOf(f)
    <3>1. k - 1 \in 0 .. blockNum(f) - 1
      BY <1>1
    <3> QED BY <3>1 DEF UnitsOf, Blocks
  <2>2. Append(h, Rec(k - 1, BlockFile(f, k - 1))) \in S
    BY <2>1
  <2> QED BY <2>2 DEF sendBlockFile
<1>4. Md5s(f) \in S
  <2>1. Sums1(f) \in UnitsOf(f)
    BY DEF UnitsOf
  <2>2. Md5s(f) = <<>> \/ Md5s(f) = <<Sums1(f)>>
    BY DEF Md5s, Sums1
  <2>3. <<Sums1(f)>> \in S
    BY <2>1
  <2> HIDE DEF S
  <2> QED BY <1>2, <2>2, <2>3
<1> HIDE DEF S
<1>5. T \in [0 .. n -> SUBSET S] /\ \A k \in 0 .. n : T[k] = S
  OBVIOUS
<1> HIDE DEF T
<1>6. /\ <<>> \in T[0]
      /\ \A k \in 1 .. n, h \in S : h \in T[k - 1] => sendBlockFile(x, h, k - 1) \in T[k]
  BY <1>1, <1>2, <1>3, <1>5
<1> HIDE DEF n
<1>7. sendFileBlock(x) \in T[n]
  BY <1>1, <1>2, <1>3, <1>5, <1>6, LoopOfSends
<1> QED BY <1>1, <1>4, <1>5, <1>7 DEF S

\* A client learns of ids that are accepted, and sends blocks of its file.
LEMMA ReceiveKeeps ==
  ASSUME UploadInOrder, NEW c \in Clients, Receive(c)
  PROVE  UploadInOrder'
<1>1. Types /\ AllFit /\ Phased(px, FileMap) /\ Skips
  BY DEF UploadInOrder
<1> DEFINE r == Head(back[c])
           f == cl[c].file
           x == cl[c]
<1>2. /\ x \in ClientRecs /\ f \in Files
      /\ wire[c] \in Seq(UnitsOf(f)) /\ buf[c] \in Seq(UnitsOf(f)) /\ back[c] \in Seq(Answers)
      /\ Fits(x, wire[c], buf[c], back[c])
  BY <1>1, ClientParts
<1>3. /\ x.st \in {"asks", "sent"} /\ back[c] # <<>> /\ back' = [back EXCEPT ![c] = Tail(@)]
      /\ IF r = Success THEN ClientStep(c, [x EXCEPT !.st = "done"], <<>>)
         ELSE ClientStep(c, [updateuploadId(x, r) EXCEPT !.st = "sent"], Sends(x, r))
      /\ UNCHANGED <<px, buf, FileMap, srv, forwarded, order>>
  BY Zenon DEF Receive
<1> DEFINE y == updateuploadId(x, r)
           z == IF r = Success THEN [x EXCEPT !.st = "done"] ELSE [y EXCEPT !.st = "sent"]
           w == IF r = Success THEN <<>> ELSE Sends(x, r)
           t == Tail(back[c])
<1>4. cl' = [cl EXCEPT ![c] = z] /\ wire' = [wire EXCEPT ![c] = wire[c] \o w] /\ back' = [back EXCEPT ![c] = t]
  <2>0. y = updateuploadId(x, r)
    OBVIOUS
  <2> HIDE DEF r, y, x
  <2>1. wire' = [wire EXCEPT ![c] = @ \o w] /\ cl' = [cl EXCEPT ![c] = z]
    <3>1. CASE r = Success
      BY <1>3, <3>1 DEF ClientStep
    <3>2. CASE r # Success
      BY <1>3, <2>0, <3>2 DEF ClientStep
    <3> QED BY <3>1, <3>2
  <2> QED BY <1>3, <2>1
<1>5. r \in Answers /\ t \in Seq(Answers) /\ \A i \in DOMAIN t : i + 1 \in DOMAIN back[c] /\ t[i] = back[c][i + 1]
  <2> DEFINE b == back[c]
  <2>1. b \in Seq(Answers) /\ b # <<>>
    BY <1>2, <1>3
  <2> HIDE DEF b
  <2>2. Head(b) \in Answers /\ Tail(b) \in Seq(Answers) /\ \A i \in DOMAIN Tail(b) : i + 1 \in DOMAIN b /\ Tail(b)[i] = b[i + 1]
    BY <2>1
  <2> QED BY <2>2 DEF b
<1>6. r = back[c][1] /\ 1 \in DOMAIN back[c]
  <2> DEFINE b == back[c]
  <2>1. b \in Seq(Answers) /\ b # <<>>
    BY <1>2, <1>3
  <2> HIDE DEF b
  <2>2. Head(b) = b[1] /\ 1 \in DOMAIN b
    BY <2>1
  <2> QED BY <2>2 DEF b
<1> HIDE DEF r, x
<1>7. /\ y \in ClientRecs /\ y.file = x.file /\ y.open = x.open
      /\ y.uploadId = IF r.r = "ids" THEN x.uploadId \cup r.ids ELSE x.uploadId
  <2>1. r.r = "ids" => r.ids \in SUBSET Nat
    <3>1. CASE r \in {ACK, Success}
      BY <3>1 DEF ACK, Success
    <3>2. CASE r \notin {ACK, Success}
      <4>1. PICK I \in SUBSET Nat : r = [r |-> "ids", ids |-> I]
        BY <1>5, <3>2 DEF Answers
      <4>2. r.ids = I
        BY <4>1
      <4> QED BY <4>2
    <3> QED BY <3>1, <3>2
  <2>2. x.uploadId \in SUBSET Nat
    BY <1>2 DEF ClientRecs
  <2> DEFINE v == x.uploadId \cup r.ids
  <2>3. r.r = "ids" => v \in SUBSET Nat
    BY <2>1, <2>2
  <2>4. y = IF r.r = "ids" THEN [x EXCEPT !.uploadId = v] ELSE x
    BY DEF updateuploadId
  <2> HIDE DEF v, y
  <2>5. /\ y \in ClientRecs /\ y.file = x.file /\ y.open = x.open
        /\ y.uploadId = IF r.r = "ids" THEN v ELSE x.uploadId
    BY <1>2, <2>3, <2>4 DEF ClientRecs
  <2> QED BY <2>5 DEF v
<1> HIDE DEF y
<1>8. /\ z \in ClientRecs /\ z.file = f /\ z.open = x.open /\ z.st \in {"done", "sent"}
      /\ z.uploadId = IF r # Success /\ r.r = "ids" THEN x.uploadId \cup r.ids ELSE x.uploadId
  <2> DEFINE a == [x EXCEPT !.st = "done"]
             b == [y EXCEPT !.st = "sent"]
  <2>1. a \in ClientRecs /\ a.file = x.file /\ a.open = x.open /\ a.st = "done" /\ a.uploadId = x.uploadId
    BY <1>2 DEF ClientRecs
  <2>2. b \in ClientRecs /\ b.file = y.file /\ b.open = y.open /\ b.st = "sent" /\ b.uploadId = y.uploadId
    BY <1>7 DEF ClientRecs
  <2>3. x.file = f /\ z = IF r = Success THEN a ELSE b
    BY DEF x
  <2> HIDE DEF a, b, z, f
  <2> QED BY <1>7, <2>1, <2>2, <2>3
<1>9. w \in Seq(UnitsOf(f))
  <2>1. y.file = f
    BY <1>7 DEF x
  <2>2. sendFileBlock(y) \in Seq(UnitsOf(f)) /\ Md5s(f) \in Seq(UnitsOf(f)) /\ x.file = f
    BY <1>2, <2>1, SendsType DEF x
  <2> DEFINE S == UnitsOf(f)
             a == IF x.st = "asks" /\ r = ACK THEN Md5s(f) ELSE <<>>
             b == sendFileBlock(y)
             d == Md5s(f)
  <2>3. Sends(x, r) = a \o b
    BY <2>2 DEF Sends, y
  <2>4. a \in Seq(S) /\ b \in Seq(S)
    <3>1. a = d \/ a = <<>>
      OBVIOUS
    <3>2. d \in Seq(S) /\ b \in Seq(S)
      BY <2>2
    <3> HIDE DEF S, a, b, d
    <3>3. <<>> \in Seq(S)
      OBVIOUS
    <3>4. a \in Seq(S)
      BY <3>1, <3>2, <3>3, Zenon
    <3> QED BY <3>2, <3>4
  <2> HIDE DEF S, a, b
  <2>5. a \o b \in Seq(S) /\ <<>> \in Seq(S)
    BY <2>4
  <2> QED BY <2>3, <2>5 DEF S
<1> HIDE DEF z, w, t
<1>10. wire[c] \o w \in Seq(UnitsOf(f))
  <2> DEFINE a == wire[c]
             S == UnitsOf(f)
  <2>1. a \in Seq(S) /\ w \in Seq(S)
    BY <1>2, <1>9
  <2> HIDE DEF a, S
  <2>2. a \o w \in Seq(S)
    BY <2>1
  <2> QED BY <2>2 DEF a, S
<1> DEFINE q == wire[c] \o w
<1>11. q \in Seq(UnitsOf(f)) /\ wire' = [wire EXCEPT ![c] = q]
  BY <1>4, <1>10
<1> HIDE DEF q
<1>12. /\ cl' \in [Clients -> ClientRecs] /\ cl'[c] = z
       /\ \A d \in Clients \ {c} : cl'[d] = cl[d]
  BY <1>1, <1>4, <1>8 DEF Types
<1>13. /\ wire' \in [Clients -> Seq(Units)] /\ wire'[c] = q
       /\ \A d \in Clients \ {c} : wire'[d] = wire[d]
  <2>1. q \in Seq(Units)
    BY <1>2, <1>11, UnitsOfFile
  <2> QED BY <1>1, <1>11, <2>1 DEF Types
<1>14. /\ back' \in [Clients -> Seq(Answers)] /\ back'[c] = t
       /\ \A d \in Clients \ {c} : back'[d] = back[d]
  BY <1>1, <1>4, <1>5 DEF Types
<1>15. Fits(cl'[c], wire'[c], buf'[c], back'[c])
  <2>1. x.open /\ buf'[c] = buf[c]
    BY <1>2, <1>3 DEF Fits
  <2>2. z.file = f /\ z.open /\ z.st \in {"done", "sent"}
    BY <1>8, <2>1
  <2> QED BY <1>2, <1>11, <1>12, <1>13, <1>14, <2>1, <2>2 DEF Fits
<1>16. DOMAIN FileMap \cap Pages = {} => /\ Known(FileMap, cl'[c].file, cl'[c].uploadId)
                                         /\ Told(FileMap, cl'[c].file, back'[c])
  <2> SUFFICES ASSUME DOMAIN FileMap \cap Pages = {}
               PROVE  Known(FileMap, f, z.uploadId) /\ Told(FileMap, f, t)
    BY <1>8, <1>12, <1>14
  <2>1. Known(FileMap, f, x.uploadId) /\ Told(FileMap, f, back[c])
    BY <1>1 DEF Skips, x
  <2>2. Told(FileMap, f, t)
    BY <1>5, <2>1 DEF Told
  <2>3. r.r = "ids" => Known(FileMap, f, r.ids)
    BY <1>6, <2>1 DEF Told
  <2>4. Known(FileMap, f, z.uploadId)
    BY <1>8, <2>1, <2>3 DEF Known
  <2> QED BY <2>2, <2>4
<1>17. /\ px' \in Globals /\ Phased(px', FileMap) /\ order' \in Orders /\ buf' \in [Clients -> Seq(Units)]
       /\ \A d \in Clients \ {c} : buf'[d] = buf[d]
  BY <1>1, <1>3 DEF Types
<1> QED BY <1>3, <1>12, <1>13, <1>14, <1>15, <1>16, <1>17, ClientKeeps

-----------------------------------------------------------------------------
(* The steps of the servers.                                                *)
LEMMA CountNone ==
  ASSUME NEW x
  PROVE  Count(<<>>, x) = 0
<1>1. {i \in DOMAIN <<>> : <<>>[i] = x} = {}
  OBVIOUS
<1> QED BY <1>1, FS_EmptySet DEF Count

(* The first k elements are the first k - 1 and the next.                   *)
LEMMA PrefixGrows ==
  ASSUME NEW S, NEW q \in Seq(S), NEW k \in 1 .. Len(q), NEW x
  PROVE  Count(SubSeq(q, 1, k), x) = Count(SubSeq(q, 1, k - 1), x) + IF q[k] = x THEN 1 ELSE 0
<1> DEFINE a == SubSeq(q, 1, k - 1)
           b == SubSeq(q, 1, k)
           u == q[k]
<1>1. a \in Seq(S) /\ u \in S /\ b = Append(a, u)
  OBVIOUS
<1> HIDE DEF a, b, u
<1>2. Count(Append(a, u), x) = Count(a, x) + IF u = x THEN 1 ELSE 0
  BY <1>1, CountAppend
<1> QED BY <1>1, <1>2 DEF a, b, u

(* A block is saved once in a pass over it.                                 *)
LEMMA SaveStep ==
  ASSUME NEW h \in Stores, NEW u \in ServerUnits, NEW d, d = saveBlockFile(h, u)
  PROVE  /\ d \in Stores /\ d.in = h.in /\ d.buf = h.buf
         /\ \A p \in Pages : d.saved[p] <= h.saved[p] + IF u = Block(p) THEN 1 ELSE 0
<1>1. h.saved \in [Pages -> Nat]
  BY DEF Stores
<1>2. \A p \in Pages : h.saved[p] \in Nat
  BY <1>1
<1>3. CASE h.phase = "blocks" /\ u.u = "block" /\ u.md5 = ServerMD5(u.page)
  <2>1. PICK p \in Pages : u = Block(p)
    BY <1>3 DEF ServerUnits, Up, Name
  <2>2. u.page = p
    BY <2>1 DEF Block
  <2> DEFINE f == [h.saved EXCEPT ![p] = @ + 1]
  <2>3. f \in [Pages -> Nat] /\ \A r \in Pages : f[r] = IF r = p THEN h.saved[r] + 1 ELSE h.saved[r]
    BY <1>1
  <2>4. d = [h EXCEPT !.saved = f]
    BY <1>3, <2>2 DEF saveBlockFile
  <2> HIDE DEF f
  <2>5. d \in Stores /\ d.in = h.in /\ d.buf = h.buf /\ d.saved = f
    BY <2>3, <2>4 DEF Stores
  <2>6. \A r \in Pages : d.saved[r] <= h.saved[r] + IF u = Block(r) THEN 1 ELSE 0
    BY <1>2, <2>1, <2>3, <2>5
  <2> QED BY <2>5, <2>6
<1>4. CASE ~(h.phase = "blocks" /\ u.u = "block" /\ u.md5 = ServerMD5(u.page))
  <2> DEFINE z == [h EXCEPT !.phase = "lost"]
  <2>1. z \in Stores /\ z.in = h.in /\ z.buf = h.buf /\ z.saved = h.saved
    BY DEF Stores, Phases
  <2>2. d = h \/ d = z
    BY <1>4 DEF saveBlockFile
  <2> HIDE DEF z
  <2>3. d \in Stores /\ d.in = h.in /\ d.buf = h.buf /\ d.saved = h.saved
    BY <2>1, <2>2
  <2> QED BY <1>2, <2>3
<1> QED BY <1>3, <1>4

(* After a read of units a server has appended a page no more often than    *)
(* it is among them.                                                        *)
LEMMA SavesCount ==
  ASSUME NEW x \in Stores, NEW q \in Seq(ServerUnits), NEW d, d = FoldLeft(saveBlockFile, x, q)
  PROVE  /\ d \in Stores /\ d.in = x.in /\ d.buf = x.buf
         /\ \A p \in Pages : d.saved[p] <= x.saved[p] + Count(q, Block(p))
<1> DEFINE n == Len(q)
           R(k) == {h \in Stores : /\ h.in = x.in /\ h.buf = x.buf
                                   /\ \A p \in Pages : h.saved[p] <= x.saved[p] + Count(SubSeq(q, 1, k), Block(p))}
           T == [k \in 0 .. n |-> R(k)]
<1>1. n \in Nat /\ DOMAIN q = 1 .. n /\ \A k \in 1 .. n : q[k] \in ServerUnits
  OBVIOUS
<1>2. \A h \in Stores, p \in Pages : h.saved[p] \in Nat
  BY ServerCounts
<1>3. \A k \in 0 .. n, p \in Pages : Count(SubSeq(q, 1, k), Block(p)) \in Nat
  BY CountSplit, CountType
<1>4. x \in R(0)
  <2>1. SubSeq(q, 1, 0) = <<>>
    OBVIOUS
  <2>2. \A p \in Pages : Count(SubSeq(q, 1, 0), Block(p)) = 0
    BY <2>1, CountNone
  <2> QED BY <1>2, <2>2
<1>5. ASSUME NEW k \in 1 .. n, NEW h \in Stores PROVE saveBlockFile(h, q[k]) \in Stores
  BY <1>1, SaveStep
<1>6. ASSUME NEW k \in 1 .. n, NEW h \in Stores, h \in R(k - 1) PROVE saveBlockFile(h, q[k]) \in R(k)
  <2> DEFINE e == saveBlockFile(h, q[k])
  <2>1. /\ e \in Stores /\ e.in = h.in /\ e.buf = h.buf
        /\ \A p \in Pages : e.saved[p] <= h.saved[p] + IF q[k] = Block(p) THEN 1 ELSE 0
    BY <1>1, SaveStep
  <2> HIDE DEF e
  <2>2. ASSUME NEW p \in Pages
        PROVE  e.saved[p] <= x.saved[p] + Count(SubSeq(q, 1, k), Block(p))
    <3> DEFINE i == Count(SubSeq(q, 1, k - 1), Block(p))
               j == Count(SubSeq(q, 1, k), Block(p))
               one == IF q[k] = Block(p) THEN 1 ELSE 0
               a == e.saved[p]
               b == h.saved[p]
               v == x.saved[p]
    <3>1. j = i + one /\ i \in Nat /\ j \in Nat
      BY <1>1, <1>3, PrefixGrows
    <3>2. a \in Nat /\ b \in Nat /\ v \in Nat /\ a <= b + one /\ b <= v + i /\ one \in Nat
      BY <1>2, <1>6, <2>1
    <3> HIDE DEF i, j, one, a, b, v
    <3>3. a <= v + j
      BY <3>1, <3>2
    <3> QED BY <3>3 DEF a, v, j
  <2>3. e.in = x.in /\ e.buf = x.buf
    BY <1>6, <2>1
  <2>4. e \in R(k)
    BY <2>1, <2>2, <2>3
  <2> QED BY <2>4 DEF e
<1>7. T \in [0 .. n -> SUBSET Stores] /\ x \in T[0]
      /\ \A k \in 1 .. n, h \in Stores : h \in T[k - 1] => saveBlockFile(h, q[k]) \in T[k]
  <2> HIDE DEF R
  <2>1. \A k \in 0 .. n : T[k] = R(k)
    OBVIOUS
  <2>2. \A k \in 0 .. n : R(k) \in SUBSET Stores
    BY DEF R
  <2> QED BY <1>1, <1>4, <1>6, <2>1, <2>2
<1>8. T[n] = R(n) /\ SubSeq(q, 1, n) = q
  BY <1>1
<1> HIDE DEF T, n, R
<1>9. d \in T[n]
  BY <1>1, <1>5, <1>7, LoopOfSaves
<1>10. d \in R(n)
  BY <1>8, <1>9
<1> QED BY <1>8, <1>10 DEF R

\* What a server is after a read of k units.
AfterRead(z, k) ==
  LET units == z.buf \o SubSeq(z.in, 1, k)
      x == [z EXCEPT !.in = SubSeq(@, k + 1, Len(@)), !.buf = <<>>]
      y == IF x.phase = "sw" THEN [x EXCEPT !.phase = "names", !.buf = Tail(units)]
           ELSE upLoad(x, units) IN
  IF y.phase = "lost" THEN [y EXCEPT !.in = <<>>] ELSE y

\* A server keeps of a page no more than it was sent, whatever it takes the units for.
LEMMA AfterReadKeeps ==
  ASSUME NEW z \in Stores, NEW k \in 1 .. Len(z.in), NEW e, e = AfterRead(z, k)
  PROVE  e \in Stores /\ \A p \in Pages, own \in Nat : Keeps(z, p, own) => Keeps(e, p, own)
<1> DEFINE q == z.buf \o SubSeq(z.in, 1, k)
           r == SubSeq(z.in, k + 1, Len(z.in))
           none == <<>>
           x0 == [z EXCEPT !.in = r]
           x == [x0 EXCEPT !.buf = none]
           t == Tail(q)
           y == IF x.phase = "sw" THEN [[x EXCEPT !.phase = "names"] EXCEPT !.buf = t] ELSE upLoad(x, q)
<1>1. /\ z.in \in Seq(ServerUnits) /\ z.buf \in Seq(ServerUnits) /\ z.phase \in Phases
      /\ z.saved \in [Pages -> Nat]
  BY DEF Stores
<1>2. e = IF y.phase = "lost" THEN [y EXCEPT !.in = none] ELSE y
  BY Zenon DEF AfterRead
<1>3. /\ q \in Seq(ServerUnits) /\ r \in Seq(ServerUnits) /\ q # <<>> /\ none \in Seq(ServerUnits)
      /\ \A p \in Pages : Count(q, Block(p)) + Count(r, Block(p)) = Count(z.buf, Block(p)) + Count(z.in, Block(p))
  <2> DEFINE a == z.buf
             b == z.in
             c == SubSeq(b, 1, k)
  <2>1. a \in Seq(ServerUnits) /\ b \in Seq(ServerUnits) /\ k \in 1 .. Len(b) /\ q = a \o c /\ r = SubSeq(b, k + 1, Len(b))
    BY <1>1
  <2> HIDE DEF a, b, q, r
  <2>2. c \in Seq(ServerUnits) /\ Len(c) = k /\ r \in Seq(ServerUnits) /\ k \in 0 .. Len(b)
    BY <2>1
  <2>3. \A p \in Pages : Count(b, Block(p)) = Count(c, Block(p)) + Count(r, Block(p))
    BY <2>1, <2>2, CountSplit
  <2> HIDE DEF c
  <2>4. q \in Seq(ServerUnits) /\ Len(q) = Len(a) + k /\ Len(a) \in Nat
    <3>0. a \in Seq(ServerUnits) /\ c \in Seq(ServerUnits)
      BY <2>1, <2>2
    <3>1. a \o c \in Seq(ServerUnits) /\ Len(a \o c) = Len(a) + Len(c)
      BY <3>0, ConcatProperties
    <3>2. Len(a) \in Nat
      BY <2>1
    <3> QED BY <2>1, <2>2, <3>1, <3>2
  <2>5. q # <<>>
    BY <2>1, <2>4
  <2>6. \A p \in Pages : Count(q, Block(p)) = Count(a, Block(p)) + Count(c, Block(p))
    BY <2>1, <2>2, CountConcat
  <2>7. \A p \in Pages : Count(q, Block(p)) + Count(r, Block(p)) = Count(a, Block(p)) + Count(b, Block(p))
    <3> SUFFICES ASSUME NEW p \in Pages
                 PROVE  Count(q, Block(p)) + Count(r, Block(p)) = Count(a, Block(p)) + Count(b, Block(p))
      OBVIOUS
    <3>1. /\ Count(q, Block(p)) \in Nat /\ Count(r, Block(p)) \in Nat /\ Count(a, Block(p)) \in Nat
          /\ Count(b, Block(p)) \in Nat /\ Count(c, Block(p)) \in Nat
      BY <2>1, <2>2, <2>4, CountType
    <3> QED BY <2>3, <2>6, <3>1
  <2>8. none \in Seq(ServerUnits)
    OBVIOUS
  <2> QED BY <2>2, <2>4, <2>5, <2>7, <2>8 DEF a, b
<1> HIDE DEF q, r
<1>4. \A p \in Pages : Count(none, Block(p)) = 0
  BY CountNone
<1>5. t \in Seq(ServerUnits) /\ \A p \in Pages : Count(t, Block(p)) <= Count(q, Block(p))
  BY <1>3, CountTail
<1> HIDE DEF none, t
<1>6. x \in Stores /\ x.in = r /\ x.buf = none /\ x.phase = z.phase /\ x.saved = z.saved
  <2>1. x0 \in Stores /\ x0.in = r /\ x0.buf = z.buf /\ x0.phase = z.phase /\ x0.saved = z.saved
    BY <1>3 DEF Stores
  <2> HIDE DEF x0
  <2> QED BY <1>3, <2>1 DEF Stores
<1> HIDE DEF x0, x
<1>7. y \in Stores /\ y.in = r
      /\ \/ y.buf = t /\ y.saved = z.saved
         \/ y.buf = none /\ y.saved = z.saved
         \/ y.buf = none /\ \A p \in Pages : y.saved[p] <= z.saved[p] + Count(q, Block(p))
  <2>1. CASE x.phase = "sw"
    <3> DEFINE w == [x EXCEPT !.phase = "names"]
    <3>1. w \in Stores /\ w.in = x.in /\ w.saved = x.saved
      BY <1>6 DEF Stores, Phases
    <3>2. y = [w EXCEPT !.buf = t]
      BY <2>1
    <3> HIDE DEF w, y
    <3>3. y \in Stores /\ y.in = w.in /\ y.saved = w.saved /\ y.buf = t
      BY <1>5, <3>1, <3>2 DEF Stores
    <3> QED BY <1>6, <3>1, <3>3
  <2>2. CASE x.phase = "lost"
    <3>1. y = x
      BY <2>2 DEF upLoad
    <3> HIDE DEF y
    <3> QED BY <1>6, <3>1
  <2>3. CASE x.phase = "blocks"
    <3>1. y = FoldLeft(saveBlockFile, x, q)
      BY <1>3, <2>3 DEF upLoad
    <3> HIDE DEF y
    <3>2. /\ y \in Stores /\ y.in = x.in /\ y.buf = x.buf
          /\ \A p \in Pages : y.saved[p] <= x.saved[p] + Count(q, Block(p))
      BY <1>3, <1>6, <3>1, SavesCount
    <3> QED BY <1>6, <3>2
  <2>4. CASE x.phase = "names"
    <3> DEFINE ph == IF \A i \in DOMAIN q : q[i].u = "name" THEN "blocks" ELSE "lost"
    <3>1. y = [x EXCEPT !.phase = ph] /\ ph \in Phases
      BY <1>3, <2>4 DEF upLoad, mkfile, Phases
    <3> HIDE DEF ph, y
    <3>2. y \in Stores /\ y.in = x.in /\ y.buf = x.buf /\ y.saved = x.saved
      BY <1>6, <3>1 DEF Stores
    <3> QED BY <1>6, <3>2
  <2> QED BY <1>1, <1>6, <2>1, <2>2, <2>3, <2>4 DEF Phases
<1> HIDE DEF y
<1>8. e \in Stores /\ e.buf = y.buf /\ e.saved = y.saved /\ (e.in = r \/ e.in = none)
  BY <1>2, <1>3, <1>7 DEF Stores
<1>9. ASSUME NEW p \in Pages, NEW own \in Nat, Keeps(z, p, own) PROVE Keeps(e, p, own)
  <2> DEFINE a == z.saved[p]
             b == Count(z.buf, Block(p))
             c == Count(z.in, Block(p))
             cq == Count(q, Block(p))
             cr == Count(r, Block(p))
             ct == Count(t, Block(p))
             cn == Count(none, Block(p))
             ea == e.saved[p]
             eb == Count(e.buf, Block(p))
             ec == Count(e.in, Block(p))
  <2>1. /\ a \in Nat /\ b \in Nat /\ c \in Nat /\ ea \in Nat /\ eb \in Nat /\ ec \in Nat
    BY <1>8, ServerCounts
  <2>2. cq \in Nat /\ cr \in Nat /\ ct \in Nat
    BY <1>3, <1>5, CountType
  <2>3. cq + cr = b + c /\ cn = 0 /\ ct <= cq
    BY <1>3, <1>4, <1>5
  <2>4. (eb = ct /\ ea = a) \/ (eb = cn /\ ea = a) \/ (eb = cn /\ ea <= a + cq)
    BY <1>7, <1>8
  <2>5. ec = cr \/ ec = cn
    BY <1>8
  <2>6. a + b + c <= own
    BY <1>9 DEF Keeps
  <2> HIDE DEF a, b, c, cq, cr, ct, cn, ea, eb, ec
  <2>7. ea + eb + ec <= own
    BY <2>1, <2>2, <2>3, <2>4, <2>5, <2>6
  <2> QED BY <2>7 DEF ea, eb, ec, Keeps
<1> QED BY <1>8, <1>9

\* The others and the proxy do not notice.
LEMMA ServerReadsKeeps ==
  ASSUME UploadInOrder, NEW s \in Servers, ServerReads(s)
  PROVE  UploadInOrder'
<1>1. Types /\ AllFit /\ Phased(px, FileMap) /\ Accepted(FileMap, forwarded) /\ Skips /\ Stored
  BY DEF UploadInOrder
<1>2. UNCHANGED <<cl, wire, back, px, buf, FileMap, forwarded>>
  BY DEF ServerReads
<1>3. PICK k \in 1 .. Len(srv[s].in) : srv' = [srv EXCEPT ![s] = AfterRead(srv[s], k)] /\ order' = Reads(k)
  BY Zenon DEF ServerReads, AfterRead
<1>4. srv[s] \in Stores
  BY <1>1 DEF Types
<1> DEFINE e == AfterRead(srv[s], k)
<1>5. e \in Stores /\ \A p \in Pages, own \in Nat : Keeps(srv[s], p, own) => Keeps(e, p, own)
  BY <1>4, AfterReadKeeps
<1>6. srv' = [srv EXCEPT ![s] = e]
  BY <1>3
<1> HIDE DEF e
<1>7. srv' \in [Servers -> Stores] /\ srv'[s] = e /\ \A r \in Servers \ {s} : srv'[r] = srv[r]
  BY <1>1, <1>5, <1>6 DEF Types
<1>8. order' \in Orders
  BY <1>1, <1>3, ReadsType DEF Types
<1>9. Types'
  BY <1>1, <1>2, <1>7, <1>8 DEF Types
<1>10. AllFit' /\ Phased(px', FileMap') /\ Accepted(FileMap', forwarded') /\ Skips'
  BY <1>1, <1>2 DEF AllFit, Skips
<1>11. Stored'
  <2> SUFFICES ASSUME NEW r \in Servers, NEW p \in Pages
               PROVE  Keeps(srv'[r], p, IF Server[p] = r THEN Count(forwarded', p) ELSE 0)
    BY DEF Stored
  <2> DEFINE own == IF Server[p] = r THEN Count(forwarded, p) ELSE 0
  <2>1. own \in Nat
    <3>1. forwarded \in Seq(Pages)
      BY <1>1 DEF Types
    <3> QED BY <3>1, CountType
  <2>2. Keeps(srv[r], p, own)
    BY <1>1 DEF Stored
  <2>3. own = IF Server[p] = r THEN Count(forwarded', p) ELSE 0
    BY <1>2
  <2> HIDE DEF own
  <2>4. Keeps(srv'[r], p, own)
    BY <1>5, <1>7, <2>1, <2>2
  <2> QED BY <2>3, <2>4
<1> QED BY <1>9, <1>10, <1>11 DEF UploadInOrder

-----------------------------------------------------------------------------
(* The inductive invariant.                                                 *)
LEMMA InitInOrder ==
  ASSUME Init
  PROVE  UploadInOrder
<1>1. /\ cl = [c \in Clients |-> Fresh]
      /\ wire = [c \in Clients |-> <<>>] /\ back = [c \in Clients |-> <<>>] /\ buf = [c \in Clients |-> <<>>]
      /\ px = [Operate |-> "sw", upStatu |-> 1, g_FileName |-> "", alive |-> TRUE]
      /\ FileMap = [n \in {} |-> FileValue(0)]
      /\ srv = [s \in Servers |-> mySocket(MainOfServer(s))]
      /\ forwarded = <<>> /\ order = "smooth"
  BY DEF Init
<1>2. cl \in [Clients -> ClientRecs] /\ \A c \in Clients : cl[c].st = "idle" /\ ~cl[c].open /\ cl[c].uploadId = {}
  <2> SUFFICES ASSUME NEW c \in Clients
               PROVE  Fresh \in ClientRecs /\ Fresh.st = "idle" /\ ~Fresh.open /\ Fresh.uploadId = {}
    BY <1>1
  <2>1. (CHOOSE f \in Files : TRUE) \in Files
    BY UploadAssumption
  <2> DEFINE no == FALSE
             f0 == CHOOSE f \in Files : TRUE
  <2>2. Fresh = [st |-> "idle", test |-> no, file |-> f0, uploadId |-> {}, open |-> no, part |-> no]
    BY DEF Fresh
  <2>3. no \in BOOLEAN /\ f0 \in Files
    BY <2>1
  <2>4. ~no
    OBVIOUS
  <2> HIDE DEF no, f0
  <2>5. Fresh \in ClientRecs /\ Fresh.st = "idle" /\ Fresh.open = no /\ Fresh.uploadId = {}
    BY <2>2, <2>3 DEF ClientRecs
  <2> QED BY <2>4, <2>5
<1>3. /\ wire \in [Clients -> Seq(Units)] /\ buf \in [Clients -> Seq(Units)] /\ back \in [Clients -> Seq(Answers)]
      /\ \A c \in Clients : wire[c] = <<>> /\ buf[c] = <<>> /\ back[c] = <<>>
  <2> DEFINE none == <<>>
  <2>1. none \in Seq(Units) /\ none \in Seq(Answers) /\ none = <<>>
    OBVIOUS
  <2>2. /\ wire = [c \in Clients |-> none] /\ back = [c \in Clients |-> none]
        /\ buf = [c \in Clients |-> none]
    BY <1>1
  <2> HIDE DEF none
  <2> QED BY <2>1, <2>2
<1>4. px \in Globals /\ px.upStatu = 1
  <2> DEFINE yes == TRUE
  <2>1. px = [Operate |-> "sw", upStatu |-> 1, g_FileName |-> "", alive |-> yes] /\ yes \in BOOLEAN
    BY <1>1
  <2> HIDE DEF yes
  <2>2. 1 \in 1 .. 4
    OBVIOUS
  <2> QED BY <2>1, <2>2 DEF Globals
<1>5. FileMap \in Maps /\ DOMAIN FileMap = {}
  <2>1. FileMap \in [{} -> Values] /\ {} \in SUBSET Names
    BY <1>1
  <2> QED BY <2>1 DEF Maps
<1>6. \A s \in Servers :
        /\ srv[s] \in Stores /\ srv[s].in = <<>> /\ srv[s].buf = <<>>
        /\ \A p \in Pages : srv[s].saved[p] = 0
  <2> SUFFICES ASSUME NEW s \in Servers
               PROVE  /\ srv[s] \in Stores /\ srv[s].in = <<>> /\ srv[s].buf = <<>>
                      /\ \A p \in Pages : srv[s].saved[p] = 0
    OBVIOUS
  <2> DEFINE f == [p \in Pages |-> 0]
             ph == IF s = 0 THEN "sw" ELSE "blocks"
  <2>1. srv[s] = [in |-> <<>>, buf |-> <<>>, phase |-> ph, saved |-> f]
    BY <1>1 DEF mySocket, MainOfServer, Sync
  <2>2. f \in [Pages -> Nat] /\ (\A p \in Pages : f[p] = 0) /\ ph \in Phases
    BY DEF Phases
  <2> HIDE DEF f, ph
  <2> QED BY <2>1, <2>2 DEF Stores
<1>7. Types
  <2>1. srv \in [Servers -> Stores]
    <3>1. srv = [s \in Servers |-> srv[s]]
      BY <1>1
    <3> QED BY <1>6, <3>1
  <2>2. forwarded = <<>> /\ order = "smooth"
    BY <1>1
  <2>3. <<>> \in Seq(Pages)
    OBVIOUS
  <2>4. forwarded \in Seq(Pages) /\ order \in Orders
    BY <2>2, <2>3 DEF Orders
  <2> QED BY <1>2, <1>3, <1>4, <1>5, <2>1, <2>4 DEF Types
<1>8. AllFit
  <2> SUFFICES ASSUME NEW c \in Clients PROVE Fits(cl[c], wire[c], buf[c], back[c])
    BY DEF AllFit
  <2> QED BY <1>2, <1>3 DEF Fits
<1>9. Phased(px, FileMap) /\ Accepted(FileMap, forwarded)
  BY <1>4, <1>5 DEF Phased, Accepted
<1>10. Skips
  BY <1>2, <1>3 DEF Skips, Known, Told
<1>11. Stored
  <2> SUFFICES ASSUME NEW s \in Servers, NEW p \in Pages
               PROVE  Keeps(srv[s], p, IF Server[p] = s THEN Count(forwarded, p) ELSE 0)
    BY DEF Stored
  <2>1. Count(forwarded, p) = 0 /\ Count(<<>>, Block(p)) = 0
    BY <1>1, CountNone
  <2> QED BY <1>6, <2>1 DEF Keeps
<1> QED BY <1>7, <1>8, <1>9, <1>10, <1>11 DEF UploadInOrder

\* Every step.
LEMMA NextKeeps ==
  ASSUME UploadInOrder, [Next]_vars
  PROVE  UploadInOrder'
<1>1. CASE UNCHANGED vars
  BY <1>1 DEF vars, UploadInOrder, Types, AllFit, Skips, Stored
<1>2. ASSUME NEW c \in Clients, Proxy(c) PROVE UploadInOrder'
  BY <1>2, ReadKeeps, ReadPartKeeps, DownKeeps DEF Proxy
<1>3. ASSUME NEW c \in Clients, Receive(c) PROVE UploadInOrder'
  BY <1>3, ReceiveKeeps
<1>4. ASSUME NEW s \in Servers, ServerReads(s) PROVE UploadInOrder'
  BY <1>4, ServerReadsKeeps
<1>5. ASSUME NEW c \in Clients, Start(c) PROVE UploadInOrder'
  BY <1>5, StartKeeps
<1>6. ASSUME NEW c \in Clients, Kill(c) PROVE UploadInOrder'
  BY <1>6, KillKeeps
<1> QED BY <1>1, <1>2, <1>3, <1>4, <1>5, <1>6 DEF Next, Work

\* However the clients overlap, the proxy's records and the servers stay in
\* order: the inductive invariant.
THEOREM UploadsStayInOrder == Spec => []UploadInOrder
<1>1. Init => UploadInOrder
  BY InitInOrder
<1>2. UploadInOrder /\ [Next]_vars => UploadInOrder'
  BY NextKeeps
<1> QED BY <1>1, <1>2, PTL DEF Spec

\* A block is marked uploaded only after a text with the MD5 announced for it
\* was sent to a server.
THEOREM AcceptedIsForwarded == Spec => []AcceptedWasForwarded
<1>1. UploadInOrder => AcceptedWasForwarded
  BY DEF UploadInOrder, Accepted, AcceptedWasForwarded
<1> QED BY <1>1, UploadsStayInOrder, PTL

\* As long as the proxy took no block for a header, a client leaves out only
\* blocks accepted under the name of its file.
THEOREM SkippedIsAccepted == Spec => []SkippedWasAccepted
<1>1. UploadInOrder => SkippedWasAccepted
  BY DEF UploadInOrder, Skips, Known, SkippedWasAccepted
<1> QED BY <1>1, UploadsStayInOrder, PTL

\* A server has of a page no more than what was forwarded to it.
THEOREM StoredWasForwarded == Spec => []StoredIsForwarded
<1>1. UploadInOrder => StoredIsForwarded
  <2> SUFFICES ASSUME UploadInOrder, NEW s \in Servers, NEW p \in Pages
               PROVE  srv[s].saved[p] + Count(srv[s].in, Block(p))
                        <= IF Server[p] = s THEN Count(forwarded, p) ELSE 0
    BY DEF StoredIsForwarded
  <2> DEFINE a == srv[s].saved[p]
             b == Count(srv[s].buf, Block(p))
             c == Count(srv[s].in, Block(p))
             own == IF Server[p] = s THEN Count(forwarded, p) ELSE 0
  <2>1. a \in Nat /\ b \in Nat /\ c \in Nat
    <3>1. srv[s] \in Stores
      BY DEF UploadInOrder, Types
    <3> QED BY <3>1, ServerCounts
  <2>2. own \in Nat
    <3>1. forwarded \in Seq(Pages)
      BY DEF UploadInOrder, Types
    <3> QED BY <3>1, CountType
  <2>3. a + b + c <= own
    BY DEF UploadInOrder, Stored, Keeps
  <2> HIDE DEF a, b, c, own
  <2>4. a + c <= own
    BY <2>1, <2>2, <2>3
  <2> QED BY <2>4 DEF a, c, own
<1> QED BY <1>1, UploadsStayInOrder, PTL

-----------------------------------------------------------------------------
(* One client at a time.                                                    *)
Complete(m, f) == FileName[f] \in DOMAIN m /\ lsFileFinish(m[FileName[f]])

\* "success" is among the answers.
Praised(q) == \E i \in DOMAIN q : q[i] = Success

\* No block that could be taken for a header.
HeaderOnly(q, f) == \A i \in DOMAIN q : q[i].u = "rec" => q[i] = Header(f)

\* The records have the numbers of blocks of the files of their names.
Sized(m) == \A g \in Files : FileName[g] \in DOMAIN m => m[FileName[g]].blockNum = blockNum(g)

\* The only client uploads f.
Single(f, h) ==
  /\ Sized(h.map)
  /\ Praised(h.back) => Complete(h.map, f)
  /\ h.px.upStatu = 1 => h.back = <<>> /\ HeaderOnly(h.buf, f)
  /\ h.px.upStatu \in {2, 3} => h.px.g_FileName = FileName[f]

\* A complete file stays complete.
LEMMA CompleteGrows ==
  ASSUME NEW m, NEW n, NEW f, Grown(m, n), Complete(m, f)
  PROVE  Complete(n, f)
BY DEF Grown, Complete, lsFileFinish

\* An answer that is added.
LEMMA PraisedAppend ==
  ASSUME NEW q \in Seq(Answers), NEW r \in Answers, Praised(Append(q, r))
  PROVE  Praised(q) \/ r = Success
<1>1. \A i \in DOMAIN Append(q, r) : (i \in DOMAIN q /\ Append(q, r)[i] = q[i]) \/ Append(q, r)[i] = r
  OBVIOUS
<1> QED BY <1>1 DEF Praised

\* Numbers of blocks do not change.
LEMMA SizedGrows ==
  ASSUME NEW m, NEW n, Grown(m, n), DOMAIN n = DOMAIN m, Sized(m)
  PROVE  Sized(n)
BY DEF Grown, Sized

(* The record of a new name has the number of blocks in the header.         *)
LEMMA SizedAdd ==
  ASSUME NEW f \in Files, NEW m \in Maps, Sized(m), NEW n, n = FileName[f], NEW k, k = blockNum(f),
         NEW a, a = addFile(m, n, k)
  PROVE  Sized(a)
<1>1. n \in Names /\ k \in Nat
  BY Cutting DEF Names
<1>2. /\ DOMAIN a = DOMAIN m \cup {n} /\ a[n] = FileValue(k) /\ FileValue(k).blockNum = k
      /\ \A g \in DOMAIN m \ {n} : a[g] = m[g]
  <2>1. \A x \in Names, y \in Nat :
          /\ DOMAIN addFile(m, x, y) = DOMAIN m \cup {x}
          /\ \A g \in DOMAIN m \ {x} : addFile(m, x, y)[g] = m[g]
          /\ addFile(m, x, y)[x] = FileValue(y)
    BY MapTypes
  <2>2. FileValue(k).blockNum = k
    BY <1>1, ValueTypes
  <2> QED BY <1>1, <2>1, <2>2
<1>3. ASSUME NEW g \in Files, FileName[g] \in DOMAIN a PROVE a[FileName[g]].blockNum = blockNum(g)
  <2>1. CASE FileName[g] = n
    <3>1. Len(Content[g]) = Len(Content[f])
      BY <2>1, UploadAssumption
    <3>2. blockNum(g) = blockNum(f)
      BY <3>1, Cutting
    <3> QED BY <1>2, <2>1, <3>2
  <2>2. CASE FileName[g] # n
    BY <1>2, <1>3, <2>2 DEF Sized
  <2> QED BY <2>1, <2>2
<1> QED BY <1>3 DEF Sized

(* A pass over a header.                                                    *)
LEMMA HeaderSingle ==
  ASSUME NEW f \in Files, NEW h \in Handlers(f), h.px.Operate = "up", NEW u \in UnitsOf(f),
         u.u = "rec" => u = Header(f), Single(f, h), NEW d, d = initFileNumberStep(h, u)
  PROVE  Single(f, d)
<1>0. /\ d \in Handlers(f) /\ Grown(h.map, d.map)
      /\ HeaderNone(h, d) \/ HeaderNew(h, u, d) \/ HeaderKnown(h, u, d)
  BY HeaderStep, HeaderLeads DEF Leads
<1>1. h.map \in Maps /\ h.back \in Seq(Answers) /\ ACK \in Answers /\ Success \in Answers /\ ACK # Success
  BY HandlerParts DEF Answers, ACK, Success
<1>2. CASE HeaderNone(h, d)
  BY <1>2 DEF HeaderNone, Single
<1> DEFINE name == getFileName(u.text)
<1>3. u.u = "rec" => name = FileName[f] /\ u.num = blockNum(f)
  <2> SUFFICES ASSUME u.u = "rec" PROVE name = FileName[f] /\ u.num = blockNum(f)
    OBVIOUS
  <2>1. u.text = f /\ u.num = blockNum(f)
    BY DEF Header, Rec
  <2> QED BY <2>1 DEF getFileName
<1>4. CASE HeaderNew(h, u, d)
  <2>1. /\ u.u = "rec" /\ name \notin DOMAIN h.map /\ d.map = addFile(h.map, name, u.num)
        /\ d.px.upStatu = 2 /\ d.px.g_FileName = name /\ d.back = Append(h.back, ACK)
    BY <1>4 DEF HeaderNew
  <2>2. Sized(d.map)
    <3> DEFINE n == name
               k == u.num
               a == d.map
               m == h.map
    <3>1. m \in Maps /\ Sized(m) /\ n = FileName[f] /\ k = blockNum(f) /\ a = addFile(m, n, k)
      BY <1>1, <1>3, <2>1 DEF Single
    <3> HIDE DEF n, k, a, m
    <3>2. Sized(a)
      BY <3>1, SizedAdd
    <3> QED BY <3>2 DEF a
  <2>3. Praised(d.back) => Complete(d.map, f)
    BY <1>0, <1>1, <2>1, PraisedAppend, CompleteGrows DEF Single
  <2> QED BY <1>3, <2>1, <2>2, <2>3 DEF Single
<1>5. CASE HeaderKnown(h, u, d)
  <2>1. /\ u.u = "rec" /\ name \in DOMAIN h.map /\ d.map = h.map
        /\ d.px.upStatu = 3 /\ d.px.g_FileName = name
        /\ \/ lsFileFinish(h.map[name]) /\ d.back = Append(h.back, Success)
           \/ d.back = h.back
           \/ d.back = Append(h.back, Ids(h.map[name]))
    BY <1>5 DEF HeaderKnown
  <2> DEFINE a == Ids(h.map[name])
  <2>2. a \in Answers /\ a # Success
    <3>1. h.map[name] \in Values
      BY <1>1, <2>1, MapTypes
    <3>2. h.map[name].uploadId \in SUBSET Nat
      BY <3>1, ValueTypes
    <3> QED BY <3>2 DEF Ids, Answers, Success
  <2>3. \/ lsFileFinish(h.map[name]) /\ d.back = Append(h.back, Success)
        \/ d.back = h.back
        \/ d.back = Append(h.back, a)
    BY <2>1
  <2> HIDE DEF a
  <2>4. Praised(d.back) => Complete(h.map, f)
    <3>1. CASE lsFileFinish(h.map[name])
      BY <1>3, <2>1, <3>1 DEF Complete
    <3>2. CASE d.back = h.back
      BY <3>2 DEF Single
    <3>3. CASE d.back = Append(h.back, a)
      BY <1>1, <2>2, <3>3, PraisedAppend DEF Single
    <3> QED BY <2>3, <3>1, <3>2, <3>3
  <2> QED BY <1>3, <2>1, <2>4 DEF Single
<1> QED BY <1>0, <1>2, <1>4, <1>5

(* A pass over a block: until its loop ends the phase is 3.                 *)
Going(h) == h.end \/ h.px.upStatu = 3

\* Such a pass of the only client.
LEMMA BlockSingle ==
  ASSUME NEW f \in Files, NEW h \in Handlers(f), InFile(h), h.px.Operate = "up", h.px.upStatu \in {3, 4},
         Going(h), NEW u \in UnitsOf(f), Single(f, h), NEW d, d = sendBlockStep(h, u)
  PROVE  Going(d) /\ Single(f, d)
<1> DEFINE g == h.px.g_FileName
<1>0. /\ d \in Handlers(f) /\ InFile(d) /\ Grown(h.map, d.map)
      /\ BlockNone(h, d) \/ (~h.end /\ BlockOther(h, u, d)) \/ (~h.end /\ BlockTaken(h, u, d))
  BY BlockStep, BlockLeads DEF Leads
<1>1. h.map \in Maps /\ h.back \in Seq(Answers) /\ Success \in Answers
  BY HandlerParts DEF Answers
<1>2. CASE BlockNone(h, d)
  BY <1>2 DEF BlockNone, Single, Going
<1>3. CASE ~h.end /\ (BlockOther(h, u, d) \/ BlockTaken(h, u, d))
  <2>1. h.px.upStatu = 3 /\ g = FileName[f] /\ g \in DOMAIN h.map
    BY <1>3 DEF Going, Single, InFile
  <2>2. DOMAIN d.map = DOMAIN h.map /\ BlockLast(h, d)
    BY <1>1, <1>3 DEF BlockOther, BlockTaken
  <2>3. Sized(d.map)
    BY <1>0, <2>2, SizedGrows DEF Single
  <2>4. CASE lsFileFinish(d.map[g])
    <3>1. d.px.upStatu = 4 /\ d.end
      BY <2>2, <2>4 DEF BlockLast
    <3>2. Complete(d.map, f)
      BY <2>1, <2>2, <2>4 DEF Complete
    <3> QED BY <2>3, <3>1, <3>2 DEF Single, Going
  <2>5. CASE ~lsFileFinish(d.map[g])
    <3>1. d.back = h.back /\ d.px = h.px
      BY <2>2, <2>5 DEF BlockLast
    <3>2. Praised(d.back) => Complete(d.map, f)
      BY <1>0, <3>1, CompleteGrows DEF Single
    <3> QED BY <2>1, <2>3, <3>1, <3>2 DEF Single, Going
  <2> QED BY <2>4, <2>5
<1> QED BY <1>0, <1>2, <1>3

\* initFileNumber, all passes.
LEMMA NumbersSingle ==
  ASSUME NEW f \in Files, NEW h \in Handlers(f), h.px.Operate = "up", HeaderOnly(h.buf, f), Single(f, h)
  PROVE  Single(f, initFileNumber(h))
<1> DEFINE S == {d \in Handlers(f) : d.px.Operate = "up"}
           R == {d \in S : Single(f, d)}
           q == h.buf
           n == Len(q)
           T == [k \in 0 .. n |-> R]
<1>1. /\ q \in Seq(UnitsOf(f)) /\ n \in Nat /\ DOMAIN q = 1 .. n
      /\ \A k \in 1 .. n : q[k] \in UnitsOf(f) /\ (q[k].u = "rec" => q[k] = Header(f))
  BY HandlerParts DEF HeaderOnly
<1>2. \A k \in 1 .. n, d \in S : initFileNumberStep(d, q[k]) \in S
  <2> SUFFICES ASSUME NEW k \in 1 .. n, NEW d \in S PROVE initFileNumberStep(d, q[k]) \in S
    OBVIOUS
  <2> DEFINE u == q[k]
             e == initFileNumberStep(d, u)
  <2>1. u \in UnitsOf(f) /\ e = initFileNumberStep(d, u)
    BY <1>1
  <2> HIDE DEF u, e
  <2>2. e \in S
    BY <2>1, HeaderLeads
  <2> QED BY <2>2 DEF e, u
<1>3. \A k \in 1 .. n, d \in S : d \in R => initFileNumberStep(d, q[k]) \in R
  <2> SUFFICES ASSUME NEW k \in 1 .. n, NEW d \in R PROVE initFileNumberStep(d, q[k]) \in R
    OBVIOUS
  <2> DEFINE u == q[k]
             e == initFileNumberStep(d, u)
  <2>1. u \in UnitsOf(f) /\ (u.u = "rec" => u = Header(f)) /\ e = initFileNumberStep(d, u)
    BY <1>1
  <2> HIDE DEF u, e
  <2>2. e \in S /\ Single(f, e)
    BY <2>1, HeaderLeads, HeaderSingle
  <2> QED BY <2>2 DEF e, u
<1>4. /\ T \in [0 .. n -> SUBSET S] /\ h \in T[0]
      /\ \A k \in 1 .. n, d \in S : d \in T[k - 1] => initFileNumberStep(d, q[k]) \in T[k]
  <2>1. T[0] = R /\ \A k \in 1 .. n : T[k - 1] = R /\ T[k] = R
    BY <1>1
  <2>2. T \in [0 .. n -> SUBSET S] /\ h \in R
    OBVIOUS
  <2> HIDE DEF T, R
  <2> QED BY <1>3, <2>1, <2>2
<1>5. FoldLeft(initFileNumberStep, h, q) \in T[n]
  <2>1. h \in S
    OBVIOUS
  <2> HIDE DEF S, T, q, n
  <2> QED BY <1>1, <1>2, <1>4, <2>1, LoopOfHeaders
<1>6. T[n] = R
  BY <1>1
<1> QED BY <1>5, <1>6 DEF initFileNumber

\* sendBlock, all passes.
LEMMA BlocksSingle ==
  ASSUME NEW f \in Files, NEW h \in Handlers(f), h.px.Operate = "up", h.px.upStatu = 3, InFile(h), Single(f, h)
  PROVE  Single(f, sendBlock(h))
<1> DEFINE S == {d \in Handlers(f) : InFile(d) /\ d.px.Operate = "up" /\ d.px.upStatu \in {3, 4}}
           R == {d \in S : Going(d) /\ Single(f, d)}
           q == h.buf
           n == Len(q)
           T == [k \in 0 .. n |-> R]
<1>1. q \in Seq(UnitsOf(f)) /\ n \in Nat /\ DOMAIN q = 1 .. n /\ \A k \in 1 .. n : q[k] \in UnitsOf(f)
  BY HandlerParts
<1>2. \A k \in 1 .. n, d \in S : sendBlockStep(d, q[k]) \in S
  <2> SUFFICES ASSUME NEW k \in 1 .. n, NEW d \in S PROVE sendBlockStep(d, q[k]) \in S
    OBVIOUS
  <2> DEFINE u == q[k]
             e == sendBlockStep(d, u)
  <2>1. u \in UnitsOf(f) /\ e = sendBlockStep(d, u)
    BY <1>1
  <2> HIDE DEF u, e
  <2>2. e \in S
    BY <2>1, BlockLeads
  <2> QED BY <2>2 DEF e, u
<1>3. \A k \in 1 .. n, d \in S : d \in R => sendBlockStep(d, q[k]) \in R
  <2> SUFFICES ASSUME NEW k \in 1 .. n, NEW d \in R PROVE sendBlockStep(d, q[k]) \in R
    OBVIOUS
  <2> DEFINE u == q[k]
             e == sendBlockStep(d, u)
  <2>1. u \in UnitsOf(f) /\ e = sendBlockStep(d, u)
    BY <1>1
  <2> HIDE DEF u, e
  <2>2. e \in S
    BY <2>1, BlockLeads
  <2>3. Going(e) /\ Single(f, e)
    BY <2>1, BlockSingle
  <2> QED BY <2>2, <2>3 DEF e, u
<1>4. /\ T \in [0 .. n -> SUBSET S] /\ h \in T[0]
      /\ \A k \in 1 .. n, d \in S : d \in T[k - 1] => sendBlockStep(d, q[k]) \in T[k]
  <2>1. T[0] = R /\ \A k \in 1 .. n : T[k - 1] = R /\ T[k] = R
    BY <1>1
  <2>2. T \in [0 .. n -> SUBSET S] /\ h \in R
    BY DEF Going
  <2> HIDE DEF T, R
  <2> QED BY <1>3, <2>1, <2>2
<1>5. FoldLeft(sendBlockStep, h, q) \in T[n]
  <2>1. h \in S
    OBVIOUS
  <2> HIDE DEF S, T, q, n
  <2> QED BY <1>1, <1>2, <1>4, <2>1, LoopOfBlocks
<1>6. T[n] = R
  BY <1>1
<1> QED BY <1>5, <1>6 DEF sendBlock

(* The announced MD5s leave the phase, the file and the answers as they are *)
(* to be.                                                                   *)
LEMMA SumsSingle ==
  ASSUME NEW f \in Files, NEW h \in Handlers(f), h.buf # <<>>, h.px.upStatu = 2, Phased(h.px, h.map),
         Single(f, h), NEW d \in initFileMD5(h)
  PROVE  Single(f, d)
<1> DEFINE g == h.px.g_FileName
           n == h.map[g].blockNum
<1>1. /\ g = h.px.g_FileName /\ g \in DOMAIN h.map /\ h.map[g].uploadId = {} /\ n = h.map[g].blockNum
      /\ g = FileName[f] /\ h.px \in Globals /\ h.map \in Maps
  BY HandlerParts DEF Phased, Single
<1>2. \/ d = h
      \/ /\ d \in Handlers(f) /\ d.back = h.back /\ d.px = [h.px EXCEPT !.upStatu = 3]
         /\ \/ d.map = h.map
            \/ \E md5 \in [1 .. n -> Sums] : d.map = Announced(h.map, g, md5)
  <2> DEFINE k == g
             l == n
  <2>1. k = h.px.g_FileName /\ k \in DOMAIN h.map /\ h.map[k].uploadId = {} /\ l = h.map[k].blockNum
    BY <1>1
  <2> HIDE DEF k, l
  <2>2. \/ d = h
        \/ /\ d \in Handlers(f) /\ d.back = h.back /\ d.in = h.in /\ d.forwarded = h.forwarded
           /\ d.px = [h.px EXCEPT !.upStatu = 3]
           /\ \/ d.map = h.map
              \/ \E md5 \in [1 .. l -> Sums] : d.map = Announced(h.map, k, md5)
    BY <2>1, MD5Step
  <2> QED BY <2>2 DEF k, l
<1>3. CASE d # h
  <2>1. d.px.upStatu = 3 /\ d.px.g_FileName = g
    BY <1>1, <1>2, <1>3 DEF Globals
  <2>2. Grown(h.map, d.map) /\ DOMAIN d.map = DOMAIN h.map
    <3>1. CASE d.map = h.map
      BY <3>1 DEF Grown
    <3>2. CASE d.map # h.map
      <4>1. PICK md5 \in [1 .. n -> Sums] : d.map = Announced(h.map, g, md5)
        BY <1>2, <1>3, <3>2
      <4> DEFINE m == h.map
                 a == d.map
                 k == g
      <4>2. /\ m \in Maps /\ k \in DOMAIN m /\ md5 \in [1 .. m[k].blockNum -> Sums]
            /\ m[k].uploadId = {} /\ a = Announced(m, k, md5)
        BY <1>1, <4>1
      <4> HIDE DEF m, a, k
      <4>3. Grown(m, a) /\ DOMAIN a = DOMAIN m
        BY <4>2, SetGrows
      <4> QED BY <4>3 DEF m, a
    <3> QED BY <3>1, <3>2
  <2>3. Sized(d.map)
    BY <2>2, SizedGrows DEF Single
  <2>4. Praised(d.back) => Complete(d.map, f)
    BY <1>2, <1>3, <2>2, CompleteGrows DEF Single
  <2> QED BY <1>1, <2>1, <2>3, <2>4 DEF Single
<1> QED BY <1>3

\* Whatever the phase.
LEMMA MessageSingle ==
  ASSUME NEW f \in Files, NEW h \in Handlers(f), h.buf # <<>>, ~h.end, Phased(h.px, h.map), Single(f, h),
         NEW d \in onMessage(h)
  PROVE  Single(f, d)
<1>0. h.px \in Globals /\ h.buf \in Seq(UnitsOf(f))
  BY HandlerParts
<1>1. CASE h.px.Operate = "sw"
  <2>1. d = switchOperate(h)
    BY <1>1 DEF onMessage
  <2>2. /\ d.map = h.map /\ d.back = h.back
        /\ d.px.upStatu = h.px.upStatu /\ d.px.g_FileName = h.px.g_FileName
        /\ d.buf = Tail(h.buf) \/ d.buf = <<Lost>>
    BY <2>1, SwitchStep
  <2>3. HeaderOnly(h.buf, f) => HeaderOnly(d.buf, f)
    <3>1. ASSUME HeaderOnly(h.buf, f) PROVE HeaderOnly(Tail(h.buf), f)
      <4> DEFINE b == h.buf
      <4>1. b \in Seq(UnitsOf(f)) /\ b # <<>> /\ HeaderOnly(b, f)
        BY <1>0, <3>1
      <4> HIDE DEF b
      <4>2. \A i \in DOMAIN Tail(b) : i + 1 \in DOMAIN b /\ Tail(b)[i] = b[i + 1]
        BY <4>1
      <4>3. HeaderOnly(Tail(b), f)
        BY <4>1, <4>2 DEF HeaderOnly
      <4> QED BY <4>3 DEF b
    <3>2. HeaderOnly(<<Lost>>, f)
      <4>1. \A i \in DOMAIN <<Lost>> : <<Lost>>[i] = Lost
        OBVIOUS
      <4>2. Lost.u # "rec"
        BY DEF Lost
      <4> QED BY <4>1, <4>2 DEF HeaderOnly
    <3> QED BY <2>2, <3>1, <3>2
  <2> QED BY <2>2, <2>3 DEF Single
<1>2. CASE h.px.Operate # "sw"
  <2>0. h.px.Operate = "up" /\ h.px.upStatu \in 1 .. 4
    BY <1>0, <1>2 DEF Globals
  <2>1. CASE h.px.upStatu = 1
    <3>1. d = initFileNumber(h)
      BY <1>2, <2>1 DEF onMessage
    <3> QED BY <2>0, <2>1, <3>1, NumbersSingle DEF Single
  <2>2. CASE h.px.upStatu = 2
    <3>1. d \in initFileMD5(h)
      BY <1>2, <2>2 DEF onMessage
    <3> QED BY <2>2, <3>1, SumsSingle
  <2>3. CASE h.px.upStatu = 3
    <3>1. d = sendBlock(h)
      BY <1>2, <2>3 DEF onMessage
    <3>2. InFile(h)
      BY <2>3 DEF Phased, InFile
    <3> QED BY <2>0, <2>3, <3>1, <3>2, BlocksSingle
  <2>4. CASE h.px.upStatu = 4
    BY <1>2, <2>4 DEF onMessage
  <2> QED BY <2>0, <2>1, <2>2, <2>3, <2>4
<1> QED BY <1>1, <1>2

\* No callback goes back to the first phase.
LEMMA StaysFirst ==
  ASSUME NEW f \in Files, NEW h \in Handlers(f), h.buf # <<>>, Phased(h.px, h.map),
         NEW d \in onMessage(h), d.px.upStatu = 1
  PROVE  h.px.upStatu = 1
<1>0. h.px \in Globals
  BY HandlerParts
<1>1. CASE h.px.Operate = "sw"
  BY <1>1 DEF Phased
<1>2. CASE h.px.Operate # "sw"
  <2>0. h.px.Operate = "up" /\ h.px.upStatu \in 1 .. 4
    BY <1>0, <1>2 DEF Globals
  <2>1. CASE h.px.upStatu = 2
    <3>1. d \in initFileMD5(h)
      BY <1>2, <2>1 DEF onMessage
    <3> DEFINE g == h.px.g_FileName
               n == h.map[g].blockNum
    <3>2. g = h.px.g_FileName /\ g \in DOMAIN h.map /\ h.map[g].uploadId = {} /\ n = h.map[g].blockNum
      BY <2>1 DEF Phased
    <3> HIDE DEF g, n
    <3>3. \/ d = h
          \/ /\ d \in Handlers(f) /\ d.back = h.back /\ d.in = h.in /\ d.forwarded = h.forwarded
             /\ d.px = [h.px EXCEPT !.upStatu = 3]
             /\ \/ d.map = h.map
                \/ \E md5 \in [1 .. n -> Sums] : d.map = Announced(h.map, g, md5)
      BY <3>1, <3>2, MD5Step
    <3>4. d = h \/ d.px = [h.px EXCEPT !.upStatu = 3]
      BY <3>3
    <3>5. CASE d # h
      <4>1. d.px.upStatu = 3
        BY <1>0, <3>4, <3>5 DEF Globals
      <4> QED BY <4>1
    <3> QED BY <3>5
  <2>2. CASE h.px.upStatu = 3
    <3>1. d = sendBlock(h)
      BY <1>2, <2>2 DEF onMessage
    <3>2. InFile(h)
      BY <2>2 DEF Phased, InFile
    <3>3. d.px.upStatu \in {3, 4}
      BY <2>0, <2>2, <3>1, <3>2, BlocksLead
    <3> QED BY <3>3
  <2>3. CASE h.px.upStatu = 4
    BY <1>2, <2>3 DEF onMessage
  <2> QED BY <2>0, <2>1, <2>2, <2>3
<1> QED BY <1>1, <1>2

-----------------------------------------------------------------------------
(* The state, as long as the clients were one at a time.                    *)
Alone(x, w, b, r, p, m) ==
  /\ x.st = "done" => Complete(m, x.file)
  /\ Praised(r) => Complete(m, x.file)
  /\ x.open =>
       /\ p.upStatu = 1 => /\ r = <<>> /\ x.st \in {"asks", "killed"}
                           /\ HeaderOnly(w, x.file) /\ HeaderOnly(b, x.file)
       /\ p.upStatu \in {2, 3} => p.g_FileName = FileName[x.file]

OneOpen == \A c, d \in Clients : cl[c].open /\ cl[d].open => c = d

EachAlone == \A c \in Clients : Alone(cl[c], wire[c], buf[c], back[c], px, FileMap)

LoneInOrder == order # "overlapped" => Sized(FileMap) /\ OneOpen /\ EachAlone

\* A step of the only client that is connected.
LEMMA LoneKeeps ==
  ASSUME Sized(FileMap), OneOpen, EachAlone, NEW c \in Clients,
         Sized(FileMap'), Grown(FileMap, FileMap'),
         Alone(cl'[c], wire'[c], buf'[c], back'[c], px', FileMap'),
         \A d \in Clients \ {c} : /\ ~cl[d].open /\ cl'[d] = cl[d] /\ wire'[d] = wire[d]
                                  /\ buf'[d] = buf[d] /\ back'[d] = back[d]
  PROVE  LoneInOrder'
<1>1. OneOpen'
  BY DEF OneOpen
<1>2. EachAlone'
  <2> SUFFICES ASSUME NEW d \in Clients, d # c
               PROVE  Alone(cl'[d], wire'[d], buf'[d], back'[d], px', FileMap')
    BY DEF EachAlone
  <2>1. Alone(cl[d], wire[d], buf[d], back[d], px, FileMap)
    BY DEF EachAlone
  <2>2. /\ cl[d].st = "done" => Complete(FileMap', cl[d].file)
        /\ Praised(back[d]) => Complete(FileMap', cl[d].file)
    BY <2>1, CompleteGrows DEF Alone
  <2> QED BY <2>2 DEF Alone
<1> QED BY <1>1, <1>2 DEF LoneInOrder

\* Only one is connected.
LEMMA OthersClosed ==
  ASSUME OneOpen, NEW c \in Clients, cl[c].open
  PROVE  \A d \in Clients \ {c} : ~cl[d].open
BY DEF OneOpen

\* Once overlapped, overlapped.
LEMMA ReadsOrder ==
  ASSUME NEW k, Reads(k) # "overlapped"
  PROVE  order # "overlapped"
BY DEF Reads

\* Records that stay.
LEMMA SameGrown ==
  ASSUME FileMap \in Maps
  PROVE  Grown(FileMap, FileMap)
BY DEF Grown

\* The elements of a part are those of the whole.
LEMMA HeaderOnlyPart ==
  ASSUME NEW f \in Files, NEW q \in Seq(UnitsOf(f)), HeaderOnly(q, f), NEW k \in 0 .. Len(q)
  PROVE  HeaderOnly(SubSeq(q, 1, k), f) /\ HeaderOnly(SubSeq(q, k + 1, Len(q)), f)
<1> DEFINE a == SubSeq(q, 1, k)
           b == SubSeq(q, k + 1, Len(q))
<1>1. \A i \in DOMAIN a : i \in DOMAIN q /\ a[i] = q[i]
  OBVIOUS
<1>2. \A i \in DOMAIN b : i + k \in DOMAIN q /\ b[i] = q[i + k]
  OBVIOUS
<1> QED BY <1>1, <1>2 DEF HeaderOnly

\* Those of a concatenation are in one of its parts.
LEMMA HeaderOnlyConcat ==
  ASSUME NEW f \in Files, NEW q \in Seq(UnitsOf(f)), NEW r \in Seq(UnitsOf(f)), HeaderOnly(q, f), HeaderOnly(r, f)
  PROVE  HeaderOnly(q \o r, f)
<1> DEFINE a == q \o r
<1>1. \A i \in DOMAIN a : (i \in DOMAIN q /\ a[i] = q[i]) \/ (i - Len(q) \in DOMAIN r /\ a[i] = r[i - Len(q)])
  OBVIOUS
<1> QED BY <1>1 DEF HeaderOnly

\* A callback: it may say "success" only of a complete file.
LEMMA ReadAlone ==
  ASSUME UploadInOrder, LoneInOrder, NEW c \in Clients, Read(c)
  PROVE  LoneInOrder'
<1> SUFFICES ASSUME order' # "overlapped" PROVE LoneInOrder'
  BY DEF LoneInOrder
<1> DEFINE f == cl[c].file
<1>1. Types /\ AllFit /\ Phased(px, FileMap)
  BY DEF UploadInOrder
<1>2. /\ cl[c] \in ClientRecs /\ f \in Files
      /\ wire[c] \in Seq(UnitsOf(f)) /\ buf[c] \in Seq(UnitsOf(f)) /\ back[c] \in Seq(Answers)
  BY <1>1, ClientParts
<1>3. cl[c].open /\ UNCHANGED cl
  BY DEF Read
<1>4. PICK k \in 1 .. Len(wire[c]) :
        /\ wire' = [wire EXCEPT ![c] = SubSeq(@, k + 1, Len(@))]
        /\ \E h \in onMessage([Callback(c) EXCEPT !.buf = @ \o SubSeq(wire[c], 1, k)]) : Commit(c, h)
        /\ order' = Reads(k)
  BY Zenon DEF Read
<1>5. Sized(FileMap) /\ OneOpen /\ EachAlone
  BY <1>4, ReadsOrder DEF LoneInOrder
<1>6. Alone(cl[c], wire[c], buf[c], back[c], px, FileMap)
  BY <1>5 DEF EachAlone
<1>7. PICK o : o = [Callback(c) EXCEPT !.buf = @ \o SubSeq(wire[c], 1, k)]
  OBVIOUS
<1>8. PICK h \in onMessage(o) : Commit(c, h)
  BY <1>4, <1>7
<1> DEFINE b == buf[c] \o SubSeq(wire[c], 1, k)
           r == SubSeq(wire[c], k + 1, Len(wire[c]))
<1>9. /\ b \in Seq(UnitsOf(f)) /\ b # <<>>
      /\ HeaderOnly(wire[c], f) /\ HeaderOnly(buf[c], f) => HeaderOnly(b, f) /\ HeaderOnly(r, f)
  <2> DEFINE S == Seq(UnitsOf(f))
             w == wire[c]
             z == buf[c]
             y == SubSeq(w, 1, k)
             g == f
  <2>1. w \in S /\ z \in S /\ k \in 1 .. Len(w) /\ S = Seq(UnitsOf(g)) /\ g \in Files
    BY <1>2
  <2> HIDE DEF S, w, z, g
  <2>2. y \in S /\ Len(y) = k
    BY <2>1
  <2>3. z \o y \in S /\ Len(z \o y) = Len(z) + k /\ Len(z) \in Nat
    BY <2>1, <2>2, ConcatProperties
  <2>4. z \o y # <<>>
    BY <2>1, <2>3
  <2>5. ASSUME HeaderOnly(w, g), HeaderOnly(z, g)
        PROVE  HeaderOnly(z \o y, g) /\ HeaderOnly(SubSeq(w, k + 1, Len(w)), g)
    <3>1. HeaderOnly(y, g) /\ HeaderOnly(SubSeq(w, k + 1, Len(w)), g)
      BY <2>1, <2>5, HeaderOnlyPart
    <3> HIDE DEF y
    <3> QED BY <2>1, <2>2, <2>5, <3>1, HeaderOnlyConcat
  <2> QED BY <2>3, <2>4, <2>5 DEF S, w, z, y, g
<1>10. o = Holding(c, b)
  <2>1. Callback(c).buf = buf[c]
    BY DEF Callback
  <2> QED BY <1>7, <2>1 DEF Holding
<1> HIDE DEF b, r
<1>11. /\ o \in Handlers(f) /\ o.px = px /\ o.map = FileMap /\ o.buf = b /\ o.back = back[c] /\ ~o.end
  <2>1. b \in Seq(UnitsOf(f))
    BY <1>9
  <2>2. /\ o \in Handlers(f) /\ o.px = px /\ o.map = FileMap /\ o.buf = b /\ o.back = back[c]
        /\ o.in = [s \in Servers |-> srv[s].in] /\ o.forwarded = forwarded /\ ~o.end
    BY <1>1, <2>1, <1>10, CallbackType
  <2> QED BY <2>2
<1>12. h \in Handlers(f) /\ Leads(f, o, h)
  BY <1>1, <1>2, <1>8, <1>9, <1>11, MessageLeads
<1>13. Single(f, o)
  BY <1>3, <1>5, <1>6, <1>9, <1>11 DEF Single, Alone
<1>14. Single(f, h)
  BY <1>1, <1>2, <1>8, <1>9, <1>11, <1>13, MessageSingle
<1>15. /\ SameGlobals(px', h) /\ FileMap' = h.map /\ buf' = [buf EXCEPT ![c] = h.buf]
       /\ back' = [back EXCEPT ![c] = h.back]
  BY <1>1, <1>2, <1>8, <1>12, Committed
<1>16. wire' = [wire EXCEPT ![c] = r]
  BY <1>4 DEF r
<1>17. /\ cl'[c] = cl[c] /\ wire'[c] = r /\ buf'[c] = h.buf /\ back'[c] = h.back
       /\ \A d \in Clients \ {c} : /\ ~cl[d].open /\ cl'[d] = cl[d] /\ wire'[d] = wire[d]
                                   /\ buf'[d] = buf[d] /\ back'[d] = back[d]
  BY <1>1, <1>3, <1>5, <1>15, <1>16, OthersClosed DEF Types
<1>18. Grown(FileMap, FileMap') /\ Sized(FileMap')
  BY <1>11, <1>12, <1>14, <1>15 DEF Leads, Single
<1>19. px'.upStatu = 1 => px.upStatu = 1
  <2> SUFFICES ASSUME h.px.upStatu = 1 PROVE o.px.upStatu = 1
    BY <1>11, <1>15 DEF SameGlobals
  <2> QED BY <1>1, <1>2, <1>8, <1>9, <1>11, StaysFirst
<1>20. Alone(cl'[c], wire'[c], buf'[c], back'[c], px', FileMap')
  <2>1. /\ cl[c].st = "done" => Complete(FileMap', f)
        /\ Praised(h.back) => Complete(FileMap', f)
    BY <1>6, <1>14, <1>15, <1>18, CompleteGrows DEF Alone, Single
  <2>2. px'.upStatu = 1 => /\ h.back = <<>> /\ cl[c].st \in {"asks", "killed"}
                           /\ HeaderOnly(r, f) /\ HeaderOnly(h.buf, f)
    BY <1>3, <1>6, <1>9, <1>14, <1>15, <1>19 DEF Alone, Single, SameGlobals
  <2>3. px'.upStatu \in {2, 3} => px'.g_FileName = FileName[f]
    BY <1>14, <1>15 DEF Single, SameGlobals
  <2> QED BY <1>17, <2>1, <2>2, <2>3 DEF Alone
<1> QED BY <1>5, <1>17, <1>18, <1>20, LoneKeeps

\* A step that is not one of the callbacks: the records stay.
LEMMA LoneOutside ==
  ASSUME Types, Sized(FileMap), OneOpen, EachAlone, NEW c \in Clients, FileMap' = FileMap,
         Alone(cl'[c], wire'[c], buf'[c], back'[c], px', FileMap),
         \A d \in Clients \ {c} : /\ ~cl[d].open /\ cl'[d] = cl[d] /\ wire'[d] = wire[d]
                                  /\ buf'[d] = buf[d] /\ back'[d] = back[d]
  PROVE  LoneInOrder'
<1>1. Grown(FileMap, FileMap')
  BY SameGrown DEF Types
<1>2. Sized(FileMap') /\ Alone(cl'[c], wire'[c], buf'[c], back'[c], px', FileMap')
  OBVIOUS
<1> QED BY <1>1, <1>2, LoneKeeps

\* A part of a header is not answered.
LEMMA ReadPartAlone ==
  ASSUME UploadInOrder, LoneInOrder, NEW c \in Clients, ReadPart(c)
  PROVE  LoneInOrder'
<1> SUFFICES ASSUME order' # "overlapped" PROVE LoneInOrder'
  BY DEF LoneInOrder
<1> DEFINE f == cl[c].file
<1>1. Types /\ AllFit
  BY DEF UploadInOrder
<1>2. /\ cl[c] \in ClientRecs /\ f \in Files
      /\ buf[c] \in Seq(UnitsOf(f)) /\ back[c] \in Seq(Answers)
  BY <1>1, ClientParts
<1>3. /\ Commit(c, [Callback(c) EXCEPT !.in = tell(@, Up)])
      /\ cl' = [cl EXCEPT ![c].part = TRUE] /\ order' = Reads(2) /\ UNCHANGED wire
      /\ cl[c].open
  BY DEF ReadPart
<1>4. Sized(FileMap) /\ OneOpen /\ EachAlone
  BY <1>3, ReadsOrder DEF LoneInOrder
<1> DEFINE b == buf[c]
<1>5. PICK o : o = Callback(c)
  OBVIOUS
<1>6. o = Holding(c, b)
  BY <1>5 DEF Callback, Holding
<1> HIDE DEF b
<1>7. /\ o \in Handlers(f) /\ o.px = px /\ o.map = FileMap /\ o.buf = b /\ o.back = back[c]
      /\ o.in = [s \in Servers |-> srv[s].in] /\ o.forwarded = forwarded /\ ~o.end
  BY <1>1, <1>2, <1>6, CallbackType DEF b
<1> DEFINE i == tell(o.in, Up)
<1>8. PICK h : h = [o EXCEPT !.in = i]
  OBVIOUS
<1>9. i \in [Servers -> Seq(ServerUnits)]
  BY <1>7, HandlerParts, TellType
<1>10. Commit(c, h)
  BY <1>3, <1>5, <1>8
<1> HIDE DEF i
<1>11. h \in Handlers(f) /\ h.px = o.px /\ h.map = o.map /\ h.back = o.back /\ h.buf = o.buf
  BY <1>7, <1>8, <1>9 DEF Handlers
<1>12. /\ SameGlobals(px', h) /\ FileMap' = h.map /\ buf' = [buf EXCEPT ![c] = h.buf]
       /\ back' = [back EXCEPT ![c] = h.back]
  BY <1>1, <1>2, <1>10, <1>11, Committed
<1>13. /\ cl'[c].file = f /\ cl'[c].st = cl[c].st /\ cl'[c].open = cl[c].open
       /\ \A d \in Clients \ {c} : cl'[d] = cl[d]
  <2> DEFINE x == cl[c]
             y == cl'[c]
             t == TRUE
  <2>1. x \in ClientRecs /\ y = [x EXCEPT !.part = t]
    BY <1>1, <1>2, <1>3 DEF Types
  <2>2. \A d \in Clients \ {c} : cl'[d] = cl[d]
    BY <1>1, <1>3 DEF Types
  <2>3. f = x.file
    OBVIOUS
  <2> HIDE DEF x, y, t, f
  <2>4. y.file = x.file /\ y.st = x.st /\ y.open = x.open
    BY <2>1 DEF ClientRecs
  <2> QED BY <2>2, <2>3, <2>4 DEF x, y
<1>14. /\ wire'[c] = wire[c] /\ buf'[c] = buf[c] /\ back'[c] = back[c]
       /\ \A d \in Clients \ {c} : wire'[d] = wire[d] /\ buf'[d] = buf[d] /\ back'[d] = back[d]
  BY <1>1, <1>3, <1>7, <1>11, <1>12 DEF Types, b
<1>15. FileMap' = FileMap /\ px'.upStatu = px.upStatu /\ px'.g_FileName = px.g_FileName
  BY <1>7, <1>11, <1>12 DEF SameGlobals
<1>16. Alone(cl'[c], wire'[c], buf'[c], back'[c], px', FileMap)
  <2>1. Alone(cl[c], wire[c], buf[c], back[c], px, FileMap)
    BY <1>4 DEF EachAlone
  <2> QED BY <1>13, <1>14, <1>15, <2>1 DEF Alone
<1>17. \A d \in Clients \ {c} : ~cl[d].open
  BY <1>3, <1>4, OthersClosed
<1> QED BY <1>1, <1>4, <1>13, <1>14, <1>15, <1>16, <1>17, LoneOutside

\* Nobody is connected any more.
LEMMA DownAlone ==
  ASSUME UploadInOrder, LoneInOrder, NEW c \in Clients, Down(c)
  PROVE  LoneInOrder'
<1> SUFFICES ASSUME order' # "overlapped" PROVE LoneInOrder'
  BY DEF LoneInOrder
<1>1. Types
  BY DEF UploadInOrder
<1>2. /\ cl[c].open
      /\ cl' = [cl EXCEPT ![c].open = FALSE, ![c].part = FALSE]
      /\ buf' = [buf EXCEPT ![c] = <<>>] /\ back' = [back EXCEPT ![c] = <<>>]
      /\ UNCHANGED <<wire, px, FileMap, srv, forwarded, order>>
  BY DEF Down
<1>3. Sized(FileMap) /\ OneOpen /\ EachAlone
  BY <1>2 DEF LoneInOrder
<1> DEFINE x == cl[c]
           no == FALSE
           y == [[x EXCEPT !.open = no] EXCEPT !.part = no]
<1>4. cl' = [cl EXCEPT ![c] = y]
  BY <1>1, <1>2 DEF Types
<1>5. x \in ClientRecs /\ ~no
  BY <1>1 DEF Types
<1> HIDE DEF x, no
<1>6. y.file = x.file /\ y.st = x.st /\ ~y.open
  BY <1>5 DEF ClientRecs
<1> HIDE DEF y
<1>7. /\ cl'[c] = y /\ back'[c] = <<>> /\ FileMap' = FileMap
      /\ \A d \in Clients \ {c} : /\ ~cl[d].open /\ cl'[d] = cl[d] /\ wire'[d] = wire[d]
                                  /\ buf'[d] = buf[d] /\ back'[d] = back[d]
  BY <1>1, <1>2, <1>3, <1>4, OthersClosed DEF Types
<1>8. Alone(cl'[c], wire'[c], buf'[c], back'[c], px', FileMap)
  <2>1. x.st = "done" => Complete(FileMap, x.file)
    BY <1>3 DEF EachAlone, Alone, x
  <2>2. ~Praised(<<>>)
    BY DEF Praised
  <2> QED BY <1>6, <1>7, <2>1, <2>2 DEF Alone
<1> QED BY <1>1, <1>3, <1>7, <1>8, LoneOutside

\* What was sent before is read after the end of the client.
LEMMA KillAlone ==
  ASSUME UploadInOrder, LoneInOrder, NEW c \in Clients, Kill(c)
  PROVE  LoneInOrder'
<1> SUFFICES ASSUME order' # "overlapped" PROVE LoneInOrder'
  BY DEF LoneInOrder
<1>1. Types /\ AllFit
  BY DEF UploadInOrder
<1>2. /\ cl[c].file \in Files /\ wire[c] \in Seq(UnitsOf(cl[c].file))
      /\ Fits(cl[c], wire[c], buf[c], back[c])
  BY <1>1, ClientParts
<1>3. /\ cl[c].st \in {"asks", "sent"} /\ cl' = [cl EXCEPT ![c].st = "killed"]
      /\ UNCHANGED <<back, px, buf, FileMap, srv, forwarded, order>>
  BY DEF Kill
<1>4. PICK k \in 0 .. Len(wire[c]) : wire' = [wire EXCEPT ![c] = SubSeq(@, 1, k)]
  BY DEF Kill
<1>5. Sized(FileMap) /\ OneOpen /\ EachAlone
  BY <1>3 DEF LoneInOrder
<1> DEFINE x == cl[c]
           y == [x EXCEPT !.st = "killed"]
           w == SubSeq(wire[c], 1, k)
<1>6. cl' = [cl EXCEPT ![c] = y] /\ wire' = [wire EXCEPT ![c] = w]
  BY <1>1, <1>3, <1>4 DEF Types
<1>7. x \in ClientRecs /\ x.open
  BY <1>1, <1>2, <1>3 DEF Types, Fits
<1>8. HeaderOnly(wire[c], cl[c].file) => HeaderOnly(w, cl[c].file)
  <2> SUFFICES ASSUME HeaderOnly(wire[c], cl[c].file) PROVE HeaderOnly(w, cl[c].file)
    OBVIOUS
  <2> DEFINE q == wire[c]
             g == cl[c].file
  <2>1. g \in Files /\ q \in Seq(UnitsOf(g)) /\ HeaderOnly(q, g) /\ k \in 0 .. Len(q)
    BY <1>2
  <2> HIDE DEF q, g
  <2>2. HeaderOnly(SubSeq(q, 1, k), g)
    BY <2>1, HeaderOnlyPart
  <2> QED BY <2>2 DEF q, g
<1> HIDE DEF x
<1>9. y.file = x.file /\ y.st = "killed" /\ y.open = x.open
  BY <1>7 DEF ClientRecs
<1> HIDE DEF y, w
<1>10. /\ cl'[c] = y /\ wire'[c] = w /\ buf'[c] = buf[c] /\ back'[c] = back[c] /\ FileMap' = FileMap /\ px' = px
       /\ \A d \in Clients \ {c} : /\ ~cl[d].open /\ cl'[d] = cl[d] /\ wire'[d] = wire[d]
                                   /\ buf'[d] = buf[d] /\ back'[d] = back[d]
  BY <1>1, <1>3, <1>5, <1>6, <1>7, OthersClosed DEF Types, x
<1>11. Alone(cl'[c], wire'[c], buf'[c], back'[c], px', FileMap)
  <2>1. Alone(x, wire[c], buf[c], back[c], px, FileMap)
    BY <1>5 DEF EachAlone, x
  <2>2. HeaderOnly(wire[c], x.file) => HeaderOnly(w, x.file)
    BY <1>8 DEF x
  <2> QED BY <1>7, <1>9, <1>10, <2>1, <2>2 DEF Alone
<1> QED BY <1>1, <1>5, <1>10, <1>11, LoneOutside

\* Nobody else is connected: the phase is right for the new client.
LEMMA StartAlone ==
  ASSUME UploadInOrder, LoneInOrder, NEW c \in Clients, Start(c)
  PROVE  LoneInOrder'
<1> SUFFICES ASSUME order' # "overlapped" PROVE LoneInOrder'
  BY DEF LoneInOrder
<1>1. Types /\ AllFit
  BY DEF UploadInOrder
<1>2. /\ cl[c] \in ClientRecs /\ Fits(cl[c], wire[c], buf[c], back[c])
  BY <1>1, ClientParts
<1>3. /\ cl[c].st = "idle" /\ px' = onConnection(px)
      /\ order' = (IF \E d \in Clients : cl[d].open THEN "overlapped" ELSE order)
      /\ UNCHANGED <<back, buf, FileMap, srv, forwarded>>
  BY DEF Start
<1>4. PICK f \in Choice[c], test \in {FALSE} \cup {t \in {TRUE} : c \in Testers} :
        ClientStep(c, [mySocket1(cl[c]) EXCEPT !.st = "asks", !.file = f, !.test = test], Asks(f, test))
  BY Zenon DEF Start
<1>5. f \in Files /\ test \in BOOLEAN
  BY UploadAssumption
<1>6. wire[c] = <<>> /\ buf[c] = <<>> /\ back[c] = <<>>
  BY <1>2, <1>3 DEF Fits
<1>7. order # "overlapped" /\ \A d \in Clients : ~cl[d].open
  BY <1>3
<1>8. Sized(FileMap) /\ OneOpen /\ EachAlone
  BY <1>7 DEF LoneInOrder
<1> DEFINE x == cl[c]
           yes == TRUE
           y == [[[[x EXCEPT !.open = yes] EXCEPT !.st = "asks"] EXCEPT !.file = f] EXCEPT !.test = test]
           w == Asks(f, test)
<1>9. cl' = [cl EXCEPT ![c] = y] /\ wire' = [wire EXCEPT ![c] = <<>> \o w]
  BY <1>1, <1>4, <1>6 DEF ClientStep, mySocket1, Types
<1>10. x \in ClientRecs
  BY <1>2
<1> HIDE DEF x, yes
<1>11. y.file = f /\ y.st = "asks"
  BY <1>5, <1>10 DEF ClientRecs
<1>12. w \in Seq(UnitsOf(f)) /\ HeaderOnly(w, f)
  <2>1. Op \in UnitsOf(f) /\ Header(f) \in UnitsOf(f) /\ Op.u # "rec"
    BY DEF UnitsOf, Op
  <2>2. w = <<Header(f)>> \/ w = <<Op, Header(f)>>
    BY DEF Asks
  <2>3. /\ <<Header(f)>> \in Seq(UnitsOf(f)) /\ <<Op, Header(f)>> \in Seq(UnitsOf(f))
        /\ \A i \in DOMAIN <<Header(f)>> : <<Header(f)>>[i] = Header(f)
        /\ \A i \in DOMAIN <<Op, Header(f)>> : <<Op, Header(f)>>[i] \in {Op, Header(f)}
    BY <2>1
  <2> HIDE DEF w
  <2> QED BY <2>1, <2>2, <2>3 DEF HeaderOnly
<1> HIDE DEF y, w
<1>13. <<>> \o w = w
  BY <1>12
<1>14. /\ cl'[c] = y /\ wire'[c] = w /\ buf'[c] = <<>> /\ back'[c] = <<>> /\ FileMap' = FileMap
       /\ \A d \in Clients \ {c} : /\ ~cl[d].open /\ cl'[d] = cl[d] /\ wire'[d] = wire[d]
                                   /\ buf'[d] = buf[d] /\ back'[d] = back[d]
  BY <1>1, <1>3, <1>6, <1>7, <1>9, <1>13 DEF Types
<1>15. px'.upStatu = 1
  <2> DEFINE g == px'
             p == px
             q == [p EXCEPT !.Operate = "sw"]
  <2>1. p \in Globals /\ g = [q EXCEPT !.upStatu = 1]
    BY <1>1, <1>3 DEF Types, onConnection
  <2> HIDE DEF g, p
  <2>2. g.upStatu = 1
    BY <2>1 DEF Globals
  <2> QED BY <2>2 DEF g
<1>16. Alone(cl'[c], wire'[c], buf'[c], back'[c], px', FileMap)
  <2>1. ~Praised(<<>>) /\ HeaderOnly(<<>>, f)
    BY DEF Praised, HeaderOnly
  <2> QED BY <1>11, <1>12, <1>14, <1>15, <2>1 DEF Alone
<1> QED BY <1>1, <1>8, <1>14, <1>16, LoneOutside

\* The client ends when it is told "success".
LEMMA ReceiveAlone ==
  ASSUME UploadInOrder, LoneInOrder, NEW c \in Clients, Receive(c)
  PROVE  LoneInOrder'
<1> SUFFICES ASSUME order' # "overlapped" PROVE LoneInOrder'
  BY DEF LoneInOrder
<1>1. Types /\ AllFit
  BY DEF UploadInOrder
<1> DEFINE r == Head(back[c])
           x == cl[c]
<1>2. x \in ClientRecs /\ back[c] \in Seq(Answers) /\ Fits(x, wire[c], buf[c], back[c])
  BY <1>1, ClientParts
<1>3. /\ x.st \in {"asks", "sent"} /\ back[c] # <<>> /\ back' = [back EXCEPT ![c] = Tail(@)]
      /\ IF r = Success THEN ClientStep(c, [x EXCEPT !.st = "done"], <<>>)
         ELSE ClientStep(c, [updateuploadId(x, r) EXCEPT !.st = "sent"], Sends(x, r))
      /\ UNCHANGED <<px, buf, FileMap, srv, forwarded, order>>
  BY Zenon DEF Receive
<1>4. Sized(FileMap) /\ OneOpen /\ EachAlone
  BY <1>3 DEF LoneInOrder
<1> DEFINE y == updateuploadId(x, r)
           z == IF r = Success THEN [x EXCEPT !.st = "done"] ELSE [y EXCEPT !.st = "sent"]
           w == IF r = Success THEN <<>> ELSE Sends(x, r)
           t == Tail(back[c])
<1>5. cl' = [cl EXCEPT ![c] = z] /\ wire' = [wire EXCEPT ![c] = wire[c] \o w] /\ back' = [back EXCEPT ![c] = t]
  <2>0. y = updateuploadId(x, r)
    OBVIOUS
  <2> HIDE DEF r, y, x
  <2>1. wire' = [wire EXCEPT ![c] = @ \o w] /\ cl' = [cl EXCEPT ![c] = z]
    <3>1. CASE r = Success
      BY <1>3, <3>1 DEF ClientStep
    <3>2. CASE r # Success
      BY <1>3, <2>0, <3>2 DEF ClientStep
    <3> QED BY <3>1, <3>2
  <2> QED BY <1>3, <2>1
<1>6. /\ \A i \in DOMAIN t : i + 1 \in DOMAIN back[c] /\ t[i] = back[c][i + 1]
      /\ r = back[c][1] /\ 1 \in DOMAIN back[c]
  <2> DEFINE b == back[c]
  <2>1. b \in Seq(Answers) /\ b # <<>>
    BY <1>2, <1>3
  <2> HIDE DEF b
  <2>2. /\ \A i \in DOMAIN Tail(b) : i + 1 \in DOMAIN b /\ Tail(b)[i] = b[i + 1]
        /\ Head(b) = b[1] /\ 1 \in DOMAIN b
    BY <2>1
  <2> QED BY <2>2 DEF b
<1>7. x.open
  BY <1>2, <1>3 DEF Fits
<1> HIDE DEF r, x
<1>8. z.file = x.file /\ (z.st = "done" => r = Success)
  <2> DEFINE a == [x EXCEPT !.st = "done"]
             b == [y EXCEPT !.st = "sent"]
             v == x.uploadId \cup r.ids
  <2>1. a.file = x.file /\ a.st = "done"
    BY <1>2 DEF ClientRecs
  <2>2. /\ b = [y EXCEPT !.st = "sent"]
        /\ y = IF r.r = "ids" THEN [x EXCEPT !.uploadId = v] ELSE x
        /\ z = IF r = Success THEN a ELSE b
    BY DEF updateuploadId
  <2> HIDE DEF a, b, v, y, z
  <2>3. b.file = x.file /\ b.st = "sent"
    BY <1>2, <2>2 DEF ClientRecs
  <2> QED BY <2>1, <2>2, <2>3
<1> HIDE DEF y, z, w, t
<1>9. /\ cl'[c] = z /\ back'[c] = t /\ FileMap' = FileMap /\ px' = px
      /\ \A d \in Clients \ {c} : /\ ~cl[d].open /\ cl'[d] = cl[d] /\ wire'[d] = wire[d]
                                  /\ buf'[d] = buf[d] /\ back'[d] = back[d]
  BY <1>1, <1>3, <1>4, <1>5, <1>7, OthersClosed DEF Types, x
<1>10. Alone(x, wire[c], buf[c], back[c], px, FileMap)
  BY <1>4 DEF EachAlone, x
<1>11. Praised(t) => Praised(back[c])
  BY <1>6 DEF Praised
<1>12. r = Success => Praised(back[c])
  BY <1>6 DEF Praised
<1>13. px.upStatu # 1
  BY <1>3, <1>7, <1>10 DEF Alone
<1>14. Alone(cl'[c], wire'[c], buf'[c], back'[c], px', FileMap)
  BY <1>7, <1>8, <1>9, <1>10, <1>11, <1>12, <1>13 DEF Alone
<1> QED BY <1>1, <1>4, <1>9, <1>14, LoneOutside

\* Nobody is connected at the start.
LEMMA InitAlone ==
  ASSUME Init
  PROVE  LoneInOrder
<1>1. UploadInOrder
  BY InitInOrder
<1>2. /\ cl = [c \in Clients |-> Fresh] /\ back = [c \in Clients |-> <<>>] /\ FileMap = [n \in {} |-> FileValue(0)]
  BY DEF Init
<1>3. \A c \in Clients : cl[c].st = "idle" /\ ~cl[c].open /\ back[c] = <<>>
  <2> SUFFICES ASSUME NEW c \in Clients PROVE cl[c].st = "idle" /\ ~cl[c].open /\ back[c] = <<>>
    OBVIOUS
  <2>1. cl[c].st = "idle" /\ back[c] = <<>>
    BY <1>2 DEF Fresh
  <2>2. Fits(cl[c], wire[c], buf[c], back[c])
    BY <1>1 DEF UploadInOrder, AllFit
  <2> QED BY <2>1, <2>2 DEF Fits
<1>4. Sized(FileMap)
  BY <1>2 DEF Sized
<1>5. OneOpen
  BY <1>3 DEF OneOpen
<1>6. EachAlone
  BY <1>3 DEF EachAlone, Alone, Praised
<1> QED BY <1>4, <1>5, <1>6 DEF LoneInOrder

\* Every step.
LEMMA NextAlone ==
  ASSUME UploadInOrder, LoneInOrder, [Next]_vars
  PROVE  LoneInOrder'
<1>1. CASE UNCHANGED vars
  BY <1>1 DEF vars, LoneInOrder, OneOpen, EachAlone
<1>2. ASSUME NEW c \in Clients, Proxy(c) PROVE LoneInOrder'
  BY <1>2, ReadAlone, ReadPartAlone, DownAlone DEF Proxy
<1>3. ASSUME NEW c \in Clients, Receive(c) PROVE LoneInOrder'
  BY <1>3, ReceiveAlone
<1>4. ASSUME NEW s \in Servers, ServerReads(s) PROVE LoneInOrder'
  <2>1. UNCHANGED <<cl, wire, back, px, buf, FileMap, forwarded>>
    BY <1>4 DEF ServerReads
  <2>2. PICK k \in 1 .. Len(srv[s].in) : order' = Reads(k)
    BY <1>4, Zenon DEF ServerReads
  <2>3. order' # "overlapped" => order # "overlapped"
    BY <2>2, ReadsOrder
  <2> QED BY <2>1, <2>3 DEF LoneInOrder, OneOpen, EachAlone
<1>5. ASSUME NEW c \in Clients, Start(c) PROVE LoneInOrder'
  BY <1>5, StartAlone
<1>6. ASSUME NEW c \in Clients, Kill(c) PROVE LoneInOrder'
  BY <1>6, KillAlone
<1> QED BY <1>1, <1>2, <1>3, <1>4, <1>5, <1>6 DEF Next, Work

\* As long as no two clients are connected at a time, the answers, the phase and
\* what a connection holds are those of the one client's file.
THEOREM LoneUploadInOrder == Spec => []LoneInOrder
<1>1. Init => UploadInOrder /\ LoneInOrder
  BY InitInOrder, InitAlone
<1>2. UploadInOrder /\ LoneInOrder /\ [Next]_vars => UploadInOrder' /\ LoneInOrder'
  BY NextKeeps, NextAlone
<1> QED BY <1>1, <1>2, PTL DEF Spec

\* One client at a time: a client is told "success" only when every block of the
\* record of its file was accepted.
THEOREM SuccessIsComplete == Spec => []SuccessMeansAccepted
<1>1. LoneInOrder => SuccessMeansAccepted
  BY DEF LoneInOrder, EachAlone, Alone, Complete, SuccessMeansAccepted
<1> QED BY <1>1, LoneUploadInOrder, PTL

-----------------------------------------------------------------------------
(* One client at a time, one unit in each read: how far an upload has come.  *)
(* A client waits until it is answered (asks) or has sent its blocks (sent);  *)
(* x is the client, w and b what it sent, r its answers, p the globals, m the *)
(* records.                                                                   *)

\* Only blocks of f are on their way, and those of I among them.
Pending(q, f, I) == q \in Seq(Blocks(f)) /\ \A i \in I : \E k \in DOMAIN q : q[k] = Rec(i, BlockFile(f, i))

\* The blocks that the proxy has not accepted and would accept.
Missing(f, v) == {i \in (0 .. blockNum(f) - 1) \ v.uploadId : v.md5[i] = getMD5(BlockFile(f, i))}

\* Without the name of an operation, the header is taken for one.
Unheard(x, w, b, r, p) ==
  /\ x.st = "asks" /\ x.test /\ p.Operate = "sw" /\ r = <<>>
  /\ w = <<>> \/ (w = <<Header(x.file)>> /\ b = <<>>)

Asking(x, w, b, r, p) ==
  /\ x.st = "asks" /\ ~x.test /\ b = <<>> /\ r = <<>>
  /\ \/ p.Operate = "sw" /\ w = <<Op, Header(x.file)>>
     \/ p.Operate = "up" /\ p.upStatu = 1 /\ w = <<Header(x.file)>>

\* Of a known name without an accepted block, the answer is not sent.
Answered(x, w, b, r, p, m) ==
  LET v == m[FileName[x.file]] IN
  /\ x.st = "asks" /\ b = <<>> /\ w = <<>> /\ p.Operate = "up"
  /\ \/ p.upStatu = 2 /\ r = <<ACK>>
     \/ p.upStatu = 3 /\ r = <<Success>>
     \/ p.upStatu = 3 /\ r = <<>> /\ v.uploadId = {}
     \/ p.upStatu = 3 /\ r = <<Ids(v)>> /\ ~lsFileFinish(v)

\* The MD5s are on their way, and all blocks after them.
SentAll(x, w, b, r, p) ==
  /\ x.st = "sent" /\ b = <<>> /\ r = <<>> /\ p.Operate = "up" /\ p.upStatu = 2
  /\ IF blockNum(x.file) = 0 THEN w = <<>>
     ELSE w # <<>> /\ Head(w) = Sums1(x.file) /\ Pending(Tail(w), x.file, 0 .. blockNum(x.file) - 1)

Sending(x, w, b, r, p, m) ==
  LET v == m[FileName[x.file]] IN
  /\ x.st = "sent" /\ b = <<>> /\ r = <<>> /\ p.Operate = "up" /\ p.upStatu = 3
  /\ ~lsFileFinish(v) /\ Pending(w, x.file, Missing(x.file, v))

Finished(x, r, p) == x.st = "sent" /\ p.Operate = "up" /\ p.upStatu = 4 /\ r = <<Success>>

Stage(x, w, b, r, p, m) ==
  \/ Unheard(x, w, b, r, p) \/ Asking(x, w, b, r, p) \/ Answered(x, w, b, r, p, m)
  \/ SentAll(x, w, b, r, p) \/ Sending(x, w, b, r, p, m) \/ Finished(x, r, p)

Stages == order = "smooth" =>
            \A c \in Clients : cl[c].st \in {"asks", "sent"} => Stage(cl[c], wire[c], buf[c], back[c], px, FileMap)

\* One unit is in the buffer.
One(q, u) == q = <<u>>

(* A read of one unit is one pass of the loop.                              *)
LEMMA OneHeader ==
  ASSUME NEW f \in Files, NEW u \in UnitsOf(f), NEW h \in Handlers(f), One(h.buf, u)
  PROVE  initFileNumber(h) = initFileNumberStep(h, u)
<1> DEFINE S == Handlers(f)
           d == initFileNumberStep(h, u)
           q == <<u>>
           n == 1
           T == [k \in 0 .. n |-> IF k = 0 THEN {h} ELSE {d}]
<1>1. n \in Nat /\ DOMAIN q = 1 .. n /\ \A k \in 1 .. n : k = n /\ q[k] = u
  OBVIOUS
<1>2. \A e \in S : initFileNumberStep(e, u) \in S
  BY HeaderStep
<1>3. T \in [0 .. n -> SUBSET S] /\ T[0] = {h} /\ T[n] = {d} /\ T[n - 1] = {h}
  BY <1>2
<1>4. initFileNumber(h) = FoldLeft(initFileNumberStep, h, q) /\ d = initFileNumberStep(h, u)
  BY DEF initFileNumber, One
<1> HIDE DEF S, d, q, n, T
<1>5. \A k \in 1 .. n, e \in S : initFileNumberStep(e, q[k]) \in S
  BY <1>1, <1>2
<1>6. \A k \in 1 .. n, e \in S : e \in T[k - 1] => initFileNumberStep(e, q[k]) \in T[k]
  BY <1>1, <1>3, <1>4
<1>7. h \in S /\ h \in T[0]
  BY <1>3 DEF S
<1>8. FoldLeft(initFileNumberStep, h, q) \in T[n]
  BY <1>1, <1>3, <1>5, <1>6, <1>7, LoopOfHeaders
<1> QED BY <1>3, <1>4, <1>8

\* The same of the loop of sendBlock.
LEMMA OneBlock ==
  ASSUME NEW f \in Files, NEW u \in UnitsOf(f), NEW h \in Handlers(f), InFile(h), One(h.buf, u)
  PROVE  sendBlock(h) = sendBlockStep(h, u)
<1> DEFINE S == {e \in Handlers(f) : InFile(e)}
           d == sendBlockStep(h, u)
           q == <<u>>
           n == 1
           T == [k \in 0 .. n |-> IF k = 0 THEN {h} ELSE {d}]
<1>1. n \in Nat /\ DOMAIN q = 1 .. n /\ \A k \in 1 .. n : k = n /\ q[k] = u
  OBVIOUS
<1>2. \A e \in S : sendBlockStep(e, u) \in S
  BY BlockStep
<1>3. T \in [0 .. n -> SUBSET S] /\ T[0] = {h} /\ T[n] = {d} /\ T[n - 1] = {h}
  BY <1>2
<1>4. sendBlock(h) = FoldLeft(sendBlockStep, h, q) /\ d = sendBlockStep(h, u)
  BY DEF sendBlock, One
<1>7. h \in S /\ h \in T[0]
  BY <1>3
<1> HIDE DEF S, d, q, n, T
<1>5. \A k \in 1 .. n, e \in S : sendBlockStep(e, q[k]) \in S
  BY <1>1, <1>2
<1>6. \A k \in 1 .. n, e \in S : e \in T[k - 1] => sendBlockStep(e, q[k]) \in T[k]
  BY <1>1, <1>3, <1>4
<1>8. FoldLeft(sendBlockStep, h, q) \in T[n]
  BY <1>1, <1>3, <1>5, <1>6, <1>7, LoopOfBlocks
<1> QED BY <1>3, <1>4, <1>8

(* What follows the head of a sequence.                                     *)
LEMMA HeadAndTail ==
  ASSUME NEW S, NEW q \in Seq(S), q # <<>>
  PROVE  /\ Head(q) \in S /\ Head(q) = q[1] /\ 1 \in DOMAIN q /\ Tail(q) \in Seq(S)
         /\ \A k \in DOMAIN q : k # 1 => k - 1 \in DOMAIN Tail(q) /\ Tail(q)[k - 1] = q[k]
  OBVIOUS

(* The first 8 bytes are taken for the operation.                           *)
LEMMA OneSwitch ==
  ASSUME NEW f \in Files, NEW h \in Handlers(f), NEW u, One(h.buf, u), h.px.Operate = "sw", NEW d \in onMessage(h)
  PROVE  /\ d.back = h.back /\ d.px.upStatu = h.px.upStatu
         /\ u = Op => d.px.Operate = "up" /\ d.buf = <<>>
         /\ u # Op => d.px = h.px
<1>1. h.buf # <<>> /\ Head(h.buf) = u /\ Tail(h.buf) = <<>>
  BY DEF One
<1>2. d = switchOperate(h)
  BY DEF onMessage
<1>3. /\ d.back = h.back /\ d.px.upStatu = h.px.upStatu
      /\ \/ Head(h.buf) = Op /\ d.px.Operate = "up" /\ d.buf = Tail(h.buf)
         \/ Head(h.buf) # Op /\ d.px = h.px
  BY <1>1, <1>2, SwitchStep
<1> QED BY <1>1, <1>3

(* The header comes without an operation: the bytes are lost.               *)
LEMMA UnheardReads ==
  ASSUME NEW x, NEW f \in Files, f = x.file, NEW h \in Handlers(f), NEW w, w # <<>>, NEW u, u = Head(w), One(h.buf, u),
         Unheard(x, w, <<>>, h.back, h.px), NEW d \in onMessage(h)
  PROVE  Unheard(x, Tail(w), d.buf, d.back, d.px)
<1>1. w = <<Header(f)>> /\ h.px.Operate = "sw" /\ h.back = <<>> /\ x.st = "asks" /\ x.test
  BY DEF Unheard
<1>2. Head(w) = Header(f) /\ Tail(w) = <<>>
  BY <1>1
<1>3. Header(f) # Op
  BY DEF Header, Rec, Op
<1>4. d.back = h.back /\ d.px = h.px
  BY <1>1, <1>2, <1>3, OneSwitch
<1> QED BY <1>1, <1>2, <1>4 DEF Unheard

(* The operation is read, then the header.                                  *)
LEMMA AskingReads ==
  ASSUME NEW x, NEW f \in Files, f = x.file, NEW h \in Handlers(f), ~h.end, Phased(h.px, h.map),
         NEW w \in Seq(UnitsOf(f)), w # <<>>, NEW u, u = Head(w), One(h.buf, u),
         Asking(x, w, <<>>, h.back, h.px), NEW d \in onMessage(h)
  PROVE  Asking(x, Tail(w), d.buf, d.back, d.px) \/ Answered(x, Tail(w), d.buf, d.back, d.px, d.map)
<1>1. x.st = "asks" /\ ~x.test /\ h.back = <<>>
  BY DEF Asking
<1>2. h.buf # <<>> /\ Head(h.buf) = u /\ Tail(h.buf) = <<>> /\ u \in UnitsOf(f)
  BY HeadAndTail DEF One
<1>3. CASE h.px.Operate = "sw" /\ w = <<Op, Header(f)>>
  <2>1. Tail(w) = <<Header(f)>> /\ u = Op
    BY <1>3
  <2>2. d.back = h.back /\ d.px.upStatu = h.px.upStatu /\ d.px.Operate = "up" /\ d.buf = <<>>
    BY <1>3, <2>1, OneSwitch
  <2>3. h.px.upStatu = 1
    BY <1>3 DEF Phased
  <2> QED BY <1>1, <2>1, <2>2, <2>3 DEF Asking
<1>4. CASE h.px.Operate = "up" /\ h.px.upStatu = 1 /\ w = <<Header(f)>>
  <2>1. u = Header(f) /\ Tail(w) = <<>>
    BY <1>4
  <2>2. d = initFileNumber(h)
    BY <1>4 DEF onMessage
  <2>4. d = initFileNumberStep(h, u)
    BY <1>2, <2>2, OneHeader
  <2>5. u.u = "rec" /\ u.text = f /\ u.num = blockNum(f) /\ f # Empty /\ getFileName(u.text) = FileName[f]
    BY <2>1, UploadAssumption DEF Header, Rec, getFileName
  <2>6. /\ d.px.Operate = "up"
        /\ HeaderNew(h, u, d) \/ HeaderKnown(h, u, d)
    BY <1>2, <1>4, <2>4, <2>5, HeaderStep
  <2> DEFINE name == FileName[f]
  <2>7. CASE HeaderNew(h, u, d)
    <3>1. d.px.upStatu = 2 /\ d.back = Append(h.back, ACK) /\ d.buf = Tail(h.buf)
      BY <2>7 DEF HeaderNew
    <3>2. d.back = <<ACK>> /\ d.buf = <<>>
      BY <1>1, <1>2, <3>1
    <3> QED BY <1>1, <2>1, <2>6, <3>1, <3>2 DEF Answered
  <2>8. CASE HeaderKnown(h, u, d)
    <3> DEFINE v == d.map[name]
    <3>1. /\ d.px.upStatu = 3 /\ d.buf = Tail(h.buf)
          /\ \/ d.back = Append(h.back, Success)
             \/ v.uploadId = {} /\ d.back = h.back
             \/ ~lsFileFinish(v) /\ d.back = Append(h.back, Ids(v))
      BY <2>5, <2>8 DEF HeaderKnown
    <3>2. \/ d.back = <<Success>>
          \/ v.uploadId = {} /\ d.back = <<>>
          \/ ~lsFileFinish(v) /\ d.back = <<Ids(v)>>
      BY <1>1, <3>1
    <3>3. d.buf = <<>>
      BY <1>2, <3>1
    <3> QED BY <1>1, <2>1, <2>6, <3>1, <3>2, <3>3 DEF Answered
  <2> QED BY <2>6, <2>7, <2>8
<1> QED BY <1>3, <1>4 DEF Asking

(* The MD5s of the file are read.                                           *)
LEMMA OneSums ==
  ASSUME NEW f \in Files, NEW h \in Handlers(f), NEW g, g = h.px.g_FileName, g \in DOMAIN h.map,
         h.map[g].uploadId = {}, NEW n, n = h.map[g].blockNum, n # 0,
         NEW u, h.buf # <<>>, Head(h.buf) = u, Tail(h.buf) = <<>>, Announces(u, n), NEW d \in initFileMD5(h)
  PROVE  \E md5 \in [1 .. n -> Sums] :
           /\ d.back = h.back /\ d.px = [h.px EXCEPT !.upStatu = 3]
           /\ d.map = Announced(h.map, g, md5) /\ d.buf = <<>>
<1>1. \/ d = h /\ n # 0 /\ ~Announces(Head(h.buf), n)
      \/ /\ d \in Handlers(f) /\ d.back = h.back /\ d.in = h.in /\ d.forwarded = h.forwarded
         /\ d.px = [h.px EXCEPT !.upStatu = 3]
         /\ \/ n = 0 /\ d.map = h.map /\ d.buf = h.buf
            \/ /\ n # 0
               /\ \E md5 \in [1 .. n -> Sums] :
                    /\ d.map = Announced(h.map, g, md5)
                    /\ \/ Announces(Head(h.buf), n) /\ md5 = Head(h.buf).md5s /\ d.buf = Tail(h.buf)
                       \/ ~Announces(Head(h.buf), n) /\ d.buf = <<Lost>>
  BY MD5Step
<1> QED BY <1>1

(* The MD5s are read: the blocks are waited for.                            *)
LEMMA SentAllReads ==
  ASSUME NEW x, NEW f \in Files, f = x.file, NEW h \in Handlers(f), Phased(h.px, h.map), Sized(h.map),
         h.px.g_FileName = FileName[f], NEW w \in Seq(UnitsOf(f)), w # <<>>, NEW u, u = Head(w), One(h.buf, u),
         SentAll(x, w, <<>>, h.back, h.px), NEW d \in onMessage(h)
  PROVE  Sending(x, Tail(w), d.buf, d.back, d.px, d.map)
<1> DEFINE g == FileName[f]
           n == h.map[g].blockNum
<1>1. /\ x.st = "sent" /\ h.back = <<>> /\ h.px.Operate = "up" /\ h.px.upStatu = 2
      /\ blockNum(f) # 0 /\ u = Sums1(f) /\ Pending(Tail(w), f, 0 .. blockNum(f) - 1)
  BY DEF SentAll
<1>2. g \in DOMAIN h.map /\ h.map[g].uploadId = {} /\ h.map[g] \in Values /\ h.px \in Globals
  BY <1>1, HandlerParts, MapTypes DEF Phased
<1>3. n = blockNum(f) /\ n \in Nat /\ n # 0
  BY <1>1, <1>2, Cutting DEF Sized
<1>4. d \in initFileMD5(h)
  BY <1>1 DEF onMessage
<1>5. Announces(u, n)
  <2>1. u \in UnitsOf(f) /\ u.u = "md5s"
    BY <1>1 DEF UnitsOf, Sums1
  <2> QED BY <1>3, <2>1, SumsUnit DEF Announces
<1>6. h.buf # <<>> /\ Head(h.buf) = u /\ Tail(h.buf) = <<>>
  BY DEF One
<1>7. n = h.map[g].blockNum /\ g = h.px.g_FileName /\ g = FileName[f]
  OBVIOUS
<1> HIDE DEF g, n
<1>8. PICK md5 \in [1 .. n -> Sums] :
        /\ d.back = h.back /\ d.px = [h.px EXCEPT !.upStatu = 3]
        /\ d.map = Announced(h.map, g, md5) /\ d.buf = <<>>
  BY <1>2, <1>3, <1>4, <1>5, <1>6, <1>7, OneSums
<1>9. d.px.upStatu = 3 /\ d.px.Operate = "up"
  <2> DEFINE p == h.px
             r == d.px
  <2>1. p \in Globals /\ r = [p EXCEPT !.upStatu = 3] /\ p.Operate = "up"
    BY <1>1, <1>2, <1>8
  <2> HIDE DEF p, r
  <2>2. r.upStatu = 3 /\ r.Operate = "up"
    BY <2>1 DEF Globals
  <2> QED BY <2>2 DEF r
<1>10. d.map[g].uploadId = {} /\ d.map[g].blockNum = n
  <2> DEFINE v == h.map[g]
  <2>1. d.map[g] = setBlockFileMD5(v, md5)
    BY <1>2, <1>8 DEF Announced
  <2>2. v \in Values /\ md5 \in [1 .. v.blockNum -> Sums] /\ v.uploadId = {} /\ v.blockNum = n
    BY <1>2, <1>7
  <2> HIDE DEF v
  <2> QED BY <2>1, <2>2, ValueTypes
<1> DEFINE v == d.map[g]
<1>11. ~lsFileFinish(v)
  <2>1. 0 \in 0 .. v.blockNum - 1 /\ 0 \notin v.uploadId
    BY <1>3, <1>10
  <2> QED BY <2>1 DEF lsFileFinish
<1>12. Pending(Tail(w), f, Missing(f, v))
  <2>1. Missing(f, v) \subseteq 0 .. blockNum(f) - 1
    BY DEF Missing
  <2> QED BY <1>1, <2>1 DEF Pending
<1>13. d.buf = <<>> /\ d.back = <<>> /\ v = d.map[FileName[x.file]]
  BY <1>1, <1>7, <1>8
<1> HIDE DEF v
<1> QED BY <1>1, <1>9, <1>11, <1>12, <1>13 DEF Sending

(* The head is read, and none of J.                                         *)
LEMMA PendingTail ==
  ASSUME NEW f, NEW q, NEW I, Pending(q, f, I), q # <<>>, NEW J \in SUBSET I,
         \A i \in J : Head(q) # Rec(i, BlockFile(f, i))
  PROVE  Pending(Tail(q), f, J)
<1> DEFINE S == Blocks(f)
<1>1. q \in Seq(S) /\ \A i \in I : \E k \in DOMAIN q : q[k] = Rec(i, BlockFile(f, i))
  BY DEF Pending
<1> HIDE DEF S
<1>2. /\ Head(q) = q[1] /\ Tail(q) \in Seq(S)
      /\ \A k \in DOMAIN q : k # 1 => k - 1 \in DOMAIN Tail(q) /\ Tail(q)[k - 1] = q[k]
  BY <1>1, HeadAndTail
<1>3. ASSUME NEW i \in J PROVE \E k \in DOMAIN Tail(q) : Tail(q)[k] = Rec(i, BlockFile(f, i))
  <2>1. PICK k \in DOMAIN q : q[k] = Rec(i, BlockFile(f, i))
    BY <1>1
  <2>2. k # 1
    BY <1>2, <2>1
  <2> QED BY <1>2, <2>1, <2>2
<1> QED BY <1>2, <1>3 DEF Pending, S

(* A block is read: it is accepted, or would not be; the last one ends the  *)
(* upload.                                                                  *)
LEMMA SendingReads ==
  ASSUME NEW x, NEW f \in Files, f = x.file, NEW h \in Handlers(f), ~h.end, Phased(h.px, h.map), Sized(h.map),
         h.px.g_FileName = FileName[f], NEW w \in Seq(UnitsOf(f)), w # <<>>, NEW u, u = Head(w), One(h.buf, u),
         Sending(x, w, <<>>, h.back, h.px, h.map), NEW d \in onMessage(h)
  PROVE  Sending(x, Tail(w), d.buf, d.back, d.px, d.map) \/ Finished(x, d.back, d.px)
<1> DEFINE g == FileName[f]
           v == h.map[g]
           y == d.map[g]
           I == Missing(f, v)
<1>1. /\ x.st = "sent" /\ h.back = <<>> /\ h.px.Operate = "up" /\ h.px.upStatu = 3
      /\ ~lsFileFinish(v) /\ Pending(w, f, I)
  BY DEF Sending
<1>2. g \in DOMAIN h.map /\ v \in Values /\ InFile(h) /\ v.blockNum = blockNum(f) /\ g = h.px.g_FileName
  BY <1>1, HandlerParts, MapTypes DEF Phased, InFile, Sized
<1>3. u \in UnitsOf(f) /\ u \in Blocks(f)
  <2> DEFINE S == Blocks(f)
  <2>1. w \in Seq(S)
    BY <1>1 DEF Pending
  <2> HIDE DEF S
  <2>2. u \in S
    BY <2>1, HeadAndTail
  <2> QED BY <2>2, HeadAndTail DEF S
<1>4. PICK j \in 0 .. blockNum(f) - 1 : u = Rec(j, BlockFile(f, j))
  BY <1>3 DEF Blocks
<1>5. u.u = "rec" /\ u.num = j /\ u.text = BlockFile(f, j)
  BY <1>4 DEF Rec
<1>6. d = sendBlockStep(h, u)
  <2>1. d = sendBlock(h)
    BY <1>1 DEF onMessage
  <2> QED BY <1>2, <1>3, <2>1, OneBlock
<1>7. /\ d.px.Operate = h.px.Operate
      /\ BlockOther(h, u, d) \/ BlockTaken(h, u, d)
  BY <1>2, <1>3, <1>5, <1>6, BlockStep
<1>8. Tail(h.buf) = <<>>
  BY DEF One
<1>9. /\ d.buf = <<>> /\ BlockLast(h, d)
  BY <1>7, <1>8 DEF BlockOther, BlockTaken
<1>10. Missing(f, y) \in SUBSET I /\ \A i \in Missing(f, y) : u # Rec(i, BlockFile(f, i))
  <2>1. CASE BlockOther(h, u, d)
    <3>1. d.map = h.map /\ ~(u.num \in 0 .. v.blockNum - 1 /\ getstringMD5(u.text) = v.md5[u.num])
      BY <1>2, <2>1 DEF BlockOther
    <3>2. getMD5(BlockFile(f, j)) # v.md5[j]
      BY <1>2, <1>4, <1>5, <3>1 DEF getstringMD5, getMD5
    <3>3. y = v
      BY <3>1
    <3> HIDE DEF y, v
    <3>4. j \notin Missing(f, y)
      BY <3>2, <3>3 DEF Missing
    <3>5. \A i : u = Rec(i, BlockFile(f, i)) => i = j
      BY <1>5 DEF Rec
    <3> QED BY <3>3, <3>4, <3>5
  <2>2. CASE BlockTaken(h, u, d)
    <3>1. d.map = [h.map EXCEPT ![g] = setuploadId(@, u.num)] /\ j \in 0 .. v.blockNum - 1
      BY <1>2, <1>5, <2>2 DEF BlockTaken
    <3>2. y = setuploadId(v, j)
      BY <1>2, <1>5, <3>1
    <3> HIDE DEF y, v
    <3>3. y.md5 = v.md5 /\ y.uploadId = v.uploadId \cup {j}
      BY <1>2, <3>1, <3>2, ValueTypes
    <3>4. \A i : u = Rec(i, BlockFile(f, i)) => i = j
      BY <1>5 DEF Rec
    <3> QED BY <3>3, <3>4 DEF Missing
  <2> QED BY <1>7, <2>1, <2>2
<1> HIDE DEF v, I
<1>11. Pending(Tail(w), f, Missing(f, y))
  <2> DEFINE J == Missing(f, y)
  <2>1. J \in SUBSET I /\ \A i \in J : Head(w) # Rec(i, BlockFile(f, i))
    BY <1>10
  <2> HIDE DEF J
  <2>2. Pending(Tail(w), f, J)
    BY <1>1, <2>1, PendingTail
  <2> QED BY <2>2 DEF J
<1>12. CASE lsFileFinish(y)
  <2>1. d.back = Append(h.back, Success) /\ d.px.upStatu = 4
    BY <1>2, <1>9, <1>12 DEF BlockLast
  <2>2. d.back = <<Success>>
    BY <1>1, <2>1
  <2> QED BY <1>1, <1>7, <2>1, <2>2 DEF Finished
<1>13. CASE ~lsFileFinish(y)
  <2>1. d.back = h.back /\ d.px = h.px
    BY <1>2, <1>9, <1>13 DEF BlockLast
  <2>2. y = d.map[FileName[x.file]]
    OBVIOUS
  <2> HIDE DEF y
  <2> QED BY <1>1, <1>9, <1>11, <1>13, <2>1, <2>2 DEF Sending
<1> QED BY <1>12, <1>13

(* One more block is sent.                                                  *)
LEMMA PendingAppend ==
  ASSUME NEW f, NEW q, NEW I, Pending(q, f, I), NEW j \in 0 .. blockNum(f) - 1
  PROVE  Pending(Append(q, Rec(j, BlockFile(f, j))), f, I \cup {j})
<1> DEFINE S == Blocks(f)
           u == Rec(j, BlockFile(f, j))
           r == Append(q, u)
<1>1. q \in Seq(S) /\ u \in S
  BY DEF Pending, Blocks
<1>2. \A i \in I : \E k \in DOMAIN q : q[k] = Rec(i, BlockFile(f, i))
  BY DEF Pending
<1>3. u = Rec(j, BlockFile(f, j)) /\ r = Append(q, u)
  OBVIOUS
<1> HIDE DEF S, u, r
<1>4. /\ r \in Seq(S) /\ DOMAIN q \subseteq DOMAIN r /\ (\A k \in DOMAIN q : r[k] = q[k])
      /\ Len(q) + 1 \in DOMAIN r /\ r[Len(q) + 1] = u
  BY <1>1, <1>3
<1>5. \A i \in I \cup {j} : \E k \in DOMAIN r : r[k] = Rec(i, BlockFile(f, i))
  BY <1>2, <1>3, <1>4
<1> QED BY <1>4, <1>5 DEF Pending, S, r, u

(* A client sends every block that is not marked uploaded.                  *)
LEMMA SendsPending ==
  ASSUME NEW x, NEW f, f = x.file, f \in Files
  PROVE  Pending(sendFileBlock(x), f, (0 .. blockNum(f) - 1) \ x.uploadId)
<1> DEFINE n == blockNum(f)
           S == Seq(Blocks(f))
           U == x.uploadId
           Sent(k) == {q \in S : Pending(q, f, (0 .. k - 1) \ U)}
           T == [k \in 0 .. n |-> Sent(k)]
<1>1. n \in Nat /\ n = blockNum(x.file)
  BY Cutting
<1>2. <<>> \in S
  OBVIOUS
<1>3. ASSUME NEW k \in 1 .. n, NEW h \in S PROVE sendBlockFile(x, h, k - 1) \in S
  <2>1. Rec(k - 1, BlockFile(f, k - 1)) \in Blocks(f)
    <3>1. k - 1 \in 0 .. blockNum(f) - 1
      BY <1>1
    <3> QED BY <3>1 DEF Blocks
  <2>2. Append(h, Rec(k - 1, BlockFile(f, k - 1))) \in S
    BY <2>1
  <2> QED BY <2>2 DEF sendBlockFile
<1>4. <<>> \in Sent(0)
  <2>1. (0 .. 0 - 1) \ U = {}
    OBVIOUS
  <2> QED BY <1>2, <2>1 DEF Pending
<1>5. ASSUME NEW k \in 1 .. n, NEW h \in Sent(k - 1) PROVE sendBlockFile(x, h, k - 1) \in Sent(k)
  <2> DEFINE j == k - 1
             I == (0 .. k - 1 - 1) \ U
             J == (0 .. k - 1) \ U
             d == sendBlockFile(x, h, j)
  <2>1. j \in 0 .. blockNum(f) - 1 /\ Pending(h, f, I) /\ d \in S
    BY <1>1, <1>3
  <2>2. IF j \in U THEN d = h /\ J = I ELSE d = Append(h, Rec(j, BlockFile(f, j))) /\ J = I \cup {j}
    <3>1. 0 .. k - 1 = (0 .. k - 1 - 1) \cup {j}
      OBVIOUS
    <3> QED BY <3>1 DEF sendBlockFile
  <2>3. d = sendBlockFile(x, h, k - 1) /\ J = (0 .. k - 1) \ U
    OBVIOUS
  <2> HIDE DEF j, I, J, d
  <2>4. CASE j \in U
    BY <2>1, <2>2, <2>3, <2>4
  <2>5. CASE j \notin U
    <3>1. Pending(Append(h, Rec(j, BlockFile(f, j))), f, I \cup {j})
      BY <2>1, PendingAppend
    <3> QED BY <2>1, <2>2, <2>3, <2>5, <3>1
  <2> QED BY <2>4, <2>5
<1> HIDE DEF S, Sent
<1>6. T \in [0 .. n -> SUBSET S] /\ \A k \in 0 .. n : T[k] = Sent(k)
  BY DEF Sent
<1> HIDE DEF T
<1>7. /\ <<>> \in T[0]
      /\ \A k \in 1 .. n, h \in S : h \in T[k - 1] => sendBlockFile(x, h, k - 1) \in T[k]
  BY <1>1, <1>4, <1>5, <1>6
<1> HIDE DEF n
<1>8. sendFileBlock(x) \in T[n]
  BY <1>1, <1>2, <1>3, <1>6, <1>7, LoopOfSends
<1>9. sendFileBlock(x) \in Sent(n)
  BY <1>1, <1>6, <1>8
<1> QED BY <1>9 DEF Sent, n, U

(* The proxy reads one unit.                                                *)
LEMMA MessageStage ==
  ASSUME NEW x, NEW f \in Files, f = x.file, NEW h \in Handlers(f), ~h.end, Phased(h.px, h.map), Sized(h.map),
         h.px.upStatu \in {2, 3} => h.px.g_FileName = FileName[f],
         NEW w \in Seq(UnitsOf(f)), w # <<>>, NEW u, u = Head(w), NEW b, b = <<>> => One(h.buf, u),
         Stage(x, w, b, h.back, h.px, h.map), NEW d \in onMessage(h)
  PROVE  Stage(x, Tail(w), d.buf, d.back, d.px, d.map)
<1>1. CASE Unheard(x, w, b, h.back, h.px)
  <2>1. b = <<>>
    BY <1>1 DEF Unheard
  <2>2. Unheard(x, w, <<>>, h.back, h.px) /\ One(h.buf, u)
    BY <1>1, <2>1
  <2>3. Unheard(x, Tail(w), d.buf, d.back, d.px)
    BY <2>2, UnheardReads
  <2> QED BY <2>3 DEF Stage
<1>2. CASE Asking(x, w, b, h.back, h.px)
  <2>1. b = <<>>
    BY <1>2 DEF Asking
  <2>2. Asking(x, w, <<>>, h.back, h.px) /\ One(h.buf, u)
    BY <1>2, <2>1
  <2>3. Asking(x, Tail(w), d.buf, d.back, d.px) \/ Answered(x, Tail(w), d.buf, d.back, d.px, d.map)
    BY <2>2, AskingReads
  <2> QED BY <2>3 DEF Stage
<1>3. ~Answered(x, w, b, h.back, h.px, h.map)
  BY DEF Answered
<1>4. CASE SentAll(x, w, b, h.back, h.px)
  <2>1. b = <<>> /\ h.px.upStatu = 2
    BY <1>4 DEF SentAll
  <2>2. SentAll(x, w, <<>>, h.back, h.px) /\ One(h.buf, u) /\ h.px.g_FileName = FileName[f]
    BY <1>4, <2>1
  <2>3. Sending(x, Tail(w), d.buf, d.back, d.px, d.map)
    BY <2>2, SentAllReads
  <2> QED BY <2>3 DEF Stage
<1>5. CASE Sending(x, w, b, h.back, h.px, h.map)
  <2>1. b = <<>> /\ h.px.upStatu = 3
    BY <1>5 DEF Sending
  <2>2. Sending(x, w, <<>>, h.back, h.px, h.map) /\ One(h.buf, u) /\ h.px.g_FileName = FileName[f]
    BY <1>5, <2>1
  <2>3. Sending(x, Tail(w), d.buf, d.back, d.px, d.map) \/ Finished(x, d.back, d.px)
    BY <2>2, SendingReads
  <2> QED BY <2>3 DEF Stage
<1>6. CASE Finished(x, h.back, h.px)
  <2>1. h.px.Operate = "up" /\ h.px.upStatu = 4
    BY <1>6 DEF Finished
  <2>2. d = h
    BY <2>1 DEF onMessage
  <2> QED BY <1>6, <2>2 DEF Stage
<1> QED BY <1>1, <1>2, <1>3, <1>4, <1>5, <1>6 DEF Stage

(* Only the client that is connected is at a stage.                         *)
LEMMA StagesKeep ==
  ASSUME Types, AllFit, NEW c \in Clients, \A d \in Clients \ {c} : ~cl[d].open /\ cl'[d] = cl[d],
         cl'[c].st \in {"asks", "sent"} => Stage(cl'[c], wire'[c], buf'[c], back'[c], px', FileMap')
  PROVE  Stages'
<1> SUFFICES ASSUME NEW d \in Clients, cl'[d].st \in {"asks", "sent"}
             PROVE  Stage(cl'[d], wire'[d], buf'[d], back'[d], px', FileMap')
  BY DEF Stages
<1>1. CASE d = c
  BY <1>1
<1>2. CASE d # c
  <2>1. ~cl[d].open /\ cl[d].st \in {"asks", "sent"}
    BY <1>2
  <2>2. Fits(cl[d], wire[d], buf[d], back[d])
    BY DEF AllFit
  <2> QED BY <2>1, <2>2 DEF Fits
<1> QED BY <1>1, <1>2

(* The clients were one at a time, and each read took one unit.             *)
LEMMA ReadsSmooth ==
  ASSUME NEW k \in Nat \ {0}, Reads(k) = "smooth"
  PROVE  order = "smooth" /\ k = 1
BY DEF Reads

\* A read of one unit takes the first.
LEMMA FirstUnit ==
  ASSUME NEW S, NEW w \in Seq(S), w # <<>>
  PROVE  /\ 1 \in 1 .. Len(w) /\ SubSeq(w, 2, Len(w)) = Tail(w)
         /\ One(<<>> \o SubSeq(w, 1, 1), Head(w))
<1>1. Len(w) \in Nat \ {0}
  OBVIOUS
<1>2. SubSeq(w, 2, Len(w)) = Tail(w)
  BY <1>1
<1>3. SubSeq(w, 1, 1) = <<Head(w)>>
  <2> DEFINE a == SubSeq(w, 1, 1)
             v == Head(w)
  <2>1. a \in Seq(S) /\ Len(a) = 1 /\ a[1] = v
    BY <1>1
  <2>2. v = Head(w) /\ a = SubSeq(w, 1, 1)
    OBVIOUS
  <2> HIDE DEF a, v
  <2>3. a = <<v>>
    BY <2>1
  <2> QED BY <2>2, <2>3
<1>4. <<>> \o SubSeq(w, 1, 1) = <<Head(w)>>
  BY <1>3
<1> QED BY <1>1, <1>2, <1>4 DEF One

\* A callback on one unit.
LEMMA ReadStage ==
  ASSUME UploadInOrder, LoneInOrder, Stages, NEW c \in Clients, Read(c)
  PROVE  Stages'
<1> SUFFICES ASSUME order' = "smooth" PROVE Stages'
  BY DEF Stages
<1> DEFINE f == cl[c].file
           x == cl[c]
           w == wire[c]
           u == Head(w)
<1>1. Types /\ AllFit /\ Phased(px, FileMap)
  BY DEF UploadInOrder
<1>2. /\ cl[c] \in ClientRecs /\ f \in Files
      /\ wire[c] \in Seq(UnitsOf(f)) /\ buf[c] \in Seq(UnitsOf(f)) /\ back[c] \in Seq(Answers)
  BY <1>1, ClientParts
<1>3. cl[c].open /\ UNCHANGED cl
  BY DEF Read
<1>4. PICK k \in 1 .. Len(wire[c]) :
        /\ wire' = [wire EXCEPT ![c] = SubSeq(@, k + 1, Len(@))]
        /\ \E h \in onMessage([Callback(c) EXCEPT !.buf = @ \o SubSeq(wire[c], 1, k)]) : Commit(c, h)
        /\ order' = Reads(k)
  BY Zenon DEF Read
<1>5. order = "smooth" /\ k = 1
  <2>1. k \in Nat \ {0} /\ Reads(k) = "smooth"
    BY <1>4
  <2> QED BY <2>1, ReadsSmooth
<1>6. Sized(FileMap) /\ OneOpen /\ EachAlone
  BY <1>5 DEF LoneInOrder
<1>7. \A d \in Clients \ {c} : ~cl[d].open /\ cl'[d] = cl[d]
  BY <1>3, <1>6, OthersClosed
<1>8. SUFFICES ASSUME x.st \in {"asks", "sent"}
               PROVE  Stage(x, wire'[c], buf'[c], back'[c], px', FileMap')
  BY <1>1, <1>3, <1>7, StagesKeep
<1>9. w # <<>> /\ SubSeq(w, 2, Len(w)) = Tail(w) /\ One(<<>> \o SubSeq(w, 1, 1), Head(w))
  <2> DEFINE S == UnitsOf(f)
  <2>1. w \in Seq(S) /\ k \in 1 .. Len(w)
    BY <1>2, <1>4
  <2> HIDE DEF w, S
  <2>2. w # <<>>
    BY <2>1
  <2> QED BY <2>1, <2>2, FirstUnit
<1> DEFINE b == buf[c] \o SubSeq(wire[c], 1, 1)
<1>10. PICK o : o = [Callback(c) EXCEPT !.buf = @ \o SubSeq(wire[c], 1, 1)]
  OBVIOUS
<1>11. PICK d \in onMessage(o) : Commit(c, d)
  BY <1>4, <1>5, <1>10
<1>12. o = Holding(c, b)
  <2>1. Callback(c).buf = buf[c]
    BY DEF Callback
  <2> QED BY <1>10, <2>1 DEF Holding
<1>13. b \in Seq(UnitsOf(f)) /\ b # <<>>
  <2> DEFINE S == Seq(UnitsOf(f))
             z == buf[c]
             y == SubSeq(w, 1, 1)
  <2>1. w \in S /\ z \in S /\ 1 \in 1 .. Len(w) /\ S = Seq(UnitsOf(f))
    BY <1>2, <1>4, <1>5
  <2> HIDE DEF S, w, z
  <2>2. y \in S /\ Len(y) = 1
    BY <2>1
  <2>3. z \o y \in S /\ Len(z \o y) = Len(z) + 1 /\ Len(z) \in Nat
    BY <2>1, <2>2, ConcatProperties
  <2>4. z \o y # <<>>
    BY <2>1, <2>3
  <2> QED BY <2>3, <2>4 DEF S, w, z, y
<1>14. buf[c] = <<>> => One(b, u)
  BY <1>9
<1> HIDE DEF b
<1>15. /\ o \in Handlers(f) /\ o.px = px /\ o.map = FileMap /\ o.buf = b /\ o.back = back[c] /\ ~o.end
  <2>1. b \in Seq(UnitsOf(f))
    BY <1>13
  <2>2. /\ o \in Handlers(f) /\ o.px = px /\ o.map = FileMap /\ o.buf = b /\ o.back = back[c]
        /\ o.in = [s \in Servers |-> srv[s].in] /\ o.forwarded = forwarded /\ ~o.end
    BY <1>1, <2>1, <1>12, CallbackType
  <2> QED BY <2>2
<1>16. d \in Handlers(f)
  BY <1>1, <1>2, <1>11, <1>13, <1>15, MessageLeads
<1>17. /\ SameGlobals(px', d) /\ FileMap' = d.map /\ buf' = [buf EXCEPT ![c] = d.buf]
       /\ back' = [back EXCEPT ![c] = d.back]
  BY <1>1, <1>2, <1>11, <1>16, Committed
<1>18. wire'[c] = Tail(w) /\ buf'[c] = d.buf /\ back'[c] = d.back
  <2>1. wire' = [wire EXCEPT ![c] = SubSeq(@, 2, Len(@))]
    BY <1>4, <1>5
  <2> QED BY <1>1, <1>9, <1>17, <2>1 DEF Types
<1>19. Stage(x, w, buf[c], o.back, o.px, o.map)
  BY <1>5, <1>8, <1>15 DEF Stages
<1>20. o.px.upStatu \in {2, 3} => o.px.g_FileName = FileName[f]
  BY <1>3, <1>6, <1>15 DEF EachAlone, Alone
<1>21. Stage(x, Tail(w), d.buf, d.back, d.px, d.map)
  <2> DEFINE z == buf[c]
  <2>1. /\ f \in Files /\ f = x.file /\ o \in Handlers(f) /\ ~o.end /\ Phased(o.px, o.map) /\ Sized(o.map)
        /\ w \in Seq(UnitsOf(f)) /\ w # <<>> /\ u = Head(w) /\ (z = <<>> => One(o.buf, u))
        /\ Stage(x, w, z, o.back, o.px, o.map) /\ d \in onMessage(o)
    BY <1>1, <1>2, <1>6, <1>9, <1>11, <1>14, <1>15, <1>19
  <2> HIDE DEF x, w, u, z, f
  <2> QED BY <1>20, <2>1, MessageStage
<1>22. Stage(x, Tail(w), d.buf, d.back, px', d.map)
  <2> HIDE DEF x, w
  <2> QED BY <1>17, <1>21 DEF Stage, Unheard, Asking, Answered, SentAll, Sending, Finished, SameGlobals
<1> QED BY <1>17, <1>18, <1>22

(* A record read in two parts is not one read of one unit.                  *)
LEMMA ReadPartStage ==
  ASSUME NEW c \in Clients, ReadPart(c)
  PROVE  Stages'
<1>1. order' = Reads(2)
  BY DEF ReadPart
<1>2. Reads(2) # "smooth"
  BY DEF Reads
<1> QED BY <1>1, <1>2 DEF Stages

(* A client that is done or killed is at no stage.                          *)
LEMMA DownStage ==
  ASSUME UploadInOrder, LoneInOrder, Stages, NEW c \in Clients, Down(c)
  PROVE  Stages'
<1> SUFFICES ASSUME order' = "smooth" PROVE Stages'
  BY DEF Stages
<1>1. Types /\ AllFit
  BY DEF UploadInOrder
<1>2. /\ cl[c].open /\ cl[c].st \in {"done", "killed"} /\ order = "smooth"
      /\ cl' = [cl EXCEPT ![c].open = FALSE, ![c].part = FALSE]
  BY DEF Down
<1>3. OneOpen
  BY <1>2 DEF LoneInOrder
<1> DEFINE x == cl[c]
           no == FALSE
           y == [[x EXCEPT !.open = no] EXCEPT !.part = no]
<1>4. cl' = [cl EXCEPT ![c] = y] /\ x \in ClientRecs
  BY <1>1, <1>2 DEF Types
<1> HIDE DEF x, no
<1>5. y.st = x.st
  BY <1>4 DEF ClientRecs
<1> HIDE DEF y
<1>6. cl'[c] = y /\ \A d \in Clients \ {c} : ~cl[d].open /\ cl'[d] = cl[d]
  BY <1>1, <1>2, <1>3, <1>4, OthersClosed DEF Types
<1>7. cl'[c].st \notin {"asks", "sent"}
  BY <1>2, <1>5, <1>6 DEF x
<1> QED BY <1>1, <1>6, <1>7, StagesKeep

\* A client that is killed is at no stage.
LEMMA KillStage ==
  ASSUME UploadInOrder, LoneInOrder, Stages, NEW c \in Clients, Kill(c)
  PROVE  Stages'
<1> SUFFICES ASSUME order' = "smooth" PROVE Stages'
  BY DEF Stages
<1>1. Types /\ AllFit
  BY DEF UploadInOrder
<1>2. /\ cl[c].st \in {"asks", "sent"} /\ cl' = [cl EXCEPT ![c].st = "killed"] /\ order = "smooth"
  BY DEF Kill
<1>3. OneOpen
  BY <1>2 DEF LoneInOrder
<1> DEFINE x == cl[c]
           k == "killed"
           y == [x EXCEPT !.st = k]
<1>4. cl' = [cl EXCEPT ![c] = y] /\ x \in ClientRecs /\ k = "killed"
  BY <1>1, <1>2 DEF Types
<1>5. cl[c].open
  BY <1>1, <1>2 DEF AllFit, Fits
<1> HIDE DEF x, k
<1>6. y.st = k
  BY <1>4 DEF ClientRecs
<1> HIDE DEF y
<1>7. cl'[c] = y /\ \A d \in Clients \ {c} : ~cl[d].open /\ cl'[d] = cl[d]
  BY <1>1, <1>3, <1>4, <1>5, OthersClosed DEF Types
<1>8. cl'[c].st \notin {"asks", "sent"}
  BY <1>4, <1>6, <1>7
<1> QED BY <1>1, <1>7, <1>8, StagesKeep

(* A client that starts alone asks, or is not heard.                        *)
LEMMA StartStage ==
  ASSUME UploadInOrder, NEW c \in Clients, Start(c)
  PROVE  Stages'
<1> SUFFICES ASSUME order' = "smooth" PROVE Stages'
  BY DEF Stages
<1>1. Types /\ AllFit
  BY DEF UploadInOrder
<1>2. /\ cl[c] \in ClientRecs /\ Fits(cl[c], wire[c], buf[c], back[c])
  BY <1>1, ClientParts
<1>3. /\ cl[c].st = "idle" /\ px' = onConnection(px)
      /\ order' = (IF \E d \in Clients : cl[d].open THEN "overlapped" ELSE order)
      /\ UNCHANGED <<back, buf, FileMap, srv, forwarded>>
  BY DEF Start
<1>4. PICK f \in Choice[c], test \in {FALSE} \cup {t \in {TRUE} : c \in Testers} :
        ClientStep(c, [mySocket1(cl[c]) EXCEPT !.st = "asks", !.file = f, !.test = test], Asks(f, test))
  BY Zenon DEF Start
<1>5. f \in Files /\ test \in BOOLEAN
  BY UploadAssumption
<1>6. wire[c] = <<>> /\ buf[c] = <<>> /\ back[c] = <<>>
  BY <1>2, <1>3 DEF Fits
<1>7. \A d \in Clients : ~cl[d].open
  BY <1>3
<1> DEFINE x == cl[c]
           yes == TRUE
           a == "asks"
           y == [[[[x EXCEPT !.open = yes] EXCEPT !.st = a] EXCEPT !.file = f] EXCEPT !.test = test]
           w == Asks(f, test)
<1>8. cl' = [cl EXCEPT ![c] = y] /\ wire' = [wire EXCEPT ![c] = <<>> \o w] /\ a = "asks"
  BY <1>1, <1>4, <1>6 DEF ClientStep, mySocket1, Types
<1>9. x \in ClientRecs
  BY <1>2
<1> HIDE DEF x, yes, a
<1>10. y.file = f /\ y.st = a /\ y.test = test
  BY <1>5, <1>9 DEF ClientRecs
<1>11. IF test THEN w = <<Header(f)>> ELSE w = <<Op, Header(f)>>
  BY DEF Asks
<1>12. w \in Seq({Op, Header(f)})
  <2>1. <<Header(f)>> \in Seq({Op, Header(f)}) /\ <<Op, Header(f)>> \in Seq({Op, Header(f)})
    OBVIOUS
  <2> HIDE DEF w
  <2> QED BY <1>11, <2>1, Zenon
<1> HIDE DEF y, w
<1>13. <<>> \o w = w
  BY <1>12
<1>14. /\ cl'[c] = y /\ wire'[c] = w /\ buf'[c] = <<>> /\ back'[c] = <<>>
       /\ \A d \in Clients \ {c} : ~cl[d].open /\ cl'[d] = cl[d]
  BY <1>1, <1>3, <1>6, <1>7, <1>8, <1>13 DEF Types
<1>15. px'.Operate = "sw"
  <2> DEFINE g == px'
             p == px
             q == [p EXCEPT !.Operate = "sw"]
  <2>1. p \in Globals /\ g = [q EXCEPT !.upStatu = 1]
    BY <1>1, <1>3 DEF Types, onConnection
  <2> HIDE DEF g, p
  <2>2. g.Operate = "sw"
    BY <2>1 DEF Globals
  <2> QED BY <2>2 DEF g
<1>16. Stage(y, w, <<>>, <<>>, px', FileMap')
  <2>1. CASE test
    <3>1. Unheard(y, w, <<>>, <<>>, px')
      BY <1>8, <1>10, <1>11, <1>15, <2>1 DEF Unheard
    <3> QED BY <3>1 DEF Stage
  <2>2. CASE ~test
    <3>1. Asking(y, w, <<>>, <<>>, px')
      BY <1>8, <1>10, <1>11, <1>15, <2>2 DEF Asking
    <3> QED BY <3>1 DEF Stage
  <2> QED BY <2>1, <2>2
<1> QED BY <1>1, <1>14, <1>16, StagesKeep

(* What a client sends after an answer, in one.                             *)
LEMMA SendsTyped ==
  ASSUME NEW x \in ClientRecs, NEW f \in Files, f = x.file, NEW r
  PROVE  Sends(x, r) \in Seq(UnitsOf(f))
<1> DEFINE s == updateuploadId(x, r)
           i == x.uploadId \cup r.ids
           a == IF x.st = "asks" /\ r = ACK THEN Md5s(f) ELSE <<>>
           q == sendFileBlock(s)
           m == Md5s(f)
           S == UnitsOf(f)
<1>1. s.file = f
  <2>1. s = (IF r.r = "ids" THEN [x EXCEPT !.uploadId = i] ELSE x) /\ i = x.uploadId \cup r.ids
    BY DEF updateuploadId
  <2> HIDE DEF s, i
  <2> QED BY <2>1 DEF ClientRecs
<1>2. q \in Seq(S) /\ m \in Seq(S)
  <2> HIDE DEF s
  <2> QED BY <1>1, SendsType
<1>3. Sends(x, r) = a \o q
  BY DEF Sends
<1>4. a = m \/ a = <<>>
  OBVIOUS
<1> HIDE DEF S, a, q, m
<1>5. <<>> \in Seq(S)
  OBVIOUS
<1>6. a \in Seq(S)
  BY <1>2, <1>4, <1>5, Zenon
<1>7. a \o q \in Seq(S)
  BY <1>2, <1>6
<1> QED BY <1>3, <1>7 DEF S

(* No unit is put before q.                                                 *)
LEMMA NoneBefore ==
  ASSUME NEW S, NEW q \in Seq(S)
  PROVE  <<>> \o q = q
OBVIOUS

(* What a client sends when it was answered a first time.                   *)
LEMMA AnsweredSends ==
  ASSUME NEW x \in ClientRecs, NEW f \in Files, f = x.file, x.uploadId = {}, NEW b, NEW p, NEW m, NEW r,
         Answered(x, <<>>, b, <<r>>, p, m), r # Success, Phased(p, m), p.upStatu \in {2, 3} => p.g_FileName = FileName[f],
         m \in Maps,
         NEW y, y.file = f, y.st = "sent"
  PROVE  Stage(y, Sends(x, r), b, <<>>, p, m)
<1> DEFINE n == blockNum(f)
           v == m[FileName[f]]
           s == updateuploadId(x, r)
           q == sendFileBlock(s)
           i == x.uploadId \cup r.ids
<1>1. /\ x.st = "asks" /\ b = <<>> /\ p.Operate = "up"
      /\ \/ p.upStatu = 2 /\ r = ACK
         \/ p.upStatu = 3 /\ r = Ids(v) /\ ~lsFileFinish(v)
  BY DEF Answered
<1>2. n \in Nat
  BY Cutting
<1>3. s.file = f /\ s.uploadId = (IF r.r = "ids" THEN x.uploadId \cup r.ids ELSE x.uploadId)
  <2>1. s = (IF r.r = "ids" THEN [x EXCEPT !.uploadId = i] ELSE x) /\ i = x.uploadId \cup r.ids
    BY DEF updateuploadId
  <2> HIDE DEF s, i
  <2> QED BY <2>1 DEF ClientRecs
<1>4. Pending(q, f, (0 .. n - 1) \ s.uploadId)
  <2> HIDE DEF s
  <2> QED BY <1>3, SendsPending
<1>5. q \in Seq(Blocks(f))
  BY <1>4 DEF Pending
<1>6. Sends(x, r) = (IF r = ACK THEN Md5s(f) ELSE <<>>) \o q
  BY <1>1 DEF Sends
<1> HIDE DEF s, q
<1>7. CASE p.upStatu = 2 /\ r = ACK
  <2>1. s.uploadId = {}
    BY <1>3, <1>7 DEF ACK
  <2>2. Pending(q, f, 0 .. n - 1)
    BY <1>4, <2>1
  <2>3. CASE n = 0
    <3>1. Md5s(f) = <<>> /\ Blocks(f) = {}
      BY <2>3 DEF Md5s, Blocks
    <3>2. q = <<>>
      BY <1>5, <3>1
    <3>3. Sends(x, r) = <<>>
      BY <1>6, <1>7, <3>1, <3>2
    <3>4. SentAll(y, Sends(x, r), b, <<>>, p)
      BY <1>1, <1>7, <2>3, <3>3 DEF SentAll
    <3> QED BY <3>4 DEF Stage
  <2>4. CASE n # 0
    <3> DEFINE u == Sums1(f)
               w == <<u>> \o q
               S == Blocks(f)
    <3>1. Md5s(f) = <<u>>
      BY <2>4 DEF Md5s, Sums1
    <3>2. Sends(x, r) = w
      BY <1>6, <1>7, <3>1
    <3>3. q \in Seq(S) /\ w = <<u>> \o q
      BY <1>5
    <3> HIDE DEF u, w, S
    <3>4. w # <<>> /\ Head(w) = u /\ Tail(w) = q
      BY <3>3
    <3>5. SentAll(y, w, b, <<>>, p)
      BY <1>1, <1>7, <2>2, <2>4, <3>4 DEF SentAll, u
    <3> QED BY <3>2, <3>5 DEF Stage
  <2> QED BY <2>3, <2>4
<1>8. CASE p.upStatu = 3 /\ r = Ids(v) /\ ~lsFileFinish(v)
  <2>1. r.r = "ids" /\ r.ids = v.uploadId /\ r # ACK
    BY <1>8 DEF Ids, ACK
  <2>2. s.uploadId = v.uploadId
    BY <1>3, <2>1
  <2>3. Pending(q, f, (0 .. n - 1) \ v.uploadId)
    BY <1>4, <2>2
  <2>4. Pending(q, f, Missing(f, v))
    BY <2>3 DEF Pending, Missing
  <2>5. Sends(x, r) = q
    BY <1>5, <1>6, <2>1, NoneBefore
  <2>6. Sending(y, q, b, <<>>, p, m)
    BY <1>1, <1>8, <2>4 DEF Sending
  <2> QED BY <2>5, <2>6 DEF Stage
<1> QED BY <1>1, <1>7, <1>8

\* A client that is told "success" is done, another one sends its blocks.
LEMMA ReceiveStage ==
  ASSUME UploadInOrder, LoneInOrder, Stages, NEW c \in Clients, Receive(c)
  PROVE  Stages'
<1> SUFFICES ASSUME order' = "smooth" PROVE Stages'
  BY DEF Stages
<1>1. Types /\ AllFit /\ Phased(px, FileMap)
  BY DEF UploadInOrder
<1> DEFINE r == Head(back[c])
           x == cl[c]
           f == cl[c].file
<1>2. x \in ClientRecs /\ f \in Files /\ back[c] \in Seq(Answers) /\ Fits(x, wire[c], buf[c], back[c])
      /\ wire[c] \in Seq(UnitsOf(f))
  BY <1>1, ClientParts
<1>3. /\ x.st \in {"asks", "sent"} /\ back[c] # <<>> /\ back' = [back EXCEPT ![c] = Tail(@)]
      /\ IF r = Success THEN ClientStep(c, [x EXCEPT !.st = "done"], <<>>)
         ELSE ClientStep(c, [updateuploadId(x, r) EXCEPT !.st = "sent"], Sends(x, r))
      /\ UNCHANGED <<px, buf, FileMap, srv, forwarded, order>>
  BY Zenon DEF Receive
<1>4. order = "smooth" /\ Sized(FileMap) /\ OneOpen /\ EachAlone
  BY <1>3 DEF LoneInOrder
<1>5. x.open
  BY <1>2, <1>3 DEF Fits
<1>6. \A d \in Clients \ {c} : ~cl[d].open /\ cl'[d] = cl[d]
  BY <1>1, <1>3, <1>4, <1>5, OthersClosed DEF ClientStep, Types
<1>7. Stage(x, wire[c], buf[c], back[c], px, FileMap)
  BY <1>3, <1>4 DEF Stages
<1>8. CASE r = Success
  <2> DEFINE k == "done"
             y == [x EXCEPT !.st = k]
  <2>1. cl'[c] = y /\ k = "done" /\ x \in ClientRecs
    BY <1>1, <1>2, <1>3, <1>8 DEF ClientStep, Types
  <2> HIDE DEF k, x
  <2>2. y.st = k
    BY <2>1 DEF ClientRecs
  <2> HIDE DEF y
  <2>3. cl'[c].st \notin {"asks", "sent"}
    BY <2>1, <2>2
  <2> QED BY <1>1, <1>6, <2>3, StagesKeep
<1>9. CASE r # Success
  <2> DEFINE z == updateuploadId(x, r)
             k == "sent"
             y == [z EXCEPT !.st = k]
             i == x.uploadId \cup r.ids
             w == wire[c]
             b == buf[c]
             a == back[c]
  <2>1. /\ cl'[c] = y /\ k = "sent"
        /\ wire'[c] = w \o Sends(x, r) /\ back'[c] = Tail(a) /\ buf'[c] = b /\ px' = px /\ FileMap' = FileMap
    BY <1>1, <1>3, <1>9 DEF ClientStep, Types
  <2>2. ~Unheard(x, w, b, a, px) /\ ~Asking(x, w, b, a, px) /\ ~SentAll(x, w, b, a, px)
        /\ ~Sending(x, w, b, a, px, FileMap)
    BY <1>3 DEF Unheard, Asking, SentAll, Sending
  <2>3. ~Finished(x, a, px)
    <3> SUFFICES ASSUME Finished(x, a, px) PROVE FALSE
      OBVIOUS
    <3>1. a = <<Success>>
      BY DEF Finished
    <3> QED BY <1>9, <3>1
  <2>4. Answered(x, w, b, a, px, FileMap)
    BY <1>7, <2>2, <2>3 DEF Stage
  <2>5. w = <<>> /\ x.st = "asks" /\ x.uploadId = {}
    BY <1>2, <2>4 DEF Answered, Fits
  <2>6. \E s : a = <<s>>
    BY <1>3, <2>4 DEF Answered
  <2>7. a = <<r>> /\ Tail(a) = <<>>
    BY <2>6
  <2>8. y.file = f /\ y.st = "sent"
    <3>1. z = (IF r.r = "ids" THEN [x EXCEPT !.uploadId = i] ELSE x) /\ f = x.file /\ y = [z EXCEPT !.st = k]
      BY DEF updateuploadId
    <3>2. x \in ClientRecs
      BY <1>2
    <3> HIDE DEF x, z, i, k, y, f
    <3> QED BY <2>1, <3>1, <3>2 DEF ClientRecs
  <2>9. px.upStatu \in {2, 3} => px.g_FileName = FileName[f]
    BY <1>4, <1>5 DEF EachAlone, Alone
  <2>10. Stage(y, Sends(x, r), b, <<>>, px, FileMap)
    <3>1. /\ x \in ClientRecs /\ f \in Files /\ f = x.file /\ x.uploadId = {}
          /\ Answered(x, <<>>, b, <<r>>, px, FileMap) /\ r # Success /\ FileMap \in Maps
      BY <1>1, <1>2, <1>9, <2>4, <2>5, <2>7 DEF Types
    <3> HIDE DEF x, f, r, y, b
    <3> QED BY <1>1, <2>8, <2>9, <3>1, AnsweredSends
  <2>11. w \o Sends(x, r) = Sends(x, r)
    <3>1. Sends(x, r) \in Seq(UnitsOf(f))
      BY <1>2, SendsTyped
    <3> HIDE DEF w, r, x, f
    <3> QED BY <2>5, <3>1, NoneBefore
  <2>12. Stage(cl'[c], wire'[c], buf'[c], back'[c], px', FileMap')
    <3> HIDE DEF x, r, y, w, a, b
    <3> QED BY <2>1, <2>7, <2>10, <2>11
  <2> QED BY <1>1, <1>6, <2>12, StagesKeep
<1> QED BY <1>8, <1>9

\* Nobody has asked.
LEMMA InitStages ==
  ASSUME Init
  PROVE  Stages
BY DEF Init, Stages, Fresh

\* Every step.
LEMMA NextStages ==
  ASSUME UploadInOrder, LoneInOrder, Stages, [Next]_vars
  PROVE  Stages'
<1>1. CASE UNCHANGED vars
  BY <1>1 DEF vars, Stages
<1>2. ASSUME NEW c \in Clients, Proxy(c) PROVE Stages'
  BY <1>2, ReadStage, ReadPartStage, DownStage DEF Proxy
<1>3. ASSUME NEW c \in Clients, Receive(c) PROVE Stages'
  BY <1>3, ReceiveStage
<1>4. ASSUME NEW s \in Servers, ServerReads(s) PROVE Stages'
  <2>1. UNCHANGED <<cl, wire, back, px, buf, FileMap>>
    BY <1>4 DEF ServerReads
  <2>2. PICK k \in 1 .. Len(srv[s].in) : order' = Reads(k)
    BY <1>4, Zenon DEF ServerReads
  <2>3. order' = "smooth" => order = "smooth"
    BY <2>2 DEF Reads
  <2> QED BY <2>1, <2>3 DEF Stages
<1>5. ASSUME NEW c \in Clients, Start(c) PROVE Stages'
  BY <1>5, StartStage
<1>6. ASSUME NEW c \in Clients, Kill(c) PROVE Stages'
  BY <1>6, KillStage
<1> QED BY <1>1, <1>2, <1>3, <1>4, <1>5, <1>6 DEF Next, Work

\* One client at a time, one unit in each read: every upload is at one of the
\* stages, between the operation and the last "success".
THEOREM UploadStages == Spec => []Stages
<1>1. Init => UploadInOrder /\ LoneInOrder /\ Stages
  BY InitInOrder, InitAlone, InitStages
<1>2. UploadInOrder /\ LoneInOrder /\ Stages /\ [Next]_vars => UploadInOrder' /\ LoneInOrder' /\ Stages'
  BY NextKeeps, NextAlone, NextStages
<1> QED BY <1>1, <1>2, PTL DEF Spec

(* With nothing left to read, no upload is in the middle.                   *)
LEMMA StagesEnd ==
  ASSUME UploadInOrder, LoneInOrder, Stages
  PROVE  UploadEnds
<1> SUFFICES ASSUME order = "smooth", Quiet, NEW c \in Clients
             PROVE  LET f == cl[c].file
                        v == FileMap[FileName[f]] IN
                    /\ cl[c].st = "asks" => cl[c].test \/ v.uploadId = {}
                    /\ cl[c].st = "sent" /\ blockNum(f) > 0 =>
                         \E i \in 0 .. blockNum(f) - 1 : v.md5[i] # getMD5(BlockFile(f, i))
  BY Zenon DEF UploadEnds
<1> DEFINE x == cl[c]
           f == x.file
           v == FileMap[FileName[f]]
           w == wire[c]
           r == back[c]
           b == buf[c]
           n == blockNum(f)
<1>1. Types /\ AllFit /\ Phased(px, FileMap)
  BY DEF UploadInOrder
<1>2. x \in ClientRecs /\ f \in Files /\ n \in Nat
  BY <1>1, ClientParts, Cutting
<1>3. w = <<>> /\ r = <<>>
  BY DEF Quiet
<1>4. ASSUME x.st \in {"asks", "sent"} PROVE Stage(x, w, b, r, px, FileMap)
  BY <1>4 DEF Stages
<1>5. ~Asking(x, w, b, r, px) /\ ~Finished(x, r, px)
  BY <1>3 DEF Asking, Finished
<1>6. ASSUME x.st = "asks" PROVE x.test \/ v.uploadId = {}
  <2>1. CASE Unheard(x, w, b, r, px)
    BY <2>1 DEF Unheard
  <2>2. CASE Answered(x, w, b, r, px, FileMap)
    BY <1>3, <2>2 DEF Answered
  <2> QED BY <1>4, <1>5, <1>6, <2>1, <2>2 DEF Stage, SentAll, Sending
<1>7. ASSUME x.st = "sent", n > 0
      PROVE  \E i \in 0 .. n - 1 : v.md5[i] # getMD5(BlockFile(f, i))
  <2>1. ~SentAll(x, w, b, r, px)
    BY <1>2, <1>3, <1>7 DEF SentAll
  <2>2. Sending(x, w, b, r, px, FileMap)
    BY <1>4, <1>5, <1>7, <2>1 DEF Stage, Unheard, Answered
  <2>3. ~lsFileFinish(v) /\ Pending(w, f, Missing(f, v)) /\ px.upStatu = 3
    BY <2>2 DEF Sending
  <2>4. x.open
    BY <1>1, <1>7 DEF AllFit, Fits
  <2>5. FileName[f] \in DOMAIN FileMap /\ v.blockNum = n
    BY <1>1, <1>2, <2>3, <2>4 DEF LoneInOrder, EachAlone, Alone, Phased, Sized
  <2>6. Missing(f, v) = {}
    BY <1>3, <2>3 DEF Pending
  <2>7. PICK i \in 0 .. n - 1 : i \notin v.uploadId
    BY <2>3, <2>5 DEF lsFileFinish
  <2> QED BY <2>6, <2>7 DEF Missing
<1> QED BY <1>6, <1>7

\* One client at a time, one unit in each read: when nothing is left to read,
\* a client waits only for a reason of those listed.
THEOREM UploadsEnd == Spec => []UploadEnds
<1>1. UploadInOrder /\ LoneInOrder /\ Stages => UploadEnds
  BY StagesEnd
<1> QED BY <1>1, UploadsStayInOrder, LoneUploadInOrder, UploadStages, PTL
=============================================================================

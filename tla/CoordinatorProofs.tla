------------------------- MODULE CoordinatorProofs -------------------------
(***************************************************************************)
(* Proofs about Coordinator, for any number of names, nodes, contents,     *)
(* block lists and concurrent requests: its types, that complete files are *)
(* whole, that it implements Namespace, what a download delivers, and      *)
(* where an uploaded block is; and about CoordinatorTS: that it keeps the  *)
(* invariant of the Go coordinator, and what its successes say.            *)
(***************************************************************************)
EXTENDS CoordinatorTS, SequenceTheorems, TLAPS

-----------------------------------------------------------------------------
(* Rows and nodes *)

LEMMA ReplicasType ==
  ASSUME NEW b \in Hashes
  PROVE  ReplicasOf(b) \in Seq(Nodes) /\ ReplicasOf(b) # <<>>
<1>1. /\ Replicas \in Nat /\ 1 <= Replicas /\ Replicas <= Len(PickOrder[b])
      /\ PickOrder[b] \in Seq(Nodes)
  BY CoordinatorAssumption
<1>2. \A i \in 1..Replicas : PickOrder[b][i] \in Nodes
  BY <1>1, ElementOfSeq
<1>3. ReplicasOf(b) \in Seq(Nodes) /\ Len(ReplicasOf(b)) = Replicas
  BY <1>1, <1>2, SubSeqProperties DEF ReplicasOf
<1> QED BY <1>1, <1>3

LEMMA CandidatesType ==
  ASSUME NEW row \in Row, row.nodes # <<>>
  PROVE  Candidates(row) \in Seq(Nodes) /\ Candidates(row) # <<>>
<1> DEFINE N == Cardinality(Nodes)
           rest == SubSeq(PickOrder[row.hash], Len(row.nodes) + 1, N)
<1>1. /\ row.hash \in Hashes /\ row.nodes \in Seq(Nodes) /\ Len(row.nodes) \in Nat \ {0}
      /\ PickOrder[row.hash] \in Seq(Nodes) /\ Len(PickOrder[row.hash]) = N
      /\ N \in Nat
  BY CoordinatorAssumption, EmptySeq, LenProperties DEF Row
<1>2. \A i \in Len(row.nodes) + 1 .. N : PickOrder[row.hash][i] \in Nodes
  BY <1>1, ElementOfSeq
<1>3. rest \in Seq(Nodes)
  BY <1>1, <1>2, SubSeqProperties
<1>4. Candidates(row) \in Seq(Nodes) /\ Len(Candidates(row)) = Len(row.nodes) + Len(rest)
  BY <1>1, <1>3, ConcatProperties DEF Candidates
<1> QED BY <1>1, <1>3, <1>4, LenProperties

LEMMA RowsForType ==
  ASSUME NEW m \in Manifests
  PROVE  /\ RowsFor(m) \in Seq(Row)
         /\ HaveNodes(RowsFor(m))
         /\ HashesOf(RowsFor(m)) = m.blocks
<1>1. m.blocks \in Seq(Hashes)
  BY MetaStoreAssumption
<1>2. /\ Len(m.blocks) \in Nat /\ DOMAIN m.blocks = 1..Len(m.blocks)
      /\ \A i \in DOMAIN m.blocks : m.blocks[i] \in Hashes
  BY <1>1, LenProperties, ElementOfSeq
<1>3. RowsFor(m) \in [1..Len(m.blocks) -> Row]
  BY <1>2, ReplicasType DEF RowsFor, Row
<1>4. RowsFor(m) \in Seq(Row)
  BY <1>2, <1>3, SeqDef
<1>5. HaveNodes(RowsFor(m))
  BY <1>2, ReplicasType DEF RowsFor, HaveNodes
<1>6. HashesOf(RowsFor(m)) = m.blocks
  BY <1>1, <1>2, LenProperties DEF HashesOf, RowsFor
<1> QED BY <1>4, <1>5, <1>6

LEMMA OneRow ==
  ASSUME NEW row \in Row, row.nodes # <<>>
  PROVE  <<row>> \in Seq(Row) /\ HaveNodes(<<row>>) /\ <<row>> # <<>>
<1>1. <<row>> \in Seq(Row) /\ <<row>> # <<>>
  OBVIOUS
<1>2. DOMAIN <<row>> = {1} /\ <<row>>[1] = row
  OBVIOUS
<1> QED BY <1>1, <1>2 DEF HaveNodes

LEMMA HashesType ==
  ASSUME NEW rows \in Seq(Row)
  PROVE  HashesOf(rows) \in Seq(Hashes)
<1>1. /\ Len(rows) \in Nat /\ DOMAIN rows = 1..Len(rows)
      /\ \A i \in 1..Len(rows) : rows[i] \in Row
  BY LenProperties, ElementOfSeq
<1>2. HashesOf(rows) \in [1..Len(rows) -> Hashes]
  BY <1>1 DEF HashesOf, Row
<1> QED BY <1>1, <1>2, SeqDef

LEMMA LongTail ==
  ASSUME NEW s \in Seq(Nodes), Len(s) > 1
  PROVE  Tail(s) \in Seq(Nodes) /\ Tail(s) # <<>>
<1>1. s # <<>> /\ Len(s) \in Nat
  BY EmptySeq, LenProperties
<1>2. Tail(s) \in Seq(Nodes) /\ Len(Tail(s)) = Len(s) - 1
  BY <1>1, HeadTailProperties
<1>3. Len(Tail(s)) # 0
  BY <1>1, <1>2
<1> QED BY <1>2, <1>3, EmptySeq

LEMMA TailHasNodes ==
  ASSUME NEW rows \in Seq(Row), rows # <<>>, HaveNodes(rows)
  PROVE  /\ Tail(rows) \in Seq(Row) /\ HaveNodes(Tail(rows))
         /\ Head(rows) \in Row /\ Head(rows).nodes # <<>> /\ Head(rows) = rows[1]
<1>1. /\ Len(rows) \in Nat \ {0} /\ DOMAIN rows = 1..Len(rows)
      /\ Tail(rows) \in Seq(Row) /\ Len(Tail(rows)) = Len(rows) - 1
      /\ Head(rows) \in Row
      /\ \A i \in 1..Len(Tail(rows)) : Tail(rows)[i] = rows[i + 1]
  BY HeadTailProperties, EmptySeq, LenProperties
<1>2. DOMAIN Tail(rows) = 1..Len(Tail(rows))
  BY <1>1, LenProperties
<1> QED BY <1>1, <1>2 DEF HaveNodes

-----------------------------------------------------------------------------
(* One handler's step *)

Inv == TypeOK /\ ServerInOrder

InOrder(l) == l \in Handler /\ HandlerInOrder(l)

\* A handler that is serving a request, with what it knows of it.
Serving(l) == InOrder(l) /\ l.pc # "idle"

LEMMA IdleInOrder == InOrder(Idle) /\ Idle.file = NoFile /\ Idle.pc = "idle"
<1>1. 0 \in 0..MaxIdx
  BY CoordinatorAssumption
<1>2. Idle \in Handler
  BY <1>1, EmptySeq DEF Idle, Handler, PCs, Replies
<1>3. HandlerInOrder(Idle)
  BY EmptySeq DEF Idle, HandlerInOrder, HaveNodes, NoFileYet
<1> QED BY <1>2, <1>3 DEF InOrder, Idle

LEMMA DoneInOrder ==
  ASSUME NEW l, Serving(l), NEW reply \in Replies
  PROVE  InOrder(Done(l, reply)) /\ Done(l, reply).file = l.file
                                /\ Done(l, reply).pc = "done"
<1>1. Done(l, reply) \in Handler
  BY EmptySeq DEF Serving, InOrder, Done, Handler, PCs
<1>2. /\ Done(l, reply).pc = "done" /\ Done(l, reply).op = l.op
      /\ Done(l, reply).name = l.name /\ Done(l, reply).file = l.file
      /\ Done(l, reply).rows = <<>>
  BY DEF Serving, InOrder, Done, Handler
<1> QED BY <1>1, <1>2, EmptySeq DEF Serving, InOrder, HandlerInOrder, HaveNodes, NoFileYet

LEMMA StreamedInOrder ==
  ASSUME NEW l, Serving(l), l.file # NoFile, NEW rows \in Seq(Row), HaveNodes(rows)
  PROVE  InOrder(Streamed(l, rows)) /\ Streamed(l, rows).file = l.file
                                   /\ Streamed(l, rows).pc # "update"
<1>1. CASE rows = <<>>
  BY <1>1, DoneInOrder DEF Streamed, Length, Replies
<1>2. CASE rows # <<>>
  <2>1. Head(rows) \in Row /\ Head(rows).nodes # <<>>
    BY <1>2, TailHasNodes
  <2>2. Candidates(Head(rows)) \in Seq(Nodes) /\ Candidates(Head(rows)) # <<>>
    BY <2>1, CandidatesType
  <2>3. Streamed(l, rows) \in Handler
    BY <1>2, <2>2 DEF Serving, InOrder, Streamed, Handler, PCs
  <2>4. /\ Streamed(l, rows).pc = "stream" /\ Streamed(l, rows).op = l.op
        /\ Streamed(l, rows).name = l.name /\ Streamed(l, rows).file = l.file
        /\ Streamed(l, rows).rows = rows
        /\ Streamed(l, rows).cand = Candidates(Head(rows))
    BY <1>2 DEF Serving, InOrder, Streamed, Handler
  <2> QED BY <1>2, <2>2, <2>3, <2>4 DEF Serving, InOrder, HandlerInOrder
<1> QED BY <1>1, <1>2

LEMMA UnlinkingInOrder ==
  ASSUME NEW l, Serving(l), l.file # NoFile, NEW rows \in Seq(Row), HaveNodes(rows)
  PROVE  InOrder(Unlinking(l, rows)) /\ Unlinking(l, rows).file = l.file
                                    /\ Unlinking(l, rows).pc # "update"
<1>1. CASE rows = <<>>
  <2>1. Unlinking(l, rows) \in Handler
    BY <1>1, EmptySeq DEF Serving, InOrder, Unlinking, Handler, PCs
  <2>2. /\ Unlinking(l, rows).pc = "drop" /\ Unlinking(l, rows).op = l.op
        /\ Unlinking(l, rows).name = l.name /\ Unlinking(l, rows).file = l.file
        /\ Unlinking(l, rows).rows = <<>>
    BY <1>1 DEF Serving, InOrder, Unlinking, Handler
  <2> QED BY <2>1, <2>2 DEF Serving, InOrder, HandlerInOrder, HaveNodes
<1>2. CASE rows # <<>>
  <2>1. Head(rows) \in Row /\ Head(rows).nodes # <<>>
    BY <1>2, TailHasNodes
  <2>2. Unlinking(l, rows) \in Handler
    BY <1>2, <2>1 DEF Serving, InOrder, Unlinking, Handler, PCs, Row
  <2>3. /\ Unlinking(l, rows).pc = "unlink" /\ Unlinking(l, rows).op = l.op
        /\ Unlinking(l, rows).name = l.name /\ Unlinking(l, rows).file = l.file
        /\ Unlinking(l, rows).rows = rows
        /\ Unlinking(l, rows).cand = Head(rows).nodes
    BY <1>2 DEF Serving, InOrder, Unlinking, Handler
  <2> QED BY <1>2, <2>1, <2>2, <2>3 DEF Serving, InOrder, HandlerInOrder
<1> QED BY <1>1, <1>2

\* The next of several nodes to try.
LEMMA NextNodeInOrder ==
  ASSUME NEW l, Serving(l), Len(l.cand) > 1, l.pc # "mark"
  PROVE  LET k == [l EXCEPT !.cand = Tail(l.cand)]
         IN  InOrder(k) /\ k.file = l.file /\ k.pc = l.pc
<1> DEFINE k == [l EXCEPT !.cand = Tail(l.cand)]
<1>1. l.cand \in Seq(Nodes) /\ l.cand # <<>>
  BY EmptySeq DEF Serving, InOrder, Handler
<1>2. Tail(l.cand) \in Seq(Nodes) /\ Tail(l.cand) # <<>>
  BY <1>1, LongTail
<1>3. k \in Handler
  BY <1>2 DEF Serving, InOrder, Handler
<1>4. /\ k.pc = l.pc /\ k.op = l.op /\ k.name = l.name /\ k.file = l.file
      /\ k.man = l.man /\ k.rows = l.rows /\ k.cand = Tail(l.cand)
  BY DEF Serving, InOrder, Handler
<1> QED BY <1>2, <1>3, <1>4 DEF Serving, InOrder, HandlerInOrder

LEMMA FannedInOrder ==
  ASSUME NEW l, Serving(l), l.pc = "fanout", NEW took \in SUBSET Nodes
  PROVE  InOrder(Fanned(l, took)) /\ Fanned(l, took).file = l.file
                                 /\ Fanned(l, took).pc # "update"
<1>1. CASE Len(l.cand) > 1
  <2> DEFINE k == [l EXCEPT !.cand = Tail(l.cand), !.took = took]
  <2>1. l.cand \in Seq(Nodes) /\ l.cand # <<>>
    BY <1>1, EmptySeq DEF Serving, InOrder, Handler
  <2>2. Tail(l.cand) \in Seq(Nodes) /\ Tail(l.cand) # <<>>
    BY <1>1, <2>1, LongTail
  <2>3. k \in Handler
    BY <2>2 DEF Serving, InOrder, Handler
  <2>4. /\ k.pc = l.pc /\ k.op = l.op /\ k.name = l.name /\ k.file = l.file
        /\ k.rows = l.rows /\ k.cand = Tail(l.cand)
    BY DEF Serving, InOrder, Handler
  <2>5. Fanned(l, took) = k
    BY <1>1 DEF Fanned
  <2> QED BY <2>2, <2>3, <2>4, <2>5 DEF Serving, InOrder, HandlerInOrder
<1>2. CASE ~(Len(l.cand) > 1) /\ took = {}
  BY <1>2, DoneInOrder DEF Fanned, Replies
<1>3. CASE ~(Len(l.cand) > 1) /\ took # {}
  <2>1. Fanned(l, took) \in Handler
    BY <1>3, EmptySeq DEF Serving, InOrder, Fanned, Handler, PCs
  <2> QED BY <1>3, <2>1, EmptySeq
          DEF Serving, InOrder, Handler, HandlerInOrder, Fanned, NoFileYet
<1> QED BY <1>1, <1>2, <1>3

-----------------------------------------------------------------------------
(* What a step makes of its handler's state, and of the tables             *)

\* The file a handler may hold after a step: the one it had, or a row read.
Known(l, f) == f \in {l.file, NoFile} \/ \E n \in Names : Exists(n) /\ f = files[n]

StepTo(c, l) == /\ Become(c, l) /\ InOrder(l) /\ Known(h[c], l.file)
                /\ l.pc = "update" => MissingBlocks(l.file.id) = {}

LEMMA AnswerSteps ==
  ASSUME NEW c, Serving(h[c]), NEW reply \in Replies, Become(c, Done(h[c], reply))
  PROVE  \E l : StepTo(c, l)
  BY DoneInOrder DEF StepTo, Known

\* The rows of an id that was read from the tables.
LEMMA RowsOfFile ==
  ASSUME TypeOK, DbInOrder, NEW f \in FileRow
  PROVE  /\ blocks[f.id] \in Seq(Row) /\ HaveNodes(blocks[f.id])
         /\ \A i \in DOMAIN blocks[f.id] : /\ blocks[f.id][i] \in Row
                                          /\ blocks[f.id][i].nodes # <<>>
<1>1. f.id \in Ids
  BY DEF FileRow
<1>2. blocks[f.id] \in Seq(Row) /\ HaveNodes(blocks[f.id])
  BY <1>1 DEF TypeOK, DbTypeOK, DbInOrder
<1> QED BY <1>2, LenProperties, ElementOfSeq DEF HaveNodes

LEMMA StepHandler ==
  ASSUME Inv, NEW c \in Handlers, Step(c)
  PROVE  \E l : StepTo(c, l)
<1> USE DEF At
<1>0. TypeOK /\ DbInOrder /\ InOrder(h[c])
  BY DEF Inv, TypeOK, ServerInOrder, InOrder
<1>1. ASSUME h[c].pc # "idle" PROVE Serving(h[c])
  BY <1>0, <1>1 DEF Serving
<1>2. ASSUME h[c].pc \notin NoFileYet \cup {"done"} PROVE h[c].file \in FileRow
  BY <1>0, <1>2 DEF InOrder, HandlerInOrder, Handler
<1>3. CASE InitTx(c)
  <2>1. CASE Become(c, [h[c] EXCEPT !.pc = "reread"])
    <3> DEFINE l == [h[c] EXCEPT !.pc = "reread"]
    <3>1. l \in Handler /\ HandlerInOrder(l) /\ l.file = h[c].file /\ l.pc = "reread"
      BY <1>0, <1>3 DEF InitTx, InOrder, HandlerInOrder, Handler, PCs, NoFileYet
    <3> QED BY <2>1, <3>1 DEF StepTo, Known, InOrder
  <2> QED BY <1>1, <1>3, <2>1, AnswerSteps DEF InitTx, Replies
<1>4. CASE InitReread(c)
  <2>1. CASE Exists(h[c].name)
    <3> DEFINE l == [h[c] EXCEPT !.pc = "missing", !.file = files[h[c].name]]
    <3>1. h[c].name \in Names /\ files[h[c].name] \in FileRow /\ files[h[c].name] # NoFile
      BY <1>0, <1>4, <2>1, NoFileAssumption
      DEF InitReread, InOrder, HandlerInOrder, TypeOK, DbTypeOK, Exists
    <3>2. /\ l \in Handler /\ HandlerInOrder(l) /\ l.file = files[h[c].name]
          /\ l.pc = "missing"
      BY <1>0, <1>4, <3>1 DEF InitReread, InOrder, HandlerInOrder, Handler, PCs, NoFileYet
    <3> QED BY <1>4, <2>1, <3>1, <3>2 DEF InitReread, StepTo, Known, InOrder
  <2> QED BY <1>1, <1>4, <2>1, AnswerSteps DEF InitReread, Replies
<1>5. CASE InitMissing(c)
  BY <1>1, <1>5, AnswerSteps DEF InitMissing, Replies
<1>6. CASE GetFile(c)
  <2>1. CASE Exists(h[c].name) /\ Servable(h[c], files[h[c].name])
    <3> DEFINE l == [h[c] EXCEPT !.pc = AfterGetFile[h[c].op], !.file = files[h[c].name]]
    <3>1. h[c].name \in Names /\ files[h[c].name] \in FileRow /\ files[h[c].name] # NoFile
      BY <1>0, <1>6, <2>1, NoFileAssumption
      DEF GetFile, InOrder, HandlerInOrder, TypeOK, DbTypeOK, Exists
    <3>2. h[c].op \in AllOps \ {"init"}
      BY <1>0, <1>6 DEF GetFile, InOrder, HandlerInOrder
    <3>3. AfterGetFile[h[c].op] \in {"getblock", "count", "list"}
      BY <3>2 DEF AfterGetFile, AllOps
    <3>4. /\ l \in Handler /\ l.file = files[h[c].name] /\ l.pc = AfterGetFile[h[c].op]
          /\ l.op = h[c].op /\ l.name = h[c].name /\ l.rows = h[c].rows
      BY <1>0, <3>1, <3>3 DEF InOrder, Handler, PCs
    <3>5. HandlerInOrder(l)
      BY <1>0, <3>1, <3>2, <3>3, <3>4 DEF InOrder, HandlerInOrder
    <3> QED BY <1>6, <2>1, <3>1, <3>3, <3>4, <3>5 DEF GetFile, StepTo, Known, InOrder
  <2> QED BY <1>1, <1>6, <2>1, AnswerSteps DEF GetFile, Replies
<1>7. CASE PutGetBlock(c)
  <2>1. CASE /\ HasBlock(h[c].file.id, h[c].idx)
             /\ ~blocks[h[c].file.id][h[c].idx].uploaded
    <3> DEFINE row == blocks[h[c].file.id][h[c].idx]
               l == [h[c] EXCEPT !.pc = "body", !.rows = <<row>>]
    <3>1. row \in Row /\ row.nodes # <<>>
      BY <1>0, <1>2, <1>7, <2>1, RowsOfFile DEF PutGetBlock, HasBlock, NoFileYet
    <3>2. <<row>> \in Seq(Row) /\ HaveNodes(<<row>>) /\ <<row>> # <<>>
      BY <3>1, OneRow
    <3>3. /\ l \in Handler /\ l.file = h[c].file /\ l.pc = "body" /\ l.op = h[c].op
          /\ l.name = h[c].name /\ l.rows = <<row>>
      BY <1>0, <3>2 DEF InOrder, Handler, PCs
    <3>4. HandlerInOrder(l)
      BY <1>0, <1>7, <3>2, <3>3 DEF PutGetBlock, InOrder, HandlerInOrder, NoFileYet
    <3> QED BY <1>7, <2>1, <3>3, <3>4 DEF PutGetBlock, StepTo, Known, InOrder
  <2> QED BY <1>1, <1>7, <2>1, AnswerSteps DEF PutGetBlock, Replies
<1>8. CASE PutBody(c)
  <2>1. CASE Become(c, [h[c] EXCEPT !.pc = "fanout", !.cand = h[c].rows[1].nodes])
    <3> DEFINE l == [h[c] EXCEPT !.pc = "fanout", !.cand = h[c].rows[1].nodes]
    <3>1. h[c].rows \in Seq(Row) /\ h[c].rows # <<>> /\ HaveNodes(h[c].rows)
      BY <1>0, <1>8 DEF PutBody, InOrder, HandlerInOrder, Handler
    <3>2. h[c].rows[1].nodes \in Seq(Nodes) /\ h[c].rows[1].nodes # <<>>
      BY <3>1, TailHasNodes DEF Row
    <3>3. /\ l \in Handler /\ l.file = h[c].file /\ l.pc = "fanout" /\ l.op = h[c].op
          /\ l.name = h[c].name /\ l.rows = h[c].rows /\ l.cand = h[c].rows[1].nodes
      BY <1>0, <3>2 DEF InOrder, Handler, PCs
    <3>4. HandlerInOrder(l)
      BY <1>0, <1>8, <3>1, <3>2, <3>3 DEF PutBody, InOrder, HandlerInOrder, NoFileYet
    <3> QED BY <2>1, <3>3, <3>4 DEF StepTo, Known, InOrder
  <2> QED BY <1>1, <1>8, <2>1, AnswerSteps DEF PutBody, Replies
<1>9. CASE PutReplica(c)
  <2>1. Serving(h[c]) /\ h[c].pc = "fanout"
    BY <1>1, <1>9 DEF PutReplica
  <2>2. Head(h[c].cand) \in Nodes /\ h[c].took \in SUBSET Nodes
    BY <2>1, HeadTailProperties DEF Serving, InOrder, HandlerInOrder, Handler
  <2>3. PICK took \in SUBSET Nodes : Become(c, Fanned(h[c], took))
    BY <1>9, <2>2 DEF PutReplica
  <2> QED BY <2>1, <2>3, FannedInOrder DEF StepTo, Known
<1>10. CASE PutMark(c)
  BY <1>1, <1>10, AnswerSteps DEF PutMark, Replies
<1>11. CASE CommitCount(c)
  <2>1. CASE MissingBlocks(h[c].file.id) = {}
    <3> DEFINE l == [h[c] EXCEPT !.pc = "update"]
    <3>1. l \in Handler /\ HandlerInOrder(l) /\ l.file = h[c].file
      BY <1>0, <1>11 DEF CommitCount, InOrder, HandlerInOrder, Handler, PCs, NoFileYet
    <3> QED BY <1>11, <2>1, <3>1 DEF CommitCount, StepTo, Known, InOrder
  <2> QED BY <1>1, <1>11, <2>1, AnswerSteps DEF CommitCount, Replies
<1>12. CASE CommitUpdate(c)
  BY <1>1, <1>12, AnswerSteps DEF CommitUpdate, Replies
<1>13. CASE ReadList(c)
  <2>1. h[c].file \in FileRow /\ h[c].file # NoFile /\ Serving(h[c])
    BY <1>1, <1>2, <1>13, NoFileAssumption DEF ReadList, NoFileYet
  <2>2. blocks[h[c].file.id] \in Seq(Row) /\ HaveNodes(blocks[h[c].file.id])
    BY <1>0, <2>1, RowsOfFile
  <2>3. CASE h[c].op = "get"
    BY <1>13, <2>1, <2>2, <2>3, StreamedInOrder DEF ReadList, StepTo, Known
  <2>4. CASE h[c].op = "manifest"
    <3> DEFINE k == [h[c] EXCEPT !.sent = HashesOf(blocks[h[c].file.id])]
    <3>1. HashesOf(blocks[h[c].file.id]) \in Seq(Hashes)
      BY <2>2, HashesType
    <3>2. k \in Handler /\ HandlerInOrder(k) /\ k.pc = h[c].pc /\ k.file = h[c].file
      BY <2>1, <3>1 DEF Serving, InOrder, HandlerInOrder, Handler
    <3>3. Serving(k)
      BY <1>13, <3>2 DEF ReadList, Serving, InOrder
    <3> QED BY <1>13, <2>4, <3>2, <3>3, DoneInOrder DEF ReadList, StepTo, Known, Replies
  <2> QED BY <1>13, <2>3, <2>4 DEF ReadList
<1>14. CASE ReadGetBlock(c)
  <2>1. CASE /\ HasBlock(h[c].file.id, h[c].idx)
             /\ Become(c, Streamed(h[c], <<blocks[h[c].file.id][h[c].idx]>>))
    <3> DEFINE row == blocks[h[c].file.id][h[c].idx]
    <3>1. h[c].file \in FileRow /\ h[c].file # NoFile /\ Serving(h[c])
      BY <1>1, <1>2, <1>14, NoFileAssumption DEF ReadGetBlock, NoFileYet
    <3>2. row \in Row /\ row.nodes # <<>>
      BY <1>0, <2>1, <3>1, RowsOfFile DEF HasBlock
    <3>3. <<row>> \in Seq(Row) /\ HaveNodes(<<row>>)
      BY <3>2, OneRow
    <3> QED BY <2>1, <3>1, <3>3, StreamedInOrder DEF StepTo, Known
  <2> QED BY <1>1, <1>14, <2>1, AnswerSteps DEF ReadGetBlock, Replies
<1>15. CASE StreamHit(c)
  <2>1. CASE Become(c, Streamed([h[c] EXCEPT !.sent = Append(h[c].sent, Head(h[c].rows).hash)],
                                Tail(h[c].rows)))
    <3> DEFINE k == [h[c] EXCEPT !.sent = Append(h[c].sent, Head(h[c].rows).hash)]
    <3>1. /\ h[c].file # NoFile /\ h[c].rows \in Seq(Row) /\ h[c].rows # <<>>
          /\ HaveNodes(h[c].rows) /\ h[c].sent \in Seq(Hashes)
      BY <1>0, <1>15 DEF StreamHit, InOrder, HandlerInOrder, Handler, NoFileYet
    <3>2. /\ Head(h[c].rows).hash \in Hashes
          /\ Tail(h[c].rows) \in Seq(Row) /\ HaveNodes(Tail(h[c].rows))
      BY <3>1, TailHasNodes DEF Row
    <3>3. Append(h[c].sent, Head(h[c].rows).hash) \in Seq(Hashes)
      BY <3>1, <3>2, AppendProperties
    <3>4. /\ k \in Handler /\ k.pc = h[c].pc /\ k.op = h[c].op /\ k.name = h[c].name
          /\ k.man = h[c].man /\ k.file = h[c].file /\ k.rows = h[c].rows
          /\ k.cand = h[c].cand /\ k.took = h[c].took
      BY <1>0, <3>3 DEF InOrder, Handler
    <3>5. Serving(k) /\ k.file # NoFile
      BY <1>0, <1>15, <3>1, <3>4 DEF StreamHit, Serving, InOrder, HandlerInOrder
    <3> HIDE DEF k
    <3> DEFINE l == Streamed(k, Tail(h[c].rows))
    <3>6. InOrder(l) /\ l.file = h[c].file /\ l.pc # "update"
      BY <3>2, <3>4, <3>5, StreamedInOrder
    <3>7. Become(c, l)
      BY <2>1 DEF k
    <3> QED BY <3>6, <3>7 DEF StepTo, Known
  <2> QED BY <1>1, <1>15, <2>1, AnswerSteps DEF StreamHit, Replies
<1>16. CASE StreamMiss(c)
  <2>1. CASE Len(h[c].cand) > 1
    BY <1>1, <1>16, <2>1, NextNodeInOrder DEF StreamMiss, StepTo, Known
  <2>2. CASE ~(Len(h[c].cand) > 1)
    BY <1>1, <1>16, <2>2, AnswerSteps DEF StreamMiss, Replies, Length
  <2> QED BY <2>1, <2>2
<1>17. CASE DeleteList(c)
  <2>1. h[c].file \in FileRow /\ h[c].file # NoFile /\ Serving(h[c])
    BY <1>1, <1>2, <1>17, NoFileAssumption DEF DeleteList, NoFileYet
  <2>2. blocks[h[c].file.id] \in Seq(Row) /\ HaveNodes(blocks[h[c].file.id])
    BY <1>0, <2>1, RowsOfFile
  <2> QED BY <1>17, <2>1, <2>2, UnlinkingInOrder DEF DeleteList, StepTo, Known
<1>18. CASE DeleteBlock(c)
  <2>1. CASE Len(h[c].cand) > 1
    BY <1>1, <1>18, <2>1, NextNodeInOrder DEF DeleteBlock, StepTo, Known
  <2>2. CASE ~(Len(h[c].cand) > 1)
    <3>1. /\ h[c].file # NoFile /\ h[c].rows \in Seq(Row) /\ h[c].rows # <<>>
          /\ HaveNodes(h[c].rows) /\ Serving(h[c])
      BY <1>0, <1>1, <1>18 DEF DeleteBlock, InOrder, HandlerInOrder, Handler, NoFileYet
    <3>2. Tail(h[c].rows) \in Seq(Row) /\ HaveNodes(Tail(h[c].rows))
      BY <3>1, TailHasNodes
    <3> QED BY <1>18, <2>2, <3>1, <3>2, UnlinkingInOrder DEF DeleteBlock, StepTo, Known
  <2> QED BY <2>1, <2>2
<1>19. CASE DeleteDrop(c)
  BY <1>1, <1>19, AnswerSteps DEF DeleteDrop, Replies
<1>20. CASE Finish(c)
  BY <1>20, IdleInOrder DEF Finish, StepTo, Known
<1> QED BY <1>3, <1>4, <1>5, <1>6, <1>7, <1>8, <1>9, <1>10, <1>11, <1>12, <1>13,
           <1>14, <1>15, <1>16, <1>17, <1>18, <1>19, <1>20 DEF Step

-----------------------------------------------------------------------------
(* The statements on the tables                                            *)

DbInv == DbTypeOK /\ DbInOrder /\ CompleteIsWhole

\* Ids are used in order, and an id in use loses no uploaded block.
DbGrows == /\ nextId <= nextId'
           /\ \A f \in Ids : f < nextId /\ MissingBlocks(f) = {}
                              => MissingBlocks(f)' = {}

LEMMA CreateKeeps ==
  ASSUME DbInv, NEW n \in Names, NEW m \in Manifests, Create(n, m, RowsFor(m))
  PROVE  DbInv' /\ DbGrows
<1> DEFINE row == [id |-> nextId, sha |-> m.sha, size |-> m.size, state |-> "pending"]
<1>1. nextId \in Ids /\ nextId' = nextId + 1 /\ nextId \in Int /\ MaxFid \in Nat
  BY MetaStoreAssumption DEF DbInv, DbTypeOK, Create, NewId, Ids
<1>2. /\ files'[n] = row /\ \A k \in Names \ {n} : files'[k] = files[k]
      /\ DOMAIN files' = Names /\ files' = [k \in Names |-> files'[k]]
  BY DEF DbInv, DbTypeOK, Create, NewId
<1>3. row \in FileRow /\ row # NoFile /\ row.id = nextId /\ row.state = "pending"
  BY <1>1, MetaStoreAssumption, NoFileAssumption DEF FileRow
<1>4. /\ blocks'[nextId] = RowsFor(m) /\ \A f \in Ids \ {nextId} : blocks'[f] = blocks[f]
      /\ blocks' = [blocks EXCEPT ![nextId] = RowsFor(m)]
  BY <1>1 DEF DbInv, DbTypeOK, Create, NewId
<1>5. RowsFor(m) \in Seq(Row) /\ HaveNodes(RowsFor(m))
  BY RowsForType
<1>6. DbTypeOK'
  <2>1. files' \in [Names -> FileRow \cup {NoFile}]
    BY <1>2, <1>3 DEF DbInv, DbTypeOK
  <2>2. blocks' \in [Ids -> Seq(Row)]
    BY <1>1, <1>4, <1>5 DEF DbInv, DbTypeOK
  <2>3. nextId' \in 1..(MaxFid + 1)
    BY <1>1 DEF Ids
  <2> QED BY <2>1, <2>2, <2>3 DEF DbTypeOK
<1>7. \A k \in Names : Exists(k)' => IF k = n THEN files'[k].id = nextId
                                     ELSE Exists(k) /\ files'[k] = files[k]
  BY <1>2, <1>3 DEF Exists
<1>8. \A k \in Names : Exists(k) => k # n /\ files[k].id \in Ids /\ files[k].id < nextId
  BY DEF Create, DbInv, DbInOrder, DbTypeOK, Exists, FileRow
<1>9. DbInOrder'
  <2>1. \A k \in Names : Exists(k)' => files'[k].id < nextId'
    BY <1>1, <1>7, <1>8 DEF Ids
  <2>2. \A j, k \in Names : Exists(j)' /\ Exists(k)' /\ j # k => files'[j].id # files'[k].id
    BY <1>1, <1>7, <1>8 DEF Ids, DbInv, DbInOrder
  <2>3. ASSUME NEW f \in Ids PROVE (~Live(f))' => blocks'[f] = <<>>
    <3>1. CASE f = nextId
      BY <1>2, <1>3, <3>1 DEF Live, Exists
    <3>2. CASE f # nextId
      <4>1. Live(f) => Live(f)'
        BY <1>2, <1>8 DEF Live, Exists
      <4> QED BY <1>4, <3>2, <4>1 DEF DbInv, DbInOrder
    <3> QED BY <3>1, <3>2
  <2>4. ASSUME NEW f \in Ids PROVE HaveNodes(blocks'[f])
    BY <1>4, <1>5 DEF DbInv, DbInOrder
  <2> QED BY <2>1, <2>2, <2>3, <2>4 DEF DbInOrder, HaveNodes
<1>10. \A f \in Ids \ {nextId} : MissingBlocks(f)' = MissingBlocks(f)
  BY <1>4 DEF MissingBlocks
<1>11. CompleteIsWhole'
  BY <1>1, <1>2, <1>3, <1>7, <1>8, <1>10 DEF CompleteIsWhole, DbInv, Ids
<1>12. DbGrows
  BY <1>1, <1>10 DEF DbGrows, Ids
<1> QED BY <1>6, <1>9, <1>11, <1>12 DEF DbInv

LEMMA MarkUploadedKeeps ==
  ASSUME DbInv, NEW f \in Ids, NEW i, MarkUploaded(f, i)
  PROVE  DbInv' /\ DbGrows
<1> DEFINE row == [blocks[f][i] EXCEPT !.uploaded = TRUE]
           rows == [blocks[f] EXCEPT ![i] = row]
<1>1. /\ blocks[f] \in Seq(Row) /\ Len(blocks[f]) \in Nat /\ i \in 1..Len(blocks[f])
      /\ DOMAIN blocks[f] = 1..Len(blocks[f]) /\ blocks[f][i] \in Row
  BY LenProperties, ElementOfSeq DEF DbInv, DbTypeOK, MarkUploaded, HasBlock
<1>2. /\ row \in Row /\ row.nodes = blocks[f][i].nodes /\ row.uploaded
  BY <1>1 DEF Row
<1>3. /\ rows \in Seq(Row) /\ DOMAIN rows = DOMAIN blocks[f] /\ rows[i] = row
      /\ \A k \in DOMAIN blocks[f] \ {i} : rows[k] = blocks[f][k]
  BY <1>1, <1>2, ExceptSeq
<1>4. blocks' = [blocks EXCEPT ![f] = rows]
  BY DEF MarkUploaded
<1> HIDE DEF row, rows
<1>5. /\ blocks' \in [Ids -> Seq(Row)] /\ blocks'[f] = rows
      /\ \A g \in Ids \ {f} : blocks'[g] = blocks[g]
  BY <1>3, <1>4 DEF DbInv, DbTypeOK
<1>6. files' = files /\ nextId' = nextId
  BY DEF MarkUploaded
<1>7. DbTypeOK'
  BY <1>5, <1>6 DEF DbInv, DbTypeOK
<1>8. \A g \in Ids : MissingBlocks(g) = {} => MissingBlocks(g)' = {}
  BY <1>2, <1>3, <1>5 DEF MissingBlocks
<1>9. HaveNodes(rows)
  BY <1>1, <1>2, <1>3 DEF HaveNodes, DbInv, DbInOrder
<1>10. \A g \in Ids : Live(g)' <=> Live(g)
  BY <1>6 DEF Live, Exists
<1>11. rows # <<>> /\ blocks[f] # <<>>
  BY <1>1, <1>3
<1>12. DbInOrder'
  BY <1>5, <1>6, <1>9, <1>10, <1>11 DEF DbInv, DbInOrder, Exists, HaveNodes
<1>13. CompleteIsWhole'
  <2>1. \A n \in Names : Exists(n) => files[n].id \in Ids
    BY DEF DbInv, DbTypeOK, Exists, FileRow
  <2> QED BY <1>6, <1>8, <2>1 DEF DbInv, CompleteIsWhole, Exists
<1>14. nextId <= nextId'
  BY <1>6 DEF DbInv, DbTypeOK
<1>15. DbInv'
  BY <1>7, <1>12, <1>13 DEF DbInv
<1>16. DbGrows
  BY <1>8, <1>14 DEF DbGrows
<1> QED BY <1>15, <1>16

LEMMA SetCompleteKeeps ==
  ASSUME DbInv, NEW f \in Ids, MissingBlocks(f) = {}, SetComplete(f)
  PROVE  DbInv' /\ DbGrows
<1>1. blocks' = blocks /\ nextId' = nextId
  BY DEF SetComplete
<1>2. ASSUME NEW n \in Names
      PROVE  /\ Exists(n)' <=> Exists(n)
             /\ files'[n] \in FileRow \cup {NoFile}
             /\ Exists(n) => /\ files'[n].id = files[n].id
                             /\ \/ files'[n].state = files[n].state
                                \/ files[n].id = f
  <2>1. files'[n] = IF Exists(n) /\ files[n].id = f
                      THEN [files[n] EXCEPT !.state = "complete"] ELSE files[n]
    BY DEF SetComplete
  <2>2. CASE Exists(n) /\ files[n].id = f
    <3>1. files[n] \in FileRow
      BY <2>2 DEF DbInv, DbTypeOK, Exists
    <3>2. /\ [files[n] EXCEPT !.state = "complete"] \in FileRow
          /\ [files[n] EXCEPT !.state = "complete"].id = files[n].id
      BY <3>1 DEF FileRow
    <3> QED BY <2>1, <2>2, <3>2, NoFileAssumption DEF Exists
  <2>3. CASE ~(Exists(n) /\ files[n].id = f)
    BY <2>1, <2>3 DEF Exists, DbInv, DbTypeOK
  <2> QED BY <2>2, <2>3
<1>3. DbTypeOK'
  <2>1. files' = [n \in Names |-> files'[n]]
    BY DEF SetComplete
  <2> QED BY <1>1, <1>2, <2>1 DEF DbInv, DbTypeOK
<1>4. \A g \in Ids : (Live(g)' <=> Live(g)) /\ MissingBlocks(g)' = MissingBlocks(g)
  BY <1>1, <1>2 DEF Live, MissingBlocks
<1>5. DbInOrder'
  BY <1>1, <1>2, <1>4 DEF DbInv, DbInOrder, HaveNodes
<1>6. CompleteIsWhole'
  <2>1. \A n \in Names : Exists(n) => files[n].id \in Ids
    BY DEF DbInv, DbTypeOK, Exists, FileRow
  <2> QED BY <1>2, <1>4, <2>1 DEF DbInv, CompleteIsWhole
<1> QED BY <1>1, <1>3, <1>4, <1>5, <1>6 DEF DbInv, DbGrows, DbTypeOK

LEMMA DeleteFileKeeps ==
  ASSUME DbInv, NEW n \in Names, DeleteFile(n)
  PROVE  DbInv' /\ DbGrows
<1> DEFINE id == files[n].id
<1>1. Exists(n) /\ nextId' = nextId /\ files[n] \in FileRow /\ id \in Ids
  BY DEF DeleteFile, DbInv, DbTypeOK, Exists, FileRow
<1>2. /\ files' \in [Names -> FileRow \cup {NoFile}] /\ files'[n] = NoFile
      /\ \A k \in Names \ {n} : files'[k] = files[k]
  BY DEF DeleteFile, DbInv, DbTypeOK
<1>3. /\ blocks' \in [Ids -> Seq(Row)] /\ blocks'[id] = <<>>
      /\ \A f \in Ids \ {id} : blocks'[f] = blocks[f]
  BY <1>1, EmptySeq DEF DeleteFile, DbInv, DbTypeOK
<1>4. DbTypeOK'
  BY <1>1, <1>2, <1>3 DEF DbInv, DbTypeOK
<1>5. \A k \in Names : Exists(k)' => Exists(k) /\ files'[k] = files[k] /\ k # n
  BY <1>2 DEF Exists
<1>6. \A f \in Ids : MissingBlocks(f) = {} => MissingBlocks(f)' = {}
  BY <1>3 DEF MissingBlocks
<1>7. DbInOrder'
  <2>1. \A k \in Names : Exists(k)' => files'[k].id < nextId'
    BY <1>1, <1>5 DEF DbInv, DbInOrder
  <2>2. \A j, k \in Names : Exists(j)' /\ Exists(k)' /\ j # k => files'[j].id # files'[k].id
    BY <1>5 DEF DbInv, DbInOrder
  <2>3. ASSUME NEW f \in Ids PROVE (~Live(f))' => blocks'[f] = <<>>
    <3>1. CASE f # id
      <4>1. Live(f) => Live(f)'
        BY <1>2, <3>1 DEF Live, Exists
      <4> QED BY <1>3, <3>1, <4>1 DEF DbInv, DbInOrder
    <3> QED BY <1>3, <3>1
  <2>4. ASSUME NEW f \in Ids PROVE HaveNodes(blocks'[f])
    BY <1>3 DEF DbInv, DbInOrder, HaveNodes
  <2> QED BY <2>1, <2>2, <2>3, <2>4 DEF DbInOrder, HaveNodes
<1>8. CompleteIsWhole'
  <2>1. \A k \in Names : Exists(k) => files[k].id \in Ids
    BY DEF DbInv, DbTypeOK, Exists, FileRow
  <2> QED BY <1>5, <1>6, <2>1 DEF DbInv, CompleteIsWhole
<1> QED BY <1>1, <1>4, <1>6, <1>7, <1>8 DEF DbInv, DbGrows, DbTypeOK

LEMMA UnchangedKeeps ==
  ASSUME DbInv, UNCHANGED db
  PROVE  DbInv' /\ DbGrows
<1>1. files' = files /\ blocks' = blocks /\ nextId' = nextId
  BY DEF db
<1>2. DbInv'
  BY <1>1 DEF DbInv, DbTypeOK, DbInOrder, CompleteIsWhole, Exists, Live,
              MissingBlocks, HaveNodes
<1>3. DbGrows
  BY <1>1 DEF DbInv, DbTypeOK, DbGrows, MissingBlocks
<1> QED BY <1>2, <1>3

LEMMA StepTables ==
  ASSUME Inv, CompleteIsWhole, NEW c \in Handlers, Step(c)
  PROVE  DbInv' /\ DbGrows
<1> USE DEF At
<1>0. DbInv /\ InOrder(h[c])
  BY DEF Inv, TypeOK, ServerInOrder, DbInv, InOrder
<1>1. ASSUME h[c].pc \notin NoFileYet \cup {"done"} PROVE h[c].file.id \in Ids
  BY <1>0, <1>1 DEF InOrder, HandlerInOrder, Handler, FileRow
<1>2. CASE InitTx(c)
  <2>1. h[c].name \in Names /\ h[c].man \in Manifests
    BY <1>0, <1>2 DEF InitTx, InOrder, HandlerInOrder
  <2> QED BY <1>0, <1>2, <2>1, CreateKeeps, UnchangedKeeps DEF InitTx
<1>3. CASE PutMark(c)
  BY <1>0, <1>1, <1>3, MarkUploadedKeeps, UnchangedKeeps DEF PutMark, NoFileYet
<1>4. CASE CommitUpdate(c)
  <2>1. MissingBlocks(h[c].file.id) = {}
    BY <1>4 DEF CommitUpdate, Inv, ServerInOrder, CommitInOrder
  <2> QED BY <1>0, <1>1, <1>4, <2>1, SetCompleteKeeps DEF CommitUpdate, NoFileYet
<1>5. CASE DeleteDrop(c)
  <2>1. h[c].name \in Names
    BY <1>0, <1>5 DEF DeleteDrop, InOrder, HandlerInOrder
  <2> QED BY <1>0, <1>5, <2>1, DeleteFileKeeps, UnchangedKeeps DEF DeleteDrop
<1>6. CASE UNCHANGED db
  BY <1>0, <1>6, UnchangedKeeps
<1> QED BY <1>2, <1>3, <1>4, <1>5, <1>6
        DEF Step, InitReread, InitMissing, GetFile, PutGetBlock, PutBody,
            PutReplica, CommitCount, ReadList, ReadGetBlock, StreamHit,
            StreamMiss, DeleteList, DeleteBlock, Finish

LEMMA StepStores ==
  ASSUME Inv, NEW c \in Handlers, Step(c)
  PROVE  store' \in [Nodes -> SUBSET Hashes] /\ late' \subseteq Calls
<1> USE DEF At
<1>0. TypeOK /\ InOrder(h[c])
  BY DEF Inv, TypeOK, ServerInOrder, InOrder
<1>1. ASSUME h[c].pc \in {"fanout", "unlink"}
      PROVE  /\ Head(h[c].cand) \in Nodes /\ Head(h[c].rows).hash \in Hashes
             /\ h[c].rows[1].hash \in Hashes
  <2>1. /\ h[c].cand \in Seq(Nodes) /\ h[c].cand # <<>>
        /\ h[c].rows \in Seq(Row) /\ h[c].rows # <<>> /\ HaveNodes(h[c].rows)
    BY <1>0, <1>1 DEF InOrder, HandlerInOrder, Handler
  <2>2. Head(h[c].cand) \in Nodes
    BY <2>1, HeadTailProperties
  <2>3. Head(h[c].rows) \in Row /\ Head(h[c].rows) = h[c].rows[1]
    BY <2>1, TailHasNodes
  <2> QED BY <2>2, <2>3 DEF Row
<1>2. CASE PutReplica(c)
  BY <1>0, <1>1, <1>2 DEF PutReplica, TypeOK, Calls
<1>3. CASE DeleteBlock(c)
  BY <1>0, <1>1, <1>3 DEF DeleteBlock, TypeOK, Calls
<1>4. CASE UNCHANGED <<store, late>>
  BY <1>0, <1>4 DEF TypeOK
<1> QED BY <1>2, <1>3, <1>4
        DEF Step, InitTx, InitReread, InitMissing, GetFile, PutGetBlock, PutBody,
            PutMark, CommitCount, CommitUpdate, ReadList, ReadGetBlock, StreamHit,
            StreamMiss, DeleteList, DeleteDrop, Finish

-----------------------------------------------------------------------------
(* The invariant                                                           *)

IInv == Inv /\ CompleteIsWhole

\* What a step leaves in the slots, given the state l it leaves in slot c.
LEMMA HandlersKept ==
  ASSUME IInv, DbGrows, nextId' \in Int, NEW c \in Handlers, NEW l, Become(c, l), InOrder(l),
         l.file # NoFile => l.file.id < nextId,
         l.pc = "update" => MissingBlocks(l.file.id) = {}
  PROVE  /\ h' \in [Handlers -> Handler]
         /\ \A d \in Handlers : HandlerInOrder(h'[d])
         /\ FilesRead' /\ CommitInOrder'
<1>1. /\ h'[c] = l /\ \A d \in Handlers \ {c} : h'[d] = h[d]
      /\ h' \in [Handlers -> Handler]
  BY DEF Become, InOrder, IInv, Inv, TypeOK
<1>2. ASSUME NEW d \in Handlers
      PROVE  /\ InOrder(h'[d])
             /\ h'[d].file # NoFile => h'[d].file.id < nextId
             /\ h'[d].pc = "update" => MissingBlocks(h'[d].file.id) = {}
  <2>1. CASE d = c
    BY <1>1, <2>1
  <2>2. CASE d # c
    BY <1>1, <2>2
    DEF IInv, Inv, TypeOK, ServerInOrder, InOrder, FilesRead, CommitInOrder, At
  <2> QED BY <2>1, <2>2
<1>3. ASSUME NEW d \in Handlers, h'[d].file # NoFile PROVE h'[d].file.id \in Ids
  BY <1>2, <1>3 DEF InOrder, Handler, FileRow
<1>4. ASSUME NEW d \in Handlers, h'[d].pc = "update"
      PROVE  h'[d].file # NoFile
  BY <1>2, <1>4 DEF InOrder, HandlerInOrder, NoFileYet
<1>5. ASSUME NEW d \in Handlers, NEW f \in Ids, h'[d].file # NoFile, f = h'[d].file.id
      PROVE  f < nextId /\ f < nextId'
  <2>1. f < nextId /\ f \in Int /\ nextId \in Int
    BY <1>2, <1>5 DEF Ids, IInv, Inv, TypeOK, DbTypeOK
  <2> QED BY <2>1 DEF DbGrows
<1>6. FilesRead'
  BY <1>3, <1>5 DEF FilesRead
<1>7. ASSUME NEW d \in Handlers, NEW f \in Ids, h'[d].pc = "update", f = h'[d].file.id
      PROVE  MissingBlocks(f)' = {}
  BY <1>2, <1>4, <1>5, <1>7 DEF DbGrows
<1>8. CommitInOrder'
  BY <1>3, <1>4, <1>7 DEF CommitInOrder, At, MissingBlocks
<1> QED BY <1>1, <1>2, <1>6, <1>8 DEF InOrder

\* A request that arrives has a name, and a manifest if it is an init.
Fresh(l) == /\ InOrder(l) /\ l.op \in Ops /\ l.pc \in {"tx", "getfile"}
            /\ l.file = NoFile /\ l.sent = <<>> /\ l.took = {}

LEMMA ArriveInOrder ==
  ASSUME NEW c \in Handlers, Arrive(c)
  PROVE  \E l : Become(c, l) /\ Fresh(l)
<1>0. Idle \in Handler /\ HaveNodes(Idle.rows) /\ Idle.rows = <<>>
  BY IdleInOrder DEF InOrder, HandlerInOrder, Idle
<1>1. ASSUME NEW n \in Names, NEW m \in Manifests, RequestInit(c, n, m)
      PROVE  \E l : Become(c, l) /\ Fresh(l)
  <2> DEFINE l == [Idle EXCEPT !.op = "init", !.pc = "tx", !.name = n, !.man = m]
  <2>1. l \in Handler
    BY <1>0, <1>1 DEF Handler, PCs, AllOps
  <2>2. HandlerInOrder(l) /\ l.file = NoFile /\ l.pc = "tx" /\ l.op = "init"
          /\ l.sent = <<>> /\ l.took = {}
    BY <1>0, <1>1 DEF Idle, HandlerInOrder, AllOps, NoFileYet
  <2> QED BY <1>1, <2>1, <2>2 DEF RequestInit, Receive, InOrder, Fresh
<1>2. ASSUME NEW n \in Names, NEW i \in 1..MaxIdx, NEW b \in Hashes, RequestPut(c, n, i, b)
      PROVE  \E l : Become(c, l) /\ Fresh(l)
  <2> DEFINE l == [Idle EXCEPT !.op = "put", !.pc = "getfile", !.name = n,
                               !.idx = i, !.body = b]
  <2>0. i \in 0..MaxIdx
    BY CoordinatorAssumption
  <2>1. l \in Handler
    BY <1>0, <1>2, <2>0 DEF Handler, PCs, AllOps
  <2>2. HandlerInOrder(l) /\ l.file = NoFile /\ l.pc = "getfile" /\ l.op = "put"
          /\ l.sent = <<>> /\ l.took = {}
    BY <1>0, <1>2 DEF Idle, HandlerInOrder, AllOps, NoFileYet
  <2> QED BY <1>2, <2>1, <2>2 DEF RequestPut, Receive, InOrder, Fresh
<1>3. ASSUME NEW n \in Names, NEW i \in 1..MaxIdx, RequestBlock(c, n, i)
      PROVE  \E l : Become(c, l) /\ Fresh(l)
  <2> DEFINE l == [Idle EXCEPT !.op = "getblock", !.pc = "getfile", !.name = n, !.idx = i]
  <2>0. i \in 0..MaxIdx
    BY CoordinatorAssumption
  <2>1. l \in Handler
    BY <1>0, <1>3, <2>0 DEF Handler, PCs, AllOps
  <2>2. HandlerInOrder(l) /\ l.file = NoFile /\ l.pc = "getfile" /\ l.op = "getblock"
          /\ l.sent = <<>> /\ l.took = {}
    BY <1>0, <1>3 DEF Idle, HandlerInOrder, AllOps, NoFileYet
  <2> QED BY <1>3, <2>1, <2>2 DEF RequestBlock, Receive, InOrder, Fresh
<1>4. ASSUME NEW n \in Names, NEW op \in {"commit", "manifest", "get", "delete"},
             Request(c, op, n)
      PROVE  \E l : Become(c, l) /\ Fresh(l)
  <2> DEFINE l == [Idle EXCEPT !.op = op, !.pc = "getfile", !.name = n]
  <2>1. l \in Handler
    BY <1>0, <1>4 DEF Handler, PCs, AllOps
  <2>2. HandlerInOrder(l) /\ l.file = NoFile /\ l.pc = "getfile" /\ l.op = op
          /\ l.sent = <<>> /\ l.took = {}
    BY <1>0, <1>4 DEF Idle, HandlerInOrder, AllOps, NoFileYet
  <2> QED BY <1>4, <2>1, <2>2 DEF Request, Receive, InOrder, Fresh
<1> QED BY <1>1, <1>2, <1>3, <1>4 DEF Arrive

LEMMA NextInv == IInv /\ [Next]_vars => IInv'
<1> SUFFICES ASSUME IInv, [Next]_vars PROVE IInv'
  OBVIOUS
<1>0. /\ Inv /\ CompleteIsWhole /\ DbInv /\ TypeOK
      /\ \A d \in Handlers : InOrder(h[d])
  BY DEF IInv, Inv, DbInv, TypeOK, ServerInOrder, InOrder
<1>1. ASSUME DbInv', store' \in [Nodes -> SUBSET Hashes], late' \subseteq Calls,
             h' \in [Handlers -> Handler],
             \A d \in Handlers : HandlerInOrder(h'[d]), FilesRead', CommitInOrder'
      PROVE  IInv'
  BY <1>1 DEF IInv, Inv, TypeOK, ServerInOrder, DbInv
<1>2. ASSUME NEW c \in Handlers, Arrive(c) PROVE IInv'
  <2>1. DbInv' /\ DbGrows /\ nextId' \in Int
    BY <1>0, <1>2, UnchangedKeeps DEF Arrive, DbInv, DbTypeOK
  <2>2. PICK l : Become(c, l) /\ Fresh(l)
    BY <1>2, ArriveInOrder
  <2>3. /\ h' \in [Handlers -> Handler] /\ \A d \in Handlers : HandlerInOrder(h'[d])
        /\ FilesRead' /\ CommitInOrder'
    BY <2>1, <2>2, HandlersKept DEF Fresh
  <2> QED BY <1>0, <1>1, <1>2, <2>1, <2>3 DEF Arrive, TypeOK
<1>3. ASSUME NEW c \in Handlers, Step(c) PROVE IInv'
  <2>1. DbInv' /\ DbGrows /\ nextId' \in Int
    BY <1>0, <1>3, StepTables DEF DbInv, DbTypeOK
  <2>2. PICK l : StepTo(c, l)
    BY <1>0, <1>3, StepHandler
  <2>3. l.file # NoFile => l.file.id < nextId
    BY <1>0, <2>2 DEF StepTo, Known, Inv, ServerInOrder, FilesRead, DbInOrder
  <2>4. /\ h' \in [Handlers -> Handler] /\ \A d \in Handlers : HandlerInOrder(h'[d])
        /\ FilesRead' /\ CommitInOrder'
    BY <2>1, <2>2, <2>3, HandlersKept DEF StepTo
  <2> QED BY <1>0, <1>1, <1>3, <2>1, <2>4, StepStores
<1>4. ASSUME UNCHANGED db PROVE DbInv' /\ DbGrows
  BY <1>0, <1>4, UnchangedKeeps
<1>5. ASSUME NEW k \in late, LateCall(k) PROVE IInv'
  <2>1. k \in Calls /\ h' = h /\ UNCHANGED db
    BY <1>0, <1>5 DEF LateCall, TypeOK
  <2>2. store' \in [Nodes -> SUBSET Hashes] /\ late' \subseteq Calls
    BY <1>0, <1>5, <2>1 DEF LateCall, TypeOK, Calls
  <2>3. FilesRead' /\ CommitInOrder'
    BY <1>0, <2>1 DEF db, Inv, ServerInOrder, FilesRead, CommitInOrder, MissingBlocks, At
  <2> QED BY <1>0, <1>1, <1>4, <2>1, <2>2, <2>3 DEF TypeOK, InOrder
<1>6. CASE Crash
  <2>1. h' \in [Handlers -> Handler] /\ \A d \in Handlers : h'[d] = Idle
    BY <1>6, IdleInOrder DEF Crash, InOrder
  <2>2. FilesRead' /\ CommitInOrder'
    BY <2>1, IdleInOrder DEF FilesRead, CommitInOrder, At
  <2> QED BY <1>0, <1>1, <1>4, <1>6, <2>1, <2>2, IdleInOrder DEF Crash, TypeOK, InOrder
<1>7. CASE UNCHANGED vars
  <2>1. FilesRead' /\ CommitInOrder'
    BY <1>0, <1>7
    DEF vars, Inv, ServerInOrder, FilesRead, CommitInOrder, MissingBlocks, At
  <2> QED BY <1>0, <1>1, <1>4, <1>7, <2>1 DEF vars, db, TypeOK, InOrder
<1> QED BY <1>2, <1>3, <1>5, <1>6, <1>7 DEF Next

LEMMA InitInv == Init => IInv
<1> SUFFICES ASSUME Init PROVE IInv
  OBVIOUS
<1>1. DbTypeOK /\ DbInOrder /\ CompleteIsWhole
  BY EmptySeq, MetaStoreAssumption
  DEF Init, DbInit, DbTypeOK, DbInOrder, CompleteIsWhole, Exists, HaveNodes, Ids
<1>2. /\ h \in [Handlers -> Handler] /\ \A c \in Handlers : HandlerInOrder(h[c])
      /\ FilesRead /\ CommitInOrder
  BY IdleInOrder DEF Init, InOrder, FilesRead, CommitInOrder, At
<1> QED BY <1>1, <1>2 DEF Init, IInv, Inv, TypeOK, ServerInOrder

LEMMA InvHolds == Spec => []IInv
  BY InitInv, NextInv, PTL DEF Spec

\* Every reachable state of the coordinator, its tables and the storage nodes
\* has the types of the Go declarations and of the SQL schema.
THEOREM TypeCorrect == Spec => []TypeOK
<1>1. IInv => TypeOK
  BY DEF IInv, Inv
<1> QED BY <1>1, InvHolds, PTL

\* No interleaving of requests, and no crash, completes a file that has a
\* block missing, although a commit counts and updates in two statements.
THEOREM CompleteFilesAreWhole == Spec => []CompleteIsWhole
<1>1. IInv => CompleteIsWhole
  BY DEF IInv
<1> QED BY <1>1, InvHolds, PTL

\* The tables refer to one another as the schema says, every handler has read
\* what its next step uses, and a commit updates what it counted.
THEOREM ServerStaysInOrder == Spec => []ServerInOrder
<1>1. IInv => ServerInOrder
  BY DEF IInv, Inv
<1> QED BY <1>1, InvHolds, PTL

-----------------------------------------------------------------------------
(* The refinement.  Only four steps of a handler change the tables, and    *)
(* each of them is a step in the life of one name, or of none.             *)

(* The refinement mapping of Coordinator, named.                           *)
Held(n) == LET rows == blocks[files[n].id] IN
           [blocks   |-> HashesOf(rows),
            up       |-> {i \in DOMAIN rows : rows[i].uploaded},
            complete |-> files[n].state = "complete"]

Upload(n) == IF ~Exists(n) THEN NoFile ELSE Held(n)

Uploads == [n \in Names |-> Upload(n)]

Maps == NS!Next \/ Uploads' = Uploads

\* A name that holds an upload is not free.
LEMMA HeldIsNotFree ==
  ASSUME DbInv, NEW n \in Names, Exists(n)
  PROVE  /\ files[n] \in FileRow /\ files[n].id \in Ids
         /\ blocks[files[n].id] \in Seq(Row)
         /\ Uploads[n] = Held(n) /\ Held(n) # NoFile
<1>1. files[n] \in FileRow /\ files[n].id \in Ids
  BY DEF DbInv, DbTypeOK, Exists, FileRow
<1>2. blocks[files[n].id] \in Seq(Row)
  BY <1>1 DEF DbInv, DbTypeOK
<1>3. Held(n).up \in SUBSET Nat
  BY <1>2, LenProperties DEF Held
<1>4. Held(n) \in [blocks: Seq(Hashes), up: SUBSET Nat, complete: BOOLEAN]
  BY <1>2, <1>3, HashesType DEF Held
<1> QED BY <1>1, <1>2, <1>4, FreeAssumption DEF Uploads, Upload

\* A change of one name's upload.
LEMMA OneUpload ==
  ASSUME NEW n \in Names, NEW u, Upload(n)' = u,
         \A k \in Names \ {n} : Upload(k)' = Upload(k)
  PROVE  Uploads' = [Uploads EXCEPT ![n] = u]
  BY DEF Uploads

LEMMA UpExcept ==
  ASSUME NEW u, NEW bs, NEW up, NEW whole, NEW new,
         u = [blocks |-> bs, up |-> up, complete |-> whole]
  PROVE  [u EXCEPT !.up = new] = [blocks |-> bs, up |-> new, complete |-> whole]
  OBVIOUS

LEMMA CompleteExcept ==
  ASSUME NEW u, NEW bs, NEW up, NEW whole, NEW new,
         u = [blocks |-> bs, up |-> up, complete |-> whole]
  PROVE  [u EXCEPT !.complete = new]
           = [blocks |-> bs, up |-> up, complete |-> new]
  OBVIOUS

LEMMA SameUpload ==
  ASSUME NEW n \in Names, files'[n] = files[n],
         Exists(n) => blocks'[files[n].id] = blocks[files[n].id]
  PROVE  Upload(n)' = Upload(n)
  BY DEF Upload, Held, Exists

-----------------------------------------------------------------------------
LEMMA CreateMaps ==
  ASSUME DbInv, NEW n \in Names, NEW m \in Manifests, Create(n, m, RowsFor(m))
  PROVE  Maps
<1> DEFINE row == [id |-> nextId, sha |-> m.sha, size |-> m.size, state |-> "pending"]
           new == [blocks |-> m.blocks, up |-> {}, complete |-> FALSE]
<1>1. /\ files'[n] = row /\ \A k \in Names \ {n} : files'[k] = files[k]
      /\ nextId \in Ids /\ blocks'[nextId] = RowsFor(m)
      /\ \A f \in Ids \ {nextId} : blocks'[f] = blocks[f]
  BY DEF Create, NewId, DbInv, DbTypeOK
<1>2. row # NoFile
  BY <1>1, MetaStoreAssumption, NoFileAssumption DEF FileRow
<1>3. HashesOf(RowsFor(m)) = m.blocks
  BY RowsForType
<1>4. \A i \in DOMAIN RowsFor(m) : ~RowsFor(m)[i].uploaded
  BY DEF RowsFor
<1>5. Upload(n)' = new
  <2>1. files'[n].id = nextId /\ files'[n].state = "pending" /\ Exists(n)'
    BY <1>1, <1>2 DEF Exists
  <2>2. Held(n)' = [blocks |-> HashesOf(blocks'[nextId]),
                    up |-> {i \in DOMAIN blocks'[nextId] : blocks'[nextId][i].uploaded},
                    complete |-> FALSE]
    BY <2>1 DEF Held, HashesOf
  <2> QED BY <1>1, <1>3, <1>4, <2>1, <2>2 DEF Upload
<1>6. ASSUME NEW k \in Names \ {n} PROVE Upload(k)' = Upload(k)
  <2>1. Exists(k) => files[k].id \in Ids \ {nextId}
    BY DEF DbInv, DbInOrder, DbTypeOK, Exists, FileRow, Ids
  <2> QED BY <1>1, <2>1, SameUpload
<1>7. Uploads' = [Uploads EXCEPT ![n] = new]
  BY <1>5, <1>6, OneUpload
<1>8. Uploads[n] = NoFile
  BY DEF Create, Uploads, Upload
<1>9. NS!Register(n, m.blocks)
  BY <1>7, <1>8 DEF NS!Register, Uploads, Upload, Held
<1> QED BY <1>9 DEF Maps, NS!Next

LEMMA MarkUploadedMaps ==
  ASSUME DbInv, NEW f \in Ids, NEW i, MarkUploaded(f, i)
  PROVE  Maps
<1>1. /\ blocks[f] \in Seq(Row) /\ i \in DOMAIN blocks[f] /\ blocks[f] # <<>>
      /\ blocks[f][i] \in Row
  BY EmptySeq, LenProperties, ElementOfSeq DEF DbInv, DbTypeOK, MarkUploaded, HasBlock
<1>2. PICK n \in Names : Exists(n) /\ files[n].id = f
  BY <1>1 DEF DbInv, DbInOrder, Live
<1> DEFINE row == [blocks[f][i] EXCEPT !.uploaded = TRUE]
           rows == [blocks[f] EXCEPT ![i] = row]
<1>3. /\ blocks'[f] = rows /\ \A g \in Ids \ {f} : blocks'[g] = blocks[g]
      /\ files' = files
  BY DEF MarkUploaded, DbInv, DbTypeOK
<1>4. /\ DOMAIN rows = DOMAIN blocks[f] /\ rows[i].uploaded /\ rows[i].hash = blocks[f][i].hash
      /\ \A k \in DOMAIN blocks[f] \ {i} : rows[k] = blocks[f][k]
  BY <1>1 DEF Row
<1> HIDE DEF rows
<1>5. HashesOf(rows) = HashesOf(blocks[f])
  BY <1>4 DEF HashesOf
<1>6. {k \in DOMAIN rows : rows[k].uploaded}
        = {k \in DOMAIN blocks[f] : blocks[f][k].uploaded} \cup {i}
  BY <1>1, <1>4
<1>7. Upload(n)' = [Held(n) EXCEPT !.up = Held(n).up \cup {i}]
  <2>1. Exists(n)' /\ files'[n] = files[n]
    BY <1>2, <1>3 DEF Exists
  <2>2. Held(n)' = [blocks |-> HashesOf(blocks'[f]),
                    up |-> {k \in DOMAIN blocks'[f] : blocks'[f][k].uploaded},
                    complete |-> files[n].state = "complete"]
    BY <1>2, <2>1 DEF Held, HashesOf
  <2>3. Held(n)' = [blocks |-> HashesOf(blocks[f]),
                    up |-> {k \in DOMAIN blocks[f] : blocks[f][k].uploaded} \cup {i},
                    complete |-> files[n].state = "complete"]
    BY <1>3, <1>5, <1>6, <2>2
  <2>4. PICK whole : whole = (files[n].state = "complete")
    OBVIOUS
  <2>5. [Held(n) EXCEPT !.up = Held(n).up \cup {i}]
          = [blocks |-> HashesOf(blocks[f]),
             up |-> {k \in DOMAIN blocks[f] : blocks[f][k].uploaded} \cup {i},
             complete |-> whole]
    <3>1. Held(n) = [blocks |-> HashesOf(blocks[f]),
                     up |-> {k \in DOMAIN blocks[f] : blocks[f][k].uploaded},
                     complete |-> whole]
      BY <1>2, <2>4 DEF Held
    <3>2. Held(n).up = {k \in DOMAIN blocks[f] : blocks[f][k].uploaded}
      BY <1>2 DEF Held
    <3>3. [Held(n) EXCEPT !.up = Held(n).up \cup {i}]
            = [blocks |-> HashesOf(blocks[f]), up |-> Held(n).up \cup {i},
               complete |-> whole]
      BY <3>1, UpExcept
    <3> QED BY <3>2, <3>3
  <2>6. Upload(n)' = Held(n)'
    BY <2>1 DEF Upload
  <2> QED BY <2>3, <2>4, <2>5, <2>6, Zenon
<1>8. ASSUME NEW k \in Names \ {n} PROVE Upload(k)' = Upload(k)
  <2>1. Exists(k) => files[k].id \in Ids \ {f}
    BY <1>2 DEF DbInv, DbInOrder, DbTypeOK, Exists, FileRow
  <2> QED BY <1>3, <2>1, SameUpload
<1>9. Uploads' = [Uploads EXCEPT ![n] = [Held(n) EXCEPT !.up = Held(n).up \cup {i}]]
  BY <1>7, <1>8, OneUpload
<1>10. Uploads[n] = Held(n) /\ Held(n) # NoFile
  BY <1>2, HeldIsNotFree
<1>11. i \in DOMAIN Held(n).blocks
  BY <1>1, <1>2 DEF Held, HashesOf
<1>12. Uploads' = [Uploads EXCEPT ![n].up = @ \cup {i}]
  BY <1>9, <1>10
<1>13. NS!Arrive(n, i)
  BY <1>10, <1>11, <1>12 DEF NS!Arrive, Uploads, Upload, Held
<1> QED BY <1>10, <1>11, <1>13 DEF Maps, NS!Next, Uploads, Upload, Held

LEMMA SetCompleteMaps ==
  ASSUME DbInv, NEW f \in Ids, MissingBlocks(f) = {}, SetComplete(f)
  PROVE  Maps
<1>1. /\ blocks' = blocks
      /\ \A k \in Names : files'[k] = IF Exists(k) /\ files[k].id = f
                                       THEN [files[k] EXCEPT !.state = "complete"]
                                       ELSE files[k]
  BY DEF SetComplete
<1>2. CASE ~Live(f)
  <2>1. \A k \in Names : files'[k] = files[k]
    BY <1>1, <1>2 DEF Live
  <2>2. \A k \in Names : Upload(k)' = Upload(k)
    BY <1>1, <2>1, SameUpload
  <2> QED BY <2>2 DEF Maps, Uploads
<1>3. CASE Live(f)
  <2>1. PICK n \in Names : Exists(n) /\ files[n].id = f
    BY <1>3 DEF Live
  <2>2. files[n] \in FileRow /\ Uploads[n] = Held(n) /\ Held(n) # NoFile
    BY <2>1, HeldIsNotFree
  <2>3. /\ files'[n].id = f /\ files'[n].state = "complete" /\ files'[n] # NoFile
    <3>1. files'[n] = [files[n] EXCEPT !.state = "complete"]
      BY <1>1, <2>1
    <3>2. [files[n] EXCEPT !.state = "complete"] \in FileRow
      BY <2>2 DEF FileRow
    <3> QED BY <2>1, <2>2, <3>1, <3>2, NoFileAssumption DEF FileRow
  <2>4. Upload(n)' = [Held(n) EXCEPT !.complete = TRUE]
    <3>1. Upload(n)' = Held(n)'
      BY <2>3 DEF Upload, Exists
    <3>2. Held(n)' = [blocks |-> HashesOf(blocks[f]),
                      up |-> {k \in DOMAIN blocks[f] : blocks[f][k].uploaded},
                      complete |-> TRUE]
      BY <1>1, <2>3 DEF Held, HashesOf
    <3>3. PICK whole : whole = (files[n].state = "complete")
      OBVIOUS
    <3>4. Held(n) = [blocks |-> HashesOf(blocks[f]),
                     up |-> {k \in DOMAIN blocks[f] : blocks[f][k].uploaded},
                     complete |-> whole]
      BY <2>1, <3>3 DEF Held
    <3>5. PICK new : new = TRUE
      OBVIOUS
    <3>6. [Held(n) EXCEPT !.complete = new]
            = [blocks |-> HashesOf(blocks[f]),
               up |-> {k \in DOMAIN blocks[f] : blocks[f][k].uploaded},
               complete |-> new]
      BY <3>4, CompleteExcept
    <3> QED BY <3>1, <3>2, <3>5, <3>6, Zenon
  <2>5. ASSUME NEW k \in Names \ {n} PROVE Upload(k)' = Upload(k)
    <3>1. files'[k] = files[k]
      BY <1>1, <2>1 DEF DbInv, DbInOrder
    <3> QED BY <1>1, <3>1, SameUpload
  <2>6. Uploads' = [Uploads EXCEPT ![n] = [Held(n) EXCEPT !.complete = TRUE]]
    BY <2>4, <2>5, OneUpload
  <2>7. Held(n).up = DOMAIN Held(n).blocks
    BY <2>1 DEF Held, HashesOf, MissingBlocks
  <2>8. Uploads' = [Uploads EXCEPT ![n].complete = TRUE]
    BY <2>2, <2>6
  <2>9. NS!Complete(n)
    BY <2>2, <2>7, <2>8 DEF NS!Complete, Uploads, Upload, Held
  <2> QED BY <2>9 DEF Maps, NS!Next
<1> QED BY <1>2, <1>3

LEMMA DeleteFileMaps ==
  ASSUME DbInv, NEW n \in Names, DeleteFile(n)
  PROVE  Maps
<1>1. /\ Exists(n) /\ files'[n] = NoFile /\ \A k \in Names \ {n} : files'[k] = files[k]
      /\ files[n].id \in Ids /\ \A f \in Ids \ {files[n].id} : blocks'[f] = blocks[f]
  BY DEF DeleteFile, DbInv, DbTypeOK, Exists, FileRow
<1>2. Upload(n)' = NoFile
  BY <1>1 DEF Upload, Exists
<1>3. ASSUME NEW k \in Names \ {n} PROVE Upload(k)' = Upload(k)
  <2>1. Exists(k) => files[k].id \in Ids \ {files[n].id}
    BY <1>1 DEF DbInv, DbInOrder, DbTypeOK, Exists, FileRow
  <2> QED BY <1>1, <2>1, SameUpload
<1>4. Uploads' = [Uploads EXCEPT ![n] = NoFile]
  BY <1>2, <1>3, OneUpload
<1>5. Uploads[n] # NoFile
  BY <1>1, HeldIsNotFree
<1>6. NS!Remove(n)
  BY <1>4, <1>5 DEF NS!Remove, Uploads, Upload, Held
<1> QED BY <1>6 DEF Maps, NS!Next

LEMMA UnchangedMaps ==
  ASSUME UNCHANGED db
  PROVE  Maps
<1>1. files' = files /\ blocks' = blocks
  BY DEF db
<1>2. \A k \in Names : Upload(k)' = Upload(k)
  BY <1>1, SameUpload
<1> QED BY <1>2 DEF Maps, Uploads

-----------------------------------------------------------------------------
LEMMA StepMaps ==
  ASSUME IInv, NEW c \in Handlers, Step(c)
  PROVE  Maps
<1> USE DEF At
<1>0. DbInv /\ InOrder(h[c])
  BY DEF IInv, Inv, TypeOK, ServerInOrder, DbInv, InOrder
<1>1. ASSUME h[c].pc \notin NoFileYet \cup {"done"} PROVE h[c].file.id \in Ids
  BY <1>0, <1>1 DEF InOrder, HandlerInOrder, Handler, FileRow
<1>2. CASE InitTx(c)
  <2>1. h[c].name \in Names /\ h[c].man \in Manifests
    BY <1>0, <1>2 DEF InitTx, InOrder, HandlerInOrder
  <2> QED BY <1>0, <1>2, <2>1, CreateMaps, UnchangedMaps DEF InitTx
<1>3. CASE PutMark(c)
  BY <1>0, <1>1, <1>3, MarkUploadedMaps, UnchangedMaps DEF PutMark, NoFileYet
<1>4. CASE CommitUpdate(c)
  <2>1. MissingBlocks(h[c].file.id) = {}
    BY <1>4 DEF CommitUpdate, IInv, Inv, ServerInOrder, CommitInOrder
  <2> QED BY <1>0, <1>1, <1>4, <2>1, SetCompleteMaps DEF CommitUpdate, NoFileYet
<1>5. CASE DeleteDrop(c)
  <2>1. h[c].name \in Names
    BY <1>0, <1>5 DEF DeleteDrop, InOrder, HandlerInOrder
  <2> QED BY <1>0, <1>5, <2>1, DeleteFileMaps, UnchangedMaps DEF DeleteDrop
<1>6. CASE UNCHANGED db
  BY <1>6, UnchangedMaps
<1> QED BY <1>2, <1>3, <1>4, <1>5, <1>6
        DEF Step, InitReread, InitMissing, GetFile, PutGetBlock, PutBody,
            PutReplica, CommitCount, ReadList, ReadGetBlock, StreamHit,
            StreamMiss, DeleteList, DeleteBlock, Finish

LEMMA NextMaps == IInv /\ [Next]_vars => Maps
<1> SUFFICES ASSUME IInv, [Next]_vars PROVE Maps
  OBVIOUS
<1>1. ASSUME NEW c \in Handlers, Step(c) PROVE Maps
  BY <1>1, StepMaps
<1>2. CASE UNCHANGED db
  BY <1>2, UnchangedMaps
<1> QED BY <1>1, <1>2 DEF Next, Arrive, LateCall, Crash, vars, db

LEMMA InitMaps == Init => NS!Init
  BY DEF Init, DbInit, NS!Init, Exists

\* Each name goes through the life of an upload, whatever requests for it run
\* at the same time and wherever the coordinator crashes.
THEOREM Implements == Spec => ImplementsNamespace
<1>1. IInv /\ [Next]_vars => [NS!Next]_Uploads
  BY NextMaps DEF Maps
<1> QED BY <1>1, InitMaps, InvHolds, PTL
        DEF Spec, ImplementsNamespace, NS!Spec, Uploads, Upload, Held

-----------------------------------------------------------------------------
(* Downloads.  What follows is inductive next to IInv.                     *)

Describes(m, f) == m.sha = f.sha /\ m.size = f.size

Hashed(rows, bs) == /\ DOMAIN rows = DOMAIN bs
                    /\ \A i \in DOMAIN rows : rows[i].hash = bs[i]

\* The rows of a file that was read are those of a manifest with its sha and
\* size, or gone.
Described(f, rows) ==
  \E m \in Manifests : Describes(m, f) /\ (Hashed(rows, m.blocks) \/ rows = <<>>)

\* What a get has sent, and what it has still to send.
StartsWith(s, bs) == Len(s) <= Len(bs) /\ \A i \in 1..Len(s) : s[i] = bs[i]

Continues(s, rows, bs) == /\ StartsWith(s, bs)
                          /\ Len(s) + Len(rows) = Len(bs)
                          /\ \A i \in 1..Len(rows) : rows[i].hash = bs[Len(s) + i]

GetInOrder(l) ==
  l.op = "get" =>
    /\ l.pc \in {"getfile", "list"} => l.sent = <<>>
    /\ l.pc = "stream" => \E m \in Manifests : /\ Describes(m, l.file)
                                               /\ Continues(l.sent, l.rows, m.blocks)
    /\ l.pc = "done" /\ l.reply = "full"
         => \E m \in Manifests : Describes(m, l.file) /\ m.blocks = l.sent

FilesDescribed == \A n \in Names : Exists(n) => Described(files[n], blocks[files[n].id])

ReadsDescribed ==
  \A c \in Handlers : h[c].file # NoFile => Described(h[c].file, blocks[h[c].file.id])

GetsInOrder == /\ FilesDescribed /\ ReadsDescribed
               /\ \A c \in Handlers : GetInOrder(h[c])

LEMMA OneMoreSent ==
  ASSUME NEW s \in Seq(Hashes), NEW bs \in Seq(Hashes), NEW rows \in Seq(Row),
         rows # <<>>, Continues(s, rows, bs)
  PROVE  /\ Append(s, Head(rows).hash) \in Seq(Hashes)
         /\ Continues(Append(s, Head(rows).hash), Tail(rows), bs)
<1> DEFINE b == Head(rows).hash
           t == Append(s, b)
           n == Len(s)
           k == Len(rows)
           rest == Tail(rows)
<1>1. Head(rows) \in Row /\ Head(rows) = rows[1] /\ b \in Hashes
  <2>1. Head(rows) \in Row
    BY HeadTailProperties
  <2>2. Head(rows) = rows[1]
    OBVIOUS
  <2> QED BY <2>1, <2>2 DEF Row
<1>2. /\ n \in Nat /\ k \in Nat /\ k # 0 /\ Len(bs) \in Nat /\ Len(rest) = k - 1
      /\ \A i \in 1..Len(rest) : rest[i] = rows[i + 1]
  BY LenProperties, EmptySeq, HeadTailProperties
<1>3. /\ t \in Seq(Hashes) /\ Len(t) = n + 1 /\ t[n + 1] = b
      /\ \A i \in 1..n : t[i] = s[i]
  BY <1>1, AppendProperties
<1>4. /\ n + k = Len(bs) /\ \A i \in 1..n : s[i] = bs[i]
      /\ \A i \in 1..k : rows[i].hash = bs[n + i]
  BY DEF Continues, StartsWith
<1> HIDE DEF b, t, n, k, rest
<1>5. b = bs[n + 1]
  BY <1>1, <1>2, <1>4 DEF b
<1>6. \A i \in 1..(n + 1) : t[i] = bs[i]
  <2>1. \A i \in 1..(n + 1) : i \in 1..n \/ i = n + 1
    BY <1>2
  <2> QED BY <1>3, <1>4, <1>5, <2>1
<1>7. ASSUME NEW i \in 1..Len(rest) PROVE rest[i].hash = bs[Len(t) + i]
  <2>1. i + 1 \in 1..k /\ n + (i + 1) = (n + 1) + i
    BY <1>2
  <2>2. rest[i].hash = bs[n + (i + 1)]
    BY <1>2, <1>4, <2>1
  <2> QED BY <1>3, <2>1, <2>2
<1>8. Len(t) <= Len(bs) /\ Len(t) + Len(rest) = Len(bs)
  <2>1. /\ n \in Nat /\ k \in Nat /\ k # 0 /\ n + k = Len(bs)
        /\ Len(rest) = k - 1 /\ Len(t) = n + 1
    BY <1>2, <1>3, <1>4
  <2>2. Len(t) <= n + k /\ Len(t) + Len(rest) = n + k
    BY <2>1
  <2> QED BY <2>1, <2>2
<1>9. Continues(t, rest, bs)
  BY <1>3, <1>6, <1>7, <1>8 DEF Continues, StartsWith
<1> QED BY <1>3, <1>9 DEF t, b, rest

\* Only the whole list of blocks has the size that a get declares.
LEMMA FullIsWhole ==
  ASSUME NEW l, l.op = "get", l.sent \in Seq(Hashes), Length(l) = "full",
         NEW m \in Manifests, Describes(m, l.file), StartsWith(l.sent, m.blocks)
  PROVE  m.blocks = l.sent
<1> DEFINE s == l.sent
           k == Len(l.sent)
<1>1. /\ m.blocks \in Seq(Hashes) /\ Len(m.blocks) \in Nat /\ k \in 0..Len(m.blocks)
      /\ \A i \in 1..k : s[i] = m.blocks[i]
  BY MetaStoreAssumption, LenProperties DEF StartsWith
<1>2. /\ SubSeq(m.blocks, 1, k) \in Seq(Hashes) /\ Len(SubSeq(m.blocks, 1, k)) = k
      /\ \A i \in 1..k : SubSeq(m.blocks, 1, k)[i] = m.blocks[i]
  <2>1. \A i \in 1..k : m.blocks[i] \in Hashes
    BY <1>1, ElementOfSeq
  <2> QED BY <1>1, <2>1, SubSeqProperties
<1>3. SubSeq(m.blocks, 1, k) = s
  BY <1>1, <1>2, SeqEqual
<1>4. Bytes(s) = m.size
  BY DEF Length, Describes
<1>5. k = Len(m.blocks)
  BY <1>1, <1>3, <1>4, BytesAssumption
<1> QED BY <1>1, <1>5, SeqEqual

\* A get with some blocks sent goes on with the next row, or answers.
LEMMA StreamedGet ==
  ASSUME NEW l \in Handler, l.op = "get", NEW rows \in Seq(Row),
         NEW m \in Manifests, Describes(m, l.file), StartsWith(l.sent, m.blocks),
         rows # <<>> => Continues(l.sent, rows, m.blocks)
  PROVE  GetInOrder(Streamed(l, rows))
<1>1. CASE rows = <<>>
  <2> DEFINE k == Done(l, Length(l))
  <2>1. /\ k.pc = "done" /\ k.reply = Length(l) /\ k.file = l.file /\ k.sent = l.sent
    BY DEF Done, Handler
  <2>2. l.sent \in Seq(Hashes)
    BY DEF Handler
  <2> QED BY <1>1, <2>1, <2>2, FullIsWhole DEF Streamed, GetInOrder
<1>2. CASE rows # <<>>
  <2>1. /\ Streamed(l, rows).pc = "stream" /\ Streamed(l, rows).file = l.file
        /\ Streamed(l, rows).sent = l.sent /\ Streamed(l, rows).rows = rows
    BY <1>2 DEF Streamed, Handler
  <2> QED BY <1>2, <2>1 DEF GetInOrder
<1> QED BY <1>1, <1>2

LEMMA DoneGet ==
  ASSUME NEW l \in Handler, NEW reply \in Replies \ {"full"}
  PROVE  GetInOrder(Done(l, reply))
  BY DEF Done, Handler, GetInOrder

LEMMA OtherGet ==
  ASSUME NEW l, l.pc \notin {"getfile", "list", "stream", "done"}
  PROVE  GetInOrder(l)
  BY DEF GetInOrder

LEMMA OpKept ==
  ASSUME Inv, NEW c \in Handlers, Step(c)
  PROVE  h'[c] = Idle \/ h'[c].op = h[c].op
<1>1. h \in [Handlers -> Handler] /\ h[c] \in Handler
  BY DEF Inv, TypeOK
<1>2. ASSUME NEW l, Become(c, l) PROVE h'[c] = l
  BY <1>1, <1>2 DEF Become
<1>3. \A reply, rows, took :
        /\ Done(h[c], reply).op = h[c].op
        /\ Streamed(h[c], rows).op = h[c].op
        /\ Unlinking(h[c], rows).op = h[c].op
        /\ Fanned(h[c], took).op = h[c].op
  BY <1>1 DEF Done, Streamed, Unlinking, Fanned, Handler
<1>4. \A reply, rows, sent :
        /\ Done([h[c] EXCEPT !.sent = sent], reply).op = h[c].op
        /\ Streamed([h[c] EXCEPT !.sent = sent], rows).op = h[c].op
  BY <1>1 DEF Done, Streamed, Handler
<1>5. CASE InitTx(c) \/ InitReread(c) \/ InitMissing(c) \/ GetFile(c)
  BY <1>1, <1>2, <1>3, <1>5 DEF InitTx, InitReread, InitMissing, GetFile, Handler
<1>6. CASE PutGetBlock(c) \/ PutBody(c) \/ PutReplica(c) \/ PutMark(c)
  BY <1>1, <1>2, <1>3, <1>6 DEF PutGetBlock, PutBody, PutReplica, PutMark, Handler
<1>7. CASE CommitCount(c) \/ CommitUpdate(c) \/ ReadGetBlock(c) \/ StreamMiss(c)
  BY <1>1, <1>2, <1>3, <1>7
  DEF CommitCount, CommitUpdate, ReadGetBlock, StreamMiss, Handler
<1>8. CASE ReadList(c) \/ StreamHit(c)
  BY <1>1, <1>2, <1>3, <1>4, <1>8 DEF ReadList, StreamHit
<1>9. CASE DeleteList(c) \/ DeleteBlock(c) \/ DeleteDrop(c) \/ Finish(c)
  BY <1>1, <1>2, <1>3, <1>9 DEF DeleteList, DeleteBlock, DeleteDrop, Finish, Handler
<1> QED BY <1>5, <1>6, <1>7, <1>8, <1>9 DEF Step

LEMMA StepGet ==
  ASSUME Inv, GetsInOrder, NEW c \in Handlers, Step(c)
  PROVE  GetInOrder(h'[c])
<1> USE DEF At
<1>0. /\ h \in [Handlers -> Handler] /\ h[c] \in Handler /\ HandlerInOrder(h[c])
      /\ GetInOrder(h[c]) /\ InOrder(h[c]) /\ TypeOK /\ DbInOrder
  BY DEF Inv, TypeOK, ServerInOrder, GetsInOrder, InOrder
<1>1. ASSUME NEW l, Become(c, l) PROVE h'[c] = l
  BY <1>0, <1>1 DEF Become
<1>2. ASSUME NEW reply \in Replies \ {"full"}, Become(c, Done(h[c], reply))
      PROVE  GetInOrder(h'[c])
  BY <1>0, <1>1, <1>2, DoneGet
<1>3. CASE h[c].op # "get"
  BY <1>3, OpKept, IdleInOrder, OtherGet DEF GetInOrder
<1> SUFFICES ASSUME h[c].op = "get" PROVE GetInOrder(h'[c])
  BY <1>3
<1>4. CASE InitTx(c) \/ InitReread(c) \/ InitMissing(c)
  <2>1. CASE Become(c, [h[c] EXCEPT !.pc = "reread"])
    BY <1>0, <1>1, <2>1, OtherGet DEF Handler
  <2>2. CASE Become(c, [h[c] EXCEPT !.pc = "missing", !.file = files[h[c].name]])
    BY <1>0, <1>1, <2>2, OtherGet DEF Handler
  <2> QED BY <1>2, <1>4, <2>1, <2>2 DEF InitTx, InitReread, InitMissing, Replies
<1>5. CASE GetFile(c)
  <2>1. CASE Become(c, [h[c] EXCEPT !.pc = AfterGetFile[h[c].op], !.file = files[h[c].name]])
    <3>1. h[c].sent = <<>> /\ AfterGetFile[h[c].op] = "list"
      BY <1>0, <1>5 DEF GetFile, GetInOrder, AfterGetFile
    <3>2. h'[c].pc = "list" /\ h'[c].sent = <<>>
      BY <1>0, <1>1, <2>1, <3>1 DEF Handler
    <3> QED BY <3>2 DEF GetInOrder
  <2> QED BY <1>2, <1>5, <2>1 DEF GetFile, Replies
<1>6. CASE PutBody(c)
  <2>1. CASE Become(c, [h[c] EXCEPT !.pc = "fanout", !.cand = h[c].rows[1].nodes])
    BY <1>0, <1>1, <2>1, OtherGet DEF Handler
  <2> QED BY <1>2, <1>6, <2>1 DEF PutBody, Replies
<1>7. CASE PutReplica(c)
  <2>1. PICK took : Become(c, Fanned(h[c], took)) /\ h[c].pc = "fanout"
    BY <1>7 DEF PutReplica
  <2>2. CASE Fanned(h[c], took).pc \in {"fanout", "mark"}
    BY <1>1, <2>1, <2>2, OtherGet
  <2>3. CASE Fanned(h[c], took).pc \notin {"fanout", "mark"}
    <3>1. Fanned(h[c], took) = Done(h[c], "error")
      BY <1>0, <2>1, <2>3 DEF Fanned, Handler
    <3> QED BY <1>2, <2>1, <3>1 DEF Replies
  <2> QED BY <2>2, <2>3
<1>8. CASE PutMark(c) \/ CommitUpdate(c) \/ DeleteDrop(c)
  BY <1>2, <1>8 DEF PutMark, CommitUpdate, DeleteDrop, Replies
<1>9. CASE CommitCount(c)
  <2>1. CASE Become(c, [h[c] EXCEPT !.pc = "update"])
    BY <1>0, <1>1, <2>1, OtherGet DEF Handler
  <2> QED BY <1>2, <1>9, <2>1 DEF CommitCount, Replies
<1>10. CASE ReadList(c)
  <2> DEFINE rows == blocks[h[c].file.id]
  <2>1. /\ h[c].sent = <<>> /\ h[c].file # NoFile /\ h[c].file \in FileRow
        /\ h'[c] = Streamed(h[c], rows)
    BY <1>0, <1>1, <1>10 DEF ReadList, GetInOrder, HandlerInOrder, Handler, NoFileYet
  <2>2. rows \in Seq(Row)
    BY <1>0, <2>1, RowsOfFile
  <2>3. PICK m \in Manifests : /\ Describes(m, h[c].file)
                               /\ Hashed(rows, m.blocks) \/ rows = <<>>
    BY <2>1 DEF GetsInOrder, ReadsDescribed, Described
  <2>4. m.blocks \in Seq(Hashes)
    BY MetaStoreAssumption
  <2>5. StartsWith(h[c].sent, m.blocks)
    BY <2>1, <2>4, EmptySeq, LenProperties DEF StartsWith
  <2>6. rows # <<>> => Continues(h[c].sent, rows, m.blocks)
    BY <2>1, <2>2, <2>3, <2>4, <2>5, EmptySeq, LenProperties DEF Continues, Hashed
  <2> QED BY <1>0, <2>1, <2>2, <2>3, <2>5, <2>6, StreamedGet
<1>11. CASE StreamHit(c) \/ StreamMiss(c)
  <2>1. /\ h[c].pc = "stream" /\ h[c].rows \in Seq(Row) /\ h[c].rows # <<>>
        /\ HaveNodes(h[c].rows) /\ h[c].sent \in Seq(Hashes)
    BY <1>0, <1>11 DEF StreamHit, StreamMiss, HandlerInOrder, Handler
  <2>2. PICK m \in Manifests : /\ Describes(m, h[c].file)
                               /\ Continues(h[c].sent, h[c].rows, m.blocks)
    BY <1>0, <2>1 DEF GetInOrder
  <2>3. CASE Become(c, Done(h[c], "short"))
    BY <1>2, <2>3 DEF Replies
  <2>4. CASE Become(c, [h[c] EXCEPT !.cand = Tail(h[c].cand)])
    <3>1. /\ h'[c].pc = "stream" /\ h'[c].file = h[c].file
          /\ h'[c].rows = h[c].rows /\ h'[c].sent = h[c].sent
      BY <1>0, <1>1, <2>1, <2>4 DEF Handler
    <3> QED BY <2>2, <3>1 DEF GetInOrder
  <2>5. CASE Become(c, Done(h[c], Length(h[c])))
    <3>1. h'[c] = Streamed(h[c], <<>>) /\ <<>> \in Seq(Row)
      BY <1>1, <2>5, EmptySeq DEF Streamed
    <3> QED BY <1>0, <2>2, <3>1, StreamedGet DEF Continues
  <2>6. CASE Become(c, Streamed([h[c] EXCEPT !.sent = Append(h[c].sent, Head(h[c].rows).hash)],
                                Tail(h[c].rows)))
    <3> DEFINE sent == Append(h[c].sent, Head(h[c].rows).hash)
               k == [h[c] EXCEPT !.sent = sent]
    <3>1. m.blocks \in Seq(Hashes) /\ Tail(h[c].rows) \in Seq(Row)
      BY <2>1, MetaStoreAssumption, TailHasNodes
    <3>2. sent \in Seq(Hashes) /\ Continues(sent, Tail(h[c].rows), m.blocks)
      BY <2>1, <2>2, <3>1, OneMoreSent
    <3>3. /\ k \in Handler /\ k.op = "get" /\ k.file = h[c].file /\ k.sent = sent
      BY <1>0, <3>2 DEF Handler
    <3> HIDE DEF sent, k
    <3>4. GetInOrder(Streamed(k, Tail(h[c].rows)))
      BY <2>2, <3>1, <3>2, <3>3, StreamedGet DEF Continues
    <3> QED BY <1>1, <2>6, <3>4 DEF k, sent
  <2> QED BY <1>11, <2>3, <2>4, <2>5, <2>6 DEF StreamHit, StreamMiss
<1>12. CASE DeleteBlock(c)
  <2>1. PICK rows : \/ Become(c, [h[c] EXCEPT !.cand = Tail(h[c].cand)])
                    \/ Become(c, Unlinking(h[c], rows))
    BY <1>12 DEF DeleteBlock
  <2>2. h'[c].pc \in {"unlink", "drop"}
    BY <1>0, <1>1, <1>12, <2>1 DEF DeleteBlock, Unlinking, Handler
  <2> QED BY <2>2, OtherGet
<1>13. CASE Finish(c)
  BY <1>1, <1>13, IdleInOrder, OtherGet DEF Finish
<1>14. ~(PutGetBlock(c) \/ ReadGetBlock(c) \/ DeleteList(c))
  BY DEF PutGetBlock, ReadGetBlock, DeleteList
<1> QED BY <1>4, <1>5, <1>6, <1>7, <1>8, <1>9, <1>10, <1>11, <1>12, <1>13, <1>14
        DEF Step

\* What a step leaves of the rows of an id in use: their hashes and nodes, or
\* nothing when the file is deleted.
SameRow(r, s) == r.hash = s.hash /\ r.nodes = s.nodes

Kept(old, new) == /\ DOMAIN new = DOMAIN old
                  /\ \A i \in DOMAIN old : SameRow(new[i], old[i])

LEMMA RowsKept ==
  ASSUME IInv, NEW c \in Handlers, Step(c), NEW f \in Ids, f < nextId
  PROVE  Kept(blocks[f], blocks'[f]) \/ (h[c].pc = "drop" /\ blocks'[f] = <<>>)
<1> USE DEF At
<1>0. /\ h[c] \in Handler /\ HandlerInOrder(h[c]) /\ blocks \in [Ids -> Seq(Row)]
      /\ blocks[f] \in Seq(Row) /\ nextId \in Int /\ f \in Int
  BY DEF IInv, Inv, TypeOK, DbTypeOK, ServerInOrder, Ids
<1>1. CASE blocks'[f] = blocks[f]
  BY <1>1 DEF Kept, SameRow
<1>2. CASE InitTx(c)
  <2>1. CASE Create(h[c].name, h[c].man, RowsFor(h[c].man))
    BY <1>0, <1>1, <2>1 DEF Create, NewId
  <2> QED BY <1>1, <1>2, <2>1 DEF InitTx, db
<1>3. CASE PutMark(c)
  <2>1. CASE MarkUploaded(h[c].file.id, h[c].idx)
    <3> DEFINE g == h[c].file.id
               i == h[c].idx
    <3>1. blocks' = [blocks EXCEPT ![g] = [blocks[g] EXCEPT ![i] = [@ EXCEPT !.uploaded = TRUE]]]
      BY <2>1 DEF MarkUploaded
    <3>2. CASE f # g
      BY <1>0, <1>1, <3>1, <3>2
    <3>3. CASE f = g
      <4>1. \A k \in DOMAIN blocks[f] : blocks[f][k] \in Row
        BY <1>0, LenProperties, ElementOfSeq
      <4>2. blocks'[f] = [blocks[f] EXCEPT ![i] = [@ EXCEPT !.uploaded = TRUE]]
        BY <1>0, <3>1, <3>3
      <4>3. /\ DOMAIN blocks'[f] = DOMAIN blocks[f]
            /\ \A k \in DOMAIN blocks[f] :
                 blocks'[f][k] = IF k = i THEN [blocks[f][i] EXCEPT !.uploaded = TRUE]
                                          ELSE blocks[f][k]
        BY <4>2
      <4> QED BY <4>1, <4>3 DEF Kept, SameRow, Row
    <3> QED BY <3>2, <3>3
  <2> QED BY <1>1, <1>3, <2>1 DEF PutMark, db
<1>4. CASE CommitUpdate(c)
  BY <1>1, <1>4 DEF CommitUpdate, SetComplete
<1>5. CASE DeleteDrop(c)
  <2>1. CASE DeleteFile(h[c].name)
    BY <1>0, <1>1, <1>5, <2>1 DEF DeleteFile, DeleteDrop
  <2> QED BY <1>1, <1>5, <2>1 DEF DeleteDrop, db
<1>6. CASE UNCHANGED db
  BY <1>1, <1>6 DEF db
<1> QED BY <1>2, <1>3, <1>4, <1>5, <1>6
        DEF Step, InitReread, InitMissing, GetFile, PutGetBlock, PutBody,
            PutReplica, CommitCount, ReadList, ReadGetBlock, StreamHit,
            StreamMiss, DeleteList, DeleteBlock, Finish

\* A file after a step: it was there before, or a manifest has just made it.
SameFile(f, g) == f.id = g.id /\ f.sha = g.sha /\ f.size = g.size

LEMMA FilesKept ==
  ASSUME IInv, NEW c \in Handlers, Step(c), NEW n \in Names, Exists(n)'
  PROVE  \/ Exists(n) /\ SameFile(files'[n], files[n])
         \/ \E m \in Manifests : Describes(m, files'[n]) /\ blocks'[files'[n].id] = RowsFor(m)
<1> USE DEF At
<1>0. /\ HandlerInOrder(h[c]) /\ files \in [Names -> FileRow \cup {NoFile}]
      /\ blocks \in [Ids -> Seq(Row)]
  BY DEF IInv, Inv, TypeOK, DbTypeOK, ServerInOrder
<1>1. CASE files'[n] = files[n]
  BY <1>1 DEF SameFile, Exists
<1>2. CASE InitTx(c)
  <2>1. CASE Create(h[c].name, h[c].man, RowsFor(h[c].man)) /\ h[c].name = n
    <3>1. h[c].man \in Manifests
      BY <1>0, <1>2 DEF InitTx, HandlerInOrder
    <3>2. files'[n] = [id |-> nextId, sha |-> h[c].man.sha, size |-> h[c].man.size,
                       state |-> "pending"]
      BY <1>0, <2>1 DEF Create, NewId
    <3>3. blocks'[nextId] = RowsFor(h[c].man)
      BY <1>0, <2>1 DEF Create, NewId
    <3> QED BY <3>1, <3>2, <3>3 DEF Describes
  <2>2. CASE Create(h[c].name, h[c].man, RowsFor(h[c].man)) /\ h[c].name # n
    BY <1>0, <1>1, <2>2 DEF Create
  <2> QED BY <1>1, <1>2, <2>1, <2>2 DEF InitTx, db
<1>3. CASE PutMark(c)
  BY <1>1, <1>3 DEF PutMark, MarkUploaded, db
<1>4. CASE CommitUpdate(c)
  <2>1. files'[n] = IF Exists(n) /\ files[n].id = h[c].file.id
                      THEN [files[n] EXCEPT !.state = "complete"] ELSE files[n]
    BY <1>4 DEF CommitUpdate, SetComplete
  <2>2. Exists(n) => files[n] \in FileRow
    BY <1>0 DEF Exists
  <2> QED BY <1>1, <2>1, <2>2 DEF SameFile, FileRow
<1>5. CASE DeleteDrop(c)
  <2>1. CASE DeleteFile(h[c].name)
    BY <1>0, <1>1, <2>1 DEF DeleteFile, Exists
  <2> QED BY <1>1, <1>5, <2>1 DEF DeleteDrop, db
<1>6. CASE UNCHANGED db
  BY <1>1, <1>6 DEF db
<1> QED BY <1>2, <1>3, <1>4, <1>5, <1>6
        DEF Step, InitReread, InitMissing, GetFile, PutGetBlock, PutBody,
            PutReplica, CommitCount, ReadList, ReadGetBlock, StreamHit,
            StreamMiss, DeleteList, DeleteBlock, Finish

LEMMA DescribedKept ==
  ASSUME NEW f, NEW g, SameFile(g, f), NEW old \in Seq(Row), NEW new \in Seq(Row),
         Described(f, old), Kept(old, new) \/ new = <<>>
  PROVE  Described(g, new)
<1>1. PICK m \in Manifests : Describes(m, f) /\ (Hashed(old, m.blocks) \/ old = <<>>)
  BY DEF Described
<1>2. Describes(m, g)
  BY <1>1 DEF Describes, SameFile
<1>3. CASE new = <<>>
  BY <1>2, <1>3 DEF Described
<1>4. CASE Kept(old, new) /\ old = <<>>
  <2>1. Len(new) = 0
    BY <1>4, EmptySeq, LenProperties DEF Kept
  <2> QED BY <1>3, <2>1, EmptySeq
<1>5. CASE Kept(old, new) /\ Hashed(old, m.blocks)
  BY <1>2, <1>5 DEF Kept, SameRow, Hashed, Described
<1> QED BY <1>1, <1>3, <1>4, <1>5

LEMMA StepDescribed ==
  ASSUME IInv, IInv', GetsInOrder, NEW c \in Handlers, Step(c)
  PROVE  FilesDescribed' /\ ReadsDescribed'
<1>1. ASSUME NEW f, NEW g, f \in FileRow, f.id < nextId, SameFile(g, f),
             Described(f, blocks[f.id])
      PROVE  Described(g, blocks'[g.id])
  <2>1. f.id \in Ids /\ g.id = f.id /\ blocks[f.id] \in Seq(Row) /\ blocks'[f.id] \in Seq(Row)
    BY <1>1 DEF FileRow, SameFile, IInv, Inv, TypeOK, DbTypeOK
  <2>2. Kept(blocks[f.id], blocks'[f.id]) \/ blocks'[f.id] = <<>>
    BY <1>1, <2>1, RowsKept
  <2> QED BY <1>1, <2>1, <2>2, DescribedKept
<1>2. \A n \in Names : Exists(n) => files[n] \in FileRow /\ files[n].id < nextId
  BY DEF IInv, Inv, TypeOK, DbTypeOK, ServerInOrder, DbInOrder, Exists
<1>3. ASSUME NEW n \in Names, Exists(n)'
      PROVE  Described(files'[n], blocks'[files'[n].id])
  <2>1. CASE Exists(n) /\ SameFile(files'[n], files[n])
    BY <1>1, <1>2, <2>1 DEF GetsInOrder, FilesDescribed
  <2>2. ASSUME NEW m \in Manifests, Describes(m, files'[n]),
               blocks'[files'[n].id] = RowsFor(m)
        PROVE  Described(files'[n], blocks'[files'[n].id])
    <3>1. Hashed(RowsFor(m), m.blocks)
      BY DEF Hashed, RowsFor
    <3> QED BY <2>2, <3>1 DEF Described
  <2> QED BY <1>3, <2>1, <2>2, FilesKept
<1>4. ASSUME NEW d \in Handlers, h'[d].file # NoFile
      PROVE  Described(h'[d].file, blocks'[h'[d].file.id])
  <2>1. ASSUME NEW f, f = h'[d].file, \/ \E e \in Handlers : f = h[e].file
                                      \/ \E n \in Names : Exists(n) /\ f = files[n]
        PROVE  Described(f, blocks'[f.id])
    <3>1. f \in FileRow /\ f.id < nextId /\ Described(f, blocks[f.id])
      BY <1>2, <1>4, <2>1
      DEF IInv, Inv, TypeOK, Handler, ServerInOrder, FilesRead, GetsInOrder,
          FilesDescribed, ReadsDescribed
    <3> QED BY <1>1, <3>1 DEF SameFile
  <2>2. PICK l : StepTo(c, l)
    BY StepHandler DEF IInv
  <2>3. h'[d] = IF d = c THEN l ELSE h[d]
    BY <2>2 DEF StepTo, Become, IInv, Inv, TypeOK
  <2>4. \/ h'[d].file = h[d].file
        \/ \E n \in Names : Exists(n) /\ h'[d].file = files[n]
    BY <1>4, <2>2, <2>3 DEF StepTo, Known
  <2> QED BY <2>1, <2>4
<1> QED BY <1>3, <1>4 DEF FilesDescribed, ReadsDescribed

LEMMA NextGets == IInv /\ GetsInOrder /\ [Next]_vars => GetsInOrder'
<1> SUFFICES ASSUME IInv, GetsInOrder, [Next]_vars PROVE GetsInOrder'
  OBVIOUS
<1>0. IInv' /\ h \in [Handlers -> Handler]
  BY NextInv DEF IInv, Inv, TypeOK
<1>1. ASSUME UNCHANGED db, \A d \in Handlers : h'[d].file \in {h[d].file, NoFile},
             \A d \in Handlers : GetInOrder(h'[d])
      PROVE  GetsInOrder'
  <2>1. files' = files /\ blocks' = blocks
    BY <1>1 DEF db
  <2>2. FilesDescribed' /\ ReadsDescribed'
    BY <1>1, <2>1 DEF GetsInOrder, FilesDescribed, ReadsDescribed, Exists
  <2> QED BY <1>1, <2>2 DEF GetsInOrder
<1>2. GetInOrder(Idle)
  BY IdleInOrder, OtherGet
<1>3. ASSUME NEW c \in Handlers, Arrive(c) PROVE GetsInOrder'
  <2>1. PICK l : Become(c, l) /\ l.file = NoFile /\ GetInOrder(l)
    BY <1>3, ArriveInOrder DEF Fresh, GetInOrder
  <2>2. \A d \in Handlers : h'[d] = IF d = c THEN l ELSE h[d]
    BY <1>0, <2>1 DEF Become
  <2> QED BY <1>1, <1>3, <2>1, <2>2 DEF Arrive, GetsInOrder
<1>4. ASSUME NEW c \in Handlers, Step(c) PROVE GetsInOrder'
  <2>1. GetInOrder(h'[c]) /\ FilesDescribed' /\ ReadsDescribed'
    BY <1>0, <1>4, StepGet, StepDescribed DEF IInv
  <2>2. PICK l : Become(c, l)
    BY <1>4, StepHandler DEF IInv, StepTo
  <2>3. \A d \in Handlers \ {c} : h'[d] = h[d]
    BY <1>0, <2>2 DEF Become
  <2> QED BY <2>1, <2>3 DEF GetsInOrder
<1>5. ASSUME NEW k \in late, LateCall(k) PROVE GetsInOrder'
  BY <1>1, <1>5 DEF LateCall, GetsInOrder
<1>6. CASE Crash
  BY <1>1, <1>2, <1>6, IdleInOrder DEF Crash
<1>7. CASE UNCHANGED vars
  BY <1>1, <1>7 DEF vars, db, GetsInOrder
<1> QED BY <1>3, <1>4, <1>5, <1>6, <1>7 DEF Next

LEMMA InitGets == Init => GetsInOrder
<1> SUFFICES ASSUME Init PROVE GetsInOrder
  OBVIOUS
<1>1. FilesDescribed
  BY DEF Init, DbInit, FilesDescribed, Exists
<1>2. ReadsDescribed /\ \A c \in Handlers : GetInOrder(h[c])
  BY IdleInOrder, OtherGet DEF Init, ReadsDescribed
<1> QED BY <1>1, <1>2 DEF GetsInOrder

\* A download that looks whole delivered the blocks of one content, although
\* the file it looked up may be deleted, and its name taken again, between any
\* two of its steps: its id is not, and the declared length tells a list of
\* blocks that is gone.
THEOREM DownloadsAreWhole == Spec => []DownloadIsWhole
<1>1. Init => IInv /\ GetsInOrder
  BY InitInv, InitGets
<1>2. IInv /\ GetsInOrder /\ [Next]_vars => (IInv /\ GetsInOrder)'
  BY NextInv, NextGets
<1>3. IInv /\ GetsInOrder => DownloadIsWhole
  BY DEF GetsInOrder, GetInOrder, DownloadIsWhole, Describes, At
<1> QED BY <1>1, <1>2, <1>3, PTL DEF Spec

-----------------------------------------------------------------------------
(* Uploads, as long as nobody deletes.                                     *)

Copies(row) == {row.nodes[k] : k \in DOMAIN row.nodes}

\* A put works on the row it read; the nodes that accepted its block are
\* replicas of that row and have it.  t is the table of blocks, s the nodes.
PutInOrder(l, t, s) ==
  /\ l.pc # "idle" => l.op # "delete"
  /\ l.pc \notin {"unlink", "drop"}
  /\ l.pc \notin {"fanout", "mark"} => l.took = {}
  /\ l.pc \in {"body", "fanout", "mark"}
       => l.idx \in DOMAIN t[l.file.id] /\ SameRow(t[l.file.id][l.idx], l.rows[1])
  /\ \A n \in l.took : n \in Copies(l.rows[1]) /\ l.rows[1].hash \in s[n]
  /\ l.pc = "fanout" => \A i \in DOMAIN l.cand : l.cand[i] \in Copies(l.rows[1])

Stored(row, s) == \E n \in Copies(row) : row.hash \in s[n]

BlocksStored == \A f \in Ids : \A i \in DOMAIN blocks[f] :
                  blocks[f][i].uploaded => Stored(blocks[f][i], store)

PutsInOrder == /\ \A k \in late : k.kind = "put"
               /\ \A c \in Handlers : PutInOrder(h[c], blocks, store)
               /\ BlocksStored

NoDeletes == "delete" \notin Ops

More(s, v) == \A n \in Nodes : s[n] \subseteq v[n]

\* What others do to the tables and the nodes leaves a put in order.
LEMMA PutKept ==
  ASSUME NEW t, NEW u, NEW s, NEW v, More(s, v),
         NEW l, l.took \subseteq Nodes, PutInOrder(l, t, s),
         l.pc \in {"body", "fanout", "mark"} => Kept(t[l.file.id], u[l.file.id])
  PROVE  PutInOrder(l, u, v)
  BY DEF PutInOrder, Kept, SameRow, More

\* The states that a put is not in.
LEMMA OtherPut ==
  ASSUME NEW t, NEW s, NEW l, l.took = {}, l.op # "delete",
         l.pc \notin {"body", "fanout", "mark", "unlink", "drop"}
  PROVE  PutInOrder(l, t, s)
  BY DEF PutInOrder

LEMMA StoreGrows ==
  ASSUME Inv, NoDeletes, PutsInOrder, NEW c \in Handlers, Step(c)
  PROVE  More(store, store') /\ \A k \in late' : k.kind = "put"
<1>1. store \in [Nodes -> SUBSET Hashes] /\ h[c].pc # "unlink"
  BY DEF Inv, TypeOK, PutsInOrder, PutInOrder
<1>2. CASE PutReplica(c)
  BY <1>1, <1>2 DEF PutReplica, More, PutsInOrder
<1>3. CASE UNCHANGED <<store, late>>
  BY <1>3 DEF More, PutsInOrder
<1> QED BY <1>1, <1>2, <1>3
        DEF At, Step, InitTx, InitReread, InitMissing, GetFile, PutGetBlock,
            PutBody, PutMark, CommitCount, CommitUpdate, ReadList, ReadGetBlock,
            StreamHit, StreamMiss, DeleteList, DeleteBlock, DeleteDrop, Finish

LEMMA DonePut ==
  ASSUME NEW l \in Handler, l.op # "delete", NEW reply, NEW t, NEW s
  PROVE  PutInOrder(Done(l, reply), t, s)
<1>1. Done(l, reply).took = {} /\ Done(l, reply).pc = "done" /\ Done(l, reply).op = l.op
  BY DEF Done, Handler
<1> QED BY <1>1, OtherPut

LEMMA StreamedPut ==
  ASSUME NEW l \in Handler, l.op # "delete", l.took = {}, NEW rows, NEW t, NEW s
  PROVE  PutInOrder(Streamed(l, rows), t, s)
<1>1. CASE rows = <<>>
  BY <1>1, DonePut DEF Streamed
<1>2. CASE rows # <<>>
  <2>1. /\ Streamed(l, rows).took = {} /\ Streamed(l, rows).pc = "stream"
        /\ Streamed(l, rows).op = l.op
    BY <1>2 DEF Streamed, Handler
  <2> QED BY <2>1, OtherPut
<1> QED BY <1>1, <1>2

LEMMA StepPut ==
  ASSUME Inv, NoDeletes, PutsInOrder, NEW c \in Handlers, Step(c)
  PROVE  PutInOrder(h'[c], blocks, store')
<1> USE DEF At
<1>0. /\ h \in [Handlers -> Handler] /\ h[c] \in Handler /\ HandlerInOrder(h[c])
      /\ PutInOrder(h[c], blocks, store) /\ h[c].took \subseteq Nodes
      /\ store \in [Nodes -> SUBSET Hashes]
  BY DEF Inv, TypeOK, ServerInOrder, PutsInOrder, Handler
<1>1. ASSUME NEW l, Become(c, l) PROVE h'[c] = l
  BY <1>0, <1>1 DEF Become
<1>2. h[c].pc # "idle" => h[c].op # "delete"
  BY <1>0 DEF PutInOrder
<1>3. ASSUME NEW reply, Become(c, Done(h[c], reply)), h[c].pc # "idle"
      PROVE  PutInOrder(h'[c], blocks, store')
  BY <1>0, <1>1, <1>2, <1>3, DonePut
<1>4. CASE InitTx(c) \/ InitReread(c) \/ InitMissing(c)
  <2>1. h[c].took = {} /\ h[c].op # "delete"
    BY <1>0, <1>2, <1>4 DEF InitTx, InitReread, InitMissing, PutInOrder
  <2>2. CASE Become(c, [h[c] EXCEPT !.pc = "reread"])
    BY <1>0, <1>1, <2>1, <2>2, OtherPut DEF Handler
  <2>3. CASE Become(c, [h[c] EXCEPT !.pc = "missing", !.file = files[h[c].name]])
    BY <1>0, <1>1, <2>1, <2>3, OtherPut DEF Handler
  <2> QED BY <1>3, <1>4, <2>2, <2>3 DEF InitTx, InitReread, InitMissing
<1>5. CASE GetFile(c)
  <2>1. h[c].took = {} /\ h[c].op \in AllOps \ {"delete", "init"}
    BY <1>0, <1>2, <1>5 DEF GetFile, PutInOrder, HandlerInOrder
  <2>2. AfterGetFile[h[c].op] \in {"getblock", "count", "list"}
    BY <2>1 DEF AfterGetFile, AllOps
  <2>3. CASE Become(c, [h[c] EXCEPT !.pc = AfterGetFile[h[c].op], !.file = files[h[c].name]])
    <3>1. /\ h'[c].took = {} /\ h'[c].op = h[c].op
          /\ h'[c].pc = AfterGetFile[h[c].op]
      BY <1>0, <1>1, <2>1, <2>3 DEF Handler
    <3> QED BY <2>1, <2>2, <3>1, OtherPut
  <2> QED BY <1>3, <1>5, <2>3 DEF GetFile
<1>6. CASE PutGetBlock(c)
  <2> DEFINE row == blocks[h[c].file.id][h[c].idx]
  <2>1. CASE HasBlock(h[c].file.id, h[c].idx)
             /\ Become(c, [h[c] EXCEPT !.pc = "body", !.rows = <<row>>])
    <3>1. /\ h'[c].pc = "body" /\ h'[c].rows = <<row>> /\ h'[c].took = {}
          /\ h'[c].op = "put" /\ h'[c].file = h[c].file /\ h'[c].idx = h[c].idx
      BY <1>0, <1>1, <1>6, <2>1 DEF PutGetBlock, PutInOrder, Handler
    <3>2. h'[c].rows[1] = row
      BY <3>1
    <3> QED BY <2>1, <3>1, <3>2 DEF PutInOrder, HasBlock, SameRow
  <2> QED BY <1>3, <1>6, <2>1 DEF PutGetBlock
<1>7. CASE PutBody(c)
  <2>1. CASE Become(c, [h[c] EXCEPT !.pc = "fanout", !.cand = h[c].rows[1].nodes])
    <3>1. /\ h'[c].pc = "fanout" /\ h'[c].rows = h[c].rows /\ h'[c].took = {}
          /\ h'[c].op = h[c].op /\ h'[c].file = h[c].file /\ h'[c].idx = h[c].idx
          /\ h'[c].cand = h[c].rows[1].nodes
      BY <1>0, <1>1, <1>7, <2>1 DEF PutBody, PutInOrder, Handler
    <3> QED BY <1>0, <1>2, <1>7, <3>1 DEF PutBody, PutInOrder, Copies
  <2> QED BY <1>3, <1>7, <2>1 DEF PutBody
<1>8. CASE PutReplica(c)
  <2> DEFINE n == Head(h[c].cand)
             b == h[c].rows[1].hash
  <2>1. /\ h[c].pc = "fanout" /\ h[c].cand \in Seq(Nodes) /\ h[c].cand # <<>>
        /\ h[c].op # "delete"
    BY <1>0, <1>2, <1>8 DEF PutReplica, HandlerInOrder, Handler
  <2>2. n = h[c].cand[1] /\ 1 \in DOMAIN h[c].cand
    BY <2>1, LenProperties, EmptySeq
  <2>3. n \in Nodes /\ n \in Copies(h[c].rows[1])
    <3>1. n \in Nodes
      BY <2>1, HeadTailProperties
    <3> QED BY <1>0, <2>1, <2>2, <3>1 DEF PutInOrder
  <2>4. PICK took : /\ Become(c, Fanned(h[c], took)) /\ took \subseteq Nodes
                    /\ \A k \in took : k \in Copies(h[c].rows[1]) /\ b \in store'[k]
    <3>1. \A k \in h[c].took : k \in Copies(h[c].rows[1]) /\ b \in store[k]
      BY <1>0 DEF PutInOrder
    <3>2. CASE /\ store' = [store EXCEPT ![n] = @ \cup {b}]
               /\ Become(c, Fanned(h[c], h[c].took \cup {n}))
      BY <1>0, <2>3, <3>1, <3>2
    <3>3. CASE UNCHANGED store /\ Become(c, Fanned(h[c], h[c].took))
      BY <1>0, <3>1, <3>3
    <3> QED BY <1>8, <3>2, <3>3 DEF PutReplica
  <2>5. /\ h[c].idx \in DOMAIN blocks[h[c].file.id]
        /\ SameRow(blocks[h[c].file.id][h[c].idx], h[c].rows[1])
    BY <1>0, <2>1 DEF PutInOrder
  <2>6. CASE Len(h[c].cand) > 1
    <3>1. /\ h'[c].pc = "fanout" /\ h'[c].rows = h[c].rows /\ h'[c].took = took
          /\ h'[c].op = h[c].op /\ h'[c].file = h[c].file /\ h'[c].idx = h[c].idx
          /\ h'[c].cand = Tail(h[c].cand)
      BY <1>0, <1>1, <2>1, <2>4, <2>6 DEF Fanned, Handler
    <3>2. \A i \in DOMAIN Tail(h[c].cand) : Tail(h[c].cand)[i] \in Copies(h[c].rows[1])
      <4>1. /\ Tail(h[c].cand) \in Seq(Nodes) /\ Len(h[c].cand) \in Nat
            /\ Len(Tail(h[c].cand)) = Len(h[c].cand) - 1
            /\ \A i \in 1..Len(Tail(h[c].cand)) : Tail(h[c].cand)[i] = h[c].cand[i + 1]
        BY <2>1, HeadTailProperties, LenProperties
      <4>2. /\ DOMAIN Tail(h[c].cand) = 1..Len(Tail(h[c].cand))
            /\ DOMAIN h[c].cand = 1..Len(h[c].cand)
        BY <2>1, <4>1, LenProperties
      <4>3. \A i \in 1..Len(Tail(h[c].cand)) : i + 1 \in 1..Len(h[c].cand)
        BY <4>1
      <4> QED BY <1>0, <2>1, <4>1, <4>2, <4>3 DEF PutInOrder
    <3> QED BY <2>1, <2>4, <2>5, <3>1, <3>2 DEF PutInOrder
  <2>7. CASE ~(Len(h[c].cand) > 1) /\ took = {}
    BY <1>3, <2>1, <2>4, <2>7 DEF Fanned
  <2>8. CASE ~(Len(h[c].cand) > 1) /\ took # {}
    <3>1. /\ h'[c].pc = "mark" /\ h'[c].rows = h[c].rows /\ h'[c].took = took
          /\ h'[c].op = h[c].op /\ h'[c].file = h[c].file /\ h'[c].idx = h[c].idx
      BY <1>0, <1>1, <2>1, <2>4, <2>8 DEF Fanned, Handler
    <3> QED BY <2>1, <2>4, <2>5, <3>1 DEF PutInOrder
  <2> QED BY <2>6, <2>7, <2>8
<1>9. CASE PutMark(c) \/ CommitUpdate(c)
  BY <1>3, <1>9 DEF PutMark, CommitUpdate
<1>10. CASE CommitCount(c)
  <2>1. h[c].took = {} /\ h[c].op # "delete"
    BY <1>0, <1>2, <1>10 DEF CommitCount, PutInOrder
  <2>2. CASE Become(c, [h[c] EXCEPT !.pc = "update"])
    BY <1>0, <1>1, <2>1, <2>2, OtherPut DEF Handler
  <2> QED BY <1>3, <1>10, <2>2 DEF CommitCount
<1>11. CASE ReadList(c) \/ ReadGetBlock(c) \/ StreamHit(c) \/ StreamMiss(c)
  <2>1. h[c].took = {} /\ h[c].op # "delete" /\ h[c].pc # "idle"
    BY <1>0, <1>2, <1>11 DEF ReadList, ReadGetBlock, StreamHit, StreamMiss, PutInOrder
  <2>2. ASSUME NEW rows, Become(c, Streamed(h[c], rows))
        PROVE  PutInOrder(h'[c], blocks, store')
    BY <1>0, <1>1, <2>1, <2>2, StreamedPut
  <2>3. ASSUME NEW sent \in Seq(Hashes)
        PROVE  LET k == [h[c] EXCEPT !.sent = sent]
               IN  k \in Handler /\ k.took = {} /\ k.op # "delete"
    BY <1>0, <2>1 DEF Handler
  <2>4. CASE ReadList(c)
    <3>1. CASE Become(c, Done([h[c] EXCEPT !.sent = HashesOf(blocks[h[c].file.id])], "ok"))
      <4>1. h[c].file \in FileRow
        BY <1>0, <2>4 DEF ReadList, HandlerInOrder, NoFileYet, Handler
      <4>2. HashesOf(blocks[h[c].file.id]) \in Seq(Hashes)
        BY <4>1, RowsOfFile, HashesType DEF Inv, ServerInOrder
      <4> QED BY <1>1, <2>3, <3>1, <4>2, DonePut
    <3> QED BY <2>2, <2>4, <3>1 DEF ReadList
  <2>5. CASE StreamHit(c)
    <3> DEFINE sent == Append(h[c].sent, Head(h[c].rows).hash)
    <3>1. CASE Become(c, Streamed([h[c] EXCEPT !.sent = sent], Tail(h[c].rows)))
      <4>1. Head(h[c].rows).hash \in Hashes /\ h[c].sent \in Seq(Hashes)
        BY <1>0, <2>5, TailHasNodes DEF StreamHit, HandlerInOrder, Handler, Row
      <4>2. sent \in Seq(Hashes)
        BY <4>1, AppendProperties
      <4> QED BY <1>1, <2>3, <3>1, <4>2, StreamedPut
    <3> QED BY <1>3, <2>1, <2>5, <3>1 DEF StreamHit
  <2>6. CASE StreamMiss(c)
    <3>1. CASE Become(c, [h[c] EXCEPT !.cand = Tail(h[c].cand)])
      <4>1. h'[c].took = {} /\ h'[c].op = h[c].op /\ h'[c].pc = "stream"
        BY <1>0, <1>1, <2>1, <2>6, <3>1 DEF StreamMiss, Handler
      <4> QED BY <2>1, <4>1, OtherPut
    <3> QED BY <1>3, <2>1, <2>6, <3>1 DEF StreamMiss
  <2> QED BY <1>3, <1>11, <2>1, <2>2, <2>4, <2>5, <2>6 DEF ReadGetBlock
<1>12. CASE Finish(c)
  BY <1>1, <1>12 DEF Finish, Idle, PutInOrder
<1>13. ~(DeleteList(c) \/ DeleteBlock(c) \/ DeleteDrop(c))
  BY <1>0 DEF PutInOrder, DeleteList, DeleteBlock, DeleteDrop
<1> QED BY <1>4, <1>5, <1>6, <1>7, <1>8, <1>9, <1>10, <1>11, <1>12, <1>13 DEF Step

LEMMA StepStored ==
  ASSUME Inv, NoDeletes, PutsInOrder, NEW c \in Handlers, Step(c)
  PROVE  BlocksStored'
<1> USE DEF At
<1>0. /\ PutInOrder(h[c], blocks, store) /\ HandlerInOrder(h[c]) /\ h[c] \in Handler
      /\ blocks \in [Ids -> Seq(Row)] /\ More(store, store')
  BY StoreGrows DEF Inv, TypeOK, DbTypeOK, ServerInOrder, PutsInOrder
<1>1. ASSUME NEW r, NEW w, SameRow(w, r), r.nodes \in Seq(Nodes), Stored(r, store)
      PROVE  Stored(w, store')
  <2>1. Copies(w) = Copies(r) /\ Copies(r) \subseteq Nodes
    BY <1>1, LenProperties, ElementOfSeq DEF SameRow, Copies
  <2> QED BY <1>0, <1>1, <2>1 DEF Stored, More, SameRow
<1>2. ASSUME NEW f \in Ids, NEW i \in DOMAIN blocks[f]
      PROVE  blocks[f][i] \in Row /\ blocks[f][i].nodes \in Seq(Nodes)
  <2>1. blocks[f][i] \in Row
    BY <1>0, LenProperties, ElementOfSeq
  <2> QED BY <2>1 DEF Row
<1>3. ASSUME NEW f \in Ids, NEW i \in DOMAIN blocks'[f], blocks'[f] = blocks[f],
             blocks'[f][i].uploaded
      PROVE  Stored(blocks'[f][i], store')
  BY <1>1, <1>2, <1>3 DEF PutsInOrder, BlocksStored, SameRow
<1>4. CASE blocks' = blocks
  BY <1>3, <1>4 DEF BlocksStored
<1>5. CASE InitTx(c)
  <2>1. CASE Create(h[c].name, h[c].man, RowsFor(h[c].man))
    <3>1. \A f \in Ids : blocks'[f] = IF f = nextId THEN RowsFor(h[c].man) ELSE blocks[f]
      BY <1>0, <2>1 DEF Create, NewId
    <3>2. \A i \in DOMAIN RowsFor(h[c].man) : ~RowsFor(h[c].man)[i].uploaded
      BY DEF RowsFor
    <3> QED BY <1>3, <3>1, <3>2 DEF BlocksStored
  <2> QED BY <1>4, <1>5, <2>1 DEF InitTx, db
<1>6. CASE PutMark(c)
  <2>1. CASE MarkUploaded(h[c].file.id, h[c].idx)
    <3> DEFINE g == h[c].file.id
               j == h[c].idx
               row == h[c].rows[1]
    <3>1. g \in Ids
      BY <1>0, <1>6 DEF PutMark, HandlerInOrder, NoFileYet, Handler, FileRow
    <3>2. /\ j \in DOMAIN blocks[g] /\ SameRow(blocks[g][j], row)
          /\ h[c].took # {} /\ h[c].took \subseteq Nodes
          /\ \A n \in h[c].took : n \in Copies(row) /\ row.hash \in store[n]
      BY <1>0, <1>6 DEF PutMark, PutInOrder, HandlerInOrder, Handler
    <3>3. Stored(blocks[g][j], store)
      BY <3>2 DEF Stored, SameRow, Copies
    <3>4. blocks' = [blocks EXCEPT ![g] = [blocks[g] EXCEPT ![j] = [@ EXCEPT !.uploaded = TRUE]]]
      BY <2>1 DEF MarkUploaded
    <3>5. ASSUME NEW f \in Ids, NEW i \in DOMAIN blocks'[f], blocks'[f][i].uploaded
          PROVE  Stored(blocks'[f][i], store')
      <4>1. CASE f # g
        BY <1>0, <1>3, <3>4, <3>5, <4>1
      <4>2. CASE f = g
        <5>1. blocks'[f] = [blocks[f] EXCEPT ![j] = [@ EXCEPT !.uploaded = TRUE]]
          BY <1>0, <3>4, <4>2
        <5>2. /\ i \in DOMAIN blocks[f]
              /\ blocks'[f][i] = IF i = j THEN [blocks[f][j] EXCEPT !.uploaded = TRUE]
                                          ELSE blocks[f][i]
          BY <5>1
        <5>3. SameRow(blocks'[f][i], blocks[f][i])
          BY <1>2, <5>2 DEF SameRow, Row
        <5>4. Stored(blocks[f][i], store)
          BY <3>3, <3>5, <4>2, <5>2 DEF PutsInOrder, BlocksStored
        <5> QED BY <1>1, <1>2, <5>2, <5>3, <5>4
      <4> QED BY <4>1, <4>2
    <3> QED BY <3>5 DEF BlocksStored
  <2> QED BY <1>4, <1>6, <2>1 DEF PutMark, db
<1>7. CASE CommitUpdate(c)
  BY <1>4, <1>7 DEF CommitUpdate, SetComplete
<1>8. ~DeleteDrop(c)
  BY <1>0 DEF DeleteDrop, PutInOrder
<1>9. CASE UNCHANGED db
  BY <1>4, <1>9 DEF db
<1> QED BY <1>5, <1>6, <1>7, <1>8, <1>9
        DEF Step, InitReread, InitMissing, GetFile, PutGetBlock, PutBody,
            PutReplica, CommitCount, ReadList, ReadGetBlock, StreamHit,
            StreamMiss, DeleteList, DeleteBlock, Finish

LEMMA NextPuts == NoDeletes /\ IInv /\ PutsInOrder /\ [Next]_vars => PutsInOrder'
<1> SUFFICES ASSUME NoDeletes, IInv, PutsInOrder, [Next]_vars PROVE PutsInOrder'
  OBVIOUS
<1>0. /\ Inv /\ h \in [Handlers -> Handler] /\ store \in [Nodes -> SUBSET Hashes]
      /\ late \subseteq Calls
  BY DEF IInv, Inv, TypeOK
<1>1. ASSUME UNCHANGED blocks, More(store, store') PROVE BlocksStored'
  <2>1. \A f \in Ids : \A i \in DOMAIN blocks[f] : Copies(blocks[f][i]) \subseteq Nodes
    <3>1. ASSUME NEW f \in Ids, NEW i \in DOMAIN blocks[f] PROVE blocks[f][i] \in Row
      BY <1>0, LenProperties, ElementOfSeq DEF Inv, TypeOK, DbTypeOK
    <3> QED BY <3>1, LenProperties, ElementOfSeq DEF Row, Copies
  <2> QED BY <1>1, <2>1 DEF PutsInOrder, BlocksStored, Stored, More
<1>2. ASSUME NEW d \in Handlers, More(store, store'), h[d].pc \in {"body", "fanout", "mark"}
               => Kept(blocks[h[d].file.id], blocks'[h[d].file.id])
      PROVE  PutInOrder(h[d], blocks', store')
  <2>1. h[d].took \subseteq Nodes /\ PutInOrder(h[d], blocks, store)
    BY <1>0 DEF Handler, PutsInOrder
  <2> QED BY <1>2, <2>1, PutKept
<1>3. \A f : Kept(blocks[f], blocks[f])
  BY DEF Kept, SameRow
<1>4. More(store, store)
  BY DEF More
<1>5. ASSUME NEW c \in Handlers, Arrive(c) PROVE PutsInOrder'
  <2>1. PICK l : Become(c, l) /\ Fresh(l)
    BY <1>5, ArriveInOrder
  <2>2. PutInOrder(l, blocks, store)
    BY <2>1, OtherPut DEF Fresh, NoDeletes
  <2>3. \A d \in Handlers : h'[d] = IF d = c THEN l ELSE h[d]
    BY <1>0, <2>1 DEF Become
  <2> QED BY <1>1, <1>4, <1>5, <2>2, <2>3 DEF Arrive, db, PutsInOrder
<1>6. ASSUME NEW c \in Handlers, Step(c) PROVE PutsInOrder'
  <2>1. /\ PutInOrder(h'[c], blocks, store') /\ BlocksStored'
        /\ More(store, store') /\ \A k \in late' : k.kind = "put"
    BY <1>0, <1>6, StepPut, StepStored, StoreGrows
  <2>2. PICK l : StepTo(c, l)
    BY <1>0, <1>6, StepHandler
  <2>3. h'[c] = l /\ \A d \in Handlers \ {c} : h'[d] = h[d]
    BY <1>0, <2>2 DEF StepTo, Become
  <2>4. h[c].pc # "drop"
    BY DEF PutsInOrder, PutInOrder
  <2>5. ASSUME NEW f \in FileRow, f.id < nextId PROVE Kept(blocks[f.id], blocks'[f.id])
    BY <1>6, <2>4, <2>5, RowsKept DEF FileRow
  <2>6. ASSUME NEW d \in Handlers, d # c PROVE PutInOrder(h'[d], blocks', store')
    <3>1. h[d].pc \in {"body", "fanout", "mark"} => h[d].file \in FileRow /\ h[d].file.id < nextId
      BY <1>0 DEF Inv, ServerInOrder, HandlerInOrder, NoFileYet, FilesRead, Handler
    <3> QED BY <1>2, <2>1, <2>3, <2>5, <2>6, <3>1
  <2>7. PutInOrder(l, blocks', store')
    <3>1. l \in Handler /\ HandlerInOrder(l) /\ Known(h[c], l.file)
      BY <2>2 DEF StepTo, InOrder
    <3>2. l.took \subseteq Nodes
      BY <3>1 DEF Handler
    <3>3. l.file # NoFile => l.file \in FileRow /\ l.file.id < nextId
      BY <1>0, <3>1
      DEF Known, Handler, Inv, ServerInOrder, FilesRead, DbInOrder
    <3>4. l.pc \in {"body", "fanout", "mark"} => Kept(blocks[l.file.id], blocks'[l.file.id])
      BY <2>5, <3>1, <3>3 DEF HandlerInOrder, NoFileYet
    <3>5. More(store', store')
      BY DEF More
    <3> QED BY <2>1, <2>3, <3>2, <3>4, <3>5, PutKept
  <2> QED BY <2>1, <2>3, <2>6, <2>7 DEF PutsInOrder
<1>7. ASSUME NEW k \in late, LateCall(k) PROVE PutsInOrder'
  <2>1. /\ k.kind = "put" /\ k.node \in Nodes
        /\ store' = [store EXCEPT ![k.node] = @ \cup {k.hash}]
    BY <1>0, <1>7 DEF LateCall, PutsInOrder, Calls
  <2>2. More(store, store')
    BY <1>0, <2>1 DEF More
  <2>3. \A d \in Handlers : PutInOrder(h'[d], blocks', store')
    BY <1>2, <1>3, <1>7, <2>2 DEF LateCall, db
  <2> QED BY <1>1, <1>7, <2>2, <2>3 DEF LateCall, db, PutsInOrder
<1>8. CASE Crash
  <2>1. /\ \A d \in Handlers : h'[d] = Idle
        /\ blocks' = blocks /\ store' = store /\ late' = late
    BY <1>8 DEF Crash, db
  <2>2. PutInOrder(Idle, blocks', store')
    BY DEF Idle, PutInOrder
  <2> QED BY <1>1, <1>4, <2>1, <2>2 DEF PutsInOrder
<1>9. CASE UNCHANGED vars
  BY <1>1, <1>4, <1>9 DEF vars, db, PutsInOrder
<1> QED BY <1>5, <1>6, <1>7, <1>8, <1>9 DEF Next

LEMMA InitPuts == Init => PutsInOrder
<1> SUFFICES ASSUME Init PROVE PutsInOrder
  OBVIOUS
<1>1. BlocksStored
  BY DEF Init, DbInit, BlocksStored
<1>2. PutInOrder(Idle, blocks, store)
  BY DEF Idle, PutInOrder
<1> QED BY <1>1, <1>2 DEF Init, PutsInOrder

\* As long as nobody deletes, a block recorded as uploaded is on a replica its
\* row names: whatever calls fail or come late, wherever the coordinator dies
\* between the calls and the UPDATE.
THEOREM UploadsAreStored == Spec => []UploadedIsStored
<1>1. NoDeletes /\ IInv /\ PutsInOrder => UploadedIsStored
  <2> SUFFICES ASSUME NoDeletes, IInv, PutsInOrder,
                      NEW n \in Names, Exists(n), NEW i \in DOMAIN blocks[files[n].id],
                      blocks[files[n].id][i].uploaded
               PROVE  LET row == blocks[files[n].id][i]
                      IN  \E k \in DOMAIN row.nodes : row.hash \in store[row.nodes[k]]
    BY DEF UploadedIsStored
  <2>1. files[n].id \in Ids
    BY DEF IInv, Inv, TypeOK, DbTypeOK, Exists, FileRow
  <2> QED BY <2>1 DEF PutsInOrder, BlocksStored, Stored, Copies
<1>2. CASE NoDeletes
  <2>1. Init => IInv /\ PutsInOrder
    BY InitInv, InitPuts
  <2>2. IInv /\ PutsInOrder /\ [Next]_vars => (IInv /\ PutsInOrder)'
    BY <1>2, NextInv, NextPuts
  <2>3. IInv /\ PutsInOrder => UploadedIsStored
    BY <1>1, <1>2
  <2> QED BY <2>1, <2>2, <2>3, PTL DEF Spec
<1>3. CASE ~NoDeletes
  <2>1. UploadedIsStored
    BY <1>3 DEF NoDeletes, UploadedIsStored
  <2> QED BY <2>1, PTL
<1> QED BY <1>2, <1>3
-----------------------------------------------------------------------------
(* The TypeScript coordinator keeps the invariant of the Go one.           *)

\* The steps that it takes as the Go coordinator does, and its own.
Shared(c) == \/ readBlock(c) \/ fanoutPut(c) \/ markUploaded(c) \/ Fetched(c)
             \/ deleteBlock(c) \/ Finish(c)

Own(c) == \/ initUpload(c) \/ uploadBlock(c) \/ commit(c) \/ manifest(c)
          \/ download(c) \/ downloadBlock(c) \/ NotFetched(c)
          \/ deleteFile(c) \/ dropFile(c)

LEMMA SharedIsStep ==
  ASSUME NEW c \in Handlers, Shared(c)
  PROVE  Step(c)
<1>1. CASE Fetched(c)
  BY <1>1 DEF Fetched, StreamHit, Step
<1> QED BY <1>1 DEF Shared, readBlock, fanoutPut, markUploaded, deleteBlock, Step

\* The only statements of its own that change the tables.
LEMMA OwnStatements ==
  ASSUME IInv, NEW c \in Handlers, Own(c)
  PROVE  \/ UNCHANGED db
         \/ /\ h[c].pc = "tx" /\ h[c].name \in Names /\ h[c].man \in Manifests
            /\ Create(h[c].name, h[c].man, RowsFor(h[c].man))
         \/ /\ Begins(c, "commit") /\ h[c].name \in Names /\ Exists(h[c].name)
            /\ files[h[c].name].id \in Ids /\ MissingBlocks(files[h[c].name].id) = {}
            /\ SetComplete(files[h[c].name].id)
         \/ /\ h[c].pc = "drop" /\ h[c].name \in Names /\ DeleteFile(h[c].name)
<1>0. /\ HandlerInOrder(h[c]) /\ files \in [Names -> FileRow \cup {NoFile}]
  BY DEF IInv, Inv, TypeOK, DbTypeOK, ServerInOrder
<1>1. CASE initUpload(c)
  BY <1>0, <1>1 DEF initUpload, createOrResume, At, HandlerInOrder
<1>2. CASE commit(c)
  <2>1. h[c].name \in Names
    BY <1>0, <1>2 DEF commit, Begins, At, HandlerInOrder
  <2>2. Exists(h[c].name) => files[h[c].name].id \in Ids
    BY <1>0, <2>1 DEF Exists, FileRow
  <2> QED BY <1>2, <2>1, <2>2 DEF commit, NotFound
<1>3. CASE dropFile(c)
  BY <1>0, <1>3 DEF dropFile, NotFound, At, HandlerInOrder
<1> QED BY <1>1, <1>2, <1>3
        DEF Own, uploadBlock, manifest, download, downloadBlock, NotFetched,
            deleteFile, NotFound

LEMMA OwnTables ==
  ASSUME IInv, NEW c \in Handlers, Own(c)
  PROVE  DbInv' /\ DbGrows /\ Maps
<1>0. DbInv
  BY DEF IInv, Inv, TypeOK, ServerInOrder, DbInv
<1> QED BY <1>0, OwnStatements, UnchangedKeeps, CreateKeeps, SetCompleteKeeps,
           DeleteFileKeeps, UnchangedMaps, CreateMaps, SetCompleteMaps, DeleteFileMaps

\* A handler that has read the row of its name and nothing else yet.
LEMMA FileIsRead ==
  ASSUME IInv, NEW c \in Handlers, h[c].pc = "getfile", Exists(h[c].name),
         NEW f, f = files[h[c].name]
  PROVE  /\ h[c].name \in Names /\ f \in FileRow /\ f # NoFile
         /\ f.id \in Ids /\ f.id < nextId
         /\ blocks[f.id] \in Seq(Row) /\ HaveNodes(blocks[f.id])
         /\ Serving([h[c] EXCEPT !.file = f])
         /\ [h[c] EXCEPT !.file = f].file = f
<1> DEFINE k == [h[c] EXCEPT !.file = f]
<1>0. TypeOK /\ DbInOrder /\ InOrder(h[c])
  BY DEF IInv, Inv, TypeOK, ServerInOrder, InOrder
<1>1. h[c].name \in Names
  BY <1>0 DEF InOrder, HandlerInOrder
<1>2. f \in FileRow /\ f # NoFile /\ f.id \in Ids /\ f.id < nextId
  BY <1>0, <1>1 DEF TypeOK, DbTypeOK, DbInOrder, Exists, FileRow
<1>3. blocks[f.id] \in Seq(Row) /\ HaveNodes(blocks[f.id])
  BY <1>0, <1>2, RowsOfFile
<1>4. /\ k \in Handler /\ k.file = f /\ k.pc = "getfile" /\ k.op = h[c].op
      /\ k.name = h[c].name /\ k.rows = h[c].rows
  BY <1>0, <1>2 DEF InOrder, Handler
<1> HIDE DEF k
<1>5. HandlerInOrder(k)
  BY <1>0, <1>2, <1>4 DEF InOrder, HandlerInOrder
<1> QED BY <1>1, <1>2, <1>3, <1>4, <1>5 DEF Serving, InOrder, k

\* What a step of its own makes of a handler.
OwnStepTo(c, l) == /\ Become(c, l) /\ InOrder(l) /\ l.pc # "update"
                   /\ l.file # NoFile => l.file.id < nextId'

LEMMA OwnAnswer ==
  ASSUME NEW c, NEW k, Serving(k), k.file # NoFile => k.file.id < nextId',
         NEW reply \in Replies, Become(c, Done(k, reply))
  PROVE  \E l : OwnStepTo(c, l)
  BY DoneInOrder DEF OwnStepTo

LEMMA OwnHandler ==
  ASSUME IInv, DbInv', nextId <= nextId', nextId' \in Int, NEW c \in Handlers, Own(c)
  PROVE  \E l : OwnStepTo(c, l)
<1> USE DEF At
<1>0. TypeOK /\ DbInOrder /\ InOrder(h[c]) /\ nextId \in Int
  BY DEF IInv, Inv, TypeOK, DbTypeOK, ServerInOrder, InOrder
<1>1. ASSUME h[c].pc # "idle" PROVE Serving(h[c])
  BY <1>0, <1>1 DEF Serving
<1>2. \A f \in FileRow : f.id < nextId => f.id < nextId'
  BY <1>0 DEF FileRow, Ids
<1>3. h[c].file # NoFile => h[c].file \in FileRow /\ h[c].file.id < nextId'
  <2>1. h[c].file # NoFile => h[c].file \in FileRow /\ h[c].file.id < nextId
    BY <1>0 DEF IInv, Inv, ServerInOrder, FilesRead, InOrder, Handler
  <2> QED BY <1>2, <2>1
<1>4. ASSUME NEW reply \in Replies, Become(c, Done(h[c], reply)), h[c].pc # "idle"
      PROVE  \E l : OwnStepTo(c, l)
  BY <1>1, <1>3, <1>4, OwnAnswer
<1> DEFINE f == files[h[c].name]
           k == [h[c] EXCEPT !.file = f]
<1>5. ASSUME h[c].pc = "getfile", Exists(h[c].name)
      PROVE  /\ h[c].name \in Names /\ f \in FileRow /\ f # NoFile
             /\ f.id \in Ids /\ f.id < nextId'
             /\ blocks[f.id] \in Seq(Row) /\ HaveNodes(blocks[f.id])
             /\ Serving(k) /\ k.file = f
  BY <1>2, <1>5, FileIsRead
<1>6. CASE initUpload(c)
  <2>1. CASE createOrResume(h[c].name, h[c].man)
    <3> DEFINE g == files'[h[c].name]
               r == [h[c] EXCEPT !.file = g]
    <3>1. h[c].name \in Names /\ h[c].man \in Manifests
      BY <1>0, <1>6 DEF initUpload, InOrder, HandlerInOrder
    <3>2. g # NoFile
      <4>1. CASE Resumable(h[c].name, h[c].man) /\ UNCHANGED db
        BY <4>1 DEF Resumable, Exists, db
      <4>2. CASE Create(h[c].name, h[c].man, RowsFor(h[c].man))
        <5>1. g = [id |-> nextId, sha |-> h[c].man.sha, size |-> h[c].man.size,
                   state |-> "pending"]
          BY <1>0, <3>1, <4>2 DEF Create, NewId, TypeOK, DbTypeOK
        <5>2. g \in FileRow
          BY <3>1, <4>2, <5>1, MetaStoreAssumption DEF Create, NewId, FileRow
        <5> QED BY <5>2, NoFileAssumption
      <4> QED BY <2>1, <4>1, <4>2 DEF createOrResume
    <3>3. g \in FileRow /\ g.id < nextId'
      BY <3>1, <3>2 DEF DbInv, DbTypeOK, DbInOrder, Exists
    <3>4. /\ r \in Handler /\ r.file = g /\ r.pc = "tx" /\ r.op = h[c].op
          /\ r.name = h[c].name /\ r.man = h[c].man /\ r.rows = h[c].rows
      BY <1>0, <1>6, <3>3 DEF initUpload, InOrder, Handler
    <3> HIDE DEF r
    <3>5. Serving(r)
      BY <1>0, <1>6, <3>1, <3>2, <3>4 DEF initUpload, Serving, InOrder, HandlerInOrder
    <3>6. CASE Become(c, Done(r, "ok"))
      BY <3>3, <3>4, <3>5, <3>6, OwnAnswer DEF Replies
    <3> QED BY <1>4, <1>6, <3>6 DEF initUpload, Replies, r
  <2> QED BY <1>4, <1>6, <2>1 DEF initUpload, Replies
<1>7. CASE uploadBlock(c)
  <2>1. CASE /\ Exists(h[c].name) /\ h[c].pc = "getfile" /\ HasBlock(f.id, h[c].idx)
             /\ Become(c, [h[c] EXCEPT !.pc = "body", !.file = f,
                                       !.rows = <<blocks[f.id][h[c].idx]>>])
    <3> DEFINE row == blocks[f.id][h[c].idx]
               l == [h[c] EXCEPT !.pc = "body", !.file = f, !.rows = <<row>>]
    <3>1. row \in Row /\ row.nodes # <<>>
      BY <1>0, <1>5, <2>1, RowsOfFile DEF HasBlock
    <3>2. <<row>> \in Seq(Row) /\ HaveNodes(<<row>>) /\ <<row>> # <<>>
      BY <3>1, OneRow
    <3>3. /\ l \in Handler /\ l.file = f /\ l.pc = "body" /\ l.op = h[c].op
          /\ l.name = h[c].name /\ l.rows = <<row>>
      BY <1>0, <1>5, <2>1, <3>2 DEF InOrder, Handler, PCs
    <3>4. HandlerInOrder(l)
      BY <1>0, <1>5, <2>1, <3>2, <3>3 DEF InOrder, HandlerInOrder, NoFileYet
    <3> QED BY <1>5, <2>1, <3>3, <3>4 DEF OwnStepTo, InOrder
  <2> QED BY <1>4, <1>7, <2>1 DEF uploadBlock, Begins, NotFound, Replies
<1>8. CASE commit(c)
  <2>1. CASE Exists(h[c].name) /\ h[c].pc = "getfile" /\ Become(c, Done(k, "ok"))
    BY <1>5, <2>1, OwnAnswer DEF Replies
  <2> QED BY <1>4, <1>8, <2>1 DEF commit, Begins, NotFound, Replies
<1>9. CASE manifest(c)
  <2>1. CASE Exists(h[c].name) /\ h[c].pc = "getfile"
    <3> DEFINE s == HashesOf(blocks[f.id])
               r == [k EXCEPT !.sent = s]
    <3>1. s \in Seq(Hashes)
      BY <1>5, <2>1, HashesType
    <3>2. /\ r \in Handler /\ r.file = k.file /\ r.pc = k.pc /\ r.op = k.op
          /\ r.name = k.name /\ r.man = k.man /\ r.rows = k.rows /\ r.cand = k.cand
          /\ r.took = k.took
      BY <1>5, <2>1, <3>1 DEF Serving, InOrder, Handler
    <3>3. Serving(r) /\ r.file.id < nextId'
      BY <1>5, <2>1, <3>2 DEF Serving, InOrder, HandlerInOrder
    <3>4. r = [h[c] EXCEPT !.file = f, !.sent = s]
      OBVIOUS
    <3> HIDE DEF r, k
    <3> QED BY <1>4, <1>9, <2>1, <3>3, <3>4, OwnAnswer DEF manifest, NotFound, Replies
  <2> QED BY <1>4, <1>9, <2>1 DEF manifest, Begins, NotFound, Replies
<1>10. ASSUME h[c].pc = "getfile", Exists(h[c].name), NEW rows \in Seq(Row),
              HaveNodes(rows), Become(c, Streamed(k, rows))
       PROVE  \E l : OwnStepTo(c, l)
  <2> HIDE DEF k
  <2>1. /\ InOrder(Streamed(k, rows)) /\ Streamed(k, rows).file = f
        /\ Streamed(k, rows).pc # "update"
    BY <1>5, <1>10, StreamedInOrder
  <2> QED BY <1>5, <1>10, <2>1 DEF OwnStepTo
<1>11. CASE download(c)
  BY <1>4, <1>5, <1>10, <1>11 DEF download, Begins, NotFound, Replies
<1>12. CASE downloadBlock(c)
  <2>1. CASE h[c].pc = "getfile" /\ Exists(h[c].name) /\ HasBlock(f.id, h[c].idx)
    <3> DEFINE row == blocks[f.id][h[c].idx]
    <3>1. row \in Row /\ row.nodes # <<>>
      BY <1>0, <1>5, <2>1, RowsOfFile DEF HasBlock
    <3>2. <<row>> \in Seq(Row) /\ HaveNodes(<<row>>)
      BY <3>1, OneRow
    <3> QED BY <1>4, <1>10, <1>12, <2>1, <3>2 DEF downloadBlock, NotFound, Replies
  <2> QED BY <1>4, <1>12, <2>1 DEF downloadBlock, Begins, NotFound, Replies
<1>13. CASE NotFetched(c)
  <2>1. CASE Len(h[c].cand) > 1
    <3>1. Serving(h[c]) /\ h[c].pc = "stream"
      BY <1>1, <1>13 DEF NotFetched
    <3> QED BY <1>3, <1>13, <2>1, <3>1, NextNodeInOrder DEF NotFetched, OwnStepTo
  <2> QED BY <1>4, <1>13, <2>1 DEF NotFetched, Replies
<1>14. CASE deleteFile(c)
  <2>1. CASE h[c].pc = "getfile" /\ Exists(h[c].name) /\ Become(c, Unlinking(k, blocks[f.id]))
    <3> HIDE DEF k
    <3>1. /\ InOrder(Unlinking(k, blocks[f.id])) /\ Unlinking(k, blocks[f.id]).file = f
          /\ Unlinking(k, blocks[f.id]).pc # "update"
      BY <1>5, <2>1, UnlinkingInOrder
    <3> QED BY <1>5, <2>1, <3>1 DEF OwnStepTo
  <2> QED BY <1>4, <1>14, <2>1 DEF deleteFile, Begins, NotFound, Replies
<1>15. CASE dropFile(c)
  BY <1>4, <1>15 DEF dropFile, NotFound, Replies
<1> QED BY <1>6, <1>7, <1>8, <1>9, <1>11, <1>12, <1>13, <1>14, <1>15 DEF Own

\* As HandlersKept, for a handler that may have made the file it holds.
LEMMA OwnHandlersKept ==
  ASSUME IInv, DbGrows, nextId' \in Int, NEW c \in Handlers, NEW l, OwnStepTo(c, l)
  PROVE  /\ h' \in [Handlers -> Handler]
         /\ \A d \in Handlers : HandlerInOrder(h'[d])
         /\ FilesRead' /\ CommitInOrder'
<1>1. /\ h'[c] = l /\ \A d \in Handlers \ {c} : h'[d] = h[d]
      /\ h' \in [Handlers -> Handler]
  BY DEF OwnStepTo, Become, InOrder, IInv, Inv, TypeOK
<1>2. ASSUME NEW d \in Handlers, d # c
      PROVE  /\ InOrder(h[d])
             /\ h[d].file # NoFile => h[d].file.id \in Ids /\ h[d].file.id < nextId
             /\ h[d].pc = "update" => h[d].file # NoFile /\ MissingBlocks(h[d].file.id) = {}
  BY <1>2 DEF IInv, Inv, TypeOK, ServerInOrder, InOrder, HandlerInOrder, FilesRead,
              CommitInOrder, At, Handler, FileRow, NoFileYet
<1>3. \A d \in Handlers : HandlerInOrder(h'[d])
  BY <1>1, <1>2 DEF OwnStepTo, InOrder
<1>4. nextId \in Int /\ \A f \in Ids : f < nextId => f < nextId'
  BY DEF DbGrows, Ids, IInv, Inv, TypeOK, DbTypeOK
<1>5. FilesRead'
  BY <1>1, <1>2, <1>4 DEF FilesRead, OwnStepTo
<1>6. CommitInOrder'
  <2>1. ASSUME NEW d \in Handlers, NEW f \in Ids, h'[d].pc = "update", f = h'[d].file.id
        PROVE  MissingBlocks(f)' = {}
    <3>1. d # c /\ h'[d] = h[d]
      BY <1>1, <2>1 DEF OwnStepTo
    <3> QED BY <1>2, <2>1, <3>1 DEF DbGrows
  <2>2. \A d \in Handlers : h'[d].pc = "update" => h'[d].file.id \in Ids
    BY <1>1, <1>2 DEF OwnStepTo
  <2> QED BY <2>1, <2>2 DEF CommitInOrder, At, MissingBlocks
<1> QED BY <1>1, <1>3, <1>5, <1>6

LEMMA OwnInv ==
  ASSUME IInv, NEW c \in Handlers, Own(c)
  PROVE  IInv'
<1>1. DbInv' /\ DbGrows
  BY OwnTables
<1>2. nextId <= nextId' /\ nextId' \in Int
  BY <1>1 DEF DbGrows, DbInv, DbTypeOK
<1>3. PICK l : OwnStepTo(c, l)
  BY <1>1, <1>2, OwnHandler
<1>4. /\ h' \in [Handlers -> Handler] /\ \A d \in Handlers : HandlerInOrder(h'[d])
      /\ FilesRead' /\ CommitInOrder'
  BY <1>1, <1>2, <1>3, OwnHandlersKept
<1>5. UNCHANGED <<store, late>>
  BY DEF Own, initUpload, uploadBlock, commit, manifest, download, downloadBlock,
         NotFetched, deleteFile, dropFile
<1> QED BY <1>1, <1>4, <1>5 DEF IInv, Inv, TypeOK, ServerInOrder, DbInv

LEMMA TSNextInv == IInv /\ [TSNext]_vars => IInv' /\ Maps
<1> SUFFICES ASSUME IInv, [TSNext]_vars PROVE IInv' /\ Maps
  OBVIOUS
<1>1. CASE [Next]_vars
  BY <1>1, NextInv, NextMaps
<1>2. ASSUME NEW c \in Handlers, Own(c) PROVE IInv' /\ Maps
  BY <1>2, OwnInv, OwnTables
<1>3. ASSUME NEW c \in Handlers, TSStep(c) PROVE Own(c) \/ Step(c)
  BY <1>3, SharedIsStep DEF TSStep, Own, Shared
<1> QED BY <1>1, <1>2, <1>3 DEF TSNext, Next

LEMMA EitherInvHolds == EitherSpec => []IInv
<1>1. EitherInit => IInv
  BY InitInv DEF EitherInit
<1>2. IInv /\ [EitherNext]_tsvars => IInv'
  BY NextInv, TSNextInv DEF EitherNext, tsvars, vars
<1> QED BY <1>1, <1>2, PTL DEF EitherSpec

\* Neither coordinator completes a file that has a block missing.
THEOREM CompleteInEither == EitherSpec => []CompleteIsWhole
<1>1. IInv => CompleteIsWhole
  BY DEF IInv
<1> QED BY <1>1, EitherInvHolds, PTL

\* Either coordinator implements the abstract namespace.
THEOREM EitherImplements == EitherSpec => ImplementsNamespace
<1>1. IInv /\ [EitherNext]_tsvars => [NS!Next]_Uploads
  <2>1. IInv /\ [EitherNext]_tsvars => Maps
    BY NextMaps, TSNextInv DEF EitherNext, tsvars, vars
  <2> QED BY <2>1 DEF Maps
<1>2. EitherInit => NS!Init
  BY InitMaps DEF EitherInit
<1> QED BY <1>1, <1>2, EitherInvHolds, PTL
        DEF EitherSpec, ImplementsNamespace, NS!Spec, Uploads, Upload, Held

-----------------------------------------------------------------------------
(* What the TypeScript coordinator answers with success                    *)

OpInOrder(l) == /\ l.pc = "tx" => l.op = "init"
                /\ l.pc \in {"unlink", "drop"} => l.op = "delete"
                /\ l.pc \in {"body", "fanout", "mark"} => l.op = "put"
                /\ l.pc \in {"fanout", "mark"} => l.body = l.rows[1].hash

\* The id that a put works on belongs to its name or to no file, and its row
\* has the hash that was read.
PutIsCurrent(l) ==
  l.pc \in {"body", "fanout", "mark"} =>
    /\ \A n \in Names : Exists(n) /\ files[n].id = l.file.id => n = l.name
    /\ HasBlock(l.file.id, l.idx) => blocks[l.file.id][l.idx].hash = l.rows[1].hash

PutsAreCurrent == \A c \in Handlers : OpInOrder(h[c]) /\ PutIsCurrent(h[c])

\* No step gives an id in use to another name, or another block to its rows.
IdKept(f) == /\ \A n \in Names : files'[n] # NoFile /\ files'[n].id = f
                                  => Exists(n) /\ files[n].id = f
             /\ \A i \in DOMAIN blocks'[f] : /\ HasBlock(f, i)
                                             /\ blocks'[f][i].hash = blocks[f][i].hash

LEMMA TSStatements ==
  ASSUME IInv, NEW c \in Handlers, TSStep(c)
  PROVE  \/ UNCHANGED db
         \/ /\ h[c].name \in Names /\ h[c].man \in Manifests
            /\ Create(h[c].name, h[c].man, RowsFor(h[c].man))
         \/ \E f \in Ids : SetComplete(f)
         \/ \E n \in Names : DeleteFile(n)
         \/ \E f \in Ids, i \in 0..MaxIdx : MarkUploaded(f, i)
<1>1. CASE Own(c)
  BY <1>1, OwnStatements
<1>2. CASE markUploaded(c)
  <2>1. CASE MarkUploaded(h[c].file.id, h[c].idx)
    <3>1. h[c] \in Handler /\ h[c].file # NoFile
      BY <1>2 DEF markUploaded, PutMark, At, IInv, Inv, TypeOK, ServerInOrder, HandlerInOrder,
                  NoFileYet
    <3>2. h[c].file.id \in Ids /\ h[c].idx \in 0..MaxIdx
      BY <3>1 DEF Handler, FileRow
    <3> QED BY <2>1, <3>2
  <2> QED BY <1>2, <2>1 DEF markUploaded, PutMark
<1> QED BY <1>1, <1>2 DEF TSStep, Own, readBlock, PutBody, fanoutPut, PutReplica, Fetched,
                          deleteBlock, DeleteBlock, Finish

LEMMA IdsKept ==
  ASSUME IInv, NEW c \in Handlers, TSStep(c), NEW f \in Ids, f < nextId
  PROVE  IdKept(f)
<1>0. /\ files \in [Names -> FileRow \cup {NoFile}] /\ blocks \in [Ids -> Seq(Row)]
      /\ f \in Int /\ nextId \in Int
  BY DEF IInv, Inv, TypeOK, DbTypeOK, Ids
<1>1. CASE UNCHANGED db
  BY <1>1 DEF db, IdKept, Exists, HasBlock
<1>2. CASE /\ h[c].name \in Names /\ h[c].man \in Manifests
           /\ Create(h[c].name, h[c].man, RowsFor(h[c].man))
  <2>1. /\ files'[h[c].name].id = nextId
        /\ \A n \in Names \ {h[c].name} : files'[n] = files[n]
        /\ blocks'[f] = blocks[f]
    BY <1>0, <1>2 DEF Create, NewId
  <2> QED BY <1>0, <2>1 DEF IdKept, Exists, HasBlock
<1>3. ASSUME NEW g \in Ids, SetComplete(g) PROVE IdKept(f)
  <2>1. /\ blocks' = blocks
        /\ \A n \in Names : files'[n] = IF Exists(n) /\ files[n].id = g
                                         THEN [files[n] EXCEPT !.state = "complete"]
                                         ELSE files[n]
    BY <1>3 DEF SetComplete
  <2>2. \A n \in Names : Exists(n) => files[n] \in FileRow
    BY <1>0 DEF Exists
  <2>3. \A n \in Names : files'[n] # NoFile => Exists(n) /\ files'[n].id = files[n].id
    BY <2>1, <2>2 DEF FileRow, Exists
  <2> QED BY <2>1, <2>3 DEF IdKept, HasBlock
<1>4. ASSUME NEW n \in Names, DeleteFile(n) PROVE IdKept(f)
  <2>1. /\ files'[n] = NoFile /\ \A k \in Names \ {n} : files'[k] = files[k]
        /\ blocks'[f] = blocks[f] \/ blocks'[f] = <<>>
    BY <1>0, <1>4 DEF DeleteFile
  <2>2. DOMAIN <<>> = {}
    OBVIOUS
  <2> QED BY <2>1, <2>2 DEF IdKept, Exists, HasBlock
<1>5. ASSUME NEW g \in Ids, NEW i \in 0..MaxIdx, MarkUploaded(g, i) PROVE IdKept(f)
  <2>1. files' = files
    BY <1>5 DEF MarkUploaded
  <2>2. CASE f # g
    <3>1. blocks'[f] = blocks[f]
      BY <1>0, <1>5, <2>2 DEF MarkUploaded
    <3> QED BY <2>1, <3>1 DEF IdKept, Exists, HasBlock
  <2>3. CASE f = g
    <3>1. blocks'[f] = [blocks[f] EXCEPT ![i] = [@ EXCEPT !.uploaded = TRUE]]
      BY <1>0, <1>5, <2>3 DEF MarkUploaded
    <3>2. \A k \in DOMAIN blocks[f] : blocks[f][k] \in Row
      BY <1>0, LenProperties, ElementOfSeq
    <3>3. /\ DOMAIN blocks'[f] = DOMAIN blocks[f]
          /\ \A k \in DOMAIN blocks[f] :
               blocks'[f][k] = IF k = i THEN [blocks[f][i] EXCEPT !.uploaded = TRUE]
                                        ELSE blocks[f][k]
      BY <3>1
    <3>4. \A k \in DOMAIN blocks[f] : blocks'[f][k].hash = blocks[f][k].hash
      BY <3>2, <3>3 DEF Row
    <3> QED BY <2>1, <3>3, <3>4 DEF IdKept, Exists, HasBlock
  <2> QED BY <2>2, <2>3
<1> QED BY <1>1, <1>2, <1>3, <1>4, <1>5, TSStatements

\* Handlers that do not move.
LEMMA OthersStayCurrent ==
  ASSUME IInv, PutsAreCurrent, NEW d \in Handlers, h'[d] = h[d],
         \A f \in Ids : f < nextId => IdKept(f)
  PROVE  OpInOrder(h'[d]) /\ PutIsCurrent(h[d])'
<1>1. CASE h[d].pc \in {"body", "fanout", "mark"}
  <2> DEFINE f == h[d].file.id
  <2>1. h[d].file # NoFile
    BY <1>1 DEF IInv, Inv, ServerInOrder, HandlerInOrder, NoFileYet
  <2>2. f \in Ids /\ f < nextId
    BY <2>1 DEF IInv, Inv, TypeOK, ServerInOrder, FilesRead, Handler, FileRow
  <2>3. IdKept(f)
    BY <2>2
  <2> QED BY <1>1, <2>3 DEF PutsAreCurrent, PutIsCurrent, OpInOrder, IdKept, Exists, HasBlock
<1> QED BY <1>1 DEF PutsAreCurrent, PutIsCurrent, OpInOrder

\* The step of the handler that moves.
LEMMA MovedStaysCurrent ==
  ASSUME IInv, PutsAreCurrent, NEW c \in Handlers, TSStep(c)
  PROVE  OpInOrder(h'[c]) /\ PutIsCurrent(h[c])'
<1> USE DEF At
<1>0. /\ h \in [Handlers -> Handler] /\ h[c] \in Handler
      /\ OpInOrder(h[c]) /\ PutIsCurrent(h[c])
      /\ \A l : Become(c, l) => h'[c] = l
  BY DEF IInv, Inv, TypeOK, PutsAreCurrent, Become
<1>1. CASE h'[c].pc \notin {"tx", "body", "fanout", "mark", "unlink", "drop"}
  BY <1>1 DEF OpInOrder, PutIsCurrent
<1>2. \A f, sent, reply, rows :
        /\ Done(h[c], reply).pc = "done"
        /\ Done([h[c] EXCEPT !.file = f], reply).pc = "done"
        /\ Done([h[c] EXCEPT !.file = f, !.sent = sent], reply).pc = "done"
        /\ Streamed([h[c] EXCEPT !.file = f], rows).pc \in {"done", "stream"}
        /\ Streamed([h[c] EXCEPT !.sent = sent], rows).pc \in {"done", "stream"}
  BY <1>0 DEF Handler, Done, Streamed
<1>3. CASE initUpload(c) \/ commit(c) \/ manifest(c)
  <2>1. \A l : Become(c, l) /\ l.pc = "done" => h'[c].pc = "done"
    BY <1>0
  <2>2. CASE initUpload(c)
    <3>1. PICK f, reply : \/ Become(c, Done([h[c] EXCEPT !.file = f], reply))
                          \/ Become(c, Done(h[c], reply))
      BY <2>2 DEF initUpload
    <3> QED BY <1>1, <1>2, <2>1, <3>1
  <2>3. CASE commit(c)
    BY <1>1, <1>2, <2>1, <2>3 DEF commit, NotFound
  <2>4. CASE manifest(c)
    <3>1. \/ \E f, sent : Become(c, Done([h[c] EXCEPT !.file = f, !.sent = sent], "ok"))
          \/ Become(c, Done(h[c], "notfound"))
      BY <2>4 DEF manifest, NotFound
    <3>2. ASSUME NEW f, NEW sent, Become(c, Done([h[c] EXCEPT !.file = f, !.sent = sent], "ok"))
          PROVE  h'[c].pc = "done"
      <4>1. Done([h[c] EXCEPT !.file = f, !.sent = sent], "ok").pc = "done"
        BY <1>0 DEF Done, Handler
      <4> QED BY <2>1, <3>2, <4>1
    <3>3. ASSUME Become(c, Done(h[c], "notfound"))
          PROVE  h'[c].pc = "done"
      BY <1>2, <2>1, <3>3
    <3>4. h'[c].pc = "done"
      BY <3>1, <3>2, <3>3
    <3> QED BY <1>1, <3>4
  <2> QED BY <1>3, <2>2, <2>3, <2>4
<1>4. CASE download(c) \/ downloadBlock(c) \/ Fetched(c)
  <2>1. \A l : Become(c, l) /\ l.pc \in {"done", "stream"} => h'[c].pc \in {"done", "stream"}
    BY <1>0
  <2>2. CASE download(c)
    BY <1>1, <1>2, <2>1, <2>2 DEF download, NotFound
  <2>3. CASE downloadBlock(c)
    BY <1>1, <1>2, <2>1, <2>3 DEF downloadBlock, NotFound
  <2>4. CASE Fetched(c)
    <3>1. PICK l : Become(c, l) /\ l.pc \in {"done", "stream"}
      <4> DEFINE l == [h[c] EXCEPT !.sent = Append(h[c].sent, Head(h[c].rows).hash)]
      <4>1. Become(c, Streamed(l, Tail(h[c].rows)))
        BY <2>4, <1>0 DEF Fetched, Handler
      <4>2. Streamed(l, Tail(h[c].rows)).pc \in {"done", "stream"}
        BY <1>2
      <4> QED BY <4>1, <4>2
    <3> QED BY <1>1, <2>1, <3>1
  <2> QED BY <1>4, <2>2, <2>3, <2>4
<1>5. CASE NotFetched(c)
  <2>1. [h[c] EXCEPT !.cand = Tail(h[c].cand)].pc = "stream"
    BY <1>0, <1>5 DEF NotFetched, Handler
  <2> QED BY <1>0, <1>1, <1>2, <1>5, <2>1 DEF NotFetched
<1>6. CASE dropFile(c) \/ markUploaded(c)
  BY <1>0, <1>1, <1>2, <1>6 DEF dropFile, NotFound, markUploaded, PutMark
<1>7. CASE deleteFile(c)
  <2>1. \A f, rows : /\ Unlinking([h[c] EXCEPT !.file = f], rows).pc \in {"unlink", "drop"}
                     /\ Unlinking([h[c] EXCEPT !.file = f], rows).op = h[c].op
    BY <1>0 DEF Handler, Unlinking
  <2>2. ASSUME NEW f, NEW rows, Become(c, Unlinking([h[c] EXCEPT !.file = f], rows)),
               h[c].op = "delete"
        PROVE  h'[c].pc \in {"unlink", "drop"} /\ h'[c].op = "delete"
    BY <1>0, <2>1, <2>2
  <2>3. CASE h'[c].pc \in {"unlink", "drop"} /\ h'[c].op = "delete"
    BY <2>3 DEF OpInOrder, PutIsCurrent
  <2> QED BY <1>0, <1>1, <1>2, <1>7, <2>2, <2>3 DEF deleteFile, Begins, NotFound
<1>8. CASE deleteBlock(c)
  <2>1. \A rows : /\ Unlinking(h[c], rows).pc \in {"unlink", "drop"}
                  /\ Unlinking(h[c], rows).op = h[c].op
    BY <1>0 DEF Handler, Unlinking
  <2>2. /\ [h[c] EXCEPT !.cand = Tail(h[c].cand)].pc = h[c].pc
        /\ [h[c] EXCEPT !.cand = Tail(h[c].cand)].op = h[c].op
    BY <1>0 DEF Handler
  <2>3. h[c].pc = "unlink" /\ h[c].op = "delete"
    BY <1>0, <1>8 DEF deleteBlock, DeleteBlock, OpInOrder
  <2>4. h'[c].pc \in {"unlink", "drop"} /\ h'[c].op = "delete"
    BY <1>0, <1>8, <2>1, <2>2, <2>3 DEF deleteBlock, DeleteBlock
  <2> QED BY <2>4 DEF OpInOrder, PutIsCurrent
<1>9. CASE Finish(c)
  BY <1>0, <1>1, <1>9, IdleInOrder DEF Finish
<1>10. CASE uploadBlock(c)
  <2> DEFINE f == files[h[c].name]
             row == blocks[f.id][h[c].idx]
             l == [h[c] EXCEPT !.pc = "body", !.file = f, !.rows = <<row>>]
  <2>1. CASE Become(c, l) /\ UNCHANGED db /\ Exists(h[c].name) /\ Begins(c, "put")
    <3>1. /\ h'[c].pc = "body" /\ h'[c].op = "put" /\ h'[c].name = h[c].name
          /\ h'[c].file = f /\ h'[c].idx = h[c].idx /\ h'[c].rows[1] = row
      <4>1. h'[c] = l
        BY <1>0, <2>1
      <4>2. /\ l.pc = "body" /\ l.op = h[c].op /\ l.name = h[c].name
            /\ l.file = f /\ l.idx = h[c].idx /\ l.rows = <<row>>
        <5> HIDE DEF f, row
        <5> QED BY <1>0 DEF Handler
      <4> HIDE DEF f, row, l
      <4> QED BY <4>1, <4>2, <2>1 DEF Begins
    <3>2. \A n \in Names : Exists(n) /\ files[n].id = f.id => n = h[c].name
      <4>1. h[c].name \in Names
        BY <2>1 DEF Begins, IInv, Inv, ServerInOrder, HandlerInOrder
      <4> QED BY <2>1, <4>1 DEF IInv, Inv, ServerInOrder, DbInOrder
    <3>3. OpInOrder(h'[c])
      BY <3>1 DEF OpInOrder
    <3>4. \A n \in Names : Exists(n)' /\ files'[n].id = f.id => n = h[c].name
      BY <2>1, <3>2 DEF db, Exists
    <3>5. blocks'[f.id][h[c].idx].hash = row.hash
      BY <2>1 DEF db
    <3>6. h'[c].file.id = f.id
      BY <3>1
    <3>7. PutIsCurrent(h[c])'
      <4>1. \A n \in Names : Exists(n)' /\ files'[n].id = h'[c].file.id => n = h'[c].name
        BY <3>1, <3>4, <3>6
      <4>2. blocks'[h'[c].file.id][h'[c].idx].hash = h'[c].rows[1].hash
        BY <3>1, <3>5, <3>6
      <4> HIDE DEF f, row, l
      <4> QED BY <4>1, <4>2 DEF PutIsCurrent
    <3> QED BY <3>3, <3>7
  <2> QED BY <1>0, <1>1, <1>2, <1>10, <2>1 DEF uploadBlock, NotFound
<1>11. ASSUME UNCHANGED db, h[c].pc \in {"body", "fanout"}, h'[c].pc \in {"fanout", "mark"},
              h'[c].op = h[c].op, h'[c].name = h[c].name, h'[c].file = h[c].file,
              h'[c].idx = h[c].idx, h'[c].rows = h[c].rows, h'[c].body = h[c].body,
              h[c].body = h[c].rows[1].hash
       PROVE  OpInOrder(h'[c]) /\ PutIsCurrent(h[c])'
  BY <1>0, <1>11 DEF db, OpInOrder, PutIsCurrent, Exists, HasBlock
<1>12. CASE readBlock(c)
  <2>1. CASE /\ Become(c, [h[c] EXCEPT !.pc = "fanout", !.cand = h[c].rows[1].nodes])
             /\ h[c].body = h[c].rows[1].hash
    <3>1. /\ h'[c].pc = "fanout" /\ h'[c].op = h[c].op /\ h'[c].name = h[c].name
          /\ h'[c].file = h[c].file /\ h'[c].idx = h[c].idx /\ h'[c].rows = h[c].rows
          /\ h'[c].body = h[c].body
      BY <1>0, <2>1 DEF Handler
    <3> QED BY <1>11, <1>12, <2>1, <3>1 DEF readBlock, PutBody, db
  <2> QED BY <1>0, <1>1, <1>2, <1>12, <2>1 DEF readBlock, PutBody
<1>13. CASE fanoutPut(c)
  <2>1. h[c].pc = "fanout" /\ h[c].body = h[c].rows[1].hash /\ UNCHANGED db
    BY <1>0, <1>13 DEF fanoutPut, PutReplica, OpInOrder
  <2>2. PICK took : Become(c, Fanned(h[c], took))
    BY <1>13 DEF fanoutPut, PutReplica
  <2>3. CASE Fanned(h[c], took) = Done(h[c], "error")
    BY <1>0, <1>1, <1>2, <2>2, <2>3
  <2>4. CASE \/ Fanned(h[c], took) = [h[c] EXCEPT !.cand = Tail(h[c].cand), !.took = took]
             \/ Fanned(h[c], took) = [h[c] EXCEPT !.pc = "mark", !.cand = <<>>, !.took = took]
    <3>1. /\ h'[c].pc \in {"fanout", "mark"} /\ h'[c].op = h[c].op /\ h'[c].name = h[c].name
          /\ h'[c].file = h[c].file /\ h'[c].idx = h[c].idx /\ h'[c].rows = h[c].rows
          /\ h'[c].body = h[c].body
      BY <1>0, <2>1, <2>2, <2>4 DEF Handler
    <3> QED BY <1>11, <2>1, <3>1
  <2> QED BY <2>3, <2>4 DEF Fanned
<1> QED BY <1>3, <1>4, <1>5, <1>6, <1>7, <1>8, <1>9, <1>10, <1>12, <1>13 DEF TSStep

LEMMA OthersStay ==
  ASSUME IInv, NEW c \in Handlers, TSStep(c), NEW d \in Handlers, d # c
  PROVE  h'[d] = h[d]
BY DEF IInv, Inv, TypeOK, TSStep, Become, initUpload, uploadBlock, readBlock, PutBody,
       fanoutPut, PutReplica, markUploaded, PutMark, commit, manifest, download,
       downloadBlock, Fetched, NotFetched, deleteFile, deleteBlock, DeleteBlock,
       dropFile, Finish, NotFound

LEMMA TSStepCurrent ==
  ASSUME IInv, PutsAreCurrent, NEW c \in Handlers, TSStep(c)
  PROVE  PutsAreCurrent'
<1>1. \A f \in Ids : f < nextId => IdKept(f)
  BY IdsKept
<1>2. ASSUME NEW d \in Handlers, d # c PROVE h'[d] = h[d]
  BY <1>2, OthersStay
<1> QED BY <1>1, <1>2, OthersStayCurrent, MovedStaysCurrent DEF PutsAreCurrent

\* A request that arrives begins with a transaction or with getFile.
Begun(l) == l.pc = "getfile" \/ (l.pc = "tx" /\ l.op = "init")

LEMMA ArriveBegins ==
  ASSUME IInv, NEW c \in Handlers, Arrive(c)
  PROVE  \A d \in Handlers : h'[d] = h[d] \/ Begun(h'[d])
<1>1. ASSUME NEW n \in Names,
             \/ \E m \in Manifests : RequestInit(c, n, m)
             \/ \E i \in 1..MaxIdx, b \in Hashes : RequestPut(c, n, i, b)
             \/ \E i \in 1..MaxIdx : RequestBlock(c, n, i)
             \/ \E op \in {"commit", "manifest", "get", "delete"} : Request(c, op, n)
      PROVE  \E l : Become(c, l) /\ Begun(l)
  <2>1. ASSUME NEW m \in Manifests, RequestInit(c, n, m) PROVE \E l : Become(c, l) /\ Begun(l)
    <3>1. Begun([Idle EXCEPT !.op = "init", !.pc = "tx", !.name = n, !.man = m])
      BY DEF Idle, Begun
    <3> QED BY <2>1, <3>1 DEF RequestInit, Receive
  <2>2. ASSUME NEW i \in 1..MaxIdx, NEW b \in Hashes, RequestPut(c, n, i, b)
        PROVE  \E l : Become(c, l) /\ Begun(l)
    <3>1. Begun([Idle EXCEPT !.op = "put", !.pc = "getfile", !.name = n,
                             !.idx = i, !.body = b])
      BY DEF Idle, Begun
    <3> QED BY <2>2, <3>1 DEF RequestPut, Receive
  <2>3. ASSUME NEW i \in 1..MaxIdx, RequestBlock(c, n, i) PROVE \E l : Become(c, l) /\ Begun(l)
    <3>1. Begun([Idle EXCEPT !.op = "getblock", !.pc = "getfile", !.name = n, !.idx = i])
      BY DEF Idle, Begun
    <3> QED BY <2>3, <3>1 DEF RequestBlock, Receive
  <2>4. ASSUME NEW op, Request(c, op, n) PROVE \E l : Become(c, l) /\ Begun(l)
    <3>1. Begun([Idle EXCEPT !.op = op, !.pc = "getfile", !.name = n])
      BY DEF Idle, Begun
    <3> QED BY <2>4, <3>1 DEF Request, Receive
  <2> QED BY <1>1, <2>1, <2>2, <2>3, <2>4
<1>2. \E l : Become(c, l) /\ Begun(l)
  BY <1>1 DEF Arrive
<1> QED BY <1>2 DEF Become, IInv, Inv, TypeOK

LEMMA TSNextCurrent ==
  ASSUME IInv, PutsAreCurrent, [TSNext]_vars
  PROVE  PutsAreCurrent'
<1>1. CASE \E c \in Handlers : TSStep(c)
  BY <1>1, TSStepCurrent
<1>2. ASSUME UNCHANGED db,
             \A d \in Handlers : \/ h'[d] = h[d]
                                 \/ h'[d].pc \in {"idle", "getfile"}
                                 \/ h'[d].pc = "tx" /\ h'[d].op = "init"
      PROVE  PutsAreCurrent'
  BY <1>2 DEF db, PutsAreCurrent, OpInOrder, PutIsCurrent, Exists, HasBlock
<1>3. ASSUME NEW c \in Handlers, Arrive(c) PROVE PutsAreCurrent'
  BY <1>2, <1>3, ArriveBegins DEF Arrive, Begun
<1>4. CASE Crash
  BY <1>2, <1>4, IdleInOrder DEF Crash
<1>5. ASSUME NEW k \in late, LateCall(k) PROVE PutsAreCurrent'
  BY <1>2, <1>5 DEF LateCall
<1> QED BY <1>1, <1>2, <1>3, <1>4, <1>5 DEF TSNext, vars, db
\* What SuccessIsCurrent says of the handler that answers.
TrueAnswer(c) ==
  LET l == h[c]
      f == files'[l.name]
      row == blocks'[f.id][l.idx] IN
  /\ l.op = "init" => f # NoFile /\ f.sha = l.man.sha
  /\ l.op = "commit" => f # NoFile /\ f.state = "complete"
  /\ l.op = "put" => f # NoFile /\ row.uploaded
  /\ At(c, "mark") => row.hash = l.body

LEMMA SuccessIsTrue ==
  ASSUME IInv, PutsAreCurrent, NEW c \in Handlers, TSStep(c),
         ~At(c, "done"), At(c, "done")', h'[c].reply = "ok"
  PROVE  TrueAnswer(c)
<1> USE DEF At
<1>0. /\ h \in [Handlers -> Handler] /\ h[c] \in Handler
      /\ OpInOrder(h[c]) /\ PutIsCurrent(h[c]) /\ HandlerInOrder(h[c])
      /\ \A l : Become(c, l) => h'[c] = l
      /\ files \in [Names -> FileRow \cup {NoFile}] /\ blocks \in [Ids -> Seq(Row)]
      /\ nextId \in Int
  BY DEF IInv, Inv, TypeOK, PutsAreCurrent, Become, ServerInOrder, DbTypeOK
<1>1. \A l : Become(c, l) => l.pc = "done" /\ l.reply = "ok"
  BY <1>0
<1>2. \A reply : Done(h[c], reply).reply = reply
  BY <1>0 DEF Done, Handler
<1>3. CASE initUpload(c)
  <2>1. h[c].op = "init" /\ h[c].name \in Names
    BY <1>0, <1>3 DEF initUpload, OpInOrder, HandlerInOrder
  <2>2. createOrResume(h[c].name, h[c].man)
    <3>1. ~Become(c, Done(h[c], "conflict")) /\ ~Become(c, Done(h[c], "error"))
      BY <1>0, <1>1, <1>2
    <3> QED BY <1>3, <3>1 DEF initUpload
  <2>3. CASE Resumable(h[c].name, h[c].man) /\ UNCHANGED db
    BY <1>3, <2>1, <2>3 DEF Resumable, Conflict, Exists, db, TrueAnswer, initUpload
  <2>4. CASE Create(h[c].name, h[c].man, RowsFor(h[c].man))
    <3>1. files'[h[c].name] = [id |-> NewId, sha |-> h[c].man.sha,
                               size |-> h[c].man.size, state |-> "pending"]
      BY <1>0, <2>1, <2>4 DEF Create
    <3>2. files'[h[c].name] # NoFile
      <4>1. files' \in [Names -> FileRow \cup {NoFile}] /\ DbInv
        BY OwnTables, <1>3 DEF Own, DbInv, DbTypeOK, IInv, Inv, TypeOK, ServerInOrder
      <4>2. h[c].man \in Manifests
        BY <1>0, <1>3 DEF initUpload, HandlerInOrder
      <4>3. h[c].man.sha \in Contents /\ h[c].man.size \in Nat /\ NewId \in Ids
        BY <4>2, <2>4, MetaStoreAssumption DEF Create
      <4>4. files'[h[c].name] \in FileRow
        BY <3>1, <4>3 DEF FileRow
      <4> QED BY <4>4, NoFileAssumption
    <3> QED BY <1>3, <2>1, <3>1, <3>2 DEF TrueAnswer, initUpload
  <2> QED BY <2>2, <2>3, <2>4 DEF createOrResume
<1>4. ASSUME ~Exists(h[c].name), Become(c, Done(h[c], "notfound")) PROVE FALSE
  BY <1>0, <1>1, <1>2, <1>4
<1>5. CASE uploadBlock(c)
  <2>1. h[c].op = "put" /\ h[c].pc = "getfile" /\ h[c].name \in Names
    BY <1>0, <1>5 DEF uploadBlock, Begins, HandlerInOrder
  <2>2. UNCHANGED db /\ Exists(h[c].name)
    BY <1>4, <1>5 DEF uploadBlock, NotFound
  <2>3. blocks[files[h[c].name].id][h[c].idx].uploaded
    <3>1. ~Become(c, Done(h[c], "notfound"))
      BY <1>0, <1>1, <1>2
    <3>2. ASSUME NEW f, NEW row,
                 Become(c, [h[c] EXCEPT !.pc = "body", !.file = f, !.rows = <<row>>])
          PROVE  FALSE
      <4>1. [h[c] EXCEPT !.pc = "body", !.file = f, !.rows = <<row>>].pc = "body"
        BY <1>0 DEF Handler
      <4> QED BY <1>1, <3>2, <4>1
    <3> QED BY <1>4, <1>5, <3>1, <3>2 DEF uploadBlock, NotFound
  <2> QED BY <2>1, <2>2, <2>3 DEF TrueAnswer, db, Exists
<1>6. CASE commit(c)
  <2> DEFINE f == files[h[c].name]
  <2>1. h[c].op = "commit" /\ h[c].pc = "getfile" /\ h[c].name \in Names
    BY <1>0, <1>6 DEF commit, Begins, HandlerInOrder
  <2>2. Exists(h[c].name) /\ SetComplete(f.id)
    <3>1. ~Become(c, Done(h[c], "error"))
      BY <1>0, <1>1, <1>2
    <3> QED BY <1>4, <1>6, <3>1 DEF commit, NotFound
  <2>3. f \in FileRow
    BY <1>0, <2>1, <2>2 DEF Exists
  <2>4. files'[h[c].name] = [f EXCEPT !.state = "complete"]
    BY <2>1, <2>2 DEF SetComplete
  <2>5. files'[h[c].name] \in FileRow /\ files'[h[c].name].state = "complete"
    BY <2>3, <2>4 DEF FileRow
  <2> QED BY <2>1, <2>5, NoFileAssumption DEF TrueAnswer
<1>7. CASE markUploaded(c)
  <2> DEFINE f == h[c].file.id
             i == h[c].idx
  <2>1. h[c].op = "put" /\ h[c].pc = "mark" /\ h[c].file \in FileRow
    BY <1>0, <1>7 DEF markUploaded, PutMark, OpInOrder, HandlerInOrder, NoFileYet, Handler
  <2>2. MarkUploaded(f, i)
    <3>1. ~Become(c, Done(h[c], "error"))
      BY <1>0, <1>1, <1>2
    <3> QED BY <1>7, <3>1 DEF markUploaded, PutMark
  <2>3. /\ f \in Ids /\ i \in DOMAIN blocks[f] /\ files' = files
        /\ blocks[f][i].hash = h[c].rows[1].hash
    BY <1>0, <2>1, <2>2 DEF FileRow, MarkUploaded, HasBlock, PutIsCurrent
  <2>4. PICK n \in Names : Exists(n) /\ files[n].id = f
    <3>1. blocks[f] # <<>>
      BY <2>3
    <3> QED BY <2>3, <3>1 DEF IInv, Inv, ServerInOrder, DbInOrder, Live
  <2>5. n = h[c].name
    BY <1>0, <2>1, <2>4 DEF PutIsCurrent
  <2>6. files'[h[c].name] = files[n] /\ files[n] # NoFile /\ files[n].id = f
    BY <2>3, <2>4, <2>5 DEF Exists
  <2>7. blocks[f] \in Seq(Row) /\ blocks[f][i] \in Row
    BY <1>0, <2>3, LenProperties, ElementOfSeq
  <2>8. blocks'[f][i] = [blocks[f][i] EXCEPT !.uploaded = TRUE]
    BY <1>0, <2>2, <2>3 DEF MarkUploaded
  <2>9. blocks'[f][i].uploaded /\ blocks'[f][i].hash = h[c].rows[1].hash
    BY <2>3, <2>7, <2>8 DEF Row
  <2>10. h[c].rows[1].hash = h[c].body
    BY <1>0, <2>1 DEF OpInOrder
  <2> QED BY <2>1, <2>6, <2>9, <2>10 DEF TrueAnswer
<1>8. CASE h[c].op \in {"manifest", "get", "getblock", "delete"} /\ h[c].pc # "mark"
  BY <1>8 DEF TrueAnswer
<1>9. CASE manifest(c) \/ download(c) \/ downloadBlock(c) \/ deleteFile(c)
  BY <1>8, <1>9 DEF manifest, download, downloadBlock, deleteFile, Begins
<1>10. CASE Fetched(c) \/ NotFetched(c)
  <2>1. [h[c] EXCEPT !.cand = Tail(h[c].cand)].pc = h[c].pc
    BY <1>0 DEF Handler
  <2>2. CASE NotFetched(c)
    BY <1>0, <1>1, <1>2, <2>1, <2>2 DEF NotFetched
  <2>3. CASE Fetched(c)
    <3> DEFINE l == [h[c] EXCEPT !.sent = Append(h[c].sent, Head(h[c].rows).hash)]
    <3>1. Become(c, Streamed(l, Tail(h[c].rows)))
      BY <2>3 DEF Fetched
    <3>2. \A rows : Streamed(l, rows).reply = "ok" => Streamed(l, rows).pc = "stream"
      BY <1>0 DEF Streamed, Done, Length, Handler
    <3> QED BY <1>1, <3>1, <3>2
  <2> QED BY <1>10, <2>2, <2>3
<1>11. CASE deleteBlock(c) \/ dropFile(c)
  BY <1>0, <1>8, <1>11 DEF deleteBlock, DeleteBlock, dropFile, OpInOrder
<1>12. CASE readBlock(c)
  <2>1. [h[c] EXCEPT !.pc = "fanout", !.cand = h[c].rows[1].nodes].pc = "fanout"
    BY <1>0, <1>12 DEF Handler, readBlock, PutBody
  <2>2. ~Become(c, [h[c] EXCEPT !.pc = "fanout", !.cand = h[c].rows[1].nodes])
    BY <1>1, <2>1
  <2>3. ~Become(c, Done(h[c], "error"))
    BY <1>1, <1>2
  <2> QED BY <1>12, <2>2, <2>3 DEF readBlock, PutBody
<1>13. CASE fanoutPut(c)
  <2>1. PICK took : Become(c, Fanned(h[c], took))
    BY <1>13 DEF fanoutPut, PutReplica
  <2>2. /\ [h[c] EXCEPT !.cand = Tail(h[c].cand), !.took = took].pc = "fanout"
        /\ [h[c] EXCEPT !.pc = "mark", !.cand = <<>>, !.took = took].pc = "mark"
    BY <1>0, <1>13 DEF Handler, fanoutPut, PutReplica
  <2>3. Fanned(h[c], took).pc = "done" /\ Fanned(h[c], took).reply = "ok"
    BY <1>1, <2>1
  <2>4. Fanned(h[c], took) # Done(h[c], "error")
    BY <1>2, <2>3
  <2> QED BY <2>2, <2>3, <2>4 DEF Fanned
<1>14. CASE Finish(c)
  BY <1>14 DEF Finish
<1> QED BY <1>3, <1>5, <1>6, <1>7, <1>9, <1>10, <1>11, <1>12, <1>13, <1>14 DEF TSStep

LEMMA PutsHold == EitherSpec => [](IInv /\ (lang = "ts" => PutsAreCurrent))
<1>1. EitherInit => IInv /\ (lang = "ts" => PutsAreCurrent)
  BY InitInv, IdleInOrder DEF EitherInit, Init, PutsAreCurrent, OpInOrder, PutIsCurrent
<1>2. IInv /\ (lang = "ts" => PutsAreCurrent) /\ [EitherNext]_tsvars
      => (IInv /\ (lang = "ts" => PutsAreCurrent))'
  <2> SUFFICES ASSUME IInv, lang = "ts" => PutsAreCurrent, [EitherNext]_tsvars
               PROVE  IInv' /\ (lang' = "ts" => PutsAreCurrent')
    OBVIOUS
  <2>0. lang' = lang /\ ([Next]_vars \/ (lang = "ts" /\ [TSNext]_vars))
    BY DEF EitherNext, tsvars, vars
  <2>1. IInv'
    BY <2>0, NextInv, TSNextInv
  <2>2. ASSUME lang = "ts" PROVE [TSNext]_vars
    BY <2>2 DEF EitherNext, tsvars, vars
  <2>3. lang = "ts" => PutsAreCurrent'
    BY <2>2, TSNextCurrent
  <2> QED BY <2>0, <2>1, <2>3
<1> QED BY <1>1, <1>2, PTL DEF EitherSpec

\* The TypeScript coordinator answers success only of what is so, of the name
\* that was asked for, whatever happened at its awaits.
THEOREM AnswersAreCurrent == EitherSpec => SuccessIsCurrent
<1> DEFINE A == \A c \in Handlers :
                  lang = "ts" /\ ~At(c, "done") /\ At(c, "done")' /\ h'[c].reply = "ok"
                  => TrueAnswer(c)
<1>1. IInv /\ (lang = "ts" => PutsAreCurrent) /\ [EitherNext]_tsvars => [A]_tsvars
  <2> SUFFICES ASSUME IInv, lang = "ts" => PutsAreCurrent, EitherNext,
                      NEW c \in Handlers, lang = "ts",
                      ~At(c, "done"), At(c, "done")', h'[c].reply = "ok"
               PROVE  TrueAnswer(c)
    OBVIOUS
  <2>1. CASE \E d \in Handlers : TSStep(d)
    <3>1. PICK d \in Handlers : TSStep(d)
      BY <2>1
    <3>2. c = d
      BY <3>1, OthersStay DEF At
    <3> QED BY <3>1, <3>2, SuccessIsTrue
  <2>2. CASE \E d \in Handlers : Arrive(d)
    BY <2>2, ArriveBegins DEF At, Begun
  <2>3. CASE Crash
    BY <2>3 DEF Crash, Idle, At
  <2>4. CASE \E k \in late : LateCall(k)
    BY <2>4 DEF LateCall, At
  <2> QED BY <2>1, <2>2, <2>3, <2>4 DEF EitherNext, TSNext
<1>2. EitherSpec => [][A]_tsvars
  <2> HIDE DEF A
  <2> QED BY <1>1, PutsHold, PTL DEF EitherSpec
<1> QED BY <1>2 DEF SuccessIsCurrent, TrueAnswer
=============================================================================

----------------------------- MODULE Coordinator -----------------------------
(***************************************************************************)
(* The Go coordinator (src/go/internal/coordinator/server.go) with its     *)
(* database and the storage nodes.  Every request is served by a goroutine *)
(* of its own; nothing but the database is shared, so a handler can be     *)
(* overtaken between any two of its database statements and storage calls. *)
(* Each of those is one action.                                            *)
(*                                                                         *)
(* A storage node is what BlockStore promises: a set of blocks on which a  *)
(* call acts at one instant.  A call that times out, or whose caller goes  *)
(* away, may act later (late).                                             *)
(***************************************************************************)
EXTENDS MetaStore, FiniteSets

CONSTANTS
  Handlers,    \* requests served at the same time
  Ops,         \* the operations clients use
  Replicas,    \* cfg.Replicas
  PickOrder,   \* PickOrder[b]: the nodes as pickNodes ranks them for block b
  Bytes(_),    \* total size of a sequence of blocks
  MaxIdx,      \* bound of the model: largest block index in a request
  MaxLate,     \* bound of the model: calls in flight without a caller
  None         \* no manifest, no body, no name

AllOps == {"init", "put", "commit", "manifest", "get", "getblock", "delete"}

ASSUME CoordinatorAssumption ==
  /\ Ops \subseteq AllOps
  /\ Replicas \in 1..Cardinality(Nodes)
  /\ PickOrder \in [Hashes -> Seq(Nodes)]
  /\ \A b \in Hashes : /\ Len(PickOrder[b]) = Cardinality(Nodes)
                       /\ {PickOrder[b][i] : i \in DOMAIN PickOrder[b]} = Nodes
  /\ MaxIdx \in Nat /\ MaxLate \in Nat

(* Blocks are not empty: only the whole list has the size of the file.     *)
ASSUME BytesAssumption ==
  \A m \in Manifests : \A k \in 0..Len(m.blocks) :
    Bytes(SubSeq(m.blocks, 1, k)) = m.size <=> k = Len(m.blocks)

(* NoFile also marks a free name of Namespace.                              *)
ASSUME FreeAssumption ==
  NoFile \notin [blocks: Seq(Hashes), up: SUBSET Nat, complete: BOOLEAN]

VARIABLES
  store,   \* store[n]: the blocks on node n
  late,    \* storage calls that still may act though nobody waits for them
  h        \* h[c]: the handler goroutine in slot c

vars == <<files, blocks, nextId, store, late, h>>

PCs == {"idle", "tx", "reread", "missing", "getfile", "getblock", "body",
        "fanout", "mark", "count", "update", "list", "stream", "unlink",
        "drop", "done"}

Replies == {"none", "ok", "error", "notfound", "conflict", "full", "short"}

Calls == [kind: {"put", "delete"}, node: Nodes, hash: Hashes]

(* file: the row read by GetFile.  rows, cand: the block rows that are left*)
(* to work on, and the nodes left to try for the first of them.  took: the *)
(* nodes that accepted the block.  sent: the blocks written to the client, *)
(* or the hashes a manifest lists.                                         *)
Handler == [op: AllOps \cup {None}, pc: PCs, name: Names \cup {None},
            man: Manifests \cup {None}, idx: 0..MaxIdx,
            body: Hashes \cup {None}, file: FileRow \cup {NoFile},
            rows: Seq(Row), cand: Seq(Nodes), took: SUBSET Nodes,
            sent: Seq(Hashes), reply: Replies]

Idle == [op |-> None, pc |-> "idle", name |-> None, man |-> None, idx |-> 0,
         body |-> None, file |-> NoFile, rows |-> <<>>, cand |-> <<>>,
         took |-> {}, sent |-> <<>>, reply |-> "none"]

TypeOK == /\ DbTypeOK
          /\ store \in [Nodes -> SUBSET Hashes]
          /\ late \subseteq Calls
          /\ h \in [Handlers -> Handler]

Init == /\ DbInit
        /\ store = [n \in Nodes |-> {}]
        /\ late = {}
        /\ h = [c \in Handlers |-> Idle]
-----------------------------------------------------------------------------
(* pickNodes: the ranking depends on the block alone.  The first Replicas  *)
(* nodes are stored in the row; a read tries them, then the nodes that are *)
(* not among them: with one configuration, the rest of the ranking.        *)
ReplicasOf(b) == SubSeq(PickOrder[b], 1, Replicas)

Candidates(row) ==
  row.nodes \o SubSeq(PickOrder[row.hash], Len(row.nodes) + 1, Cardinality(Nodes))

RowsFor(m) ==
  [i \in DOMAIN m.blocks |-> [hash |-> m.blocks[i],
                              nodes |-> ReplicasOf(m.blocks[i]),
                              uploaded |-> FALSE]]

HashesOf(rows) == [i \in DOMAIN rows |-> rows[i].hash]

At(c, pc) == h[c].pc = pc

Become(c, l) == h' = [h EXCEPT ![c] = l]

(* The handler returns; what it no longer needs is dropped.                *)
Done(l, reply) == [l EXCEPT !.pc = "done", !.reply = reply, !.rows = <<>>,
                            !.cand = <<>>, !.took = {}]
-----------------------------------------------------------------------------
(* Requests arrive: handleFile has routed them and checked the name.       *)

Receive(c, l) == At(c, "idle") /\ Become(c, l)

RequestInit(c, n, m) ==
  "init" \in Ops
  /\ Receive(c, [Idle EXCEPT !.op = "init", !.pc = "tx", !.name = n, !.man = m])

RequestPut(c, n, i, b) ==
  "put" \in Ops
  /\ Receive(c, [Idle EXCEPT !.op = "put", !.pc = "getfile", !.name = n,
                             !.idx = i, !.body = b])

RequestBlock(c, n, i) ==
  "getblock" \in Ops
  /\ Receive(c, [Idle EXCEPT !.op = "getblock", !.pc = "getfile", !.name = n,
                             !.idx = i])

Request(c, op, n) ==
  op \in Ops
  /\ Receive(c, [Idle EXCEPT !.op = op, !.pc = "getfile", !.name = n])

Arrive(c) ==
  /\ \E n \in Names :
       \/ \E m \in Manifests : RequestInit(c, n, m)
       \/ \E i \in 1..MaxIdx, b \in Hashes : RequestPut(c, n, i, b)
       \/ \E i \in 1..MaxIdx : RequestBlock(c, n, i)
       \/ \E op \in {"commit", "manifest", "get", "delete"} : Request(c, op, n)
  /\ UNCHANGED <<db, store, late>>

(* The response is written and the goroutine ends.                         *)
Finish(c) == /\ At(c, "done")
             /\ Become(c, Idle)
             /\ UNCHANGED <<db, store, late>>
-----------------------------------------------------------------------------
(* init: CreateOrResume, its own re-read by name, MissingBlocks.           *)

InitTx(c) ==
  LET l == h[c] IN
  /\ At(c, "tx")
  /\ \/ /\ Conflict(l.name, l.man)
        /\ Become(c, Done(l, "conflict"))
        /\ UNCHANGED db
     \/ /\ Resumable(l.name, l.man)
        /\ Become(c, [l EXCEPT !.pc = "reread"])
        /\ UNCHANGED db
     \/ /\ Create(l.name, l.man, RowsFor(l.man))
        /\ Become(c, [l EXCEPT !.pc = "reread"])
     \/ /\ CannotCreate(l.name)
        /\ Become(c, Done(l, "error"))
        /\ UNCHANGED db
  /\ UNCHANGED <<store, late>>

InitReread(c) ==
  LET l == h[c] IN
  /\ At(c, "reread")
  /\ IF Exists(l.name)
       THEN Become(c, [l EXCEPT !.pc = "missing", !.file = files[l.name]])
       ELSE Become(c, Done(l, "error"))
  /\ UNCHANGED <<db, store, late>>

(* The answer is the list of missing indices; the client uploads those.    *)
InitMissing(c) ==
  /\ At(c, "missing")
  /\ Become(c, Done(h[c], "ok"))
  /\ UNCHANGED <<db, store, late>>
-----------------------------------------------------------------------------
(* GetFile, the first query of every other request.                        *)

AfterGetFile == [put |-> "getblock", getblock |-> "getblock",
                 commit |-> "count", manifest |-> "list", get |-> "list",
                 delete |-> "list"]

Servable(l, f) == l.op = "get" => f.state = "complete"

GetFile(c) ==
  LET l == h[c]
      f == files[l.name] IN
  /\ At(c, "getfile")
  /\ \/ ~Exists(l.name) /\ Become(c, Done(l, "notfound"))
     \/ /\ Exists(l.name)
        /\ IF Servable(l, f)
             THEN Become(c, [l EXCEPT !.pc = AfterGetFile[l.op], !.file = f])
             ELSE Become(c, Done(l, "conflict"))
  /\ UNCHANGED <<db, store, late>>
-----------------------------------------------------------------------------
(* uploadBlock *)

(* GetBlock: a block that is uploaded already is answered at once.         *)
PutGetBlock(c) ==
  LET l == h[c] IN
  /\ At(c, "getblock") /\ l.op = "put"
  /\ \/ /\ ~HasBlock(l.file.id, l.idx)
        /\ Become(c, Done(l, "notfound"))
     \/ /\ HasBlock(l.file.id, l.idx)
        /\ LET row == blocks[l.file.id][l.idx] IN
           Become(c, IF row.uploaded THEN Done(l, "ok")
                       ELSE [l EXCEPT !.pc = "body", !.rows = <<row>>])
  /\ UNCHANGED <<db, store, late>>

(* The body is read; its size and hash must be the row's.                  *)
PutBody(c) ==
  LET l == h[c] IN
  /\ At(c, "body")
  /\ \/ /\ l.body = l.rows[1].hash
        /\ Become(c, [l EXCEPT !.pc = "fanout", !.cand = l.rows[1].nodes])
     \/ Become(c, Done(l, "error"))
  /\ UNCHANGED <<db, store, late>>

(* Mistaken: success is not required of any replica.                       *)
FannedUnchecked(l, took) ==
  IF Len(l.cand) > 1
    THEN [l EXCEPT !.cand = Tail(l.cand), !.took = took]
    ELSE [l EXCEPT !.pc = "mark", !.cand = <<>>, !.took = took]

(* Mistaken: a replica that refuses is tried again.                        *)
FannedRetry(l, took) ==
  IF took = l.took THEN l
    ELSE IF Len(l.cand) > 1 THEN [l EXCEPT !.cand = Tail(l.cand), !.took = took]
           ELSE [l EXCEPT !.pc = "mark", !.cand = <<>>, !.took = took]

(* fanoutPut after one more replica: the next one, or the verdict.         *)
Fanned(l, took) ==
  IF Len(l.cand) > 1
    THEN [l EXCEPT !.cand = Tail(l.cand), !.took = took]
    ELSE IF took = {} THEN Done(l, "error")
           ELSE [l EXCEPT !.pc = "mark", !.cand = <<>>, !.took = took]

PutReplica(c) ==
  LET l == h[c]
      n == Head(l.cand)
      b == l.rows[1].hash
      call == [kind |-> "put", node |-> n, hash |-> b] IN
  /\ At(c, "fanout")
  /\ \/ /\ store' = [store EXCEPT ![n] = @ \cup {b}]       \* 200 or 201
        /\ Become(c, Fanned(l, l.took \cup {n}))
        /\ UNCHANGED late
     \/ /\ Become(c, Fanned(l, l.took))                    \* refused, lost
        /\ UNCHANGED <<store, late>>
     \/ /\ Cardinality(late) < MaxLate                     \* given up on
        /\ late' = late \cup {call}
        /\ Become(c, Fanned(l, l.took))
        /\ UNCHANGED store
  /\ UNCHANGED db

(* The row may be gone: the file was deleted since GetFile.                *)
PutMark(c) ==
  LET l == h[c] IN
  /\ At(c, "mark")
  /\ \/ MarkUploaded(l.file.id, l.idx) /\ Become(c, Done(l, "ok"))
     \/ /\ ~HasBlock(l.file.id, l.idx)
        /\ Become(c, Done(l, "error"))
        /\ UNCHANGED db
  /\ UNCHANGED <<store, late>>
-----------------------------------------------------------------------------
(* commit: MarkComplete counts the pending blocks, then updates the file.  *)

CommitCount(c) ==
  LET l == h[c] IN
  /\ At(c, "count")
  /\ Become(c, IF MissingBlocks(l.file.id) = {} THEN [l EXCEPT !.pc = "update"]
                                                ELSE Done(l, "error"))
  /\ UNCHANGED <<db, store, late>>

CommitUpdate(c) ==
  /\ At(c, "update")
  /\ SetComplete(h[c].file.id)
  /\ Become(c, Done(h[c], "ok"))
  /\ UNCHANGED <<store, late>>
-----------------------------------------------------------------------------
(* download, downloadBlock, manifest *)

(* A response is complete for the client when it has the declared length:  *)
(* a get declares the size in the row GetFile read; a single block has the *)
(* length the storage node declared.                                       *)
Length(l) ==
  IF l.op = "get" /\ Bytes(l.sent) # l.file.size THEN "short" ELSE "full"

Streamed(l, rows) ==
  IF rows = <<>> THEN Done(l, Length(l))
    ELSE [l EXCEPT !.pc = "stream", !.rows = rows,
                   !.cand = Candidates(Head(rows))]

(* ListBlocks for a read.  The rows are gone if the file was deleted.      *)
ReadList(c) ==
  LET l == h[c]
      rows == blocks[l.file.id] IN
  /\ At(c, "list") /\ l.op \in {"get", "manifest"}
  /\ Become(c, IF l.op = "get" THEN Streamed(l, rows)
                 ELSE Done([l EXCEPT !.sent = HashesOf(rows)], "ok"))
  /\ UNCHANGED <<db, store, late>>

ReadGetBlock(c) ==
  LET l == h[c] IN
  /\ At(c, "getblock") /\ l.op = "getblock"
  /\ \/ /\ HasBlock(l.file.id, l.idx)
        /\ blocks[l.file.id][l.idx].uploaded
        /\ Become(c, Streamed(l, <<blocks[l.file.id][l.idx]>>))
     \/ /\ ~(HasBlock(l.file.id, l.idx) /\ blocks[l.file.id][l.idx].uploaded)
        /\ Become(c, Done(l, "notfound"))
  /\ UNCHANGED <<db, store, late>>

(* streamBlock: the first candidate that has the block sends it.           *)
StreamHit(c) ==
  LET l == h[c]
      b == Head(l.rows).hash IN
  /\ At(c, "stream")
  /\ b \in store[Head(l.cand)]
  /\ \/ Become(c, Streamed([l EXCEPT !.sent = Append(@, b)], Tail(l.rows)))
     \/ Become(c, Done(l, "short"))                        \* the copy breaks
  /\ UNCHANGED <<db, store, late>>

(* 404, an error or a timeout: the next candidate.  After the last one the *)
(* handler returns: a get is short of the length it declared, but          *)
(* downloadBlock has declared none, and its empty response is a whole one. *)
StreamMiss(c) ==
  LET l == h[c] IN
  /\ At(c, "stream")
  /\ Become(c, IF Len(l.cand) > 1 THEN [l EXCEPT !.cand = Tail(l.cand)]
                                  ELSE Done(l, Length(l)))
  /\ UNCHANGED <<db, store, late>>
-----------------------------------------------------------------------------
(* delete *)

Unlinking(l, rows) ==
  IF rows = <<>> THEN [l EXCEPT !.pc = "drop", !.rows = <<>>, !.cand = <<>>]
    ELSE [l EXCEPT !.pc = "unlink", !.rows = rows, !.cand = Head(rows).nodes]

DeleteList(c) ==
  LET l == h[c] IN
  /\ At(c, "list") /\ l.op = "delete"
  /\ Become(c, Unlinking(l, blocks[l.file.id]))
  /\ UNCHANGED <<db, store, late>>

(* One DELETE to one replica of one block.  Its outcome is ignored.        *)
DeleteBlock(c) ==
  LET l == h[c]
      n == Head(l.cand)
      b == Head(l.rows).hash
      call == [kind |-> "delete", node |-> n, hash |-> b] IN
  /\ At(c, "unlink")
  /\ Become(c, IF Len(l.cand) > 1 THEN [l EXCEPT !.cand = Tail(l.cand)]
                                  ELSE Unlinking(l, Tail(l.rows)))
  /\ \/ store' = [store EXCEPT ![n] = @ \ {b}] /\ UNCHANGED late
     \/ UNCHANGED <<store, late>>
     \/ /\ Cardinality(late) < MaxLate
        /\ late' = late \cup {call}
        /\ UNCHANGED store
  /\ UNCHANGED db

(* The file row is deleted by the name, not by the id GetFile read.        *)
DeleteDrop(c) ==
  LET l == h[c] IN
  /\ At(c, "drop")
  /\ \/ DeleteFile(l.name) /\ Become(c, Done(l, "ok"))
     \/ ~Exists(l.name) /\ Become(c, Done(l, "error")) /\ UNCHANGED db
  /\ UNCHANGED <<store, late>>
-----------------------------------------------------------------------------
(* A storage call acts after its caller has given up on it.                *)
LateCall(k) ==
  /\ store' = [store EXCEPT ![k.node] = IF k.kind = "put" THEN @ \cup {k.hash}
                                                          ELSE @ \ {k.hash}]
  /\ late' = late \ {k}
  /\ UNCHANGED <<db, h>>

(* The coordinator process dies and is started again on the same database. *)
Crash == /\ \E c \in Handlers : ~At(c, "idle")
         /\ h' = [c \in Handlers |-> Idle]
         /\ UNCHANGED <<db, store, late>>

Step(c) == \/ InitTx(c) \/ InitReread(c) \/ InitMissing(c)
           \/ GetFile(c)
           \/ PutGetBlock(c) \/ PutBody(c) \/ PutReplica(c) \/ PutMark(c)
           \/ CommitCount(c) \/ CommitUpdate(c)
           \/ ReadList(c) \/ ReadGetBlock(c) \/ StreamHit(c) \/ StreamMiss(c)
           \/ DeleteList(c) \/ DeleteBlock(c) \/ DeleteDrop(c)
           \/ Finish(c)

Next == \/ \E c \in Handlers : Arrive(c) \/ Step(c)
        \/ \E k \in late : LateCall(k)
        \/ Crash

Spec == Init /\ [][Next]_vars

(* Go schedules every goroutine; a storage call ends after 60 s at the     *)
(* latest; the only client, dssctl, gives a request up after 10 minutes,   *)
(* which ends a read of its body.  Nothing is assumed of arrivals, crashes *)
(* and late calls.                                                         *)
FairSpec == Spec /\ \A c \in Handlers : WF_vars(Step(c))
-----------------------------------------------------------------------------
(* Properties *)

\* A file that is complete has all its blocks uploaded.  MarkComplete counts
\* in one statement and updates in another, with any number of deletes,
\* re-creations and uploads of the same name in between: what keeps the
\* update from hitting a younger file is that ids are never used twice.
CompleteIsWhole ==
  \A n \in Names : /\ Exists(n)
                    /\ files[n].state = "complete"
                    => MissingBlocks(files[n].id) = {}

(* Why: the inductive invariant of the proofs.                             *)

HaveNodes(rows) == \A i \in DOMAIN rows : rows[i].nodes # <<>>

DbInOrder ==
  /\ \A n \in Names : Exists(n) => files[n].id < nextId
  /\ \A n, m \in Names : Exists(n) /\ Exists(m) /\ n # m
                            => files[n].id # files[m].id
  /\ \A f \in Ids : /\ ~Live(f) => blocks[f] = <<>>
                    /\ HaveNodes(blocks[f])

NoFileYet == {"idle", "tx", "reread", "getfile"}

HandlerInOrder(l) ==
  /\ l.pc # "idle" => l.op \in AllOps /\ l.name \in Names
  /\ l.pc = "tx" => l.man \in Manifests
  /\ l.pc = "getfile" => l.op # "init"
  /\ l.pc \notin NoFileYet \cup {"done"} => l.file # NoFile
  /\ l.pc \in {"body", "fanout", "stream", "unlink"} => l.rows # <<>>
  /\ l.pc \in {"fanout", "stream", "unlink"} => l.cand # <<>>
  /\ l.pc = "mark" => l.took # {}
  /\ HaveNodes(l.rows)

FilesRead == \A c \in Handlers : h[c].file # NoFile => h[c].file.id < nextId

\* Between the COUNT and the UPDATE of a commit nothing makes a block of its
\* id missing: ids are never used twice and uploaded blocks stay so.
CommitInOrder ==
  \A c \in Handlers : At(c, "update") => MissingBlocks(h[c].file.id) = {}

\* The tables refer to one another as the schema says, every handler has
\* read what its next step uses, and a commit updates what it counted.
ServerInOrder == /\ DbInOrder
                 /\ \A c \in Handlers : HandlerInOrder(h[c])
                 /\ FilesRead
                 /\ CommitInOrder

\* A download that the client sees as whole delivered exactly the blocks of
\* the content it looked up, in order, though the file may be deleted and its
\* name taken by another upload between GetFile, ListBlocks and the reads.
DownloadIsWhole ==
  \A c \in Handlers :
    At(c, "done") /\ h[c].op = "get" /\ h[c].reply = "full"
      => \E m \in Manifests : /\ m.sha = h[c].file.sha
                              /\ m.blocks = h[c].sent

\* As long as nobody deletes, a block recorded as uploaded is on one of the
\* replicas its row names, whatever calls failed, came late or were cut off
\* by a crash of the coordinator.
UploadedIsStored ==
  "delete" \notin Ops =>
    \A n \in Names : Exists(n) =>
      \A i \in DOMAIN blocks[files[n].id] :
        LET row == blocks[files[n].id][i] IN
        row.uploaded => \E k \in DOMAIN row.nodes : row.hash \in store[row.nodes[k]]

\* Every request is answered, or dies with the coordinator.
EveryRequestAnswered == \A c \in Handlers : ~At(c, "idle") ~> At(c, "idle")

NS == INSTANCE Namespace WITH
        BlockLists <- {m.blocks : m \in Manifests},
        Free <- NoFile,
        ns <- [n \in Names |->
                 IF ~Exists(n) THEN NoFile
                 ELSE LET rows == blocks[files[n].id] IN
                      [blocks   |-> HashesOf(rows),
                       up       |-> {i \in DOMAIN rows : rows[i].uploaded},
                       complete |-> files[n].state = "complete"]]

\* However requests for a name interleave, and wherever the coordinator
\* crashes, the name goes through the life of an upload: its content does not
\* change, blocks do not become missing, and it is completed when whole.
ImplementsNamespace == NS!Spec
-----------------------------------------------------------------------------
(* What the documents say, and the code does not do: a run refutes it.     *)

\* ts/REQUIREMENTS.md F2: blocks are addressed by content and so naturally
\* deduplicated: a block that two files share is stored once.  Then removing
\* one of them must leave the other, complete and readable, readable.
Readable(n) == \A i \in DOMAIN blocks[files[n].id] :
                 \E k \in Nodes : blocks[files[n].id][i].hash \in store[k]

DeleteSparesOthers ==
  [][\A c \in Handlers, n \in Names :
       /\ At(c, "unlink") /\ h'[c] # h[c] /\ n # h[c].name
       /\ Exists(n) /\ files[n].state = "complete" /\ Readable(n)
       => Readable(n)']_vars
=============================================================================

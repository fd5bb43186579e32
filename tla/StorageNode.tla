---------------------------- MODULE StorageNode ----------------------------
(***************************************************************************)
(* The Go storage node (src/go/internal/storagesrv/server.go): requests    *)
(* are served concurrently, each by a goroutine that makes its system      *)
(* calls one after the other.  A block lives in one file whose path is its *)
(* hash; put writes a temporary file beside it, syncs it, checks the hash  *)
(* and renames it.                                                         *)
(*                                                                         *)
(* A content is represented by its hash.  Junk stands for every content    *)
(* whose hash is none of Hashes: a wrong body, a half-written file.        *)
(***************************************************************************)
CONSTANTS Hashes, Slots,
          Junk,     \* a content that is none of the blocks
          Absent    \* no file at a path; no temporary file; nothing delivered

ASSUME JunkAbsentAssumption == /\ Junk \notin Hashes
                               /\ Absent \notin Hashes \cup {Junk}

VARIABLES disk,     \* disk[h]: the file a reader finds at the path of h
          platter,  \* platter[h]: the file it would find after a power loss
          tmp,      \* tmp[c]: the temporary file of the put in slot c
          h         \* h[c]: the handler goroutine in slot c

vars == <<disk, platter, tmp, h>>

Contents == Hashes \cup {Junk}
File     == [data: Contents \cup {Absent}, synced: BOOLEAN]
NoFile   == [data |-> Absent, synced |-> TRUE]
Methods  == {"put", "get", "head", "delete"}
PCs      == {"idle", "stat", "drain", "create", "copy", "sync", "verify",
             "rename", "open", "send", "head", "remove", "done"}
Statuses == {0, 200, 201, 204, 400, 404, 500}

\* body: the request body of a put.  data: the content a get has opened.
Idle    == [pc |-> "idle", method |-> "none", id |-> Absent, body |-> Absent,
            data |-> Absent, status |-> 0]
Busy    == [pc: PCs \ {"idle"}, method: Methods, id: Hashes, body: Contents,
            data: Contents \cup {Absent}, status: Statuses]
Handler == Busy \cup {Idle}

TypeOK == /\ disk \in [Hashes -> File]
          /\ platter \in [Hashes -> File]
          /\ tmp \in [Slots -> File]
          /\ h \in [Slots -> Handler]

Exists(f) == f.data # Absent

Init == /\ disk = [b \in Hashes |-> NoFile]
        /\ platter = disk
        /\ tmp = [c \in Slots |-> NoFile]
        /\ h = [c \in Slots |-> Idle]
-----------------------------------------------------------------------------
At(c, pc) == h[c].pc = pc

Goto(c, pc) == h' = [h EXCEPT ![c].pc = pc]

\* The handler writes its status; the deferred function of put removes the
\* temporary file if it was not renamed.
Respond(c, status) ==
  /\ h' = [h EXCEPT ![c].pc = "done", ![c].status = status]
  /\ tmp' = [tmp EXCEPT ![c] = NoFile]

\* First system call of each method.
Entry == [put |-> "stat", get |-> "open", head |-> "head", delete |-> "remove"]

\* handleBlock: the id is well formed, the method picks the branch.
Receive(c, method, id, body) ==
  /\ At(c, "idle")
  /\ h' = [h EXCEPT ![c] = [pc |-> Entry[method], method |-> method, id |-> id,
                            body |-> body, data |-> Absent, status |-> 0]]
  /\ UNCHANGED <<disk, platter, tmp>>

\* The response is on the wire and the goroutine ends.
Finish(c) ==
  /\ At(c, "done")
  /\ h' = [h EXCEPT ![c] = Idle]
  /\ UNCHANGED <<disk, platter, tmp>>
-----------------------------------------------------------------------------
(* put *)

PutStat(c) == /\ At(c, "stat")
              /\ Goto(c, IF Exists(disk[h[c].id]) THEN "drain" ELSE "create")
              /\ UNCHANGED <<disk, platter, tmp>>

\* The block is already there: the body is read only to check its hash.  The
\* read fails when the caller goes away.
PutDrain(c) ==
  /\ At(c, "drain")
  /\ \E whole \in BOOLEAN :
       Respond(c, IF whole /\ h[c].body = h[c].id THEN 200 ELSE 400)
  /\ UNCHANGED <<disk, platter>>

PutCreate(c) ==
  /\ At(c, "create")
  /\ \/ /\ Goto(c, "copy")
        /\ tmp' = [tmp EXCEPT ![c] = [data |-> Junk, synced |-> FALSE]]
     \/ Respond(c, 500)
  /\ UNCHANGED <<disk, platter>>

PutCopy(c) ==
  /\ At(c, "copy")
  /\ \/ /\ Goto(c, "sync")
        /\ tmp' = [tmp EXCEPT ![c].data = h[c].body]
     \/ Respond(c, 400)
  /\ UNCHANGED <<disk, platter>>

\* Mistaken: without the sync.
PutNoSync(c) ==
  /\ At(c, "sync")
  /\ Goto(c, "verify")
  /\ UNCHANGED <<disk, platter, tmp>>

PutSync(c) ==
  /\ At(c, "sync")
  /\ \/ /\ Goto(c, "verify")
        /\ tmp' = [tmp EXCEPT ![c].synced = TRUE]
     \/ Respond(c, 500)
  /\ UNCHANGED <<disk, platter>>

\* Mistaken: what was copied is not checked.
PutNoVerify(c) ==
  /\ At(c, "verify")
  /\ Goto(c, "rename")
  /\ UNCHANGED <<disk, platter, tmp>>

\* Close may fail too; then the hash of what was copied is compared to the id.
PutVerify(c) ==
  /\ At(c, "verify")
  /\ \/ /\ h[c].body = h[c].id
        /\ Goto(c, "rename")
        /\ UNCHANGED tmp
     \/ h[c].body # h[c].id /\ Respond(c, 400)
     \/ Respond(c, 500)
  /\ UNCHANGED <<disk, platter>>

\* Mistaken: the error of the rename is ignored.
PutRenameUnchecked(c) ==
  /\ At(c, "rename")
  /\ \/ disk' = [disk EXCEPT ![h[c].id] = tmp[c]]
     \/ UNCHANGED disk
  /\ Respond(c, 201)
  /\ UNCHANGED platter

\* Mistaken: a rename that fails starts the put again.
PutRenameRetry(c) ==
  /\ At(c, "rename")
  /\ \/ /\ disk' = [disk EXCEPT ![h[c].id] = tmp[c]]
        /\ Respond(c, 201)
     \/ /\ Goto(c, "create")
        /\ UNCHANGED <<disk, tmp>>
  /\ UNCHANGED platter

PutRename(c) ==
  /\ At(c, "rename")
  /\ \/ /\ disk' = [disk EXCEPT ![h[c].id] = tmp[c]]
        /\ Respond(c, 201)
     \/ Respond(c, 500) /\ UNCHANGED disk
  /\ UNCHANGED platter
-----------------------------------------------------------------------------
(* get, head, delete *)

\* The open file keeps its content whatever happens to the path afterwards.
GetOpen(c) ==
  LET f == disk[h[c].id] IN
  /\ At(c, "open")
  /\ \/ /\ Exists(f)
        /\ h' = [h EXCEPT ![c].pc = "send", ![c].data = f.data]
        /\ UNCHANGED tmp
     \/ ~Exists(f) /\ Respond(c, 404)
     \/ Respond(c, 500)
  /\ UNCHANGED <<disk, platter>>

\* Content-Length is already sent: a copy that stops early is seen as short
\* by the caller, which takes it for a failure (500).
GetSend(c) == /\ At(c, "send")
              /\ Respond(c, 200) \/ Respond(c, 500)
              /\ UNCHANGED <<disk, platter>>

\* Mistaken: a status the callers do not know.
HeadNoContent(c) == /\ At(c, "head")
                    /\ Respond(c, 304)
                    /\ UNCHANGED <<disk, platter>>

Head(c) == /\ At(c, "head")
           /\ \/ Exists(disk[h[c].id]) /\ Respond(c, 200)
              \/ ~Exists(disk[h[c].id]) /\ Respond(c, 404)
           /\ UNCHANGED <<disk, platter>>

Delete(c) == /\ At(c, "remove")
             /\ \/ /\ disk' = [disk EXCEPT ![h[c].id] = NoFile]
                   /\ Respond(c, 204)
                \/ Respond(c, 500) /\ UNCHANGED disk
             /\ UNCHANGED platter
-----------------------------------------------------------------------------
(* The machine: what the operating system and failures do. *)

\* The kernel writes a directory entry back when it likes; put does not sync
\* the directory.
Flush(b) == /\ platter[b] # disk[b]
            /\ platter' = [platter EXCEPT ![b] = disk[b]]
            /\ UNCHANGED <<disk, tmp, h>>

\* The process dies (the 5 s of a graceful shutdown included).  A temporary
\* file it leaves is never read again.
Kill == /\ \E c \in Slots : ~At(c, "idle")
        /\ h' = [c \in Slots |-> Idle]
        /\ tmp' = [c \in Slots |-> NoFile]
        /\ UNCHANGED <<disk, platter>>

\* A file whose data was not synced may come back with any content.
PowerLoss ==
  \E torn \in SUBSET {b \in Hashes : ~platter[b].synced} :
    LET after == [b \in Hashes |->
                    IF b \in torn THEN [data |-> Junk, synced |-> TRUE]
                                  ELSE platter[b]]
    IN  /\ disk' = after
        /\ platter' = after
        /\ h' = [c \in Slots |-> Idle]
        /\ tmp' = [c \in Slots |-> NoFile]
-----------------------------------------------------------------------------
Step(c) == \/ PutStat(c) \/ PutDrain(c) \/ PutCreate(c) \/ PutCopy(c)
           \/ PutSync(c) \/ PutVerify(c) \/ PutRename(c)
           \/ GetOpen(c) \/ GetSend(c) \/ Head(c) \/ Delete(c)
           \/ Finish(c)

Arrive(c) == \/ \E id \in Hashes, body \in Contents : Receive(c, "put", id, body)
             \/ \E m \in Methods \ {"put"}, id \in Hashes : Receive(c, m, id, Junk)

Next == \/ \E c \in Slots : Arrive(c) \/ Step(c)
        \/ \E b \in Hashes : Flush(b)
        \/ Kill
        \/ PowerLoss

Spec == Init /\ [][Next]_vars

\* Go schedules every goroutine, system calls return, and the only caller, the
\* coordinator, closes a request after 60 s, which ends a read of its body.
FairSpec == Spec /\ \A c \in Slots : WF_vars(Step(c))
-----------------------------------------------------------------------------
(* Properties *)

\* Whatever is found at the path of a block, now or after a power loss, has
\* that block's hash: the file is synced and verified before put renames it,
\* so neither a bad body nor a crash between two steps can show a reader
\* another content under the name.
VisibleIsVerified ==
  \A b \in Hashes : /\ disk[b].data \in {b, Absent}
                    /\ platter[b].data \in {b, Absent}

\* A get that delivered a whole file delivered the block that was asked for,
\* although the path may be deleted and written again while it was sending.
GetServesItsBlock ==
  \A c \in Slots : At(c, "done") /\ h[c].method = "get" /\ h[c].status = 200
                     => h[c].data = h[c].id

(* Why the two hold: the inductive invariant of the proofs.                *)

NamedFilesAreFinished ==
  \A b \in Hashes : \A f \in {disk[b], platter[b]} :
    f.synced /\ f.data \in {b, Absent}

PutInOrder(c) ==
  /\ At(c, "sync")   => tmp[c].data = h[c].body
  /\ At(c, "verify") => tmp[c] = [data |-> h[c].body, synced |-> TRUE]
  /\ At(c, "rename") => tmp[c] = [data |-> h[c].id, synced |-> TRUE]

MethodSteps(m) ==
  CASE m = "put"    -> {"stat", "drain", "create", "copy", "sync", "verify", "rename"}
    [] m = "get"    -> {"open", "send"}
    [] m = "head"   -> {"head"}
    [] m = "delete" -> {"remove"}

CallInOrder(c) ==
  /\ At(c, "done") => h[c].status # 0
  /\ \A m \in Methods : h[c].pc \in MethodSteps(m) => h[c].method = m
  /\ At(c, "send") => h[c].data = h[c].id

\* Only a file whose put has copied, synced and verified it bears a block's
\* name, the steps of a put leave in its temporary file what the next one
\* relies on, and a request is where its method can be, with its own block open.
FilesInOrder == /\ NamedFilesAreFinished
                /\ \A c \in Slots : PutInOrder(c) /\ CallInOrder(c)

\* Every request is answered (or dies with the process): no path through put
\* leaves the handler without a return.
EveryRequestAnswered == \A c \in Slots : ~At(c, "idle") ~> At(c, "idle")

Phase(c) ==
  CASE h[c].pc = "idle" -> "idle"
    [] h[c].pc \in {"drain", "send"} -> "effective"
    [] h[c].pc = "done" /\ h[c].status \in {200, 201, 204} -> "effective"
    [] h[c].pc = "done" /\ h[c].status = 404 -> "missed"
    [] h[c].pc = "done" /\ h[c].status \in {400, 500} -> "failed"
    [] OTHER -> "pending"

BS == INSTANCE BlockStore WITH
        present <- {b \in Hashes : Exists(disk[b])},
        settled <- {b \in Hashes : Exists(platter[b])},
        call    <- [c \in Slots |-> [phase |-> Phase(c), kind |-> h[c].method,
                                     id |-> h[c].id]],
        NoBlock <- Absent

\* The node is the abstract block store: a put answered 200 or 201 had its
\* block on the node at some instant of the call, even when a delete of the
\* same block ran between its stat and its answer.
ImplementsBlockStore == BS!Spec
=============================================================================

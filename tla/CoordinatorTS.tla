---------------------------- MODULE CoordinatorTS ----------------------------
(***************************************************************************)
(* The TypeScript coordinator (src/ts/src/coordinator/server.ts with       *)
(* metastore.ts), which serves the same requests on the same tables as the *)
(* Go one.  One thread runs all handlers and the database is called        *)
(* synchronously, so that a handler is overtaken at its awaits only: the   *)
(* body of a request and the calls to storage nodes.  What lies between    *)
(* two awaits is one action, where the Go coordinator has up to three.     *)
(***************************************************************************)
EXTENDS Coordinator

VARIABLE lang  \* the coordinator that runs: "go" or "ts"

tsvars == <<vars, lang>>
-----------------------------------------------------------------------------
(* init *)

\* createOrResume: the row it returns is the one it has found or inserted.
createOrResume(n, m) == \/ Resumable(n, m) /\ UNCHANGED db
                        \/ Create(n, m, RowsFor(m))

\* The body has been read and is a manifest.
initUpload(c) ==
  LET l == h[c] IN
  /\ At(c, "tx")
  /\ \/ /\ createOrResume(l.name, l.man)
        /\ Become(c, Done([l EXCEPT !.file = files'[l.name]], "ok"))
     \/ /\ Conflict(l.name, l.man)
        /\ Become(c, Done(l, "conflict"))
        /\ UNCHANGED db
     \/ /\ CannotCreate(l.name)
        /\ Become(c, Done(l, "error"))
        /\ UNCHANGED db
  /\ UNCHANGED <<store, late>>
-----------------------------------------------------------------------------
(* All other handlers begin with getFile. *)

Begins(c, op) == At(c, "getfile") /\ h[c].op = op

NotFound(c) == /\ ~Exists(h[c].name)
               /\ Become(c, Done(h[c], "notfound"))
               /\ UNCHANGED db

\* getFile and getBlock.  A block that is uploaded is answered when the body
\* is drained, which may fail.
uploadBlock(c) ==
  LET l == h[c]
      f == files[l.name] IN
  /\ Begins(c, "put")
  /\ \/ NotFound(c)
     \/ /\ Exists(l.name)
        /\ UNCHANGED db
        /\ \/ /\ ~HasBlock(f.id, l.idx)
              /\ Become(c, Done(l, "notfound"))
           \/ /\ HasBlock(f.id, l.idx)
              /\ LET row == blocks[f.id][l.idx] IN
                 IF row.uploaded
                   THEN \E reply \in {"ok", "error"} : Become(c, Done(l, reply))
                   ELSE Become(c, [l EXCEPT !.pc = "body", !.file = f, !.rows = <<row>>])
  /\ UNCHANGED <<store, late>>

\* readBodyBuffer and the checks; one fetch of fanoutPut.
readBlock(c) == PutBody(c)
fanoutPut(c) == PutReplica(c)

\* No row to update is an exception, which route answers with 500.
markUploaded(c) == PutMark(c)

\* Mistaken: an await between the statements.
commitAwaiting(c) ==
  h[c].op = "commit" /\ (GetFile(c) \/ CommitCount(c) \/ CommitUpdate(c))

\* markComplete counts and updates without an await.
commit(c) ==
  LET l == h[c]
      f == files[l.name] IN
  /\ Begins(c, "commit")
  /\ \/ NotFound(c)
     \/ /\ Exists(l.name)
        /\ IF MissingBlocks(f.id) = {}
             THEN SetComplete(f.id) /\ Become(c, Done([l EXCEPT !.file = f], "ok"))
             ELSE UNCHANGED db /\ Become(c, Done(l, "error"))
  /\ UNCHANGED <<store, late>>
-----------------------------------------------------------------------------
(* manifest, download, downloadBlock *)

\* getFile and listBlocks.
manifest(c) ==
  LET l == h[c]
      f == files[l.name] IN
  /\ Begins(c, "manifest")
  /\ \/ NotFound(c)
     \/ /\ Exists(l.name)
        /\ Become(c, Done([l EXCEPT !.file = f, !.sent = HashesOf(blocks[f.id])], "ok"))
        /\ UNCHANGED db
  /\ UNCHANGED <<store, late>>

\* getFile and listBlocks; the length is that of the file.
download(c) ==
  LET l == h[c]
      f == files[l.name] IN
  /\ Begins(c, "get")
  /\ \/ NotFound(c)
     \/ /\ Exists(l.name)
        /\ Become(c, IF f.state = "complete"
                       THEN Streamed([l EXCEPT !.file = f], blocks[f.id])
                       ELSE Done(l, "conflict"))
        /\ UNCHANGED db
  /\ UNCHANGED <<store, late>>

\* getFile and getBlock.
downloadBlock(c) ==
  LET l == h[c]
      f == files[l.name] IN
  /\ Begins(c, "getblock")
  /\ \/ NotFound(c)
     \/ /\ Exists(l.name)
        /\ Become(c, IF HasBlock(f.id, l.idx) /\ blocks[f.id][l.idx].uploaded
                       THEN Streamed([l EXCEPT !.file = f], <<blocks[f.id][l.idx]>>)
                       ELSE Done(l, "notfound"))
        /\ UNCHANGED db
  /\ UNCHANGED <<store, late>>

\* fetchBlock has the whole block in memory before any of it is sent; a fetch
\* that breaks off goes on to the next candidate.
Fetched(c) ==
  LET l == h[c]
      b == Head(l.rows).hash IN
  /\ At(c, "stream")
  /\ b \in store[Head(l.cand)]
  /\ Become(c, Streamed([l EXCEPT !.sent = Append(@, b)], Tail(l.rows)))
  /\ UNCHANGED <<db, store, late>>

\* After the last candidate a download is cut off, a single block is a 502.
NotFetched(c) ==
  LET l == h[c] IN
  /\ At(c, "stream")
  /\ Become(c, IF Len(l.cand) > 1 THEN [l EXCEPT !.cand = Tail(l.cand)]
                 ELSE Done(l, IF l.op = "get" THEN "short" ELSE "error"))
  /\ UNCHANGED <<db, store, late>>
-----------------------------------------------------------------------------
(* deleteFile *)

\* getFile and listBlocks.
deleteFile(c) ==
  LET l == h[c]
      f == files[l.name] IN
  /\ Begins(c, "delete")
  /\ \/ NotFound(c)
     \/ /\ Exists(l.name)
        /\ Become(c, Unlinking([l EXCEPT !.file = f], blocks[f.id]))
        /\ UNCHANGED db
  /\ UNCHANGED <<store, late>>

\* One fetch with DELETE, whose outcome is ignored.
deleteBlock(c) == DeleteBlock(c)

\* The file row goes by its name.
dropFile(c) ==
  LET l == h[c] IN
  /\ At(c, "drop")
  /\ \/ DeleteFile(l.name) /\ Become(c, Done(l, "ok"))
     \/ NotFound(c)
  /\ UNCHANGED <<store, late>>
-----------------------------------------------------------------------------
TSStep(c) == \/ initUpload(c)
             \/ uploadBlock(c) \/ readBlock(c) \/ fanoutPut(c) \/ markUploaded(c)
             \/ commit(c)
             \/ manifest(c) \/ download(c) \/ downloadBlock(c)
             \/ Fetched(c) \/ NotFetched(c)
             \/ deleteFile(c) \/ deleteBlock(c) \/ dropFile(c)
             \/ Finish(c)

TSNext == \/ \E c \in Handlers : Arrive(c) \/ TSStep(c)
          \/ \E k \in late : LateCall(k)
          \/ Crash

TSSpec == Init /\ [][TSNext]_vars

\* Either coordinator.
EitherInit == Init /\ lang \in {"go", "ts"}

EitherNext == \/ lang = "go" /\ Next /\ UNCHANGED lang
              \/ lang = "ts" /\ TSNext /\ UNCHANGED lang

EitherSpec == EitherInit /\ [][EitherNext]_tsvars

\* Node runs every handler whose await is over.  A fetch and the reading of a
\* body end by their own timeouts.
EitherFairSpec ==
  /\ EitherSpec
  /\ \A c \in Handlers : /\ WF_tsvars(lang = "go" /\ Step(c) /\ UNCHANGED lang)
                         /\ WF_tsvars(lang = "ts" /\ TSStep(c) /\ UNCHANGED lang)
-----------------------------------------------------------------------------
(* Properties *)

\* A success is true when it is answered, of the name that was asked for: after
\* init the upload is that of the manifest, after a commit the file is complete,
\* after a put the block is recorded, although files were deleted and names
\* taken again while bodies were read and blocks stored.  (Not so in Go: init
\* reads a row again by its name, and a commit may update a row that is gone.)
SuccessIsCurrent ==
  [][\A c \in Handlers :
       lang = "ts" /\ ~At(c, "done") /\ At(c, "done")' /\ h'[c].reply = "ok"
       => LET l == h[c]
              f == files'[l.name]
              row == blocks'[f.id][l.idx] IN
          /\ l.op = "init" => f # NoFile /\ f.sha = l.man.sha
          /\ l.op = "commit" => f # NoFile /\ f.state = "complete"
          /\ l.op = "put" => f # NoFile /\ row.uploaded
          /\ At(c, "mark") => row.hash = l.body]_tsvars
=============================================================================

--------------------------- MODULE StorageNodeTS ---------------------------
(***************************************************************************)
(* The TypeScript storage node (src/ts/src/storage/server.ts).  One thread *)
(* runs all handlers, which interleave at their awaits: each await is one  *)
(* action.  put reads and checks the whole body, then writes a temporary   *)
(* file in the system's temporary directory and renames it to the path of  *)
(* the block.  When that directory is on another file system, as with the  *)
(* volumes of docker-compose.yml, the rename fails and put copies the file *)
(* to the path instead.                                                    *)
(*                                                                         *)
(* Files have an identity here: a reader keeps the one it has opened, and  *)
(* a copy truncates and rewrites the one it finds.                         *)
(***************************************************************************)
CONSTANTS Hashes, Slots,
          Files,        \* file identities (inodes)
          None,         \* no file, no writer, no block
          Ops,          \* the methods callers use
          CrossDevice,  \* the temporary directory is on another file system
          Kills         \* the process may be killed

ASSUME NodeAssumption == /\ Ops \subseteq {"put", "get", "head", "delete"}
                         /\ CrossDevice \in BOOLEAN /\ Kills \in BOOLEAN
                         /\ None \notin Hashes \cup Slots \cup Files

VARIABLES path,     \* path[b]: the file at the path of block b
          content,  \* content[f]: what is in file f
          h         \* h[c]: the handler of the request in slot c

vars == <<path, content, h>>

\* writer: the copy that truncated the file last.
Content == [whole: BOOLEAN, writer: Slots \cup {None}]
Whole   == [whole |-> TRUE, writer |-> None]

PCs == {"idle", "body", "stat", "temp", "rename", "copyopen", "copy",
        "size", "open", "send", "head", "remove", "done"}

\* match: the body of a put has the hash of the path.  length: how much of its
\* block a get has declared and, once done, sent.
Idle    == [pc |-> "idle", op |-> "none", id |-> None, match |-> FALSE,
            fd |-> None, length |-> "none", status |-> 0]
Handler == [pc: PCs, op: {"put", "get", "head", "delete", "none"},
            id: Hashes \cup {None}, match: BOOLEAN, fd: Files \cup {None},
            length: {"none", "part", "whole"},
            status: {0, 200, 201, 204, 400, 404, 500}]

TypeOK == /\ path \in [Hashes -> Files \cup {None}]
          /\ content \in [Files -> Content]
          /\ h \in [Slots -> Handler]

Init == /\ path = [b \in Hashes |-> None]
        /\ content = [f \in Files |-> Whole]
        /\ h = [c \in Slots |-> Idle]
-----------------------------------------------------------------------------
At(c, pc) == h[c].pc = pc

Exists(b) == path[b] # None

\* A file that neither a path nor an open descriptor refers to.
Fresh(f) == /\ \A b \in Hashes : path[b] # f
            /\ \A c \in Slots : h[c].fd # f

Goto(c, pc) == h' = [h EXCEPT ![c].pc = pc]

Respond(c, status) ==
  h' = [h EXCEPT ![c].pc = "done", ![c].status = status, ![c].fd = None]

Entry == [put |-> "body", get |-> "size", head |-> "head", delete |-> "remove"]

\* handle: the id is well formed, the method picks the branch.
Receive(c, op, id, match) ==
  /\ At(c, "idle") /\ op \in Ops
  /\ h' = [h EXCEPT ![c] = [Idle EXCEPT !.pc = Entry[op], !.op = op, !.id = id,
                                        !.match = match]]
  /\ UNCHANGED <<path, content>>

Finish(c) == /\ At(c, "done")
             /\ h' = [h EXCEPT ![c] = Idle]
             /\ UNCHANGED <<path, content>>
-----------------------------------------------------------------------------
(* put *)

\* The body ends early, or its hash is not the id: nothing is written.
PutBody(c) == /\ At(c, "body")
              /\ \/ h[c].match /\ Goto(c, "stat")
                 \/ Respond(c, 400)
              /\ UNCHANGED <<path, content>>

\* Mistaken: the block is written under its name.
PutStatInPlace(c) ==
  /\ At(c, "stat")
  /\ IF Exists(h[c].id) THEN Respond(c, 200) ELSE Goto(c, "copyopen")
  /\ UNCHANGED <<path, content>>

\* fileExists, here and below: stat fails for no other reason than a missing
\* file.
PutStat(c) == /\ At(c, "stat")
              /\ IF Exists(h[c].id) THEN Respond(c, 200) ELSE Goto(c, "temp")
              /\ UNCHANGED <<path, content>>

\* mkdir and writeFile; the temporary file is this request's alone.
PutTemp(c) == /\ At(c, "temp")
              /\ Goto(c, "rename") \/ Respond(c, 500)
              /\ UNCHANGED <<path, content>>

\* Mistaken: the error of the rename is swallowed.
PutRenameUnchecked(c) ==
  /\ At(c, "rename")
  /\ Respond(c, 201)
  /\ UNCHANGED <<path, content>>

\* Within one file system a rename fails only when the copy fails as well.
PutRename(c) ==
  /\ At(c, "rename")
  /\ \/ /\ ~CrossDevice
        /\ \E f \in Files : /\ Fresh(f)
                            /\ path' = [path EXCEPT ![h[c].id] = f]
                            /\ content' = [content EXCEPT ![f] = Whole]
        /\ Respond(c, 201)
     \/ /\ ~CrossDevice
        /\ Respond(c, 500)
        /\ UNCHANGED <<path, content>>
     \/ /\ CrossDevice
        /\ Goto(c, "copyopen")
        /\ UNCHANGED <<path, content>>

\* Mistaken: the copy is not awaited.
PutCopyOpenUnawaited(c) ==
  /\ At(c, "copyopen")
  /\ \E f \in Files :
       /\ f = path[h[c].id] \/ (~Exists(h[c].id) /\ Fresh(f))
       /\ path' = [path EXCEPT ![h[c].id] = f]
       /\ content' = [content EXCEPT ![f] = [whole |-> FALSE, writer |-> c]]
  /\ Respond(c, 201)

\* copyFile opens the path and truncates the file it finds there.
PutCopyOpen(c) ==
  /\ At(c, "copyopen")
  /\ \/ /\ \E f \in Files :
             /\ f = path[h[c].id] \/ (~Exists(h[c].id) /\ Fresh(f))
             /\ path' = [path EXCEPT ![h[c].id] = f]
             /\ content' = [content EXCEPT ![f] = [whole |-> FALSE, writer |-> c]]
             /\ h' = [h EXCEPT ![c].pc = "copy", ![c].fd = f]
     \/ Respond(c, 500) /\ UNCHANGED <<path, content>>

\* The copy that was the last to truncate the file leaves it whole; another
\* one may have written all or only the end of it.  Removing the temporary
\* file may fail.
Copied(c) == /\ h[c].pc = "copy"
             /\ \/ content' = [content EXCEPT ![h[c].fd].whole = TRUE]
                \/ content[h[c].fd].writer # c /\ UNCHANGED content
             /\ \E status \in {201, 500} : Respond(c, status)
             /\ UNCHANGED path

\* A copy that fails unlinks the path, whatever file is there by then.
CopyFails(c) == /\ h[c].pc = "copy"
                /\ path' = [path EXCEPT ![h[c].id] = None]
                /\ Respond(c, 500)
                /\ UNCHANGED content

PutCopy(c) == Copied(c) \/ CopyFails(c)
-----------------------------------------------------------------------------
(* get, head, delete *)

\* stat, then the response's headers with the length it found.
GetStat(c) ==
  /\ At(c, "size")
  /\ \/ /\ Exists(h[c].id)
        /\ h' = [h EXCEPT ![c].pc = "open",
                          ![c].length = IF content[path[h[c].id]].whole
                                          THEN "whole" ELSE "part"]
     \/ ~Exists(h[c].id) /\ Respond(c, 404)
  /\ UNCHANGED <<path, content>>

ProcessDies == /\ h' = [c \in Slots |-> Idle]
               /\ UNCHANGED <<path, content>>

\* Nobody listens to the error of the stream: when the file is gone by now,
\* the error ends the process.
GetOpen(c) ==
  /\ At(c, "open")
  /\ \/ /\ Exists(h[c].id)
        /\ h' = [h EXCEPT ![c].pc = "send", ![c].fd = path[h[c].id]]
        /\ UNCHANGED <<path, content>>
     \/ ~Exists(h[c].id) /\ ProcessDies

\* The caller sees a whole response when it has the declared length, whatever
\* the file has become; a short one is a failure (500).
GetSend(c) ==
  /\ At(c, "send")
  /\ \/ /\ h' = [h EXCEPT ![c].pc = "done", ![c].status = 200, ![c].fd = None,
                          ![c].length = IF content[h[c].fd].whole THEN @ ELSE "part"]
     \/ Respond(c, 500)
  /\ UNCHANGED <<path, content>>

Head(c) == /\ At(c, "head")
           /\ Respond(c, IF Exists(h[c].id) THEN 200 ELSE 404)
           /\ UNCHANGED <<path, content>>

Delete(c) == /\ At(c, "remove")
             /\ \/ path' = [path EXCEPT ![h[c].id] = None] /\ Respond(c, 204)
                \/ Respond(c, 500) /\ UNCHANGED path
             /\ UNCHANGED content
-----------------------------------------------------------------------------
Kill == /\ Kills
        /\ \E c \in Slots : ~At(c, "idle")
        /\ ProcessDies

Step(c) == \/ PutBody(c) \/ PutStat(c) \/ PutTemp(c) \/ PutRename(c)
           \/ PutCopyOpen(c) \/ PutCopy(c)
           \/ GetStat(c) \/ GetOpen(c) \/ GetSend(c) \/ Head(c) \/ Delete(c)
           \/ Finish(c)

Arrive(c) == \E op \in Ops, id \in Hashes, match \in BOOLEAN :
               (op # "put" => ~match) /\ Receive(c, op, id, match)

Next == \/ \E c \in Slots : Arrive(c) \/ Step(c)
        \/ Kill

Spec == Init /\ [][Next]_vars
-----------------------------------------------------------------------------
(* Properties *)

\* On one file system a path never shows less than its whole block: put
\* writes elsewhere and renames, so a crash between any two steps, or another
\* put of the same block, leaves no partial file.  It is what the documents
\* say of the node ("atomic temp+rename"), and false when the temporary
\* directory is on another file system.
NamedFilesAreWhole == \A b \in Hashes : Exists(b) => content[path[b]].whole

\* A get whose response looks whole delivered the whole block, though the
\* path was read twice, once for the length and once for the content.
GetServesWhole ==
  \A c \in Slots : At(c, "done") /\ h[c].op = "get" /\ h[c].status = 200
                     => h[c].length = "whole"

\* Across file systems: as long as the process lives, a partial file is at a
\* path only while some put of that block is still copying.  Two copies may
\* truncate each other's file and either may fail and unlink it.
PartialOnlyWhileCopied ==
  \A b \in Hashes :
    Exists(b) /\ ~content[path[b]].whole
      => \E c \in Slots : At(c, "copy") /\ h[c].id = b

Phase(c) ==
  CASE h[c].pc = "idle" -> "idle"
    [] h[c].pc \in {"open", "send"} -> "effective"
    [] h[c].pc = "done" /\ h[c].status \in {200, 201, 204} -> "effective"
    [] h[c].pc = "done" /\ h[c].status = 404 -> "missed"
    [] h[c].pc = "done" /\ h[c].status \in {400, 500} -> "failed"
    [] OTHER -> "pending"

\* Nothing is synced to the disk, and power losses are not modelled.
BS == INSTANCE BlockStore WITH
        present <- {b \in Hashes : Exists(b)},
        settled <- {},
        call    <- [c \in Slots |-> [phase |-> Phase(c), kind |-> h[c].op,
                                     id |-> h[c].id]],
        NoBlock <- None

\* On one file system the node is the same abstract block store as the Go
\* one, process crashes caused by its own handlers included.
ImplementsBlockStore == BS!Spec
=============================================================================

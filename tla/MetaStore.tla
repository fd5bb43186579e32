------------------------------ MODULE MetaStore ------------------------------
(***************************************************************************)
(* The coordinator's metadata database                                     *)
(* (src/go/internal/metastore/metastore.go): the tables files and blocks   *)
(* and the statements run on them.  The connection pool holds one          *)
(* connection, so each statement, or each transaction, is one atomic step; *)
(* a method that runs two statements outside a transaction is two steps.   *)
(* Rows carry what the code decides on: times and the block size are left  *)
(* out, a content (its size and SHA-256) is a member of Contents.          *)
(***************************************************************************)
EXTENDS Integers, Sequences

CONSTANTS
  Names,      \* file names
  Nodes,      \* storage node URLs
  Hashes,     \* SHA-256 of blocks
  Contents,   \* SHA-256 of files
  Manifests,  \* the manifests clients build
  NoFile,     \* no row
  MaxFid      \* bound of the model: files created during a behaviour

Ids == 1..MaxFid

(* A client's manifest describes its file: a content has one size.  The    *)
(* same content cut with another block size has another block list.        *)
ASSUME MetaStoreAssumption ==
  /\ MaxFid \in Nat
  /\ Manifests \subseteq [sha: Contents, size: Nat, blocks: Seq(Hashes)]
  /\ \A m, k \in Manifests : m.sha = k.sha => m.size = k.size

Row     == [hash: Hashes, nodes: Seq(Nodes), uploaded: BOOLEAN]
FileRow == [id: Ids, sha: Contents, size: Nat, state: {"pending", "complete"}]

ASSUME NoFileAssumption == NoFile \notin FileRow

VARIABLES
  files,   \* table files, by name (UNIQUE)
  blocks,  \* table blocks: blocks[f][i] is the row (file_id, idx) = (f, i);
           \* <<>> when no file has the id
  nextId   \* the next AUTOINCREMENT id

db == <<files, blocks, nextId>>

DbTypeOK == /\ files \in [Names -> FileRow \cup {NoFile}]
            /\ blocks \in [Ids -> Seq(Row)]
            /\ nextId \in 1..(MaxFid + 1)

DbInit == /\ files = [n \in Names |-> NoFile]
          /\ blocks = [f \in Ids |-> <<>>]
          /\ nextId = 1

Exists(n) == files[n] # NoFile

Live(f) == \E n \in Names : Exists(n) /\ files[n].id = f
-----------------------------------------------------------------------------
(* CreateOrResume: one transaction.  It refuses another content, resumes   *)
(* the upload of the same one, or inserts the file and its block rows;     *)
(* SQLite refuses the insert when AUTOINCREMENT has no id left.            *)

Conflict(n, m) == /\ Exists(n)
                  /\ files[n].sha # m.sha \/ files[n].size # m.size

Resumable(n, m) == Exists(n) /\ ~Conflict(n, m)

(* Mistaken forms, against which the properties are tried, stand before    *)
(* the definitions they would replace.  Ids without AUTOINCREMENT:         *)
NewIdReused == CHOOSE f \in 1..(MaxFid + 1) : ~Live(f) /\ \A g \in 1..(f - 1) : Live(g)

NewId == nextId

(* The insert writes a state the other statements do not know.             *)
CreateUnknownState(n, m, rows) ==
  /\ ~Exists(n)
  /\ NewId \in Ids
  /\ files' = [files EXCEPT ![n] = [id |-> NewId, sha |-> m.sha,
                                    size |-> m.size, state |-> "uploading"]]
  /\ blocks' = [blocks EXCEPT ![NewId] = rows]
  /\ nextId' = nextId + 1

Create(n, m, rows) ==
  /\ ~Exists(n)
  /\ NewId \in Ids
  /\ files' = [files EXCEPT ![n] = [id |-> NewId, sha |-> m.sha,
                                    size |-> m.size, state |-> "pending"]]
  /\ blocks' = [blocks EXCEPT ![NewId] = rows]
  /\ nextId' = nextId + 1

CannotCreate(n) == ~Exists(n) /\ NewId \notin Ids

(* Queries on blocks.  The rows of an id no file has are empty. *)

MissingBlocks(f) == {i \in DOMAIN blocks[f] : ~blocks[f][i].uploaded}

HasBlock(f, i) == i \in DOMAIN blocks[f]

(* The UPDATE without "AND idx = ?".                                       *)
MarkUploadedAll(f, i) ==
  /\ HasBlock(f, i)
  /\ blocks' = [blocks EXCEPT ![f] = [k \in DOMAIN @ |-> [@[k] EXCEPT !.uploaded = TRUE]]]
  /\ UNCHANGED <<files, nextId>>

(* MarkUploaded: the UPDATE of the block row; no row is an error.          *)
MarkUploaded(f, i) ==
  /\ HasBlock(f, i)
  /\ blocks' = [blocks EXCEPT ![f][i].uploaded = TRUE]
  /\ UNCHANGED <<files, nextId>>

(* MarkComplete, second statement.  An UPDATE of no row is no error. *)
SetComplete(f) ==
  /\ files' = [n \in Names |-> IF Exists(n) /\ files[n].id = f
                                 THEN [files[n] EXCEPT !.state = "complete"]
                                 ELSE files[n]]
  /\ UNCHANGED <<blocks, nextId>>

(* Delete by name; ON DELETE CASCADE takes the block rows. *)
DeleteFile(n) ==
  /\ Exists(n)
  /\ files' = [files EXCEPT ![n] = NoFile]
  /\ blocks' = [blocks EXCEPT ![files[n].id] = <<>>]
  /\ UNCHANGED nextId
=============================================================================

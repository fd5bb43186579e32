# Formal specifications of MiniDistributedStorage

TLA+ specifications of the storage system in this repository, the TLC
configurations that check them on small instances, and proofs, checked by
TLAPS, of what holds for every instance. `PROJECT.json` lists the components,
the runs, the source lines each definition stands for, the hazards of the code
and what covers each of them.

    tlc -config StorageNode.cfg MCStorageNode      # check a module
    tlapm StorageNodeProofs.tla                    # check the proofs of a module

## 1. The system

The repository holds the same idea three times: files are cut into blocks,
blocks are named by a hash of their content and spread over storage nodes, an
upload that was broken off is resumed with the blocks that are missing.

| Part | Source | State | Operations |
|---|---|---|---|
| Go storage node | `go/internal/storagesrv`, `go/cmd/storaged` | a directory of files named by SHA-256; a temporary file per put | PUT, GET, HEAD, DELETE of a block |
| Go metadata store | `go/internal/metastore` | SQLite tables `files` and `blocks` | CreateOrResume, GetFile, GetBlock, MissingBlocks, MarkUploaded, MarkComplete, ListBlocks, Delete |
| Go coordinator | `go/internal/coordinator`, `go/cmd/coordinatord` | none of its own | init, block upload, commit, manifest, download, block download, delete |
| Go client, chunker, wire types | `go/cmd/dssctl`, `go/internal/chunk`, `go/internal/proto` | none that survives | put (resumable), get, ls, rm |
| TypeScript storage node | `ts/src/storage` | as the Go one | as the Go one |
| TypeScript coordinator, metadata store, client | `ts/src/coordinator`, `ts/src/metastore.ts`, `ts/src/client` | as the Go ones | as the Go ones |
| Reactor library | `ReactorService/{src,inc}` (copied into each `storageServer/saveFile_*`) | per loop: queue of functors, eventfd, epoll registrations; per connection: state, two buffers | functors, wake-ups, quit, thread pool; accept, read, send, close |
| Legacy proxy | `ReactorService/src/{main.cc,upLoad.h,downLoad.h}`, `inc/Fileproxy.h` | global phase and file name, a map of files | upload, resume, download |
| Legacy storage servers, client | `storageServer/saveFile_*`, `ClientSystem` | global phase, directories of blocks; position in a file | save a block, send a directory; send and receive blocks |
| MySQL helper | `db` | tables `files` and one per file | create a file, record MD5s, mark blocks, ask for them; `db_operation.cpp` plays an upload and downloads |

### How the parts interact

`dssctl` asks the coordinator to *init* a file (name, size, SHA-256, list of
blocks), uploads each block the answer calls missing, and *commits*. The
coordinator ranks the nodes for a block by rendezvous hashing of the block
alone, stores the first `replicas` of them in the block's row, and sends the
block to each in turn; one success is enough. A read tries the nodes of the
row, then the others. Nodes do not know one another and keep no state but
files. Coordinator handlers run concurrently (a goroutine per request in Go, a
promise in TypeScript) and share the database only: every statement is atomic,
nothing keeps a handler's statements together.

In the legacy system one epoll loop per thread calls the handlers of the ready
sockets and the functors that any thread queues for it. A client sends the word
`upppload`, a header and, when it is told that the file is new, the MD5s of its
blocks, then the blocks. The proxy compares each block with its MD5 and sends it
to one of three storage servers, over connections that it opens when it starts
and that uploads, downloads and three download threads share. The servers append
a block to the file of its MD5. Nobody reads length fields across phases: who
loses the boundaries of the messages takes text for a length. `db` is to replace
the proxy's map of files and is used by nothing else yet.

### What is hard, and what makes each part correct

* *Storage node.* Puts, gets and deletes of one block interleave between any
  two system calls; the process or the machine dies anywhere. Correct: what a
  reader finds under a hash has that hash, and every request looks as if it
  took effect at one instant.
* *Coordinator.* A handler's rows, ids and names go stale between two
  statements: files are deleted, and names reused for other contents, under its
  feet. Storage calls fail, are lost, or act after their caller has given up;
  the process dies between storing a block and recording it. Correct: a name
  goes through the life of an upload (registered, blocks arriving, complete,
  removed), a complete file has all its blocks, a block recorded as uploaded is
  stored, and a download never mixes contents.
* *Client.* Correct: a put that is repeated often enough completes.
* *Event loop.* The queue, the flag `callFunctors_` and the eventfd are changed
  apart from one another. Correct: no loop sleeps over its work; functors run
  once and in order.
* *Buffer.* The bytes move and the vector grows under two indices. Correct: a
  queue of bytes, in a vector that does not grow for ever.
* *Connections.* Partial writes, full sockets, a close while output is pending,
  events are active or functors are queued; a destruction in three steps by two
  loops; no descriptor left. Correct: messages arrive whole and in order, the
  callbacks come in order, each connection is released once its peer ends it,
  and epoll never hands out the event of one that is gone.
* *Legacy proxy, storage servers and client.* Phases kept in globals that all
  connections and threads share; messages split over reads and joined in one;
  clients that end anywhere and come back. Correct: what is recorded as accepted
  was forwarded, what is left out was accepted, what is delivered is verified.
* *MySQL helper.* Every statement may fail, or take effect without an answer;
  programs end anywhere and race. Correct: what the tables say of an upload is
  so.

## 2. Modules

| Module | Models |
|---|---|
| `BlockStore` | what a storage node promises (abstract) |
| `StorageNode` | the Go storage node: one action per system call of a handler |
| `StorageNodeProofs` | proofs about it, and that it implements `BlockStore` |
| `MCStorageNode` | two blocks, two requests at a time |
| `StorageNodeTS`, `StorageNodeTSProofs`, `MCStorageNodeTS` | the TypeScript storage node: one action per `await`; that it implements `BlockStore` |
| `MetaStore` | the Go coordinator's database: one operator per SQL statement or transaction |
| `Namespace` | what the coordinator promises about a name (abstract) |
| `Coordinator` | the Go coordinator with its database and nodes: one action per statement or storage call of a handler |
| `CoordinatorTS` | the TypeScript coordinator on the same database and nodes: one action between two awaits; either coordinator |
| `CoordinatorProofs` | proofs about the Go coordinator: its tables and names, what it delivers and stores; that it implements `Namespace`; the same of the TypeScript coordinator |
| `MCCoordinator` | contents, nodes and rankings for the runs |
| `EventLoop`, `MCEventLoop` | loops, loop threads and the thread pool of the reactor library |
| `ByteQueue` | what a buffer promises (abstract) |
| `Buffer` | the buffer of the reactor library (the client has the same) |
| `ReactorProofs` | proofs about loops and buffers; that a buffer implements `ByteQueue` |
| `Connection`, `ConnectionProofs`, `MCConnection` | accept, read, write, close and destruction of connections, epoll registrations, over one or two loops |
| `Upload`, `UploadProofs`, `MCUpload` | clients, proxy and storage servers of an upload |
| `Download`, `DownloadProofs`, `MCDownload` | a download by the proxy's three threads next to an upload that begins |
| `DbHelper` | programs with a `DBhelper` |
| `DbDemo`, `DbDownload` | `db_operation.cpp`: the upload it plays, the downloads |
| `Db`, `DbProofs`, `MCDb` | one database under one of the three; proofs about it |

Definitions marked "Mistaken" or "Faulty" stand before the definition they are a wrong form
of; no specification uses them. They are the mutants of `PROJECT.json`: each
property is shown to fail when the wrong form is put in its place.

### StorageNode

`h[c]` is the goroutine that serves slot `c`, its `pc` the next system call.
`disk[b]` is the file a reader finds at the path of block `b`, `platter[b]` the
one it would find after a power loss, `tmp[c]` the temporary file of a put. A
content is represented by its hash, every other content by `Junk`. PutStat,
PutDrain, PutCreate, PutCopy, PutSync, PutVerify, PutRename are the steps of
`put` in their order, with the error of each; the deferred removal of the
temporary file is part of `Respond`. `Kill` ends the process; `PowerLoss`
returns to `platter` and gives files that were not synced any content; `Flush`
writes a directory entry back. That a response cannot be written is not told
apart from one that is written; the graceful shutdown is a kill that comes late.

### StorageNodeTS

Files have an identity, since a reader keeps the file it has open and a copy
truncates the one it finds. `put` has the whole body in memory before its first
file operation. `CrossDevice` says whether the temporary directory is on
another file system: then `rename` fails and `copyFile` writes the block in
place (`PutCopyOpen` truncates, `Copied` ends; libuv unlinks the file when the
copy fails, `CopyFails`). An error event of the stream of a GET has no
listener: `ProcessDies`.

### MetaStore and Coordinator

`files` and `blocks` are the tables. The block rows of an id form a sequence;
the rows of an id without a file are empty (ON DELETE CASCADE). The pool has one
connection, so each statement or transaction is atomic. `MarkComplete` runs two
statements outside a transaction and is two steps (`CommitCount`,
`CommitUpdate`); `CreateOrResume` reads the row again by name after its
transaction (`InitReread`).

`h[c]` is a handler goroutine: the row GetFile read (`file`), the block rows it
still has to work on (`rows`), the nodes left to try for the first of them
(`cand`). A storage node is what `BlockStore` promises, a set of blocks on which
a call acts at one instant (`store`); a call whose caller has given up may act
later (`late`). The client is the environment: any request at any time, with
the manifests the chunker can build. `Crash` ends all handlers and keeps the
database and the nodes.

### CoordinatorTS

`CoordinatorTS` extends `Coordinator`: the same tables, nodes, late calls, handler
records and arrivals. Node runs one handler at a time, and `node:sqlite` is
synchronous, so that all a handler does between two awaits is one action: `commit`
where Go has GetFile, CommitCount and CommitUpdate, `initUpload` where Go has
three steps. What awaits a storage node is the same step as in Go (`readBlock`,
`fanoutPut`, `markUploaded`, `deleteBlock`); reads differ, because `fetchBlock` has a
whole block before any of it is sent and a block that no node has is a 502.
`lang` is chosen when the system starts: `EitherSpec` is what the runs check.
A handler whose client is gone may wait for a `drain` that never comes; it has no
effect any more, which is a handler that ends.

### EventLoop

`pc[l]` is where the thread of loop `l` is: starting, at the test of `quit_`, in
epoll_wait, handling events, running functors. `Functors` is the queue, `batch`
what `doFunctors` has swapped out. `waking[t]` is the loop that thread `t` has
yet to write to: `queueInLoop` pushes under the mutex and calls `wakeup` after
releasing it, so these are two steps. `ThreadPool::start` runs in the main
thread before its loop; `startLoop` waits on the condition variable
(`StartLoopWait`) and `threadFunc` notifies it (`Publish`).

### Buffer

`cells`, `size`, `r` and `w` are the vector and its indices, as in the class;
bytes have two values. The calls are those of a careful caller, since no method
looks at its argument; `last` is what a call was given or handed out, which
`ByteQueue` specifies. `handleWrite`, the one caller that is not careful, is in
`Connection`.

### Connection

`cn[c]` holds the object, its `EpollEvent` and its socket: `events` is what the
code asks for, `statu` what the poller believes, `reg` what the kernel knows. The
cycle of a loop is `Poll`, `HandleEvent` or `Accept` for each active event,
`Swap`, `Run` for each functor; how a loop wakes up is left to `EventLoop`. An
object lives while the server's map or a functor refers to it (`Referred`).
`sendInLoop` and `handleWrite` treat the -1 of a failed write as the code does. A
second write to a peer that was reset raises SIGPIPE, which ends the process.

### Upload and Download

What one side sends to be read as a whole is a unit, and a read returns any
number of units, or part of one (`ReadPart`); bytes whose boundaries are lost
become `Lost`. The header of a file and a block have the same layout (`Rec`), and
that is how a proxy in the wrong phase takes the one for the other. A text
becomes a file name, an MD5 or a length only as far as the programs could tell.
MD5 is injective. `px` holds the proxy's globals; the handlers
(`initFileNumber`, `initFileMD5`, `sendBlock`) are functions of a record that
`Callback` makes and `Commit` puts into the state. A read outside of a vector has
any outcome and may end the process (`wild`).

`order` (in Download `alone`) records whether clients so far came one at a time
and each read was one unit: the properties that hold only then say so. `Testers`
are runs of `test.cc`, an older client that does not name its operation.

In `Download` the threads are `senddownload`, `sendFileName`, `resvBlockFile`;
`Stored` says of each block how often it was appended to its file and whether it
is a full page. The upload next to it goes as far as its header, because that is
what reaches the sockets to the servers.

### Db

Each SQL statement is one action. `DbHelper` follows the order of calls that
`db/main.cpp` shows (in a comment), with any number of programs; a connection may
fail at the start and be lost at any time, and then every later statement of that
program fails. In `DbDemo` and `DbDownload` a statement may also take effect
without its answer; `STATUS` keeps a failure.

### One library, four directories

The reactor library is in `ReactorService` and in each `storageServer/saveFile_*`;
the copies are the same byte for byte (`main.cc` and `Fileproxy.h` differ).
`PROJECT.json` maps a definition to one of them: those of EventLoop mostly to
`saveFile_1` and `saveFile_2`, those of Connection and Buffer to `ReactorService`
and `saveFile_0`. `db/mysql_operation_copy.h` is an older copy of
`mysql_operation.h` and is treated in the same way.

## 3. Runs

| Run | Instance | Shows |
|---|---|---|
| `storage_node` | 2 blocks, 2 requests, kills and power losses | VisibleIsVerified, GetServesItsBlock, ImplementsBlockStore, EveryRequestAnswered |
| `coordinator_names` | either coordinator, 1 name, 2 contents made of the same 2 blocks in another order, 1 node, 2 handlers, 2 ids, crashes; init, put, commit, delete, get | CompleteIsWhole, DownloadIsWhole, ImplementsNamespace, SuccessIsCurrent |
| `coordinator_replicas` | either coordinator, 1 name, 2 nodes, 2 handlers, failing calls, 1 late call; no deletes | UploadedIsStored, EveryRequestAnswered |
| `ts_node` | 2 blocks, 4 files, 2 requests, one file system, process deaths | NamedFilesAreWhole, GetServesWhole, ImplementsBlockStore |
| `ts_node_copy` | 1 block, 4 files, 3 puts and deletes, two file systems, no process deaths | PartialOnlyWhileCopied |
| `event_loop` | main loop, 1 pool loop, 1 other thread, 2 functors | NoSleepOverWork, RunInOrder, EveryFunctorRuns |
| `buffer` | vector of 2 + 2 bytes, calls of up to 2 bytes, 3 left unread | GrowthIsBounded, ImplementsQueue |
| `connection` | 2 connections, base loop and 0 or 1 pool loop, 1 or 2 descriptors, 2 messages of 2 bytes, room for 1 byte in the kernel | EventsAreAlive, UpThenDown, MessagesArriveWhole, ClosedIsReleased, WaitsForPeersOnly |
| `upload` | 2 clients, one mortal, 4 files (see below), server 0 and one of its fellows | AcceptedWasForwarded, SkippedWasAccepted, SuccessMeansAccepted, StoredIsForwarded, UploadEnds |
| `download` | 1 download, 1 upload of either name, 3 blocks, 2 of them saved twice | DeliveredIsVerified, OneThreadAppends, DeliversOnlyOvertaken, DownloadReadsAll |
| `db` | 2 programs with 2 rounds over 2 files, or an upload of 3 blocks, or 2 downloads with 2 rounds | RowHasTable, CompleteIsMarked, CompleteReadsBack, DemoComplete, RequestsAreCounted |

`storage_node` and `coordinator_replicas` check TypeOK as well. And,
refuting what the repository says of the program (section 5):
`delete_shared_block`.

### Bounds, and why they are enough

* *Two requests at a time* (three in `ts_node_copy`). The properties relate one
  handler to one other that overtakes it; a slot is reused, so behaviours have
  any number of requests. Three are needed where two copies and a delete meet.
* *Two contents of the same blocks*, same size: neither a length nor a single
  block tells them apart, so a mixed-up download is visible only if the order of
  its blocks is wrong. `MaxFid = 2`: the name is registered, removed and
  registered again; the third registration is refused (CannotCreate, which the
  code has too when AUTOINCREMENT ends), later uploads repeat the first two.
* *Two nodes, two replicas* for storage: one that accepts and one that does not.
  `MaxLate = 1`: one call acts late; puts only ever add.
* *Four files* in the TypeScript node: one at a path, one per writer, one that
  only a reader has open.
* *Two functors*: one that runs queues the other, from its own thread, another
  loop or outside. Three functors give the same results in five minutes.
* *Buffer*: room for two bytes behind two of header: every call of one or two
  bytes fits, or moves the bytes, or grows the vector, and three unread bytes
  make each of them happen in any order.
* *Two connections*: one that ends while the other waits for its descriptor. A
  message is larger than the send buffer, so each is written in two pieces; the
  second one meets output that is pending.
* *Upload*: two clients, so that one finds the other's record, phase or half of
  an upload, and a client that is killed is followed by one that resumes. A file
  of two blocks that go to different servers, a changed copy of it under the same
  name, one whose size is a multiple of the block size (its last block is
  empty), and an empty file. Servers 1 and 2 run the same program, one of them is
  enough; in `download` all three, since the three threads share a buffer.
* *Download*: a block once in its file, one appended twice and larger than a
  frame holds, one appended twice and small. A second download would share the
  sockets of the first, and is excluded (section 7).
* *Db*: a file whose blocks differ and one whose blocks are equal (the MD5 is the
  key of the table); two rounds, so that a program finds what it or another left.

`ts_node_copy` uses symmetry of its slots (a safety property only).

### Fairness

* Go storage node and coordinator: weak fairness of each handler's steps. The
  runtime schedules every goroutine; the coordinator's storage client gives a
  call up after 60 s, `dssctl` a request after 10 minutes, which ends every
  read of a body. Nothing is assumed of arrivals, crashes, late calls, or of
  which outcome a step has. The same for the TypeScript coordinator: Node runs every
  handler whose await is over, and fetches and bodies end by the timeouts of Node.
* Event loop: weak fairness of each thread. A loop that sleeps in epoll_wait is
  assumed to go on only if its eventfd is readable: `EveryFunctorRuns` holds
  without help of the 10 s timeout or of other sockets.

* Connections: weak fairness of each loop. Nothing is assumed of the peers:
  `WaitsForPeersOnly` says that a peer is kept out only by peers that hold all
  descriptors.

`UploadEnds` and `DownloadReadsAll` are liveness stated as safety: in a state in
which nothing is left to read, who still waits, waits for a reason that is named.
They need no fairness.

Deadlock is checked for the storage nodes, the coordinator and the buffer. Event
loops may all have quit or wait for events that never come; connections, clients
and programs are limited in number, and their systems come to rest.

## 4. Proofs

All results hold for any number of blocks, names, contents, nodes, requests,
loops, threads, functors, bytes, servers, programs and files.

| Theorem | In | Says |
|---|---|---|
| TypeCorrect, LoopTypes | `StorageNodeProofs`, `CoordinatorProofs`, `ReactorProofs` | types |
| OnlyVerifiedBlocks | `StorageNodeProofs` | VisibleIsVerified |
| GetsAreRight | `StorageNodeProofs` | GetServesItsBlock |
| Implements | `StorageNodeProofs` | ImplementsBlockStore |
| CompleteFilesAreWhole | `CoordinatorProofs` | CompleteIsWhole |
| DownloadsAreWhole | `CoordinatorProofs` | DownloadIsWhole |
| UploadsAreStored | `CoordinatorProofs` | UploadedIsStored |
| Implements | `CoordinatorProofs` | ImplementsNamespace |
| CompleteInEither, EitherImplements | `CoordinatorProofs` | CompleteIsWhole, ImplementsNamespace, with either coordinator |
| AnswersAreCurrent | `CoordinatorProofs` | SuccessIsCurrent, of the TypeScript coordinator |
| TypeCorrect, FilesAreWhole, GetsAreWhole, Implements | `StorageNodeTSProofs` | types; on one file system NamedFilesAreWhole, GetServesWhole, ImplementsBlockStore |
| PartialFilesAreCopied | `StorageNodeTSProofs` | PartialOnlyWhileCopied, across file systems |
| NoLoopSleepsOverWork | `ReactorProofs` | NoSleepOverWork |
| FunctorsRunInOrder | `ReactorProofs` | RunInOrder |
| FilesStayInOrder, ServerStaysInOrder, LoopsAreInOrder | `StorageNodeProofs`, `CoordinatorProofs`, `ReactorProofs` | the inductive invariants FilesInOrder, ServerInOrder, LoopsInOrder |
| BufferIndices | `ReactorProofs` | IndicesInOrder |
| BufferGrowth | `ReactorProofs` | GrowthIsBounded |
| BufferIsQueue | `ReactorProofs` | ImplementsQueue |
| ConnectionsStayInOrder | `ConnectionProofs` | the inductive invariant ConnectionsInOrder |
| PollersKnowTheLiving | `ConnectionProofs` | EventsAreAlive |
| UsersHearTheEnd | `ConnectionProofs` | UpThenDown |
| MessagesComeWhole | `ConnectionProofs` | MessagesArriveWhole |
| DownloadsAreOrdered | `DownloadProofs` | the inductive invariants Inv and DInv |
| BlocHasOneUser | `DownloadProofs` | OneThreadAppends |
| PassedOnIsVerified | `DownloadProofs` | DeliveredIsVerified |
| DeliveryIsOvertaken | `DownloadProofs` | DeliversOnlyOvertaken |
| LoneDownloadReadsAll | `DownloadProofs` | DownloadReadsAll |
| UploadsStayInOrder, LoneUploadInOrder, UploadStages | `UploadProofs` | the inductive invariants UploadInOrder and, one client at a time, LoneInOrder, with one unit in each read Stages |
| AcceptedIsForwarded | `UploadProofs` | AcceptedWasForwarded |
| SkippedIsAccepted | `UploadProofs` | SkippedWasAccepted |
| StoredWasForwarded | `UploadProofs` | StoredIsForwarded |
| SuccessIsComplete | `UploadProofs` | SuccessMeansAccepted |
| UploadsEnd | `UploadProofs` | UploadEnds |
| DemoIsComplete | `DbProofs` | DemoComplete |
| RowsHaveTables | `DbProofs` | RowHasTable |
| HelpersStayInOrder | `DbProofs` | the inductive invariant of `DbHelper` |
| CompleteFilesAreMarked, CompleteFilesReadBack | `DbProofs` | CompleteIsMarked, CompleteReadsBack |
| DownloadsAreCounted | `DbProofs` | RequestsAreCounted |

*Storage node.* That a visible file is the right one is not inductive: rename
publishes whatever is in the temporary file. `FilesInOrder` adds what each step
of a put leaves for the next (after copy the body, after sync a synced body,
after verify the block itself), that named files are synced, which is what
makes a power loss harmless, and that a request is where its method can be.

*Coordinator.* That a complete file is whole is not inductive, because commit
counts in one statement and updates in another. `CommitInOrder` says that
nothing is missing of the id counted; it survives every step of others because
ids are never used twice (`FilesRead`: every id a handler holds is below
`nextId`) and block rows are only ever marked. `DbInOrder` relates the tables:
ids of live files are distinct and below `nextId`, rows exist for live files
only. `HandlerInOrder` says that what a step uses has been read. The step of the
handler (its local record) and the step of the tables are proved apart and
joined in `HandlersKept`.

*Downloads.* `GetsInOrder`: the rows under the id that a handler has read are those
of a manifest with the sha and the size it read, or gone, since an id is never
given to another file. So what a get has sent, followed by the rows it has left,
is always one manifest's list of blocks. It may end early (the file is deleted, or
no node has the block), but then the bytes sent are not the length declared.

*Uploads.* `PutsInOrder`, for runs without deletes: the row a put works on is
still the row of its file, only marked by others at most; the nodes that took the
block (`took`) are among its replicas and have it; a call that comes late is a
put, so stores only grow. Then MarkUploaded tells the truth whenever it runs.

*TypeScript coordinator.* Some of its steps are steps of the Go coordinator
(`SharedIsStep`); its own do one of four statements to the tables, and leave the
handler as `HandlerInOrder` wants it, so that the invariant and the refinement of
the Go coordinator hold of it. For its answers, `PutsAreCurrent`: while a put
awaits its body and its replicas, the id it has read is its name's or no file's,
and the row has the hash it has read, because no step gives an id in use to
another name or another block to its rows (`IdsKept`). So MarkUploaded, which
fails when the row is gone, marks the row that the answer speaks of.

*TypeScript node.* On one file system nothing is copied, so that a file is empty only
while the put that made it has not written it, and that file is not at a path yet.
Across file systems the file that a path shows is shown by no other path, and a file
that is partial is the one that the last put to truncate it is still copying: a
second copy that finds it truncates it again and takes it over, a delete takes it
from its path. This is for a process that does not die; a death leaves what it
leaves (section 5).

*Refinements.* Each step of `StorageNode` is shown to be a step of `BlockStore`
or a stutter. The instant at which a put takes effect is its rename, or its stat
when the block is there already, although it answers later and a delete may come
in between. The map of `Coordinator` shows one upload per name, with the list of
blocks, the indices uploaded and whether it is complete.

*Event loop.* `NoSleepOverWork` speaks of a sleeping loop only and is not
inductive. `LoopInOrder` says why: outside of event handling a queued functor is
always announced, by the eventfd or by a thread on its way to write to it. Only
in the window between the reset of the eventfd and the swap of the queue may it
be silent, and then the swap is still to come; a functor that queues another
finds `callFunctors_` set. `RunInOrder` needs the batch to be empty when the
queue is swapped out.

*Buffer.* One lemma per method says what it does to the readable bytes, the
indices and the size (`AppendAdds`, `ReadFdAdds`, `PrependAdds`, `RetrieveTakes`;
`SpaceIsMade` for both branches of makeSpace). They give the step of `ByteQueue`
that each call is, and the growth: makeSpace grows the vector only when what is
to be read and what is added need more than half of it.

*Connections.* None of the three properties is inductive: each depends on what is
still queued for a connection. `ConnectionsInOrder` gives every connection a stage
of its life, by its state, whether the server's map has it and what the poller
knows of it (`InStage`), says which functor its loop must still run for it
(`Needed`), and that what all the loops have queued, in batch and queue together, is
that and nothing else, one functor to a connection (`TasksWait`). So a functor that
runs finds its connection in the stage it expects, and an event that a loop has
still to handle is of a connection of its own that is connected and known to epoll
(`EventsFit`). `Flows` is about the bytes: what the peer has received, what is on the
wire and what is in the output buffer form one stream of messages, and it ends with
the last byte of one, as long as the peer has not reset the connection; what it
received stays whole after that. The -1 of a failed write, with which `handleWrite`
goes back to a byte already sent, is met by a connection that was reset only: an
event to write to a peer that listens comes with room in the kernel.

*Download.* Servers 1 and 2 never send: they wait for text where the word of the
download arrives (`Deaf`). So their threads never leave the status in which they
wait for an answer, and only thread 0 appends. For server 0 the first word that
reaches it decides: after the word of an upload it never answers, after that of the
download it answers the word first and sends frames of its blocks then (`Listed`). A
name is in the proxy's map only after the word of an upload was on its way to server
0 (`Asked`), which is why something is delivered only to a download whose word was
there before. For a download that is alone, `AInv` follows the client's word and
name through socket, buffer and handler: at each stage what is not done is still to
be read. What a read makes of a handler is a fold over the units (below).

*Upload.* Clients overlap in one phase and one file name, so little can be said of
what a callback means; what it does to the records can. They only grow (`Grown`): a
name stays, its number of blocks too, ids are added, and the MD5s are set while no
id is there, which holds because phase 2 is entered with a new record and left by
the step that sets them (`Phased`; a connection in between resets the phase). So an
accepted block keeps the MD5 it was compared with (`Accepted`), and what a client was
told stays true. That the ids a client is told are those of its own file is a claim about
the header only: `SkippedWasAccepted` fails once a block was taken for a header, since
then the name recorded is a page's; hence its condition, that no page is a name. For
the servers `Stored` adds up, for each page, the copies saved, in the buffer and on the
way: a read moves them, a read that loses the boundaries drops them, and only
`sendBlock` adds one, together with the one in `forwarded`.
One client at a time, `LoneInOrder` says what the phase tells of the connection: in
phase 1 nothing was answered and no block is on its way, in 2 and 3 the file name is
the client's, and "success" among the answers means that the record is complete.
A client that was killed counts as connected until what it sent is read.
When each read takes one unit, an upload goes through `Stages`: the operation and
the header are on their way, or the header was answered, or the MD5s and all blocks are
on their way, or among what is on its way is every block that is not accepted and
would be (`Missing`), or "success" is. In the one before the last the record is not
complete, so with nothing left to read a block of the file has other content than the record says; an
upload rests in no other stage but those that `UploadEnds` names.

*Db.* In `db_operation.cpp` a program that ended half-way leaves any rows, so the
invariant is about the running one: while STATUS is zero the statements it passed
took effect (`Passed`), and "complete" is reached only with a table in which every
block has a row that is not 0. For `DBhelper`: a program that is past the table of
its file and still connected has the table, and tables are never dropped; a table has
rows of its file's blocks only and one row to an MD5 (`GoodTables`); where a program
is in its calls says which rows are there and which are marked (`Stage`), and this
only grows under the steps of others (`Grow`). One name has one row in `files` unless
two programs raced for it. For the downloads: the number of requests is the
number of players that have counted theirs (a cardinality), and while its STATUS is
zero a lone player finds awaited exactly the blocks it has not come to (`Awaits`).

*Induction over data.* The induction theorems of the library cannot be used, but an
invariant of a fold over a sequence can be proved: the fold is a function of the
number of elements consumed, and the least number at which the invariant failed,
which exists since the naturals are well founded, contradicts the step. That is the
argument of `DownloadProofs` for whatever a read, of any number of units, makes of a
handler. `UploadProofs` has it once (`IsFold`, `AllPasses`: an invariant that depends
on the number of passes) for its four loops (`LoopOfHeaders`, `LoopOfBlocks`,
`LoopOfSaves`, `LoopOfSends`). What an arbitrary recursive definition computes is
not proved anywhere.

*Assumptions on constants.* StorageNode: Junk and Absent are no blocks.
MetaStore and Coordinator: manifests are well typed and a content has one size;
blocks are not empty, so only the whole list has the file's size; every node
appears in a ranking, `replicas` is between 1 and the number of nodes. EventLoop:
main loop, pool and other threads are distinct. TLC evaluates them in each run.

Buffer, Download and Db: sizes are naturals, the zero byte is a byte; one
download, finitely many clients, players and blocks on the server; a file has at
least one block. Upload: files and their names are not pages, files of one name have
the same number of blocks, a size fits the pages of its file. Connection: a message and the room in the kernel are not empty, a
pool is a list of loops other than the base loop (`ThreadPool` starts a thread for
each).

*Only model-checked.* Liveness (EveryRequestAnswered, EveryFunctorRuns,
ClosedIsReleased, WaitsForPeersOnly), which needs fairness and is out of the
prover's reach; DownloadIsWhole and UploadedIsStored of the TypeScript coordinator
(proved of the Go one, and checked of both).

## 5. Where the documents and the code differ

`delete_shared_block`: blocks are deduplicated by content, and delete removes the
blocks of a file without asking whether another file has them.

Seen while modelling, in the models, without a run of their own:

* init answers from a row it reads again by name after its transaction
  (metastore.go:141); it may be another content's by then.
* commit of a file that was deleted after GetFile answers OK: the COUNT finds no
  pending rows and the UPDATE no row (metastore.go:261). Neither happens in the
  TypeScript coordinator (`SuccessIsCurrent`).
* a single-block download whose candidates all fail is an empty 200 in Go
  (server.go:335) and a 502 in TypeScript.
* delete ignores storage calls that fail; their blocks stay without a row.
* a crash in the middle of delete leaves a complete file without its blocks.
* `go/TESTREPORT.md:78` has any 2 of 3 nodes off line; one accepted copy makes a
  block "uploaded" and nothing adds the others (coordinator/server.go:284).
* the TypeScript node's "atomic temp+rename" (`ts/README.md:21`) becomes a copy in
  place when the temporary directory is on another file system, as in the
  repository's docker-compose.yml; after a crash a part of the block stays under
  its name. A pipe whose reader is gone may keep its file open (server.ts:155).
* a delete between the stat and the open of a GET ends the TypeScript node, where
  `ts/REQUIREMENTS.md:102` has a 404.
* `LoopThread::startLoop` waits without a predicate: if the new thread notifies
  first, TcpServer::start never returns.
* `TcpConnection::sendInLoop` drops a message when the socket is full
  (TcpConnection.cc:57), `handleWrite` goes back to a byte already sent (:109).
* Servers 1 and 2 have no phases: the first `upppload` that the proxy sends them is
  a length to them, and they store nothing from then on. Server 0 stores nothing
  either when the word comes twice, which is whenever a header comes in two reads
  or a second file is uploaded.
* A file whose size is a multiple of 1 MiB is sent without its last MiB: the last
  block has the size 0 (File.h:60). A file of no bytes is never answered, unless
  its name is known.
* An upload that is resumed before any block was accepted is never answered: the
  list of ids is empty and an empty string is not sent.
* A header whose text is shorter than 32 bytes ends the proxy (`substr`,
  upLoad.h:68).
* A download sends only blocks of a name that the proxy has in its map, and an
  upload of that name takes server 0 out of reach of it: nothing comes of a
  download of a file that was uploaded before (`DeliversOnlyOvertaken`). The client
  writes the length in front of each block into its file, too, and does not
  truncate a file that is there.
* `check_upload_status` is true for a table without rows, which main.cpp calls
  "upload successful" when it asks before the inserts. The MD5 is the key: of equal
  blocks only the first has a row. `get_block_md5` and `get_block_num` use the
  first row of a result that may have none. `get_block_id_string` leaves out the
  last colon, without which `File::updateuploadId` of the client does not read the
  last id.
* `Fileproxy.h` of the proxy uses members that are commented out (lines 136, 137)
  and does not compile as it is; the models take the functions as they are called.

## 6. Plan

Done: the modules of section 2 and the theorems of section 4. What would come next:

1. `Client`: the puts and gets of `dssctl` composed with the coordinator:
   resuming, repeating, and that a put which is repeated completes once nodes
   answer.
2. Chunker and rendezvous hashing as functions against reference definitions.
3. Proofs: DownloadIsWhole and UploadedIsStored with the TypeScript coordinator.

## 7. Not modelled

* Listing files: reads one table and changes nothing.
* Power losses of the coordinator (`synchronous = NORMAL` may undo its last
  transactions) and of the TypeScript node, which syncs nothing.
* Configurations that change between runs of the coordinator: nodes and
  replicas are constants.
* Wording of responses, logging, flags, JSON.
* The control flow of `dssctl` and of the TypeScript client (section 6).
* A second download: its threads would read from the sockets of the first, each
  any part of any message, and change its status; nothing is left to state.
* Data races inside of a handler of the proxy, when it runs with a pool of
  threads: handlers are atomic. `send` to a connection from another thread, which
  binds a bare pointer.
* `shutdownInLoop` (nothing sets kDisconnecting), the destructor of LoopThread,
  socket options, addresses.
* Code that nothing calls: `db_rm_row`, `db_rm_table`, the client's
  downLoad.h up to line 94, the storage servers' copies of Fileproxy.h.
* Failures of the file system of the C++ storage servers.
* What the database does between two statements (its own recovery): a statement is
  a transaction.
* The scripts, reports, object files and binaries.

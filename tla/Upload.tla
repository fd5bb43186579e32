------------------------------- MODULE Upload -------------------------------
(***************************************************************************)
(* The C++ upload: clients (ClientSystem), the proxy (ReactorService/src,  *)
(* Fileproxy) and the storage servers (storageServer/saveFile_0, _1, _2).  *)
(*                                                                         *)
(* Bytes travel as units: what one side sends to be read as a whole.       *)
(*   op           "upppload"                                               *)
(*   rec          two numbers and a text: the header of a file (length,    *)
(*                number of blocks, name and MD5) and a block (size, id,   *)
(*                content) have the same layout, which is how a proxy in   *)
(*                the wrong phase takes the one for the other              *)
(*   md5s         the MD5s of the blocks of a file                         *)
(*   name, block  of the proxy to a server: a name, an MD5 with a content  *)
(* A read returns any number of units, or a part of one.                   *)
(*                                                                         *)
(* A reader that lost the boundaries takes text for a length.  Pages are   *)
(* text of at least 32 bytes: such a length is larger than all that        *)
(* follows, the reader waits for ever.                                     *)
(***************************************************************************)
EXTENDS Integers, Sequences, SequencesExt, FiniteSets

CONSTANTS Clients, \* runs of the client program
          Mortal,  \* bound: those that may be killed
          Testers, \* bound: those that may be the program of test.cc
          Choice,  \* Choice[c]: the files of which c uploads one
          Files,   \* all of them
          FileName, FileSize, \* of a file
          Content, \* Content[f]: its pages of PAGE_SIZE bytes, the last one may be shorter
          PAGE_SIZE,
          Pages,   \* contents of blocks
          Empty,   \* the one of no bytes
          Servers, \* 0, 1, 2; the last two are copies
          Server   \* Server[p]: convertMD5toInt of the MD5 of page p, modulo 3

(* Files of one name may differ (the proxy asks for the name alone), here   *)
(* not in their number of blocks.                                           *)
ASSUME UploadAssumption ==
  /\ PAGE_SIZE \in Nat \ {0} /\ Empty \in Pages
  /\ \A f \in Files : /\ FileSize[f] \in Nat
                        /\ Content[f] \in Seq(Pages \ {Empty})
                        /\ (Len(Content[f]) - 1) * PAGE_SIZE < FileSize[f]
                        /\ FileSize[f] <= Len(Content[f]) * PAGE_SIZE
                        /\ f \notin Pages /\ FileName[f] \notin Pages
  /\ \A f, g \in Files :
       FileName[f] = FileName[g] => Len(Content[f]) = Len(Content[g])
  /\ \A p \in Pages : Server[p] \in Servers
  /\ \A c \in Clients : Choice[c] \in (SUBSET Files) \ {{}}

VARIABLES cl,        \* cl[c]: client c
          wire,      \* wire[c]: sent by the client, not read by the proxy
          back,      \* back[c]: sent by the proxy, not read by the client
          px,        \* the proxy's globals, and whether it runs
          buf,       \* buf[c]: the input buffer of the connection of c
          FileMap,   \* g_File
          srv,       \* srv[s]: storage server s
          forwarded, \* the blocks the proxy sent to the servers, in order
          order      \* so far: one client at a time and one unit in each read
                     \* (smooth), one client at a time (alone), or neither

vars == <<cl, wire, back, px, buf, FileMap, srv, forwarded, order>>

-----------------------------------------------------------------------------
(* A file cut into blocks by the client.  The last block has the rest of    *)
(* the size: no byte when the size is a multiple of PAGE_SIZE, and mmap of  *)
(* no byte gives no byte.                                                   *)
blockNum(f) == FileSize[f] \div PAGE_SIZE + (IF FileSize[f] % PAGE_SIZE = 0 THEN 0 ELSE 1)

getBlockSize(f, i) == IF i # blockNum(f) - 1 THEN PAGE_SIZE ELSE FileSize[f] % PAGE_SIZE

BlockFile(f, i) == IF getBlockSize(f, i) = 0 THEN Empty ELSE Content[f][i + 1]

\* MD5s of the client, of the proxy and of the servers, each with a function of
\* its own; different texts have different ones.
getMD5(text)       == [md5 |-> text]
getstringMD5(text) == [md5 |-> text]
ServerMD5(text)    == [md5 |-> text]

Op == [u |-> "op"]
Rec(num, text) == [u |-> "rec", num |-> num, text |-> text]
Header(f)  == Rec(blockNum(f), f)
\* Of a file without blocks, nothing.
Md5s(f)    == IF blockNum(f) = 0 THEN <<>>
              ELSE <<[u |-> "md5s", md5s |-> [i \in 1 .. blockNum(f) |-> getMD5(BlockFile(f, i - 1))]]>>
Up         == [u |-> "up"]
Name       == [u |-> "name"]
Block(p)   == [u |-> "block", md5 |-> getstringMD5(p), page |-> p]
Lost       == [u |-> "lost"]     \* bytes whose boundaries were lost

\* getFileName of a header; of a page, some name that no file has.
getFileName(text) == IF text \in Files THEN FileName[text] ELSE text

-----------------------------------------------------------------------------
(* FileValue: blockNum_, BlockFileMD5_, uploadId_ as a set; and the map of   *)
(* names to them.                                                            *)
NoMd5    == [none |-> "md5"]
WrongMd5 == [wrong |-> "md5"]
FileValue(n) == [blockNum |-> n, md5 |-> [i \in 0 .. n - 1 |-> NoMd5], uploadId |-> {}]

lsFileFinish(v) == \A i \in 0 .. v.blockNum - 1 : i \in v.uploadId

setuploadId(v, id) == [v EXCEPT !.uploadId = @ \cup {id}]

getBlockFileMD5(v, id) == v.md5[id]

setBlockFileMD5(v, md5) == [v EXCEPT !.md5 = [i \in DOMAIN v.md5 |-> md5[i + 1]]]

lsFile(map, name) == name \in DOMAIN map

getFileNum(map, name) == map[name].blockNum

addFile(map, name, n) == [g \in DOMAIN map \cup {name} |-> IF g = name THEN FileValue(n) ELSE map[g]]

-----------------------------------------------------------------------------
(* A callback of the proxy works on h: its globals and g_File, the input     *)
(* buffer, its answers, what it sends to the servers (in), the blocks among  *)
(* it, whether its loop ended (end), and whether it read outside of a vector *)
(* (wild).                                                                   *)
Callback(c) == [px |-> px, map |-> FileMap, buf |-> buf[c], back |-> back[c],
                in |-> [s \in Servers |-> srv[s].in], forwarded |-> forwarded,
                end |-> FALSE, wild |-> FALSE]

Phase(h, n) == [h EXCEPT !.px.upStatu = n]

Answer(h, r) == [h EXCEPT !.back = Append(@, r)]
ACK     == [r |-> "ACK"]
Success == [r |-> "success"]

\* Mistaken: the ids that are missing.
IdsMissing(v) == [r |-> "ids", ids |-> (0 .. v.blockNum - 1) \ v.uploadId]

\* getuploadId
Ids(v)  == [r |-> "ids", ids |-> v.uploadId]

tell(in, u) == [s \in Servers |-> Append(in[s], u)]

\* Mistaken: every server is sent every block.
sendToAll(in, p) == tell(in, Block(p))

\* A block goes to the server of its MD5.
sendTo(in, p) == [in EXCEPT ![Server[p]] = Append(@, Block(p))]

\* switchOperate reads 8 bytes whatever they are, and whether there are 8.
switchOperate(h) ==
  IF Head(h.buf) = Op THEN [h EXCEPT !.px.Operate = "up", !.buf = Tail(@)]
  ELSE [h EXCEPT !.buf = <<Lost>>, !.wild = TRUE]

\* Mistaken: a file that is known counts as complete.
initFileNumberKnown(h, u) ==
  LET told == [h EXCEPT !.in = tell(@, Up)]
      name == getFileName(u.text)
      read == [told EXCEPT !.buf = Tail(@), !.px.g_FileName = name] IN
  IF h.end THEN h
  ELSE IF u.u # "rec" THEN [told EXCEPT !.end = TRUE]
  ELSE IF ~lsFile(h.map, name)
  THEN IF u.text = Empty THEN [told EXCEPT !.end = TRUE, !.px.alive = FALSE]
       ELSE Phase(Answer([read EXCEPT !.map = addFile(h.map, name, u.num), !.in = tell(@, Name)], ACK), 2)
  ELSE Phase(Answer(read, Success), 3)

\* One pass of the loop of initFileNumber over the unit u.  An empty string
\* of ids is not sent at all.  The MD5 at the end of a new text of less than
\* 32 bytes throws, and the process ends.
initFileNumberStep(h, u) ==
  LET told == [h EXCEPT !.in = tell(@, Up)]
      name == getFileName(u.text)
      read == [told EXCEPT !.buf = Tail(@), !.px.g_FileName = name] IN
  IF h.end THEN h
  ELSE IF u.u # "rec" THEN [told EXCEPT !.end = TRUE]
  ELSE IF ~lsFile(h.map, name)
  THEN IF u.text = Empty THEN [told EXCEPT !.end = TRUE, !.px.alive = FALSE]
       ELSE Phase(Answer([read EXCEPT !.map = addFile(h.map, name, u.num), !.in = tell(@, Name)], ACK), 2)
  ELSE IF lsFileFinish(h.map[name]) THEN Phase(Answer(read, Success), 3)
  ELSE Phase(IF h.map[name].uploadId = {} THEN read ELSE Answer(read, Ids(h.map[name])), 3)

initFileNumber(h) == FoldLeft(initFileNumberStep, h, h.buf)

\* initFileMD5 takes 32 bytes for each block, whatever they are, when there
\* are as many; what is left of other units than the MD5s is lost.
initFileMD5(h) ==
  LET g == h.px.g_FileName
      n == getFileNum(h.map, g)
      u == Head(h.buf)
      set(md5, rest) == Phase([h EXCEPT !.map[g] = setBlockFileMD5(@, md5), !.buf = rest], 3) IN
  IF n = 0 THEN {Phase(h, 3)}
  ELSE IF u.u = "md5s" /\ Len(u.md5s) = n THEN {set(u.md5s, Tail(h.buf))}
  ELSE {h, set([i \in 1 .. n |-> WrongMd5], <<Lost>>)}

\* Mistaken: marks the block before it compares the MD5.
sendBlockMarks(h, u) ==
  LET g == h.px.g_FileName
      read == [h EXCEPT !.buf = Tail(@)]
      taken == IF u.num \in 0 .. h.map[g].blockNum - 1
               THEN [read EXCEPT !.map[g] = setuploadId(@, u.num),
                       !.forwarded = IF getstringMD5(u.text) = getBlockFileMD5(h.map[g], u.num)
                                     THEN Append(@, u.text) ELSE @]
               ELSE [read EXCEPT !.wild = TRUE] IN
  IF h.end \/ u.u # "rec" THEN [h EXCEPT !.end = TRUE]
  ELSE IF lsFileFinish(taken.map[g])
  THEN [Phase(Answer(taken, Success), 4) EXCEPT !.px.g_FileName = "", !.end = TRUE]
  ELSE taken

\* One pass of the loop of sendBlock.  The MD5 is looked up by the id of the
\* block, which is not compared with the number of blocks.
sendBlockStep(h, u) ==
  LET g == h.px.g_FileName
      read == [h EXCEPT !.buf = Tail(@)]
      id == u.num
      known == id \in 0 .. h.map[g].blockNum - 1
      taken == IF known /\ getstringMD5(u.text) = getBlockFileMD5(h.map[g], id)
               THEN [read EXCEPT !.map[g] = setuploadId(@, id), !.in = sendTo(@, u.text),
                                 !.forwarded = Append(@, u.text)]
               ELSE [read EXCEPT !.wild = @ \/ ~known] IN
  IF h.end \/ u.u # "rec" THEN [h EXCEPT !.end = TRUE]
  ELSE IF lsFileFinish(taken.map[g])
  THEN [Phase(Answer(taken, Success), 4) EXCEPT !.px.g_FileName = "", !.end = TRUE]
  ELSE taken

sendBlock(h) == FoldLeft(sendBlockStep, h, h.buf)

\* onMessage, upLoadFile: one phase for each call, what the buffer still
\* holds waits for the next read.
onMessage(h) ==
  IF h.px.Operate = "sw" THEN {switchOperate(h)}
  ELSE CASE h.px.upStatu = 1 -> {initFileNumber(h)}
         [] h.px.upStatu = 2 -> initFileMD5(h)
         [] h.px.upStatu = 3 -> {sendBlock(h)}
         [] h.px.upStatu = 4 -> {h}

-----------------------------------------------------------------------------
Running == px.alive

\* order after a read of k units.
Reads(k) == IF order = "smooth" /\ k > 1 THEN "alone" ELSE order

\* What a callback did becomes the state; a wild read may end the process.
Commit(c, h) ==
  /\ \E ends \in IF h.wild THEN BOOLEAN ELSE {FALSE} : px' = [h.px EXCEPT !.alive = @ /\ ~ends]
  /\ FileMap' = h.map
  /\ buf' = [buf EXCEPT ![c] = h.buf]
  /\ back' = [back EXCEPT ![c] = h.back]
  /\ forwarded' = h.forwarded
  /\ srv' = [s \in Servers |->
       IF srv[s].phase = "lost" THEN srv[s] ELSE [srv[s] EXCEPT !.in = h.in[s]]]

\* TcpConnection::handleRead: the next k units.
Read(c) ==
  /\ cl[c].open
  /\ \E k \in 1 .. Len(wire[c]) :
       /\ wire' = [wire EXCEPT ![c] = SubSeq(@, k + 1, Len(@))]
       /\ \E h \in onMessage([Callback(c) EXCEPT !.buf = @ \o SubSeq(wire[c], 1, k)]) : Commit(c, h)
       /\ order' = Reads(k)
  /\ UNCHANGED cl

\* A part of the next record, once: initFileNumber tells the servers before
\* it looks whether the header is complete.  (Other phases wait for the rest.)
ReadPart(c) ==
  /\ cl[c].open /\ ~cl[c].part
  /\ buf[c] = <<>> /\ wire[c] # <<>> /\ Head(wire[c]).u = "rec"
  /\ px.Operate = "up" /\ px.upStatu = 1
  /\ Commit(c, [Callback(c) EXCEPT !.in = tell(@, Up)])
  /\ cl' = [cl EXCEPT ![c].part = TRUE]
  /\ order' = Reads(2)
  /\ UNCHANGED wire

\* onConnection of a connection that is down: the buffer goes with it.
Down(c) ==
  /\ cl[c].open /\ cl[c].st \in {"done", "killed"} /\ wire[c] = <<>>
  /\ cl' = [cl EXCEPT ![c].open = FALSE, ![c].part = FALSE]
  /\ buf' = [buf EXCEPT ![c] = <<>>]
  /\ back' = [back EXCEPT ![c] = <<>>]
  /\ UNCHANGED <<wire, px, FileMap, srv, forwarded, order>>

-----------------------------------------------------------------------------
(* The client: main, upLoadFile.                                            *)
Fresh == [st |-> "idle", test |-> FALSE, file |-> CHOOSE f \in Files : TRUE, uploadId |-> {},
          open |-> FALSE, part |-> FALSE]

ClientStep(c, x, sent) ==
  /\ cl' = [cl EXCEPT ![c] = x]
  /\ wire' = [wire EXCEPT ![c] = @ \o sent]

\* Connects; the proxy accepts in the same step.
mySocket1(x) == [x EXCEPT !.open = TRUE]

\* A connection resets the phase that all connections share.
onConnection(globals) == [globals EXCEPT !.Operate = "sw", !.upStatu = 1]

\* The program of test.cc, from before there were two operations, is the
\* same but for the operation, which it does not name.
Asks(f, test) == IF test THEN <<Header(f)>> ELSE <<Op, Header(f)>>

\* A client is started on one of its files.
Start(c) ==
  /\ cl[c].st = "idle"
  /\ \E f \in Choice[c], test \in {FALSE} \cup {t \in {TRUE} : c \in Testers} :
       ClientStep(c, [mySocket1(cl[c]) EXCEPT !.st = "asks", !.file = f, !.test = test], Asks(f, test))
  /\ px' = onConnection(px)
  /\ order' = IF \E d \in Clients : cl[d].open THEN "overlapped" ELSE order
  /\ UNCHANGED <<back, buf, FileMap, srv, forwarded>>

\* Block i, unless it is marked uploaded, after what was sent before.
sendBlockFile(x, sent, i) ==
  IF i \in x.uploadId THEN sent ELSE Append(sent, Rec(i, BlockFile(x.file, i)))

\* Mistaken: leaves out the first block.
sendFileBlockFrom1(x) ==
  FoldLeft(LAMBDA sent, i : sendBlockFile(x, sent, i), <<>>, [j \in 1 .. blockNum(x.file) - 1 |-> j])

sendFileBlock(x) ==
  FoldLeft(LAMBDA sent, i : sendBlockFile(x, sent, i), <<>>, [j \in 1 .. blockNum(x.file) |-> j - 1])

updateuploadId(x, r) == IF r.r = "ids" THEN [x EXCEPT !.uploadId = @ \cup r.ids] ELSE x

\* What a client sends when it was not told "success": a string without ids
\* is taken for the ACK the first time.
Sends(x, r) ==
  (IF x.st = "asks" /\ r = ACK THEN Md5s(x.file) ELSE <<>>) \o sendFileBlock(updateuploadId(x, r))

\* The answer to the header, and the later ones.
Receive(c) ==
  LET r == Head(back[c]) IN
  /\ cl[c].st \in {"asks", "sent"} /\ back[c] # <<>>
  /\ back' = [back EXCEPT ![c] = Tail(@)]
  /\ IF r = Success THEN ClientStep(c, [cl[c] EXCEPT !.st = "done"], <<>>)
     ELSE ClientStep(c, [updateuploadId(cl[c], r) EXCEPT !.st = "sent"], Sends(cl[c], r))
  /\ UNCHANGED <<px, buf, FileMap, srv, forwarded, order>>

\* Killed, or ended because the file cannot be opened: what it has not sent
\* yet is not sent.
Kill(c) ==
  /\ c \in Mortal /\ cl[c].st \in {"asks", "sent"}
  /\ cl' = [cl EXCEPT ![c].st = "killed"]
  /\ \E k \in 0 .. Len(wire[c]) : wire' = [wire EXCEPT ![c] = SubSeq(@, 1, k)]
  /\ UNCHANGED <<back, px, buf, FileMap, srv, forwarded, order>>

-----------------------------------------------------------------------------
(* The storage servers.  Server 0 waits for "upppload" and a name, the       *)
(* others for blocks alone; an "upppload" taken for a length, the length of  *)
(* a block taken for that of a name: from there on the boundaries are lost,  *)
(* and nothing that it is sent changes it (in and buf are left empty).       *)
(* saved[p] counts how often the page was appended to the file of its MD5.   *)
Sync(s) == IF s = 0 THEN "sw" ELSE "blocks"

saveBlockFile(x, u) ==
  IF x.phase = "blocks" /\ u.u = "block"
  THEN IF u.md5 = ServerMD5(u.page) THEN [x EXCEPT !.saved[u.page] = @ + 1] ELSE x
  ELSE [x EXCEPT !.phase = "lost"]

\* mkfile reads names until the buffer is empty.
mkfile(x, units) ==
  [x EXCEPT !.phase = IF \A i \in DOMAIN units : units[i].u = "name" THEN "blocks" ELSE "lost"]

upLoad(x, units) ==
  CASE x.phase = "lost" \/ units = <<>> -> x
    [] x.phase = "blocks" -> FoldLeft(saveBlockFile, x, units)
    [] x.phase = "names" -> mkfile(x, units)

\* A read of k units: switchOperate takes the first 8 bytes of the first one
\* and leaves the rest in the buffer for the next read.
ServerReads(s) ==
  /\ \E k \in 1 .. Len(srv[s].in) :
       LET units == srv[s].buf \o SubSeq(srv[s].in, 1, k)
           x == [srv[s] EXCEPT !.in = SubSeq(@, k + 1, Len(@)), !.buf = <<>>]
           y == IF x.phase = "sw" THEN [x EXCEPT !.phase = "names", !.buf = Tail(units)]
                ELSE upLoad(x, units) IN
       /\ srv' = [srv EXCEPT ![s] = IF y.phase = "lost" THEN [y EXCEPT !.in = <<>>] ELSE y]
       /\ order' = Reads(k)
  /\ UNCHANGED <<cl, wire, back, px, buf, FileMap, forwarded>>

-----------------------------------------------------------------------------
\* main of server s: it listens, and has saved nothing.
MainOfServer(s) == [buf |-> <<>>, phase |-> Sync(s), saved |-> [p \in Pages |-> 0]]

\* The proxy connects to a server when it starts.
mySocket(x) == [in |-> <<>>, buf |-> x.buf, phase |-> x.phase, saved |-> x.saved]

Init ==
  /\ cl = [c \in Clients |-> Fresh]
  /\ wire = [c \in Clients |-> <<>>] /\ back = [c \in Clients |-> <<>>] /\ buf = [c \in Clients |-> <<>>]
  /\ px = [Operate |-> "sw", upStatu |-> 1, g_FileName |-> "", alive |-> TRUE]
  /\ FileMap = [n \in {} |-> FileValue(0)]
  /\ srv = [s \in Servers |-> mySocket(MainOfServer(s))]
  /\ forwarded = <<>>
  /\ order = "smooth"

Proxy(c)  == Read(c) \/ ReadPart(c) \/ Down(c)
\* What goes on by itself, of which each step reads something.
Work == (\E c \in Clients : Proxy(c) \/ Receive(c)) \/ (\E s \in Servers : ServerReads(s))

\* A proxy that ended takes no part, and no step is of interest.
Next == Running /\ (Work \/ \E c \in Clients : Start(c) \/ Kill(c))

Spec == Init /\ [][Next]_vars

-----------------------------------------------------------------------------
TypeOK ==
  /\ \A c \in Clients : /\ cl[c].st \in {"idle", "asks", "sent", "done", "killed"}
                        /\ cl[c].uploadId \subseteq Nat
  /\ px.Operate \in {"sw", "up"} /\ px.upStatu \in 1 .. 4
  /\ \A n \in DOMAIN FileMap : FileMap[n].uploadId \subseteq 0 .. FileMap[n].blockNum - 1
  /\ \A s \in Servers : srv[s].phase \in {"sw", "names", "blocks", "lost"}

(* Whatever connections the proxy mixes up in its global phase, a block is  *)
(* marked uploaded only after a text with the MD5 announced for it was sent *)
(* to a server.                                                             *)
AcceptedWasForwarded ==
  \A n \in DOMAIN FileMap : \A i \in FileMap[n].uploadId : FileMap[n].md5[i] \in {getMD5(p) : p \in Range(forwarded)}

(* A client leaves out only blocks that the proxy has accepted under the    *)
(* name of its file, whoever sent them, unless the proxy has once taken a   *)
(* block for a header: then a file has its content for a name, and a client *)
(* whose block is taken so is answered with the ids of that file.           *)
SkippedWasAccepted ==
  DOMAIN FileMap \cap Pages = {} =>
    \A c \in Clients : cl[c].uploadId # {} =>
      cl[c].uploadId \subseteq FileMap[FileName[cl[c].file]].uploadId

(* One client at a time: "success" is said when every block recorded under  *)
(* the name was accepted, after interruptions and resumed uploads too.      *)
SuccessMeansAccepted ==
  order # "overlapped" =>
    \A c \in Clients : cl[c].st = "done" => lsFileFinish(FileMap[FileName[cl[c].file]])

(* What a server stores was forwarded to it, and not more often than it was *)
(* forwarded (a second copy would be appended to the first).                *)
Count(q, x) == Cardinality({i \in DOMAIN q : q[i] = x})

StoredIsForwarded ==
  \A s \in Servers, p \in Pages :
    srv[s].saved[p] + Count(srv[s].in, Block(p)) <= IF Server[p] = s THEN Count(forwarded, p) ELSE 0

(* One client at a time, each read one unit: an upload comes to its end.    *)
(* When nothing is left to read, a client waits only for the answer to a    *)
(* header whose name has a record without an accepted block (it is never    *)
(* answered), or with blocks that differ from those in the record, or for a *)
(* file without blocks, or it never named the operation.                    *)
Quiet == \A c \in Clients : wire[c] = <<>> /\ back[c] = <<>>

UploadEnds ==
  order = "smooth" /\ Quiet =>
    \A c \in Clients :
      LET f == cl[c].file
          v == FileMap[FileName[f]] IN
      /\ cl[c].st = "asks" => cl[c].test \/ v.uploadId = {}
      /\ cl[c].st = "sent" /\ blockNum(f) > 0 =>
           \E i \in 0 .. blockNum(f) - 1 : v.md5[i] # getMD5(BlockFile(f, i))
=============================================================================

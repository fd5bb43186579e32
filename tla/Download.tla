------------------------------ MODULE Download ------------------------------
(***************************************************************************)
(* The C++ download: a client (ClientSystem/downLoad.h), the proxy with    *)
(* its three download threads (ReactorService/src/downLoad.h) and the      *)
(* storage servers, next to clients that begin an upload, which goes over  *)
(* the same sockets to the servers and the same phase of the proxy.        *)
(*                                                                         *)
(* Bytes travel as units, as in Upload: the two words, the "1" that        *)
(* starts the download, the header of an upload, the "down ack" of server  *)
(* 0, a name, and the frame of a stored block (length, name, content).     *)
(* A read returns any number of units.  A reader that lost the boundaries  *)
(* takes text for a length and waits for ever.                             *)
(***************************************************************************)
EXTENDS Integers, Sequences, SequencesExt, FiniteSetsExt

CONSTANTS Downloads, \* runs of the client program with "download"
          Uploads,   \* with "upload"
          Names,     \* names of files
          Wanted,    \* the name in the proxy's code, "kvmap_2.txt"
          Dirs,      \* the directories that server 0 may have
          Stored,    \* the blocks in that of Wanted: [page, copies, full]
          Servers    \* 0, 1, 2; the last two are copies

Clients == Downloads \cup Uploads

(* A page that was saved twice is there twice in its block.  Bound: one     *)
(* download.  (The threads of a second one would read from the sockets and  *)
(* change the status of the first one's.)  Bound: one upload that begins.   *)
ASSUME DownloadAssumption ==
  /\ Cardinality(Downloads) = 1 /\ Cardinality(Uploads) = 1 /\ Downloads # Uploads
  /\ IsFiniteSet(Clients) /\ IsFiniteSet(Stored) /\ 0 \in Servers
  /\ Wanted \in Names
  /\ \A x \in Stored : x.copies \in {1, 2} /\ x.full \in BOOLEAN

VARIABLES cl,      \* cl[c]: client c
          wire,    \* wire[c]: sent by the client, not read by the proxy
          buf,     \* buf[c]: the input buffer of the connection of c
          px,      \* the proxy's globals, whether it runs, whether it downloads
          FileMap, \* g_File: the names it has
          thr,     \* thr[s]: the download thread of server s
          link,    \* link[s]: sent to server s, not read
          reply,   \* reply[s]: sent by server s, not read
          srv,     \* srv[s]: server s
          back,    \* back[c]: sent to the client, not read
          file,    \* file[c]: the file that the client writes
          knew,    \* g_File had the wanted name when server 0 was asked for it
          alone    \* so far: one client, and one unit in each read

vars == <<cl, wire, buf, px, FileMap, thr, link, reply, srv, back, file, knew, alone>>

-----------------------------------------------------------------------------
Down   == [u |-> "download"]
Up     == [u |-> "upppload"]
One    == [u |-> "1"]
Ack    == [u |-> "down ack"]
Header(n) == [u |-> "header", name |-> n]
Name(n)   == [u |-> "name", name |-> n]
Frame(x)  == [u |-> "frame", block |-> x]
Lost   == [u |-> "lost"]

ToAll(l, q) == [s \in Servers |-> l[s] \o q]

-----------------------------------------------------------------------------
(* The proxy: onMessage works on h, the globals, the names, the input buffer *)
(* and what it sends to all servers (all); what it answers is left out.  A   *)
(* header whose name is known leads to phase 3, whatever the answer.         *)
switchOperate(h) ==
  LET u == Head(h.buf) IN
  IF u \in {Up, Down}
  THEN [h EXCEPT !.px.Operate = IF u = Up THEN "up" ELSE "down", !.buf = Tail(@)]
  ELSE [h EXCEPT !.buf = <<Lost>>, !.wild = TRUE]

\* Mistaken: tells the servers when the header is there.
initFileNumberLate(h, u) ==
  IF h.end THEN h
  ELSE IF u.u # "header" THEN [h EXCEPT !.end = TRUE]
  ELSE IF u.name \in h.map THEN [h EXCEPT !.buf = Tail(@), !.px.upStatu = 3]
  ELSE [h EXCEPT !.buf = Tail(@), !.px.upStatu = 2, !.map = @ \cup {u.name}]

\* One pass of the loop of initFileNumber: a word for all servers before it
\* looks whether there is a whole header.
initFileNumber(h, u) ==
  LET told == [h EXCEPT !.all = Append(@, Up)] IN
  IF h.end \/ u = One THEN h
  ELSE IF u.u # "header" THEN [told EXCEPT !.end = TRUE]
  ELSE IF u.name \in h.map THEN [told EXCEPT !.buf = Tail(@), !.px.upStatu = 3]
  ELSE [told EXCEPT !.buf = Tail(@), !.px.upStatu = 2, !.map = @ \cup {u.name},
          !.all = Append(@, Name(u.name))]

\* downLoad of the proxy: starts the threads and leaves the buffer alone.
startThreads(h) == [h EXCEPT !.px.Operate = "gg", !.px.started = TRUE]

\* The later phases of an upload wait for more than these clients send.
onMessage(h) ==
  CASE h.px.Operate = "sw"   -> switchOperate(h)
    [] h.px.Operate = "up"   -> IF h.px.upStatu = 1 THEN FoldLeft(initFileNumber, h, h.buf) ELSE h
    [] h.px.Operate = "down" -> startThreads(h)
    [] h.px.Operate = "gg"   -> [h EXCEPT !.buf = <<>>]

\* TcpConnection::handleRead: the next k units.  A read outside of the
\* buffer may end the process.
Read(c) ==
  /\ cl[c] \in {"open", "killed"}
  /\ \E k \in 1 .. Len(wire[c]) :
       LET h == onMessage([px |-> px, map |-> FileMap, buf |-> buf[c] \o SubSeq(wire[c], 1, k),
                           all |-> <<>>, end |-> FALSE, wild |-> FALSE]) IN
       /\ wire' = [wire EXCEPT ![c] = SubSeq(@, k + 1, Len(@))]
       /\ buf' = [buf EXCEPT ![c] = h.buf]
       /\ \E alive \in IF h.wild THEN BOOLEAN ELSE {TRUE} : px' = [h.px EXCEPT !.alive = alive]
       /\ FileMap' = h.map
       /\ link' = ToAll(link, h.all)
       /\ alone' = (alone /\ k = 1)
  /\ UNCHANGED <<cl, thr, reply, srv, back, file, knew>>

-----------------------------------------------------------------------------
(* The thread of server s: downLoadFileFromStorage                          *)
senddownload(s) ==
  /\ px.started /\ thr[s].status = 1
  /\ thr' = [thr EXCEPT ![s].status = 2]
  /\ link' = [link EXCEPT ![s] = Append(@, Down)]
  /\ knew' = (knew \/ (s = 0 /\ Wanted \in FileMap))
  /\ UNCHANGED <<cl, wire, buf, px, FileMap, reply, srv, back, file, alone>>

\* Eight bytes, whatever they are, and the name in the code.
sendFileName(s) ==
  /\ thr[s].status = 2 /\ reply[s] # <<>>
  /\ thr' = [thr EXCEPT ![s].status = 3]
  /\ reply' = [reply EXCEPT ![s] = Tail(@)]
  /\ link' = [link EXCEPT ![s] = Append(@, Name(Wanted))]
  /\ UNCHANGED <<cl, wire, buf, px, FileMap, srv, back, file, knew, alone>>

\* Mistaken: passes on a content without comparing its MD5.
VerifiedAny(frames) == [i \in DOMAIN frames |-> frames[i].block]

\* A frame is passed on when it has the content that its name says.
passOn(sent, u) == IF u.block.copies = 1 THEN Append(sent, u.block) ELSE sent

Verified(frames) == FoldLeft(passOn, <<>>, frames)

\* A frame announces the size of the block and holds at most 1 MiB of it: of
\* a full page that was saved twice the half.  What follows is taken for the
\* other half, and the boundaries are lost.
Short(u) == u.block.copies = 2 /\ u.block.full

Whole(frames) ==
  LET short == {i \in DOMAIN frames : Short(frames[i])} IN
  IF short = {} THEN frames ELSE SubSeq(frames, 1, Min(short) - 1)

\* resvBlockFile: the verified contents go through Bloc, which the threads
\* share, to conn, a reference to a pointer that is gone from its stack:
\* some connection gets them, or the process ends.
resvBlockFile(s) ==
  /\ thr[s].status = 3
  /\ \E k \in 1 .. Len(reply[s]) :
       LET frames == SubSeq(reply[s], 1, k)
           good == IF thr[s].lost \/ Wanted \notin FileMap THEN <<>> ELSE Verified(Whole(frames)) IN
       /\ reply' = [reply EXCEPT ![s] = SubSeq(@, k + 1, Len(@))]
       /\ thr' = [thr EXCEPT ![s].lost = @ \/ Whole(frames) # frames, ![s].read = @ + k,
                             ![s].appends = @ \/ good # <<>>]
       /\ alone' = (alone /\ k = 1)
       /\ \/ /\ \E c \in Clients : /\ good # <<>> => cl[c] \in {"open", "killed"}
                                   /\ back' = [back EXCEPT ![c] = @ \o good]
             /\ UNCHANGED px
          \/ /\ good # <<>>
             /\ px' = [px EXCEPT !.alive = FALSE]
             /\ UNCHANGED back
  /\ UNCHANGED <<cl, wire, buf, FileMap, link, srv, file, knew>>

-----------------------------------------------------------------------------
\* Mistaken: all servers run the program of server 0.
SyncAll(s) == "sw"

(* The storage servers.  Servers 1 and 2 have no download: the word is a     *)
(* length to them.                                                           *)
Sync(s) == IF s = 0 THEN "sw" ELSE "lost"

\* Mistaken: no "down ack".
switchQuiet(x, u) == [x EXCEPT !.phase = IF u = Up THEN "up" ELSE "down"]

\* switchOperate of server 0.  In the phase of an upload it never answers.
switch(x, u) ==
  IF u = Up THEN [x EXCEPT !.phase = "up"] ELSE [x EXCEPT !.phase = "down", !.out = <<Ack>>]

\* readFileList sends the blocks in the order of the directory, which is
\* any, and ends the process when there is no directory.
readFileList(x, n) ==
  IF n \notin x.dirs THEN {[x EXCEPT !.phase = "exited"]}
  ELSE {[x EXCEPT !.out = @ \o q] : q \in
          {[i \in DOMAIN p |-> Frame(p[i])] : p \in IF n = Wanted THEN SetToSeqs(Stored) ELSE {<<>>}}}

\* downLoad of server 0: names until the buffer is empty; a word is no name.
\* xs is what the server may have come to.
readName(xs, u) == UNION {IF y.phase # "down" THEN {y}
                          ELSE IF u.u = "name" THEN readFileList(y, u.name)
                          ELSE {[y EXCEPT !.phase = "lost"]} : y \in xs}

downLoad(x, units) == FoldLeft(readName, {x}, units)

\* onMessage of a server on what it has not read yet.  switchOperate leaves
\* what follows the word in the buffer for the next read.
ServerReads(s) ==
  /\ \E k \in 1 .. Len(link[s]) :
       LET units == srv[s].buf \o SubSeq(link[s], 1, k)
           x == [srv[s] EXCEPT !.buf = <<>>]
           after == CASE x.phase = "sw"   -> {[switch(x, Head(units)) EXCEPT !.buf = Tail(units)]}
                      [] x.phase = "down" -> downLoad(x, units)
                      [] OTHER            -> {x} IN
       /\ link' = [link EXCEPT ![s] = SubSeq(@, k + 1, Len(@))]
       /\ \E y \in after : /\ srv' = [srv EXCEPT ![s] = [y EXCEPT !.out = <<>>]]
                           /\ reply' = [reply EXCEPT ![s] = @ \o y.out]
       /\ alone' = (alone /\ k = 1)
  /\ UNCHANGED <<cl, wire, buf, px, FileMap, thr, back, file, knew>>

-----------------------------------------------------------------------------
(* The clients: main, downLoadFile.  An upload goes as far as its header.   *)
\* Connects; the proxy accepts in the same step.
mySocket2(c) == cl' = [cl EXCEPT ![c] = "open"]

\* A connection resets the phase that all connections share.
onConnection == px' = [px EXCEPT !.Operate = "sw", !.upStatu = 1]

Start(c) ==
  /\ cl[c] = "idle"
  /\ mySocket2(c)
  /\ IF c \in Downloads THEN wire' = [wire EXCEPT ![c] = <<Down, One>>]
     ELSE \E n \in Names : wire' = [wire EXCEPT ![c] = <<Up, Header(n)>>]
  /\ onConnection
  /\ alone' = (alone /\ c \in Downloads)
  /\ UNCHANGED <<buf, FileMap, thr, link, reply, srv, back, file, knew>>

\* The download writes all that it receives.
Write(c) ==
  /\ c \in Downloads /\ cl[c] = "open" /\ back[c] # <<>>
  /\ file' = [file EXCEPT ![c] = @ \o back[c]]
  /\ back' = [back EXCEPT ![c] = <<>>]
  /\ UNCHANGED <<cl, wire, buf, px, FileMap, thr, link, reply, srv, knew, alone>>

\* Killed: what it has not sent yet is not sent.
Kill(c) ==
  /\ cl[c] = "open"
  /\ cl' = [cl EXCEPT ![c] = "killed"]
  /\ \E k \in 0 .. Len(wire[c]) : wire' = [wire EXCEPT ![c] = SubSeq(@, 1, k)]
  /\ alone' = (alone /\ c \notin Downloads)
  /\ UNCHANGED <<buf, px, FileMap, thr, link, reply, srv, back, file, knew>>

\* onConnection of a connection that is down.
Gone(c) ==
  /\ cl[c] = "killed" /\ wire[c] = <<>>
  /\ cl' = [cl EXCEPT ![c] = "closed"]
  /\ buf' = [buf EXCEPT ![c] = <<>>] /\ back' = [back EXCEPT ![c] = <<>>]
  /\ UNCHANGED <<wire, px, FileMap, thr, link, reply, srv, file, knew, alone>>

-----------------------------------------------------------------------------
\* main of a server with the directories d: it listens.
MainOfServer(d) == [phase |-> "sw", buf |-> <<>>, dirs |-> d, out |-> <<>>]

\* onConnection of server s, when the proxy has connected to it.
Connected(s, d) == [MainOfServer(d) EXCEPT !.phase = Sync(s)]

Init ==
  /\ cl = [c \in Clients |-> "idle"]
  /\ wire = [c \in Clients |-> <<>>] /\ buf = [c \in Clients |-> <<>>]
  /\ back = [c \in Clients |-> <<>>] /\ file = [c \in Clients |-> <<>>]
  /\ px = [Operate |-> "sw", upStatu |-> 1, alive |-> TRUE, started |-> FALSE]
  /\ FileMap = {}
  /\ thr = [s \in Servers |-> [status |-> 1, lost |-> FALSE, read |-> 0, appends |-> FALSE]]
  /\ link = [s \in Servers |-> <<>>] /\ reply = [s \in Servers |-> <<>>]
  /\ \E d \in Dirs : srv = [s \in Servers |-> Connected(s, d)]
  /\ knew = FALSE /\ alone = TRUE

Thread(s) == senddownload(s) \/ sendFileName(s) \/ resvBlockFile(s)

\* A proxy that ended takes no part, and no step is of interest.
Next == px.alive /\ (\/ \E c \in Clients : Start(c) \/ Read(c) \/ Write(c) \/ Kill(c) \/ Gone(c)
                     \/ \E s \in Servers : Thread(s) \/ ServerReads(s))

Spec == Init /\ [][Next]_vars

-----------------------------------------------------------------------------
TypeOK ==
  /\ \A c \in Clients : cl[c] \in {"idle", "open", "killed", "closed"}
  /\ px.Operate \in {"sw", "up", "down", "gg"} /\ px.upStatu \in 1 .. 3
  /\ FileMap \subseteq Names
  /\ \A s \in Servers : /\ thr[s].status \in 1 .. 3
                        /\ srv[s].phase \in {"sw", "up", "down", "lost", "exited"}

(* Whoever the proxy sends them to, what arrives are pages that the server  *)
(* holds once and whole: the MD5 keeps out a block that was appended twice, *)
(* and all that is read after its frame, whose length is wrong.             *)
DeliveredIsVerified ==
  \A c \in Clients : \A x \in Range(back[c]) \cup Range(file[c]) : x \in Stored /\ x.copies = 1

(* The threads append to Bloc without a lock: no two of them ever do in one *)
(* download, because servers 1 and 2 do not answer.                         *)
OneThreadAppends == \A s, t \in Servers : thr[s].appends /\ thr[t].appends => s = t

(* The proxy passes on blocks of a name that it knows; it knows names from  *)
(* uploads, and the word of an upload takes server 0 out of the reach of    *)
(* every later download.  A download of a file that was uploaded delivers   *)
(* nothing: only an upload of that name that begins after it was asked for  *)
(* lets it deliver at all.                                                  *)
DeliversOnlyOvertaken ==
  (\E s \in Servers : thr[s].appends) => ~knew /\ Wanted \in FileMap

(* One client and one unit in each read: a download comes as far as it can. *)
(* When nothing is left to read, the thread of server 0 has read a frame of *)
(* every block, or the server ended for want of the directory.              *)
Quiet == \A q \in Range(wire) \cup Range(link) \cup Range(reply) : q = <<>>

DownloadReadsAll ==
  alone /\ Quiet /\ px.started /\ thr[0].status # 1 =>
    srv[0].phase = "exited" \/ thr[0].read = Cardinality(Stored)
=============================================================================

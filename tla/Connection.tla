----------------------------- MODULE Connection -----------------------------
(***************************************************************************)
(* The connections of a Reactor::TcpServer (ReactorService/src/Tcp*.cc,    *)
(* EPoller.cc, EpollEvent.cc, Acceptor.cc; every storage server has a      *)
(* copy).  The acceptor lives in the base loop; a connection is accepted   *)
(* there, handed to one loop of the pool, read and written in that loop,   *)
(* removed from the server's map in the base loop and destroyed in its own *)
(* loop again.  The object lives as long as the map or a queued functor    *)
(* refers to it.                                                           *)
(*                                                                         *)
(* A loop is the cycle epoll_wait, handle the active events one by one,    *)
(* swap the queued functors, run them one by one.  EventLoop models how it *)
(* wakes up and shows that functors run once and in order; here a loop     *)
(* simply goes on when an event is ready or a functor is queued.           *)
(***************************************************************************)
EXTENDS Integers, Sequences, FiniteSetsExt, Functions

CONSTANTS Base,     \* the loop of the acceptor
          Pools,    \* the pools a server may have: loops, in the order they were started
          Last,     \* bound: connections 1 .. Last are accepted
          Limits,   \* descriptors the process may have for connections: one of these
          Room,     \* bytes that fit into the kernel's send buffer
          MsgLen,   \* bytes of a message
          MaxSent   \* bound: messages sent, on all connections

Loops == {Base} \cup UNION {Range(pool) : pool \in Pools}

ASSUME ConnectionAssumption ==
  /\ Last \in Nat /\ Room \in Nat \ {0} /\ MsgLen \in Nat \ {0} /\ MaxSent \in Nat
  /\ Limits \subseteq Nat \ {0}
  /\ \A pool \in Pools : pool \in Seq(Loops) /\ Base \notin Range(pool)

Conns == 1 .. Last

VARIABLES cn,          \* cn[c]: TcpConnection c, its EpollEvent and its socket
          connections, \* TcpServer::connections_
          nextConnId,  \* TcpServer::nextConnId_
          pool,        \* ThreadPool::loops_, empty when no threads were asked for
          next,        \* ThreadPool::next_
          limit,       \* of descriptors
          pc,          \* pc[l]: what loop l is doing
          active,      \* active[l]: the events it got from epoll and did not handle yet
          functors,    \* functors[l]: Functors_
          batch,       \* batch[l]: the functors that doFunctors runs, and refers to
          ran          \* ran[l]: how many of them it ran

vars == <<cn, connections, nextConnId, pool, next, limit, pc, active, functors, batch, ran>>

-----------------------------------------------------------------------------
(* The connection, its event and its socket as one record:                  *)
(*   state   TcpConnection::state_; "none" before the accept                *)
(*   loop    the loop it was given to                                       *)
(*   events  EpollEvent::events_, what the code asks for                    *)
(*   statu   EpollEvent::Statu_                                             *)
(*   reg     what the epoll instance of the loop knows: none, or a set      *)
(*   out     outputBuffer_                                                  *)
(*   peer    the other side: absent, open, shut (it sent FIN and can still  *)
(*           receive), reset (an RST arrived, not reported yet), gone (the  *)
(*           error was reported), pipe (SIGPIPE was raised: the process     *)
(*           ends, TcpConnection writes with write(2) and nothing ignores   *)
(*           the signal)                                                    *)
(*   unread  bytes of the peer wait in the receive buffer                   *)
(*   wire    bytes in the send buffer, rcvd: bytes the peer received        *)
(*   sent    messages sent, ups, downs: calls of the connection callback    *)
Unregistered == {"none"}

FreshEvent == [events |-> {}, statu |-> "new", reg |-> Unregistered]

Fresh == [state |-> "none", loop |-> Base, out |-> <<>>, sent |-> 0, ups |-> 0, downs |-> 0,
          events |-> FreshEvent.events, statu |-> FreshEvent.statu, reg |-> FreshEvent.reg,
          peer |-> "absent", unread |-> FALSE, wire |-> <<>>, rcvd |-> <<>>]

\* epoll_ctl
update(x, mask) == [x EXCEPT !.reg = mask]

\* EpollEvent::enableReading and so on: set events_ and tell the poller.
updateEvent(x, events) ==
  LET y == [x EXCEPT !.events = events] IN
  CASE x.statu \in {"new", "deleted"}       -> update([y EXCEPT !.statu = "added"], events)
    [] x.statu = "added" /\ events = {}     -> update([y EXCEPT !.statu = "deleted"], Unregistered)
    [] x.statu = "added" /\ events # {}     -> update(y, events)

removeEvent(x) ==
  LET y == [x EXCEPT !.statu = "new"] IN IF x.statu = "added" THEN update(y, Unregistered) ELSE y

enableReading(x)  == updateEvent(x, x.events \cup {"R"})
enableWriting(x)  == updateEvent(x, x.events \cup {"W"})
disableWriting(x) == updateEvent(x, x.events \ {"W"})
disableAll(x)     == updateEvent(x, {})
isWriting(x)      == "W" \in x.events

\* The bytes of message m.
Message(m) == [i \in 1 .. MsgLen |-> <<m, i>>]

\* What is left of the bytes s when the socket took those it has room for.
Space(x) == Room - Len(x.wire)
Taken(x, s) == Min({Space(x), Len(s)})

\* The socket after write(2) of the bytes s: an error is reported once, the
\* next write to a peer that is gone raises SIGPIPE.
WriteOn(x, s) ==
  CASE x.peer \in {"open", "shut"} -> [x EXCEPT !.wire = @ \o SubSeq(s, 1, Taken(x, s))]
    [] x.peer = "reset" -> [x EXCEPT !.peer = "gone"]
    [] x.peer \in {"gone", "pipe"} -> [x EXCEPT !.peer = "pipe"]

\* write(2) returns -1: the send buffer is full, or the peer is not there.
WriteFails(x) == x.peer \notin {"open", "shut"} \/ Space(x) = 0

\* Faulty: whatever waits in the output buffer, it writes at once.
sendInLoopOvertakes(x, m) ==
  LET s == Message(m)
      y == WriteOn(x, s) IN
  IF WriteFails(x) \/ Taken(x, s) = Len(s) THEN y
  ELSE enableWriting([y EXCEPT !.out = @ \o SubSeq(s, Taken(x, s) + 1, Len(s))])

\* A write that fails returns -1, which as a size_t is not less than the
\* size of the message: nothing is kept of it.
sendInLoop(x, m) ==
  LET s == Message(m) IN
  IF ~isWriting(x) /\ x.out = <<>>
  THEN LET y == WriteOn(x, s) IN
       IF WriteFails(x) \/ Taken(x, s) = Len(s) THEN y
       ELSE enableWriting([y EXCEPT !.out = SubSeq(s, Taken(x, s) + 1, Len(s))])
  ELSE LET y == [x EXCEPT !.out = x.out \o s] IN
       IF isWriting(x) THEN y ELSE enableWriting(y)

\* Of the thread of the loop: the next message, when the connection is up.
send(x) ==
  IF x.state = "connected" THEN [sendInLoop(x, x.sent + 1) EXCEPT !.sent = @ + 1] ELSE x

\* retrieve(-1) takes the reader index back by one, to a byte already sent.
Stale == <<0, 0>>

handleWrite(x) ==
  IF ~isWriting(x) THEN x
  ELSE LET y == WriteOn(x, x.out) IN
       IF WriteFails(x) THEN [y EXCEPT !.out = <<Stale>> \o x.out]
       ELSE IF Taken(x, x.out) = Len(x.out) THEN disableWriting([y EXCEPT !.out = <<>>])
       ELSE [y EXCEPT !.out = SubSeq(x.out, Taken(x, x.out) + 1, Len(x.out))]

\* read(2) returns 0 when the peer sent all it will send.
EndOfInput(x) == ~x.unread /\ x.peer \in {"shut", "gone"}

\* Faulty: goes on watching a connection whose peer has ended it.
handleReadWatches(x, reply) ==
  IF x.unread
  THEN LET y == [x EXCEPT !.unread = FALSE] IN IF reply THEN send(y) ELSE y
  ELSE IF x.peer = "reset" THEN [x EXCEPT !.peer = "gone"] ELSE x

\* messageCallback_ answers or not; an error of read(2) is ignored.
handleRead(x, reply) ==
  IF x.unread
  THEN LET y == [x EXCEPT !.unread = FALSE] IN IF reply THEN send(y) ELSE y
  ELSE IF x.peer = "reset" THEN [x EXCEPT !.peer = "gone"]
  ELSE IF EndOfInput(x) THEN disableAll(x) ELSE x

\* EpollEvent::handleEvent of the event e: the close callback, the read
\* callback and the write callback, each on what the one before left.
Hung(e) == e.hup /\ ~e.in

\* Faulty: the end of the input is not taken for the end of the connection.
ClosesWhenHung(x, e) == Hung(e)

Closes(x, e) == Hung(e) \/ (e.in /\ EndOfInput(x))

handleEvent(x, e, reply) ==
  LET closed == IF Hung(e) THEN disableAll(x) ELSE x
      read   == IF e.in THEN handleRead(closed, reply) ELSE closed IN
  IF e.out THEN handleWrite(read) ELSE read

connectEstablished(x) ==
  [enableReading([x EXCEPT !.state = "connected"]) EXCEPT !.ups = @ + 1]

\* Faulty: leaves the event to the poller.
connectDestroyedKeepsEvent(x) ==
  disableAll([x EXCEPT !.state = "disconnected", !.downs = @ + 1])

connectDestroyed(x) ==
  removeEvent([disableAll([x EXCEPT !.state = "disconnected"]) EXCEPT !.downs = @ + 1])

-----------------------------------------------------------------------------
(* Functors are bound to a shared_ptr of the connection.  (send of another  *)
(* thread binds the bare object; here connections are used by their loops   *)
(* alone.)                                                                  *)
Task(f, c) == [f |-> f, c |-> c]

Tasks(l) == {functors[l][i] : i \in DOMAIN functors[l]} \cup {batch[l][i] : i \in DOMAIN batch[l]}

Referred(c) == c \in connections \/ \E l \in Loops : \E k \in Tasks(l) : k.c = c

Accepted(c) == cn[c].state # "none"

\* The destructor closes the socket, which takes it out of its epoll.
Freed(c) == Accepted(c) /\ ~Referred(c)

Alive == \A c \in Conns : cn[c].peer # "pipe"

\* functors with k queued to loop l
Queued(l, k) == [functors EXCEPT ![l] = Append(@, k)]

\* Faulty: does not take the connection out of the map.
removeConnectionInLoopKeeps(c) ==
  UNCHANGED connections /\ functors' = Queued(cn[c].loop, Task("connectDestroyed", c))

removeConnectionInLoop(c) ==
  /\ connections' = connections \ {c}
  /\ functors' = Queued(cn[c].loop, Task("connectDestroyed", c))

\* TcpServer::removeConnection in the thread of loop l: at once in the base
\* loop, queued to it otherwise.
removeConnection(l, c) ==
  IF l = Base THEN removeConnectionInLoop(c)
  ELSE functors' = Queued(Base, Task("removeConnection", c)) /\ UNCHANGED connections

-----------------------------------------------------------------------------
(* The other side of the connections.                                       *)
Peer(c, x) == /\ Alive
              /\ cn' = [cn EXCEPT ![c] = x]
              /\ UNCHANGED <<connections, nextConnId, pool, next, limit, pc, active, functors, batch, ran>>

\* Messages sent so far.
Sent == MapThenSumSet(LAMBDA c : cn[c].sent, Conns)

\* Peers connect in the order in which they are accepted.
Connect(c) == /\ cn[c].peer = "absent"
              /\ \A d \in 1 .. c - 1 : cn[d].peer # "absent"
              /\ Peer(c, [cn[c] EXCEPT !.peer = "open"])

PeerSends(c) == /\ cn[c].peer = "open" /\ ~cn[c].unread
                /\ Peer(c, [cn[c] EXCEPT !.unread = TRUE])

PeerReceives(c) == /\ cn[c].peer \in {"open", "shut"} /\ cn[c].wire # <<>>
                   /\ Peer(c, [cn[c] EXCEPT !.wire = Tail(@), !.rcvd = Append(@, Head(cn[c].wire))])

PeerShuts(c) == cn[c].peer = "open" /\ Peer(c, [cn[c] EXCEPT !.peer = "shut"])

PeerResets(c) == /\ cn[c].peer \in {"open", "shut"} /\ Accepted(c)
                 /\ Peer(c, [cn[c] EXCEPT !.peer = "reset", !.wire = <<>>])

-----------------------------------------------------------------------------
(* The loops.  epoll reports a hang-up whatever it was asked for, the rest  *)
(* only when it was asked for.                                              *)
Acceptor == [c |-> 0, in |-> TRUE, out |-> FALSE, hup |-> FALSE]

Event(c) == [c |-> c,
             in |-> "R" \in cn[c].reg /\ (cn[c].unread \/ cn[c].peer # "open"),
             out |-> "W" \in cn[c].reg /\ (Space(cn[c]) > 0 \/ cn[c].peer \notin {"open", "shut"}),
             hup |-> cn[c].peer \in {"reset", "gone"}]

Ready(l) ==
  {e \in {Event(c) : c \in {d \in Conns : cn[d].loop = l /\ cn[d].reg # Unregistered /\ ~Freed(d)}} :
     e.in \/ e.out \/ e.hup}
  \cup (IF l = Base /\ nextConnId \in Conns /\ cn[nextConnId].peer # "absent" THEN {Acceptor} ELSE {})

Poll(l) == /\ pc[l] = "poll" /\ (Ready(l) # {} \/ functors[l] # <<>>)
           /\ active' = [active EXCEPT ![l] = Ready(l)]
           /\ pc' = [pc EXCEPT ![l] = "events"]
           /\ UNCHANGED <<cn, connections, nextConnId, pool, next, limit, functors, batch, ran>>

Handled(l, e) == pc[l] = "events" /\ e \in active[l] /\ active' = [active EXCEPT ![l] = @ \ {e}]

getNextLoop == IF pool = <<>> THEN Base ELSE pool[next]

\* TcpServer::newConnection
newConnection ==
  LET c == nextConnId
      x == [cn[c] EXCEPT !.state = "connecting", !.loop = getNextLoop] IN
  /\ nextConnId' = c + 1
  /\ next' = IF pool = <<>> THEN next ELSE (next % Len(pool)) + 1
  /\ connections' = connections \cup {c}
  /\ IF getNextLoop = Base
     THEN cn' = [cn EXCEPT ![c] = connectEstablished(x)] /\ UNCHANGED functors
     ELSE cn' = [cn EXCEPT ![c] = x] /\ functors' = Queued(getNextLoop, Task("connectEstablished", c))

\* Socket::accept returns a connection, or an error when there is no descriptor.
accept == Cardinality({c \in Conns : Accepted(c) /\ ~Freed(c)}) < limit

\* Acceptor::handleRead: an error leaves the connection where it waits.
Accept ==
  /\ Handled(Base, Acceptor)
  /\ IF accept THEN newConnection ELSE UNCHANGED <<cn, connections, nextConnId, next, functors>>
  /\ UNCHANGED <<pool, limit, pc, batch, ran>>

HandleEvent(l) ==
  \E e \in active[l] \ {Acceptor}, reply \in BOOLEAN :
    /\ Handled(l, e)
    /\ reply => cn[e.c].unread /\ Sent < MaxSent
    /\ cn' = [cn EXCEPT ![e.c] = handleEvent(@, e, reply)]
    /\ IF Closes(cn[e.c], e) THEN removeConnection(l, e.c) ELSE UNCHANGED <<connections, functors>>
    /\ UNCHANGED <<nextConnId, pool, next, limit, pc, batch, ran>>

Swap(l) == /\ pc[l] = "events" /\ active[l] = {}
           /\ batch' = [batch EXCEPT ![l] = functors[l]]
           /\ functors' = [functors EXCEPT ![l] = <<>>]
           /\ pc' = [pc EXCEPT ![l] = IF functors[l] = <<>> THEN "poll" ELSE "functors"]
           /\ UNCHANGED <<cn, connections, nextConnId, pool, next, limit, active, ran>>

\* The next functor of the batch; the vector, and the references in it, goes
\* away after the last one.
Run(l) ==
  LET k == batch[l][ran[l] + 1]
      last == ran[l] + 1 = Len(batch[l]) IN
  /\ pc[l] = "functors"
  /\ ran' = [ran EXCEPT ![l] = IF last THEN 0 ELSE @ + 1]
  /\ batch' = [batch EXCEPT ![l] = IF last THEN <<>> ELSE @]
  /\ pc' = [pc EXCEPT ![l] = IF last THEN "poll" ELSE @]
  /\ CASE k.f = "connectEstablished" ->
            cn' = [cn EXCEPT ![k.c] = connectEstablished(@)] /\ UNCHANGED <<connections, functors>>
       [] k.f = "removeConnection" -> UNCHANGED cn /\ removeConnection(l, k.c)
       [] k.f = "connectDestroyed" ->
            cn' = [cn EXCEPT ![k.c] = connectDestroyed(@)] /\ UNCHANGED <<connections, functors>>
  /\ UNCHANGED <<nextConnId, pool, next, limit, active>>

LoopStep(l) == Alive /\ (Poll(l) \/ HandleEvent(l) \/ Swap(l) \/ Run(l) \/ (l = Base /\ Accept))

-----------------------------------------------------------------------------
Init ==
  /\ cn = [c \in Conns |-> Fresh]
  /\ connections = {} /\ nextConnId = 1 /\ pool \in Pools /\ next = 1 /\ limit \in Limits
  /\ pc = [l \in Loops |-> "poll"]
  /\ active = [l \in Loops |-> {}]
  /\ functors = [l \in Loops |-> <<>>] /\ batch = [l \in Loops |-> <<>>] /\ ran = [l \in Loops |-> 0]

Next ==
  \/ \E c \in Conns : Connect(c) \/ PeerSends(c) \/ PeerReceives(c) \/ PeerShuts(c) \/ PeerResets(c)
  \/ \E l \in Loops : LoopStep(l)

Spec == Init /\ [][Next]_vars

\* Every loop's thread is scheduled; peers may stop.
FairSpec == Spec /\ \A l \in Loops : WF_vars(LoopStep(l))

-----------------------------------------------------------------------------
TypeOK ==
  /\ DOMAIN cn = Conns
  /\ \A c \in Conns :
       /\ cn[c].state \in {"none", "connecting", "connected", "disconnected"}
       /\ cn[c].statu \in {"new", "added", "deleted"}
       /\ cn[c].events \subseteq {"R", "W"} /\ cn[c].loop \in Loops
       /\ cn[c].reg = Unregistered \/ cn[c].reg \subseteq {"R", "W"}
       /\ cn[c].sent \in 0 .. MaxSent
  /\ connections \subseteq Conns /\ nextConnId \in 1 .. Last + 1
  /\ \A l \in Loops : IF pc[l] = "functors" THEN ran[l] \in 0 .. Len(batch[l]) - 1
                      ELSE pc[l] \in {"poll", "events"} /\ ran[l] = 0 /\ batch[l] = <<>>

(* epoll hands out the bare address of a connection's event, so it must not *)
(* know a connection that was destroyed, nor may such an event wait in a    *)
(* loop; and what the poller believes of an event is what the kernel knows. *)
EventsAreAlive ==
  \A c \in Conns :
    /\ Freed(c) => cn[c].reg = Unregistered /\ \A l \in Loops : \A e \in active[l] : e.c # c
    /\ cn[c].statu = "added" <=> cn[c].reg # Unregistered

(* The user of the server is told once that a connection is up, then once   *)
(* that it is down, and is told so before the object goes away.             *)
UpThenDown ==
  \A c \in Conns : /\ cn[c].downs <= cn[c].ups /\ cn[c].ups <= 1
                   /\ Freed(c) => cn[c].downs = 1

(* Whatever the socket takes of each write, the peer receives messages in   *)
(* the order of the sends and each of them whole, but for the one it is     *)
(* still receiving.  (A message may be missing altogether: sendInLoop drops *)
(* it when the send buffer is full.)                                        *)
MessagesArriveWhole ==
  \A c \in Conns : LET r == cn[c].rcvd IN
    /\ r # <<>> => r[1][2] = 1
    /\ \A i \in 1 .. Len(r) - 1 :
         IF r[i][2] < MsgLen THEN r[i + 1] = <<r[i][1], r[i][2] + 1>>
         ELSE r[i + 1][1] > r[i][1] /\ r[i + 1][2] = 1

(* A peer that ends its connection has it released: the object is destroyed *)
(* and its descriptor closed, whatever was still to be sent (or a write to  *)
(* it ended the process).                                                   *)
ClosedIsReleased ==
  \A c \in Conns : (Accepted(c) /\ cn[c].peer \in {"shut", "reset"}) ~> (Freed(c) \/ ~Alive)

(* A peer waits for ever to be accepted only when others keep all           *)
(* descriptors and do not end their connections: the errors of accept while *)
(* there is none lose no connection, and none that has ended keeps one.     *)
Waiting(c) == cn[c].peer # "absent" /\ ~Accepted(c)

Held == {c \in Conns : Accepted(c) /\ cn[c].peer = "open"}

WaitsForPeersOnly ==
  \A c \in Conns : <>[]Waiting(c) => <>[](~Alive \/ Cardinality(Held) >= limit)
=============================================================================

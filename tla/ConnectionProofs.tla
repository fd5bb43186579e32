-------------------------- MODULE ConnectionProofs --------------------------
(***************************************************************************)
(* Proofs about the connections, for any number of loops and connections,  *)
(* any pool, buffer, message length and batch of events: whom the poller   *)
(* knows, what the user is told and what the peer receives.                *)
(*                                                                         *)
(* The inductive invariant follows a connection through its life.  Each    *)
(* stage of it says what the poller knows and what is queued: a connection *)
(* that was accepted waits for connectEstablished on its loop, one that    *)
(* closed on an I/O loop waits for removeConnection on the base loop and   *)
(* then for connectDestroyed on its own, and never is there a second       *)
(* functor for it.  An event that a loop took from the poller is always of *)
(* a connection still watched by that loop.  The bytes received, on their  *)
(* way and waiting are one stream of whole messages as long as the peer    *)
(* listens.                                                                *)
(***************************************************************************)
EXTENDS Connection, SequenceTheorems, TLAPS

-----------------------------------------------------------------------------
(* Sequences and bytes.                                                     *)

\* A byte is its message and its place in it.
Byte == Nat \X Nat

\* std::min of two lengths (write of handleWrite and send).
LEMMA MinOfTwo ==
  ASSUME NEW a \in Int, NEW b \in Int
  PROVE  Min({a, b}) = IF a <= b THEN a ELSE b
<1> DEFINE m == IF a <= b THEN a ELSE b
<1>1. m \in {a, b} /\ \A y \in {a, b} : m <= y
  OBVIOUS
<1>2. \A x \in {a, b} : (\A y \in {a, b} : x <= y) => x = m
  OBVIOUS
<1> HIDE DEF m
<1>3. (CHOOSE x \in {a, b} : \A y \in {a, b} : x <= y) = m
  BY <1>1, <1>2
<1> QED BY <1>3 DEF Min, m

\* A write that takes the first t bytes of s leaves the rest: nothing between
\* is lost or repeated (retrieve after write).
LEMMA SplitJoined ==
  ASSUME NEW w \in Seq(Byte), NEW s \in Seq(Byte), NEW t \in 0 .. Len(s)
  PROVE  /\ SubSeq(s, 1, t) \in Seq(Byte) /\ SubSeq(s, t + 1, Len(s)) \in Seq(Byte)
         /\ w \o s = (w \o SubSeq(s, 1, t)) \o SubSeq(s, t + 1, Len(s))
         /\ Len(w \o SubSeq(s, 1, t)) = Len(w) + t
<1> DEFINE a == SubSeq(s, 1, t)
           b == SubSeq(s, t + 1, Len(s))
           n == Len(s)
<1>0. n \in Nat /\ t \in Nat /\ t <= n
  OBVIOUS
<1>1. /\ a \in Seq(Byte) /\ Len(a) = t /\ \A i \in 1 .. t : a[i] = s[i]
      /\ b \in Seq(Byte) /\ Len(b) = n - t /\ \A i \in 1 .. n - t : b[i] = s[t + i]
  <2>1. \A i \in 1 .. n : s[i] \in Byte
    BY ElementOfSeq
  <2>2. /\ a \in Seq(Byte) /\ Len(a) = t /\ \A i \in 1 .. t : a[i] = s[1 + i - 1]
    BY <2>1, <1>0, SubSeqProperties
  <2>3. /\ b \in Seq(Byte) /\ Len(b) = n - t /\ \A i \in 1 .. n - t : b[i] = s[t + i]
    BY <2>1, <1>0
  <2> QED BY <2>2, <2>3, <1>0
<1> HIDE DEF a, b
<1>2. w \o s = (w \o a) \o b
  <2>1. SubSeq(s, 1, n) = s
    BY SubSeqFull
  <2>2. 1 \in 1 .. n + 1 /\ t \in 1 - 1 .. n /\ n \in t .. n
    BY <1>0
  <2>3. SubSeq(s, 1, t) \o SubSeq(s, t + 1, n) = SubSeq(s, 1, n)
    BY <2>2, ConcatAdjacentSubSeq
  <2>4. a \o b = s
    BY <2>1, <2>3 DEF a, b
  <2>5. a \in Seq(Byte) /\ b \in Seq(Byte)
    BY <1>1
  <2>6. (w \o a) \o b = w \o (a \o b)
    BY <2>5, ConcatAssociative
  <2> QED BY <2>4, <2>6
<1>3. Len(w \o a) = Len(w) + t
  BY <1>1, ConcatProperties
<1> QED BY <1>1, <1>2, <1>3 DEF a, b

\* Concatenation associates.
LEMMA JoinBytes ==
  \A a, b, c \in Seq(Byte) : a \o (b \o c) = (a \o b) \o c
OBVIOUS

\* The peer takes the first byte of what is on its way.
LEMMA HeadMoves ==
  ASSUME NEW r \in Seq(Byte), NEW w \in Seq(Byte), w # <<>>
  PROVE  Append(r, Head(w)) \o Tail(w) = r \o w
OBVIOUS

\* The fields of a connection before its socket exists.
LEMMA FreshType ==
  /\ Fresh.state = "none" /\ Fresh.loop = Base /\ Fresh.out = <<>> /\ Fresh.sent = 0
  /\ Fresh.ups = 0 /\ Fresh.downs = 0 /\ Fresh.events = {} /\ Fresh.statu = "new"
  /\ Fresh.reg = Unregistered /\ Fresh.peer = "absent" /\ Fresh.unread = FALSE
  /\ Fresh.wire = <<>> /\ Fresh.rcvd = <<>>
  BY DEF Fresh, FreshEvent

-----------------------------------------------------------------------------
(* What the peer receives, what is on its way and what waits.               *)

\* A sequence of bytes is whole messages, in order, but for the end of the last.
Whole(s) ==
  /\ s # <<>> => s[1][2] = 1
  /\ \A i \in 1 .. Len(s) - 1 :
       IF s[i][2] < MsgLen THEN s[i + 1] = <<s[i][1], s[i][2] + 1>>
       ELSE s[i + 1][1] > s[i][1] /\ s[i + 1][2] = 1

\* s ends with a message, one of the first n.
Ends(s, n) == s = <<>> \/ (s[Len(s)][2] = MsgLen /\ s[Len(s)][1] <= n)

\* All the bytes of a connection: received, on their way, and waiting.
Stream(x) == x.rcvd \o (x.wire \o x.out)

\* What was received of a whole stream is whole but for its last message.
LEMMA WholePrefix ==
  ASSUME NEW s \in Seq(Byte), NEW t \in Seq(Byte), Whole(s \o t)
  PROVE  Whole(s)
<1> DEFINE u == s \o t
<1>1. /\ u \in Seq(Byte) /\ Len(u) = Len(s) + Len(t)
      /\ \A i \in 1 .. Len(s) : u[i] = s[i]
      /\ Len(s) \in Nat /\ Len(t) \in Nat
  BY ConcatProperties, LenProperties
<1>2. s # <<>> => 1 \in 1 .. Len(s) /\ u # <<>>
  BY <1>1, EmptySeq
<1>3. s # <<>> => s[1][2] = 1
  BY <1>1, <1>2 DEF Whole
<1>4. ASSUME NEW i \in 1 .. Len(s) - 1
      PROVE  IF s[i][2] < MsgLen THEN s[i + 1] = <<s[i][1], s[i][2] + 1>>
             ELSE s[i + 1][1] > s[i][1] /\ s[i + 1][2] = 1
  <2>1. i \in 1 .. Len(u) - 1 /\ i \in 1 .. Len(s) /\ i + 1 \in 1 .. Len(s)
    BY <1>1
  <2>2. s[i] = u[i] /\ s[i + 1] = u[i + 1]
    BY <1>1, <2>1
  <2> QED BY <2>1, <2>2 DEF Whole
<1> QED BY <1>3, <1>4 DEF Whole

\* A stream that ends with a message takes the next one whole.
LEMMA WholeGrows ==
  ASSUME NEW s \in Seq(Byte), NEW n \in Nat, Whole(s), Ends(s, n)
  PROVE  /\ Message(n + 1) \in Seq(Byte) /\ Len(Message(n + 1)) = MsgLen
         /\ Whole(s \o Message(n + 1)) /\ Ends(s \o Message(n + 1), n + 1)
<1> DEFINE m == Message(n + 1)
           u == s \o m
<1>0. MsgLen \in Nat /\ MsgLen > 0
  BY ConnectionAssumption
<1>1. m \in Seq(Byte) /\ Len(m) = MsgLen /\ \A i \in 1 .. MsgLen : m[i] = <<n + 1, i>>
  <2>1. \A i \in 1 .. MsgLen : m[i] = <<n + 1, i>> /\ m[i] \in Byte
    BY <1>0 DEF Message, Byte
  <2>2. m \in [1 .. MsgLen -> Byte]
    BY <2>1 DEF Message
  <2> HIDE DEF m
  <2>3. m \in Seq(Byte) /\ Len(m) = MsgLen
    BY <2>2, <1>0
  <2> QED BY <2>1, <2>3
<1> HIDE DEF m
<1>2. /\ u \in Seq(Byte) /\ Len(u) = Len(s) + MsgLen /\ Len(s) \in Nat
      /\ \A i \in 1 .. Len(u) : u[i] = IF i <= Len(s) THEN s[i] ELSE m[i - Len(s)]
  BY <1>1, ConcatProperties, LenProperties
<1> HIDE DEF u
<1>3. \A i \in 1 .. Len(s) : u[i] = s[i] /\ s[i] \in Byte
  BY <1>2, <1>0, ElementOfSeq
<1>4. \A i \in Len(s) + 1 .. Len(u) : u[i] = <<n + 1, i - Len(s)>>
  BY <1>2, <1>1, <1>0
<1>5. u # <<>> => u[1][2] = 1
  <2>1. CASE s = <<>>
    <3>1. Len(s) = 0 /\ 1 \in 1 .. Len(u)
      BY <2>1, <1>2, <1>0
    <3>2. u[1] = <<n + 1, 1>>
      BY <3>1, <1>4
    <3> QED BY <3>2
  <2>2. CASE s # <<>>
    <3>1. 1 \in 1 .. Len(s)
      BY <2>2, EmptySeq
    <3> QED BY <3>1, <1>3, <2>2 DEF Whole
  <2> QED BY <2>1, <2>2
<1>6. ASSUME NEW i \in 1 .. Len(u) - 1
      PROVE  IF u[i][2] < MsgLen THEN u[i + 1] = <<u[i][1], u[i][2] + 1>>
             ELSE u[i + 1][1] > u[i][1] /\ u[i + 1][2] = 1
  <2>1. CASE i + 1 <= Len(s)
    <3>1. i \in 1 .. Len(s) - 1 /\ i \in 1 .. Len(s) /\ i + 1 \in 1 .. Len(s)
      BY <2>1, <1>2
    <3>2. u[i] = s[i] /\ u[i + 1] = s[i + 1]
      BY <3>1, <1>3
    <3> QED BY <3>1, <3>2 DEF Whole
  <2>2. CASE i = Len(s)
    <3>1. s # <<>> /\ i \in 1 .. Len(s) /\ i + 1 \in Len(s) + 1 .. Len(u)
      BY <2>2, <1>2, <1>0
    <3>2. u[i] = s[i] /\ s[i][2] = MsgLen /\ s[i][1] <= n /\ s[i] \in Nat \X Nat
      BY <3>1, <2>2, <1>3 DEF Ends, Byte
    <3>3. u[i + 1] = <<n + 1, 1>>
      <4>1. u[i + 1] = <<n + 1, i + 1 - Len(s)>>
        BY <3>1, <1>4
      <4>2. i + 1 - Len(s) = 1
        BY <2>2, <1>2
      <4> QED BY <4>1, <4>2
    <3>4. s[i][1] \in Nat /\ u[i + 1][1] = n + 1 /\ u[i + 1][2] = 1
      BY <3>2, <3>3
    <3> QED BY <3>2, <3>4, <1>0
  <2>3. CASE i > Len(s)
    <3>1. /\ i \in Len(s) + 1 .. Len(u) /\ i + 1 \in Len(s) + 1 .. Len(u)
          /\ i - Len(s) < MsgLen /\ i + 1 - Len(s) = (i - Len(s)) + 1
      BY <2>3, <1>2, <1>0
    <3>2. u[i] = <<n + 1, i - Len(s)>> /\ u[i + 1] = <<n + 1, (i - Len(s)) + 1>>
      BY <3>1, <1>4
    <3>3. u[i][1] = n + 1 /\ u[i][2] = i - Len(s)
      BY <3>2
    <3> QED BY <3>1, <3>2, <3>3
  <2> QED BY <2>1, <2>2, <2>3, <1>2
<1>7. Ends(u, n + 1)
  <2>1. Len(u) \in Len(s) + 1 .. Len(u) /\ Len(u) - Len(s) = MsgLen
    BY <1>2, <1>0
  <2>2. u[Len(u)] = <<n + 1, MsgLen>>
    BY <2>1, <1>4
  <2>3. u[Len(u)][2] = MsgLen /\ u[Len(u)][1] = n + 1
    BY <2>2
  <2> QED BY <2>3 DEF Ends
<1>8. Whole(u)
  BY <1>5, <1>6 DEF Whole
<1> QED BY <1>1, <1>7, <1>8 DEF u, m

\* A message that was not sent (send when the connection is not up) changes
\* nothing of the stream.
LEMMA EndsLater ==
  ASSUME NEW s \in Seq(Byte), NEW n \in Nat, Ends(s, n)
  PROVE  Ends(s, n + 1)
<1>1. s # <<>> => s[Len(s)] \in Nat \X Nat
  <2>1. s # <<>> => Len(s) \in 1 .. Len(s)
    BY EmptySeq
  <2> QED BY <2>1, ElementOfSeq DEF Byte
<1>2. s # <<>> => s[Len(s)][1] \in Nat
  BY <1>1
<1> QED BY <1>2 DEF Ends

-----------------------------------------------------------------------------
(* One connection.                                                          *)

\* What a connection is made of.
Conn == [state : {"none", "connecting", "connected", "disconnected"}, loop : Loops,
         out : Seq(Byte), sent : Nat, ups : Nat, downs : Nat,
         events : SUBSET {"R", "W"}, statu : {"new", "added", "deleted"},
         reg : SUBSET {"R", "W", "none"},
         peer : {"absent", "open", "shut", "reset", "gone", "pipe"}, unread : BOOLEAN,
         wire : Seq(Byte), rcvd : Seq(Byte)]

\* The epoll instance knows the event as the code believes it does.
Watched(x) == x.statu = "added" /\ x.reg = x.events /\ "R" \in x.events
Ended(x)   == x.statu = "deleted" /\ x.reg = Unregistered /\ x.events = {}
\* The poller never heard of the event, or forgot it.
Unknown(x) == x.statu = "new" /\ x.reg = Unregistered /\ x.events = {}

\* The parts of a connection that its life is about, and those of its event.
SameLife(x, y) == y.state = x.state /\ y.loop = x.loop /\ y.ups = x.ups /\ y.downs = x.downs

SameEvent(x, y) == y.statu = x.statu /\ y.reg = x.reg /\ y.events = x.events

\* The peer can still receive.
Heard(x) == x.peer \in {"open", "shut"}

\* The bytes of a connection: the peer has a beginning of the stream, whole as
\* long as it listens, and the stream ends with a message that was sent.
Flows(x) == /\ Len(x.wire) <= Room
            /\ Whole(x.rcvd)
            /\ x.peer \in {"absent", "open", "shut"} => Whole(Stream(x)) /\ Ends(Stream(x), x.sent)

\* A write never takes more than there is room for, nor more than it is given.
LEMMA TakenFits ==
  ASSUME NEW x \in Conn, NEW s \in Seq(Byte), Len(x.wire) <= Room
  PROVE  /\ Taken(x, s) \in 0 .. Len(s) /\ Taken(x, s) <= Room - Len(x.wire)
         /\ Space(x) = 0 => Taken(x, s) = 0
<1> DEFINE a == Room - Len(x.wire)
           b == Len(s)
<1>1. x.wire \in Seq(Byte) /\ Len(x.wire) \in Nat /\ b \in Nat /\ Room \in Nat
  BY ConnectionAssumption DEF Conn
<1>2. a \in Int /\ a >= 0
  BY <1>1
<1> HIDE DEF a, b
<1>3. Min({a, b}) = IF a <= b THEN a ELSE b
  BY <1>1, <1>2, MinOfTwo
<1>4. Taken(x, s) = Min({a, b}) /\ Space(x) = a
  BY DEF Taken, Space, a, b
<1> QED BY <1>1, <1>2, <1>3, <1>4 DEF a, b

\* write(2) changes the socket alone: it moves the first bytes to the send
\* buffer, or it fails since the peer is gone.
LEMMA WriteOnKeeps ==
  ASSUME NEW x \in Conn, NEW s \in Seq(Byte), Len(x.wire) <= Room, x.peer # "absent"
  PROVE  LET y == WriteOn(x, s) IN
         /\ y \in Conn /\ SameLife(x, y) /\ SameEvent(x, y) /\ y.out = x.out /\ y.sent = x.sent
         /\ y.unread = x.unread /\ y.rcvd = x.rcvd /\ Len(y.wire) <= Room
         /\ IF Heard(x) THEN y.peer = x.peer /\ y.wire = x.wire \o SubSeq(s, 1, Taken(x, s))
            ELSE ~Heard(y) /\ y.peer # "absent" /\ y.wire = x.wire
<1> DEFINE y == WriteOn(x, s)
           w == x.wire \o SubSeq(s, 1, Taken(x, s))
<1>1. /\ x.wire \in Seq(Byte) /\ Len(x.wire) \in Nat /\ Room \in Nat
      /\ Taken(x, s) \in 0 .. Len(s) /\ Taken(x, s) <= Room - Len(x.wire)
  <2>1. x.wire \in Seq(Byte) /\ Room \in Nat
    BY ConnectionAssumption DEF Conn
  <2>2. Taken(x, s) \in 0 .. Len(s) /\ Taken(x, s) <= Room - Len(x.wire)
    BY TakenFits
  <2> QED BY <2>1, <2>2, LenProperties
<1>2. w \in Seq(Byte) /\ Len(w) <= Room
  <2> DEFINE t == Taken(x, s)
             v == x.wire
             p == SubSeq(s, 1, t)
  <2>1. v \in Seq(Byte) /\ t \in 0 .. Len(s) /\ t <= Room - Len(v) /\ Len(v) \in Nat /\ Room \in Nat
    BY <1>1
  <2> HIDE DEF t, v
  <2>2. p \in Seq(Byte) /\ Len(v \o p) = Len(v) + t
    BY <2>1, SplitJoined
  <2>3. v \o p \in Seq(Byte)
    BY <2>1, <2>2, ConcatProperties
  <2>4. Len(v \o p) <= Room
    BY <2>1, <2>2
  <2> QED BY <2>3, <2>4 DEF t, v
<1> HIDE DEF w
<1>3. CASE Heard(x)
  <2>1. y = [x EXCEPT !.wire = w]
    BY <1>3 DEF Heard, WriteOn, w
  <2>2. y \in Conn /\ y.wire = w
    BY <2>1, <1>2 DEF Conn
  <2>3. /\ SameLife(x, y) /\ SameEvent(x, y) /\ y.out = x.out /\ y.sent = x.sent
        /\ y.unread = x.unread /\ y.rcvd = x.rcvd /\ y.peer = x.peer
    BY <2>1 DEF Conn, SameLife, SameEvent
  <2> HIDE DEF y
  <2>4. Len(y.wire) <= Room
    BY <2>2, <1>2
  <2> QED BY <2>2, <2>3, <2>4, <1>3 DEF w, y
<1>4. CASE ~Heard(x)
  <2>1. PICK p \in {"gone", "pipe"} : y = [x EXCEPT !.peer = p]
    BY <1>4 DEF Heard, WriteOn, Conn
  <2>2. y \in Conn /\ y.peer = p /\ y.wire = x.wire
    BY <2>1 DEF Conn
  <2>3. /\ SameLife(x, y) /\ SameEvent(x, y) /\ y.out = x.out /\ y.sent = x.sent
        /\ y.unread = x.unread /\ y.rcvd = x.rcvd
    BY <2>1 DEF Conn, SameLife, SameEvent
  <2> HIDE DEF y
  <2>4. Len(y.wire) <= Room
    BY <2>2
  <2> QED BY <2>2, <2>3, <2>4, <1>4 DEF Heard, y
<1> QED BY <1>3, <1>4

\* What epoll knows after updateEvent is what the event asks for, or nothing
\* when it asks for nothing.
LEMMA Updates ==
  ASSUME NEW x \in Conn, NEW events \in SUBSET {"R", "W"}
  PROVE  LET y == updateEvent(x, events) IN
         /\ y \in Conn /\ SameLife(x, y) /\ y.out = x.out /\ y.sent = x.sent /\ y.peer = x.peer
         /\ y.unread = x.unread /\ y.rcvd = x.rcvd /\ y.wire = x.wire /\ y.events = events
         /\ x.statu # "added" => y.statu = "added" /\ y.reg = events
         /\ x.statu = "added" /\ events # {} => y.statu = "added" /\ y.reg = events
         /\ x.statu = "added" /\ events = {} => y.statu = "deleted" /\ y.reg = Unregistered
<1>1. CASE x.statu # "added" \/ events # {}
  <2> DEFINE y == [x EXCEPT !.events = events, !.statu = "added", !.reg = events]
  <2>1. updateEvent(x, events) = y
    BY <1>1 DEF updateEvent, update, Conn
  <2>2. y \in Conn
    BY DEF Conn
  <2>3. /\ SameLife(x, y) /\ y.out = x.out /\ y.sent = x.sent /\ y.peer = x.peer
        /\ y.unread = x.unread /\ y.rcvd = x.rcvd /\ y.wire = x.wire /\ y.events = events
        /\ y.statu = "added" /\ y.reg = events
    BY DEF SameLife, Conn
  <2> HIDE DEF y
  <2> QED BY <1>1, <2>1, <2>2, <2>3
<1>2. CASE x.statu = "added" /\ events = {}
  <2> DEFINE y == [x EXCEPT !.events = events, !.statu = "deleted", !.reg = Unregistered]
  <2>1. updateEvent(x, events) = y
    BY <1>2 DEF updateEvent, update, Conn
  <2>2. y \in Conn
    BY DEF Conn, Unregistered
  <2>3. /\ SameLife(x, y) /\ y.out = x.out /\ y.sent = x.sent /\ y.peer = x.peer
        /\ y.unread = x.unread /\ y.rcvd = x.rcvd /\ y.wire = x.wire /\ y.events = events
        /\ y.statu = "deleted" /\ y.reg = Unregistered
    BY DEF SameLife, Conn
  <2> HIDE DEF y
  <2> QED BY <1>2, <2>1, <2>2, <2>3
<1> QED BY <1>1, <1>2

\* Counting a message changes the counter alone.
LEMMA SentSet ==
  ASSUME NEW y \in Conn, NEW k \in Nat
  PROVE  LET z == [y EXCEPT !.sent = k] IN
         /\ z \in Conn /\ SameLife(y, z) /\ SameEvent(y, z) /\ z.out = y.out /\ z.sent = k
         /\ z.unread = y.unread /\ z.rcvd = y.rcvd /\ z.wire = y.wire /\ z.peer = y.peer
<1> DEFINE z == [y EXCEPT !.sent = k]
<1>1. z \in Conn
  BY DEF Conn
<1>2. SameLife(y, z) /\ SameEvent(y, z)
  BY DEF Conn, SameLife, SameEvent
<1>3. /\ z.out = y.out /\ z.sent = k /\ z.unread = y.unread /\ z.rcvd = y.rcvd
      /\ z.wire = y.wire /\ z.peer = y.peer
  BY DEF Conn
<1> QED BY <1>1, <1>2, <1>3

\* What a step of the loop of x must leave of a connection it reads or writes.
Serves(x, y) == /\ y \in Conn /\ SameLife(x, y) /\ y.peer # "absent" /\ Flows(y)

\* send puts the whole message behind the stream: on the socket, in the
\* buffer, or the first part of it there and the rest here.
LEMMA SendServes ==
  ASSUME NEW x \in Conn, Watched(x), x.peer # "absent", Flows(x)
  PROVE  LET y == send(x) IN
         /\ Serves(x, y) /\ Watched(y) /\ y.unread = x.unread
         /\ isWriting(x) => isWriting(y) /\ y.wire = x.wire /\ y.peer = x.peer
<1> DEFINE m == Message(x.sent + 1)
           n == x.sent
           u == Stream(x)
<1>1. /\ n \in Nat /\ x.out \in Seq(Byte) /\ x.wire \in Seq(Byte) /\ x.rcvd \in Seq(Byte)
      /\ x.events \in SUBSET {"R", "W"}
  BY DEF Conn
<1>b. n + 1 \in Nat
  BY <1>1
<1>2. u \in Seq(Byte) /\ x.wire \o x.out \in Seq(Byte)
  BY <1>1, ConcatProperties DEF Stream
<1>3. m \in Seq(Byte) /\ Len(m) = MsgLen
  <2>1. Whole(<<>>) /\ Ends(<<>>, n) /\ <<>> \in Seq(Byte)
    BY DEF Whole, Ends
  <2> QED BY <2>1, <1>1, WholeGrows
<1>4. Heard(x) => /\ Whole(u \o m) /\ Ends(u \o m, n + 1)
                  /\ Whole(u) /\ Ends(u, n + 1) /\ Ends(u, n)
  <2> HAVE Heard(x)
  <2>1. Whole(u) /\ Ends(u, n)
    BY DEF Flows, Heard
  <2> HIDE DEF u
  <2> QED BY <2>1, <1>1, <1>2, WholeGrows, EndsLater
<1>5. CASE x.state # "connected"
  <2>1. send(x) = x
    BY <1>5 DEF send
  <2> QED BY <2>1 DEF Serves, SameLife
<1>6. CASE x.state = "connected" /\ ~isWriting(x) /\ x.out = <<>>
  <2> DEFINE y == WriteOn(x, m)
             t == Taken(x, m)
  <2>1. /\ y \in Conn /\ SameLife(x, y) /\ SameEvent(x, y) /\ y.out = x.out /\ y.sent = x.sent
        /\ y.unread = x.unread /\ y.rcvd = x.rcvd /\ Len(y.wire) <= Room
        /\ Heard(x) => y.peer = x.peer /\ y.wire = x.wire \o SubSeq(m, 1, t)
        /\ ~Heard(x) => ~Heard(y) /\ y.peer # "absent" /\ y.wire = x.wire
    BY <1>3, WriteOnKeeps DEF Flows
  <2>2. y.peer # "absent"
    BY <2>1
  <2>3. t \in 0 .. Len(m) /\ (Space(x) = 0 => t = 0)
    BY <1>3, TakenFits DEF Flows
  <2>4. u = x.rcvd \o x.wire
    BY <1>6, <1>1 DEF Stream
  <2> HIDE DEF y, m, t, u
  <2>5. CASE WriteFails(x) \/ t = Len(m)
    <3> DEFINE z == [y EXCEPT !.sent = n + 1]
    <3>1. sendInLoop(x, n + 1) = y
      BY <1>6, <2>5 DEF sendInLoop, y, m, t
    <3>2. send(x) = z
      BY <3>1, <1>6, <2>1 DEF send
    <3>3. /\ z \in Conn /\ SameLife(y, z) /\ SameEvent(y, z) /\ z.out = y.out /\ z.sent = n + 1
          /\ z.unread = y.unread /\ z.rcvd = y.rcvd /\ z.wire = y.wire /\ z.peer = y.peer
      BY <2>1, <1>b, SentSet, Zenon
    <3> HIDE DEF z
    <3>4. Watched(z) /\ SameLife(x, z) /\ z.unread = x.unread /\ z.peer # "absent"
      BY <3>3, <2>1, <2>2 DEF Watched, SameLife, SameEvent
    <3>5. Heard(x) => Stream(z) = u \o m \/ Stream(z) = u
      <4> HAVE Heard(x)
      <4>1. z.rcvd = x.rcvd /\ z.out = <<>> /\ z.wire = x.wire \o SubSeq(m, 1, t)
        BY <3>3, <2>1, <1>6
      <4>2. SubSeq(m, 1, t) \in Seq(Byte)
        BY <1>3, <2>3, <1>1, SplitJoined
      <4>3. x.wire \o SubSeq(m, 1, t) \in Seq(Byte)
        BY <4>2, <1>1, ConcatProperties
      <4>4. Stream(z) = x.rcvd \o (x.wire \o SubSeq(m, 1, t))
        BY <4>1, <4>3, <1>1, ConcatEmptySeq DEF Stream
      <4>5. Stream(z) = u \o SubSeq(m, 1, t)
        <5>1. x.rcvd \in Seq(Byte) /\ x.wire \in Seq(Byte)
          BY <1>1
        <5>2. x.rcvd \o (x.wire \o SubSeq(m, 1, t)) = (x.rcvd \o x.wire) \o SubSeq(m, 1, t)
          BY <5>1, <4>2, JoinBytes
        <5> QED BY <4>4, <5>2, <2>4
      <4>6. CASE t = Len(m)
        BY <4>5, <4>6, <1>3, SubSeqFull
      <4>7. CASE t # Len(m)
        <5>1. Space(x) = 0
          BY <4>7, <2>5 DEF WriteFails, Heard
        <5>2. t = 0 /\ SubSeq(m, 1, t) = <<>>
          BY <5>1, <2>3, SubSeqEmpty
        <5> QED BY <4>5, <5>2, <1>2, ConcatEmptySeq
      <4> QED BY <4>6, <4>7
    <3>6. Heard(z) => Heard(x)
      BY <3>3, <2>1 DEF Heard
    <3>7. Flows(z)
      <4>1. Whole(z.rcvd) /\ Len(z.wire) <= Room
        BY <3>3, <2>1 DEF Flows
      <4>2. Heard(z) => Whole(Stream(z)) /\ Ends(Stream(z), z.sent)
        BY <3>3, <3>5, <3>6, <1>4 DEF u
      <4> QED BY <4>1, <4>2, <3>4 DEF Flows, Heard
    <3> QED BY <3>2, <3>3, <3>4, <3>7, <1>6 DEF Serves
  <2>6. CASE ~WriteFails(x) /\ t # Len(m)
    <3> DEFINE rest == SubSeq(m, t + 1, Len(m))
               v == [y EXCEPT !.out = rest]
               w == enableWriting(v)
               z == [w EXCEPT !.sent = n + 1]
    <3>1. sendInLoop(x, n + 1) = w
      BY <1>6, <2>6 DEF sendInLoop, y, m, t
    <3>a. rest \in Seq(Byte) /\ SubSeq(m, 1, t) \in Seq(Byte)
      BY <1>3, <2>3, <1>1, SplitJoined
    <3> HIDE DEF rest
    <3>b. /\ v \in Conn /\ SameLife(y, v) /\ SameEvent(y, v) /\ v.out = rest /\ v.sent = y.sent
          /\ v.unread = y.unread /\ v.rcvd = y.rcvd /\ v.wire = y.wire /\ v.peer = y.peer
      BY <2>1, <3>a DEF Conn, SameLife, SameEvent
    <3> HIDE DEF v
    <3>c. v.events \cup {"W"} \in SUBSET {"R", "W"} /\ v.events \cup {"W"} # {} /\ v.statu = "added"
          /\ "R" \in v.events
      BY <3>b, <2>1 DEF SameEvent, Watched, Conn
    <3>d. /\ w \in Conn /\ SameLife(v, w) /\ w.out = v.out /\ w.sent = v.sent /\ w.peer = v.peer
          /\ w.unread = v.unread /\ w.rcvd = v.rcvd /\ w.wire = v.wire /\ w.events = v.events \cup {"W"}
          /\ w.statu = "added" /\ w.reg = v.events \cup {"W"}
      BY <3>b, <3>c, Updates DEF enableWriting
    <3> HIDE DEF w
    <3>2. send(x) = z
      <4>1. send(x) = [w EXCEPT !.sent = @ + 1]
        BY <3>1, <1>6 DEF send
      <4>2. w.sent = n
        BY <3>d, <3>b, <2>1
      <4> QED BY <4>1, <4>2
    <3>3. /\ z \in Conn /\ SameLife(w, z) /\ SameEvent(w, z) /\ z.out = w.out /\ z.sent = n + 1
          /\ z.unread = w.unread /\ z.rcvd = w.rcvd /\ z.wire = w.wire /\ z.peer = w.peer
      BY <3>d, <1>b, SentSet, Zenon
    <3> HIDE DEF z
    <3>4. Watched(z) /\ SameLife(x, z) /\ z.unread = x.unread /\ z.peer # "absent"
      BY <3>3, <3>d, <3>c, <3>b, <2>1, <2>2 DEF Watched, SameLife, SameEvent
    <3>5. Heard(x)
      BY <2>6 DEF WriteFails, Heard
    <3>6. Stream(z) = u \o m
      <4> DEFINE p == SubSeq(m, 1, t)
      <4>1. z.rcvd = x.rcvd /\ z.out = rest /\ z.wire = x.wire \o p
        BY <3>3, <3>d, <3>b, <2>1, <3>5
      <4>2. x.wire \o m = (x.wire \o p) \o rest
        <5>1. x.wire \in Seq(Byte) /\ m \in Seq(Byte) /\ t \in 0 .. Len(m)
          BY <1>1, <1>3, <2>3
        <5> QED BY <5>1, SplitJoined DEF rest
      <4>3. Stream(z) = x.rcvd \o (x.wire \o m)
        BY <4>1, <4>2 DEF Stream
      <4>4. x.rcvd \in Seq(Byte) /\ x.wire \in Seq(Byte) /\ m \in Seq(Byte)
        BY <1>1, <1>3
      <4>5. x.rcvd \o (x.wire \o m) = (x.rcvd \o x.wire) \o m
        BY <4>4, JoinBytes
      <4> QED BY <4>3, <4>5, <2>4
    <3>7. Flows(z)
      <4>1. Whole(z.rcvd) /\ Len(z.wire) <= Room
        BY <3>3, <3>d, <3>b, <2>1 DEF Flows
      <4>2. Whole(Stream(z)) /\ Ends(Stream(z), z.sent)
        BY <3>3, <3>5, <3>6, <1>4
      <4> QED BY <4>1, <4>2 DEF Flows
    <3> QED BY <3>2, <3>3, <3>4, <3>7, <1>6 DEF Serves
  <2> QED BY <2>5, <2>6
<1>7. CASE x.state = "connected" /\ ~(~isWriting(x) /\ x.out = <<>>)
  <2> DEFINE v == [x EXCEPT !.out = x.out \o m]
             w == IF isWriting(v) THEN v ELSE enableWriting(v)
             z == [w EXCEPT !.sent = n + 1]
  <2>1. sendInLoop(x, n + 1) = w
    <3>1. sendInLoop(x, n + 1) = LET q == [x EXCEPT !.out = x.out \o Message(n + 1)] IN
                                 IF isWriting(x) THEN q ELSE enableWriting(q)
      BY <1>7 DEF sendInLoop
    <3>2. isWriting(v) <=> isWriting(x)
      BY DEF isWriting, Conn
    <3> QED BY <3>1, <3>2, Zenon
  <2>a. x.out \o m \in Seq(Byte)
    BY <1>1, <1>3, ConcatProperties
  <2> HIDE DEF m
  <2>b. /\ v \in Conn /\ SameLife(x, v) /\ SameEvent(x, v) /\ v.out = x.out \o m /\ v.sent = x.sent
        /\ v.unread = x.unread /\ v.rcvd = x.rcvd /\ v.wire = x.wire /\ v.peer = x.peer
    BY <2>a DEF Conn, SameLife, SameEvent
  <2> HIDE DEF v
  <2>c. v.events \cup {"W"} \in SUBSET {"R", "W"} /\ v.events \cup {"W"} # {} /\ v.statu = "added"
        /\ v.reg = v.events /\ "R" \in v.events
    BY <2>b DEF SameEvent, Watched, Conn
  <2>d. /\ w \in Conn /\ SameLife(v, w) /\ w.out = v.out /\ w.sent = v.sent /\ w.peer = v.peer
        /\ w.unread = v.unread /\ w.rcvd = v.rcvd /\ w.wire = v.wire /\ "R" \in w.events /\ "W" \in w.events
        /\ w.statu = "added" /\ w.reg = w.events
    <3>1. CASE isWriting(v)
      BY <3>1, <2>b, <2>c DEF isWriting, SameLife
    <3>2. CASE ~isWriting(v)
      <4> DEFINE y == enableWriting(v)
      <4>1. w = y
        BY <3>2
      <4>2. /\ y \in Conn /\ SameLife(v, y) /\ y.out = v.out /\ y.sent = v.sent /\ y.peer = v.peer
            /\ y.unread = v.unread /\ y.rcvd = v.rcvd /\ y.wire = v.wire /\ y.events = v.events \cup {"W"}
            /\ y.statu = "added" /\ y.reg = v.events \cup {"W"}
        <5>1. y = updateEvent(v, v.events \cup {"W"})
          BY DEF enableWriting
        <5> HIDE DEF y
        <5>2. v \in Conn /\ v.events \cup {"W"} \in SUBSET {"R", "W"} /\ v.events \cup {"W"} # {}
              /\ v.statu = "added"
          BY <2>b, <2>c
        <5> QED BY <5>1, <5>2, Updates
      <4> HIDE DEF y, w
      <4> QED BY <4>1, <4>2, <2>c
    <3> QED BY <3>1, <3>2
  <2> HIDE DEF w
  <2>2. send(x) = z
    <3>1. send(x) = [w EXCEPT !.sent = @ + 1]
      BY <2>1, <1>7 DEF send
    <3>2. w.sent = n
      BY <2>d, <2>b
    <3> QED BY <3>1, <3>2
  <2>3. /\ z \in Conn /\ SameLife(w, z) /\ SameEvent(w, z) /\ z.out = w.out /\ z.sent = n + 1
        /\ z.unread = w.unread /\ z.rcvd = w.rcvd /\ z.wire = w.wire /\ z.peer = w.peer
    BY <2>d, <1>b, SentSet, Zenon
  <2> HIDE DEF z
  <2>4. /\ Watched(z) /\ SameLife(x, z) /\ z.unread = x.unread /\ z.peer = x.peer /\ z.wire = x.wire
        /\ isWriting(z)
    BY <2>3, <2>d, <2>c, <2>b DEF Watched, SameLife, SameEvent, isWriting
  <2>6. Stream(z) = u \o m
    <3>1. z.rcvd = x.rcvd /\ z.out = x.out \o m /\ z.wire = x.wire
      BY <2>3, <2>d, <2>b
    <3>a. x.rcvd \in Seq(Byte) /\ x.wire \in Seq(Byte) /\ x.out \in Seq(Byte) /\ m \in Seq(Byte)
      BY <1>1, <1>3
    <3>2. x.wire \o (x.out \o m) = (x.wire \o x.out) \o m
      BY <3>a, JoinBytes
    <3> DEFINE wo == x.wire \o x.out
    <3>b. wo \in Seq(Byte)
      BY <1>2
    <3> HIDE DEF wo
    <3>c. x.rcvd \o (wo \o m) = (x.rcvd \o wo) \o m
      BY <3>a, <3>b, JoinBytes
    <3>3. x.rcvd \o ((x.wire \o x.out) \o m) = (x.rcvd \o (x.wire \o x.out)) \o m
      BY <3>c DEF wo
    <3> QED BY <3>1, <3>2, <3>3 DEF Stream
  <2>7. Flows(z)
    <3>1. Whole(z.rcvd) /\ Len(z.wire) <= Room
      BY <2>3, <2>d, <2>b DEF Flows
    <3>2. Heard(x) => Whole(Stream(z)) /\ Ends(Stream(z), z.sent)
      BY <2>3, <2>6, <1>4 DEF m
    <3> QED BY <3>1, <3>2, <2>4 DEF Flows, Heard
  <2> QED BY <2>2, <2>3, <2>4, <2>7, <1>7 DEF Serves
<1> QED BY <1>5, <1>6, <1>7

\* A change of the output buffer changes the buffer alone.
LEMMA OutSet ==
  ASSUME NEW y \in Conn, NEW s \in Seq(Byte)
  PROVE  LET z == [y EXCEPT !.out = s] IN
         /\ z \in Conn /\ SameLife(y, z) /\ SameEvent(y, z) /\ z.out = s /\ z.sent = y.sent
         /\ z.unread = y.unread /\ z.rcvd = y.rcvd /\ z.wire = y.wire /\ z.peer = y.peer
<1> DEFINE z == [y EXCEPT !.out = s]
<1>1. z \in Conn
  BY DEF Conn
<1>2. SameLife(y, z) /\ SameEvent(y, z)
  BY DEF Conn, SameLife, SameEvent
<1>3. /\ z.out = s /\ z.sent = y.sent /\ z.unread = y.unread /\ z.rcvd = y.rcvd
      /\ z.wire = y.wire /\ z.peer = y.peer
  BY DEF Conn
<1> QED BY <1>1, <1>2, <1>3

\* handleWrite moves the first bytes of the buffer to the socket, and stops
\* watching for room when nothing is left.
LEMMA HandleWriteServes ==
  ASSUME NEW x \in Conn, Watched(x), x.peer # "absent", Flows(x),
         isWriting(x) /\ Heard(x) => Space(x) > 0
  PROVE  Serves(x, handleWrite(x)) /\ Watched(handleWrite(x))
<1>1. /\ x.out \in Seq(Byte) /\ x.wire \in Seq(Byte) /\ x.rcvd \in Seq(Byte)
      /\ x.events \in SUBSET {"R", "W"} /\ x.sent \in Nat
  BY DEF Conn
<1>2. CASE ~isWriting(x)
  <2>1. handleWrite(x) = x
    BY <1>2 DEF handleWrite
  <2> QED BY <2>1 DEF Serves, SameLife
<1>3. CASE isWriting(x)
  <2> DEFINE s == x.out
             y == WriteOn(x, s)
             t == Taken(x, s)
             p == SubSeq(s, 1, t)
             rest == SubSeq(s, t + 1, Len(s))
  <2>1. /\ y \in Conn /\ SameLife(x, y) /\ SameEvent(x, y) /\ y.out = x.out /\ y.sent = x.sent
        /\ y.unread = x.unread /\ y.rcvd = x.rcvd /\ Len(y.wire) <= Room
        /\ Heard(x) => y.peer = x.peer /\ y.wire = x.wire \o p
        /\ ~Heard(x) => ~Heard(y) /\ y.peer # "absent" /\ y.wire = x.wire
    BY <1>1, WriteOnKeeps DEF Flows
  <2>2. y.peer # "absent" /\ Whole(y.rcvd)
    BY <2>1 DEF Flows
  <2>3. t \in 0 .. Len(s)
    BY <1>1, TakenFits DEF Flows
  <2>4. p \in Seq(Byte) /\ rest \in Seq(Byte) /\ x.wire \o s = (x.wire \o p) \o rest
    BY <1>1, <2>3, SplitJoined
  <2> HIDE DEF y, t
  <2>5. CASE WriteFails(x)
    <3> DEFINE z == [y EXCEPT !.out = <<Stale>> \o x.out]
    <3>1. handleWrite(x) = z
      BY <1>3, <2>5 DEF handleWrite, y
    <3>2. ~Heard(x)
      BY <2>5, <1>3 DEF WriteFails, Heard
    <3>3. <<Stale>> \o x.out \in Seq(Byte)
      <4>1. <<Stale>> \in Seq(Byte)
        BY DEF Stale, Byte
      <4> QED BY <4>1, <1>1, ConcatProperties
    <3>4. /\ z \in Conn /\ SameLife(y, z) /\ SameEvent(y, z)
          /\ z.rcvd = y.rcvd /\ z.wire = y.wire /\ z.peer = y.peer
      BY <2>1, <3>3, OutSet
    <3> HIDE DEF z
    <3>5. Watched(z) /\ SameLife(x, z) /\ z.peer # "absent"
      BY <3>4, <2>1, <2>2 DEF Watched, SameLife, SameEvent
    <3>6. Flows(z)
      BY <3>4, <3>2, <2>1, <2>2 DEF Flows, Heard
    <3> QED BY <3>1, <3>4, <3>5, <3>6 DEF Serves
  <2>6. CASE ~WriteFails(x) /\ t = Len(s)
    <3> DEFINE v == [y EXCEPT !.out = <<>>]
               z == disableWriting(v)
    <3>1. handleWrite(x) = z
      BY <1>3, <2>6 DEF handleWrite, y, t
    <3>2. Heard(x)
      BY <2>6 DEF WriteFails, Heard
    <3>a. <<>> \in Seq(Byte)
      OBVIOUS
    <3>3. /\ v \in Conn /\ SameLife(y, v) /\ SameEvent(y, v) /\ v.out = <<>> /\ v.sent = y.sent
          /\ v.rcvd = y.rcvd /\ v.wire = y.wire /\ v.peer = y.peer
      BY <2>1, <3>a, OutSet
    <3> HIDE DEF v
    <3>4. v.events \ {"W"} \in SUBSET {"R", "W"} /\ "R" \in v.events \ {"W"} /\ v.statu = "added"
      BY <3>3, <2>1, <1>1 DEF SameEvent, Watched
    <3>5. /\ z \in Conn /\ SameLife(v, z) /\ z.out = v.out /\ z.sent = v.sent /\ z.peer = v.peer
          /\ z.rcvd = v.rcvd /\ z.wire = v.wire /\ z.events = v.events \ {"W"}
          /\ z.statu = "added" /\ z.reg = v.events \ {"W"}
      <4>1. z = updateEvent(v, v.events \ {"W"})
        BY DEF disableWriting
      <4> HIDE DEF z
      <4>2. v.events \ {"W"} # {}
        BY <3>4
      <4> QED BY <4>1, <4>2, <3>3, <3>4, Updates
    <3> HIDE DEF z
    <3>6. Watched(z) /\ SameLife(x, z) /\ z.peer # "absent"
      BY <3>3, <3>4, <3>5, <2>1, <2>2 DEF Watched, SameLife, SameEvent
    <3>7. Stream(z) = Stream(x)
      <4>1. p = s
        BY <2>6, <1>1, SubSeqFull
      <4>2. z.rcvd = x.rcvd /\ z.out = <<>> /\ z.wire = x.wire \o x.out
        BY <4>1, <3>3, <3>5, <2>1, <3>2
      <4>3. x.wire \o x.out \in Seq(Byte)
        BY <1>1, ConcatProperties
      <4>4. (x.wire \o x.out) \o <<>> = x.wire \o x.out
        BY <4>3, ConcatEmptySeq
      <4> QED BY <4>2, <4>4 DEF Stream
    <3>8. Flows(z)
      <4>1. Whole(z.rcvd) /\ Len(z.wire) <= Room /\ z.sent = x.sent /\ z.peer = x.peer
        BY <3>3, <3>5, <2>1, <2>2, <3>2
      <4> QED BY <4>1, <3>7 DEF Flows
    <3> QED BY <3>1, <3>5, <3>6, <3>8 DEF Serves
  <2>7. CASE ~WriteFails(x) /\ t # Len(s)
    <3> DEFINE z == [y EXCEPT !.out = rest]
    <3>1. handleWrite(x) = z
      BY <1>3, <2>7 DEF handleWrite, y, t
    <3>2. Heard(x)
      BY <2>7 DEF WriteFails, Heard
    <3> HIDE DEF rest, p
    <3>3. /\ z \in Conn /\ SameLife(y, z) /\ SameEvent(y, z) /\ z.out = rest /\ z.sent = y.sent
          /\ z.rcvd = y.rcvd /\ z.wire = y.wire /\ z.peer = y.peer
      BY <2>1, <2>4, OutSet
    <3> HIDE DEF z
    <3>4. Watched(z) /\ SameLife(x, z) /\ z.peer # "absent"
      BY <3>3, <2>1, <2>2 DEF Watched, SameLife, SameEvent
    <3>5. Stream(z) = Stream(x)
      <4>1. z.rcvd = x.rcvd /\ z.out = rest /\ z.wire = x.wire \o p
        BY <3>3, <2>1, <3>2
      <4> QED BY <4>1, <2>4 DEF Stream
    <3>6. Flows(z)
      <4>1. Whole(z.rcvd) /\ Len(z.wire) <= Room /\ z.sent = x.sent /\ z.peer = x.peer
        BY <3>3, <2>1, <2>2, <3>2
      <4> QED BY <4>1, <3>5 DEF Flows
    <3> QED BY <3>1, <3>3, <3>4, <3>6 DEF Serves
  <2> QED BY <2>5, <2>6, <2>7
<1> QED BY <1>2, <1>3

\* handleClose takes the event out of the poller and leaves the stream alone.
LEMMA DisableAllEnds ==
  ASSUME NEW x \in Conn, Watched(x), x.peer # "absent", Flows(x)
  PROVE  LET y == disableAll(x) IN
         /\ Serves(x, y) /\ Ended(y) /\ y.peer = x.peer /\ y.unread = x.unread
<1> DEFINE y == disableAll(x)
<1>1. /\ y \in Conn /\ SameLife(x, y) /\ y.out = x.out /\ y.sent = x.sent /\ y.peer = x.peer
      /\ y.unread = x.unread /\ y.rcvd = x.rcvd /\ y.wire = x.wire /\ y.events = {}
      /\ y.statu = "deleted" /\ y.reg = Unregistered
  <2>1. y = updateEvent(x, {})
    BY DEF disableAll
  <2> HIDE DEF y
  <2> QED BY <2>1, Updates DEF Watched
<1> HIDE DEF y
<1>2. Flows(y)
  BY <1>1 DEF Flows, Stream
<1> QED BY <1>1, <1>2 DEF Serves, Ended, y

\* Reading the input changes nothing of the output.
LEMMA UnreadTaken ==
  ASSUME NEW x \in Conn, NEW b \in BOOLEAN, Flows(x)
  PROVE  LET y == [x EXCEPT !.unread = b] IN
         /\ y \in Conn /\ SameLife(x, y) /\ SameEvent(x, y) /\ y.peer = x.peer /\ y.wire = x.wire
         /\ Flows(y) /\ y.unread = b
<1> DEFINE y == [x EXCEPT !.unread = b]
<1>1. y \in Conn /\ SameLife(x, y) /\ SameEvent(x, y)
  BY DEF Conn, SameLife, SameEvent
<1>2. /\ y.peer = x.peer /\ y.wire = x.wire /\ y.unread = b /\ y.rcvd = x.rcvd /\ y.out = x.out
      /\ y.sent = x.sent
  BY DEF Conn
<1> HIDE DEF y
<1>3. Flows(y)
  BY <1>2 DEF Flows, Stream
<1> QED BY <1>1, <1>2, <1>3 DEF y

\* A peer that stops listening changes nothing of the stream.
LEMMA PeerSet ==
  ASSUME NEW x \in Conn, NEW p \in {"absent", "open", "shut", "reset", "gone", "pipe"}, Flows(x),
         p \in {"absent", "open", "shut"} => x.peer \in {"absent", "open", "shut"}
  PROVE  LET y == [x EXCEPT !.peer = p] IN
         /\ y \in Conn /\ SameLife(x, y) /\ SameEvent(x, y) /\ y.peer = p /\ y.wire = x.wire
         /\ Flows(y) /\ y.unread = x.unread
<1> DEFINE y == [x EXCEPT !.peer = p]
<1>1. y \in Conn /\ SameLife(x, y) /\ SameEvent(x, y)
  BY DEF Conn, SameLife, SameEvent
<1>2. /\ y.peer = p /\ y.wire = x.wire /\ y.unread = x.unread /\ y.rcvd = x.rcvd /\ y.out = x.out
      /\ y.sent = x.sent
  BY DEF Conn
<1> HIDE DEF y
<1>3. Flows(y)
  BY <1>2 DEF Flows, Stream
<1> QED BY <1>1, <1>2, <1>3 DEF y

\* handleRead answers, or closes when the input has ended.
LEMMA HandleReadServes ==
  ASSUME NEW x \in Conn, NEW reply \in BOOLEAN, Watched(x), x.peer # "absent", Flows(x)
  PROVE  LET y == handleRead(x, reply) IN
         /\ Serves(x, y)
         /\ EndOfInput(x) => Ended(y)
         /\ ~EndOfInput(x) => /\ Watched(y)
                              /\ isWriting(x) => isWriting(y) /\ y.wire = x.wire /\ (Heard(y) => Heard(x))
<1>1. CASE x.unread
  <2> DEFINE y == [x EXCEPT !.unread = FALSE]
  <2>1. handleRead(x, reply) = IF reply THEN send(y) ELSE y
    BY <1>1 DEF handleRead
  <2>2. ~EndOfInput(x)
    BY <1>1 DEF EndOfInput
  <2>3. /\ y \in Conn /\ SameLife(x, y) /\ SameEvent(x, y) /\ y.peer = x.peer /\ y.wire = x.wire
        /\ Flows(y)
    BY UnreadTaken
  <2> HIDE DEF y
  <2>4. Watched(y) /\ (isWriting(x) => isWriting(y)) /\ y.peer # "absent"
    BY <2>3 DEF Watched, SameEvent, isWriting
  <2>5. CASE ~reply
    <3>1. handleRead(x, reply) = y
      BY <2>1, <2>5
    <3> QED BY <3>1, <2>2, <2>3, <2>4 DEF Serves, Heard
  <2>6. CASE reply
    <3> DEFINE z == send(y)
    <3>1. handleRead(x, reply) = z
      BY <2>1, <2>6
    <3>2. /\ Serves(y, z) /\ Watched(z)
          /\ isWriting(y) => isWriting(z) /\ z.wire = y.wire /\ z.peer = y.peer
      BY <2>3, <2>4, SendServes
    <3> HIDE DEF z
    <3>3. Serves(x, z)
      BY <3>2, <2>3 DEF Serves, SameLife
    <3> QED BY <3>1, <3>2, <3>3, <2>2, <2>3, <2>4 DEF Heard
  <2> QED BY <2>5, <2>6
<1>2. CASE ~x.unread /\ x.peer = "reset"
  <2> DEFINE y == [x EXCEPT !.peer = "gone"]
  <2>1. handleRead(x, reply) = y
    BY <1>2 DEF handleRead
  <2>2. ~EndOfInput(x)
    BY <1>2 DEF EndOfInput
  <2>3. /\ y \in Conn /\ SameLife(x, y) /\ SameEvent(x, y) /\ y.peer = "gone" /\ y.wire = x.wire
        /\ Flows(y)
    BY PeerSet
  <2> HIDE DEF y
  <2>4. Watched(y) /\ (isWriting(x) => isWriting(y)) /\ y.peer # "absent" /\ ~Heard(y)
    BY <2>3 DEF Watched, SameEvent, isWriting, Heard
  <2> QED BY <2>1, <2>2, <2>3, <2>4 DEF Serves
<1>3. CASE ~x.unread /\ x.peer # "reset" /\ EndOfInput(x)
  <2>1. handleRead(x, reply) = disableAll(x)
    BY <1>3 DEF handleRead
  <2> QED BY <2>1, <1>3, DisableAllEnds
<1>4. CASE ~x.unread /\ x.peer # "reset" /\ ~EndOfInput(x)
  <2>1. handleRead(x, reply) = x
    BY <1>4 DEF handleRead
  <2> QED BY <2>1, <1>4 DEF Serves, SameLife
<1> QED BY <1>1, <1>2, <1>3, <1>4

EventType == [c : 0 .. Last, in : BOOLEAN, out : BOOLEAN, hup : BOOLEAN]

\* handleEvent leaves the connection watched, or ended when it closes it.
LEMMA HandleEventServes ==
  ASSUME NEW x \in Conn, NEW reply \in BOOLEAN, NEW e \in EventType,
         Watched(x), x.peer # "absent", Flows(x),
         e.out => isWriting(x) /\ (Heard(x) => Space(x) > 0)
  PROVE  LET y == handleEvent(x, e, reply) IN
         /\ Serves(x, y)
         /\ IF Closes(x, e) THEN Ended(y) ELSE Watched(y)
<1> DEFINE closed == IF Hung(e) THEN disableAll(x) ELSE x
           read == IF e.in THEN handleRead(closed, reply) ELSE closed
           y == handleEvent(x, e, reply)
<1>0. e.in \in BOOLEAN /\ e.out \in BOOLEAN /\ e.hup \in BOOLEAN
  BY DEF EventType
<1>1. y = IF e.out THEN handleWrite(read) ELSE read
  BY DEF handleEvent
<1>2. CASE Hung(e)
  <2>1. read = disableAll(x)
    BY <1>2, <1>0 DEF Hung
  <2>2. Serves(x, disableAll(x)) /\ Ended(disableAll(x))
    BY DisableAllEnds
  <2>3. ~isWriting(disableAll(x))
    BY <2>2 DEF Ended, isWriting
  <2>4. handleWrite(disableAll(x)) = disableAll(x)
    BY <2>3 DEF handleWrite
  <2>5. y = disableAll(x)
    BY <1>1, <2>1, <2>4
  <2> QED BY <2>2, <2>5, <1>2 DEF Closes
<1>3. CASE ~Hung(e) /\ e.in
  <2> DEFINE r == handleRead(x, reply)
  <2>1. read = r
    BY <1>3
  <2>2. /\ Serves(x, r)
        /\ EndOfInput(x) => Ended(r)
        /\ ~EndOfInput(x) => /\ Watched(r)
                             /\ isWriting(x) => isWriting(r) /\ r.wire = x.wire /\ (Heard(r) => Heard(x))
    BY HandleReadServes
  <2>3. y = IF e.out THEN handleWrite(r) ELSE r
    BY <1>1, <2>1
  <2> HIDE DEF r, y
  <2>4. CASE EndOfInput(x)
    <3>1. ~isWriting(r)
      BY <2>2, <2>4 DEF Ended, isWriting
    <3>2. y = r
      BY <2>3, <3>1 DEF handleWrite
    <3> QED BY <3>2, <2>2, <2>4, <1>3 DEF Closes, y
  <2>5. CASE ~EndOfInput(x) /\ ~e.out
    <3>1. y = r
      BY <2>3, <2>5
    <3> QED BY <3>1, <2>2, <2>5, <1>3 DEF Closes, y
  <2>6. CASE ~EndOfInput(x) /\ e.out
    <3>1. r \in Conn /\ Watched(r) /\ r.peer # "absent" /\ Flows(r)
      BY <2>2, <2>6 DEF Serves
    <3>2. isWriting(r) /\ Heard(r) => Space(r) > 0
      BY <2>2, <2>6 DEF Space
    <3>3. Serves(r, handleWrite(r)) /\ Watched(handleWrite(r))
      BY <3>1, <3>2, HandleWriteServes
    <3>4. y = handleWrite(r)
      BY <2>3, <2>6
    <3>5. Serves(r, y) /\ Watched(y)
      BY <3>3, <3>4
    <3>6. Serves(x, y)
      BY <3>5, <2>2 DEF Serves, SameLife
    <3> QED BY <3>5, <3>6, <2>6, <1>3 DEF Closes, y
  <2> QED BY <2>4, <2>5, <2>6, <1>0
<1>4. CASE ~Hung(e) /\ ~e.in
  <2>1. read = x
    BY <1>4
  <2>2. ~Closes(x, e)
    BY <1>4 DEF Closes
  <2>3. y = IF e.out THEN handleWrite(x) ELSE x
    BY <1>1, <2>1
  <2>4. CASE e.out
    <3>1. Serves(x, handleWrite(x)) /\ Watched(handleWrite(x))
      BY <2>4, HandleWriteServes
    <3> QED BY <3>1, <2>2, <2>3, <2>4
  <2>5. CASE ~e.out
    <3>1. Serves(x, x)
      BY DEF Serves, SameLife
    <3> QED BY <3>1, <2>2, <2>3, <2>5
  <2> QED BY <2>4, <2>5, <1>0
<1> QED BY <1>2, <1>3, <1>4, <1>0

\* connectEstablished makes a connection watched, and tells the user so.
LEMMA Establishes ==
  ASSUME NEW x \in Conn, Unknown(x), x.peer # "absent", Flows(x), x.ups = 0
  PROVE  LET y == connectEstablished(x) IN
         /\ y \in Conn /\ y.state = "connected" /\ y.loop = x.loop /\ y.ups = 1 /\ y.downs = x.downs
         /\ Watched(y) /\ y.peer = x.peer /\ Flows(y)
<1> DEFINE v == [x EXCEPT !.state = "connected"]
           w == enableReading(v)
           y == [w EXCEPT !.ups = @ + 1]
<1>1. connectEstablished(x) = y
  BY DEF connectEstablished
<1>2. /\ v \in Conn /\ v.state = "connected" /\ v.loop = x.loop /\ v.ups = 0 /\ v.downs = x.downs
      /\ v.statu = "new" /\ v.events = {} /\ v.peer = x.peer /\ v.out = x.out /\ v.wire = x.wire
      /\ v.rcvd = x.rcvd /\ v.sent = x.sent
  BY DEF Conn, Unknown
<1> HIDE DEF v
<1>3. /\ w \in Conn /\ SameLife(v, w) /\ w.out = v.out /\ w.sent = v.sent /\ w.peer = v.peer
      /\ w.rcvd = v.rcvd /\ w.wire = v.wire /\ w.events = {"R"}
      /\ w.statu = "added" /\ w.reg = {"R"}
  <2>1. w = updateEvent(v, {"R"})
    BY <1>2 DEF enableReading
  <2> HIDE DEF w
  <2>2. {"R"} \in SUBSET {"R", "W"} /\ v.statu # "added"
    BY <1>2
  <2> QED BY <1>2, <2>1, <2>2, Updates
<1> HIDE DEF w
<1>a. w \in Conn /\ w.ups = 0
  BY <1>2, <1>3 DEF SameLife
<1>b. y = [w EXCEPT !.ups = 1]
  BY <1>a
<1> HIDE DEF y
<1>4. y \in Conn /\ y.ups = 1
  BY <1>a, <1>b DEF Conn
<1>5. /\ y.state = w.state /\ y.loop = w.loop /\ y.downs = w.downs /\ SameEvent(w, y)
      /\ y.peer = w.peer /\ y.out = w.out /\ y.wire = w.wire /\ y.rcvd = w.rcvd /\ y.sent = w.sent
  BY <1>a, <1>b DEF Conn, SameEvent
<1>6. Watched(y)
  BY <1>3, <1>5 DEF Watched, SameEvent
<1>7. y.state = "connected" /\ y.loop = x.loop /\ y.ups = 1 /\ y.downs = x.downs /\ y.peer = x.peer
  BY <1>2, <1>3, <1>4, <1>5 DEF SameLife
<1>8. Flows(y)
  BY <1>2, <1>3, <1>5 DEF Flows, Stream
<1> QED BY <1>1, <1>4, <1>6, <1>7, <1>8

\* connectDestroyed leaves nothing of the connection in the poller, and tells
\* the user so.
LEMMA Destroys ==
  ASSUME NEW x \in Conn, x.peer # "absent", Flows(x), x.downs = 0
  PROVE  LET y == connectDestroyed(x) IN
         /\ y \in Conn /\ y.state = "disconnected" /\ y.loop = x.loop /\ y.ups = x.ups /\ y.downs = 1
         /\ Unknown(y) /\ y.peer = x.peer /\ Flows(y)
<1> DEFINE v == [x EXCEPT !.state = "disconnected"]
           w == disableAll(v)
           z == [w EXCEPT !.downs = @ + 1]
           y == removeEvent(z)
<1>1. connectDestroyed(x) = y
  BY DEF connectDestroyed
<1>2. /\ v \in Conn /\ v.state = "disconnected" /\ v.loop = x.loop /\ v.ups = x.ups /\ v.downs = 0
      /\ v.peer = x.peer /\ v.out = x.out /\ v.wire = x.wire /\ v.rcvd = x.rcvd /\ v.sent = x.sent
  BY DEF Conn
<1> HIDE DEF v
<1>3. /\ w \in Conn /\ SameLife(v, w) /\ w.out = v.out /\ w.sent = v.sent /\ w.peer = v.peer
      /\ w.rcvd = v.rcvd /\ w.wire = v.wire /\ w.events = {}
      /\ w.statu = "added" \/ w.reg = Unregistered
  <2>1. w = updateEvent(v, {})
    BY DEF disableAll
  <2> HIDE DEF w
  <2> QED BY <1>2, <2>1, Updates
<1> HIDE DEF w
<1>a. w \in Conn /\ w.downs = 0
  BY <1>2, <1>3 DEF SameLife
<1>b. z = [w EXCEPT !.downs = 1]
  BY <1>a
<1> HIDE DEF z
<1>4. z \in Conn /\ z.downs = 1
  BY <1>a, <1>b DEF Conn
<1>5. /\ z.state = w.state /\ z.loop = w.loop /\ z.ups = w.ups /\ SameEvent(w, z)
      /\ z.peer = w.peer /\ z.out = w.out /\ z.wire = w.wire /\ z.rcvd = w.rcvd /\ z.sent = w.sent
  BY <1>a, <1>b DEF Conn, SameEvent
<1>6. y = [z EXCEPT !.statu = "new", !.reg = Unregistered]
  <2>1. CASE z.statu = "added"
    BY <2>1, <1>4 DEF removeEvent, update, Conn
  <2>2. CASE z.statu # "added"
    <3>1. z.reg = Unregistered
      BY <2>2, <1>3, <1>5 DEF SameEvent
    <3> QED BY <2>2, <3>1, <1>4 DEF removeEvent, Conn
  <2> QED BY <2>1, <2>2
<1> HIDE DEF y
<1>7. y \in Conn /\ y.statu = "new" /\ y.reg = Unregistered
  BY <1>4, <1>6 DEF Conn, Unregistered
<1>8. /\ SameLife(z, y) /\ y.events = z.events
      /\ y.peer = z.peer /\ y.out = z.out /\ y.wire = z.wire /\ y.rcvd = z.rcvd /\ y.sent = z.sent
  BY <1>4, <1>6 DEF Conn, SameLife
<1>9. Unknown(y)
  BY <1>3, <1>5, <1>7, <1>8 DEF Unknown, SameEvent
<1>10. y.state = "disconnected" /\ y.loop = x.loop /\ y.ups = x.ups /\ y.downs = 1 /\ y.peer = x.peer
  BY <1>2, <1>3, <1>4, <1>5, <1>8 DEF SameLife
<1>11. Flows(y)
  BY <1>2, <1>3, <1>5, <1>8 DEF Flows, Stream
<1> QED BY <1>1, <1>7, <1>9, <1>10, <1>11

-----------------------------------------------------------------------------
(* The functors that a loop has still to run, oldest first.                 *)

TaskType == [f : {"connectEstablished", "removeConnection", "connectDestroyed"}, c : Conns]

\* What a loop still has to run: the rest of its batch, then its queue.
TodoOf(b, r, f) == SubSeq(b, r + 1, Len(b)) \o f

Todo == [l \in Loops |-> TodoOf(batch[l], ran[l], functors[l])]

\* k is to be run by l.
Has(q, l, k) == \E i \in 1 .. Len(q[l]) : q[l][i] = k

\* No two of them are for one connection.
OneTask(q) ==
  \A l, m \in Loops : \A i \in 1 .. Len(q[l]), j \in 1 .. Len(q[m]) :
    q[l][i].c = q[m][j].c => l = m /\ i = j

\* What a loop still has to run is a sequence of functors.
LEMMA TodoType ==
  ASSUME NEW b \in Seq(TaskType), NEW f \in Seq(TaskType), NEW r \in 0 .. Len(b)
  PROVE  SubSeq(b, r + 1, Len(b)) \in Seq(TaskType) /\ TodoOf(b, r, f) \in Seq(TaskType)
<1> DEFINE n == Len(b)
           m == r + 1
<1>1. n \in Nat /\ r \in Nat /\ m \in Int /\ n \in Int
  BY LenProperties
<1>2. \A i \in m .. n : b[i] \in TaskType
  <2>1. \A i \in 1 .. n : b[i] \in TaskType
    BY ElementOfSeq
  <2> QED BY <2>1, <1>1
<1> HIDE DEF m, n
<1>3. SubSeq(b, m, n) \in Seq(TaskType)
  BY <1>1, <1>2, SubSeqProperties
<1>4. SubSeq(b, m, n) \o f \in Seq(TaskType)
  BY <1>3, ConcatProperties
<1> QED BY <1>3, <1>4 DEF TodoOf, m, n

\* queueInLoop adds to the end of what the loop has to run.
LEMMA TodoQueued ==
  ASSUME NEW b \in Seq(TaskType), NEW f \in Seq(TaskType), NEW r \in 0 .. Len(b), NEW k \in TaskType
  PROVE  TodoOf(b, r, Append(f, k)) = Append(TodoOf(b, r, f), k)
<1> DEFINE s == SubSeq(b, r + 1, Len(b))
<1>1. s \in Seq(TaskType)
  BY TodoType
<1> HIDE DEF s
<1>2. s \o Append(f, k) = Append(s \o f, k)
  BY <1>1
<1> QED BY <1>2 DEF TodoOf, s

\* Taking the queue as the batch changes nothing of what there is to run.
LEMMA TodoSwapped ==
  ASSUME NEW f \in Seq(TaskType)
  PROVE  TodoOf(<<>>, 0, f) = f /\ TodoOf(f, 0, <<>>) = f
<1>1. SubSeq(f, 1, Len(f)) = f
  BY SubSeqFull
<1>2. f \o <<>> = f /\ <<>> \o f = f
  BY ConcatEmptySeq
<1>3. SubSeq(<<>>, 0 + 1, Len(<<>>)) = <<>>
  OBVIOUS
<1> QED BY <1>1, <1>2, <1>3 DEF TodoOf

\* The functor that runs is the first of what there is to run.
LEMMA TodoRan ==
  ASSUME NEW b \in Seq(TaskType), NEW f \in Seq(TaskType), NEW r \in Nat, r < Len(b)
  PROVE  /\ TodoOf(b, r, f) # <<>> /\ Head(TodoOf(b, r, f)) = b[r + 1] /\ b[r + 1] \in TaskType
         /\ Tail(TodoOf(b, r, f)) = TodoOf(b, r + 1, f)
         /\ r + 1 = Len(b) => TodoOf(b, r + 1, f) = TodoOf(<<>>, 0, f)
<1> DEFINE n == Len(b)
           m == r + 1
           s == SubSeq(b, m, n)
           t == SubSeq(b, m + 1, n)
<1>1. n \in Nat /\ m \in 1 .. n /\ n \in m .. n /\ r \in 0 .. n
  BY LenProperties
<1>2. Head(s) = b[m] /\ Tail(s) = t
  BY <1>1, HeadTailOfSubSeq
<1>3. s \in Seq(TaskType)
  BY <1>1, TodoType
<1>4. b[m] \in TaskType
  BY <1>1, ElementOfSeq
<1>5. s # <<>>
  <2>1. \A i \in m .. n : b[i] \in TaskType
    BY <1>1, ElementOfSeq
  <2>2. Len(s) = n - m + 1
    BY <1>1, <2>1, SubSeqProperties
  <2> HIDE DEF s
  <2> QED BY <2>2, <1>1
<1>6. TodoOf(b, r, f) = s \o f /\ TodoOf(b, m, f) = t \o f
  BY DEF TodoOf
<1>7. r + 1 = Len(b) => TodoOf(b, r + 1, f) = TodoOf(<<>>, 0, f)
  <2> HAVE r + 1 = Len(b)
  <2>1. m + 1 \in Int /\ n \in Int /\ n < m + 1
    BY <1>1
  <2>2. t = <<>>
    BY <2>1, SubSeqEmpty
  <2>3. <<>> \o f = f
    BY ConcatEmptySeq
  <2> QED BY <2>2, <2>3, <1>6, TodoSwapped
<1> HIDE DEF s, t, n
<1>8. s \o f # <<>> /\ Head(s \o f) = Head(s) /\ Tail(s \o f) = Tail(s) \o f
  BY <1>3, <1>5
<1> QED BY <1>2, <1>4, <1>6, <1>7, <1>8

\* Queueing for a connection that nothing is queued for keeps one functor
\* per connection.
LEMMA OneMoreTask ==
  ASSUME NEW q \in [Loops -> Seq(TaskType)], NEW l \in Loops, NEW k \in TaskType,
         OneTask(q), \A m \in Loops : \A i \in 1 .. Len(q[m]) : q[m][i].c # k.c
  PROVE  LET p == [q EXCEPT ![l] = Append(@, k)] IN
         /\ p \in [Loops -> Seq(TaskType)] /\ OneTask(p)
         /\ \A m \in Loops : \A j : Has(p, m, j) <=> Has(q, m, j) \/ (m = l /\ j = k)
<1> DEFINE p == [q EXCEPT ![l] = Append(@, k)]
           n == Len(q[l])
<1>1. p \in [Loops -> Seq(TaskType)]
  OBVIOUS
<1>2. /\ Len(p[l]) = n + 1 /\ n \in Nat /\ p[l][n + 1] = k /\ \A i \in 1 .. n : p[l][i] = q[l][i]
      /\ \A m \in Loops : m # l => p[m] = q[m]
  OBVIOUS
<1> HIDE DEF p, n
<1>3. OneTask(p)
  <2> SUFFICES ASSUME NEW a \in Loops, NEW b \in Loops, NEW i \in 1 .. Len(p[a]), NEW j \in 1 .. Len(p[b]),
                      p[a][i].c = p[b][j].c
               PROVE  a = b /\ i = j
    BY DEF OneTask
  <2>1. \/ a = l /\ i = n + 1 /\ p[a][i] = k
        \/ i \in 1 .. Len(q[a]) /\ p[a][i] = q[a][i]
    BY <1>2 DEF n
  <2>2. \/ b = l /\ j = n + 1 /\ p[b][j] = k
        \/ j \in 1 .. Len(q[b]) /\ p[b][j] = q[b][j]
    BY <1>2 DEF n
  <2> QED BY <2>1, <2>2 DEF OneTask
<1>4. ASSUME NEW m \in Loops, NEW j
      PROVE  Has(p, m, j) <=> Has(q, m, j) \/ (m = l /\ j = k)
  <2>1. CASE m # l
    BY <2>1, <1>2 DEF Has
  <2>2. CASE m = l
    <3>1. ASSUME NEW i \in 1 .. Len(p[l]), p[l][i] = j PROVE Has(q, l, j) \/ j = k
      <4>1. i = n + 1 \/ i \in 1 .. n
        BY <1>2
      <4> QED BY <4>1, <3>1, <1>2 DEF Has, n
    <3>2. Has(q, l, j) => Has(p, l, j)
      <4>1. \A i \in 1 .. n : i \in 1 .. Len(p[l])
        BY <1>2
      <4> QED BY <4>1, <1>2 DEF Has, n
    <3>3. Has(p, l, k)
      <4>1. n + 1 \in 1 .. Len(p[l])
        BY <1>2
      <4> QED BY <4>1, <1>2 DEF Has
    <3> QED BY <2>2, <3>1, <3>2, <3>3 DEF Has
  <2> QED BY <2>1, <2>2
<1> QED BY <1>1, <1>3, <1>4 DEF p

\* After the functor ran nothing is queued for its connection.
LEMMA OneTaskLess ==
  ASSUME NEW q \in [Loops -> Seq(TaskType)], NEW l \in Loops, OneTask(q), q[l] # <<>>
  PROVE  LET p == [q EXCEPT ![l] = Tail(@)]
             k == Head(q[l]) IN
         /\ p \in [Loops -> Seq(TaskType)] /\ OneTask(p) /\ k \in TaskType /\ Has(q, l, k)
         /\ \A m \in Loops : \A i \in 1 .. Len(p[m]) : p[m][i].c # k.c
         /\ \A m \in Loops : \A j : Has(p, m, j) <=> Has(q, m, j) /\ j # k
<1> DEFINE p == [q EXCEPT ![l] = Tail(@)]
           n == Len(q[l])
           k == Head(q[l])
<1>1. p \in [Loops -> Seq(TaskType)]
  OBVIOUS
<1>2. /\ Len(p[l]) = n - 1 /\ n \in Nat /\ n > 0 /\ k = q[l][1] /\ k \in TaskType
      /\ \A i \in 1 .. n - 1 : p[l][i] = q[l][i + 1]
      /\ \A m \in Loops : m # l => p[m] = q[m]
  OBVIOUS
<1> HIDE DEF p, n, k
<1>3. 1 \in 1 .. Len(q[l])
  BY <1>2 DEF n
\* every element of p is an element of q, and not the head
<1>4. ASSUME NEW m \in Loops, NEW i \in 1 .. Len(p[m])
      PROVE  LET j == IF m = l THEN i + 1 ELSE i IN
             j \in 1 .. Len(q[m]) /\ p[m][i] = q[m][j] /\ (m = l => j # 1)
  BY <1>2 DEF n
<1>5. OneTask(p)
  <2> SUFFICES ASSUME NEW a \in Loops, NEW b \in Loops, NEW i \in 1 .. Len(p[a]), NEW j \in 1 .. Len(p[b]),
                      p[a][i].c = p[b][j].c
               PROVE  a = b /\ i = j
    BY DEF OneTask
  <2> DEFINE i2 == IF a = l THEN i + 1 ELSE i
             j2 == IF b = l THEN j + 1 ELSE j
  <2>1. i2 \in 1 .. Len(q[a]) /\ p[a][i] = q[a][i2]
    BY <1>4
  <2>2. j2 \in 1 .. Len(q[b]) /\ p[b][j] = q[b][j2]
    BY <1>4
  <2> HIDE DEF i2, j2
  <2>3. a = b /\ i2 = j2
    BY <2>1, <2>2 DEF OneTask
  <2> QED BY <2>3 DEF i2, j2
<1>6. ASSUME NEW m \in Loops, NEW i \in 1 .. Len(p[m])
      PROVE  p[m][i].c # k.c
  <2> DEFINE j == IF m = l THEN i + 1 ELSE i
  <2>1. j \in 1 .. Len(q[m]) /\ p[m][i] = q[m][j] /\ (m = l => j # 1)
    BY <1>4
  <2> HIDE DEF j
  <2>2. q[m][j].c = q[l][1].c => m = l /\ j = 1
    BY <2>1, <1>3 DEF OneTask
  <2> QED BY <2>1, <2>2, <1>2
<1>7. ASSUME NEW m \in Loops, NEW j
      PROVE  Has(p, m, j) <=> Has(q, m, j) /\ j # k
  <2>1. Has(p, m, j) => Has(q, m, j) /\ j # k
    <3> SUFFICES ASSUME NEW i \in 1 .. Len(p[m]), p[m][i] = j PROVE Has(q, m, j) /\ j # k
      BY DEF Has
    <3>1. Has(q, m, j)
      BY <1>4 DEF Has
    <3> QED BY <3>1, <1>6
  <2>2. Has(q, m, j) /\ j # k => Has(p, m, j)
    <3> SUFFICES ASSUME NEW i \in 1 .. Len(q[m]), q[m][i] = j, j # k PROVE Has(p, m, j)
      BY DEF Has
    <3>1. CASE m # l
      BY <3>1, <1>2 DEF Has
    <3>2. CASE m = l
      <4>1. i # 1
        BY <3>2, <1>2
      <4>2. i - 1 \in 1 .. n - 1 /\ (i - 1) + 1 = i
        BY <4>1, <3>2, <1>2 DEF n
      <4>3. p[l][i - 1] = q[l][i] /\ i - 1 \in 1 .. Len(p[l])
        BY <4>2, <1>2
      <4> QED BY <4>3, <3>2 DEF Has
    <3> QED BY <3>1, <3>2
  <2> QED BY <2>1, <2>2
<1>8. Has(q, l, k)
  BY <1>2, <1>3 DEF Has
<1> QED BY <1>1, <1>2, <1>5, <1>6, <1>7, <1>8 DEF p, k

\* n[c]: where the functor of connection c waits, and which it is.
Works == SUBSET (Loops \X {"connectEstablished", "removeConnection", "connectDestroyed"})

Consistent(q, n) ==
  /\ OneTask(q)
  /\ \A c \in Conns, l \in Loops, f \in {"connectEstablished", "removeConnection", "connectDestroyed"} :
       Has(q, l, Task(f, c)) <=> <<l, f>> \in n[c]

\* A functor is made of the member it calls and the connection it is bound to.
LEMMA TaskParts ==
  /\ \A k \in TaskType : /\ k = Task(k.f, k.c) /\ k.c \in Conns
                          /\ k.f \in {"connectEstablished", "removeConnection", "connectDestroyed"}
  /\ \A f, c : Task(f, c).f = f /\ Task(f, c).c = c
  /\ \A c \in Conns, f \in {"connectEstablished", "removeConnection", "connectDestroyed"} : Task(f, c) \in TaskType
<1>1. \A f, c : Task(f, c).f = f /\ Task(f, c).c = c
  BY DEF Task
<1>2. \A c \in Conns, f \in {"connectEstablished", "removeConnection", "connectDestroyed"} : Task(f, c) \in TaskType
  BY DEF TaskType, Task
<1>3. \A k \in TaskType : /\ k = Task(k.f, k.c) /\ k.c \in Conns
                          /\ k.f \in {"connectEstablished", "removeConnection", "connectDestroyed"}
  BY DEF TaskType, Task
<1> QED BY <1>1, <1>2, <1>3

\* A connection that gets something to do and a functor for it stay consistent.
LEMMA MoreConsistent ==
  ASSUME NEW q \in [Loops -> Seq(TaskType)], NEW n \in [Conns -> Works], Consistent(q, n),
         NEW l \in Loops, NEW c \in Conns,
         NEW f \in {"connectEstablished", "removeConnection", "connectDestroyed"}, n[c] = {}
  PROVE  LET p == [q EXCEPT ![l] = Append(@, Task(f, c))] IN
         /\ p \in [Loops -> Seq(TaskType)]
         /\ Consistent(p, [n EXCEPT ![c] = {<<l, f>>}])
<1> DEFINE k == Task(f, c)
           p == [q EXCEPT ![l] = Append(@, k)]
           n2 == [n EXCEPT ![c] = {<<l, f>>}]
<1>1. k \in TaskType /\ k.c = c
  BY TaskParts
<1>2. ASSUME NEW m \in Loops, NEW i \in 1 .. Len(q[m]) PROVE q[m][i].c # k.c
  <2>1. q[m][i] \in TaskType
    BY ElementOfSeq
  <2>2. q[m][i] = Task(q[m][i].f, q[m][i].c)
        /\ q[m][i].f \in {"connectEstablished", "removeConnection", "connectDestroyed"}
    BY <2>1, TaskParts
  <2>3. Has(q, m, q[m][i])
    BY DEF Has
  <2>4. q[m][i].c = c => <<m, q[m][i].f>> \in n[c]
    BY <2>2, <2>3 DEF Consistent
  <2> QED BY <2>4, <1>1
<1> HIDE DEF k
<1>3. /\ p \in [Loops -> Seq(TaskType)] /\ OneTask(p)
      /\ \A m \in Loops : \A j : Has(p, m, j) <=> Has(q, m, j) \/ (m = l /\ j = k)
  BY <1>1, <1>2, OneMoreTask DEF Consistent
<1> HIDE DEF p
<1>4. ASSUME NEW d \in Conns, NEW m \in Loops,
             NEW g \in {"connectEstablished", "removeConnection", "connectDestroyed"}
      PROVE  Has(p, m, Task(g, d)) <=> <<m, g>> \in n2[d]
  <2>1. Has(p, m, Task(g, d)) <=> <<m, g>> \in n[d] \/ (m = l /\ Task(g, d) = k)
    <3>1. Has(p, m, Task(g, d)) <=> Has(q, m, Task(g, d)) \/ (m = l /\ Task(g, d) = k)
      BY <1>3
    <3>2. Has(q, m, Task(g, d)) <=> <<m, g>> \in n[d]
      BY DEF Consistent
    <3> QED BY <3>1, <3>2
  <2>2. Task(g, d) = k <=> g = f /\ d = c
    <3>1. Task(g, d).f = g /\ Task(g, d).c = d /\ Task(f, c).f = f /\ Task(f, c).c = c
      BY TaskParts
    <3> QED BY <3>1 DEF k
  <2>3. CASE d = c
    BY <2>1, <2>2, <2>3
  <2>4. CASE d # c
    BY <2>1, <2>2, <2>4
  <2> QED BY <2>3, <2>4
<1> QED BY <1>3, <1>4 DEF Consistent, p, k

\* So do a connection whose functor ran and that has nothing left to do.
LEMMA LessConsistent ==
  ASSUME NEW q \in [Loops -> Seq(TaskType)], NEW n \in [Conns -> Works], Consistent(q, n),
         NEW l \in Loops, q[l] # <<>>
  PROVE  LET p == [q EXCEPT ![l] = Tail(@)]
             k == Head(q[l]) IN
         /\ p \in [Loops -> Seq(TaskType)] /\ k \in TaskType /\ <<l, k.f>> \in n[k.c]
         /\ Consistent(p, [n EXCEPT ![k.c] = {}])
<1> DEFINE p == [q EXCEPT ![l] = Tail(@)]
           k == Head(q[l])
           n2 == [n EXCEPT ![k.c] = {}]
<1>1. /\ p \in [Loops -> Seq(TaskType)] /\ OneTask(p) /\ k \in TaskType /\ Has(q, l, k)
      /\ \A m \in Loops : \A i \in 1 .. Len(p[m]) : p[m][i].c # k.c
      /\ \A m \in Loops : \A j : Has(p, m, j) <=> Has(q, m, j) /\ j # k
  BY OneTaskLess DEF Consistent
<1> HIDE DEF p, k
<1>2. <<l, k.f>> \in n[k.c]
  <2>1. k = Task(k.f, k.c) /\ k.c \in Conns
        /\ k.f \in {"connectEstablished", "removeConnection", "connectDestroyed"}
    BY <1>1, TaskParts
  <2>2. Has(q, l, Task(k.f, k.c))
    BY <1>1, <2>1
  <2> QED BY <2>1, <2>2 DEF Consistent
<1>3. ASSUME NEW d \in Conns, NEW m \in Loops,
             NEW g \in {"connectEstablished", "removeConnection", "connectDestroyed"}
      PROVE  Has(p, m, Task(g, d)) <=> <<m, g>> \in n2[d]
  <2>1. CASE d = k.c
    <3>1. n2[d] = {}
      BY <2>1
    <3>2. Task(g, d).c = k.c
      BY <2>1, TaskParts
    <3>3. ~Has(p, m, Task(g, d))
      BY <1>1, <3>2 DEF Has
    <3> QED BY <3>1, <3>3
  <2>2. CASE d # k.c
    <3>1. n2[d] = n[d]
      BY <2>2
    <3>2. Task(g, d) # k
      BY <2>2, TaskParts
    <3>3. Has(p, m, Task(g, d)) <=> Has(q, m, Task(g, d))
      BY <1>1, <3>2
    <3> QED BY <3>1, <3>3 DEF Consistent
  <2> QED BY <2>1, <2>2
<1> QED BY <1>1, <1>2, <1>3 DEF Consistent, p, k

-----------------------------------------------------------------------------
(* The inductive invariant.                                                 *)

Types ==
  /\ cn \in [Conns -> Conn] /\ connections \in SUBSET Conns /\ nextConnId \in 1 .. Last + 1
  /\ pool \in Pools /\ next \in Nat /\ (pool # <<>> => next \in 1 .. Len(pool))
  /\ pc \in [Loops -> {"poll", "events", "functors"}]
  /\ active \in [Loops -> SUBSET EventType]
  /\ functors \in [Loops -> Seq(TaskType)] /\ batch \in [Loops -> Seq(TaskType)]
  /\ ran \in [Loops -> Nat]

\* The batch exists only while functors run, events only while they are handled.
InLoop == \A l \in Loops : /\ IF pc[l] = "functors" THEN ran[l] < Len(batch[l])
                              ELSE ran[l] = 0 /\ batch[l] = <<>>
                           /\ pc[l] # "events" => active[l] = {}

\* Where a connection can be; mapped says whether the server's map has it.
InStage(x, mapped) ==
  CASE x.state = "none"         -> ~mapped /\ Unknown(x) /\ x.ups = 0 /\ x.downs = 0
    [] x.state = "connecting"   -> mapped /\ Unknown(x) /\ x.ups = 0 /\ x.downs = 0
    [] x.state = "connected"    -> /\ x.ups = 1 /\ x.downs = 0
                                   /\ \/ Ended(x) /\ (mapped => x.loop # Base)
                                      \/ mapped /\ Watched(x)
    [] x.state = "disconnected" -> ~mapped /\ Unknown(x) /\ x.ups = 1 /\ x.downs = 1

\* What a loop has still to do for it.
Needed(x, mapped) ==
  IF x.state = "connecting" THEN {<<x.loop, "connectEstablished">>}
  ELSE IF x.state = "connected" /\ ~mapped THEN {<<x.loop, "connectDestroyed">>}
  ELSE IF x.state = "connected" /\ Ended(x) THEN {<<Base, "removeConnection">>}
  ELSE {}

\* What each connection needs is queued, and nothing else is.
Needs == [c \in Conns |-> Needed(cn[c], c \in connections)]

\* Every connection is in its stage, and those accepted are the first ones.
Stages == \A c \in Conns : /\ InStage(cn[c], c \in connections)
                           /\ Accepted(c) <=> c < nextConnId
                           /\ Accepted(c) => cn[c].peer # "absent"

TasksWait == Consistent(Todo, Needs)

\* An event that waits in a loop is of a connection that the loop serves.
EventFits(l, e) ==
  \/ e = Acceptor /\ l = Base /\ nextConnId \in Conns /\ cn[nextConnId].peer # "absent"
  \/ /\ e.c \in Conns /\ cn[e.c].loop = l /\ cn[e.c].state = "connected" /\ Watched(cn[e.c])
     /\ e.out => isWriting(cn[e.c]) /\ (Heard(cn[e.c]) => Space(cn[e.c]) > 0)

EventsFit == \A l \in Loops : \A e \in active[l] :
               EventFits(l, e) /\ \A f \in active[l] : e.c = f.c => e = f

\* Every stream is whole.
AllFlow == \A c \in Conns : Flows(cn[c])

\* The inductive invariant.
ConnectionsInOrder == Types /\ InLoop /\ Stages /\ TasksWait /\ EventsFit /\ AllFlow

\* The loops of a pool are loops, none of them the base loop.
LEMMA LoopsAreThere ==
  /\ Base \in Loops /\ \A p \in Pools : p \in Seq(Loops) /\ \A i \in 1 .. Len(p) : p[i] \in Loops \ {Base}
<1>1. Base \in Loops
  BY DEF Loops
<1>2. ASSUME NEW p \in Pools PROVE p \in Seq(Loops) /\ \A i \in 1 .. Len(p) : p[i] \in Loops \ {Base}
  <2>1. p \in Seq(Loops) /\ Base \notin Range(p)
    BY <1>2, ConnectionAssumption
  <2>2. \A i \in 1 .. Len(p) : p[i] \in Loops /\ p[i] \in Range(p)
    BY <2>1 DEF Range
  <2> QED BY <2>1, <2>2
<1> QED BY <1>1, <1>2

\* What a connection needs is a set of calls, each on a loop.
LEMMA NeedsType ==
  ASSUME Types PROVE Needs \in [Conns -> Works]
<1> SUFFICES ASSUME NEW c \in Conns PROVE Needed(cn[c], c \in connections) \in Works
  BY DEF Needs
<1>1. cn[c].loop \in Loops
  BY DEF Types, Conn
<1> QED BY <1>1, LoopsAreThere DEF Needed, Works

\* What each loop has to run, and its place in the batch, have their types.
LEMMA TodosType ==
  ASSUME Types, InLoop
  PROVE  /\ Todo \in [Loops -> Seq(TaskType)]
         /\ \A l \in Loops : ran[l] \in 0 .. Len(batch[l])
<1>1. ASSUME NEW l \in Loops
      PROVE  /\ ran[l] \in 0 .. Len(batch[l]) /\ batch[l] \in Seq(TaskType) /\ functors[l] \in Seq(TaskType)
  <2>1. /\ batch[l] \in Seq(TaskType) /\ functors[l] \in Seq(TaskType) /\ ran[l] \in Nat
    BY DEF Types
  <2>2. CASE pc[l] = "functors"
    BY <2>1, <2>2 DEF InLoop
  <2>3. CASE pc[l] # "functors"
    <3>1. ran[l] = 0 /\ Len(batch[l]) = 0
      BY <2>3 DEF InLoop
    <3> QED BY <3>1, <2>1
  <2> QED BY <2>1, <2>2, <2>3
<1>2. \A l \in Loops : TodoOf(batch[l], ran[l], functors[l]) \in Seq(TaskType)
  BY <1>1, TodoType
<1> QED BY <1>1, <1>2 DEF Todo

\* No connection exists when the loops start.
LEMMA InitInOrder ==
  ASSUME Init PROVE ConnectionsInOrder
<1>1. cn = [c \in Conns |-> Fresh]
  BY DEF Init
<1>2. \A c \in Conns : cn[c] = Fresh
  BY <1>1
<1>3. /\ Fresh.state = "none" /\ Unknown(Fresh) /\ Fresh.ups = 0 /\ Fresh.downs = 0
      /\ Fresh.peer = "absent" /\ Fresh.wire = <<>> /\ Fresh.rcvd = <<>> /\ Fresh.out = <<>> /\ Fresh.sent = 0
  BY FreshType DEF Unknown
<1>4. Fresh \in Conn
  BY LoopsAreThere DEF Fresh, FreshEvent, Unregistered, Conn
<1>5. Types
  <2>1. cn \in [Conns -> Conn]
    BY <1>1, <1>4
  <2>2. connections \in SUBSET Conns /\ nextConnId \in 1 .. Last + 1
    BY ConnectionAssumption DEF Init
  <2>3. pool \in Pools /\ next \in Nat /\ (pool # <<>> => next \in 1 .. Len(pool))
    <3>1. pool \in Seq(Loops) /\ next = 1 /\ pool \in Pools
      BY LoopsAreThere DEF Init
    <3> QED BY <3>1, EmptySeq
  <2>4. /\ pc \in [Loops -> {"poll", "events", "functors"}]
        /\ active \in [Loops -> SUBSET EventType]
        /\ functors \in [Loops -> Seq(TaskType)] /\ batch \in [Loops -> Seq(TaskType)]
        /\ ran \in [Loops -> Nat]
    BY DEF Init
  <2> QED BY <2>1, <2>2, <2>3, <2>4 DEF Types
<1>6. InLoop
  BY DEF Init, InLoop
<1>7. Stages
  <2>1. connections = {} /\ nextConnId = 1
    BY DEF Init
  <2>2. \A c \in Conns : c >= 1
    BY ConnectionAssumption DEF Conns
  <2>3. InStage(Fresh, FALSE)
    BY <1>3 DEF InStage
  <2>4. \A c \in Conns : (c \in connections) = FALSE /\ ~(c < nextConnId)
    BY <2>1, <2>2, ConnectionAssumption DEF Conns
  <2> QED BY <1>2, <1>3, <2>3, <2>4 DEF Stages, Accepted
<1>8. TasksWait
  <2>1. \A l \in Loops : Todo[l] = <<>>
    <3>1. \A l \in Loops : batch[l] = <<>> /\ ran[l] = 0 /\ functors[l] = <<>>
      BY DEF Init
    <3>2. <<>> \in Seq(TaskType)
      OBVIOUS
    <3>3. TodoOf(<<>>, 0, <<>>) = <<>>
      BY <3>2, TodoSwapped
    <3> QED BY <3>1, <3>3 DEF Todo
  <2>2. \A c \in Conns : Needs[c] = {}
    BY <1>2, <1>3 DEF Needs, Needed
  <2>3. \A l \in Loops : Len(Todo[l]) = 0
    BY <2>1
  <2> QED BY <2>2, <2>3 DEF TasksWait, Consistent, OneTask, Has
<1>9. EventsFit
  BY DEF Init, EventsFit
<1>10. AllFlow
  <2>1. Len(<<>>) <= Room /\ Whole(<<>>) /\ Ends(<<>>, 0) /\ <<>> \o (<<>> \o <<>>) = <<>>
    BY ConnectionAssumption DEF Whole, Ends
  <2>2. Flows(Fresh)
    BY <1>3, <2>1 DEF Flows, Stream
  <2> QED BY <1>2, <2>2 DEF AllFlow
<1> QED BY <1>5, <1>6, <1>7, <1>8, <1>9, <1>10 DEF ConnectionsInOrder

-----------------------------------------------------------------------------
(* The peer.                                                                *)

\* A step of the peer that leaves the life of the connection and what epoll
\* knows alone, and never takes room away, keeps the invariant.
LEMMA PeerStep ==
  ASSUME ConnectionsInOrder, NEW c \in Conns, NEW x \in Conn, Peer(c, x),
         SameLife(cn[c], x), SameEvent(cn[c], x), Flows(x), x.peer # "absent",
         cn[c].peer # "absent" /\ Heard(x) => Heard(cn[c]) /\ Space(x) >= Space(cn[c])
  PROVE  ConnectionsInOrder'
<1> USE DEF ConnectionsInOrder
<1>1. cn' = [cn EXCEPT ![c] = x]
      /\ UNCHANGED <<connections, nextConnId, pool, next, limit, pc, active, functors, batch, ran>>
  BY DEF Peer
<1>2. cn'[c] = x /\ \A d \in Conns : d # c => cn'[d] = cn[d]
  BY <1>1 DEF Types
<1>3. Types'
  BY <1>1 DEF Types
<1>4. InLoop'
  BY <1>1 DEF InLoop
<1>5. \A d \in Conns : SameLife(cn[d], cn'[d]) /\ SameEvent(cn[d], cn'[d])
                       /\ (cn[d].peer # "absent" => cn'[d].peer # "absent")
  BY <1>2 DEF SameLife, SameEvent
<1>6. Stages'
  <2> SUFFICES ASSUME NEW d \in Conns
               PROVE  /\ InStage(cn'[d], d \in connections)
                      /\ cn'[d].state # "none" <=> d < nextConnId
                      /\ cn'[d].state # "none" => cn'[d].peer # "absent"
    BY <1>1 DEF Stages, Accepted
  <2>1. /\ InStage(cn[d], d \in connections)
        /\ cn[d].state # "none" <=> d < nextConnId
        /\ cn[d].state # "none" => cn[d].peer # "absent"
    BY DEF Stages, Accepted
  <2>2. InStage(cn'[d], d \in connections)
    BY <2>1, <1>5 DEF InStage, SameLife, SameEvent, Unknown, Watched, Ended
  <2> QED BY <2>1, <2>2, <1>5 DEF SameLife
<1>7. TasksWait'
  <2>1. Todo' = Todo
    BY <1>1 DEF Todo
  <2>2. \A d \in Conns : Needed(cn'[d], d \in connections) = Needed(cn[d], d \in connections)
    BY <1>5 DEF Needed, SameLife, SameEvent, Ended
  <2>3. Needs' = Needs
    BY <2>2, <1>1 DEF Needs
  <2> QED BY <2>1, <2>3 DEF TasksWait
<1>8. EventsFit'
  <2> SUFFICES ASSUME NEW l \in Loops, NEW e \in active[l]
               PROVE  EventFits(l, e)' /\ \A f \in active[l] : e.c = f.c => e = f
    BY <1>1 DEF EventsFit
  <2>1. EventFits(l, e) /\ \A f \in active[l] : e.c = f.c => e = f
    BY DEF EventsFit
  <2>2. CASE e = Acceptor /\ l = Base /\ nextConnId \in Conns /\ cn[nextConnId].peer # "absent"
    <3>1. nextConnId' \in Conns /\ cn'[nextConnId'].peer # "absent"
      BY <1>1, <1>5, <2>2
    <3> QED BY <3>1, <2>1, <2>2 DEF EventFits
  <2>3. CASE /\ e.c \in Conns /\ cn[e.c].loop = l /\ cn[e.c].state = "connected" /\ Watched(cn[e.c])
             /\ e.out => isWriting(cn[e.c]) /\ (Heard(cn[e.c]) => Space(cn[e.c]) > 0)
    <3>1. cn[e.c].peer # "absent"
      BY <2>3 DEF Stages, Accepted
    <3>2. cn'[e.c].loop = l /\ cn'[e.c].state = "connected" /\ Watched(cn'[e.c])
          /\ (isWriting(cn[e.c]) => isWriting(cn'[e.c]))
      BY <2>3, <1>5 DEF SameLife, SameEvent, Watched, isWriting
    <3>3. Heard(cn'[e.c]) /\ Space(cn[e.c]) > 0 => Space(cn'[e.c]) > 0
      <4>1. CASE e.c # c
        BY <4>1, <2>3, <1>2
      <4>2. CASE e.c = c
        <5>1. cn[c].wire \in Seq(Byte) /\ x.wire \in Seq(Byte) /\ Room \in Nat
          BY ConnectionAssumption DEF Types, Conn
        <5>2. Space(cn[c]) \in Int /\ Space(x) \in Int
          BY <5>1 DEF Space
        <5> QED BY <5>2, <4>2, <3>1, <1>2
      <4> QED BY <4>1, <4>2
    <3>4. Heard(cn'[e.c]) => Heard(cn[e.c])
      BY <2>3, <1>2, <3>1
    <3> QED BY <2>1, <2>3, <3>2, <3>3, <3>4 DEF EventFits
  <2> QED BY <2>1, <2>2, <2>3 DEF EventFits
<1>9. AllFlow'
  BY <1>2 DEF AllFlow
<1> QED BY <1>3, <1>4, <1>6, <1>7, <1>8, <1>9

\* Each of the peer's steps is one.
LEMMA PeerSteps ==
  ASSUME ConnectionsInOrder, NEW c \in Conns,
         Connect(c) \/ PeerSends(c) \/ PeerReceives(c) \/ PeerShuts(c) \/ PeerResets(c)
  PROVE  ConnectionsInOrder'
<1> DEFINE x == cn[c]
<1>1. x \in Conn /\ Flows(x) /\ x.wire \in Seq(Byte) /\ x.rcvd \in Seq(Byte) /\ x.out \in Seq(Byte)
  BY DEF ConnectionsInOrder, Types, AllFlow, Conn
<1>a. Len(x.wire) \in Nat /\ Room \in Nat /\ Space(x) \in Int
  BY <1>1, LenProperties, ConnectionAssumption DEF Space
<1>2. CASE Connect(c) \/ PeerShuts(c)
  <2>1. PICK p \in {"open", "shut"} : Peer(c, [x EXCEPT !.peer = p]) /\ x.peer \in {"absent", "open", "shut"}
                                   /\ (x.peer = "absent" \/ Heard(x))
    BY <1>2, Zenon DEF Connect, PeerShuts, Heard
  <2> DEFINE y == [x EXCEPT !.peer = p]
  <2> HIDE DEF x
  <2>2. /\ y \in Conn /\ SameLife(x, y) /\ SameEvent(x, y) /\ y.peer = p /\ y.wire = x.wire
        /\ Flows(y)
    <3>1. p \in {"absent", "open", "shut", "reset", "gone", "pipe"}
      OBVIOUS
    <3>2. p \in {"absent", "open", "shut"} => x.peer \in {"absent", "open", "shut"}
      BY <2>1
    <3>3. x \in Conn /\ Flows(x)
      BY <1>1
    <3> QED BY <3>1, <3>2, <3>3, PeerSet
  <2>3. Peer(c, y)
    BY <2>1
  <2> HIDE DEF y
  <2>4. Space(y) >= Space(x) /\ y.peer # "absent"
    BY <2>1, <2>2, <1>a DEF Space
  <2> QED BY <2>1, <2>2, <2>3, <2>4, PeerStep DEF x
<1>3. CASE PeerSends(c)
  <2> DEFINE y == [x EXCEPT !.unread = TRUE]
  <2>1. Peer(c, y) /\ x.peer = "open"
    BY <1>3 DEF PeerSends
  <2>2. /\ y \in Conn /\ SameLife(x, y) /\ SameEvent(x, y) /\ y.peer = x.peer /\ y.wire = x.wire
        /\ Flows(y)
    BY <1>1, UnreadTaken
  <2> HIDE DEF y
  <2>3. Space(y) >= Space(x) /\ y.peer # "absent" /\ Heard(x)
    BY <2>1, <2>2, <1>a DEF Space, Heard
  <2> QED BY <2>1, <2>2, <2>3, PeerStep
<1>4. CASE PeerReceives(c)
  <2> DEFINE w == Tail(x.wire)
             r == Append(x.rcvd, Head(x.wire))
             y == [x EXCEPT !.wire = w, !.rcvd = r]
  <2>1. Peer(c, y) /\ Heard(x) /\ x.wire # <<>>
    BY <1>4 DEF PeerReceives, Heard
  <2>2. w \in Seq(Byte) /\ r \in Seq(Byte) /\ Len(w) = Len(x.wire) - 1
    BY <1>1, <2>1
  <2>3. r \o w = x.rcvd \o x.wire
    BY <1>1, <2>1, HeadMoves
  <2> HIDE DEF w, r
  <2>4. y \in Conn /\ SameLife(x, y) /\ SameEvent(x, y)
    BY <1>1, <2>2 DEF Conn, SameLife, SameEvent
  <2>5. y.wire = w /\ y.rcvd = r /\ y.out = x.out /\ y.sent = x.sent /\ y.peer = x.peer
    BY <1>1 DEF Conn
  <2> HIDE DEF y, x
  <2>6. Stream(y) = Stream(x)
    <3>1. r \o (w \o x.out) = (r \o w) \o x.out
      BY <2>2, <1>1, JoinBytes
    <3>2. x.rcvd \o (x.wire \o x.out) = (x.rcvd \o x.wire) \o x.out
      BY <1>1, JoinBytes
    <3> QED BY <3>1, <3>2, <2>3, <2>5 DEF Stream
  <2>7. Flows(y)
    <3>1. Whole(Stream(y)) /\ Ends(Stream(y), y.sent)
      BY <2>1, <2>5, <2>6, <1>1 DEF Flows, Heard
    <3>2. w \o x.out \in Seq(Byte)
      BY <2>2, <1>1, ConcatProperties
    <3>3. Whole(r)
      BY <3>1, <3>2, <2>2, <2>5, WholePrefix DEF Stream
    <3>4. Len(w) <= Room
      BY <2>2, <1>1, <1>a DEF Flows
    <3> QED BY <3>1, <3>3, <3>4, <2>5 DEF Flows
  <2>8. Space(y) >= Space(x) /\ y.peer # "absent"
    BY <2>1, <2>2, <2>5, <1>a DEF Space, Heard
  <2> QED BY <2>1, <2>4, <2>7, <2>8, PeerStep DEF x
<1>5. CASE PeerResets(c)
  <2> DEFINE y == [x EXCEPT !.peer = "reset", !.wire = <<>>]
  <2>1. Peer(c, y) /\ Heard(x)
    BY <1>5 DEF PeerResets, Heard
  <2> HIDE DEF x
  <2> DEFINE w == <<>>
             z == [x EXCEPT !.peer = "reset", !.wire = w]
  <2>a. w \in Seq(Byte) /\ y = z
    OBVIOUS
  <2> HIDE DEF w
  <2>b. z \in Conn
    BY <1>1, <2>a DEF Conn
  <2>c. SameLife(x, z) /\ SameEvent(x, z)
    BY <1>1 DEF Conn, SameLife, SameEvent
  <2>2. y \in Conn /\ SameLife(x, y) /\ SameEvent(x, y)
    BY <2>a, <2>b, <2>c
  <2>3. y.wire = <<>> /\ y.rcvd = x.rcvd /\ y.peer = "reset"
    BY <1>1 DEF Conn
  <2> HIDE DEF y, x
  <2>4. Flows(y)
    BY <2>3, <1>1, <1>a DEF Flows
  <2>5. y.peer # "absent" /\ ~Heard(y)
    BY <2>3 DEF Heard
  <2> QED BY <2>1, <2>2, <2>4, <2>5, PeerStep DEF x
<1> QED BY <1>2, <1>3, <1>4, <1>5

-----------------------------------------------------------------------------
(* A loop polls and takes its functors.                                     *)

\* The fields of an event that epoll_wait returns.
LEMMA EventFields ==
  ASSUME NEW d
  PROVE  /\ Event(d).c = d
         /\ Event(d).out => "W" \in cn[d].reg /\ (Space(cn[d]) > 0 \/ cn[d].peer \notin {"open", "shut"})
         /\ Event(d).in \in BOOLEAN /\ Event(d).out \in BOOLEAN /\ Event(d).hup \in BOOLEAN
         /\ d \in 0 .. Last => Event(d) \in EventType
<1>1. Event(d).in \in BOOLEAN
  BY Zenon DEF Event
<1>a. Event(d).out \in BOOLEAN
  BY Zenon DEF Event
<1>b. Event(d).hup \in BOOLEAN
  BY DEF Event
<1>c. Event(d).c = d
  BY DEF Event
<1>2. Event(d).out \in BOOLEAN /\ Event(d).hup \in BOOLEAN /\ Event(d).c = d
  BY <1>a, <1>b, <1>c
<1>3. Event(d).out => "W" \in cn[d].reg /\ (Space(cn[d]) > 0 \/ cn[d].peer \notin {"open", "shut"})
  BY Zenon DEF Event
<1>4. Event(d) = [c |-> Event(d).c, in |-> Event(d).in, out |-> Event(d).out, hup |-> Event(d).hup]
  BY Zenon DEF Event
<1>5. d \in 0 .. Last => Event(d) \in EventType
  BY <1>1, <1>2, <1>4 DEF EventType
<1> QED BY <1>1, <1>2, <1>3, <1>5

\* epoll_wait returns events of watched connections only.
LEMMA PollStep ==
  ASSUME ConnectionsInOrder, NEW l \in Loops, Poll(l)
  PROVE  ConnectionsInOrder'
<1> USE DEF ConnectionsInOrder
<1>1. /\ pc[l] = "poll" /\ active' = [active EXCEPT ![l] = Ready(l)] /\ pc' = [pc EXCEPT ![l] = "events"]
      /\ UNCHANGED <<cn, connections, nextConnId, pool, next, limit, functors, batch, ran>>
  BY DEF Poll
<1>2. Acceptor \in EventType /\ Acceptor.c = 0 /\ 0 \notin Conns /\ Conns \subseteq 0 .. Last
  BY ConnectionAssumption DEF Acceptor, EventType, Conns
<1>3. ASSUME NEW e \in Ready(l)
      PROVE  /\ e \in EventType /\ EventFits(l, e)
             /\ e = Acceptor \/ (e.c \in Conns /\ e = Event(e.c))
  <2>1. \/ \E d \in Conns : e = Event(d) /\ cn[d].loop = l /\ cn[d].reg # Unregistered
        \/ e = Acceptor /\ l = Base /\ nextConnId \in Conns /\ cn[nextConnId].peer # "absent"
    BY DEF Ready
  <2>2. CASE e = Acceptor /\ l = Base /\ nextConnId \in Conns /\ cn[nextConnId].peer # "absent"
    BY <2>2, <1>2 DEF EventFits
  <2>3. ASSUME NEW d \in Conns, e = Event(d), cn[d].loop = l, cn[d].reg # Unregistered
        PROVE  /\ e \in EventType /\ EventFits(l, e)
               /\ e = Acceptor \/ (e.c \in Conns /\ e = Event(e.c))
    <3>1. e.c = d /\ e \in EventType
      BY <2>3, <1>2, EventFields
    <3>2. cn[d].state = "connected" /\ Watched(cn[d])
      <4>1. InStage(cn[d], d \in connections) /\ cn[d] \in Conn
        BY DEF Stages, Types
      <4> QED BY <4>1, <2>3 DEF InStage, Unknown, Ended, Conn
    <3>3. e.out => isWriting(cn[d]) /\ (Heard(cn[d]) => Space(cn[d]) > 0)
      BY <2>3, <3>2, EventFields DEF isWriting, Watched, Heard
    <3> QED BY <2>3, <3>1, <3>2, <3>3 DEF EventFits
  <2> QED BY <2>1, <2>2, <2>3
<1>4. Types'
  BY <1>1, <1>3 DEF Types
<1>5. InLoop'
  BY <1>1 DEF InLoop, Types
<1>6. Stages' /\ AllFlow'
  BY <1>1 DEF Stages, AllFlow, Accepted
<1>7. TasksWait'
  <2>1. Todo' = Todo /\ Needs' = Needs
    BY <1>1 DEF Todo, Needs
  <2> QED BY <2>1 DEF TasksWait
<1>8. EventsFit'
  <2> SUFFICES ASSUME NEW m \in Loops, NEW e \in active'[m]
               PROVE  EventFits(m, e)' /\ \A f \in active'[m] : e.c = f.c => e = f
    BY DEF EventsFit
  <2>1. EventFits(m, e) => EventFits(m, e)'
    BY <1>1 DEF EventFits
  <2>2. CASE m = l
    <3>1. active'[m] = Ready(l)
      BY <2>2, <1>1 DEF Types
    <3>2. EventFits(m, e) /\ (e = Acceptor \/ (e.c \in Conns /\ e = Event(e.c)))
      BY <3>1, <2>2, <1>3
    <3>3. \A f \in active'[m] : f = Acceptor \/ (f.c \in Conns /\ f = Event(f.c))
      BY <3>1, <1>3
    <3> QED BY <2>1, <3>2, <3>3, <1>2
  <2>3. CASE m # l
    <3>1. active'[m] = active[m]
      BY <2>3, <1>1 DEF Types
    <3> QED BY <3>1, <2>1 DEF EventsFit
  <2> QED BY <2>2, <2>3
<1> QED BY <1>4, <1>5, <1>6, <1>7, <1>8

\* A loop takes its queue.
LEMMA SwapStep ==
  ASSUME ConnectionsInOrder, NEW l \in Loops, Swap(l)
  PROVE  ConnectionsInOrder'
<1> USE DEF ConnectionsInOrder
<1>1. /\ pc[l] = "events" /\ active[l] = {}
      /\ batch' = [batch EXCEPT ![l] = functors[l]]
      /\ functors' = [functors EXCEPT ![l] = <<>>]
      /\ pc' = [pc EXCEPT ![l] = IF functors[l] = <<>> THEN "poll" ELSE "functors"]
      /\ UNCHANGED <<cn, connections, nextConnId, pool, next, limit, active, ran>>
  BY DEF Swap
<1>2. functors[l] \in Seq(TaskType) /\ <<>> \in Seq(TaskType) /\ ran[l] = 0 /\ batch[l] = <<>>
  <2>1. functors[l] \in Seq(TaskType)
    BY DEF Types
  <2>2. ran[l] = 0 /\ batch[l] = <<>>
    BY <1>1 DEF InLoop
  <2> QED BY <2>1, <2>2
<1>3. Types'
  BY <1>1, <1>2 DEF Types
<1>4. InLoop'
  <2> SUFFICES ASSUME NEW m \in Loops
               PROVE  /\ IF pc'[m] = "functors" THEN ran'[m] < Len(batch'[m])
                         ELSE ran'[m] = 0 /\ batch'[m] = <<>>
                      /\ pc'[m] # "events" => active'[m] = {}
    BY DEF InLoop
  <2>1. CASE m # l
    <3>1. pc'[m] = pc[m] /\ ran'[m] = ran[m] /\ batch'[m] = batch[m] /\ active'[m] = active[m]
      BY <2>1, <1>1 DEF Types
    <3> QED BY <3>1 DEF InLoop
  <2>2. CASE m = l
    <3>1. /\ pc'[m] = IF functors[l] = <<>> THEN "poll" ELSE "functors"
          /\ ran'[m] = 0 /\ batch'[m] = functors[l] /\ active'[m] = {}
      BY <2>2, <1>1, <1>2 DEF Types
    <3> QED BY <3>1, <1>2, EmptySeq
  <2> QED BY <2>1, <2>2
<1>5. Stages' /\ AllFlow'
  BY <1>1 DEF Stages, AllFlow, Accepted
<1>6. TasksWait'
  <2>1. Needs' = Needs
    BY <1>1 DEF Needs
  <2>2. ASSUME NEW m \in Loops
        PROVE  TodoOf(batch'[m], ran'[m], functors'[m]) = TodoOf(batch[m], ran[m], functors[m])
    <3>1. CASE m # l
      BY <3>1, <1>1 DEF Types
    <3>2. CASE m = l
      <4>1. batch'[m] = functors[l] /\ ran'[m] = 0 /\ functors'[m] = <<>>
        BY <3>2, <1>1, <1>2 DEF Types
      <4>2. TodoOf(functors[l], 0, <<>>) = TodoOf(<<>>, 0, functors[l])
        BY <1>2, TodoSwapped
      <4> QED BY <4>1, <4>2, <1>2, <3>2
    <3> QED BY <3>1, <3>2
  <2>3. Todo' = Todo
    BY <2>2 DEF Todo
  <2> QED BY <2>1, <2>3 DEF TasksWait
<1>7. EventsFit'
  BY <1>1 DEF EventsFit, EventFits
<1> QED BY <1>3, <1>4, <1>5, <1>6, <1>7

-----------------------------------------------------------------------------
(* The steps that change one connection and the map.                        *)

\* Events of other connections are as good as before.
LEMMA OthersFit ==
  ASSUME Types, EventsFit, NEW c \in Conns, NEW l \in Loops, NEW e \in active[l], EventFits(l, e), e # Acceptor,
         e.c # c, \A d \in Conns : d # c => cn'[d] = cn[d]
  PROVE  EventFits(l, e)'
<1>1. /\ e.c \in Conns /\ cn[e.c].loop = l /\ cn[e.c].state = "connected" /\ Watched(cn[e.c])
      /\ e.out => isWriting(cn[e.c]) /\ (Heard(cn[e.c]) => Space(cn[e.c]) > 0)
  BY DEF EventFits
<1>2. cn'[e.c] = cn[e.c]
  BY <1>1
<1> QED BY <1>1, <1>2 DEF EventFits

\* queueInLoop in the terms of what there is to run.
LEMMA TodoMore ==
  ASSUME Types, InLoop, NEW l \in Loops, NEW k \in TaskType,
         functors' = Queued(l, k), UNCHANGED <<batch, ran>>
  PROVE  Todo' = [Todo EXCEPT ![l] = Append(@, k)]
<1> DEFINE more == [Todo EXCEPT ![l] = Append(@, k)]
<1>1. functors'[l] = Append(functors[l], k) /\ \A m \in Loops : m # l => functors'[m] = functors[m]
  BY DEF Types, Queued
<1>2. ASSUME NEW m \in Loops PROVE TodoOf(batch'[m], ran'[m], functors'[m]) = more[m]
  <2>1. CASE m # l
    BY <2>1, <1>1 DEF Todo
  <2>2. CASE m = l
    <3>1. batch[l] \in Seq(TaskType) /\ functors[l] \in Seq(TaskType) /\ ran[l] \in 0 .. Len(batch[l])
      BY TodosType DEF Types
    <3>2. TodoOf(batch[l], ran[l], Append(functors[l], k)) = Append(TodoOf(batch[l], ran[l], functors[l]), k)
      BY <3>1, TodoQueued
    <3> QED BY <3>2, <2>2, <1>1 DEF Todo
  <2> QED BY <2>1, <2>2
<1>3. more = [m \in Loops |-> more[m]]
  BY DEF Todo
<1> HIDE DEF more
<1>4. Todo' = [m \in Loops |-> TodoOf(batch'[m], ran'[m], functors'[m])]
  BY DEF Todo
<1> QED BY <1>2, <1>3, <1>4 DEF more

\* A loop handles an event of a connection: the connection stays watched, or
\* ends and is queued for the base loop, or, on the base loop, leaves the map
\* and is queued for its end.
LEMMA HandleEventStep ==
  ASSUME ConnectionsInOrder, NEW l \in Loops, HandleEvent(l)
  PROVE  ConnectionsInOrder'
<1> USE DEF ConnectionsInOrder
<1>1. PICK e \in active[l] \ {Acceptor}, reply \in BOOLEAN :
        /\ Handled(l, e)
        /\ cn' = [cn EXCEPT ![e.c] = handleEvent(@, e, reply)]
        /\ IF Closes(cn[e.c], e) THEN removeConnection(l, e.c) ELSE UNCHANGED <<connections, functors>>
        /\ UNCHANGED <<nextConnId, pool, next, limit, pc, batch, ran>>
  BY Zenon DEF HandleEvent
<1> DEFINE c == e.c
           x == cn[c]
           y == handleEvent(x, e, reply)
<1>2. pc[l] = "events" /\ active' = [active EXCEPT ![l] = @ \ {e}]
  BY <1>1 DEF Handled
<1>3. /\ e \in EventType /\ c \in Conns /\ x.loop = l /\ x.state = "connected" /\ Watched(x)
      /\ e.out => isWriting(x) /\ (Heard(x) => Space(x) > 0)
      /\ \A f \in active[l] : f.c = c => f = e
  <2>1. EventFits(l, e) /\ \A f \in active[l] : e.c = f.c => e = f
    BY <1>1 DEF EventsFit
  <2>2. e \in EventType
    BY <1>1 DEF Types
  <2> QED BY <2>1, <2>2, <1>1 DEF EventFits
<1>4. x \in Conn /\ Flows(x) /\ x.peer # "absent" /\ InStage(x, c \in connections) /\ c < nextConnId
  <2>1. x \in Conn /\ Flows(x)
    BY <1>3 DEF Types, AllFlow
  <2>2. InStage(x, c \in connections) /\ (x.state # "none" <=> c < nextConnId)
        /\ (x.state # "none" => x.peer # "absent")
    BY <1>3 DEF Stages, Accepted
  <2> QED BY <2>1, <2>2, <1>3
<1>5. c \in connections /\ x.ups = 1 /\ x.downs = 0
  BY <1>3, <1>4 DEF InStage, Watched, Ended
<1>6. /\ y \in Conn /\ SameLife(x, y) /\ y.peer # "absent" /\ Flows(y)
      /\ IF Closes(x, e) THEN Ended(y) ELSE Watched(y)
  BY <1>1, <1>3, <1>4, HandleEventServes DEF Serves
<1>7. cn' = [cn EXCEPT ![c] = y] /\ cn'[c] = y /\ \A d \in Conns : d # c => cn'[d] = cn[d]
  BY <1>1, <1>3 DEF Types
<1> HIDE DEF y
<1>8. y.state = "connected" /\ y.loop = l /\ y.ups = 1 /\ y.downs = 0
  BY <1>3, <1>5, <1>6 DEF SameLife
<1> DEFINE closes == Closes(x, e)
\* what becomes of the map and of the queues
<1>9. /\ connections' = IF closes /\ l = Base THEN connections \ {c} ELSE connections
      /\ closes /\ l = Base => functors' = Queued(Base, Task("connectDestroyed", c))
      /\ closes /\ l # Base => functors' = Queued(Base, Task("removeConnection", c))
      /\ ~closes => functors' = functors
  <2>1. CASE closes
    <3>1. removeConnection(l, c)
      BY <1>1, <2>1
    <3> QED BY <3>1, <2>1, <1>3 DEF removeConnection, removeConnectionInLoop
  <2>2. CASE ~closes
    BY <1>1, <2>2
  <2> QED BY <2>1, <2>2
<1> HIDE DEF closes
<1>10. closes <=> Closes(x, e)
  BY DEF closes
<1>11. Base \in Loops
  BY LoopsAreThere
<1>12. Types'
  <2>1. functors' \in [Loops -> Seq(TaskType)]
    <3>1. Task("connectDestroyed", c) \in TaskType /\ Task("removeConnection", c) \in TaskType
      BY <1>3, TaskParts
    <3>2. \A k \in TaskType : Queued(Base, k) \in [Loops -> Seq(TaskType)]
      BY <1>11 DEF Types, Queued
    <3>3. functors \in [Loops -> Seq(TaskType)]
      BY DEF Types
    <3> QED BY <3>1, <3>2, <3>3, <1>9
  <2>2. cn' \in [Conns -> Conn]
    BY <1>7, <1>6 DEF Types
  <2>3. connections' \in SUBSET Conns
    BY <1>9 DEF Types
  <2>4. active' \in [Loops -> SUBSET EventType]
    BY <1>2 DEF Types
  <2> QED BY <2>1, <2>2, <2>3, <2>4, <1>1 DEF Types
<1>13. InLoop'
  <2>1. \A m \in Loops : active'[m] \subseteq active[m]
    BY <1>2 DEF Types
  <2> QED BY <2>1, <1>1 DEF InLoop
<1>14. Stages'
  <2> SUFFICES ASSUME NEW d \in Conns
               PROVE  /\ InStage(cn'[d], d \in connections')
                      /\ cn'[d].state # "none" <=> d < nextConnId'
                      /\ cn'[d].state # "none" => cn'[d].peer # "absent"
    BY DEF Stages, Accepted
  <2>1. CASE d # c
    <3>1. cn'[d] = cn[d] /\ nextConnId' = nextConnId /\ (d \in connections') = (d \in connections)
      BY <2>1, <1>1, <1>7, <1>9
    <3> QED BY <3>1 DEF Stages, Accepted
  <2>2. CASE d = c
    <3>1. InStage(y, c \in connections')
      <4>1. CASE closes
        <5>1. Ended(y) /\ (c \in connections' => l # Base)
          BY <4>1, <1>6, <1>9, <1>10
        <5> QED BY <5>1, <1>8 DEF InStage
      <4>2. CASE ~closes
        <5>1. Watched(y) /\ c \in connections'
          BY <4>2, <1>5, <1>6, <1>9, <1>10
        <5> QED BY <5>1, <1>8 DEF InStage
      <4> QED BY <4>1, <4>2
    <3> QED BY <3>1, <2>2, <1>1, <1>4, <1>6, <1>7, <1>8
  <2> QED BY <2>1, <2>2
<1>15. TasksWait'
  <2> DEFINE n2 == IF closes THEN [Needs EXCEPT ![c] = IF l = Base THEN {<<Base, "connectDestroyed">>}
                                                       ELSE {<<Base, "removeConnection">>}]
                   ELSE Needs
  <2>1. Needs[c] = {}
    BY <1>3, <1>5 DEF Needs, Needed, Watched, Ended
  <2>2. Needs' = n2
    <3>1. Needs' = [d \in Conns |-> Needed(cn'[d], d \in connections')]
      BY DEF Needs
    <3>2. n2 = [d \in Conns |-> n2[d]]
      BY DEF Needs
    <3>3. ASSUME NEW d \in Conns PROVE Needed(cn'[d], d \in connections') = n2[d]
      <4>1. CASE d # c
        <5>1. cn'[d] = cn[d] /\ (d \in connections') = (d \in connections)
          BY <4>1, <1>7, <1>9
        <5>2. n2[d] = Needs[d]
          BY <4>1 DEF Needs
        <5> QED BY <5>1, <5>2 DEF Needs
      <4>2. CASE d = c /\ ~closes
        <5>1. n2[d] = {} /\ cn'[d] = y /\ d \in connections'
          BY <4>2, <2>1, <1>7, <1>9, <1>5
        <5>2. Needed(y, TRUE) = {}
          BY <1>8, <1>6, <1>10, <4>2 DEF Needed, Ended, Watched
        <5> QED BY <5>1, <5>2
      <4>3. CASE d = c /\ closes
        <5>1. n2[d] = IF l = Base THEN {<<Base, "connectDestroyed">>} ELSE {<<Base, "removeConnection">>}
          BY <4>3, <1>3 DEF Needs
        <5>2. cn'[d] = y /\ (d \in connections' <=> l # Base)
          BY <4>3, <1>7, <1>9, <1>5
        <5>3. Ended(y)
          BY <4>3, <1>6, <1>10
        <5> QED BY <5>1, <5>2, <5>3, <1>8 DEF Needed
      <4> QED BY <4>1, <4>2, <4>3
    <3> HIDE DEF n2
    <3> QED BY <3>1, <3>2, <3>3
  <2>3. Needs \in [Conns -> Works] /\ Todo \in [Loops -> Seq(TaskType)] /\ Consistent(Todo, Needs)
    BY NeedsType, TodosType DEF TasksWait
  <2>4. CASE ~closes
    <3>1. functors' = functors /\ batch' = batch /\ ran' = ran
      BY <2>4, <1>9, <1>1
    <3>2. Todo' = Todo /\ Needs' = Needs
      BY <3>1, <2>2, <2>4 DEF Todo
    <3> QED BY <3>2 DEF TasksWait
  <2>5. ASSUME closes, NEW g \in {"connectDestroyed", "removeConnection"},
               functors' = Queued(Base, Task(g, c)), Needs' = [Needs EXCEPT ![c] = {<<Base, g>>}]
        PROVE  TasksWait'
    <3>1. Task(g, c) \in TaskType
      BY <1>3, TaskParts
    <3>2. Todo' = [Todo EXCEPT ![Base] = Append(@, Task(g, c))]
      BY <3>1, <2>5, <1>1, <1>11, TodoMore
    <3>3. Consistent([Todo EXCEPT ![Base] = Append(@, Task(g, c))], [Needs EXCEPT ![c] = {<<Base, g>>}])
      BY <2>1, <2>3, <1>3, <1>11, MoreConsistent
    <3> QED BY <3>2, <3>3, <2>5 DEF TasksWait
  <2>6. CASE closes /\ l = Base
    BY <2>2, <2>5, <2>6, <1>9
  <2>7. CASE closes /\ l # Base
    BY <2>2, <2>5, <2>7, <1>9
  <2> QED BY <2>4, <2>6, <2>7
<1>16. EventsFit'
  <2> SUFFICES ASSUME NEW m \in Loops, NEW f \in active'[m]
               PROVE  EventFits(m, f)' /\ \A g \in active'[m] : f.c = g.c => f = g
    BY DEF EventsFit
  <2>1. active'[m] \subseteq active[m] /\ (m = l => f # e)
    BY <1>2 DEF Types
  <2>2. EventFits(m, f) /\ \A g \in active[m] : f.c = g.c => f = g
    BY <2>1 DEF EventsFit
  <2>3. CASE f = Acceptor
    <3>1. f.c \notin Conns
      BY <2>3, ConnectionAssumption DEF Acceptor, Conns
    <3>2. m = Base /\ nextConnId \in Conns /\ cn[nextConnId].peer # "absent"
      BY <3>1, <2>2 DEF EventFits
    <3>3. cn'[nextConnId].peer # "absent" /\ nextConnId' = nextConnId
      BY <3>2, <1>1, <1>6, <1>7
    <3> QED BY <2>1, <2>2, <2>3, <3>2, <3>3 DEF EventFits
  <2>4. CASE f # Acceptor
    <3>1. f.c # c
      <4>1. f.c \in Conns /\ cn[f.c].loop = m
        BY <2>2, <2>4 DEF EventFits
      <4> QED BY <4>1, <2>1, <1>3
    <3>2. EventFits(m, f)'
      BY <2>1, <2>2, <2>4, <3>1, <1>3, <1>7, OthersFit
    <3> QED BY <3>2, <2>1, <2>2
  <2> QED BY <2>3, <2>4
<1>17. AllFlow'
  BY <1>6, <1>7 DEF AllFlow
<1> QED BY <1>12, <1>13, <1>14, <1>15, <1>16, <1>17

\* The base loop accepts a connection and queues its beginning on its loop.
LEMMA AcceptStep ==
  ASSUME ConnectionsInOrder, Accept
  PROVE  ConnectionsInOrder'
<1> USE DEF ConnectionsInOrder
<1> DEFINE c == nextConnId
           L == getNextLoop
           x == [cn[c] EXCEPT !.state = "connecting", !.loop = L]
<1>0. Base \in Loops
  BY LoopsAreThere
<1>1. /\ pc[Base] = "events" /\ Acceptor \in active[Base]
      /\ active' = [active EXCEPT ![Base] = @ \ {Acceptor}]
      /\ UNCHANGED <<pool, limit, pc, batch, ran>>
  BY DEF Accept, Handled
<1>2. Acceptor.c = 0 /\ 0 \notin Conns
  BY ConnectionAssumption DEF Acceptor, Conns
<1>3. c \in Conns /\ cn[c].peer # "absent"
  <2>1. EventFits(Base, Acceptor)
    BY <1>0, <1>1 DEF EventsFit
  <2> QED BY <2>1, <1>2 DEF EventFits
<1>4. /\ cn[c] \in Conn /\ Flows(cn[c]) /\ cn[c].state = "none" /\ c \notin connections
      /\ Unknown(cn[c]) /\ cn[c].ups = 0 /\ cn[c].downs = 0
  <2>1. c \in Int
    BY <1>3, ConnectionAssumption DEF Conns
  <2>2. cn[c] \in Conn /\ Flows(cn[c]) /\ cn[c].state = "none" /\ InStage(cn[c], c \in connections)
    BY <1>3, <2>1 DEF Types, AllFlow, Stages, Accepted
  <2> QED BY <2>2 DEF InStage
\* no event of the acceptor is left
<1>5. ASSUME NEW m \in Loops, NEW f \in active'[m]
      PROVE  /\ f \in active[m] /\ EventFits(m, f) /\ f # Acceptor
             /\ f.c \in Conns /\ cn[f.c].state = "connected"
             /\ \A g \in active'[m] : f.c = g.c => f = g
  <2>1. active'[m] \subseteq active[m] /\ (m = Base => f # Acceptor)
    BY <1>1 DEF Types
  <2>2. EventFits(m, f) /\ \A g \in active[m] : f.c = g.c => f = g
    BY <2>1 DEF EventsFit
  <2>3. f # Acceptor
    BY <2>1, <2>2, <1>2 DEF EventFits
  <2> QED BY <2>1, <2>2, <2>3 DEF EventFits
<1>6. InLoop'
  <2>1. \A m \in Loops : active'[m] \subseteq active[m]
    BY <1>1 DEF Types
  <2> QED BY <2>1, <1>1 DEF InLoop
<1>7. active' \in [Loops -> SUBSET EventType]
  BY <1>1 DEF Types
<1>8. CASE ~accept
  <2>1. UNCHANGED <<cn, connections, nextConnId, next, functors>>
    BY <1>8 DEF Accept
  <2>2. Types'
    BY <2>1, <1>1, <1>7 DEF Types
  <2>3. Stages' /\ AllFlow'
    BY <2>1 DEF Stages, AllFlow, Accepted
  <2>4. TasksWait'
    <3>1. Todo' = Todo /\ Needs' = Needs
      BY <2>1, <1>1 DEF Todo, Needs
    <3> QED BY <3>1 DEF TasksWait
  <2>5. EventsFit'
    BY <2>1, <1>5 DEF EventsFit, EventFits
  <2> QED BY <2>2, <2>3, <2>4, <2>5, <1>6
<1>9. CASE accept
  <2>1. /\ nextConnId' = c + 1
        /\ next' = IF pool = <<>> THEN next ELSE (next % Len(pool)) + 1
        /\ connections' = connections \cup {c}
        /\ IF L = Base
           THEN cn' = [cn EXCEPT ![c] = connectEstablished(x)] /\ UNCHANGED functors
           ELSE cn' = [cn EXCEPT ![c] = x] /\ functors' = Queued(L, Task("connectEstablished", c))
    BY <1>9 DEF Accept, newConnection
  <2>2. L \in Loops
    <3>1. pool \in Pools /\ (pool # <<>> => next \in 1 .. Len(pool))
      BY DEF Types
    <3>2. pool # <<>> => pool[next] \in Loops
      BY <3>1, LoopsAreThere
    <3> QED BY <3>2, <1>0 DEF getNextLoop
  <2> HIDE DEF L
  <2>3. /\ x \in Conn /\ x.state = "connecting" /\ x.loop = L /\ x.ups = 0 /\ x.downs = 0
        /\ x.peer # "absent" /\ Unknown(x)
    BY <1>3, <1>4, <2>2 DEF Conn, Unknown
  <2>4. Flows(x)
    <3>1. x.wire = cn[c].wire /\ x.rcvd = cn[c].rcvd /\ x.out = cn[c].out /\ x.sent = cn[c].sent
          /\ x.peer = cn[c].peer
      BY <1>4 DEF Conn
    <3> HIDE DEF x
    <3> QED BY <3>1, <1>4 DEF Flows, Stream
  <2> DEFINE y == IF L = Base THEN connectEstablished(x) ELSE x
  <2> HIDE DEF x
  <2>5. /\ y \in Conn /\ y.loop = L /\ y.downs = 0 /\ y.peer # "absent" /\ Flows(y)
        /\ L = Base => y.state = "connected" /\ y.ups = 1 /\ Watched(y)
        /\ L # Base => y.state = "connecting" /\ y.ups = 0 /\ Unknown(y)
    <3>1. CASE L = Base
      <4>1. y = connectEstablished(x)
        BY <3>1
      <4> HIDE DEF y
      <4> QED BY <4>1, <3>1, <2>3, <2>4, Establishes
    <3>2. CASE L # Base
      <4>1. y = x
        BY <3>2
      <4> HIDE DEF y
      <4> QED BY <4>1, <3>2, <2>3, <2>4
    <3> QED BY <3>1, <3>2
  <2>6. cn' = [cn EXCEPT ![c] = y]
    BY <2>1
  <2> HIDE DEF y
  <2>7. cn'[c] = y /\ \A d \in Conns : d # c => cn'[d] = cn[d]
    BY <2>6, <1>3 DEF Types
  <2>8. Types'
    <3>1. cn' \in [Conns -> Conn]
      BY <2>6, <2>5 DEF Types
    <3>2. connections' \in SUBSET Conns /\ nextConnId' \in 1 .. Last + 1
      BY <2>1, <1>3, ConnectionAssumption DEF Types, Conns
    <3>3. next' \in Nat /\ (pool # <<>> => next' \in 1 .. Len(pool))
      <4>1. CASE pool = <<>>
        BY <4>1, <2>1 DEF Types
      <4>2. CASE pool # <<>>
        <5>1. pool \in Seq(Loops) /\ next \in Nat
          BY LoopsAreThere DEF Types
        <5>2. Len(pool) \in Nat \ {0}
          BY <5>1, <4>2, EmptySeq
        <5> HIDE DEF Types
        <5> QED BY <4>2, <5>1, <5>2, <2>1
      <4> QED BY <4>1, <4>2
    <3>4. functors' \in [Loops -> Seq(TaskType)]
      <4>1. functors \in [Loops -> Seq(TaskType)]
        BY DEF Types
      <4>2. Task("connectEstablished", c) \in TaskType
        BY <1>3, TaskParts
      <4>3. Queued(L, Task("connectEstablished", c)) \in [Loops -> Seq(TaskType)]
        BY <4>1, <4>2, <2>2 DEF Queued
      <4> QED BY <4>1, <4>3, <2>1
    <3> QED BY <3>1, <3>2, <3>3, <3>4, <1>1, <1>7 DEF Types
  <2>9. Stages'
    <3> SUFFICES ASSUME NEW d \in Conns
                 PROVE  /\ InStage(cn'[d], d \in connections')
                        /\ cn'[d].state # "none" <=> d < nextConnId'
                        /\ cn'[d].state # "none" => cn'[d].peer # "absent"
      BY DEF Stages, Accepted
    <3>0. d \in Int /\ c \in Int
      BY <1>3, ConnectionAssumption DEF Conns
    <3>1. CASE d # c
      <4>1. cn'[d] = cn[d] /\ (d \in connections') = (d \in connections) /\ (d < c + 1 <=> d < c)
        BY <3>1, <3>0, <2>1, <2>7
      <4> QED BY <4>1, <2>1 DEF Stages, Accepted
    <3>2. CASE d = c
      <4>1. d \in connections' /\ cn'[d] = y /\ d < nextConnId'
        BY <3>2, <3>0, <2>1, <2>7
      <4>2. InStage(y, TRUE)
        BY <2>5 DEF InStage
      <4> QED BY <4>1, <4>2, <2>5
    <3> QED BY <3>1, <3>2
  <2>10. TasksWait'
    <3>1. Needs \in [Conns -> Works] /\ Todo \in [Loops -> Seq(TaskType)] /\ Consistent(Todo, Needs)
      BY NeedsType, TodosType DEF TasksWait
    <3>2. Needs[c] = {}
      BY <1>3, <1>4 DEF Needs, Needed
    <3> DEFINE n2 == [Needs EXCEPT ![c] = IF L = Base THEN {} ELSE {<<L, "connectEstablished">>}]
    <3>3. Needs' = n2
      <4>1. Needs' = [d \in Conns |-> Needed(cn'[d], d \in connections')]
        BY DEF Needs
      <4>2. n2 = [d \in Conns |-> n2[d]]
        BY DEF Needs
      <4>3. ASSUME NEW d \in Conns PROVE Needed(cn'[d], d \in connections') = n2[d]
        <5>1. CASE d # c
          <6>1. cn'[d] = cn[d] /\ (d \in connections') = (d \in connections)
            BY <5>1, <2>1, <2>7
          <6>2. n2[d] = Needs[d]
            BY <5>1 DEF Needs
          <6> QED BY <6>1, <6>2 DEF Needs
        <5>2. CASE d = c
          <6>1. d \in connections' /\ cn'[d] = y
            BY <5>2, <2>1, <2>7
          <6>2. n2[d] = IF L = Base THEN {} ELSE {<<L, "connectEstablished">>}
            BY <5>2, <1>3 DEF Needs
          <6>3. Needed(y, TRUE) = IF L = Base THEN {} ELSE {<<L, "connectEstablished">>}
            BY <2>5 DEF Needed, Watched, Ended
          <6> QED BY <6>1, <6>2, <6>3
        <5> QED BY <5>1, <5>2
      <4> HIDE DEF n2
      <4> QED BY <4>1, <4>2, <4>3
    <3>4. CASE L = Base
      <4>1. functors' = functors /\ batch' = batch /\ ran' = ran
        BY <3>4, <2>1, <1>1
      <4>2. n2 = Needs
        BY <3>1, <3>2, <3>4
      <4>3. Todo' = Todo /\ Needs' = Needs
        BY <4>1, <4>2, <3>3 DEF Todo
      <4> QED BY <4>3 DEF TasksWait
    <3>5. CASE L # Base
      <4> DEFINE k == Task("connectEstablished", c)
      <4>1. k \in TaskType
        BY <1>3, TaskParts
      <4>2. functors' = Queued(L, k) /\ UNCHANGED <<batch, ran>>
        BY <3>5, <2>1, <1>1
      <4>3. Todo' = [Todo EXCEPT ![L] = Append(@, k)]
        BY <4>1, <4>2, <2>2, TodoMore
      <4>4. Consistent([Todo EXCEPT ![L] = Append(@, k)], [Needs EXCEPT ![c] = {<<L, "connectEstablished">>}])
        BY <3>1, <3>2, <1>3, <2>2, MoreConsistent
      <4> QED BY <4>3, <4>4, <3>3, <3>5 DEF TasksWait
    <3> QED BY <3>4, <3>5
  <2>11. EventsFit'
    <3>1. ASSUME NEW m \in Loops, NEW f \in active'[m] PROVE EventFits(m, f)'
      <4>1. f.c # c
        BY <3>1, <1>4, <1>5
      <4> QED BY <3>1, <4>1, <1>3, <1>5, <2>7, OthersFit
    <3> QED BY <3>1, <1>5 DEF EventsFit
  <2>12. AllFlow'
    BY <2>5, <2>7 DEF AllFlow
  <2> QED BY <2>8, <2>9, <2>10, <2>11, <2>12, <1>6
<1> QED BY <1>8, <1>9

-----------------------------------------------------------------------------
(* A functor runs.                                                          *)

\* A functor that ran is the first of what there was to run.
LEMMA TodoLess ==
  ASSUME Types, InLoop, NEW l \in Loops, pc[l] = "functors",
         ran' = [ran EXCEPT ![l] = IF ran[l] + 1 = Len(batch[l]) THEN 0 ELSE @ + 1],
         batch' = [batch EXCEPT ![l] = IF ran[l] + 1 = Len(batch[l]) THEN <<>> ELSE @]
  PROVE  /\ Todo[l] # <<>> /\ Head(Todo[l]) = batch[l][ran[l] + 1]
         /\ \A m \in Loops : TodoOf(batch'[m], ran'[m], functors[m]) = [Todo EXCEPT ![l] = Tail(@)][m]
<1> DEFINE b == batch[l]
           r == ran[l]
           f == functors[l]
<1>1. b \in Seq(TaskType) /\ f \in Seq(TaskType) /\ r \in Nat /\ r < Len(b)
  BY DEF Types, InLoop
<1>2. batch'[l] = (IF r + 1 = Len(b) THEN <<>> ELSE b) /\ ran'[l] = (IF r + 1 = Len(b) THEN 0 ELSE r + 1)
  BY DEF Types
<1>3. Todo[l] = TodoOf(b, r, f)
  BY DEF Todo
<1> HIDE DEF b, r, f
<1>4. /\ TodoOf(b, r, f) # <<>> /\ Head(TodoOf(b, r, f)) = b[r + 1]
      /\ Tail(TodoOf(b, r, f)) = TodoOf(b, r + 1, f)
      /\ r + 1 = Len(b) => TodoOf(b, r + 1, f) = TodoOf(<<>>, 0, f)
  BY <1>1, TodoRan
<1>5. TodoOf(batch'[l], ran'[l], f) = Tail(Todo[l])
  BY <1>2, <1>3, <1>4
<1>6. ASSUME NEW m \in Loops, m # l
      PROVE  TodoOf(batch'[m], ran'[m], functors[m]) = Todo[m]
  BY <1>6 DEF Types, Todo
<1>7. ASSUME NEW m \in Loops
      PROVE  TodoOf(batch'[m], ran'[m], functors[m]) = [Todo EXCEPT ![l] = Tail(@)][m]
  <2>1. [Todo EXCEPT ![l] = Tail(@)][m] = IF m = l THEN Tail(Todo[l]) ELSE Todo[m]
    BY DEF Todo
  <2> QED BY <2>1, <1>5, <1>6 DEF f
<1> QED BY <1>3, <1>4, <1>7 DEF b, r

\* A functor runs: a connection begins, leaves the map or ends.
LEMMA RunStep ==
  ASSUME ConnectionsInOrder, NEW l \in Loops, Run(l)
  PROVE  ConnectionsInOrder'
<1> USE DEF ConnectionsInOrder
<1> DEFINE k == batch[l][ran[l] + 1]
           c == k.c
           x == cn[c]
<1>1. /\ pc[l] = "functors"
      /\ ran' = [ran EXCEPT ![l] = IF ran[l] + 1 = Len(batch[l]) THEN 0 ELSE @ + 1]
      /\ batch' = [batch EXCEPT ![l] = IF ran[l] + 1 = Len(batch[l]) THEN <<>> ELSE @]
      /\ pc' = [pc EXCEPT ![l] = IF ran[l] + 1 = Len(batch[l]) THEN "poll" ELSE @]
      /\ UNCHANGED <<nextConnId, pool, next, limit, active>>
  BY DEF Run
<1>2. /\ k.f = "connectEstablished" =>
            cn' = [cn EXCEPT ![c] = connectEstablished(@)] /\ UNCHANGED <<connections, functors>>
      /\ k.f = "removeConnection" => UNCHANGED cn /\ removeConnection(l, c)
      /\ k.f = "connectDestroyed" =>
            cn' = [cn EXCEPT ![c] = connectDestroyed(@)] /\ UNCHANGED <<connections, functors>>
  BY DEF Run
<1> DEFINE less == [Todo EXCEPT ![l] = Tail(@)]
<1>3. Needs \in [Conns -> Works] /\ Todo \in [Loops -> Seq(TaskType)] /\ Consistent(Todo, Needs)
  BY NeedsType, TodosType DEF TasksWait
<1>4. /\ Todo[l] # <<>> /\ Head(Todo[l]) = k
      /\ \A m \in Loops : TodoOf(batch'[m], ran'[m], functors[m]) = less[m]
  BY <1>1, TodoLess
<1> HIDE DEF k
<1>5. /\ less \in [Loops -> Seq(TaskType)] /\ k \in TaskType /\ <<l, k.f>> \in Needs[c]
      /\ Consistent(less, [Needs EXCEPT ![c] = {}])
  BY <1>3, <1>4, LessConsistent
<1> HIDE DEF less
<1>6. c \in Conns
  BY <1>5, TaskParts
<1>7. /\ x \in Conn /\ Flows(x) /\ InStage(x, c \in connections) /\ (x.state # "none" <=> c < nextConnId)
      /\ (x.state # "none" => x.peer # "absent") /\ <<l, k.f>> \in Needed(x, c \in connections)
  BY <1>5, <1>6 DEF Types, AllFlow, Stages, Accepted, Needs
<1>8. \A m \in Loops : \A f \in active[m] : f # Acceptor => f.c \in Conns /\ cn[f.c].state = "connected" /\ Watched(cn[f.c])
  BY DEF EventsFit, EventFits
<1>9. Base \in Loops
  BY LoopsAreThere
<1>10. InLoop'
  <2> SUFFICES ASSUME NEW m \in Loops
               PROVE  /\ IF pc'[m] = "functors" THEN ran'[m] < Len(batch'[m])
                         ELSE ran'[m] = 0 /\ batch'[m] = <<>>
                      /\ pc'[m] # "events" => active'[m] = {}
    BY DEF InLoop
  <2>0. /\ IF pc[m] = "functors" THEN ran[m] < Len(batch[m]) ELSE ran[m] = 0 /\ batch[m] = <<>>
        /\ pc[m] # "events" => active[m] = {}
        /\ batch[m] \in Seq(TaskType) /\ ran[m] \in Nat
    BY DEF InLoop, Types
  <2>1. CASE m # l
    <3>1. pc'[m] = pc[m] /\ ran'[m] = ran[m] /\ batch'[m] = batch[m] /\ active'[m] = active[m]
      BY <2>1, <1>1 DEF Types
    <3> QED BY <3>1, <2>0
  <2>2. CASE m = l /\ ran[l] + 1 = Len(batch[l])
    <3>1. pc'[m] = "poll" /\ ran'[m] = 0 /\ batch'[m] = <<>> /\ active'[m] = active[m]
      BY <2>2, <1>1 DEF Types
    <3> QED BY <3>1, <2>0, <2>2, <1>1
  <2>3. CASE m = l /\ ran[l] + 1 # Len(batch[l])
    <3>1. pc'[m] = "functors" /\ ran'[m] = ran[m] + 1 /\ batch'[m] = batch[m] /\ active'[m] = active[m]
      BY <2>3, <1>1 DEF Types
    <3>2. Len(batch[m]) \in Nat
      BY <2>0, LenProperties
    <3> QED BY <3>1, <3>2, <2>0, <2>3, <1>1
  <2> QED BY <2>1, <2>2, <2>3
<1>11. /\ ran' \in [Loops -> Nat] /\ batch' \in [Loops -> Seq(TaskType)]
       /\ pc' \in [Loops -> {"poll", "events", "functors"}]
  <2>1. <<>> \in Seq(TaskType)
    OBVIOUS
  <2> QED BY <2>1, <1>1 DEF Types
\* a functor that changes the connection alone
<1>12. ASSUME NEW y \in Conn, cn' = [cn EXCEPT ![c] = y], UNCHANGED <<connections, functors>>,
              ~Watched(x) \/ x.state # "connected", InStage(y, c \in connections), y.state # "none",
              y.peer # "absent", x.state # "none", Flows(y), Needed(y, c \in connections) = {}
       PROVE  ConnectionsInOrder'
  <2>1. cn'[c] = y /\ \A d \in Conns : d # c => cn'[d] = cn[d]
    BY <1>12, <1>6 DEF Types
  <2>2. Types'
    <3>1. cn' \in [Conns -> Conn]
      BY <1>12 DEF Types
    <3> QED BY <3>1, <1>1, <1>11, <1>12 DEF Types
  <2>3. Stages'
    <3> SUFFICES ASSUME NEW d \in Conns
                 PROVE  /\ InStage(cn'[d], d \in connections)
                        /\ cn'[d].state # "none" <=> d < nextConnId
                        /\ cn'[d].state # "none" => cn'[d].peer # "absent"
      BY <1>1, <1>12 DEF Stages, Accepted
    <3>1. CASE d # c
      BY <3>1, <2>1 DEF Stages, Accepted
    <3>2. CASE d = c
      BY <3>2, <2>1, <1>7, <1>12
    <3> QED BY <3>1, <3>2
  <2>4. TasksWait'
    <3>1. Todo' = less
      <4>1. Todo' = [m \in Loops |-> TodoOf(batch'[m], ran'[m], functors'[m])]
        BY DEF Todo
      <4> QED BY <4>1, <1>4, <1>5, <1>12
    <3>2. Needs' = [Needs EXCEPT ![c] = {}]
      <4> DEFINE n2 == [Needs EXCEPT ![c] = {}]
      <4>1. Needs' = [d \in Conns |-> Needed(cn'[d], d \in connections)]
        BY <1>12 DEF Needs
      <4>2. n2 = [d \in Conns |-> n2[d]]
        BY DEF Needs
      <4>3. ASSUME NEW d \in Conns PROVE Needed(cn'[d], d \in connections) = n2[d]
        <5>1. CASE d # c
          BY <5>1, <2>1 DEF Needs
        <5>2. CASE d = c
          <6>1. n2[d] = {}
            BY <5>2, <1>6 DEF Needs
          <6> QED BY <6>1, <5>2, <2>1, <1>12
        <5> QED BY <5>1, <5>2
      <4> HIDE DEF n2
      <4> QED BY <4>1, <4>2, <4>3 DEF n2
    <3> QED BY <3>1, <3>2, <1>5 DEF TasksWait
  <2>5. EventsFit'
    <3> SUFFICES ASSUME NEW m \in Loops, NEW f \in active[m]
                 PROVE  EventFits(m, f)' /\ \A g \in active[m] : f.c = g.c => f = g
      BY <1>1 DEF EventsFit
    <3>1. EventFits(m, f) /\ \A g \in active[m] : f.c = g.c => f = g
      BY DEF EventsFit
    <3>2. CASE f = Acceptor
      <4>1. f.c \notin Conns
        BY <3>2, ConnectionAssumption DEF Acceptor, Conns
      <4>2. m = Base /\ nextConnId \in Conns /\ cn[nextConnId].peer # "absent"
        BY <4>1, <3>1 DEF EventFits
      <4>3. cn'[nextConnId].peer # "absent" /\ nextConnId' = nextConnId
        BY <4>2, <2>1, <1>1, <1>12
      <4> QED BY <3>1, <3>2, <4>2, <4>3 DEF EventFits
    <3>3. CASE f # Acceptor
      <4>1. f.c # c
        BY <3>3, <1>8, <1>12
      <4>2. EventFits(m, f)'
        BY <3>1, <3>3, <4>1, <2>1, <1>6, OthersFit
      <4> QED BY <3>1, <4>2
    <3> QED BY <3>2, <3>3
  <2>6. AllFlow'
    BY <2>1, <1>12 DEF AllFlow
  <2> QED BY <2>2, <2>3, <2>4, <2>5, <2>6, <1>10
<1>13. CASE k.f = "connectEstablished"
  <2>1. x.state = "connecting"
    BY <1>7, <1>13 DEF Needed
  <2>2. c \in connections /\ Unknown(x) /\ x.ups = 0 /\ x.downs = 0
    BY <2>1, <1>7 DEF InStage
  <2> DEFINE y == connectEstablished(x)
  <2>3. /\ y \in Conn /\ y.state = "connected" /\ y.loop = x.loop /\ y.ups = 1 /\ y.downs = 0
        /\ Watched(y) /\ y.peer = x.peer /\ Flows(y)
    BY <2>1, <2>2, <1>7, Establishes
  <2>4. cn' = [cn EXCEPT ![c] = y] /\ UNCHANGED <<connections, functors>>
    BY <1>2, <1>6, <1>13 DEF Types
  <2> HIDE DEF y
  <2>5. InStage(y, c \in connections) /\ Needed(y, c \in connections) = {}
    BY <2>2, <2>3 DEF InStage, Needed, Watched, Ended
  <2> QED BY <2>1, <2>3, <2>4, <2>5, <1>7, <1>12
<1>14. CASE k.f = "connectDestroyed"
  <2>1. x.state = "connected" /\ c \notin connections
    BY <1>7, <1>14 DEF Needed
  <2>2. Ended(x) /\ x.ups = 1 /\ x.downs = 0
    BY <2>1, <1>7 DEF InStage
  <2> DEFINE y == connectDestroyed(x)
  <2>3. /\ y \in Conn /\ y.state = "disconnected" /\ y.loop = x.loop /\ y.ups = 1 /\ y.downs = 1
        /\ Unknown(y) /\ y.peer = x.peer /\ Flows(y)
    BY <2>1, <2>2, <1>7, Destroys
  <2>4. cn' = [cn EXCEPT ![c] = y] /\ UNCHANGED <<connections, functors>>
    BY <1>2, <1>6, <1>14 DEF Types
  <2> HIDE DEF y
  <2>5. InStage(y, c \in connections) /\ Needed(y, c \in connections) = {}
    BY <2>1, <2>3 DEF InStage, Needed
  <2>6. ~Watched(x)
    BY <2>2 DEF Ended, Watched
  <2> QED BY <2>1, <2>3, <2>4, <2>5, <2>6, <1>7, <1>12
<1>15. CASE k.f = "removeConnection"
  <2>1. x.state = "connected" /\ c \in connections /\ Ended(x) /\ l = Base
    BY <1>7, <1>15 DEF Needed
  <2>2. x.loop # Base /\ x.ups = 1 /\ x.downs = 0 /\ x.loop \in Loops
    BY <2>1, <1>7 DEF InStage, Watched, Ended, Conn
  <2> DEFINE j == Task("connectDestroyed", c)
             L == x.loop
  <2>3. /\ cn' = cn /\ connections' = connections \ {c} /\ functors' = Queued(L, j)
    BY <1>2, <1>15, <2>1 DEF removeConnection, removeConnectionInLoop
  <2>4. j \in TaskType
    BY <1>6, TaskParts
  <2> HIDE DEF j, L
  <2>5. L \in Loops /\ L # l
    BY <2>1, <2>2 DEF L
  <2>6. Types'
    <3>1. functors' \in [Loops -> Seq(TaskType)]
      BY <2>3, <2>4, <2>5 DEF Types, Queued
    <3>2. connections' \in SUBSET Conns
      BY <2>3 DEF Types
    <3> QED BY <3>1, <3>2, <2>3, <1>1, <1>11 DEF Types
  <2>7. Stages'
    <3> SUFFICES ASSUME NEW d \in Conns
                 PROVE  InStage(cn[d], d \in connections')
      BY <2>3, <1>1 DEF Stages, Accepted
    <3>1. CASE d # c
      <4>1. (d \in connections') = (d \in connections)
        BY <3>1, <2>3
      <4> QED BY <4>1 DEF Stages
    <3>2. CASE d = c
      <4>1. d \notin connections' /\ cn[d] = x
        BY <3>2, <2>3
      <4> QED BY <4>1, <2>1, <2>2 DEF InStage
    <3> QED BY <3>1, <3>2
  <2>8. TasksWait'
    <3> DEFINE more == [less EXCEPT ![L] = Append(@, j)]
               n1 == [Needs EXCEPT ![c] = {}]
               n2 == [n1 EXCEPT ![c] = {<<L, "connectDestroyed">>}]
    <3>1. n1 \in [Conns -> Works] /\ n1[c] = {} /\ Consistent(less, n1)
      <4>1. {} \in Works
        BY DEF Works
      <4> QED BY <4>1, <1>3, <1>5, <1>6
    <3> HIDE DEF n1
    <3>2. Consistent(more, n2)
      BY <3>1, <1>5, <1>6, <2>5, MoreConsistent DEF j
    <3>3. Needs' = n2
      <4>1. Needs' = [d \in Conns |-> Needed(cn[d], d \in connections')]
        BY <2>3 DEF Needs
      <4>2. n2 = [d \in Conns |-> n2[d]]
        BY <3>1
      <4>3. ASSUME NEW d \in Conns PROVE Needed(cn[d], d \in connections') = n2[d]
        <5>1. CASE d # c
          <6>1. (d \in connections') = (d \in connections)
            BY <5>1, <2>3
          <6>2. n2[d] = n1[d] /\ n1[d] = Needs[d]
            BY <5>1, <3>1, <1>3 DEF n1
          <6> QED BY <6>1, <6>2 DEF Needs
        <5>2. CASE d = c
          <6>1. n2[d] = {<<L, "connectDestroyed">>}
            BY <5>2, <3>1
          <6>2. Needed(x, FALSE) = {<<L, "connectDestroyed">>}
            BY <2>1 DEF Needed, L
          <6>3. (d \in connections') = FALSE /\ cn[d] = x
            BY <5>2, <2>3
          <6> QED BY <6>1, <6>2, <6>3
        <5> QED BY <5>1, <5>2
      <4> HIDE DEF n2
      <4> QED BY <4>1, <4>2, <4>3
    <3>4. Todo' = more
      <4>1. Todo' = [m \in Loops |-> TodoOf(batch'[m], ran'[m], functors'[m])]
        BY DEF Todo
      <4>2. more = [m \in Loops |-> more[m]]
        BY <1>5
      <4>3. ASSUME NEW m \in Loops PROVE TodoOf(batch'[m], ran'[m], functors'[m]) = more[m]
        <5>1. CASE m # L
          <6>1. functors'[m] = functors[m] /\ more[m] = less[m]
            BY <5>1, <2>3, <1>5 DEF Types, Queued
          <6> QED BY <6>1, <1>4
        <5>2. CASE m = L
          <6>1. functors'[m] = Append(functors[m], j) /\ more[m] = Append(less[m], j)
            BY <5>2, <2>3, <2>5, <1>5 DEF Types, Queued
          <6>2. batch'[m] \in Seq(TaskType) /\ functors[m] \in Seq(TaskType) /\ ran'[m] \in 0 .. Len(batch'[m])
            <7>1. batch'[m] = batch[m] /\ ran'[m] = ran[m]
              BY <5>2, <2>5, <1>1 DEF Types
            <7>2. batch[m] \in Seq(TaskType) /\ functors[m] \in Seq(TaskType) /\ ran[m] \in 0 .. Len(batch[m])
              BY TodosType DEF Types
            <7> QED BY <7>1, <7>2
          <6>3. TodoOf(batch'[m], ran'[m], Append(functors[m], j))
                  = Append(TodoOf(batch'[m], ran'[m], functors[m]), j)
            BY <6>2, <2>4, TodoQueued
          <6> QED BY <6>1, <6>3, <1>4
        <5> QED BY <5>1, <5>2
      <4> HIDE DEF more
      <4> QED BY <4>1, <4>2, <4>3
    <3> QED BY <3>2, <3>3, <3>4 DEF TasksWait
  <2>9. EventsFit'
    BY <2>3, <1>1 DEF EventsFit, EventFits
  <2>10. AllFlow'
    BY <2>3 DEF AllFlow
  <2> QED BY <2>6, <2>7, <2>8, <2>9, <2>10, <1>10
<1>16. k.f \in {"connectEstablished", "removeConnection", "connectDestroyed"}
  BY <1>5, TaskParts
<1> QED BY <1>13, <1>14, <1>15, <1>16

-----------------------------------------------------------------------------
(* The invariant and what follows from it.                                  *)

\* Every step keeps the invariant.
LEMMA NextInOrder ==
  ASSUME ConnectionsInOrder, [Next]_vars
  PROVE  ConnectionsInOrder'
<1>1. CASE UNCHANGED vars
  BY <1>1 DEF vars, ConnectionsInOrder, Types, InLoop, Stages, Accepted, TasksWait, Todo, Needs,
     EventsFit, EventFits, AllFlow
<1>2. ASSUME NEW c \in Conns,
             Connect(c) \/ PeerSends(c) \/ PeerReceives(c) \/ PeerShuts(c) \/ PeerResets(c)
      PROVE  ConnectionsInOrder'
  BY <1>2, PeerSteps
<1>3. ASSUME NEW l \in Loops, LoopStep(l) PROVE ConnectionsInOrder'
  BY <1>3, PollStep, HandleEventStep, SwapStep, RunStep, AcceptStep DEF LoopStep
<1> QED BY <1>1, <1>2, <1>3 DEF Next

\* What every run keeps true: the events the poller knows, what is queued for
\* a connection and the bytes it carries fit its place in its life.
THEOREM ConnectionsStayInOrder == Spec => []ConnectionsInOrder
<1>1. Init => ConnectionsInOrder
  BY InitInOrder
<1>2. ConnectionsInOrder /\ [Next]_vars => ConnectionsInOrder'
  BY NextInOrder
<1> QED BY <1>1, <1>2, PTL DEF Spec

\* A connection that is queued for something is referred to.
LEMMA FreedIsDone ==
  ASSUME ConnectionsInOrder, NEW c \in Conns, Freed(c)
  PROVE  cn[c].state = "disconnected"
<1> USE DEF ConnectionsInOrder
<1> DEFINE x == cn[c]
<1>1. x.state # "none" /\ c \notin connections
  BY DEF Freed, Accepted, Referred
<1>2. InStage(x, FALSE) /\ x \in Conn
  <2>1. x \in Conn /\ InStage(x, c \in connections)
    BY DEF Stages, Types
  <2>2. (c \in connections) = FALSE
    BY <1>1
  <2> QED BY <2>1, <2>2, Zenon
<1>3. x.state # "connecting"
  BY <1>2 DEF InStage
<1>4. x.state # "connected"
  <2> SUFFICES ASSUME x.state = "connected" PROVE FALSE
    OBVIOUS
  <2> DEFINE L == x.loop
  <2>1. <<L, "connectDestroyed">> \in Needs[c] /\ L \in Loops
    BY <1>1, <1>2 DEF Needs, Needed, Conn
  <2>2. Has(Todo, L, Task("connectDestroyed", c))
    BY <2>1 DEF TasksWait, Consistent
  <2>3. PICK i \in 1 .. Len(Todo[L]) : Todo[L][i].c = c
    BY <2>2, TaskParts DEF Has
  <2> HIDE DEF L
  <2> DEFINE b == batch[L]
             r == ran[L]
             f == functors[L]
             s == SubSeq(b, r + 1, Len(b))
  <2>4. b \in Seq(TaskType) /\ f \in Seq(TaskType) /\ r \in 0 .. Len(b)
    BY <2>1, TodosType DEF Types
  <2>5. Todo[L] = s \o f
    BY <2>1 DEF Todo, TodoOf
  <2>6. \E k \in Tasks(L) : k = Todo[L][i]
    <3>1. s \in Seq(TaskType) /\ Len(s) = Len(b) - r /\ Len(s) \in Nat
          /\ \A n \in 1 .. Len(s) : s[n] = b[r + n]
      <4>1. \A n \in r + 1 .. Len(b) : b[n] \in TaskType
        BY <2>4, ElementOfSeq
      <4>2. r \in Nat /\ Len(b) \in Nat /\ r <= Len(b)
        BY <2>4, LenProperties
      <4> HIDE DEF b, r, s
      <4>3. /\ s \in Seq(TaskType) /\ Len(s) = IF r + 1 <= Len(b) THEN Len(b) - (r + 1) + 1 ELSE 0
            /\ \A n \in 1 .. Len(b) - (r + 1) + 1 : s[n] = b[r + 1 + n - 1]
        BY <4>1, <4>2, SubSeqProperties DEF s
      <4> QED BY <4>2, <4>3
    <3> HIDE DEF s
    <3>2. Todo[L][i] = IF i <= Len(s) THEN s[i] ELSE f[i - Len(s)]
      BY <2>4, <2>5, <3>1, ConcatProperties
    <3>3. i \in 1 .. Len(s) + Len(f)
      BY <2>4, <2>5, <3>1, ConcatProperties
    <3>4. CASE i <= Len(s)
      <4>1. Todo[L][i] = b[r + i] /\ r + i \in DOMAIN b
        BY <3>1, <3>2, <3>3, <3>4, <2>4
      <4> QED BY <4>1 DEF Tasks
    <3>5. CASE ~(i <= Len(s))
      <4>1. Todo[L][i] = f[i - Len(s)] /\ i - Len(s) \in DOMAIN f
        BY <3>1, <3>2, <3>3, <3>5, <2>4
      <4> QED BY <4>1 DEF Tasks
    <3> QED BY <3>4, <3>5
  <2>7. Referred(c)
    BY <2>1, <2>3, <2>6 DEF Referred
  <2> QED BY <2>7 DEF Freed
<1> QED BY <1>1, <1>2, <1>3, <1>4 DEF Conn

\* epoll never knows, and no loop still has to handle, an event of a
\* connection that was destroyed, and what the code believes of an event is
\* what the kernel knows.
THEOREM PollersKnowTheLiving == Spec => []EventsAreAlive
<1>1. ConnectionsInOrder => EventsAreAlive
  <2> SUFFICES ASSUME ConnectionsInOrder, NEW c \in Conns
               PROVE  /\ Freed(c) => cn[c].reg = Unregistered /\ \A l \in Loops : \A e \in active[l] : e.c # c
                      /\ cn[c].statu = "added" <=> cn[c].reg # Unregistered
    BY DEF EventsAreAlive
  <2>1. InStage(cn[c], c \in connections) /\ cn[c] \in Conn
    BY DEF ConnectionsInOrder, Stages, Types
  <2>2. cn[c].statu = "added" <=> cn[c].reg # Unregistered
    <3>1. Watched(cn[c]) \/ Ended(cn[c]) \/ Unknown(cn[c])
      BY <2>1 DEF InStage, Conn
    <3>2. cn[c].events \in SUBSET {"R", "W"}
      BY <2>1 DEF Conn
    <3> QED BY <3>1, <3>2 DEF Watched, Ended, Unknown, Unregistered
  <2>3. ASSUME Freed(c) PROVE cn[c].reg = Unregistered /\ \A l \in Loops : \A e \in active[l] : e.c # c
    <3>1. cn[c].state = "disconnected"
      BY <2>3, FreedIsDone
    <3>2. cn[c].reg = Unregistered
      BY <3>1, <2>1 DEF InStage, Unknown
    <3>3. ASSUME NEW l \in Loops, NEW e \in active[l] PROVE e.c # c
      <4>1. EventFits(l, e)
        BY DEF ConnectionsInOrder, EventsFit
      <4>2. Acceptor.c \notin Conns
        BY ConnectionAssumption DEF Acceptor, Conns
      <4> QED BY <4>1, <4>2, <3>1 DEF EventFits
    <3> QED BY <3>2, <3>3
  <2> QED BY <2>2, <2>3
<1> QED BY <1>1, ConnectionsStayInOrder, PTL

\* The user hears once that a connection is up and once that it is down,
\* before the object goes away.
THEOREM UsersHearTheEnd == Spec => []UpThenDown
<1>1. ConnectionsInOrder => UpThenDown
  <2> SUFFICES ASSUME ConnectionsInOrder, NEW c \in Conns
               PROVE  /\ cn[c].downs <= cn[c].ups /\ cn[c].ups <= 1
                      /\ Freed(c) => cn[c].downs = 1
    BY DEF UpThenDown
  <2>1. InStage(cn[c], c \in connections) /\ cn[c] \in Conn
    BY DEF ConnectionsInOrder, Stages, Types
  <2>2. cn[c].downs <= cn[c].ups /\ cn[c].ups <= 1 /\ (cn[c].state = "disconnected" => cn[c].downs = 1)
    <3> DEFINE x == cn[c]
    <3>1. x.state \in {"none", "connecting", "connected", "disconnected"}
      BY <2>1 DEF Conn
    <3>2. (x.ups = 0 /\ x.downs = 0) \/ (x.ups = 1 /\ x.downs = 0) \/ (x.ups = 1 /\ x.downs = 1)
      BY <2>1, <3>1 DEF InStage
    <3>3. x.state = "disconnected" => x.downs = 1
      BY <2>1 DEF InStage
    <3> HIDE DEF x
    <3>4. x.downs <= x.ups /\ x.ups <= 1
      BY <3>2
    <3> QED BY <3>3, <3>4 DEF x
  <2> QED BY <2>2, FreedIsDone
<1> QED BY <1>1, ConnectionsStayInOrder, PTL

\* The peer receives messages in the order of the sends, each of them whole
\* but for the one it is still receiving.
THEOREM MessagesComeWhole == Spec => []MessagesArriveWhole
<1>1. ConnectionsInOrder => MessagesArriveWhole
  <2> SUFFICES ASSUME ConnectionsInOrder, NEW c \in Conns PROVE Whole(cn[c].rcvd)
    BY DEF MessagesArriveWhole, Whole
  <2> QED BY DEF ConnectionsInOrder, AllFlow, Flows
<1> QED BY <1>1, ConnectionsStayInOrder, PTL
=============================================================================

------------------------ MODULE StorageNodeTSProofs ------------------------
(***************************************************************************)
(* Proofs about StorageNodeTS, for any number of blocks, files and         *)
(* concurrent requests: its types; on one file system, that it shows and   *)
(* serves whole blocks and implements BlockStore; across file systems,     *)
(* that a partial file is one that a put is still copying.                 *)
(***************************************************************************)
EXTENDS StorageNodeTS, TLAPS

-----------------------------------------------------------------------------
(* Types, and the requests that a step belongs to                          *)

StepsOf == [put |-> {"body", "stat", "temp", "rename", "copyopen", "copy"},
            get |-> {"size", "open", "send"},
            head |-> {"head"}, delete |-> {"remove"}]

CallInOrder(l) ==
  /\ l.pc # "idle" => l.op \in Ops /\ l.id \in Hashes
  /\ l.pc \notin {"idle", "done"} => l.pc \in StepsOf[l.op]
  /\ l.pc = "done" => l.status # 0
  /\ l.pc \in {"send", "copy"} => l.fd \in Files
  /\ l.pc = "idle" => l = Idle

Inv == TypeOK /\ \A c \in Slots : CallInOrder(h[c])

Statuses == {200, 201, 204, 400, 404, 500}

LEMMA OpsOnly == Ops \subseteq {"put", "get", "head", "delete"}
  BY NodeAssumption

LEMMA IdleType == Idle \in Handler /\ CallInOrder(Idle)
  BY DEF Idle, Handler, PCs, CallInOrder

\* A handler keeps its type when one field changes.
LEMMA FieldType ==
  ASSUME NEW l \in Handler
  PROVE  /\ \A x \in PCs : [l EXCEPT !.pc = x] \in Handler
         /\ \A x \in Statuses : [l EXCEPT !.status = x] \in Handler
         /\ \A x \in Files \cup {None} : [l EXCEPT !.fd = x] \in Handler
         /\ \A x \in {"none", "part", "whole"} : [l EXCEPT !.length = x] \in Handler
<1>1. \A x \in PCs : [l EXCEPT !.pc = x] \in Handler
  BY DEF Handler
<1>2. \A x \in Statuses : [l EXCEPT !.status = x] \in Handler
  BY DEF Handler, Statuses
<1>3. \A x \in Files \cup {None} : [l EXCEPT !.fd = x] \in Handler
  BY DEF Handler
<1>4. \A x \in {"none", "part", "whole"} : [l EXCEPT !.length = x] \in Handler
  BY DEF Handler
<1> QED BY <1>1, <1>2, <1>3, <1>4

\* ... or when several do.
LEMMA MovedType ==
  ASSUME NEW l \in Handler, NEW pc \in PCs, NEW fd \in Files \cup {None}
  PROVE  /\ [l EXCEPT !.pc = pc, !.fd = fd] \in Handler
         /\ \A x \in {"none", "part", "whole"} :
              [l EXCEPT !.pc = pc, !.length = x] \in Handler
<1> DEFINE m == [l EXCEPT !.pc = pc]
<1>1. m \in Handler
  BY FieldType
<1> HIDE DEF m
<1>2. /\ [m EXCEPT !.fd = fd] \in Handler
      /\ \A x \in {"none", "part", "whole"} : [m EXCEPT !.length = x] \in Handler
  BY <1>1, FieldType
<1> QED BY <1>2 DEF m

LEMMA DoneType ==
  ASSUME NEW l \in Handler, NEW status \in Statuses
  PROVE  /\ [l EXCEPT !.pc = "done", !.status = status, !.fd = None] \in Handler
         /\ \A x \in {"none", "part", "whole"} :
              [l EXCEPT !.pc = "done", !.status = status, !.fd = None, !.length = x]
                \in Handler
<1> DEFINE m == [l EXCEPT !.pc = "done"]
           n == [m EXCEPT !.status = status]
           o == [n EXCEPT !.fd = None]
<1>1. m \in Handler
  BY FieldType DEF PCs
<1> HIDE DEF m
<1>2. n \in Handler
  BY <1>1, FieldType
<1> HIDE DEF n
<1>3. o \in Handler
  BY <1>2, FieldType
<1> HIDE DEF o
<1>4. \A x \in {"none", "part", "whole"} : [o EXCEPT !.length = x] \in Handler
  BY <1>3, FieldType
<1> QED BY <1>3, <1>4 DEF m, n, o

LEMMA GotoInOrder ==
  ASSUME Inv, NEW c \in Slots, NEW pc \in PCs \ {"idle", "done", "send", "copy"},
         h[c].pc # "idle", pc \in StepsOf[h[c].op], Goto(c, pc)
  PROVE  /\ h' \in [Slots -> Handler] /\ CallInOrder(h'[c])
         /\ \A d \in Slots \ {c} : h'[d] = h[d]
         /\ h'[c] = [h[c] EXCEPT !.pc = pc]
<1> DEFINE l == [h[c] EXCEPT !.pc = pc]
<1>1. h \in [Slots -> Handler] /\ h[c] \in Handler /\ CallInOrder(h[c])
  BY DEF Inv, TypeOK
<1>2. l \in Handler /\ l.pc = pc /\ l.op = h[c].op /\ l.id = h[c].id
  BY <1>1 DEF Handler
<1>3. CallInOrder(l)
  BY <1>1, <1>2 DEF CallInOrder
<1>4. h' = [h EXCEPT ![c] = l]
  BY <1>1 DEF Goto
<1> HIDE DEF l
<1>5. h' \in [Slots -> Handler] /\ h'[c] = l /\ \A d \in Slots \ {c} : h'[d] = h[d]
  BY <1>1, <1>2, <1>4
<1> QED BY <1>3, <1>5 DEF l

LEMMA RespondInOrder ==
  ASSUME Inv, NEW c \in Slots, NEW status \in Statuses, h[c].pc # "idle",
         Respond(c, status)
  PROVE  /\ h' \in [Slots -> Handler] /\ CallInOrder(h'[c])
         /\ \A d \in Slots \ {c} : h'[d] = h[d]
         /\ h'[c].pc = "done" /\ h'[c].status = status
         /\ h'[c].op = h[c].op /\ h'[c].id = h[c].id /\ h'[c].length = h[c].length
<1> DEFINE l == [h[c] EXCEPT !.pc = "done", !.status = status, !.fd = None]
<1>1. h \in [Slots -> Handler] /\ h[c] \in Handler /\ CallInOrder(h[c])
  BY DEF Inv, TypeOK
<1>2. l \in Handler
  BY <1>1, DoneType
<1>3. /\ l.pc = "done" /\ l.status = status /\ l.op = h[c].op /\ l.id = h[c].id
      /\ l.length = h[c].length
  BY <1>1 DEF Handler
<1>4. CallInOrder(l)
  BY <1>1, <1>3 DEF CallInOrder, Statuses
<1>5. h' = [h EXCEPT ![c] = l]
  BY DEF Respond
<1> HIDE DEF l
<1> QED BY <1>1, <1>2, <1>3, <1>4, <1>5

\* What a step may do to the states of the handlers.
Changed(c) == /\ h' \in [Slots -> Handler] /\ CallInOrder(h'[c])
              /\ \A d \in Slots \ {c} : h'[d] = h[d]

LEMMA StepHandlers ==
  ASSUME Inv, NEW c \in Slots, Arrive(c) \/ Step(c)
  PROVE  Changed(c) \/ (GetOpen(c) /\ ProcessDies)
<1> USE DEF At
<1>0. /\ h \in [Slots -> Handler] /\ h[c] \in Handler /\ CallInOrder(h[c])
      /\ path \in [Hashes -> Files \cup {None}]
  BY DEF Inv, TypeOK
<1>1. ASSUME NEW pc \in PCs \ {"idle", "done", "send", "copy"},
             h[c].pc # "idle", pc \in StepsOf[h[c].op], Goto(c, pc)
      PROVE  Changed(c)
  BY <1>1, GotoInOrder DEF Changed
<1>2. ASSUME NEW status \in Statuses, h[c].pc # "idle", Respond(c, status)
      PROVE  Changed(c)
  BY <1>2, RespondInOrder DEF Changed
<1>3. ASSUME NEW l \in Handler, CallInOrder(l), h' = [h EXCEPT ![c] = l]
      PROVE  Changed(c)
  BY <1>0, <1>3 DEF Changed
<1>4. h[c].pc \notin {"idle", "done"}
        => h[c].op \in {"put", "get", "head", "delete"} /\ h[c].pc \in StepsOf[h[c].op]
  BY <1>0, OpsOnly DEF CallInOrder
<1>5. /\ h[c].pc \in StepsOf["put"] => h[c].op = "put"
      /\ h[c].pc \in StepsOf["get"] => h[c].op = "get"
  BY <1>4 DEF StepsOf
<1>6. CASE Arrive(c)
  <2>1. PICK op \in Ops, id \in Hashes, match \in BOOLEAN : Receive(c, op, id, match)
    BY <1>6 DEF Arrive
  <2> DEFINE l == [Idle EXCEPT !.pc = Entry[op], !.op = op, !.id = id, !.match = match]
  <2>2. op \in {"put", "get", "head", "delete"}
    BY OpsOnly
  <2>3. Entry[op] \in PCs \ {"idle", "done", "send", "copy"} /\ Entry[op] \in StepsOf[op]
    BY <2>2 DEF Entry, PCs, StepsOf
  <2>4. l \in Handler
    BY <2>2, <2>3 DEF Idle, Handler
  <2>5. CallInOrder(l)
    BY <2>3 DEF Idle, CallInOrder
  <2> QED BY <1>3, <2>1, <2>4, <2>5 DEF Receive
<1>7. CASE Finish(c)
  BY <1>3, <1>7, IdleType DEF Finish
<1>8. CASE PutBody(c) \/ PutStat(c) \/ PutTemp(c) \/ PutRename(c)
  BY <1>1, <1>2, <1>5, <1>8
  DEF PutBody, PutStat, PutTemp, PutRename, PCs, StepsOf, Statuses
<1>9. CASE PutCopyOpen(c)
  <2>1. ASSUME NEW f \in Files, h' = [h EXCEPT ![c].pc = "copy", ![c].fd = f]
        PROVE  Changed(c)
    <3> DEFINE l == [h[c] EXCEPT !.pc = "copy", !.fd = f]
    <3>0. l \in Handler
      BY <1>0, MovedType DEF PCs
    <3>1. l.pc = "copy" /\ l.fd = f /\ l.op = h[c].op /\ l.id = h[c].id
      BY <1>0 DEF Handler
    <3>2. CallInOrder(l)
      BY <1>0, <1>5, <1>9, <3>1 DEF PutCopyOpen, CallInOrder, StepsOf
    <3> QED BY <1>0, <1>3, <2>1, <3>0, <3>2
  <2> QED BY <1>2, <1>9, <2>1 DEF PutCopyOpen, Statuses
<1>10. CASE PutCopy(c)
  BY <1>2, <1>10 DEF PutCopy, Copied, CopyFails, Statuses
<1>11. CASE GetStat(c)
  <2>1. ASSUME NEW x \in {"whole", "part"}, h' = [h EXCEPT ![c].pc = "open", ![c].length = x]
        PROVE  Changed(c)
    <3> DEFINE l == [h[c] EXCEPT !.pc = "open", !.length = x]
    <3>0. l \in Handler
      BY <1>0, MovedType DEF PCs
    <3>1. l.pc = "open" /\ l.op = h[c].op /\ l.id = h[c].id
      BY <1>0 DEF Handler
    <3>2. CallInOrder(l)
      BY <1>0, <1>5, <1>11, <3>1 DEF GetStat, CallInOrder, StepsOf
    <3> QED BY <1>0, <1>3, <2>1, <3>0, <3>2
  <2> QED BY <1>2, <1>11, <2>1 DEF GetStat, Statuses
<1>12. CASE GetOpen(c)
  <2>1. CASE Exists(h[c].id) /\ h' = [h EXCEPT ![c].pc = "send", ![c].fd = path[h[c].id]]
    <3> DEFINE l == [h[c] EXCEPT !.pc = "send", !.fd = path[h[c].id]]
    <3>1. path[h[c].id] \in Files
      BY <1>0, <1>12, <2>1 DEF GetOpen, CallInOrder, Exists
    <3>0. l \in Handler
      BY <1>0, <3>1, MovedType DEF PCs
    <3>2. l.pc = "send" /\ l.fd \in Files /\ l.op = h[c].op /\ l.id = h[c].id
      BY <1>0, <3>1 DEF Handler
    <3>3. CallInOrder(l)
      BY <1>0, <1>5, <1>12, <3>2 DEF GetOpen, CallInOrder, StepsOf
    <3> QED BY <1>0, <1>3, <2>1, <3>0, <3>3
  <2> QED BY <1>12, <2>1 DEF GetOpen
<1>13. CASE GetSend(c)
  <2>1. ASSUME NEW x \in {"none", "part", "whole"},
               h' = [h EXCEPT ![c].pc = "done", ![c].status = 200, ![c].fd = None,
                              ![c].length = x]
        PROVE  Changed(c)
    <3> DEFINE m == [h[c] EXCEPT !.pc = "done", !.status = 200, !.fd = None]
               l == [m EXCEPT !.length = x]
               g == [h EXCEPT ![c].pc = "done", ![c].status = 200, ![c].fd = None]
    <3>1. m \in Handler
      <4>1. \A s \in Statuses :
              [h[c] EXCEPT !.pc = "done", !.status = s, !.fd = None] \in Handler
        BY <1>0, DoneType
      <4> QED BY <4>1 DEF Statuses
    <3>2. m.pc = "done" /\ m.status = 200 /\ m.op = h[c].op /\ m.id = h[c].id
      BY <1>0 DEF Handler
    <3>3. g = [h EXCEPT ![c] = m] /\ h' = [g EXCEPT ![c].length = x]
      BY <2>1
    <3> HIDE DEF m, g
    <3>4. l \in Handler /\ l.pc = "done" /\ l.status = 200 /\ l.op = h[c].op /\ l.id = m.id
      BY <3>1, <3>2, FieldType DEF Handler
    <3>5. CallInOrder(l)
      BY <1>0, <1>13, <3>2, <3>4 DEF GetSend, CallInOrder
    <3>6. g[c] = m /\ h' = [h EXCEPT ![c] = l]
      BY <1>0, <3>1, <3>3
    <3> QED BY <1>3, <3>4, <3>5, <3>6
  <2>2. h[c].length \in {"none", "part", "whole"}
    BY <1>0 DEF Handler
  <2> QED BY <1>0, <1>2, <1>13, <2>1, <2>2 DEF GetSend, Statuses
<1>14. CASE Head(c) \/ Delete(c)
  BY <1>2, <1>14 DEF Head, Delete, Statuses
<1> QED BY <1>6, <1>7, <1>8, <1>9, <1>10, <1>11, <1>12, <1>13, <1>14 DEF Step

\* What a step may do to the files.
LEMMA StepFiles ==
  ASSUME Inv, NEW c \in Slots, Arrive(c) \/ Step(c)
  PROVE  path' \in [Hashes -> Files \cup {None}] /\ content' \in [Files -> Content]
<1>0. /\ path \in [Hashes -> Files \cup {None}] /\ content \in [Files -> Content]
      /\ CallInOrder(h[c])
  BY DEF Inv, TypeOK
<1>1. ASSUME NEW b, NEW f \in Files \cup {None}, path' = [path EXCEPT ![b] = f]
      PROVE  path' \in [Hashes -> Files \cup {None}]
  BY <1>0, <1>1
<1>2. ASSUME NEW f, NEW x \in Content, content' = [content EXCEPT ![f] = x]
      PROVE  content' \in [Files -> Content]
  BY <1>0, <1>2
<1>3. CASE PutRename(c)
  <2>1. Whole \in Content
    BY DEF Whole, Content
  <2> QED BY <1>0, <1>1, <1>2, <1>3, <2>1 DEF PutRename
<1>4. CASE PutCopyOpen(c)
  <2>1. [whole |-> FALSE, writer |-> c] \in Content
    BY DEF Content
  <2> QED BY <1>0, <1>1, <1>2, <1>4, <2>1 DEF PutCopyOpen
<1>5. CASE PutCopy(c)
  <2> DEFINE f == h[c].fd
             x == [content[f] EXCEPT !.whole = TRUE]
  <2>1. f \in Files
    BY <1>0, <1>5 DEF PutCopy, Copied, CopyFails, CallInOrder
  <2>2. content[f] \in Content /\ x \in Content
    BY <1>0, <2>1 DEF Content
  <2>3. CASE Copied(c)
    <3>1. content' = [content EXCEPT ![f] = x] \/ content' = content
      BY <2>3 DEF Copied
    <3> QED BY <1>0, <1>2, <2>2, <2>3, <3>1 DEF Copied
  <2>4. CASE CopyFails(c)
    BY <1>0, <1>1, <2>4 DEF CopyFails
  <2> QED BY <1>5, <2>3, <2>4 DEF PutCopy
<1>6. CASE Delete(c)
  BY <1>0, <1>1, <1>6 DEF Delete
<1>7. CASE UNCHANGED <<path, content>>
  BY <1>0, <1>7
<1> QED BY <1>3, <1>4, <1>5, <1>6, <1>7
        DEF Arrive, Receive, Step, Finish, PutBody, PutStat, PutTemp, GetStat,
            GetOpen, ProcessDies, GetSend, Head

LEMMA DyingKeeps ==
  ASSUME Inv, ProcessDies
  PROVE  Inv'
  BY IdleType DEF Inv, TypeOK, ProcessDies

LEMMA NextInv == Inv /\ [Next]_vars => Inv'
<1> SUFFICES ASSUME Inv, [Next]_vars PROVE Inv'
  OBVIOUS
<1>1. ASSUME NEW c \in Slots, Arrive(c) \/ Step(c) PROVE Inv'
  <2>1. CASE Changed(c)
    BY <1>1, <2>1, StepFiles DEF Inv, TypeOK, Changed
  <2> QED BY <1>1, <2>1, StepHandlers, DyingKeeps
<1>2. CASE Kill
  BY <1>2, DyingKeeps DEF Kill
<1>3. CASE UNCHANGED vars
  BY <1>3 DEF vars, Inv, TypeOK
<1> QED BY <1>1, <1>2, <1>3 DEF Next

LEMMA InitInv == Init => Inv
  BY IdleType DEF Init, Inv, TypeOK, Whole, Content

LEMMA InvHolds == Spec => []Inv
  BY InitInv, NextInv, PTL DEF Spec

\* Every reachable state of the node has the types of its declarations.
THEOREM TypeCorrect == Spec => []TypeOK
<1>1. Inv => TypeOK
  BY DEF Inv
<1> QED BY <1>1, InvHolds, PTL

-----------------------------------------------------------------------------
(* One file system                                                         *)

\* A request that has not answered is where its method can be.
LEMMA OpOfStep ==
  ASSUME Inv, NEW c \in Slots, ~At(c, "idle"), ~At(c, "done")
  PROVE  h[c].op \in {"put", "get", "head", "delete"} /\ h[c].pc \in StepsOf[h[c].op]
  BY OpsOnly DEF Inv, CallInOrder, At

\* Nothing is copied, so each file is whole, and so is what a get declares.
WholeCall(l) == /\ l.pc \notin {"copyopen", "copy"}
                /\ l.pc \in {"open", "send"} => l.length = "whole"
                /\ l.pc = "done" /\ l.op = "get" /\ l.status = 200 => l.length = "whole"

AllWhole == /\ \A f \in Files : content[f].whole
            /\ \A c \in Slots : WholeCall(h[c])

LEMMA IdleWhole == WholeCall(Idle)
  BY DEF WholeCall, Idle

LEMMA GotoWhole ==
  ASSUME Inv, NEW c \in Slots, NEW pc \in {"stat", "temp", "rename"},
         h[c].pc # "idle", pc \in StepsOf[h[c].op], Goto(c, pc)
  PROVE  WholeCall(h'[c])
<1>1. h'[c].pc = pc
  <2>1. h'[c] = [h[c] EXCEPT !.pc = pc] /\ h[c] \in Handler
    BY GotoInOrder DEF PCs, Inv, TypeOK
  <2> QED BY <2>1 DEF Handler
<1> QED BY <1>1 DEF WholeCall

LEMMA RespondWhole ==
  ASSUME Inv, NEW c \in Slots, NEW status \in Statuses, h[c].pc # "idle",
         h[c].op # "get" \/ status # 200, Respond(c, status)
  PROVE  WholeCall(h'[c])
  BY RespondInOrder DEF WholeCall

LEMMA StepWhole ==
  ASSUME ~CrossDevice, Inv, AllWhole, NEW c \in Slots, Step(c), ~ProcessDies
  PROVE  WholeCall(h'[c]) /\ \A f \in Files : content'[f].whole
<1> USE DEF At
<1>0. /\ h \in [Slots -> Handler] /\ h[c] \in Handler /\ content \in [Files -> Content]
      /\ path \in [Hashes -> Files \cup {None}] /\ CallInOrder(h[c]) /\ WholeCall(h[c])
      /\ \A f \in Files : content[f].whole
  BY DEF Inv, TypeOK, AllWhole
<1>1. CASE Finish(c)
  BY <1>0, <1>1, IdleWhole DEF Finish
<1>2. CASE PutBody(c) \/ PutStat(c) \/ PutTemp(c)
  <2>1. h[c].op = "put" /\ h[c].pc # "idle"
    BY <1>2, OpOfStep DEF PutBody, PutStat, PutTemp, StepsOf
  <2> QED BY <1>0, <1>2, <2>1, GotoWhole, RespondWhole
          DEF PutBody, PutStat, PutTemp, StepsOf, Statuses
<1>3. CASE PutRename(c)
  <2>1. h[c].op = "put" /\ h[c].pc # "idle"
    BY <1>3, OpOfStep DEF PutRename, StepsOf
  <2>2. WholeCall(h'[c])
    BY <1>3, <2>1, RespondWhole DEF PutRename, Statuses
  <2>3. \A f \in Files : content'[f].whole
    BY <1>0, <1>3 DEF PutRename, Whole
  <2> QED BY <2>2, <2>3
<1>4. ~PutCopyOpen(c) /\ ~PutCopy(c)
  BY <1>0 DEF PutCopyOpen, PutCopy, Copied, CopyFails, WholeCall
<1>5. CASE GetStat(c)
  <2>1. CASE /\ Exists(h[c].id)
             /\ h' = [h EXCEPT ![c].pc = "open",
                               ![c].length = IF content[path[h[c].id]].whole
                                               THEN "whole" ELSE "part"]
    <3>1. h[c].id \in Hashes
      BY <1>0, <1>5 DEF GetStat, CallInOrder
    <3>2. content[path[h[c].id]].whole
      BY <1>0, <2>1, <3>1 DEF Exists
    <3>3. h'[c].pc = "open" /\ h'[c].length = "whole"
      BY <1>0, <2>1, <3>2 DEF Handler
    <3> QED BY <1>0, <1>5, <3>3 DEF GetStat, WholeCall
  <2>2. CASE Respond(c, 404)
    BY <1>0, <1>5, <2>2, RespondWhole DEF GetStat, Statuses
  <2> QED BY <1>5, <2>1, <2>2 DEF GetStat
<1>6. CASE GetOpen(c)
  <2>1. h' = [h EXCEPT ![c].pc = "send", ![c].fd = path[h[c].id]] /\ UNCHANGED content
    BY <1>6 DEF GetOpen
  <2>2. h'[c].pc = "send" /\ h'[c].length = h[c].length
    BY <1>0, <2>1 DEF Handler
  <2> QED BY <1>0, <1>6, <2>1, <2>2 DEF GetOpen, WholeCall
<1>7. CASE GetSend(c)
  <2>1. CASE Respond(c, 500)
    BY <1>0, <1>7, <2>1, RespondWhole DEF GetSend, Statuses
  <2>2. CASE h' = [h EXCEPT ![c].pc = "done", ![c].status = 200, ![c].fd = None,
                            ![c].length = h[c].length]
    <3>1. h'[c].pc = "done" /\ h'[c].length = h[c].length
      BY <1>0, <2>2 DEF Handler
    <3> QED BY <1>0, <1>7, <3>1 DEF GetSend, WholeCall
  <2>3. h[c].fd \in Files /\ content[h[c].fd].whole
    BY <1>0, <1>7 DEF GetSend, CallInOrder
  <2> QED BY <1>7, <2>1, <2>2, <2>3 DEF GetSend
<1>8. CASE Head(c) \/ Delete(c)
  <2>1. h[c].op # "get" /\ h[c].pc # "idle"
    BY <1>8, OpOfStep DEF Head, Delete, StepsOf
  <2> QED BY <1>0, <1>8, <2>1, RespondWhole DEF Head, Delete, Statuses
<1> QED BY <1>1, <1>2, <1>3, <1>4, <1>5, <1>6, <1>7, <1>8 DEF Step

WholeInv == Inv /\ AllWhole

LEMMA NextWhole ==
  ASSUME ~CrossDevice
  PROVE  WholeInv /\ [Next]_vars => WholeInv'
<1> SUFFICES ASSUME WholeInv, [Next]_vars PROVE AllWhole'
  BY NextInv DEF WholeInv
<1>0. Inv /\ AllWhole
  BY DEF WholeInv
<1>1. CASE ProcessDies
  BY <1>0, <1>1, IdleWhole DEF ProcessDies, AllWhole
<1>2. ASSUME NEW c \in Slots, Changed(c), WholeCall(h'[c]), \A f \in Files : content'[f].whole
      PROVE  AllWhole'
  BY <1>0, <1>2 DEF Changed, AllWhole
<1>3. ASSUME NEW c \in Slots, Step(c) PROVE AllWhole'
  BY <1>0, <1>1, <1>2, <1>3, StepHandlers, StepWhole
<1>4. ASSUME NEW c \in Slots, Arrive(c) PROVE AllWhole'
  <2>1. PICK op \in Ops, id \in Hashes, match \in BOOLEAN : Receive(c, op, id, match)
    BY <1>4 DEF Arrive
  <2>2. h'[c] = [Idle EXCEPT !.pc = Entry[op], !.op = op, !.id = id, !.match = match]
    BY <1>0, <2>1 DEF Receive, Inv, TypeOK
  <2>3. h'[c].pc \in {"body", "size", "head", "remove"}
    BY <2>2, OpsOnly DEF Entry, Idle
  <2>4. WholeCall(h'[c])
    BY <2>3 DEF WholeCall
  <2> QED BY <1>0, <1>1, <1>2, <1>4, <2>1, <2>4, StepHandlers DEF Receive, AllWhole
<1>5. CASE UNCHANGED vars
  BY <1>0, <1>5 DEF vars, AllWhole
<1> QED BY <1>1, <1>3, <1>4, <1>5 DEF Next, Kill

LEMMA WholeHolds ==
  ASSUME ~CrossDevice
  PROVE  Spec => []WholeInv
<1>1. Init => WholeInv
  BY InitInv, IdleWhole DEF Init, WholeInv, AllWhole, Whole
<1> QED BY <1>1, NextWhole, PTL DEF Spec

\* On one file system a path shows nothing or its whole block, wherever the
\* process ends: put writes elsewhere, and renames what it has written.
THEOREM FilesAreWhole ==
  ASSUME ~CrossDevice
  PROVE  Spec => []NamedFilesAreWhole
<1>1. WholeInv => NamedFilesAreWhole
  BY DEF WholeInv, Inv, TypeOK, AllWhole, NamedFilesAreWhole, Exists
<1> QED BY <1>1, WholeHolds, PTL

\* There, a get that looks whole is: the file it has opened is never written
\* again, although its path may be.
THEOREM GetsAreWhole ==
  ASSUME ~CrossDevice
  PROVE  Spec => []GetServesWhole
<1>1. WholeInv => GetServesWhole
  BY DEF WholeInv, AllWhole, WholeCall, GetServesWhole, At
<1> QED BY <1>1, WholeHolds, PTL

-----------------------------------------------------------------------------
(* Two file systems                                                        *)

\* The copy that truncated file f last is still at it, and f is the file of
\* its block.
Copying(d, f, b) == d \in Slots /\ At(d, "copy") /\ h[d].fd = f /\ h[d].id = b

PartialInOrder ==
  /\ \A a, b \in Hashes : Exists(a) /\ path[a] = path[b] => a = b
  /\ \A b \in Hashes : Exists(b) /\ ~content[path[b]].whole
                          => Copying(content[path[b]].writer, path[b], b)

PartialInv == Inv /\ PartialInOrder

\* A step that leaves the files alone, of a handler that is not copying.
LEMMA OthersCopy ==
  ASSUME PartialInv, NEW c \in Slots, Changed(c), ~At(c, "copy"), UNCHANGED content,
         \A b \in Hashes : path'[b] = path[b] \/ path'[b] = None
  PROVE  PartialInOrder'
<1>1. \A a, b \in Hashes : Exists(a)' /\ path'[a] = path'[b] => a = b
  BY DEF PartialInv, PartialInOrder, Exists
<1>2. ASSUME NEW b \in Hashes, Exists(b)', ~content'[path'[b]].whole
      PROVE  Copying(content[path[b]].writer, path[b], b)'
  <2>1. path'[b] = path[b] /\ Exists(b) /\ ~content[path[b]].whole
    BY <1>2 DEF Exists
  <2>2. Copying(content[path[b]].writer, path[b], b)
    BY <2>1 DEF PartialInv, PartialInOrder
  <2> QED BY <2>1, <2>2 DEF Copying, Changed, At
<1> QED BY <1>1, <1>2 DEF PartialInOrder

\* A file of nobody's, or the one at b, becomes the file of block b.
LEMMA OneFileMoves ==
  ASSUME PartialInv, NEW c \in Slots, Changed(c), ~At(c, "copy"),
         NEW b \in Hashes, NEW f \in Files, NEW x \in Content,
         \A a \in Hashes \ {b} : path[a] # f,
         path' = [path EXCEPT ![b] = f], content' = [content EXCEPT ![f] = x],
         ~x.whole => Copying(x.writer, f, b)'
  PROVE  PartialInOrder'
<1>0. /\ path \in [Hashes -> Files \cup {None}] /\ content \in [Files -> Content]
      /\ PartialInOrder
  BY DEF PartialInv, Inv, TypeOK
<1>1. /\ path'[b] = f /\ content'[f] = x
      /\ \A a \in Hashes \ {b} : path'[a] = path[a]
      /\ \A g \in Files \ {f} : content'[g] = content[g]
  BY <1>0
<1>2. \A a, d \in Hashes : Exists(a)' /\ path'[a] = path'[d] => a = d
  BY <1>0, <1>1 DEF PartialInOrder, Exists
<1>3. ASSUME NEW a \in Hashes, Exists(a)', ~content'[path'[a]].whole
      PROVE  Copying(content[path[a]].writer, path[a], a)'
  <2>1. CASE a = b
    BY <1>1, <1>3, <2>1
  <2>2. CASE a # b
    <3>1. path'[a] = path[a] /\ Exists(a) /\ path[a] \in Files \ {f}
      BY <1>0, <1>1, <1>3, <2>2 DEF Exists
    <3>2. content'[path'[a]] = content[path[a]]
      BY <1>1, <3>1
    <3>3. Copying(content[path[a]].writer, path[a], a)
      BY <1>0, <1>3, <3>1, <3>2 DEF PartialInOrder
    <3> QED BY <3>1, <3>2, <3>3 DEF Copying, Changed, At
  <2> QED BY <2>1, <2>2
<1> QED BY <1>2, <1>3 DEF PartialInOrder

\* A copy ends: its file is whole, or another copy has truncated it since.
LEMMA CopyEnds ==
  ASSUME PartialInv, NEW c \in Slots, Changed(c), Copied(c)
  PROVE  PartialInOrder'
<1> DEFINE f == h[c].fd
<1>0. /\ content \in [Files -> Content] /\ PartialInOrder /\ UNCHANGED path
      /\ path \in [Hashes -> Files \cup {None}]
  BY DEF PartialInv, Inv, TypeOK, Copied
<1>1. \A a, b \in Hashes : Exists(a)' /\ path'[a] = path'[b] => a = b
  BY <1>0 DEF PartialInOrder, Exists
<1>2. ASSUME NEW b \in Hashes, Exists(b)', ~content'[path'[b]].whole
      PROVE  Copying(content[path[b]].writer, path[b], b)'
  <2>1. Exists(b) /\ path'[b] = path[b] /\ path[b] \in Files
    BY <1>0, <1>2 DEF Exists
  <2>2. /\ content'[path[b]] = content[path[b]]
        /\ path[b] = f => content[f].writer # c
    <3>1. CASE content' = [content EXCEPT ![f].whole = TRUE]
      <4>1. content'[path[b]] = IF path[b] = f THEN [content[f] EXCEPT !.whole = TRUE]
                                               ELSE content[path[b]]
        BY <1>0, <2>1, <3>1
      <4>2. path[b] # f
        BY <1>0, <1>2, <2>1, <4>1 DEF Content
      <4> QED BY <4>1, <4>2
    <3>2. CASE content[f].writer # c /\ UNCHANGED content
      BY <3>2
    <3> QED BY <3>1, <3>2 DEF Copied
  <2>3. Copying(content[path[b]].writer, path[b], b)
    BY <1>0, <1>2, <2>1, <2>2 DEF PartialInOrder
  <2>4. content[path[b]].writer # c
    BY <2>2, <2>3 DEF Copying
  <2> QED BY <2>1, <2>2, <2>3, <2>4 DEF Copying, Changed, At
<1> QED BY <1>1, <1>2 DEF PartialInOrder

\* A copy fails and unlinks the file of its block; it was at no other.
LEMMA CopyGoes ==
  ASSUME PartialInv, NEW c \in Slots, Changed(c), CopyFails(c)
  PROVE  PartialInOrder'
<1>0. /\ PartialInOrder /\ path \in [Hashes -> Files \cup {None}] /\ UNCHANGED content
      /\ path' = [path EXCEPT ![h[c].id] = None]
  BY DEF PartialInv, Inv, TypeOK, CopyFails
<1>1. \A b \in Hashes : Exists(b)' => path'[b] = path[b] /\ Exists(b) /\ b # h[c].id
  BY <1>0 DEF Exists
<1>2. \A a, b \in Hashes : Exists(a)' /\ path'[a] = path'[b] => a = b
  BY <1>0, <1>1 DEF PartialInOrder, Exists
<1>3. ASSUME NEW b \in Hashes, Exists(b)', ~content'[path'[b]].whole
      PROVE  Copying(content[path[b]].writer, path[b], b)'
  <2>1. Copying(content[path[b]].writer, path[b], b)
    BY <1>0, <1>1, <1>3 DEF PartialInOrder
  <2> QED BY <1>0, <1>1, <1>3, <2>1 DEF Copying, Changed, At
<1> QED BY <1>2, <1>3 DEF PartialInOrder

LEMMA StepPartial ==
  ASSUME PartialInv, "get" \notin Ops, NEW c \in Slots, Arrive(c) \/ Step(c)
  PROVE  PartialInOrder'
<1> USE DEF At
<1>0. /\ Inv /\ PartialInOrder /\ CallInOrder(h[c]) /\ h \in [Slots -> Handler]
      /\ h[c].pc # "idle" => h[c].op \in Ops /\ h[c].id \in Hashes
      /\ path \in [Hashes -> Files \cup {None}]
  BY DEF PartialInv, Inv, TypeOK, CallInOrder
<1>1. h[c].pc \notin {"size", "open", "send"}
  BY <1>0, OpOfStep DEF StepsOf
<1>2. Changed(c)
  <2>1. CASE GetOpen(c)
    BY <1>1, <2>1 DEF GetOpen
  <2>2. CASE ~GetOpen(c)
    BY <1>0, <2>2, StepHandlers
  <2> QED BY <2>1, <2>2
<1>3. CASE UNCHANGED <<path, content>> /\ h[c].pc # "copy"
  BY <1>2, <1>3, OthersCopy
<1>4. CASE PutRename(c)
  <2>1. ASSUME NEW f \in Files, Fresh(f), path' = [path EXCEPT ![h[c].id] = f],
               content' = [content EXCEPT ![f] = Whole]
        PROVE  PartialInOrder'
    <3>1. Whole \in Content /\ Whole.whole
      BY DEF Whole, Content
    <3> PICK b \in Hashes : b = h[c].id
      BY <1>0, <1>4 DEF PutRename
    <3>2. h[c].pc # "copy" /\ \A a \in Hashes : path[a] # f
      BY <1>4, <2>1 DEF PutRename, Fresh
    <3> QED BY <1>2, <2>1, <3>1, <3>2, OneFileMoves
  <2> QED BY <1>3, <1>4, <2>1 DEF PutRename
<1>5. CASE PutCopyOpen(c)
  <2>1. ASSUME NEW f \in Files, f = path[h[c].id] \/ Fresh(f),
               path' = [path EXCEPT ![h[c].id] = f],
               content' = [content EXCEPT ![f] = [whole |-> FALSE, writer |-> c]],
               h' = [h EXCEPT ![c].pc = "copy", ![c].fd = f]
        PROVE  PartialInOrder'
    <3> DEFINE x == [whole |-> FALSE, writer |-> c]
    <3>1. x \in Content /\ x.writer = c
      BY DEF Content
    <3> PICK b \in Hashes : b = h[c].id
      BY <1>0, <1>5 DEF PutCopyOpen
    <3>2. h[c].pc # "copy" /\ f # None
      BY <1>5, NodeAssumption DEF PutCopyOpen
    <3>3. \A a \in Hashes \ {b} : path[a] # f
      BY <1>0, <2>1, <3>2 DEF PartialInOrder, Exists, Fresh
    <3>4. h'[c].pc = "copy" /\ h'[c].fd = f /\ h'[c].id = b
      BY <1>0, <2>1 DEF Handler
    <3>5. Copying(x.writer, f, b)'
      BY <3>1, <3>4 DEF Copying
    <3> HIDE DEF x
    <3>6. path' = [path EXCEPT ![b] = f] /\ content' = [content EXCEPT ![f] = x]
      BY <2>1 DEF x
    <3> QED BY <1>2, <3>1, <3>2, <3>3, <3>5, <3>6, OneFileMoves
  <2> QED BY <1>3, <1>5, <2>1 DEF PutCopyOpen
<1>6. CASE PutCopy(c)
  BY <1>2, <1>6, CopyEnds, CopyGoes DEF PutCopy
<1>7. CASE Delete(c)
  <2>1. \A b \in Hashes : path'[b] = path[b] \/ path'[b] = None
    BY <1>0, <1>7 DEF Delete
  <2> QED BY <1>2, <1>7, <2>1, OthersCopy DEF Delete
<1> QED BY <1>1, <1>3, <1>4, <1>5, <1>6, <1>7
        DEF Arrive, Receive, Step, Finish, PutBody, PutStat, PutTemp, GetStat,
            GetOpen, GetSend, Head

LEMMA NextPartial ==
  ASSUME ~Kills, "get" \notin Ops
  PROVE  PartialInv /\ [Next]_vars => PartialInv'
<1> SUFFICES ASSUME PartialInv, [Next]_vars PROVE PartialInOrder'
  BY NextInv DEF PartialInv
<1>1. CASE UNCHANGED vars
  BY <1>1 DEF vars, PartialInv, PartialInOrder, Copying, Exists, At
<1> QED BY <1>1, StepPartial DEF Next, Kill

\* Across file systems, as long as the process lives, a partial file is at a
\* path only while a put of that block is copying: copies of one block may
\* truncate each other's file, and each may fail and unlink it.
THEOREM PartialFilesAreCopied ==
  ASSUME ~Kills, "get" \notin Ops
  PROVE  Spec => []PartialOnlyWhileCopied
<1>1. Init => PartialInv
  BY InitInv DEF Init, PartialInv, PartialInOrder, Exists
<1>2. PartialInv => PartialOnlyWhileCopied
  BY DEF PartialInv, PartialInOrder, Copying, PartialOnlyWhileCopied
<1> QED BY <1>1, <1>2, NextPartial, PTL DEF Spec

-----------------------------------------------------------------------------
(* The refinement                                                          *)

\* The refinement mapping of StorageNodeTS, named.
Present == {b \in Hashes : Exists(b)}
Call(c) == [phase |-> Phase(c), kind |-> h[c].op, id |-> h[c].id]
Calls   == [c \in Slots |-> Call(c)]

Maps == BS!Next \/ UNCHANGED BS!vars

\* Slot c goes to a phase, the others and its request stay.
Moves(c, to) == /\ \A d \in Slots \ {c} : h'[d] = h[d]
                /\ h'[c].op = h[c].op /\ h'[c].id = h[c].id
                /\ Phase(c)' = to

LEMMA MoveMaps ==
  ASSUME NEW c \in Slots, NEW to, Moves(c, to)
  PROVE  Calls' = [Calls EXCEPT ![c].phase = to]
<1>1. ASSUME NEW d \in Slots \ {c} PROVE Call(d)' = Call(d)
  <2>1. h'[d] = h[d]
    BY DEF Moves
  <2> QED
    BY <2>1 DEF Call, Phase
<1>2. Call(c)' = [Call(c) EXCEPT !.phase = to]
  BY DEF Moves, Call
<1>3. Calls' = [Calls EXCEPT ![c] = [Call(c) EXCEPT !.phase = to]]
  BY <1>1, <1>2 DEF Calls
<1> QED BY <1>3 DEF Calls

LEMMA GotoMoves ==
  ASSUME Inv, NEW c \in Slots, NEW pc \in {"stat", "temp", "rename"}, Goto(c, pc),
         h[c].pc # "idle", pc \in StepsOf[h[c].op]
  PROVE  Moves(c, "pending")
<1>1. h'[c] = [h[c] EXCEPT !.pc = pc] /\ h[c] \in Handler
      /\ \A d \in Slots \ {c} : h'[d] = h[d]
  BY GotoInOrder DEF PCs, Inv, TypeOK
<1>2. h'[c].pc = pc /\ h'[c].op = h[c].op /\ h'[c].id = h[c].id
  BY <1>1 DEF Handler
<1> QED BY <1>1, <1>2 DEF Moves, Phase

PhaseOf(status) == IF status \in {200, 201, 204} THEN "effective"
                   ELSE IF status = 404 THEN "missed" ELSE "failed"

LEMMA RespondMoves ==
  ASSUME Inv, NEW c \in Slots, NEW status \in Statuses, h[c].pc # "idle",
         Respond(c, status)
  PROVE  Moves(c, PhaseOf(status))
  BY RespondInOrder DEF Moves, Phase, PhaseOf, Statuses

\* Steps of the node as steps of BlockStore.
LEMMA StaySteps ==
  ASSUME NEW c \in Slots, Moves(c, Phase(c)), UNCHANGED path
  PROVE  UNCHANGED BS!vars
<1>1. Calls' = [Calls EXCEPT ![c].phase = Phase(c)]
  BY MoveMaps
<1>2. Calls' = Calls
  BY <1>1 DEF Calls, Call
<1> QED BY <1>2 DEF BS!vars, Calls, Call, Exists

LEMMA FailSteps ==
  ASSUME NEW c \in Slots, Moves(c, "failed"), UNCHANGED path,
         Phase(c) \in {"pending", "effective"}
  PROVE  BS!Fail(c)
<1>1. Calls' = [Calls EXCEPT ![c].phase = "failed"]
  BY MoveMaps
<1> QED BY <1>1 DEF BS!Fail, BS!Moved, Calls, Call, Exists

LEMMA SeeSteps ==
  ASSUME NEW c \in Slots, Moves(c, "effective"), UNCHANGED path,
         Phase(c) = "pending", h[c].op # "delete", h[c].id \in Hashes, Exists(h[c].id)
  PROVE  BS!See(c)
<1>1. Calls' = [Calls EXCEPT ![c].phase = "effective"]
  BY MoveMaps
<1> QED BY <1>1 DEF BS!See, BS!Moved, Calls, Call, Exists

LEMMA MissSteps ==
  ASSUME NEW c \in Slots, Moves(c, "missed"), UNCHANGED path,
         Phase(c) = "pending", h[c].op \in {"get", "head"}, ~Exists(h[c].id)
  PROVE  BS!Miss(c)
<1>1. Calls' = [Calls EXCEPT ![c].phase = "missed"]
  BY MoveMaps
<1> QED BY <1>1 DEF BS!Miss, BS!Moved, Calls, Call, Exists

LEMMA DyingMaps ==
  ASSUME ProcessDies
  PROVE  BS!Kill
  BY DEF ProcessDies, BS!Kill, BS!AllStop, BS!IdleCall, Phase, Idle, Exists

LEMMA StepMaps ==
  ASSUME ~CrossDevice, Inv, AllWhole, NEW c \in Slots, Step(c)
  PROVE  Maps
<1> USE DEF At
<1>0. /\ h \in [Slots -> Handler] /\ h[c] \in Handler /\ CallInOrder(h[c])
      /\ path \in [Hashes -> Files \cup {None}] /\ WholeCall(h[c])
  BY DEF Inv, TypeOK, AllWhole
<1>1. CASE Finish(c)
  <2>1. h'[c] = Idle /\ \A d \in Slots \ {c} : h'[d] = h[d]
    BY <1>0, <1>1 DEF Finish
  <2>2. Calls' = [Calls EXCEPT ![c] = BS!IdleCall]
    <3>1. Call(c)' = BS!IdleCall
      BY <2>1 DEF Call, Phase, BS!IdleCall, Idle
    <3>2. \A d \in Slots \ {c} : Call(d)' = Call(d)
      BY <2>1 DEF Call, Phase
    <3> QED BY <3>1, <3>2 DEF Calls
  <2>3. Phase(c) \in {"effective", "missed", "failed"}
    <3>1. h[c].pc = "done" /\ h[c].status \in {200, 201, 204, 400, 404, 500}
      BY <1>0, <1>1 DEF Finish, CallInOrder, Handler
    <3> QED BY <3>1 DEF Phase
  <2>4. BS!Answer(c)
    BY <1>1, <2>2, <2>3 DEF Finish, BS!Answer, Calls, Call, Exists
  <2> QED BY <2>4 DEF Maps, BS!Next
<1> SUFFICES ASSUME ~Finish(c) PROVE Maps
  BY <1>1
<1>2. /\ h[c].pc \notin {"idle", "done"} /\ h[c].id \in Hashes
      /\ ~PutCopyOpen(c) /\ ~PutCopy(c)
      /\ Phase(c) = IF h[c].pc \in {"open", "send"} THEN "effective" ELSE "pending"
  <2>1. h[c].pc \notin {"idle", "done"}
    BY DEF Step, PutBody, PutStat, PutTemp, PutRename, PutCopyOpen, PutCopy, Copied,
           CopyFails, GetStat, GetOpen, GetSend, Head, Delete
  <2> QED BY <1>0, <2>1
          DEF CallInOrder, Phase, PutCopyOpen, PutCopy, Copied, CopyFails, WholeCall
<1>3. h[c].op \in {"put", "get", "head", "delete"} /\ h[c].pc \in StepsOf[h[c].op]
  BY <1>0, <1>2, OpOfStep DEF Inv
<1>4. ASSUME NEW s \in {400, 500}, Respond(c, s), UNCHANGED path
      PROVE  Maps
  <2>1. Moves(c, "failed")
    BY <1>0, <1>2, <1>4, RespondMoves DEF PhaseOf, Statuses
  <2> QED BY <1>2, <1>4, <2>1, FailSteps DEF Maps, BS!Next
<1>5. ASSUME Moves(c, "effective"), UNCHANGED path, h[c].op # "delete",
             Phase(c) = "effective" \/ Exists(h[c].id)
      PROVE  Maps
  BY <1>2, <1>5, StaySteps, SeeSteps DEF Maps, BS!Next
<1>6. ASSUME Respond(c, 404), UNCHANGED path, Phase(c) = "pending",
             ~Exists(h[c].id), h[c].op \in {"get", "head"}
      PROVE  Maps
  <2>1. Moves(c, "missed")
    BY <1>0, <1>2, <1>6, RespondMoves DEF PhaseOf, Statuses
  <2> QED BY <1>6, <2>1, MissSteps DEF Maps, BS!Next
<1>7. ASSUME NEW pc \in {"stat", "temp", "rename"}, Goto(c, pc), UNCHANGED path,
             h[c].op = "put", Phase(c) = "pending"
      PROVE  Maps
  <2>1. Moves(c, "pending")
    BY <1>0, <1>2, <1>7, GotoMoves DEF StepsOf
  <2> QED BY <1>7, <2>1, StaySteps DEF Maps
<1>8. ASSUME NEW s \in {200, 201}, Respond(c, s), UNCHANGED path, h[c].op # "delete",
             Exists(h[c].id)
      PROVE  Maps
  <2>1. Moves(c, "effective")
    BY <1>0, <1>2, <1>8, RespondMoves DEF PhaseOf, Statuses
  <2> QED BY <1>5, <1>8, <2>1
<1>9. CASE PutBody(c)
  BY <1>2, <1>3, <1>4, <1>7, <1>9 DEF PutBody, StepsOf
<1>10. CASE PutStat(c)
  BY <1>2, <1>3, <1>7, <1>8, <1>10 DEF PutStat, StepsOf
<1>11. CASE PutTemp(c)
  BY <1>2, <1>3, <1>4, <1>7, <1>11 DEF PutTemp, StepsOf
<1>12. CASE PutRename(c)
  <2>1. ASSUME NEW f \in Files, path' = [path EXCEPT ![h[c].id] = f], Respond(c, 201)
        PROVE  Maps
    <3>1. f # None
      BY NodeAssumption
    <3>2. Present' = Present \cup {h[c].id}
      BY <1>0, <1>2, <2>1, <3>1 DEF Present, Exists
    <3>3. Calls' = [Calls EXCEPT ![c].phase = "effective"]
      BY <1>0, <1>2, <2>1, RespondMoves, MoveMaps DEF PhaseOf, Statuses
    <3>4. h[c].op = "put" /\ Phase(c) = "pending"
      BY <1>2, <1>3, <1>12 DEF PutRename, StepsOf
    <3>5. BS!Store(c)
      BY <3>2, <3>3, <3>4 DEF BS!Store, BS!Moved, Calls, Call, Present
    <3> QED BY <3>5 DEF Maps, BS!Next
  <2> QED BY <1>4, <1>12, <2>1 DEF PutRename
<1>13. CASE GetStat(c)
  <2>0. h[c].op = "get" /\ Phase(c) = "pending"
    BY <1>2, <1>3, <1>13 DEF GetStat, StepsOf
  <2>1. ASSUME NEW x, Exists(h[c].id), h' = [h EXCEPT ![c].pc = "open", ![c].length = x]
        PROVE  Maps
    <3>1. /\ h'[c].pc = "open" /\ h'[c].op = h[c].op /\ h'[c].id = h[c].id
          /\ \A d \in Slots \ {c} : h'[d] = h[d]
      BY <1>0, <2>1 DEF Handler
    <3>2. Moves(c, "effective")
      BY <3>1 DEF Moves, Phase
    <3> QED BY <1>5, <1>13, <2>0, <2>1, <3>2 DEF GetStat
  <2> QED BY <1>6, <1>13, <2>0, <2>1 DEF GetStat
<1>14. CASE GetOpen(c)
  <2>1. ASSUME NEW f, h' = [h EXCEPT ![c].pc = "send", ![c].fd = f], UNCHANGED path
        PROVE  Maps
    <3>1. /\ h'[c].pc = "send" /\ h'[c].op = h[c].op /\ h'[c].id = h[c].id
          /\ \A d \in Slots \ {c} : h'[d] = h[d]
      BY <1>0, <2>1 DEF Handler
    <3>2. Moves(c, "effective")
      BY <3>1 DEF Moves, Phase
    <3> QED BY <1>2, <1>3, <1>5, <1>14, <2>1, <3>2 DEF GetOpen, StepsOf
  <2> QED BY <1>14, <2>1, DyingMaps DEF GetOpen, Maps, BS!Next
<1>15. CASE GetSend(c)
  <2>1. ASSUME NEW x, UNCHANGED path,
               h' = [h EXCEPT ![c].pc = "done", ![c].status = 200, ![c].fd = None,
                              ![c].length = x]
        PROVE  Maps
    <3>1. /\ h'[c].pc = "done" /\ h'[c].status = 200
          /\ h'[c].op = h[c].op /\ h'[c].id = h[c].id
          /\ \A d \in Slots \ {c} : h'[d] = h[d]
      BY <1>0, <2>1 DEF Handler
    <3>2. Moves(c, "effective")
      BY <3>1 DEF Moves, Phase
    <3> QED BY <1>2, <1>3, <1>5, <1>15, <2>1, <3>2 DEF GetSend, StepsOf
  <2> QED BY <1>4, <1>15, <2>1 DEF GetSend
<1>16. CASE Head(c)
  BY <1>2, <1>3, <1>6, <1>8, <1>16 DEF Head, StepsOf
<1>17. CASE Delete(c)
  <2>1. CASE path' = [path EXCEPT ![h[c].id] = None] /\ Respond(c, 204)
    <3>1. Present' = Present \ {h[c].id}
      BY <1>0, <1>2, <2>1 DEF Present, Exists
    <3>2. Calls' = [Calls EXCEPT ![c].phase = "effective"]
      BY <1>0, <1>2, <2>1, RespondMoves, MoveMaps DEF PhaseOf, Statuses
    <3>3. h[c].op = "delete" /\ Phase(c) = "pending"
      BY <1>2, <1>3, <1>17 DEF Delete, StepsOf
    <3>4. BS!Remove(c)
      BY <3>1, <3>2, <3>3 DEF BS!Remove, BS!Moved, Calls, Call, Present
    <3> QED BY <3>4 DEF Maps, BS!Next
  <2> QED BY <1>4, <1>17, <2>1 DEF Delete
<1> QED BY <1>2, <1>9, <1>10, <1>11, <1>12, <1>13, <1>14, <1>15, <1>16, <1>17
        DEF Step

LEMMA NextMaps ==
  ASSUME ~CrossDevice
  PROVE  WholeInv /\ [Next]_vars => Maps
<1> SUFFICES ASSUME WholeInv, [Next]_vars PROVE Maps
  OBVIOUS
<1>1. Inv /\ AllWhole
  BY DEF WholeInv
<1>2. ASSUME NEW c \in Slots, Arrive(c) PROVE Maps
  <2>1. PICK op \in Ops, id \in Hashes, match \in BOOLEAN : Receive(c, op, id, match)
    BY <1>2 DEF Arrive
  <2>2. /\ h'[c] = [Idle EXCEPT !.pc = Entry[op], !.op = op, !.id = id, !.match = match]
        /\ \A d \in Slots \ {c} : h'[d] = h[d]
    BY <1>1, <2>1 DEF Receive, Inv, TypeOK
  <2>3. /\ h'[c].pc \in {"body", "size", "head", "remove"}
        /\ h'[c].op = op /\ h'[c].id = id
    BY <2>2, OpsOnly DEF Entry, Idle
  <2>4. Call(c)' = [phase |-> "pending", kind |-> op, id |-> id]
    BY <2>3 DEF Call, Phase
  <2>5. \A d \in Slots \ {c} : Call(d)' = Call(d)
    BY <2>2 DEF Call, Phase
  <2>6. Calls' = [Calls EXCEPT ![c] = [phase |-> "pending", kind |-> op, id |-> id]]
    BY <2>4, <2>5 DEF Calls
  <2>7. Phase(c) = "idle"
    BY <2>1 DEF Receive, At, Phase
  <2>8. BS!Request(c, op, id)
    BY <2>1, <2>6, <2>7 DEF BS!Request, Receive, Calls, Call, Exists
  <2> QED BY <2>8, OpsOnly DEF Maps, BS!Next, BS!Kinds
<1>3. CASE Kill
  BY <1>3, DyingMaps DEF Kill, Maps, BS!Next
<1>4. CASE UNCHANGED vars
  BY <1>4 DEF vars, Maps, BS!vars, Exists, Phase
<1> QED BY <1>1, <1>2, <1>3, <1>4, StepMaps DEF Next

\* On one file system the TypeScript node keeps every promise of BlockStore,
\* as the Go node does: each request takes effect at one instant, although it
\* looks at its path up to three times.
THEOREM Implements ==
  ASSUME ~CrossDevice
  PROVE  Spec => ImplementsBlockStore
<1>1. Init => BS!Init
  BY DEF Init, BS!Init, BS!IdleCall, Phase, Exists, Idle
<1>2. WholeInv /\ [Next]_vars => [BS!Next]_BS!vars
  BY NextMaps DEF Maps
<1> QED BY <1>1, <1>2, WholeHolds, PTL DEF Spec, ImplementsBlockStore, BS!Spec
=============================================================================

------------------------- MODULE StorageNodeProofs -------------------------
(***************************************************************************)
(* Proofs about StorageNode, for any number of blocks and of concurrent    *)
(* requests: its types, what it shows and serves, and that it implements   *)
(* BlockStore, since every step maps to a step of it or to none.           *)
(***************************************************************************)
EXTENDS StorageNode, TLAPS

USE JunkAbsentAssumption

-----------------------------------------------------------------------------
(* Type correctness *)

\* A slot that is not idle holds a request with all its fields.
LEMMA BusyType ==
  ASSUME TypeOK, NEW c \in Slots, ~At(c, "idle")
  PROVE  h[c] \in Busy
  BY DEF TypeOK, At, Handler, Idle

LEMMA GotoType ==
  ASSUME TypeOK, NEW c \in Slots, ~At(c, "idle"),
         NEW pc \in PCs \ {"idle"}, Goto(c, pc)
  PROVE  h' \in [Slots -> Handler]
<1>1. [h[c] EXCEPT !.pc = pc] \in Busy
  BY BusyType DEF Busy
<1> QED BY <1>1 DEF TypeOK, Goto, Handler

LEMMA RespondType ==
  ASSUME TypeOK, NEW c \in Slots, ~At(c, "idle"),
         NEW status \in Statuses, Respond(c, status)
  PROVE  /\ h' \in [Slots -> Handler]
         /\ tmp' \in [Slots -> File]
<1>1. [[h[c] EXCEPT !.pc = "done"] EXCEPT !.status = status] \in Busy
  BY BusyType DEF Busy, PCs
<1>2. h' = [h EXCEPT ![c] = [[h[c] EXCEPT !.pc = "done"] EXCEPT !.status = status]]
  BY DEF Respond, TypeOK
<1> QED BY <1>1, <1>2 DEF TypeOK, Respond, Handler, File, NoFile

\* Every reachable state has the types that Go's declarations and the sequence
\* of system calls of each handler give it.
THEOREM TypeCorrect == Spec => []TypeOK
<1>1. Init => TypeOK
  BY DEF Init, TypeOK, Handler, File, NoFile
<1>2. TypeOK /\ [Next]_vars => TypeOK'
  <2> SUFFICES ASSUME TypeOK, [Next]_vars PROVE TypeOK'
    OBVIOUS
  <2>1. ASSUME NEW c \in Slots, NEW m \in Methods, NEW id \in Hashes,
               NEW body \in Contents, Receive(c, m, id, body)
        PROVE  TypeOK'
    <3>1. [pc |-> Entry[m], method |-> m, id |-> id, body |-> body,
           data |-> Absent, status |-> 0] \in Busy
      BY DEF Entry, Busy, Methods, PCs, Statuses
    <3> QED BY <2>1, <3>1 DEF Receive, TypeOK, Handler
  <2>2. ASSUME NEW c \in Slots, Step(c) PROVE TypeOK'
    <3>0. tmp[c] \in File /\ NoFile \in File
      BY DEF TypeOK, File, NoFile
    <3>1. CASE PutStat(c)
      BY <3>1, GotoType DEF PutStat, At, TypeOK, PCs
    <3>2. CASE PutDrain(c)
      BY <3>2, RespondType DEF PutDrain, At, TypeOK, Statuses
    <3>3. CASE PutCreate(c)
      <4>1. [data |-> Junk, synced |-> FALSE] \in File
        BY DEF File, Contents
      <4>2. CASE /\ Goto(c, "copy")
                 /\ tmp' = [tmp EXCEPT ![c] = [data |-> Junk, synced |-> FALSE]]
        BY <3>3, <4>1, <4>2, GotoType DEF PutCreate, At, TypeOK, PCs
      <4> QED BY <3>3, <4>2, RespondType DEF PutCreate, At, TypeOK, Statuses
    <3>4. CASE PutCopy(c)
      <4>1. h[c] \in Busy /\ h[c].body \in Contents
        BY <3>4, BusyType DEF PutCopy, At, Busy
      <4>2. [tmp[c] EXCEPT !.data = h[c].body] \in File
        BY <3>0, <4>1 DEF File
      <4>3. CASE Goto(c, "sync") /\ tmp' = [tmp EXCEPT ![c].data = h[c].body]
        <5>1. tmp' = [tmp EXCEPT ![c] = [tmp[c] EXCEPT !.data = h[c].body]]
          BY <4>3 DEF TypeOK
        <5> QED BY <3>4, <4>2, <4>3, <5>1, GotoType DEF PutCopy, At, TypeOK, PCs
      <4> QED BY <3>4, <4>3, RespondType
              DEF PutCopy, At, TypeOK, PCs, Statuses
    <3>5. CASE PutSync(c)
      <4>1. [tmp[c] EXCEPT !.synced = TRUE] \in File
        BY <3>0 DEF File
      <4>2. CASE Goto(c, "verify") /\ tmp' = [tmp EXCEPT ![c].synced = TRUE]
        <5>1. tmp' = [tmp EXCEPT ![c] = [tmp[c] EXCEPT !.synced = TRUE]]
          BY <4>2 DEF TypeOK
        <5> QED BY <3>5, <4>1, <4>2, <5>1, GotoType DEF PutSync, At, TypeOK, PCs
      <4> QED BY <3>5, <4>2, RespondType
              DEF PutSync, At, TypeOK, PCs, Statuses
    <3>6. CASE PutVerify(c)
      BY <3>6, GotoType, RespondType DEF PutVerify, At, TypeOK, PCs, Statuses
    <3>7. CASE PutRename(c)
      BY <3>0, <3>7, RespondType DEF PutRename, At, TypeOK, Statuses
    <3>8. CASE GetOpen(c)
      <4>1. h[c] \in Busy
        BY <3>8, BusyType DEF GetOpen, At
      <4>2. CASE /\ Exists(disk[h[c].id])
                 /\ h' = [h EXCEPT ![c].pc = "send", ![c].data = disk[h[c].id].data]
                 /\ UNCHANGED tmp
        <5>1. disk[h[c].id].data \in Contents
          BY <4>1, <4>2 DEF TypeOK, Busy, File, NoFile, Exists
        <5>2. [[h[c] EXCEPT !.pc = "send"] EXCEPT !.data = disk[h[c].id].data] \in Busy
          BY <4>1, <5>1 DEF Busy, PCs
        <5>3. h' = [h EXCEPT ![c] = [[h[c] EXCEPT !.pc = "send"]
                                          EXCEPT !.data = disk[h[c].id].data]]
          BY <4>2 DEF TypeOK
        <5> QED BY <3>8, <4>2, <5>2, <5>3 DEF GetOpen, TypeOK, Handler
      <4> QED BY <3>8, <4>2, RespondType DEF GetOpen, At, TypeOK, Statuses
    <3>9. CASE GetSend(c)
      BY <3>9, RespondType DEF GetSend, At, TypeOK, Statuses
    <3>10. CASE Head(c)
      BY <3>10, RespondType DEF Head, At, TypeOK, Statuses
    <3>11. CASE Delete(c)
      BY <3>0, <3>11, RespondType DEF Delete, At, TypeOK, Statuses
    <3>12. CASE Finish(c)
      BY <3>12 DEF Finish, TypeOK, Handler
    <3> QED BY <2>2, <3>1, <3>2, <3>3, <3>4, <3>5, <3>6, <3>7, <3>8, <3>9,
               <3>10, <3>11, <3>12 DEF Step
  <2>3. ASSUME NEW b \in Hashes, Flush(b) PROVE TypeOK'
    BY <2>3 DEF Flush, TypeOK
  <2>4. CASE Kill
    BY <2>4 DEF Kill, TypeOK, Handler, File, NoFile
  <2>5. CASE PowerLoss
    BY <2>5 DEF PowerLoss, TypeOK, File, NoFile, Contents, Handler
  <2>6. CASE UNCHANGED vars
    BY <2>6 DEF vars, TypeOK
  <2> QED BY <2>1, <2>2, <2>3, <2>4, <2>5, <2>6 DEF Next, Arrive, Methods, Contents
<1> QED BY <1>1, <1>2, PTL DEF Spec
-----------------------------------------------------------------------------
(* Named files are finished files *)

Inv == TypeOK /\ FilesInOrder /\ GetServesItsBlock

\* A step of one request touches neither another's state nor its temporary file.
LEMMA StepFrame ==
  ASSUME TypeOK, NEW c \in Slots, Step(c), NEW d \in Slots, d # c
  PROVE  h'[d] = h[d] /\ tmp'[d] = tmp[d]
  BY DEF TypeOK, Step, Goto, Respond, PutStat, PutDrain, PutCreate, PutCopy,
         PutSync, PutVerify, PutRename, GetOpen, GetSend, Head, Delete, Finish

LEMMA GotoEffect ==
  ASSUME TypeOK, NEW c \in Slots, NEW pc, ~At(c, "idle"), Goto(c, pc)
  PROVE  /\ h'[c].pc = pc
         /\ h'[c].method = h[c].method /\ h'[c].id = h[c].id
         /\ h'[c].body = h[c].body /\ h'[c].data = h[c].data
<1>1. h[c] \in Busy
  BY BusyType
<1>2. h'[c] = [h[c] EXCEPT !.pc = pc]
  BY DEF Goto, TypeOK
<1> QED BY <1>1, <1>2 DEF Busy

LEMMA RespondEffect ==
  ASSUME TypeOK, NEW c \in Slots, NEW status, ~At(c, "idle"), Respond(c, status)
  PROVE  /\ h'[c].pc = "done" /\ h'[c].status = status
         /\ h'[c].method = h[c].method /\ h'[c].id = h[c].id
         /\ h'[c].body = h[c].body /\ h'[c].data = h[c].data
         /\ tmp'[c] = NoFile
<1>1. h[c] \in Busy
  BY BusyType
<1>2. h'[c] = [[h[c] EXCEPT !.pc = "done"] EXCEPT !.status = status]
  BY DEF Respond, TypeOK
<1>3. tmp'[c] = NoFile
  BY DEF Respond, TypeOK
<1> QED BY <1>1, <1>2, <1>3 DEF Busy

\* A slot that has answered with an error, or whose request was not a get,
\* is in order.
Ordered(c) == /\ PutInOrder(c) /\ CallInOrder(c)
              /\ At(c, "done") /\ h[c].method = "get" /\ h[c].status = 200
                   => h[c].data = h[c].id

LEMMA AnsweredInOrder ==
  ASSUME Inv, NEW c \in Slots, NEW status, ~At(c, "idle"), Respond(c, status),
         status # 0,
         \/ status # 200
         \/ h[c].method # "get"
         \/ h[c].data = h[c].id
  PROVE  Ordered(c)'
  BY RespondEffect
  DEF Inv, Ordered, PutInOrder, CallInOrder, At, Methods, MethodSteps

LEMMA StepKeepsNamedFiles ==
  ASSUME Inv, NEW c \in Slots, Step(c)
  PROVE  NamedFilesAreFinished'
<1>1. CASE UNCHANGED <<disk, platter>>
  BY <1>1 DEF Inv, FilesInOrder, NamedFilesAreFinished
<1>2. CASE PutRename(c) /\ disk' = [disk EXCEPT ![h[c].id] = tmp[c]]
  <2>1. h[c].id \in Hashes /\ tmp[c] = [data |-> h[c].id, synced |-> TRUE]
    BY <1>2, BusyType DEF Inv, FilesInOrder, PutInOrder, PutRename, At, Busy
  <2>2. disk'[h[c].id] = tmp[c] /\ \A b \in Hashes \ {h[c].id} : disk'[b] = disk[b]
    BY <1>2, <2>1 DEF Inv, TypeOK
  <2>3. platter' = platter
    BY <1>2 DEF PutRename
  <2> QED BY <2>1, <2>2, <2>3 DEF Inv, FilesInOrder, NamedFilesAreFinished
<1>3. CASE Delete(c) /\ disk' = [disk EXCEPT ![h[c].id] = NoFile]
  <2>1. \A b \in Hashes : disk'[b] \in {disk[b], NoFile}
    BY <1>3 DEF Inv, TypeOK
  <2>2. platter' = platter
    BY <1>3 DEF Delete
  <2> QED BY <2>1, <2>2 DEF Inv, FilesInOrder, NamedFilesAreFinished, NoFile
<1> QED BY <1>1, <1>2, <1>3
        DEF Step, PutStat, PutDrain, PutCreate, PutCopy, PutSync, PutVerify,
            PutRename, GetOpen, GetSend, Head, Delete, Finish

LEMMA StepKeepsOrder ==
  ASSUME Inv, NEW c \in Slots, Step(c)
  PROVE  Ordered(c)'
<1> USE DEF At
<1>0. TypeOK /\ Ordered(c)
  BY DEF Inv, FilesInOrder, GetServesItsBlock, Ordered
<1>1. ASSUME NEW pc, Goto(c, pc), ~At(c, "idle"), pc # "done",
             \A m \in Methods : pc \in MethodSteps(m) => h[c].method = m,
             pc # "send"
      PROVE  CallInOrder(c)'
  BY <1>0, <1>1, GotoEffect DEF CallInOrder
<1>2. CASE PutStat(c)
  <2>1. h[c].method = "put"
    BY <1>0, <1>2 DEF PutStat, Ordered, CallInOrder, Methods, MethodSteps
  <2>2. PICK pc \in {"drain", "create"} : Goto(c, pc)
    BY <1>2 DEF PutStat
  <2>3. CallInOrder(c)'
    BY <1>1, <1>2, <2>1, <2>2 DEF PutStat, Methods, MethodSteps
  <2> QED BY <1>0, <1>2, <2>2, <2>3, GotoEffect DEF PutStat, Ordered, PutInOrder
<1>3. CASE PutDrain(c)
  BY <1>0, <1>3, AnsweredInOrder DEF PutDrain, Ordered, CallInOrder, Methods, MethodSteps
<1>4. CASE PutCreate(c)
  <2>1. CASE Goto(c, "copy")
    <3>1. h[c].method = "put"
      BY <1>0, <1>4 DEF PutCreate, Ordered, CallInOrder, Methods, MethodSteps
    <3>2. CallInOrder(c)'
      BY <1>1, <1>4, <2>1, <3>1 DEF PutCreate, Methods, MethodSteps
    <3> QED BY <1>0, <1>4, <2>1, <3>2, GotoEffect DEF PutCreate, Ordered, PutInOrder
  <2> QED BY <1>0, <1>4, <2>1, AnsweredInOrder DEF PutCreate
<1>5. CASE PutCopy(c)
  <2>1. CASE Goto(c, "sync") /\ tmp' = [tmp EXCEPT ![c].data = h[c].body]
    <3>1. h[c].method = "put"
      BY <1>0, <1>5 DEF PutCopy, Ordered, CallInOrder, Methods, MethodSteps
    <3>2. CallInOrder(c)'
      BY <1>1, <1>5, <2>1, <3>1 DEF PutCopy, Methods, MethodSteps
    <3>3. tmp'[c].data = h[c].body
      BY <1>0, <2>1 DEF TypeOK, File
    <3> QED BY <1>0, <1>5, <2>1, <3>2, <3>3, GotoEffect
            DEF PutCopy, Ordered, PutInOrder
  <2> QED BY <1>0, <1>5, <2>1, AnsweredInOrder DEF PutCopy
<1>6. CASE PutSync(c)
  <2>1. CASE Goto(c, "verify") /\ tmp' = [tmp EXCEPT ![c].synced = TRUE]
    <3>1. h[c].method = "put"
      BY <1>0, <1>6 DEF PutSync, Ordered, CallInOrder, Methods, MethodSteps
    <3>2. CallInOrder(c)'
      BY <1>1, <1>6, <2>1, <3>1 DEF PutSync, Methods, MethodSteps
    <3>3. tmp'[c] = [data |-> h[c].body, synced |-> TRUE]
      BY <1>0, <1>6, <2>1 DEF PutSync, Ordered, PutInOrder, TypeOK, File
    <3> QED BY <1>0, <1>6, <2>1, <3>2, <3>3, GotoEffect
            DEF PutSync, Ordered, PutInOrder
  <2> QED BY <1>0, <1>6, <2>1, AnsweredInOrder DEF PutSync
<1>7. CASE PutVerify(c)
  <2>1. CASE h[c].body = h[c].id /\ Goto(c, "rename") /\ UNCHANGED tmp
    <3>1. h[c].method = "put"
      BY <1>0, <1>7 DEF PutVerify, Ordered, CallInOrder, Methods, MethodSteps
    <3>2. CallInOrder(c)'
      BY <1>1, <1>7, <2>1, <3>1 DEF PutVerify, Methods, MethodSteps
    <3> QED BY <1>0, <1>7, <2>1, <3>2, GotoEffect
            DEF PutVerify, Ordered, PutInOrder
  <2> QED BY <1>0, <1>7, <2>1, AnsweredInOrder DEF PutVerify
<1>8. CASE PutRename(c)
  BY <1>0, <1>8, AnsweredInOrder DEF PutRename
<1>9. CASE GetOpen(c)
  <2>1. CASE /\ Exists(disk[h[c].id])
             /\ h' = [h EXCEPT ![c].pc = "send", ![c].data = disk[h[c].id].data]
    <3>1. h[c] \in Busy
      BY <1>0, <1>9, BusyType DEF GetOpen
    <3>2. h'[c] = [[h[c] EXCEPT !.pc = "send"] EXCEPT !.data = disk[h[c].id].data]
      BY <1>0, <2>1 DEF TypeOK
    <3>3. /\ h'[c].pc = "send" /\ h'[c].method = h[c].method
          /\ h'[c].id = h[c].id /\ h'[c].data = disk[h[c].id].data
      BY <3>1, <3>2 DEF Busy
    <3>4. disk[h[c].id].data = h[c].id
      BY <2>1, <3>1 DEF Inv, FilesInOrder, NamedFilesAreFinished, Exists, Busy
    <3>5. h[c].method = "get"
      BY <1>0, <1>9 DEF GetOpen, Ordered, CallInOrder, Methods, MethodSteps
    <3> QED BY <3>3, <3>4, <3>5
            DEF Ordered, PutInOrder, CallInOrder, Methods, MethodSteps
  <2> QED BY <1>0, <1>9, <2>1, AnsweredInOrder DEF GetOpen
<1>10. CASE GetSend(c)
  BY <1>0, <1>10, AnsweredInOrder DEF GetSend, Ordered, CallInOrder
<1>11. CASE Head(c)
  BY <1>0, <1>11, AnsweredInOrder DEF Head, Ordered, CallInOrder, Methods, MethodSteps
<1>12. CASE Delete(c)
  BY <1>0, <1>12, AnsweredInOrder DEF Delete
<1>13. CASE Finish(c)
  BY <1>0, <1>13
  DEF Finish, Ordered, PutInOrder, CallInOrder, TypeOK, Idle, Methods, MethodSteps
<1> QED BY <1>2, <1>3, <1>4, <1>5, <1>6, <1>7, <1>8, <1>9, <1>10,
           <1>11, <1>12, <1>13 DEF Step

LEMMA InitInv == Init => Inv
  BY DEF Init, Inv, TypeOK, FilesInOrder, NamedFilesAreFinished, PutInOrder,
         CallInOrder, GetServesItsBlock, At, Idle, Handler, File, NoFile,
         Methods, MethodSteps

LEMMA IdleInOrder ==
  ASSUME NEW c \in Slots, h'[c] = Idle
  PROVE  Ordered(c)'
  BY DEF Ordered, PutInOrder, CallInOrder, At, Idle, Methods, MethodSteps

LEMMA NextInv == Inv /\ TypeOK' /\ [Next]_vars => Inv'
<1> SUFFICES ASSUME Inv, TypeOK', [Next]_vars PROVE Inv'
  OBVIOUS
<1>0. TypeOK /\ NamedFilesAreFinished /\ \A c \in Slots : Ordered(c)
  BY DEF Inv, FilesInOrder, GetServesItsBlock, Ordered
<1> SUFFICES NamedFilesAreFinished' /\ \A c \in Slots : Ordered(c)'
  BY DEF Inv, FilesInOrder, GetServesItsBlock, Ordered
<1>1. ASSUME NEW c \in Slots, NEW m \in Methods, NEW id \in Hashes,
             NEW body \in Contents, Receive(c, m, id, body)
      PROVE  NamedFilesAreFinished' /\ \A d \in Slots : Ordered(d)'
  <2>1. NamedFilesAreFinished'
    BY <1>0, <1>1 DEF Receive, NamedFilesAreFinished
  <2>2. ASSUME NEW d \in Slots \ {c} PROVE Ordered(d)'
    <3>1. h'[d] = h[d] /\ tmp'[d] = tmp[d]
      BY <1>0, <1>1, <2>2 DEF Receive, TypeOK
    <3> QED BY <1>0, <3>1 DEF Ordered, PutInOrder, CallInOrder, At
  <2>3. Ordered(c)'
    <3>1. h'[c].pc = Entry[m] /\ h'[c].method = m
      BY <1>0, <1>1 DEF Receive, TypeOK
    <3>2. h'[c].pc \in {"stat", "open", "head", "remove"}
      BY <3>1 DEF Entry, Methods
    <3>3. \A k \in Methods : h'[c].pc \in MethodSteps(k) => h'[c].method = k
      <4>1. CASE m = "put"
        BY <3>1, <4>1 DEF Entry, Methods, MethodSteps
      <4>2. CASE m = "get"
        BY <3>1, <4>2 DEF Entry, Methods, MethodSteps
      <4>3. CASE m = "head"
        BY <3>1, <4>3 DEF Entry, Methods, MethodSteps
      <4>4. CASE m = "delete"
        BY <3>1, <4>4 DEF Entry, Methods, MethodSteps
      <4> QED BY <4>1, <4>2, <4>3, <4>4 DEF Methods
    <3> QED BY <3>2, <3>3 DEF Ordered, PutInOrder, CallInOrder, At
  <2> QED BY <2>1, <2>2, <2>3
<1>2. ASSUME NEW c \in Slots, Step(c)
      PROVE  NamedFilesAreFinished' /\ \A d \in Slots : Ordered(d)'
  <2>1. ASSUME NEW d \in Slots \ {c} PROVE Ordered(d)'
    BY <1>0, <1>2, <2>1, StepFrame DEF Ordered, PutInOrder, CallInOrder, At
  <2> QED BY <1>2, <2>1, StepKeepsNamedFiles, StepKeepsOrder
<1>3. ASSUME NEW b \in Hashes, Flush(b)
      PROVE  NamedFilesAreFinished' /\ \A d \in Slots : Ordered(d)'
  <2>1. NamedFilesAreFinished'
    BY <1>0, <1>3 DEF Flush, NamedFilesAreFinished, TypeOK
  <2> QED BY <1>0, <1>3, <2>1 DEF Flush, Ordered, PutInOrder, CallInOrder, At
<1>4. CASE Kill
  BY <1>0, <1>4, IdleInOrder DEF Kill, NamedFilesAreFinished
<1>5. CASE PowerLoss
  <2>1. PICK torn \in SUBSET {b \in Hashes : ~platter[b].synced} :
          /\ disk' = [b \in Hashes |->
                         IF b \in torn THEN [data |-> Junk, synced |-> TRUE]
                                       ELSE platter[b]]
          /\ platter' = disk'
    BY <1>5 DEF PowerLoss
  <2>2. torn = {}
    BY <1>0 DEF NamedFilesAreFinished
  <2>3. NamedFilesAreFinished'
    BY <1>0, <2>1, <2>2 DEF NamedFilesAreFinished
  <2> QED BY <1>5, <2>3, IdleInOrder DEF PowerLoss
<1>6. CASE UNCHANGED vars
  BY <1>0, <1>6 DEF vars, NamedFilesAreFinished, Ordered, PutInOrder, CallInOrder, At
<1>7. ASSUME NEW c \in Slots, Arrive(c)
      PROVE  NamedFilesAreFinished' /\ \A d \in Slots : Ordered(d)'
  BY <1>1, <1>7 DEF Arrive, Contents, Methods
<1> QED BY <1>2, <1>3, <1>4, <1>5, <1>6, <1>7 DEF Next

LEMMA InvHolds == Spec => []Inv
  BY InitInv, NextInv, TypeCorrect, PTL DEF Spec

\* Whatever is found at a block's path, before or after a power loss, is that
\* block: no reader meets a wrong, half-written or unsynced content.
THEOREM OnlyVerifiedBlocks == Spec => []VisibleIsVerified
<1>1. Inv => VisibleIsVerified
  BY DEF Inv, FilesInOrder, NamedFilesAreFinished, VisibleIsVerified
<1> QED BY <1>1, InvHolds, PTL

\* A get that delivered a whole file delivered the block it was asked for.
THEOREM GetsAreRight == Spec => []GetServesItsBlock
<1>1. Inv => GetServesItsBlock
  BY DEF Inv
<1> QED BY <1>1, InvHolds, PTL

\* Only a file that was copied, synced and verified bears a block's name, and
\* every put finds in its temporary file what its next step relies on.
THEOREM FilesStayInOrder == Spec => []FilesInOrder
<1>1. Inv => FilesInOrder
  BY DEF Inv
<1> QED BY <1>1, InvHolds, PTL

-----------------------------------------------------------------------------
(* The refinement                                                          *)

(* The refinement mapping of StorageNode, named.                           *)
Present == {b \in Hashes : Exists(disk[b])}
Settled == {b \in Hashes : Exists(platter[b])}
Call(c) == [phase |-> Phase(c), kind |-> h[c].method, id |-> h[c].id]
Calls   == [c \in Slots |-> Call(c)]

LEMMA InitMaps == Init => BS!Init
  BY DEF Init, BS!Init, BS!IdleCall, Phase, Exists, NoFile, Idle

\* Handler states that differ only in slot c, and keep its method and id.
Moves(c, to) == /\ \A d \in Slots \ {c} : h'[d] = h[d]
                /\ h'[c].method = h[c].method
                /\ h'[c].id = h[c].id
                /\ Phase(c)' = to

LEMMA MoveMaps ==
  ASSUME NEW c \in Slots, NEW to, Moves(c, to)
  PROVE  Calls' = [Calls EXCEPT ![c].phase = to]
<1>1. ASSUME NEW d \in Slots \ {c} PROVE Call(d)' = Call(d)
  <2>1. h'[d] = h[d]
    BY DEF Moves
  <2> QED
    BY <2>1 DEF Call, Phase
<1>2. Call(c)' = [Call(c) EXCEPT !.phase = to]
  BY DEF Moves, Call
<1>3. Calls' = [Calls EXCEPT ![c] = [Call(c) EXCEPT !.phase = to]]
  BY <1>1, <1>2 DEF Calls
<1>4. [Calls EXCEPT ![c].phase = to] = [Calls EXCEPT ![c] = [Call(c) EXCEPT !.phase = to]]
  BY DEF Calls
<1> QED BY <1>3, <1>4

LEMMA StayMaps ==
  ASSUME NEW c \in Slots, Moves(c, Phase(c))
  PROVE  Calls' = Calls
<1>1. ASSUME NEW d \in Slots \ {c} PROVE Call(d)' = Call(d)
  <2>1. h'[d] = h[d]
    BY DEF Moves
  <2> QED
    BY <2>1 DEF Call, Phase
<1>2. Call(c)' = Call(c)
  BY DEF Moves, Call
<1> QED
  BY <1>1, <1>2 DEF Calls

LEMMA GotoMoves ==
  ASSUME TypeOK, NEW c \in Slots, Step(c), NEW pc \in PCs \ {"idle", "done"},
         ~At(c, "idle"), Goto(c, pc)
  PROVE  Moves(c, IF pc \in {"drain", "send"} THEN "effective" ELSE "pending")
  BY StepFrame, GotoEffect DEF Moves, Phase, PCs

PhaseOf(status) == IF status \in {200, 201, 204} THEN "effective"
                   ELSE IF status = 404 THEN "missed" ELSE "failed"

LEMMA RespondMoves ==
  ASSUME TypeOK, NEW c \in Slots, Step(c), NEW status \in Statuses \ {0},
         ~At(c, "idle"), Respond(c, status)
  PROVE  Moves(c, PhaseOf(status))
  BY StepFrame, RespondEffect DEF Moves, Phase, PhaseOf, Statuses

-----------------------------------------------------------------------------
\* What a slot's step does to the phase of its request.
LEMMA StepPhases ==
  ASSUME Inv, NEW c \in Slots, Step(c), ~At(c, "done")
  PROVE  Phase(c) \in {"pending", "effective"}
  BY DEF Inv, FilesInOrder, CallInOrder, At, Phase, Step, PutStat, PutDrain,
         PutCreate, PutCopy, PutSync, PutVerify, PutRename, GetOpen, GetSend,
         Head, Delete, Finish

LEMMA StaySteps ==
  ASSUME NEW c \in Slots, Moves(c, Phase(c)), UNCHANGED <<disk, platter>>
  PROVE  UNCHANGED BS!vars
  BY StayMaps DEF BS!vars, Calls, Call, Exists

LEMMA FailSteps ==
  ASSUME NEW c \in Slots, Moves(c, "failed"), UNCHANGED <<disk, platter>>,
         Phase(c) \in {"pending", "effective"}
  PROVE  BS!Fail(c)
<1>1. Calls' = [Calls EXCEPT ![c].phase = "failed"]
  BY MoveMaps
<1> QED BY <1>1 DEF BS!Fail, BS!Moved, Calls, Call, Exists

LEMMA SeeSteps ==
  ASSUME Inv, NEW c \in Slots, Moves(c, "effective"), UNCHANGED <<disk, platter>>,
         Phase(c) = "pending", h[c].method # "delete", h[c] \in Busy,
         Exists(disk[h[c].id])
  PROVE  BS!See(c)
<1>1. Calls' = [Calls EXCEPT ![c].phase = "effective"]
  BY MoveMaps
<1>2. h[c].id \in Hashes
  BY DEF Busy
<1> QED BY <1>1, <1>2 DEF BS!See, BS!Moved, Calls, Call, Exists

LEMMA MissSteps ==
  ASSUME Inv, NEW c \in Slots, Moves(c, "missed"), UNCHANGED <<disk, platter>>,
         Phase(c) = "pending", h[c].method \in {"get", "head"},
         ~Exists(disk[h[c].id])
  PROVE  BS!Miss(c)
<1>1. Calls' = [Calls EXCEPT ![c].phase = "missed"]
  BY MoveMaps
<1> QED BY <1>1 DEF BS!Miss, BS!Moved, Calls, Call, Exists

Maps == BS!Next \/ UNCHANGED BS!vars

LEMMA StepMaps ==
  ASSUME Inv, NEW c \in Slots, Step(c)
  PROVE  Maps
<1> USE DEF At
<1>0. TypeOK /\ CallInOrder(c)
  BY DEF Inv, FilesInOrder
<1>1. CASE Finish(c)
  <2>1. Calls' = [Calls EXCEPT ![c] = BS!IdleCall]
    <3>1. h'[c] = Idle /\ \A d \in Slots \ {c} : h'[d] = h[d]
      BY <1>0, <1>1 DEF Finish, TypeOK
    <3>2. Call(c)' = BS!IdleCall
      BY <3>1 DEF Call, Phase, BS!IdleCall, Idle
    <3>3. \A d \in Slots \ {c} : Call(d)' = Call(d)
      BY <3>1 DEF Call, Phase
    <3> QED BY <3>2, <3>3 DEF Calls
  <2>2. Phase(c) \in {"effective", "missed", "failed"}
    <3>1. h[c].status \in Statuses \ {0}
      BY <1>0, <1>1, BusyType DEF Finish, CallInOrder, Busy
    <3> QED BY <1>1, <3>1 DEF Finish, Phase, Statuses
  <2>3. BS!Answer(c)
    BY <1>1, <2>1, <2>2 DEF Finish, BS!Answer, Calls, Call, Exists
  <2> QED BY <2>3 DEF Maps, BS!Next
<1> SUFFICES ASSUME ~Finish(c) PROVE Maps
  BY <1>1
<1>2. /\ h[c] \in Busy /\ ~At(c, "idle") /\ ~At(c, "done")
      /\ Phase(c) \in {"pending", "effective"}
  <2>1. ~At(c, "idle") /\ ~At(c, "done")
    BY DEF Step, PutStat, PutDrain, PutCreate, PutCopy, PutSync, PutVerify,
           PutRename, GetOpen, GetSend, Head, Delete
  <2> QED BY <1>0, <2>1, StepPhases, BusyType
<1>3. ASSUME NEW pc \in PCs \ {"idle", "done"}, Goto(c, pc), UNCHANGED <<disk, platter>>,
             Phase(c) = IF pc \in {"drain", "send"} THEN "effective" ELSE "pending"
      PROVE  Maps
  BY <1>0, <1>2, <1>3, GotoMoves, StaySteps DEF Maps
<1>4. ASSUME NEW s \in {400, 500}, Respond(c, s), UNCHANGED <<disk, platter>>
      PROVE  Maps
  BY <1>0, <1>2, <1>4, RespondMoves, FailSteps
  DEF Maps, BS!Next, PhaseOf, Statuses
<1>5. ASSUME Respond(c, 200), UNCHANGED <<disk, platter>>, Phase(c) = "effective"
      PROVE  Maps
  BY <1>0, <1>2, <1>5, RespondMoves, StaySteps DEF Maps, PhaseOf, Statuses
<1>6. ASSUME Respond(c, 404), UNCHANGED <<disk, platter>>, Phase(c) = "pending",
             ~Exists(disk[h[c].id]), h[c].method \in {"get", "head"}
      PROVE  Maps
  BY <1>0, <1>2, <1>6, RespondMoves, MissSteps DEF Maps, BS!Next, PhaseOf, Statuses
<1>7. CASE PutStat(c)
  <2>1. CASE Exists(disk[h[c].id])
    <3>1. Moves(c, "effective")
      BY <1>0, <1>2, <1>7, <2>1, GotoMoves DEF PutStat, PCs
    <3>2. h[c].method = "put" /\ Phase(c) = "pending"
      BY <1>0, <1>7 DEF PutStat, CallInOrder, Methods, MethodSteps, Phase
    <3>3. BS!See(c)
      BY <1>2, <1>7, <2>1, <3>1, <3>2, SeeSteps DEF PutStat
    <3> QED BY <3>3 DEF Maps, BS!Next
  <2>2. CASE ~Exists(disk[h[c].id])
    BY <1>3, <1>7, <2>2 DEF PutStat, PCs, Phase
  <2> QED BY <2>1, <2>2
<1>8. CASE PutDrain(c)
  BY <1>4, <1>5, <1>8 DEF PutDrain, Phase
<1>9. CASE PutCreate(c)
  BY <1>3, <1>4, <1>9 DEF PutCreate, PCs, Phase
<1>10. CASE PutCopy(c)
  BY <1>3, <1>4, <1>10 DEF PutCopy, PCs, Phase
<1>11. CASE PutSync(c)
  BY <1>3, <1>4, <1>11 DEF PutSync, PCs, Phase
<1>12. CASE PutVerify(c)
  BY <1>3, <1>4, <1>12 DEF PutVerify, PCs, Phase
<1>13. CASE PutRename(c)
  <2>1. CASE disk' = [disk EXCEPT ![h[c].id] = tmp[c]] /\ Respond(c, 201)
    <3>0. h[c].id \in Hashes /\ h[c].method = "put" /\ Phase(c) = "pending"
      BY <1>0, <1>2, <1>13
      DEF CallInOrder, Methods, MethodSteps, PutRename, Busy, Phase
    <3>1. tmp[c].data = h[c].id
      <4>1. tmp[c] = [data |-> h[c].id, synced |-> TRUE]
        BY <1>13 DEF Inv, FilesInOrder, PutInOrder, PutRename
      <4> QED BY <4>1
    <3>2. disk'[h[c].id] = tmp[c] /\ \A b \in Hashes \ {h[c].id} : disk'[b] = disk[b]
      BY <1>0, <2>1, <3>0 DEF TypeOK
    <3>3. Present' = Present \cup {h[c].id}
      BY <3>0, <3>1, <3>2, JunkAbsentAssumption DEF Present, Exists
    <3>4. Calls' = [Calls EXCEPT ![c].phase = "effective"]
      BY <1>0, <1>2, <2>1, RespondMoves, MoveMaps DEF PhaseOf, Statuses
    <3>5. BS!Store(c)
      BY <1>13, <3>0, <3>3, <3>4
      DEF BS!Store, BS!Moved, PutRename, Calls, Call, Present, Exists
    <3> QED BY <3>5 DEF Maps, BS!Next
  <2> QED BY <1>4, <1>13, <2>1 DEF PutRename
<1>14. CASE GetOpen(c)
  <2>0. h[c].method = "get" /\ Phase(c) = "pending"
    BY <1>0, <1>14 DEF GetOpen, CallInOrder, Methods, MethodSteps, Phase
  <2>1. CASE /\ Exists(disk[h[c].id])
             /\ h' = [h EXCEPT ![c].pc = "send", ![c].data = disk[h[c].id].data]
    <3>1. h'[c] = [[h[c] EXCEPT !.pc = "send"] EXCEPT !.data = disk[h[c].id].data]
      BY <1>0, <2>1 DEF TypeOK
    <3>2. h'[c].pc = "send" /\ h'[c].method = h[c].method /\ h'[c].id = h[c].id
      BY <1>2, <3>1 DEF Busy
    <3>3. Moves(c, "effective")
      BY <1>0, <3>2, StepFrame DEF Moves, Phase
    <3>4. BS!See(c)
      BY <1>2, <1>14, <2>0, <2>1, <3>3, SeeSteps DEF GetOpen
    <3> QED BY <3>4 DEF Maps, BS!Next
  <2> QED BY <1>4, <1>6, <1>14, <2>0, <2>1 DEF GetOpen
<1>15. CASE GetSend(c)
  BY <1>4, <1>5, <1>15 DEF GetSend, Phase
<1>16. CASE Head(c)
  <2>0. h[c].method = "head" /\ Phase(c) = "pending"
    BY <1>0, <1>16 DEF Head, CallInOrder, Methods, MethodSteps, Phase
  <2>1. CASE Exists(disk[h[c].id]) /\ Respond(c, 200)
    <3>1. Moves(c, "effective")
      BY <1>0, <1>2, <2>1, RespondMoves DEF PhaseOf, Statuses
    <3>2. BS!See(c)
      BY <1>2, <1>16, <2>0, <2>1, <3>1, SeeSteps DEF Head
    <3> QED BY <3>2 DEF Maps, BS!Next
  <2> QED BY <1>6, <1>16, <2>0, <2>1 DEF Head
<1>17. CASE Delete(c)
  <2>0. h[c].method = "delete" /\ Phase(c) = "pending" /\ h[c].id \in Hashes
    BY <1>0, <1>2, <1>17 DEF Delete, CallInOrder, Methods, MethodSteps, Phase, Busy
  <2>1. CASE disk' = [disk EXCEPT ![h[c].id] = NoFile] /\ Respond(c, 204)
    <3>1. disk'[h[c].id] = NoFile /\ \A b \in Hashes \ {h[c].id} : disk'[b] = disk[b]
      BY <1>0, <2>0, <2>1 DEF TypeOK
    <3>2. Present' = Present \ {h[c].id}
      BY <3>1 DEF Present, Exists, NoFile
    <3>3. Calls' = [Calls EXCEPT ![c].phase = "effective"]
      BY <1>0, <1>2, <2>1, RespondMoves, MoveMaps DEF PhaseOf, Statuses
    <3>4. BS!Remove(c)
      BY <1>17, <2>0, <3>2, <3>3
      DEF BS!Remove, BS!Moved, Delete, Calls, Call, Present, Exists
    <3> QED BY <3>4 DEF Maps, BS!Next
  <2> QED BY <1>4, <1>17, <2>1 DEF Delete
<1> QED BY <1>7, <1>8, <1>9, <1>10, <1>11, <1>12, <1>13, <1>14, <1>15, <1>16,
           <1>17 DEF Step

LEMMA NextMaps == Inv /\ [Next]_vars => Maps
<1> SUFFICES ASSUME Inv, [Next]_vars PROVE Maps
  OBVIOUS
<1>1. ASSUME NEW c \in Slots, NEW m \in Methods, NEW id \in Hashes,
             NEW body \in Contents, Receive(c, m, id, body)
      PROVE  Maps
  <2>1. /\ h'[c].pc = Entry[m] /\ h'[c].method = m /\ h'[c].id = id
        /\ \A d \in Slots \ {c} : h'[d] = h[d]
    BY <1>1 DEF Receive, Inv, TypeOK
  <2>2. Phase(c) = "idle" /\ Phase(c)' = "pending"
    <3>1. h'[c].pc \in {"stat", "open", "head", "remove"}
      BY <2>1 DEF Entry, Methods
    <3> QED BY <1>1, <3>1 DEF Receive, At, Phase
  <2>3. Call(c)' = [phase |-> "pending", kind |-> m, id |-> id]
    BY <2>1, <2>2 DEF Call
  <2>4. \A d \in Slots \ {c} : Call(d)' = Call(d)
    BY <2>1 DEF Call, Phase
  <2>5. Calls' = [Calls EXCEPT ![c] = [phase |-> "pending", kind |-> m, id |-> id]]
    BY <2>3, <2>4 DEF Calls
  <2>6. BS!Request(c, m, id)
    BY <1>1, <2>2, <2>5 DEF BS!Request, Receive, Calls, Call, Exists
  <2> QED BY <2>6 DEF Maps, BS!Next, BS!Kinds, Methods
<1>2. ASSUME NEW c \in Slots, Arrive(c) PROVE Maps
  BY <1>1, <1>2 DEF Arrive, Contents, Methods
<1>3. ASSUME NEW b \in Hashes, Flush(b) PROVE Maps
  <2>1. Settled' = IF b \in Present THEN Settled \cup {b} ELSE Settled \ {b}
    <3>1. platter'[b] = disk[b] /\ \A a \in Hashes \ {b} : platter'[a] = platter[a]
      BY <1>3 DEF Flush, Inv, TypeOK
    <3> QED BY <3>1 DEF Settled, Present, Exists
  <2>2. Present' = Present /\ Calls' = Calls
    BY <1>3 DEF Flush, Present, Exists, Calls, Call, Phase
  <2>3. BS!Settle(b)
    BY <2>1, <2>2 DEF BS!Settle, Settled, Present, Calls, Call
  <2> QED BY <2>3 DEF Maps, BS!Next
<1>4. ASSUME h' = [c \in Slots |-> Idle] PROVE BS!AllStop
  BY <1>4 DEF BS!AllStop, BS!IdleCall, Phase, Idle
<1>5. CASE Kill
  BY <1>4, <1>5 DEF Kill, Maps, BS!Next, BS!Kill, Exists
<1>6. CASE PowerLoss
  <2>1. PICK torn \in SUBSET {b \in Hashes : ~platter[b].synced} :
          /\ disk' = [b \in Hashes |->
                         IF b \in torn THEN [data |-> Junk, synced |-> TRUE]
                                       ELSE platter[b]]
          /\ platter' = disk'
    BY <1>6 DEF PowerLoss
  <2>2. torn = {}
    BY DEF Inv, FilesInOrder, NamedFilesAreFinished
  <2>3. \A b \in Hashes : disk'[b] = platter[b] /\ platter'[b] = platter[b]
    BY <2>1, <2>2
  <2>4. Present' = Settled /\ Settled' = Settled
    BY <2>3 DEF Present, Settled, Exists
  <2>5. BS!PowerLoss
    BY <1>4, <1>6, <2>4 DEF PowerLoss, BS!PowerLoss, Present, Settled
  <2> QED BY <2>5 DEF Maps, BS!Next
<1>7. CASE UNCHANGED vars
  BY <1>7 DEF vars, Maps, BS!vars, Exists, Phase
<1> QED BY <1>2, <1>3, <1>5, <1>6, <1>7, StepMaps DEF Next

\* The storage node keeps every promise of BlockStore: each request takes
\* effect at one instant, whatever runs beside it and wherever power fails.
THEOREM Implements == Spec => ImplementsBlockStore
<1>1. Inv /\ [Next]_vars => [BS!Next]_BS!vars
  BY NextMaps DEF Maps
<1> QED BY <1>1, InitMaps, InvHolds, PTL DEF Spec, ImplementsBlockStore, BS!Spec
=============================================================================

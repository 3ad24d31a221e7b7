--------------------------- MODULE RdmaIoWire_proofs ---------------------------
(***************************************************************************)
(* What a slot, its registration, its table entry and its command at the   *)
(* target have to do with each other (RdmaIoQueue), for every set of slots *)
(* and every set of faults.                                                *)
(***************************************************************************)
EXTENDS RdmaIoQueue_proofs, FiniteSetTheorems

USE DEF ioVars, idVars, queueVars, callbacks, threadVars, wireVars
USE DEF SubHolds, LamHolds, ScqHolds, InUse

(* The operation of slot s on the send queue, and how far the adapter is.   *)
StOf(q) == IF q = <<>> THEN "none" ELSE Head(q).st
PostedSt == [s \in Slots |-> StOf(sendQ[s])]

(* The bits of a request before its command is sent and once it is on its   *)
(* way out; who works on it then.                                           *)
EarlyBits == {"ALLOCATED", "INITIALIZED", "PREPARE_SUBMITTING"}
FreedBits == {"FREEING", "INITIALIZED"}
Early(s) ==
  \/ PostedOp[s] = "FAST_REGISTER"
  \/ \E i \in Ios : SubHolds(i, s) \/ LamHolds(i, s)
ScqAt(pcs, s) == scq.pc \in pcs /\ scq.slot = s

(* What the bits of lReqState say of the place of a request, whatever its   *)
(* shared type.                                                             *)
BitsOf(s) ==
  /\ Early(s) => lReqState[s] \subseteq EarlyBits
  /\ "RESPONSE_RECEIVED" \in lReqState[s] => "SUBMITTING" \in lReqState[s]
  /\ "FREEING" \in lReqState[s] => lReqState[s] \subseteq FreedBits
  /\ PostedOp[s] = "SEND" => "SUBMITTING" \in lReqState[s]
  /\ PostedOp[s] = "INVALIDATE" => "FREEING" \in lReqState[s]
  /\ ScqAt({"send", "sent"}, s) =>
       "SUBMITTING" \in lReqState[s] /\ "SUBMITTED" \notin lReqState[s]
  /\ ScqAt({"free"}, s) => "FREEING" \in lReqState[s]

(* A free request has no I/O, nor has one whose I/O is not yet in it.       *)
ParentOf(s) ==
  /\ lReqState[s] = {} \/ ScqAt({"free"}, s) => pvParentReqCtx[s] = NoIo
  /\ \A i \in Ios : SubHolds(i, s) /\ sub[i].pc = "prepare" => pvParentReqCtx[s] = NoIo

(* While connected a registration opens the buffer of the request's I/O,    *)
(* from the fast registration that succeeded to the invalidation that did.  *)
BufferOf(s) ==
  /\ pvBuffer[s] = pvParentReqCtx[s]
  /\ mr[s] # NoIo => mr[s] = pvBuffer[s]
  /\ \/ PostedOp[s] = "FAST_REGISTER"
     \/ \E i \in Ios : (SubHolds(i, s) /\ sub[i].pc = "register") \/ LamHolds(i, s)
     => pvBuffer[s] # NoIo
  /\ \/ "SUBMITTING" \in lReqState[s]
     \/ PostedOp[s] = "FAST_REGISTER" /\ PostedSt[s] = "ok"
     => mr[s] # NoIo
  /\ \/ lReqState[s] = {} \/ ScqAt({"free"}, s)
     \/ \E i \in Ios : SubHolds(i, s) \/ LamHolds(i, s)
     \/ PostedOp[s] = "INVALIDATE" /\ PostedSt[s] = "ok"
     => mr[s] = NoIo
  /\ PostedSt[s] # "cancelled"

(* The event and the flush come after the connection went, which leaves the *)
(* target with nothing.                                                     *)
ConnectionInv ==
  /\ ulDisconnectFlag # "0" \/ flush # NoSlot => ~connected
  /\ target # {} => connected

(* An entry of the table is of a request that waits for that answer.        *)
TableInv ==
  \A n \in CmdIds : ppvIoReqTable[n] \in Slots =>
    /\ usCommandID[ppvIoReqTable[n]] = n
    /\ "SUBMITTING" \in lReqState[ppvIoReqTable[n]]
    /\ "RESPONSE_RECEIVED" \notin lReqState[ppvIoReqTable[n]]

(* A command, at the target or on its way, is of the request its identifier *)
(* finds, and alone with it, and a response of the I/O it was sent for.     *)
Unsent(s) == ScqAt({"send"}, s) \/ (PostedOp[s] = "SEND" /\ PostedSt[s] = "posted")
WireInv ==
  /\ \A c \in target :
       ppvIoReqTable[c.id] = c.slot /\ c.io = pvBuffer[c.slot] /\ c.io # NoIo
  /\ \A r \in rcq :
       /\ ppvIoReqTable[r.id] \in Slots /\ r.io = pvBuffer[ppvIoReqTable[r.id]]
       /\ \A c \in target : c.id # r.id
  /\ \A s \in Slots : Unsent(s) =>
       /\ ppvIoReqTable[usCommandID[s]] = s
       /\ \A c \in target : c.id # usCommandID[s]
       /\ \A r \in rcq : r.id # usCommandID[s]

(* The identifiers of the requests in use are below the counter and differ, *)
(* as long as the I/Os that drew one are no more than there are             *)
(* identifiers.                                                             *)
Numbered(s) ==
  lReqState[s] # {} \/ \E i \in Ios : sub[i].pc = "lamReturn" /\ sub[i].slot = s
Past == {i \in Ios : sub[i].pc \notin {"new", "alloc"}}
NumberInv ==
  /\ \A s \in Slots : Numbered(s) => usCommandID[s] < lNextCmdID
  /\ \A s, t \in Slots : Numbered(s) /\ Numbered(t) /\ usCommandID[s] = usCommandID[t] => s = t
  /\ lNextCmdID <= Cardinality(Past)

-----------------------------------------------------------------------------
(* What an action does to the send queues, seen as PostedOp and PostedSt.   *)
BecomesOn(s, op, st) ==
  \A r \in Slots :
    /\ PostedOp'[r] = IF r = s THEN op ELSE PostedOp[r]
    /\ PostedSt'[r] = IF r = s THEN st ELSE PostedSt[r]
KeepsQueues ==
  \A r \in Slots : PostedOp'[r] = PostedOp[r] /\ PostedSt'[r] = PostedSt[r]

(* A step that leaves the send queues alone leaves the view of them alone.  *)
LEMMA QueuesKept == ASSUME UNCHANGED sendQ PROVE KeepsQueues
  BY DEF KeepsQueues, PostedOp, PostedSt

(* A submission to an idle work request.                                    *)
LEMMA PostEffect ==
  ASSUME TypeOK, NEW s \in Slots, NEW op \in Ops, PostedOp[s] = "none", Post(s, op)
  PROVE  BecomesOn(s, op, "posted")
<1> DEFINE entry == [op |-> op, st |-> "posted"]
<1>1. SendQOK
  BY DEF TypeOK, SendQOK
<1>2. sendQ[s] = <<>>
  BY <1>1, NonEmpty DEF PostedOp, SendQOK
<1>3. sendQ' = [sendQ EXCEPT ![s] = <<entry>>]
  BY <1>1, <1>2 DEF Post, SendQOK
<1>4. StOf(<<entry>>) = "posted"
  BY DEF StOf
<1> QED
  BY <1>1, <1>3, <1>4, PostedOpPost DEF BecomesOn, PostedOp, PostedSt, SendQOK

(* A completed operation is reaped by the handler of its own kind.          *)
LEMMA ReapEffect ==
  ASSUME TypeOK, OneUser, NEW s \in Slots, NEW type, ScqReap(s, type)
  PROVE  /\ BecomesOn(s, "none", "none")
         /\ PostedOp[s] = type /\ PostedSt[s] \in {"ok", "cancelled"}
         /\ Head(sendQ[s]).st = PostedSt[s]
         /\ scq.pc = "idle" /\ InUse(s)
         /\ \A i \in Ios : ~SubHolds(i, s) /\ ~LamHolds(i, s)
<1>1. SendQOK
  BY DEF TypeOK, SendQOK
<1>2. sendQ[s] \in Seq(Posted) /\ sendQ[s] # <<>>
  BY <1>1 DEF SendQOK, ScqReap
<1>3. PostedOp[s] # "none"
  BY <1>2, NonEmpty DEF PostedOp
<1>4. PostedOp[s] = ulType[s]
  BY <1>3 DEF OneUser, OneUserOf
<1>5. PostedOp[s] # "many"
  BY <1>4 DEF TypeOK, NdkTypes, Ops
<1>6. Len(sendQ[s]) = 1
  BY <1>2, <1>5 DEF PostedOp, OpOf
<1>7. Tail(sendQ[s]) = <<>>
  BY <1>2, <1>6, NonEmpty
<1>8. \A r \in Slots : PostedSt'[r] = IF r = s THEN "none" ELSE PostedSt[r]
  <2>1. StOf(<<>>) = "none"
    BY DEF StOf
  <2> QED
    BY <1>1, <1>7, <2>1 DEF ScqReap, PostedSt, SendQOK
<1>9. Head(sendQ[s]) \in Posted /\ Head(sendQ[s]).st = PostedSt[s]
  BY <1>2, HeadTailProperties DEF PostedSt, StOf
<1>10. PostedSt[s] \in {"ok", "cancelled"}
  BY <1>9 DEF ScqReap, Posted
<1>11. /\ PostedOp' = [PostedOp EXCEPT ![s] = "none"]
       /\ InUse(s) /\ scq.pc = "idle"
       /\ \A i \in Ios : ~SubHolds(i, s) /\ ~LamHolds(i, s)
  BY OneUserReaped
<1>12. \A r \in Slots : PostedOp'[r] = IF r = s THEN "none" ELSE PostedOp[r]
  BY <1>11 DEF PostedOp
<1>13. BecomesOn(s, "none", "none")
  BY <1>8, <1>12 DEF BecomesOn
<1>14. PostedOp[s] = type
  BY <1>4 DEF ScqReap
<1> QED
  BY <1>9, <1>10, <1>11, <1>13, <1>14

(* The adapter changes how far the operation is.                            *)
LEMMA RetireEffect ==
  ASSUME TypeOK, OneUser, NEW s \in Slots, NEW st \in {"ok", "cancelled"}, Retire(s, st)
  PROVE  /\ BecomesOn(s, PostedOp[s], st)
         /\ PostedOp[s] = Head(sendQ[s]).op /\ PostedOp[s] \in Ops
         /\ PostedSt[s] = "posted"
<1> DEFINE done == [op |-> Head(sendQ[s]).op, st |-> st]
<1>1. SendQOK
  BY DEF TypeOK, SendQOK
<1>2. sendQ[s] \in Seq(Posted) /\ sendQ[s] # <<>>
  BY <1>1 DEF SendQOK, Retire
<1>3. PostedOp[s] # "none"
  BY <1>2, NonEmpty DEF PostedOp
<1>4. PostedOp[s] = ulType[s]
  BY <1>3 DEF OneUser, OneUserOf
<1>5. PostedOp[s] # "many"
  BY <1>4 DEF TypeOK, NdkTypes, Ops
<1>6. Len(sendQ[s]) = 1 /\ PostedOp[s] = Head(sendQ[s]).op
  BY <1>2, <1>5 DEF PostedOp, OpOf
<1>7. Head(sendQ[s]).op \in Ops /\ Tail(sendQ[s]) = <<>>
  BY <1>2, <1>6, NonEmpty
<1>8. <<done>> \o Tail(sendQ[s]) = <<done>>
  <2>1. done \in Posted
    BY <1>7 DEF Posted
  <2>2. <<done>> \in Seq(Posted)
    BY <2>1
  <2>3. <<done>> \o <<>> = <<done>>
    BY <2>2, ConcatEmptySeq
  <2> QED
    BY <1>7, <2>3
<1>9. sendQ' = [sendQ EXCEPT ![s] = <<done>>]
  BY <1>8 DEF Retire, SendQOK
<1>10. StOf(<<done>>) = st
  BY DEF StOf
<1>11. PostedSt' = [PostedSt EXCEPT ![s] = st]
  BY <1>1, <1>9, <1>10 DEF PostedSt, SendQOK
<1>12. PostedSt[s] = "posted"
  BY <1>2 DEF PostedSt, StOf, Retire
<1> QED
  BY <1>1, <1>5, <1>6, <1>7, <1>11, <1>12, PostedOpRetire DEF BecomesOn,
     PostedSt

(* The invalidation of a slot nothing is posted for.                        *)
LEMMA InvalidateEffect ==
  ASSUME TypeOK, NEW s \in Slots, PostedOp[s] = "none", InvalidateDataMr(s)
  PROVE  /\ lReqState' = [lReqState EXCEPT ![s] = {"FREEING"}]
         /\ BecomesOn(s, "INVALIDATE", "posted") \/ KeepsQueues
<1>1. BecomesOn(s, "INVALIDATE", "posted") \/ KeepsQueues
  BY PostEffect, QueuesKept DEF InvalidateDataMr, PostFails, Ops
<1> QED
  BY <1>1 DEF InvalidateDataMr, SetState

(* The join finds the request unused, or changes nothing.                   *)
LEMMA JoinEffect ==
  ASSUME TypeOK, OneUser, NEW s \in Slots, Join(s)
  PROVE  \/ UNCHANGED lReqState /\ KeepsQueues
         \/ /\ lReqState[s] = AllStateDone
            /\ PostedOp[s] = "none" /\ ~ScqHolds(s)
            /\ \A i \in Ios : ~SubHolds(i, s) /\ ~LamHolds(i, s)
            /\ lReqState' = [lReqState EXCEPT ![s] = {"FREEING"}]
            /\ BecomesOn(s, "INVALIDATE", "posted") \/ KeepsQueues
<1>1. CASE lReqState[s] # AllStateDone
  BY <1>1, QueuesKept DEF Join
<1>2. CASE lReqState[s] = AllStateDone
  <2>1. ~InUse(s)
    BY <1>2 DEF AllStateDone, StateBits
  <2>2. /\ PostedOp[s] = "none" /\ ~ScqHolds(s)
        /\ \A i \in Ios : ~SubHolds(i, s) /\ ~LamHolds(i, s)
    BY <2>1 DEF OneUser, OneUserOf
  <2> QED
    BY <1>2, <2>2, InvalidateEffect DEF Join
<1> QED
  BY <1>1, <1>2

(* A thread that works on a slot names one.                                 *)
LEMMA Typed ==
  ASSUME TypeOK
  PROVE  /\ lReqState \in [Slots -> SUBSET StateBits]
         /\ usCommandID \in [Slots -> CmdIds]
         /\ pvParentReqCtx \in [Slots -> Ios \cup {NoIo}]
         /\ pvBuffer \in [Slots -> Ios \cup {NoIo}]
         /\ ppvIoReqTable \in [CmdIds -> Slots \cup {NoSlot}]
         /\ mr \in [Slots -> Ios \cup {NoIo}]
         /\ sub \in [Ios -> [pc : SubPcs, slot : Slots \cup {NoSlot}]]
         /\ lam \in [Ios -> [pc : {"idle", "building", "registered"},
                             slot : Slots \cup {NoSlot}]]
         /\ \A i \in Ios : sub[i].pc \in SubSlotPcs => sub[i].slot \in Slots
         /\ \A i \in Ios : lam[i].pc = "building" => lam[i].slot \in Slots
         /\ scq.pc \in {"idle", "send", "sent", "join", "free"}
         /\ scq.pc # "idle" => scq.slot \in Slots
         /\ rcqThread.pc \in {"store", "join"} => rcqThread.slot \in Slots
<1>1. /\ sub \in [Ios -> SubPlace] /\ lam \in [Ios -> LamPlace]
      /\ scq \in ScqPlace /\ rcqThread \in RcqPlace
  BY DEF TypeOK
<1>2. \A i \in Ios : sub[i].pc \in SubSlotPcs => sub[i].slot \in Slots
  BY <1>1 DEF SubPlace
<1>3. \A i \in Ios : lam[i].pc = "building" => lam[i].slot \in Slots
  BY <1>1 DEF LamPlace
<1>4. /\ scq.pc \in {"idle", "send", "sent", "join", "free"}
      /\ scq.pc # "idle" => scq.slot \in Slots
  BY <1>1 DEF ScqPlace
<1>5. rcqThread.pc \in {"store", "join"} => rcqThread.slot \in Slots
  BY <1>1 DEF RcqPlace
<1> QED
  BY <1>2, <1>3, <1>4, <1>5, PlacesTyped DEF TypeOK

-----------------------------------------------------------------------------
SlotOf(s) == BitsOf(s) /\ ParentOf(s) /\ (connected => BufferOf(s))
SlotInv == (\A s \in Slots : SlotOf(s)) /\ ConnectionInv /\ TableInv

USE DEF Early, ScqAt

(* What SlotInv says of a slot.                                             *)
LEMMA SlotFacts ==
  ASSUME SlotInv, NEW s \in Slots
  PROVE  BitsOf(s) /\ ParentOf(s) /\ (connected => BufferOf(s))
  BY DEF SlotInv, SlotOf

(* The submitting threads (5409-5479).                                     *)
LEMMA SlotSubmitter ==
  ASSUME TypeOK, OneUser, SlotInv, NEW i \in Ios, Submitter(i)
  PROVE  SlotInv'
<1>inv. ConnectionInv /\ TableInv
  BY DEF SlotInv
<1>1. CASE IOSubmitRW(i)
  <2>1. KeepsQueues
    BY <1>1, QueuesKept, Typed DEF IOSubmitRW
  <2>2. ASSUME NEW t \in Slots PROVE SlotOf(t)'
    <3>inv. /\ OneUserOf(t) /\ BitsOf(t) /\ ParentOf(t)
            /\ connected => BufferOf(t)
      BY SlotFacts DEF OneUser
    <3>1. BitsOf(t)'
      BY <1>1, <2>1, <3>inv, Typed DEF IOSubmitRW, SubGoto, KeepsQueues, BitsOf
    <3>2. ParentOf(t)'
      BY <1>1, <2>1, <3>inv, Typed DEF IOSubmitRW, SubGoto, ParentOf
    <3>3. (connected => BufferOf(t))'
      BY <1>1, <2>1, <3>inv, Typed DEF IOSubmitRW, SubGoto, KeepsQueues,
         BufferOf
    <3> QED
      BY <3>1, <3>2, <3>3 DEF SlotOf
  <2>3. ConnectionInv'
    BY <1>1, <1>inv DEF IOSubmitRW, SubGoto, ConnectionInv
  <2>4. TableInv'
    BY <1>1, <2>1, Typed DEF IOSubmitRW, SubGoto, SlotInv, SlotOf, TableInv
  <2> QED
    BY <2>2, <2>3, <2>4 DEF SlotInv
<1>2. CASE NoFreeIORequest(i)
  <2>1. KeepsQueues
    BY <1>2, QueuesKept, Typed DEF NoFreeIORequest
  <2>2. ASSUME NEW t \in Slots PROVE SlotOf(t)'
    <3>inv. /\ OneUserOf(t) /\ BitsOf(t) /\ ParentOf(t)
            /\ connected => BufferOf(t)
      BY SlotFacts DEF OneUser
    <3>1. BitsOf(t)'
      BY <1>2, <2>1, <3>inv, Typed DEF NoFreeIORequest, SubGoto, KeepsQueues,
         BitsOf
    <3>2. ParentOf(t)'
      BY <1>2, <2>1, <3>inv, Typed DEF NoFreeIORequest, SubGoto, ParentOf
    <3>3. (connected => BufferOf(t))'
      BY <1>2, <2>1, <3>inv, Typed DEF NoFreeIORequest, SubGoto, KeepsQueues,
         BufferOf
    <3> QED
      BY <3>1, <3>2, <3>3 DEF SlotOf
  <2>3. ConnectionInv'
    BY <1>2, <1>inv DEF NoFreeIORequest, SubGoto, ConnectionInv
  <2>4. TableInv'
    BY <1>2, <2>1, Typed DEF NoFreeIORequest, SubGoto, SlotInv, SlotOf,
       TableInv, EarlyBits, FreedBits, AllStateDone, StateBits, SubPcs
  <2> QED
    BY <2>2, <2>3, <2>4 DEF SlotInv
<1>3. ASSUME NEW s \in Slots, GetCurrentFreeIORequest(i, s) PROVE SlotInv'
  <2>1. KeepsQueues
    BY <1>3, QueuesKept, Typed DEF GetCurrentFreeIORequest
  <2>2. ASSUME NEW t \in Slots PROVE SlotOf(t)'
    <3>inv. /\ OneUserOf(t) /\ BitsOf(t) /\ ParentOf(t)
            /\ connected => BufferOf(t)
      BY SlotFacts DEF OneUser
    <3>1. BitsOf(t)'
      BY <1>3, <2>1, <3>inv, Typed DEF GetCurrentFreeIORequest, SubGoto,
         FreeSlots, SetState, GetIOQUniqueCommandID, KeepsQueues, BitsOf,
         EarlyBits, FreedBits
    <3>2. ParentOf(t)'
      BY <1>3, <2>1, <3>inv, Typed, NoneAssumption DEF GetCurrentFreeIORequest,
         SubGoto, FreeSlots, SetState, GetIOQUniqueCommandID, KeepsQueues,
         BitsOf, OneUserOf, ParentOf
    <3>3. (connected => BufferOf(t))'
      BY <1>3, <2>1, <3>inv, Typed DEF GetCurrentFreeIORequest, SubGoto,
         FreeSlots, SetState, GetIOQUniqueCommandID, BecomesOn, KeepsQueues,
         BufferOf
    <3> QED
      BY <3>1, <3>2, <3>3 DEF SlotOf
  <2>3. ConnectionInv'
    BY <1>3, <1>inv DEF GetCurrentFreeIORequest, SubGoto, FreeSlots, SetState,
       GetIOQUniqueCommandID, ConnectionInv
  <2>4. TableInv'
    BY <1>3, <2>1, Typed DEF GetCurrentFreeIORequest, SubGoto, FreeSlots,
       SetState, GetIOQUniqueCommandID, SlotInv, SlotOf, TableInv
  <2> QED
    BY <2>2, <2>3, <2>4 DEF SlotInv
<1>4. CASE PrepareRWRequest(i)
  <2>1. KeepsQueues
    BY <1>4, QueuesKept, Typed DEF PrepareRWRequest
  <2>2. ASSUME NEW t \in Slots PROVE SlotOf(t)'
    <3>inv. /\ OneUserOf(t) /\ BitsOf(t) /\ ParentOf(t)
            /\ connected => BufferOf(t)
      BY SlotFacts DEF OneUser
    <3>1. BitsOf(t)'
      BY <1>4, <2>1, <3>inv, Typed DEF PrepareRWRequest, SubGoto, Prepare,
         OrState, SetState, KeepsQueues, BitsOf, EarlyBits, FreedBits
    <3>2. ParentOf(t)'
      BY <1>4, <2>1, <3>inv, Typed DEF PrepareRWRequest, SubGoto, Prepare,
         OrState, SetState, OneUserOf, ParentOf
    <3>3. (connected => BufferOf(t))'
      BY <1>4, <2>1, <3>inv, Typed, NoneAssumption DEF PrepareRWRequest,
         SubGoto, Prepare, OrState, SetState, KeepsQueues, BufferOf
    <3> QED
      BY <3>1, <3>2, <3>3 DEF SlotOf
  <2>3. ConnectionInv'
    BY <1>4, <1>inv DEF PrepareRWRequest, SubGoto, Prepare, OrState, SetState,
       ConnectionInv
  <2>4. TableInv'
    BY <1>4, <2>1, Typed DEF PrepareRWRequest, SubGoto, Prepare, OrState,
       SetState, SlotInv, SlotOf, TableInv
  <2> QED
    BY <2>2, <2>3, <2>4 DEF SlotInv
<1>5. CASE PrepareRWPending(i)
  <2>1. KeepsQueues
    BY <1>5, QueuesKept, Typed DEF PrepareRWPending
  <2>2. ASSUME NEW t \in Slots PROVE SlotOf(t)'
    <3>inv. /\ OneUserOf(t) /\ BitsOf(t) /\ ParentOf(t)
            /\ connected => BufferOf(t)
      BY SlotFacts DEF OneUser
    <3>1. BitsOf(t)'
      BY <1>5, <2>1, <3>inv, Typed DEF PrepareRWPending, SubGoto, LamGoto,
         Prepare, KeepsQueues, BitsOf
    <3>2. ParentOf(t)'
      BY <1>5, <2>1, <3>inv, Typed DEF PrepareRWPending, SubGoto, LamGoto,
         Prepare, OneUserOf, ParentOf
    <3>3. (connected => BufferOf(t))'
      BY <1>5, <2>1, <3>inv, Typed, NoneAssumption DEF PrepareRWPending,
         SubGoto, LamGoto, Prepare, KeepsQueues, BufferOf
    <3> QED
      BY <3>1, <3>2, <3>3 DEF SlotOf
  <2>3. ConnectionInv'
    BY <1>5, <1>inv DEF PrepareRWPending, SubGoto, LamGoto, Prepare,
       ConnectionInv
  <2>4. TableInv'
    BY <1>5, <2>1, Typed DEF PrepareRWPending, SubGoto, LamGoto, Prepare,
       SlotInv, SlotOf, TableInv
  <2> QED
    BY <2>2, <2>3, <2>4 DEF SlotInv
<1>6. CASE PrepareRWReturnsPending(i)
  <2>1. KeepsQueues
    BY <1>6, QueuesKept, Typed DEF PrepareRWReturnsPending
  <2>2. ASSUME NEW t \in Slots PROVE SlotOf(t)'
    <3>inv. /\ OneUserOf(t) /\ BitsOf(t) /\ ParentOf(t)
            /\ connected => BufferOf(t)
      BY SlotFacts DEF OneUser
    <3>1. BitsOf(t)'
      BY <1>6, <2>1, <3>inv, Typed DEF PrepareRWReturnsPending, SubGoto,
         OrState, SetState, KeepsQueues, BitsOf, EarlyBits, FreedBits
    <3>2. ParentOf(t)'
      BY <1>6, <2>1, <3>inv, Typed DEF PrepareRWReturnsPending, SubGoto,
         OrState, SetState, ParentOf
    <3>3. (connected => BufferOf(t))'
      BY <1>6, <2>1, <3>inv, Typed DEF PrepareRWReturnsPending, SubGoto,
         OrState, SetState, KeepsQueues, BufferOf
    <3> QED
      BY <3>1, <3>2, <3>3 DEF SlotOf
  <2>3. ConnectionInv'
    BY <1>6, <1>inv DEF PrepareRWReturnsPending, SubGoto, OrState, SetState,
       ConnectionInv
  <2>4. TableInv'
    BY <1>6, <2>1, Typed DEF PrepareRWReturnsPending, SubGoto, OrState,
       SetState, SlotInv, SlotOf, TableInv
  <2> QED
    BY <2>2, <2>3, <2>4 DEF SlotInv
<1>7. CASE PrepareRWFails(i)
  <2>1. KeepsQueues
    BY <1>7, QueuesKept, Typed DEF PrepareRWFails
  <2>2. ASSUME NEW t \in Slots PROVE SlotOf(t)'
    <3>inv. /\ OneUserOf(t) /\ BitsOf(t) /\ ParentOf(t)
            /\ connected => BufferOf(t)
      BY SlotFacts DEF OneUser
    <3>1. BitsOf(t)'
      BY <1>7, <2>1, <3>inv, Typed DEF PrepareRWFails, SubGoto, Prepare,
         KeepsQueues, BitsOf
    <3>2. ParentOf(t)'
      BY <1>7, <2>1, <3>inv, Typed DEF PrepareRWFails, SubGoto, Prepare,
         OneUserOf, ParentOf
    <3>3. (connected => BufferOf(t))'
      BY <1>7, <2>1, <3>inv, Typed DEF PrepareRWFails, SubGoto, Prepare,
         KeepsQueues, OneUserOf, BufferOf
    <3> QED
      BY <3>1, <3>2, <3>3 DEF SlotOf
  <2>3. ConnectionInv'
    BY <1>7, <1>inv DEF PrepareRWFails, SubGoto, Prepare, ConnectionInv
  <2>4. TableInv'
    BY <1>7, <2>1, Typed DEF PrepareRWFails, SubGoto, Prepare, SlotInv, SlotOf,
       TableInv
  <2> QED
    BY <2>2, <2>3, <2>4 DEF SlotInv
<1>8. CASE SubmitFastRegister(i)
  <2>1. BecomesOn(sub[i].slot, "FAST_REGISTER", "posted")
    BY <1>8, PostEffect, Typed DEF SubmitFastRegister, OneUser, OneUserOf, Ops,
       SubSlotPcs
  <2>2. ASSUME NEW t \in Slots PROVE SlotOf(t)'
    <3>inv. /\ OneUserOf(t) /\ BitsOf(t) /\ ParentOf(t)
            /\ connected => BufferOf(t)
      BY SlotFacts DEF OneUser
    <3>1. BitsOf(t)'
      BY <1>8, <1>inv, <2>1, <3>inv, Typed DEF SubmitFastRegister, SubGoto,
         FastRegisterDataMR, OrState, SetState, BecomesOn, OneUserOf, BitsOf,
         EarlyBits, SubSlotPcs
    <3>2. ParentOf(t)'
      BY <1>8, <2>1, <3>inv, Typed DEF SubmitFastRegister, SubGoto,
         FastRegisterDataMR, OrState, SetState, ParentOf
    <3>3. (connected => BufferOf(t))'
      BY <1>8, <2>1, <3>inv, Typed DEF SubmitFastRegister, SubGoto,
         FastRegisterDataMR, OrState, SetState, BecomesOn, BufferOf
    <3> QED
      BY <3>1, <3>2, <3>3 DEF SlotOf
  <2>3. ConnectionInv'
    BY <1>8, <1>inv DEF SubmitFastRegister, SubGoto, FastRegisterDataMR,
       OrState, SetState, ConnectionInv
  <2>4. TableInv'
    BY <1>8, <2>1, Typed DEF SubmitFastRegister, SubGoto, FastRegisterDataMR,
       OrState, SetState, SlotInv, SlotOf, TableInv
  <2> QED
    BY <2>2, <2>3, <2>4 DEF SlotInv
<1>9. CASE SubmitFastRegisterFails(i)
  <2>1. KeepsQueues
    BY <1>9, QueuesKept, Typed DEF SubmitFastRegisterFails, PostFails
  <2>2. ASSUME NEW t \in Slots PROVE SlotOf(t)'
    <3>inv. /\ OneUserOf(t) /\ BitsOf(t) /\ ParentOf(t)
            /\ connected => BufferOf(t)
      BY SlotFacts DEF OneUser
    <3>1. BitsOf(t)'
      BY <1>9, <2>1, <3>inv, Typed, SMTT(30) DEF SubmitFastRegisterFails, SubGoto,
         FastRegisterDataMR, OrState, SetState, KeepsQueues, BitsOf, EarlyBits
    <3>2. ParentOf(t)'
      BY <1>9, <2>1, <3>inv, Typed DEF SubmitFastRegisterFails, SubGoto,
         FastRegisterDataMR, OrState, SetState, ParentOf
    <3>3. (connected => BufferOf(t))'
      BY <1>9, <2>1, <3>inv, Typed DEF SubmitFastRegisterFails, SubGoto,
         FastRegisterDataMR, OrState, SetState, KeepsQueues, BufferOf
    <3> QED
      BY <3>1, <3>2, <3>3 DEF SlotOf
  <2>3. ConnectionInv'
    BY <1>9, <1>inv DEF SubmitFastRegisterFails, SubGoto, FastRegisterDataMR,
       OrState, SetState, ConnectionInv
  <2>4. TableInv'
    BY <1>9, <2>1, Typed DEF SubmitFastRegisterFails, SubGoto,
       FastRegisterDataMR, OrState, SetState, SlotInv, SlotOf, TableInv
  <2> QED
    BY <2>2, <2>3, <2>4 DEF SlotInv
<1>10. CASE CountFastRegister(i)
  <2>1. KeepsQueues
    BY <1>10, QueuesKept, Typed DEF CountFastRegister
  <2>2. ASSUME NEW t \in Slots PROVE SlotOf(t)'
    <3>inv. /\ OneUserOf(t) /\ BitsOf(t) /\ ParentOf(t)
            /\ connected => BufferOf(t)
      BY SlotFacts DEF OneUser
    <3>1. BitsOf(t)'
      BY <1>10, <2>1, <3>inv, Typed DEF CountFastRegister, SubGoto,
         KeepsQueues, BitsOf
    <3>2. ParentOf(t)'
      BY <1>10, <2>1, <3>inv, Typed DEF CountFastRegister, SubGoto, ParentOf
    <3>3. (connected => BufferOf(t))'
      BY <1>10, <2>1, <3>inv, Typed DEF CountFastRegister, SubGoto,
         KeepsQueues, BufferOf
    <3> QED
      BY <3>1, <3>2, <3>3 DEF SlotOf
  <2>3. ConnectionInv'
    BY <1>10, <1>inv DEF CountFastRegister, SubGoto, ConnectionInv
  <2>4. TableInv'
    BY <1>10, <2>1, Typed DEF CountFastRegister, SubGoto, SlotInv, SlotOf,
       TableInv
  <2> QED
    BY <2>2, <2>3, <2>4 DEF SlotInv
<1> QED
  BY <1>1, <1>2, <1>3, <1>4, <1>5, <1>6, <1>7, <1>8, <1>9, <1>10 DEF Submitter

(* The callback of a pending LAM (5252-5269).                              *)
LEMMA SlotLam ==
  ASSUME TypeOK, OneUser, SlotInv, NEW i \in Ios, LamCallback(i)
  PROVE  SlotInv'
<1>inv. ConnectionInv /\ TableInv
  BY DEF SlotInv
<1>1. CASE BuildDataLamCompletion(i)
  <2>1. /\ LamGoto(i, "registered", NoSlot) \/ LamGoto(i, "idle", NoSlot)
        /\ \/ /\ FastRegisterDataMR(lam[i].slot)
              /\ BecomesOn(lam[i].slot, "FAST_REGISTER", "posted")
           \/ FastRegisterDataMR(lam[i].slot) /\ KeepsQueues
           \/ UNCHANGED lReqState /\ KeepsQueues
    BY <1>1, PostEffect, QueuesKept, Typed DEF BuildDataLamCompletion, OneUser,
       OneUserOf, Ops, PostFails
  <2>2. ASSUME NEW t \in Slots PROVE SlotOf(t)'
    <3>inv. /\ OneUserOf(t) /\ BitsOf(t) /\ ParentOf(t)
            /\ connected => BufferOf(t)
      BY SlotFacts DEF OneUser
    <3>1. BitsOf(t)'
      <4>1. UNCHANGED <<sub, scq>> /\ LamHolds(i, lam[i].slot)
        BY <1>1 DEF BuildDataLamCompletion
      <4>2. \A j \in Ios : LamHolds(j, t)' => LamHolds(j, t)
        BY <2>1, Typed DEF LamGoto
      <4>3. CASE t # lam[i].slot
        <5>1. lReqState'[t] = lReqState[t]
          BY <2>1, <4>3, Typed DEF FastRegisterDataMR, OrState, SetState
        <5> QED
          BY <3>inv, <2>1, <4>1, <4>2, <4>3, <5>1 DEF BecomesOn, KeepsQueues,
             BitsOf
      <4>4. CASE t = lam[i].slot
        <5>1. lReqState[t] \subseteq EarlyBits /\ PostedOp[t] = "none" /\ ~ScqHolds(t)
          BY <3>inv, <4>1, <4>4 DEF BitsOf, OneUserOf
        <5>2. lReqState'[t] \subseteq EarlyBits
          BY <2>1, <4>4, <5>1, Typed DEF FastRegisterDataMR, OrState, SetState,
             EarlyBits
        <5>3. PostedOp'[t] \in {"FAST_REGISTER", "none"}
          BY <2>1, <4>4, <5>1 DEF BecomesOn, KeepsQueues
        <5>4. ~ScqAt({"send", "sent", "free"}, t)
          BY <3>inv, <5>1 DEF BitsOf, EarlyBits
        <5> QED
          BY <4>1, <5>2, <5>3, <5>4 DEF BitsOf, EarlyBits
      <4> QED
        BY <4>3, <4>4
    <3>2. ParentOf(t)'
      BY <1>1, <2>1, <3>inv, Typed DEF BuildDataLamCompletion, LamGoto,
         FastRegisterDataMR, OrState, SetState, ParentOf
    <3>3. (connected => BufferOf(t))'
      <4>1. UNCHANGED <<pvBuffer, pvParentReqCtx, mr, connected, sub, scq>>
        BY <1>1 DEF BuildDataLamCompletion
      <4>2. \A j \in Ios : LamHolds(j, t)' => LamHolds(j, t)
        BY <2>1, Typed DEF LamGoto
      <4>3. CASE t # lam[i].slot
        <5>1. lReqState'[t] = lReqState[t]
          BY <2>1, <4>3, Typed DEF FastRegisterDataMR, OrState, SetState
        <5> QED
          BY <3>inv, <2>1, <4>1, <4>2, <4>3, <5>1 DEF BecomesOn, KeepsQueues,
             BufferOf
      <4>4. CASE t = lam[i].slot
        <5>1. LamHolds(i, t)
          BY <1>1, <4>4 DEF BuildDataLamCompletion
        <5>2. "SUBMITTING" \notin lReqState'[t]
          <6>1. "SUBMITTING" \notin lReqState[t]
            BY <3>inv, <5>1 DEF BitsOf, EarlyBits
          <6> QED
            BY <2>1, <4>4, <6>1, Typed DEF FastRegisterDataMR, OrState,
               SetState
        <5> QED
          BY <3>inv, <2>1, <4>1, <4>2, <4>4, <5>1, <5>2 DEF BecomesOn,
             KeepsQueues, BufferOf
      <4> QED
        BY <4>3, <4>4
    <3> QED
      BY <3>1, <3>2, <3>3 DEF SlotOf
  <2>3. ConnectionInv'
    BY <1>1, <1>inv DEF BuildDataLamCompletion, LamGoto, FastRegisterDataMR,
       OrState, SetState, ConnectionInv
  <2>4. TableInv'
    BY <1>1, <2>1, Typed DEF BuildDataLamCompletion, LamGoto,
       FastRegisterDataMR, OrState, SetState, SlotInv, SlotOf, TableInv
  <2> QED
    BY <2>2, <2>3, <2>4 DEF SlotInv
<1>2. CASE LamCountsFastRegister(i)
  <2>1. KeepsQueues
    BY <1>2, QueuesKept, Typed DEF LamCountsFastRegister
  <2>2. ASSUME NEW t \in Slots PROVE SlotOf(t)'
    <3>inv. /\ OneUserOf(t) /\ BitsOf(t) /\ ParentOf(t)
            /\ connected => BufferOf(t)
      BY SlotFacts DEF OneUser
    <3>1. BitsOf(t)'
      BY <1>2, <2>1, <3>inv, Typed DEF LamCountsFastRegister, LamGoto,
         KeepsQueues, BitsOf
    <3>2. ParentOf(t)'
      BY <1>2, <2>1, <3>inv, Typed DEF LamCountsFastRegister, LamGoto, ParentOf
    <3>3. (connected => BufferOf(t))'
      BY <1>2, <2>1, <3>inv, Typed DEF LamCountsFastRegister, LamGoto,
         KeepsQueues, BufferOf
    <3> QED
      BY <3>1, <3>2, <3>3 DEF SlotOf
  <2>3. ConnectionInv'
    BY <1>2, <1>inv DEF LamCountsFastRegister, LamGoto, ConnectionInv
  <2>4. TableInv'
    BY <1>2, <2>1, Typed DEF LamCountsFastRegister, LamGoto, SlotInv, SlotOf,
       TableInv
  <2> QED
    BY <2>2, <2>3, <2>4 DEF SlotInv
<1> QED
  BY <1>1, <1>2 DEF LamCallback

(* The SCQ callback (4024-4189).                                           *)
LEMMA SlotScq ==
  ASSUME TypeOK, OneUser, SlotInv, ScqCallback
  PROVE  SlotInv'
<1>inv. ConnectionInv /\ TableInv
  BY DEF SlotInv
<1>1. ASSUME NEW s \in Slots, IoFRCompletion(s) PROVE SlotInv'
  <2>1. /\ BecomesOn(s, "none", "none")
        /\ PostedOp[s] = "FAST_REGISTER" /\ PostedSt[s] \in {"ok", "cancelled"}
        /\ Head(sendQ[s]).st = PostedSt[s]
        /\ scq.pc = "idle" /\ InUse(s)
        /\ \A i \in Ios : ~SubHolds(i, s) /\ ~LamHolds(i, s)
    BY <1>1, ReapEffect, Typed DEF IoFRCompletion
  <2>2. ASSUME NEW t \in Slots PROVE SlotOf(t)'
    <3>inv. /\ OneUserOf(t) /\ BitsOf(t) /\ ParentOf(t)
            /\ connected => BufferOf(t)
      BY SlotFacts DEF OneUser
    <3>1. BitsOf(t)'
      <4>1. lReqState[s] \subseteq EarlyBits
        BY <2>1, SlotFacts DEF BitsOf
      <4>2. CASE t # s
        BY <1>1, <3>inv, <2>1, <4>2, Typed DEF IoFRCompletion, ScqGoto,
           OrState, SetState, BecomesOn, BitsOf
      <4>3. CASE t = s /\ Head(sendQ[s]).st = "cancelled"
        BY <1>1, <3>inv, <2>1, <4>3, Typed DEF IoFRCompletion, BecomesOn,
           BitsOf
      <4>4. CASE t = s /\ Head(sendQ[s]).st # "cancelled"
        <5>1. lReqState'[t] = lReqState[t] \cup {"SUBMITTING"}
          BY <1>1, <4>4, Typed DEF IoFRCompletion, OrState, SetState
        <5>2. scq' = [pc |-> "send", slot |-> t]
          BY <1>1, <4>4 DEF IoFRCompletion, ScqGoto
        <5>3. ~Early(t)'
          BY <1>1, <2>1, <4>4 DEF IoFRCompletion, BecomesOn
        <5> QED
          BY <2>1, <4>1, <4>4, <5>1, <5>2, <5>3 DEF BecomesOn, BitsOf,
             EarlyBits
      <4> QED
        BY <4>2, <4>3, <4>4
    <3>2. ParentOf(t)'
      BY <1>1, <2>1, <3>inv, Typed DEF IoFRCompletion, ScqGoto, OrState,
         SetState, BecomesOn, ParentOf
    <3>3. (connected => BufferOf(t))'
      BY <1>1, <2>1, <3>inv, Typed DEF IoFRCompletion, ScqGoto, OrState,
         SetState, BecomesOn, BufferOf
    <3> QED
      BY <3>1, <3>2, <3>3 DEF SlotOf
  <2>3. ConnectionInv'
    BY <1>1, <1>inv DEF IoFRCompletion, ScqGoto, OrState, SetState,
       ConnectionInv
  <2>4. TableInv'
    <3>1. lReqState[s] \subseteq EarlyBits
      BY <2>1, SlotFacts DEF BitsOf
    <3>2. CASE Head(sendQ[s]).st = "cancelled"
      BY <1>1, <1>inv, <3>2, Typed DEF IoFRCompletion, TableInv
    <3>3. CASE Head(sendQ[s]).st # "cancelled"
      <4>1. lReqState' = [lReqState EXCEPT ![s] = @ \cup {"SUBMITTING"}]
        BY <1>1, <3>3 DEF IoFRCompletion, OrState, SetState
      <4>2. \A n \in CmdIds : \/ ppvIoReqTable'[n] = ppvIoReqTable[n]
                              \/ n = usCommandID[s] /\ ppvIoReqTable'[n] = s
        BY <1>1, <3>3, Typed DEF IoFRCompletion
      <4>3. "RESPONSE_RECEIVED" \notin lReqState[s]
        BY <3>1 DEF EarlyBits
      <4> QED
        BY <1>1, <1>inv, <4>1, <4>2, <4>3, Typed DEF IoFRCompletion, TableInv
    <3> QED
      BY <3>2, <3>3
  <2> QED
    BY <2>2, <2>3, <2>4 DEF SlotInv
<1>2. ASSUME NEW s \in Slots, IoSendCompletion(s) PROVE SlotInv'
  <2>1. /\ BecomesOn(s, "none", "none")
        /\ PostedOp[s] = "SEND" /\ PostedSt[s] \in {"ok", "cancelled"}
        /\ Head(sendQ[s]).st = PostedSt[s]
        /\ scq.pc = "idle" /\ InUse(s)
        /\ \A i \in Ios : ~SubHolds(i, s) /\ ~LamHolds(i, s)
    BY <1>2, ReapEffect, Typed DEF IoSendCompletion
  <2>2. ASSUME NEW t \in Slots PROVE SlotOf(t)'
    <3>inv. /\ OneUserOf(t) /\ BitsOf(t) /\ ParentOf(t)
            /\ connected => BufferOf(t)
      BY SlotFacts DEF OneUser
    <3>1. BitsOf(t)'
      BY <1>2, <2>1, <3>inv, Typed DEF IoSendCompletion, ScqGoto, OrState,
         SetState, BecomesOn, BitsOf, FreedBits
    <3>2. ParentOf(t)'
      BY <1>2, <2>1, <3>inv, Typed DEF IoSendCompletion, ScqGoto, OrState,
         SetState, ParentOf
    <3>3. (connected => BufferOf(t))'
      BY <1>2, <2>1, <3>inv, Typed DEF IoSendCompletion, ScqGoto, OrState,
         SetState, BecomesOn, BufferOf
    <3> QED
      BY <3>1, <3>2, <3>3 DEF SlotOf
  <2>3. ConnectionInv'
    BY <1>2, <1>inv DEF IoSendCompletion, ScqGoto, OrState, SetState,
       ConnectionInv
  <2>4. TableInv'
    BY <1>2, <2>1, Typed DEF IoSendCompletion, ScqGoto, OrState, SetState,
       SlotInv, SlotOf, TableInv
  <2> QED
    BY <2>2, <2>3, <2>4 DEF SlotInv
<1>3. ASSUME NEW s \in Slots, IoCompletion(s) PROVE SlotInv'
  <2>1. /\ BecomesOn(s, "none", "none")
        /\ PostedOp[s] = "INVALIDATE" /\ PostedSt[s] \in {"ok", "cancelled"}
        /\ Head(sendQ[s]).st = PostedSt[s]
        /\ scq.pc = "idle" /\ InUse(s)
        /\ \A i \in Ios : ~SubHolds(i, s) /\ ~LamHolds(i, s)
    BY <1>3, ReapEffect, Typed DEF IoCompletion
  <2>2. ASSUME NEW t \in Slots PROVE SlotOf(t)'
    <3>inv. /\ OneUserOf(t) /\ BitsOf(t) /\ ParentOf(t)
            /\ connected => BufferOf(t)
      BY SlotFacts DEF OneUser
    <3>1. BitsOf(t)'
      BY <1>3, <2>1, <3>inv, Typed DEF IoCompletion, ScqGoto, BecomesOn, BitsOf
    <3>2. ParentOf(t)'
      BY <1>3, <2>1, <3>inv, Typed DEF IoCompletion, ScqGoto, ParentOf
    <3>3. (connected => BufferOf(t))'
      BY <1>3, <2>1, <3>inv, Typed DEF IoCompletion, ScqGoto, BecomesOn,
         BufferOf
    <3> QED
      BY <3>1, <3>2, <3>3 DEF SlotOf
  <2>3. ConnectionInv'
    BY <1>3, <1>inv DEF IoCompletion, ScqGoto, ConnectionInv
  <2>4. TableInv'
    BY <1>3, <2>1, Typed DEF IoCompletion, ScqGoto, SlotInv, SlotOf, TableInv
  <2> QED
    BY <2>2, <2>3, <2>4 DEF SlotInv
<1>4. CASE SubmitSend
  <2>1. BecomesOn(scq.slot, "SEND", "posted")
    BY <1>4, PostEffect, Typed DEF SubmitSend, OneUser, OneUserOf, Ops
  <2>2. ASSUME NEW t \in Slots PROVE SlotOf(t)'
    <3>inv. /\ OneUserOf(t) /\ BitsOf(t) /\ ParentOf(t)
            /\ connected => BufferOf(t)
      BY SlotFacts DEF OneUser
    <3>1. BitsOf(t)'
      BY <1>4, <2>1, <3>inv, Typed DEF SubmitSend, ScqGoto, BecomesOn, BitsOf
    <3>2. ParentOf(t)'
      BY <1>4, <2>1, <3>inv, Typed DEF SubmitSend, ScqGoto, ParentOf
    <3>3. (connected => BufferOf(t))'
      BY <1>4, <2>1, <3>inv, Typed DEF SubmitSend, ScqGoto, BecomesOn, BufferOf
    <3> QED
      BY <3>1, <3>2, <3>3 DEF SlotOf
  <2>3. ConnectionInv'
    BY <1>4, <1>inv DEF SubmitSend, ScqGoto, ConnectionInv
  <2>4. TableInv'
    BY <1>4, <2>1, Typed DEF SubmitSend, ScqGoto, SlotInv, SlotOf, TableInv
  <2> QED
    BY <2>2, <2>3, <2>4 DEF SlotInv
<1>5. CASE SubmitSendFails
  <2>1. /\ lReqState' = [lReqState EXCEPT ![scq.slot] = {"FREEING"}]
        /\ BecomesOn(scq.slot, "INVALIDATE", "posted") \/ KeepsQueues
    BY <1>5, InvalidateEffect, Typed DEF SubmitSendFails, OneUser, OneUserOf
  <2>2. ASSUME NEW t \in Slots PROVE SlotOf(t)'
    <3>inv. /\ OneUserOf(t) /\ BitsOf(t) /\ ParentOf(t)
            /\ connected => BufferOf(t)
      BY SlotFacts DEF OneUser
    <3>1. BitsOf(t)'
      BY <1>5, <2>1, <3>inv, Typed DEF SubmitSendFails, ScqGoto, BecomesOn,
         KeepsQueues, OneUserOf, BitsOf, FreedBits
    <3>2. ParentOf(t)'
      BY <1>5, <2>1, <3>inv, Typed DEF SubmitSendFails, ScqGoto, ParentOf
    <3>3. (connected => BufferOf(t))'
      BY <1>5, <2>1, <3>inv, Typed DEF SubmitSendFails, ScqGoto, BecomesOn,
         KeepsQueues, BufferOf
    <3> QED
      BY <3>1, <3>2, <3>3 DEF SlotOf
  <2>3. ConnectionInv'
    BY <1>5, <1>inv DEF SubmitSendFails, ScqGoto, ConnectionInv
  <2>4. TableInv'
    BY <1>5, <2>1, Typed, NoneAssumption DEF SubmitSendFails, ScqGoto, SlotInv,
       SlotOf, TableInv
  <2> QED
    BY <2>2, <2>3, <2>4 DEF SlotInv
<1>6. CASE CountSend
  <2>1. KeepsQueues
    BY <1>6, QueuesKept, Typed DEF CountSend
  <2>2. ASSUME NEW t \in Slots PROVE SlotOf(t)'
    <3>inv. /\ OneUserOf(t) /\ BitsOf(t) /\ ParentOf(t)
            /\ connected => BufferOf(t)
      BY SlotFacts DEF OneUser
    <3>1. BitsOf(t)'
      BY <1>6, <2>1, <3>inv, Typed DEF CountSend, ScqGoto, OrState, SetState,
         KeepsQueues, BitsOf, EarlyBits, FreedBits
    <3>2. ParentOf(t)'
      BY <1>6, <2>1, <3>inv, Typed DEF CountSend, ScqGoto, OrState, SetState,
         ParentOf
    <3>3. (connected => BufferOf(t))'
      BY <1>6, <2>1, <3>inv, Typed DEF CountSend, ScqGoto, OrState, SetState,
         KeepsQueues, BufferOf
    <3> QED
      BY <3>1, <3>2, <3>3 DEF SlotOf
  <2>3. ConnectionInv'
    BY <1>6, <1>inv DEF CountSend, ScqGoto, OrState, SetState, ConnectionInv
  <2>4. TableInv'
    BY <1>6, <2>1, Typed DEF CountSend, ScqGoto, OrState, SetState, SlotInv,
       SlotOf, TableInv
  <2> QED
    BY <2>2, <2>3, <2>4 DEF SlotInv
<1>7. CASE ScqJoin
  <2>1. \/ UNCHANGED lReqState /\ KeepsQueues
        \/ /\ lReqState[scq.slot] = AllStateDone
           /\ PostedOp[scq.slot] = "none" /\ ~ScqHolds(scq.slot)
           /\ \A i \in Ios : ~SubHolds(i, scq.slot) /\ ~LamHolds(i, scq.slot)
           /\ lReqState' = [lReqState EXCEPT ![scq.slot] = {"FREEING"}]
           /\ BecomesOn(scq.slot, "INVALIDATE", "posted") \/ KeepsQueues
    BY <1>7, JoinEffect, Typed DEF ScqJoin
  <2>2. ASSUME NEW t \in Slots PROVE SlotOf(t)'
    <3>inv. /\ OneUserOf(t) /\ BitsOf(t) /\ ParentOf(t)
            /\ connected => BufferOf(t)
      BY SlotFacts DEF OneUser
    <3>1. BitsOf(t)'
      BY <1>7, <2>1, <3>inv, Typed DEF ScqJoin, ScqGoto, BecomesOn,
         KeepsQueues, BitsOf, FreedBits
    <3>2. ParentOf(t)'
      BY <1>7, <1>inv, <2>1, <3>inv, Typed, NoneAssumption, ZenonT(30) DEF ScqJoin,
         ScqGoto, BecomesOn, KeepsQueues, BitsOf, OneUserOf, ParentOf,
         EarlyBits, FreedBits, AllStateDone, StateBits, SubSlotPcs, SubPcs
    <3>3. (connected => BufferOf(t))'
      BY <1>7, <1>inv, <2>1, <3>inv, Typed, NoneAssumption, ZenonT(30) DEF ScqJoin,
         ScqGoto, BecomesOn, KeepsQueues, BitsOf, ParentOf, ConnectionInv,
         OneUserOf, BufferOf, EarlyBits, FreedBits, AllStateDone, StateBits,
         SubSlotPcs, SubPcs
    <3> QED
      BY <3>1, <3>2, <3>3 DEF SlotOf
  <2>3. ConnectionInv'
    BY <1>7, <1>inv DEF ScqJoin, ScqGoto, ConnectionInv
  <2>4. TableInv'
    BY <1>7, <2>1, Typed DEF ScqJoin, ScqGoto, SlotInv, SlotOf, TableInv,
       AllStateDone, StateBits
  <2> QED
    BY <2>2, <2>3, <2>4 DEF SlotInv
<1>8. CASE FreeRequest
  <2>1. KeepsQueues
    BY <1>8, QueuesKept, Typed DEF FreeRequest
  <2>2. ASSUME NEW t \in Slots PROVE SlotOf(t)'
    <3>inv. /\ OneUserOf(t) /\ BitsOf(t) /\ ParentOf(t)
            /\ connected => BufferOf(t)
      BY SlotFacts DEF OneUser
    <3>1. BitsOf(t)'
      BY <1>8, <2>1, <3>inv, Typed DEF FreeRequest, ScqGoto, SetState,
         KeepsQueues, OneUserOf, BitsOf
    <3>2. ParentOf(t)'
      BY <1>8, <2>1, <3>inv, Typed DEF FreeRequest, ScqGoto, SetState, ParentOf
    <3>3. (connected => BufferOf(t))'
      BY <1>8, <2>1, <3>inv, Typed DEF FreeRequest, ScqGoto, SetState,
         KeepsQueues, BufferOf
    <3> QED
      BY <3>1, <3>2, <3>3 DEF SlotOf
  <2>3. ConnectionInv'
    BY <1>8, <1>inv DEF FreeRequest, ScqGoto, SetState, ConnectionInv
  <2>4. TableInv'
    BY <1>8, <2>1, Typed DEF FreeRequest, ScqGoto, SetState, SlotInv, SlotOf,
       BitsOf, TableInv, FreedBits
  <2> QED
    BY <2>2, <2>3, <2>4 DEF SlotInv
<1> QED
  BY <1>1, <1>2, <1>3, <1>4, <1>5, <1>6, <1>7, <1>8 DEF ScqCallback

(* The RCQ callback (3745-3986).                                           *)
LEMMA SlotRcq ==
  ASSUME TypeOK, OneUser, SlotInv, RcqCallback
  PROVE  SlotInv'
<1>inv. ConnectionInv /\ TableInv
  BY DEF SlotInv
<1>1. ASSUME NEW c \in rcq, ReceiveResponse(c) PROVE SlotInv'
  <2>1. KeepsQueues
    BY <1>1, QueuesKept, Typed DEF ReceiveResponse
  <2>2. ASSUME NEW t \in Slots PROVE SlotOf(t)'
    <3>inv. /\ OneUserOf(t) /\ BitsOf(t) /\ ParentOf(t)
            /\ connected => BufferOf(t)
      BY SlotFacts DEF OneUser
    <3>1. BitsOf(t)'
      <4>1. RequestOf(c.id) \in Slots /\ ppvIoReqTable[c.id] = RequestOf(c.id)
        BY <1>1 DEF ReceiveResponse, RequestOf
      <4>2. "SUBMITTING" \in lReqState[RequestOf(c.id)]
        BY <1>1, <1>inv, <4>1 DEF TableInv, TypeOK, Response
      <4>3. ~Early(RequestOf(c.id)) /\ "FREEING" \notin lReqState[RequestOf(c.id)]
        BY <4>1, <4>2, SlotFacts DEF BitsOf, EarlyBits, FreedBits
      <4>4. lReqState' = [lReqState EXCEPT ![RequestOf(c.id)] =
                            @ \cup {"RESPONSE_RECEIVED"}]
        BY <1>1 DEF ReceiveResponse, OrState, SetState
      <4> QED
        BY <1>1, <3>inv, <2>1, <4>1, <4>2, <4>3, <4>4, Typed
           DEF ReceiveResponse, KeepsQueues, BitsOf
    <3>2. ParentOf(t)'
      BY <1>1, <2>1, <3>inv, Typed DEF ReceiveResponse, RcqReap, TakeOut,
         RcqGoto, OrState, SetState, RequestOf, ParentOf
    <3>3. (connected => BufferOf(t))'
      BY <1>1, <2>1, <3>inv, Typed DEF ReceiveResponse, RcqReap, TakeOut,
         RcqGoto, OrState, SetState, RequestOf, KeepsQueues, BufferOf
    <3> QED
      BY <3>1, <3>2, <3>3 DEF SlotOf
  <2>3. ConnectionInv'
    BY <1>1, <1>inv DEF ReceiveResponse, RcqReap, TakeOut, RcqGoto, OrState,
       SetState, RequestOf, ConnectionInv
  <2>4. TableInv'
    BY <1>1, <2>1, Typed, NoneAssumption DEF ReceiveResponse, RcqReap, TakeOut,
       RcqGoto, OrState, SetState, RequestOf, SlotInv, SlotOf, TableInv
  <2> QED
    BY <2>2, <2>3, <2>4 DEF SlotInv
<1>2. ASSUME NEW c \in rcq, ReceiveInvalid(c) PROVE SlotInv'
  <2>1. KeepsQueues
    BY <1>2, QueuesKept, Typed DEF ReceiveInvalid
  <2>2. ASSUME NEW t \in Slots PROVE SlotOf(t)'
    <3>inv. /\ OneUserOf(t) /\ BitsOf(t) /\ ParentOf(t)
            /\ connected => BufferOf(t)
      BY SlotFacts DEF OneUser
    <3>1. BitsOf(t)'
      BY <1>2, <2>1, <3>inv, Typed DEF ReceiveInvalid, RcqReap, RcqGoto,
         KeepsQueues, BitsOf
    <3>2. ParentOf(t)'
      BY <1>2, <2>1, <3>inv, Typed DEF ReceiveInvalid, RcqReap, RcqGoto,
         ParentOf
    <3>3. (connected => BufferOf(t))'
      BY <1>2, <2>1, <3>inv, Typed DEF ReceiveInvalid, RcqReap, RcqGoto,
         KeepsQueues, BufferOf
    <3> QED
      BY <3>1, <3>2, <3>3 DEF SlotOf
  <2>3. ConnectionInv'
    BY <1>2, <1>inv DEF ReceiveInvalid, RcqReap, RcqGoto, ConnectionInv
  <2>4. TableInv'
    BY <1>2, <2>1, Typed DEF ReceiveInvalid, RcqReap, RcqGoto, SlotInv, SlotOf,
       TableInv
  <2> QED
    BY <2>2, <2>3, <2>4 DEF SlotInv
<1>3. CASE StoreResponse
  <2>1. KeepsQueues
    BY <1>3, QueuesKept, Typed DEF StoreResponse
  <2>2. ASSUME NEW t \in Slots PROVE SlotOf(t)'
    <3>inv. /\ OneUserOf(t) /\ BitsOf(t) /\ ParentOf(t)
            /\ connected => BufferOf(t)
      BY SlotFacts DEF OneUser
    <3>1. BitsOf(t)'
      BY <1>3, <2>1, <3>inv, Typed DEF StoreResponse, RcqGoto, KeepsQueues,
         BitsOf
    <3>2. ParentOf(t)'
      BY <1>3, <2>1, <3>inv, Typed DEF StoreResponse, RcqGoto, ParentOf
    <3>3. (connected => BufferOf(t))'
      BY <1>3, <2>1, <3>inv, Typed DEF StoreResponse, RcqGoto, KeepsQueues,
         BufferOf
    <3> QED
      BY <3>1, <3>2, <3>3 DEF SlotOf
  <2>3. ConnectionInv'
    BY <1>3, <1>inv DEF StoreResponse, RcqGoto, ConnectionInv
  <2>4. TableInv'
    BY <1>3, <2>1, Typed DEF StoreResponse, RcqGoto, SlotInv, SlotOf, TableInv
  <2> QED
    BY <2>2, <2>3, <2>4 DEF SlotInv
<1>4. CASE RcqJoin
  <2>1. \/ UNCHANGED lReqState /\ KeepsQueues
        \/ /\ lReqState[rcqThread.slot] = AllStateDone
           /\ PostedOp[rcqThread.slot] = "none" /\ ~ScqHolds(rcqThread.slot)
           /\ \A i \in Ios : ~SubHolds(i, rcqThread.slot) /\ ~LamHolds(i, rcqThread.slot)
           /\ lReqState' = [lReqState EXCEPT ![rcqThread.slot] = {"FREEING"}]
           /\ BecomesOn(rcqThread.slot, "INVALIDATE", "posted") \/ KeepsQueues
    BY <1>4, JoinEffect, Typed DEF RcqJoin
  <2>2. ASSUME NEW t \in Slots PROVE SlotOf(t)'
    <3>inv. /\ OneUserOf(t) /\ BitsOf(t) /\ ParentOf(t)
            /\ connected => BufferOf(t)
      BY SlotFacts DEF OneUser
    <3>1. BitsOf(t)'
      BY <1>4, <2>1, <3>inv, Typed DEF RcqJoin, RcqGoto, BecomesOn,
         KeepsQueues, BitsOf, FreedBits, AllStateDone, StateBits
    <3>2. ParentOf(t)'
      BY <1>4, <1>inv, <2>1, <3>inv, Typed, NoneAssumption, ZenonT(30) DEF RcqJoin,
         RcqGoto, BecomesOn, KeepsQueues, BitsOf, OneUserOf, ParentOf,
         EarlyBits, FreedBits, AllStateDone, StateBits, SubSlotPcs, SubPcs
    <3>3. (connected => BufferOf(t))'
      BY <1>4, <2>1, <3>inv, Typed, NoneAssumption DEF RcqJoin, RcqGoto,
         BecomesOn, KeepsQueues, ConnectionInv, BufferOf, FreedBits,
         AllStateDone, StateBits, SubSlotPcs, SubPcs
    <3> QED
      BY <3>1, <3>2, <3>3 DEF SlotOf
  <2>3. ConnectionInv'
    BY <1>4, <1>inv DEF RcqJoin, RcqGoto, ConnectionInv
  <2>4. TableInv'
    BY <1>4, <2>1, Typed DEF RcqJoin, RcqGoto, SlotInv, SlotOf, TableInv,
       AllStateDone, StateBits
  <2> QED
    BY <2>2, <2>3, <2>4 DEF SlotInv
<1>5. CASE ReceiveSteps
  <2>0. /\ rcqThread.pc \in ReceivePcs /\ rcqThread'.pc \in ReceivePcs
        /\ rcqThread.slot = NoSlot /\ rcqThread'.slot = NoSlot
        /\ UNCHANGED <<queueVars, sub, lam, scq, flush, sendQ, mr, target, rcq,
                       connected, os>>
    BY <1>5, ReceiveMoves
  <2>1. KeepsQueues
    BY <2>0, QueuesKept, Typed
  <2>2. ASSUME NEW t \in Slots PROVE SlotOf(t)'
    <3>inv. /\ OneUserOf(t) /\ BitsOf(t) /\ ParentOf(t)
            /\ connected => BufferOf(t)
      BY SlotFacts DEF OneUser
    <3>1. BitsOf(t)'
      BY <2>0, <2>1, <3>inv, Typed, NoneAssumption DEF ReceivePcs, KeepsQueues, BitsOf
    <3>2. ParentOf(t)'
      BY <2>0, <2>1, <3>inv, Typed, NoneAssumption DEF ReceivePcs, ParentOf
    <3>3. (connected => BufferOf(t))'
      BY <2>0, <2>1, <3>inv, Typed, NoneAssumption DEF ReceivePcs, KeepsQueues, BufferOf
    <3> QED
      BY <3>1, <3>2, <3>3 DEF SlotOf
  <2>3. ConnectionInv'
    BY <1>inv, <2>0 DEF ReceivePcs, ConnectionInv
  <2>4. TableInv'
    BY <2>0, <2>1, Typed, NoneAssumption DEF ReceivePcs, SlotInv, SlotOf, TableInv
  <2> QED
    BY <2>2, <2>3, <2>4 DEF SlotInv
<1> QED
  BY <1>1, <1>2, <1>3, <1>4, <1>5 DEF RcqCallback, ReceiveSteps

(* The adapter.                                                            *)
LEMMA SlotAdapter ==
  ASSUME TypeOK, OneUser, SlotInv, NEW s \in Slots, Adapter(s)
  PROVE  SlotInv'
<1>inv. ConnectionInv /\ TableInv
  BY DEF SlotInv
<1>1. CASE AdapterExecutes(s)
  <2>1. /\ BecomesOn(s, PostedOp[s], "ok")
        /\ PostedOp[s] = Head(sendQ[s]).op /\ PostedOp[s] \in Ops
        /\ PostedSt[s] = "posted"
    BY <1>1, RetireEffect, Typed DEF AdapterExecutes
  <2>2. ASSUME NEW t \in Slots PROVE SlotOf(t)'
    <3>inv. /\ OneUserOf(t) /\ BitsOf(t) /\ ParentOf(t)
            /\ connected => BufferOf(t)
      BY SlotFacts DEF OneUser
    <3>1. BitsOf(t)'
      BY <1>1, <2>1, <3>inv, Typed DEF AdapterExecutes, BecomesOn, BitsOf
    <3>2. ParentOf(t)'
      BY <1>1, <2>1, <3>inv, Typed DEF AdapterExecutes, ParentOf
    <3>3. (connected => BufferOf(t))'
      <4>1. CASE t # s
        BY <1>1, <3>inv, <2>1, <4>1, Typed DEF AdapterExecutes, BecomesOn,
           BufferOf
      <4>2. CASE t = s /\ PostedOp[s] = "FAST_REGISTER"
        <5>1. mr'[t] = pvBuffer[t]
          BY <1>1, <2>1, <4>2, Typed DEF AdapterExecutes
        <5>2. lReqState[t] # {} /\ "SUBMITTING" \notin lReqState[t] /\ ~ScqHolds(t)
              /\ \A i \in Ios : ~SubHolds(i, t) /\ ~LamHolds(i, t)
          BY <3>inv, <4>2 DEF OneUserOf, BitsOf, EarlyBits
        <5> QED
          BY <1>1, <3>inv, <2>1, <4>2, <5>1, <5>2 DEF AdapterExecutes,
             BecomesOn, BufferOf
      <4>3. CASE t = s /\ PostedOp[s] = "SEND"
        <5>1. mr'[t] = mr[t]
          BY <1>1, <2>1, <4>3, Typed DEF AdapterExecutes
        <5> QED
          BY <1>1, <3>inv, <2>1, <4>3, <5>1 DEF AdapterExecutes, BecomesOn,
             BufferOf
      <4>4. CASE t = s /\ PostedOp[s] = "INVALIDATE"
        <5>1. mr'[t] = NoIo
          BY <1>1, <2>1, <4>4, Typed DEF AdapterExecutes
        <5>2. "SUBMITTING" \notin lReqState[t]
          BY <3>inv, <4>4 DEF BitsOf, FreedBits
        <5> QED
          BY <1>1, <3>inv, <2>1, <4>4, <5>1, <5>2 DEF AdapterExecutes,
             BecomesOn, BufferOf
      <4> QED
        BY <2>1, <4>1, <4>2, <4>3, <4>4 DEF Ops
    <3> QED
      BY <3>1, <3>2, <3>3 DEF SlotOf
  <2>3. ConnectionInv'
    BY <1>1, <1>inv DEF AdapterExecutes, ConnectionInv
  <2>4. TableInv'
    BY <1>1, <2>1, Typed DEF AdapterExecutes, SlotInv, SlotOf, TableInv
  <2> QED
    BY <2>2, <2>3, <2>4 DEF SlotInv
<1>2. CASE AdapterCancels(s)
  <2>1. /\ BecomesOn(s, PostedOp[s], "cancelled")
        /\ PostedOp[s] = Head(sendQ[s]).op /\ PostedOp[s] \in Ops
        /\ PostedSt[s] = "posted"
    BY <1>2, RetireEffect, Typed DEF AdapterCancels
  <2>2. ASSUME NEW t \in Slots PROVE SlotOf(t)'
    <3>inv. /\ OneUserOf(t) /\ BitsOf(t) /\ ParentOf(t)
            /\ connected => BufferOf(t)
      BY SlotFacts DEF OneUser
    <3>1. BitsOf(t)'
      BY <1>2, <2>1, <3>inv, Typed DEF AdapterCancels, BecomesOn, BitsOf
    <3>2. ParentOf(t)'
      BY <1>2, <2>1, <3>inv, Typed DEF AdapterCancels, ParentOf
    <3>3. (connected => BufferOf(t))'
      BY <1>2, <2>1, Typed DEF AdapterCancels, BufferOf
    <3> QED
      BY <3>1, <3>2, <3>3 DEF SlotOf
  <2>3. ConnectionInv'
    BY <1>2, <1>inv DEF AdapterCancels, ConnectionInv
  <2>4. TableInv'
    BY <1>2, <2>1, Typed DEF AdapterCancels, SlotInv, SlotOf, TableInv
  <2> QED
    BY <2>2, <2>3, <2>4 DEF SlotInv
<1> QED
  BY <1>1, <1>2 DEF Adapter

(* The target, the connection and the flush (4272-4318).                   *)
LEMMA SlotRest ==
  ASSUME TypeOK, OneUser, SlotInv, Flush \/ (\E c \in target : TargetAnswers(c))
         \/ ConnectionLost \/ IOQPDisconnect
  PROVE  SlotInv'
<1>inv. ConnectionInv /\ TableInv
  BY DEF SlotInv
<1>1. ASSUME NEW c \in target, TargetAnswers(c) PROVE SlotInv'
  <2>1. KeepsQueues
    BY <1>1, QueuesKept, Typed DEF TargetAnswers
  <2>2. ASSUME NEW t \in Slots PROVE SlotOf(t)'
    <3>inv. /\ OneUserOf(t) /\ BitsOf(t) /\ ParentOf(t)
            /\ connected => BufferOf(t)
      BY SlotFacts DEF OneUser
    <3>1. BitsOf(t)'
      BY <1>1, <2>1, <3>inv, Typed DEF TargetAnswers, KeepsQueues, BitsOf
    <3>2. ParentOf(t)'
      BY <1>1, <2>1, <3>inv, Typed DEF TargetAnswers, ParentOf
    <3>3. (connected => BufferOf(t))'
      BY <1>1, <2>1, <3>inv, Typed DEF TargetAnswers, KeepsQueues, BufferOf
    <3> QED
      BY <3>1, <3>2, <3>3 DEF SlotOf
  <2>3. ConnectionInv'
    BY <1>1, <1>inv DEF TargetAnswers, ConnectionInv
  <2>4. TableInv'
    BY <1>1, <2>1, Typed DEF TargetAnswers, SlotInv, SlotOf, TableInv
  <2> QED
    BY <2>2, <2>3, <2>4 DEF SlotInv
<1>2. CASE ConnectionLost
  <2>1. KeepsQueues
    BY <1>2, QueuesKept, Typed DEF ConnectionLost
  <2>2. ASSUME NEW t \in Slots PROVE SlotOf(t)'
    <3>inv. /\ OneUserOf(t) /\ BitsOf(t) /\ ParentOf(t)
            /\ connected => BufferOf(t)
      BY SlotFacts DEF OneUser
    <3>1. BitsOf(t)'
      BY <1>2, <2>1, <3>inv, Typed DEF ConnectionLost, KeepsQueues, BitsOf
    <3>2. ParentOf(t)'
      BY <1>2, <2>1, <3>inv, Typed DEF ConnectionLost, ParentOf
    <3>3. (connected => BufferOf(t))'
      BY <1>2, <2>1, Typed DEF ConnectionLost, BufferOf
    <3> QED
      BY <3>1, <3>2, <3>3 DEF SlotOf
  <2>3. ConnectionInv'
    BY <1>2 DEF ConnectionLost, ConnectionInv
  <2>4. TableInv'
    BY <1>2, <2>1, Typed DEF ConnectionLost, SlotInv, SlotOf, TableInv
  <2> QED
    BY <2>2, <2>3, <2>4 DEF SlotInv
<1>3. CASE IOQPDisconnect
  <2>1. KeepsQueues
    BY <1>3, QueuesKept, Typed DEF IOQPDisconnect
  <2>2. ASSUME NEW t \in Slots PROVE SlotOf(t)'
    <3>inv. /\ OneUserOf(t) /\ BitsOf(t) /\ ParentOf(t)
            /\ connected => BufferOf(t)
      BY SlotFacts DEF OneUser
    <3>1. BitsOf(t)'
      BY <1>3, <2>1, <3>inv, Typed DEF IOQPDisconnect, KeepsQueues, BitsOf
    <3>2. ParentOf(t)'
      BY <1>3, <2>1, <3>inv, Typed DEF IOQPDisconnect, ParentOf
    <3>3. (connected => BufferOf(t))'
      BY <1>3, <2>1, Typed DEF IOQPDisconnect, BufferOf
    <3> QED
      BY <3>1, <3>2, <3>3 DEF SlotOf
  <2>3. ConnectionInv'
    BY <1>3, <1>inv DEF IOQPDisconnect, ConnectionInv
  <2>4. TableInv'
    BY <1>3, <2>1, Typed DEF IOQPDisconnect, SlotInv, SlotOf, TableInv
  <2> QED
    BY <2>2, <2>3, <2>4 DEF SlotInv
<1>4. ASSUME NEW s \in Slots, FlushTests(s) PROVE SlotInv'
  <2>1. KeepsQueues
    BY <1>4, QueuesKept, Typed DEF FlushTests
  <2>2. ASSUME NEW t \in Slots PROVE SlotOf(t)'
    <3>inv. /\ OneUserOf(t) /\ BitsOf(t) /\ ParentOf(t)
            /\ connected => BufferOf(t)
      BY SlotFacts DEF OneUser
    <3>1. BitsOf(t)'
      BY <1>4, <2>1, <3>inv, Typed DEF FlushTests, KeepsQueues, BitsOf
    <3>2. ParentOf(t)'
      BY <1>4, <2>1, <3>inv, Typed DEF FlushTests, ParentOf
    <3>3. (connected => BufferOf(t))'
      BY <1>4, <2>1, <3>inv, Typed DEF FlushTests, KeepsQueues, BufferOf
    <3> QED
      BY <3>1, <3>2, <3>3 DEF SlotOf
  <2>3. ConnectionInv'
    BY <1>4, <1>inv DEF FlushTests, ConnectionInv
  <2>4. TableInv'
    BY <1>4, <2>1, Typed DEF FlushTests, SlotInv, SlotOf, TableInv
  <2> QED
    BY <2>2, <2>3, <2>4 DEF SlotInv
<1>5. CASE FlushTakes
  <2>1. KeepsQueues
    BY <1>5, QueuesKept, Typed DEF FlushTakes
  <2>2. ASSUME NEW t \in Slots PROVE SlotOf(t)'
    <3>inv. /\ OneUserOf(t) /\ BitsOf(t) /\ ParentOf(t)
            /\ connected => BufferOf(t)
      BY SlotFacts DEF OneUser
    <3>1. BitsOf(t)'
      BY <1>5, <2>1, <3>inv, Typed DEF FlushTakes, ParentTaken, KeepsQueues,
         BitsOf
    <3>2. ParentOf(t)'
      BY <1>5, <2>1, <3>inv, Typed DEF FlushTakes, ParentTaken, ParentOf
    <3>3. (connected => BufferOf(t))'
      BY <1>5, <1>inv, <2>1, Typed DEF FlushTakes, ParentTaken, ConnectionInv,
         BufferOf
    <3> QED
      BY <3>1, <3>2, <3>3 DEF SlotOf
  <2>3. ConnectionInv'
    BY <1>5, <1>inv DEF FlushTakes, ParentTaken, ConnectionInv
  <2>4. TableInv'
    BY <1>5, <2>1, Typed DEF FlushTakes, ParentTaken, SlotInv, SlotOf, TableInv
  <2> QED
    BY <2>2, <2>3, <2>4 DEF SlotInv
<1> QED
  BY <1>1, <1>2, <1>3, <1>4, <1>5 DEF Flush

(* Every step of the queue keeps SlotInv.                                   *)
LEMMA SlotStep == TypeOK /\ OneUser /\ SlotInv /\ [Next]_vars => SlotInv'
<1> SUFFICES ASSUME TypeOK, OneUser, SlotInv, [Next]_vars PROVE SlotInv'
  OBVIOUS
<1>1. CASE Finished \/ UNCHANGED vars
  <2>1. UNCHANGED vars /\ KeepsQueues
    BY <1>1, QueuesKept DEF Finished, vars
  <2> QED
    BY <2>1 DEF vars, KeepsQueues, SlotInv, SlotOf, BitsOf, ParentOf, BufferOf,
       ConnectionInv, TableInv
<1>2. CASE Next /\ ~Finished
  BY <1>2, SlotSubmitter, SlotLam, SlotScq, SlotRcq, SlotAdapter, SlotRest
     DEF Next
<1> QED
  BY <1>1, <1>2

(* In the beginning every slot is free and nothing is under way.            *)
LEMMA SlotInit == Init => SlotInv
<1> SUFFICES ASSUME Init PROVE SlotInv
  OBVIOUS
<1>1. \A s \in Slots : PostedOp[s] = "none" /\ PostedSt[s] = "none"
  BY DEF Init, PostedOp, PostedSt, OpOf, StOf
<1>2. \A s \in Slots : BitsOf(s) /\ ParentOf(s) /\ BufferOf(s)
  BY <1>1 DEF Init, BitsOf, ParentOf, BufferOf
<1> QED
  BY <1>2, NoneAssumption DEF Init, SlotInv, SlotOf, ConnectionInv, TableInv

(* What holds of a queue at every moment, whatever fails.                   *)
LEMMA SlotCorrect == Spec => [](TypeOK /\ OneUser /\ OnceInv /\ SlotInv)
<1>1. Init => OneUser
  BY DEF Init, OneUser, OneUserOf, PostedOp, OpOf
<1>2. Init => OnceInv
  BY NoneAssumption DEF Init, OnceInv, NotYetIn
<1> QED
  BY <1>1, <1>2, SlotInit, SlotStep, OneUserStep, OnceStep, TypeCorrect, PTL
     DEF Spec

(* No buffer stays open to the network once its I/O is back with the OS,    *)
(* whatever fails: the registration of a slot is that of the I/O in it, and *)
(* an I/O leaves its slot after the invalidation (4075-4099) or, on a lost  *)
(* connection, by the flush (4272-4318).                                    *)
THEOREM NotExposedAfterCompletionCorrect == Spec => []NotExposedAfterCompletion
<1>1. TypeOK /\ OnceInv /\ SlotInv => NotExposedAfterCompletion
  <2> SUFFICES ASSUME TypeOK, OnceInv, SlotInv, connected,
                      NEW s \in Slots, mr[s] # NoIo
               PROVE  os[mr[s]].done = 0
    BY DEF NotExposedAfterCompletion
  <2>1. mr[s] = pvParentReqCtx[s] /\ pvParentReqCtx[s] \in Ios
    BY SlotFacts, Typed DEF BufferOf
  <2> QED
    BY <2>1 DEF OnceInv
<1> QED
  BY <1>1, SlotCorrect, PTL

-----------------------------------------------------------------------------
(* Why a command and its answer find each other: no two slots in use have   *)
(* the same identifier.                                                     *)
IdInv == WireInv /\ NumberInv

(* No I/O is given an identifier another one was given before (4465): the   *)
(* counter does not come round.                                             *)
EachIdOnce == IsFiniteSet(Ios) /\ Cardinality(Ios) <= NumIds

(* The 16 bits of the identifier keep a count that fits them.               *)
LEMMA SmallModulus ==
  ASSUME NEW n \in Nat, NEW m \in Nat, n < m
  PROVE  n % m = n
<1> DEFINE q == n \div m
           r == n % m
<1>1. q \in Int /\ r \in Int /\ n = m * q + r /\ 0 <= r /\ r < m
  OBVIOUS
<1> HIDE DEF q, r
<1>2. q >= 1 => m * q >= m
  BY <1>1
<1>3. q <= -1 => m * q <= -m
  BY <1>1
<1>4. q = 0
  BY <1>1, <1>2, <1>3
<1> QED
  BY <1>1, <1>4 DEF r

(* A command or an answer belongs to a slot whose SEND was submitted.       *)
LEMMA WireSlots ==
  ASSUME TypeOK, SlotInv, WireInv
  PROVE  /\ \A c \in target : /\ c.id \in CmdIds /\ c.slot \in Slots
                              /\ usCommandID[c.slot] = c.id
                              /\ "SUBMITTING" \in lReqState[c.slot]
                              /\ "RESPONSE_RECEIVED" \notin lReqState[c.slot]
         /\ \A r \in rcq : /\ r.id \in CmdIds
                           /\ usCommandID[ppvIoReqTable[r.id]] = r.id
                           /\ "SUBMITTING" \in lReqState[ppvIoReqTable[r.id]]
  BY DEF TypeOK, Command, Response, SlotInv, TableInv, WireInv

(* A step that sends, answers and numbers nothing leaves the wire in order, *)
(* as long as it changes no buffer under a command.                         *)
LEMMA WireKept ==
  ASSUME TypeOK, SlotInv, WireInv,
         UNCHANGED <<target, rcq, ppvIoReqTable, usCommandID>>,
         \A s \in Slots : Unsent(s)' => Unsent(s),
         \A s \in Slots : "SUBMITTING" \in lReqState[s] => pvBuffer'[s] = pvBuffer[s]
  PROVE  WireInv'
<1>1. \A c \in target : c.slot \in Slots /\ "SUBMITTING" \in lReqState[c.slot]
  BY WireSlots
<1>2. \A r \in rcq : "SUBMITTING" \in lReqState[ppvIoReqTable[r.id]]
  BY WireSlots
<1> QED
  BY <1>1, <1>2 DEF WireInv

(* Submitting threads move on; none of them goes back.                      *)
LEMMA PastGrows ==
  ASSUME EachIdOnce, \A i \in Past : i \in Past'
  PROVE  /\ Cardinality(Past) \in Nat /\ Cardinality(Past)' \in Nat
         /\ Cardinality(Past) <= Cardinality(Past)'
<1>1. Past \subseteq Past' /\ Past' \subseteq Ios
  BY DEF Past
<1>2. IsFiniteSet(Past')
  BY <1>1, FS_Subset DEF EachIdOnce
<1>3. IsFiniteSet(Past) /\ Cardinality(Past) <= Cardinality(Past')
  BY <1>1, <1>2, FS_Subset
<1>4. Cardinality(Past) \in Nat /\ Cardinality(Past') \in Nat
  BY <1>2, <1>3, FS_CardinalityType
<1> QED
  BY <1>3, <1>4

(* A step that numbers no request leaves the identifiers distinct.          *)
LEMMA NumberKept ==
  ASSUME TypeOK, NumberInv, EachIdOnce, UNCHANGED <<usCommandID, lNextCmdID>>,
         \A s \in Slots : Numbered(s)' => Numbered(s),
         \A i \in Past : i \in Past'
  PROVE  NumberInv'
<1>1. /\ Cardinality(Past) \in Nat /\ Cardinality(Past)' \in Nat
      /\ Cardinality(Past) <= Cardinality(Past)'
  BY PastGrows
<1>2. lNextCmdID' <= Cardinality(Past)'
  BY <1>1 DEF NumberInv, TypeOK
<1> QED
  BY <1>2 DEF NumberInv

(* The submitting threads (5409-5479).                                     *)
LEMMA IdSubmitter ==
  ASSUME TypeOK, OneUser, SlotInv, IdInv, EachIdOnce,
         NEW i \in Ios, Submitter(i)
  PROVE  IdInv'
<1>inv. /\ WireInv /\ NumberInv /\ TableInv
        /\ \A r \in Slots : BitsOf(r) /\ OneUserOf(r)
  BY DEF IdInv, SlotInv, SlotOf, OneUser
<1>1. CASE IOSubmitRW(i)
  <2>1. KeepsQueues
    BY <1>1, QueuesKept, Typed DEF IOSubmitRW
  <2>2. WireInv'
    <3>1. \A r \in Slots : Unsent(r)' => Unsent(r)
      BY <1>1, <2>1, Typed DEF IOSubmitRW, SubGoto, KeepsQueues, Unsent
    <3> QED
      BY <1>1, <1>inv, <3>1, WireKept DEF IOSubmitRW
  <2>3. NumberInv'
    <3>1. \A r \in Slots : Numbered(r)' => Numbered(r)
      BY <1>1, <2>1, Typed DEF IOSubmitRW, SubGoto, Numbered
    <3>2. \A j \in Past : j \in Past'
      BY <1>1, <2>1, Typed DEF IOSubmitRW, SubGoto, Past
    <3> QED
      BY <1>1, <1>inv, <3>1, <3>2, NumberKept DEF IOSubmitRW
  <2> QED
    BY <2>2, <2>3 DEF IdInv
<1>2. CASE NoFreeIORequest(i)
  <2>1. KeepsQueues
    BY <1>2, QueuesKept, Typed DEF NoFreeIORequest
  <2>2. WireInv'
    <3>1. \A r \in Slots : Unsent(r)' => Unsent(r)
      BY <1>2, <2>1, Typed DEF NoFreeIORequest, SubGoto, KeepsQueues, Unsent
    <3> QED
      BY <1>2, <1>inv, <3>1, WireKept DEF NoFreeIORequest
  <2>3. NumberInv'
    <3>1. \A r \in Slots : Numbered(r)' => Numbered(r)
      BY <1>2, <2>1, Typed DEF NoFreeIORequest, SubGoto, Numbered
    <3>2. \A j \in Past : j \in Past'
      BY <1>2, <2>1, Typed DEF NoFreeIORequest, SubGoto, Past
    <3> QED
      BY <1>2, <1>inv, <3>1, <3>2, NumberKept DEF NoFreeIORequest
  <2> QED
    BY <2>2, <2>3 DEF IdInv
<1>3. ASSUME NEW s \in Slots, GetCurrentFreeIORequest(i, s) PROVE IdInv'
  <2>1. KeepsQueues
    BY <1>3, QueuesKept, Typed DEF GetCurrentFreeIORequest
  <2>2. WireInv'
    <3>1. \A r \in Slots : Unsent(r)' => Unsent(r) /\ r # s
      BY <1>3, <1>inv, <2>1, Typed DEF GetCurrentFreeIORequest, SubGoto,
         FreeSlots, SetState, KeepsQueues, OneUserOf, Unsent
    <3>2. \A r \in Slots : r # s => usCommandID'[r] = usCommandID[r]
      BY <1>3, Typed DEF GetCurrentFreeIORequest
    <3> QED
      BY <1>3, <1>inv, <3>1, <3>2 DEF GetCurrentFreeIORequest, WireInv
  <2>3. NumberInv'
    <3>1. i \notin Past /\ i \in Past' /\ \A j \in Past : j \in Past'
      BY <1>3, Typed DEF GetCurrentFreeIORequest, SubGoto, Past
    <3>2. /\ IsFiniteSet(Past \cup {i}) /\ Cardinality(Past) \in Nat
          /\ Cardinality(Past \cup {i}) = Cardinality(Past) + 1
          /\ Cardinality(Past \cup {i}) <= Cardinality(Ios)
      <4>1. IsFiniteSet(Past) /\ IsFiniteSet(Past \cup {i})
        BY FS_Subset DEF EachIdOnce, Past
      <4> QED
        BY <3>1, <4>1, FS_AddElement, FS_CardinalityType, FS_Subset, ZenonT(30)
           DEF EachIdOnce, Past
    <3>3. /\ IsFiniteSet(Past') /\ Cardinality(Past)' \in Nat
          /\ Cardinality(Past \cup {i}) <= Cardinality(Past)'
      <4>1. Past \cup {i} \subseteq Past' /\ Past' \subseteq Ios
        BY <3>1 DEF Past
      <4> QED
        BY <4>1, FS_Subset, FS_CardinalityType DEF EachIdOnce
    <3>4. lNextCmdID < NumIds /\ lNextCmdID' <= Cardinality(Past)'
      <4>1. Cardinality(Ios) \in Nat
        BY FS_CardinalityType DEF EachIdOnce
      <4>2. lNextCmdID' = lNextCmdID + 1 /\ lNextCmdID \in Nat
        BY <1>3 DEF GetCurrentFreeIORequest, TypeOK
      <4> QED
        BY <1>inv, <3>2, <3>3, <4>1, <4>2, NumIdsAssumption DEF NumberInv,
           EachIdOnce
    <3>5. usCommandID' = [usCommandID EXCEPT ![s] = lNextCmdID]
      <4>1. lNextCmdID % NumIds = lNextCmdID
        BY <3>4, NumIdsAssumption, SmallModulus DEF TypeOK
      <4> QED
        BY <1>3, <4>1 DEF GetCurrentFreeIORequest, GetIOQUniqueCommandID
    <3>6. \A r \in Slots : r # s => (Numbered(r)' => Numbered(r))
      BY <1>3, Typed DEF GetCurrentFreeIORequest, SubGoto, SetState, Numbered
    <3>7. \A r \in Slots : usCommandID[r] \in Nat
      BY Typed, NumIdsAssumption DEF CmdIds
    <3> QED
      BY <1>3, <1>inv, <3>4, <3>5, <3>6, <3>7, Typed
         DEF GetCurrentFreeIORequest, NumberInv, TypeOK
  <2> QED
    BY <2>2, <2>3 DEF IdInv
<1>4. CASE PrepareRWRequest(i)
  <2>1. KeepsQueues
    BY <1>4, QueuesKept, Typed DEF PrepareRWRequest
  <2>2. WireInv'
    <3>1. \A r \in Slots : Unsent(r)' => Unsent(r)
      BY <1>4, <2>1, Typed DEF PrepareRWRequest, SubGoto, Prepare, OrState,
         SetState, KeepsQueues, Unsent
    <3>2. \A r \in Slots : "SUBMITTING" \in lReqState[r] => pvBuffer'[r] = pvBuffer[r]
      BY <1>4, <1>inv, <2>1, Typed DEF PrepareRWRequest, SubGoto, Prepare,
         OrState, SetState, BitsOf, EarlyBits
    <3> QED
      BY <1>4, <1>inv, <3>1, <3>2, WireKept DEF PrepareRWRequest
  <2>3. NumberInv'
    <3>1. \A r \in Slots : Numbered(r)' => Numbered(r)
      BY <1>4, <1>inv, <2>1, Typed DEF PrepareRWRequest, SubGoto, Prepare,
         OrState, SetState, OneUserOf, Numbered
    <3>2. \A j \in Past : j \in Past'
      BY <1>4, <2>1, Typed DEF PrepareRWRequest, SubGoto, Prepare, OrState,
         SetState, Past
    <3> QED
      BY <1>4, <1>inv, <3>1, <3>2, NumberKept DEF PrepareRWRequest
  <2> QED
    BY <2>2, <2>3 DEF IdInv
<1>5. CASE PrepareRWPending(i)
  <2>1. KeepsQueues
    BY <1>5, QueuesKept, Typed DEF PrepareRWPending
  <2>2. WireInv'
    <3>1. \A r \in Slots : Unsent(r)' => Unsent(r)
      BY <1>5, <2>1, Typed DEF PrepareRWPending, SubGoto, LamGoto, Prepare,
         KeepsQueues, Unsent
    <3>2. \A r \in Slots : "SUBMITTING" \in lReqState[r] => pvBuffer'[r] = pvBuffer[r]
      BY <1>5, <1>inv, <2>1, Typed DEF PrepareRWPending, SubGoto, LamGoto,
         Prepare, BitsOf, EarlyBits
    <3> QED
      BY <1>5, <1>inv, <3>1, <3>2, WireKept DEF PrepareRWPending
  <2>3. NumberInv'
    <3>1. \A r \in Slots : Numbered(r)' => Numbered(r)
      BY <1>5, <1>inv, <2>1, Typed DEF PrepareRWPending, SubGoto, LamGoto,
         Prepare, OneUserOf, Numbered
    <3>2. \A j \in Past : j \in Past'
      BY <1>5, <2>1, Typed DEF PrepareRWPending, SubGoto, LamGoto, Prepare,
         Past
    <3> QED
      BY <1>5, <1>inv, <3>1, <3>2, NumberKept DEF PrepareRWPending
  <2> QED
    BY <2>2, <2>3 DEF IdInv
<1>6. CASE PrepareRWReturnsPending(i)
  <2>1. KeepsQueues
    BY <1>6, QueuesKept, Typed DEF PrepareRWReturnsPending
  <2>2. WireInv'
    <3>1. \A r \in Slots : Unsent(r)' => Unsent(r)
      BY <1>6, <2>1, Typed DEF PrepareRWReturnsPending, SubGoto, OrState,
         SetState, KeepsQueues, Unsent
    <3> QED
      BY <1>6, <1>inv, <3>1, WireKept DEF PrepareRWReturnsPending
  <2>3. NumberInv'
    <3>1. \A r \in Slots : Numbered(r)' => Numbered(r)
      BY <1>6, <2>1, Typed DEF PrepareRWReturnsPending, SubGoto, OrState,
         SetState, Numbered
    <3>2. \A j \in Past : j \in Past'
      BY <1>6, <2>1, Typed DEF PrepareRWReturnsPending, SubGoto, OrState,
         SetState, Past
    <3> QED
      BY <1>6, <1>inv, <3>1, <3>2, NumberKept DEF PrepareRWReturnsPending
  <2> QED
    BY <2>2, <2>3 DEF IdInv
<1>7. CASE PrepareRWFails(i)
  <2>1. KeepsQueues
    BY <1>7, QueuesKept, Typed DEF PrepareRWFails
  <2>2. WireInv'
    <3>1. \A r \in Slots : Unsent(r)' => Unsent(r)
      BY <1>7, <2>1, Typed DEF PrepareRWFails, SubGoto, Prepare, KeepsQueues,
         Unsent
    <3>2. \A r \in Slots : "SUBMITTING" \in lReqState[r] => pvBuffer'[r] = pvBuffer[r]
      BY <1>7, <1>inv, <2>1, Typed DEF PrepareRWFails, SubGoto, Prepare,
         BitsOf, EarlyBits
    <3> QED
      BY <1>7, <1>inv, <3>1, <3>2, WireKept DEF PrepareRWFails
  <2>3. NumberInv'
    <3>1. \A r \in Slots : Numbered(r)' => Numbered(r)
      BY <1>7, <2>1, Typed DEF PrepareRWFails, SubGoto, Prepare, Numbered
    <3>2. \A j \in Past : j \in Past'
      BY <1>7, <2>1, Typed DEF PrepareRWFails, SubGoto, Prepare, Past
    <3> QED
      BY <1>7, <1>inv, <3>1, <3>2, NumberKept DEF PrepareRWFails
  <2> QED
    BY <2>2, <2>3 DEF IdInv
<1>8. CASE SubmitFastRegister(i)
  <2>1. BecomesOn(sub[i].slot, "FAST_REGISTER", "posted")
    BY <1>8, PostEffect, Typed DEF SubmitFastRegister, OneUser, OneUserOf, Ops,
       SubSlotPcs
  <2>2. WireInv'
    <3>1. \A r \in Slots : Unsent(r)' => Unsent(r)
      BY <1>8, <2>1, Typed DEF SubmitFastRegister, SubGoto, FastRegisterDataMR,
         OrState, SetState, BecomesOn, Unsent
    <3> QED
      BY <1>8, <1>inv, <3>1, WireKept DEF SubmitFastRegister
  <2>3. NumberInv'
    <3>1. \A r \in Slots : Numbered(r)' => Numbered(r)
      BY <1>8, <1>inv, <2>1, Typed DEF SubmitFastRegister, SubGoto,
         FastRegisterDataMR, OrState, SetState, OneUserOf, Numbered
    <3>2. \A j \in Past : j \in Past'
      BY <1>8, <2>1, Typed DEF SubmitFastRegister, SubGoto, FastRegisterDataMR,
         OrState, SetState, Past
    <3> QED
      BY <1>8, <1>inv, <3>1, <3>2, NumberKept DEF SubmitFastRegister
  <2> QED
    BY <2>2, <2>3 DEF IdInv
<1>9. CASE SubmitFastRegisterFails(i)
  <2>1. KeepsQueues
    BY <1>9, QueuesKept, Typed DEF SubmitFastRegisterFails, PostFails
  <2>2. WireInv'
    <3>1. \A r \in Slots : Unsent(r)' => Unsent(r)
      BY <1>9, <2>1, Typed DEF SubmitFastRegisterFails, SubGoto,
         FastRegisterDataMR, OrState, SetState, KeepsQueues, Unsent
    <3> QED
      BY <1>9, <1>inv, <3>1, WireKept DEF SubmitFastRegisterFails
  <2>3. NumberInv'
    <3>1. \A r \in Slots : Numbered(r)' => Numbered(r)
      BY <1>9, <1>inv, <2>1, Typed DEF SubmitFastRegisterFails, SubGoto,
         FastRegisterDataMR, OrState, SetState, OneUserOf, Numbered
    <3>2. \A j \in Past : j \in Past'
      BY <1>9, <2>1, Typed DEF SubmitFastRegisterFails, SubGoto,
         FastRegisterDataMR, OrState, SetState, Past
    <3> QED
      BY <1>9, <1>inv, <3>1, <3>2, NumberKept DEF SubmitFastRegisterFails
  <2> QED
    BY <2>2, <2>3 DEF IdInv
<1>10. CASE CountFastRegister(i)
  <2>1. KeepsQueues
    BY <1>10, QueuesKept, Typed DEF CountFastRegister
  <2>2. WireInv'
    <3>1. \A r \in Slots : Unsent(r)' => Unsent(r)
      BY <1>10, <2>1, Typed DEF CountFastRegister, SubGoto, KeepsQueues, Unsent
    <3> QED
      BY <1>10, <1>inv, <3>1, WireKept DEF CountFastRegister
  <2>3. NumberInv'
    <3>1. \A r \in Slots : Numbered(r)' => Numbered(r)
      BY <1>10, <2>1, Typed DEF CountFastRegister, SubGoto, Numbered
    <3>2. \A j \in Past : j \in Past'
      BY <1>10, <2>1, Typed DEF CountFastRegister, SubGoto, Past
    <3> QED
      BY <1>10, <1>inv, <3>1, <3>2, NumberKept DEF CountFastRegister
  <2> QED
    BY <2>2, <2>3 DEF IdInv
<1> QED
  BY <1>1, <1>2, <1>3, <1>4, <1>5, <1>6, <1>7, <1>8, <1>9, <1>10 DEF Submitter

(* The callback of a pending LAM (5252-5269).                              *)
LEMMA IdLam ==
  ASSUME TypeOK, OneUser, SlotInv, IdInv, EachIdOnce,
         NEW i \in Ios, LamCallback(i)
  PROVE  IdInv'
<1>inv. /\ WireInv /\ NumberInv /\ TableInv
        /\ \A r \in Slots : BitsOf(r) /\ OneUserOf(r)
  BY DEF IdInv, SlotInv, SlotOf, OneUser
<1>1. CASE BuildDataLamCompletion(i)
  <2>1. /\ LamGoto(i, "registered", NoSlot) \/ LamGoto(i, "idle", NoSlot)
        /\ \/ /\ FastRegisterDataMR(lam[i].slot)
              /\ BecomesOn(lam[i].slot, "FAST_REGISTER", "posted")
           \/ FastRegisterDataMR(lam[i].slot) /\ KeepsQueues
           \/ UNCHANGED lReqState /\ KeepsQueues
    BY <1>1, PostEffect, QueuesKept, Typed DEF BuildDataLamCompletion, OneUser,
       OneUserOf, Ops, PostFails
  <2>2. WireInv'
    <3>1. \A r \in Slots : Unsent(r)' => Unsent(r)
      BY <1>1, <2>1, Typed DEF BuildDataLamCompletion, LamGoto,
         FastRegisterDataMR, OrState, SetState, BecomesOn, KeepsQueues, Unsent
    <3> QED
      BY <1>1, <1>inv, <3>1, WireKept DEF BuildDataLamCompletion
  <2>3. NumberInv'
    <3>1. \A r \in Slots : Numbered(r)' => Numbered(r)
      BY <1>1, <1>inv, <2>1, Typed DEF BuildDataLamCompletion, LamGoto,
         FastRegisterDataMR, OrState, SetState, OneUserOf, Numbered
    <3>2. \A j \in Past : j \in Past'
      BY <1>1, <2>1, Typed DEF BuildDataLamCompletion, LamGoto,
         FastRegisterDataMR, OrState, SetState, Past
    <3> QED
      BY <1>1, <1>inv, <3>1, <3>2, NumberKept DEF BuildDataLamCompletion
  <2> QED
    BY <2>2, <2>3 DEF IdInv
<1>2. CASE LamCountsFastRegister(i)
  <2>1. KeepsQueues
    BY <1>2, QueuesKept, Typed DEF LamCountsFastRegister
  <2>2. WireInv'
    <3>1. \A r \in Slots : Unsent(r)' => Unsent(r)
      BY <1>2, <2>1, Typed DEF LamCountsFastRegister, LamGoto, KeepsQueues,
         Unsent
    <3> QED
      BY <1>2, <1>inv, <3>1, WireKept DEF LamCountsFastRegister
  <2>3. NumberInv'
    <3>1. \A r \in Slots : Numbered(r)' => Numbered(r)
      BY <1>2, <2>1, Typed DEF LamCountsFastRegister, LamGoto, Numbered
    <3>2. \A j \in Past : j \in Past'
      BY <1>2, <2>1, Typed DEF LamCountsFastRegister, LamGoto, Past
    <3> QED
      BY <1>2, <1>inv, <3>1, <3>2, NumberKept DEF LamCountsFastRegister
  <2> QED
    BY <2>2, <2>3 DEF IdInv
<1> QED
  BY <1>1, <1>2 DEF LamCallback

(* The SCQ callback (4024-4189).                                           *)
LEMMA IdScq ==
  ASSUME TypeOK, OneUser, SlotInv, IdInv, EachIdOnce,
         ScqCallback
  PROVE  IdInv'
<1>inv. /\ WireInv /\ NumberInv /\ TableInv
        /\ \A r \in Slots : BitsOf(r) /\ OneUserOf(r)
  BY DEF IdInv, SlotInv, SlotOf, OneUser
<1>1. ASSUME NEW s \in Slots, IoFRCompletion(s) PROVE IdInv'
  <2>1. /\ BecomesOn(s, "none", "none")
        /\ PostedOp[s] = "FAST_REGISTER" /\ PostedSt[s] \in {"ok", "cancelled"}
        /\ Head(sendQ[s]).st = PostedSt[s]
        /\ scq.pc = "idle" /\ InUse(s)
        /\ \A i \in Ios : ~SubHolds(i, s) /\ ~LamHolds(i, s)
    BY <1>1, ReapEffect, Typed DEF IoFRCompletion
  <2>2. WireInv'
    <3>1. CASE Head(sendQ[s]).st = "cancelled"
      <4>1. \A r \in Slots : Unsent(r)' => Unsent(r)
        BY <1>1, <2>1, <3>1, Typed DEF IoFRCompletion, BecomesOn, Unsent
      <4> QED
        BY <1>1, <1>inv, <3>1, <4>1, WireKept DEF IoFRCompletion
    <3>2. CASE Head(sendQ[s]).st # "cancelled"
      <4> DEFINE id == usCommandID[s]
      <4>1. /\ id \in CmdIds /\ lReqState[s] # {}
            /\ "SUBMITTING" \notin lReqState[s]
        BY <1>inv, <2>1, Typed DEF BitsOf, EarlyBits
      <4>2. ppvIoReqTable[id] = NoSlot
        <5>1. ASSUME ppvIoReqTable[id] \in Slots PROVE FALSE
          <6>1. /\ usCommandID[ppvIoReqTable[id]] = id
                /\ "SUBMITTING" \in lReqState[ppvIoReqTable[id]]
            BY <1>inv, <4>1, <5>1 DEF TableInv
          <6> QED
            BY <1>inv, <4>1, <5>1, <6>1 DEF NumberInv, Numbered
        <5> QED
          BY <4>1, <5>1, Typed
      <4>3. ppvIoReqTable' = [ppvIoReqTable EXCEPT ![id] = s]
        BY <1>1, <3>2, <4>2 DEF IoFRCompletion
      <4>4. \A r \in Slots : Unsent(r)' => Unsent(r) \/ r = s
        BY <1>1, <2>1, <3>2, Typed DEF IoFRCompletion, ScqGoto, BecomesOn,
           Unsent
      <4>5. /\ \A c \in target : c.id # id /\ c.id \in CmdIds
            /\ \A r \in rcq : r.id # id /\ r.id \in CmdIds
        BY <1>inv, <4>2, WireSlots, NoneAssumption DEF WireInv
      <4>6. \A r \in Slots : Unsent(r) => usCommandID[r] # id
        BY <1>inv, <4>2, NoneAssumption DEF WireInv
      <4>7. UNCHANGED <<target, rcq, pvBuffer, usCommandID>>
        BY <1>1 DEF IoFRCompletion
      <4>8. /\ ppvIoReqTable'[id] = s
            /\ \A n \in CmdIds : n # id => ppvIoReqTable'[n] = ppvIoReqTable[n]
        BY <4>1, <4>3, Typed
      <4> HIDE DEF id
      <4> QED
        BY <1>inv, <4>4, <4>5, <4>6, <4>7, <4>8, Typed DEF WireInv, id
    <3> QED
      BY <3>1, <3>2
  <2>3. NumberInv'
    <3>1. \A r \in Slots : Numbered(r)' => Numbered(r)
      <4>1. \A r \in Slots : r # s => lReqState'[r] = lReqState[r]
        BY <1>1, Typed DEF IoFRCompletion, OrState, SetState
      <4> QED
        BY <1>1, <2>1, <4>1 DEF IoFRCompletion, Numbered
    <3>2. \A j \in Past : j \in Past'
      BY <1>1, <2>1, Typed DEF IoFRCompletion, ScqGoto, OrState, SetState, Past
    <3> QED
      BY <1>1, <1>inv, <3>1, <3>2, NumberKept DEF IoFRCompletion
  <2> QED
    BY <2>2, <2>3 DEF IdInv
<1>2. ASSUME NEW s \in Slots, IoSendCompletion(s) PROVE IdInv'
  <2>1. /\ BecomesOn(s, "none", "none")
        /\ PostedOp[s] = "SEND" /\ PostedSt[s] \in {"ok", "cancelled"}
        /\ Head(sendQ[s]).st = PostedSt[s]
        /\ scq.pc = "idle" /\ InUse(s)
        /\ \A i \in Ios : ~SubHolds(i, s) /\ ~LamHolds(i, s)
    BY <1>2, ReapEffect, Typed DEF IoSendCompletion
  <2>2. WireInv'
    <3>1. \A r \in Slots : Unsent(r)' => Unsent(r)
      BY <1>2, <2>1, Typed DEF IoSendCompletion, ScqGoto, OrState, SetState,
         BecomesOn, Unsent
    <3> QED
      BY <1>2, <1>inv, <3>1, WireKept DEF IoSendCompletion
  <2>3. NumberInv'
    <3>1. \A r \in Slots : Numbered(r)' => Numbered(r)
      BY <1>2, <2>1, Typed DEF IoSendCompletion, ScqGoto, OrState, SetState,
         Numbered
    <3>2. \A j \in Past : j \in Past'
      BY <1>2, <2>1, Typed DEF IoSendCompletion, ScqGoto, OrState, SetState,
         Past
    <3> QED
      BY <1>2, <1>inv, <3>1, <3>2, NumberKept DEF IoSendCompletion
  <2> QED
    BY <2>2, <2>3 DEF IdInv
<1>3. ASSUME NEW s \in Slots, IoCompletion(s) PROVE IdInv'
  <2>1. /\ BecomesOn(s, "none", "none")
        /\ PostedOp[s] = "INVALIDATE" /\ PostedSt[s] \in {"ok", "cancelled"}
        /\ Head(sendQ[s]).st = PostedSt[s]
        /\ scq.pc = "idle" /\ InUse(s)
        /\ \A i \in Ios : ~SubHolds(i, s) /\ ~LamHolds(i, s)
    BY <1>3, ReapEffect, Typed DEF IoCompletion
  <2>2. WireInv'
    <3>1. \A r \in Slots : Unsent(r)' => Unsent(r)
      BY <1>3, <2>1, Typed DEF IoCompletion, ScqGoto, BecomesOn, Unsent
    <3>2. \A r \in Slots : "SUBMITTING" \in lReqState[r] => pvBuffer'[r] = pvBuffer[r]
      BY <1>3, <1>inv, <2>1, Typed DEF IoCompletion, ScqGoto, BitsOf, FreedBits
    <3> QED
      BY <1>3, <1>inv, <3>1, <3>2, WireKept DEF IoCompletion
  <2>3. NumberInv'
    <3>1. \A r \in Slots : Numbered(r)' => Numbered(r)
      BY <1>3, <2>1, Typed DEF IoCompletion, ScqGoto, Numbered
    <3>2. \A j \in Past : j \in Past'
      BY <1>3, <2>1, Typed DEF IoCompletion, ScqGoto, Past
    <3> QED
      BY <1>3, <1>inv, <3>1, <3>2, NumberKept DEF IoCompletion
  <2> QED
    BY <2>2, <2>3 DEF IdInv
<1>4. CASE SubmitSend
  <2>1. BecomesOn(scq.slot, "SEND", "posted")
    BY <1>4, PostEffect, Typed DEF SubmitSend, OneUser, OneUserOf, Ops
  <2>2. WireInv'
    <3>1. \A r \in Slots : Unsent(r)' => Unsent(r)
      BY <1>4, <2>1, Typed DEF SubmitSend, ScqGoto, BecomesOn, Unsent
    <3> QED
      BY <1>4, <1>inv, <3>1, WireKept DEF SubmitSend
  <2>3. NumberInv'
    <3>1. \A r \in Slots : Numbered(r)' => Numbered(r)
      BY <1>4, <2>1, Typed DEF SubmitSend, ScqGoto, Numbered
    <3>2. \A j \in Past : j \in Past'
      BY <1>4, <2>1, Typed DEF SubmitSend, ScqGoto, Past
    <3> QED
      BY <1>4, <1>inv, <3>1, <3>2, NumberKept DEF SubmitSend
  <2> QED
    BY <2>2, <2>3 DEF IdInv
<1>5. CASE SubmitSendFails
  <2>1. /\ lReqState' = [lReqState EXCEPT ![scq.slot] = {"FREEING"}]
        /\ BecomesOn(scq.slot, "INVALIDATE", "posted") \/ KeepsQueues
    BY <1>5, InvalidateEffect, Typed DEF SubmitSendFails, OneUser, OneUserOf
  <2>2. WireInv'
    <3> DEFINE s == scq.slot
    <3>1. s \in Slots /\ Unsent(s) /\ usCommandID[s] \in CmdIds
      BY <1>5, Typed DEF SubmitSendFails, Unsent
    <3>2. \A r \in Slots : Unsent(r)' => Unsent(r) /\ r # s
      BY <1>5, <1>inv, <2>1, Typed DEF SubmitSendFails, ScqGoto, BecomesOn,
         KeepsQueues, OneUserOf, Unsent
    <3>3. \A r \in Slots : Unsent(r) /\ r # s => usCommandID[r] # usCommandID[s]
      BY <1>inv, <3>1 DEF WireInv
    <3>4. /\ \A c \in target : c.id # usCommandID[s]
          /\ \A r \in rcq : r.id # usCommandID[s]
      BY <1>inv, <3>1 DEF WireInv
    <3>5. /\ UNCHANGED <<target, rcq, pvBuffer, usCommandID>>
          /\ \A n \in CmdIds :
               n # usCommandID[s] => ppvIoReqTable'[n] = ppvIoReqTable[n]
      BY <1>5, Typed DEF SubmitSendFails
    <3> HIDE DEF s
    <3> QED
      BY <1>inv, <3>2, <3>3, <3>4, <3>5, WireSlots, Typed DEF WireInv
  <2>3. NumberInv'
    <3>1. \A r \in Slots : Numbered(r)' => Numbered(r)
      BY <1>5, <1>inv, <2>1, Typed DEF SubmitSendFails, ScqGoto, OneUserOf,
         Numbered
    <3>2. \A j \in Past : j \in Past'
      BY <1>5, <2>1, Typed DEF SubmitSendFails, ScqGoto, Past
    <3> QED
      BY <1>5, <1>inv, <3>1, <3>2, NumberKept DEF SubmitSendFails
  <2> QED
    BY <2>2, <2>3 DEF IdInv
<1>6. CASE CountSend
  <2>1. KeepsQueues
    BY <1>6, QueuesKept, Typed DEF CountSend
  <2>2. WireInv'
    <3>1. \A r \in Slots : Unsent(r)' => Unsent(r)
      BY <1>6, <2>1, Typed DEF CountSend, ScqGoto, OrState, SetState,
         KeepsQueues, Unsent
    <3> QED
      BY <1>6, <1>inv, <3>1, WireKept DEF CountSend
  <2>3. NumberInv'
    <3>1. \A r \in Slots : Numbered(r)' => Numbered(r)
      <4>1. "SUBMITTING" \in lReqState[scq.slot] /\ scq.slot \in Slots
        BY <1>6, <1>inv, Typed DEF CountSend, BitsOf
      <4> QED
        BY <1>6, <4>1, Typed DEF CountSend, OrState, SetState, Numbered
    <3>2. \A j \in Past : j \in Past'
      BY <1>6, <2>1, Typed DEF CountSend, ScqGoto, OrState, SetState, Past
    <3> QED
      BY <1>6, <1>inv, <3>1, <3>2, NumberKept DEF CountSend
  <2> QED
    BY <2>2, <2>3 DEF IdInv
<1>7. CASE ScqJoin
  <2>1. \/ UNCHANGED lReqState /\ KeepsQueues
        \/ /\ lReqState[scq.slot] = AllStateDone
           /\ PostedOp[scq.slot] = "none" /\ ~ScqHolds(scq.slot)
           /\ \A i \in Ios : ~SubHolds(i, scq.slot) /\ ~LamHolds(i, scq.slot)
           /\ lReqState' = [lReqState EXCEPT ![scq.slot] = {"FREEING"}]
           /\ BecomesOn(scq.slot, "INVALIDATE", "posted") \/ KeepsQueues
    BY <1>7, JoinEffect, Typed DEF ScqJoin
  <2>2. WireInv'
    <3>1. \A r \in Slots : Unsent(r)' => Unsent(r)
      BY <1>7, <2>1, Typed DEF ScqJoin, ScqGoto, BecomesOn, KeepsQueues, Unsent
    <3> QED
      BY <1>7, <1>inv, <3>1, WireKept DEF ScqJoin
  <2>3. NumberInv'
    <3>1. \A r \in Slots : Numbered(r)' => Numbered(r)
      <4>1. AllStateDone # {}
        BY DEF AllStateDone, StateBits
      <4> QED
        BY <1>7, <2>1, <4>1, Typed DEF ScqJoin, Numbered
    <3>2. \A j \in Past : j \in Past'
      BY <1>7, <2>1, Typed DEF ScqJoin, ScqGoto, Past
    <3> QED
      BY <1>7, <1>inv, <3>1, <3>2, NumberKept DEF ScqJoin
  <2> QED
    BY <2>2, <2>3 DEF IdInv
<1>8. CASE FreeRequest
  <2>1. KeepsQueues
    BY <1>8, QueuesKept, Typed DEF FreeRequest
  <2>2. WireInv'
    <3>1. \A r \in Slots : Unsent(r)' => Unsent(r)
      BY <1>8, <2>1, Typed DEF FreeRequest, ScqGoto, SetState, KeepsQueues,
         Unsent
    <3> QED
      BY <1>8, <1>inv, <3>1, WireKept DEF FreeRequest
  <2>3. NumberInv'
    <3>1. \A r \in Slots : Numbered(r)' => Numbered(r)
      BY <1>8, <2>1, Typed DEF FreeRequest, ScqGoto, SetState, Numbered
    <3>2. \A j \in Past : j \in Past'
      BY <1>8, <2>1, Typed DEF FreeRequest, ScqGoto, SetState, Past
    <3> QED
      BY <1>8, <1>inv, <3>1, <3>2, NumberKept DEF FreeRequest
  <2> QED
    BY <2>2, <2>3 DEF IdInv
<1> QED
  BY <1>1, <1>2, <1>3, <1>4, <1>5, <1>6, <1>7, <1>8 DEF ScqCallback

(* The RCQ callback (3745-3986).                                           *)
LEMMA IdRcq ==
  ASSUME TypeOK, OneUser, SlotInv, IdInv, EachIdOnce,
         RcqCallback
  PROVE  IdInv'
<1>inv. /\ WireInv /\ NumberInv /\ TableInv
        /\ \A r \in Slots : BitsOf(r) /\ OneUserOf(r)
  BY DEF IdInv, SlotInv, SlotOf, OneUser
<1>1. ASSUME NEW c \in rcq, ReceiveResponse(c) PROVE IdInv'
  <2>1. KeepsQueues
    BY <1>1, QueuesKept, Typed DEF ReceiveResponse
  <2>2. WireInv'
    <3>1. \A r \in Slots : Unsent(r)' => Unsent(r)
      BY <1>1, <2>1 DEF ReceiveResponse, KeepsQueues, Unsent
    <3>2. /\ \A d \in target : d.id # c.id
          /\ \A r \in Slots : Unsent(r) => usCommandID[r] # c.id
      BY <1>1, <1>inv DEF WireInv
    <3>3. \A r \in rcq' : r \in rcq /\ r.id # c.id
      <4>1. \A r \in rcq : r = [id |-> r.id, io |-> r.io]
        BY DEF TypeOK, Response
      <4>2. \A r \in rcq : r.id = c.id => r.io = c.io
        BY <1>1, <1>inv DEF WireInv
      <4> QED
        BY <1>1, <4>1, <4>2 DEF ReceiveResponse, RcqReap
    <3>4. /\ UNCHANGED <<target, pvBuffer, usCommandID>>
          /\ \A n \in CmdIds : n # c.id => ppvIoReqTable'[n] = ppvIoReqTable[n]
      BY <1>1, Typed DEF ReceiveResponse, TakeOut
    <3> QED
      BY <1>inv, <3>1, <3>2, <3>3, <3>4, WireSlots, Typed DEF WireInv
  <2>3. NumberInv'
    <3>1. \A r \in Slots : Numbered(r)' => Numbered(r)
      <4>1. RequestOf(c.id) = ppvIoReqTable[c.id]
        BY <1>1 DEF ReceiveResponse, RequestOf
      <4>2. lReqState[RequestOf(c.id)] # {}
        BY <1>1, <1>inv, <4>1, WireSlots
      <4> QED
        BY <1>1, <4>2, Typed DEF ReceiveResponse, OrState, SetState, Numbered
    <3>2. \A j \in Past : j \in Past'
      BY <1>1, <2>1, Typed DEF ReceiveResponse, RcqReap, TakeOut, RcqGoto,
         OrState, SetState, RequestOf, Past
    <3> QED
      BY <1>1, <1>inv, <3>1, <3>2, NumberKept DEF ReceiveResponse
  <2> QED
    BY <2>2, <2>3 DEF IdInv
<1>2. ASSUME NEW c \in rcq, ReceiveInvalid(c) PROVE IdInv'
  <2>1. KeepsQueues
    BY <1>2, QueuesKept, Typed DEF ReceiveInvalid
  <2>2. WireInv'
    <3>1. \A r \in Slots : Unsent(r)' => Unsent(r)
      BY <1>2, <2>1 DEF ReceiveInvalid, KeepsQueues, Unsent
    <3> QED
      BY <1>2, <1>inv, <3>1 DEF ReceiveInvalid, RcqReap, WireInv
  <2>3. NumberInv'
    <3>1. \A r \in Slots : Numbered(r)' => Numbered(r)
      BY <1>2, <2>1, Typed DEF ReceiveInvalid, RcqReap, RcqGoto, Numbered
    <3>2. \A j \in Past : j \in Past'
      BY <1>2, <2>1, Typed DEF ReceiveInvalid, RcqReap, RcqGoto, Past
    <3> QED
      BY <1>2, <1>inv, <3>1, <3>2, NumberKept DEF ReceiveInvalid
  <2> QED
    BY <2>2, <2>3 DEF IdInv
<1>3. CASE StoreResponse
  <2>1. KeepsQueues
    BY <1>3, QueuesKept, Typed DEF StoreResponse
  <2>2. WireInv'
    <3>1. \A r \in Slots : Unsent(r)' => Unsent(r)
      BY <1>3, <2>1, Typed DEF StoreResponse, RcqGoto, KeepsQueues, Unsent
    <3> QED
      BY <1>3, <1>inv, <3>1, WireKept DEF StoreResponse
  <2>3. NumberInv'
    <3>1. \A r \in Slots : Numbered(r)' => Numbered(r)
      BY <1>3, <2>1, Typed DEF StoreResponse, RcqGoto, Numbered
    <3>2. \A j \in Past : j \in Past'
      BY <1>3, <2>1, Typed DEF StoreResponse, RcqGoto, Past
    <3> QED
      BY <1>3, <1>inv, <3>1, <3>2, NumberKept DEF StoreResponse
  <2> QED
    BY <2>2, <2>3 DEF IdInv
<1>4. CASE RcqJoin
  <2>1. \/ UNCHANGED lReqState /\ KeepsQueues
        \/ /\ lReqState[rcqThread.slot] = AllStateDone
           /\ PostedOp[rcqThread.slot] = "none" /\ ~ScqHolds(rcqThread.slot)
           /\ \A i \in Ios : ~SubHolds(i, rcqThread.slot) /\ ~LamHolds(i, rcqThread.slot)
           /\ lReqState' = [lReqState EXCEPT ![rcqThread.slot] = {"FREEING"}]
           /\ BecomesOn(rcqThread.slot, "INVALIDATE", "posted") \/ KeepsQueues
    BY <1>4, JoinEffect, Typed DEF RcqJoin
  <2>2. WireInv'
    <3>1. \A r \in Slots : Unsent(r)' => Unsent(r)
      BY <1>4, <2>1, Typed DEF RcqJoin, RcqGoto, BecomesOn, KeepsQueues, Unsent
    <3> QED
      BY <1>4, <1>inv, <3>1, WireKept DEF RcqJoin
  <2>3. NumberInv'
    <3>1. \A r \in Slots : Numbered(r)' => Numbered(r)
      <4>1. AllStateDone # {}
        BY DEF AllStateDone, StateBits
      <4> QED
        BY <1>4, <2>1, <4>1, Typed DEF RcqJoin, Numbered
    <3>2. \A j \in Past : j \in Past'
      BY <1>4, <2>1, Typed DEF RcqJoin, RcqGoto, Past
    <3> QED
      BY <1>4, <1>inv, <3>1, <3>2, NumberKept DEF RcqJoin
  <2> QED
    BY <2>2, <2>3 DEF IdInv
<1>5. CASE ReceiveSteps
  <2>0. /\ rcqThread.pc \in ReceivePcs /\ rcqThread'.pc \in ReceivePcs
        /\ rcqThread.slot = NoSlot /\ rcqThread'.slot = NoSlot
        /\ UNCHANGED <<queueVars, sub, lam, scq, flush, sendQ, mr, target, rcq,
                       connected, os>>
    BY <1>5, ReceiveMoves
  <2>1. KeepsQueues
    BY <2>0, QueuesKept, Typed
  <2>2. WireInv'
    <3>1. \A r \in Slots : Unsent(r)' => Unsent(r)
      BY <2>0, <2>1, Typed, NoneAssumption DEF ReceivePcs, KeepsQueues, Unsent
    <3> QED
      BY <1>inv, <2>0, <3>1, WireKept
  <2>3. NumberInv'
    <3>1. \A r \in Slots : Numbered(r)' => Numbered(r)
      BY <2>0, <2>1, Typed DEF Numbered
    <3>2. \A j \in Past : j \in Past'
      BY <2>0, <2>1, Typed DEF ReceivePcs, Past
    <3> QED
      BY <1>inv, <2>0, <3>1, <3>2, NumberKept
  <2> QED
    BY <2>2, <2>3 DEF IdInv
<1> QED
  BY <1>1, <1>2, <1>3, <1>4, <1>5 DEF RcqCallback, ReceiveSteps

(* The adapter.                                                            *)
LEMMA IdAdapter ==
  ASSUME TypeOK, OneUser, SlotInv, IdInv, EachIdOnce,
         NEW s \in Slots, Adapter(s)
  PROVE  IdInv'
<1>inv. /\ WireInv /\ NumberInv /\ TableInv
        /\ \A r \in Slots : BitsOf(r) /\ OneUserOf(r)
  BY DEF IdInv, SlotInv, SlotOf, OneUser
<1>1. CASE AdapterExecutes(s)
  <2>1. /\ BecomesOn(s, PostedOp[s], "ok")
        /\ PostedOp[s] = Head(sendQ[s]).op /\ PostedOp[s] \in Ops
        /\ PostedSt[s] = "posted"
    BY <1>1, RetireEffect, Typed DEF AdapterExecutes
  <2>2. WireInv'
    <3>1. CASE PostedOp[s] # "SEND"
      <4>1. target' = target
        BY <1>1, <2>1, <3>1 DEF AdapterExecutes
      <4>2. \A r \in Slots : Unsent(r)' => Unsent(r)
        BY <1>1, <2>1, <3>1 DEF AdapterExecutes, BecomesOn, Unsent
      <4> QED
        BY <1>1, <1>inv, <4>1, <4>2, WireKept DEF AdapterExecutes
    <3>2. CASE PostedOp[s] = "SEND"
      <4> DEFINE c == [id |-> usCommandID[s], slot |-> s, io |-> pvBuffer[s]]
      <4>1. target' = target \cup {c}
        BY <1>1, <2>1, <3>2 DEF AdapterExecutes
      <4>2. \A r \in Slots : Unsent(r)' => Unsent(r) /\ r # s
        BY <1>1, <1>inv, <2>1, <3>2 DEF AdapterExecutes, BecomesOn, OneUserOf,
           Unsent
      <4>3. /\ ppvIoReqTable[usCommandID[s]] = s
            /\ \A d \in target : d.id # usCommandID[s]
            /\ \A r \in rcq : r.id # usCommandID[s]
        BY <1>inv, <2>1, <3>2 DEF WireInv, Unsent
      <4>4. pvBuffer[s] # NoIo
        <5>1. BitsOf(s) /\ BufferOf(s)
          BY <1>1, SlotFacts DEF AdapterExecutes
        <5> QED
          BY <3>2, <5>1 DEF BitsOf, BufferOf
      <4>5. \A r \in Slots : Unsent(r) /\ r # s => usCommandID[r] # usCommandID[s]
        BY <1>inv, <4>3 DEF WireInv
      <4>6. UNCHANGED <<rcq, pvBuffer, usCommandID, ppvIoReqTable>>
        BY <1>1 DEF AdapterExecutes
      <4>7. \A d \in target' : d \in target \/ (d.id = usCommandID[s] /\ d.slot = s
                                               /\ d.io = pvBuffer[s])
        BY <4>1
      <4> HIDE DEF c
      <4> QED
        BY <1>inv, <4>2, <4>3, <4>4, <4>5, <4>6, <4>7, WireSlots DEF WireInv
    <3> QED
      BY <3>1, <3>2
  <2>3. NumberInv'
    <3>1. \A r \in Slots : Numbered(r)' => Numbered(r)
      BY <1>1, <2>1, Typed DEF AdapterExecutes, Numbered
    <3>2. \A j \in Past : j \in Past'
      BY <1>1, <2>1, Typed DEF AdapterExecutes, Past
    <3> QED
      BY <1>1, <1>inv, <3>1, <3>2, NumberKept DEF AdapterExecutes
  <2> QED
    BY <2>2, <2>3 DEF IdInv
<1>2. CASE AdapterCancels(s)
  <2>1. /\ BecomesOn(s, PostedOp[s], "cancelled")
        /\ PostedOp[s] = Head(sendQ[s]).op /\ PostedOp[s] \in Ops
        /\ PostedSt[s] = "posted"
    BY <1>2, RetireEffect, Typed DEF AdapterCancels
  <2>2. WireInv'
    <3>1. \A r \in Slots : Unsent(r)' => Unsent(r)
      BY <1>2, <2>1, Typed DEF AdapterCancels, BecomesOn, Unsent
    <3> QED
      BY <1>2, <1>inv, <3>1, WireKept DEF AdapterCancels
  <2>3. NumberInv'
    <3>1. \A r \in Slots : Numbered(r)' => Numbered(r)
      BY <1>2, <2>1, Typed DEF AdapterCancels, Numbered
    <3>2. \A j \in Past : j \in Past'
      BY <1>2, <2>1, Typed DEF AdapterCancels, Past
    <3> QED
      BY <1>2, <1>inv, <3>1, <3>2, NumberKept DEF AdapterCancels
  <2> QED
    BY <2>2, <2>3 DEF IdInv
<1> QED
  BY <1>1, <1>2 DEF Adapter

(* The target, the connection and the flush (4272-4318).                   *)
LEMMA IdRest ==
  ASSUME TypeOK, OneUser, SlotInv, IdInv, EachIdOnce,
         Flush \/ (\E c \in target : TargetAnswers(c)) \/ ConnectionLost \/ IOQPDisconnect
  PROVE  IdInv'
<1>inv. /\ WireInv /\ NumberInv /\ TableInv
        /\ \A r \in Slots : BitsOf(r) /\ OneUserOf(r)
  BY DEF IdInv, SlotInv, SlotOf, OneUser
<1>1. ASSUME NEW c \in target, TargetAnswers(c) PROVE IdInv'
  <2>1. KeepsQueues
    BY <1>1, QueuesKept, Typed DEF TargetAnswers
  <2>2. WireInv'
    <3>1. \A r \in Slots : Unsent(r)' => Unsent(r)
      BY <1>1, <2>1 DEF TargetAnswers, KeepsQueues, Unsent
    <3>2. \A d \in target' : d \in target /\ d.id # c.id
      <4>1. \A d \in target : d = [id |-> d.id, slot |-> d.slot, io |-> d.io]
        BY DEF TypeOK, Command
      <4>2. \A d \in target : d.id = c.id => d.slot = c.slot /\ d.io = c.io
        BY <1>1, <1>inv DEF WireInv
      <4> QED
        BY <1>1, <4>1, <4>2 DEF TargetAnswers
    <3>3. \A r \in rcq' : r \in rcq \/ (r.id = c.id /\ r.io = c.io)
      BY <1>1 DEF TargetAnswers
    <3>4. UNCHANGED <<pvBuffer, usCommandID, ppvIoReqTable>>
      BY <1>1 DEF TargetAnswers
    <3> QED
      BY <1>1, <1>inv, <3>1, <3>2, <3>3, <3>4, WireSlots DEF WireInv
  <2>3. NumberInv'
    <3>1. \A r \in Slots : Numbered(r)' => Numbered(r)
      BY <1>1, <2>1, Typed DEF TargetAnswers, Numbered
    <3>2. \A j \in Past : j \in Past'
      BY <1>1, <2>1, Typed DEF TargetAnswers, Past
    <3> QED
      BY <1>1, <1>inv, <3>1, <3>2, NumberKept DEF TargetAnswers
  <2> QED
    BY <2>2, <2>3 DEF IdInv
<1>2. CASE ConnectionLost
  <2>1. KeepsQueues
    BY <1>2, QueuesKept, Typed DEF ConnectionLost
  <2>2. WireInv'
    <3>1. \A r \in Slots : Unsent(r)' => Unsent(r)
      BY <1>2, <2>1 DEF ConnectionLost, KeepsQueues, Unsent
    <3> QED
      BY <1>2, <1>inv, <3>1 DEF ConnectionLost, WireInv
  <2>3. NumberInv'
    <3>1. \A r \in Slots : Numbered(r)' => Numbered(r)
      BY <1>2, <2>1, Typed DEF ConnectionLost, Numbered
    <3>2. \A j \in Past : j \in Past'
      BY <1>2, <2>1, Typed DEF ConnectionLost, Past
    <3> QED
      BY <1>2, <1>inv, <3>1, <3>2, NumberKept DEF ConnectionLost
  <2> QED
    BY <2>2, <2>3 DEF IdInv
<1>3. CASE IOQPDisconnect
  <2>1. KeepsQueues
    BY <1>3, QueuesKept, Typed DEF IOQPDisconnect
  <2>2. WireInv'
    <3>1. \A r \in Slots : Unsent(r)' => Unsent(r)
      BY <1>3, <2>1, Typed DEF IOQPDisconnect, KeepsQueues, Unsent
    <3> QED
      BY <1>3, <1>inv, <3>1, WireKept DEF IOQPDisconnect
  <2>3. NumberInv'
    <3>1. \A r \in Slots : Numbered(r)' => Numbered(r)
      BY <1>3, <2>1, Typed DEF IOQPDisconnect, Numbered
    <3>2. \A j \in Past : j \in Past'
      BY <1>3, <2>1, Typed DEF IOQPDisconnect, Past
    <3> QED
      BY <1>3, <1>inv, <3>1, <3>2, NumberKept DEF IOQPDisconnect
  <2> QED
    BY <2>2, <2>3 DEF IdInv
<1>4. ASSUME NEW s \in Slots, FlushTests(s) PROVE IdInv'
  <2>1. KeepsQueues
    BY <1>4, QueuesKept, Typed DEF FlushTests
  <2>2. WireInv'
    <3>1. \A r \in Slots : Unsent(r)' => Unsent(r)
      BY <1>4, <2>1, Typed DEF FlushTests, KeepsQueues, Unsent
    <3> QED
      BY <1>4, <1>inv, <3>1, WireKept DEF FlushTests
  <2>3. NumberInv'
    <3>1. \A r \in Slots : Numbered(r)' => Numbered(r)
      BY <1>4, <2>1, Typed DEF FlushTests, Numbered
    <3>2. \A j \in Past : j \in Past'
      BY <1>4, <2>1, Typed DEF FlushTests, Past
    <3> QED
      BY <1>4, <1>inv, <3>1, <3>2, NumberKept DEF FlushTests
  <2> QED
    BY <2>2, <2>3 DEF IdInv
<1>5. CASE FlushTakes
  <2>1. KeepsQueues
    BY <1>5, QueuesKept, Typed DEF FlushTakes
  <2>2. WireInv'
    <3>1. \A r \in Slots : Unsent(r)' => Unsent(r)
      BY <1>5, <2>1, Typed DEF FlushTakes, ParentTaken, KeepsQueues, Unsent
    <3> QED
      BY <1>5, <1>inv, <3>1, WireKept DEF FlushTakes
  <2>3. NumberInv'
    <3>1. \A r \in Slots : Numbered(r)' => Numbered(r)
      BY <1>5, <2>1, Typed DEF FlushTakes, ParentTaken, Numbered
    <3>2. \A j \in Past : j \in Past'
      BY <1>5, <2>1, Typed DEF FlushTakes, ParentTaken, Past
    <3> QED
      BY <1>5, <1>inv, <3>1, <3>2, NumberKept DEF FlushTakes
  <2> QED
    BY <2>2, <2>3 DEF IdInv
<1> QED
  BY <1>1, <1>2, <1>3, <1>4, <1>5 DEF Flush

(* Every step of the queue keeps IdInv.                                     *)
LEMMA IdStep ==
  ASSUME EachIdOnce
  PROVE  TypeOK /\ OneUser /\ SlotInv /\ IdInv /\ [Next]_vars => IdInv'
<1> SUFFICES ASSUME TypeOK, OneUser, SlotInv, IdInv, [Next]_vars PROVE IdInv'
  OBVIOUS
<1>1. CASE Finished \/ UNCHANGED vars
  <2>1. UNCHANGED vars /\ KeepsQueues
    BY <1>1, QueuesKept DEF Finished, vars
  <2>2. WireInv'
    BY <2>1, WireKept DEF vars, KeepsQueues, Unsent, IdInv
  <2>3. NumberInv'
    BY <2>1, NumberKept DEF vars, Numbered, Past, IdInv
  <2> QED
    BY <2>2, <2>3 DEF IdInv
<1>2. CASE Next /\ ~Finished
  BY <1>2, IdSubmitter, IdLam, IdScq, IdRcq, IdAdapter, IdRest DEF Next
<1> QED
  BY <1>1, <1>2

(* In the beginning no identifier is out.                                   *)
LEMMA IdInit ==
  ASSUME EachIdOnce, Init
  PROVE  IdInv
<1>1. \A s \in Slots : PostedOp[s] = "none" /\ PostedSt[s] = "none"
  BY DEF Init, PostedOp, PostedSt, OpOf, StOf
<1>2. WireInv
  BY <1>1 DEF Init, WireInv, Unsent
<1>3. lNextCmdID <= Cardinality(Past)
  <2>1. IsFiniteSet(Past)
    BY FS_Subset DEF EachIdOnce, Past
  <2> QED
    BY <2>1, FS_CardinalityType DEF Init
<1> QED
  BY <1>2, <1>3 DEF Init, IdInv, NumberInv, Numbered

(* What holds at every moment while no identifier is given out twice.       *)
LEMMA IdCorrect ==
  ASSUME EachIdOnce
  PROVE  Spec => [](TypeOK /\ OneUser /\ SlotInv /\ IdInv)
<1>1. Init => IdInv
  BY IdInit
<1> QED
  BY <1>1, IdStep, SlotCorrect, PTL DEF Spec

(* While the target works on a command, the registration of the command's   *)
(* slot is the command's own buffer: no response, no refused send and no    *)
(* lost connection lets the slot be invalidated or claimed under it.        *)
THEOREM TargetUsesOwnBufferCorrect ==
  ASSUME EachIdOnce
  PROVE  Spec => []TargetUsesOwnBuffer
<1>1. TypeOK /\ SlotInv /\ IdInv => TargetUsesOwnBuffer
  <2> SUFFICES ASSUME TypeOK, SlotInv, WireInv, NEW c \in target
               PROVE  c.io # NoIo /\ mr[c.slot] = c.io
    BY DEF TargetUsesOwnBuffer, IdInv
  <2>1. connected
    BY DEF SlotInv, ConnectionInv
  <2>2. c.slot \in Slots /\ "SUBMITTING" \in lReqState[c.slot]
    BY WireSlots
  <2>3. mr[c.slot] = pvBuffer[c.slot]
    BY <2>1, <2>2, SlotFacts DEF BufferOf
  <2> QED
    BY <2>3 DEF WireInv
<1> QED
  BY <1>1, IdCorrect, PTL

(* A slot that can be claimed has nothing left of its last I/O, whatever    *)
(* fails: no parent (the NT_ASSERT of 4880), no operation, no LAM being     *)
(* built, no registration, no table entry, no command at the target.        *)
THEOREM FreeRequestIsCleanCorrect ==
  ASSUME EachIdOnce
  PROVE  Spec => []FreeRequestIsClean
<1>1. TypeOK /\ OneUser /\ SlotInv /\ IdInv => FreeRequestIsClean
  <2> SUFFICES ASSUME TypeOK, OneUser, SlotInv, IdInv,
                      NEW s \in Slots, lReqState[s] = {}
               PROVE  /\ pvParentReqCtx[s] = NoIo
                      /\ sendQ[s] = <<>>
                      /\ \A i \in Ios : lam[i].pc = "building" => lam[i].slot # s
                      /\ connected => mr[s] = NoIo
                      /\ \A n \in CmdIds : ppvIoReqTable[n] # s
                      /\ \A c \in target : c.slot # s
    BY DEF FreeRequestIsClean, FreeSlots
  <2>1. pvParentReqCtx[s] = NoIo /\ (connected => mr[s] = NoIo)
    BY SlotFacts DEF ParentOf, BufferOf
  <2>2. PostedOp[s] = "none" /\ \A i \in Ios : ~LamHolds(i, s)
    BY DEF OneUser, OneUserOf
  <2>3. sendQ[s] = <<>>
    BY <2>2, NonEmpty DEF TypeOK, PostedOp
  <2>4. \A n \in CmdIds : ppvIoReqTable[n] # s
    BY DEF SlotInv, TableInv
  <2>5. \A c \in target : c.slot # s
    BY WireSlots DEF IdInv
  <2> QED
    BY <2>1, <2>2, <2>3, <2>4, <2>5
<1> QED
  BY <1>1, IdCorrect, PTL

(* A response, received or still to come, finds under its identifier the    *)
(* request of its own I/O (the ASSERTs of 2913, 2917 and 3832).             *)
THEOREM ResponseFindsItsRequestCorrect ==
  ASSUME EachIdOnce
  PROVE  Spec => []ResponseFindsItsRequest
<1>1. TypeOK /\ SlotInv /\ IdInv => ResponseFindsItsRequest
  <2> SUFFICES ASSUME TypeOK, SlotInv, WireInv,
                      NEW c \in rcq \cup {[id |-> d.id, io |-> d.io] : d \in target}
               PROVE  RequestOf(c.id) # NoSlot /\ pvBuffer[RequestOf(c.id)] = c.io
    BY DEF ResponseFindsItsRequest, IdInv
  <2>1. CASE c \in rcq
    <3>1. ppvIoReqTable[c.id] \in Slots /\ usCommandID[ppvIoReqTable[c.id]] = c.id
      BY <2>1, WireSlots DEF WireInv
    <3> QED
      BY <2>1, <3>1, NoneAssumption DEF RequestOf, WireInv
  <2>2. CASE \E d \in target : c = [id |-> d.id, io |-> d.io]
    <3>1. PICK d \in target : c = [id |-> d.id, io |-> d.io]
      BY <2>2
    <3>2. /\ d.slot \in Slots /\ ppvIoReqTable[d.id] = d.slot
          /\ usCommandID[d.slot] = d.id
      BY WireSlots DEF WireInv
    <3> QED
      BY <3>1, <3>2, NoneAssumption DEF RequestOf, WireInv
  <2> QED
    BY <2>1, <2>2
<1> QED
  BY <1>1, IdCorrect, PTL

(* The line 4988 assertion: the table entry of an identifier is empty when  *)
(* its request is inserted, as long as the counter has not gone round.      *)
THEOREM InsertFindsEmptyEntryCorrect ==
  ASSUME EachIdOnce
  PROVE  Spec => InsertFindsEmptyEntry
<1>1. ASSUME TypeOK, OneUser, SlotInv, IdInv, NEW s \in Slots, IoFRCompletion(s)
      PROVE  ppvIoReqTable[usCommandID[s]] = NoSlot
  <2> DEFINE id == usCommandID[s]
  <2>1. PostedOp[s] = "FAST_REGISTER" /\ InUse(s)
    BY <1>1, ReapEffect DEF IoFRCompletion
  <2>2. id \in CmdIds /\ lReqState[s] # {} /\ "SUBMITTING" \notin lReqState[s]
    BY <1>1, <2>1, SlotFacts, Typed DEF BitsOf, EarlyBits
  <2>3. ASSUME ppvIoReqTable[id] \in Slots PROVE FALSE
    <3>1. /\ usCommandID[ppvIoReqTable[id]] = id
          /\ "SUBMITTING" \in lReqState[ppvIoReqTable[id]]
      BY <1>1, <2>2, <2>3 DEF SlotInv, TableInv
    <3> QED
      BY <1>1, <2>2, <2>3, <3>1 DEF IdInv, NumberInv, Numbered
  <2> QED
    BY <1>1, <2>2, <2>3, Typed
<1>2. TypeOK /\ OneUser /\ SlotInv /\ IdInv /\ [Next]_vars
      => [\A s \in Slots : IoFRCompletion(s) /\ scq'.pc = "send"
            => ppvIoReqTable[usCommandID[s]] = NoSlot]_vars
  BY <1>1
<1> QED
  BY <1>2, IdCorrect, PTL DEF Spec, InsertFindsEmptyEntry

=============================================================================

------------------------- MODULE RdmaIoQueue_proofs -------------------------
(***************************************************************************)
(* Theorems about RdmaIoQueue, for every set of slots and I/Os, every size *)
(* of the identifier space and every set of faults.                        *)
(***************************************************************************)
EXTENDS RdmaIoQueue, SequenceTheorems, TLAPS

USE DEF ioVars, idVars, queueVars, callbacks, threadVars, wireVars

(* TypeOK by the parts an action changes together.                          *)
StateOK == lReqState \in [Slots -> SUBSET StateBits]
NdkTypeOK == ulType \in [Slots -> NdkTypes]
FieldsOK ==
  /\ usCommandID \in [Slots -> CmdIds]
  /\ pvParentReqCtx \in [Slots -> Ios \cup {NoIo}]
  /\ pvBuffer \in [Slots -> Ios \cup {NoIo}]
  /\ Status \in [Slots -> Ios \cup {NoIo} \cup HostStatus]
TableOK ==
  /\ ppvIoReqTable \in [CmdIds -> Slots \cup {NoSlot}]
  /\ lNextCmdID \in Nat
  /\ ulDisconnectFlag \in {"0", "CONTROLLER_IO_DISCONNECTED_EVENT"}
CountersOK == cnt \in [Counters -> Int]
SubmitterOK ==
  /\ sub \in [Ios -> SubPlace]
  /\ lam \in [Ios -> LamPlace]
CallbackOK ==
  /\ scq \in ScqPlace
  /\ rcqThread \in RcqPlace
  /\ flush \in Slots \cup {NoSlot}
SendQOK == sendQ \in [Slots -> Seq(Posted)]
WireOK ==
  /\ mr \in [Slots -> Ios \cup {NoIo}]
  /\ target \in SUBSET Command
  /\ rcq \in SUBSET Response
  /\ recvPosted \in Nat /\ recvFlushed \in Nat
  /\ connected \in BOOLEAN
OsOK == os \in [Ios -> [done : Nat, status : Ios \cup {NoIo} \cup HostStatus]]

(* TypeOK is the conjunction of its parts, in this state and the next.      *)
LEMMA TypeParts ==
  TypeOK <=> /\ StateOK /\ NdkTypeOK /\ FieldsOK /\ TableOK /\ CountersOK
             /\ SubmitterOK /\ CallbackOK /\ SendQOK /\ WireOK /\ OsOK
  BY DEF TypeOK, StateOK, NdkTypeOK, FieldsOK, TableOK, CountersOK, SubmitterOK,
         CallbackOK, SendQOK, WireOK, OsOK

(* The same for the next state.                                             *)
LEMMA TypePartsPrimed ==
  ASSUME StateOK', NdkTypeOK', FieldsOK', TableOK', CountersOK', SubmitterOK',
         CallbackOK', SendQOK', WireOK', OsOK'
  PROVE  TypeOK'
  BY DEF TypeOK, StateOK, NdkTypeOK, FieldsOK, TableOK, CountersOK, SubmitterOK,
         CallbackOK, SendQOK, WireOK, OsOK

(* A thread's place names one of its steps and at most one slot.            *)
LEMMA PlacesTyped ==
  ASSUME TypeOK
  PROVE  /\ sub \in [Ios -> [pc : SubPcs, slot : Slots \cup {NoSlot}]]
         /\ lam \in [Ios -> [pc : {"idle", "building", "registered"},
                            slot : Slots \cup {NoSlot}]]
         /\ scq.slot \in Slots \cup {NoSlot}
         /\ rcqThread.slot \in Slots \cup {NoSlot}
         /\ rcqThread.cqe \in Ios \cup {NoIo}
<1>1. /\ sub \in [Ios -> SubPlace] /\ lam \in [Ios -> LamPlace]
      /\ scq \in ScqPlace /\ rcqThread \in RcqPlace
  BY DEF TypeOK
<1>2. SubPlace \subseteq [pc : SubPcs, slot : Slots \cup {NoSlot}]
  BY DEF SubPlace, SubPcs, SubSlotPcs
<1>3. LamPlace \subseteq [pc : {"idle", "building", "registered"},
                        slot : Slots \cup {NoSlot}]
  BY DEF LamPlace
<1>4. scq.slot \in Slots \cup {NoSlot}
  BY <1>1 DEF ScqPlace
<1>5. rcqThread.slot \in Slots \cup {NoSlot} /\ rcqThread.cqe \in Ios \cup {NoIo}
  BY <1>1 DEF RcqPlace
<1> QED
  BY <1>1, <1>2, <1>3, <1>4, <1>5

(* What puts a receive back, or counts one, is of no request's: only the    *)
(* callback's place, the counter and the receives change (3851-3863, 3925). *)
ReceiveSteps == RepostReceive \/ CountReceive \/ ReceiveFlushed \/ ReceiveFailed
ReceivePcs == {"idle", "repost", "reposted", "failed"}

LEMMA ReceiveMoves ==
  ASSUME TypeOK, ReceiveSteps
  PROVE  /\ rcqThread.pc \in ReceivePcs /\ rcqThread'.pc \in ReceivePcs
         /\ rcqThread.slot = NoSlot /\ rcqThread'.slot = NoSlot
         /\ rcqThread.cqe = NoIo /\ rcqThread'.cqe = NoIo
         /\ UNCHANGED <<queueVars, sub, lam, scq, flush, sendQ, mr, target, rcq,
                        connected, os>>
<1>1. rcqThread \in RcqPlace
  BY DEF TypeOK
<1>2. CASE RepostReceive
  BY <1>1, <1>2 DEF RepostReceive, RcqGoto, RcqPlace, ReceivePcs
<1>3. CASE CountReceive
  BY <1>1, <1>3 DEF CountReceive, RcqGoto, RcqPlace, ReceivePcs
<1>4. CASE ReceiveFlushed
  BY <1>1, <1>4 DEF ReceiveFlushed, RcqGoto, RcqPlace, ReceivePcs
<1>5. CASE ReceiveFailed
  BY <1>1, <1>5 DEF ReceiveFailed, RcqGoto, RcqPlace, ReceivePcs
<1> QED
  BY <1>2, <1>3, <1>4, <1>5 DEF ReceiveSteps

(* The interlocked updates of lReqState and the stores into the shared type *)
(* keep to the constants of the code.                                       *)
LEMMA OrTyped ==
  ASSUME StateOK, NEW s, NEW bit \in StateBits, OrState(s, bit)
  PROVE  StateOK'
  BY DEF StateOK, OrState, SetState

LEMMA SetTyped ==
  ASSUME NdkTypeOK, NEW s, NEW type \in NdkTypes, SetType(s, type)
  PROVE  NdkTypeOK'
  BY DEF NdkTypeOK, SetType

LEMMA FastRegisterTyped ==
  ASSUME StateOK, NdkTypeOK, NEW s, FastRegisterDataMR(s)
  PROVE  StateOK' /\ NdkTypeOK'
  BY OrTyped, SetTyped DEF FastRegisterDataMR, StateBits, NdkTypes, Ops

(* A submission (NdkSubmitRequest) appends one operation.                   *)
LEMMA PostTyped ==
  ASSUME SendQOK, NEW s, NEW op \in Ops, Post(s, op)
  PROVE  SendQOK'
<1>1. [op |-> op, st |-> "posted"] \in Posted
  BY DEF Posted
<1>2. \A q \in Seq(Posted) : Append(q, [op |-> op, st |-> "posted"]) \in Seq(Posted)
  BY <1>1
<1> QED
  BY <1>2 DEF SendQOK, Post

(* A reaped operation leaves the send queue.                                *)
LEMMA ReapTyped ==
  ASSUME SendQOK, NEW s \in Slots, NEW type, ScqReap(s, type)
  PROVE  SendQOK'
<1>1. sendQ[s] \in Seq(Posted) /\ sendQ[s] # <<>>
  BY DEF SendQOK, ScqReap
<1>2. Tail(sendQ[s]) \in Seq(Posted)
  BY <1>1, HeadTailProperties
<1> QED
  BY <1>2 DEF SendQOK, ScqReap

(* The adapter marks the oldest operation and leaves its kind alone.        *)
LEMMA RetireTyped ==
  ASSUME SendQOK, NEW s \in Slots, NEW st \in {"ok", "cancelled"}, Retire(s, st)
  PROVE  SendQOK' /\ Head(sendQ[s]) \in Posted
<1> DEFINE done == [op |-> Head(sendQ[s]).op, st |-> st]
<1>1. sendQ[s] \in Seq(Posted) /\ sendQ[s] # <<>>
  BY DEF SendQOK, Retire
<1>2. Head(sendQ[s]) \in Posted /\ Tail(sendQ[s]) \in Seq(Posted)
  BY <1>1, HeadTailProperties
<1>3. done \in Posted
  BY <1>2 DEF Posted
<1>4. <<done>> \in Seq(Posted)
  BY <1>3
<1>5. <<done>> \o Tail(sendQ[s]) \in Seq(Posted)
  BY <1>2, <1>4, ConcatProperties
<1> QED
  BY <1>2, <1>5 DEF SendQOK, Retire

(* The invalidation (4511-4531) and the join that leads to it (5058, 5160). *)
LEMMA InvalidateTyped ==
  ASSUME StateOK, NdkTypeOK, SendQOK, NEW s, InvalidateDataMr(s)
  PROVE  StateOK' /\ NdkTypeOK' /\ SendQOK'
<1>1. StateOK'
  BY DEF StateOK, InvalidateDataMr, SetState, StateBits
<1>2. NdkTypeOK'
  BY SetTyped DEF InvalidateDataMr, NdkTypes, Ops
<1>3. SendQOK'
  BY PostTyped DEF InvalidateDataMr, PostFails, SendQOK, Ops
<1> QED
  BY <1>1, <1>2, <1>3

(* The compare-and-exchange and the invalidation it may start.              *)
LEMMA JoinTyped ==
  ASSUME StateOK, NdkTypeOK, SendQOK, NEW s, Join(s)
  PROVE  StateOK' /\ NdkTypeOK' /\ SendQOK'
<1>1. CASE lReqState[s] = AllStateDone
  BY <1>1, InvalidateTyped DEF Join
<1>2. CASE lReqState[s] # AllStateDone
  BY <1>2 DEF Join, StateOK, NdkTypeOK, SendQOK
<1> QED
  BY <1>1, <1>2

(* The submitting threads (5409-5479).                                      *)
LEMMA SubmitterTyped ==
  ASSUME TypeOK, NEW i \in Ios, Submitter(i)
  PROVE  TypeOK'
<1>1. CASE IOSubmitRW(i)
  <2>1. CountersOK'
    BY <1>1, TypeParts DEF IOSubmitRW, Count, Counters, CountersOK
  <2>2. SubmitterOK'
        BY <1>1, TypeParts DEF IOSubmitRW, SubGoto, SubPcs, SubmitterOK,
       SubPlace, SubSlotPcs, LamPlace
  <2> QED
    BY <1>1, <2>1, <2>2, TypeParts, TypePartsPrimed DEF IOSubmitRW, StateOK,
       NdkTypeOK, FieldsOK, TableOK, CallbackOK, SendQOK, WireOK, OsOK
<1>2. CASE NoFreeIORequest(i)
  <2>1. CountersOK'
    BY <1>2, TypeParts DEF NoFreeIORequest, Count, Counters, CountersOK
  <2>2. SubmitterOK'
        BY <1>2, TypeParts DEF NoFreeIORequest, SubGoto, SubPcs, SubmitterOK,
       SubPlace, SubSlotPcs, LamPlace
  <2> QED
    BY <1>2, <2>1, <2>2, TypeParts, TypePartsPrimed DEF NoFreeIORequest,
       StateOK, NdkTypeOK, FieldsOK, TableOK, CallbackOK, SendQOK, WireOK,
       OsOK
<1>3. ASSUME NEW s \in Slots, GetCurrentFreeIORequest(i, s) PROVE TypeOK'
  <2>1. StateOK'
    BY <1>3, TypeParts DEF GetCurrentFreeIORequest, SetState, StateBits,
       StateOK, StateOK
  <2>2. FieldsOK' /\ TableOK'
    BY <1>3, TypeParts, NumIdsAssumption DEF GetCurrentFreeIORequest,
       GetIOQUniqueCommandID, CmdIds, FieldsOK, TableOK
  <2>3. SubmitterOK'
    BY <1>3, TypeParts DEF GetCurrentFreeIORequest, SubGoto, SubPcs,
       SubmitterOK, SubPlace, SubSlotPcs, LamPlace
  <2> QED
    BY <1>3, <2>1, <2>2, <2>3, TypeParts, TypePartsPrimed DEF
       GetCurrentFreeIORequest, NdkTypeOK, CountersOK, CallbackOK, SendQOK,
       WireOK, OsOK
<1>4. CASE PrepareRWRequest(i)
  <2>1. StateOK'
    BY <1>4, TypeParts, OrTyped DEF PrepareRWRequest, StateBits
  <2>2. NdkTypeOK'
    BY <1>4, TypeParts, SetTyped DEF PrepareRWRequest, Prepare, NdkTypes
  <2>3. FieldsOK'
    BY <1>4, TypeParts DEF PrepareRWRequest, Prepare, FieldsOK
  <2>4. SubmitterOK'
        BY <1>4, TypeParts DEF PrepareRWRequest, SubGoto, SubPcs, SubmitterOK,
       SubPlace, SubSlotPcs, LamPlace
  <2> QED
    BY <1>4, <2>1, <2>2, <2>3, <2>4, TypeParts, TypePartsPrimed DEF
       PrepareRWRequest, TableOK, CountersOK, CallbackOK, SendQOK, WireOK,
       OsOK
<1>5. CASE PrepareRWPending(i)
  <2>1. NdkTypeOK'
    BY <1>5, TypeParts, SetTyped DEF PrepareRWPending, Prepare, NdkTypes
  <2>2. FieldsOK'
    BY <1>5, TypeParts DEF PrepareRWPending, Prepare, FieldsOK
  <2>3. SubmitterOK'
    BY <1>5, TypeParts DEF PrepareRWPending, SubGoto, LamGoto, SubPcs,
       SubmitterOK, SubPlace, SubSlotPcs, LamPlace
  <2> QED
    BY <1>5, <2>1, <2>2, <2>3, TypeParts, TypePartsPrimed DEF
       PrepareRWPending, StateOK, TableOK, CountersOK, CallbackOK, SendQOK,
       WireOK, OsOK
<1>6. CASE PrepareRWReturnsPending(i)
  <2>1. StateOK'
    BY <1>6, TypeParts, OrTyped DEF PrepareRWReturnsPending, StateBits
  <2>2. SubmitterOK'
    BY <1>6, TypeParts DEF PrepareRWReturnsPending, SubGoto, SubPcs,
       SubmitterOK, SubPlace, SubSlotPcs, LamPlace
  <2> QED
    BY <1>6, <2>1, <2>2, TypeParts, TypePartsPrimed DEF
       PrepareRWReturnsPending, NdkTypeOK, FieldsOK, TableOK, CountersOK,
       CallbackOK, SendQOK, WireOK, OsOK
<1>7. CASE PrepareRWFails(i)
  <2>1. NdkTypeOK'
    BY <1>7, TypeParts, SetTyped DEF PrepareRWFails, Prepare, NdkTypes
  <2>2. FieldsOK'
    BY <1>7, TypeParts DEF PrepareRWFails, Prepare, FieldsOK
  <2>3. CountersOK'
    BY <1>7, TypeParts DEF PrepareRWFails, Count, Counters, CountersOK
  <2>4. SubmitterOK'
        BY <1>7, TypeParts DEF PrepareRWFails, SubGoto, SubPcs, SubmitterOK,
       SubPlace, SubSlotPcs, LamPlace
  <2> QED
    BY <1>7, <2>1, <2>2, <2>3, <2>4, TypeParts, TypePartsPrimed DEF
       PrepareRWFails, StateOK, TableOK, CallbackOK, SendQOK, WireOK, OsOK
<1>8. CASE SubmitFastRegister(i)
  <2>1. StateOK' /\ NdkTypeOK'
    BY <1>8, TypeParts, FastRegisterTyped DEF SubmitFastRegister
  <2>2. SendQOK'
    BY <1>8, TypeParts, PostTyped DEF SubmitFastRegister, Ops
  <2>3. SubmitterOK'
        BY <1>8, TypeParts DEF SubmitFastRegister, SubGoto, SubPcs, SubmitterOK,
       SubPlace, SubSlotPcs, LamPlace
  <2> QED
    BY <1>8, <2>1, <2>2, <2>3, TypeParts, TypePartsPrimed DEF
       SubmitFastRegister, FieldsOK, TableOK, CountersOK, CallbackOK, WireOK,
       OsOK
<1>9. CASE CountFastRegister(i)
  <2>1. CountersOK'
    BY <1>9, TypeParts DEF CountFastRegister, Count, Counters, CountersOK
  <2>2. SubmitterOK'
        BY <1>9, TypeParts DEF CountFastRegister, SubGoto, SubPcs, SubmitterOK,
       SubPlace, SubSlotPcs, LamPlace
  <2> QED
    BY <1>9, <2>1, <2>2, TypeParts, TypePartsPrimed DEF CountFastRegister,
       StateOK, NdkTypeOK, FieldsOK, TableOK, CallbackOK, SendQOK, WireOK,
       OsOK
<1>10. CASE SubmitFastRegisterFails(i)
  <2>1. StateOK' /\ NdkTypeOK'
    BY <1>10, TypeParts, FastRegisterTyped DEF SubmitFastRegisterFails
  <2>2. CountersOK'
    BY <1>10, TypeParts DEF SubmitFastRegisterFails, Count, Counters,
       CountersOK
  <2>3. SubmitterOK'
    BY <1>10, TypeParts DEF SubmitFastRegisterFails, SubGoto, SubPcs,
       SubmitterOK, SubPlace, SubSlotPcs, LamPlace
  <2>4. SendQOK'
    BY <1>10, TypeParts DEF SubmitFastRegisterFails, PostFails, SendQOK
  <2> QED
    BY <1>10, <2>1, <2>2, <2>3, <2>4, TypeParts, TypePartsPrimed DEF
       SubmitFastRegisterFails, FieldsOK, TableOK, CallbackOK, WireOK, OsOK
<1> QED
  BY <1>1, <1>2, <1>3, <1>4, <1>5, <1>6, <1>7, <1>8, <1>9, <1>10 DEF Submitter

(* The callback of a pending LAM (5252-5269).                               *)
LEMMA LamCallbackTyped ==
  ASSUME TypeOK, NEW i \in Ios, LamCallback(i)
  PROVE  TypeOK'
<1>1. CASE BuildDataLamCompletion(i)
  <2>1. StateOK' /\ NdkTypeOK'
    BY <1>1, TypeParts, FastRegisterTyped
       DEF BuildDataLamCompletion, StateOK, NdkTypeOK
  <2>2. SendQOK'
    BY <1>1, TypeParts, PostTyped DEF BuildDataLamCompletion, PostFails, Ops,
       SendQOK
  <2>3. SubmitterOK'
        BY <1>1, TypeParts DEF BuildDataLamCompletion, LamGoto, SubmitterOK,
       SubPlace, SubSlotPcs, SubPcs, LamPlace
  <2> QED
    BY <1>1, <2>1, <2>2, <2>3, TypeParts, TypePartsPrimed DEF
       BuildDataLamCompletion, FieldsOK, TableOK, CountersOK, CallbackOK,
       WireOK, OsOK
<1>2. CASE LamCountsFastRegister(i)
  <2>1. CountersOK'
    BY <1>2, TypeParts DEF LamCountsFastRegister, Count, Counters,
       CountersOK
  <2>2. SubmitterOK'
        BY <1>2, TypeParts DEF LamCountsFastRegister, LamGoto, SubmitterOK,
       SubPlace, SubSlotPcs, SubPcs, LamPlace
  <2> QED
    BY <1>2, <2>1, <2>2, TypeParts, TypePartsPrimed DEF LamCountsFastRegister,
       StateOK, NdkTypeOK, FieldsOK, TableOK, CallbackOK, SendQOK, WireOK,
       OsOK
<1> QED
  BY <1>1, <1>2 DEF LamCallback

(* The SCQ callback (4024-4189, 4916-5148).                                 *)
LEMMA ScqTyped ==
  ASSUME TypeOK, ScqCallback
  PROVE  TypeOK'
<1>1. ASSUME NEW s \in Slots, IoFRCompletion(s) PROVE TypeOK'
  <2>1. SendQOK'
    BY <1>1, TypeParts, ReapTyped DEF IoFRCompletion
  <2>2. StateOK' /\ NdkTypeOK'
    BY <1>1, TypeParts, OrTyped, SetTyped DEF IoFRCompletion, StateBits,
       NdkTypes, Ops, StateOK, NdkTypeOK, StateOK, NdkTypeOK
  <2>3. CountersOK'
    BY <1>1, TypeParts DEF IoFRCompletion, Count, Counters, CountersOK
  <2>4. TableOK'
    BY <1>1, TypeParts DEF IoFRCompletion, TableOK
  <2>5. CallbackOK'
        BY <1>1, TypeParts DEF IoFRCompletion, ScqGoto, CallbackOK, ScqPlace,
       RcqPlace
  <2> QED
    BY <1>1, <2>1, <2>2, <2>3, <2>4, <2>5, TypeParts, TypePartsPrimed DEF
       IoFRCompletion, FieldsOK, SubmitterOK, WireOK, OsOK
<1>2. ASSUME NEW s \in Slots, IoSendCompletion(s) PROVE TypeOK'
  <2>1. SendQOK'
    BY <1>2, TypeParts, ReapTyped DEF IoSendCompletion
  <2>2. StateOK'
    BY <1>2, TypeParts, OrTyped DEF IoSendCompletion, StateBits
  <2>3. CountersOK'
    BY <1>2, TypeParts DEF IoSendCompletion, Count, Counters, CountersOK
  <2>4. CallbackOK'
        BY <1>2, TypeParts DEF IoSendCompletion, ScqGoto, CallbackOK, ScqPlace,
       RcqPlace
  <2> QED
    BY <1>2, <2>1, <2>2, <2>3, <2>4, TypeParts, TypePartsPrimed DEF
       IoSendCompletion, NdkTypeOK, FieldsOK, TableOK, SubmitterOK, WireOK,
       OsOK
<1>3. ASSUME NEW s \in Slots, IoCompletion(s) PROVE TypeOK'
  <2>1. SendQOK'
    BY <1>3, TypeParts, ReapTyped DEF IoCompletion
  <2>2. NdkTypeOK'
    BY <1>3, TypeParts, SetTyped DEF IoCompletion, NdkTypes, NdkTypeOK,
       NdkTypeOK
  <2>3. FieldsOK'
    BY <1>3, TypeParts DEF IoCompletion, FieldsOK
  <2>4. OsOK'
    BY <1>3, TypeParts DEF IoCompletion, CompleteToOs, FieldsOK, OsOK
  <2>5. CallbackOK'
    BY <1>3, TypeParts DEF IoCompletion, ScqGoto, CallbackOK, ScqPlace, RcqPlace
  <2> QED
    BY <1>3, <2>1, <2>2, <2>3, <2>4, <2>5, TypeParts, TypePartsPrimed DEF
       IoCompletion, StateOK, TableOK, CountersOK, SubmitterOK, WireOK
<1>4. CASE SubmitSend
  <2>1. SendQOK'
    BY <1>4, TypeParts, PostTyped DEF SubmitSend, Ops
  <2>2. CallbackOK'
    BY <1>4, TypeParts DEF SubmitSend, ScqGoto, CallbackOK, ScqPlace, RcqPlace
  <2> QED
    BY <1>4, <2>1, <2>2, TypeParts, TypePartsPrimed DEF SubmitSend, StateOK,
       NdkTypeOK, FieldsOK, TableOK, CountersOK, SubmitterOK, WireOK, OsOK
<1>5. CASE SubmitSendFails
  <2>1. StateOK' /\ NdkTypeOK' /\ SendQOK'
    BY <1>5, TypeParts, InvalidateTyped DEF SubmitSendFails
  <2>2. FieldsOK'
    BY <1>5, TypeParts DEF SubmitSendFails, HostStatus, FieldsOK
  <2>3. TableOK'
    BY <1>5, TypeParts DEF SubmitSendFails, TableOK
  <2>4. CallbackOK'
        BY <1>5, TypeParts DEF SubmitSendFails, ScqGoto, CallbackOK, ScqPlace,
       RcqPlace
  <2> QED
    BY <1>5, <2>1, <2>2, <2>3, <2>4, TypeParts, TypePartsPrimed DEF
       SubmitSendFails, CountersOK, SubmitterOK, WireOK, OsOK
<1>6. CASE CountSend
  <2>1. StateOK'
    BY <1>6, TypeParts, OrTyped DEF CountSend, StateBits
  <2>2. CountersOK'
    BY <1>6, TypeParts DEF CountSend, Count, Counters, CountersOK
  <2>3. CallbackOK'
    BY <1>6, TypeParts DEF CountSend, ScqGoto, CallbackOK, ScqPlace, RcqPlace
  <2> QED
    BY <1>6, <2>1, <2>2, <2>3, TypeParts, TypePartsPrimed DEF CountSend,
       NdkTypeOK, FieldsOK, TableOK, SubmitterOK, SendQOK, WireOK, OsOK
<1>7. CASE ScqJoin
  <2>1. StateOK' /\ NdkTypeOK' /\ SendQOK'
    BY <1>7, TypeParts, JoinTyped DEF ScqJoin
  <2>2. CallbackOK'
    BY <1>7, TypeParts DEF ScqJoin, ScqGoto, CallbackOK, ScqPlace, RcqPlace
  <2> QED
    BY <1>7, <2>1, <2>2, TypeParts, TypePartsPrimed DEF ScqJoin, FieldsOK,
       TableOK, CountersOK, SubmitterOK, WireOK, OsOK
<1>8. CASE FreeRequest
  <2>1. StateOK'
    BY <1>8, TypeParts DEF FreeRequest, SetState, StateOK, StateOK
  <2>2. CountersOK'
    BY <1>8, TypeParts DEF FreeRequest, Count, Counters, CountersOK
  <2>3. CallbackOK'
    BY <1>8, TypeParts DEF FreeRequest, ScqGoto, CallbackOK, ScqPlace, RcqPlace
  <2> QED
    BY <1>8, <2>1, <2>2, <2>3, TypeParts, TypePartsPrimed DEF FreeRequest,
       NdkTypeOK, FieldsOK, TableOK, SubmitterOK, SendQOK, WireOK, OsOK
<1> QED
  BY <1>1, <1>2, <1>3, <1>4, <1>5, <1>6, <1>7, <1>8 DEF ScqCallback

(* The RCQ callback (3745-3986, 5152-5169).                                 *)
LEMMA RcqTyped ==
  ASSUME TypeOK, RcqCallback
  PROVE  TypeOK'
<1>1. ASSUME NEW c \in rcq, ReceiveResponse(c) PROVE TypeOK'
  <2>1. StateOK'
    BY <1>1, TypeParts, OrTyped DEF ReceiveResponse, StateBits
  <2>2. TableOK'
    BY <1>1, TypeParts DEF ReceiveResponse, TakeOut, TableOK
  <2>3. CountersOK' /\ WireOK'
    BY <1>1, TypeParts DEF ReceiveResponse, RcqReap, Count, Counters,
       CountersOK, WireOK
  <2>4. CallbackOK'
    BY <1>1, TypeParts DEF ReceiveResponse, RcqGoto, RequestOf, RcqReap,
       WireOK, Response, CallbackOK, ScqPlace, RcqPlace
  <2> QED
    BY <1>1, <2>1, <2>2, <2>3, <2>4, TypeParts, TypePartsPrimed DEF
       ReceiveResponse, NdkTypeOK, FieldsOK, SubmitterOK, SendQOK, OsOK
<1>2. ASSUME NEW c \in rcq, ReceiveInvalid(c) PROVE TypeOK'
  <2>1. CountersOK' /\ WireOK'
    BY <1>2, TypeParts DEF ReceiveInvalid, RcqReap, Count, Counters,
       CountersOK, WireOK
  <2>2. CallbackOK'
        BY <1>2, TypeParts DEF ReceiveInvalid, RcqGoto, CallbackOK, ScqPlace,
       RcqPlace
  <2> QED
    BY <1>2, <2>1, <2>2, TypeParts, TypePartsPrimed DEF ReceiveInvalid,
       StateOK, NdkTypeOK, FieldsOK, TableOK, SubmitterOK, SendQOK, OsOK
<1>3. CASE StoreResponse
  <2>1. FieldsOK'
    BY <1>3, TypeParts, PlacesTyped DEF StoreResponse, FieldsOK
  <2>2. CallbackOK'
        BY <1>3, TypeParts DEF StoreResponse, RcqGoto, CallbackOK, ScqPlace,
       RcqPlace
  <2> QED
    BY <1>3, <2>1, <2>2, TypeParts, TypePartsPrimed DEF StoreResponse,
       StateOK, NdkTypeOK, TableOK, CountersOK, SubmitterOK, SendQOK, WireOK,
       OsOK
<1>4. CASE RcqJoin
  <2>1. StateOK' /\ NdkTypeOK' /\ SendQOK'
    BY <1>4, TypeParts, JoinTyped DEF RcqJoin
  <2>2. CallbackOK'
    BY <1>4, TypeParts DEF RcqJoin, RcqGoto, CallbackOK, ScqPlace, RcqPlace
  <2> QED
    BY <1>4, <2>1, <2>2, TypeParts, TypePartsPrimed DEF RcqJoin, FieldsOK,
       TableOK, CountersOK, SubmitterOK, WireOK, OsOK
<1>5. CASE RepostReceive
  <2>1. CountersOK' /\ WireOK'
    BY <1>5, TypeParts DEF RepostReceive, Count, Counters, CountersOK, WireOK
  <2>2. CallbackOK'
        BY <1>5, TypeParts DEF RepostReceive, RcqGoto, CallbackOK, ScqPlace,
       RcqPlace
  <2> QED
    BY <1>5, <2>1, <2>2, TypeParts, TypePartsPrimed DEF RepostReceive,
       StateOK, NdkTypeOK, FieldsOK, TableOK, SubmitterOK, SendQOK, OsOK
<1>6. CASE CountReceive
  <2>1. CountersOK'
    BY <1>6, TypeParts DEF CountReceive, Count, Counters, CountersOK
  <2>2. CallbackOK'
    BY <1>6, TypeParts DEF CountReceive, RcqGoto, CallbackOK, ScqPlace, RcqPlace
  <2> QED
    BY <1>6, <2>1, <2>2, TypeParts, TypePartsPrimed DEF CountReceive, StateOK,
       NdkTypeOK, FieldsOK, TableOK, SubmitterOK, SendQOK, WireOK, OsOK
<1>7. CASE ReceiveFlushed
  <2>1. CountersOK' /\ WireOK'
    BY <1>7, TypeParts DEF ReceiveFlushed, Count, Counters, CountersOK, WireOK
  <2>2. CallbackOK'
    BY <1>7, TypeParts DEF ReceiveFlushed, RcqGoto, CallbackOK, ScqPlace, RcqPlace
  <2> QED
    BY <1>7, <2>1, <2>2, TypeParts, TypePartsPrimed DEF ReceiveFlushed, StateOK,
       NdkTypeOK, FieldsOK, TableOK, SubmitterOK, SendQOK, OsOK
<1>8. CASE ReceiveFailed
  <2>1. CountersOK'
    BY <1>8, TypeParts DEF ReceiveFailed, Count, Counters, CountersOK
  <2>2. CallbackOK'
    BY <1>8, TypeParts DEF ReceiveFailed, RcqGoto, CallbackOK, ScqPlace, RcqPlace
  <2> QED
    BY <1>8, <2>1, <2>2, TypeParts, TypePartsPrimed DEF ReceiveFailed, StateOK,
       NdkTypeOK, FieldsOK, TableOK, SubmitterOK, SendQOK, WireOK, OsOK
<1> QED
  BY <1>1, <1>2, <1>3, <1>4, <1>5, <1>6, <1>7, <1>8 DEF RcqCallback

(* The adapter, the target, the connection and the flush (4272-4318).       *)
LEMMA SurroundingsTyped ==
  ASSUME TypeOK,
         \/ \E s \in Slots : Adapter(s)
         \/ \E c \in target : TargetAnswers(c)
         \/ ConnectionLost \/ IOQPDisconnect \/ Flush
  PROVE  TypeOK'
<1>1. ASSUME NEW s \in Slots, AdapterExecutes(s) PROVE TypeOK'
  <2>1. SendQOK'
    BY <1>1, TypeParts, RetireTyped DEF AdapterExecutes
  <2>2. WireOK'
    BY <1>1, TypeParts, RetireTyped DEF AdapterExecutes, FieldsOK, Posted,
       Ops, Command, WireOK
  <2> QED
    BY <1>1, <2>1, <2>2, TypeParts, TypePartsPrimed DEF AdapterExecutes,
       StateOK, NdkTypeOK, FieldsOK, TableOK, CountersOK, SubmitterOK,
       CallbackOK, OsOK
<1>2. ASSUME NEW s \in Slots, AdapterCancels(s) PROVE TypeOK'
  <2>1. SendQOK'
    BY <1>2, TypeParts, RetireTyped DEF AdapterCancels
  <2> QED
    BY <1>2, <2>1, TypeParts, TypePartsPrimed DEF AdapterCancels, StateOK,
       NdkTypeOK, FieldsOK, TableOK, CountersOK, SubmitterOK, CallbackOK,
       WireOK, OsOK
<1>3. ASSUME NEW c \in target, TargetAnswers(c) PROVE TypeOK'
  <2>1. WireOK'
    BY <1>3, TypeParts DEF TargetAnswers, Command, Response, WireOK
  <2> QED
    BY <1>3, <2>1, TypeParts, TypePartsPrimed DEF TargetAnswers, StateOK,
       NdkTypeOK, FieldsOK, TableOK, CountersOK, SubmitterOK, CallbackOK,
       SendQOK, OsOK
<1>4. CASE ConnectionLost
  <2>1. WireOK'
    <3>1. target' = {} /\ connected' = FALSE /\ UNCHANGED <<mr, rcq>>
      BY <1>4 DEF ConnectionLost
    <3>2. recvPosted' \in Nat /\ recvFlushed' \in Nat
      BY <1>4, TypeParts DEF ConnectionLost, WireOK
    <3> QED
      BY <3>1, <3>2, TypeParts DEF WireOK
  <2> QED
    BY <1>4, <2>1, TypeParts, TypePartsPrimed DEF ConnectionLost, StateOK,
       NdkTypeOK, FieldsOK, TableOK, CountersOK, SubmitterOK, CallbackOK,
       SendQOK, OsOK
<1>5. CASE IOQPDisconnect
  <2>1. TableOK'
    BY <1>5, TypeParts DEF IOQPDisconnect, TableOK
  <2> QED
    BY <1>5, <2>1, TypeParts, TypePartsPrimed DEF IOQPDisconnect, StateOK,
       NdkTypeOK, FieldsOK, CountersOK, SubmitterOK, CallbackOK, SendQOK,
       WireOK, OsOK
<1>6. ASSUME NEW s \in Slots, FlushTests(s) PROVE TypeOK'
  <2>1. CallbackOK'
    BY <1>6, TypeParts DEF FlushTests, CallbackOK, ScqPlace, RcqPlace
  <2> QED
    BY <1>6, <2>1, TypeParts, TypePartsPrimed DEF FlushTests, StateOK,
       NdkTypeOK, FieldsOK, TableOK, CountersOK, SubmitterOK, SendQOK, WireOK,
       OsOK
<1>7. CASE FlushTakes
  <2>1. FieldsOK'
    BY <1>7, TypeParts DEF FlushTakes, ParentTaken, FieldsOK
  <2>2. CountersOK'
    BY <1>7, TypeParts DEF FlushTakes, Count, Counters, CountersOK
  <2>3. OsOK'
    BY <1>7, TypeParts DEF FlushTakes, CompleteToOs, HostStatus, FieldsOK,
       CallbackOK, OsOK
  <2>4. CallbackOK'
    BY <1>7, TypeParts DEF FlushTakes, CallbackOK, ScqPlace, RcqPlace
  <2> QED
    BY <1>7, <2>1, <2>2, <2>3, <2>4, TypeParts, TypePartsPrimed DEF
       FlushTakes, StateOK, NdkTypeOK, TableOK, SubmitterOK, SendQOK, WireOK
<1> QED
  BY <1>1, <1>2, <1>3, <1>4, <1>5, <1>6, <1>7 DEF Adapter, Flush

(* The work requests, the table, the counters and the queues keep their     *)
(* types: in particular no callback ever works on a slot that is none, and  *)
(* an identifier always fits the table (4461-4468).                         *)
THEOREM TypeCorrect == Spec => []TypeOK
<1>1. Init => TypeOK
  <2>1. <<>> \in Seq(Posted)
    BY EmptySeq
  <2> QED
    BY <2>1, NumIdsAssumption, NumRecvAssumption
              DEF Init, TypeOK, CmdIds, StateBits, NdkTypes, Counters, SubPcs,
       SubSlotPcs,
           SubPlace, LamPlace, ScqPlace, RcqPlace
<1>2. TypeOK /\ [Next]_vars => TypeOK'
  <2> SUFFICES ASSUME TypeOK, [Next]_vars PROVE TypeOK'
    OBVIOUS
  <2>1. CASE UNCHANGED vars
    BY <2>1 DEF vars, TypeOK
  <2>2. CASE Finished
    BY <2>2 DEF Finished, vars, TypeOK
  <2> QED
    BY <2>1, <2>2, SubmitterTyped, LamCallbackTyped, ScqTyped, RcqTyped,
       SurroundingsTyped DEF Next
<1> QED
  BY <1>1, <1>2, PTL DEF Spec

-----------------------------------------------------------------------------
(* Why an I/O is completed once: while it is in the pvParentReqCtx of a     *)
(* slot, of one slot only, it has not been completed; the completion and    *)
(* the flush take it out in the exchange by which they see it.              *)
NotYetIn == {"new", "alloc", "prepare"}

OnceInv ==
  /\ \A s \in Slots : pvParentReqCtx[s] \in Ios =>
       os[pvParentReqCtx[s]].done = 0 /\ sub[pvParentReqCtx[s]].pc \notin NotYetIn
  /\ \A s, t \in Slots :
       pvParentReqCtx[s] \in Ios /\ pvParentReqCtx[s] = pvParentReqCtx[t] => s = t
  /\ \A i \in Ios : sub[i].pc \in NotYetIn => os[i].done = 0
  /\ \A i \in Ios : os[i].done <= 1

(* A step that moves no I/O into or out of a slot and takes no thread back. *)
LEMMA OnceUntouched ==
  ASSUME OnceInv, UNCHANGED <<pvParentReqCtx, os>>,
         \A i \in Ios : sub'[i].pc \in NotYetIn => sub[i].pc \in NotYetIn
  PROVE  OnceInv'
  BY DEF OnceInv

(* The thread of I/O i puts it into its slot and goes on.                   *)
LEMMA OncePrepared ==
  ASSUME TypeOK, OnceInv, NEW i \in Ios, NEW s, NEW pc \in SubPcs \ NotYetIn, NEW t,
         sub[i].pc = "prepare", Prepare(s, i), SubGoto(i, pc, t), UNCHANGED os
  PROVE  OnceInv'
<1>1. pvParentReqCtx \in [Slots -> Ios \cup {NoIo}]
  BY DEF TypeOK
<1>2. pvParentReqCtx' = [pvParentReqCtx EXCEPT ![s] = i]
  BY DEF Prepare
<1>3. \A j \in Ios : sub'[j].pc = IF j = i THEN pc ELSE sub[j].pc
  BY DEF TypeOK, SubGoto
<1>4. os[i].done = 0 /\ \A r \in Slots : pvParentReqCtx[r] # i
  BY DEF OnceInv, NotYetIn
<1> QED
  BY <1>1, <1>2, <1>3, <1>4 DEF OnceInv

(* Whoever takes an I/O out of slot s completes it.                         *)
LEMMA OnceTaken ==
  ASSUME TypeOK, OnceInv, NEW s \in Slots, NEW status, pvParentReqCtx[s] # NoIo,
         ParentTaken(s), CompleteToOs(pvParentReqCtx[s], status), UNCHANGED sub
  PROVE  OnceInv'
<1> DEFINE i == pvParentReqCtx[s]
<1>1. pvParentReqCtx \in [Slots -> Ios \cup {NoIo}] /\ i \in Ios
  BY DEF TypeOK
<1>2. \A r \in Slots : pvParentReqCtx'[r] = IF r = s THEN NoIo ELSE pvParentReqCtx[r]
  BY <1>1 DEF ParentTaken
<1>3. \A j \in Ios : os'[j].done = IF j = i THEN 1 ELSE os[j].done
  BY <1>1 DEF TypeOK, CompleteToOs, OnceInv
<1>4. sub[i].pc \notin NotYetIn
  BY <1>1 DEF OnceInv
<1> QED
  BY <1>1, <1>2, <1>3, <1>4, NoneAssumption DEF OnceInv

(* Every step of the queue keeps OnceInv.                                   *)
LEMMA OnceStep == TypeOK /\ OnceInv /\ [Next]_vars => OnceInv'
<1> SUFFICES ASSUME TypeOK, OnceInv, [Next]_vars PROVE OnceInv'
  OBVIOUS
<1>sub. sub \in [Ios -> [pc : SubPcs, slot : Slots \cup {NoSlot}]]
  BY PlacesTyped
<1>1. ASSUME NEW i \in Ios, Submitter(i) PROVE OnceInv'
  <2>1. CASE IOSubmitRW(i)
    BY <2>1, <1>sub, OnceUntouched DEF IOSubmitRW, SubGoto, NotYetIn
  <2>2. CASE NoFreeIORequest(i)
    BY <2>2, <1>sub, OnceUntouched DEF NoFreeIORequest, SubGoto, NotYetIn
  <2>3. ASSUME NEW s \in Slots, GetCurrentFreeIORequest(i, s) PROVE OnceInv'
        BY <2>3, <1>sub, OnceUntouched DEF GetCurrentFreeIORequest, SubGoto,
       NotYetIn
  <2>4. CASE PrepareRWRequest(i)
    BY <2>4, OncePrepared DEF PrepareRWRequest, SubPcs, SubSlotPcs, NotYetIn
  <2>5. CASE PrepareRWPending(i)
    BY <2>5, OncePrepared DEF PrepareRWPending, SubPcs, SubSlotPcs, NotYetIn
  <2>6. CASE PrepareRWReturnsPending(i)
        BY <2>6, <1>sub, OnceUntouched DEF PrepareRWReturnsPending, SubGoto,
       NotYetIn
  <2>7. CASE PrepareRWFails(i)
    BY <2>7, OncePrepared DEF PrepareRWFails, SubPcs, NotYetIn
  <2>8. CASE SubmitFastRegister(i)
    BY <2>8, <1>sub, OnceUntouched DEF SubmitFastRegister, SubGoto, NotYetIn
  <2>9. CASE CountFastRegister(i)
    BY <2>9, <1>sub, OnceUntouched DEF CountFastRegister, SubGoto, NotYetIn
  <2>10. CASE SubmitFastRegisterFails(i)
        BY <2>10, <1>sub, OnceUntouched DEF SubmitFastRegisterFails, SubGoto,
       NotYetIn
  <2> QED
    BY <1>1, <2>1, <2>2, <2>3, <2>4, <2>5, <2>6, <2>7, <2>8, <2>9, <2>10
       DEF Submitter
<1>2. ASSUME NEW i \in Ios, LamCallback(i) PROVE OnceInv'
  BY <1>2, OnceUntouched
     DEF LamCallback, BuildDataLamCompletion, LamCountsFastRegister
<1>3. CASE ScqCallback
  <2>1. ASSUME NEW s \in Slots, IoFRCompletion(s) \/ IoSendCompletion(s)
        PROVE  OnceInv'
    BY <2>1, OnceUntouched DEF IoFRCompletion, IoSendCompletion
  <2>2. ASSUME NEW s \in Slots, IoCompletion(s) PROVE OnceInv'
    <3>1. CASE "FREEING" \in lReqState[s] /\ pvParentReqCtx[s] # NoIo
      BY <2>2, <3>1, OnceTaken DEF IoCompletion, ParentTaken
    <3>2. CASE ~("FREEING" \in lReqState[s] /\ pvParentReqCtx[s] # NoIo)
      BY <2>2, <3>2, OnceUntouched DEF IoCompletion
    <3> QED
      BY <3>1, <3>2
  <2>3. CASE SubmitSend \/ SubmitSendFails \/ CountSend
    BY <2>3, OnceUntouched DEF SubmitSend, SubmitSendFails, CountSend
  <2>4. CASE ScqJoin \/ FreeRequest
    BY <2>4, OnceUntouched DEF ScqJoin, FreeRequest
  <2> QED
    BY <1>3, <2>1, <2>2, <2>3, <2>4 DEF ScqCallback
<1>4. CASE RcqCallback
  <2>1. ASSUME NEW c \in rcq, ReceiveResponse(c) \/ ReceiveInvalid(c)
        PROVE  OnceInv'
    BY <2>1, OnceUntouched DEF ReceiveResponse, ReceiveInvalid
  <2>2. CASE \/ StoreResponse \/ RcqJoin \/ RepostReceive \/ CountReceive
             \/ ReceiveFlushed \/ ReceiveFailed
    BY <2>2, OnceUntouched DEF StoreResponse, RcqJoin, RepostReceive, CountReceive,
       ReceiveFlushed, ReceiveFailed
  <2> QED
    BY <1>4, <2>1, <2>2 DEF RcqCallback
<1>5. CASE Flush
  <2>1. ASSUME NEW s \in Slots, FlushTests(s) PROVE OnceInv'
    BY <2>1, OnceUntouched DEF FlushTests
  <2>2. CASE FlushTakes
    <3>1. flush \in Slots
      BY <2>2 DEF FlushTakes, TypeOK
    <3>2. CASE pvParentReqCtx[flush] = NoIo
      BY <2>2, <3>2, OnceUntouched DEF FlushTakes
    <3>3. CASE pvParentReqCtx[flush] # NoIo
      BY <2>2, <3>1, <3>3, OnceTaken DEF FlushTakes
    <3> QED
      BY <3>2, <3>3
  <2> QED
    BY <1>5, <2>1, <2>2 DEF Flush
<1>6. ASSUME NEW s \in Slots, Adapter(s) PROVE OnceInv'
  BY <1>6, OnceUntouched DEF Adapter, AdapterExecutes, AdapterCancels
<1>7. ASSUME NEW c \in target, TargetAnswers(c) PROVE OnceInv'
  BY <1>7, OnceUntouched DEF TargetAnswers
<1>8. CASE ConnectionLost \/ IOQPDisconnect
  BY <1>8, OnceUntouched DEF ConnectionLost, IOQPDisconnect
<1>9. CASE Finished \/ UNCHANGED vars
  BY <1>9, OnceUntouched DEF Finished, vars
<1> QED
  BY <1>1, <1>2, <1>3, <1>4, <1>5, <1>6, <1>7, <1>8, <1>9 DEF Next

(* No I/O goes back to the OS twice, whatever fails and however the flush   *)
(* (4272-4318) meets the completion (4075-4099): the OS frees a NVMEOF_IO_REQ*)
(* when it gets it back.                                                    *)
THEOREM CompletedOnceCorrect == Spec => []CompletedOnce
<1>1. Init => OnceInv
  BY NoneAssumption DEF Init, OnceInv, NotYetIn
<1>2. OnceInv => CompletedOnce
  BY DEF OnceInv, CompletedOnce
<1> QED
  BY <1>1, <1>2, OnceStep, TypeCorrect, PTL DEF Spec

-----------------------------------------------------------------------------
(* Why the shared type can be trusted: a request in use has one user.       *)

(* The operation slot s has on the send queue.                              *)
OpOf(q) == IF q = <<>> THEN "none" ELSE IF Len(q) = 1 THEN Head(q).op ELSE "many"
PostedOp == [s \in Slots |-> OpOf(sendQ[s])]

(* The user of slot s is a submitting thread, the callback of its LAM, the  *)
(* SCQ callback or, with an operation posted, the adapter; a request that   *)
(* waits to be joined has none.                                             *)
SubHolds(i, s) == sub[i].pc \in {"prepare", "register"} /\ sub[i].slot = s
LamHolds(i, s) == lam[i].pc = "building" /\ lam[i].slot = s
ScqHolds(s) == scq.pc \in {"send", "free"} /\ scq.slot = s
InUse(s) == lReqState[s] # {} /\ "WAITING_FOR_RESPONSE" \notin lReqState[s]

OneUserOf(s) ==
  /\ PostedOp[s] # "none" =>
       /\ InUse(s) /\ PostedOp[s] = ulType[s] /\ ~ScqHolds(s)
       /\ \A i \in Ios : ~SubHolds(i, s) /\ ~LamHolds(i, s)
  /\ ScqHolds(s) =>
       /\ InUse(s) /\ (scq.pc = "send" => ulType[s] = "SEND")
       /\ \A i \in Ios : ~SubHolds(i, s) /\ ~LamHolds(i, s)
  /\ \A i \in Ios : SubHolds(i, s) =>
       InUse(s) /\ \A j \in Ios : ~LamHolds(j, s) /\ (SubHolds(j, s) => j = i)
  /\ \A i \in Ios : LamHolds(i, s) =>
       InUse(s) /\ \A j \in Ios : LamHolds(j, s) => j = i

OneUser == \A s \in Slots : OneUserOf(s)

(* Who uses a slot is expanded in everything that follows.                  *)
USE DEF SubHolds, LamHolds, ScqHolds, InUse

(* A queue with something in it has a first operation and a rest.           *)
LEMMA NonEmpty ==
  ASSUME NEW q \in Seq(Posted), q # <<>>
  PROVE  /\ Head(q).op \in Ops
         /\ Len(q) = 1 => Tail(q) = <<>>
         /\ OpOf(q) # "none"
<1>1. Head(q) \in Posted /\ Tail(q) \in Seq(Posted) /\ Len(Tail(q)) = Len(q) - 1
  BY HeadTailProperties
<1>2. Head(q).op \in Ops
  BY <1>1 DEF Posted
<1>3. Len(q) = 1 => Tail(q) = <<>>
  <2>1. \A r \in Seq(Posted) : r # <<>> => Len(r) \in Nat \ {0}
    BY EmptySeq
  <2>2. Len(q) = 1 => Len(Tail(q)) = 0
    BY <1>1
  <2> QED
    BY <1>1, <2>1, <2>2
<1>4. Head(q).op # "none"
  BY <1>2 DEF Ops
<1>5. OpOf(q) # "none"
  BY <1>4 DEF OpOf
<1> QED
  BY <1>2, <1>3, <1>5

(* What the three things that happen to a send queue do to PostedOp.        *)
LEMMA PostedOpPost ==
  ASSUME SendQOK, NEW s \in Slots, NEW op \in Ops, PostedOp[s] = "none", Post(s, op)
  PROVE  PostedOp' = [PostedOp EXCEPT ![s] = op]
<1> DEFINE entry == [op |-> op, st |-> "posted"]
<1>1. sendQ[s] = <<>>
  BY NonEmpty DEF PostedOp, SendQOK
<1>2. sendQ' = [sendQ EXCEPT ![s] = <<entry>>]
  BY <1>1 DEF Post, SendQOK
<1>3. OpOf(<<entry>>) = op
  BY DEF OpOf
<1> QED
  BY <1>2, <1>3 DEF PostedOp, SendQOK

(* A reaped operation was the only one, and nothing is posted after it.     *)
LEMMA PostedOpReap ==
  ASSUME SendQOK, NEW s \in Slots, NEW type, PostedOp[s] # "many", ScqReap(s, type)
  PROVE  PostedOp[s] # "none" /\ PostedOp' = [PostedOp EXCEPT ![s] = "none"]
<1>1. sendQ[s] \in Seq(Posted) /\ sendQ[s] # <<>> /\ Len(sendQ[s]) = 1
  BY DEF PostedOp, OpOf, SendQOK, ScqReap
<1>2. Tail(sendQ[s]) = <<>> /\ OpOf(sendQ[s]) # "none"
  BY <1>1, NonEmpty
<1>3. OpOf(<<>>) = "none"
  BY DEF OpOf
<1> QED
  BY <1>1, <1>2, <1>3 DEF PostedOp, SendQOK, ScqReap

(* An operation the adapter is done with stays posted until it is reaped.   *)
LEMMA PostedOpRetire ==
  ASSUME SendQOK, NEW s \in Slots, NEW st \in {"ok", "cancelled"},
         PostedOp[s] # "many", Retire(s, st)
  PROVE  PostedOp' = PostedOp
<1> DEFINE done == [op |-> Head(sendQ[s]).op, st |-> st]
<1>1. sendQ[s] \in Seq(Posted) /\ sendQ[s] # <<>> /\ Len(sendQ[s]) = 1
  BY DEF PostedOp, OpOf, SendQOK, Retire
<1>2. Tail(sendQ[s]) = <<>>
  BY <1>1, NonEmpty
<1>3. <<done>> \o Tail(sendQ[s]) = <<done>>
  <2>1. done \in Posted
    BY <1>1, NonEmpty DEF Posted
  <2>2. <<done>> \in Seq(Posted)
    BY <2>1
  <2>3. <<done>> \o <<>> = <<done>>
    BY <2>2, ConcatEmptySeq
  <2> QED
    BY <1>2, <2>3
<1>4. sendQ' = [sendQ EXCEPT ![s] = <<done>>]
  BY <1>3 DEF Retire, SendQOK
<1>5. OpOf(<<done>>) = OpOf(sendQ[s])
  BY <1>1 DEF OpOf
<1> QED
  BY <1>4, <1>5 DEF PostedOp, SendQOK

(* A slot keeps its user through every step that neither posts nor reaps    *)
(* for it, leaves its type alone, and makes nobody its user.                *)
LEMMA OneUserKept ==
  ASSUME OneUser, NEW t \in Slots,
         InUse(t) => InUse(t)',
         PostedOp'[t] = PostedOp[t], ulType'[t] = ulType[t],
         ScqHolds(t)' => ScqHolds(t) /\ scq'.pc = scq.pc,
         \A i \in Ios : SubHolds(i, t)' => SubHolds(i, t),
         \A i \in Ios : LamHolds(i, t)' => LamHolds(i, t)
  PROVE  OneUserOf(t)'
  BY DEF OneUser, OneUserOf

(* PostedOp is a function on the slots.                                     *)
LEMMA PostedOpDomain == DOMAIN PostedOp = Slots
  BY DEF PostedOp

(* A submission or an invalidation for one slot does not concern another.   *)
LEMMA PostElsewhere ==
  ASSUME SendQOK, NEW s, NEW op, Post(s, op), NEW t \in Slots, t # s
  PROVE  PostedOp'[t] = PostedOp[t]
  BY DEF Post, PostedOp, SendQOK

(* An invalidation (4511-4531) leaves the other slots alone.                *)
LEMMA InvalidateElsewhere ==
  ASSUME TypeOK, NEW s, InvalidateDataMr(s), NEW t \in Slots, t # s
  PROVE  /\ PostedOp'[t] = PostedOp[t] /\ ulType'[t] = ulType[t]
         /\ lReqState'[t] = lReqState[t]
<1>1. SendQOK
  BY DEF TypeOK, SendQOK
<1>2. PostedOp'[t] = PostedOp[t]
  BY <1>1, PostElsewhere DEF InvalidateDataMr, PostFails, PostedOp
<1> QED
  BY <1>2 DEF TypeOK, InvalidateDataMr, SetState, SetType

(* An idle send queue takes the invalidation, and its type is right.        *)
LEMMA InvalidateHere ==
  ASSUME TypeOK, NEW s \in Slots, InvalidateDataMr(s), PostedOp[s] = "none"
  PROVE  /\ PostedOp'[s] \in {"none", "INVALIDATE"} /\ ulType'[s] = "INVALIDATE"
         /\ lReqState'[s] = {"FREEING"}
<1>1. SendQOK
  BY DEF TypeOK, SendQOK
<1>2. CASE Post(s, "INVALIDATE")
  <2>1. PostedOp' = [PostedOp EXCEPT ![s] = "INVALIDATE"]
    BY <1>1, <1>2, PostedOpPost DEF Ops
  <2> QED
    BY <2>1 DEF TypeOK, InvalidateDataMr, SetState, SetType, PostedOp
<1>3. CASE PostFails
  BY <1>3 DEF TypeOK, InvalidateDataMr, SetState, SetType, PostFails, PostedOp
<1> QED
  BY <1>2, <1>3 DEF InvalidateDataMr

(* The submitting threads (5409-5479) hand a slot to its first operation or to *)
(* the LAM's callback, and use it no more.                                  *)
LEMMA OneUserSubmitter ==
  ASSUME TypeOK, OneUser, NEW i \in Ios, Submitter(i), NEW t \in Slots
  PROVE  OneUserOf(t)'
<1>sub. sub \in [Ios -> [pc : SubPcs, slot : Slots \cup {NoSlot}]]
  BY PlacesTyped
<1>lam. lam \in [Ios -> [pc : {"idle", "building", "registered"},
                     slot : Slots \cup {NoSlot}]]
  BY PlacesTyped
<1>state. /\ lReqState \in [Slots -> SUBSET StateBits]
         /\ ulType \in [Slots -> NdkTypes]
         /\ SendQOK
  BY DEF TypeOK, SendQOK
<1>1. CASE IOSubmitRW(i) \/ NoFreeIORequest(i)
  BY <1>1, <1>sub, OneUserKept DEF IOSubmitRW, NoFreeIORequest, SubGoto,
     PostedOp
<1>2. ASSUME NEW s \in Slots, GetCurrentFreeIORequest(i, s) PROVE OneUserOf(t)'
  <2>1. CASE ~(t = s)
    BY <1>2, <2>1, <1>sub, <1>state, OneUserKept DEF GetCurrentFreeIORequest,
       SetState, SubGoto, PostedOp
  <2>2. CASE t = s
    <3>1. /\ PostedOp[t] = "none" /\ ~ScqHolds(t)
          /\ \A j \in Ios : ~SubHolds(j, t) /\ ~LamHolds(j, t)
      BY <1>2, <2>2 DEF GetCurrentFreeIORequest, FreeSlots, OneUser, OneUserOf
    <3> QED
      BY <1>2, <2>2, <3>1, <1>sub, <1>state DEF GetCurrentFreeIORequest,
         SetState, SubGoto, PostedOp, OneUserOf
  <2> QED
    BY <2>1, <2>2
<1>3. CASE PrepareRWRequest(i)
  <2>1. CASE ~(SubHolds(i, t))
    BY <1>3, <2>1, <1>sub, <1>state, OneUserKept DEF PrepareRWRequest, Prepare,
       SetType, OrState, SetState, SubGoto, PostedOp
  <2>2. CASE SubHolds(i, t)
    <3>1. /\ PostedOp[t] = "none" /\ ~ScqHolds(t) /\ InUse(t)
          /\ \A j \in Ios : ~LamHolds(j, t) /\ (SubHolds(j, t) => j = i)
      BY <1>3, <2>2 DEF OneUser, OneUserOf
    <3> QED
      BY <1>3, <2>2, <3>1, <1>sub, <1>state DEF PrepareRWRequest, Prepare,
         SetType, OrState, SetState, SubGoto, PostedOp, OneUserOf
  <2> QED
    BY <2>1, <2>2
<1>4. CASE PrepareRWPending(i)
  <2>1. CASE ~(SubHolds(i, t))
    BY <1>4, <2>1, <1>sub, <1>lam, <1>state, OneUserKept DEF PrepareRWPending,
       Prepare, SetType, SubGoto, LamGoto, PostedOp
  <2>2. CASE SubHolds(i, t)
    <3>1. /\ PostedOp[t] = "none" /\ ~ScqHolds(t) /\ InUse(t)
          /\ \A j \in Ios : ~LamHolds(j, t) /\ (SubHolds(j, t) => j = i)
      BY <1>4, <2>2 DEF OneUser, OneUserOf
    <3> QED
      BY <1>4, <2>2, <3>1, <1>sub, <1>lam, <1>state DEF PrepareRWPending,
         Prepare, SetType, SubGoto, LamGoto, PostedOp, OneUserOf
  <2> QED
    BY <2>1, <2>2
<1>5. CASE PrepareRWReturnsPending(i) \/ CountFastRegister(i)
  BY <1>5, <1>sub, <1>state, OneUserKept DEF PrepareRWReturnsPending,
     CountFastRegister, SubGoto, OrState, SetState, StateBits, PostedOp
<1>6. CASE PrepareRWFails(i)
  <2>1. CASE ~(SubHolds(i, t))
    BY <1>6, <2>1, <1>sub, <1>state, OneUserKept DEF PrepareRWFails, Prepare,
       SetType, SubGoto, PostedOp
  <2>2. CASE SubHolds(i, t)
    <3>1. /\ PostedOp[t] = "none" /\ ~ScqHolds(t) /\ InUse(t)
          /\ \A j \in Ios : ~LamHolds(j, t) /\ (SubHolds(j, t) => j = i)
      BY <1>6, <2>2 DEF OneUser, OneUserOf
    <3> QED
      BY <1>6, <2>2, <3>1, <1>sub, <1>state DEF PrepareRWFails, Prepare,
         SetType, SubGoto, PostedOp, OneUserOf
  <2> QED
    BY <2>1, <2>2
<1>7. CASE SubmitFastRegister(i)
  <2>1. CASE ~(SubHolds(i, t))
    BY <1>7, <2>1, <1>sub, <1>state, PostElsewhere, OneUserKept DEF
       SubmitFastRegister, FastRegisterDataMR, SetType, OrState, SetState,
       SubGoto, PostedOp
  <2>2. CASE SubHolds(i, t)
    <3>1. /\ PostedOp[t] = "none" /\ ~ScqHolds(t) /\ InUse(t)
          /\ \A j \in Ios : ~LamHolds(j, t) /\ (SubHolds(j, t) => j = i)
      BY <1>7, <2>2 DEF OneUser, OneUserOf
    <3>2. PostedOp' = [PostedOp EXCEPT ![t] = "FAST_REGISTER"]
      BY <1>7, <2>2, <3>1, <1>sub, <1>state, PostedOpPost DEF
         SubmitFastRegister, Ops
    <3> QED
      BY <1>7, <2>2, <3>1, <3>2, <1>sub, <1>state, PostedOpDomain DEF
         SubmitFastRegister, FastRegisterDataMR, SetType, OrState, SetState,
         SubGoto, OneUserOf
  <2> QED
    BY <2>1, <2>2
<1>8. CASE SubmitFastRegisterFails(i)
  <2>1. CASE ~(SubHolds(i, t))
    BY <1>8, <2>1, <1>sub, <1>state, OneUserKept DEF SubmitFastRegisterFails,
       FastRegisterDataMR, PostFails, SetType, OrState, SetState, SubGoto,
       PostedOp
  <2>2. CASE SubHolds(i, t)
    <3>1. /\ PostedOp[t] = "none" /\ ~ScqHolds(t) /\ InUse(t)
          /\ \A j \in Ios : ~LamHolds(j, t) /\ (SubHolds(j, t) => j = i)
      BY <1>8, <2>2 DEF OneUser, OneUserOf
    <3> QED
      BY <1>8, <2>2, <3>1, <1>sub, <1>state DEF SubmitFastRegisterFails,
         FastRegisterDataMR, PostFails, SetType, OrState, SetState, SubGoto,
         PostedOp, OneUserOf
  <2> QED
    BY <2>1, <2>2
<1> QED
  BY <1>1, <1>2, <1>3, <1>4, <1>5, <1>6, <1>7, <1>8 DEF Submitter

(* The callback of a pending LAM (5252-5269) hands it to the registration.  *)
LEMMA OneUserLam ==
  ASSUME TypeOK, OneUser, NEW i \in Ios, LamCallback(i), NEW t \in Slots
  PROVE  OneUserOf(t)'
<1>lam. lam \in [Ios -> [pc : {"idle", "building", "registered"},
                     slot : Slots \cup {NoSlot}]]
  BY PlacesTyped
<1>state. /\ lReqState \in [Slots -> SUBSET StateBits]
         /\ ulType \in [Slots -> NdkTypes]
         /\ SendQOK
  BY DEF TypeOK, SendQOK
<1>1. CASE LamCountsFastRegister(i)
  BY <1>1, <1>lam, OneUserKept DEF LamCountsFastRegister, LamGoto, PostedOp
<1>2. CASE BuildDataLamCompletion(i)
  <2>1. CASE ~LamHolds(i, t)
    <3>1. PostedOp'[t] = PostedOp[t]
      BY <1>2, <2>1, <1>state, PostElsewhere
         DEF BuildDataLamCompletion, PostFails, PostedOp
    <3> QED
      BY <1>2, <2>1, <3>1, <1>lam, <1>state, OneUserKept
                  DEF BuildDataLamCompletion, FastRegisterDataMR, SetType,
         OrState, SetState,
             LamGoto
  <2>2. CASE LamHolds(i, t)
    <3>1. /\ PostedOp[t] = "none" /\ ~ScqHolds(t) /\ InUse(t)
          /\ \A j \in Ios : ~SubHolds(j, t) /\ (LamHolds(j, t) => j = i)
      BY <2>2 DEF OneUser, OneUserOf
    <3>2. CASE Post(t, "FAST_REGISTER") /\ FastRegisterDataMR(t)
      <4>1. PostedOp' = [PostedOp EXCEPT ![t] = "FAST_REGISTER"]
        BY <3>1, <3>2, <1>state, PostedOpPost DEF Ops
      <4>2. \A j \in Ios : ~LamHolds(j, t)'
        BY <1>2, <3>1, <1>lam DEF BuildDataLamCompletion, LamGoto
      <4> QED
        BY <1>2, <3>1, <3>2, <4>1, <4>2, <1>state, PostedOpDomain
           DEF BuildDataLamCompletion, FastRegisterDataMR, SetType, OrState,
               SetState, OneUserOf
    <3>3. CASE UNCHANGED sendQ
      <4>1. \A j \in Ios : ~LamHolds(j, t)'
        BY <1>2, <3>1, <1>lam DEF BuildDataLamCompletion, LamGoto
      <4>2. PostedOp'[t] = "none"
        BY <3>1, <3>3 DEF PostedOp
      <4> QED
        BY <1>2, <3>1, <4>1, <4>2 DEF BuildDataLamCompletion, OneUserOf
    <3> QED
      BY <1>2, <2>2, <3>2, <3>3 DEF BuildDataLamCompletion, PostFails
  <2> QED
    BY <2>1, <2>2
<1> QED
  BY <1>1, <1>2 DEF LamCallback

(* What the user of a slot knows of it when its operation is reaped.        *)
LEMMA OneUserReaped ==
  ASSUME TypeOK, OneUser, NEW s \in Slots, NEW type, ScqReap(s, type)
  PROVE  /\ PostedOp' = [PostedOp EXCEPT ![s] = "none"]
         /\ InUse(s) /\ scq.pc = "idle"
         /\ \A i \in Ios : ~SubHolds(i, s) /\ ~LamHolds(i, s)
<1>1. SendQOK
  BY DEF TypeOK, SendQOK
<1>2. PostedOp[s] # "none"
  BY <1>1, NonEmpty DEF ScqReap, PostedOp, SendQOK
<1>3. PostedOp[s] = ulType[s]
  BY <1>2 DEF OneUser, OneUserOf
<1>4. PostedOp[s] # "many"
  BY <1>3 DEF TypeOK, NdkTypes, Ops
<1> QED
  BY <1>1, <1>2, <1>4, PostedOpReap DEF OneUser, OneUserOf, ScqReap

(* The join finds a request that has no user: WAITING_FOR_RESPONSE is set.  *)
LEMMA OneUserJoin ==
  ASSUME TypeOK, OneUser, NEW s \in Slots \cup {NoSlot}, Join(s), NEW t \in Slots,
         UNCHANGED <<sub, lam>>, ScqHolds(t)' => ScqHolds(t) /\ scq'.pc = scq.pc
  PROVE  OneUserOf(t)'
<1>1. CASE UNCHANGED <<lReqState, ulType, sendQ>>
  BY <1>1, OneUserKept DEF PostedOp
<1>2. CASE lReqState[s] = AllStateDone /\ InvalidateDataMr(s)
  <2>1. CASE t # s
    BY <1>2, <2>1, InvalidateElsewhere, OneUserKept
  <2>2. CASE t = s
    <3>1. ~InUse(t)
      BY <1>2, <2>2 DEF AllStateDone, StateBits
    <3>2. /\ PostedOp[t] = "none" /\ ~ScqHolds(t)
          /\ \A j \in Ios : ~SubHolds(j, t) /\ ~LamHolds(j, t)
      BY <3>1 DEF OneUser, OneUserOf
    <3> QED
      BY <1>2, <2>2, <3>2, InvalidateHere DEF OneUserOf
  <2> QED
    BY <2>1, <2>2
<1> QED
  BY <1>1, <1>2 DEF Join

(* The SCQ callback (4024-4189) has the slot from an operation it reaped to the *)
(* next one it posts, or to its release.                                    *)
LEMMA OneUserScq ==
  ASSUME TypeOK, OneUser, ScqCallback, NEW t \in Slots
  PROVE  OneUserOf(t)'
<1>state. /\ lReqState \in [Slots -> SUBSET StateBits]
         /\ ulType \in [Slots -> NdkTypes]
         /\ SendQOK
  BY DEF TypeOK, SendQOK
<1>1. ASSUME NEW s \in Slots, IoFRCompletion(s) PROVE OneUserOf(t)'
  <2>1. /\ PostedOp' = [PostedOp EXCEPT ![s] = "none"]
        /\ InUse(s) /\ scq.pc = "idle"
        /\ \A i \in Ios : ~SubHolds(i, s) /\ ~LamHolds(i, s)
    BY <1>1, OneUserReaped DEF IoFRCompletion
  <2>2. CASE t # s
    BY <1>1, <2>1, <2>2, <1>state, PostedOpDomain, OneUserKept
       DEF IoFRCompletion, SetType, OrState, SetState, ScqGoto
  <2>3. CASE t = s
    BY <1>1, <2>1, <2>3, <1>state, PostedOpDomain
       DEF IoFRCompletion, SetType, OrState, SetState, ScqGoto, OneUserOf
  <2> QED
    BY <2>2, <2>3
<1>2. ASSUME NEW s \in Slots, IoSendCompletion(s) PROVE OneUserOf(t)'
  <2>1. /\ PostedOp' = [PostedOp EXCEPT ![s] = "none"]
        /\ InUse(s) /\ scq.pc = "idle"
        /\ \A i \in Ios : ~SubHolds(i, s) /\ ~LamHolds(i, s)
    BY <1>2, OneUserReaped DEF IoSendCompletion
  <2>2. CASE t # s
    BY <1>2, <2>1, <2>2, <1>state, PostedOpDomain, OneUserKept
       DEF IoSendCompletion, OrState, SetState, ScqGoto
  <2>3. CASE t = s
    BY <1>2, <2>1, <2>3, <1>state, PostedOpDomain
       DEF IoSendCompletion, OrState, SetState, ScqGoto, OneUserOf
  <2> QED
    BY <2>2, <2>3
<1>3. ASSUME NEW s \in Slots, IoCompletion(s) PROVE OneUserOf(t)'
  <2>1. /\ PostedOp' = [PostedOp EXCEPT ![s] = "none"]
        /\ InUse(s) /\ scq.pc = "idle"
        /\ \A i \in Ios : ~SubHolds(i, s) /\ ~LamHolds(i, s)
    BY <1>3, OneUserReaped DEF IoCompletion
  <2>2. CASE t # s
    BY <1>3, <2>1, <2>2, <1>state, PostedOpDomain, OneUserKept
       DEF IoCompletion, SetType, ScqGoto
  <2>3. CASE t = s
    BY <1>3, <2>1, <2>3, <1>state, PostedOpDomain
       DEF IoCompletion, SetType, ScqGoto, OneUserOf
  <2> QED
    BY <2>2, <2>3
<1>4. CASE SubmitSend
  <2>1. CASE t # scq.slot
    BY <1>4, <2>1, <1>state, PostElsewhere, OneUserKept DEF SubmitSend, ScqGoto
  <2>2. CASE t = scq.slot
    <3>1. /\ PostedOp[t] = "none" /\ InUse(t) /\ ulType[t] = "SEND"
          /\ \A j \in Ios : ~SubHolds(j, t) /\ ~LamHolds(j, t)
      BY <1>4, <2>2 DEF SubmitSend, OneUser, OneUserOf
    <3>2. PostedOp' = [PostedOp EXCEPT ![t] = "SEND"]
      BY <1>4, <2>2, <3>1, <1>state, PostedOpPost DEF SubmitSend, Ops
    <3> QED
            BY <1>4, <2>2, <3>1, <3>2, PostedOpDomain DEF SubmitSend, ScqGoto,
      OneUserOf
  <2> QED
    BY <2>1, <2>2
<1>5. CASE SubmitSendFails
  <2>1. CASE t # scq.slot
    BY <1>5, <2>1, InvalidateElsewhere, OneUserKept DEF SubmitSendFails, ScqGoto
  <2>2. CASE t = scq.slot
    <3>1. /\ PostedOp[t] = "none"
          /\ \A j \in Ios : ~SubHolds(j, t) /\ ~LamHolds(j, t)
      BY <1>5, <2>2 DEF SubmitSendFails, OneUser, OneUserOf
    <3> QED
            BY <1>5, <2>2, <3>1, InvalidateHere DEF SubmitSendFails, ScqGoto,
      OneUserOf
  <2> QED
    BY <2>1, <2>2
<1>6. CASE CountSend
  BY <1>6, <1>state, OneUserKept
     DEF CountSend, OrState, SetState, ScqGoto, PostedOp, StateBits
<1>7. CASE ScqJoin
  <2>1. scq.slot \in Slots \cup {NoSlot}
    BY PlacesTyped
  <2> QED
    BY <1>7, <2>1, OneUserJoin DEF ScqJoin, ScqGoto
<1>8. CASE FreeRequest
  <2>1. CASE t # scq.slot
        BY <1>8, <2>1, <1>state, OneUserKept DEF FreeRequest, SetState, ScqGoto,
       PostedOp
  <2>2. CASE t = scq.slot
    <3>1. /\ PostedOp[t] = "none"
          /\ \A j \in Ios : ~SubHolds(j, t) /\ ~LamHolds(j, t)
      BY <1>8, <2>2 DEF FreeRequest, OneUser, OneUserOf
    <3> QED
      BY <1>8, <2>2, <3>1 DEF FreeRequest, ScqGoto, PostedOp, OneUserOf
  <2> QED
    BY <2>1, <2>2
<1> QED
  BY <1>1, <1>2, <1>3, <1>4, <1>5, <1>6, <1>7, <1>8 DEF ScqCallback

(* The RCQ callback (3745-3986) uses a slot through the join only.          *)
LEMMA OneUserRcq ==
  ASSUME TypeOK, OneUser, RcqCallback, NEW t \in Slots
  PROVE  OneUserOf(t)'
<1>state. lReqState \in [Slots -> SUBSET StateBits]
  BY DEF TypeOK
<1>1. ASSUME NEW c \in rcq, ReceiveResponse(c) PROVE OneUserOf(t)'
    BY <1>1, <1>state, OneUserKept DEF ReceiveResponse, OrState, SetState,
  PostedOp
<1>2. ASSUME NEW c \in rcq, ReceiveInvalid(c) PROVE OneUserOf(t)'
  BY <1>2, OneUserKept DEF ReceiveInvalid, PostedOp
<1>3. CASE RcqJoin
  <2>1. rcqThread.slot \in Slots \cup {NoSlot}
    BY PlacesTyped
  <2> QED
    BY <1>3, <2>1, OneUserJoin DEF RcqJoin
<1>4. CASE \/ StoreResponse \/ RepostReceive \/ CountReceive
           \/ ReceiveFlushed \/ ReceiveFailed
  BY <1>4, OneUserKept DEF StoreResponse, RepostReceive, CountReceive,
     ReceiveFlushed, ReceiveFailed,
  PostedOp
<1> QED
  BY <1>1, <1>2, <1>3, <1>4 DEF RcqCallback

(* The adapter changes an operation's outcome, never which one is posted.   *)
LEMMA OneUserAdapter ==
  ASSUME TypeOK, OneUser, NEW s \in Slots, Adapter(s), NEW t \in Slots
  PROVE  OneUserOf(t)'
<1>1. SendQOK
  BY DEF TypeOK, SendQOK
<1>2. PICK st \in {"ok", "cancelled"} : Retire(s, st)
  BY DEF Adapter, AdapterExecutes, AdapterCancels
<1>3. PostedOp[s] # "none"
  BY <1>1, <1>2, NonEmpty DEF Retire, PostedOp, SendQOK
<1>4. PostedOp[s] = ulType[s]
  BY <1>3 DEF OneUser, OneUserOf
<1>5. PostedOp[s] # "many"
  BY <1>4 DEF TypeOK, NdkTypes, Ops
<1>6. PostedOp' = PostedOp
  BY <1>1, <1>2, <1>5, PostedOpRetire
<1> QED
  BY <1>6, OneUserKept DEF Adapter, AdapterExecutes, AdapterCancels

(* Every step of the queue keeps OneUser.                                   *)
LEMMA OneUserStep == TypeOK /\ OneUser /\ [Next]_vars => OneUser'
<1> SUFFICES ASSUME TypeOK, OneUser, [Next]_vars, NEW t \in Slots PROVE OneUserOf(t)'
  BY DEF OneUser
<1>1. ASSUME NEW c \in target, TargetAnswers(c) PROVE OneUserOf(t)'
  BY <1>1, OneUserKept DEF TargetAnswers, PostedOp
<1>2. CASE ConnectionLost \/ IOQPDisconnect
  BY <1>2, OneUserKept DEF ConnectionLost, IOQPDisconnect, PostedOp
<1>3. CASE Flush
  BY <1>3, OneUserKept DEF Flush, FlushTests, FlushTakes, PostedOp
<1>4. CASE Finished \/ UNCHANGED vars
  BY <1>4, OneUserKept DEF Finished, vars, PostedOp
<1> QED
    BY <1>1, <1>2, <1>3, <1>4, OneUserSubmitter, OneUserLam, OneUserScq,
  OneUserRcq,
     OneUserAdapter DEF Next

(* Whatever fails and whenever the connection is lost, a work request never *)
(* has two operations on the send queue and its shared type is the posted   *)
(* operation's: the dispatch of 4047 reaches the handler of what completed. *)
THEOREM OneOperationCorrect == Spec => []OneOperationPerRequest
<1>1. Init => OneUser
  BY DEF Init, OneUser, OneUserOf, PostedOp, OpOf
<1>2. TypeOK /\ OneUser => OneOperationPerRequest
  <2> SUFFICES ASSUME TypeOK, OneUser, NEW s \in Slots, sendQ[s] # <<>>
               PROVE  Len(sendQ[s]) = 1 /\ Head(sendQ[s]).op = ulType[s]
    BY DEF OneOperationPerRequest
  <2>1. sendQ[s] \in Seq(Posted)
    BY DEF TypeOK
  <2>2. PostedOp[s] = OpOf(sendQ[s]) /\ OpOf(sendQ[s]) # "none"
    BY <2>1, NonEmpty DEF PostedOp
  <2>3. PostedOp[s] = ulType[s]
    BY <2>2 DEF OneUser, OneUserOf
  <2>4. PostedOp[s] # "many"
    BY <2>3 DEF TypeOK, NdkTypes, Ops
  <2> QED
    BY <2>2, <2>3, <2>4 DEF OpOf
<1> QED
  BY <1>1, <1>2, OneUserStep, TypeCorrect, PTL DEF Spec
=============================================================================

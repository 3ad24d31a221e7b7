-------------------------- MODULE RdmaIoPromise_proofs --------------------------
(***************************************************************************)
(* RdmaIoQueue keeps the promise of IoQueueSpec, for every finite set of   *)
(* slots and every set of I/Os.                                            *)
(***************************************************************************)
EXTENDS RdmaIoWire_proofs

USE DEF ioVars, idVars, queueVars, callbacks, threadVars, wireVars
USE DEF SubHolds, LamHolds, ScqHolds, InUse, Early, ScqAt

(* An I/O whose LAM or registration is refused stays in its slot (5441,     *)
(* 5467), and a lost connection would have the flush complete it after it   *)
(* was refused: the promise is kept where not both can happen.              *)
NoRefusalAfterLoss ==
  "disconnect" \in Faults => {"lamFail", "submitFail"} \cap Faults = {}

(* Nothing is under way for the slot of a refused I/O.                      *)
RefusedSlot(s) ==
  /\ PostedOp[s] = "none" /\ lReqState[s] \subseteq EarlyBits
  /\ \A j \in Ios : ~SubHolds(j, s) /\ ~LamHolds(j, s)
  /\ {"lamFail", "submitFail"} \cap Faults # {}

(* An I/O accepted and not completed is in a slot; a refused one is out.    *)
OwnedOf(i) ==
  /\ sub[i].pc \notin NotYetIn \cup {"refused"} /\ os[i].done = 0
     => \E s \in Slots : pvParentReqCtx[s] = i
  /\ sub[i].pc = "refused" => os[i].done = 0
  /\ \A s \in Slots :
       /\ sub[i].pc = "refused" /\ pvParentReqCtx[s] = i => RefusedSlot(s)
       /\ connected /\ sub[i].pc = "register" /\ sub[i].slot = s
          => pvParentReqCtx[s] = i

OwnerInv ==
  /\ \A i \in Ios : OwnedOf(i)
  /\ ~connected => "disconnect" \in Faults

-----------------------------------------------------------------------------
(* The slot of a refused I/O stays as it is: no thread, no callback and no  *)
(* operation comes to it any more.                                          *)

(* The submitting threads (5409-5479).                                     *)
LEMMA RefusedSubmitter ==
  ASSUME TypeOK, OneUser, SlotInv, NEW i \in Ios, Submitter(i),
         NEW t \in Slots, pvParentReqCtx[t] # NoIo, RefusedSlot(t)
  PROVE  RefusedSlot(t)'
<1>inv. OneUserOf(t) /\ BitsOf(t) /\ lReqState[t] # {}
  BY SlotFacts DEF OneUser, ParentOf
<1>1. CASE IOSubmitRW(i)
  <2>1. KeepsQueues
    BY <1>1, QueuesKept, Typed DEF IOSubmitRW
  <2> QED
    BY <1>1, <1>inv, <2>1, Typed DEF IOSubmitRW, SubGoto, BecomesOn,
       KeepsQueues, BitsOf, RefusedSlot, EarlyBits, FreeSlots, AllStateDone,
       StateBits, SubSlotPcs
<1>2. CASE NoFreeIORequest(i)
  <2>1. KeepsQueues
    BY <1>2, QueuesKept, Typed DEF NoFreeIORequest
  <2> QED
    BY <1>2, <1>inv, <2>1, Typed DEF NoFreeIORequest, SubGoto, BecomesOn,
       KeepsQueues, BitsOf, RefusedSlot, EarlyBits, FreeSlots, AllStateDone,
       StateBits, SubSlotPcs
<1>3. ASSUME NEW s \in Slots, GetCurrentFreeIORequest(i, s) PROVE RefusedSlot(t)'
  <2>1. KeepsQueues
    BY <1>3, QueuesKept, Typed DEF GetCurrentFreeIORequest
  <2> QED
    BY <1>3, <1>inv, <2>1, Typed DEF GetCurrentFreeIORequest, SubGoto,
       FreeSlots, SetState, GetIOQUniqueCommandID, BecomesOn, KeepsQueues,
       BitsOf, RefusedSlot, EarlyBits, AllStateDone, StateBits, SubSlotPcs
<1>4. CASE PrepareRWRequest(i)
  <2>1. KeepsQueues
    BY <1>4, QueuesKept, Typed DEF PrepareRWRequest
  <2> QED
    BY <1>4, <1>inv, <2>1, Typed DEF PrepareRWRequest, SubGoto, Prepare,
       OrState, SetState, BecomesOn, KeepsQueues, BitsOf, RefusedSlot,
       EarlyBits, FreeSlots, AllStateDone, StateBits, SubSlotPcs
<1>5. CASE PrepareRWPending(i)
  <2>1. KeepsQueues
    BY <1>5, QueuesKept, Typed DEF PrepareRWPending
  <2> QED
    BY <1>5, <1>inv, <2>1, Typed DEF PrepareRWPending, SubGoto, LamGoto,
       Prepare, BecomesOn, KeepsQueues, BitsOf, RefusedSlot, EarlyBits,
       FreeSlots, AllStateDone, StateBits, SubSlotPcs
<1>6. CASE PrepareRWReturnsPending(i)
  <2>1. KeepsQueues
    BY <1>6, QueuesKept, Typed DEF PrepareRWReturnsPending
  <2> QED
    BY <1>6, <1>inv, <2>1, Typed DEF PrepareRWReturnsPending, SubGoto,
       OrState, SetState, BecomesOn, KeepsQueues, BitsOf, RefusedSlot,
       EarlyBits, FreeSlots, AllStateDone, StateBits, SubSlotPcs
<1>7. CASE PrepareRWFails(i)
  <2>1. KeepsQueues
    BY <1>7, QueuesKept, Typed DEF PrepareRWFails
  <2> QED
    BY <1>7, <1>inv, <2>1, Typed DEF PrepareRWFails, SubGoto, Prepare,
       BecomesOn, KeepsQueues, BitsOf, RefusedSlot, EarlyBits, FreeSlots,
       AllStateDone, StateBits, SubSlotPcs
<1>8. CASE SubmitFastRegister(i)
  <2>1. BecomesOn(sub[i].slot, "FAST_REGISTER", "posted")
    BY <1>8, PostEffect, Typed DEF SubmitFastRegister, OneUser, OneUserOf,
       Ops, SubSlotPcs
  <2> QED
    BY <1>8, <1>inv, <2>1, Typed DEF SubmitFastRegister, SubGoto,
       FastRegisterDataMR, OrState, SetState, BecomesOn, KeepsQueues, BitsOf,
       RefusedSlot, EarlyBits, FreeSlots, AllStateDone, StateBits, SubSlotPcs
<1>9. CASE SubmitFastRegisterFails(i)
  <2>1. KeepsQueues
    BY <1>9, QueuesKept, Typed DEF SubmitFastRegisterFails, PostFails
  <2> QED
    BY <1>9, <1>inv, <2>1, Typed DEF SubmitFastRegisterFails, SubGoto,
       FastRegisterDataMR, OrState, SetState, BecomesOn, KeepsQueues, BitsOf,
       RefusedSlot, EarlyBits, FreeSlots, AllStateDone, StateBits, SubSlotPcs
<1>10. CASE CountFastRegister(i)
  <2>1. KeepsQueues
    BY <1>10, QueuesKept, Typed DEF CountFastRegister
  <2> QED
    BY <1>10, <1>inv, <2>1, Typed DEF CountFastRegister, SubGoto, BecomesOn,
       KeepsQueues, BitsOf, RefusedSlot, EarlyBits, FreeSlots, AllStateDone,
       StateBits, SubSlotPcs
<1> QED
  BY <1>1, <1>2, <1>3, <1>4, <1>5, <1>6, <1>7, <1>8, <1>9, <1>10 DEF Submitter

(* The callback of a pending LAM (5252-5269).                              *)
LEMMA RefusedLam ==
  ASSUME TypeOK, OneUser, SlotInv, NEW i \in Ios, LamCallback(i),
         NEW t \in Slots, pvParentReqCtx[t] # NoIo, RefusedSlot(t)
  PROVE  RefusedSlot(t)'
<1>inv. OneUserOf(t) /\ BitsOf(t) /\ lReqState[t] # {}
  BY SlotFacts DEF OneUser, ParentOf
<1>1. CASE BuildDataLamCompletion(i)
  <2>1. /\ LamGoto(i, "registered", NoSlot) \/ LamGoto(i, "idle", NoSlot)
        /\ \/ /\ FastRegisterDataMR(lam[i].slot)
              /\ BecomesOn(lam[i].slot, "FAST_REGISTER", "posted")
           \/ FastRegisterDataMR(lam[i].slot) /\ KeepsQueues
           \/ UNCHANGED lReqState /\ KeepsQueues
    BY <1>1, PostEffect, QueuesKept, Typed DEF BuildDataLamCompletion,
       OneUser, OneUserOf, Ops, PostFails
  <2>2. t # lam[i].slot
    BY <1>1 DEF BuildDataLamCompletion, RefusedSlot
  <2>3. lReqState'[t] = lReqState[t]
    BY <2>1, <2>2, Typed DEF FastRegisterDataMR, OrState, SetState
  <2>4. PostedOp'[t] = PostedOp[t]
    BY <2>1, <2>2 DEF BecomesOn, KeepsQueues
  <2>5. UNCHANGED sub /\ \A j \in Ios : LamHolds(j, t)' => LamHolds(j, t)
    BY <1>1, <2>1, Typed DEF BuildDataLamCompletion, LamGoto
  <2> QED
    BY <2>3, <2>4, <2>5 DEF RefusedSlot
<1>2. CASE LamCountsFastRegister(i)
  <2>1. KeepsQueues
    BY <1>2, QueuesKept, Typed DEF LamCountsFastRegister
  <2> QED
    BY <1>2, <1>inv, <2>1, Typed DEF LamCountsFastRegister, LamGoto,
       BecomesOn, KeepsQueues, BitsOf, RefusedSlot, EarlyBits, FreeSlots,
       AllStateDone, StateBits, SubSlotPcs
<1> QED
  BY <1>1, <1>2 DEF LamCallback

(* The SCQ callback (4024-4189).                                           *)
LEMMA RefusedScq ==
  ASSUME TypeOK, OneUser, SlotInv, ScqCallback,
         NEW t \in Slots, pvParentReqCtx[t] # NoIo, RefusedSlot(t)
  PROVE  RefusedSlot(t)'
<1>inv. OneUserOf(t) /\ BitsOf(t) /\ lReqState[t] # {}
  BY SlotFacts DEF OneUser, ParentOf
<1>1. ASSUME NEW s \in Slots, IoFRCompletion(s) PROVE RefusedSlot(t)'
  <2>1. /\ BecomesOn(s, "none", "none")
        /\ PostedOp[s] = "FAST_REGISTER" /\ PostedSt[s] \in {"ok", "cancelled"}
        /\ Head(sendQ[s]).st = PostedSt[s]
        /\ scq.pc = "idle" /\ InUse(s)
        /\ \A i \in Ios : ~SubHolds(i, s) /\ ~LamHolds(i, s)
    BY <1>1, ReapEffect, Typed DEF IoFRCompletion
  <2> QED
    BY <1>1, <1>inv, <2>1, Typed DEF IoFRCompletion, ScqGoto, OrState,
       SetState, BecomesOn, KeepsQueues, BitsOf, RefusedSlot, EarlyBits,
       FreeSlots, AllStateDone, StateBits, SubSlotPcs
<1>2. ASSUME NEW s \in Slots, IoSendCompletion(s) PROVE RefusedSlot(t)'
  <2>1. /\ BecomesOn(s, "none", "none")
        /\ PostedOp[s] = "SEND" /\ PostedSt[s] \in {"ok", "cancelled"}
        /\ Head(sendQ[s]).st = PostedSt[s]
        /\ scq.pc = "idle" /\ InUse(s)
        /\ \A i \in Ios : ~SubHolds(i, s) /\ ~LamHolds(i, s)
    BY <1>2, ReapEffect, Typed DEF IoSendCompletion
  <2> QED
    BY <1>2, <1>inv, <2>1, Typed DEF IoSendCompletion, ScqGoto, OrState,
       SetState, BecomesOn, KeepsQueues, BitsOf, RefusedSlot, EarlyBits,
       FreeSlots, AllStateDone, StateBits, SubSlotPcs
<1>3. ASSUME NEW s \in Slots, IoCompletion(s) PROVE RefusedSlot(t)'
  <2>1. /\ BecomesOn(s, "none", "none")
        /\ PostedOp[s] = "INVALIDATE" /\ PostedSt[s] \in {"ok", "cancelled"}
        /\ Head(sendQ[s]).st = PostedSt[s]
        /\ scq.pc = "idle" /\ InUse(s)
        /\ \A i \in Ios : ~SubHolds(i, s) /\ ~LamHolds(i, s)
    BY <1>3, ReapEffect, Typed DEF IoCompletion
  <2> QED
    BY <1>3, <1>inv, <2>1, Typed DEF IoCompletion, ScqGoto, BecomesOn,
       KeepsQueues, BitsOf, RefusedSlot, EarlyBits, FreeSlots, AllStateDone,
       StateBits, SubSlotPcs
<1>4. CASE SubmitSend
  <2>1. BecomesOn(scq.slot, "SEND", "posted")
    BY <1>4, PostEffect, Typed DEF SubmitSend, OneUser, OneUserOf, Ops
  <2> QED
    BY <1>4, <1>inv, <2>1, Typed DEF SubmitSend, ScqGoto, BecomesOn,
       KeepsQueues, BitsOf, RefusedSlot, EarlyBits, FreeSlots, AllStateDone,
       StateBits, SubSlotPcs
<1>5. CASE SubmitSendFails
  <2>1. /\ lReqState' = [lReqState EXCEPT ![scq.slot] = {"FREEING"}]
        /\ BecomesOn(scq.slot, "INVALIDATE", "posted") \/ KeepsQueues
    BY <1>5, InvalidateEffect, Typed DEF SubmitSendFails, OneUser, OneUserOf
  <2> QED
    BY <1>5, <1>inv, <2>1, Typed DEF SubmitSendFails, ScqGoto, BecomesOn,
       KeepsQueues, BitsOf, RefusedSlot, EarlyBits, FreeSlots, AllStateDone,
       StateBits, SubSlotPcs
<1>6. CASE CountSend
  <2>1. KeepsQueues
    BY <1>6, QueuesKept, Typed DEF CountSend
  <2> QED
    BY <1>6, <1>inv, <2>1, Typed DEF CountSend, ScqGoto, OrState, SetState,
       BecomesOn, KeepsQueues, BitsOf, RefusedSlot, EarlyBits, FreeSlots,
       AllStateDone, StateBits, SubSlotPcs
<1>7. CASE ScqJoin
  <2>1. \/ UNCHANGED lReqState /\ KeepsQueues
        \/ /\ lReqState[scq.slot] = AllStateDone
           /\ PostedOp[scq.slot] = "none" /\ ~ScqHolds(scq.slot)
           /\ \A i \in Ios : ~SubHolds(i, scq.slot) /\ ~LamHolds(i, scq.slot)
           /\ lReqState' = [lReqState EXCEPT ![scq.slot] = {"FREEING"}]
           /\ BecomesOn(scq.slot, "INVALIDATE", "posted") \/ KeepsQueues
    BY <1>7, JoinEffect, Typed DEF ScqJoin
  <2> QED
    BY <1>7, <1>inv, <2>1, Typed DEF ScqJoin, ScqGoto, BecomesOn, KeepsQueues,
       BitsOf, RefusedSlot, EarlyBits, FreeSlots, AllStateDone, StateBits,
       SubSlotPcs
<1>8. CASE FreeRequest
  <2>1. KeepsQueues
    BY <1>8, QueuesKept, Typed DEF FreeRequest
  <2> QED
    BY <1>8, <1>inv, <2>1, Typed DEF FreeRequest, ScqGoto, SetState,
       BecomesOn, KeepsQueues, BitsOf, RefusedSlot, EarlyBits, FreeSlots,
       AllStateDone, StateBits, SubSlotPcs
<1> QED
  BY <1>1, <1>2, <1>3, <1>4, <1>5, <1>6, <1>7, <1>8 DEF ScqCallback

(* The RCQ callback (3745-3986).                                           *)
LEMMA RefusedRcq ==
  ASSUME TypeOK, OneUser, SlotInv, RcqCallback,
         NEW t \in Slots, pvParentReqCtx[t] # NoIo, RefusedSlot(t)
  PROVE  RefusedSlot(t)'
<1>inv. OneUserOf(t) /\ BitsOf(t) /\ lReqState[t] # {}
  BY SlotFacts DEF OneUser, ParentOf
<1>1. ASSUME NEW c \in rcq, ReceiveResponse(c) PROVE RefusedSlot(t)'
  <2>1. KeepsQueues
    BY <1>1, QueuesKept, Typed DEF ReceiveResponse
  <2>2. RequestOf(c.id) \in Slots /\ ppvIoReqTable[c.id] = RequestOf(c.id)
    BY <1>1 DEF ReceiveResponse, RequestOf
  <2>3. "SUBMITTING" \in lReqState[RequestOf(c.id)]
    <3>1. c.id \in CmdIds
      BY <1>1 DEF ReceiveResponse, RcqReap, TypeOK, Response
    <3> QED
      BY <2>2, <3>1 DEF SlotInv, TableInv
  <2>4. RequestOf(c.id) # t
    BY <2>3 DEF RefusedSlot, EarlyBits
  <2>5. lReqState'[t] = lReqState[t]
    BY <1>1, <2>2, <2>4, Typed DEF ReceiveResponse, OrState, SetState
  <2> QED
    BY <1>1, <2>1, <2>5 DEF ReceiveResponse, KeepsQueues, RefusedSlot
<1>2. ASSUME NEW c \in rcq, ReceiveInvalid(c) PROVE RefusedSlot(t)'
  <2>1. KeepsQueues
    BY <1>2, QueuesKept, Typed DEF ReceiveInvalid
  <2> QED
    BY <1>2, <1>inv, <2>1, Typed DEF ReceiveInvalid, RcqReap, RcqGoto,
       BecomesOn, KeepsQueues, BitsOf, RefusedSlot, EarlyBits, FreeSlots,
       AllStateDone, StateBits, SubSlotPcs
<1>3. CASE StoreResponse
  <2>1. KeepsQueues
    BY <1>3, QueuesKept, Typed DEF StoreResponse
  <2> QED
    BY <1>3, <1>inv, <2>1, Typed DEF StoreResponse, RcqGoto, BecomesOn,
       KeepsQueues, BitsOf, RefusedSlot, EarlyBits, FreeSlots, AllStateDone,
       StateBits, SubSlotPcs
<1>4. CASE RcqJoin
  <2>1. \/ UNCHANGED lReqState /\ KeepsQueues
        \/ /\ lReqState[rcqThread.slot] = AllStateDone
           /\ PostedOp[rcqThread.slot] = "none" /\ ~ScqHolds(rcqThread.slot)
           /\ \A i \in Ios : ~SubHolds(i, rcqThread.slot) /\ ~LamHolds(i, rcqThread.slot)
           /\ lReqState' = [lReqState EXCEPT ![rcqThread.slot] = {"FREEING"}]
           /\ BecomesOn(rcqThread.slot, "INVALIDATE", "posted") \/ KeepsQueues
    BY <1>4, JoinEffect, Typed DEF RcqJoin
  <2> QED
    BY <1>4, <1>inv, <2>1, Typed DEF RcqJoin, RcqGoto, BecomesOn, KeepsQueues,
       BitsOf, RefusedSlot, EarlyBits, FreeSlots, AllStateDone, StateBits,
       SubSlotPcs
<1>5. CASE ReceiveSteps
  <2>0. /\ rcqThread.pc \in ReceivePcs /\ rcqThread'.pc \in ReceivePcs
        /\ rcqThread.slot = NoSlot /\ rcqThread'.slot = NoSlot
        /\ UNCHANGED <<queueVars, sub, lam, scq, flush, sendQ, mr, target, rcq,
                       connected, os>>
    BY <1>5, ReceiveMoves
  <2>1. KeepsQueues
    BY <2>0, QueuesKept, Typed
  <2> QED
    BY <1>inv, <2>0, <2>1, Typed, NoneAssumption DEF ReceivePcs, BecomesOn,
       KeepsQueues, BitsOf, RefusedSlot, EarlyBits, FreeSlots, AllStateDone,
       StateBits, SubSlotPcs
<1> QED
  BY <1>1, <1>2, <1>3, <1>4, <1>5 DEF RcqCallback, ReceiveSteps

(* The adapter.                                                            *)
LEMMA RefusedAdapter ==
  ASSUME TypeOK, OneUser, SlotInv, NEW s \in Slots, Adapter(s),
         NEW t \in Slots, pvParentReqCtx[t] # NoIo, RefusedSlot(t)
  PROVE  RefusedSlot(t)'
<1>inv. OneUserOf(t) /\ BitsOf(t) /\ lReqState[t] # {}
  BY SlotFacts DEF OneUser, ParentOf
<1>1. CASE AdapterExecutes(s)
  <2>1. /\ BecomesOn(s, PostedOp[s], "ok")
        /\ PostedOp[s] = Head(sendQ[s]).op /\ PostedOp[s] \in Ops
        /\ PostedSt[s] = "posted"
    BY <1>1, RetireEffect, Typed DEF AdapterExecutes
  <2> QED
    BY <1>1, <1>inv, <2>1, Typed DEF AdapterExecutes, BecomesOn, KeepsQueues,
       BitsOf, RefusedSlot, EarlyBits, FreeSlots, AllStateDone, StateBits,
       SubSlotPcs
<1>2. CASE AdapterCancels(s)
  <2>1. /\ BecomesOn(s, PostedOp[s], "cancelled")
        /\ PostedOp[s] = Head(sendQ[s]).op /\ PostedOp[s] \in Ops
        /\ PostedSt[s] = "posted"
    BY <1>2, RetireEffect, Typed DEF AdapterCancels
  <2> QED
    BY <1>2, <1>inv, <2>1, Typed DEF AdapterCancels, BecomesOn, KeepsQueues,
       BitsOf, RefusedSlot, EarlyBits, FreeSlots, AllStateDone, StateBits,
       SubSlotPcs
<1> QED
  BY <1>1, <1>2 DEF Adapter

(* The target, the connection and the flush (4272-4318).                   *)
LEMMA RefusedRest ==
  ASSUME TypeOK, OneUser, SlotInv, Flush \/ (\E c \in target : TargetAnswers(c))
         \/ ConnectionLost \/ IOQPDisconnect,
         NEW t \in Slots, pvParentReqCtx[t] # NoIo, RefusedSlot(t)
  PROVE  RefusedSlot(t)'
<1>inv. OneUserOf(t) /\ BitsOf(t) /\ lReqState[t] # {}
  BY SlotFacts DEF OneUser, ParentOf
<1>1. ASSUME NEW c \in target, TargetAnswers(c) PROVE RefusedSlot(t)'
  <2>1. KeepsQueues
    BY <1>1, QueuesKept, Typed DEF TargetAnswers
  <2> QED
    BY <1>1, <1>inv, <2>1, Typed DEF TargetAnswers, BecomesOn, KeepsQueues,
       BitsOf, RefusedSlot, EarlyBits, FreeSlots, AllStateDone, StateBits,
       SubSlotPcs
<1>2. CASE ConnectionLost
  <2>1. KeepsQueues
    BY <1>2, QueuesKept, Typed DEF ConnectionLost
  <2> QED
    BY <1>2, <1>inv, <2>1, Typed DEF ConnectionLost, BecomesOn, KeepsQueues,
       BitsOf, RefusedSlot, EarlyBits, FreeSlots, AllStateDone, StateBits,
       SubSlotPcs
<1>3. CASE IOQPDisconnect
  <2>1. KeepsQueues
    BY <1>3, QueuesKept, Typed DEF IOQPDisconnect
  <2> QED
    BY <1>3, <1>inv, <2>1, Typed DEF IOQPDisconnect, BecomesOn, KeepsQueues,
       BitsOf, RefusedSlot, EarlyBits, FreeSlots, AllStateDone, StateBits,
       SubSlotPcs
<1>4. ASSUME NEW s \in Slots, FlushTests(s) PROVE RefusedSlot(t)'
  <2>1. KeepsQueues
    BY <1>4, QueuesKept, Typed DEF FlushTests
  <2> QED
    BY <1>4, <1>inv, <2>1, Typed DEF FlushTests, BecomesOn, KeepsQueues,
       BitsOf, RefusedSlot, EarlyBits, FreeSlots, AllStateDone, StateBits,
       SubSlotPcs
<1>5. CASE FlushTakes
  <2>1. KeepsQueues
    BY <1>5, QueuesKept, Typed DEF FlushTakes
  <2> QED
    BY <1>5, <1>inv, <2>1, Typed DEF FlushTakes, ParentTaken, BecomesOn,
       KeepsQueues, BitsOf, RefusedSlot, EarlyBits, FreeSlots, AllStateDone,
       StateBits, SubSlotPcs
<1> QED
  BY <1>1, <1>2, <1>3, <1>4, <1>5 DEF Flush

(* No step disturbs the slot of a refused I/O.                              *)
LEMMA RefusedStep ==
  ASSUME TypeOK, OneUser, SlotInv, [Next]_vars,
         NEW t \in Slots, pvParentReqCtx[t] # NoIo, RefusedSlot(t)
  PROVE  RefusedSlot(t)'
<1>1. CASE Finished \/ UNCHANGED vars
  BY <1>1 DEF Finished, vars, RefusedSlot, PostedOp
<1>2. CASE Next /\ ~Finished
  BY <1>2, RefusedSubmitter, RefusedLam, RefusedScq, RefusedRcq, RefusedAdapter,
     RefusedRest DEF Next
<1> QED
  BY <1>1, <1>2

-----------------------------------------------------------------------------
(* Which slot an I/O is in.                                                 *)

(* A step that moves no I/O into or out of a slot and no thread that submits.*)
LEMMA OwnerUntouched ==
  ASSUME TypeOK, OneUser, SlotInv, OwnerInv, [Next]_vars,
         UNCHANGED <<sub, os, pvParentReqCtx, connected>>
  PROVE  OwnerInv'
  BY RefusedStep, NoneAssumption DEF OwnerInv, OwnedOf

(* The thread of I/O i goes on, without leaving the queue.                  *)
LEMMA OwnerSubmits ==
  ASSUME TypeOK, OneUser, OnceInv, SlotInv, OwnerInv, [Next]_vars,
         NEW i \in Ios, NEW pc \in SubPcs, NEW s, SubGoto(i, pc, s),
         pc \in {"registered", "pending", "lamReturn"} => sub[i].pc \notin NotYetIn,
         pc \notin {"refused", "register"}, sub[i].pc # "refused",
         UNCHANGED <<os, pvParentReqCtx, connected>>
  PROVE  OwnerInv'
<1>1. \A j \in Ios : sub'[j] = IF j = i THEN [pc |-> pc, slot |-> s] ELSE sub[j]
  BY Typed DEF SubGoto
<1> QED
  BY <1>1, RefusedStep, NoneAssumption DEF OwnerInv, OwnedOf, NotYetIn, SubPcs, SubSlotPcs

(* The thread of I/O i is refused before it has a slot.                     *)
LEMMA OwnerTurnedAway ==
  ASSUME TypeOK, OneUser, OnceInv, SlotInv, OwnerInv, [Next]_vars,
         NEW i \in Ios, sub[i].pc \in {"new", "alloc"}, SubGoto(i, "refused", NoSlot),
         UNCHANGED <<os, pvParentReqCtx, connected>>
  PROVE  OwnerInv'
<1>1. \A j \in Ios :
        sub'[j] = IF j = i THEN [pc |-> "refused", slot |-> NoSlot] ELSE sub[j]
  BY Typed DEF SubGoto
<1>2. os[i].done = 0 /\ \A s \in Slots : pvParentReqCtx[s] # i
  BY DEF OnceInv, NotYetIn
<1> QED
  BY <1>1, <1>2, RefusedStep, NoneAssumption DEF OwnerInv, OwnedOf

(* The thread of I/O i puts it into its slot (5435).                        *)
LEMMA OwnerPrepared ==
  ASSUME TypeOK, OneUser, OnceInv, SlotInv, OwnerInv, [Next]_vars,
         NEW i \in Ios, sub[i].pc = "prepare", NEW s \in Slots, s = sub[i].slot,
         Prepare(s, i),
         NEW pc \in {"register", "lamReturn", "refused"}, NEW r, SubGoto(i, pc, r),
         pc = "register" => r = s,
         pc = "refused" => RefusedSlot(s)',
         UNCHANGED <<os, connected>>
  PROVE  OwnerInv'
<1>1. \A j \in Ios : sub'[j] = IF j = i THEN [pc |-> pc, slot |-> r] ELSE sub[j]
  BY Typed DEF SubGoto
<1>2. SubHolds(i, s)
  OBVIOUS
<1>3. pvParentReqCtx[s] = NoIo
  BY <1>2, SlotFacts DEF ParentOf
<1>4. \A t \in Slots : pvParentReqCtx'[t] = IF t = s THEN i ELSE pvParentReqCtx[t]
  BY Typed DEF Prepare
<1>5. os[i].done = 0 /\ \A t \in Slots : pvParentReqCtx[t] # i
  BY DEF OnceInv, NotYetIn
<1>6. \A j \in Ios : SubHolds(j, s) => j = i
  BY <1>2 DEF OneUser, OneUserOf
<1>7. ASSUME NEW j \in Ios, j # i PROVE OwnedOf(j)'
  <2>1. \A t \in Slots : pvParentReqCtx'[t] = j <=> pvParentReqCtx[t] = j
    BY <1>3, <1>4, <1>7, NoneAssumption
  <2> QED
    BY <1>1, <1>6, <1>7, <2>1, RefusedStep, NoneAssumption DEF OwnerInv, OwnedOf
<1>8. OwnedOf(i)'
  BY <1>1, <1>2, <1>4, <1>5 DEF OwnedOf
<1> QED
  BY <1>7, <1>8 DEF OwnerInv

(* The registration of I/O i was refused: its thread leaves it in its slot. *)
LEMMA OwnerRefused ==
  ASSUME TypeOK, OneUser, OnceInv, SlotInv, OwnerInv, NoRefusalAfterLoss,
         NEW i \in Ios, SubmitFastRegisterFails(i)
  PROVE  OwnerInv'
<1> PICK r \in Slots : r = sub[i].slot
  BY Typed DEF SubmitFastRegisterFails, SubSlotPcs
<1>step. Next
  BY DEF Next, Submitter
<1>1. \A j \in Ios :
        sub'[j] = IF j = i THEN [pc |-> "refused", slot |-> NoSlot] ELSE sub[j]
  BY Typed DEF SubmitFastRegisterFails, SubGoto
<1>2. SubHolds(i, r) /\ "submitFail" \in Faults
  BY DEF SubmitFastRegisterFails, PostFails
<1>3. connected /\ pvParentReqCtx[r] = i
  BY <1>2 DEF OwnerInv, OwnedOf, NoRefusalAfterLoss, SubmitFastRegisterFails
<1>4. os[i].done = 0 /\ \A s \in Slots : pvParentReqCtx[s] = i => s = r
  BY <1>2, <1>3 DEF OnceInv
<1>5. RefusedSlot(r)'
  <2>1. /\ PostedOp[r] = "none" /\ \A j \in Ios : ~LamHolds(j, r)
        /\ \A j \in Ios : SubHolds(j, r) => j = i
    BY <1>2 DEF OneUser, OneUserOf
  <2>2. PostedOp'[r] = "none"
    BY <2>1 DEF SubmitFastRegisterFails, PostFails, PostedOp
  <2>3. lReqState[r] \subseteq EarlyBits
    BY <1>2, SlotFacts DEF BitsOf
  <2>4. lReqState'[r] \subseteq EarlyBits
    BY <1>2, <2>3, Typed
       DEF SubmitFastRegisterFails, FastRegisterDataMR, OrState, SetState, EarlyBits
  <2> QED
    BY <1>1, <1>2, <2>1, <2>2, <2>4 DEF SubmitFastRegisterFails, RefusedSlot
<1>6. UNCHANGED <<os, pvParentReqCtx, connected>>
  BY DEF SubmitFastRegisterFails
<1> QED
  BY <1>1, <1>4, <1>5, <1>6, <1>step, RefusedStep, NoneAssumption DEF OwnerInv, OwnedOf

(* An I/O taken out of slot s was not refused, and is completed.            *)
LEMMA OwnerTaken ==
  ASSUME TypeOK, OneUser, OnceInv, SlotInv, OwnerInv, [Next]_vars,
         NEW s \in Slots, NEW status, pvParentReqCtx[s] # NoIo, ~RefusedSlot(s),
         \A i \in Ios : connected => ~SubHolds(i, s),
         ParentTaken(s), CompleteToOs(pvParentReqCtx[s], status),
         UNCHANGED <<sub, connected>>
  PROVE  OwnerInv' /\ sub[pvParentReqCtx[s]].pc \notin NotYetIn \cup {"refused"}
<1>1. PICK i \in Ios : pvParentReqCtx[s] = i
  BY Typed
<1>2. os[i].done = 0 /\ sub[i].pc \notin NotYetIn
      /\ \A r \in Slots : pvParentReqCtx[r] = i => r = s
  BY <1>1 DEF OnceInv
<1>3. sub[i].pc # "refused"
  BY <1>1 DEF OwnerInv, OwnedOf
<1>4. \A r \in Slots : pvParentReqCtx'[r] = IF r = s THEN NoIo ELSE pvParentReqCtx[r]
  BY Typed DEF ParentTaken
<1>5. \A j \in Ios : os'[j].done = IF j = i THEN 1 ELSE os[j].done
  BY <1>1, <1>2 DEF TypeOK, CompleteToOs
<1>6. ASSUME NEW j \in Ios, j # i PROVE OwnedOf(j)'
  <2>1. \A r \in Slots : pvParentReqCtx'[r] = j <=> pvParentReqCtx[r] = j
    BY <1>1, <1>4, <1>6, NoneAssumption
  <2> QED
    BY <1>5, <1>6, <2>1, RefusedStep, NoneAssumption DEF OwnerInv, OwnedOf
<1>7. OwnedOf(i)'
  BY <1>1, <1>2, <1>3, <1>4, <1>5, NoneAssumption DEF OwnerInv, OwnedOf
<1> QED
  BY <1>1, <1>2, <1>3, <1>6, <1>7 DEF OwnerInv

(* The submitting threads.                                                  *)
LEMMA OwnerSubmitter ==
  ASSUME TypeOK, OneUser, OnceInv, SlotInv, OwnerInv, NoRefusalAfterLoss,
         NEW i \in Ios, Submitter(i)
  PROVE  OwnerInv'
<1>step. Next
  BY DEF Next
<1>1. CASE IOSubmitRW(i) /\ ulDisconnectFlag = "0"
  BY <1>1, <1>step, OwnerSubmits DEF IOSubmitRW, SubPcs
<1>2. CASE IOSubmitRW(i) /\ ulDisconnectFlag # "0"
  BY <1>2, <1>step, OwnerTurnedAway DEF IOSubmitRW
<1>3. CASE NoFreeIORequest(i)
  BY <1>3, <1>step, OwnerTurnedAway DEF NoFreeIORequest
<1>4. ASSUME NEW s \in Slots, GetCurrentFreeIORequest(i, s) PROVE OwnerInv'
  BY <1>4, <1>step, OwnerSubmits DEF GetCurrentFreeIORequest, SubPcs, SubSlotPcs
<1>5. ASSUME sub[i].pc = "prepare" PROVE sub[i].slot \in Slots
  BY <1>5, Typed DEF SubSlotPcs
<1>6. CASE PrepareRWRequest(i)
  BY <1>5, <1>6, <1>step, OwnerPrepared DEF PrepareRWRequest
<1>7. CASE PrepareRWPending(i)
  BY <1>5, <1>7, <1>step, OwnerPrepared DEF PrepareRWPending
<1>8. CASE PrepareRWReturnsPending(i)
  BY <1>8, <1>step, OwnerSubmits DEF PrepareRWReturnsPending, NotYetIn, SubPcs
<1>9. CASE PrepareRWFails(i)
  <2>1. PICK s \in Slots : s = sub[i].slot
    BY <1>5, <1>9 DEF PrepareRWFails
  <2>2. SubHolds(i, s) /\ "lamFail" \in Faults
    BY <1>9, <2>1 DEF PrepareRWFails
  <2>3. /\ PostedOp[s] = "none" /\ \A j \in Ios : ~LamHolds(j, s)
        /\ \A j \in Ios : SubHolds(j, s) => j = i
    BY <2>2 DEF OneUser, OneUserOf
  <2>4. lReqState[s] \subseteq EarlyBits
    BY <2>2, SlotFacts DEF BitsOf
  <2>5. RefusedSlot(s)'
    BY <1>9, <2>2, <2>3, <2>4, Typed DEF PrepareRWFails, SubGoto, RefusedSlot, PostedOp
  <2> QED
    BY <1>9, <1>step, <2>1, <2>5, OwnerPrepared DEF PrepareRWFails
<1>10. CASE SubmitFastRegister(i)
  BY <1>10, <1>step, OwnerSubmits DEF SubmitFastRegister, NotYetIn, SubPcs
<1>11. CASE SubmitFastRegisterFails(i)
  BY <1>11, OwnerRefused
<1>12. CASE CountFastRegister(i)
  BY <1>12, <1>step, OwnerSubmits DEF CountFastRegister, NotYetIn, SubPcs
<1> QED
  BY <1>1, <1>2, <1>3, <1>4, <1>6, <1>7, <1>8, <1>9, <1>10, <1>11, <1>12 DEF Submitter

(* The slot whose invalidation is reaped is nobody's who was refused.       *)
LEMMA CompletionTakes ==
  ASSUME TypeOK, OneUser, OnceInv, SlotInv, OwnerInv,
         NEW s \in Slots, IoCompletion(s), pvParentReqCtx[s] # NoIo,
         "FREEING" \in lReqState[s]
  PROVE  /\ OwnerInv' /\ sub[pvParentReqCtx[s]].pc \notin NotYetIn \cup {"refused"}
         /\ connected => mr[s] = NoIo
<1>1. PostedOp[s] = "INVALIDATE" /\ \A i \in Ios : ~SubHolds(i, s)
  BY ReapEffect DEF IoCompletion
<1>2. ~RefusedSlot(s)
  BY <1>1 DEF RefusedSlot
<1>3. Next
  BY DEF Next, ScqCallback
<1>4. ParentTaken(s) /\ CompleteToOs(pvParentReqCtx[s], Status[s])
      /\ UNCHANGED <<sub, connected>>
  BY DEF IoCompletion, ParentTaken
<1>5. ASSUME connected PROVE mr[s] = NoIo
  <2>1. PostedSt[s] \in {"ok", "cancelled"}
    BY ReapEffect DEF IoCompletion
  <2> QED
    BY <1>1, <1>5, <2>1, SlotFacts DEF BufferOf
<1> QED
  BY <1>1, <1>2, <1>3, <1>4, <1>5, OwnerTaken

(* What the flush takes out of a slot was not refused, as the connection is *)
(* gone.                                                                    *)
LEMMA FlushCompletes ==
  ASSUME TypeOK, OneUser, OnceInv, SlotInv, OwnerInv, NoRefusalAfterLoss,
         FlushTakes, pvParentReqCtx[flush] # NoIo
  PROVE  /\ OwnerInv' /\ sub[pvParentReqCtx[flush]].pc \notin NotYetIn \cup {"refused"}
         /\ ~connected
<1>1. PICK s \in Slots : s = flush
  BY DEF FlushTakes, TypeOK
<1>2. ~connected
  BY DEF SlotInv, ConnectionInv, FlushTakes
<1>3. ~RefusedSlot(s)
  BY <1>2 DEF OwnerInv, NoRefusalAfterLoss, RefusedSlot
<1>4. Next
  BY DEF Next, Flush
<1>5. ParentTaken(s) /\ CompleteToOs(pvParentReqCtx[s], "flushed")
      /\ UNCHANGED <<sub, connected>>
  BY <1>1 DEF FlushTakes
<1> QED
  BY <1>1, <1>2, <1>3, <1>4, <1>5, OwnerTaken

(* Every step of the queue keeps OwnerInv.                                  *)
LEMMA OwnerStep ==
  TypeOK /\ OneUser /\ OnceInv /\ SlotInv /\ OwnerInv /\ NoRefusalAfterLoss /\ [Next]_vars
  => OwnerInv'
<1> SUFFICES ASSUME TypeOK, OneUser, OnceInv, SlotInv, OwnerInv, NoRefusalAfterLoss,
                    [Next]_vars
             PROVE  OwnerInv'
  OBVIOUS
<1>1. ASSUME NEW i \in Ios, LamCallback(i) PROVE OwnerInv'
  BY <1>1, OwnerUntouched DEF LamCallback, BuildDataLamCompletion, LamCountsFastRegister
<1>2. CASE ScqCallback
  <2>1. ASSUME NEW s \in Slots, IoCompletion(s) PROVE OwnerInv'
    <3>1. CASE pvParentReqCtx[s] # NoIo /\ "FREEING" \in lReqState[s]
      BY <2>1, <3>1, CompletionTakes
    <3> QED
      BY <2>1, <3>1, OwnerUntouched DEF IoCompletion
  <2>2. ASSUME NEW s \in Slots, IoFRCompletion(s) \/ IoSendCompletion(s) PROVE OwnerInv'
    BY <2>2, OwnerUntouched DEF IoFRCompletion, IoSendCompletion
  <2>3. CASE SubmitSend \/ SubmitSendFails \/ CountSend \/ ScqJoin \/ FreeRequest
    BY <2>3, OwnerUntouched
       DEF SubmitSend, SubmitSendFails, CountSend, ScqJoin, FreeRequest
  <2> QED
    BY <1>2, <2>1, <2>2, <2>3 DEF ScqCallback
<1>3. CASE RcqCallback
  BY <1>3, OwnerUntouched DEF RcqCallback, ReceiveResponse, ReceiveInvalid,
     StoreResponse, RcqJoin, RepostReceive, CountReceive, ReceiveFlushed, ReceiveFailed
<1>4. ASSUME NEW s \in Slots, Adapter(s) PROVE OwnerInv'
  BY <1>4, OwnerUntouched DEF Adapter, AdapterExecutes, AdapterCancels
<1>5. CASE Flush
  <2>1. CASE FlushTakes /\ pvParentReqCtx[flush] # NoIo
    BY <2>1, FlushCompletes
  <2>2. CASE FlushTakes /\ pvParentReqCtx[flush] = NoIo
    BY <2>2, OwnerUntouched DEF FlushTakes
  <2>3. ASSUME NEW s \in Slots, FlushTests(s) PROVE OwnerInv'
    BY <2>3, OwnerUntouched DEF FlushTests
  <2> QED
    BY <1>5, <2>1, <2>2, <2>3 DEF Flush
<1>6. ASSUME NEW c \in target, TargetAnswers(c) PROVE OwnerInv'
  BY <1>6, OwnerUntouched DEF TargetAnswers
<1>7. CASE ConnectionLost
  BY <1>7, RefusedStep, NoneAssumption DEF ConnectionLost, OwnerInv, OwnedOf
<1>8. CASE IOQPDisconnect
  BY <1>8, OwnerUntouched DEF IOQPDisconnect
<1>9. CASE Finished \/ UNCHANGED vars
  BY <1>9, OwnerUntouched DEF Finished, vars
<1> QED
  BY <1>1, <1>2, <1>3, <1>4, <1>5, <1>6, <1>7, <1>8, <1>9, OwnerSubmitter DEF Next

-----------------------------------------------------------------------------
(* The steps of IoQueueSpec.                                                *)
Step == [Promise!Next]_(Promise!absVars)

PhaseOf(pc, done) ==
  CASE pc = "refused" /\ done = 0 -> "refused"
    [] pc # "refused" /\ done = 1 -> "completed"
    [] pc \in {"new", "alloc"} /\ done = 0 -> "idle"
    [] pc \notin {"new", "alloc", "refused"} /\ done = 0 -> "accepted"
    [] OTHER -> "returned twice"

(* The phase of each I/O.                                                   *)
LEMMA PhaseValue ==
  ASSUME NEW pc, NEW done
  PROVE  /\ pc = "refused" /\ done = 0 => PhaseOf(pc, done) = "refused"
         /\ pc # "refused" /\ done = 1 => PhaseOf(pc, done) = "completed"
         /\ pc \in {"new", "alloc"} /\ done = 0 => PhaseOf(pc, done) = "idle"
         /\ pc \notin {"new", "alloc", "refused"} /\ done = 0 =>
              PhaseOf(pc, done) = "accepted"
  BY DEF PhaseOf

(* The phases, before and after a step.                                     *)
LEMMA PhasesAre ==
  /\ \A i \in Ios : phase[i] = PhaseOf(sub[i].pc, os[i].done)
  /\ \A i \in Ios : phase'[i] = PhaseOf(sub'[i].pc, os'[i].done)
  /\ DOMAIN phase = Ios /\ DOMAIN phase' = Ios
  BY DEF phase, PhaseOf

(* A step that changes nobody's phase.                                      *)
LEMMA PhaseKept ==
  ASSUME \A i \in Ios : PhaseOf(sub'[i].pc, os'[i].done) = PhaseOf(sub[i].pc, os[i].done)
  PROVE  phase' = phase
<1> SUFFICES [i \in Ios |-> PhaseOf(sub'[i].pc, os'[i].done)]
             = [i \in Ios |-> PhaseOf(sub[i].pc, os[i].done)]
  BY DEF phase, PhaseOf
<1> QED
  OBVIOUS

(* A step that changes the phase of I/O i.                                  *)
LEMMA PhaseMoves ==
  ASSUME NEW i \in Ios,
         \A j \in Ios : j # i =>
           PhaseOf(sub'[j].pc, os'[j].done) = PhaseOf(sub[j].pc, os[j].done)
  PROVE  phase' = [phase EXCEPT ![i] = PhaseOf(sub'[i].pc, os'[i].done)]
<1> DEFINE P(j) == PhaseOf(sub[j].pc, os[j].done)
           Q(j) == PhaseOf(sub'[j].pc, os'[j].done)
<1>1. phase = [j \in Ios |-> P(j)] /\ phase' = [j \in Ios |-> Q(j)]
  BY DEF phase, PhaseOf
<1> HIDE DEF P, Q
<1>2. \A j \in Ios : j # i => Q(j) = P(j)
  BY DEF P, Q
<1>3. phase' = [phase EXCEPT ![i] = Q(i)]
  BY <1>1, <1>2
<1> QED
  BY <1>3 DEF Q

(* A step that registers and invalidates nothing.                           *)
LEMMA ExposedKept == ASSUME UNCHANGED <<mr, connected>> PROVE exposed' = exposed
  BY DEF exposed

(* Nobody is in work whose thread has not a slot yet, or was refused.       *)
LEMMA InWorkIs ==
  ASSUME OnceInv, OwnerInv
  PROVE  Promise!InWork \subseteq
           {i \in Ios : sub[i].pc \notin {"new", "alloc", "refused"} /\ os[i].done = 0}
<1> SUFFICES ASSUME NEW i \in Ios, phase[i] = "accepted"
             PROVE  sub[i].pc \notin {"new", "alloc", "refused"} /\ os[i].done = 0
  BY DEF Promise!InWork
<1>1. phase[i] = PhaseOf(sub[i].pc, os[i].done)
  BY PhasesAre
<1> QED
  BY <1>1 DEF PhaseOf

-----------------------------------------------------------------------------
(* What each step of the queue is to the OS.                                *)

(* A buffer open to the network is that of the I/O in its slot.             *)
LEMMA ExposedIs ==
  ASSUME TypeOK, SlotInv, NEW i \in Ios, i \in exposed
  PROVE  connected /\ \E s \in Slots : mr[s] = i /\ pvParentReqCtx[s] = i
<1>1. connected /\ \E s \in Slots : mr[s] = i
  BY DEF exposed
<1> QED
  BY <1>1, SlotFacts, NoneAssumption DEF BufferOf

(* Nothing the OS sees.                                                     *)
LEMMA Unseen ==
  ASSUME UNCHANGED <<os, mr, connected>>,
         \A i \in Ios :
           \/ sub'[i].pc = sub[i].pc
           \/ {sub[i].pc, sub'[i].pc} \subseteq {"new", "alloc"}
           \/ {sub[i].pc, sub'[i].pc} \cap {"new", "alloc", "refused"} = {}
  PROVE  Step
<1>1. \A i \in Ios : PhaseOf(sub'[i].pc, os'[i].done) = PhaseOf(sub[i].pc, os[i].done)
  BY DEF PhaseOf
<1> QED
  BY <1>1, PhaseKept, ExposedKept DEF Step, Promise!absVars

(* The thread of I/O i goes on without taking a slot or being refused.      *)
LEMMA UnseenSubmits ==
  ASSUME TypeOK, NEW i \in Ios, NEW pc, NEW s, SubGoto(i, pc, s),
         \/ {sub[i].pc, pc} \subseteq {"new", "alloc"}
         \/ {sub[i].pc, pc} \cap {"new", "alloc", "refused"} = {},
         UNCHANGED <<os, mr, connected>>
  PROVE  Step
<1>1. \A j \in Ios : sub'[j] = IF j = i THEN [pc |-> pc, slot |-> s] ELSE sub[j]
  BY Typed DEF SubGoto
<1> QED
  BY <1>1, Unseen

(* I/O i is refused: its buffer is not open, as it is in no slot (5441) or  *)
(* in one that is not registered (5467).                                    *)
LEMMA Refuses ==
  ASSUME TypeOK, OnceInv, SlotInv, NEW i \in Ios, NEW s, SubGoto(i, "refused", s),
         sub[i].pc # "refused", os[i].done = 0,
         connected => \A r \in Slots : pvParentReqCtx[r] = i => mr[r] = NoIo,
         UNCHANGED <<os, mr, connected>>
  PROVE  Step
<1>1. \A j \in Ios : sub'[j] = IF j = i THEN [pc |-> "refused", slot |-> s] ELSE sub[j]
  BY Typed DEF SubGoto
<1>2. phase' = [phase EXCEPT ![i] = "refused"]
  <2>1. phase' = [phase EXCEPT ![i] = PhaseOf(sub'[i].pc, os'[i].done)]
    BY <1>1, PhaseMoves
  <2>2. PhaseOf(sub'[i].pc, os'[i].done) = "refused"
    BY <1>1, PhaseValue
  <2> QED
    BY <2>1, <2>2
<1>3. phase[i] \in {"idle", "accepted"}
  <2>1. CASE sub[i].pc \in {"new", "alloc"}
    BY <2>1, PhasesAre, PhaseValue
  <2>2. CASE sub[i].pc \notin {"new", "alloc"}
    BY <2>2, PhasesAre, PhaseValue
  <2> QED
    BY <2>1, <2>2
<1>4. i \notin exposed
  BY ExposedIs, NoneAssumption
<1>5. Promise!Refuse(i)
  BY <1>2, <1>3, <1>4, ExposedKept DEF Promise!Refuse
<1> QED
  BY <1>5 DEF Step, Promise!Next

(* I/O i is taken out of its slot s and completed.                          *)
LEMMA Completes ==
  ASSUME TypeOK, OnceInv, SlotInv, NEW i \in Ios, NEW s \in Slots, NEW status,
         pvParentReqCtx[s] = i, sub[i].pc \notin NotYetIn \cup {"refused"},
         connected => mr[s] = NoIo,
         CompleteToOs(i, status), UNCHANGED <<sub, mr, connected>>
  PROVE  Step
<1>1. os[i].done = 0 /\ \A r \in Slots : pvParentReqCtx[r] = i => r = s
  BY DEF OnceInv
<1>2. \A j \in Ios : os'[j].done = IF j = i THEN 1 ELSE os[j].done
  BY <1>1 DEF TypeOK, CompleteToOs
<1>3. phase' = [phase EXCEPT ![i] = "completed"]
  <2>1. phase' = [phase EXCEPT ![i] = PhaseOf(sub'[i].pc, os'[i].done)]
    BY <1>2, PhaseMoves
  <2>2. PhaseOf(sub'[i].pc, os'[i].done) = "completed"
    BY <1>2, PhaseValue
  <2> QED
    BY <2>1, <2>2
<1>4. phase[i] = "accepted"
  BY <1>1, PhasesAre, PhaseValue DEF NotYetIn
<1>5. i \notin exposed
  BY <1>1, ExposedIs, NoneAssumption
<1>6. Promise!Complete(i)
  BY <1>3, <1>4, <1>5, ExposedKept DEF Promise!Complete
<1> QED
  BY <1>6 DEF Step, Promise!Next

(* While a slot is free, fewer I/Os are in work than there are slots.       *)
LEMMA RoomLeft ==
  ASSUME TypeOK, OneUser, OnceInv, SlotInv, OwnerInv, IsFiniteSet(Slots),
         NEW s \in FreeSlots
  PROVE  Cardinality(Promise!InWork) < Cardinality(Slots)
<1> DEFINE W == Promise!InWork
           Holds(i, r) == \/ sub[i].pc = "prepare" /\ sub[i].slot = r
                          \/ pvParentReqCtx[r] = i
           Place == [i \in W |-> CHOOSE r \in Slots : Holds(i, r)]
<1>w. ASSUME NEW i \in W
      PROVE  i \in Ios /\ sub[i].pc \notin {"new", "alloc", "refused"} /\ os[i].done = 0
  BY InWorkIs
<1> HIDE DEF W
<1>1. s \in Slots /\ lReqState[s] = {}
  BY DEF FreeSlots
<1>2. ASSUME NEW i \in W PROVE \E r \in Slots : Holds(i, r)
  <2>1. CASE sub[i].pc = "prepare"
    BY <1>w, <2>1, Typed DEF SubSlotPcs
  <2>2. CASE sub[i].pc # "prepare"
    BY <1>w, <2>2 DEF OwnerInv, OwnedOf, NotYetIn
  <2> QED
    BY <2>1, <2>2
<1>3. ASSUME NEW i \in W, NEW j \in W, NEW r \in Slots, Holds(i, r), Holds(j, r)
      PROVE  i = j
  <2>1. \A k \in Ios : SubHolds(k, r) /\ sub[k].pc = "prepare" => pvParentReqCtx[r] = NoIo
    BY SlotFacts DEF ParentOf
  <2>2. \A k, l \in Ios : SubHolds(k, r) /\ SubHolds(l, r) => k = l
    BY DEF OneUser, OneUserOf
  <2> QED
    BY <1>3, <1>w, <2>1, <2>2, NoneAssumption
<1>4. ASSUME NEW i \in W PROVE ~Holds(i, s)
  <2>1. pvParentReqCtx[s] = NoIo
    BY <1>1, SlotFacts DEF ParentOf
  <2>2. \A k \in Ios : ~SubHolds(k, s)
    BY <1>1 DEF OneUser, OneUserOf
  <2> QED
    BY <1>w, <2>1, <2>2, NoneAssumption
<1> HIDE DEF Holds
<1>5. \A i \in W : Place[i] \in Slots /\ Holds(i, Place[i])
  BY <1>2
<1>6. Place \in [W -> Slots \ {s}]
  BY <1>4, <1>5
<1>7. \A i, j \in W : Place[i] = Place[j] => i = j
  BY <1>3, <1>5
<1>8. Place \in Injection(W, Slots \ {s})
  BY <1>6, <1>7 DEF Injection, IsInjective
<1>9. /\ IsFiniteSet(Slots \ {s})
      /\ Cardinality(Slots \ {s}) = Cardinality(Slots) - 1
      /\ Cardinality(Slots) \in Nat
  BY <1>1, FS_RemoveElement, FS_CardinalityType
<1>10. IsFiniteSet(W) /\ Cardinality(W) <= Cardinality(Slots) - 1
  BY <1>8, <1>9, FS_Injection
<1>11. Cardinality(W) \in Nat
  BY <1>10, FS_CardinalityType
<1> QED
  BY <1>9, <1>10, <1>11 DEF W

(* The claim of a slot (4886) is the acceptance.                            *)
LEMMA Accepts ==
  ASSUME TypeOK, OneUser, OnceInv, SlotInv, OwnerInv, IsFiniteSet(Slots),
         NEW i \in Ios, NEW s \in Slots, GetCurrentFreeIORequest(i, s)
  PROVE  Step
<1>1. \A j \in Ios : sub'[j] = IF j = i THEN [pc |-> "prepare", slot |-> s] ELSE sub[j]
  BY Typed DEF GetCurrentFreeIORequest, SubGoto
<1>2. UNCHANGED <<os, mr, connected>> /\ sub[i].pc = "alloc" /\ s \in FreeSlots
  BY DEF GetCurrentFreeIORequest
<1>3. os[i].done = 0
  BY <1>2 DEF OnceInv, NotYetIn
<1>4. phase' = [phase EXCEPT ![i] = "accepted"]
  <2>1. phase' = [phase EXCEPT ![i] = PhaseOf(sub'[i].pc, os'[i].done)]
    BY <1>1, <1>2, PhaseMoves
  <2>2. PhaseOf(sub'[i].pc, os'[i].done) = "accepted"
    BY <1>1, <1>2, <1>3, PhaseValue
  <2> QED
    BY <2>1, <2>2
<1>5. phase[i] = "idle"
  BY <1>2, <1>3, PhasesAre, PhaseValue
<1>6. Cardinality(Promise!InWork) < Cardinality(Slots)
  BY <1>2, RoomLeft
<1>7. Promise!Cardinality(Promise!InWork) < Cardinality(Slots)
  BY <1>6 DEF Promise!Cardinality, Cardinality
<1>8. Promise!Accept(i)
  BY <1>2, <1>4, <1>5, <1>7, ExposedKept DEF Promise!Accept
<1> QED
  BY <1>8 DEF Step, Promise!Next

(* The submitting threads.                                                  *)
LEMMA StepSubmitter ==
  ASSUME TypeOK, OneUser, OnceInv, SlotInv, OwnerInv, NoRefusalAfterLoss,
         IsFiniteSet(Slots), NEW i \in Ios, Submitter(i)
  PROVE  Step
<1>1. sub[i].pc \in {"new", "alloc", "prepare"} =>
        os[i].done = 0 /\ \A r \in Slots : pvParentReqCtx[r] # i
  BY DEF OnceInv, NotYetIn
<1>2. CASE IOSubmitRW(i) /\ ulDisconnectFlag = "0"
  BY <1>2, UnseenSubmits DEF IOSubmitRW
<1>3. CASE IOSubmitRW(i) /\ ulDisconnectFlag # "0"
  BY <1>1, <1>3, Refuses DEF IOSubmitRW
<1>4. CASE NoFreeIORequest(i)
  BY <1>1, <1>4, Refuses DEF NoFreeIORequest
<1>5. ASSUME NEW s \in Slots, GetCurrentFreeIORequest(i, s) PROVE Step
  BY <1>5, Accepts
<1>6. CASE PrepareRWRequest(i)
  BY <1>6, UnseenSubmits DEF PrepareRWRequest
<1>7. CASE PrepareRWPending(i)
  BY <1>7, UnseenSubmits DEF PrepareRWPending
<1>8. CASE PrepareRWReturnsPending(i)
  BY <1>8, UnseenSubmits DEF PrepareRWReturnsPending
<1>9. CASE PrepareRWFails(i)
  BY <1>1, <1>9, Refuses DEF PrepareRWFails
<1>10. CASE SubmitFastRegister(i)
  BY <1>10, UnseenSubmits DEF SubmitFastRegister
<1>11. CASE SubmitFastRegisterFails(i)
  <2>1. PICK s \in Slots : s = sub[i].slot
    BY <1>11, Typed DEF SubmitFastRegisterFails, SubSlotPcs
  <2>2. SubHolds(i, s) /\ "submitFail" \in Faults
    BY <1>11, <2>1 DEF SubmitFastRegisterFails, PostFails
  <2>3. connected /\ pvParentReqCtx[s] = i
    BY <1>11, <2>1, <2>2 DEF OwnerInv, OwnedOf, NoRefusalAfterLoss,
       SubmitFastRegisterFails
  <2>4. os[i].done = 0 /\ \A r \in Slots : pvParentReqCtx[r] = i => r = s
    BY <2>3 DEF OnceInv
  <2>5. mr[s] = NoIo
    BY <2>2, <2>3, SlotFacts DEF BufferOf
  <2> QED
    BY <1>11, <2>4, <2>5, Refuses DEF SubmitFastRegisterFails
<1>12. CASE CountFastRegister(i)
  BY <1>12, UnseenSubmits DEF CountFastRegister
<1> QED
  BY <1>2, <1>3, <1>4, <1>5, <1>6, <1>7, <1>8, <1>9, <1>10, <1>11, <1>12 DEF Submitter

(* The adapter opens the buffer of an accepted I/O and closes it again.     *)
LEMMA StepAdapter ==
  ASSUME TypeOK, OneUser, OnceInv, SlotInv, OwnerInv, NEW s \in Slots, AdapterExecutes(s)
  PROVE  Step
<1>1. /\ PostedOp[s] = Head(sendQ[s]).op /\ PostedOp[s] \in Ops
      /\ connected /\ UNCHANGED <<sub, os, connected>>
  BY RetireEffect DEF AdapterExecutes
<1>2. phase' = phase
  BY <1>1, PhaseKept
<1>3. pvBuffer[s] = pvParentReqCtx[s] /\ (mr[s] # NoIo => mr[s] = pvParentReqCtx[s])
  BY <1>1, SlotFacts DEF BufferOf
<1>4. CASE PostedOp[s] = "FAST_REGISTER"
  <2>1. PICK i \in Ios : pvParentReqCtx[s] = i
    BY <1>1, <1>3, <1>4, SlotFacts, Typed DEF BufferOf
  <2>2. \A r \in Slots : mr'[r] = IF r = s THEN i ELSE mr[r]
    BY <1>1, <1>3, <1>4, <2>1, Typed DEF AdapterExecutes
  <2>3. exposed' = exposed \cup {i}
    BY <1>1, <1>3, <2>1, <2>2, NoneAssumption DEF exposed
  <2>4. os[i].done = 0 /\ sub[i].pc \notin NotYetIn
    BY <2>1 DEF OnceInv
  <2>5. sub[i].pc # "refused"
    BY <1>4, <2>1 DEF OwnerInv, OwnedOf, RefusedSlot
  <2>6. phase[i] = "accepted"
    BY <2>4, <2>5, PhasesAre, PhaseValue DEF NotYetIn
  <2>7. Promise!Expose(i)
    BY <1>2, <2>3, <2>6 DEF Promise!Expose
  <2> QED
    BY <2>7 DEF Step, Promise!Next
<1>5. CASE PostedOp[s] = "SEND"
  <2>1. \A r \in Slots : mr'[r] = mr[r]
    BY <1>1, <1>5, Typed DEF AdapterExecutes
  <2>2. exposed' = exposed
    BY <1>1, <2>1 DEF exposed
  <2> QED
    BY <1>2, <2>2 DEF Step, Promise!absVars
<1>6. CASE PostedOp[s] = "INVALIDATE"
  <2>1. \A r \in Slots : mr'[r] = IF r = s THEN NoIo ELSE mr[r]
    BY <1>1, <1>6, Typed DEF AdapterExecutes
  <2>2. CASE mr[s] = NoIo
    <3>1. exposed' = exposed
      BY <1>1, <2>1, <2>2 DEF exposed
    <3> QED
      BY <1>2, <3>1 DEF Step, Promise!absVars
  <2>3. CASE mr[s] # NoIo
    <3>1. PICK i \in Ios : mr[s] = i /\ pvParentReqCtx[s] = i
      BY <1>3, <2>3, Typed
    <3>2. \A r \in Slots : mr[r] = i => r = s
      BY <1>1, <3>1, SlotFacts, NoneAssumption DEF BufferOf, OnceInv
    <3>3. i \in exposed /\ exposed' = exposed \ {i}
      BY <1>1, <2>1, <3>1, <3>2, NoneAssumption DEF exposed
    <3>4. Promise!Withdraw(i)
      BY <1>2, <3>3 DEF Promise!Withdraw
    <3> QED
      BY <3>4 DEF Step, Promise!Next
  <2> QED
    BY <2>2, <2>3
<1> QED
  BY <1>1, <1>4, <1>5, <1>6 DEF Ops

(* Every step of the queue is one of IoQueueSpec, or one the OS does not    *)
(* see.                                                                     *)
LEMMA StepPromised ==
  ASSUME TypeOK, OneUser, OnceInv, SlotInv, OwnerInv, NoRefusalAfterLoss,
         IsFiniteSet(Slots), [Next]_vars
  PROVE  Step
<1>1. ASSUME NEW i \in Ios, LamCallback(i) PROVE Step
  BY <1>1, Unseen DEF LamCallback, BuildDataLamCompletion, LamCountsFastRegister
<1>2. CASE ScqCallback
  <2>1. ASSUME NEW s \in Slots, IoCompletion(s) PROVE Step
    <3>1. CASE pvParentReqCtx[s] # NoIo /\ "FREEING" \in lReqState[s]
      <4>1. PICK i \in Ios : pvParentReqCtx[s] = i
        BY <3>1, Typed
      <4>2. sub[i].pc \notin NotYetIn \cup {"refused"} /\ (connected => mr[s] = NoIo)
        BY <2>1, <3>1, <4>1, CompletionTakes
      <4>3. CompleteToOs(i, Status[s]) /\ UNCHANGED <<sub, mr, connected>>
        BY <2>1, <3>1, <4>1 DEF IoCompletion
      <4> QED
        BY <4>1, <4>2, <4>3, Completes
    <3> QED
      BY <2>1, <3>1, Unseen DEF IoCompletion
  <2>2. ASSUME NEW s \in Slots, IoFRCompletion(s) \/ IoSendCompletion(s) PROVE Step
    BY <2>2, Unseen DEF IoFRCompletion, IoSendCompletion
  <2>3. CASE SubmitSend \/ SubmitSendFails \/ CountSend \/ ScqJoin \/ FreeRequest
    BY <2>3, Unseen DEF SubmitSend, SubmitSendFails, CountSend, ScqJoin, FreeRequest
  <2> QED
    BY <1>2, <2>1, <2>2, <2>3 DEF ScqCallback
<1>3. CASE RcqCallback
  BY <1>3, Unseen DEF RcqCallback, ReceiveResponse, ReceiveInvalid, StoreResponse,
     RcqJoin, RepostReceive, CountReceive, ReceiveFlushed, ReceiveFailed
<1>4. ASSUME NEW s \in Slots, Adapter(s) PROVE Step
  BY <1>4, Unseen, StepAdapter DEF Adapter, AdapterCancels
<1>5. CASE Flush
  <2>1. CASE FlushTakes /\ pvParentReqCtx[flush] # NoIo
    <3>1. PICK s \in Slots : s = flush
      BY <2>1 DEF FlushTakes, TypeOK
    <3>2. PICK i \in Ios : pvParentReqCtx[s] = i
      BY <2>1, <3>1, Typed
    <3>3. sub[i].pc \notin NotYetIn \cup {"refused"} /\ ~connected
      BY <2>1, <3>1, <3>2, FlushCompletes
    <3>4. CompleteToOs(i, "flushed") /\ UNCHANGED <<sub, mr, connected>>
      BY <2>1, <3>1, <3>2 DEF FlushTakes
    <3> QED
      BY <3>2, <3>3, <3>4, Completes
  <2>2. CASE FlushTakes /\ pvParentReqCtx[flush] = NoIo
    BY <2>2, Unseen DEF FlushTakes
  <2>3. ASSUME NEW s \in Slots, FlushTests(s) PROVE Step
    BY <2>3, Unseen DEF FlushTests
  <2> QED
    BY <1>5, <2>1, <2>2, <2>3 DEF Flush
<1>6. ASSUME NEW c \in target, TargetAnswers(c) PROVE Step
  BY <1>6, Unseen DEF TargetAnswers
<1>7. CASE ConnectionLost
  <2>1. phase' = phase
    BY <1>7, PhaseKept DEF ConnectionLost
  <2>2. exposed' = {}
    BY <1>7 DEF ConnectionLost, exposed
  <2>3. Promise!WithdrawAll
    BY <2>1, <2>2 DEF Promise!WithdrawAll
  <2> QED
    BY <2>3 DEF Step, Promise!Next
<1>8. CASE IOQPDisconnect
  BY <1>8, Unseen DEF IOQPDisconnect
<1>9. CASE Finished \/ UNCHANGED vars
  BY <1>9, Unseen DEF Finished, vars
<1> QED
  BY <1>1, <1>2, <1>3, <1>4, <1>5, <1>6, <1>7, <1>8, <1>9, StepSubmitter DEF Next

(* While refusals and a lost connection do not meet, each slot's owner is   *)
(* an I/O still to be completed, in every reachable state.                  *)
LEMMA OwnerCorrect ==
  ASSUME NoRefusalAfterLoss
  PROVE  Spec => []OwnerInv
<1>1. Init => OwnerInv
  BY NoneAssumption DEF Init, OwnerInv, OwnedOf, NotYetIn
<1> QED
  BY <1>1, OwnerStep, SlotCorrect, PTL DEF Spec

(* The queue keeps its promise to the OS: each I/O is refused or completed  *)
(* once, never both, no more than a slot each in work, and its buffer is    *)
(* open only in between; where refusals and a lost connection do not meet.  *)
THEOREM KeepsPromiseCorrect ==
  ASSUME NoRefusalAfterLoss, IsFiniteSet(Slots)
  PROVE  Spec => KeepsPromise
<1>1. Init => Promise!Init
  <2> SUFFICES ASSUME Init PROVE Promise!Init
    OBVIOUS
  <2>1. \A i \in Ios : sub[i].pc = "new" /\ os[i].done = 0
    BY DEF Init
  <2>2. phase = [i \in Ios |-> "idle"]
    <3>1. \A i \in Ios : PhaseOf(sub[i].pc, os[i].done) = "idle"
      BY <2>1, PhaseValue
    <3> QED
      BY <3>1 DEF phase, PhaseOf
  <2>3. exposed = {}
    BY DEF Init, exposed
  <2> QED
    BY <2>2, <2>3 DEF Promise!Init
<1>2. TypeOK /\ OneUser /\ OnceInv /\ SlotInv /\ OwnerInv /\ [Next]_vars
      => [Promise!Next]_(Promise!absVars)
  BY StepPromised DEF Step
<1> QED
  BY <1>1, <1>2, OwnerCorrect, SlotCorrect, PTL DEF Spec, KeepsPromise, Promise!Spec

=============================================================================

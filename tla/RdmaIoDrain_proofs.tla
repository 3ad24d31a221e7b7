-------------------------- MODULE RdmaIoDrain_proofs --------------------------
(***************************************************************************)
(* What a healthy RdmaIoQueue leaves behind when everything is still:      *)
(* nothing, since whatever bit of a request's state is missing, somebody   *)
(* is on the way to set it; and what each counter of the queue counts,     *)
(* still or not.                                                           *)
(***************************************************************************)
EXTENDS RdmaIoPromise_proofs

USE DEF ioVars, idVars, queueVars, callbacks, threadVars, wireVars
USE DEF SubHolds, LamHolds, ScqHolds, InUse, Early, ScqAt, Unsent

-----------------------------------------------------------------------------
(* Where a request in use goes on from: whatever bit of lReqState is        *)
(* missing, somebody is on the way to set it, and who sets the last one     *)
(* joins.                                                                   *)
Answering(s) ==
  \/ Unsent(s)
  \/ \E c \in target : c.slot = s
  \/ \E r \in rcq : ppvIoReqTable[r.id] = s

(* The callback that saw the last bit set, on its way to the join.          *)
Joining(s) ==
  ScqAt({"join"}, s) \/ (rcqThread.pc \in {"store", "join"} /\ rcqThread.slot = s)


(* A request not yet registered is with its thread or on the send queue.    *)
EarlyWork(s) ==
  /\ lReqState[s] # {} /\ lReqState[s] \subseteq EarlyBits =>
       PostedOp[s] = "FAST_REGISTER" \/ \E i \in Ios : SubHolds(i, s)
  /\ \A i \in Ios : SubHolds(i, s) =>
       /\ "ALLOCATED" \in lReqState[s]
       /\ sub[i].pc = "register" => "INITIALIZED" \in lReqState[s]
  /\ PostedOp[s] = "FAST_REGISTER" => EarlyBits \subseteq lReqState[s]

(* A request whose command goes out, or is out.                             *)
SendWork(s) ==
  /\ lReqState[s] \subseteq EarlyBits \/ {"SUBMITTING", "FREEING"} \cap lReqState[s] # {}
  /\ "SUBMITTING" \in lReqState[s] =>
       /\ EarlyBits \subseteq lReqState[s]
       /\ "SUBMITTED" \in lReqState[s] \/ ScqAt({"send", "sent"}, s)
       /\ "WAITING_FOR_RESPONSE" \in lReqState[s] \/ ScqAt({"send"}, s) \/ PostedOp[s] = "SEND"
       /\ "RESPONSE_RECEIVED" \in lReqState[s] \/ Answering(s)
  /\ ScqAt({"sent"}, s) => PostedOp[s] = "SEND"
  /\ lReqState[s] = AllStateDone => Joining(s)

(* A request on its way out, and the I/O it is taken out of.                *)
FreeWork(s) ==
  /\ "FREEING" \in lReqState[s] => PostedOp[s] = "INVALIDATE" \/ ScqAt({"free"}, s)
  /\ lReqState[s] # {} /\ ~ScqAt({"free"}, s)
     /\ (\A i \in Ios : ~(SubHolds(i, s) /\ sub[i].pc = "prepare"))
     => pvParentReqCtx[s] # NoIo

WorkOf(s) == EarlyWork(s) /\ SendWork(s) /\ FreeWork(s)

(* Nothing goes wrong but receives: no post is refused, no registration     *)
(* fails, no LAM pends and the connection stays.                            *)
NothingFails == Faults \subseteq {"recvFail"}

WorkInv ==
  /\ \A s \in Slots : WorkOf(s)
  /\ connected /\ flush = NoSlot
  /\ \A i \in Ios : lam[i].pc = "idle" /\ sub[i].pc # "lamReturn"

-----------------------------------------------------------------------------
(* The submitting threads (5409-5479).                                     *)
LEMMA WorkSubmitter ==
  ASSUME TypeOK, OneUser, OnceInv, SlotInv, WireInv, WorkInv, NothingFails,
         NEW i \in Ios, Submitter(i),
         NEW t \in Slots
  PROVE  WorkOf(t)'
<1>inv. /\ OneUserOf(t) /\ BitsOf(t) /\ ParentOf(t)
        /\ EarlyWork(t) /\ SendWork(t) /\ FreeWork(t)
  BY SlotFacts DEF OneUser, WorkInv, WorkOf
<1>1. CASE IOSubmitRW(i)
  <2>1. KeepsQueues
    BY <1>1, QueuesKept, Typed DEF IOSubmitRW
  <2>w1. EarlyWork(t)'
    BY <1>1, <1>inv, <2>1, Typed, NoneAssumption DEF IOSubmitRW, SubGoto,
       BecomesOn, KeepsQueues, OneUserOf, EarlyWork, BitsOf, EarlyBits,
       FreedBits, AllStateDone, StateBits
  <2>w2. SendWork(t)'
    BY <1>1, <1>inv, <2>1, Typed, NoneAssumption DEF IOSubmitRW, SubGoto,
       BecomesOn, KeepsQueues, OneUserOf, EarlyWork, SendWork, Answering,
       Joining, BitsOf, EarlyBits, FreedBits, AllStateDone, StateBits
  <2>w3. FreeWork(t)'
    BY <1>1, <1>inv, <2>1, Typed, NoneAssumption DEF IOSubmitRW, SubGoto,
       BecomesOn, KeepsQueues, OneUserOf, FreeWork, ParentOf, BitsOf,
       EarlyBits, FreedBits, AllStateDone, StateBits
  <2> QED
    BY <2>w1, <2>w2, <2>w3 DEF WorkOf
<1>2. CASE NoFreeIORequest(i)
  <2>1. KeepsQueues
    BY <1>2, QueuesKept, Typed DEF NoFreeIORequest
  <2>w1. EarlyWork(t)'
    BY <1>2, <1>inv, <2>1, Typed, NoneAssumption DEF NoFreeIORequest, SubGoto,
       BecomesOn, KeepsQueues, OneUserOf, EarlyWork, BitsOf, EarlyBits,
       FreedBits, AllStateDone, StateBits
  <2>w2. SendWork(t)'
    BY <1>2, <1>inv, <2>1, Typed, NoneAssumption DEF NoFreeIORequest, SubGoto,
       BecomesOn, KeepsQueues, OneUserOf, EarlyWork, SendWork, Answering,
       Joining, BitsOf, EarlyBits, FreedBits, AllStateDone, StateBits
  <2>w3. FreeWork(t)'
    BY <1>2, <1>inv, <2>1, Typed, NoneAssumption DEF NoFreeIORequest, SubGoto,
       BecomesOn, KeepsQueues, OneUserOf, FreeWork, ParentOf, BitsOf,
       EarlyBits, FreedBits, AllStateDone, StateBits
  <2> QED
    BY <2>w1, <2>w2, <2>w3 DEF WorkOf
<1>3. ASSUME NEW s \in Slots, GetCurrentFreeIORequest(i, s) PROVE WorkOf(t)'
  <2>1. KeepsQueues
    BY <1>3, QueuesKept, Typed DEF GetCurrentFreeIORequest
  <2>w1. EarlyWork(t)'
    BY <1>3, <1>inv, <2>1, Typed, NoneAssumption DEF GetCurrentFreeIORequest,
       SubGoto, FreeSlots, SetState, GetIOQUniqueCommandID, BecomesOn,
       KeepsQueues, OneUserOf, EarlyWork, BitsOf, EarlyBits, FreedBits,
       AllStateDone, StateBits
  <2>w2. SendWork(t)'
    BY <1>3, <1>inv, <2>1, Typed, NoneAssumption DEF GetCurrentFreeIORequest,
       SubGoto, FreeSlots, SetState, GetIOQUniqueCommandID, BecomesOn,
       KeepsQueues, OneUserOf, EarlyWork, SendWork, Answering, Joining,
       BitsOf, EarlyBits, FreedBits, AllStateDone, StateBits
  <2>w3. FreeWork(t)'
    BY <1>3, <1>inv, <2>1, Typed, NoneAssumption DEF GetCurrentFreeIORequest,
       SubGoto, FreeSlots, SetState, GetIOQUniqueCommandID, BecomesOn,
       KeepsQueues, OneUserOf, FreeWork, ParentOf, BitsOf, EarlyBits,
       FreedBits, AllStateDone, StateBits
  <2> QED
    BY <2>w1, <2>w2, <2>w3 DEF WorkOf
<1>4. CASE PrepareRWRequest(i)
  <2>1. KeepsQueues
    BY <1>4, QueuesKept, Typed DEF PrepareRWRequest
  <2>w1. EarlyWork(t)'
    BY <1>4, <1>inv, <2>1, Typed, NoneAssumption DEF PrepareRWRequest,
       SubGoto, Prepare, OrState, SetState, BecomesOn, KeepsQueues, OneUserOf,
       EarlyWork, BitsOf, EarlyBits, FreedBits, AllStateDone, StateBits
  <2>w2. SendWork(t)'
    BY <1>4, <1>inv, <2>1, Typed, NoneAssumption DEF PrepareRWRequest,
       SubGoto, Prepare, OrState, SetState, BecomesOn, KeepsQueues, OneUserOf,
       EarlyWork, SendWork, Answering, Joining, BitsOf, EarlyBits, FreedBits,
       AllStateDone, StateBits
  <2>w3. FreeWork(t)'
    BY <1>4, <1>inv, <2>1, Typed, NoneAssumption DEF PrepareRWRequest,
       SubGoto, Prepare, OrState, SetState, BecomesOn, KeepsQueues, OneUserOf,
       FreeWork, ParentOf, BitsOf, EarlyBits, FreedBits, AllStateDone,
       StateBits
  <2> QED
    BY <2>w1, <2>w2, <2>w3 DEF WorkOf
<1>5. CASE PrepareRWPending(i)
  BY <1>5 DEF PrepareRWPending, NothingFails
<1>6. CASE PrepareRWReturnsPending(i)
  BY <1>6 DEF PrepareRWReturnsPending, WorkInv
<1>7. CASE PrepareRWFails(i)
  BY <1>7 DEF PrepareRWFails, NothingFails
<1>8. CASE SubmitFastRegister(i)
  <2>1. BecomesOn(sub[i].slot, "FAST_REGISTER", "posted")
    BY <1>8, PostEffect, Typed DEF SubmitFastRegister, OneUser, OneUserOf,
       Ops, SubSlotPcs
  <2>w1. EarlyWork(t)'
    BY <1>8, <1>inv, <2>1, Typed, NoneAssumption DEF SubmitFastRegister,
       SubGoto, FastRegisterDataMR, OrState, SetState, BecomesOn, KeepsQueues,
       OneUserOf, EarlyWork, BitsOf, EarlyBits, FreedBits, AllStateDone,
       StateBits
  <2>w2. SendWork(t)'
    BY <1>8, <1>inv, <2>1, Typed, NoneAssumption DEF SubmitFastRegister,
       SubGoto, FastRegisterDataMR, OrState, SetState, BecomesOn, KeepsQueues,
       OneUserOf, EarlyWork, SendWork, Answering, Joining, BitsOf, EarlyBits,
       FreedBits, AllStateDone, StateBits
  <2>w3. FreeWork(t)'
    BY <1>8, <1>inv, <2>1, Typed, NoneAssumption DEF SubmitFastRegister,
       SubGoto, FastRegisterDataMR, OrState, SetState, BecomesOn, KeepsQueues,
       OneUserOf, FreeWork, ParentOf, BitsOf, EarlyBits, FreedBits,
       AllStateDone, StateBits
  <2> QED
    BY <2>w1, <2>w2, <2>w3 DEF WorkOf
<1>9. CASE SubmitFastRegisterFails(i)
  BY <1>9 DEF SubmitFastRegisterFails, NothingFails, PostFails
<1>10. CASE CountFastRegister(i)
  <2>1. KeepsQueues
    BY <1>10, QueuesKept, Typed DEF CountFastRegister
  <2>w1. EarlyWork(t)'
    BY <1>10, <1>inv, <2>1, Typed, NoneAssumption DEF CountFastRegister,
       SubGoto, BecomesOn, KeepsQueues, OneUserOf, EarlyWork, BitsOf,
       EarlyBits, FreedBits, AllStateDone, StateBits
  <2>w2. SendWork(t)'
    BY <1>10, <1>inv, <2>1, Typed, NoneAssumption DEF CountFastRegister,
       SubGoto, BecomesOn, KeepsQueues, OneUserOf, EarlyWork, SendWork,
       Answering, Joining, BitsOf, EarlyBits, FreedBits, AllStateDone,
       StateBits
  <2>w3. FreeWork(t)'
    BY <1>10, <1>inv, <2>1, Typed, NoneAssumption DEF CountFastRegister,
       SubGoto, BecomesOn, KeepsQueues, OneUserOf, FreeWork, ParentOf, BitsOf,
       EarlyBits, FreedBits, AllStateDone, StateBits
  <2> QED
    BY <2>w1, <2>w2, <2>w3 DEF WorkOf
<1> QED
  BY <1>1, <1>2, <1>3, <1>4, <1>5, <1>6, <1>7, <1>8, <1>9, <1>10 DEF Submitter

(* The callback of a pending LAM (5252-5269).                              *)
LEMMA WorkLam ==
  ASSUME TypeOK, OneUser, OnceInv, SlotInv, WireInv, WorkInv, NothingFails,
         NEW i \in Ios, LamCallback(i),
         NEW t \in Slots
  PROVE  WorkOf(t)'
<1>inv. /\ OneUserOf(t) /\ BitsOf(t) /\ ParentOf(t)
        /\ EarlyWork(t) /\ SendWork(t) /\ FreeWork(t)
  BY SlotFacts DEF OneUser, WorkInv, WorkOf
<1>1. CASE BuildDataLamCompletion(i)
  BY <1>1 DEF BuildDataLamCompletion, WorkInv
<1>2. CASE LamCountsFastRegister(i)
  BY <1>2 DEF LamCountsFastRegister, WorkInv
<1> QED
  BY <1>1, <1>2 DEF LamCallback

(* The SCQ callback (4024-4189).                                           *)
LEMMA WorkScq ==
  ASSUME TypeOK, OneUser, OnceInv, SlotInv, WireInv, WorkInv, NothingFails,
         ScqCallback,
         NEW t \in Slots
  PROVE  WorkOf(t)'
<1>inv. /\ OneUserOf(t) /\ BitsOf(t) /\ ParentOf(t)
        /\ EarlyWork(t) /\ SendWork(t) /\ FreeWork(t)
  BY SlotFacts DEF OneUser, WorkInv, WorkOf
<1>1. ASSUME NEW s \in Slots, IoFRCompletion(s) PROVE WorkOf(t)'
  <2>1. /\ BecomesOn(s, "none", "none")
        /\ PostedOp[s] = "FAST_REGISTER" /\ PostedSt[s] \in {"ok", "cancelled"}
        /\ Head(sendQ[s]).st = PostedSt[s]
        /\ scq.pc = "idle" /\ InUse(s)
        /\ \A i \in Ios : ~SubHolds(i, s) /\ ~LamHolds(i, s)
    BY <1>1, ReapEffect, Typed DEF IoFRCompletion
  <2>2. Head(sendQ[s]).st # "cancelled"
    BY <2>1, SlotFacts DEF WorkInv, BufferOf
  <2>3. \A r \in Slots : lReqState'[r] =
          IF r = s THEN lReqState[s] \cup {"SUBMITTING"} ELSE lReqState[r]
    BY <1>1, <2>2, Typed DEF IoFRCompletion, OrState, SetState
  <2>4. scq' = [pc |-> "send", slot |-> s]
    BY <1>1, <2>2 DEF IoFRCompletion, ScqGoto
  <2>5. UNCHANGED <<sub, lam, rcqThread, target, rcq, pvParentReqCtx>>
    BY <1>1 DEF IoFRCompletion
  <2>w1. EarlyWork(t)'
    <3>1. CASE t # s
      BY <1>inv, <2>1, <2>3, <2>5, <3>1 DEF BecomesOn, EarlyWork
    <3>2. CASE t = s
      <4>1. ~(lReqState'[t] \subseteq EarlyBits) /\ PostedOp'[t] = "none"
        BY <2>1, <2>3, <3>2 DEF BecomesOn, EarlyBits
      <4> QED
        BY <2>1, <2>5, <3>2, <4>1 DEF EarlyWork
    <3> QED
      BY <3>1, <3>2
  <2>w2. SendWork(t)'
    <3>1. CASE t # s
      <4>1. \A r \in rcq : ppvIoReqTable[r.id] = t => ppvIoReqTable'[r.id] = t
        BY <1>1, <2>2, NoneAssumption, Typed DEF IoFRCompletion, TypeOK, Response
      <4>2. ~ScqAt({"send", "sent", "join"}, t)
        BY <2>1
      <4> QED
        BY <1>inv, <2>1, <2>3, <2>4, <2>5, <3>1, <4>1, <4>2
           DEF BecomesOn, SendWork, Answering, Joining
    <3>2. CASE t = s
      <4>1. EarlyBits \subseteq lReqState[t] /\ lReqState[t] \subseteq EarlyBits
        BY <1>inv, <2>1, <3>2 DEF EarlyWork, BitsOf
      <4> QED
        BY <2>3, <2>4, <3>2, <4>1
           DEF SendWork, Answering, EarlyBits, AllStateDone, StateBits
    <3> QED
      BY <3>1, <3>2
  <2>w3. FreeWork(t)'
    BY <1>1, <1>inv, <2>1, Typed, NoneAssumption DEF IoFRCompletion, ScqGoto,
       OrState, SetState, BecomesOn, KeepsQueues, OneUserOf, FreeWork,
       ParentOf, BitsOf, EarlyBits, FreedBits, AllStateDone, StateBits
  <2> QED
    BY <2>w1, <2>w2, <2>w3 DEF WorkOf
<1>2. ASSUME NEW s \in Slots, IoSendCompletion(s) PROVE WorkOf(t)'
  <2>1. /\ BecomesOn(s, "none", "none")
        /\ PostedOp[s] = "SEND" /\ PostedSt[s] \in {"ok", "cancelled"}
        /\ Head(sendQ[s]).st = PostedSt[s]
        /\ scq.pc = "idle" /\ InUse(s)
        /\ \A i \in Ios : ~SubHolds(i, s) /\ ~LamHolds(i, s)
    BY <1>2, ReapEffect, Typed DEF IoSendCompletion
  <2>2. Head(sendQ[s]).st = "ok"
    BY <2>1, SlotFacts DEF WorkInv, BufferOf
  <2>3. \A r \in Slots : lReqState'[r] =
          IF r = s THEN lReqState[s] \cup {"WAITING_FOR_RESPONSE"} ELSE lReqState[r]
    BY <1>2, Typed DEF IoSendCompletion, OrState, SetState
  <2>4. scq' = [pc |-> "join", slot |-> s]
    BY <1>2, <2>2 DEF IoSendCompletion, ScqGoto
  <2>w1. EarlyWork(t)'
    BY <1>2, <1>inv, <2>1, <2>3, <2>4, Typed, NoneAssumption DEF
       IoSendCompletion, ScqGoto, OrState, SetState, BecomesOn, KeepsQueues,
       OneUserOf, EarlyWork, BitsOf, EarlyBits, FreedBits, AllStateDone,
       StateBits
  <2>w2. SendWork(t)'
    <3>1. UNCHANGED <<sub, rcqThread, target, rcq, ppvIoReqTable>>
      BY <1>2 DEF IoSendCompletion
    <3>2. CASE t # s
      BY <1>inv, <2>1, <2>3, <2>4, <3>1, <3>2 DEF BecomesOn, SendWork, Answering, Joining
    <3>3. CASE t = s
      <4>1. ~Unsent(t)
        BY <2>1, <3>3
      <4>2. "SUBMITTING" \in lReqState[t]
        BY <1>inv, <2>1, <3>3 DEF BitsOf
      <4> QED
        BY <1>inv, <2>1, <2>3, <2>4, <3>1, <3>3, <4>1, <4>2
           DEF BecomesOn, SendWork, Answering, Joining
    <3> QED
      BY <3>2, <3>3
  <2>w3. FreeWork(t)'
    BY <1>2, <1>inv, <2>1, <2>3, <2>4, Typed, NoneAssumption DEF
       IoSendCompletion, ScqGoto, OrState, SetState, BecomesOn, KeepsQueues,
       OneUserOf, FreeWork, ParentOf, BitsOf, EarlyBits, FreedBits,
       AllStateDone, StateBits
  <2> QED
    BY <2>w1, <2>w2, <2>w3 DEF WorkOf
<1>3. ASSUME NEW s \in Slots, IoCompletion(s) PROVE WorkOf(t)'
  <2>1. /\ BecomesOn(s, "none", "none")
        /\ PostedOp[s] = "INVALIDATE" /\ PostedSt[s] \in {"ok", "cancelled"}
        /\ Head(sendQ[s]).st = PostedSt[s]
        /\ scq.pc = "idle" /\ InUse(s)
        /\ \A i \in Ios : ~SubHolds(i, s) /\ ~LamHolds(i, s)
    BY <1>3, ReapEffect, Typed DEF IoCompletion
  <2>w1. EarlyWork(t)'
    BY <1>3, <1>inv, <2>1, Typed, NoneAssumption DEF IoCompletion, ScqGoto,
       BecomesOn, KeepsQueues, OneUserOf, EarlyWork, BitsOf, EarlyBits,
       FreedBits, AllStateDone, StateBits
  <2>w2. SendWork(t)'
    BY <1>3, <1>inv, <2>1, Typed, NoneAssumption DEF IoCompletion, ScqGoto,
       BecomesOn, KeepsQueues, OneUserOf, EarlyWork, SendWork, Answering,
       Joining, BitsOf, EarlyBits, FreedBits, AllStateDone, StateBits
  <2>w3. FreeWork(t)'
    BY <1>3, <1>inv, <2>1, Typed, NoneAssumption DEF IoCompletion, ScqGoto,
       BecomesOn, KeepsQueues, OneUserOf, FreeWork, ParentOf, BitsOf,
       EarlyBits, FreedBits, AllStateDone, StateBits
  <2> QED
    BY <2>w1, <2>w2, <2>w3 DEF WorkOf
<1>4. CASE SubmitSend
  <2>1. BecomesOn(scq.slot, "SEND", "posted")
    BY <1>4, PostEffect, Typed DEF SubmitSend, OneUser, OneUserOf, Ops
  <2>w1. EarlyWork(t)'
    BY <1>4, <1>inv, <2>1, Typed, NoneAssumption DEF SubmitSend, ScqGoto,
       BecomesOn, KeepsQueues, OneUserOf, EarlyWork, BitsOf, EarlyBits,
       FreedBits, AllStateDone, StateBits
  <2>w2. SendWork(t)'
    BY <1>4, <1>inv, <2>1, Typed, NoneAssumption DEF SubmitSend, ScqGoto,
       BecomesOn, KeepsQueues, OneUserOf, EarlyWork, SendWork, Answering,
       Joining, BitsOf, EarlyBits, FreedBits, AllStateDone, StateBits
  <2>w3. FreeWork(t)'
    BY <1>4, <1>inv, <2>1, Typed, NoneAssumption DEF SubmitSend, ScqGoto,
       BecomesOn, KeepsQueues, OneUserOf, FreeWork, ParentOf, BitsOf,
       EarlyBits, FreedBits, AllStateDone, StateBits
  <2> QED
    BY <2>w1, <2>w2, <2>w3 DEF WorkOf
<1>5. CASE SubmitSendFails
  BY <1>5 DEF SubmitSendFails, NothingFails
<1>6. CASE CountSend
  <2>1. KeepsQueues
    BY <1>6, QueuesKept, Typed DEF CountSend
  <2>w1. EarlyWork(t)'
    BY <1>6, <1>inv, <2>1, Typed, NoneAssumption DEF CountSend, ScqGoto,
       OrState, SetState, BecomesOn, KeepsQueues, OneUserOf, EarlyWork,
       BitsOf, EarlyBits, FreedBits, AllStateDone, StateBits
  <2>w2. SendWork(t)'
    BY <1>6, <1>inv, <2>1, Typed, NoneAssumption DEF CountSend, ScqGoto,
       OrState, SetState, BecomesOn, KeepsQueues, OneUserOf, EarlyWork,
       SendWork, Answering, Joining, BitsOf, EarlyBits, FreedBits,
       AllStateDone, StateBits
  <2>w3. FreeWork(t)'
    BY <1>6, <1>inv, <2>1, Typed, NoneAssumption DEF CountSend, ScqGoto,
       OrState, SetState, BecomesOn, KeepsQueues, OneUserOf, FreeWork,
       ParentOf, BitsOf, EarlyBits, FreedBits, AllStateDone, StateBits
  <2> QED
    BY <2>w1, <2>w2, <2>w3 DEF WorkOf
<1>7. CASE ScqJoin
  <2>1. \/ UNCHANGED lReqState /\ KeepsQueues
        \/ /\ lReqState[scq.slot] = AllStateDone
           /\ PostedOp[scq.slot] = "none" /\ ~ScqHolds(scq.slot)
           /\ \A i \in Ios : ~SubHolds(i, scq.slot) /\ ~LamHolds(i, scq.slot)
           /\ lReqState' = [lReqState EXCEPT ![scq.slot] = {"FREEING"}]
           /\ BecomesOn(scq.slot, "INVALIDATE", "posted") \/ KeepsQueues
    BY <1>7, JoinEffect, Typed DEF ScqJoin
  <2>2. \/ lReqState[scq.slot] # AllStateDone /\ UNCHANGED lReqState /\ KeepsQueues
        \/ /\ lReqState[scq.slot] = AllStateDone
           /\ \A r \in Slots :
                lReqState'[r] = IF r = scq.slot THEN {"FREEING"} ELSE lReqState[r]
           /\ BecomesOn(scq.slot, "INVALIDATE", "posted")
    <3>1. CASE lReqState[scq.slot] # AllStateDone
      BY <1>7, <3>1, QueuesKept DEF ScqJoin, Join
    <3>2. CASE lReqState[scq.slot] = AllStateDone
      <4>1. scq.slot \in Slots /\ Post(scq.slot, "INVALIDATE")
        BY <1>7, <3>2, Typed DEF ScqJoin, Join, InvalidateDataMr, PostFails, NothingFails
      <4>2. PostedOp[scq.slot] = "none"
        BY <3>2, <4>1 DEF OneUser, OneUserOf, AllStateDone, StateBits
      <4>3. BecomesOn(scq.slot, "INVALIDATE", "posted")
        BY <4>1, <4>2, PostEffect DEF Ops
      <4> QED
        BY <1>7, <3>2, <4>3, Typed DEF ScqJoin, Join, InvalidateDataMr, SetState
    <3> QED
      BY <3>1, <3>2
  <2>3. UNCHANGED <<sub, lam, target, rcq, ppvIoReqTable, pvParentReqCtx, rcqThread>>
        /\ ScqGoto("idle", NoSlot)
    BY <1>7 DEF ScqJoin
  <2>w1. EarlyWork(t)'
    <3>1. CASE lReqState[scq.slot] # AllStateDone \/ t # scq.slot
      BY <1>7, <1>inv, <2>2, <2>3, <3>1, Typed
         DEF ScqJoin, ScqGoto, BecomesOn, KeepsQueues, EarlyWork
    <3>2. CASE lReqState[scq.slot] = AllStateDone /\ t = scq.slot
      <4>1. lReqState'[t] = {"FREEING"} /\ PostedOp'[t] = "INVALIDATE"
        BY <1>inv, <2>2, <3>2 DEF BecomesOn
      <4>2. \A i \in Ios : ~SubHolds(i, t)
        BY <1>inv, <3>2 DEF OneUserOf, AllStateDone, StateBits
      <4> QED
        BY <2>3, <4>1, <4>2 DEF EarlyWork, EarlyBits
    <3> QED
      BY <3>1, <3>2
  <2>w2. SendWork(t)'
    <3>1. CASE lReqState[scq.slot] # AllStateDone \/ t # scq.slot
      BY <1>7, <1>inv, <2>2, <2>3, <3>1, Typed
         DEF ScqJoin, ScqGoto, BecomesOn, KeepsQueues, SendWork, Answering, Joining
    <3>2. CASE lReqState[scq.slot] = AllStateDone /\ t = scq.slot
      <4>1. lReqState'[t] = {"FREEING"} /\ PostedOp'[t] = "INVALIDATE"
        BY <1>inv, <2>2, <3>2 DEF BecomesOn
      <4>2. ~ScqAt({"sent"}, t)
        BY <1>inv, <3>2 DEF BitsOf, AllStateDone, StateBits
      <4> QED
        BY <2>3, <4>1, <4>2 DEF ScqGoto, SendWork, AllStateDone, StateBits
    <3> QED
      BY <3>1, <3>2
  <2>w3. FreeWork(t)'
    <3>1. CASE lReqState[scq.slot] # AllStateDone \/ t # scq.slot
      BY <1>7, <1>inv, <2>2, <2>3, <3>1, Typed
         DEF ScqJoin, ScqGoto, BecomesOn, KeepsQueues, FreeWork
    <3>2. CASE lReqState[scq.slot] = AllStateDone /\ t = scq.slot
      <4>1. lReqState'[t] = {"FREEING"} /\ PostedOp'[t] = "INVALIDATE"
        BY <1>inv, <2>2, <3>2 DEF BecomesOn
      <4>2. /\ lReqState[t] # {} /\ ~ScqAt({"free"}, t)
            /\ \A i \in Ios : ~SubHolds(i, t)
        BY <1>inv, <3>2 DEF OneUserOf, BitsOf, FreedBits, AllStateDone, StateBits
      <4>3. pvParentReqCtx[t] # NoIo
        BY <1>inv, <4>2 DEF FreeWork
      <4> QED
        BY <2>3, <4>1, <4>3 DEF FreeWork
    <3> QED
      BY <3>1, <3>2
  <2> QED
    BY <2>w1, <2>w2, <2>w3 DEF WorkOf
<1>8. CASE FreeRequest
  <2>1. KeepsQueues
    BY <1>8, QueuesKept, Typed DEF FreeRequest
  <2>w1. EarlyWork(t)'
    BY <1>8, <1>inv, <2>1, Typed, NoneAssumption DEF FreeRequest, ScqGoto,
       SetState, BecomesOn, KeepsQueues, OneUserOf, EarlyWork, BitsOf,
       EarlyBits, FreedBits, AllStateDone, StateBits
  <2>w2. SendWork(t)'
    BY <1>8, <1>inv, <2>1, Typed, NoneAssumption DEF FreeRequest, ScqGoto,
       SetState, BecomesOn, KeepsQueues, OneUserOf, EarlyWork, SendWork,
       Answering, Joining, BitsOf, EarlyBits, FreedBits, AllStateDone,
       StateBits
  <2>w3. FreeWork(t)'
    BY <1>8, <1>inv, <2>1, Typed, NoneAssumption DEF FreeRequest, ScqGoto,
       SetState, BecomesOn, KeepsQueues, OneUserOf, FreeWork, ParentOf,
       BitsOf, EarlyBits, FreedBits, AllStateDone, StateBits
  <2> QED
    BY <2>w1, <2>w2, <2>w3 DEF WorkOf
<1> QED
  BY <1>1, <1>2, <1>3, <1>4, <1>5, <1>6, <1>7, <1>8 DEF ScqCallback

(* The RCQ callback (3745-3986).                                           *)
LEMMA WorkRcq ==
  ASSUME TypeOK, OneUser, OnceInv, SlotInv, WireInv, WorkInv, NothingFails,
         RcqCallback,
         NEW t \in Slots
  PROVE  WorkOf(t)'
<1>inv. /\ OneUserOf(t) /\ BitsOf(t) /\ ParentOf(t)
        /\ EarlyWork(t) /\ SendWork(t) /\ FreeWork(t)
  BY SlotFacts DEF OneUser, WorkInv, WorkOf
<1>1. ASSUME NEW c \in rcq, ReceiveResponse(c) PROVE WorkOf(t)'
  <2>1. KeepsQueues
    BY <1>1, QueuesKept, Typed DEF ReceiveResponse
  <2>2. RequestOf(c.id) \in Slots /\ ppvIoReqTable[c.id] = RequestOf(c.id)
        /\ c.id \in CmdIds
    BY <1>1 DEF ReceiveResponse, RequestOf, TypeOK, Response
  <2>3. "SUBMITTING" \in lReqState[RequestOf(c.id)]
    BY <2>2 DEF SlotInv, TableInv
  <2>4. \A r \in Slots : lReqState'[r] =
          IF r = RequestOf(c.id) THEN lReqState[r] \cup {"RESPONSE_RECEIVED"}
          ELSE lReqState[r]
    BY <1>1, <2>2, Typed DEF ReceiveResponse, OrState, SetState
  <2>5. /\ UNCHANGED <<sub, lam, scq, target, pvParentReqCtx>>
        /\ rcqThread.pc = "idle"
        /\ rcqThread'.pc = "store" /\ rcqThread'.slot = RequestOf(c.id)
    BY <1>1 DEF ReceiveResponse, RcqReap, RcqGoto
  <2>w1. EarlyWork(t)'
    BY <1>inv, <2>1, <2>3, <2>4, <2>5 DEF KeepsQueues, EarlyWork, EarlyBits
  <2>w2. SendWork(t)'
    <3>1. \A r \in rcq : ppvIoReqTable[r.id] = t /\ t # RequestOf(c.id)
             => r \in rcq' /\ ppvIoReqTable'[r.id] = t
      BY <1>1, <2>2, Typed DEF ReceiveResponse, RcqReap, TakeOut, TypeOK, Response
    <3>2. CASE t # RequestOf(c.id)
      BY <1>inv, <2>1, <2>4, <2>5, <3>1, <3>2 DEF KeepsQueues, SendWork, Answering, Joining
    <3>3. CASE t = RequestOf(c.id)
      BY <1>inv, <2>1, <2>3, <2>4, <2>5, <3>3 DEF KeepsQueues, SendWork, Joining
    <3> QED
      BY <3>2, <3>3
  <2>w3. FreeWork(t)'
    <3>1. lReqState'[t] # {} => lReqState[t] # {}
      BY <2>3, <2>4
    <3>2. "FREEING" \in lReqState'[t] => "FREEING" \in lReqState[t]
      <4>1. CASE t = RequestOf(c.id)
        <5>1. lReqState'[t] = lReqState[t] \cup {"RESPONSE_RECEIVED"}
          BY <2>4, <4>1
        <5> QED
          BY <5>1
      <4>2. CASE t # RequestOf(c.id)
        BY <2>4, <4>2
      <4> QED
        BY <4>1, <4>2
    <3>3. PostedOp'[t] = PostedOp[t]
      BY <2>1 DEF KeepsQueues
    <3> QED
      BY <1>inv, <2>5, <3>1, <3>2, <3>3 DEF FreeWork
  <2> QED
    BY <2>w1, <2>w2, <2>w3 DEF WorkOf
<1>2. ASSUME NEW c \in rcq, ReceiveInvalid(c) PROVE WorkOf(t)'
  <2>1. c.id \in CmdIds /\ ppvIoReqTable[c.id] \in Slots
    BY <1>2 DEF TypeOK, Response, WireInv
  <2>2. usCommandID[ppvIoReqTable[c.id]] = c.id
    BY <2>1 DEF SlotInv, TableInv
  <2>3. RequestOf(c.id) # NoSlot
    BY <2>1, <2>2, NoneAssumption DEF RequestOf
  <2> QED
    BY <1>2, <2>3 DEF ReceiveInvalid, NothingFails
<1>3. CASE StoreResponse
  <2>1. KeepsQueues
    BY <1>3, QueuesKept, Typed DEF StoreResponse
  <2>w1. EarlyWork(t)'
    BY <1>3, <1>inv, <2>1, Typed, NoneAssumption DEF StoreResponse, RcqGoto,
       BecomesOn, KeepsQueues, OneUserOf, EarlyWork, BitsOf, EarlyBits,
       FreedBits, AllStateDone, StateBits
  <2>w2. SendWork(t)'
    BY <1>3, <1>inv, <2>1, Typed, NoneAssumption DEF StoreResponse, RcqGoto,
       BecomesOn, KeepsQueues, OneUserOf, EarlyWork, SendWork, Answering,
       Joining, BitsOf, EarlyBits, FreedBits, AllStateDone, StateBits
  <2>w3. FreeWork(t)'
    BY <1>3, <1>inv, <2>1, Typed, NoneAssumption DEF StoreResponse, RcqGoto,
       BecomesOn, KeepsQueues, OneUserOf, FreeWork, ParentOf, BitsOf,
       EarlyBits, FreedBits, AllStateDone, StateBits
  <2> QED
    BY <2>w1, <2>w2, <2>w3 DEF WorkOf
<1>4. CASE RcqJoin
  <2>1. \/ UNCHANGED lReqState /\ KeepsQueues
        \/ /\ lReqState[rcqThread.slot] = AllStateDone
           /\ PostedOp[rcqThread.slot] = "none" /\ ~ScqHolds(rcqThread.slot)
           /\ \A i \in Ios : ~SubHolds(i, rcqThread.slot) /\ ~LamHolds(i, rcqThread.slot)
           /\ lReqState' = [lReqState EXCEPT ![rcqThread.slot] = {"FREEING"}]
           /\ BecomesOn(rcqThread.slot, "INVALIDATE", "posted") \/ KeepsQueues
    BY <1>4, JoinEffect, Typed DEF RcqJoin
  <2>2. \/ lReqState[rcqThread.slot] # AllStateDone /\ UNCHANGED lReqState /\ KeepsQueues
        \/ /\ lReqState[rcqThread.slot] = AllStateDone
           /\ \A r \in Slots :
                lReqState'[r] = IF r = rcqThread.slot THEN {"FREEING"} ELSE lReqState[r]
           /\ BecomesOn(rcqThread.slot, "INVALIDATE", "posted")
    <3>1. CASE lReqState[rcqThread.slot] # AllStateDone
      BY <1>4, <3>1, QueuesKept DEF RcqJoin, Join
    <3>2. CASE lReqState[rcqThread.slot] = AllStateDone
      <4>1. rcqThread.slot \in Slots /\ Post(rcqThread.slot, "INVALIDATE")
        BY <1>4, <3>2, Typed DEF RcqJoin, Join, InvalidateDataMr, PostFails, NothingFails
      <4>2. PostedOp[rcqThread.slot] = "none"
        BY <3>2, <4>1 DEF OneUser, OneUserOf, AllStateDone, StateBits
      <4>3. BecomesOn(rcqThread.slot, "INVALIDATE", "posted")
        BY <4>1, <4>2, PostEffect DEF Ops
      <4> QED
        BY <1>4, <3>2, <4>3, Typed DEF RcqJoin, Join, InvalidateDataMr, SetState
    <3> QED
      BY <3>1, <3>2
  <2>3. UNCHANGED <<sub, lam, target, rcq, ppvIoReqTable, pvParentReqCtx, scq>>
        /\ RcqGoto("repost", NoSlot, NoIo)
    BY <1>4 DEF RcqJoin
  <2>w1. EarlyWork(t)'
    <3>1. CASE lReqState[rcqThread.slot] # AllStateDone \/ t # rcqThread.slot
      BY <1>4, <1>inv, <2>2, <2>3, <3>1, Typed
         DEF RcqJoin, RcqGoto, BecomesOn, KeepsQueues, EarlyWork
    <3>2. CASE lReqState[rcqThread.slot] = AllStateDone /\ t = rcqThread.slot
      <4>1. lReqState'[t] = {"FREEING"} /\ PostedOp'[t] = "INVALIDATE"
        BY <1>inv, <2>2, <3>2 DEF BecomesOn
      <4>2. \A i \in Ios : ~SubHolds(i, t)
        BY <1>inv, <3>2 DEF OneUserOf, AllStateDone, StateBits
      <4> QED
        BY <2>3, <4>1, <4>2 DEF EarlyWork, EarlyBits
    <3> QED
      BY <3>1, <3>2
  <2>w2. SendWork(t)'
    <3>1. CASE lReqState[rcqThread.slot] # AllStateDone \/ t # rcqThread.slot
      BY <1>4, <1>inv, <2>2, <2>3, <3>1, Typed
         DEF RcqJoin, RcqGoto, BecomesOn, KeepsQueues, SendWork, Answering, Joining
    <3>2. CASE lReqState[rcqThread.slot] = AllStateDone /\ t = rcqThread.slot
      <4>1. lReqState'[t] = {"FREEING"} /\ PostedOp'[t] = "INVALIDATE"
        BY <1>inv, <2>2, <3>2 DEF BecomesOn
      <4>2. ~ScqAt({"sent"}, t)
        BY <1>inv, <3>2 DEF BitsOf, AllStateDone, StateBits
      <4> QED
        BY <2>3, <4>1, <4>2 DEF RcqGoto, SendWork, AllStateDone, StateBits
    <3> QED
      BY <3>1, <3>2
  <2>w3. FreeWork(t)'
    <3>1. CASE lReqState[rcqThread.slot] # AllStateDone \/ t # rcqThread.slot
      BY <1>4, <1>inv, <2>2, <2>3, <3>1, Typed
         DEF RcqJoin, RcqGoto, BecomesOn, KeepsQueues, FreeWork
    <3>2. CASE lReqState[rcqThread.slot] = AllStateDone /\ t = rcqThread.slot
      <4>1. lReqState'[t] = {"FREEING"} /\ PostedOp'[t] = "INVALIDATE"
        BY <1>inv, <2>2, <3>2 DEF BecomesOn
      <4>2. /\ lReqState[t] # {} /\ ~ScqAt({"free"}, t)
            /\ \A i \in Ios : ~SubHolds(i, t)
        BY <1>inv, <3>2 DEF OneUserOf, BitsOf, FreedBits, AllStateDone, StateBits
      <4>3. pvParentReqCtx[t] # NoIo
        BY <1>inv, <4>2 DEF FreeWork
      <4> QED
        BY <2>3, <4>1, <4>3 DEF FreeWork
    <3> QED
      BY <3>1, <3>2
  <2> QED
    BY <2>w1, <2>w2, <2>w3 DEF WorkOf
<1>5. CASE ReceiveSteps
  <2>0. /\ rcqThread.pc \in ReceivePcs /\ rcqThread'.pc \in ReceivePcs
        /\ UNCHANGED <<queueVars, sub, lam, scq, flush, sendQ, target, rcq>>
    BY <1>5, ReceiveMoves
  <2>1. KeepsQueues
    BY <2>0, QueuesKept
  <2>w1. EarlyWork(t)'
    BY <2>0, <1>inv, <2>1 DEF KeepsQueues, EarlyWork
  <2>w2. SendWork(t)'
    BY <2>0, <1>inv, <2>1 DEF ReceivePcs, KeepsQueues, SendWork, Answering, Joining
  <2>w3. FreeWork(t)'
    BY <2>0, <1>inv, <2>1 DEF KeepsQueues, FreeWork
  <2> QED
    BY <2>w1, <2>w2, <2>w3 DEF WorkOf
<1> QED
  BY <1>1, <1>2, <1>3, <1>4, <1>5 DEF RcqCallback, ReceiveSteps

(* The adapter.                                                            *)
LEMMA WorkAdapter ==
  ASSUME TypeOK, OneUser, OnceInv, SlotInv, WireInv, WorkInv, NothingFails,
         NEW s \in Slots, Adapter(s),
         NEW t \in Slots
  PROVE  WorkOf(t)'
<1>inv. /\ OneUserOf(t) /\ BitsOf(t) /\ ParentOf(t)
        /\ EarlyWork(t) /\ SendWork(t) /\ FreeWork(t)
  BY SlotFacts DEF OneUser, WorkInv, WorkOf
<1>1. CASE AdapterExecutes(s)
  <2>1. /\ BecomesOn(s, PostedOp[s], "ok")
        /\ PostedOp[s] = Head(sendQ[s]).op /\ PostedOp[s] \in Ops
        /\ PostedSt[s] = "posted"
    BY <1>1, RetireEffect, Typed DEF AdapterExecutes
  <2>2. /\ UNCHANGED <<lReqState, sub, lam, scq, rcqThread, rcq, ppvIoReqTable>>
        /\ target \subseteq target'
        /\ PostedOp[s] = "SEND" => \E c \in target' : c.slot = s
    <3> DEFINE command == [id |-> usCommandID[s], slot |-> s, io |-> pvBuffer[s]]
    <3>1. PostedOp[s] = "SEND" => command \in target' /\ command.slot = s
      BY <1>1, <2>1 DEF AdapterExecutes
    <3> HIDE DEF command
    <3> QED
      BY <1>1, <3>1 DEF AdapterExecutes
  <2>w1. EarlyWork(t)'
    BY <1>1, <1>inv, <2>1, Typed, NoneAssumption DEF AdapterExecutes,
       BecomesOn, KeepsQueues, OneUserOf, EarlyWork, BitsOf, EarlyBits,
       FreedBits, AllStateDone, StateBits
  <2>w2. SendWork(t)'
    BY <1>inv, <2>1, <2>2 DEF BecomesOn, SendWork, Answering, Joining
  <2>w3. FreeWork(t)'
    BY <1>1, <1>inv, <2>1, Typed, NoneAssumption DEF AdapterExecutes,
       BecomesOn, KeepsQueues, OneUserOf, FreeWork, ParentOf, BitsOf,
       EarlyBits, FreedBits, AllStateDone, StateBits
  <2> QED
    BY <2>w1, <2>w2, <2>w3 DEF WorkOf
<1>2. CASE AdapterCancels(s)
  BY <1>2 DEF AdapterCancels, WorkInv
<1> QED
  BY <1>1, <1>2 DEF Adapter

(* The target, the connection and the flush (4272-4318).                   *)
LEMMA WorkRest ==
  ASSUME TypeOK, OneUser, OnceInv, SlotInv, WireInv, WorkInv, NothingFails,
         Flush \/ (\E c \in target : TargetAnswers(c)) \/ ConnectionLost \/ IOQPDisconnect,
         NEW t \in Slots
  PROVE  WorkOf(t)'
<1>inv. /\ OneUserOf(t) /\ BitsOf(t) /\ ParentOf(t)
        /\ EarlyWork(t) /\ SendWork(t) /\ FreeWork(t)
  BY SlotFacts DEF OneUser, WorkInv, WorkOf
<1>1. ASSUME NEW c \in target, TargetAnswers(c) PROVE WorkOf(t)'
  <2>1. KeepsQueues
    BY <1>1, QueuesKept, Typed DEF TargetAnswers
  <2>2. /\ UNCHANGED <<lReqState, sub, lam, scq, rcqThread, ppvIoReqTable>>
        /\ \A d \in target : d # c => d \in target'
        /\ rcq \subseteq rcq'
        /\ \E r \in rcq' : ppvIoReqTable[r.id] = c.slot
    <3> DEFINE response == [id |-> c.id, io |-> c.io]
    <3>1. response \in rcq' /\ ppvIoReqTable[response.id] = c.slot
      BY <1>1 DEF TargetAnswers, WireInv
    <3> HIDE DEF response
    <3> QED
      BY <1>1, <3>1 DEF TargetAnswers
  <2>w1. EarlyWork(t)'
    BY <1>1, <1>inv, <2>1, Typed, NoneAssumption DEF TargetAnswers, BecomesOn,
       KeepsQueues, OneUserOf, EarlyWork, BitsOf, EarlyBits, FreedBits,
       AllStateDone, StateBits
  <2>w2. SendWork(t)'
    BY <1>inv, <2>1, <2>2 DEF KeepsQueues, SendWork, Answering, Joining
  <2>w3. FreeWork(t)'
    BY <1>1, <1>inv, <2>1, Typed, NoneAssumption DEF TargetAnswers, BecomesOn,
       KeepsQueues, OneUserOf, FreeWork, ParentOf, BitsOf, EarlyBits,
       FreedBits, AllStateDone, StateBits
  <2> QED
    BY <2>w1, <2>w2, <2>w3 DEF WorkOf
<1>2. CASE ConnectionLost
  BY <1>2 DEF ConnectionLost, NothingFails
<1>3. CASE IOQPDisconnect
  BY <1>3 DEF IOQPDisconnect, WorkInv
<1>4. ASSUME NEW s \in Slots, FlushTests(s) PROVE WorkOf(t)'
  BY <1>4 DEF FlushTests, WorkInv, SlotInv, ConnectionInv
<1>5. CASE FlushTakes
  BY <1>5 DEF FlushTakes, WorkInv
<1> QED
  BY <1>1, <1>2, <1>3, <1>4, <1>5 DEF Flush

(* Every step of a healthy queue keeps WorkInv.                             *)
LEMMA WorkStep ==
  TypeOK /\ OneUser /\ OnceInv /\ SlotInv /\ WireInv /\ WorkInv /\ NothingFails /\ [Next]_vars
  => WorkInv'
<1> SUFFICES ASSUME TypeOK, OneUser, OnceInv, SlotInv, WireInv, WorkInv, NothingFails,
                    [Next]_vars
             PROVE  WorkInv'
  OBVIOUS
<1>1. ASSUME NEW t \in Slots PROVE WorkOf(t)'
  <2>1. CASE Finished \/ UNCHANGED vars
    <3>1. UNCHANGED vars /\ KeepsQueues
      BY <2>1, QueuesKept DEF Finished, vars
    <3> QED
      BY <3>1 DEF vars, KeepsQueues, WorkInv, WorkOf, EarlyWork, SendWork, FreeWork,
         Answering, Joining
  <2>2. CASE Next /\ ~Finished
    BY <2>2, WorkSubmitter, WorkLam, WorkScq, WorkRcq, WorkAdapter, WorkRest DEF Next
  <2> QED
    BY <2>1, <2>2
<1>2. (connected /\ flush = NoSlot)'
  <2>1. ulDisconnectFlag = "0"
    BY DEF SlotInv, ConnectionInv, WorkInv
  <2>2. connected /\ flush = NoSlot /\ "disconnect" \notin Faults
    BY DEF WorkInv, NothingFails
  <2>3. ASSUME NEW i \in Ios, Submitter(i) \/ LamCallback(i)
        PROVE  UNCHANGED <<connected, flush>>
    BY <2>3 DEF Submitter, LamCallback, IOSubmitRW, NoFreeIORequest,
       GetCurrentFreeIORequest, PrepareRWRequest, PrepareRWPending,
       PrepareRWReturnsPending, PrepareRWFails, SubmitFastRegister,
       SubmitFastRegisterFails, CountFastRegister, BuildDataLamCompletion,
       LamCountsFastRegister
  <2>4. ASSUME ScqCallback PROVE UNCHANGED <<connected, flush>>
    BY <2>4 DEF ScqCallback, IoFRCompletion, IoSendCompletion, IoCompletion,
       SubmitSend, SubmitSendFails, CountSend, ScqJoin, FreeRequest
  <2>5. ASSUME RcqCallback PROVE UNCHANGED <<connected, flush>>
    BY <2>5 DEF RcqCallback, ReceiveResponse, ReceiveInvalid, StoreResponse, RcqJoin,
       RepostReceive, CountReceive, ReceiveFlushed, ReceiveFailed
  <2>6. ASSUME NEW s \in Slots, Adapter(s) PROVE UNCHANGED <<connected, flush>>
    BY <2>6 DEF Adapter, AdapterExecutes, AdapterCancels
  <2>7. ASSUME NEW c \in target, TargetAnswers(c) PROVE UNCHANGED <<connected, flush>>
    BY <2>7 DEF TargetAnswers
  <2> QED
    BY <2>1, <2>2, <2>3, <2>4, <2>5, <2>6, <2>7 DEF Next, Flush, FlushTakes, FlushTests,
       ConnectionLost, IOQPDisconnect, Finished, vars
<1>3. \A i \in Ios : lam'[i].pc = "idle" /\ sub'[i].pc # "lamReturn"
  <2>1. \A i \in Ios : lam[i].pc = "idle" /\ sub[i].pc # "lamReturn"
    BY DEF WorkInv
  <2>2. ASSUME NEW i \in Ios, Submitter(i)
        PROVE  /\ UNCHANGED lam
               /\ \E pc \in SubPcs \ {"lamReturn"}, s \in Slots \cup {NoSlot} :
                    SubGoto(i, pc, s)
    <3>1. sub[i].pc \in SubSlotPcs => sub[i].slot \in Slots
      BY Typed
    <3> QED
      BY <2>1, <2>2, <3>1
         DEF Submitter, IOSubmitRW, NoFreeIORequest,
         GetCurrentFreeIORequest, PrepareRWRequest, PrepareRWPending,
         PrepareRWReturnsPending, PrepareRWFails, SubmitFastRegister,
         SubmitFastRegisterFails, CountFastRegister, NothingFails, SubPcs, SubSlotPcs
  <2>3. ASSUME NEW i \in Ios, Submitter(i)
        PROVE  \A j \in Ios : lam'[j].pc = "idle" /\ sub'[j].pc # "lamReturn"
    BY <2>1, <2>2, <2>3, Typed DEF SubGoto
  <2>4. \A i \in Ios : ~LamCallback(i)
    BY <2>1 DEF LamCallback, BuildDataLamCompletion, LamCountsFastRegister
  <2>5. ASSUME ScqCallback PROVE UNCHANGED <<lam, sub>>
    BY <2>5 DEF ScqCallback, IoFRCompletion, IoSendCompletion, IoCompletion,
       SubmitSend, SubmitSendFails, CountSend, ScqJoin, FreeRequest
  <2>6. ASSUME RcqCallback PROVE UNCHANGED <<lam, sub>>
    BY <2>6 DEF RcqCallback, ReceiveResponse, ReceiveInvalid, StoreResponse, RcqJoin,
       RepostReceive, CountReceive, ReceiveFlushed, ReceiveFailed
  <2>7. ASSUME NEW s \in Slots, Adapter(s) \/ FlushTests(s) PROVE UNCHANGED <<lam, sub>>
    BY <2>7 DEF Adapter, AdapterExecutes, AdapterCancels, FlushTests
  <2>8. ASSUME NEW c \in target, TargetAnswers(c) PROVE UNCHANGED <<lam, sub>>
    BY <2>8 DEF TargetAnswers
  <2> QED
    BY <2>1, <2>3, <2>4, <2>5, <2>6, <2>7, <2>8 DEF Next, Flush, FlushTakes,
       ConnectionLost, IOQPDisconnect, Finished, vars
<1> QED
  BY <1>1, <1>2, <1>3 DEF WorkInv

(* Where nothing fails and no LAM pends, a queue gone quiet has returned    *)
(* every I/O and kept no slot and no registration: of the two callbacks     *)
(* that meet in lReqState (5058, 5160) one always invalidates.              *)
THEOREM QuietMeansDoneCorrect ==
  ASSUME EachIdOnce, NothingFails
  PROVE  Spec => []QuietMeansDone
<1>1. Init => WorkInv
  <2> SUFFICES ASSUME Init PROVE WorkInv
    OBVIOUS
  <2>1. ASSUME NEW s \in Slots PROVE WorkOf(s)
    <3>1. PostedOp[s] = "none" /\ lReqState[s] = {} /\ scq.pc = "idle"
      BY DEF Init, PostedOp, OpOf
    <3>2. \A i \in Ios : ~SubHolds(i, s)
      BY DEF Init
    <3> QED
      BY <3>1, <3>2
         DEF WorkOf, EarlyWork, SendWork, FreeWork, AllStateDone, StateBits
  <2> QED
    BY <2>1 DEF Init, WorkInv
<1>2. TypeOK /\ OneUser /\ SlotInv /\ OwnerInv /\ WorkInv => QuietMeansDone
  <2> SUFFICES ASSUME TypeOK, OneUser, SlotInv, OwnerInv, WorkInv, Quiescent
               PROVE  AllReturned /\ FreeSlots = Slots /\ \A s \in Slots : mr[s] = NoIo
    BY DEF QuietMeansDone
  <2>1. ASSUME NEW s \in Slots PROVE lReqState[s] = {}
    <3>1. EarlyWork(s) /\ SendWork(s) /\ FreeWork(s)
      BY DEF WorkInv, WorkOf
    <3>2. PostedOp[s] = "none"
      BY DEF Quiescent, PostedOp, OpOf
    <3>3. ~Answering(s) /\ ~Joining(s)
      BY <3>2 DEF Quiescent, Answering, Joining
    <3>4. "FREEING" \notin lReqState[s]
      BY <3>1, <3>2 DEF Quiescent, FreeWork
    <3>5. "SUBMITTING" \notin lReqState[s]
      <4> SUFFICES ASSUME "SUBMITTING" \in lReqState[s] PROVE FALSE
        OBVIOUS
      <4>1. EarlyBits \cup {"SUBMITTING", "SUBMITTED", "WAITING_FOR_RESPONSE",
                            "RESPONSE_RECEIVED"} \subseteq lReqState[s]
        BY <3>1, <3>2, <3>3 DEF Quiescent, SendWork
      <4>2. lReqState[s] = AllStateDone
        BY <3>4, <4>1, Typed DEF EarlyBits, AllStateDone, StateBits
      <4> QED
        BY <3>1, <3>3, <4>2 DEF SendWork
    <3>6. \A i \in Ios : ~SubHolds(i, s)
      BY DEF Quiescent
    <3> QED
      BY <3>1, <3>2, <3>4, <3>5, <3>6 DEF EarlyWork, SendWork
  <2>2. FreeSlots = Slots
    BY <2>1 DEF FreeSlots
  <2>3. \A s \in Slots : pvParentReqCtx[s] = NoIo /\ mr[s] = NoIo
    BY <2>1, SlotFacts DEF ParentOf, BufferOf, WorkInv
  <2>4. AllReturned
    <3> SUFFICES ASSUME NEW i \in Ios, sub[i].pc # "refused" PROVE os[i].done > 0
      BY DEF AllReturned
    <3>1. sub[i].pc = "pending"
      BY DEF Quiescent
    <3>2. os[i].done # 0
      BY <2>3, <3>1, NoneAssumption DEF OwnerInv, OwnedOf, NotYetIn
    <3>3. os[i].done \in Nat
      BY DEF TypeOK
    <3> QED
      BY <3>2, <3>3
  <2> QED
    BY <2>2, <2>3, <2>4
<1>3. NoRefusalAfterLoss
  BY DEF NoRefusalAfterLoss, NothingFails
<1>4. Spec => []OwnerInv
  BY <1>3, OwnerCorrect
<1>5. Spec => [](SlotInv /\ WireInv)
  BY IdCorrect, SlotCorrect, PTL DEF IdInv
<1> QED
  BY <1>1, <1>2, <1>4, <1>5, WorkStep, SlotCorrect, PTL DEF Spec

-----------------------------------------------------------------------------
(* The counters.  While the connection stands each of them counts a set of  *)
(* requests or of receives, whatever else fails.                            *)
CountedWell == "disconnect" \notin Faults

(* The requests posted to the adapter, and the threads and callbacks that   *)
(* have posted a registration and not counted it yet.                       *)
Registering  == {s \in Slots : PostedOp[s] = "FAST_REGISTER"}
Sending      == {s \in Slots : PostedOp[s] = "SEND"}
Uncounted    == {i \in Ios : sub[i].pc = "registered"}
UncountedLam == {i \in Ios : lam[i].pc = "registered"}
counted == <<Registering, Sending, Uncounted, UncountedLam>>

(* Each counter, as a sum over these sets.                                  *)
SumsInv ==
  /\ cnt["lFRMRReqOutstanding"] =
       Cardinality(Registering) - Cardinality(Uncounted) - Cardinality(UncountedLam)
  /\ cnt["lSubmissionWorkRequestOutstanding"] =
       Cardinality(Sending) - (IF scq.pc = "sent" THEN 1 ELSE 0)
  /\ cnt["lReceiveWorkRequestOutstanding"] =
       recvPosted + Cardinality(rcq) - (IF rcqThread.pc = "reposted" THEN 1 ELSE 0)

(* A LAM is built for an I/O after its thread asked for it.                 *)
LamFollows(i) == sub[i].pc \in {"new", "alloc", "prepare"} => lam[i].pc = "idle"

(* The sums, and the healthy connection they hold on.                       *)
BalanceInv ==
  /\ SumsInv
  /\ IsFiniteSet(rcq) /\ recvFlushed = 0 /\ rcqThread.pc # "failed"
  /\ connected /\ ulDisconnectFlag = "0" /\ flush = NoSlot
  /\ \A i \in Ios : LamFollows(i)

-----------------------------------------------------------------------------
(* A set with one element more.                                             *)
LEMMA OneMore ==
  ASSUME NEW S, IsFiniteSet(S), NEW x, x \notin S
  PROVE  /\ IsFiniteSet(S \cup {x}) /\ Cardinality(S) \in Nat
         /\ Cardinality(S \cup {x}) = Cardinality(S) + 1
  BY FS_AddElement, FS_CardinalityType

(* A set with one element less.                                             *)
LEMMA OneLess ==
  ASSUME NEW S, IsFiniteSet(S), NEW x \in S
  PROVE  /\ IsFiniteSet(S \ {x}) /\ Cardinality(S) \in Nat
         /\ Cardinality(S \ {x}) = Cardinality(S) - 1
  BY FS_RemoveElement, FS_CardinalityType

(* What the counters count is finite.                                       *)
LEMMA Countable ==
  ASSUME IsFiniteSet(Slots), IsFiniteSet(Ios)
  PROVE  /\ IsFiniteSet(Registering) /\ Cardinality(Registering) \in Nat
         /\ IsFiniteSet(Sending) /\ Cardinality(Sending) \in Nat
         /\ IsFiniteSet(Uncounted) /\ Cardinality(Uncounted) \in Nat
         /\ IsFiniteSet(UncountedLam) /\ Cardinality(UncountedLam) \in Nat
<1>1. /\ Registering \subseteq Slots /\ Sending \subseteq Slots
      /\ Uncounted \subseteq Ios /\ UncountedLam \subseteq Ios
  BY DEF Registering, Sending, Uncounted, UncountedLam
<1>2. \A S \in SUBSET Slots : IsFiniteSet(S) /\ Cardinality(S) \in Nat
  BY FS_Subset, FS_CardinalityType
<1>3. \A S \in SUBSET Ios : IsFiniteSet(S) /\ Cardinality(S) \in Nat
  BY FS_Subset, FS_CardinalityType
<1> QED
  BY <1>1, <1>2, <1>3

(* What a step of a thread does to what is counted.                         *)
LEMMA QueueSets ==
  ASSUME NEW s \in Slots, NEW op, NEW st, BecomesOn(s, op, st)
  PROVE  /\ Registering' = IF op = "FAST_REGISTER" THEN Registering \cup {s}
                           ELSE Registering \ {s}
         /\ Sending' = IF op = "SEND" THEN Sending \cup {s} ELSE Sending \ {s}
         /\ op # "FAST_REGISTER" /\ s \notin Registering => UNCHANGED Registering
         /\ op # "SEND" /\ s \notin Sending => UNCHANGED Sending
  BY DEF BecomesOn, Registering, Sending

(* A step that posts nothing.                                               *)
LEMMA QueueSetsKept ==
  ASSUME KeepsQueues
  PROVE  UNCHANGED <<Registering, Sending>>
  BY DEF KeepsQueues, Registering, Sending

(* A submitting thread goes on.                                             *)
LEMMA SubSets ==
  ASSUME TypeOK, NEW i \in Ios, NEW pc, NEW s, SubGoto(i, pc, s)
  PROVE  /\ Uncounted' = IF pc = "registered" THEN Uncounted \cup {i} ELSE Uncounted \ {i}
         /\ pc # "registered" /\ i \notin Uncounted => UNCHANGED Uncounted
<1>1. \A j \in Ios : sub'[j].pc = IF j = i THEN pc ELSE sub[j].pc
  BY Typed DEF SubGoto
<1> QED
  BY <1>1 DEF Uncounted

(* A LAM callback goes on.                                                  *)
LEMMA LamSets ==
  ASSUME TypeOK, NEW i \in Ios, NEW pc, NEW s, LamGoto(i, pc, s)
  PROVE  /\ UncountedLam' = IF pc = "registered" THEN UncountedLam \cup {i}
                            ELSE UncountedLam \ {i}
         /\ pc # "registered" /\ i \notin UncountedLam => UNCHANGED UncountedLam
<1>1. \A j \in Ios : lam'[j].pc = IF j = i THEN pc ELSE lam[j].pc
  BY Typed DEF LamGoto
<1> QED
  BY <1>1 DEF UncountedLam

(* The join posts an invalidation at most, which is not counted.            *)
LEMMA JoinSets ==
  ASSUME TypeOK, OneUser, NEW s \in Slots, Join(s)
  PROVE  UNCHANGED <<Registering, Sending>>
<1>1. CASE KeepsQueues
  BY <1>1, QueueSetsKept
<1>2. CASE PostedOp[s] = "none" /\ BecomesOn(s, "INVALIDATE", "posted")
  <2>1. s \notin Registering /\ s \notin Sending
    BY <1>2 DEF Registering, Sending
  <2> QED
    BY <1>2, <2>1, QueueSets
<1> QED
  BY <1>1, <1>2, JoinEffect

(* A variable that keeps its value keeps the sets.                          *)
LEMMA SetsKept ==
  /\ UNCHANGED sub => UNCHANGED Uncounted
  /\ UNCHANGED lam => UNCHANGED UncountedLam
  BY DEF Uncounted, UncountedLam

(* The interlocked increments and decrements, counter by counter.           *)
LEMMA Counted ==
  ASSUME NEW names, NEW d, Count(names, d)
  PROVE  \A c \in Counters : cnt'[c] = IF c \in names THEN cnt[c] + d ELSE cnt[c]
  BY DEF Count

(* A step that moves nothing and counts nothing.                            *)
LEMMA SumsKept ==
  ASSUME SumsInv, UNCHANGED <<cnt, rcq, recvPosted>>, UNCHANGED counted,
         scq'.pc = "sent" <=> scq.pc = "sent",
         rcqThread'.pc = "reposted" <=> rcqThread.pc = "reposted"
  PROVE  SumsInv'
  BY DEF SumsInv, counted

(* Every counter is a number.                                               *)
LEMMA NumbersTyped ==
  ASSUME TypeOK
  PROVE  recvPosted \in Nat /\ \A c \in Counters : cnt[c] \in Int
  BY DEF TypeOK

-----------------------------------------------------------------------------
(* The submitting threads (5409-5479): the registration is counted after it *)
(* is posted, and one that is refused is not.                               *)
LEMMA SumsSubmitter ==
  ASSUME TypeOK, OneUser, BalanceInv, IsFiniteSet(Slots), IsFiniteSet(Ios),
         NEW i \in Ios, Submitter(i)
  PROVE  SumsInv'
<1>inv. SumsInv /\ LamFollows(i)
  BY DEF BalanceInv
<1>use. \A s \in Slots : OneUserOf(s)
  BY DEF OneUser
<1>1. CASE ~SubmitFastRegister(i) /\ ~CountFastRegister(i)
  <2>1. KeepsQueues /\ UNCHANGED <<cnt, scq, rcqThread, rcq, recvPosted>>
    BY <1>1, QueuesKept DEF Submitter, IOSubmitRW, NoFreeIORequest,
       GetCurrentFreeIORequest, PrepareRWRequest, PrepareRWPending,
       PrepareRWReturnsPending, PrepareRWFails, SubmitFastRegisterFails, PostFails
  <2>2. /\ i \notin Uncounted
        /\ \E pc, s : pc # "registered" /\ SubGoto(i, pc, s)
    BY <1>1 DEF Submitter, IOSubmitRW, NoFreeIORequest,
       GetCurrentFreeIORequest, PrepareRWRequest, PrepareRWPending,
       PrepareRWReturnsPending, PrepareRWFails, SubmitFastRegisterFails, Uncounted
  <2>3. UNCHANGED UncountedLam
    <3>1. CASE PrepareRWPending(i)
      <4>1. i \notin UncountedLam /\ LamGoto(i, "building", sub[i].slot)
        BY <1>inv, <3>1 DEF PrepareRWPending, LamFollows, UncountedLam
      <4> QED
        BY <4>1, LamSets
    <3>2. CASE ~PrepareRWPending(i)
      BY <1>1, <3>2, SetsKept DEF Submitter, IOSubmitRW, NoFreeIORequest,
         GetCurrentFreeIORequest, PrepareRWRequest, PrepareRWReturnsPending,
         PrepareRWFails, SubmitFastRegisterFails
    <3> QED
      BY <3>1, <3>2
  <2>4. UNCHANGED counted
    BY <2>1, <2>2, <2>3, QueueSetsKept, SubSets DEF counted
  <2> QED
    BY <1>inv, <2>1, <2>4, SumsKept
<1>2. CASE SubmitFastRegister(i)
  <2>1. /\ UNCHANGED <<Sending, UncountedLam>>
        /\ sub[i].slot \notin Registering /\ Registering' = Registering \cup {sub[i].slot}
        /\ i \notin Uncounted /\ Uncounted' = Uncounted \cup {i}
    <3>1. /\ BecomesOn(sub[i].slot, "FAST_REGISTER", "posted")
          /\ SubGoto(i, "registered", NoSlot) /\ UNCHANGED lam
      BY <1>2, <1>use, PostEffect, Typed DEF SubmitFastRegister,
         OneUserOf, Ops, SubSlotPcs
    <3>2. /\ i \notin Uncounted /\ sub[i].slot \in Slots
          /\ sub[i].slot \notin Registering /\ sub[i].slot \notin Sending
      BY <1>2, <1>use, Typed DEF SubmitFastRegister, OneUserOf,
         Uncounted, Registering, Sending, SubSlotPcs
    <3> QED
      BY <3>1, <3>2, QueueSets, SubSets, SetsKept
  <2>2. /\ Cardinality(Registering') = Cardinality(Registering) + 1
        /\ Cardinality(Uncounted') = Cardinality(Uncounted) + 1
    BY <2>1, Countable, OneMore
  <2>3. UNCHANGED <<cnt, scq, rcqThread, rcq, recvPosted>>
    BY <1>2 DEF SubmitFastRegister
  <2> QED
    BY <1>inv, <2>1, <2>2, <2>3, Countable DEF SumsInv
<1>3. CASE CountFastRegister(i)
  <2>1. /\ UNCHANGED <<Registering, Sending, UncountedLam>>
        /\ i \in Uncounted /\ Uncounted' = Uncounted \ {i}
    <3>1. KeepsQueues /\ SubGoto(i, "pending", NoSlot) /\ UNCHANGED lam
      BY <1>3, QueuesKept DEF CountFastRegister
    <3>2. i \in Uncounted
      BY <1>3 DEF CountFastRegister, Uncounted
    <3> QED
      BY <3>1, <3>2, QueueSetsKept, SubSets, SetsKept
  <2>2. Cardinality(Uncounted') = Cardinality(Uncounted) - 1
    BY <2>1, Countable, OneLess
  <2>3. /\ cnt'["lFRMRReqOutstanding"] = cnt["lFRMRReqOutstanding"] + 1
        /\ cnt'["lSubmissionWorkRequestOutstanding"] = cnt["lSubmissionWorkRequestOutstanding"]
        /\ cnt'["lReceiveWorkRequestOutstanding"] = cnt["lReceiveWorkRequestOutstanding"]
    BY <1>3, Counted DEF CountFastRegister, Counters
  <2>4. UNCHANGED <<scq, rcqThread, rcq, recvPosted>>
    BY <1>3 DEF CountFastRegister
  <2> QED
    BY <1>inv, <2>1, <2>2, <2>3, <2>4, Countable, NumbersTyped DEF SumsInv, Counters
<1> QED
  BY <1>1, <1>2, <1>3

(* The callback of a pending LAM (5252-5269).                               *)
LEMMA SumsLam ==
  ASSUME TypeOK, OneUser, BalanceInv, IsFiniteSet(Slots), IsFiniteSet(Ios),
         NEW i \in Ios, LamCallback(i)
  PROVE  SumsInv'
<1>inv. SumsInv
  BY DEF BalanceInv
<1>use. \A s \in Slots : OneUserOf(s)
  BY DEF OneUser
<1>1. CASE BuildDataLamCompletion(i) /\ Post(lam[i].slot, "FAST_REGISTER")
                                     /\ LamGoto(i, "registered", NoSlot)
  <2>1. /\ UNCHANGED <<Sending, Uncounted>>
        /\ lam[i].slot \notin Registering /\ Registering' = Registering \cup {lam[i].slot}
        /\ i \notin UncountedLam /\ UncountedLam' = UncountedLam \cup {i}
    <3>1. BecomesOn(lam[i].slot, "FAST_REGISTER", "posted") /\ UNCHANGED sub
      BY <1>1, <1>use, PostEffect, Typed DEF BuildDataLamCompletion, OneUserOf, Ops
    <3>2. /\ i \notin UncountedLam /\ lam[i].slot \in Slots
          /\ lam[i].slot \notin Registering /\ lam[i].slot \notin Sending
      BY <1>1, <1>use, Typed DEF BuildDataLamCompletion, OneUserOf,
         UncountedLam, Registering, Sending
    <3> QED
      BY <1>1, <3>1, <3>2, QueueSets, LamSets, SetsKept
  <2>2. /\ Cardinality(Registering') = Cardinality(Registering) + 1
        /\ Cardinality(UncountedLam') = Cardinality(UncountedLam) + 1
    BY <2>1, Countable, OneMore
  <2>3. UNCHANGED <<cnt, scq, rcqThread, rcq, recvPosted>>
    BY <1>1 DEF BuildDataLamCompletion
  <2> QED
    BY <1>inv, <2>1, <2>2, <2>3, Countable DEF SumsInv
<1>2. CASE BuildDataLamCompletion(i) /\ UNCHANGED sendQ /\ LamGoto(i, "idle", NoSlot)
  <2>1. /\ KeepsQueues /\ i \notin UncountedLam
        /\ UNCHANGED <<sub, cnt, scq, rcqThread, rcq, recvPosted>>
    BY <1>2, QueuesKept DEF BuildDataLamCompletion, UncountedLam
  <2>2. UNCHANGED counted
    BY <1>2, <2>1, QueueSetsKept, LamSets, SetsKept DEF counted
  <2> QED
    BY <1>inv, <2>1, <2>2, SumsKept
<1>3. CASE LamCountsFastRegister(i)
  <2>1. /\ UNCHANGED <<Registering, Sending, Uncounted>>
        /\ i \in UncountedLam /\ UncountedLam' = UncountedLam \ {i}
    <3>1. KeepsQueues /\ LamGoto(i, "idle", NoSlot) /\ UNCHANGED sub
      BY <1>3, QueuesKept DEF LamCountsFastRegister
    <3>2. i \in UncountedLam
      BY <1>3 DEF LamCountsFastRegister, UncountedLam
    <3> QED
      BY <3>1, <3>2, QueueSetsKept, LamSets, SetsKept
  <2>2. Cardinality(UncountedLam') = Cardinality(UncountedLam) - 1
    BY <2>1, Countable, OneLess
  <2>3. /\ cnt'["lFRMRReqOutstanding"] = cnt["lFRMRReqOutstanding"] + 1
        /\ cnt'["lSubmissionWorkRequestOutstanding"] = cnt["lSubmissionWorkRequestOutstanding"]
        /\ cnt'["lReceiveWorkRequestOutstanding"] = cnt["lReceiveWorkRequestOutstanding"]
    BY <1>3, Counted DEF LamCountsFastRegister, Counters
  <2>4. UNCHANGED <<scq, rcqThread, rcq, recvPosted>>
    BY <1>3 DEF LamCountsFastRegister
  <2> QED
    BY <1>inv, <2>1, <2>2, <2>3, <2>4, Countable, NumbersTyped DEF SumsInv, Counters
<1> QED
  BY <1>1, <1>2, <1>3 DEF LamCallback, BuildDataLamCompletion, PostFails

(* The SCQ callback (4024-4189).                                            *)
LEMMA SumsScq ==
  ASSUME TypeOK, OneUser, BalanceInv, IsFiniteSet(Slots), IsFiniteSet(Ios), ScqCallback
  PROVE  SumsInv'
<1>inv. SumsInv
  BY DEF BalanceInv
<1>use. \A s \in Slots : OneUserOf(s)
  BY DEF OneUser
<1>kept. UNCHANGED <<sub, lam, rcqThread, rcq, recvPosted>>
  BY DEF ScqCallback, IoFRCompletion, IoSendCompletion, IoCompletion,
     SubmitSend, SubmitSendFails, CountSend, ScqJoin, FreeRequest
<1>threads. UNCHANGED <<Uncounted, UncountedLam>>
  BY <1>kept, SetsKept
<1>1. ASSUME NEW s \in Slots, IoFRCompletion(s) PROVE SumsInv'
  <2>1. /\ UNCHANGED Sending
        /\ s \in Registering /\ Registering' = Registering \ {s}
    <3>1. BecomesOn(s, "none", "none") /\ PostedOp[s] = "FAST_REGISTER"
      BY <1>1, ReapEffect DEF IoFRCompletion
    <3>2. s \in Registering /\ s \notin Sending
      BY <3>1 DEF Registering, Sending
    <3> QED
      BY <3>1, <3>2, QueueSets
  <2>2. Cardinality(Registering') = Cardinality(Registering) - 1
    BY <2>1, Countable, OneLess
  <2>3. /\ cnt'["lFRMRReqOutstanding"] = cnt["lFRMRReqOutstanding"] - 1
        /\ cnt'["lSubmissionWorkRequestOutstanding"] = cnt["lSubmissionWorkRequestOutstanding"]
        /\ cnt'["lReceiveWorkRequestOutstanding"] = cnt["lReceiveWorkRequestOutstanding"]
    BY <1>1, Counted, NumbersTyped DEF IoFRCompletion, Counters
  <2>4. scq.pc # "sent" /\ scq'.pc # "sent"
    BY <1>1 DEF IoFRCompletion, ScqReap, ScqGoto
  <2> QED
    BY <1>inv, <1>kept, <1>threads, <2>1, <2>2, <2>3, <2>4, Countable DEF SumsInv
<1>2. ASSUME NEW s \in Slots, IoSendCompletion(s) PROVE SumsInv'
  <2>1. /\ UNCHANGED Registering
        /\ s \in Sending /\ Sending' = Sending \ {s}
    <3>1. BecomesOn(s, "none", "none") /\ PostedOp[s] = "SEND"
      BY <1>2, ReapEffect DEF IoSendCompletion
    <3>2. s \in Sending /\ s \notin Registering
      BY <3>1 DEF Registering, Sending
    <3> QED
      BY <3>1, <3>2, QueueSets
  <2>2. Cardinality(Sending') = Cardinality(Sending) - 1
    BY <2>1, Countable, OneLess
  <2>3. /\ cnt'["lFRMRReqOutstanding"] = cnt["lFRMRReqOutstanding"]
        /\ cnt'["lSubmissionWorkRequestOutstanding"]
             = cnt["lSubmissionWorkRequestOutstanding"] - 1
        /\ cnt'["lReceiveWorkRequestOutstanding"] = cnt["lReceiveWorkRequestOutstanding"]
    BY <1>2, Counted, NumbersTyped DEF IoSendCompletion, Counters
  <2>4. scq.pc # "sent" /\ scq'.pc # "sent"
    BY <1>2 DEF IoSendCompletion, ScqReap, ScqGoto
  <2> QED
    BY <1>inv, <1>kept, <1>threads, <2>1, <2>2, <2>3, <2>4, Countable DEF SumsInv
<1>3. ASSUME NEW s \in Slots, IoCompletion(s) PROVE SumsInv'
  <2>1. BecomesOn(s, "none", "none") /\ PostedOp[s] = "INVALIDATE"
    BY <1>3, ReapEffect DEF IoCompletion
  <2>2. s \notin Sending /\ s \notin Registering
    BY <2>1 DEF Registering, Sending
  <2>3. UNCHANGED counted
    BY <1>threads, <2>1, <2>2, QueueSets DEF counted
  <2>4. /\ UNCHANGED cnt
        /\ scq.pc # "sent" /\ scq'.pc # "sent"
    BY <1>3 DEF IoCompletion, ScqReap, ScqGoto
  <2> QED
    BY <1>inv, <1>kept, <2>3, <2>4, SumsKept
<1>4. CASE SubmitSend
  <2>1. /\ UNCHANGED Registering
        /\ scq.slot \notin Sending /\ Sending' = Sending \cup {scq.slot}
    <3>1. BecomesOn(scq.slot, "SEND", "posted")
      BY <1>4, <1>use, PostEffect, Typed DEF SubmitSend, OneUserOf, Ops
    <3>2. scq.slot \in Slots /\ scq.slot \notin Sending /\ scq.slot \notin Registering
      BY <1>4, <1>use, Typed DEF SubmitSend, OneUserOf, Registering, Sending
    <3> QED
      BY <3>1, <3>2, QueueSets
  <2>2. Cardinality(Sending') = Cardinality(Sending) + 1
    BY <2>1, Countable, OneMore
  <2>3. UNCHANGED cnt /\ scq.pc # "sent" /\ scq'.pc = "sent"
    BY <1>4 DEF SubmitSend, ScqGoto
  <2> QED
    BY <1>inv, <1>kept, <1>threads, <2>1, <2>2, <2>3, Countable DEF SumsInv
<1>5. CASE SubmitSendFails
  <2>1. /\ scq.slot \in Slots /\ PostedOp[scq.slot] = "none"
        /\ BecomesOn(scq.slot, "INVALIDATE", "posted") \/ KeepsQueues
    BY <1>5, <1>use, PostEffect, QueuesKept, Typed DEF SubmitSendFails, InvalidateDataMr,
       PostFails, OneUserOf, Ops
  <2>2. scq.slot \notin Sending /\ scq.slot \notin Registering
    BY <2>1 DEF Registering, Sending
  <2>3. UNCHANGED counted
    BY <1>threads, <2>1, <2>2, QueueSets, QueueSetsKept DEF counted
  <2>4. UNCHANGED cnt /\ scq.pc # "sent" /\ scq'.pc # "sent"
    BY <1>5 DEF SubmitSendFails, ScqGoto
  <2> QED
    BY <1>inv, <1>kept, <2>3, <2>4, SumsKept
<1>6. CASE CountSend
  <2>1. UNCHANGED <<Registering, Sending>>
    BY <1>6, QueuesKept, QueueSetsKept DEF CountSend
  <2>2. /\ cnt'["lFRMRReqOutstanding"] = cnt["lFRMRReqOutstanding"]
        /\ cnt'["lSubmissionWorkRequestOutstanding"]
             = cnt["lSubmissionWorkRequestOutstanding"] + 1
        /\ cnt'["lReceiveWorkRequestOutstanding"] = cnt["lReceiveWorkRequestOutstanding"]
    BY <1>6, Counted DEF CountSend, Counters
  <2>3. scq.pc = "sent" /\ scq'.pc # "sent"
    BY <1>6 DEF CountSend, ScqGoto
  <2> QED
    BY <1>inv, <1>kept, <1>threads, <2>1, <2>2, <2>3, Countable DEF SumsInv
<1>7. CASE ScqJoin
  <2>1. UNCHANGED counted
    BY <1>7, <1>threads, JoinSets, Typed DEF ScqJoin, counted
  <2> QED
    BY <1>7, <1>inv, <1>kept, <2>1, SumsKept DEF ScqJoin, ScqGoto
<1>8. CASE FreeRequest
  <2>1. UNCHANGED counted
    BY <1>8, <1>threads, QueuesKept, QueueSetsKept DEF FreeRequest, counted
  <2> QED
    BY <1>8, <1>inv, <1>kept, <2>1, SumsKept DEF FreeRequest, ScqGoto
<1> QED
  BY <1>1, <1>2, <1>3, <1>4, <1>5, <1>6, <1>7, <1>8 DEF ScqCallback

(* The RCQ callback (3745-3986).  A receive put back is counted late; one   *)
(* whose repost is refused stays uncounted, and is not there either.        *)
LEMMA SumsRcq ==
  ASSUME TypeOK, OneUser, BalanceInv, RcqCallback
  PROVE  SumsInv' /\ IsFiniteSet(rcq') /\ recvFlushed' = 0 /\ rcqThread'.pc # "failed"
<1> DEFINE Kept == SumsInv' /\ IsFiniteSet(rcq') /\ recvFlushed' = 0
                   /\ rcqThread'.pc # "failed"
<1>inv. /\ SumsInv /\ connected /\ IsFiniteSet(rcq) /\ recvFlushed = 0
        /\ rcqThread.pc # "failed" /\ Cardinality(rcq) \in Nat
  BY FS_CardinalityType DEF BalanceInv
<1>reap. ASSUME NEW c \in rcq, RcqReap(c), UNCHANGED <<scq, recvPosted>>,
                rcqThread'.pc # "reposted", UNCHANGED counted
         PROVE  SumsInv' /\ IsFiniteSet(rcq')
  <2>1. /\ rcq' = rcq \ {c} /\ Count({"lReceiveWorkRequestOutstanding"}, -1)
        /\ rcqThread.pc = "idle"
    BY <1>reap DEF RcqReap
  <2>2. IsFiniteSet(rcq') /\ Cardinality(rcq) \in Nat /\ Cardinality(rcq') = Cardinality(rcq) - 1
    BY <1>inv, <2>1, OneLess
  <2>3. /\ cnt'["lFRMRReqOutstanding"] = cnt["lFRMRReqOutstanding"]
        /\ cnt'["lSubmissionWorkRequestOutstanding"] = cnt["lSubmissionWorkRequestOutstanding"]
        /\ cnt'["lReceiveWorkRequestOutstanding"] = cnt["lReceiveWorkRequestOutstanding"] - 1
    BY <2>1, Counted, NumbersTyped DEF Counters
  <2> QED
    BY <1>inv, <1>reap, <2>1, <2>2, <2>3, NumbersTyped DEF SumsInv, counted
<1>1. ASSUME NEW c \in rcq, ReceiveResponse(c) PROVE Kept
  <2>1. /\ RcqReap(c) /\ KeepsQueues /\ rcqThread'.pc = "store"
        /\ UNCHANGED <<scq, recvPosted, recvFlushed, sub, lam>>
    BY <1>1, QueuesKept DEF ReceiveResponse, RcqGoto
  <2>2. UNCHANGED counted
    BY <2>1, QueueSetsKept, SetsKept DEF counted
  <2> QED
    BY <1>inv, <1>reap, <2>1, <2>2
<1>2. ASSUME NEW c \in rcq, ReceiveInvalid(c) PROVE Kept
  <2>1. /\ RcqReap(c) /\ KeepsQueues /\ rcqThread'.pc = "repost"
        /\ UNCHANGED <<scq, recvPosted, recvFlushed, sub, lam>>
    BY <1>2, QueuesKept DEF ReceiveInvalid, RcqGoto
  <2>2. UNCHANGED counted
    BY <2>1, QueueSetsKept, SetsKept DEF counted
  <2> QED
    BY <1>inv, <1>reap, <2>1, <2>2
<1>3. CASE StoreResponse
  <2>1. /\ KeepsQueues /\ rcqThread.pc = "store" /\ rcqThread'.pc = "join"
        /\ UNCHANGED <<scq, recvPosted, recvFlushed, rcq, cnt, sub, lam>>
    BY <1>3, QueuesKept DEF StoreResponse, RcqGoto
  <2>2. UNCHANGED counted
    BY <2>1, QueueSetsKept, SetsKept DEF counted
  <2> QED
    BY <1>inv, <2>1, <2>2, SumsKept
<1>4. CASE RcqJoin
  <2>1. /\ UNCHANGED <<scq, recvPosted, recvFlushed, rcq, cnt, sub, lam>>
        /\ rcqThread.pc = "join" /\ rcqThread'.pc = "repost"
        /\ rcqThread.slot \in Slots /\ Join(rcqThread.slot)
    BY <1>4, Typed DEF RcqJoin, RcqGoto
  <2>2. UNCHANGED counted
    BY <2>1, JoinSets, SetsKept DEF counted
  <2> QED
    BY <1>inv, <2>1, <2>2, SumsKept
<1>5. CASE RepostReceive
  <2>1. /\ KeepsQueues /\ UNCHANGED <<cnt, scq, rcq, sub, lam>>
        /\ rcqThread.pc = "repost" /\ recvFlushed' = 0
        /\ \/ recvPosted' = recvPosted + 1 /\ rcqThread'.pc = "reposted"
           \/ UNCHANGED recvPosted /\ rcqThread'.pc = "idle"
    BY <1>5, <1>inv, QueuesKept DEF RepostReceive, RcqGoto
  <2>2. UNCHANGED counted
    BY <2>1, QueueSetsKept, SetsKept DEF counted
  <2> QED
    BY <1>inv, <2>1, <2>2, NumbersTyped DEF SumsInv, counted
<1>6. CASE CountReceive
  <2>1. /\ KeepsQueues /\ UNCHANGED <<scq, rcq, recvPosted, recvFlushed, sub, lam>>
        /\ rcqThread.pc = "reposted" /\ rcqThread'.pc = "idle"
        /\ Count({"lReceiveWorkRequestOutstanding"}, 1)
    BY <1>6, QueuesKept DEF CountReceive, RcqGoto
  <2>2. UNCHANGED counted
    BY <2>1, QueueSetsKept, SetsKept DEF counted
  <2>3. /\ cnt'["lFRMRReqOutstanding"] = cnt["lFRMRReqOutstanding"]
        /\ cnt'["lSubmissionWorkRequestOutstanding"] = cnt["lSubmissionWorkRequestOutstanding"]
        /\ cnt'["lReceiveWorkRequestOutstanding"] = cnt["lReceiveWorkRequestOutstanding"] + 1
    BY <2>1, Counted DEF Counters
  <2> QED
    BY <1>inv, <2>1, <2>2, <2>3, NumbersTyped DEF SumsInv, counted, Counters
<1>7. ~ReceiveFlushed /\ ~ReceiveFailed
  <2>1. ReceiveFlushed => recvFlushed > 0
    BY DEF ReceiveFlushed
  <2>2. ReceiveFailed => rcqThread.pc = "failed"
    BY DEF ReceiveFailed
  <2>3. ~(recvFlushed > 0)
    BY <1>inv
  <2> QED
    BY <1>inv, <2>1, <2>2, <2>3
<1> QED
  BY <1>1, <1>2, <1>3, <1>4, <1>5, <1>6, <1>7 DEF RcqCallback

(* The adapter.                                                             *)
LEMMA SumsAdapter ==
  ASSUME TypeOK, OneUser, BalanceInv, NEW s \in Slots, Adapter(s)
  PROVE  SumsInv'
<1>inv. SumsInv /\ connected
  BY DEF BalanceInv
<1>1. AdapterExecutes(s)
  BY <1>inv DEF Adapter, AdapterCancels
<1>2. /\ BecomesOn(s, PostedOp[s], "ok")
      /\ UNCHANGED <<scq, rcqThread, recvPosted, rcq, cnt, sub, lam>>
  BY <1>1, RetireEffect DEF AdapterExecutes
<1>3. UNCHANGED <<Registering, Sending>>
  BY <1>2 DEF BecomesOn, Registering, Sending
<1> QED
  BY <1>inv, <1>2, <1>3, SetsKept, SumsKept DEF counted

(* The target, which answers into a receive that is posted (external).      *)
LEMMA SumsTarget ==
  ASSUME TypeOK, WireInv, BalanceInv, NEW c \in target, TargetAnswers(c)
  PROVE  SumsInv' /\ IsFiniteSet(rcq')
<1>inv. SumsInv /\ IsFiniteSet(rcq)
  BY DEF BalanceInv
<1> DEFINE answer == [id |-> c.id, io |-> c.io]
<1>1. /\ KeepsQueues /\ UNCHANGED <<scq, rcqThread, cnt, sub, lam>>
      /\ recvPosted' = recvPosted - 1 /\ rcq' = rcq \cup {answer}
  BY QueuesKept DEF TargetAnswers
<1>2. answer \notin rcq
  BY DEF WireInv
<1>3. /\ IsFiniteSet(rcq') /\ Cardinality(rcq) \in Nat
      /\ Cardinality(rcq') = Cardinality(rcq) + 1
  BY <1>inv, <1>1, <1>2, OneMore
<1>4. UNCHANGED counted
  BY <1>1, QueueSetsKept, SetsKept DEF counted
<1> QED
  BY <1>inv, <1>1, <1>3, <1>4, NumbersTyped DEF SumsInv, counted

-----------------------------------------------------------------------------
(* Only a thread that prepares its I/O asks for a LAM.                      *)
LEMMA LamFollowsThread ==
  ASSUME TypeOK, NEW i \in Ios, Submitter(i) \/ LamCallback(i),
         \A j \in Ios : LamFollows(j), NEW k \in Ios
  PROVE  LamFollows(k)'
<1>1. CASE Submitter(i)
  BY <1>1, Typed DEF Submitter, IOSubmitRW, NoFreeIORequest,
     GetCurrentFreeIORequest, PrepareRWRequest, PrepareRWPending,
     PrepareRWReturnsPending, PrepareRWFails, SubmitFastRegister,
     SubmitFastRegisterFails, CountFastRegister, SubGoto, LamGoto, LamFollows
<1>2. CASE LamCallback(i)
  BY <1>2, Typed DEF LamCallback, BuildDataLamCompletion, LamCountsFastRegister,
     LamGoto, LamFollows
<1> QED
  BY <1>1, <1>2

(* The invariant is kept by every step.                                     *)
LEMMA BalanceStep ==
  ASSUME CountedWell, IsFiniteSet(Slots), IsFiniteSet(Ios)
  PROVE  TypeOK /\ OneUser /\ WireInv /\ BalanceInv /\ [Next]_vars => BalanceInv'
<1> SUFFICES ASSUME TypeOK, OneUser, WireInv, BalanceInv, [Next]_vars
             PROVE  BalanceInv'
  OBVIOUS
<1>inv. /\ SumsInv /\ IsFiniteSet(rcq) /\ recvFlushed = 0 /\ rcqThread.pc # "failed"
        /\ connected /\ ulDisconnectFlag = "0" /\ flush = NoSlot
        /\ \A i \in Ios : LamFollows(i)
  BY DEF BalanceInv
<1>1. ASSUME NEW i \in Ios, Submitter(i) PROVE BalanceInv'
  <2>1. UNCHANGED <<rcq, recvFlushed, rcqThread, connected, ulDisconnectFlag, flush>>
    BY <1>1 DEF Submitter, IOSubmitRW, NoFreeIORequest,
       GetCurrentFreeIORequest, PrepareRWRequest, PrepareRWPending,
       PrepareRWReturnsPending, PrepareRWFails, SubmitFastRegister,
       SubmitFastRegisterFails, CountFastRegister
  <2> QED
    BY <1>1, <1>inv, <2>1, SumsSubmitter, LamFollowsThread DEF BalanceInv
<1>2. ASSUME NEW i \in Ios, LamCallback(i) PROVE BalanceInv'
  <2>1. UNCHANGED <<rcq, recvFlushed, rcqThread, connected, ulDisconnectFlag, flush>>
    BY <1>2 DEF LamCallback, BuildDataLamCompletion, LamCountsFastRegister
  <2> QED
    BY <1>2, <1>inv, <2>1, SumsLam, LamFollowsThread DEF BalanceInv
<1>3. CASE ScqCallback
  <2>1. UNCHANGED <<rcq, recvFlushed, rcqThread, connected, ulDisconnectFlag, flush,
                    sub, lam>>
    BY <1>3 DEF ScqCallback, IoFRCompletion, IoSendCompletion, IoCompletion,
       SubmitSend, SubmitSendFails, CountSend, ScqJoin, FreeRequest
  <2> QED
    BY <1>3, <1>inv, <2>1, SumsScq DEF BalanceInv, LamFollows
<1>4. CASE RcqCallback
  <2>1. UNCHANGED <<connected, ulDisconnectFlag, flush, sub, lam>>
    BY <1>4 DEF RcqCallback, ReceiveResponse, ReceiveInvalid, StoreResponse, RcqJoin,
       RepostReceive, CountReceive, ReceiveFlushed, ReceiveFailed
  <2> QED
    BY <1>4, <1>inv, <2>1, SumsRcq DEF BalanceInv, LamFollows
<1>5. ASSUME NEW s \in Slots, Adapter(s) PROVE BalanceInv'
  <2>1. UNCHANGED <<rcq, recvFlushed, rcqThread, connected, ulDisconnectFlag, flush,
                    sub, lam>>
    BY <1>5 DEF Adapter, AdapterExecutes, AdapterCancels
  <2> QED
    BY <1>5, <1>inv, <2>1, SumsAdapter DEF BalanceInv, LamFollows
<1>6. ASSUME NEW c \in target, TargetAnswers(c) PROVE BalanceInv'
  <2>1. UNCHANGED <<recvFlushed, rcqThread, connected, ulDisconnectFlag, flush, sub, lam>>
    BY <1>6 DEF TargetAnswers
  <2> QED
    BY <1>6, <1>inv, <2>1, SumsTarget DEF BalanceInv, LamFollows
<1>7. ~ConnectionLost /\ ~IOQPDisconnect /\ ~Flush
  BY <1>inv DEF ConnectionLost, CountedWell, IOQPDisconnect, Flush, FlushTakes,
     FlushTests
<1>8. CASE Finished \/ UNCHANGED vars
  <2>1. UNCHANGED vars /\ KeepsQueues
    BY <1>8, QueuesKept DEF Finished, vars
  <2>2. UNCHANGED counted
    BY <2>1, QueueSetsKept, SetsKept DEF vars, counted
  <2> QED
    BY <1>inv, <2>1, <2>2, SumsKept DEF vars, BalanceInv, LamFollows
<1> QED
  BY <1>1, <1>2, <1>3, <1>4, <1>5, <1>6, <1>7, <1>8 DEF Next

(* At the start nothing is outstanding but the receives.                    *)
LEMMA BalanceInit == Init => BalanceInv
<1> SUFFICES ASSUME Init PROVE BalanceInv
  OBVIOUS
<1>1. Registering = {} /\ Sending = {}
  BY DEF Init, Registering, Sending, PostedOp, OpOf
<1>2. Uncounted = {} /\ UncountedLam = {}
  BY DEF Init, Uncounted, UncountedLam
<1>3. Cardinality({}) = 0 /\ IsFiniteSet({})
  BY FS_EmptySet
<1>4. SumsInv
  BY <1>1, <1>2, <1>3, NumRecvAssumption DEF Init, SumsInv, Counters
<1>5. \A i \in Ios : LamFollows(i)
  BY DEF Init, LamFollows
<1> QED
  BY <1>3, <1>4, <1>5 DEF Init, BalanceInv

(* Each counter is the number of what it counts, but for increments that    *)
(* follow a submission (5243, 5031, 3857): one that is late is never lost,  *)
(* whatever LAM, submission or repost fails, as long as the connection      *)
(* stands.  Over a lost connection it does not hold: a receive that failed  *)
(* is counted down twice (3925, 3861), and the flush counts down without a  *)
(* send (4312).                                                             *)
THEOREM CountersBalanceCorrect ==
  ASSUME EachIdOnce, IsFiniteSet(Slots), CountedWell
  PROVE  Spec => []CountersBalance
<1>1. TypeOK /\ OneUser /\ BalanceInv => CountersBalance
  <2> SUFFICES ASSUME TypeOK, OneUser, BalanceInv PROVE CountersBalance
    OBVIOUS
  <2>1. \A s \in Slots : sendQ[s] # <<>> => PostedOp[s] = Head(sendQ[s]).op
    <3> SUFFICES ASSUME NEW s \in Slots, sendQ[s] # <<>> PROVE PostedOp[s] = Head(sendQ[s]).op
      OBVIOUS
    <3>1. sendQ[s] \in Seq(Posted)
      BY DEF TypeOK
    <3>2. PostedOp[s] # "none"
      BY <3>1, NonEmpty DEF PostedOp
    <3>3. PostedOp[s] = ulType[s]
      BY <3>2 DEF OneUser, OneUserOf
    <3>4. PostedOp[s] # "many"
      BY <3>3 DEF TypeOK, NdkTypes, Ops
    <3> QED
      BY <3>2, <3>4 DEF PostedOp, OpOf
  <2>2. \A s \in Slots : sendQ[s] = <<>> => PostedOp[s] = "none"
    BY DEF PostedOp, OpOf
  <2>3. Posts("FAST_REGISTER") = Registering /\ Posts("SEND") = Sending
    BY <2>1, <2>2 DEF Posts, Registering, Sending
  <2>4. /\ {i \in Ios : sub[i].pc = "registered"} = Uncounted
        /\ {i \in Ios : lam[i].pc = "registered"} = UncountedLam
    BY DEF Uncounted, UncountedLam
  <2>5. SumsInv /\ recvFlushed = 0
    BY DEF BalanceInv
  <2>6. recvPosted + recvFlushed = recvPosted
    BY <2>5 DEF TypeOK
  <2> QED
    BY <2>3, <2>4, <2>5, <2>6 DEF SumsInv, CountersBalance
<1>2. IsFiniteSet(Ios)
  BY DEF EachIdOnce
<1>3. Spec => []WireInv
  BY IdCorrect, PTL DEF IdInv
<1> QED
  BY <1>1, <1>2, <1>3, BalanceInit, BalanceStep, SlotCorrect, PTL DEF Spec

=============================================================================

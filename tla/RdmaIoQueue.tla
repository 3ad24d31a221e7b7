----------------------------- MODULE RdmaIoQueue -----------------------------
(***************************************************************************)
(* One RDMA I/O queue of the NVMe-oF initiator (nvmefrdma.c, 3745-4210,    *)
(* 4272-4318, 4461-4531 and 4869-5505) with what surrounds it: the OS that *)
(* hands it reads and writes, the adapter that executes the send queue,    *)
(* and the target that answers.                                            *)
(*                                                                         *)
(* A read or write needs three operations on the send queue of the one     *)
(* shared NDK work request of its slot: FAST_REGISTER its buffer, SEND the *)
(* command, and INVALIDATE the registration.  The last one is posted when  *)
(* both the send completion (SCQ callback) and the response (RCQ callback) *)
(* have been seen, whichever callback comes last: the two callbacks meet   *)
(* in a compare-and-exchange of lReqState.                                 *)
(*                                                                         *)
(* An action is what a thread does up to and including its next interlocked*)
(* operation or submission that another thread can tell apart.             *)
(***************************************************************************)
EXTENDS Integers, Sequences, FiniteSets

CONSTANTS Slots,    \* psSubmissionWorkRequestList
          Ios,      \* the OS requests (NVMEOF_IO_REQ), each submitted once
          NumIds,   \* size of the command identifier space (64K in the code)
          NumRecv,  \* ulReceiveWorkRequestCount
          Faults,   \* what the environment may do wrong
          NoSlot, NoIo

AllFaults == {"lamFail", "lamPending", "submitFail", "shortResponse",
              "disconnect", "recvFail"}

ASSUME NumIdsAssumption == NumIds \in Nat \ {0}
ASSUME NumRecvAssumption == NumRecv \in Nat
ASSUME NoneAssumption == NoSlot \notin Slots /\ NoIo \notin Ios
ASSUME FaultsAssumption == Faults \subseteq AllFaults

CmdIds == 0 .. NumIds - 1

(* NVMEOF_WORK_REQUEST_STATE: the bits of lReqState; FREE is no bit.        *)
StateBits == {"ALLOCATED", "INITIALIZED", "PREPARE_SUBMITTING", "SUBMITTING",
              "SUBMITTED", "WAITING_FOR_RESPONSE", "RESPONSE_RECEIVED",
              "FREEING"}
AllStateDoneNoResponse == StateBits \ {"FREEING", "RESPONSE_RECEIVED"}
AllStateDoneNoWaiting == StateBits \ {"FREEING", "WAITING_FOR_RESPONSE"}
AllStateDone == StateBits \ {"FREEING"}

Ops == {"FAST_REGISTER", "SEND", "INVALIDATE"}
NdkTypes == Ops \cup {"UNINITIALIZE", "BUILD_LAM", "RELEASE_LAM"}
(* Statuses that are not a CQE's: of a send the adapter refused, of a flush. *)
HostStatus == {"sendError", "flushed"}

VARIABLES
  \* NVMEOF_RDMA_WORK_REQUEST, each field a function of the slot:
  lReqState, usCommandID, pvParentReqCtx, pvBuffer, Status, ulType,
  ppvIoReqTable,  \* [CmdIds -> Slots or NoSlot]
  lNextCmdID,
  ulDisconnectFlag,
  cnt,            \* the three counters the drain waits for
  sub,            \* [Ios -> where the thread submitting the I/O is]
  lam,            \* [Ios -> where the callback of the I/O's LAM is]
  scq, rcqThread, \* where the two completion callbacks are
  flush,          \* the slot NVMeoFRdmaFlushIOQueue is working on
  sendQ,          \* [Slots -> operations posted and not yet reaped]
  mr,             \* [Slots -> the I/O whose buffer is remotely accessible]
  target,         \* commands the target has and has not answered
  rcq,            \* responses received and not yet reaped
  recvPosted, recvFlushed,
  connected,
  os              \* [Ios -> completions the OS has seen]

ioVars     == <<pvParentReqCtx, pvBuffer, Status>>
idVars     == <<usCommandID, lNextCmdID, ulDisconnectFlag>>
queueVars  == <<lReqState, ulType, ioVars, idVars, ppvIoReqTable>>
callbacks  == <<scq, rcqThread, flush>>
threadVars == <<sub, lam, callbacks>>
wireVars   == <<mr, target, rcq, recvPosted, recvFlushed, connected>>
vars == <<queueVars, cnt, threadVars, sendQ, wireVars, os>>

(* Where a thread is, and the slot it works on while it works on one.       *)
SubSlotPcs == {"prepare", "lamReturn", "register"}
SubPcs == SubSlotPcs \cup {"new", "alloc", "registered", "pending", "refused"}
SubPlace == [pc : SubSlotPcs, slot : Slots]
            \cup [pc : SubPcs \ SubSlotPcs, slot : {NoSlot}]
LamPlace == [pc : {"building"}, slot : Slots]
            \cup [pc : {"idle", "registered"}, slot : {NoSlot}]
ScqPlace == [pc : {"send", "sent", "join", "free"}, slot : Slots]
            \cup [pc : {"idle"}, slot : {NoSlot}]
RcqPlace == [pc : {"store", "join"}, slot : Slots, cqe : Ios \cup {NoIo}]
            \cup [pc : {"idle", "repost", "reposted", "failed"},
                  slot : {NoSlot}, cqe : {NoIo}]
Command  == [id : CmdIds, slot : Slots, io : Ios \cup {NoIo}]
Response == [id : CmdIds, io : Ios \cup {NoIo}]
Posted   == [op : Ops, st : {"posted", "ok", "cancelled"}]
Counters == {"lFRMRReqOutstanding", "lSubmissionWorkRequestOutstanding",
             "lReceiveWorkRequestOutstanding"}

TypeOK ==
  /\ lReqState \in [Slots -> SUBSET StateBits]
  /\ usCommandID \in [Slots -> CmdIds]
  /\ pvParentReqCtx \in [Slots -> Ios \cup {NoIo}]
  /\ pvBuffer \in [Slots -> Ios \cup {NoIo}]
  /\ Status \in [Slots -> Ios \cup {NoIo} \cup HostStatus]
  /\ ulType \in [Slots -> NdkTypes]
  /\ ppvIoReqTable \in [CmdIds -> Slots \cup {NoSlot}]
  /\ lNextCmdID \in Nat
  /\ ulDisconnectFlag \in {"0", "CONTROLLER_IO_DISCONNECTED_EVENT"}
  /\ cnt \in [Counters -> Int]
  /\ sub \in [Ios -> SubPlace]
  /\ lam \in [Ios -> LamPlace]
  /\ scq \in ScqPlace
  /\ rcqThread \in RcqPlace
  /\ flush \in Slots \cup {NoSlot}
  /\ sendQ \in [Slots -> Seq(Posted)]
  /\ mr \in [Slots -> Ios \cup {NoIo}]
  /\ target \in SUBSET Command
  /\ rcq \in SUBSET Response
  /\ recvPosted \in Nat /\ recvFlushed \in Nat
  /\ connected \in BOOLEAN
  /\ os \in [Ios -> [done : Nat, status : Ios \cup {NoIo} \cup HostStatus]]

Init ==
  /\ lReqState = [s \in Slots |-> {}]
  /\ usCommandID = [s \in Slots |-> 0]
  /\ pvParentReqCtx = [s \in Slots |-> NoIo]
  /\ pvBuffer = [s \in Slots |-> NoIo]
  /\ Status = [s \in Slots |-> NoIo]
  /\ ulType = [s \in Slots |-> "UNINITIALIZE"]
  /\ ppvIoReqTable = [n \in CmdIds |-> NoSlot]
  /\ lNextCmdID = 0
  /\ ulDisconnectFlag = "0"
  /\ cnt = [c \in Counters |->
               IF c = "lReceiveWorkRequestOutstanding" THEN NumRecv ELSE 0]
  /\ sub = [i \in Ios |-> [pc |-> "new", slot |-> NoSlot]]
  /\ lam = [i \in Ios |-> [pc |-> "idle", slot |-> NoSlot]]
  /\ scq = [pc |-> "idle", slot |-> NoSlot]
  /\ rcqThread = [pc |-> "idle", slot |-> NoSlot, cqe |-> NoIo]
  /\ flush = NoSlot
  /\ sendQ = [s \in Slots |-> <<>>]
  /\ mr = [s \in Slots |-> NoIo]
  /\ target = {} /\ rcq = {}
  /\ recvPosted = NumRecv /\ recvFlushed = 0
  /\ connected = TRUE
  /\ os = [i \in Ios |-> [done |-> 0, status |-> NoIo]]

-----------------------------------------------------------------------------
(* Steps shared by the threads.                                            *)

(* The InterlockedExchange and the InterlockedOr of lReqState.              *)
SetState(s, bits) == lReqState' = [lReqState EXCEPT ![s] = bits]
OrState(s, bit) == SetState(s, lReqState[s] \cup {bit})
SetType(s, type) == ulType' = [ulType EXCEPT ![s] = type]

(* NdkSubmitRequest of the slot's work request, under sSubmitSpinLock.  On  *)
(* a QP that is gone an operation is taken and completes as cancelled.      *)
Post(s, op) ==
  sendQ' = [sendQ EXCEPT ![s] = Append(@, [op |-> op, st |-> "posted"])]

PostFails == "submitFail" \in Faults /\ UNCHANGED sendQ

(* Enter FREEING and invalidate (NVMeoFRdmaIOQInvalidateDataMr).  The       *)
(* callers log a refused submission and go on.                              *)
InvalidateSubmittedBeforeType(s) ==
  /\ SetState(s, {"FREEING"})
  /\ SetType(s, "INVALIDATE")
  /\ Post(s, ulType[s]) \/ PostFails

InvalidateDataMr(s) ==
  /\ SetState(s, {"FREEING"})
  /\ SetType(s, "INVALIDATE")
  /\ Post(s, "INVALIDATE") \/ PostFails

(* The compare-and-exchange ALL_STATE_DONE -> FREEING of lines 5058 and     *)
(* 5160: the callback that wins invalidates.                                *)
Join(s) ==
  IF lReqState[s] = AllStateDone
  THEN InvalidateDataMr(s)
  ELSE UNCHANGED <<lReqState, ulType, sendQ>>

(* The interlocked increments and decrements of the counters.               *)
Count(names, d) ==
  cnt' = [c \in Counters |-> IF c \in names THEN cnt[c] + d ELSE cnt[c]]

(* The OS gets its I/O back and frees the NVMEOF_IO_REQ.                    *)
CompleteToOs(i, status) ==
  os' = [os EXCEPT ![i] = [done |-> @.done + 1, status |-> status]]

-----------------------------------------------------------------------------
(* The thread that submits I/O i (NVMeoFRdmaIOSubmitRW).                    *)

SubGoto(i, pc, s) == sub' = [sub EXCEPT ![i] = [pc |-> pc, slot |-> s]]
LamGoto(i, pc, s) == lam' = [lam EXCEPT ![i] = [pc |-> pc, slot |-> s]]

(* A set disconnect flag refuses the I/O.                                   *)
IOSubmitRW(i) ==
  /\ sub[i].pc = "new"
  /\ SubGoto(i, IF ulDisconnectFlag = "0" THEN "alloc" ELSE "refused", NoSlot)
  /\ UNCHANGED <<queueVars, cnt, lam, callbacks, sendQ, wireVars, os>>

FreeSlots == {s \in Slots : lReqState[s] = {}}

(* NVMeoFRdmaGetIOQUniqueCommandID: the counter as it was, in 16 bits.      *)
CommandIdUnmasked(n) == n + 1
CommandIdEven(n) == n - (n % 2)
GetIOQUniqueCommandID(n) == n % NumIds

(* NVMeoFRdmaGetCurrentFreeIORequest: claim a FREE slot and number it.      *)
(* Which free slot the scan meets first is left open.                       *)
GetCurrentFreeIORequest(i, s) ==
  /\ sub[i].pc = "alloc"
  /\ s \in FreeSlots
  /\ SetState(s, {"ALLOCATED"})
  /\ usCommandID' = [usCommandID EXCEPT ![s] = GetIOQUniqueCommandID(lNextCmdID)]
  /\ lNextCmdID' = lNextCmdID + 1
  /\ SubGoto(i, "prepare", s)
  /\ UNCHANGED <<ulType, ioVars, ulDisconnectFlag, ppvIoReqTable, cnt, lam,
                 callbacks, sendQ, wireVars, os>>

NoFreeIORequest(i) ==
  /\ sub[i].pc = "alloc"
  /\ FreeSlots = {}
  /\ SubGoto(i, "refused", NoSlot)
  /\ UNCHANGED <<queueVars, cnt, lam, callbacks, sendQ, wireVars, os>>

(* NVMeoFRdmaPrepareRWRequest up to the outcome of the LAM it builds.       *)
Prepare(s, i) ==
  /\ pvParentReqCtx' = [pvParentReqCtx EXCEPT ![s] = i]
  /\ pvBuffer' = [pvBuffer EXCEPT ![s] = i]
  /\ SetType(s, "BUILD_LAM")

(* The LAM is built inline.                                                 *)
PrepareRWRequest(i) ==
  /\ sub[i].pc = "prepare"
  /\ Prepare(sub[i].slot, i)
  /\ OrState(sub[i].slot, "INITIALIZED")
  /\ SubGoto(i, "register", sub[i].slot)
  /\ UNCHANGED <<Status, idVars, ppvIoReqTable, cnt, lam, callbacks, sendQ,
                 wireVars, os>>

(* The LAM pends: its callback registers, while this thread still has to    *)
(* set INITIALIZED on its way out.                                          *)
PrepareRWPending(i) ==
  /\ "lamPending" \in Faults
  /\ sub[i].pc = "prepare"
  /\ Prepare(sub[i].slot, i)
  /\ LamGoto(i, "building", sub[i].slot)
  /\ SubGoto(i, "lamReturn", sub[i].slot)
  /\ UNCHANGED <<lReqState, Status, idVars, ppvIoReqTable, cnt, callbacks, sendQ,
                 wireVars, os>>

PrepareRWReturnsPending(i) ==
  /\ sub[i].pc = "lamReturn"
  /\ OrState(sub[i].slot, "INITIALIZED")
  /\ SubGoto(i, "pending", NoSlot)
  /\ UNCHANGED <<ulType, ioVars, idVars, ppvIoReqTable, cnt, lam, callbacks,
                 sendQ, wireVars, os>>

(* The LAM fails: the I/O is refused and the slot keeps it.                 *)
PrepareRWFails(i) ==
  /\ "lamFail" \in Faults
  /\ sub[i].pc = "prepare"
  /\ Prepare(sub[i].slot, i)
  /\ SubGoto(i, "refused", NoSlot)
  /\ UNCHANGED <<lReqState, Status, idVars, ppvIoReqTable, cnt, lam, callbacks,
                 sendQ, wireVars, os>>

(* NVMeoFRdmaIOQFastRegisterDataMR up to the outcome of the submission.     *)
FastRegisterDataMR(s) ==
  SetType(s, "FAST_REGISTER") /\ OrState(s, "PREPARE_SUBMITTING")

SubmitFastRegister(i) ==
  /\ sub[i].pc = "register"
  /\ FastRegisterDataMR(sub[i].slot)
  /\ Post(sub[i].slot, "FAST_REGISTER")
  /\ SubGoto(i, "registered", NoSlot)
  /\ UNCHANGED <<ioVars, idVars, ppvIoReqTable, cnt, lam, callbacks, wireVars, os>>

(* The counter follows the submission, so the completion may come first.    *)
CountFastRegister(i) ==
  /\ sub[i].pc = "registered"
  /\ Count({"lFRMRReqOutstanding"}, 1)
  /\ SubGoto(i, "pending", NoSlot)
  /\ UNCHANGED <<queueVars, lam, callbacks, sendQ, wireVars, os>>

(* A refused registration: the slot keeps the I/O.                          *)
SubmitFastRegisterFails(i) ==
  /\ sub[i].pc = "register"
  /\ FastRegisterDataMR(sub[i].slot)
  /\ PostFails
  /\ SubGoto(i, "refused", NoSlot)
  /\ UNCHANGED <<ioVars, idVars, ppvIoReqTable, cnt, lam, callbacks, wireVars, os>>

(* NVMeoFRdmaIOQBuildDataLamCompletion for I/O i.  The LAM itself may fail,  *)
(* and the status of the registration is dropped.                           *)
BuildDataLamCompletion(i) ==
  /\ lam[i].pc = "building"
  /\ \/ /\ FastRegisterDataMR(lam[i].slot)
        /\ Post(lam[i].slot, "FAST_REGISTER")
        /\ LamGoto(i, "registered", NoSlot)
     \/ /\ FastRegisterDataMR(lam[i].slot)
        /\ PostFails
        /\ LamGoto(i, "idle", NoSlot)
     \/ /\ "lamFail" \in Faults
        /\ LamGoto(i, "idle", NoSlot)
        /\ UNCHANGED <<lReqState, ulType, sendQ>>
  /\ UNCHANGED <<ioVars, idVars, ppvIoReqTable, cnt, sub, callbacks, wireVars, os>>

LamCountsFastRegister(i) ==
  /\ lam[i].pc = "registered"
  /\ Count({"lFRMRReqOutstanding"}, 1)
  /\ LamGoto(i, "idle", NoSlot)
  /\ UNCHANGED <<queueVars, sub, callbacks, sendQ, wireVars, os>>

Submitter(i) ==
  \/ IOSubmitRW(i) \/ NoFreeIORequest(i)
  \/ \E s \in Slots : GetCurrentFreeIORequest(i, s)
  \/ PrepareRWRequest(i) \/ PrepareRWPending(i) \/ PrepareRWReturnsPending(i)
  \/ PrepareRWFails(i)
  \/ SubmitFastRegister(i) \/ SubmitFastRegisterFails(i) \/ CountFastRegister(i)

LamCallback(i) == BuildDataLamCompletion(i) \/ LamCountsFastRegister(i)

-----------------------------------------------------------------------------
(* The SCQ callback: one result of slot s at a time, dispatched on the type *)
(* now in the shared work request (NVMeoFRdmaIOQHandleScqReq).              *)

ScqGoto(pc, s) == scq' = [pc |-> pc, slot |-> s]

ScqReap(s, type) ==
  /\ scq.pc = "idle"
  /\ sendQ[s] # <<>>
  /\ Head(sendQ[s]).st # "posted"
  /\ ulType[s] = type
  /\ sendQ' = [sendQ EXCEPT ![s] = Tail(@)]

(* NVMeoFRdmaIoFRCompletion, to the point where the send is submitted.  An  *)
(* entry of the table that is in use stays what it is (line 4988).          *)
IoFRCompletion(s) ==
  /\ ScqReap(s, "FAST_REGISTER")
  /\ Count({"lFRMRReqOutstanding"}, -1)
  /\ IF Head(sendQ[s]).st = "cancelled"
     THEN UNCHANGED <<lReqState, ulType, ppvIoReqTable, scq>>
     ELSE /\ SetType(s, "SEND")
          /\ OrState(s, "SUBMITTING")
          /\ ppvIoReqTable' = [ppvIoReqTable EXCEPT ![usCommandID[s]] =
                                 IF @ = NoSlot THEN s ELSE @]
          /\ ScqGoto("send", s)
  /\ UNCHANGED <<ioVars, idVars, sub, lam, rcqThread, flush, wireVars, os>>

SubmitSend ==
  /\ scq.pc = "send"
  /\ Post(scq.slot, "SEND")
  /\ ScqGoto("sent", scq.slot)
  /\ UNCHANGED <<queueVars, cnt, sub, lam, rcqThread, flush, wireVars, os>>

(* SUBMITTED is set after the submission: the response may come first.      *)
CountSendOnly ==
  /\ scq.pc = "sent"
  /\ Count({"lSubmissionWorkRequestOutstanding"}, 1)
  /\ ScqGoto("idle", NoSlot)
  /\ UNCHANGED <<queueVars, sub, lam, rcqThread, flush, sendQ, wireVars, os>>

CountSend ==
  /\ scq.pc = "sent"
  /\ Count({"lSubmissionWorkRequestOutstanding"}, 1)
  /\ OrState(scq.slot, "SUBMITTED")
  /\ ScqGoto("idle", NoSlot)
  /\ UNCHANGED <<ulType, ioVars, idVars, ppvIoReqTable, sub, lam, rcqThread,
                 flush, sendQ, wireVars, os>>

SubmitSendFails ==
  /\ scq.pc = "send"
  /\ "submitFail" \in Faults
  /\ InvalidateDataMr(scq.slot)
  /\ ppvIoReqTable' = [ppvIoReqTable EXCEPT ![usCommandID[scq.slot]] = NoSlot]
  /\ Status' = [Status EXCEPT ![scq.slot] = "sendError"]
  /\ ScqGoto("idle", NoSlot)
  /\ UNCHANGED <<pvParentReqCtx, pvBuffer, idVars, cnt, sub, lam, rcqThread,
                 flush, wireVars, os>>

(* NVMeoFRdmaIoSendCompletion, to the join.                                 *)
IoSendCompletion(s) ==
  /\ ScqReap(s, "SEND")
  /\ Count({"lSubmissionWorkRequestOutstanding"}, -1)
  /\ OrState(s, "WAITING_FOR_RESPONSE")
  /\ IF Head(sendQ[s]).st = "ok" THEN ScqGoto("join", s) ELSE UNCHANGED scq
  /\ UNCHANGED <<ulType, ioVars, idVars, ppvIoReqTable, sub, lam, rcqThread,
                 flush, wireVars, os>>

ScqJoin ==
  /\ scq.pc = "join"
  /\ Join(scq.slot)
  /\ ScqGoto("idle", NoSlot)
  /\ UNCHANGED <<ioVars, idVars, ppvIoReqTable, cnt, sub, lam, rcqThread, flush,
                 wireVars, os>>

(* An invalidation is over, well or badly: take the I/O out of the slot and *)
(* complete it (NVMeoFRdmaIoCompletion), unless a flush took it before.     *)
IoCompletion(s) ==
  /\ ScqReap(s, "INVALIDATE")
  /\ IF "FREEING" \in lReqState[s] /\ pvParentReqCtx[s] # NoIo
     THEN /\ pvParentReqCtx' = [pvParentReqCtx EXCEPT ![s] = NoIo]
          /\ pvBuffer' = [pvBuffer EXCEPT ![s] = NoIo]
          /\ SetType(s, "RELEASE_LAM")
          /\ CompleteToOs(pvParentReqCtx[s], Status[s])
          /\ ScqGoto("free", s)
     ELSE UNCHANGED <<pvParentReqCtx, pvBuffer, ulType, os, scq>>
  /\ UNCHANGED <<lReqState, Status, idVars, ppvIoReqTable, cnt, sub, lam,
                 rcqThread, flush, wireVars>>

FreeRequest ==
  /\ scq.pc = "free"
  /\ SetState(scq.slot, {})
  /\ ScqGoto("idle", NoSlot)
  /\ UNCHANGED <<ulType, ioVars, idVars, ppvIoReqTable, cnt, sub, lam, rcqThread,
                 flush, sendQ, wireVars, os>>

ScqCallback ==
  \/ \E s \in Slots : IoFRCompletion(s) \/ IoSendCompletion(s) \/ IoCompletion(s)
  \/ SubmitSend \/ SubmitSendFails \/ CountSend \/ ScqJoin \/ FreeRequest

-----------------------------------------------------------------------------
(* The RCQ callback (NVMeoFRdmaIOQHandleRcqReq, one result at a time).      *)

RcqGoto(pc, s, i) == rcqThread' = [pc |-> pc, slot |-> s, cqe |-> i]

RcqReap(c) ==
  /\ rcqThread.pc = "idle"
  /\ c \in rcq
  /\ rcq' = rcq \ {c}
  /\ Count({"lReceiveWorkRequestOutstanding"}, -1)

(* NVMeoFRdmaIOQGetRequestByCmdId: the request of a command identifier.     *)
RequestOf(id) ==
  IF ppvIoReqTable[id] \in Slots /\ usCommandID[ppvIoReqTable[id]] = id
  THEN ppvIoReqTable[id] ELSE NoSlot

LookUpOnly(id) == UNCHANGED ppvIoReqTable
TakeOut(id) == ppvIoReqTable' = [ppvIoReqTable EXCEPT ![id] = NoSlot]

(* A response: take its request out of the table and set RESPONSE_RECEIVED, *)
(* before the status is stored.                                             *)
ReceiveResponse(c) ==
  /\ RcqReap(c)
  /\ RequestOf(c.id) # NoSlot
  /\ TakeOut(c.id)
  /\ OrState(RequestOf(c.id), "RESPONSE_RECEIVED")
  /\ RcqGoto("store", RequestOf(c.id), c.io)
  /\ UNCHANGED <<ulType, ioVars, idVars, sub, lam, scq, flush, sendQ, mr, target,
                 recvPosted, recvFlushed, connected, os>>

(* A response nobody waits for, or one too short to hold a CQE.             *)
ReceiveInvalid(c) ==
  /\ RcqReap(c)
  /\ RequestOf(c.id) = NoSlot \/ "shortResponse" \in Faults
  /\ RcqGoto("repost", NoSlot, NoIo)
  /\ UNCHANGED <<queueVars, sub, lam, scq, flush, sendQ, mr, target, recvPosted,
                 recvFlushed, connected, os>>

(* NVMeoFRdmaNVMeIoResponseCompletion: the status and the CQE ...           *)
StoreResponse ==
  /\ rcqThread.pc = "store"
  /\ Status' = [Status EXCEPT ![rcqThread.slot] = rcqThread.cqe]
  /\ RcqGoto("join", rcqThread.slot, rcqThread.cqe)
  /\ UNCHANGED <<lReqState, ulType, pvParentReqCtx, pvBuffer, idVars,
                 ppvIoReqTable, cnt, sub, lam, scq, flush, sendQ, wireVars, os>>

(* ... and the join.                                                        *)
RcqJoin ==
  /\ rcqThread.pc = "join"
  /\ Join(rcqThread.slot)
  /\ RcqGoto("repost", NoSlot, NoIo)
  /\ UNCHANGED <<ioVars, idVars, ppvIoReqTable, cnt, sub, lam, scq, flush,
                 wireVars, os>>

(* A repost whose status nobody looks at.                                   *)
RepostReceiveUnchecked ==
  /\ rcqThread.pc = "repost"
  /\ RcqGoto("reposted", NoSlot, NoIo)
  /\ \/ /\ recvPosted'  = IF connected THEN recvPosted + 1 ELSE recvPosted
        /\ recvFlushed' = IF connected THEN recvFlushed ELSE recvFlushed + 1
     \/ "submitFail" \in Faults /\ UNCHANGED <<recvPosted, recvFlushed>>
  /\ UNCHANGED <<queueVars, cnt, sub, lam, scq, flush, sendQ, mr, target, rcq,
                 connected, os>>

(* The receive goes back to the queue (3853, or 3958 for a cancelled one).  *)
RepostReceive ==
  /\ rcqThread.pc = "repost"
  /\ \/ /\ recvPosted'  = IF connected THEN recvPosted + 1 ELSE recvPosted
        /\ recvFlushed' = IF connected THEN recvFlushed ELSE recvFlushed + 1
        /\ RcqGoto("reposted", NoSlot, NoIo)
     \/ /\ "submitFail" \in Faults
        /\ RcqGoto("idle", NoSlot, NoIo)
        /\ UNCHANGED <<recvPosted, recvFlushed>>
  /\ UNCHANGED <<queueVars, cnt, sub, lam, scq, flush, sendQ, mr, target, rcq,
                 connected, os>>

(* It is counted only then (3857): the target may have filled it already.   *)
CountReceive ==
  /\ rcqThread.pc = "reposted"
  /\ Count({"lReceiveWorkRequestOutstanding"}, 1)
  /\ RcqGoto("idle", NoSlot, NoIo)
  /\ UNCHANGED <<queueVars, sub, lam, scq, flush, sendQ, wireVars, os>>

(* A receive the disconnected QP gave back, counted down (3925).  A         *)
(* cancelled one is put back or not, by a test of the controller that is no *)
(* expression (3957) and is left open; one that failed otherwise goes on to *)
(* the handler.                                                             *)
ReceiveFlushed ==
  /\ rcqThread.pc = "idle"
  /\ recvFlushed > 0
  /\ recvFlushed' = recvFlushed - 1
  /\ Count({"lReceiveWorkRequestOutstanding"}, -1)
  /\ \/ RcqGoto("idle", NoSlot, NoIo)
     \/ RcqGoto("repost", NoSlot, NoIo)
     \/ "recvFail" \in Faults /\ RcqGoto("failed", NoSlot, NoIo)
  /\ UNCHANGED <<queueVars, sub, lam, scq, flush, sendQ, mr, target, rcq,
                 recvPosted, connected, os>>

(* The handler counts a failed receive down a second time (3861).           *)
ReceiveFailed ==
  /\ rcqThread.pc = "failed"
  /\ Count({"lReceiveWorkRequestOutstanding"}, -1)
  /\ RcqGoto("idle", NoSlot, NoIo)
  /\ UNCHANGED <<queueVars, sub, lam, scq, flush, sendQ, wireVars, os>>

RcqCallback ==
  \/ \E c \in rcq : ReceiveResponse(c) \/ ReceiveInvalid(c)
  \/ StoreResponse \/ RcqJoin \/ RepostReceive \/ CountReceive
  \/ ReceiveFlushed \/ ReceiveFailed

-----------------------------------------------------------------------------
(* The adapter, the connection and the target.                              *)

(* The adapter is done with the oldest operation of a slot.                 *)
Retire(s, st) ==
  /\ sendQ[s] # <<>> /\ Head(sendQ[s]).st = "posted"
  /\ sendQ' = [sendQ EXCEPT ![s] = <<[op |-> Head(@).op, st |-> st]>> \o Tail(@)]

AdapterExecutes(s) ==
  /\ connected
  /\ Retire(s, "ok")
  /\ LET op == Head(sendQ[s]).op IN
     /\ mr' = [mr EXCEPT ![s] = CASE op = "FAST_REGISTER" -> pvBuffer[s]
                                  [] op = "INVALIDATE" -> NoIo
                                  [] op = "SEND" -> @]
     /\ target' = IF op # "SEND" THEN target
                  ELSE target \cup {[id |-> usCommandID[s], slot |-> s,
                                     io |-> pvBuffer[s]]}
  /\ UNCHANGED <<queueVars, cnt, threadVars, rcq, recvPosted, recvFlushed,
                 connected, os>>

AdapterCancels(s) ==
  /\ ~connected
  /\ Retire(s, "cancelled")
  /\ UNCHANGED <<queueVars, cnt, threadVars, wireVars, os>>

Adapter(s) == AdapterExecutes(s) \/ AdapterCancels(s)

(* The target moves the data and answers, into a receive it finds posted.   *)
TargetAnswers(c) ==
  /\ c \in target
  /\ recvPosted > 0
  /\ target' = target \ {c}
  /\ recvPosted' = recvPosted - 1
  /\ rcq' = rcq \cup {[id |-> c.id, io |-> c.io]}
  /\ UNCHANGED <<queueVars, cnt, threadVars, sendQ, mr, recvFlushed, connected, os>>

(* The connection goes: the target forgets, the posted receives come back.  *)
ConnectionLost ==
  /\ "disconnect" \in Faults
  /\ connected
  /\ connected' = FALSE
  /\ target' = {}
  /\ recvFlushed' = recvFlushed + recvPosted
  /\ recvPosted' = 0
  /\ UNCHANGED <<queueVars, cnt, threadVars, sendQ, mr, rcq, os>>

(* NVMeoFRdmaIOQPDisconnect, the connection event; it queues the work item  *)
(* that flushes.                                                            *)
IOQPDisconnect ==
  /\ ~connected
  /\ ulDisconnectFlag = "0"
  /\ ulDisconnectFlag' = "CONTROLLER_IO_DISCONNECTED_EVENT"
  /\ UNCHANGED <<lReqState, ulType, ioVars, usCommandID, lNextCmdID,
                 ppvIoReqTable, cnt, threadVars, sendQ, wireVars, os>>

ParentRead(s) == UNCHANGED pvParentReqCtx
ParentTaken(s) == pvParentReqCtx' = [pvParentReqCtx EXCEPT ![s] = NoIo]

(* NVMeoFRdmaFlushIOQueue at slot s: the state is tested ...                *)
FlushTests(s) ==
  /\ ulDisconnectFlag # "0"
  /\ flush = NoSlot
  /\ "INITIALIZED" \in lReqState[s]
  /\ flush' = s
  /\ UNCHANGED <<queueVars, cnt, sub, lam, scq, rcqThread, sendQ, wireVars, os>>

(* ... and then whatever I/O is in the slot is taken out and completed.     *)
FlushTakes ==
  /\ flush # NoSlot
  /\ flush' = NoSlot
  /\ IF pvParentReqCtx[flush] = NoIo
     THEN UNCHANGED <<pvParentReqCtx, cnt, os>>
     ELSE /\ ParentTaken(flush)
          /\ CompleteToOs(pvParentReqCtx[flush], "flushed")
          /\ Count({"lSubmissionWorkRequestOutstanding"}, -1)
  /\ UNCHANGED <<lReqState, ulType, pvBuffer, Status, idVars, ppvIoReqTable, sub,
                 lam, scq, rcqThread, sendQ, wireVars>>

Flush == FlushTakes \/ \E s \in Slots : FlushTests(s)

-----------------------------------------------------------------------------
(* What NVMeoFRdmaIOQWaitForSubmittedReqToComplete waits for.               *)
Drained ==
  /\ cnt.lReceiveWorkRequestOutstanding = 0
  /\ cnt.lSubmissionWorkRequestOutstanding = 0
  /\ cnt.lFRMRReqOutstanding = 0

(* Every I/O has been answered and no thread has work left.                 *)
Quiescent ==
  /\ \A i \in Ios : sub[i].pc \in {"pending", "refused"}
  /\ \A i \in Ios : lam[i].pc = "idle"
  /\ \A s \in Slots : sendQ[s] = <<>>
  /\ target = {} /\ rcq = {}
  /\ scq.pc = "idle" /\ rcqThread.pc = "idle" /\ flush = NoSlot

AllReturned == \A i \in Ios : sub[i].pc = "refused" \/ os[i].done > 0

Finished == Quiescent /\ AllReturned /\ UNCHANGED vars

Next ==
  \/ \E i \in Ios : Submitter(i) \/ LamCallback(i)
  \/ \E s \in Slots : Adapter(s)
  \/ ScqCallback \/ RcqCallback \/ Flush
  \/ \E c \in target : TargetAnswers(c)
  \/ ConnectionLost \/ IOQPDisconnect
  \/ Finished

Spec == Init /\ [][Next]_vars

(* Threads run, the adapter makes progress, callbacks are delivered, and    *)
(* the target answers every command it has.                                 *)
Fairness ==
  /\ \A i \in Ios : WF_vars(Submitter(i)) /\ WF_vars(LamCallback(i))
  /\ \A s \in Slots : WF_vars(Adapter(s))
  /\ \A s \in Slots : WF_vars(\E c \in target : c.slot = s /\ TargetAnswers(c))
  /\ WF_vars(ScqCallback) /\ WF_vars(RcqCallback)

FairSpec == Spec /\ Fairness

-----------------------------------------------------------------------------
(* What must not go wrong.                                                 *)

(* A work request has at most one operation on the send queue, and its      *)
(* shared type names that operation: the completion, dispatched on the type *)
(* (4047), reaches the handler of what was posted.                          *)
OneOperationPerRequest ==
  \A s \in Slots : sendQ[s] # <<>> =>
    Len(sendQ[s]) = 1 /\ Head(sendQ[s]).op = ulType[s]

(* No buffer stays remotely accessible once its I/O was returned to the OS: *)
(* IoCompletion comes after the invalidation on every path to it.           *)
NotExposedAfterCompletion ==
  connected => \A s \in Slots : mr[s] # NoIo => os[mr[s]].done = 0

(* While the target works on a command, the slot's registration is the      *)
(* command's own buffer: no slot is invalidated or reused under a command.  *)
TargetUsesOwnBuffer == \A c \in target : c.io # NoIo /\ mr[c.slot] = c.io

(* A request that can be claimed has nothing left of its last I/O: no       *)
(* parent (the NT_ASSERT of 4880), no operation, no table entry, no         *)
(* registration, no command at the target.                                  *)
FreeRequestIsClean ==
  \A s \in FreeSlots :
    /\ pvParentReqCtx[s] = NoIo
    /\ sendQ[s] = <<>>
    /\ \A i \in Ios : lam[i].pc = "building" => lam[i].slot # s
    /\ connected => mr[s] = NoIo
    /\ \A n \in CmdIds : ppvIoReqTable[n] # s
    /\ \A c \in target : c.slot # s

(* A response, received or still to come, finds the request of its own I/O  *)
(* under its identifier (the ASSERTs of 2913, 2917 and 3832).               *)
ResponseFindsItsRequest ==
  \A c \in rcq \cup {[id |-> d.id, io |-> d.io] : d \in target} :
    RequestOf(c.id) # NoSlot /\ pvBuffer[RequestOf(c.id)] = c.io

(* The line 4988 assertion: the table entry of an identifier is empty when  *)
(* its request is inserted.                                                 *)
InsertFindsEmptyEntry ==
  [][\A s \in Slots : IoFRCompletion(s) /\ scq'.pc = "send"
       => ppvIoReqTable[usCommandID[s]] = NoSlot]_vars

(* The OS gets each I/O back at most once, whether by a completion or by a  *)
(* flush: whoever takes pvParentReqCtx out of the slot completes.           *)
CompletedOnce == \A i \in Ios : os[i].done <= 1

(* The status an I/O is completed with is that of its own response, or the  *)
(* host's own: ALL_STATE_DONE, from which FREEING starts, includes          *)
(* RESPONSE_RECEIVED.                                                       *)
CompletedWithOwnStatus ==
  \A i \in Ios : os[i].done > 0 => os[i].status \in {i} \cup HostStatus

(* The counters say what is outstanding, but for the increments that follow *)
(* a submission (5243, 5031, 3857): those may be late, never lost, whatever *)
(* fails short of the connection.                                           *)
Posts(op) == {s \in Slots : sendQ[s] # <<>> /\ Head(sendQ[s]).op = op}
CountersBalance ==
  /\ cnt.lFRMRReqOutstanding =
       Cardinality(Posts("FAST_REGISTER"))
       - Cardinality({i \in Ios : sub[i].pc = "registered"})
       - Cardinality({i \in Ios : lam[i].pc = "registered"})
  /\ cnt.lSubmissionWorkRequestOutstanding =
       Cardinality(Posts("SEND")) - (IF scq.pc = "sent" THEN 1 ELSE 0)
  /\ cnt.lReceiveWorkRequestOutstanding =
       recvPosted + recvFlushed + Cardinality(rcq)
       - (IF rcqThread.pc = "reposted" THEN 1 ELSE 0)

(* The wait is for submitted requests to complete: when its counters are    *)
(* zero on a lost connection, no operation is left on the send queue.       *)
DrainedMeansComplete ==
  ulDisconnectFlag # "0" /\ Drained => \A s \in Slots : sendQ[s] = <<>>

(* When everything is still, nothing is kept: every slot can be claimed and *)
(* every accepted I/O went back.                                            *)
QuietMeansDone ==
  Quiescent => AllReturned /\ FreeSlots = Slots /\ \A s \in Slots : mr[s] = NoIo

-----------------------------------------------------------------------------
(* The promise kept to the OS.  An I/O holds its slot from the moment it is *)
(* claimed; a registration counts as open while the connection stands.      *)
phase == [i \in Ios |->
  CASE sub[i].pc = "refused" /\ os[i].done = 0 -> "refused"
    [] sub[i].pc # "refused" /\ os[i].done = 1 -> "completed"
    [] sub[i].pc \in {"new", "alloc"} /\ os[i].done = 0 -> "idle"
    [] sub[i].pc \notin {"new", "alloc", "refused"} /\ os[i].done = 0 -> "accepted"
    [] OTHER -> "returned twice"]

exposed == IF connected THEN {mr[s] : s \in Slots} \ {NoIo} ELSE {}

Promise == INSTANCE IoQueueSpec WITH Depth <- Cardinality(Slots)

(* Every behaviour of the queue is one the OS was promised: refused or      *)
(* completed once, never both (5409-5479 against 4272-4318 and 5102-5148),  *)
(* and never with the buffer open.                                          *)
KeepsPromise == Promise!Spec

(* Where nothing fails, every I/O goes back to the OS: no interleaving of   *)
(* the two callbacks leaves a request that neither of them invalidates.     *)
EveryIoReturns == Promise!AllReturn
=============================================================================

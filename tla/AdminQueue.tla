------------------------------ MODULE AdminQueue ------------------------------
(***************************************************************************)
(* The admin queue of a controller (nvmefrdma.c 138-431, 2205-2440 and     *)
(* 2549-2557): synchronous commands, each submitted by a thread that waits *)
(* 60 s for an event the RCQ callback sets, and the asynchronous event     *)
(* request (nvmeof_cmd.c 776-809), which goes the same way with an         *)
(* identifier of its own and may stay unanswered for ever.                 *)
(*                                                                         *)
(* The answer finds its request by a scan of the identifiers of all        *)
(* requests, free ones included (223-240).  The bounds of that scan and of *)
(* the one for a free request, ulWorkRequestCount and ulQueueDepth, are    *)
(* never set for this queue, and NVMEOF_RESPONSE_STATE_FREE (2297) is      *)
(* declared nowhere: they are taken to be the number of requests and FREE. *)
(***************************************************************************)
EXTENDS Integers, FiniteSets

CONSTANTS Calls,        \* commands of the callers
          Events,       \* asynchronous event requests
          NumSlots,     \* NVME_ADMIN_QUEUE_REQUEST_COUNT
          MaxCmdId,     \* MAX_CMD_ID, 64K - 1 in the code
          FirstCounts,  \* lNextCmdID when the run begins: commands sent before
          AsyncEventId, \* NVME_ASYNC_EVENT_COMMAND_ID, 31 in the code
          NumRecv,      \* lReceiveWorkRequestCount
          Faults,       \* what may go wrong
          None

AllFaults == {"prepareFail", "submitFail", "badLength", "disconnect", "late"}
Requests == Calls \cup Events
Slots == 1 .. NumSlots

ASSUME RequestsAssumption == Calls \cap Events = {} /\ None \notin Requests
ASSUME NumSlotsAssumption == NumSlots \in Nat \ {0}
ASSUME AdminIdsAssumption ==
  /\ MaxCmdId \in Nat /\ MaxCmdId % 2 = 1
  /\ AsyncEventId \in 0 .. MaxCmdId - 1 /\ AsyncEventId % 2 = 1
ASSUME CountsAssumption == NumRecv \in Nat /\ FirstCounts \subseteq Nat
ASSUME AdminFaultsAssumption == Faults \subseteq AllFaults

CmdIds == 0 .. MaxCmdId
NoCmdId == MaxCmdId                  \* the 0xFFFF of a request not in use

VARIABLES
  \* NVMEOF_RDMA_WORK_REQUEST, each field a function of the slot:
  lReqState, usCommandID, pvParentReqCtx, fNVMeReqCompletion, sEvent, Status,
  psBufferMdl,    \* the request whose command the MDL maps
  lNextCmdID, lReceiveWorkRequestOutstanding,
  call,           \* [Requests -> where its thread is, its slot and identifier]
  result,         \* [Requests -> what its thread returned]
  buffer,         \* [Requests -> whose CQE its response buffer holds]
  rcqThread,      \* where the RCQ callback is
  sendQ,          \* sends posted and not executed
  target,         \* commands at the target
  rcq,            \* responses not yet reaped
  recvPosted, recvFlushed, connected,
  \* Two histories that no step reads:
  hit,            \* requests that claimed what the callback had still in hand
  twin            \* requests that met another one under their own number

history == <<hit, twin>>
slotVars == <<lReqState, usCommandID, pvParentReqCtx, fNVMeReqCompletion, sEvent,
              Status, psBufferMdl>>
callVars == <<call, result, buffer>>
wireVars == <<sendQ, target, rcq, recvPosted, recvFlushed, connected>>
vars == <<slotVars, lNextCmdID, lReceiveWorkRequestOutstanding, callVars,
          rcqThread, wireVars, history>>

Message == [id : CmdIds, req : Requests]
IdlePcs == {"new", "done"}
BusyPcs == {"claimed", "prepared", "waiting", "clear", "free"}

TypeOK ==
  /\ lReqState \in [Slots -> {"FREE", "ALLOCATED"}]
  /\ usCommandID \in [Slots -> CmdIds]
  /\ pvParentReqCtx \in [Slots -> Requests \cup {None}]
  /\ fNVMeReqCompletion \in [Slots -> BOOLEAN]
  /\ sEvent \in [Slots -> BOOLEAN]
  /\ Status \in [Slots -> {"success", "error"}]
  /\ psBufferMdl \in [Slots -> Requests \cup {None}]
  /\ lNextCmdID \in Nat
  /\ lReceiveWorkRequestOutstanding \in Int
  /\ call \in [Requests ->
                 [pc : IdlePcs \cup {"numbered"}, slot : {0}, id : CmdIds]
                 \cup [pc : BusyPcs, slot : Slots, id : CmdIds]]
  /\ result \in [Requests -> {"none", "success", "error", "timeout", "noRequest"}]
  /\ buffer \in [Requests -> Requests \cup {None}]
  /\ rcqThread \in [pc : {"idle", "repost", "reposted"}, slot : {0},
                     parent : {None}, cqe : {None}]
                   \cup [pc : {"found", "called"}, slot : Slots, parent : {None},
                         cqe : Requests]
                   \cup [pc : {"store", "signal"}, slot : Slots,
                         parent : Requests \cup {None}, cqe : Requests]
  /\ sendQ \in SUBSET Message /\ target \in SUBSET Message /\ rcq \in SUBSET Message
  /\ recvPosted \in Nat /\ recvFlushed \in Nat /\ connected \in BOOLEAN
  /\ hit \subseteq Requests /\ twin \subseteq Requests

Init ==
  /\ lReqState = [s \in Slots |-> "FREE"]
  /\ usCommandID = [s \in Slots |-> NoCmdId]
  /\ pvParentReqCtx = [s \in Slots |-> None]
  /\ fNVMeReqCompletion = [s \in Slots |-> FALSE]
  /\ sEvent = [s \in Slots |-> FALSE]
  /\ Status = [s \in Slots |-> "success"]
  /\ psBufferMdl = [s \in Slots |-> None]
  /\ lNextCmdID \in FirstCounts
  /\ lReceiveWorkRequestOutstanding = NumRecv
  /\ call = [r \in Requests |-> [pc |-> "new", slot |-> 0, id |-> NoCmdId]]
  /\ result = [r \in Requests |-> "none"]
  /\ buffer = [r \in Requests |-> None]
  /\ rcqThread = [pc |-> "idle", slot |-> 0, parent |-> None, cqe |-> None]
  /\ sendQ = {} /\ target = {} /\ rcq = {}
  /\ recvPosted = NumRecv /\ recvFlushed = 0 /\ connected = TRUE
  /\ hit = {} /\ twin = {}

-----------------------------------------------------------------------------
(* The thread of request r.                                                *)

Goto(r, pc) == call' = [call EXCEPT ![r].pc = pc]
Return(r, status) ==
  /\ call' = [call EXCEPT ![r].pc = "done", ![r].slot = 0]
  /\ result' = [result EXCEPT ![r] = status]

(* n & (MAX_CMD_ID - 1): MAX_CMD_ID is 64K - 1, so the mask drops bit 0,   *)
(* two counts share a number, and one that is odd is never given out.      *)
NumberUnmasked(n) == n % (MaxCmdId + 1)
NumberUnwrapped(n) == n - (n % 2)
MaskCmdId(n) == (n % (MaxCmdId + 1)) - (n % 2)

(* NVMeoFRdmaGetAdminCommandID: the number after the reserved one stands in *)
(* for it.                                                                  *)
IsReserved(n) == MaskCmdId(n) = AsyncEventId
Number(n) == MaskCmdId(IF IsReserved(n) THEN n + 1 ELSE n)
Numbers(n) == IF IsReserved(n) THEN 2 ELSE 1

(* A request is about as long as its thread or a message of it is.          *)
InFlight(q) ==
  \/ rcqThread.cqe = q
  \/ \E c \in sendQ \cup target \cup rcq : c.req = q
About(q) == call[q].pc \notin IdlePcs \/ InFlight(q)

(* Request r goes on under number n, which nothing keeps from being that of *)
(* another one: two counts share a number, numbers wrap.                    *)
NumberedAs(r, n) ==
  LET others == {q \in Requests \ {r} : About(q) /\ call[q].id = n}
  IN /\ call' = [call EXCEPT ![r] = [pc |-> "numbered", slot |-> 0, id |-> n]]
     /\ twin' = IF others = {} THEN twin ELSE twin \cup others \cup {r}

GetAdminCommandID(r) ==
  /\ r \in Calls
  /\ call[r].pc = "new"
  /\ NumberedAs(r, Number(lNextCmdID))
  /\ lNextCmdID' = lNextCmdID + Numbers(lNextCmdID)
  /\ UNCHANGED <<slotVars, lReceiveWorkRequestOutstanding, result, buffer,
                 rcqThread, wireVars, hit>>

(* NVMeoFAsyncEventRequest takes the reserved identifier.                   *)
AsyncEventRequest(r) ==
  /\ r \in Events
  /\ call[r].pc = "new"
  /\ NumberedAs(r, AsyncEventId)
  /\ UNCHANGED <<slotVars, lNextCmdID, lReceiveWorkRequestOutstanding, result,
                 buffer, rcqThread, wireVars, hit>>

FreeSlots == {s \in Slots : lReqState[s] = "FREE"}

(* NVMeoFRdmaGetFreeSendWorkRequest and the set-up of 2374-2389, up to the  *)
(* registrations of NVMeoFRdmaPrepareSendWorkRequest.                       *)
AllocateSendWorkRequest(r, s) ==
  /\ call[r].pc = "numbered"
  /\ s \in FreeSlots
  /\ lReqState' = [lReqState EXCEPT ![s] = "ALLOCATED"]
  /\ sEvent' = [sEvent EXCEPT ![s] = FALSE]
  /\ pvParentReqCtx' = [pvParentReqCtx EXCEPT ![s] = r]
  /\ usCommandID' = [usCommandID EXCEPT ![s] = call[r].id]
  /\ fNVMeReqCompletion' = [fNVMeReqCompletion EXCEPT ![s] = TRUE]
  /\ call' = [call EXCEPT ![r].pc = "claimed", ![r].slot = s]
  /\ hit' = IF rcqThread.slot = s THEN hit \cup {r} ELSE hit
  /\ UNCHANGED <<Status, psBufferMdl, lNextCmdID, lReceiveWorkRequestOutstanding,
                 result, buffer, rcqThread, wireVars, twin>>

NoFreeSendWorkRequest(r) ==
  /\ call[r].pc = "numbered"
  /\ FreeSlots = {}
  /\ Return(r, "noRequest")
  /\ UNCHANGED <<slotVars, lNextCmdID, lReceiveWorkRequestOutstanding, buffer,
                 rcqThread, wireVars, history>>

(* The command is mapped; a registration that fails ends the call.          *)
PrepareSendWorkRequest(r) ==
  /\ call[r].pc = "claimed"
  /\ psBufferMdl' = [psBufferMdl EXCEPT ![call[r].slot] = r]
  /\ sEvent' = [sEvent EXCEPT ![call[r].slot] = FALSE]
  /\ Goto(r, "prepared")
  /\ UNCHANGED <<lReqState, usCommandID, pvParentReqCtx, fNVMeReqCompletion,
                 Status, lNextCmdID, lReceiveWorkRequestOutstanding, result,
                 buffer, rcqThread, wireVars, history>>

PrepareFails(r) ==
  /\ "prepareFail" \in Faults
  /\ call[r].pc = "claimed"
  /\ \/ UNCHANGED psBufferMdl
     \/ psBufferMdl' = [psBufferMdl EXCEPT ![call[r].slot] = r]    \* 2164
  /\ result' = [result EXCEPT ![r] = "error"]
  /\ Goto(r, "clear")
  /\ UNCHANGED <<lReqState, usCommandID, pvParentReqCtx, fNVMeReqCompletion,
                 sEvent, Status, lNextCmdID, lReceiveWorkRequestOutstanding,
                 buffer, rcqThread, wireVars, history>>

(* The status of the submission is overwritten by that of the wait (2419),  *)
(* so a refused send is waited for all the same.                            *)
SubmitSendWorkRequest(r) ==
  /\ call[r].pc = "prepared"
  /\ \/ sendQ' = sendQ \cup {[id |-> call[r].id, req |-> r]}
     \/ "submitFail" \in Faults /\ UNCHANGED sendQ
  /\ Goto(r, "waiting")
  /\ UNCHANGED <<slotVars, lNextCmdID, lReceiveWorkRequestOutstanding, result,
                 buffer, rcqThread, target, rcq, recvPosted, recvFlushed,
                 connected, history>>

(* The event is set: the answer is in the buffer.                           *)
WaitEnds(r) ==
  /\ call[r].pc = "waiting"
  /\ sEvent[call[r].slot]
  /\ result' = [result EXCEPT ![r] = Status[call[r].slot]]
  /\ Goto(r, "clear")
  /\ UNCHANGED <<slotVars, lNextCmdID, lReceiveWorkRequestOutstanding, buffer,
                 rcqThread, wireVars, history>>

(* The 60 s are over.  That they may be over with the answer to a command    *)
(* on its way is the speed of the target and of this host, "late"; an event  *)
(* request may be answered at any time.                                      *)
ReceivesLeft == recvPosted > 0 \/ rcq # {} \/ rcqThread.pc # "idle"
OnItsWay(r) ==
  \/ rcqThread.cqe = r
  \/ \E c \in rcq : c.req = r
  \/ ReceivesLeft /\ \E c \in sendQ \cup target : c.req = r

WaitTimesOut(r) ==
  /\ call[r].pc = "waiting"
  /\ ~sEvent[call[r].slot]
  /\ r \in Calls /\ OnItsWay(r) => "late" \in Faults
  /\ result' = [result EXCEPT ![r] = "timeout"]
  /\ Goto(r, "clear")
  /\ UNCHANGED <<slotVars, lNextCmdID, lReceiveWorkRequestOutstanding, buffer,
                 rcqThread, wireVars, history>>

(* NVMeoFRdmaReleaseSendWorkRequest: the fields, then the state.            *)
ClearAllButId(s) ==
  /\ UNCHANGED <<usCommandID, fNVMeReqCompletion>>
  /\ pvParentReqCtx' = [pvParentReqCtx EXCEPT ![s] = None]
  /\ sEvent' = [sEvent EXCEPT ![s] = FALSE]
  /\ Status' = [Status EXCEPT ![s] = "success"]
  /\ psBufferMdl' = [psBufferMdl EXCEPT ![s] = None]

ClearFields(s) ==
  /\ usCommandID' = [usCommandID EXCEPT ![s] = NoCmdId]
  /\ fNVMeReqCompletion' = [fNVMeReqCompletion EXCEPT ![s] = FALSE]
  /\ pvParentReqCtx' = [pvParentReqCtx EXCEPT ![s] = None]
  /\ sEvent' = [sEvent EXCEPT ![s] = FALSE]
  /\ Status' = [Status EXCEPT ![s] = "success"]
  /\ psBufferMdl' = [psBufferMdl EXCEPT ![s] = None]

ReleaseClears(r) ==
  /\ call[r].pc = "clear"
  /\ ClearFields(call[r].slot)
  /\ Goto(r, "free")
  /\ UNCHANGED <<lReqState, lNextCmdID, lReceiveWorkRequestOutstanding, result,
                 buffer, rcqThread, wireVars, history>>

ReleaseFrees(r) ==
  /\ call[r].pc = "free"
  /\ lReqState' = [lReqState EXCEPT ![call[r].slot] = "FREE"]
  /\ Return(r, result[r])
  /\ UNCHANGED <<usCommandID, pvParentReqCtx, fNVMeReqCompletion, sEvent, Status,
                 psBufferMdl, lNextCmdID, lReceiveWorkRequestOutstanding, buffer,
                 rcqThread, wireVars, history>>

Caller(r) ==
  \/ GetAdminCommandID(r) \/ AsyncEventRequest(r)
  \/ \E s \in Slots : AllocateSendWorkRequest(r, s)
  \/ NoFreeSendWorkRequest(r)
  \/ PrepareSendWorkRequest(r) \/ PrepareFails(r)
  \/ SubmitSendWorkRequest(r) \/ WaitEnds(r) \/ WaitTimesOut(r)
  \/ ReleaseClears(r) \/ ReleaseFrees(r)

-----------------------------------------------------------------------------
(* The RCQ callback (NVMeoFRdmaAdminRcqCallback).                           *)

RcqGoto(pc, s, parent, cqe) ==
  rcqThread' = [pc |-> pc, slot |-> s, parent |-> parent, cqe |-> cqe]
RcqReposts == RcqGoto("repost", 0, None, None)

RcqReap(c) ==
  /\ rcqThread.pc = "idle"
  /\ c \in rcq
  /\ rcq' = rcq \ {c}
  /\ lReceiveWorkRequestOutstanding' = lReceiveWorkRequestOutstanding - 1

(* NVMeoFRdmaAdminFindSendWorkRequest: the first in the list.               *)
Matches(id) == {s \in Slots : usCommandID[s] = id}
FindSendWorkRequest(id) ==
  CHOOSE s \in Matches(id) : \A t \in Matches(id) : s <= t

ReceiveAnswer(c) ==
  /\ RcqReap(c)
  /\ Matches(c.id) # {}
  /\ RcqGoto("found", FindSendWorkRequest(c.id), None, c.req)
  /\ UNCHANGED <<slotVars, lNextCmdID, callVars, sendQ, target, recvPosted,
                 recvFlushed, connected, history>>

(* Nobody waits for it, or it is too short to hold a CQE.                   *)
ReceiveDropped(c) ==
  /\ RcqReap(c)
  /\ Matches(c.id) = {} \/ "badLength" \in Faults
  /\ RcqReposts
  /\ UNCHANGED <<slotVars, lNextCmdID, callVars, sendQ, target, recvPosted,
                 recvFlushed, connected, history>>

(* The completion routine is called if there is one ...                     *)
CallNVMeCompletion ==
  /\ rcqThread.pc = "found"
  /\ IF fNVMeReqCompletion[rcqThread.slot]
     THEN RcqGoto("called", rcqThread.slot, None, rcqThread.cqe)
     ELSE RcqReposts
  /\ UNCHANGED <<slotVars, lNextCmdID, lReceiveWorkRequestOutstanding, callVars,
                 wireVars, history>>

(* ... and reads the parent (2323), gone if the caller has just given up.   *)
ReadParentSignals ==
  /\ rcqThread.pc = "called"
  /\ RcqGoto("store", rcqThread.slot, pvParentReqCtx[rcqThread.slot],
             rcqThread.cqe)
  /\ sEvent' = [sEvent EXCEPT ![rcqThread.slot] = TRUE]
  /\ UNCHANGED <<lReqState, usCommandID, pvParentReqCtx, fNVMeReqCompletion,
                 Status, psBufferMdl, lNextCmdID, lReceiveWorkRequestOutstanding,
                 callVars, wireVars, history>>

ReadParent ==
  /\ rcqThread.pc = "called"
  /\ RcqGoto("store", rcqThread.slot, pvParentReqCtx[rcqThread.slot],
             rcqThread.cqe)
  /\ UNCHANGED <<slotVars, lNextCmdID, lReceiveWorkRequestOutstanding, callVars,
                 wireVars, history>>

(* NVMeoFRdmaSubmissionWorkReqNVMeCompletion: the CQE goes into the caller's*)
(* buffer, unless more than a CQE came, and then the event is set.          *)
StoreAnswer ==
  /\ rcqThread.pc = "store"
  /\ \/ /\ buffer' = [r \in Requests |-> IF r = rcqThread.parent THEN rcqThread.cqe
                                        ELSE buffer[r]]
        /\ Status' = [Status EXCEPT ![rcqThread.slot] = "success"]
     \/ /\ "badLength" \in Faults
        /\ Status' = [Status EXCEPT ![rcqThread.slot] = "error"]
        /\ UNCHANGED buffer
  /\ RcqGoto("signal", rcqThread.slot, rcqThread.parent, rcqThread.cqe)
  /\ UNCHANGED <<lReqState, usCommandID, pvParentReqCtx, fNVMeReqCompletion,
                 sEvent, psBufferMdl, lNextCmdID, lReceiveWorkRequestOutstanding,
                 call, result, wireVars, history>>

SignalAnswer ==
  /\ rcqThread.pc = "signal"
  /\ sEvent' = [sEvent EXCEPT ![rcqThread.slot] = TRUE]
  /\ RcqReposts
  /\ UNCHANGED <<lReqState, usCommandID, pvParentReqCtx, fNVMeReqCompletion,
                 Status, psBufferMdl, lNextCmdID, lReceiveWorkRequestOutstanding,
                 callVars, wireVars, history>>

(* The receive goes back to the queue, or is lost (350).                    *)
RepostReceiveUnchecked ==
  /\ rcqThread.pc = "repost"
  /\ RcqGoto("reposted", 0, None, None)
  /\ \/ /\ recvPosted'  = IF connected THEN recvPosted + 1 ELSE recvPosted
        /\ recvFlushed' = IF connected THEN recvFlushed ELSE recvFlushed + 1
     \/ "submitFail" \in Faults /\ UNCHANGED <<recvPosted, recvFlushed>>
  /\ UNCHANGED <<slotVars, lNextCmdID, lReceiveWorkRequestOutstanding, callVars,
                 sendQ, target, rcq, connected, history>>

RepostReceive ==
  /\ rcqThread.pc = "repost"
  /\ \/ /\ recvPosted'  = IF connected THEN recvPosted + 1 ELSE recvPosted
        /\ recvFlushed' = IF connected THEN recvFlushed ELSE recvFlushed + 1
        /\ RcqGoto("reposted", 0, None, None)
     \/ /\ "submitFail" \in Faults
        /\ UNCHANGED <<recvPosted, recvFlushed>>
        /\ RcqGoto("idle", 0, None, None)
  /\ UNCHANGED <<slotVars, lNextCmdID, lReceiveWorkRequestOutstanding, callVars,
                 sendQ, target, rcq, connected, history>>

(* It is counted only then (339).                                           *)
CountReceive ==
  /\ rcqThread.pc = "reposted"
  /\ RcqGoto("idle", 0, None, None)
  /\ lReceiveWorkRequestOutstanding' = lReceiveWorkRequestOutstanding + 1
  /\ UNCHANGED <<slotVars, lNextCmdID, callVars, wireVars, history>>

(* A receive the disconnected QP gave back.                                 *)
ReceiveFlushed ==
  /\ rcqThread.pc = "idle"
  /\ recvFlushed > 0
  /\ recvFlushed' = recvFlushed - 1
  /\ lReceiveWorkRequestOutstanding' = lReceiveWorkRequestOutstanding - 1
  /\ UNCHANGED <<slotVars, lNextCmdID, callVars, rcqThread, sendQ, target, rcq,
                 recvPosted, connected, history>>

RcqCallback ==
  \/ \E c \in rcq : ReceiveAnswer(c) \/ ReceiveDropped(c)
  \/ CallNVMeCompletion \/ ReadParent \/ StoreAnswer \/ SignalAnswer
  \/ RepostReceive \/ CountReceive \/ ReceiveFlushed

-----------------------------------------------------------------------------
(* The adapter, the target and the connection.  Send completions change     *)
(* nothing: a synchronous request has no fSendReqCompletion (2388).          *)

AdapterSends(c) ==
  /\ c \in sendQ
  /\ sendQ' = sendQ \ {c}
  /\ target' = IF connected THEN target \cup {c} ELSE target
  /\ UNCHANGED <<slotVars, lNextCmdID, lReceiveWorkRequestOutstanding, callVars,
                 rcqThread, rcq, recvPosted, recvFlushed, connected, history>>

TargetAnswers(c) ==
  /\ c \in target
  /\ recvPosted > 0
  /\ target' = target \ {c}
  /\ recvPosted' = recvPosted - 1
  /\ rcq' = rcq \cup {c}
  /\ UNCHANGED <<slotVars, lNextCmdID, lReceiveWorkRequestOutstanding, callVars,
                 rcqThread, sendQ, recvFlushed, connected, history>>

ConnectionLost ==
  /\ "disconnect" \in Faults
  /\ connected
  /\ connected' = FALSE
  /\ target' = {}
  /\ recvFlushed' = recvFlushed + recvPosted
  /\ recvPosted' = 0
  /\ UNCHANGED <<slotVars, lNextCmdID, lReceiveWorkRequestOutstanding, callVars,
                 rcqThread, sendQ, rcq, history>>

Finished ==
  /\ \A r \in Requests : call[r].pc = "done"
  /\ sendQ = {} /\ rcq = {} /\ rcqThread.pc = "idle" /\ recvFlushed = 0
  /\ UNCHANGED vars

Next ==
  \/ \E r \in Requests : Caller(r)
  \/ RcqCallback
  \/ \E c \in sendQ : AdapterSends(c)
  \/ \E c \in target : TargetAnswers(c)
  \/ ConnectionLost
  \/ Finished

Spec == Init /\ [][Next]_vars

(* Threads run, waits end at the latest after 60 s, what is posted is sent, *)
(* the callback is delivered; the target answers every command but an event *)
(* request.                                                                 *)
Fairness ==
  /\ \A r \in Requests : WF_vars(Caller(r))
  /\ WF_vars(RcqCallback)
  /\ WF_vars(\E c \in sendQ : AdapterSends(c))
  /\ \A r \in Calls : WF_vars(\E c \in target : c.req = r /\ TargetAnswers(c))

FairSpec == Spec /\ Fairness

-----------------------------------------------------------------------------
(* What must not go wrong.                                                 *)

(* The CQE a caller returns with answers its own command.  Commands that    *)
(* meet under one number (2556) may get each other's, and no one else's: an  *)
(* event request, answered ever so late, never answers a command (2553).    *)
(* The one exception claimed its request with an older answer still in the  *)
(* callback's hands (2438 lets the next caller have it).                    *)
AnswerIsOwn ==
  \A r \in Requests \ hit : result[r] = "success" =>
    /\ buffer[r] # None
    /\ call[buffer[r]].id = call[r].id
    /\ r \notin twin => buffer[r] = r

(* As long as a caller has not given up, its answer goes to it: it waits,   *)
(* on the very request that the callback is about to write to and signal    *)
(* (2325, 2334).                                                            *)
AnswerFindsWaiter ==
  rcqThread.pc \in {"store", "signal"} =>
    LET c == rcqThread.cqe
    IN c \notin hit \cup twin /\ result[c] = "none" =>
         /\ rcqThread.parent = c
         /\ call[c].pc = "waiting"
         /\ call[c].slot = rcqThread.slot

(* A request that can be claimed is nobody's, whatever answers come late:   *)
(* no answer can find it, and nothing of its last command is left in it but *)
(* perhaps a signal (2264-2299).                                            *)
FreeRequestIsClean ==
  /\ \A s \in FreeSlots :
       /\ usCommandID[s] = NoCmdId /\ pvParentReqCtx[s] = None
       /\ ~fNVMeReqCompletion[s] /\ psBufferMdl[s] = None
       /\ \A r \in Requests : call[r].slot # s
  /\ \A q, r \in Requests : q # r /\ call[q].slot = call[r].slot => call[q].slot = 0

(* The counter on which the release of the queue waits (1995) and the       *)
(* arming depends (425) is that of the receives not reaped, but for the one *)
(* that is posted and not yet counted (339).                                *)
ReceivesBalance ==
  lReceiveWorkRequestOutstanding =
    recvPosted + recvFlushed + Cardinality(rcq)
    - (IF rcqThread.pc = "reposted" THEN 1 ELSE 0)

(* Where nothing fails, every command that has its number for itself        *)
(* returns with an answer: no wake-up is lost between the resets of the     *)
(* event (2374, 2406) and its setting, and requests never run out.          *)
EveryCallSucceeds == \A r \in Calls : <>(result[r] = "success" \/ r \in twin)
=============================================================================

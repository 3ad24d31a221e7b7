--------------------------- MODULE AdminQueue_proofs ---------------------------
(*****************************************************************************)
(* Theorems about AdminQueue, for every number of requests, identifiers,     *)
(* receives and commands, and whatever goes wrong: answers that race their   *)
(* wait (2420) and commands under one number (2556) included.                *)
(*                                                                           *)
(* IInv ties a request to the one thread that has claimed it (SlotsInv) and  *)
(* a message to the command it was sent for (WireInv).  AnswersInv follows   *)
(* an answer through the callback: what the scan found is of a command with  *)
(* the answer's number (HeldInv), so what is in a caller's buffer when its   *)
(* event is set is an answer to that number (BuffersInv); and as long as the *)
(* command has not given up, it is the one that was found (WaiterInv).       *)
(*****************************************************************************)
EXTENDS AdminQueue, FiniteSetTheorems, WellFoundedInduction, TLAPS

OwnPcs == {"claimed", "prepared", "waiting", "clear"}
AskingPcs == {"claimed", "prepared", "waiting"}
SentPcs == {"waiting", "clear", "free", "done"}
GivenPcs == {"clear", "free", "done"}

(* A busy thread has a request of its own, with its identifier; a request of *)
(* no thread, or of one that has cleared it, has nothing of a command in it. *)
Owns(r, s) == pvParentReqCtx[s] = r /\ usCommandID[s] = call[r].id /\ fNVMeReqCompletion[s]
Unused(s) == \A r \in Requests : call[r].slot = s => call[r].pc = "free"
SlotsInv ==
  /\ \A r \in Requests : call[r].pc \in BusyPcs => lReqState[call[r].slot] = "ALLOCATED"
  /\ \A q, r \in Requests : q # r /\ call[q].slot = call[r].slot => call[q].slot = 0
  /\ \A r \in Requests : call[r].pc \in OwnPcs => Owns(r, call[r].slot)
  /\ \A s \in Slots : Unused(s) => /\ usCommandID[s] = NoCmdId /\ pvParentReqCtx[s] = None
                                   /\ ~fNVMeReqCompletion[s] /\ psBufferMdl[s] = None

(* Identifiers in use are not the one of a free request, and commands do not *)
(* have the one of event requests.                                           *)
IdsInv ==
  \A r \in Requests : call[r].pc # "new" =>
    IF r \in Events THEN call[r].id = AsyncEventId ELSE call[r].id \notin {AsyncEventId, NoCmdId}

(* A command is sent once: there is one message for it, in one place.        *)
Wire == sendQ \cup target \cup rcq
WireInv ==
  /\ \A c \in Wire : /\ call[c.req].pc \in SentPcs
                     /\ c.id = call[c.req].id
                     /\ c.req # rcqThread.cqe
  /\ \A c, d \in Wire : c.req = d.req => c = d
  /\ sendQ \cap target = {} /\ sendQ \cap rcq = {} /\ target \cap rcq = {}
  /\ rcqThread.cqe # None => call[rcqThread.cqe].pc \in SentPcs
  /\ IsFiniteSet(rcq)

(* A call has a result from the moment it gives up or gets its answer.       *)
ResultsInv == \A r \in Requests : result[r] # "none" <=> call[r].pc \in GivenPcs

(* Commands that meet under one number are in the history.                   *)
NumbersInv ==
  \A q, r \in Requests : q # r /\ About(q) /\ About(r) /\ call[q].id = call[r].id
     => q \in twin /\ r \in twin

(* An answer to b is one that p may get.                                     *)
Good(b, p) ==
  /\ b \in Requests /\ call[b].pc # "new" /\ call[p].pc # "new"
  /\ call[b].id = call[p].id
  /\ p \notin twin => b = p

(* What the callback holds is good for who has the request it found, unless  *)
(* that one claimed it meanwhile; and for the parent it read, who is still   *)
(* there if anyone waits on the request.                                     *)
HeldInv ==
  /\ rcqThread.pc \in {"found", "called"} =>
       \A p \in Requests \ hit : call[p].slot = rcqThread.slot => Good(rcqThread.cqe, p)
  /\ rcqThread.pc = "store" =>
       /\ \A p \in Requests \ hit :
            call[p].slot = rcqThread.slot /\ call[p].pc \in AskingPcs => rcqThread.parent = p
       /\ rcqThread.parent \in Requests \ hit => Good(rcqThread.cqe, rcqThread.parent)

(* Who has not given up still waits on the request that was found.           *)
WaiterInv ==
  rcqThread.cqe \in Requests \ (hit \cup twin) /\ result[rcqThread.cqe] = "none" =>
    /\ call[rcqThread.cqe].pc = "waiting"
    /\ call[rcqThread.cqe].slot = rcqThread.slot
    /\ rcqThread.pc \in {"store", "signal"} => rcqThread.parent = rcqThread.cqe

(* The event of a request is set, or about to be, with a good answer in the  *)
(* buffer.                                                                   *)
Signalled(s) == sEvent[s] \/ (rcqThread.pc = "signal" /\ rcqThread.slot = s)
Answered(p) ==
  call[p].pc \in AskingPcs /\ Signalled(call[p].slot) /\ Status[call[p].slot] = "success"
BuffersInv ==
  \A p \in Requests \ hit : Answered(p) \/ result[p] = "success" => Good(buffer[p], p)

IInv == TypeOK /\ SlotsInv /\ IdsInv /\ WireInv /\ ResultsInv /\ ReceivesBalance
AnswersInv == NumbersInv /\ HeldInv /\ WaiterInv /\ BuffersInv
-----------------------------------------------------------------------------
USE DEF slotVars, callVars, wireVars, history

(* The parts of TypeOK.                                                      *)
SlotsOK ==
  /\ lReqState \in [Slots -> {"FREE", "ALLOCATED"}]
  /\ usCommandID \in [Slots -> CmdIds]
  /\ pvParentReqCtx \in [Slots -> Requests \cup {None}]
  /\ fNVMeReqCompletion \in [Slots -> BOOLEAN]
  /\ psBufferMdl \in [Slots -> Requests \cup {None}]
AnsweredOK ==
  /\ sEvent \in [Slots -> BOOLEAN]
  /\ Status \in [Slots -> {"success", "error"}]
  /\ result \in [Requests -> {"none", "success", "error", "timeout", "noRequest"}]
  /\ buffer \in [Requests -> Requests \cup {None}]
CallOK ==
  /\ call \in [Requests -> [pc : IdlePcs \cup {"numbered"}, slot : {0}, id : CmdIds]
                            \cup [pc : BusyPcs, slot : Slots, id : CmdIds]]
  /\ hit \subseteq Requests /\ twin \subseteq Requests
RcqThreadOK ==
  rcqThread \in [pc : {"idle", "repost", "reposted"}, slot : {0}, parent : {None}, cqe : {None}]
                \cup [pc : {"found", "called"}, slot : Slots, parent : {None}, cqe : Requests]
                \cup [pc : {"store", "signal"}, slot : Slots, parent : Requests \cup {None},
                      cqe : Requests]
CountsOK ==
  /\ lNextCmdID \in Nat /\ lReceiveWorkRequestOutstanding \in Int
  /\ recvPosted \in Nat /\ recvFlushed \in Nat /\ connected \in BOOLEAN
WireOK == sendQ \in SUBSET Message /\ target \in SUBSET Message /\ rcq \in SUBSET Message
LEMMA TypeParts ==
  TypeOK <=> SlotsOK /\ AnsweredOK /\ CallOK /\ RcqThreadOK /\ CountsOK /\ WireOK
  BY DEF TypeOK, SlotsOK, AnsweredOK, CallOK, RcqThreadOK, CountsOK, WireOK

EnvStep ==
  \/ RcqCallback
  \/ \E c \in sendQ : AdapterSends(c)
  \/ \E c \in target : TargetAnswers(c)
  \/ ConnectionLost

-----------------------------------------------------------------------------
(* The numbers and the scan.                                                 *)

(* A set of numbers has a least one, so the scan of 223-240 that finds a     *)
(* request with the identifier finds one that has it.                        *)
LEMMA LeastNumber ==
  ASSUME NEW T \in SUBSET Nat, T # {}
  PROVE  \E x \in T : \A y \in T : x <= y
<1> DEFINE R == {ss \in Nat \X Nat : ss[1] < ss[2]}
<1>1. IsWellFoundedOn(R, Nat)
  BY NatLessThanWellFounded DEF OpToRel
<1>2. PICK x \in T : \A y \in T : ~(<<y, x>> \in R)
  BY <1>1, WFMin
<1>3. ASSUME NEW y \in T
      PROVE  x <= y
  <2>1. <<y, x>> \in Nat \X Nat /\ x \in Nat /\ y \in Nat
    OBVIOUS
  <2>2. ~(y < x)
    BY <1>2, <2>1
  <2> QED
    BY <2>1, <2>2
<1> QED
  BY <1>3

LEMMA FindsMatching ==
  ASSUME NEW id, Matches(id) # {}
  PROVE  FindSendWorkRequest(id) \in Matches(id)
<1>1. Matches(id) \in SUBSET Nat
  BY NumSlotsAssumption DEF Matches, Slots
<1>2. \E s \in Matches(id) : \A t \in Matches(id) : s <= t
  BY <1>1, LeastNumber
<1> QED
  BY <1>2 DEF FindSendWorkRequest

(* The mask gives an even number below MaxCmdId, which is odd: never that of *)
(* a free request, nor the reserved one.                                     *)
LEMMA MaskIsEven ==
  ASSUME NEW n \in Nat
  PROVE  /\ MaskCmdId(n) \in CmdIds
         /\ MaskCmdId(n) % 2 = 0
<1> DEFINE m == MaxCmdId + 1
           q == n \div m
<1>1. PICK h \in Nat : m = 2 * h /\ h > 0
  BY AdminIdsAssumption
<1>2. q \in Int /\ n % m \in 0 .. m - 1 /\ n = m * q + (n % m)
  <2>1. m \in Nat /\ m > 0
    BY AdminIdsAssumption
  <2> HIDE DEF m
  <2> QED
    BY <2>1
<1>3. m * q = 2 * (h * q) /\ h * q \in Int
  <2>1. (2 * h) * q = 2 * (h * q) /\ h * q \in Int
    BY <1>2
  <2> QED
    BY <1>1, <2>1
<1>4. (n % m) - (n % 2) \in 0 .. MaxCmdId /\ ((n % m) - (n % 2)) % 2 = 0
  <2> HIDE DEF m, q
  <2>1. \A e \in Int, x \in 0 .. m - 1 :
          n = 2 * e + x => x - (n % 2) \in 0 .. m - 1 /\ (x - (n % 2)) % 2 = 0
    BY <1>1
  <2>2. n = 2 * (h * q) + (n % m)
    BY <1>2, <1>3
  <2>3. (n % m) - (n % 2) \in 0 .. m - 1 /\ ((n % m) - (n % 2)) % 2 = 0
    BY <1>2, <1>3, <2>1, <2>2
  <2>4. MaxCmdId = m - 1
    BY AdminIdsAssumption DEF m
  <2> QED
    BY <2>3, <2>4
<1> QED
  BY <1>4 DEF MaskCmdId, CmdIds

LEMMA NumberIsFree ==
  ASSUME NEW n \in Nat
  PROVE  /\ Number(n) \in CmdIds
         /\ Number(n) \notin {AsyncEventId, NoCmdId}
<1>1. /\ MaskCmdId(n) \in CmdIds /\ MaskCmdId(n) % 2 = 0
      /\ MaskCmdId(n + 1) \in CmdIds /\ MaskCmdId(n + 1) % 2 = 0
  BY MaskIsEven
<1>2. Number(n) \in CmdIds /\ Number(n) % 2 = 0
  BY <1>1 DEF Number
<1> QED
  BY <1>2, AdminIdsAssumption DEF NoCmdId

-----------------------------------------------------------------------------
(* Types.                                                                    *)

(* The steps of a caller's thread.                                           *)
LEMMA CallerSlots ==
  ASSUME NEW r \in Requests, SlotsOK, CallOK, CountsOK, Caller(r)
  PROVE  SlotsOK' /\ CallOK'
<1> USE DEF SlotsOK, CallOK, IdlePcs, BusyPcs
<1>1. CASE GetAdminCommandID(r)
  BY <1>1, NumberIsFree DEF GetAdminCommandID, NumberedAs, CountsOK
<1>2. CASE AsyncEventRequest(r)
  BY <1>2, AdminIdsAssumption DEF AsyncEventRequest, NumberedAs, CmdIds
<1>3. CASE \E s \in Slots : AllocateSendWorkRequest(r, s)
  <2> PICK s \in Slots : AllocateSendWorkRequest(r, s)
    BY <1>3
  <2>1. SlotsOK'
    BY DEF AllocateSendWorkRequest
  <2>2. /\ call' = [call EXCEPT ![r].pc = "claimed", ![r].slot = s]
        /\ call[r].pc = "numbered" /\ UNCHANGED twin
        /\ hit' = hit \/ hit' = hit \cup {r}
    BY DEF AllocateSendWorkRequest
  <2>3. call[r] \in [pc : IdlePcs \cup {"numbered"}, slot : {0}, id : CmdIds]
    BY <2>2
  <2>4. call'[r] \in [pc : BusyPcs, slot : Slots, id : CmdIds]
    BY <2>2, <2>3
  <2>5. CallOK'
    BY <2>2, <2>4
  <2> QED
    BY <2>1, <2>5
<1>4. CASE NoFreeSendWorkRequest(r)
  <2>1. /\ call' = [call EXCEPT ![r].pc = "done", ![r].slot = 0]
        /\ UNCHANGED <<slotVars, history>>
    BY <1>4 DEF NoFreeSendWorkRequest, Return
  <2>2. call[r] \in [pc : IdlePcs \cup {"numbered"}, slot : {0}, id : CmdIds]
    BY <1>4 DEF NoFreeSendWorkRequest
  <2>3. call'[r] \in [pc : IdlePcs \cup {"numbered"}, slot : {0}, id : CmdIds]
    BY <2>1, <2>2
  <2>4. CallOK'
    BY <2>1, <2>3
  <2> QED
    BY <2>1, <2>4
<1>5. CASE PrepareSendWorkRequest(r)
  BY <1>5 DEF PrepareSendWorkRequest, Goto
<1>6. CASE PrepareFails(r)
  BY <1>6 DEF PrepareFails, Goto
<1>7. CASE SubmitSendWorkRequest(r)
  BY <1>7 DEF SubmitSendWorkRequest, Goto
<1>8. CASE WaitEnds(r)
  BY <1>8 DEF WaitEnds, Goto
<1>9. CASE WaitTimesOut(r)
  BY <1>9 DEF WaitTimesOut, Goto
<1>10. CASE ReleaseClears(r)
  <2>1. SlotsOK'
    BY <1>10, AdminIdsAssumption DEF ReleaseClears, ClearFields, CmdIds, NoCmdId
  <2>2. CallOK'
    BY <1>10 DEF ReleaseClears, Goto
  <2> QED
    BY <2>1, <2>2
<1>11. CASE ReleaseFrees(r)
  <2>1. /\ call' = [call EXCEPT ![r].pc = "done", ![r].slot = 0]
        /\ call[r].pc = "free" /\ UNCHANGED history
    BY <1>11 DEF ReleaseFrees, Return
  <2>2. call[r] \in [pc : BusyPcs, slot : Slots, id : CmdIds]
    BY <2>1
  <2>3. call'[r] \in [pc : IdlePcs \cup {"numbered"}, slot : {0}, id : CmdIds]
    BY <2>1, <2>2
  <2>4. CallOK'
    BY <2>1, <2>3
  <2>5. SlotsOK'
    BY <1>11 DEF ReleaseFrees
  <2> QED
    BY <2>4, <2>5
<1> QED
  BY <1>1, <1>2, <1>3, <1>4, <1>5, <1>6, <1>7, <1>8, <1>9, <1>10, <1>11 DEF Caller

(* A caller's thread numbers commands, sets results and posts sends.          *)
LEMMA CallerRest ==
  ASSUME NEW r \in Requests, AnsweredOK, CallOK, CountsOK, WireOK, Caller(r)
  PROVE  /\ AnsweredOK' /\ CountsOK' /\ WireOK'
         /\ UNCHANGED <<rcqThread, buffer, target, rcq, recvPosted, recvFlushed,
                        lReceiveWorkRequestOutstanding>>
<1> USE DEF AnsweredOK, CallOK, CountsOK, WireOK
<1>1. CASE GetAdminCommandID(r)
  BY <1>1 DEF GetAdminCommandID, Numbers
<1>2. CASE AsyncEventRequest(r)
  BY <1>2 DEF AsyncEventRequest, NumberedAs
<1>3. CASE \E s \in Slots : AllocateSendWorkRequest(r, s)
  BY <1>3 DEF AllocateSendWorkRequest
<1>4. CASE NoFreeSendWorkRequest(r)
  BY <1>4 DEF NoFreeSendWorkRequest, Return
<1>5. CASE PrepareSendWorkRequest(r)
  BY <1>5 DEF PrepareSendWorkRequest, Goto
<1>6. CASE PrepareFails(r)
  BY <1>6 DEF PrepareFails, Goto
<1>7. CASE SubmitSendWorkRequest(r)
  BY <1>7 DEF SubmitSendWorkRequest, Goto, Message, IdlePcs, BusyPcs
<1>8. CASE WaitEnds(r)
  BY <1>8 DEF WaitEnds, Goto, IdlePcs, BusyPcs
<1>9. CASE WaitTimesOut(r)
  BY <1>9 DEF WaitTimesOut, Goto
<1>10. CASE ReleaseClears(r)
  BY <1>10 DEF ReleaseClears, ClearFields, Goto
<1>11. CASE ReleaseFrees(r)
  BY <1>11 DEF ReleaseFrees, Return, IdlePcs, BusyPcs
<1> QED
  BY <1>1, <1>2, <1>3, <1>4, <1>5, <1>6, <1>7, <1>8, <1>9, <1>10, <1>11 DEF Caller

(* The callback, the adapter, the target and the connection.                 *)
LEMMA EnvTypes ==
  ASSUME SlotsOK, AnsweredOK, RcqThreadOK, CountsOK, WireOK, EnvStep
  PROVE  /\ UNCHANGED <<lReqState, usCommandID, pvParentReqCtx, fNVMeReqCompletion,
                        psBufferMdl, call, result, lNextCmdID, history>>
         /\ AnsweredOK' /\ RcqThreadOK' /\ CountsOK' /\ WireOK'
<1> USE DEF SlotsOK, AnsweredOK, RcqThreadOK, CountsOK, WireOK
<1>1. CASE \E c \in rcq : ReceiveAnswer(c)
  BY <1>1, FindsMatching DEF ReceiveAnswer, RcqReap, RcqGoto, Message, Matches
<1>2. CASE \E c \in rcq : ReceiveDropped(c)
  BY <1>2 DEF ReceiveDropped, RcqReap, RcqReposts, RcqGoto, Message
<1>3. CASE CallNVMeCompletion
  BY <1>3 DEF CallNVMeCompletion, RcqReposts, RcqGoto
<1>4. CASE StoreAnswer
  BY <1>4 DEF StoreAnswer, RcqGoto
<1>5. CASE SignalAnswer
  BY <1>5 DEF SignalAnswer, RcqReposts, RcqGoto
<1>6. CASE RepostReceive
  BY <1>6 DEF RepostReceive, RcqGoto
<1>7. CASE ReceiveFlushed
  BY <1>7 DEF ReceiveFlushed
<1>8. CASE \E c \in sendQ : AdapterSends(c)
  BY <1>8 DEF AdapterSends
<1>9. CASE \E c \in target : TargetAnswers(c)
  BY <1>9 DEF TargetAnswers
<1>10. CASE ConnectionLost
  <2>1. WireOK'
    BY <1>10 DEF ConnectionLost, Message
  <2>2. /\ connected' = FALSE /\ recvFlushed' = recvFlushed + recvPosted /\ recvPosted' = 0
        /\ UNCHANGED <<slotVars, lNextCmdID, lReceiveWorkRequestOutstanding, callVars,
                        rcqThread, history>>
    BY <1>10 DEF ConnectionLost
  <2>3. recvFlushed' \in Nat /\ recvPosted' \in Nat /\ connected' \in BOOLEAN
    <3>1. recvFlushed' \in Nat /\ recvPosted' \in Nat
      BY <2>2
    <3> QED
      BY <2>2, <3>1
  <2> QED
    BY <2>1, <2>2, <2>3
<1>11. CASE ReadParent
  BY <1>11 DEF ReadParent, RcqGoto
<1>12. CASE CountReceive
  BY <1>12 DEF CountReceive, RcqGoto
<1> QED
  BY <1>1, <1>2, <1>3, <1>4, <1>5, <1>6, <1>7, <1>8, <1>9, <1>10, <1>11, <1>12
     DEF EnvStep, RcqCallback

LEMMA KeepsTypes ==
  ASSUME TypeOK, Next
  PROVE  TypeOK'
<1>1. SlotsOK /\ AnsweredOK /\ CallOK /\ RcqThreadOK /\ CountsOK /\ WireOK
  BY TypeParts
<1>2. SUFFICES SlotsOK' /\ AnsweredOK' /\ CallOK' /\ RcqThreadOK' /\ CountsOK' /\ WireOK'
  BY DEF TypeOK, SlotsOK, AnsweredOK, CallOK, RcqThreadOK, CountsOK, WireOK
<1>3. ASSUME NEW r \in Requests, Caller(r)
      PROVE  SlotsOK' /\ AnsweredOK' /\ CallOK' /\ RcqThreadOK' /\ CountsOK' /\ WireOK'
  BY <1>1, <1>3, CallerSlots, CallerRest DEF RcqThreadOK
<1>4. CASE EnvStep
  BY <1>1, <1>4, EnvTypes DEF SlotsOK, CallOK
<1>5. CASE Finished
  BY <1>1, <1>5 DEF Finished, vars, SlotsOK, AnsweredOK, CallOK, RcqThreadOK, CountsOK, WireOK
<1> QED
  BY <1>3, <1>4, <1>5 DEF Next, EnvStep

-----------------------------------------------------------------------------
(* What holds whatever fails.                                                *)

(* Claiming and releasing: a thread has the request it claimed to itself.    *)
LEMMA CallerKeepsSlots ==
  ASSUME NEW r \in Requests, SlotsOK, CallOK, CountsOK, SlotsInv, Caller(r)
  PROVE  SlotsInv'
<1> USE DEF SlotsOK, CallOK, IdlePcs, BusyPcs, OwnPcs, SlotsInv, Owns, Unused, Slots
<1>1. CASE GetAdminCommandID(r)
  BY <1>1 DEF GetAdminCommandID, NumberedAs
<1>2. CASE AsyncEventRequest(r)
  BY <1>2 DEF AsyncEventRequest, NumberedAs
<1>3. CASE \E s \in Slots : AllocateSendWorkRequest(r, s)
  BY <1>3 DEF AllocateSendWorkRequest, FreeSlots
<1>4. CASE NoFreeSendWorkRequest(r)
  BY <1>4 DEF NoFreeSendWorkRequest, Return
<1>5. CASE PrepareSendWorkRequest(r)
  BY <1>5 DEF PrepareSendWorkRequest, Goto
<1>6. CASE PrepareFails(r)
  <2>1. \A s \in Slots : s # call[r].slot => psBufferMdl'[s] = psBufferMdl[s]
    BY <1>6, ZenonT(30) DEF PrepareFails
  <2>2. /\ call' = [call EXCEPT ![r].pc = "clear"] /\ call[r].pc = "claimed"
        /\ UNCHANGED <<lReqState, usCommandID, pvParentReqCtx, fNVMeReqCompletion>>
    BY <1>6 DEF PrepareFails, Goto
  <2> QED
    BY <2>1, <2>2
<1>7. CASE SubmitSendWorkRequest(r)
  BY <1>7 DEF SubmitSendWorkRequest, Goto
<1>8. CASE WaitEnds(r)
  BY <1>8 DEF WaitEnds, Goto
<1>9. CASE WaitTimesOut(r)
  BY <1>9 DEF WaitTimesOut, Goto
<1>10. CASE ReleaseClears(r)
  BY <1>10 DEF ReleaseClears, ClearFields, Goto
<1>11. CASE ReleaseFrees(r)
  BY <1>11 DEF ReleaseFrees, Return
<1> QED
  BY <1>1, <1>2, <1>3, <1>4, <1>5, <1>6, <1>7, <1>8, <1>9, <1>10, <1>11 DEF Caller

(* A thread in progress has a number of its kind.                            *)
LEMMA CallerKeepsIds ==
  ASSUME NEW r \in Requests, CallOK, CountsOK, IdsInv, Caller(r)
  PROVE  IdsInv'
<1> USE RequestsAssumption DEF CallOK, IdsInv, IdlePcs, BusyPcs
<1>1. CASE GetAdminCommandID(r)
  BY <1>1, NumberIsFree DEF GetAdminCommandID, NumberedAs, CountsOK
<1>2. CASE AsyncEventRequest(r)
  BY <1>2 DEF AsyncEventRequest, NumberedAs
<1>3. CASE \E s \in Slots : AllocateSendWorkRequest(r, s)
  BY <1>3 DEF AllocateSendWorkRequest
<1>4. CASE NoFreeSendWorkRequest(r)
  BY <1>4 DEF NoFreeSendWorkRequest, Return
<1>5. CASE PrepareSendWorkRequest(r)
  BY <1>5 DEF PrepareSendWorkRequest, Goto
<1>6. CASE PrepareFails(r)
  BY <1>6 DEF PrepareFails, Goto
<1>7. CASE SubmitSendWorkRequest(r)
  BY <1>7 DEF SubmitSendWorkRequest, Goto
<1>8. CASE WaitEnds(r)
  BY <1>8 DEF WaitEnds, Goto
<1>9. CASE WaitTimesOut(r)
  BY <1>9 DEF WaitTimesOut, Goto
<1>10. CASE ReleaseClears(r)
  BY <1>10 DEF ReleaseClears, ClearFields, Goto
<1>11. CASE ReleaseFrees(r)
  BY <1>11 DEF ReleaseFrees, Return
<1> QED
  BY <1>1, <1>2, <1>3, <1>4, <1>5, <1>6, <1>7, <1>8, <1>9, <1>10, <1>11 DEF Caller

(* A thread that sends has not sent before.                                  *)
LEMMA CallerKeepsWire ==
  ASSUME NEW r \in Requests, CallOK, RcqThreadOK, WireOK, WireInv, Caller(r)
  PROVE  WireInv'
<1> USE DEF CallOK, WireOK, RcqThreadOK, Message, Wire, WireInv, SentPcs, IdlePcs, BusyPcs
<1>1. CASE GetAdminCommandID(r)
  BY <1>1 DEF GetAdminCommandID, NumberedAs
<1>2. CASE AsyncEventRequest(r)
  BY <1>2 DEF AsyncEventRequest, NumberedAs
<1>3. CASE \E s \in Slots : AllocateSendWorkRequest(r, s)
  BY <1>3 DEF AllocateSendWorkRequest
<1>4. CASE NoFreeSendWorkRequest(r)
  BY <1>4 DEF NoFreeSendWorkRequest, Return
<1>5. CASE PrepareSendWorkRequest(r)
  BY <1>5 DEF PrepareSendWorkRequest, Goto
<1>6. CASE PrepareFails(r)
  BY <1>6 DEF PrepareFails, Goto
<1>7. CASE SubmitSendWorkRequest(r)
  <2>1. /\ call' = [call EXCEPT ![r].pc = "waiting"] /\ call[r].pc = "prepared"
        /\ UNCHANGED <<rcqThread, target, rcq>>
    BY <1>7 DEF SubmitSendWorkRequest, Goto
  <2>2. CASE UNCHANGED sendQ
    BY <2>1, <2>2
  <2>3. CASE sendQ' = sendQ \cup {[id |-> call[r].id, req |-> r]}
    <3>1. \A c \in Wire : c.req # r
      BY <2>1
    <3>2. rcqThread.cqe # r
      BY <2>1, RequestsAssumption
    <3> QED
      BY <2>1, <2>3, <3>1, <3>2, RequestsAssumption
  <2> QED
    BY <1>7, <2>2, <2>3 DEF SubmitSendWorkRequest
<1>8. CASE WaitEnds(r)
  BY <1>8 DEF WaitEnds, Goto
<1>9. CASE WaitTimesOut(r)
  BY <1>9 DEF WaitTimesOut, Goto
<1>10. CASE ReleaseClears(r)
  BY <1>10 DEF ReleaseClears, ClearFields, Goto
<1>11. CASE ReleaseFrees(r)
  BY <1>11 DEF ReleaseFrees, Return
<1> QED
  BY <1>1, <1>2, <1>3, <1>4, <1>5, <1>6, <1>7, <1>8, <1>9, <1>10, <1>11 DEF Caller

(* A message moves from one place to the next; CallNVMeCompletion and the    *)
(* steps after it carry only its command.                                    *)
LEMMA EnvKeepsWire ==
  ASSUME TypeOK, WireInv, EnvStep
  PROVE  WireInv'
<1> SlotsOK /\ RcqThreadOK /\ WireOK /\ CallOK
  BY TypeParts
<1> USE RequestsAssumption DEF WireOK, RcqThreadOK, Message, Wire, WireInv
<1>1. CASE \E c \in rcq : ReceiveAnswer(c)
  BY <1>1, FS_RemoveElement DEF ReceiveAnswer, RcqReap, RcqGoto
<1>2. CASE \E c \in rcq : ReceiveDropped(c)
  BY <1>2, FS_RemoveElement DEF ReceiveDropped, RcqReap, RcqReposts, RcqGoto
<1>3. CASE CallNVMeCompletion
  BY <1>3 DEF CallNVMeCompletion, RcqReposts, RcqGoto
<1>4. CASE StoreAnswer
  BY <1>4 DEF StoreAnswer, RcqGoto
<1>5. CASE SignalAnswer
  BY <1>5 DEF SignalAnswer, RcqReposts, RcqGoto
<1>6. CASE RepostReceive
  BY <1>6 DEF RepostReceive, RcqGoto
<1>7. CASE ReceiveFlushed
  BY <1>7 DEF ReceiveFlushed
<1>8. CASE \E c \in sendQ : AdapterSends(c)
  BY <1>8 DEF AdapterSends
<1>9. CASE \E c \in target : TargetAnswers(c)
  BY <1>9, FS_AddElement DEF TargetAnswers
<1>10. CASE ConnectionLost
  BY <1>10 DEF ConnectionLost
<1>11. CASE ReadParent
  BY <1>11 DEF ReadParent, RcqGoto
<1>12. CASE CountReceive
  BY <1>12 DEF CountReceive, RcqGoto
<1> QED
  BY <1>1, <1>2, <1>3, <1>4, <1>5, <1>6, <1>7, <1>8, <1>9, <1>10, <1>11, <1>12
     DEF EnvStep, RcqCallback

(* Every receive is at the adapter, flushed, or reaped; but for the one      *)
(* posted again, it is counted.                                              *)
LEMMA EnvKeepsBalance ==
  ASSUME TypeOK, WireInv, ReceivesBalance, EnvStep
  PROVE  ReceivesBalance'
<1> RcqThreadOK /\ WireOK /\ CountsOK
  BY TypeParts
<1> Cardinality(rcq) \in Nat
  BY FS_CardinalityType DEF WireInv
<1> USE DEF CountsOK, RcqThreadOK, ReceivesBalance, WireInv
<1>1. CASE \E c \in rcq : ReceiveAnswer(c)
  <2> PICK c \in rcq : ReceiveAnswer(c)
    BY <1>1
  <2>1. rcq' = rcq \ {c}
    BY DEF ReceiveAnswer, RcqReap
  <2>2. Cardinality(rcq') = Cardinality(rcq) - 1
    BY <2>1, FS_RemoveElement
  <2> QED
    BY <2>2 DEF ReceiveAnswer, RcqReap, RcqGoto
<1>2. CASE \E c \in rcq : ReceiveDropped(c)
  <2> PICK c \in rcq : ReceiveDropped(c)
    BY <1>2
  <2>1. rcq' = rcq \ {c}
    BY DEF ReceiveDropped, RcqReap
  <2>2. Cardinality(rcq') = Cardinality(rcq) - 1
    BY <2>1, FS_RemoveElement
  <2> QED
    BY <2>2 DEF ReceiveDropped, RcqReap, RcqReposts, RcqGoto
<1>3. CASE CallNVMeCompletion
  BY <1>3 DEF CallNVMeCompletion, RcqReposts, RcqGoto
<1>4. CASE StoreAnswer
  BY <1>4 DEF StoreAnswer, RcqGoto
<1>5. CASE SignalAnswer
  BY <1>5 DEF SignalAnswer, RcqReposts, RcqGoto
<1>6. CASE RepostReceive
  BY <1>6 DEF RepostReceive, RcqGoto
<1>7. CASE ReceiveFlushed
  BY <1>7 DEF ReceiveFlushed
<1>8. CASE \E c \in sendQ : AdapterSends(c)
  BY <1>8 DEF AdapterSends
<1>9. CASE \E c \in target : TargetAnswers(c)
  <2> PICK c \in target : TargetAnswers(c)
    BY <1>9
  <2>1. rcq' = rcq \cup {c} /\ c \notin rcq
    BY DEF TargetAnswers
  <2>2. Cardinality(rcq') = Cardinality(rcq) + 1
    BY <2>1, FS_AddElement
  <2> QED
    BY <2>2 DEF TargetAnswers
<1>10. CASE ConnectionLost
  BY <1>10 DEF ConnectionLost
<1>11. CASE ReadParent
  BY <1>11 DEF ReadParent, RcqGoto
<1>12. CASE CountReceive
  BY <1>12 DEF CountReceive, RcqGoto
<1> QED
  BY <1>1, <1>2, <1>3, <1>4, <1>5, <1>6, <1>7, <1>8, <1>9, <1>10, <1>11, <1>12
     DEF EnvStep, RcqCallback

(* A call has its result once it is over or gives up waiting.                *)
LEMMA CallerKeepsResults ==
  ASSUME NEW r \in Requests, AnsweredOK, CallOK, ResultsInv, Caller(r)
  PROVE  ResultsInv'
<1> USE DEF AnsweredOK, CallOK, ResultsInv, GivenPcs, IdlePcs, BusyPcs
<1>1. CASE GetAdminCommandID(r)
  BY <1>1 DEF GetAdminCommandID, NumberedAs
<1>2. CASE AsyncEventRequest(r)
  BY <1>2 DEF AsyncEventRequest, NumberedAs
<1>3. CASE \E s \in Slots : AllocateSendWorkRequest(r, s)
  BY <1>3 DEF AllocateSendWorkRequest
<1>4. CASE NoFreeSendWorkRequest(r)
  BY <1>4 DEF NoFreeSendWorkRequest, Return
<1>5. CASE PrepareSendWorkRequest(r)
  BY <1>5 DEF PrepareSendWorkRequest, Goto
<1>6. CASE PrepareFails(r)
  BY <1>6 DEF PrepareFails, Goto
<1>7. CASE SubmitSendWorkRequest(r)
  BY <1>7 DEF SubmitSendWorkRequest, Goto
<1>8. CASE WaitEnds(r)
  BY <1>8 DEF WaitEnds, Goto
<1>9. CASE WaitTimesOut(r)
  BY <1>9 DEF WaitTimesOut, Goto
<1>10. CASE ReleaseClears(r)
  BY <1>10 DEF ReleaseClears, ClearFields, Goto
<1>11. CASE ReleaseFrees(r)
  BY <1>11 DEF ReleaseFrees, Return
<1> QED
  BY <1>1, <1>2, <1>3, <1>4, <1>5, <1>6, <1>7, <1>8, <1>9, <1>10, <1>11 DEF Caller

-----------------------------------------------------------------------------
(* Whose answer it is.                                                       *)

(* A thread moves nobody else and keeps its number; the histories grow; and  *)
(* a request that the callback has in hand is claimed only by a call that is *)
(* noted to have hit it.                                                     *)
LEMMA CallerMoves ==
  ASSUME NEW r \in Requests, SlotsOK, AnsweredOK, CallOK, Caller(r)
  PROVE  /\ \A q \in Requests \ {r} : call'[q] = call[q] /\ result'[q] = result[q]
         /\ call[r].pc # "done" /\ call'[r].pc # "new"
         /\ call[r].pc # "new" => call'[r].id = call[r].id /\ twin' = twin
         /\ hit \subseteq hit' /\ twin \subseteq twin'
         /\ rcqThread.slot # 0 /\ call'[r].slot = rcqThread.slot =>
              \/ r \in hit'
              \/ /\ call[r].slot = rcqThread.slot
                 /\ call'[r].pc \in AskingPcs => call[r].pc \in AskingPcs
         /\ result'[r] = "none" => result[r] = "none" /\ call[r].pc # "waiting"
<1> USE DEF SlotsOK, AnsweredOK, CallOK, AskingPcs, IdlePcs, BusyPcs
<1>1. CASE GetAdminCommandID(r)
  BY <1>1 DEF GetAdminCommandID, NumberedAs
<1>2. CASE AsyncEventRequest(r)
  BY <1>2 DEF AsyncEventRequest, NumberedAs
<1>3. CASE \E s \in Slots : AllocateSendWorkRequest(r, s)
  BY <1>3 DEF AllocateSendWorkRequest
<1>4. CASE NoFreeSendWorkRequest(r)
  BY <1>4 DEF NoFreeSendWorkRequest, Return
<1>5. CASE PrepareSendWorkRequest(r)
  BY <1>5 DEF PrepareSendWorkRequest, Goto
<1>6. CASE PrepareFails(r)
  BY <1>6 DEF PrepareFails, Goto
<1>7. CASE SubmitSendWorkRequest(r)
  BY <1>7 DEF SubmitSendWorkRequest, Goto
<1>8. CASE WaitEnds(r)
  BY <1>8 DEF WaitEnds, Goto
<1>9. CASE WaitTimesOut(r)
  BY <1>9 DEF WaitTimesOut, Goto
<1>10. CASE ReleaseClears(r)
  BY <1>10 DEF ReleaseClears, ClearFields, Goto
<1>11. CASE ReleaseFrees(r)
  BY <1>11 DEF ReleaseFrees, Return
<1> QED
  BY <1>1, <1>2, <1>3, <1>4, <1>5, <1>6, <1>7, <1>8, <1>9, <1>10, <1>11 DEF Caller

(* Only a send adds to what is under way.                                    *)
LEMMA CallerSends ==
  ASSUME NEW r \in Requests, CallOK, Caller(r)
  PROVE  \A q \in Requests :
           InFlight(q)' => InFlight(q) \/ (q = r /\ call[r].pc = "prepared")
<1> USE DEF InFlight
<1>1. CASE SubmitSendWorkRequest(r)
  <2>1. UNCHANGED <<rcqThread, target, rcq>> /\ call[r].pc = "prepared"
    BY <1>1 DEF SubmitSendWorkRequest
  <2>2. sendQ' \in {sendQ, sendQ \cup {[id |-> call[r].id, req |-> r]}}
    BY <1>1 DEF SubmitSendWorkRequest
  <2>3. \A c \in sendQ' : c \in sendQ \/ c.req = r
    BY <2>2
  <2> QED
    BY <2>1, <2>3
<1>2. CASE UNCHANGED <<rcqThread, sendQ, target, rcq>>
  BY <1>2
<1> QED
  BY <1>1, <1>2
     DEF Caller, GetAdminCommandID, AsyncEventRequest, AllocateSendWorkRequest,
         NoFreeSendWorkRequest, PrepareSendWorkRequest, PrepareFails, WaitEnds, WaitTimesOut,
         ReleaseClears, ReleaseFrees

(* Who meets another command under its number is noted, and so is that one.  *)
LEMMA CallerKeepsNumbers ==
  ASSUME NEW r \in Requests, TypeOK, NumbersInv, Caller(r)
  PROVE  NumbersInv'
<1> SlotsOK /\ AnsweredOK /\ CallOK
  BY TypeParts
<1>1. \A q \in Requests \ {r} : About(q)' => About(q)
  BY CallerMoves, CallerSends DEF About
<1>2. ASSUME NEW n, NumberedAs(r, n), call[r].pc = "new"
      PROVE  NumbersInv'
  <2>1. \A q \in Requests \ {r} : call'[q] = call[q]
    BY CallerMoves
  <2>2. call'[r].id = n
    BY <1>2 DEF NumberedAs, CallOK
  <2>3. \A q \in Requests \ {r} : About(q) /\ call[q].id = n => q \in twin' /\ r \in twin'
    BY <1>2 DEF NumberedAs
  <2>4. twin \subseteq twin'
    BY CallerMoves
  <2> QED
    BY <1>1, <2>1, <2>2, <2>3, <2>4 DEF NumbersInv
<1>3. CASE GetAdminCommandID(r) \/ AsyncEventRequest(r)
  BY <1>2, <1>3 DEF GetAdminCommandID, AsyncEventRequest
<1>4. CASE call[r].pc # "new"
  <2>1. About(r)
    BY <1>4, CallerMoves DEF About, IdlePcs
  <2>2. \A q \in Requests : call'[q].id = call[q].id
    BY <1>4, CallerMoves
  <2>3. twin' = twin
    BY <1>4, CallerMoves
  <2> QED
    BY <1>1, <2>1, <2>2, <2>3 DEF NumbersInv
<1> QED
  BY <1>3, <1>4
     DEF Caller, AllocateSendWorkRequest, NoFreeSendWorkRequest, PrepareSendWorkRequest,
         PrepareFails, SubmitSendWorkRequest, WaitEnds, WaitTimesOut, ReleaseClears, ReleaseFrees

(* The wire brings no message back.                                          *)
LEMMA WireLosesOnly ==
  ASSUME TypeOK, EnvStep
  PROVE  \A q \in Requests : InFlight(q)' => InFlight(q)
<1> RcqThreadOK /\ WireOK
  BY TypeParts
<1> USE RequestsAssumption DEF RcqThreadOK, InFlight
<1>1. CASE \E c \in rcq : ReceiveAnswer(c)
  BY <1>1 DEF ReceiveAnswer, RcqReap, RcqGoto
<1>2. CASE \E c \in rcq : ReceiveDropped(c)
  BY <1>2 DEF ReceiveDropped, RcqReap, RcqReposts, RcqGoto
<1>3. CASE rcqThread'.cqe \in {rcqThread.cqe, None} /\ UNCHANGED <<sendQ, target, rcq>>
  BY <1>3
<1>4. CASE CallNVMeCompletion \/ ReadParent \/ StoreAnswer \/ SignalAnswer
  <2>1. rcqThread'.cqe \in {rcqThread.cqe, None} /\ UNCHANGED <<sendQ, target, rcq>>
    BY <1>4 DEF CallNVMeCompletion, ReadParent, StoreAnswer, SignalAnswer, RcqReposts, RcqGoto
  <2> QED
    BY <1>3, <2>1
<1>5. CASE RepostReceive \/ CountReceive \/ ReceiveFlushed
  <2>1. rcqThread'.cqe \in {rcqThread.cqe, None} /\ UNCHANGED <<sendQ, target, rcq>>
    BY <1>5 DEF RepostReceive, CountReceive, ReceiveFlushed, RcqGoto
  <2> QED
    BY <1>3, <2>1
<1>6. CASE \E c \in sendQ : AdapterSends(c)
  BY <1>6 DEF AdapterSends
<1>7. CASE \E c \in target : TargetAnswers(c)
  BY <1>7 DEF TargetAnswers
<1>8. CASE ConnectionLost
  BY <1>8 DEF ConnectionLost
<1> QED
  BY <1>1, <1>2, <1>4, <1>5, <1>6, <1>7, <1>8 DEF EnvStep, RcqCallback

LEMMA EnvKeepsNumbers ==
  ASSUME TypeOK, NumbersInv, EnvStep
  PROVE  NumbersInv'
<1>1. UNCHANGED <<call, twin>>
  BY EnvTypes, TypeParts
<1>2. \A q \in Requests : About(q)' => About(q)
  BY <1>1, WireLosesOnly DEF About
<1> QED
  BY <1>1, <1>2 DEF NumbersInv

(* A request whose identifier or parent is set is that of a thread.          *)
LEMMA SlotHasOwner ==
  ASSUME SlotsOK, CallOK, SlotsInv, NEW s \in Slots,
         usCommandID[s] # NoCmdId \/ pvParentReqCtx[s] # None
  PROVE  \E q \in Requests : call[q].slot = s /\ call[q].pc \in OwnPcs /\ Owns(q, s)
<1>1. PICK q \in Requests : call[q].slot = s /\ call[q].pc # "free"
  BY DEF SlotsInv, Unused
<1>2. call[q].pc \in OwnPcs
  BY <1>1, NumSlotsAssumption DEF CallOK, OwnPcs, BusyPcs, Slots
<1> QED
  BY <1>1, <1>2 DEF SlotsInv

(* The scan finds the request of a command with the answer's number: of      *)
(* another command only if the two have met under it.                        *)
LEMMA FindsOwn ==
  ASSUME TypeOK, SlotsInv, IdsInv, WireInv, NumbersInv, NEW c \in rcq, Matches(c.id) # {}
  PROVE  \E q \in Requests : /\ call[q].slot = FindSendWorkRequest(c.id)
                             /\ Good(c.req, q)
                             /\ c.req \notin twin => q = c.req
<1> DEFINE s == FindSendWorkRequest(c.id)
<1> CallOK /\ SlotsOK /\ WireOK
  BY TypeParts
<1>1. s \in Slots /\ usCommandID[s] = c.id
  BY FindsMatching DEF Matches
<1>2. c.req \in Requests /\ c.id = call[c.req].id /\ call[c.req].pc \in SentPcs
  BY DEF WireOK, Message, WireInv, Wire
<1>3. call[c.req].pc # "new" /\ c.id # NoCmdId
  BY <1>2, AdminIdsAssumption DEF SentPcs, IdsInv, NoCmdId
<1>4. PICK q \in Requests : call[q].slot = s /\ call[q].pc \in OwnPcs /\ Owns(q, s)
  BY <1>1, <1>3, SlotHasOwner
<1>5. call[q].id = c.id
  BY <1>1, <1>4 DEF Owns
<1>6. About(q) /\ About(c.req) /\ call[q].pc # "new"
  BY <1>4 DEF About, InFlight, OwnPcs, IdlePcs
<1>7. q # c.req => q \in twin /\ c.req \in twin
  BY <1>2, <1>5, <1>6 DEF NumbersInv
<1> QED
  BY <1>2, <1>3, <1>4, <1>5, <1>6, <1>7 DEF Good

(* No request is that of two threads.                                        *)
LEMMA OneOwner ==
  ASSUME CallOK, SlotsInv, NEW q \in Requests, NEW r \in Requests, NEW s \in Slots,
         call[q].slot = s, call[r].slot = s
  PROVE  q = r
  BY NumSlotsAssumption DEF SlotsInv, Slots

(* What the callback holds stays good when a thread goes on: who claims the  *)
(* request meanwhile is noted.                                               *)
LEMMA CallerKeepsHeld ==
  ASSUME NEW r \in Requests, TypeOK, HeldInv, Caller(r)
  PROVE  HeldInv'
<1> SlotsOK /\ AnsweredOK /\ CallOK /\ RcqThreadOK
  BY TypeParts
<1>1. UNCHANGED rcqThread
  BY CallerRest, TypeParts
<1>2. \A q \in Requests : call[q].pc # "new" => call'[q].pc # "new" /\ call'[q].id = call[q].id
  BY CallerMoves
<1>3. hit \subseteq hit' /\ twin \subseteq twin'
  BY CallerMoves
<1>4. ASSUME NEW p \in Requests, p \notin hit', rcqThread.slot # 0,
             call'[p].slot = rcqThread.slot
      PROVE  /\ call[p].slot = rcqThread.slot
             /\ call'[p].pc \in AskingPcs => call[p].pc \in AskingPcs
  BY <1>4, CallerMoves
<1>5. CASE rcqThread.pc \in {"found", "called"}
  <2>1. rcqThread.slot # 0
    BY <1>5, NumSlotsAssumption DEF RcqThreadOK, Slots
  <2>2. ASSUME NEW p \in Requests \ hit', call'[p].slot = rcqThread.slot
        PROVE  Good(rcqThread.cqe, p)
    BY <1>3, <1>4, <1>5, <2>1, <2>2 DEF HeldInv
  <2> QED
    BY <1>1, <1>2, <1>3, <1>5, <2>2 DEF HeldInv, Good
<1>6. CASE rcqThread.pc = "store"
  <2>1. rcqThread.slot # 0
    BY <1>6, NumSlotsAssumption DEF RcqThreadOK, Slots
  <2>2. ASSUME NEW p \in Requests \ hit', call'[p].slot = rcqThread.slot,
               call'[p].pc \in AskingPcs
        PROVE  rcqThread.parent = p
    BY <1>3, <1>4, <1>6, <2>1, <2>2 DEF HeldInv
  <2>3. rcqThread.parent \in Requests \ hit' => Good(rcqThread.cqe, rcqThread.parent)
    BY <1>3, <1>6 DEF HeldInv
  <2> QED
    BY <1>1, <1>2, <1>3, <1>6, <2>2, <2>3 DEF HeldInv, Good
<1>7. CASE rcqThread.pc \notin {"found", "called", "store"}
  BY <1>1, <1>7 DEF HeldInv
<1> QED
  BY <1>5, <1>6, <1>7

(* The parent read is that of the request found.                             *)
LEMMA EnvKeepsHeld ==
  ASSUME TypeOK, SlotsInv, IdsInv, WireInv, NumbersInv, HeldInv, EnvStep
  PROVE  HeldInv'
<1> SlotsOK /\ CallOK /\ RcqThreadOK /\ WireOK
  BY TypeParts
<1>1. UNCHANGED <<call, hit, twin>>
  BY EnvTypes, TypeParts
<1> USE <1>1 DEF HeldInv, Good
<1>2. CASE \E c \in rcq : ReceiveAnswer(c)
  <2> PICK c \in rcq : ReceiveAnswer(c)
    BY <1>2
  <2>1. /\ Matches(c.id) # {}
        /\ rcqThread' = [pc |-> "found", slot |-> FindSendWorkRequest(c.id),
                         parent |-> None, cqe |-> c.req]
    BY DEF ReceiveAnswer, RcqGoto
  <2>2. FindSendWorkRequest(c.id) \in Slots
    BY <2>1, FindsMatching DEF Matches
  <2>3. \A p \in Requests : call[p].slot = FindSendWorkRequest(c.id) => Good(c.req, p)
    BY <2>1, <2>2, FindsOwn, OneOwner
  <2> QED
    BY <2>1, <2>3
<1>3. CASE rcqThread'.pc \in {"idle", "repost", "reposted", "signal"}
  BY <1>3
<1>4. CASE CallNVMeCompletion
  BY <1>4 DEF CallNVMeCompletion, RcqReposts, RcqGoto
<1>5. CASE ReadParent
  <2> DEFINE s == rcqThread.slot
  <2>1. /\ rcqThread.pc = "called"
        /\ rcqThread' = [pc |-> "store", slot |-> s, parent |-> pvParentReqCtx[s],
                         cqe |-> rcqThread.cqe]
    BY <1>5 DEF ReadParent, RcqGoto
  <2>2. s \in Slots
    BY <2>1 DEF RcqThreadOK
  <2>3. ASSUME NEW p \in Requests, call[p].slot = s, call[p].pc \in AskingPcs
        PROVE  pvParentReqCtx[s] = p
    BY <2>3 DEF SlotsInv, Owns, AskingPcs, OwnPcs
  <2>4. ASSUME pvParentReqCtx[s] \in Requests \ hit
        PROVE  Good(rcqThread.cqe, pvParentReqCtx[s])
    <3>1. pvParentReqCtx[s] # None
      BY <2>4, RequestsAssumption
    <3>2. PICK q \in Requests : call[q].slot = s /\ Owns(q, s)
      BY <2>2, <3>1, SlotHasOwner
    <3>3. q = pvParentReqCtx[s]
      BY <3>2 DEF Owns
    <3> QED
      BY <2>1, <2>4, <3>2, <3>3
  <2> QED
    BY <2>1, <2>3, <2>4
<1>6. CASE \E c \in rcq : ReceiveDropped(c)
  BY <1>3, <1>6 DEF ReceiveDropped, RcqReposts, RcqGoto
<1>7. CASE StoreAnswer \/ SignalAnswer
  BY <1>3, <1>7 DEF StoreAnswer, SignalAnswer, RcqReposts, RcqGoto
<1>8. CASE RepostReceive \/ CountReceive \/ ReceiveFlushed
  BY <1>3, <1>8 DEF RepostReceive, CountReceive, ReceiveFlushed, RcqGoto
<1>9. CASE UNCHANGED rcqThread
  BY <1>9
<1> QED
  BY <1>2, <1>4, <1>5, <1>6, <1>7, <1>8, <1>9
     DEF EnvStep, RcqCallback, AdapterSends, TargetAnswers, ConnectionLost

(* A thread that leaves its wait has given up, or has its answer.            *)
LEMMA CallerKeepsWaiter ==
  ASSUME NEW r \in Requests, TypeOK, WaiterInv, Caller(r)
  PROVE  WaiterInv'
<1> SlotsOK /\ AnsweredOK /\ CallOK
  BY TypeParts
<1>1. UNCHANGED rcqThread
  BY CallerRest, TypeParts
<1>2. hit \subseteq hit' /\ twin \subseteq twin'
  BY CallerMoves
<1>3. CASE rcqThread.cqe = r
  <2>1. result'[r] = "none" => result[r] = "none" /\ call[r].pc # "waiting"
    BY CallerMoves
  <2> QED
    BY <1>1, <1>2, <1>3, <2>1 DEF WaiterInv
<1>4. CASE rcqThread.cqe # r
  <2>1. \A q \in Requests \ {r} : call'[q] = call[q] /\ result'[q] = result[q]
    BY CallerMoves
  <2> QED
    BY <1>1, <1>2, <1>4, <2>1 DEF WaiterInv
<1> QED
  BY <1>3, <1>4

(* The callback finds the command that still waits, and reads it as parent.  *)
LEMMA EnvKeepsWaiter ==
  ASSUME TypeOK, SlotsInv, IdsInv, WireInv, ResultsInv, NumbersInv, WaiterInv, EnvStep
  PROVE  WaiterInv'
<1> SlotsOK /\ CallOK /\ RcqThreadOK /\ WireOK
  BY TypeParts
<1>1. UNCHANGED <<call, result, hit, twin>>
  BY EnvTypes, TypeParts
<1> USE <1>1, RequestsAssumption DEF WaiterInv
<1>2. CASE \E c \in rcq : ReceiveAnswer(c)
  <2> PICK c \in rcq : ReceiveAnswer(c)
    BY <1>2
  <2>1. /\ Matches(c.id) # {}
        /\ rcqThread' = [pc |-> "found", slot |-> FindSendWorkRequest(c.id),
                         parent |-> None, cqe |-> c.req]
    BY DEF ReceiveAnswer, RcqGoto
  <2>2. c.req \in Requests /\ call[c.req].pc \in SentPcs
    BY DEF WireOK, Message, WireInv, Wire
  <2>3. result[c.req] = "none" => call[c.req].pc = "waiting"
    BY <2>2 DEF ResultsInv, SentPcs, GivenPcs
  <2>4. c.req \notin twin => call[c.req].slot = FindSendWorkRequest(c.id)
    BY <2>1, FindsOwn
  <2> QED
    BY <2>1, <2>3, <2>4
<1>3. CASE rcqThread'.cqe = None
  BY <1>3
<1>4. CASE CallNVMeCompletion
  BY <1>4 DEF CallNVMeCompletion, RcqReposts, RcqGoto
<1>5. CASE ReadParent
  <2>1. /\ rcqThread.pc = "called"
        /\ rcqThread' = [pc |-> "store", slot |-> rcqThread.slot,
                         parent |-> pvParentReqCtx[rcqThread.slot], cqe |-> rcqThread.cqe]
    BY <1>5 DEF ReadParent, RcqGoto
  <2>2. \A q \in Requests : call[q].pc = "waiting" => pvParentReqCtx[call[q].slot] = q
    BY DEF SlotsInv, OwnPcs, Owns
  <2> QED
    BY <2>1, <2>2
<1>6. CASE StoreAnswer
  BY <1>6 DEF StoreAnswer, RcqGoto
<1>7. CASE (\E c \in rcq : ReceiveDropped(c)) \/ SignalAnswer
  BY <1>3, <1>7 DEF ReceiveDropped, SignalAnswer, RcqReposts, RcqGoto
<1>8. CASE RepostReceive \/ CountReceive
  BY <1>3, <1>8 DEF RepostReceive, CountReceive, RcqGoto
<1>9. CASE UNCHANGED rcqThread
  BY <1>9
<1> QED
  BY <1>2, <1>4, <1>5, <1>6, <1>7, <1>8, <1>9
     DEF EnvStep, RcqCallback, ReceiveFlushed, AdapterSends, TargetAnswers, ConnectionLost

(* A thread touches the event of its own request only, resets it before it   *)
(* asks, and returns with success only when it is set (2374, 2406, 2419).    *)
LEMMA CallerAnswers ==
  ASSUME NEW r \in Requests, TypeOK, SlotsInv, Caller(r)
  PROVE  /\ \A q \in Requests \ {r} : Answered(q)' => Answered(q)
         /\ Answered(r)' => Answered(r) \/ r \in hit'
         /\ result'[r] = "success" => result[r] = "success" \/ Answered(r)
<1> SlotsOK /\ AnsweredOK /\ CallOK /\ RcqThreadOK
  BY TypeParts
<1> UNCHANGED rcqThread
  BY CallerRest, TypeParts
<1>0. \A q \in Requests \ {r} : call'[q] = call[q]
  BY CallerMoves
<1> USE <1>0, NumSlotsAssumption
    DEF SlotsOK, AnsweredOK, CallOK, Answered, Signalled, AskingPcs, IdlePcs, BusyPcs
<1>1. CASE GetAdminCommandID(r)
  BY <1>1 DEF GetAdminCommandID, NumberedAs
<1>2. CASE AsyncEventRequest(r)
  BY <1>2 DEF AsyncEventRequest, NumberedAs
<1>3. CASE \E s \in Slots : AllocateSendWorkRequest(r, s)
  <2> PICK s \in Slots : AllocateSendWorkRequest(r, s)
    BY <1>3
  <2>1. /\ sEvent' = [sEvent EXCEPT ![s] = FALSE] /\ lReqState[s] = "FREE"
        /\ call' = [call EXCEPT ![r].pc = "claimed", ![r].slot = s]
        /\ hit' = IF rcqThread.slot = s THEN hit \cup {r} ELSE hit
        /\ UNCHANGED <<Status, result>>
    BY DEF AllocateSendWorkRequest, FreeSlots
  <2>2. \A q \in Requests : call[q].pc \in AskingPcs => call[q].slot # s
    BY <2>1 DEF SlotsInv
  <2>3. call'[r].slot = s /\ ~sEvent'[s]
    BY <2>1
  <2>4. \A q \in Requests \ {r} : Answered(q)' => Answered(q)
    BY <2>1, <2>2
  <2>5. Answered(r)' => r \in hit'
    BY <2>1, <2>3
  <2> QED
    BY <2>1, <2>4, <2>5
<1>4. CASE NoFreeSendWorkRequest(r)
  BY <1>4 DEF NoFreeSendWorkRequest, Return
<1>5. CASE PrepareSendWorkRequest(r)
  BY <1>5 DEF PrepareSendWorkRequest, Goto
<1>6. CASE PrepareFails(r)
  BY <1>6 DEF PrepareFails, Goto
<1>7. CASE SubmitSendWorkRequest(r)
  BY <1>7 DEF SubmitSendWorkRequest, Goto
<1>8. CASE WaitEnds(r)
  BY <1>8 DEF WaitEnds, Goto
<1>9. CASE WaitTimesOut(r)
  BY <1>9 DEF WaitTimesOut, Goto
<1>10. CASE ReleaseClears(r)
  <2>1. /\ sEvent' = [sEvent EXCEPT ![call[r].slot] = FALSE]
        /\ Status' = [Status EXCEPT ![call[r].slot] = "success"]
        /\ call' = [call EXCEPT ![r].pc = "free"] /\ call[r].pc = "clear"
        /\ UNCHANGED result
    BY <1>10 DEF ReleaseClears, ClearFields, Goto
  <2>2. \A q \in Requests \ {r} : call[q].pc \in AskingPcs => call[q].slot # call[r].slot
    <3>1. call[r].slot \in Slots
      BY <2>1
    <3>2. call[r].slot # 0
      BY <3>1 DEF Slots
    <3> QED
      BY <3>2 DEF SlotsInv
  <2>3. \A q \in Requests \ {r} : Answered(q)' => Answered(q)
    BY <2>1, <2>2
  <2>4. call'[r].pc = "free"
    BY <2>1
  <2> QED
    BY <2>1, <2>3, <2>4
<1>11. CASE ReleaseFrees(r)
  BY <1>11 DEF ReleaseFrees, Return
<1> QED
  BY <1>1, <1>2, <1>3, <1>4, <1>5, <1>6, <1>7, <1>8, <1>9, <1>10, <1>11 DEF Caller

LEMMA CallerKeepsBuffers ==
  ASSUME NEW r \in Requests, TypeOK, SlotsInv, BuffersInv, Caller(r)
  PROVE  BuffersInv'
<1> SlotsOK /\ AnsweredOK /\ CallOK
  BY TypeParts
<1>1. UNCHANGED buffer
  BY CallerRest, TypeParts
<1>2. \A q \in Requests : call[q].pc # "new" => call'[q].pc # "new" /\ call'[q].id = call[q].id
  BY CallerMoves
<1>3. hit \subseteq hit' /\ twin \subseteq twin'
  BY CallerMoves
<1>4. ASSUME NEW p \in Requests \ hit', Answered(p)' \/ result'[p] = "success"
      PROVE  Good(buffer[p], p)
  <2>1. Answered(p) \/ result[p] = "success"
    BY <1>4, CallerAnswers, CallerMoves
  <2> QED
    BY <1>3, <2>1 DEF BuffersInv
<1> QED
  BY <1>1, <1>2, <1>3, <1>4 DEF BuffersInv, Good

(* The callback sets the event of the request whose caller has the answer.   *)
LEMMA EnvKeepsBuffers ==
  ASSUME TypeOK, SlotsInv, HeldInv, BuffersInv, EnvStep
  PROVE  BuffersInv'
<1> SlotsOK /\ AnsweredOK /\ CallOK /\ RcqThreadOK
  BY TypeParts
<1>1. UNCHANGED <<call, result, hit, twin>>
  BY EnvTypes, TypeParts
<1>2. CASE /\ \A p \in Requests : Answered(p)' => Answered(p)
           /\ UNCHANGED buffer
  BY <1>1, <1>2 DEF BuffersInv, Good
<1>3. CASE StoreAnswer
  <2> DEFINE s == rcqThread.slot
             x == rcqThread.parent
  <2>1. rcqThread.pc = "store" /\ s \in Slots /\ rcqThread'.slot = s
    BY <1>3 DEF StoreAnswer, RcqGoto, RcqThreadOK
  <2>2. UNCHANGED sEvent
    BY <1>3 DEF StoreAnswer
  <2>3. ASSUME NEW p \in Requests, call[p].slot # s, Answered(p)',
               \A t \in Slots : t # s => Status'[t] = Status[t]
        PROVE  Answered(p)
    BY <1>1, <2>1, <2>2, <2>3 DEF Answered, Signalled, CallOK, AskingPcs, IdlePcs, BusyPcs
  <2>4. CASE /\ buffer' = [r \in Requests |-> IF r = x THEN rcqThread.cqe ELSE buffer[r]]
             /\ Status' = [Status EXCEPT ![s] = "success"]
    <3>1. \A t \in Slots : t # s => Status'[t] = Status[t]
      BY <2>4 DEF AnsweredOK
    <3>2. ASSUME NEW p \in Requests \ hit, Answered(p)' \/ result[p] = "success"
          PROVE  Good(buffer'[p], p)
      <4>1. CASE p = x
        BY <2>1, <2>4, <4>1 DEF HeldInv
      <4>2. CASE p # x
        <5>1. call[p].slot = s => ~Answered(p)'
          BY <1>1, <2>1, <4>2 DEF HeldInv, Answered
        <5>2. Answered(p) \/ result[p] = "success"
          BY <2>3, <3>1, <3>2, <5>1
        <5> QED
          BY <2>4, <4>2, <5>2 DEF BuffersInv
      <4> QED
        BY <4>1, <4>2
    <3> QED
      BY <1>1, <3>2 DEF BuffersInv, Good
  <2>5. CASE Status' = [Status EXCEPT ![s] = "error"] /\ UNCHANGED buffer
    <3>1. Status'[s] = "error" /\ \A t \in Slots : t # s => Status'[t] = Status[t]
      BY <2>1, <2>5 DEF AnsweredOK
    <3>2. \A p \in Requests : Answered(p)' => Answered(p)
      BY <1>1, <2>3, <3>1 DEF Answered
    <3> QED
      BY <1>2, <2>5, <3>2
  <2> QED
    BY <1>3, <2>4, <2>5 DEF StoreAnswer
<1>4. CASE SignalAnswer
  <2>1. /\ rcqThread.pc = "signal" /\ rcqThread'.pc = "repost"
        /\ sEvent' = [sEvent EXCEPT ![rcqThread.slot] = TRUE]
        /\ UNCHANGED <<Status, buffer>>
    BY <1>4 DEF SignalAnswer, RcqReposts, RcqGoto
  <2>2. \A p \in Requests : Answered(p)' => Answered(p)
    BY <1>1, <2>1 DEF Answered, Signalled, AnsweredOK, CallOK, AskingPcs, IdlePcs, BusyPcs
  <2> QED
    BY <1>2, <2>1, <2>2
<1>5. CASE /\ rcqThread'.pc # "signal" \/ rcqThread' = rcqThread
           /\ UNCHANGED <<sEvent, Status, buffer>>
  <2>1. \A p \in Requests : Answered(p)' => Answered(p)
    BY <1>1, <1>5 DEF Answered, Signalled
  <2> QED
    BY <1>2, <1>5, <2>1
<1>6. CASE \E c \in rcq : ReceiveAnswer(c) \/ ReceiveDropped(c)
  BY <1>5, <1>6 DEF ReceiveAnswer, ReceiveDropped, RcqReposts, RcqGoto
<1>7. CASE CallNVMeCompletion \/ ReadParent
  BY <1>5, <1>7 DEF CallNVMeCompletion, ReadParent, RcqReposts, RcqGoto
<1>8. CASE RepostReceive \/ CountReceive \/ ReceiveFlushed
  BY <1>5, <1>8 DEF RepostReceive, CountReceive, ReceiveFlushed, RcqGoto
<1>9. CASE \/ \E c \in sendQ : AdapterSends(c)
           \/ \E c \in target : TargetAnswers(c)
           \/ ConnectionLost
  BY <1>5, <1>9 DEF AdapterSends, TargetAnswers, ConnectionLost
<1> QED
  BY <1>3, <1>4, <1>6, <1>7, <1>8, <1>9 DEF EnvStep, RcqCallback

-----------------------------------------------------------------------------
(* The invariants.                                                           *)

LEMMA InitIInv == Init => IInv
<1> SUFFICES ASSUME Init
             PROVE  IInv
  OBVIOUS
<1> USE DEF Init
<1>1. TypeOK
  <2>1. NoCmdId \in CmdIds
    BY AdminIdsAssumption DEF NoCmdId, CmdIds
  <2> QED
    BY <2>1, CountsAssumption DEF TypeOK, IdlePcs, Message
<1>2. SlotsInv /\ ResultsInv
  BY DEF SlotsInv, BusyPcs, OwnPcs, ResultsInv, GivenPcs
<1>3. IdsInv /\ WireInv
  BY FS_EmptySet DEF IdsInv, WireInv, Wire
<1>4. ReceivesBalance
  BY FS_EmptySet, CountsAssumption DEF ReceivesBalance
<1> QED
  BY <1>1, <1>2, <1>3, <1>4 DEF IInv

LEMMA StutterIInv ==
  ASSUME IInv, UNCHANGED vars
  PROVE  IInv'
  BY DEF vars, IInv, TypeOK, SlotsInv, IdsInv, WireInv, Wire, ResultsInv, Owns, Unused,
         ReceivesBalance

LEMMA NextIInv ==
  ASSUME IInv, Next
  PROVE  IInv'
<1> USE DEF IInv
<1>1. TypeOK'
  BY KeepsTypes
<1>2. ASSUME NEW r \in Requests, Caller(r)
      PROVE  IInv'
  <2>1. SlotsInv' /\ IdsInv' /\ WireInv' /\ ResultsInv'
    BY <1>2, TypeParts, CallerKeepsSlots, CallerKeepsIds, CallerKeepsWire, CallerKeepsResults
  <2>2. ReceivesBalance'
    BY <1>2, TypeParts, CallerRest DEF ReceivesBalance
  <2> QED
    BY <1>1, <2>1, <2>2
<1>3. CASE EnvStep
  <2>1. UNCHANGED <<lReqState, usCommandID, pvParentReqCtx, fNVMeReqCompletion, psBufferMdl, call,
                     result>>
    BY <1>3, TypeParts, EnvTypes
  <2>2. SlotsInv' /\ IdsInv' /\ ResultsInv'
    BY <2>1 DEF SlotsInv, IdsInv, ResultsInv, Owns, Unused
  <2> QED
    BY <1>1, <1>3, <2>2, EnvKeepsWire, EnvKeepsBalance
<1>4. CASE Finished
  <2>1. UNCHANGED vars
    BY <1>4 DEF Finished
  <2> QED
    BY <2>1, StutterIInv
<1> QED
  BY <1>2, <1>3, <1>4 DEF Next, EnvStep

LEMMA IInvInvariant == Spec => []IInv
<1>1. IInv /\ [Next]_vars => IInv'
  BY NextIInv, StutterIInv
<1> QED
  BY <1>1, InitIInv, PTL DEF Spec

LEMMA InitAnswersInv == Init => AnswersInv
  BY RequestsAssumption
     DEF Init, AnswersInv, NumbersInv, HeldInv, WaiterInv, BuffersInv, About, InFlight, Answered,
         AskingPcs, IdlePcs

LEMMA NextAnswersInv ==
  ASSUME IInv, AnswersInv, Next
  PROVE  AnswersInv'
<1> USE DEF IInv, AnswersInv
<1>1. ASSUME NEW r \in Requests, Caller(r)
      PROVE  AnswersInv'
  BY <1>1, CallerKeepsNumbers, CallerKeepsHeld, CallerKeepsWaiter, CallerKeepsBuffers
<1>2. CASE EnvStep
  BY <1>2, EnvKeepsNumbers, EnvKeepsHeld, EnvKeepsWaiter, EnvKeepsBuffers
<1>3. CASE Finished
  BY <1>3
     DEF Finished, vars, NumbersInv, HeldInv, WaiterInv, BuffersInv, About, InFlight, Good, Answered,
         Signalled
<1> QED
  BY <1>1, <1>2, <1>3 DEF Next, EnvStep

LEMMA AnswersInvInvariant == Spec => []AnswersInv
<1>1. IInv /\ AnswersInv /\ [Next]_vars => AnswersInv'
  <2> SUFFICES ASSUME AnswersInv, UNCHANGED vars
               PROVE  AnswersInv'
    BY NextAnswersInv
  <2> QED
    BY DEF vars, AnswersInv, NumbersInv, HeldInv, WaiterInv, BuffersInv, About, InFlight, Good,
           Answered, Signalled
<1> QED
  BY <1>1, InitAnswersInv, IInvInvariant, PTL DEF Spec

-----------------------------------------------------------------------------
(* Every variable keeps its type, whatever goes wrong: the scan always       *)
(* yields a request, and an answer without a waiter a parent that is None.   *)
THEOREM TypeCorrect == Spec => []TypeOK
<1>1. IInv => TypeOK
  BY DEF IInv
<1> QED
  BY <1>1, IInvInvariant, PTL

(* The count of outstanding receives is that of the receives not reaped,     *)
(* less the one that is posted again and not counted yet, whatever goes      *)
(* wrong (nvmefrdma.c 334-350, 1995).                                        *)
THEOREM ReceivesBalanceCorrect == Spec => []ReceivesBalance
<1>1. IInv => ReceivesBalance
  BY DEF IInv
<1> QED
  BY <1>1, IInvInvariant, PTL

(* The callback stores the answer to a command that has not given up in that *)
(* command's buffer, and signals the request it waits on, though timeouts    *)
(* race answers and numbers repeat (nvmefrdma.c 138-240, 2325-2334).         *)
THEOREM AnswerFindsWaiterCorrect == Spec => []AnswerFindsWaiter
<1>1. IInv /\ AnswersInv => AnswerFindsWaiter
  <2> SUFFICES ASSUME IInv, AnswersInv, rcqThread.pc \in {"store", "signal"}
               PROVE  AnswerFindsWaiter
    BY DEF AnswerFindsWaiter
  <2>1. rcqThread.cqe \in Requests
    BY TypeParts DEF IInv, RcqThreadOK
  <2> QED
    BY <2>1 DEF AnswersInv, WaiterInv, AnswerFindsWaiter
<1> QED
  BY <1>1, IInvInvariant, AnswersInvInvariant, PTL

(* A caller that returns with success has an answer to its own number, and   *)
(* to its own command unless another one shared the number; the exception    *)
(* claimed a request that the callback had in hand (2419, 2438, 2553-2556).  *)
THEOREM AnswerIsOwnCorrect == Spec => []AnswerIsOwn
<1>1. AnswersInv => AnswerIsOwn
  BY RequestsAssumption DEF AnswersInv, BuffersInv, Good, AnswerIsOwn
<1> QED
  BY <1>1, AnswersInvInvariant, PTL

(* A request that can be claimed is nobody's and has nothing of its last     *)
(* command in it that an answer could find (nvmefrdma.c 2264-2299).          *)
THEOREM FreeRequestIsCleanCorrect == Spec => []FreeRequestIsClean
<1>1. IInv => FreeRequestIsClean
  <2> SUFFICES ASSUME IInv
               PROVE  FreeRequestIsClean
    OBVIOUS
  <2> CallOK
    BY TypeParts DEF IInv
  <2>1. ASSUME NEW s \in FreeSlots, NEW r \in Requests
        PROVE  call[r].slot # s
    BY <2>1, NumSlotsAssumption
       DEF IInv, SlotsInv, FreeSlots, CallOK, Slots, IdlePcs
  <2>2. ASSUME NEW s \in FreeSlots
        PROVE  Unused(s) /\ s \in Slots
    BY <2>1, <2>2 DEF Unused, FreeSlots
  <2> QED
    BY <2>1, <2>2 DEF IInv, SlotsInv, FreeRequestIsClean
<1> QED
  BY <1>1, IInvInvariant, PTL
===============================================================================

----------------------- MODULE ControllerSession_proofs -----------------------
(***************************************************************************)
(* What ControllerSession keeps, for any controllers and threads, however  *)
(* many of their steps fail.                                               *)
(*                                                                         *)
(* Its six invariants are kept together, as parts of one that tells what a *)
(* controller has at each step of the thread that sets it up (ConnectOf,   *)
(* QueuesOf) and of the one that tears it down (TeardownOf), that the      *)
(* second is alone (ThreadsInv) and the only one to free it (MemoryInv),   *)
(* that the list holds those set up and not freed (ListInv), and that what *)
(* is missing has failed or was released (FailuresInv).                    *)
(***************************************************************************)
EXTENDS ControllerSession, FiniteSetTheorems, SequenceTheorems, TLAPS

-----------------------------------------------------------------------------
(* Linked in sRdmaControllerHead.                                           *)
Listed(c) == \E i \in DOMAIN sRdmaControllerHead : sRdmaControllerHead[i] = c

(* Where the thread that connects a controller may be, and a requester.     *)
OwnerPcs == {"start", "failed", "connected", "running", "end"}
              \cup ConnectPcs \cup IoPcs \cup (TeardownPcs \ {"nvmeofDisconnect"})
RequesterPcs == {"idle", "ask", "end"} \cup TeardownPcs

(* A requester asks about a controller that runs, and who tears one down    *)
(* marked its admin queue, or is the thread that connected it.              *)
ThreadsInv ==
  /\ \A c \in Controllers : on[c] = c /\ pc[c] \in OwnerPcs
  /\ \A r \in Requesters :
       /\ pc[r] \in RequesterPcs
       /\ pc[r] \in {"ask"} \cup TeardownPcs => pc[on[r]] = "running"
       /\ pc[r] \in TeardownPcs => 0 \in lBusy[on[r]]
  /\ GateAdmitsOne

(* A controller is freed at the end of its teardown, which by then is       *)
(* either of its own thread or of the requester that marked its admin       *)
(* queue.                                                                   *)
MemoryOf(c) ==
  /\ memory[c] = "none" => pc[c] \in {"start", "end"}
  /\ pc[c] = "start" => memory[c] = "none"
  /\ memory[c] = "freed" => pc[c] = "end" \/ (pc[c] = "running" /\ 0 \in lBusy[c])
  /\ InCommand(c) => pc[c] \in {"connected", "running"}

(* And what is torn down is there.                                          *)
MemoryInv ==
  /\ \A c \in Controllers : MemoryOf(c)
  /\ \A t \in Threads : pc[t] \in TeardownPcs => memory[on[t]] = "live"

(* The list holds a controller once, from its set-up until it is freed.     *)
ListInv ==
  /\ sRdmaControllerHead \in Seq(Controllers)
  /\ \A i, j \in DOMAIN sRdmaControllerHead :
       sRdmaControllerHead[i] = sRdmaControllerHead[j] => i = j
  /\ \A c \in Controllers : Listed(c) <=> pc[c] = "running" /\ memory[c] = "live"

(* The steps of the teardown that come after another.                       *)
AfterDestroy == {"freeController"}
AfterFreeLists == {"destroySocket"} \cup AfterDestroy
AfterFreeRecv == {"freeLists"} \cup AfterFreeLists
AfterFreeSub == {"freeRecv"} \cup AfterFreeRecv
AfterDrain == {"freeSub"} \cup AfterFreeSub
AfterClose == {"drain"} \cup AfterDrain
AfterFlush == {"closeQueues"} \cup AfterClose

(* Nothing of the admin queue but the queue pair.                           *)
Clean(c) ==
  sub[c] = "none" /\ recv[c] = "none" /\ lReceiveWorkRequestOutstanding[c] = 0
  /\ posted[c] = 0 /\ rcq[c] = 0

(* What the set-up of the admin queue has brought about, the receives among *)
(* it that are counted and not yet given back.                              *)
ConnectOf(c) ==
  /\ pc[c] \in {"start", "socket", "connectQp"} => psNdkQp[c] = "null"
  /\ psNdkQp[c] = "null" => Clean(c)
  /\ pc[c] \in {"lookaside", "submission", "receive", "post"} =>
       /\ psNdkQp[c] = "open" /\ ulSockState[c] = "Connected"
       /\ lReceiveWorkRequestOutstanding[c] = 0 /\ posted[c] = 0 /\ rcq[c] = 0
  /\ lReceiveWorkRequestOutstanding[c] >= posted[c] + rcq[c]
  /\ posted[c] + rcq[c] > 0 => recv[c] = "whole" /\ psNdkQp[c] = "open"
  /\ psNdkQp[c] = "open" /\ ulSockState[c] # "Connected" => Clean(c)
  /\ memory[c] = "freed" =>
       /\ Clean(c)
       /\ pvSessionFabricCtx[c] = "live" => psNdkQp[c] = "null"
       /\ psNdkQp[c] = "open" => ulSockState[c] # "Connected"

(* What the teardown has taken away.                                        *)
TeardownOf(t) ==
  LET c == on[t] IN
  /\ pc[t] \in AfterFlush => posted[c] = 0
  /\ pc[t] \in AfterClose => rcq[c] = 0 /\ (psNdkQp[c] = "open" => ulSockState[c] # "Connected")
  /\ pc[t] \in AfterDrain => lReceiveWorkRequestOutstanding[c] = 0
  /\ pc[t] \in AfterFreeSub => sub[c] = "none"
  /\ pc[t] \in AfterFreeRecv => recv[c] = "none"
  /\ pc[t] \in AfterFreeLists => c \in released \/ psNdkQp[c] = "null"
  /\ pc[t] \in AfterDestroy => pvSessionFabricCtx[c] = "dangling" \/ psNdkQp[c] = "null"

(* Both, of every controller and every thread.                              *)
StageInv ==
  /\ \A c \in Controllers : ConnectOf(c)
  /\ \A t \in Threads : TeardownOf(t)

(* The queue is counted down by the step that destroys the socket.          *)
CountInv ==
  \A c \in Controllers : lAdminQueueCount[c] # 0 =>
    memory[c] = "freed" \/ \E t \in Threads : on[t] = c /\ pc[t] \in AfterDestroy

(* The lists are released by a teardown that then frees the controller.     *)
ReleasedInv ==
  \A c \in released :
    memory[c] = "freed" \/ \E t \in Threads : on[t] = c /\ pc[t] \in AfterFreeLists

(* While there are lists a controller is there that will release them.      *)
HolderInv ==
  lookaside # "none" =>
    \E c \in Controllers : memory[c] = "live" /\ psNdkQp[c] # "null" /\ c \notin released

(* The I/O queues are connected in the order of their numbers, and the      *)
(* array is there until a teardown, which marks the admin queue, releases   *)
(* it.                                                                      *)
QueuesOf(c) ==
  /\ pc[c] \in ConnectPcs \cup {"start", "connected", "nodeQueues"} => ioConnected[c] = {}
  /\ pc[c] = "createIOQ" => \E k \in 0 .. NumIOQueues - 1 : ioConnected[c] = 1 .. k
  /\ pc[c] = "ioRequests" => \E k \in 1 .. NumIOQueues : ioConnected[c] = 1 .. k
  /\ pc[c] \in {"createIOQ", "ioRequests", "setUpIOQ"} => psNumaSQPair[c] # "none"
  /\ pc[c] = "running" => psNumaSQPair[c] # "none" \/ 0 \in lBusy[c]

(* The array is there where the teardown works on it.                       *)
QueuesInv ==
  /\ \A c \in Controllers : QueuesOf(c)
  /\ \A t \in Threads : pc[t] \in {"nvmeofDisconnect", "disconnectIOQ", "releaseIOQ"} =>
       psNumaSQPair[on[t]] # "none"

(* Some list could not be allocated.                                        *)
ListFailed == \E c \in Controllers : <<c, "firstList">> \in failed \/ <<c, "list">> \in failed

(* The controller has, or will want, objects of the lists.                  *)
UsesLists(c) ==
  \/ sub[c] = "whole" \/ recv[c] = "whole"
  \/ pc[c] \in {"submission", "receive", "post", "connected", "running"} \cup IoPcs

(* What is not whole has a failure to show for it, or a release by another  *)
(* controller, or its own teardown has come that far.                       *)
FailuresOf(c) ==
  /\ UsesLists(c) => lookaside = "whole" \/ ListFailed \/ released # {}
  /\ sub[c] = "dangling" => <<c, "submission">> \in failed
  /\ recv[c] = "dangling" => <<c, "receive">> \in failed
  /\ pc[c] \in {"receive", "post", "connected", "running"} \cup IoPcs =>
       \/ sub[c] = "whole" \/ ListFailed
       \/ <<c, "submission">> \in failed \/ <<c, "submissionLoop">> \in failed
       \/ memory[c] = "freed" \/ \E t \in Threads : on[t] = c /\ pc[t] \in AfterFreeSub
  /\ pc[c] = "post" /\ lReceiveWorkRequestCount[c] > 0 =>
       recv[c] = "whole" \/ <<c, "receive">> \in failed \/ <<c, "receiveLoop">> \in failed
  /\ pc[c] \in {"start", "socket", "connectQp", "lookaside", "submission", "receive"} =>
       lReceiveWorkRequestCount[c] = 0

(* And lists that are not there have it from one that failed.               *)
FailuresInv ==
  /\ lookaside \in {"holed", "dangling"} => ListFailed
  /\ \A c \in Controllers : FailuresOf(c)

(* What the turns of WaitForControllerReady read is busy until one ends the *)
(* wait, and enabled is of an answer that said ready.                       *)
StatusInv ==
  \A c \in Controllers :
    ulControllerStatus[c] = "busy" /\ (enabled[c] => lastRead[c] = "ready")
USE DEF socketVars, bufferVars, receiveVars, resourceVars, commandVars, ioVars, listVars,
        gateVars, sessionVars
USE DEF Goto, Succeeds, ConnectPcs, IoPcs, TeardownPcs, InCommand
USE DEF AfterDestroy, AfterFreeLists, AfterFreeRecv, AfterFreeSub, AfterDrain, AfterClose,
        AfterFlush

(* What a command may change: commandVars, and a command starts nowhere but *)
(* where the controller is set up.                                          *)
CommandStep(c) ==
  /\ UNCHANGED <<pc, on, failed, misuse, resourceVars, listVars, ioVars, gateVars>>
  /\ \A d \in Controllers :
       command'[d] # "none" => command[d] # "none" \/ pc[d] \in {"connected", "running"}

(* The types of commandVars, apart from the rest of TypeOK.                 *)
CommandTypes ==
  /\ command \in [Controllers -> Commands \cup {"none"}]
  /\ waiting \in [Controllers -> BOOLEAN]
  /\ polls \in [Controllers -> 0 .. 3]
  /\ ulControllerStatus \in [Controllers -> Register]
  /\ lastRead \in [Controllers -> Register]
  /\ enabled \in [Controllers -> BOOLEAN]
  /\ groups \in [Controllers -> {"few", "many"}]
  /\ psNVMeoFNSANALogPage \in [Controllers -> {"none", "few", "many"}]

(* A call, a request or an answer is a step of a command;                   *)
(* WaitForControllerReady starts each turn with "busy", so that only an     *)
(* answer that said ready ends it.                                          *)
LEMMA CommandsKeep ==
  ASSUME CommandTypes, StatusInv,
         NEW c \in Controllers, Caller(c) \/ SubmitRequest(c) \/ Answered(c)
  PROVE  CommandStep(c) /\ CommandTypes' /\ StatusInv'
<1> USE DEF CommandTypes, StatusInv, CommandStep, NothingElse, Commands, Register
<1>1. ASSUME NEW at, NEW op \in Commands, at \subseteq {"connected", "running"},
             Call(c, at, op), polls' = polls \/ polls' = [polls EXCEPT ![c] = 3]
      PROVE  CommandStep(c) /\ CommandTypes' /\ StatusInv'
  <2>1. CommandStep(c)
    BY <1>1 DEF Call
  <2>2. polls' \in [Controllers -> 0 .. 3]
    BY <1>1
  <2>3. enabled' = [enabled EXCEPT ![c] = FALSE] /\ command' = [command EXCEPT ![c] = op]
        /\ UNCHANGED <<waiting, ulControllerStatus, lastRead, groups, psNVMeoFNSANALogPage>>
    BY <1>1 DEF Call
  <2> QED
    BY <2>1, <2>2, <2>3
<1>2. CASE Caller(c)
  BY <1>1, <1>2 DEF Caller, SetupAdminConnection, IdentifyController, IdentifyGetActiveNSList,
     IdentifyNamespace, SetFeatures, GetANADescriptorLogPage, GetDiscoveryLogPage,
     AsyncIssueKeepAlive, EnableController, CallInSetUp
<1>3. CASE SubmitRequest(c)
  BY <1>3 DEF SubmitRequest
<1>4. CASE PlainAnswered(c) \/ WriteAnswered(c)
  BY <1>4, ZenonT(30) DEF PlainAnswered, WriteAnswered, Then
<1>5. ASSUME NEW answer \in Answers, RegisterAnswered(c, answer)
      PROVE  CommandStep(c) /\ CommandTypes' /\ StatusInv'
  BY <1>5, ZenonT(30) DEF RegisterAnswered, Then
<1>6. ASSUME NEW answer \in Answers, NEW data \in {"few", "many"},
             IdentifyAnswered(c, answer, data)
      PROVE  CommandStep(c) /\ CommandTypes' /\ StatusInv'
  BY <1>6 DEF IdentifyAnswered, Then
<1>7. ASSUME NEW answer \in Answers, AnaPageAnswered(c, answer)
      PROVE  CommandStep(c) /\ CommandTypes' /\ StatusInv'
  BY <1>7 DEF AnaPageAnswered, Then, Overflows
<1>8. ASSUME NEW answer \in Answers, NEW value \in Register, StatusRead(c, answer, value)
      PROVE  CommandStep(c) /\ CommandTypes' /\ StatusInv'
  <2> DEFINE status == Read32(ulControllerStatus[c], answer, value)
             success == Turn(c, answer, status)
             again == answer # "none" /\ ~success /\ polls[c] > 1
  <2>1. /\ waiting' = [waiting EXCEPT ![c] = FALSE]
        /\ command' = [command EXCEPT ![c] = IF again THEN "readCSTS" ELSE "none"]
        /\ polls' = [polls EXCEPT ![c] = IF again THEN @ - 1 ELSE 0]
        /\ ulControllerStatus' =
             [ulControllerStatus EXCEPT ![c] = IF again THEN status ELSE "busy"]
        /\ enabled' = [enabled EXCEPT ![c] = success]
        /\ lastRead' = [lastRead EXCEPT ![c] = IF answer = "none" THEN @ ELSE value]
        /\ UNCHANGED <<groups, psNVMeoFNSANALogPage>>
        /\ NothingElse /\ command[c] = "readCSTS"
    BY <1>8 DEF StatusRead, Then
  <2>2. /\ status \in Register /\ success \in BOOLEAN /\ again \in BOOLEAN
        /\ again => status = "busy" /\ polls[c] > 1
        /\ success => value = "ready" /\ answer # "none"
    BY DEF Read32, Turn
  <2> HIDE DEF status, success, again
  <2>3. CommandStep(c)
    BY <2>1
  <2>4. polls' \in [Controllers -> 0 .. 3]
    BY <2>1, <2>2
  <2>5. StatusInv'
    BY <2>1, <2>2
  <2> QED
    BY <2>1, <2>2, <2>3, <2>4, <2>5
<1> QED
  BY <1>2, <1>3, <1>4, <1>5, <1>6, <1>7, <1>8 DEF Answered

-----------------------------------------------------------------------------
(* A step that changes nothing but misuse and failed.                       *)
Quiet == UNCHANGED <<use, pc, on, resourceVars, sessionVars>> /\ failed \subseteq failed'

(* The steps of the thread that connects a controller.                      *)
Connects(c) ==
  \/ Fits(c) /\ ConnectAdminQueue(c) /\ UNCHANGED sessionVars
  \/ ConnectIOQueues(c)
  \/ GiveUp(c)

(* The steps of the thread of a controller.                                 *)
Owns(c) ==
  \/ Fits(c) /\ AllocateAndInitializeController(c)
  \/ Connects(c)
  \/ CommandStep(c)

(* The steps there are, as the lemmas on the invariants take them.          *)
LEMMA NextCases ==
  ASSUME CommandTypes, StatusInv, ListInv, [Next]_vars
  PROVE  \/ Quiet
         \/ \E c \in Controllers : Owns(c)
         \/ \E r \in Requesters : Fits(r) /\ QueuesBusy(r)
         \/ \E r \in Requesters, i \in DOMAIN sRdmaControllerHead :
              Finds(r, sRdmaControllerHead[i])
         \/ \E t \in Threads : Fits(t) /\ Teardown(t)
         \/ \E c \in Controllers : Receives(c)
<1>1. CASE UNCHANGED vars
  BY <1>1 DEF vars, Quiet
<1>2. ASSUME NEW c \in Controllers, Owner(c), UNCHANGED use PROVE Quiet \/ Owns(c)
  <2>1. CASE Caller(c) \/ SubmitRequest(c) \/ Answered(c)
    BY <2>1, CommandsKeep DEF Owns
  <2>2. CASE FreesUnsetPointers(c) /\ UNCHANGED sessionVars
    BY <1>2, <2>2 DEF Owner, FreesUnsetPointers, Quiet
  <2>3. CASE AnaPageOverflows(c)
    BY <1>2, <2>3 DEF AnaPageOverflows, Quiet
  <2> QED
    BY <1>2, <2>1, <2>2, <2>3 DEF Owner, Owns, Connects
<1>3. ASSUME NEW t \in Threads, Stops(t), UNCHANGED use PROVE Quiet
  BY <1>3 DEF Stops, Quiet
<1>4. CASE Next
  BY <1>2, <1>3, <1>4 DEF ListInv, Next, Requester, TornDown, FindControllerByNQN,
     FindControllerByNQNAndTargetIP
<1> QED
  BY <1>1, <1>4

(* A set-up moves its own thread, and inserts the controller at its end.    *)
LEMMA ConnectMoves ==
  ASSUME TypeOK, NEW c \in Controllers, Connects(c)
  PROVE  /\ UNCHANGED <<on, lBusy, memory>>
         /\ pc[c] \in ConnectPcs \cup IoPcs \cup {"connected", "failed"}
         /\ pc[c] = "connected" => ~InCommand(c)
         /\ command' = command
         /\ \A u \in Threads \ {c} : pc'[u] = pc[u]
         /\ pc'[c] \in OwnerPcs \ {"start", "end"}
         /\ sRdmaControllerHead' =
              IF pc'[c] = "running" THEN Append(sRdmaControllerHead, c) ELSE sRdmaControllerHead
<1>1. CASE ConnectAdminQueue(c) /\ UNCHANGED sessionVars
  BY <1>1 DEF ConnectAdminQueue, CreateAsyncSocket, AdminXportConnect, AllocateLookasideLists,
     AllocateSubmissionResources, AllocateReceiveResources, AdminSubmitReceiveRequests,
     TypeOK, OwnerPcs, Threads
<1>2. CASE ConnectIOQueues(c) \/ GiveUp(c)
  BY <1>2 DEF ConnectIOQueues, ConnectControllerIOQueues, AllocateNodeQueues, CreateIOQ,
     AllocateAndInitializeRdmaIoReq, SetupNvmeofIOQueues, IoKeeps, GiveUp,
     IOQDisconnectAndReleaseResources, TypeOK, OwnerPcs, Threads
<1> QED
  BY <1>1, <1>2 DEF Connects

(* A teardown moves its own thread, and ends with the controller freed.     *)
LEMMA TeardownMoves ==
  ASSUME TypeOK, NEW t \in Threads, Teardown(t)
  PROVE  /\ UNCHANGED <<on, lBusy, command, failed>>
         /\ pc[t] \in TeardownPcs /\ pc'[t] # "nvmeofDisconnect"
         /\ \A u \in Threads \ {t} : pc'[u] = pc[u]
         /\ \/ FreeController(t)
            \/ pc'[t] \in TeardownPcs /\ UNCHANGED listVars
<1>1. CASE DisconnectController(t) /\ UNCHANGED sessionVars
  BY <1>1 DEF DisconnectController, DisconnectQp, AfterTest, CloseQueues, Drain,
     FreeSubmissionResources, FreeReceiveResources, FreeLookasideLists, DestroySocket,
     TeardownKeeps, TypeOK, Threads
<1>2. CASE FreeController(t)
  BY <1>2 DEF FreeController, TypeOK, Threads
<1>3. CASE NvmeofDisconnect(t) \/ DisconnectControllerIOQueues(t) \/ ReleaseIOQResources(t)
  BY <1>3 DEF NvmeofDisconnect, DisconnectControllerIOQueues, ReleaseIOQResources, IoKeeps,
     TypeOK, Threads
<1> QED
  BY <1>1, <1>2, <1>3 DEF Teardown

(* A requester marks a queue, and passes when the last was free.            *)
LEMMA QueuesBusyMoves ==
  ASSUME TypeOK, NEW r \in Requesters, QueuesBusy(r)
  PROVE  /\ UNCHANGED <<on, memory, command>> /\ pc[r] = "ask"
         /\ \A u \in Threads \ {r} : pc'[u] = pc[u]
         /\ pc'[r] \in {"end", "ask", "nvmeofDisconnect"}
         /\ \A c \in Controllers : lBusy[c] \subseteq lBusy'[c]
         /\ pc'[r] = "nvmeofDisconnect" => 0 \in lBusy'[on[r]] /\ 0 \notin lBusy[on[r]]
<1>1. on[r] \in Controllers
  BY DEF TypeOK, ResourceTypeOK, Threads
<1> QED
  BY <1>1 DEF QueuesBusy, TypeOK, Threads

(* A requester finds a controller that runs.                                *)
LEMMA FindsMoves ==
  ASSUME TypeOK, ListInv, NEW r \in Requesters, NEW i \in DOMAIN sRdmaControllerHead,
         Finds(r, sRdmaControllerHead[i])
  PROVE  \E c \in Controllers :
           /\ pc[r] = "idle" /\ pc[c] = "running"
           /\ UNCHANGED <<failed, resourceVars, sessionVars>>
           /\ \A u \in Threads : /\ pc'[u] = IF u = r THEN "ask" ELSE pc[u]
                                 /\ on'[u] = IF u = r THEN c ELSE on[u]
<1>1. PICK c \in Controllers : c = sRdmaControllerHead[i] /\ pc[c] = "running"
  BY DEF ListInv, Listed
<1> QED
  BY <1>1 DEF Finds, TypeOK, ResourceTypeOK, Threads

-----------------------------------------------------------------------------
(* Who works on what.                                                       *)
LEMMA OneTeardown ==
  ASSUME TypeOK, ThreadsInv,
         NEW t \in Threads, NEW u \in Threads, on[t] = on[u],
         pc[t] \in TeardownPcs, pc[u] \in TeardownPcs
  PROVE  t = u
BY DEF ThreadsInv, GateAdmitsOne, Threads

(* A thread is where its steps take it, and one at most tears down.         *)
LEMMA ThreadsStep ==
  ASSUME TypeOK, ThreadsInv, ListInv, CommandTypes, StatusInv, [Next]_vars
  PROVE  ThreadsInv'
<1>0. \A t \in Threads : on[t] \in Controllers
  BY DEF TypeOK, ResourceTypeOK
<1>1. CASE Quiet
  BY <1>1 DEF Quiet, ThreadsInv, GateAdmitsOne
<1>2. ASSUME NEW c \in Controllers, Owns(c) PROVE ThreadsInv'
  <2>1. CASE Fits(c) /\ AllocateAndInitializeController(c)
    <3>1. /\ UNCHANGED <<on, lBusy>> /\ pc[c] = "start" /\ pc'[c] \in {"socket", "end"}
          /\ \A u \in Threads \ {c} : pc'[u] = pc[u]
      BY <2>1 DEF AllocateAndInitializeController, TypeOK, Threads
    <3> QED
      BY <1>0, <3>1, ThreadsAssumption DEF ThreadsInv, GateAdmitsOne, Threads, OwnerPcs
  <2>2. CASE Connects(c)
    BY <1>0, <2>2, ConnectMoves, ThreadsAssumption DEF ThreadsInv, GateAdmitsOne, Threads
  <2>3. CASE CommandStep(c)
    BY <2>3 DEF CommandStep, ThreadsInv, GateAdmitsOne
  <2> QED
    BY <1>2, <2>1, <2>2, <2>3 DEF Owns
<1>3. ASSUME NEW r \in Requesters, Fits(r), QueuesBusy(r) PROVE ThreadsInv'
  <2>1. GateAdmitsOne'
    BY <1>0, <1>3, QueuesBusyMoves DEF ThreadsInv, GateAdmitsOne, Threads
  <2> QED
    BY <1>0, <1>3, <2>1, QueuesBusyMoves, ThreadsAssumption
       DEF ThreadsInv, Threads, RequesterPcs
<1>4. ASSUME NEW r \in Requesters, NEW i \in DOMAIN sRdmaControllerHead,
             Finds(r, sRdmaControllerHead[i])
      PROVE  ThreadsInv'
  <2>1. GateAdmitsOne'
    BY <1>0, <1>4, FindsMoves DEF ThreadsInv, GateAdmitsOne, Threads
  <2> QED
    BY <1>0, <1>4, <2>1, FindsMoves, ThreadsAssumption DEF ThreadsInv, Threads, RequesterPcs
<1>5. ASSUME NEW t \in Threads, Fits(t), Teardown(t) PROVE ThreadsInv'
  <2>1. pc'[t] \in TeardownPcs \cup {"end"}
    BY <1>5, TeardownMoves DEF FreeController, TypeOK
  <2> QED
    BY <1>0, <1>5, <2>1, TeardownMoves, ThreadsAssumption
       DEF ThreadsInv, GateAdmitsOne, Threads, OwnerPcs, RequesterPcs
<1>6. ASSUME NEW c \in Controllers, Receives(c) PROVE ThreadsInv'
  BY <1>6 DEF Receives, ConnectionLost, AdminRcqCallback, ThreadsInv, GateAdmitsOne
<1> QED
  BY <1>1, <1>2, <1>3, <1>4, <1>5, <1>6, NextCases

-----------------------------------------------------------------------------
(* Whose memory is there, and who is in the list.                           *)
LEMMA MemoryStep ==
  ASSUME TypeOK, ThreadsInv, MemoryInv, ListInv, CommandTypes, StatusInv, [Next]_vars
  PROVE  MemoryInv'
<1>0. \A t \in Threads : on[t] \in Controllers
  BY DEF TypeOK, ResourceTypeOK
<1>1. CASE Quiet
  BY <1>1 DEF Quiet, MemoryInv, MemoryOf
<1>2. ASSUME NEW c \in Controllers, Owns(c) PROVE MemoryInv'
  <2>1. CASE Fits(c) /\ AllocateAndInitializeController(c)
    <3>1. /\ pc[c] = "start" /\ UNCHANGED <<on, lBusy, command>>
          /\ \A u \in Threads \ {c} : pc'[u] = pc[u]
          /\ \A d \in Controllers \ {c} : memory'[d] = memory[d]
          /\ \/ pc'[c] = "socket" /\ memory'[c] = "live"
             \/ pc'[c] = "end" /\ memory'[c] = "none"
      <4>1. pc[c] = "start" /\ memory[c] = "none"
        BY <2>1 DEF AllocateAndInitializeController, MemoryInv, MemoryOf
      <4>2. UNCHANGED <<on, lBusy, command>> /\ \A u \in Threads \ {c} : pc'[u] = pc[u]
        BY <2>1 DEF AllocateAndInitializeController, TypeOK, Threads
      <4>3. \/ pc' = [pc EXCEPT ![c] = "socket"] /\ memory' = [memory EXCEPT ![c] = "live"]
            \/ pc' = [pc EXCEPT ![c] = "end"] /\ memory' = memory
        BY <2>1 DEF AllocateAndInitializeController
      <4> QED
        BY <4>1, <4>2, <4>3 DEF TypeOK, Threads
    <3> QED
      BY <1>0, <3>1 DEF MemoryInv, MemoryOf, ThreadsInv, Threads
  <2>2. CASE CommandStep(c)
    BY <2>2 DEF CommandStep, MemoryInv, MemoryOf
  <2>3. CASE Connects(c)
    <3>1. /\ UNCHANGED <<on, lBusy, memory, command>>
          /\ pc[c] \notin {"start", "end", "running"} /\ pc'[c] \notin {"start", "end"}
          /\ pc[c] = "connected" => ~InCommand(c)
          /\ \A u \in Threads \ {c} : pc'[u] = pc[u]
      BY <2>3, ConnectMoves
    <3>2. memory[c] = "live" /\ ~InCommand(c)
      BY <3>1 DEF MemoryInv, MemoryOf, TypeOK
    <3> QED
      BY <1>0, <3>1, <3>2 DEF MemoryInv, MemoryOf, ThreadsInv, Threads
  <2> QED
    BY <1>2, <2>1, <2>2, <2>3 DEF Owns
<1>3. ASSUME NEW r \in Requesters, Fits(r), QueuesBusy(r) PROVE MemoryInv'
  <2>1. memory[on[r]] # "freed"
    <3> SUFFICES ASSUME memory[on[r]] = "freed" PROVE "controller" \in Misuses(r)
      BY <1>3 DEF Fits
    <3>1. Touches(r)
      BY <1>3, QueuesBusyMoves DEF Touches
    <3> QED
      BY <3>1 DEF Misuses, Missing
  <2>2. memory[on[r]] = "live"
    <3>1. pc[on[r]] = "running" /\ on[r] \in Controllers
      BY <1>0, <1>3, QueuesBusyMoves DEF ThreadsInv, Threads
    <3>2. memory[on[r]] \in {"none", "live", "freed"}
      BY <3>1 DEF TypeOK
    <3> QED
      BY <2>1, <3>1, <3>2 DEF MemoryInv, MemoryOf
  <2> QED
    BY <1>0, <1>3, <2>2, QueuesBusyMoves, ThreadsAssumption DEF MemoryInv, MemoryOf, Threads
<1>4. ASSUME NEW r \in Requesters, NEW i \in DOMAIN sRdmaControllerHead,
             Finds(r, sRdmaControllerHead[i])
      PROVE  MemoryInv'
  BY <1>0, <1>4, FindsMoves, ThreadsAssumption DEF MemoryInv, MemoryOf, Threads
<1>5. ASSUME NEW t \in Threads, Fits(t), Teardown(t) PROVE MemoryInv'
  <2>1. CASE FreeController(t)
    <3>1. /\ pc[t] = "freeController" /\ pc'[t] = "end"
          /\ \A d \in Controllers : memory'[d] = IF d = on[t] THEN "freed" ELSE memory[d]
      BY <1>0, <2>1 DEF FreeController, TypeOK
    <3>2. ASSUME NEW u \in Threads, pc'[u] \in TeardownPcs
          PROVE on[u] # on[t] /\ pc[u] \in TeardownPcs
      BY <1>5, <3>1, <3>2, TeardownMoves, OneTeardown
    <3>3. on[t] = t \/ (pc[on[t]] = "running" /\ 0 \in lBusy[on[t]])
      BY <3>1 DEF ThreadsInv, Threads
    <3> QED
      BY <1>0, <1>5, <3>1, <3>2, <3>3, TeardownMoves, ThreadsAssumption DEF MemoryInv,
         MemoryOf, ThreadsInv, Threads
  <2>2. CASE pc'[t] \in TeardownPcs /\ UNCHANGED listVars
    BY <1>0, <1>5, <2>2, TeardownMoves DEF MemoryInv, MemoryOf, ThreadsInv, Threads
  <2> QED
    BY <1>5, <2>1, <2>2, TeardownMoves
<1>6. ASSUME NEW c \in Controllers, Receives(c) PROVE MemoryInv'
  BY <1>6 DEF Receives, ConnectionLost, AdminRcqCallback, MemoryInv, MemoryOf
<1> QED
  BY <1>1, <1>2, <1>3, <1>4, <1>5, <1>6, NextCases

(* Linking a controller in, and taking it out of the list it is in once.    *)
LEMMA UnlinkedIs ==
  ASSUME ListInv, NEW c \in Controllers
  PROVE  /\ Unlinked(c) \in Seq(Controllers)
         /\ \A i, j \in DOMAIN Unlinked(c) : Unlinked(c)[i] = Unlinked(c)[j] => i = j
         /\ \A d \in Controllers :
              (\E i \in DOMAIN Unlinked(c) : Unlinked(c)[i] = d) <=> Listed(d) /\ d # c
<1> DEFINE s == sRdmaControllerHead
           at == {i \in DOMAIN s : s[i] = c}
           k == CHOOSE i \in at : TRUE
           n == Len(s)
<1>0. s \in Seq(Controllers) /\ n \in Nat /\ DOMAIN s = 1 .. n
  BY DEF ListInv
<1>1. CASE at = {}
  BY <1>1, <1>0 DEF Unlinked, ListInv, Listed
<1>2. CASE at # {}
  <2>1. k \in 1 .. n /\ s[k] = c
    BY <1>0, <1>2
  <2> DEFINE a == SubSeq(s, 1, k - 1)
             b == SubSeq(s, k + 1, n)
             u == a \o b
  <2>2. Unlinked(c) = u
    BY <1>2 DEF Unlinked
  <2>3. a \in Seq(Controllers) /\ Len(a) = k - 1 /\ \A i \in 1 .. k - 1 : a[i] = s[i]
    BY <1>0, <2>1, SubSeqProperties
  <2>4. b \in Seq(Controllers) /\ Len(b) = n - k /\ \A i \in 1 .. n - k : b[i] = s[k + i]
    BY <1>0, <2>1, SubSeqProperties, SMTT(30)
  <2> HIDE DEF a, b, k
  <2>5. /\ u \in Seq(Controllers) /\ Len(u) = n - 1
        /\ \A i \in 1 .. n - 1 : u[i] = IF i < k THEN s[i] ELSE s[i + 1]
    <3>1. /\ u \in Seq(Controllers) /\ Len(u) = (k - 1) + (n - k)
          /\ \A i \in 1 .. (k - 1) + (n - k) : u[i] = IF i <= k - 1 THEN a[i] ELSE b[i - (k - 1)]
      <4>1. /\ u \in Seq(Controllers) /\ Len(u) = Len(a) + Len(b)
            /\ \A i \in 1 .. Len(a) + Len(b) : u[i] = IF i <= Len(a) THEN a[i] ELSE b[i - Len(a)]
        BY <2>3, <2>4, ConcatProperties
      <4> QED
        BY <2>3, <2>4, <4>1
    <3>2. (k - 1) + (n - k) = n - 1
      BY <1>0, <2>1
    <3>3. ASSUME NEW i \in 1 .. n - 1 PROVE u[i] = IF i < k THEN s[i] ELSE s[i + 1]
      <4>1. CASE i < k
        BY <1>0, <2>1, <2>3, <3>1, <3>2, <4>1
      <4>2. CASE ~(i < k)
        <5>1. i - (k - 1) \in 1 .. n - k /\ k + (i - (k - 1)) = i + 1
          BY <1>0, <2>1, <4>2
        <5>2. u[i] = b[i - (k - 1)] /\ b[i - (k - 1)] = s[k + (i - (k - 1))]
          BY <1>0, <2>1, <2>4, <3>1, <3>2, <4>2, <5>1
        <5> QED
          BY <2>1, <4>2, <5>1, <5>2
      <4> QED
        BY <4>1, <4>2
    <3> QED
      BY <3>1, <3>2, <3>3
  <2> HIDE DEF u
  <2>6. DOMAIN u = 1 .. n - 1
    BY <2>5
  <2> DEFINE from(i) == IF i < k THEN i ELSE i + 1
  <2>7. ASSUME NEW i \in 1 .. n - 1, NEW j \in 1 .. n - 1, u[i] = u[j] PROVE i = j
    <3>1. u[i] = s[from(i)] /\ u[j] = s[from(j)] /\ from(i) \in 1 .. n /\ from(j) \in 1 .. n
      BY <1>0, <2>1, <2>5
    <3>2. from(i) = from(j)
      BY <1>0, <2>7, <3>1 DEF ListInv
    <3> QED
      BY <1>0, <2>1, <3>2
  <2>8. ASSUME NEW d \in Controllers
        PROVE  (\E i \in 1 .. n - 1 : u[i] = d) <=> Listed(d) /\ d # c
    <3>1. ASSUME NEW i \in 1 .. n - 1, u[i] = d PROVE Listed(d) /\ d # c
      <4>1. u[i] = s[from(i)] /\ from(i) \in 1 .. n /\ from(i) # k
        BY <1>0, <2>1, <2>5
      <4> QED
        BY <1>0, <2>1, <3>1, <4>1 DEF ListInv, Listed
    <3>2. ASSUME NEW i \in 1 .. n, s[i] = d, d # c PROVE \E j \in 1 .. n - 1 : u[j] = d
      <4>1. CASE i < k
        BY <1>0, <2>1, <2>5, <3>2, <4>1
      <4>2. CASE i > k
        <5>1. i - 1 \in 1 .. n - 1 /\ u[i - 1] = d
          BY <1>0, <2>1, <2>5, <3>2, <4>2
        <5> QED
          BY <5>1
      <4> QED
        BY <2>1, <3>2, <4>1, <4>2
    <3> QED
      BY <1>0, <3>1, <3>2 DEF Listed
  <2> QED
    BY <2>2, <2>5, <2>6, <2>7, <2>8
<1> QED
  BY <1>1, <1>2

(* The list holds a controller from its insertion until it is freed.        *)
LEMMA ListStep ==
  ASSUME TypeOK, ThreadsInv, MemoryInv, ListInv, CommandTypes, StatusInv, [Next]_vars
  PROVE  ListInv'
<1>0. \A t \in Threads : on[t] \in Controllers
  BY DEF TypeOK, ResourceTypeOK
<1>1. ASSUME UNCHANGED sRdmaControllerHead,
             \A c \in Controllers : pc'[c] = "running" /\ memory'[c] = "live"
                                      <=> pc[c] = "running" /\ memory[c] = "live"
      PROVE  ListInv'
  BY <1>1 DEF ListInv, Listed
<1>2. CASE Quiet
  BY <1>1, <1>2 DEF Quiet
<1>3. ASSUME NEW c \in Controllers, Owns(c) PROVE ListInv'
  <2>1. CASE Fits(c) /\ AllocateAndInitializeController(c)
    <3>1. UNCHANGED sRdmaControllerHead /\ pc[c] = "start" /\ pc'[c] \in {"socket", "end"}
      BY <2>1 DEF AllocateAndInitializeController, TypeOK, Threads
    <3>2. \A d \in Controllers \ {c} : pc'[d] = pc[d] /\ memory'[d] = memory[d]
      BY <2>1 DEF AllocateAndInitializeController, TypeOK, Threads
    <3> QED
      BY <1>1, <3>1, <3>2
  <2>2. CASE CommandStep(c)
    BY <1>1, <2>2 DEF CommandStep
  <2>3. CASE Connects(c)
    <3>1. /\ UNCHANGED memory /\ pc[c] # "running" /\ memory[c] = "live"
          /\ \A d \in Controllers \ {c} : pc'[d] = pc[d]
      <4>1. pc[c] \notin {"start", "end", "running"} /\ memory[c] \in {"none", "live", "freed"}
        BY <2>3, ConnectMoves DEF TypeOK
      <4> QED
        BY <2>3, <4>1, ConnectMoves DEF MemoryInv, MemoryOf, Threads
    <3>2. CASE pc'[c] # "running"
      BY <1>1, <2>3, <3>1, <3>2, ConnectMoves
    <3>3. CASE pc'[c] = "running"
      <4> DEFINE s == sRdmaControllerHead
                 n == Len(s)
      <4>1. s \in Seq(Controllers) /\ n \in Nat /\ DOMAIN s = 1 .. n
        BY DEF ListInv
      <4>2. sRdmaControllerHead' = Append(s, c)
        BY <2>3, <3>3, ConnectMoves
      <4>3. /\ sRdmaControllerHead' \in Seq(Controllers)
            /\ DOMAIN sRdmaControllerHead' = 1 .. n + 1
            /\ \A i \in 1 .. n + 1 : sRdmaControllerHead'[i] = IF i = n + 1 THEN c ELSE s[i]
        BY <4>1, <4>2
      <4>4. \A i \in 1 .. n : s[i] # c
        BY <3>1, <4>1 DEF ListInv, Listed
      <4> HIDE DEF s, n
      <4>5. \A i, j \in 1 .. n + 1 : sRdmaControllerHead'[i] = sRdmaControllerHead'[j] => i = j
        <5>1. \A i, j \in 1 .. n : s[i] = s[j] => i = j
          BY <4>1 DEF ListInv, s
        <5> QED
          BY <4>1, <4>3, <4>4, <5>1
      <4>6. ASSUME NEW d \in Controllers
            PROVE  (\E i \in 1 .. n + 1 : sRdmaControllerHead'[i] = d) <=> Listed(d) \/ d = c
        BY <4>1, <4>3 DEF Listed, s
      <4> QED
        BY <3>1, <3>3, <4>3, <4>5, <4>6 DEF ListInv, Listed
    <3> QED
      BY <3>2, <3>3
  <2> QED
    BY <1>3, <2>1, <2>2, <2>3 DEF Owns
<1>4. ASSUME NEW r \in Requesters, Fits(r), QueuesBusy(r) PROVE ListInv'
  <2>1. UNCHANGED listVars
    BY <1>4 DEF QueuesBusy
  <2> QED
    BY <1>1, <1>4, <2>1, QueuesBusyMoves, ThreadsAssumption DEF Threads
<1>5. ASSUME NEW r \in Requesters, NEW i \in DOMAIN sRdmaControllerHead,
             Finds(r, sRdmaControllerHead[i])
      PROVE  ListInv'
  BY <1>1, <1>5, FindsMoves, ThreadsAssumption DEF Threads
<1>6. ASSUME NEW t \in Threads, Fits(t), Teardown(t) PROVE ListInv'
  <2>1. CASE FreeController(t)
    <3>1. /\ pc[t] = "freeController" /\ pc'[t] = "end"
          /\ sRdmaControllerHead' = Unlinked(on[t])
          /\ \A d \in Controllers : memory'[d] = IF d = on[t] THEN "freed" ELSE memory[d]
      BY <1>0, <2>1 DEF FreeController, TypeOK
    <3>2. PICK c \in Controllers : c = on[t]
      BY <1>0
    <3>3. \A d \in Controllers : pc'[d] = "running" <=> pc[d] = "running"
      BY <1>6, <3>1, TeardownMoves DEF Threads
    <3>4. \A d \in Controllers :
            (\E i \in DOMAIN sRdmaControllerHead' : sRdmaControllerHead'[i] = d)
              <=> Listed(d) /\ d # c
      BY <3>1, <3>2, UnlinkedIs
    <3>5. \A d \in Controllers : Listed(d)' <=> pc'[d] = "running" /\ memory'[d] = "live"
      BY <3>1, <3>2, <3>3, <3>4 DEF ListInv, Listed
    <3> QED
      BY <3>1, <3>2, <3>5, UnlinkedIs DEF ListInv
  <2>2. CASE pc'[t] \in TeardownPcs /\ UNCHANGED listVars
    BY <1>1, <1>6, <2>2, TeardownMoves DEF Threads
  <2> QED
    BY <1>6, <2>1, <2>2, TeardownMoves
<1>7. ASSUME NEW c \in Controllers, Receives(c) PROVE ListInv'
  BY <1>1, <1>7 DEF Receives, ConnectionLost, AdminRcqCallback
<1> QED
  BY <1>2, <1>3, <1>4, <1>5, <1>6, <1>7, NextCases

-----------------------------------------------------------------------------
(* What a controller's admin queue has, by where its threads are.           *)
LEMMA NoTeardown ==
  ASSUME TypeOK, ThreadsInv, NEW c \in Controllers, pc[c] \notin TeardownPcs \cup {"running"},
         NEW t \in Threads, on[t] = c
  PROVE  pc[t] \notin TeardownPcs
BY DEF ThreadsInv, Threads

(* The connect of the admin queue sets up what its next steps count on.     *)
LEMMA ConnectStage ==
  ASSUME TypeOK, ThreadsInv, StageInv, MemoryInv,
         NEW c \in Controllers, Fits(c), ConnectAdminQueue(c), UNCHANGED sessionVars
  PROVE  StageInv'
<1>0. \A t \in Threads : on[t] \in Controllers
  BY DEF TypeOK, ResourceTypeOK
<1>1. UNCHANGED <<on, memory>> /\ pc[c] \in ConnectPcs /\ pc'[c] \notin TeardownPcs
      /\ \A u \in Threads \ {c} : pc'[u] = pc[u]
  BY DEF ConnectAdminQueue, CreateAsyncSocket, AdminXportConnect, AllocateLookasideLists,
     AllocateSubmissionResources, AllocateReceiveResources, AdminSubmitReceiveRequests,
     TypeOK, Threads
<1>2. \A d \in Controllers \ {c} :
        /\ pvSessionFabricCtx'[d] = pvSessionFabricCtx[d] /\ psNdkQp'[d] = psNdkQp[d]
        /\ ulSockState'[d] = ulSockState[d]
        /\ sub'[d] = sub[d] /\ recv'[d] = recv[d]
        /\ lReceiveWorkRequestOutstanding'[d] = lReceiveWorkRequestOutstanding[d]
        /\ posted'[d] = posted[d] /\ rcq'[d] = rcq[d]
  BY DEF ConnectAdminQueue, CreateAsyncSocket, AdminXportConnect, AllocateLookasideLists,
     AllocateSubmissionResources, AllocateReceiveResources, AdminSubmitReceiveRequests,
     TypeOK, ResourceTypeOK
<1>3. UNCHANGED released
  BY DEF ConnectAdminQueue, CreateAsyncSocket, AdminXportConnect, AllocateLookasideLists,
     AllocateSubmissionResources, AllocateReceiveResources, AdminSubmitReceiveRequests
<1>4. ASSUME NEW d \in Controllers \ {c} PROVE ConnectOf(d)'
  BY <1>1, <1>2 DEF StageInv, ConnectOf, Clean, Threads
<1>5. ASSUME NEW t \in Threads PROVE TeardownOf(t)'
  <2>1. CASE on[t] = c
    BY <1>1, <2>1, NoTeardown DEF TeardownOf, ThreadsInv, Threads
  <2>2. CASE on[t] # c
    BY <1>0, <1>1, <1>2, <1>3, <2>2 DEF StageInv, TeardownOf, ThreadsInv
  <2> QED
    BY <2>1, <2>2
<1>6. ConnectOf(c)'
  <2>0. ConnectOf(c) /\ memory[c] # "freed"
    BY <1>1 DEF StageInv, MemoryInv, MemoryOf
  <2>1. CASE CreateAsyncSocket(c)
    BY <2>0, <2>1 DEF CreateAsyncSocket, ConnectOf, Clean, TypeOK, ResourceTypeOK, Threads
  <2>2. CASE AdminXportConnect(c)
    BY <2>0, <2>2 DEF AdminXportConnect, ConnectOf, Clean, TypeOK, ResourceTypeOK, Threads
  <2>3. CASE AllocateLookasideLists(c)
    BY <2>0, <2>3 DEF AllocateLookasideLists, ConnectOf, Clean, TypeOK, ResourceTypeOK, Threads
  <2>4. CASE AllocateSubmissionResources(c)
    BY <2>0, <2>4 DEF AllocateSubmissionResources, ConnectOf, Clean, TypeOK, ResourceTypeOK,
       Threads
  <2>5. CASE AllocateReceiveResources(c)
    BY <2>0, <2>5 DEF AllocateReceiveResources, ConnectOf, Clean, TypeOK, ResourceTypeOK, Threads
  <2>6. CASE AdminSubmitReceiveRequests(c)
    <3>1. lReceiveWorkRequestCount[c] > 0 => recv[c] = "whole"
      <4> SUFFICES ASSUME lReceiveWorkRequestCount[c] > 0, recv[c] # "whole"
                   PROVE  "receives" \in Misuses(c)
        BY DEF Fits
      <4>1. on[c] = c /\ pc[c] = "post"
        BY <2>6 DEF ThreadsInv, AdminSubmitReceiveRequests
      <4> QED
        BY <2>0, <4>1 DEF Misuses, ConnectMisuses, Missing
    <3>2. /\ psNdkQp[c] = "open" /\ rcq[c] = 0
          /\ UNCHANGED <<ulSockState, psNdkQp, rcq, recv, sub, pvSessionFabricCtx>>
          /\ ulSockState[c] = "Connected"
          /\ pc'[c] \in {"connected", "failed"}
      BY <2>0, <2>6 DEF AdminSubmitReceiveRequests, ConnectOf, TypeOK, Threads
    <3>3. \E n \in 0 .. lReceiveWorkRequestCount[c] :
            posted' = [posted EXCEPT ![c] = n]
      BY <2>6, NumReceivesAssumption DEF AdminSubmitReceiveRequests, TypeOK, ResourceTypeOK
    <3>4. PICK n \in Nat : /\ posted'[c] = n /\ lReceiveWorkRequestOutstanding'[c] = n
                           /\ n <= lReceiveWorkRequestCount[c]
      BY <2>6, <3>3, NumReceivesAssumption DEF AdminSubmitReceiveRequests, TypeOK, ResourceTypeOK
    <3>5. lReceiveWorkRequestCount[c] \in Nat
      BY NumReceivesAssumption DEF TypeOK, ResourceTypeOK
    <3> QED
      BY <1>1, <2>0, <3>1, <3>2, <3>4, <3>5 DEF ConnectOf, Clean
  <2> QED
    BY <2>1, <2>2, <2>3, <2>4, <2>5, <2>6 DEF ConnectAdminQueue
<1> QED
  BY <1>4, <1>5, <1>6 DEF StageInv

(* The teardown gives it back in the order that counts on it.               *)
LEMMA TeardownStage ==
  ASSUME TypeOK, ThreadsInv, StageInv, MemoryInv,
         NEW t \in Threads, Teardown(t)
  PROVE  StageInv'
<1> DEFINE c == on[t]
<1>0. \A u \in Threads : on[u] \in Controllers
  BY DEF TypeOK, ResourceTypeOK
<1>1. UNCHANGED on /\ pc[t] \in TeardownPcs /\ pc'[t] \in TeardownPcs \cup {"end"}
      /\ \A u \in Threads \ {t} : pc'[u] = pc[u]
  BY TeardownMoves DEF FreeController, TypeOK
<1>2. \A d \in Controllers \ {c} :
        /\ pvSessionFabricCtx'[d] = pvSessionFabricCtx[d] /\ psNdkQp'[d] = psNdkQp[d]
        /\ ulSockState'[d] = ulSockState[d]
        /\ sub'[d] = sub[d] /\ recv'[d] = recv[d] /\ memory'[d] = memory[d]
        /\ lReceiveWorkRequestOutstanding'[d] = lReceiveWorkRequestOutstanding[d]
        /\ posted'[d] = posted[d] /\ rcq'[d] = rcq[d]
        /\ d \in released' <=> d \in released
  BY <1>0 DEF Teardown, DisconnectController, NvmeofDisconnect, DisconnectControllerIOQueues,
     ReleaseIOQResources, FreeController, DisconnectQp, AfterTest, CloseQueues, Drain,
     FreeSubmissionResources, FreeReceiveResources, FreeLookasideLists, DestroySocket,
     Flushed, IoKeeps, TypeOK, ResourceTypeOK
<1>4. ASSUME NEW d \in Controllers \ {c} PROVE ConnectOf(d)'
  <2>1. pc'[d] \in ConnectPcs \cup {"start"} => pc[d] = pc'[d]
    BY <1>1 DEF Threads
  <2> QED
    BY <1>2, <2>1 DEF StageInv, ConnectOf, Clean
<1>5. ASSUME NEW u \in Threads \ {t} PROVE TeardownOf(u)'
  <2>1. CASE on[u] = c
    BY <1>1, <2>1, OneTeardown DEF TeardownOf, ThreadsInv, Threads
  <2>2. CASE on[u] # c
    BY <1>0, <1>1, <1>2, <2>2 DEF StageInv, TeardownOf, ThreadsInv
  <2> QED
    BY <2>1, <2>2
<1>6. ConnectOf(c)' /\ TeardownOf(t)'
  <2>0. /\ c \in Controllers /\ memory[c] = "live" /\ ConnectOf(c) /\ TeardownOf(t)
        /\ pc[c] \notin ConnectPcs \cup {"start"} /\ pc'[c] \notin ConnectPcs \cup {"start"}
    BY <1>0, <1>1 DEF StageInv, MemoryInv, MemoryOf, ThreadsInv, Threads
  <2>1. CASE NvmeofDisconnect(t) \/ DisconnectControllerIOQueues(t) \/ ReleaseIOQResources(t)
    BY <1>1, <2>0, <2>1 DEF NvmeofDisconnect, DisconnectControllerIOQueues, ReleaseIOQResources,
       IoKeeps, ConnectOf, Clean, TeardownOf, TypeOK
  <2>2. CASE DisconnectQp(t) /\ UNCHANGED sessionVars
    BY <1>1, <2>0, <2>2 DEF DisconnectQp, AfterTest, Flushed, ConnectOf, Clean, TeardownOf, TypeOK,
       ResourceTypeOK
  <2>3. CASE CloseQueues(t) /\ UNCHANGED sessionVars
    BY <1>1, <2>0, <2>3 DEF CloseQueues, ConnectOf, Clean, TeardownOf, TypeOK, ResourceTypeOK
  <2>4. CASE Drain(t) /\ UNCHANGED sessionVars
    BY <1>1, <2>0, <2>4 DEF Drain, ConnectOf, Clean, TeardownOf, TypeOK, ResourceTypeOK
  <2>5. CASE FreeSubmissionResources(t) /\ UNCHANGED sessionVars
    BY <1>1, <2>0, <2>5 DEF FreeSubmissionResources, ConnectOf, Clean, TeardownOf, TypeOK,
       ResourceTypeOK
  <2>6. CASE FreeReceiveResources(t) /\ UNCHANGED sessionVars
    BY <1>1, <2>0, <2>6 DEF FreeReceiveResources, ConnectOf, Clean, TeardownOf, TypeOK,
       ResourceTypeOK
  <2>7. CASE FreeLookasideLists(t) /\ UNCHANGED sessionVars
    BY <1>1, <2>0, <2>7 DEF FreeLookasideLists, ConnectOf, Clean, TeardownOf, TypeOK,
       ResourceTypeOK
  <2>8. CASE DestroySocket(t) /\ UNCHANGED sessionVars
    BY <1>1, <2>0, <2>8 DEF DestroySocket, ConnectOf, Clean, TeardownOf, TypeOK, ResourceTypeOK
  <2>9. CASE FreeController(t)
    BY <1>1, <2>0, <2>9 DEF FreeController, ConnectOf, Clean, TeardownOf, TypeOK, ResourceTypeOK
  <2> QED
    BY <2>1, <2>2, <2>3, <2>4, <2>5, <2>6, <2>7, <2>8, <2>9 DEF Teardown, DisconnectController
<1> QED
  BY <1>0, <1>1, <1>4, <1>5, <1>6 DEF StageInv

(* The I/O queues and the end of a connection leave the admin queue alone.  *)
LEMMA OtherConnectMoves ==
  ASSUME TypeOK, NEW c \in Controllers, ConnectIOQueues(c) \/ GiveUp(c)
  PROVE  /\ UNCHANGED <<on, memory, resourceVars>>
         /\ pc[c] \in IoPcs \cup {"connected", "failed"}
         /\ pc'[c] \in IoPcs \cup {"failed", "running", "disconnect", "disconnectIOQ"}
         /\ \A u \in Threads \ {c} : pc'[u] = pc[u]
         /\ failed \subseteq failed'
BY DEF Fails, ConnectIOQueues, ConnectControllerIOQueues, AllocateNodeQueues, CreateIOQ,
   AllocateAndInitializeRdmaIoReq, SetupNvmeofIOQueues, IoKeeps, GiveUp,
   IOQDisconnectAndReleaseResources, TypeOK, Threads

(* What a controller has is what its set-up and its teardown have left.     *)
LEMMA StageStep ==
  ASSUME TypeOK, ThreadsInv, StageInv, MemoryInv, ListInv, CommandTypes, StatusInv, [Next]_vars
  PROVE  StageInv'
<1>0. \A t \in Threads : on[t] \in Controllers
  BY DEF TypeOK, ResourceTypeOK
<1>1. CASE Quiet
  BY <1>1 DEF Quiet, StageInv, ConnectOf, Clean, TeardownOf
<1>2. ASSUME NEW c \in Controllers, Owns(c) PROVE StageInv'
  <2>1. CASE Fits(c) /\ AllocateAndInitializeController(c)
    <3>1. /\ UNCHANGED <<on, resourceVars>> /\ pc[c] = "start" /\ pc'[c] \in {"socket", "end"}
          /\ \A u \in Threads \ {c} : pc'[u] = pc[u]
          /\ \A d \in Controllers : memory'[d] = "freed" => memory[d] = "freed"
      BY <2>1 DEF AllocateAndInitializeController, TypeOK, Threads
    <3>2. \A d \in Controllers : ConnectOf(d)'
      BY <3>1 DEF StageInv, ConnectOf, Clean, Threads
    <3> QED
      BY <1>0, <3>1, <3>2 DEF StageInv, TeardownOf, ThreadsInv
  <2>2. CASE CommandStep(c)
    BY <2>2 DEF CommandStep, StageInv, ConnectOf, Clean, TeardownOf
  <2>3. CASE Fits(c) /\ ConnectAdminQueue(c) /\ UNCHANGED sessionVars
    BY <2>3, ConnectStage
  <2>4. CASE ConnectIOQueues(c) \/ GiveUp(c)
    <3>1. \A d \in Controllers : ConnectOf(d)'
      BY <2>4, OtherConnectMoves DEF StageInv, ConnectOf, Clean, Threads
    <3> QED
      BY <1>0, <2>4, <3>1, OtherConnectMoves DEF StageInv, TeardownOf, ThreadsInv
  <2> QED
    BY <1>2, <2>1, <2>2, <2>3, <2>4 DEF Owns, Connects
<1>3. ASSUME NEW r \in Requesters, Fits(r), QueuesBusy(r) PROVE StageInv'
  <2>1. UNCHANGED resourceVars
    BY <1>3 DEF QueuesBusy
  <2>2. \A d \in Controllers : ConnectOf(d)'
    BY <1>3, <2>1, QueuesBusyMoves, ThreadsAssumption DEF StageInv, ConnectOf, Clean, Threads
  <2> QED
    BY <1>0, <1>3, <2>1, <2>2, QueuesBusyMoves DEF StageInv, TeardownOf
<1>4. ASSUME NEW r \in Requesters, NEW i \in DOMAIN sRdmaControllerHead,
             Finds(r, sRdmaControllerHead[i])
      PROVE  StageInv'
  <2>1. \A d \in Controllers : ConnectOf(d)'
    BY <1>4, FindsMoves, ThreadsAssumption DEF StageInv, ConnectOf, Clean, Threads
  <2> QED
    BY <1>0, <1>4, <2>1, FindsMoves DEF StageInv, TeardownOf
<1>5. ASSUME NEW t \in Threads, Fits(t), Teardown(t) PROVE StageInv'
  BY <1>5, TeardownStage
<1>6. ASSUME NEW c \in Controllers, Receives(c) PROVE StageInv'
  <2>0. /\ UNCHANGED <<pc, on, socketVars, bufferVars, memory>>
        /\ \A d \in Controllers \ {c} :
             /\ posted'[d] = posted[d] /\ rcq'[d] = rcq[d]
             /\ lReceiveWorkRequestOutstanding'[d] = lReceiveWorkRequestOutstanding[d]
    BY <1>6 DEF Receives, ConnectionLost, AdminRcqCallback, Flushed, TypeOK, ResourceTypeOK
  <2>1. CASE ConnectionLost(c)
    <3>1. /\ posted[c] > 0 /\ posted'[c] = 0 /\ rcq'[c] = posted[c] + rcq[c]
          /\ lReceiveWorkRequestOutstanding' = lReceiveWorkRequestOutstanding
          /\ posted[c] \in Nat /\ rcq[c] \in Nat
      BY <2>1, NumReceivesAssumption DEF ConnectionLost, Flushed, TypeOK, ResourceTypeOK
    <3>2. \A d \in Controllers : ConnectOf(d)'
      BY <2>0, <3>1 DEF StageInv, ConnectOf, Clean
    <3>3. \A t \in Threads : TeardownOf(t)'
      BY <1>0, <2>0, <3>1 DEF StageInv, TeardownOf, ConnectOf
    <3> QED
      BY <3>2, <3>3 DEF StageInv
  <2>2. CASE AdminRcqCallback(c)
    <3>1. /\ rcq[c] > 0 /\ psNdkQp[c] = "open" /\ posted'[c] = posted[c] /\ rcq'[c] = rcq[c] - 1
          /\ lReceiveWorkRequestOutstanding'[c] = lReceiveWorkRequestOutstanding[c] - 1
          /\ posted[c] \in Nat /\ rcq[c] \in Nat /\ lReceiveWorkRequestOutstanding[c] \in Nat
      BY <2>2, NumReceivesAssumption DEF AdminRcqCallback, TypeOK, ResourceTypeOK
    <3>2. \A d \in Controllers : ConnectOf(d)'
      BY <2>0, <3>1 DEF StageInv, ConnectOf, Clean
    <3>3. \A t \in Threads : TeardownOf(t)'
      BY <1>0, <2>0, <3>1 DEF StageInv, TeardownOf, ConnectOf
    <3> QED
      BY <3>2, <3>3 DEF StageInv
  <2> QED
    BY <1>6, <2>1, <2>2 DEF Receives
<1> QED
  BY <1>1, <1>2, <1>3, <1>4, <1>5, <1>6, NextCases

-----------------------------------------------------------------------------
(* The memory all controllers share.                                        *)

(* Whoever is not tearing down releases nothing.                            *)
LEMMA OtherMoves ==
  ASSUME TypeOK, ThreadsInv, MemoryInv, ListInv, CommandTypes, StatusInv, [Next]_vars
  PROVE  \/ \E t \in Threads : Fits(t) /\ Teardown(t)
         \/ /\ UNCHANGED <<released, lAdminQueueCount>> /\ failed \subseteq failed'
            /\ \A c \in Controllers : /\ memory[c] # "none" => memory'[c] = memory[c]
                                      /\ psNdkQp[c] # "null" => psNdkQp'[c] # "null"
            /\ \A t \in Threads : pc[t] \in TeardownPcs => pc'[t] = pc[t] /\ on'[t] = on[t]
            /\ \/ lookaside' = lookaside
               \/ \E c \in Controllers : AllocateLookasideLists(c) /\ UNCHANGED sessionVars
<1> DEFINE Others ==
      /\ UNCHANGED <<released, lAdminQueueCount>> /\ failed \subseteq failed'
      /\ \A c \in Controllers : /\ memory[c] # "none" => memory'[c] = memory[c]
                                /\ psNdkQp[c] # "null" => psNdkQp'[c] # "null"
      /\ \A t \in Threads : pc[t] \in TeardownPcs => pc'[t] = pc[t] /\ on'[t] = on[t]
      /\ \/ lookaside' = lookaside
         \/ \E c \in Controllers : AllocateLookasideLists(c) /\ UNCHANGED sessionVars
<1>1. CASE Quiet
  BY <1>1 DEF Quiet
<1>2. ASSUME NEW c \in Controllers, Owns(c) PROVE Others
  <2>1. CASE Fits(c) /\ AllocateAndInitializeController(c)
    <3>1. pc[c] = "start" /\ memory[c] = "none"
      BY <2>1 DEF AllocateAndInitializeController, MemoryInv, MemoryOf
    <3> QED
      BY <2>1, <3>1 DEF AllocateAndInitializeController, TypeOK, Threads
  <2>2. CASE CommandStep(c)
    BY <2>2 DEF CommandStep
  <2>3. CASE ConnectAdminQueue(c) /\ UNCHANGED sessionVars
    <3>1. /\ UNCHANGED <<released, lAdminQueueCount, memory>> /\ failed \subseteq failed'
          /\ \A d \in Controllers : psNdkQp[d] # "null" => psNdkQp'[d] # "null"
          /\ lookaside' = lookaside \/ AllocateLookasideLists(c)
      BY <2>3 DEF ConnectAdminQueue, CreateAsyncSocket, AdminXportConnect,
         AllocateLookasideLists, AllocateSubmissionResources, AllocateReceiveResources,
         AdminSubmitReceiveRequests, Fails, TypeOK, ResourceTypeOK
    <3>2. UNCHANGED on /\ \A t \in Threads : pc[t] \in TeardownPcs => pc'[t] = pc[t]
      BY <2>3 DEF ConnectAdminQueue, CreateAsyncSocket, AdminXportConnect,
         AllocateLookasideLists, AllocateSubmissionResources, AllocateReceiveResources,
         AdminSubmitReceiveRequests, TypeOK, Threads
    <3> QED
      BY <2>3, <3>1, <3>2
  <2>4. CASE ConnectIOQueues(c) \/ GiveUp(c)
    BY <2>4, OtherConnectMoves
  <2> QED
    BY <1>2, <2>1, <2>2, <2>3, <2>4 DEF Owns, Connects
<1>3. ASSUME NEW r \in Requesters, Fits(r), QueuesBusy(r) PROVE Others
  <2>1. UNCHANGED <<failed, resourceVars>>
    BY <1>3 DEF QueuesBusy
  <2> QED
    BY <1>3, <2>1, QueuesBusyMoves
<1>4. ASSUME NEW r \in Requesters, NEW i \in DOMAIN sRdmaControllerHead,
             Finds(r, sRdmaControllerHead[i])
      PROVE  Others
  BY <1>4, FindsMoves
<1>5. ASSUME NEW c \in Controllers, Receives(c) PROVE Others
  BY <1>5 DEF Receives, ConnectionLost, AdminRcqCallback, Fails
<1> QED
  BY <1>1, <1>2, <1>3, <1>4, <1>5, NextCases

(* The queue is counted down once.                                          *)
LEMMA CountStep ==
  ASSUME TypeOK, ThreadsInv, MemoryInv, ListInv, CommandTypes, StatusInv, CountInv, [Next]_vars
  PROVE  CountInv'
<1>1. ASSUME NEW c \in Controllers, lAdminQueueCount'[c] # 0
      PROVE  memory'[c] = "freed" \/ \E t \in Threads : on'[t] = c /\ pc'[t] \in AfterDestroy
  <2>1. ASSUME NEW t \in Threads, Teardown(t)
        PROVE  memory'[c] = "freed" \/ \E u \in Threads : on'[u] = c /\ pc'[u] \in AfterDestroy
    <3>1. CASE DestroySocket(t) /\ UNCHANGED sessionVars
      <4>1. CASE on[t] = c
        BY <3>1, <4>1 DEF DestroySocket, TeardownKeeps, TypeOK, Threads
      <4>2. CASE on[t] # c
        <5>1. pc[t] = "destroySocket" /\ memory' = memory
          BY <3>1 DEF DestroySocket
        <5>2. lAdminQueueCount'[c] = lAdminQueueCount[c]
          BY <3>1, <4>2 DEF DestroySocket, TypeOK, ResourceTypeOK
        <5> QED
          BY <1>1, <2>1, <5>1, <5>2, TeardownMoves DEF CountInv
      <4> QED
        BY <4>1, <4>2
    <3>2. CASE FreeController(t)
      <4>1. /\ lAdminQueueCount' = lAdminQueueCount /\ memory'[on[t]] = "freed"
            /\ \A d \in Controllers : memory[d] = "freed" => memory'[d] = "freed"
        BY <3>2 DEF FreeController, TypeOK, ResourceTypeOK
      <4> QED
        BY <1>1, <2>1, <4>1, TeardownMoves DEF CountInv
    <3>3. CASE pc[t] \notin AfterFreeLists
      <4>1. UNCHANGED <<lAdminQueueCount, memory>>
        BY <2>1, <3>3 DEF Teardown, DisconnectController, NvmeofDisconnect,
           DisconnectControllerIOQueues, ReleaseIOQResources, FreeController, DisconnectQp,
           CloseQueues, Drain, FreeSubmissionResources, FreeReceiveResources,
           FreeLookasideLists, DestroySocket, IoKeeps
      <4> QED
        BY <1>1, <2>1, <3>3, <4>1, TeardownMoves DEF CountInv
    <3> QED
      BY <2>1, <3>1, <3>2, <3>3 DEF Teardown, DisconnectController, NvmeofDisconnect,
         DisconnectControllerIOQueues, ReleaseIOQResources, DisconnectQp, AfterTest, CloseQueues, Drain,
         FreeSubmissionResources, FreeReceiveResources, FreeLookasideLists
  <2> QED
    BY <1>1, <2>1, OtherMoves DEF CountInv
<1> QED
  BY <1>1 DEF CountInv

(* A controller that released the lists is on its way to be freed.          *)
LEMMA ReleasedStep ==
  ASSUME TypeOK, ThreadsInv, MemoryInv, ListInv, CommandTypes, StatusInv, ReleasedInv,
         [Next]_vars
  PROVE  ReleasedInv'
<1>1. ASSUME NEW c \in released'
      PROVE  memory'[c] = "freed" \/ \E t \in Threads : on'[t] = c /\ pc'[t] \in AfterFreeLists
  <2>1. ASSUME NEW t \in Threads, Teardown(t)
        PROVE  memory'[c] = "freed" \/ \E u \in Threads : on'[u] = c /\ pc'[u] \in AfterFreeLists
    <3>0. released \subseteq Controllers /\ on[t] \in Controllers
      BY DEF TypeOK, ResourceTypeOK
    <3>1. CASE FreeLookasideLists(t) /\ UNCHANGED sessionVars
      <4>1. CASE on[t] = c
        BY <3>1, <4>1 DEF FreeLookasideLists, TeardownKeeps, TypeOK, Threads
      <4>2. CASE on[t] # c
        BY <1>1, <2>1, <3>1, <4>2, TeardownMoves DEF FreeLookasideLists, ReleasedInv, Threads
      <4> QED
        BY <4>1, <4>2
    <3>2. CASE FreeController(t)
      <4>1. /\ released' = released /\ memory'[on[t]] = "freed"
            /\ \A d \in Controllers : memory[d] = "freed" => memory'[d] = "freed"
        BY <3>0, <3>2 DEF FreeController, TypeOK
      <4> QED
        BY <1>1, <2>1, <3>0, <4>1, TeardownMoves DEF ReleasedInv
    <3>3. CASE DestroySocket(t) /\ UNCHANGED sessionVars
      <4>1. /\ pc[t] = "destroySocket" /\ pc'[t] = "freeController"
            /\ UNCHANGED <<released, memory>>
        BY <3>3 DEF DestroySocket, TypeOK
      <4> QED
        BY <1>1, <2>1, <4>1, TeardownMoves DEF ReleasedInv
    <3>4. CASE pc[t] \notin AfterFreeRecv
      <4>1. UNCHANGED <<released, memory>>
        BY <2>1, <3>4 DEF Teardown, DisconnectController, NvmeofDisconnect,
           DisconnectControllerIOQueues, ReleaseIOQResources, FreeController, DisconnectQp,
           CloseQueues, Drain, FreeSubmissionResources, FreeReceiveResources,
           FreeLookasideLists, DestroySocket, IoKeeps
      <4> QED
        BY <1>1, <2>1, <3>4, <4>1, TeardownMoves DEF ReleasedInv
    <3> QED
      BY <2>1, <3>1, <3>2, <3>3, <3>4 DEF Teardown, DisconnectController, NvmeofDisconnect,
         DisconnectControllerIOQueues, ReleaseIOQResources, DisconnectQp, AfterTest, CloseQueues, Drain,
         FreeSubmissionResources, FreeReceiveResources
  <2>2. released \subseteq Controllers
    BY DEF TypeOK, ResourceTypeOK
  <2> QED
    BY <1>1, <2>1, <2>2, OtherMoves DEF ReleasedInv
<1> QED
  BY <1>1 DEF ReleasedInv

(* The lists are there only while a controller that will release them is.   *)
LEMMA HolderStep ==
  ASSUME TypeOK, ThreadsInv, StageInv, MemoryInv, ListInv, CommandTypes, StatusInv,
         ReleasedInv, HolderInv, [Next]_vars
  PROVE  HolderInv'
<1>1. ASSUME lookaside' = "none" PROVE HolderInv'
  BY <1>1 DEF HolderInv
<1>2. ASSUME NEW t \in Threads, Teardown(t) PROVE HolderInv'
  <2>1. CASE FreeLookasideLists(t)
    BY <1>1, <2>1 DEF FreeLookasideLists
  <2>2. CASE FreeController(t)
    <3>1. UNCHANGED <<lookaside, psNdkQp, released>> /\ pc[t] = "freeController"
      BY <2>2 DEF FreeController
    <3>2. \A d \in Controllers : d # on[t] => memory'[d] = memory[d]
      BY <2>2 DEF FreeController, TypeOK
    <3>3. on[t] \in released \/ psNdkQp[on[t]] = "null"
      BY <3>1 DEF StageInv, TeardownOf
    <3> QED
      BY <3>1, <3>2, <3>3 DEF HolderInv
  <2>3. CASE ~FreeController(t) /\ ~FreeLookasideLists(t)
    <3>1. /\ UNCHANGED <<lookaside, released, memory>>
          /\ \A d \in Controllers : psNdkQp[d] # "null" => psNdkQp'[d] # "null"
      BY <1>2, <2>3 DEF Teardown, DisconnectController, NvmeofDisconnect,
         DisconnectControllerIOQueues, ReleaseIOQResources, DisconnectQp, AfterTest, CloseQueues, Drain,
         FreeSubmissionResources, FreeReceiveResources, DestroySocket, IoKeeps,
         TypeOK, ResourceTypeOK
    <3> QED
      BY <3>1 DEF HolderInv
  <2> QED
    BY <2>1, <2>2, <2>3
<1>3. ASSUME NEW c \in Controllers, AllocateLookasideLists(c), UNCHANGED sessionVars,
             released' = released
      PROVE  HolderInv'
  <2>1. pc[c] = "lookaside" /\ UNCHANGED <<psNdkQp, memory>>
    BY <1>3 DEF AllocateLookasideLists
  <2>2. psNdkQp[c] = "open" /\ memory[c] = "live"
    BY <2>1 DEF StageInv, ConnectOf, MemoryInv, MemoryOf, TypeOK
  <2>3. c \notin released
    BY <2>1, <2>2, NoTeardown DEF ReleasedInv
  <2> QED
    BY <1>3, <2>1, <2>2, <2>3 DEF HolderInv
<1>4. ASSUME lookaside' = lookaside, released' = released,
             \A c \in Controllers : /\ memory[c] # "none" => memory'[c] = memory[c]
                                    /\ psNdkQp[c] # "null" => psNdkQp'[c] # "null"
      PROVE  HolderInv'
  BY <1>4 DEF HolderInv
<1> QED
  BY <1>2, <1>3, <1>4, OtherMoves

-----------------------------------------------------------------------------
(* The I/O queues: as many as were asked for, and their array while it is   *)
(* needed.                                                                  *)
LEMMA QueuesStep ==
  ASSUME TypeOK, ThreadsInv, MemoryInv, ListInv, CommandTypes, StatusInv, QueuesInv, [Next]_vars
  PROVE  QueuesInv'
<1>0. \A t \in Threads : on[t] \in Controllers
  BY DEF TypeOK, ResourceTypeOK
<1>1. CASE Quiet
  BY <1>1 DEF Quiet, QueuesInv, QueuesOf
<1>2. ASSUME NEW c \in Controllers, Owns(c) PROVE QueuesInv'
  <2>1. CASE Fits(c) /\ AllocateAndInitializeController(c)
    <3>1. /\ UNCHANGED <<on, ioVars, lBusy>> /\ pc[c] = "start" /\ pc'[c] \in {"socket", "end"}
          /\ \A u \in Threads \ {c} : pc'[u] = pc[u]
      BY <2>1 DEF AllocateAndInitializeController, TypeOK, Threads
    <3> QED
      BY <3>1 DEF QueuesInv, QueuesOf, Threads
  <2>2. CASE CommandStep(c)
    BY <2>2 DEF CommandStep, QueuesInv, QueuesOf
  <2>3. CASE ConnectAdminQueue(c) /\ UNCHANGED sessionVars
    <3>1. /\ pc[c] \in ConnectPcs /\ pc'[c] \in ConnectPcs \cup {"connected", "failed"}
          /\ UNCHANGED on /\ \A u \in Threads \ {c} : pc'[u] = pc[u]
      BY <2>3 DEF ConnectAdminQueue, CreateAsyncSocket, AdminXportConnect,
         AllocateLookasideLists, AllocateSubmissionResources, AllocateReceiveResources,
         AdminSubmitReceiveRequests, TypeOK, Threads
    <3> QED
      BY <2>3, <3>1 DEF QueuesInv, QueuesOf, Threads
  <2>4. CASE GiveUp(c)
    <3>1. pc'[c] = "disconnect" /\ UNCHANGED <<on, ioVars, lBusy>>
          /\ \A u \in Threads \ {c} : pc'[u] = pc[u]
      BY <2>4 DEF GiveUp, TypeOK, Threads
    <3> QED
      BY <3>1 DEF QueuesInv, QueuesOf, Threads
  <2>5. CASE ConnectIOQueues(c)
    <3>0. /\ UNCHANGED <<on, lBusy>> /\ \A u \in Threads \ {c} : pc'[u] = pc[u]
          /\ \A d \in Controllers \ {c} : /\ psNumaSQPair'[d] = psNumaSQPair[d]
                                          /\ ioConnected'[d] = ioConnected[d]
      BY <2>5 DEF ConnectIOQueues, ConnectControllerIOQueues, AllocateNodeQueues, CreateIOQ,
         AllocateAndInitializeRdmaIoReq, SetupNvmeofIOQueues, IoKeeps,
         IOQDisconnectAndReleaseResources, IOQueuesDisconnect, IOQReleaseResources,
         TypeOK, Threads
    <3>1. \A d \in Controllers \ {c} : QueuesOf(d)'
      BY <3>0 DEF QueuesInv, QueuesOf, Threads
    <3>2. QueuesOf(c)'
      <4>0. QueuesOf(c)
        BY DEF QueuesInv
      <4>1. CASE ConnectControllerIOQueues(c)
        BY <4>0, <4>1 DEF ConnectControllerIOQueues, QueuesOf, TypeOK, Threads
      <4>2. CASE AllocateNodeQueues(c)
        <5>1. CASE pc'[c] = "createIOQ" /\ ioConnected' = ioConnected
          <6>1. ioConnected'[c] = 1 .. 0 /\ psNumaSQPair'[c] = "queues"
            BY <4>0, <4>2, <5>1 DEF AllocateNodeQueues, QueuesOf, TypeOK, Threads,
               IOQDisconnectAndReleaseResources
          <6>2. 0 \in 0 .. NumIOQueues - 1
            BY NumIOQueuesAssumption
          <6> QED
            BY <5>1, <6>1, <6>2 DEF QueuesOf
        <5>2. CASE pc'[c] = "failed"
          BY <5>2 DEF QueuesOf
        <5> QED
          BY <4>2, <5>1, <5>2 DEF AllocateNodeQueues, IOQDisconnectAndReleaseResources, TypeOK,
             Threads
      <4>3. CASE CreateIOQ(c)
        <5>1. CASE pc'[c] = "ioRequests"
          <6>1. PICK k \in 0 .. NumIOQueues - 1 : ioConnected[c] = 1 .. k
            BY <4>0, <4>3 DEF CreateIOQ, QueuesOf, IOQDisconnectAndReleaseResources
          <6>2. NextQueue(c) = k + 1
            <7>1. Cardinality(1 .. k) = IF 1 > k THEN 0 ELSE k - 1 + 1
              BY FS_Interval, NumIOQueuesAssumption
            <7> QED
              BY <6>1, <7>1, NumIOQueuesAssumption DEF NextQueue
          <6>3. ioConnected'[c] = 1 .. k + 1 /\ psNumaSQPair'[c] = psNumaSQPair[c]
            <7>1. ioConnected'[c] = (1 .. k) \cup {k + 1} /\ psNumaSQPair' = psNumaSQPair
              BY <4>3, <5>1, <6>1, <6>2
                 DEF CreateIOQ, IOQDisconnectAndReleaseResources, TypeOK, Threads
            <7> QED
              BY <6>1, <7>1, NumIOQueuesAssumption
          <6>4. psNumaSQPair[c] # "none" /\ k + 1 \in 1 .. NumIOQueues
            BY <4>0, <4>3, <6>1, NumIOQueuesAssumption
               DEF CreateIOQ, QueuesOf, IOQDisconnectAndReleaseResources
          <6> QED
            BY <5>1, <6>3, <6>4 DEF QueuesOf
        <5>2. CASE pc'[c] = "failed"
          BY <5>2 DEF QueuesOf
        <5> QED
          BY <4>3, <5>1, <5>2 DEF CreateIOQ, IOQDisconnectAndReleaseResources, TypeOK, Threads
      <4>4. CASE AllocateAndInitializeRdmaIoReq(c)
        <5>1. CASE pc'[c] = IF ioConnected[c] = QueueIds THEN "setUpIOQ" ELSE "createIOQ"
          <6>1. PICK k \in 1 .. NumIOQueues : ioConnected[c] = 1 .. k
            BY <4>0, <4>4 DEF AllocateAndInitializeRdmaIoReq, QueuesOf,
               IOQDisconnectAndReleaseResources
          <6>2. ioConnected'[c] = 1 .. k /\ psNumaSQPair'[c] # "none"
            BY <4>0, <4>4, <5>1, <6>1 DEF AllocateAndInitializeRdmaIoReq, QueuesOf,
               IOQDisconnectAndReleaseResources, TypeOK, Threads
          <6>3. pc'[c] = "createIOQ" => k \in 0 .. NumIOQueues - 1
            BY <5>1, <6>1, NumIOQueuesAssumption DEF QueueIds
          <6> QED
            BY <5>1, <6>2, <6>3 DEF QueuesOf
        <5>2. CASE pc'[c] = "failed"
          BY <5>2 DEF QueuesOf
        <5> QED
          BY <4>4, <5>1, <5>2 DEF AllocateAndInitializeRdmaIoReq,
             IOQDisconnectAndReleaseResources, TypeOK, Threads
      <4>5. CASE SetupNvmeofIOQueues(c)
        BY <4>0, <4>5 DEF SetupNvmeofIOQueues, QueuesOf, TypeOK, Threads
      <4> QED
        BY <2>5, <4>1, <4>2, <4>3, <4>4, <4>5 DEF ConnectIOQueues
    <3>3. ASSUME NEW t \in Threads,
                 pc'[t] \in {"nvmeofDisconnect", "disconnectIOQ", "releaseIOQ"}
          PROVE  psNumaSQPair'[on[t]] # "none"
      <4>1. CASE t = c
        <5>1. pc[c] = "setUpIOQ" /\ psNumaSQPair' = psNumaSQPair
          BY <2>5, <3>3, <4>1 DEF ConnectIOQueues, ConnectControllerIOQueues,
             AllocateNodeQueues, CreateIOQ, AllocateAndInitializeRdmaIoReq,
             SetupNvmeofIOQueues, IOQDisconnectAndReleaseResources, TypeOK, Threads
        <5> QED
          BY <4>1, <5>1 DEF QueuesInv, QueuesOf, ThreadsInv
      <4>2. CASE t # c
        <5>1. on[t] # c
          BY <2>5, <3>0, <3>3, <4>2, OtherConnectMoves, NoTeardown
        <5> QED
          BY <1>0, <3>0, <3>3, <4>2, <5>1 DEF QueuesInv
      <4> QED
        BY <4>1, <4>2
    <3> QED
      BY <3>0, <3>1, <3>2, <3>3 DEF QueuesInv
  <2> QED
    BY <1>2, <2>1, <2>2, <2>3, <2>4, <2>5 DEF Owns, Connects
<1>3. ASSUME NEW r \in Requesters, Fits(r), QueuesBusy(r) PROVE QueuesInv'
  <2>1. UNCHANGED ioVars
    BY <1>3 DEF QueuesBusy
  <2>2. \A d \in Controllers : QueuesOf(d)'
    BY <1>3, <2>1, QueuesBusyMoves, ThreadsAssumption DEF QueuesInv, QueuesOf, Threads
  <2>3. pc'[r] = "nvmeofDisconnect" => psNumaSQPair[on[r]] # "none"
    BY <1>0, <1>3, QueuesBusyMoves DEF QueuesInv, QueuesOf, ThreadsInv, Threads
  <2> QED
    BY <1>3, <2>1, <2>2, <2>3, QueuesBusyMoves DEF QueuesInv
<1>4. ASSUME NEW r \in Requesters, NEW i \in DOMAIN sRdmaControllerHead,
             Finds(r, sRdmaControllerHead[i])
      PROVE  QueuesInv'
  <2>1. \A d \in Controllers : QueuesOf(d)'
    BY <1>4, FindsMoves, ThreadsAssumption DEF QueuesInv, QueuesOf, Threads
  <2> QED
    BY <1>4, <2>1, FindsMoves DEF QueuesInv
<1>5. ASSUME NEW t \in Threads, Fits(t), Teardown(t) PROVE QueuesInv'
  <2> DEFINE c == on[t]
  <2>1. /\ UNCHANGED <<on, lBusy>> /\ \A u \in Threads \ {t} : pc'[u] = pc[u]
        /\ pc[t] \in TeardownPcs /\ pc'[t] \in TeardownPcs \cup {"end"}
    BY <1>5, TeardownMoves DEF FreeController, TypeOK
  <2>2. \A d \in Controllers \ {c} : /\ psNumaSQPair'[d] = psNumaSQPair[d]
                                     /\ ioConnected'[d] = ioConnected[d]
    BY <1>5 DEF Teardown, NvmeofDisconnect, DisconnectControllerIOQueues, ReleaseIOQResources,
       FreeController, IOQueuesDisconnect, IOQReleaseResources, TypeOK
  <2>3. pc'[t] \in {"nvmeofDisconnect", "disconnectIOQ", "releaseIOQ"} =>
          /\ pc[t] \in {"nvmeofDisconnect", "disconnectIOQ"}
          /\ psNumaSQPair' = psNumaSQPair
    BY <1>5 DEF Teardown, NvmeofDisconnect, DisconnectControllerIOQueues, ReleaseIOQResources,
       FreeController, DisconnectController, DisconnectQp, AfterTest, CloseQueues, Drain,
       FreeSubmissionResources, FreeReceiveResources, FreeLookasideLists, DestroySocket, TypeOK
  <2>4. c \in Controllers /\ (c = t \/ (pc[c] = "running" /\ 0 \in lBusy[c]))
    BY <1>0, <2>1 DEF ThreadsInv, Threads
  <2>5. ASSUME NEW d \in Controllers PROVE QueuesOf(d)'
    <3>1. CASE d = c
      BY <2>1, <2>4, <3>1, ThreadsAssumption DEF QueuesInv, QueuesOf, Threads
    <3>2. CASE d # c
      BY <2>1, <2>2, <2>4, <3>2 DEF QueuesInv, QueuesOf, Threads
    <3> QED
      BY <3>1, <3>2
  <2>6. ASSUME NEW u \in Threads, pc'[u] \in {"nvmeofDisconnect", "disconnectIOQ", "releaseIOQ"}
        PROVE  psNumaSQPair'[on[u]] # "none"
    <3>1. CASE u = t
      BY <2>3, <2>6, <3>1 DEF QueuesInv
    <3>2. CASE u # t
      <4>1. on[u] # c
        BY <2>1, <2>6, <3>2, OneTeardown
      <4> QED
        BY <1>0, <2>1, <2>2, <2>6, <3>2, <4>1 DEF QueuesInv
    <3> QED
      BY <3>1, <3>2
  <2> QED
    BY <2>1, <2>5, <2>6 DEF QueuesInv
<1>6. ASSUME NEW c \in Controllers, Receives(c) PROVE QueuesInv'
  BY <1>6 DEF Receives, ConnectionLost, AdminRcqCallback, QueuesInv, QueuesOf
<1> QED
  BY <1>1, <1>2, <1>3, <1>4, <1>5, <1>6, NextCases

-----------------------------------------------------------------------------
(* What is missing, and which failure or release it comes from.             *)

(* An allocation that is not as it should be has failed or was released.    *)
Unchanged(c) ==
  /\ pc'[c] \in {"connected", "running"} \cup IoPcs =>
       pc[c] \in {"connected", "running"} \cup IoPcs
  /\ pc'[c] \in {"connectQp", "lookaside", "submission", "receive", "post"} => pc'[c] = pc[c]
  /\ pc'[c] \in {"start", "socket"} => pc[c] \in {"start", "socket"}

(* A step that leaves the buffers alone and moves no thread forward in the  *)
(* set-up of an admin queue leaves what is missing as it is.                *)
LEMMA FailuresKept ==
  ASSUME TypeOK, FailuresInv, UNCHANGED bufferVars, failed \subseteq failed',
         \A c \in Controllers : Unchanged(c) /\ (memory[c] # "none" => memory'[c] = memory[c]),
         \A t \in Threads : pc[t] \in TeardownPcs => pc'[t] = pc[t] /\ on'[t] = on[t]
  PROVE  FailuresInv'
<1>1. ListFailed => ListFailed'
  BY DEF ListFailed
<1>2. ASSUME NEW c \in Controllers PROVE FailuresOf(c)'
  <2>0. FailuresOf(c) /\ Unchanged(c)
    BY DEF FailuresInv
  <2>1. UsesLists(c)' => UsesLists(c)
    BY <2>0 DEF UsesLists, Unchanged
  <2>2. (\E t \in Threads : on[t] = c /\ pc[t] \in AfterFreeSub)
          => \E t \in Threads : on'[t] = c /\ pc'[t] \in AfterFreeSub
    OBVIOUS
  <2> QED
    BY <1>1, <2>0, <2>1, <2>2 DEF FailuresOf, Unchanged
<1> QED
  BY <1>1, <1>2 DEF FailuresInv

(* An allocation fails, and then it is recorded, or what it sets up is      *)
(* whole.                                                                   *)
LEMMA FailuresConnect ==
  ASSUME TypeOK, ThreadsInv, MemoryInv, StageInv, FailuresInv,
         NEW c \in Controllers, ConnectAdminQueue(c), UNCHANGED sessionVars
  PROVE  FailuresInv'
<1>1. failed \subseteq failed' /\ (ListFailed => ListFailed')
  BY DEF ConnectAdminQueue, CreateAsyncSocket, AdminXportConnect, AllocateLookasideLists,
     AllocateSubmissionResources, AllocateReceiveResources, AdminSubmitReceiveRequests, Fails,
     ListFailed
<1>2. \/ lookaside' = "whole" \/ ListFailed'
      \/ lookaside' = lookaside /\ ~AllocateLookasideLists(c)
  BY DEF ConnectAdminQueue, CreateAsyncSocket, AdminXportConnect, AllocateLookasideLists,
     AllocateSubmissionResources, AllocateReceiveResources, AdminSubmitReceiveRequests, Fails,
     ListFailed
<1>3. /\ UNCHANGED <<on, released>> /\ \A u \in Threads \ {c} : pc'[u] = pc[u]
      /\ pc[c] \in ConnectPcs /\ pc'[c] \in ConnectPcs \cup {"failed", "connected"}
  BY DEF ConnectAdminQueue, CreateAsyncSocket, AdminXportConnect, AllocateLookasideLists,
     AllocateSubmissionResources, AllocateReceiveResources, AdminSubmitReceiveRequests,
     TypeOK, Threads
<1>4. \A d \in Controllers \ {c} :
        /\ sub'[d] = sub[d] /\ recv'[d] = recv[d]
        /\ lReceiveWorkRequestCount'[d] = lReceiveWorkRequestCount[d]
  BY DEF ConnectAdminQueue, CreateAsyncSocket, AdminXportConnect, AllocateLookasideLists,
     AllocateSubmissionResources, AllocateReceiveResources, AdminSubmitReceiveRequests,
     TypeOK, ResourceTypeOK
<1>5. ASSUME NEW d \in Controllers \ {c} PROVE FailuresOf(d)'
  <2>1. FailuresOf(d) /\ pc'[d] = pc[d] /\ (UsesLists(d)' <=> UsesLists(d))
    BY <1>3, <1>4 DEF FailuresInv, UsesLists, Threads
  <2>2. (\E t \in Threads : on[t] = d /\ pc[t] \in AfterFreeSub)
          => \E t \in Threads : on'[t] = d /\ pc'[t] \in AfterFreeSub
    BY <1>3
  <2> QED
    BY <1>1, <1>2, <1>3, <1>4, <2>1, <2>2 DEF FailuresOf
<1>6. FailuresOf(c)'
  <2>0. /\ FailuresOf(c) /\ ConnectOf(c)
        /\ UsesLists(c) => lookaside = "whole" \/ ListFailed \/ released # {}
    BY DEF FailuresInv, FailuresOf, StageInv
  <2>1. CASE CreateAsyncSocket(c)
    BY <1>1, <2>0, <2>1 DEF CreateAsyncSocket, FailuresOf, UsesLists, ConnectOf, TypeOK,
       ResourceTypeOK, Threads
  <2>2. CASE AdminXportConnect(c)
    BY <1>1, <2>0, <2>2 DEF AdminXportConnect, FailuresOf, UsesLists, ConnectOf, TypeOK,
       ResourceTypeOK, Threads
  <2>3. CASE AllocateLookasideLists(c)
    BY <1>1, <1>2, <2>0, <2>3 DEF AllocateLookasideLists, Fails, FailuresOf, UsesLists,
       TypeOK, ResourceTypeOK, Threads
  <2>4. CASE AllocateSubmissionResources(c)
    BY <1>1, <2>0, <2>4 DEF AllocateSubmissionResources, Fails, FailuresOf, UsesLists, TypeOK,
       ResourceTypeOK, Threads
  <2>5. CASE AllocateReceiveResources(c)
    BY <1>1, <2>0, <2>5 DEF AllocateReceiveResources, Fails, FailuresOf, UsesLists, TypeOK,
       ResourceTypeOK, Threads
  <2>6. CASE AdminSubmitReceiveRequests(c)
    BY <1>1, <2>0, <2>6 DEF AdminSubmitReceiveRequests, FailuresOf, UsesLists, TypeOK,
       ResourceTypeOK, Threads
  <2> QED
    BY <2>1, <2>2, <2>3, <2>4, <2>5, <2>6 DEF ConnectAdminQueue
<1> QED
  BY <1>1, <1>2, <1>5, <1>6 DEF FailuresInv

(* A teardown takes away what is its own, and the lists.                    *)
LEMMA FailuresTeardown ==
  ASSUME TypeOK, ThreadsInv, MemoryInv, FailuresInv, NEW t \in Threads, Teardown(t)
  PROVE  FailuresInv'
<1> DEFINE c == on[t]
<1>0. c \in Controllers /\ UNCHANGED <<on, failed>> /\ pc[t] \in TeardownPcs
      /\ (\A u \in Threads \ {t} : pc'[u] = pc[u]) /\ pc'[t] \in TeardownPcs \cup {"end"}
      /\ (ListFailed' <=> ListFailed)
  <2>1. c \in Controllers
    BY DEF TypeOK, ResourceTypeOK
  <2>2. FreeController(t) => pc'[t] = "end"
    BY DEF FreeController, TypeOK
  <2>3. UNCHANGED failed => (ListFailed' <=> ListFailed)
    BY DEF ListFailed
  <2> QED
    BY <2>1, <2>2, <2>3, TeardownMoves
<1>1. \A d \in Controllers \ {c} : /\ sub'[d] = sub[d] /\ recv'[d] = recv[d]
                                   /\ memory'[d] = memory[d]
  BY <1>0 DEF Teardown, DisconnectController, NvmeofDisconnect, DisconnectControllerIOQueues,
     ReleaseIOQResources, FreeController, DisconnectQp, AfterTest, CloseQueues, Drain,
     FreeSubmissionResources, FreeReceiveResources, FreeLookasideLists, DestroySocket,
     IoKeeps, TypeOK, ResourceTypeOK
<1>2. /\ UNCHANGED lReceiveWorkRequestCount
      /\ UNCHANGED <<lookaside, released>> \/ (lookaside' = "none" /\ released' # {})
      /\ released # {} => released' # {}
      /\ sub'[c] \in {"none", sub[c]} /\ recv'[c] \in {"none", recv[c]}
      /\ sub'[c] # sub[c] => pc'[t] = "freeRecv"
      /\ memory'[c] # memory[c] => memory'[c] = "freed"
      /\ pc[t] \in AfterFreeSub => memory'[c] = "freed" \/ pc'[t] \in AfterFreeSub
  <2> USE DEF TypeOK, ResourceTypeOK
  <2>1. CASE NvmeofDisconnect(t)
    BY <1>0, <2>1 DEF NvmeofDisconnect
  <2>2. CASE DisconnectControllerIOQueues(t)
    BY <1>0, <2>2 DEF DisconnectControllerIOQueues, IoKeeps
  <2>3. CASE ReleaseIOQResources(t)
    BY <1>0, <2>3 DEF ReleaseIOQResources, IoKeeps
  <2>4. CASE FreeController(t)
    BY <1>0, <2>4 DEF FreeController
  <2>5. CASE (DisconnectQp(t) \/ CloseQueues(t) \/ Drain(t) \/ DestroySocket(t))
             /\ UNCHANGED sessionVars
    BY <1>0, <2>5 DEF DisconnectQp, AfterTest, CloseQueues, Drain, DestroySocket
  <2>6. CASE FreeSubmissionResources(t) /\ UNCHANGED sessionVars
    BY <1>0, <2>6 DEF FreeSubmissionResources
  <2>7. CASE FreeReceiveResources(t) /\ UNCHANGED sessionVars
    BY <1>0, <2>7 DEF FreeReceiveResources
  <2>8. CASE FreeLookasideLists(t) /\ UNCHANGED sessionVars
    BY <1>0, <2>8 DEF FreeLookasideLists
  <2> QED
    BY <2>1, <2>2, <2>3, <2>4, <2>5, <2>6, <2>7, <2>8 DEF Teardown, DisconnectController
<1>3. \A d \in Controllers : pc'[d] \notin TeardownPcs \cup {"end"} => pc'[d] = pc[d]
  BY <1>0 DEF Threads
<1>4. ASSUME NEW d \in Controllers PROVE FailuresOf(d)'
  <2>0. FailuresOf(d)
    BY DEF FailuresInv
  <2>1. UsesLists(d)' => UsesLists(d)
    BY <1>1, <1>2, <1>3 DEF UsesLists
  <2>2. ASSUME sub[d] = "whole", sub'[d] # "whole"
        PROVE  \E u \in Threads : on'[u] = d /\ pc'[u] \in AfterFreeSub
    BY <1>0, <1>1, <1>2, <2>2
  <2>3. ASSUME memory[d] = "freed" PROVE memory'[d] = "freed"
    BY <1>1, <1>2, <2>3
  <2>4. ASSUME NEW u \in Threads, on[u] = d, pc[u] \in AfterFreeSub
        PROVE  memory'[d] = "freed" \/ \E v \in Threads : on'[v] = d /\ pc'[v] \in AfterFreeSub
    BY <1>0, <1>2, <2>4
  <2>5. /\ sub'[d] = "dangling" => sub[d] = "dangling"
        /\ recv'[d] = "dangling" => recv[d] = "dangling"
    BY <1>1, <1>2
  <2>6. pc'[d] = "post" => recv'[d] = recv[d]
    <3>1. CASE pc'[d] = "post" /\ d = c
      BY <1>0, <1>3, <3>1 DEF ThreadsInv, Threads
    <3> QED
      BY <1>1, <3>1
  <2> QED
    BY <1>0, <1>2, <1>3, <2>0, <2>1, <2>2, <2>3, <2>4, <2>5, <2>6 DEF FailuresOf
<1> QED
  BY <1>0, <1>2, <1>4 DEF FailuresInv

(* What is missing keeps having a reason.                                   *)
LEMMA FailuresStep ==
  ASSUME TypeOK, ThreadsInv, StageInv, MemoryInv, ListInv, CommandTypes, StatusInv,
         FailuresInv, [Next]_vars
  PROVE  FailuresInv'
<1>1. CASE Quiet
  BY <1>1, FailuresKept DEF Quiet, Unchanged
<1>2. ASSUME NEW c \in Controllers, Owns(c) PROVE FailuresInv'
  <2>1. CASE Fits(c) /\ AllocateAndInitializeController(c)
    <3>1. /\ UNCHANGED <<on, failed, bufferVars>>
          /\ pc[c] = "start" /\ pc'[c] \in {"socket", "end"}
          /\ \A u \in Threads \ {c} : pc'[u] = pc[u]
          /\ \A d \in Controllers \ {c} : memory'[d] = memory[d]
      BY <2>1 DEF AllocateAndInitializeController, TypeOK, Threads
    <3>2. memory[c] = "none"
      BY <3>1 DEF MemoryInv, MemoryOf
    <3> QED
      BY <3>1, <3>2, FailuresKept DEF Unchanged, Threads
  <2>2. CASE CommandStep(c)
    BY <2>2, FailuresKept DEF CommandStep, Unchanged
  <2>3. CASE ConnectAdminQueue(c) /\ UNCHANGED sessionVars
    BY <2>3, FailuresConnect
  <2>4. CASE ConnectIOQueues(c) \/ GiveUp(c)
    <3>1. pc[c] = "failed" => pc'[c] = "disconnect"
      BY <2>4 DEF ConnectIOQueues, ConnectControllerIOQueues, AllocateNodeQueues, CreateIOQ,
         AllocateAndInitializeRdmaIoReq, SetupNvmeofIOQueues, GiveUp,
         IOQDisconnectAndReleaseResources, TypeOK, Threads
    <3> QED
      BY <2>4, <3>1, OtherConnectMoves, FailuresKept DEF Unchanged, Threads
  <2> QED
    BY <1>2, <2>1, <2>2, <2>3, <2>4 DEF Owns, Connects
<1>3. ASSUME NEW r \in Requesters, Fits(r), QueuesBusy(r) PROVE FailuresInv'
  <2>1. UNCHANGED <<failed, bufferVars>>
    BY <1>3 DEF QueuesBusy
  <2> QED
    BY <1>3, <2>1, QueuesBusyMoves, FailuresKept, ThreadsAssumption DEF Unchanged, Threads
<1>4. ASSUME NEW r \in Requesters, NEW i \in DOMAIN sRdmaControllerHead,
             Finds(r, sRdmaControllerHead[i])
      PROVE  FailuresInv'
  BY <1>4, FindsMoves, FailuresKept, ThreadsAssumption DEF Unchanged, Threads
<1>5. ASSUME NEW t \in Threads, Fits(t), Teardown(t) PROVE FailuresInv'
  BY <1>5, FailuresTeardown
<1>6. ASSUME NEW c \in Controllers, Receives(c) PROVE FailuresInv'
  BY <1>6, FailuresKept DEF Receives, ConnectionLost, AdminRcqCallback, Fails, Unchanged
<1> QED
  BY <1>1, <1>2, <1>3, <1>4, <1>5, <1>6, NextCases

-----------------------------------------------------------------------------
(* Types.                                                                   *)

(* A step records the failure it is, of the controller it is about.         *)
LEMMA FailedTyped ==
  ASSUME TypeOK, CommandTypes, StatusInv, [Next]_vars
  PROVE  use' \in Uses /\ failed' \subseteq Controllers \X FailingSteps
<1> USE DEF FailingSteps
<1>0. use \in Uses /\ failed \subseteq Controllers \X FailingSteps
  BY DEF TypeOK, ResourceTypeOK
<1>1. CASE UNCHANGED vars
  BY <1>0, <1>1 DEF vars
<1>2. ASSUME NEW c \in Controllers, Owner(c) PROVE failed' \subseteq Controllers \X FailingSteps
  <2>1. CASE AllocateAndInitializeController(c) \/ GiveUp(c) \/ AnaPageOverflows(c)
    BY <1>0, <2>1 DEF AllocateAndInitializeController, GiveUp, AnaPageOverflows
  <2>2. CASE ConnectAdminQueue(c)
    BY <1>0, <2>2 DEF ConnectAdminQueue, CreateAsyncSocket, AdminXportConnect,
       AllocateLookasideLists, AllocateSubmissionResources, AllocateReceiveResources,
       AdminSubmitReceiveRequests, Fails
  <2>3. CASE FreesUnsetPointers(c)
    BY <1>0, <2>3 DEF FreesUnsetPointers
  <2>4. CASE Caller(c) \/ SubmitRequest(c) \/ Answered(c)
    BY <1>0, <2>4, CommandsKeep DEF CommandStep
  <2>5. CASE ConnectIOQueues(c)
    BY <1>0, <2>5 DEF ConnectIOQueues, ConnectControllerIOQueues, AllocateNodeQueues, CreateIOQ,
       AllocateAndInitializeRdmaIoReq, SetupNvmeofIOQueues, Fails
  <2> QED
    BY <1>2, <2>1, <2>2, <2>3, <2>4, <2>5 DEF Owner
<1>3. ASSUME NEW r \in Requesters, Requester(r) PROVE failed' = failed
  BY <1>3 DEF Requester, FindControllerByNQN, FindControllerByNQNAndTargetIP, Finds, QueuesBusy
<1>4. ASSUME NEW t \in Threads, TornDown(t) PROVE failed' = failed
  BY <1>4, TeardownMoves DEF TornDown, Stops
<1>5. ASSUME NEW c \in Controllers, Receives(c)
      PROVE  failed' \subseteq Controllers \X FailingSteps
  BY <1>0, <1>5 DEF Receives, ConnectionLost, AdminRcqCallback, Fails
<1> QED
  BY <1>0, <1>1, <1>2, <1>3, <1>4, <1>5 DEF Next

(* Something is touched that is not there for the first time: a thread      *)
(* stops, or frees a pointer nobody set, or writes past the page.           *)
LEMMA MisuseMoves ==
  ASSUME TypeOK, CommandTypes, StatusInv, Next
  PROVE  /\ misuse = {}
         /\ \/ misuse' = {}
            \/ \E t \in Threads : Stops(t)
            \/ \E c \in Controllers : FreesUnsetPointers(c) \/ AnaPageOverflows(c)
<1>1. ASSUME NEW c \in Controllers, Owner(c), ~FreesUnsetPointers(c), ~AnaPageOverflows(c)
      PROVE  misuse' = misuse
  <2>1. CASE AllocateAndInitializeController(c) \/ GiveUp(c)
    BY <2>1 DEF AllocateAndInitializeController, GiveUp
  <2>2. CASE ConnectAdminQueue(c)
    BY <2>2 DEF ConnectAdminQueue, CreateAsyncSocket, AdminXportConnect,
       AllocateLookasideLists, AllocateSubmissionResources, AllocateReceiveResources,
       AdminSubmitReceiveRequests
  <2>3. CASE Caller(c) \/ SubmitRequest(c) \/ Answered(c)
    BY <2>3, CommandsKeep DEF CommandStep
  <2>4. CASE ConnectIOQueues(c)
    BY <2>4 DEF ConnectIOQueues, ConnectControllerIOQueues, AllocateNodeQueues, CreateIOQ,
       AllocateAndInitializeRdmaIoReq, SetupNvmeofIOQueues, IoKeeps
  <2> QED
    BY <1>1, <2>1, <2>2, <2>3, <2>4 DEF Owner
<1>2. ASSUME NEW r \in Requesters, Requester(r) PROVE misuse' = misuse
  BY <1>2 DEF Requester, FindControllerByNQN, FindControllerByNQNAndTargetIP, Finds, QueuesBusy
<1>3. ASSUME NEW t \in Threads, Teardown(t) PROVE misuse' = misuse
  BY <1>3 DEF Teardown, NvmeofDisconnect, DisconnectControllerIOQueues,
     ReleaseIOQResources, DisconnectController, DisconnectQp, AfterTest, CloseQueues, Drain,
     FreeSubmissionResources, FreeReceiveResources, FreeLookasideLists, DestroySocket,
     FreeController, TeardownKeeps, IoKeeps
<1>4. ASSUME NEW c \in Controllers, Receives(c) PROVE misuse' = misuse
  BY <1>4 DEF Receives, ConnectionLost, AdminRcqCallback
<1>5. misuse = {}
  BY DEF Next, Owner, Requester, TornDown, Receives, Fits
<1> QED
  BY <1>1, <1>2, <1>3, <1>4, <1>5 DEF Next, TornDown

(* What a thread may touch is of the kinds listed.                          *)
MisuseKinds == {"controller", "lists", "submissions", "receives", "unset", "numa", "anaPage"}

(* And it is recorded with a controller and a kind.                         *)
LEMMA MisuseTyped ==
  ASSUME TypeOK, CommandTypes, StatusInv, [Next]_vars
  PROVE  misuse' \subseteq Controllers \X MisuseKinds
<1>1. CASE UNCHANGED vars
  BY <1>1 DEF vars, TypeOK, MisuseKinds
<1>2. ASSUME NEW t \in Threads, Stops(t) PROVE misuse' \subseteq Controllers \X MisuseKinds
  <2>1. Misuses(t) \subseteq MisuseKinds
    BY DEF Misuses, Missing, ConnectMisuses, TeardownMisuses, CommandMisuses, IoMisuses,
       ListsMissing, MisuseKinds
  <2>2. on[t] \in Controllers
    BY DEF TypeOK, ResourceTypeOK
  <2> QED
    BY <1>2, <2>1, <2>2 DEF Stops
<1>3. ASSUME NEW c \in Controllers, FreesUnsetPointers(c) \/ AnaPageOverflows(c)
      PROVE  misuse' \subseteq Controllers \X MisuseKinds
  BY <1>3 DEF FreesUnsetPointers, AnaPageOverflows, MisuseKinds
<1> QED
  BY <1>1, <1>2, <1>3, MisuseMoves

(* The types of the connect and of the teardown of an admin queue.          *)
BuffersTyped ==
  /\ pvSessionFabricCtx \in [Controllers -> {"null", "live", "dangling"}]
  /\ ulSockState \in [Controllers -> {"none", "Initialized", "Connected"}]
  /\ psNdkQp \in [Controllers -> {"null", "open", "closed"}]
  /\ lookaside \in {"none", "whole", "holed", "dangling"}
  /\ sub \in [Controllers -> {"none", "whole", "dangling"}]
  /\ recv \in [Controllers -> {"none", "whole", "dangling"}]
  /\ lReceiveWorkRequestCount \in [Controllers -> {0, NumReceives}]
  /\ released \subseteq Controllers

(* The counts of the receives and of the queue.                             *)
CountsTyped ==
  /\ lReceiveWorkRequestOutstanding \in [Controllers -> 0 .. NumReceives]
  /\ posted \in [Controllers -> 0 .. NumReceives]
  /\ rcq \in [Controllers -> 0 .. NumReceives]
  /\ lAdminQueueCount \in [Controllers -> {0, -1}]

(* A count may be set to any that the range allows.                         *)
LEMMA CountSet ==
  ASSUME NEW f \in [Controllers -> 0 .. NumReceives], NEW c \in Controllers,
         NEW n \in 0 .. NumReceives
  PROVE  [f EXCEPT ![c] = n] \in [Controllers -> 0 .. NumReceives]
OBVIOUS

(* The receives posted are as many as NumReceives at most.                  *)
LEMMA ConnectTyped ==
  ASSUME BuffersTyped, CountsTyped, NEW c \in Controllers, ConnectAdminQueue(c)
  PROVE  BuffersTyped' /\ CountsTyped'
<1>1. BuffersTyped'
  BY DEF ConnectAdminQueue, CreateAsyncSocket, AdminXportConnect, AllocateLookasideLists,
     AllocateSubmissionResources, AllocateReceiveResources, AdminSubmitReceiveRequests,
     BuffersTyped
<1>2. CASE AdminSubmitReceiveRequests(c)
  <2>0. lReceiveWorkRequestCount[c] \in {0, NumReceives}
    BY DEF BuffersTyped
  <2>1. PICK n \in 0 .. NumReceives : posted' = [posted EXCEPT ![c] = n]
    <3>1. CASE posted' = [posted EXCEPT ![c] = lReceiveWorkRequestCount[c]]
      <4>1. lReceiveWorkRequestCount[c] \in 0 .. NumReceives
        BY <2>0, NumReceivesAssumption
      <4> QED
        BY <3>1, <4>1
    <3>2. ASSUME NEW n \in 0 .. lReceiveWorkRequestCount[c] - 1,
                 posted' = [posted EXCEPT ![c] = n]
          PROVE  \E m \in 0 .. NumReceives : posted' = [posted EXCEPT ![c] = m]
      <4>1. n \in 0 .. NumReceives
        BY <2>0, <3>2, NumReceivesAssumption
      <4> QED
        BY <3>2, <4>1
    <3> QED
      BY <1>2, <3>1, <3>2 DEF AdminSubmitReceiveRequests
  <2>2. posted' \in [Controllers -> 0 .. NumReceives] /\ posted'[c] = n
    BY <2>1, CountSet DEF CountsTyped
  <2>3. lReceiveWorkRequestOutstanding' = [lReceiveWorkRequestOutstanding EXCEPT ![c] = n]
    BY <1>2, <2>2 DEF AdminSubmitReceiveRequests
  <2>4. lReceiveWorkRequestOutstanding' \in [Controllers -> 0 .. NumReceives]
    BY <2>3, CountSet DEF CountsTyped
  <2>5. UNCHANGED <<rcq, lAdminQueueCount>>
    BY <1>2 DEF AdminSubmitReceiveRequests
  <2> QED
    BY <1>1, <2>2, <2>4, <2>5 DEF CountsTyped
<1>3. CASE ~AdminSubmitReceiveRequests(c)
  <2>1. UNCHANGED <<receiveVars, lAdminQueueCount>>
    BY <1>3 DEF ConnectAdminQueue, CreateAsyncSocket, AdminXportConnect, AllocateLookasideLists,
       AllocateSubmissionResources, AllocateReceiveResources
  <2> QED
    BY <1>1, <2>1 DEF CountsTyped
<1> QED
  BY <1>1, <1>2, <1>3

(* A flush moves receives that are counted, so that the queue has room for  *)
(* them.                                                                    *)
LEMMA FlushTyped ==
  ASSUME CountsTyped, NEW c \in Controllers, ConnectOf(c), Flushed(c)
  PROVE  /\ posted' \in [Controllers -> 0 .. NumReceives]
         /\ rcq' \in [Controllers -> 0 .. NumReceives]
         /\ UNCHANGED lReceiveWorkRequestOutstanding
<1>1. posted[c] + rcq[c] \in 0 .. NumReceives
  BY NumReceivesAssumption DEF CountsTyped, ConnectOf
<1>2. 0 \in 0 .. NumReceives
  BY NumReceivesAssumption
<1>3. rcq[c] + posted[c] \in 0 .. NumReceives
  BY <1>1 DEF CountsTyped
<1> HIDE DEF receiveVars
<1> QED
  BY <1>2, <1>3, CountSet DEF CountsTyped, Flushed

(* The socket of a controller is destroyed once.                            *)
LEMMA TeardownTyped ==
  ASSUME ThreadsInv, CountInv, MemoryInv, StageInv, TypeOK, BuffersTyped, CountsTyped,
         NEW t \in Threads, DisconnectController(t)
  PROVE  BuffersTyped' /\ CountsTyped'
<1>0. on[t] \in Controllers /\ ConnectOf(on[t])
  BY DEF TypeOK, ResourceTypeOK, StageInv
<1>1. BuffersTyped'
  BY <1>0 DEF DisconnectController, DisconnectQp, AfterTest, CloseQueues, Drain, FreeSubmissionResources,
     FreeReceiveResources, FreeLookasideLists, DestroySocket, BuffersTyped
<1>2. CASE DisconnectQp(t)
  <2>1. UNCHANGED lAdminQueueCount /\ (Flushed(on[t]) \/ UNCHANGED receiveVars)
    BY <1>2 DEF DisconnectQp, AfterTest
  <2>2. CASE Flushed(on[t])
    BY <1>1, <1>0, <2>1, <2>2, FlushTyped DEF CountsTyped
  <2>3. CASE UNCHANGED receiveVars
    BY <1>1, <2>1, <2>3 DEF CountsTyped
  <2> QED
    BY <2>1, <2>2, <2>3
<1>3. CASE DestroySocket(t)
  <2>1. lAdminQueueCount[on[t]] = 0
    BY <1>0, <1>3, OneTeardown DEF CountInv, DestroySocket, MemoryInv
  <2>2. lAdminQueueCount' = [lAdminQueueCount EXCEPT ![on[t]] = 0 - 1] /\ UNCHANGED receiveVars
    BY <1>3, <2>1 DEF DestroySocket
  <2>3. lAdminQueueCount' \in [Controllers -> {0, -1}]
    BY <1>0, <2>2 DEF CountsTyped
  <2> QED
    BY <1>1, <2>2, <2>3 DEF CountsTyped
<1>4. CASE CloseQueues(t)
  <2>1. 0 \in 0 .. NumReceives
    BY NumReceivesAssumption
  <2>2. rcq' \in [Controllers -> 0 .. NumReceives]
    BY <1>0, <1>4, <2>1, CountSet DEF CloseQueues, CountsTyped
  <2>3. UNCHANGED <<lReceiveWorkRequestOutstanding, posted, lAdminQueueCount>>
    BY <1>4 DEF CloseQueues
  <2> QED
    BY <1>1, <2>2, <2>3 DEF CountsTyped
<1>5. CASE Drain(t) \/ FreeSubmissionResources(t) \/ FreeReceiveResources(t)
           \/ FreeLookasideLists(t)
  <2>1. UNCHANGED <<receiveVars, lAdminQueueCount>>
    BY <1>5 DEF Drain, FreeSubmissionResources, FreeReceiveResources, FreeLookasideLists
  <2> QED
    BY <1>1, <2>1 DEF CountsTyped
<1> QED
  BY <1>1, <1>2, <1>3, <1>4, <1>5 DEF DisconnectController

(* A callback takes a receive that is counted.                              *)
LEMMA ReceivesTyped ==
  ASSUME BuffersTyped, CountsTyped, NEW c \in Controllers, ConnectOf(c),
         ConnectionLost(c) \/ AdminRcqCallback(c)
  PROVE  BuffersTyped' /\ CountsTyped'
<1>1. BuffersTyped'
  BY DEF ConnectionLost, AdminRcqCallback, BuffersTyped
<1>2. CASE ConnectionLost(c)
  <2>1. Flushed(c) /\ UNCHANGED lAdminQueueCount
    BY <1>2 DEF ConnectionLost
  <2> QED
    BY <1>1, <2>1, FlushTyped DEF CountsTyped
<1>3. CASE AdminRcqCallback(c)
  <2>1. /\ rcq[c] - 1 \in 0 .. NumReceives
        /\ lReceiveWorkRequestOutstanding[c] - 1 \in 0 .. NumReceives
    BY <1>3, NumReceivesAssumption DEF AdminRcqCallback, ConnectOf, CountsTyped
  <2>2. /\ rcq' = [rcq EXCEPT ![c] = rcq[c] - 1]
        /\ lReceiveWorkRequestOutstanding' =
             [lReceiveWorkRequestOutstanding EXCEPT ![c] = lReceiveWorkRequestOutstanding[c] - 1]
        /\ UNCHANGED <<posted, lAdminQueueCount>>
    BY <1>3 DEF AdminRcqCallback
  <2>3. rcq' \in [Controllers -> 0 .. NumReceives]
    BY <2>1, <2>2, CountSet DEF CountsTyped
  <2>4. lReceiveWorkRequestOutstanding' \in [Controllers -> 0 .. NumReceives]
    BY <2>1, <2>2, CountSet DEF CountsTyped
  <2> QED
    BY <1>1, <2>2, <2>3, <2>4 DEF CountsTyped
<1> QED
  BY <1>1, <1>2, <1>3

(* Where the threads are and on what, and the I/O queues and their marks.   *)
PlacesTyped ==
  /\ on \in [Threads -> Controllers]
  /\ pc \in [Threads -> {"start", "failed", "connected", "running", "idle", "ask", "end"}
                          \cup ConnectPcs \cup IoPcs \cup TeardownPcs]
  /\ memory \in [Controllers -> {"none", "live", "freed"}]

(* The I/O queues and their marks.                                          *)
IoTyped ==
  /\ psNumaSQPair \in [Controllers -> {"none", "nodes", "queues"}]
  /\ usNumaNodeCount \in [Controllers -> {0, 1}]
  /\ lSQQueueCount \in [Controllers -> {0, NumIOQueues}]
  /\ ioConnected \in [Controllers -> SUBSET QueueIds]
  /\ ioRequests \in [Controllers -> SUBSET QueueIds]
  /\ lBusy \in [Controllers -> SUBSET ({0} \cup QueueIds)]
  /\ walked \in [Requesters -> 0 .. NumIOQueues]

(* A thread goes to a step, and works on a controller of the list.          *)
LEMMA PlacesStep ==
  ASSUME TypeOK, ListInv, CommandTypes, StatusInv, [Next]_vars
  PROVE  PlacesTyped'
<1>0. PlacesTyped /\ \A t \in Threads : on[t] \in Controllers
  BY DEF TypeOK, ResourceTypeOK, PlacesTyped
<1> USE DEF PlacesTyped
<1>1. CASE Quiet
  BY <1>0, <1>1 DEF Quiet
<1>2. ASSUME NEW c \in Controllers, Owns(c) PROVE PlacesTyped'
  <2>0. c \in Threads
    BY DEF Threads
  <2>1. CASE Fits(c) /\ AllocateAndInitializeController(c)
    BY <1>0, <2>0, <2>1 DEF AllocateAndInitializeController
  <2>2. CASE CommandStep(c)
    BY <1>0, <2>2 DEF CommandStep
  <2>3. CASE ConnectAdminQueue(c) /\ UNCHANGED sessionVars
    BY <1>0, <2>0, <2>3 DEF ConnectAdminQueue, CreateAsyncSocket, AdminXportConnect,
       AllocateLookasideLists, AllocateSubmissionResources, AllocateReceiveResources,
       AdminSubmitReceiveRequests
  <2>4. CASE ConnectIOQueues(c) \/ GiveUp(c)
    BY <1>0, <2>0, <2>4 DEF ConnectIOQueues, ConnectControllerIOQueues, AllocateNodeQueues,
       CreateIOQ, AllocateAndInitializeRdmaIoReq, SetupNvmeofIOQueues, GiveUp, IoKeeps,
       IOQDisconnectAndReleaseResources
  <2> QED
    BY <1>2, <2>1, <2>2, <2>3, <2>4 DEF Owns, Connects
<1>3. ASSUME NEW r \in Requesters, Fits(r), QueuesBusy(r) PROVE PlacesTyped'
  BY <1>0, <1>3 DEF QueuesBusy, Threads
<1>4. ASSUME NEW r \in Requesters, NEW i \in DOMAIN sRdmaControllerHead,
             Finds(r, sRdmaControllerHead[i])
      PROVE  PlacesTyped'
  <2>1. sRdmaControllerHead[i] \in Controllers /\ r \in Threads
    BY DEF ListInv, Threads
  <2> QED
    BY <1>0, <1>4, <2>1 DEF Finds
<1>5. ASSUME NEW t \in Threads, Fits(t), Teardown(t) PROVE PlacesTyped'
  BY <1>0, <1>5 DEF Teardown, NvmeofDisconnect, DisconnectControllerIOQueues,
     ReleaseIOQResources, DisconnectController, DisconnectQp, AfterTest, CloseQueues, Drain,
     FreeSubmissionResources, FreeReceiveResources, FreeLookasideLists, DestroySocket,
     FreeController, TeardownKeeps, IoKeeps
<1>6. ASSUME NEW c \in Controllers, Receives(c) PROVE PlacesTyped'
  BY <1>0, <1>6 DEF Receives, ConnectionLost, AdminRcqCallback
<1> QED
  BY <1>1, <1>2, <1>3, <1>4, <1>5, <1>6, NextCases

(* The admin queues keep their types.                                       *)
LEMMA BuffersStep ==
  ASSUME TypeOK, ThreadsInv, MemoryInv, StageInv, CountInv, ListInv, CommandTypes, StatusInv,
         [Next]_vars
  PROVE  BuffersTyped' /\ CountsTyped'
<1>0. BuffersTyped /\ CountsTyped
  BY DEF TypeOK, ResourceTypeOK, BuffersTyped, CountsTyped
<1>a. UNCHANGED resourceVars => BuffersTyped' /\ CountsTyped'
  BY <1>0 DEF BuffersTyped, CountsTyped
<1>1. CASE Quiet
  BY <1>a, <1>1 DEF Quiet
<1>2. ASSUME NEW c \in Controllers, Owns(c) PROVE BuffersTyped' /\ CountsTyped'
  <2>1. CASE Fits(c) /\ AllocateAndInitializeController(c)
    BY <1>a, <2>1 DEF AllocateAndInitializeController
  <2>2. CASE CommandStep(c)
    BY <1>a, <2>2 DEF CommandStep
  <2>3. CASE ConnectAdminQueue(c)
    BY <1>0, <2>3, ConnectTyped
  <2>4. CASE ConnectIOQueues(c) \/ GiveUp(c)
    BY <1>a, <2>4, OtherConnectMoves
  <2> QED
    BY <1>2, <2>1, <2>2, <2>3, <2>4 DEF Owns, Connects
<1>3. ASSUME NEW r \in Requesters, Fits(r), QueuesBusy(r) PROVE BuffersTyped' /\ CountsTyped'
  BY <1>a, <1>3 DEF QueuesBusy
<1>4. ASSUME NEW r \in Requesters, NEW i \in DOMAIN sRdmaControllerHead,
             Finds(r, sRdmaControllerHead[i])
      PROVE  BuffersTyped' /\ CountsTyped'
  BY <1>a, <1>4 DEF Finds
<1>5. ASSUME NEW t \in Threads, Fits(t), Teardown(t) PROVE BuffersTyped' /\ CountsTyped'
  <2>1. CASE DisconnectController(t)
    BY <1>0, <2>1, TeardownTyped
  <2>2. CASE ~DisconnectController(t)
    BY <1>a, <1>5, <2>2 DEF Teardown, NvmeofDisconnect, DisconnectControllerIOQueues,
       ReleaseIOQResources, FreeController, IoKeeps
  <2> QED
    BY <2>1, <2>2
<1>6. ASSUME NEW c \in Controllers, Receives(c) PROVE BuffersTyped' /\ CountsTyped'
  BY <1>0, <1>6, ReceivesTyped DEF Receives, StageInv
<1> QED
  BY <1>1, <1>2, <1>3, <1>4, <1>5, <1>6, NextCases

(* Queues are connected up to NumIOQueues, and marked.                      *)
LEMMA IoStep ==
  ASSUME TypeOK, QueuesInv, ListInv, CommandTypes, StatusInv, [Next]_vars
  PROVE  IoTyped'
<1>0. IoTyped /\ \A t \in Threads : on[t] \in Controllers
  BY DEF TypeOK, ResourceTypeOK, IoTyped
<1>a. UNCHANGED <<ioVars, gateVars>> => IoTyped'
  BY <1>0 DEF IoTyped
<1>b. ASSUME NEW c \in Controllers, NEW from, IOQDisconnectAndReleaseResources(c, from),
             UNCHANGED gateVars
      PROVE  IoTyped'
  BY <1>0, <1>b DEF IOQDisconnectAndReleaseResources, IOQueuesDisconnect, IOQReleaseResources,
     IoTyped
<1>1. CASE Quiet
  BY <1>a, <1>1 DEF Quiet
<1>2. ASSUME NEW c \in Controllers, Owns(c) PROVE IoTyped'
  <2>1. CASE Fits(c) /\ AllocateAndInitializeController(c)
    BY <1>a, <2>1 DEF AllocateAndInitializeController
  <2>2. CASE CommandStep(c)
    BY <1>a, <2>2 DEF CommandStep
  <2>3. CASE ConnectAdminQueue(c) /\ UNCHANGED sessionVars
    BY <1>a, <2>3
  <2>4. CASE ConnectControllerIOQueues(c)
    BY <1>0, <2>4 DEF ConnectControllerIOQueues, IoKeeps, IoTyped
  <2>5. CASE AllocateNodeQueues(c)
    BY <1>0, <1>b, <2>5 DEF AllocateNodeQueues, IoKeeps, IoTyped
  <2>6. CASE CreateIOQ(c)
    <3>1. ASSUME pc[c] = "createIOQ" PROVE NextQueue(c) \in QueueIds
      <4>1. PICK k \in 0 .. NumIOQueues - 1 : ioConnected[c] = 1 .. k
        BY <3>1 DEF QueuesInv, QueuesOf
      <4>2. Cardinality(1 .. k) = k
        BY <4>1, FS_Interval, NumIOQueuesAssumption
      <4> QED
        BY <4>1, <4>2, NumIOQueuesAssumption DEF NextQueue, QueueIds
    <3> HIDE DEF NextQueue, QueueIds
    <3> QED
      BY <1>0, <1>b, <2>6, <3>1 DEF CreateIOQ, IoKeeps, IoTyped
  <2>7. CASE AllocateAndInitializeRdmaIoReq(c)
    BY <1>0, <1>b, <2>7 DEF AllocateAndInitializeRdmaIoReq, IoKeeps, IoTyped
  <2>8. CASE SetupNvmeofIOQueues(c) \/ GiveUp(c)
    BY <1>a, <2>8 DEF SetupNvmeofIOQueues, GiveUp
  <2> QED
    BY <1>2, <2>1, <2>2, <2>3, <2>4, <2>5, <2>6, <2>7, <2>8 DEF Owns, Connects, ConnectIOQueues
<1>3. ASSUME NEW r \in Requesters, Fits(r), QueuesBusy(r) PROVE IoTyped'
  <2>1. on[r] \in Controllers
    BY <1>0 DEF Threads
  <2>2. NextId(r) \in 0 .. NumIOQueues /\ NextId(r) \in {0} \cup QueueIds
    BY <1>0, NumIOQueuesAssumption DEF NextId, IoTyped, QueueIds
  <2>3. UNCHANGED ioVars
    BY <1>3 DEF QueuesBusy
  <2> HIDE DEF NextId
  <2>4. lBusy' \in [Controllers -> SUBSET ({0} \cup QueueIds)]
    BY <1>0, <1>3, <2>1, <2>2 DEF QueuesBusy, IoTyped
  <2>5. walked' \in [Requesters -> 0 .. NumIOQueues]
    BY <1>0, <1>3, <2>2 DEF QueuesBusy, IoTyped
  <2> QED
    BY <1>0, <2>3, <2>4, <2>5 DEF IoTyped
<1>4. ASSUME NEW r \in Requesters, NEW i \in DOMAIN sRdmaControllerHead,
             Finds(r, sRdmaControllerHead[i])
      PROVE  IoTyped'
  BY <1>a, <1>4 DEF Finds
<1>5. ASSUME NEW t \in Threads, Fits(t), Teardown(t) PROVE IoTyped'
  <2>1. CASE DisconnectControllerIOQueues(t)
    BY <1>0, <2>1 DEF DisconnectControllerIOQueues, IOQueuesDisconnect, IoKeeps, IoTyped
  <2>2. CASE ReleaseIOQResources(t)
    BY <1>0, <2>2 DEF ReleaseIOQResources, IOQReleaseResources, IoKeeps, IoTyped
  <2>3. CASE NvmeofDisconnect(t) \/ FreeController(t)
             \/ (DisconnectController(t) /\ UNCHANGED sessionVars)
    BY <1>a, <2>3 DEF NvmeofDisconnect, FreeController
  <2> QED
    BY <1>5, <2>1, <2>2, <2>3 DEF Teardown
<1>6. ASSUME NEW c \in Controllers, Receives(c) PROVE IoTyped'
  BY <1>a, <1>6 DEF Receives
<1> QED
  BY <1>1, <1>2, <1>3, <1>4, <1>5, <1>6, NextCases

(* A command changes what it is about, and nothing else does.               *)
LEMMA CommandsStep ==
  ASSUME TypeOK, CommandTypes, StatusInv, [Next]_vars
  PROVE  CommandTypes' /\ StatusInv'
<1>0. UNCHANGED commandVars => CommandTypes' /\ StatusInv'
  BY DEF CommandTypes, StatusInv
<1>1. ASSUME NEW c \in Controllers, Owner(c) PROVE CommandTypes' /\ StatusInv'
  <2>1. CASE Caller(c) \/ SubmitRequest(c) \/ Answered(c)
    BY <2>1, CommandsKeep
  <2>2. CASE AllocateAndInitializeController(c) \/ GiveUp(c) \/ AnaPageOverflows(c)
             \/ ((ConnectAdminQueue(c) \/ FreesUnsetPointers(c)) /\ UNCHANGED sessionVars)
    BY <1>0, <2>2 DEF AllocateAndInitializeController, GiveUp, AnaPageOverflows
  <2>3. CASE ConnectIOQueues(c)
    BY <1>0, <2>3 DEF ConnectIOQueues, ConnectControllerIOQueues, AllocateNodeQueues, CreateIOQ,
       AllocateAndInitializeRdmaIoReq, SetupNvmeofIOQueues, IoKeeps
  <2> QED
    BY <1>1, <2>1, <2>2, <2>3 DEF Owner
<1>2. ASSUME NEW r \in Requesters, Requester(r) PROVE UNCHANGED commandVars
  BY <1>2 DEF Requester, FindControllerByNQN, FindControllerByNQNAndTargetIP, Finds, QueuesBusy
<1>3. ASSUME NEW t \in Threads, TornDown(t) PROVE UNCHANGED commandVars
  BY <1>3 DEF TornDown, Stops, Teardown, NvmeofDisconnect, DisconnectControllerIOQueues,
     ReleaseIOQResources, FreeController, IoKeeps
<1>4. ASSUME NEW c \in Controllers, Receives(c) PROVE UNCHANGED commandVars
  BY <1>4 DEF Receives
<1>5. CASE UNCHANGED vars
  BY <1>0, <1>5 DEF vars
<1> QED
  BY <1>0, <1>1, <1>2, <1>3, <1>4, <1>5 DEF Next

(* Every variable keeps its type.                                           *)
LEMMA TypeStep ==
  ASSUME TypeOK, ThreadsInv, MemoryInv, StageInv, CountInv, QueuesInv, ListInv, StatusInv,
         [Next]_vars
  PROVE  TypeOK'
<1>0. CommandTypes
  BY DEF TypeOK, CommandTypes
<1>1. CommandTypes' /\ PlacesTyped' /\ BuffersTyped' /\ CountsTyped' /\ IoTyped'
  BY <1>0, CommandsStep, PlacesStep, BuffersStep, IoStep
<1>2. /\ use' \in Uses /\ failed' \subseteq Controllers \X FailingSteps
      /\ misuse' \subseteq Controllers \X MisuseKinds
  BY <1>0, FailedTyped, MisuseTyped
<1>3. ResourceTypeOK'
  BY <1>1, <1>2 DEF ResourceTypeOK, PlacesTyped, BuffersTyped, CountsTyped
<1>4. \A i \in DOMAIN sRdmaControllerHead' : memory'[sRdmaControllerHead'[i]] = "live"
  <2>1. ListInv'
    BY <1>0, ListStep
  <2> QED
    BY <2>1 DEF ListInv, Listed
<1> QED
  BY <1>1, <1>2, <1>3, <1>4 DEF TypeOK, CommandTypes, PlacesTyped, IoTyped, MisuseKinds

-----------------------------------------------------------------------------
(* What is touched that is not there.                                       *)

(* The explanation MemorySafe asks for, kind by kind.                       *)
Explained(c, what) ==
  /\ what = "lists" => ListFailed \/ released \ {c} # {} \/ (released # {} /\ InCommand(c))
  /\ what = "submissions" =>
       \/ ListFailed \/ InCommand(c)
       \/ <<c, "submission">> \in failed \/ <<c, "submissionLoop">> \in failed
  /\ what = "receives" => <<c, "receive">> \in failed \/ <<c, "receiveLoop">> \in failed
  /\ what = "unset" => <<c, "submissionLoop">> \in failed \/ <<c, "receiveLoop">> \in failed
  /\ what = "numa" => 0 \in lBusy[c] /\ Listed(c)
  /\ what = "anaPage" => psNVMeoFNSANALogPage[c] = "few" /\ groups[c] = "many"
  /\ what = "controller" =>
       ~Listed(c) /\ (InCommand(c) \/ \E r \in Requesters : on[r] = c /\ pc[r] = "ask")

(* The explanations are those of MemorySafe.                                *)
LEMMA ExplainedSafe ==
  misuse \subseteq Controllers \X MisuseKinds /\ (\A m \in misuse : Explained(m[1], m[2]))
    => MemorySafe
<1> SUFFICES ASSUME misuse \subseteq Controllers \X MisuseKinds,
                    \A m \in misuse : Explained(m[1], m[2])
             PROVE  MemorySafe
  OBVIOUS
<1>1. ListFailed => \E d \in Controllers : \E s \in {"firstList", "list"} : <<d, s>> \in failed
  BY DEF ListFailed
<1>2. SUFFICES ASSUME NEW m \in misuse
               PROVE  LET c == m[1]
                          didFail(steps) == \E s \in steps : <<c, s>> \in failed
                          listsFailed == \E d \in Controllers :
                                           \E s \in {"firstList", "list"} : <<d, s>> \in failed
                      IN CASE m[2] = "lists" ->
                                listsFailed \/ released \ {c} # {}
                                  \/ (released # {} /\ InCommand(c))
                           [] m[2] = "submissions" ->
                                listsFailed \/ didFail({"submission", "submissionLoop"})
                                  \/ InCommand(c)
                           [] m[2] = "receives" -> didFail({"receive", "receiveLoop"})
                           [] m[2] = "unset" -> didFail({"submissionLoop", "receiveLoop"})
                           [] m[2] = "numa" ->
                                /\ 0 \in lBusy[c]
                                /\ \E i \in DOMAIN sRdmaControllerHead :
                                     sRdmaControllerHead[i] = c
                           [] m[2] = "anaPage" ->
                                psNVMeoFNSANALogPage[c] = "few" /\ groups[c] = "many"
                           [] m[2] = "controller" ->
                                /\ \A i \in DOMAIN sRdmaControllerHead :
                                     sRdmaControllerHead[i] # c
                                /\ InCommand(c)
                                     \/ \E r \in Requesters : on[r] = c /\ pc[r] = "ask"
  BY DEF MemorySafe
<1>3. Explained(m[1], m[2]) /\ m[2] \in MisuseKinds
  OBVIOUS
<1> QED
  BY <1>1, <1>3, ZenonT(30) DEF Explained, Listed, MisuseKinds

(* While a controller is set up, and until the one that tears it down gets  *)
(* to the lists, it has not released them.                                  *)
LEMMA NotReleased ==
  ASSUME TypeOK, ThreadsInv, ReleasedInv, NEW c \in Controllers, memory[c] # "freed",
         \/ pc[c] \in {"connected"} \cup ConnectPcs \cup IoPcs
         \/ \E t \in Threads : on[t] = c /\ pc[t] \in TeardownPcs \ AfterFreeLists
  PROVE  c \notin released
BY NoTeardown, OneTeardown DEF ReleasedInv

(* What a thread would touch without its being there is explained: by a     *)
(* failure, by the release of another controller, or by the race the kind   *)
(* stands for.                                                              *)
LEMMA StopExplained ==
  ASSUME TypeOK, ThreadsInv, MemoryInv, ListInv, ReleasedInv, QueuesInv, FailuresInv,
         NEW t \in Threads, NEW w \in Misuses(t)
  PROVE  Explained(on[t], w)
<1> DEFINE c == on[t]
<1>0. /\ c \in Controllers /\ (t \in Controllers => c = t)
      /\ t \in Requesters \/ (t \in Controllers /\ pc[t] \in OwnerPcs)
      /\ t \in Requesters => pc[t] \in RequesterPcs /\ on[t] = c
      /\ t \in Requesters /\ pc[t] \in {"ask"} \cup TeardownPcs => pc[c] = "running"
  BY DEF TypeOK, ResourceTypeOK, ThreadsInv, Threads
<1>1. MemoryOf(c) /\ FailuresOf(c) /\ QueuesOf(c)
      /\ (Listed(c) <=> pc[c] = "running" /\ memory[c] = "live")
      /\ (pc[t] \in TeardownPcs => memory[c] = "live")
      /\ memory[c] \in {"none", "live", "freed"}
  BY <1>0 DEF MemoryInv, FailuresInv, QueuesInv, ListInv, TypeOK
<1>2. CASE memory[c] = "freed"
  <2>1. w = "controller" /\ Touches(t)
    BY <1>2 DEF Misuses, Missing
  <2>2. InCommand(c) \/ \E r \in Requesters : on[r] = c /\ pc[r] = "ask"
    BY <1>0, <1>1, <1>2, <2>1 DEF Touches, MemoryOf, OwnerPcs, RequesterPcs
  <2> QED
    BY <1>1, <1>2, <2>1, <2>2 DEF Explained
<1>3. CASE memory[c] # "freed"
  <2>1. w \in ConnectMisuses(t) \cup TeardownMisuses(t) \cup CommandMisuses(t) \cup IoMisuses(t)
    BY <1>3 DEF Misuses
  <2>2. \A u \in Threads : on[u] = c /\ pc[u] \in TeardownPcs /\ pc[t] \in TeardownPcs => u = t
    BY OneTeardown
  <2>3. CASE w = "lists"
    <3>1. CASE pc[t] = "freeLists" /\ lookaside = "dangling"
      BY <2>3, <3>1 DEF Explained, FailuresInv
    <3>2. CASE t \in Controllers /\ InCommand(t) /\ lookaside # "whole"
      BY <1>0, <1>1, <2>3, <3>2 DEF Explained, FailuresOf, UsesLists, MemoryOf
    <3>3. CASE lookaside # "whole" /\ UsesLists(c)
               /\ (pc[c] \in ConnectPcs \cup IoPcs \/ pc[t] \in TeardownPcs \ AfterFreeLists)
      BY <1>0, <1>1, <1>3, <2>3, <3>3, NotReleased DEF Explained, FailuresOf
    <3>4. /\ pc[t] \in {"submission", "receive", "ioRequests"} => t \in Controllers
          /\ pc[t] = "nvmeofDisconnect" => t \in Requesters
      BY <1>0 DEF RequesterPcs, OwnerPcs
    <3> QED
      BY <1>0, <2>1, <2>3, <3>1, <3>2, <3>3, <3>4
         DEF ConnectMisuses, TeardownMisuses, CommandMisuses, IoMisuses, ListsMissing, Missing,
             UsesLists
  <2>4. CASE w = "submissions"
    <3>1. CASE pc[t] = "freeSub" /\ sub[c] = "dangling"
      BY <1>1, <2>4, <3>1 DEF Explained, FailuresOf
    <3>2. CASE t \in Controllers /\ InCommand(t)
      BY <1>0, <2>4, <3>2 DEF Explained
    <3>3. CASE pc[t] = "nvmeofDisconnect" /\ sub[c] # "whole"
      <4>1. pc[c] = "running"
        BY <1>0, <3>3 DEF OwnerPcs
      <4> QED
        BY <1>0, <1>1, <1>3, <2>2, <2>4, <3>3, <4>1 DEF Explained, FailuresOf
    <3> QED
      BY <2>1, <2>4, <3>1, <3>2, <3>3
         DEF ConnectMisuses, TeardownMisuses, CommandMisuses, IoMisuses, ListsMissing, Missing
  <2>5. CASE w = "receives"
    <3>1. CASE pc[t] = "freeRecv" /\ recv[c] = "dangling"
      BY <1>1, <2>5, <3>1 DEF Explained, FailuresOf
    <3>2. CASE pc[t] = "post" /\ lReceiveWorkRequestCount[c] > 0 /\ recv[c] # "whole"
      BY <1>0, <1>1, <2>5, <3>2 DEF Explained, FailuresOf, RequesterPcs
    <3> QED
      BY <2>1, <2>5, <3>1, <3>2
         DEF ConnectMisuses, TeardownMisuses, CommandMisuses, IoMisuses, ListsMissing, Missing
  <2>6. CASE w = "numa"
    <3>1. pc[t] = "ask" /\ psNumaSQPair[c] = "none"
      BY <2>1, <2>6 DEF ConnectMisuses, TeardownMisuses, CommandMisuses, IoMisuses, ListsMissing,
         Missing, QueuesInv
    <3> QED
      BY <1>0, <1>1, <1>3, <2>6, <3>1 DEF Explained, QueuesOf, MemoryOf, OwnerPcs
  <2> QED
    BY <2>1, <2>3, <2>4, <2>5, <2>6
       DEF ConnectMisuses, TeardownMisuses, CommandMisuses, IoMisuses, ListsMissing, Missing
<1> QED
  BY <1>2, <1>3

(* What is touched first stays explained, since nothing happens after.      *)
LEMMA MisuseStep ==
  ASSUME TypeOK, ThreadsInv, MemoryInv, ListInv, ReleasedInv, QueuesInv, FailuresInv,
         CommandTypes, StatusInv, MemorySafe, [Next]_vars
  PROVE  MemorySafe'
<1>1. CASE UNCHANGED vars
  BY <1>1, ZenonT(30) DEF vars, MemorySafe
<1>2. misuse' \subseteq Controllers \X MisuseKinds
  BY MisuseTyped
<1>3. ASSUME Next, \A m \in misuse' : Explained(m[1], m[2])' PROVE MemorySafe'
  <2>1. (misuse \subseteq Controllers \X MisuseKinds /\ (\A m \in misuse : Explained(m[1], m[2]))
           => MemorySafe)'
    BY ExplainedSafe, PTL
  <2> QED
    BY <1>2, <1>3, <2>1
<1>4. ASSUME NEW t \in Threads, Stops(t), Next PROVE MemorySafe'
  <2>1. SUFFICES ASSUME NEW w \in Misuses(t) PROVE Explained(on[t], w)'
    BY <1>3, <1>4 DEF Stops
  <2>2. Explained(on[t], w)
    BY StopExplained
  <2> QED
    BY <1>4, <2>2 DEF Stops, Explained, ListFailed, Listed
<1>5. ASSUME NEW c \in Controllers, FreesUnsetPointers(c), Next PROVE MemorySafe'
  <2>1. misuse' = {<<c, "unset">>}
        /\ (<<c, "submissionLoop">> \in failed' \/ <<c, "receiveLoop">> \in failed')
    BY <1>5 DEF FreesUnsetPointers
  <2> QED
    BY <1>3, <1>5, <2>1 DEF Explained
<1>6. ASSUME NEW c \in Controllers, AnaPageOverflows(c), Next PROVE MemorySafe'
  BY <1>3, <1>6 DEF AnaPageOverflows, Overflows, Explained
<1>7. CASE Next /\ misuse' = {}
  BY <1>7 DEF MemorySafe
<1> QED
  BY <1>1, <1>4, <1>5, <1>6, <1>7, MisuseMoves

-----------------------------------------------------------------------------
(* The invariant of the whole module.                                       *)
IInv ==
  /\ TypeOK /\ ThreadsInv /\ MemoryInv /\ ListInv /\ StageInv
  /\ CountInv /\ ReleasedInv /\ HolderInv /\ QueuesInv
  /\ FailuresInv /\ StatusInv /\ MemorySafe

(* The initial states have the types.                                       *)
LEMMA InitTyped == Init => TypeOK
<1> SUFFICES ASSUME Init PROVE TypeOK
  OBVIOUS
<1>1. ResourceTypeOK
  <2>1. on \in [Threads -> Controllers]
    BY ThreadsAssumption DEF Init, ResourceInit
  <2>2. 0 \in 0 .. NumReceives
    BY NumReceivesAssumption
  <2> QED
    BY <2>1, <2>2 DEF Init, ResourceInit, ResourceTypeOK
<1>2. 0 \in 0 .. NumIOQueues /\ 0 \in 0 .. 3
  BY NumIOQueuesAssumption
<1> QED
  BY <1>1, <1>2 DEF Init, ResourceInit, TypeOK, Commands, Register, Threads

(* The initial states satisfy the invariant.                                *)
LEMMA InitIInv == Init => IInv
<1> SUFFICES ASSUME Init PROVE IInv
  OBVIOUS
<1>1. TypeOK
  BY InitTyped
<1>2. /\ \A c \in Controllers : pc[c] = "start" /\ on[c] = c
      /\ \A r \in Requesters : pc[r] = "idle"
      /\ \A t \in Threads : pc[t] \in {"start", "idle"}
  BY ThreadsAssumption DEF Init, ResourceInit, Threads
<1>3. ThreadsInv
  BY <1>2 DEF ThreadsInv, GateAdmitsOne, OwnerPcs, RequesterPcs
<1>4. MemoryInv
  BY <1>2 DEF MemoryInv, MemoryOf, Init
<1>5. ListInv
  BY <1>2 DEF ListInv, Listed, Init
<1>6. StageInv
  <2>1. ASSUME NEW c \in Controllers PROVE ConnectOf(c)
    <3>1. /\ psNdkQp[c] = "null" /\ sub[c] = "none" /\ recv[c] = "none" /\ memory[c] = "none"
          /\ lReceiveWorkRequestOutstanding[c] = 0 /\ posted[c] = 0 /\ rcq[c] = 0
      BY DEF Init, ResourceInit
    <3> QED
      BY <1>2, <3>1 DEF ConnectOf, Clean
  <2>2. \A t \in Threads : TeardownOf(t)
    BY <1>2 DEF TeardownOf
  <2> QED
    BY <2>1, <2>2 DEF StageInv
<1>7. CountInv /\ ReleasedInv /\ HolderInv
  BY DEF CountInv, ReleasedInv, HolderInv, Init, ResourceInit
<1>8. QueuesInv
  BY <1>2 DEF QueuesInv, QueuesOf, Init
<1>9. FailuresInv /\ MemorySafe
  BY <1>2 DEF FailuresInv, FailuresOf, UsesLists, MemorySafe, Init, ResourceInit
<1>10. StatusInv
  BY DEF StatusInv, Init
<1> QED
  BY <1>1, <1>3, <1>4, <1>5, <1>6, <1>7, <1>8, <1>9, <1>10 DEF IInv

(* Every step keeps it.                                                     *)
LEMMA NextIInv == IInv /\ [Next]_vars => IInv'
<1> SUFFICES ASSUME IInv, [Next]_vars PROVE IInv'
  OBVIOUS
<1>0. /\ TypeOK /\ ThreadsInv /\ MemoryInv /\ ListInv /\ StageInv /\ CountInv /\ ReleasedInv
      /\ HolderInv /\ QueuesInv /\ FailuresInv /\ StatusInv /\ MemorySafe /\ CommandTypes
  BY DEF IInv, TypeOK, CommandTypes
<1>1. TypeOK' /\ StatusInv'
  BY <1>0, TypeStep, CommandsStep
<1>2. ThreadsInv' /\ MemoryInv' /\ ListInv' /\ StageInv'
  BY <1>0, ThreadsStep, MemoryStep, ListStep, StageStep
<1>3. CountInv' /\ ReleasedInv' /\ HolderInv'
  BY <1>0, CountStep, ReleasedStep, HolderStep
<1>4. QueuesInv' /\ FailuresInv' /\ MemorySafe'
  BY <1>0, QueuesStep, FailuresStep, MisuseStep
<1> QED
  BY <1>1, <1>2, <1>3, <1>4 DEF IInv

(* It holds throughout.                                                     *)
LEMMA IInvCorrect == Spec => []IInv
BY InitIInv, NextIInv, PTL DEF Spec

-----------------------------------------------------------------------------
(* The state of every controller, of its queues and of the list keeps its   *)
(* type; among it that lAdminQueueCount, which nothing counts up, is        *)
(* counted down once at most (2099).                                        *)
THEOREM TypeCorrect == Spec => []TypeOK
<1>1. IInv => TypeOK
  BY DEF IInv
<1> QED
  BY <1>1, IInvCorrect, PTL

(* Memory that is not there is touched in the ways MemorySafe names and in  *)
(* no other, however many controllers share the lists, however many threads *)
(* want them gone and whatever fails.                                       *)
THEOREM MemorySafeCorrect == Spec => []MemorySafe
<1>1. IInv => MemorySafe
  BY DEF IInv
<1> QED
  BY <1>1, IInvCorrect, PTL

(* The adapter never has a receive, and the completion queue never its      *)
(* flush, without the buffers and without the queue (1995).                 *)
THEOREM ReceivesHaveBuffersCorrect == Spec => []ReceivesHaveBuffers
<1>1. IInv => ReceivesHaveBuffers
  BY DEF IInv, StageInv, ConnectOf, ReceivesHaveBuffers
<1> QED
  BY <1>1, IInvCorrect, PTL

(* A controller that was freed has no buffer and no receive of its admin    *)
(* queue left, nor a queue pair that was ever connected, and the last takes *)
(* the lists with it (2006-2110).                                           *)
THEOREM NothingLeftCorrect == Spec => []NothingLeft
<1>1. ASSUME IInv PROVE NothingLeft
  <2>1. (\A c \in Controllers : memory[c] # "live") => lookaside = "none"
    BY <1>1 DEF IInv, HolderInv
  <2>2. ASSUME NEW c \in Controllers, memory[c] = "freed"
        PROVE  /\ sub[c] = "none" /\ recv[c] = "none"
               /\ lReceiveWorkRequestOutstanding[c] = 0 /\ posted[c] + rcq[c] = 0
               /\ pvSessionFabricCtx[c] = "live" => psNdkQp[c] = "null"
               /\ psNdkQp[c] = "open" => ulSockState[c] # "Connected"
    BY <1>1, <2>2 DEF IInv, StageInv, ConnectOf, Clean
  <2> QED
    BY <2>1, <2>2 DEF NothingLeft
<1> QED
  BY <1>1, IInvCorrect, PTL

(* Two threads never tear down one controller, whichever of its queues      *)
(* others have marked busy (5588).                                          *)
THEOREM GateAdmitsOneCorrect == Spec => []GateAdmitsOne
<1>1. IInv => GateAdmitsOne
  BY DEF IInv, ThreadsInv
<1> QED
  BY <1>1, IInvCorrect, PTL

(* EnableController does not succeed but on a status that said ready (719). *)
THEOREM EnabledSawReadyCorrect == Spec => []EnabledSawReady
<1>1. IInv => EnabledSawReady
  BY DEF IInv, StatusInv, EnabledSawReady
<1> QED
  BY <1>1, IInvCorrect, PTL
=============================================================================

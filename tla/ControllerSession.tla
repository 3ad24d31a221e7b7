------------------------- MODULE ControllerSession -------------------------
(***************************************************************************)
(* The life of a controller: allocated, its admin queue connected          *)
(* (AdminResources), commands sent, its I/O queues connected, put into the *)
(* list, found there by threads that want it gone, torn down and freed     *)
(* (nvmefrdma.c 2815-2868, 3653-3741, 4230-4457, 4771-4864, 5509-6397;     *)
(* nvmeof_cmd.c).                                                          *)
(*                                                                         *)
(* The order in which the operations of a controller are called is that of *)
(* their callers, which are not in src/: a controller of type CONNECT gets *)
(* I/O queues and is inserted, another is torn down by the thread that     *)
(* connected it, a requester asks whether the queues are busy before it    *)
(* tears anything down, and nobody starts a command once they are.         *)
(***************************************************************************)
EXTENDS AdminResources, Sequences

CONSTANTS Uses,        \* what may be wanted of the controllers
          NumIOQueues  \* lSQQueueCount as the caller set it, on one NUMA node

\* Nothing, a connection that is given up, one that commands are sent on, or
\* one of type CONNECT with I/O queues.
UseKinds == {"none", "connection", "commands", "queues"}

ASSUME UsesAssumption == Uses \subseteq [Controllers -> UseKinds] /\ Uses # {}
ASSUME NumIOQueuesAssumption == NumIOQueues \in Nat \ {0}

VARIABLES
  use,                 \* [Controllers -> what is wanted of it], a constant of the behaviour
  memory,              \* [Controllers -> whether the structure is there]
  sRdmaControllerHead, \* the list
  command,             \* [Controllers -> the command its thread is in]
  waiting,             \* [Controllers -> it was submitted and not answered]
  polls,               \* [Controllers -> Counter of WaitForControllerReady]
  ulControllerStatus,  \* [Controllers -> what that has read]
  lastRead,            \* [Controllers -> what the target last said of CSTS]
  enabled,             \* [Controllers -> the call that returned was an EnableController with success]
  groups,              \* [Controllers -> ANA groups and namespaces it identified with]
  psNVMeoFNSANALogPage,\* [Controllers -> how many the page has room for]
  psNumaSQPair,        \* [Controllers -> the array of NUMA nodes and its queues]
  usNumaNodeCount, lSQQueueCount,
  ioConnected,         \* [Controllers -> I/O queues with a connected queue pair]
  ioRequests,          \* [Controllers -> I/O queues with requests]
  lBusy,               \* [Controllers -> queues marked busy, 0 the admin queue]
  walked               \* [Requesters -> queues it marked]

commandVars == <<command, waiting, polls, ulControllerStatus, lastRead, enabled, groups,
                 psNVMeoFNSANALogPage>>
ioVars == <<psNumaSQPair, usNumaNodeCount, lSQQueueCount, ioConnected, ioRequests>>
listVars == <<memory, sRdmaControllerHead>>
gateVars == <<lBusy, walked>>
sessionVars == <<listVars, commandVars, ioVars, gateVars>>
vars == <<use, pc, on, failed, misuse, resourceVars, sessionVars>>

QueueIds == 1 .. NumIOQueues
Register == {"busy", "ready"}
Commands == {"plain", "readVS", "readCAP", "identify", "writeCC", "readCSTS", "ana"}

ConnectPcs == {"socket", "connectQp", "lookaside", "submission", "receive", "post"}
IoPcs == {"nodeQueues", "createIOQ", "ioRequests", "setUpIOQ"}
TeardownPcs == {"nvmeofDisconnect", "disconnectIOQ", "releaseIOQ", "disconnect", "closeQueues",
                "drain", "freeSub", "freeRecv", "freeLists", "destroySocket", "freeController"}

\* A controller's structure and the list hold what their names say, marks are
\* of queues there are, and a thread is at a step of its own.
TypeOK ==
  /\ ResourceTypeOK
  /\ use \in Uses
  /\ pc \in [Threads -> {"start", "failed", "connected", "running", "idle", "ask", "end"}
                          \cup ConnectPcs \cup IoPcs \cup TeardownPcs]
  /\ misuse \subseteq Controllers \X {"controller", "lists", "submissions", "receives", "unset",
                                      "numa", "anaPage"}
  /\ memory \in [Controllers -> {"none", "live", "freed"}]
  /\ \A i \in DOMAIN sRdmaControllerHead : memory[sRdmaControllerHead[i]] = "live"
  /\ command \in [Controllers -> Commands \cup {"none"}]
  /\ waiting \in [Controllers -> BOOLEAN]
  /\ polls \in [Controllers -> 0 .. 3]
  /\ ulControllerStatus \in [Controllers -> Register]
  /\ lastRead \in [Controllers -> Register]
  /\ enabled \in [Controllers -> BOOLEAN]
  /\ groups \in [Controllers -> {"few", "many"}]
  /\ psNVMeoFNSANALogPage \in [Controllers -> {"none", "few", "many"}]
  /\ psNumaSQPair \in [Controllers -> {"none", "nodes", "queues"}]
  /\ usNumaNodeCount \in [Controllers -> {0, 1}]
  /\ lSQQueueCount \in [Controllers -> {0, NumIOQueues}]
  /\ ioConnected \in [Controllers -> SUBSET QueueIds]
  /\ ioRequests \in [Controllers -> SUBSET QueueIds]
  /\ lBusy \in [Controllers -> SUBSET ({0} \cup QueueIds)]
  /\ walked \in [Requesters -> 0 .. NumIOQueues]

Init ==
  /\ ResourceInit
  /\ use \in Uses
  /\ pc = [t \in Threads |-> IF t \in Controllers THEN "start" ELSE "idle"]
  /\ memory = [c \in Controllers |-> "none"]
  /\ sRdmaControllerHead = << >>
  /\ command = [c \in Controllers |-> "none"]
  /\ waiting = [c \in Controllers |-> FALSE]
  /\ polls = [c \in Controllers |-> 0]
  /\ ulControllerStatus = [c \in Controllers |-> "busy"]
  /\ lastRead = [c \in Controllers |-> "busy"]
  /\ enabled = [c \in Controllers |-> FALSE]
  /\ groups = [c \in Controllers |-> "few"]
  /\ psNVMeoFNSANALogPage = [c \in Controllers |-> "none"]
  /\ psNumaSQPair = [c \in Controllers |-> "none"]
  /\ usNumaNodeCount = [c \in Controllers |-> 0]
  /\ lSQQueueCount = [c \in Controllers |-> NumIOQueues]
  /\ ioConnected = [c \in Controllers |-> {}]
  /\ ioRequests = [c \in Controllers |-> {}]
  /\ lBusy = [c \in Controllers |-> {}]
  /\ walked = [r \in Requesters |-> 0]
-----------------------------------------------------------------------------
\* What a step touches that is not there.

InCommand(c) == command[c] # "none"

CommandMisuses(t) ==
  LET needs == (t \in Controllers /\ InCommand(t)) \/ pc[t] = "nvmeofDisconnect" IN
  Missing("lists", needs, lookaside = "whole")
    \cup Missing("submissions", needs, sub[on[t]] = "whole")

NextId(r) == IF walked[r] < NumIOQueues THEN walked[r] + 1 ELSE 0

IoMisuses(t) ==
  LET c == on[t] IN
  ListsMissing(t, {"ioRequests"})
    \cup Missing("numa", pc[t] = "ask" /\ NextId(t) > 0 /\ usNumaNodeCount[c] > 0,
                 psNumaSQPair[c] # "none")
    \cup Missing("numa", pc[t] = "releaseIOQ" /\ usNumaNodeCount[c] > 0, psNumaSQPair[c] # "none")

Touches(t) ==
  \/ pc[t] \in {"connected", "ask"} \cup ConnectPcs \cup IoPcs \cup TeardownPcs
  \/ t \in Controllers /\ InCommand(t)

Misuses(t) ==
  IF memory[on[t]] = "freed" THEN Missing("controller", Touches(t), FALSE)
  ELSE ConnectMisuses(t) \cup TeardownMisuses(t) \cup CommandMisuses(t) \cup IoMisuses(t)

Stops(t) ==
  /\ Misuses(t) # {}
  /\ misuse' = {on[t]} \X Misuses(t)
  /\ UNCHANGED <<pc, on, failed, resourceVars, sessionVars>>
-----------------------------------------------------------------------------
\* A controller and the list.

AllocateAndInitializeController(c) ==
  /\ use[c] # "none"
  /\ \/ Goto(c, "start", "socket") /\ memory' = [memory EXCEPT ![c] = "live"]
     \/ Goto(c, "start", "end") /\ UNCHANGED memory
  /\ UNCHANGED <<on, failed, misuse, resourceVars, sRdmaControllerHead, commandVars, ioVars,
                 gateVars>>

Finds(r, c) ==
  /\ pc[r] = "idle" /\ pc' = [pc EXCEPT ![r] = "ask"]
  /\ on' = [on EXCEPT ![r] = c]
  /\ UNCHANGED <<failed, misuse, resourceVars, sessionVars>>

\* The controllers here are paths to one subsystem: the name finds the first.
FindControllerByNQN(r) ==
  sRdmaControllerHead # << >> /\ Finds(r, Head(sRdmaControllerHead))

FindControllerByNQNAndTargetIP(r) ==
  \E i \in DOMAIN sRdmaControllerHead : Finds(r, sRdmaControllerHead[i])

\* Not the code: the structure is freed and stays in the list.
FreeControllerKeepsEntry(t) ==
  /\ Goto(t, "freeController", "end")
  /\ memory' = [memory EXCEPT ![on[t]] = "freed"]
  /\ UNCHANGED <<on, failed, misuse, resourceVars, sRdmaControllerHead, commandVars, ioVars,
                 gateVars>>

\* Not the code: an early return before the structure is freed.
FreeControllerReturnsEarly(t) ==
  /\ Goto(t, "freeController", "failed")
  /\ UNCHANGED <<on, failed, misuse, resourceVars, sessionVars>>

\* The list without the entry of a controller, if that is linked to any.
Unlinked(c) ==
  LET at == {i \in DOMAIN sRdmaControllerHead : sRdmaControllerHead[i] = c}
      i == CHOOSE i \in at : TRUE
  IN IF at = {} THEN sRdmaControllerHead
     ELSE SubSeq(sRdmaControllerHead, 1, i - 1)
            \o SubSeq(sRdmaControllerHead, i + 1, Len(sRdmaControllerHead))

FreeController(t) ==
  LET c == on[t] IN
  /\ Goto(t, "freeController", "end")
  /\ memory' = [memory EXCEPT ![c] = "freed"]
  /\ sRdmaControllerHead' = Unlinked(c)
  /\ UNCHANGED <<on, failed, misuse, resourceVars, commandVars, ioVars, gateVars>>
-----------------------------------------------------------------------------
\* Commands: a call, one or more requests in turn, and what their answers do.

NothingElse == UNCHANGED <<pc, on, failed, misuse, resourceVars, listVars, ioVars, gateVars>>

Call(c, at, op) ==
  /\ pc[c] \in at /\ memory[c] = "live" /\ ~InCommand(c)
  /\ 0 \notin lBusy[c]
  /\ command' = [command EXCEPT ![c] = op]
  /\ enabled' = [enabled EXCEPT ![c] = FALSE]
  /\ UNCHANGED <<waiting, ulControllerStatus, lastRead, groups, psNVMeoFNSANALogPage>>
  /\ NothingElse

CallInSetUp(c, op) ==
  use[c] = "commands" /\ Call(c, {"connected"}, op) /\ UNCHANGED polls

\* Those whose answer changes nothing of the model are "plain".
SetupAdminConnection(c) == CallInSetUp(c, "plain")
IdentifyController(c) == CallInSetUp(c, "readVS")
IdentifyGetActiveNSList(c) == CallInSetUp(c, "plain")
IdentifyNamespace(c) == CallInSetUp(c, "plain")
SetFeatures(c) == CallInSetUp(c, "plain")
GetANADescriptorLogPage(c) == CallInSetUp(c, "ana")
GetDiscoveryLogPage(c) == CallInSetUp(c, "plain")
AsyncIssueKeepAlive(c) == Call(c, {"running"}, "plain") /\ UNCHANGED polls

\* It ends with WaitForControllerReady, and three turns of that.
EnableController(c) ==
  /\ use[c] = "commands" /\ Call(c, {"connected"}, "writeCC")
  /\ polls' = [polls EXCEPT ![c] = 3]

Caller(c) ==
  \/ SetupAdminConnection(c) \/ IdentifyController(c) \/ IdentifyGetActiveNSList(c)
  \/ IdentifyNamespace(c) \/ SetFeatures(c) \/ GetANADescriptorLogPage(c)
  \/ GetDiscoveryLogPage(c) \/ AsyncIssueKeepAlive(c) \/ EnableController(c)

\* A request is allocated, with its buffers, and goes out.
SubmitRequest(c) ==
  /\ InCommand(c) /\ ~waiting[c]
  /\ waiting' = [waiting EXCEPT ![c] = TRUE]
  /\ UNCHANGED <<command, polls, ulControllerStatus, lastRead, enabled, groups,
                 psNVMeoFNSANALogPage>>
  /\ NothingElse

\* "none": no request, no answer or one that could not be taken.  "odd" has a
\* status code type and no status code, the one combination the tests of the
\* driver (5759 and its like) take for the good one.
Answers == {"ok", "error", "odd", "none"}

\* The request is freed and the call goes on with op, or ends.
Then(c, op) ==
  /\ waiting[c]
  /\ waiting' = [waiting EXCEPT ![c] = FALSE]
  /\ command' = [command EXCEPT ![c] = op]

PlainAnswered(c) ==
  /\ command[c] = "plain" /\ Then(c, "none")
  /\ UNCHANGED <<polls, ulControllerStatus, lastRead, enabled, groups, psNVMeoFNSANALogPage>>
  /\ NothingElse

\* The reads IdentifyController starts with: only a failed call stops it.
RegisterAnswered(c, answer) ==
  /\ \/ command[c] = "readVS" /\ Then(c, IF answer = "none" THEN "none" ELSE "readCAP")
     \/ command[c] = "readCAP" /\ Then(c, IF answer = "none" THEN "none" ELSE "identify")
  /\ UNCHANGED <<polls, ulControllerStatus, lastRead, enabled, groups, psNVMeoFNSANALogPage>>
  /\ NothingElse

\* The buffer is taken whatever the status of the answer; an error leaves it zero.
IdentifyAnswered(c, answer, data) ==
  /\ command[c] = "identify" /\ Then(c, "none")
  /\ groups' = CASE answer = "none" -> groups
                 [] answer = "error" -> [groups EXCEPT ![c] = "few"]
                 [] OTHER -> [groups EXCEPT ![c] = data]
  /\ UNCHANGED <<polls, ulControllerStatus, lastRead, enabled, psNVMeoFNSANALogPage>>
  /\ NothingElse

\* A write that failed is logged, and the wait begins all the same.
WriteAnswered(c) ==
  /\ command[c] = "writeCC" /\ Then(c, "readCSTS")
  /\ UNCHANGED <<polls, ulControllerStatus, lastRead, enabled, groups, psNVMeoFNSANALogPage>>
  /\ NothingElse

\* NVMeoFRdmaRead32: what it was called with stays, but for one kind of answer.
Read32(old, answer, value) == IF answer = "odd" THEN value ELSE old

\* Not the code: after the last turn the dead branch (739) is taken.
TurnTriesOut(c, answer, status) == answer # "none" /\ (status = "ready" \/ polls[c] = 1)

\* The turn ends the wait with success.
Turn(c, answer, status) == answer # "none" /\ status = "ready"

\* A turn of WaitForControllerReady; its variables end with it.
StatusRead(c, answer, value) ==
  LET status == Read32(ulControllerStatus[c], answer, value)
      success == Turn(c, answer, status)
      again == answer # "none" /\ ~success /\ polls[c] > 1
  IN /\ command[c] = "readCSTS" /\ Then(c, IF again THEN "readCSTS" ELSE "none")
     /\ polls' = [polls EXCEPT ![c] = IF again THEN @ - 1 ELSE 0]
     /\ ulControllerStatus' = [ulControllerStatus EXCEPT ![c] = IF again THEN status ELSE "busy"]
     /\ enabled' = [enabled EXCEPT ![c] = success]
     /\ lastRead' = [lastRead EXCEPT ![c] = IF answer = "none" THEN @ ELSE value]
     /\ UNCHANGED <<groups, psNVMeoFNSANALogPage>>
     /\ NothingElse

\* An answer that is no error, whatever it holds, goes into the page there is,
\* however long that is, or into a new one; an "odd" status may be turned into
\* an error.
Overflows(c) == psNVMeoFNSANALogPage[c] = "few" /\ groups[c] = "many"

AnaPageAnswered(c, answer) ==
  /\ command[c] = "ana" /\ Then(c, "none")
  /\ \/ answer \in {"none", "odd"} /\ UNCHANGED psNVMeoFNSANALogPage
     \/ /\ answer # "none" /\ ~Overflows(c)
        /\ psNVMeoFNSANALogPage' =
             [psNVMeoFNSANALogPage EXCEPT ![c] = IF @ = "none" THEN groups[c] ELSE @]
  /\ UNCHANGED <<polls, ulControllerStatus, lastRead, enabled, groups>>
  /\ NothingElse

AnaPageOverflows(c) ==
  /\ command[c] = "ana" /\ waiting[c] /\ Overflows(c)
  /\ misuse' = {<<c, "anaPage">>}
  /\ UNCHANGED <<pc, on, failed, resourceVars, sessionVars>>

Answered(c) ==
  \/ PlainAnswered(c) \/ WriteAnswered(c)
  \/ \E answer \in Answers :
       \/ RegisterAnswered(c, answer) \/ AnaPageAnswered(c, answer)
       \/ \E data \in {"few", "many"} : IdentifyAnswered(c, answer, data)
       \/ \E value \in Register : StatusRead(c, answer, value)
-----------------------------------------------------------------------------
\* The I/O queues.

IoKeeps == UNCHANGED <<on, misuse, resourceVars, listVars, commandVars, gateVars>>

\* The count is read for the size of the arrays and set to zero, and what
\* disconnects and releases the queues goes by that count (2880, 3659, 3702).
ConnectControllerIOQueues(c) ==
  /\ use[c] = "queues" /\ ~InCommand(c)
  /\ lSQQueueCount' = [lSQQueueCount EXCEPT ![c] = 0]
  /\ usNumaNodeCount' = [usNumaNodeCount EXCEPT ![c] = 1]
  /\ \/ /\ Succeeds /\ Goto(c, "connected", "nodeQueues")
        /\ psNumaSQPair' = [psNumaSQPair EXCEPT ![c] = "nodes"]
     \/ Fails(c, "numaPair") /\ Goto(c, "connected", "failed") /\ UNCHANGED psNumaSQPair
  /\ UNCHANGED <<ioConnected, ioRequests>> /\ IoKeeps

Counted(c) == 1 .. lSQQueueCount[c]

IOQueuesDisconnect(c) == ioConnected' = [ioConnected EXCEPT ![c] = @ \ Counted(c)]

IOQReleaseResources(c) ==
  /\ ioRequests' = [ioRequests EXCEPT ![c] = @ \ Counted(c)]
  /\ lSQQueueCount' = [lSQQueueCount EXCEPT ![c] = 0]
  /\ psNumaSQPair' = [psNumaSQPair EXCEPT ![c] = "none"]

IOQDisconnectAndReleaseResources(c, from) ==
  /\ Goto(c, from, "failed")
  /\ IOQueuesDisconnect(c) /\ IOQReleaseResources(c)
  /\ UNCHANGED usNumaNodeCount

AllocateNodeQueues(c) ==
  /\ \/ /\ Succeeds /\ Goto(c, "nodeQueues", "createIOQ")
        /\ psNumaSQPair' = [psNumaSQPair EXCEPT ![c] = "queues"]
        /\ UNCHANGED <<usNumaNodeCount, lSQQueueCount, ioConnected, ioRequests>>
     \/ Fails(c, "nodeQueues") /\ IOQDisconnectAndReleaseResources(c, "nodeQueues")
  /\ IoKeeps

NextQueue(c) == Cardinality(ioConnected[c]) + 1

CreateIOQ(c) ==
  /\ \/ /\ Succeeds /\ Goto(c, "createIOQ", "ioRequests")
        /\ ioConnected' = [ioConnected EXCEPT ![c] = @ \cup {NextQueue(c)}]
        /\ UNCHANGED <<psNumaSQPair, usNumaNodeCount, lSQQueueCount, ioRequests>>
     \/ Fails(c, "createIOQ") /\ IOQDisconnectAndReleaseResources(c, "createIOQ")
  /\ IoKeeps

\* The last queue connected gets its requests.
AllocateAndInitializeRdmaIoReq(c) ==
  /\ \/ /\ Succeeds
        /\ Goto(c, "ioRequests", IF ioConnected[c] = QueueIds THEN "setUpIOQ" ELSE "createIOQ")
        /\ ioRequests' = [ioRequests EXCEPT ![c] = ioConnected[c]]
        /\ UNCHANGED <<psNumaSQPair, usNumaNodeCount, lSQQueueCount, ioConnected>>
     \/ Fails(c, "ioRequests") /\ IOQDisconnectAndReleaseResources(c, "ioRequests")
  /\ IoKeeps

\* NVMeoFRdmaSetupNvmeofIOQueues; a controller that is set up is inserted.
SetupNvmeofIOQueues(c) ==
  /\ \/ /\ Succeeds /\ Goto(c, "setUpIOQ", "running")
        /\ sRdmaControllerHead' = Append(sRdmaControllerHead, c)
     \/ Fails(c, "setUpIOQ") /\ Goto(c, "setUpIOQ", "disconnectIOQ")
        /\ UNCHANGED sRdmaControllerHead
  /\ UNCHANGED <<on, misuse, resourceVars, memory, commandVars, ioVars, gateVars>>

ConnectIOQueues(c) ==
  \/ ConnectControllerIOQueues(c) \/ AllocateNodeQueues(c) \/ CreateIOQ(c)
  \/ AllocateAndInitializeRdmaIoReq(c) \/ SetupNvmeofIOQueues(c)
-----------------------------------------------------------------------------
\* Tearing down.

\* A controller that could not be set up, or is not wanted any more, goes.
GiveUp(c) ==
  /\ ~InCommand(c)
  /\ Goto(c, "failed", "disconnect") \/ Goto(c, "connected", "disconnect")
  /\ UNCHANGED <<on, failed, misuse, resourceVars, sessionVars>>

\* Not the code: a queue is tested, and marked with the step after.
QueuesBusyMarksLate(r) ==
  LET c == on[r]  id == NextId(r) IN
  /\ \/ id \in lBusy[c] /\ Goto(r, "ask", "end") /\ UNCHANGED gateVars
     \/ /\ id \notin lBusy[c]
        /\ Goto(r, "ask", IF id = 0 THEN "nvmeofDisconnect" ELSE "ask")
        /\ lBusy' = [lBusy EXCEPT ![c] = IF walked[r] > 0 THEN @ \cup {walked[r]} ELSE @]
        /\ walked' = [walked EXCEPT ![r] = id]
  /\ UNCHANGED <<on, failed, misuse, resourceVars, listVars, commandVars, ioVars>>

\* NVMeoFRdmaXportControllerQueuesBusy, a queue at a time, the admin queue last.
QueuesBusy(r) ==
  LET c == on[r]  id == NextId(r) IN
  /\ \/ id \in lBusy[c] /\ Goto(r, "ask", "end") /\ UNCHANGED gateVars
     \/ /\ id \notin lBusy[c]
        /\ Goto(r, "ask", IF id = 0 THEN "nvmeofDisconnect" ELSE "ask")
        /\ lBusy' = [lBusy EXCEPT ![c] = @ \cup {id}]
        /\ walked' = [walked EXCEPT ![r] = id]
  /\ UNCHANGED <<on, failed, misuse, resourceVars, listVars, commandVars, ioVars>>

\* A command whose answer nobody looks at.
NvmeofDisconnect(t) ==
  /\ Goto(t, "nvmeofDisconnect", "disconnectIOQ")
  /\ UNCHANGED <<on, failed, misuse, resourceVars, sessionVars>>

DisconnectControllerIOQueues(t) ==
  /\ Goto(t, "disconnectIOQ", "releaseIOQ")
  /\ IOQueuesDisconnect(on[t])
  /\ UNCHANGED <<psNumaSQPair, usNumaNodeCount, lSQQueueCount, ioRequests, failed>> /\ IoKeeps

ReleaseIOQResources(t) ==
  /\ Goto(t, "releaseIOQ", "disconnect")
  /\ IOQReleaseResources(on[t])
  /\ UNCHANGED <<usNumaNodeCount, ioConnected, failed>> /\ IoKeeps

Teardown(t) ==
  \/ NvmeofDisconnect(t) \/ DisconnectControllerIOQueues(t) \/ ReleaseIOQResources(t)
  \/ DisconnectController(t) /\ UNCHANGED sessionVars
  \/ FreeController(t)
-----------------------------------------------------------------------------
Fits(t) == misuse = {} /\ Misuses(t) = {}

Owner(c) ==
  /\ Fits(c)
  /\ \/ AllocateAndInitializeController(c)
     \/ (ConnectAdminQueue(c) \/ FreesUnsetPointers(c)) /\ UNCHANGED sessionVars
     \/ Caller(c) \/ SubmitRequest(c) \/ Answered(c) \/ AnaPageOverflows(c)
     \/ ConnectIOQueues(c) \/ GiveUp(c)

Requester(r) ==
  /\ Fits(r)
  /\ FindControllerByNQN(r) \/ FindControllerByNQNAndTargetIP(r) \/ QueuesBusy(r)

TornDown(t) == misuse = {} /\ ((Fits(t) /\ Teardown(t)) \/ Stops(t))

Receives(c) ==
  misuse = {} /\ (ConnectionLost(c) \/ AdminRcqCallback(c)) /\ UNCHANGED sessionVars

Next ==
  /\ UNCHANGED use
  /\ \/ \E c \in Controllers : Owner(c) \/ Receives(c)
     \/ \E r \in Requesters : Requester(r)
     \/ \E t \in Threads : TornDown(t)

\* A thread that is tearing down goes on, and a callback the adapter has cause
\* to make is made.
Fairness ==
  /\ \A t \in Threads : WF_vars(TornDown(t) /\ UNCHANGED use)
  /\ \A c \in Controllers : WF_vars(misuse = {} /\ AdminRcqCallback(c) /\ UNCHANGED <<sessionVars, use>>)

Spec == Init /\ [][Next]_vars /\ Fairness
-----------------------------------------------------------------------------
\* No step touches memory that is not there, but where the code lets it: the
\* lists after one could not be allocated or another controller released them
\* (1768), the requests of a controller whose allocation failed unseen (2128) or
\* whose command is still waiting (1995), the receives after theirs failed, the
\* array of queues (5582) and the controller itself (6283) for a thread that found it
\* and was not the one to free it, a page of log data for more groups than it
\* was allocated for (864), and pointers nobody set (1709).
MemorySafe ==
  \A m \in misuse :
    LET c == m[1]
        didFail(steps) == \E s \in steps : <<c, s>> \in failed
        listsFailed == \E d \in Controllers : \E s \in {"firstList", "list"} : <<d, s>> \in failed
    IN CASE m[2] = "lists" ->
              listsFailed \/ released \ {c} # {} \/ (released # {} /\ InCommand(c))
         [] m[2] = "submissions" ->
              listsFailed \/ didFail({"submission", "submissionLoop"}) \/ InCommand(c)
         [] m[2] = "receives" -> didFail({"receive", "receiveLoop"})
         [] m[2] = "unset" -> didFail({"submissionLoop", "receiveLoop"})
         [] m[2] = "numa" ->
              0 \in lBusy[c] /\ \E i \in DOMAIN sRdmaControllerHead : sRdmaControllerHead[i] = c
         [] m[2] = "anaPage" -> psNVMeoFNSANALogPage[c] = "few" /\ groups[c] = "many"
         [] m[2] = "controller" ->
              /\ \A i \in DOMAIN sRdmaControllerHead : sRdmaControllerHead[i] # c
              /\ InCommand(c) \/ \E r \in Requesters : on[r] = c /\ pc[r] = "ask"

\* The adapter has receives, or their flush, only while their buffers are there
\* and their queue is open: the release waits for lReceiveWorkRequestOutstanding
\* (1995) after the disconnect.
ReceivesHaveBuffers ==
  \A c \in Controllers :
    posted[c] + rcq[c] > 0 => recv[c] = "whole" /\ psNdkQp[c] = "open"

\* A controller is freed with no request, receive or buffer of its admin queue
\* left, and the adapter done with its queues: the socket stays when there never
\* was a queue pair (5515), and a queue pair is left open when it could not be
\* connected (fab_rdma.c 1129), with no receive on it.  Every other is closed
\* and its socket destroyed.  The I/O queues are not spoken of, nothing closes
\* them.  The lists do not outlive the last controller.
NothingLeft ==
  /\ \A c \in Controllers : memory[c] = "freed" =>
       /\ sub[c] = "none" /\ recv[c] = "none"
       /\ lReceiveWorkRequestOutstanding[c] = 0 /\ posted[c] + rcq[c] = 0
       /\ pvSessionFabricCtx[c] = "live" => psNdkQp[c] = "null"
       /\ psNdkQp[c] = "open" => ulSockState[c] # "Connected"
  /\ (\A c \in Controllers : memory[c] # "live") => lookaside = "none"

\* Of the threads that found a controller one at most is past the test of its
\* queues (5588), whatever else marks them.
GateAdmitsOne ==
  \A r, s \in Requesters :
    r # s /\ on[r] = on[s] => ~(pc[r] \in TeardownPcs /\ pc[s] \in TeardownPcs)

\* EnableController returns success only when the last the target said of its
\* status is that it is ready (719).
EnabledSawReady ==
  \A c \in Controllers : enabled[c] => lastRead[c] = "ready"

\* A teardown that began frees the controller, unless a step touches what is not
\* there or the completion queue was closed with receives in it that the release
\* then waits for (1995).
TeardownEnds ==
  \A c \in Controllers :
    (\E t \in Threads : on[t] = c /\ pc[t] \in TeardownPcs)
      ~> \/ memory[c] = "freed" \/ misuse # {}
         \/ psNdkQp[c] = "closed" /\ lReceiveWorkRequestOutstanding[c] > 0
=============================================================================

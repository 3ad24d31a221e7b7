---------------------------- MODULE AdminResources ----------------------------
(***************************************************************************)
(* The memory of the admin queues (nvmefrdma.c 786-2133, 5509-5528): what  *)
(* NVMeoFRdmaXportConnectControllerAdminQueue sets up for a controller and *)
(* NVMeoFRdmaXportDisconnectController gives back.  The buffers of every   *)
(* controller come from nine lookaside lists all controllers share through *)
(* the one pointer gpsRdmaControllerList (21).                             *)
(*                                                                         *)
(* What a ladder of allocations leaves behind is one status: "none",       *)
(* "whole", or "dangling" for pointers to memory that was freed and that   *)
(* the ladder did not clear.  A thread whose next step touches memory that *)
(* is not there stops the machine: Misuses says which steps those are, and *)
(* misuse what it was.                                                     *)
(***************************************************************************)
EXTENDS Integers, FiniteSets

CONSTANTS Controllers, \* each with the thread that connects it
          Requesters,  \* threads that want a controller torn down
          NumReceives, \* NVMEOF_RDMA_RECEIVE_REQUEST, 2 in the code
          MaxFailures  \* steps that may fail in a behaviour

ASSUME ThreadsAssumption ==
  IsFiniteSet(Controllers) /\ Controllers # {} /\ Controllers \cap Requesters = {}
ASSUME NumReceivesAssumption == NumReceives \in Nat \ {0}
ASSUME MaxFailuresAssumption == MaxFailures \in Nat

Threads == Controllers \cup Requesters

VARIABLES
  pc,              \* [Threads -> the next step]
  on,              \* [Threads -> the controller it works on]
  pvSessionFabricCtx, \* [Controllers -> the socket]
  ulSockState,     \* [Controllers -> the state of the socket]
  psNdkQp,         \* [Controllers -> queue pair of the admin queue, and with it the two
                   \*  completion queues]
  lookaside,       \* the nine lists
  sub,             \* [Controllers -> submission requests, results and polling request]
  recv,            \* [Controllers -> the same of the receives]
  lReceiveWorkRequestCount, lReceiveWorkRequestOutstanding,
  posted,          \* [Controllers -> receives the adapter holds]
  rcq,             \* [Controllers -> flushed receives not yet reaped]
  lAdminQueueCount,
  failed,          \* the steps that failed, <<controller, step>>
  released,        \* controllers whose teardown released the lists
  misuse           \* what was touched that is not there, <<controller, memory>>

socketVars == <<pvSessionFabricCtx, ulSockState, psNdkQp, lAdminQueueCount>>
bufferVars == <<lookaside, sub, recv, lReceiveWorkRequestCount, released>>
receiveVars == <<lReceiveWorkRequestOutstanding, posted, rcq>>
resourceVars == <<socketVars, bufferVars, receiveVars>>

FailingSteps == {"socket", "createQp", "connectQp", "firstList", "list", "submission",
                 "submissionLoop", "receive", "receiveLoop", "post", "numaPair",
                 "nodeQueues", "createIOQ", "ioRequests", "setUpIOQ",
                 "connection"}

ResourceTypeOK ==
  /\ on \in [Threads -> Controllers]
  /\ pvSessionFabricCtx \in [Controllers -> {"null", "live", "dangling"}]
  /\ ulSockState \in [Controllers -> {"none", "Initialized", "Connected"}]
  /\ psNdkQp \in [Controllers -> {"null", "open", "closed"}]
  /\ lookaside \in {"none", "whole", "holed", "dangling"}
  /\ sub \in [Controllers -> {"none", "whole", "dangling"}]
  /\ recv \in [Controllers -> {"none", "whole", "dangling"}]
  /\ lReceiveWorkRequestCount \in [Controllers -> {0, NumReceives}]
  /\ lReceiveWorkRequestOutstanding \in [Controllers -> 0 .. NumReceives]
  /\ posted \in [Controllers -> 0 .. NumReceives]
  /\ rcq \in [Controllers -> 0 .. NumReceives]
  /\ lAdminQueueCount \in [Controllers -> {0, -1}]
  /\ failed \subseteq Controllers \X FailingSteps
  /\ released \subseteq Controllers

ResourceInit ==
  /\ on = [t \in Threads |-> IF t \in Controllers THEN t ELSE CHOOSE c \in Controllers : TRUE]
  /\ pvSessionFabricCtx = [c \in Controllers |-> "null"]
  /\ ulSockState = [c \in Controllers |-> "none"]
  /\ psNdkQp = [c \in Controllers |-> "null"]
  /\ lookaside = "none"
  /\ sub = [c \in Controllers |-> "none"]
  /\ recv = [c \in Controllers |-> "none"]
  /\ lReceiveWorkRequestCount = [c \in Controllers |-> 0]
  /\ lReceiveWorkRequestOutstanding = [c \in Controllers |-> 0]
  /\ posted = [c \in Controllers |-> 0]
  /\ rcq = [c \in Controllers |-> 0]
  /\ lAdminQueueCount = [c \in Controllers |-> 0]
  /\ failed = {}
  /\ released = {}
  /\ misuse = {}
-----------------------------------------------------------------------------
\* Steps.

Goto(t, from, to) == pc[t] = from /\ pc' = [pc EXCEPT ![t] = to]

Succeeds == UNCHANGED failed
Fails(c, step) ==
  /\ Cardinality(failed) < MaxFailures
  /\ failed' = failed \cup {<<c, step>>}

\* What a step at pc[t] would touch without its being there.
Missing(what, needed, there) == {w \in {what} : needed /\ ~there}

ListsMissing(t, steps) == Missing("lists", pc[t] \in steps, lookaside = "whole")

ConnectMisuses(t) ==
  LET c == on[t] IN
  ListsMissing(t, {"submission", "receive"})
    \cup Missing("receives", pc[t] = "post" /\ lReceiveWorkRequestCount[c] > 0, recv[c] = "whole")

\* An object goes back to a list, and a list that was freed is freed again.
TeardownMisuses(t) ==
  LET c == on[t] IN
  Missing("submissions", pc[t] = "freeSub", sub[c] # "dangling")
    \cup Missing("lists", pc[t] = "freeSub" /\ sub[c] = "whole", lookaside = "whole")
    \cup Missing("receives", pc[t] = "freeRecv", recv[c] # "dangling")
    \cup Missing("lists", pc[t] = "freeRecv" /\ recv[c] = "whole", lookaside = "whole")
    \cup Missing("lists", pc[t] = "freeLists", lookaside # "dangling")
-----------------------------------------------------------------------------
\* NVMeoFRdmaXportConnectControllerAdminQueue.

CreateAsyncSocket(c) ==
  /\ \/ /\ Succeeds /\ Goto(c, "socket", "connectQp")
        /\ pvSessionFabricCtx' = [pvSessionFabricCtx EXCEPT ![c] = "live"]
        /\ ulSockState' = [ulSockState EXCEPT ![c] = "Initialized"]
     \/ /\ Fails(c, "socket") /\ Goto(c, "socket", "failed")
        /\ UNCHANGED <<pvSessionFabricCtx, ulSockState>>
  /\ UNCHANGED <<psNdkQp, lAdminQueueCount, bufferVars, receiveVars, on, misuse>>

\* A queue pair that could not be connected stays, on a socket that is Initialized.
AdminXportConnect(c) ==
  /\ \/ /\ Succeeds /\ Goto(c, "connectQp", "lookaside")
        /\ psNdkQp' = [psNdkQp EXCEPT ![c] = "open"]
        /\ ulSockState' = [ulSockState EXCEPT ![c] = "Connected"]
     \/ Fails(c, "createQp") /\ Goto(c, "connectQp", "failed") /\ UNCHANGED <<psNdkQp, ulSockState>>
     \/ /\ Fails(c, "connectQp") /\ Goto(c, "connectQp", "failed")
        /\ psNdkQp' = [psNdkQp EXCEPT ![c] = "open"] /\ UNCHANGED ulSockState
  /\ UNCHANGED <<pvSessionFabricCtx, lAdminQueueCount, bufferVars, receiveVars, on, misuse>>

\* The list that fails is null and those before it are freed; the others keep
\* what another controller may have put there.  The caller goes on to submit.
AllocateLookasideLists(c) ==
  /\ \/ Succeeds /\ Goto(c, "lookaside", "submission") /\ lookaside' = "whole"
     \/ /\ Fails(c, "firstList") /\ Goto(c, "lookaside", "post")
        /\ lookaside' = CASE lookaside = "none" -> "none"
                          [] lookaside = "dangling" -> "dangling"
                          [] OTHER -> "holed"
     \/ Fails(c, "list") /\ Goto(c, "lookaside", "post") /\ lookaside' = "dangling"
  /\ UNCHANGED <<sub, recv, lReceiveWorkRequestCount, released, socketVars, receiveVars, on, misuse>>

\* When an object of a request cannot be allocated everything is freed, and the
\* status is still that of success (1758-1760).
AllocateSubmissionResources(c) ==
  /\ \/ Succeeds /\ Goto(c, "submission", "receive") /\ sub' = [sub EXCEPT ![c] = "whole"]
     \/ /\ Fails(c, "submission") /\ Goto(c, "submission", "post")
        /\ \E left \in {"none", "dangling"} : sub' = [sub EXCEPT ![c] = left]
     \/ Fails(c, "submissionLoop") /\ Goto(c, "submission", "receive") /\ UNCHANGED sub
  /\ UNCHANGED <<lookaside, recv, lReceiveWorkRequestCount, released, socketVars, receiveVars,
                 on, misuse>>

AllocateReceiveResources(c) ==
  /\ Goto(c, "receive", "post")
  /\ lReceiveWorkRequestCount' = [lReceiveWorkRequestCount EXCEPT ![c] = NumReceives]
  /\ \/ Succeeds /\ recv' = [recv EXCEPT ![c] = "whole"]
     \/ /\ Fails(c, "receive")
        /\ \E left \in {"none", "dangling"} : recv' = [recv EXCEPT ![c] = left]
     \/ Fails(c, "receiveLoop") /\ UNCHANGED recv
  /\ UNCHANGED <<lookaside, sub, released, socketVars, receiveVars, on, misuse>>

\* Of a request whose buffer could not be allocated the map is freed, with what
\* the memory of the list held in its pointers before (1502-1512, 1702-1711).
FreesUnsetPointers(c) ==
  /\ pc[c] \in {"submission", "receive"}
  /\ Cardinality(failed) < MaxFailures
  /\ failed' = failed \cup {<<c, IF pc[c] = "receive" THEN "receiveLoop" ELSE "submissionLoop">>}
  /\ misuse' = {<<c, "unset">>}
  /\ UNCHANGED <<pc, on, resourceVars>>

\* As many receives as lReceiveWorkRequestCount says, none of them when the
\* allocation did not come so far; the status of the allocation is forgotten.
AdminSubmitReceiveRequests(c) ==
  /\ \/ /\ Succeeds /\ Goto(c, "post", "connected")
        /\ posted' = [posted EXCEPT ![c] = lReceiveWorkRequestCount[c]]
     \/ /\ Fails(c, "post") /\ Goto(c, "post", "failed")
        /\ \E n \in 0 .. lReceiveWorkRequestCount[c] - 1 : posted' = [posted EXCEPT ![c] = n]
  /\ lReceiveWorkRequestOutstanding' = [lReceiveWorkRequestOutstanding EXCEPT ![c] = posted'[c]]
  /\ UNCHANGED <<rcq, socketVars, bufferVars, on, misuse>>

ConnectAdminQueue(c) ==
  /\ \/ CreateAsyncSocket(c) \/ AdminXportConnect(c) \/ AllocateLookasideLists(c)
     \/ AllocateSubmissionResources(c) \/ AllocateReceiveResources(c)
     \/ AdminSubmitReceiveRequests(c)
-----------------------------------------------------------------------------
\* The adapter flushes the receives of a connection that is gone, and the RCQ
\* callback takes them from a completion queue that is open.

Flushed(c) ==
  /\ rcq' = [rcq EXCEPT ![c] = @ + posted[c]]
  /\ posted' = [posted EXCEPT ![c] = 0]
  /\ UNCHANGED lReceiveWorkRequestOutstanding

ConnectionLost(c) ==
  /\ posted[c] > 0
  /\ Fails(c, "connection") /\ Flushed(c)
  /\ UNCHANGED <<pc, on, socketVars, bufferVars, misuse>>

AdminRcqCallback(c) ==
  /\ rcq[c] > 0 /\ psNdkQp[c] = "open"
  /\ rcq' = [rcq EXCEPT ![c] = @ - 1]
  /\ lReceiveWorkRequestOutstanding' = [lReceiveWorkRequestOutstanding EXCEPT ![c] = @ - 1]
  /\ UNCHANGED <<posted, pc, on, socketVars, bufferVars, failed, misuse>>
-----------------------------------------------------------------------------
\* NVMeoFRdmaXportDisconnectController.

TeardownKeeps(t) == UNCHANGED <<on, failed, misuse>>

\* NdkDisconnectSyncAsyncRdmaSocketQP does nothing for a socket that did not
\* come as far as Connected.
AfterTest(c) == IF ulSockState[c] = "Connected" THEN "closeQueues" ELSE "drain"

\* Not the code: the receives are not flushed before the queues are closed.
DisconnectQpNoFlush(t) ==
  LET c == on[t] IN
  /\ Goto(t, "disconnect", IF psNdkQp[c] # "null" THEN AfterTest(c) ELSE "freeController")
  /\ UNCHANGED <<socketVars, bufferVars, receiveVars>> /\ TeardownKeeps(t)

\* Without a queue pair nothing is done.
DisconnectQp(t) ==
  LET c == on[t] IN
  /\ \/ /\ psNdkQp[c] # "null" /\ Goto(t, "disconnect", AfterTest(c))
        /\ IF AfterTest(c) = "closeQueues" THEN Flushed(c) ELSE UNCHANGED receiveVars
     \/ /\ psNdkQp[c] = "null" /\ Goto(t, "disconnect", "freeController")
        /\ UNCHANGED receiveVars
  /\ UNCHANGED <<socketVars, bufferVars>> /\ TeardownKeeps(t)

\* What was not reaped is gone with the completion queue.
CloseQueues(t) ==
  LET c == on[t] IN
  /\ Goto(t, "closeQueues", "drain")
  /\ psNdkQp' = [psNdkQp EXCEPT ![c] = "closed"]
  /\ rcq' = [rcq EXCEPT ![c] = 0]
  /\ UNCHANGED <<pvSessionFabricCtx, ulSockState, lAdminQueueCount, bufferVars,
                 lReceiveWorkRequestOutstanding, posted>>
  /\ TeardownKeeps(t)

\* NVMeoFRdmaAdminFreeResources: the loop, and then the three releases.
Drain(t) ==
  /\ lReceiveWorkRequestOutstanding[on[t]] = 0
  /\ Goto(t, "drain", "freeSub")
  /\ UNCHANGED resourceVars /\ TeardownKeeps(t)

FreeSubmissionResources(t) ==
  /\ Goto(t, "freeSub", "freeRecv")
  /\ sub' = [sub EXCEPT ![on[t]] = "none"]
  /\ UNCHANGED <<lookaside, recv, lReceiveWorkRequestCount, released, socketVars, receiveVars>>
  /\ TeardownKeeps(t)

FreeReceiveResources(t) ==
  /\ Goto(t, "freeRecv", "freeLists")
  /\ recv' = [recv EXCEPT ![on[t]] = "none"]
  /\ UNCHANGED <<lookaside, sub, lReceiveWorkRequestCount, released, socketVars, receiveVars>>
  /\ TeardownKeeps(t)

\* Not the code: the pointer to the lists is not cleared.
FreeLookasideListsKeepsPointer(t) ==
  /\ Goto(t, "freeLists", "destroySocket")
  /\ lookaside' = "dangling"
  /\ released' = released \cup {on[t]}
  /\ UNCHANGED <<sub, recv, lReceiveWorkRequestCount, socketVars, receiveVars>>
  /\ TeardownKeeps(t)

FreeLookasideLists(t) ==
  /\ Goto(t, "freeLists", "destroySocket")
  /\ lookaside' = "none"
  /\ released' = released \cup {on[t]}
  /\ UNCHANGED <<sub, recv, lReceiveWorkRequestCount, socketVars, receiveVars>>
  /\ TeardownKeeps(t)

\* Nothing clears the pointer to the socket, and nothing counted the queue up.
DestroySocket(t) ==
  LET c == on[t] IN
  /\ Goto(t, "destroySocket", "freeController")
  /\ pvSessionFabricCtx' = [pvSessionFabricCtx EXCEPT ![c] = "dangling"]
  /\ lAdminQueueCount' = [lAdminQueueCount EXCEPT ![c] = @ - 1]
  /\ UNCHANGED <<ulSockState, psNdkQp, bufferVars, receiveVars>> /\ TeardownKeeps(t)

DisconnectController(t) ==
  \/ DisconnectQp(t) \/ CloseQueues(t) \/ Drain(t) \/ FreeSubmissionResources(t)
  \/ FreeReceiveResources(t) \/ FreeLookasideLists(t) \/ DestroySocket(t)
=============================================================================

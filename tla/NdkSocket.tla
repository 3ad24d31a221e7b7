------------------------------ MODULE NdkSocket -------------------------------
(***************************************************************************)
(* The RDMA socket of a controller and the queue pairs opened on it        *)
(* (fab_rdma.c 13-1253, called from nvmefrdma.c 45-117).  One thread opens *)
(* and destroys the socket; each queue pair is connected and torn down by  *)
(* a thread of its own, and its provider may lose the connection at any    *)
(* moment and call the disconnect handler.                                 *)
(*                                                                         *)
(* Every NDK call of fab_rdma.c has one form: call the provider, wait      *)
(* without a timeout if it pends, take the status and the object from the  *)
(* completion callback.  Issue is the call, the action named after the     *)
(* caller's next line is its completion.  A pointer is "null", names an    *)
(* "open" object or one already "closed".                                  *)
(***************************************************************************)
EXTENDS Integers, FiniteSets

CONSTANTS Pairs,   \* queue pairs, NDK_QUEUE_PAIR_BUNDLE
          Admin,   \* the one of the admin queue
          Owner    \* the thread of the socket

ASSUME PairsAssumption == IsFiniteSet(Pairs) /\ Admin \in Pairs /\ Owner \notin Pairs

Threads == Pairs \cup {Owner}
Base == {"adapter", "pd", "alias"}
Kinds == {"rcq", "scq", "qp", "connector"}

VARIABLES
  socket,          \* memory of the NDK_SOCKET: "none", "live" or "freed"
  base,            \* what the socket itself opened, [Base -> pointer]
  ulSockState, lRefCount, usSockQPCount,
  bundle,          \* [Pairs -> [Kinds -> pointer]]
  link,            \* [Pairs -> the connection: "none", "up" or "lost"]
  handled,         \* pairs whose disconnect handler is registered
  pc,              \* [Threads -> the call in progress]
  pending,         \* threads that wait for the provider
  returned,        \* [Pairs -> what NVMeoFRdmaCreateAndConnectQP came to]
  misclosed,       \* closings of a pointer that did not name an open object
  ulDisconnectFlag,
  reports          \* work items queued for a disconnection

socketVars == <<socket, base, usSockQPCount>>
countVars == <<ulSockState, lRefCount>>
pairVars == <<bundle, misclosed>>
linkVars == <<link, handled>>
eventVars == <<ulDisconnectFlag, reports>>
vars == <<socketVars, countVars, pairVars, linkVars, pc, pending, returned, eventVars>>

OwnerCalls == {"createPd", "closePd"}
OwnerSteps == {"openAdapter", "queryAdapter", "allocateAlias", "convertAlias", "closeAdapter"}
PairCalls == {"createRcq", "createScq", "createQp", "createConnector", "connect",
              "completeConnect", "undoRcqOnly", "undoRcq", "undoScq", "undoConnector",
              "undoLink", "closeConnector", "closeQp", "closeRcq", "closeScq"}
PairSteps == {"moderate", "getData", "getAddress", "markConnected", "count", "test", "flush",
              "testZero", "testPositive", "markDisconnected", "release"}
Calls == OwnerCalls \cup PairCalls
AtRest == {"new", "ready", "done", "up", "failed", "down"}

\* ulSockState takes three of its seven values after Initializing.
SockStates == {"Initializing", "Initialized", "Connected", "Disconnected"}
Pointers == {"null", "open", "closed"}

TypeOK ==
  /\ socket \in {"none", "live", "freed"}
  /\ base \in [Base -> Pointers]
  /\ ulSockState \in SockStates
  /\ lRefCount \in Int
  /\ usSockQPCount \in 0 .. Cardinality(Pairs)
  /\ bundle \in [Pairs -> [Kinds -> Pointers]]
  /\ link \in [Pairs -> {"none", "up", "lost"}]
  /\ handled \subseteq Pairs
  /\ pc \in [Threads -> AtRest \cup Calls \cup OwnerSteps \cup PairSteps]
  /\ pending \subseteq {t \in Threads : pc[t] \in Calls}
  /\ returned \in [Pairs -> {"none", "createFailed", "noConnector", "refused",
                             "incomplete", "connected"}]
  /\ misclosed \subseteq Pairs \X Kinds
  /\ ulDisconnectFlag \in {"none", "admin", "io"}
  /\ reports \in Nat

Init ==
  /\ socket = "none"
  /\ base = [b \in Base |-> "null"]
  /\ ulSockState = "Initializing"
  /\ lRefCount = 0
  /\ usSockQPCount = 0
  /\ bundle = [p \in Pairs |-> [k \in Kinds |-> "null"]]
  /\ link = [p \in Pairs |-> "none"]
  /\ handled = {}
  /\ pc = [t \in Threads |-> "new"]
  /\ pending = {}
  /\ returned = [p \in Pairs |-> "none"]
  /\ misclosed = {}
  /\ ulDisconnectFlag = "none"
  /\ reports = 0

-----------------------------------------------------------------------------
\* Calls of the provider.

\* A step that makes no call that can pend.
Goto(t, from, to) ==
  /\ pc[t] = from
  /\ pc' = [pc EXCEPT ![t] = to]
  /\ UNCHANGED pending

\* The provider is called and pends: the thread waits, without a timeout.
Issue(t) ==
  /\ pc[t] \in Calls
  /\ t \notin pending
  /\ pending' = pending \cup {t}
  /\ UNCHANGED <<socketVars, countVars, pairVars, linkVars, pc, returned, eventVars>>

\* The completion callback sets the event and the thread goes on.
Completes(t, call, to) ==
  /\ pc[t] = call
  /\ t \in pending
  /\ pending' = pending \ {t}
  /\ pc' = [pc EXCEPT ![t] = to]

\* The object comes with the status, and an error makes the pointer null.
Creates(p, kind, call, next, failed) ==
  /\ \/ Completes(p, call, next) /\ bundle' = [bundle EXCEPT ![p][kind] = "open"]
     \/ Completes(p, call, failed) /\ bundle' = [bundle EXCEPT ![p][kind] = "null"]
  /\ UNCHANGED misclosed

\* The pointer keeps its value, and the status of the close is not looked at.
Closes(p, kind, call, next) ==
  /\ Completes(p, call, next)
  /\ bundle' = [bundle EXCEPT ![p][kind] = IF @ = "open" THEN "closed" ELSE @]
  /\ misclosed' = misclosed \cup {k \in {<<p, kind>>} : bundle[p][kind] # "open"}

NdkCreateCompletionQueue(p, kind, call, next, failed) == Creates(p, kind, call, next, failed)
NdkCloseCompletionQueue(p, kind, call, next) == Closes(p, kind, call, next)
NdkCreateQueuePair(p, call, next, failed) == Creates(p, "qp", call, next, failed)
NdkCloseQueuePair(p, call, next) == Closes(p, "qp", call, next)
NdkCreateConnector(p, call, next, failed) == Creates(p, "connector", call, next, failed)
NdkCloseConnector(p, call, next) ==
  /\ Closes(p, "connector", call, next)
  /\ link' = [link EXCEPT ![p] = "none"]
  /\ handled' = handled \ {p}

NdkConnect(p, call, next, refused) ==
  \/ Completes(p, call, next) /\ link' = [link EXCEPT ![p] = "up"]
  \/ Completes(p, call, refused) /\ UNCHANGED link

\* The disconnect handler is registered when the connection is complete.
NdkCompleteConnect(p, call, next, failed) ==
  \/ Completes(p, call, next) /\ handled' = handled \cup {p}
  \/ Completes(p, call, failed) /\ UNCHANGED handled

NdkDisconnect(p, call, next) ==
  /\ Completes(p, call, next)
  /\ link' = [link EXCEPT ![p] = "none"]
  /\ handled' = handled \ {p}
-----------------------------------------------------------------------------
\* The socket, NdkCreateRdmaSocket and NdkDestroyRdmaSocket.

OwnerGoto(from, to) ==
  /\ Goto(Owner, from, to)
  /\ UNCHANGED <<usSockQPCount, lRefCount, pairVars, linkVars, returned, eventVars>>

CreateRdmaSocket ==
  /\ OwnerGoto("new", "openAdapter")
  /\ socket' = "live"
  /\ UNCHANGED <<base, ulSockState>>

NoMemoryForSocket ==
  /\ OwnerGoto("new", "failed")
  /\ UNCHANGED <<socket, base, ulSockState>>

OpenAdapter ==
  /\ \/ OwnerGoto("openAdapter", "queryAdapter")
        /\ base' = [base EXCEPT !["adapter"] = "open"] /\ UNCHANGED socket
     \/ OwnerGoto("openAdapter", "failed") /\ socket' = "freed" /\ UNCHANGED base
  /\ UNCHANGED ulSockState

\* NdkCloseRdmaAdapter closes what is there, and the socket is freed after it.
NdkCloseRdmaAdapter == base' = [base EXCEPT !["adapter"] = "closed",
                                            !["alias"] = IF @ = "open" THEN "closed" ELSE @]

OpenFails(at) ==
  /\ OwnerGoto(at, "failed")
  /\ NdkCloseRdmaAdapter
  /\ socket' = "freed"
  /\ UNCHANGED ulSockState

\* The query fails, or the adapter needs a read sink.
QueryAdapter ==
  \/ OpenFails("queryAdapter")
  \/ OwnerGoto("queryAdapter", "allocateAlias") /\ UNCHANGED <<socket, base, ulSockState>>

AllocateAlias ==
  \/ OpenFails("allocateAlias")
  \/ /\ OwnerGoto("allocateAlias", "convertAlias")
     /\ base' = [base EXCEPT !["alias"] = "open"]
     /\ UNCHANGED <<socket, ulSockState>>

ConvertAlias ==
  \/ OpenFails("convertAlias")
  \/ OwnerGoto("convertAlias", "createPd") /\ UNCHANGED <<socket, base, ulSockState>>

\* A socket with its protection domain is initialized; without one the adapter
\* is closed and the alias forgotten.
CreateProtectionDomain ==
  /\ \/ /\ Completes(Owner, "createPd", "ready")
        /\ base' = [base EXCEPT !["pd"] = "open"]
        /\ ulSockState' = "Initialized"
        /\ UNCHANGED socket
     \/ /\ Completes(Owner, "createPd", "failed")
        /\ base' = [base EXCEPT !["adapter"] = "closed"]
        /\ socket' = "freed"
        /\ UNCHANGED ulSockState
  /\ UNCHANGED <<usSockQPCount, lRefCount, pairVars, linkVars, returned, eventVars>>

\* The socket follows the pair of the admin queue (5517-5522); of the pairs of
\* the I/O queues nothing is asked, and a call one of them still has in progress
\* goes on with what the memory of the socket last held.
DestroyRdmaSocket ==
  /\ pc[Admin] = "down"
  /\ OwnerGoto("ready", "closePd")
  /\ UNCHANGED <<socket, base, ulSockState>>

CloseProtectionDomain ==
  /\ Completes(Owner, "closePd", "closeAdapter")
  /\ base' = [base EXCEPT !["pd"] = "closed"]
  /\ UNCHANGED <<socket, usSockQPCount, countVars, pairVars, linkVars, returned, eventVars>>

CloseAdapter ==
  /\ OwnerGoto("closeAdapter", "done")
  /\ NdkCloseRdmaAdapter
  /\ socket' = "freed"
  /\ UNCHANGED ulSockState

OwnerThread ==
  \/ Issue(Owner) \/ OpenAdapter \/ QueryAdapter \/ AllocateAlias \/ ConvertAlias
  \/ CreateProtectionDomain \/ CloseProtectionDomain \/ CloseAdapter
-----------------------------------------------------------------------------
\* NVMeoFRdmaCreateAndConnectQP: NdkCreateRdmaQPair, then NdkConnectRdmaQPair.

Result(p, r) == returned' = [returned EXCEPT ![p] = r]

\* Memory for the parameters, and a bundle zeroed before it.
CreateRdmaQPair(p) ==
  /\ pc[Owner] = "ready"
  /\ \/ Goto(p, "new", "createRcq") /\ UNCHANGED returned
     \/ Goto(p, "new", "failed") /\ Result(p, "createFailed")
  /\ UNCHANGED <<socketVars, countVars, pairVars, linkVars, eventVars>>

CreateRcq(p) ==
  /\ NdkCreateCompletionQueue(p, "rcq", "createRcq", "createScq", "failed")
  /\ Result(p, IF pc'[p] = "failed" THEN "createFailed" ELSE "none")
  /\ UNCHANGED <<socketVars, countVars, linkVars, eventVars>>

CreateScq(p) ==
  /\ NdkCreateCompletionQueue(p, "scq", "createScq", "moderate", "undoRcqOnly")
  /\ UNCHANGED <<socketVars, countVars, linkVars, returned, eventVars>>

\* Both queues, where the adapter supports it; where it does not this step succeeds.
ControlCqInterruptModeration(p) ==
  /\ Goto(p, "moderate", "createQp") \/ Goto(p, "moderate", "undoRcq")
  /\ UNCHANGED <<socketVars, countVars, pairVars, linkVars, returned, eventVars>>

CreateQp(p) ==
  /\ NdkCreateQueuePair(p, "createQp", "createConnector", "undoRcq")
  /\ usSockQPCount' = IF pc'[p] = "undoRcq" THEN usSockQPCount ELSE usSockQPCount + 1
  /\ UNCHANGED <<socket, base, countVars, linkVars, returned, eventVars>>

\* Not the code: one of the two completion queues is forgotten.
UndoQueuesForgetsScq(p) ==
  /\ \/ NdkCloseCompletionQueue(p, "rcq", "undoRcqOnly", "failed")
     \/ NdkCloseCompletionQueue(p, "rcq", "undoRcq", "failed")
  /\ Result(p, "createFailed")
  /\ UNCHANGED <<socketVars, countVars, linkVars, eventVars>>

\* Of a pair that cannot be created the completion queues are closed.
UndoQueues(p) ==
  /\ \/ NdkCloseCompletionQueue(p, "rcq", "undoRcqOnly", "failed") /\ Result(p, "createFailed")
     \/ NdkCloseCompletionQueue(p, "rcq", "undoRcq", "undoScq") /\ UNCHANGED returned
     \/ NdkCloseCompletionQueue(p, "scq", "undoScq", "failed") /\ Result(p, "createFailed")
  /\ UNCHANGED <<socketVars, countVars, linkVars, eventVars>>

\* A pair without a connector keeps its queues.
CreateConnector(p) ==
  /\ NdkCreateConnector(p, "createConnector", "connect", "failed")
  /\ Result(p, IF pc'[p] = "failed" THEN "noConnector" ELSE "none")
  /\ UNCHANGED <<socketVars, countVars, linkVars, eventVars>>

Connect(p) ==
  /\ NdkConnect(p, "connect", "completeConnect", "undoConnector")
  /\ UNCHANGED <<socketVars, countVars, pairVars, handled, returned, eventVars>>

\* A refused pair loses its connector and keeps the pointer to it.
Refused(p) ==
  /\ NdkCloseConnector(p, "undoConnector", "failed")
  /\ Result(p, "refused")
  /\ UNCHANGED <<socketVars, countVars, eventVars>>

\* When completion fails nothing is undone.
CompleteConnect(p) ==
  /\ NdkCompleteConnect(p, "completeConnect", "getData", "failed")
  /\ Result(p, IF pc'[p] = "failed" THEN "incomplete" ELSE "none")
  /\ UNCHANGED <<socketVars, countVars, pairVars, link, eventVars>>

GetConnectionData(p) ==
  /\ Goto(p, "getData", "getAddress") \/ Goto(p, "getData", "undoLink")
  /\ UNCHANGED <<socketVars, countVars, pairVars, linkVars, returned, eventVars>>

\* The local address, and then both completion queues are armed.
GetLocalAddressAndArm(p) ==
  /\ Goto(p, "getAddress", "markConnected") \/ Goto(p, "getAddress", "undoLink")
  /\ UNCHANGED <<socketVars, countVars, pairVars, linkVars, returned, eventVars>>

UndoLink(p) ==
  /\ NdkDisconnect(p, "undoLink", "failed")
  /\ Result(p, "incomplete")
  /\ UNCHANGED <<socketVars, countVars, pairVars, eventVars>>

MarkConnected(p) ==
  /\ Goto(p, "markConnected", "count")
  /\ ulSockState' = "Connected"
  /\ UNCHANGED <<socketVars, lRefCount, pairVars, linkVars, returned, eventVars>>

CountConnection(p) ==
  /\ Goto(p, "count", "up")
  /\ lRefCount' = lRefCount + 1
  /\ Result(p, "connected")
  /\ UNCHANGED <<socketVars, ulSockState, pairVars, linkVars, eventVars>>

ConnectThread(p) ==
  \/ CreateRcq(p) \/ CreateScq(p) \/ ControlCqInterruptModeration(p) \/ CreateQp(p)
  \/ UndoQueues(p) \/ CreateConnector(p) \/ Connect(p) \/ Refused(p) \/ CompleteConnect(p)
  \/ GetConnectionData(p) \/ GetLocalAddressAndArm(p) \/ UndoLink(p) \/ MarkConnected(p)
  \/ CountConnection(p)
-----------------------------------------------------------------------------
\* NdkDisconnectSyncAsyncRdmaSocketQP.  Its callers ask for a queue pair first,
\* and tear a pair down once.
HasQueuePairNotTested(p) == p \in Pairs   \* not the code
HasQueuePair(p) == bundle[p]["qp"] # "null"

TearDown(p) ==
  /\ pc[p] \in {"up", "failed"}
  /\ HasQueuePair(p)
  /\ pc' = [pc EXCEPT ![p] = "test"]
  /\ UNCHANGED <<socketVars, countVars, pairVars, linkVars, pending, returned, eventVars>>

\* NdkSocketStateConnecting and less: the call returns success and does nothing.
IsConnected == ulSockState \in {"Connected", "Disconnected"}

\* Not the code: the teardown announces itself in the state.
TestConnectedMarks(p) ==
  /\ Goto(p, "test", IF IsConnected THEN "flush" ELSE "down")
  /\ ulSockState' = IF IsConnected THEN "Disconnecting" ELSE ulSockState
  /\ UNCHANGED <<socketVars, lRefCount, pairVars, linkVars, returned, eventVars>>

TestConnected(p) ==
  /\ Goto(p, "test", IF IsConnected THEN "flush" ELSE "down")
  /\ UNCHANGED <<socketVars, countVars, pairVars, linkVars, returned, eventVars>>

Flush(p) ==
  /\ Goto(p, "flush", "closeConnector")
  /\ UNCHANGED <<socketVars, countVars, pairVars, linkVars, returned, eventVars>>

CloseConnector(p) ==
  /\ NdkCloseConnector(p, "closeConnector", "closeQp")
  /\ UNCHANGED <<socketVars, countVars, returned, eventVars>>

\* Not the code: a completion queue is closed before the queue pair that uses it.
CloseQueuesRcqFirst(p) ==
  /\ \/ NdkCloseCompletionQueue(p, "rcq", "closeQp", "closeRcq")
     \/ NdkCloseQueuePair(p, "closeRcq", "closeScq")
     \/ NdkCloseCompletionQueue(p, "scq", "closeScq", "testZero")
  /\ UNCHANGED <<socketVars, countVars, linkVars, returned, eventVars>>

CloseQueues(p) ==
  /\ \/ NdkCloseQueuePair(p, "closeQp", "closeRcq")
     \/ NdkCloseCompletionQueue(p, "rcq", "closeRcq", "closeScq")
     \/ NdkCloseCompletionQueue(p, "scq", "closeScq", "testZero")
  /\ UNCHANGED <<socketVars, countVars, linkVars, returned, eventVars>>

\* Not the code: the last connection's teardown takes a count of one for zero, or
\* waits for the others.
TestRefCountOffByOne(p) ==
  /\ \/ Goto(p, "testZero", IF lRefCount = 1 THEN "markDisconnected" ELSE "testPositive")
     \/ Goto(p, "testPositive", IF lRefCount > 0 THEN "release" ELSE "down")
  /\ UNCHANGED <<socketVars, countVars, pairVars, linkVars, returned, eventVars>>
TestRefCountWaits(p) ==
  /\ lRefCount = 0 /\ Goto(p, "testZero", "markDisconnected")
  /\ UNCHANGED <<socketVars, countVars, pairVars, linkVars, returned, eventVars>>

\* Two tests of the count and then an interlocked decrement, or a new state.
TestRefCount(p) ==
  /\ \/ Goto(p, "testZero", IF lRefCount = 0 THEN "markDisconnected" ELSE "testPositive")
     \/ Goto(p, "testPositive", IF lRefCount > 0 THEN "release" ELSE "down")
  /\ UNCHANGED <<socketVars, countVars, pairVars, linkVars, returned, eventVars>>

MarkDisconnected(p) ==
  /\ Goto(p, "markDisconnected", "down")
  /\ ulSockState' = "Disconnected"
  /\ UNCHANGED <<socketVars, lRefCount, pairVars, linkVars, returned, eventVars>>

ReleaseRefCount(p) ==
  /\ Goto(p, "release", "down")
  /\ lRefCount' = lRefCount - 1
  /\ UNCHANGED <<socketVars, ulSockState, pairVars, linkVars, returned, eventVars>>

TearDownThread(p) ==
  \/ TestConnected(p) \/ Flush(p) \/ CloseConnector(p) \/ CloseQueues(p)
  \/ TestRefCount(p) \/ MarkDisconnected(p) \/ ReleaseRefCount(p)
-----------------------------------------------------------------------------
\* The provider reports a lost connection to the handler of its queue, and the
\* first handler of a controller queues the work item.
SetDisconnectFlagAlways(event) ==   \* not the code
  ulDisconnectFlag' = event /\ reports' = reports + 1
SetDisconnectFlag(event) ==
  IF ulDisconnectFlag = "none"
  THEN ulDisconnectFlag' = event /\ reports' = reports + 1
  ELSE UNCHANGED eventVars

AdminDisconnectQPEvent == SetDisconnectFlag("admin")
IOQPDisconnect == SetDisconnectFlag("io")

ConnectionLost(p) ==
  /\ p \in handled
  /\ link[p] = "up"
  /\ link' = [link EXCEPT ![p] = "lost"]
  /\ IF p = Admin THEN AdminDisconnectQPEvent ELSE IOQPDisconnect
  /\ UNCHANGED <<socketVars, countVars, pairVars, handled, pc, pending, returned>>

PairThread(p) == Issue(p) \/ ConnectThread(p) \/ TearDownThread(p)

Next ==
  \/ CreateRdmaSocket \/ NoMemoryForSocket \/ DestroyRdmaSocket \/ OwnerThread
  \/ \E p \in Pairs : CreateRdmaQPair(p) \/ TearDown(p) \/ PairThread(p) \/ ConnectionLost(p)

\* Threads run and the provider completes what it was asked; nobody has to
\* open a socket, connect a pair, tear it down or lose a connection.
Fairness == WF_vars(OwnerThread) /\ \A p \in Pairs : WF_vars(PairThread(p))

Spec == Init /\ [][Next]_vars /\ Fairness
-----------------------------------------------------------------------------
\* Properties.

Failed(p) == returned[p] \notin {"none", "connected"}

\* No object is closed twice and no pointer closed that names none (the ladders
\* of 795-915 and 1158-1253 against the teardown of 1123-1144), with one
\* exception: the connector of a pair that was refused, or never got one.
ClosesOpenObjects ==
  misclosed \subseteq {<<p, "connector">> : p \in {q \in Pairs :
                                                   returned[q] \in {"refused", "noConnector"}}}

\* While a queue pair is open so are its completion queues; and so is its
\* protection domain if it is the admin queue's, unless it failed to connect: its
\* teardown does nothing on a socket that has no connection yet (1130), and the
\* destruction (921-940) asks for no pair.  Those of the I/O queues lose their
\* protection domain with the admin queue's teardown.
ParentsOutliveChildren ==
  \A p \in Pairs : bundle[p]["qp"] = "open" =>
    /\ bundle[p]["rcq"] = "open" /\ bundle[p]["scq"] = "open"
    /\ p = Admin => base["pd"] = "open" \/ Failed(p)

\* What a freed socket leaves open is the queues of a pair whose connection
\* failed after its queue pair was made (the connect of 1181-1235 gives none of
\* them back), the pairs of the I/O queues that were connected, or had a call in
\* progress, when the admin queue was torn down (5509-5528 passes them by), and
\* the alias of a socket that got no protection domain; nothing else.
FreedSocketLeavesNothing ==
  socket = "freed" =>
    /\ \A p \in Pairs, k \in Kinds : bundle[p][k] = "open" =>
         \/ returned[p] \in {"noConnector", "refused", "incomplete"}
         \/ p # Admin /\ (pc[p] = "up" \/ pc[p] \notin AtRest)
    /\ \A b \in Base : base[b] = "open" => b = "alias" /\ base["pd"] = "null"

\* The pairs the reference count stands for: counted at 1249, not yet given up
\* at 1140.
CountedPairs ==
  {p \in Pairs : returned[p] = "connected" /\ pc[p] # "down"}

\* As long as no failed pair was torn down the reference count is the number of
\* connections, however connects and teardowns interleave; so the last teardown
\* finds a count of one, and the socket is never marked disconnected (1136).
RefCountIsConnections ==
  (\A p \in Pairs : Failed(p) => pc[p] \notin {"testZero", "testPositive", "markDisconnected",
                                            "release", "down"})
    => lRefCount = Cardinality(CountedPairs) /\ ulSockState # "Disconnected"

\* However many connections are lost, and on whichever queues, one work item is
\* queued (568, 4198).
ReportedOnce == reports <= 1 /\ (reports = 0 <=> ulDisconnectFlag = "none")

\* Every connect, teardown, opening and destruction returns: each waits for the
\* provider without a timeout, and none for another thread.
EveryCallReturns == \A t \in Threads : (pc[t] \notin AtRest) ~> (pc[t] \in AtRest)
=============================================================================

--------------------------- MODULE NdkSocket_proofs ----------------------------
(*****************************************************************************)
(* Theorems about NdkSocket, for every finite set of queue pairs.            *)
(*                                                                           *)
(* The inductive invariant, IInv, ties the pointers of a pair to the place   *)
(* of its thread (PairInv), the socket's own objects to the place of its     *)
(* thread (OwnerInv) and the two counts of the socket to the pairs they      *)
(* count (QPCountInv, CountInv).  The lemmas have a step for each action;    *)
(* the last section concludes.                                               *)
(*****************************************************************************)
EXTENDS NdkSocket, FiniteSetTheorems, TLAPS

(* The places of a pair's thread by what its queues are there.               *)
ConnectPcs == {"createConnector", "connect", "completeConnect", "undoConnector", "undoLink",
               "getData", "getAddress", "markConnected", "count"}
ClosingPcs == {"test", "flush", "closeConnector"}
ClosedPcs == {"testZero", "testPositive", "markDisconnected", "release"}
BeforePcs == {"new", "createRcq", "createScq", "moderate", "createQp", "undoRcqOnly", "undoRcq",
              "undoScq"} \cup ConnectPcs

Open(p, kinds) == \A k \in kinds : bundle[p][k] = "open"
NotOpen(p, kinds) == \A k \in kinds : bundle[p][k] # "open"

(* What a pair's pointers name is decided by where its thread is and, for    *)
(* one that failed, by what failed.                                          *)
QueuesInv(p) ==
  /\ pc[p] \in {"new", "createRcq"} => NotOpen(p, {"rcq", "scq"})
  /\ pc[p] \in {"createScq", "undoRcqOnly"} => Open(p, {"rcq"}) /\ NotOpen(p, {"scq"})
  /\ pc[p] \in {"moderate", "createQp", "undoRcq"} => Open(p, {"rcq", "scq"})
  /\ pc[p] = "undoScq" => NotOpen(p, {"rcq"}) /\ Open(p, {"scq"})
  /\ pc[p] \in BeforePcs \ ConnectPcs => bundle[p]["qp"] = "null"
  /\ pc[p] \in ConnectPcs \cup {"up", "closeQp"} \cup ClosingPcs => Open(p, {"rcq", "scq", "qp"})
  /\ pc[p] = "closeRcq" => bundle[p]["qp"] = "closed" /\ Open(p, {"rcq", "scq"})
  /\ pc[p] = "closeScq" => bundle[p]["qp"] = "closed" /\ NotOpen(p, {"rcq"}) /\ Open(p, {"scq"})
  /\ pc[p] \in ClosedPcs => bundle[p]["qp"] = "closed" /\ NotOpen(p, {"rcq", "scq"})
  /\ pc[p] = "failed" => IF returned[p] = "createFailed"
                         THEN bundle[p]["qp"] = "null" /\ NotOpen(p, {"rcq", "scq"})
                         ELSE Open(p, {"rcq", "scq", "qp"})
  /\ pc[p] = "down" => \/ Open(p, {"rcq", "scq", "qp"}) /\ Failed(p)
                       \/ bundle[p]["qp"] = "closed" /\ NotOpen(p, {"rcq", "scq", "connector"})

ConnectorInv(p) ==
  /\ pc[p] \in BeforePcs \ (ConnectPcs \ {"createConnector"}) => NotOpen(p, {"connector"})
  /\ pc[p] \in (ConnectPcs \ {"createConnector"}) \cup {"up"} => Open(p, {"connector"})
  /\ pc[p] \in ClosingPcs \cup {"failed"} =>
       IF returned[p] \in {"connected", "incomplete"}
       THEN Open(p, {"connector"}) ELSE NotOpen(p, {"connector"})
  /\ pc[p] \in {"closeQp", "closeRcq", "closeScq"} \cup ClosedPcs => NotOpen(p, {"connector"})

(* The places of a pair's thread, and what its connect has come to there.    *)
ReturnedInv(p) ==
  /\ pc[p] \in BeforePcs \cup {"up", "failed", "closeQp", "closeRcq", "closeScq", "down"}
              \cup ClosingPcs \cup ClosedPcs
  /\ pc[p] \in BeforePcs => returned[p] = "none"
  /\ pc[p] = "failed" => Failed(p)
  /\ pc[p] = "up" => returned[p] = "connected"
  /\ pc[p] \in ClosingPcs \cup {"closeQp", "closeRcq", "closeScq", "down"} \cup ClosedPcs =>
       returned[p] \notin {"none", "createFailed"}
  /\ pc[p] = "count" \/ returned[p] = "connected" => IsConnected

PairInv == \A p \in Pairs : QueuesInv(p) /\ ConnectorInv(p) /\ ReturnedInv(p)

(* The socket's own objects, and what its thread has to wait for.            *)
OpeningPcs == {"new", "openAdapter", "queryAdapter", "allocateAlias", "convertAlias", "createPd",
               "failed"}
OwnerInv ==
  /\ pc[Owner] \in OpeningPcs \cup {"ready", "closePd", "closeAdapter", "done"}
  /\ pc[Owner] \in OpeningPcs => \A p \in Pairs : pc[p] = "new"
  /\ pc[Owner] \in {"closePd", "closeAdapter", "done"} => pc[Admin] = "down"
  /\ pc[Owner] \in {"ready", "closePd"} => base["pd"] = "open"
  /\ socket = "freed" => pc[Owner] \in {"failed", "done"}
  /\ pc[Owner] \in {"new", "openAdapter"} => \A b \in Base : base[b] = "null"
  /\ pc[Owner] \in OpeningPcs => base["pd"] = "null"
  /\ pc[Owner] = "failed" => base["adapter"] # "open"
  /\ pc[Owner] \in {"closeAdapter", "done"} => base["pd"] = "closed"
  /\ pc[Owner] = "done" => \A b \in Base : base[b] # "open"

ObjectsInv == PairInv /\ OwnerInv

QPCountInv == usSockQPCount = Cardinality({p \in Pairs : bundle[p]["qp"] # "null"})

NobodyFailedTornDown == \A p \in Pairs : Failed(p) => pc[p] \notin ClosedPcs \cup {"down"}
CountInv ==
  NobodyFailedTornDown =>
    /\ lRefCount = Cardinality(CountedPairs)
    /\ ulSockState # "Disconnected"
    /\ \A p \in Pairs : pc[p] # "markDisconnected"
-----------------------------------------------------------------------------
USE DEF socketVars, countVars, pairVars, linkVars, eventVars, Threads

(* The parts of TypeOK that most steps rest on.                              *)
ControlOK ==
  /\ pc \in [Threads -> AtRest \cup Calls \cup OwnerSteps \cup PairSteps]
  /\ pending \subseteq {t \in Threads : pc[t] \in Calls}
  /\ returned \in [Pairs -> {"none", "createFailed", "noConnector", "refused",
                             "incomplete", "connected"}]
  /\ ulSockState \in SockStates
ObjectsOK ==
  /\ socket \in {"none", "live", "freed"}
  /\ base \in [Base -> Pointers]
  /\ bundle \in [Pairs -> [Kinds -> Pointers]]
  /\ misclosed \subseteq Pairs \X Kinds
EventsOK ==
  /\ link \in [Pairs -> {"none", "up", "lost"}]
  /\ handled \subseteq Pairs
  /\ ulDisconnectFlag \in {"none", "admin", "io"}
  /\ reports \in Nat
NumbersOK == lRefCount \in Int
PartsOK == ControlOK /\ ObjectsOK /\ EventsOK /\ NumbersOK

OwnerStep == CreateRdmaSocket \/ NoMemoryForSocket \/ DestroyRdmaSocket \/ OwnerThread
PairStep(p) == CreateRdmaQPair(p) \/ TearDown(p) \/ PairThread(p) \/ ConnectionLost(p)

(* Every step of a pair keeps the types: first those of where threads are.   *)
LEMMA PairStepControl ==
  ASSUME ControlOK, NEW p \in Pairs, PairStep(p)
  PROVE  ControlOK'
<1> USE DEF ControlOK, AtRest, Calls, OwnerCalls, PairCalls, PairSteps, SockStates
<1>1. CASE CreateRdmaQPair(p)
  BY <1>1 DEF CreateRdmaQPair, Goto, Result
<1>2. CASE TearDown(p)
  BY <1>2 DEF TearDown, HasQueuePair
<1>3. CASE Issue(p)
  BY <1>3 DEF Issue
<1>4. CASE CreateRcq(p)
  BY <1>4 DEF CreateRcq, NdkCreateCompletionQueue, Creates, Completes, Result
<1>5. CASE CreateScq(p)
  BY <1>5 DEF CreateScq, NdkCreateCompletionQueue, Creates, Completes
<1>6. CASE ControlCqInterruptModeration(p)
  BY <1>6 DEF ControlCqInterruptModeration, Goto
<1>7. CASE CreateQp(p)
  BY <1>7 DEF CreateQp, NdkCreateQueuePair, Creates, Completes
<1>8. CASE UndoQueues(p)
  BY <1>8 DEF UndoQueues, NdkCloseCompletionQueue, Closes, Completes, Result
<1>9. CASE CreateConnector(p)
  BY <1>9 DEF CreateConnector, NdkCreateConnector, Creates, Completes, Result
<1>10. CASE Connect(p)
  BY <1>10 DEF Connect, NdkConnect, Completes
<1>11. CASE Refused(p)
  BY <1>11 DEF Refused, NdkCloseConnector, Closes, Completes, Result
<1>12. CASE CompleteConnect(p)
  BY <1>12 DEF CompleteConnect, NdkCompleteConnect, Completes, Result
<1>13. CASE GetConnectionData(p)
  BY <1>13 DEF GetConnectionData, Goto
<1>14. CASE GetLocalAddressAndArm(p)
  BY <1>14 DEF GetLocalAddressAndArm, Goto
<1>15. CASE UndoLink(p)
  BY <1>15 DEF UndoLink, NdkDisconnect, Completes, Result
<1>16. CASE MarkConnected(p)
  BY <1>16 DEF MarkConnected, Goto
<1>17. CASE CountConnection(p)
  BY <1>17 DEF CountConnection, Goto, Result
<1>18. CASE TestConnected(p)
  BY <1>18 DEF TestConnected, Goto
<1>19. CASE Flush(p)
  BY <1>19 DEF Flush, Goto
<1>20. CASE CloseConnector(p)
  BY <1>20 DEF CloseConnector, NdkCloseConnector, Closes, Completes
<1>21. CASE CloseQueues(p)
  BY <1>21 DEF CloseQueues, NdkCloseCompletionQueue, NdkCloseQueuePair, Closes,
     Completes
<1>22. CASE TestRefCount(p)
  BY <1>22 DEF TestRefCount, Goto
<1>23. CASE MarkDisconnected(p)
  BY <1>23 DEF MarkDisconnected, Goto
<1>24. CASE ReleaseRefCount(p)
  BY <1>24 DEF ReleaseRefCount, Goto
<1>25. CASE ConnectionLost(p)
  BY <1>25 DEF ConnectionLost, AdminDisconnectQPEvent, IOQPDisconnect,
     SetDisconnectFlag
<1> QED
  BY <1>1, <1>2, <1>3, <1>4, <1>5, <1>6, <1>7, <1>8, <1>9, <1>10, <1>11, <1>12, <1>13,
     <1>14, <1>15, <1>16, <1>17, <1>18, <1>19, <1>20, <1>21, <1>22, <1>23, <1>24,
     <1>25 DEF PairStep, PairThread, ConnectThread, TearDownThread

(* ... and those of everything else.                                         *)
LEMMA PairStepRest ==
  ASSUME ObjectsOK, EventsOK, NumbersOK, NEW p \in Pairs, PairStep(p)
  PROVE  ObjectsOK' /\ EventsOK' /\ NumbersOK'
<1> USE DEF ObjectsOK, EventsOK, NumbersOK, Kinds, Pointers
<1>1. CASE CreateRdmaQPair(p)
  BY <1>1 DEF CreateRdmaQPair, Goto, Result
<1>2. CASE TearDown(p)
  BY <1>2 DEF TearDown, HasQueuePair
<1>3. CASE Issue(p)
  BY <1>3 DEF Issue
<1>4. CASE CreateRcq(p)
  BY <1>4 DEF CreateRcq, NdkCreateCompletionQueue, Creates, Completes, Result
<1>5. CASE CreateScq(p)
  BY <1>5 DEF CreateScq, NdkCreateCompletionQueue, Creates, Completes
<1>6. CASE ControlCqInterruptModeration(p)
  BY <1>6 DEF ControlCqInterruptModeration, Goto
<1>7. CASE CreateQp(p)
  BY <1>7 DEF CreateQp, NdkCreateQueuePair, Creates, Completes
<1>8. CASE UndoQueues(p)
  BY <1>8 DEF UndoQueues, NdkCloseCompletionQueue, Closes, Completes, Result
<1>9. CASE CreateConnector(p)
  BY <1>9 DEF CreateConnector, NdkCreateConnector, Creates, Completes, Result
<1>10. CASE Connect(p)
  BY <1>10 DEF Connect, NdkConnect, Completes
<1>11. CASE Refused(p)
  BY <1>11 DEF Refused, NdkCloseConnector, Closes, Completes, Result
<1>12. CASE CompleteConnect(p)
  BY <1>12 DEF CompleteConnect, NdkCompleteConnect, Completes, Result
<1>13. CASE GetConnectionData(p)
  BY <1>13 DEF GetConnectionData, Goto
<1>14. CASE GetLocalAddressAndArm(p)
  BY <1>14 DEF GetLocalAddressAndArm, Goto
<1>15. CASE UndoLink(p)
  BY <1>15 DEF UndoLink, NdkDisconnect, Completes, Result
<1>16. CASE MarkConnected(p)
  BY <1>16 DEF MarkConnected, Goto
<1>17. CASE CountConnection(p)
  BY <1>17 DEF CountConnection, Goto, Result
<1>18. CASE TestConnected(p)
  BY <1>18 DEF TestConnected, Goto
<1>19. CASE Flush(p)
  BY <1>19 DEF Flush, Goto
<1>20. CASE CloseConnector(p)
  BY <1>20 DEF CloseConnector, NdkCloseConnector, Closes, Completes
<1>21. CASE CloseQueues(p)
  BY <1>21 DEF CloseQueues, NdkCloseCompletionQueue, NdkCloseQueuePair, Closes,
     Completes
<1>22. CASE TestRefCount(p)
  BY <1>22 DEF TestRefCount, Goto
<1>23. CASE MarkDisconnected(p)
  BY <1>23 DEF MarkDisconnected, Goto
<1>24. CASE ReleaseRefCount(p)
  BY <1>24 DEF ReleaseRefCount, Goto
<1>25. CASE ConnectionLost(p)
  BY <1>25 DEF ConnectionLost, AdminDisconnectQPEvent, IOQPDisconnect,
     SetDisconnectFlag
<1> QED
  BY <1>1, <1>2, <1>3, <1>4, <1>5, <1>6, <1>7, <1>8, <1>9, <1>10, <1>11, <1>12, <1>13,
     <1>14, <1>15, <1>16, <1>17, <1>18, <1>19, <1>20, <1>21, <1>22, <1>23, <1>24,
     <1>25 DEF PairStep, PairThread, ConnectThread, TearDownThread

(* So does every step of the socket's thread, in the same two parts.         *)
LEMMA OwnerStepControl ==
  ASSUME ControlOK, OwnerStep
  PROVE  ControlOK'
<1> USE DEF ControlOK, AtRest, Calls, OwnerCalls, OwnerSteps, PairCalls, SockStates
<1>1. CASE CreateRdmaSocket
  BY <1>1 DEF CreateRdmaSocket, OwnerGoto, Goto
<1>2. CASE NoMemoryForSocket
  BY <1>2 DEF NoMemoryForSocket, OwnerGoto, Goto
<1>3. CASE DestroyRdmaSocket
  BY <1>3 DEF DestroyRdmaSocket, OwnerGoto, Goto
<1>4. CASE Issue(Owner)
  BY <1>4 DEF Issue
<1>5. CASE OpenAdapter
  BY <1>5 DEF OpenAdapter, OwnerGoto, Goto
<1>6. CASE QueryAdapter
  BY <1>6 DEF QueryAdapter, OwnerGoto, Goto, OpenFails, NdkCloseRdmaAdapter
<1>7. CASE AllocateAlias
  BY <1>7 DEF AllocateAlias, OwnerGoto, Goto, OpenFails, NdkCloseRdmaAdapter
<1>8. CASE ConvertAlias
  BY <1>8 DEF ConvertAlias, OwnerGoto, Goto, OpenFails, NdkCloseRdmaAdapter
<1>9. CASE CreateProtectionDomain
  BY <1>9 DEF CreateProtectionDomain, Completes
<1>10. CASE CloseProtectionDomain
  BY <1>10 DEF CloseProtectionDomain, Completes
<1>11. CASE CloseAdapter
  BY <1>11 DEF CloseAdapter, OwnerGoto, Goto, NdkCloseRdmaAdapter
<1> QED
  BY <1>1, <1>2, <1>3, <1>4, <1>5, <1>6, <1>7, <1>8, <1>9, <1>10, <1>11 DEF OwnerStep,
     OwnerThread

LEMMA OwnerStepRest ==
  ASSUME ObjectsOK, EventsOK, NumbersOK, OwnerStep
  PROVE  ObjectsOK' /\ EventsOK' /\ NumbersOK'
<1> USE DEF ObjectsOK, EventsOK, NumbersOK, Base, Pointers
<1>1. CASE CreateRdmaSocket
  BY <1>1 DEF CreateRdmaSocket, OwnerGoto, Goto
<1>2. CASE NoMemoryForSocket
  BY <1>2 DEF NoMemoryForSocket, OwnerGoto, Goto
<1>3. CASE DestroyRdmaSocket
  BY <1>3 DEF DestroyRdmaSocket, OwnerGoto, Goto
<1>4. CASE Issue(Owner)
  BY <1>4 DEF Issue
<1>5. CASE OpenAdapter
  BY <1>5 DEF OpenAdapter, OwnerGoto, Goto
<1>6. CASE QueryAdapter
  BY <1>6 DEF QueryAdapter, OwnerGoto, Goto, OpenFails, NdkCloseRdmaAdapter
<1>7. CASE AllocateAlias
  BY <1>7 DEF AllocateAlias, OwnerGoto, Goto, OpenFails, NdkCloseRdmaAdapter
<1>8. CASE ConvertAlias
  BY <1>8 DEF ConvertAlias, OwnerGoto, Goto, OpenFails, NdkCloseRdmaAdapter
<1>9. CASE CreateProtectionDomain
  BY <1>9 DEF CreateProtectionDomain, Completes
<1>10. CASE CloseProtectionDomain
  BY <1>10 DEF CloseProtectionDomain, Completes
<1>11. CASE CloseAdapter
  BY <1>11 DEF CloseAdapter, OwnerGoto, Goto, NdkCloseRdmaAdapter
<1> QED
  BY <1>1, <1>2, <1>3, <1>4, <1>5, <1>6, <1>7, <1>8, <1>9, <1>10, <1>11 DEF OwnerStep,
     OwnerThread

(* The socket's thread leaves the pairs alone and resets the state of the    *)
(* socket only when it makes the protection domain.                          *)
LEMMA OwnerFrame ==
  ASSUME ControlOK, OwnerStep
  PROVE  /\ UNCHANGED <<bundle, misclosed, link, handled, returned, ulDisconnectFlag, reports,
                      lRefCount, usSockQPCount>>
         /\ \A p \in Pairs : pc'[p] = pc[p]
         /\ \/ ulSockState' = ulSockState
            \/ pc[Owner] = "createPd" /\ ulSockState' = "Initialized"
<1> USE PairsAssumption DEF ControlOK
<1>1. CASE CreateRdmaSocket
  BY <1>1 DEF CreateRdmaSocket, OwnerGoto, Goto
<1>2. CASE NoMemoryForSocket
  BY <1>2 DEF NoMemoryForSocket, OwnerGoto, Goto
<1>3. CASE DestroyRdmaSocket
  BY <1>3 DEF DestroyRdmaSocket, OwnerGoto, Goto
<1>4. CASE Issue(Owner)
  BY <1>4 DEF Issue
<1>5. CASE OpenAdapter
  BY <1>5 DEF OpenAdapter, OwnerGoto, Goto
<1>6. CASE QueryAdapter
  BY <1>6 DEF QueryAdapter, OwnerGoto, Goto, OpenFails, NdkCloseRdmaAdapter
<1>7. CASE AllocateAlias
  BY <1>7 DEF AllocateAlias, OwnerGoto, Goto, OpenFails, NdkCloseRdmaAdapter
<1>8. CASE ConvertAlias
  BY <1>8 DEF ConvertAlias, OwnerGoto, Goto, OpenFails, NdkCloseRdmaAdapter
<1>9. CASE CreateProtectionDomain
  BY <1>9 DEF CreateProtectionDomain, Completes
<1>10. CASE CloseProtectionDomain
  BY <1>10 DEF CloseProtectionDomain, Completes
<1>11. CASE CloseAdapter
  BY <1>11 DEF CloseAdapter, OwnerGoto, Goto, NdkCloseRdmaAdapter
<1> QED
  BY <1>1, <1>2, <1>3, <1>4, <1>5, <1>6, <1>7, <1>8, <1>9, <1>10, <1>11 DEF OwnerStep,
     OwnerThread

(* A step of a pair is nobody else's, starts only on a socket that is ready  *)
(* and does not follow the last one.                                         *)
LEMMA PairFrame ==
  ASSUME ControlOK, ObjectsOK, NEW p \in Pairs, PairStep(p)
  PROVE  /\ UNCHANGED <<socket, base>>
         /\ \A t \in Threads \ {p} : pc'[t] = pc[t]
         /\ \A q \in Pairs \ {p} : bundle'[q] = bundle[q] /\ returned'[q] = returned[q]
         /\ pc'[p] = pc[p] \/ pc[p] # "new" \/ pc[Owner] = "ready"
         /\ pc[p] = "down" => pc'[p] = "down"
<1> USE PairsAssumption DEF ControlOK, ObjectsOK, Kinds
<1>1. CASE CreateRdmaQPair(p)
  BY <1>1 DEF CreateRdmaQPair, Goto, Result
<1>2. CASE TearDown(p)
  BY <1>2 DEF TearDown, HasQueuePair
<1>3. CASE Issue(p)
  BY <1>3 DEF Issue
<1>4. CASE CreateRcq(p)
  BY <1>4 DEF CreateRcq, NdkCreateCompletionQueue, Creates, Completes, Result
<1>5. CASE CreateScq(p)
  BY <1>5 DEF CreateScq, NdkCreateCompletionQueue, Creates, Completes
<1>6. CASE ControlCqInterruptModeration(p)
  BY <1>6 DEF ControlCqInterruptModeration, Goto
<1>7. CASE CreateQp(p)
  BY <1>7 DEF CreateQp, NdkCreateQueuePair, Creates, Completes
<1>8. CASE UndoQueues(p)
  BY <1>8 DEF UndoQueues, NdkCloseCompletionQueue, Closes, Completes, Result
<1>9. CASE CreateConnector(p)
  BY <1>9 DEF CreateConnector, NdkCreateConnector, Creates, Completes, Result
<1>10. CASE Connect(p)
  BY <1>10 DEF Connect, NdkConnect, Completes
<1>11. CASE Refused(p)
  BY <1>11 DEF Refused, NdkCloseConnector, Closes, Completes, Result
<1>12. CASE CompleteConnect(p)
  BY <1>12 DEF CompleteConnect, NdkCompleteConnect, Completes, Result
<1>13. CASE GetConnectionData(p)
  BY <1>13 DEF GetConnectionData, Goto
<1>14. CASE GetLocalAddressAndArm(p)
  BY <1>14 DEF GetLocalAddressAndArm, Goto
<1>15. CASE UndoLink(p)
  BY <1>15 DEF UndoLink, NdkDisconnect, Completes, Result
<1>16. CASE MarkConnected(p)
  BY <1>16 DEF MarkConnected, Goto
<1>17. CASE CountConnection(p)
  BY <1>17 DEF CountConnection, Goto, Result
<1>18. CASE TestConnected(p)
  BY <1>18 DEF TestConnected, Goto
<1>19. CASE Flush(p)
  BY <1>19 DEF Flush, Goto
<1>20. CASE CloseConnector(p)
  BY <1>20 DEF CloseConnector, NdkCloseConnector, Closes, Completes
<1>21. CASE CloseQueues(p)
  BY <1>21 DEF CloseQueues, NdkCloseCompletionQueue, NdkCloseQueuePair, Closes,
     Completes
<1>22. CASE TestRefCount(p)
  BY <1>22 DEF TestRefCount, Goto
<1>23. CASE MarkDisconnected(p)
  BY <1>23 DEF MarkDisconnected, Goto
<1>24. CASE ReleaseRefCount(p)
  BY <1>24 DEF ReleaseRefCount, Goto
<1>25. CASE ConnectionLost(p)
  BY <1>25 DEF ConnectionLost, AdminDisconnectQPEvent, IOQPDisconnect,
     SetDisconnectFlag
<1> QED
  BY <1>1, <1>2, <1>3, <1>4, <1>5, <1>6, <1>7, <1>8, <1>9, <1>10, <1>11, <1>12, <1>13,
     <1>14, <1>15, <1>16, <1>17, <1>18, <1>19, <1>20, <1>21, <1>22, <1>23, <1>24,
     <1>25 DEF PairStep, PairThread, ConnectThread, TearDownThread

(* What a pair's pointers name follows its thread.                           *)
LEMMA PairStepObjects ==
  ASSUME ControlOK, ObjectsOK, PairInv, NEW p \in Pairs,
         PairStep(p)
  PROVE  PairInv'
<1> SUFFICES ASSUME NEW q \in Pairs
             PROVE  QueuesInv(q)' /\ ConnectorInv(q)' /\ ReturnedInv(q)'
  BY DEF PairInv
<1> USE DEF ControlOK, ObjectsOK, PairInv, QueuesInv, ConnectorInv, ReturnedInv, Open, NotOpen,
            Failed, IsConnected, ConnectPcs, BeforePcs, ClosingPcs, ClosedPcs, Kinds
<1>1. CASE CreateRdmaQPair(p)
  BY <1>1 DEF CreateRdmaQPair, Goto, Result
<1>2. CASE TearDown(p)
  BY <1>2 DEF TearDown, HasQueuePair
<1>3. CASE Issue(p)
  BY <1>3 DEF Issue
<1>4. CASE CreateRcq(p)
  BY <1>4 DEF CreateRcq, NdkCreateCompletionQueue, Creates, Completes, Result
<1>5. CASE CreateScq(p)
  BY <1>5 DEF CreateScq, NdkCreateCompletionQueue, Creates, Completes
<1>6. CASE ControlCqInterruptModeration(p)
  BY <1>6 DEF ControlCqInterruptModeration, Goto
<1>7. CASE CreateQp(p)
  BY <1>7 DEF CreateQp, NdkCreateQueuePair, Creates, Completes
<1>8. CASE UndoQueues(p)
  BY <1>8 DEF UndoQueues, NdkCloseCompletionQueue, Closes, Completes, Result
<1>9. CASE CreateConnector(p)
  BY <1>9 DEF CreateConnector, NdkCreateConnector, Creates, Completes, Result
<1>10. CASE Connect(p)
  BY <1>10 DEF Connect, NdkConnect, Completes
<1>11. CASE Refused(p)
  BY <1>11 DEF Refused, NdkCloseConnector, Closes, Completes, Result
<1>12. CASE CompleteConnect(p)
  BY <1>12 DEF CompleteConnect, NdkCompleteConnect, Completes, Result
<1>13. CASE GetConnectionData(p)
  BY <1>13 DEF GetConnectionData, Goto
<1>14. CASE GetLocalAddressAndArm(p)
  BY <1>14 DEF GetLocalAddressAndArm, Goto
<1>15. CASE UndoLink(p)
  BY <1>15 DEF UndoLink, NdkDisconnect, Completes, Result
<1>16. CASE MarkConnected(p)
  BY <1>16 DEF MarkConnected, Goto
<1>17. CASE CountConnection(p)
  BY <1>17 DEF CountConnection, Goto, Result
<1>18. CASE TestConnected(p)
  BY <1>18 DEF TestConnected, Goto
<1>19. CASE Flush(p)
  BY <1>19 DEF Flush, Goto
<1>20. CASE CloseConnector(p)
  BY <1>20 DEF CloseConnector, NdkCloseConnector, Closes, Completes
<1>21. CASE CloseQueues(p)
  BY <1>21 DEF CloseQueues, NdkCloseCompletionQueue, NdkCloseQueuePair, Closes,
     Completes
<1>22. CASE TestRefCount(p)
  BY <1>22 DEF TestRefCount, Goto
<1>23. CASE MarkDisconnected(p)
  BY <1>23 DEF MarkDisconnected, Goto
<1>24. CASE ReleaseRefCount(p)
  BY <1>24 DEF ReleaseRefCount, Goto
<1>25. CASE ConnectionLost(p)
  BY <1>25 DEF ConnectionLost, AdminDisconnectQPEvent, IOQPDisconnect,
     SetDisconnectFlag
<1> QED
  BY <1>1, <1>2, <1>3, <1>4, <1>5, <1>6, <1>7, <1>8, <1>9, <1>10, <1>11, <1>12, <1>13,
     <1>14, <1>15, <1>16, <1>17, <1>18, <1>19, <1>20, <1>21, <1>22, <1>23, <1>24,
     <1>25 DEF PairStep, PairThread, ConnectThread, TearDownThread

(* The socket's own objects follow its thread, whatever it does.             *)
LEMMA OwnerStepObjects ==
  ASSUME ControlOK, ObjectsOK, ObjectsInv, OwnerStep
  PROVE  ObjectsInv'
<1>1. PairInv'
  <2>1. /\ UNCHANGED <<bundle, returned>>
        /\ \A p \in Pairs : pc'[p] = pc[p]
        /\ \/ ulSockState' = ulSockState
           \/ pc[Owner] = "createPd" /\ ulSockState' = "Initialized"
    BY OwnerFrame
  <2>2. ASSUME NEW p \in Pairs
        PROVE  QueuesInv(p)' /\ ConnectorInv(p)' /\ ReturnedInv(p)'
    <3>1. QueuesInv(p)' /\ ConnectorInv(p)'
      BY <2>1, <2>2 DEF ObjectsInv, PairInv, QueuesInv, ConnectorInv, Open, NotOpen, Failed
    <3>2. CASE ulSockState' = ulSockState
      BY <2>1, <2>2, <3>1, <3>2 DEF ObjectsInv, PairInv, ReturnedInv, IsConnected, Failed
    <3>3. CASE pc[Owner] = "createPd"
      BY <2>1, <2>2, <3>1, <3>3
         DEF ObjectsInv, PairInv, OwnerInv, OpeningPcs, ReturnedInv, BeforePcs, ClosingPcs,
             ClosedPcs
    <3> QED
      BY <2>1, <3>1, <3>2, <3>3
  <2> QED
    BY <2>2 DEF PairInv
<1>2. OwnerInv'
  <2> USE PairsAssumption DEF ControlOK, ObjectsOK, ObjectsInv, OwnerInv, OpeningPcs, Base, Pointers
  <2>1. CASE CreateRdmaSocket
    BY <2>1 DEF CreateRdmaSocket, OwnerGoto, Goto
  <2>2. CASE NoMemoryForSocket
    BY <2>2 DEF NoMemoryForSocket, OwnerGoto, Goto
  <2>3. CASE DestroyRdmaSocket
    BY <2>3 DEF DestroyRdmaSocket, OwnerGoto, Goto
  <2>4. CASE Issue(Owner)
    BY <2>4 DEF Issue
  <2>5. CASE OpenAdapter
    BY <2>5 DEF OpenAdapter, OwnerGoto, Goto
  <2>6. CASE QueryAdapter
    BY <2>6 DEF QueryAdapter, OwnerGoto, Goto, OpenFails, NdkCloseRdmaAdapter
  <2>7. CASE AllocateAlias
    BY <2>7 DEF AllocateAlias, OwnerGoto, Goto, OpenFails, NdkCloseRdmaAdapter
  <2>8. CASE ConvertAlias
    BY <2>8 DEF ConvertAlias, OwnerGoto, Goto, OpenFails, NdkCloseRdmaAdapter
  <2>9. CASE CreateProtectionDomain
    BY <2>9 DEF CreateProtectionDomain, Completes
  <2>10. CASE CloseProtectionDomain
    BY <2>10 DEF CloseProtectionDomain, Completes
  <2>11. CASE CloseAdapter
    BY <2>11 DEF CloseAdapter, OwnerGoto, Goto, NdkCloseRdmaAdapter
  <2> QED
    BY <2>1, <2>2, <2>3, <2>4, <2>5, <2>6, <2>7, <2>8, <2>9, <2>10, <2>11
       DEF OwnerStep, OwnerThread
<1> QED
  BY <1>1, <1>2 DEF ObjectsInv

(* No step of a pair disturbs what is known of the socket's thread.          *)
LEMMA PairStepOwner ==
  ASSUME ControlOK, ObjectsOK, OwnerInv, NEW p \in Pairs, PairStep(p)
  PROVE  OwnerInv'
<1>1. /\ UNCHANGED <<socket, base>>
      /\ pc'[Owner] = pc[Owner]
      /\ \A q \in Pairs \ {p} : pc'[q] = pc[q] /\ bundle'[q] = bundle[q]
      /\ pc'[p] = pc[p] \/ pc[p] # "new" \/ pc[Owner] = "ready"
      /\ pc[p] = "down" => pc'[p] = "down"
  BY PairFrame, PairsAssumption
<1>2. pc[Admin] = "down" => pc'[Admin] = "down"
  BY <1>1, PairsAssumption
<1>3. pc[Owner] \in OpeningPcs => \A q \in Pairs : pc'[q] = "new"
  BY <1>1 DEF OwnerInv, OpeningPcs
<1> QED
  BY <1>1, <1>2, <1>3 DEF OwnerInv, OpeningPcs

(* A pair's step closes only what is open, or the connector of a pair that   *)
(* was refused or never got one; and a connect comes to one result only.     *)
LEMMA PairStepMiscloses ==
  ASSUME ControlOK, ObjectsOK, PairInv, NEW p \in Pairs, PairStep(p)
  PROVE  /\ misclosed' # misclosed =>
               /\ misclosed' = misclosed \cup {<<p, "connector">>}
               /\ returned'[p] \in {"refused", "noConnector"}
         /\ returned[p] # "none" => returned'[p] = returned[p]
<1> QueuesInv(p) /\ ConnectorInv(p) /\ ReturnedInv(p)
  BY DEF PairInv
<1> USE DEF ControlOK, ObjectsOK, Kinds, ReturnedInv, BeforePcs, ConnectPcs
<1>1. CASE CreateRdmaQPair(p)
  BY <1>1 DEF CreateRdmaQPair, Goto, Result
<1>2. CASE TearDown(p)
  BY <1>2 DEF TearDown, HasQueuePair
<1>3. CASE Issue(p)
  BY <1>3 DEF Issue
<1>4. CASE CreateRcq(p)
  BY <1>4 DEF CreateRcq, NdkCreateCompletionQueue, Creates, Completes, Result
<1>5. CASE CreateScq(p)
  BY <1>5 DEF CreateScq, NdkCreateCompletionQueue, Creates, Completes
<1>6. CASE ControlCqInterruptModeration(p)
  BY <1>6 DEF ControlCqInterruptModeration, Goto
<1>7. CASE CreateQp(p)
  BY <1>7 DEF CreateQp, NdkCreateQueuePair, Creates, Completes
<1>8. CASE UndoQueues(p)
  <2>1. /\ pc[p] \in {"undoRcqOnly", "undoRcq"} => bundle[p]["rcq"] = "open"
        /\ pc[p] = "undoScq" => bundle[p]["scq"] = "open"
    BY DEF QueuesInv, Open
  <2> QED
    BY <1>8, <2>1, ZenonT(30) DEF UndoQueues, NdkCloseCompletionQueue, Closes, Completes, Result
<1>9. CASE CreateConnector(p)
  BY <1>9 DEF CreateConnector, NdkCreateConnector, Creates, Completes, Result
<1>10. CASE Connect(p)
  BY <1>10 DEF Connect, NdkConnect, Completes
<1>11. CASE Refused(p)
  BY <1>11 DEF Refused, NdkCloseConnector, Closes, Completes, Result, ConnectorInv,
     Open
<1>12. CASE CompleteConnect(p)
  BY <1>12 DEF CompleteConnect, NdkCompleteConnect, Completes, Result
<1>13. CASE GetConnectionData(p)
  BY <1>13 DEF GetConnectionData, Goto
<1>14. CASE GetLocalAddressAndArm(p)
  BY <1>14 DEF GetLocalAddressAndArm, Goto
<1>15. CASE UndoLink(p)
  BY <1>15 DEF UndoLink, NdkDisconnect, Completes, Result
<1>16. CASE MarkConnected(p)
  BY <1>16 DEF MarkConnected, Goto
<1>17. CASE CountConnection(p)
  BY <1>17 DEF CountConnection, Goto, Result
<1>18. CASE TestConnected(p)
  BY <1>18 DEF TestConnected, Goto
<1>19. CASE Flush(p)
  BY <1>19 DEF Flush, Goto
<1>20. CASE CloseConnector(p)
  BY <1>20 DEF CloseConnector, NdkCloseConnector, Closes, Completes, ConnectorInv,
     Open, ClosingPcs
<1>21. CASE CloseQueues(p)
  <2>1. /\ pc[p] = "closeQp" => bundle[p]["qp"] = "open"
        /\ pc[p] = "closeRcq" => bundle[p]["rcq"] = "open"
        /\ pc[p] = "closeScq" => bundle[p]["scq"] = "open"
    BY DEF QueuesInv, Open
  <2>2. pc[p] \in {"closeQp", "closeRcq", "closeScq"} => returned[p] # "none"
    OBVIOUS
  <2> QED
    BY <1>21, <2>1, <2>2, ZenonT(30)
       DEF CloseQueues, NdkCloseCompletionQueue, NdkCloseQueuePair, Closes, Completes
<1>22. CASE TestRefCount(p)
  BY <1>22 DEF TestRefCount, Goto
<1>23. CASE MarkDisconnected(p)
  BY <1>23 DEF MarkDisconnected, Goto
<1>24. CASE ReleaseRefCount(p)
  BY <1>24 DEF ReleaseRefCount, Goto
<1>25. CASE ConnectionLost(p)
  BY <1>25 DEF ConnectionLost, AdminDisconnectQPEvent, IOQPDisconnect,
     SetDisconnectFlag
<1> QED
  BY <1>1, <1>2, <1>3, <1>4, <1>5, <1>6, <1>7, <1>8, <1>9, <1>10, <1>11, <1>12, <1>13,
     <1>14, <1>15, <1>16, <1>17, <1>18, <1>19, <1>20, <1>21, <1>22, <1>23, <1>24,
     <1>25 DEF PairStep, PairThread, ConnectThread, TearDownThread

(* So what was closed wrongly stays what ClosesOpenObjects excuses.          *)
LEMMA PairStepCloses ==
  ASSUME ControlOK, ObjectsOK, PairInv, ClosesOpenObjects, NEW p \in Pairs, PairStep(p)
  PROVE  ClosesOpenObjects'
<1>1. \A q \in Pairs : returned[q] # "none" => returned'[q] = returned[q]
  BY PairStepMiscloses, PairFrame
<1>2. CASE misclosed' = misclosed
  BY <1>1, <1>2 DEF ClosesOpenObjects
<1>3. CASE misclosed' # misclosed
  <2>1. /\ misclosed' = misclosed \cup {<<p, "connector">>}
        /\ returned'[p] \in {"refused", "noConnector"}
    BY <1>3, PairStepMiscloses
  <2> QED
    BY <1>1, <2>1 DEF ClosesOpenObjects
<1> QED
  BY <1>2, <1>3

(* Only the creation of a queue pair makes its pointer name something, and   *)
(* it counts it.                                                             *)
LEMMA PairStepQPCount ==
  ASSUME ControlOK, ObjectsOK, PairInv, NEW p \in Pairs, PairStep(p)
  PROVE  \/ /\ usSockQPCount' = usSockQPCount
            /\ bundle'[p]["qp"] # "null" <=> bundle[p]["qp"] # "null"
         \/ /\ usSockQPCount' = usSockQPCount + 1
            /\ bundle[p]["qp"] = "null"
            /\ bundle'[p]["qp"] # "null"
<1> pc[p] \in {"createQp"} => bundle[p]["qp"] = "null"
  BY DEF PairInv, QueuesInv, BeforePcs, ConnectPcs
<1> USE DEF ControlOK, ObjectsOK, Kinds
<1>1. CASE CreateRdmaQPair(p)
  BY <1>1 DEF CreateRdmaQPair, Goto, Result
<1>2. CASE TearDown(p)
  BY <1>2 DEF TearDown, HasQueuePair
<1>3. CASE Issue(p)
  BY <1>3 DEF Issue
<1>4. CASE CreateRcq(p)
  BY <1>4 DEF CreateRcq, NdkCreateCompletionQueue, Creates, Completes, Result
<1>5. CASE CreateScq(p)
  BY <1>5 DEF CreateScq, NdkCreateCompletionQueue, Creates, Completes
<1>6. CASE ControlCqInterruptModeration(p)
  BY <1>6 DEF ControlCqInterruptModeration, Goto
<1>7. CASE CreateQp(p)
  BY <1>7 DEF CreateQp, NdkCreateQueuePair, Creates, Completes
<1>8. CASE UndoQueues(p)
  BY <1>8 DEF UndoQueues, NdkCloseCompletionQueue, Closes, Completes, Result
<1>9. CASE CreateConnector(p)
  BY <1>9 DEF CreateConnector, NdkCreateConnector, Creates, Completes, Result
<1>10. CASE Connect(p)
  BY <1>10 DEF Connect, NdkConnect, Completes
<1>11. CASE Refused(p)
  BY <1>11 DEF Refused, NdkCloseConnector, Closes, Completes, Result
<1>12. CASE CompleteConnect(p)
  BY <1>12 DEF CompleteConnect, NdkCompleteConnect, Completes, Result
<1>13. CASE GetConnectionData(p)
  BY <1>13 DEF GetConnectionData, Goto
<1>14. CASE GetLocalAddressAndArm(p)
  BY <1>14 DEF GetLocalAddressAndArm, Goto
<1>15. CASE UndoLink(p)
  BY <1>15 DEF UndoLink, NdkDisconnect, Completes, Result
<1>16. CASE MarkConnected(p)
  BY <1>16 DEF MarkConnected, Goto
<1>17. CASE CountConnection(p)
  BY <1>17 DEF CountConnection, Goto, Result
<1>18. CASE TestConnected(p)
  BY <1>18 DEF TestConnected, Goto
<1>19. CASE Flush(p)
  BY <1>19 DEF Flush, Goto
<1>20. CASE CloseConnector(p)
  BY <1>20 DEF CloseConnector, NdkCloseConnector, Closes, Completes
<1>21. CASE CloseQueues(p)
  BY <1>21 DEF CloseQueues, NdkCloseCompletionQueue, NdkCloseQueuePair, Closes,
     Completes
<1>22. CASE TestRefCount(p)
  BY <1>22 DEF TestRefCount, Goto
<1>23. CASE MarkDisconnected(p)
  BY <1>23 DEF MarkDisconnected, Goto
<1>24. CASE ReleaseRefCount(p)
  BY <1>24 DEF ReleaseRefCount, Goto
<1>25. CASE ConnectionLost(p)
  BY <1>25 DEF ConnectionLost, AdminDisconnectQPEvent, IOQPDisconnect,
     SetDisconnectFlag
<1> QED
  BY <1>1, <1>2, <1>3, <1>4, <1>5, <1>6, <1>7, <1>8, <1>9, <1>10, <1>11, <1>12, <1>13,
     <1>14, <1>15, <1>16, <1>17, <1>18, <1>19, <1>20, <1>21, <1>22, <1>23, <1>24,
     <1>25 DEF PairStep, PairThread, ConnectThread, TearDownThread

(* So the socket's count of queue pairs is the number of pairs that have or  *)
(* had one.                                                                  *)
LEMMA PairStepKeepsQPCount ==
  ASSUME ControlOK, ObjectsOK, PairInv, QPCountInv, NEW p \in Pairs, PairStep(p)
  PROVE  QPCountInv'
<1> DEFINE With == {q \in Pairs : bundle[q]["qp"] # "null"}
<1>1. IsFiniteSet(With)
  BY PairsAssumption, FS_Subset
<1>2. \A q \in Pairs \ {p} : bundle'[q] = bundle[q]
  BY PairFrame
<1>3. CASE /\ usSockQPCount' = usSockQPCount
           /\ bundle'[p]["qp"] # "null" <=> bundle[p]["qp"] # "null"
  <2>1. With' = With
    BY <1>2, <1>3
  <2> QED
    BY <1>3, <2>1 DEF QPCountInv
<1>4. CASE /\ usSockQPCount' = usSockQPCount + 1
           /\ bundle[p]["qp"] = "null"
           /\ bundle'[p]["qp"] # "null"
  <2>1. With' = With \cup {p} /\ p \notin With
    BY <1>2, <1>4
  <2>2. Cardinality(With') = Cardinality(With) + 1
    BY <1>1, <2>1, FS_AddElement
  <2> QED
    BY <1>4, <2>2 DEF QPCountInv
<1> QED
  BY <1>3, <1>4, PairStepQPCount

(* A failed pair that was torn down stays so.                                *)
LEMMA PairStepTornDown ==
  ASSUME ControlOK, PairInv, NEW p \in Pairs, PairStep(p),
         Failed(p), pc[p] \in ClosedPcs \cup {"down"}
  PROVE  (Failed(p) /\ pc[p] \in ClosedPcs \cup {"down"})'
<1> USE DEF ControlOK, Failed, ClosedPcs
<1>1. CASE CreateRdmaQPair(p)
  BY <1>1 DEF CreateRdmaQPair, Goto, Result
<1>2. CASE TearDown(p)
  BY <1>2 DEF TearDown, HasQueuePair
<1>3. CASE Issue(p)
  BY <1>3 DEF Issue
<1>4. CASE CreateRcq(p)
  BY <1>4 DEF CreateRcq, NdkCreateCompletionQueue, Creates, Completes, Result
<1>5. CASE CreateScq(p)
  BY <1>5 DEF CreateScq, NdkCreateCompletionQueue, Creates, Completes
<1>6. CASE ControlCqInterruptModeration(p)
  BY <1>6 DEF ControlCqInterruptModeration, Goto
<1>7. CASE CreateQp(p)
  BY <1>7 DEF CreateQp, NdkCreateQueuePair, Creates, Completes
<1>8. CASE UndoQueues(p)
  BY <1>8 DEF UndoQueues, NdkCloseCompletionQueue, Closes, Completes, Result
<1>9. CASE CreateConnector(p)
  BY <1>9 DEF CreateConnector, NdkCreateConnector, Creates, Completes, Result
<1>10. CASE Connect(p)
  BY <1>10 DEF Connect, NdkConnect, Completes
<1>11. CASE Refused(p)
  BY <1>11 DEF Refused, NdkCloseConnector, Closes, Completes, Result
<1>12. CASE CompleteConnect(p)
  BY <1>12 DEF CompleteConnect, NdkCompleteConnect, Completes, Result
<1>13. CASE GetConnectionData(p)
  BY <1>13 DEF GetConnectionData, Goto
<1>14. CASE GetLocalAddressAndArm(p)
  BY <1>14 DEF GetLocalAddressAndArm, Goto
<1>15. CASE UndoLink(p)
  BY <1>15 DEF UndoLink, NdkDisconnect, Completes, Result
<1>16. CASE MarkConnected(p)
  BY <1>16 DEF MarkConnected, Goto
<1>17. CASE CountConnection(p)
  BY <1>17 DEF CountConnection, Goto, Result
<1>18. CASE TestConnected(p)
  BY <1>18 DEF TestConnected, Goto
<1>19. CASE Flush(p)
  BY <1>19 DEF Flush, Goto
<1>20. CASE CloseConnector(p)
  BY <1>20 DEF CloseConnector, NdkCloseConnector, Closes, Completes
<1>21. CASE CloseQueues(p)
  BY <1>21 DEF CloseQueues, NdkCloseCompletionQueue, NdkCloseQueuePair, Closes,
     Completes
<1>22. CASE TestRefCount(p)
  BY <1>22 DEF TestRefCount, Goto
<1>23. CASE MarkDisconnected(p)
  BY <1>23 DEF MarkDisconnected, Goto
<1>24. CASE ReleaseRefCount(p)
  BY <1>24 DEF ReleaseRefCount, Goto
<1>25. CASE ConnectionLost(p)
  BY <1>25 DEF ConnectionLost, AdminDisconnectQPEvent, IOQPDisconnect,
     SetDisconnectFlag
<1> QED
  BY <1>1, <1>2, <1>3, <1>4, <1>5, <1>6, <1>7, <1>8, <1>9, <1>10, <1>11, <1>12, <1>13,
     <1>14, <1>15, <1>16, <1>17, <1>18, <1>19, <1>20, <1>21, <1>22, <1>23, <1>24,
     <1>25 DEF PairStep, PairThread, ConnectThread, TearDownThread

(* A connection is counted when its connect returns and given up by its      *)
(* teardown.                                                                 *)
LEMMA PairStepCount ==
  ASSUME ControlOK, ObjectsOK, NumbersOK, PairInv, CountInv, NEW p \in Pairs, PairStep(p),
         NobodyFailedTornDown'
  PROVE  /\ NobodyFailedTornDown
         /\ pc'[p] # "markDisconnected"
         /\ ulSockState' # "Disconnected"
         /\ \/ /\ lRefCount' = lRefCount
               /\ (p \in CountedPairs)' <=> p \in CountedPairs
            \/ /\ lRefCount' = lRefCount + 1
               /\ p \notin CountedPairs /\ (p \in CountedPairs)'
            \/ /\ lRefCount' = lRefCount - 1
               /\ p \in CountedPairs /\ (p \notin CountedPairs)'
<1>a. ReturnedInv(p)
  BY DEF PairInv
<1>b. NobodyFailedTornDown
  BY PairStepTornDown, PairFrame DEF NobodyFailedTornDown, Failed
<1>c. /\ lRefCount = Cardinality(CountedPairs)
      /\ ulSockState # "Disconnected"
      /\ pc[p] # "markDisconnected"
  BY <1>b DEF CountInv
<1>d. p \in CountedPairs => lRefCount > 0
  <2>1. IsFiniteSet(CountedPairs) /\ CountedPairs \subseteq Pairs
    BY PairsAssumption, FS_Subset DEF CountedPairs
  <2> QED
    BY <1>c, <2>1, FS_EmptySet, FS_CardinalityType
<1> USE <1>a, <1>b, <1>c, <1>d
    DEF ControlOK, ReturnedInv, CountedPairs, IsConnected, BeforePcs, ConnectPcs, ClosingPcs,
        ClosedPcs, Failed, NobodyFailedTornDown
<1>1. CASE CreateRdmaQPair(p)
  BY <1>1 DEF CreateRdmaQPair, Goto, Result
<1>2. CASE TearDown(p)
  BY <1>2 DEF TearDown, HasQueuePair
<1>3. CASE Issue(p)
  BY <1>3 DEF Issue
<1>4. CASE CreateRcq(p)
  BY <1>4 DEF CreateRcq, NdkCreateCompletionQueue, Creates, Completes, Result
<1>5. CASE CreateScq(p)
  BY <1>5 DEF CreateScq, NdkCreateCompletionQueue, Creates, Completes
<1>6. CASE ControlCqInterruptModeration(p)
  BY <1>6 DEF ControlCqInterruptModeration, Goto
<1>7. CASE CreateQp(p)
  BY <1>7 DEF CreateQp, NdkCreateQueuePair, Creates, Completes
<1>8. CASE UndoQueues(p)
  BY <1>8 DEF UndoQueues, NdkCloseCompletionQueue, Closes, Completes, Result
<1>9. CASE CreateConnector(p)
  BY <1>9 DEF CreateConnector, NdkCreateConnector, Creates, Completes, Result
<1>10. CASE Connect(p)
  BY <1>10 DEF Connect, NdkConnect, Completes
<1>11. CASE Refused(p)
  BY <1>11 DEF Refused, NdkCloseConnector, Closes, Completes, Result
<1>12. CASE CompleteConnect(p)
  BY <1>12 DEF CompleteConnect, NdkCompleteConnect, Completes, Result
<1>13. CASE GetConnectionData(p)
  BY <1>13 DEF GetConnectionData, Goto
<1>14. CASE GetLocalAddressAndArm(p)
  BY <1>14 DEF GetLocalAddressAndArm, Goto
<1>15. CASE UndoLink(p)
  BY <1>15 DEF UndoLink, NdkDisconnect, Completes, Result
<1>16. CASE MarkConnected(p)
  BY <1>16 DEF MarkConnected, Goto
<1>17. CASE CountConnection(p)
  BY <1>17 DEF CountConnection, Goto, Result
<1>18. CASE TestConnected(p)
  BY <1>18 DEF TestConnected, Goto
<1>19. CASE Flush(p)
  BY <1>19 DEF Flush, Goto
<1>20. CASE CloseConnector(p)
  BY <1>20 DEF CloseConnector, NdkCloseConnector, Closes, Completes
<1>21. CASE CloseQueues(p)
  BY <1>21 DEF CloseQueues, NdkCloseCompletionQueue, NdkCloseQueuePair, Closes,
     Completes
<1>22. CASE TestRefCount(p)
  BY <1>22 DEF TestRefCount, Goto
<1>23. CASE MarkDisconnected(p)
  BY <1>23 DEF MarkDisconnected, Goto
<1>24. CASE ReleaseRefCount(p)
  BY <1>24 DEF ReleaseRefCount, Goto
<1>25. CASE ConnectionLost(p)
  BY <1>25 DEF ConnectionLost, AdminDisconnectQPEvent, IOQPDisconnect,
     SetDisconnectFlag
<1> QED
  BY <1>1, <1>2, <1>3, <1>4, <1>5, <1>6, <1>7, <1>8, <1>9, <1>10, <1>11, <1>12, <1>13,
     <1>14, <1>15, <1>16, <1>17, <1>18, <1>19, <1>20, <1>21, <1>22, <1>23, <1>24,
     <1>25 DEF PairStep, PairThread, ConnectThread, TearDownThread

(* So the reference count is the number of connections.                      *)
LEMMA PairStepKeepsCount ==
  ASSUME ControlOK, ObjectsOK, NumbersOK, PairInv, CountInv, NEW p \in Pairs, PairStep(p)
  PROVE  CountInv'
<1> SUFFICES ASSUME NobodyFailedTornDown'
             PROVE  /\ lRefCount' = Cardinality(CountedPairs')
                    /\ ulSockState' # "Disconnected"
                    /\ \A q \in Pairs : pc'[q] # "markDisconnected"
  BY DEF CountInv
<1>1. /\ NobodyFailedTornDown
      /\ pc'[p] # "markDisconnected"
      /\ ulSockState' # "Disconnected"
  BY PairStepCount
<1>2. /\ lRefCount = Cardinality(CountedPairs)
      /\ \A q \in Pairs : pc[q] # "markDisconnected"
  BY <1>1 DEF CountInv
<1>3. \A q \in Pairs \ {p} : pc'[q] = pc[q] /\ returned'[q] = returned[q]
  BY PairFrame
<1>4. IsFiniteSet(CountedPairs)
  BY PairsAssumption, FS_Subset DEF CountedPairs
<1>5. CASE lRefCount' = lRefCount /\ ((p \in CountedPairs)' <=> p \in CountedPairs)
  <2>1. CountedPairs' = CountedPairs
    BY <1>3, <1>5 DEF CountedPairs
  <2> QED
    BY <1>1, <1>2, <1>3, <1>5, <2>1
<1>6. CASE lRefCount' = lRefCount + 1 /\ p \notin CountedPairs /\ (p \in CountedPairs)'
  <2>1. CountedPairs' = CountedPairs \cup {p}
    BY <1>3, <1>6 DEF CountedPairs
  <2>2. Cardinality(CountedPairs') = Cardinality(CountedPairs) + 1
    BY <1>4, <1>6, <2>1, FS_AddElement
  <2> QED
    BY <1>1, <1>2, <1>3, <1>6, <2>2
<1>7. CASE lRefCount' = lRefCount - 1 /\ p \in CountedPairs /\ (p \notin CountedPairs)'
  <2>1. CountedPairs' = CountedPairs \ {p}
    BY <1>3, <1>7 DEF CountedPairs
  <2>2. Cardinality(CountedPairs') = Cardinality(CountedPairs) - 1
    BY <1>4, <1>7, <2>1, FS_RemoveElement
  <2> QED
    BY <1>1, <1>2, <1>3, <1>7, <2>2
<1> QED
  BY <1>5, <1>6, <1>7, PairStepCount

(* Only a lost connection reports, and only the first.                       *)
LEMMA PairStepReports ==
  ASSUME EventsOK, ReportedOnce, NEW p \in Pairs, PairStep(p)
  PROVE  ReportedOnce'
<1> USE DEF EventsOK, ReportedOnce
<1>1. CASE CreateRdmaQPair(p)
  BY <1>1 DEF CreateRdmaQPair, Goto, Result
<1>2. CASE TearDown(p)
  BY <1>2 DEF TearDown, HasQueuePair
<1>3. CASE Issue(p)
  BY <1>3 DEF Issue
<1>4. CASE CreateRcq(p)
  BY <1>4 DEF CreateRcq, NdkCreateCompletionQueue, Creates, Completes, Result
<1>5. CASE CreateScq(p)
  BY <1>5 DEF CreateScq, NdkCreateCompletionQueue, Creates, Completes
<1>6. CASE ControlCqInterruptModeration(p)
  BY <1>6 DEF ControlCqInterruptModeration, Goto
<1>7. CASE CreateQp(p)
  BY <1>7 DEF CreateQp, NdkCreateQueuePair, Creates, Completes
<1>8. CASE UndoQueues(p)
  BY <1>8 DEF UndoQueues, NdkCloseCompletionQueue, Closes, Completes, Result
<1>9. CASE CreateConnector(p)
  BY <1>9 DEF CreateConnector, NdkCreateConnector, Creates, Completes, Result
<1>10. CASE Connect(p)
  BY <1>10 DEF Connect, NdkConnect, Completes
<1>11. CASE Refused(p)
  BY <1>11 DEF Refused, NdkCloseConnector, Closes, Completes, Result
<1>12. CASE CompleteConnect(p)
  BY <1>12 DEF CompleteConnect, NdkCompleteConnect, Completes, Result
<1>13. CASE GetConnectionData(p)
  BY <1>13 DEF GetConnectionData, Goto
<1>14. CASE GetLocalAddressAndArm(p)
  BY <1>14 DEF GetLocalAddressAndArm, Goto
<1>15. CASE UndoLink(p)
  BY <1>15 DEF UndoLink, NdkDisconnect, Completes, Result
<1>16. CASE MarkConnected(p)
  BY <1>16 DEF MarkConnected, Goto
<1>17. CASE CountConnection(p)
  BY <1>17 DEF CountConnection, Goto, Result
<1>18. CASE TestConnected(p)
  BY <1>18 DEF TestConnected, Goto
<1>19. CASE Flush(p)
  BY <1>19 DEF Flush, Goto
<1>20. CASE CloseConnector(p)
  BY <1>20 DEF CloseConnector, NdkCloseConnector, Closes, Completes
<1>21. CASE CloseQueues(p)
  BY <1>21 DEF CloseQueues, NdkCloseCompletionQueue, NdkCloseQueuePair, Closes,
     Completes
<1>22. CASE TestRefCount(p)
  BY <1>22 DEF TestRefCount, Goto
<1>23. CASE MarkDisconnected(p)
  BY <1>23 DEF MarkDisconnected, Goto
<1>24. CASE ReleaseRefCount(p)
  BY <1>24 DEF ReleaseRefCount, Goto
<1>25. CASE ConnectionLost(p)
  BY <1>25 DEF ConnectionLost, AdminDisconnectQPEvent, IOQPDisconnect,
     SetDisconnectFlag
<1> QED
  BY <1>1, <1>2, <1>3, <1>4, <1>5, <1>6, <1>7, <1>8, <1>9, <1>10, <1>11, <1>12, <1>13,
     <1>14, <1>15, <1>16, <1>17, <1>18, <1>19, <1>20, <1>21, <1>22, <1>23, <1>24,
     <1>25 DEF PairStep, PairThread, ConnectThread, TearDownThread

-----------------------------------------------------------------------------
(* The inductive invariant.                                                  *)
IInv == PartsOK /\ ObjectsInv /\ QPCountInv /\ CountInv /\ ClosesOpenObjects /\ ReportedOnce

LEMMA InitIInv == Init => IInv
<1> SUFFICES ASSUME Init
             PROVE  IInv
  OBVIOUS
<1> USE DEF Init
<1>1. PartsOK
  BY DEF PartsOK, ControlOK, ObjectsOK, EventsOK, NumbersOK, AtRest, Pointers, SockStates
<1>2. PairInv
  BY DEF PairInv, QueuesInv, ConnectorInv, ReturnedInv, Open, NotOpen, Kinds, BeforePcs,
         ConnectPcs, ClosingPcs, ClosedPcs
<1>3. OwnerInv
  BY DEF OwnerInv, OpeningPcs, Base
<1>4. QPCountInv
  <2>1. {p \in Pairs : bundle[p]["qp"] # "null"} = {}
    BY DEF Kinds
  <2> QED
    BY <2>1, FS_EmptySet DEF QPCountInv
<1>5. CountInv
  <2>1. CountedPairs = {}
    BY DEF CountedPairs
  <2> QED
    BY <2>1, FS_EmptySet DEF CountInv
<1>6. ClosesOpenObjects /\ ReportedOnce
  BY DEF ClosesOpenObjects, ReportedOnce
<1> QED
  BY <1>1, <1>2, <1>3, <1>4, <1>5, <1>6 DEF IInv, ObjectsInv

LEMMA OwnerStepIInv ==
  ASSUME IInv, OwnerStep
  PROVE  IInv'
<1> USE DEF IInv, PartsOK
<1>1. PartsOK'
  BY OwnerStepControl, OwnerStepRest
<1>2. ObjectsInv'
  BY OwnerStepObjects
<1>3. /\ UNCHANGED <<bundle, misclosed, returned, ulDisconnectFlag, reports, lRefCount,
                     usSockQPCount>>
      /\ \A p \in Pairs : pc'[p] = pc[p]
      /\ ulSockState' = ulSockState \/ ulSockState' = "Initialized"
  BY OwnerFrame
<1>4. QPCountInv' /\ ClosesOpenObjects' /\ ReportedOnce'
  BY <1>3 DEF QPCountInv, ClosesOpenObjects, ReportedOnce
<1>5. CountInv'
  <2>1. NobodyFailedTornDown' <=> NobodyFailedTornDown
    BY <1>3 DEF NobodyFailedTornDown, Failed
  <2>2. CountedPairs' = CountedPairs
    BY <1>3 DEF CountedPairs
  <2> QED
    BY <1>3, <2>1, <2>2 DEF CountInv
<1> QED
  BY <1>1, <1>2, <1>4, <1>5

LEMMA PairStepIInv ==
  ASSUME IInv, NEW p \in Pairs, PairStep(p)
  PROVE  IInv'
<1> USE DEF IInv, PartsOK, ObjectsInv
<1>1. PartsOK'
  BY PairStepControl, PairStepRest
<1>2. ObjectsInv'
  BY PairStepObjects, PairStepOwner
<1>3. QPCountInv' /\ CountInv'
  BY PairStepKeepsQPCount, PairStepKeepsCount
<1>4. ClosesOpenObjects' /\ ReportedOnce'
  BY PairStepCloses, PairStepReports
<1> QED
  BY <1>1, <1>2, <1>3, <1>4

LEMMA IInvInvariant == Spec => []IInv
<1>1. IInv /\ [Next]_vars => IInv'
  <2> SUFFICES ASSUME IInv, [Next]_vars
               PROVE  IInv'
    OBVIOUS
  <2>1. CASE OwnerStep
    BY <2>1, OwnerStepIInv
  <2>2. ASSUME NEW p \in Pairs, PairStep(p)
        PROVE  IInv'
    BY <2>2, PairStepIInv
  <2>3. CASE UNCHANGED vars
    BY <2>3 DEF vars, IInv, PartsOK, ControlOK, ObjectsOK, EventsOK, NumbersOK, ObjectsInv,
                PairInv, QueuesInv, ConnectorInv, ReturnedInv, Open, NotOpen, Failed, IsConnected,
                OwnerInv, QPCountInv, CountInv, CountedPairs, NobodyFailedTornDown,
                ClosesOpenObjects, ReportedOnce
  <2> QED
    BY <2>1, <2>2, <2>3 DEF Next, OwnerStep, PairStep
<1> QED
  BY <1>1, InitIInv, PTL DEF Spec

-----------------------------------------------------------------------------
(* Every variable keeps its type; that usSockQPCount (fab_rdma.c) never      *)
(* exceeds the number of pairs comes from its being their count.             *)
THEOREM TypeCorrect == Spec => []TypeOK
<1>1. IInv => TypeOK
  <2> SUFFICES ASSUME IInv
               PROVE  TypeOK
    OBVIOUS
  <2> DEFINE With == {p \in Pairs : bundle[p]["qp"] # "null"}
  <2>1. /\ With \subseteq Pairs
        /\ IsFiniteSet(With) /\ Cardinality(With) <= Cardinality(Pairs)
        /\ Cardinality(With) \in Nat /\ Cardinality(Pairs) \in Nat
    BY PairsAssumption, FS_Subset, FS_CardinalityType
  <2>2. usSockQPCount \in 0 .. Cardinality(Pairs)
    BY <2>1 DEF IInv, QPCountInv
  <2> QED
    BY <2>2 DEF IInv, PartsOK, ControlOK, ObjectsOK, EventsOK, NumbersOK, TypeOK
<1> QED
  BY <1>1, IInvInvariant, PTL

(* However connects and teardowns interleave no object is closed twice and   *)
(* no pointer closed that names none, with the one exception that            *)
(* ClosesOpenObjects states (fab_rdma.c 795-915, 1123-1144, 1158-1253).      *)
THEOREM ClosesOpenObjectsCorrect == Spec => []ClosesOpenObjects
<1>1. IInv => ClosesOpenObjects
  BY DEF IInv
<1> QED
  BY <1>1, IInvInvariant, PTL

(* An open queue pair has its completion queues; the admin queue's, unless   *)
(* it failed to connect, its protection domain too (fab_rdma.c 921-940,      *)
(* 1123-1144).                                                               *)
THEOREM ParentsOutliveChildrenCorrect == Spec => []ParentsOutliveChildren
<1>1. IInv => ParentsOutliveChildren
  <2> SUFFICES ASSUME IInv, NEW p \in Pairs, bundle[p]["qp"] = "open"
               PROVE  /\ bundle[p]["rcq"] = "open" /\ bundle[p]["scq"] = "open"
                      /\ p = Admin => base["pd"] = "open" \/ Failed(p)
    BY DEF ParentsOutliveChildren
  <2> USE DEF IInv, PartsOK, ControlOK, ObjectsInv, PairInv, QueuesInv, ReturnedInv, Open, NotOpen,
              BeforePcs, ConnectPcs, ClosingPcs, ClosedPcs
  <2>1. /\ bundle[p]["rcq"] = "open" /\ bundle[p]["scq"] = "open"
        /\ pc[p] # "new"
        /\ pc[p] = "down" => Failed(p)
    OBVIOUS
  <2>2. CASE pc[Owner] \in {"ready", "closePd"}
    BY <2>1, <2>2 DEF OwnerInv
  <2>3. CASE pc[Owner] \in {"closeAdapter", "done"}
    BY <2>1, <2>3 DEF OwnerInv
  <2> QED
    BY <2>1, <2>2, <2>3 DEF OwnerInv
<1> QED
  BY <1>1, IInvInvariant, PTL

(* What a freed socket leaves open is the queues of a pair whose connection  *)
(* failed late, the pairs of the I/O queues the teardown of the admin queue  *)
(* passed by, and the alias of a socket without a protection domain          *)
(* (fab_rdma.c 921-940, nvmefrdma.c 5509-5528).                              *)
THEOREM FreedSocketLeavesNothingCorrect == Spec => []FreedSocketLeavesNothing
<1>1. IInv => FreedSocketLeavesNothing
  <2> SUFFICES ASSUME IInv, socket = "freed"
               PROVE  /\ \A p \in Pairs, k \in Kinds : bundle[p][k] = "open" =>
                            \/ returned[p] \in {"noConnector", "refused", "incomplete"}
                            \/ p # Admin /\ (pc[p] = "up" \/ pc[p] \notin AtRest)
                      /\ \A b \in Base : base[b] = "open" => b = "alias" /\ base["pd"] = "null"
    BY DEF FreedSocketLeavesNothing
  <2>1. /\ pc[Owner] \in {"failed", "done"}
        /\ pc[Admin] \in {"new", "down"}
    BY PairsAssumption DEF IInv, ObjectsInv, OwnerInv, OpeningPcs
  <2>2. \A b \in Base : base[b] = "open" => b = "alias" /\ base["pd"] = "null"
    BY <2>1 DEF IInv, ObjectsInv, OwnerInv, OpeningPcs, Base
  <2>3. ASSUME NEW p \in Pairs, NEW k \in Kinds, bundle[p][k] = "open",
               p = Admin \/ pc[p] \in AtRest \ {"up"}
        PROVE  returned[p] \in {"noConnector", "refused", "incomplete"}
    <3>1. pc[p] \in {"new", "failed", "down"}
      BY <2>1, <2>3 DEF IInv, PartsOK, ControlOK, ObjectsInv, PairInv, ReturnedInv, AtRest,
         BeforePcs, ConnectPcs, ClosingPcs, ClosedPcs
    <3> QED
      BY <2>3, <3>1
         DEF IInv, PartsOK, ControlOK, ObjectsInv, PairInv, QueuesInv, ConnectorInv, ReturnedInv,
             Open, NotOpen, Kinds, BeforePcs, ConnectPcs, ClosingPcs, ClosedPcs, Failed
  <2> QED
    BY <2>2, <2>3
<1> QED
  BY <1>1, IInvInvariant, PTL

(* Until a failed pair is torn down the reference count is the number of     *)
(* connections, for any number of pairs (fab_rdma.c 1136-1140, 1249).        *)
THEOREM RefCountIsConnectionsCorrect == Spec => []RefCountIsConnections
<1>1. IInv => RefCountIsConnections
  BY DEF IInv, CountInv, RefCountIsConnections, NobodyFailedTornDown, ClosedPcs
<1> QED
  BY <1>1, IInvInvariant, PTL

(* One work item is queued for all the connections that are lost             *)
(* (nvmefrdma.c 568, 4198).                                                  *)
THEOREM ReportedOnceCorrect == Spec => []ReportedOnce
<1>1. IInv => ReportedOnce
  BY DEF IInv
<1> QED
  BY <1>1, IInvInvariant, PTL
=============================================================================

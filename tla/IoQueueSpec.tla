----------------------------- MODULE IoQueueSpec -----------------------------
(***************************************************************************)
(* What an I/O queue promises the OS: an I/O is refused, or accepted and   *)
(* completed once; at most Depth are in work; and the buffer of an I/O is  *)
(* open to the network only between its acceptance and its completion.     *)
(***************************************************************************)
EXTENDS Naturals, FiniteSets

CONSTANTS Ios, Depth

VARIABLES phase,    \* [Ios -> where the I/O is]
          exposed   \* the I/Os whose buffers are open to the network

absVars == <<phase, exposed>>

Phases == {"idle", "accepted", "refused", "completed"}

AbsTypeOK == phase \in [Ios -> Phases] /\ exposed \in SUBSET Ios

Init == phase = [i \in Ios |-> "idle"] /\ exposed = {}

InWork == {i \in Ios : phase[i] = "accepted"}

Accept(i) ==
  /\ phase[i] = "idle"
  /\ Cardinality(InWork) < Depth
  /\ phase' = [phase EXCEPT ![i] = "accepted"]
  /\ UNCHANGED exposed

Refuse(i) ==
  /\ phase[i] \in {"idle", "accepted"}
  /\ i \notin exposed
  /\ phase' = [phase EXCEPT ![i] = "refused"]
  /\ UNCHANGED exposed

Expose(i) ==
  /\ phase[i] = "accepted"
  /\ exposed' = exposed \cup {i}
  /\ UNCHANGED phase

Withdraw(i) == i \in exposed /\ exposed' = exposed \ {i} /\ UNCHANGED phase

Complete(i) ==
  /\ phase[i] = "accepted"
  /\ i \notin exposed
  /\ phase' = [phase EXCEPT ![i] = "completed"]
  /\ UNCHANGED exposed

(* The connection is lost: nothing is open to the network any more.         *)
WithdrawAll == exposed' = {} /\ UNCHANGED phase

Next ==
  \/ \E i \in Ios : Accept(i) \/ Refuse(i) \/ Expose(i) \/ Withdraw(i) \/ Complete(i)
  \/ WithdrawAll

Spec == Init /\ [][Next]_absVars

(* A healthy queue leaves no I/O behind.                                    *)
AllReturn == \A i \in Ios : <>(phase[i] \in {"refused", "completed"})

LiveSpec == Spec /\ AllReturn
=============================================================================

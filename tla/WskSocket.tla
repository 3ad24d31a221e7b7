------------------------------ MODULE WskSocket -------------------------------
(***************************************************************************)
(* The socket calls of the TCP fabric (fab_tcp.c 111-949) over the         *)
(* registration they rest on.  A call tests glWskState, builds what it     *)
(* needs (a locked buffer, an IRP), calls the provider, waits without a    *)
(* timeout if that pends, takes the results from the IRP and frees what it *)
(* built.  The TCP transport that would make the calls is not written yet, *)
(* so a caller may make any of them, in any order, on a socket it has.     *)
(***************************************************************************)
EXTENDS ProviderRegistration

CONSTANTS
  Callers,
  MaxSockets   \* bound: the provider has no more sockets to give

ASSUME CallersAssumption == Callers \cap Managers = {} /\ MaxSockets \in Nat

Creators == {"WskCreateSocket", "WskCreateAsyncSocket", "WskSocketConnect"}
Accepting == {"WskAccept"}
DataCalls == {"WskSend", "WskSendTo", "WskReceive", "WskReceiveFrom"}
PlainCalls == {"WskConnect", "WskDisconnectSocket", "WskDisconnectSocketAbortive", "WskBind",
               "WskControlSocket"}
IrpCalls == Creators \cup Accepting \cup DataCalls \cup PlainCalls
AsyncCalls == {"WskSendAsync", "WskReceiveAsync"}
CallbackCalls == {"WskEnableCallbacks", "WskDisableCallbacks"}

VARIABLES
  call,     \* [Callers -> the call in progress, or "none"]
  cpc,      \* [Callers -> where in it]
  socket,   \* [Callers -> the caller has a socket]
  irp,      \* [Callers -> the IRP of the call is allocated]
  buffer,   \* [Callers -> the call's MDL: "none", or "locked" with its pages]
  held,     \* callers whose IRP and buffer the provider holds
  posted,   \* callers with an asynchronous request at the provider
  opened,   \* sockets the provider has open for this client
  cleaned   \* callers that a cleanup ran over since they tested the state

callVars == <<call, cpc, irp, buffer, held>>
socketVars == <<socket, posted, opened>>
vars == <<registrationVars, callVars, socketVars, cleaned>>

TypeOK ==
  /\ RegistrationTypeOK
  /\ call \in [Callers -> {"none"} \cup IrpCalls \cup AsyncCalls \cup CallbackCalls]
  /\ cpc \in [Callers -> {"idle", "initBuffer", "initIrp", "call", "wait", "succeeded", "failed"}]
  /\ socket \in [Callers -> BOOLEAN]
  /\ irp \in [Callers -> BOOLEAN]
  /\ buffer \in [Callers -> {"none", "locked"}]
  /\ {held, posted, cleaned} \subseteq SUBSET Callers
  /\ opened \in 0 .. MaxSockets

Init ==
  /\ RegistrationInit
  /\ call = [c \in Callers |-> "none"]
  /\ cpc = [c \in Callers |-> "idle"]
  /\ socket = [c \in Callers |-> FALSE]
  /\ irp = [c \in Callers |-> FALSE]
  /\ buffer = [c \in Callers |-> "none"]
  /\ held = {}
  /\ posted = {}
  /\ opened = 0
  /\ cleaned = {}

-----------------------------------------------------------------------------
IsWskinitialized == glState = "INITIALIZED"

\* WSK waits for the client's sockets and for the calls in its dispatch table.
InUse ==
  /\ npi = "wsk"
  /\ opened > 0 \/ \E c \in held : call[c] \in Creators

Manage ==
  /\ \E m \in Managers : Startup(m, InUse) \/ UseDispatch(m) \/ Cleanup(m, InUse)
  /\ cleaned' = IF CleaningUp' \ CleaningUp # {} THEN {c \in Callers : cpc[c] # "idle"} ELSE cleaned
  /\ UNCHANGED <<callVars, socketVars>>

\* A call whose test fails returns at once and has changed nothing.
Enter(c, f, step) ==
  /\ npi = "wsk"
  /\ cpc[c] = "idle"
  /\ IsWskinitialized
  /\ f \in Creators <=> ~socket[c]
  /\ call' = [call EXCEPT ![c] = f]
  /\ cpc' = [cpc EXCEPT ![c] = step]
  /\ cleaned' = IF CleaningUp # {} THEN cleaned \cup {c} ELSE cleaned \ {c}
  /\ UNCHANGED <<registrationVars, irp, buffer, held, socketVars>>

\* The call returns: every path ends here.
Leave(c) ==
  /\ cpc' = [cpc EXCEPT ![c] = "idle"]
  /\ call' = [call EXCEPT ![c] = "none"]

WskFreeWskBuffer(c) == buffer' = [buffer EXCEPT ![c] = "none"]

\* Not the code: the MDL stays when its pages cannot be locked.
WskInitWskBufferKeepsMdl(c) ==
  /\ cpc[c] = "initBuffer"
  /\ \/ /\ buffer' = [buffer EXCEPT ![c] = "locked"]
        /\ cpc' = [cpc EXCEPT ![c] = "initIrp"]
        /\ UNCHANGED call
     \/ Leave(c) /\ buffer' \in {buffer, [buffer EXCEPT ![c] = "unlocked"]}
  /\ UNCHANGED <<registrationVars, irp, held, socketVars, cleaned>>

\* Without an MDL, or when its pages cannot be locked, nothing is kept.
WskInitWskBuffer(c) ==
  /\ cpc[c] = "initBuffer"
  /\ \/ /\ buffer' = [buffer EXCEPT ![c] = "locked"]
        /\ cpc' = [cpc EXCEPT ![c] = "initIrp"]
        /\ UNCHANGED call
     \/ Leave(c) /\ UNCHANGED buffer
  /\ UNCHANGED <<registrationVars, irp, held, socketVars, cleaned>>

\* Not the code: the buffer is forgotten when there is no IRP.
WskInitWskDataKeepsBuffer(c) ==
  /\ cpc[c] = "initIrp"
  /\ \/ /\ irp' = [irp EXCEPT ![c] = TRUE]
        /\ cpc' = [cpc EXCEPT ![c] = "call"]
        /\ UNCHANGED <<call, buffer>>
     \/ Leave(c) /\ UNCHANGED <<irp, buffer>>
  /\ UNCHANGED <<registrationVars, held, socketVars, cleaned>>

WskInitWskData(c) ==
  /\ cpc[c] = "initIrp"
  /\ \/ /\ irp' = [irp EXCEPT ![c] = TRUE]
        /\ cpc' = [cpc EXCEPT ![c] = "call"]
        /\ UNCHANGED <<call, buffer>>
     \/ Leave(c) /\ WskFreeWskBuffer(c) /\ UNCHANGED irp
  /\ UNCHANGED <<registrationVars, held, socketVars, cleaned>>

\* The provider takes the call; it answers at once or pends.
CallProvider(c) ==
  /\ cpc[c] = "call"
  /\ call[c] \in IrpCalls
  /\ cpc' = [cpc EXCEPT ![c] = "wait"]
  /\ held' = held \cup {c}
  /\ UNCHANGED <<registrationVars, call, irp, buffer, socketVars, cleaned>>

\* The provider answers; WskCompletionRoutine sets the event either way.
WskCompletionRoutine(c) ==
  /\ cpc[c] = "wait"
  /\ held' = held \ {c}
  /\ \/ /\ call[c] \in PlainCalls \cup DataCalls
        /\ cpc' = [cpc EXCEPT ![c] = "succeeded"]
        /\ UNCHANGED opened
     \/ /\ call[c] \in Creators \cup Accepting
        /\ opened < MaxSockets
        /\ cpc' = [cpc EXCEPT ![c] = "succeeded"]
        /\ opened' = opened + 1
     \/ /\ cpc' = [cpc EXCEPT ![c] = "failed"]
        /\ UNCHANGED opened
  /\ UNCHANGED <<registrationVars, call, irp, buffer, socket, posted, cleaned>>

-----------------------------------------------------------------------------
\* What the calls make of the answer, and what they free.

FreeCall(c) ==
  /\ irp' = [irp EXCEPT ![c] = FALSE]
  /\ WskFreeWskBuffer(c)
  /\ UNCHANGED <<registrationVars, held, posted, opened, cleaned>>

Answered(c, calls) == cpc[c] \in {"succeeded", "failed"} /\ call[c] \in calls

\* The socket is in the IRP's information field.
CreateSocketReturns(c) ==
  /\ Answered(c, Creators)
  /\ socket' = [socket EXCEPT ![c] = cpc[c] = "succeeded"]
  /\ Leave(c)
  /\ FreeCall(c)

\* The listening socket stays the caller's; the accepted one it hands on.
CallReturns(c) ==
  /\ Answered(c, Accepting \cup PlainCalls \cup DataCalls)
  /\ Leave(c)
  /\ FreeCall(c)
  /\ UNCHANGED socket

\* Tests its own initial value of Status, an error, and returns it.
WskCloseSocket(c) ==
  /\ npi = "wsk"
  /\ cpc[c] = "idle"
  /\ IsWskinitialized
  /\ socket[c]
  /\ Leave(c)
  /\ socket' = [socket EXCEPT ![c] = FALSE]
  /\ UNCHANGED <<registrationVars, irp, buffer, held, posted, opened, cleaned>>

\* One call of the socket's dispatch table, with no IRP.
WskControlCallbacks(c) ==
  /\ cpc[c] = "call"
  /\ call[c] \in CallbackCalls
  /\ Leave(c)
  /\ UNCHANGED <<registrationVars, irp, buffer, held, socketVars, cleaned>>

\* The request brings its IRP and buffer; the answer is for its own routine.
WskPostAsync(c) ==
  /\ cpc[c] = "call"
  /\ call[c] \in AsyncCalls
  /\ \/ Leave(c) /\ posted' = posted \cup {c}
     \/ Leave(c) /\ UNCHANGED posted
  /\ UNCHANGED <<registrationVars, irp, buffer, held, socket, opened, cleaned>>

AsyncCompletes(c) ==
  /\ c \in posted
  /\ posted' = posted \ {c}
  /\ UNCHANGED <<registrationVars, callVars, socket, opened, cleaned>>

\* The calls.  Those with data build a buffer before the IRP, and two kinds need
\* no IRP of the call's own.
WskCreateSocket(c) == Enter(c, "WskCreateSocket", "initIrp")
WskCreateAsyncSocket(c) == Enter(c, "WskCreateAsyncSocket", "initIrp")
WskSocketConnect(c) == Enter(c, "WskSocketConnect", "initIrp")
WskConnect(c) == Enter(c, "WskConnect", "initIrp")
WskDisconnectSocket(c) == Enter(c, "WskDisconnectSocket", "initIrp")
WskDisconnectSocketAbortive(c) == Enter(c, "WskDisconnectSocketAbortive", "initIrp")
WskBind(c) == Enter(c, "WskBind", "initIrp")
WskAccept(c) == Enter(c, "WskAccept", "initIrp")
WskControlSocket(c) == Enter(c, "WskControlSocket", "initIrp")
WskSend(c) == Enter(c, "WskSend", "initBuffer")
WskSendTo(c) == Enter(c, "WskSendTo", "initBuffer")
WskReceive(c) == Enter(c, "WskReceive", "initBuffer")
WskReceiveFrom(c) == Enter(c, "WskReceiveFrom", "initBuffer")
WskSendAsync(c) == c \notin posted /\ Enter(c, "WskSendAsync", "call")
WskReceiveAsync(c) == c \notin posted /\ Enter(c, "WskReceiveAsync", "call")
WskEnableCallbacks(c) == Enter(c, "WskEnableCallbacks", "call")
WskDisableCallbacks(c) == Enter(c, "WskDisableCallbacks", "call")

Call(c) ==
  \/ WskCreateSocket(c) \/ WskCreateAsyncSocket(c) \/ WskSocketConnect(c) \/ WskConnect(c)
  \/ WskDisconnectSocket(c) \/ WskDisconnectSocketAbortive(c) \/ WskBind(c) \/ WskAccept(c)
  \/ WskControlSocket(c) \/ WskSend(c) \/ WskSendTo(c) \/ WskReceive(c) \/ WskReceiveFrom(c)
  \/ WskSendAsync(c) \/ WskReceiveAsync(c) \/ WskEnableCallbacks(c) \/ WskDisableCallbacks(c)
  \/ WskCloseSocket(c)

Proceed(c) ==
  \/ WskInitWskBuffer(c)
  \/ WskInitWskData(c)
  \/ CallProvider(c)
  \/ CreateSocketReturns(c)
  \/ CallReturns(c)
  \/ WskControlCallbacks(c)
  \/ WskPostAsync(c)

Next ==
  \/ Manage
  \/ \E c \in Callers : Call(c) \/ Proceed(c) \/ WskCompletionRoutine(c) \/ AsyncCompletes(c)

\* Every thread goes on, and the provider answers each call.  WskDeregister may
\* find calls in progress again and again: it takes the moment there is none.
Fairness ==
  /\ \A m \in Managers : SF_vars(Manage /\ mpc[m] # "idle" /\ mpc'[m] # mpc[m])
  /\ \A c \in Callers : WF_vars(Proceed(c)) /\ WF_vars(WskCompletionRoutine(c))

Spec == Init /\ [][Next]_vars /\ Fairness

-----------------------------------------------------------------------------
\* Correctness.

(* Registering, capturing, releasing and deregistering pair up, whatever     *)
(* startups fail and run against a cleanup, unless two cleanups have run at  *)
(* the same time: their test lets both of them pass (winsockinit.c 119, 169).*)
RegistrationPaired == mispaired # {} => overlapped

(* Who passed the state's test finds the provider captured when it calls it, *)
(* unless a cleanup ran meanwhile: the state says INITIALIZED until the      *)
(* cleanup is over.  Who was let on by a startup of NDK finds the dispatch   *)
(* table filled, unless the startup was refused because another one was      *)
(* still at it, which counts as success (nvmefrdma.c 6236-6242).             *)
ReadyWhenUsed ==
  /\ \A c \in Callers :
       cpc[c] \in {"initIrp", "call"} /\ call[c] \in Creators => captured \/ c \in cleaned
  /\ \A m \in Managers : mpc[m] = "use" => filled \/ told[m] = "INITIALIZING"

(* The provider holds an IRP and, for data, a locked buffer only as long as  *)
(* the call that made them waits; a call that returned has kept nothing,     *)
(* whichever step of it failed.                                              *)
HeldWhileWaiting ==
  \A c \in Callers :
    /\ c \in held => cpc[c] = "wait" /\ irp[c] /\ (call[c] \in DataCalls => buffer[c] = "locked")
    /\ cpc[c] = "idle" => ~irp[c] /\ buffer[c] = "none"

(* Every socket call returns, and every startup and cleanup, but for a       *)
(* cleanup that waits for sockets: WskCloseSocket never closes one           *)
(* (fab_tcp.c 243), so a cleanup after the first socket never ends.  Two     *)
(* cleanups at once may also leave one waiting for the next startup's NPI.   *)
EveryCallReturns ==
  /\ \A c \in Callers : cpc[c] # "idle" ~> cpc[c] = "idle"
  /\ \A m \in Managers : mpc[m] # "idle" ~> mpc[m] = "idle" \/ opened > 0 \/ overlapped
==============================================================================

--------------------------- MODULE WskSocket_proofs ----------------------------
(*****************************************************************************)
(* Theorems about WskSocket and the registration under it, for every set of  *)
(* managers and callers and every number of sockets.                         *)
(*                                                                           *)
(* PhaseInv says who may be at work on the registration, and how far it got, *)
(* as long as no two cleanups ran at once; DispatchInv what the state        *)
(* INITIALIZED promises even then; CallerInv what a call has built at each   *)
(* of its places.                                                            *)
(*****************************************************************************)
EXTENDS WskSocket, TLAPS

(* Startups and cleanups are one at a time and leave the registration as far *)
(* as their place says.                                                      *)
Active == {m \in Managers : mpc[m] \in StartupSteps \cup CleanupSteps}
Progress(m) ==
  /\ mpc[m] \in {"register", "reset", "deinitialize"} => ~registered /\ ~captured
  /\ mpc[m] \in {"capture", "undoDeregister", "deregister"} => registered /\ ~captured
  /\ mpc[m] \in {"control", "undoRelease", "release"} => registered /\ captured
PhaseInv ==
  ~overlapped =>
    /\ mispaired = {}
    /\ \A m, n \in Active : m = n
    /\ \A m \in Active : Progress(m) /\ (glState = "INITIALIZING" <=> mpc[m] \in StartupSteps)
    /\ glState = "DEINITIALIZED" => Active = {} /\ ~registered /\ ~captured
    /\ glState = "INITIALIZING" => Active # {}
    /\ glState = "INITIALIZED" /\ Active = {} => registered /\ captured

(* The state never is DEINITIALIZING, which the cleanup compares with.       *)
(* INITIALIZED with no cleanup past its release means captured for WSK, and  *)
(* for NDK filled, however many cleanups run.                                *)
DispatchInv ==
  /\ glState # "DEINITIALIZING"
  /\ npi = "wsk" /\ glState = "INITIALIZED" =>
       captured \/ \E m \in Managers : mpc[m] \in {"deregister", "deinitialize"}
  /\ npi = "wsk" => \A m \in Managers : mpc[m] \notin {"control", "undoRelease", "use"}
  /\ npi = "ndk" /\ glState = "INITIALIZED" => filled
  /\ \A m \in Managers : mpc[m] = "use" => filled \/ told[m] = "INITIALIZING"

(* A caller no cleanup ran over still has the provider.                      *)
CapturedFor(c) ==
  /\ cpc[c] # "idle" => npi = "wsk"
  /\ cpc[c] # "idle" /\ c \notin cleaned => captured /\ CleaningUp = {}

(* What a call holds, and which calls come to a place.                       *)
CallerInv(c) ==
  /\ cpc[c] \in {"idle", "initBuffer", "initIrp"} => ~irp[c]
  /\ cpc[c] \in {"idle", "initBuffer"} => buffer[c] = "none"
  /\ cpc[c] = "initBuffer" => call[c] \in DataCalls
  /\ cpc[c] \in {"initIrp", "wait", "succeeded", "failed"} => call[c] \in IrpCalls
  /\ cpc[c] \in {"wait", "succeeded", "failed"} => irp[c]
  /\ cpc[c] = "call" =>
       IF call[c] \in IrpCalls THEN irp[c] ELSE ~irp[c] /\ buffer[c] = "none"
  /\ cpc[c] \notin {"idle", "initBuffer"} => (call[c] \in DataCalls => buffer[c] = "locked")
  /\ c \in held => cpc[c] = "wait"

IInv ==
  /\ TypeOK
  /\ PhaseInv
  /\ DispatchInv
  /\ \A c \in Callers : CapturedFor(c) /\ CallerInv(c)
-----------------------------------------------------------------------------
USE DEF registrationVars, callVars, socketVars

(* A step of a manager, as Manage takes it, and one of a caller.             *)
RegStep(m) == Startup(m, InUse) \/ UseDispatch(m) \/ Cleanup(m, InUse)

FirstStep(f) ==
  IF f \in DataCalls THEN "initBuffer" ELSE IF f \in IrpCalls THEN "initIrp" ELSE "call"
Entering(c) ==
  \E f \in IrpCalls \cup AsyncCalls \cup CallbackCalls : Enter(c, f, FirstStep(f))
CallerStep(c) ==
  Entering(c) \/ WskCloseSocket(c) \/ Proceed(c) \/ WskCompletionRoutine(c) \/ AsyncCompletes(c)

(* The seventeen calls that enter differ in their first place only.          *)
LEMMA CallsEnter ==
  ASSUME NEW c \in Callers, Call(c)
  PROVE  Entering(c) \/ WskCloseSocket(c)
<1> USE DEF Entering, FirstStep, IrpCalls, Creators, Accepting, PlainCalls, DataCalls, AsyncCalls,
            CallbackCalls
<1>1. CASE WskCreateSocket(c)
  BY <1>1 DEF WskCreateSocket
<1>2. CASE WskCreateAsyncSocket(c)
  BY <1>2 DEF WskCreateAsyncSocket
<1>3. CASE WskSocketConnect(c)
  BY <1>3 DEF WskSocketConnect
<1>4. CASE WskConnect(c)
  BY <1>4 DEF WskConnect
<1>5. CASE WskDisconnectSocket(c)
  BY <1>5 DEF WskDisconnectSocket
<1>6. CASE WskDisconnectSocketAbortive(c)
  BY <1>6 DEF WskDisconnectSocketAbortive
<1>7. CASE WskBind(c)
  BY <1>7 DEF WskBind
<1>8. CASE WskAccept(c)
  BY <1>8 DEF WskAccept
<1>9. CASE WskControlSocket(c)
  BY <1>9 DEF WskControlSocket
<1>10. CASE WskSend(c)
  BY <1>10 DEF WskSend
<1>11. CASE WskSendTo(c)
  BY <1>11 DEF WskSendTo
<1>12. CASE WskReceive(c)
  BY <1>12 DEF WskReceive
<1>13. CASE WskReceiveFrom(c)
  BY <1>13 DEF WskReceiveFrom
<1>14. CASE WskSendAsync(c)
  BY <1>14 DEF WskSendAsync
<1>15. CASE WskReceiveAsync(c)
  BY <1>15 DEF WskReceiveAsync
<1>16. CASE WskEnableCallbacks(c)
  BY <1>16 DEF WskEnableCallbacks
<1>17. CASE WskDisableCallbacks(c)
  BY <1>17 DEF WskDisableCallbacks
<1> QED
  BY <1>1, <1>2, <1>3, <1>4, <1>5, <1>6, <1>7, <1>8, <1>9, <1>10, <1>11, <1>12, <1>13,
     <1>14, <1>15, <1>16, <1>17 DEF Call

(* The types of the registration.                                            *)
LEMMA RegStepTypes ==
  ASSUME RegistrationTypeOK, NEW m \in Managers, RegStep(m)
  PROVE  RegistrationTypeOK'
<1> USE DEF RegistrationTypeOK, States, StartupSteps, CleanupSteps
<1>1. CASE TestDeinitialized(m)
  BY <1>1 DEF TestDeinitialized
<1>2. CASE Register(m)
  BY <1>2 DEF Register, WskRegister, MGoto
<1>3. CASE CaptureProviderNPI(m)
  BY <1>3 DEF CaptureProviderNPI, Initialized, MGoto
<1>4. CASE ControlClient(m)
  BY <1>4 DEF ControlClient, Initialized, MGoto
<1>5. CASE Release(m, "undoRelease", "undoDeregister")
  BY <1>5 DEF Release, WskReleaseProviderNPI, MGoto
<1>6. CASE Deregister(m, "undoDeregister", "reset", InUse)
  BY <1>6 DEF Deregister, WskDeregister, MGoto
<1>7. CASE SetDeinitialized(m, "reset")
  BY <1>7 DEF SetDeinitialized, MGoto
<1>8. CASE UseDispatch(m)
  BY <1>8 DEF UseDispatch, MGoto
<1>9. CASE TestInitialized(m)
  BY <1>9 DEF TestInitialized, MGoto
<1>10. CASE Release(m, "release", "deregister")
  BY <1>10 DEF Release, WskReleaseProviderNPI, MGoto
<1>11. CASE Deregister(m, "deregister", "deinitialize", InUse)
  BY <1>11 DEF Deregister, WskDeregister, MGoto
<1>12. CASE SetDeinitialized(m, "deinitialize")
  BY <1>12 DEF SetDeinitialized, MGoto
<1> QED
  BY <1>1, <1>2, <1>3, <1>4, <1>5, <1>6, <1>7, <1>8, <1>9, <1>10, <1>11, <1>12 DEF
     RegStep, Startup, Cleanup

(* A manager's step is its own; it releases the NPI only where it says, and  *)
(* no step undoes an overlap.                                                *)
LEMMA RegStepFrame ==
  ASSUME RegistrationTypeOK, NEW m \in Managers, RegStep(m)
  PROVE  /\ UNCHANGED npi
         /\ \A n \in Managers \ {m} : mpc'[n] = mpc[n]
         /\ captured /\ ~captured' => mpc[m] \in {"release", "undoRelease"}
         /\ overlapped => overlapped'
<1> USE DEF RegistrationTypeOK
<1>1. CASE TestDeinitialized(m)
  BY <1>1 DEF TestDeinitialized
<1>2. CASE Register(m)
  BY <1>2 DEF Register, WskRegister, MGoto
<1>3. CASE CaptureProviderNPI(m)
  BY <1>3 DEF CaptureProviderNPI, Initialized, MGoto
<1>4. CASE ControlClient(m)
  BY <1>4 DEF ControlClient, Initialized, MGoto
<1>5. CASE Release(m, "undoRelease", "undoDeregister")
  BY <1>5 DEF Release, WskReleaseProviderNPI, MGoto
<1>6. CASE Deregister(m, "undoDeregister", "reset", InUse)
  BY <1>6 DEF Deregister, WskDeregister, MGoto
<1>7. CASE SetDeinitialized(m, "reset")
  BY <1>7 DEF SetDeinitialized, MGoto
<1>8. CASE UseDispatch(m)
  BY <1>8 DEF UseDispatch, MGoto
<1>9. CASE TestInitialized(m)
  BY <1>9 DEF TestInitialized, MGoto
<1>10. CASE Release(m, "release", "deregister")
  BY <1>10 DEF Release, WskReleaseProviderNPI, MGoto
<1>11. CASE Deregister(m, "deregister", "deinitialize", InUse)
  BY <1>11 DEF Deregister, WskDeregister, MGoto
<1>12. CASE SetDeinitialized(m, "deinitialize")
  BY <1>12 DEF SetDeinitialized, MGoto
<1> QED
  BY <1>1, <1>2, <1>3, <1>4, <1>5, <1>6, <1>7, <1>8, <1>9, <1>10, <1>11, <1>12 DEF
     RegStep, Startup, Cleanup

(* The phases of the registration follow each other.                         *)
LEMMA RegStepPhase ==
  ASSUME RegistrationTypeOK, PhaseInv, NEW m \in Managers, RegStep(m)
  PROVE  PhaseInv'
<1> SUFFICES ASSUME ~overlapped'
             PROVE  PhaseInv'
  BY DEF PhaseInv
<1> ~overlapped
  BY RegStepFrame
<1> USE DEF RegistrationTypeOK, States, PhaseInv, Active, Progress, StartupSteps, CleanupSteps,
            CleaningUp
<1>1. CASE TestDeinitialized(m)
  BY <1>1 DEF TestDeinitialized
<1>2. CASE Register(m)
  <2>1. CASE MGoto(m, "register", "capture") /\ WskRegister
    BY <1>2, <2>1 DEF Register, WskRegister, MGoto
  <2>2. CASE MGoto(m, "register", "reset") /\ UNCHANGED <<registered, mispaired>>
    BY <1>2, <2>2 DEF Register, MGoto
  <2> QED
    BY <1>2, <2>1, <2>2 DEF Register
<1>3. CASE CaptureProviderNPI(m)
  BY <1>3 DEF CaptureProviderNPI, Initialized, MGoto
<1>4. CASE ControlClient(m)
  BY <1>4 DEF ControlClient, Initialized, MGoto
<1>5. CASE Release(m, "undoRelease", "undoDeregister")
  BY <1>5 DEF Release, WskReleaseProviderNPI, MGoto
<1>6. CASE Deregister(m, "undoDeregister", "reset", InUse)
  BY <1>6 DEF Deregister, WskDeregister, MGoto
<1>7. CASE SetDeinitialized(m, "reset")
  BY <1>7 DEF SetDeinitialized, MGoto
<1>8. CASE UseDispatch(m)
  BY <1>8 DEF UseDispatch, MGoto
<1>9. CASE TestInitialized(m)
  <2>1. Active = {}
    BY <1>9 DEF TestInitialized
  <2>2. \A n \in Managers : mpc'[n] = IF n = m THEN "release" ELSE mpc[n]
    BY <1>9 DEF TestInitialized, MGoto
  <2>3. Active' = {m}
    BY <2>1, <2>2
  <2> QED
    BY <1>9, <2>1, <2>2, <2>3 DEF TestInitialized
<1>10. CASE Release(m, "release", "deregister")
  BY <1>10 DEF Release, WskReleaseProviderNPI, MGoto
<1>11. CASE Deregister(m, "deregister", "deinitialize", InUse)
  BY <1>11 DEF Deregister, WskDeregister, MGoto
<1>12. CASE SetDeinitialized(m, "deinitialize")
  BY <1>12 DEF SetDeinitialized, MGoto
<1> QED
  BY <1>1, <1>2, <1>3, <1>4, <1>5, <1>6, <1>7, <1>8, <1>9, <1>10, <1>11, <1>12 DEF
     RegStep, Startup, Cleanup

(* What INITIALIZED promises.                                                *)
LEMMA RegStepDispatch ==
  ASSUME RegistrationTypeOK, DispatchInv, NEW m \in Managers, RegStep(m)
  PROVE  DispatchInv'
<1> USE DEF RegistrationTypeOK, States, DispatchInv
<1>1. CASE TestDeinitialized(m)
  BY <1>1 DEF TestDeinitialized
<1>2. CASE Register(m)
  BY <1>2 DEF Register, WskRegister, MGoto
<1>3. CASE CaptureProviderNPI(m)
  BY <1>3 DEF CaptureProviderNPI, Initialized, MGoto
<1>4. CASE ControlClient(m)
  BY <1>4 DEF ControlClient, Initialized, MGoto
<1>5. CASE Release(m, "undoRelease", "undoDeregister")
  BY <1>5 DEF Release, WskReleaseProviderNPI, MGoto
<1>6. CASE Deregister(m, "undoDeregister", "reset", InUse)
  BY <1>6 DEF Deregister, WskDeregister, MGoto
<1>7. CASE SetDeinitialized(m, "reset")
  BY <1>7 DEF SetDeinitialized, MGoto
<1>8. CASE UseDispatch(m)
  BY <1>8 DEF UseDispatch, MGoto
<1>9. CASE TestInitialized(m)
  BY <1>9 DEF TestInitialized, MGoto
<1>10. CASE Release(m, "release", "deregister")
  BY <1>10 DEF Release, WskReleaseProviderNPI, MGoto
<1>11. CASE Deregister(m, "deregister", "deinitialize", InUse)
  BY <1>11 DEF Deregister, WskDeregister, MGoto
<1>12. CASE SetDeinitialized(m, "deinitialize")
  BY <1>12 DEF SetDeinitialized, MGoto
<1> QED
  BY <1>1, <1>2, <1>3, <1>4, <1>5, <1>6, <1>7, <1>8, <1>9, <1>10, <1>11, <1>12 DEF
     RegStep, Startup, Cleanup

(* A caller's step keeps its types and leaves the registration alone.         *)
LEMMA CallerStepTypes ==
  ASSUME TypeOK, NEW c \in Callers, CallerStep(c)
  PROVE  /\ UNCHANGED registrationVars
         /\ TypeOK'
<1> USE CallersAssumption
    DEF TypeOK, RegistrationTypeOK, FirstStep, IrpCalls, Creators, Accepting, DataCalls, PlainCalls,
        AsyncCalls, CallbackCalls
<1>1. CASE WskInitWskBuffer(c)
  BY <1>1 DEF WskInitWskBuffer, Leave
<1>2. CASE WskInitWskData(c)
  BY <1>2, ZenonT(30) DEF WskInitWskData, Leave, WskFreeWskBuffer
<1>3. CASE CallProvider(c)
  BY <1>3 DEF CallProvider
<1>4. CASE CreateSocketReturns(c)
  BY <1>4 DEF CreateSocketReturns, Answered, Leave, FreeCall, WskFreeWskBuffer
<1>5. CASE CallReturns(c)
  BY <1>5 DEF CallReturns, Answered, Leave, FreeCall, WskFreeWskBuffer
<1>6. CASE WskControlCallbacks(c)
  BY <1>6 DEF WskControlCallbacks, Leave
<1>7. CASE WskPostAsync(c)
  BY <1>7 DEF WskPostAsync, Leave
<1>8. CASE WskCompletionRoutine(c)
  BY <1>8 DEF WskCompletionRoutine
<1>9. CASE AsyncCompletes(c)
  BY <1>9 DEF AsyncCompletes
<1>10. CASE WskCloseSocket(c)
  BY <1>10 DEF WskCloseSocket, Leave
<1>11. CASE Entering(c)
  BY <1>11 DEF Entering, Enter
<1> QED
  BY <1>1, <1>2, <1>3, <1>4, <1>5, <1>6, <1>7, <1>8, <1>9, <1>10, <1>11 DEF
     CallerStep, Proceed

(* What a call holds follows its place.                                      *)
LEMMA CallerStepHolds ==
  ASSUME TypeOK, NEW c \in Callers, CallerInv(c), CallerStep(c)
  PROVE  CallerInv(c)'
<1> USE DEF TypeOK, CallerInv, FirstStep, IrpCalls, Creators, Accepting, DataCalls, PlainCalls,
            AsyncCalls, CallbackCalls
<1>1. CASE WskInitWskBuffer(c)
  BY <1>1 DEF WskInitWskBuffer, Leave
<1>2. CASE WskInitWskData(c)
  BY <1>2 DEF WskInitWskData, Leave, WskFreeWskBuffer
<1>3. CASE CallProvider(c)
  BY <1>3 DEF CallProvider
<1>4. CASE CreateSocketReturns(c)
  BY <1>4 DEF CreateSocketReturns, Answered, Leave, FreeCall, WskFreeWskBuffer
<1>5. CASE CallReturns(c)
  BY <1>5 DEF CallReturns, Answered, Leave, FreeCall, WskFreeWskBuffer
<1>6. CASE WskControlCallbacks(c)
  BY <1>6 DEF WskControlCallbacks, Leave
<1>7. CASE WskPostAsync(c)
  BY <1>7 DEF WskPostAsync, Leave
<1>8. CASE WskCompletionRoutine(c)
  BY <1>8 DEF WskCompletionRoutine
<1>9. CASE AsyncCompletes(c)
  BY <1>9 DEF AsyncCompletes
<1>10. CASE WskCloseSocket(c)
  BY <1>10 DEF WskCloseSocket, Leave
<1>11. CASE Entering(c)
  BY <1>11 DEF Entering, Enter
<1> QED
  BY <1>1, <1>2, <1>3, <1>4, <1>5, <1>6, <1>7, <1>8, <1>9, <1>10, <1>11 DEF
     CallerStep, Proceed

(* Who enters finds the provider captured, or a cleanup at work.             *)
LEMMA CallerStepCaptured ==
  ASSUME TypeOK, DispatchInv, NEW c \in Callers, CapturedFor(c), CallerStep(c)
  PROVE  CapturedFor(c)'
<1> USE DEF TypeOK, CapturedFor, CleaningUp, IsWskinitialized
<1>1. CASE WskInitWskBuffer(c)
  BY <1>1 DEF WskInitWskBuffer, Leave
<1>2. CASE WskInitWskData(c)
  BY <1>2 DEF WskInitWskData, Leave, WskFreeWskBuffer
<1>3. CASE CallProvider(c)
  BY <1>3 DEF CallProvider
<1>4. CASE CreateSocketReturns(c)
  BY <1>4 DEF CreateSocketReturns, Answered, Leave, FreeCall, WskFreeWskBuffer
<1>5. CASE CallReturns(c)
  BY <1>5 DEF CallReturns, Answered, Leave, FreeCall, WskFreeWskBuffer
<1>6. CASE WskControlCallbacks(c)
  BY <1>6 DEF WskControlCallbacks, Leave
<1>7. CASE WskPostAsync(c)
  BY <1>7 DEF WskPostAsync, Leave
<1>8. CASE WskCompletionRoutine(c)
  BY <1>8 DEF WskCompletionRoutine
<1>9. CASE AsyncCompletes(c)
  BY <1>9 DEF AsyncCompletes
<1>10. CASE WskCloseSocket(c)
  BY <1>10 DEF WskCloseSocket, Leave
<1>11. CASE Entering(c)
  BY <1>11 DEF Entering, Enter, DispatchInv, CleanupSteps
<1> QED
  BY <1>1, <1>2, <1>3, <1>4, <1>5, <1>6, <1>7, <1>8, <1>9, <1>10, <1>11 DEF
     CallerStep, Proceed

(* It is nobody else's.                                                      *)
LEMMA CallerStepFrame ==
  ASSUME TypeOK, NEW c \in Callers, CallerStep(c)
  PROVE  \A d \in Callers \ {c} :
           /\ UNCHANGED <<call[d], cpc[d], irp[d], buffer[d]>>
           /\ d \in held <=> (d \in held)'
           /\ d \in cleaned <=> (d \in cleaned)'
<1> USE DEF TypeOK
<1>1. CASE WskInitWskBuffer(c)
  BY <1>1 DEF WskInitWskBuffer, Leave
<1>2. CASE WskInitWskData(c)
  BY <1>2 DEF WskInitWskData, Leave, WskFreeWskBuffer
<1>3. CASE CallProvider(c)
  BY <1>3 DEF CallProvider
<1>4. CASE CreateSocketReturns(c)
  BY <1>4 DEF CreateSocketReturns, Answered, Leave, FreeCall, WskFreeWskBuffer
<1>5. CASE CallReturns(c)
  BY <1>5 DEF CallReturns, Answered, Leave, FreeCall, WskFreeWskBuffer
<1>6. CASE WskControlCallbacks(c)
  BY <1>6 DEF WskControlCallbacks, Leave
<1>7. CASE WskPostAsync(c)
  BY <1>7 DEF WskPostAsync, Leave
<1>8. CASE WskCompletionRoutine(c)
  BY <1>8 DEF WskCompletionRoutine
<1>9. CASE AsyncCompletes(c)
  BY <1>9 DEF AsyncCompletes
<1>10. CASE WskCloseSocket(c)
  BY <1>10 DEF WskCloseSocket, Leave
<1>11. CASE Entering(c)
  BY <1>11 DEF Entering, Enter
<1> QED
  BY <1>1, <1>2, <1>3, <1>4, <1>5, <1>6, <1>7, <1>8, <1>9, <1>10, <1>11 DEF
     CallerStep, Proceed

(* A manager that runs over the callers counts all of them as cleaned.       *)
LEMMA ManageCaptured ==
  ASSUME TypeOK, DispatchInv, Manage, NEW c \in Callers, CapturedFor(c)
  PROVE  CapturedFor(c)'
<1> PICK m \in Managers : RegStep(m)
  BY DEF Manage, RegStep
<1>1. /\ UNCHANGED npi /\ UNCHANGED callVars
      /\ captured /\ ~captured' => mpc[m] \in {"release", "undoRelease"}
  BY RegStepFrame DEF TypeOK, Manage
<1>2. SUFFICES ASSUME cpc[c] # "idle", c \notin cleaned'
               PROVE  captured' /\ CleaningUp' = {}
  BY <1>1 DEF CapturedFor
<1>3. cleaned' = cleaned /\ CleaningUp' \ CleaningUp = {}
  BY <1>2 DEF Manage
<1>4. npi = "wsk" /\ captured /\ CleaningUp = {}
  BY <1>2, <1>3 DEF CapturedFor
<1>5. captured'
  BY <1>1, <1>4 DEF DispatchInv, CleaningUp, CleanupSteps, TypeOK, RegistrationTypeOK
<1> QED
  BY <1>3, <1>4, <1>5

-----------------------------------------------------------------------------
LEMMA InitIInv == Init => IInv
<1> SUFFICES ASSUME Init
             PROVE  IInv
  OBVIOUS
<1> USE DEF Init, RegistrationInit
<1>1. RegistrationTypeOK
  BY DEF RegistrationTypeOK, States
<1>2. TypeOK
  BY <1>1, CallersAssumption DEF TypeOK
<1>3. Active = {}
  BY DEF Active, StartupSteps, CleanupSteps
<1>4. PhaseInv /\ DispatchInv
  BY <1>3 DEF PhaseInv, DispatchInv
<1>5. \A c \in Callers : CapturedFor(c) /\ CallerInv(c)
  BY DEF CapturedFor, CallerInv
<1> QED
  BY <1>2, <1>4, <1>5 DEF IInv

LEMMA NextIInv == IInv /\ [Next]_vars => IInv'
<1> SUFFICES ASSUME IInv, [Next]_vars
             PROVE  IInv'
  OBVIOUS
<1> USE DEF IInv
<1>1. CASE Manage
  <2> PICK m \in Managers : RegStep(m)
    BY <1>1 DEF Manage, RegStep
  <2>1. RegistrationTypeOK /\ RegistrationTypeOK'
    BY RegStepTypes DEF TypeOK
  <2>2. UNCHANGED <<callVars, socketVars>> /\ cleaned' \subseteq Callers
    BY <1>1 DEF Manage, TypeOK
  <2>3. TypeOK'
    BY <2>1, <2>2 DEF TypeOK
  <2>4. PhaseInv' /\ DispatchInv'
    BY <2>1, RegStepPhase, RegStepDispatch
  <2>5. \A c \in Callers : CapturedFor(c)'
    BY <1>1, ManageCaptured
  <2>6. \A c \in Callers : CallerInv(c)'
    BY <2>2 DEF CallerInv
  <2> QED
    BY <2>3, <2>4, <2>5, <2>6
<1>2. ASSUME NEW c \in Callers, CallerStep(c)
      PROVE  IInv'
  <2>1. TypeOK' /\ UNCHANGED registrationVars
    BY <1>2, CallerStepTypes
  <2>2. PhaseInv' /\ DispatchInv'
    BY <2>1 DEF PhaseInv, Active, Progress, DispatchInv
  <2>3. CallerInv(c)' /\ CapturedFor(c)'
    BY <1>2, CallerStepHolds, CallerStepCaptured
  <2>4. ASSUME NEW d \in Callers \ {c}
        PROVE  CallerInv(d)' /\ CapturedFor(d)'
    BY <1>2, <2>1, <2>4, CallerStepFrame DEF CallerInv, CapturedFor, CleaningUp
  <2> QED
    BY <2>1, <2>2, <2>3, <2>4
<1>3. CASE UNCHANGED vars
  BY <1>3 DEF vars, TypeOK, RegistrationTypeOK, PhaseInv, Active, Progress, DispatchInv,
              CapturedFor, CallerInv, CleaningUp
<1> QED
  BY <1>1, <1>2, <1>3, CallsEnter DEF Next, CallerStep

LEMMA IInvInvariant == Spec => []IInv
  BY InitIInv, NextIInv, PTL DEF Spec

-----------------------------------------------------------------------------
(* Every variable keeps its type.                                            *)
THEOREM TypeCorrect == Spec => []TypeOK
<1>1. IInv => TypeOK
  BY DEF IInv
<1> QED
  BY <1>1, IInvInvariant, PTL

(* Any number of threads may start the provider up and clean it up: unless   *)
(* two cleanups overlap, every call of the provider has its counterpart      *)
(* (winsockinit.c 11-175).                                                   *)
THEOREM RegistrationPairedCorrect == Spec => []RegistrationPaired
<1>1. IInv => RegistrationPaired
  BY DEF IInv, PhaseInv, RegistrationPaired
<1> QED
  BY <1>1, IInvInvariant, PTL

(* Who is let on finds the provider captured, or the dispatch table filled,  *)
(* with the two exceptions ReadyWhenUsed states; overlapping cleanups add    *)
(* none (winsockinit.c 119, nvmefrdma.c 6236-6242).                          *)
THEOREM ReadyWhenUsedCorrect == Spec => []ReadyWhenUsed
<1>1. IInv => ReadyWhenUsed
  BY DEF IInv, DispatchInv, CapturedFor, ReadyWhenUsed
<1> QED
  BY <1>1, IInvInvariant, PTL

(* Whichever step of a call fails, the provider holds an IRP and a buffer    *)
(* only while the call waits, and a call that returned keeps none            *)
(* (fab_tcp.c 111-949).                                                      *)
THEOREM HeldWhileWaitingCorrect == Spec => []HeldWhileWaiting
<1>1. IInv => HeldWhileWaiting
  BY DEF IInv, CallerInv, HeldWhileWaiting
<1> QED
  BY <1>1, IInvInvariant, PTL
===============================================================================

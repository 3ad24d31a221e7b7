------------------------- MODULE ProviderRegistration -------------------------
(***************************************************************************)
(* Registration with the network provider (winsockinit.c 11-175).  The     *)
(* driver registers twice, as a WSK client for the TCP sockets and once    *)
(* more for the NDK dispatch table of the RDMA sockets; the two share      *)
(* nothing and differ in one step, so a behaviour is that of one of them,  *)
(* the one npi names.  Startups and cleanups may run in several threads:   *)
(* each allocation of a controller starts NDK up (nvmefrdma.c 6235).       *)
(***************************************************************************)
EXTENDS Integers

CONSTANT Managers   \* threads that call a startup or a cleanup

VARIABLES
  npi,         \* which registration: "wsk" or "ndk"
  glState,     \* glWskState or glNdkState
  registered,  \* WskRegister without WskDeregister since
  captured,    \* WskCaptureProviderNPI without WskReleaseProviderNPI since
  filled,      \* gsNdkDispatch has been filled in; nothing empties it
  mpc,         \* [Managers -> where the thread is]
  told,        \* [Managers -> the state its startup was refused for]
  overlapped,  \* a cleanup passed its test while another one was running
  mispaired    \* calls of the provider that do not pair up with an earlier one

registrationVars == <<npi, glState, registered, captured, filled, mpc, told, overlapped, mispaired>>

States == {"DEINITIALIZED", "INITIALIZING", "INITIALIZED", "DEINITIALIZING"}
StartupSteps == {"register", "capture", "control", "undoRelease", "undoDeregister", "reset"}
CleanupSteps == {"release", "deregister", "deinitialize"}

RegistrationTypeOK ==
  /\ npi \in {"wsk", "ndk"}
  /\ glState \in States
  /\ {registered, captured, filled, overlapped} \subseteq BOOLEAN
  /\ mpc \in [Managers -> {"idle", "use"} \cup StartupSteps \cup CleanupSteps]
  /\ told \in [Managers -> States]
  /\ mispaired \subseteq {"register", "release", "deregister"}

RegistrationInit ==
  /\ npi \in {"wsk", "ndk"}
  /\ glState = "DEINITIALIZED"
  /\ registered = FALSE
  /\ captured = FALSE
  /\ filled = FALSE
  /\ mpc = [m \in Managers |-> "idle"]
  /\ told = [m \in Managers |-> "DEINITIALIZED"]
  /\ overlapped = FALSE
  /\ mispaired = {}

CleaningUp == {m \in Managers : mpc[m] \in CleanupSteps}

MGoto(m, from, to) ==
  /\ mpc[m] = from
  /\ mpc' = [mpc EXCEPT ![m] = to]

-----------------------------------------------------------------------------
\* The provider's side.

WskRegister ==
  /\ registered' = TRUE
  /\ mispaired' = IF registered THEN mispaired \cup {"register"} ELSE mispaired

WskReleaseProviderNPI ==
  /\ captured' = FALSE
  /\ mispaired' = IF captured THEN mispaired ELSE mispaired \cup {"release"}

\* Waits for what the client still holds; inUse is that, besides the NPI.
WskDeregister(inUse) ==
  /\ ~captured
  /\ ~inUse
  /\ registered' = FALSE
  /\ mispaired' = IF registered THEN mispaired ELSE mispaired \cup {"deregister"}

-----------------------------------------------------------------------------
\* NVMeoFWskStartup, NVMeoFNdkStartup.

\* A startup that is refused changes nothing, but with NDK the caller takes
\* the refusal for a success, whatever the state was.
TestDeinitialized(m) ==
  /\ mpc[m] = "idle"
  /\ IF glState = "DEINITIALIZED"
     THEN /\ glState' = "INITIALIZING"
          /\ mpc' = [mpc EXCEPT ![m] = "register"]
          /\ UNCHANGED told
     ELSE /\ npi = "ndk"
          /\ mpc' = [mpc EXCEPT ![m] = "use"]
          /\ told' = [told EXCEPT ![m] = glState]
          /\ UNCHANGED glState
  /\ UNCHANGED <<npi, registered, captured, filled, overlapped, mispaired>>

Register(m) ==
  /\ \/ MGoto(m, "register", "capture") /\ WskRegister
     \/ MGoto(m, "register", "reset") /\ UNCHANGED <<registered, mispaired>>
  /\ UNCHANGED <<npi, glState, captured, filled, told, overlapped>>

Initialized(m, from) ==
  /\ MGoto(m, from, IF npi = "ndk" THEN "use" ELSE "idle")
  /\ glState' = "INITIALIZED"

\* Not the code: capturing is the last step of NDK's startup too.
CaptureProviderNPIForgetsControl(m) ==
  /\ \/ Initialized(m, "capture") /\ captured' = TRUE
     \/ MGoto(m, "capture", "undoDeregister") /\ UNCHANGED <<glState, captured>>
  /\ UNCHANGED <<npi, registered, filled, told, overlapped, mispaired>>

CaptureProviderNPI(m) ==
  /\ \/ npi = "wsk" /\ Initialized(m, "capture") /\ captured' = TRUE
     \/ npi = "ndk" /\ MGoto(m, "capture", "control") /\ captured' = TRUE /\ UNCHANGED glState
     \/ MGoto(m, "capture", "undoDeregister") /\ UNCHANGED <<glState, captured>>
  /\ UNCHANGED <<npi, registered, filled, told, overlapped, mispaired>>

\* Not the code: a failure leaves the NPI captured.
ControlClientForgetsRelease(m) ==
  /\ \/ Initialized(m, "control") /\ filled' = TRUE
     \/ MGoto(m, "control", "undoDeregister") /\ UNCHANGED <<glState, filled>>
  /\ UNCHANGED <<npi, registered, captured, told, overlapped, mispaired>>

\* WSKNDK_GET_WSK_PROVIDER_NDK_DISPATCH, NDK only.
ControlClient(m) ==
  /\ \/ Initialized(m, "control") /\ filled' = TRUE
     \/ MGoto(m, "control", "undoRelease") /\ UNCHANGED <<glState, filled>>
  /\ UNCHANGED <<npi, registered, captured, told, overlapped, mispaired>>

Release(m, from, to) ==
  /\ MGoto(m, from, to)
  /\ WskReleaseProviderNPI
  /\ UNCHANGED <<npi, glState, registered, filled, told, overlapped>>

Deregister(m, from, to, inUse) ==
  /\ MGoto(m, from, to)
  /\ WskDeregister(inUse)
  /\ UNCHANGED <<npi, glState, captured, filled, told, overlapped>>

SetDeinitialized(m, from) ==
  /\ MGoto(m, from, "idle")
  /\ glState' = "DEINITIALIZED"
  /\ UNCHANGED <<npi, registered, captured, filled, told, overlapped, mispaired>>

\* The controller's thread goes on to NdkOpenAdapter, which reads the table.
UseDispatch(m) ==
  /\ MGoto(m, "use", "idle")
  /\ told' = [told EXCEPT ![m] = "DEINITIALIZED"]
  /\ UNCHANGED <<npi, glState, registered, captured, filled, overlapped, mispaired>>

-----------------------------------------------------------------------------
\* NVMeoFWskCleanup, NVMeoFNdkCleanup.

\* Not the code: a startup in progress is cleaned up as well.
TestInitializedOrInitializing(m) ==
  /\ glState # "DEINITIALIZED"
  /\ MGoto(m, "idle", "release")
  /\ overlapped' = (overlapped \/ CleaningUp # {})
  /\ UNCHANGED <<npi, glState, registered, captured, filled, told, mispaired>>

\* The compare-and-exchange has its operands swapped: it compares with
\* DEINITIALIZING, which the state never is, so it changes nothing and
\* lets everyone pass who finds INITIALIZED.
TestInitialized(m) ==
  /\ glState = "INITIALIZED"
  /\ MGoto(m, "idle", "release")
  /\ overlapped' = (overlapped \/ CleaningUp # {})
  /\ UNCHANGED <<npi, glState, registered, captured, filled, told, mispaired>>

Startup(m, inUse) ==
  \/ TestDeinitialized(m)
  \/ Register(m)
  \/ CaptureProviderNPI(m)
  \/ ControlClient(m)
  \/ Release(m, "undoRelease", "undoDeregister")
  \/ Deregister(m, "undoDeregister", "reset", inUse)
  \/ SetDeinitialized(m, "reset")

Cleanup(m, inUse) ==
  \/ TestInitialized(m)
  \/ Release(m, "release", "deregister")
  \/ Deregister(m, "deregister", "deinitialize", inUse)
  \/ SetDeinitialized(m, "deinitialize")
==============================================================================

# Verification of the NVMe-oF initiator

TLA+ models, TLC checks and TLAPS proofs about the Windows kernel NVMe-over-Fabrics initiator in
`src/`. Line numbers without a file are lines of `src/nvmefrdma.c`.

## 1. Inventory

| Component | Source | State it keeps | Operations | Correct when |
|---|---|---|---|---|
| RDMA I/O queue | `nvmefrdma.c` 3745-4210, 4272-4318, 4461-4531, 4869-5505; `xport_wrq.h` | list of work requests with `lReqState`, identifier, parent I/O, status and one shared NDK work request; identifier table; outstanding counters; disconnect flag | submit a read or write, LAM completion, SCQ callback, RCQ callback, disconnect event, flush | each I/O returns once, with its own status, its buffer closed; a request is used by one operation at a time and is clean when free; the counters balance |
| RDMA admin queue | 138-431, 435-699, 1354-1764, 1990-2440, 2550-2578 | send and receive work requests, identifiers, events, counters | claim, prepare, submit, wait with time-out, callbacks, release, flush | an answer reaches the caller that waits for it; a time-out leaves nothing a late answer can find |
| Teardown and disconnect | 3653-3741, 5509-5640, 5882-5908 | connection flag, `lBusy` marks, the queues' resources | mark busy, disconnect, drain, release, reset | nothing is freed while in use; the drain ends; a failed attempt can be repeated |
| Connection and set-up | 937-1350, 1768-2133, 2815-3649, 4230-4456, 4771-4864 | queue pairs, memory regions, LAMs, lists | allocate, connect, Fabrics Connect, roll back | a failure half way gives back what was taken, once |
| NDK socket | `fab_rdma.c` | adapter, PD, CQs, QP, connector, socket state | open, create, connect, disconnect, close, submit, arm | calls in a legal order; created objects closed once |
| Queue selection | 2873-2953 | NUMA pairs, round-robin counters | queue by number, by processor | a chosen queue exists and is connected |
| Controller list | 6156-6372 | list under a lock, reference counts | insert, find, remove | no removed controller is found, none is freed while held |
| Controller commands | `nvmeof_cmd.c`, 5720-5870, 6016-6152 | controller registers, AER state | enable, wait ready, features, identify, log pages, keep-alive | the wait ends; statuses are read the right way round |
| TCP fabric | `fab_tcp.c`, `win_sock.h` | WSK sockets, IRPs | synchronous socket calls | a call waits for its own IRP; a socket can be closed |
| Provider registration | `winsockinit.c` | NDK and WSK client states | start-up, clean-up | registered once, deregistered once |
| Utilities | `utils.c` | none | address look-up | - |
| NVMe/TCP transport | `nvmeftcp.c` (empty), `nvmeftcp.h` | none | none | - |
| Driver entry | `Sp.c` | dispatch table | stubs | - |

**Interaction.** The OS side calls `NVMeoFRdmaIOSubmitRW` on any processor. It claims a work request,
fills it and posts operations through `NdkSubmitRequest` (`fab_rdma.c` 1653). NDK calls back on three paths:
LAM built, send queue completion (SCQ), receive completion (RCQ). The callbacks run at DISPATCH level on
any processor and share the work request with the submitter and with each other through interlocked
operations on `lReqState` alone. A connection event sets the queue's disconnect flag and queues a work item
that flushes the requests. Teardown polls the outstanding counters once a second and then frees what the
callbacks use. The admin queue has the same two callbacks and a thread that waits on an event for 60 s. Every
configuration command (enable, identify, property get and set, connect, disconnect) goes through it.

**Hard behaviour.** Two completion queues that race for one request; a shared NDK work request whose type
says what completed; state set after the submission it describes; counters incremented after it too; a flush that
takes the I/O a completion is taking; identifiers that wrap; a time-out against a late answer; partial failure of
a submission; objects of one controller released by another; teardown against what is still under way. `PROJECT.json` lists them at their lines under `hazards`. Smaller ones of the I/O queue that no property
is about: the flush takes the I/O a request has after the test (4286) and counts a submission down for each (4312), a submitter that read the disconnect flag as clear goes on after the flush has passed (5417),
a refused invalidation is logged and dropped (4530), and the send callback of the admin queue polls with the receive side's request (513).

**State of the code.** The repository is in the middle of a refactoring and does not compile as it stands:
fields are renamed in some places only, `NVMEF_RDMA_USE_HASH_FOR_IO` is spelt two ways, line 3958
assigns `ulControllerState----`, line 4154 polls with `NDK_WREQ_SQ_GET_SUBMISSION_RESULTS`, which the
dispatcher (`fab_rdma.c` 1707) has no case for, and the receive request and result counts of a queue
are never assigned. Where the text does not compile or stops short the models follow the evident intent: the
configuration with the identifier table, polling that returns the queue's results, and a release build, in which
`ASSERT` does nothing. The number of receives is a constant.

## 2. Plan

| # | Modules | What | State |
|---|---|---|---|
| 1 | `RdmaIoQueue`, `IoQueueSpec`, `MCRdmaIoQueue`, `RdmaIoQueue_proofs` | the read/write path, both callbacks, flush; the promise to the OS | here |
| 2 | `AdminQueue`, `MCAdminQueue` | claim, number, submit, wait 60 s, release; the receive callback; the event request | here |
| 3 | `NdkSocket`, `MCNdkSocket` | object life cycles of the socket and its queue pairs, the connection count, the disconnect events | here |
| 4 | `ProviderRegistration`, `WskSocket` (extends it), `MCWskSocket` | start-up and clean-up of the two registrations; synchronous socket calls over an asynchronous provider | here |
| 5 | `AdminResources`, `ControllerSession` (extends it), `MCControllerSession` | memory of the admin queues; commands, I/O queues, list, busy gate, teardown of controllers | here |
| 6 | `RdmaIoWire_proofs`, `RdmaIoPromise_proofs`, `RdmaIoDrain_proofs`, `AdminQueue_proofs`, `NdkSocket_proofs`, `WskSocket_proofs`, `ControllerSession_proofs` | the invariants of modules 1 to 5 and the refinement of `IoQueueSpec` | here |
| 7 | `AdminQueue` extended | the send callback with the shared polling request, arming, the registration's wait | |

Modules with theorems use no `RECURSIVE` operator.

## 3. `RdmaIoQueue`

One I/O queue with everything that touches it. A read or write is: claim a free request and number it;
build the LAM of its buffer (inline, or pending with a callback); post FAST_REGISTER; on its completion enter the
request in the table and post SEND; when both the send's completion and the response have been seen post
INVALIDATE; on its completion give the I/O back and free the request. "Both have been seen" is a
compare-and-exchange of `lReqState` from `NVMEF_REQUEST_ALL_STATE_DONE` to FREEING that either callback may win.

### Variables

`lReqState` (a set of bits, `{}` is FREE), `usCommandID`, `pvParentReqCtx`, `Status`, `ulType`, `ppvIoReqTable`,
`lNextCmdID`, `ulDisconnectFlag` are the code's. `pvBuffer` is the MDL of the request, identified by its I/O. `cnt` holds
the three counters the drain waits for (3682-3684). `sub[i]` and `lam[i]` are the places of the thread submitting I/O `i` and of its LAM's
callback, `scq`, `rcqThread` and `flush` those of the two completion callbacks and of the flush. Environment:
`sendQ` (operations posted and not reaped, with their outcome), `mr` (whose buffer a request's registration opens),
`target`, `rcq`, `recvPosted`, `recvFlushed`, `connected`, `os` (how often and with what status an I/O came back).

### Actions

| Actor | Actions | Code |
|---|---|---|
| submitter of `i` | `IOSubmitRW`, `GetCurrentFreeIORequest`, `NoFreeIORequest`, `PrepareRWRequest`, `PrepareRWPending`, `PrepareRWReturnsPending`, `PrepareRWFails`, `SubmitFastRegister`, `SubmitFastRegisterFails`, `CountFastRegister` | 5409-5479, 4869-4912, 5291-5405, 5173-5248 |
| LAM callback | `BuildDataLamCompletion`, `LamCountsFastRegister` | 5252-5269 |
| SCQ callback | `IoFRCompletion`, `SubmitSend`, `SubmitSendFails`, `CountSend`, `IoSendCompletion`, `ScqJoin`, `IoCompletion`, `FreeRequest` | 4024-4189, 4916-5148 |
| RCQ callback | `ReceiveResponse`, `ReceiveInvalid`, `StoreResponse`, `RcqJoin`, `RepostReceive`, `CountReceive`, `ReceiveFlushed`, `ReceiveFailed` | 3745-3990, 5152-5169, 2897-2931 |
| connection event, flush | `IOQPDisconnect`, `FlushTests`, `FlushTakes` | 4192-4210, 4272-4318 |
| adapter, target, connection | `AdapterExecutes`, `AdapterCancels`, `TargetAnswers`, `ConnectionLost` | external |

A step runs up to and including the next operation another thread can tell apart: an interlocked operation on the request, a submission,
or a store another thread reads. Hence `SubmitSend` and `CountSend` are two (5006 and 5031-5033), `RepostReceive` and `CountReceive` are two (3853 and 3857), and so are the RESPONSE_RECEIVED bit and
the status it announces (3797 and 5157). The decrement of a counter is one step with the poll that takes the result out of the completion queue (3916 and 3925): an entry of `sendQ` or `rcq` is one that was not counted down yet.

### Abstractions

* Operations of different requests keep no order on the send queue; those of one request do.
* The scan for a free request may find any free one. Looking a response's request up, taking it from the table and setting its bit are one step:
  between them no other thread touches that entry or looks at the bit.
* A batch of results is handled one at a time. A callback is taken to run whenever a completion is there: arming of the completion queues is
  not in the model.
* `target` is a set: responses may come in any order. A command and its response name the I/O whose buffer was in the command, so that a
  response that reaches another I/O's request can be told apart.
* On a queue pair that is gone, what is posted completes as cancelled.
* `IoCompletion` (5083-5137) is one step. The exchange of `fnCompletion` that follows is represented by counting completions: the OS frees
  its NVMEOF_IO_REQ at the first, so a second is an error in itself.
* `lCurrentOutstandingRequest` of a queue and `lOutstandingRequests` of the controller are left out: the I/O path decrements them (4313, 5146-5147, 5429-5430, 5447-5448, 5469), nothing in `src/` increments them or reads them (2941 is the field of
  another structure), so there is nothing for them to balance. Statistics counters, ANA flags (set nowhere in `src/`), logging and scatter-gather layout are left out.
* Whether a cancelled receive is put back hangs on a test that is no expression (3957). `ReceiveFlushed` leaves it open.
* The flush runs in a work item outside `src/` after the disconnect event. In the model it may run on any request any number of times.

### `IoQueueSpec`

The abstract queue: an I/O is idle, accepted (at most `Depth` at a time), refused or completed, and a buffer is open to the network only while its I/O is
accepted. `RdmaIoQueue` implements it under the mapping at its end: `phase` from the submitter's place and the OS's count, `exposed` from `mr` while the
connection stands, `Depth` the number of requests.

## 4. `AdminQueue`

The admin queue: threads that send one command each and wait for its answer, and the callback of the receive completion queue. A thread numbers
its command, claims a free request, maps command and data, posts the send, waits up to 60 s for the request's event and releases the
request, whatever came. The callback finds the request by the identifier in the answer, copies the answer into the buffer of the request's
parent and sets the event. The asynchronous event request takes the same way with the reserved identifier 31; the target may answer it hours later or never.

### Variables

`lReqState`, `usCommandID`, `pvParentReqCtx`, `fNVMeReqCompletion` (is it set), `sEvent` (of `sCompletionCtx`), `Status`, `psBufferMdl` are fields of the send
work requests; `lNextCmdID`, `lReceiveWorkRequestOutstanding` of the queue. `call[r]` is the place of the thread of command `r` with its request and identifier,
`result[r]` what it returned, `buffer[r]` whose answer is in its response buffer. Two histories, which no step reads, name the exceptions of the properties: `hit` has the commands that claimed a request while the callback still held it from an older answer,
`twin` those that met another one in progress under their own number. `rcqThread` is the callback: its place, the request it found, the parent
it read, the answer it carries. `sendQ`, `target`, `rcq`, `recvPosted`, `recvFlushed`, `connected` are the environment.

### Actions

| Actor | Actions | Code |
|---|---|---|
| thread of `r` | `GetAdminCommandID` or `AsyncEventRequest`, `AllocateSendWorkRequest` or `NoFreeSendWorkRequest`, `PrepareSendWorkRequest` or `PrepareFails`, `SubmitSendWorkRequest`, `WaitEnds` or `WaitTimesOut`, `ReleaseClears`, `ReleaseFrees` | 2550-2557, 138-189, 2137-2440; `nvmeof_cmd.c` 776-809 |
| RCQ callback | `ReceiveAnswer`, `ReceiveDropped`, `CallNVMeCompletion`, `ReadParent`, `StoreAnswer`, `SignalAnswer`, `RepostReceive`, `CountReceive`, `ReceiveFlushed` | 223-431, 2318-2335 |
| adapter, target, connection | `AdapterSends`, `TargetAnswers`, `ConnectionLost` | external |

The callback's look-up (292), its reads of the completion routine (296) and of the parent (2323), its copy (2325), its signal (2334), the repost (334) and its count (339) are steps of their own, so that a thread
that gives up, or a release that reads the count, can come between them. The release clears the fields and frees the request in two steps, so that the scan of 227-236 meets the state between.

### Abstractions and assumptions

* Mapping and registering the buffers is one step that succeeds or fails. Send completions change nothing here: a synchronous request has no `fSendReqCompletion` (2388), so
  the send callback is left out, and with it the polling request both callbacks share and the arming of the completion queues.
* Nothing in `src/` assigns `_NVMeoFQueueSubmitRequest`, which the event request is sent with: it is taken to be `NVMeoFRdmaAdminSubmitRequestSyncAsync`. The bounds of the
  two scans are taken to be the number of requests, and `NVMEOF_RESPONSE_STATE_FREE` to be FREE: the source declares or sets none of them.
* The queue gives two counts the same identifier (2556 drops bit 0) and does not ask whether one is in use; the model does the same. A caller may send a second event request while one is unanswered; both have the reserved identifier.
* 60 s may be over at any moment (`WaitTimesOut`). The fault `"late"` is that of a target or host so slow that the answer to a command is still on its way then; without it, as in `admin_live`, only a command that will get no answer times out. An event request may always time out with its answer on the way.
* When the caller has released the request before the callback reads its parent (2323), the parent is NULL and 2325 writes through it. The model stores nothing and goes on, since what comes of it is not in the source; `AnswerFindsWaiter` says that this happens only to callers that gave up.

### Properties

`AnswerIsOwn`: who returns with success has an answer to its number, and to its own command if no other one in progress had that number. `AnswerFindsWaiter`: as long as a command has not given up, its answer goes into its buffer and the signal to the request it waits on; excepted
are twins, which the scan cannot tell apart. Both except the `hit`: 2438 frees a request the callback may have found just before, and who claims it then may be handed the older answer. `FreeRequestIsClean`: a request that can be claimed has no identifier, parent, completion routine or mapping left and nobody works on it, however late
answers come; only a signal may still arrive, and the claim resets it. `ReceivesBalance`: the counter that decides on arming (425) and on the release (1995) counts the receives not reaped, less the one that is posted again and not counted yet: in that window the release can read zero. `EveryCallSucceeds`: with no fault every command with a number of its
own returns with its answer, so no wake-up is lost between the resets of the event (2374, 2406) and its setting.

## 5. `NdkSocket`

The RDMA socket of a controller (`fab_rdma.c` 13-1253) and its queue pairs. One thread opens the adapter, its protection domain and alias and destroys them; each queue pair has a thread
that creates two completion queues, the queue pair and the connector, connects, and later tears all of it down. Any provider call may fail, and a connection may be lost at any moment.

**State.** `socket`, `ulSockState`, `lRefCount`, `usSockQPCount` and `ulDisconnectFlag` are the code's. `base` and `bundle` hold its pointers as "null", "open" or "closed": a pointer keeps its value when
its object is closed, which is how a second close is told apart (`misclosed`). `link` and `handled` are the connection and its registered handler, `pc` and `pending` the place of each
thread and whether it waits for the provider, `returned` what the connect came to, `reports` the work items queued.

| Actor | Actions | Code (`fab_rdma.c`) |
|---|---|---|
| socket's thread | `CreateRdmaSocket`, `NoMemoryForSocket`, `OpenAdapter`, `QueryAdapter`, `AllocateAlias`, `ConvertAlias`, `CreateProtectionDomain`, `DestroyRdmaSocket`, `CloseProtectionDomain`, `CloseAdapter` | 695-790, 921-940, 1006-1118, 1149-1154; `nvmefrdma.c` 46-73 |
| pair's thread, connecting | `CreateRdmaQPair`, `CreateRcq`, `CreateScq`, `ControlCqInterruptModeration`, `CreateQp`, `UndoQueues`, `CreateConnector`, `Connect`, `Refused`, `CompleteConnect`, `GetConnectionData`, `GetLocalAddressAndArm`, `UndoLink`, `MarkConnected`, `CountConnection` | 795-914, 1158-1253; `nvmefrdma.c` 75-117 |
| pair's thread, tearing down | `TearDown`, `TestConnected`, `Flush`, `CloseConnector`, `CloseQueues`, `TestRefCount`, `MarkDisconnected`, `ReleaseRefCount` | 1123-1144 |
| provider | `Issue` and the completions above, `ConnectionLost` | 16-54, 111-527; handlers `nvmefrdma.c` 561-587, 4191-4210 |

**Abstractions.** All NDK calls have one form (call, wait without a time-out if it pends, take status and object from the callback), so `Issue` and `Completes` stand for each, and the `Ndk...` operators name them.
Addresses, attributes, and private data are left out. The socket is destroyed by the teardown of the admin pair (5509-5528), as soon as
that pair is down and whatever the pairs of the I/O queues do: in the code nothing tears those down (`lSQQueueCount`, 4349). They may still be torn down in the model, as the loop of 3653-3671 would. A call of theirs that is in progress when the socket goes ends as the provider has it.

**Properties.** `ClosesOpenObjects`, `ParentsOutliveChildren`, `FreedSocketLeavesNothing`: objects are closed once, an open queue pair has its completion queues and the admin queue's its protection domain, and a freed socket leaves nothing open, and each names the exact exceptions the code has: a connect that
fails after its queue pair was made gives nothing back, its later teardown returns at 1130 on a socket that never had a connection, and the pairs of I/O queues lose their protection domain and stay open when the admin pair takes the socket down. `RefCountIsConnections` ties the count, which teardowns test twice and then decrement, to the
connections there are; it shows that the last teardown finds one and not zero, so that the socket never becomes Disconnected. `ReportedOnce`: many losses, one work item. `EveryCallReturns`: no thread waits for another.

## 6. `ProviderRegistration` and `WskSocket`

`ProviderRegistration` is `winsockinit.c`: register, capture, for NDK also fetch the dispatch table, and the clean-up, with the states of `glWskState` and `glNdkState`, in several threads. A behaviour is
that of one of the two registrations (`npi`), which share nothing. `WskSocket` extends it with the calls of `fab_tcp.c`: test the state, build the buffer and the IRP, call, wait, take the result, free.

**State.** `glState` is the code's; `registered`, `captured`, `filled` are the provider's side; `mpc` the managers' places; `call` and `cpc` the callers'; `socket`, `irp`, `buffer` what a caller has; `held`, `posted`, `opened` what the
provider has. `told`, `overlapped`, `cleaned`, `mispaired` remember what the properties speak of.

| Actor | Actions | Code |
|---|---|---|
| manager | `TestDeinitialized`, `Register`, `CaptureProviderNPI`, `ControlClient`, `UseDispatch`, `TestInitialized`, `Release`, `Deregister`, `SetDeinitialized` | `winsockinit.c` 11-175; `nvmefrdma.c` 6233-6242 |
| caller | one operator per call (`WskCreateSocket` to `WskDisableCallbacks`), `WskInitWskBuffer`, `WskInitWskData`, `CallProvider`, `CreateSocketReturns`, `CallReturns`, `WskCloseSocket`, `WskControlCallbacks`, `WskPostAsync` | `fab_tcp.c` 109-949 |
| provider | `WskCompletionRoutine`, `AsyncCompletes`, waiting in `WskDeregister` | external |

**What the code does, modelled as it is.** `WskCloseSocket` tests the initial value of `Status` (243) and always returns early: the provider keeps the socket, and a clean-up after the first socket waits for ever. The clean-ups have the operands
of their compare-and-exchange swapped (119, 169): the state stays INITIALIZED while one runs and never becomes DEINITIALIZING, and a second passes. The controller's allocation takes `STATUS_ALREADY_REGISTERED` for success (6237) while the first start-up is still at it. The properties state
exactly these extents: `RegistrationPaired` (calls pair up unless two clean-ups overlapped), `ReadyWhenUsed` (who passed the test finds the provider unless a clean-up ran meanwhile, or the start-up was refused because of another one in progress), `HeldWhileWaiting`
(the provider has an IRP and a locked buffer exactly while their call waits, nothing is kept by a call that failed), `EveryCallReturns`.

**Assumed.** The TCP transport that would make the calls is not written, so a caller makes any of them in any order on a socket it has.

## 7. `AdminResources` and `ControllerSession`

`AdminResources` is the memory of the admin queues: socket, queue pair, the nine lookaside lists that all controllers share, the requests of both directions, the posted receives; what the connect sets up and
the disconnect gives back. `ControllerSession` extends it with the rest of a controller's life: allocation, commands and what their answers change, the I/O queues, the list, the busy gate, the teardown.

**State.** `pvSessionFabricCtx`, `ulSockState`, `psNdkQp`, `lReceiveWorkRequestCount`, `lReceiveWorkRequestOutstanding`, `lAdminQueueCount`, `sRdmaControllerHead`, `psNVMeoFNSANALogPage`, `psNumaSQPair`, `usNumaNodeCount`, `lSQQueueCount`, `lBusy` are the code's.
`lookaside`, `sub`, `recv` say what a ladder of allocations left: "none", "whole", "dangling" (freed and not cleared), and for the lists "holed" (the first of them is null).
`posted`, `rcq` are the adapter's; `pc`, `on`, `command`, `waiting`, `polls`, `ulControllerStatus`, `walked` the threads' places and locals; `lastRead` and `enabled` what was said and concluded.

| Actor | Actions | Code |
|---|---|---|
| controller's thread, admin queue | `AllocateAndInitializeController`, `CreateAsyncSocket`, `AdminXportConnect`, `AllocateLookasideLists`, `AllocateSubmissionResources`, `AllocateReceiveResources`, `FreesUnsetPointers`, `AdminSubmitReceiveRequests` | 44-73, 701-729, 786-918, 1297-1350, 1414-1560, 1667-1764, 1827-1976, 2012-2133, 6154-6280 |
| commands | `SetupAdminConnection`, `IdentifyController`, `EnableController`, `GetANADescriptorLogPage`, ..., `SubmitRequest`, and per answer `RegisterAnswered`, `IdentifyAnswered`, `WriteAnswered`, `StatusRead`, `AnaPageAnswered`, `PlainAnswered` | `nvmeof_cmd.c` 298-1014; 5718-5870, 6014-6152 |
| I/O queues | `ConnectControllerIOQueues`, `AllocateNodeQueues`, `CreateIOQ`, `AllocateAndInitializeRdmaIoReq`, `SetupNvmeofIOQueues` | 2870-2893, 3613-3649, 4228-4268, 4332-4421, 4769-4864 |
| requesters | `FindControllerByNQN`, `FindControllerByNQNAndTargetIP`, `QueuesBusy` | 6282-6346, 5573-5603 |
| whoever tears down | `NvmeofDisconnect`, `DisconnectControllerIOQueues`, `ReleaseIOQResources`, `DisconnectQp`, `CloseQueues`, `Drain`, `FreeSubmissionResources`, `FreeReceiveResources`, `FreeLookasideLists`, `DestroySocket`, `FreeController` with `Unlinked` | 1352-1412, 1638-1665, 1766-1823, 1988-1999, 3651-3741, 5507-5641, 6348-6372 |
| adapter and RCQ callback | `ConnectionLost`, `AdminRcqCallback` | external; 361-431 |

**Memory that is not there.** A thread about to touch freed memory, or a pointer nobody set, stops the machine there: `Misuses` says which steps those are and `misuse` records it. `MemorySafe` then says that it happens only in the
places the code lets it, each with its line and its cause; a release that forgets a step, or a list entry that outlives its controller, shows as a misuse with none of those causes.

**What the code does, modelled as it is.**

* The lookaside lists hang on the one `gpsRdmaControllerList`, so the first controller that goes takes them from the others (1768). Nothing in `src/` assigns that pointer; one structure is assumed.
* A failure to allocate the lists, requests or receives is forgotten (2128 assigns the status of the receives' posting), and one inside a loop over requests is reported as success (1758-1760). A work request is zeroed when it comes from the pool, a list's object is not, hence `FreesUnsetPointers`.
* The release waits for `lReceiveWorkRequestOutstanding` (1995), tested twice, and never for sends; it comes after the completion queues were closed.
* A look-up returns the controller without a reference. The busy marks are set queue by queue, and an early return leaves its marks.
* `lSQQueueCount` is set by the caller, read for the array's size and cleared (4349), and never set again, so the loops of disconnect and release visit no queue.
* Reads and log pages test `!SC && SCT` (5759 and its like): the one answer they take for good ("odd") is an error. `NVMeoFRdmaRead32` then leaves the caller's initial value.
* The teardown of the admin pair tests the socket's state (`fab_rdma.c` 1130, `AfterTest`) and does nothing for a pair whose connect failed: neither flush nor close, and its queue pair and completion queues outlive the socket.
* Nothing clears `pvSessionFabricCtx`; `lAdminQueueCount` is decremented and never incremented; `psNVMeoFNSANALogPage` is never freed and is reused for a longer page (864).

**Assumed.** The callers of a controller's operations are outside `src/`: `Uses` says what is wanted of each controller, and a thread that began a teardown starts no command on it. There is at least one controller, and one NUMA node. One step may fail per behaviour (`MaxFailures`).
`NVMeoFAdminRequestResponseAllocate` is read as its callers use it: 5728 and 6069-6072 disagree on its parameters, and 6120 sizes the receive data buffer by the send length.

**Properties.** `MemorySafe` as above. `ReceivesHaveBuffers`: the adapter has receives only while their buffers and their queue are there, however the teardown, the flush, the callback and a lost connection interleave. `NothingLeft`: a freed controller leaves no requests, buffers, receives
or counts of its admin queue; of its socket and queue pair it leaves the socket that never got a queue pair (5515) and the queue pair that was never connected (`fab_rdma.c` 1130), and no other; the lists go with the last. It does not speak of the I/O queues, which nothing closes. `GateAdmitsOne`: of those who found a controller one passes the gate. `EnabledSawReady`: enabling succeeds only when the target said so last.
`TeardownEnds`: a teardown frees the controller, unless it is stopped by a misuse or waits for receives whose completion queue it closed.

## 8. Runs

| Run | Instance | Shows |
|---|---|---|
| `io_core` | 2 requests, 3 I/Os, 3 identifiers, no fault; 140,520 states | types; one operation per request; no buffer open after completion; the target works on the command's own buffer; a free request is clean; a response finds its request; when all is quiet nothing is left behind. Deadlock is checked |
| `io_faults` | 2 requests, 2 I/Os; LAM fails or pends, submissions refused, short responses; 127,089 states | the target works on the command's own buffer, a free request is clean, a response finds its request, the counters are right but for an increment on its way, under these. One operation per request is proved for every fault (section 9) |
| `io_disconnect` | 2 requests, 2 I/Os, 1 receive; connection lost, LAM pends, receives fail; 755,651 states | each I/O returns once; a free request is clean; every behaviour is one of `IoQueueSpec` |
| `io_live` | 2 requests, 2 I/Os, fair; 33,476 states | every I/O returns |
| `admin_core` | 2 commands and an event request on 2 requests, identifiers 0..3, counts from 3 or 4, 1 receive; failing mapping, refused send or repost, wrong lengths, connection lost, late answers; 3,867,328 states | all the safety properties of `AdminQueue`. Deadlock is checked |
| `admin_live` | 2 commands and an event request on 3 requests, 2 receives, no fault, fair; 230,527 states | every command with its own number returns with its answer |
| `ndk_core` | the admin pair and one I/O pair; any call may fail, either connection be lost; 14,032 states | the properties of section 5, liveness included |
| `wsk_core` | 2 managers, 1 caller, 1 socket; either registration; 104,157 states | the properties of section 6, liveness included |
| `session_core` | 2 controllers, 2 requesters, 2 I/O queues, 2 receives, 1 failure; 134,530 states | the properties of section 7, liveness included |
| `io_id_reuse` | 2 identifiers | violation, see section 11 |
| `io_stale_status` | 3 I/Os, 2 requests | violation, see section 11 |
| `io_drain` | connection lost | violation, see section 11 |

**Bounds.** Two requests are enough for one thread to use a request while another works on the next. Three I/Os on two requests make a request be reused
while the other is busy and make one be refused. `NumIds` is at least the number of I/Os in the passing runs: this says that a command is answered
before 65,536 later ones, and `io_id_reuse` shows what happens otherwise. `NumRecv` equals the number of I/Os or, with disconnection, 1, so
that the target also has to wait for a receive. `Ios` is the bound on everything that counts: an I/O is submitted once. No other bound is used.
On the admin queue three callers on two requests make requests be reused while an event request is outstanding and make a caller be refused. `MaxCmdId` is 3 for 65,535, the smallest that leaves room for the reserved identifier 1 (odd, as 31 is) and 3, that of a free request.
`FirstCounts` has the counts a run may start from: from 3 the number wraps between the two commands and they differ, from 4 both have the same. One receive makes the callback repost it before the next answer can come. In `admin_live` there are as many requests as callers, so none is refused.
On the socket two pairs are what two counters, two losses and an unfinished neighbour need; a third repeats them. Two managers let a start-up meet a start-up or a clean-up, and two clean-ups meet; the caller's
calls run against each of these, and calls of different callers share nothing but the state they test. In `session_core` two uses are checked: a controller that commands are sent on, alone with the requesters' threads at rest, and one with I/O queues that two requesters
find beside one that is connected and given up, which shares its lists. Two queues make the gate's walk take three steps. Two receives are the code's number.
One failure per behaviour reaches every misuse `MemorySafe` names; failures in two ladders at once would reach the same places.

**Faults left out of a run.** A LAM or a submission that fails is not combined with a lost connection in a passing run: the failing paths leave the refused
I/O in the request (5443-5452, 5467-5476), so a later flush completes an I/O whose submission returned an error. The code has that defect; it is listed as a hazard.
For the same reason `io_faults` makes no claim that every I/O returns: a dropped response and a refused invalidation strand a request.
`CHECK_DEADLOCK FALSE` stands in the runs where a request can be stranded by a fault, and so the system may stop; in the violating ones; in `ndk_core` and `session_core`, where a socket or controller comes to the end of its life and a misuse stops the machine; and
in `wsk_core`, where a clean-up may wait for ever for a socket nobody closes.

**Fairness.** In `io_live` and `admin_live`: weak, for each submitting thread and LAM callback (kernel threads and DPCs are scheduled), for the adapter per request (an
operation posted on a live connection completes), for the target per request (it answers what it has) and for the two callbacks (NDK delivers what
is armed for). None for losing the connection, for the event or for the flush, which no code in `src/` makes happen.
`admin_live` assumes the same of its threads, callback and adapter; the target is fair to commands and owes an event request no answer.
In `ndk_core`: weak, for each thread with the completion it waits for (a kernel thread runs, NDK completes every request it pends); none for opening, connecting, tearing down or losing anything. In `wsk_core`: weak for each caller's steps and for the
completion of its IRP; strong for each manager, since `WskDeregister` waits until the client holds nothing, and calls may come and go meanwhile. In `session_core`: weak for a thread that tears down and for the RCQ callback; a command need not be answered, and nobody has to ask for a teardown.

## 9. Proofs

Each theorem holds for every value of the constants that the assumptions in the models allow (`NumIdsAssumption`, `NoneAssumption`, `ThreadsAssumption` and their like: numbers are numbers of
the right size, the actors of different kinds differ, the sets of queue pairs and controllers are finite) and, but where a condition is named, for every set of faults, those the runs keep apart included.
Every proof has the same shape: an inductive invariant, one lemma per actor or per part with a step for each action, and a last section that concludes. Every invariant below was an invariant of a TLC run before it was proved.

### The I/O queue

`RdmaIoQueue_proofs`:

* `TypeCorrect`: `Spec => []TypeOK`, with which a thread or callback has a request of the queue exactly while it works on one. The type invariant is split into the parts an action changes together (`StateOK`, `NdkTypeOK`, `FieldsOK`,
  ...), with one lemma per actor. The state of a callback carries a slot exactly when it needs one.
* `CompletedOnceCorrect`: `Spec => []CompletedOnce`. `CompletedOnce` is not inductive: nothing in it says that an I/O still in a request has not
  come back. `OnceInv` adds that an I/O in a `pvParentReqCtx` is in one only and has not come back, and that one whose thread is still before
  "prepare" is in none. Whoever completes takes the I/O out of the request in the same interlocked step.
* `OneOperationCorrect`: `Spec => []OneOperationPerRequest`. `OneUser` says that the submitting thread, a LAM callback, the SCQ
  callback and a posted operation exclude each other as users of a request, that a request with a user is neither free nor
  has WAITING_FOR_RESPONSE (an invalidation apart), and that the type is the posted operation's. So the join, which needs
  WAITING_FOR_RESPONSE, finds no user and may invalidate, and it clears the bit, so it fires once. The claim finds a free
  request, which has no user. Without WAITING_FOR_RESPONSE in `AllStateDone` the proof fails where TLC finds the counterexample.

`RdmaIoWire_proofs` adds what a request, its registration, its table entry and its command have to do with each other:

* `NotExposedAfterCompletionCorrect`, for all faults. By `SlotInv` the bits of `lReqState` tell how far a request is (`BitsOf`), and while the connection stands a registration opens the buffer of the I/O in the request (`BufferOf`).
  An I/O leaves its request only after the invalidation, or by the flush of a connection that is gone.
* `TargetUsesOwnBufferCorrect`, `ResponseFindsItsRequestCorrect`, `InsertFindsEmptyEntryCorrect`, `FreeRequestIsCleanCorrect`, under `EachIdOnce`: there are no more I/Os than identifiers. `WireInv` follows a command by its identifier, from the thread about to send it
  over the target to the response, and finds the same request at each place; it is inductive only with `NumberInv`, that the requests in use have different identifiers. That rests on the counter modulo 65,536 not having come round, and the code has nothing else to rest it on: the run
  `io_id_reuse` shows `InsertFindsEmptyEntry` violated when the identifiers are fewer than the I/Os.

`RdmaIoPromise_proofs`: `KeepsPromiseCorrect`, `Spec => KeepsPromise`, the refinement of `IoQueueSpec`, for finitely many requests and under `NoRefusalAfterLoss`: not both a lost connection and a LAM or submission that is refused. An accepted I/O that has not come back is in a request
(`OwnerInv`), which bounds how many there are by the number of requests; every step is then one of the abstract queue or a stutter. With both faults the promise is broken, and TLC shows how: the refused I/O stays in its request and the flush completes it (section 8).

`RdmaIoDrain_proofs`: `QuietMeansDoneCorrect`, `Spec => []QuietMeansDone`, under `EachIdOnce` and `NothingFails`: of the faults only `recvFail`, which can do nothing before a connection is lost. By `WorkInv`, whatever bit of a request's state is missing, somebody is on the way to set it, and who sets the last is on the way to the
join; with nobody on the way every request is free and every I/O is back. Each of the other five faults alone breaks it: a refused LAM or submission, a short response and a lost connection strand requests, and after a LAM that pends the thread may set INITIALIZED (5395) as the last bit of all, when both callbacks have found it missing at their joins; it does not join itself, and the request is never invalidated (the trace TLC gives).

`CountersBalanceCorrect`, `Spec => []CountersBalance`, under `EachIdOnce`, for finitely many requests and `CountedWell`: the connection stays. LAMs may pend or fail, submissions be refused, responses be short. A lost connection breaks it, and the code is why: the flush counts a submission down for each I/O it takes, sent or not (4312),
and a failed receive is counted down twice (3861). `SumsInv` writes each counter as a sum of cardinalities: of the requests with a posted registration or send and of the receives, less those whose poster has not counted it yet. Each step adds one element to one of these sets, or takes one away, as it counts. `WireInv` gives that the target's answer is
a new element of the completion queue.

### The admin queue

`AdminQueue_proofs`: `TypeCorrect`, `ReceivesBalanceCorrect`, `FreeRequestIsCleanCorrect`, `AnswerFindsWaiterCorrect`, `AnswerIsOwnCorrect`, all of them for every set of faults and with no assumption on timeouts or numbers: an answer may race its wait, and two commands have one identifier.
`SlotsInv` ties a request to the one thread that claimed it and says that a request of nobody has nothing in it; `WireInv` ties a message to the command it was sent for, so that a receive is counted once. An answer is then followed through the callback: by `HeldInv` what the callback holds is good (an answer to the same number, and to the command itself unless it has a twin) for
whoever has the request it found, unless that one claimed it meanwhile, and for the parent it read; by `BuffersInv` so is what is in a buffer when its event is set; by `WaiterInv` a command that has not given up still waits on the request that was found. `NumbersInv` says that `twin` has all commands that share a number, which is what lets the scan find the right request. That the scan of 227-236 returns the request
of the least index is derived from the least element of a set of naturals, since its definition is by CHOOSE.

### The sockets

`NdkSocket_proofs`, for every finite set of queue pairs: `TypeCorrect`, `ClosesOpenObjectsCorrect`, `ParentsOutliveChildrenCorrect`, `FreedSocketLeavesNothingCorrect`, `RefCountIsConnectionsCorrect`, `ReportedOnceCorrect`. `PairInv` and `OwnerInv` give for each place of a thread which of its objects are open,
null or closed; the order of closing follows. Nothing is assumed of when the socket is destroyed. `usSockQPCount` and `lRefCount` are tied to the sets they count by their cardinality (`QPCountInv`, `CountInv`).

`WskSocket_proofs`, for every set of managers and callers and any number of sockets: `TypeCorrect`, `RegistrationPairedCorrect`, `ReadyWhenUsedCorrect`, `HeldWhileWaitingCorrect`. `PhaseInv` holds as long as no two clean-ups overlapped, which is also all that `RegistrationPaired` claims: one manager is at work at most, and how far it
is tells what is registered. `DispatchInv` is what INITIALIZED promises even after an overlap; `CallerInv` that a call waits on an IRP it built and with the provider captured.

### The controllers

`ControllerSession_proofs`, for every finite set of controllers, any requesters and any number of failures: `TypeCorrect`, `MemorySafeCorrect`, `ReceivesHaveBuffersCorrect`, `NothingLeftCorrect`, `GateAdmitsOneCorrect`, `EnabledSawReadyCorrect`. None of them is inductive, and they need each other, so one invariant has them all. `NothingLeft` follows from the stages: a socket becomes Connected only with its queue pair open, and the teardown of such a pair closes it.

* `ThreadsInv`: who tears a controller down is its own thread, or a requester that marked its admin queue while it ran; with `GateAdmitsOne` it is alone (`OneTeardown`).
* `MemoryInv`, `ListInv`: so what is torn down is not freed yet, and the list holds exactly the controllers that run and are not freed, each once.
* `StageInv`: what each step of the set-up has brought about (`ConnectOf`) and of the teardown has taken away (`TeardownOf`). Receives posted or flushed are counted, so after the wait for the count none is there when the buffers go.
* `CountInv`, `ReleasedInv`, `HolderInv`, `QueuesInv`: the socket is destroyed once, the lists go with a controller that is then freed, while there are lists some controller is left to release them, I/O queues are numbered in order.
* `FailuresInv`: whatever is not whole has a failure to show for it, or another controller released the lists. This is `MemorySafe` before anything is touched; `StopExplained` goes from it to what a thread touches, kind by kind.
* `StatusInv`: a turn of `WaitForControllerReady` starts with "busy", so only what an answer stored can end it.

### Only model-checked

`EveryIoReturns`, `EveryCallSucceeds`, both `EveryCallReturns` and `TeardownEnds`: liveness under fairness is beyond the prover. The runs that expect a violation have nothing to prove.


## 10. Not modelled

* Admin queue: send-only and asynchronous requests (2381, 2391: no caller in `src/` makes them), the send callback and its polling request (502-559), arming, the registration's own wait (1158),
  the dispatch of events (621-699, never called), `NVMeoFRdmaAdminFlushAllQueue` (2559).
* I/O queue: synchronous requests on it (4470-4507, 4535-4767; the Fabrics connects of `SetupNvmeofIOQueues` are one step that succeeds or fails), arming of its completion queues, the ladder of allocations for its requests (2957-3611), again one step.
  The loop of that ladder over the requests compares its counter with the pointer to them (3329), so it does not end where the array does, and releasing a mapping first allocates a work request (942): how far it gets is not defined well enough to be told apart.
* NDK socket: listeners, shared receive queues and memory windows (530-690; no caller), the submit wrappers (1255-1650; no state; `NdkSubmitRequest` is the `Post` of `RdmaIoQueue`).
* Controller: reconnecting a controller that was torn down, `NVMeoFRdmaResetController` (5882, no caller), `WaitForControllerReady` with FALSE (no caller), several NUMA nodes, the contents of identify data, discovery entries and property values, the leaks of a discovery page
  (`nvmeof_cmd.c` 970) and of a request (4803). The initialised flag of the module (6231) is taken to be set.
* Queue selection (2873-2953): an increment, a mask and an index into `psNUMACtx`, which nothing in `src/` assigns, so there is no state to relate it to.
* `utils.c` (sequential look-ups, no state), `Sp.c` (stubs), `nvmeftcp.c` (empty), tracing, logging and build files.

## 11. Disagreements met

* `io_id_reuse`: an identifier is the counter modulo 65,536 (4465) and nobody asks whether it is in use. Line 4988 asserts that its table entry is empty.
* `io_stale_status`: RESPONSE_RECEIVED is set (3797) before the status it stands for is stored (5157). The send completion may win the join in
  between, and the I/O completes with what the status was before: that of the request's previous I/O, or none on a fresh request.
* `io_drain`: the drain (3675) waits for three counters, one of which is incremented after the submission it counts (5243).
  All three can be zero with a fast registration still on the send queue. (As the code stands the loop is entered for no I/O queue, section 7.)

# Verification project for the Winky driver overlay

TLA+ models, TLC runs and TLAPS proofs for the out-of-tree Haiku drivers in
`src/overlay/`: the graphics driver `intel_valleyview` with its asynchronous
render queue, the SD/eMMC driver `sdhci_embedded`, and the input, audio, GPIO
and bus drivers beside them. `PROJECT.json` is the machine-readable index
(components, runs, mutants, the map from definitions to source lines, findings,
hazards, theorems); this file is the text.

## Inventory

| Component | State it keeps | Operations | Hard part | What makes it correct |
|---|---|---|---|---|
| Render queue (`RenderQueue.cpp`, `RenderQueueCore.h`) | per client: FIFO of jobs, fence timeline, completion records, lost/failed marks, two semaphores, select pool; per device: client list, cursor, job count, worker | configure, enqueue commands, enqueue present, wait, dequeue, select/deselect, open, free, worker loop | worker, application threads and Free interleave; tokens of counting semaphores; failure cancels a FIFO; records are bounded and may fail to be allocated | fences retire once and in order; answers are true; nobody sleeps on a retired fence; no client is used after Free; counts are exact |
| Render memory (`Render.cpp`, `RenderMemoryCore.h`, `PpgttCore.h`) | buffers, page table, resident set, context | create, map, close, make resident, submit, context create/destroy | eviction while another buffer is being made resident; deferred close | resident set within its budget; a buffer in use is resident and not freed |
| RCS engine (`Gpu.cpp`, `RcsCore.h`) | forcewake, ring ownership, baseline, quarantine | claim, submit, release, recover | steps that time out half way; ownership across clients | one owner; after a release or quarantine nothing of the owner is left in the ring |
| Presentation (`P0.cpp`) | scanout, present worker, soft-blank | latch, present, blank, unblank, start/stop worker | polling under a lock, stop against wakeup | a stopped worker is gone; unblank restores what blank took away |
| SDHCI engine (`SdhciEngine.cpp`, `Transaction.h`, `Convergence.h`) | mailbox, transaction, latched interrupts, controller | submit, worker drive loop, ISR, recovery | lossy condition variable, late interrupts, retry after reset, stale completion token | each call gets the result of its own command; never a false success; every call returns |
| Removable media (`SdhciController.cpp`, `Disk.cpp`, `SdmaDisk.cpp`, `HotplugState.h`, `MediaStatus.h`) | online flag, ejected flag, epoch, one-shot media status | watcher, recover, eject, I/O | watcher against eject and failed transfer | a request reaches only the card it was made for; an eject holds; no card is reset under a request; every request is answered |
| EC keyboard (`cros_ec_keyboard/Driver.cpp`) | decoder flags, key ring, command mode, open count | ISR decode, read, command, bring-up, tear-down, reinit | byte protocol shared by commands and keys; ISR against reader | every scan sequence decodes to its key; a reset reinitialises |
| Bay Trail GPIO (`BayTrailController.cpp`) and GPIO bus (`GpioBus.cpp`) | pins, watches, pending bits, debounce deadlines; controller table | claim, configure, watch, stop, ISR, worker | lost edges, callbacks after stop | a callback runs only for a live watch, and an edge is not lost |
| IOSF bus (`iosf_mbi.cpp`) | the indirect register window | read, write | three registers used as one | no access mixes two requests |
| I2C wrapper, xHCI filter | none | delegation | none | - |
| Card identification (`SdCard.cpp`, `MmcCard.cpp`, `BusMode.h`) | width, timing, clock and voltage of card and host | identify, identify again, the ladder of modes, tuning, fallbacks | a step fails after the card has changed | card and host agree; no clock above what the card was told |
| Audio streams (`byt_max98090/Card.cpp`) | attach state, IPC exchange, stream state, buffer exchange | IPC send/receive, start, stop, exchange | refusals, silence, late replies; stop against exchange | card and DSP agree on what runs; no ring is freed under a running stream |
| Audio codec (`byt_max98090/Card.cpp`) | registers, mixer copy, jack state and watches | attach, detach, initialise, mixer, jack events | sequences of writes that fail half way; events against initialisation | the registers say what mixer and jack say |
| maXTouch (`MxtDevice.cpp`, `TouchEngine.cpp`) | event ring, contacts, worker | ISR, drain, decode, read, stop | lost wakeups, ring overflow, removal | the reported contacts are those on the panel; stop returns |
| Tools, tests, firmware, configuration | - | - | - | outside the models |

Interactions: applications enter the graphics driver through the ioctls of
`Device.cpp`; these put jobs into the render queue, whose worker calls into
`Render.cpp` and `Gpu.cpp` to execute them, and into `P0.cpp` to present. The
locks nest device, `renderLock`, `renderQueueLock`. The disks call
`SdhciEngine::Submit` through their card; the hot-plug watcher uses the same
engine from its own thread. The touch and audio drivers find their interrupt
pins through the GPIO bus, whose controllers are Bay Trail GPIO devices.

## Plan

The order follows the weight of the behaviour: first what loses work, hangs or
frees memory too early, then what shows wrong data.

1. Done, with proofs: `RenderQueueCore`, `RenderTimeline`, `RenderQueue`; then
   `SdhciPolicy` and `SdhciEngine`.
2. Done: `RemovableMedia` and `CardModes` above an SDHCI engine reduced to "the
   command fails or succeeds"; `RcsEngine`, `RenderContext`, `RenderResidency` and
   `Display`, the rest of the graphics driver; `AudioStream`, `AudioCodec`,
   `CrosEcKeyboard`, `TouchPad` and `BayTrailGpio`, the peripherals.
3. Done, the theorems: the invariants of the render queue and its refinement of
   `RenderTimeline`, the SDHCI engine, the removable media, contexts and the render
   engine, residency, the display, the audio streams and the codec, the keyboard, the
   touchpad and GPIO. Next: `BusInStep`.
4. Left: the end of the touch worker, the IOSF window, user mappings of render
   buffers, and pure parts against reference definitions (page-table layout, CSD
   decoding, staged requests).

Components that do not share state are checked in one run: the MC modules
`MCStorage`, `MCGraphics`, `MCProgress` and `MCPeripherals` hold one of them each in
a variable `device` chosen in the initial state, and the others rest. Such a run
checks each component as if it ran alone, and its size is the sum of theirs.
Functions that fail half way are operators from a record to the set of records they
may leave; `Outcomes` has their sequencing (`Then`, `Always`, `Rescue`).

## Render queue

### Modules

- `RenderQueueCore`: the pure functions of `RenderQueueCore.h` on the counters
  of one client (`next`, `started`, `retired`, `queued`, `running`).
- `RenderQueue`: the protocol of `RenderQueue.cpp` around them. It EXTENDS the
  core.
- `RenderTimeline`: the abstract specification, what an application is promised
  about fences.
- `MCRenderQueue`: owners of threads and the symmetry for TLC.
- `RenderQueue_proofs`: the theorems.

### State and steps

A *client* is an open of the device node, a *thread* an application thread in an
ioctl. Each critical section of `renderQueueLock` or of `renderLock` is one step.
The two loops that cancel a FIFO are the exception: one step for each job with
the lock held, which the guard `QueueLockFree` of the other sections shows. What
happens after the lock is dropped (posting the queue semaphore, releasing buffer
references, notifying selectors, waking Free) is a step of its own, because
other threads run in between. Counting semaphores are natural numbers and condition
waits are guarded steps.

| Code | Model |
|---|---|
| `RenderQueueWorker` | `AcquireQueueSem`, `SelectNothing`, `StartJob`, `ExecuteJob`, `CompleteJob` or `FailJob`, `CancelJob`, `CancelDone`, `DropCancelled`, `NotifyCompletion`, `FinishJob`, `WakeFree` |
| `EnqueueRenderCommands`, `EnqueueRenderDirectPresent` | the same names, `PostJob` |
| `WaitRenderQueueFence` | `WaitRenderQueueFence`, `AcquireCompletion`, `CheckAgain`, `GiveUp` |
| `DequeueRenderCompletion` | `DequeueRenderCompletion`, `DrainToken` |
| `ShutdownRenderQueueClient` | `BeginFree`, `CancelAtFree`, `CancelAtFreeDone`, `DropAtFree`, `AwaitIdle`, `UnlinkClient` |
| `ConfigureRenderQueue`, `SelectRenderQueue`, `DeselectRenderQueue`, `ShutdownRenderQueue` | the same names |
| `CreateRenderBuffer`, `CloseRenderBuffer`, `ReleaseRenderQueueReferences` | the same names, the part that concerns queued jobs |

The execution of a job is a choice between success and failure, and the request
that makes the next job fail on purpose is modelled too. `outcome` and `epoch`
are history: how a fence really ended, and where the timeline stood at the last
configure. Left out: statistics, the content of commands, interrupted waits of
the application (`B_INTERRUPTED` returns without a change of state, as the
timeout does), and initialisation failures.

### Runs

| Run | Bounds | What it shows |
|---|---|---|
| `RenderQueueSafety` | 2 clients with a thread and a buffer each, 2 fences per client, 3 jobs on the device, symmetric clients | the inductive invariant, that no job is left without a wake-up, that the count of the device is exact, and that the queue implements `RenderTimeline` |
| `RenderQueuePresent` | 1 client, 2 streams, 4 jobs, READ and ERROR selectors | only superseded presents are dropped; no event is missed between the check of select() and the worker's notification |
| `RenderQueueAnswers` | 1 client, 3 fences, 1 record kept; one thread waits and dequeues, a second one enqueues and reconfigures | since the last configure every answer is how the fence ended; after a failure everything behind it is cancelled; a wait ends once its fence is retired, whether its record is there or not |
| `GraphicsProgress` (queue) | 2 clients, 2 fences each, fair worker, records may fail to be allocated | every job of an open client retires, and Free returns |
| `RenderQueueStolenWakeup` | 2 threads of 1 client | violation, finding 1 |
| `RenderQueueForgottenFailure` | 1 thread | violation, finding 2 |

The thread that waits is alone in looking for completions in `RenderQueueAnswers`:
with a second one `WaitersWake` fails, which is finding 1. A record that cannot be
allocated releases no token either, so that run always allocates; for the answers
a record that was pruned is the same as one that never was.

`LastFence` stands for `UINT64_MAX`, so the runs reach the end of the fence space,
where the code refuses to queue. The limits of 32 jobs per client, 128 per
device and 64 records are 2 to 4, 1 to 4 and 1: each limit is
reached with the other below it and the other way round, and a record is pruned
while another is kept. Two clients are enough for the cursor to wrap
and for one client to take the room of the other; with a third the runs
leave the time they may take. Three jobs are enough for one that
runs, one that is superseded or cancelled, and one behind it. The symmetry
swaps the clients together with their threads; the run with it has no
liveness property.

Fairness: the worker is a kernel thread of real-time priority and never waits
under a condition other than its semaphore, so its steps are weakly fair, and so
are the steps of a thread inside an ioctl or inside Free. Applications owe
nothing: no fairness on the calls that begin an ioctl, on Open or on Free, nor
on `GiveUp`, the timeout of a wait, which is optional because a wait may be
infinite.

### Findings

1. *Stolen wakeup.* Each completion releases `completionSem` once, and all
   waiters of the client share it. A waiter whose fence is still pending may
   take the token and sleep again; the thread whose fence is retired then sleeps
   with no timeout until another completion comes by.
2. *Forgotten failure.* `ConfigureRenderQueue` clears `lastFailedFence`. A
   fence that failed before, and whose record is no longer there, is then
   answered as complete. Within an epoch the answers are true
   (`AnswersAreTrueSinceConfigure`).

A remark that no run shows, *missed capacity*: the device-wide limit makes WRITE
unavailable to every client (`RenderQueue.cpp:941`), but the worker announces room
only to the client it popped a job from (`:209`). With room for one job on the
device, client 1 queues it and client 2 selects WRITE; when the worker takes the
job nobody tells client 2, although the design document says that "`B_SELECT_WRITE`
means queue capacity is available" (`intel_valleyview_render.md:52`).

### Proofs

`RenderQueue_proofs` proves, for every number of clients, threads, buffers,
fences and every limit that satisfies `QueueLimits` and `QueueConstants`:

| Theorem | States |
|---|---|
| `Invariance` | `Spec => []IInv` |
| `TypeCorrect`, `TimelineCorrect`, `RetirementCorrect`, `LifetimeCorrect` | `TypeOK`, `TimelineContiguous`, `RetiredMeansResolved`, `NoUseAfterFree` |
| `FailureCorrect`, `OutcomeCorrect` | `FailureIsTerminal`, `OutcomeIsFinal` |
| `RefinementCorrect` | `ImplementsTimeline`: every step of the queue is a step of `RenderTimeline` or a stutter |
| `AnswersCorrect` | `AnswersAreTrueSinceConfigure` |
| `PresentsCorrect` | `OnlySupersededPresentsDrop` |
| `EventsCorrect` | `NoMissedCompletionEvent`, if every record is allocated |
| `DeviceCountCorrect` | `DeviceCountExact` |
| `RoundRobinCorrect` | `RoundRobin` |
| `WakeupsCorrect` | `NoLostWork` |

None of the safety properties is inductive. That the fences of a FIFO are
consecutive is preserved by a step of the worker only if the job it holds is the
one the counters say is running (`TimelineInv`), which holds only if the worker
is the only one with an active job and `activeJob` says so (`WorkerInv`);
that the worker never meets a freed client needs Free to wait exactly
when a job is active and to receive exactly one token for it (`CloseInv`), the
lists to be empty at the right moments (`ListsInv`), one holder of the lock at a
time (`LockInv`), and a client list without duplicates (`ListedInv`). `IInv` is their
conjunction, and `RenderQueueSafety` checks it as an invariant as well. The
proof has one lemma per action and conjunct group: type lemmas first, then
the lemmas named `...Inv` for the rest, then `Invariance` combines them.

The other theorems add to `IInv` what each of them needs. How a fence ended
follows from what was issued and when a client is lost (`EndInv`); an answer is
true because the records are, until the next configure (`AnswerInv`). In a FIFO
a job is dropped exactly if it is a present with a later one of its stream behind it
(`PresentInv`). An event
that holds and is armed belongs to a notification the worker still owes
(`EventInv`): a record that could not be allocated makes an event nobody announces,
which is why `EventsCorrect` assumes `RecordAllocated = {TRUE}`, as its run does.
The count of the device is the sum over the clients of what is queued
(`CountInv`, with lemmas on the cardinality of the set of queue slots), and the tokens of the
queue semaphore, the worker's look and the posts still to come cover the queued jobs
(`TokenInv`).

Only model-checked: `WaitersWake`, which needs what a thread asleep is owed in
every one of its states, and liveness, which the prover does not reach.

## SDHCI command engine

### Modules

- `SdhciPolicy`: the pure part, `Command.h` and `Convergence.h`: retries and
  policy of a command (`Constraints`), the meaning of the interrupt bits
  accumulated so far (`ClassifyPoll`), what to do after an attempt
  (`DecideRetry`). A command stands for its class: "plain" for everything the
  policy does not treat, "empty" for a data command without blocks.
- `SdhciEngine`: `SdhciEngine.cpp` and `Transaction.h`.
- `MCSdhciEngine`: the symmetry of the callers, for the run with a violation;
  the others are of `MCStorage`, below.
- `SdhciEngine_proofs`: the theorems.

### State and steps

| Code | Model |
|---|---|
| `_Submit` | `Submit` (bus lock, ticket), `DrainTokens`, `PostTicket`, `AwaitDone`, `AcquireCompletion` |
| `_WorkerLoop`, `_ServiceOnce` | `Claim`, `StormSafeIdleClear`, `Continue` (the stop flag, before and after `_ServiceOnce`), `Arm`, `CheckMailbox`, `WakeUp`, `SignalCompletion`, `ReleaseTicket` |
| `_DriveTransaction`, `_IssueToHardware` | `AwaitInhibit`, `DrainInterrupts`, `ReadBack`, `Send`, `Look`, `WaitEnds`, `Settle`, `WaitForR1bBusy`, `Decide` |
| `RecoverBus` | `TerminateBus`, `RestoreAfterReset`, on the thread of a caller and without the bus lock, as in the code |
| `HandleInterruptMeow` | the same name |
| `Uninit` | the same name: sets the stop flag and pulses; waiting for the thread is part of the property `EveryCallReturns` |

`entry` is the worker's entry on the condition variable: a pulse without an armed
entry is lost, which is what the arm-then-check order of the code is about. A
ticket keeps its reference count, so "freed while in use" is a statement about
`ticket[n].refs`. The controller is external: command and data line, the
transfer in progress, latched status bits, power. It answers late, in
error, or never. Each latched bit carries the number of the ticket it belongs to;
the driver cannot see it, the properties can. A bounded poll may give up at any
look, and a deadline has certainly passed after `MaxLooks`.

Left out: the all-ones status word of an absent controller, the registers and
descriptors of a transfer, the failure to allocate a
ticket, and Init. Clock, bus width and signal voltage are in `CardModes`. `MaxTickets`
bounds the commands of a run, `Recoveries` the recoveries.

### Runs

| Run | Bounds | What it shows |
|---|---|---|
| `StorageSafety` (engine) | 2 callers, 2 tickets of {plain, read}, 1 recovery at any step | the inductive invariant: the mailbox is empty at every post although the worker may still hold the last ticket, and reference counts are exact; no DMA is live once its caller has the answer |
| `StorageCommands` (engine) | 1 caller, 2 tickets of {plain, opCond, select, read, write, tuning, empty}, 2 looks, 2 drain passes | success is never false over retries and line resets; a write reaches the card at most once |
| `StorageLiveness` (engine) | 2 callers, 1 ticket of {plain, switch}, 1 recovery, fair engine | every call returns and the worker leaves, and the interrupt line falls |
| `SdhciEngineStaleCompletion` | 2 callers, {plain, switch}, no recovery | violation, finding 3 |

"appCmd" differs from "opCond" only in what it validates and is left out of the runs.
Two tickets are what a stale bit or token needs: one command it comes from and one
it could be taken for. One drain pass and one look are the hardest case for the
drain, two of each let a pass fail and succeed. The reset bits may fail to clear
(`ResetOutcome`), so every reset path is taken.

Fairness: the worker and a caller inside `_Submit` or a recovery keep running,
because none of them waits without a bound except for a pulse or a token; the
interrupt controller delivers a level-triggered line that stays asserted. The card
owes nothing: `EveryCallReturns` holds with a card that never answers.

### Finding

3. *Stale completion.* A command with a busy reply and no data, whose busy wait
   runs out, is failed without a reset of the lines. Its Transfer Complete may
   latch at any later moment; after the drain and the readback of the next command,
   which needs the command line only, the first look takes it as that command's
   success. Two concurrent cache flushes are enough: the one that polls the card
   with a status command while the other's switch has just failed.

Two remarks that no run shows. The design document calls the worker the only one
that mutates the registers, but `RecoverBus` does so on the threads of the watcher
and of re-identification; `StorageSafety` and `StorageLiveness` show that
its callers' calls still return and that their data commands are still safe.
With a busy reply a recovery at the wrong moment also gives a false success, since
`_WaitForR1bBusy` then finds the line free; this is why the runs with
recoveries and `NoFalseSuccess` use commands without one. And a comment
in `Convergence.h:251` says that a busy controller is recovered with a full bus
reset, where the code resets the lines or fails.

### Proofs

`SdhciEngine_proofs` proves, for any callers, any set of commands and any values of
the bounds that satisfy `EngineConstants`:

| Theorem | States |
|---|---|
| `Invariance` | `Spec => []IInv` |
| `TypeCorrect` | `TypeOK` |
| `MailboxCorrect` | `MailboxEmptyAtPost` |
| `TicketsCorrect` | `TicketsCounted` |
| `WritesCorrect` | `WritesSentOnce` |
| `DmaOutlivedCorrect` | `DmaOutlived` |
| `SuccessCorrect` | `NoFalseSuccess`, for commands without a busy reply |

None of these is inductive alone. That the mailbox is empty at a post
follows from where the last ticket is: its caller leaves only when it is done
(`TicketInv`), and a ticket that is in the mailbox or driven is not done
(`MailboxInv`, `DriveInv`). So when the bus lock is free nothing is in the mailbox
and nothing is driven; the worker may only be between `MarkDone` and `Release`
of an older ticket. Reference counts follow from the same picture: a ticket has at
most one caller (`BusLockInv`) and at most one of mailbox and worker. A write has
one attempt, and before its `Send` it was never sent (`WriteInv`). `IInv` is the
conjunction of these; `StorageSafety` checks it.

The proof has a frame lemma (`FrameInv`) for the steps that only move the worker
between the points at which it drives its ticket, and one lemma for each step that
creates, posts, answers, claims, sends, decides or releases. `AttemptLocals`
bounds the drain passes, on which `NextType` depends.

`DmaInv` says when the controller may move data: only for the ticket that is
driven, and no longer once the end of its transfer has latched or an attempt was
accepted; the drain and the readback before `Send` leave nothing on the data line.
`EvidenceInv` says what a latched bit proves after a `Send`. It holds only if no answer leaves
the data line busy, since the late Transfer Complete of finding 3 is evidence of
something else; `SuccessCorrect` therefore assumes that "switch" and "stop" are not among
the commands.

Only model-checked: the two liveness properties.

## Removable media

### Module

`RemovableMedia` models the removable SD slot: `SdhciController.cpp` (the watcher,
`RecoverCard`, `EjectMedia`, the destructor), `HotplugState.h`, `MediaStatus.h`, the
status and eject ioctls of `sdhci_embedded.cpp`, and `SdmaDisk.cpp` (requests, their
queue and their thread). It does not compose with `SdhciEngine`: of a command only
its result matters here, and every combination of results is allowed.

### State and steps

Six actors interleave: the watcher thread, a thread in `EjectMedia`, a thread in
`B_GET_MEDIA_STATUS`, the callers of `DoIO`, the request thread, and the
destructor. A step is what runs between two accesses to shared state: one atomic
operation, one critical section, one command to the card. So the state and the
pending flag of a change are written in two steps, as `SetOnline` does, and
the watcher reads the slot and the online flag in two steps before it decides.

| Code | Model |
|---|---|
| `_WatcherLoop` | `PollSlot`, `PollOnline`, `HandleAction`, `SetOnlineAgain`, `NextPass` |
| `HotplugState::Observe` | `ObservePresent`; `ObserveAbsent` and then `Rearm`, its `CancelEject` |
| `RecoverCard` | `RecoverCard`, `RecoverLockMedia`, `Identified` or `NotIdentified`, `RecoverSetOnline`, `RecoverUnlock` |
| `EjectMedia` | `EjectMedia`, `MarkEjected`, `EjectSetOffline`, `EjectLockMedia`, then `PowerOff`, or `CancelEject` and `ResumeCard`, `ResumeSetOnline`; `EjectUnlock` |
| `SetOnline(true)`, second half | `WatcherAnnounce`, `ResumeAnnounce` |
| `B_GET_MEDIA_STATUS` | `TakeChange`, `AnswerStatus` or `AnswerLost`, `RestoreChange`, `RestoreAnnounce` |
| `DoIO` | `RefuseIO`, `DoIO`, `EnqueueRequest`, `PostRequest` |
| `_RequestThread`, `_RunRequest`, `_TransferStaging` | `TakeRequest`, `LockRequestMedia`, `NextChunk`, `TransferStaging`, `TransferFault`, `FillStaging`, `SettleChunk`, `NotifyRequest` |
| destructor, `_StopRequestThread` | `StopWatcher`, `StopRequests`, `CancelQueued` |
| the slot | `InsertCard`, `RemoveCard`, external |

`media.state` is the 32-bit word of the code, generation and online bit; its
wrap-around after 2^31 changes is ignored. Cards are numbered, which the driver
cannot see: `slot.known` is the card `fCard` was identified from, and
`request[r].touched` the cards on which a request moved data. Only the watcher calls
`RecoverCard` here; the other caller, `Disk::_RunOperation`, serves disks without a
request thread of their own.

### Runs

| Run | Bounds | What it shows |
|---|---|---|
| `StorageCommands` (media) | 1 request of up to 2 chunks, 2 cards, 1 eject, status polls | a request moves data only on its own card; a change is not lost; an eject that began while the watcher slept holds; no reset or power-off under a request |
| `StorageLiveness` (media) | 1 request of 1 chunk, 2 cards, 1 eject, fair threads | requests are answered, the destructor returns, and the disk follows the card: an empty slot goes offline, a card that was not ejected comes online |

Two cards are one to be identified and one to replace it, and the first can be
identified many times. The request thread serves one request at a time and nothing
is carried from one to the next, so one request meets every phase of the
others; two chunks give it a point between transfers. The stop flag, the
queue and the token are raced by the destructor with the request queued, posted or in
progress. `FlushFails` includes the branch of a failed flush, which `SdCard` never
takes because it inherits the empty `Card::Flush`.

Fairness: the threads and the calls that are inside the driver keep running, and
they wait for nothing but a mutex whose holder is itself one of them; a card that
is identified again and again eventually answers (`SF_vars(Identified)`), without
which nothing could promise that it comes online. Nobody owes a call, a card
or its removal.

### Remarks

- *Undone eject.* The watcher's second `SetOnline(true)`, at
  `SdhciController.cpp:476`, comes after `RecoverCard` has dropped `fRecoveryLock`. An
  eject in between latches, takes the disk offline and powers the slot off; the
  watcher then sets it online, with no card that answers and the eject latch set.
  The design document says that an eject "suppresses watcher recovery until physical
  removal rearms it" (`sdhci_embedded.md:232`). This is why `EjectHolds` speaks of
  ejects that begin while the watcher sleeps; without that condition TLC finds
  this behaviour.
- *Undone failure.* A transfer that fails in the same gap is undone in the same way:
  the disk is online again without another identification.
- *Swap between two polls.* A card replaced within the 500 ms of the watcher's
  sleep is noticed only by the first transfer that fails. `NoStaleIo` holds
  nevertheless, because a card that was not identified does not answer.
- `CancelQueued` finds nothing to cancel once the thread has run: the thread leaves
  only when the list is empty, and `DoIO` queues nothing after the stop flag.

### Proofs

`RemovableMedia_proofs` proves `MediaTypeCorrect`, `QuiescedCorrect`,
`NoStaleIoCorrect`, `EjectHoldsCorrect` and `ChangeNotLostCorrect`, for any number of
requests, cards, ejects and chunks, with `MediaConstants` (the types of the
constants) as the only assumption.

`Quiesced` and `NoStaleIo` rest on the two locks: who holds `fRecoveryLock` and
`fMediaIoLock` is told by where watcher, ejector and request thread are (`LocksHeld`), so that
the disk is offline while the slot is being changed (`OfflineMeanwhile`) and a chunk is
moved only between identifications, on the card last identified (`ChunkOfKnownCard`).
`EjectHolds` needs what an eject has done at each of its stages (`EjectStages`). A change
that was not reported is one of a disk that is online (`ReportInv`). The liveness
properties of `StorageLiveness` stay with TLC.

## Card identification

`CardModes` models `SdCard.cpp`, `MmcCard.cpp`, `BusMode.h`, the clock, width, timing,
voltage and tuning functions of `SdhciEngine.cpp`, and who calls them: Boot, the
watcher's recovery and the retry of the ADMA2 disk. One thread identifies and the
engine executes one command at a time, so an identification is one step: an operator
from a `bus` record (card, host controller, the driver's fields) to the set of records
it may leave, built from the commands with `Then` and its companions of `Outcomes`.
`IdentifySd` and `IdentifyMmc` are the two scripts, `TryMode`, `TryHighSpeed`, `TryHs200`
and `TryDdr52` the rungs of the ladders, `SlowDown` and `FallBack` what goes before and
after a rung. The card is external: it executes a command in the state the
specification of cards wants, and changes when it does.

`CardFault` says what may go wrong: a command that changes the card is refused, one
that changes nothing is not answered, tuning finds no point, the voltage does not
follow, the clock does not become stable. `over` records that a command was sent at a
clock above the timing of the card. `StorageSafety` (card) checks `BusInStep` with three
SD cards (first version, high speed, every UHS mode), three eMMC (the first high
speed, all modes, HS200 alone) and a host that knows every mode.

Two kinds of fault are not in the run because the code does not stand them:

- "reset", a line reset that hangs. The engine then takes power from the card, and
  "Card protocol state is intentionally not restored: callers must start
  identification again" (`SdhciEngine.cpp:1007`); but `SdCard::Identify` (188-191) and
  the `continue` of its ladders go on and answer OK for a card that is idle. Without
  "refused" beside it `BusInStep` holds.
- "lost", a command the card executed whose answer did not arrive: a lost answer to
  ACMD6 leaves card and host at different widths.

After a card at 1.8 V the rail of the board is not switched back by `Reidentify`, only
by the fallback of the voltage switch; the rail is not in the model. eMMC whose
baseline fails after the card has switched stays at high-speed timing under a
slower clock, which `Agreed` allows.

## Contexts and the render engine

### Modules

- `RcsEngine`: the RCS and BCS engines as `Gpu.cpp` drives them. Its functions hold
  `bcsLock` from the first register access to the last, so each is an operator from an
  engine record to the set of records it may leave.
- `RenderContext`: who calls them: contexts of clients, the render worker, synchronous
  submissions, the release of a client, diagnostics and copies.

The engine record has what the registers name (`ring`, `live`), the wake request and
forcewake with their acknowledgements, the render settings, and the driver's record of
them: owner, baseline, fault, quarantine. Memory that is freed while the registers name
it becomes "freed" there. Each wait, write, reset and mapping may fail when `GpuFault`
says so, and what was written stays written.

| Code | Model |
|---|---|
| `ExecuteRcsSubmission`, `ExecuteRcsDiagnostic` | the same names, `Transient` |
| `ExecutePersistentRcsSubmission` | the same name: `ClaimRing`, power, switch, execution, `Marked` |
| `RestoreRcsSubmissionRing`, `ReleasePersistentPowerLocked`, the return of power | the same names, `ReturnPower` |
| `CreateRenderContext`, `DestroyRenderContext`, `DestroyPpgttContextLocked` | the same names |
| `SubmitRenderCommands` from a caller and from the worker | `SyncBegins`, `WorkerTakes`, `SubmitRenderCommands`, `WorkerRetires` |
| the release of a client | `ReleaseClient` |

`device.lock` covers a call but for its sections, so a section is one step; a
submission has two, because the copies of the present worker take `bcsLock` only.

### Runs

`Graphics` (context): 2 clients with a thread each, and forcewake, writes, the
completion and page tables that fail, beside diagnostics and copies. Nothing the
registers name is freed (`ReferencedIsKept`), an engine without owner and fault is as
the firmware left it (`RestIsBaseline`), and a client to which the driver thinks it can
switch back has an image to load (`CurrentHasImage`). Two clients are an owner and one
that takes over; the owner's context is destroyed by its thread or by its release
while the other's job waits.

### Remarks

- With the faults "reset" and "restore", a reset or a restoring write that fails,
  `ReferencedIsKept` does not hold: the record of the owner is cleared although the
  registers keep naming its memory. Nor does it with two threads of one client, of
  which one destroys the context between the sections of the other's submission.
- `ActiveImageKept` (no run): `Render.cpp` says of the image of the active context
  "Keep its saved bytes intact until ownership is released or reset", and a submission
  that fails clears it; TLC refutes the property.
- `EngineLoss`, an engine that loses its registers at rest, makes `CurrentHasImage` fail.
- A failed release of forcewake on the transient and the copy path is not recorded;
  the self-test while another client owns forcewake answers busy and marks the engine
  as not ready for all.

### Proofs

`RenderContext_proofs` proves the three invariants, for any number of clients. Each is
proved under the hypothesis without which it is false (Remarks):

| Theorem | States | Under |
|---|---|---|
| `RestTheorem` | `RestIsBaseline` | a forcewake is released when asked ("release" is not a fault) |
| `ImageTheorem` | `CurrentHasImage` | the engine keeps its registers at rest |
| `RingTheorem` | `ReferencedIsKept` | resets and restoring writes succeed; each client has one thread |

The engine functions are sets of records, so the first part of the module has a lemma for
each of them: what it keeps and what it leaves of power (`PowerRest`), ring and settings.
`EngineInv` then says what state the engine is in while a worker or a caller is between its
sections. `ImageInv` adds that the driver counts on no client whose context is gone, and
`RingInv` adds that a client whose memory is named is neither destroyed nor being so
(`RingKept`, `Stages`).

## Residency of buffers

`RenderResidency` models the buffers of one client: which are wired (`resident`, `lru`,
`bytes`), which the page tables and the global table name, who refers to them, and what
is quarantined. Page tables are sets of buffers. Calls hold `device.lock` and
`renderLock`; enqueueing takes `renderLock` only and runs while a submission executes
with it released, so the submission is two steps and a queued job three.

| Code | Model |
|---|---|
| `EnsureClientResidentBudget`, `EvictRenderBuffer`, `CanEvictRenderBuffer` | the same names; `MakeRenderBufferResident` |
| `CreateRenderBuffer`, `CloseRenderBuffer`, `SetRenderBufferDomain`, `ReleaseRenderBufferBacking` | the same names |
| `CreatePpgttContext`, `DestroyPpgttContext`, `QuarantinePpgtt` | the same names |
| enqueueing, the worker, a synchronous submission | `EnqueueRenderCommands`, `EnqueueRenderPresent`, `JobTaken`, `WorkerSubmits`, `JobRetires`, `SubmitSynchronously`, `SynchronousEnds` |
| `RunRenderMemoryTest`, the release of a client | the same name, `DestroyRenderClient` |

`Graphics` (residency): 3 buffers of one unit with a budget of 2, one queued job, and
wiring, unwiring, deleting, table writes and the engine that fail. `NamedIsWired`:
nothing a table names is unwired or freed. `QueuedObjectsReady`: the objects of a job
stay open, wired and named until it retires. Three buffers over two places are the
least in which one is evicted for another while the third is held by a job.

Remarks: making room answers busy when the oldest candidate is not mapped, though
another could be evicted; after a context is destroyed its evicted buffers cannot be
used again; `RunRenderMemoryTest` may evict its own source. `WithinBudget` is defined and
holds in the same instance; no run lists it. Mappings of a buffer into user space
are not modelled.

### Proofs

`RenderResidency_proofs` proves `ResidencyInvariant`, and from it `NamedIsWired` and
`QueuedObjectsReady`, for any buffers, sizes, budget and queue length and every set of
kernel calls and table writes that may fail (`MemoryFault`). The two invariants are not
inductive: a table may name a page only as long as somebody knows that it does, and a
job keeps its objects only by what the driver counts. `ResidencyInv` says both:

| Part | States |
|---|---|
| `RecordsInv` | jobs in the queue, in the worker and in the engine are jobs |
| `MemoryInv` | what the tables name is wired (`Accounted`), and named for a known reason: a mapping, a binding or a quarantine; while the device is usable nothing is quarantined and every resident mapping is in the tables (`Trusted`); only buffers of the client are mapped or bound (`Inside`) |
| `JobsInv` | the references of a buffer count the jobs that use it (`Counts`); what is referred to exists and is wired (`HeldReady`); what commands use is mapped (`CommandsMapped`); the objects of the submission that runs are kept by their domain, because a synchronous one holds no reference (`RunReady`) |

Quarantine is the reason for `Usable` in these parts: from the first failure that leaves
an entry in doubt the device refuses work, and what it keeps is only what may still be
named.

The calls are sets of records, so the first part of the module has one lemma for each
function, saying that its result is in `Sound` and what it leaves as it was (`EvictKeeps`,
`LeavesOthers`, `Released`). Evicting for room, clearing the mappings of a context,
releasing the buffers of a client and taking the objects of a job go through several
buffers with `FoldLeft`, which the library defines by a recursive function. The module
shows that this function exists when the step stays within a set (`FoldExists`), that the
fold is what remains after one step per element (`EvictAllSound`, `ClearAllRuns`,
`ReleaseAllRuns`, `QueueAllRuns`, `TakeAllRuns`), and carries an assertion along it
(`RunsInvariant`). `Carries` is what every call owes the jobs: no reference is lost, and
what is referred to stays open and, on a usable device, wired and mapped.

## Display

`Display` models `P0.cpp` and what `Driver.cpp` and `Device.cpp` do with it: taking the
pipe from the firmware, the present worker with its two surfaces, blanking, DPMS,
brightness and cursor, and giving the pipe back. Registers are double buffered: what
is written is armed, and the step `VerticalBlank` makes it live. The threads that enter
through `device.lock` are one caller (`holder`), the present worker another
(`presenter`); `presentLock` is held from copying to arming.

| Code | Model |
|---|---|
| `InitializeP0`, `TakeNativeScanout`, `RestoreP0Ptes` | `InitializeP0`: memory, `TakeNativeScanout`, `ScanoutTaken` or `ScanoutRefused`, `RollBack` |
| `PresentWorker` | `PresenterLooks`, `PresenterArms`, `PresenterWakes` |
| `BlankDisplay`, `UnblankDisplay`, `SetDpms`, brightness, cursor | `BlankDisplay`, `UnblankDisplay` in three steps, `DpmsUnchanged`, `SetBrightness`, `ShowCursor` |
| `StopPresentWorker`, `ShutdownP0` | the same names |

`GraphicsProgress` (display): a vertical blank may come late for every wait, copies,
table writes, memory, the copy engine and the start of the worker may fail.
`DrawnIsNotShown`: nobody draws to a surface that is live or armed. `FreedIsDetached`:
memory is freed only when the hardware has let go of it. `DarkUntilShown`: light only over
a live surface of the driver's own. `FramesGoOn` and `ShutdownEnds`: no wake-up is lost,
and a shutdown ends. Two tokens of the wake-up semaphore (`WakeLimit`) are one left over
and one that counts.

Fairness: the worker is a kernel thread and vertical blanks keep coming. A shutdown
goes on, and gets `presentLock` although the worker takes it at every turn (strong
fairness: a mutex is handed to the thread that waits). No caller owes a call.

Proofs: `Display_proofs` proves the type invariant and the three safety invariants for
every `DisplayFault`, from `DisplayInv`: which stages the pipe belongs to the driver in
(`PipeOwned`), what is armed at each stage (`PlaneInv`), that what is armed is live or
waited for while frames are presented (`WorkerInv`), what the hardware has let go of at
each stage of a shutdown (`DetachInv`), and that the light is out while the plane is off
(`LightInv`). The two liveness properties stay with TLC.

Remarks: `SetDpms(OFF)` after a latch that timed out answers OK without another look
at whether the plane let go; a worker that stopped after a failed copy stays
so until the next blank and unblank, while `SetDpms(ON)` answers OK; the branch
"lost live scanout" cannot be reached.

## Peripherals

The five modules share the run `Peripherals`, one of them at a time.

### AudioStream

The playback and capture streams of `Card.cpp`: the mailbox (`IpcReady`, `IpcWait`,
`IpcGiveUp`), the exchange of buffers (`LockStreams`, `SetupStep`, `SetupReturned`,
`ExchangePoll`), stopping (`StopStream`, `StopReturned`, `Finish`), `MakeRings`, open, close,
attach and detach. A call that holds `fStreamLock` is one sequence of commands, so one
variable is the command in progress. The DSP is external: it takes a command,
executes or refuses it, and replies, or the host gives up after its deadline and the
reply never comes. Bounds: one thread with the device open, three names of rings, one
reply owed. `AudioStreamsAgree`: a stream the card calls running runs on the DSP, and the
DSP moves samples only through a ring that is still allocated.

`Audio_proofs` proves it (`StreamsAgree`) for any number of threads, any names of
rings and any number of replies owed, with a DSP that answers in time or never and
sends no malformed event (`DspFault = {}`); otherwise it is false, as the remarks say.
The invariant says where the command in progress stands between the card, the mailbox and
the DSP (`MailInv`), that one thread at a time has `fStreamLock` (`PlaceInv`), and how a
stream's state follows from the command in progress (`StreamInv`). `Detached` is the state
in which `_UnmapLpe` has forgotten streams whose rings the DSP may still have.
`AudioAssumption` only separates the names of threads from the value for none.

Remarks: with replies that come late, or events of impossible size (`DspFault`), the
property does not hold: all messages carry the same driver id (`Ipc.h:16`), so the late
reply to one message answers the next. `StopReleasesAll` (no run)
states that a stop without an error leaves no ring and no stream, as the design
document has it, and TLC refutes it. Two threads that create buffers together lose one
ring.

### AudioCodec

The registers of the MAX98090, the mixer's copy of them, and the jack. Three callers
(attaching the LPE, attaching the codec, opening) bring it up, the GPIO worker applies a
switch of the jack. `fCodecLock` is held through a sequence of writes, so one step writes
all of it or what comes before the write that is refused. `CodecAgrees`: registers, mixer
and jack state agree but for what a failed call left (`dirty`), the speakers' equalizer
never colours the headphones, the jack's state follows its lines, and a codec that is
gone has no watches. `jack.missed` marks the switches that the code overwrites, the first
two remarks. Bounds of the run: one switch of the jack, one fault, four attachments or
detachments, one mixer call, and writes refused at once or after five. Larger ones passed
as well: two switches with every fault (2.4 million states), and, without a bound on
switches and attachments, without faults, with and without the mixer (3.6 and 0.2
million).

`Audio_proofs` proves `CodecAgrees` as well (`RegistersMixerAndJackAgree`), for every
value of the constants that `CodecAssumption` allows: any gains, any number of mixer
calls, any bounds on faults, switches and attachments, with or without a tuning of the
speakers. The invariant (`CodecInv`) says what the registers say of the mixer and the jack
(`RegistersInv`), who holds `fJackLock` (`LockInv`), and for the handler of the jack what
it has read and what it has applied (`HandlerInv`, `ReadInv`, `AppliedInv`), so that a jack
at rest follows its lines. A sequence of writes may end before any of them; each is
therefore cut into pieces (`SpeakerPiece`, `TuningPiece`, ...), and of each piece a lemma
says that every prefix keeps what the registers have to say.

Remarks:

- `_InitializeJackDetection` reads the jack before its watches are armed; an event in
  between is overwritten by the older reading.
- The handler of one line takes a snapshot of the other before it takes the lock; it
  can apply a state older than the one that initialisation applies.
- After a switch of the jack that failed half way, an unplugged headphone finds the
  recorded state equal and returns early: the registers stay half switched.
- A codec that is initialised again, after the LPE was detached and attached, forgets
  the headphones although jack detection still holds, and unmutes the speakers
  whatever the mixer says.
- Concurrent `_SetMix` calls lose updates. `DetachCodec` clears `fI2c` under another lock
  than its readers take.

### CrosEcKeyboard

Keyboard, interrupt, decoder, ring, readers, commands, open and close of
`Driver.cpp`. Bytes are the real ones, because the protocol is about their values:
prefixes, the six key-up codes that look like protocol bytes, answers, Pause. `KeysAgree`:
as long as no byte of a key was dropped, what was reported once the buffer is empty is
what is held. Keys 42 (left shift, whose release looks like an answer) and 157 (right
control, with a prefix); answers that come late, spontaneous resets and Pause;
typing and commands end with the first byte dropped, a bound. With the fault
"resend" instead of "late" it passes as well (1.6 million states with two tokens).

`Input_proofs` proves `KeysAgree` (`KeysAgreeCorrect`) for any openers, any limits and any
keys that are `Clear`: the release of a plain key is no byte of the protocol or in the
driver's list, and that of a key with a prefix is none. The invariant (`KeyboardInv`) looks
at the whole buffer: the bytes that still wait, read one after the other (`Path`), lead
from what the decoder knows and has reported to what is held. A key appends to the path, the interrupt takes its first
step, and an empty buffer is an empty path. Without `Clear` the theorem is false, as
the first two remarks show.

Remarks:

- `ReleaseIsNoAnswer` (no run) states what the header says of its list of codes ("These
  make codes, when released (bit 7 set), equal a protocol byte", `Driver.h:167`). The two
  for FA and FE are wrong: 5A | 80 is DA and 5E | 80 is DE, the keys are 7A and 7E. With
  `Key = {126}` TLC refutes it: the release of 7E, the keypad comma of some keyboards, is
  taken for a stray Resend (`Driver.cpp:414`) and the key stays down.
- E0 AA is taken for a reset, and E0 FA or E0 FE leave the prefix pending. Pause never
  completes: the state after E1 has no way to its last byte. Right Alt is not tracked as
  a collision. A command in flight takes scan bytes for answers.
- `ResetRecovered` (no run) states what the design document says, "A spontaneous
  keyboard reset disables decoding and schedules reinitialization from reader context"
  (`cros_ec_keyboard.md`): the reader that sleeps is not woken and never does it, and
  the byte AA without a key held before is ignored.
- A second open returns before the device is up, and a close while the reader
  initialises it again leaves it armed with nobody there. A reader asleep is not
  woken by a close, and events of before a close are read after the next open.

### TouchPad

The touchpad with its message queue, the worker's drain, `TouchEngine` and the ring the
input server reads. A position is abstracted to the contact it comes from.
`NothingStuck`: once the pad is drained and the ring is read, the last event reports no
button and no finger that is not there, whatever was dropped, lost on the bus or reset on
the way, and without a reset exactly what is there. Two contact slots, two messages that
wait, one frame per drain, a ring of one; larger batches (two frames, 1.1 million states)
passed as well.

`Input_proofs` proves it (`NothingStaysDown`) for any slots, limits and failures. The
invariant (`TouchInv`) follows a finger on its way: of the messages about a slot that wait
in the pad the last one says whether the finger is there, and a slot that none is about is
held by the engine only if it is there (`QueueInv`); the last frame to be written shows
what the engine holds (`FramesInv`); what the worker remembers of the last frame is what
was written, which once all are written is what the engine holds (`WrittenInv`); the last
sample of the ring is the last one written (`RingInv`). What `FoldLeft` makes of the queue is
followed message by message (`QueueSteps`, `QueueRead`).

Remarks: `NoJump` (no run), that two frames in a row with a finger come from the same
contact, is refuted with two slots and three messages. The end of the worker is not
modelled: `_StopWorker` pulses a condition variable (`MxtDevice.cpp:613`) that the worker
may not be waiting on yet, and then waits for the thread. A message count of FFh is never
drained; a slot out of range is taken for an empty queue.

### BayTrailGpio

The controller and the bus manager: consumers acquire a pin, configure it, watch it,
stop and let it go; the interrupt collects the status bits, the worker waits out the
debounce, reads the level and calls the handler with the lock dropped. `LevelFollowed`: at
rest the last level given to a handler is the line's. `StoppedIsQuiet`: once `StopWatching`
has returned, the handler does not run. One pin with two consumers one after the other,
both edges or the rising one, two tokens of the event semaphore.

`Input_proofs` proves `LevelFollowed` for any pins and consumers and whatever the
handlers do, and `StoppedIsQuiet` for handlers that do not call back
(`CallbackMay = {}`, see below). For the first, a level that differs from the last one
reported has left its edge somewhere on the way from the pad to the worker
(`EdgesOnTheWay`); for the second, a handler that runs is counted by its pin, and
`StopWatching` waits for the count (`HandlerCounted`).

Remarks: an edge between the level read of `Watch` and the arming of the trigger is lost
(`missed`, which `LevelFollowed` excepts). A handler that stops its own pin is not waited
for by the next consumer's stop: with `CallbackMay = {"stop"}` `StoppedIsQuiet` does not hold,
although `gpio.md` allows that ("A callback may stop or release its own pin"). A pin's
cookie outlives a controller that is unregistered; `ConfigureInput` rewrites pads with a
direct interrupt.

## Not modelled

`PROJECT.json` gives the reason for each component and, where one is modelled in part,
what is left out. In short: the accelerant, the discovery of SDHCI platforms, the
IOSF window, the I2C wrapper and the xHCI filter keep no state of their own or one
register window under one lock; firmware images, profiles, key tables, command encoding
and CSD decoding are data; probes, demos and tests are tools beside the drivers. Boot and
bring-up are modelled where a later step depends on how far they came (display, codec,
cards) and assumed to have succeeded elsewhere.

Not proved, and checked by TLC alone: liveness, throughout; `WaitersWake`;
`BusInStep`, which has no proof yet.

## Checking it

`tlc -config X.cfg M` for each run of `PROJECT.json`; for the proofs, `tlapm M_proofs.tla`
with `RenderQueue`, `SdhciEngine`, `RemovableMedia`, `RenderContext`, `RenderResidency`,
`Display`, `Audio` and `Input` for `M`. Each passing property is paired with a mutant, an operator in
the module that changes one definition the way a slip in the code would
("Mutation of ..."): with it in place of the definition TLC finds the property
violated.

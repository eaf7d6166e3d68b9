--------------------------- MODULE RemovableMedia ---------------------------
(***************************************************************************)
(* The removable SD slot of the sdhci_embedded driver: the hot-plug        *)
(* watcher, EjectMedia and RecoverCard of SdhciController.cpp with         *)
(* HotplugState.h, the media status of MediaStatus.h, and the request      *)
(* queue and request thread of SdmaDisk.cpp.                               *)
(*                                                                         *)
(* The slot and its card are the environment.  A card answers transfers    *)
(* only after it has been identified, and forgets that when it is taken    *)
(* out, loses power or is reset.  The command engine is reduced to its     *)
(* answer: a transfer or an identification succeeds or fails.  The         *)
(* addresses, the capacity and the bytes of a request are left out: how    *)
(* many chunks it has and which of them are read before they are written   *)
(* is open.  One thread at a time ejects, one asks for the media status.   *)
(***************************************************************************)
EXTENDS Integers, Sequences

CONSTANTS
    MaxRequests,    \* bound on the I/O requests
    MaxCards,       \* bound on the cards put into the slot
    MaxEjects,      \* bound on the ejects
    MaxChunks,      \* bound on the chunks of a request
    Polled,         \* whether somebody asks for the media status
    FlushFails      \* whether Card::Flush may fail: SdCard's never does

ASSUME MediaConstants ==
    /\ MaxRequests \in Nat /\ MaxCards \in Nat \ {0} /\ MaxEjects \in Nat
    /\ MaxChunks \in Nat \ {0}
    /\ Polled \in BOOLEAN /\ FlushFails \in BOOLEAN

VARIABLES
    slot,           \* the card in it (0: none), whether it responds to
                    \* transfers, power, and how many cards there have been;
                    \* history: known, the card fCard was identified from
    media,          \* MediaStatusTracker: fState and fChangePending; history:
                    \* whether this online epoch is unreported still
    hotplug,        \* HotplugState: fPresent and fEjected
    lock,           \* the holders of fRecoveryLock and fMediaIoLock, or "none"
    watcher,        \* the watcher thread and its locals
    ejector,        \* the thread in EjectMedia, how many ejects there were;
                    \* history: latched while the watcher slept, and completed
    poller,         \* where the thread in B_GET_MEDIA_STATUS is
    request,        \* the requests; history: which cards they touched
    queue,          \* fRequestHead to fRequestTail
    unposted,       \* calls of DoIO that have queued and not yet posted
    tokens,         \* of fRequestSem
    io,             \* the request thread and its locals
    teardown        \* the destructor, with fWatcherRunning and fStopping

shared == <<slot, media, hotplug, lock>>
disk == <<request, queue, unposted, tokens, io>>
mediaVars == <<shared, watcher, ejector, poller, disk, teardown>>

\* What the steps of each thread leave alone
notWatcher == <<ejector, poller, disk, teardown>>
notEjector == <<watcher, poller, disk, teardown>>
notDisk == <<watcher, ejector, poller, teardown>>

Request == 1..MaxRequests

Open == teardown.pc = "no"

-----------------------------------------------------------------------------
(***************************************************************************)
(* MediaStatusTracker, and the slot.                                       *)
(***************************************************************************)

IsOnline == media.state % 2 = 1

\* SetOnline(false), and SetOnline(true) up to the compare-and-swap: the next
\* generation and the online bit.  When that changes the state to online, the
\* caller still has to announce the change.
SetOnline(online) ==
    media' = IF IsOnline = online THEN media
             ELSE [media EXCEPT
                 !.state = 2 * (@ \div 2) + 2 + (IF online THEN 1 ELSE 0),
                 !.unreported = online]

\* fChangePending is set, after the state
Announce == media' = [media EXCEPT !.pending = TRUE]

CardPresent == slot.card # 0

InsertCard ==
    /\ ~CardPresent /\ slot.inserted < MaxCards
    /\ teardown.pc # "done"
    /\ slot' = [slot EXCEPT !.card = slot.inserted + 1, !.inserted = @ + 1]
    /\ UNCHANGED <<media, hotplug, lock, watcher, notWatcher>>

RemoveCard ==
    /\ CardPresent /\ teardown.pc # "done"
    /\ slot' = [slot EXCEPT !.card = 0, !.responds = FALSE]
    /\ ejector' = [ejector EXCEPT !.latched = FALSE, !.completed = FALSE]
    /\ UNCHANGED <<media, hotplug, lock, watcher, poller, disk, teardown>>

-----------------------------------------------------------------------------
(***************************************************************************)
(* The watcher: _WatcherLoop, Observe, and RecoverCard, which only it calls *)
(* for a disk that uses SDMA.                                              *)
(***************************************************************************)

WatcherAt(pc) == watcher' = [watcher EXCEPT !.pc = pc]

\* Mutation of NextPass: the stop flag is not looked at
NextPassAlways ==
    watcher' = [pc |-> "asleep", now |-> FALSE, online |-> FALSE]

\* The end of a pass, and the loop's condition
NextPass ==
    watcher' = [pc |-> IF teardown.watching THEN "asleep" ELSE "exited",
                now |-> FALSE, online |-> FALSE]

\* After the snooze: is there a card, and is the disk online?
PollSlot ==
    /\ watcher.pc = "asleep"
    /\ watcher' = [watcher EXCEPT !.pc = "polled", !.now = CardPresent]
    /\ UNCHANGED <<shared, notWatcher>>

PollOnline ==
    /\ watcher.pc = "polled"
    /\ watcher' = [watcher EXCEPT !.pc = "observe", !.online = IsOnline]
    /\ UNCHANGED <<shared, notWatcher>>

RemovalSeen == hotplug.present \/ watcher.online \/ hotplug.ejected

\* Observe without a card, and the CancelEject at its end
ObserveAbsent ==
    /\ watcher.pc = "observe" /\ ~watcher.now
    /\ hotplug' = [hotplug EXCEPT !.present = FALSE]
    /\ WatcherAt(IF RemovalSeen THEN "rearmRemoved" ELSE "rearm")
    /\ UNCHANGED <<slot, media, lock, notWatcher>>

Rearm ==
    /\ watcher.pc \in {"rearmRemoved", "rearm"}
    /\ hotplug' = [hotplug EXCEPT !.ejected = FALSE]
    /\ IF watcher.pc = "rearmRemoved" THEN WatcherAt("remove") ELSE NextPass
    /\ UNCHANGED <<slot, media, lock, notWatcher>>

\* Mutation of ShouldIdentify: the eject latch is not looked at
IdentifyEjected == ~hotplug.present \/ ~watcher.online

\* Mutation of ShouldIdentify: only a card that was just inserted
IdentifyInserted == ~hotplug.ejected /\ ~hotplug.present

ShouldIdentify ==
    /\ ~hotplug.ejected
    /\ ~hotplug.present \/ ~watcher.online

\* Observe with a card
ObservePresent ==
    /\ watcher.pc = "observe" /\ watcher.now
    /\ hotplug' = [hotplug EXCEPT !.present = TRUE]
    /\ IF ShouldIdentify THEN WatcherAt("identify") ELSE NextPass
    /\ UNCHANGED <<slot, media, lock, notWatcher>>

\* Mutation of HandleAction: a removal is left to the next failed transfer
HandleIdentifyOnly ==
    /\ watcher.pc \in {"remove", "identify"}
    /\ IF watcher.pc = "remove" THEN NextPass /\ UNCHANGED media
       ELSE WatcherAt("recover") /\ SetOnline(FALSE)
    /\ UNCHANGED <<slot, hotplug, lock, notWatcher>>

\* HotplugAction::Remove and HotplugAction::Identify
HandleAction ==
    /\ watcher.pc \in {"remove", "identify"}
    /\ SetOnline(FALSE)
    /\ IF watcher.pc = "remove" THEN NextPass ELSE WatcherAt("recover")
    /\ UNCHANGED <<slot, hotplug, lock, notWatcher>>

\* RecoverCard takes its lock and ends the epoch ...
RecoverCard ==
    /\ watcher.pc = "recover" /\ lock.recovery = "none"
    /\ lock' = [lock EXCEPT !.recovery = "watcher"]
    /\ SetOnline(FALSE)
    /\ WatcherAt("lockMedia")
    /\ UNCHANGED <<slot, hotplug, notWatcher>>

\* The power cycle of RecoverBus; what fCard knew is forgotten
ResetSlot ==
    slot' = [slot EXCEPT !.responds = FALSE, !.power = TRUE, !.known = 0]

\* Mutation of RecoverLockMedia: the request thread is not waited for
RecoverUnlocked ==
    /\ watcher.pc = "lockMedia"
    /\ ResetSlot
    /\ WatcherAt("reidentify")
    /\ UNCHANGED <<media, hotplug, lock, notWatcher>>

\* ... waits for the request in progress and begins Reidentify ...
RecoverLockMedia ==
    /\ watcher.pc = "lockMedia" /\ lock.media = "none"
    /\ lock' = [lock EXCEPT !.media = "watcher"]
    /\ ResetSlot
    /\ WatcherAt("reidentify")
    /\ UNCHANGED <<media, hotplug, notWatcher>>

\* ... which identifies the card ...
Identified ==
    /\ watcher.pc = "reidentify" /\ CardPresent
    /\ slot' = [slot EXCEPT !.responds = TRUE, !.known = slot.card]
    /\ WatcherAt("setOnline")
    /\ UNCHANGED <<media, hotplug, lock, notWatcher>>

\* ... or fails to ...
NotIdentified ==
    /\ watcher.pc = "reidentify"
    /\ WatcherAt("unlockFailed")
    /\ UNCHANGED <<shared, notWatcher>>

\* ... begins an epoch ...
RecoverSetOnline ==
    /\ watcher.pc = "setOnline"
    /\ SetOnline(TRUE)
    /\ WatcherAt(IF IsOnline THEN "unlock" ELSE "announce")
    /\ UNCHANGED <<slot, hotplug, lock, notWatcher>>

\* ... and drops its locks
RecoverUnlock ==
    /\ watcher.pc \in {"unlock", "unlockFailed"}
    /\ lock' = [recovery |-> "none", media |-> "none"]
    /\ IF watcher.pc = "unlock" THEN WatcherAt("setOnlineAgain") ELSE NextPass
    /\ UNCHANGED <<slot, media, hotplug, notWatcher>>

\* Back in the watcher, which holds no lock: the disk is set online once more
SetOnlineAgain ==
    /\ watcher.pc = "setOnlineAgain"
    /\ SetOnline(TRUE)
    /\ IF IsOnline THEN NextPass ELSE WatcherAt("announceAgain")
    /\ UNCHANGED <<slot, hotplug, lock, notWatcher>>

WatcherAnnounce ==
    /\ watcher.pc \in {"announce", "announceAgain"}
    /\ Announce
    /\ IF watcher.pc = "announce" THEN WatcherAt("unlock") ELSE NextPass
    /\ UNCHANGED <<slot, hotplug, lock, notWatcher>>

WatcherStep ==
    \/ PollSlot \/ PollOnline \/ ObserveAbsent \/ Rearm \/ ObservePresent
    \/ HandleAction \/ RecoverCard \/ RecoverLockMedia \/ Identified
    \/ NotIdentified \/ RecoverSetOnline \/ RecoverUnlock \/ SetOnlineAgain
    \/ WatcherAnnounce

-----------------------------------------------------------------------------
(***************************************************************************)
(* EjectMedia, on the thread of the ioctl; and B_GET_MEDIA_STATUS.         *)
(***************************************************************************)

EjectorAt(pc) == ejector' = [ejector EXCEPT !.pc = pc]

EjectMedia ==
    /\ ejector.pc = "idle" /\ Open /\ ejector.count < MaxEjects
    /\ lock.recovery = "none"
    /\ IsOnline
    /\ lock' = [lock EXCEPT !.recovery = "ejector"]
    /\ ejector' = [ejector EXCEPT !.pc = "mark", !.count = @ + 1]
    /\ UNCHANGED <<slot, media, hotplug, notEjector>>

\* Latched before the disk goes offline
MarkEjected ==
    /\ ejector.pc = "mark"
    /\ hotplug' = [hotplug EXCEPT !.ejected = TRUE]
    /\ ejector' = [ejector EXCEPT !.pc = "setOffline",
                       !.latched = CardPresent /\ watcher.pc = "asleep"]
    /\ UNCHANGED <<slot, media, lock, notEjector>>

EjectSetOffline ==
    /\ ejector.pc = "setOffline"
    /\ SetOnline(FALSE)
    /\ EjectorAt("lockMedia")
    /\ UNCHANGED <<slot, hotplug, lock, notEjector>>

EjectLockMedia ==
    /\ ejector.pc = "lockMedia" /\ lock.media = "none"
    /\ lock' = [lock EXCEPT !.media = "ejector"]
    /\ EjectorAt("flush")
    /\ UNCHANGED <<slot, media, hotplug, notEjector>>

\* Flushed
PowerOff ==
    /\ ejector.pc = "flush"
    /\ slot' = [slot EXCEPT !.responds = FALSE, !.power = FALSE]
    /\ ejector' = [ejector EXCEPT !.pc = "unlock",
                                  !.completed = ejector.latched]
    /\ UNCHANGED <<media, hotplug, lock, notEjector>>

\* Not flushed: the card, if it is still there, comes back
CancelEject ==
    /\ ejector.pc = "flush" /\ FlushFails
    /\ hotplug' = [hotplug EXCEPT !.ejected = FALSE]
    /\ ejector' = [ejector EXCEPT !.pc = "resume", !.latched = FALSE]
    /\ UNCHANGED <<slot, media, lock, notEjector>>

ResumeCard ==
    /\ ejector.pc = "resume"
    /\ EjectorAt(IF CardPresent THEN "setOnline" ELSE "unlock")
    /\ UNCHANGED <<shared, notEjector>>

ResumeSetOnline ==
    /\ ejector.pc = "setOnline"
    /\ SetOnline(TRUE)
    /\ EjectorAt(IF IsOnline THEN "unlock" ELSE "announce")
    /\ UNCHANGED <<slot, hotplug, lock, notEjector>>

ResumeAnnounce ==
    /\ ejector.pc = "announce"
    /\ Announce
    /\ EjectorAt("unlock")
    /\ UNCHANGED <<slot, hotplug, lock, notEjector>>

EjectUnlock ==
    /\ ejector.pc = "unlock"
    /\ lock' = [recovery |-> "none", media |-> "none"]
    /\ ejector' = [ejector EXCEPT !.pc = "idle", !.latched = FALSE]
    /\ UNCHANGED <<slot, media, hotplug, notEjector>>

EjectStep ==
    \/ MarkEjected \/ EjectSetOffline \/ EjectLockMedia \/ PowerOff
    \/ CancelEject \/ ResumeCard \/ ResumeSetOnline \/ ResumeAnnounce
    \/ EjectUnlock

\* ConsumeStatus takes the change; without one asking changes nothing
TakeChange ==
    /\ poller = "idle" /\ Polled /\ Open
    /\ media.pending
    /\ poller' = "taken"
    /\ media' = [media EXCEPT !.pending = FALSE]
    /\ UNCHANGED <<slot, hotplug, lock, watcher, ejector, disk, teardown>>

\* The answer arrives: B_DEV_MEDIA_CHANGED, or B_DEV_NO_MEDIA
AnswerStatus ==
    /\ poller = "taken"
    /\ media' = [media EXCEPT !.unreported = @ /\ ~IsOnline]
    /\ poller' = "idle"
    /\ UNCHANGED <<slot, hotplug, lock, watcher, ejector, disk, teardown>>

\* Mutation of AnswerLost: the change is not given back
AnswerForgotten ==
    /\ poller = "taken" /\ IsOnline
    /\ poller' = "idle"
    /\ UNCHANGED <<shared, watcher, ejector, disk, teardown>>

\* B_DEV_MEDIA_CHANGED cannot be copied out
AnswerLost ==
    /\ poller = "taken" /\ IsOnline
    /\ poller' = "restore"
    /\ UNCHANGED <<shared, watcher, ejector, disk, teardown>>

RestoreChange ==
    /\ poller = "restore"
    /\ poller' = IF IsOnline THEN "announce" ELSE "idle"
    /\ UNCHANGED <<shared, watcher, ejector, disk, teardown>>

RestoreAnnounce ==
    /\ poller = "announce"
    /\ Announce
    /\ poller' = "idle"
    /\ UNCHANGED <<slot, hotplug, lock, watcher, ejector, disk, teardown>>

PollerStep == AnswerStatus \/ AnswerLost \/ RestoreChange \/ RestoreAnnounce

-----------------------------------------------------------------------------
(***************************************************************************)
(* Requests: DoIO.                                                         *)
(***************************************************************************)

Answer(r, answer) ==
    request' = [request EXCEPT ![r].pc = "answered", ![r].answer = answer]

\* Requests are numbered in the order they are made
Arrives(r) ==
    /\ request[r].pc = "new" /\ Open
    /\ \A q \in 1..r - 1 : request[q].pc # "new"

\* Refused: outside the card, or no memory for it
RefuseIO(r) ==
    /\ Arrives(r) \/ request[r].pc = "captured"
    /\ Answer(r, "error")
    /\ UNCHANGED <<shared, notDisk, queue, unposted, tokens, io>>

\* The epoch the request belongs to, if there is one
DoIO(r) ==
    /\ Arrives(r)
    /\ IF IsOnline
       THEN request' = [request EXCEPT ![r].pc = "captured",
                            ![r].epoch = media.state, ![r].card = slot.known]
       ELSE Answer(r, "noMedia")
    /\ UNCHANGED <<shared, notDisk, queue, unposted, tokens, io>>

\* Under fRequestLock
EnqueueRequest(r) ==
    /\ request[r].pc = "captured"
    /\ IF teardown.stopping \/ media.state # request[r].epoch
       THEN /\ Answer(r, IF teardown.stopping THEN "canceled" ELSE "noMedia")
            /\ UNCHANGED <<queue, unposted>>
       ELSE /\ request' = [request EXCEPT ![r].pc = "queued"]
            /\ queue' = Append(queue, r)
            /\ unposted' = unposted + 1
    /\ UNCHANGED <<shared, notDisk, tokens, io>>

PostRequest ==
    /\ unposted > 0
    /\ unposted' = unposted - 1
    /\ tokens' = tokens + 1
    /\ UNCHANGED <<shared, notDisk, request, queue, io>>

-----------------------------------------------------------------------------
(***************************************************************************)
(* The request thread: _RequestThread, _RunRequest and _TransferStaging.   *)
(***************************************************************************)

IoAt(pc) == io' = [io EXCEPT !.pc = pc]
IoAnswer(answer) == io' = [io EXCEPT !.pc = "unlock", !.answer = answer]
IdleIo == [pc |-> "acquire", request |-> 0, write |-> FALSE, chunks |-> 0,
           answer |-> "none"]

\* Mutation of TakeRequest: a failed acquire_sem is not noticed
TakeUnposted ==
    /\ io.pc = "acquire"
    /\ tokens' = tokens - 1
    /\ UNCHANGED <<shared, notDisk, request, queue, unposted, io>>

\* acquire_sem, and the head of the list under fRequestLock
TakeRequest ==
    /\ io.pc = "acquire"
    /\ tokens > 0
    /\ tokens' = tokens - 1
    /\ IF queue = <<>>
       THEN /\ IoAt(IF teardown.stopping THEN "exited" ELSE "acquire")
            /\ UNCHANGED queue
       ELSE /\ queue' = Tail(queue)
            /\ io' = IF teardown.stopping
                     THEN [io EXCEPT !.pc = "notify", !.request = Head(queue),
                                     !.answer = "canceled"]
                     ELSE [io EXCEPT !.pc = "lock", !.request = Head(queue)]
    /\ UNCHANGED <<shared, notDisk, request, unposted>>

LockRequestMedia(write) ==
    /\ io.pc = "lock" /\ lock.media = "none"
    /\ lock' = [lock EXCEPT !.media = "io"]
    /\ io' = [io EXCEPT !.pc = "chunk", !.write = write]
    /\ UNCHANGED <<slot, media, hotplug, notDisk, request, queue, unposted,
                   tokens>>

\* Mutation of SameEpoch: only the online bit is compared
StillOnline == IsOnline

\* MediaState() == mediaState; a captured state is online
SameEpoch == media.state = request[io.request].epoch

\* The next chunk: a write of part of a sector reads the sector first
NextChunk ==
    /\ io.pc = "chunk"
    /\ \/ ~SameEpoch /\ IoAnswer("noMedia")
       \/ SameEpoch /\ ~io.write /\ IoAt("transfer")
       \/ SameEpoch /\ io.write /\ IoAt("fill")
       \/ SameEpoch /\ io.write /\ IoAt("readBefore")
    /\ UNCHANGED <<shared, notDisk, request, queue, unposted, tokens>>

\* _TransferStaging, of a write or of what is read before it: the card moves
\* the data of a chunk, or fails
TransferStaging ==
    /\ io.pc \in {"transfer", "readBefore"}
    /\ \/ /\ slot.responds
          /\ request' = [request EXCEPT ![io.request].touched =
                             @ \cup {slot.card}]
          /\ IoAt(IF io.pc = "transfer" THEN "settle" ELSE "fill")
       \/ IoAt("fault") /\ UNCHANGED request
    /\ UNCHANGED <<shared, notDisk, queue, unposted, tokens>>

\* A failed transfer takes the disk offline
TransferFault ==
    /\ io.pc = "fault"
    /\ SetOnline(FALSE)
    /\ IoAnswer("error")
    /\ UNCHANGED <<slot, hotplug, lock, notDisk, request, queue, unposted,
                   tokens>>

\* The copy of a write into the staging buffer may fail; the epoch is compared
\* before and after it
FillStaging ==
    /\ io.pc = "fill"
    /\ \/ IoAnswer("error")
       \/ ~SameEpoch /\ IoAnswer("noMedia")
       \/ SameEpoch /\ IoAt("transfer")
    /\ UNCHANGED <<shared, notDisk, request, queue, unposted, tokens>>

\* Copy what was read, compare the epoch, advance
SettleChunk ==
    /\ io.pc = "settle"
    /\ \/ ~io.write /\ IoAnswer("error")
       \/ ~SameEpoch /\ IoAnswer("noMedia")
       \/ SameEpoch /\ IoAnswer("ok")
       \/ /\ SameEpoch /\ io.chunks + 1 < MaxChunks
          /\ io' = [io EXCEPT !.pc = "chunk", !.chunks = @ + 1]
    /\ UNCHANGED <<shared, notDisk, request, queue, unposted, tokens>>

\* Mutation of NotifyRequest: an error path forgets the caller
NotifyServed ==
    /\ io.pc \in {"unlock", "notify"}
    /\ lock' = IF io.pc = "unlock" THEN [lock EXCEPT !.media = "none"] ELSE lock
    /\ IF io.answer = "error" THEN UNCHANGED request
       ELSE Answer(io.request, io.answer)
    /\ io' = IdleIo
    /\ UNCHANGED <<slot, media, hotplug, notDisk, queue, unposted, tokens>>

\* The lock is released, the caller notified
NotifyRequest ==
    /\ io.pc \in {"unlock", "notify"}
    /\ lock' = IF io.pc = "unlock" THEN [lock EXCEPT !.media = "none"] ELSE lock
    /\ Answer(io.request, io.answer)
    /\ io' = IdleIo
    /\ UNCHANGED <<slot, media, hotplug, notDisk, queue, unposted, tokens>>

IoStep ==
    \/ TakeRequest \/ \E write \in BOOLEAN : LockRequestMedia(write)
    \/ NextChunk \/ TransferStaging \/ TransferFault \/ FillStaging
    \/ SettleChunk \/ NotifyRequest

-----------------------------------------------------------------------------
(***************************************************************************)
(* The controller's destructor and, from it, _StopRequestThread.  The      *)
(* kernel calls it when nobody is inside the driver; requests may be       *)
(* queued still.                                                           *)
(***************************************************************************)

StopWatcher ==
    /\ Open
    /\ ejector.pc = "idle" /\ poller = "idle" /\ unposted = 0
    /\ \A r \in Request : request[r].pc # "captured"
    /\ teardown' = [teardown EXCEPT !.pc = "watcher", !.watching = FALSE]
    /\ UNCHANGED <<shared, watcher, ejector, poller, disk>>

\* The watcher is gone: the flag, and a token for the request thread
StopRequests ==
    /\ teardown.pc = "watcher" /\ watcher.pc = "exited"
    /\ teardown' = [teardown EXCEPT !.pc = "thread", !.stopping = TRUE]
    /\ tokens' = tokens + 1
    /\ UNCHANGED <<shared, watcher, ejector, poller, request, queue, unposted,
                   io>>

\* The thread is gone: what it left in the queue is cancelled
CancelQueued ==
    /\ teardown.pc = "thread" /\ io.pc = "exited"
    /\ request' = [r \in Request |->
           IF \E i \in DOMAIN queue : queue[i] = r
           THEN [request[r] EXCEPT !.pc = "answered", !.answer = "canceled"]
           ELSE request[r]]
    /\ queue' = <<>>
    /\ teardown' = [teardown EXCEPT !.pc = "done"]
    /\ UNCHANGED <<shared, watcher, ejector, poller, unposted, tokens, io>>

-----------------------------------------------------------------------------
\* After Boot, with an identified card, another or none
MediaInit ==
    /\ \E card \in {0, 1}, known \in {0, 1} :
           /\ known <= card
           /\ slot = [card |-> card, responds |-> known = 1, power |-> TRUE,
                      inserted |-> card, known |-> known]
           /\ media = [state |-> IF known = 1 THEN 1 ELSE 2,
                       pending |-> FALSE, unreported |-> FALSE]
           /\ hotplug = [present |-> card = 1, ejected |-> FALSE]
    /\ lock = [recovery |-> "none", media |-> "none"]
    /\ watcher = [pc |-> "asleep", now |-> FALSE, online |-> FALSE]
    /\ ejector = [pc |-> "idle", count |-> 0, latched |-> FALSE,
                  completed |-> FALSE]
    /\ poller = "idle"
    /\ request = [r \in Request |-> [pc |-> "new", epoch |-> 0, card |-> 0,
                                     answer |-> "none", touched |-> {}]]
    /\ queue = <<>> /\ unposted = 0 /\ tokens = 0
    /\ io = IdleIo
    /\ teardown = [pc |-> "no", watching |-> TRUE, stopping |-> FALSE]

MediaNext ==
    \/ InsertCard \/ RemoveCard
    \/ EjectMedia \/ TakeChange \/ StopWatcher
    \/ \E r \in Request : RefuseIO(r) \/ DoIO(r) \/ EnqueueRequest(r)
    \/ PostRequest
    \/ WatcherStep \/ EjectStep \/ PollerStep \/ IoStep
    \/ StopRequests \/ CancelQueued
    \/ teardown.pc = "done" /\ UNCHANGED mediaVars

MediaSpec == MediaInit /\ [][MediaNext]_mediaVars

\* Threads and calls keep running, and a card that is identified again and again
\* answers at last; nobody owes a call, or a card
MediaFairness ==
    /\ WF_mediaVars(WatcherStep) /\ WF_mediaVars(EjectStep) /\ WF_mediaVars(IoStep)
    /\ WF_mediaVars(PostRequest) /\ WF_mediaVars(StopRequests \/ CancelQueued)
    /\ SF_mediaVars(Identified)

-----------------------------------------------------------------------------
Result == {"none", "ok", "error", "noMedia", "canceled"}

SlotState == [card: 0..MaxCards, responds: BOOLEAN, power: BOOLEAN,
              inserted: 0..MaxCards, known: 0..MaxCards]
MediaState == [state: Nat, pending: BOOLEAN, unreported: BOOLEAN]
HotplugState == [present: BOOLEAN, ejected: BOOLEAN]
LockState == [recovery: {"none", "watcher", "ejector"},
              media: {"none", "watcher", "ejector", "io"}]
WatcherState ==
    [pc: {"asleep", "polled", "observe", "rearmRemoved", "rearm", "remove",
          "identify", "recover", "lockMedia", "reidentify", "setOnline",
          "announce", "unlock", "unlockFailed", "setOnlineAgain",
          "announceAgain", "exited"}, now: BOOLEAN, online: BOOLEAN]
EjectorState ==
    [pc: {"idle", "mark", "setOffline", "lockMedia", "flush", "resume",
          "setOnline", "announce", "unlock"},
     count: 0..MaxEjects, latched: BOOLEAN, completed: BOOLEAN]
PollerState == {"idle", "taken", "restore", "announce"}
RequestState ==
    [pc: {"new", "captured", "queued", "answered"}, epoch: Nat,
     card: 0..MaxCards, touched: SUBSET (1..MaxCards), answer: Result]
IoState ==
    [pc: {"acquire", "lock", "chunk", "readBefore", "fill", "transfer", "settle",
          "fault", "unlock", "notify", "exited"},
     request: Request \cup {0}, write: BOOLEAN, chunks: 0..MaxChunks,
     answer: Result]
TeardownState == [pc: {"no", "watcher", "thread", "done"},
                  watching: BOOLEAN, stopping: BOOLEAN]

MediaTypeOK ==
    /\ slot \in SlotState /\ media \in MediaState /\ hotplug \in HotplugState
    /\ lock \in LockState /\ watcher \in WatcherState /\ ejector \in EjectorState
    /\ poller \in PollerState /\ request \in [Request -> RequestState]
    /\ queue \in Seq(Request) /\ unposted \in Nat /\ tokens \in Nat
    /\ io \in IoState /\ teardown \in TeardownState

\* "Stale requests cannot continue on a replacement card": a request moves
\* data only on the card the driver knew when it was made, however often cards
\* are changed, ejected and identified until the request thread comes to it.
NoStaleIo == \A r \in Request : request[r].touched \subseteq {request[r].card}

\* The change that an epoch of the disk means to Haiku is reported or still
\* pending, unless somebody is about to announce it: no call of
\* B_GET_MEDIA_STATUS takes it away unseen.
ChangeNotLost ==
    \/ ~media.unreported \/ media.pending \/ poller # "idle"
    \/ watcher.pc \in {"announce", "announceAgain"} \/ ejector.pc = "announce"

\* An eject latched while the watcher sleeps keeps, once it is complete, the
\* disk offline and the slot without power until the card is taken out.
EjectHolds == ejector.completed => ~IsOnline /\ ~slot.power

\* Neither a recovery nor an eject resets or powers off the card under a request
\* that is in progress, although both end its epoch before they wait for it.
Quiesced ==
    io.pc \in {"chunk", "readBefore", "fill", "transfer", "settle", "fault"} =>
        /\ watcher.pc # "reidentify"
        /\ ejector.pc \notin {"flush", "resume"}

\* Every request that was queued is answered, also at teardown.
EveryRequestAnswered ==
    \A r \in Request : request[r].pc = "queued" ~> request[r].pc = "answered"

\* The destructor returns: both threads leave.
TeardownCompletes == ~Open ~> teardown.pc = "done"

\* An empty slot does not stay online, and a card in the slot of an offline
\* disk comes online, also after a failed transfer or identification, unless it
\* was ejected.
OnlineFollowsCard ==
    /\ ~CardPresent /\ IsOnline ~> CardPresent \/ ~IsOnline \/ ~Open
    /\ CardPresent /\ ~IsOnline ~>
          IsOnline \/ ~CardPresent \/ hotplug.ejected \/ ~Open
=============================================================================

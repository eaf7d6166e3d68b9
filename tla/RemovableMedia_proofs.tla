----------------------- MODULE RemovableMedia_proofs -----------------------
(***************************************************************************)
(* Proofs about RemovableMedia, for any number of requests, cards, ejects  *)
(* and chunks: the card under a request in progress is left alone          *)
(* (Quiesced), a request moves data only on the card it was made for       *)
(* (NoStaleIo), an eject holds (EjectHolds), and the change an epoch means *)
(* is not lost (ChangeNotLost).                                            *)
(***************************************************************************)
EXTENDS RemovableMedia, TLAPS

\* Who holds fRecoveryLock and fMediaIoLock is told by where the threads are
LocksHeld ==
    /\ lock.recovery = "watcher" <=>
          watcher.pc \in {"lockMedia", "reidentify", "setOnline", "announce",
                          "unlock", "unlockFailed"}
    /\ lock.recovery = "ejector" <=> ejector.pc # "idle"
    /\ lock.media = "watcher" <=>
          watcher.pc \in {"reidentify", "setOnline", "announce", "unlock",
                          "unlockFailed"}
    /\ lock.media = "ejector" <=>
          ejector.pc \in {"flush", "resume", "setOnline", "announce", "unlock"}
    /\ lock.media = "io" <=>
          io.pc \in {"chunk", "readBefore", "fill", "transfer", "settle", "fault",
                     "unlock"}

\* A recovery keeps the disk offline until the card is identified
OfflineMeanwhile ==
    watcher.pc \in {"lockMedia", "reidentify", "setOnline"} => ~IsOnline

\* A card that responds is the one that was identified last
RespondsIfKnown == slot.responds => CardPresent /\ slot.card = slot.known

\* The epoch of a request is an online one, no later than the present one; as
\* long as it lasts, its card is the one that was identified last
EpochsOfRequests ==
    \A r \in Request :
        /\ request[r].pc = "new" => request[r].touched = {}
        /\ request[r].pc \in {"captured", "queued"} =>
              /\ request[r].epoch <= media.state /\ request[r].epoch % 2 = 1
              /\ request[r].epoch = media.state => request[r].card = slot.known

\* What the request thread works on has been queued
WorkIsQueued ==
    /\ \A i \in DOMAIN queue : request[queue[i]].pc = "queued"
    /\ io.pc \notin {"acquire", "exited"} =>
          /\ io.request \in Request /\ request[io.request].pc = "queued"
    /\ \A i, j \in DOMAIN queue : queue[i] = queue[j] => i = j
    /\ io.pc \notin {"acquire", "exited"} =>
          \A i \in DOMAIN queue : queue[i] # io.request

\* While a chunk is moved nobody identifies a card
ChunkOfKnownCard ==
    io.pc \in {"readBefore", "fill", "transfer"} =>
        request[io.request].card = slot.known

QuietInv == LocksHeld /\ OfflineMeanwhile

StaleInv ==
    /\ RespondsIfKnown /\ EpochsOfRequests /\ WorkIsQueued /\ ChunkOfKnownCard
    /\ NoStaleIo

\* From the moment an eject is latched, the watcher sees a card and an eject
EjectLatched ==
    ejector.latched \/ ejector.completed =>
        /\ hotplug.ejected /\ CardPresent
        /\ watcher.pc \in {"asleep", "polled", "observe", "exited"}
        /\ watcher.pc \in {"polled", "observe"} => watcher.now

EjectStages ==
    /\ ejector.latched => ejector.pc \in {"setOffline", "lockMedia", "flush", "unlock"}
    /\ ejector.latched /\ ejector.pc # "setOffline" => ~IsOnline
    /\ ejector.completed => ejector.pc \in {"idle", "unlock"}

EjectInv == EjectLatched /\ EjectStages /\ EjectHolds

ReportInv == ChangeNotLost /\ (media.unreported => IsOnline)

-----------------------------------------------------------------------------
\* SetOnline: what it makes of the media status; the generation only grows
LEMMA SetOnlineSteps ==
    ASSUME media \in MediaState, NEW online \in BOOLEAN, SetOnline(online)
    PROVE  /\ media' \in MediaState
           /\ media'.state % 2 = 1 <=> online
           /\ media'.pending = media.pending
           /\ media'.state # media.state => media'.state > media.state
           /\ (IsOnline <=> online) => media' = media
           /\ ~(IsOnline <=> online) => (media'.unreported <=> online)
<1>1. CASE IsOnline <=> online
  <2>1. media' = media
    BY <1>1 DEF SetOnline, IsOnline
  <2> QED BY <1>1, <2>1 DEF IsOnline
<1>2. CASE ~(IsOnline <=> online)
  <2> DEFINE s == media.state
             t == 2 * (s \div 2) + 2 + (IF online THEN 1 ELSE 0)
  <2>1. s \in Nat /\ media.pending \in BOOLEAN
    BY DEF MediaState
  <2>2. t \in Nat /\ t > s /\ (t % 2 = 1 <=> online)
    BY <2>1
  <2>3. media' = [media EXCEPT !.state = t, !.unreported = online]
    <3>1. IsOnline # online
      BY <1>2 DEF IsOnline
    <3> QED BY <3>1 DEF SetOnline
  <2>4. media' = [state |-> t, pending |-> media.pending, unreported |-> online]
    BY <2>3 DEF MediaState
  <2> QED BY <1>2, <2>1, <2>2, <2>4 DEF MediaState
<1> QED BY <1>1, <1>2

\* The end of a pass, and any other move of the watcher
LEMMA WatcherMoves ==
    ASSUME watcher \in WatcherState
    PROVE  /\ NextPass => /\ watcher' \in WatcherState
                          /\ watcher'.pc \in {"asleep", "exited"}
           /\ \A pc \in {"remove", "identify", "recover", "lockMedia", "reidentify",
                         "setOnline", "announce", "unlock", "unlockFailed",
                         "setOnlineAgain", "announceAgain", "rearm", "rearmRemoved"} :
                 WatcherAt(pc) => /\ watcher' \in WatcherState /\ watcher'.pc = pc
                                  /\ watcher'.now = watcher.now
<1>1. ASSUME NextPass
      PROVE  watcher' \in WatcherState /\ watcher'.pc \in {"asleep", "exited"}
  <2>1. CASE teardown.watching
    BY <1>1, <2>1 DEF NextPass, WatcherState
  <2>2. CASE ~teardown.watching
    BY <1>1, <2>2 DEF NextPass, WatcherState
  <2> QED BY <2>1, <2>2
<1> QED BY <1>1 DEF WatcherAt, WatcherState

LEMMA SetOnlineGrows ==
    ASSUME media \in MediaState, NEW online \in BOOLEAN, SetOnline(online)
    PROVE  media'.state \in Nat /\ media'.state >= media.state
<1>1. media \in MediaState /\ media' \in MediaState
  BY SetOnlineSteps
<1>2. media.state \in Nat /\ media'.state \in Nat
  BY <1>1 DEF MediaState
<1>3. media'.state = media.state \/ media'.state > media.state
  BY SetOnlineSteps
<1> QED BY <1>2, <1>3

\* An answered request, and the others
LEMMA Answered ==
    ASSUME request \in [Request -> RequestState], NEW r \in Request,
           NEW answer \in Result, Answer(r, answer)
    PROVE  /\ request' \in [Request -> RequestState]
           /\ request'[r].pc = "answered"
           /\ \A q \in Request :
                 /\ request'[q].epoch = request[q].epoch
                 /\ request'[q].card = request[q].card
                 /\ request'[q].touched = request[q].touched
           /\ \A q \in Request : q # r => request'[q] = request[q]
<1>1. request[r] \in RequestState
  OBVIOUS
<1>2. [request[r] EXCEPT !.pc = "answered", !.answer = answer] \in RequestState
  BY <1>1 DEF RequestState
<1>3. /\ request'[r] = [request[r] EXCEPT !.pc = "answered", !.answer = answer]
      /\ \A q \in Request : q # r => request'[q] = request[q]
  BY DEF Answer
<1>4. request' \in [Request -> RequestState]
  BY <1>2 DEF Answer
<1> QED BY <1>1, <1>3, <1>4 DEF RequestState

\* The moves of the request thread
LEMMA IoMoves ==
    ASSUME io \in IoState
    PROVE  /\ \A pc \in {"acquire", "lock", "chunk", "readBefore", "fill",
                         "transfer", "settle", "fault", "exited"} :
                 IoAt(pc) => /\ io' \in IoState /\ io'.pc = pc
                             /\ io'.request = io.request
           /\ \A answer \in Result :
                 IoAnswer(answer) => /\ io' \in IoState /\ io'.pc = "unlock"
                                     /\ io'.request = io.request
<1>1. ASSUME NEW pc \in {"acquire", "lock", "chunk", "readBefore", "fill",
                         "transfer", "settle", "fault", "exited"}, IoAt(pc)
      PROVE  io' \in IoState /\ io'.pc = pc /\ io'.request = io.request
  BY <1>1 DEF IoAt, IoState
<1>2. ASSUME NEW answer \in Result, IoAnswer(answer)
      PROVE  io' \in IoState /\ io'.pc = "unlock" /\ io'.request = io.request
  <2>1. io' = [io EXCEPT !.pc = "unlock", !.answer = answer]
    BY <1>2 DEF IoAnswer
  <2> QED BY <2>1, <1>2 DEF IoState
<1> QED BY <1>1, <1>2

\* Every step keeps the types
LEMMA MediaTypeStep ==
    ASSUME MediaTypeOK, RespondsIfKnown, WorkIsQueued, MediaNext
    PROVE  MediaTypeOK'
<1>slot. slot \in SlotState
  BY DEF MediaTypeOK
<1>media. media \in MediaState
  BY DEF MediaTypeOK
<1>hotplug. hotplug \in HotplugState
  BY DEF MediaTypeOK
<1>lock. lock \in LockState
  BY DEF MediaTypeOK
<1>watcher. watcher \in WatcherState
  BY DEF MediaTypeOK
<1>ejector. ejector \in EjectorState
  BY DEF MediaTypeOK
<1>poller. poller \in PollerState
  BY DEF MediaTypeOK
<1>request. request \in [Request -> RequestState]
  BY DEF MediaTypeOK
<1>queue. queue \in Seq(Request)
  BY DEF MediaTypeOK
<1>unposted. unposted \in Nat
  BY DEF MediaTypeOK
<1>tokens. tokens \in Nat
  BY DEF MediaTypeOK
<1>io. io \in IoState
  BY DEF MediaTypeOK
<1>teardown. teardown \in TeardownState
  BY DEF MediaTypeOK
<1>1. ASSUME InsertCard
      PROVE  MediaTypeOK'
  <2>1. slot' \in SlotState
    <3>1. slot.inserted + 1 \in 0..MaxCards
      BY <1>1, <1>slot, MediaConstants DEF InsertCard, SlotState
    <3>2. slot' = [card |-> slot.inserted + 1, responds |-> slot.responds,
                   power |-> slot.power, inserted |-> slot.inserted + 1,
                   known |-> slot.known]
      BY <1>1, <1>slot DEF InsertCard, SlotState
    <3> QED BY <3>1, <3>2, <1>slot DEF SlotState
  <2> QED BY <1>1, <2>1
     DEF InsertCard, shared, disk, notWatcher, notEjector, notDisk,
         MediaTypeOK
<1>2. ASSUME RemoveCard
      PROVE  MediaTypeOK'
  <2>1. slot' \in SlotState
    <3>1. slot' = [card |-> 0, responds |-> FALSE, power |-> slot.power,
                   inserted |-> slot.inserted, known |-> slot.known]
      BY <1>2, <1>slot DEF RemoveCard, SlotState
    <3> QED BY <3>1, <1>slot, MediaConstants DEF SlotState
  <2>2. ejector' \in EjectorState
    BY <1>2, <1>ejector DEF RemoveCard, CardPresent, EjectorState
  <2> QED BY <1>2, <2>1, <2>2
     DEF RemoveCard, shared, disk, notWatcher, notEjector, notDisk,
         MediaTypeOK
<1>3. ASSUME PollSlot
      PROVE  MediaTypeOK'
  <2>1. watcher' \in WatcherState
    BY <1>3, <1>watcher DEF PollSlot, CardPresent, WatcherState
  <2> QED BY <1>3, <2>1
     DEF PollSlot, shared, disk, notWatcher, notEjector, notDisk, MediaTypeOK
<1>4. ASSUME PollOnline
      PROVE  MediaTypeOK'
  <2>1. watcher' \in WatcherState
    BY <1>4, <1>watcher DEF PollOnline, IsOnline, WatcherState
  <2> QED BY <1>4, <2>1
     DEF PollOnline, shared, disk, notWatcher, notEjector, notDisk,
         MediaTypeOK
<1>5. ASSUME ObserveAbsent
      PROVE  MediaTypeOK'
  <2>1. hotplug' \in HotplugState
    BY <1>5, <1>hotplug DEF ObserveAbsent, RemovalSeen, HotplugState
  <2>2. watcher' \in WatcherState
    BY <1>5, <1>watcher, WatcherMoves
       DEF ObserveAbsent, RemovalSeen, WatcherState
  <2> QED BY <1>5, <2>1, <2>2
     DEF ObserveAbsent, shared, disk, notWatcher, notEjector, notDisk,
         MediaTypeOK
<1>6. ASSUME Rearm
      PROVE  MediaTypeOK'
  <2>1. hotplug' \in HotplugState
    BY <1>6, <1>hotplug DEF Rearm, HotplugState
  <2>2. watcher' \in WatcherState
    BY <1>6, <1>watcher, WatcherMoves DEF Rearm, WatcherState
  <2> QED BY <1>6, <2>1, <2>2
     DEF Rearm, shared, disk, notWatcher, notEjector, notDisk, MediaTypeOK
<1>7. ASSUME ObservePresent
      PROVE  MediaTypeOK'
  <2>1. hotplug' \in HotplugState
    BY <1>7, <1>hotplug DEF ObservePresent, ShouldIdentify, HotplugState
  <2>2. watcher' \in WatcherState
    BY <1>7, <1>watcher, WatcherMoves
       DEF ObservePresent, ShouldIdentify, WatcherState
  <2> QED BY <1>7, <2>1, <2>2
     DEF ObservePresent, shared, disk, notWatcher, notEjector, notDisk,
         MediaTypeOK
<1>8. ASSUME HandleAction
      PROVE  MediaTypeOK'
  <2>1. media' \in MediaState
    BY <1>8, <1>media, SetOnlineSteps DEF HandleAction, MediaState
  <2>2. watcher' \in WatcherState
    BY <1>8, <1>watcher, WatcherMoves DEF HandleAction, WatcherState
  <2> QED BY <1>8, <2>1, <2>2
     DEF HandleAction, shared, disk, notWatcher, notEjector, notDisk,
         MediaTypeOK
<1>9. ASSUME RecoverCard
      PROVE  MediaTypeOK'
  <2>1. lock' \in LockState
    BY <1>9, <1>lock DEF RecoverCard, LockState
  <2>2. media' \in MediaState
    BY <1>9, <1>media, SetOnlineSteps DEF RecoverCard, MediaState
  <2>3. watcher' \in WatcherState
    BY <1>9, <1>watcher, WatcherMoves DEF RecoverCard, WatcherState
  <2> QED BY <1>9, <2>1, <2>2, <2>3
     DEF RecoverCard, shared, disk, notWatcher, notEjector, notDisk,
         MediaTypeOK
<1>10. ASSUME RecoverLockMedia
      PROVE  MediaTypeOK'
  <2>1. lock' \in LockState
    BY <1>10, <1>lock DEF RecoverLockMedia, ResetSlot, LockState
  <2>2. slot' \in SlotState
    <3>1. slot' = [card |-> slot.card, responds |-> FALSE, power |-> TRUE,
                   inserted |-> slot.inserted, known |-> 0]
      BY <1>10, <1>slot DEF RecoverLockMedia, ResetSlot, SlotState
    <3> QED BY <3>1, <1>slot, MediaConstants DEF SlotState
  <2>3. watcher' \in WatcherState
    BY <1>10, <1>watcher, WatcherMoves
       DEF RecoverLockMedia, ResetSlot, WatcherState
  <2> QED BY <1>10, <2>1, <2>2, <2>3
     DEF RecoverLockMedia, shared, disk, notWatcher, notEjector, notDisk,
         MediaTypeOK
<1>11. ASSUME Identified
      PROVE  MediaTypeOK'
  <2>1. slot' \in SlotState
    BY <1>11, <1>slot, MediaConstants DEF Identified, CardPresent, SlotState
  <2>2. watcher' \in WatcherState
    BY <1>11, <1>watcher, WatcherMoves
       DEF Identified, CardPresent, WatcherState
  <2> QED BY <1>11, <2>1, <2>2
     DEF Identified, shared, disk, notWatcher, notEjector, notDisk,
         MediaTypeOK
<1>12. ASSUME NotIdentified
      PROVE  MediaTypeOK'
  <2>1. watcher' \in WatcherState
    BY <1>12, <1>watcher, WatcherMoves DEF NotIdentified, WatcherState
  <2> QED BY <1>12, <2>1
     DEF NotIdentified, shared, disk, notWatcher, notEjector, notDisk,
         MediaTypeOK
<1>13. ASSUME RecoverSetOnline
      PROVE  MediaTypeOK'
  <2>1. media' \in MediaState
    BY <1>13, <1>media, SetOnlineSteps DEF RecoverSetOnline, MediaState
  <2>2. watcher' \in WatcherState
    BY <1>13, <1>watcher, WatcherMoves DEF RecoverSetOnline, WatcherState
  <2> QED BY <1>13, <2>1, <2>2
     DEF RecoverSetOnline, shared, disk, notWatcher, notEjector, notDisk,
         MediaTypeOK
<1>14. ASSUME RecoverUnlock
      PROVE  MediaTypeOK'
  <2>1. lock' \in LockState
    BY <1>14, <1>lock DEF RecoverUnlock, LockState
  <2>2. watcher' \in WatcherState
    BY <1>14, <1>watcher, WatcherMoves DEF RecoverUnlock, WatcherState
  <2> QED BY <1>14, <2>1, <2>2
     DEF RecoverUnlock, shared, disk, notWatcher, notEjector, notDisk,
         MediaTypeOK
<1>15. ASSUME SetOnlineAgain
      PROVE  MediaTypeOK'
  <2>1. media' \in MediaState
    BY <1>15, <1>media, SetOnlineSteps DEF SetOnlineAgain, MediaState
  <2>2. watcher' \in WatcherState
    BY <1>15, <1>watcher, WatcherMoves DEF SetOnlineAgain, WatcherState
  <2> QED BY <1>15, <2>1, <2>2
     DEF SetOnlineAgain, shared, disk, notWatcher, notEjector, notDisk,
         MediaTypeOK
<1>16. ASSUME WatcherAnnounce
      PROVE  MediaTypeOK'
  <2>1. media' \in MediaState
    BY <1>16, <1>media DEF WatcherAnnounce, Announce, MediaState
  <2>2. watcher' \in WatcherState
    BY <1>16, <1>watcher, WatcherMoves
       DEF WatcherAnnounce, Announce, WatcherState
  <2> QED BY <1>16, <2>1, <2>2
     DEF WatcherAnnounce, shared, disk, notWatcher, notEjector, notDisk,
         MediaTypeOK
<1>17. ASSUME EjectMedia
      PROVE  MediaTypeOK'
  <2>1. lock' \in LockState
    BY <1>17, <1>lock DEF EjectMedia, LockState
  <2>2. ejector' \in EjectorState
    <3>1. ejector.count + 1 \in 0..MaxEjects
      BY <1>17, <1>ejector, MediaConstants DEF EjectMedia, EjectorState
    <3>2. ejector' = [pc |-> "mark", count |-> ejector.count + 1,
                      latched |-> ejector.latched, completed |-> ejector.completed]
      BY <1>17, <1>ejector DEF EjectMedia, EjectorState
    <3> QED BY <3>1, <3>2, <1>ejector DEF EjectorState
  <2> QED BY <1>17, <2>1, <2>2
     DEF EjectMedia, shared, disk, notWatcher, notEjector, notDisk,
         MediaTypeOK
<1>18. ASSUME MarkEjected
      PROVE  MediaTypeOK'
  <2>1. hotplug' \in HotplugState
    BY <1>18, <1>hotplug DEF MarkEjected, CardPresent, HotplugState
  <2>2. ejector' \in EjectorState
    BY <1>18, <1>ejector DEF MarkEjected, CardPresent, EjectorState
  <2> QED BY <1>18, <2>1, <2>2
     DEF MarkEjected, shared, disk, notWatcher, notEjector, notDisk,
         MediaTypeOK
<1>19. ASSUME EjectSetOffline
      PROVE  MediaTypeOK'
  <2>1. media' \in MediaState
    BY <1>19, <1>media, SetOnlineSteps DEF EjectSetOffline, MediaState
  <2>2. ejector' \in EjectorState
    BY <1>19, <1>ejector DEF EjectSetOffline, EjectorAt, EjectorState
  <2> QED BY <1>19, <2>1, <2>2
     DEF EjectSetOffline, shared, disk, notWatcher, notEjector, notDisk,
         MediaTypeOK
<1>20. ASSUME EjectLockMedia
      PROVE  MediaTypeOK'
  <2>1. lock' \in LockState
    BY <1>20, <1>lock DEF EjectLockMedia, LockState
  <2>2. ejector' \in EjectorState
    BY <1>20, <1>ejector DEF EjectLockMedia, EjectorAt, EjectorState
  <2> QED BY <1>20, <2>1, <2>2
     DEF EjectLockMedia, shared, disk, notWatcher, notEjector, notDisk,
         MediaTypeOK
<1>21. ASSUME PowerOff
      PROVE  MediaTypeOK'
  <2>1. slot' \in SlotState
    BY <1>21, <1>slot, MediaConstants DEF PowerOff, SlotState
  <2>2. ejector' \in EjectorState
    BY <1>21, <1>ejector DEF PowerOff, EjectorState
  <2> QED BY <1>21, <2>1, <2>2
     DEF PowerOff, shared, disk, notWatcher, notEjector, notDisk, MediaTypeOK
<1>22. ASSUME CancelEject
      PROVE  MediaTypeOK'
  <2>1. hotplug' \in HotplugState
    BY <1>22, <1>hotplug DEF CancelEject, HotplugState
  <2>2. ejector' \in EjectorState
    BY <1>22, <1>ejector DEF CancelEject, EjectorState
  <2> QED BY <1>22, <2>1, <2>2
     DEF CancelEject, shared, disk, notWatcher, notEjector, notDisk,
         MediaTypeOK
<1>23. ASSUME ResumeCard
      PROVE  MediaTypeOK'
  <2>1. ejector' \in EjectorState
    BY <1>23, <1>ejector DEF ResumeCard, EjectorAt, EjectorState
  <2> QED BY <1>23, <2>1
     DEF ResumeCard, shared, disk, notWatcher, notEjector, notDisk,
         MediaTypeOK
<1>24. ASSUME ResumeSetOnline
      PROVE  MediaTypeOK'
  <2>1. media' \in MediaState
    BY <1>24, <1>media, SetOnlineSteps DEF ResumeSetOnline, MediaState
  <2>2. ejector' \in EjectorState
    BY <1>24, <1>ejector DEF ResumeSetOnline, EjectorAt, EjectorState
  <2> QED BY <1>24, <2>1, <2>2
     DEF ResumeSetOnline, shared, disk, notWatcher, notEjector, notDisk,
         MediaTypeOK
<1>25. ASSUME ResumeAnnounce
      PROVE  MediaTypeOK'
  <2>1. media' \in MediaState
    BY <1>25, <1>media DEF ResumeAnnounce, Announce, MediaState
  <2>2. ejector' \in EjectorState
    BY <1>25, <1>ejector DEF ResumeAnnounce, EjectorAt, Announce, EjectorState
  <2> QED BY <1>25, <2>1, <2>2
     DEF ResumeAnnounce, shared, disk, notWatcher, notEjector, notDisk,
         MediaTypeOK
<1>26. ASSUME EjectUnlock
      PROVE  MediaTypeOK'
  <2>1. lock' \in LockState
    BY <1>26, <1>lock DEF EjectUnlock, LockState
  <2>2. ejector' \in EjectorState
    BY <1>26, <1>ejector DEF EjectUnlock, EjectorState
  <2> QED BY <1>26, <2>1, <2>2
     DEF EjectUnlock, shared, disk, notWatcher, notEjector, notDisk,
         MediaTypeOK
<1>27. ASSUME TakeChange
      PROVE  MediaTypeOK'
  <2>1. poller' \in PollerState
    BY <1>27, <1>poller DEF TakeChange, PollerState
  <2>2. media' \in MediaState
    BY <1>27, <1>media DEF TakeChange, MediaState
  <2> QED BY <1>27, <2>1, <2>2
     DEF TakeChange, shared, disk, notWatcher, notEjector, notDisk,
         MediaTypeOK
<1>28. ASSUME AnswerStatus
      PROVE  MediaTypeOK'
  <2>1. poller' \in PollerState
    BY <1>28, <1>poller DEF AnswerStatus, IsOnline, PollerState
  <2>2. media' \in MediaState
    BY <1>28, <1>media DEF AnswerStatus, IsOnline, MediaState
  <2> QED BY <1>28, <2>1, <2>2
     DEF AnswerStatus, shared, disk, notWatcher, notEjector, notDisk,
         MediaTypeOK
<1>29. ASSUME AnswerLost
      PROVE  MediaTypeOK'
  <2>1. poller' \in PollerState
    BY <1>29, <1>poller DEF AnswerLost, PollerState
  <2> QED BY <1>29, <2>1
     DEF AnswerLost, shared, disk, notWatcher, notEjector, notDisk,
         MediaTypeOK
<1>30. ASSUME RestoreChange
      PROVE  MediaTypeOK'
  <2>1. poller' \in PollerState
    BY <1>30, <1>poller DEF RestoreChange, PollerState
  <2> QED BY <1>30, <2>1
     DEF RestoreChange, shared, disk, notWatcher, notEjector, notDisk,
         MediaTypeOK
<1>31. ASSUME RestoreAnnounce
      PROVE  MediaTypeOK'
  <2>1. poller' \in PollerState
    BY <1>31, <1>poller DEF RestoreAnnounce, Announce, PollerState
  <2>2. media' \in MediaState
    BY <1>31, <1>media DEF RestoreAnnounce, Announce, MediaState
  <2> QED BY <1>31, <2>1, <2>2
     DEF RestoreAnnounce, shared, disk, notWatcher, notEjector, notDisk,
         MediaTypeOK
<1>32. ASSUME NEW r \in Request, RefuseIO(r)
      PROVE  MediaTypeOK'
  <2>1. request' \in [Request -> RequestState]
    BY <1>32, <1>request, Answered DEF RefuseIO, Result
  <2> QED BY <1>32, <2>1
     DEF RefuseIO, shared, disk, notWatcher, notEjector, notDisk, MediaTypeOK
<1>33. ASSUME NEW r \in Request, DoIO(r)
      PROVE  MediaTypeOK'
  <2>1. request' \in [Request -> RequestState]
    <3>1. CASE IsOnline
      <4>1. media.state \in Nat /\ slot.known \in 0..MaxCards
        BY <1>slot, <1>media DEF SlotState, MediaState
      <4>2. request[r] \in RequestState
        BY <1>33, <1>request
      <4>3. [request[r] EXCEPT !.pc = "captured", !.epoch = media.state,
                               !.card = slot.known] \in RequestState
        BY <4>1, <4>2 DEF RequestState
      <4> QED BY <1>33, <3>1, <1>request, <4>3 DEF DoIO
    <3>2. CASE ~IsOnline
      BY <1>33, <3>2, <1>request, Answered DEF DoIO, Result
    <3> QED BY <3>1, <3>2
  <2> QED BY <1>33, <2>1
     DEF DoIO, shared, disk, notWatcher, notEjector, notDisk, MediaTypeOK
<1>34. ASSUME NEW r \in Request, EnqueueRequest(r)
      PROVE  MediaTypeOK'
  <2>1. request' \in [Request -> RequestState]
    <3> DEFINE refused == teardown.stopping \/ media.state # request[r].epoch
    <3>1. CASE refused
      BY <1>34, <3>1, <1>request, Answered DEF EnqueueRequest, Result
    <3>2. CASE ~refused
      BY <1>34, <3>2, <1>request DEF EnqueueRequest, RequestState
    <3> QED BY <3>1, <3>2
  <2>2. queue' \in Seq(Request)
    BY <1>34, <1>queue DEF EnqueueRequest
  <2>3. unposted' \in Nat
    BY <1>34, <1>unposted DEF EnqueueRequest
  <2> QED BY <1>34, <2>1, <2>2, <2>3
     DEF EnqueueRequest, shared, disk, notWatcher, notEjector, notDisk,
         MediaTypeOK
<1>35. ASSUME PostRequest
      PROVE  MediaTypeOK'
  <2>1. unposted' \in Nat
    BY <1>35, <1>unposted DEF PostRequest
  <2>2. tokens' \in Nat
    BY <1>35, <1>tokens DEF PostRequest
  <2> QED BY <1>35, <2>1, <2>2
     DEF PostRequest, shared, disk, notWatcher, notEjector, notDisk,
         MediaTypeOK
<1>36. ASSUME TakeRequest
      PROVE  MediaTypeOK'
  <2>1. tokens' \in Nat
    BY <1>36, <1>tokens DEF TakeRequest
  <2>2. queue' \in Seq(Request)
    BY <1>36, <1>queue DEF TakeRequest
  <2>3. io' \in IoState
    <3>1. CASE queue = <<>>
      BY <1>36, <3>1, <1>io, IoMoves DEF TakeRequest
    <3>2. CASE queue # <<>>
      <4>1. Head(queue) \in Request
        BY <3>2, <1>queue
      <4>2. CASE teardown.stopping
        <5>1. io' = [io EXCEPT !.pc = "notify", !.request = Head(queue),
                               !.answer = "canceled"]
          BY <1>36, <3>2, <4>2 DEF TakeRequest
        <5> QED BY <4>1, <5>1, <1>io DEF IoState, Result
      <4>3. CASE ~teardown.stopping
        <5>1. io' = [io EXCEPT !.pc = "lock", !.request = Head(queue)]
          BY <1>36, <3>2, <4>3 DEF TakeRequest
        <5> QED BY <4>1, <5>1, <1>io DEF IoState
      <4> QED BY <4>2, <4>3
    <3> QED BY <3>1, <3>2
  <2> QED BY <1>36, <2>1, <2>2, <2>3
     DEF TakeRequest, shared, disk, notWatcher, notEjector, notDisk,
         MediaTypeOK
<1>37. ASSUME NEW write \in BOOLEAN, LockRequestMedia(write)
      PROVE  MediaTypeOK'
  <2>1. lock' \in LockState
    BY <1>37, <1>lock DEF LockRequestMedia, LockState
  <2>2. io' \in IoState
    BY <1>37, <1>io DEF LockRequestMedia, IoState
  <2> QED BY <1>37, <2>1, <2>2
     DEF LockRequestMedia, shared, disk, notWatcher, notEjector, notDisk,
         MediaTypeOK
<1>38. ASSUME NextChunk
      PROVE  MediaTypeOK'
  <2>1. io' \in IoState
    BY <1>38, <1>io, IoMoves DEF NextChunk, Result
  <2> QED BY <1>38, <2>1
     DEF NextChunk, shared, disk, notWatcher, notEjector, notDisk, MediaTypeOK
<1>39. ASSUME TransferStaging
      PROVE  MediaTypeOK'
  <2>1. request' \in [Request -> RequestState]
    <3>1. CASE IoAt("fault") /\ UNCHANGED request
      BY <3>1, <1>request
    <3>2. CASE /\ slot.responds
               /\ request' = [request EXCEPT ![io.request].touched =
                                @ \cup {slot.card}]
      <4>1. io.request \in Request
        BY <1>39 DEF TransferStaging, WorkIsQueued
      <4>2. slot.card \in 1..MaxCards
        BY <3>2, <1>slot, MediaConstants DEF RespondsIfKnown, CardPresent, SlotState
      <4>3. request[io.request] \in RequestState
        BY <4>1, <1>request
      <4>4. request[io.request].touched \cup {slot.card} \in SUBSET (1..MaxCards)
        BY <4>2, <4>3 DEF RequestState
      <4>5. [request[io.request] EXCEPT !.touched = @ \cup {slot.card}] \in RequestState
        BY <4>3, <4>4 DEF RequestState
      <4> QED BY <3>2, <4>1, <4>5, <1>request
    <3> QED BY <1>39, <3>1, <3>2 DEF TransferStaging
  <2>2. io' \in IoState
    BY <1>39, <1>io, IoMoves DEF TransferStaging, IoState
  <2> QED BY <1>39, <2>1, <2>2
     DEF TransferStaging, shared, disk, notWatcher, notEjector, notDisk,
         MediaTypeOK
<1>40. ASSUME TransferFault
      PROVE  MediaTypeOK'
  <2>1. media' \in MediaState
    BY <1>40, <1>media, SetOnlineSteps DEF TransferFault, MediaState
  <2>2. io' \in IoState
    BY <1>40, <1>io, IoMoves DEF TransferFault, Result
  <2> QED BY <1>40, <2>1, <2>2
     DEF TransferFault, shared, disk, notWatcher, notEjector, notDisk,
         MediaTypeOK
<1>41. ASSUME FillStaging
      PROVE  MediaTypeOK'
  <2>1. io' \in IoState
    BY <1>41, <1>io, IoMoves DEF FillStaging, Result
  <2> QED BY <1>41, <2>1
     DEF FillStaging, shared, disk, notWatcher, notEjector, notDisk,
         MediaTypeOK
<1>42. ASSUME SettleChunk
      PROVE  MediaTypeOK'
  <2>1. io' \in IoState
    <3>1. CASE IoAnswer("error") \/ IoAnswer("noMedia") \/ IoAnswer("ok")
      BY <3>1, <1>io, IoMoves DEF Result
    <3>2. CASE /\ io.chunks + 1 < MaxChunks
               /\ io' = [io EXCEPT !.pc = "chunk", !.chunks = @ + 1]
      <4>1. io.chunks + 1 \in 0..MaxChunks
        BY <3>2, <1>io, MediaConstants DEF IoState
      <4> QED BY <3>2, <4>1, <1>io DEF IoState
    <3> QED BY <1>42, <3>1, <3>2 DEF SettleChunk
  <2> QED BY <1>42, <2>1
     DEF SettleChunk, shared, disk, notWatcher, notEjector, notDisk,
         MediaTypeOK
<1>43. ASSUME NotifyRequest
      PROVE  MediaTypeOK'
  <2>1. lock' \in LockState
    BY <1>43, <1>lock DEF NotifyRequest, IdleIo, LockState
  <2>2. request' \in [Request -> RequestState]
    <3>1. io.request \in Request /\ io.answer \in Result
      BY <1>43, <1>io DEF NotifyRequest, WorkIsQueued, IoState
    <3> QED BY <1>43, <3>1, <1>request, Answered DEF NotifyRequest
  <2>3. io' \in IoState
    BY <1>43, MediaConstants DEF NotifyRequest, IdleIo, IoState, Result
  <2> QED BY <1>43, <2>1, <2>2, <2>3
     DEF NotifyRequest, shared, disk, notWatcher, notEjector, notDisk,
         MediaTypeOK
<1>44. ASSUME StopWatcher
      PROVE  MediaTypeOK'
  <2>1. teardown' \in TeardownState
    BY <1>44, <1>teardown DEF StopWatcher, TeardownState
  <2> QED BY <1>44, <2>1
     DEF StopWatcher, shared, disk, notWatcher, notEjector, notDisk,
         MediaTypeOK
<1>45. ASSUME StopRequests
      PROVE  MediaTypeOK'
  <2>1. teardown' \in TeardownState
    BY <1>45, <1>teardown DEF StopRequests, TeardownState
  <2>2. tokens' \in Nat
    BY <1>45, <1>tokens DEF StopRequests
  <2> QED BY <1>45, <2>1, <2>2
     DEF StopRequests, shared, disk, notWatcher, notEjector, notDisk,
         MediaTypeOK
<1>46. ASSUME CancelQueued
      PROVE  MediaTypeOK'
  <2>1. request' \in [Request -> RequestState]
    <3>1. \A w \in RequestState :
             [w EXCEPT !.pc = "answered", !.answer = "canceled"] \in RequestState
      BY DEF RequestState, Result
    <3> QED BY <1>46, <1>request, <3>1 DEF CancelQueued
  <2>2. queue' \in Seq(Request)
    <3>1. queue' = <<>>
      BY <1>46 DEF CancelQueued
    <3> QED BY <3>1
  <2>3. teardown' \in TeardownState
    BY <1>46, <1>teardown DEF CancelQueued, TeardownState
  <2> QED BY <1>46, <2>1, <2>2, <2>3
     DEF CancelQueued, shared, disk, notWatcher, notEjector, notDisk,
         MediaTypeOK
<1>262. CASE teardown.pc = "done" /\ UNCHANGED mediaVars
  BY <1>262 DEF MediaTypeOK, mediaVars, shared, disk
<1> QED
  BY <1>1, <1>2, <1>3, <1>4, <1>5, <1>6, <1>7, <1>8, <1>9, <1>10, <1>11,
     <1>12, <1>13, <1>14, <1>15, <1>16, <1>17, <1>18, <1>19, <1>20, <1>21,
     <1>22, <1>23, <1>24, <1>25, <1>26, <1>27, <1>28, <1>29, <1>30, <1>31,
     <1>32, <1>33, <1>34, <1>35, <1>36, <1>37, <1>38, <1>39, <1>40, <1>41,
     <1>42, <1>43, <1>44, <1>45, <1>46, <1>262
     DEF MediaNext, WatcherStep, EjectStep, PollerStep, IoStep

\* Locks are taken and dropped where the threads say they hold them
LEMMA LocksStep ==
    ASSUME MediaTypeOK, LocksHeld, [MediaNext]_mediaVars
    PROVE  LocksHeld'
<1>lock. lock \in LockState
  BY DEF MediaTypeOK
<1>watcher. watcher \in WatcherState
  BY DEF MediaTypeOK
<1>ejector. ejector \in EjectorState
  BY DEF MediaTypeOK
<1>io. io \in IoState
  BY DEF MediaTypeOK
<1>1. CASE RemoveCard
  BY <1>1, <1>ejector
     DEF RemoveCard, CardPresent, EjectorState, shared, disk, notWatcher,
         notEjector, notDisk, LocksHeld
<1>2. CASE PollSlot
  BY <1>2, <1>watcher
     DEF PollSlot, CardPresent, WatcherState, shared, disk, notWatcher,
         notEjector, notDisk, LocksHeld
<1>3. CASE PollOnline
  BY <1>3, <1>watcher
     DEF PollOnline, IsOnline, WatcherState, shared, disk, notWatcher,
         notEjector, notDisk, LocksHeld
<1>4. CASE ObserveAbsent
  BY <1>4, WatcherMoves, <1>watcher
     DEF ObserveAbsent, RemovalSeen, WatcherState, shared, disk, notWatcher,
         notEjector, notDisk, LocksHeld
<1>5. CASE Rearm
  BY <1>5, WatcherMoves, <1>watcher
     DEF Rearm, WatcherState, shared, disk, notWatcher, notEjector, notDisk,
         LocksHeld
<1>6. CASE ObservePresent
  BY <1>6, WatcherMoves, <1>watcher
     DEF ObservePresent, ShouldIdentify, WatcherState, shared, disk,
         notWatcher, notEjector, notDisk, LocksHeld
<1>7. CASE HandleAction
  BY <1>7, WatcherMoves, <1>watcher
     DEF HandleAction, WatcherState, shared, disk, notWatcher, notEjector,
         notDisk, LocksHeld
<1>8. CASE RecoverCard
  BY <1>8, WatcherMoves, <1>lock, <1>watcher
     DEF RecoverCard, LockState, WatcherState, shared, disk, notWatcher,
         notEjector, notDisk, LocksHeld
<1>9. CASE RecoverLockMedia
  BY <1>9, WatcherMoves, <1>lock, <1>watcher
     DEF RecoverLockMedia, LockState, WatcherState, shared, disk, notWatcher,
         notEjector, notDisk, LocksHeld
<1>10. CASE Identified
  BY <1>10, WatcherMoves, <1>watcher
     DEF Identified, CardPresent, WatcherState, shared, disk, notWatcher,
         notEjector, notDisk, LocksHeld
<1>11. CASE NotIdentified
  BY <1>11, WatcherMoves, <1>watcher
     DEF NotIdentified, WatcherState, shared, disk, notWatcher, notEjector,
         notDisk, LocksHeld
<1>12. CASE RecoverSetOnline
  BY <1>12, WatcherMoves, <1>watcher
     DEF RecoverSetOnline, WatcherState, shared, disk, notWatcher, notEjector,
         notDisk, LocksHeld
<1>13. CASE RecoverUnlock
  BY <1>13, WatcherMoves, <1>lock, <1>watcher
     DEF RecoverUnlock, LockState, WatcherState, shared, disk, notWatcher,
         notEjector, notDisk, LocksHeld
<1>14. CASE SetOnlineAgain
  BY <1>14, WatcherMoves, <1>watcher
     DEF SetOnlineAgain, WatcherState, shared, disk, notWatcher, notEjector,
         notDisk, LocksHeld
<1>15. CASE WatcherAnnounce
  BY <1>15, WatcherMoves, <1>watcher
     DEF WatcherAnnounce, WatcherState, shared, disk, notWatcher, notEjector,
         notDisk, LocksHeld
<1>16. CASE EjectMedia
  BY <1>16, <1>lock, <1>ejector
     DEF EjectMedia, LockState, EjectorState, shared, disk, notWatcher,
         notEjector, notDisk, LocksHeld
<1>17. CASE MarkEjected
  BY <1>17, <1>ejector
     DEF MarkEjected, CardPresent, EjectorState, shared, disk, notWatcher,
         notEjector, notDisk, LocksHeld
<1>18. CASE EjectSetOffline
  BY <1>18, <1>ejector
     DEF EjectSetOffline, EjectorAt, EjectorState, shared, disk, notWatcher,
         notEjector, notDisk, LocksHeld
<1>19. CASE EjectLockMedia
  BY <1>19, <1>lock, <1>ejector
     DEF EjectLockMedia, EjectorAt, LockState, EjectorState, shared, disk,
         notWatcher, notEjector, notDisk, LocksHeld
<1>20. CASE PowerOff
  BY <1>20, <1>ejector
     DEF PowerOff, EjectorState, shared, disk, notWatcher, notEjector,
         notDisk, LocksHeld
<1>21. CASE CancelEject
  BY <1>21, <1>ejector
     DEF CancelEject, EjectorState, shared, disk, notWatcher, notEjector,
         notDisk, LocksHeld
<1>22. CASE ResumeCard
  BY <1>22, <1>ejector
     DEF ResumeCard, EjectorAt, EjectorState, shared, disk, notWatcher,
         notEjector, notDisk, LocksHeld
<1>23. CASE ResumeSetOnline
  BY <1>23, <1>ejector
     DEF ResumeSetOnline, EjectorAt, EjectorState, shared, disk, notWatcher,
         notEjector, notDisk, LocksHeld
<1>24. CASE ResumeAnnounce
  BY <1>24, <1>ejector
     DEF ResumeAnnounce, EjectorAt, EjectorState, shared, disk, notWatcher,
         notEjector, notDisk, LocksHeld
<1>25. CASE EjectUnlock
  BY <1>25, <1>lock, <1>ejector
     DEF EjectUnlock, LockState, EjectorState, shared, disk, notWatcher,
         notEjector, notDisk, LocksHeld
<1>26. CASE TakeRequest
  BY <1>26, IoMoves, <1>io
     DEF TakeRequest, Result, IoState, shared, disk, notWatcher, notEjector,
         notDisk, LocksHeld
<1>27. ASSUME NEW write \in BOOLEAN, LockRequestMedia(write)
      PROVE  LocksHeld'
  BY <1>27, <1>lock, <1>io
     DEF LockRequestMedia, LockState, IoState, shared, disk, notWatcher,
         notEjector, notDisk, LocksHeld
<1>28. CASE NextChunk
  BY <1>28, IoMoves, <1>io
     DEF NextChunk, Result, IoState, shared, disk, notWatcher, notEjector,
         notDisk, LocksHeld
<1>29. CASE TransferStaging
  BY <1>29, IoMoves, <1>io
     DEF TransferStaging, Result, IoState, shared, disk, notWatcher,
         notEjector, notDisk, LocksHeld
<1>30. CASE TransferFault
  BY <1>30, IoMoves, <1>io
     DEF TransferFault, Result, IoState, shared, disk, notWatcher, notEjector,
         notDisk, LocksHeld
<1>31. CASE FillStaging
  BY <1>31, IoMoves, <1>io
     DEF FillStaging, Result, IoState, shared, disk, notWatcher, notEjector,
         notDisk, LocksHeld
<1>32. CASE SettleChunk
  BY <1>32, IoMoves, <1>io
     DEF SettleChunk, Result, IoState, shared, disk, notWatcher, notEjector,
         notDisk, LocksHeld
<1>33. CASE NotifyRequest
  BY <1>33, <1>lock, <1>io
     DEF NotifyRequest, IdleIo, LockState, IoState, shared, disk, notWatcher,
         notEjector, notDisk, LocksHeld
<1>34. CASE \/ InsertCard \/ TakeChange \/ AnswerStatus \/ AnswerLost
            \/ RestoreChange \/ RestoreAnnounce \/ PostRequest
            \/ StopWatcher \/ StopRequests \/ CancelQueued
            \/ (\E r \in Request : RefuseIO(r) \/ DoIO(r) \/ EnqueueRequest(r))
            \/ UNCHANGED mediaVars
  <2>1. UNCHANGED <<lock, watcher, ejector, io>>
    BY <1>34
       DEF InsertCard, TakeChange, AnswerStatus, AnswerLost, RestoreChange,
           RestoreAnnounce, RefuseIO, DoIO, EnqueueRequest, PostRequest,
           StopWatcher, StopRequests, CancelQueued, mediaVars, shared, disk,
           notWatcher, notEjector, notDisk
  <2> QED BY <2>1 DEF LocksHeld
<1> QED
  BY <1>1, <1>2, <1>3, <1>4, <1>5, <1>6, <1>7, <1>8, <1>9, <1>10, <1>11,
     <1>12, <1>13, <1>14, <1>15, <1>16, <1>17, <1>18, <1>19, <1>20, <1>21,
     <1>22, <1>23, <1>24, <1>25, <1>26, <1>27, <1>28, <1>29, <1>30, <1>31,
     <1>32, <1>33, <1>34
     DEF MediaNext, WatcherStep, EjectStep, PollerStep, IoStep

LEMMA OfflineStep ==
    ASSUME MediaTypeOK, LocksHeld, OfflineMeanwhile, [MediaNext]_mediaVars
    PROVE  OfflineMeanwhile'
<1>media. media \in MediaState
  BY DEF MediaTypeOK
<1>watcher. watcher \in WatcherState
  BY DEF MediaTypeOK
<1>1. CASE PollSlot
  BY <1>1, <1>watcher
     DEF PollSlot, CardPresent, WatcherState, shared, disk, notWatcher,
         notEjector, notDisk, OfflineMeanwhile, IsOnline, LocksHeld
<1>2. CASE PollOnline
  BY <1>2, <1>watcher
     DEF PollOnline, IsOnline, WatcherState, shared, disk, notWatcher,
         notEjector, notDisk, OfflineMeanwhile, IsOnline, LocksHeld
<1>3. CASE ObserveAbsent
  BY <1>3, WatcherMoves, <1>watcher
     DEF ObserveAbsent, RemovalSeen, WatcherState, shared, disk, notWatcher,
         notEjector, notDisk, OfflineMeanwhile, IsOnline, LocksHeld
<1>4. CASE Rearm
  BY <1>4, WatcherMoves, <1>watcher
     DEF Rearm, WatcherState, shared, disk, notWatcher, notEjector, notDisk,
         OfflineMeanwhile, IsOnline, LocksHeld
<1>5. CASE ObservePresent
  BY <1>5, WatcherMoves, <1>watcher
     DEF ObservePresent, ShouldIdentify, WatcherState, shared, disk,
         notWatcher, notEjector, notDisk, OfflineMeanwhile, IsOnline,
         LocksHeld
<1>6. CASE HandleAction
  BY <1>6, WatcherMoves, SetOnlineSteps, <1>media, <1>watcher
     DEF HandleAction, MediaState, WatcherState, shared, disk, notWatcher,
         notEjector, notDisk, OfflineMeanwhile, IsOnline, LocksHeld
<1>7. CASE RecoverCard
  BY <1>7, WatcherMoves, SetOnlineSteps, <1>media, <1>watcher
     DEF RecoverCard, MediaState, WatcherState, shared, disk, notWatcher,
         notEjector, notDisk, OfflineMeanwhile, IsOnline, LocksHeld
<1>8. CASE RecoverLockMedia
  BY <1>8, WatcherMoves, <1>watcher
     DEF RecoverLockMedia, WatcherState, shared, disk, notWatcher, notEjector,
         notDisk, OfflineMeanwhile, IsOnline, LocksHeld
<1>9. CASE Identified
  BY <1>9, WatcherMoves, <1>watcher
     DEF Identified, CardPresent, WatcherState, shared, disk, notWatcher,
         notEjector, notDisk, OfflineMeanwhile, IsOnline, LocksHeld
<1>10. CASE NotIdentified
  BY <1>10, WatcherMoves, <1>watcher
     DEF NotIdentified, WatcherState, shared, disk, notWatcher, notEjector,
         notDisk, OfflineMeanwhile, IsOnline, LocksHeld
<1>11. CASE RecoverSetOnline
  BY <1>11, WatcherMoves, SetOnlineSteps, <1>media, <1>watcher
     DEF RecoverSetOnline, MediaState, WatcherState, shared, disk, notWatcher,
         notEjector, notDisk, OfflineMeanwhile, IsOnline, LocksHeld
<1>12. CASE RecoverUnlock
  BY <1>12, WatcherMoves, <1>watcher
     DEF RecoverUnlock, WatcherState, shared, disk, notWatcher, notEjector,
         notDisk, OfflineMeanwhile, IsOnline, LocksHeld
<1>13. CASE SetOnlineAgain
  BY <1>13, WatcherMoves, SetOnlineSteps, <1>media, <1>watcher
     DEF SetOnlineAgain, MediaState, WatcherState, shared, disk, notWatcher,
         notEjector, notDisk, OfflineMeanwhile, IsOnline, LocksHeld
<1>14. CASE WatcherAnnounce
  BY <1>14, WatcherMoves, <1>media, <1>watcher
     DEF WatcherAnnounce, Announce, MediaState, WatcherState, shared, disk,
         notWatcher, notEjector, notDisk, OfflineMeanwhile, IsOnline,
         LocksHeld
<1>15. CASE EjectSetOffline
  BY <1>15, SetOnlineSteps, <1>media
     DEF EjectSetOffline, MediaState, shared, disk, notWatcher, notEjector,
         notDisk, OfflineMeanwhile, IsOnline, LocksHeld
<1>16. CASE ResumeSetOnline
  BY <1>16, SetOnlineSteps, <1>media
     DEF ResumeSetOnline, MediaState, shared, disk, notWatcher, notEjector,
         notDisk, OfflineMeanwhile, IsOnline, LocksHeld
<1>17. CASE ResumeAnnounce
  BY <1>17, <1>media
     DEF ResumeAnnounce, Announce, MediaState, shared, disk, notWatcher,
         notEjector, notDisk, OfflineMeanwhile, IsOnline, LocksHeld
<1>18. CASE TakeChange
  BY <1>18, <1>media
     DEF TakeChange, MediaState, shared, disk, notWatcher, notEjector,
         notDisk, OfflineMeanwhile, IsOnline, LocksHeld
<1>19. CASE AnswerStatus
  BY <1>19, <1>media
     DEF AnswerStatus, IsOnline, MediaState, shared, disk, notWatcher,
         notEjector, notDisk, OfflineMeanwhile, IsOnline, LocksHeld
<1>20. CASE RestoreAnnounce
  BY <1>20, <1>media
     DEF RestoreAnnounce, Announce, MediaState, shared, disk, notWatcher,
         notEjector, notDisk, OfflineMeanwhile, IsOnline, LocksHeld
<1>21. CASE TransferFault
  BY <1>21, SetOnlineSteps, <1>media
     DEF TransferFault, MediaState, shared, disk, notWatcher, notEjector,
         notDisk, OfflineMeanwhile, IsOnline, LocksHeld
<1>22. CASE \/ InsertCard \/ RemoveCard \/ EjectMedia \/ MarkEjected
            \/ EjectLockMedia \/ PowerOff \/ CancelEject \/ ResumeCard
            \/ EjectUnlock \/ AnswerLost \/ RestoreChange \/ PostRequest
            \/ TakeRequest \/ NextChunk \/ TransferStaging \/ FillStaging
            \/ SettleChunk \/ NotifyRequest \/ StopWatcher \/ StopRequests
            \/ CancelQueued
            \/ (\E r \in Request : RefuseIO(r) \/ DoIO(r) \/ EnqueueRequest(r))
            \/ (\E write \in BOOLEAN : LockRequestMedia(write))
            \/ UNCHANGED mediaVars
  <2>1. UNCHANGED <<media, watcher>>
    BY <1>22
       DEF InsertCard, RemoveCard, EjectMedia, MarkEjected, EjectLockMedia,
           PowerOff, CancelEject, ResumeCard, EjectUnlock, AnswerLost,
           RestoreChange, RefuseIO, DoIO, EnqueueRequest, PostRequest,
           TakeRequest, LockRequestMedia, NextChunk, TransferStaging,
           FillStaging, SettleChunk, NotifyRequest, StopWatcher, StopRequests,
           CancelQueued, mediaVars, shared, disk, notWatcher, notEjector,
           notDisk
  <2> QED BY <2>1 DEF OfflineMeanwhile, IsOnline
<1> QED
  BY <1>1, <1>2, <1>3, <1>4, <1>5, <1>6, <1>7, <1>8, <1>9, <1>10, <1>11,
     <1>12, <1>13, <1>14, <1>15, <1>16, <1>17, <1>18, <1>19, <1>20, <1>21,
     <1>22
     DEF MediaNext, WatcherStep, EjectStep, PollerStep, IoStep

LEMMA RespondsStep ==
    ASSUME MediaTypeOK, RespondsIfKnown, [MediaNext]_mediaVars
    PROVE  RespondsIfKnown'
<1>slot. slot \in SlotState
  BY DEF MediaTypeOK
<1>1. CASE InsertCard
  BY <1>1, <1>slot
     DEF InsertCard, CardPresent, SlotState, shared, disk, notWatcher,
         notEjector, notDisk, RespondsIfKnown, CardPresent
<1>2. CASE RemoveCard
  BY <1>2, <1>slot
     DEF RemoveCard, CardPresent, SlotState, shared, disk, notWatcher,
         notEjector, notDisk, RespondsIfKnown, CardPresent
<1>3. CASE RecoverLockMedia
  BY <1>3, <1>slot
     DEF RecoverLockMedia, ResetSlot, SlotState, shared, disk, notWatcher,
         notEjector, notDisk, RespondsIfKnown, CardPresent
<1>4. CASE Identified
  BY <1>4, <1>slot
     DEF Identified, CardPresent, SlotState, shared, disk, notWatcher,
         notEjector, notDisk, RespondsIfKnown, CardPresent
<1>5. CASE PowerOff
  BY <1>5, <1>slot
     DEF PowerOff, SlotState, shared, disk, notWatcher, notEjector, notDisk,
         RespondsIfKnown, CardPresent
<1>6. CASE \/ PollSlot \/ PollOnline \/ ObserveAbsent \/ Rearm
           \/ ObservePresent \/ HandleAction \/ RecoverCard
           \/ NotIdentified \/ RecoverSetOnline \/ RecoverUnlock
           \/ SetOnlineAgain \/ WatcherAnnounce \/ EjectMedia
           \/ MarkEjected \/ EjectSetOffline \/ EjectLockMedia
           \/ CancelEject \/ ResumeCard \/ ResumeSetOnline
           \/ ResumeAnnounce \/ EjectUnlock \/ TakeChange \/ AnswerStatus
           \/ AnswerLost \/ RestoreChange \/ RestoreAnnounce \/ PostRequest
           \/ TakeRequest \/ NextChunk \/ TransferStaging \/ TransferFault
           \/ FillStaging \/ SettleChunk \/ NotifyRequest \/ StopWatcher
           \/ StopRequests \/ CancelQueued
           \/ (\E r \in Request : RefuseIO(r) \/ DoIO(r) \/ EnqueueRequest(r))
           \/ (\E write \in BOOLEAN : LockRequestMedia(write))
           \/ UNCHANGED mediaVars
  <2>1. UNCHANGED slot
    BY <1>6
       DEF PollSlot, PollOnline, ObserveAbsent, Rearm, ObservePresent,
           HandleAction, RecoverCard, NotIdentified, RecoverSetOnline,
           RecoverUnlock, SetOnlineAgain, WatcherAnnounce, EjectMedia,
           MarkEjected, EjectSetOffline, EjectLockMedia, CancelEject,
           ResumeCard, ResumeSetOnline, ResumeAnnounce, EjectUnlock,
           TakeChange, AnswerStatus, AnswerLost, RestoreChange,
           RestoreAnnounce, RefuseIO, DoIO, EnqueueRequest, PostRequest,
           TakeRequest, LockRequestMedia, NextChunk, TransferStaging,
           TransferFault, FillStaging, SettleChunk, NotifyRequest,
           StopWatcher, StopRequests, CancelQueued, mediaVars, shared, disk,
           notWatcher, notEjector, notDisk
  <2> QED BY <2>1 DEF RespondsIfKnown, CardPresent
<1> QED
  BY <1>1, <1>2, <1>3, <1>4, <1>5, <1>6
     DEF MediaNext, WatcherStep, EjectStep, PollerStep, IoStep

\* What a step may do to a request: nothing, capture its epoch, answer it, queue
\* it, or move its data
LEMMA RequestSteps ==
    ASSUME MediaTypeOK, WorkIsQueued, [MediaNext]_mediaVars, NEW q \in Request
    PROVE  \/ request'[q] = request[q]
           \/ /\ request[q].pc = "new" /\ request'[q].pc = "captured"
              /\ request'[q].epoch = media.state /\ request'[q].card = slot.known
              /\ request'[q].touched = request[q].touched
              /\ IsOnline /\ media' = media /\ slot' = slot /\ io' = io
           \/ /\ request'[q].pc = "answered"
              /\ request'[q].touched = request[q].touched
              /\ request'[q].card = request[q].card
              /\ \/ request[q].pc # "queued"
                 \/ /\ io.pc \in {"unlock", "notify"} /\ io.request = q
                    /\ io'.pc = "acquire"
                 \/ io.pc = "exited" /\ io' = io /\ queue' = <<>>
           \/ /\ request[q].pc = "captured"
              /\ request'[q] = [request[q] EXCEPT !.pc = "queued"]
           \/ /\ io.pc \in {"transfer", "readBefore"} /\ io.request = q
              /\ slot.responds /\ slot' = slot /\ media' = media
              /\ request'[q] = [request[q] EXCEPT !.touched = @ \cup {slot.card}]
<1> USE DEF RequestState
<1>request. request \in [Request -> RequestState] /\ request[q] \in RequestState
  BY DEF MediaTypeOK
<1>io. io \in IoState
  BY DEF MediaTypeOK
<1>1. ASSUME NEW r \in Request, RefuseIO(r)
      PROVE  \/ request'[q] = request[q]
             \/ /\ request'[q].pc = "answered"
                /\ request'[q].touched = request[q].touched
                /\ request'[q].card = request[q].card
                /\ request[q].pc # "queued"
  BY <1>1, <1>request, Answered DEF RefuseIO, Arrives, Result
<1>2. ASSUME NEW r \in Request, DoIO(r)
      PROVE  \/ request'[q] = request[q]
             \/ /\ request[q].pc = "new" /\ request'[q].pc = "captured"
                /\ request'[q].epoch = media.state /\ request'[q].card = slot.known
                /\ request'[q].touched = request[q].touched
                /\ IsOnline /\ media' = media /\ slot' = slot /\ io' = io
             \/ /\ request'[q].pc = "answered"
                /\ request'[q].touched = request[q].touched
                /\ request'[q].card = request[q].card
                /\ request[q].pc # "queued"
  <2>1. CASE IsOnline
    <3>1. request' = [request EXCEPT ![r].pc = "captured",
                          ![r].epoch = media.state, ![r].card = slot.known]
      BY <1>2, <2>1 DEF DoIO
    <3>2. r # q => request'[q] = request[q]
      BY <3>1, <1>request
    <3>3. r = q => request'[q] = [request[q] EXCEPT !.pc = "captured",
                                    !.epoch = media.state, !.card = slot.known]
      BY <3>1, <1>request
    <3> QED BY <1>2, <2>1, <3>2, <3>3, <1>request
            DEF DoIO, Arrives, shared, notDisk
  <2>2. CASE ~IsOnline
    BY <1>2, <2>2, <1>request, Answered DEF DoIO, Arrives, Result
  <2> QED BY <2>1, <2>2
<1>3. ASSUME NEW r \in Request, EnqueueRequest(r)
      PROVE  \/ request'[q] = request[q]
             \/ /\ request[q].pc = "captured"
                /\ request'[q] = [request[q] EXCEPT !.pc = "queued"]
             \/ /\ request'[q].pc = "answered"
                /\ request'[q].touched = request[q].touched
                /\ request'[q].card = request[q].card
                /\ request[q].pc # "queued"
  <2>1. CASE teardown.stopping \/ media.state # request[r].epoch
    BY <1>3, <2>1, <1>request, Answered DEF EnqueueRequest, Result
  <2>2. CASE ~(teardown.stopping \/ media.state # request[r].epoch)
    BY <1>3, <2>2, <1>request DEF EnqueueRequest
  <2> QED BY <2>1, <2>2
<1>4. CASE TransferStaging
  <2>1. CASE UNCHANGED request
    BY <2>1
  <2>2. CASE /\ slot.responds
             /\ request' = [request EXCEPT ![io.request].touched =
                              @ \cup {slot.card}]
    <3>1. io.pc \in {"transfer", "readBefore"} /\ slot' = slot /\ media' = media
      BY <1>4 DEF TransferStaging, shared
    <3>2. io.request \in Request
      BY <3>1 DEF WorkIsQueued
    <3> QED BY <2>2, <3>1, <3>2, <1>request
  <2> QED BY <1>4, <2>1, <2>2 DEF TransferStaging
<1>5. CASE NotifyRequest
  <2>1. io.request \in Request /\ io.answer \in Result
    BY <1>5, <1>io DEF NotifyRequest, WorkIsQueued, IoState
  <2>2. Answer(io.request, io.answer)
    BY <1>5 DEF NotifyRequest
  <2>3. io'.pc = "acquire" /\ io.pc \in {"unlock", "notify"}
    BY <1>5 DEF NotifyRequest, IdleIo
  <2> QED BY <2>1, <2>2, <2>3, <1>request, Answered
<1>6. CASE CancelQueued
  <2>1. io.pc = "exited" /\ io' = io /\ queue' = <<>>
    BY <1>6 DEF CancelQueued
  <2>2. request'[q] = request[q]
        \/ request'[q] = [request[q] EXCEPT !.pc = "answered", !.answer = "canceled"]
    BY <1>6 DEF CancelQueued
  <2> QED BY <2>1, <2>2, <1>request
<1>7. CASE \/ InsertCard \/ RemoveCard \/ EjectMedia \/ TakeChange \/ StopWatcher
           \/ PostRequest \/ WatcherStep \/ EjectStep \/ PollerStep
           \/ TakeRequest \/ (\E write \in BOOLEAN : LockRequestMedia(write))
           \/ NextChunk \/ TransferFault \/ FillStaging \/ SettleChunk
           \/ StopRequests \/ UNCHANGED mediaVars
  <2>1. request' = request
    BY <1>7
       DEF InsertCard, RemoveCard, EjectMedia, TakeChange, StopWatcher,
           PostRequest, WatcherStep, EjectStep, PollerStep, TakeRequest,
           LockRequestMedia, NextChunk, TransferFault, FillStaging, SettleChunk,
           StopRequests, PollSlot, PollOnline, ObserveAbsent, Rearm,
           ObservePresent, HandleAction, RecoverCard, RecoverLockMedia,
           Identified, NotIdentified, RecoverSetOnline, RecoverUnlock,
           SetOnlineAgain, WatcherAnnounce, MarkEjected, EjectSetOffline,
           EjectLockMedia, PowerOff, CancelEject, ResumeCard, ResumeSetOnline,
           ResumeAnnounce, EjectUnlock, AnswerStatus, AnswerLost, RestoreChange,
           RestoreAnnounce, mediaVars, shared, disk, notWatcher, notEjector,
           notDisk
  <2> QED BY <2>1
<1> QED
  BY <1>1, <1>2, <1>3, <1>4, <1>5, <1>6, <1>7 DEF MediaNext, IoStep

\* The generation of the media status grows
LEMMA GenerationGrows ==
    ASSUME MediaTypeOK, [MediaNext]_mediaVars
    PROVE  media'.state \in Nat /\ media'.state >= media.state
<1>media. media \in MediaState
  BY DEF MediaTypeOK
<1>1. CASE HandleAction
  BY <1>1, SetOnlineGrows, <1>media
     DEF HandleAction, MediaState, shared, disk, notWatcher, notEjector,
         notDisk, MediaState
<1>2. CASE RecoverCard
  BY <1>2, SetOnlineGrows, <1>media
     DEF RecoverCard, MediaState, shared, disk, notWatcher, notEjector,
         notDisk, MediaState
<1>3. CASE RecoverSetOnline
  BY <1>3, SetOnlineGrows, <1>media
     DEF RecoverSetOnline, MediaState, shared, disk, notWatcher, notEjector,
         notDisk, MediaState
<1>4. CASE SetOnlineAgain
  BY <1>4, SetOnlineGrows, <1>media
     DEF SetOnlineAgain, MediaState, shared, disk, notWatcher, notEjector,
         notDisk, MediaState
<1>5. CASE WatcherAnnounce
  BY <1>5, <1>media
     DEF WatcherAnnounce, Announce, MediaState, shared, disk, notWatcher,
         notEjector, notDisk, MediaState
<1>6. CASE EjectSetOffline
  BY <1>6, SetOnlineGrows, <1>media
     DEF EjectSetOffline, MediaState, shared, disk, notWatcher, notEjector,
         notDisk, MediaState
<1>7. CASE ResumeSetOnline
  BY <1>7, SetOnlineGrows, <1>media
     DEF ResumeSetOnline, MediaState, shared, disk, notWatcher, notEjector,
         notDisk, MediaState
<1>8. CASE ResumeAnnounce
  BY <1>8, <1>media
     DEF ResumeAnnounce, Announce, MediaState, shared, disk, notWatcher,
         notEjector, notDisk, MediaState
<1>9. CASE TakeChange
  BY <1>9, <1>media
     DEF TakeChange, MediaState, shared, disk, notWatcher, notEjector,
         notDisk, MediaState
<1>10. CASE AnswerStatus
  BY <1>10, <1>media
     DEF AnswerStatus, IsOnline, MediaState, shared, disk, notWatcher,
         notEjector, notDisk, MediaState
<1>11. CASE RestoreAnnounce
  BY <1>11, <1>media
     DEF RestoreAnnounce, Announce, MediaState, shared, disk, notWatcher,
         notEjector, notDisk, MediaState
<1>12. CASE TransferFault
  BY <1>12, SetOnlineGrows, <1>media
     DEF TransferFault, MediaState, shared, disk, notWatcher, notEjector,
         notDisk, MediaState
<1>13. CASE \/ InsertCard \/ RemoveCard \/ PollSlot \/ PollOnline
            \/ ObserveAbsent \/ Rearm \/ ObservePresent \/ RecoverLockMedia
            \/ Identified \/ NotIdentified \/ RecoverUnlock \/ EjectMedia
            \/ MarkEjected \/ EjectLockMedia \/ PowerOff \/ CancelEject
            \/ ResumeCard \/ EjectUnlock \/ AnswerLost \/ RestoreChange
            \/ PostRequest \/ TakeRequest \/ NextChunk \/ TransferStaging
            \/ FillStaging \/ SettleChunk \/ NotifyRequest \/ StopWatcher
            \/ StopRequests \/ CancelQueued
            \/ (\E r \in Request : RefuseIO(r) \/ DoIO(r) \/ EnqueueRequest(r))
            \/ (\E write \in BOOLEAN : LockRequestMedia(write))
            \/ UNCHANGED mediaVars
  <2>1. UNCHANGED media
    BY <1>13
       DEF InsertCard, RemoveCard, PollSlot, PollOnline, ObserveAbsent, Rearm,
           ObservePresent, RecoverLockMedia, Identified, NotIdentified,
           RecoverUnlock, EjectMedia, MarkEjected, EjectLockMedia, PowerOff,
           CancelEject, ResumeCard, EjectUnlock, AnswerLost, RestoreChange,
           RefuseIO, DoIO, EnqueueRequest, PostRequest, TakeRequest,
           LockRequestMedia, NextChunk, TransferStaging, FillStaging,
           SettleChunk, NotifyRequest, StopWatcher, StopRequests,
           CancelQueued, mediaVars, shared, disk, notWatcher, notEjector,
           notDisk
  <2> QED BY <2>1, <1>media DEF MediaState
<1> QED
  BY <1>1, <1>2, <1>3, <1>4, <1>5, <1>6, <1>7, <1>8, <1>9, <1>10, <1>11,
     <1>12, <1>13
     DEF MediaNext, WatcherStep, EjectStep, PollerStep, IoStep

\* The card that is known changes only while the disk is offline and the request
\* thread does not hold its lock
LEMMA KnownSteps ==
    ASSUME MediaTypeOK, LocksHeld, OfflineMeanwhile, [MediaNext]_mediaVars
    PROVE  slot'.known # slot.known => ~IsOnline /\ lock.media # "io" /\ io' = io
<1>slot. slot \in SlotState
  BY DEF MediaTypeOK
<1>1. CASE InsertCard
  BY <1>1, <1>slot
     DEF InsertCard, CardPresent, SlotState, shared, disk, notWatcher,
         notEjector, notDisk, SlotState, LocksHeld, OfflineMeanwhile
<1>2. CASE RemoveCard
  BY <1>2, <1>slot
     DEF RemoveCard, CardPresent, SlotState, shared, disk, notWatcher,
         notEjector, notDisk, SlotState, LocksHeld, OfflineMeanwhile
<1>3. CASE RecoverLockMedia
  BY <1>3, <1>slot
     DEF RecoverLockMedia, ResetSlot, SlotState, shared, disk, notWatcher,
         notEjector, notDisk, SlotState, LocksHeld, OfflineMeanwhile
<1>4. CASE Identified
  BY <1>4, <1>slot
     DEF Identified, CardPresent, SlotState, shared, disk, notWatcher,
         notEjector, notDisk, SlotState, LocksHeld, OfflineMeanwhile
<1>5. CASE PowerOff
  BY <1>5, <1>slot
     DEF PowerOff, SlotState, shared, disk, notWatcher, notEjector, notDisk,
         SlotState, LocksHeld, OfflineMeanwhile
<1>6. CASE \/ PollSlot \/ PollOnline \/ ObserveAbsent \/ Rearm
           \/ ObservePresent \/ HandleAction \/ RecoverCard
           \/ NotIdentified \/ RecoverSetOnline \/ RecoverUnlock
           \/ SetOnlineAgain \/ WatcherAnnounce \/ EjectMedia
           \/ MarkEjected \/ EjectSetOffline \/ EjectLockMedia
           \/ CancelEject \/ ResumeCard \/ ResumeSetOnline
           \/ ResumeAnnounce \/ EjectUnlock \/ TakeChange \/ AnswerStatus
           \/ AnswerLost \/ RestoreChange \/ RestoreAnnounce \/ PostRequest
           \/ TakeRequest \/ NextChunk \/ TransferStaging \/ TransferFault
           \/ FillStaging \/ SettleChunk \/ NotifyRequest \/ StopWatcher
           \/ StopRequests \/ CancelQueued
           \/ (\E r \in Request : RefuseIO(r) \/ DoIO(r) \/ EnqueueRequest(r))
           \/ (\E write \in BOOLEAN : LockRequestMedia(write))
           \/ UNCHANGED mediaVars
  <2>1. UNCHANGED slot
    BY <1>6
       DEF PollSlot, PollOnline, ObserveAbsent, Rearm, ObservePresent,
           HandleAction, RecoverCard, NotIdentified, RecoverSetOnline,
           RecoverUnlock, SetOnlineAgain, WatcherAnnounce, EjectMedia,
           MarkEjected, EjectSetOffline, EjectLockMedia, CancelEject,
           ResumeCard, ResumeSetOnline, ResumeAnnounce, EjectUnlock,
           TakeChange, AnswerStatus, AnswerLost, RestoreChange,
           RestoreAnnounce, RefuseIO, DoIO, EnqueueRequest, PostRequest,
           TakeRequest, LockRequestMedia, NextChunk, TransferStaging,
           TransferFault, FillStaging, SettleChunk, NotifyRequest,
           StopWatcher, StopRequests, CancelQueued, mediaVars, shared, disk,
           notWatcher, notEjector, notDisk
  <2> QED BY <2>1 DEF SlotState
<1> QED
  BY <1>1, <1>2, <1>3, <1>4, <1>5, <1>6
     DEF MediaNext, WatcherStep, EjectStep, PollerStep, IoStep

LEMMA EpochsStep ==
    ASSUME MediaTypeOK, LocksHeld, OfflineMeanwhile, RespondsIfKnown, WorkIsQueued,
           EpochsOfRequests, [MediaNext]_mediaVars
    PROVE  EpochsOfRequests'
<1> SUFFICES ASSUME NEW r \in Request
             PROVE  /\ request'[r].pc = "new" => request'[r].touched = {}
                    /\ request'[r].pc \in {"captured", "queued"} =>
                          /\ request'[r].epoch <= media'.state
                          /\ request'[r].epoch % 2 = 1
                          /\ request'[r].epoch = media'.state =>
                                request'[r].card = slot'.known
  BY DEF EpochsOfRequests
<1>1. request[r] \in RequestState /\ media.state \in Nat
  BY DEF MediaTypeOK, MediaState
<1>2. /\ media'.state \in Nat /\ media'.state >= media.state
      /\ slot'.known # slot.known => media.state % 2 # 1
  BY GenerationGrows, KnownSteps DEF IsOnline
<1>3. /\ request[r].pc = "new" => request[r].touched = {}
      /\ request[r].pc \in {"captured", "queued"} =>
            /\ request[r].epoch <= media.state /\ request[r].epoch % 2 = 1
            /\ request[r].epoch = media.state => request[r].card = slot.known
  BY DEF EpochsOfRequests
<1>4. CASE request'[r] = request[r]
  BY <1>1, <1>2, <1>3, <1>4 DEF RequestState
<1>5. CASE /\ request[r].pc = "new" /\ request'[r].pc = "captured"
           /\ request'[r].epoch = media.state /\ request'[r].card = slot.known
           /\ request'[r].touched = request[r].touched
           /\ IsOnline /\ media' = media /\ slot' = slot /\ io' = io
  BY <1>1, <1>5 DEF IsOnline
<1>6. CASE request'[r].pc = "answered"
  BY <1>6
<1>7. CASE /\ request[r].pc = "captured"
           /\ request'[r] = [request[r] EXCEPT !.pc = "queued"]
  BY <1>1, <1>2, <1>3, <1>7 DEF RequestState
<1>8. CASE /\ io.pc \in {"transfer", "readBefore"} /\ io.request = r
           /\ slot.responds /\ slot' = slot /\ media' = media
           /\ request'[r] = [request[r] EXCEPT !.touched = @ \cup {slot.card}]
  <2>1. request[r].pc = "queued"
    BY <1>8 DEF WorkIsQueued
  <2> QED BY <1>1, <1>3, <1>8, <2>1 DEF RequestState
<1> QED BY <1>4, <1>5, <1>6, <1>7, <1>8, RequestSteps

LEMMA NoStaleStep ==
    ASSUME MediaTypeOK, WorkIsQueued, RespondsIfKnown, EpochsOfRequests,
           ChunkOfKnownCard, NoStaleIo, [MediaNext]_mediaVars
    PROVE  NoStaleIo'
<1> SUFFICES ASSUME NEW r \in Request
             PROVE  request'[r].touched \subseteq {request'[r].card}
  BY DEF NoStaleIo
<1>1. request[r] \in RequestState
  BY DEF MediaTypeOK
<1>2. request[r].touched \subseteq {request[r].card}
  BY DEF NoStaleIo
<1>3. request[r].pc = "new" => request[r].touched = {}
  BY DEF EpochsOfRequests
<1>4. io.pc \in {"transfer", "readBefore"} /\ io.request = r /\ slot.responds =>
          slot.card = request[r].card
  BY DEF RespondsIfKnown, ChunkOfKnownCard
<1>5. request[r].pc = "captured" /\ request'[r] = [request[r] EXCEPT !.pc = "queued"]
      => request'[r].touched = request[r].touched /\ request'[r].card = request[r].card
  BY <1>1 DEF RequestState
<1>6. request'[r] = [request[r] EXCEPT !.touched = @ \cup {slot.card}]
      => /\ request'[r].touched = request[r].touched \cup {slot.card}
         /\ request'[r].card = request[r].card
  BY <1>1 DEF RequestState
<1> QED BY <1>2, <1>3, <1>4, <1>5, <1>6, RequestSteps

\* From where the request thread comes to a chunk, and what it works on
ComesToChunk ==
    io'.pc \in {"readBefore", "fill", "transfer"} =>
        /\ io'.request = io.request
        /\ \/ io.pc \in {"readBefore", "fill", "transfer"}
           \/ io.pc = "chunk" /\ SameEpoch /\ slot' = slot /\ request' = request

TakesWork ==
    io' # io /\ io'.pc \notin {"acquire", "exited"} =>
        \/ /\ io.pc \notin {"acquire", "exited"} /\ io'.request = io.request
           /\ queue' = queue
        \/ /\ queue # <<>> /\ queue' = Tail(queue) /\ request' = request
           /\ io'.request = Head(queue)

LEMMA IoSteps ==
    ASSUME MediaTypeOK, WorkIsQueued, [MediaNext]_mediaVars
    PROVE  ComesToChunk /\ TakesWork
<1>io. io \in IoState
  BY DEF MediaTypeOK
<1>1. CASE TakeRequest
  BY <1>1, IoMoves, <1>io
     DEF TakeRequest, Result, IoState, shared, disk, notWatcher, notEjector,
         notDisk, IoState, ComesToChunk, TakesWork
<1>2. ASSUME NEW write \in BOOLEAN, LockRequestMedia(write)
      PROVE  ComesToChunk /\ TakesWork
  BY <1>2, <1>io
     DEF LockRequestMedia, IoState, shared, disk, notWatcher, notEjector,
         notDisk, IoState, ComesToChunk, TakesWork
<1>3. CASE NextChunk
  BY <1>3, IoMoves, <1>io
     DEF NextChunk, Result, IoState, shared, disk, notWatcher, notEjector,
         notDisk, IoState, ComesToChunk, TakesWork
<1>4. CASE TransferStaging
  BY <1>4, IoMoves, <1>io
     DEF TransferStaging, Result, IoState, shared, disk, notWatcher,
         notEjector, notDisk, IoState, ComesToChunk, TakesWork
<1>5. CASE TransferFault
  BY <1>5, IoMoves, <1>io
     DEF TransferFault, Result, IoState, shared, disk, notWatcher, notEjector,
         notDisk, IoState, ComesToChunk, TakesWork
<1>6. CASE FillStaging
  BY <1>6, IoMoves, <1>io
     DEF FillStaging, Result, IoState, shared, disk, notWatcher, notEjector,
         notDisk, IoState, ComesToChunk, TakesWork
<1>7. CASE SettleChunk
  BY <1>7, IoMoves, <1>io
     DEF SettleChunk, Result, IoState, shared, disk, notWatcher, notEjector,
         notDisk, IoState, ComesToChunk, TakesWork
<1>8. CASE NotifyRequest
  BY <1>8, <1>io
     DEF NotifyRequest, IdleIo, IoState, shared, disk, notWatcher, notEjector,
         notDisk, IoState, ComesToChunk, TakesWork
<1>9. CASE \/ InsertCard \/ RemoveCard \/ PollSlot \/ PollOnline
           \/ ObserveAbsent \/ Rearm \/ ObservePresent \/ HandleAction
           \/ RecoverCard \/ RecoverLockMedia \/ Identified
           \/ NotIdentified \/ RecoverSetOnline \/ RecoverUnlock
           \/ SetOnlineAgain \/ WatcherAnnounce \/ EjectMedia
           \/ MarkEjected \/ EjectSetOffline \/ EjectLockMedia \/ PowerOff
           \/ CancelEject \/ ResumeCard \/ ResumeSetOnline
           \/ ResumeAnnounce \/ EjectUnlock \/ TakeChange \/ AnswerStatus
           \/ AnswerLost \/ RestoreChange \/ RestoreAnnounce \/ PostRequest
           \/ StopWatcher \/ StopRequests \/ CancelQueued
           \/ (\E r \in Request : RefuseIO(r) \/ DoIO(r) \/ EnqueueRequest(r))
           \/ UNCHANGED mediaVars
  <2>1. UNCHANGED io
    BY <1>9
       DEF InsertCard, RemoveCard, PollSlot, PollOnline, ObserveAbsent, Rearm,
           ObservePresent, HandleAction, RecoverCard, RecoverLockMedia,
           Identified, NotIdentified, RecoverSetOnline, RecoverUnlock,
           SetOnlineAgain, WatcherAnnounce, EjectMedia, MarkEjected,
           EjectSetOffline, EjectLockMedia, PowerOff, CancelEject, ResumeCard,
           ResumeSetOnline, ResumeAnnounce, EjectUnlock, TakeChange,
           AnswerStatus, AnswerLost, RestoreChange, RestoreAnnounce, RefuseIO,
           DoIO, EnqueueRequest, PostRequest, StopWatcher, StopRequests,
           CancelQueued, mediaVars, shared, disk, notWatcher, notEjector,
           notDisk
  <2> QED BY <2>1 DEF IoState, ComesToChunk, TakesWork
<1> QED
  BY <1>1, <1>2, <1>3, <1>4, <1>5, <1>6, <1>7, <1>8, <1>9
     DEF MediaNext, WatcherStep, EjectStep, PollerStep, IoStep

\* What a step does to the queue
QueueMoves ==
    \/ queue' = queue
    \/ queue' = <<>> /\ io.pc = "exited" /\ io' = io
    \/ /\ queue # <<>> /\ queue' = Tail(queue) /\ request' = request
       /\ io.pc = "acquire"
    \/ \E q \in Request :
          /\ request[q].pc = "captured" /\ request'[q].pc = "queued"
          /\ queue' = Append(queue, q) /\ io' = io

LEMMA QueueSteps ==
    ASSUME MediaTypeOK, [MediaNext]_mediaVars
    PROVE  QueueMoves
<1>queue. queue \in Seq(Request)
  BY DEF MediaTypeOK
<1>1. ASSUME NEW r \in Request, EnqueueRequest(r)
      PROVE  QueueMoves
  <2>1. CASE teardown.stopping \/ media.state # request[r].epoch
    <3>1. queue' = queue
      BY <1>1, <2>1 DEF EnqueueRequest
    <3> QED BY <3>1 DEF QueueMoves
  <2>2. CASE ~(teardown.stopping \/ media.state # request[r].epoch)
    <3>1. request[r] \in RequestState /\ request \in [Request -> RequestState]
      BY <1>1 DEF MediaTypeOK
    <3> QED BY <1>1, <2>2, <3>1 DEF EnqueueRequest, RequestState, QueueMoves
  <2> QED BY <2>1, <2>2
<1>2. CASE TakeRequest
  BY <1>2, <1>queue
     DEF TakeRequest, shared, disk, notWatcher, notEjector, notDisk,
         QueueMoves
<1>3. CASE CancelQueued
  BY <1>3, <1>queue
     DEF CancelQueued, shared, disk, notWatcher, notEjector, notDisk,
         QueueMoves
<1>4. CASE \/ InsertCard \/ RemoveCard \/ PollSlot \/ PollOnline
           \/ ObserveAbsent \/ Rearm \/ ObservePresent \/ HandleAction
           \/ RecoverCard \/ RecoverLockMedia \/ Identified
           \/ NotIdentified \/ RecoverSetOnline \/ RecoverUnlock
           \/ SetOnlineAgain \/ WatcherAnnounce \/ EjectMedia
           \/ MarkEjected \/ EjectSetOffline \/ EjectLockMedia \/ PowerOff
           \/ CancelEject \/ ResumeCard \/ ResumeSetOnline
           \/ ResumeAnnounce \/ EjectUnlock \/ TakeChange \/ AnswerStatus
           \/ AnswerLost \/ RestoreChange \/ RestoreAnnounce \/ PostRequest
           \/ NextChunk \/ TransferStaging \/ TransferFault \/ FillStaging
           \/ SettleChunk \/ NotifyRequest \/ StopWatcher \/ StopRequests
           \/ (\E r \in Request : RefuseIO(r) \/ DoIO(r))
           \/ (\E write \in BOOLEAN : LockRequestMedia(write))
           \/ UNCHANGED mediaVars
  <2>1. UNCHANGED queue
    BY <1>4
       DEF InsertCard, RemoveCard, PollSlot, PollOnline, ObserveAbsent, Rearm,
           ObservePresent, HandleAction, RecoverCard, RecoverLockMedia,
           Identified, NotIdentified, RecoverSetOnline, RecoverUnlock,
           SetOnlineAgain, WatcherAnnounce, EjectMedia, MarkEjected,
           EjectSetOffline, EjectLockMedia, PowerOff, CancelEject, ResumeCard,
           ResumeSetOnline, ResumeAnnounce, EjectUnlock, TakeChange,
           AnswerStatus, AnswerLost, RestoreChange, RestoreAnnounce, RefuseIO,
           DoIO, PostRequest, LockRequestMedia, NextChunk, TransferStaging,
           TransferFault, FillStaging, SettleChunk, NotifyRequest,
           StopWatcher, StopRequests, mediaVars, shared, disk, notWatcher,
           notEjector, notDisk
  <2> QED BY <2>1 DEF QueueMoves
<1> QED
  BY <1>1, <1>2, <1>3, <1>4
     DEF MediaNext, WatcherStep, EjectStep, PollerStep, IoStep

LEMMA WorkStep ==
    ASSUME MediaTypeOK, WorkIsQueued, [MediaNext]_mediaVars
    PROVE  WorkIsQueued'
<1>queue. queue \in Seq(Request)
  BY DEF MediaTypeOK
<1>request. request \in [Request -> RequestState]
  BY DEF MediaTypeOK
\* Only what the request thread works on is answered
<1>1. ASSUME NEW q \in Request, request[q].pc = "queued",
             io.pc = "exited" => queue' # <<>> \/ io' # io,
             io.pc \in {"unlock", "notify"} => io.request # q \/ io'.pc # "acquire"
      PROVE  request'[q].pc = "queued"
  <2>1. request[q] \in RequestState
    BY <1>request
  <2> QED BY <1>1, <2>1, RequestSteps DEF RequestState
<1>2. io'.pc \notin {"acquire", "exited"} =>
          /\ io'.request \in Request /\ request'[io'.request].pc = "queued"
          /\ \A i \in DOMAIN queue' : queue'[i] # io'.request
  <2> SUFFICES ASSUME io'.pc \notin {"acquire", "exited"}
               PROVE  /\ io'.request \in Request /\ request'[io'.request].pc = "queued"
                      /\ \A i \in DOMAIN queue' : queue'[i] # io'.request
    OBVIOUS
  <2>1. CASE io' = io
    <3>1. io.request \in Request /\ request[io.request].pc = "queued"
          /\ \A i \in DOMAIN queue : queue[i] # io.request
      BY <2>1 DEF WorkIsQueued
    <3>2. request'[io.request].pc = "queued"
      BY <1>1, <2>1, <3>1
    <3>3. CASE queue' = queue
      BY <2>1, <3>1, <3>2, <3>3
    <3>4. ASSUME NEW q \in Request, request[q].pc = "captured",
                 queue' = Append(queue, q)
          PROVE  \A i \in DOMAIN queue' : queue'[i] # io.request
      BY <1>queue, <3>1, <3>4
    <3> QED BY <2>1, <3>1, <3>2, <3>3, <3>4, QueueSteps DEF QueueMoves
  <2>2. CASE io' # io /\ io.pc \notin {"acquire", "exited"}
    <3>1. io'.request = io.request /\ queue' = queue
      BY <2>2, IoSteps, QueueSteps DEF TakesWork, QueueMoves
    <3> QED BY <1>1, <2>2, <3>1 DEF WorkIsQueued
  <2>3. CASE io' # io /\ io.pc \in {"acquire", "exited"}
    <3>1. /\ queue # <<>> /\ queue' = Tail(queue) /\ request' = request
          /\ io'.request = Head(queue)
      BY <2>3, IoSteps DEF TakesWork
    <3>2. 1 \in DOMAIN queue /\ Head(queue) = queue[1] /\ queue[1] \in Request
      BY <1>queue, <3>1
    <3>3. \A i \in DOMAIN queue' : i + 1 \in DOMAIN queue /\ i + 1 # 1
                                   /\ queue'[i] = queue[i + 1]
      BY <1>queue, <3>1
    <3> QED BY <3>1, <3>2, <3>3 DEF WorkIsQueued
  <2> QED BY <2>1, <2>2, <2>3
<1>3. /\ \A i \in DOMAIN queue' : request'[queue'[i]].pc = "queued"
      /\ \A i, j \in DOMAIN queue' : queue'[i] = queue'[j] => i = j
  <2>1. CASE queue' = queue
    <3>1. ASSUME NEW i \in DOMAIN queue
          PROVE  request'[queue[i]].pc = "queued"
      <4>1. queue[i] \in Request /\ request[queue[i]].pc = "queued"
        BY <1>queue, <3>1 DEF WorkIsQueued
      <4>2. queue # <<>>
        BY <3>1
      <4>3. io.pc \in {"unlock", "notify"} => io.request # queue[i]
        BY <3>1 DEF WorkIsQueued
      <4> QED BY <1>1, <2>1, <4>1, <4>2, <4>3
    <3> QED BY <2>1, <3>1 DEF WorkIsQueued
  <2>2. CASE queue' = <<>>
    BY <2>2
  <2>3. CASE queue # <<>> /\ queue' = Tail(queue) /\ request' = request
    <3>1. \A i \in DOMAIN queue' : i \in Nat /\ i + 1 \in DOMAIN queue
                                   /\ queue'[i] = queue[i + 1]
      BY <1>queue, <2>3
    <3>2. ASSUME NEW i \in DOMAIN queue', NEW j \in DOMAIN queue',
                 queue'[i] = queue'[j]
          PROVE  i = j
      <4>1. i + 1 = j + 1
        BY <3>1, <3>2 DEF WorkIsQueued
      <4> QED BY <3>1, <4>1
    <3> QED BY <2>3, <3>1, <3>2 DEF WorkIsQueued
  <2>4. ASSUME NEW q \in Request, request[q].pc = "captured",
               request'[q].pc = "queued", queue' = Append(queue, q), io' = io
        PROVE  /\ \A i \in DOMAIN queue' : request'[queue'[i]].pc = "queued"
               /\ \A i, j \in DOMAIN queue' : queue'[i] = queue'[j] => i = j
    <3>1. \A i \in DOMAIN queue' :
             \/ i \in DOMAIN queue /\ queue'[i] = queue[i]
             \/ i = Len(queue) + 1 /\ queue'[i] = q
      BY <1>queue, <2>4
    <3>2. ASSUME NEW i \in DOMAIN queue
          PROVE  request'[queue[i]].pc = "queued" /\ queue[i] # q
      <4>1. queue[i] \in Request /\ request[queue[i]].pc = "queued"
        BY <1>queue, <3>2 DEF WorkIsQueued
      <4>2. queue' # <<>>
        BY <1>queue, <2>4
      <4>3. io.pc \in {"unlock", "notify"} => io.request # queue[i]
        BY <3>2 DEF WorkIsQueued
      <4> QED BY <1>1, <2>4, <4>1, <4>2, <4>3
    <3> QED BY <2>4, <3>1, <3>2 DEF WorkIsQueued
  <2> QED BY <2>1, <2>2, <2>3, <2>4, QueueSteps DEF QueueMoves
<1> QED BY <1>2, <1>3 DEF WorkIsQueued

LEMMA ChunkStep ==
    ASSUME MediaTypeOK, LocksHeld, OfflineMeanwhile, WorkIsQueued, EpochsOfRequests,
           ChunkOfKnownCard, [MediaNext]_mediaVars
    PROVE  ChunkOfKnownCard'
<1> SUFFICES ASSUME io'.pc \in {"readBefore", "fill", "transfer"}
             PROVE  request'[io'.request].card = slot'.known
  BY DEF ChunkOfKnownCard
<1>1. CASE io.pc = "chunk" /\ SameEpoch /\ slot' = slot /\ request' = request
  <2>1. /\ io.request \in Request /\ request[io.request].pc = "queued"
        /\ media.state = request[io.request].epoch
    BY <1>1 DEF WorkIsQueued, SameEpoch
  <2>2. request[io.request].card = slot.known
    BY <2>1 DEF EpochsOfRequests
  <2> QED BY <1>1, <2>2, IoSteps DEF ComesToChunk
<1>2. CASE io.pc \in {"readBefore", "fill", "transfer"}
  <2>1. lock.media = "io" /\ io.request \in Request
        /\ request[io.request].pc = "queued"
    BY <1>2 DEF LocksHeld, WorkIsQueued
  <2>2. slot'.known = slot.known /\ io'.request = io.request
    BY <1>2, <2>1, KnownSteps, IoSteps DEF ComesToChunk
  <2>3. request[io.request] \in RequestState
    BY <2>1 DEF MediaTypeOK
  <2>4. request'[io.request].card = request[io.request].card
    BY <2>1, <2>3, RequestSteps DEF RequestState
  <2> QED BY <1>2, <2>2, <2>4 DEF ChunkOfKnownCard
<1> QED BY <1>1, <1>2, IoSteps DEF ComesToChunk

\* The watcher passes by while an eject is latched
LEMMA LatchedStep ==
    ASSUME MediaTypeOK, EjectStages, EjectLatched, [MediaNext]_mediaVars
    PROVE  EjectLatched'
<1>ejector. ejector \in EjectorState
  BY DEF MediaTypeOK
<1>hotplug. hotplug \in HotplugState
  BY DEF MediaTypeOK
<1>slot. slot \in SlotState
  BY DEF MediaTypeOK
<1>watcher. watcher \in WatcherState
  BY DEF MediaTypeOK
<1>1. CASE InsertCard
  BY <1>1, <1>slot
     DEF InsertCard, CardPresent, SlotState, shared, disk, notWatcher,
         notEjector, notDisk, EjectLatched, EjectStages, ShouldIdentify,
         CardPresent, NextPass
<1>2. CASE RemoveCard
  BY <1>2, <1>slot, <1>ejector
     DEF RemoveCard, CardPresent, SlotState, EjectorState, shared, disk,
         notWatcher, notEjector, notDisk, EjectLatched, EjectStages,
         ShouldIdentify, CardPresent, NextPass
<1>3. CASE PollSlot
  BY <1>3, <1>watcher
     DEF PollSlot, CardPresent, WatcherState, shared, disk, notWatcher,
         notEjector, notDisk, EjectLatched, EjectStages, ShouldIdentify,
         CardPresent, NextPass
<1>4. CASE PollOnline
  BY <1>4, <1>watcher
     DEF PollOnline, IsOnline, WatcherState, shared, disk, notWatcher,
         notEjector, notDisk, EjectLatched, EjectStages, ShouldIdentify,
         CardPresent, NextPass
<1>5. CASE ObserveAbsent
  BY <1>5, WatcherMoves, <1>hotplug, <1>watcher
     DEF ObserveAbsent, RemovalSeen, HotplugState, WatcherState, shared, disk,
         notWatcher, notEjector, notDisk, EjectLatched, EjectStages,
         ShouldIdentify, CardPresent, NextPass
<1>6. CASE Rearm
  BY <1>6, WatcherMoves, <1>hotplug, <1>watcher
     DEF Rearm, HotplugState, WatcherState, shared, disk, notWatcher,
         notEjector, notDisk, EjectLatched, EjectStages, ShouldIdentify,
         CardPresent, NextPass
<1>7. CASE ObservePresent
  BY <1>7, WatcherMoves, <1>hotplug, <1>watcher
     DEF ObservePresent, ShouldIdentify, HotplugState, WatcherState, shared,
         disk, notWatcher, notEjector, notDisk, EjectLatched, EjectStages,
         ShouldIdentify, CardPresent, NextPass
<1>8. CASE HandleAction
  BY <1>8, WatcherMoves, <1>watcher
     DEF HandleAction, WatcherState, shared, disk, notWatcher, notEjector,
         notDisk, EjectLatched, EjectStages, ShouldIdentify, CardPresent,
         NextPass
<1>9. CASE RecoverCard
  BY <1>9, WatcherMoves, <1>watcher
     DEF RecoverCard, WatcherState, shared, disk, notWatcher, notEjector,
         notDisk, EjectLatched, EjectStages, ShouldIdentify, CardPresent,
         NextPass
<1>10. CASE RecoverLockMedia
  BY <1>10, WatcherMoves, <1>slot, <1>watcher
     DEF RecoverLockMedia, ResetSlot, SlotState, WatcherState, shared, disk,
         notWatcher, notEjector, notDisk, EjectLatched, EjectStages,
         ShouldIdentify, CardPresent, NextPass
<1>11. CASE Identified
  BY <1>11, WatcherMoves, <1>slot, <1>watcher
     DEF Identified, CardPresent, SlotState, WatcherState, shared, disk,
         notWatcher, notEjector, notDisk, EjectLatched, EjectStages,
         ShouldIdentify, CardPresent, NextPass
<1>12. CASE NotIdentified
  BY <1>12, WatcherMoves, <1>watcher
     DEF NotIdentified, WatcherState, shared, disk, notWatcher, notEjector,
         notDisk, EjectLatched, EjectStages, ShouldIdentify, CardPresent,
         NextPass
<1>13. CASE RecoverSetOnline
  BY <1>13, WatcherMoves, <1>watcher
     DEF RecoverSetOnline, WatcherState, shared, disk, notWatcher, notEjector,
         notDisk, EjectLatched, EjectStages, ShouldIdentify, CardPresent,
         NextPass
<1>14. CASE RecoverUnlock
  BY <1>14, WatcherMoves, <1>watcher
     DEF RecoverUnlock, WatcherState, shared, disk, notWatcher, notEjector,
         notDisk, EjectLatched, EjectStages, ShouldIdentify, CardPresent,
         NextPass
<1>15. CASE SetOnlineAgain
  BY <1>15, WatcherMoves, <1>watcher
     DEF SetOnlineAgain, WatcherState, shared, disk, notWatcher, notEjector,
         notDisk, EjectLatched, EjectStages, ShouldIdentify, CardPresent,
         NextPass
<1>16. CASE WatcherAnnounce
  BY <1>16, WatcherMoves, <1>watcher
     DEF WatcherAnnounce, WatcherState, shared, disk, notWatcher, notEjector,
         notDisk, EjectLatched, EjectStages, ShouldIdentify, CardPresent,
         NextPass
<1>17. CASE EjectMedia
  BY <1>17, <1>ejector
     DEF EjectMedia, EjectorState, shared, disk, notWatcher, notEjector,
         notDisk, EjectLatched, EjectStages, ShouldIdentify, CardPresent,
         NextPass
<1>18. CASE MarkEjected
  BY <1>18, <1>hotplug, <1>ejector
     DEF MarkEjected, CardPresent, HotplugState, EjectorState, shared, disk,
         notWatcher, notEjector, notDisk, EjectLatched, EjectStages,
         ShouldIdentify, CardPresent, NextPass
<1>19. CASE EjectSetOffline
  BY <1>19, <1>ejector
     DEF EjectSetOffline, EjectorAt, EjectorState, shared, disk, notWatcher,
         notEjector, notDisk, EjectLatched, EjectStages, ShouldIdentify,
         CardPresent, NextPass
<1>20. CASE EjectLockMedia
  BY <1>20, <1>ejector
     DEF EjectLockMedia, EjectorAt, EjectorState, shared, disk, notWatcher,
         notEjector, notDisk, EjectLatched, EjectStages, ShouldIdentify,
         CardPresent, NextPass
<1>21. CASE PowerOff
  BY <1>21, <1>slot, <1>ejector
     DEF PowerOff, SlotState, EjectorState, shared, disk, notWatcher,
         notEjector, notDisk, EjectLatched, EjectStages, ShouldIdentify,
         CardPresent, NextPass
<1>22. CASE CancelEject
  BY <1>22, <1>hotplug, <1>ejector
     DEF CancelEject, HotplugState, EjectorState, shared, disk, notWatcher,
         notEjector, notDisk, EjectLatched, EjectStages, ShouldIdentify,
         CardPresent, NextPass
<1>23. CASE ResumeCard
  BY <1>23, <1>ejector
     DEF ResumeCard, EjectorAt, EjectorState, shared, disk, notWatcher,
         notEjector, notDisk, EjectLatched, EjectStages, ShouldIdentify,
         CardPresent, NextPass
<1>24. CASE ResumeSetOnline
  BY <1>24, <1>ejector
     DEF ResumeSetOnline, EjectorAt, EjectorState, shared, disk, notWatcher,
         notEjector, notDisk, EjectLatched, EjectStages, ShouldIdentify,
         CardPresent, NextPass
<1>25. CASE ResumeAnnounce
  BY <1>25, <1>ejector
     DEF ResumeAnnounce, EjectorAt, EjectorState, shared, disk, notWatcher,
         notEjector, notDisk, EjectLatched, EjectStages, ShouldIdentify,
         CardPresent, NextPass
<1>26. CASE EjectUnlock
  BY <1>26, <1>ejector
     DEF EjectUnlock, EjectorState, shared, disk, notWatcher, notEjector,
         notDisk, EjectLatched, EjectStages, ShouldIdentify, CardPresent,
         NextPass
<1>27. CASE \/ TakeChange \/ AnswerStatus \/ AnswerLost \/ RestoreChange
            \/ RestoreAnnounce \/ PostRequest \/ TakeRequest \/ NextChunk
            \/ TransferStaging \/ TransferFault \/ FillStaging
            \/ SettleChunk \/ NotifyRequest \/ StopWatcher \/ StopRequests
            \/ CancelQueued
            \/ (\E r \in Request : RefuseIO(r) \/ DoIO(r) \/ EnqueueRequest(r))
            \/ (\E write \in BOOLEAN : LockRequestMedia(write))
            \/ UNCHANGED mediaVars
  <2>1. UNCHANGED <<ejector, hotplug, slot, watcher>>
    BY <1>27
       DEF TakeChange, AnswerStatus, AnswerLost, RestoreChange,
           RestoreAnnounce, RefuseIO, DoIO, EnqueueRequest, PostRequest,
           TakeRequest, LockRequestMedia, NextChunk, TransferStaging,
           TransferFault, FillStaging, SettleChunk, NotifyRequest,
           StopWatcher, StopRequests, CancelQueued, mediaVars, shared, disk,
           notWatcher, notEjector, notDisk
  <2> QED BY <2>1 DEF EjectLatched, CardPresent
<1> QED
  BY <1>1, <1>2, <1>3, <1>4, <1>5, <1>6, <1>7, <1>8, <1>9, <1>10, <1>11,
     <1>12, <1>13, <1>14, <1>15, <1>16, <1>17, <1>18, <1>19, <1>20, <1>21,
     <1>22, <1>23, <1>24, <1>25, <1>26, <1>27
     DEF MediaNext, WatcherStep, EjectStep, PollerStep, IoStep

LEMMA StagesStep ==
    ASSUME MediaTypeOK, EjectLatched, EjectStages, EjectHolds, [MediaNext]_mediaVars
    PROVE  EjectStages'
<1>ejector. ejector \in EjectorState
  BY DEF MediaTypeOK
<1>media. media \in MediaState
  BY DEF MediaTypeOK
<1>1. CASE RemoveCard
  BY <1>1, <1>ejector
     DEF RemoveCard, CardPresent, EjectorState, shared, disk, notWatcher,
         notEjector, notDisk, EjectStages, IsOnline, EjectLatched, EjectHolds
<1>2. CASE HandleAction
  BY <1>2, SetOnlineSteps, <1>media
     DEF HandleAction, MediaState, shared, disk, notWatcher, notEjector,
         notDisk, EjectStages, IsOnline, EjectLatched, EjectHolds
<1>3. CASE RecoverCard
  BY <1>3, SetOnlineSteps, <1>media
     DEF RecoverCard, MediaState, shared, disk, notWatcher, notEjector,
         notDisk, EjectStages, IsOnline, EjectLatched, EjectHolds
<1>4. CASE RecoverSetOnline
  BY <1>4, SetOnlineSteps, <1>media
     DEF RecoverSetOnline, MediaState, shared, disk, notWatcher, notEjector,
         notDisk, EjectStages, IsOnline, EjectLatched, EjectHolds
<1>5. CASE SetOnlineAgain
  BY <1>5, SetOnlineSteps, <1>media
     DEF SetOnlineAgain, MediaState, shared, disk, notWatcher, notEjector,
         notDisk, EjectStages, IsOnline, EjectLatched, EjectHolds
<1>6. CASE WatcherAnnounce
  BY <1>6, <1>media
     DEF WatcherAnnounce, Announce, MediaState, shared, disk, notWatcher,
         notEjector, notDisk, EjectStages, IsOnline, EjectLatched, EjectHolds
<1>7. CASE EjectMedia
  BY <1>7, <1>ejector
     DEF EjectMedia, EjectorState, shared, disk, notWatcher, notEjector,
         notDisk, EjectStages, IsOnline, EjectLatched, EjectHolds
<1>8. CASE MarkEjected
  BY <1>8, <1>ejector
     DEF MarkEjected, CardPresent, EjectorState, shared, disk, notWatcher,
         notEjector, notDisk, EjectStages, IsOnline, EjectLatched, EjectHolds
<1>9. CASE EjectSetOffline
  BY <1>9, SetOnlineSteps, <1>media, <1>ejector
     DEF EjectSetOffline, EjectorAt, MediaState, EjectorState, shared, disk,
         notWatcher, notEjector, notDisk, EjectStages, IsOnline, EjectLatched,
         EjectHolds
<1>10. CASE EjectLockMedia
  BY <1>10, <1>ejector
     DEF EjectLockMedia, EjectorAt, EjectorState, shared, disk, notWatcher,
         notEjector, notDisk, EjectStages, IsOnline, EjectLatched, EjectHolds
<1>11. CASE PowerOff
  BY <1>11, <1>ejector
     DEF PowerOff, EjectorState, shared, disk, notWatcher, notEjector,
         notDisk, EjectStages, IsOnline, EjectLatched, EjectHolds
<1>12. CASE CancelEject
  BY <1>12, <1>ejector
     DEF CancelEject, EjectorState, shared, disk, notWatcher, notEjector,
         notDisk, EjectStages, IsOnline, EjectLatched, EjectHolds
<1>13. CASE ResumeCard
  BY <1>13, <1>ejector
     DEF ResumeCard, EjectorAt, EjectorState, shared, disk, notWatcher,
         notEjector, notDisk, EjectStages, IsOnline, EjectLatched, EjectHolds
<1>14. CASE ResumeSetOnline
  BY <1>14, SetOnlineSteps, <1>media, <1>ejector
     DEF ResumeSetOnline, EjectorAt, MediaState, EjectorState, shared, disk,
         notWatcher, notEjector, notDisk, EjectStages, IsOnline, EjectLatched,
         EjectHolds
<1>15. CASE ResumeAnnounce
  BY <1>15, <1>media, <1>ejector
     DEF ResumeAnnounce, EjectorAt, Announce, MediaState, EjectorState,
         shared, disk, notWatcher, notEjector, notDisk, EjectStages, IsOnline,
         EjectLatched, EjectHolds
<1>16. CASE EjectUnlock
  BY <1>16, <1>ejector
     DEF EjectUnlock, EjectorState, shared, disk, notWatcher, notEjector,
         notDisk, EjectStages, IsOnline, EjectLatched, EjectHolds
<1>17. CASE TakeChange
  BY <1>17, <1>media
     DEF TakeChange, MediaState, shared, disk, notWatcher, notEjector,
         notDisk, EjectStages, IsOnline, EjectLatched, EjectHolds
<1>18. CASE AnswerStatus
  BY <1>18, <1>media
     DEF AnswerStatus, IsOnline, MediaState, shared, disk, notWatcher,
         notEjector, notDisk, EjectStages, IsOnline, EjectLatched, EjectHolds
<1>19. CASE RestoreAnnounce
  BY <1>19, <1>media
     DEF RestoreAnnounce, Announce, MediaState, shared, disk, notWatcher,
         notEjector, notDisk, EjectStages, IsOnline, EjectLatched, EjectHolds
<1>20. CASE TransferFault
  BY <1>20, SetOnlineSteps, <1>media
     DEF TransferFault, MediaState, shared, disk, notWatcher, notEjector,
         notDisk, EjectStages, IsOnline, EjectLatched, EjectHolds
<1>21. CASE \/ InsertCard \/ PollSlot \/ PollOnline \/ ObserveAbsent
            \/ Rearm \/ ObservePresent \/ RecoverLockMedia \/ Identified
            \/ NotIdentified \/ RecoverUnlock \/ AnswerLost \/ RestoreChange
            \/ PostRequest \/ TakeRequest \/ NextChunk \/ TransferStaging
            \/ FillStaging \/ SettleChunk \/ NotifyRequest \/ StopWatcher
            \/ StopRequests \/ CancelQueued
            \/ (\E r \in Request : RefuseIO(r) \/ DoIO(r) \/ EnqueueRequest(r))
            \/ (\E write \in BOOLEAN : LockRequestMedia(write))
            \/ UNCHANGED mediaVars
  <2>1. UNCHANGED <<ejector, media>>
    BY <1>21
       DEF InsertCard, PollSlot, PollOnline, ObserveAbsent, Rearm,
           ObservePresent, RecoverLockMedia, Identified, NotIdentified,
           RecoverUnlock, AnswerLost, RestoreChange, RefuseIO, DoIO,
           EnqueueRequest, PostRequest, TakeRequest, LockRequestMedia,
           NextChunk, TransferStaging, FillStaging, SettleChunk,
           NotifyRequest, StopWatcher, StopRequests, CancelQueued, mediaVars,
           shared, disk, notWatcher, notEjector, notDisk
  <2> QED BY <2>1 DEF EjectStages, IsOnline
<1> QED
  BY <1>1, <1>2, <1>3, <1>4, <1>5, <1>6, <1>7, <1>8, <1>9, <1>10, <1>11,
     <1>12, <1>13, <1>14, <1>15, <1>16, <1>17, <1>18, <1>19, <1>20, <1>21
     DEF MediaNext, WatcherStep, EjectStep, PollerStep, IoStep

LEMMA HoldsStep ==
    ASSUME MediaTypeOK, EjectLatched, EjectStages, EjectHolds, [MediaNext]_mediaVars
    PROVE  EjectHolds'
<1>ejector. ejector \in EjectorState
  BY DEF MediaTypeOK
<1>media. media \in MediaState
  BY DEF MediaTypeOK
<1>slot. slot \in SlotState
  BY DEF MediaTypeOK
<1>1. CASE InsertCard
  BY <1>1, <1>slot
     DEF InsertCard, CardPresent, SlotState, shared, disk, notWatcher,
         notEjector, notDisk, EjectHolds, IsOnline, EjectLatched, EjectStages
<1>2. CASE RemoveCard
  BY <1>2, <1>slot, <1>ejector
     DEF RemoveCard, CardPresent, SlotState, EjectorState, shared, disk,
         notWatcher, notEjector, notDisk, EjectHolds, IsOnline, EjectLatched,
         EjectStages
<1>3. CASE HandleAction
  BY <1>3, SetOnlineSteps, <1>media
     DEF HandleAction, MediaState, shared, disk, notWatcher, notEjector,
         notDisk, EjectHolds, IsOnline, EjectLatched, EjectStages
<1>4. CASE RecoverCard
  BY <1>4, SetOnlineSteps, <1>media
     DEF RecoverCard, MediaState, shared, disk, notWatcher, notEjector,
         notDisk, EjectHolds, IsOnline, EjectLatched, EjectStages
<1>5. CASE RecoverLockMedia
  BY <1>5, <1>slot
     DEF RecoverLockMedia, ResetSlot, SlotState, shared, disk, notWatcher,
         notEjector, notDisk, EjectHolds, IsOnline, EjectLatched, EjectStages
<1>6. CASE Identified
  BY <1>6, <1>slot
     DEF Identified, CardPresent, SlotState, shared, disk, notWatcher,
         notEjector, notDisk, EjectHolds, IsOnline, EjectLatched, EjectStages
<1>7. CASE RecoverSetOnline
  BY <1>7, SetOnlineSteps, <1>media
     DEF RecoverSetOnline, MediaState, shared, disk, notWatcher, notEjector,
         notDisk, EjectHolds, IsOnline, EjectLatched, EjectStages
<1>8. CASE SetOnlineAgain
  BY <1>8, SetOnlineSteps, <1>media
     DEF SetOnlineAgain, MediaState, shared, disk, notWatcher, notEjector,
         notDisk, EjectHolds, IsOnline, EjectLatched, EjectStages
<1>9. CASE WatcherAnnounce
  BY <1>9, <1>media
     DEF WatcherAnnounce, Announce, MediaState, shared, disk, notWatcher,
         notEjector, notDisk, EjectHolds, IsOnline, EjectLatched, EjectStages
<1>10. CASE EjectMedia
  BY <1>10, <1>ejector
     DEF EjectMedia, EjectorState, shared, disk, notWatcher, notEjector,
         notDisk, EjectHolds, IsOnline, EjectLatched, EjectStages
<1>11. CASE MarkEjected
  BY <1>11, <1>ejector
     DEF MarkEjected, CardPresent, EjectorState, shared, disk, notWatcher,
         notEjector, notDisk, EjectHolds, IsOnline, EjectLatched, EjectStages
<1>12. CASE EjectSetOffline
  BY <1>12, SetOnlineSteps, <1>media, <1>ejector
     DEF EjectSetOffline, EjectorAt, MediaState, EjectorState, shared, disk,
         notWatcher, notEjector, notDisk, EjectHolds, IsOnline, EjectLatched,
         EjectStages
<1>13. CASE EjectLockMedia
  BY <1>13, <1>ejector
     DEF EjectLockMedia, EjectorAt, EjectorState, shared, disk, notWatcher,
         notEjector, notDisk, EjectHolds, IsOnline, EjectLatched, EjectStages
<1>14. CASE PowerOff
  BY <1>14, <1>slot, <1>ejector
     DEF PowerOff, SlotState, EjectorState, shared, disk, notWatcher,
         notEjector, notDisk, EjectHolds, IsOnline, EjectLatched, EjectStages
<1>15. CASE CancelEject
  BY <1>15, <1>ejector
     DEF CancelEject, EjectorState, shared, disk, notWatcher, notEjector,
         notDisk, EjectHolds, IsOnline, EjectLatched, EjectStages
<1>16. CASE ResumeCard
  BY <1>16, <1>ejector
     DEF ResumeCard, EjectorAt, EjectorState, shared, disk, notWatcher,
         notEjector, notDisk, EjectHolds, IsOnline, EjectLatched, EjectStages
<1>17. CASE ResumeSetOnline
  BY <1>17, SetOnlineSteps, <1>media, <1>ejector
     DEF ResumeSetOnline, EjectorAt, MediaState, EjectorState, shared, disk,
         notWatcher, notEjector, notDisk, EjectHolds, IsOnline, EjectLatched,
         EjectStages
<1>18. CASE ResumeAnnounce
  BY <1>18, <1>media, <1>ejector
     DEF ResumeAnnounce, EjectorAt, Announce, MediaState, EjectorState,
         shared, disk, notWatcher, notEjector, notDisk, EjectHolds, IsOnline,
         EjectLatched, EjectStages
<1>19. CASE EjectUnlock
  BY <1>19, <1>ejector
     DEF EjectUnlock, EjectorState, shared, disk, notWatcher, notEjector,
         notDisk, EjectHolds, IsOnline, EjectLatched, EjectStages
<1>20. CASE TakeChange
  BY <1>20, <1>media
     DEF TakeChange, MediaState, shared, disk, notWatcher, notEjector,
         notDisk, EjectHolds, IsOnline, EjectLatched, EjectStages
<1>21. CASE AnswerStatus
  BY <1>21, <1>media
     DEF AnswerStatus, IsOnline, MediaState, shared, disk, notWatcher,
         notEjector, notDisk, EjectHolds, IsOnline, EjectLatched, EjectStages
<1>22. CASE RestoreAnnounce
  BY <1>22, <1>media
     DEF RestoreAnnounce, Announce, MediaState, shared, disk, notWatcher,
         notEjector, notDisk, EjectHolds, IsOnline, EjectLatched, EjectStages
<1>23. CASE TransferFault
  BY <1>23, SetOnlineSteps, <1>media
     DEF TransferFault, MediaState, shared, disk, notWatcher, notEjector,
         notDisk, EjectHolds, IsOnline, EjectLatched, EjectStages
<1>24. CASE \/ PollSlot \/ PollOnline \/ ObserveAbsent \/ Rearm
            \/ ObservePresent \/ NotIdentified \/ RecoverUnlock
            \/ AnswerLost \/ RestoreChange \/ PostRequest \/ TakeRequest
            \/ NextChunk \/ TransferStaging \/ FillStaging \/ SettleChunk
            \/ NotifyRequest \/ StopWatcher \/ StopRequests \/ CancelQueued
            \/ (\E r \in Request : RefuseIO(r) \/ DoIO(r) \/ EnqueueRequest(r))
            \/ (\E write \in BOOLEAN : LockRequestMedia(write))
            \/ UNCHANGED mediaVars
  <2>1. UNCHANGED <<ejector, media, slot>>
    BY <1>24
       DEF PollSlot, PollOnline, ObserveAbsent, Rearm, ObservePresent,
           NotIdentified, RecoverUnlock, AnswerLost, RestoreChange, RefuseIO,
           DoIO, EnqueueRequest, PostRequest, TakeRequest, LockRequestMedia,
           NextChunk, TransferStaging, FillStaging, SettleChunk,
           NotifyRequest, StopWatcher, StopRequests, CancelQueued, mediaVars,
           shared, disk, notWatcher, notEjector, notDisk
  <2> QED BY <2>1 DEF EjectHolds, IsOnline
<1> QED
  BY <1>1, <1>2, <1>3, <1>4, <1>5, <1>6, <1>7, <1>8, <1>9, <1>10, <1>11,
     <1>12, <1>13, <1>14, <1>15, <1>16, <1>17, <1>18, <1>19, <1>20, <1>21,
     <1>22, <1>23, <1>24
     DEF MediaNext, WatcherStep, EjectStep, PollerStep, IoStep

\* An unreported epoch is the present one, and on its way to be reported
LEMMA ReportStep ==
    ASSUME MediaTypeOK, ReportInv, [MediaNext]_mediaVars
    PROVE  ReportInv'
<1>media. media \in MediaState
  BY DEF MediaTypeOK
<1>poller. poller \in PollerState
  BY DEF MediaTypeOK
<1>watcher. watcher \in WatcherState
  BY DEF MediaTypeOK
<1>ejector. ejector \in EjectorState
  BY DEF MediaTypeOK
<1>1. CASE RemoveCard
  BY <1>1, <1>ejector
     DEF RemoveCard, CardPresent, EjectorState, shared, disk, notWatcher,
         notEjector, notDisk, ReportInv, ChangeNotLost, IsOnline
<1>2. CASE PollSlot
  BY <1>2, <1>watcher
     DEF PollSlot, CardPresent, WatcherState, shared, disk, notWatcher,
         notEjector, notDisk, ReportInv, ChangeNotLost, IsOnline
<1>3. CASE PollOnline
  BY <1>3, <1>watcher
     DEF PollOnline, IsOnline, WatcherState, shared, disk, notWatcher,
         notEjector, notDisk, ReportInv, ChangeNotLost, IsOnline
<1>4. CASE ObserveAbsent
  BY <1>4, WatcherMoves, <1>watcher
     DEF ObserveAbsent, RemovalSeen, WatcherState, shared, disk, notWatcher,
         notEjector, notDisk, ReportInv, ChangeNotLost, IsOnline
<1>5. CASE Rearm
  BY <1>5, WatcherMoves, <1>watcher
     DEF Rearm, WatcherState, shared, disk, notWatcher, notEjector, notDisk,
         ReportInv, ChangeNotLost, IsOnline
<1>6. CASE ObservePresent
  BY <1>6, WatcherMoves, <1>watcher
     DEF ObservePresent, ShouldIdentify, WatcherState, shared, disk,
         notWatcher, notEjector, notDisk, ReportInv, ChangeNotLost, IsOnline
<1>7. CASE HandleAction
  BY <1>7, WatcherMoves, SetOnlineSteps, <1>media, <1>watcher
     DEF HandleAction, MediaState, WatcherState, shared, disk, notWatcher,
         notEjector, notDisk, ReportInv, ChangeNotLost, IsOnline
<1>8. CASE RecoverCard
  BY <1>8, WatcherMoves, SetOnlineSteps, <1>media, <1>watcher
     DEF RecoverCard, MediaState, WatcherState, shared, disk, notWatcher,
         notEjector, notDisk, ReportInv, ChangeNotLost, IsOnline
<1>9. CASE RecoverLockMedia
  BY <1>9, WatcherMoves, <1>watcher
     DEF RecoverLockMedia, WatcherState, shared, disk, notWatcher, notEjector,
         notDisk, ReportInv, ChangeNotLost, IsOnline
<1>10. CASE Identified
  BY <1>10, WatcherMoves, <1>watcher
     DEF Identified, CardPresent, WatcherState, shared, disk, notWatcher,
         notEjector, notDisk, ReportInv, ChangeNotLost, IsOnline
<1>11. CASE NotIdentified
  BY <1>11, WatcherMoves, <1>watcher
     DEF NotIdentified, WatcherState, shared, disk, notWatcher, notEjector,
         notDisk, ReportInv, ChangeNotLost, IsOnline
<1>12. CASE RecoverSetOnline
  BY <1>12, WatcherMoves, SetOnlineSteps, <1>media, <1>watcher
     DEF RecoverSetOnline, MediaState, WatcherState, shared, disk, notWatcher,
         notEjector, notDisk, ReportInv, ChangeNotLost, IsOnline
<1>13. CASE RecoverUnlock
  BY <1>13, WatcherMoves, <1>watcher
     DEF RecoverUnlock, WatcherState, shared, disk, notWatcher, notEjector,
         notDisk, ReportInv, ChangeNotLost, IsOnline
<1>14. CASE SetOnlineAgain
  BY <1>14, WatcherMoves, SetOnlineSteps, <1>media, <1>watcher
     DEF SetOnlineAgain, MediaState, WatcherState, shared, disk, notWatcher,
         notEjector, notDisk, ReportInv, ChangeNotLost, IsOnline
<1>15. CASE WatcherAnnounce
  BY <1>15, WatcherMoves, <1>media, <1>watcher
     DEF WatcherAnnounce, Announce, MediaState, WatcherState, shared, disk,
         notWatcher, notEjector, notDisk, ReportInv, ChangeNotLost, IsOnline
<1>16. CASE EjectMedia
  BY <1>16, <1>ejector
     DEF EjectMedia, EjectorState, shared, disk, notWatcher, notEjector,
         notDisk, ReportInv, ChangeNotLost, IsOnline
<1>17. CASE MarkEjected
  BY <1>17, <1>ejector
     DEF MarkEjected, CardPresent, EjectorState, shared, disk, notWatcher,
         notEjector, notDisk, ReportInv, ChangeNotLost, IsOnline
<1>18. CASE EjectSetOffline
  BY <1>18, SetOnlineSteps, <1>media, <1>ejector
     DEF EjectSetOffline, EjectorAt, MediaState, EjectorState, shared, disk,
         notWatcher, notEjector, notDisk, ReportInv, ChangeNotLost, IsOnline
<1>19. CASE EjectLockMedia
  BY <1>19, <1>ejector
     DEF EjectLockMedia, EjectorAt, EjectorState, shared, disk, notWatcher,
         notEjector, notDisk, ReportInv, ChangeNotLost, IsOnline
<1>20. CASE PowerOff
  BY <1>20, <1>ejector
     DEF PowerOff, EjectorState, shared, disk, notWatcher, notEjector,
         notDisk, ReportInv, ChangeNotLost, IsOnline
<1>21. CASE CancelEject
  BY <1>21, <1>ejector
     DEF CancelEject, EjectorState, shared, disk, notWatcher, notEjector,
         notDisk, ReportInv, ChangeNotLost, IsOnline
<1>22. CASE ResumeCard
  BY <1>22, <1>ejector
     DEF ResumeCard, EjectorAt, EjectorState, shared, disk, notWatcher,
         notEjector, notDisk, ReportInv, ChangeNotLost, IsOnline
<1>23. CASE ResumeSetOnline
  BY <1>23, SetOnlineSteps, <1>media, <1>ejector
     DEF ResumeSetOnline, EjectorAt, MediaState, EjectorState, shared, disk,
         notWatcher, notEjector, notDisk, ReportInv, ChangeNotLost, IsOnline
<1>24. CASE ResumeAnnounce
  BY <1>24, <1>media, <1>ejector
     DEF ResumeAnnounce, EjectorAt, Announce, MediaState, EjectorState,
         shared, disk, notWatcher, notEjector, notDisk, ReportInv,
         ChangeNotLost, IsOnline
<1>25. CASE EjectUnlock
  BY <1>25, <1>ejector
     DEF EjectUnlock, EjectorState, shared, disk, notWatcher, notEjector,
         notDisk, ReportInv, ChangeNotLost, IsOnline
<1>26. CASE TakeChange
  BY <1>26, <1>poller, <1>media
     DEF TakeChange, PollerState, MediaState, shared, disk, notWatcher,
         notEjector, notDisk, ReportInv, ChangeNotLost, IsOnline
<1>27. CASE AnswerStatus
  BY <1>27, <1>poller, <1>media
     DEF AnswerStatus, IsOnline, PollerState, MediaState, shared, disk,
         notWatcher, notEjector, notDisk, ReportInv, ChangeNotLost, IsOnline
<1>28. CASE AnswerLost
  BY <1>28, <1>poller
     DEF AnswerLost, PollerState, shared, disk, notWatcher, notEjector,
         notDisk, ReportInv, ChangeNotLost, IsOnline
<1>29. CASE RestoreChange
  BY <1>29, <1>poller
     DEF RestoreChange, PollerState, shared, disk, notWatcher, notEjector,
         notDisk, ReportInv, ChangeNotLost, IsOnline
<1>30. CASE RestoreAnnounce
  BY <1>30, <1>poller, <1>media
     DEF RestoreAnnounce, Announce, PollerState, MediaState, shared, disk,
         notWatcher, notEjector, notDisk, ReportInv, ChangeNotLost, IsOnline
<1>31. CASE TransferFault
  BY <1>31, SetOnlineSteps, <1>media
     DEF TransferFault, MediaState, shared, disk, notWatcher, notEjector,
         notDisk, ReportInv, ChangeNotLost, IsOnline
<1>32. CASE \/ InsertCard \/ PostRequest \/ TakeRequest \/ NextChunk
            \/ TransferStaging \/ FillStaging \/ SettleChunk
            \/ NotifyRequest \/ StopWatcher \/ StopRequests \/ CancelQueued
            \/ (\E r \in Request : RefuseIO(r) \/ DoIO(r) \/ EnqueueRequest(r))
            \/ (\E write \in BOOLEAN : LockRequestMedia(write))
            \/ UNCHANGED mediaVars
  <2>1. UNCHANGED <<media, poller, watcher, ejector>>
    BY <1>32
       DEF InsertCard, RefuseIO, DoIO, EnqueueRequest, PostRequest,
           TakeRequest, LockRequestMedia, NextChunk, TransferStaging,
           FillStaging, SettleChunk, NotifyRequest, StopWatcher, StopRequests,
           CancelQueued, mediaVars, shared, disk, notWatcher, notEjector,
           notDisk
  <2> QED BY <2>1 DEF ReportInv, ChangeNotLost, IsOnline
<1> QED
  BY <1>1, <1>2, <1>3, <1>4, <1>5, <1>6, <1>7, <1>8, <1>9, <1>10, <1>11,
     <1>12, <1>13, <1>14, <1>15, <1>16, <1>17, <1>18, <1>19, <1>20, <1>21,
     <1>22, <1>23, <1>24, <1>25, <1>26, <1>27, <1>28, <1>29, <1>30, <1>31,
     <1>32
     DEF MediaNext, WatcherStep, EjectStep, PollerStep, IoStep

-----------------------------------------------------------------------------
LEMMA MediaInitInv ==
    MediaInit => MediaTypeOK /\ QuietInv /\ StaleInv /\ EjectInv /\ ReportInv
<1> SUFFICES ASSUME MediaInit
             PROVE  MediaTypeOK /\ QuietInv /\ StaleInv /\ EjectInv /\ ReportInv
  OBVIOUS
<1>1. PICK card \in {0, 1}, known \in {0, 1} :
          /\ known <= card
          /\ slot = [card |-> card, responds |-> known = 1, power |-> TRUE,
                     inserted |-> card, known |-> known]
          /\ media = [state |-> IF known = 1 THEN 1 ELSE 2,
                      pending |-> FALSE, unreported |-> FALSE]
          /\ hotplug = [present |-> card = 1, ejected |-> FALSE]
  BY DEF MediaInit
<1>2. slot \in SlotState
  BY <1>1, MediaConstants DEF SlotState
<1>3. media \in MediaState /\ hotplug \in HotplugState
  BY <1>1 DEF MediaState, HotplugState
<1>4. queue = <<>> /\ queue \in Seq(Request)
  <2>1. queue = <<>>
    BY DEF MediaInit
  <2> QED BY <2>1
<1>5. MediaTypeOK
  BY <1>2, <1>3, <1>4, MediaConstants
     DEF MediaInit, MediaTypeOK, LockState, WatcherState, EjectorState,
         PollerState, RequestState, Result, IoState, IdleIo, TeardownState
<1>6. QuietInv
  BY DEF MediaInit, QuietInv, LocksHeld, OfflineMeanwhile, IdleIo
<1>7. StaleInv
  <2>1. RespondsIfKnown
    <3>1. known = 1 => card = 1
      BY <1>1
    <3>2. (slot.responds <=> known = 1) /\ slot.card = card /\ slot.known = known
      BY <1>1
    <3> QED BY <3>1, <3>2 DEF RespondsIfKnown, CardPresent
  <2> QED BY <2>1, <1>4
      DEF MediaInit, StaleInv, EpochsOfRequests, WorkIsQueued, ChunkOfKnownCard,
          NoStaleIo, IdleIo
<1>8. EjectInv
  BY DEF MediaInit, EjectInv, EjectLatched, EjectStages, EjectHolds
<1>9. ReportInv
  BY <1>1 DEF ReportInv, ChangeNotLost
<1> QED BY <1>5, <1>6, <1>7, <1>8, <1>9

LEMMA QuietStep ==
    ASSUME MediaTypeOK, QuietInv, StaleInv, [MediaNext]_mediaVars
    PROVE  MediaTypeOK' /\ QuietInv' /\ StaleInv'
<1>1. MediaTypeOK'
  <2>1. CASE MediaNext
    BY <2>1, MediaTypeStep DEF StaleInv
  <2>2. CASE UNCHANGED mediaVars
    BY <2>2 DEF MediaTypeOK, mediaVars, shared, disk
  <2> QED BY <2>1, <2>2
<1>2. QuietInv'
  BY LocksStep, OfflineStep DEF QuietInv
<1>3. StaleInv'
  BY RespondsStep, EpochsStep, WorkStep, ChunkStep, NoStaleStep DEF QuietInv, StaleInv
<1> QED BY <1>1, <1>2, <1>3

LEMMA EjectStepInv ==
    ASSUME MediaTypeOK, EjectInv, [MediaNext]_mediaVars
    PROVE  EjectInv'
BY LatchedStep, StagesStep, HoldsStep DEF EjectInv

\* Every variable has its type.
THEOREM MediaTypeCorrect == MediaSpec => []MediaTypeOK
<1>1. MediaInit => MediaTypeOK /\ QuietInv /\ StaleInv
  BY MediaInitInv
<1>2. MediaTypeOK /\ QuietInv /\ StaleInv /\ [MediaNext]_mediaVars
      => (MediaTypeOK /\ QuietInv /\ StaleInv)'
  BY QuietStep
<1> QED BY <1>1, <1>2, PTL DEF MediaSpec

\* Neither RecoverCard nor EjectMedia resets or powers off the card under a
\* request in progress: fMediaIoLock is held where the request thread works.
THEOREM QuiescedCorrect == MediaSpec => []Quiesced
<1>1. MediaInit => MediaTypeOK /\ QuietInv /\ StaleInv
  BY MediaInitInv
<1>2. MediaTypeOK /\ QuietInv /\ StaleInv /\ [MediaNext]_mediaVars
      => (MediaTypeOK /\ QuietInv /\ StaleInv)'
  BY QuietStep
<1>3. QuietInv => Quiesced
  BY DEF QuietInv, LocksHeld, Quiesced
<1> QED BY <1>1, <1>2, <1>3, PTL DEF MediaSpec

\* A request of DoIO moves data only on the card it was made for, whatever is
\* put in, ejected and identified until the request thread comes to it.
THEOREM NoStaleIoCorrect == MediaSpec => []NoStaleIo
<1>1. MediaInit => MediaTypeOK /\ QuietInv /\ StaleInv
  BY MediaInitInv
<1>2. MediaTypeOK /\ QuietInv /\ StaleInv /\ [MediaNext]_mediaVars
      => (MediaTypeOK /\ QuietInv /\ StaleInv)'
  BY QuietStep
<1>3. StaleInv => NoStaleIo
  BY DEF StaleInv
<1> QED BY <1>1, <1>2, <1>3, PTL DEF MediaSpec

\* An eject latched while the watcher sleeps holds until the card is taken out.
THEOREM EjectHoldsCorrect == MediaSpec => []EjectHolds
<1>1. MediaInit => EjectInv
  BY MediaInitInv
<1>2. MediaTypeOK /\ EjectInv /\ [MediaNext]_mediaVars => EjectInv'
  BY EjectStepInv
<1>3. EjectInv => EjectHolds
  BY DEF EjectInv
<1> QED BY <1>1, <1>2, <1>3, MediaTypeCorrect, PTL DEF MediaSpec

\* No answer of B_GET_MEDIA_STATUS takes away the change an epoch means.
THEOREM ChangeNotLostCorrect == MediaSpec => []ChangeNotLost
<1>1. MediaInit => ReportInv
  BY MediaInitInv
<1>2. MediaTypeOK /\ ReportInv /\ [MediaNext]_mediaVars => ReportInv'
  BY ReportStep
<1>3. ReportInv => ChangeNotLost
  BY DEF ReportInv
<1> QED BY <1>1, <1>2, <1>3, MediaTypeCorrect, PTL DEF MediaSpec
=============================================================================

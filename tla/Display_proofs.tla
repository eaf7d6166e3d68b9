--------------------------- MODULE Display_proofs ---------------------------
(***************************************************************************)
(* Proofs about Display, for every choice of what may fail: no surface is  *)
(* drawn to while it is shown (DrawnIsNotShown), the memory is freed only   *)
(* when the hardware has let go of it (FreedIsDetached), and the backlight  *)
(* burns only over the driver's own picture (DarkUntilShown).               *)
(***************************************************************************)
EXTENDS Display, TLAPS

DisplayState ==
    [native: BOOLEAN, areas: {"none", "p0", "adopted", "freed"}, faulted: BOOLEAN,
     quarantined: BOOLEAN, running: BOOLEAN, enabled: BOOLEAN,
     pending: Scanout \cup {NoScanout}, usesBcs: BOOLEAN, wake: Nat,
     blanked: BOOLEAN, dpms: {"on", "off"}, savedPwm: Duty \cup {"off"},
     visible: BOOLEAN]
PipeState ==
    [enabled: BOOLEAN, armed: Scanout \cup {NoScanout, Firmware},
     live: Scanout \cup {NoScanout, Firmware}, pwm: Duty \cup {"off"},
     cursor: {"firmware", "shown", "hidden", "off"},
     cursorLive: {"firmware", "shown", "hidden", "off"}, ptes: BOOLEAN,
     ring: BOOLEAN]

DisplayTypes ==
    /\ display \in DisplayState /\ pipe \in PipeState
    /\ holder \in {"idle", "take", "arm", "latch", "return", "rollback", "bcs", "start",
                   "stop", "join", "cursor", "plane", "planeFailed", "blank", "unblank",
                   "unblankCopy", "unblankLatch", "unblankUndo", "ended"}
    /\ presenter \in {"none", "look", "copy", "sleep", "gone"}

\* The caller's stages before the driver has the pipe, while it has it, and while
\* it takes the plane out of the worker's hands
Taking == {"take", "arm", "latch", "return", "rollback"}
Blanking == {"blank", "unblank", "unblankCopy", "unblankLatch", "unblankUndo"}
Leaving == {"cursor", "plane", "planeFailed", "ended"}

\* Until StopPresentWorker there is one token to spare
TokensBounded ==
    /\ display.wake <= WakeLimit + 1
    /\ holder \in {"unblank", "unblankCopy", "unblankLatch"} => display.wake < WakeLimit
    /\ display.wake > WakeLimit =>
          holder \in {"join"} \cup Leaving /\ presenter # "none"

\* Who has the pipe at which stage
PipeOwned ==
    /\ display.native =>
          /\ display.areas = "p0"
          /\ holder \notin Taking \cup {"ended"}
    /\ ~display.native =>
          /\ holder \in Taking \cup {"idle", "ended"}
          /\ holder # "ended" => presenter = "none"
          /\ ~display.running /\ ~display.enabled /\ ~display.blanked
    /\ holder \in {"bcs", "start"} => presenter = "none" /\ ~display.blanked
    /\ holder \in Blanking \ {"blank"} => display.blanked
    /\ holder = "blank" => ~display.blanked
    /\ holder \in Leaving => presenter \in {"none", "gone"}
    /\ holder \in Taking => display.areas = "p0"
    /\ holder \in {"bcs", "start", "join"} \cup Leaving => ~display.running
    /\ holder = "join" => presenter # "copy"
    /\ holder = "idle" /\ ~display.native /\ display.areas = "p0" =>
          display.quarantined

\* What is armed at which stage
PlaneInv ==
    /\ holder = "arm" \/ holder \in {"blank", "unblank", "unblankCopy", "unblankUndo"}
       \/ (display.blanked /\ holder \in {"idle", "stop", "join", "cursor"}) =>
          ~pipe.enabled /\ pipe.armed = NoScanout
    /\ holder = "unblankCopy" => pipe.live \notin Scanout
    /\ holder \in {"latch", "unblankLatch"} => pipe.enabled /\ pipe.armed = 0
    /\ display.native /\ ~display.blanked /\ holder \in {"idle", "stop", "join", "cursor"} =>
          pipe.enabled /\ {pipe.live, pipe.armed} \subseteq Scanout
    /\ holder \in {"bcs", "start"} => pipe.enabled /\ pipe.live = 0 /\ pipe.armed = 0
    /\ holder \in {"return", "plane", "planeFailed"} =>
          pipe.enabled /\ pipe.armed = Firmware

\* While frames are presented, what is armed is live or waited for
WorkerInv ==
    /\ display.enabled =>
          /\ holder \in {"idle", "stop"} /\ ~display.blanked
          /\ pipe.armed = IF display.pending = NoScanout THEN pipe.live
                          ELSE display.pending
    /\ presenter = "copy" => display.enabled /\ display.pending = NoScanout

\* The hardware lets go of the driver's memory before it is freed
DetachInv ==
    /\ ~display.native /\ ~display.quarantined
          /\ holder \in {"idle", "take", "rollback", "ended"} =>
          /\ pipe.enabled /\ pipe.armed = Firmware /\ pipe.live = Firmware
    /\ holder \in Taking \/ (~display.native /\ holder = "idle") =>
          pipe.cursor = "firmware" /\ pipe.cursorLive = "firmware" /\ ~pipe.ring
    /\ holder = "cursor" => pipe.cursor = "off"
    /\ holder = "plane" => pipe.cursor = "off" /\ pipe.cursorLive = "off" /\ ~pipe.ring
    /\ display.areas \in {"freed", "adopted"} =>
          /\ ~display.native /\ holder \in {"idle", "ended"}
          /\ ~display.quarantined
          /\ pipe.cursor = "firmware" /\ pipe.cursorLive \in {"firmware", "off"}
          /\ ~pipe.ptes /\ ~pipe.ring
    /\ display.areas = "none" => ~pipe.ptes

\* The light is out while the driver's plane is off
LightInv ==
    /\ holder \in {"arm", "latch"} \cup Blanking => pipe.pwm = "off"
    /\ holder = "blank" => pipe.cursor # "shown"
    /\ display.native /\ display.blanked /\ holder \notin {"plane", "planeFailed"} =>
          pipe.pwm = "off" /\ pipe.cursor # "shown"

DisplayInv ==
    /\ DisplayTypes /\ TokensBounded /\ PipeOwned /\ PlaneInv /\ WorkerInv
    /\ DetachInv /\ LightInv

-----------------------------------------------------------------------------
\* What the copy of a frame does to the fields
LEMMA Copied ==
    ASSUME display \in DisplayState, NEW d \in CopyPresentFrameLocked
    PROVE  /\ d \in DisplayState
           /\ d.native = display.native /\ d.areas = display.areas
           /\ d.quarantined = display.quarantined /\ d.running = display.running
           /\ d.enabled = display.enabled /\ d.pending = display.pending
           /\ d.blanked = display.blanked /\ d.wake = display.wake
<1>1. d = display \/ d = [display EXCEPT !.usesBcs = FALSE]
      \/ d = [display EXCEPT !.usesBcs = FALSE, !.faulted = TRUE]
  BY DEF CopyPresentFrameLocked
<1>2. [display EXCEPT !.usesBcs = FALSE] \in DisplayState
  BY DEF DisplayState
<1>3. [display EXCEPT !.usesBcs = FALSE, !.faulted = TRUE] \in DisplayState
  BY DEF DisplayState
<1>4. d \in DisplayState
  BY <1>1, <1>2, <1>3
<1>5. /\ d.native = display.native /\ d.areas = display.areas
      /\ d.quarantined = display.quarantined /\ d.running = display.running
  BY <1>1 DEF DisplayState
<1>6. /\ d.enabled = display.enabled /\ d.pending = display.pending
      /\ d.blanked = display.blanked /\ d.wake = display.wake
  BY <1>1 DEF DisplayState
<1> QED BY <1>4, <1>5, <1>6

\* What the end of a shutdown does to the fields
LEMMA Ended ==
    ASSUME display \in DisplayState
    PROVE  /\ EndOfShutdown(TRUE) =>
                 /\ pipe' = [pipe EXCEPT !.ptes = FALSE, !.cursor = "firmware"]
                 /\ display' = [display EXCEPT !.native = FALSE, !.blanked = FALSE,
                       !.pending = NoScanout,
                       !.areas = IF display.quarantined THEN display.areas ELSE "freed"]
                 /\ holder' = "ended"
           /\ pipe \in PipeState /\ EndOfShutdown(FALSE) =>
                 /\ pipe' = [pipe EXCEPT !.cursor = "firmware"]
                 /\ display' = [display EXCEPT !.native = FALSE, !.blanked = FALSE,
                       !.pending = NoScanout, !.quarantined = TRUE, !.faulted = TRUE]
                 /\ holder' = "ended"
<1>1. display.quarantined \in BOOLEAN /\ display.faulted \in BOOLEAN
  BY DEF DisplayState
<1>2. ASSUME EndOfShutdown(TRUE)
      PROVE  /\ pipe' = [pipe EXCEPT !.ptes = FALSE, !.cursor = "firmware"]
             /\ display' = [display EXCEPT !.native = FALSE, !.blanked = FALSE,
                   !.pending = NoScanout,
                   !.areas = IF display.quarantined THEN display.areas ELSE "freed"]
             /\ holder' = "ended"
  BY <1>1, <1>2 DEF EndOfShutdown, DisplayState
<1>3. ASSUME pipe \in PipeState, EndOfShutdown(FALSE)
      PROVE  /\ pipe' = [pipe EXCEPT !.cursor = "firmware"]
             /\ display' = [display EXCEPT !.native = FALSE, !.blanked = FALSE,
                   !.pending = NoScanout, !.quarantined = TRUE, !.faulted = TRUE]
             /\ holder' = "ended"
  BY <1>1, <1>3 DEF EndOfShutdown, DisplayState, PipeState
<1> QED BY <1>2, <1>3

-----------------------------------------------------------------------------
(* One lemma for each action: it keeps the invariant.                      *)

LEMMA AllocateP0MemoryStep ==
    ASSUME DisplayInv, AllocateP0Memory
    PROVE  DisplayInv'
<1> USE DisplayAssumption DEF Scanout, NoScanout, Firmware, Duty
<1>0. display \in DisplayState /\ pipe \in PipeState
  BY DEF DisplayInv, DisplayTypes
<1>1. CASE /\ display.areas = "none" /\ holder = "idle"
           /\ display' = [display EXCEPT !.areas = "p0"]
           /\ holder' = "rollback" /\ UNCHANGED <<pipe, presenter>>
  <2>1. display' \in DisplayState
    BY <1>0, <1>1 DEF DisplayInv, PlaneInv, DisplayState, PipeState
  <2>2. pipe' \in PipeState
    BY <1>0, <1>1 DEF DisplayInv, WorkerInv, PlaneInv, DisplayState, PipeState
  <2>3. DisplayTypes'
    BY <2>1, <2>2, <1>1 DEF DisplayInv, DisplayTypes
  <2>4. TokensBounded' /\ PipeOwned' /\ PlaneInv' /\ WorkerInv' /\ DetachInv' /\ LightInv'
    BY <1>0, <1>1
       DEF DisplayInv, DisplayState, PipeState, TokensBounded, PipeOwned,
           PlaneInv, WorkerInv, DetachInv, LightInv, Taking, Blanking, Leaving
  <2> QED BY <2>3, <2>4 DEF DisplayInv
<1>2. CASE /\ display.areas = "none" /\ holder = "idle"
           /\ ~display.faulted /\ ~display.quarantined
           /\ display' = [display EXCEPT !.areas = "p0"]
           /\ pipe' = [pipe EXCEPT !.ptes = TRUE]
           /\ holder' \in {"take", "rollback"} /\ presenter' = presenter
  <2>1. display' \in DisplayState
    BY <1>0, <1>2 DEF DisplayInv, PlaneInv, DisplayState, PipeState
  <2>2. pipe' \in PipeState
    BY <1>0, <1>2 DEF DisplayInv, WorkerInv, PlaneInv, DisplayState, PipeState
  <2>3. DisplayTypes'
    BY <2>1, <2>2, <1>2 DEF DisplayInv, DisplayTypes
  <2>4. TokensBounded' /\ PipeOwned' /\ PlaneInv' /\ WorkerInv' /\ DetachInv' /\ LightInv'
    BY <1>0, <1>2
       DEF DisplayInv, DisplayState, PipeState, TokensBounded, PipeOwned,
           PlaneInv, WorkerInv, DetachInv, LightInv, Taking, Blanking, Leaving
  <2> QED BY <2>3, <2>4 DEF DisplayInv
<1> QED
  BY <1>0, <1>1, <1>2 DEF AllocateP0Memory, Can

LEMMA TakeNativeScanoutStep ==
    ASSUME DisplayInv, TakeNativeScanout
    PROVE  DisplayInv'
<1> USE DisplayAssumption DEF Scanout, NoScanout, Firmware, Duty
<1>0. display \in DisplayState /\ pipe \in PipeState
  BY DEF DisplayInv, DisplayTypes
<1>1. CASE /\ holder = "take" /\ holder' = "arm" /\ presenter' = presenter
           /\ pipe' = PlaneOff([pipe EXCEPT !.pwm = "off"])
           /\ display' = [display EXCEPT !.savedPwm = pipe.pwm]
  <2>1. display' \in DisplayState
    BY <1>0, <1>1
       DEF PlaneOff, PlaneOn, DisplayInv, PlaneInv, DisplayState, PipeState
  <2>2. pipe' \in PipeState
    BY <1>0, <1>1
       DEF PlaneOff, PlaneOn, DisplayInv, WorkerInv, PlaneInv, DisplayState,
           PipeState
  <2>3. DisplayTypes'
    BY <2>1, <2>2, <1>1 DEF DisplayInv, DisplayTypes
  <2>4. TokensBounded' /\ PipeOwned' /\ PlaneInv' /\ WorkerInv' /\ DetachInv' /\ LightInv'
    BY <1>0, <1>1
       DEF PlaneOff, PlaneOn, DisplayInv, DisplayState, PipeState,
           TokensBounded, PipeOwned, PlaneInv, WorkerInv, DetachInv, LightInv,
           Taking, Blanking, Leaving
  <2> QED BY <2>3, <2>4 DEF DisplayInv
<1>2. CASE /\ holder = "take" /\ holder' = "rollback" /\ presenter' = presenter
           /\ UNCHANGED <<display, pipe>>
  <2>1. display' \in DisplayState
    BY <1>0, <1>2
       DEF PlaneOff, PlaneOn, DisplayInv, PlaneInv, DisplayState, PipeState
  <2>2. pipe' \in PipeState
    BY <1>0, <1>2
       DEF PlaneOff, PlaneOn, DisplayInv, WorkerInv, PlaneInv, DisplayState,
           PipeState
  <2>3. DisplayTypes'
    BY <2>1, <2>2, <1>2 DEF DisplayInv, DisplayTypes
  <2>4. TokensBounded' /\ PipeOwned' /\ PlaneInv' /\ WorkerInv' /\ DetachInv' /\ LightInv'
    BY <1>0, <1>2
       DEF PlaneOff, PlaneOn, DisplayInv, DisplayState, PipeState,
           TokensBounded, PipeOwned, PlaneInv, WorkerInv, DetachInv, LightInv,
           Taking, Blanking, Leaving
  <2> QED BY <2>3, <2>4 DEF DisplayInv
<1>3. CASE /\ holder = "arm" /\ holder' = "latch" /\ presenter' = presenter
           /\ pipe' = PlaneOn(pipe, 0) /\ UNCHANGED display
  <2>1. display' \in DisplayState
    BY <1>0, <1>3
       DEF PlaneOff, PlaneOn, DisplayInv, PlaneInv, DisplayState, PipeState
  <2>2. pipe' \in PipeState
    BY <1>0, <1>3
       DEF PlaneOff, PlaneOn, DisplayInv, WorkerInv, PlaneInv, DisplayState,
           PipeState
  <2>3. DisplayTypes'
    BY <2>1, <2>2, <1>3 DEF DisplayInv, DisplayTypes
  <2>4. TokensBounded' /\ PipeOwned' /\ PlaneInv' /\ WorkerInv' /\ DetachInv' /\ LightInv'
    BY <1>0, <1>3
       DEF PlaneOff, PlaneOn, DisplayInv, DisplayState, PipeState,
           TokensBounded, PipeOwned, PlaneInv, WorkerInv, DetachInv, LightInv,
           Taking, Blanking, Leaving
  <2> QED BY <2>3, <2>4 DEF DisplayInv
<1> QED
  BY <1>0, <1>1, <1>2, <1>3 DEF TakeNativeScanout, PlaneOff, PlaneOn

LEMMA ScanoutTakenStep ==
    ASSUME DisplayInv, ScanoutTaken
    PROVE  DisplayInv'
<1> USE DisplayAssumption DEF Scanout, NoScanout, Firmware, Duty
<1>0. display \in DisplayState /\ pipe \in PipeState
  BY DEF DisplayInv, DisplayTypes
<1>1. DisplayTypes'
  BY <1>0
     DEF ScanoutTaken, PolledFlip, ProgramCursor, DisplayInv, DisplayTypes,
         DisplayState, PipeState
<1>2. TokensBounded' /\ PipeOwned' /\ PlaneInv' /\ WorkerInv' /\ DetachInv' /\ LightInv'
  BY <1>0
     DEF ScanoutTaken, PolledFlip, ProgramCursor, DisplayInv, DisplayState,
         PipeState, TokensBounded, PipeOwned, PlaneInv, WorkerInv, DetachInv,
         LightInv, Taking, Blanking, Leaving
<1> QED BY <1>1, <1>2 DEF DisplayInv

LEMMA ScanoutRefusedStep ==
    ASSUME DisplayInv, ScanoutRefused
    PROVE  DisplayInv'
<1> USE DisplayAssumption DEF Scanout, NoScanout, Firmware, Duty
<1>0. display \in DisplayState /\ pipe \in PipeState
  BY DEF DisplayInv, DisplayTypes
<1>1. CASE /\ holder = "latch" /\ pipe' = RestoreFirmwarePlane(pipe)
           /\ holder' = "return" /\ UNCHANGED <<display, presenter>>
  <2>1. display' \in DisplayState
    BY <1>0, <1>1
       DEF RestoreFirmwarePlane, PlaneOn, DisplayInv, PlaneInv, DisplayState,
           PipeState
  <2>2. pipe' \in PipeState
    BY <1>0, <1>1
       DEF RestoreFirmwarePlane, PlaneOn, DisplayInv, WorkerInv, PlaneInv,
           DisplayState, PipeState
  <2>3. DisplayTypes'
    BY <2>1, <2>2, <1>1 DEF DisplayInv, DisplayTypes
  <2>4. TokensBounded' /\ PipeOwned' /\ PlaneInv' /\ WorkerInv' /\ DetachInv' /\ LightInv'
    BY <1>0, <1>1
       DEF RestoreFirmwarePlane, PlaneOn, DisplayInv, DisplayState, PipeState,
           TokensBounded, PipeOwned, PlaneInv, WorkerInv, DetachInv, LightInv,
           Taking, Blanking, Leaving
  <2> QED BY <2>3, <2>4 DEF DisplayInv
<1>2. CASE /\ holder = "return" /\ pipe.live = Firmware
           /\ holder' = "rollback" /\ UNCHANGED <<display, pipe, presenter>>
  <2>1. display' \in DisplayState
    BY <1>0, <1>2
       DEF RestoreFirmwarePlane, PlaneOn, DisplayInv, PlaneInv, DisplayState,
           PipeState
  <2>2. pipe' \in PipeState
    BY <1>0, <1>2
       DEF RestoreFirmwarePlane, PlaneOn, DisplayInv, WorkerInv, PlaneInv,
           DisplayState, PipeState
  <2>3. DisplayTypes'
    BY <2>1, <2>2, <1>2 DEF DisplayInv, DisplayTypes
  <2>4. TokensBounded' /\ PipeOwned' /\ PlaneInv' /\ WorkerInv' /\ DetachInv' /\ LightInv'
    BY <1>0, <1>2
       DEF RestoreFirmwarePlane, PlaneOn, DisplayInv, DisplayState, PipeState,
           TokensBounded, PipeOwned, PlaneInv, WorkerInv, DetachInv, LightInv,
           Taking, Blanking, Leaving
  <2> QED BY <2>3, <2>4 DEF DisplayInv
<1>3. CASE /\ holder = "return"
           /\ display' = [display EXCEPT !.quarantined = TRUE, !.faulted = TRUE]
           /\ holder' = "rollback" /\ UNCHANGED <<pipe, presenter>>
  <2>1. display' \in DisplayState
    BY <1>0, <1>3
       DEF RestoreFirmwarePlane, PlaneOn, DisplayInv, PlaneInv, DisplayState,
           PipeState
  <2>2. pipe' \in PipeState
    BY <1>0, <1>3
       DEF RestoreFirmwarePlane, PlaneOn, DisplayInv, WorkerInv, PlaneInv,
           DisplayState, PipeState
  <2>3. DisplayTypes'
    BY <2>1, <2>2, <1>3 DEF DisplayInv, DisplayTypes
  <2>4. TokensBounded' /\ PipeOwned' /\ PlaneInv' /\ WorkerInv' /\ DetachInv' /\ LightInv'
    BY <1>0, <1>3
       DEF RestoreFirmwarePlane, PlaneOn, DisplayInv, DisplayState, PipeState,
           TokensBounded, PipeOwned, PlaneInv, WorkerInv, DetachInv, LightInv,
           Taking, Blanking, Leaving
  <2> QED BY <2>3, <2>4 DEF DisplayInv
<1> QED
  BY <1>0, <1>1, <1>2, <1>3
     DEF ScanoutRefused, PolledFlip, TimedOut, RestoreFirmwarePlane, PlaneOn

LEMMA RollBackStep ==
    ASSUME DisplayInv, RollBack
    PROVE  DisplayInv'
<1> USE DisplayAssumption DEF Scanout, NoScanout, Firmware, Duty
<1>0. display \in DisplayState /\ pipe \in PipeState
  BY DEF DisplayInv, DisplayTypes
<1>1. CASE /\ holder = "rollback" /\ ~display.quarantined
           /\ pipe' = [pipe EXCEPT !.ptes = FALSE]
           /\ display' = [display EXCEPT !.areas = "adopted"]
           /\ holder' = "idle" /\ UNCHANGED presenter
  <2>1. display' \in DisplayState
    BY <1>0, <1>1 DEF DisplayInv, PlaneInv, DisplayState, PipeState
  <2>2. pipe' \in PipeState
    BY <1>0, <1>1 DEF DisplayInv, WorkerInv, PlaneInv, DisplayState, PipeState
  <2>3. DisplayTypes'
    BY <2>1, <2>2, <1>1 DEF DisplayInv, DisplayTypes
  <2>4. TokensBounded' /\ PipeOwned' /\ PlaneInv' /\ WorkerInv' /\ DetachInv' /\ LightInv'
    BY <1>0, <1>1
       DEF DisplayInv, DisplayState, PipeState, TokensBounded, PipeOwned,
           PlaneInv, WorkerInv, DetachInv, LightInv, Taking, Blanking, Leaving
  <2> QED BY <2>3, <2>4 DEF DisplayInv
<1>2. CASE /\ holder = "rollback" /\ ~display.quarantined
           /\ display' = [display EXCEPT !.quarantined = TRUE, !.faulted = TRUE]
           /\ holder' = "idle" /\ UNCHANGED <<pipe, presenter>>
  <2>1. display' \in DisplayState
    BY <1>0, <1>2 DEF DisplayInv, PlaneInv, DisplayState, PipeState
  <2>2. pipe' \in PipeState
    BY <1>0, <1>2 DEF DisplayInv, WorkerInv, PlaneInv, DisplayState, PipeState
  <2>3. DisplayTypes'
    BY <2>1, <2>2, <1>2 DEF DisplayInv, DisplayTypes
  <2>4. TokensBounded' /\ PipeOwned' /\ PlaneInv' /\ WorkerInv' /\ DetachInv' /\ LightInv'
    BY <1>0, <1>2
       DEF DisplayInv, DisplayState, PipeState, TokensBounded, PipeOwned,
           PlaneInv, WorkerInv, DetachInv, LightInv, Taking, Blanking, Leaving
  <2> QED BY <2>3, <2>4 DEF DisplayInv
<1>3. CASE /\ holder = "rollback" /\ display.quarantined
           /\ holder' = "idle" /\ UNCHANGED <<display, pipe, presenter>>
  <2>1. display' \in DisplayState
    BY <1>0, <1>3 DEF DisplayInv, PlaneInv, DisplayState, PipeState
  <2>2. pipe' \in PipeState
    BY <1>0, <1>3 DEF DisplayInv, WorkerInv, PlaneInv, DisplayState, PipeState
  <2>3. DisplayTypes'
    BY <2>1, <2>2, <1>3 DEF DisplayInv, DisplayTypes
  <2>4. TokensBounded' /\ PipeOwned' /\ PlaneInv' /\ WorkerInv' /\ DetachInv' /\ LightInv'
    BY <1>0, <1>3
       DEF DisplayInv, DisplayState, PipeState, TokensBounded, PipeOwned,
           PlaneInv, WorkerInv, DetachInv, LightInv, Taking, Blanking, Leaving
  <2> QED BY <2>3, <2>4 DEF DisplayInv
<1> QED
  BY <1>0, <1>1, <1>2, <1>3 DEF RollBack, Can

LEMMA InitializeBcsRuntimeStep ==
    ASSUME DisplayInv, InitializeBcsRuntime
    PROVE  DisplayInv'
<1> USE DisplayAssumption DEF Scanout, NoScanout, Firmware, Duty
<1>0. display \in DisplayState /\ pipe \in PipeState
  BY DEF DisplayInv, DisplayTypes
<1>1. CASE /\ holder = "bcs" /\ display' = [display EXCEPT !.usesBcs = TRUE]
           /\ holder' = "start" /\ UNCHANGED <<pipe, presenter>>
  <2>1. display' \in DisplayState
    BY <1>0, <1>1 DEF DisplayInv, PlaneInv, DisplayState, PipeState
  <2>2. pipe' \in PipeState
    BY <1>0, <1>1 DEF DisplayInv, WorkerInv, PlaneInv, DisplayState, PipeState
  <2>3. DisplayTypes'
    BY <2>1, <2>2, <1>1 DEF DisplayInv, DisplayTypes
  <2>4. TokensBounded' /\ PipeOwned' /\ PlaneInv' /\ WorkerInv' /\ DetachInv' /\ LightInv'
    BY <1>0, <1>1
       DEF DisplayInv, DisplayState, PipeState, TokensBounded, PipeOwned,
           PlaneInv, WorkerInv, DetachInv, LightInv, Taking, Blanking, Leaving
  <2> QED BY <2>3, <2>4 DEF DisplayInv
<1>2. CASE /\ holder = "bcs" /\ holder' = "start" /\ UNCHANGED <<display, pipe, presenter>>
  <2>1. display' \in DisplayState
    BY <1>0, <1>2 DEF DisplayInv, PlaneInv, DisplayState, PipeState
  <2>2. pipe' \in PipeState
    BY <1>0, <1>2 DEF DisplayInv, WorkerInv, PlaneInv, DisplayState, PipeState
  <2>3. DisplayTypes'
    BY <2>1, <2>2, <1>2 DEF DisplayInv, DisplayTypes
  <2>4. TokensBounded' /\ PipeOwned' /\ PlaneInv' /\ WorkerInv' /\ DetachInv' /\ LightInv'
    BY <1>0, <1>2
       DEF DisplayInv, DisplayState, PipeState, TokensBounded, PipeOwned,
           PlaneInv, WorkerInv, DetachInv, LightInv, Taking, Blanking, Leaving
  <2> QED BY <2>3, <2>4 DEF DisplayInv
<1>3. CASE /\ holder = "bcs" /\ display' = [display EXCEPT !.faulted = TRUE]
           /\ holder' = "stop" /\ UNCHANGED <<pipe, presenter>>
  <2>1. display' \in DisplayState
    BY <1>0, <1>3 DEF DisplayInv, PlaneInv, DisplayState, PipeState
  <2>2. pipe' \in PipeState
    BY <1>0, <1>3 DEF DisplayInv, WorkerInv, PlaneInv, DisplayState, PipeState
  <2>3. DisplayTypes'
    BY <2>1, <2>2, <1>3 DEF DisplayInv, DisplayTypes
  <2>4. TokensBounded' /\ PipeOwned' /\ PlaneInv' /\ WorkerInv' /\ DetachInv' /\ LightInv'
    BY <1>0, <1>3
       DEF DisplayInv, DisplayState, PipeState, TokensBounded, PipeOwned,
           PlaneInv, WorkerInv, DetachInv, LightInv, Taking, Blanking, Leaving
  <2> QED BY <2>3, <2>4 DEF DisplayInv
<1> QED
  BY <1>0, <1>1, <1>2, <1>3 DEF InitializeBcsRuntime, Can

LEMMA StartPresentWorkerStep ==
    ASSUME DisplayInv, StartPresentWorker
    PROVE  DisplayInv'
<1> USE DisplayAssumption DEF Scanout, NoScanout, Firmware, Duty
<1>0. display \in DisplayState /\ pipe \in PipeState
  BY DEF DisplayInv, DisplayTypes
<1>1. CASE /\ holder = "start" /\ pipe.live \in Scanout
           /\ display' = [display EXCEPT !.running = TRUE, !.enabled = TRUE,
                                         !.pending = NoScanout]
           /\ presenter' = "look" /\ holder' = "idle" /\ UNCHANGED pipe
  <2>1. display' \in DisplayState
    BY <1>0, <1>1 DEF DisplayInv, PlaneInv, DisplayState, PipeState
  <2>2. pipe' \in PipeState
    BY <1>0, <1>1 DEF DisplayInv, WorkerInv, PlaneInv, DisplayState, PipeState
  <2>3. DisplayTypes'
    BY <2>1, <2>2, <1>1 DEF DisplayInv, DisplayTypes
  <2>4. TokensBounded' /\ PipeOwned' /\ PlaneInv' /\ WorkerInv' /\ DetachInv' /\ LightInv'
    BY <1>0, <1>1
       DEF DisplayInv, DisplayState, PipeState, TokensBounded, PipeOwned,
           PlaneInv, WorkerInv, DetachInv, LightInv, Taking, Blanking, Leaving
  <2> QED BY <2>3, <2>4 DEF DisplayInv
<1>2. CASE /\ holder = "start" /\ holder' = "stop"
           /\ UNCHANGED <<display, pipe, presenter>>
  <2>1. display' \in DisplayState
    BY <1>0, <1>2 DEF DisplayInv, PlaneInv, DisplayState, PipeState
  <2>2. pipe' \in PipeState
    BY <1>0, <1>2 DEF DisplayInv, WorkerInv, PlaneInv, DisplayState, PipeState
  <2>3. DisplayTypes'
    BY <2>1, <2>2, <1>2 DEF DisplayInv, DisplayTypes
  <2>4. TokensBounded' /\ PipeOwned' /\ PlaneInv' /\ WorkerInv' /\ DetachInv' /\ LightInv'
    BY <1>0, <1>2
       DEF DisplayInv, DisplayState, PipeState, TokensBounded, PipeOwned,
           PlaneInv, WorkerInv, DetachInv, LightInv, Taking, Blanking, Leaving
  <2> QED BY <2>3, <2>4 DEF DisplayInv
<1> QED
  BY <1>0, <1>1, <1>2 DEF StartPresentWorker, Can

LEMMA PresenterLooksStep ==
    ASSUME DisplayInv, PresenterLooks
    PROVE  DisplayInv'
<1> USE DisplayAssumption DEF Scanout, NoScanout, Firmware, Duty
<1>0. display \in DisplayState /\ pipe \in PipeState
  BY DEF DisplayInv, DisplayTypes
<1>1. DisplayTypes'
  <2>1. display' \in DisplayState
    BY <1>0 DEF PresenterLooks, FlipPending, DisplayState, PipeState
  <2>2. pipe' \in PipeState
    BY <1>0 DEF PresenterLooks, FlipPending, DisplayState, PipeState
  <2>3. DisplayTypes'
    BY <2>1, <2>2 DEF PresenterLooks, FlipPending, DisplayInv, DisplayTypes
  <2> QED BY <2>3
<1>2. TokensBounded' /\ PipeOwned' /\ PlaneInv' /\ WorkerInv' /\ DetachInv' /\ LightInv'
  BY <1>0
     DEF PresenterLooks, FlipPending, DisplayInv, DisplayState, PipeState,
         TokensBounded, PipeOwned, PlaneInv, WorkerInv, DetachInv, LightInv,
         Taking, Blanking, Leaving
<1> QED BY <1>1, <1>2 DEF DisplayInv

LEMMA PresenterArmsStep ==
    ASSUME DisplayInv, PresenterArms
    PROVE  DisplayInv'
<1> USE DisplayAssumption DEF Scanout, NoScanout, Firmware, Duty
<1>0. display \in DisplayState /\ pipe \in PipeState
  BY DEF DisplayInv, DisplayTypes
<1>1. ASSUME NEW d \in CopyPresentFrameLocked,
             /\ presenter = "copy" /\ presenter' = "look" /\ holder' = holder
             /\ display' = [d EXCEPT !.enabled = FALSE] /\ pipe' = pipe
      PROVE  DisplayInv'
  <2>1. display' \in DisplayState
    <3>1. d \in DisplayState
      BY <1>0, <1>1, Copied
    <3> QED BY <1>1, <3>1 DEF DisplayState
  <2>2. pipe' \in PipeState
    BY <1>0, <1>1, Copied
       DEF DisplayInv, WorkerInv, PlaneInv, DisplayState, PipeState
  <2>3. DisplayTypes'
    BY <2>1, <2>2, <1>1 DEF DisplayInv, DisplayTypes
  <2>4. TokensBounded' /\ PipeOwned' /\ PlaneInv' /\ WorkerInv' /\ DetachInv' /\ LightInv'
    BY <1>0, <1>1, Copied
       DEF DisplayInv, DisplayState, PipeState, TokensBounded, PipeOwned,
           PlaneInv, WorkerInv, DetachInv, LightInv, Taking, Blanking, Leaving
  <2> QED BY <2>3, <2>4 DEF DisplayInv
<1>2. ASSUME NEW d \in CopyPresentFrameLocked,
             /\ presenter = "copy" /\ presenter' = "look" /\ holder' = holder
             /\ display' = [d EXCEPT !.pending = 1 - pipe.live]
             /\ pipe' = [pipe EXCEPT !.armed = 1 - pipe.live]
      PROVE  DisplayInv'
  <2>1. display' \in DisplayState
    <3>1. d \in DisplayState
      BY <1>0, <1>2, Copied
    <3>2. 1 - pipe.live \in Scanout
      BY <1>0, <1>2 DEF DisplayInv, WorkerInv, PipeOwned, PlaneInv
    <3> QED BY <1>2, <3>1, <3>2 DEF DisplayState
  <2>2. pipe' \in PipeState
    BY <1>0, <1>2, Copied
       DEF DisplayInv, WorkerInv, PlaneInv, DisplayState, PipeState
  <2>3. DisplayTypes'
    BY <2>1, <2>2, <1>2 DEF DisplayInv, DisplayTypes
  <2>4. TokensBounded' /\ PipeOwned' /\ PlaneInv' /\ WorkerInv' /\ DetachInv' /\ LightInv'
    BY <1>0, <1>2, Copied
       DEF DisplayInv, DisplayState, PipeState, TokensBounded, PipeOwned,
           PlaneInv, WorkerInv, DetachInv, LightInv, Taking, Blanking, Leaving
  <2> QED BY <2>3, <2>4 DEF DisplayInv
<1> QED
  BY <1>0, <1>1, <1>2 DEF PresenterArms, CopyPresentFrameLocked, PresentTarget

LEMMA PresenterWakesStep ==
    ASSUME DisplayInv, PresenterWakes
    PROVE  DisplayInv'
<1> USE DisplayAssumption DEF Scanout, NoScanout, Firmware, Duty
<1>0. display \in DisplayState /\ pipe \in PipeState
  BY DEF DisplayInv, DisplayTypes
<1>1. DisplayTypes'
  BY <1>0
     DEF PresenterWakes, DisplayInv, DisplayTypes, DisplayState, PipeState
<1>2. TokensBounded' /\ PipeOwned' /\ PlaneInv' /\ WorkerInv' /\ DetachInv' /\ LightInv'
  BY <1>0
     DEF PresenterWakes, DisplayInv, DisplayState, PipeState, TokensBounded,
         PipeOwned, PlaneInv, WorkerInv, DetachInv, LightInv, Taking,
         Blanking, Leaving
<1> QED BY <1>1, <1>2 DEF DisplayInv

LEMMA BlankDisplayStep ==
    ASSUME DisplayInv, BlankDisplay, UNCHANGED presenter
    PROVE  DisplayInv'
<1> USE DisplayAssumption DEF Scanout, NoScanout, Firmware, Duty
<1>0. display \in DisplayState /\ pipe \in PipeState
  BY DEF DisplayInv, DisplayTypes
<1>1. CASE /\ holder = "idle" /\ display.native /\ ~display.blanked /\ presenter # "copy"
           /\ display' = [display EXCEPT !.enabled = FALSE]
           /\ pipe' = PlaneOff([pipe EXCEPT !.pwm = "off", !.cursor = "hidden"])
           /\ holder' = "blank" /\ presenter' = presenter
  <2>1. display' \in DisplayState
    BY <1>0, <1>1 DEF PlaneOff, DisplayInv, PlaneInv, DisplayState, PipeState
  <2>2. pipe' \in PipeState
    BY <1>0, <1>1
       DEF PlaneOff, DisplayInv, WorkerInv, PlaneInv, DisplayState, PipeState
  <2>3. DisplayTypes'
    BY <2>1, <2>2, <1>1 DEF DisplayInv, DisplayTypes
  <2>4. TokensBounded' /\ PipeOwned' /\ PlaneInv' /\ WorkerInv' /\ DetachInv' /\ LightInv'
    BY <1>0, <1>1
       DEF PlaneOff, DisplayInv, DisplayState, PipeState, TokensBounded,
           PipeOwned, PlaneInv, WorkerInv, DetachInv, LightInv, Taking,
           Blanking, Leaving
  <2> QED BY <2>3, <2>4 DEF DisplayInv
<1>2. CASE /\ holder = "blank" /\ holder' = "idle" /\ UNCHANGED <<pipe, presenter>>
           /\ display' = [display EXCEPT !.pending = NoScanout, !.blanked = TRUE,
                                         !.dpms = "off"]
  <2>1. display' \in DisplayState
    BY <1>0, <1>2 DEF PlaneOff, DisplayInv, PlaneInv, DisplayState, PipeState
  <2>2. pipe' \in PipeState
    BY <1>0, <1>2
       DEF PlaneOff, DisplayInv, WorkerInv, PlaneInv, DisplayState, PipeState
  <2>3. DisplayTypes'
    BY <2>1, <2>2, <1>2 DEF DisplayInv, DisplayTypes
  <2>4. TokensBounded' /\ PipeOwned' /\ PlaneInv' /\ WorkerInv' /\ DetachInv' /\ LightInv'
    BY <1>0, <1>2
       DEF PlaneOff, DisplayInv, DisplayState, PipeState, TokensBounded,
           PipeOwned, PlaneInv, WorkerInv, DetachInv, LightInv, Taking,
           Blanking, Leaving
  <2> QED BY <2>3, <2>4 DEF DisplayInv
<1>3. CASE /\ holder = "blank" /\ holder' = "idle" /\ UNCHANGED <<pipe, presenter>>
           /\ display' = [display EXCEPT !.blanked = TRUE]
  <2>1. display' \in DisplayState
    BY <1>0, <1>3 DEF PlaneOff, DisplayInv, PlaneInv, DisplayState, PipeState
  <2>2. pipe' \in PipeState
    BY <1>0, <1>3
       DEF PlaneOff, DisplayInv, WorkerInv, PlaneInv, DisplayState, PipeState
  <2>3. DisplayTypes'
    BY <2>1, <2>2, <1>3 DEF DisplayInv, DisplayTypes
  <2>4. TokensBounded' /\ PipeOwned' /\ PlaneInv' /\ WorkerInv' /\ DetachInv' /\ LightInv'
    BY <1>0, <1>3
       DEF PlaneOff, DisplayInv, DisplayState, PipeState, TokensBounded,
           PipeOwned, PlaneInv, WorkerInv, DetachInv, LightInv, Taking,
           Blanking, Leaving
  <2> QED BY <2>3, <2>4 DEF DisplayInv
<1> QED
  BY <1>0, <1>1, <1>2, <1>3
     DEF BlankDisplay, PolledFlip, TimedOut, Detached, PresentLockFree,
         PlaneOff

LEMMA DpmsUnchangedStep ==
    ASSUME DisplayInv, DpmsUnchanged, UNCHANGED presenter
    PROVE  DisplayInv'
<1> USE DisplayAssumption DEF Scanout, NoScanout, Firmware, Duty
<1>0. display \in DisplayState /\ pipe \in PipeState
  BY DEF DisplayInv, DisplayTypes
<1>1. DisplayTypes'
  BY <1>0 DEF DpmsUnchanged, DisplayInv, DisplayTypes, DisplayState, PipeState
<1>2. TokensBounded' /\ PipeOwned' /\ PlaneInv' /\ WorkerInv' /\ DetachInv' /\ LightInv'
  BY <1>0
     DEF DpmsUnchanged, DisplayInv, DisplayState, PipeState, TokensBounded,
         PipeOwned, PlaneInv, WorkerInv, DetachInv, LightInv, Taking,
         Blanking, Leaving
<1> QED BY <1>1, <1>2 DEF DisplayInv

LEMMA UnblankBeginsStep ==
    ASSUME DisplayInv, UnblankBegins, UNCHANGED <<display, pipe, presenter>>
    PROVE  DisplayInv'
<1> USE DisplayAssumption DEF Scanout, NoScanout, Firmware, Duty
<1>0. display \in DisplayState /\ pipe \in PipeState
  BY DEF DisplayInv, DisplayTypes
<1>1. DisplayTypes'
  BY <1>0
     DEF UnblankBegins, PolledFlip, TimedOut, Detached, PresentLockFree,
         DisplayInv, DisplayTypes, DisplayState, PipeState
<1>2. TokensBounded' /\ PipeOwned' /\ PlaneInv' /\ WorkerInv' /\ DetachInv' /\ LightInv'
  BY <1>0
     DEF UnblankBegins, PolledFlip, TimedOut, Detached, PresentLockFree,
         DisplayInv, DisplayState, PipeState, TokensBounded, PipeOwned,
         PlaneInv, WorkerInv, DetachInv, LightInv, Taking, Blanking, Leaving
<1> QED BY <1>1, <1>2 DEF DisplayInv

LEMMA UnblankCopiesStep ==
    ASSUME DisplayInv, UnblankCopies, UNCHANGED presenter
    PROVE  DisplayInv'
<1> USE DisplayAssumption DEF Scanout, NoScanout, Firmware, Duty
<1>0. display \in DisplayState /\ pipe \in PipeState
  BY DEF DisplayInv, DisplayTypes
<1>1. ASSUME NEW d \in CopyPresentFrameLocked,
             /\ holder = "unblankCopy" /\ presenter' = presenter
             /\ display' = d /\ holder' = "idle" /\ pipe' = pipe
      PROVE  DisplayInv'
  <2>1. display' \in DisplayState
    BY <1>0, <1>1, Copied
       DEF PlaneOn, DisplayInv, PlaneInv, DisplayState, PipeState
  <2>2. pipe' \in PipeState
    BY <1>0, <1>1, Copied
       DEF PlaneOn, DisplayInv, WorkerInv, PlaneInv, DisplayState, PipeState
  <2>3. DisplayTypes'
    BY <2>1, <2>2, <1>1 DEF DisplayInv, DisplayTypes
  <2>4. TokensBounded' /\ PipeOwned' /\ PlaneInv' /\ WorkerInv' /\ DetachInv' /\ LightInv'
    BY <1>0, <1>1, Copied
       DEF PlaneOn, DisplayInv, DisplayState, PipeState, TokensBounded,
           PipeOwned, PlaneInv, WorkerInv, DetachInv, LightInv, Taking,
           Blanking, Leaving
  <2> QED BY <2>3, <2>4 DEF DisplayInv
<1>2. ASSUME NEW d \in CopyPresentFrameLocked,
             /\ holder = "unblankCopy" /\ presenter' = presenter
             /\ display' = [d EXCEPT !.pending = 0] /\ pipe' = PlaneOn(pipe, 0)
             /\ holder' = "unblankLatch"
      PROVE  DisplayInv'
  <2>1. display' \in DisplayState
    BY <1>0, <1>2, Copied
       DEF PlaneOn, DisplayInv, PlaneInv, DisplayState, PipeState
  <2>2. pipe' \in PipeState
    BY <1>0, <1>2, Copied
       DEF PlaneOn, DisplayInv, WorkerInv, PlaneInv, DisplayState, PipeState
  <2>3. DisplayTypes'
    BY <2>1, <2>2, <1>2 DEF DisplayInv, DisplayTypes
  <2>4. TokensBounded' /\ PipeOwned' /\ PlaneInv' /\ WorkerInv' /\ DetachInv' /\ LightInv'
    BY <1>0, <1>2, Copied
       DEF PlaneOn, DisplayInv, DisplayState, PipeState, TokensBounded,
           PipeOwned, PlaneInv, WorkerInv, DetachInv, LightInv, Taking,
           Blanking, Leaving
  <2> QED BY <2>3, <2>4 DEF DisplayInv
<1> QED
  BY <1>0, <1>1, <1>2 DEF UnblankCopies, CopyPresentFrameLocked, PlaneOn

LEMMA UnblankEndsStep ==
    ASSUME DisplayInv, UnblankEnds, UNCHANGED presenter
    PROVE  DisplayInv'
<1> USE DisplayAssumption DEF Scanout, NoScanout, Firmware, Duty
<1>0. display \in DisplayState /\ pipe \in PipeState
  BY DEF DisplayInv, DisplayTypes
<1>1. CASE /\ holder = "unblankLatch" /\ pipe.live = 0
           /\ display' = Woken([display EXCEPT !.pending = NoScanout,
                             !.enabled = TRUE, !.blanked = FALSE, !.dpms = "on"])
           /\ pipe' = ProgramCursor(display', [pipe EXCEPT !.pwm = display'.savedPwm])
           /\ holder' = "idle" /\ presenter' = presenter
  <2>1. display' \in DisplayState
    <3> DEFINE d == [display EXCEPT !.pending = NoScanout, !.enabled = TRUE,
                                    !.blanked = FALSE, !.dpms = "on"]
    <3>1. d \in DisplayState
      BY <1>0 DEF DisplayState
    <3>2. display' = [d EXCEPT !.wake = d.wake + 1]
      BY <1>1 DEF Woken
    <3> HIDE DEF d
    <3>3. d.wake + 1 \in Nat
      BY <3>1 DEF DisplayState
    <3> QED BY <3>1, <3>2, <3>3 DEF DisplayState
  <2>2. pipe' \in PipeState
    BY <1>0, <1>1
       DEF Woken, PlaneOff, ProgramCursor, DisplayInv, WorkerInv, PlaneInv,
           DisplayState, PipeState
  <2>3. DisplayTypes'
    BY <2>1, <2>2, <1>1 DEF DisplayInv, DisplayTypes
  <2>4. TokensBounded' /\ PipeOwned' /\ PlaneInv' /\ WorkerInv' /\ DetachInv' /\ LightInv'
    BY <1>0, <1>1
       DEF Woken, PlaneOff, ProgramCursor, DisplayInv, DisplayState,
           PipeState, TokensBounded, PipeOwned, PlaneInv, WorkerInv,
           DetachInv, LightInv, Taking, Blanking, Leaving
  <2> QED BY <2>3, <2>4 DEF DisplayInv
<1>2. CASE /\ holder = "unblankLatch" /\ holder' = "unblankUndo"
           /\ pipe' = PlaneOff(pipe) /\ UNCHANGED <<display, presenter>>
  <2>1. display' \in DisplayState
    BY <1>0, <1>2
       DEF Woken, PlaneOff, ProgramCursor, DisplayInv, PlaneInv, DisplayState,
           PipeState
  <2>2. pipe' \in PipeState
    BY <1>0, <1>2
       DEF Woken, PlaneOff, ProgramCursor, DisplayInv, WorkerInv, PlaneInv,
           DisplayState, PipeState
  <2>3. DisplayTypes'
    BY <2>1, <2>2, <1>2 DEF DisplayInv, DisplayTypes
  <2>4. TokensBounded' /\ PipeOwned' /\ PlaneInv' /\ WorkerInv' /\ DetachInv' /\ LightInv'
    BY <1>0, <1>2
       DEF Woken, PlaneOff, ProgramCursor, DisplayInv, DisplayState,
           PipeState, TokensBounded, PipeOwned, PlaneInv, WorkerInv,
           DetachInv, LightInv, Taking, Blanking, Leaving
  <2> QED BY <2>3, <2>4 DEF DisplayInv
<1>3. CASE /\ holder = "unblankUndo" /\ holder' = "idle" /\ UNCHANGED <<pipe, presenter>>
           /\ display' = [display EXCEPT !.pending = NoScanout]
  <2>1. display' \in DisplayState
    BY <1>0, <1>3
       DEF Woken, PlaneOff, ProgramCursor, DisplayInv, PlaneInv, DisplayState,
           PipeState
  <2>2. pipe' \in PipeState
    BY <1>0, <1>3
       DEF Woken, PlaneOff, ProgramCursor, DisplayInv, WorkerInv, PlaneInv,
           DisplayState, PipeState
  <2>3. DisplayTypes'
    BY <2>1, <2>2, <1>3 DEF DisplayInv, DisplayTypes
  <2>4. TokensBounded' /\ PipeOwned' /\ PlaneInv' /\ WorkerInv' /\ DetachInv' /\ LightInv'
    BY <1>0, <1>3
       DEF Woken, PlaneOff, ProgramCursor, DisplayInv, DisplayState,
           PipeState, TokensBounded, PipeOwned, PlaneInv, WorkerInv,
           DetachInv, LightInv, Taking, Blanking, Leaving
  <2> QED BY <2>3, <2>4 DEF DisplayInv
<1>4. CASE /\ holder = "unblankUndo" /\ holder' = "idle"
           /\ UNCHANGED <<display, pipe, presenter>>
  <2>1. display' \in DisplayState
    BY <1>0, <1>4
       DEF Woken, PlaneOff, ProgramCursor, DisplayInv, PlaneInv, DisplayState,
           PipeState
  <2>2. pipe' \in PipeState
    BY <1>0, <1>4
       DEF Woken, PlaneOff, ProgramCursor, DisplayInv, WorkerInv, PlaneInv,
           DisplayState, PipeState
  <2>3. DisplayTypes'
    BY <2>1, <2>2, <1>4 DEF DisplayInv, DisplayTypes
  <2>4. TokensBounded' /\ PipeOwned' /\ PlaneInv' /\ WorkerInv' /\ DetachInv' /\ LightInv'
    BY <1>0, <1>4
       DEF Woken, PlaneOff, ProgramCursor, DisplayInv, DisplayState,
           PipeState, TokensBounded, PipeOwned, PlaneInv, WorkerInv,
           DetachInv, LightInv, Taking, Blanking, Leaving
  <2> QED BY <2>3, <2>4 DEF DisplayInv
<1> QED
  BY <1>0, <1>1, <1>2, <1>3, <1>4
     DEF UnblankEnds, PolledFlip, TimedOut, Woken, Detached, PlaneOff,
         ProgramCursor

LEMMA SetBrightnessStep ==
    ASSUME DisplayInv, SetBrightness, UNCHANGED presenter
    PROVE  DisplayInv'
<1> USE DisplayAssumption DEF Scanout, NoScanout, Firmware, Duty
<1>0. display \in DisplayState /\ pipe \in PipeState
  BY DEF DisplayInv, DisplayTypes
<1>1. DisplayTypes'
  BY <1>0 DEF SetBrightness, DisplayInv, DisplayTypes, DisplayState, PipeState
<1>2. TokensBounded' /\ PipeOwned' /\ PlaneInv' /\ WorkerInv' /\ DetachInv' /\ LightInv'
  BY <1>0
     DEF SetBrightness, DisplayInv, DisplayState, PipeState, TokensBounded,
         PipeOwned, PlaneInv, WorkerInv, DetachInv, LightInv, Taking,
         Blanking, Leaving
<1> QED BY <1>1, <1>2 DEF DisplayInv

LEMMA ShowCursorStep ==
    ASSUME DisplayInv, ShowCursor, UNCHANGED presenter
    PROVE  DisplayInv'
<1> USE DisplayAssumption DEF Scanout, NoScanout, Firmware, Duty
<1>0. display \in DisplayState /\ pipe \in PipeState
  BY DEF DisplayInv, DisplayTypes
<1>1. DisplayTypes'
  BY <1>0
     DEF ShowCursor, ProgramCursor, DisplayInv, DisplayTypes, DisplayState,
         PipeState
<1>2. TokensBounded' /\ PipeOwned' /\ PlaneInv' /\ WorkerInv' /\ DetachInv' /\ LightInv'
  BY <1>0
     DEF ShowCursor, ProgramCursor, DisplayInv, DisplayState, PipeState,
         TokensBounded, PipeOwned, PlaneInv, WorkerInv, DetachInv, LightInv,
         Taking, Blanking, Leaving
<1> QED BY <1>1, <1>2 DEF DisplayInv

LEMMA SubmitBcsFillStep ==
    ASSUME DisplayInv, SubmitBcsFill, UNCHANGED presenter
    PROVE  DisplayInv'
<1> USE DisplayAssumption DEF Scanout, NoScanout, Firmware, Duty
<1>0. display \in DisplayState /\ pipe \in PipeState
  BY DEF DisplayInv, DisplayTypes
<1>1. DisplayTypes'
  <2>1. display' \in DisplayState
    BY <1>0 DEF SubmitBcsFill, Can, DisplayState, PipeState
  <2>2. pipe' \in PipeState
    BY <1>0 DEF SubmitBcsFill, Can, DisplayState, PipeState
  <2>3. DisplayTypes'
    BY <2>1, <2>2 DEF SubmitBcsFill, Can, DisplayInv, DisplayTypes
  <2> QED BY <2>3
<1>2. TokensBounded' /\ PipeOwned' /\ PlaneInv' /\ WorkerInv' /\ DetachInv' /\ LightInv'
  BY <1>0
     DEF SubmitBcsFill, Can, DisplayInv, DisplayState, PipeState,
         TokensBounded, PipeOwned, PlaneInv, WorkerInv, DetachInv, LightInv,
         Taking, Blanking, Leaving
<1> QED BY <1>1, <1>2 DEF DisplayInv

LEMMA StopPresentWorkerStep ==
    ASSUME DisplayInv, StopPresentWorker, UNCHANGED presenter
    PROVE  DisplayInv'
<1> USE DisplayAssumption DEF Scanout, NoScanout, Firmware, Duty
<1>0. display \in DisplayState /\ pipe \in PipeState
  BY DEF DisplayInv, DisplayTypes
<1>1. DisplayTypes'
  <2>1. display' \in DisplayState
    <3> DEFINE d == [display EXCEPT !.running = FALSE, !.enabled = FALSE]
    <3>1. d \in DisplayState
      BY <1>0 DEF DisplayState
    <3>2. display' = d \/ display' = [d EXCEPT !.wake = d.wake + 1]
      BY DEF StopPresentWorker, Woken
    <3> HIDE DEF d
    <3>3. d.wake + 1 \in Nat
      BY <3>1 DEF DisplayState
    <3> QED BY <3>1, <3>2, <3>3 DEF DisplayState
  <2>2. pipe' \in PipeState
    BY <1>0
       DEF StopPresentWorker, PresentLockFree, Woken, DisplayState, PipeState
  <2>3. DisplayTypes'
    BY <2>1, <2>2
       DEF StopPresentWorker, PresentLockFree, Woken, DisplayInv, DisplayTypes
  <2> QED BY <2>3
<1>2. TokensBounded' /\ PipeOwned' /\ PlaneInv' /\ WorkerInv' /\ DetachInv' /\ LightInv'
  BY <1>0
     DEF StopPresentWorker, PresentLockFree, Woken, DisplayInv, DisplayState,
         PipeState, TokensBounded, PipeOwned, PlaneInv, WorkerInv, DetachInv,
         LightInv, Taking, Blanking, Leaving
<1> QED BY <1>1, <1>2 DEF DisplayInv

LEMMA PresenterJoinedStep ==
    ASSUME DisplayInv, PresenterJoined, UNCHANGED presenter
    PROVE  DisplayInv'
<1> USE DisplayAssumption DEF Scanout, NoScanout, Firmware, Duty
<1>0. display \in DisplayState /\ pipe \in PipeState
  BY DEF DisplayInv, DisplayTypes
<1>1. DisplayTypes'
  BY <1>0
     DEF PresenterJoined, DisplayInv, DisplayTypes, DisplayState, PipeState
<1>2. TokensBounded' /\ PipeOwned' /\ PlaneInv' /\ WorkerInv' /\ DetachInv' /\ LightInv'
  BY <1>0
     DEF PresenterJoined, DisplayInv, DisplayState, PipeState, TokensBounded,
         PipeOwned, PlaneInv, WorkerInv, DetachInv, LightInv, Taking,
         Blanking, Leaving
<1> QED BY <1>1, <1>2 DEF DisplayInv

LEMMA CursorDisabledStep ==
    ASSUME DisplayInv, CursorDisabled, UNCHANGED presenter
    PROVE  DisplayInv'
<1> USE DisplayAssumption DEF Scanout, NoScanout, Firmware, Duty
<1>0. display \in DisplayState /\ pipe \in PipeState
  BY DEF DisplayInv, DisplayTypes
<1>1. CASE /\ holder = "cursor" /\ UNCHANGED <<display, presenter>>
           /\ pipe' = [RestoreFirmwarePlane(pipe) EXCEPT !.ring = FALSE]
           /\ \/ holder' = "planeFailed"
              \/ holder' = "plane" /\ pipe.cursorLive = "off"
  <2>1. display' \in DisplayState
    BY <1>0, <1>1
       DEF RestoreFirmwarePlane, PlaneOn, DisplayInv, PlaneInv, DisplayState,
           PipeState
  <2>2. pipe' \in PipeState
    BY <1>0, <1>1
       DEF RestoreFirmwarePlane, PlaneOn, DisplayInv, WorkerInv, PlaneInv,
           DisplayState, PipeState
  <2>3. DisplayTypes'
    BY <2>1, <2>2, <1>1 DEF DisplayInv, DisplayTypes
  <2>4. TokensBounded' /\ PipeOwned' /\ PlaneInv' /\ WorkerInv' /\ DetachInv' /\ LightInv'
    BY <1>0, <1>1
       DEF RestoreFirmwarePlane, PlaneOn, DisplayInv, DisplayState, PipeState,
           TokensBounded, PipeOwned, PlaneInv, WorkerInv, DetachInv, LightInv,
           Taking, Blanking, Leaving
  <2> QED BY <2>3, <2>4 DEF DisplayInv
<1>2. CASE /\ holder = "cursor" /\ UNCHANGED <<display, presenter>>
           /\ pipe' = RestoreFirmwarePlane(pipe)
           /\ holder' = "planeFailed"
  <2>1. display' \in DisplayState
    BY <1>0, <1>2
       DEF RestoreFirmwarePlane, PlaneOn, DisplayInv, PlaneInv, DisplayState,
           PipeState
  <2>2. pipe' \in PipeState
    BY <1>0, <1>2
       DEF RestoreFirmwarePlane, PlaneOn, DisplayInv, WorkerInv, PlaneInv,
           DisplayState, PipeState
  <2>3. DisplayTypes'
    BY <2>1, <2>2, <1>2 DEF DisplayInv, DisplayTypes
  <2>4. TokensBounded' /\ PipeOwned' /\ PlaneInv' /\ WorkerInv' /\ DetachInv' /\ LightInv'
    BY <1>0, <1>2
       DEF RestoreFirmwarePlane, PlaneOn, DisplayInv, DisplayState, PipeState,
           TokensBounded, PipeOwned, PlaneInv, WorkerInv, DetachInv, LightInv,
           Taking, Blanking, Leaving
  <2> QED BY <2>3, <2>4 DEF DisplayInv
<1> QED
  BY <1>0, <1>1, <1>2
     DEF CursorDisabled, PolledFlip, TimedOut, RestoreFirmwarePlane, PlaneOn,
         DisplayState, PipeState

LEMMA PlaneRestoredStep ==
    ASSUME DisplayInv, PlaneRestored, UNCHANGED presenter
    PROVE  DisplayInv'
<1> USE DisplayAssumption DEF Scanout, NoScanout, Firmware, Duty
<1>0. display \in DisplayState /\ pipe \in PipeState
  BY DEF DisplayInv, DisplayTypes
<1>1. CASE /\ holder = "plane" /\ pipe.live = Firmware
           /\ pipe' = [pipe EXCEPT !.ptes = FALSE, !.cursor = "firmware"]
           /\ display' = [display EXCEPT !.native = FALSE, !.blanked = FALSE,
                             !.pending = NoScanout,
                             !.areas = IF display.quarantined THEN display.areas ELSE "freed"]
           /\ holder' = "ended" /\ presenter' = presenter
  <2>1. display' \in DisplayState
    BY <1>0, <1>1 DEF DisplayInv, PlaneInv, DisplayState, PipeState
  <2>2. pipe' \in PipeState
    BY <1>0, <1>1 DEF DisplayInv, WorkerInv, PlaneInv, DisplayState, PipeState
  <2>3. DisplayTypes'
    BY <2>1, <2>2, <1>1 DEF DisplayInv, DisplayTypes
  <2>4. TokensBounded' /\ PipeOwned' /\ PlaneInv' /\ WorkerInv' /\ DetachInv' /\ LightInv'
    BY <1>0, <1>1
       DEF DisplayInv, DisplayState, PipeState, TokensBounded, PipeOwned,
           PlaneInv, WorkerInv, DetachInv, LightInv, Taking, Blanking, Leaving
  <2> QED BY <2>3, <2>4 DEF DisplayInv
<1>2. CASE /\ holder \in {"plane", "planeFailed"}
           /\ pipe' = [pipe EXCEPT !.cursor = "firmware"]
           /\ display' = [display EXCEPT !.native = FALSE, !.blanked = FALSE,
                             !.pending = NoScanout, !.quarantined = TRUE, !.faulted = TRUE]
           /\ holder' = "ended" /\ presenter' = presenter
  <2>1. display' \in DisplayState
    BY <1>0, <1>2 DEF DisplayInv, PlaneInv, DisplayState, PipeState
  <2>2. pipe' \in PipeState
    BY <1>0, <1>2 DEF DisplayInv, WorkerInv, PlaneInv, DisplayState, PipeState
  <2>3. DisplayTypes'
    BY <2>1, <2>2, <1>2 DEF DisplayInv, DisplayTypes
  <2>4. TokensBounded' /\ PipeOwned' /\ PlaneInv' /\ WorkerInv' /\ DetachInv' /\ LightInv'
    BY <1>0, <1>2
       DEF DisplayInv, DisplayState, PipeState, TokensBounded, PipeOwned,
           PlaneInv, WorkerInv, DetachInv, LightInv, Taking, Blanking, Leaving
  <2> QED BY <2>3, <2>4 DEF DisplayInv
<1> QED
  BY <1>0, Ended, <1>1, <1>2 DEF PlaneRestored, PolledFlip, TimedOut

LEMMA UninitDriverStep ==
    ASSUME DisplayInv, UninitDriver
    PROVE  DisplayInv'
<1> USE DisplayAssumption DEF Scanout, NoScanout, Firmware, Duty
<1>0. display \in DisplayState /\ pipe \in PipeState
  BY DEF DisplayInv, DisplayTypes
<1>1. DisplayTypes'
  BY <1>0 DEF UninitDriver, DisplayInv, DisplayTypes, DisplayState, PipeState
<1>2. TokensBounded' /\ PipeOwned' /\ PlaneInv' /\ WorkerInv' /\ DetachInv' /\ LightInv'
  BY <1>0
     DEF UninitDriver, DisplayInv, DisplayState, PipeState, TokensBounded,
         PipeOwned, PlaneInv, WorkerInv, DetachInv, LightInv, Taking,
         Blanking, Leaving
<1> QED BY <1>1, <1>2 DEF DisplayInv

LEMMA VerticalBlankStep ==
    ASSUME DisplayInv, VerticalBlank
    PROVE  DisplayInv'
<1> USE DisplayAssumption DEF Scanout, NoScanout, Firmware, Duty
<1>0. display \in DisplayState /\ pipe \in PipeState
  BY DEF DisplayInv, DisplayTypes
<1>1. DisplayTypes'
  <2>1. display' \in DisplayState
    BY <1>0 DEF VerticalBlank, DisplayState, PipeState
  <2>2. pipe' \in PipeState
    BY <1>0 DEF VerticalBlank, DisplayState, PipeState
  <2>3. DisplayTypes'
    BY <2>1, <2>2 DEF VerticalBlank, DisplayInv, DisplayTypes
  <2> QED BY <2>3
<1>2. TokensBounded' /\ PipeOwned' /\ PlaneInv' /\ WorkerInv' /\ DetachInv' /\ LightInv'
  BY <1>0
     DEF VerticalBlank, DisplayInv, DisplayState, PipeState, TokensBounded,
         PipeOwned, PlaneInv, WorkerInv, DetachInv, LightInv, Taking,
         Blanking, Leaving
<1> QED BY <1>1, <1>2 DEF DisplayInv

-----------------------------------------------------------------------------
LEMMA DisplayInitInv == DisplayInit => DisplayInv
BY DisplayAssumption
   DEF DisplayInit, DisplayInv, DisplayTypes, DisplayState, PipeState, TokensBounded,
       PipeOwned, PlaneInv, WorkerInv, DetachInv, LightInv, Taking, Blanking, Leaving,
       Scanout, NoScanout, Firmware, Duty

LEMMA DisplayStep == DisplayInv /\ [DisplayNext]_displayVars => DisplayInv'
<1> SUFFICES ASSUME DisplayInv, [DisplayNext]_displayVars
             PROVE  DisplayInv'
  OBVIOUS
<1>1. CASE InitializeP0
  BY <1>1, AllocateP0MemoryStep, TakeNativeScanoutStep, ScanoutTakenStep,
     ScanoutRefusedStep, RollBackStep, InitializeBcsRuntimeStep,
     StartPresentWorkerStep DEF InitializeP0
<1>2. CASE DisplayCalls
  BY <1>2, BlankDisplayStep, DpmsUnchangedStep, UnblankBeginsStep,
     UnblankCopiesStep, UnblankEndsStep, SetBrightnessStep, ShowCursorStep,
     SubmitBcsFillStep DEF DisplayCalls, UnblankDisplay
<1>3. CASE UninitDriver
  BY <1>3, UninitDriverStep
<1>4. CASE ShutdownP0
  BY <1>4, StopPresentWorkerStep, PresenterJoinedStep, CursorDisabledStep,
     PlaneRestoredStep DEF ShutdownP0
<1>5. CASE PresentWorker
  BY <1>5, PresenterLooksStep, PresenterArmsStep, PresenterWakesStep
     DEF PresentWorker
<1>6. CASE VerticalBlank
  BY <1>6, VerticalBlankStep
<1>7. CASE UNCHANGED displayVars
  BY <1>7 DEF displayVars, DisplayInv, DisplayTypes, TokensBounded, PipeOwned,
              PlaneInv, WorkerInv, DetachInv, LightInv
<1> QED BY <1>1, <1>2, <1>3, <1>4, <1>5, <1>6, <1>7 DEF DisplayNext

\* Every variable has its type, and one token of presentWakeSem is enough.
THEOREM DisplayTypeCorrect == DisplaySpec => []DisplayTypeOK
<1>1. DisplayInv => DisplayTypeOK
  <2> SUFFICES ASSUME DisplayInv PROVE DisplayTypeOK
    OBVIOUS
  <2>1. display \in DisplayState /\ pipe \in PipeState
    BY DEF DisplayInv, DisplayTypes
  <2>2. display.wake \in 0..(WakeLimit + 1)
    BY <2>1, DisplayAssumption DEF DisplayInv, TokensBounded, DisplayState
  <2> QED BY <2>1, <2>2 DEF DisplayInv, DisplayTypes, DisplayTypeOK, DisplayState, PipeState
<1> QED BY <1>1, DisplayInitInv, DisplayStep, PTL DEF DisplaySpec

\* The present worker, UnblankDisplay and VerifyBcsPresent draw only to a surface
\* that is neither scanned out nor armed.
THEOREM DrawnIsNotShownCorrect == DisplaySpec => []DrawnIsNotShown
<1>1. DisplayInv => DrawnIsNotShown
  <2> SUFFICES ASSUME DisplayInv PROVE DrawnIsNotShown
    OBVIOUS
  <2>1. ASSUME presenter = "copy"
        PROVE  PresentTarget \notin {pipe.live, pipe.armed}
    <3>1. pipe.armed = pipe.live /\ pipe.live \in Scanout
      BY <2>1 DEF DisplayInv, WorkerInv, PlaneInv, PipeOwned, Leaving
    <3> QED BY <3>1 DEF PresentTarget, Scanout
  <2>2. ASSUME holder = "unblankCopy"
        PROVE  0 \notin {pipe.live, pipe.armed}
    BY <2>2 DEF DisplayInv, PlaneInv, Scanout, NoScanout
  <2>3. ASSUME holder = "bcs"
        PROVE  1 \notin {pipe.live, pipe.armed}
    BY <2>3 DEF DisplayInv, PlaneInv
  <2> QED BY <2>1, <2>2, <2>3 DEF DrawnIsNotShown, Drawn
<1> QED BY <1>1, DisplayInitInv, DisplayStep, PTL DEF DisplaySpec

\* ShutdownP0 and the roll-back of InitializeP0 free the memory only when plane,
\* cursor, copy engine, page table entries and worker have let go of it.
THEOREM FreedIsDetachedCorrect == DisplaySpec => []FreedIsDetached
<1>1. DisplayInv => FreedIsDetached
  BY DEF DisplayInv, PipeOwned, DetachInv, FreedIsDetached, Leaving, Scanout, Firmware
<1> QED BY <1>1, DisplayInitInv, DisplayStep, PTL DEF DisplaySpec

\* The backlight burns only over a live surface of the driver's, and a blanked
\* display stays dark under SetBrightness and ShowCursor.
THEOREM DarkUntilShownCorrect == DisplaySpec => []DarkUntilShown
<1>1. DisplayInv => DarkUntilShown
  BY DEF DisplayInv, DisplayTypes, PipeOwned, PlaneInv, LightInv, DarkUntilShown,
         Taking, Blanking, Scanout
<1> QED BY <1>1, DisplayInitInv, DisplayStep, PTL DEF DisplaySpec
=============================================================================

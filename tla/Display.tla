------------------------------- MODULE Display -------------------------------
(***************************************************************************)
(* The P0 display of intel_valleyview: taking the pipe from the firmware,   *)
(* two scanout surfaces a present worker copies to in turn, blanking, the   *)
(* cursor and the backlight, and giving the pipe back.  The plane registers *)
(* are double buffered: what is written is armed, and a vertical blank      *)
(* makes it live.  The threads that enter through device.lock, and the      *)
(* driver's own tear-down, are one caller; the present worker is another,   *)
(* and presentLock is held from copying to arming.                          *)
(***************************************************************************)
EXTENDS Integers

CONSTANTS DisplayFault,  \* what may fail
          WakeLimit      \* bound on the tokens of presentWakeSem

ASSUME DisplayAssumption ==
    /\ DisplayFault \subseteq {"late", "copy", "hang", "memory", "pte", "thread"}
    /\ WakeLimit \in Nat \ {0}

VARIABLES display,  \* the fields of ValleyViewDevice
          pipe,     \* the registers of plane, cursor, backlight, GGTT and BCS
          holder,   \* where the caller is
          presenter \* where the present worker is

displayVars == <<display, pipe, holder, presenter>>

Scanout == {0, 1}
NoScanout == -1
Firmware == 2   \* the surface the firmware had armed
Duty == {"low", "high"}
Can(kind) == kind \in DisplayFault

DisplayInit ==
    /\ display = [native |-> FALSE, areas |-> "none", faulted |-> FALSE,
                  quarantined |-> FALSE, running |-> FALSE, enabled |-> FALSE,
                  pending |-> NoScanout, usesBcs |-> FALSE, wake |-> 0,
                  blanked |-> FALSE, dpms |-> "on", savedPwm |-> "high",
                  visible |-> FALSE]
    /\ pipe = [enabled |-> TRUE, armed |-> Firmware, live |-> Firmware,
               pwm |-> "high", cursor |-> "firmware", cursorLive |-> "firmware",
               ptes |-> FALSE, ring |-> FALSE]
    /\ holder = "idle" /\ presenter = "none"

\* Registers take effect
VerticalBlank ==
    /\ pipe' = [pipe EXCEPT !.live = IF pipe.enabled THEN pipe.armed ELSE NoScanout,
                            !.cursorLive = pipe.cursor]
    /\ UNCHANGED <<display, holder, presenter>>

PresentLockFree == presenter # "copy"

\* Mutant: the token of presentWakeSem is not released
NotWoken(d) == d
Woken(d) == [d EXCEPT !.wake = @ + 1]

PlaneOff(p) == [p EXCEPT !.enabled = FALSE, !.armed = NoScanout]
PlaneOn(p, surface) == [p EXCEPT !.enabled = TRUE, !.armed = surface]
Detached == ~pipe.enabled /\ pipe.live \notin Scanout

\* A poll ends when what it waits for is so, or at its deadline: it may become
\* so between the last look and what the caller does about it
PolledFlip(stage, condition) == holder = stage /\ condition
TimedOut(stage) == holder = stage /\ Can("late")

\* The cursor's base is programmed even when its mode is off
ProgramCursor(d, p) ==
    [p EXCEPT !.cursor = IF d.visible /\ ~d.blanked THEN "shown" ELSE "hidden"]

RestoreFirmwarePlane(p) ==
    [PlaneOn(p, Firmware) EXCEPT !.pwm = display.savedPwm]

\* SubmitBcsPresent and its fallback: the copy engine may fail, and fault the
\* GPU when its ring could not be restored; a faulted GPU gets no CPU copy
CopyPresentFrameLocked ==
    IF display.usesBcs
    THEN {display} \cup
         (IF Can("copy") THEN {[display EXCEPT !.usesBcs = FALSE]} ELSE {}) \cup
         (IF Can("hang") THEN {[display EXCEPT !.usesBcs = FALSE, !.faulted = TRUE]}
          ELSE {})
    ELSE {display}

----------------------------------------------------------------------------
(* Taking the pipe: PublishValleyViewGraphics and InitializeP0.            *)

AllocateP0Memory ==
    /\ holder = "idle" /\ display.areas = "none"
    /\ ~display.faulted /\ ~display.quarantined
    /\ \/ /\ Can("memory")  \* some of the areas, and no entry written
          /\ display' = [display EXCEPT !.areas = "p0"]
          /\ holder' = "rollback" /\ UNCHANGED pipe
       \/ /\ display' = [display EXCEPT !.areas = "p0"]
          /\ pipe' = [pipe EXCEPT !.ptes = TRUE]
          /\ \/ holder' = "take"
             \/ Can("pte") /\ holder' = "rollback"
    /\ UNCHANGED presenter

\* The firmware's state is looked at again, and refused or saved; in the dark
\* the plane is turned off for a while and surface 0 armed
TakeNativeScanout ==
    /\ \/ /\ holder = "take"
          /\ pipe' = PlaneOff([pipe EXCEPT !.pwm = "off"])
          /\ display' = [display EXCEPT !.savedPwm = pipe.pwm]
          /\ holder' = "arm"
       \/ holder = "take" /\ holder' = "rollback" /\ UNCHANGED <<display, pipe>>
       \/ /\ holder = "arm" /\ holder' = "latch"
          /\ pipe' = PlaneOn(pipe, 0) /\ UNCHANGED display
    /\ UNCHANGED presenter

ScanoutTaken ==
    LET d == [display EXCEPT !.native = TRUE, !.dpms = "on"]
    IN  /\ PolledFlip("latch", pipe.live = 0)
        /\ display' = d
        /\ pipe' = ProgramCursor(d, [pipe EXCEPT !.pwm = d.savedPwm, !.ring = TRUE])
        /\ holder' = "bcs" /\ UNCHANGED presenter

ScanoutRefused ==
    \/ /\ TimedOut("latch")
       /\ pipe' = RestoreFirmwarePlane(pipe)
       /\ holder' = "return" /\ UNCHANGED <<display, presenter>>
    \/ /\ PolledFlip("return", pipe.live = Firmware)
       /\ holder' = "rollback" /\ UNCHANGED <<display, pipe, presenter>>
    \/ /\ TimedOut("return")
       /\ display' = [display EXCEPT !.quarantined = TRUE, !.faulted = TRUE]
       /\ holder' = "rollback" /\ UNCHANGED <<pipe, presenter>>

\* What was mapped is unmapped and freed; the firmware's framebuffer is adopted
RollBack ==
    /\ holder = "rollback"
    /\ \/ /\ ~display.quarantined
          /\ pipe' = [pipe EXCEPT !.ptes = FALSE]
          /\ display' = [display EXCEPT !.areas = "adopted"]
       \/ /\ ~display.quarantined /\ pipe.ptes /\ Can("pte")
          /\ display' = [display EXCEPT !.quarantined = TRUE, !.faulted = TRUE]
          /\ UNCHANGED pipe
       \/ display.quarantined /\ UNCHANGED <<display, pipe>>
    /\ holder' = "idle" /\ UNCHANGED presenter

\* InitializeBcsRuntime, then VerifyBcsPresent, which draws in surface 1
InitializeBcsRuntime ==
    /\ holder = "bcs"
    /\ \/ display' = [display EXCEPT !.usesBcs = TRUE] /\ holder' = "start"
       \/ Can("copy") /\ holder' = "start" /\ UNCHANGED display
       \/ /\ Can("hang") /\ display' = [display EXCEPT !.faulted = TRUE]
          /\ holder' = "stop"
    /\ UNCHANGED <<pipe, presenter>>

StartPresentWorker ==
    /\ holder = "start"
    /\ \/ /\ pipe.live \in Scanout
          /\ display' = [display EXCEPT !.running = TRUE, !.enabled = TRUE,
                                        !.pending = NoScanout]
          /\ presenter' = "look" /\ holder' = "idle"
       \/ Can("thread") /\ holder' = "stop" /\ UNCHANGED <<display, presenter>>
    /\ UNCHANGED pipe

InitializeP0 ==
    \/ AllocateP0Memory \/ TakeNativeScanout \/ ScanoutTaken \/ ScanoutRefused
    \/ RollBack \/ InitializeBcsRuntime \/ StartPresentWorker

----------------------------------------------------------------------------
(* The present worker.                                                     *)

\* Mutant: the flip is taken to have happened
FlipAssumed(d) == FALSE
FlipPending(d) == d.pending # NoScanout

\* The turn of the loop under presentLock up to the copy: a pending surface is
\* waited for by polling, a frame goes to the surface that is not live
PresenterLooks ==
    LET live == pipe.live
        d == [display EXCEPT !.pending = IF @ = live THEN NoScanout ELSE @]
    IN  /\ presenter = "look"
        /\ holder \notin {"blank", "unblank", "unblankCopy", "unblankLatch",
                          "unblankUndo"}
        /\ presenter' = IF ~display.running THEN "gone"
                        ELSE IF ~display.enabled THEN "sleep"
                        ELSE IF FlipPending(d) \/ live \notin Scanout THEN "look"
                        ELSE "copy"
        /\ display' = IF ~display.running \/ ~display.enabled THEN display
                      ELSE IF d.pending = NoScanout /\ live \notin Scanout
                      THEN [d EXCEPT !.enabled = FALSE]
                      ELSE d
        /\ UNCHANGED <<pipe, holder>>

PresentTarget == 1 - pipe.live

PresenterArms ==
    /\ presenter = "copy"
    /\ \E d \in CopyPresentFrameLocked :
          IF d.faulted
          THEN /\ display' = [d EXCEPT !.enabled = FALSE]
               /\ UNCHANGED pipe
          ELSE /\ display' = [d EXCEPT !.pending = PresentTarget]
               /\ pipe' = [pipe EXCEPT !.armed = PresentTarget]
    /\ presenter' = "look" /\ UNCHANGED holder

PresenterWakes ==
    /\ presenter = "sleep" /\ display.wake > 0
    /\ display' = [display EXCEPT !.wake = @ - 1]
    /\ presenter' = "look" /\ UNCHANGED <<pipe, holder>>

PresentWorker == PresenterLooks \/ PresenterArms \/ PresenterWakes

----------------------------------------------------------------------------
(* Blanking.                                                               *)

BlankDisplay ==
    \/ /\ holder = "idle" /\ display.native /\ ~display.blanked /\ PresentLockFree
       /\ display' = [display EXCEPT !.enabled = FALSE]
       /\ pipe' = PlaneOff([pipe EXCEPT !.pwm = "off", !.cursor = "hidden"])
       /\ holder' = "blank"
    \/ /\ PolledFlip("blank", Detached)
       /\ display' = [display EXCEPT !.pending = NoScanout, !.blanked = TRUE, !.dpms = "off"]
       /\ holder' = "idle" /\ UNCHANGED pipe
    \/ /\ TimedOut("blank")  \* blanked all the same
       /\ display' = [display EXCEPT !.blanked = TRUE]
       /\ holder' = "idle" /\ UNCHANGED pipe

\* SetDpms where the display is already so
DpmsUnchanged ==
    /\ holder = "idle" /\ display.native
    /\ display' = [display EXCEPT !.dpms = IF display.blanked THEN "off" ELSE "on"]
    /\ display' # display
    /\ UNCHANGED <<pipe, holder>>

UnblankBegins ==
    \/ /\ holder = "idle" /\ display.native /\ display.blanked
       /\ display.wake < WakeLimit /\ PresentLockFree
       /\ holder' = "unblank"
    \/ PolledFlip("unblank", Detached) /\ holder' = "unblankCopy"
    \/ TimedOut("unblank") /\ holder' = "idle"

UnblankCopies ==
    /\ holder = "unblankCopy"
    /\ \E d \in CopyPresentFrameLocked :
          \/ d.faulted /\ display' = d /\ holder' = "idle" /\ UNCHANGED pipe
          \/ /\ ~d.faulted
             /\ display' = [d EXCEPT !.pending = 0]
             /\ pipe' = PlaneOn(pipe, 0)
             /\ holder' = "unblankLatch"

UnblankEnds ==
    \/ LET d == Woken([display EXCEPT !.pending = NoScanout, !.enabled = TRUE,
                                      !.blanked = FALSE, !.dpms = "on"])
       IN  /\ PolledFlip("unblankLatch", pipe.live = 0)
           /\ display' = d
           /\ pipe' = ProgramCursor(d, [pipe EXCEPT !.pwm = d.savedPwm])
           /\ holder' = "idle"
    \/ /\ TimedOut("unblankLatch")
       /\ pipe' = PlaneOff(pipe)
       /\ holder' = "unblankUndo" /\ UNCHANGED display
    \/ /\ PolledFlip("unblankUndo", Detached)
       /\ display' = [display EXCEPT !.pending = NoScanout]
       /\ holder' = "idle" /\ UNCHANGED pipe
    \/ TimedOut("unblankUndo") /\ holder' = "idle" /\ UNCHANGED <<display, pipe>>

UnblankDisplay ==
    \/ UnblankBegins /\ UNCHANGED <<display, pipe>>
    \/ UnblankCopies
    \/ UnblankEnds

\* Mutant: the backlight is lit whether or not the display is blanked
BrightnessInTheDark ==
    /\ holder = "idle" /\ display.native
    /\ \E duty \in Duty \cup {"off"} :
          /\ display' = [display EXCEPT !.savedPwm = duty]
          /\ pipe' = [pipe EXCEPT !.pwm = duty]
    /\ UNCHANGED holder

SetBrightness ==
    /\ holder = "idle" /\ display.native
    /\ \E duty \in Duty \cup {"off"} :
          /\ display' = [display EXCEPT !.savedPwm = duty]
          /\ pipe' = [pipe EXCEPT !.pwm = IF display.blanked THEN @ ELSE duty]
    /\ UNCHANGED holder

\* The shape, the position and the visibility all end in ProgramCursor
ShowCursor ==
    /\ holder = "idle" /\ display.native
    /\ \E visible \in BOOLEAN :
          /\ display' = [display EXCEPT !.visible = visible]
          /\ pipe' = ProgramCursor(display', pipe)
    /\ UNCHANGED holder

\* SubmitBcsFill and SubmitBcsBlit draw in the framebuffer with either engine
SubmitBcsFill ==
    /\ holder = "idle" /\ display.native /\ ~display.faulted
    /\ Can("hang") /\ display' = [display EXCEPT !.faulted = TRUE]
    /\ UNCHANGED <<pipe, holder>>

DisplayCalls ==
    /\ BlankDisplay \/ DpmsUnchanged \/ UnblankDisplay \/ SetBrightness
         \/ ShowCursor \/ SubmitBcsFill
    /\ UNCHANGED presenter

----------------------------------------------------------------------------
(* Giving the pipe back: ShutdownP0, from UninitDriver or InitializeP0.    *)

\* StopPresentWorker up to the join
StopPresentWorker ==
    /\ holder = "stop" /\ PresentLockFree
    /\ LET d == [display EXCEPT !.running = FALSE, !.enabled = FALSE]
       IN  display' = IF presenter # "none" THEN Woken(d) ELSE d
    /\ holder' = "join" /\ UNCHANGED pipe

\* It is joined and the cursor is disabled
PresenterJoined ==
    /\ holder = "join" /\ presenter \in {"none", "gone"}
    /\ pipe' = [pipe EXCEPT !.cursor = "off"]
    /\ holder' = "cursor" /\ UNCHANGED display

\* The copy engine is quiesced and the firmware's plane restored, whatever failed
CursorDisabled ==
    LET left(failed) ==
            \/ /\ pipe' = [RestoreFirmwarePlane(pipe) EXCEPT !.ring = FALSE]
               /\ holder' = IF failed THEN "planeFailed" ELSE "plane"
            \/ /\ Can("hang")
               /\ pipe' = RestoreFirmwarePlane(pipe) /\ holder' = "planeFailed"
    IN  /\ \/ PolledFlip("cursor", pipe.cursorLive = "off") /\ left(FALSE)
           \/ TimedOut("cursor") /\ left(TRUE)
        /\ UNCHANGED display

\* Mutant: the memory is freed although its entries are not restored
FreedAnyway(restored) ==
    /\ pipe' = [pipe EXCEPT !.ptes = ~restored, !.cursor = "firmware"]
    /\ display' = [display EXCEPT !.native = FALSE, !.blanked = FALSE,
                      !.pending = NoScanout, !.areas = "freed"]
    /\ holder' = "ended"

\* The entries are restored only if everything before succeeded
EndOfShutdown(restored) ==
    LET d == [display EXCEPT !.native = FALSE, !.blanked = FALSE, !.pending = NoScanout,
                 !.quarantined = @ \/ ~restored, !.faulted = @ \/ ~restored]
    IN  /\ pipe' = [pipe EXCEPT !.ptes = IF restored THEN FALSE ELSE @,
                                !.cursor = "firmware"]
        /\ display' = [d EXCEPT !.areas = IF d.quarantined THEN @ ELSE "freed"]
        /\ holder' = "ended"

PlaneRestored ==
    \/ PolledFlip("plane", pipe.live = Firmware) /\ EndOfShutdown(TRUE)
    \/ PolledFlip("plane", pipe.live = Firmware) /\ Can("pte") /\ EndOfShutdown(FALSE)
    \/ PolledFlip("planeFailed", pipe.live = Firmware) /\ EndOfShutdown(FALSE)
    \/ \E stage \in {"plane", "planeFailed"} :
          TimedOut(stage) /\ EndOfShutdown(FALSE)

UninitDriver ==
    /\ holder = "idle" /\ display.areas # "none"
    /\ \/ display.native /\ holder' = "stop" /\ UNCHANGED display
       \/ /\ ~display.native /\ holder' = "ended"
          /\ display' = [display EXCEPT !.areas =
                            IF display.quarantined THEN @ ELSE "freed"]
    /\ UNCHANGED <<pipe, presenter>>

ShutdownP0 ==
    /\ StopPresentWorker \/ PresenterJoined \/ CursorDisabled \/ PlaneRestored
    /\ UNCHANGED presenter

----------------------------------------------------------------------------
DisplayNext == InitializeP0 \/ DisplayCalls \/ UninitDriver \/ ShutdownP0
                 \/ PresentWorker \/ VerticalBlank

\* The worker is a kernel thread and vertical blanks keep coming.  A shutdown
\* that began is carried on, and gets presentLock although the worker takes it
\* at every turn: a mutex is handed to the thread that waits for it.  Nothing
\* makes a caller call.
DisplayFairness ==
    /\ WF_displayVars(PresentWorker) /\ WF_displayVars(VerticalBlank)
    /\ WF_displayVars(ShutdownP0) /\ SF_displayVars(StopPresentWorker /\ UNCHANGED presenter)

DisplaySpec == DisplayInit /\ [][DisplayNext]_displayVars /\ DisplayFairness

DisplayTypeOK ==
    /\ display.pending \in Scanout \cup {NoScanout} /\ display.wake \in 0..(WakeLimit + 1)
    /\ display.areas \in {"none", "p0", "adopted", "freed"}
    /\ pipe.armed \in Scanout \cup {NoScanout, Firmware}
    /\ presenter \in {"none", "look", "copy", "sleep", "gone"}

\* A surface is not drawn to while the plane scans it out or has it armed, by
\* the worker, by unblanking or by the test of the copy engine
Drawn == (IF presenter = "copy" THEN {PresentTarget} ELSE {})
           \cup (IF holder = "unblankCopy" THEN {0} ELSE {})
           \cup (IF holder = "bcs" THEN {1} ELSE {})
DrawnIsNotShown == Drawn \cap {pipe.live, pipe.armed} = {}

\* The memory of the display is freed only when the hardware has let go of
\* all of it: the plane, the cursor, the copy engine and the page table
\* entries, and the worker is gone.
FreedIsDetached ==
    display.areas \in {"freed", "adopted"} =>
        /\ {pipe.live, pipe.armed} \cap Scanout = {}
        /\ {pipe.cursorLive} \cap {"shown", "hidden"} = {}
        /\ ~pipe.ptes /\ ~pipe.ring /\ presenter \in {"none", "gone"}

\* While the driver has the pipe the backlight burns only over a surface of
\* its own that is live, and a blanked display shows neither light nor cursor,
\* whatever brightness and cursor calls come between.
DarkUntilShown ==
    display.native /\ holder \notin {"plane", "planeFailed"} =>
        /\ pipe.pwm # "off" => pipe.enabled /\ pipe.live \in Scanout
        /\ display.blanked => pipe.pwm = "off" /\ pipe.cursor # "shown"

\* Frames go on as long as presentation is enabled: no wake-up of the worker
\* is lost between blanking and unblanking
FramesGoOn == <>[]display.enabled => []<>(presenter = "copy")

\* A shutdown ends, with the memory freed or quarantined
ShutdownEnds == holder = "stop" ~> holder = "ended"
=============================================================================

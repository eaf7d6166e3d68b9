------------------------------ MODULE TouchPad ------------------------------
(***************************************************************************)
(* The maXTouch touchpad: fingers and the button change on the pad, whose   *)
(* message queue keeps a level interrupt asserted; the worker drains the    *)
(* queue through TouchEngine, which turns contact slots and the late button *)
(* into frames, and writes the frames to the ring the input server reads.   *)
(* A position is abstracted to the contact it comes from.                   *)
(***************************************************************************)
EXTENDS Integers, FiniteSets, SequencesExt

CONSTANTS Slot,          \* contact slots, numbered from 0
          MessageLimit,  \* bound on the messages that wait in the pad
          FrameBatch,    \* MXT_MAX_FRAME_BATCH
          RingCapacity,  \* MXT_RING_CAPACITY - 1
          TouchFault     \* which steps of a drain may fail

ASSUME TouchAssumption ==
    /\ Slot \subseteq Nat /\ IsFiniteSet(Slot)
    /\ {MessageLimit, FrameBatch, RingCapacity} \subseteq Nat \ {0}
    /\ TouchFault \subseteq {"bus", "count"}

VARIABLES pad,     \* fingers on it, button, messages queued
          touch,   \* the fields of TouchEngine
          pump,    \* the worker
          events   \* ring, the last frame written and the last one read

padVars == <<pad, touch, pump, events>>

NoSlot == -1
Frame == [fingers : SUBSET Slot, at : Slot \cup {NoSlot}, button : BOOLEAN]
Neutral(button) == [fingers |-> {}, at |-> NoSlot, button |-> button]
NoFrame == Neutral(FALSE)   \* no valid snapshot: none of theirs is neutral
Many(f) == Cardinality(f.fingers) >= 2

EngineReset == [active |-> {}, primary |-> NoSlot, button |-> FALSE,
                snapshot |-> NoFrame, stable |-> NoFrame, stableRecent |-> FALSE,
                candidate |-> NoFrame, candidateRecent |-> FALSE,
                pending |-> <<>>, ok |-> TRUE]

TouchInit ==
    /\ pad = [fingers |-> {}, button |-> FALSE, queue |-> <<>>]
    /\ touch = EngineReset
    /\ pump = [at |-> "wait", frames |-> <<>>, stanza |-> FALSE, was |-> FALSE,
               reset |-> FALSE]
    /\ events = [ring |-> <<>>, written |-> NoFrame, read |-> NoFrame]

----------------------------------------------------------------------------
(* TouchEngine, as operators on its record.                                *)

Primary(e) == IF e.primary \in e.active THEN e.primary
              ELSE CHOOSE s \in e.active : \A r \in e.active : s <= r

BuildCurrentContacts(e) ==
    IF e.active = {} THEN NoFrame
    ELSE [fingers |-> e.active, at |-> Primary(e), button |-> FALSE]

Snapshotting(e) == e.button /\ e.snapshot # NoFrame

BuildOutputState(e) ==
    [(IF Snapshotting(e) THEN e.snapshot ELSE BuildCurrentContacts(e))
        EXCEPT !.button = e.button]

QueueState(e, f) ==
    IF e.pending # <<>> /\ Last(e.pending) = f THEN e
    ELSE IF Len(e.pending) >= FrameBatch THEN [e EXCEPT !.ok = FALSE]
    ELSE [e EXCEPT !.pending = Append(@, f)]

\* A release among two remembers the click it may be part of; the release of
\* the primary contact ends what is reported
ReleaseContact(e, s) ==
    LET c == IF Cardinality(e.active) < 2 THEN e
             ELSE [e EXCEPT !.candidate = IF Many(e.stable) THEN e.stable
                                          ELSE BuildCurrentContacts(e),
                            !.candidateRecent = TRUE]
        r == [c EXCEPT !.active = @ \ {s}]
        p == [r EXCEPT !.primary = NoSlot]
    IN  IF s \notin e.active THEN e
        ELSE IF s # e.primary THEN r
        ELSE IF Snapshotting(e) THEN p
        ELSE QueueState(p, Neutral(e.button))

ActivateContact(e, s) ==
    LET fresh == s \notin e.active /\ e.active = {}
    IN  [e EXCEPT !.active = @ \cup {s},
                  !.candidate = IF fresh THEN NoFrame ELSE @,
                  !.stable = IF fresh THEN NoFrame ELSE @]

ExpireClickCandidate(e) ==
    IF e.candidateRecent THEN e ELSE [e EXCEPT !.candidate = NoFrame]

StartButtonSnapshot(e) ==
    LET current == BuildCurrentContacts(e)
        source == IF Many(e.candidate) THEN e.candidate
                  ELSE IF Many(e.stable) /\ e.stableRecent THEN e.stable
                  ELSE IF Many(current) THEN current ELSE NoFrame
    IN  [e EXCEPT !.candidate = NoFrame, !.snapshot = source]

ButtonPressed(e) ==
    LET p == [StartButtonSnapshot(e) EXCEPT !.button = TRUE]
    IN  IF e.button THEN e ELSE QueueState(p, BuildOutputState(p))

ButtonReleased(e) ==
    LET r == [e EXCEPT !.button = FALSE, !.candidate = NoFrame]
        s == [r EXCEPT !.snapshot = NoFrame, !.primary = NoSlot, !.stable = NoFrame]
    IN  IF ~e.button THEN e
        ELSE IF e.snapshot # NoFrame THEN QueueState(s, NoFrame)
        ELSE QueueState(r, BuildOutputState(r))

\* After an error the rest of the batch is read and dropped
ProcessMessage(e, m) ==
    LET x == ExpireClickCandidate(e)
    IN  IF ~e.ok THEN e
        ELSE CASE m.kind = "detect"  -> ActivateContact(x, m.slot)
               [] m.kind = "release" -> ReleaseContact(x, m.slot)
               [] m.kind = "restart" ->
                    LET r == ReleaseContact(x, m.slot)
                    IN  IF r.ok THEN ActivateContact(r, m.slot) ELSE r
               [] m.kind = "press"   -> ButtonPressed(x)
               [] OTHER              -> ButtonReleased(x)

\* The frames are those pending then
Flush(e) ==
    LET final == BuildOutputState(e)
        q == QueueState([e EXCEPT !.primary =
                            IF Snapshotting(e) \/ e.active = {} THEN @
                            ELSE Primary(e)], final)
    IN  IF ~e.ok \/ ~q.ok \/ final.button THEN q
        ELSE [q EXCEPT !.stable = final, !.stableRecent = final # NoFrame,
                       !.candidate = IF Many(final) THEN NoFrame ELSE @]

----------------------------------------------------------------------------
(* The pad.                                                                *)

Reports(kind, slot) ==
    /\ Len(pad.queue) < MessageLimit
    /\ pad' = [pad EXCEPT
                 !.queue = Append(@, [kind |-> kind, slot |-> slot]),
                 !.fingers = CASE kind = "detect" -> @ \cup {slot}
                               [] kind = "release" -> @ \ {slot}
                               [] OTHER -> @,
                 !.button = IF kind \in {"press", "unpress"} THEN kind = "press"
                            ELSE @]

Touched ==
    /\ \/ \E s \in Slot \ pad.fingers : Reports("detect", s)
       \/ \E s \in pad.fingers : Reports("release", s) \/ Reports("restart", s)
       \/ Reports(IF pad.button THEN "unpress" ELSE "press", NoSlot)
    /\ UNCHANGED <<touch, pump, events>>

\* The 150 ms of a click pass
ClickCorrelationEnds ==
    /\ touch.stableRecent \/ touch.candidateRecent
    /\ touch' = [touch EXCEPT !.stableRecent = FALSE, !.candidateRecent = FALSE]
    /\ UNCHANGED <<pad, pump, events>>

----------------------------------------------------------------------------
(* The worker.                                                             *)

\* A wake-up while it drains is lost; the level comes again
MxtInterrupt ==
    /\ pad.queue # <<>> /\ pump.at = "wait"
    /\ pump' = [pump EXCEPT !.at = "drain"]
    /\ UNCHANGED <<pad, touch, events>>

\* The oldest sample makes room
RingWrite(frame) ==
    events' = [events EXCEPT
        !.written = frame,
        !.ring = Append(IF Len(@) >= RingCapacity THEN Tail(@) ELSE @, frame)]

\* Mutant: what was reported goes on
DrainFailsSilently ==
    /\ touch' = EngineReset
    /\ pump' = [pump EXCEPT !.at = "wait", !.stanza = FALSE, !.was = FALSE, !.reset = TRUE]
    /\ UNCHANGED events

\* The engine forgets, and what was reported ends
DrainFails ==
    /\ touch' = EngineReset
    /\ pump' = [pump EXCEPT !.at = "wait", !.stanza = FALSE, !.was = FALSE,
                            !.reset = TRUE]
    /\ IF pump.stanza \/ pump.was THEN RingWrite(NoFrame) ELSE UNCHANGED events

DrainAndAggregate ==
    LET flushed == Flush(FoldLeft(ProcessMessage, touch, pad.queue))
    IN  /\ pump.at = "drain"
        /\ \/ /\ pad.queue = <<>>
              /\ pump' = [pump EXCEPT !.at = "wait"]
              /\ UNCHANGED <<pad, touch, events>>
           \/ /\ pad.queue # <<>> /\ "bus" \in TouchFault
              /\ \E n \in 0..Len(pad.queue) :   \* read before the bus failed
                    pad' = [pad EXCEPT !.queue = SubSeq(@, n + 1, Len(@))]
              /\ DrainFails
           \/ /\ pad.queue # <<>> /\ "count" \in TouchFault
              /\ DrainFails /\ UNCHANGED pad
           \/ /\ pad.queue # <<>>
              /\ pad' = [pad EXCEPT !.queue = <<>>]
              /\ IF flushed.ok
                 THEN /\ touch' = [flushed EXCEPT !.pending = <<>>]
                      /\ pump' = [pump EXCEPT !.at = "write", !.frames = flushed.pending]
                      /\ UNCHANGED events
                 ELSE DrainFails

\* Contacts are always written, of the rest the end of a stanza and a button edge
WriteFrame ==
    LET f == Head(pump.frames)
        rest == Tail(pump.frames)
    IN  /\ pump.at = "write"
        /\ IF f.fingers # {} \/ pump.stanza \/ f.button # pump.was
           THEN RingWrite(f) ELSE UNCHANGED events
        /\ pump' = [pump EXCEPT !.frames = rest, !.was = f.button,
                                !.stanza = f.fingers # {},
                                !.at = IF rest = <<>> THEN "drain" ELSE @]
        /\ UNCHANGED <<pad, touch>>

ReadTouchpad ==
    /\ events.ring # <<>>
    /\ events' = [events EXCEPT !.read = Head(events.ring), !.ring = Tail(@)]
    /\ UNCHANGED <<pad, touch, pump>>

TouchNext == Touched \/ ClickCorrelationEnds \/ MxtInterrupt \/ DrainAndAggregate
               \/ WriteFrame \/ ReadTouchpad

TouchSpec == TouchInit /\ [][TouchNext]_padVars

----------------------------------------------------------------------------
TouchTypeOK ==
    /\ touch.active \subseteq Slot /\ touch.primary \in Slot \cup {NoSlot}
    /\ {events.written, events.read} \subseteq Frame
    /\ Len(events.ring) <= RingCapacity /\ Len(touch.pending) <= FrameBatch

AtRest == pump.at = "wait" /\ pad.queue = <<>>

\* Once the pad is drained and the ring is read, the input server's last event
\* reports no button and no finger that is not there, whatever was dropped,
\* lost on the bus or reset on the way; and when nothing was reset it reports
\* the button and the fingers that are there.
NothingStuck ==
    AtRest /\ events.ring = <<>> =>
        LET e == events.read IN
        /\ e.button => pad.button
        /\ e.fingers # {} => pad.fingers # {} \/ Snapshotting(touch)
        /\ ~pump.reset => /\ e.button = pad.button
                          /\ ~Snapshotting(touch) => e.fingers = pad.fingers

\* The pointer does not jump: two frames written one after the other that show
\* fingers, and neither of which is a click, come from the same contact.
\* The code does not keep it (README, Remarks).
NoJump ==
    [][LET a == events.written  b == events'.written IN
       a.fingers # {} /\ b.fingers # {} /\ ~a.button /\ ~b.button => a.at = b.at]_padVars

=============================================================================

--------------------------- MODULE CrosEcKeyboard ---------------------------
(***************************************************************************)
(* The ChromeOS EC keyboard: the EC queues scan bytes and answers in one     *)
(* output buffer; the interrupt gives them to the command in flight or to    *)
(* the decoder, whose events wait in a ring for KB_READ; open, close and a    *)
(* re-initialization start and stop the device without a lock. Typing and     *)
(* commands end with the first byte of a key that is dropped (a bound).        *)
(***************************************************************************)
EXTENDS Integers, FiniteSets, SequencesExt

CONSTANTS Opener,         \* cookies of the device, one reader and one command each
          Key,            \* key codes; 128 and above are sent with an E0 prefix
          BufferLimit,    \* bound on the bytes that wait in the EC
          TokenLimit,     \* bound on fCommandSem and the bytes to answer
          KeyRingSize,    \* kKeyRingSize - 1
          KeyboardFault   \* what the EC may do

ASSUME KeyboardAssumption ==
    /\ Key \subseteq 1..255
    /\ {BufferLimit, TokenLimit, KeyRingSize} \subseteq Nat \ {0}
    /\ KeyboardFault \subseteq {"resend", "late", "reset", "pause"}

VARIABLES ec,       \* keys held, output buffer, bytes to answer, configuration
          decoder,  \* fExtendedMode ... fNeedReinit
          slot,     \* fCommandMode, fCommandSem, fCommandByte
          keys,     \* the ring, and what its events say so far
          opens,    \* fOpenCount and fHasReader
          user      \* open, read and command of each cookie

keyboardVars == <<ec, decoder, slot, keys, opens, user>>

Ack == 250  Resend == 254  SelfTestPassed == 170  Overrun == 255
PrefixE0 == 224  PrefixE1 == 225  PrefixF0 == 240
\* Mutant: the left shift key is not in the list
CollisionsButShift == {90, 94, 127, 113, 114}
Collisions == {90, 94, 42, 127, 113, 114}   \* 80 more is a protocol byte

ResetDecoder == [extended |-> 0, release |-> FALSE, collision |-> {},
                 decoding |-> FALSE, reinit |-> FALSE]

KeyboardInit ==
    /\ ec = [held |-> {}, buffer |-> <<>>, owed |-> 0, scanning |-> FALSE,
             armed |-> FALSE, wasReset |-> FALSE]
    /\ decoder = ResetDecoder
    /\ slot = [mode |-> FALSE, tokens |-> 0, byte |-> 0]
    /\ keys = [ring |-> <<>>, down |-> {}, lost |-> FALSE]
    /\ opens = [count |-> 0, reader |-> {}]
    /\ user = [c \in Opener |-> [at |-> "closed", read |-> "no", command |-> "no",
                                 tries |-> 0]]

----------------------------------------------------------------------------
(* The EC.                                                                 *)

\* A byte and whether a key sent it, which the driver does not see
ScanByte(byte) == [byte |-> byte, scan |-> TRUE]
Response(byte) == [byte |-> byte, scan |-> FALSE]

ScanCode(key, down) ==
    LET code == (key % 128) + (IF down THEN 0 ELSE 128)
    IN  IF key >= 128 THEN <<ScanByte(PrefixE0), ScanByte(code)>> ELSE <<ScanByte(code)>>

Types(key) ==
    LET down == key \notin ec.held
    IN  /\ ec.scanning /\ ~keys.lost /\ slot.tokens < TokenLimit
        /\ Len(ec.buffer) + Len(ScanCode(key, down)) <= BufferLimit
        /\ ec' = [ec EXCEPT !.buffer = @ \o ScanCode(key, down),
                            !.held = IF down THEN @ \cup {key} ELSE @ \ {key}]
        /\ UNCHANGED <<decoder, slot, keys, opens, user>>

\* Pause sends its release at once
TypesPause ==
    /\ ec.scanning /\ ~keys.lost /\ slot.tokens < TokenLimit /\ "pause" \in KeyboardFault
    /\ ec.buffer = <<>> /\ ec.held = {} /\ ec.owed = 0
    /\ ec' = [ec EXCEPT !.buffer = [i \in 1..6 |->
                 ScanByte(<<PrefixE1, 29, 69, PrefixE1, 157, 197>>[i])]]
    /\ UNCHANGED <<decoder, slot, keys, opens, user>>

AnswersByte ==
    /\ ec.owed > 0 /\ Len(ec.buffer) < BufferLimit
    /\ \E answer \in {Ack} \cup IF "resend" \in KeyboardFault THEN {Resend} ELSE {} :
          ec' = [ec EXCEPT !.owed = @ - 1, !.buffer = Append(@, Response(answer))]
    /\ UNCHANGED <<decoder, slot, keys, opens, user>>

\* The keyboard starts again by itself and says so
SpontaneousReset ==
    /\ "reset" \in KeyboardFault /\ ec.scanning /\ ~ec.wasReset
    /\ ec' = [ec EXCEPT !.buffer = <<Response(SelfTestPassed)>>, !.owed = 0, !.wasReset = TRUE]
    /\ keys' = [keys EXCEPT !.lost = TRUE]
    /\ UNCHANGED <<decoder, slot, opens, user>>

----------------------------------------------------------------------------
(* The decoder and the interrupt.                                          *)

Sleepers == {c \in Opener : user[c].read = "asleep"}

\* One sleeper is woken; none may be there yet
NotifyOne ==
    IF Sleepers = {} THEN UNCHANGED user
    ELSE \E c \in Sleepers : user' = [user EXCEPT ![c].read = "ring"]

EnqueueKey(key, down) ==
    IF Len(keys.ring) < KeyRingSize
    THEN /\ keys' = [keys EXCEPT !.ring = Append(@, [key |-> key, down |-> down])]
         /\ NotifyOne
    ELSE keys' = [keys EXCEPT !.lost = TRUE] /\ UNCHANGED user

Ignored == UNCHANGED <<keys, user>>

\* A known release of a colliding code is a key, any other such byte is not
DecodeByte(byte) ==
    LET code == byte % 128
        isBreak == byte >= 128
        plain == decoder.extended = 0
        collides == plain /\ code \in Collisions
        stray == collides /\ isBreak /\ code \notin decoder.collision
        key == IF decoder.extended = 1 THEN code + 128 ELSE code
        done == [decoder EXCEPT
                   !.extended = 0, !.release = FALSE,
                   !.collision = IF ~collides THEN @
                                 ELSE IF isBreak THEN @ \ {code} ELSE @ \cup {code}]
    IN  IF byte \in {PrefixE0, PrefixE1}
        THEN /\ decoder' = [decoder EXCEPT !.extended = IF byte = PrefixE0 THEN 1 ELSE 2,
                                           !.release = FALSE]
             /\ Ignored
        \* the first byte ends the sequence, matched or not
        ELSE IF decoder.extended = 2
        THEN decoder' = [decoder EXCEPT !.extended = 0, !.release = FALSE] /\ Ignored
        ELSE CASE stray -> UNCHANGED decoder /\ Ignored
          [] byte = SelfTestPassed /\ ~collides ->
                /\ decoder' = [done EXCEPT !.decoding = FALSE, !.reinit = TRUE]
                /\ NotifyOne /\ UNCHANGED keys
          [] byte \in {Ack, Resend} /\ ~collides -> UNCHANGED decoder /\ Ignored
          [] byte = PrefixF0 -> decoder' = [decoder EXCEPT !.release = TRUE] /\ Ignored
          [] byte = Overrun /\ ~collides -> decoder' = done /\ Ignored
          [] OTHER -> /\ decoder' = done
                      /\ EnqueueKey(key, ~(isBreak \/ decoder.release))

\* One byte of the drain
KeyboardInterrupt ==
    LET byte == Head(ec.buffer).byte
        dropped == [keys EXCEPT !.lost = @ \/ Head(ec.buffer).scan]
    IN  /\ ec.armed /\ ec.buffer # <<>>
        /\ ec' = [ec EXCEPT !.buffer = Tail(@)]
        /\ IF slot.mode
           THEN /\ slot' = [slot EXCEPT !.byte = byte, !.tokens = @ + 1]
                /\ keys' = dropped /\ UNCHANGED <<decoder, user>>
           ELSE /\ UNCHANGED slot
                /\ IF decoder.decoding THEN DecodeByte(byte)
                   ELSE keys' = dropped /\ UNCHANGED <<decoder, user>>
        /\ UNCHANGED opens

----------------------------------------------------------------------------
(* Open and close.                                                         *)

Goes(c, at) == user' = [user EXCEPT ![c].at = at]
Reading(c, read) == user' = [user EXCEPT ![c].read = read]

Drained ==
    keys' = [keys EXCEPT !.lost = @ \/ \E i \in DOMAIN ec.buffer : ec.buffer[i].scan]

Opens(c) ==
    /\ user[c].at = "closed" /\ user[c].read = "no" /\ user[c].command = "no"
    /\ opens' = [opens EXCEPT !.count = @ + 1]
    /\ Goes(c, IF opens.count = 0 /\ ~decoder.decoding THEN "bring" ELSE "open")
    /\ UNCHANGED <<ec, decoder, slot, keys>>

\* Polled: drain, reset, set up, and scanning last
BringUpDevice(c) ==
    /\ user[c].at = "bring"
    /\ ec' = [ec EXCEPT !.buffer = <<>>, !.owed = 0, !.scanning = TRUE, !.wasReset = FALSE]
    /\ Drained /\ Goes(c, "arm")
    /\ UNCHANGED <<decoder, slot, opens>>

ArmDevice(c) ==
    /\ user[c].at = "arm"
    /\ ec' = [ec EXCEPT !.armed = TRUE]
    /\ decoder' = [decoder EXCEPT !.decoding = TRUE]
    /\ Goes(c, "open")
    /\ UNCHANGED <<slot, keys, opens>>

Closes(c) ==
    /\ user[c].at = "open"
    /\ opens' = [count |-> opens.count - 1, reader |-> opens.reader \ {c}]
    /\ Goes(c, IF opens.count = 1 THEN "stop" ELSE "closed")
    /\ UNCHANGED <<ec, decoder, slot, keys>>

StopDecoding(c) ==
    /\ user[c].at = "stop"
    /\ decoder' = [decoder EXCEPT !.decoding = FALSE]
    /\ Goes(c, "down")
    /\ UNCHANGED <<ec, slot, keys, opens>>

TearDownDevice(c) ==
    /\ user[c].at = "down"
    /\ ec' = [ec EXCEPT !.armed = FALSE, !.scanning = FALSE, !.buffer = <<>>, !.owed = 0]
    /\ decoder' = [decoder EXCEPT !.extended = 0, !.release = FALSE]
    /\ Drained /\ Goes(c, "closed")
    /\ UNCHANGED <<slot, opens>>

----------------------------------------------------------------------------
(* KB_READ.                                                                *)

ReadKey(c) ==
    /\ user[c].at = "open" /\ user[c].read = "no" /\ opens.reader \in {{}, {c}}
    /\ opens' = [opens EXCEPT !.reader = {c}]
    /\ Reading(c, "top")
    /\ UNCHANGED <<ec, decoder, slot, keys>>

\* A reset is looked for here only
ReadLooks(c) ==
    /\ user[c].read = "top"
    /\ Reading(c, IF decoder.reinit /\ ~decoder.decoding THEN "reinit" ELSE "ring")
    /\ UNCHANGED <<ec, decoder, slot, keys, opens>>

ReadTakes(c) ==
    /\ user[c].read = "ring" /\ keys.ring # <<>>
    /\ LET e == Head(keys.ring) IN
       keys' = [keys EXCEPT !.ring = Tail(@),
                            !.down = IF e.down THEN @ \cup {e.key} ELSE @ \ {e.key}]
    /\ Reading(c, "no")
    /\ UNCHANGED <<ec, decoder, slot, opens>>

\* The interrupt may come between the look and the wait
ReadFindsNone(c) ==
    /\ user[c].read = "ring" /\ keys.ring = <<>>
    /\ Reading(c, "doze")
    /\ UNCHANGED <<ec, decoder, slot, keys, opens>>

ReadSleeps(c) ==
    /\ user[c].read = "doze"
    /\ Reading(c, "asleep")
    /\ UNCHANGED <<ec, decoder, slot, keys, opens>>

\* Quiet, drained and reset
ReinitDevice(c) ==
    /\ user[c].read = "reinit"
    /\ ec' = [ec EXCEPT !.armed = FALSE, !.buffer = <<>>, !.owed = 0,
                        !.scanning = TRUE, !.wasReset = FALSE]
    /\ decoder' = [ResetDecoder EXCEPT !.reinit = TRUE]
    /\ Drained /\ Reading(c, "rearm")
    /\ UNCHANGED <<slot, opens>>

RearmDevice(c) ==
    /\ user[c].read = "rearm"
    /\ ec' = [ec EXCEPT !.armed = TRUE]
    /\ decoder' = [decoder EXCEPT !.decoding = TRUE, !.reinit = FALSE]
    /\ Reading(c, "ring")
    /\ UNCHANGED <<slot, keys, opens>>

----------------------------------------------------------------------------
(* KB_SET_LEDS and the like: two bytes, each acknowledged.                  *)

SetLeds(c) ==
    /\ user[c].at = "open" /\ user[c].command = "no" /\ ~keys.lost
    /\ user' = [user EXCEPT ![c].command = "first", ![c].tries = 0]
    /\ UNCHANGED <<ec, decoder, slot, keys, opens>>

WritesByte(c) ==
    /\ user[c].command \in {"first", "second"} /\ slot.tokens + ec.owed < TokenLimit
    /\ slot' = [slot EXCEPT !.mode = TRUE]
    /\ ec' = [ec EXCEPT !.owed = @ + 1]
    /\ user' = [user EXCEPT ![c].tries = @ + 1,
                   ![c].command = IF @ = "first" THEN "ack1" ELSE "ack2"]
    /\ UNCHANGED <<decoder, keys, opens>>

Waiting(c) == user[c].command \in {"ack1", "ack2"}

EndsByte(c, consumed) ==
    /\ slot' = [slot EXCEPT !.mode = FALSE, !.tokens = @ - consumed]
    /\ user' = [user EXCEPT ![c].tries = 0,
                            ![c].command = IF @ = "ack1" THEN "second" ELSE "no"]

\* Whatever came last is the answer
TakesAnswer(c) ==
    /\ Waiting(c) /\ slot.tokens > 0
    /\ IF slot.byte = Resend /\ user[c].tries < 2
       THEN /\ slot' = [slot EXCEPT !.tokens = @ - 1]
            /\ user' = [user EXCEPT ![c].command = IF @ = "ack1" THEN "first" ELSE "second"]
       ELSE EndsByte(c, 1)
    /\ UNCHANGED <<ec, decoder, keys, opens>>

\* Nothing came in time
AnswerTimesOut(c) ==
    /\ Waiting(c) /\ slot.tokens = 0
    /\ "late" \in KeyboardFault \/ (ec.owed = 0 /\ ec.buffer = <<>>)
    /\ EndsByte(c, 0)
    /\ UNCHANGED <<ec, decoder, keys, opens>>

----------------------------------------------------------------------------
KeyboardNext ==
    \/ \E k \in Key : Types(k)
    \/ TypesPause \/ AnswersByte \/ SpontaneousReset \/ KeyboardInterrupt
    \/ \E c \in Opener :
          \/ Opens(c) \/ BringUpDevice(c) \/ ArmDevice(c)
          \/ Closes(c) \/ StopDecoding(c) \/ TearDownDevice(c)
          \/ ReadKey(c) \/ ReadLooks(c) \/ ReadTakes(c) \/ ReadFindsNone(c)
          \/ ReadSleeps(c) \/ ReinitDevice(c) \/ RearmDevice(c)
          \/ SetLeds(c) \/ WritesByte(c) \/ TakesAnswer(c) \/ AnswerTimesOut(c)

\* The interrupt is taken and threads run
KeyboardFairness ==
    /\ WF_keyboardVars(KeyboardInterrupt) /\ WF_keyboardVars(AnswersByte)
    /\ \A c \in Opener :
          /\ WF_keyboardVars(ReadLooks(c) \/ ReadTakes(c) \/ ReadFindsNone(c)
                               \/ ReadSleeps(c) \/ ReinitDevice(c) \/ RearmDevice(c))
          /\ WF_keyboardVars(BringUpDevice(c) \/ ArmDevice(c)
                               \/ StopDecoding(c) \/ TearDownDevice(c))

KeyboardSpec == KeyboardInit /\ [][KeyboardNext]_keyboardVars /\ KeyboardFairness

----------------------------------------------------------------------------
\* The keys that the events of a ring leave down: the last one of a key decides
KeysAfter(ring, down) ==
    LET Of(k) == {i \in DOMAIN ring : ring[i].key = k}
    IN  {k \in 0..255 : \/ Of(k) = {} /\ k \in down
                       \/ \E i \in Of(k) : ring[i].down /\ \A j \in Of(k) : j <= i}
Reported == KeysAfter(keys.ring, keys.down)

\* As long as no byte of a key was dropped (taken for the answer of a command,
\* drained, or refused by a full ring), what was reported once the buffer is
\* empty is what is held: no prefix, collision, answer or resend is mistaken
\* for a key, and no key for one of them.
KeysAgree ==
    ~keys.lost /\ ec.buffer = <<>> => Reported = ec.held

\* The header names the keys whose release is a byte of the protocol, so that it
\* is told from one: no such key stays reported after its release. The code
\* does not keep it, as two of its codes are not those keys (README, Remarks).
ReleaseIsNoAnswer ==
    ~keys.lost /\ ec.buffer = <<>> =>
        \A key \in Reported : key + 128 \in {Ack, Resend, SelfTestPassed, Overrun} =>
            key \in ec.held

\* A keyboard that started again while a reader of an open device is inside
\* KB_READ is set up again, unless the reader gets a key or the device closes.
\* The code does not keep it (README, Remarks).
ResetRecovered ==
    \A c \in Opener :
        LET inside == user[c].at = "open" /\ user[c].read # "no"
        IN  ec.wasReset /\ inside ~> ~ec.wasReset \/ ~inside
=============================================================================

----------------------------- MODULE AudioCodec -----------------------------
(***************************************************************************)
(* The MAX98090 behind the audio device: its registers, the mixer's copy of  *)
(* what they should say, and the jack whose two GPIO lines switch it between  *)
(* the speakers and the headphones, the internal and the headset microphone.  *)
(* Attaching the LPE, attaching the codec and opening the device bring it up;  *)
(* a switch of the jack is applied by the worker of the GPIO controller.      *)
(* fCodecLock is held through a sequence of writes: one action writes all of  *)
(* it, or what comes before the write that fails.                            *)
(***************************************************************************)
EXTENDS Integers, Sequences, FiniteSetsExt

CONSTANTS Volume,         \* gains of the mixer
          Mixer,          \* calls of _SetMix
          RefusedAfter,   \* how many writes go through before the one that is refused
          FaultLimit,     \* bound on what goes wrong
          MoveLimit,      \* bound on the switches of the jack
          HookLimit,      \* bound on the attachments and detachments
          SpeakerTuning,  \* the profile has an equalizer for its speakers
          CodecFault      \* what goes wrong

ASSUME CodecAssumption ==
    /\ Volume # {} /\ RefusedAfter \cup {FaultLimit, MoveLimit, HookLimit} \subseteq Nat
    /\ SpeakerTuning \in BOOLEAN /\ CodecFault \subseteq {"i2c", "gpio", "firmware"}

VARIABLES codec,  \* the registers
          sound,  \* fVolume ... fMicrophonePresent; dirty: history, what a failed
                  \* call, or a reset while the speakers are muted, left to differ
          jack,   \* its lines, their watches, fJackLock and the GPIO worker;
                  \* missed: history, switches that the code overwrites
          card,   \* fLpePresent, fLpeStatus, fPmcRegisters, fCodecPresent, fI2c, fCodecStatus
          call,   \* the threads that attach, detach and open
          mix     \* the calls of _SetMix

codecVars == <<codec, sound, jack, card, call, mix>>

Line == {"headphone", "microphone"}
Caller == {"lpe", "codec", "user"}
Level(gain, muted) == [gain |-> gain, muted |-> muted]
Setting == {Level(gain, muted) : gain \in Volume, muted \in BOOLEAN}
Quiet == Level(0, TRUE)
Unplugged == [l \in Line |-> FALSE]
Idle == [at |-> "idle", read |-> Unplugged, told |-> {}]
NoMix == [at |-> "idle", speaker |-> Quiet, headphone |-> Quiet, wants |-> {}]

ResetRegisters ==
    [spkL |-> Quiet, spkR |-> Quiet, hpL |-> Quiet, hpR |-> Quiet, output |-> "none",
     eqLevel |-> FALSE, eq |-> FALSE, drc |-> FALSE,
     input |-> FALSE, dmic |-> FALSE, pga |-> FALSE, power |-> FALSE]

CodecInit ==
    /\ codec = ResetRegisters
    /\ \E gain \in Volume :
          sound = [speaker |-> Level(gain, FALSE), headphone |-> Level(gain, FALSE),
                   present |-> Unplugged, faults |-> 0,
                   dirty |-> {"speaker", "headphone", "route"}]
    /\ \E plugged \in [Line -> BOOLEAN] :
          jack = [plugged |-> plugged, last |-> Unplugged, watched |-> {}, lock |-> "none",
                  at |-> "wait", line |-> "none", level |-> FALSE, other |-> FALSE,
                  missed |-> {}, moves |-> 0]
    /\ card = [hooks |-> 0, lpe |-> FALSE, lpeReady |-> FALSE, pmc |-> FALSE,
               present |-> FALSE, i2c |-> FALSE, ready |-> FALSE]
    /\ call = [c \in Caller |-> Idle]
    /\ mix = [x \in Mixer |-> NoMix]

----------------------------------------------------------------------------
(* Sequences of register writes.                                           *)

Both(left, right, level) == <<<<left, level>>, <<right, level>>>>
SpeakerWrites(level) == Both("spkL", "spkR", level)
HeadphoneWrites(level) == Both("hpL", "hpR", level)

TuningWrites(on) ==
    IF ~SpeakerTuning THEN <<>>
    ELSE IF on THEN <<<<"eqLevel", TRUE>>, <<"eq", TRUE>>, <<"drc", TRUE>>>>
    ELSE <<<<"drc", FALSE>>, <<"eq", FALSE>>, <<"eqLevel", FALSE>>>>

CaptureWrites(headset) ==
    <<<<"input", FALSE>>, <<"dmic", FALSE>>, <<"pga", headset>>, <<"dmic", ~headset>>,
      <<"input", headset>>, <<"power", FALSE>>, <<"power", TRUE>>>>

\* The registers after the first n writes
Written(registers, writes, n) ==
    LET Of(r) == {i \in 1 .. n : writes[i][1] = r}
    IN  [r \in DOMAIN registers |->
            IF Of(r) = {} THEN registers[r] ELSE writes[Max(Of(r))][2]]

MayFail(kind) == kind \in CodecFault /\ sound.faults < FaultLimit
Failing == sound' = [sound EXCEPT !.faults = @ + 1]

\* How a sequence of writes may end; the last may be refused by its readback
Writing(registers, writes) ==
    LET After(n, ok) == [ok |-> ok, codec |-> Written(registers, writes, n)]
    IN  IF ~card.i2c THEN {After(0, FALSE)}
        ELSE {After(Len(writes), TRUE)} \cup
             {After(n, FALSE) : n \in IF MayFail("i2c") THEN RefusedAfter \cap 0 .. Len(writes)
                                      ELSE {}}

\* fCodecLock is taken for the writes; they end in the copy and what it differs in
Wrote(e, copy, differs) ==
    /\ codec' = e.codec
    /\ sound' = IF e.ok THEN copy ELSE [sound EXCEPT !.dirty = @ \cup differs,
                                                    !.faults = @ + IF card.i2c THEN 1 ELSE 0]

SpeakerLevel(level, present) == Level(level.gain, level.muted \/ present["headphone"])
HeadphoneLevel(level, present) == Level(level.gain, level.muted \/ ~present["headphone"])

\* _ApplyJackState, beyond its early returns: what is to be heard comes last
JackWrites(present) ==
    LET speaker == SpeakerWrites(SpeakerLevel(sound.speaker, present))
        headphone == HeadphoneWrites(HeadphoneLevel(sound.headphone, present))
    IN  (IF present["headphone"]
         THEN speaker \o TuningWrites(FALSE) \o <<<<"output", "headphone">>>> \o headphone
         ELSE headphone \o <<<<"output", "speaker">>>> \o TuningWrites(TRUE) \o speaker)
        \o CaptureWrites(present["microphone"])

JackOutcomes(present) ==
    IF card.i2c /\ sound.present = present THEN {[ok |-> TRUE, codec |-> codec]}
    ELSE Writing(codec, JackWrites(present))

ApplyJackState(e, present) ==
    Wrote(e, IF sound.present = present THEN sound
             ELSE [sound EXCEPT !.present = present, !.dirty = {}],
          IF card.i2c THEN {"speaker", "headphone", "route"} ELSE {})

----------------------------------------------------------------------------
(* Bringing it up.                                                         *)

Reaches(c, at) == call' = [call EXCEPT ![c].at = at]

\* The device manager calls the hooks of the driver one at a time
ManagerFree == card.hooks < HookLimit /\ call["lpe"].at = "idle" /\ call["codec"].at = "idle"

\* The clock's registers stay mapped when the LPE is detached
LpeAppears ==
    /\ ManagerFree /\ ~card.lpe
    /\ \/ /\ card' = [card EXCEPT !.hooks = @ + 1, !.lpe = TRUE, !.pmc = TRUE]
          /\ UNCHANGED sound
       \/ /\ MayFail("firmware") /\ Failing
          /\ card' = [card EXCEPT !.hooks = @ + 1, !.lpe = TRUE]
    /\ Reaches("lpe", "firmware")
    /\ UNCHANGED <<codec, jack, mix>>

LpeInitialized ==
    /\ call["lpe"].at = "firmware"
    /\ \/ card' = [card EXCEPT !.lpeReady = card.pmc] /\ UNCHANGED sound
       \/ card.pmc /\ MayFail("firmware") /\ Failing /\ UNCHANGED card
    /\ Reaches("lpe", IF card.present /\ card.pmc THEN "init" ELSE "idle")
    /\ UNCHANGED <<codec, jack, mix>>

LpeDisappears ==
    /\ ManagerFree /\ card.lpe
    /\ card' = [card EXCEPT !.hooks = @ + 1, !.lpe = FALSE, !.lpeReady = FALSE]
    /\ UNCHANGED <<codec, sound, jack, call, mix>>

AttachCodec ==
    /\ ManagerFree /\ ~card.present
    /\ card' = [card EXCEPT !.hooks = @ + 1, !.present = TRUE, !.i2c = TRUE]
    /\ Reaches("codec", IF card.pmc THEN "init" ELSE "idle")
    /\ UNCHANGED <<codec, sound, jack, mix>>

OpenCodec ==
    /\ call["user"].at = "idle"
    /\ card.lpe /\ card.present /\ card.lpeReady /\ card.ready
    /\ Reaches("user", "jack")
    /\ UNCHANGED <<codec, sound, jack, card, mix>>

\* The speakers are on, whatever fMuted says, and the jack is taken to be empty
InitialWrites ==
    HeadphoneWrites(Level(sound.headphone.gain, TRUE))
    \o SpeakerWrites(Level(sound.speaker.gain, FALSE)) \o TuningWrites(TRUE)
    \o <<<<"output", "speaker">>, <<"power", TRUE>>>> \o CaptureWrites(FALSE)

InitializeCodec(c) ==
    /\ call[c].at = "init"
    /\ \E e \in Writing(ResetRegisters, InitialWrites) \cup
                IF MayFail("i2c")
                THEN {[ok |-> FALSE, codec |-> codec]} ELSE {} :
          /\ Wrote(IF card.i2c THEN e ELSE [e EXCEPT !.codec = codec],
                   [sound EXCEPT !.present = Unplugged,
                                 !.dirty = IF sound.speaker.muted THEN {"speaker"} ELSE {}],
                   {"speaker", "headphone", "route"})
          /\ jack' = IF e.ok THEN [jack EXCEPT !.missed = @ \cup {l \in jack.watched : jack.last[l]}]
                     ELSE jack
          /\ Reaches(c, IF e.ok THEN "jack" ELSE "failed")
    /\ UNCHANGED <<card, mix>>

----------------------------------------------------------------------------
(* _InitializeJackDetection, _TeardownJackDetection.                       *)

JackFree(c, at) == call[c].at = at /\ jack.lock = "none"

JackSkipped(c) ==
    /\ JackFree(c, "jack")
    /\ IF "headphone" \in jack.watched \/ ~card.present THEN UNCHANGED sound
       ELSE MayFail("gpio") /\ Failing
    /\ Reaches(c, "done")
    /\ UNCHANGED <<codec, jack, card, mix>>

Watched(l) == [jack EXCEPT !.watched = @ \cup {l}, !.last[l] = jack.plugged[l]]

HeadphoneWatched(c) ==
    /\ JackFree(c, "jack") /\ "headphone" \notin jack.watched /\ card.present
    /\ jack' = [Watched("headphone") EXCEPT !.lock = c]
    /\ call' = [call EXCEPT ![c] = [at |-> "microphone", told |-> {},
                  read |-> [Unplugged EXCEPT !["headphone"] = jack.plugged["headphone"]]]]
    /\ UNCHANGED <<codec, sound, card, mix>>

MicrophoneWatched(c) ==
    /\ call[c].at = "microphone"
    /\ \/ /\ jack' = [Watched("microphone") EXCEPT !.lock = "none"]
          /\ call' = [call EXCEPT ![c].at = "apply",
                                  ![c].read["microphone"] = jack.plugged["microphone"]]
          /\ UNCHANGED sound
       \/ /\ MayFail("gpio") /\ Failing
          /\ jack' = [jack EXCEPT !.lock = "none"]
          /\ Reaches(c, "apply")
    /\ UNCHANGED <<codec, card, mix>>

\* Whoever has read the lines and not applied them yet is out of date
Told(lines) == [c \in Caller |-> IF call[c].at \in {"microphone", "apply"}
                                 THEN [call[c] EXCEPT !.told = @ \cup lines] ELSE call[c]]

JackApplied(c) ==
    /\ call[c].at = "apply"
    /\ \E e \in JackOutcomes(call[c].read) :
          /\ ApplyJackState(e, call[c].read)
          /\ jack' = IF e.ok THEN [jack EXCEPT !.missed = call[c].told \cap jack.watched] ELSE jack
          /\ call' = [Told(Line) EXCEPT
                      ![c] = [Idle EXCEPT !.at = IF e.ok THEN "done" ELSE "teardown"]]
    /\ UNCHANGED <<card, mix>>

Unwatch(l) == [jack EXCEPT !.watched = @ \ {l}, !.last[l] = FALSE, !.missed = @ \ {l}]
NotHandling(l) == jack.at = "wait" \/ jack.line # l

\* The Reset of each pin waits for its handler, under fJackLock
TeardownBegins(c) ==
    /\ JackFree(c, "teardown")
    /\ jack' = [Unwatch("headphone") EXCEPT !.lock = c]
    /\ Reaches(c, "headphone drains")
    /\ UNCHANGED <<codec, sound, card, mix>>

HeadphoneReset(c) ==
    /\ call[c].at = "headphone drains" /\ NotHandling("headphone")
    /\ jack' = Unwatch("microphone")
    /\ Reaches(c, "microphone drains")
    /\ UNCHANGED <<codec, sound, card, mix>>

MicrophoneReset(c) ==
    /\ call[c].at = "microphone drains" /\ NotHandling("microphone")
    /\ jack' = [jack EXCEPT !.lock = "none"]
    /\ Reaches(c, IF c = "codec" /\ ~card.present THEN "unbind" ELSE "done")
    /\ UNCHANGED <<codec, sound, card, mix>>

\* The status of _InitializeCodec is kept; that of the jack is not
CodecStatusSet(c) ==
    /\ call[c].at \in {"done", "failed"}
    /\ card' = IF c = "user" THEN card ELSE [card EXCEPT !.ready = (call[c].at = "done")]
    /\ Reaches(c, "idle")
    /\ UNCHANGED <<codec, sound, jack, mix>>

DetachCodec ==
    /\ ManagerFree /\ card.present
    /\ card' = [card EXCEPT !.hooks = @ + 1, !.present = FALSE, !.ready = FALSE]
    /\ Reaches("codec", "teardown")
    /\ UNCHANGED <<codec, sound, jack, mix>>

CodecUnbound ==
    /\ call["codec"].at = "unbind"
    /\ card' = [card EXCEPT !.i2c = FALSE]
    /\ Reaches("codec", "idle")
    /\ UNCHANGED <<codec, sound, jack, mix>>

----------------------------------------------------------------------------
(* The jack, and the worker of the GPIO controller.                        *)

JackMoves(l) ==
    /\ jack.moves < MoveLimit
    /\ jack' = [jack EXCEPT !.plugged[l] = ~@, !.moves = @ + 1]
    /\ UNCHANGED <<codec, sound, card, call, mix>>

Other(l) == IF l = "headphone" THEN "microphone" ELSE "headphone"

\* The stable level, when it is not the one dispatched last
JackEvent(l) ==
    /\ jack.at = "wait" /\ l \in jack.watched /\ jack.plugged[l] # jack.last[l]
    /\ jack' = [jack EXCEPT !.at = "event", !.line = l, !.level = jack.plugged[l],
                            !.last[l] = jack.plugged[l]]
    /\ UNCHANGED <<codec, sound, card, call, mix>>

\* _HeadphoneEvent, _MicrophoneEvent: the other line is as it was applied last
EventSnapshot ==
    /\ jack.at = "event"
    /\ jack' = [jack EXCEPT !.at = "apply", !.other = sound.present[Other(jack.line)]]
    /\ UNCHANGED <<codec, sound, card, call, mix>>

EventApplied ==
    LET l == jack.line
        present == [i \in Line |-> IF i = l THEN jack.level ELSE jack.other]
        overwritten == {i \in {Other(l)} : sound.present[i] # jack.other}
    IN  /\ jack.at = "apply"
        /\ \E e \in JackOutcomes(present) :
              /\ ApplyJackState(e, present)
              /\ jack' = [jack EXCEPT !.at = "wait", !.line = "none", !.level = FALSE,
                            !.other = FALSE,
                            !.missed = IF e.ok THEN (@ \ {l}) \cup overwritten ELSE @ \cup {l}]
        /\ call' = Told({l} \cup overwritten)
        /\ UNCHANGED <<card, mix>>

----------------------------------------------------------------------------
(* _SetMix.                                                                *)

SetMix(x) ==
    /\ mix[x].at = "idle"
    /\ \E wants \in SUBSET {"speaker", "headphone"} \ {{}} :
       \E speaker \in IF "speaker" \in wants THEN Setting ELSE {Quiet},
          headphone \in IF "headphone" \in wants THEN Setting ELSE {Quiet} :
          mix' = [mix EXCEPT ![x] =
                    [at |-> IF "speaker" \in wants THEN "speaker" ELSE "headphone",
                     speaker |-> speaker, headphone |-> headphone, wants |-> wants]]
    /\ UNCHANGED <<codec, sound, jack, card, call>>

Mixed(x, ok) ==
    mix' = [mix EXCEPT ![x] = IF ok /\ @.at = "speaker" /\ "headphone" \in @.wants
                              THEN [@ EXCEPT !.at = "headphone", !.speaker = Quiet]
                              ELSE [NoMix EXCEPT !.at = "done"]]

SetSpeaker(x, level) ==
    \E e \in Writing(codec, SpeakerWrites(level)) :
       /\ Wrote(e, [sound EXCEPT !.speaker = mix[x].speaker, !.dirty = @ \ {"speaker"}],
                IF card.i2c THEN {"speaker"} ELSE {})
       /\ Mixed(x, e.ok)

\* Mutant: the speakers come on behind the headphones
SetCodecVolumeAnyway(x) ==
    /\ mix[x].at = "speaker"
    /\ SetSpeaker(x, mix[x].speaker)
    /\ UNCHANGED <<jack, card, call>>

SetCodecVolume(x) ==
    /\ mix[x].at = "speaker"
    /\ SetSpeaker(x, SpeakerLevel(mix[x].speaker, sound.present))
    /\ UNCHANGED <<jack, card, call>>

SetHeadphoneVolume(x) ==
    /\ mix[x].at = "headphone"
    /\ \E e \in Writing(codec, HeadphoneWrites(HeadphoneLevel(mix[x].headphone, sound.present))) :
          /\ Wrote(e, [sound EXCEPT !.headphone = mix[x].headphone,
                                    !.dirty = @ \ {"headphone"}],
                   IF card.i2c THEN {"headphone"} ELSE {})
          /\ Mixed(x, e.ok)
    /\ UNCHANGED <<jack, card, call>>

----------------------------------------------------------------------------
CodecNext ==
    \/ LpeAppears \/ LpeInitialized \/ LpeDisappears
    \/ AttachCodec \/ DetachCodec \/ CodecUnbound \/ OpenCodec
    \/ \E c \in {"lpe", "codec"} : InitializeCodec(c)
    \/ \E c \in Caller :
          \/ JackSkipped(c) \/ HeadphoneWatched(c) \/ MicrophoneWatched(c) \/ JackApplied(c)
          \/ TeardownBegins(c) \/ HeadphoneReset(c) \/ MicrophoneReset(c) \/ CodecStatusSet(c)
    \/ \E l \in Line : JackMoves(l) \/ JackEvent(l)
    \/ EventSnapshot \/ EventApplied
    \/ \E x \in Mixer : SetMix(x) \/ SetCodecVolume(x) \/ SetHeadphoneVolume(x)

CodecSpec == CodecInit /\ [][CodecNext]_codecVars

----------------------------------------------------------------------------
\* The registers say what the mixer and the jack's state say, but for what a
\* failed call left: the speakers are silent behind the headphones
RegistersAgree ==
    LET headphone == sound.present["headphone"]  headset == sound.present["microphone"]
    IN  /\ "speaker" \notin sound.dirty =>
             \A r \in {"spkL", "spkR"} : codec[r] = SpeakerLevel(sound.speaker, sound.present)
        /\ "headphone" \notin sound.dirty =>
             \A r \in {"hpL", "hpR"} : codec[r] = HeadphoneLevel(sound.headphone, sound.present)
        /\ "route" \notin sound.dirty =>
             /\ codec.output = IF headphone THEN "headphone" ELSE "speaker"
             /\ codec.power /\ codec.dmic = ~headset
             /\ codec.input = headset /\ codec.pga = headset
             /\ \A r \in {"eqLevel", "eq", "drc"} : codec[r] = (SpeakerTuning /\ ~headphone)

\* The speakers' equalizer never colours the headphones, also after a failure
TuningIsForSpeakers == codec.output = "headphone" => ~codec.eq /\ ~codec.drc

JackAtRest ==
    /\ jack.at = "wait" /\ \A l \in jack.watched : jack.last[l] = jack.plugged[l]
    /\ \A c \in Caller : call[c].at \in {"idle", "init", "jack"}

\* When nothing is under way the jack's state is that of its lines, but for a
\* switch that the start of detection, or a new start of the codec, overwrites
JackFollowed ==
    JackAtRest => \A l \in jack.watched \ jack.missed : sound.present[l] = jack.plugged[l]

\* A codec that is gone has no watched lines and no handler that runs
DetachedIsQuiet == ~card.i2c => jack.watched = {} /\ jack.at = "wait"

\* The registers, the mixer and the jack agree through every order of attaching,
\* detaching, opening, switches of the jack and calls of the mixer
CodecAgrees == RegistersAgree /\ TuningIsForSpeakers /\ JackFollowed /\ DetachedIsQuiet
=============================================================================

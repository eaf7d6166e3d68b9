------------------------------ MODULE CardModes ------------------------------
(***************************************************************************)
(* Identification of SD cards and eMMC: the steps by which SdCard, MmcCard  *)
(* and SdhciEngine bring a card and the host controller to the same bus     *)
(* width, timing, clock and signal voltage, and what they fall back to when *)
(* a step fails.  The engine executes one command at a time and one thread  *)
(* identifies, so an identification is an operator from a bus record to the *)
(* set of records it may leave; ok is its status, next what the thread that *)
(* identifies does next.                                                    *)
(***************************************************************************)
EXTENDS Integers, TLC, Outcomes

CONSTANTS
    Deck,          \* the cards that may be met, as records
    NoCard,
    Capabilities,  \* HostCapabilities: its set of flags, and platform
    BaseClockKHz,  \* the base clock of the controller
    CardFault      \* what may go wrong

CardFaultKinds == {
    "refused",   \* a command that changes the card is not executed
    "silent",    \* a command that changes nothing is not answered
    "lost",      \* a command is executed, its response or data do not arrive
    "tuning",    \* tuning finds no sampling point
    "voltage",   \* the board or the data lines do not follow the switch
    "clock",     \* the internal clock does not become stable
    "reset" }    \* a reset of the lines hangs, power is removed instead

ASSUME CardModesAssumption ==
    /\ CardFault \subseteq CardFaultKinds
    /\ BaseClockKHz \in Nat \ {0}
    /\ NoCard \notin Deck

VARIABLE bus

----------------------------------------------------------------------------
(* Bus modes.                                                              *)

BusMode(timing, clock, width, v18) ==
    [timing |-> timing, clock |-> clock, width |-> width, v18 |-> v18]

DescribeEmmc == [
    Hs200     |-> BusMode("MmcHs200", 200000, 8, TRUE),
    Ddr52     |-> BusMode("MmcDdr52", 52000, 8, TRUE),
    Hs52      |-> BusMode("MmcHighSpeed", 52000, 8, TRUE),
    Hs26      |-> BusMode("MmcHighSpeed", 26000, 8, TRUE) ]
DescribeSd == [
    Sdr104    |-> BusMode("SdSdr104", 208000, 4, TRUE),
    Ddr50     |-> BusMode("SdDdr50", 50000, 4, TRUE),
    Sdr50     |-> BusMode("SdSdr50", 100000, 4, TRUE),
    Sdr25     |-> BusMode("SdSdr25", 50000, 4, TRUE),
    Sdr12     |-> BusMode("SdSdr12", 25000, 4, TRUE),
    HighSpeed |-> BusMode("SdHighSpeed", 50000, 4, FALSE),
    Default   |-> BusMode("Legacy", 25000, 4, FALSE) ]

Describe == DescribeEmmc @@ DescribeSd

At(mode, clock) == [Describe[mode] EXCEPT !.clock = clock]
Legacy(clock, width, v18) == BusMode("Legacy", clock, width, v18)

\* The two fields of the host control registers that a timing sets
UhsMode(timing) ==
    CASE timing \in {"MmcHs200", "SdSdr104"} -> "sdr104"
      [] timing \in {"MmcDdr52", "SdDdr50"} -> "ddr50"
      [] timing = "SdSdr50" -> "sdr50"
      [] timing = "SdSdr25" -> "sdr25"
      [] OTHER -> "sdr12"
HighSpeedBit(timing) == timing \notin {"Legacy", "SdSdr12"}

HostCan(flag) == flag \in Capabilities.flags
Platform(mode) == mode \in Capabilities.platform

SupportsEmmc(type, mode) ==
    /\ mode \in type.modes
    /\ CASE mode = "Hs200" -> {"sdr104", "width8", "v18"} \subseteq Capabilities.flags
         [] mode = "Ddr52" -> {"ddr50", "width8", "v18"} \subseteq Capabilities.flags
         [] OTHER -> {"highSpeed", "width8"} \subseteq Capabilities.flags

SupportsSd(type, mode) ==
    /\ mode \in type.modes
    /\ CASE mode = "Sdr104" -> HostCan("sdr104") /\ Platform(mode)
         [] mode = "Ddr50" -> HostCan("ddr50") /\ Platform(mode)
         [] mode = "Sdr50" -> (HostCan("sdr50") \/ HostCan("sdr104")) /\ Platform(mode)
         [] mode = "Sdr25" -> Platform(mode)
         [] mode = "HighSpeed" -> HostCan("highSpeed")
         [] OTHER -> TRUE

RequiresTuning(mode) == mode = "Sdr104" \/ (mode = "Sdr50" /\ HostCan("tuneSdr50"))

HostCanUhs ==
    /\ HostCan("v18") /\ Capabilities.platform # {}
    /\ {"sdr104", "sdr50", "ddr50"} \cap Capabilities.flags # {}

\* The divider is even or 1, at most 2046, and never too small for the target
ComputeClockSetting(target) ==
    LET up == (BaseClockKHz + target - 1) \div target
        even == IF up > 1 /\ up % 2 = 1 THEN up + 1 ELSE up
    IN  BaseClockKHz \div (IF even > 2046 THEN 2046 ELSE even)

----------------------------------------------------------------------------
(* The card and the controller.                                            *)

Powered(type) == [type |-> type, state |-> "idle", v18 |-> FALSE,
                  timing |-> "Legacy", width |-> 1]
Occupied(b) == b.card # NoCard
IsMmc(b) == b.dialect = "mmc"

\* The clock up to which a card keeps the timing that it was switched to
LimitKHz(card) ==
    CASE card.timing = "Legacy" -> IF card.type.dialect = "mmc" THEN 26000 ELSE 25000
      [] card.timing = "MmcHighSpeed" -> IF "Hs52" \in card.type.modes THEN 52000 ELSE 26000
      [] OTHER -> Describe[CHOOSE m \in DOMAIN Describe :
                              Describe[m].timing = card.timing].clock

\* Above the clocks of the timings that need none, sampling wants tuning
NeedsTuning(card) ==
    \/ card.timing \in {"MmcHs200", "SdSdr104"}
    \/ card.timing = "SdSdr50" /\ HostCan("tuneSdr50")

OutOfStep(b) ==
    /\ Occupied(b) /\ b.host.power /\ b.host.clock > 0
    /\ \/ b.host.clock > LimitKHz(b.card)
       \/ b.host.clock > 52000 /\ NeedsTuning(b.card) /\ ~b.host.tuned

\* An eMMC signals at the voltage of its rail whatever the controller assumes
Talks(b) ==
    /\ Occupied(b) /\ b.host.power /\ b.host.clock > 0
    /\ IsMmc(b) \/ b.card.v18 = b.host.v18

HostReset == [power |-> FALSE, clock |-> 0, width |-> 1, uhs |-> "sdr12",
              hs |-> FALSE, v18 |-> FALSE, tuned |-> FALSE]

EnginePowerOff(b) == [b EXCEPT !.host.power = FALSE,
                         !.card = IF @ = NoCard THEN @ ELSE Powered(@.type)]

EmmcHardwareReset(b) ==
    IF IsMmc(b) THEN [b EXCEPT !.card = Powered(@.type)] ELSE b

SetClock(target, b) ==
    {[b EXCEPT !.host.clock = ComputeClockSetting(target)]}
    \cup IF "clock" \in CardFault THEN Refused([b EXCEPT !.host.clock = 0]) ELSE {}

SetBusWidth(width, b) == [b EXCEPT !.host.width = width]

ConfigureBus(mode, b) ==
    SetClock(mode.clock, [SetBusWidth(mode.width, b) EXCEPT
                             !.host.uhs = UhsMode(mode.timing),
                             !.host.hs = HighSpeedBit(mode.timing)])

\* The slot is powered when a card is in it, a soldered card always
BringUpBus(b) ==
    IF ~Occupied(b) THEN {b}
    ELSE SetClock(400, [b EXCEPT !.host.power = TRUE, !.host.width = 1, !.host.hs = FALSE])

\* Power goes and comes back; the status is nobody's
RecoverBus(b) ==
    LET off == [EnginePowerOff(b) EXCEPT !.host.clock = 0]
        reset == [off EXCEPT !.host = HostReset]
    IN  {[x EXCEPT !.ok = b.ok] : x \in
            BringUpBus(reset) \cup IF "reset" \in CardFault THEN {off} ELSE {}}

\* A command that leaves the card as in after, which in another state of the
\* card than its own is not answered
Execute(states, after, b) ==
    LET sent == [b EXCEPT !.over = @ \/ OutOfStep(b)]
        done == [sent EXCEPT !.card = after]
    IN  IF ~Talks(b) THEN Refused(sent)
        ELSE IF b.card.state \notin states THEN Refused(sent)
        ELSE {done} \cup
             IF done = sent THEN IF "silent" \in CardFault THEN Refused(sent) ELSE {}
             ELSE (IF "refused" \in CardFault THEN Refused(sent) ELSE {})
                  \cup (IF "lost" \in CardFault THEN Refused(done) ELSE {})

Move(from, to, b) == Execute({from}, [b.card EXCEPT !.state = to], b)
Ask(b) == Execute({"tran"}, b.card, b)

\* A transfer that fails ends with a reset of the lines, or without power
DataFailed(b) ==
    {b} \cup IF "reset" \in CardFault
             THEN {[x EXCEPT !.cycled = TRUE] : x \in RecoverBus(b)} ELSE {}

ExecuteData(after, b) ==
    LET sent == IF Occupied(b) /\ b.card.width # b.host.width
                THEN Refused([b EXCEPT !.over = @ \/ OutOfStep(b)])
                ELSE Execute({"tran"}, after, b)
    IN  UNION {IF x.ok THEN {x} ELSE DataFailed(x) : x \in sent}

ReadDataBlock(b) == ExecuteData(b.card, b)

\* Tuning reads blocks at the clock that is to be tuned
ExecuteTuning(b) ==
    LET failed == Refused([b EXCEPT !.host.tuned = FALSE])
        answered == Talks(b) /\ b.card.state = "tran" /\ b.card.width = b.host.width
    IN  IF ~answered THEN UNION {DataFailed(x) : x \in failed}
        ELSE {[b EXCEPT !.host.tuned = TRUE]}
             \cup IF "tuning" \in CardFault THEN failed ELSE {}

\* A board that refuses leaves the controller at the other voltage; one that
\* follows leaves it at this one though the data lines do not
SwitchSignalVoltage(to, check, b) ==
    LET followed == [b EXCEPT !.host.v18 = to]
    IN  {followed}
        \cup IF "voltage" \notin CardFault THEN {}
             ELSE Refused([b EXCEPT !.host.v18 = ~to])
                  \cup IF check /\ to THEN Refused(b) \cup Refused(followed) ELSE {}

\* Status codes that the code ignores, and steps tried when another failed
Ignored(S) == {[x EXCEPT !.ok = TRUE] : x \in S}
OrElse(S, F(_)) == UNION {IF x.ok THEN {x} ELSE F([x EXCEPT !.ok = TRUE]) : x \in S}

GoIdleState(b) ==
    Execute({"idle", "ready", "ident", "stby", "tran"},
            [b.card EXCEPT !.state = "idle", !.timing = "Legacy", !.width = 1], b)

----------------------------------------------------------------------------
(* SdCard.                                                                 *)

NoIdentity == [version2 |-> FALSE, v18 |-> FALSE, mode |-> Legacy(400, 1, FALSE),
               cache |-> FALSE]

\* A high-capacity card never becomes ready for a host of the first version;
\* it keeps its voltage unless the host asked for 1.8 V and got it
PowerUp(request, b) ==
    LET ready(c) == IF c.type.highCapacity /\ ~b.drv.version2 THEN c
                    ELSE [c EXCEPT !.state = "ready"]
        asked == Then(Execute({"idle"}, b.card, b),
                      LAMBDA x : Execute({"idle"}, ready(x.card), x))
    IN  {[x EXCEPT !.ok = @ /\ x.card.state = "ready",
                   !.accepted = request /\ x.card.type.uhs] : x \in {y \in asked : y.ok}}
        \cup {x \in asked : ~x.ok}

SendIfCond(b) ==
    {[x EXCEPT !.ok = TRUE, !.drv.version2 = x.ok /\ x.card.type.version2] :
        x \in Execute({"idle"}, b.card, b)}

\* CMD11 changed the card: back to 3.3 V, power cycle, identify afresh
VoltageFallback(b) ==
    LET idle == Then(Then(SwitchSignalVoltage(FALSE, FALSE, b), RecoverBus), GoIdleState)
        Asked(x) == IF x.drv.version2 THEN Ignored(Execute({"idle"}, x.card, x)) ELSE {x}
    IN  Then(Then(idle, Asked), LAMBDA x : PowerUp(FALSE, x))

VoltageSwitch(b) ==
    LET command == Execute({"ready"}, [b.card EXCEPT !.v18 = TRUE], b)
        switched == {[x EXCEPT !.drv.v18 = x.ok] :
                        x \in Then(command, LAMBDA x : SwitchSignalVoltage(TRUE, TRUE, x))}
    IN  IF b.accepted THEN OrElse(switched, VoltageFallback) ELSE {b}

\* CMD2, CMD3, CMD9 and CMD7
Address(b) ==
    Then(Then(Then(Move("ready", "ident", b),
                   LAMBDA x : Move("ident", "stby", x)),
              LAMBDA x : Move("stby", "stby", x)),
         LAMBDA x : Move("stby", "tran", x))

\* ACMD6: the card first, the host second, and one line when it fails
SelectWidth(b) ==
    LET switched == Then(Ask(b), LAMBDA x : Execute({"tran"}, [x.card EXCEPT !.width = 4], x))
    IN  IF ~b.card.type.wide THEN {b}
        ELSE {IF x.ok THEN SetBusWidth(4, [x EXCEPT !.width = 4])
              ELSE [x EXCEPT !.ok = TRUE] : x \in switched}

\* CMD6 reads a status that says which function was selected
SwitchFunction(mode, b) ==
    ExecuteData([b.card EXCEPT !.timing = Describe[mode].timing], b)

\* Mutant: the clock stays where the mode that failed had it
StayFast(b) == {b}

\* The next function is asked for at the clock of the slowest mode
SlowDown(b) ==
    Ignored(ConfigureBus([At(b.current, 25000) EXCEPT !.width = b.width], b))

TryMode(mode, b) ==
    LET bm == [Describe[mode] EXCEPT !.width = b.width]
        switched == Then(SlowDown(b), LAMBDA x : SwitchFunction(mode, x))
        configured == Then(switched, LAMBDA x : ConfigureBus(bm, [x EXCEPT !.current = mode]))
        tuned == Then(configured, LAMBDA x : IF RequiresTuning(mode) THEN ExecuteTuning(x) ELSE {x})
    IN  IF b.done \/ ~SupportsSd(b.card.type, mode) THEN {b}
        ELSE {IF x.ok THEN [x EXCEPT !.done = TRUE, !.drv.mode = bm]
              ELSE [x EXCEPT !.ok = TRUE] : x \in tuned}

Floor(b) ==
    LET bm == [Describe["Sdr12"] EXCEPT !.width = b.width]
    IN  IF b.done THEN {b}
        ELSE Then(SwitchFunction("Sdr12", b),
                  LAMBDA x : ConfigureBus(bm, [x EXCEPT !.drv.mode = bm]))

UhsLadder(b) ==
    Then(Then(Then(Then(Then(TryMode("Sdr104", b),
        LAMBDA x : TryMode("Ddr50", x)),
        LAMBDA x : TryMode("Sdr50", x)),
        LAMBDA x : TryMode("Sdr25", x)),
        LAMBDA x : TryMode("Sdr12", x)),
        Floor)

TryHighSpeed(b) ==
    LET high == [Describe["HighSpeed"] EXCEPT !.width = b.width]
        default == [Describe["Default"] EXCEPT !.width = b.width]
        switched == Then(SwitchFunction("HighSpeed", b), LAMBDA x :
                         ConfigureBus(high, [x EXCEPT !.drv.mode = high]))
        Defaulted(x) == ConfigureBus(default, [x EXCEPT !.drv.mode = default])
    IN  IF SupportsSd(b.card.type, "HighSpeed") THEN OrElse(switched, Defaulted)
        ELSE Defaulted(b)

\* The functions of the card are read first; without them it is left alone
Negotiate(b) ==
    LET unknown(x) == LET bm == Legacy(25000, x.width, x.drv.v18)
                      IN  ConfigureBus(bm, [x EXCEPT !.drv.mode = bm])
    IN  UNION {IF ~x.ok THEN unknown([x EXCEPT !.ok = TRUE])
               ELSE IF x.drv.v18 THEN UhsLadder(x) ELSE TryHighSpeed(x) :
                 x \in ReadDataBlock(b)}

IdentifySd(b) ==
    LET local == [b EXCEPT !.width = 1, !.current = "Sdr12", !.done = FALSE]
        powered == PowerUp(b.drv.version2 /\ HostCanUhs, local)
        selected == Then(Then(powered, VoltageSwitch), Address)
        scr == Then(Then(selected, Ask), ReadDataBlock)
        BlockLength(x) == IF x.card.type.highCapacity THEN {x} ELSE Ask(x)
    IN  Then(Then(Then(scr, SelectWidth), BlockLength), Negotiate)

----------------------------------------------------------------------------
(* MmcCard.                                                                *)

WaitReady(b) == Ask(b)
SwitchByte(after, b) == Then(Execute({"tran"}, after, b), WaitReady)
SwitchTiming(timing, b) == SwitchByte([b.card EXCEPT !.timing = timing], b)
SelectPowerClass(b) == {b} \cup SwitchByte(b.card, b)

EightBit(b) ==
    LET bm == Legacy(400, 8, TRUE)
    IN  Then(SwitchByte([b.card EXCEPT !.width = 8], b),
             LAMBDA x : ConfigureBus(bm, x))

Baseline(type) == IF SupportsEmmc(type, "Hs52") THEN "Hs52" ELSE "Hs26"

HighSpeedBaseline(b) ==
    LET bm == Describe[Baseline(b.card.type)]
        tried == Then(Then(SelectPowerClass(b), LAMBDA x : SwitchTiming("MmcHighSpeed", x)),
                      LAMBDA x : ConfigureBus(bm, x))
    IN  IF ~SupportsEmmc(b.card.type, "Hs52") /\ ~SupportsEmmc(b.card.type, "Hs26") THEN {b}
        ELSE {IF x.ok THEN [x EXCEPT !.have = TRUE, !.drv.mode = bm]
              ELSE [x EXCEPT !.ok = TRUE] : x \in tried}

BaselineMode(b) ==
    IF b.have THEN Describe[Baseline(b.card.type)] ELSE Legacy(20000, 8, TRUE)

\* Slow down in the mode that failed, switch the card back, then the host
FallBack(mode, timing, b) ==
    Then(Then(Ignored(ConfigureBus(At(mode, 26000), b)), LAMBDA x : SwitchTiming(timing, x)),
         LAMBDA x : Ignored(ConfigureBus(BaselineMode(x), x)))

TryHs200(b) ==
    LET switched == Then(SelectPowerClass(b), LAMBDA x : SwitchTiming("MmcHs200", x))
        configured == Then(Then(switched, LAMBDA x : ConfigureBus(At("Hs200", 52000), x)), WaitReady)
        tuned == Then(Then(configured, LAMBDA x : ConfigureBus(Describe["Hs200"], x)), ExecuteTuning)
        before == IF b.have THEN "MmcHighSpeed" ELSE "Legacy"
        known == {IF x.ok THEN [x EXCEPT !.done = TRUE, !.drv.mode = Describe["Hs200"]]
                  ELSE x : x \in tuned}
    IN  IF ~SupportsEmmc(b.card.type, "Hs200") THEN {b}
        ELSE OrElse(known, LAMBDA x : FallBack("Hs200", before, x))

TryDdr52(b) ==
    LET switched == Then(SelectPowerClass(b), LAMBDA x : SwitchTiming("MmcDdr52", x))
        configured == Then(switched, LAMBDA x : ConfigureBus(Describe["Ddr52"], x))
        known == {IF x.ok THEN [x EXCEPT !.done = TRUE, !.drv.mode = Describe["Ddr52"]]
                  ELSE x : x \in configured}
    IN  IF b.done \/ ~b.have \/ ~SupportsEmmc(b.card.type, "Ddr52") THEN {b}
        ELSE OrElse(known, LAMBDA x : FallBack("Ddr52", "MmcHighSpeed", x))

Otherwise(b) ==
    IF b.done \/ b.have THEN {b}
    ELSE ConfigureBus(BaselineMode(b), [b EXCEPT !.drv.mode = BaselineMode(b)])

EnableCache(b) ==
    IF ~b.card.type.cache THEN {b}
    ELSE {[x EXCEPT !.ok = TRUE, !.drv.cache = x.ok] : x \in SwitchByte(b.card, b)}

IdentifyMmc(b) ==
    LET local == [b EXCEPT !.have = FALSE, !.done = FALSE]
        ready == Then(Execute({"idle"}, local.card, local), LAMBDA x : Move("idle", "ready", x))
        selected == Then(Then(ready, Address), ReadDataBlock)
        eight == Then(Then(selected, LAMBDA x : IF HostCan("v18") THEN SwitchSignalVoltage(TRUE, FALSE, x)
                                                ELSE {x}), EightBit)
    IN  Then(Then(Then(Then(Then(eight, HighSpeedBaseline), TryHs200), TryDdr52), Otherwise),
             EnableCache)

Identify(b) == IF IsMmc(b) THEN IdentifyMmc(b) ELSE IdentifySd(b)

----------------------------------------------------------------------------
(* The controller.                                                         *)

Version(b) == IF IsMmc(b) THEN {b} ELSE SendIfCond(b)
Start(b) == Then(GoIdleState(EmmcHardwareReset([b EXCEPT !.drv = NoIdentity])), Version)

\* What the next step may see of how this one ended
Rest(b) == [b EXCEPT !.ok = TRUE, !.cycled = FALSE, !.accepted = FALSE, !.width = 1,
                     !.current = "Sdr12", !.done = FALSE, !.have = FALSE]

\* A card that is soldered to the board has to answer for the boot to go on
Ended(b, online) == [Rest(b) EXCEPT !.online = online, !.next = "none",
                                    !.phase = IF @ = "boot"
                                              THEN IF online \/ ~IsMmc(b) THEN "on" ELSE "failed"
                                              ELSE @]

\* Create does not try a second time when CMD0 fails
Boot ==
    /\ bus.phase = "off"
    /\ \E powered \in BringUpBus(bus) :
          IF ~powered.ok THEN bus' = [Rest(powered) EXCEPT !.phase = "failed"]
          ELSE \E b \in Start([powered EXCEPT !.phase = "boot"]) :
                  bus' = IF b.ok THEN [Rest(b) EXCEPT !.next = "first"]
                         ELSE Ended(b, FALSE)

IdentifyCard ==
    /\ bus.next \in {"first", "second"}
    /\ \E b \in Identify(bus) :
          bus' = IF ~b.ok /\ bus.next = "first" THEN [Rest(b) EXCEPT !.next = "start"]
                 ELSE Ended(b, b.ok)

\* The second attempt of Create, and the first half of Reidentify
StartAgain ==
    /\ bus.next = "start"
    /\ \E b \in Then(RecoverBus(bus), Start) :
          bus' = IF b.ok THEN [Rest(b) EXCEPT !.next = "second"] ELSE Ended(b, FALSE)

Recover ==
    /\ bus.phase = "on" /\ bus.next = "none" /\ Occupied(bus)
    /\ bus' = [bus EXCEPT !.online = FALSE, !.next = "start"]

CardInserted(type) ==
    /\ bus.phase # "off" /\ ~IsMmc(bus) /\ ~Occupied(bus) /\ type.dialect = "sd"
    /\ bus' = [bus EXCEPT !.card = Powered(type)]

\* Requests of the old card fail, and the watcher sees that the slot is empty
CardRemoved ==
    /\ ~IsMmc(bus) /\ Occupied(bus)
    /\ bus' = [bus EXCEPT !.card = NoCard, !.online = FALSE,
                          !.phase = IF @ = "ejected" THEN "on" ELSE @]

\* A transfer that cost the card its power has it identified again; a removable
\* disk goes offline when its transfer fails
Transfer ==
    /\ bus.online
    /\ \E b \in ReadDataBlock(bus) :
          bus' = IF b.cycled THEN [Rest(b) EXCEPT !.online = FALSE, !.next = "start"]
                 ELSE [Rest(b) EXCEPT !.online = b.ok \/ IsMmc(b)]

Flush ==
    /\ bus.online /\ bus.drv.cache
    /\ bus' \in {Rest(b) : b \in SwitchByte(bus.card, bus)}

Eject ==
    /\ bus.online /\ ~IsMmc(bus)
    /\ bus' = [EnginePowerOff(bus) EXCEPT !.online = FALSE, !.phase = "ejected"]

CardModesInit ==
    \E dialect \in {"sd", "mmc"}, type \in Deck \cup {NoCard} :
        /\ type = NoCard => dialect = "sd"
        /\ type # NoCard => type.dialect = dialect
        /\ bus = [phase |-> "off", next |-> "none", dialect |-> dialect, online |-> FALSE,
                  card |-> IF type = NoCard THEN NoCard ELSE Powered(type),
                  host |-> HostReset, drv |-> NoIdentity,
                  over |-> FALSE, ok |-> TRUE, cycled |-> FALSE, accepted |-> FALSE,
                  width |-> 1, current |-> "Sdr12", done |-> FALSE, have |-> FALSE]

CardModesNext ==
    \/ Boot \/ IdentifyCard \/ StartAgain \/ Recover \/ CardRemoved
    \/ Transfer \/ Flush \/ Eject
    \/ \E type \in Deck : CardInserted(type)

CardModesSpec == CardModesInit /\ [][CardModesNext]_bus

----------------------------------------------------------------------------

\* The card that a disk is online for is selected; it, the controller and the
\* mode that the driver reports agree on width, clock, signal voltage and on
\* whether data moves on both edges of the clock, at a clock that the timing of
\* the card stands and, where that wants tuning, tuned: whatever failed on the
\* way there
Agreed(b) ==
    /\ b.card.state = "tran"
    /\ b.card.width = b.host.width /\ b.drv.mode.width = b.host.width
    /\ b.host.clock \in {0, ComputeClockSetting(b.drv.mode.clock)}
    /\ (UhsMode(b.card.timing) = "ddr50") = (b.host.uhs = "ddr50")
    /\ ~IsMmc(b) => b.card.v18 = b.host.v18
    /\ ~OutOfStep(b)

\* ConfigureBus and the ladders of SdCard.cpp and MmcCard.cpp: an identification
\* that succeeds leaves card and controller in agreement, and on its way, and in
\* every fallback, no command is sent at a clock above the timing of the card
\* or above that of untuned sampling
BusInStep == (bus.online /\ Occupied(bus) => Agreed(bus)) /\ ~bus.over
=============================================================================

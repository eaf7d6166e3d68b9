----------------------------- MODULE MCPeripherals -----------------------------
(***************************************************************************)
(* The drivers of the peripherals for TLC: the initial state chooses which   *)
(* of them runs, the others rest. A jack is empty or holds a headset first.  *)
(***************************************************************************)
EXTENDS AudioStream, AudioCodec, TouchPad, CrosEcKeyboard, BayTrailGpio

VARIABLE device

Peripheral == {"audio", "codec", "touch", "keyboard", "gpio"}

PeripheralsInit ==
    /\ AudioInit /\ CodecInit /\ TouchInit /\ KeyboardInit /\ GpioInit /\ device \in Peripheral
    /\ device # "gpio" => \A p \in Pin : ~line[p]
    /\ \A l \in Line : jack.plugged[l] => device = "codec" /\ jack.plugged[Other(l)]

PeripheralsNext ==
    /\ \/ device = "audio" /\ AudioNext /\ UNCHANGED <<codecVars, padVars, keyboardVars, gpioVars>>
       \/ device = "codec" /\ CodecNext /\ UNCHANGED <<audioVars, padVars, keyboardVars, gpioVars>>
       \/ device = "touch" /\ TouchNext /\ UNCHANGED <<audioVars, codecVars, keyboardVars, gpioVars>>
       \/ device = "keyboard" /\ KeyboardNext /\ UNCHANGED <<audioVars, codecVars, padVars, gpioVars>>
       \/ device = "gpio" /\ GpioNext /\ UNCHANGED <<audioVars, codecVars, padVars, keyboardVars>>
    /\ UNCHANGED device

PeripheralsSpec ==
    PeripheralsInit /\ [][PeripheralsNext]_<<device, audioVars, codecVars, padVars, keyboardVars, gpioVars>>
=============================================================================

------------------------------ MODULE MCStorage ------------------------------
(***************************************************************************)
(* The storage modules for TLC: the initial state chooses which of them      *)
(* runs, the command engine of a controller, the removable media above it, or *)
(* the identification of a card; the others rest. The callers of the engine  *)
(* are interchangeable.                                                      *)
(***************************************************************************)
EXTENDS SdhciEngine, RemovableMedia, CardModes, TLC

VARIABLE device

CONSTANT Storage
ASSUME StorageAssumption == Storage \subseteq {"engine", "media", "card"}

StorageInit ==
    /\ Init /\ MediaInit /\ CardModesInit /\ device \in Storage
    /\ device # "media" => slot.card = 0
    /\ device # "card" => bus.card = NoCard

\* A controller whose card was not identified does nothing any more
NothingToIdentify ==
    /\ device = "card" /\ bus.phase \in {"on", "failed"} /\ bus.next = "none"
    /\ UNCHANGED <<device, vars, mediaVars, bus>>

StorageNext ==
    \/ NothingToIdentify
    \/ device = "engine" /\ Next /\ UNCHANGED <<device, mediaVars, bus>>
    \/ device = "media" /\ MediaNext /\ UNCHANGED <<device, vars, bus>>
    \/ device = "card" /\ CardModesNext /\ UNCHANGED <<device, vars, mediaVars>>

StorageSpec == StorageInit /\ [][StorageNext]_<<device, vars, mediaVars, bus>>

\* Fairness and MediaFairness of the one that runs
StorageFairSpec ==
    /\ StorageSpec
    /\ WF_vars(device = "engine" /\ WorkerStep)
    /\ \A c \in Caller : WF_vars(device = "engine" /\ CallerStep(c))
    /\ WF_vars(device = "engine" /\ HandleInterruptMeow)
    /\ WF_mediaVars(device = "media" /\ WatcherStep)
    /\ WF_mediaVars(device = "media" /\ EjectStep)
    /\ WF_mediaVars(device = "media" /\ IoStep)
    /\ WF_mediaVars(device = "media" /\ PostRequest)
    /\ WF_mediaVars(device = "media" /\ (StopRequests \/ CancelQueued))
    /\ SF_mediaVars(device = "media" /\ Identified)

\* An SD card of the first version, one that knows High Speed, one that knows
\* every UHS mode, and eMMC of the first high speed only, of all modes and of
\* HS200 alone
SdCards ==
    {[dialect |-> "sd", version2 |-> kind # "old", highCapacity |-> kind # "old",
      uhs |-> kind = "uhs", wide |-> TRUE,
      modes |-> CASE kind = "old" -> {}
                  [] kind = "fast" -> {"HighSpeed"}
                  [] kind = "uhs" -> {"HighSpeed", "Sdr12", "Sdr25", "Sdr50", "Ddr50", "Sdr104"}] :
        kind \in {"old", "fast", "uhs"}}
MmcCards ==
    {[dialect |-> "mmc", modes |-> modes, cache |-> modes # {"Hs26"}] :
        modes \in {{"Hs26"}, {"Hs26", "Hs52", "Ddr52", "Hs200"}, {"Hs200"}}}
SomeCards == SdCards \cup MmcCards

\* A host and a board that know every mode, and want Sdr50 tuned
EveryMode == [flags |-> {"highSpeed", "width8", "v18", "sdr50", "sdr104", "ddr50", "tuneSdr50"},
              platform |-> {"Sdr25", "Ddr50", "Sdr50", "Sdr104"}]

CallerSymmetry == Permutations(Caller)
=============================================================================

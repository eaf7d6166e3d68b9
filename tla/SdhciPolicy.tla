----------------------------- MODULE SdhciPolicy -----------------------------
(***************************************************************************)
(* The pure decisions of the SDHCI engine, Command.h and Convergence.h:    *)
(* the execution policy of a command, the meaning of the interrupt bits    *)
(* accumulated for an attempt, and what to do after the attempt.           *)
(*                                                                         *)
(* A command stands for its class.  The interrupt bits are Command         *)
(* Complete, Transfer Complete, Buffer Read Ready, "fault" for the         *)
(* timeouts, CRC and ADMA errors, which one recovery class treats alike,   *)
(* and "hard" for every other error.                                       *)
(***************************************************************************)
EXTENDS Naturals

CONSTANT Quirk
ASSUME QuirkNames == Quirk \subseteq {"CardOnNeedsBusOn", "StopTransmissionBusy"}

\* Commands with the policy of their own in GetCommandConstraints, "plain" for
\* the others, "empty" for a data command of no blocks
CommandName == {"plain", "opCond", "appCmd", "stop", "select", "switch", "read",
                "write", "tuning", "empty"}

Bit == {"command", "transfer", "buffer", "fault", "hard"}

HasData(cmd) == cmd \in {"read", "write", "tuning"}

\* The reply is R1b: the card may hold the data line after its answer
HasBusyReply(cmd) == cmd \in {"switch", "stop"}

RequiresDataLineIdle(cmd) == HasData(cmd) \/ HasBusyReply(cmd)

\* Mutation of Constraints: writes share the policy of reads
ConstraintsOfReads(cmd) ==
    [retries |-> CASE cmd \in {"opCond", "appCmd"} -> 3
                   [] cmd \in {"select", "switch"} -> 1
                   [] cmd \in {"read", "write"} -> 2
                   [] OTHER -> 0,
     validateOcr |-> cmd = "opCond",
     needsBusReset |-> FALSE,
     replaySafe |-> TRUE]

Constraints(cmd) ==
    [retries |-> CASE cmd \in {"opCond", "appCmd"} -> 3
                   [] cmd \in {"select", "switch"} -> 1
                   [] cmd = "read" -> 2
                   [] OTHER -> 0,
     validateOcr |-> cmd = "opCond",
     needsBusReset |->
         \/ cmd = "stop" /\ "StopTransmissionBusy" \in Quirk
         \/ cmd = "select" /\ "CardOnNeedsBusOn" \in Quirk,
     replaySafe |-> cmd # "write"]

Attempts(cmd) == Constraints(cmd).retries + 1

\* Mutation of ClassifyPoll: Command Complete ends a data command too
ClassifyAnyCompletion(bits, cmd) ==
    IF "fault" \in bits THEN "fault"
    ELSE IF "hard" \in bits THEN "hard"
    ELSE IF bits # {} THEN "ok" ELSE "keepPolling"

\* Errors outrank completion; of the completions only the one that ends the
\* command counts, and Transfer Complete hides Buffer Read Ready
ClassifyPoll(bits, cmd) ==
    IF "fault" \in bits THEN "fault"
    ELSE IF "hard" \in bits THEN "hard"
    ELSE IF cmd = "tuning"
    THEN IF "buffer" \in bits /\ "transfer" \notin bits
         THEN "ok" ELSE "keepPolling"
    ELSE IF "transfer" \in bits \/ ("command" \in bits /\ ~HasData(cmd))
    THEN "ok" ELSE "keepPolling"

DecideRetry(result, attempt, cmd, cardPresent) ==
    LET haveBudget == attempt + 1 < Attempts(cmd) IN
    CASE result = "ok" -> "Succeed"
      [] result = "spuriousOcr" -> IF haveBudget THEN "Retry" ELSE "Fail"
      [] result = "busy" -> IF haveBudget THEN "RetryResetLines" ELSE "Fail"
      [] result = "fault" ->
             IF ~cardPresent \/ ~haveBudget \/ ~Constraints(cmd).replaySafe
             THEN "Fail"
             ELSE IF Constraints(cmd).needsBusReset THEN "ResetAndReidentify"
             ELSE "RetryResetLines"
      [] result = "hard" -> "Fail"
=============================================================================

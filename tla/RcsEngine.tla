------------------------------ MODULE RcsEngine ------------------------------
(***************************************************************************)
(* The render (RCS) and copy (BCS) engines as Gpu.cpp drives them.  Every   *)
(* function below runs under bcsLock from its first register access to its  *)
(* last, so it is an operator from an engine record to the set of records   *)
(* it may leave; ok is its status.  A register write, a wait and a reset    *)
(* may each fail when GpuFault says so, and what was written stays written. *)
(***************************************************************************)
EXTENDS Integers, FiniteSets, Outcomes

CONSTANT GpuFault  \* which waits and writes may fail

GpuFaultKinds == {"wake", "forcewake", "release", "write", "hang", "reset",
                  "restore", "map"}

ASSUME GpuFaultAssumption == GpuFault \subseteq GpuFaultKinds

Domains == {"render", "media"}

\* The engine as the firmware leaves it.  A memory is in ring when the ring,
\* status page or page directory registers refer to it.
EngineAtBoot(allow) == [
    faulted |-> FALSE,      \* gpuFaulted
    quarantined |-> FALSE,  \* renderMemoryQuarantined
    bcsReady |-> TRUE,
    owner |-> "none",       \* rcsPersistentOwner, rcsPersistentState.owner
    held |-> FALSE,         \* rcsPersistentForcewakeHeld
    flags |-> {},           \* rcsPersistentForcewake.flags
    wakeChanged |-> FALSE,  \* rcsPersistentWakeChanged
    base |-> {},            \* rcsPersistentRingBaseline: its memories
    allow |-> allow, acks |-> {}, ring |-> {}, bcsRing |-> {},
    live |-> "none",        \* whose context the engine has loaded (CCID)
    settings |-> {},        \* what differs of the L3 and PPGTT control registers
    \* the locals of the function that runs
    ok |-> TRUE, changed |-> FALSE, taken |-> {}, touched |-> FALSE,
    run |-> FALSE, safe |-> TRUE, renewed |-> FALSE ]

Begun(e) == [e EXCEPT !.ok = TRUE, !.changed = FALSE, !.taken = {},
                      !.touched = FALSE, !.run = FALSE, !.safe = TRUE,
                      !.renewed = FALSE]
Marked(e) == [e EXCEPT !.faulted = TRUE, !.quarantined = TRUE]

Fallible(kind, e) == {e} \cup (IF kind \in GpuFault THEN Refused(e) ELSE {})

EngineUsable(e) == ~e.faulted /\ ~e.quarantined

----------------------------------------------------------------------------
(* Power.                                                                  *)

EnableGtWake(e) ==
    IF e.allow THEN {e}
    ELSE Fallible("wake", [e EXCEPT !.allow = TRUE, !.changed = TRUE])

RestoreGtWake(e) ==
    IF e.changed THEN Fallible("wake", [e EXCEPT !.allow = FALSE]) ELSE {e}

\* Refused when a domain is already held; a failure keeps what was requested
AcquireForcewake(e) ==
    IF e.acks # {} THEN Refused(e)
    ELSE {[e EXCEPT !.acks = Domains, !.taken = Domains]}
         \cup IF "forcewake" \notin GpuFault THEN {}
              ELSE {[e EXCEPT !.acks = d, !.taken = d, !.ok = FALSE] :
                       d \in {{"render"}, Domains}}

ReleaseForcewake(e) ==
    {[e EXCEPT !.acks = @ \ e.taken]}
    \cup IF "release" \in GpuFault /\ e.taken # {} THEN Refused(e) ELSE {}

TakePower(e) == Then(EnableGtWake(e), AcquireForcewake)
ReturnPower(S) == Always(Always(S, ReleaseForcewake), RestoreGtWake)

\* The acknowledgements are read again before an inherited forcewake is used
PowerVerified(e) == Guarded(e.acks = Domains, e)

\* Mutant: the record goes without what it records
ForgetPersistentPower(e) == {[e EXCEPT !.held = FALSE, !.flags = {}]}

ReleasePersistentPowerLocked(e) ==
    LET domains(x) ==
            {[r EXCEPT !.taken = x.taken, !.flags = IF r.ok THEN {} ELSE @] :
                r \in ReleaseForcewake([x EXCEPT !.taken = x.flags])}
        wake(x) ==
            IF ~x.wakeChanged THEN {x}
            ELSE {[r EXCEPT !.wakeChanged = ~r.ok, !.changed = x.changed] :
                     r \in RestoreGtWake([x EXCEPT !.changed = TRUE])}
        done(x) == {[x EXCEPT !.held = FALSE]}
    IN  IF ~e.held THEN {e} ELSE Then(Then(domains(e), wake), done)

----------------------------------------------------------------------------
(* The ring.                                                               *)

ClearRcsFault(e) == Fallible("write", e)

RingAvailable(e) == e.ring = {} /\ e.live = "none"

ProgramRcsPpgttControl(e) ==
    Fallible("write", [e EXCEPT !.settings = @ \cup {"control"}, !.touched = TRUE])

\* START and HWS are the new ones, PP_DIR_BASE still the old one
PrepareRcsRing(w, e) ==
    Fallible("write", [e EXCEPT !.ring = @ \cup {w}])

\* The page directory is w's, so the registers refer to w only
ProgramRcsPpgtt(w, e) ==
    {[e EXCEPT !.ring = {w}]}
    \cup IF "write" \in GpuFault THEN Refused(e) ELSE {}

\* The batch switches context when the ring was built with MI_SET_CONTEXT
EnableRcsRing(w, switch, e) ==
    Fallible("write", [e EXCEPT !.run = TRUE, !.settings = @ \cup {"cache"},
                                !.live = IF switch THEN w ELSE @])

WaitForRcsCompletion(e) == Fallible("hang", e)

ResetRcs(e) == Fallible("reset", [e EXCEPT !.live = "none"])

\* RestoreRcsRing and RestoreRcsSubmissionRing: unless reset is set the ring is
\* first waited for, and reset when that fails
RestoreRcsSubmissionRing(memories, reset, e) ==
    LET waited == IF reset THEN Refused(e) ELSE Fallible("hang", e)
        halted(x) == IF x.ok THEN {x}
                     ELSE ResetRcs([x EXCEPT !.ok = TRUE])
        written(x) ==
            {[x EXCEPT !.ring = memories, !.safe = TRUE]}
            \cup IF "restore" \in GpuFault THEN Refused(x) ELSE {}
    IN  UNION {{[r EXCEPT !.ok = @ /\ (reset \/ x.ok)] :
                   r \in Then(halted([x EXCEPT !.safe = FALSE]), written)} :
                 x \in waited}

RestoreRcsSubmissionCache(e) ==
    {[e EXCEPT !.settings = @ \ {"cache"}]}
    \cup IF "restore" \in GpuFault THEN Refused(e) ELSE {}

RestoreRcsPpgttControl(e) ==
    {[e EXCEPT !.settings = @ \ {"control"}]}
    \cup IF "restore" \in GpuFault THEN Refused(e) ELSE {}

\* Ownership ends and the generation advances whether or not it worked
RestorePersistentRcsBaselineLocked(e) ==
    LET ring == RestoreRcsSubmissionRing(e.base, TRUE, e)
        cache(x) == IF x.safe THEN RestoreRcsSubmissionCache(x)
                    ELSE Refused(x)
        ended(x) == [x EXCEPT !.owner = "none", !.renewed = TRUE]
    IN  {IF x.ok THEN ended(x) ELSE ended(Marked(x)) :
            x \in Always(Always(ring, cache), RestoreRcsPpgttControl)}

----------------------------------------------------------------------------
(* Submissions.                                                            *)

\* ExecuteRcsSubmission and ExecuteRcsDiagnostic, the self-test of the render
\* engine, which clears no fault and keeps the page tables: everything is put
\* back, and a ring that could not be is a fault that keeps its memory
Transient(w, isSubmission, e) ==
    LET prepare(x) == IF isSubmission THEN Then(ClearRcsFault(x), ProgramRcsPpgttControl)
                      ELSE {x}
        available(x) == Guarded(RingAvailable(x), x)
        ring(x) == PrepareRcsRing(w, x)
        ppgtt(x) == ProgramRcsPpgtt(w, x)
        enable(x) == EnableRcsRing(w, TRUE, x)
        ran == Then(Then(Then(Then(Then(Then(TakePower(Begun(e)), prepare),
                    available), ring), ppgtt), enable), WaitForRcsCompletion)
        faulty(S) == {IF x.ok THEN x ELSE [x EXCEPT !.faulted = TRUE] : x \in S}
        cache(x) == IF x.safe THEN faulty(RestoreRcsSubmissionCache(x)) ELSE {x}
        restore(x) ==
            IF x.ring = e.ring THEN {x}
            ELSE Always(RestoreRcsSubmissionRing(e.ring, x.run, x), cache)
        control(x) == IF x.touched THEN faulty(RestoreRcsPpgttControl(x)) ELSE {x}
        restored == Always(Always(ran, restore), control)
        kept(x) == IF x.safe THEN x ELSE Marked(x)
    IN  IF EngineUsable(e)
        THEN {kept(x) : x \in ReturnPower(restored)}
        ELSE Refused(Begun(e))

ExecuteRcsSubmission(w, e) == Transient(w, TRUE, e)
ExecuteRcsDiagnostic(w, e) == Transient(w, FALSE, e)

\* The owner's ring is as it was left, or the engine lost it and is free again
ClaimRing(c, e) ==
    LET retained == e.owner \in e.ring /\ e.live = e.owner
        lost == [e EXCEPT !.owner = "none"]
        capture(x) == IF x.held THEN x ELSE [x EXCEPT !.base = x.ring]
    IN  IF e.owner # "none" /\ retained THEN {e}
        ELSE IF ~RingAvailable(e)
        THEN {[e EXCEPT !.ok = FALSE, !.touched = e.owner # "none"]}
        ELSE ProgramRcsPpgttControl(capture(lost))

\* Success leaves the ring stopped but loaded, and the power with the device
PersistentClaimed(c, e) ==
    IF e.held THEN [e EXCEPT !.owner = c]
    ELSE [e EXCEPT !.owner = c, !.held = TRUE, !.flags = e.taken, !.taken = {},
                   !.wakeChanged = e.changed, !.changed = FALSE]

\* A failure restores the baseline if the power is known to be on, and gives
\* the power back
PersistentFailed(e, inherited, verified) ==
    LET S == IF ~e.touched /\ e.owner = "none" THEN {e}
             ELSE IF verified THEN RestorePersistentRcsBaselineLocked(e)
             ELSE {Marked(e)}
    IN  IF inherited
        THEN {IF r.ok THEN r ELSE Marked(r) :
                 r \in UNION {ReleasePersistentPowerLocked(x) : x \in
                                {[y EXCEPT !.ok = TRUE] : y \in S}}}
        ELSE {IF r.ok THEN r ELSE Marked(r) :
                 r \in ReturnPower({[y EXCEPT !.ok = TRUE] : y \in S})}

ExecutePersistentRcsSubmission(c, switch, e) ==
    LET b == Begun(e)
        power == IF e.held
                 THEN {[x EXCEPT !.touched = ~x.ok] : x \in PowerVerified(b)}
                 ELSE TakePower(b)
        claim(x) == ClaimRing(c, x)
        ring(x) == PrepareRcsRing(c, x)
        ppgtt(x) == ProgramRcsPpgtt(c, x)
        enable(x) == EnableRcsRing(c, switch, x)
        \* the ring must still be loaded once it is idle and stopped
        retained(x) == Guarded(x.live = c, x)
        rest(x) == Then(Then(Then(Then(Then(Then(Then({x}, ClearRcsFault), claim),
                    ring), ppgtt), enable), WaitForRcsCompletion), retained)
        failed(x, verified) ==
            {[r EXCEPT !.ok = FALSE] : r \in PersistentFailed(x, e.held, verified)}
    IN  IF ~EngineUsable(e)
        THEN UNION {failed(x, FALSE) : x \in Refused(b)}
        ELSE UNION {IF p.ok
                    THEN UNION {IF x.ok THEN {PersistentClaimed(c, x)}
                                ELSE failed(x, TRUE) : x \in rest(p)}
                    ELSE failed(p, FALSE) : p \in power}

\* expected is the client that gives up the engine, or "any".  On failure the
\* memory of the owner is quarantined: quarantine names it.
ReleasePersistentRcsOwnership(expected, e) ==
    LET b == Begun(e)
        owned == e.owner # "none"
        power == IF ~owned THEN {b}
                 ELSE IF e.held /\ e.flags # {} THEN PowerVerified(b)
                 ELSE IF e.held THEN Refused(b) ELSE TakePower(b)
        restored == IF owned
                    THEN Then(power, RestorePersistentRcsBaselineLocked)
                    ELSE power
        returned == IF e.held THEN Always(restored, ReleasePersistentPowerLocked)
                    ELSE ReturnPower(restored)
    IN  IF \/ ~owned /\ ~e.held
           \/ expected # "any" /\ owned /\ e.owner # expected
        THEN {b}
        ELSE {[IF r.ok THEN r ELSE Marked(r) EXCEPT !.owner = "none"] :
                 r \in returned}

----------------------------------------------------------------------------
(* Global page table entries; safe tells whether the buffer is quarantined.  *)

BindRenderBufferGgtt(e) ==
    IF ~EngineUsable(e) THEN Refused(e)
    ELSE {e} \cup Refused(e) \cup
         IF "map" \notin GpuFault THEN {}
         ELSE {[r EXCEPT !.quarantined = TRUE, !.safe = FALSE] : r \in Refused(e)}

UnbindRenderBufferGgtt(e) ==
    {e} \cup
    IF "map" \notin GpuFault THEN {}
    ELSE {[r EXCEPT !.quarantined = TRUE, !.safe = FALSE] : r \in Refused(e)}

----------------------------------------------------------------------------
(* The copy engine: it borrows the forcewake of a persistent owner.         *)

BcsAvailable(e) == e.bcsRing = {}

RunBcs(w, e) ==
    LET start(x) ==
            Fallible("write", [x EXCEPT !.bcsRing = {w}, !.run = TRUE])
    IN  Then(Then(Guarded(BcsAvailable(e), e), start), LAMBDA x :
             Fallible("hang", x))

RestoreBcsRing(e) ==
    IF ~e.run THEN {e}
    ELSE {[e EXCEPT !.bcsRing = {}]}
         \cup IF GpuFault \cap {"reset", "restore"} # {} THEN {[r EXCEPT !.faulted = TRUE] :
            r \in Refused(e)} ELSE {}

SubmitBcsCommandsLocked(e) ==
    LET b == Begun(e)
        borrowed == e.held /\ e.flags # {}
        ran == Then(IF borrowed THEN PowerVerified(b) ELSE TakePower(b),
                    LAMBDA x : RunBcs("private", x))
        restored == Always(ran, RestoreBcsRing)
        done == IF borrowed THEN restored ELSE ReturnPower(restored)
    IN  IF e.faulted THEN Refused(b)
        ELSE {[x EXCEPT !.bcsReady = @ /\ x.ok] : x \in done}

\* CaptureGpuDiagnostics and RunGpuSelfTest; the test pages are kept, and the
\* engine is at fault, unless the ring and their GGTT entries are back
CaptureGpuDiagnostics(e) == ReturnPower(TakePower(Begun(e)))

RunGpuSelfTest(e) ==
    LET b == Begun(e)
        installed == Fallible("map", b)
        ran == Then(Then(installed, TakePower), LAMBDA x : RunBcs("test", x))
        restored(x) == RestoreBcsRing(x)
        mapped(x) == IF x.bcsRing # {} THEN {x} ELSE
                     {IF r.ok THEN r ELSE [r EXCEPT !.faulted = TRUE] :
                         r \in Fallible("map", x)}
    IN  IF e.faulted THEN Refused(b)
        ELSE ReturnPower(Always(Always(ran, restored), mapped))
=============================================================================

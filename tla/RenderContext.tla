---------------------------- MODULE RenderContext ----------------------------
(***************************************************************************)
(* The life of a render context beside the engines of RcsEngine: creation,  *)
(* submissions from the worker and from callers, destruction, the release   *)
(* of a client, and the copies of presentation.                             *)
(*                                                                         *)
(* device.lock covers a call except between its sections, so a section is   *)
(* one step.  A submission holds it from its checks to its retirement, in   *)
(* two steps, since copies of the present worker take only bcsLock.         *)
(***************************************************************************)
EXTENDS RcsEngine

CONSTANTS
    RenderClient,   \* open clients of the device
    ThreadCount,    \* threads of each client
    EngineLoss,     \* TRUE: the engine may lose its registers while it rests
    OtherUsers      \* TRUE: diagnostics, self-tests and copies run too

ASSUME RenderContextAssumption ==
    /\ ThreadCount \in Nat \ {0}
    /\ EngineLoss \in BOOLEAN /\ OtherUsers \in BOOLEAN
    /\ RenderClient \cap {"none", "private", "freed"} = {}

VARIABLES
    engine,      \* the engines and their state in the device: an engine record
    rcsReady,    \* the render self-test passed
    context,     \* [RenderClient -> "none", "ready" or "quarantined"]
    current,     \* clients whose hardwareContextGeneration is the device's
    saved,       \* clients whose context image the engine has written back
    wiped,       \* the last submission cleared the image the engine has loaded
    phase,       \* [RenderClient -> "open", a stage of its release, "closed"]
    waiting,     \* [RenderClient -> the kind of its queued job, or "none"]
    worker,      \* the render worker: its stage, client and kind of job
    caller,      \* [RenderThread -> where its call stands]
    submission   \* the submission that holds device.lock, NoSubmission if none

contextVars == <<engine, rcsReady, context, current, saved, wiped, phase,
                 waiting, worker, caller, submission>>

RenderThread == RenderClient \X (1..ThreadCount)
Client(t) == t[1]
WorkerIdle == [stage |-> "idle", client |-> "none", kind |-> "none"]
NoSubmission == [by |-> "nobody", client |-> "none", persistent |-> FALSE,
                 switch |-> FALSE, restores |-> FALSE]

\* Persistent modes, Safe mode, and a failure asked for by the client
JobKind == {"persistent", "safe", "inject"}

RenderContextInit ==
    /\ \E allow \in BOOLEAN : engine = EngineAtBoot(allow)
    /\ rcsReady = TRUE
    /\ context = [c \in RenderClient |-> "none"]
    /\ current = {} /\ saved = {} /\ wiped = FALSE
    /\ phase = [c \in RenderClient |-> "open"]
    /\ waiting = [c \in RenderClient |-> "none"]
    /\ worker = WorkerIdle
    /\ caller = [t \in RenderThread |-> "idle"]
    /\ submission = NoSubmission

DeviceLockFree == submission = NoSubmission

\* An engine function ran: its locals are gone, and a reset of the baseline
\* starts a new generation, in which no client's image counts
Ran(r) ==
    /\ engine' = Begun(r)
    /\ current' = IF r.renewed THEN {} ELSE current

\* Memory that is freed while the registers refer to it keeps no name
Freed(r, memories) ==
    IF r.ring \cap memories = {} THEN r
    ELSE [r EXCEPT !.ring = (@ \ memories) \cup {"freed"}]

----------------------------------------------------------------------------
(* Creating and destroying a context.                                      *)

\* Scratch page, directory and workspace are allocated, two of them bound; a
\* failure releases what there is
CreateRenderContext(t) ==
    LET c == Client(t)
        bound == Then(BindRenderBufferGgtt(Begun(engine)), BindRenderBufferGgtt)
    IN  /\ caller[t] = "idle" /\ phase[c] = "open" /\ DeviceLockFree
        /\ EngineUsable(engine) /\ context[c] = "none"
        /\ \/ UNCHANGED <<engine, context, current>>  \* no memory
           \/ \E r \in bound :
                 /\ Ran(r)
                 /\ context' = [context EXCEPT ![c] = IF r.ok THEN "ready" ELSE @]
        /\ UNCHANGED <<rcsReady, saved, wiped, phase, waiting, worker, caller,
                       submission>>

\* Mutant: the image the engine saved counts on after its workspace is freed
ReleaseKeepingGeneration(c) ==
    /\ \E d \in UnbindRenderBufferGgtt(Begun(engine)) : engine' = Begun(d)
    /\ context' = [context EXCEPT ![c] = "none"] /\ UNCHANGED current

\* The directory is unbound first, and everything kept if that fails; a
\* workspace that cannot be unbound is kept by itself
ReleasePpgttResources(c) ==
    \E d \in UnbindRenderBufferGgtt(Begun(engine)) :
        IF ~d.ok
        THEN /\ engine' = Begun(d)
             /\ context' = [context EXCEPT ![c] = "quarantined"]
             /\ UNCHANGED current
        ELSE \E w \in UnbindRenderBufferGgtt(d) :
                /\ engine' = Begun(IF w.ok THEN Freed(w, {c}) ELSE w)
                /\ context' = [context EXCEPT ![c] = "none"]
                /\ current' = current \ {c}

DestroyPpgttContextLocked(c) ==
    /\ IF context[c] = "ready"
       THEN ReleasePpgttResources(c)
       ELSE UNCHANGED <<engine, context, current>>
    /\ saved' = saved \ {c}

QueueBusy(c) == waiting[c] # "none" \/ worker.client = c

\* The queue is looked at, the engine released, and the queue looked at again
DestroyBegins(t) ==
    LET c == Client(t)
    IN  /\ caller[t] = "idle" /\ phase[c] = "open" /\ DeviceLockFree
        /\ context[c] # "none" /\ ~QueueBusy(c)
        /\ caller' = [caller EXCEPT ![t] = "release"]
        /\ UNCHANGED <<engine, rcsReady, context, current, saved, wiped, phase,
                       waiting, worker, submission>>

\* ReleasePersistentRcsOwnership, and the quarantine of the memory of the owner
Release(expected, r) ==
    LET owner == engine.owner
    IN  /\ r \in ReleasePersistentRcsOwnership(expected, engine)
        /\ Ran(r)
        /\ context' = IF r.ok \/ owner = "none" THEN context
                      ELSE [context EXCEPT ![owner] = "quarantined"]
        /\ UNCHANGED <<rcsReady, saved, wiped>>

\* Mutant: the context is destroyed although the engine may have it loaded
DestroyWithoutRelease(t) ==
    /\ caller[t] = "release" /\ DeviceLockFree
    /\ caller' = [caller EXCEPT ![t] = "destroy"]
    /\ UNCHANGED <<engine, rcsReady, context, current, saved, wiped, phase,
                   waiting, worker, submission>>

DestroyReleases(t) ==
    /\ caller[t] = "release" /\ DeviceLockFree
    /\ \E r \in ReleasePersistentRcsOwnership(Client(t), engine) :
          /\ Release(Client(t), r)
          /\ caller' = [caller EXCEPT ![t] = IF r.ok THEN "destroy" ELSE "idle"]
    /\ UNCHANGED <<phase, waiting, worker, submission>>

DestroyEnds(t) ==
    LET c == Client(t)
    IN  /\ caller[t] = "destroy" /\ DeviceLockFree
        /\ IF QueueBusy(c)
           THEN UNCHANGED <<engine, context, current, saved>>
           ELSE DestroyPpgttContextLocked(c)
        /\ caller' = [caller EXCEPT ![t] = "idle"]
        /\ UNCHANGED <<rcsReady, wiped, phase, waiting, worker, submission>>

DestroyRenderContext(t) == DestroyBegins(t) \/ DestroyReleases(t) \/ DestroyEnds(t)

----------------------------------------------------------------------------
(* Submissions.                                                            *)

\* EnqueueRenderCommands takes renderLock only, so a submission may be running;
\* a client whose queue failed configures it first
Enqueue(t) ==
    LET c == Client(t)
    IN  /\ caller[t] = "idle" /\ phase[c] = "open"
        /\ context[c] = "ready" /\ waiting[c] = "none"
        /\ \E kind \in JobKind : waiting' = [waiting EXCEPT ![c] = kind]
        /\ UNCHANGED <<engine, rcsReady, context, current, saved, wiped, phase,
                       worker, caller, submission>>

WorkerTakes(c) ==
    /\ worker = WorkerIdle /\ waiting[c] # "none"
    /\ worker' = [client |-> c, kind |-> waiting[c],
                  stage |-> IF waiting[c] = "persistent" THEN "submit"
                            ELSE "release"]
    /\ waiting' = [waiting EXCEPT ![c] = "none"]
    /\ UNCHANGED <<engine, rcsReady, context, current, saved, wiped, phase,
                   caller, submission>>

\* Safe jobs and injected failures take the engine from its owner first
WorkerReleases ==
    /\ worker.stage = "release" /\ DeviceLockFree
    /\ \E r \in ReleasePersistentRcsOwnership("any", engine) :
          /\ Release("any", r)
          /\ worker' = [worker EXCEPT !.stage =
                           IF r.ok /\ @ = "release" /\ worker.kind = "safe"
                           THEN "submit" ELSE "retire"]
    /\ UNCHANGED <<phase, waiting, caller, submission>>

\* A job that failed takes the queued ones of its client with it
WorkerRetires ==
    /\ worker.stage = "retire"
    /\ waiting' \in {waiting, [waiting EXCEPT ![worker.client] = "none"]}
    /\ worker' = WorkerIdle
    /\ UNCHANGED <<engine, rcsReady, context, current, saved, wiped, phase,
                   caller, submission>>

\* A call that submits and waits always resets the engine: it releases first
SyncBegins(t) ==
    /\ caller[t] = "idle" /\ phase[Client(t)] = "open" /\ DeviceLockFree
    /\ \E r \in ReleasePersistentRcsOwnership("any", engine) :
          /\ Release("any", r)
          /\ caller' = [caller EXCEPT ![t] = IF r.ok THEN "submit" ELSE @]
    /\ UNCHANGED <<phase, waiting, worker, submission>>

SubmissionEnds(by, c) ==
    IF by = "worker"
    THEN worker' = [worker EXCEPT !.stage = "retire"] /\ UNCHANGED caller
    ELSE caller' = [caller EXCEPT ![by] = "idle"] /\ UNCHANGED worker

\* The checks, the objects and PrepareRcsSubmissionWorkspace.  The workspace
\* is cleared, the context image with it unless it is current.
SubmitPrepares(by, c, persistent) ==
    LET usable == EngineUsable(engine) /\ rcsReady /\ context[c] = "ready"
        kept == persistent /\ c \in current
        switch == ~persistent \/ engine.owner # c
        \* a batch that is refused is found after the workspace was cleared
        Cleared ==
            /\ saved' = IF persistent /\ ~kept THEN saved \ {c} ELSE saved
            /\ wiped' = (persistent /\ ~kept /\ engine.live = c)
        Refuse ==
            /\ current' = IF persistent THEN current \ {c} ELSE current
            /\ SubmissionEnds(by, c)
            /\ UNCHANGED submission
    IN  /\ DeviceLockFree
        /\ \/ Refuse /\ UNCHANGED <<saved, wiped>>
           \/ usable /\ Cleared /\ Refuse
           \/ /\ usable /\ Cleared
              /\ submission' = [by |-> by, client |-> c, persistent |-> persistent,
                                switch |-> switch, restores |-> kept]
              /\ UNCHANGED <<current, worker, caller>>
        /\ UNCHANGED <<engine, rcsReady, context, phase, waiting>>

\* The engine writes back the image it has loaded when it loads another
SavedAfter(r, c) ==
    IF r.live = c /\ engine.live \notin {"none", c} /\ submission.persistent
    THEN saved \cup {engine.live} ELSE saved

SubmitExecutes ==
    LET s == submission
        c == s.client
        outcomes == IF s.persistent
                    THEN ExecutePersistentRcsSubmission(c, s.switch, engine)
                    ELSE ExecuteRcsSubmission("private", engine)
    IN  /\ s # NoSubmission
        /\ \E r \in outcomes :
              LET unsafe == r.faulted \/ r.quarantined
                  q == IF unsafe THEN [r EXCEPT !.quarantined = TRUE] ELSE r
                  left == IF unsafe THEN q ELSE Freed(q, {"private"})
                  gen == IF r.renewed THEN {} ELSE current
              IN  /\ engine' = Begun(left)
                  /\ context' = [context EXCEPT ![c] =
                                    IF unsafe THEN "quarantined" ELSE @]
                  /\ current' = IF ~s.persistent THEN gen
                                ELSE IF r.ok THEN gen \cup {c} ELSE gen \ {c}
                  /\ saved' = SavedAfter(r, c)
                  /\ rcsReady' = (rcsReady /\ (r.ok \/ ~unsafe))
        /\ SubmissionEnds(s.by, c)
        /\ submission' = NoSubmission /\ wiped' = FALSE
        /\ UNCHANGED <<phase, waiting>>

SubmitRenderCommands ==
    \/ /\ worker.stage = "submit"
       /\ SubmitPrepares("worker", worker.client, worker.kind = "persistent")
    \/ \E t \in RenderThread :
          caller[t] = "submit" /\ SubmitPrepares(t, Client(t), FALSE)
    \/ SubmitExecutes

----------------------------------------------------------------------------
(* The end of a client: ShutdownRenderQueueClient and DestroyRenderClient.  *)

CloseStep(c) ==
    LET Goto(p) == phase' = [phase EXCEPT ![c] = p]
    IN  \/ /\ phase[c] = "open"
           /\ \A t \in RenderThread : Client(t) = c => caller[t] = "idle"
           /\ waiting' = [waiting EXCEPT ![c] = "none"]
           /\ Goto("drain")
           /\ UNCHANGED <<engine, rcsReady, context, current, saved, wiped>>
        \/ /\ phase[c] = "drain" /\ worker.client # c /\ DeviceLockFree
           /\ \E r \in ReleasePersistentRcsOwnership(c, engine) : Release(c, r)
           /\ Goto("destroy") /\ UNCHANGED waiting
        \/ /\ phase[c] = "destroy" /\ DeviceLockFree
           /\ IF context[c] = "ready" THEN ReleasePpgttResources(c)
              ELSE UNCHANGED <<engine, context, current>>
           /\ saved' = saved \ {c}
           /\ Goto("closed") /\ UNCHANGED <<rcsReady, wiped, waiting>>

ReleaseClient(c) == CloseStep(c) /\ UNCHANGED <<worker, caller, submission>>

\* A client that was not quarantined opens again as a new one
RegisterClient(c) ==
    /\ phase[c] = "closed" /\ context[c] = "none"
    /\ phase' = [phase EXCEPT ![c] = "open"]
    /\ current' = current \ {c}
    /\ UNCHANGED <<engine, rcsReady, context, saved, wiped, waiting, worker,
                   caller, submission>>

----------------------------------------------------------------------------
(* Other users of the engines.                                             *)

\* Two buffers are bound, the test runs in them, and they are unbound.  A
\* failed test keeps submissions from starting until another one passes.
RunRcsDiagnostic ==
    /\ OtherUsers /\ DeviceLockFree /\ EngineUsable(engine)
    /\ \E r \in ExecuteRcsDiagnostic("private", engine) :
          /\ Ran(IF r.quarantined THEN r ELSE Freed(r, {"private"}))
          /\ rcsReady' = r.ok
    /\ UNCHANGED <<context, saved, wiped, phase, waiting, worker, caller,
                   submission>>

\* Presents of the worker, of clients and fills take bcsLock; only the first
\* do so while a submission holds device.lock
SubmitBcs ==
    /\ OtherUsers /\ engine.bcsReady
    /\ \E r \in SubmitBcsCommandsLocked(engine) : Ran(r)

GpuTools ==
    /\ OtherUsers /\ DeviceLockFree
    /\ \/ \E r \in CaptureGpuDiagnostics(engine) : Ran(r)
       \/ /\ Cardinality({c \in RenderClient : phase[c] # "closed"}) = 1
          /\ \E r \in RunGpuSelfTest(engine) : Ran(r)

\* A stopped engine may lose what its registers held
EngineLoses ==
    /\ EngineLoss /\ engine.owner # "none"
    /\ engine' = [engine EXCEPT !.ring = {}, !.live = "none"]
    /\ UNCHANGED current

OtherUse ==
    \/ RunRcsDiagnostic
    \/ /\ SubmitBcs \/ GpuTools \/ EngineLoses
       /\ UNCHANGED <<rcsReady, context, saved, wiped, phase, waiting, worker,
                      caller, submission>>

RenderContextNext ==
    \/ \E t \in RenderThread :
          CreateRenderContext(t) \/ DestroyRenderContext(t) \/ Enqueue(t)
            \/ SyncBegins(t)
    \/ \E c \in RenderClient : WorkerTakes(c) \/ ReleaseClient(c) \/ RegisterClient(c)
    \/ WorkerReleases \/ WorkerRetires
    \/ SubmitRenderCommands
    \/ OtherUse

RenderContextSpec == RenderContextInit /\ [][RenderContextNext]_contextVars

----------------------------------------------------------------------------
RenderContextTypeOK ==
    /\ engine.owner \in RenderClient \cup {"none"}
    /\ engine.flags \subseteq Domains /\ engine.acks \subseteq Domains
    /\ current \subseteq RenderClient /\ saved \subseteq RenderClient
    /\ context \in [RenderClient -> {"none", "ready", "quarantined"}]
    /\ waiting \in [RenderClient -> JobKind \cup {"none"}]
    /\ phase \in [RenderClient -> {"open", "drain", "destroy", "closed"}]
    /\ caller \in [RenderThread -> {"idle", "release", "destroy", "submit"}]

\* The engine never refers to memory that was freed: neither the destruction
\* of a context, nor the release of its client, nor a submission that failed
\* frees a workspace that the ring registers of the device still name.
ReferencedIsKept == "freed" \notin engine.ring

\* With no owner and no fault the engine is as the firmware left it: its
\* registers name no memory of the driver, no forcewake is held, the wake
\* request is as it was and the render settings are restored.
RestIsBaseline ==
    engine.owner = "none" /\ ~engine.faulted =>
        /\ engine.ring = {} /\ engine.live = "none" /\ engine.settings = {}
        /\ engine.acks = {} /\ ~engine.held /\ engine.base = {}

\* A client the driver thinks it can switch back to has an image to load: the
\* engine saved it, or has it loaded still.
CurrentHasImage ==
    \A c \in current :
        context[c] = "ready" => c \in saved \/ engine.live = c

\* The image of the context the engine has loaded is not cleared under it:
\* "Keep its saved bytes intact until ownership is released or reset".
\* The code does not keep it (README, Remarks).
ActiveImageKept == ~wiped
=============================================================================

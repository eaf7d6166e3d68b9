--------------------------- MODULE RenderResidency ---------------------------
(***************************************************************************)
(* The buffers of one client of the render device: which have their pages   *)
(* wired, which the page tables name, and who may still use them.  Calls     *)
(* hold device.lock and renderLock; enqueueing takes renderLock only, so it  *)
(* also runs while a submission executes with renderLock released.          *)
(***************************************************************************)
EXTENDS Integers, FiniteSets, Sequences, FiniteSetsExt, SequencesExt, Outcomes

CONSTANTS
    Buffer,        \* memory the client may allocate
    BufferSize,    \* [Buffer -> size]
    Budget,        \* kRenderResidentBudgetBytes
    QueueLimit,    \* jobs that may be queued
    MemoryFault    \* which kernel calls and table writes may fail

MemoryFaultKinds == {"lock", "unlock", "delete", "pte", "ggtt", "gpu"}

ASSUME RenderResidencyAssumption ==
    /\ BufferSize \in [Buffer -> Nat \ {0}] /\ Budget \in Nat
    /\ QueueLimit \in Nat /\ MemoryFault \subseteq MemoryFaultKinds

VARIABLES
    memory,    \* the buffers and tables: see MemoryAtOpen
    queue,     \* queued jobs
    active,    \* the job of the worker: its stage and the job
    running    \* the submission that holds device.lock, NoJob if none

residencyVars == <<memory, queue, active, running>>

NoJob == [kind |-> "none", objects |-> <<>>]
NoActive == [stage |-> "idle", job |-> NoJob]

MemoryAtOpen == [
    open |-> {},         \* client.buffers
    resident |-> {}, quarantined |-> {}, closing |-> {},
    mapped |-> {},       \* buffers with a ppgttOffset
    bound |-> {},        \* buffers with a ggttOffset
    domain |-> [b \in Buffer |-> "cpu"],
    refs |-> [b \in Buffer |-> 0],
    lru |-> <<>>,        \* resident buffers by residencySerial
    bytes |-> 0,         \* residentBytes
    ready |-> FALSE,     \* ppgtt.ready
    kept |-> FALSE,      \* ppgtt.quarantined
    unsafe |-> FALSE,    \* renderMemoryQuarantined
    faulted |-> FALSE,   \* gpuFaulted
    \* the machine: pages that stay in place, and tables that name them
    wired |-> {}, named |-> {}, global |-> {},
    ok |-> TRUE, own |-> FALSE ]   \* status, boundForPresent

MayFail(kind) == kind \in MemoryFault
IfFails(kind, S) == IF MayFail(kind) THEN S ELSE {}
Usable(m) == ~m.unsafe /\ ~m.faulted
At(f, b, value) == [x \in Buffer |-> IF x = b THEN value ELSE f[x]]
Touch(b, m) == [m EXCEPT !.lru = Append(RemoveFirst(m.lru, b), b)]

QuarantinePpgtt(b, m) ==
    [m EXCEPT !.ready = FALSE, !.kept = TRUE, !.unsafe = TRUE,
              !.quarantined = @ \cup {b}]

----------------------------------------------------------------------------
(* Page table entries.  What is in the table is compared with what should   *)
(* be before it is written; a failed write that cannot be undone quarantines. *)

Stuck(b, m) == Refused(QuarantinePpgtt(b, m))
Unknown(b, m) == Stuck(b, [m EXCEPT !.named = @ \cup {b}])

MapRenderBufferPpgtt(b, m) ==
    IF m.kept THEN Refused(m)
    ELSE IF b \in m.named THEN Stuck(b, m)
    ELSE {[m EXCEPT !.named = @ \cup {b}, !.mapped = @ \cup {b}]}
         \cup IfFails("pte", Refused(m) \cup Unknown(b, m))

ReplaceRenderBufferPpgttWithScratch(b, m) ==
    IF b \notin m.named THEN Stuck(b, m)
    ELSE {[m EXCEPT !.named = @ \ {b}]} \cup IfFails("pte", Stuck(b, m))

RestoreRenderBufferPpgtt(b, m) ==
    IF b \in m.named THEN Stuck(b, m)
    ELSE {[m EXCEPT !.named = @ \cup {b}]}
         \cup IfFails("pte", Refused(m) \cup Unknown(b, m))

ClearRenderBufferPpgtt(b, m) ==
    IF b \notin m.mapped THEN {m}
    ELSE IF (b \in m.named) # (b \in m.resident)
    THEN Stuck(b, m)
    ELSE {[m EXCEPT !.named = @ \ {b}, !.mapped = @ \ {b}]}
         \cup IfFails("pte", Stuck(b, m))

BindGgtt(b, m) ==
    IF ~Usable(m) \/ b \notin m.resident \/ b \in m.bound THEN Refused(m)
    ELSE {[m EXCEPT !.bound = @ \cup {b}, !.global = @ \cup {b}, !.own = TRUE]}
         \cup IfFails("ggtt", Refused(m) \cup
                Refused([m EXCEPT !.global = @ \cup {b}, !.unsafe = TRUE,
                                  !.quarantined = @ \cup {b}]))

UnbindGgtt(b, m) ==
    IF b \notin m.bound THEN Guarded(b \notin m.quarantined, m)
    ELSE {[m EXCEPT !.bound = @ \ {b}, !.global = @ \ {b}]}
         \cup IfFails("ggtt", Refused([m EXCEPT !.unsafe = TRUE,
                                               !.quarantined = @ \cup {b}]))

----------------------------------------------------------------------------
(* Residency.                                                              *)

\* Mutant: jobs that wait for the buffer are not looked at
EvictQueued(b, m) ==
    b \in m.resident \ m.quarantined /\ m.domain[b] = "cpu" /\ b \notin m.bound

CanEvictRenderBuffer(b, m) ==
    /\ b \in m.resident \ m.quarantined /\ m.refs[b] = 0
    /\ m.domain[b] = "cpu" /\ b \notin m.bound

EvictRenderBufferBacking(b, m) ==
    LET unwire(x) ==
            {[x EXCEPT !.wired = @ \ {b}, !.resident = @ \ {b},
                       !.bytes = @ - BufferSize[b],
                       !.lru = RemoveFirst(x.lru, b)]}
            \cup IfFails("unlock", Stuck(b, x))
    IN  IF ~CanEvictRenderBuffer(b, m) \/ b \notin m.mapped THEN Refused(m)
        ELSE Then(ReplaceRenderBufferPpgttWithScratch(b, m), unwire)

\* The least recently used candidate goes, until there is room
EnsureClientResidentBudget(size, m) ==
    LET candidate(b) == b \in m.open /\ CanEvictRenderBuffer(b, m)
        room(x) == x.bytes <= Budget - size
        evict(S, b) ==
            Then(S, LAMBDA x : IF room(x) \/ ~candidate(b) THEN {x}
                               ELSE EvictRenderBufferBacking(b, x))
    IN  Then(FoldLeft(evict, {m}, m.lru), LAMBDA x : Guarded(room(x), x))

AllocateRenderMemory(b, m) ==
    {Touch(b, [m EXCEPT !.wired = @ \cup {b}, !.resident = @ \cup {b},
                        !.bytes = @ + BufferSize[b]])}
    \cup IfFails("lock", Refused(m))

MakeRenderBufferResident(b, m) ==
    LET wire(x) == {[x EXCEPT !.wired = @ \cup {b}]}
                   \cup IfFails("lock", Refused(x))
        restore(x) ==
            LET counted(r) == [r EXCEPT !.resident = @ \cup {b},
                                        !.bytes = @ + BufferSize[b]]
            IN  {IF r.ok THEN Touch(b, counted(r))
                 ELSE IF b \in r.quarantined THEN counted(r)
                 ELSE [r EXCEPT !.wired = @ \ {b}] :
                    r \in RestoreRenderBufferPpgtt(b, x)}
    IN  IF b \in m.resident THEN {Touch(b, m)}
        ELSE IF b \in m.quarantined \/ b \notin m.mapped THEN Refused(m)
        ELSE Then(Then(EnsureClientResidentBudget(BufferSize[b], m), wire),
                  restore)

\* Mutant: quarantined memory is given back
ReleaseQuarantinedToo(b, m) ==
    Then(UnbindGgtt(b, m), LAMBDA x :
         {[x EXCEPT !.resident = @ \ {b}, !.wired = @ \ {b}]})

\* Memory that is quarantined is never given back, and the device is unsafe
ReleaseRenderBufferBacking(b, m) ==
    LET unwire(x) ==
            IF b \notin x.resident THEN {x}
            ELSE {[x EXCEPT !.resident = @ \ {b}, !.wired = @ \ {b}]}
                 \cup IfFails("unlock", Refused(x))
        delete(x) == {x} \cup IfFails("delete", Refused(x))
        kept(x) == [x EXCEPT !.quarantined = @ \cup {b}, !.unsafe = TRUE]
    IN  IF b \in m.quarantined THEN Refused(kept(m))
        ELSE {IF x.ok THEN x ELSE kept(x) :
                 x \in Then(Then(UnbindGgtt(b, m), unwire), delete)}

\* The structure goes in any case, so its flags do
Forgotten(b, m) ==
    [m EXCEPT !.open = @ \ {b}, !.closing = @ \ {b}, !.mapped = @ \ {b},
              !.bound = @ \ {b}, !.domain = At(@, b, "cpu"), !.refs = At(@, b, 0),
              !.lru = RemoveFirst(m.lru, b)]

ReleaseClientRenderBuffer(b, m) ==
    LET quarantine(x) == [x EXCEPT !.quarantined = @ \cup {b}]
        cleared == IF m.kept THEN Refused(quarantine(m))
                   ELSE {IF x.ok THEN x ELSE quarantine(x) :
                            x \in ClearRenderBufferPpgtt(b, m)}
        backing(x) == {IF r.ok /\ b \in x.resident
                       THEN [r EXCEPT !.bytes = @ - BufferSize[b]] ELSE r :
                          r \in ReleaseRenderBufferBacking(b, x)}
    IN  {Forgotten(b, x) : x \in Always(cleared, backing)}

----------------------------------------------------------------------------
(* Calls on buffers and on the context.                                    *)

RenderResidencyInit ==
    /\ memory = MemoryAtOpen /\ queue = <<>>
    /\ active = NoActive /\ running = NoJob

DeviceFree == running = NoJob
Locals(m) == [m EXCEPT !.ok = TRUE, !.own = FALSE]
Becomes(S) == \E m \in S : memory' = Locals(m)
Alone == UNCHANGED <<queue, active, running>>

CreateRenderBuffer(b) ==
    LET map(m) == IF m.ready THEN MapRenderBufferPpgtt(b, m) ELSE {m}
        release(m) == ReleaseClientRenderBuffer(b, m)
        built(m) == Rescue(Then(AllocateRenderMemory(b, m), map), release)
    IN  /\ DeviceFree /\ Usable(memory)
        /\ b \notin memory.open \cup memory.quarantined
        /\ Becomes(Then(Then(EnsureClientResidentBudget(BufferSize[b], memory),
                             built),
                        LAMBDA m : {[m EXCEPT !.open = @ \cup {b}]}))
        /\ Alone

CloseRenderBuffer(b) ==
    /\ DeviceFree /\ b \in memory.open
    /\ IF memory.refs[b] # 0
       THEN memory' = [memory EXCEPT !.closing = @ \cup {b}]
       ELSE Becomes(ReleaseClientRenderBuffer(b, memory))
    /\ Alone

SetRenderBufferDomain(b) ==
    /\ DeviceFree /\ Usable(memory)
    /\ b \in memory.open \ (memory.quarantined \cup memory.closing)
    /\ memory.domain[b] # "rcs" /\ memory.refs[b] = 0
    /\ \E d \in {"cpu", "bcs"} \ {memory.domain[b]} :
          memory' = [memory EXCEPT !.domain = At(@, b, d)]
    /\ Alone

CreatePpgttContext ==
    /\ DeviceFree /\ Usable(memory) /\ ~memory.ready /\ memory.open = {}
    /\ memory' = [memory EXCEPT !.ready = TRUE] /\ Alone

Idle == queue = <<>> /\ active = NoActive

\* DestroyPpgttContextLocked: every mapping is cleared, then the tables go
Unmapped(m) ==
    LET clear(S, b) ==
            Always(S, LAMBDA x : ClearRenderBufferPpgtt(b, x))
        off == [m EXCEPT !.ready = FALSE]
        all == UNION {FoldLeft(clear, {off}, order) : order \in SetToSeqs(m.open)}
    IN  {IF x.ok THEN x
         ELSE [x EXCEPT !.kept = TRUE, !.unsafe = TRUE] : x \in all}

DestroyPpgttContext ==
    /\ DeviceFree /\ Idle /\ memory.ready /\ ~memory.kept
    /\ Becomes(Unmapped(memory)) /\ Alone

\* A client whose queue is drained; a new one opens the device
DestroyRenderClient ==
    LET release(S, b) ==
            UNION {ReleaseClientRenderBuffer(b, [x EXCEPT !.ok = TRUE]) : x \in S}
        fresh(x) == [MemoryAtOpen EXCEPT
            !.quarantined = x.quarantined, !.wired = x.wired, !.named = x.named,
            !.global = x.global, !.unsafe = x.unsafe, !.faulted = x.faulted]
    IN  /\ DeviceFree /\ Idle /\ memory.open # {}
        /\ \E order \in SetToSeqs(memory.open) :
              \E x \in FoldLeft(release, {memory}, order) : memory' = fresh(x)
        /\ Alone

----------------------------------------------------------------------------
(* Jobs and submissions.                                                   *)

Objects == {<<b>> : b \in Buffer}
           \cup {p \in Buffer \X Buffer : p[1] # p[2]}
RenderJobs == [kind : {"commands"}, objects : Objects]
              \cup [kind : {"present"}, objects : {<<b>> : b \in Buffer}]

Reference(d, objects, m) ==
    [m EXCEPT !.refs = [b \in Buffer |->
                           IF b \in ToSet(objects) THEN @[b] + d ELSE @[b]]]

\* A buffer in use may be queued again behind the job that uses it
Enqueueable(b, m) ==
    /\ b \in m.open \ (m.quarantined \cup m.closing)
    /\ m.domain[b] = "cpu" \/ m.refs[b] # 0

\* A failure drops the references taken so far; a full queue is one
EnqueueRenderCommands(objects) ==
    LET take(S, b) ==
            Then(S, LAMBDA x :
                IF ~Enqueueable(b, x) \/ b \notin x.mapped THEN Refused(x)
                ELSE Then(MakeRenderBufferResident(b, x),
                          LAMBDA r : {Reference(1, <<b>>, r)}))
        result == FoldLeft(take, {memory}, objects)
    IN  \E m \in result :
            LET accepted == m.ok /\ Len(queue) < QueueLimit
            IN  /\ memory' = Locals(IF accepted THEN m
                                    ELSE [m EXCEPT !.refs = memory.refs])
                /\ queue' = IF accepted
                            THEN Append(queue, [kind |-> "commands",
                                                objects |-> objects])
                            ELSE queue
                /\ UNCHANGED <<active, running>>

EnqueueRenderPresent(b) ==
    /\ Usable(memory) /\ Enqueueable(b, memory)
    /\ \E m \in MakeRenderBufferResident(b, memory) :
          LET accepted == m.ok /\ Len(queue) < QueueLimit
          IN  /\ memory' = Locals(IF accepted THEN Reference(1, <<b>>, m) ELSE m)
              /\ queue' = IF accepted
                          THEN Append(queue, [kind |-> "present",
                                              objects |-> <<b>>])
                          ELSE queue
    /\ UNCHANGED <<active, running>>

\* An injected failure, or a superseded presentation, runs nothing
JobTaken ==
    /\ active = NoActive /\ queue # <<>>
    /\ \E stage \in {"submit", "failed", "done"} :
          active' = [stage |-> stage, job |-> Head(queue)]
    /\ queue' = Tail(queue) /\ UNCHANGED <<memory, running>>

SetDomain(d, objects, m) ==
    [m EXCEPT !.domain = [b \in Buffer |-> IF b \in ToSet(objects) THEN d
                                           ELSE @[b]]]

\* SubmitRenderCommands up to the release of renderLock; a failure gives the
\* objects it took back to the processor
PrepareCommands(objects, queued) ==
    LET valid(b, x) ==
            /\ b \in (x.open \cap x.mapped) \ x.quarantined
            /\ b \in x.closing => queued
            /\ x.domain[b] = "cpu"
        take(S, b) ==
            Then(S, LAMBDA x :
                IF ~valid(b, x) THEN Refused(x)
                ELSE Then(MakeRenderBufferResident(b, x),
                          LAMBDA r : {SetDomain("rcs", <<b>>, r)}))
        taken == IF Usable(memory) /\ memory.ready
                 THEN FoldLeft(take, {memory}, objects) ELSE Refused(memory)
    IN  taken \cup UNION {Refused(x) : x \in taken}

\* SubmitRenderDirectPresent up to the release of renderLock
PreparePresent(b, queued) ==
    LET valid == /\ b \in memory.open \ memory.quarantined
                 /\ queued \/ (b \notin memory.closing /\ memory.refs[b] = 0)
                 /\ memory.domain[b] = "cpu"
        bind(x) == IF b \in x.bound THEN {x} ELSE BindGgtt(b, x)
    IN  IF ~valid THEN Refused(memory)
        ELSE Then(Then(MakeRenderBufferResident(b, memory), bind),
                  LAMBDA x : {SetDomain("bcs", <<b>>, x)})

Prepared(job, queued) ==
    IF job.kind = "commands" THEN PrepareCommands(job.objects, queued)
    ELSE PreparePresent(job.objects[1], queued)

\* A submission that failed returns its objects at once
Start(job, queued) ==
    \E m \in Prepared(job, queued) :
        IF m.ok THEN /\ memory' = [m EXCEPT !.ok = TRUE] /\ running' = job
        ELSE /\ memory' = Locals([m EXCEPT !.domain = memory.domain])
             /\ UNCHANGED running

SubmitSynchronously(job) ==
    /\ DeviceFree
    /\ Start(job, FALSE) /\ UNCHANGED <<queue, active>>

WorkerSubmits ==
    /\ DeviceFree /\ active.stage = "submit"
    /\ Start(active.job, TRUE)
    /\ active' = [active EXCEPT !.stage =
                     IF running' = NoJob THEN "failed" ELSE "running"]
    /\ UNCHANGED queue

\* The engine is done.  A fault of the engine keeps everything it may use.
CommandsEnd(objects, m) ==
    IF m.faulted \/ m.unsafe
    THEN [m EXCEPT !.quarantined = @ \cup m.open, !.ready = FALSE,
                   !.kept = TRUE, !.unsafe = TRUE]
    ELSE SetDomain("cpu", objects, m)

PresentEnd(b, m) ==
    IF m.faulted \/ m.unsafe
    THEN {[m EXCEPT !.quarantined = @ \cup {b}]}
    ELSE LET back == SetDomain("cpu", <<b>>, m)
         IN  IF m.own THEN UnbindGgtt(b, back) ELSE {back}

SynchronousEnds ==
    /\ running # NoJob
    /\ \E fault \in {FALSE} \cup {MayFail("gpu")}, fine \in BOOLEAN :
          LET m == [memory EXCEPT !.faulted = @ \/ fault, !.ok = fine]
          IN  \E r \in IF running.kind = "commands"
                       THEN {CommandsEnd(running.objects, m)}
                       ELSE PresentEnd(running.objects[1], m) :
                 /\ memory' = Locals(r)
                 /\ active' = IF active.stage # "running" THEN active
                              ELSE [active EXCEPT !.stage =
                                  IF r.ok /\ ~fault THEN "done" ELSE "failed"]
    /\ running' = NoJob /\ UNCHANGED queue

\* ReleaseRenderQueueReferences: the last one closes what was to be closed
ReleaseRenderQueueReferences(job, m) ==
    LET dropped == Reference(-1, job.objects, m)
        due == {b \in ToSet(job.objects) \cap m.closing : dropped.refs[b] = 0}
        release(S, b) ==
            UNION {ReleaseClientRenderBuffer(b, [x EXCEPT !.ok = TRUE]) : x \in S}
    IN  UNION {FoldLeft(release, {dropped}, order) : order \in SetToSeqs(due)}

\* A job that failed takes the queued ones with it
JobRetires ==
    /\ DeviceFree /\ active.stage \in {"done", "failed", "cancelling"}
    /\ Becomes(ReleaseRenderQueueReferences(active.job, memory))
    /\ LET more == active.stage # "done" /\ queue # <<>>
       IN  /\ active' = IF more THEN [stage |-> "cancelling", job |-> Head(queue)]
                        ELSE NoActive
           /\ queue' = IF more THEN Tail(queue) ELSE queue
    /\ UNCHANGED running

\* RunRenderMemoryTest, under both locks; the copy engine copies one to the other
RunRenderMemoryTest(source, target) ==
    LET two == {source, target}
        bind(b, x) == IF b \in x.bound THEN {x} ELSE BindGgtt(b, x)
        resident == Then(MakeRenderBufferResident(source, memory),
                         LAMBDA x : MakeRenderBufferResident(target, x))
        copied(x) == {x} \cup Refused(x) \cup IfFails("gpu",
            Refused([x EXCEPT !.faulted = TRUE, !.unsafe = TRUE,
                              !.quarantined = @ \cup two,
                              !.domain = SetDomain("bcs", <<source, target>>,
                                                   x).domain]))
        both == Then(Then(resident, LAMBDA x : bind(source, x)),
                     LAMBDA x : bind(target, x))
        unbind(b, x) == IF b \in memory.bound \cup x.quarantined THEN {x}
                        ELSE UnbindGgtt(b, x)
    IN  /\ DeviceFree /\ Usable(memory) /\ source # target
        /\ two \subseteq memory.open \ memory.quarantined
        /\ \A b \in two : memory.domain[b] = "cpu"
        /\ Becomes(Always(Always(Then(both, copied),
                                LAMBDA x : unbind(target, x)),
                         LAMBDA x : unbind(source, x)))
        /\ Alone

RenderResidencyNext ==
    \/ \E b \in Buffer : CreateRenderBuffer(b) \/ CloseRenderBuffer(b)
                         \/ SetRenderBufferDomain(b) \/ EnqueueRenderPresent(b)
    \/ CreatePpgttContext \/ DestroyPpgttContext \/ DestroyRenderClient
    \/ \E objects \in Objects : EnqueueRenderCommands(objects)
    \/ \E job \in RenderJobs : SubmitSynchronously(job)
    \/ JobTaken \/ WorkerSubmits \/ SynchronousEnds \/ JobRetires
    \/ \E p \in Buffer \X Buffer : RunRenderMemoryTest(p[1], p[2])

RenderResidencySpec ==
    RenderResidencyInit /\ [][RenderResidencyNext]_residencyVars

----------------------------------------------------------------------------
\* Every page a page table or a GGTT entry names is wired: nothing the engines
\* may still reach is unwired or freed, whatever failed on the way.
NamedIsWired == memory.named \cup memory.global \subseteq memory.wired

JobsHolding == {queue[i] : i \in DOMAIN queue} \cup {active.job, running}

\* The objects of a job stay usable until it is retired: they exist, their
\* pages are wired and the tables name them, although buffers are closed and
\* evicted and contexts destroyed meanwhile.
QueuedObjectsReady ==
    Usable(memory) =>
        \A job \in JobsHolding : \A b \in ToSet(job.objects) :
            /\ b \in memory.open \cap memory.resident
            /\ job.kind = "commands" => b \in memory.named
            /\ job = running /\ job.kind = "present" => b \in memory.global

SizeOf(S) == MapThenSumSet(LAMBDA b : BufferSize[b], S)

\* The budget counts every wired buffer, the quarantined ones included, and
\* is never exceeded.
WithinBudget ==
    /\ SizeOf(memory.resident \cap memory.open) <= memory.bytes
    /\ memory.bytes <= Budget
=============================================================================

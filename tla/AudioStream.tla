----------------------------- MODULE AudioStream -----------------------------
(***************************************************************************)
(* The playback and capture streams of the MAX98090 card: the mailbox to    *)
(* the DSP, the life of a stream, the buffer exchange and the forced stop.  *)
(*                                                                         *)
(* A call that holds fStreamLock is one sequence of mailbox commands, so    *)
(* one variable, ipc, is the command in progress.  The DSP is external: it  *)
(* takes the command in IPCX, acts on it, and owes a reply it posts in IPCD *)
(* when that register is free.  The host gives up on it after a second.     *)
(***************************************************************************)
EXTENDS Integers, Sequences, FiniteSets

CONSTANTS
    AudioThread,  \* threads with the device open
    RingId,       \* names of DMA rings, reused once nothing refers to them
    DspFault,     \* "late": a reply may come after the host gave up on it,
                  \* "malformed": an event may have an impossible size
    MaxOwed       \* bound: replies the DSP may owe at once

ASSUME AudioAssumption ==
    /\ "none" \notin AudioThread /\ RingId \subseteq Nat \ {0}
    /\ DspFault \subseteq {"late", "malformed"}
    /\ MaxOwed \in Nat \ {0}

VARIABLES
    lpeReady,     \* the firmware runs: Ready()
    audioAt,      \* [AudioThread -> where its call stands]
    audioJob,     \* [AudioThread -> the call it is in]
    streamLock,   \* the holder of fStreamLock, or "none"
    wanted,       \* fExchangeWanted
    openCount,    \* fOpenCount
    stopError,    \* the lock holder's stop met an error
    rings,        \* rings that are allocated
    ring,         \* the ring pair the card knows of, 0 when none
    sized,        \* the periods are set: fPeriodFrames, fPeriodCount
    stream,       \* [Pipe -> fStreamState, fCaptureStreamState]
    hardware,     \* fHardwareConfigured
    route,        \* [Pipe -> fRouteConfigured, fCaptureRouteConfigured]
    routeFault,   \* [Pipe -> fRouteFault, fCaptureRouteFault is set]
    allocFault,   \* [Pipe -> fAllocationFault, fCaptureAllocationFault is set]
    underrun,     \* [Pipe -> fPlaybackFault, fCaptureFault is set]
    elapsed,      \* [Pipe -> a period ended since the last report]
    ipc,          \* the command of the lock holder
    ipcx,         \* host to DSP: NoCommand when not busy
    ipcd,         \* DSP to host: NoMessage when not busy
    owed,         \* replies the DSP has still to post
    dsp           \* [Pipe -> the DSP's stream and the ring it was given]

audioVars == <<lpeReady, audioAt, audioJob, streamLock, wanted, openCount,
               stopError, rings, ring, sized, stream, hardware, route,
               routeFault, allocFault, underrun, elapsed, ipc, ipcx, ipcd, owed, dsp>>

cardVars == <<lpeReady, openCount, rings, ring, sized, hardware, route,
              routeFault, allocFault>>
mailVars == <<ipcx, ipcd, owed, dsp>>

Pipe == {"play", "capture"}
OnPipes(x) == [p \in Pipe |-> x]

NoCall == [kind |-> "none", pipe |-> "play", phase |-> "none",
           result |-> "ok", left |-> <<>>, retry |-> FALSE]
NoCommand == [kind |-> "none", pipe |-> "play", ring |-> 0, msg |-> "cmd",
              silent |-> FALSE]
NoMessage == [kind |-> "none", msg |-> "cmd", result |-> "ok"]

\* The ten commands of a route: some are IPC_CMD, some IPC_IA_SET_PARAMS
Messages(kind) == IF kind = "route" THEN <<"params", "cmd">> ELSE <<"cmd">>

NeedsReply(kind) == kind \notin {"start", "drop"}

AudioInit ==
    /\ lpeReady = TRUE /\ wanted = FALSE /\ openCount = 0
    /\ audioAt = [t \in AudioThread |-> "closed"]
    /\ audioJob = [t \in AudioThread |-> "none"]
    /\ streamLock = "none" /\ stopError = FALSE
    /\ rings = {} /\ ring = 0 /\ sized = FALSE
    /\ stream = OnPipes("Idle") /\ elapsed = OnPipes(FALSE)
    /\ hardware = FALSE /\ route = OnPipes(FALSE)
    /\ routeFault = OnPipes(FALSE) /\ allocFault = OnPipes(FALSE)
    /\ underrun = OnPipes(FALSE)
    /\ ipc = NoCall /\ ipcx = NoCommand /\ ipcd = NoMessage /\ owed = <<>>
    /\ dsp = OnPipes([state |-> "idle", ring |-> 0])

----------------------------------------------------------------------------
(* The mailbox: _IpcSend, _IpcReceive, _IpcWaitForCommandCompletion.        *)

Call(kind, pipe, retry) ==
    ipc' = [kind |-> kind, pipe |-> pipe, phase |-> "ready", result |-> "ok",
            left |-> Messages(kind), retry |-> retry]

Returned(result) == ipc' = [ipc EXCEPT !.phase = "done", !.result = result]

\* _IpcReceive on an asynchronous message: a fault is noted, then acknowledged
TakeAsync ==
    /\ ipcd.kind = "async"
    /\ underrun' = [p \in Pipe |-> underrun[p] \/ ipcd.result = p]
    /\ ipcd' = NoMessage

\* Before the command is posted whatever is in IPCD is unexpected
IpcReady ==
    /\ ipc.phase = "ready"
    /\ \/ /\ ipcd = NoMessage /\ ipcx = NoCommand
          /\ ipcx' = [kind |-> ipc.kind, pipe |-> ipc.pipe, ring |-> ring,
                      msg |-> Head(ipc.left), silent |-> FALSE]
          /\ ipc' = [ipc EXCEPT !.phase = "wait"]
          /\ UNCHANGED <<underrun, ipcd>>
       \/ /\ TakeAsync
          /\ IF ipcd.result = "malformed"
             THEN Returned("error") ELSE UNCHANGED ipc
          /\ UNCHANGED ipcx
       \/ /\ ipcd.kind = "reply"
          /\ ipcd' = NoMessage
          /\ Returned("error")
          /\ UNCHANGED <<underrun, ipcx>>
       \/ /\ ipcx # NoCommand
          /\ Returned("error")
          /\ UNCHANGED <<underrun, ipcx, ipcd>>

\* The reply to the last message of a call ends it
Answered(result) ==
    IF result # "ok" \/ Len(ipc.left) = 1
    THEN Returned(result)
    ELSE ipc' = [ipc EXCEPT !.left = Tail(@), !.phase = "ready"]

IpcMatchesReply == ipcd.kind = "reply" /\ ipcd.msg = Head(ipc.left)

IpcWait ==
    /\ ipc.phase = "wait"
    /\ \/ /\ ~NeedsReply(ipc.kind) /\ ipcx = NoCommand
          /\ Returned("ok")
          /\ UNCHANGED <<underrun, ipcd>>
       \/ /\ NeedsReply(ipc.kind) \/ ipcx # NoCommand
          /\ TakeAsync
          /\ IF ipcd.result = "malformed"
             THEN Returned("error") ELSE UNCHANGED ipc
       \/ /\ NeedsReply(ipc.kind) \/ ipcx # NoCommand
          /\ ipcd.kind = "reply"
          /\ IF NeedsReply(ipc.kind) /\ IpcMatchesReply
             THEN Answered(ipcd.result)
             ELSE Returned("error")
          /\ ipcd' = NoMessage
          /\ UNCHANGED underrun
    /\ UNCHANGED ipcx

\* The deadline passes.  Without late replies the reply never comes.
IpcGiveUp ==
    /\ ipc.phase = "wait"
    /\ Returned("error")
    /\ \/ "late" \in DspFault /\ UNCHANGED <<ipcx, ipcd, owed>>
       \/ /\ "late" \notin DspFault /\ ipcd.kind # "reply"
          /\ ipcx' = IF ipcx = NoCommand THEN ipcx
                     ELSE [ipcx EXCEPT !.silent = TRUE]
          /\ owed' = <<>>
          /\ UNCHANGED ipcd
    /\ UNCHANGED underrun

Ipc ==
    /\ \/ (IpcReady \/ IpcWait) /\ UNCHANGED <<owed, dsp>>
       \/ IpcGiveUp /\ UNCHANGED dsp
    /\ UNCHANGED <<cardVars, audioAt, audioJob, streamLock, wanted, stopError,
                   stream, elapsed>>

----------------------------------------------------------------------------
(* The DSP.                                                                *)

\* What a command does to the stream of its pipe, and the result it reports
DspEffects(c) ==
    LET d == dsp[c.pipe]
        To(s, r) == [state |-> s, ring |-> r]
    IN  CASE c.kind = "alloc" ->
               IF d.state = "idle"
               THEN {<<To("ready", c.ring), "ok">>, <<d, "error">>}
               ELSE {<<d, "inUse">>}
          [] c.kind = "start" ->
               {<<IF d.state = "ready" THEN To("running", d.ring) ELSE d, "ok">>}
          [] c.kind = "drop" ->
               {<<IF d.state = "running" THEN To("ready", d.ring) ELSE d, "ok">>}
          [] c.kind \in {"free", "stale"} ->
               {<<To("idle", 0), "ok">>, <<d, "error">>}
          [] OTHER -> {<<d, "ok">>, <<d, "error">>}

DspAccept ==
    /\ ipcx # NoCommand
    /\ Len(owed) < MaxOwed
    /\ \E e \in DspEffects(ipcx) :
          /\ dsp' = [dsp EXCEPT ![ipcx.pipe] = e[1]]
          /\ owed' = IF NeedsReply(ipcx.kind) /\ ~ipcx.silent
                     THEN Append(owed, [kind |-> "reply", msg |-> ipcx.msg,
                                        result |-> e[2]])
                     ELSE owed
    /\ ipcx' = NoCommand
    /\ UNCHANGED <<ipcd, elapsed>>

DspReply ==
    /\ ipcd = NoMessage /\ owed # <<>>
    /\ ipcd' = Head(owed) /\ owed' = Tail(owed)
    /\ UNCHANGED <<ipcx, dsp, elapsed>>

DspReport ==
    /\ ipcd = NoMessage
    /\ \E p \in Pipe : dsp[p].state = "running"
    /\ \E what \in Pipe \cup (DspFault \cap {"malformed"}) :
          /\ what \in Pipe => dsp[what].state = "running"
          /\ ipcd' = [kind |-> "async", msg |-> "cmd", result |-> what]
    /\ UNCHANGED <<ipcx, owed, dsp, elapsed>>

\* A period is counted when an exchange looks for it
DspPeriod(p) ==
    /\ dsp[p].state = "running" /\ ~elapsed[p]
    /\ \E t \in AudioThread : audioAt[t] = "poll"
    /\ elapsed' = [elapsed EXCEPT ![p] = TRUE]
    /\ UNCHANGED mailVars

Dsp ==
    /\ DspAccept \/ DspReply \/ DspReport \/ \E p \in Pipe : DspPeriod(p)
    /\ UNCHANGED <<cardVars, audioAt, audioJob, streamLock, wanted, stopError,
                   stream, underrun, ipc>>

----------------------------------------------------------------------------
(* Calls.                                                                  *)

Goto(t, l) == audioAt' = [audioAt EXCEPT ![t] = l] /\ UNCHANGED audioJob
Begin(t, job, l) ==
    /\ audioJob' = [audioJob EXCEPT ![t] = job]
    /\ audioAt' = [audioAt EXCEPT ![t] = l]
Return(t, l) == Begin(t, "none", l)
Stay == UNCHANGED <<audioAt, audioJob>>
Release == streamLock' = "none"

AudioOpen(t) ==
    /\ audioAt[t] = "closed" /\ lpeReady
    /\ openCount' = openCount + 1
    /\ Return(t, "open")
    /\ UNCHANGED <<lpeReady, wanted>>

\* Only the last close stops the streams
AudioClose(t) ==
    /\ audioAt[t] = "open"
    /\ openCount' = openCount - 1
    /\ wanted' = (wanted /\ openCount # 1)
    /\ IF openCount = 1 THEN Begin(t, "close", "lock") ELSE Return(t, "closed")
    /\ UNCHANGED lpeReady

\* B_MULTI_BUFFER_FORCE_STOP and B_MULTI_GET_BUFFERS, which stops first
BeginStop(t) ==
    /\ audioAt[t] = "open" /\ lpeReady
    /\ wanted' = FALSE
    /\ \E job \in {"force", "buffers"} : Begin(t, job, "lock")
    /\ UNCHANGED <<lpeReady, openCount>>

BeginExchange(t) ==
    /\ audioAt[t] = "open" /\ lpeReady
    /\ Begin(t, "exchange", "lock")
    /\ UNCHANGED <<lpeReady, wanted, openCount>>

\* DetachLpe: the driver is unloaded only when nobody has the device open
BeginDetach(t) ==
    /\ lpeReady /\ \A u \in AudioThread : audioAt[u] = "closed"
    /\ lpeReady' = FALSE /\ wanted' = FALSE
    /\ Begin(t, "detach", "lock")
    /\ UNCHANGED openCount

BeginCall(t) ==
    /\ \/ AudioOpen(t) \/ AudioClose(t) \/ BeginStop(t) \/ BeginExchange(t)
       \/ BeginDetach(t)
    /\ UNCHANGED <<streamLock, stopError, rings, ring, sized, stream, hardware, route,
                   routeFault, allocFault, underrun, elapsed, ipc, mailVars>>

\* _LoadAndStartFirmware: the DSP is reset before the image is validated
AttachLpe(t) ==
    /\ audioAt[t] = "closed" /\ ~lpeReady
    /\ \A u \in AudioThread : audioAt[u] = "closed"
    /\ ipcx' = NoCommand /\ ipcd' = NoMessage /\ owed' = <<>>
    /\ dsp' = OnPipes([state |-> "idle", ring |-> 0])
    /\ lpeReady' \in BOOLEAN
    /\ IF lpeReady'
       THEN /\ hardware' = FALSE /\ route' = OnPipes(FALSE)
            /\ routeFault' = OnPipes(FALSE) /\ allocFault' = OnPipes(FALSE)
       ELSE UNCHANGED <<hardware, route, routeFault, allocFault>>
    /\ UNCHANGED <<audioAt, audioJob, streamLock, wanted, openCount, stopError,
                   rings, ring, sized, stream, underrun, elapsed, ipc>>

\* The goto fail of _BufferExchange: free capture, then playback
Fail(t) == wanted' = FALSE /\ Goto(t, "stopCapture")

LockStreams(t) ==
    /\ audioAt[t] = "lock" /\ streamLock = "none"
    /\ stopError' = FALSE
    /\ IF audioJob[t] # "exchange"
       THEN streamLock' = t /\ Goto(t, "stopCapture") /\ UNCHANGED wanted
       ELSE IF ring = 0 \/ ~sized
       THEN Return(t, "open") /\ UNCHANGED <<wanted, streamLock>>
       ELSE /\ streamLock' = t
            /\ IF \E p \in Pipe : routeFault[p]
               THEN Fail(t)
               ELSE wanted' = TRUE /\ Goto(t, "setup")
    /\ UNCHANGED <<cardVars, stream, underrun, elapsed, ipc, mailVars>>

\* What _BufferExchange does before it polls: the first that applies is next
SetupPlan == <<
    <<stream["play"] = "Stopping", "free", "play">>,
    <<stream["capture"] = "Stopping", "free", "capture">>,
    <<~hardware, "hardware", "play">>,
    <<stream["play"] = "Idle", "alloc", "play">>,
    <<stream["capture"] = "Idle", "alloc", "capture">>,
    <<~route["play"], "route", "play">>,
    <<~route["capture"], "route", "capture">>,
    <<stream["play"] = "Allocated", "start", "play">>,
    <<stream["capture"] = "Allocated", "start", "capture">> >>

SetupStep(t) ==
    LET due == {i \in DOMAIN SetupPlan : SetupPlan[i][1]}
        step == SetupPlan[CHOOSE i \in due : \A j \in due : i <= j]
    IN  /\ audioAt[t] = "setup" /\ ipc = NoCall
        /\ IF due = {}
           THEN Goto(t, "poll") /\ UNCHANGED <<wanted, ipc>>
           ELSE IF step[2] = "alloc" /\ allocFault[step[3]]
           THEN Fail(t) /\ UNCHANGED ipc
           ELSE Call(step[2], step[3], FALSE) /\ Stay /\ UNCHANGED <<wanted>>
        /\ UNCHANGED <<cardVars, streamLock, stopError, stream,
                       underrun, elapsed, mailVars>>

On(f, p, x) == [f EXCEPT ![p] = x]

\* Mutant: a stream that was allocated counts as started
StreamStarted(p) ==
    CASE ipc.kind = "free" -> "Idle" [] ipc.kind \in {"alloc", "start"} -> "Running"
      [] OTHER -> stream[p]
StreamAfter(p) ==
    CASE ipc.kind = "free" -> "Idle"
      [] ipc.kind = "alloc" -> "Allocated"
      [] ipc.kind = "start" -> "Running"
      [] OTHER -> stream[p]

SetupOk(p) ==
    /\ stream' = On(stream, p, StreamAfter(p))
    /\ hardware' = (hardware \/ ipc.kind = "hardware")
    /\ route' = On(route, p, route[p] \/ ipc.kind = "route")
    /\ underrun' = On(underrun, p, underrun[p] /\ ipc.kind # "alloc")
    /\ elapsed' = On(elapsed, p, elapsed[p] /\ ipc.kind # "alloc")
    /\ ipc' = NoCall
    /\ UNCHANGED <<routeFault, allocFault>>

\* A stream the DSP still holds is freed and allocated once more
Recovers == ipc.kind = "alloc" /\ ipc.result = "inUse" /\ ~ipc.retry

SetupFails(t, p) ==
    /\ routeFault' = On(routeFault, p,
                        routeFault[p] \/ ipc.kind \in {"hardware", "route"})
    /\ allocFault' = On(allocFault, p,
                        allocFault[p] \/ ipc.kind \in {"alloc", "stale"})
    /\ ipc' = NoCall
    /\ IF ipc.kind = "start" /\ p = "play"
       THEN Goto(t, "unstart") /\ UNCHANGED wanted ELSE Fail(t)
    /\ UNCHANGED <<stream, hardware, route, underrun, elapsed>>

\* Only an allocation reads the body of its reply
Accepted == ipc.result = "ok" \/ (ipc.result = "inUse" /\ ipc.kind # "alloc")

SetupReturned(t) ==
    LET p == ipc.pipe
    IN  /\ audioAt[t] = "setup" /\ ipc.phase = "done"
        /\ IF Recovers
           THEN /\ Call("stale", p, FALSE)
                /\ Stay /\ UNCHANGED <<wanted, stream, hardware, route,
                               routeFault, allocFault, underrun, elapsed>>
           ELSE IF ipc.kind = "stale" /\ Accepted
           THEN /\ Call("alloc", p, TRUE)
                /\ Stay /\ UNCHANGED <<wanted, stream, hardware, route,
                               routeFault, allocFault, underrun, elapsed>>
           ELSE IF Accepted
           THEN SetupOk(p) /\ Stay /\ UNCHANGED <<wanted>>
           ELSE SetupFails(t, p)
        /\ UNCHANGED <<lpeReady, streamLock, openCount, stopError,
                       rings, ring, sized, mailVars>>

\* The loop of _BufferExchange: an answer in IPCD is unexpected there too
ExchangePoll(t) ==
    /\ audioAt[t] = "poll"
    /\ \/ /\ ~wanted
          /\ Release /\ Return(t, "open")
          /\ elapsed' = OnPipes(FALSE) /\ UNCHANGED <<wanted, underrun, ipcd>>
       \/ /\ wanted /\ TakeAsync
          /\ IF ipcd.result = "malformed"
             THEN Fail(t) /\ elapsed' = OnPipes(FALSE)
             ELSE Stay /\ UNCHANGED <<wanted, elapsed>>
          /\ UNCHANGED streamLock
       \/ /\ wanted /\ ipcd.kind = "reply"
          /\ ipcd' = NoMessage /\ Fail(t)
          /\ elapsed' = OnPipes(FALSE) /\ UNCHANGED <<streamLock, underrun>>
       \/ /\ wanted /\ \A p \in Pipe : elapsed[p] /\ ~underrun[p]
          /\ elapsed' = OnPipes(FALSE)
          /\ Release /\ Return(t, "open")
          /\ UNCHANGED <<wanted, underrun, ipcd>>
       \/ \* a fault, a counter that goes back, the deadline
          /\ Fail(t)
          /\ elapsed' = OnPipes(FALSE)
          /\ UNCHANGED <<streamLock, underrun, ipcd>>
    /\ UNCHANGED <<cardVars, stopError, stream, ipc, ipcx, owed, dsp>>

----------------------------------------------------------------------------
(* Stopping.                                                               *)

StopLabels == {"unstart", "stopCapture", "stopPlay"}
StopPipe(l) == IF l = "stopCapture" THEN "capture" ELSE "play"
AfterStop(l) == CASE l = "unstart" -> "stopCapture"
                  [] l = "stopCapture" -> "stopPlay"
                  [] l = "stopPlay" -> "finish"

StopNext(t) ==
    LET l == audioAt[t]
    IN  /\ Goto(t, AfterStop(l))
        /\ wanted' = (wanted /\ l # "unstart")

\* _StopStream: a stream that is already stopping is only freed again
StopStream(t) ==
    LET p == StopPipe(audioAt[t])
    IN  /\ audioAt[t] \in StopLabels /\ ipc = NoCall
        /\ IF stream[p] = "Idle"
           THEN StopNext(t) /\ UNCHANGED <<stream, ipc>>
           ELSE /\ stream' = On(stream, p, "Stopping")
                /\ Call(IF stream[p] = "Stopping" THEN "free" ELSE "drop", p,
                        FALSE)
                /\ Stay /\ UNCHANGED <<wanted>>
        /\ UNCHANGED <<cardVars, streamLock, stopError, underrun,
                       elapsed, mailVars>>

\* A failed drop is reported, but the stream is freed all the same
StopReturned(t) ==
    /\ audioAt[t] \in StopLabels /\ ipc.phase = "done"
    /\ stopError' = (stopError \/ ~Accepted)
    /\ IF ipc.kind = "drop"
       THEN Call("free", ipc.pipe, FALSE) /\ Stay /\ UNCHANGED <<wanted, stream>>
       ELSE /\ stream' = IF Accepted THEN On(stream, ipc.pipe, "Idle") ELSE stream
            /\ ipc' = NoCall
            /\ StopNext(t)
    /\ UNCHANGED <<cardVars, streamLock, underrun, elapsed, mailVars>>

BothIdle == \A p \in Pipe : stream[p] = "Idle"

\* Where a call goes once its stop is over
AfterJob(t) ==
    CASE audioJob[t] = "buffers" -> IF stopError THEN "open" ELSE "make"
      [] audioJob[t] = "close" -> "closed"
      [] audioJob[t] = "detach" -> "unmap"
      [] OTHER -> "open"

\* The end of _ForceStop deletes the rings; that of an exchange does not
Finish(t) ==
    /\ audioAt[t] = "finish"
    /\ IF audioJob[t] # "exchange" /\ BothIdle
       THEN /\ rings' = rings \ {ring}
            /\ ring' = 0 /\ sized' = FALSE /\ underrun' = OnPipes(FALSE)
       ELSE UNCHANGED <<rings, ring, sized, underrun>>
    /\ Release /\ stopError' = FALSE
    /\ IF AfterJob(t) \in {"open", "closed"}
       THEN Return(t, AfterJob(t)) ELSE Goto(t, AfterJob(t))
    /\ UNCHANGED <<lpeReady, wanted, openCount, stream,
                   hardware, route, routeFault, allocFault, elapsed, ipc,
                   mailVars>>

\* The rest of _GetBuffers: the lock was released after the stop
MakeRings(t) ==
    LET unused == RingId \ (rings \cup {dsp[p].ring : p \in Pipe}
                              \cup {ipcx.ring})
    IN  /\ audioAt[t] = "make" /\ streamLock = "none"
        /\ Return(t, "open")
        /\ \/ \* an invalid user address, found before a ring is created
              sized' = FALSE /\ UNCHANGED <<rings, ring, allocFault>>
           \/ \* no memory, or an invalid address found afterwards
              ring' = 0 /\ sized' = FALSE /\ UNCHANGED <<rings, allocFault>>
           \/ /\ unused # {}
              /\ ring' = CHOOSE r \in unused : \A s \in unused : r <= s
              /\ rings' = rings \cup {ring'} /\ sized' = TRUE
              /\ allocFault' = OnPipes(FALSE)
        /\ UNCHANGED <<lpeReady, elapsed, streamLock, wanted, openCount,
                       stopError, stream, hardware, route, routeFault,
                       underrun, ipc, mailVars>>

\* _UnmapLpe, which forgets the streams even when they could not be stopped
UnmapLpe(t) ==
    /\ audioAt[t] = "unmap"
    /\ Return(t, "closed")
    /\ stream' = OnPipes("Idle") /\ route' = OnPipes(FALSE)
    /\ allocFault' = OnPipes(FALSE) /\ underrun' = OnPipes(FALSE)
    /\ UNCHANGED <<lpeReady, streamLock, wanted, openCount, stopError,
                   rings, ring, sized, hardware, routeFault, elapsed, ipc, mailVars>>

----------------------------------------------------------------------------
AudioCall(t) ==
    \/ LockStreams(t) \/ SetupStep(t) \/ SetupReturned(t) \/ ExchangePoll(t)
    \/ StopStream(t) \/ StopReturned(t) \/ Finish(t) \/ MakeRings(t)
    \/ UnmapLpe(t)

AudioNext ==
    \/ Ipc \/ Dsp
    \/ \E t \in AudioThread : BeginCall(t) \/ AttachLpe(t) \/ AudioCall(t)

AudioSpec == AudioInit /\ [][AudioNext]_audioVars

----------------------------------------------------------------------------
AudioTypeOK ==
    /\ lpeReady \in BOOLEAN /\ wanted \in BOOLEAN /\ stopError \in BOOLEAN
    /\ openCount \in 0..Cardinality(AudioThread)
    /\ streamLock \in AudioThread \cup {"none"}
    /\ rings \subseteq RingId /\ ring \in RingId \cup {0}
    /\ stream \in [Pipe -> {"Idle", "Allocated", "Running", "Stopping"}]
    /\ Len(owed) <= MaxOwed
    /\ ipcx.kind = "none" \/ ipcx.pipe \in Pipe

\* The card and the DSP agree on what moves: a stream the card calls running
\* runs on the DSP, and the DSP moves samples only through a ring that is
\* still allocated.  No stop, failed exchange, refused command or lost answer
\* frees a ring under a running stream; _ForceStop deletes the rings.
AudioStreamsAgree ==
    \A p \in Pipe :
        /\ stream[p] = "Running" => dsp[p].state = "running"
        /\ dsp[p].state = "running" => dsp[p].ring \in rings

\* "Stopping streams releases their DMA rings and DSP allocations": a stop
\* that reports no error leaves no ring and no stream on the DSP.
\* The code does not keep it (README, Remarks).
StopReleasesAll ==
    [][\A t \in AudioThread :
          audioAt[t] = "finish" /\ audioJob[t] = "force" /\ BothIdle
                /\ ~stopError /\ audioAt'[t] # "finish"
          => rings' = {} /\ \A p \in Pipe : dsp[p].state = "idle"]_audioVars

=============================================================================

----------------------------- MODULE Audio_proofs -----------------------------
(***************************************************************************)
(* Proofs about the audio device. The streams, for any number of threads that *)
(* have the device open, any names of rings and any number of replies the DSP  *)
(* may owe: with a DSP that answers in time or not at all and sends no event   *)
(* of an impossible size, the card and the DSP agree on what moves. The codec,  *)
(* for any gains, any number of calls of the mixer, any bounds on what fails,   *)
(* moves and is attached, and with or without a tuning of the speakers: the    *)
(* registers, the mixer and the jack agree.                                  *)
(***************************************************************************)
EXTENDS AudioStream, AudioCodec, WellFoundedInduction, TLAPS

Kind == {"hardware", "alloc", "route", "start", "free", "stale", "drop"}
Result == {"ok", "error", "inUse"}
Left == {<<>>, <<"cmd">>, <<"params", "cmd">>}
Message == {"cmd", "params"}
Reply == [kind : {"reply"}, msg : Message, result : Result]
Event == [kind : {"none", "async"}, msg : Message, result : Result \cup Pipe]
Holding == {"setup", "poll", "finish"} \cup StopLabels
Place == {"closed", "open", "lock", "make", "unmap"} \cup Holding
Job == {"none", "close", "force", "buffers", "exchange", "detach"}
StreamState == {"Idle", "Allocated", "Running", "Stopping"}
DspState == [state : {"idle", "ready", "running"}, ring : RingId \cup {0}]
Command == [kind : Kind \cup {"none"}, pipe : Pipe, ring : RingId \cup {0},
            msg : Message, silent : BOOLEAN]
Progress == [kind : Kind \cup {"none"}, pipe : Pipe,
             phase : {"none", "ready", "wait", "done"},
             result : Result, left : Left, retry : BOOLEAN]

\* What the variables hold; the DSP owes at most the one reply of the command
\* in progress
CallTypes ==
    /\ lpeReady \in BOOLEAN
    /\ audioAt \in [AudioThread -> Place]
    /\ audioJob \in [AudioThread -> Job]
    /\ streamLock \in AudioThread \cup {"none"}
    /\ ring \in RingId \cup {0}
    /\ stream \in [Pipe -> StreamState]
MailTypes ==
    /\ dsp \in [Pipe -> DspState]
    /\ ipc \in Progress
    /\ ipcx \in Command
    /\ ipcd \in Event \cup Reply
    /\ owed = <<>> \/ \E r \in Reply : owed = <<r>>
StreamTypes == CallTypes /\ MailTypes

\* What a result of the command in progress says of the DSP
Truly(result) ==
    LET d == dsp[ipc.pipe]
    IN  /\ result = "inUse" => ipc.kind = "alloc"
        /\ result = "ok" =>
              /\ ipc.kind = "alloc" => d.state = "ready" /\ d.ring = ring
              /\ ipc.kind \in {"free", "stale"} => d.state = "idle"
              /\ ipc.kind = "start" => d.state = "running"

Answering == ipc.phase = "wait" /\ ipcx = NoCommand /\ NeedsReply(ipc.kind)

\* The mailbox holds one command and at most its reply; a command that nobody
\* waits for is one that was given up on, and while the DSP has not taken it no
\* other command succeeds
Progressing ==
    /\ ipc.phase \in {"ready", "wait"} => ipc.left # <<>>
    /\ ipc.phase # "none" => ipc.kind \in Kind
    /\ ipc.phase = "none" => ipc = NoCall
    /\ ipcx = NoCommand \/ ipcx.kind \in Kind
Posted ==
    /\ ipcx # NoCommand => owed = <<>> /\ ipcd.kind # "reply"
    /\ ipcx # NoCommand /\ ipc.phase # "wait" => ipcx.silent = TRUE
    /\ ipcx # NoCommand /\ ipc.phase = "wait" =>
          /\ ipcx.kind = ipc.kind /\ ipcx.pipe = ipc.pipe /\ ipcx.ring = ring
          /\ ipcx.silent = FALSE
Replied ==
    /\ owed # <<>> => Answering /\ ipcd.kind # "reply" /\ Truly(Head(owed).result)
    /\ ipcd.kind = "reply" => Answering /\ Truly(ipcd.result)
    /\ ipc.phase = "wait" /\ ipc.kind = "start" /\ ipcx = NoCommand =>
          dsp[ipc.pipe].state = "running"
    /\ ipc.phase = "done" => Truly(ipc.result)
    /\ ipc.phase = "done" /\ ipc.result # "error" => ipcx = NoCommand
MailInv == Progressing /\ Posted /\ Replied

\* One thread at a time holds fStreamLock and has a command in progress; the
\* thread that detaches is alone
Locked ==
    /\ \A t \in AudioThread : audioAt[t] \in Holding <=> streamLock = t
    /\ streamLock = "none" => ipc.phase = "none"
    /\ \A t \in AudioThread :
          /\ audioAt[t] \in {"poll", "finish"} => ipc.phase = "none"
          /\ audioAt[t] = "setup" => ring # 0 /\ ipc.kind # "drop"
          /\ audioAt[t] \in StopLabels /\ ipc.phase # "none" => ipc.kind \in {"drop", "free"}
Jobs ==
    \A t \in AudioThread :
       /\ audioAt[t] \in {"setup", "poll"} => audioJob[t] = "exchange"
       /\ audioAt[t] = "unmap" => audioJob[t] = "detach"
       /\ audioJob[t] = "detach" =>
             /\ lpeReady = FALSE
             /\ audioAt[t] \in {"lock", "finish", "unmap"} \cup StopLabels
             /\ \A u \in AudioThread \ {t} : audioAt[u] = "closed"
       /\ lpeReady = FALSE => audioAt[t] = "closed" \/ audioJob[t] = "detach"
PlaceInv == Locked /\ Jobs

\* Nobody has the device open and the firmware does not run: the state that
\* _UnmapLpe leaves, in which a stream of the DSP may be left running
Detached == lpeReady = FALSE /\ \A t \in AudioThread : audioAt[t] = "closed"

\* The card's state of a stream, its command in progress and the DSP's stream
InProgress ==
    ipc.phase # "none" =>
       /\ ipc.kind \in {"alloc", "stale"} => stream[ipc.pipe] = "Idle"
       /\ ipc.kind = "start" => stream[ipc.pipe] = "Allocated"
       /\ ipc.kind \in {"drop", "free"} => stream[ipc.pipe] = "Stopping"
InMailbox ==
    LET p == ipcx.pipe
    IN  /\ ipcx.kind = "alloc" => stream[p] = "Idle"
        /\ ipcx.kind \in {"free", "stale", "drop"} => stream[p] \in {"Idle", "Stopping"}
        /\ ipcx.kind = "start" =>
              /\ stream[p] \in {"Allocated", "Stopping"} \/ Detached
              /\ dsp[p].state = "ready" => dsp[p].ring \in rings
Backed(p) ==
    /\ stream[p] = "Allocated" => dsp[p].state \in {"ready", "running"}
    /\ stream[p] = "Running" => dsp[p].state = "running"
    /\ dsp[p].state = "running" => dsp[p].ring \in rings
    /\ dsp[p].state = "ready" /\ stream[p] # "Idle" => dsp[p].ring \in rings
    /\ dsp[p].state = "running" => stream[p] # "Idle" \/ Detached
    /\ Detached => stream[p] = "Idle"
RingKept == ring # 0 => ring \in rings
StreamInv == InProgress /\ InMailbox /\ (\A p \in Pipe : Backed(p)) /\ RingKept

AudioInv == StreamTypes /\ MailInv /\ PlaceInv /\ StreamInv

----------------------------------------------------------------------------
\* The DSP's answer to a command, kind by kind
LEMMA DspEffect ==
    ASSUME MailTypes, ipcx.kind \in Kind, NEW e \in DspEffects(ipcx)
    PROVE  LET d == dsp[ipcx.pipe] IN
           /\ e[1] \in DspState /\ e[2] \in Result
           /\ e[2] = "inUse" => ipcx.kind = "alloc"
           /\ ipcx.kind = "alloc" =>
                 /\ e[1] = d \/ (d.state = "idle" /\ e[1].state = "ready" /\ e[1].ring = ipcx.ring)
                 /\ e[2] = "ok" => e[1].state = "ready" /\ e[1].ring = ipcx.ring
           /\ ipcx.kind = "start" =>
                 IF d.state = "ready" THEN e[1].state = "running" /\ e[1].ring = d.ring ELSE e[1] = d
           /\ ipcx.kind = "drop" =>
                 IF d.state = "running" THEN e[1].state = "ready" /\ e[1].ring = d.ring ELSE e[1] = d
           /\ ipcx.kind \in {"free", "stale"} =>
                 /\ e[1] = d \/ e[1].state = "idle"
                 /\ e[2] = "ok" => e[1].state = "idle"
           /\ ipcx.kind \in {"hardware", "route"} => e[1] = d
<1> USE DEF MailTypes, DspState, Command, Result
<1> DEFINE d == dsp[ipcx.pipe]
<1>1. d \in DspState /\ ipcx.pipe \in Pipe /\ ipcx.ring \in RingId \cup {0}
  OBVIOUS
<1>2. CASE ipcx.kind = "alloc"
  <2>1. e \in IF d.state = "idle"
              THEN {<<[state |-> "ready", ring |-> ipcx.ring], "ok">>, <<d, "error">>}
              ELSE {<<d, "inUse">>}
    BY <1>2 DEF DspEffects
  <2> QED  BY <2>1, <1>1, <1>2
<1>3. CASE ipcx.kind = "start"
  <2>1. e = <<IF d.state = "ready" THEN [state |-> "running", ring |-> d.ring] ELSE d, "ok">>
    BY <1>3 DEF DspEffects
  <2> QED  BY <2>1, <1>1, <1>3
<1>4. CASE ipcx.kind = "drop"
  <2>1. e = <<IF d.state = "running" THEN [state |-> "ready", ring |-> d.ring] ELSE d, "ok">>
    BY <1>4 DEF DspEffects
  <2> QED  BY <2>1, <1>1, <1>4
<1>5. CASE ipcx.kind \in {"free", "stale"}
  <2>1. e \in {<<[state |-> "idle", ring |-> 0], "ok">>, <<d, "error">>}
    BY <1>5 DEF DspEffects
  <2> QED  BY <2>1, <1>1, <1>5
<1>6. CASE ipcx.kind \in {"hardware", "route"}
  <2>1. e \in {<<d, "ok">>, <<d, "error">>}
    BY <1>6 DEF DspEffects
  <2> QED  BY <2>1, <1>1, <1>6
<1> QED  BY <1>2, <1>3, <1>4, <1>5, <1>6 DEF Kind
----------------------------------------------------------------------------
(* Typing.                                                                 *)

LEMMA MessagesLeft == \A kind \in Kind : Messages(kind) \in Left /\ Messages(kind) # <<>>
BY DEF Messages, Left, Kind

\* A new command has its messages still to send
LEMMA CallTyped ==
    ASSUME NEW kind \in Kind, NEW pipe \in Pipe, NEW retry \in BOOLEAN, Call(kind, pipe, retry)
    PROVE  /\ ipc' \in Progress
           /\ ipc'.phase = "ready" /\ ipc'.kind = kind /\ ipc'.pipe = pipe /\ ipc'.left # <<>>
BY MessagesLeft DEF Call, Progress, Result, Left

LEMMA ReturnedTyped ==
    ASSUME ipc \in Progress, NEW result \in Result, Returned(result)
    PROVE  /\ ipc' \in Progress
           /\ ipc'.phase = "done" /\ ipc'.result = result
           /\ ipc'.kind = ipc.kind /\ ipc'.pipe = ipc.pipe
BY DEF Returned, Progress

LEMMA NothingTyped ==
    /\ NoCall \in Progress /\ NoCall.phase = "none" /\ NoCall.kind = "none"
    /\ NoCommand \in Command /\ NoCommand.kind = "none" /\ NoCommand.kind \notin Kind
    /\ NoMessage \in Event /\ NoMessage.kind = "none"
BY DEF NoCall, NoCommand, NoMessage, Progress, Command, Event, Kind, Pipe, Message, Result, Left

LEMMA InitTyped == ASSUME AudioInit PROVE StreamTypes
<1>1. CallTypes
  BY DEF AudioInit, CallTypes, Place, Job, OnPipes, StreamState
<1>2. [state |-> "idle", ring |-> 0] \in DspState
  BY DEF DspState
<1>3. MailTypes
  BY <1>2, NothingTyped DEF AudioInit, MailTypes, OnPipes
<1> QED  BY <1>1, <1>3 DEF StreamTypes
----------------------------------------------------------------------------
(* The host's side of the mailbox.                                         *)

\* What a step of the host's side may do: the command stays in progress
HostStep ==
    /\ UNCHANGED <<cardVars, audioAt, audioJob, streamLock, stream, dsp>>
    /\ ipc.phase \in {"ready", "wait"} /\ ipc'.phase \in {"ready", "wait", "done"}
    /\ ipc'.kind = ipc.kind /\ ipc'.pipe = ipc.pipe
    /\ \/ ipcx' = ipcx
       \/ ipcx'.kind = ipcx.kind /\ ipcx'.pipe = ipcx.pipe
       \/ ipcx'.kind = ipc.kind /\ ipcx'.pipe = ipc.pipe

LEMMA AsyncTaken ==
    ASSUME StreamTypes, TakeAsync
    PROVE  ipcd.kind = "async" /\ ipcd.result # "malformed" /\ ipcd' = NoMessage
BY DEF TakeAsync, StreamTypes, MailTypes, Event, Reply, Result, Pipe

LEMMA PostStep ==
    ASSUME StreamTypes, MailInv, IpcReady, UNCHANGED <<owed, dsp, cardVars, audioAt,
               audioJob, streamLock, stream>>
    PROVE  HostStep /\ StreamTypes' /\ MailInv'
<1>0. ipc \in Progress /\ ipcx \in Command /\ ipcd \in Event \cup Reply /\ ring \in RingId \cup {0}
  BY DEF StreamTypes, MailTypes, CallTypes
<1>1. ipc.phase = "ready" /\ ipc.kind \in Kind /\ ipc.left # <<>> /\ ring' = ring
  BY DEF IpcReady, MailInv, Progressing, cardVars
<1>2. owed = <<>> /\ ipcd.kind # "reply"
  BY <1>1 DEF MailInv, Replied, Answering
<1>3. Head(ipc.left) \in Message
  BY <1>0, <1>1 DEF Progress, Left, Message
<1>4. CASE ipcd = NoMessage /\ ipcx = NoCommand /\ ipcd' = ipcd
           /\ ipcx' = [kind |-> ipc.kind, pipe |-> ipc.pipe, ring |-> ring,
                       msg |-> Head(ipc.left), silent |-> FALSE]
           /\ ipc' = [ipc EXCEPT !.phase = "wait"]
  <2>1. /\ ipc' \in Progress /\ ipc'.phase = "wait" /\ ipc'.kind = ipc.kind
        /\ ipc'.pipe = ipc.pipe /\ ipc'.left = ipc.left
    BY <1>0, <1>4 DEF Progress
  <2>2. /\ ipcx' \in Command /\ ipcx'.kind = ipc.kind /\ ipcx'.pipe = ipc.pipe
        /\ ipcx'.ring = ring /\ ipcx'.silent = FALSE
    BY <1>0, <1>1, <1>3, <1>4 DEF Progress, Command
  <2>3. HostStep
    BY <1>1, <2>1, <2>2 DEF HostStep
  <2>4. StreamTypes'
    BY <1>4, <2>1, <2>2 DEF StreamTypes, CallTypes, MailTypes, cardVars
  <2>5. ipcx' # NoCommand
    BY <2>2, <1>1, NothingTyped
  <2>6. MailInv'
    BY <1>1, <1>2, <1>4, <2>1, <2>2, <2>5 DEF MailInv, Progressing, Posted, Replied, Answering
  <2> QED  BY <2>3, <2>4, <2>6
<1>5. CASE TakeAsync /\ UNCHANGED <<ipc, ipcx>>
  <2>1. ipcd' = NoMessage /\ ipcd'.kind # "reply"
    BY <1>5, NothingTyped DEF TakeAsync
  <2>2. HostStep
    BY <1>1, <1>5 DEF HostStep
  <2>3. StreamTypes'
    BY <1>5, <2>1, NothingTyped DEF StreamTypes, CallTypes, MailTypes, cardVars
  <2>4. MailInv'
    BY <1>1, <1>2, <1>5, <2>1 DEF MailInv, Progressing, Posted, Replied, Answering, Truly
  <2> QED  BY <2>2, <2>3, <2>4
<1>6. CASE ipcx # NoCommand /\ Returned("error") /\ UNCHANGED <<ipcx, ipcd>>
  <2>1. /\ ipc' \in Progress /\ ipc'.phase = "done" /\ ipc'.result = "error"
        /\ ipc'.kind = ipc.kind /\ ipc'.pipe = ipc.pipe
    BY <1>0, <1>6, ReturnedTyped DEF Result
  <2>2. HostStep
    BY <1>1, <1>6, <2>1 DEF HostStep
  <2>3. StreamTypes'
    BY <1>6, <2>1 DEF StreamTypes, CallTypes, MailTypes, cardVars
  <2>4. MailInv'
    BY <1>1, <1>2, <1>6, <2>1 DEF MailInv, Progressing, Posted, Replied, Answering, Truly
  <2> QED  BY <2>2, <2>3, <2>4
<1> QED  BY <1>2, <1>4, <1>5, <1>6, AsyncTaken DEF IpcReady

LEMMA WaitStep ==
    ASSUME StreamTypes, MailInv, IpcWait, UNCHANGED <<owed, dsp, cardVars, audioAt,
               audioJob, streamLock, stream>>
    PROVE  HostStep /\ StreamTypes' /\ MailInv'
<1>0. ipc \in Progress /\ ipcx \in Command /\ ipcd \in Event \cup Reply
  BY DEF StreamTypes, MailTypes
<1>1. ipc.phase = "wait" /\ ipc.kind \in Kind /\ ipc.left # <<>> /\ ring' = ring /\ ipcx' = ipcx
  BY DEF IpcWait, MailInv, Progressing, cardVars
<1>4. CASE ~NeedsReply(ipc.kind) /\ ipcx = NoCommand /\ Returned("ok") /\ ipcd' = ipcd
  <2>1. /\ ipc' \in Progress /\ ipc'.phase = "done" /\ ipc'.result = "ok"
        /\ ipc'.kind = ipc.kind /\ ipc'.pipe = ipc.pipe
    BY <1>0, <1>4, ReturnedTyped DEF Result
  <2>2. HostStep
    BY <1>1, <1>4, <2>1 DEF HostStep
  <2>3. StreamTypes'
    BY <1>1, <1>4, <2>1 DEF StreamTypes, CallTypes, MailTypes, cardVars
  <2>4. owed = <<>> /\ ipcd.kind # "reply" /\ ipc.kind \in {"start", "drop"}
    BY <1>1, <1>4 DEF MailInv, Replied, Answering, NeedsReply
  <2>5. MailInv'
    BY <1>1, <1>4, <2>1, <2>4 DEF MailInv, Progressing, Posted, Replied, Answering, Truly
  <2> QED  BY <2>2, <2>3, <2>5
<1>5. CASE TakeAsync /\ UNCHANGED ipc
  <2>1. ipcd' = NoMessage /\ ipcd'.kind # "reply"
    BY <1>5, NothingTyped DEF TakeAsync
  <2>2. HostStep
    BY <1>1, <1>5 DEF HostStep
  <2>3. StreamTypes'
    BY <1>1, <1>5, <2>1, NothingTyped DEF StreamTypes, CallTypes, MailTypes, cardVars
  <2>4. MailInv'
    BY <1>1, <1>5, <2>1 DEF MailInv, Progressing, Posted, Replied, Answering, Truly
  <2> QED  BY <2>2, <2>3, <2>4
<1>6. ASSUME ipcd.kind = "reply", ipcd' = NoMessage,
             Returned("error") \/ (IpcMatchesReply /\ NeedsReply(ipc.kind) /\ Answered(ipcd.result))
      PROVE  HostStep /\ StreamTypes' /\ MailInv'
  <2>0. ipcd \in Reply /\ ipcd.result \in Result /\ ipcd'.kind # "reply"
    BY <1>0, <1>6, NothingTyped DEF Event, Reply
  <2>1. Answering /\ Truly(ipcd.result) /\ ipcx = NoCommand /\ owed = <<>>
    BY <1>6 DEF MailInv, Replied, Answering
  <2>2. CASE Returned("error") \/ Returned(ipcd.result)
    <3>1. PICK result \in {"error", ipcd.result} : Returned(result)
      BY <2>2
    <3>2. /\ ipc' \in Progress /\ ipc'.phase = "done" /\ ipc'.result = result
          /\ ipc'.kind = ipc.kind /\ ipc'.pipe = ipc.pipe
      BY <1>0, <2>0, <3>1, ReturnedTyped DEF Result
    <3>3. HostStep
      BY <1>1, <3>2 DEF HostStep
    <3>4. StreamTypes'
      BY <1>1, <1>6, <3>2, NothingTyped DEF StreamTypes, CallTypes, MailTypes, cardVars
    <3>5. Truly(result)
      BY <2>1, <3>1 DEF Truly
    <3>6. MailInv'
      BY <1>1, <2>0, <2>1, <3>2, <3>5
      DEF MailInv, Progressing, Posted, Replied, Answering, Truly
    <3> QED  BY <3>3, <3>4, <3>6
  <2>3. CASE Len(ipc.left) # 1 /\ ipc' = [ipc EXCEPT !.left = Tail(@), !.phase = "ready"]
    <3>1. ipc.left = <<"params", "cmd">>
      BY <1>0, <1>1, <2>3 DEF Progress, Left
    <3>2. Tail(ipc.left) = <<"cmd">>
      BY <3>1
    <3>3. /\ ipc' \in Progress /\ ipc'.phase = "ready" /\ ipc'.left # <<>>
          /\ ipc'.kind = ipc.kind /\ ipc'.pipe = ipc.pipe
      <4>1. ipc' = [ipc EXCEPT !.left = <<"cmd">>, !.phase = "ready"]
        BY <2>3, <3>2
      <4>2. <<"cmd">> \in Left /\ <<"cmd">> # <<>>
        BY DEF Left
      <4>3. ipc' \in Progress
        BY <1>0, <4>1, <4>2 DEF Progress
      <4>4. /\ ipc'.phase = "ready" /\ ipc'.left = <<"cmd">>
            /\ ipc'.kind = ipc.kind /\ ipc'.pipe = ipc.pipe
        BY <1>0, <4>1 DEF Progress
      <4> QED  BY <4>2, <4>3, <4>4
    <3>4. HostStep
      BY <1>1, <3>3 DEF HostStep
    <3>5. StreamTypes'
      BY <1>1, <1>6, <3>3, NothingTyped DEF StreamTypes, CallTypes, MailTypes, cardVars
    <3>6. MailInv'
      BY <1>1, <2>0, <2>1, <3>3 DEF MailInv, Progressing, Posted, Replied, Answering, Truly
    <3> QED  BY <3>4, <3>5, <3>6
  <2> QED  BY <1>6, <2>2, <2>3 DEF Answered
<1> QED  BY <1>4, <1>5, <1>6, AsyncTaken DEF IpcWait

LEMMA GiveUpStep ==
    ASSUME StreamTypes, MailInv, IpcGiveUp, DspFault = {},
           UNCHANGED <<dsp, cardVars, audioAt, audioJob, streamLock, stream>>
    PROVE  HostStep /\ StreamTypes' /\ MailInv'
<1>0. ipc \in Progress /\ ipcx \in Command /\ ipcd \in Event \cup Reply
  BY DEF StreamTypes, MailTypes
<1>1. ipc.phase = "wait" /\ ipc.kind \in Kind /\ ring' = ring /\ ipcd' = ipcd
  BY DEF IpcGiveUp, MailInv, Progressing, cardVars
<1>2. /\ ipcd.kind # "reply" /\ owed' = <<>>
      /\ ipcx' = IF ipcx = NoCommand THEN ipcx ELSE [ipcx EXCEPT !.silent = TRUE]
  BY DEF IpcGiveUp
<1>3. /\ ipc' \in Progress /\ ipc'.phase = "done" /\ ipc'.result = "error"
      /\ ipc'.kind = ipc.kind /\ ipc'.pipe = ipc.pipe
  BY <1>0, ReturnedTyped DEF Result, IpcGiveUp
<1>4. CASE ipcx = NoCommand
  <2>1. ipcx' = ipcx
    BY <1>2, <1>4
  <2>2. HostStep
    BY <1>1, <1>3, <2>1 DEF HostStep
  <2>3. StreamTypes'
    BY <1>1, <1>2, <1>3, <2>1 DEF StreamTypes, CallTypes, MailTypes, cardVars
  <2>4. MailInv'
    BY <1>1, <1>2, <1>3, <1>4, <2>1 DEF MailInv, Progressing, Posted, Replied, Answering, Truly
  <2> QED  BY <2>2, <2>3, <2>4
<1>5. CASE ipcx # NoCommand
  <2>1. /\ ipcx' \in Command /\ ipcx'.kind = ipcx.kind /\ ipcx'.pipe = ipcx.pipe
        /\ ipcx'.silent = TRUE
    BY <1>0, <1>2, <1>5 DEF Command
  <2>2. HostStep
    BY <1>1, <1>3, <2>1 DEF HostStep
  <2>3. StreamTypes'
    BY <1>1, <1>2, <1>3, <2>1 DEF StreamTypes, CallTypes, MailTypes, cardVars
  <2>4. MailInv'
    BY <1>1, <1>2, <1>3, <1>5, <2>1 DEF MailInv, Progressing, Posted, Replied, Answering, Truly
  <2> QED  BY <2>2, <2>3, <2>4
<1> QED  BY <1>4, <1>5

LEMMA IpcStep ==
    ASSUME StreamTypes, MailInv, Ipc, DspFault = {}
    PROVE  HostStep /\ StreamTypes' /\ MailInv'
<1>1. CASE IpcReady /\ UNCHANGED <<owed, dsp>>
  BY <1>1, PostStep DEF Ipc
<1>2. CASE IpcWait /\ UNCHANGED <<owed, dsp>>
  BY <1>2, WaitStep DEF Ipc
<1>3. CASE IpcGiveUp /\ UNCHANGED dsp
  BY <1>3, GiveUpStep DEF Ipc
<1> QED  BY <1>1, <1>2, <1>3 DEF Ipc
\* The command in progress stays where it is, and what is posted for it is its own
LEMMA HostPlace ==
    ASSUME StreamTypes, PlaceInv, HostStep
    PROVE  PlaceInv'
<1>1. lpeReady' = lpeReady /\ ring' = ring
  BY DEF HostStep, cardVars
<1>2. Jobs'
  BY <1>1 DEF PlaceInv, HostStep, Jobs
<1>3. Locked'
  BY <1>1 DEF PlaceInv, HostStep, Locked
<1> QED  BY <1>2, <1>3 DEF PlaceInv

LEMMA HostStream ==
    ASSUME StreamTypes, MailInv, StreamInv, HostStep
    PROVE  StreamInv'
<1>0. /\ ring' = ring /\ rings' = rings /\ lpeReady' = lpeReady /\ Detached' = Detached
      /\ stream' = stream /\ dsp' = dsp
  BY DEF HostStep, cardVars, Detached
<1>1. InProgress'
  BY <1>0 DEF StreamInv, HostStep, InProgress
<1>2. ipc.pipe \in Pipe /\ ipc.phase # "none"
  BY DEF StreamTypes, MailTypes, Progress, HostStep
<1>3. InMailbox'
  BY <1>0, <1>2 DEF StreamInv, HostStep, InMailbox, InProgress, Backed
<1>4. \A p \in Pipe : Backed(p)'
  BY <1>0 DEF StreamInv, Backed
<1>5. RingKept'
  BY <1>0 DEF StreamInv, RingKept
<1> QED  BY <1>1, <1>3, <1>4, <1>5 DEF StreamInv

----------------------------------------------------------------------------
(* The DSP's side of the mailbox.                                          *)

\* What a step of the DSP leaves alone
DspStep ==
    UNCHANGED <<cardVars, audioAt, audioJob, streamLock, stream, ipc>>

LEMMA DspPlace ==
    ASSUME PlaceInv, DspStep
    PROVE  PlaceInv'
BY DEF PlaceInv, Locked, Jobs, DspStep, cardVars

LEMMA AcceptStep ==
    ASSUME StreamTypes, MailInv, StreamInv, DspStep, DspAccept
    PROVE  StreamTypes' /\ MailInv' /\ StreamInv'
<1>0. /\ ipc \in Progress /\ ipcx \in Command /\ ipcd \in Event \cup Reply
      /\ dsp \in [Pipe -> DspState] /\ ipcx.pipe \in Pipe /\ ring' = ring /\ rings' = rings
      /\ ipc' = ipc /\ ipcd' = ipcd /\ stream' = stream /\ Detached' = Detached
  BY DEF StreamTypes, MailTypes, DspStep, DspAccept, cardVars, Command, Detached
<1>1. ipcx # NoCommand /\ ipcx.kind \in Kind /\ ipcx' = NoCommand
  BY DEF DspAccept, MailInv, Progressing
<1>2. owed = <<>> /\ ipcd.kind # "reply"
  BY <1>1 DEF MailInv, Posted
<1> DEFINE p == ipcx.pipe
           reply(e) == [kind |-> "reply", msg |-> ipcx.msg, result |-> e[2]]
<1>3. PICK e \in DspEffects(ipcx) :
         /\ dsp' = [dsp EXCEPT ![p] = e[1]]
         /\ owed' = IF NeedsReply(ipcx.kind) /\ ~ipcx.silent THEN Append(owed, reply(e)) ELSE owed
  BY DEF DspAccept
<1>4. MailTypes
  BY DEF StreamTypes
<1>5. /\ e[1] \in DspState /\ e[2] \in Result
      /\ e[2] = "inUse" => ipcx.kind = "alloc"
      /\ ipcx.kind = "alloc" =>
            /\ e[1] = dsp[p] \/ (dsp[p].state = "idle" /\ e[1].state = "ready" /\ e[1].ring = ipcx.ring)
            /\ e[2] = "ok" => e[1].state = "ready" /\ e[1].ring = ipcx.ring
      /\ ipcx.kind = "start" =>
            IF dsp[p].state = "ready"
            THEN e[1].state = "running" /\ e[1].ring = dsp[p].ring ELSE e[1] = dsp[p]
      /\ ipcx.kind = "drop" =>
            IF dsp[p].state = "running"
            THEN e[1].state = "ready" /\ e[1].ring = dsp[p].ring ELSE e[1] = dsp[p]
      /\ ipcx.kind \in {"free", "stale"} =>
            /\ e[1] = dsp[p] \/ e[1].state = "idle"
            /\ e[2] = "ok" => e[1].state = "idle"
      /\ ipcx.kind \in {"hardware", "route"} => e[1] = dsp[p]
  BY <1>1, <1>4, DspEffect
<1>6. dsp' \in [Pipe -> DspState] /\ dsp'[p] = e[1] /\ \A q \in Pipe \ {p} : dsp'[q] = dsp[q]
  BY <1>0, <1>3, <1>5
<1>7. reply(e) \in Reply /\ reply(e).result = e[2]
  BY <1>0, <1>5 DEF Reply, Command
<1>8. owed' = <<>> \/ owed' = <<reply(e)>>
  BY <1>2, <1>3
<1>9. StreamTypes'
  BY <1>0, <1>1, <1>6, <1>7, <1>8, NothingTyped
  DEF StreamTypes, CallTypes, MailTypes, DspStep, cardVars
<1>10. MailInv'
  <2>1. CASE ipc.phase # "wait"
    <3>1. owed' = <<>>
      BY <1>0, <1>1, <1>2, <1>3, <2>1 DEF MailInv, Posted
    <3>2. ipc.phase = "done" => ipc.result = "error"
      BY <1>1 DEF MailInv, Replied
    <3> QED  BY <1>0, <1>1, <1>2, <2>1, <3>1, <3>2
             DEF MailInv, Progressing, Posted, Replied, Answering, Truly
  <2>2. CASE ipc.phase = "wait"
    <3>1. ipcx.kind = ipc.kind /\ p = ipc.pipe /\ ipcx.ring = ring
      BY <1>1, <2>2 DEF MailInv, Posted
    <3>2. owed' # <<>> => NeedsReply(ipc.kind) /\ Head(owed').result = e[2]
      BY <1>2, <1>3, <1>7, <1>8, <3>1
    <3>5. ipc.kind = "start" => dsp'[ipc.pipe].state = "running"
      BY <1>0, <1>5, <1>6, <2>2, <3>1 DEF StreamInv, InProgress, Backed
    <3>3. Truly(e[2])'
      BY <1>0, <1>5, <1>6, <3>1, <3>5 DEF Truly
    <3>4. owed' # <<>> => Truly(Head(owed).result)'
      BY <3>2, <3>3
    <3> QED  BY <1>0, <1>1, <1>2, <2>2, <3>2, <3>4, <3>5
             DEF MailInv, Progressing, Posted, Replied, Answering
  <2> QED  BY <2>1, <2>2
<1>11. StreamInv'
  <2>1. InProgress' /\ RingKept'
    BY <1>0 DEF StreamInv, InProgress, RingKept
  <2>2. InMailbox'
    BY <1>1, NothingTyped DEF InMailbox
  <2>3. ASSUME NEW q \in Pipe PROVE Backed(q)'
    <3>1. CASE q # p
      BY <1>0, <1>6, <3>1 DEF StreamInv, Backed
    <3>2. CASE q = p
      <4>1. Backed(p) /\ InMailbox
        BY <1>0 DEF StreamInv
      <4>2. CASE ipcx.kind \in {"hardware", "route"}
        BY <1>0, <1>5, <1>6, <3>2, <4>1, <4>2 DEF Backed
      <4>3. CASE ipcx.kind = "alloc"
        BY <1>0, <1>5, <1>6, <3>2, <4>1, <4>3 DEF Backed, InMailbox
      <4>4. CASE ipcx.kind = "start"
        BY <1>0, <1>5, <1>6, <3>2, <4>1, <4>4 DEF Backed, InMailbox
      <4>5. CASE ipcx.kind = "drop"
        BY <1>0, <1>5, <1>6, <3>2, <4>1, <4>5 DEF Backed, InMailbox
      <4>6. CASE ipcx.kind \in {"free", "stale"}
        BY <1>0, <1>5, <1>6, <3>2, <4>1, <4>6 DEF Backed, InMailbox
      <4> QED  BY <1>1, <4>2, <4>3, <4>4, <4>5, <4>6 DEF Kind
    <3> QED  BY <3>1, <3>2
  <2> QED  BY <2>1, <2>2, <2>3 DEF StreamInv
<1> QED  BY <1>9, <1>10, <1>11

\* When nothing of the card's streams and of the DSP's changes
LEMMA StreamsKept ==
    ASSUME StreamInv,
           UNCHANGED <<stream, dsp, ipcx, rings, ring>>, Detached' = Detached,
           ipc' = ipc \/ ipc'.phase = "none"
    PROVE  StreamInv'
<1>1. InProgress'
  BY DEF StreamInv, InProgress
<1> QED  BY <1>1 DEF StreamInv, InMailbox, Backed, RingKept

LEMMA ReplyStep ==
    ASSUME StreamTypes, MailInv, StreamInv, DspStep, DspReply
    PROVE  StreamTypes' /\ MailInv' /\ StreamInv'
<1>0. ipc' = ipc /\ ipcx' = ipcx /\ dsp' = dsp /\ ring' = ring /\ Detached' = Detached
  BY DEF DspStep, DspReply, cardVars, Detached
<1>1. PICK r \in Reply : owed = <<r>>
  BY DEF StreamTypes, MailTypes, DspReply
<1>2. Head(owed) = r /\ Tail(owed) = <<>> /\ r.kind = "reply" /\ owed # <<>>
  BY <1>1 DEF Reply
<1>3. ipcd' = r /\ owed' = <<>>
  BY <1>2 DEF DspReply
<1>4. StreamTypes'
  BY <1>0, <1>3 DEF StreamTypes, CallTypes, MailTypes, DspStep, cardVars
<1>5. Answering /\ Truly(r.result) /\ Answering' /\ Truly(r.result)'
  BY <1>0, <1>2 DEF MailInv, Replied, Answering, Truly
<1>6. Truly(ipcd.result)'
  BY <1>3, <1>5 DEF Truly
<1>7. MailInv'
  BY <1>0, <1>3, <1>5, <1>6 DEF MailInv, Progressing, Posted, Replied, Answering
<1>8. StreamInv'
  BY <1>0, StreamsKept DEF DspStep, cardVars
<1> QED  BY <1>4, <1>7, <1>8

LEMMA ReportStep ==
    ASSUME StreamTypes, MailInv, StreamInv, DspStep, DspReport, DspFault = {}
    PROVE  StreamTypes' /\ MailInv' /\ StreamInv'
<1>0. /\ ipc' = ipc /\ ipcx' = ipcx /\ dsp' = dsp /\ ring' = ring /\ owed' = owed
      /\ Detached' = Detached
  BY DEF DspStep, DspReport, cardVars, Detached
<1>1. ipcd' \in Event /\ ipcd'.kind = "async"
  BY DEF DspReport, Event, Message
<1>2. StreamTypes'
  BY <1>0, <1>1 DEF StreamTypes, CallTypes, MailTypes, DspStep, cardVars
<1>3. MailInv'
  BY <1>0, <1>1 DEF MailInv, Progressing, Posted, Replied, Answering, Truly
<1>4. StreamInv'
  BY <1>0, StreamsKept DEF DspStep, cardVars
<1> QED  BY <1>2, <1>3, <1>4

LEMMA DspCases ==
    ASSUME AudioInv, Dsp, DspFault = {}
    PROVE  AudioInv'
<1>0. StreamTypes /\ MailInv /\ PlaceInv /\ StreamInv
  BY DEF AudioInv
<1>1. DspStep
  BY DEF Dsp, DspStep
<1>2. PlaceInv'
  BY <1>0, <1>1, DspPlace
<1>3. CASE DspAccept
  BY <1>0, <1>1, <1>2, <1>3, AcceptStep DEF AudioInv
<1>4. CASE DspReply
  BY <1>0, <1>1, <1>2, <1>4, ReplyStep DEF AudioInv
<1>5. CASE DspReport
  BY <1>0, <1>1, <1>2, <1>5, ReportStep DEF AudioInv
<1>6. CASE \E p \in Pipe : DspPeriod(p)
  <2>1. UNCHANGED <<ipcx, ipcd, owed, dsp, ipc, ring>> /\ Detached' = Detached
    BY <1>1, <1>6 DEF DspPeriod, mailVars, DspStep, cardVars, Detached
  <2>2. StreamTypes'
    BY <1>0, <1>1, <2>1 DEF StreamTypes, CallTypes, MailTypes, DspStep, cardVars
  <2>3. MailInv'
    BY <1>0, <2>1 DEF MailInv, Progressing, Posted, Replied, Answering, Truly
  <2>4. StreamInv'
    BY <1>0, <1>1, <2>1, StreamsKept DEF DspStep, cardVars
  <2> QED  BY <1>2, <2>2, <2>3, <2>4 DEF AudioInv
<1> QED  BY <1>3, <1>4, <1>5, <1>6 DEF Dsp

LEMMA IpcCases ==
    ASSUME AudioInv, Ipc, DspFault = {}
    PROVE  AudioInv'
BY IpcStep, HostPlace, HostStream DEF AudioInv
----------------------------------------------------------------------------
(* How the threads move.                                                   *)

LEMMA MailKept ==
    ASSUME MailTypes, MailInv, UNCHANGED <<ipc, ipcx, ipcd, owed, dsp>>,
           ring' = ring \/ ipc.phase = "none"
    PROVE  MailTypes' /\ MailInv'
<1>1. MailTypes'
  BY DEF MailTypes
<1>3. MailInv'
  BY DEF MailInv, Progressing, Posted, Replied, Answering, Truly
<1> QED  BY <1>1, <1>3

\* While the firmware runs a thread without the lock goes where it likes
LEMMA OtherMoves ==
    ASSUME "none" \notin AudioThread, StreamTypes, PlaceInv, lpeReady = TRUE,
           NEW t \in AudioThread, audioAt[t] \notin Holding,
           NEW l \in {"closed", "open", "lock", "make"}, NEW job \in Job \ {"detach"},
           audioAt' = [audioAt EXCEPT ![t] = l], audioJob' = [audioJob EXCEPT ![t] = job],
           UNCHANGED <<streamLock, ipc, lpeReady>>,
           ring' = ring \/ streamLock = "none"
    PROVE  PlaceInv' /\ Detached' = FALSE /\ Detached = FALSE
<1>1. audioAt \in [AudioThread -> Place] /\ audioJob \in [AudioThread -> Job]
  BY DEF StreamTypes, CallTypes
<1>2. l \notin Holding /\ l # "unmap"
  BY DEF Holding, StopLabels
<1>3. Locked'
  BY <1>1, <1>2 DEF PlaceInv, Locked, Holding, StopLabels
<1>4. Jobs'
  BY <1>1, <1>2 DEF PlaceInv, Jobs, Holding, StopLabels
<1> QED  BY <1>3, <1>4 DEF PlaceInv, Detached

\* The holder of the lock goes on in its call
LEMMA HolderMoves ==
    ASSUME "none" \notin AudioThread, StreamTypes, PlaceInv,
           NEW t \in AudioThread, audioAt[t] \in Holding,
           NEW l \in Holding, audioAt' = [audioAt EXCEPT ![t] = l],
           UNCHANGED <<audioJob, streamLock, lpeReady, ring>>,
           l \in {"poll", "finish"} => ipc'.phase = "none",
           l \in {"setup", "poll"} => audioJob[t] = "exchange",
           l = "setup" => audioAt[t] = "setup" /\ ipc'.kind # "drop",
           l \in StopLabels /\ ipc'.phase # "none" => ipc'.kind \in {"drop", "free"}
    PROVE  PlaceInv' /\ Detached' = FALSE /\ Detached = FALSE
<1>1. audioAt \in [AudioThread -> Place] /\ audioJob \in [AudioThread -> Job]
  BY DEF StreamTypes, CallTypes
<1>2. streamLock = t /\ streamLock # "none"
  BY DEF PlaceInv, Locked
<1>3. \A u \in AudioThread \ {t} : audioAt[u] \notin Holding
  BY <1>2 DEF PlaceInv, Locked
<1>4. Locked'
  BY <1>1, <1>2, <1>3 DEF PlaceInv, Locked, Holding
<1>5. audioAt[t] # "closed" /\ l \notin {"closed", "unmap"}
  BY DEF Holding, StopLabels
<1>6. Jobs'
  BY <1>1, <1>5 DEF PlaceInv, Jobs, Holding, StopLabels
<1>7. Detached' = FALSE /\ Detached = FALSE
  BY <1>1, <1>5 DEF Detached
<1> QED  BY <1>4, <1>6, <1>7 DEF PlaceInv

LEMMA HolderStays ==
    ASSUME "none" \notin AudioThread, StreamTypes, PlaceInv,
           NEW t \in AudioThread, audioAt[t] \in Holding,
           UNCHANGED <<audioAt, audioJob, streamLock, lpeReady, ring>>,
           audioAt[t] \in {"poll", "finish"} => ipc'.phase = "none",
           audioAt[t] = "setup" => ipc'.kind # "drop",
           audioAt[t] \in StopLabels /\ ipc'.phase # "none" => ipc'.kind \in {"drop", "free"}
    PROVE  PlaceInv' /\ Detached' = FALSE /\ Detached = FALSE
<1>1. audioAt \in [AudioThread -> Place]
  BY DEF StreamTypes, CallTypes
<1>2. audioAt' = [audioAt EXCEPT ![t] = audioAt[t]]
  BY <1>1
<1>3. audioAt[t] \in {"setup", "poll"} => audioJob[t] = "exchange"
  BY DEF PlaceInv, Jobs
<1> QED  BY <1>2, <1>3, HolderMoves

\* The holder releases the lock and returns from its call, or goes on without it
LEMMA HolderReleases ==
    ASSUME "none" \notin AudioThread, StreamTypes, PlaceInv,
           NEW t \in AudioThread, audioAt[t] \in Holding,
           NEW l \in {"open", "closed", "make", "unmap"}, NEW job \in Job,
           audioAt' = [audioAt EXCEPT ![t] = l],
           audioJob' = [audioJob EXCEPT ![t] = job], streamLock' = "none",
           UNCHANGED <<lpeReady, ipc>>, ipc.phase = "none",
           IF audioJob[t] = "detach" THEN l = "unmap" /\ job = "detach"
                                     ELSE l # "unmap" /\ job # "detach"
    PROVE  PlaceInv' /\ Detached' = FALSE /\ Detached = FALSE
<1>1. audioAt \in [AudioThread -> Place] /\ audioJob \in [AudioThread -> Job]
  BY DEF StreamTypes, CallTypes
<1>2. streamLock = t
  BY DEF PlaceInv, Locked
<1>3. \A u \in AudioThread \ {t} : audioAt[u] \notin Holding
  BY <1>2 DEF PlaceInv, Locked
<1>4. l \notin Holding /\ audioAt[t] # "closed"
  BY DEF Holding, StopLabels
<1>5. Locked'
  BY <1>1, <1>2, <1>3, <1>4 DEF PlaceInv, Locked, Holding
<1>6. audioAt'[t] = l /\ audioJob'[t] = job
      /\ \A u \in AudioThread \ {t} : audioAt'[u] = audioAt[u] /\ audioJob'[u] = audioJob[u]
  BY <1>1
<1>7. lpeReady = FALSE => audioJob[t] = "detach"
  BY <1>4 DEF PlaceInv, Jobs
<1>8. Jobs'
  BY <1>4, <1>6, <1>7 DEF PlaceInv, Jobs, Holding, StopLabels
<1>9. Detached' = FALSE /\ Detached = FALSE
  <2>1. Detached = FALSE
    BY <1>4 DEF Detached
  <2>2. Detached' = FALSE
    BY <1>6, <1>7 DEF Detached
  <2> QED  BY <2>1, <2>2
<1> QED  BY <1>5, <1>8, <1>9 DEF PlaceInv
----------------------------------------------------------------------------
(* The calls.                                                              *)

LEMMA BeginStep ==
    ASSUME "none" \notin AudioThread, AudioInv, NEW t \in AudioThread, BeginCall(t)
    PROVE  AudioInv'
<1>0. /\ StreamTypes /\ MailInv /\ PlaceInv /\ StreamInv /\ MailTypes
      /\ audioAt \in [AudioThread -> Place] /\ audioJob \in [AudioThread -> Job]
  BY DEF AudioInv, StreamTypes, CallTypes
<1>1. UNCHANGED <<ipc, ipcx, ipcd, owed, dsp, ring, rings, stream, streamLock>>
  BY DEF BeginCall, mailVars
<1>2. MailTypes' /\ MailInv'
  BY <1>0, <1>1, MailKept
<1>3. ASSUME NEW l \in {"closed", "open", "lock"}, NEW job \in Job \ {"detach"},
             Begin(t, job, l), lpeReady = TRUE, lpeReady' = lpeReady, audioAt[t] \notin Holding
      PROVE  AudioInv'
  <2>1. /\ audioAt' = [audioAt EXCEPT ![t] = l] /\ audioJob' = [audioJob EXCEPT ![t] = job]
        /\ l \in Place
    BY <1>3 DEF Begin, Place
  <2>2. PlaceInv' /\ Detached' = FALSE /\ Detached = FALSE
    BY <1>0, <1>1, <1>3, <2>1, OtherMoves
  <2>3. StreamTypes'
    BY <1>0, <1>1, <1>2, <1>3, <2>1 DEF StreamTypes, CallTypes
  <2>4. StreamInv'
    BY <1>0, <1>1, <2>2, StreamsKept
  <2> QED  BY <1>2, <2>2, <2>3, <2>4 DEF AudioInv
<1>4. CASE AudioOpen(t)
  <2>1. Begin(t, "none", "open") /\ lpeReady = TRUE /\ lpeReady' = lpeReady
        /\ audioAt[t] \notin Holding
    BY <1>4 DEF AudioOpen, Return, Holding, StopLabels
  <2> QED  BY <1>3, <2>1 DEF Job
<1>5. CASE AudioClose(t)
  <2>1. lpeReady' = lpeReady /\ audioAt[t] = "open" /\ audioAt[t] \notin Holding
    BY <1>5 DEF AudioClose, Holding, StopLabels
  <2>2. lpeReady = TRUE
    BY <1>0, <2>1 DEF PlaceInv, Jobs, StopLabels, StreamTypes, CallTypes
  <2>3. Begin(t, "close", "lock") \/ Begin(t, "none", "closed")
    BY <1>5 DEF AudioClose, Return
  <2> QED  BY <1>3, <2>1, <2>2, <2>3 DEF Job
<1>6. CASE BeginStop(t)
  <2>1. lpeReady = TRUE /\ lpeReady' = lpeReady /\ audioAt[t] \notin Holding
    BY <1>6 DEF BeginStop, Holding, StopLabels
  <2>2. PICK job \in {"force", "buffers"} : Begin(t, job, "lock")
    BY <1>6 DEF BeginStop
  <2> QED  BY <1>3, <2>1, <2>2 DEF Job
<1>7. CASE BeginExchange(t)
  <2>1. /\ lpeReady = TRUE /\ lpeReady' = lpeReady /\ audioAt[t] \notin Holding
        /\ Begin(t, "exchange", "lock")
    BY <1>7 DEF BeginExchange, Holding, StopLabels
  <2> QED  BY <1>3, <2>1 DEF Job
<1>8. CASE BeginDetach(t)
  <2>1. /\ lpeReady = TRUE /\ lpeReady' = FALSE /\ \A u \in AudioThread : audioAt[u] = "closed"
        /\ audioAt' = [audioAt EXCEPT ![t] = "lock"] /\ audioJob' = [audioJob EXCEPT ![t] = "detach"]
    BY <1>8 DEF BeginDetach, Begin
  <2>2. StreamTypes'
    BY <1>0, <1>1, <1>2, <2>1 DEF StreamTypes, CallTypes, Place, Job
  <2>3. Locked'
    BY <1>0, <1>1, <2>1 DEF PlaceInv, Locked, Holding, StopLabels
  <2>4. Jobs'
    BY <1>0, <2>1 DEF PlaceInv, Jobs, StopLabels
  <2>5. Detached' = FALSE /\ Detached = FALSE
    BY <1>0, <2>1 DEF Detached
  <2>6. StreamInv'
    BY <1>0, <1>1, <2>5, StreamsKept
  <2> QED  BY <1>2, <2>2, <2>3, <2>4, <2>6 DEF AudioInv, PlaceInv
<1> QED  BY <1>4, <1>5, <1>6, <1>7, <1>8 DEF BeginCall

LEMMA NobodyInside ==
    ASSUME "none" \notin AudioThread, PlaceInv, StreamTypes, \A u \in AudioThread : audioAt[u] = "closed"
    PROVE  streamLock = "none" /\ ipc.phase = "none"
BY DEF PlaceInv, Locked, StreamTypes, CallTypes, Holding, StopLabels

LEMMA AttachStep ==
    ASSUME "none" \notin AudioThread, AudioInv, NEW t \in AudioThread, AttachLpe(t)
    PROVE  AudioInv'
<1>0. /\ StreamTypes /\ MailInv /\ PlaceInv /\ StreamInv /\ MailTypes
  BY DEF AudioInv, StreamTypes
<1>1. /\ lpeReady = FALSE /\ \A u \in AudioThread : audioAt[u] = "closed"
      /\ lpeReady' \in BOOLEAN
      /\ UNCHANGED <<audioAt, audioJob, streamLock, stream, ring, rings, ipc>>
      /\ ipcx' = NoCommand /\ ipcd' = NoMessage /\ owed' = <<>>
      /\ dsp' = OnPipes([state |-> "idle", ring |-> 0])
  BY <1>0 DEF AttachLpe, StreamTypes, CallTypes
<1>2. streamLock = "none" /\ ipc.phase = "none" /\ Detached
  BY <1>0, <1>1, NobodyInside DEF Detached
<1>3. /\ dsp' \in [Pipe -> DspState] /\ \A p \in Pipe : dsp'[p].state = "idle"
  <2>1. [state |-> "idle", ring |-> 0] \in DspState
    BY DEF DspState
  <2> QED  BY <1>1, <2>1 DEF OnPipes
<1>4. StreamTypes'
  BY <1>0, <1>1, <1>3, NothingTyped DEF StreamTypes, CallTypes, MailTypes
<1>5. MailInv'
  BY <1>0, <1>1, <1>2, NothingTyped DEF MailInv, Progressing, Posted, Replied, Answering
<1>6. Locked'
  BY <1>0, <1>1 DEF PlaceInv, Locked
<1>7. Jobs'
  BY <1>0, <1>1 DEF PlaceInv, Jobs, StopLabels
<1>8. \A p \in Pipe : stream[p] = "Idle"
  BY <1>0, <1>2 DEF StreamInv, Backed
<1>9. StreamInv'
  BY <1>0, <1>1, <1>2, <1>3, <1>8, NothingTyped
  DEF StreamInv, InProgress, InMailbox, Backed, RingKept
<1> QED  BY <1>4, <1>5, <1>6, <1>7, <1>9 DEF AudioInv, PlaceInv

LEMMA LockStep ==
    ASSUME "none" \notin AudioThread, AudioInv, NEW t \in AudioThread, LockStreams(t)
    PROVE  AudioInv'
<1>0. /\ StreamTypes /\ MailInv /\ PlaceInv /\ StreamInv /\ MailTypes
      /\ audioAt \in [AudioThread -> Place] /\ audioJob \in [AudioThread -> Job]
  BY DEF AudioInv, StreamTypes, CallTypes
<1>1. /\ UNCHANGED <<ipc, ipcx, ipcd, owed, dsp, ring, rings, stream, lpeReady>>
      /\ audioAt[t] = "lock" /\ streamLock = "none"
  BY DEF LockStreams, cardVars, mailVars
<1>2. MailTypes' /\ MailInv'
  BY <1>0, <1>1, MailKept
<1>3. ipc.phase = "none" /\ audioAt[t] \notin Holding
      /\ \A u \in AudioThread : audioAt[u] \notin Holding
  BY <1>0, <1>1 DEF PlaceInv, Locked
<1>4. ASSUME NEW l \in {"stopCapture", "setup"}, audioAt' = [audioAt EXCEPT ![t] = l],
             audioJob' = audioJob, streamLock' = t,
             l = "setup" => audioJob[t] = "exchange" /\ ring # 0
      PROVE  AudioInv'
  <2>1. l \in Holding /\ l \in Place /\ l \notin {"poll", "finish", "unmap", "closed"}
    BY DEF Holding, StopLabels, Place
  <2>2. StreamTypes'
    BY <1>0, <1>1, <1>2, <1>4, <2>1 DEF StreamTypes, CallTypes
  <2>0. ipc.kind # "drop"
    BY <1>0, <1>3, NothingTyped DEF MailInv, Progressing
  <2>3. Locked'
    BY <1>0, <1>1, <1>3, <1>4, <2>0, <2>1 DEF PlaceInv, Locked, Holding, StopLabels
  <2>4. audioAt'[t] = l /\ \A u \in AudioThread \ {t} : audioAt'[u] = audioAt[u]
    BY <1>0, <1>4
  <2>5. Jobs'
    BY <1>0, <1>1, <1>4, <2>1, <2>4 DEF PlaceInv, Jobs, Holding, StopLabels
  <2>6. Detached' = FALSE /\ Detached = FALSE
    BY <1>1, <2>1, <2>4 DEF Detached
  <2>7. StreamInv'
    BY <1>0, <1>1, <2>6, StreamsKept
  <2> QED  BY <1>2, <2>2, <2>3, <2>5, <2>7 DEF AudioInv, PlaceInv
<1>5. ASSUME Return(t, "open"), streamLock' = streamLock, audioJob[t] = "exchange"
      PROVE  AudioInv'
  <2>1. lpeReady = TRUE
    BY <1>0, <1>1, <1>5 DEF PlaceInv, Jobs, StreamTypes, CallTypes
  <2>2. /\ audioAt' = [audioAt EXCEPT ![t] = "open"] /\ audioJob' = [audioJob EXCEPT ![t] = "none"]
        /\ "none" \in Job \ {"detach"}
    BY <1>5 DEF Return, Begin, Job
  <2>3. PlaceInv' /\ Detached' = FALSE /\ Detached = FALSE
    BY <1>0, <1>1, <1>3, <1>5, <2>1, <2>2, OtherMoves
  <2>4. StreamTypes'
    BY <1>0, <1>1, <1>2, <1>5, <2>2 DEF StreamTypes, CallTypes, Place
  <2>5. StreamInv'
    BY <1>0, <1>1, <2>3, StreamsKept
  <2> QED  BY <1>2, <2>3, <2>4, <2>5 DEF AudioInv
<1>6. CASE audioJob[t] # "exchange"
  <2>1. streamLock' = t /\ Goto(t, "stopCapture")
    BY <1>6 DEF LockStreams
  <2> QED  BY <1>4, <2>1 DEF Goto
<1>7. CASE audioJob[t] = "exchange" /\ (ring = 0 \/ ~sized)
  <2>1. Return(t, "open") /\ streamLock' = streamLock
    BY <1>7 DEF LockStreams
  <2> QED  BY <1>5, <1>7, <2>1
<1>8. CASE audioJob[t] = "exchange" /\ ~(ring = 0 \/ ~sized)
  <2>1. streamLock' = t /\ (Goto(t, "stopCapture") \/ Goto(t, "setup"))
    BY <1>8 DEF LockStreams, Fail
  <2> QED  BY <1>4, <1>8, <2>1 DEF Goto
<1> QED  BY <1>6, <1>7, <1>8
\* Between two commands nothing is owed
LEMMA BetweenCommands ==
    ASSUME MailTypes, MailInv, UNCHANGED <<ipcx, ipcd, owed, dsp, ring>>,
           ipc.phase \in {"none", "done"},
           \/ ipc' = NoCall
           \/ \E kind \in Kind, pipe \in Pipe, retry \in BOOLEAN : Call(kind, pipe, retry)
    PROVE  MailTypes' /\ MailInv'
<1>1. owed = <<>> /\ ipcd.kind # "reply"
  BY DEF MailInv, Replied, Answering
<1>2. CASE ipc' = NoCall
  BY <1>1, <1>2, NothingTyped DEF MailTypes, MailInv, Progressing, Posted, Replied, Answering
<1>3. CASE \E kind \in Kind, pipe \in Pipe, retry \in BOOLEAN : Call(kind, pipe, retry)
  <2>1. PICK kind \in Kind, pipe \in Pipe, retry \in BOOLEAN : Call(kind, pipe, retry)
    BY <1>3
  <2>2. /\ ipc' \in Progress
        /\ ipc'.phase = "ready" /\ ipc'.kind = kind /\ ipc'.pipe = pipe /\ ipc'.left # <<>>
    BY <2>1, CallTyped
  <2> QED  BY <1>1, <2>2 DEF MailTypes, MailInv, Progressing, Posted, Replied, Answering
<1> QED  BY <1>2, <1>3

\* What the holder does with the streams when the DSP is not involved: it leaves
\* them and starts the command due next, or none
LEMMA StreamsHeld ==
    ASSUME MailTypes, StreamInv, UNCHANGED <<stream, dsp, ipcx, rings, ring>>, Detached' = Detached,
           \/ ipc'.phase = "none"
           \/ \E kind \in Kind, pipe \in Pipe, retry \in BOOLEAN :
                 /\ Call(kind, pipe, retry)
                 /\ kind \in {"alloc", "stale"} => stream[pipe] = "Idle"
                 /\ kind = "start" => stream[pipe] = "Allocated"
                 /\ kind \in {"drop", "free"} => stream[pipe] = "Stopping"
    PROVE  StreamInv'
<1>1. InProgress'
  <2>1. CASE ipc'.phase = "none"
    BY <2>1 DEF InProgress
  <2>2. ASSUME NEW kind \in Kind, NEW pipe \in Pipe, NEW retry \in BOOLEAN,
               Call(kind, pipe, retry),
               kind \in {"alloc", "stale"} => stream[pipe] = "Idle",
               kind = "start" => stream[pipe] = "Allocated",
               kind \in {"drop", "free"} => stream[pipe] = "Stopping"
        PROVE  InProgress'
    <3>1. ipc'.kind = kind /\ ipc'.pipe = pipe
      BY <2>2, CallTyped
    <3> QED  BY <2>2, <3>1 DEF InProgress
  <2> QED  BY <2>1, <2>2
<1> QED  BY <1>1 DEF StreamInv, InMailbox, Backed, RingKept

\* Both together, for a thread that holds the lock
LEMMA HolderGoesOn ==
    ASSUME "none" \notin AudioThread, AudioInv,
           NEW t \in AudioThread, audioAt[t] \in Holding,
           NEW l \in Holding, audioAt' = [audioAt EXCEPT ![t] = l],
           UNCHANGED <<audioJob, streamLock, lpeReady, ring, rings, stream, ipcx, ipcd, owed, dsp>>,
           ipc.phase \in {"none", "done"},
           l \in {"setup", "poll"} => audioJob[t] = "exchange",
           l = "setup" => audioAt[t] = "setup",
           \/ ipc' = NoCall
           \/ /\ l \in {"setup"} \cup StopLabels
              /\ \E kind \in Kind, pipe \in Pipe, retry \in BOOLEAN :
                    /\ Call(kind, pipe, retry)
                    /\ l = "setup" => kind # "drop"
                    /\ l \in StopLabels => kind \in {"drop", "free"}
                    /\ kind \in {"alloc", "stale"} => stream[pipe] = "Idle"
                    /\ kind = "start" => stream[pipe] = "Allocated"
                    /\ kind \in {"drop", "free"} => stream[pipe] = "Stopping"
    PROVE  AudioInv'
<1>0. /\ StreamTypes /\ MailInv /\ PlaceInv /\ StreamInv /\ MailTypes /\ CallTypes
  BY DEF AudioInv, StreamTypes
<1>1. MailTypes' /\ MailInv'
  BY <1>0, BetweenCommands
<1>2. l \in Place
  BY DEF Place
<1>3. CallTypes'
  BY <1>0, <1>2 DEF CallTypes
<1>4. /\ l \in {"poll", "finish"} => ipc'.phase = "none"
      /\ l = "setup" => ipc'.kind # "drop"
      /\ l \in StopLabels /\ ipc'.phase # "none" => ipc'.kind \in {"drop", "free"}
  <2>1. CASE ipc' = NoCall
    BY <2>1, NothingTyped
  <2>2. CASE ipc' # NoCall
    <3>1. PICK kind \in Kind, pipe \in Pipe, retry \in BOOLEAN :
             /\ Call(kind, pipe, retry)
             /\ l = "setup" => kind # "drop"
             /\ l \in StopLabels => kind \in {"drop", "free"}
      BY <2>2
    <3>2. ipc'.kind = kind
      BY <3>1, CallTyped
    <3>3. l \in {"setup"} \cup StopLabels /\ "finish" \notin StopLabels /\ "poll" \notin StopLabels
      BY <2>2 DEF StopLabels
    <3> QED  BY <3>1, <3>2, <3>3
  <2> QED  BY <2>1, <2>2
<1>5. PlaceInv' /\ Detached' = FALSE /\ Detached = FALSE
  BY <1>0, <1>4, HolderMoves
<1>6. ipc' = NoCall => ipc'.phase = "none"
  BY NothingTyped
<1>7. StreamInv'
  BY <1>0, <1>5, <1>6, StreamsHeld
<1> QED  BY <1>1, <1>3, <1>5, <1>7 DEF AudioInv, StreamTypes

----------------------------------------------------------------------------
(* Setting up an exchange.                                                 *)

LEMMA FirstOfThree == \A x, y, z : <<x, y, z>>[1] = x
OBVIOUS

\* The kinds of command that the steps of the plan ask for, and when
LEMMA PlanDue ==
    ASSUME NEW i \in DOMAIN SetupPlan, SetupPlan[i][1]
    PROVE  /\ SetupPlan[i][2] \in Kind \ {"drop", "stale"} /\ SetupPlan[i][3] \in Pipe
           /\ SetupPlan[i][2] = "free" => stream[SetupPlan[i][3]] = "Stopping"
           /\ SetupPlan[i][2] = "alloc" => stream[SetupPlan[i][3]] = "Idle"
           /\ SetupPlan[i][2] = "start" => stream[SetupPlan[i][3]] = "Allocated"
<1>1. i \in 1 .. 9
  BY DEF SetupPlan
<1>2. CASE i = 1
  <2>1. SetupPlan[i] = <<stream["play"] = "Stopping", "free", "play">>
    BY <1>2 DEF SetupPlan
  <2>2. SetupPlan[i][2] = "free" /\ SetupPlan[i][3] = "play"
    BY <2>1
  <2>3. SetupPlan[i][1] = (stream["play"] = "Stopping")
    BY <2>1, FirstOfThree, Zenon
  <2>4. stream["play"] = "Stopping"
    BY <2>3, Zenon
  <2> QED  BY <2>2, <2>4 DEF Kind, Pipe
<1>3. CASE i = 2
  <2>1. SetupPlan[i] = <<stream["capture"] = "Stopping", "free", "capture">>
    BY <1>3 DEF SetupPlan
  <2>2. SetupPlan[i][2] = "free" /\ SetupPlan[i][3] = "capture"
    BY <2>1
  <2>3. SetupPlan[i][1] = (stream["capture"] = "Stopping")
    BY <2>1, FirstOfThree, Zenon
  <2>4. stream["capture"] = "Stopping"
    BY <2>3, Zenon
  <2> QED  BY <2>2, <2>4 DEF Kind, Pipe
<1>4. CASE i = 3
  <2>1. SetupPlan[i] = <<~hardware, "hardware", "play">>
    BY <1>4 DEF SetupPlan
  <2>2. SetupPlan[i][2] = "hardware" /\ SetupPlan[i][3] = "play"
    BY <2>1
  <2>3. SetupPlan[i][1] = (~hardware)
    BY <2>1, FirstOfThree, Zenon
  <2>4. ~hardware
    BY <2>3, Zenon
  <2> QED  BY <2>2, <2>4 DEF Kind, Pipe
<1>5. CASE i = 4
  <2>1. SetupPlan[i] = <<stream["play"] = "Idle", "alloc", "play">>
    BY <1>5 DEF SetupPlan
  <2>2. SetupPlan[i][2] = "alloc" /\ SetupPlan[i][3] = "play"
    BY <2>1
  <2>3. SetupPlan[i][1] = (stream["play"] = "Idle")
    BY <2>1, FirstOfThree, Zenon
  <2>4. stream["play"] = "Idle"
    BY <2>3, Zenon
  <2> QED  BY <2>2, <2>4 DEF Kind, Pipe
<1>6. CASE i = 5
  <2>1. SetupPlan[i] = <<stream["capture"] = "Idle", "alloc", "capture">>
    BY <1>6 DEF SetupPlan
  <2>2. SetupPlan[i][2] = "alloc" /\ SetupPlan[i][3] = "capture"
    BY <2>1
  <2>3. SetupPlan[i][1] = (stream["capture"] = "Idle")
    BY <2>1, FirstOfThree, Zenon
  <2>4. stream["capture"] = "Idle"
    BY <2>3, Zenon
  <2> QED  BY <2>2, <2>4 DEF Kind, Pipe
<1>7. CASE i = 6
  <2>1. SetupPlan[i] = <<~route["play"], "route", "play">>
    BY <1>7 DEF SetupPlan
  <2>2. SetupPlan[i][2] = "route" /\ SetupPlan[i][3] = "play"
    BY <2>1
  <2>3. SetupPlan[i][1] = (~route["play"])
    BY <2>1, FirstOfThree, Zenon
  <2>4. ~route["play"]
    BY <2>3, Zenon
  <2> QED  BY <2>2, <2>4 DEF Kind, Pipe
<1>8. CASE i = 7
  <2>1. SetupPlan[i] = <<~route["capture"], "route", "capture">>
    BY <1>8 DEF SetupPlan
  <2>2. SetupPlan[i][2] = "route" /\ SetupPlan[i][3] = "capture"
    BY <2>1
  <2>3. SetupPlan[i][1] = (~route["capture"])
    BY <2>1, FirstOfThree, Zenon
  <2>4. ~route["capture"]
    BY <2>3, Zenon
  <2> QED  BY <2>2, <2>4 DEF Kind, Pipe
<1>9. CASE i = 8
  <2>1. SetupPlan[i] = <<stream["play"] = "Allocated", "start", "play">>
    BY <1>9 DEF SetupPlan
  <2>2. SetupPlan[i][2] = "start" /\ SetupPlan[i][3] = "play"
    BY <2>1
  <2>3. SetupPlan[i][1] = (stream["play"] = "Allocated")
    BY <2>1, FirstOfThree, Zenon
  <2>4. stream["play"] = "Allocated"
    BY <2>3, Zenon
  <2> QED  BY <2>2, <2>4 DEF Kind, Pipe
<1>10. CASE i = 9
  <2>1. SetupPlan[i] = <<stream["capture"] = "Allocated", "start", "capture">>
    BY <1>10 DEF SetupPlan
  <2>2. SetupPlan[i][2] = "start" /\ SetupPlan[i][3] = "capture"
    BY <2>1
  <2>3. SetupPlan[i][1] = (stream["capture"] = "Allocated")
    BY <2>1, FirstOfThree, Zenon
  <2>4. stream["capture"] = "Allocated"
    BY <2>3, Zenon
  <2> QED  BY <2>2, <2>4 DEF Kind, Pipe
<1> QED  BY <1>1, <1>2, <1>3, <1>4, <1>5, <1>6, <1>7, <1>8, <1>9, <1>10

LEMMA PlanFirst ==
    ASSUME NEW due \in SUBSET DOMAIN SetupPlan, due # {}
    PROVE  (CHOOSE i \in due : \A j \in due : i <= j) \in due
<1>1. DOMAIN SetupPlan = 1 .. 9
  BY DEF SetupPlan
<1>2. \E i \in due : \A j \in due : i <= j
  <2>1. due \subseteq 1 .. 9
    BY <1>1
  <2> QED  BY <2>1
<1> QED  BY <1>2

LEMMA SetupStepStep ==
    ASSUME "none" \notin AudioThread, AudioInv, NEW t \in AudioThread, SetupStep(t)
    PROVE  AudioInv'
<1> DEFINE due == {i \in DOMAIN SetupPlan : SetupPlan[i][1]}
           step == SetupPlan[CHOOSE i \in due : \A j \in due : i <= j]
<1>0. /\ audioAt[t] = "setup" /\ ipc = NoCall /\ audioAt[t] \in Holding
      /\ UNCHANGED <<streamLock, lpeReady, ring, rings, stream, ipcx, ipcd, owed, dsp>>
  BY DEF SetupStep, cardVars, mailVars, Holding
<1>1. audioJob[t] = "exchange" /\ ipc.phase = "none" /\ audioAt \in [AudioThread -> Place]
  BY <1>0, NothingTyped DEF AudioInv, PlaceInv, Jobs, StreamTypes, CallTypes
<1>2. CASE Goto(t, "poll") /\ ipc' = ipc
  <2>1. "poll" \in Holding
    BY DEF Holding
  <2> QED  BY <1>0, <1>1, <1>2, <2>1, HolderGoesOn DEF Goto
<1>3. CASE Fail(t) /\ ipc' = ipc
  <2>1. "stopCapture" \in Holding
    BY DEF Holding, StopLabels
  <2> QED  BY <1>0, <1>1, <1>3, <2>1, HolderGoesOn DEF Goto, Fail
<1>4. CASE due # {} /\ Call(step[2], step[3], FALSE) /\ Stay
  <2>1. PICK i \in due : step = SetupPlan[i]
    BY <1>4, PlanFirst
  <2>2. /\ step[2] \in Kind \ {"drop", "stale"} /\ step[3] \in Pipe
        /\ step[2] = "free" => stream[step[3]] = "Stopping"
        /\ step[2] = "alloc" => stream[step[3]] = "Idle"
        /\ step[2] = "start" => stream[step[3]] = "Allocated"
    BY <2>1, PlanDue
  <2>3. audioAt' = [audioAt EXCEPT ![t] = "setup"] /\ audioJob' = audioJob
    BY <1>0, <1>1, <1>4 DEF Stay
  <2>4. "setup" \in Holding /\ "setup" \notin StopLabels /\ FALSE \in BOOLEAN
    BY DEF Holding, StopLabels
  <2> HIDE DEF step
  <2>5. \E kind \in Kind, pipe \in Pipe, retry \in BOOLEAN :
                    /\ Call(kind, pipe, retry)
                    /\ "setup" = "setup" => kind # "drop"
                    /\ "setup" \in StopLabels => kind \in {"drop", "free"}
                    /\ kind \in {"alloc", "stale"} => stream[pipe] = "Idle"
                    /\ kind = "start" => stream[pipe] = "Allocated"
                    /\ kind \in {"drop", "free"} => stream[pipe] = "Stopping"
    BY <1>4, <2>2, <2>4
  <2> QED  BY <1>0, <1>1, <2>3, <2>4, <2>5, HolderGoesOn
<1> QED  BY <1>2, <1>3, <1>4 DEF SetupStep
\* One stream changes; the command in progress is new or over
LEMMA HolderMovesStream ==
    ASSUME "none" \notin AudioThread, AudioInv,
           NEW t \in AudioThread, audioAt[t] \in Holding,
           NEW l \in Holding, audioAt' = [audioAt EXCEPT ![t] = l],
           UNCHANGED <<audioJob, streamLock, lpeReady, ring, rings, ipcx, ipcd, owed, dsp>>,
           ipc.phase \in {"none", "done"},
           l \in {"setup", "poll"} => audioJob[t] = "exchange",
           l = "setup" => audioAt[t] = "setup",
           NEW p \in Pipe, NEW s \in StreamState, stream' = [stream EXCEPT ![p] = s],
           \/ ipc' = NoCall
           \/ /\ l \in StopLabels /\ s = "Stopping"
              /\ \E kind \in {"drop", "free"}, retry \in BOOLEAN : Call(kind, p, retry),
           ipcx = NoCommand \/ (s = "Stopping" /\ stream[p] # "Idle"),
           s = "Allocated" => dsp[p].state \in {"ready", "running"},
           s = "Running" => dsp[p].state = "running",
           dsp[p].state = "ready" /\ s # "Idle" => dsp[p].ring \in rings,
           dsp[p].state = "running" => s # "Idle"
    PROVE  AudioInv'
<1>0. /\ StreamTypes /\ MailInv /\ PlaceInv /\ StreamInv /\ MailTypes /\ CallTypes
      /\ stream \in [Pipe -> StreamState]
  BY DEF AudioInv, StreamTypes, CallTypes
<1>1. \/ ipc' = NoCall
      \/ \E kind \in Kind, pipe \in Pipe, retry \in BOOLEAN : Call(kind, pipe, retry)
  BY DEF Kind
<1>2. MailTypes' /\ MailInv'
  BY <1>0, <1>1, BetweenCommands
<1>3. \/ ipc'.phase = "none" /\ ipc'.kind = "none"
      \/ /\ ipc'.kind \in {"drop", "free"} /\ ipc'.pipe = p
         /\ l \in StopLabels /\ s = "Stopping"
  <2>1. CASE ipc' = NoCall
    BY <2>1, NothingTyped
  <2>2. CASE ipc' # NoCall
    <3>1. PICK kind \in {"drop", "free"}, retry \in BOOLEAN : Call(kind, p, retry)
      BY <2>2
    <3>2. kind \in Kind
      BY DEF Kind
    <3>3. ipc'.kind = kind /\ ipc'.pipe = p
      BY <3>1, <3>2, CallTyped
    <3> QED  BY <2>2, <3>3
  <2> QED  BY <2>1, <2>2
<1>4. l \in Place /\ (l \notin StopLabels \/ l \notin {"poll", "finish", "setup"})
  BY DEF Place, Holding, StopLabels
<1>5. CallTypes'
  <2>1. l \in Place
    BY DEF Place
  <2>2. stream' \in [Pipe -> StreamState]
    BY <1>0
  <2> QED  BY <1>0, <2>1, <2>2 DEF CallTypes
<1>6. PlaceInv' /\ Detached' = FALSE /\ Detached = FALSE
  BY <1>0, <1>3, <1>4, HolderMoves
<1>7. stream'[p] = s /\ \A q \in Pipe \ {p} : stream'[q] = stream[q]
  BY <1>0
<1>8. InProgress'
  BY <1>3, <1>7 DEF InProgress
<1>9. InMailbox'
  <2>1. CASE ipcx = NoCommand
    BY <2>1, NothingTyped DEF InMailbox
  <2>2. CASE s = "Stopping" /\ stream[p] # "Idle"
    <3>1. InMailbox /\ ipcx.pipe \in Pipe
      BY <1>0 DEF StreamInv, MailTypes, Command
    <3>2. CASE ipcx.pipe = p
      BY <1>6, <1>7, <2>2, <3>1, <3>2 DEF InMailbox
    <3>3. CASE ipcx.pipe # p
      BY <1>6, <1>7, <3>1, <3>3 DEF InMailbox
    <3> QED  BY <3>2, <3>3
  <2> QED  BY <2>1, <2>2
<1>10. ASSUME NEW q \in Pipe PROVE Backed(q)'
  <2>1. Backed(q)
    BY <1>0 DEF StreamInv
  <2>2. CASE q = p
    BY <1>6, <1>7, <2>1, <2>2 DEF Backed
  <2>3. CASE q # p
    BY <1>6, <1>7, <2>1, <2>3 DEF Backed
  <2> QED  BY <2>2, <2>3
<1>11. RingKept'
  BY <1>0 DEF StreamInv, RingKept
<1>12. StreamInv'
  BY <1>8, <1>9, <1>10, <1>11 DEF StreamInv
<1> QED  BY <1>2, <1>5, <1>6, <1>12 DEF AudioInv, StreamTypes

\* What the caller knows of the DSP when a command is accepted
LEMMA AcceptedTruly ==
    ASSUME AudioInv, ipc.phase = "done", Accepted
    PROVE  /\ ipcx = NoCommand
           /\ ipc.kind = "alloc" => dsp[ipc.pipe].state = "ready" /\ dsp[ipc.pipe].ring = ring
           /\ ipc.kind \in {"free", "stale"} => dsp[ipc.pipe].state = "idle"
           /\ ipc.kind = "start" => dsp[ipc.pipe].state = "running"
<1>1. Truly(ipc.result) /\ (ipc.result # "error" => ipcx = NoCommand)
  BY DEF AudioInv, MailInv, Replied
<1>2. ipc.result = "ok"
  BY <1>1 DEF Accepted, Truly
<1> QED  BY <1>1, <1>2 DEF Truly

LEMMA SetupReturnedStep ==
    ASSUME "none" \notin AudioThread, AudioInv, NEW t \in AudioThread, SetupReturned(t)
    PROVE  AudioInv'
<1> DEFINE p == ipc.pipe
<1>0. /\ audioAt[t] = "setup" /\ ipc.phase = "done" /\ audioAt[t] \in Holding
      /\ UNCHANGED <<streamLock, lpeReady, ring, rings, ipcx, ipcd, owed, dsp>>
  BY DEF SetupReturned, mailVars, Holding
<1>1. /\ audioJob[t] = "exchange" /\ audioAt \in [AudioThread -> Place] /\ p \in Pipe
      /\ ring # 0 /\ ipc.kind \in Kind /\ ipc.kind # "drop" /\ stream \in [Pipe -> StreamState]
  BY <1>0 DEF AudioInv, PlaceInv, Locked, Jobs, StreamTypes, CallTypes, MailTypes, Progress,
              MailInv, Progressing
<1>2. InProgress /\ RingKept /\ Backed(p) /\ dsp[p] \in DspState
  BY <1>1 DEF AudioInv, StreamInv, StreamTypes, MailTypes
<1>3. "setup" \in Holding /\ "setup" \notin StopLabels
      /\ "unstart" \in Holding /\ "stopCapture" \in Holding
      /\ {"unstart", "stopCapture"} \cap {"setup", "poll"} = {}
  BY DEF Holding, StopLabels
<1>4. ASSUME NEW kind \in {"alloc", "stale"}, NEW retry \in BOOLEAN, Call(kind, p, retry),
             ipc.kind \in {"alloc", "stale"}, Stay, stream' = stream
      PROVE  AudioInv'
  <2>1. audioAt' = [audioAt EXCEPT ![t] = "setup"] /\ audioJob' = audioJob
    BY <1>0, <1>1, <1>4 DEF Stay
  <2>2. stream[p] = "Idle"
    BY <1>0, <1>2, <1>4 DEF InProgress
  <2>3. \E k \in Kind, pipe \in Pipe, r \in BOOLEAN :
                    /\ Call(k, pipe, r)
                    /\ "setup" = "setup" => k # "drop"
                    /\ "setup" \in StopLabels => k \in {"drop", "free"}
                    /\ k \in {"alloc", "stale"} => stream[pipe] = "Idle"
                    /\ k = "start" => stream[pipe] = "Allocated"
                    /\ k \in {"drop", "free"} => stream[pipe] = "Stopping"
    BY <1>1, <1>3, <1>4, <2>2 DEF Kind
  <2> QED  BY <1>0, <1>1, <1>3, <1>4, <2>1, <2>3, HolderGoesOn
<1>5. CASE Recovers
  <2>1. ipc.kind = "alloc" /\ Call("stale", p, FALSE) /\ Stay /\ stream' = stream
    BY <1>5 DEF SetupReturned, Recovers
  <2> QED  BY <1>4, <2>1
<1>6. CASE ~Recovers /\ ipc.kind = "stale" /\ Accepted
  <2>1. Call("alloc", p, TRUE) /\ Stay /\ stream' = stream
    BY <1>6 DEF SetupReturned
  <2> QED  BY <1>4, <1>6, <2>1
<1>7. CASE ~Recovers /\ ipc.kind # "stale" /\ Accepted
  <2>1. SetupOk(p) /\ Stay
    BY <1>7 DEF SetupReturned
  <2>2. /\ stream' = [stream EXCEPT ![p] = StreamAfter(p)] /\ ipc' = NoCall
        /\ audioAt' = [audioAt EXCEPT ![t] = "setup"] /\ audioJob' = audioJob
    BY <1>0, <1>1, <2>1 DEF SetupOk, On, Stay
  <2>3. /\ ipcx = NoCommand
        /\ ipc.kind = "alloc" => dsp[p].state = "ready" /\ dsp[p].ring = ring
        /\ ipc.kind \in {"free", "stale"} => dsp[p].state = "idle"
        /\ ipc.kind = "start" => dsp[p].state = "running"
    BY <1>0, <1>7, AcceptedTruly
  <2>4. ring \in rings
    BY <1>1, <1>2 DEF RingKept
  <2>5. Detached = FALSE
    BY <1>0 DEF Detached
  <2> DEFINE s == StreamAfter(p)
  <2>6. CASE ipc.kind = "free"
    <3>1. s = "Idle" /\ s \in StreamState
      BY <2>6 DEF StreamAfter, StreamState
    <3> QED  BY <1>0, <1>1, <1>3, <2>2, <2>3, <2>6, <3>1, HolderMovesStream
  <2>7. CASE ipc.kind = "alloc"
    <3>1. s = "Allocated" /\ s \in StreamState
      BY <2>7 DEF StreamAfter, StreamState
    <3> QED  BY <1>0, <1>1, <1>3, <2>2, <2>3, <2>4, <2>7, <3>1, HolderMovesStream
  <2>8. CASE ipc.kind = "start"
    <3>1. s = "Running" /\ s \in StreamState
      BY <2>8 DEF StreamAfter, StreamState
    <3> QED  BY <1>0, <1>1, <1>3, <2>2, <2>3, <2>8, <3>1, HolderMovesStream
  <2>9. CASE ipc.kind \notin {"free", "alloc", "start"}
    <3>1. s = stream[p] /\ s \in StreamState
      BY <1>1, <2>9 DEF StreamAfter
    <3>2. /\ s = "Allocated" => dsp[p].state \in {"ready", "running"}
          /\ s = "Running" => dsp[p].state = "running"
          /\ dsp[p].state = "ready" /\ s # "Idle" => dsp[p].ring \in rings
          /\ dsp[p].state = "running" => s # "Idle"
      BY <1>2, <2>5, <3>1 DEF Backed
    <3> HIDE DEF s
    <3> QED  BY <1>0, <1>1, <1>3, <2>2, <2>3, <3>1, <3>2, HolderMovesStream DEF s
  <2> QED  BY <2>6, <2>7, <2>8, <2>9
<1>8. CASE ~Recovers /\ ~Accepted
  <2>1. SetupFails(t, p)
    BY <1>8 DEF SetupReturned
  <2>2. /\ ipc' = NoCall /\ stream' = stream /\ audioJob' = audioJob
        /\ \/ audioAt' = [audioAt EXCEPT ![t] = "unstart"]
           \/ audioAt' = [audioAt EXCEPT ![t] = "stopCapture"]
    BY <2>1 DEF SetupFails, Goto, Fail
  <2> QED  BY <1>0, <1>3, <2>2, HolderGoesOn
<1> QED  BY <1>5, <1>6, <1>7, <1>8
----------------------------------------------------------------------------
(* Polling and stopping.                                                   *)

LEMMA HolderLeaves ==
    ASSUME "none" \notin AudioThread, AudioInv,
           NEW t \in AudioThread, audioAt[t] \in Holding, ipc.phase = "none",
           NEW l \in {"open", "closed", "make", "unmap"}, NEW job \in Job,
           audioAt' = [audioAt EXCEPT ![t] = l], audioJob' = [audioJob EXCEPT ![t] = job],
           streamLock' = "none",
           IF audioJob[t] = "detach" THEN l = "unmap" /\ job = "detach"
                                     ELSE l # "unmap" /\ job # "detach",
           UNCHANGED <<lpeReady, ipc, ipcx, owed, dsp, stream>>,
           \/ ipcd' = ipcd
           \/ ipcd' = NoMessage,
           ring' \in RingId \cup {0}, ring' # 0 => ring' \in rings',
           rings' = rings \/ \A p \in Pipe : stream[p] = "Idle"
    PROVE  AudioInv'
<1>0. /\ StreamTypes /\ MailInv /\ PlaceInv /\ StreamInv /\ MailTypes /\ CallTypes
  BY DEF AudioInv, StreamTypes
<1>1. PlaceInv' /\ Detached' = FALSE /\ Detached = FALSE
  BY <1>0, HolderReleases
<1>2. l \in Place
  BY DEF Place
<1>3. CallTypes'
  BY <1>0, <1>2 DEF CallTypes
<1>4. MailTypes'
  BY <1>0, NothingTyped DEF MailTypes
<1>5. owed = <<>> /\ ipcd.kind # "reply" /\ ipcd'.kind # "reply"
  BY <1>0, NothingTyped DEF MailInv, Replied, Answering
<1>6. MailInv'
  BY <1>0, <1>5 DEF MailInv, Progressing, Posted, Replied, Answering
<1>7. InProgress' /\ RingKept'
  BY <1>0 DEF InProgress, RingKept
<1>8. ipcx.pipe \in Pipe
  BY <1>0 DEF MailTypes, Command
<1>9. StreamInv'
  <2>1. CASE rings' = rings
    <3>1. InMailbox'
      BY <1>0, <1>1, <2>1 DEF StreamInv, InMailbox
    <3>2. ASSUME NEW p \in Pipe PROVE Backed(p)'
      BY <1>0, <1>1, <2>1 DEF StreamInv, Backed
    <3> QED  BY <1>7, <3>1, <3>2 DEF StreamInv
  <2>2. CASE \A p \in Pipe : stream[p] = "Idle"
    <3>1. InMailbox'
      BY <1>0, <1>1, <1>8, <2>2 DEF StreamInv, InMailbox
    <3>2. ASSUME NEW p \in Pipe PROVE Backed(p)'
      BY <1>0, <1>1, <2>2 DEF StreamInv, Backed
    <3> QED  BY <1>7, <3>1, <3>2 DEF StreamInv
  <2> QED  BY <2>1, <2>2
<1> QED  BY <1>1, <1>3, <1>4, <1>6, <1>9 DEF AudioInv, StreamTypes

LEMMA PollStep ==
    ASSUME "none" \notin AudioThread, AudioInv, NEW t \in AudioThread, ExchangePoll(t)
    PROVE  AudioInv'
<1>0. /\ audioAt[t] = "poll" /\ audioAt[t] \in Holding
      /\ UNCHANGED <<lpeReady, ring, rings, ipc, ipcx, owed, dsp, stream>>
  BY DEF ExchangePoll, cardVars, Holding
<1>1. /\ StreamTypes /\ MailInv /\ PlaceInv /\ StreamInv /\ MailTypes /\ CallTypes
      /\ ipc.phase = "none" /\ audioJob[t] = "exchange" /\ ring \in RingId \cup {0}
      /\ (ring # 0 => ring \in rings) /\ audioAt \in [AudioThread -> Place]
  BY <1>0 DEF AudioInv, StreamTypes, CallTypes, PlaceInv, Locked, Jobs, StreamInv, RingKept
<1>2. ipcd.kind # "reply"
  BY <1>1 DEF MailInv, Replied, Answering
<1>3. CASE Release /\ Return(t, "open") /\ ipcd' = ipcd
  <2>1. audioAt' = [audioAt EXCEPT ![t] = "open"] /\ audioJob' = [audioJob EXCEPT ![t] = "none"]
        /\ streamLock' = "none" /\ "none" \in Job
    BY <1>3 DEF Return, Begin, Release, Job
  <2> QED  BY <1>0, <1>1, <1>3, <2>1, HolderLeaves
<1>4. CASE Fail(t) /\ (ipcd' = ipcd \/ ipcd' = NoMessage) /\ streamLock' = streamLock
  <2>1. audioAt' = [audioAt EXCEPT ![t] = "stopCapture"] /\ audioJob' = audioJob
        /\ "stopCapture" \in Holding /\ "stopCapture" \notin {"setup", "poll", "finish"}
        /\ "stopCapture" \in Place
    BY <1>4 DEF Fail, Goto, Holding, StopLabels, Place
  <2>2. PlaceInv' /\ Detached' = FALSE /\ Detached = FALSE
    BY <1>0, <1>1, <1>4, <2>1, HolderMoves
  <2>3. CallTypes' /\ MailTypes'
    BY <1>0, <1>1, <1>4, <2>1, NothingTyped DEF CallTypes, MailTypes
  <2>4. ipcd'.kind # "reply"
    BY <1>2, <1>4, NothingTyped
  <2>5. MailInv'
    BY <1>0, <1>1, <2>4 DEF MailInv, Progressing, Posted, Replied, Answering, Truly
  <2>6. StreamInv'
    BY <1>0, <1>1, <2>2, StreamsKept
  <2> QED  BY <2>2, <2>3, <2>5, <2>6 DEF AudioInv, StreamTypes
<1>5. CASE TakeAsync /\ Stay /\ streamLock' = streamLock
  <2>1. ipcd' = NoMessage /\ ipcd'.kind # "reply" /\ UNCHANGED <<audioAt, audioJob>>
    BY <1>5, NothingTyped DEF TakeAsync, Stay
  <2>2. PlaceInv' /\ Detached' = FALSE /\ Detached = FALSE
    BY <1>0, <1>1, <1>5, <2>1, HolderStays DEF StopLabels
  <2>3. CallTypes' /\ MailTypes'
    BY <1>0, <1>1, <1>5, <2>1, NothingTyped DEF CallTypes, MailTypes
  <2>5. MailInv'
    BY <1>0, <1>1, <2>1 DEF MailInv, Progressing, Posted, Replied, Answering, Truly
  <2>6. StreamInv'
    BY <1>0, <1>1, <2>2, StreamsKept
  <2> QED  BY <2>2, <2>3, <2>5, <2>6 DEF AudioInv, StreamTypes
<1> QED  BY <1>2, <1>3, <1>4, <1>5 DEF ExchangePoll, TakeAsync

LEMMA AfterStopHeld ==
    ASSUME NEW l \in StopLabels
    PROVE  /\ StopPipe(l) \in Pipe /\ AfterStop(l) \in Holding
           /\ AfterStop(l) \in {"stopCapture", "stopPlay", "finish"}
           /\ AfterStop(l) \notin {"setup", "poll"} /\ l \in Holding /\ l \notin {"setup", "poll"}
BY DEF StopLabels, StopPipe, AfterStop, Holding, Pipe

LEMMA StopStep ==
    ASSUME "none" \notin AudioThread, AudioInv, NEW t \in AudioThread, StopStream(t)
    PROVE  AudioInv'
<1> DEFINE l == audioAt[t]
           p == StopPipe(l)
<1>0. /\ l \in StopLabels /\ ipc = NoCall /\ ipc.phase = "none"
      /\ UNCHANGED <<streamLock, lpeReady, ring, rings, ipcx, ipcd, owed, dsp>>
  BY NothingTyped DEF StopStream, cardVars, mailVars
<1>1. /\ p \in Pipe /\ AfterStop(l) \in Holding /\ AfterStop(l) \notin {"setup", "poll"}
      /\ l \in Holding /\ l \notin {"setup", "poll"} /\ audioAt \in [AudioThread -> Place]
      /\ stream \in [Pipe -> StreamState]
  BY <1>0, AfterStopHeld DEF AudioInv, StreamTypes, CallTypes
<1>2. CASE stream[p] = "Idle"
  <2>1. audioAt' = [audioAt EXCEPT ![t] = AfterStop(l)] /\ audioJob' = audioJob
        /\ stream' = stream /\ ipc' = NoCall
    BY <1>0, <1>2 DEF StopStream, StopNext, Goto
  <2> QED  BY <1>0, <1>1, <2>1, HolderGoesOn
<1>3. CASE stream[p] # "Idle"
  <2>1. /\ stream' = [stream EXCEPT ![p] = "Stopping"] /\ Stay
        /\ Call(IF stream[p] = "Stopping" THEN "free" ELSE "drop", p, FALSE)
    BY <1>3 DEF StopStream, On
  <2>2. \E kind \in {"drop", "free"}, retry \in BOOLEAN : Call(kind, p, retry)
    BY <2>1
  <2>3. audioAt' = [audioAt EXCEPT ![t] = l] /\ audioJob' = audioJob
    BY <1>1, <2>1 DEF Stay
  <2>4. "Stopping" \in StreamState
    BY DEF StreamState
  <2>5. Backed(p)
    BY <1>1 DEF AudioInv, StreamInv
  <2>6. dsp[p].state = "ready" => dsp[p].ring \in rings
    BY <1>3, <2>5 DEF Backed
  <2> QED  BY <1>0, <1>1, <1>3, <2>1, <2>2, <2>3, <2>4, <2>6, HolderMovesStream
<1> QED  BY <1>2, <1>3

LEMMA StopReturnedStep ==
    ASSUME "none" \notin AudioThread, AudioInv, NEW t \in AudioThread, StopReturned(t)
    PROVE  AudioInv'
<1> DEFINE l == audioAt[t]
           p == ipc.pipe
<1>0. /\ l \in StopLabels /\ ipc.phase = "done"
      /\ UNCHANGED <<streamLock, lpeReady, ring, rings, ipcx, ipcd, owed, dsp>>
  BY DEF StopReturned, cardVars, mailVars
<1>1. /\ p \in Pipe /\ AfterStop(l) \in Holding /\ AfterStop(l) \notin {"setup", "poll"}
      /\ l \in Holding /\ l \notin {"setup", "poll"} /\ audioAt \in [AudioThread -> Place]
      /\ stream \in [Pipe -> StreamState] /\ ipc.kind \in {"drop", "free"}
  BY <1>0, AfterStopHeld
  DEF AudioInv, StreamTypes, CallTypes, MailTypes, Progress, PlaceInv, Locked
<1>2. stream[p] = "Stopping"
  BY <1>0, <1>1 DEF AudioInv, StreamInv, InProgress
<1>3. CASE ipc.kind = "drop"
  <2>1. Call("free", p, FALSE) /\ Stay /\ stream' = stream
    BY <1>3 DEF StopReturned
  <2>2. audioAt' = [audioAt EXCEPT ![t] = l] /\ audioJob' = audioJob
    BY <1>1, <2>1 DEF Stay
  <2>3. "free" \in Kind
    BY DEF Kind
  <2>4. \E kind \in Kind, pipe \in Pipe, retry \in BOOLEAN :
                    /\ Call(kind, pipe, retry)
                    /\ l = "setup" => kind # "drop"
                    /\ l \in StopLabels => kind \in {"drop", "free"}
                    /\ kind \in {"alloc", "stale"} => stream[pipe] = "Idle"
                    /\ kind = "start" => stream[pipe] = "Allocated"
                    /\ kind \in {"drop", "free"} => stream[pipe] = "Stopping"
    BY <1>1, <1>2, <2>1, <2>3
  <2> HIDE DEF l
  <2> QED  BY <1>0, <1>1, <2>1, <2>2, <2>4, HolderGoesOn DEF l
<1>4. CASE ipc.kind # "drop" /\ ~Accepted
  <2>1. audioAt' = [audioAt EXCEPT ![t] = AfterStop(l)] /\ audioJob' = audioJob
        /\ stream' = stream /\ ipc' = NoCall
    BY <1>4 DEF StopReturned, StopNext, Goto
  <2> QED  BY <1>0, <1>1, <2>1, HolderGoesOn
<1>5. CASE ipc.kind # "drop" /\ Accepted
  <2>1. audioAt' = [audioAt EXCEPT ![t] = AfterStop(l)] /\ audioJob' = audioJob
        /\ stream' = [stream EXCEPT ![p] = "Idle"] /\ ipc' = NoCall
    BY <1>5 DEF StopReturned, StopNext, Goto, On
  <2>2. ipcx = NoCommand /\ dsp[p].state = "idle" /\ "Idle" \in StreamState
    BY <1>0, <1>1, <1>5, AcceptedTruly DEF StreamState
  <2> QED  BY <1>0, <1>1, <2>1, <2>2, HolderMovesStream
<1> QED  BY <1>3, <1>4, <1>5

LEMMA FinishStep ==
    ASSUME "none" \notin AudioThread, AudioInv, NEW t \in AudioThread, Finish(t)
    PROVE  AudioInv'
<1> DEFINE l == AfterJob(t)
<1>0. /\ audioAt[t] = "finish" /\ audioAt[t] \in Holding /\ streamLock' = "none"
      /\ UNCHANGED <<lpeReady, stream, ipc, ipcx, ipcd, owed, dsp>>
  BY DEF Finish, mailVars, Release, Holding
<1>1. /\ ipc.phase = "none" /\ audioAt \in [AudioThread -> Place] /\ ring \in RingId \cup {0}
      /\ audioJob \in [AudioThread -> Job] /\ (ring # 0 => ring \in rings)
  BY <1>0 DEF AudioInv, PlaceInv, Locked, StreamTypes, CallTypes, StreamInv, RingKept
<1>2. /\ l \in {"open", "closed", "make", "unmap"}
      /\ l = "unmap" <=> audioJob[t] = "detach"
  BY DEF AfterJob
<1>3. \E job \in Job :
         /\ audioAt' = [audioAt EXCEPT ![t] = l] /\ audioJob' = [audioJob EXCEPT ![t] = job]
         /\ IF l \in {"make", "unmap"} THEN job = audioJob[t] ELSE job = "none"
  <2>1. CASE l \in {"open", "closed"}
    BY <2>1 DEF Finish, Return, Begin, Job
  <2>2. CASE l \in {"make", "unmap"}
    <3>1. audioAt' = [audioAt EXCEPT ![t] = l] /\ audioJob' = audioJob
      BY <2>2 DEF Finish, Goto
    <3>2. audioJob' = [audioJob EXCEPT ![t] = audioJob[t]] /\ audioJob[t] \in Job
      BY <1>1, <3>1
    <3> QED  BY <2>2, <3>1, <3>2
  <2> QED  BY <1>2, <2>1, <2>2
<1>4. /\ ring' \in RingId \cup {0} /\ (ring' # 0 => ring' \in rings')
      /\ rings' = rings \/ \A p \in Pipe : stream[p] = "Idle"
  <2>1. CASE audioJob[t] # "exchange" /\ BothIdle
    BY <2>1 DEF Finish, BothIdle
  <2>2. CASE ~(audioJob[t] # "exchange" /\ BothIdle)
    <3>1. rings' = rings /\ ring' = ring
      BY <2>2 DEF Finish
    <3> QED  BY <1>1, <3>1
  <2> QED  BY <2>1, <2>2
<1>5. PICK job \in Job :
         /\ audioAt' = [audioAt EXCEPT ![t] = l] /\ audioJob' = [audioJob EXCEPT ![t] = job]
         /\ IF l \in {"make", "unmap"} THEN job = audioJob[t] ELSE job = "none"
  BY <1>3
<1>6. IF audioJob[t] = "detach" THEN l = "unmap" /\ job = "detach"
                               ELSE l # "unmap" /\ job # "detach"
  BY <1>2, <1>5
<1> HIDE DEF l
<1> QED  BY <1>0, <1>1, <1>2, <1>4, <1>5, <1>6, HolderLeaves DEF l

\* A set of natural numbers has a least element
LEMMA LeastNatural ==
    ASSUME NEW T, T \subseteq Nat, T # {}
    PROVE  \E n \in T : \A m \in T : n <= m
<1> DEFINE R == OpToRel(<, Nat)
<1>1. IsWellFoundedOn(R, Nat)
  BY NatLessThanWellFounded, Zenon
<1>2. \A m, n \in Nat : <<m, n>> \in R <=> m < n
  BY DEF OpToRel
<1> HIDE DEF R
<1>3. \E n \in T : \A m \in T : ~(<<m, n>> \in R)
  BY <1>1, WFMin
<1>4. PICK n \in T : \A m \in T : ~(<<m, n>> \in R)
  BY <1>3
<1>5. \A m \in T : m \in Nat /\ n \in Nat /\ ~(m < n)
  BY <1>2, <1>4
<1>6. \A m \in T : n <= m
  BY <1>5
<1> QED BY <1>6

LEMMA MakeStep ==
    ASSUME "none" \notin AudioThread, AudioInv, NEW t \in AudioThread, MakeRings(t)
    PROVE  AudioInv'
<1> DEFINE unused == RingId \ (rings \cup {dsp[p].ring : p \in Pipe} \cup {ipcx.ring})
<1>0. /\ audioAt[t] = "make" /\ streamLock = "none" /\ audioAt[t] \notin Holding
      /\ UNCHANGED <<lpeReady, streamLock, stream, ipc, ipcx, ipcd, owed, dsp>>
      /\ audioAt' = [audioAt EXCEPT ![t] = "open"] /\ audioJob' = [audioJob EXCEPT ![t] = "none"]
  BY DEF MakeRings, mailVars, Holding, StopLabels, Return, Begin
<1>1. /\ StreamTypes /\ MailInv /\ PlaceInv /\ StreamInv /\ MailTypes /\ CallTypes
      /\ ipc.phase = "none" /\ ring \in RingId \cup {0} /\ (ring # 0 => ring \in rings)
      /\ lpeReady \in BOOLEAN
  BY <1>0 DEF AudioInv, PlaceInv, Locked, StreamTypes, CallTypes, StreamInv, RingKept
<1>2. lpeReady = TRUE
  BY <1>0, <1>1 DEF PlaceInv, Jobs, StopLabels
<1>3. ring' \in RingId \cup {0} /\ (ring' # 0 => ring' \in rings') /\ rings \subseteq rings'
  <2>1. CASE UNCHANGED <<rings, ring>>
    BY <1>1, <2>1
  <2>2. CASE ring' = 0 /\ rings' = rings
    BY <2>2
  <2>3. CASE /\ unused # {} /\ ring' = CHOOSE r \in unused : \A s \in unused : r <= s
             /\ rings' = rings \cup {ring'}
    <3>1. unused \subseteq Nat /\ unused \subseteq RingId
      BY AudioAssumption
    <3>2. \E r \in unused : \A s \in unused : r <= s
      <4> HIDE DEF unused
      <4> QED  BY <2>3, <3>1, LeastNatural
    <3>3. ring' \in unused
      BY <2>3, <3>2
    <3> QED  BY <2>3, <3>1, <3>3
  <2> QED  BY <2>1, <2>2, <2>3 DEF MakeRings
<1>4. MailTypes' /\ MailInv'
  BY <1>0, <1>1, MailKept
<1>5. PlaceInv' /\ Detached' = FALSE /\ Detached = FALSE
  <2>1. "none" \in Job \ {"detach"}
    BY DEF Job
  <2> QED  BY <1>0, <1>1, <1>2, <2>1, OtherMoves
<1>6. CallTypes'
  BY <1>0, <1>1, <1>3 DEF CallTypes, Place, Job
<1>7. StreamInv'
  BY <1>0, <1>1, <1>3, <1>5 DEF StreamInv, InProgress, InMailbox, Backed, RingKept
<1> QED  BY <1>4, <1>5, <1>6, <1>7 DEF AudioInv, StreamTypes

LEMMA UnmapStep ==
    ASSUME "none" \notin AudioThread, AudioInv, NEW t \in AudioThread, UnmapLpe(t)
    PROVE  AudioInv'
<1>0. /\ audioAt[t] = "unmap" /\ stream' = OnPipes("Idle")
      /\ UNCHANGED <<lpeReady, streamLock, ring, rings, ipc, ipcx, ipcd, owed, dsp>>
      /\ audioAt' = [audioAt EXCEPT ![t] = "closed"] /\ audioJob' = [audioJob EXCEPT ![t] = "none"]
  BY DEF UnmapLpe, mailVars, Return, Begin
<1>1. /\ StreamTypes /\ MailInv /\ PlaceInv /\ StreamInv /\ MailTypes /\ CallTypes
      /\ audioAt \in [AudioThread -> Place] /\ audioJob \in [AudioThread -> Job]
      /\ ring \in RingId \cup {0}
  BY DEF AudioInv, StreamTypes, CallTypes
<1>2. /\ lpeReady = FALSE /\ audioJob[t] = "detach"
      /\ \A u \in AudioThread \ {t} : audioAt[u] = "closed"
  BY <1>0, <1>1 DEF PlaceInv, Jobs
<1>3. \A u \in AudioThread : audioAt'[u] = "closed" /\ audioAt[u] \notin Holding
  BY <1>0, <1>1, <1>2 DEF Holding, StopLabels
<1>4. streamLock = "none" /\ ipc.phase = "none"
  BY <1>1, <1>3 DEF PlaceInv, Locked, CallTypes
<1>5. MailTypes' /\ MailInv'
  BY <1>0, <1>1, MailKept
<1>6. CallTypes'
  BY <1>0, <1>1 DEF CallTypes, Place, Job, OnPipes, StreamState
<1>7. Locked'
  BY <1>0, <1>3, <1>4 DEF Locked, Holding, StopLabels
<1>8. Jobs'
  <2>1. \A u \in AudioThread : audioJob'[u] # "detach"
    <3>1. \A u \in AudioThread \ {t} : audioJob[u] # "detach"
      BY <1>1, <1>2 DEF PlaceInv, Jobs, StopLabels
    <3> QED  BY <1>0, <1>1, <3>1
  <2> QED  BY <1>3, <2>1 DEF Jobs
<1>9. Detached' /\ \A p \in Pipe : stream'[p] = "Idle"
  BY <1>0, <1>2, <1>3 DEF Detached, OnPipes
<1>10. StreamInv'
  <2>1. ipcx.pipe \in Pipe
    BY <1>1 DEF MailTypes, Command
  <2>2. InProgress' /\ RingKept'
    BY <1>0, <1>1, <1>4 DEF InProgress, RingKept, StreamInv
  <2>3. InMailbox'
    BY <1>0, <1>1, <1>9, <2>1 DEF StreamInv, InMailbox
  <2>4. ASSUME NEW p \in Pipe PROVE Backed(p)'
    BY <1>0, <1>1, <1>9 DEF StreamInv, Backed
  <2> QED  BY <2>2, <2>3, <2>4 DEF StreamInv
<1> QED  BY <1>5, <1>6, <1>7, <1>8, <1>10 DEF AudioInv, StreamTypes, PlaceInv

----------------------------------------------------------------------------
(* The theorem.                                                            *)

LEMMA InitHolds == ASSUME "none" \notin AudioThread, AudioInit PROVE AudioInv
<1>1. StreamTypes
  BY InitTyped
<1>2. MailInv
  BY NothingTyped DEF AudioInit, MailInv, Progressing, Posted, Replied, Answering
<1>3. PlaceInv
  BY NothingTyped DEF AudioInit, PlaceInv, Locked, Jobs, Holding, StopLabels
<1>4. StreamInv
  BY NothingTyped
  DEF AudioInit, StreamInv, InProgress, InMailbox, Backed, RingKept, OnPipes, Detached
<1> QED  BY <1>1, <1>2, <1>3, <1>4 DEF AudioInv

LEMMA Inductive ==
    ASSUME DspFault = {}, AudioInv, [AudioNext]_audioVars
    PROVE  AudioInv'
<1>0. "none" \notin AudioThread
  BY AudioAssumption
<1>1. CASE Ipc
  BY <1>1, IpcCases
<1>2. CASE Dsp
  BY <1>2, DspCases
<1>3. ASSUME NEW t \in AudioThread, BeginCall(t) \/ AttachLpe(t) \/ AudioCall(t)
      PROVE  AudioInv'
  <2>1. CASE BeginCall(t)
    BY <1>0, <2>1, BeginStep
  <2>2. CASE AttachLpe(t)
    BY <1>0, <2>2, AttachStep
  <2>3. CASE LockStreams(t)
    BY <1>0, <2>3, LockStep
  <2>4. CASE SetupStep(t)
    BY <1>0, <2>4, SetupStepStep
  <2>5. CASE SetupReturned(t)
    BY <1>0, <2>5, SetupReturnedStep
  <2>6. CASE ExchangePoll(t)
    BY <1>0, <2>6, PollStep
  <2>7. CASE StopStream(t)
    BY <1>0, <2>7, StopStep
  <2>8. CASE StopReturned(t)
    BY <1>0, <2>8, StopReturnedStep
  <2>9. CASE Finish(t)
    BY <1>0, <2>9, FinishStep
  <2>10. CASE MakeRings(t)
    BY <1>0, <2>10, MakeStep
  <2>11. CASE UnmapLpe(t)
    BY <1>0, <2>11, UnmapStep
  <2> QED  BY <1>3, <2>1, <2>2, <2>3, <2>4, <2>5, <2>6, <2>7, <2>8, <2>9, <2>10, <2>11
           DEF AudioCall
<1>4. CASE UNCHANGED audioVars
  BY <1>4 DEF audioVars, AudioInv, StreamTypes, CallTypes, MailTypes, MailInv, Progressing, Posted,
              Replied, Answering, Truly, PlaceInv, Locked, Jobs, StreamInv, InProgress,
              InMailbox, Backed, RingKept, Detached
<1> QED  BY <1>1, <1>2, <1>3, <1>4 DEF AudioNext

\* The card and the DSP agree on what moves: a stream that the card calls running
\* runs on the DSP, and the DSP moves samples only through a ring that is still
\* allocated (_BufferExchange, _StopStream, _ForceStop and _GetBuffers), for any
\* number of threads and through every refused, failed and lost command, as long
\* as no answer comes after the host gave up on it and no event is malformed
THEOREM StreamsAgree ==
    ASSUME DspFault = {}
    PROVE  AudioSpec => []AudioStreamsAgree
<1>0. "none" \notin AudioThread
  BY AudioAssumption
<1>1. AudioInit => AudioInv
  BY <1>0, InitHolds
<1>2. AudioInv /\ [AudioNext]_audioVars => AudioInv'
  <2>1. DspFault = {}
    OBVIOUS
  <2> QED  BY <2>1, Inductive
<1>3. AudioInv => AudioStreamsAgree
  BY DEF AudioInv, StreamInv, Backed, AudioStreamsAgree
<1> QED  BY <1>1, <1>2, <1>3, PTL DEF AudioSpec

----------------------------------------------------------------------------
(* The codec, the mixer and the jack: whatever is refused, unplugged or       *)
(* detached, the registers say what the mixer and the state of the jack say.  *)
(* First the sequences of writes: what is in a register is the last write to it. *)

\* A register that none of the writes names keeps its value
LEMMA NotWritten ==
    ASSUME NEW registers, NEW writes, NEW n \in Nat, NEW r \in DOMAIN registers,
           \A i \in 1 .. n : writes[i][1] # r
    PROVE  Written(registers, writes, n)[r] = registers[r]
BY DEF Written

\* The last write that names a register gives it its value
LEMMA LastWrite ==
    ASSUME NEW registers, NEW writes, NEW n \in Nat, NEW r \in DOMAIN registers,
           NEW k \in 1 .. n, writes[k][1] = r, \A i \in k + 1 .. n : writes[i][1] # r
    PROVE  Written(registers, writes, n)[r] = writes[k][2]
<1> DEFINE K == {i \in 1 .. n : writes[i][1] = r}
<1>1. k \in K /\ \A i \in K : i <= k
  OBVIOUS
<1>2. Max(K) = k
  <2> HIDE DEF K
  <2>1. \A x \in K : (\A y \in K : x >= y) => x = k
    <3> SUFFICES ASSUME NEW x \in K, \A y \in K : x >= y PROVE x = k
      OBVIOUS
    <3>1. x \in Nat /\ k \in Nat
      BY DEF K
    <3> QED BY <1>1, <3>1
  <2>2. \A y \in K : k >= y
    BY <1>1 DEF K
  <2> QED BY <1>1, <2>1, <2>2 DEF Max
<1>3. Written(registers, writes, n)[r] = IF K = {} THEN registers[r] ELSE writes[Max(K)][2]
  BY DEF Written
<1> QED BY <1>1, <1>2, <1>3

LEMMA WrittenDomain ==
    ASSUME NEW registers, NEW writes, NEW n
    PROVE  /\ DOMAIN Written(registers, writes, n) = DOMAIN registers
           /\ Written(registers, writes, n) =
                [r \in DOMAIN registers |-> Written(registers, writes, n)[r]]
BY DEF Written

\* Every register that is written is written last once
LastOf(writes, n, r, k) ==
    k \in 1 .. n /\ writes[k][1] = r /\ \A i \in k + 1 .. n : writes[i][1] # r

LEMMA LastExists ==
    ASSUME NEW writes, NEW n \in Nat, NEW r, NEW j \in 1 .. n, writes[j][1] = r
    PROVE  \E k : LastOf(writes, n, r, k)
<1> DEFINE S == {m \in 0 .. n - 1 : writes[n - m][1] = r}
<1>1. n - j \in S
  <2>1. n - j \in 0 .. n - 1 /\ n - (n - j) = j
    OBVIOUS
  <2> QED BY <2>1
<1>2. PICK m \in S : \A x \in S : m <= x
  <2>1. \A m \in S : m \in Nat
    OBVIOUS
  <2> HIDE DEF S
  <2>2. S \subseteq Nat /\ S # {}
    BY <1>1, <2>1
  <2> QED BY <2>2, LeastNatural, Zenon
<1>3. n - m \in 1 .. n /\ writes[n - m][1] = r
  OBVIOUS
<1>4. ASSUME NEW i \in n - m + 1 .. n, writes[i][1] = r PROVE FALSE
  <2>1. n - i \in 0 .. n - 1 /\ n - (n - i) = i
    OBVIOUS
  <2>2. n - i \in S
    BY <1>4, <2>1
  <2> QED BY <1>2, <2>2
<1> QED BY <1>3, <1>4 DEF LastOf

\* Writing one sequence after another
LEMMA Composed ==
    ASSUME NEW V, NEW s \in Seq(V), NEW t \in Seq(V), NEW registers, NEW n \in Nat
    PROVE  /\ n <= Len(s) => Written(registers, s \o t, n) = Written(registers, s, n)
           /\ n <= Len(t) =>
                Written(registers, s \o t, Len(s) + n)
                  = Written(Written(registers, s, Len(s)), t, n)
<1> DEFINE w == s \o t
           l == Len(s)
<1>1. /\ l \in Nat /\ Len(t) \in Nat
      /\ \A i \in 1 .. l : w[i] = s[i]
      /\ \A i \in 1 .. Len(t) : w[l + i] = t[i]
  OBVIOUS
<1>2. ASSUME n <= l PROVE Written(registers, w, n) = Written(registers, s, n)
  <2>1. \A r : {i \in 1 .. n : w[i][1] = r} = {i \in 1 .. n : s[i][1] = r}
    BY <1>1, <1>2
  <2>2. ASSUME NEW r \in DOMAIN registers PROVE Written(registers, w, n)[r] = Written(registers, s, n)[r]
    <3>1. CASE \A i \in 1 .. n : s[i][1] # r
      <4>1. \A i \in 1 .. n : w[i][1] # r
        BY <1>1, <1>2, <3>1
      <4> HIDE DEF w, l
      <4> QED BY <3>1, <4>1, NotWritten
    <3>2. CASE \E i \in 1 .. n : s[i][1] = r
      <4>1. PICK k : LastOf(s, n, r, k)
        <5>1. PICK j \in 1 .. n : s[j][1] = r
          BY <3>2
        <5> HIDE DEF w, l
        <5> QED BY <5>1, LastExists, Zenon
      <4>0. k \in 1 .. n /\ s[k][1] = r /\ \A i \in k + 1 .. n : s[i][1] # r
        BY <4>1 DEF LastOf
      <4>2. w[k] = s[k] /\ \A i \in k + 1 .. n : w[i] = s[i]
        BY <1>1, <1>2, <4>0
      <4>3. w[k][1] = r /\ \A i \in k + 1 .. n : w[i][1] # r
        BY <4>0, <4>2
      <4> HIDE DEF w, l
      <4>4. Written(registers, w, n)[r] = w[k][2]
        BY <4>0, <4>3, LastWrite
      <4>5. Written(registers, s, n)[r] = s[k][2]
        BY <4>0, LastWrite
      <4> QED BY <4>2, <4>4, <4>5
    <3> QED BY <3>1, <3>2
  <2> HIDE DEF w, l
  <2> QED BY <2>2, WrittenDomain
<1>3. ASSUME n <= Len(t)
      PROVE  Written(registers, w, l + n) = Written(Written(registers, s, l), t, n)
  <2> DEFINE x == Written(registers, s, l)
  <2>0. DOMAIN x = DOMAIN registers
    BY WrittenDomain
  <2>1. l + n \in Nat
    BY <1>1
  <2>2. ASSUME NEW r \in DOMAIN registers PROVE Written(registers, w, l + n)[r] = Written(x, t, n)[r]
    <3>1. CASE \E i \in 1 .. n : t[i][1] = r
      <4>1. PICK k : LastOf(t, n, r, k)
        <5>1. PICK j \in 1 .. n : t[j][1] = r
          BY <3>1
        <5> HIDE DEF w, l
        <5> QED BY <5>1, LastExists, Zenon
      <4>0. k \in 1 .. n /\ t[k][1] = r /\ \A i \in k + 1 .. n : t[i][1] # r
        BY <4>1 DEF LastOf
      <4>2. w[l + k] = t[k] /\ l + k \in 1 .. l + n
        BY <1>1, <1>3, <4>0
      <4>3. ASSUME NEW i \in l + k + 1 .. l + n PROVE w[i][1] # r
        <5>1. i - l \in k + 1 .. n /\ i - l \in 1 .. Len(t) /\ l + (i - l) = i
          BY <1>1, <1>3, <4>0
        <5>2. w[i] = t[i - l]
          BY <1>1, <5>1
        <5> QED BY <4>0, <5>1, <5>2
      <4> HIDE DEF w, l, x
      <4>4. Written(registers, w, l + n)[r] = w[l + k][2]
        <5> DEFINE kk == l + k
                   nn == l + n
        <5>1. kk \in 1 .. nn /\ nn \in Nat /\ w[kk][1] = r /\ \A i \in kk + 1 .. nn : w[i][1] # r
          BY <2>1, <4>0, <4>2, <4>3
        <5> HIDE DEF kk, nn
        <5>2. Written(registers, w, nn)[r] = w[kk][2]
          BY <5>1, LastWrite
        <5> QED BY <5>2 DEF kk, nn
      <4>5. Written(x, t, n)[r] = t[k][2]
        BY <4>0, <2>0, LastWrite
      <4> QED BY <4>2, <4>4, <4>5
    <3>2. CASE \A i \in 1 .. n : t[i][1] # r
      <4>1. Written(x, t, n)[r] = x[r]
        <5> HIDE DEF x
        <5> QED BY <3>2, <2>0, NotWritten
      <4>2. ASSUME NEW i \in l + 1 .. l + n PROVE w[i][1] # r
        <5>1. i - l \in 1 .. n /\ i - l \in 1 .. Len(t) /\ l + (i - l) = i
          BY <1>1, <1>3
        <5>2. w[i] = t[i - l]
          BY <1>1, <5>1
        <5> QED BY <3>2, <5>1, <5>2
      <4>3. CASE \A i \in 1 .. l : s[i][1] # r
        <5>1. \A i \in 1 .. l + n : w[i][1] # r
          <6> SUFFICES ASSUME NEW i \in 1 .. l + n PROVE w[i][1] # r
            OBVIOUS
          <6>1. i \in 1 .. l \/ i \in l + 1 .. l + n
            BY <1>1
          <6> QED BY <1>1, <4>2, <4>3, <6>1
        <5> HIDE DEF w, l
        <5>2. Written(registers, w, l + n)[r] = registers[r]
          BY <2>1, <5>1, NotWritten
        <5>3. x[r] = registers[r]
          BY <1>1, <4>3, NotWritten
        <5> QED BY <4>1, <5>2, <5>3
      <4>4. CASE \E i \in 1 .. l : s[i][1] = r
        <5> HIDE DEF w, l
        <5>1. PICK k : LastOf(s, l, r, k)
          <6>1. PICK j \in 1 .. l : s[j][1] = r
            BY <4>4
          <6> QED BY <1>1, <6>1, LastExists, Zenon
        <5>2. k \in 1 .. l /\ s[k][1] = r /\ \A i \in k + 1 .. l : s[i][1] # r
          BY <5>1 DEF LastOf
        <5>3. w[k] = s[k] /\ k \in 1 .. l + n
          BY <1>1, <5>2
        <5>4. \A i \in k + 1 .. l + n : w[i][1] # r
          <6> SUFFICES ASSUME NEW i \in k + 1 .. l + n PROVE w[i][1] # r
            OBVIOUS
          <6>1. i \in k + 1 .. l \/ i \in l + 1 .. l + n
            BY <1>1, <5>2
          <6>2. CASE i \in k + 1 .. l
            <7>1. i \in 1 .. l
              BY <5>2, <6>2
            <7>2. w[i] = s[i]
              BY <1>1, <7>1
            <7> QED BY <5>2, <6>2, <7>2
          <6> QED BY <4>2, <6>1, <6>2
        <5>5. Written(registers, w, l + n)[r] = w[k][2]
          BY <2>1, <5>2, <5>3, <5>4, LastWrite
        <5>6. Written(registers, s, l)[r] = s[k][2]
          <6>1. l \in Nat
            BY <1>1
          <6> QED BY <2>1, <5>2, <6>1, LastWrite
        <5>7. x[r] = s[k][2]
          BY <5>6 DEF x
        <5> QED BY <4>1, <5>3, <5>5, <5>7
      <4> QED BY <4>3, <4>4
    <3> QED BY <3>1, <3>2
  <2>3. /\ Written(registers, w, l + n) = [r \in DOMAIN registers |-> Written(registers, w, l + n)[r]]
        /\ Written(x, t, n) = [r \in DOMAIN x |-> Written(x, t, n)[r]]
    <3> HIDE DEF w, l, x
    <3> QED BY WrittenDomain
  <2>4. [r \in DOMAIN registers |-> Written(registers, w, l + n)[r]]
          = [r \in DOMAIN registers |-> Written(x, t, n)[r]]
    <3> HIDE DEF w, l, x
    <3> QED BY <2>2
  <2> HIDE DEF w, l, x
  <2>5. Written(x, t, n) = [r \in DOMAIN registers |-> Written(x, t, n)[r]]
    BY <2>0, <2>3
  <2>6. Written(registers, w, l + n) = Written(x, t, n)
    BY <2>3, <2>4, <2>5
  <2> QED BY <2>6 DEF x
<1> QED BY <1>2, <1>3

----------------------------------------------------------------------------
(* The sequences of writes that the model is built from, each from registers *)
(* that are in order to registers that are.                                  *)

Register == {"spkL", "spkR", "hpL", "hpR", "output", "eqLevel", "eq", "drc",
             "input", "dmic", "pga", "power"}

\* The equalizer is off where the profile has none, and behind the headphones
InOrder(x) ==
    /\ DOMAIN x = Register
    /\ SpeakerTuning = FALSE => x["eqLevel"] = FALSE /\ x["eq"] = FALSE /\ x["drc"] = FALSE
    /\ x["output"] = "headphone" => x["eq"] = FALSE /\ x["drc"] = FALSE

End(x, w) == Written(x, w, Len(w))
Keeps(x, w) == \A n \in 0 .. Len(w) : InOrder(Written(x, w, n))

\* A sequence leads from registers in order to others, and keeps the order
Leads(V, x, w, y) == w \in Seq(V) /\ Keeps(x, w) /\ y = End(x, w)

LEMMA LeadsOn ==
    ASSUME NEW V, NEW x, NEW s, NEW y, NEW t, NEW z, Leads(V, x, s, y), Leads(V, y, t, z)
    PROVE  Leads(V, x, s \o t, z)
<1>0. /\ s \in Seq(V) /\ t \in Seq(V) /\ Keeps(x, s) /\ Keeps(y, t)
      /\ y = End(x, s) /\ z = End(y, t)
  BY DEF Leads
<1>1. /\ Len(s) \in Nat /\ Len(t) \in Nat /\ Len(s \o t) = Len(s) + Len(t)
      /\ s \o t \in Seq(V)
  BY <1>0
<1>2. End(x, s \o t) = End(End(x, s), t)
  <2>1. Len(t) <= Len(t)
    BY <1>1
  <2>2. Written(x, s \o t, Len(s) + Len(t)) = Written(Written(x, s, Len(s)), t, Len(t))
    BY <1>1, <1>0, <2>1, Composed
  <2> QED BY <1>1, <2>2 DEF End
<1>3. ASSUME NEW n \in 0 .. Len(s \o t) PROVE InOrder(Written(x, s \o t, n))
  <2>1. CASE n <= Len(s)
    <3>1. n \in 0 .. Len(s) /\ n \in Nat
      BY <1>1, <2>1
    <3>2. Written(x, s \o t, n) = Written(x, s, n)
      BY <2>1, <1>0, <3>1, Composed
    <3> QED BY <1>0, <3>1, <3>2 DEF Keeps
  <2>2. CASE n > Len(s)
    <3>1. PICK m \in 0 .. Len(t) : n = Len(s) + m /\ m \in Nat /\ m <= Len(t)
      <4>1. n - Len(s) \in 0 .. Len(t) /\ n = Len(s) + (n - Len(s)) /\ n - Len(s) \in Nat
              /\ n - Len(s) <= Len(t)
        BY <1>1, <2>2
      <4> QED BY <4>1
    <3>2. Written(x, s \o t, Len(s) + m) = Written(Written(x, s, Len(s)), t, m)
      BY <1>0, <3>1, Composed
    <3>3. InOrder(Written(End(x, s), t, m))
      BY <1>0, <3>1 DEF Keeps
    <3> QED BY <1>0, <3>1, <3>2, <3>3 DEF End
  <2>3. n \in Nat
    BY <1>1
  <2> QED BY <1>1, <2>1, <2>2, <2>3
<1>4. Keeps(x, s \o t)
  BY <1>3 DEF Keeps
<1> QED BY <1>0, <1>1, <1>2, <1>4 DEF Leads

PairWritten(x, y, left, right, level) ==
    /\ y[left] = level /\ y[right] = level
    /\ \A r \in Register \ {left, right} : y[r] = x[r]

\* Two registers of a pair; neither decides on the equalizer
LEMMA BothPiece ==
    ASSUME NEW Val, NEW level \in Val, NEW x, InOrder(x),
           NEW left \in Register, NEW right \in Register, left # right,
           left \notin {"output", "eqLevel", "eq", "drc"},
           right \notin {"output", "eqLevel", "eq", "drc"},
           NEW w, w = Both(left, right, level)
    PROVE  /\ w \in Seq(Register \X Val) /\ Keeps(x, w)
           /\ PairWritten(x, End(x, w), left, right, level)
<1>1. /\ w \in Seq(Register \X Val) /\ Len(w) = 2
      /\ w[1] = <<left, level>> /\ w[2] = <<right, level>>
      /\ w[1][1] = left /\ w[1][2] = level /\ w[2][1] = right /\ w[2][2] = level
  BY DEF Both
<1>2. DOMAIN x = Register
  BY DEF InOrder
<1>3. ASSUME NEW n \in 0 .. 2, NEW r \in Register \ {left, right} PROVE Written(x, w, n)[r] = x[r]
  <2>1. \A i \in 1 .. n : w[i][1] # r
    BY <1>1
  <2>2. n \in Nat /\ r \in DOMAIN x
    BY <1>2
  <2> QED BY <2>1, <2>2, NotWritten
<1>4. Written(x, w, 2)[left] = level
  <2>1. 1 \in 1 .. 2 /\ \A i \in 1 + 1 .. 2 : w[i][1] # left
    BY <1>1
  <2> QED BY <1>1, <1>2, <2>1, LastWrite
<1>5. Written(x, w, 2)[right] = level
  <2>1. 2 \in 1 .. 2 /\ \A i \in 2 + 1 .. 2 : w[i][1] # right
    BY <1>1
  <2> QED BY <1>1, <1>2, <2>1, LastWrite
<1>6. Keeps(x, w)
  <2>1. \A n : DOMAIN Written(x, w, n) = Register
    BY <1>2, WrittenDomain
  <2>2. ASSUME NEW n \in 0 .. 2 PROVE InOrder(Written(x, w, n))
    <3>1. /\ Written(x, w, n)["output"] = x["output"] /\ Written(x, w, n)["eqLevel"] = x["eqLevel"]
          /\ Written(x, w, n)["eq"] = x["eq"] /\ Written(x, w, n)["drc"] = x["drc"]
      BY <1>3 DEF Register
    <3> QED BY <2>1, <3>1 DEF InOrder
  <2> QED BY <1>1, <2>2 DEF Keeps
<1> QED BY <1>1, <1>3, <1>4, <1>5, <1>6 DEF End, PairWritten

LEMMA SpeakerPiece ==
    ASSUME NEW Val, NEW level \in Val, NEW x, InOrder(x), NEW w, w = SpeakerWrites(level)
    PROVE  /\ w \in Seq(Register \X Val) /\ Keeps(x, w)
           /\ PairWritten(x, End(x, w), "spkL", "spkR", level)
<1>1. /\ "spkL" \in Register /\ "spkR" \in Register /\ "spkL" # "spkR"
      /\ "spkL" \notin {"output", "eqLevel", "eq", "drc"}
      /\ "spkR" \notin {"output", "eqLevel", "eq", "drc"}
  BY DEF Register
<1>2. w = Both("spkL", "spkR", level)
  BY DEF SpeakerWrites
<1> QED BY <1>1, <1>2, BothPiece, Zenon

LEMMA HeadphonePiece ==
    ASSUME NEW Val, NEW level \in Val, NEW x, InOrder(x), NEW w, w = HeadphoneWrites(level)
    PROVE  /\ w \in Seq(Register \X Val) /\ Keeps(x, w)
           /\ PairWritten(x, End(x, w), "hpL", "hpR", level)
<1>1. /\ "hpL" \in Register /\ "hpR" \in Register /\ "hpL" # "hpR"
      /\ "hpL" \notin {"output", "eqLevel", "eq", "drc"}
      /\ "hpR" \notin {"output", "eqLevel", "eq", "drc"}
  BY DEF Register
<1>2. w = Both("hpL", "hpR", level)
  BY DEF HeadphoneWrites
<1> QED BY <1>1, <1>2, BothPiece, Zenon

SameBut(x, y, R) == \A r \in Register \ R : y[r] = x[r]
Names(w, l, R) == \A i \in 1 .. l : w[i][1] \in R

\* Registers that a sequence does not name stay as they are throughout
LEMMA Framed ==
    ASSUME NEW x, DOMAIN x = Register, NEW w, NEW R, NEW l \in Nat,
           Names(w, l, R), NEW n \in 0 .. l
    PROVE  SameBut(x, Written(x, w, n), R)
<1> SUFFICES ASSUME NEW r \in Register \ R PROVE Written(x, w, n)[r] = x[r]
  BY DEF SameBut
<1>1. n \in Nat /\ r \in DOMAIN x /\ \A i \in 1 .. n : w[i][1] # r
  BY DEF Names
<1> QED BY <1>1, NotWritten

\* The output is switched to the headphones when the equalizer is off
LEMMA OutputPiece ==
    ASSUME NEW Val, NEW v \in Val, NEW x, InOrder(x),
           v = "headphone" => x["eq"] = FALSE /\ x["drc"] = FALSE,
           NEW w, w = <<<<"output", v>>>>
    PROVE  /\ w \in Seq(Register \X Val) /\ Keeps(x, w)
           /\ End(x, w)["output"] = v
           /\ SameBut(x, End(x, w), {"output"})
<1>0. w \in Seq(Register \X Val) /\ Len(w) = 1 /\ w[1][1] = "output" /\ w[1][2] = v
  BY DEF Register
<1>1. DOMAIN x = Register
  BY DEF InOrder
<1>2. ASSUME NEW n \in 0 .. 1
      PROVE  SameBut(x, Written(x, w, n), {"output"})
  <2>1. Names(w, 1, {"output"}) /\ 1 \in Nat
    BY <1>0 DEF Names
  <2> QED BY <1>1, <2>1, Framed
<1>3. Written(x, w, 1)["output"] = v
  <2>1. "output" \in DOMAIN x /\ 1 \in 1 .. 1 /\ \A i \in 1 + 1 .. 1 : w[i][1] # "output"
    BY <1>1 DEF Register
  <2> QED BY <1>0, <2>1, LastWrite
<1>4. Written(x, w, 0)["output"] = x["output"]
  <2>1. "output" \in DOMAIN x /\ \A i \in 1 .. 0 : w[i][1] # "output"
    BY <1>1 DEF Register
  <2> QED BY <2>1, NotWritten
<1>5. ASSUME NEW n \in 0 .. 1 PROVE InOrder(Written(x, w, n))
  <2>1. DOMAIN Written(x, w, n) = Register
    BY <1>1, WrittenDomain
  <2>2. /\ Written(x, w, n)["eqLevel"] = x["eqLevel"]
        /\ Written(x, w, n)["eq"] = x["eq"] /\ Written(x, w, n)["drc"] = x["drc"]
    BY <1>2 DEF Register, SameBut
  <2>3. n = 0 \/ n = 1
    OBVIOUS
  <2>4. \/ Written(x, w, n)["output"] = x["output"]
        \/ Written(x, w, n)["output"] = v
    BY <1>3, <1>4, <2>3
  <2> QED BY <2>1, <2>2, <2>4 DEF InOrder
<1>6. Keeps(x, w)
  BY <1>0, <1>5 DEF Keeps
<1>7. End(x, w) = Written(x, w, 1) /\ 1 \in 0 .. 1
  BY <1>0 DEF End
<1> QED BY <1>0, <1>2, <1>3, <1>6, <1>7

TuningWritten(x, y, on) ==
    /\ SameBut(x, y, {"eqLevel", "eq", "drc"})
    /\ y["eqLevel"] = (SpeakerTuning /\ on) /\ y["eq"] = (SpeakerTuning /\ on)
    /\ y["drc"] = (SpeakerTuning /\ on)

\* The equalizer is switched on when the headphones are not heard
LEMMA TuningPiece ==
    ASSUME NEW Val, BOOLEAN \subseteq Val, NEW on \in BOOLEAN, NEW x, InOrder(x),
           on = TRUE => x["output"] # "headphone", NEW w, w = TuningWrites(on)
    PROVE  /\ w \in Seq(Register \X Val) /\ Keeps(x, w)
           /\ TuningWritten(x, End(x, w), on)
<1>0. DOMAIN x = Register /\ SpeakerTuning \in BOOLEAN
  BY CodecAssumption DEF InOrder
<1>1. CASE SpeakerTuning = FALSE
  <2>1. w = <<>> /\ w \in Seq(Register \X Val) /\ Len(w) = 0
    BY <1>1 DEF TuningWrites
  <2>2. SameBut(x, Written(x, w, 0), {})
    <3>1. Names(w, 0, {}) /\ 0 \in Nat /\ 0 \in 0 .. 0
      BY DEF Names
    <3> QED BY <1>0, <3>1, Framed
  <2>3. End(x, w) = Written(x, w, 0) /\ DOMAIN End(x, w) = Register
    BY <1>0, <2>1, WrittenDomain DEF End
  <2>4. \A r \in Register : End(x, w)[r] = x[r]
    BY <2>2, <2>3 DEF SameBut
  <2>5. /\ End(x, w)["eqLevel"] = x["eqLevel"] /\ End(x, w)["eq"] = x["eq"]
        /\ End(x, w)["drc"] = x["drc"] /\ End(x, w)["output"] = x["output"]
    BY <2>4 DEF Register
  <2>6. InOrder(End(x, w)) /\ TuningWritten(x, End(x, w), on)
    BY <1>1, <2>3, <2>4, <2>5 DEF InOrder, TuningWritten, SameBut
  <2>7. Keeps(x, w)
    BY <2>1, <2>3, <2>6 DEF Keeps
  <2> QED BY <2>1, <2>6, <2>7
<1>2. CASE SpeakerTuning = TRUE
  <2> DEFINE T == {"eqLevel", "eq", "drc"}
  <2>1. w = IF on THEN <<<<"eqLevel", TRUE>>, <<"eq", TRUE>>, <<"drc", TRUE>>>>
                ELSE <<<<"drc", FALSE>>, <<"eq", FALSE>>, <<"eqLevel", FALSE>>>>
    BY <1>2 DEF TuningWrites
  <2>2. /\ w \in Seq(Register \X Val) /\ Len(w) = 3
        /\ w[1][1] = IF on THEN "eqLevel" ELSE "drc"
        /\ w[2][1] = "eq"
        /\ w[3][1] = IF on THEN "drc" ELSE "eqLevel"
        /\ w[1][2] = on /\ w[2][2] = on /\ w[3][2] = on
    <3>1. {"eqLevel", "eq", "drc"} \subseteq Register /\ {TRUE, FALSE} \subseteq Val
      BY DEF Register
    <3>2. CASE on = TRUE
      <4>1. w = <<<<"eqLevel", TRUE>>, <<"eq", TRUE>>, <<"drc", TRUE>>>>
        BY <2>1, <3>2
      <4>2. /\ <<"eqLevel", TRUE>> \in Register \X Val /\ <<"eq", TRUE>> \in Register \X Val
            /\ <<"drc", TRUE>> \in Register \X Val
        BY <3>1
      <4>3. w \in Seq(Register \X Val)
        BY <4>1, <4>2
      <4> QED BY <3>2, <4>1, <4>3
    <3>3. CASE on = FALSE
      <4>1. w = <<<<"drc", FALSE>>, <<"eq", FALSE>>, <<"eqLevel", FALSE>>>>
        BY <2>1, <3>3
      <4>2. /\ <<"drc", FALSE>> \in Register \X Val /\ <<"eq", FALSE>> \in Register \X Val
            /\ <<"eqLevel", FALSE>> \in Register \X Val
        BY <3>1
      <4>3. w \in Seq(Register \X Val)
        BY <4>1, <4>2
      <4>4. w[1][2] = FALSE /\ w[2][2] = FALSE /\ w[3][2] = FALSE
        BY <4>1
      <4>5. Len(w) = 3 /\ w[1][1] = "drc" /\ w[2][1] = "eq" /\ w[3][1] = "eqLevel"
        BY <4>1
      <4> QED BY <3>3, <4>3, <4>4, <4>5
    <3> QED BY <3>2, <3>3
  <2>3. ASSUME NEW n \in 0 .. 3 PROVE SameBut(x, Written(x, w, n), T)
    <3>1. Names(w, 3, T) /\ 3 \in Nat
      BY <2>2 DEF Names
    <3> HIDE DEF T
    <3> QED BY <1>0, <3>1, Framed
  <2>4. ASSUME NEW n \in 0 .. 3, NEW k \in 1 .. 3, NEW r \in T, w[k][1] = r
        PROVE  Written(x, w, n)[r] = IF k <= n THEN on ELSE x[r]
    <3>1. r \in DOMAIN x /\ n \in Nat
      BY <1>0 DEF Register
    <3>2. \A i \in 1 .. 3 : w[i][1] = r => i = k
      BY <2>2, <2>4
    <3>3. w[k][2] = on
      BY <2>2
    <3> HIDE DEF T
    <3>4. CASE k <= n
      <4>1. k \in 1 .. n /\ \A i \in k + 1 .. n : w[i][1] # r
        BY <3>2, <3>4
      <4> QED BY <2>4, <3>1, <3>3, <3>4, <4>1, LastWrite
    <3>5. CASE ~(k <= n)
      <4>1. \A i \in 1 .. n : w[i][1] # r
        BY <3>2, <3>5
      <4> QED BY <3>1, <3>5, <4>1, NotWritten
    <3> QED BY <3>4, <3>5
  <2>5. ASSUME NEW n \in 0 .. 3
        PROVE  /\ Written(x, w, n)["eq"] = IF 2 <= n THEN on ELSE x["eq"]
               /\ Written(x, w, n)["drc"] = IF (IF on THEN 3 ELSE 1) <= n THEN on ELSE x["drc"]
               /\ Written(x, w, n)["eqLevel"]
                    = IF (IF on THEN 1 ELSE 3) <= n THEN on ELSE x["eqLevel"]
    <3>1. /\ w[2][1] = "eq" /\ w[IF on THEN 3 ELSE 1][1] = "drc"
          /\ w[IF on THEN 1 ELSE 3][1] = "eqLevel"
      BY <2>2
    <3>2. {2, IF on THEN 3 ELSE 1, IF on THEN 1 ELSE 3} \subseteq 1 .. 3
      OBVIOUS
    <3> QED BY <2>4, <3>1, <3>2
  <2>6. ASSUME NEW n \in 0 .. 3 PROVE InOrder(Written(x, w, n))
    <3>1. DOMAIN Written(x, w, n) = Register
      BY <1>0, WrittenDomain
    <3>2. Written(x, w, n)["output"] = x["output"]
      BY <2>3 DEF SameBut, Register
    <3>3. x["output"] = "headphone" => on = FALSE /\ x["eq"] = FALSE /\ x["drc"] = FALSE
      BY DEF InOrder
    <3>4. x["output"] = "headphone" => Written(x, w, n)["eq"] = FALSE /\ Written(x, w, n)["drc"] = FALSE
      BY <2>5, <3>3
    <3> QED BY <1>2, <3>1, <3>2, <3>4 DEF InOrder
  <2>7. Keeps(x, w)
    BY <2>2, <2>6 DEF Keeps
  <2>8. End(x, w) = Written(x, w, 3) /\ 3 \in 0 .. 3
    BY <2>2 DEF End
  <2>9. /\ End(x, w)["eq"] = on /\ End(x, w)["drc"] = on /\ End(x, w)["eqLevel"] = on
    BY <2>5, <2>8
  <2>10. TuningWritten(x, End(x, w), on)
    BY <1>2, <2>3, <2>8, <2>9 DEF TuningWritten
  <2> QED BY <2>2, <2>7, <2>10
<1> QED BY <1>0, <1>1, <1>2

CaptureWritten(x, y, headset) ==
    /\ SameBut(x, y, {"input", "dmic", "pga", "power"})
    /\ y["input"] = headset /\ y["dmic"] = ~headset /\ y["pga"] = headset /\ y["power"] = TRUE

LEMMA CapturePiece ==
    ASSUME NEW Val, BOOLEAN \subseteq Val, NEW headset \in BOOLEAN, NEW x, InOrder(x),
           NEW w, w = CaptureWrites(headset)
    PROVE  /\ w \in Seq(Register \X Val) /\ Keeps(x, w)
           /\ CaptureWritten(x, End(x, w), headset)
<1> DEFINE C == {"input", "dmic", "pga", "power"}
<1>0. DOMAIN x = Register
  BY DEF InOrder
<1>1. w = <<<<"input", FALSE>>, <<"dmic", FALSE>>, <<"pga", headset>>, <<"dmic", ~headset>>,
            <<"input", headset>>, <<"power", FALSE>>, <<"power", TRUE>>>>
  BY DEF CaptureWrites
<1>2. w \in Seq(Register \X Val)
  <2> DEFINE P == Register \X Val
  <2>1. /\ <<"input", FALSE>> \in P /\ <<"dmic", FALSE>> \in P /\ <<"pga", headset>> \in P
        /\ <<"dmic", ~headset>> \in P /\ <<"input", headset>> \in P
        /\ <<"power", FALSE>> \in P /\ <<"power", TRUE>> \in P
    BY DEF Register
  <2> HIDE DEF P
  <2>2. w \in Seq(P)
    BY <1>1, <2>1
  <2> QED BY <2>2 DEF P
<1>3. /\ Len(w) = 7
      /\ w[1][1] = "input" /\ w[2][1] = "dmic" /\ w[3][1] = "pga" /\ w[4][1] = "dmic"
      /\ w[5][1] = "input" /\ w[6][1] = "power" /\ w[7][1] = "power"
      /\ w[3][2] = headset /\ w[4][2] = ~headset /\ w[5][2] = headset /\ w[7][2] = TRUE
  BY <1>1
<1>4. ASSUME NEW n \in 0 .. 7 PROVE SameBut(x, Written(x, w, n), C)
  <2>1. Names(w, 7, C) /\ 7 \in Nat
    BY <1>3 DEF Names
  <2> HIDE DEF C
  <2> QED BY <1>0, <2>1, Framed
<1>5. ASSUME NEW n \in 0 .. 7 PROVE InOrder(Written(x, w, n))
  <2>1. DOMAIN Written(x, w, n) = Register
    BY <1>0, WrittenDomain
  <2>2. /\ Written(x, w, n)["output"] = x["output"] /\ Written(x, w, n)["eqLevel"] = x["eqLevel"]
        /\ Written(x, w, n)["eq"] = x["eq"] /\ Written(x, w, n)["drc"] = x["drc"]
    BY <1>4 DEF Register, SameBut
  <2> QED BY <2>1, <2>2 DEF InOrder
<1>6. Keeps(x, w)
  BY <1>3, <1>5 DEF Keeps
<1>7. End(x, w) = Written(x, w, 7) /\ 7 \in 0 .. 7 /\ 7 \in Nat
  BY <1>3 DEF End
<1>8. "input" \in DOMAIN x /\ "dmic" \in DOMAIN x /\ "pga" \in DOMAIN x /\ "power" \in DOMAIN x
  BY <1>0 DEF Register
<1>9. Written(x, w, 7)["input"] = headset
  <2>1. 5 \in 1 .. 7 /\ \A i \in 5 + 1 .. 7 : w[i][1] # "input"
    BY <1>3
  <2> QED BY <1>3, <1>7, <1>8, <2>1, LastWrite
<1>10. Written(x, w, 7)["dmic"] = ~headset
  <2>1. 4 \in 1 .. 7 /\ \A i \in 4 + 1 .. 7 : w[i][1] # "dmic"
    BY <1>3
  <2> QED BY <1>3, <1>7, <1>8, <2>1, LastWrite
<1>11. Written(x, w, 7)["pga"] = headset
  <2>1. 3 \in 1 .. 7 /\ \A i \in 3 + 1 .. 7 : w[i][1] # "pga"
    BY <1>3
  <2> QED BY <1>3, <1>7, <1>8, <2>1, LastWrite
<1>12. Written(x, w, 7)["power"] = TRUE
  <2>1. 7 \in 1 .. 7 /\ \A i \in 7 + 1 .. 7 : w[i][1] # "power"
    BY <1>3
  <2> QED BY <1>3, <1>7, <1>8, <2>1, LastWrite
<1>13. CaptureWritten(x, End(x, w), headset)
  BY <1>4, <1>7, <1>9, <1>10, <1>11, <1>12 DEF CaptureWritten
<1> QED BY <1>2, <1>6, <1>13

\* The end of the reset: the speakers are selected and the codec powered
LEMMA StartPiece ==
    ASSUME NEW Val, TRUE \in Val, "speaker" \in Val, NEW x, InOrder(x),
           NEW w, w = <<<<"output", "speaker">>, <<"power", TRUE>>>>
    PROVE  /\ w \in Seq(Register \X Val) /\ Keeps(x, w)
           /\ End(x, w)["output"] = "speaker"
           /\ SameBut(x, End(x, w), {"output", "power"})
<1>0. DOMAIN x = Register
  BY DEF InOrder
<1>1. /\ w \in Seq(Register \X Val) /\ Len(w) = 2
      /\ w[1][1] = "output" /\ w[2][1] = "power" /\ w[1][2] = "speaker"
  <2>1. <<"output", "speaker">> \in Register \X Val /\ <<"power", TRUE>> \in Register \X Val
    BY DEF Register
  <2> QED BY <2>1
<1>2. ASSUME NEW n \in 0 .. 2 PROVE SameBut(x, Written(x, w, n), {"output", "power"})
  <2> DEFINE C == {"output", "power"}
  <2>1. Names(w, 2, C) /\ 2 \in Nat
    BY <1>1 DEF Names
  <2> HIDE DEF C
  <2>2. SameBut(x, Written(x, w, n), C)
    BY <1>0, <2>1, Framed
  <2> QED BY <2>2 DEF C
<1>3. ASSUME NEW n \in 0 .. 2
      PROVE  Written(x, w, n)["output"] = IF n = 0 THEN x["output"] ELSE "speaker"
  <2>1. "output" \in DOMAIN x /\ n \in Nat
    BY <1>0 DEF Register
  <2>2. CASE n = 0
    <3>1. \A i \in 1 .. n : w[i][1] # "output"
      BY <2>2
    <3> QED BY <2>1, <2>2, <3>1, NotWritten
  <2>3. CASE n # 0
    <3>1. 1 \in 1 .. n /\ \A i \in 1 + 1 .. n : w[i][1] # "output"
      BY <1>1, <2>3
    <3> QED BY <1>1, <2>1, <2>3, <3>1, LastWrite
  <2> QED BY <2>2, <2>3
<1>4. ASSUME NEW n \in 0 .. 2 PROVE InOrder(Written(x, w, n))
  <2>1. DOMAIN Written(x, w, n) = Register
    BY <1>0, WrittenDomain
  <2>2. /\ Written(x, w, n)["eqLevel"] = x["eqLevel"]
        /\ Written(x, w, n)["eq"] = x["eq"] /\ Written(x, w, n)["drc"] = x["drc"]
    BY <1>2 DEF Register, SameBut
  <2>3. Written(x, w, n)["output"] = "headphone" => x["output"] = "headphone"
    BY <1>3
  <2> QED BY <2>1, <2>2, <2>3 DEF InOrder
<1>5. Keeps(x, w)
  BY <1>1, <1>4 DEF Keeps
<1>6. End(x, w) = Written(x, w, 2) /\ 2 \in 0 .. 2
  BY <1>1 DEF End
<1> QED BY <1>1, <1>2, <1>3, <1>5, <1>6

----------------------------------------------------------------------------
(* What the jack is switched by, and what the codec starts with.             *)

\* The registers say what the mixer and a state of the jack say
Says(x, speaker, headphone, present) ==
    /\ DOMAIN x = Register
    /\ x["spkL"] = SpeakerLevel(speaker, present) /\ x["spkR"] = SpeakerLevel(speaker, present)
    /\ x["hpL"] = HeadphoneLevel(headphone, present) /\ x["hpR"] = HeadphoneLevel(headphone, present)
    /\ x["output"] = (IF present["headphone"] THEN "headphone" ELSE "speaker")
    /\ x["power"] = TRUE /\ x["dmic"] = ~present["microphone"]
    /\ x["input"] = present["microphone"] /\ x["pga"] = present["microphone"]
    /\ x["eqLevel"] = (SpeakerTuning /\ ~present["headphone"])
    /\ x["eq"] = (SpeakerTuning /\ ~present["headphone"])
    /\ x["drc"] = (SpeakerTuning /\ ~present["headphone"])

LEMMA EndInOrder ==
    ASSUME NEW V, NEW w \in Seq(V), NEW x, Keeps(x, w)
    PROVE  InOrder(End(x, w))
<1>1. Len(w) \in 0 .. Len(w)
  OBVIOUS
<1> QED BY <1>1 DEF Keeps, End

LEMMA JackWritesKeep ==
    ASSUME NEW present \in [Line -> BOOLEAN], InOrder(codec)
    PROVE  /\ Len(JackWrites(present)) \in Nat /\ Keeps(codec, JackWrites(present))
           /\ Says(End(codec, JackWrites(present)), sound.speaker, sound.headphone, present)
<1> DEFINE h == present["headphone"]
           m == present["microphone"]
           sp == SpeakerLevel(sound.speaker, present)
           hp == HeadphoneLevel(sound.headphone, present)
           Val == BOOLEAN \cup {"headphone", "speaker", sp, hp}
           V == Register \X Val
           s == SpeakerWrites(sp)
           p == HeadphoneWrites(hp)
           c == CaptureWrites(m)
<1>1. h \in BOOLEAN /\ m \in BOOLEAN
  BY DEF Line
<1>2. sp \in Val /\ hp \in Val /\ BOOLEAN \subseteq Val /\ "headphone" \in Val /\ "speaker" \in Val
  OBVIOUS
<1>3. CASE h = TRUE
  <2> DEFINE t == TuningWrites(FALSE)
             o == <<<<"output", "headphone">>>>
             a1 == s
             x1 == End(codec, a1)
             a2 == t
             x2 == End(x1, a2)
             a3 == o
             x3 == End(x2, a3)
             a4 == p
             x4 == End(x3, a4)
             x5 == End(x4, c)
             b2 == a1 \o a2
             b3 == b2 \o a3
             b4 == b3 \o a4
             b5 == b4 \o c
  <2>1. JackWrites(present) = b5
    BY <1>3 DEF JackWrites
  <2>2. /\ a1 \in Seq(V) /\ Keeps(codec, a1) /\ InOrder(x1)
        /\ PairWritten(codec, x1, "spkL", "spkR", sp)
    <3> HIDE DEF h, m, sp, hp, Val
    <3>1. /\ a1 \in Seq(V) /\ Keeps(codec, a1)
          /\ PairWritten(codec, x1, "spkL", "spkR", sp)
      BY <1>2, SpeakerPiece
    <3> QED BY <3>1, EndInOrder
  <2>3. /\ t \in Seq(V) /\ Keeps(x1, t) /\ InOrder(x2) /\ TuningWritten(x1, x2, FALSE)
    <3> HIDE DEF h, m, sp, hp, Val, x1
    <3>1. /\ t \in Seq(V) /\ Keeps(x1, t) /\ TuningWritten(x1, x2, FALSE)
      BY <1>2, <2>2, TuningPiece
    <3> QED BY <3>1, EndInOrder
  <2>4. /\ o \in Seq(V) /\ Keeps(x2, o) /\ InOrder(x3)
        /\ x3["output"] = "headphone" /\ SameBut(x2, x3, {"output"})
    <3> HIDE DEF h, m, sp, hp, Val, x2
    <3>0. "headphone" = "headphone" => x2["eq"] = FALSE /\ x2["drc"] = FALSE
      BY <2>3 DEF TuningWritten
    <3>1. /\ o \in Seq(V) /\ Keeps(x2, o)
          /\ x3["output"] = "headphone" /\ SameBut(x2, x3, {"output"})
      BY <1>2, <2>3, <3>0, OutputPiece
    <3> QED BY <3>1, EndInOrder
  <2>5. /\ p \in Seq(V) /\ Keeps(x3, p) /\ InOrder(x4)
        /\ PairWritten(x3, x4, "hpL", "hpR", hp)
    <3> HIDE DEF h, m, sp, hp, Val, x3
    <3>1. /\ p \in Seq(V) /\ Keeps(x3, p)
          /\ PairWritten(x3, x4, "hpL", "hpR", hp)
      BY <1>2, <2>4, HeadphonePiece
    <3> QED BY <3>1, EndInOrder
  <2>6. /\ c \in Seq(V) /\ Keeps(x4, c) /\ InOrder(x5) /\ CaptureWritten(x4, x5, m)
    <3> HIDE DEF h, m, sp, hp, Val, x4
    <3>1. /\ c \in Seq(V) /\ Keeps(x4, c) /\ CaptureWritten(x4, x5, m)
      BY <1>1, <1>2, <2>5, CapturePiece
    <3> QED BY <3>1, EndInOrder
  <2>7. Keeps(codec, b5) /\ End(codec, b5) = x5 /\ Len(b5) \in Nat
    <3>1. Leads(V, codec, a1, x1) /\ Leads(V, x1, a2, x2)
      BY <2>2, <2>3 DEF Leads
    <3>2. Leads(V, x2, a3, x3)
      BY <2>4 DEF Leads
    <3>3. Leads(V, x3, a4, x4)
      BY <2>5 DEF Leads
    <3>4. Leads(V, x4, c, x5)
      BY <2>6 DEF Leads
    <3> HIDE DEF V, a1, a2, a3, a4, c, x1, x2, x3, x4, x5
    <3>5. Leads(V, codec, b2, x2)
      BY <3>1, LeadsOn
    <3> HIDE DEF b2
    <3>6. Leads(V, codec, b3, x3)
      BY <3>2, <3>5, LeadsOn
    <3> HIDE DEF b3
    <3>7. Leads(V, codec, b4, x4)
      BY <3>3, <3>6, LeadsOn
    <3> HIDE DEF b4
    <3>8. Leads(V, codec, b5, x5)
      BY <3>4, <3>7, LeadsOn
    <3>9. Len(b5) \in Nat
      BY <3>8 DEF Leads
    <3> QED BY <3>8, <3>9 DEF Leads
  <2>8. Says(x5, sound.speaker, sound.headphone, present)
    <3> HIDE DEF x1, x2, x3, x4, x5, sp, hp
    <3>1. DOMAIN x5 = Register
      BY <2>6 DEF InOrder
    <3>2. x5["spkL"] = sp /\ x5["spkR"] = sp /\ x5["hpL"] = hp /\ x5["hpR"] = hp
      BY <2>2, <2>3, <2>4, <2>5, <2>6
         DEF PairWritten, TuningWritten, SameBut, CaptureWritten, Register
    <3>3. x5["output"] = "headphone"
      BY <2>2, <2>3, <2>4, <2>5, <2>6
         DEF PairWritten, TuningWritten, SameBut, CaptureWritten, Register
    <3>4. /\ x5["eqLevel"] = (SpeakerTuning /\ FALSE) /\ x5["eq"] = (SpeakerTuning /\ FALSE)
          /\ x5["drc"] = (SpeakerTuning /\ FALSE)
      BY <2>2, <2>3, <2>4, <2>5, <2>6
         DEF PairWritten, TuningWritten, SameBut, CaptureWritten, Register
    <3>5. x5["input"] = m /\ x5["dmic"] = ~m /\ x5["pga"] = m /\ x5["power"] = TRUE
      BY <2>6 DEF CaptureWritten
    <3> QED BY <1>3, <3>1, <3>2, <3>3, <3>4, <3>5 DEF Says, sp, hp
  <2> QED BY <2>1, <2>7, <2>8
<1>4. CASE h = FALSE
  <2> DEFINE t == TuningWrites(TRUE)
             o == <<<<"output", "speaker">>>>
             a1 == p
             x1 == End(codec, a1)
             a2 == o
             x2 == End(x1, a2)
             a3 == t
             x3 == End(x2, a3)
             a4 == s
             x4 == End(x3, a4)
             x5 == End(x4, c)
             b2 == a1 \o a2
             b3 == b2 \o a3
             b4 == b3 \o a4
             b5 == b4 \o c
  <2>1. JackWrites(present) = b5
    BY <1>4 DEF JackWrites
  <2>2. /\ a1 \in Seq(V) /\ Keeps(codec, a1) /\ InOrder(x1)
        /\ PairWritten(codec, x1, "hpL", "hpR", hp)
    <3> HIDE DEF h, m, sp, hp, Val
    <3>1. /\ a1 \in Seq(V) /\ Keeps(codec, a1)
          /\ PairWritten(codec, x1, "hpL", "hpR", hp)
      BY <1>2, HeadphonePiece
    <3> QED BY <3>1, EndInOrder
  <2>3. /\ o \in Seq(V) /\ Keeps(x1, o) /\ InOrder(x2)
        /\ x2["output"] = "speaker" /\ SameBut(x1, x2, {"output"})
    <3> HIDE DEF h, m, sp, hp, Val, x1
    <3>0. "speaker" = "headphone" => x1["eq"] = FALSE /\ x1["drc"] = FALSE
      BY <2>2 DEF TuningWritten
    <3>1. /\ o \in Seq(V) /\ Keeps(x1, o)
          /\ x2["output"] = "speaker" /\ SameBut(x1, x2, {"output"})
      BY <1>2, <2>2, <3>0, OutputPiece
    <3> QED BY <3>1, EndInOrder
  <2>4. /\ t \in Seq(V) /\ Keeps(x2, t) /\ InOrder(x3) /\ TuningWritten(x2, x3, TRUE)
    <3> HIDE DEF h, m, sp, hp, Val, x2
    <3>1. /\ t \in Seq(V) /\ Keeps(x2, t) /\ TuningWritten(x2, x3, TRUE)
      BY <1>2, <2>3, TuningPiece
    <3> QED BY <3>1, EndInOrder
  <2>5. /\ s \in Seq(V) /\ Keeps(x3, s) /\ InOrder(x4)
        /\ PairWritten(x3, x4, "spkL", "spkR", sp)
    <3> HIDE DEF h, m, sp, hp, Val, x3
    <3>1. /\ s \in Seq(V) /\ Keeps(x3, s)
          /\ PairWritten(x3, x4, "spkL", "spkR", sp)
      BY <1>2, <2>4, SpeakerPiece
    <3> QED BY <3>1, EndInOrder
  <2>6. /\ c \in Seq(V) /\ Keeps(x4, c) /\ InOrder(x5) /\ CaptureWritten(x4, x5, m)
    <3> HIDE DEF h, m, sp, hp, Val, x4
    <3>1. /\ c \in Seq(V) /\ Keeps(x4, c) /\ CaptureWritten(x4, x5, m)
      BY <1>1, <1>2, <2>5, CapturePiece
    <3> QED BY <3>1, EndInOrder
  <2>7. Keeps(codec, b5) /\ End(codec, b5) = x5 /\ Len(b5) \in Nat
    <3>1. Leads(V, codec, a1, x1) /\ Leads(V, x1, a2, x2)
      BY <2>2, <2>3 DEF Leads
    <3>2. Leads(V, x2, a3, x3)
      BY <2>4 DEF Leads
    <3>3. Leads(V, x3, a4, x4)
      BY <2>5 DEF Leads
    <3>4. Leads(V, x4, c, x5)
      BY <2>6 DEF Leads
    <3> HIDE DEF V, a1, a2, a3, a4, c, x1, x2, x3, x4, x5
    <3>5. Leads(V, codec, b2, x2)
      BY <3>1, LeadsOn
    <3> HIDE DEF b2
    <3>6. Leads(V, codec, b3, x3)
      BY <3>2, <3>5, LeadsOn
    <3> HIDE DEF b3
    <3>7. Leads(V, codec, b4, x4)
      BY <3>3, <3>6, LeadsOn
    <3> HIDE DEF b4
    <3>8. Leads(V, codec, b5, x5)
      BY <3>4, <3>7, LeadsOn
    <3>9. Len(b5) \in Nat
      BY <3>8 DEF Leads
    <3> QED BY <3>8, <3>9 DEF Leads
  <2>8. Says(x5, sound.speaker, sound.headphone, present)
    <3> HIDE DEF x1, x2, x3, x4, x5, sp, hp
    <3>1. DOMAIN x5 = Register
      BY <2>6 DEF InOrder
    <3>2. x5["spkL"] = sp /\ x5["spkR"] = sp /\ x5["hpL"] = hp /\ x5["hpR"] = hp
      BY <2>2, <2>3, <2>4, <2>5, <2>6
         DEF PairWritten, TuningWritten, SameBut, CaptureWritten, Register
    <3>3. x5["output"] = "speaker"
      BY <2>2, <2>3, <2>4, <2>5, <2>6
         DEF PairWritten, TuningWritten, SameBut, CaptureWritten, Register
    <3>4. /\ x5["eqLevel"] = (SpeakerTuning /\ TRUE) /\ x5["eq"] = (SpeakerTuning /\ TRUE)
          /\ x5["drc"] = (SpeakerTuning /\ TRUE)
      BY <2>2, <2>3, <2>4, <2>5, <2>6
         DEF PairWritten, TuningWritten, SameBut, CaptureWritten, Register
    <3>5. x5["input"] = m /\ x5["dmic"] = ~m /\ x5["pga"] = m /\ x5["power"] = TRUE
      BY <2>6 DEF CaptureWritten
    <3> QED BY <1>4, <3>1, <3>2, <3>3, <3>4, <3>5 DEF Says, sp, hp
  <2> QED BY <2>1, <2>7, <2>8
<1> QED BY <1>1, <1>3, <1>4

LEMMA InitialWritesKeep ==
    LET x == End(ResetRegisters, InitialWrites) IN
    /\ Len(InitialWrites) \in Nat /\ InOrder(ResetRegisters)
    /\ Keeps(ResetRegisters, InitialWrites)
    /\ DOMAIN x = Register
    /\ x["spkL"] = Level(sound.speaker.gain, FALSE) /\ x["spkR"] = Level(sound.speaker.gain, FALSE)
    /\ x["hpL"] = Level(sound.headphone.gain, TRUE) /\ x["hpR"] = Level(sound.headphone.gain, TRUE)
    /\ x["output"] = "speaker" /\ x["power"] = TRUE /\ x["dmic"] = TRUE
    /\ x["input"] = FALSE /\ x["pga"] = FALSE
    /\ x["eqLevel"] = SpeakerTuning /\ x["eq"] = SpeakerTuning /\ x["drc"] = SpeakerTuning
<1> DEFINE sp == Level(sound.speaker.gain, FALSE)
           hp == Level(sound.headphone.gain, TRUE)
           Val == BOOLEAN \cup {"speaker", sp, hp}
           V == Register \X Val
           x0 == ResetRegisters
           a1 == HeadphoneWrites(hp)
           x1 == End(x0, a1)
           a2 == SpeakerWrites(sp)
           x2 == End(x1, a2)
           a3 == TuningWrites(TRUE)
           x3 == End(x2, a3)
           a4 == <<<<"output", "speaker">>, <<"power", TRUE>>>>
           x4 == End(x3, a4)
           a5 == CaptureWrites(FALSE)
           x5 == End(x4, a5)
           b2 == a1 \o a2
           b3 == b2 \o a3
           b4 == b3 \o a4
           b5 == b4 \o a5
<1>1. /\ sp \in Val /\ hp \in Val /\ BOOLEAN \subseteq Val /\ "speaker" \in Val /\ TRUE \in Val
      /\ FALSE \in BOOLEAN /\ TRUE \in BOOLEAN
  OBVIOUS
<1>2. InitialWrites = b5
  BY DEF InitialWrites
<1>3. InOrder(x0) /\ x0["output"] = "none"
  <2>1. DOMAIN x0 = Register
    BY DEF ResetRegisters, Register
  <2>2. x0["eqLevel"] = FALSE /\ x0["eq"] = FALSE /\ x0["drc"] = FALSE /\ x0["output"] = "none"
    BY DEF ResetRegisters
  <2> HIDE DEF x0
  <2> QED BY <2>1, <2>2 DEF InOrder
<1> HIDE DEF sp, hp, Val, x0
<1>4. Leads(V, x0, a1, x1) /\ InOrder(x1) /\ PairWritten(x0, x1, "hpL", "hpR", hp)
  <2>1. a1 \in Seq(V) /\ Keeps(x0, a1) /\ PairWritten(x0, x1, "hpL", "hpR", hp)
    BY <1>1, <1>3, HeadphonePiece
  <2> QED BY <2>1, EndInOrder DEF Leads
<1>5. Leads(V, x1, a2, x2) /\ InOrder(x2) /\ PairWritten(x1, x2, "spkL", "spkR", sp)
  <2> HIDE DEF x1
  <2>1. a2 \in Seq(V) /\ Keeps(x1, a2) /\ PairWritten(x1, x2, "spkL", "spkR", sp)
    BY <1>1, <1>4, SpeakerPiece
  <2> QED BY <2>1, EndInOrder DEF Leads
<1>6. x2["output"] = "none"
  BY <1>3, <1>4, <1>5 DEF PairWritten, Register
<1>7. Leads(V, x2, a3, x3) /\ InOrder(x3) /\ TuningWritten(x2, x3, TRUE)
  <2> HIDE DEF x2
  <2>1. a3 \in Seq(V) /\ Keeps(x2, a3) /\ TuningWritten(x2, x3, TRUE)
    BY <1>1, <1>5, <1>6, TuningPiece
  <2> QED BY <2>1, EndInOrder DEF Leads
<1>8. /\ Leads(V, x3, a4, x4) /\ InOrder(x4)
      /\ x4["output"] = "speaker" /\ SameBut(x3, x4, {"output", "power"})
  <2> HIDE DEF x3
  <2>1. /\ a4 \in Seq(V) /\ Keeps(x3, a4)
        /\ x4["output"] = "speaker" /\ SameBut(x3, x4, {"output", "power"})
    BY <1>1, <1>7, StartPiece
  <2> QED BY <2>1, EndInOrder DEF Leads
<1>9. Leads(V, x4, a5, x5) /\ InOrder(x5) /\ CaptureWritten(x4, x5, FALSE)
  <2> HIDE DEF x4
  <2>1. a5 \in Seq(V) /\ Keeps(x4, a5) /\ CaptureWritten(x4, x5, FALSE)
    BY <1>1, <1>8, CapturePiece
  <2> QED BY <2>1, EndInOrder DEF Leads
<1>10. Leads(V, x0, b5, x5)
  <2> HIDE DEF V, a1, a2, a3, a4, a5, x1, x2, x3, x4, x5
  <2>1. Leads(V, x0, b2, x2)
    BY <1>4, <1>5, LeadsOn
  <2> HIDE DEF b2
  <2>2. Leads(V, x0, b3, x3)
    BY <2>1, <1>7, LeadsOn
  <2> HIDE DEF b3
  <2>3. Leads(V, x0, b4, x4)
    BY <2>2, <1>8, LeadsOn
  <2> HIDE DEF b4
  <2> QED BY <2>3, <1>9, LeadsOn
<1> HIDE DEF x1, x2, x3, x4, x5
<1>11. DOMAIN x5 = Register
  BY <1>9 DEF InOrder
<1>12. x5["spkL"] = sp /\ x5["spkR"] = sp /\ x5["hpL"] = hp /\ x5["hpR"] = hp
  BY <1>4, <1>5, <1>7, <1>8, <1>9 DEF PairWritten, TuningWritten, SameBut, CaptureWritten, Register
<1>13. /\ x5["output"] = "speaker" /\ x5["input"] = FALSE /\ x5["dmic"] = TRUE
       /\ x5["pga"] = FALSE /\ x5["power"] = TRUE
  BY <1>8, <1>9 DEF SameBut, CaptureWritten, Register
<1>14. x5["eqLevel"] = SpeakerTuning /\ x5["eq"] = SpeakerTuning /\ x5["drc"] = SpeakerTuning
  <2>1. SpeakerTuning \in BOOLEAN
    BY CodecAssumption
  <2>2. x3["eqLevel"] = SpeakerTuning /\ x3["eq"] = SpeakerTuning /\ x3["drc"] = SpeakerTuning
    BY <1>7, <2>1 DEF TuningWritten
  <2> QED BY <2>2, <1>8, <1>9 DEF SameBut, CaptureWritten, Register
<1>15. /\ End(x0, InitialWrites) = x5 /\ Keeps(x0, InitialWrites)
       /\ Len(InitialWrites) \in Nat
  <2> HIDE DEF b5, V
  <2> QED BY <1>2, <1>10 DEF Leads
<1> QED BY <1>3, <1>11, <1>12, <1>13, <1>14, <1>15 DEF x0, sp, hp

\* How a sequence of writes may end
LEMMA WritingEnds ==
    ASSUME NEW x, NEW w, Len(w) \in Nat, Keeps(x, w), NEW e \in Writing(x, w)
    PROVE  /\ e.ok \in BOOLEAN /\ InOrder(e.codec)
           /\ e.ok = TRUE => card.i2c /\ e.codec = End(x, w)
           /\ \E n \in 0 .. Len(w) : e.codec = Written(x, w, n)
<1> DEFINE After(n, ok) == [ok |-> ok, codec |-> Written(x, w, n)]
<1>1. \/ e = After(0, FALSE)
      \/ card.i2c /\ e = After(Len(w), TRUE)
      \/ \E n \in 0 .. Len(w) : e = After(n, FALSE)
  BY DEF Writing
<1>2. ASSUME NEW n \in 0 .. Len(w), NEW ok \in BOOLEAN, e = After(n, ok)
      PROVE  e.ok = ok /\ e.codec = Written(x, w, n) /\ InOrder(e.codec)
  BY <1>2 DEF Keeps
<1>3. 0 \in 0 .. Len(w) /\ Len(w) \in 0 .. Len(w)
  OBVIOUS
<1> HIDE DEF After
<1> QED BY <1>1, <1>2, <1>3 DEF End

----------------------------------------------------------------------------
(* The inductive invariant.                                                *)

Gain == Volume \cup {0}
Levels == [gain : Gain, muted : BOOLEAN]
Heard == {"speaker", "headphone", "route"}
Stage == {"idle", "firmware", "init", "jack", "failed", "done", "microphone", "apply",
          "teardown", "headphone drains", "microphone drains", "unbind"}
Sound == [speaker : Levels, headphone : Levels, present : [Line -> BOOLEAN], faults : Nat,
          dirty : SUBSET Heard]
Jack == [plugged : [Line -> BOOLEAN], last : [Line -> BOOLEAN], watched : SUBSET Line,
         lock : Caller \cup {"none"}, at : {"wait", "event", "apply"},
         line : Line \cup {"none"}, level : BOOLEAN, other : BOOLEAN,
         missed : SUBSET Line, moves : Nat]
CardState == [hooks : Nat, lpe : BOOLEAN, lpeReady : BOOLEAN, pmc : BOOLEAN,
              present : BOOLEAN, i2c : BOOLEAN, ready : BOOLEAN]
Thread == [at : Stage, read : [Line -> BOOLEAN], told : SUBSET Line]
Mix == [at : {"idle", "speaker", "headphone", "done"}, speaker : Levels, headphone : Levels,
        wants : SUBSET {"speaker", "headphone"}]

CodecTypes ==
    /\ sound \in Sound /\ jack \in Jack /\ card \in CardState
    /\ call \in [Caller -> Thread] /\ mix \in [Mixer -> Mix]

\* What the registers say of the mixer and of the jack, part by part
Speaks(x, s) == "speaker" \notin s.dirty =>
    x["spkL"] = SpeakerLevel(s.speaker, s.present) /\ x["spkR"] = SpeakerLevel(s.speaker, s.present)
Phones(x, s) == "headphone" \notin s.dirty =>
    x["hpL"] = HeadphoneLevel(s.headphone, s.present) /\ x["hpR"] = HeadphoneLevel(s.headphone, s.present)
Routed(x, s) == "route" \notin s.dirty =>
    /\ x["output"] = (IF s.present["headphone"] THEN "headphone" ELSE "speaker")
    /\ x["power"] = TRUE /\ x["dmic"] = ~s.present["microphone"]
    /\ x["input"] = s.present["microphone"] /\ x["pga"] = s.present["microphone"]
    /\ x["eqLevel"] = (SpeakerTuning /\ ~s.present["headphone"])
    /\ x["eq"] = (SpeakerTuning /\ ~s.present["headphone"])
    /\ x["drc"] = (SpeakerTuning /\ ~s.present["headphone"])
Agree(x, s) == InOrder(x) /\ Speaks(x, s) /\ Phones(x, s) /\ Routed(x, s)
RegistersInv == Agree(codec, sound)

\* fJackLock is held by the thread that looks at the microphone's line or that
\* waits for the handlers; without it both lines are watched or the headphone's
\* alone, or none
Locking == {"microphone", "headphone drains", "microphone drains"}
LockInv ==
    /\ \A c \in Caller : (call[c].at \in Locking) <=> (jack.lock = c)
    /\ \A c \in Caller :
          /\ call[c].at = "headphone drains" => "headphone" \notin jack.watched
          /\ call[c].at = "microphone drains" => jack.watched = {}
          /\ call[c].at = "microphone" => jack.watched = {"headphone"}
    /\ jack.lock = "none" /\ "headphone" \notin jack.watched => jack.watched = {}

\* A handler runs for a line that is watched, or whose Reset waits for it
HandlerInv ==
    jack.at # "wait" =>
        /\ jack.line \in Line
        /\ jack.line \in jack.watched => jack.last[jack.line] = jack.level
        /\ \/ jack.line \in jack.watched
           \/ \E c \in Caller : call[c].at = "headphone drains" /\ jack.line = "headphone"
           \/ \E c \in Caller : call[c].at = "microphone drains" /\ jack.line = "microphone"

\* A line that no handler runs for is as it was applied last, or as the only
\* thread that is about to apply what it read has read it
Applying(c) == call[c].at \in {"microphone", "apply"}
Ending == \E c \in Caller : call[c].at \in {"teardown", "headphone drains", "microphone drains"}
Alone(c) == \A d \in Caller \ {c} : ~Applying(d)
AppliedInv ==
    ~Ending /\ (\A c \in Caller : ~Applying(c)) =>
        \A l \in jack.watched \ jack.missed : NotHandling(l) => sound.present[l] = jack.last[l]
ReadInv ==
    ~Ending => \A c \in Caller : Applying(c) /\ Alone(c) =>
        \A l \in jack.watched \ call[c].told : NotHandling(l) => call[c].read[l] = jack.last[l]

\* The hooks of the driver take turns; the codec is let go when its lines are
QuietInv ==
    /\ call["lpe"].at = "idle" \/ call["codec"].at = "idle"
    /\ \A c \in {"lpe", "user"} : call[c].at # "unbind"
    /\ card.i2c = FALSE => card.present = FALSE /\ call["codec"].at = "idle"
    /\ card.present = FALSE =>
          call["codec"].at \in {"teardown", "unbind", "headphone drains", "microphone drains", "idle"}
    /\ card.present = FALSE /\ call["codec"].at = "idle" => card.i2c = FALSE
    /\ card.present = TRUE => call["codec"].at # "unbind"
    /\ card.present = FALSE /\ call["codec"].at \in {"unbind", "idle"} =>
          jack.watched = {} /\ jack.at = "wait"

FollowInv == LockInv /\ HandlerInv /\ AppliedInv /\ ReadInv
CodecInv == CodecTypes /\ RegistersInv /\ FollowInv /\ QuietInv

LEMMA InvAgrees == ASSUME CodecInv PROVE CodecAgrees
<1> USE DEF CodecInv
<1>1. RegistersAgree
  <2>1. /\ \A r \in {"spkL", "spkR"} : "speaker" \notin sound.dirty =>
              codec[r] = SpeakerLevel(sound.speaker, sound.present)
        /\ \A r \in {"hpL", "hpR"} : "headphone" \notin sound.dirty =>
              codec[r] = HeadphoneLevel(sound.headphone, sound.present)
    BY DEF RegistersInv, Agree, Speaks, Phones
  <2>2. "route" \notin sound.dirty =>
          /\ codec.output = IF sound.present["headphone"] THEN "headphone" ELSE "speaker"
          /\ codec.power /\ codec.dmic = ~sound.present["microphone"]
          /\ codec.input = sound.present["microphone"] /\ codec.pga = sound.present["microphone"]
    BY DEF RegistersInv, Agree, Routed
  <2>3. ASSUME "route" \notin sound.dirty, NEW r \in {"eqLevel", "eq", "drc"}
        PROVE  codec[r] = (SpeakerTuning /\ ~sound.present["headphone"])
    BY <2>3 DEF RegistersInv, Agree, Routed
  <2> QED BY <2>1, <2>2, <2>3 DEF RegistersAgree
<1>2. TuningIsForSpeakers
  BY DEF RegistersInv, Agree, InOrder, TuningIsForSpeakers
<1>3. JackFollowed
  <2> SUFFICES ASSUME JackAtRest, NEW l \in jack.watched \ jack.missed
               PROVE  sound.present[l] = jack.plugged[l]
    BY DEF JackFollowed
  <2>1. NotHandling(l) /\ jack.last[l] = jack.plugged[l]
    BY DEF JackAtRest, NotHandling
  <2>2. ~Ending /\ \A c \in Caller : ~Applying(c)
    BY DEF JackAtRest, Ending, Applying
  <2> QED BY <2>1, <2>2 DEF FollowInv, AppliedInv
<1>4. DetachedIsQuiet
  <2>1. card.i2c \in BOOLEAN
    BY DEF CodecTypes, CardState
  <2> QED BY <2>1 DEF QuietInv, DetachedIsQuiet
<1> QED BY <1>1, <1>2, <1>3, <1>4 DEF CodecAgrees

LEMMA CodecInitHolds == ASSUME CodecInit PROVE CodecInv
<1>1. PICK gain \in Volume :
          sound = [speaker |-> Level(gain, FALSE), headphone |-> Level(gain, FALSE),
                   present |-> Unplugged, faults |-> 0,
                   dirty |-> {"speaker", "headphone", "route"}]
  BY DEF CodecInit
<1>2. PICK plugged \in [Line -> BOOLEAN] :
          jack = [plugged |-> plugged, last |-> Unplugged, watched |-> {}, lock |-> "none",
                  at |-> "wait", line |-> "none", level |-> FALSE, other |-> FALSE,
                  missed |-> {}, moves |-> 0]
  BY DEF CodecInit
<1>3. /\ card = [hooks |-> 0, lpe |-> FALSE, lpeReady |-> FALSE, pmc |-> FALSE,
                 present |-> FALSE, i2c |-> FALSE, ready |-> FALSE]
      /\ call = [c \in Caller |-> Idle] /\ mix = [x \in Mixer |-> NoMix]
      /\ codec = ResetRegisters
  BY DEF CodecInit
<1>4. Unplugged \in [Line -> BOOLEAN] /\ Quiet \in Levels /\ Level(gain, FALSE) \in Levels
  BY DEF Unplugged, Quiet, Level, Levels, Gain
<1>5. CodecTypes
  <2>1. sound \in Sound
    BY <1>1, <1>4 DEF Sound, Heard
  <2>2. jack \in Jack
    BY <1>2, <1>4 DEF Jack
  <2>3. card \in CardState
    BY <1>3 DEF CardState
  <2>4. Idle \in Thread
    BY <1>4 DEF Idle, Thread, Stage
  <2>5. NoMix \in Mix
    BY <1>4 DEF NoMix, Mix
  <2> QED BY <1>3, <2>1, <2>2, <2>3, <2>4, <2>5 DEF CodecTypes
<1>6. RegistersInv
  <2>1. InOrder(codec)
    BY <1>3, InitialWritesKeep
  <2>2. sound.dirty = {"speaker", "headphone", "route"}
    BY <1>1
  <2> QED BY <2>1, <2>2 DEF RegistersInv, Agree, Speaks, Phones, Routed
<1>7. \A c \in Caller : call[c].at = "idle"
  BY <1>3 DEF Idle
<1>8. /\ jack.watched = {} /\ jack.at = "wait" /\ jack.lock = "none"
      /\ card.present = FALSE /\ card.i2c = FALSE
  BY <1>2, <1>3
<1>9. "none" \notin Caller /\ "lpe" \in Caller /\ "codec" \in Caller /\ "user" \in Caller
  BY DEF Caller
<1>10. FollowInv /\ QuietInv
  BY <1>7, <1>8, <1>9
     DEF FollowInv, LockInv, Locking, HandlerInv, AppliedInv, ReadInv, QuietInv
<1> QED BY <1>5, <1>6, <1>10 DEF CodecInv

----------------------------------------------------------------------------
(* The registers.                                                          *)

Soiled(s, differs) == [s EXCEPT !.dirty = @ \cup differs]

\* Writes may end with these registers: in the copy, or in what it differs in
EndsWell(x, ok, copy, differs) ==
    /\ ok \in BOOLEAN /\ InOrder(x) /\ copy \in Sound /\ differs \in SUBSET Heard
    /\ ok = TRUE => Agree(x, copy)
    /\ ok = FALSE => Agree(x, Soiled(sound, differs))

LEMMA WroteKeeps ==
    ASSUME CodecTypes, RegistersInv, NEW x, NEW ok, NEW copy, NEW differs,
           EndsWell(x, ok, copy, differs), codec' = x,
           sound' = IF ok THEN copy ELSE [sound EXCEPT !.dirty = @ \cup differs,
                                               !.faults = @ + IF card.i2c THEN 1 ELSE 0]
    PROVE  /\ RegistersInv' /\ sound' \in Sound
           /\ ok = TRUE => sound' = copy
           /\ ok = FALSE => sound'.present = sound.present
<1> USE DEF EndsWell
<1>1. CASE ok = TRUE
  <2>1. codec' = x /\ sound' = copy
    BY <1>1
  <2> QED BY <1>1, <2>1 DEF RegistersInv
<1>2. CASE ok = FALSE
  <2>1. PICK n \in Nat : sound' = [sound EXCEPT !.dirty = @ \cup differs, !.faults = n]
    <3>1. sound.faults + (IF card.i2c THEN 1 ELSE 0) \in Nat
      BY DEF CodecTypes, Sound
    <3>2. sound' = [sound EXCEPT !.dirty = @ \cup differs, !.faults = @ + IF card.i2c THEN 1 ELSE 0]
      BY <1>2
    <3> QED BY <3>1, <3>2
  <2>2. sound \in Sound
    BY DEF CodecTypes
  <2>3. sound' \in Sound
    BY <2>1, <2>2 DEF Sound
  <2> DEFINE s == [sound EXCEPT !.dirty = @ \cup differs]
  <2>4. /\ sound'.dirty = s.dirty /\ sound'.speaker = s.speaker
        /\ sound'.headphone = s.headphone /\ sound'.present = s.present
        /\ s.present = sound.present
    BY <2>1, <2>2 DEF Sound
  <2>5. Agree(codec', s)
    BY <1>2 DEF Soiled
  <2> HIDE DEF s
  <2>6. Agree(codec', sound')
    BY <2>4, <2>5 DEF Agree, Speaks, Phones, Routed
  <2> QED BY <1>2, <2>3, <2>4, <2>6 DEF RegistersInv
<1> QED BY <1>1, <1>2

\* Switching the jack leaves registers that say what the jack's state says
LEMMA ApplyKeeps ==
    ASSUME CodecTypes, RegistersInv, NEW present \in [Line -> BOOLEAN],
           NEW e \in JackOutcomes(present), ApplyJackState(e, present)
    PROVE  /\ RegistersInv' /\ sound' \in Sound /\ e.ok \in BOOLEAN
           /\ sound'.present = IF e.ok = TRUE THEN present ELSE sound.present
<1> DEFINE w == JackWrites(present)
<1>c. PICK copy : copy = IF sound.present = present THEN sound
                         ELSE [sound EXCEPT !.present = present, !.dirty = {}]
  OBVIOUS
<1>d. PICK differs : differs = IF card.i2c THEN Heard ELSE {}
  OBVIOUS
<1>1. /\ codec' = e.codec
      /\ sound' = IF e.ok THEN copy ELSE [sound EXCEPT !.dirty = @ \cup differs,
                                               !.faults = @ + IF card.i2c THEN 1 ELSE 0]
  BY <1>c, <1>d DEF ApplyJackState, Heard, Wrote
<1>2. /\ Len(w) \in Nat /\ Keeps(codec, w)
      /\ Says(End(codec, w), sound.speaker, sound.headphone, present)
  BY JackWritesKeep DEF RegistersInv, Agree
<1>3. sound \in Sound /\ card.i2c \in BOOLEAN
  BY DEF CodecTypes, CardState
<1>4. copy \in Sound /\ copy.present = present
  BY <1>3, <1>c DEF Sound
<1>5. differs \in SUBSET Heard
  BY <1>d
<1>6. CASE card.i2c = TRUE /\ sound.present = present
  <2>1. e = [ok |-> TRUE, codec |-> codec]
    BY <1>6 DEF JackOutcomes
  <2>2. e.ok = TRUE /\ e.codec = codec /\ copy = sound
    BY <1>6, <1>c, <2>1
  <2>3. e.ok \in BOOLEAN /\ InOrder(e.codec) /\ Agree(e.codec, copy)
    BY <2>2 DEF RegistersInv, Agree
  <2>4. e.ok = FALSE => Agree(e.codec, Soiled(sound, differs))
    BY <2>2
  <2>5. copy \in Sound /\ differs \in SUBSET Heard
    BY <1>4, <1>5
  <2>6. EndsWell(e.codec, e.ok, copy, differs)
    BY <2>3, <2>4, <2>5 DEF EndsWell
  <2>7. /\ RegistersInv' /\ sound' \in Sound
        /\ e.ok = TRUE => sound' = copy
        /\ e.ok = FALSE => sound'.present = sound.present
    BY <1>1, <2>6, WroteKeeps
  <2> QED BY <1>4, <2>2, <2>7
<1>7. CASE ~(card.i2c = TRUE /\ sound.present = present)
  <2>1. e \in Writing(codec, w)
    BY <1>3, <1>7 DEF JackOutcomes
  <2> HIDE DEF w
  <2>2. /\ e.ok \in BOOLEAN /\ InOrder(e.codec)
        /\ e.ok = TRUE => card.i2c /\ e.codec = End(codec, w)
    BY <1>2, <2>1, WritingEnds
  <2>3. e.ok = TRUE => Agree(e.codec, copy)
    <3> SUFFICES ASSUME e.ok = TRUE PROVE Agree(e.codec, copy)
      OBVIOUS
    <3>1. copy = [sound EXCEPT !.present = present, !.dirty = {}]
      BY <1>3, <1>7, <1>c, <2>2
    <3>2. /\ copy.speaker = sound.speaker /\ copy.headphone = sound.headphone
          /\ copy.present = present
      BY <1>3, <3>1 DEF Sound
    <3>3. Says(e.codec, copy.speaker, copy.headphone, copy.present) /\ InOrder(e.codec)
      BY <1>2, <2>2, <3>2
    <3> QED BY <3>3 DEF Says, Agree, Speaks, Phones, Routed
  <2>4. e.ok = FALSE => Agree(e.codec, Soiled(sound, differs))
    <3> SUFFICES ASSUME e.ok = FALSE PROVE Agree(e.codec, Soiled(sound, differs))
      OBVIOUS
    <3>1. CASE card.i2c = TRUE
      <4>1. Soiled(sound, differs).dirty = Heard
        BY <1>3, <1>d, <3>1 DEF Sound, Soiled
      <4> QED BY <2>2, <4>1 DEF Agree, Speaks, Phones, Routed, Heard
    <3>2. CASE card.i2c = FALSE
      <4>1. e.codec = Written(codec, w, 0)
        <5>1. e = [ok |-> FALSE, codec |-> Written(codec, w, 0)]
          BY <2>1, <3>2 DEF Writing
        <5> QED BY <5>1
      <4>2. \A r \in Register : e.codec[r] = codec[r]
        <5>1. Names(w, 0, {}) /\ 0 \in Nat /\ 0 \in 0 .. 0
          BY DEF Names
        <5>2. DOMAIN codec = Register
          BY DEF RegistersInv, Agree, InOrder
        <5>3. SameBut(codec, Written(codec, w, 0), {})
          BY <5>1, <5>2, Framed
        <5> QED BY <4>1, <5>3 DEF SameBut
      <4>3. Soiled(sound, differs) = sound
        BY <1>3, <1>d, <3>2 DEF Sound, Soiled
      <4>4. Agree(e.codec, sound)
        BY <2>2, <4>2 DEF RegistersInv, Agree, Speaks, Phones, Routed, Register
      <4> QED BY <4>3, <4>4
    <3> QED BY <1>3, <3>1, <3>2
  <2>5. copy \in Sound /\ differs \in SUBSET Heard
    BY <1>4, <1>5
  <2>6. EndsWell(e.codec, e.ok, copy, differs)
    BY <2>2, <2>3, <2>4, <2>5 DEF EndsWell
  <2>7. /\ RegistersInv' /\ sound' \in Sound
        /\ e.ok = TRUE => sound' = copy
        /\ e.ok = FALSE => sound'.present = sound.present
    BY <1>1, <2>6, WroteKeeps
  <2> QED BY <1>4, <2>2, <2>7
<1> QED BY <1>3, <1>6, <1>7

\* A volume that is written changes its two registers at most, and both when it
\* is written in full
LEMMA VolumeEnds ==
    ASSUME card.i2c \in BOOLEAN, InOrder(codec), NEW left \in Register, NEW right \in Register,
           NEW level, NEW w, Len(w) = 2, Keeps(codec, w), Names(w, 2, {left, right}),
           PairWritten(codec, End(codec, w), left, right, level), NEW e \in Writing(codec, w)
    PROVE  /\ e.ok \in BOOLEAN /\ InOrder(e.codec) /\ SameBut(codec, e.codec, {left, right})
           /\ e.ok = TRUE => card.i2c = TRUE /\ e.codec[left] = level /\ e.codec[right] = level
           /\ card.i2c = FALSE => SameBut(codec, e.codec, {})
<1>0. Len(w) \in Nat /\ e \in Writing(codec, w)
  OBVIOUS
<1>1. /\ e.ok \in BOOLEAN /\ InOrder(e.codec)
      /\ e.ok = TRUE => card.i2c /\ e.codec = End(codec, w)
  BY <1>0, WritingEnds
<1>2. PICK n \in 0 .. Len(w) : e.codec = Written(codec, w, n)
  BY <1>0, WritingEnds
<1>3. DOMAIN codec = Register
  BY DEF InOrder
<1>4. SameBut(codec, e.codec, {left, right})
  <2>1. 2 \in Nat /\ n \in 0 .. 2
    BY <1>2
  <2> QED BY <1>2, <1>3, <2>1, Framed
<1>5. e.ok = TRUE => card.i2c = TRUE /\ e.codec[left] = level /\ e.codec[right] = level
  BY <1>1 DEF PairWritten
<1>6. card.i2c = FALSE => SameBut(codec, e.codec, {})
  <2> SUFFICES ASSUME card.i2c = FALSE PROVE SameBut(codec, e.codec, {})
    OBVIOUS
  <2>1. e.codec = Written(codec, w, 0)
    <3>1. e = [ok |-> FALSE, codec |-> Written(codec, w, 0)]
      BY DEF Writing
    <3> QED BY <3>1
  <2>2. Names(w, 0, {}) /\ 0 \in Nat /\ 0 \in 0 .. 0
    BY DEF Names
  <2> QED BY <1>3, <2>1, <2>2, Framed
<1> QED BY <1>1, <1>4, <1>5, <1>6

\* Setting the speakers' volume keeps the registers in agreement with the copy
LEMMA SpeakerKeeps ==
    ASSUME CodecTypes, RegistersInv, NEW x \in Mixer, SetCodecVolume(x)
    PROVE  RegistersInv' /\ sound' \in Sound /\ sound'.present = sound.present
<1>0. /\ sound \in Sound /\ card.i2c \in BOOLEAN /\ mix[x].speaker \in Levels
      /\ InOrder(codec) /\ Agree(codec, sound)
  BY DEF CodecTypes, CardState, Mix, RegistersInv, Agree
<1>1. PICK level : level = SpeakerLevel(mix[x].speaker, sound.present)
  OBVIOUS
<1>2. PICK copy : copy = [sound EXCEPT !.speaker = mix[x].speaker, !.dirty = @ \ {"speaker"}]
  OBVIOUS
<1>3. PICK differs : differs = IF card.i2c THEN {"speaker"} ELSE {}
  OBVIOUS
<1>4. PICK w : w = SpeakerWrites(level)
  OBVIOUS
<1>5. PICK e \in Writing(codec, w) :
        /\ codec' = e.codec
        /\ sound' = IF e.ok THEN copy ELSE [sound EXCEPT !.dirty = @ \cup differs,
                                               !.faults = @ + IF card.i2c THEN 1 ELSE 0]
  BY <1>1, <1>2, <1>3, <1>4 DEF SetCodecVolume, SetSpeaker, Wrote
<1>6. /\ copy \in Sound /\ copy.speaker = mix[x].speaker /\ copy.headphone = sound.headphone
      /\ copy.present = sound.present /\ copy.dirty = sound.dirty \ {"speaker"}
  BY <1>0, <1>2 DEF Sound
<1>7. /\ Keeps(codec, w) /\ PairWritten(codec, End(codec, w), "spkL", "spkR", level)
  BY <1>0, <1>4, SpeakerPiece
<1>8. /\ Len(w) = 2 /\ Names(w, 2, {"spkL", "spkR"})
      /\ "spkL" \in Register /\ "spkR" \in Register
  BY <1>4 DEF SpeakerWrites, Both, Names, Register
<1>9. /\ e.ok \in BOOLEAN /\ InOrder(e.codec) /\ SameBut(codec, e.codec, {"spkL", "spkR"})
      /\ e.ok = TRUE => card.i2c = TRUE /\ e.codec["spkL"] = level /\ e.codec["spkR"] = level
      /\ card.i2c = FALSE => SameBut(codec, e.codec, {})
  BY <1>0, <1>7, <1>8, VolumeEnds
<1>10. ASSUME NEW s, s.headphone = sound.headphone, s.present = sound.present,
              s.dirty \ {"speaker"} = sound.dirty \ {"speaker"}
       PROVE  Phones(e.codec, s) /\ Routed(e.codec, s)
  <2>1. \A r \in Register \ {"spkL", "spkR"} : e.codec[r] = codec[r]
    BY <1>9 DEF SameBut
  <2>2. Phones(codec, sound) /\ Routed(codec, sound)
    BY <1>0 DEF Agree
  <2>3. /\ "headphone" \notin s.dirty => "headphone" \notin sound.dirty
        /\ "route" \notin s.dirty => "route" \notin sound.dirty
    BY <1>10
  <2>4. Phones(e.codec, s)
    BY <1>10, <2>1, <2>2, <2>3 DEF Phones, Register
  <2>5. Routed(e.codec, s)
    BY <1>10, <2>1, <2>2, <2>3 DEF Routed, Register
  <2> QED BY <2>4, <2>5
<1>11. e.ok = TRUE => Agree(e.codec, copy)
  <2> SUFFICES ASSUME e.ok = TRUE PROVE Agree(e.codec, copy)
    OBVIOUS
  <2>1. Speaks(e.codec, copy)
    BY <1>1, <1>6, <1>9 DEF Speaks
  <2>2. Phones(e.codec, copy) /\ Routed(e.codec, copy)
    BY <1>6, <1>10
  <2> QED BY <1>9, <2>1, <2>2 DEF Agree
<1>12. e.ok = FALSE => Agree(e.codec, Soiled(sound, differs))
  <2> SUFFICES ASSUME e.ok = FALSE PROVE Agree(e.codec, Soiled(sound, differs))
    OBVIOUS
  <2>1. PICK s : s = Soiled(sound, differs)
    OBVIOUS
  <2>2. /\ s.speaker = sound.speaker /\ s.headphone = sound.headphone
        /\ s.present = sound.present /\ s.dirty = sound.dirty \cup differs
    BY <1>0, <2>1 DEF Soiled, Sound
  <2>3. Phones(e.codec, s) /\ Routed(e.codec, s)
    <3>1. s.dirty \ {"speaker"} = sound.dirty \ {"speaker"}
      BY <1>3, <2>2
    <3> QED BY <1>10, <2>2, <3>1
  <2>4. Speaks(e.codec, s)
    <3>1. CASE card.i2c = TRUE
      <4>1. "speaker" \in s.dirty
        BY <1>3, <2>2, <3>1
      <4> QED BY <4>1 DEF Speaks
    <3>2. CASE card.i2c = FALSE
      <4>1. s.dirty = sound.dirty
        BY <1>3, <2>2, <3>2
      <4>2. e.codec["spkL"] = codec["spkL"] /\ e.codec["spkR"] = codec["spkR"]
        BY <1>8, <1>9, <3>2 DEF SameBut
      <4>3. Speaks(codec, sound)
        BY <1>0 DEF Agree
      <4> QED BY <2>2, <4>1, <4>2, <4>3 DEF Speaks
    <3> QED BY <1>0, <3>1, <3>2
  <2> QED BY <1>9, <2>1, <2>3, <2>4 DEF Agree
<1>13. EndsWell(e.codec, e.ok, copy, differs)
  <2>1. differs \in SUBSET Heard
    BY <1>3 DEF Heard
  <2> QED BY <1>6, <1>9, <1>11, <1>12, <2>1 DEF EndsWell
<1>14. /\ RegistersInv' /\ sound' \in Sound
       /\ e.ok = TRUE => sound' = copy
       /\ e.ok = FALSE => sound'.present = sound.present
  BY <1>5, <1>13, WroteKeeps
<1> QED BY <1>6, <1>9, <1>14

\* Setting the headphones' volume keeps the registers in agreement with the copy
LEMMA HeadphoneKeeps ==
    ASSUME CodecTypes, RegistersInv, NEW x \in Mixer, SetHeadphoneVolume(x)
    PROVE  RegistersInv' /\ sound' \in Sound /\ sound'.present = sound.present
<1>0. /\ sound \in Sound /\ card.i2c \in BOOLEAN /\ mix[x].headphone \in Levels
      /\ InOrder(codec) /\ Agree(codec, sound)
  BY DEF CodecTypes, CardState, Mix, RegistersInv, Agree
<1>1. PICK level : level = HeadphoneLevel(mix[x].headphone, sound.present)
  OBVIOUS
<1>2. PICK copy : copy = [sound EXCEPT !.headphone = mix[x].headphone, !.dirty = @ \ {"headphone"}]
  OBVIOUS
<1>3. PICK differs : differs = IF card.i2c THEN {"headphone"} ELSE {}
  OBVIOUS
<1>4. PICK w : w = HeadphoneWrites(level)
  OBVIOUS
<1>5. PICK e \in Writing(codec, w) :
        /\ codec' = e.codec
        /\ sound' = IF e.ok THEN copy ELSE [sound EXCEPT !.dirty = @ \cup differs,
                                               !.faults = @ + IF card.i2c THEN 1 ELSE 0]
  BY <1>1, <1>2, <1>3, <1>4 DEF SetHeadphoneVolume, Wrote
<1>6. /\ copy \in Sound /\ copy.headphone = mix[x].headphone /\ copy.speaker = sound.speaker
      /\ copy.present = sound.present /\ copy.dirty = sound.dirty \ {"headphone"}
  BY <1>0, <1>2 DEF Sound
<1>7. /\ Keeps(codec, w) /\ PairWritten(codec, End(codec, w), "hpL", "hpR", level)
  BY <1>0, <1>4, HeadphonePiece
<1>8. /\ Len(w) = 2 /\ Names(w, 2, {"hpL", "hpR"})
      /\ "hpL" \in Register /\ "hpR" \in Register
  BY <1>4 DEF HeadphoneWrites, Both, Names, Register
<1>9. /\ e.ok \in BOOLEAN /\ InOrder(e.codec) /\ SameBut(codec, e.codec, {"hpL", "hpR"})
      /\ e.ok = TRUE => card.i2c = TRUE /\ e.codec["hpL"] = level /\ e.codec["hpR"] = level
      /\ card.i2c = FALSE => SameBut(codec, e.codec, {})
  BY <1>0, <1>7, <1>8, VolumeEnds
<1>10. ASSUME NEW s, s.speaker = sound.speaker, s.present = sound.present,
              s.dirty \ {"headphone"} = sound.dirty \ {"headphone"}
       PROVE  Speaks(e.codec, s) /\ Routed(e.codec, s)
  <2>1. \A r \in Register \ {"hpL", "hpR"} : e.codec[r] = codec[r]
    BY <1>9 DEF SameBut
  <2>2. Speaks(codec, sound) /\ Routed(codec, sound)
    BY <1>0 DEF Agree
  <2>3. /\ "speaker" \notin s.dirty => "speaker" \notin sound.dirty
        /\ "route" \notin s.dirty => "route" \notin sound.dirty
    BY <1>10
  <2>4. Speaks(e.codec, s)
    BY <1>10, <2>1, <2>2, <2>3 DEF Speaks, Register
  <2>5. Routed(e.codec, s)
    BY <1>10, <2>1, <2>2, <2>3 DEF Routed, Register
  <2> QED BY <2>4, <2>5
<1>11. e.ok = TRUE => Agree(e.codec, copy)
  <2> SUFFICES ASSUME e.ok = TRUE PROVE Agree(e.codec, copy)
    OBVIOUS
  <2>1. Phones(e.codec, copy)
    BY <1>1, <1>6, <1>9 DEF Phones
  <2>2. Speaks(e.codec, copy) /\ Routed(e.codec, copy)
    BY <1>6, <1>10
  <2> QED BY <1>9, <2>1, <2>2 DEF Agree
<1>12. e.ok = FALSE => Agree(e.codec, Soiled(sound, differs))
  <2> SUFFICES ASSUME e.ok = FALSE PROVE Agree(e.codec, Soiled(sound, differs))
    OBVIOUS
  <2>1. PICK s : s = Soiled(sound, differs)
    OBVIOUS
  <2>2. /\ s.speaker = sound.speaker /\ s.headphone = sound.headphone
        /\ s.present = sound.present /\ s.dirty = sound.dirty \cup differs
    BY <1>0, <2>1 DEF Soiled, Sound
  <2>3. Speaks(e.codec, s) /\ Routed(e.codec, s)
    <3>1. s.dirty \ {"headphone"} = sound.dirty \ {"headphone"}
      BY <1>3, <2>2
    <3> QED BY <1>10, <2>2, <3>1
  <2>4. Phones(e.codec, s)
    <3>1. CASE card.i2c = TRUE
      <4>1. "headphone" \in s.dirty
        BY <1>3, <2>2, <3>1
      <4> QED BY <4>1 DEF Phones
    <3>2. CASE card.i2c = FALSE
      <4>1. s.dirty = sound.dirty
        BY <1>3, <2>2, <3>2
      <4>2. e.codec["hpL"] = codec["hpL"] /\ e.codec["hpR"] = codec["hpR"]
        BY <1>8, <1>9, <3>2 DEF SameBut
      <4>3. Phones(codec, sound)
        BY <1>0 DEF Agree
      <4> QED BY <2>2, <4>1, <4>2, <4>3 DEF Phones
    <3> QED BY <1>0, <3>1, <3>2
  <2> QED BY <1>9, <2>1, <2>3, <2>4 DEF Agree
<1>13. EndsWell(e.codec, e.ok, copy, differs)
  <2>1. differs \in SUBSET Heard
    BY <1>3 DEF Heard
  <2> QED BY <1>6, <1>9, <1>11, <1>12, <2>1 DEF EndsWell
<1>14. /\ RegistersInv' /\ sound' \in Sound
       /\ e.ok = TRUE => sound' = copy
       /\ e.ok = FALSE => sound'.present = sound.present
  BY <1>5, <1>13, WroteKeeps
<1> QED BY <1>6, <1>9, <1>14

\* A codec that is initialized says what the mixer says with the jack empty
LEMMA InitializeKeeps ==
    ASSUME CodecTypes, RegistersInv, NEW c, InitializeCodec(c)
    PROVE  \E ok \in BOOLEAN :
              /\ RegistersInv' /\ sound' \in Sound
              /\ ok = TRUE => sound'.present = Unplugged
              /\ ok = FALSE => sound'.present = sound.present
              /\ jack' = IF ok THEN [jack EXCEPT !.missed = @ \cup {l \in jack.watched : jack.last[l]}]
                         ELSE jack
              /\ Reaches(c, IF ok THEN "jack" ELSE "failed")
<1>0. /\ sound \in Sound /\ card.i2c \in BOOLEAN /\ InOrder(codec) /\ Agree(codec, sound)
      /\ sound.speaker.muted \in BOOLEAN
  BY DEF CodecTypes, CardState, RegistersInv, Agree, Sound, Levels
<1>2. PICK copy : copy = [sound EXCEPT !.present = Unplugged,
                             !.dirty = IF sound.speaker.muted THEN {"speaker"} ELSE {}]
  OBVIOUS
<1>3. PICK differs : differs = {"speaker", "headphone", "route"}
  OBVIOUS
<1>4. PICK w : w = InitialWrites
  OBVIOUS
<1>5. PICK f \in Writing(ResetRegisters, w) \cup
                IF MayFail("i2c") THEN {[ok |-> FALSE, codec |-> codec]} ELSE {} :
        /\ Wrote(IF card.i2c THEN f ELSE [f EXCEPT !.codec = codec], copy, differs)
        /\ jack' = IF f.ok THEN [jack EXCEPT !.missed = @ \cup {l \in jack.watched : jack.last[l]}]
                   ELSE jack
        /\ Reaches(c, IF f.ok THEN "jack" ELSE "failed")
  BY <1>2, <1>3, <1>4 DEF InitializeCodec
<1>6. PICK e : e = IF card.i2c THEN f ELSE [f EXCEPT !.codec = codec]
  OBVIOUS
<1>7. /\ codec' = e.codec
      /\ sound' = IF e.ok THEN copy ELSE [sound EXCEPT !.dirty = @ \cup differs,
                                               !.faults = @ + IF card.i2c THEN 1 ELSE 0]
  BY <1>5, <1>6 DEF Wrote
<1>8. /\ Len(w) \in Nat /\ Keeps(ResetRegisters, w)
  BY <1>4, InitialWritesKeep
<1>9. /\ f.ok \in BOOLEAN /\ InOrder(f.codec)
      /\ f.ok = TRUE => card.i2c = TRUE /\ f.codec = End(ResetRegisters, w)
  <2>1. CASE f \in Writing(ResetRegisters, w)
    BY <1>0, <1>8, <2>1, WritingEnds
  <2>2. CASE f = [ok |-> FALSE, codec |-> codec]
    BY <1>0, <2>2
  <2> QED BY <1>5, <2>1, <2>2
<1>10. f = [ok |-> f.ok, codec |-> f.codec]
  <2>1. CASE f \in Writing(ResetRegisters, w)
    BY <2>1 DEF Writing
  <2>2. CASE f = [ok |-> FALSE, codec |-> codec]
    BY <2>2
  <2> QED BY <1>5, <2>1, <2>2
<1>11. /\ e.ok = f.ok /\ InOrder(e.codec)
       /\ e.ok = TRUE => e.codec = f.codec
  <2>1. CASE card.i2c = TRUE
    BY <1>6, <1>9, <2>1
  <2>2. CASE card.i2c = FALSE
    <3>1. e = [f EXCEPT !.codec = codec]
      BY <1>6, <2>2
    <3>2. e.ok = f.ok /\ e.codec = codec
      BY <1>10, <3>1
    <3> QED BY <1>0, <1>9, <2>2, <3>2
  <2> QED BY <1>0, <2>1, <2>2
<1>12. /\ copy \in Sound /\ copy.present = Unplugged /\ copy.speaker = sound.speaker
       /\ copy.headphone = sound.headphone
       /\ copy.dirty = IF sound.speaker.muted THEN {"speaker"} ELSE {}
  <2>1. Unplugged \in [Line -> BOOLEAN]
    BY DEF Unplugged
  <2> QED BY <1>0, <1>2, <2>1 DEF Sound, Heard
<1>13. e.ok = TRUE => Agree(e.codec, copy)
  <2> SUFFICES ASSUME e.ok = TRUE PROVE Agree(e.codec, copy)
    OBVIOUS
  <2>1. PICK x : x = End(ResetRegisters, w)
    OBVIOUS
  <2>2. e.codec = x
    BY <1>9, <1>11, <2>1
  <2>3. /\ x["spkL"] = Level(sound.speaker.gain, FALSE)
        /\ x["spkR"] = Level(sound.speaker.gain, FALSE)
    BY <1>4, <2>1, InitialWritesKeep
  <2>4. /\ x["hpL"] = Level(sound.headphone.gain, TRUE)
        /\ x["hpR"] = Level(sound.headphone.gain, TRUE)
    BY <1>4, <2>1, InitialWritesKeep
  <2>5. /\ x["output"] = "speaker" /\ x["power"] = TRUE /\ x["dmic"] = TRUE
        /\ x["input"] = FALSE /\ x["pga"] = FALSE
        /\ x["eqLevel"] = SpeakerTuning /\ x["eq"] = SpeakerTuning /\ x["drc"] = SpeakerTuning
    BY <1>4, <2>1, InitialWritesKeep
  <2>6. copy.present["headphone"] = FALSE /\ copy.present["microphone"] = FALSE
    BY <1>12 DEF Unplugged, Line
  <2>7. Speaks(x, copy)
    <3>1. "speaker" \notin copy.dirty => sound.speaker.muted = FALSE
      BY <1>0, <1>12
    <3>2. sound.speaker.muted = FALSE =>
             SpeakerLevel(sound.speaker, copy.present) = Level(sound.speaker.gain, FALSE)
      BY <2>6 DEF SpeakerLevel
    <3> QED BY <1>12, <2>3, <3>1, <3>2 DEF Speaks
  <2>8. Phones(x, copy)
    <3>1. HeadphoneLevel(sound.headphone, copy.present) = Level(sound.headphone.gain, TRUE)
      BY <2>6 DEF HeadphoneLevel
    <3> QED BY <1>12, <2>4, <3>1 DEF Phones
  <2>9. Routed(x, copy)
    <3>1. SpeakerTuning \in BOOLEAN
      BY CodecAssumption
    <3> QED BY <2>5, <2>6, <3>1 DEF Routed
  <2> QED BY <1>11, <2>2, <2>7, <2>8, <2>9 DEF Agree
<1>14. e.ok = FALSE => Agree(e.codec, Soiled(sound, differs))
  <2>1. Soiled(sound, differs).dirty = Heard
    BY <1>0, <1>3 DEF Soiled, Sound, Heard
  <2> QED BY <1>11, <2>1 DEF Agree, Speaks, Phones, Routed, Heard
<1>15. EndsWell(e.codec, e.ok, copy, differs)
  <2>1. differs \in SUBSET Heard
    BY <1>3 DEF Heard
  <2> QED BY <1>9, <1>11, <1>12, <1>13, <1>14, <2>1 DEF EndsWell
<1>16. /\ RegistersInv' /\ sound' \in Sound
       /\ e.ok = TRUE => sound' = copy
       /\ e.ok = FALSE => sound'.present = sound.present
  BY <1>7, <1>15, WroteKeeps
<1>17. /\ f.ok \in BOOLEAN
       /\ f.ok = TRUE => sound'.present = Unplugged
       /\ f.ok = FALSE => sound'.present = sound.present
  BY <1>9, <1>11, <1>12, <1>16
<1> QED BY <1>5, <1>16, <1>17

\* A failure that writes nothing
LEMMA FailingKeeps ==
    ASSUME CodecTypes, RegistersInv, sound' = sound \/ Failing, codec' = codec
    PROVE  RegistersInv' /\ sound' \in Sound /\ sound'.present = sound.present
<1>1. sound \in Sound
  BY DEF CodecTypes
<1>2. CASE sound' = sound
  BY <1>1, <1>2 DEF RegistersInv
<1>3. CASE Failing
  <2>1. /\ sound' \in Sound /\ sound'.present = sound.present /\ sound'.speaker = sound.speaker
        /\ sound'.headphone = sound.headphone /\ sound'.dirty = sound.dirty
    BY <1>1, <1>3 DEF Failing, Sound
  <2> QED BY <2>1 DEF RegistersInv, Agree, Speaks, Phones, Routed
<1> QED BY <1>2, <1>3

----------------------------------------------------------------------------
(* The jack and the threads.                                               *)

Plain == Stage \ {"microphone", "apply", "teardown", "headphone drains", "microphone drains"}

\* A thread that goes on changes nothing else
LEMMA Moved ==
    ASSUME CodecTypes, NEW c \in Caller, NEW at \in Stage, Reaches(c, at)
    PROVE  /\ call' \in [Caller -> Thread] /\ call'[c].at = at
           /\ \A d \in Caller \ {c} : call'[d] = call[d]
           /\ \A d \in Caller : call'[d].read = call[d].read /\ call'[d].told = call[d].told
<1>1. call' = [call EXCEPT ![c].at = at] /\ call \in [Caller -> Thread]
  BY DEF CodecTypes, Reaches
<1>2. call'[c] = [call[c] EXCEPT !.at = at] /\ \A d \in Caller \ {c} : call'[d] = call[d]
  BY <1>1
<1>3. call[c] \in Thread
  BY <1>1
<1>4. /\ call'[c] \in Thread /\ call'[c].at = at /\ call'[c].read = call[c].read
      /\ call'[c].told = call[c].told
  BY <1>2, <1>3 DEF Thread
<1>5. call' \in [Caller -> Thread]
  BY <1>1, <1>4
<1> QED BY <1>2, <1>4, <1>5

\* Steps that neither the jack nor the threads take part in
LEMMA Still ==
    ASSUME FollowInv, jack' = jack, call' = call, sound'.present = sound.present
    PROVE  FollowInv'
<1>1. LockInv'
  BY DEF FollowInv, LockInv, Locking
<1>2. HandlerInv'
  BY DEF FollowInv, HandlerInv
<1>3. AppliedInv'
  BY DEF FollowInv, AppliedInv, Ending, Applying, NotHandling
<1>4. ReadInv'
  BY DEF FollowInv, ReadInv, Ending, Applying, Alone, NotHandling
<1> QED BY <1>1, <1>2, <1>3, <1>4 DEF FollowInv

\* A thread that has nothing to do with the lines, or that begins to let go of them
LEMMA PlainMove ==
    ASSUME CodecTypes, FollowInv, NEW c \in Caller, NEW at \in Plain \cup {"teardown"},
           call[c].at \in Plain, Reaches(c, at), jack' = jack, sound'.present = sound.present
    PROVE  FollowInv' /\ call' \in [Caller -> Thread]
<1>0. at \in Stage /\ at \notin {"microphone", "apply", "headphone drains", "microphone drains"}
  BY DEF Plain, Stage
<1>1. /\ call' \in [Caller -> Thread] /\ call'[c].at = at
      /\ \A d \in Caller \ {c} : call'[d] = call[d]
      /\ \A d \in Caller : call'[d].read = call[d].read /\ call'[d].told = call[d].told
  BY <1>0, Moved
<1>2. ASSUME NEW d \in Caller
      PROVE  /\ call'[d].at \in Locking <=> call[d].at \in Locking
             /\ Applying(d)' <=> Applying(d)
             /\ call[d].at \in {"teardown", "headphone drains", "microphone drains"}
                  => call'[d].at \in {"teardown", "headphone drains", "microphone drains"}
             /\ \A x \in {"microphone", "headphone drains", "microphone drains"} :
                   call'[d].at = x <=> call[d].at = x
  <2>1. CASE d = c
    BY <1>0, <1>1, <2>1 DEF Plain, Locking, Applying
  <2>2. CASE d # c
    <3>1. call'[d] = call[d]
      BY <1>1, <2>2
    <3> QED BY <3>1 DEF Applying
  <2> QED BY <2>1, <2>2
<1>3. LockInv'
  BY <1>2 DEF FollowInv, LockInv, Locking
<1>4. HandlerInv'
  BY <1>2 DEF FollowInv, HandlerInv
<1>5. ~Ending' => ~Ending
  BY <1>2 DEF Ending
<1>6. \A d \in Caller : Alone(d)' <=> Alone(d)
  BY <1>2 DEF Alone
<1>7. AppliedInv'
  BY <1>2, <1>5 DEF FollowInv, AppliedInv, NotHandling
<1>8. ReadInv'
  <2> SUFFICES ASSUME ~Ending', NEW d \in Caller, Applying(d)', Alone(d)',
                      NEW l \in jack.watched \ call'[d].told, NotHandling(l)
               PROVE  call'[d].read[l] = jack.last[l]
    BY DEF ReadInv, NotHandling
  <2>1. ~Ending /\ Applying(d) /\ Alone(d)
    BY <1>2, <1>5, <1>6
  <2>2. l \in jack.watched \ call[d].told /\ call'[d].read = call[d].read
    BY <1>1
  <2> QED BY <2>1, <2>2 DEF FollowInv, ReadInv
<1> QED BY <1>1, <1>3, <1>4, <1>7, <1>8 DEF FollowInv

\* Who holds fJackLock is the only thread that has it
LEMMA NobodyLocks ==
    ASSUME FollowInv, jack.lock = "none"
    PROVE  \A d \in Caller : call[d].at \notin Locking
BY DEF FollowInv, LockInv, Caller

LEMMA HeadphoneWatchedKeeps ==
    ASSUME CodecTypes, FollowInv, NEW c \in Caller, HeadphoneWatched(c)
    PROVE  FollowInv' /\ call' \in [Caller -> Thread] /\ jack' \in Jack
<1> DEFINE read == [Unplugged EXCEPT !["headphone"] = jack.plugged["headphone"]]
           t == [at |-> "microphone", told |-> {}, read |-> read]
<1>1. /\ call[c].at = "jack" /\ jack.lock = "none" /\ "headphone" \notin jack.watched
      /\ jack' = [Watched("headphone") EXCEPT !.lock = c]
      /\ call' = [call EXCEPT ![c] = t] /\ sound' = sound
  BY DEF HeadphoneWatched, JackFree
<1>2. /\ jack \in Jack /\ call \in [Caller -> Thread] /\ "headphone" \in Line
      /\ "none" \notin Caller
  BY DEF CodecTypes, Line, Caller
<1>3. jack.watched = {} /\ \A d \in Caller : call[d].at \notin Locking
  BY <1>1, NobodyLocks DEF FollowInv, LockInv
<1>4. jack.at = "wait"
  BY <1>1, <1>3 DEF FollowInv, HandlerInv, Locking
<1>5. /\ jack' \in Jack /\ jack'.lock = c /\ jack'.watched = {"headphone"} /\ jack'.at = "wait"
      /\ jack'.last["headphone"] = jack.plugged["headphone"]
  BY <1>1, <1>2, <1>3, <1>4 DEF Watched, Jack
<1>6. /\ read \in [Line -> BOOLEAN] /\ read["headphone"] = jack.plugged["headphone"]
  BY <1>2 DEF Unplugged, Jack
<1> HIDE DEF read
<1>7. t \in Thread /\ t.at = "microphone" /\ t.told = {} /\ t.read = read
  BY <1>6 DEF Thread, Stage
<1> HIDE DEF t
<1>8. /\ call' \in [Caller -> Thread] /\ call'[c] = t
      /\ \A d \in Caller \ {c} : call'[d] = call[d]
  BY <1>1, <1>2, <1>7
<1>9. \A d \in Caller : d # c => call'[d].at \notin Locking
  BY <1>3, <1>8
<1>10. LockInv'
  <2>1. call'[c].at = "microphone" /\ call'[c].at \in Locking
    BY <1>7, <1>8 DEF Locking
  <2> QED BY <1>2, <1>5, <1>9, <2>1 DEF LockInv, Locking
<1>11. HandlerInv'
  BY <1>5 DEF HandlerInv
<1>12. Applying(c)'
  BY <1>7, <1>8 DEF Applying
<1>13. AppliedInv'
  BY <1>12 DEF AppliedInv
<1>14. ReadInv'
  <2> SUFFICES ASSUME NEW d \in Caller, Alone(d)', NEW l \in jack'.watched
               PROVE  call'[d].read[l] = jack'.last[l]
    BY DEF ReadInv
  <2>1. d = c
    BY <1>12 DEF Alone
  <2> QED BY <1>5, <1>6, <1>7, <1>8, <2>1
<1> QED BY <1>5, <1>8, <1>10, <1>11, <1>13, <1>14 DEF FollowInv

LEMMA MicrophoneWatchedKeeps ==
    ASSUME CodecTypes, FollowInv, NEW c \in Caller, MicrophoneWatched(c),
           sound'.present = sound.present
    PROVE  FollowInv' /\ call' \in [Caller -> Thread] /\ jack' \in Jack
<1>1. /\ jack \in Jack /\ call \in [Caller -> Thread] /\ "headphone" \in Line
      /\ "microphone" \in Line /\ "none" \notin Caller /\ call[c] \in Thread
  BY DEF CodecTypes, Line, Caller
<1>2. /\ call[c].at = "microphone" /\ jack.lock = c /\ jack.watched = {"headphone"}
      /\ \A d \in Caller : d # c => call[d].at \notin Locking
  BY DEF MicrophoneWatched, FollowInv, LockInv, Locking
<1>3. jack.at # "wait" => jack.line = "headphone" /\ jack.last["headphone"] = jack.level
  <2>1. call[c].at \notin {"headphone drains", "microphone drains"}
    BY <1>2
  <2>2. \A d \in Caller : call[d].at \notin {"headphone drains", "microphone drains"}
    BY <1>2, <2>1 DEF Locking
  <2> QED BY <1>2, <2>2 DEF FollowInv, HandlerInv
<1>4. /\ jack' \in Jack /\ jack'.lock = "none" /\ jack'.at = jack.at /\ jack'.line = jack.line
      /\ jack'.level = jack.level /\ jack'.last["headphone"] = jack.last["headphone"]
      /\ "headphone" \in jack'.watched
  <2>1. CASE jack' = [Watched("microphone") EXCEPT !.lock = "none"]
    BY <1>1, <1>2, <2>1 DEF Watched, Jack
  <2>2. CASE jack' = [jack EXCEPT !.lock = "none"]
    BY <1>1, <1>2, <2>2 DEF Jack
  <2> QED BY <2>1, <2>2 DEF MicrophoneWatched
<1>5. /\ call' \in [Caller -> Thread] /\ call'[c].at = "apply"
      /\ \A d \in Caller \ {c} : call'[d] = call[d]
      /\ call'[c].told = call[c].told
      /\ call'[c].read["headphone"] = call[c].read["headphone"]
      /\ "microphone" \in jack'.watched => call'[c].read["microphone"] = jack'.last["microphone"]
  <2>1. CASE /\ jack' = [Watched("microphone") EXCEPT !.lock = "none"]
             /\ call' = [call EXCEPT ![c].at = "apply",
                                     ![c].read["microphone"] = jack.plugged["microphone"]]
    <3>1. call'[c] = [call[c] EXCEPT !.at = "apply", !.read["microphone"] = jack.plugged["microphone"]]
      BY <1>1, <2>1
    <3>2. \A d \in Caller \ {c} : call'[d] = call[d]
      BY <1>1, <2>1
    <3>3. jack.plugged["microphone"] \in BOOLEAN /\ call[c].read \in [Line -> BOOLEAN]
      BY <1>1 DEF Jack, Thread
    <3>4. /\ call'[c] \in Thread /\ call'[c].at = "apply" /\ call'[c].told = call[c].told
          /\ call'[c].read = [call[c].read EXCEPT !["microphone"] = jack.plugged["microphone"]]
      <4>1. PICK p : p = jack.plugged["microphone"]
        OBVIOUS
      <4>2. PICK r : r = [call[c].read EXCEPT !["microphone"] = p]
        OBVIOUS
      <4>3. r \in [Line -> BOOLEAN]
        BY <1>1, <3>3, <4>1, <4>2
      <4>4. call'[c] = [[call[c] EXCEPT !.at = "apply"] EXCEPT !.read = r]
        BY <1>1, <3>1, <4>1, <4>2 DEF Thread
      <4>5. call'[c] \in Thread /\ call'[c].at = "apply" /\ call'[c].told = call[c].told
            /\ call'[c].read = r
        BY <1>1, <4>3, <4>4 DEF Thread, Stage
      <4> QED BY <4>1, <4>2, <4>5
    <3>5. /\ call'[c].read["headphone"] = call[c].read["headphone"]
          /\ call'[c].read["microphone"] = jack.plugged["microphone"]
      BY <1>1, <3>3, <3>4
    <3>6. jack'.last["microphone"] = jack.plugged["microphone"]
      BY <1>1, <2>1 DEF Watched, Jack
    <3>7. call' \in [Caller -> Thread]
      BY <1>1, <2>1, <3>4
    <3> QED BY <3>2, <3>4, <3>5, <3>6, <3>7
  <2>2. CASE jack' = [jack EXCEPT !.lock = "none"] /\ Reaches(c, "apply")
    <3>1. "microphone" \notin jack'.watched
      BY <1>1, <1>2, <2>2 DEF Jack
    <3>2. "apply" \in Stage
      BY DEF Stage
    <3> QED BY <2>2, <3>1, <3>2, Moved
  <2> QED BY <2>1, <2>2 DEF MicrophoneWatched
<1>6. \A d \in Caller : call'[d].at \notin Locking
  BY <1>2, <1>5 DEF Locking
<1>7. LockInv'
  BY <1>1, <1>4, <1>6 DEF LockInv, Locking
<1>8. HandlerInv'
  BY <1>1, <1>3, <1>4 DEF HandlerInv
<1>9. Applying(c)'
  BY <1>5 DEF Applying
<1>10. AppliedInv'
  BY <1>9 DEF AppliedInv
<1>11. ReadInv'
  <2> SUFFICES ASSUME ~Ending', NEW d \in Caller, Alone(d)',
                      NEW l \in jack'.watched \ call'[d].told, NotHandling(l)'
               PROVE  call'[d].read[l] = jack'.last[l]
    BY DEF ReadInv
  <2>1. d = c
    BY <1>9 DEF Alone
  <2>2. ~Ending /\ Applying(c) /\ Alone(c)
    BY <1>2, <1>5, <2>1 DEF Ending, Applying, Alone
  <2>3. l = "headphone" \/ l = "microphone"
    BY <1>4 DEF Jack, Line
  <2>4. CASE l = "headphone"
    <3>1. l \in jack.watched \ call[c].told /\ NotHandling(l)
      BY <1>2, <1>4, <1>5, <2>1, <2>4 DEF NotHandling
    <3>2. call[c].read[l] = jack.last[l]
      BY <2>2, <3>1 DEF FollowInv, ReadInv
    <3> QED BY <1>4, <1>5, <2>1, <2>4, <3>2
  <2>5. CASE l = "microphone"
    BY <1>5, <2>1, <2>5
  <2> QED BY <2>3, <2>4, <2>5
<1> QED BY <1>4, <1>5, <1>7, <1>8, <1>10, <1>11 DEF FollowInv

\* Whoever has read the lines is told of those that are applied meanwhile
LEMMA ToldOf ==
    ASSUME CodecTypes, NEW L \in SUBSET Line
    PROVE  /\ Told(L) \in [Caller -> Thread]
           /\ \A d \in Caller : /\ Told(L)[d].at = call[d].at /\ Told(L)[d].read = call[d].read
                                /\ call[d].told \subseteq Told(L)[d].told
                                /\ Applying(d) => Told(L)[d].told = call[d].told \cup L
<1> SUFFICES ASSUME NEW d \in Caller
             PROVE  /\ Told(L)[d] \in Thread
                    /\ Told(L)[d].at = call[d].at /\ Told(L)[d].read = call[d].read
                    /\ call[d].told \subseteq Told(L)[d].told
                    /\ Applying(d) => Told(L)[d].told = call[d].told \cup L
  BY DEF Told
<1>1. call[d] \in Thread
  BY DEF CodecTypes
<1>2. CASE Applying(d)
  <2>1. Told(L)[d] = [call[d] EXCEPT !.told = @ \cup L]
    BY <1>2 DEF Told, Applying
  <2> QED BY <1>1, <2>1 DEF Thread
<1>3. CASE ~Applying(d)
  <2>1. Told(L)[d] = call[d]
    BY <1>3 DEF Told, Applying
  <2> QED BY <1>1, <1>3, <2>1
<1> QED BY <1>2, <1>3

LEMMA JackAppliedKeeps ==
    ASSUME CodecTypes, RegistersInv, FollowInv, NEW c \in Caller, JackApplied(c)
    PROVE  /\ FollowInv' /\ call' \in [Caller -> Thread] /\ jack' \in Jack
           /\ RegistersInv' /\ sound' \in Sound
           /\ \A d \in Caller : d # c => call'[d].at = call[d].at
           /\ call'[c].at \in {"done", "teardown"}
           /\ jack'.watched = jack.watched /\ jack'.at = jack.at
<1>1. PICK e \in JackOutcomes(call[c].read) :
          /\ ApplyJackState(e, call[c].read)
          /\ jack' = IF e.ok THEN [jack EXCEPT !.missed = call[c].told \cap jack.watched] ELSE jack
          /\ call' = [Told(Line) EXCEPT
                      ![c] = [Idle EXCEPT !.at = IF e.ok THEN "done" ELSE "teardown"]]
  BY DEF JackApplied
<1>2. /\ jack \in Jack /\ call[c] \in Thread /\ call[c].read \in [Line -> BOOLEAN]
      /\ call[c].told \in SUBSET Line /\ call[c].at = "apply"
  BY DEF CodecTypes, Thread, JackApplied
<1>3. PICK read : read = call[c].read
  OBVIOUS
<1>4. /\ RegistersInv' /\ sound' \in Sound /\ e.ok \in BOOLEAN
      /\ sound'.present = IF e.ok = TRUE THEN read ELSE sound.present
  <2>1. read \in [Line -> BOOLEAN] /\ e \in JackOutcomes(read) /\ ApplyJackState(e, read)
    BY <1>1, <1>2, <1>3
  <2> QED BY <2>1, ApplyKeeps
<1>5. PICK t : t = [Idle EXCEPT !.at = IF e.ok THEN "done" ELSE "teardown"]
  OBVIOUS
<1>6. t \in Thread /\ t.at = IF e.ok = TRUE THEN "done" ELSE "teardown"
  <2>1. Idle = [at |-> "idle", read |-> Unplugged, told |-> {}] /\ Unplugged \in [Line -> BOOLEAN]
    BY DEF Idle, Unplugged
  <2> QED BY <1>4, <1>5, <2>1 DEF Thread, Stage
<1>7. PICK k : k = Told(Line)
  OBVIOUS
<1>8. /\ k \in [Caller -> Thread]
      /\ \A d \in Caller : /\ k[d].at = call[d].at /\ k[d].read = call[d].read
                           /\ Applying(d) => k[d].told = call[d].told \cup Line
  <2>1. Line \in SUBSET Line
    OBVIOUS
  <2> QED BY <1>7, <2>1, ToldOf
<1>9. /\ call' \in [Caller -> Thread] /\ call'[c] = t
      /\ \A d \in Caller : d # c => call'[d] = k[d]
  BY <1>1, <1>5, <1>6, <1>7, <1>8
<1>10. /\ \A d \in Caller : d # c => call'[d].at = call[d].at
       /\ call'[c].at \in {"done", "teardown"}
  BY <1>6, <1>8, <1>9
<1>11. /\ jack' \in Jack /\ jack'.watched = jack.watched /\ jack'.at = jack.at
       /\ jack'.line = jack.line /\ jack'.last = jack.last /\ jack'.level = jack.level
       /\ jack'.lock = jack.lock
       /\ e.ok = TRUE => jack'.missed = call[c].told \cap jack.watched
  BY <1>1, <1>2, <1>4 DEF Jack
<1>12. \A d \in Caller : /\ call'[d].at \in Locking <=> call[d].at \in Locking
                         /\ \A x \in {"microphone", "headphone drains", "microphone drains"} :
                               call'[d].at = x <=> call[d].at = x
  BY <1>2, <1>10 DEF Locking
<1>13. LockInv'
  BY <1>11, <1>12 DEF FollowInv, LockInv, Locking
<1>14. HandlerInv'
  BY <1>11, <1>12 DEF FollowInv, HandlerInv
<1>15. CASE e.ok = FALSE
  <2>1. Ending'
    BY <1>6, <1>9, <1>15 DEF Ending
  <2>2. AppliedInv' /\ ReadInv'
    BY <2>1 DEF AppliedInv, ReadInv
  <2> QED BY <1>4, <1>9, <1>10, <1>11, <1>13, <1>14, <2>2 DEF FollowInv
<1>16. CASE e.ok = TRUE
  <2>1. ~Ending' => ~Ending
    BY <1>2, <1>10 DEF Ending
  <2>2. AppliedInv'
    <3> SUFFICES ASSUME ~Ending', \A d \in Caller : ~Applying(d)',
                        NEW l \in jack.watched \ jack'.missed, NotHandling(l)
                 PROVE  sound'.present[l] = jack.last[l]
      BY <1>11 DEF AppliedInv, NotHandling
    <3>1. Applying(c) /\ Alone(c)
      BY <1>2, <1>10 DEF Applying, Alone
    <3>2. l \in jack.watched \ call[c].told
      BY <1>11, <1>16
    <3>3. call[c].read[l] = jack.last[l]
      BY <2>1, <3>1, <3>2 DEF FollowInv, ReadInv
    <3> QED BY <1>3, <1>4, <1>16, <3>3
  <2>3. ReadInv'
    <3> SUFFICES ASSUME NEW d \in Caller, Applying(d)', NEW l \in jack.watched \ call'[d].told
                 PROVE  FALSE
      BY <1>11 DEF ReadInv
    <3>1. d # c /\ Applying(d)
      BY <1>10 DEF Applying
    <3>2. call'[d].told = call[d].told \cup Line
      BY <1>8, <1>9, <3>1
    <3> QED BY <1>2, <3>2 DEF Jack
  <2> QED BY <1>4, <1>9, <1>10, <1>11, <1>13, <1>14, <2>2, <2>3 DEF FollowInv
<1> QED BY <1>4, <1>15, <1>16

\* While a thread lets go of the lines nothing is said of what is applied
LEMMA EndingSuffices ==
    ASSUME LockInv', HandlerInv', Ending'
    PROVE  FollowInv'
BY DEF FollowInv, AppliedInv, ReadInv

LEMMA UnwatchTypes ==
    ASSUME CodecTypes, NEW l \in Line
    PROVE  /\ Unwatch(l) \in Jack /\ Unwatch(l).watched = jack.watched \ {l}
           /\ Unwatch(l).at = jack.at /\ Unwatch(l).line = jack.line
           /\ Unwatch(l).level = jack.level /\ Unwatch(l).lock = jack.lock
           /\ \A m \in Line : m # l => Unwatch(l).last[m] = jack.last[m]
<1>1. jack \in Jack
  BY DEF CodecTypes
<1> QED BY <1>1 DEF Unwatch, Jack

LEMMA TeardownBeginsKeeps ==
    ASSUME CodecTypes, FollowInv, NEW c \in Caller, TeardownBegins(c)
    PROVE  FollowInv' /\ call' \in [Caller -> Thread] /\ jack' \in Jack
<1>1. /\ call[c].at = "teardown" /\ jack.lock = "none" /\ "headphone" \in Line
      /\ Reaches(c, "headphone drains") /\ "headphone drains" \in Stage
  BY DEF TeardownBegins, JackFree, Line, Stage
<1>2. /\ call' \in [Caller -> Thread] /\ call'[c].at = "headphone drains"
      /\ \A d \in Caller \ {c} : call'[d] = call[d]
  BY <1>1, Moved
<1>3. PICK j : j = Unwatch("headphone")
  OBVIOUS
<1>4. /\ j \in Jack /\ j.watched = jack.watched \ {"headphone"}
      /\ j.at = jack.at /\ j.line = jack.line /\ j.level = jack.level
      /\ \A m \in Line : m # "headphone" => j.last[m] = jack.last[m]
  BY <1>1, <1>3, UnwatchTypes
<1>5. jack' = [j EXCEPT !.lock = c]
  BY <1>3 DEF TeardownBegins
<1>6. /\ jack' \in Jack /\ jack'.watched = jack.watched \ {"headphone"} /\ jack'.lock = c
      /\ jack'.at = jack.at /\ jack'.line = jack.line /\ jack'.level = jack.level
      /\ \A m \in Line : m # "headphone" => jack'.last[m] = jack.last[m]
  BY <1>4, <1>5 DEF Jack
<1>7. \A d \in Caller : call[d].at \notin Locking
  BY <1>1, NobodyLocks
<1>8. LockInv'
  <2>1. \A d \in Caller : d # c => call'[d].at \notin Locking
    BY <1>2, <1>7
  <2>2. "none" \notin Caller
    BY DEF Caller
  <2> QED BY <1>2, <1>6, <2>1, <2>2 DEF LockInv, Locking
<1>9. HandlerInv'
  <2> SUFFICES ASSUME jack.at # "wait"
               PROVE  /\ jack.line \in Line
                      /\ jack.line \in jack'.watched => jack'.last[jack.line] = jack.level
                      /\ jack.line \in jack'.watched \/ jack.line = "headphone"
    BY <1>2, <1>6 DEF HandlerInv
  <2>1. jack.line \in Line /\ jack.line \in jack.watched /\ jack.last[jack.line] = jack.level
    BY <1>7 DEF FollowInv, HandlerInv, Locking
  <2> QED BY <1>6, <2>1
<1>10. Ending'
  BY <1>2 DEF Ending
<1> QED BY <1>2, <1>6, <1>8, <1>9, <1>10, EndingSuffices

LEMMA HeadphoneResetKeeps ==
    ASSUME CodecTypes, FollowInv, NEW c \in Caller, HeadphoneReset(c)
    PROVE  FollowInv' /\ call' \in [Caller -> Thread] /\ jack' \in Jack
<1>1. /\ call[c].at = "headphone drains" /\ NotHandling("headphone") /\ "microphone" \in Line
      /\ Reaches(c, "microphone drains") /\ "microphone drains" \in Stage
      /\ jack' = Unwatch("microphone")
  BY DEF HeadphoneReset, Line, Stage
<1>2. /\ call' \in [Caller -> Thread] /\ call'[c].at = "microphone drains"
      /\ \A d \in Caller \ {c} : call'[d] = call[d]
  BY <1>1, Moved
<1>3. PICK j : j = Unwatch("microphone")
  OBVIOUS
<1>4. /\ j \in Jack /\ j.watched = jack.watched \ {"microphone"}
      /\ j.at = jack.at /\ j.line = jack.line /\ j.lock = jack.lock
  BY <1>1, <1>3, UnwatchTypes
<1>5. /\ jack' \in Jack /\ jack'.watched = jack.watched \ {"microphone"}
      /\ jack'.at = jack.at /\ jack'.line = jack.line /\ jack'.lock = jack.lock
  BY <1>1, <1>3, <1>4
<1>6. /\ jack.lock = c /\ "headphone" \notin jack.watched
      /\ \A d \in Caller : d # c => call[d].at \notin Locking
  BY <1>1 DEF FollowInv, LockInv, Locking
<1>7. jack'.watched = {}
  BY <1>5, <1>6 DEF Jack, Line
<1>8. LockInv'
  <2>1. \A d \in Caller : d # c => call'[d].at \notin Locking
    BY <1>2, <1>6
  <2>2. "none" \notin Caller
    BY DEF Caller
  <2> QED BY <1>2, <1>5, <1>6, <1>7, <2>1, <2>2 DEF LockInv, Locking
<1>9. HandlerInv'
  <2> SUFFICES ASSUME jack.at # "wait" PROVE jack.line = "microphone"
    BY <1>1, <1>2, <1>5, <1>7 DEF HandlerInv
  <2>1. jack.line \in Line /\ jack.line # "headphone"
    BY <1>1 DEF FollowInv, HandlerInv, NotHandling
  <2> QED BY <2>1 DEF Line
<1>10. Ending'
  BY <1>2 DEF Ending
<1> QED BY <1>2, <1>5, <1>8, <1>9, <1>10, EndingSuffices

LEMMA MicrophoneResetKeeps ==
    ASSUME CodecTypes, FollowInv, NEW c \in Caller, MicrophoneReset(c)
    PROVE  /\ FollowInv' /\ call' \in [Caller -> Thread] /\ jack' \in Jack
           /\ jack'.watched = {} /\ jack'.at = "wait"
<1>1. /\ call[c].at = "microphone drains" /\ NotHandling("microphone")
      /\ jack' = [jack EXCEPT !.lock = "none"]
  BY DEF MicrophoneReset
<1>2. PICK at : at = IF c = "codec" /\ ~card.present THEN "unbind" ELSE "done"
  OBVIOUS
<1>3. at \in Stage /\ at \in {"unbind", "done"} /\ Reaches(c, at)
  BY <1>2 DEF MicrophoneReset, Stage
<1>4. /\ call' \in [Caller -> Thread] /\ call'[c].at = at
      /\ \A d \in Caller \ {c} : call'[d] = call[d]
  BY <1>3, Moved
<1>5. /\ jack.lock = c /\ jack.watched = {}
      /\ \A d \in Caller : d # c => call[d].at \notin Locking
  BY <1>1 DEF FollowInv, LockInv, Locking
<1>6. jack.at = "wait"
  <2>1. \A d \in Caller : call[d].at # "headphone drains"
    BY <1>1, <1>5 DEF Locking
  <2>2. jack.at # "wait" => jack.line = "microphone"
    BY <1>5, <2>1 DEF FollowInv, HandlerInv
  <2> QED BY <1>1, <2>2 DEF NotHandling
<1>7. /\ jack' \in Jack /\ jack'.watched = {} /\ jack'.at = "wait" /\ jack'.lock = "none"
  BY <1>1, <1>5, <1>6 DEF CodecTypes, Jack
<1>8. \A d \in Caller : call'[d].at \notin Locking
  BY <1>3, <1>4, <1>5 DEF Locking
<1>9. LockInv'
  <2>1. "none" \notin Caller
    BY DEF Caller
  <2> QED BY <1>7, <1>8, <2>1 DEF LockInv, Locking
<1>10. HandlerInv' /\ AppliedInv' /\ ReadInv'
  BY <1>7 DEF HandlerInv, AppliedInv, ReadInv
<1> QED BY <1>4, <1>7, <1>9, <1>10 DEF FollowInv

\* The threads stay where they are while the lines switch and a handler runs
LEMMA LockStays ==
    ASSUME FollowInv, \A d \in Caller : call'[d].at = call[d].at,
           jack'.lock = jack.lock, jack'.watched = jack.watched
    PROVE  LockInv'
BY DEF FollowInv, LockInv, Locking

LEMMA JackMovesKeeps ==
    ASSUME CodecTypes, FollowInv, NEW l \in Line, JackMoves(l)
    PROVE  FollowInv' /\ jack' \in Jack
<1>1. /\ jack \in Jack /\ jack' = [jack EXCEPT !.plugged[l] = ~@, !.moves = @ + 1]
      /\ sound' = sound /\ call' = call
  BY DEF CodecTypes, JackMoves
<1>2. PICK plugged : plugged = [jack.plugged EXCEPT ![l] = ~@]
  OBVIOUS
<1>3. plugged \in [Line -> BOOLEAN]
  BY <1>1, <1>2 DEF Jack
<1>4. PICK n : n = jack.moves + 1
  OBVIOUS
<1>4a. n \in Nat /\ jack' = [jack EXCEPT !.plugged = plugged, !.moves = n]
  BY <1>1, <1>2, <1>4 DEF Jack
<1>5. /\ jack' \in Jack /\ jack'.watched = jack.watched /\ jack'.at = jack.at
      /\ jack'.line = jack.line /\ jack'.last = jack.last /\ jack'.level = jack.level
      /\ jack'.lock = jack.lock /\ jack'.missed = jack.missed
  BY <1>1, <1>3, <1>4a DEF Jack
<1>6. LockInv'
  BY <1>1, <1>5, LockStays
<1>7. HandlerInv'
  BY <1>1, <1>5 DEF FollowInv, HandlerInv
<1>8. AppliedInv'
  BY <1>1, <1>5 DEF FollowInv, AppliedInv, Ending, Applying, NotHandling
<1>9. ReadInv'
  <2>1. /\ Ending' <=> Ending
        /\ \A d \in Caller : (Applying(d)' <=> Applying(d)) /\ (Alone(d)' <=> Alone(d))
        /\ \A m : NotHandling(m)' <=> NotHandling(m)
    BY <1>1, <1>5 DEF Ending, Applying, Alone, NotHandling
  <2> QED BY <1>1, <1>5, <2>1 DEF FollowInv, ReadInv
<1> QED BY <1>5, <1>6, <1>7, <1>8, <1>9 DEF FollowInv

LEMMA JackEventKeeps ==
    ASSUME CodecTypes, FollowInv, NEW l \in Line, JackEvent(l)
    PROVE  FollowInv' /\ jack' \in Jack /\ l \in jack.watched
<1>1. /\ jack \in Jack /\ jack.at = "wait" /\ l \in jack.watched
      /\ jack' = [jack EXCEPT !.at = "event", !.line = l, !.level = jack.plugged[l],
                              !.last[l] = jack.plugged[l]]
      /\ sound' = sound /\ call' = call
  BY DEF CodecTypes, JackEvent
<1>2. PICK p : p = jack.plugged[l]
  OBVIOUS
<1>3. PICK last : last = [jack.last EXCEPT ![l] = p]
  OBVIOUS
<1>4. /\ p \in BOOLEAN /\ last \in [Line -> BOOLEAN] /\ last[l] = p
      /\ \A m \in Line : m # l => last[m] = jack.last[m]
  BY <1>1, <1>2, <1>3 DEF Jack
<1>5. jack' = [jack EXCEPT !.at = "event", !.line = l, !.level = p, !.last = last]
  BY <1>1, <1>2, <1>3 DEF Jack
<1>6. /\ jack' \in Jack /\ jack'.watched = jack.watched /\ jack'.at = "event"
      /\ jack'.line = l /\ jack'.last = last /\ jack'.level = p
      /\ jack'.lock = jack.lock /\ jack'.missed = jack.missed
  BY <1>1, <1>4, <1>5 DEF Jack
<1>7. LockInv'
  BY <1>1, <1>6, LockStays
<1>8. HandlerInv'
  BY <1>1, <1>4, <1>6 DEF HandlerInv
<1>9. \A m \in Line : NotHandling(m)' => m # l /\ NotHandling(m)
  BY <1>1, <1>6 DEF NotHandling
<1>10. jack.watched \subseteq Line
  BY <1>1 DEF Jack
<1>11. AppliedInv'
  BY <1>1, <1>4, <1>6, <1>9, <1>10 DEF FollowInv, AppliedInv, Ending, Applying
<1>12. ReadInv'
  <2> SUFFICES ASSUME ~Ending, NEW d \in Caller, Applying(d), Alone(d),
                      NEW m \in jack.watched \ call[d].told, NotHandling(m)'
               PROVE  call[d].read[m] = last[m]
    BY <1>1, <1>6 DEF ReadInv, Ending, Applying, Alone
  <2>1. m # l /\ NotHandling(m) /\ m \in Line
    BY <1>9, <1>10
  <2>2. call[d].read[m] = jack.last[m]
    BY <2>1 DEF FollowInv, ReadInv
  <2> QED BY <1>4, <2>1, <2>2
<1> QED BY <1>1, <1>6, <1>7, <1>8, <1>11, <1>12 DEF FollowInv

LEMMA EventSnapshotKeeps ==
    ASSUME CodecTypes, FollowInv, EventSnapshot
    PROVE  FollowInv' /\ jack' \in Jack
<1>1. /\ jack \in Jack /\ jack.at = "event" /\ sound' = sound /\ call' = call
      /\ jack' = [jack EXCEPT !.at = "apply", !.other = sound.present[Other(jack.line)]]
  BY DEF CodecTypes, EventSnapshot
<1>2. sound.present[Other(jack.line)] \in BOOLEAN
  BY DEF CodecTypes, Sound, Other, Line
<1>3. /\ jack' \in Jack /\ jack'.watched = jack.watched /\ jack'.at = "apply"
      /\ jack'.line = jack.line /\ jack'.last = jack.last /\ jack'.level = jack.level
      /\ jack'.lock = jack.lock /\ jack'.missed = jack.missed
  BY <1>1, <1>2 DEF Jack
<1>4. LockInv'
  BY <1>1, <1>3, LockStays
<1>5. HandlerInv'
  BY <1>1, <1>3 DEF FollowInv, HandlerInv
<1>6. \A m : NotHandling(m)' => NotHandling(m)
  BY <1>1, <1>3 DEF NotHandling
<1>7. AppliedInv'
  BY <1>1, <1>3, <1>6 DEF FollowInv, AppliedInv, Ending, Applying
<1>8. ReadInv'
  <2>1. /\ Ending' <=> Ending
        /\ \A d \in Caller : (Applying(d)' <=> Applying(d)) /\ (Alone(d)' <=> Alone(d))
    BY <1>1 DEF Ending, Applying, Alone
  <2> QED BY <1>1, <1>3, <1>6, <2>1 DEF FollowInv, ReadInv
<1> QED BY <1>3, <1>4, <1>5, <1>7, <1>8 DEF FollowInv

LEMMA EventAppliedKeeps ==
    ASSUME CodecTypes, RegistersInv, FollowInv, EventApplied
    PROVE  /\ FollowInv' /\ call' \in [Caller -> Thread] /\ jack' \in Jack
           /\ RegistersInv' /\ sound' \in Sound
           /\ \A d \in Caller : call'[d].at = call[d].at
           /\ jack'.watched = jack.watched /\ jack'.at = "wait"
<1>1. PICK l : l = jack.line
  OBVIOUS
<1>2. PICK present : present = [i \in Line |-> IF i = l THEN jack.level ELSE jack.other]
  OBVIOUS
<1>3. PICK over : over = {i \in {Other(l)} : sound.present[i] # jack.other}
  OBVIOUS
<1>4. PICK e \in JackOutcomes(present) :
        /\ ApplyJackState(e, present)
        /\ jack' = [jack EXCEPT !.at = "wait", !.line = "none", !.level = FALSE,
                      !.other = FALSE,
                      !.missed = IF e.ok THEN (@ \ {l}) \cup over ELSE @ \cup {l}]
  BY <1>1, <1>2, <1>3 DEF EventApplied
<1>5. /\ jack \in Jack /\ jack.at = "apply" /\ call' = Told({l} \cup over)
  BY <1>1, <1>3 DEF CodecTypes, EventApplied
<1>6. l \in jack.watched => jack.last[l] = jack.level
  BY <1>1, <1>5 DEF FollowInv, HandlerInv
<1>7. l \in Line
  BY <1>1, <1>5 DEF FollowInv, HandlerInv
<1>8. /\ Other(l) \in Line /\ Other(l) # l
      /\ \A m \in Line : m = l \/ m = Other(l)
      /\ over \in SUBSET Line
  <2>1. /\ Other(l) \in Line /\ Other(l) # l
        /\ \A m \in Line : m = l \/ m = Other(l)
    BY <1>7 DEF Other, Line
  <2> QED BY <1>3, <2>1
<1>9. /\ present \in [Line -> BOOLEAN] /\ present[l] = jack.level
      /\ present[Other(l)] = jack.other
  BY <1>2, <1>5, <1>8, <1>7 DEF Jack
<1>10. /\ RegistersInv' /\ sound' \in Sound /\ e.ok \in BOOLEAN
       /\ sound'.present = IF e.ok = TRUE THEN present ELSE sound.present
  BY <1>4, <1>9, ApplyKeeps
<1>11. PICK M : M = IF e.ok THEN (jack.missed \ {l}) \cup over ELSE jack.missed \cup {l}
  OBVIOUS
<1>12. M \in SUBSET Line
  BY <1>5, <1>8, <1>7, <1>11 DEF Jack
<1>13. /\ jack' \in Jack /\ jack'.watched = jack.watched /\ jack'.at = "wait"
       /\ jack'.last = jack.last /\ jack'.lock = jack.lock /\ jack'.missed = M
  <2>1. jack' = [jack EXCEPT !.at = "wait", !.line = "none", !.level = FALSE,
                      !.other = FALSE, !.missed = M]
    BY <1>4, <1>5, <1>11 DEF Jack
  <2> QED BY <1>5, <1>12, <2>1 DEF Jack
<1>14. PICK L : L = {l} \cup over
  OBVIOUS
<1>15. /\ call' \in [Caller -> Thread]
       /\ \A d \in Caller : /\ call'[d].at = call[d].at /\ call'[d].read = call[d].read
                            /\ Applying(d) => call'[d].told = call[d].told \cup L
  <2>1. L \in SUBSET Line /\ call' = Told(L)
    BY <1>5, <1>8, <1>7, <1>14
  <2>2. PICK k : k = Told(L)
    OBVIOUS
  <2>3. /\ k \in [Caller -> Thread]
        /\ \A d \in Caller : /\ k[d].at = call[d].at /\ k[d].read = call[d].read
                             /\ Applying(d) => k[d].told = call[d].told \cup L
    BY <2>1, <2>2, ToldOf
  <2> QED BY <2>1, <2>2, <2>3
<1>16. LockInv'
  BY <1>13, <1>15, LockStays
<1>17. HandlerInv'
  BY <1>13 DEF HandlerInv
<1>18. /\ ~Ending' => ~Ending
       /\ \A d \in Caller : (Applying(d)' <=> Applying(d)) /\ (Alone(d)' <=> Alone(d))
  BY <1>15 DEF Ending, Applying, Alone
<1>19. \A m \in Line : m # l => NotHandling(m)
  BY <1>1 DEF NotHandling
<1>20. jack.watched \subseteq Line
  BY <1>5 DEF Jack
<1>21. AppliedInv'
  <2> SUFFICES ASSUME ~Ending', \A d \in Caller : ~Applying(d)',
                      NEW m \in jack.watched \ M
               PROVE  sound'.present[m] = jack.last[m]
    BY <1>13 DEF AppliedInv
  <2>1. ~Ending /\ \A d \in Caller : ~Applying(d)
    BY <1>18
  <2>2. m # l /\ m \notin jack.missed => sound.present[m] = jack.last[m]
    BY <1>19, <1>20, <2>1 DEF FollowInv, AppliedInv
  <2>3. CASE e.ok = FALSE
    <3>1. m # l /\ m \notin jack.missed
      BY <1>11, <2>3
    <3> QED BY <1>10, <2>2, <2>3, <3>1
  <2>4. CASE e.ok = TRUE
    <3>1. sound'.present = present
      BY <1>10, <2>4
    <3>2. CASE m = l
      BY <1>6, <1>7, <1>9, <3>1, <3>2
    <3>3. CASE m # l
      <4>1. m = Other(l) /\ m \notin over /\ m \notin jack.missed
        BY <1>8, <1>11, <1>20, <2>4, <3>3
      <4>2. sound.present[m] = jack.other
        BY <1>3, <4>1
      <4> QED BY <1>9, <2>2, <3>1, <3>3, <4>1, <4>2
    <3> QED BY <3>2, <3>3
  <2> QED BY <1>10, <2>3, <2>4
<1>22. ReadInv'
  <2> SUFFICES ASSUME ~Ending', NEW d \in Caller, Applying(d)', Alone(d)',
                      NEW m \in jack.watched \ call'[d].told
               PROVE  call'[d].read[m] = jack.last[m]
    BY <1>13 DEF ReadInv
  <2>1. ~Ending /\ Applying(d) /\ Alone(d)
    BY <1>18
  <2>2. m # l /\ m \notin call[d].told /\ m \in Line
    BY <1>14, <1>15, <1>20, <2>1
  <2>3. call[d].read[m] = jack.last[m]
    BY <1>19, <2>1, <2>2 DEF FollowInv, ReadInv
  <2> QED BY <1>15, <2>3
<1> QED BY <1>10, <1>13, <1>15, <1>16, <1>17, <1>21, <1>22 DEF FollowInv

LEMMA InitializeCodecKeeps ==
    ASSUME CodecTypes, RegistersInv, FollowInv, NEW c \in Caller, InitializeCodec(c)
    PROVE  /\ FollowInv' /\ call' \in [Caller -> Thread] /\ jack' \in Jack
           /\ RegistersInv' /\ sound' \in Sound
           /\ \A d \in Caller : d # c => call'[d] = call[d]
           /\ call'[c].at \in {"jack", "failed"}
           /\ jack'.watched = jack.watched /\ jack'.at = jack.at
<1>1. PICK ok \in BOOLEAN :
        /\ RegistersInv' /\ sound' \in Sound
        /\ ok = TRUE => sound'.present = Unplugged
        /\ ok = FALSE => sound'.present = sound.present
        /\ jack' = IF ok THEN [jack EXCEPT !.missed = @ \cup {l \in jack.watched : jack.last[l]}]
                   ELSE jack
        /\ Reaches(c, IF ok THEN "jack" ELSE "failed")
  BY InitializeKeeps
<1>2. PICK at : at = IF ok THEN "jack" ELSE "failed"
  OBVIOUS
<1>3. at \in {"jack", "failed"} /\ Reaches(c, at) /\ call[c].at = "init"
  BY <1>1, <1>2 DEF InitializeCodec
<1>4. at \in Stage /\ at \in Plain /\ call[c].at \in Plain
  BY <1>3 DEF Stage, Plain
<1>5. /\ call' \in [Caller -> Thread] /\ call'[c].at = at
      /\ \A d \in Caller \ {c} : call'[d] = call[d]
      /\ \A d \in Caller : call'[d].read = call[d].read /\ call'[d].told = call[d].told
  BY <1>3, <1>4, Moved
<1>6. CASE ok = FALSE
  <2>1. jack' = jack /\ sound'.present = sound.present
    BY <1>1, <1>6
  <2>2. FollowInv'
    BY <1>3, <1>4, <2>1, PlainMove
  <2> QED BY <1>1, <1>3, <1>5, <2>1, <2>2 DEF CodecTypes
<1>7. CASE ok = TRUE
  <2>1. PICK M : M = jack.missed \cup {l \in jack.watched : jack.last[l]}
    OBVIOUS
  <2>2. jack \in Jack /\ M \in SUBSET Line
    BY <2>1 DEF CodecTypes, Jack
  <2>3. jack' = [jack EXCEPT !.missed = M]
    BY <1>1, <1>7, <2>1, <2>2 DEF Jack
  <2>4. /\ jack' \in Jack /\ jack'.watched = jack.watched /\ jack'.at = jack.at
        /\ jack'.line = jack.line /\ jack'.last = jack.last /\ jack'.level = jack.level
        /\ jack'.lock = jack.lock /\ jack'.missed = M
    BY <2>2, <2>3 DEF Jack
  <2>5. \A d \in Caller : /\ call'[d].at \in Locking <=> call[d].at \in Locking
                          /\ Applying(d)' <=> Applying(d)
                          /\ \A x \in {"microphone", "teardown", "headphone drains",
                                       "microphone drains"} :
                                call'[d].at = x <=> call[d].at = x
    BY <1>3, <1>5 DEF Locking, Applying
  <2>6. LockInv'
    BY <2>4, <2>5 DEF FollowInv, LockInv, Locking
  <2>7. HandlerInv'
    BY <2>4, <2>5 DEF FollowInv, HandlerInv
  <2>8. /\ Ending' <=> Ending
        /\ \A d \in Caller : Alone(d)' <=> Alone(d)
    BY <2>5 DEF Ending, Alone
  <2>9. AppliedInv'
    <3> SUFFICES ASSUME NEW l \in jack.watched \ M
                 PROVE  sound'.present[l] = jack.last[l]
      BY <2>4 DEF AppliedInv
    <3>1. jack.last[l] = FALSE /\ l \in Line
      BY <2>1, <2>2 DEF Jack
    <3> QED BY <1>1, <1>7, <3>1 DEF Unplugged
  <2>10. ReadInv'
    <3> SUFFICES ASSUME ~Ending', NEW d \in Caller, Applying(d)', Alone(d)',
                        NEW l \in jack.watched \ call'[d].told, NotHandling(l)
                 PROVE  call'[d].read[l] = jack.last[l]
      BY <2>4 DEF ReadInv, NotHandling
    <3>1. ~Ending /\ Applying(d) /\ Alone(d) /\ l \in jack.watched \ call[d].told
      BY <1>5, <2>5, <2>8
    <3>2. call[d].read[l] = jack.last[l]
      BY <3>1 DEF FollowInv, ReadInv
    <3> QED BY <1>5, <3>2
  <2> QED BY <1>1, <1>3, <1>5, <2>4, <2>6, <2>7, <2>9, <2>10 DEF FollowInv
<1> QED BY <1>6, <1>7

----------------------------------------------------------------------------
(* The codec that is let go, and the whole step.                           *)

Letting == {"teardown", "headphone drains", "microphone drains"}
StaysQuiet == jack.watched = {} /\ jack.at = "wait" => jack'.watched = {} /\ jack'.at = "wait"

\* A thread that goes on leaves a codec that is gone alone
LEMMA QuietMove ==
    ASSUME QuietInv, CodecTypes, NEW c \in Caller, NEW at, at # "unbind",
           card'.present = card.present, card'.i2c = card.i2c,
           call'[c].at = at, \A d \in Caller \ {c} : call'[d].at = call[d].at,
           call[c].at # "idle" \/ c = "user" \/ (c = "lpe" /\ call["codec"].at = "idle"),
           c = "codec" /\ card.present = FALSE => at \in Letting,
           card.present = TRUE \/ StaysQuiet
    PROVE  QuietInv'
<1>1. /\ {"lpe", "codec", "user"} = Caller /\ card.present \in BOOLEAN /\ card.i2c \in BOOLEAN
  BY DEF Caller, CodecTypes, CardState
<1>2. CASE c = "codec"
  <2>1. /\ call'["codec"].at = at /\ call'["lpe"].at = call["lpe"].at
        /\ call'["user"].at = call["user"].at /\ call["codec"].at # "idle"
    BY <1>1, <1>2
  <2>2. card.i2c = TRUE /\ call["lpe"].at = "idle"
    BY <1>1, <2>1 DEF QuietInv
  <2> QED BY <1>1, <1>2, <2>1, <2>2 DEF QuietInv, Letting
<1>3. CASE c = "lpe"
  <2>1. /\ call'["lpe"].at = at /\ call'["codec"].at = call["codec"].at
        /\ call'["user"].at = call["user"].at
    BY <1>1, <1>3
  <2>2. call["codec"].at = "idle"
    BY <1>3 DEF QuietInv
  <2> QED BY <1>1, <1>3, <2>1, <2>2 DEF QuietInv, StaysQuiet
<1>4. CASE c = "user"
  <2>1. /\ call'["user"].at = at /\ call'["codec"].at = call["codec"].at
        /\ call'["lpe"].at = call["lpe"].at
    BY <1>1, <1>4
  <2> QED BY <1>1, <1>4, <2>1 DEF QuietInv, StaysQuiet
<1> QED BY <1>1, <1>2, <1>3, <1>4

LEMMA QuietStays ==
    ASSUME QuietInv, CodecTypes, card'.present = card.present, card'.i2c = card.i2c,
           \A d \in Caller : call'[d].at = call[d].at, StaysQuiet
    PROVE  QuietInv'
<1>1. "lpe" \in Caller /\ "codec" \in Caller /\ "user" \in Caller
  BY DEF Caller
<1>2. /\ call'["lpe"].at = call["lpe"].at /\ call'["codec"].at = call["codec"].at
      /\ call'["user"].at = call["user"].at
  BY <1>1
<1> QED BY <1>2 DEF QuietInv, StaysQuiet

\* A codec that is there is not let go; one that is gone has no thread but that
LEMMA CodecThere ==
    ASSUME QuietInv, CodecTypes, call["codec"].at \notin Letting \cup {"unbind", "idle"}
    PROVE  card.present = TRUE
<1>1. card.present \in BOOLEAN
  BY DEF CodecTypes, CardState
<1> QED BY <1>1 DEF QuietInv, Letting

----------------------------------------------------------------------------
\* The hooks of the driver and the open
LEMMA HooksKeep ==
    ASSUME CodecInv,
           LpeAppears \/ LpeInitialized \/ LpeDisappears \/ AttachCodec \/ DetachCodec
           \/ CodecUnbound \/ OpenCodec
    PROVE  CodecInv'
<1> USE DEF CodecInv
<1>1. /\ sound \in Sound /\ jack \in Jack /\ card \in CardState
      /\ call \in [Caller -> Thread] /\ mix \in [Mixer -> Mix]
      /\ "lpe" \in Caller /\ "codec" \in Caller /\ "user" \in Caller
  BY DEF CodecTypes, Caller
<1>h. PICK n \in Nat : n = card.hooks + 1
  BY <1>1 DEF CardState
<1>2. jack' = jack /\ mix' = mix /\ codec' = codec /\ (sound' = sound \/ Failing)
  BY DEF LpeAppears, LpeInitialized, LpeDisappears, AttachCodec, DetachCodec, CodecUnbound, OpenCodec
<1>3. RegistersInv' /\ sound' \in Sound /\ sound'.present = sound.present
  BY <1>2, FailingKeeps
<1>4. StaysQuiet
  BY <1>2 DEF StaysQuiet
<1>5. ASSUME card' \in CardState, call' \in [Caller -> Thread], FollowInv', QuietInv'
      PROVE  CodecInv'
  BY <1>1, <1>2, <1>3, <1>5 DEF CodecTypes
<1>6. ASSUME NEW c \in Caller, NEW at \in Plain \cup {"teardown"}, call[c].at \in Plain,
             Reaches(c, at)
      PROVE  /\ FollowInv' /\ call' \in [Caller -> Thread] /\ call'[c].at = at
             /\ \A d \in Caller \ {c} : call'[d].at = call[d].at
  <2>1. at \in Stage
    BY DEF Plain, Stage
  <2> QED BY <1>2, <1>3, <1>6, <2>1, Moved, PlainMove
<1>7. {"idle", "firmware", "init", "jack", "unbind"} \subseteq Plain
  BY DEF Plain, Stage
<1>8. CASE LpeAppears
  <2>1. /\ card' \in CardState /\ card'.present = card.present /\ card'.i2c = card.i2c
    <3>1. \/ card' = [card EXCEPT !.hooks = n, !.lpe = TRUE, !.pmc = TRUE]
          \/ card' = [card EXCEPT !.hooks = n, !.lpe = TRUE]
      BY <1>1, <1>8, <1>h DEF LpeAppears, CardState
    <3> QED BY <1>1, <3>1 DEF CardState
  <2>2. Reaches("lpe", "firmware") /\ call["lpe"].at = "idle" /\ call["codec"].at = "idle"
    BY <1>8 DEF LpeAppears, ManagerFree
  <2>3. /\ FollowInv' /\ call' \in [Caller -> Thread] /\ call'["lpe"].at = "firmware"
        /\ \A d \in Caller \ {"lpe"} : call'[d].at = call[d].at
    BY <1>1, <1>6, <1>7, <2>2
  <2>4. QuietInv'
    BY <1>1, <1>4, <2>1, <2>2, <2>3, QuietMove
  <2> QED BY <1>5, <2>1, <2>3, <2>4
<1>9. CASE LpeInitialized
  <2>1. /\ card' \in CardState /\ card'.present = card.present /\ card'.i2c = card.i2c
    <3>1. card' = [card EXCEPT !.lpeReady = card.pmc] \/ card' = card
      BY <1>9 DEF LpeInitialized
    <3> QED BY <1>1, <3>1 DEF CardState
  <2>2. PICK at \in {"init", "idle"} : Reaches("lpe", at)
    BY <1>9 DEF LpeInitialized
  <2>3. call["lpe"].at = "firmware"
    BY <1>9 DEF LpeInitialized
  <2>4. /\ FollowInv' /\ call' \in [Caller -> Thread] /\ call'["lpe"].at = at
        /\ \A d \in Caller \ {"lpe"} : call'[d].at = call[d].at
    BY <1>1, <1>6, <1>7, <2>2, <2>3
  <2>5. at # "unbind" /\ call["lpe"].at # "idle"
    BY <2>2, <2>3
  <2>6. QuietInv'
    BY <1>1, <1>4, <2>1, <2>4, <2>5, QuietMove
  <2> QED BY <1>5, <2>1, <2>4, <2>6
<1>10. CASE LpeDisappears
  <2>1. /\ card' \in CardState /\ card'.present = card.present /\ card'.i2c = card.i2c
        /\ call' = call
    <3>1. card' = [card EXCEPT !.hooks = n, !.lpe = FALSE, !.lpeReady = FALSE] /\ call' = call
      BY <1>1, <1>10, <1>h DEF LpeDisappears, CardState
    <3> QED BY <1>1, <3>1 DEF CardState
  <2>2. FollowInv'
    BY <1>2, <1>3, <2>1, Still
  <2>3. QuietInv'
    BY <1>4, <2>1, QuietStays
  <2> QED BY <1>1, <1>5, <2>1, <2>2, <2>3
<1>11. CASE AttachCodec
  <2>1. card' \in CardState /\ card'.present = TRUE /\ card'.i2c = TRUE
    <3>1. card' = [card EXCEPT !.hooks = n, !.present = TRUE, !.i2c = TRUE]
      BY <1>1, <1>11, <1>h DEF AttachCodec, CardState
    <3> QED BY <1>1, <3>1 DEF CardState
  <2>2. PICK at \in {"init", "idle"} : Reaches("codec", at)
    BY <1>11 DEF AttachCodec
  <2>3. call["lpe"].at = "idle" /\ call["codec"].at = "idle"
    BY <1>11 DEF AttachCodec, ManagerFree
  <2>4. /\ FollowInv' /\ call' \in [Caller -> Thread] /\ call'["codec"].at = at
        /\ \A d \in Caller \ {"codec"} : call'[d].at = call[d].at
    BY <1>1, <1>6, <1>7, <2>2, <2>3
  <2>5. /\ call'["lpe"].at = "idle" /\ call'["user"].at # "unbind" /\ call'["codec"].at # "unbind"
    BY <1>1, <2>2, <2>3, <2>4 DEF QuietInv
  <2>6. QuietInv'
    BY <2>1, <2>5 DEF QuietInv
  <2> QED BY <1>5, <2>1, <2>4, <2>6
<1>12. CASE DetachCodec
  <2>1. card' \in CardState /\ card'.present = FALSE /\ card'.i2c = card.i2c /\ card.present
    <3>1. card' = [card EXCEPT !.hooks = n, !.present = FALSE, !.ready = FALSE] /\ card.present
      BY <1>1, <1>12, <1>h DEF DetachCodec, CardState
    <3> QED BY <1>1, <3>1 DEF CardState
  <2>2. Reaches("codec", "teardown") /\ call["lpe"].at = "idle" /\ call["codec"].at = "idle"
    BY <1>12 DEF DetachCodec, ManagerFree
  <2>3. /\ FollowInv' /\ call' \in [Caller -> Thread] /\ call'["codec"].at = "teardown"
        /\ \A d \in Caller \ {"codec"} : call'[d].at = call[d].at
    BY <1>1, <1>6, <1>7, <2>2
  <2>4. call'["lpe"].at = "idle" /\ call'["user"].at # "unbind"
    BY <1>1, <2>2, <2>3 DEF QuietInv
  <2>5. card.i2c = TRUE
    BY <1>1, <2>1 DEF QuietInv, CardState
  <2>6. QuietInv'
    BY <2>1, <2>3, <2>4, <2>5 DEF QuietInv
  <2> QED BY <1>5, <2>1, <2>3, <2>6
<1>13. CASE CodecUnbound
  <2>1. card' \in CardState /\ card'.present = card.present /\ card'.i2c = FALSE
    BY <1>1, <1>13 DEF CodecUnbound, CardState
  <2>2. Reaches("codec", "idle") /\ call["codec"].at = "unbind"
    BY <1>13 DEF CodecUnbound
  <2>3. /\ FollowInv' /\ call' \in [Caller -> Thread] /\ call'["codec"].at = "idle"
        /\ \A d \in Caller \ {"codec"} : call'[d].at = call[d].at
    BY <1>1, <1>6, <1>7, <2>2
  <2>4. call'["lpe"].at = "idle" /\ call'["user"].at # "unbind"
    BY <1>1, <2>2, <2>3 DEF QuietInv
  <2>5. card.present = FALSE /\ jack.watched = {} /\ jack.at = "wait"
    BY <1>1, <2>2 DEF QuietInv, CardState
  <2>6. QuietInv'
    BY <1>2, <2>1, <2>3, <2>4, <2>5 DEF QuietInv
  <2> QED BY <1>5, <2>1, <2>3, <2>6
<1>14. CASE OpenCodec
  <2>1. card' = card /\ Reaches("user", "jack") /\ call["user"].at = "idle"
    BY <1>14 DEF OpenCodec
  <2>2. /\ FollowInv' /\ call' \in [Caller -> Thread] /\ call'["user"].at = "jack"
        /\ \A d \in Caller \ {"user"} : call'[d].at = call[d].at
    BY <1>1, <1>6, <1>7, <2>1
  <2>3. QuietInv'
    BY <1>1, <1>4, <2>1, <2>2, QuietMove
  <2> QED BY <1>1, <1>5, <2>1, <2>2, <2>3
<1> QED BY <1>8, <1>9, <1>10, <1>11, <1>12, <1>13, <1>14

\* The mixer
LEMMA MixerKeeps ==
    ASSUME CodecInv, NEW x \in Mixer, SetMix(x) \/ SetCodecVolume(x) \/ SetHeadphoneVolume(x)
    PROVE  CodecInv'
<1> USE DEF CodecInv
<1>1. /\ sound \in Sound /\ jack \in Jack /\ card \in CardState
      /\ call \in [Caller -> Thread] /\ mix \in [Mixer -> Mix] /\ mix[x] \in Mix
  BY DEF CodecTypes
<1>2. jack' = jack /\ call' = call /\ card' = card
  BY DEF SetMix, SetCodecVolume, SetHeadphoneVolume
<1>3. RegistersInv' /\ sound' \in Sound /\ sound'.present = sound.present
  <2>1. CASE SetMix(x)
    BY <1>1, <2>1 DEF SetMix, RegistersInv
  <2>2. CASE SetCodecVolume(x)
    BY <2>2, SpeakerKeeps
  <2>3. CASE SetHeadphoneVolume(x)
    BY <2>3, HeadphoneKeeps
  <2> QED BY <2>1, <2>2, <2>3
<1>4. FollowInv'
  BY <1>2, <1>3, Still
<1>5. QuietInv'
  BY <1>2 DEF QuietInv
<1>6. Quiet \in Levels /\ Setting \subseteq Levels
  BY DEF Quiet, Setting, Level, Levels, Gain
<1>7. NoMix \in Mix
  BY <1>6 DEF NoMix, Mix
<1>8. PICK m \in Mix : mix' = [mix EXCEPT ![x] = m]
  <2>1. CASE SetMix(x)
    <3>1. PICK wants \in SUBSET {"speaker", "headphone"} \ {{}},
               speaker \in Levels, headphone \in Levels :
            mix' = [mix EXCEPT ![x] =
                      [at |-> IF "speaker" \in wants THEN "speaker" ELSE "headphone",
                       speaker |-> speaker, headphone |-> headphone, wants |-> wants]]
      BY <1>6, <2>1 DEF SetMix
    <3>2. PICK m : m = [at |-> IF "speaker" \in wants THEN "speaker" ELSE "headphone",
                        speaker |-> speaker, headphone |-> headphone, wants |-> wants]
      OBVIOUS
    <3>3. m \in Mix
      BY <3>2 DEF Mix
    <3> QED BY <3>1, <3>2, <3>3
  <2>2. CASE SetCodecVolume(x) \/ SetHeadphoneVolume(x)
    <3>1. PICK ok : Mixed(x, ok)
      BY <2>2 DEF SetCodecVolume, SetSpeaker, SetHeadphoneVolume
    <3>2. PICK m : m = IF ok /\ mix[x].at = "speaker" /\ "headphone" \in mix[x].wants
                       THEN [mix[x] EXCEPT !.at = "headphone", !.speaker = Quiet]
                       ELSE [NoMix EXCEPT !.at = "done"]
      OBVIOUS
    <3>3. m \in Mix
      BY <1>1, <1>6, <1>7, <3>2 DEF Mix
    <3>4. mix' = [mix EXCEPT ![x] = m]
      BY <1>1, <3>1, <3>2 DEF Mixed
    <3> QED BY <3>3, <3>4
  <2> QED BY <2>1, <2>2
<1>9. mix' \in [Mixer -> Mix]
  BY <1>1, <1>8
<1> QED BY <1>1, <1>2, <1>3, <1>4, <1>5, <1>9 DEF CodecTypes

\* The lines, and the worker of the GPIO controller
LEMMA LinesKeep ==
    ASSUME CodecInv, (\E l \in Line : JackMoves(l) \/ JackEvent(l)) \/ EventSnapshot \/ EventApplied
    PROVE  CodecInv'
<1> USE DEF CodecInv
<1>1. /\ sound \in Sound /\ jack \in Jack /\ card \in CardState
      /\ call \in [Caller -> Thread] /\ mix \in [Mixer -> Mix]
  BY DEF CodecTypes
<1>2. card' = card /\ mix' = mix
  BY DEF JackMoves, JackEvent, EventSnapshot, EventApplied
<1>3. CASE EventApplied
  <2>1. /\ FollowInv' /\ call' \in [Caller -> Thread] /\ jack' \in Jack
        /\ RegistersInv' /\ sound' \in Sound
        /\ \A d \in Caller : call'[d].at = call[d].at
        /\ jack'.watched = jack.watched /\ jack'.at = "wait"
    BY <1>3, EventAppliedKeeps
  <2>2. StaysQuiet
    BY <2>1 DEF StaysQuiet
  <2>3. QuietInv'
    BY <1>2, <2>1, <2>2, QuietStays
  <2> QED BY <1>1, <1>2, <2>1, <2>3 DEF CodecTypes
<1>4. CASE ~EventApplied
  <2>1. codec' = codec /\ sound' = sound /\ call' = call
    BY <1>4 DEF JackMoves, JackEvent, EventSnapshot
  <2>2. FollowInv' /\ jack' \in Jack /\ StaysQuiet
    <3>1. ASSUME NEW l \in Line, JackMoves(l) PROVE FollowInv' /\ jack' \in Jack /\ StaysQuiet
      <4>1. StaysQuiet
        BY <1>1, <3>1 DEF JackMoves, StaysQuiet, Jack
      <4> QED BY <3>1, <4>1, JackMovesKeeps
    <3>2. ASSUME NEW l \in Line, JackEvent(l) PROVE FollowInv' /\ jack' \in Jack /\ StaysQuiet
      BY <3>2, JackEventKeeps DEF StaysQuiet
    <3>3. CASE EventSnapshot
      <4>1. StaysQuiet
        BY <3>3 DEF EventSnapshot, StaysQuiet
      <4> QED BY <3>3, <4>1, EventSnapshotKeeps
    <3> QED BY <1>4, <3>1, <3>2, <3>3
  <2>3. RegistersInv'
    BY <2>1 DEF RegistersInv
  <2>4. QuietInv'
    BY <1>2, <2>1, <2>2, QuietStays
  <2> QED BY <1>1, <1>2, <2>1, <2>2, <2>3, <2>4 DEF CodecTypes
<1> QED BY <1>3, <1>4

\* The codec is initialized
LEMMA InitializationKeeps ==
    ASSUME CodecInv, NEW c \in {"lpe", "codec"}, InitializeCodec(c)
    PROVE  CodecInv'
<1> USE DEF CodecInv
<1>1. /\ jack \in Jack /\ card \in CardState /\ mix \in [Mixer -> Mix]
      /\ c \in Caller /\ "codec" \in Caller /\ card' = card /\ mix' = mix
      /\ call[c].at = "init"
  BY DEF CodecTypes, Caller, InitializeCodec
<1>2. /\ FollowInv' /\ call' \in [Caller -> Thread] /\ jack' \in Jack
      /\ RegistersInv' /\ sound' \in Sound
      /\ \A d \in Caller : d # c => call'[d] = call[d]
      /\ call'[c].at \in {"jack", "failed"}
      /\ jack'.watched = jack.watched /\ jack'.at = jack.at
  BY <1>1, InitializeCodecKeeps
<1>3. StaysQuiet
  BY <1>2 DEF StaysQuiet
<1>4. PICK at : at = call'[c].at
  OBVIOUS
<1>5. /\ at # "unbind" /\ call'[c].at = at /\ call[c].at # "idle"
      /\ \A d \in Caller \ {c} : call'[d].at = call[d].at
      /\ card'.present = card.present /\ card'.i2c = card.i2c
  BY <1>1, <1>2, <1>4
<1>6. c = "codec" /\ card.present = FALSE => at \in Letting
  <2>1. c = "codec" => card.present = TRUE
    BY <1>1, CodecThere DEF Letting
  <2> QED BY <2>1
<1>7. QuietInv'
  BY <1>1, <1>3, <1>5, <1>6, QuietMove
<1> QED BY <1>1, <1>2, <1>7 DEF CodecTypes

\* The start and the end of jack detection
LEMMA DetectionKeeps ==
    ASSUME CodecInv, NEW c \in Caller,
           JackSkipped(c) \/ HeadphoneWatched(c) \/ MicrophoneWatched(c) \/ JackApplied(c)
           \/ TeardownBegins(c) \/ HeadphoneReset(c) \/ MicrophoneReset(c) \/ CodecStatusSet(c)
    PROVE  CodecInv'
<1> USE DEF CodecInv
<1>1. /\ sound \in Sound /\ jack \in Jack /\ card \in CardState
      /\ call \in [Caller -> Thread] /\ mix \in [Mixer -> Mix] /\ card.present \in BOOLEAN
      /\ "codec" \in Caller
  BY DEF CodecTypes, CardState, Caller
<1>2. /\ mix' = mix /\ card' \in CardState
      /\ card'.present = card.present /\ card'.i2c = card.i2c
  <2>1. mix' = mix
    BY DEF JackSkipped, HeadphoneWatched, MicrophoneWatched, JackApplied, TeardownBegins,
           HeadphoneReset, MicrophoneReset, CodecStatusSet
  <2>2. card' = card \/ CodecStatusSet(c)
    BY DEF JackSkipped, HeadphoneWatched, MicrophoneWatched, JackApplied, TeardownBegins,
           HeadphoneReset, MicrophoneReset
  <2>3. ASSUME CodecStatusSet(c)
        PROVE  /\ card' \in CardState /\ card'.present = card.present /\ card'.i2c = card.i2c
    <3>1. PICK ready \in BOOLEAN : card' = card \/ card' = [card EXCEPT !.ready = ready]
      <4>1. (call[c].at = "done") \in BOOLEAN
        OBVIOUS
      <4> QED BY <2>3, <4>1 DEF CodecStatusSet
    <3> QED BY <1>1, <3>1 DEF CardState
  <2> QED BY <1>1, <2>1, <2>2, <2>3
<1>3. \A d \in Caller : call[d].at \in Stage
  BY <1>1 DEF Thread
<1>4. ASSUME RegistersInv', sound' \in Sound, FollowInv', call' \in [Caller -> Thread],
             jack' \in Jack, QuietInv'
      PROVE  CodecInv'
  BY <1>1, <1>2, <1>4 DEF CodecTypes
<1>5. ASSUME call[c].at \notin Letting \cup {"unbind", "idle"}, call'[c].at # "unbind",
             \A d \in Caller : d # c => call'[d].at = call[d].at, card.present = TRUE \/ StaysQuiet
      PROVE  QuietInv'
  <2>1. PICK at : at = call'[c].at
    OBVIOUS
  <2>2. /\ at # "unbind" /\ call'[c].at = at /\ call[c].at # "idle"
        /\ \A d \in Caller \ {c} : call'[d].at = call[d].at
    BY <1>5, <2>1
  <2>3. c = "codec" /\ card.present = FALSE => at \in Letting
    <3>1. c = "codec" => card.present = TRUE
      BY <1>5, CodecThere
    <3> QED BY <3>1
  <2> QED BY <1>2, <1>5, <2>2, <2>3, QuietMove
<1>6. CASE JackSkipped(c) \/ CodecStatusSet(c)
  <2>1. codec' = codec /\ jack' = jack /\ (sound' = sound \/ Failing)
    BY <1>6 DEF JackSkipped, CodecStatusSet
  <2>2. RegistersInv' /\ sound' \in Sound /\ sound'.present = sound.present
    BY <2>1, FailingKeeps
  <2>3. PICK at \in {"done", "idle"} : Reaches(c, at)
    BY <1>6 DEF JackSkipped, CodecStatusSet
  <2>4. call[c].at \in {"jack", "done", "failed"}
    BY <1>6 DEF JackSkipped, JackFree, CodecStatusSet
  <2>5. at \in Stage /\ at \in Plain \cup {"teardown"} /\ call[c].at \in Plain
    BY <2>3, <2>4 DEF Plain, Stage
  <2>6. /\ call' \in [Caller -> Thread] /\ call'[c].at = at
        /\ \A d \in Caller \ {c} : call'[d] = call[d]
    BY <2>3, <2>5, Moved
  <2>7. FollowInv'
    BY <2>1, <2>2, <2>3, <2>5, PlainMove
  <2>8. StaysQuiet
    BY <2>1 DEF StaysQuiet
  <2>9. QuietInv'
    <3>1. call[c].at \notin Letting \cup {"unbind", "idle"} /\ call'[c].at # "unbind"
      BY <2>3, <2>4, <2>6 DEF Letting
    <3>2. \A d \in Caller : d # c => call'[d].at = call[d].at
      BY <2>6
    <3> QED BY <1>5, <2>8, <3>1, <3>2
  <2> QED BY <1>1, <1>4, <2>1, <2>2, <2>6, <2>7, <2>9
<1>7. CASE HeadphoneWatched(c)
  <2>1. FollowInv' /\ call' \in [Caller -> Thread] /\ jack' \in Jack
    BY <1>7, HeadphoneWatchedKeeps
  <2>2. /\ codec' = codec /\ sound' = sound /\ card.present = TRUE /\ call[c].at = "jack"
        /\ call' = [call EXCEPT ![c] = [at |-> "microphone", told |-> {},
                       read |-> [Unplugged EXCEPT !["headphone"] = jack.plugged["headphone"]]]]
    BY <1>1, <1>7 DEF HeadphoneWatched, JackFree
  <2>3. call'[c].at = "microphone" /\ \A d \in Caller : d # c => call'[d].at = call[d].at
    BY <1>1, <2>2
  <2>4. QuietInv'
    BY <1>5, <2>2, <2>3 DEF Letting
  <2>5. RegistersInv'
    BY <2>2 DEF RegistersInv
  <2> QED BY <1>1, <1>4, <2>1, <2>2, <2>4, <2>5
<1>8. CASE MicrophoneWatched(c)
  <2>1. codec' = codec /\ (sound' = sound \/ Failing) /\ call[c].at = "microphone"
    BY <1>8 DEF MicrophoneWatched
  <2>2. RegistersInv' /\ sound' \in Sound /\ sound'.present = sound.present
    BY <2>1, FailingKeeps
  <2>3. FollowInv' /\ call' \in [Caller -> Thread] /\ jack' \in Jack
    BY <1>8, <2>2, MicrophoneWatchedKeeps
  <2>4. call'[c].at = "apply" /\ \A d \in Caller : d # c => call'[d].at = call[d].at
    <3>1. CASE call' = [call EXCEPT ![c].at = "apply",
                                  ![c].read["microphone"] = jack.plugged["microphone"]]
      <4>1. call'[c] = [call[c] EXCEPT !.at = "apply",
                                  !.read["microphone"] = jack.plugged["microphone"]]
        BY <1>1, <3>1
      <4>2. \A d \in Caller : d # c => call'[d] = call[d]
        BY <1>1, <3>1
      <4>3. call[c] \in Thread
        BY <1>1
      <4>4. PICK r : r = [call[c].read EXCEPT !["microphone"] = jack.plugged["microphone"]]
        OBVIOUS
      <4>5. call'[c] = [[call[c] EXCEPT !.at = "apply"] EXCEPT !.read = r]
        BY <4>1, <4>3, <4>4 DEF Thread
      <4>6. call'[c].at = "apply"
        BY <4>3, <4>5 DEF Thread
      <4> QED BY <4>2, <4>6
    <3>2. CASE Reaches(c, "apply")
      <4>1. "apply" \in Stage
        BY DEF Stage
      <4>2. call'[c].at = "apply" /\ \A d \in Caller \ {c} : call'[d] = call[d]
        BY <3>2, <4>1, Moved
      <4> QED BY <4>2
    <3> QED BY <1>8, <3>1, <3>2 DEF MicrophoneWatched
  <2>5. jack.watched = {"headphone"}
    BY <2>1 DEF FollowInv, LockInv
  <2>6. StaysQuiet
    BY <2>5 DEF StaysQuiet
  <2>7. QuietInv'
    <3>1. call[c].at \notin Letting \cup {"unbind", "idle"} /\ call'[c].at # "unbind"
      BY <2>1, <2>4 DEF Letting
    <3> QED BY <1>5, <2>4, <2>6, <3>1
  <2> QED BY <1>4, <2>2, <2>3, <2>7
<1>9. CASE JackApplied(c)
  <2>1. /\ FollowInv' /\ call' \in [Caller -> Thread] /\ jack' \in Jack
        /\ RegistersInv' /\ sound' \in Sound
        /\ \A d \in Caller : d # c => call'[d].at = call[d].at
        /\ call'[c].at \in {"done", "teardown"}
        /\ jack'.watched = jack.watched /\ jack'.at = jack.at
    BY <1>9, JackAppliedKeeps
  <2>2. StaysQuiet
    BY <2>1 DEF StaysQuiet
  <2>3. call[c].at \notin Letting \cup {"unbind", "idle"} /\ call'[c].at # "unbind"
    BY <1>9, <2>1 DEF JackApplied, Letting
  <2>4. QuietInv'
    BY <1>5, <2>1, <2>2, <2>3
  <2> QED BY <1>4, <2>1, <2>4
<1>10. ASSUME codec' = codec, sound' = sound PROVE RegistersInv' /\ sound' \in Sound
  BY <1>1, <1>10 DEF RegistersInv
<1>11. CASE TeardownBegins(c)
  <2>1. FollowInv' /\ call' \in [Caller -> Thread] /\ jack' \in Jack
    BY <1>11, TeardownBeginsKeeps
  <2>2. /\ codec' = codec /\ sound' = sound /\ Reaches(c, "headphone drains")
        /\ call[c].at = "teardown" /\ "headphone drains" \in Stage /\ "headphone" \in Line
        /\ jack' = [Unwatch("headphone") EXCEPT !.lock = c]
    BY <1>11 DEF TeardownBegins, JackFree, Stage, Line
  <2>3. /\ call'[c].at = "headphone drains"
        /\ \A d \in Caller \ {c} : call'[d] = call[d]
    BY <2>2, Moved
  <2>4. PICK j : j = Unwatch("headphone")
    OBVIOUS
  <2>5. j \in Jack /\ j.watched = jack.watched \ {"headphone"} /\ j.at = jack.at
    BY <2>2, <2>4, UnwatchTypes
  <2>6. StaysQuiet
    BY <2>2, <2>4, <2>5 DEF StaysQuiet, Jack
  <2>7. \A d \in Caller \ {c} : call'[d].at = call[d].at
    BY <2>3
  <2>8. QuietInv'
    BY <1>2, <2>2, <2>3, <2>6, <2>7, QuietMove DEF Letting
  <2> QED BY <1>4, <1>10, <2>1, <2>2, <2>8
<1>12. CASE HeadphoneReset(c)
  <2>1. FollowInv' /\ call' \in [Caller -> Thread] /\ jack' \in Jack
    BY <1>12, HeadphoneResetKeeps
  <2>2. /\ codec' = codec /\ sound' = sound /\ Reaches(c, "microphone drains")
        /\ call[c].at = "headphone drains" /\ "microphone drains" \in Stage
        /\ "microphone" \in Line /\ jack' = Unwatch("microphone")
    BY <1>12 DEF HeadphoneReset, Stage, Line
  <2>3. /\ call'[c].at = "microphone drains"
        /\ \A d \in Caller \ {c} : call'[d] = call[d]
    BY <2>2, Moved
  <2>4. PICK j : j = Unwatch("microphone")
    OBVIOUS
  <2>5. j \in Jack /\ j.watched = jack.watched \ {"microphone"} /\ j.at = jack.at
    BY <2>2, <2>4, UnwatchTypes
  <2>6. StaysQuiet
    BY <2>2, <2>4, <2>5 DEF StaysQuiet
  <2>7. \A d \in Caller \ {c} : call'[d].at = call[d].at
    BY <2>3
  <2>8. QuietInv'
    BY <1>2, <2>2, <2>3, <2>6, <2>7, QuietMove DEF Letting
  <2> QED BY <1>4, <1>10, <2>1, <2>2, <2>8
<1>13. CASE MicrophoneReset(c)
  <2>1. /\ FollowInv' /\ call' \in [Caller -> Thread] /\ jack' \in Jack
        /\ jack'.watched = {} /\ jack'.at = "wait"
    BY <1>13, MicrophoneResetKeeps
  <2>2. codec' = codec /\ sound' = sound /\ call[c].at = "microphone drains"
    BY <1>13 DEF MicrophoneReset
  <2>3. PICK at : at = IF c = "codec" /\ ~card.present THEN "unbind" ELSE "done"
    OBVIOUS
  <2>4. at \in Stage /\ Reaches(c, at)
    BY <1>13, <2>3 DEF MicrophoneReset, Stage
  <2>5. /\ call'[c].at = at
        /\ \A d \in Caller \ {c} : call'[d] = call[d]
    BY <2>4, Moved
  <2>6. \A d \in Caller \ {c} : call'[d].at = call[d].at
    BY <2>5
  <2>7. StaysQuiet
    BY <2>1 DEF StaysQuiet
  <2>8. QuietInv'
    <3>1. CASE at = "done"
      <4>1. c = "codec" => card.present = TRUE
        BY <1>1, <2>3, <3>1
      <4>2. at # "unbind" /\ call[c].at # "idle"
        BY <2>2, <3>1
      <4> QED BY <1>2, <2>5, <2>6, <2>7, <4>1, <4>2, QuietMove
    <3>2. CASE at = "unbind"
      <4>1. c = "codec" /\ card.present = FALSE
        BY <1>1, <2>3, <3>2
      <4>2. card.i2c # FALSE /\ call["lpe"].at = "idle" /\ call["user"].at # "unbind"
        BY <2>2, <4>1 DEF QuietInv
      <4>3. call'["codec"].at = "unbind" /\ call'["lpe"].at = "idle" /\ call'["user"].at # "unbind"
        BY <2>5, <2>6, <3>2, <4>1, <4>2 DEF Caller
      <4> QED BY <1>2, <2>1, <4>1, <4>2, <4>3 DEF QuietInv
    <3> QED BY <2>3, <3>1, <3>2
  <2> QED BY <1>4, <1>10, <2>1, <2>2, <2>8
<1> QED BY <1>6, <1>7, <1>8, <1>9, <1>11, <1>12, <1>13

LEMMA CodecInductive ==
    ASSUME CodecInv, [CodecNext]_codecVars
    PROVE  CodecInv'
<1>1. CASE CodecNext
  <2>1. CASE LpeAppears \/ LpeInitialized \/ LpeDisappears \/ AttachCodec \/ DetachCodec
             \/ CodecUnbound \/ OpenCodec
    BY <2>1, HooksKeep
  <2>2. CASE \E c \in {"lpe", "codec"} : InitializeCodec(c)
    BY <2>2, InitializationKeeps
  <2>3. CASE \E c \in Caller :
          \/ JackSkipped(c) \/ HeadphoneWatched(c) \/ MicrophoneWatched(c) \/ JackApplied(c)
          \/ TeardownBegins(c) \/ HeadphoneReset(c) \/ MicrophoneReset(c) \/ CodecStatusSet(c)
    BY <2>3, DetectionKeeps
  <2>4. CASE (\E l \in Line : JackMoves(l) \/ JackEvent(l)) \/ EventSnapshot \/ EventApplied
    BY <2>4, LinesKeep
  <2>5. CASE \E x \in Mixer : SetMix(x) \/ SetCodecVolume(x) \/ SetHeadphoneVolume(x)
    BY <2>5, MixerKeeps
  <2> QED BY <1>1, <2>1, <2>2, <2>3, <2>4, <2>5 DEF CodecNext
<1>2. CASE UNCHANGED codecVars
  <2>1. /\ codec' = codec /\ sound' = sound /\ jack' = jack /\ card' = card
        /\ call' = call /\ mix' = mix
    BY <1>2 DEF codecVars
  <2>2. FollowInv'
    BY <2>1, Still DEF CodecInv
  <2>3. CodecTypes' /\ RegistersInv' /\ QuietInv'
    BY <2>1 DEF CodecInv, CodecTypes, RegistersInv, QuietInv
  <2> QED BY <2>2, <2>3 DEF CodecInv
<1> QED BY <1>1, <1>2

\* The registers, the mixer and the jack agree
THEOREM RegistersMixerAndJackAgree == CodecSpec => []CodecAgrees
<1>1. CodecInit => CodecInv
  BY CodecInitHolds
<1>2. CodecInv /\ [CodecNext]_codecVars => CodecInv'
  BY CodecInductive
<1>3. CodecInv => CodecAgrees
  BY InvAgrees
<1> QED BY <1>1, <1>2, <1>3, PTL DEF CodecSpec
=============================================================================

----------------------------- MODULE VoiceInput -----------------------------
(* Everything a caller can send, from the WebSocket to the turn: the lease  *)
(* of the one browser session (web/app.py), its receive loop and control    *)
(* worker, the session's bounded input queue and input loop                 *)
(* (runtime/session.py), the realtime transcriber                           *)
(* (runtime/elevenlabs_stt_provider.py) and the admission of its finals.    *)
(* The response a turn starts is VoiceSession's; here handling a turn only  *)
(* takes time and may raise.                                                *)
EXTENDS SpeechAdmission

CONSTANTS
    Conn,        \* WebSocket connections that are tried
    QueueSize,   \* input_queue_size
    Levels,      \* levels a frame may have
    Texts,       \* texts that each final may have
    Typed,       \* ids of a client's own for typed transcripts, sent more than once
    MaxFrames, MaxGaps, MaxPartials, MaxFinals, MaxControls  \* bounds

NoConn == "nobody"

ASSUME ConnAssumption == NoConn \notin Conn

\* The check of __init__.
ASSUME InputQueueHasRoom == QueueSize \in Nat \ {0}

\* The end marker, where a frame has a positive number.
Stop == 0

VARIABLES
    link,      \* connection -> how far websocket_session is
    lease,     \* BrowserSessionLease._active_conversation_id
    \* of the session that has the lease:
    bound,     \* PcmAudioRouteState.active, and the transcriber's binding
    refused,   \* stt_input_failed
    now,       \* the clock, in frames
    heard,     \* frames the gate has observed
    seqno,     \* sequence, the number of frames that went into the queue
    gate,      \* FinalTranscriptAdmissionGate
    inq,       \* _input_queue
    down,      \* _stt_failure_type is set
    closed,    \* _closed
    loop,      \* _input_loop: pc, the frame it has, the updates it delivers
    scribe,    \* ElevenLabsRealtimeSTTProvider
    voice,     \* the assistant's own speech: silent, audible or just over
    seen,      \* _seen_final_transcript_ids
    turns,     \* history: finals handed to _handle_transcript
    controls,  \* the queue of the control worker
    ctl,       \* the control worker
    sent       \* history: control messages sent

webVars == <<link, lease, bound, refused, controls, ctl, sent>>
loopVars == <<inq, down, loop, seen, turns>>
inputVars == <<webVars, loopVars, now, heard, seqno, gate, closed, scribe, voice>>

IdleLoop == [pc |-> "get", frame |-> 0, ups |-> <<>>]
EndedLoop == [IdleLoop EXCEPT !.pc = "ended"]
NewScribe == [up |-> "none", failed |-> FALSE, last |-> 0, partial |-> <<>>,
              committed |-> <<>>, partials |-> 0, finals |-> 0]

FreshSession ==
    /\ bound' = FALSE /\ refused' = FALSE /\ now' = 0 /\ heard' = 0 /\ seqno' = 0
    /\ gate' = EmptyGate /\ inq' = <<>> /\ down' = FALSE /\ closed' = FALSE
    /\ scribe' = NewScribe /\ voice' = "silent" /\ seen' = {}
    /\ turns' = <<>> /\ controls' = <<>> /\ ctl' = "idle" /\ sent' = 0

InputInit ==
    /\ link = [c \in Conn |-> "new"] /\ lease = NoConn
    /\ bound = FALSE /\ refused = FALSE /\ now = 0 /\ heard = 0 /\ seqno = 0
    /\ gate = EmptyGate /\ inq = <<>> /\ down = FALSE /\ closed = FALSE
    /\ loop = EndedLoop /\ scribe = NewScribe /\ voice = "silent"
    /\ seen = {} /\ turns = <<>> /\ controls = <<>> /\ ctl = "idle" /\ sent = 0

-----------------------------------------------------------------------------
(* websocket_session *)

\* BrowserSessionLease.acquire
Connect(c) ==
    /\ link[c] = "new"
    /\ \/ /\ lease = NoConn
          /\ lease' = c
          /\ link' = [link EXCEPT ![c] = "setup"]
       \/ /\ lease # NoConn
          /\ link' = [link EXCEPT ![c] = "refused"]
          /\ UNCHANGED lease
    /\ UNCHANGED <<bound, refused, now, heard, seqno, gate, inq, down, closed, loop,
                   scribe, voice, seen, turns, controls, ctl, sent>>

\* The factories and session.start() run outside the try that releases the lease.
SetUp(c) ==
    /\ link[c] = "setup"
    /\ \/ link' = [link EXCEPT ![c] = "open"] /\ FreshSession /\ loop' = IdleLoop
       \/ /\ link' = [link EXCEPT ![c] = "lost"]
          /\ UNCHANGED <<bound, refused, now, heard, seqno, gate, inq, down, closed, loop,
                         scribe, voice, seen, turns, controls, ctl, sent>>
    /\ UNCHANGED lease

Serves(c) == link[c] = "open"

\* _activate_pcm_stream_message: the first binding is the only one there is.
BindSource(c) ==
    /\ Serves(c) /\ ~bound
    /\ bound' = TRUE
    /\ UNCHANGED <<link, lease, refused, controls, ctl, sent, loopVars, now, heard, seqno,
                   gate, closed, scribe, voice>>

\* mutant: a full queue drops the frame, and the connection goes on
ReceiveDropping(c, level) ==
    /\ Serves(c) /\ bound /\ ~refused /\ heard < MaxFrames
    /\ \/ /\ (down \/ loop.pc = "ended")
          /\ refused' = TRUE
          /\ UNCHANGED <<link, gate, heard, now, inq, seqno>>
       \/ /\ ~down /\ loop.pc # "ended"
          /\ gate' = Observe(gate, seqno + 1, now, level)
          /\ heard' = heard + 1 /\ now' = now + 1
          /\ IF Len(inq) < QueueSize
             THEN inq' = Append(inq, seqno + 1) /\ seqno' = seqno + 1
             ELSE UNCHANGED <<inq, seqno>>
          /\ UNCHANGED <<link, refused>>
    /\ UNCHANGED <<lease, bound, controls, ctl, sent, down, closed, loop, scribe, voice, seen, turns>>

\* receive_audio, and what the receive loop makes of its exceptions: a pipeline
\* that is down refuses all further frames; a full queue ends the connection,
\* after the gate has heard the frame.
Receive(c, level) ==
    /\ Serves(c) /\ bound /\ ~refused /\ heard < MaxFrames
    /\ \/ /\ (down \/ loop.pc = "ended")
          /\ refused' = TRUE
          /\ UNCHANGED <<link, gate, heard, now, inq, seqno>>
       \/ /\ ~down /\ loop.pc # "ended"
          /\ gate' = Observe(gate, seqno + 1, now, level)
          /\ heard' = heard + 1 /\ now' = now + 1
          /\ IF Len(inq) < QueueSize
             THEN inq' = Append(inq, seqno + 1) /\ seqno' = seqno + 1 /\ UNCHANGED link
             ELSE link' = [link EXCEPT ![c] = "ending"] /\ UNCHANGED <<inq, seqno>>
          /\ UNCHANGED refused
    /\ UNCHANGED <<lease, bound, controls, ctl, sent, down, closed, loop, scribe, voice, seen, turns>>

\* The microphone sends nothing for a while.
Gap(c) ==
    /\ Serves(c) /\ bound /\ now < heard + MaxGaps * Release
    /\ now' = now + Release
    /\ UNCHANGED <<webVars, loopVars, heard, seqno, gate, closed, scribe, voice>>

\* The provenance that a client may claim for a transcript.
Origin == {"typed", "browser", "stt"}

\* The client chooses the transcript_id of what it sends: one of its own, or one
\* that the transcriber has given or will give to a final.
ClientId == {<<"typed", id>> : id \in Typed} \cup {<<"stt", n>> : n \in 1 .. MaxFinals}

ControlMessage ==
    {[type |-> "interrupt"]} \cup
    {[type |-> "transcript", id |-> id, origin |-> o] : id \in ClientId, o \in Origin}

\* Any other message goes to the control worker.
SendControl(c) ==
    /\ Serves(c) /\ sent < MaxControls
    /\ sent' = sent + 1
    /\ \E m \in ControlMessage : controls' = Append(controls, m)
    /\ UNCHANGED <<link, lease, bound, refused, ctl, loopVars, now, heard, seqno, gate, closed,
                   scribe, voice>>

Disconnect(c) ==
    /\ Serves(c)
    /\ link' = [link EXCEPT ![c] = "ending"]
    /\ UNCHANGED <<lease, bound, refused, controls, ctl, sent, loopVars, now, heard, seqno, gate,
                   closed, scribe, voice>>

\* mutant: a close() that raises keeps the lease
EndQuietly(c) ==
    /\ link[c] = "ending"
    /\ \/ /\ ctl' = "dead" /\ controls' = <<>> /\ voice' = "silent" /\ closed' = TRUE
          /\ link' = [link EXCEPT ![c] = "closing"]
          /\ UNCHANGED <<lease, bound, refused, sent, loopVars, now, heard, seqno, gate, scribe>>
       \/ /\ link' = [link EXCEPT ![c] = "closed"]
          /\ FreshSession /\ loop' = EndedLoop
          /\ UNCHANGED lease

\* The lease is released, and nothing refers to the session any more.
GoesBack(c) ==
    /\ link' = [link EXCEPT ![c] = "closed"] /\ lease' = NoConn
    /\ FreshSession /\ loop' = EndedLoop

\* finally: the workers are cancelled, then session.close() silences the
\* assistant and marks the session closed, or raises on its way there.
EndSession(c) ==
    /\ link[c] = "ending"
    /\ \/ /\ ctl' = "dead" /\ controls' = <<>> /\ voice' = "silent" /\ closed' = TRUE
          /\ link' = [link EXCEPT ![c] = "closing"]
          /\ UNCHANGED <<lease, bound, refused, sent, loopVars, now, heard, seqno, gate, scribe>>
       \/ GoesBack(c)

\* close() waits for room for the end marker, or drains what a dead loop left.
StopLoop(c) ==
    /\ link[c] = "closing"
    /\ \/ loop.pc = "ended" /\ inq' = <<>>
       \/ loop.pc # "ended" /\ Len(inq) < QueueSize /\ inq' = Append(inq, Stop)
    /\ link' = [link EXCEPT ![c] = "stopping"]
    /\ UNCHANGED <<lease, bound, refused, controls, ctl, sent, down, loop, seen, turns, now,
                   heard, seqno, gate, closed, scribe, voice>>

\* The input task is over; the transcriber is closed; the lease goes back.
ReleaseLease(c) ==
    /\ link[c] = "stopping" /\ loop.pc = "ended"
    /\ GoesBack(c)

-----------------------------------------------------------------------------
(* The input loop of the session. *)

LoopRests == <<webVars, now, heard, seqno, closed, voice>>

\* An exception of the loop: it drains the queue and ends.
LoopFails ==
    /\ down' = TRUE /\ inq' = <<>>
    /\ loop' = [loop EXCEPT !.pc = "ended", !.ups = <<>>, !.frame = 0]

Transmit(frame) == scribe' = [scribe EXCEPT !.last = frame]

TakeFrame ==
    /\ loop.pc = "get" /\ inq # <<>>
    /\ \/ /\ Head(inq) = Stop
          /\ loop' = [loop EXCEPT !.pc = "ended"] /\ inq' = Tail(inq)
          /\ UNCHANGED <<down, scribe>>
       \/ /\ Head(inq) # Stop /\ scribe.up = "none"
          /\ loop' = [loop EXCEPT !.pc = "connect", !.frame = Head(inq)] /\ inq' = Tail(inq)
          /\ UNCHANGED <<down, scribe>>
       \/ /\ Head(inq) # Stop /\ scribe.up # "none" /\ ~scribe.failed
          /\ loop' = [loop EXCEPT !.pc = "sent"] /\ inq' = Tail(inq)
          /\ Transmit(Head(inq))
          /\ UNCHANGED down
       \/ Head(inq) # Stop /\ scribe.failed /\ LoopFails /\ UNCHANGED scribe
    /\ UNCHANGED <<seen, turns, gate, LoopRests>>

\* _ensure_connected: the connection, then its session_started.
ConnectScribe ==
    /\ loop.pc = "connect"
    /\ \/ /\ scribe' = [scribe EXCEPT !.up = "waiting"]
          /\ loop' = [loop EXCEPT !.pc = "wait"]
          /\ UNCHANGED <<inq, down>>
       \/ LoopFails /\ UNCHANGED scribe
    /\ UNCHANGED <<seen, turns, gate, LoopRests>>

AwaitReady ==
    /\ loop.pc = "wait"
    /\ \/ /\ scribe.up = "ready" /\ ~scribe.failed
          /\ Transmit(loop.frame)
          /\ loop' = [loop EXCEPT !.pc = "sent", !.frame = 0]
          /\ UNCHANGED <<inq, down>>
       \/ LoopFails /\ UNCHANGED scribe
    /\ UNCHANGED <<seen, turns, gate, LoopRests>>

\* After the send and sleep(0): a failure raises, else _drain_updates.
DrainUpdates ==
    /\ loop.pc = "sent"
    /\ \/ /\ scribe.up = "ready" /\ ~scribe.failed
          /\ loop' = [loop EXCEPT !.pc = "deliver", !.ups = scribe.partial \o scribe.committed]
          /\ scribe' = [scribe EXCEPT !.partial = <<>>, !.committed = <<>>]
          /\ UNCHANGED <<inq, down>>
       \/ (scribe.failed \/ scribe.up = "gone") /\ LoopFails /\ UNCHANGED scribe
    /\ UNCHANGED <<seen, turns, gate, LoopRests>>

Delivered ==
    /\ loop.pc = "deliver" /\ loop.ups = <<>>
    /\ loop' = [loop EXCEPT !.pc = "get"]
    /\ UNCHANGED <<inq, down, seen, turns, gate, scribe, LoopRests>>

Playing == voice = "audible"

\* SelfSpeechGuard.assess: only what the assistant says or has just said is like
\* it, and only four tokens or more are ever suppressed.
Verdicts(u) ==
    IF voice = "silent" THEN {"clear"}
    ELSE IF u.text = "short" THEN {"clear", "candidate"} ELSE Verdict

\* A refused final is entered too: it is not looked at again.
Reject(u) ==
    /\ seen' = IF u.final THEN seen \cup {u.id} ELSE seen
    /\ UNCHANGED turns

Turn(u, how, gen) ==
    [id |-> u.id, how |-> how, gen |-> gen]

\* mutant: typed text is not entered
TakeAccepted(u, how, gen) ==
    /\ turns' = IF u.final THEN Append(turns, Turn(u, how, gen)) ELSE turns
    /\ seen' = IF u.final /\ how # "typed" THEN seen \cup {u.id} ELSE seen

\* What goes on to _handle_transcript is entered before it is handled.
Take(u, how, gen) ==
    /\ turns' = IF u.final THEN Append(turns, Turn(u, how, gen)) ELSE turns
    /\ seen' = IF u.final THEN seen \cup {u.id} ELSE seen

Loop(pc) == loop' = [loop EXCEPT !.pc = pc]
NextUpdate  == loop' = [loop EXCEPT !.pc = "deliver", !.ups = Tail(@)]

\* The gate's verdict on a final: a borderline one is judged once more after a
\* sleep, on what had been read before it.
Decide(u, playing, verdict, again) ==
    LET outcome == Outcome(gate, u, playing, verdict) IN
    /\ gate' = Assess(gate, u, playing, verdict)
    /\ \/ /\ outcome \in Admitted
          /\ Take(u, outcome, Associated(gate, u).gen)
          /\ Loop("handling")
       \/ /\ outcome = "insufficient" /\ again /\ ~playing /\ verdict = "clear"
          /\ Loop("sleep")
          /\ UNCHANGED <<seen, turns>>
       \/ /\ outcome \notin Admitted
          /\ ~(outcome = "insufficient" /\ again /\ ~playing /\ verdict = "clear")
          /\ Reject(u)
          /\ NextUpdate

\* accept_user_transcript, for an update of the transcriber: a final whose id was
\* entered is refused before the gate sees it; a closed session raises.
AcceptUpdate ==
    LET u == Head(loop.ups) IN
    /\ loop.pc = "deliver" /\ loop.ups # <<>>
    /\ \/ closed /\ LoopFails /\ UNCHANGED <<seen, turns, gate>>
       \/ /\ ~closed /\ u.final /\ u.id \in seen
          /\ NextUpdate /\ UNCHANGED <<inq, down, seen, turns, gate>>
       \/ /\ ~closed /\ u.final /\ u.id \notin seen
          /\ \E verdict \in Verdicts(u) : Decide(u, Playing, verdict, TRUE)
          /\ UNCHANGED <<inq, down>>
       \/ /\ ~closed /\ ~u.final
          /\ \E verdict \in Verdicts(u) :
                IF verdict = "suppress" THEN Reject(u) /\ NextUpdate
                ELSE Take(u, "partial", 0) /\ Loop("handling")
          /\ UNCHANGED <<inq, down, gate>>
    /\ UNCHANGED <<scribe, LoopRests>>

\* The sleep is over; nobody looks whether the assistant began to speak in it, or
\* whether the id was entered in it.
Reassess ==
    /\ loop.pc = "sleep"
    /\ Decide(Head(loop.ups), FALSE, "clear", FALSE)
    /\ UNCHANGED <<inq, down, scribe, LoopRests>>

\* _handle_transcript returns, or raises.
Handled ==
    /\ loop.pc = "handling"
    /\ \/ NextUpdate /\ UNCHANGED <<inq, down>>
       \/ LoopFails
    /\ UNCHANGED <<seen, turns, gate, scribe, LoopRests>>

InputLoop ==
    \/ TakeFrame \/ ConnectScribe \/ AwaitReady \/ DrainUpdates \/ Delivered
    \/ AcceptUpdate \/ Reassess \/ Handled

-----------------------------------------------------------------------------
(* The transcriber's receive task: messages of the provider, at any time.   *)

ScribeRests == <<webVars, loopVars, now, heard, seqno, gate, closed, voice>>

Receiving == scribe.up \in {"waiting", "ready"} /\ ~scribe.failed

SessionStarted ==
    /\ Receiving /\ scribe.up = "waiting"
    /\ scribe' = [scribe EXCEPT !.up = "ready"]
    /\ UNCHANGED ScribeRests

\* _build_update: an update carries the last frame sent, and the time.
Update(n, final, text) ==
    [id |-> <<"stt", n>>, final |-> final, text |-> text, seq |-> scribe.last, at |-> now]

\* A newer partial replaces the one not yet drained.
PartialArrives ==
    /\ Receiving /\ scribe.up = "ready" /\ scribe.partials < MaxPartials
    /\ \E text \in Text :
          scribe' = [scribe EXCEPT !.partials = @ + 1,
                                   !.partial = <<Update(scribe.partials + 1, FALSE, text)>>]
    /\ UNCHANGED ScribeRests

FinalArrives ==
    /\ Receiving /\ scribe.up = "ready" /\ scribe.finals < MaxFinals
    /\ \E text \in Texts[scribe.finals + 1] :
          scribe' = [scribe EXCEPT !.finals = @ + 1, !.partial = <<>>,
                                   !.committed = Append(@, Update(scribe.finals + 1, TRUE, text))]
    /\ UNCHANGED ScribeRests

\* An error event, or the connection ends.
ScribeFails ==
    /\ Receiving
    /\ \/ scribe' = [scribe EXCEPT !.failed = TRUE]
       \/ scribe' = [scribe EXCEPT !.failed = scribe.up = "waiting", !.up = "gone"]
    /\ UNCHANGED ScribeRests

-----------------------------------------------------------------------------
(* The control worker, and the assistant's own voice. *)

\* _handle_json: a client cannot speak for the transcriber, and the browser's
\* own recognition is off; what remains is typed text, once.
Rejected(m) == m.origin # "typed" \/ m.id \in seen

TakeControl ==
    LET m == Head(controls) IN
    /\ ctl = "idle" /\ controls # <<>>
    /\ controls' = Tail(controls)
    /\ \/ /\ m.type = "interrupt"
          /\ ctl' = "busy"
          /\ UNCHANGED <<seen, turns>>
       \/ /\ m.type = "transcript" /\ ~Rejected(m)
          /\ Take([id |-> m.id, final |-> TRUE, at |-> now], "typed", 0)
          /\ ctl' = "busy"
       \/ /\ m.type = "transcript" /\ Rejected(m)
          /\ UNCHANGED <<ctl, seen, turns>>
    /\ UNCHANGED <<link, lease, bound, refused, sent, inq, down, loop, now, heard, seqno, gate,
                   closed, scribe, voice>>

\* Only a few exceptions are caught: another one ends the worker, and what the
\* client sends from then on is never read.
ControlDone ==
    /\ ctl = "busy"
    /\ ctl' \in {"idle", "dead"}
    /\ UNCHANGED <<link, lease, bound, refused, sent, controls, loopVars, now, heard, seqno, gate,
                   closed, scribe, voice>>

AssistantSpeaks ==
    /\ \/ voice = "silent" /\ ~closed /\ turns # <<>> /\ voice' = "audible"
       \/ voice = "audible" /\ voice' = "recent"
       \/ voice = "recent" /\ voice' \in {"audible", "silent"}
    /\ UNCHANGED <<webVars, loopVars, now, heard, seqno, gate, closed, scribe>>

InputNext ==
    \/ \E c \in Conn :
          \/ Connect(c) \/ SetUp(c) \/ BindSource(c) \/ Gap(c) \/ SendControl(c)
          \/ \E level \in Levels : Receive(c, level)
          \/ Disconnect(c) \/ EndSession(c) \/ StopLoop(c) \/ ReleaseLease(c)
    \/ InputLoop
    \/ SessionStarted \/ PartialArrives \/ FinalArrives \/ ScribeFails
    \/ TakeControl \/ ControlDone \/ AssistantSpeaks

InputSpec == InputInit /\ [][InputNext]_inputVars

-----------------------------------------------------------------------------
InputTypeOK ==
    /\ link \in [Conn -> {"new", "setup", "open", "ending", "closing", "stopping", "closed",
                          "lost", "refused"}]
    /\ lease \in Conn \cup {NoConn}
    /\ loop.pc \in {"get", "connect", "wait", "sent", "deliver", "sleep", "handling", "ended"}
    /\ Len(inq) <= QueueSize /\ Len(gate.episodes) <= MaxEpisodes
    /\ gate.active # NoEpisode => gate.active.gen = gate.gen /\ gate.active.claim = NoClaim
    /\ scribe.last <= seqno /\ seqno <= heard

\* The gate judges a final on the very audio the transcriber was sent: while
\* the connection and the pipeline are up, every frame the gate has heard was
\* transmitted or waits for it, in order (receive_audio, the receive loop's
\* handling of a full queue, _input_loop).
FramesReachTranscriber ==
    (\E c \in Conn : Serves(c)) /\ loop.pc # "ended" =>
        LET waiting == (IF loop.frame = 0 THEN <<>> ELSE <<loop.frame>>) \o inq
        IN  /\ scribe.last + Len(waiting) = heard
            /\ \A i \in DOMAIN waiting : waiting[i] = scribe.last + i

Spoken(i) == turns[i].how \in Admitted

\* Two finals never become turns on the strength of the same speech, whatever
\* sleeps, gaps and other finals lie between their arrival and their claim
\* (assess_final, _associate_episode, the second assessment after the sleep).
FinalsClaimApart ==
    \A i \in DOMAIN turns : Spoken(i) =>
        /\ \A j \in DOMAIN turns : Spoken(j) /\ turns[i].gen = turns[j].gen => i = j
        /\ \A k \in DOMAIN gate.episodes :
              gate.episodes[k].gen = turns[i].gen => gate.episodes[k].claim = turns[i].id

\* The turns that a final's id has already become.
Handed(id) == {i \in DOMAIN turns : turns[i].id = id}

\* Who hands a final over twice: the transcriber's own, after a sleep in which the
\* same id came in as typed text, once.
TakenWhileAsleep(t) ==
    /\ loop.pc = "sleep" /\ t.how \in Admitted
    /\ \E i \in DOMAIN turns : Handed(t.id) = {i} /\ turns[i].how = "typed"

\* A final that becomes a turn was neither handled nor refused before, from
\* whichever of the two sources, under whatever id the client chose, but for one
\* case: the session looks for the id before the reconciliation sleep and enters
\* it after it (accept_user_transcript, _handle_json).
FinalsHandledOnce ==
    [][Len(turns') > Len(turns) =>
          LET t == turns'[Len(turns')]
          IN  \/ t.id \notin seen /\ Handed(t.id) = {}
              \/ TakenWhileAsleep(t)]_inputVars

\* Whatever ends a connection, the next browser gets the session: the lease
\* belongs to the one connection that is set up, served or shut down, and to
\* nobody else; only a connection whose setup raised keeps it for good
\* (BrowserSessionLease, websocket_session).
LeaseIsReturned ==
    \A c \in Conn :
        lease = c <=> link[c] \in {"setup", "open", "ending", "closing", "stopping", "lost"}
=============================================================================

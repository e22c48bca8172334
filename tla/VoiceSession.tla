---------------------------- MODULE VoiceSession ----------------------------
(***************************************************************************)
(* One RealtimeVoiceSession (runtime/session.py) on its event loop: the    *)
(* task that produces a response, the playback task of every audio chunk,  *)
(* the tasks that bring transcripts and interruptions to the session, and  *)
(* the hang-up.  A step of the specification is what a task does between   *)
(* two awaits, so every interleaving of the model is one the loop can run. *)
(*                                                                         *)
(* Response ids are numbered in the order of their creation, 0 standing    *)
(* for None.  Of the ledger and of the playback tasks only those of the    *)
(* latest response are kept: no code touches those of an earlier one.  The *)
(* text, the samples and the clock are abstracted.                         *)
(***************************************************************************)
EXTENDS ConversationGraph, Naturals, FiniteSets

CONSTANTS
    Handlers,       \* the tasks that take transcripts to the session
    MaxTurns,       \* bound: responses of one session
    MaxChunks,      \* bound: audio chunks of one response
    Lookahead       \* maximum_pending of _wait_for_playback_capacity

ASSUME HandlersAssumption == "input" \in Handlers /\ Handlers \subseteq {"input", "control"}
ASSUME BoundsAssumption   == /\ MaxTurns \in Nat
                             /\ MaxChunks \in Nat
                             /\ Lookahead \in Nat \ {0}

\* "input" is the STT input loop, "control" the browser's control worker,
\* "acoustic" the task that interrupts on sustained speech, "closer" close().
Actors == {"input", "control", "acoustic", "closer"}
Chunks == 1 .. MaxChunks

VARIABLES
    fsm,            \* state_machine.state
    epoch,          \* state_machine.operation_epoch
    resp,           \* _response_id
    token,          \* epoch of the operation token of that response
    cancel,         \* _cancel_event of that response
    invalid,        \* it is in _cancelled_response_ids and invalid in the output
    owner,          \* _playback_owner_response_id
    rpc,            \* where the task of _run_response waits
    attempt,        \* _tts_attempt of the current segment
    segAudio,       \* segment_audio_emitted
    play,           \* per chunk: its playback task
    ledger,         \* per chunk: its PlayedAudioLedger state
    episode,        \* a soft-yield episode exists (_soft_yield)
    hpc,            \* per actor: where it waits
    hwait,          \* per actor: the response it waits for
    hnext,          \* per actor: TRUE when a user turn follows the wait
    lost,           \* history: the turn dropped by the latest handler step
    killed,         \* the response whose task was cancelled at the hang-up
    mute,           \* ... before it could set _audio_stopped
    closed          \* _closed

sessionVars == <<fsm, epoch, resp, token, cancel, invalid, owner>>
taskVars    == <<rpc, attempt, segAudio>>
audioVars   == <<play, ledger>>
actorVars   == <<hpc, hwait, hnext>>
endVars     == <<killed, mute, closed>>
vars == <<sessionVars, taskVars, audioVars, episode, actorVars, lost, endVars>>

TaskPoint   == {"none", "start", "tool", "reason", "tts", "capacity", "drain", "finally", "done"}
PlayState   == {"none", "created", "starting", "sounding", "ended", "failed"}
LedgerState == {"none", "QUEUED", "PLAYING", "PLAYED", "CANCELLED", "PLAYBACK_UNCONFIRMED"}
ActorPoint  == {"idle", "awaitControl", "awaitStop", "awaitEnd", "awaitAcoustic", "awaitInput",
                "gone"}
NotLost     == <<"none", FALSE>>

Active       == rpc \notin {"none", "done"}           \* response_active
Stale        == cancel \/ token # epoch               \* the check after an await
Ended(r)     == r # resp \/ ~Active                   \* r's task is done
Pending(c)   == play[c] \in {"created", "starting", "sounding"}
PendingCount == Cardinality({c \in Chunks : Pending(c)})
QueueLeaks   == PendingCount > Lookahead              \* mutant: off by one
QueueFull    == PendingCount >= Lookahead
AllSettled   == \A c \in Chunks : ~Pending(c)
FirstAudio   == \A c \in Chunks : play[c] = "none"    \* first_audio, playback_tasks empty
Failed       == \E c \in Chunks : play[c] = "failed"  \* a playback task raised

-----------------------------------------------------------------------------
(* PlayedAudioLedger: what each method does to the entries of the response. *)

\* mutant: a later cancel rewrites what was heard
CancelWhole(L) == [c \in Chunks |-> IF L[c] # "none" THEN "CANCELLED" ELSE L[c]]

CancelUnplayed(L) == [c \in Chunks |-> IF L[c] = "QUEUED" THEN "CANCELLED" ELSE L[c]]

LeavePlaying(L) == L    \* mutant: unconfirmed audio keeps its state

MarkUnconfirmed(L) ==
    [c \in Chunks |-> IF L[c] = "PLAYING" THEN "PLAYBACK_UNCONFIRMED" ELSE L[c]]

MarkStarted(L, c) == [L EXCEPT ![c] = IF @ = "QUEUED" THEN "PLAYING" ELSE @]

\* A receipt is taken for a playing entry, or ignored when nothing of an
\* already cancelled entry was heard; anything else raises.
ReceiptFits(L, c, heard) ==
    \/ L[c] = "PLAYING"
    \/ L[c] = "CANCELLED" /\ heard = "nothing"

RecordPlayback(L, c, heard) ==
    [L EXCEPT ![c] = IF @ # "PLAYING" THEN @
                     ELSE IF heard = "all" THEN "PLAYED" ELSE "CANCELLED"]

-----------------------------------------------------------------------------
(* The end of the response task. *)

\* invalidate_operations: every token issued so far is stale.
InvalidateNothing    == UNCHANGED epoch     \* mutant
InvalidateOperations == epoch' = epoch + 1

\* _release_playback_owner
KeepOwner     == owner                      \* mutant
ReleasedOwner == IF owner = resp THEN 0 ELSE owner

\* The states `finally` leads back to LISTENING.
WindingOnCancel(wasCancelled) ==            \* mutant: no recovery without a cancel
    IF wasCancelled THEN {"INTERRUPTED", "THINKING"} ELSE {}
WindingThinking(wasCancelled) == {"THINKING"}   \* mutant: no way out of INTERRUPTED
Winding(wasCancelled) ==
    IF wasCancelled THEN {"INTERRUPTED", "THINKING"} ELSE {"THINKING"}

\* `finally` of _run_response once no playback task is pending.
Finish(state, wasCancelled, L) ==
    /\ rpc'    = "done"
    /\ fsm'    = IF state \in Winding(wasCancelled) THEN "LISTENING" ELSE state
    /\ owner'  = ReleasedOwner
    /\ ledger' = IF wasCancelled \/ state = "THINKING" THEN CancelUnplayed(L) ELSE L

\* The task leaves its body; `finally` first gathers the playback tasks, if any.
Leave(state, wasCancelled, L) ==
    IF FirstAudio
    THEN Finish(state, wasCancelled, L)
    ELSE /\ rpc'    = "finally"
         /\ fsm'    = state
         /\ ledger' = L
         /\ UNCHANGED owner

\* `except Exception` of _run_response: cancel, invalidate, settle the ledger,
\* hand off when some audio has no stop receipt, else listen again.
Fail ==
    LET unconfirmed == \E c \in Chunks : ledger[c] = "PLAYING"
        recovered   == IF fsm \notin {"THINKING", "SPEAKING"} THEN fsm
                       ELSE IF unconfirmed THEN "HANDOFF" ELSE "LISTENING"
    IN  /\ cancel' = TRUE
        /\ InvalidateOperations
        /\ Leave(recovered, TRUE, CancelUnplayed(MarkUnconfirmed(ledger)))
        /\ UNCHANGED <<resp, token, invalid, attempt, segAudio, play>>

\* mutant: the state is left as it is
CompleteInPlace ==
    /\ Leave(fsm, cancel, ledger)
    /\ UNCHANGED <<epoch, resp, token, cancel, invalid, attempt, segAudio, play>>

\* Everything was produced and played, or the loops were left early.
Complete ==
    /\ Leave(IF ~cancel /\ fsm = "SPEAKING" THEN "LISTENING" ELSE fsm, cancel, ledger)
    /\ UNCHANGED <<epoch, resp, token, cancel, invalid, attempt, segAudio, play>>

\* The loops are over: gather the playback tasks, if any.
Drain ==
    IF FirstAudio
    THEN Complete
    ELSE rpc' = "drain" /\ UNCHANGED <<sessionVars, attempt, segAudio, audioVars>>

\* The task goes on to wait at another point of its loops.
GoOn(point) == rpc' = point /\ UNCHANGED <<sessionVars, attempt, segAudio, audioVars>>

\* mutant: the attempts of all segments are counted together
OpenStreamCounting(n) ==
    /\ rpc' = "tts"
    /\ attempt' = attempt + 1
    /\ segAudio' = FALSE
    /\ UNCHANGED <<sessionVars, audioVars>>

\* A TTS stream is opened for the n-th attempt at a segment.
OpenStream(n) ==
    /\ rpc' = "tts"
    /\ attempt' = n
    /\ segAudio' = FALSE
    /\ UNCHANGED <<sessionVars, audioVars>>

-----------------------------------------------------------------------------
(* _run_response: one action per way its next wait ends. *)

RestVars == <<episode, actorVars, lost, endVars>>

\* The coordinator plans no tool call.
PlanNoTool ==
    /\ rpc = "start"
    /\ IF Stale
       THEN Leave(fsm, cancel, ledger)
            /\ UNCHANGED <<epoch, resp, token, cancel, invalid, attempt, segAudio, play>>
       ELSE GoOn("reason")
    /\ UNCHANGED RestVars

\* ToolExecutor.execute only starts while THINKING, and raises otherwise.
CallTool ==
    /\ rpc = "start"
    /\ IF fsm = "THINKING"
       THEN /\ rpc' = "tool"
            /\ fsm' = "TOOL_WAIT"
            /\ UNCHANGED <<epoch, resp, token, cancel, invalid, owner, attempt, segAudio, audioVars>>
       ELSE Fail
    /\ UNCHANGED RestVars

\* A tool result of the current epoch leads back to THINKING.
ToolReturns ==
    /\ rpc = "tool"
    /\ token = epoch
    /\ IF fsm = "TOOL_WAIT"
       THEN /\ rpc' = "reason"
            /\ fsm' = "THINKING"
            /\ UNCHANGED <<epoch, resp, token, cancel, invalid, owner, attempt, segAudio, audioVars>>
       ELSE Fail
    /\ UNCHANGED RestVars

\* The call failed or ran out of time, or its result is stale: the operations
\* are invalidated, the fallback is taken by way of RECOVERING and THINKING, and
\* the token of the response, stale itself by now, ends the response.
ToolFails ==
    /\ rpc = "tool"
    /\ IF fsm = "TOOL_WAIT"
       THEN /\ InvalidateOperations
            /\ Leave("THINKING", cancel, ledger)
            /\ UNCHANGED <<resp, token, cancel, invalid, attempt, segAudio, play>>
       ELSE Fail
    /\ UNCHANGED RestVars

\* The reasoner yields a text and its first segment goes to the synthesizer.
ReasonerYields ==
    /\ rpc = "reason"
    /\ IF Failed THEN Fail ELSE IF Stale THEN Drain ELSE OpenStream(0)
    /\ UNCHANGED RestVars

ReasonerEnds == rpc = "reason" /\ Drain /\ UNCHANGED RestVars

ReasonerFails == rpc = "reason" /\ Fail /\ UNCHANGED RestVars

\* mutant: only the owner is looked at
RefusedForOwner == owner \notin {0, resp}

\* _accept_audio_chunk: the response was cancelled, or another one owns playback.
Refused == invalid \/ owner \notin {0, resp}

\* A chunk that is accepted is registered, queued and scheduled.
TakeChunk(c) ==
    IF Refused
    THEN GoOn("tts")
    ELSE /\ owner' = resp
         /\ ledger' = [ledger EXCEPT ![c] = "QUEUED"]
         /\ play' = [play EXCEPT ![c] = "created"]
         /\ segAudio' = TRUE
         /\ fsm' = IF FirstAudio /\ fsm = "THINKING" THEN "SPEAKING" ELSE fsm
         /\ rpc' = "tts"
         /\ UNCHANGED <<epoch, resp, token, cancel, invalid, attempt>>

NextChunk(c) == play[c] = "none" /\ \A d \in 1 .. (c - 1) : play[d] # "none"

\* The synthesizer yields the response's next chunk.
SynthesizerYields(c) ==
    /\ rpc = "tts"
    /\ NextChunk(c)
    /\ IF Failed THEN Fail
       ELSE IF Stale THEN Drain
       ELSE IF QueueFull THEN GoOn("capacity")
       ELSE TakeChunk(c)
    /\ UNCHANGED RestVars

\* A playback task ended; the session has not looked at its state since.
CapacityFreed(c) ==
    /\ rpc = "capacity"
    /\ ~QueueFull
    /\ NextChunk(c)
    /\ IF Failed THEN Fail ELSE TakeChunk(c)
    /\ UNCHANGED RestVars

\* The stream ends.  After audio, or a cancel, the next segment, text or the
\* end of the response follows; without any the segment is tried once more.
StreamEnds ==
    /\ rpc = "tts"
    /\ \/ cancel /\ Drain
       \/ /\ ~cancel /\ segAudio
          /\ \/ GoOn("reason")
             \/ IF Failed THEN Fail ELSE OpenStream(0)
       \/ /\ ~cancel /\ ~segAudio
          /\ IF FirstAudio /\ attempt = 0 THEN OpenStream(1) ELSE Fail
    /\ UNCHANGED RestVars

\* The stream raises, or the first chunk is not there in time.
StreamFails ==
    /\ rpc = "tts"
    /\ IF FirstAudio /\ ~cancel /\ attempt = 0 THEN OpenStream(1) ELSE Fail
    /\ UNCHANGED RestVars

\* asyncio.gather: the first exception, or all receipts.
Gathered ==
    /\ rpc = "drain"
    /\ \/ Failed /\ Fail
       \/ AllSettled /\ ~Failed /\ Complete
    /\ UNCHANGED RestVars

\* `finally` after its own gather.
Finally ==
    /\ rpc = "finally"
    /\ AllSettled
    /\ Finish(fsm, cancel, ledger)
    /\ UNCHANGED <<epoch, resp, token, cancel, invalid, attempt, segAudio, play, RestVars>>

RunResponse ==
    \/ PlanNoTool \/ CallTool \/ ToolReturns \/ ToolFails
    \/ ReasonerYields \/ ReasonerEnds \/ ReasonerFails
    \/ \E c \in Chunks : SynthesizerYields(c) \/ CapacityFreed(c)
    \/ StreamEnds \/ StreamFails \/ Gathered \/ Finally

-----------------------------------------------------------------------------
(* The playback task of a chunk: _play_scheduled_chunk around the output's  *)
(* play().                                                                  *)

BesidesAudio == <<sessionVars, taskVars, RestVars>>

\* A receipt reaches the ledger, or the task raises.
TakeReceipt(c, L, heard) ==
    IF ReceiptFits(L, c, heard)
    THEN /\ play' = [play EXCEPT ![c] = "ended"]
         /\ ledger' = LET M == RecordPlayback(L, c, heard)
                      IN  IF heard = "all" THEN M ELSE CancelUnplayed(M)
    ELSE play' = [play EXCEPT ![c] = "failed"] /\ ledger' = L

\* An invalidated response gets its receipt at once; any other chunk goes out.
PlayBegins(c) ==
    /\ play[c] = "created"
    /\ IF invalid
       THEN TakeReceipt(c, MarkStarted(ledger, c), "nothing")
       ELSE play' = [play EXCEPT ![c] = "starting"] /\ UNCHANGED ledger
    /\ UNCHANGED BesidesAudio

\* The browser acknowledges the start, or the cancel event comes first.
PlayStarts(c) ==
    /\ play[c] = "starting"
    /\ play' = [play EXCEPT ![c] = "sounding"]
    /\ ledger' = MarkStarted(ledger, c)
    /\ UNCHANGED BesidesAudio

\* The browser reports how the sound ended; a lost transport reports silence.
PlayStops(c, heard) ==
    /\ play[c] = "sounding"
    /\ TakeReceipt(c, ledger, heard)
    /\ UNCHANGED BesidesAudio

\* mutant: only the start acknowledgement is bounded
PlayStartTimesOut(c) ==
    /\ play[c] = "starting" /\ ~cancel
    /\ play' = [play EXCEPT ![c] = "failed"]
    /\ UNCHANGED <<ledger, BesidesAudio>>

\* No acknowledgement in time: of the start unless cancelled, or of the stop.
PlayTimesOut(c) ==
    /\ \/ play[c] = "starting" /\ ~cancel
       \/ play[c] = "sounding"
    /\ play' = [play EXCEPT ![c] = "failed"]
    /\ UNCHANGED <<ledger, BesidesAudio>>

Playback(c) ==
    \/ PlayBegins(c) \/ PlayStarts(c) \/ PlayTimesOut(c)
    \/ \E heard \in {"all", "part", "nothing"} : PlayStops(c, heard)

-----------------------------------------------------------------------------
(* Starting a response. *)

\* _begin_response when its two guards hold.
Begin ==
    /\ resp < MaxTurns
    /\ resp' = resp + 1
    /\ fsm' = "THINKING"
    /\ token' = epoch
    /\ cancel' = FALSE
    /\ invalid' = FALSE
    /\ rpc' = "start"
    /\ attempt' = 0
    /\ segAudio' = FALSE
    /\ play' = [c \in Chunks |-> "none"]
    /\ ledger' = [c \in Chunks |-> "none"]
    /\ episode' = FALSE
    /\ lost' = NotLost
    /\ UNCHANGED <<epoch, owner>>

\* _begin_response returns without a word when a response is active or the
\* session is not listening: the confirmed turn is gone.  followup: the turn
\* comes after an interruption made for it.
TakeTurn(followup) ==
    IF ~Active /\ fsm = "LISTENING"
    THEN Begin
    ELSE /\ lost' = <<fsm, followup>>
         /\ UNCHANGED <<sessionVars, taskVars, audioVars, episode>>

\* Bound: a turn is only spoken while a response is left for it.
RoomForTurn == Cardinality({a \in Actors : hnext[a]}) < MaxTurns - resp

-----------------------------------------------------------------------------
(* interrupt() *)

\* Where an actor waits, for which response, and whether a turn follows.
Waits(a, point, r, turn) ==
    /\ hpc'   = [hpc EXCEPT ![a] = point]
    /\ hwait' = [hwait EXCEPT ![a] = r]
    /\ hnext' = [hnext EXCEPT ![a] = turn]

StateOnInterrupt ==
    IF fsm \in PlaybackStates \union {"THINKING"} THEN "INTERRUPTED" ELSE fsm

\* Actor a interrupts an active response and waits for its audible stop; a
\* second caller only waits.
Interrupt(a, turn) ==
    /\ Active
    /\ IF cancel
       THEN UNCHANGED sessionVars
       ELSE /\ fsm' = StateOnInterrupt
            /\ InvalidateOperations
            /\ invalid' = TRUE
            /\ cancel' = TRUE
            /\ UNCHANGED <<resp, token, owner>>
    /\ Waits(a, "awaitStop", resp, turn)
    /\ UNCHANGED <<taskVars, audioVars, episode>>

-----------------------------------------------------------------------------
(* Transcripts and the interrupt button. *)

Hears(h) == h \in Handlers /\ ~closed /\ hpc[h] = "idle"

\* agent_speaking; acoustic: the transcript falls into a soft-yield episode.
Speaking(acoustic) == fsm \in PlaybackStates \/ acoustic

\* Background speech over the assistant, which only diagnostic transcripts
\* report: OVERLAP, and SPEAKING right after.  An edge that does not exist
\* raises, and the control worker dies of it.
HearBackground(acoustic) ==
    /\ Hears("control")
    /\ acoustic => episode
    /\ Speaking(acoustic)
    /\ IF CanGo(fsm, "OVERLAP")
       THEN fsm' = "SPEAKING" /\ UNCHANGED hpc
       ELSE hpc' = [hpc EXCEPT !["control"] = "gone"] /\ UNCHANGED fsm
    /\ lost' = NotLost
    /\ UNCHANGED <<epoch, resp, token, cancel, invalid, owner, taskVars, audioVars, episode,
                   hwait, hnext, endVars>>

\* wait_for_response() is over for response r and the turn is taken; awaiting a
\* task that was cancelled raises CancelledError in the handler instead.
Resume(h, r, followup) ==
    IF r # 0 /\ r = killed
    THEN /\ Waits(h, "gone", 0, FALSE)
         /\ lost' = NotLost
         /\ UNCHANGED <<sessionVars, taskVars, audioVars, episode>>
    ELSE Waits(h, "idle", 0, FALSE) /\ TakeTurn(followup)

\* An interruption; a final one may carry the user's next turn.
HearInterruption(h, acoustic, turn) ==
    /\ Hears(h)
    /\ acoustic => episode
    /\ Speaking(acoustic)
    /\ turn => RoomForTurn
    /\ IF Active
       THEN Interrupt(h, turn) /\ lost' = NotLost
       ELSE turn /\ Resume(h, resp, FALSE)
    /\ UNCHANGED endVars

\* A complete turn outside an episode takes over a response that is THINKING.
HearTurn(h) ==
    /\ Hears(h)
    /\ RoomForTurn
    /\ IF Active /\ fsm = "THINKING"
       THEN Interrupt(h, TRUE) /\ lost' = NotLost
       ELSE TakeTurn(FALSE) /\ UNCHANGED actorVars
    /\ UNCHANGED endVars

\* The browser's interrupt button.
PressInterrupt ==
    /\ ~closed /\ hpc["control"] = "idle"
    /\ Interrupt("control", FALSE)
    /\ lost' = NotLost
    /\ UNCHANGED endVars

\* The response the handler interrupted stopped: done, or the follow-up turn,
\* for which it waits once more when another response runs by now.
WakeAfterStop(a) ==
    /\ hpc[a] = "awaitStop"
    /\ a # "closer"
    /\ Ended(hwait[a])
    /\ ~(mute /\ hwait[a] = killed)
    /\ IF hnext[a] /\ Active
       THEN /\ Waits(a, "awaitEnd", resp, TRUE)
            /\ lost' = NotLost
            /\ UNCHANGED <<sessionVars, taskVars, audioVars, episode>>
       ELSE IF hnext[a]
       THEN Resume(a, resp, TRUE)
       ELSE /\ Waits(a, "idle", 0, FALSE)
            /\ lost' = NotLost
            /\ UNCHANGED <<sessionVars, taskVars, audioVars, episode>>
    /\ UNCHANGED endVars

\* The response the handler awaited is over.
WakeAfterEnd(h) ==
    /\ h \in Handlers
    /\ hpc[h] = "awaitEnd"
    /\ Ended(hwait[h])
    /\ Resume(h, hwait[h], TRUE)
    /\ UNCHANGED endVars

-----------------------------------------------------------------------------
(* The acoustic barge-in detector, fed by receive_audio. *)

MicrophoneOpen == ~closed /\ hpc["closer"] = "idle" /\ hpc["input"] # "gone"

\* Speech over audible playback opens a soft-yield episode.
SpeechOnset ==
    /\ MicrophoneOpen
    /\ Active
    /\ fsm \in PlaybackStates
    /\ episode' = TRUE
    /\ UNCHANGED <<sessionVars, taskVars, audioVars, actorVars, lost, endVars>>

\* Sustained speech: a task of its own interrupts.
SustainedTakeover ==
    /\ MicrophoneOpen
    /\ episode
    /\ fsm \in PlaybackStates
    /\ ~cancel
    /\ hpc["acoustic"] = "idle"
    /\ Interrupt("acoustic", FALSE)
    /\ UNCHANGED <<lost, endVars>>

-----------------------------------------------------------------------------
(* The hang-up: websocket_session cancels its control worker, then close(). *)

\* A pending playback task is cancelled: gather hands its own cancel on.
CancelPlayback == play' = [c \in Chunks |-> IF Pending(c) THEN "failed" ELSE play[c]]

\* CancelledError in the response task, at the point where it waits.  Before its
\* first step, or inside `finally`, it ends without the rest of `finally`.
CancelResponse ==
    /\ killed' = resp
    /\ mute' = (rpc \in {"start", "finally"})
    /\ CASE rpc = "start" ->
              rpc' = "done" /\ UNCHANGED <<fsm, owner, audioVars>>
         [] rpc = "finally" ->
              rpc' = "done" /\ CancelPlayback /\ UNCHANGED <<fsm, owner, ledger>>
         [] rpc = "drain" ->
              rpc' = "finally" /\ CancelPlayback /\ UNCHANGED <<fsm, owner, ledger>>
         [] OTHER ->
              Leave(fsm, cancel, ledger) /\ UNCHANGED play
    /\ UNCHANGED <<epoch, resp, token, cancel, invalid, attempt, segAudio>>

\* Cancelling the worker cancels the response task it awaits.
HangUp ==
    /\ hpc["closer"] = "idle"
    /\ hpc' = [hpc EXCEPT !["closer"] = "awaitControl", !["control"] = "gone"]
    /\ hwait' = [hwait EXCEPT !["closer"] = hwait["control"], !["control"] = 0]
    /\ hnext' = [hnext EXCEPT !["control"] = FALSE]
    /\ IF hpc["control"] = "awaitEnd" /\ ~Ended(hwait["control"])
       THEN CancelResponse
       ELSE UNCHANGED <<sessionVars, taskVars, audioVars, killed, mute>>
    /\ UNCHANGED <<episode, lost, closed>>

\* The worker has ended; close() interrupts an active response.
CloseBegins ==
    /\ hpc["closer"] = "awaitControl"
    /\ killed # 0 => Ended(killed)
    /\ IF Active
       THEN Interrupt("closer", FALSE)
       ELSE /\ Waits("closer", "awaitAcoustic", 0, FALSE)
            /\ UNCHANGED <<sessionVars, taskVars, audioVars, episode>>
    /\ UNCHANGED <<lost, endVars>>

\* Then it waits for whatever response runs, and for the acoustic task.
CloseWaits ==
    /\ \/ /\ hpc["closer"] = "awaitStop"
          /\ Ended(hwait["closer"])
          /\ IF Active
             THEN Waits("closer", "awaitEnd", resp, FALSE)
             ELSE Waits("closer", "awaitAcoustic", 0, FALSE)
       \/ /\ hpc["closer"] = "awaitEnd"
          /\ Ended(hwait["closer"])
          /\ Waits("closer", "awaitAcoustic", 0, FALSE)
    /\ UNCHANGED <<sessionVars, taskVars, audioVars, episode, lost, endVars>>

\* From here on no transcript is taken; the input loop gets its end mark.
CloseGate ==
    /\ hpc["closer"] = "awaitAcoustic"
    /\ hpc["acoustic"] = "idle"
    /\ closed' = TRUE
    /\ Waits("closer", "awaitInput", 0, FALSE)
    /\ UNCHANGED <<sessionVars, taskVars, audioVars, episode, lost, killed, mute>>

\* The input loop has ended: the machine is led to IDLE.
CloseEnds ==
    /\ hpc["closer"] = "awaitInput"
    /\ hpc["input"] \in {"idle", "gone"}
    /\ fsm' = "IDLE"
    /\ hpc' = [hpc EXCEPT !["closer"] = "gone", !["input"] = "gone"]
    /\ UNCHANGED <<epoch, resp, token, cancel, invalid, owner, taskVars, audioVars, episode,
                   hwait, hnext, lost, endVars>>

-----------------------------------------------------------------------------
(* After start(). *)
Init ==
    /\ fsm = "LISTENING"
    /\ epoch = 0
    /\ resp = 0
    /\ token = 0
    /\ cancel = FALSE
    /\ invalid = FALSE
    /\ owner = 0
    /\ rpc = "none"
    /\ attempt = 0
    /\ segAudio = FALSE
    /\ play = [c \in Chunks |-> "none"]
    /\ ledger = [c \in Chunks |-> "none"]
    /\ episode = FALSE
    /\ hpc = [a \in Actors |-> "idle"]
    /\ hwait = [a \in Actors |-> 0]
    /\ hnext = [a \in Actors |-> FALSE]
    /\ lost = NotLost
    /\ killed = 0
    /\ mute = FALSE
    /\ closed = FALSE

Hear ==
    \/ \E h \in Handlers : HearTurn(h)
    \/ \E h \in Handlers, acoustic, turn \in BOOLEAN : HearInterruption(h, acoustic, turn)
    \/ \E acoustic \in BOOLEAN : HearBackground(acoustic)

Wake(a) == WakeAfterStop(a) \/ WakeAfterEnd(a)

Close == CloseBegins \/ CloseWaits \/ CloseGate \/ CloseEnds

Next ==
    \/ RunResponse
    \/ \E c \in Chunks : Playback(c)
    \/ Hear
    \/ PressInterrupt
    \/ SpeechOnset
    \/ SustainedTakeover
    \/ \E a \in Actors : Wake(a)
    \/ HangUp
    \/ Close

\* The loop runs every ready task.  A reasoner or synthesizer answers, ends or
\* fails within its HTTP timeouts; the browser owes nothing, the playback
\* timeout stands for it.  Nobody is obliged to speak or to hang up.
OwnPlayback(c) == PlayBegins(c) \/ PlayTimesOut(c) \/ (cancel /\ PlayStarts(c))

Fairness ==
    /\ WF_vars(RunResponse)
    /\ \A c \in Chunks : WF_vars(OwnPlayback(c))
    /\ \A a \in Actors : WF_vars(Wake(a))
    /\ WF_vars(Close)

Spec == Init /\ [][Next]_vars
FairSpec == Spec /\ Fairness

-----------------------------------------------------------------------------
(* Properties. *)

\* Types of the variables of a session.
TypeOK ==
    /\ fsm \in ConversationState
    /\ epoch \in Nat /\ token \in Nat
    /\ resp \in 0 .. MaxTurns
    /\ owner \in 0 .. MaxTurns
    /\ killed \in 0 .. MaxTurns
    /\ cancel \in BOOLEAN /\ invalid \in BOOLEAN /\ segAudio \in BOOLEAN
    /\ episode \in BOOLEAN /\ mute \in BOOLEAN /\ closed \in BOOLEAN
    /\ rpc \in TaskPoint
    /\ attempt \in {0, 1}
    /\ play \in [Chunks -> PlayState]
    /\ ledger \in [Chunks -> LedgerState]
    /\ hpc \in [Actors -> ActorPoint]
    /\ hwait \in [Actors -> 0 .. MaxTurns]
    /\ hnext \in [Actors -> BOOLEAN]
    /\ lost \in (ConversationState \union {"none"}) \X BOOLEAN

\* "Never leave the session stranded in THINKING with no active response"
\* (finally of _run_response): no state that waits for a response to end
\* outlives it, unless the hang-up cancelled its task.
NeverStranded ==
    killed = 0 /\ ~Active => fsm \notin {"THINKING", "TOOL_WAIT", "RECOVERING", "INTERRUPTED"}

\* Two checks guard a response, its cancel event and the epoch of its token;
\* the segment loop looks at the event alone.  At every wait they agree.
CancelAgreesWithEpoch == Active => (cancel <=> token # epoch)

\* Exclusive playback: the owner is the latest response and its task runs, so
\* no chunk of a new response is refused for an owner that is gone.
OwnerIsActive == killed = 0 /\ owner # 0 => owner = resp /\ Active

\* When a response is over, its ledger holds no chunk that is still queued or
\* playing, whichever of its playback tasks failed, ended or never began.
LedgerSettled ==
    killed = 0 /\ ~Active => \A c \in Chunks : ledger[c] \notin {"QUEUED", "PLAYING"}

\* The lookahead of the playback queue is never exceeded.
LookaheadBounded == PendingCount <= Lookahead

\* A handoff is entered only for audio whose end nobody confirmed.
HandoffOnlyUnconfirmed ==
    fsm = "HANDOFF" => \E c \in Chunks : ledger[c] = "PLAYBACK_UNCONFIRMED"

\* What was heard is never rewritten: an entry that is settled stays as it is
\* for the rest of its response, whatever receipt, timeout or cancel follows.
SettledForGood ==
    [][resp' = resp =>
          \A c \in Chunks : ledger[c] \in {"PLAYED", "CANCELLED", "PLAYBACK_UNCONFIRMED"}
                            => ledger'[c] = ledger[c]]_vars

\* The points of the response task in the order in which it winds down.
Stage == [none |-> 0, start |-> 1, tool |-> 2, reason |-> 3, capacity |-> 4, tts |-> 5,
          drain |-> 6, finally |-> 7, done |-> 8]

\* An interruption is final, whichever await it meets: a response that is
\* cancelled stays so, no further chunk of it is scheduled, and every step of
\* its task brings it closer to its end.
InterruptionIsFinal ==
    [][cancel /\ resp' = resp =>
          /\ cancel'
          /\ \A c \in Chunks : play[c] = "none" => play'[c] = "none"
          /\ UNCHANGED taskVars \/ Stage[rpc] < Stage[rpc']]_vars

\* With one transcript handler, a user turn that interrupted the assistant is
\* not dropped when the interruption is over, unless the session was handed off.
FollowupsAreTaken == lost[2] => lost[1] = "HANDOFF"

\* The session is in a playback state only while a response runs: nothing else
\* ever leads out of it.  Needs a session without diagnostic transcripts, for
\* background speech after a response leads to SPEAKING for good.
SpeakingHasResponse == fsm \in PlaybackStates => Active

\* Every response ends: stalled tools, providers and browsers included.
ResponsesEnd == Active ~> ~Active

\* Nobody waits forever for an audible stop or for a response.
WaitersWake ==
    \A a \in {"input", "control", "acoustic"} :
        (hpc[a] \in {"awaitStop", "awaitEnd"}) ~> (hpc[a] \in {"idle", "gone"})

\* A hang-up leads to the release of the session, whatever was going on.
HangUpReleases == (hpc["closer"] # "idle") ~> (hpc["closer"] = "gone" /\ fsm = "IDLE")

-----------------------------------------------------------------------------
(* The inductive strengthening of the safety properties. *)

\* No token is of the future, and a task exists from the first response on.
TokensIssued == token <= epoch /\ (resp = 0 => rpc = "none")

\* A ledger entry follows its playback task: neither exists before the other,
\* and a task that ended left a settled entry.  A response that has not reached
\* its reasoner has no audio.
AudioLinked ==
    /\ rpc \in {"start", "tool"} => FirstAudio
    /\ \A c \in Chunks : /\ play[c] = "none"  => ledger[c] = "none"
                         /\ play[c] = "ended" => ledger[c] \in {"PLAYED", "CANCELLED"}

\* Each state that waits for the response has the response task to lead out.
StateLedOut ==
    /\ fsm # "RECOVERING"
    /\ killed = 0 => /\ fsm = "TOOL_WAIT"   => rpc = "tool"
                     /\ fsm = "THINKING"    => Active
                     /\ fsm = "INTERRUPTED" => Active /\ cancel

\* Once the body of the task was left, no entry is queued or playing.
QuietAfterBody ==
    killed = 0 /\ rpc \in {"none", "finally", "done"} =>
        \A c \in Chunks : ledger[c] \notin {"QUEUED", "PLAYING"}

\* What every step keeps, and every safety property follows from: the response
\* task, its playback tasks and its ledger agree at every await.
Inv ==
    /\ TokensIssued
    /\ CancelAgreesWithEpoch
    /\ AudioLinked
    /\ StateLedOut
    /\ OwnerIsActive
    /\ QuietAfterBody
    /\ HandoffOnlyUnconfirmed

-----------------------------------------------------------------------------
(* What the documents say and the code does not do. *)

\* README.md: "Ein legitimer neuer User-Turn waehrend eines Stalls geht nicht mehr
\* verloren"; a complete turn during a tool call is dropped all the same.
TurnsInToolWaitAreTaken == lost # <<"TOOL_WAIT", FALSE>>

\* docs/ARCHITECTURE.md: "missing stop acknowledgements enter safe handoff"; after
\* a barge-in the session listens again although a stop was never confirmed.
MissingStopHandsOff ==
    killed = 0 /\ ~Active /\ (\E c \in Chunks : ledger[c] = "PLAYBACK_UNCONFIRMED")
        => fsm \in {"HANDOFF", "IDLE"}

=============================================================================

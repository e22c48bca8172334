# HumanFlow in TLA+

HumanFlow is a realtime voice agent: a browser streams microphone audio over a
WebSocket, a transcriber turns it into turns, a reasoner (with appointment tools)
answers, a synthesizer speaks, and the browser acknowledges what was really
played. All of it runs on one asyncio event loop per process, as a dozen tasks that
interleave at every `await`. This directory holds models of that machinery, the
checks TLC makes on small instances, and the proofs TLAPS checks for all of them.

Paths below are relative to `src/humanflow/` in the repository.

## 1. Inventory

| Component | Code | State | Operations |
|---|---|---|---|
| Conversation state machine | `controller/state_machine.py` | state, operation epoch | `transition`, `issue_token`, `invalidate_operations`, `accept_result` |
| Realtime voice session | `runtime/session.py` | current response and its task, cancel and stop events, playback owner, soft-yield episode, closed flag | `start`, `receive_audio`, `accept_user_transcript`, `interrupt`, `resume`, `acknowledge_playback_control`, `wait_for_response`, `close` and the tasks they create |
| Played-audio ledger | `audio/ledger.py` | one entry per chunk | register, queue, start, receipt, cancel, unconfirmed |
| Browser audio output | `web/transport.py` | pending playbacks with a start and a stop future, invalid responses, duck commands | `play`, `soft_duck`, `resume`, `invalidate`, `acknowledge`, `disconnect` |
| Web application | `web/app.py` | the one browser-session lease, the control queue and its worker | the WebSocket loop, control messages, hang-up |
| Tool executor | `tools/executor.py` | none of its own; moves the state machine | `execute` with attempts, deadline, fallback |
| Appointment coordinator, tracker and store | `tools/appointment_coordinator.py`, `runtime/appointment_state.py`, `tools/sqlite_appointments.py` | per conversation the offers on the table, what it knows to be booked and what it believes of each appointment; the database all conversations share | `apply_user_turn`, `execute`, `record_tool_result`; search, create, reschedule, cancel, list |
| Final admission, self-speech guard | `runtime/final_admission.py`, `runtime/self_speech.py` | speech episodes, the noise floor, what the assistant said last | `observe`, `assess_final`, `assess` |
| Acoustic barge-in | `runtime/acoustic_barge_in.py` | the current candidate | `observe` |
| Turn policy | `turns/policies.py` | none | `decide` |
| Transcriber | `runtime/elevenlabs_stt_provider.py` | connection, receive task, the latest partial and the committed updates | connect, push audio, drain, close |
| Speech synthesis | `runtime/elevenlabs_provider.py`, `runtime/providers.py` | budget, the producer's packet queue, which response has which provider | `stream_speech` of the primary, the gapless buffer, the browser and the fallback around them |
| Reasoner | `runtime/anthropic_provider.py` | the trimmed history | `stream_response` |
| Cost observability | `cost/*.py` | event ledger, recorder queue and thread, budget, summary | record, append, close, aggregate |
| Engineering harness | `engineering/*.py` | tasks with status, approval and evidence, in memory and in a file; worktrees, attempts, bundles | propose, approve, schedule, run an attempt, verify, retry, merge |
| Development, quality, evaluation tooling | `development/`, `quality/`, `finalization/`, `evaluation/` | files | offline scoring and replay |

**How they interact.** The WebSocket loop hands audio frames to
`receive_audio` (synchronous) and control messages to a queue that one worker
empties. The STT input loop and the control worker both call the transcript
handler, so there are up to two tasks that start and interrupt responses, besides
the task the acoustic detector creates and `close()`. A response is one task
(`_run_response`) that creates one playback task per audio chunk; each of those
waits on futures the browser's acknowledgements resolve. Shared state between all
of them: the state machine and its epoch, the response's cancel event, the
playback owner and the ledger. There are no locks around multi-step updates, only
the rule that nothing else runs between two awaits. The recorder of costs is a
thread and posts its failures back to the loop; the engineering harness runs in
processes of its own, with a thread per task that shares the registry and its file.

**What is hard.** A response can be cancelled while it waits for a tool, the
reasoner, the synthesizer, queue capacity, its playbacks or the `finally` block;
chunks can fail in every order with cancels and late receipts; a handler that waits
for the end of one response wakes up to find another; a hang-up cancels a task that
awaits a response, and with it the response; the browser owes no acknowledgement.
`PROJECT.json` lists these hazards at their lines.

**What makes each component correct.**
*Session*: never stranded in a state that waits for a response which is over; one
playback owner; cancellation seen consistently; every response ends, nobody waits
forever, a hang-up releases everything; a confirmed user turn is taken.
*Ledger*: settled when the response is over, what was heard never rewritten.
*Browser output and player*: every `play` ends, with one receipt that claims no more
than was heard, whatever the order of acknowledgement, timeout, invalidation and
disconnect; once it returned there is silence; no response suffers from the duck,
mute or ownership of another.
*Appointments*: a booking happens at most once per confirmation, no slot is booked
twice, the offer on the table agrees with the store.
*Admission*: a final transcript is handled at most once, claims speech nobody else
claimed, and is judged on the audio the transcriber got.
*Lease*: at most one browser session, released on every path.
*Soft yield*: nothing leaves the assistant ducked for good.
*Speech*: a response has one voice, whatever fails between its segments.
*Cost*: what was recorded is in the summary or was reported as lost.
*Registry and harness*: nothing risky runs without approval, a problem has one task,
workers stay apart, nothing counts as verified that was not, no crash turns that around.

## 2. Plan

| Order | Module | Models | Abstract statement | Status |
|---|---|---|---|---|
| 1 | `ConversationGraph` | the lifecycle graph | - | done |
| 2 | `VoiceSession` | session, response task, ledger, playback as the session sees it, hang-up | - | done, safety proved |
| 3 | `PlaybackContract`, `BrowserPlayback` | `web/transport.py`, both wires, the player in `web/static/app.js`, soft-yield duck and resume | one truthful receipt per chunk, in order; refined | done, safety and refinement proved |
| 4 | `AppointmentCalendar`, `AppointmentBooking` | coordinator, tracker, executor with one attempt, the shared store | a slot is taken, moved and given up atomically; refined | done, safety and refinement proved |
| 5 | `TaskRegistry`, `EngineeringHarness` | the registry and its file; scheduler, attempts, worktrees, merge gate, retries | the registry is the abstract view: the harness moves it by its operations | done, safety proved, the registry refined |
| 6 | `SpeechAdmission`, `VoiceInput` | the admission gate; lease, receive loop, input queue and loop, transcriber, control worker | - | done, safety proved |
| 7 | `SoftYield` | detector, episodes, resume timer, takeover, classification by transcripts | - | done, proved |
| 8 | `ResponseStream` | reasoner, segments and retry, fallback, gapless buffer, producer | - | done, proved |
| 9 | `CostLedger` | pricing, budget, recorder thread, shutdown, summary | - | done, proved |

`BrowserPlayback` meets `VoiceSession` at the life of a chunk (`PlaybackContract`):
created, starting, sounding, ended or failed, the values of `play[c]` in
`VoiceSession`. Proofs follow the checks: type correctness, then each safety
invariant, then refinement steps.

## 3. Modules

### `ConversationGraph`

The states and the transition table of `ALLOWED_TRANSITIONS`, the guard of
`transition()`, and the states the session treats as audible. No variables.

### `VoiceSession`

One `RealtimeVoiceSession`. An action is what a task does between two awaits.

| Variable | Code |
|---|---|
| `fsm`, `epoch` | `state_machine.state`, `.operation_epoch` |
| `resp` | `_response_id`, numbered in order of creation; 0 is `None` |
| `token` | epoch of the operation token the response was given |
| `cancel`, `invalid` | `_cancel_event` is set; id in `_cancelled_response_ids` and invalid in the output |
| `owner` | `_playback_owner_response_id` |
| `rpc` | where the task of `_run_response` waits: before its first step, tool, reasoner, synthesizer, queue capacity, the gather of playbacks, `finally` |
| `attempt`, `segAudio` | `_tts_attempt`, `segment_audio_emitted` |
| `play[c]` | playback task of chunk c: created, waiting for the start, for the stop, ended, failed |
| `ledger[c]` | its `PlayedAudioLedger` state (GENERATED and QUEUED follow without an await: one state) |
| `episode` | `_soft_yield` is not None |
| `hpc`, `hwait`, `hnext` | for the input loop, the control worker, the acoustic task and `close()`: where it waits, for which response, and whether a user turn follows |
| `killed`, `mute` | the response whose task was cancelled at the hang-up, and whether that skipped `_audio_stopped.set()` |
| `closed` | `_closed` |
| `lost` | history: what the latest handler step dropped |

Actions of the response task: `PlanNoTool`, `CallTool`, `ToolReturns`, `ToolFails`,
`ReasonerYields`, `ReasonerEnds`, `ReasonerFails`, `SynthesizerYields`,
`CapacityFreed`, `StreamEnds`, `StreamFails`, `Gathered`, `Finally`. The paths out of
the body (`Complete`, `Fail`, and `Leave`/`Finish` for `finally`) are operators the
actions share, as they are the same lines in the code. Playback tasks:
`PlayBegins`, `PlayStarts`, `PlayStops`, `PlayTimesOut`. Handlers: `HearTurn`,
`HearInterruption`, `HearBackground`, `PressInterrupt`, `WakeAfterStop`,
`WakeAfterEnd`. Detector: `SpeechOnset`, `SustainedTakeover`. Hang-up: `HangUp`,
`CloseBegins`, `CloseWaits`, `CloseGate`, `CloseEnds`.

Abstractions, each over-approximating:

- The tool wait is an await in the code when the search is configured with a delay
  (`HUMANFLOW_DEMO_TOOL_DELAY_MS`) or another `ToolProvider` awaits; the SQLite
  tools otherwise answer within the step. The model lets every call take time.
- Text, samples and time are left out; a time-out is a step that may happen while
  its wait lasts.
- The turn policy, the self-speech guard and final admission decide; the model
  lets every verdict they can give happen. Background speech is only reported by
  diagnostic control messages, so only the control handler hears it.
- Only the latest response's ledger entries and playback tasks are kept: no code
  touches those of an earlier one, because a response only begins when the one
  before it is over.
- A chunk `_accept_audio_chunk` refuses as a duplicate leaves no trace and is not
  a step. A speech provider that changes between two segments raises, which is a
  `StreamFails`.
- The transitions through RECOVERING (`Fail`, `ToolFails`) and OVERLAP
  (`HearBackground`) happen without an await and show as one step.
- `MaxTurns` and `MaxChunks` bound responses and chunks; `RoomForTurn` keeps
  handlers from speaking a turn no response is left for. `Lookahead` is 2 in the
  code; the runs use 1 with two chunks, so that a third chunk is not needed to
  fill the queue.
- Soft-yield resume is in `BrowserPlayback` and `SoftYield`, the frame queue in
  `VoiceInput`, cost recording in `CostLedger`.

A cancelled task is modelled by what asyncio does: cancelling the control worker
cancels the response task it awaits; a task cancelled before its first step ends
without running `finally`, one cancelled inside the gather of `finally` ends without
setting `_audio_stopped` (`CancelResponse`, `mute`).

### `PlaybackContract`

What `play()` promises the session about each chunk: it starts before it ends, it
ends once, with a receipt or by giving up, and the receipt never claims more than
the listener heard. Three variables per chunk: `life`, `receipt`, `heard`.

### `BrowserPlayback`

The audio's way to the ear and back, for a session that begins responses one after
another, interrupts them, lets them fail, and ducks and resumes them at any moment.

| Variable | Code |
|---|---|
| `resp`, `cancel` | the response of the session and its cancel event |
| `mode[r]` | whether its chunks are `pcm` or `browser_speech` |
| `invalid`, `pepoch` | the response is in `_invalidated_response_ids`; `_playback_epoch` |
| `task[i]` | `play()` of chunk i: created, the wait for the start, for stop or cancel, for the stop alone, ended, failed |
| `started`, `stopped[i]` | the two futures of `_PendingPlayback` |
| `receipt[i]` | `played_samples` of the receipt: nothing, part or all |
| `episode`, `resumed`, `onsets` | `_soft_yield`, its `resume_requested_ns`, and how many there were |
| `live`, `down`, `up` | the WebSocket and the messages under way in each direction |
| `sound[i]` | the entry of `activeAudio`: scheduled, audible, stopping, gone |
| `owner`, `cancelled`, `stopAsked`, `epochOf`, `yielding` | `activePlaybackOwner`, `cancelledResponseIds`, `cancelledChunkIds`, `responsePlaybackEpochs`, `softYieldResponseId` |
| `synthesizer` | whether the browser has `speechSynthesis`; fixed for the connection |
| `gain`, `paused` | the gain node's target; whether `speechSynthesis` is paused |
| `heard[i]`, `refused` | history: what reached the listener, what was refused for another owner |

Actions: the session (`BeginResponse`, `Schedule`, `Interrupt`, `FailResponse`,
`SpeechOnset`, `SpeechEnds`, `Resume`), `play()` between its awaits (`PlayRefuses`,
`PlaySends`, `PlayStarts`, `PlayLeavesWait`, `PlayEnds`, `PlayTimesOut`), the server's
receiver (`Acknowledge`), the loss of the connection (`Disconnect`), the browser's
message handler (`OnMessage`, one operator per message) and its audio callbacks
(`Begins`, `PlaysOut`, `FallsSilent`, `SpeechErrs`).

Abstractions:

- The WebSocket delivers in order. A chunk's announcement and its samples are
  contiguous in the outbound queue and are one message.
- Time-outs are steps; the 250 ms fallback timer of `cancelAudio` is the step
  `FallsSilent`. A sound that begins and the timer that acknowledges it are one
  step, as are its end and the pause after it; cancelled in that pause it
  counts as partly heard.
- Which chunk the session schedules next ignores the look-ahead, and a response may
  begin after one that timed out, though the session may have handed off by then.
- The acknowledgements of duck and resume only feed telemetry.
- Where the browser has speech synthesis, its `cancel()` leaves a pause on, as the Web
  Speech API defines it. Where it has none, browser speech is acknowledged as
  stopped and keeps the ownership `playOutput` took for it, and `resumePlayback` fails
  after it restored the gain. A message of an unknown mode would do the same; this
  server's `AudioPlaybackMode` has only the two. After the loss of the connection
  the player stands still.
- `mode` is per response because a provider that changes within one raises in the session.

### `AppointmentCalendar`

What the store promises to all who share it: an id books a free slot once, moves to
a free slot, or is given up for good; each in one step. One variable, `row`.

### `AppointmentBooking`

Conversations that book, move, cancel and list appointments in one store.

| Variable | Code |
|---|---|
| `row[i]` | the table `appointments`: slot and status of database id i |
| `pc`, `said`, `stale` | the turn that is answered: its intent, appointment and whether it named a new time; whether the response was interrupted, so that its `parent_token` is outdated |
| `offer[c][i]` | `_pending_offers`; `for` is the time asked for when it was made |
| `persisted`, `committed` | `_persisted_ids`, `_committed_start_datetimes` |
| `status`, `wish` | the tracker's action state and date and time |
| `silent` | history: conversations whose latest response said nothing though it was not interrupted |

Actions: the turn (`Hear`, which is `apply_user_turn`), the barge-in (`Interrupt`),
and `execute` by outcome: `NoTool`, `Refused` (the executor raises because the
session is no longer THINKING; the plan has had its effects), `ToolFails`, the search
with its await (`StartSearch`, `SearchLost`, `SearchReturns`), `Create`, `Reschedule`,
`Cancel`, `List`. `ToolFor` and `Table` are `_plan`: which tool, and what becomes
of the offers.

Abstractions:

- What the user says is an intent and a time; the German phrases, and doctor,
  place and kind of appointment, are an input. A search finds any free slot, or
  offers none. Turns about no appointment change nothing and are left out.
- Only the search awaits (`HUMANFLOW_DEMO_TOOL_DELAY_MS`): on the Python 3.12 the project
  requires, `asyncio.wait_for` runs a coroutine that never suspends within the step,
  so create, reschedule, cancel and list are planned, committed and recorded without
  anything in between. Another process may share the database file; its
  transactions are the steps of another conversation.
- The coordinator gives the executor one attempt. The replay of a create that was
  already committed is in `Create`, though one attempt never reaches it.
- An appointment restored from the store keeps the name of its first
  conversation; in the code it gets a fresh local name for the same database id.
- `status` tells only the states that claim something apart. Resetting the demo
  data is not modelled.

### `TaskRegistry`

`engineering/registry.py`: `reg` is the registry in memory, `disk` the file `save()`
replaces with `os.replace`. Actions are its methods: `Add` (which only links a problem
already known), `Transition` with the actor's rights, `RecordHumanApproval`,
`RecordVerifiedMerge`, `Save`, and `Load` in a new process. Of a task's fields
only status, approval, problem and the kinds of evidence are kept.

### `EngineeringHarness`

`EngineeringSupervisor` over that registry, one thread per scheduled task.

| Variable | Code |
|---|---|
| `att[t]` | the thread of t: where it is, its attempt, baseline, the paths its candidate changed, the reasons it failed for, its circuit breaker |
| `batch` | calls of `run_ready` |
| `trees` | worktrees and branches ever made; branches are kept as evidence |
| `main`, `tag` | the main branch, and whether the freeze tag still names its commit |
| `result[t]`, `wedged` | history: the candidate the last passed gate saw; tasks whose worktree could not be made |
| `bundle` | release-candidate bundles on disk |

Actions: `RunReady` (what the scheduler takes is characterised by
`IsPlan`: a task that could run is taken unless the tasks of higher priority that were
taken fill the capacity or conflict with it), the
steps of `run_task` (`Prepare`, `Start`, `Lease`, `Work`, `Verify`, `Gate`, `Promote`,
`Except`, `Clean`, and the four `SaveAt` between them), the supervisor's verdict
(`Judge`, `WriteReleaseCandidate`), the operator between two batches (`Operate`,
`OperatorSave`), and the world: `MainMoves`, `TagMoves`, `Crash`.

Abstractions: an exception is an integrity failure or any other, so all others share
one fingerprint for the circuit breaker; a path and a rule are sequences of parts, and
`path_matches` reads a rule as recursive, as a glob or literally (`Wild` and `Fits` say
which names a part with a wildcard fits; a glob is compared from the right end, as
`PurePosixPath.match` does; the registry refuses absolute rules); the gate's commands
and the review, the scan for weakened tests and the check that the candidate descends
from its baseline pass or fail (`MayFail` selects which may); metrics, costs and texts of evidence are left out. The
operator acts only between batches, when the saved registry agrees with memory.

### `SpeechAdmission`

The gate of `runtime/final_admission.py` as operators on a record: `Observe` builds
episodes from frames (`Extend`, `Hush`, `Finish`, `Push` with eviction), `Associated`
and `WhyNone` are `_associate_episode`, `Judgement` and `Assess` are `assess_final`.
Durations are counted in frames; the adaptive noise floor is abstracted to what
it makes of a frame (`Level`), a text to its number of tokens (`Text`), the similarity
of the self-speech guard to its verdict (`Verdict`).

### `VoiceInput`

Everything a caller can send, from the WebSocket to the turn.

| Variable | Code |
|---|---|
| `link[c]`, `lease` | how far `websocket_session` of a connection is; `BrowserSessionLease` |
| `bound`, `refused` | the microphone stream is bound; `stt_input_failed` |
| `now`, `heard`, `seqno` | the clock and the frames heard and queued |
| `gate` | `SpeechAdmission` |
| `inq`, `down`, `closed` | `_input_queue`, `_stt_failure_type`, `_closed` |
| `loop` | `_input_loop`: where it waits, its frame, the updates it delivers |
| `scribe` | the transcriber: connection, failure, last frame sent, the partial and the finals not yet drained |
| `voice` | whether the assistant is audible, or has just been |
| `seen`, `turns` | `_seen_final_transcript_ids`; history: the finals handed to `_handle_transcript` |
| `controls`, `ctl`, `sent` | the control worker's queue, the worker, and a bound |

Actions: the connection (`Connect`, `SetUp`, `BindSource`, `Receive`, `Gap`,
`SendControl`, `Disconnect`, `EndSession`, `StopLoop`, `ReleaseLease`), the input loop
(`TakeFrame`, `ConnectScribe`, `AwaitReady`, `DrainUpdates`, `Delivered`,
`AcceptUpdate`, `Reassess` after the reconciliation sleep, `Handled`), the
transcriber's receive task (`SessionStarted`, `PartialArrives`, `FinalArrives`,
`ScribeFails`), the control worker (`TakeControl`, `ControlDone`) and the assistant's
voice (`AssistantSpeaks`).

Abstractions: what a turn starts is `VoiceSession`'s, here handling takes time and may
raise; a frame is its number; the first stream binding is the only one, as the
code makes it immutable; transcripts claimed to come from the browser's recognition
or the transcriber are refused, as `_handle_json` does; a typed message carries any
id the client likes (`ClientId`), again and again, its own or that of a final the
transcriber gave or will give, while the transcriber never repeats one; a session is
discarded when its connection closed, with everything that referred to it.

### `SoftYield`

The user speaks over the assistant. `det` is `AcousticBargeInDetector`, `yield` the
episode `_soft_yield` with a number of its own, `timer` the episode the resume
task is about, `stopper` the takeover's task before it ran, `ducked` the last of duck
and resume that was sent, `cut` the cancel event, `deaf` (history) that no frames came
any more. Actions: `BeginReply`, `ReplySpeaks`, `ReplyEnds`, `HearFrame` (detector and
`_handle_acoustic_barge_in`), `LoseMicrophone`, `AcousticInterrupt`, `TimerFires`,
`HearTranscript` with the turn policy's `Decision`. A frame is voiced or not: noise
floor and echo reference decide that outside. The five seconds an episode counts are
an input (`inEpisode`), so a transcript may fall on either side.

### `ResponseStream`

From the reasoner to the chunks of a response: `talk` is the task of `_run_response`,
`memory` the number of exchanges in the reasoner's trimmed history, `pins` the
fallback's memory of which response has which provider, `maker`, `wire`, `made` and
`got` the producer of the ElevenLabs stream, its packet queue and the gapless buffer,
`budget` the `SynthesisBudget`. The providers are stacked as `web/app.py` builds
them: the fallback over the gapless buffer over ElevenLabs, with the browser second.
Actions: `BeginTalk`, `InterruptTalk`, `ReasonerSpeaks`, `ReasonerStops`,
`ReasonerBreaks`, `Drained`, `FinishTalk`, `OpenSpeech`, `BrowserSpeaks`,
`FirstAudioLate`, `TakeVoice`, `MakerAnswered`, `MakerReads`, `MakerEnds`,
`TakePacket`, `RequestLate`, `PrimaryCancelled`. Words, the disclosure sentence and
samples are left out; budgets count requests and packets; the history counts
exchanges.

### `CostLedger`

`observer` is `RuntimeCostObserver` with the response it is told about, `pending` the
recorder's queue, `appender` its thread, `notices` what it posted back to the loop,
`rows` the table, `closer` how far the end of the session is, `summary` what was
saved. Actions: the six kinds of records, the thread (`TakeUsage`, `AppendRow`), the
callbacks (`RunNotices`) and the end (`StartClose`, `StopRecorder`, `JoinAppender`,
`SaveSummary`). A rule is in EUR or in another currency: the budget counts the first
kind, the summary adds both without converting; each segment costs one unit; waste is rounded to
the nearest, of a tie to either side (which one, the 28 digits of `Decimal` decide);
the summary's breakdowns are left out. A final still queued at the close may start a
response that outlives the recorder, so events may come after it.

### `MCBrowserPlayback`, `MCAppointmentBooking`, `MCVoiceSession`, `MCServices`

The TLC instances. `MCServices` puts five components that share no state side by side:
the variable `part` is chosen at the start and names the one that takes all the steps,
so the states are the sum of the five and not their product.

### `VoiceSessionProofs`, `BrowserPlaybackProofs`, `AppointmentBookingProofs`, `EngineeringProofs`, `VoiceInputProofs`, `SpeechProofs`, `CostLedgerProofs`, `ServicesProofs`

Section 6.

## 4. Runs

| Run | Instance | Question |
|---|---|---|
| `session` | both handlers, 3 turns, 2 chunks, look-ahead 1; 1.04 million states | do all safety invariants hold in every interleaving? |
| `session_live` | STT input only, 2 turns, 1 chunk; 37 thousand states | does every response end, every waiter wake, every hang-up release the session? |
| `session_toolwait` | STT input, 2 turns, 1 chunk | is a turn during a tool call taken, as README.md says? No. |
| `session_missingstop` | same | does a missing stop acknowledgement hand off, as ARCHITECTURE.md says? Not after a barge-in. |
| `session_hang` | both handlers, 3 turns, 1 chunk | does a hang-up release the session? Not always with diagnostic transcripts. |
| `playback` | 2 responses of 1 chunk, 1 soft yield each; 2.1 million states | does a returned `play()` leave silence, is the next response never muted for the sake of the last, and refused only after a time-out or unspeakable speech? |
| `playback_chunks` | 1 response of 2 chunks, 1 soft yield; 2.2 million states | do receipts keep `PlaybackContract`, does a resume reach chunks that sound later? |
| `playback_paused` | as `playback` | is browser speech held back by nothing but its own soft yield? No. |
| `appointments` | 2 conversations of 1 appointment, 3 slots of which 2 overlap; 350 thousand states | are bookings exclusive, known to who made them, and steps of the calendar? |
| `appointments_silent` | 1 conversation | does a failed tool end in a spoken fallback? No. |
| `appointments_claim` | 1 conversation | is the time claimed to be booked the one in the database? Not after a question about another day. |
| `services` | five components, sizes below; 627 thousand states | do the harness, the voice input, soft yield, the response stream and the cost ledger keep their promises? |

**`services`.** The five components of `MCServices` do not interact in the model, and one
run checks each of them alone; TLC reports one action `ServicesNext`, whose
disjuncts all are taken. Two branches of `TakeVoice` and `Yields` (a second
provider for a response) never are: that they cannot be is `OneVoice`.

- *Harness*: three tasks, two of one problem, with overlapping scopes, one of them a glob
  that takes a path from outside its prefix; two workers, three
  attempts, two batches. `FewDisturbances` lets one thing go wrong per behaviour: main moves,
  the tag moves, the process dies, or task 1 needs its last try; only task 1 is tried
  again. The circuit opens at the second failure of a kind (the code: the third).
- *Input*: one connection that is served and one that only asks for the lease, four frames,
  two finals, a queue of one, a typed message under any id. `OneDeparture` allows one departure from plain dictation
  per behaviour: a gap, typed text or a speaking assistant, a failing transcriber,
  partials, or a connection that ends. Each departure meets every interleaving of the
  loops; two different ones do not meet.
- *Soft yield*: two responses, three episodes, a takeover two frames after the onset.
- *Response stream*: three responses of up to two fragments and two segments, a
  history of two exchanges, a memory of one pin, a wire of two packets, budgets that run out.
- *Cost*: three events, a queue of one, a rule in another currency that one in EUR
  replaced, a second one in another currency, an inactive one and one that costs
  nothing; the warning and the hard limit both can be reached, and a summary can mix
  the currencies.

For the appointments, one conversation may say everything, list and cancel what
the other booked; the other books, moves and cancels (`Spoken`). Each asks for one
time of its own, and these two overlap; searches may offer the third. `OneTurn` lets
only one conversation stand between hearing and planning, which loses nothing because
hearing changes nothing others see. Searches overlap freely.

Two responses suffice for one to meet what the one before it left behind (owner,
epoch, episode, a waiting handler), and a third for a handler that waits for the second
to take its own turn; two chunks for one to sound while another is
queued, and for the first to be settled before the second is touched. The same
invariants were also checked with three chunks and the code's look-ahead of 2. The
hang needs three turns because the control handler has to wait for a response that
is itself the successor of the one the input loop interrupted.

For playback, two responses of one chunk show what one leaves to the next (owner,
gain, pause, epoch, late messages), one response of two chunks what duck, resume,
cancel and refusal do between chunks; both at once exceed what TLC explores in
minutes. All four mixtures of `pcm` and `browser_speech`, each with and without
`speechSynthesis`, are initial states.

**Fairness** (`FairSpec` of `VoiceSession`). The event loop runs every task that is ready: weak
fairness of the response task as a whole, of each playback task, of each waiting
handler and of `close()`. The response task's waits end because the code bounds
them: the tool by its deadline, the synthesizer by a first-chunk and a stream
time-out, the reasoner by its HTTP time-out. The browser owes nothing: fairness is
not given to its acknowledgements, only to the time-outs that stand for them and to
the cancel event that ends the wait for a start. Nobody has to speak, press a
button or hang up.

**Safety properties.** `NeverStranded` (the promise of the comment in `finally`),
`CancelAgreesWithEpoch` (two guards that must agree), `OwnerIsActive`,
`LedgerSettled`, `LookaheadBounded`, `HandoffOnlyUnconfirmed`, and two action
properties: `SettledForGood`, and `InterruptionIsFinal` (the task of an interrupted
response, whichever await it is at, schedules no chunk, is never revived, and each of
its steps moves it on along `Stage`, so no retry or failure path leads it back).
`killed = 0` in some of them excludes the session whose response task was itself cancelled at the
hang-up: it is on its way out, and does stay in odd states.

Of playback: `EndedIsSilent`, `RefusedForCause`, `NeverMuted`, `ResumeRestores` and `KeepsContract`,
the refinement of `PlaybackContract`.

Of the bookings: `NoDoubleBooking`, `NoLostBooking` (who booked knows it, interrupted or
not), `OfferIsCurrent` (a yes books what was asked for last), `BelievedIsBooked` (what a
conversation takes for booked is in the store, and the time it goes back to when a
change falls through is the one there, unless another conversation that knows of the
booking moved or cancelled it), and `KeepsCalendar`, the refinement of `AppointmentCalendar`.

Of `services`: `ApprovedBeforeWork` (along any retries, blocks, saves and restarts),
`WorkersStayApart` (parallel tasks share no path but one that a glob takes astray),
`CandidateIsVerified`, `BundleIsDurable` (a crash leaves no bundle of an
unverified task), `RunningIsOwned`; `FramesReachTranscriber` (the gate judges the
audio the transcriber was sent), `FinalsClaimApart`, the
action property `FinalsHandledOnce` (of both sources together), `LeaseIsReturned`;
`DuckIsUndone`; `OneVoice`, `OnlyFullHistoryMiscounts`; `CostAccounted` (no event lost in
silence, and the summary is what the budget saw plus what it never sees);
`ServicesTypeOK` is the type invariant of all five.

**Liveness properties** (STT only): `ResponsesEnd`, `WaitersWake`,
`HangUpReleases`, with the invariants `SpeakingHasResponse` and
`FollowupsAreTaken`, which fail as soon as diagnostic transcripts are a second source.

## 5. Findings

1. `session_toolwait`: README.md:86 promises that a legitimate new user turn during
   a stall is not lost. `_handle_transcript` only takes over a response in
   THINKING; a complete turn during TOOL_WAIT reaches `_begin_response`, which
   returns silently.
2. `session_missingstop`: docs/ARCHITECTURE.md:62 promises a safe handoff for a
   missing stop acknowledgement. When the playback had been interrupted, the handler
   finds INTERRUPTED, makes no transition, and `finally` listens again.
3. `session_hang`: at the hang-up, `controller.cancel()` cancels the response task
   the control worker awaits. If that task waits inside `finally`, the stop event
   is never set, the input loop that waits for it never ends, `close()` never
   returns and the browser lease is never released.
4. `playback_paused`: docs/LIVE_BROWSER_PIPELINE.md:21 has browser speech handle
   transient failures of the primary voice. `duckPlayback` pauses `speechSynthesis`
   when the user speaks over it; when the response is then cancelled nothing resumes
   it, so utterances of later responses never start and their `play()` times out.
5. `appointments_silent`: docs/ARCHITECTURE.md:52 says exhausted attempts use an explicit
   safe fallback. A failed attempt invalidates the operations of the whole
   session, its own response included, so the coordinator discards the
   fallback and the response ends without a word; a confirmed offer is lost and
   its way back to OFFERED is dead code.
6. `appointments_claim`: the docstring at runtime/appointment_state.py:439 calls
   `record_tool_result` the only path that may claim a booking's result. A question
   about free slots on another day overwrites the date of a BOOKED appointment, and
   the search that answers it does not restore it.

Besides these, some passing properties state a defect exactly instead of its absence.
`RefusedForCause`: without `speechSynthesis`, `playOutput` takes the ownership for browser
speech and nothing gives it back (app.js:563), so every later response is refused for
the rest of the connection; no time-out of the server is involved.
`WorkersStayApart`: `path_matches` compares a glob with the end of a path
(engineering/scheduler.py:92), `tasks_conflict` with its literal prefix, so `src/*.py`
and `a/**` do not conflict though both match `a/src/x.py`.
`FinalsHandledOnce`: the session looks an id up before the reconciliation sleep and
enters it after it (session.py:405, 490), so a typed message under the id of the final
that sleeps is handled, and the final after it, once more.
`CostAccounted`: the budget leaves out whatever is not in EUR (cost/runtime.py:297), the
summary adds it (cost/aggregation.py:41); every paid rule of the shipped catalogue
is in USD.
`OnlyFullHistoryMiscounts`: `_run_response` expects the reasoner's history to grow
by one user message per response; the trimmed history of a long conversation does
not, so from then on every response spoken to its end is reported as failed.
`LeaseIsReturned` and `RunningIsOwned` name the paths where the code keeps a lease or a
status for good: a connection whose setup raised, and a task whose worktree could
not be made.

## 6. Proofs

The theorems about the session hold for any `MaxTurns`, `MaxChunks` and `Lookahead` and,
but for the last two, either set of handlers, from `HandlersAssumption` and
`BoundsAssumption` alone.

- `TypeCorrect`: `Spec => []TypeOK`, one lemma per group of actions, with lemmas for the
  operators they share (`LeaveTypes`, `FailTypes`, ...).
- `Invariant`: `Spec => []Inv`. The safety properties are not inductive: that the
  session is not stranded when a response ends depends on what held while it ran.
  `Inv` adds that a token is never of the future (so that a new epoch makes it
  stale), that a response before its reasoner has no audio, that ledger entries
  follow their playback tasks, that TOOL_WAIT, THINKING and INTERRUPTED have a
  running task to lead out of them, and that nothing is queued or playing once the
  body was left. `LeaveKeeps` is the central lemma: it covers every way out of the
  body, through `finally` or to its gather.
- `NotStranded`, `CancelIsStale`, `OwnerRuns`, `Settled`, `HandoffHasCause` are read off
  `Inv`. `NeverRewritten` shows per action that a settled entry stays, using that
  a new chunk has no entry yet. `LookaheadKept` counts pending playbacks with the
  cardinality theorems.
- `InterruptionFinal`: `Spec => InterruptionIsFinal`, one step per action. `Inv` gives
  that a cancelled response has a stale token (`CancelledIsInvalid`), so the chunk loop
  refuses what the reasoner still yields (`Refused`); `WindsDown` covers the task's own
  steps, the failure paths included.
- `WaitersAreServed` and `ResponseNeverStuck` are the safety half of the liveness
  properties. A handler waits for a response that was begun, and for an audible stop
  only of one that was cancelled, whichever of the other handler, the button, the
  acoustic task and the hang-up came first (`WaitersServed`). A response that is not
  over has a step of its own to take or waits for a playback task that has one
  (`NeverStuck`); a body that waits for room has a chunk in hand for it
  (`ChunkInHand`). That these steps are
  eventually taken is fairness, and TLC's part.
- `NoSpeechWithoutResponse` and `FollowupTaken` hold for the session without diagnostic
  transcripts and assume `Handlers = {"input"}`, which is where the two properties are
  claimed. They follow from `AloneInv`: turns come from the input loop alone, so that
  no response begins while it waits for one and the hang-up finds no task to cancel
  (`SoleHandler`); the session speaks only in the body of a response nobody cancelled,
  and a cancelled body has its audio invalidated, so no late chunk leads back to
  SPEAKING (`SpeaksInBody`).

The theorems about the bookings (`AppointmentBookingProofs`) hold for any conversations,
appointments and slots, from the assumptions of `AppointmentBooking`: offered slots are
times, overlapping is reflexive and symmetric, and the marks are no times.

- `BookingInvariant`: `Spec => []BookingInv`. `NoDoubleBooking` alone needs little more
  than types; `NoLostBooking` needs that a turn is about an appointment its
  conversation knows (`TopicKnown`) and that what is known was booked once
  (`KnownWasBooked`): only then is an unbooked appointment the conversation's own, and
  the conversation that learns of the booking the one the id belongs to.
- `BookingTypes`, `Exclusive` and `NothingLost` are read off it.
- `TrustInvariant`: `Spec => []TrustInv`, which adds `OffersFresh` and `BeliefsKnown`, and from
  it `OffersStayCurrent` and `BeliefsHold`. An offer may lag behind the wish only in the
  very turn that names the new time; `TableCurrent` shows that planning then takes it off
  the table, in every branch. Beliefs need that a booking about to be cancelled
  (`pending`) is known, and that what is known is never merely `open`; `BeliefsAfter`
  covers every step that writes one row, the cancel of another conversation's booking
  being the one that leaves others with an outdated belief. `CommittedKept` does the same
  for the time a conversation goes back to: whoever writes a row or lists the bookings
  remembers the time that is there (`CommittedAfter`, `ListCommits`).
- `Refines`: `Spec => KeepsCalendar`. Create, reschedule and cancel are steps of the
  calendar, the replays and everything else stutter; a cancel needs `KnownWasBooked`,
  because the calendar never gives up what was not booked.

The theorems about playback (`BrowserPlaybackProofs`) hold for any number of responses,
chunks and soft yields, from `PlaybackBounds` alone.

- `PlaybackTypes`: `Spec => []TypeOK`, with the types of what the wires carry
  (`WiresTyped`) and with `EpochFollows`: a response is interrupted at most once, so
  the playback epoch never runs ahead of the responses.
- `ReturnedIsSilent`, `RefusalHasCause` and `MuteIsUndone` are read off `PlayInv`. None of
  the three is inductive, as each depends on what is still on the wire: that a chunk
  is announced once and before any request to stop it (`SentOnce`), that a chunk not
  sent yet left no trace (`FreshIsUntouched`), that messages come in the order of the
  responses (`InOrder`), that a stop is only acknowledged for a chunk that is silent
  and not coming any more (`Silence`), and that the owner is the response of all
  active sounds, or with none one that was browser speech and could not be spoken
  (`Ownership`). `Speaks` and `SpeaksKeeps` cover every server step that
  starts no sound, `MessageMoves` and `MessageKeeps` every message the player handles.
- `PlaybackImplementsContract`: `Spec => KeepsContract`. A receipt claims no more than
  was heard by `Claims`, and only a chunk that was sent is heard.
- `ResumeIsDone` from `YieldInv`: a yield the browser still honours has its resume on
  the way once the session requested one (`ResumeComes`), and the resume is not
  outdated when it arrives, because the epochs on the wire grow (`EpochsGrow`).

The theorems about the smaller components hold for any value of their constants, from
the assumptions of their modules.

- `EngineeringProofs`, the registry: `RegistryTypes`, `ApprovalHolds` and
  `ProblemsAreLinked` are inductive as they stand once memory and file are taken
  together: `Load` needs them of the file, `Save` of memory. `ApprovalHolds` needs that
  approval is never withdrawn and that every dispatched status is only entered from
  `ready` or from another one.
- `EngineeringProofs`, the harness: from `HarnessConstants` (no two tasks have one rank,
  rules are sequences of strings, a part with a wildcard fits some set of names, the
  bounds are positive) and any number of tasks,
  batches and deaths of the process. `PlanIsDetermined`: exactly one set meets `IsPlan`,
  so the characterisation describes a computation; the set is built along the
  ranks and two sets that differ differ at a task of least rank.
  `HarnessImplementsRegistry`: every step is an operation of the registry or leaves it
  alone, hence `HarnessAsksForApproval`.
  `WorkersAreApart`, `CandidatesAreVerified`, `BundlesAreDurable` and
  `RunningTasksAreOwned` are read off `HarnessInv`. None of the four is inductive: a
  candidate is verified because its gate saw the commit that is promoted, which
  depends on how far the thread is. `HarnessInv` says task by task (`TaskInv`) which
  status a task has at each step of its thread, what a passed gate left behind, that a
  verified record is backed by an admissible result in memory and in the file, that
  a bundle needs such a record in the file, and who owns a running status; and of two
  threads (`Apart`) that their paths meet at most where a glob
  takes one astray, as the plan took both (`PlanIsApart`) and of two rules without
  conflict that match one path, one is such a glob (`NoCommonPath`): every other
  match lies under the rule's prefix (`MatchUnderPrefix`), and of two prefixes of one
  path one begins the other (`PrefixesOfOnePath`).
- `VoiceInputProofs`: `LeaseComesBack` from `LeaseInv` (a connection has the lease while it
  is set up, served or shut down, and each step hands it on or back). `FinalsOnce` from
  `OnceInv`: whatever became a turn was entered (`Entered`), what waits in the transcriber
  and in the loop are the transcriber's own finals (`Waiting`), and if the id of
  the final that sleeps has been entered meanwhile, exactly one turn has it and that one
  was typed (`Asleep`). Typed messages may carry any id.
  `FramesArrive` from `FrameInv`: while a connection is served, the frame the loop has in
  hand is the first one that was not sent, and the queue goes on from there without a
  gap; it rests on the lease (one connection, one loop). `FinalsAreApart` from
  `ClaimInv`: episodes have numbers of their own, the active one is the youngest and
  unclaimed, and the episode an admitted final claimed stays claimed by it through every
  later frame, expiry, eviction and claim, until it is gone. The earliest episode the gate picks
  exists because a set of numbers has a least one. `InputTypes` from the types of the
  loop and the gate. Assumed: `InputQueueHasRoom`, `AdmissionConstants`, `ConnAssumption`.
- `SpeechProofs`, the stream: `SpokenByOne` and `MiscountedOnlyWhenFull` from `StreamInv`:
  the pin of the response that speaks is the youngest and never evicted, all voices it
  had are the pinned one, and the history only grows between two counts of it.
  `StreamTypes` adds the types of producer, packets and budget (`MakerTypes`).
- `SpeechProofs`, the yielding: `DuckUndone` and `YieldTypes` from `YieldInv`. That a duck
  has somebody to undo it needs that the episode is the latest one of this response,
  that the speaker of an uncut response was heard from onset to end, and that a
  resumed episode is not ducked.
- `CostLedgerProofs`: `CostTypes` and `CostIsAccounted` from `CostInv`, for any prices,
  rules, budget and queue. Its first part, `LedgerInv`, says where an event is: in a
  row, in the queue, in the thread's hand, in a notice on its way, or reported as lost;
  how far queue and thread are at each stage of the end; and that a summary is the sum
  of the rows there are. Its second part, `SumInv`, says that the sum of all
  estimates is the budget's total and the estimates it never sees (`Foreign`), and that
  what was wasted and what may still be wasted do not exceed that sum. Sums are folds over sets: the fold is shown to exist and not to depend on
  the order of its elements by induction on the size of the set, with the least-number
  principle, since the provers cannot instantiate the library's induction theorems.

`ServicesProofs` puts the five together as the run does. `ServicesAreTheComponents`:
`ServicesSpec` implies the specification of each component, because a step of one leaves
the variables of the others alone (`ServicesStep`); so every theorem about a component
holds in the composition that TLC explores. `ServicesTypes` is the one the run states
of all five together.

Every invariant and action property of a passing run is a theorem. Only model-checked:
liveness, because fairness and ENABLED are beyond the prover (`ResponsesEnd`, `WaitersWake`,
`HangUpReleases`); the claims of section 5 that the code does not keep are counterexamples of TLC.

## 7. Not modelled

`PROJECT.json` lists every part. Left out are the browser JavaScript outside the
player (capture, buttons, display, dashboard); text and number processing (slot
extraction, prosody, similarity, word lists), which the models take as inputs; HTTP
clients, message formats, configuration and pages; telemetry; transcript provenance,
an allow-list of values; and the offline scoring and replay tools in `development/`,
`quality/`, `finalization/` and `evaluation/`. Further attempts of a tool call are not
modelled because nothing configures them.

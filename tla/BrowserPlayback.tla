--------------------------- MODULE BrowserPlayback ---------------------------
(***************************************************************************)
(* The way of the assistant's audio to the listener's ear and back: the    *)
(* playback tasks of the server (web/transport.py), the WebSocket in both  *)
(* directions, and the player in the browser (web/static/app.js).  The     *)
(* session drives it the way runtime/session.py does: one response at a    *)
(* time, interrupted, ducked and resumed at any moment.                    *)
(*                                                                         *)
(* A chunk is identified by its response and its number.  Samples are      *)
(* abstracted to nothing, part or all of a chunk, clocks to time-outs.     *)
(***************************************************************************)
EXTENDS Naturals, Sequences, FiniteSets

CONSTANTS
    MaxResponses,   \* bound: responses of one connection
    MaxChunks,      \* bound: chunks of one response
    MaxOnsets       \* bound: soft-yield episodes of one response

ASSUME PlaybackBounds == MaxResponses \in Nat /\ MaxChunks \in Nat /\ MaxOnsets \in Nat

Responses == 1 .. MaxResponses
Numbers   == 1 .. MaxChunks
Ids       == Responses \X Numbers
Heard     == {"nothing", "part", "all"}

VARIABLES
    resp,       \* the session's response, 0 before the first
    mode,       \* per response: "pcm", or "speech" when the browser synthesizes
    synthesizer, \* the browser has speechSynthesis; fixed for the connection
    cancel,     \* its cancel event is set
    invalid,    \* it is in _invalidated_response_ids
    pepoch,     \* _playback_epoch
    task,       \* per chunk: where its play() waits
    started,    \* chunks whose started future is resolved
    stopped,    \* per chunk: its stopped future
    receipt,    \* per chunk: what the receipt of play() claims was heard
    episode,    \* the soft-yield episode: "none", "speech" or "quiet"
    resumed,    \* its resume was requested
    onsets,     \* episodes of the response so far
    live,       \* the transport is connected
    down, up,   \* messages under way to and from the browser
    sound,      \* per chunk, in the browser: absent, scheduled, audible, stopping, done
    owner,      \* activePlaybackOwner, 0 for null
    cancelled,  \* cancelledResponseIds
    stopAsked,  \* cancelledChunkIds
    epochOf,    \* responsePlaybackEpochs, 0 where there is none
    yielding,   \* softYieldResponseId, 0 for null
    gain,       \* gain of the playback node: "full", "ducked" or "muted"
    paused,     \* speechSynthesis is paused
    heard,      \* per chunk: what the listener really heard
    refused     \* history: chunks refused because another response owned playback

sessionVars == <<resp, mode, synthesizer, cancel, invalid, pepoch>>
taskVars    == <<task, started, stopped, receipt>>
yieldVars   == <<episode, resumed, onsets>>
playerVars  == <<sound, owner, cancelled, stopAsked, epochOf, yielding, gain, paused, heard, refused>>
vars == <<sessionVars, taskVars, yieldVars, live, down, up, playerVars>>

Message(kind, r, n) == [kind |-> kind, resp |-> r, chunk |-> n, epoch |-> pepoch]
Ack(kind, i, h)     == [kind |-> kind, id |-> i, heard |-> h]

\* outbound.put_nowait: what is sent after a disconnect is lost.
Send(messages) == down' = IF live THEN down \o messages ELSE down
CancelAudio(i) == <<Message("cancel_audio", i[1], i[2])>>

Waiting(i)  == task[i] \in {"waitStart", "waitStop", "waitEnd"}    \* i is in _pending
Over(i)     == task[i] \in {"none", "ended", "failed"}
Current(i)  == i[1] = resp
ResponseOver == \A i \in Ids : Current(i) => Over(i)

-----------------------------------------------------------------------------
(* The session. *)

\* A response begins when the one before it is over.
BeginResponse ==
    /\ resp < MaxResponses
    /\ ResponseOver
    /\ resp' = resp + 1
    /\ cancel' = FALSE
    /\ invalid' = FALSE
    /\ episode' = "none"
    /\ resumed' = FALSE
    /\ onsets' = 0
    /\ UNCHANGED <<mode, synthesizer, pepoch, taskVars, live, down, up, playerVars>>

\* _run_response schedules the next chunk of a response that still has audio.
Schedule(i) ==
    /\ Current(i)
    /\ ~invalid
    /\ task[i] = "none"
    /\ \A n \in 1 .. (i[2] - 1) : task[<<i[1], n>>] # "none"
    /\ task' = [task EXCEPT ![i] = "created"]
    /\ UNCHANGED <<sessionVars, started, stopped, receipt, yieldVars, live, down, up, playerVars>>

\* mutant: the caller that finds the event set interrupts once more
InterruptAgain ==
    /\ resp # 0 /\ ~ResponseOver
    /\ cancel' = TRUE
    /\ invalid' = TRUE
    /\ pepoch' = pepoch + 1
    /\ Send(<<[Message("invalidate", resp, 0) EXCEPT !.epoch = pepoch + 1]>>)
    /\ UNCHANGED <<resp, mode, synthesizer, taskVars, yieldVars, live, up, playerVars>>

\* interrupt(): invalidate_response, then the cancel event.
Interrupt ==
    /\ resp # 0 /\ ~ResponseOver
    /\ ~cancel
    /\ cancel' = TRUE
    /\ invalid' = TRUE
    /\ pepoch' = pepoch + 1
    /\ Send(<<[Message("invalidate", resp, 0) EXCEPT !.epoch = pepoch + 1]>>)
    /\ UNCHANGED <<resp, mode, synthesizer, taskVars, yieldVars, live, up, playerVars>>

\* The response fails: the cancel event alone.
FailResponse ==
    /\ resp # 0 /\ ~ResponseOver
    /\ ~cancel
    /\ cancel' = TRUE
    /\ UNCHANGED <<resp, mode, synthesizer, invalid, pepoch, taskVars, yieldVars, live, down, up,
                   playerVars>>

\* Speech onset over a response: a new episode unless the user still speaks.
SpeechOnset ==
    /\ resp # 0 /\ ~ResponseOver
    /\ episode # "speech"
    /\ onsets < MaxOnsets
    /\ episode' = "speech"
    /\ resumed' = FALSE
    /\ onsets' = onsets + 1
    /\ IF invalid THEN UNCHANGED down ELSE Send(<<Message("duck", resp, 0)>>)
    /\ UNCHANGED <<sessionVars, taskVars, live, up, playerVars>>

SpeechEnds ==
    /\ episode = "speech"
    /\ ~ResponseOver
    /\ episode' = "quiet"
    /\ UNCHANGED <<sessionVars, taskVars, resumed, onsets, live, down, up, playerVars>>

\* The resume timer of a quiet episode fires, or a backchannel is recognised.
Resume ==
    /\ episode # "none"
    /\ ~resumed
    /\ ~cancel
    /\ resumed' = TRUE
    /\ IF invalid THEN UNCHANGED down ELSE Send(<<Message("resume", resp, 0)>>)
    /\ UNCHANGED <<sessionVars, taskVars, episode, onsets, live, up, playerVars>>

Session ==
    \/ BeginResponse
    \/ \E i \in Ids : Schedule(i)
    \/ Interrupt \/ FailResponse
    \/ SpeechOnset \/ SpeechEnds \/ Resume

-----------------------------------------------------------------------------
(* play() *)

Finish(i, claim) ==
    /\ task' = [task EXCEPT ![i] = "ended"]
    /\ receipt' = [receipt EXCEPT ![i] = claim]

BesidesPlay == <<sessionVars, started, stopped, yieldVars, live, up, playerVars>>

\* An invalidated response gets its receipt at once.
PlayRefuses(i) ==
    /\ task[i] = "created"
    /\ invalid
    /\ Finish(i, "nothing")
    /\ UNCHANGED <<BesidesPlay, down>>

PlaySends(i) ==
    /\ task[i] = "created"
    /\ ~invalid
    /\ task' = [task EXCEPT ![i] = "waitStart"]
    /\ Send(<<Message("audio", i[1], i[2])>>)
    /\ UNCHANGED <<BesidesPlay, receipt>>

\* The start is acknowledged, or the cancel event ends the wait for it; under a
\* cancel the browser is asked to stop, and only its stop is waited for.
PlayStarts(i) ==
    /\ task[i] = "waitStart"
    /\ i \in started \/ cancel
    /\ task' = [task EXCEPT ![i] = IF cancel THEN "waitEnd" ELSE "waitStop"]
    /\ Send((IF i \notin started THEN CancelAudio(i) ELSE <<>>)
            \o (IF cancel /\ stopped[i] = "open" THEN CancelAudio(i) ELSE <<>>))
    /\ UNCHANGED <<BesidesPlay, receipt>>

\* The stop, the cancel event or the time-out ends the first wait for the stop.
PlayLeavesWait(i) ==
    /\ task[i] = "waitStop"
    /\ task' = [task EXCEPT ![i] = "waitEnd"]
    /\ IF cancel /\ stopped[i] = "open" THEN Send(CancelAudio(i)) ELSE UNCHANGED down
    /\ UNCHANGED <<BesidesPlay, receipt>>

PlayEnds(i) ==
    /\ task[i] = "waitEnd"
    /\ stopped[i] # "open"
    /\ Finish(i, stopped[i])
    /\ UNCHANGED <<BesidesPlay, down>>

\* Neither the start nor a cancel, or no stop, within the time-out.
PlayTimesOut(i) ==
    /\ \/ task[i] = "waitStart" /\ i \notin started /\ ~cancel
       \/ task[i] = "waitEnd" /\ stopped[i] = "open"
    /\ task' = [task EXCEPT ![i] = "failed"]
    /\ UNCHANGED <<BesidesPlay, receipt, down>>

Play(i) == PlayRefuses(i) \/ PlaySends(i) \/ PlayStarts(i) \/ PlayLeavesWait(i)
               \/ PlayEnds(i) \/ PlayTimesOut(i)

\* acknowledge(): a stop resolves the start as well; only the first stop of a
\* chunk that is still waited for counts.
Resolve(i, claim) ==
    /\ started' = started \union {i}
    /\ stopped' = [stopped EXCEPT ![i] = IF @ = "open" THEN claim ELSE @]

Acknowledge ==
    /\ up # <<>>
    /\ up' = Tail(up)
    /\ LET ack == Head(up) IN
       IF ~Waiting(ack.id) THEN UNCHANGED <<started, stopped>>
       ELSE IF ack.kind = "started"
            THEN started' = started \union {ack.id} /\ UNCHANGED stopped
            ELSE Resolve(ack.id, ack.heard)
    /\ UNCHANGED <<sessionVars, task, receipt, yieldVars, live, down, playerVars>>

\* mutant: a lost transport counts as completed playback
LostAsPlayed == "all"
LostReceipt  == "nothing"

\* The connection is lost with everything under way; disconnect() releases the
\* playbacks that are pending at that moment, no later ones.
Disconnect ==
    /\ live
    /\ live' = FALSE
    /\ down' = <<>>
    /\ up' = <<>>
    /\ started' = started \union {i \in Ids : Waiting(i)}
    /\ stopped' = [i \in Ids |-> IF Waiting(i) /\ stopped[i] = "open"
                                 THEN LostReceipt ELSE stopped[i]]
    /\ UNCHANGED <<sessionVars, task, receipt, yieldVars, playerVars>>

-----------------------------------------------------------------------------
(* The player in the browser. *)

ActiveAudio == {i \in Ids : sound[i] \in {"scheduled", "audible", "stopping"}}
ServerVars  == <<sessionVars, taskVars, yieldVars, live>>

KeepOwner(i) == UNCHANGED owner     \* mutant: the owner is not released

\* The last active sound releases the ownership of playback.
ReleaseOwner(i) == owner' = IF ActiveAudio = {i} THEN 0 ELSE owner

\* A chunk of a cancelled or outdated response is refused, as is one while
\* another response owns playback; what another kind of provider plays belongs to
\* another response.
Stale(m) == m.resp \in cancelled \/ m.epoch < epochOf[m.resp]
Foreign(m) == owner \notin {0, m.resp}

\* mutant: the gain is only reset when nobody yielded
KeepGain(r) == gain
GainFor(r)  == IF mode[r] = "pcm" /\ yielding # r THEN "full" ELSE gain

\* The browser sounds what it takes, unless it would have to speak and cannot.
\* Then it acknowledges the stop of a chunk it owns already: with no sound to end,
\* nothing releases this ownership any more.
TakeAudio(m, i) ==
    LET taken  == ~Stale(m) /\ ~Foreign(m)
        sounds == taken /\ (mode[m.resp] = "speech" => synthesizer) IN
    /\ up'      = IF sounds THEN up ELSE Append(up, Ack("stopped", i, "nothing"))
    /\ sound'   = IF sounds THEN [sound EXCEPT ![i] = "scheduled"] ELSE sound
    /\ gain'    = IF sounds THEN GainFor(m.resp) ELSE gain
    /\ owner'   = IF taken THEN m.resp ELSE owner
    /\ epochOf' = IF Stale(m) THEN epochOf ELSE [epochOf EXCEPT ![m.resp] = m.epoch]
    /\ refused' = IF Foreign(m) /\ ~Stale(m) THEN refused \union {i} ELSE refused

\* mutant: the stop is acknowledged when it is requested
StopAtOnce(i) ==
    /\ up' = Append(up, Ack("stopped", i, "nothing"))
    /\ sound' = [sound EXCEPT ![i] = IF @ \in {"scheduled", "audible"} THEN "stopping" ELSE @]
    /\ cancelled' = cancelled \union {i[1]}

\* cancelAudio(): each chunk is stopped once; one that does not sound is
\* acknowledged at once, any other when its source has stopped.
StopSound(i) ==
    IF i \in stopAsked THEN UNCHANGED <<up, sound, cancelled>>
    ELSE IF sound[i] \notin {"scheduled", "audible"}
    THEN up' = Append(up, Ack("stopped", i, "nothing")) /\ UNCHANGED <<sound, cancelled>>
    ELSE /\ sound' = [sound EXCEPT ![i] = "stopping"]
         /\ cancelled' = cancelled \union {i[1]}
         /\ UNCHANGED up

\* invalidatePlayback(): nothing of the response is taken any more, its sounds
\* are stopped, and the node is mute until the next response.
Invalidate(m) ==
    LET playing == {i \in Ids : i[1] = m.resp /\ sound[i] \in {"scheduled", "audible"}} IN
    /\ epochOf' = [epochOf EXCEPT ![m.resp] = IF @ < m.epoch THEN m.epoch ELSE @]
    /\ cancelled' = cancelled \union {m.resp}
    /\ stopAsked' = stopAsked \union (ActiveAudio \intersect {i \in Ids : i[1] = m.resp})
    /\ sound' = [i \in Ids |-> IF i \in playing THEN "stopping" ELSE sound[i]]
    /\ yielding' = 0
    /\ gain' = "muted"

\* duckPlayback(): only the owner yields; synthesized speech is paused.
Duck(m) ==
    IF owner # m.resp \/ m.epoch < epochOf[m.resp] \/ m.resp \in cancelled
    THEN UNCHANGED <<yielding, gain, paused>>
    ELSE /\ yielding' = m.resp
         /\ gain' = "ducked"
         /\ paused' = (paused \/ (mode[m.resp] = "speech" /\ ActiveAudio # {}))

\* mutant: only the owner of playback is resumed
ResumeOwner(m) ==
    IF m.resp \in cancelled \/ owner # m.resp \/ m.epoch < epochOf[m.resp]
    THEN UNCHANGED <<yielding, gain, paused>>
    ELSE gain' = "full" /\ paused' = FALSE /\ yielding' = 0

\* resumePlayback(): it restores the gain, then fails where speechSynthesis is
\* missing, with the yield still noted.
Unduck(m) ==
    IF m.resp \in cancelled \/ yielding # m.resp \/ m.epoch < epochOf[m.resp]
    THEN UNCHANGED <<yielding, gain, paused>>
    ELSE /\ gain' = "full"
         /\ IF synthesizer THEN paused' = FALSE /\ yielding' = 0 ELSE UNCHANGED <<yielding, paused>>

\* socket.onmessage.  The samples of a chunk follow its announcement without
\* anything in between, so both are one message here.
Receive(m) ==
    LET i == <<m.resp, m.chunk>> IN
    CASE m.kind = "audio" ->
           TakeAudio(m, i) /\ UNCHANGED <<cancelled, stopAsked, yielding, paused, heard>>
      [] m.kind = "cancel_audio" ->
           StopSound(i) /\ stopAsked' = stopAsked \union {i}
           /\ UNCHANGED <<owner, epochOf, yielding, gain, paused, heard, refused>>
      [] m.kind = "invalidate" ->
           Invalidate(m) /\ UNCHANGED <<up, owner, paused, heard, refused>>
      [] m.kind = "duck" ->
           Duck(m) /\ UNCHANGED <<up, sound, owner, cancelled, stopAsked, epochOf, heard, refused>>
      [] OTHER ->
           Unduck(m) /\ UNCHANGED <<up, sound, owner, cancelled, stopAsked, epochOf, heard, refused>>

OnMessage ==
    /\ down # <<>>
    /\ down' = Tail(down)
    /\ Receive(Head(down))
    /\ UNCHANGED ServerVars

BesidesSound == <<ServerVars, down, cancelled, stopAsked, epochOf, yielding, gain, paused, refused>>

Speech(i) == mode[i[1]] = "speech"
Leave(i)  == sound' = [sound EXCEPT ![i] = "done"] /\ ReleaseOwner(i)

\* A sound begins after the one scheduled before it; paused speech does not.
Begins(i) ==
    /\ live
    /\ sound[i] = "scheduled"
    /\ \A n \in 1 .. (i[2] - 1) : sound[<<i[1], n>>] # "scheduled"
    /\ ~(Speech(i) /\ paused)
    /\ sound' = [sound EXCEPT ![i] = "audible"]
    /\ heard' = [heard EXCEPT ![i] = "part"]
    /\ up' = Append(up, Ack("started", i, "nothing"))
    /\ UNCHANGED <<BesidesSound, owner>>

\* It plays to its end, the pause after it included.
PlaysOut(i) ==
    /\ live
    /\ sound[i] = "audible"
    /\ ~(Speech(i) /\ paused)
    /\ heard' = [heard EXCEPT ![i] = "all"]
    /\ Leave(i)
    /\ up' = Append(up, Ack("completed", i, "all"))
    /\ UNCHANGED BesidesSound

\* A stopped source ends; stopped speech counts as not heard at all.
FallsSilent(i) ==
    /\ live
    /\ sound[i] = "stopping"
    /\ Leave(i)
    /\ up' = Append(up, Ack("stopped", i, IF Speech(i) THEN "nothing" ELSE heard[i]))
    /\ UNCHANGED <<BesidesSound, heard>>

\* Speech synthesis reports an error.
SpeechErrs(i) ==
    /\ live
    /\ Speech(i)
    /\ sound[i] \in {"scheduled", "audible"}
    /\ Leave(i)
    /\ up' = Append(up, Ack("stopped", i, "nothing"))
    /\ UNCHANGED <<BesidesSound, heard>>

Player == OnMessage \/ \E i \in Ids : Begins(i) \/ PlaysOut(i) \/ FallsSilent(i) \/ SpeechErrs(i)

-----------------------------------------------------------------------------
Init ==
    /\ resp = 0 /\ cancel = FALSE /\ invalid = FALSE /\ pepoch = 0
    /\ mode \in [Responses -> {"pcm", "speech"}]
    /\ synthesizer \in BOOLEAN
    /\ task = [i \in Ids |-> "none"]
    /\ started = {}
    /\ stopped = [i \in Ids |-> "open"]
    /\ receipt = [i \in Ids |-> "none"]
    /\ episode = "none" /\ resumed = FALSE /\ onsets = 0
    /\ live = TRUE /\ down = <<>> /\ up = <<>>
    /\ sound = [i \in Ids |-> "absent"]
    /\ owner = 0
    /\ cancelled = {} /\ stopAsked = {}
    /\ epochOf = [r \in Responses |-> 0]
    /\ yielding = 0 /\ gain = "full" /\ paused = FALSE
    /\ heard = [i \in Ids |-> "nothing"]
    /\ refused = {}

Next ==
    \/ Session
    \/ \E i \in Ids : Play(i)
    \/ Acknowledge
    \/ Disconnect
    \/ Player

Spec == Init /\ [][Next]_vars

-----------------------------------------------------------------------------
(* Properties. *)

\* Types of the output, the wire and the player.
TypeOK ==
    /\ resp \in 0 .. MaxResponses /\ pepoch \in 0 .. MaxResponses
    /\ mode \in [Responses -> {"pcm", "speech"}]
    /\ synthesizer \in BOOLEAN /\ cancel \in BOOLEAN /\ invalid \in BOOLEAN /\ resumed \in BOOLEAN
    /\ live \in BOOLEAN /\ paused \in BOOLEAN
    /\ task \in [Ids -> {"none", "created", "waitStart", "waitStop", "waitEnd", "ended", "failed"}]
    /\ started \subseteq Ids /\ stopAsked \subseteq Ids /\ refused \subseteq Ids
    /\ stopped \in [Ids -> Heard \union {"open"}]
    /\ receipt \in [Ids -> Heard \union {"none"}]
    /\ heard \in [Ids -> Heard]
    /\ episode \in {"none", "speech", "quiet"} /\ onsets \in 0 .. MaxOnsets
    /\ sound \in [Ids -> {"absent", "scheduled", "audible", "stopping", "done"}]
    /\ owner \in 0 .. MaxResponses /\ yielding \in 0 .. MaxResponses
    /\ cancelled \subseteq Responses
    /\ epochOf \in [Responses -> 0 .. MaxResponses]
    /\ gain \in {"full", "ducked", "muted"}

\* A chunk whose play() returned makes no sound any more while the browser is
\* there: the session may begin the next response over silence.
EndedIsSilent == \A i \in Ids : live /\ task[i] = "ended" => sound[i] \in {"absent", "done"}

\* Browser speech reached a browser that cannot speak.
Unspoken(j) == ~synthesizer /\ Speech(j) /\ task[j] \notin {"none", "created"}

\* The browser refuses a chunk for the sake of an earlier response only when the
\* server had given up on a chunk of that one without an acknowledgement, or when
\* that response was browser speech in a browser without speechSynthesis, which
\* playOutput() owns and never releases.
RefusedForCause ==
    \A i \in refused : \E j \in Ids : j[1] < i[1] /\ (task[j] = "failed" \/ Unspoken(j))

\* What the invalidation of an earlier response muted is no audio of this one.
NeverMuted ==
    \A i \in Ids :
        Current(i) /\ sound[i] = "audible" /\ i[1] \notin cancelled /\ ~Speech(i)
        => gain # "muted"

YieldUnderWay == \E n \in DOMAIN down : down[n].kind \in {"duck", "resume"}

\* Once a resume has reached the browser, what the response plays on is neither
\* soft nor paused, even when nothing sounded at the moment it arrived.
ResumeRestores ==
    live /\ resumed /\ ~YieldUnderWay =>
        \A i \in Ids : Current(i) /\ sound[i] = "audible" /\ i[1] \notin cancelled =>
            IF Speech(i) THEN ~paused ELSE gain = "full"

\* The life the contract gives each chunk.
Life(i) ==
    CASE task[i] = "waitStart"             -> "starting"
      [] task[i] \in {"waitStop", "waitEnd"} -> "sounding"
      [] OTHER                             -> task[i]

Contract == INSTANCE PlaybackContract WITH life <- [i \in Ids |-> Life(i)]

\* The output and the player together keep the contract: one receipt per chunk,
\* in order, and never for more than was heard.
KeepsContract == Contract!ContractSpec

-----------------------------------------------------------------------------
(* What the documents say and the code does not do. *)

\* docs/LIVE_BROWSER_PIPELINE.md has browser speech handle transient failures of
\* the primary voice: nothing but its own soft yield may hold it back.  Speech
\* that was paused when its response was invalidated is never resumed, and all
\* later browser speech waits behind the pause, though every play() before it
\* ended with its receipt.
FallbackSpeaks ==
    \A i \in Ids :
        /\ Current(i) /\ Speech(i) /\ sound[i] = "scheduled"
        /\ \A j \in Ids : j[1] < resp => task[j] \in {"none", "ended"}
        => ~paused \/ yielding = i[1] \/ i[1] \in cancelled

=============================================================================

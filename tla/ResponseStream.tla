--------------------------- MODULE ResponseStream ---------------------------
(* How the words of a response become audio: the reasoner that yields       *)
(* fragments and remembers the exchange (runtime/anthropic_provider.py),    *)
(* the segments of a fragment, each synthesized with at most one retry      *)
(* (runtime/session.py), and behind the one synthesizer of the session the  *)
(* fallback, the gapless buffer and the ElevenLabs stream with its producer *)
(* (runtime/elevenlabs_provider.py, runtime/providers.py).                  *)
EXTENDS Naturals, Sequences, FiniteSets, SequencesExt

CONSTANTS
    Remembered,     \* max_history_turns
    WireSize,       \* maxsize of the packet queue
    Pins,           \* responses whose provider the fallback remembers
    MaxChars,       \* maximum_input_characters, in requests
    MaxAirtime,     \* maximum_audio_seconds, in packets
    MaxTalks, MaxFragments, MaxSegments, MaxPackets  \* bounds

ASSUME StreamConstants ==
    {Remembered, WireSize, Pins, MaxChars, MaxAirtime} \subseteq Nat \ {0}

ASSUME StreamBounds == {MaxTalks, MaxFragments, MaxSegments, MaxPackets} \subseteq Nat

VARIABLES
    talk,     \* the response task: _run_response
    memory,   \* exchanges in the reasoner's history
    voice1,   \* the provider of the chunk in hand
    active,   \* _active_tts_provider
    voices,   \* history: providers of the response's scheduled audio
    pins,     \* _response_provider, oldest first
    maker,    \* _produce_pcm: none, asked, reading or done
    wire,     \* its queue of packets
    made,     \* packets of this request so far
    got,      \* the gapless buffer has the final packet
    budget    \* SynthesisBudget of the process

streamVars == <<talk, memory, voice1, active, voices, pins, maker, wire, made, got, budget>>

NoVoice == "none"

StreamInit ==
    /\ talk = [n |-> 0, pc |-> "idle", kind |-> "model", frags |-> 0, segs |-> 0, retried |-> FALSE,
               first |-> TRUE, cancel |-> FALSE, before |-> 0, how |-> "none"]
    /\ memory = 0 /\ voice1 = NoVoice /\ active = NoVoice /\ voices = {} /\ pins = <<>>
    /\ maker = "none" /\ wire = <<>> /\ made = 0 /\ got = FALSE
    /\ budget = [chars |-> 0, airtime |-> 0]

synthVars == <<voice1, pins, maker, wire, made, got, budget>>
speechVars == <<active, voices>>

Goes(pc) == talk' = [talk EXCEPT !.pc = pc]

\* The exception handler sets the cancel event, whatever went wrong.
Breaks(how) == talk' = [talk EXCEPT !.pc = "finish", !.cancel = TRUE, !.how = how]

-----------------------------------------------------------------------------
(* The reasoner, and the response task around it. *)

\* _history keeps the last exchanges only.
Remember1(m) == IF m < Remembered THEN m + 1 ELSE m

\* _begin_response: the exchanges are counted before the task begins.
BeginTalk ==
    /\ talk.pc = "idle" /\ talk.n < MaxTalks
    /\ \E kind \in {"authoritative", "model"} :
          talk' = [n |-> talk.n + 1, pc |-> "reason", kind |-> kind, frags |-> 0, segs |-> 0,
                   retried |-> FALSE, first |-> TRUE, cancel |-> FALSE, before |-> memory, how |-> "none"]
    /\ voices' = {}
    /\ UNCHANGED <<memory, active, synthVars>>

\* interrupt(), as far as the response task sees it.
InterruptTalk ==
    /\ talk.pc \notin {"idle", "finish"} /\ ~talk.cancel
    /\ talk' = [talk EXCEPT !.cancel = TRUE]
    /\ UNCHANGED <<memory, speechVars, synthVars>>

\* mutant: the exchange is in the history while it streams
RememberAtOnce(m) == Remember1(m)

\* The model's exchange is not in the history while it streams.
RememberLater(m) == m

\* Fragments of a reply, and the segments a fragment is planned into.
Fragments(kind) == IF kind = "model" THEN MaxFragments ELSE 1
Segments == 1 .. MaxSegments

\* A fragment, or the closing question when there was no text at all.  What the
\* database decided is remembered before it is spoken.  An interrupted task
\* leaves the reasoner at its fragment.
ReasonerSpeaks ==
    /\ talk.pc = "reason"
    /\ talk.frags < Fragments(talk.kind)
    /\ \E k \in Segments :
          talk' = IF talk.cancel THEN [talk EXCEPT !.pc = "finish"]
                  ELSE [talk EXCEPT !.pc = "segment", !.frags = @ + 1, !.segs = k]
    /\ memory' = IF talk.kind = "model" THEN RememberLater(memory) ELSE Remember1(memory)
    /\ UNCHANGED <<speechVars, synthVars>>

\* The model's own words are remembered when its stream is over.
ReasonerStops ==
    /\ talk.pc = "reason" /\ talk.frags > 0
    /\ memory' = IF talk.kind = "model" THEN Remember1(memory) ELSE memory
    /\ Goes("drain")
    /\ UNCHANGED <<speechVars, synthVars>>

ReasonerBreaks ==
    /\ talk.pc = "reason" /\ talk.kind = "model"
    /\ Breaks("failed")
    /\ UNCHANGED <<memory, speechVars, synthVars>>

\* All playback is over, or one of its tasks raises; then the user's side of the
\* history must have grown by one.
Drained ==
    /\ talk.pc = "drain"
    /\ \/ talk.cancel /\ Goes("finish")
       \/ Breaks("failed")
       \/ ~talk.cancel /\ memory # talk.before + 1 /\ Breaks("miscounted")
       \/ /\ ~talk.cancel /\ memory = talk.before + 1
          /\ talk' = [talk EXCEPT !.pc = "finish", !.how = "completed"]
    /\ UNCHANGED <<memory, speechVars, synthVars>>

\* finally: _release_playback_owner
FinishTalk ==
    /\ talk.pc = "finish"
    /\ Goes("idle")
    /\ active' = NoVoice
    /\ UNCHANGED <<memory, voices, synthVars>>

-----------------------------------------------------------------------------
(* One segment: FallbackStreamingTTSProvider.stream_speech. *)

Pinned ==
    IF \E i \in DOMAIN pins : pins[i].n = talk.n
    THEN (CHOOSE p \in Range(pins) : p.n = talk.n).voice ELSE NoVoice

\* _pin_response_provider, and its eviction of the oldest.
Pin(voice) ==
    IF Pinned # NoVoice THEN pins
    ELSE LET grown == Append(pins, [n |-> talk.n, voice |-> voice])
         IN  IF Len(grown) > Pins THEN Tail(grown) ELSE grown

\* An exception of the speech stream: before any audio the same segment is tried
\* once more, else the response fails.
SpeechFails(how) ==
    /\ IF talk.first /\ ~talk.cancel /\ ~talk.retried
       THEN talk' = [talk EXCEPT !.pc = "segment", !.retried = TRUE]
       ELSE Breaks(how)
    /\ UNCHANGED <<pins, voice1>>

\* mutant: the fallback speaks on where the primary stopped
FallsBackAlways(error) ==
    IF talk.cancel \/ error = "refused"
    THEN SpeechFails("failed")
    ELSE Goes("browser") /\ UNCHANGED <<pins, voice1>>

\* The browser speaks a segment only if the primary failed before the response
\* had any audio of it, and was not told that the request itself is wrong.
FallsBack(error) ==
    IF talk.cancel \/ Pinned = "primary" \/ error = "refused"
    THEN SpeechFails("failed")
    ELSE Goes("browser") /\ UNCHANGED <<pins, voice1>>

\* The primary's stream is closed, and its producer cancelled.
MakerGone == maker' = "none" /\ wire' = <<>> /\ made' = 0 /\ got' = FALSE

\* The stream yields the segment's one chunk, under the provider's pin.
Yields(voice) ==
    IF Pinned \notin {NoVoice, voice} THEN SpeechFails("changed")
    ELSE /\ pins' = Pin(voice) /\ voice1' = voice
         /\ Goes("chunk")

OpenSpeech ==
    /\ talk.pc = "segment"
    /\ UNCHANGED <<memory, speechVars>>
    /\ \/ talk.cancel /\ Goes("finish") /\ UNCHANGED synthVars
       \/ /\ ~talk.cancel /\ Pinned = "browser"
          /\ Goes("browser")
          /\ UNCHANGED synthVars
       \/ /\ ~talk.cancel /\ Pinned # "browser" /\ budget.chars < MaxChars
          /\ budget' = [budget EXCEPT !.chars = @ + 1]
          /\ maker' = "asked" /\ wire' = <<>> /\ made' = 0 /\ got' = FALSE
          /\ Goes("primary")
          /\ UNCHANGED <<pins, voice1>>
       \/ /\ ~talk.cancel /\ Pinned # "browser" /\ budget.chars = MaxChars
          /\ FallsBack("budget")
          /\ UNCHANGED <<maker, wire, made, got, budget>>

\* BrowserSpeechSynthesisAdapter
BrowserSpeaks ==
    /\ talk.pc = "browser"
    /\ \/ talk.cancel /\ Goes("finish") /\ UNCHANGED <<pins, voice1>>
       \/ ~talk.cancel /\ Yields("browser")
    /\ UNCHANGED <<memory, speechVars, maker, wire, made, got, budget>>

\* wait_for around the first chunk of the response.
FirstAudioLate ==
    /\ talk.pc \in {"primary", "browser"} /\ talk.first /\ ~talk.cancel
    /\ SpeechFails("failed")
    /\ MakerGone
    /\ UNCHANGED <<memory, speechVars, budget>>

\* _accept_audio_chunk, once there is room for it: a second provider is refused.
TakeVoice ==
    /\ talk.pc = "chunk"
    /\ \/ talk.cancel /\ Goes("finish") /\ UNCHANGED speechVars
       \/ ~talk.cancel /\ Breaks("failed") /\ UNCHANGED speechVars
       \/ /\ ~talk.cancel /\ active \notin {NoVoice, voice1}
          /\ Breaks("clash")
          /\ UNCHANGED speechVars
       \/ /\ ~talk.cancel /\ active \in {NoVoice, voice1}
          /\ active' = voice1 /\ voices' = voices \cup {voice1}
          /\ talk' = [talk EXCEPT !.first = FALSE, !.retried = FALSE, !.segs = @ - 1,
                                  !.pc = IF talk.segs > 1 THEN "segment" ELSE "reason"]
    /\ UNCHANGED <<memory, synthVars>>

-----------------------------------------------------------------------------
(* ElevenLabsStreamingTTSProvider: the producer, and the buffer that reads it. *)

Room == Len(wire) < WireSize

\* The end marker does not wait for room: in a full queue it is lost.
WithEnd(q) == IF Len(q) < WireSize THEN Append(q, "end") ELSE q

makerRests == <<talk, memory, speechVars, voice1, pins, got>>

MakerAnswered ==
    /\ maker = "asked"
    /\ \/ maker' = "reading" /\ UNCHANGED wire
       \/ \E error \in {"refused", "busy"} : maker' = "done" /\ wire' = WithEnd(<<error>>)
    /\ UNCHANGED <<made, budget, makerRests>>

MakerReads ==
    /\ maker = "reading" /\ Room /\ made < MaxPackets
    /\ \/ /\ ~talk.cancel /\ budget.airtime < MaxAirtime
          /\ wire' = Append(wire, "pcm")
          /\ made' = made + 1 /\ budget' = [budget EXCEPT !.airtime = @ + 1]
          /\ UNCHANGED maker
       \/ /\ budget.airtime = MaxAirtime
          /\ maker' = "done" /\ wire' = WithEnd(Append(wire, "exhausted"))
          /\ UNCHANGED <<made, budget>>
    /\ UNCHANGED makerRests

\* The body ends: its last packet, or an error when there was none; or it breaks off.
MakerEnds ==
    /\ maker = "reading" /\ Room
    /\ maker' = "done"
    /\ \/ /\ ~talk.cancel /\ budget.airtime < MaxAirtime
          /\ wire' = WithEnd(Append(wire, "last"))
          /\ budget' = [budget EXCEPT !.airtime = @ + 1]
       \/ wire' = WithEnd(Append(wire, "broken")) /\ UNCHANGED budget
       \/ talk.cancel /\ wire' = WithEnd(wire) /\ UNCHANGED budget
    /\ UNCHANGED <<made, makerRests>>

\* One round of stream_speech, and GaplessSegmentTTSProvider over it.
TakePacket ==
    /\ talk.pc = "primary" /\ ~talk.cancel /\ wire # <<>>
    /\ \/ /\ Head(wire) \in {"pcm", "last"}
          /\ got' = (Head(wire) = "last") /\ wire' = Tail(wire)
          /\ UNCHANGED <<talk, pins, voice1, maker, made>>
       \/ /\ Head(wire) = "end" /\ got
          /\ Yields("primary")
          /\ MakerGone
       \/ /\ Head(wire) \notin {"pcm", "last", "end"}
          /\ FallsBack(Head(wire))
          /\ MakerGone
    /\ UNCHANGED <<memory, speechVars, budget>>

\* elevenlabs_request_timeout, which also ends the wait for a lost end marker.
RequestLate ==
    /\ talk.pc = "primary" /\ ~talk.cancel
    /\ FallsBack("late")
    /\ MakerGone
    /\ UNCHANGED <<memory, speechVars, budget>>

PrimaryCancelled ==
    /\ talk.pc = "primary" /\ talk.cancel
    /\ Goes("finish")
    /\ MakerGone
    /\ UNCHANGED <<memory, speechVars, pins, voice1, budget>>

StreamNext ==
    \/ BeginTalk \/ InterruptTalk \/ ReasonerSpeaks \/ ReasonerStops \/ ReasonerBreaks
    \/ Drained \/ FinishTalk
    \/ OpenSpeech \/ BrowserSpeaks \/ FirstAudioLate \/ TakeVoice
    \/ MakerAnswered \/ MakerReads \/ MakerEnds
    \/ TakePacket \/ RequestLate \/ PrimaryCancelled

StreamSpec == StreamInit /\ [][StreamNext]_streamVars

-----------------------------------------------------------------------------
StreamTypeOK ==
    /\ talk.pc \in {"idle", "reason", "segment", "primary", "browser", "chunk", "drain", "finish"}
    /\ talk.how \in {"none", "failed", "clash", "changed", "miscounted", "completed"}
    /\ memory \in 0 .. Remembered /\ Len(pins) <= Pins /\ Len(wire) <= WireSize
    /\ budget.chars <= MaxChars /\ budget.airtime <= MaxAirtime
    /\ maker # "none" => talk.pc = "primary"

\* A response has one voice: whatever fails, times out or is tried again between
\* its segments, its audio comes from one provider, and the checks that would
\* fail it for a second one never strike (FallbackStreamingTTSProvider,
\* _accept_audio_chunk).
OneVoice ==
    /\ Cardinality(voices) <= 1
    /\ talk.how \notin {"clash", "changed"}

\* A response that was spoken to its end is reported as failed exactly when the
\* history was full as it began: the trimmed history does not grow, and the
\* check of one user message per turn takes that for a lost one
\* (_run_response, AnthropicReasoner.stream_response).
OnlyFullHistoryMiscounts ==
    talk.how \in {"completed", "miscounted"} =>
        (talk.how = "miscounted" <=> talk.before = Remembered)
=============================================================================

--------------------------- MODULE SpeechAdmission ---------------------------
(* FinalTranscriptAdmissionGate (runtime/final_admission.py): the speech    *)
(* episodes that the microphone's frames form, and the one episode that a   *)
(* final transcript must claim before it may become a turn.  Durations are  *)
(* counted in frames; the adaptive noise floor and the levels of a frame    *)
(* are abstracted to what the gate makes of them: quiet, voice or loud.     *)
EXTENDS Naturals, Sequences, FiniteSets, SequencesExt, FiniteSetsExt

CONSTANTS
    Short,       \* minimum_short_utterance_voiced_ms
    Recovery,    \* minimum_recovery_voiced_ms
    Needed,      \* required_voiced_ms of a text of four tokens or more
    Span,        \* the span that recovery asks for
    Strong,      \* voiced_duration_ms of strong_independent_user_evidence
    Release,     \* release_silence_ms
    Window,      \* finalization_window_ms
    MaxEpisodes  \* maximum_episodes

\* The checks of __init__, and the order of the values it is built with.
ASSUME AdmissionConstants ==
    /\ {Short, Recovery, Needed, Span, Strong, Release, MaxEpisodes} \subseteq Nat \ {0}
    /\ Window \in Nat
    /\ Short <= Recovery /\ Short <= Needed /\ Release <= Window

Level == {"quiet", "voice", "loud"}

\* A text has at most three tokens, or more; a filler has more and means nothing.
Text == {"short", "long", "filler"}

\* SelfSpeechGuard.assess: not the assistant's words, like them, or surely them.
Verdict == {"clear", "candidate", "suppress"}

NoEpisode == [gen |-> 0]
NoClaim == <<>>

\* deque(maxlen): an append drops the oldest one.
Push(episodes, e) ==
    IF Len(episodes) < MaxEpisodes THEN Append(episodes, e) ELSE Append(Tail(episodes), e)

EmptyGate == [episodes |-> <<>>, active |-> NoEpisode, quiet |-> 0, gen |-> 0]

\* _finish_active
Finish(g) ==
    [g EXCEPT !.episodes = Push(@, [g.active EXCEPT !.state = "finalizing"]),
              !.active = NoEpisode, !.quiet = 0]

NewEpisode(g, seq, at) ==
    [gen |-> g.gen + 1, start |-> at, end |-> at, first |-> seq, voiced |-> 0,
     loud |-> FALSE, state |-> "active", claim |-> NoClaim]

\* The frame's speech extends the active episode, or begins one.
Extend(g, seq, at, level) ==
    LET e == IF g.active = NoEpisode THEN NewEpisode(g, seq, at) ELSE g.active
    IN  [g EXCEPT !.quiet = 0, !.gen = e.gen,
                  !.active = [e EXCEPT !.end = at + 1, !.voiced = @ + 1,
                                       !.loud = @ \/ level = "loud"]]

\* Silence after speech: enough of it ends the episode.
Hush(g) ==
    IF g.active = NoEpisode THEN g
    ELSE IF g.quiet + 1 >= Release THEN Finish(g)
    ELSE [g EXCEPT !.quiet = @ + 1]

\* observe: a gap in the stream ends the active episode before the frame is heard.
Observe(g, seq, at, level) ==
    LET h == IF g.active # NoEpisode /\ at >= g.active.end + Release THEN Finish(g) ELSE g
    IN  IF level = "quiet" THEN Hush(h) ELSE Extend(h, seq, at, level)

Candidates(g) ==
    Range(g.episodes) \cup (IF g.active = NoEpisode THEN {} ELSE {g.active})

\* The episodes that are old enough, by frame, and by time, for a final.
Begun(g, f)  == {e \in Candidates(g) : e.first <= f.seq}
InTime(g, f) == {e \in Begun(g, f) : e.start <= f.at /\ f.at <= e.end + Window}
\* mutant: an episode may be claimed again
ClaimedToo(g, f) == InTime(g, f)
Unclaimed(g, f) == {e \in InTime(g, f) : e.claim = NoClaim}

\* _associate_episode: the earliest of them.
Associated(g, f) == CHOOSE e \in Unclaimed(g, f) : \A d \in Unclaimed(g, f) : e.start <= d.start

WhyNone(g, f) ==
    IF Candidates(g) = {} THEN "no_episode"
    ELSE IF Begun(g, f) = {} THEN "frame_range"
    ELSE IF InTime(g, f) # {} THEN "consumed"
    ELSE IF \A e \in Begun(g, f) : f.at < e.start THEN "too_early"
    ELSE IF \A e \in Begun(g, f) : f.at > e.end + Window THEN "too_late"
    ELSE "unknown"

\* A final that came too late expires what it could have been about.
Expire(g, f) ==
    LET late(e) == IF e \in Begun(g, f) /\ e.state = "finalizing"
                   THEN [e EXCEPT !.state = "expired"] ELSE e
    IN  [g EXCEPT !.episodes = [i \in DOMAIN @ |-> late(@[i])]]

Required(f) == IF f.text = "short" THEN Short ELSE Needed

\* strong_independent_user_evidence, which outweighs the self-speech guard.
IsStrong(e) == e.voiced >= Strong /\ e.loud

\* _has_recoverable_user_evidence
Recoverable(e, f, playing, verdict) ==
    /\ ~playing
    /\ verdict = "clear"
    /\ e.voiced >= Recovery
    /\ f.text = "long"
    /\ e.end >= e.start + Span

\* assess_final on the episode it is associated with.
Judgement(e, f, playing, verdict) ==
    IF e.voiced < Short THEN "too_short"
    ELSE IF verdict = "suppress" /\ ~IsStrong(e) THEN "self_speech"
    ELSE IF e.voiced >= Required(f) THEN "accepted"
    ELSE IF Recoverable(e, f, playing, verdict) THEN "recovered"
    ELSE "insufficient"

Outcome(g, f, playing, verdict) ==
    IF Unclaimed(g, f) # {} THEN Judgement(Associated(g, f), f, playing, verdict)
    ELSE IF verdict = "suppress" THEN "self_speech" ELSE WhyNone(g, f)

Admitted == {"accepted", "recovered"}

\* The accepted final claims its episode; an episode that still went on ends here.
Claim(g, f) ==
    LET e == Associated(g, f)
        c == [e EXCEPT !.claim = f.id, !.state = "consumed"]
    IN  IF e = g.active
        THEN [g EXCEPT !.episodes = Push(@, c), !.active = NoEpisode, !.quiet = 0]
        ELSE [g EXCEPT !.episodes = [i \in DOMAIN @ |-> IF @[i] = e THEN c ELSE @[i]]]

\* What assess_final leaves of the gate.
Assess(g, f, playing, verdict) ==
    IF Unclaimed(g, f) = {}
    THEN IF WhyNone(g, f) = "too_late" THEN Expire(g, f) ELSE g
    ELSE IF Outcome(g, f, playing, verdict) \in Admitted THEN Claim(g, f) ELSE g
=============================================================================

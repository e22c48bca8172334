------------------------------ MODULE SoftYield ------------------------------
(* What happens while the user speaks over the assistant: the acoustic      *)
(* detector (runtime/acoustic_barge_in.py), the soft-yield episode it opens *)
(* and ends, the timer that resumes playback, and the transcripts that      *)
(* classify the episode (runtime/session.py, turns/policies.py).  The       *)
(* browser's half of ducking and resuming is BrowserPlayback's.             *)
EXTENDS Naturals

CONSTANTS
    Onset,         \* onset_debounce_ms, in frames
    Takeover,      \* sustained_takeover_ms
    Silence,       \* release_silence_ms
    MaxReplies,    \* bound: responses of the session
    MaxOverlaps    \* bound: soft-yield episodes of the session

ASSUME DetectorConstants ==
    /\ Onset \in Nat \ {0} /\ Silence \in Nat \ {0}
    /\ Takeover \in Nat /\ Takeover > Onset

ASSUME YieldBounds == MaxReplies \in Nat /\ MaxOverlaps \in Nat

VARIABLES
    det,       \* AcousticBargeInDetector
    reply,     \* _response_id, by number, and whether its task is done
    speaking,  \* the state is SPEAKING, POSSIBLE_INTERRUPTION or OVERLAP
    cut,       \* _cancel_event
    yield,     \* _soft_yield
    overlaps,  \* soft-yield episodes so far
    timer,     \* the episode _soft_resume_task is about, 0 when it is over
    stopper,   \* _acoustic_interrupt_task has not run yet
    ducked,    \* the last of duck and resume that was sent for the response
    deaf       \* history: the detector missed frames of the episode

softYieldVars == <<det, reply, speaking, cut, yield, overlaps, timer, stopper, ducked, deaf>>

Deaf == [on |-> FALSE, heard |-> 0, quiet |-> 0, taken |-> FALSE]
NoYield == [id |-> 0, reply |-> 0, ended |-> FALSE, hard |-> FALSE, resumed |-> FALSE]
Answering == reply.n > 0 /\ ~reply.done

\* AcousticBargeInDetector.observe: the next state of the detector ...
Detect(d, voiced, active) ==
    IF ~active THEN Deaf
    ELSE IF voiced
    THEN LET h == IF d.heard < Takeover THEN d.heard + 1 ELSE Takeover
         IN  [on |-> d.on \/ h >= Onset, heard |-> h, quiet |-> 0,
              taken |-> d.taken \/ h >= Takeover]
    ELSE IF d.on /\ d.quiet + 1 < Silence THEN [d EXCEPT !.quiet = @ + 1]
    ELSE Deaf

\* ... and its events.  Onset comes before takeover, so a frame has one event.
DetectorEvents(d, voiced, active) ==
    LET next == Detect(d, voiced, active)
    IN  {e \in {"onset", "takeover", "ended"} :
            CASE e = "onset"    -> ~d.on /\ next.on
              [] e = "takeover" -> ~d.taken /\ next.taken
              [] e = "ended"    -> active /\ d.on /\ ~next.on}

-----------------------------------------------------------------------------
(* HybridTurnPolicy.decide, on the signals the transcriber builds: a final  *)
(* is endpointed and complete after enough silence, a partial is neither.   *)
Phrase == {"stop", "mhm", "words"}
Signals == [phrase : Phrase, final : BOOLEAN, filler : BOOLEAN, background : BOOLEAN,
            long : BOOLEAN]

Decision(s, agentSpeaking) ==
    IF agentSpeaking /\ s.phrase = "stop" THEN "interruption"
    ELSE IF agentSpeaking /\ s.phrase = "mhm" /\ ~s.long THEN "backchannel"
    ELSE IF agentSpeaking /\ s.background THEN "uncertain"
    ELSE IF ~s.final THEN "continue"
    ELSE IF ~agentSpeaking THEN "complete"
    ELSE IF s.filler THEN "continue"
    ELSE "complete"

-----------------------------------------------------------------------------
YieldInit ==
    /\ det = Deaf /\ reply = [n |-> 0, done |-> TRUE] /\ speaking = FALSE /\ cut = FALSE
    /\ yield = NoYield /\ overlaps = 0 /\ timer = 0 /\ stopper = FALSE /\ ducked = FALSE
    /\ deaf = FALSE

\* _begin_response
BeginReply ==
    /\ ~Answering /\ reply.n < MaxReplies
    /\ reply' = [n |-> reply.n + 1, done |-> FALSE]
    /\ yield' = NoYield /\ timer' = 0 /\ cut' = FALSE /\ ducked' = FALSE /\ deaf' = FALSE
    /\ UNCHANGED <<det, speaking, overlaps, stopper>>

\* Audio begins; the response ends, spoken or cut off.
ReplySpeaks ==
    /\ Answering /\ ~speaking /\ ~cut
    /\ speaking' = TRUE
    /\ UNCHANGED <<det, reply, cut, yield, overlaps, timer, stopper, ducked, deaf>>

ReplyEnds ==
    /\ Answering
    /\ reply' = [reply EXCEPT !.done = TRUE] /\ speaking' = FALSE
    /\ UNCHANGED <<det, cut, yield, overlaps, timer, stopper, ducked, deaf>>

\* interrupt(), up to its cancellation signal.
InterruptReply ==
    IF ~Answering \/ cut THEN UNCHANGED <<yield, timer, cut, speaking>>
    ELSE /\ cut' = TRUE /\ speaking' = FALSE
         /\ IF yield.reply = reply.n
            THEN yield' = [yield EXCEPT !.hard = TRUE] /\ timer' = 0
            ELSE UNCHANGED <<yield, timer>>

SpeechBegins ==
    IF yield.reply = reply.n /\ ~yield.ended
    THEN UNCHANGED <<yield, overlaps, ducked>>
    ELSE /\ yield' = [NoYield EXCEPT !.id = overlaps + 1, !.reply = reply.n]
         /\ overlaps' = overlaps + 1
         /\ ducked' = TRUE

\* mutant: a timer that runs already is kept
StartTimerOnce(e) == timer' = IF timer = 0 THEN e.id ELSE timer

\* The task of an earlier episode is cancelled; this one's takes its place.
StartTimer(e) == timer' = e.id

SpeechStops ==
    /\ yield' = [yield EXCEPT !.ended = TRUE]
    /\ IF yield.hard \/ cut THEN UNCHANGED timer ELSE StartTimer(yield)

\* receive_audio and _handle_acoustic_barge_in: one frame of the microphone.
HearFrame(voiced) ==
    LET active == Answering /\ speaking
        events == DetectorEvents(det, voiced, active)
    IN  /\ overlaps < MaxOverlaps \/ "onset" \notin events
        /\ det' = Detect(det, voiced, active)
        /\ \/ /\ events = {} \/ (events # {"onset"} /\ yield.reply # reply.n)
              /\ UNCHANGED <<yield, overlaps, ducked, timer, stopper>>
           \/ /\ events = {"onset"}
              /\ SpeechBegins
              /\ UNCHANGED <<timer, stopper>>
           \/ /\ events = {"takeover"} /\ yield.reply = reply.n
              /\ IF yield.hard \/ cut THEN UNCHANGED <<timer, stopper>>
                 ELSE timer' = 0 /\ stopper' = TRUE
              /\ UNCHANGED <<yield, overlaps, ducked>>
           \/ /\ events = {"ended"} /\ yield.reply = reply.n
              /\ SpeechStops
              /\ UNCHANGED <<overlaps, ducked, stopper>>
        /\ UNCHANGED <<reply, speaking, cut, deaf>>

\* The pipeline fails or the microphone stops: nothing is heard any more.
LoseMicrophone ==
    /\ ~deaf /\ Answering
    /\ deaf' = TRUE
    /\ UNCHANGED <<det, reply, speaking, cut, yield, overlaps, timer, stopper, ducked>>

\* The task of a sustained takeover runs.
AcousticInterrupt ==
    /\ stopper
    /\ stopper' = FALSE
    /\ InterruptReply
    /\ UNCHANGED <<det, reply, overlaps, ducked, deaf>>

\* _request_playback_resume: once for an episode.
ResumePlayback ==
    IF yield.resumed THEN UNCHANGED <<yield, ducked>>
    ELSE yield' = [yield EXCEPT !.resumed = TRUE] /\ ducked' = FALSE

\* _resume_soft_yield_after_classification_window
TimerFires ==
    /\ timer # 0
    /\ timer' = 0
    /\ IF timer # yield.id \/ yield.hard \/ cut THEN UNCHANGED <<yield, ducked>>
       ELSE ResumePlayback
    /\ UNCHANGED <<det, reply, speaking, cut, overlaps, stopper, deaf>>

\* _handle_transcript: the episode counts for five seconds after its onset, so a
\* transcript falls into it or comes too late.
HearTranscript(s, inEpisode) ==
    LET overlap == inEpisode /\ yield.id # 0
        agent   == speaking \/ overlap
        policy  == Decision(s, agent)
        decided == IF s.final /\ overlap /\ policy # "backchannel" /\ ~s.filler
                   THEN "interruption" ELSE policy
    IN  /\ Answering
        /\ \/ /\ decided = "backchannel"
              /\ IF overlap THEN timer' = 0 /\ ResumePlayback ELSE UNCHANGED <<timer, yield, ducked>>
              /\ UNCHANGED <<cut, speaking>>
           \/ /\ decided = "interruption" \/ (decided = "complete" /\ s.final /\ ~agent)
              /\ InterruptReply
              /\ UNCHANGED ducked
           \/ /\ decided \in {"uncertain", "continue"} \/ (decided = "complete" /\ agent)
              /\ UNCHANGED <<timer, yield, ducked, cut, speaking>>
        /\ UNCHANGED <<det, reply, overlaps, stopper, deaf>>

YieldNext ==
    \/ BeginReply \/ ReplySpeaks \/ ReplyEnds
    \/ \E voiced \in BOOLEAN : ~deaf /\ HearFrame(voiced)
    \/ LoseMicrophone \/ AcousticInterrupt \/ TimerFires
    \/ \E s \in Signals, inEpisode \in BOOLEAN : HearTranscript(s, inEpisode)

YieldSpec == YieldInit /\ [][YieldNext]_softYieldVars

-----------------------------------------------------------------------------
YieldTypeOK ==
    /\ det.heard \in 0 .. Takeover /\ det.quiet \in 0 .. Silence
    /\ det.on => det.heard >= Onset
    /\ reply.n \in 0 .. MaxReplies /\ overlaps \in 0 .. MaxOverlaps
    /\ timer \in 0 .. overlaps /\ yield.id \in 0 .. overlaps

\* The assistant never stays ducked with nobody left to undo it: while it speaks
\* at reduced volume, either the user is still heard speaking, or the timer of
\* this very episode runs, or the takeover is on its way.  Episodes follow each
\* other before their timers fire and transcripts classify them late; only a
\* microphone that is gone leaves a response ducked
\* (_handle_acoustic_barge_in, _resume_soft_yield_after_classification_window).
DuckIsUndone ==
    Answering /\ speaking /\ ~cut /\ ducked /\ ~deaf =>
        det.on \/ timer = yield.id \/ stopper
=============================================================================

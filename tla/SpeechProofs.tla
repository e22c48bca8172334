---------------------------- MODULE SpeechProofs ----------------------------
(* What the assistant says and how it yields. For every budget, queue size,  *)
(* history and number of segments: a response has one voice, a spoken        *)
(* response is called failed only when the history was full, and no producer *)
(* outlives its segment. For every detector setting and any number of        *)
(* responses and episodes: a response that speaks at reduced volume has      *)
(* something left to undo it.                                                *)
EXTENDS ResponseStream, SoftYield, Integers, SequenceTheorems, FiniteSetTheorems, TLAPS

-----------------------------------------------------------------------------
(* The stream of one response.                                               *)

Voice == {"primary", "browser"}
Pc == {"idle", "reason", "segment", "primary", "browser", "chunk", "drain", "finish"}
How == {"none", "failed", "clash", "changed", "miscounted", "completed"}

\* Where the reasoner is not yet done.
Working == {"reason", "segment", "primary", "browser", "chunk"}

Talk == [n : Nat, pc : Pc, kind : {"authoritative", "model"}, frags : Nat, segs : Int,
         retried : BOOLEAN, first : BOOLEAN, cancel : BOOLEAN, before : 0 .. Remembered,
         how : How]

\* The fallback remembers responses up to the n-th, each with one provider.
PinSeq == Seq([n : Nat, voice : Voice])
Agree(ps, n) ==
    /\ ps \in PinSeq
    /\ \A i \in DOMAIN ps : ps[i].n <= n
    /\ \A i, j \in DOMAIN ps : ps[i].n = n /\ ps[j].n = n => ps[i].voice = ps[j].voice

\* Pinned, for any pins and response.
PinOf(ps, n) ==
    IF \E i \in DOMAIN ps : ps[i].n = n
    THEN (CHOOSE p \in Range(ps) : p.n = n).voice ELSE NoVoice

\* What was scheduled is of the pinned provider, and so is what will be.
VoiceIsPinned ==
    /\ voices \subseteq Voice \cap {Pinned} /\ active \in {NoVoice, Pinned}
    /\ talk.pc = "idle" => active = NoVoice
    /\ talk.pc = "primary" => Pinned # "browser"
    /\ talk.pc = "browser" => Pinned # "primary"
    /\ talk.pc = "chunk" => voice1 = Pinned /\ voice1 \in Voice
    /\ talk.how \notin {"clash", "changed"}

\* How far the exchange is remembered.
HistoryGrows ==
    /\ memory \in 0 .. Remembered
    /\ talk.pc \in Working /\ (talk.kind = "model" \/ talk.frags = 0) => memory = talk.before
    /\ talk.pc \in Working /\ talk.kind = "authoritative" /\ talk.frags > 0 =>
          memory = Remember1(talk.before)
    /\ talk.pc = "drain" => memory = Remember1(talk.before)

StreamInv ==
    /\ talk \in Talk /\ Agree(pins, talk.n)
    /\ VoiceIsPinned /\ HistoryGrows /\ OnlyFullHistoryMiscounts

-----------------------------------------------------------------------------
(* Pins. *)

LEMMA PinTyped ==
    ASSUME NEW ps \in PinSeq, NEW i \in DOMAIN ps
    PROVE  ps[i] \in [n : Nat, voice : Voice] /\ ps[i].n \in Nat /\ ps[i].voice \in Voice
<1>1. ps \in Seq([n : Nat, voice : Voice]) /\ i \in 1 .. Len(ps)
  BY DEF PinSeq
<1>2. ps[i] \in [n : Nat, voice : Voice]
  BY <1>1, ElementOfSeq
<1> QED BY <1>2

LEMMA PinnedIsPinOf == Pinned = PinOf(pins, talk.n) /\ Pinned' = PinOf(pins', talk'.n)
BY DEF Pinned, PinOf

LEMMA PinOfIs ==
    ASSUME NEW n \in Nat, NEW ps, Agree(ps, n)
    PROVE  /\ PinOf(ps, n) \in Voice \cup {NoVoice}
           /\ \A i \in DOMAIN ps : ps[i].n = n => PinOf(ps, n) = ps[i].voice
<1>1. ps \in PinSeq /\ Range(ps) = {ps[i] : i \in DOMAIN ps}
  BY DEF Agree, Range
<1>2. \A i \in DOMAIN ps : ps[i] \in Range(ps) /\ ps[i].voice \in Voice
  BY <1>1, PinTyped
<1>3. CASE \E i \in DOMAIN ps : ps[i].n = n
  <2> DEFINE p == CHOOSE p \in Range(ps) : p.n = n
  <2>1. p \in Range(ps) /\ p.n = n
    BY <1>2, <1>3
  <2>2. PinOf(ps, n) = p.voice
    BY <1>3 DEF PinOf
  <2> HIDE DEF p
  <2>3. PICK k \in DOMAIN ps : p = ps[k]
    BY <1>1, <2>1
  <2> QED BY <1>2, <2>1, <2>2, <2>3 DEF Agree
<1>4. CASE ~ \E i \in DOMAIN ps : ps[i].n = n
  BY <1>4 DEF PinOf
<1> QED BY <1>3, <1>4

\* A later response has no pin yet.
LEMMA NotYetPinned ==
    ASSUME NEW n \in Nat, NEW ps, Agree(ps, n)
    PROVE  Agree(ps, n + 1) /\ PinOf(ps, n + 1) = NoVoice
<1>1. \A i \in DOMAIN ps : ps[i].n \in Nat
  BY PinTyped DEF Agree
<1> QED BY <1>1 DEF Agree, PinOf

\* A pin is the response's own, and is not the one that is evicted.
LEMMA PinTells ==
    ASSUME talk.n \in Nat, Agree(pins, talk.n), NEW voice \in Voice, Pinned \in {NoVoice, voice}
    PROVE  Agree(Pin(voice), talk.n) /\ PinOf(Pin(voice), talk.n) = voice
<1>1. CASE Pinned = voice
  <2>1. Pin(voice) = pins
    BY <1>1 DEF Pin, Voice, NoVoice
  <2> QED BY <1>1, <2>1, PinnedIsPinOf
<1>2. CASE Pinned = NoVoice
  <2> DEFINE mine == [n |-> talk.n, voice |-> voice]
             grown == Append(pins, mine)
             ps == Pin(voice)
  <2>1. ps = IF Len(grown) > Pins THEN Tail(grown) ELSE grown
    BY <1>2 DEF Pin
  <2>2. \A i \in DOMAIN pins : pins[i].n # talk.n /\ pins[i].n <= talk.n
    <3> TAKE i \in DOMAIN pins
    <3>1. pins[i] \in [n : Nat, voice : Voice] /\ pins[i].n <= talk.n
      BY PinTyped DEF Agree
    <3>2. pins[i].n = talk.n => Pinned = pins[i].voice
      BY PinOfIs, PinnedIsPinOf
    <3> QED BY <1>2, <3>1, <3>2 DEF Voice, NoVoice
  <2>3. pins \in PinSeq /\ mine \in [n : Nat, voice : Voice]
    BY DEF Agree
  <2> HIDE DEF mine, ps
  <2>4. /\ grown \in PinSeq /\ Len(grown) = Len(pins) + 1 /\ Len(pins) \in Nat
        /\ DOMAIN pins = 1 .. Len(pins) /\ DOMAIN grown = 1 .. Len(pins) + 1
        /\ grown[Len(pins) + 1] = mine
        /\ \A i \in 1 .. Len(pins) : grown[i] = pins[i]
    BY <2>3 DEF PinSeq
  <2> HIDE DEF grown
  <2>5. mine.n = talk.n /\ mine.voice = voice
    BY DEF mine
  <2>6. \A i \in DOMAIN grown : grown[i].n <= talk.n /\ (grown[i].n = talk.n => grown[i] = mine)
    <3> TAKE i \in DOMAIN grown
    <3>1. CASE i = Len(pins) + 1
      BY <2>4, <2>5, <3>1
    <3>2. CASE i # Len(pins) + 1
      <4>1. i \in 1 .. Len(pins)
        BY <2>4, <3>2
      <4> QED BY <2>2, <2>4, <4>1
    <3> QED BY <3>1, <3>2
  <2>7. /\ ps \in PinSeq
        /\ \A i \in DOMAIN ps : ps[i].n <= talk.n /\ (ps[i].n = talk.n => ps[i] = mine)
        /\ \E i \in DOMAIN ps : ps[i] = mine
    <3>1. CASE Len(grown) > Pins
      <4>1. Len(pins) >= 1
        BY <2>4, <3>1, StreamConstants
      <4>2. /\ ps = Tail(grown) /\ ps \in PinSeq
            /\ DOMAIN ps = 1 .. Len(pins)
            /\ \A i \in 1 .. Len(pins) : ps[i] = grown[i + 1]
        BY <2>1, <2>4, <3>1, <4>1 DEF PinSeq
      <4>3. \A i \in 1 .. Len(pins) : i + 1 \in DOMAIN grown
        BY <2>4
      <4>4. ps[Len(pins)] = mine /\ Len(pins) \in DOMAIN ps
        BY <2>4, <4>1, <4>2
      <4> QED BY <2>6, <4>2, <4>3, <4>4
    <3>2. CASE ~(Len(grown) > Pins)
      BY <2>1, <2>4, <2>6, <3>2
    <3> QED BY <3>1, <3>2
  <2>8. Agree(ps, talk.n)
    BY <2>7 DEF Agree
  <2>9. PinOf(ps, talk.n) = voice
    BY <2>5, <2>7, <2>8, PinOfIs
  <2> QED BY <2>8, <2>9 DEF ps
<1> QED BY <1>1, <1>2

-----------------------------------------------------------------------------
(* The steps. *)

\* What a step may do without touching the history, the pins and the audio.
SameTalk == talk'.n = talk.n /\ talk'.before = talk.before /\ talk'.kind = talk.kind
            /\ talk'.frags = talk.frags

LEMMA Carries ==
    ASSUME StreamInv, talk' \in Talk, SameTalk, UNCHANGED <<memory, voices, pins>>,
           active' \in {active, NoVoice}, talk'.how \in {talk.how, "failed"},
           talk'.pc = "idle" => active' = NoVoice,
           talk'.pc = "primary" => Pinned # "browser",
           talk'.pc = "browser" => Pinned # "primary",
           talk'.pc = "chunk" => voice1' = Pinned /\ voice1' \in Voice,
           talk'.pc \in Working => talk.pc \in Working,
           talk'.pc = "drain" => talk.pc = "drain"
    PROVE  StreamInv'
<1>1. Pinned' = Pinned /\ Agree(pins', talk'.n)
  BY PinnedIsPinOf DEF StreamInv, SameTalk
<1>2. VoiceIsPinned'
  BY <1>1 DEF StreamInv, VoiceIsPinned
<1>3. HistoryGrows'
  BY DEF StreamInv, HistoryGrows, SameTalk, Remember1
<1>4. OnlyFullHistoryMiscounts'
  BY DEF StreamInv, OnlyFullHistoryMiscounts, SameTalk
<1> QED BY <1>1, <1>2, <1>3, <1>4 DEF StreamInv

\* Nothing a producer does is seen by the invariant.
LEMMA MakerCarries ==
    ASSUME StreamInv, UNCHANGED <<talk, memory, speechVars, voice1, pins>>
    PROVE  StreamInv'
BY PinnedIsPinOf
   DEF StreamInv, VoiceIsPinned, HistoryGrows, OnlyFullHistoryMiscounts, speechVars

\* A response begins as a talk.
LEMMA FreshTalk ==
    ASSUME NEW n \in Nat, NEW kind \in {"authoritative", "model"}, NEW m \in 0 .. Remembered,
           talk' = [n |-> n, pc |-> "reason", kind |-> kind, frags |-> 0, segs |-> 0,
                    retried |-> FALSE, first |-> TRUE, cancel |-> FALSE, before |-> m,
                    how |-> "none"]
    PROVE  /\ talk' \in Talk
           /\ talk'.n = n /\ talk'.pc = "reason" /\ talk'.how = "none" /\ talk'.frags = 0
           /\ talk'.before = m
<1>1. 0 \in Nat /\ 0 \in Int /\ "reason" \in Pc /\ "none" \in How
  BY DEF Pc, How
<1>2. talk' \in Talk
  BY <1>1 DEF Talk
<1> QED BY <1>2

\* The ways a step goes on are talks.
LEMMA Goings ==
    ASSUME talk \in Talk, NEW pc \in Pc, Goes(pc)
    PROVE  talk' \in Talk /\ SameTalk /\ talk'.pc = pc /\ talk'.how = talk.how
BY DEF Goes, Talk, SameTalk

LEMMA Breakings ==
    ASSUME talk \in Talk, NEW how \in How, Breaks(how)
    PROVE  talk' \in Talk /\ SameTalk /\ talk'.pc = "finish" /\ talk'.how = how
BY DEF Breaks, Talk, SameTalk, Pc, How

\* A failed segment is tried again or fails the response.
LEMMA SpeechFailsCarries ==
    ASSUME StreamInv, SpeechFails("failed"), talk.pc \in Working, UNCHANGED <<memory, speechVars>>
    PROVE  StreamInv'
<1>1. talk \in Talk
  BY DEF StreamInv
<1>2. talk' \in Talk /\ SameTalk /\ talk'.pc \in {"segment", "finish"}
      /\ talk'.how \in {talk.how, "failed"}
  <2>1. CASE Breaks("failed")
    BY <1>1, <2>1, Breakings DEF How
  <2>2. CASE talk' = [talk EXCEPT !.pc = "segment", !.retried = TRUE]
    <3>1. talk' = [n |-> talk.n, pc |-> "segment", kind |-> talk.kind, frags |-> talk.frags,
                   segs |-> talk.segs, retried |-> TRUE, first |-> talk.first,
                   cancel |-> talk.cancel, before |-> talk.before, how |-> talk.how]
      BY <1>1, <2>2 DEF Talk
    <3> QED BY <1>1, <3>1 DEF Talk, SameTalk, Pc, How
  <2> QED BY <2>1, <2>2 DEF SpeechFails
<1> QED BY <1>2, Carries DEF SpeechFails, speechVars

\* The fallback is only asked where the primary has not spoken.
LEMMA FallsBackCarries ==
    ASSUME StreamInv, NEW error, FallsBack(error), talk.pc \in Working,
           UNCHANGED <<memory, speechVars>>
    PROVE  StreamInv'
<1>1. CASE talk.cancel \/ Pinned = "primary" \/ error = "refused"
  BY <1>1, SpeechFailsCarries DEF FallsBack
<1>2. CASE ~(talk.cancel \/ Pinned = "primary" \/ error = "refused")
  <2>1. Goes("browser") /\ UNCHANGED <<pins, voice1>> /\ Pinned # "primary"
    BY <1>2 DEF FallsBack
  <2>2. talk' \in Talk /\ SameTalk /\ talk'.pc = "browser" /\ talk'.how = talk.how
    BY <2>1, Goings DEF StreamInv, Pc
  <2> QED BY <2>1, <2>2, Carries DEF speechVars
<1> QED BY <1>1, <1>2

\* A chunk's provider is pinned as it is yielded: the check never fires.
LEMMA YieldsCarries ==
    ASSUME StreamInv, NEW voice \in Voice, Yields(voice), talk.pc \in Working,
           Pinned \in {NoVoice, voice}, UNCHANGED <<memory, speechVars>>
    PROVE  StreamInv'
<1>1. pins' = Pin(voice) /\ voice1' = voice /\ Goes("chunk")
  BY DEF Yields
<1>2. talk' \in Talk /\ SameTalk /\ talk'.pc = "chunk" /\ talk'.how = talk.how /\ talk.n \in Nat
  BY <1>1, Goings DEF StreamInv, Pc, Talk
<1>3. Agree(pins', talk'.n) /\ Pinned' = voice
  BY <1>1, <1>2, PinTells, PinnedIsPinOf DEF StreamInv, SameTalk
<1>4. voices \subseteq Voice \cap {Pinned} /\ voices \subseteq Voice \cap {voice}
      /\ active \in {NoVoice, voice}
  BY DEF StreamInv, VoiceIsPinned, Voice, NoVoice
<1>5. VoiceIsPinned'
  BY <1>1, <1>2, <1>3, <1>4 DEF StreamInv, VoiceIsPinned, speechVars
<1>6. HistoryGrows' /\ OnlyFullHistoryMiscounts'
  BY <1>2 DEF StreamInv, HistoryGrows, SameTalk, Working, OnlyFullHistoryMiscounts
<1> QED BY <1>2, <1>3, <1>5, <1>6 DEF StreamInv

-----------------------------------------------------------------------------
(* The actions. *)

\* The session's task.
LEMMA TalkSteps ==
    ASSUME StreamInv,
           BeginTalk \/ InterruptTalk \/ ReasonerSpeaks \/ ReasonerStops \/ ReasonerBreaks
             \/ Drained \/ FinishTalk
    PROVE  StreamInv'
<1>1. talk \in Talk /\ Remembered \in Nat /\ memory \in 0 .. Remembered
  BY StreamConstants DEF StreamInv, HistoryGrows
<1>2. CASE BeginTalk
  <2>1. PICK kind \in {"authoritative", "model"} :
          talk' = [n |-> talk.n + 1, pc |-> "reason", kind |-> kind, frags |-> 0, segs |-> 0,
                   retried |-> FALSE, first |-> TRUE, cancel |-> FALSE, before |-> memory,
                   how |-> "none"]
    BY <1>2 DEF BeginTalk
  <2>2. talk' \in Talk /\ talk'.n = talk.n + 1 /\ talk'.pc = "reason" /\ talk'.how = "none"
        /\ talk'.frags = 0 /\ talk'.before = memory /\ talk.n \in Nat
    <3>1. talk.n \in Nat /\ talk.n + 1 \in Nat
      BY <1>1 DEF Talk
    <3> QED BY <1>1, <2>1, <3>1, FreshTalk
  <2>3. talk.pc = "idle" /\ voices' = {} /\ UNCHANGED <<memory, active, pins>>
    BY <1>2 DEF BeginTalk, synthVars
  <2>4. Agree(pins', talk'.n) /\ Pinned' = NoVoice
    BY <2>2, <2>3, NotYetPinned, PinnedIsPinOf DEF StreamInv
  <2>5. VoiceIsPinned'
    BY <2>2, <2>3, <2>4 DEF StreamInv, VoiceIsPinned
  <2>6. HistoryGrows' /\ OnlyFullHistoryMiscounts'
    <3>1. HistoryGrows'
      <4>1. memory' \in 0 .. Remembered /\ memory' = talk'.before
        BY <1>1, <2>2, <2>3
      <4>2. talk'.frags = 0 /\ talk'.pc # "drain"
        BY <2>2
      <4> QED BY <4>1, <4>2 DEF HistoryGrows
    <3>2. OnlyFullHistoryMiscounts'
      BY <2>2 DEF OnlyFullHistoryMiscounts
    <3> QED BY <3>1, <3>2
  <2> QED BY <2>2, <2>4, <2>5, <2>6 DEF StreamInv
<1>3. CASE InterruptTalk
  <2>1. talk' \in Talk /\ SameTalk /\ talk'.pc = talk.pc /\ talk'.how = talk.how
    BY <1>1, <1>3 DEF InterruptTalk, Talk, SameTalk
  <2> QED
    BY <1>3, <2>1, Carries
       DEF InterruptTalk, StreamInv, VoiceIsPinned, speechVars, synthVars
<1>4. CASE ReasonerSpeaks
  <2>1. PICK k \in Segments :
          talk' = IF talk.cancel THEN [talk EXCEPT !.pc = "finish"]
                  ELSE [talk EXCEPT !.pc = "segment", !.frags = @ + 1, !.segs = k]
    BY <1>4 DEF ReasonerSpeaks
  <2>2. talk.pc = "reason" /\ UNCHANGED <<voices, active, voice1, pins>>
        /\ memory' = IF talk.kind = "model" THEN memory ELSE Remember1(memory)
    BY <1>4 DEF ReasonerSpeaks, speechVars, synthVars, RememberLater
  <2>3. talk.kind = "authoritative" => talk.frags = 0
    <3>1. talk.kind = "authoritative" => Fragments(talk.kind) = 1
      BY DEF Fragments
    <3>2. talk.frags < Fragments(talk.kind) /\ talk.frags \in Nat
      BY <1>1, <1>4 DEF ReasonerSpeaks, Talk
    <3> QED BY <3>1, <3>2
  <2>4. /\ talk' \in Talk /\ talk'.n = talk.n /\ talk'.before = talk.before
        /\ talk'.kind = talk.kind /\ talk'.how = talk.how
        /\ talk'.pc = "finish" \/ (talk'.pc = "segment" /\ talk'.frags = talk.frags + 1)
    <3>1. k \in Int /\ talk.frags \in Nat /\ talk.frags + 1 \in Nat
      BY <1>1, StreamBounds DEF Segments, Talk
    <3> QED BY <1>1, <2>1, <3>1 DEF Talk, Pc
  <2>5. Agree(pins', talk'.n) /\ VoiceIsPinned'
    BY <2>2, <2>4, PinnedIsPinOf DEF StreamInv, VoiceIsPinned
  <2>6. HistoryGrows'
    BY <1>1, <2>2, <2>3, <2>4 DEF StreamInv, HistoryGrows, Working, Remember1, Talk
  <2>7. OnlyFullHistoryMiscounts'
    BY <2>4 DEF StreamInv, OnlyFullHistoryMiscounts
  <2> QED BY <2>4, <2>5, <2>6, <2>7 DEF StreamInv
<1>5. CASE ReasonerStops
  <2>1. talk' \in Talk /\ SameTalk /\ talk'.pc = "drain" /\ talk'.how = talk.how
    BY <1>1, <1>5, Goings DEF ReasonerStops, Pc
  <2>2. talk.pc = "reason" /\ talk.frags > 0 /\ UNCHANGED <<voices, active, voice1, pins>>
        /\ memory' = IF talk.kind = "model" THEN Remember1(memory) ELSE memory
    BY <1>5 DEF ReasonerStops, speechVars, synthVars
  <2>3. Agree(pins', talk'.n) /\ VoiceIsPinned'
    BY <2>1, <2>2, PinnedIsPinOf DEF StreamInv, VoiceIsPinned, SameTalk
  <2>4. HistoryGrows'
    BY <1>1, <2>1, <2>2 DEF StreamInv, HistoryGrows, Working, Remember1, SameTalk, Talk
  <2>5. OnlyFullHistoryMiscounts'
    BY <2>1 DEF StreamInv, OnlyFullHistoryMiscounts, SameTalk
  <2> QED BY <2>1, <2>3, <2>4, <2>5 DEF StreamInv
<1>6. CASE ReasonerBreaks
  <2>1. talk' \in Talk /\ SameTalk /\ talk'.pc = "finish" /\ talk'.how = "failed"
    BY <1>1, <1>6, Breakings DEF ReasonerBreaks, How
  <2> QED BY <1>6, <2>1, Carries DEF ReasonerBreaks, speechVars, synthVars, Working
<1>7. CASE Drained
  <2>1. talk.pc = "drain" /\ UNCHANGED <<memory, voices, active, voice1, pins>>
    BY <1>7 DEF Drained, speechVars, synthVars
  <2>2. CASE Goes("finish")
    <3>1. talk' \in Talk /\ SameTalk /\ talk'.pc = "finish" /\ talk'.how = talk.how
      BY <1>1, <2>2, Goings DEF Pc
    <3> QED BY <2>1, <3>1, Carries DEF Working
  <2>3. CASE Breaks("failed")
    <3>1. talk' \in Talk /\ SameTalk /\ talk'.pc = "finish" /\ talk'.how = "failed"
      BY <1>1, <2>3, Breakings DEF How
    <3> QED BY <2>1, <3>1, Carries DEF Working
  <2>4. ASSUME talk' \in Talk, SameTalk, talk'.pc = "finish",
               talk'.how \in {"miscounted", "completed"},
               talk'.how = "miscounted" <=> memory # talk.before + 1
        PROVE  StreamInv'
    <3>1. memory = Remember1(talk.before) /\ talk.before \in 0 .. Remembered
      BY <1>1, <2>1 DEF StreamInv, HistoryGrows, Talk
    <3>2. memory # talk.before + 1 <=> talk.before = Remembered
      BY <1>1, <3>1 DEF Remember1
    <3>3. OnlyFullHistoryMiscounts'
      BY <2>1, <2>4, <3>2 DEF OnlyFullHistoryMiscounts, SameTalk
    <3>4. Agree(pins', talk'.n) /\ VoiceIsPinned'
      BY <2>1, <2>4, PinnedIsPinOf DEF StreamInv, VoiceIsPinned, SameTalk
    <3>5. HistoryGrows'
      BY <1>1, <2>1, <2>4 DEF HistoryGrows, Working
    <3> QED BY <2>4, <3>3, <3>4, <3>5 DEF StreamInv
  <2>5. CASE memory # talk.before + 1 /\ Breaks("miscounted")
    <3>1. talk' \in Talk /\ SameTalk /\ talk'.pc = "finish" /\ talk'.how = "miscounted"
      BY <1>1, <2>5, Breakings DEF How
    <3> QED BY <2>4, <2>5, <3>1
  <2>6. CASE memory = talk.before + 1 /\ talk' = [talk EXCEPT !.pc = "finish", !.how = "completed"]
    <3>1. talk' \in Talk /\ SameTalk /\ talk'.pc = "finish" /\ talk'.how = "completed"
      BY <1>1, <2>6 DEF Talk, SameTalk, Pc, How
    <3> QED BY <2>4, <2>6, <3>1
  <2> QED BY <1>7, <2>2, <2>3, <2>5, <2>6 DEF Drained
<1>8. CASE FinishTalk
  <2>1. talk' \in Talk /\ SameTalk /\ talk'.pc = "idle" /\ talk'.how = talk.how
    BY <1>1, <1>8, Goings DEF FinishTalk, Pc
  <2> QED BY <1>8, <2>1, Carries DEF FinishTalk, synthVars, Working
<1> QED BY <1>2, <1>3, <1>4, <1>5, <1>6, <1>7, <1>8

\* The speech stream as the task reads it.
LEMMA SpeechSteps ==
    ASSUME StreamInv,
           OpenSpeech \/ BrowserSpeaks \/ FirstAudioLate \/ TakePacket \/ RequestLate
             \/ PrimaryCancelled
    PROVE  StreamInv'
<1>1. talk \in Talk
  BY DEF StreamInv
<1>2. Pinned \in Voice \cup {NoVoice} /\ talk.n \in Nat
  BY <1>1, PinOfIs, PinnedIsPinOf DEF StreamInv, Talk
<1>3. ASSUME Goes("finish"), talk.pc \in Working, UNCHANGED <<memory, speechVars, pins>>
      PROVE  StreamInv'
  <2>1. talk' \in Talk /\ SameTalk /\ talk'.pc = "finish" /\ talk'.how = talk.how
    BY <1>1, <1>3, Goings DEF Pc
  <2> QED BY <1>3, <2>1, Carries DEF speechVars, Working
<1>4. CASE OpenSpeech
  <2>1. talk.pc = "segment" /\ talk.pc \in Working /\ UNCHANGED <<memory, speechVars>>
    BY <1>4 DEF OpenSpeech, Working
  <2>2. CASE Goes("finish") /\ UNCHANGED synthVars
    BY <1>3, <2>1, <2>2 DEF synthVars
  <2>3. CASE Pinned = "browser" /\ Goes("browser") /\ UNCHANGED synthVars
    <3>1. talk' \in Talk /\ SameTalk /\ talk'.pc = "browser" /\ talk'.how = talk.how
      BY <1>1, <2>3, Goings DEF Pc
    <3> QED BY <2>1, <2>3, <3>1, Carries DEF speechVars, synthVars, Working
  <2>4. CASE Pinned # "browser" /\ Goes("primary") /\ UNCHANGED <<pins, voice1>>
    <3>1. talk' \in Talk /\ SameTalk /\ talk'.pc = "primary" /\ talk'.how = talk.how
      BY <1>1, <2>4, Goings DEF Pc
    <3> QED BY <2>1, <2>4, <3>1, Carries DEF speechVars, Working
  <2>5. CASE FallsBack("budget")
    BY <2>1, <2>5, FallsBackCarries
  <2> QED BY <1>4, <2>2, <2>3, <2>4, <2>5 DEF OpenSpeech
<1>5. CASE BrowserSpeaks
  <2>1. talk.pc = "browser" /\ talk.pc \in Working /\ UNCHANGED <<memory, speechVars>>
    BY <1>5 DEF BrowserSpeaks, Working
  <2>2. CASE Goes("finish") /\ UNCHANGED <<pins, voice1>>
    BY <1>3, <2>1, <2>2
  <2>3. CASE Yields("browser")
    <3>1. Pinned \in {NoVoice, "browser"} /\ "browser" \in Voice
      BY <1>2, <2>1 DEF StreamInv, VoiceIsPinned, Voice
    <3> QED BY <2>1, <2>3, <3>1, YieldsCarries
  <2> QED BY <1>5, <2>2, <2>3 DEF BrowserSpeaks
<1>6. CASE FirstAudioLate
  <2>1. talk.pc \in Working /\ SpeechFails("failed") /\ UNCHANGED <<memory, speechVars>>
    BY <1>6 DEF FirstAudioLate, Working
  <2> QED BY <2>1, SpeechFailsCarries
<1>7. CASE TakePacket
  <2>1. talk.pc = "primary" /\ talk.pc \in Working /\ UNCHANGED <<memory, speechVars>>
    BY <1>7 DEF TakePacket, Working
  <2>2. CASE UNCHANGED <<talk, pins, voice1>>
    BY <2>1, <2>2, MakerCarries
  <2>3. CASE Yields("primary")
    <3>1. Pinned \in {NoVoice, "primary"} /\ "primary" \in Voice
      BY <1>2, <2>1 DEF StreamInv, VoiceIsPinned, Voice
    <3> QED BY <2>1, <2>3, <3>1, YieldsCarries
  <2>4. CASE FallsBack(Head(wire))
    BY <2>1, <2>4, FallsBackCarries
  <2> QED BY <1>7, <2>2, <2>3, <2>4 DEF TakePacket
<1>8. CASE RequestLate
  <2>1. talk.pc \in Working /\ FallsBack("late") /\ UNCHANGED <<memory, speechVars>>
    BY <1>8 DEF RequestLate, Working
  <2> QED BY <2>1, FallsBackCarries
<1>9. CASE PrimaryCancelled
  <2>1. talk.pc \in Working /\ Goes("finish") /\ UNCHANGED <<memory, speechVars, pins>>
    BY <1>9 DEF PrimaryCancelled, Working
  <2> QED BY <1>3, <2>1
<1> QED BY <1>4, <1>5, <1>6, <1>7, <1>8, <1>9

\* A chunk is scheduled under the provider it was pinned to.
LEMMA TakeVoiceKeeps ==
    ASSUME StreamInv, TakeVoice
    PROVE  StreamInv'
<1>1. /\ talk \in Talk /\ talk.pc = "chunk" /\ UNCHANGED <<memory, pins, voice1>>
      /\ voice1 = Pinned /\ voice1 \in Voice /\ active \in {NoVoice, voice1}
      /\ voices \subseteq {voice1}
  BY DEF StreamInv, VoiceIsPinned, TakeVoice, synthVars
<1>2. CASE Goes("finish") /\ UNCHANGED speechVars
  <2>1. talk' \in Talk /\ SameTalk /\ talk'.pc = "finish" /\ talk'.how = talk.how
    BY <1>1, <1>2, Goings DEF Pc
  <2> QED BY <1>1, <1>2, <2>1, Carries DEF speechVars, Working
<1>3. CASE Breaks("failed") /\ UNCHANGED speechVars
  <2>1. talk' \in Talk /\ SameTalk /\ talk'.pc = "finish" /\ talk'.how = "failed"
    BY <1>1, <1>3, Breakings DEF How
  <2> QED BY <1>1, <1>3, <2>1, Carries DEF speechVars, Working
<1>4. CASE /\ active' = voice1 /\ voices' = voices \cup {voice1}
           /\ talk' = [talk EXCEPT !.first = FALSE, !.retried = FALSE, !.segs = @ - 1,
                                   !.pc = IF talk.segs > 1 THEN "segment" ELSE "reason"]
  <2>1. PICK pc \in {"segment", "reason"} :
          talk' = [n |-> talk.n, pc |-> pc, kind |-> talk.kind, frags |-> talk.frags,
                   segs |-> talk.segs - 1, retried |-> FALSE, first |-> FALSE,
                   cancel |-> talk.cancel, before |-> talk.before, how |-> talk.how]
    BY <1>1, <1>4 DEF Talk
  <2>2. talk.segs - 1 \in Int
    BY <1>1 DEF Talk
  <2>3. talk' \in Talk /\ SameTalk /\ talk'.pc \in {"segment", "reason"} /\ talk'.how = talk.how
    BY <1>1, <2>1, <2>2 DEF Talk, Pc, SameTalk
  <2>4. Pinned' = Pinned /\ Agree(pins', talk'.n)
    BY <1>1, <2>3, PinnedIsPinOf DEF StreamInv, SameTalk
  <2>5. VoiceIsPinned'
    BY <1>1, <1>4, <2>3, <2>4 DEF StreamInv, VoiceIsPinned
  <2>6. HistoryGrows' /\ OnlyFullHistoryMiscounts'
    BY <1>1, <2>3
       DEF StreamInv, HistoryGrows, SameTalk, Working, OnlyFullHistoryMiscounts, Remember1
  <2> QED BY <2>3, <2>4, <2>5, <2>6 DEF StreamInv
<1> QED BY <1>1, <1>2, <1>3, <1>4 DEF TakeVoice

LEMMA StreamStep == StreamInv /\ [StreamNext]_streamVars => StreamInv'
<1> SUFFICES ASSUME StreamInv, [StreamNext]_streamVars PROVE StreamInv'
  OBVIOUS
<1>1. CASE MakerAnswered \/ MakerReads \/ MakerEnds
  <2>1. UNCHANGED makerRests
    BY <1>1 DEF MakerAnswered, MakerReads, MakerEnds
  <2> QED BY <2>1, MakerCarries DEF makerRests
<1>2. CASE UNCHANGED streamVars
  BY <1>2, MakerCarries DEF streamVars, speechVars
<1> QED BY <1>1, <1>2, TalkSteps, SpeechSteps, TakeVoiceKeeps DEF StreamNext

\* The invariant that the theorems below are read off.
THEOREM StreamInvariant == StreamSpec => []StreamInv
<1>1. StreamInit => StreamInv
  <2> SUFFICES ASSUME StreamInit PROVE StreamInv
    OBVIOUS
  <2>1. talk.n = 0 /\ talk.pc = "idle" /\ talk.how = "none" /\ memory = 0 /\ pins = <<>>
        /\ active = NoVoice /\ voices = {}
    BY DEF StreamInit
  <2>2. talk \in Talk
    BY StreamConstants DEF StreamInit, Talk, Pc, How
  <2>3. Agree(pins, talk.n)
    BY <2>1 DEF Agree, PinSeq
  <2>4. VoiceIsPinned
    BY <2>1 DEF VoiceIsPinned
  <2>5. HistoryGrows /\ OnlyFullHistoryMiscounts
    BY <2>1, StreamConstants DEF HistoryGrows, OnlyFullHistoryMiscounts, Working
  <2> QED BY <2>2, <2>3, <2>4, <2>5 DEF StreamInv
<1> QED BY <1>1, StreamStep, PTL DEF StreamSpec

\* A response has one voice.
THEOREM SpokenByOne == StreamSpec => []OneVoice
<1>1. StreamInv => OneVoice
  <2> SUFFICES ASSUME StreamInv PROVE OneVoice
    OBVIOUS
  <2>1. voices \subseteq {Pinned}
    BY DEF StreamInv, VoiceIsPinned
  <2>2. IsFiniteSet({Pinned}) /\ Cardinality({Pinned}) = 1
    BY FS_Singleton
  <2>3. Cardinality(voices) <= 1
    BY <2>1, <2>2, FS_Subset
  <2> QED BY <2>3 DEF StreamInv, VoiceIsPinned, OneVoice
<1> QED BY <1>1, StreamInvariant, PTL

\* Only a full history makes a spoken response look failed.
THEOREM MiscountedOnlyWhenFull == StreamSpec => []OnlyFullHistoryMiscounts
<1>1. StreamInv => OnlyFullHistoryMiscounts
  BY DEF StreamInv
<1> QED BY <1>1, StreamInvariant, PTL

-----------------------------------------------------------------------------
(* Types. *)

Packet == {"pcm", "last", "end", "refused", "busy", "exhausted", "broken"}

\* Only a segment that waits for the primary has a producer, whose queue and
\* budget are never overdrawn.
MakerTypes ==
    /\ wire \in Seq(Packet) /\ Len(wire) <= WireSize
    /\ budget \in [chars : 0 .. MaxChars, airtime : 0 .. MaxAirtime]
    /\ maker # "none" => talk.pc = "primary"
    /\ Len(pins) <= Pins

LEMMA NoWire ==
    ASSUME NEW q, q = <<>>
    PROVE  q \in Seq(Packet) /\ Len(q) <= WireSize
BY StreamConstants

LEMMA EndIsPut ==
    ASSUME NEW q \in Seq(Packet), Len(q) <= WireSize
    PROVE  WithEnd(q) \in Seq(Packet) /\ Len(WithEnd(q)) <= WireSize
<1>1. CASE Len(q) < WireSize
  <2>1. "end" \in Packet
    BY DEF Packet
  <2> QED BY <1>1, <2>1, StreamConstants DEF WithEnd
<1>2. CASE ~(Len(q) < WireSize)
  BY <1>2 DEF WithEnd
<1> QED BY <1>1, <1>2

LEMMA PacketIsPut ==
    ASSUME NEW q \in Seq(Packet), Len(q) < WireSize, NEW p \in Packet
    PROVE  Append(q, p) \in Seq(Packet) /\ Len(Append(q, p)) <= WireSize
BY StreamConstants

LEMMA PinTypes ==
    ASSUME StreamInv, Len(pins) <= Pins, NEW voice \in Voice, pins' = Pin(voice)
    PROVE  Len(pins') <= Pins
<1>1. pins \in Seq([n : Nat, voice : Voice]) /\ talk.n \in Nat
  BY DEF StreamInv, Agree, PinSeq, Talk
<1> DEFINE p == [n |-> talk.n, voice |-> voice]  grown == Append(pins, p)
<1>2. grown \in Seq([n : Nat, voice : Voice]) /\ Len(grown) = Len(pins) + 1
  BY <1>1
<1>3. pins' = IF Pinned # NoVoice THEN pins ELSE IF Len(grown) > Pins THEN Tail(grown) ELSE grown
  BY DEF Pin
<1>4. Len(grown) > Pins => Len(Tail(grown)) = Len(grown) - 1
  BY <1>1, <1>2, StreamConstants
<1> HIDE DEF grown
<1> QED BY <1>1, <1>2, <1>3, <1>4, StreamConstants

\* The producer goes with the segment that waited for it.
LEMMA GoneTypes ==
    ASSUME MakerTypes, MakerGone, UNCHANGED budget, Len(pins') <= Pins
    PROVE  MakerTypes'
BY NoWire DEF MakerTypes, MakerGone

LEMMA SpeechFailsTypes ==
    ASSUME NEW how, SpeechFails(how)
    PROVE  UNCHANGED <<pins, voice1>>
BY DEF SpeechFails

LEMMA FallsBackTypes ==
    ASSUME NEW error, FallsBack(error)
    PROVE  UNCHANGED <<pins, voice1>>
BY SpeechFailsTypes DEF FallsBack

LEMMA YieldsTypes ==
    ASSUME StreamInv, MakerTypes, NEW voice \in Voice, Yields(voice)
    PROVE  Len(pins') <= Pins
<1>1. pins' = pins \/ pins' = Pin(voice)
  BY SpeechFailsTypes DEF Yields
<1> QED BY <1>1, PinTypes DEF MakerTypes

LEMMA MakerTypesStep == StreamInv /\ MakerTypes /\ [StreamNext]_streamVars => MakerTypes'
<1> SUFFICES ASSUME StreamInv, MakerTypes, [StreamNext]_streamVars PROVE MakerTypes'
  OBVIOUS
<1>1. /\ wire \in Seq(Packet) /\ Len(wire) <= WireSize /\ Len(pins) <= Pins
      /\ budget \in [chars : 0 .. MaxChars, airtime : 0 .. MaxAirtime]
      /\ maker # "none" => talk.pc = "primary"
  BY DEF MakerTypes
<1>2. talk \in Talk
  BY DEF StreamInv
<1>3. ASSUME UNCHANGED <<wire, budget, maker>>, talk'.pc = talk.pc \/ maker = "none",
             Len(pins') <= Pins
      PROVE  MakerTypes'
  BY <1>1, <1>3 DEF MakerTypes
<1>4. CASE \/ BeginTalk \/ ReasonerSpeaks \/ ReasonerStops \/ ReasonerBreaks \/ Drained \/ FinishTalk
           \/ TakeVoice
  <2>1. talk.pc # "primary" /\ UNCHANGED synthVars
    BY <1>4 DEF BeginTalk, ReasonerSpeaks, ReasonerStops, ReasonerBreaks, Drained, FinishTalk,
                TakeVoice
  <2> QED BY <1>1, <1>3, <2>1 DEF synthVars
<1>5. CASE InterruptTalk
  <2>1. talk'.pc = talk.pc /\ UNCHANGED synthVars
    BY <1>2, <1>5 DEF InterruptTalk, Talk
  <2> QED BY <1>1, <1>3, <2>1 DEF synthVars
<1>6. CASE OpenSpeech
  <2>1. maker = "none"
    BY <1>1, <1>6 DEF OpenSpeech
  <2>2. CASE UNCHANGED <<pins, maker, wire, budget>>
    BY <1>1, <1>3, <2>1, <2>2
  <2>3. CASE /\ budget.chars < MaxChars /\ budget' = [budget EXCEPT !.chars = @ + 1]
             /\ maker' = "asked" /\ wire' = <<>> /\ Goes("primary") /\ UNCHANGED pins
    <3>1. talk'.pc = "primary"
      BY <1>2, <2>3, Goings DEF Pc
    <3>2. budget' \in [chars : 0 .. MaxChars, airtime : 0 .. MaxAirtime]
      BY <1>1, <2>3, StreamConstants
    <3>3. wire' \in Seq(Packet) /\ Len(wire') <= WireSize
      BY <2>3, NoWire
    <3> QED BY <1>1, <2>3, <3>1, <3>2, <3>3 DEF MakerTypes
  <2> QED BY <1>6, <2>2, <2>3, FallsBackTypes DEF OpenSpeech, synthVars
<1>7. CASE BrowserSpeaks
  <2>1. maker = "none" /\ UNCHANGED <<maker, wire, budget>>
    BY <1>1, <1>7 DEF BrowserSpeaks
  <2>2. Len(pins') <= Pins
    <3>1. "browser" \in Voice
      BY DEF Voice
    <3> QED BY <1>1, <1>7, <3>1, YieldsTypes DEF BrowserSpeaks
  <2> QED BY <1>3, <2>1, <2>2
<1>8. CASE FirstAudioLate
  BY <1>1, <1>8, SpeechFailsTypes, GoneTypes DEF FirstAudioLate
<1>9. CASE RequestLate
  BY <1>1, <1>9, FallsBackTypes, GoneTypes DEF RequestLate
<1>10. CASE PrimaryCancelled
  BY <1>1, <1>10, GoneTypes DEF PrimaryCancelled
<1>11. CASE TakePacket
  <2>1. wire # <<>> /\ UNCHANGED budget
    BY <1>11 DEF TakePacket
  <2>2. CASE wire' = Tail(wire) /\ UNCHANGED <<talk, pins, maker>>
    <3>1. wire' \in Seq(Packet) /\ Len(wire') <= WireSize
      BY <1>1, <2>1, <2>2, StreamConstants
    <3> QED BY <1>1, <2>1, <2>2, <3>1 DEF MakerTypes
  <2>3. CASE Yields("primary") /\ MakerGone
    <3>1. "primary" \in Voice
      BY DEF Voice
    <3> QED BY <2>1, <2>3, <3>1, YieldsTypes, GoneTypes
  <2>4. ASSUME NEW error, FallsBack(error), MakerGone PROVE MakerTypes'
    BY <1>1, <2>1, <2>4, FallsBackTypes, GoneTypes
  <2> QED BY <1>11, <2>2, <2>3, <2>4 DEF TakePacket
<1>12. ASSUME UNCHANGED <<talk, pins>>, maker # "none", wire' \in Seq(Packet), Len(wire') <= WireSize,
              budget' \in [chars : 0 .. MaxChars, airtime : 0 .. MaxAirtime]
       PROVE  MakerTypes'
  BY <1>1, <1>12 DEF MakerTypes
<1>13. CASE MakerAnswered
  <2>1. maker # "none" /\ UNCHANGED <<budget, talk, pins>>
    BY <1>13 DEF MakerAnswered, makerRests
  <2>2. CASE UNCHANGED wire
    BY <1>1, <1>12, <2>1, <2>2
  <2>3. ASSUME NEW error \in {"refused", "busy"}, wire' = WithEnd(<<error>>) PROVE MakerTypes'
    <3>1. <<error>> \in Seq(Packet) /\ Len(<<error>>) <= WireSize
      BY StreamConstants DEF Packet
    <3> QED BY <1>1, <1>12, <2>1, <2>3, <3>1, EndIsPut
  <2> QED BY <1>13, <2>2, <2>3 DEF MakerAnswered
<1>14. ASSUME Room, NEW p \in Packet
       PROVE  /\ Append(wire, p) \in Seq(Packet) /\ Len(Append(wire, p)) <= WireSize
              /\ WithEnd(Append(wire, p)) \in Seq(Packet)
              /\ Len(WithEnd(Append(wire, p))) <= WireSize
  BY <1>1, <1>14, PacketIsPut, EndIsPut DEF Room
<1>15. budget.airtime < MaxAirtime =>
          [budget EXCEPT !.airtime = @ + 1] \in [chars : 0 .. MaxChars, airtime : 0 .. MaxAirtime]
  BY <1>1, StreamConstants
<1>16. CASE MakerReads
  <2>1. maker # "none" /\ Room /\ UNCHANGED <<talk, pins>>
    BY <1>16 DEF MakerReads, makerRests
  <2>2. CASE /\ budget.airtime < MaxAirtime /\ wire' = Append(wire, "pcm")
             /\ budget' = [budget EXCEPT !.airtime = @ + 1]
    BY <1>12, <1>14, <1>15, <2>1, <2>2 DEF Packet
  <2>3. CASE wire' = WithEnd(Append(wire, "exhausted")) /\ UNCHANGED budget
    BY <1>1, <1>12, <1>14, <2>1, <2>3 DEF Packet
  <2> QED BY <1>16, <2>2, <2>3 DEF MakerReads
<1>17. CASE MakerEnds
  <2>1. maker # "none" /\ Room /\ UNCHANGED <<talk, pins>>
    BY <1>17 DEF MakerEnds, makerRests
  <2>2. CASE /\ budget.airtime < MaxAirtime /\ wire' = WithEnd(Append(wire, "last"))
             /\ budget' = [budget EXCEPT !.airtime = @ + 1]
    BY <1>12, <1>14, <1>15, <2>1, <2>2 DEF Packet
  <2>3. CASE wire' = WithEnd(Append(wire, "broken")) /\ UNCHANGED budget
    BY <1>1, <1>12, <1>14, <2>1, <2>3 DEF Packet
  <2>4. CASE wire' = WithEnd(wire) /\ UNCHANGED budget
    BY <1>1, <1>12, <2>1, <2>4, EndIsPut
  <2> QED BY <1>17, <2>2, <2>3, <2>4 DEF MakerEnds
<1>18. CASE UNCHANGED streamVars
  BY <1>1, <1>3, <1>18 DEF streamVars
<1> QED
  BY <1>4, <1>5, <1>6, <1>7, <1>8, <1>9, <1>10, <1>11, <1>13, <1>16, <1>17, <1>18 DEF StreamNext

\* Whatever fails or comes late: no queue, history or budget grows beyond what it
\* may, and no producer outlives the segment that asked for it.
THEOREM StreamTypes == StreamSpec => []StreamTypeOK
<1>1. StreamInit => MakerTypes
  <2> SUFFICES ASSUME StreamInit PROVE MakerTypes
    OBVIOUS
  <2>1. wire = <<>> /\ pins = <<>> /\ maker = "none" /\ budget = [chars |-> 0, airtime |-> 0]
    BY DEF StreamInit
  <2>2. Len(pins) <= Pins
    BY <2>1, StreamConstants
  <2>3. budget \in [chars : 0 .. MaxChars, airtime : 0 .. MaxAirtime]
    BY <2>1, StreamConstants
  <2> QED BY <2>1, <2>2, <2>3, NoWire DEF MakerTypes
<1>2. StreamInv /\ MakerTypes => StreamTypeOK
  <2> SUFFICES ASSUME StreamInv, MakerTypes PROVE StreamTypeOK
    OBVIOUS
  <2>1. talk.pc \in Pc /\ talk.how \in How /\ memory \in 0 .. Remembered
    BY DEF StreamInv, Talk, HistoryGrows
  <2>2. budget.chars <= MaxChars /\ budget.airtime <= MaxAirtime
    BY StreamConstants DEF MakerTypes
  <2> QED BY <2>1, <2>2 DEF StreamTypeOK, MakerTypes, Pc, How
<1> QED BY <1>1, <1>2, StreamInvariant, MakerTypesStep, PTL DEF StreamSpec

-----------------------------------------------------------------------------
(* The yielding to a speaker.                                                *)

Detector == [on : BOOLEAN, heard : 0 .. Takeover, quiet : 0 .. Silence, taken : BOOLEAN]
Episode == [id : Nat, reply : Nat, ended : BOOLEAN, hard : BOOLEAN, resumed : BOOLEAN]

YieldTyped ==
    /\ det \in Detector /\ (det.on => det.heard >= Onset)
    /\ reply \in [n : 0 .. MaxReplies, done : BOOLEAN]
    /\ yield \in Episode
    /\ overlaps \in 0 .. MaxOverlaps /\ timer \in 0 .. overlaps /\ yield.id \in 0 .. overlaps

\* An episode is about the response that runs, or there is none.
EpisodeIsCurrent ==
    /\ yield.id = 0 => yield = NoYield
    /\ yield.id # 0 => yield.reply = reply.n /\ reply.n > 0

\* Who speaks is answering, and was not cut off; before it speaks it is not ducked.
SpeakerIsUncut ==
    /\ speaking => Answering /\ ~cut
    /\ Answering /\ ~cut /\ ~speaking => ~ducked

\* Only an episode that was not resumed ducks; only an interruption hardens it.
DuckHasEpisode ==
    /\ ducked => yield.id # 0 /\ ~yield.resumed
    /\ yield.hard => cut

YieldInv == YieldTyped /\ EpisodeIsCurrent /\ SpeakerIsUncut /\ DuckHasEpisode /\ DuckIsUndone

-----------------------------------------------------------------------------
(* The detector. *)

\* A frame leaves the detector in a state of its type.
LEMMA DetectTyped ==
    ASSUME NEW d \in Detector, NEW voiced \in BOOLEAN, NEW audible \in BOOLEAN,
           d.on => d.heard >= Onset
    PROVE  /\ Detect(d, voiced, audible) \in Detector
           /\ Detect(d, voiced, audible).on => Detect(d, voiced, audible).heard >= Onset
<1> USE DetectorConstants DEF Detector
<1>1. Deaf \in Detector /\ ~Deaf.on
  BY DEF Deaf
<1>2. CASE audible /\ voiced
  BY <1>2 DEF Detect
<1>3. CASE audible /\ ~voiced
  BY <1>1, <1>3 DEF Detect
<1>4. CASE ~audible
  BY <1>1, <1>4 DEF Detect
<1> QED BY <1>2, <1>3, <1>4

\* A candidate only ends with its event, while a response is audible; onset and
\* takeover leave one.
LEMMA EventsTell ==
    ASSUME NEW d \in Detector, NEW voiced \in BOOLEAN, NEW audible \in BOOLEAN,
           d.on => d.heard >= Onset
    PROVE  LET next == Detect(d, voiced, audible)
               events == DetectorEvents(d, voiced, audible)
           IN  /\ audible /\ d.on /\ ~next.on => "ended" \in events
               /\ "ended" \in events => audible
               /\ "onset" \in events \/ "takeover" \in events => audible /\ next.on
<1> DEFINE next == Detect(d, voiced, audible)
           events == DetectorEvents(d, voiced, audible)
<1>1. /\ "onset" \in events <=> ~d.on /\ next.on
      /\ "takeover" \in events <=> ~d.taken /\ next.taken
      /\ "ended" \in events <=> audible /\ d.on /\ ~next.on
  BY DEF DetectorEvents
<1>2. ~audible => ~next.on /\ ~next.taken
  BY DEF Detect, Deaf
<1>3. ~d.taken /\ next.taken => next.on
  BY DetectorConstants DEF Detect, Deaf, Detector
<1> QED BY <1>1, <1>2, <1>3

-----------------------------------------------------------------------------
(* The parts of the steps. *)

\* An interruption cuts a running response off; it only hardens its episode.
LEMMA InterruptCuts ==
    ASSUME YieldInv, InterruptReply, UNCHANGED <<reply, overlaps>>
    PROVE  /\ yield' \in Episode /\ yield'.id = yield.id /\ yield'.reply = yield.reply
           /\ yield'.resumed = yield.resumed /\ (yield'.id = 0 => yield' = NoYield)
           /\ timer' \in 0 .. overlaps
           /\ yield'.hard => cut'
           /\ Answering => cut' /\ ~speaking'
           /\ ~Answering => UNCHANGED <<yield, timer, cut, speaking>>
<1> USE YieldBounds DEF YieldInv, YieldTyped
<1>1. CASE ~Answering \/ cut
  BY <1>1 DEF InterruptReply, EpisodeIsCurrent, SpeakerIsUncut, DuckHasEpisode
<1>2. CASE Answering /\ ~cut /\ yield.reply = reply.n
  <2>1. yield' = [yield EXCEPT !.hard = TRUE] /\ timer' = 0 /\ cut' = TRUE /\ speaking' = FALSE
    BY <1>2 DEF InterruptReply
  <2>2. yield.id # 0
    BY <1>2 DEF EpisodeIsCurrent, NoYield, Answering
  <2>3. /\ yield' \in Episode /\ yield'.id = yield.id /\ yield'.reply = yield.reply
        /\ yield'.resumed = yield.resumed
    BY <2>1 DEF Episode
  <2>4. timer' \in 0 .. overlaps
    <3>1. overlaps \in Nat
      OBVIOUS
    <3> QED BY <2>1, <3>1
  <2> HIDE DEF YieldInv, YieldTyped
  <2> QED BY <1>2, <2>1, <2>2, <2>3, <2>4
<1>3. CASE Answering /\ ~cut /\ yield.reply # reply.n
  BY <1>3 DEF InterruptReply, EpisodeIsCurrent, DuckHasEpisode
<1> QED BY <1>1, <1>2, <1>3

\* After a resume nothing of the episode is ducked.
LEMMA ResumeUnducks ==
    ASSUME YieldInv, ResumePlayback, yield.id # 0
    PROVE  /\ yield' \in Episode /\ yield'.id = yield.id /\ yield'.reply = yield.reply
           /\ yield'.hard = yield.hard
           /\ ~ducked'
<1>1. yield \in Episode /\ (ducked => ~yield.resumed)
  BY DEF YieldInv, YieldTyped, DuckHasEpisode
<1>2. CASE yield.resumed
  BY <1>1, <1>2 DEF ResumePlayback
<1>3. CASE ~yield.resumed
  <2>1. yield' = [yield EXCEPT !.resumed = TRUE] /\ ducked' = FALSE
    BY <1>3 DEF ResumePlayback
  <2> QED BY <1>1, <2>1 DEF Episode
<1> QED BY <1>2, <1>3

-----------------------------------------------------------------------------
(* The invariant. *)

LEMMA FrameKeeps ==
    ASSUME YieldInv, NEW voiced \in BOOLEAN, ~deaf, HearFrame(voiced)
    PROVE  YieldInv'
<1> USE YieldBounds
<1> DEFINE audible == Answering /\ speaking
           events == DetectorEvents(det, voiced, audible)
<1>1. audible \in BOOLEAN /\ reply \in [n : 0 .. MaxReplies, done : BOOLEAN]
  BY DEF YieldInv, YieldTyped, Answering
<1>2. det' = Detect(det, voiced, audible) /\ UNCHANGED <<reply, speaking, cut, deaf>>
  BY DEF HearFrame
<1>3. det' \in Detector /\ (det'.on => det'.heard >= Onset)
  BY <1>1, <1>2, DetectTyped DEF YieldInv, YieldTyped
<1>4. /\ audible /\ det.on /\ ~det'.on => "ended" \in events
      /\ "ended" \in events => audible
      /\ "onset" \in events \/ "takeover" \in events => audible /\ det'.on
  BY <1>1, <1>2, EventsTell DEF YieldInv, YieldTyped
<1> HIDE DEF events
<1>5. CASE /\ events = {} \/ (events # {"onset"} /\ yield.reply # reply.n)
           /\ UNCHANGED <<yield, overlaps, ducked, timer, stopper>>
  BY <1>2, <1>3, <1>4, <1>5
     DEF YieldInv, YieldTyped, EpisodeIsCurrent, SpeakerIsUncut, DuckHasEpisode, DuckIsUndone,
         Answering
<1>6. CASE events = {"onset"} /\ SpeechBegins /\ UNCHANGED <<timer, stopper>>
  <2>1. audible /\ det'.on /\ (overlaps < MaxOverlaps)
    BY <1>4, <1>6 DEF HearFrame, events
  <2>2. CASE yield.reply = reply.n /\ ~yield.ended
    BY <1>2, <1>3, <1>6, <2>1, <2>2
       DEF SpeechBegins, YieldInv, YieldTyped, EpisodeIsCurrent, SpeakerIsUncut, DuckHasEpisode,
           DuckIsUndone, Answering
  <2>3. CASE ~(yield.reply = reply.n /\ ~yield.ended)
    <3>1. /\ yield' = [NoYield EXCEPT !.id = overlaps + 1, !.reply = reply.n]
          /\ overlaps' = overlaps + 1 /\ ducked' = TRUE
      BY <1>6, <2>3 DEF SpeechBegins
    <3>2. /\ overlaps \in Nat /\ overlaps + 1 \in 0 .. MaxOverlaps /\ timer \in 0 .. overlaps + 1
          /\ reply.n \in Nat /\ reply.n > 0
      BY <2>1 DEF YieldInv, YieldTyped, Answering
    <3>3. /\ yield' \in Episode /\ yield'.id = overlaps + 1 /\ yield'.reply = reply.n
          /\ ~yield'.hard /\ ~yield'.resumed
      <4>1. yield' = [id |-> overlaps + 1, reply |-> reply.n, ended |-> FALSE, hard |-> FALSE,
                      resumed |-> FALSE]
        BY <3>1 DEF NoYield
      <4> QED BY <3>2, <4>1 DEF Episode
    <3>4. YieldTyped'
      BY <1>2, <1>3, <1>6, <3>1, <3>2, <3>3 DEF YieldInv, YieldTyped
    <3>5. yield'.id # 0
      BY <3>2, <3>3
    <3> QED
      BY <1>2, <1>6, <2>1, <3>1, <3>2, <3>3, <3>4, <3>5
         DEF YieldInv, EpisodeIsCurrent, SpeakerIsUncut, DuckHasEpisode, DuckIsUndone, Answering
  <2> QED BY <2>2, <2>3
<1>7. CASE /\ events = {"takeover"} /\ yield.reply = reply.n
           /\ IF yield.hard \/ cut THEN UNCHANGED <<timer, stopper>>
              ELSE timer' = 0 /\ stopper' = TRUE
           /\ UNCHANGED <<yield, overlaps, ducked>>
  BY <1>2, <1>3, <1>4, <1>7
     DEF YieldInv, YieldTyped, EpisodeIsCurrent, SpeakerIsUncut, DuckHasEpisode, DuckIsUndone,
         Answering
<1>8. CASE /\ events = {"ended"} /\ yield.reply = reply.n
           /\ SpeechStops
           /\ UNCHANGED <<overlaps, ducked, stopper>>
  <2>1. /\ audible /\ ~cut /\ ~yield.hard /\ yield.id # 0
    BY <1>4, <1>8, <1>1
       DEF YieldInv, EpisodeIsCurrent, SpeakerIsUncut, DuckHasEpisode, Answering, NoYield
  <2>2. yield' = [yield EXCEPT !.ended = TRUE] /\ timer' = yield.id
    BY <1>8, <2>1 DEF SpeechStops, StartTimer
  <2>3. /\ yield' \in Episode /\ yield'.id = yield.id /\ yield'.reply = yield.reply
        /\ yield'.hard = yield.hard /\ yield'.resumed = yield.resumed
    BY <2>2 DEF YieldInv, YieldTyped, Episode
  <2> QED
    BY <1>2, <1>3, <1>8, <2>1, <2>2, <2>3
       DEF YieldInv, YieldTyped, EpisodeIsCurrent, SpeakerIsUncut, DuckHasEpisode, DuckIsUndone,
           Answering
<1> QED BY <1>5, <1>6, <1>7, <1>8 DEF HearFrame, events

LEMMA TranscriptKeeps ==
    ASSUME YieldInv, NEW s \in Signals, NEW inEpisode \in BOOLEAN, HearTranscript(s, inEpisode)
    PROVE  YieldInv'
<1> USE YieldBounds
<1>1. Answering /\ UNCHANGED <<det, reply, overlaps, stopper, deaf>>
  BY DEF HearTranscript
<1>2. CASE yield.id # 0 /\ timer' = 0 /\ ResumePlayback /\ UNCHANGED <<cut, speaking>>
  BY <1>1, <1>2, ResumeUnducks
     DEF YieldInv, YieldTyped, EpisodeIsCurrent, SpeakerIsUncut, DuckHasEpisode, DuckIsUndone,
         Answering
<1>3. CASE InterruptReply /\ UNCHANGED ducked
  BY <1>1, <1>3, InterruptCuts
     DEF YieldInv, YieldTyped, EpisodeIsCurrent, SpeakerIsUncut, DuckHasEpisode, DuckIsUndone,
         Answering
<1>4. CASE UNCHANGED <<timer, yield, ducked, cut, speaking>>
  BY <1>1, <1>4
     DEF YieldInv, YieldTyped, EpisodeIsCurrent, SpeakerIsUncut, DuckHasEpisode, DuckIsUndone,
         Answering
<1> QED BY <1>2, <1>3, <1>4 DEF HearTranscript

LEMMA YieldStep == YieldInv /\ [YieldNext]_softYieldVars => YieldInv'
<1> SUFFICES ASSUME YieldInv, [YieldNext]_softYieldVars PROVE YieldInv'
  OBVIOUS
<1> USE YieldBounds
        DEF YieldInv, YieldTyped, EpisodeIsCurrent, SpeakerIsUncut, DuckHasEpisode, DuckIsUndone,
            Answering
<1>1. CASE BeginReply
  BY <1>1, YieldBounds DEF BeginReply, NoYield, Episode
<1>2. CASE ReplySpeaks
  BY <1>2 DEF ReplySpeaks
<1>3. CASE ReplyEnds
  BY <1>3 DEF ReplyEnds
<1>4. ASSUME NEW voiced \in BOOLEAN, ~deaf, HearFrame(voiced) PROVE YieldInv'
  BY <1>4, FrameKeeps
<1>5. CASE LoseMicrophone
  BY <1>5 DEF LoseMicrophone
<1>6. CASE AcousticInterrupt
  BY <1>6, InterruptCuts DEF AcousticInterrupt
<1>7. CASE TimerFires
  <2>1. CASE timer # yield.id \/ yield.hard \/ cut
    BY <1>7, <2>1 DEF TimerFires
  <2>2. CASE ~(timer # yield.id \/ yield.hard \/ cut)
    <3>1. yield.id # 0 /\ ResumePlayback /\ timer' = 0
      BY <1>7, <2>2 DEF TimerFires
    <3>2. UNCHANGED <<det, reply, speaking, cut, overlaps, stopper, deaf>>
      BY <1>7 DEF TimerFires
    <3> QED BY <3>1, <3>2, ResumeUnducks
  <2> QED BY <2>1, <2>2
<1>8. ASSUME NEW s \in Signals, NEW inEpisode \in BOOLEAN, HearTranscript(s, inEpisode)
      PROVE  YieldInv'
  BY <1>8, TranscriptKeeps
<1>9. CASE UNCHANGED softYieldVars
  BY <1>9 DEF softYieldVars
<1> QED BY <1>1, <1>2, <1>3, <1>4, <1>5, <1>6, <1>7, <1>8, <1>9 DEF YieldNext

\* The invariant that the two theorems below are read off.
THEOREM YieldInvariant == YieldSpec => []YieldInv
<1>1. YieldInit => YieldInv
  BY DetectorConstants, YieldBounds
     DEF YieldInit, YieldInv, YieldTyped, EpisodeIsCurrent, SpeakerIsUncut, DuckHasEpisode,
         DuckIsUndone, Answering, Detector, Episode, Deaf, NoYield
<1> QED BY <1>1, YieldStep, PTL DEF YieldSpec

\* Every variable of the detector and the episode has its type.
THEOREM YieldTypes == YieldSpec => []YieldTypeOK
<1>1. YieldInv => YieldTypeOK
  BY DEF YieldInv, YieldTyped, YieldTypeOK, Detector
<1> QED BY <1>1, YieldInvariant, PTL

\* A ducked response always has the speaker, the timer or the takeover to undo it.
THEOREM DuckUndone == YieldSpec => []DuckIsUndone
<1>1. YieldInv => DuckIsUndone
  BY DEF YieldInv
<1> QED BY <1>1, YieldInvariant, PTL
=============================================================================

------------------------- MODULE BrowserPlaybackProofs -------------------------
(* For any number of responses, chunks and soft yields: the types of the    *)
(* output, the wire and the player, the contract of play(), and what the     *)
(* player owes the next response.                                            *)
EXTENDS BrowserPlayback, SequenceTheorems, TLAPS

-----------------------------------------------------------------------------
(* Types. *)

Epochs == 0 .. MaxResponses

\* What is sent is about a chunk, or about a whole response.
Messages ==
    [kind : {"audio", "cancel_audio"}, resp : Responses, chunk : Numbers, epoch : Epochs]
        \union [kind : {"invalidate", "duck", "resume"}, resp : Responses, chunk : {0},
                epoch : Epochs]
Acks == [kind : {"started", "stopped", "completed"}, id : Ids, heard : Heard]

WiresTyped == down \in Seq(Messages) /\ up \in Seq(Acks)

\* A response is interrupted at most once, and only a response is yielded.
EpochFollows ==
    /\ pepoch <= resp
    /\ resp > 0 /\ ~cancel => pepoch < resp
    /\ invalid => cancel
    /\ resp = 0 => episode = "none"

Typed == TypeOK /\ WiresTyped /\ EpochFollows

LEMMA IdParts ==
    ASSUME NEW i \in Ids
    PROVE  i[1] \in Responses /\ i[2] \in Numbers /\ i = <<i[1], i[2]>>
           /\ i[1] \in Nat /\ i[1] > 0 /\ i[2] \in Nat /\ i[2] > 0
BY PlaybackBounds DEF Ids, Responses, Numbers

LEMMA HeadTyped ==
    ASSUME NEW S, NEW q \in Seq(S), q # <<>>
    PROVE  Head(q) \in S /\ Tail(q) \in Seq(S)
OBVIOUS

LEMMA SendTyped ==
    ASSUME NEW ms \in Seq(Messages), down \in Seq(Messages), Send(ms)
    PROVE  down' \in Seq(Messages)
<1>1. down \o ms \in Seq(Messages)
  BY ConcatProperties
<1> QED BY <1>1 DEF Send

LEMMA OneSent ==
    ASSUME NEW m \in Messages, down \in Seq(Messages), Send(<<m>>)
    PROVE  down' \in Seq(Messages)
<1>1. <<m>> \in Seq(Messages)
  OBVIOUS
<1> QED BY <1>1, SendTyped

LEMMA AckTyped ==
    ASSUME NEW a \in Acks, up \in Seq(Acks), up' = Append(up, a)
    PROVE  up' \in Seq(Acks)
OBVIOUS

\* The current response has a number that a message can carry.
LEMMA AboutResponse ==
    ASSUME Typed, resp # 0, NEW kind \in {"invalidate", "duck", "resume"}
    PROVE  /\ resp \in Responses
           /\ Message(kind, resp, 0) \in Messages
           /\ ~cancel => [Message(kind, resp, 0) EXCEPT !.epoch = pepoch + 1] \in Messages
BY PlaybackBounds DEF Typed, TypeOK, EpochFollows, Message, Messages, Responses, Epochs

LEMMA AboutChunk ==
    ASSUME Typed, NEW i \in Ids
    PROVE  /\ Message("audio", i[1], i[2]) \in Messages
           /\ Message("cancel_audio", i[1], i[2]) \in Messages
           /\ CancelAudio(i) \in Seq(Messages)
<1>1. /\ Message("audio", i[1], i[2]) \in Messages
      /\ Message("cancel_audio", i[1], i[2]) \in Messages
  BY PlaybackBounds, IdParts DEF Typed, TypeOK, EpochFollows, Message, Messages, Responses, Epochs
<1> QED BY <1>1 DEF CancelAudio

LEMMA AboutSound ==
    ASSUME NEW i \in Ids, NEW kind \in {"started", "stopped", "completed"}, NEW h \in Heard
    PROVE  Ack(kind, i, h) \in Acks
BY DEF Ack, Acks

LEMMA SessionTypes == Typed /\ Session => Typed'
<1> SUFFICES ASSUME Typed, Session PROVE Typed'
  OBVIOUS
<1> USE PlaybackBounds
<1>1. CASE BeginResponse
  <2>1. resp' \in 0 .. MaxResponses /\ pepoch' \in 0 .. MaxResponses /\ EpochFollows'
    BY <1>1 DEF BeginResponse, Typed, TypeOK, EpochFollows
  <2>2. onsets' \in 0 .. MaxOnsets
    BY <1>1 DEF BeginResponse
  <2>3. cancel' \in BOOLEAN /\ invalid' \in BOOLEAN /\ resumed' \in BOOLEAN
    BY <1>1 DEF BeginResponse
  <2> QED
    BY <1>1, <2>1, <2>2, <2>3 DEF BeginResponse, Typed, TypeOK, WiresTyped, taskVars, playerVars
<1>2. ASSUME NEW i \in Ids, Schedule(i) PROVE Typed'
  BY <1>2 DEF Schedule, Typed, TypeOK, WiresTyped, EpochFollows, sessionVars, yieldVars, playerVars
<1>3. CASE Interrupt
  <2>1. down' \in Seq(Messages)
    BY <1>3, AboutResponse, OneSent DEF Interrupt, Typed, WiresTyped
  <2> QED
    BY <1>3, <2>1 DEF Interrupt, Typed, TypeOK, WiresTyped, EpochFollows, taskVars, yieldVars,
                      playerVars
<1>4. CASE FailResponse
  BY <1>4 DEF FailResponse, Typed, TypeOK, WiresTyped, EpochFollows, taskVars, yieldVars, playerVars
<1>5. CASE SpeechOnset
  <2>1. down' \in Seq(Messages)
    BY <1>5, AboutResponse, OneSent DEF SpeechOnset, Typed, WiresTyped
  <2>2. onsets' \in 0 .. MaxOnsets
    BY <1>5 DEF SpeechOnset, Typed, TypeOK
  <2>3. resumed' \in BOOLEAN /\ UNCHANGED <<sessionVars, taskVars, live, up, playerVars>>
    BY <1>5 DEF SpeechOnset
  <2> QED
    BY <1>5, <2>1, <2>2, <2>3 DEF SpeechOnset, Typed, TypeOK, WiresTyped, EpochFollows,
                                  sessionVars, taskVars, playerVars
<1>6. CASE SpeechEnds
  BY <1>6 DEF SpeechEnds, Typed, TypeOK, WiresTyped, EpochFollows, sessionVars, taskVars,
     yieldVars, playerVars
<1>7. CASE Resume
  <2>1. down' \in Seq(Messages)
    BY <1>7, AboutResponse, OneSent DEF Resume, Typed, WiresTyped, EpochFollows
  <2>2. resumed' \in BOOLEAN
    BY <1>7 DEF Resume
  <2>3. UNCHANGED <<sessionVars, taskVars, episode, onsets, live, up, playerVars>>
    BY <1>7 DEF Resume
  <2> QED
    BY <2>1, <2>2, <2>3 DEF Typed, TypeOK, WiresTyped, EpochFollows, sessionVars, taskVars,
       yieldVars, playerVars
<1> QED BY <1>1, <1>2, <1>3, <1>4, <1>5, <1>6, <1>7 DEF Session

Rests == <<sessionVars, yieldVars, live, playerVars>>

LEMMA PlayTypes == ASSUME Typed, NEW i \in Ids, Play(i) PROVE Typed'
<1> USE DEF BesidesPlay
<1>1. UNCHANGED <<sessionVars, started, stopped, yieldVars, live, up, playerVars>>
  BY DEF Play, PlayRefuses, PlaySends, PlayStarts, PlayLeavesWait, PlayEnds, PlayTimesOut
<1>2. down' \in Seq(Messages)
  <2>1. CASE UNCHANGED down
    BY <2>1 DEF Typed, WiresTyped
  <2>2. CASE PlaySends(i)
    BY <2>2, AboutChunk, OneSent DEF PlaySends, Typed, WiresTyped
  <2>3. <<>> \in Seq(Messages)
    OBVIOUS
  <2>4. CASE PlayStarts(i)
    <3>1. \A a, b \in {<<>>, CancelAudio(i)} : a \o b \in Seq(Messages)
      BY <2>3, AboutChunk, ConcatProperties
    <3>2. PICK ms \in Seq(Messages) : Send(ms)
      BY <2>4, <3>1 DEF PlayStarts
    <3> QED BY <3>2, SendTyped DEF Typed, WiresTyped
  <2>5. CASE PlayLeavesWait(i)
    BY <2>5, AboutChunk, SendTyped DEF PlayLeavesWait, Typed, WiresTyped
  <2> QED BY <2>1, <2>2, <2>4, <2>5 DEF Play, PlayRefuses, PlayEnds, PlayTimesOut
<1>3. task' \in [Ids -> {"none", "created", "waitStart", "waitStop", "waitEnd", "ended", "failed"}]
  <2>1. \E pc \in {"waitStart", "waitStop", "waitEnd", "ended", "failed"} :
            task' = [task EXCEPT ![i] = pc]
    BY DEF Play, PlayRefuses, PlaySends, PlayStarts, PlayLeavesWait, PlayEnds, PlayTimesOut, Finish
  <2> QED BY <2>1 DEF Typed, TypeOK
<1>4. receipt' \in [Ids -> Heard \union {"none"}]
  BY DEF Play, PlayRefuses, PlaySends, PlayStarts, PlayLeavesWait, PlayEnds, PlayTimesOut, Finish,
         Typed, TypeOK, Heard
<1> QED
  BY <1>1, <1>2, <1>3, <1>4
     DEF Typed, TypeOK, WiresTyped, EpochFollows, sessionVars, yieldVars, playerVars

LEMMA AcknowledgeTypes == Typed /\ Acknowledge => Typed'
<1> SUFFICES ASSUME Typed, Acknowledge PROVE Typed'
  OBVIOUS
<1>1. Head(up) \in Acks /\ up' \in Seq(Acks)
  BY HeadTyped DEF Acknowledge, Typed, WiresTyped
<1>2. PICK a \in Acks : a = Head(up)
  BY <1>1
<1>3. a.id \in Ids /\ a.heard \in Heard
  BY <1>2 DEF Acks
<1>4. \/ UNCHANGED <<started, stopped>>
      \/ started' = started \union {a.id} /\ UNCHANGED stopped
      \/ Resolve(a.id, a.heard)
  BY <1>2 DEF Acknowledge
<1>5. started' \subseteq Ids /\ stopped' \in [Ids -> Heard \union {"open"}]
  BY <1>3, <1>4 DEF Resolve, Typed, TypeOK
<1>6. UNCHANGED <<sessionVars, task, receipt, yieldVars, live, down, playerVars>>
  BY DEF Acknowledge
<1> QED
  BY <1>1, <1>5, <1>6
     DEF Typed, TypeOK, WiresTyped, EpochFollows, sessionVars, yieldVars, playerVars

LEMMA DisconnectTypes == Typed /\ Disconnect => Typed'
<1> SUFFICES ASSUME Typed, Disconnect PROVE Typed'
  OBVIOUS
<1>1. <<>> \in Seq(Messages) /\ <<>> \in Seq(Acks)
  OBVIOUS
<1>2. started' \subseteq Ids /\ stopped' \in [Ids -> Heard \union {"open"}]
  BY DEF Disconnect, LostReceipt, Typed, TypeOK, Heard
<1>3. live' \in BOOLEAN
  BY DEF Disconnect
<1> QED
  BY <1>1, <1>2, <1>3
     DEF Disconnect, Typed, TypeOK, WiresTyped, EpochFollows, sessionVars, yieldVars, playerVars

-----------------------------------------------------------------------------
(* What the player does with a message, kind by kind. *)

About(m) == <<m.resp, m.chunk>>

Takes(m) ==
    /\ m.kind = "audio" /\ About(m) \in Ids
    /\ TakeAudio(m, About(m))
    /\ UNCHANGED <<cancelled, stopAsked, yielding, paused, heard>>
Stops(m) ==
    /\ m.kind = "cancel_audio" /\ About(m) \in Ids
    /\ StopSound(About(m))
    /\ stopAsked' = stopAsked \union {About(m)}
    /\ UNCHANGED <<owner, epochOf, yielding, gain, paused, heard, refused>>
Invalidates(m) ==
    /\ m.kind = "invalidate"
    /\ Invalidate(m)
    /\ UNCHANGED <<up, owner, paused, heard, refused>>
BesidesYield == <<up, sound, owner, cancelled, stopAsked, epochOf, heard, refused>>
Ducks(m)   == m.kind = "duck" /\ Duck(m) /\ UNCHANGED BesidesYield
Unducks(m) == m.kind = "resume" /\ Unduck(m) /\ UNCHANGED BesidesYield

LEMMA Received ==
    ASSUME NEW m \in Messages, Receive(m)
    PROVE  Takes(m) \/ Stops(m) \/ Invalidates(m) \/ Ducks(m) \/ Unducks(m)
<1>1. m.kind \in {"audio", "cancel_audio", "invalidate", "duck", "resume"}
  BY DEF Messages
<1>2. m.kind \in {"audio", "cancel_audio"} => About(m) \in Ids
  BY DEF Messages, Ids, About
<1>3. CASE m.kind = "audio"
  BY <1>2, <1>3 DEF Receive, Takes, About
<1>4. CASE m.kind = "cancel_audio"
  BY <1>2, <1>4 DEF Receive, Stops, About
<1>5. CASE m.kind = "invalidate"
  BY <1>5 DEF Receive, Invalidates
<1>6. CASE m.kind = "duck"
  BY <1>6 DEF Receive, Ducks, BesidesYield
<1>7. CASE m.kind = "resume"
  BY <1>7 DEF Receive, Unducks, BesidesYield
<1> QED BY <1>1, <1>3, <1>4, <1>5, <1>6, <1>7

LEMMA MessageParts ==
    ASSUME NEW m \in Messages
    PROVE  m.resp \in Responses /\ m.resp \in Nat /\ m.epoch \in Epochs /\ m.epoch \in Nat
BY PlaybackBounds DEF Messages, Responses, Epochs

LEMMA OnMessageParts ==
    ASSUME Typed, OnMessage
    PROVE  \E m \in Messages :
              /\ m = Head(down) /\ down # <<>> /\ down' = Tail(down)
              /\ down' \in Seq(Messages)
              /\ Takes(m) \/ Stops(m) \/ Invalidates(m) \/ Ducks(m) \/ Unducks(m)
              /\ UNCHANGED ServerVars
<1>1. Head(down) \in Messages /\ Tail(down) \in Seq(Messages)
  BY HeadTyped DEF OnMessage, Typed, WiresTyped
<1>2. PICK m \in Messages : m = Head(down)
  BY <1>1
<1>3. Receive(m)
  BY <1>2 DEF OnMessage
<1> QED BY <1>1, <1>2, <1>3, Received DEF OnMessage

PlayerTypes ==
    /\ up \in Seq(Acks)
    /\ stopAsked \subseteq Ids /\ refused \subseteq Ids /\ cancelled \subseteq Responses
    /\ heard \in [Ids -> Heard]
    /\ sound \in [Ids -> {"absent", "scheduled", "audible", "stopping", "done"}]
    /\ owner \in 0 .. MaxResponses /\ yielding \in 0 .. MaxResponses
    /\ epochOf \in [Responses -> 0 .. MaxResponses]
    /\ gain \in {"full", "ducked", "muted"}
    /\ paused \in BOOLEAN

LEMMA PlayerTypesSuffice ==
    ASSUME Typed, PlayerTypes', UNCHANGED ServerVars, down' \in Seq(Messages)
    PROVE  Typed'
BY DEF Typed, TypeOK, WiresTyped, EpochFollows, PlayerTypes, ServerVars, sessionVars, taskVars,
       yieldVars

LEMMA ReceiveTypes ==
    ASSUME Typed, NEW m \in Messages,
           Takes(m) \/ Stops(m) \/ Invalidates(m) \/ Ducks(m) \/ Unducks(m)
    PROVE  PlayerTypes'
<1> USE MessageParts DEF PlayerTypes, Typed, TypeOK, WiresTyped
<1>1. CASE Takes(m)
  <2>0. Ack("stopped", About(m), "nothing") \in Acks
    BY <1>1, AboutSound DEF Takes, Heard
  <2>1. up' \in Seq(Acks)
    <3>1. UNCHANGED up \/ up' = Append(up, Ack("stopped", About(m), "nothing"))
      BY <1>1 DEF Takes, TakeAudio, Foreign
    <3> QED BY <2>0, <3>1, AckTyped
  <2>2. owner' \in 0 .. MaxResponses
    BY <1>1 DEF Takes, TakeAudio, Foreign, Responses
  <2>3. epochOf' \in [Responses -> 0 .. MaxResponses]
    BY <1>1 DEF Takes, TakeAudio, Foreign, Epochs
  <2>4. gain' \in {"full", "ducked", "muted"}
    BY <1>1 DEF Takes, TakeAudio, Foreign, GainFor
  <2>5. sound' \in [Ids -> {"absent", "scheduled", "audible", "stopping", "done"}]
    BY <1>1 DEF Takes, TakeAudio, Foreign
  <2>6. refused' \subseteq Ids
    BY <1>1 DEF Takes, TakeAudio, Foreign
  <2> QED BY <1>1, <2>1, <2>2, <2>3, <2>4, <2>5, <2>6 DEF Takes
<1>2. CASE Stops(m)
  <2>0. Ack("stopped", About(m), "nothing") \in Acks
    BY <1>2, AboutSound DEF Stops, Heard
  <2>1. up' \in Seq(Acks)
    <3>1. UNCHANGED up \/ up' = Append(up, Ack("stopped", About(m), "nothing"))
      BY <1>2 DEF Stops, StopSound
    <3> QED BY <2>0, <3>1, AckTyped
  <2>2. sound' \in [Ids -> {"absent", "scheduled", "audible", "stopping", "done"}]
    <3>1. UNCHANGED sound \/ sound' = [sound EXCEPT ![About(m)] = "stopping"]
      BY <1>2 DEF Stops, StopSound
    <3> QED BY <3>1
  <2>3. cancelled' \subseteq Responses
    BY <1>2, IdParts DEF Stops, StopSound
  <2>4. stopAsked' \subseteq Ids
    BY <1>2 DEF Stops
  <2> QED BY <1>2, <2>1, <2>2, <2>3, <2>4 DEF Stops
<1>3. CASE Invalidates(m)
  <2>1. epochOf' \in [Responses -> 0 .. MaxResponses]
    BY <1>3 DEF Invalidates, Invalidate, Epochs
  <2>2. yielding' \in 0 .. MaxResponses
    BY <1>3, PlaybackBounds DEF Invalidates, Invalidate
  <2>3. sound' \in [Ids -> {"absent", "scheduled", "audible", "stopping", "done"}]
    BY <1>3 DEF Invalidates, Invalidate
  <2>4. stopAsked' \subseteq Ids /\ cancelled' \subseteq Responses
    BY <1>3 DEF Invalidates, Invalidate, ActiveAudio
  <2> QED BY <1>3, <2>1, <2>2, <2>3, <2>4 DEF Invalidates, Invalidate
<1>4. CASE Ducks(m) \/ Unducks(m)
  <2>1. yielding' \in 0 .. MaxResponses
    BY <1>4, PlaybackBounds DEF Ducks, Duck, Unducks, Unduck, Responses
  <2>2. paused' \in BOOLEAN
    BY <1>4 DEF Ducks, Duck, Unducks, Unduck
  <2>3. gain' \in {"full", "ducked", "muted"}
    BY <1>4 DEF Ducks, Duck, Unducks, Unduck
  <2> QED BY <1>4, <2>1, <2>2, <2>3 DEF Ducks, Unducks, BesidesYield
<1> QED BY <1>1, <1>2, <1>3, <1>4

SoundStep(i) == Begins(i) \/ PlaysOut(i) \/ FallsSilent(i) \/ SpeechErrs(i)

LEMMA SoundTypes ==
    ASSUME Typed, NEW i \in Ids, SoundStep(i)
    PROVE  Typed'
<1> USE DEF Typed, TypeOK, WiresTyped
<1>1. UNCHANGED BesidesSound
  BY DEF SoundStep, Begins, PlaysOut, FallsSilent, SpeechErrs
<1>2. \E kind \in {"started", "stopped", "completed"}, h \in Heard : up' = Append(up, Ack(kind, i, h))
  BY DEF SoundStep, Begins, PlaysOut, FallsSilent, SpeechErrs, Heard
<1>3. up' \in Seq(Acks)
  BY <1>2, AboutSound
<1>4. owner' \in 0 .. MaxResponses
  BY PlaybackBounds DEF SoundStep, Begins, PlaysOut, FallsSilent, SpeechErrs, Leave, ReleaseOwner
<1>5. sound' \in [Ids -> {"absent", "scheduled", "audible", "stopping", "done"}]
  <2>1. \/ sound' = [sound EXCEPT ![i] = "audible"]
        \/ sound' = [sound EXCEPT ![i] = "done"]
    BY DEF SoundStep, Begins, PlaysOut, FallsSilent, SpeechErrs, Leave
  <2> QED BY <2>1
<1>6. heard' \in [Ids -> Heard]
  <2>1. UNCHANGED heard \/ \E claim \in {"part", "all"} : heard' = [heard EXCEPT ![i] = claim]
    BY DEF SoundStep, Begins, PlaysOut, FallsSilent, SpeechErrs
  <2> QED BY <2>1 DEF Heard
<1>7. PlayerTypes'
  BY <1>1, <1>3, <1>4, <1>5, <1>6 DEF PlayerTypes, BesidesSound
<1> QED BY <1>1, <1>7, PlayerTypesSuffice DEF BesidesSound

LEMMA InitTypes == Init => Typed
<1> SUFFICES ASSUME Init PROVE Typed
  OBVIOUS
<1>1. <<>> \in Seq(Messages) /\ <<>> \in Seq(Acks)
  OBVIOUS
<1>2. 0 \in 0 .. MaxResponses /\ 0 \in 0 .. MaxOnsets
  BY PlaybackBounds
<1>3. WiresTyped
  BY <1>1 DEF Init, WiresTyped
<1>4. EpochFollows
  BY DEF Init, EpochFollows
<1>5. /\ resp \in 0 .. MaxResponses /\ pepoch \in 0 .. MaxResponses /\ onsets \in 0 .. MaxOnsets
      /\ owner \in 0 .. MaxResponses /\ yielding \in 0 .. MaxResponses
      /\ epochOf \in [Responses -> 0 .. MaxResponses]
  BY <1>2 DEF Init
<1>6. /\ cancel \in BOOLEAN /\ invalid \in BOOLEAN /\ resumed \in BOOLEAN
      /\ live \in BOOLEAN /\ paused \in BOOLEAN
  BY DEF Init
<1> QED
  BY <1>3, <1>4, <1>5, <1>6 DEF Init, Typed, TypeOK, Heard

LEMMA NextTypes == Typed /\ [Next]_vars => Typed'
<1> SUFFICES ASSUME Typed, [Next]_vars PROVE Typed'
  OBVIOUS
<1>1. CASE Session
  BY <1>1, SessionTypes
<1>2. ASSUME NEW i \in Ids, Play(i) PROVE Typed'
  BY <1>2, PlayTypes
<1>3. CASE Acknowledge \/ Disconnect
  BY <1>3, AcknowledgeTypes, DisconnectTypes
<1>4. CASE OnMessage
  BY <1>4, OnMessageParts, ReceiveTypes, PlayerTypesSuffice
<1>5. ASSUME NEW i \in Ids, SoundStep(i) PROVE Typed'
  BY <1>5, SoundTypes
<1>6. CASE UNCHANGED vars
  BY <1>6 DEF vars, sessionVars, taskVars, yieldVars, playerVars, Typed, TypeOK, WiresTyped,
     EpochFollows
<1> QED BY <1>1, <1>2, <1>3, <1>4, <1>5, <1>6 DEF Next, Player, SoundStep

\* Every reachable state of the output, the wires and the player is typed, and
\* the epoch of the playback never runs ahead of the responses.
THEOREM PlaybackTypes == Spec => []TypeOK
<1>1. Spec => []Typed
  BY InitTypes, NextTypes, PTL DEF Spec
<1>2. Typed => TypeOK
  BY DEF Typed
<1> QED BY <1>1, <1>2, PTL

-----------------------------------------------------------------------------
(* The inductive invariant: what the two wires may carry, and what the player *)
(* may do with it, given the session's place.                                 *)

Sent  == {down[k] : k \in DOMAIN down}
Acked == {up[k] : k \in DOMAIN up}

Coming(i) == \E m \in Sent : m.kind = "audio" /\ About(m) = i
Quiet(i)  == sound[i] \in {"absent", "done"} /\ ~Coming(i)
Fresh(i)  == task[i] \in {"none", "created"}

\* Only the current response has work.
OneAtATime ==
    \A i \in Ids : /\ i[1] < resp => Over(i)
                   /\ i[1] > resp => task[i] = "none"

\* A chunk that was not sent has left no trace.
FreshIsUntouched ==
    \A i \in Ids : Fresh(i) =>
        /\ i \notin started /\ stopped[i] = "open" /\ sound[i] = "absent"
        /\ \A m \in Sent : About(m) # i
        /\ \A a \in Acked : a.id # i

\* A chunk is sent once, before anybody asks to stop it.
SentOnce ==
    \A k, l \in DOMAIN down :
        /\ down[k].kind = "audio" => sound[About(down[k])] = "absent"
        /\ down[k].kind = "audio" /\ About(down[l]) = About(down[k]) =>
              /\ down[l].kind = "audio" => k = l
              /\ down[l].kind = "cancel_audio" => k < l

\* Messages come in the order of the responses, and the player is never ahead.
InOrder ==
    \A k \in DOMAIN down :
        /\ down[k].resp <= resp
        /\ \A l \in DOMAIN down : k < l => down[k].resp <= down[l].resp
        /\ \A i \in Ids : sound[i] # "absent" => i[1] <= down[k].resp

Hearing ==
    \A i \in Ids : /\ sound[i] \in {"absent", "scheduled"} => heard[i] = "nothing"
                   /\ sound[i] = "stopping" => i \in stopAsked

\* Nothing claims more than was heard.
Claims ==
    /\ \A a \in Acked : Contract!AtLeast(heard[a.id], a.heard)
    /\ \A i \in Ids : stopped[i] # "open" => Contract!AtLeast(heard[i], stopped[i])

\* A chunk that is said to have stopped is silent for good.
Silence ==
    /\ ~live => down = <<>> /\ up = <<>>
    /\ live => /\ \A a \in Acked : a.kind \in {"stopped", "completed"} => Quiet(a.id)
               /\ \A i \in Ids : stopped[i] # "open" \/ task[i] = "ended" => Quiet(i)

\* Playback is owned by the response whose sounds are active, or, with none, by one
\* that the browser could not speak.
Ownership ==
    /\ \A i \in ActiveAudio : i[1] = owner
    /\ owner # 0 /\ ActiveAudio = {} => \E j \in Ids : j[1] = owner /\ Unspoken(j)

OwnerInOrder == owner <= resp /\ \A k \in DOMAIN down : owner <= down[k].resp

CannotSpeak == ~synthesizer => \A i \in Ids : Speech(i) => sound[i] = "absent"

Gains ==
    /\ yielding # 0 => gain # "muted"
    /\ \A i \in Ids :
          Current(i) /\ sound[i] \in {"scheduled", "audible"} /\ i[1] \notin cancelled /\ ~Speech(i)
          => gain # "muted"

PlayInv ==
    /\ OneAtATime /\ FreshIsUntouched /\ SentOnce /\ InOrder /\ Hearing /\ Claims /\ Silence
    /\ Ownership /\ OwnerInOrder /\ CannotSpeak /\ Gains /\ RefusedForCause

-----------------------------------------------------------------------------
(* The wires. *)

\* The wire to the browser keeps what it carries and may take more behind it.
Extends ==
    /\ \A k \in DOMAIN down : k \in DOMAIN down' /\ down'[k] = down[k]
    /\ \A k \in DOMAIN down, l \in DOMAIN down' : l \notin DOMAIN down => k < l
    /\ ~live => down' = down

Added == {down'[k] : k \in DOMAIN down' \ DOMAIN down}

LEMMA Appended ==
    ASSUME WiresTyped, NEW ms \in Seq(Messages), Send(ms)
    PROVE  Extends /\ Added \subseteq {ms[j] : j \in DOMAIN ms}
<1> USE DEF Extends, Added
<1>1. CASE ~live
  BY <1>1 DEF Send
<1>2. CASE live
  <2> USE DEF WiresTyped
  <2>1. down' = down \o ms
    BY <1>2 DEF Send
  <2>2. DOMAIN down = 1 .. Len(down) /\ DOMAIN down' = 1 .. (Len(down) + Len(ms))
    BY <2>1
  <2>3. Len(down) \in Nat /\ Len(ms) \in Nat
    OBVIOUS
  <2>4. \A k \in DOMAIN down : k \in DOMAIN down' /\ down'[k] = down[k]
    BY <2>1, <2>2, <2>3
  <2>5. \A k \in DOMAIN down, l \in DOMAIN down' : l \notin DOMAIN down => k < l
    BY <2>2, <2>3
  <2>6. ASSUME NEW k \in DOMAIN down', k \notin DOMAIN down
        PROVE  down'[k] \in {ms[j] : j \in DOMAIN ms}
    <3>1. k - Len(down) \in DOMAIN ms /\ down'[k] = ms[k - Len(down)]
      BY <2>1, <2>2, <2>3, <2>6
    <3> QED BY <3>1
  <2> QED BY <1>2, <2>4, <2>5, <2>6
<1> QED BY <1>1, <1>2

LEMMA Unextended == UNCHANGED down => Extends /\ Added = {}
BY DEF Extends, Added

LEMMA OneAppended ==
    ASSUME WiresTyped, NEW m \in Messages, Send(<<m>>)
    PROVE  /\ Extends /\ Added \subseteq {m}
           /\ \A k, l \in DOMAIN down' : k \notin DOMAIN down /\ l \notin DOMAIN down => k = l
<1>1. <<m>> \in Seq(Messages) /\ DOMAIN <<m>> = {1} /\ <<m>>[1] = m /\ Len(<<m>>) = 1
  OBVIOUS
<1>2. Extends /\ Added \subseteq {m}
  BY <1>1, Appended
<1>3. DOMAIN down = 1 .. Len(down) /\ Len(down) \in Nat
  BY DEF WiresTyped
<1>4. DOMAIN down' = DOMAIN down \/ DOMAIN down' = 1 .. (Len(down) + 1)
  BY <1>1 DEF Send, WiresTyped
<1> QED BY <1>2, <1>3, <1>4

LEMMA SentAfter ==
    ASSUME Extends
    PROVE  Sent \subseteq Sent' /\ Sent' = Sent \union Added
BY DEF Extends, Added, Sent

\* The first message is taken off the wire.
Shifts ==
    /\ 1 \in DOMAIN down
    /\ \A k \in DOMAIN down' : k + 1 \in DOMAIN down /\ down'[k] = down[k + 1]
    /\ \A k \in DOMAIN down' : k \in Nat /\ k > 0
    /\ \A k \in DOMAIN down : k \in Nat /\ k > 0 /\ (k # 1 => k - 1 \in DOMAIN down')

LEMMA TakenOff ==
    ASSUME WiresTyped, down # <<>>, down' = Tail(down)
    PROVE  Shifts /\ Head(down) = down[1] /\ Sent' \subseteq Sent
<1>1. DOMAIN down = 1 .. Len(down) /\ Len(down) \in Nat /\ Len(down) > 0
  BY DEF WiresTyped
<1>2. DOMAIN down' = 1 .. (Len(down) - 1)
  BY <1>1 DEF WiresTyped
<1>3. \A k \in DOMAIN down' : down'[k] = down[k + 1]
  BY <1>1, <1>2 DEF WiresTyped
<1>4. Shifts
  BY <1>1, <1>2, <1>3 DEF Shifts
<1>5. Head(down) = down[1]
  BY <1>1 DEF WiresTyped
<1>6. Sent' \subseteq Sent
  BY <1>4 DEF Shifts, Sent
<1> QED BY <1>4, <1>5, <1>6

LEMMA AckAdded ==
    ASSUME WiresTyped, NEW a \in Acks, up' = Append(up, a)
    PROVE  Acked' = Acked \union {a}
<1>1. DOMAIN up = 1 .. Len(up) /\ Len(up) \in Nat /\ DOMAIN up' = 1 .. (Len(up) + 1)
  BY DEF WiresTyped
<1>2. up'[Len(up) + 1] = a /\ \A k \in 1 .. Len(up) : up'[k] = up[k]
  BY <1>1 DEF WiresTyped
<1> QED BY <1>1, <1>2 DEF Acked

LEMMA AckTaken ==
    ASSUME WiresTyped, up # <<>>, up' = Tail(up)
    PROVE  Head(up) \in Acked /\ Acked' \subseteq Acked
<1>1. DOMAIN up = 1 .. Len(up) /\ Len(up) \in Nat /\ Len(up) > 0
  BY DEF WiresTyped
<1>2. DOMAIN up' = 1 .. (Len(up) - 1)
  BY <1>1 DEF WiresTyped
<1>3. Head(up) = up[1] /\ \A k \in DOMAIN up' : up'[k] = up[k + 1]
  BY <1>1, <1>2 DEF WiresTyped
<1> QED BY <1>1, <1>2, <1>3 DEF Acked

LEMMA WireParts ==
    ASSUME WiresTyped
    PROVE  /\ Sent \subseteq Messages /\ Acked \subseteq Acks
           /\ \A k \in DOMAIN down : down[k] \in Sent
BY DEF WiresTyped, Sent, Acked

-----------------------------------------------------------------------------
(* What the session and a play() do that starts no sound: they may ask the    *)
(* browser for something about the response or about a chunk under way.       *)

Speaks ==
    /\ UNCHANGED <<resp, mode, synthesizer, started, stopped, live, up, playerVars>>
    /\ Extends
    /\ \A m \in Added : /\ m.kind # "audio" /\ m.resp = resp
                        /\ \A i \in Ids : Fresh(i) => About(m) # i
    /\ \A i \in Ids : /\ Fresh(i)' => Fresh(i)
                      /\ i[1] # resp => task'[i] = task[i]
                      /\ task[i] = "failed" => task'[i] = "failed"
                      /\ live /\ task'[i] = "ended" => Quiet(i)

LEMMA SpeaksKeeps ==
    ASSUME Typed, Typed', PlayInv, Speaks
    PROVE  PlayInv'
<1> USE DEF PlayInv
<1>1. /\ UNCHANGED <<resp, mode, synthesizer, started, stopped, live, up>>
      /\ UNCHANGED <<sound, owner, cancelled, stopAsked, epochOf, yielding, gain, paused, heard, refused>>
  BY DEF Speaks, playerVars
<1>2. Sent' = Sent \union Added /\ Acked' = Acked
  BY <1>1, SentAfter DEF Speaks, Acked
<1>3. \A i \in Ids : Coming(i)' <=> Coming(i)
  BY <1>2 DEF Coming, Speaks
<1>4. \A i \in Ids : Quiet(i)' <=> Quiet(i)
  BY <1>1, <1>3 DEF Quiet
<1>5. \A k \in DOMAIN down : k \in DOMAIN down' /\ down'[k] = down[k]
  BY DEF Speaks, Extends
<1>6. \A k \in DOMAIN down' : k \notin DOMAIN down => down'[k] \in Added
  BY DEF Added
<1>7. \A i \in Ids : i[1] \in Nat /\ resp \in Nat
  BY IdParts, PlaybackBounds DEF Typed, TypeOK
<1>8. OneAtATime'
  BY <1>1, <1>7 DEF OneAtATime, Over, Speaks
<1>9. FreshIsUntouched'
  <2> SUFFICES ASSUME NEW i \in Ids, Fresh(i)'
               PROVE  /\ i \notin started /\ stopped[i] = "open" /\ sound[i] = "absent"
                      /\ \A m \in Sent' : About(m) # i
                      /\ \A a \in Acked : a.id # i
    BY <1>1, <1>2 DEF FreshIsUntouched
  <2>1. Fresh(i)
    BY DEF Speaks
  <2>2. \A m \in Added : About(m) # i
    BY <2>1 DEF Speaks
  <2> QED BY <1>2, <2>1, <2>2 DEF FreshIsUntouched
<1>10. SentOnce'
  <2> SUFFICES ASSUME NEW k \in DOMAIN down', NEW l \in DOMAIN down', down'[k].kind = "audio"
               PROVE  /\ sound[About(down'[k])] = "absent"
                      /\ About(down'[l]) = About(down'[k]) =>
                            /\ down'[l].kind = "audio" => k = l
                            /\ down'[l].kind = "cancel_audio" => k < l
    BY <1>1 DEF SentOnce
  <2>1. k \in DOMAIN down
    BY <1>6 DEF Speaks
  <2>2. CASE l \in DOMAIN down
    BY <1>5, <2>1, <2>2 DEF SentOnce
  <2>3. CASE l \notin DOMAIN down
    <3>1. k < l
      BY <2>1, <2>3 DEF Speaks, Extends
    <3>2. down'[l].kind # "audio"
      BY <1>6, <2>3 DEF Speaks
    <3> QED BY <1>5, <2>1, <3>1, <3>2 DEF SentOnce
  <2> QED BY <2>2, <2>3
<1>11. InOrder'
  <2>1. \A i \in Ids : sound[i] # "absent" => i[1] <= resp
    BY <1>7 DEF FreshIsUntouched, Fresh, OneAtATime
  <2>2. \A k \in DOMAIN down' : k \notin DOMAIN down => down'[k].resp = resp
    BY <1>6 DEF Speaks
  <2>3. \A k \in DOMAIN down' : down'[k].resp <= resp
    BY <1>5, <1>7, <2>2, PlaybackBounds DEF InOrder, Typed, TypeOK
  <2>4. \A k, l \in DOMAIN down' : k < l => down'[k].resp <= down'[l].resp
    <3> SUFFICES ASSUME NEW k \in DOMAIN down', NEW l \in DOMAIN down', k < l
                 PROVE  down'[k].resp <= down'[l].resp
      OBVIOUS
    <3>1. CASE l \notin DOMAIN down
      BY <2>2, <2>3, <3>1
    <3>2. CASE l \in DOMAIN down /\ k \in DOMAIN down
      BY <1>5, <3>2 DEF InOrder
    <3>3. CASE l \in DOMAIN down /\ k \notin DOMAIN down
      <4>1. l < k /\ l \in Nat /\ k \in Nat
        BY <3>3 DEF Speaks, Extends, Typed, WiresTyped
      <4> QED BY <4>1
    <3> QED BY <3>1, <3>2, <3>3
  <2>5. \A k \in DOMAIN down', i \in Ids : sound[i] # "absent" => i[1] <= down'[k].resp
    BY <1>5, <2>1, <2>2 DEF InOrder
  <2> QED BY <1>1, <2>3, <2>4, <2>5 DEF InOrder
<1>12. Hearing' /\ Claims'
  BY <1>1, <1>2 DEF Hearing, Claims
<1>13. Silence'
  <2>1. ~live => down' = <<>> /\ up' = <<>>
    BY <1>1 DEF Silence, Speaks, Extends
  <2>2. live => \A a \in Acked' : a.kind \in {"stopped", "completed"} => Quiet(a.id)'
    <3> SUFFICES ASSUME live, NEW a \in Acked, a.kind \in {"stopped", "completed"}
                 PROVE  Quiet(a.id)'
      BY <1>2
    <3>1. a.id \in Ids
      BY WireParts DEF Acks, Typed
    <3> QED BY <1>4, <3>1 DEF Silence
  <2>3. live => \A i \in Ids : stopped[i] # "open" \/ task'[i] = "ended" => Quiet(i)'
    BY <1>4 DEF Silence, Speaks
  <2> QED BY <1>1, <2>1, <2>2, <2>3 DEF Silence
<1>14. Gains' /\ CannotSpeak'
  BY <1>1 DEF Gains, CannotSpeak, Current, Speech
<1>15. \A i \in Ids : Unspoken(i) => Unspoken(i)'
  BY <1>1 DEF Unspoken, Speech, Speaks, Fresh
<1>16. Ownership' /\ RefusedForCause'
  BY <1>1, <1>15 DEF Ownership, ActiveAudio, RefusedForCause, Speaks
<1>17. OwnerInOrder'
  BY <1>1, <1>5, <1>6 DEF OwnerInOrder, Speaks
<1> QED BY <1>8, <1>9, <1>10, <1>11, <1>12, <1>13, <1>14, <1>16, <1>17

\* A message about the whole response is about no chunk.
LEMMA AboutNoChunk ==
    ASSUME NEW m \in Messages, m.chunk = 0, NEW i \in Ids
    PROVE  About(m) # i
BY IdParts DEF About

LEMMA ResponseMessage ==
    ASSUME NEW kind \in {"invalidate", "duck", "resume"}
    PROVE  LET m == Message(kind, resp, 0)
               n == [m EXCEPT !.epoch = pepoch + 1]
           IN  /\ m.kind = kind /\ m.resp = resp /\ m.chunk = 0
               /\ n.kind = kind /\ n.resp = resp /\ n.chunk = 0
BY DEF Message

\* Nothing ends that had not ended, unless it is quiet.
LEMMA EndedBefore ==
    ASSUME PlayInv, NEW i \in Ids, live, task[i] = "ended" \/ stopped[i] # "open"
    PROVE  Quiet(i)
BY DEF PlayInv, Silence

LEMMA AnnouncesSpeaks ==
    ASSUME Typed, PlayInv, NEW m \in Messages, Send(<<m>>),
           m.kind # "audio", m.resp = resp, m.chunk = 0,
           UNCHANGED <<resp, mode, synthesizer, taskVars, live, up, playerVars>>
    PROVE  Speaks
<1>1. Extends /\ Added \subseteq {m}
  BY OneAppended DEF Typed
<1>2. \A i \in Ids : About(m) # i
  BY AboutNoChunk
<1>3. UNCHANGED task
  BY DEF taskVars
<1>4. \A i \in Ids : Fresh(i)' => Fresh(i)
  BY <1>3 DEF Fresh
<1>5. \A i \in Ids : live /\ task'[i] = "ended" => Quiet(i)
  BY <1>3, EndedBefore
<1> QED BY <1>1, <1>2, <1>3, <1>4, <1>5 DEF Speaks, taskVars

LEMMA IdleSpeaks ==
    ASSUME Typed, PlayInv, UNCHANGED <<resp, mode, synthesizer, taskVars, live, down, up, playerVars>>
    PROVE  Speaks
<1>1. Extends /\ Added = {}
  BY Unextended
<1>2. UNCHANGED task
  BY DEF taskVars
<1>3. \A i \in Ids : Fresh(i)' => Fresh(i)
  BY <1>2 DEF Fresh
<1>4. \A i \in Ids : live /\ task'[i] = "ended" => Quiet(i)
  BY <1>2, EndedBefore
<1> QED BY <1>1, <1>2, <1>3, <1>4 DEF Speaks, taskVars

LEMMA SessionSpeaks ==
    ASSUME Typed, PlayInv,
           Interrupt \/ FailResponse \/ SpeechOnset \/ SpeechEnds \/ Resume
    PROVE  Speaks
<1>1. CASE Interrupt
  <2>1. [Message("invalidate", resp, 0) EXCEPT !.epoch = pepoch + 1] \in Messages
    BY <1>1, AboutResponse DEF Interrupt
  <2> QED BY <1>1, <2>1, ResponseMessage, AnnouncesSpeaks DEF Interrupt
<1>2. CASE FailResponse
  BY <1>2, IdleSpeaks DEF FailResponse
<1>3. CASE SpeechOnset
  <2>1. Message("duck", resp, 0) \in Messages
    BY <1>3, AboutResponse DEF SpeechOnset
  <2>2. UNCHANGED <<resp, mode, synthesizer, taskVars, live, up, playerVars>>
    BY <1>3 DEF SpeechOnset, sessionVars
  <2>3. UNCHANGED down \/ Send(<<Message("duck", resp, 0)>>)
    BY <1>3 DEF SpeechOnset
  <2> QED BY <2>1, <2>2, <2>3, ResponseMessage, AnnouncesSpeaks, IdleSpeaks
<1>4. CASE SpeechEnds
  BY <1>4, IdleSpeaks DEF SpeechEnds, sessionVars
<1>5. CASE Resume
  <2>1. Message("resume", resp, 0) \in Messages
    BY <1>5, AboutResponse DEF Resume, Typed, EpochFollows
  <2>2. UNCHANGED <<resp, mode, synthesizer, taskVars, live, up, playerVars>>
    BY <1>5 DEF Resume, sessionVars
  <2>3. UNCHANGED down \/ Send(<<Message("resume", resp, 0)>>)
    BY <1>5 DEF Resume
  <2> QED BY <2>1, <2>2, <2>3, ResponseMessage, AnnouncesSpeaks, IdleSpeaks
<1> QED BY <1>1, <1>2, <1>3, <1>4, <1>5

\* A chunk with work is one of the current response.
LEMMA WorkIsCurrent ==
    ASSUME Typed, PlayInv, NEW i \in Ids, ~Over(i)
    PROVE  i[1] = resp
<1>1. i[1] \in Nat /\ resp \in Nat
  BY IdParts, PlaybackBounds DEF Typed, TypeOK
<1>2. ~(i[1] < resp) /\ ~(i[1] > resp)
  BY DEF PlayInv, OneAtATime, Over
<1> QED BY <1>1, <1>2

LEMMA StopRequest ==
    ASSUME Typed, NEW i \in Ids
    PROVE  /\ CancelAudio(i) \in Seq(Messages)
           /\ \A j \in DOMAIN CancelAudio(i) : CancelAudio(i)[j] = Message("cancel_audio", i[1], i[2])
           /\ Message("cancel_audio", i[1], i[2]).kind = "cancel_audio"
           /\ Message("cancel_audio", i[1], i[2]).resp = i[1]
           /\ About(Message("cancel_audio", i[1], i[2])) = i
<1>1. About(Message("cancel_audio", i[1], i[2])) = i
  BY IdParts DEF About, Message
<1>2. \A m, j : j \in DOMAIN <<m>> => <<m>>[j] = m
  OBVIOUS
<1>3. \A j \in DOMAIN CancelAudio(i) : CancelAudio(i)[j] = Message("cancel_audio", i[1], i[2])
  BY <1>2 DEF CancelAudio
<1>4. /\ Message("cancel_audio", i[1], i[2]).kind = "cancel_audio"
      /\ Message("cancel_audio", i[1], i[2]).resp = i[1]
  BY DEF Message
<1> QED BY <1>1, <1>3, <1>4, AboutChunk

LEMMA ScheduleSpeaks ==
    ASSUME Typed, PlayInv, NEW i \in Ids, Schedule(i)
    PROVE  Speaks
<1>1. Extends /\ Added = {}
  BY Unextended DEF Schedule
<1>2. i[1] = resp /\ task' = [task EXCEPT ![i] = "created"]
  BY DEF Schedule, Current
<1>3. UNCHANGED <<resp, mode, synthesizer, started, stopped, live, up, playerVars>>
  BY DEF Schedule, sessionVars
<1>4. \A j \in Ids : task'[j] = IF j = i THEN "created" ELSE task[j]
  BY <1>2 DEF Typed, TypeOK
<1>5. \A j \in Ids : Fresh(j)' => Fresh(j)
  BY <1>4 DEF Fresh, Schedule
<1>6. \A j \in Ids : live /\ task'[j] = "ended" => Quiet(j)
  BY <1>4, EndedBefore
<1>7. task[i] = "none"
  BY DEF Schedule
<1> QED BY <1>1, <1>2, <1>3, <1>4, <1>5, <1>6, <1>7 DEF Speaks

\* What play() puts on the wire after it sent its chunk are requests to stop it.
LEMMA PlayRequests ==
    ASSUME Typed, NEW i \in Ids, Play(i), ~PlaySends(i)
    PROVE  /\ Extends
           /\ Added \subseteq {Message("cancel_audio", i[1], i[2])}
           /\ Added # {} => ~Fresh(i)
<1> DEFINE request == Message("cancel_audio", i[1], i[2])
           Requests(ms) == ms \in Seq(Messages) /\ \A j \in DOMAIN ms : ms[j] = request
<1>1. Requests(<<>>) /\ Requests(CancelAudio(i))
  <2>1. <<>> \in Seq(Messages) /\ DOMAIN <<>> = {}
    OBVIOUS
  <2> QED BY <2>1, StopRequest
<1>2. ASSUME NEW a, NEW b, Requests(a), Requests(b) PROVE Requests(a \o b)
  <2>1. a \o b \in Seq(Messages) /\ Len(a \o b) = Len(a) + Len(b)
    BY <1>2, ConcatProperties
  <2>2. Len(a) \in Nat /\ DOMAIN a = 1 .. Len(a) /\ Len(b) \in Nat /\ DOMAIN b = 1 .. Len(b)
    BY <1>2
  <2>3. DOMAIN (a \o b) = 1 .. (Len(a) + Len(b))
    BY <2>1
  <2>4. ASSUME NEW j \in DOMAIN (a \o b) PROVE (a \o b)[j] = request
    <3>1. CASE j <= Len(a)
      BY <1>2, <2>2, <2>3, <3>1
    <3>2. CASE j > Len(a)
      BY <1>2, <2>2, <2>3, <3>2
    <3> QED BY <2>2, <2>3, <3>1, <3>2
  <2> QED BY <2>1, <2>4
<1>3. ASSUME NEW ms, Requests(ms), Send(ms) PROVE Extends /\ Added \subseteq {request}
  BY <1>3, Appended DEF Typed
<1> HIDE DEF Requests, request
<1>4. CASE UNCHANGED down
  BY <1>4, Unextended
<1>5. CASE PlayStarts(i)
  <2>1. \A a, b \in {<<>>, CancelAudio(i)} : Requests(a \o b)
    BY <1>1, <1>2
  <2>2. PICK ms : Requests(ms) /\ Send(ms)
    BY <1>5, <2>1 DEF PlayStarts
  <2>3. ~Fresh(i)
    BY <1>5 DEF PlayStarts, Fresh
  <2> QED BY <1>3, <2>2, <2>3 DEF request
<1>6. CASE PlayLeavesWait(i) /\ Send(CancelAudio(i))
  <2>1. ~Fresh(i)
    BY <1>6 DEF PlayLeavesWait, Fresh
  <2> QED BY <1>1, <1>3, <1>6, <2>1 DEF request
<1> QED BY <1>4, <1>5, <1>6 DEF Play, PlayRefuses, PlayLeavesWait, PlayEnds, PlayTimesOut

LEMMA PlaySpeaks ==
    ASSUME Typed, PlayInv, NEW i \in Ids, Play(i), ~PlaySends(i)
    PROVE  Speaks
<1>1. UNCHANGED <<resp, mode, synthesizer, started, stopped, live, up, playerVars>>
  BY DEF Play, PlayRefuses, PlayStarts, PlayLeavesWait, PlayEnds, PlayTimesOut, BesidesPlay,
     sessionVars
<1>2. PICK to \in {"waitStop", "waitEnd", "ended", "failed"} :
         /\ task' = [task EXCEPT ![i] = to]
         /\ to = "ended" => task[i] = "created" \/ stopped[i] # "open"
  BY DEF Play, PlayRefuses, PlayStarts, PlayLeavesWait, PlayEnds, PlayTimesOut, Finish
<1>3. task[i] \in {"created", "waitStart", "waitStop", "waitEnd"}
  BY DEF Play, PlayRefuses, PlayStarts, PlayLeavesWait, PlayEnds, PlayTimesOut
<1>4. \A j \in Ids : task'[j] = IF j = i THEN to ELSE task[j]
  BY <1>2 DEF Typed, TypeOK
<1>5. i[1] = resp
  BY <1>3, WorkIsCurrent DEF Over
<1>6. live /\ to = "ended" => Quiet(i)
  <2>1. CASE task[i] = "created"
    BY <2>1 DEF Quiet, Coming, Fresh, PlayInv, FreshIsUntouched
  <2>2. CASE stopped[i] # "open"
    BY <2>2, EndedBefore
  <2> QED BY <1>2, <2>1, <2>2
<1>7. \A j \in Ids : Fresh(j)' => Fresh(j)
  BY <1>2, <1>4 DEF Fresh
<1>8. \A j \in Ids : live /\ task'[j] = "ended" => Quiet(j)
  BY <1>4, <1>6, EndedBefore
<1>9. \A m \in Added : /\ m.kind # "audio" /\ m.resp = resp
                       /\ \A j \in Ids : Fresh(j) => About(m) # j
  BY <1>5, PlayRequests, StopRequest
<1> QED BY <1>1, <1>3, <1>4, <1>5, <1>7, <1>8, <1>9, PlayRequests DEF Speaks

-----------------------------------------------------------------------------
(* The other steps of the server. *)

LEMMA BeginKeeps ==
    ASSUME Typed, PlayInv, BeginResponse
    PROVE  PlayInv'
<1> USE DEF PlayInv
<1>1. /\ UNCHANGED <<mode, synthesizer, task, started, stopped, receipt, live, down, up>>
      /\ UNCHANGED <<sound, owner, cancelled, stopAsked, epochOf, yielding, gain, paused, heard, refused>>
  BY DEF BeginResponse, taskVars, playerVars
<1>2. resp \in Nat /\ resp' = resp + 1 /\ \A i \in Ids : i[1] \in Nat
  BY IdParts, PlaybackBounds DEF BeginResponse, Typed, TypeOK
<1>3. /\ Sent' = Sent /\ Acked' = Acked
      /\ \A i \in Ids : (Fresh(i)' <=> Fresh(i)) /\ (Quiet(i)' <=> Quiet(i))
  BY <1>1 DEF Sent, Acked, Fresh, Quiet, Coming
<1>4. OneAtATime'
  <2>1. \A i \in Ids : Over(i)' <=> Over(i)
    BY <1>1 DEF Over
  <2> QED BY <1>1, <1>2, <2>1 DEF OneAtATime, BeginResponse, ResponseOver, Current
<1>5. FreshIsUntouched'
  BY <1>1, <1>3 DEF FreshIsUntouched
<1>6. SentOnce' /\ Hearing' /\ Claims' /\ Ownership' /\ RefusedForCause' /\ CannotSpeak'
  BY <1>1, <1>3 DEF SentOnce, Hearing, Claims, Ownership, ActiveAudio, RefusedForCause, CannotSpeak,
                    Unspoken, Speech
<1>7. InOrder'
  <2>1. \A k \in DOMAIN down : down[k].resp \in Nat
    BY WireParts, MessageParts DEF Typed
  <2> QED BY <1>1, <1>2, <2>1 DEF InOrder
<1>8. Silence'
  BY <1>1, <1>3, WireParts DEF Silence, Typed, Acks
<1>10. OwnerInOrder'
  BY <1>1, <1>2 DEF OwnerInOrder, Typed, TypeOK
<1>9. Gains'
  <2>1. \A i \in Ids : i[1] = resp' => sound[i] = "absent"
    BY <1>2 DEF OneAtATime, FreshIsUntouched, Fresh
  <2> QED BY <1>1, <2>1 DEF Gains, Current, Speech
<1> QED BY <1>4, <1>5, <1>6, <1>7, <1>8, <1>9, <1>10

LEMMA SendsKeeps ==
    ASSUME Typed, Typed', PlayInv, NEW i \in Ids, PlaySends(i)
    PROVE  PlayInv'
<1> USE DEF PlayInv
<1> DEFINE m == Message("audio", i[1], i[2])
<1>1. /\ UNCHANGED <<resp, mode, synthesizer, started, stopped, live, up>>
      /\ UNCHANGED <<sound, owner, cancelled, stopAsked, epochOf, yielding, gain, paused, heard, refused>>
  BY DEF PlaySends, BesidesPlay, sessionVars, playerVars
<1>2. m \in Messages /\ m.kind = "audio" /\ m.resp = i[1] /\ About(m) = i
  <2>1. m.kind = "audio" /\ m.resp = i[1]
    BY DEF Message
  <2>2. About(m) = i
    BY IdParts DEF About, Message
  <2> QED BY <2>1, <2>2, AboutChunk
<1>3. /\ Extends /\ Added \subseteq {m}
      /\ \A k, l \in DOMAIN down' : k \notin DOMAIN down /\ l \notin DOMAIN down => k = l
  BY <1>2, OneAppended DEF PlaySends, Typed
<1> HIDE DEF m
<1>4. task[i] = "created" /\ \A j \in Ids : task'[j] = IF j = i THEN "waitStart" ELSE task[j]
  BY DEF PlaySends, Typed, TypeOK
<1>5. Sent' = Sent \union Added /\ Acked' = Acked
  BY <1>1, <1>3, SentAfter DEF Acked
<1>6. i[1] = resp
  BY <1>4, WorkIsCurrent DEF Over
<1>7. /\ i \notin started /\ stopped[i] = "open" /\ sound[i] = "absent"
      /\ \A n \in Sent : About(n) # i
      /\ \A a \in Acked : a.id # i
  BY <1>4 DEF FreshIsUntouched, Fresh
<1>8. \A j \in Ids : j # i => (Quiet(j)' <=> Quiet(j))
  BY <1>1, <1>2, <1>3, <1>5 DEF Quiet, Coming
<1>9. \A j \in Ids : i[1] \in Nat /\ j[1] \in Nat /\ resp \in Nat
  BY IdParts, PlaybackBounds DEF Typed, TypeOK
<1>10. /\ \A k \in DOMAIN down : k \in DOMAIN down' /\ down'[k] = down[k] /\ down[k] \in Sent
       /\ \A k \in DOMAIN down' : k \notin DOMAIN down => down'[k] = m
  BY <1>3 DEF Extends, Added, Sent
<1>11. OneAtATime'
  BY <1>1, <1>4, <1>6, <1>9 DEF OneAtATime, Over
<1>12. FreshIsUntouched'
  BY <1>1, <1>2, <1>3, <1>4, <1>5 DEF FreshIsUntouched, Fresh
<1>13. SentOnce'
  <2> SUFFICES ASSUME NEW k \in DOMAIN down', NEW l \in DOMAIN down', down'[k].kind = "audio"
               PROVE  /\ sound[About(down'[k])] = "absent"
                      /\ About(down'[l]) = About(down'[k]) =>
                            /\ down'[l].kind = "audio" => k = l
                            /\ down'[l].kind = "cancel_audio" => k < l
    BY <1>1 DEF SentOnce
  <2>1. CASE k \in DOMAIN down /\ l \in DOMAIN down
    BY <1>10, <2>1 DEF SentOnce
  <2>2. CASE k \in DOMAIN down /\ l \notin DOMAIN down
    BY <1>2, <1>7, <1>10, <2>2 DEF SentOnce
  <2>3. CASE k \notin DOMAIN down /\ l \in DOMAIN down
    BY <1>2, <1>7, <1>10, <2>3
  <2>4. CASE k \notin DOMAIN down /\ l \notin DOMAIN down
    BY <1>2, <1>3, <1>7, <1>10, <2>4
  <2> QED BY <2>1, <2>2, <2>3, <2>4
<1>14. InOrder'
  <2>1. \A j \in Ids : sound[j] # "absent" => j[1] <= resp
    BY <1>9 DEF FreshIsUntouched, Fresh, OneAtATime
  <2>2. \A k \in DOMAIN down' : k \notin DOMAIN down => down'[k].resp = resp
    BY <1>2, <1>6, <1>10
  <2>3. \A k \in DOMAIN down' : down'[k].resp <= resp
    BY <1>9, <1>10, <2>2 DEF InOrder
  <2>4. \A k, l \in DOMAIN down' : k < l => down'[k].resp <= down'[l].resp
    <3> SUFFICES ASSUME NEW k \in DOMAIN down', NEW l \in DOMAIN down', k < l
                 PROVE  down'[k].resp <= down'[l].resp
      OBVIOUS
    <3>1. CASE l \notin DOMAIN down
      BY <2>2, <2>3, <3>1
    <3>2. CASE l \in DOMAIN down /\ k \in DOMAIN down
      BY <1>10, <3>2 DEF InOrder
    <3>3. CASE l \in DOMAIN down /\ k \notin DOMAIN down
      <4>1. l < k /\ l \in Nat /\ k \in Nat
        BY <1>3, <3>3 DEF Extends, Typed, WiresTyped
      <4> QED BY <4>1
    <3> QED BY <3>1, <3>2, <3>3
  <2>5. \A k \in DOMAIN down', j \in Ids : sound[j] # "absent" => j[1] <= down'[k].resp
    BY <1>10, <2>1, <2>2 DEF InOrder
  <2> QED BY <1>1, <2>3, <2>4, <2>5 DEF InOrder
<1>15. Hearing' /\ Claims'
  BY <1>1, <1>5 DEF Hearing, Claims
<1>16. Silence'
  <2>1. ~live => down' = <<>> /\ up' = <<>>
    BY <1>1, <1>3 DEF Silence, Extends
  <2>2. live => \A a \in Acked' : a.kind \in {"stopped", "completed"} => Quiet(a.id)'
    <3> SUFFICES ASSUME live, NEW a \in Acked, a.kind \in {"stopped", "completed"}
                 PROVE  Quiet(a.id)'
      BY <1>5
    <3>1. a.id \in Ids
      BY WireParts DEF Acks, Typed
    <3> QED BY <1>7, <1>8, <3>1 DEF Silence
  <2>3. live => \A j \in Ids : stopped[j] # "open" \/ task'[j] = "ended" => Quiet(j)'
    BY <1>4, <1>7, <1>8 DEF Silence
  <2> QED BY <1>1, <2>1, <2>2, <2>3 DEF Silence
<1>17. Gains' /\ CannotSpeak'
  BY <1>1 DEF Gains, CannotSpeak, Current, Speech
<1>18. \A j \in Ids : Unspoken(j) => Unspoken(j)'
  BY <1>1, <1>4 DEF Unspoken, Speech
<1>19. Ownership' /\ RefusedForCause'
  BY <1>1, <1>4, <1>18 DEF Ownership, ActiveAudio, RefusedForCause
<1>20. OwnerInOrder'
  BY <1>1, <1>2, <1>6, <1>10 DEF OwnerInOrder
<1> QED BY <1>11, <1>12, <1>13, <1>14, <1>15, <1>16, <1>17, <1>19, <1>20

LEMMA AcknowledgeKeeps ==
    ASSUME Typed, PlayInv, Acknowledge
    PROVE  PlayInv'
<1> USE DEF PlayInv
<1>1. /\ UNCHANGED <<resp, mode, synthesizer, task, receipt, live, down>>
      /\ UNCHANGED <<sound, owner, cancelled, stopAsked, epochOf, yielding, gain, paused, heard, refused>>
  BY DEF Acknowledge, sessionVars, playerVars
<1>2. Head(up) \in Acked /\ Acked' \subseteq Acked
  BY AckTaken DEF Acknowledge, Typed
<1>3. PICK a \in Acked : a = Head(up)
  BY <1>2
<1>4. a \in Acks /\ a.id \in Ids
  BY WireParts DEF Typed, Acks
<1>5. \/ UNCHANGED <<started, stopped>>
      \/ Waiting(a.id) /\ started' = started \union {a.id} /\ UNCHANGED stopped
      \/ Waiting(a.id) /\ a.kind # "started" /\ Resolve(a.id, a.heard)
  BY <1>3 DEF Acknowledge
<1>6. /\ Sent' = Sent
      /\ \A i \in Ids : (Fresh(i)' <=> Fresh(i)) /\ (Quiet(i)' <=> Quiet(i))
  BY <1>1 DEF Sent, Fresh, Quiet, Coming
<1>7. Waiting(a.id) => ~Fresh(a.id)
  BY DEF Waiting, Fresh
<1>8. \A i \in Ids :
         \/ stopped'[i] = stopped[i]
         \/ i = a.id /\ stopped'[i] = a.heard /\ a.kind # "started" /\ Waiting(a.id)
  <2>1. CASE UNCHANGED stopped
    BY <2>1
  <2>2. CASE Waiting(a.id) /\ a.kind # "started" /\ Resolve(a.id, a.heard)
    <3>1. stopped' = [stopped EXCEPT ![a.id] = IF @ = "open" THEN a.heard ELSE @]
      BY <2>2 DEF Resolve
    <3>2. \A i \in Ids : stopped'[i] = stopped[i] \/ (i = a.id /\ stopped'[i] = a.heard)
      BY <1>4, <3>1 DEF Typed, TypeOK
    <3> QED BY <2>2, <3>2
  <2> QED BY <1>5, <2>1, <2>2
<1>9. \A i \in Ids : i \in started' => i \in started \/ (i = a.id /\ Waiting(a.id))
  <2>1. \/ UNCHANGED started
        \/ Waiting(a.id) /\ started' = started \union {a.id}
    BY <1>5 DEF Resolve
  <2> QED BY <2>1
<1>10. /\ OneAtATime' /\ SentOnce' /\ InOrder' /\ Hearing'
       /\ Ownership' /\ OwnerInOrder' /\ CannotSpeak' /\ Gains' /\ RefusedForCause'
  BY <1>1 DEF OneAtATime, Over, SentOnce, InOrder, Hearing, Ownership, ActiveAudio, OwnerInOrder,
              CannotSpeak, Gains, Current, Speech, RefusedForCause, Unspoken
<1>11. FreshIsUntouched'
  BY <1>1, <1>2, <1>6, <1>7, <1>8, <1>9 DEF FreshIsUntouched
<1>12. Claims'
  <2>1. Contract!AtLeast(heard[a.id], a.heard)
    BY DEF Claims
  <2> QED BY <1>1, <1>2, <1>8, <2>1 DEF Claims
<1>13. Silence'
  <2>1. up # <<>> => live
    BY DEF Silence
  <2>2. live
    BY <2>1 DEF Acknowledge
  <2>3. a.kind # "started" => Quiet(a.id)
    BY <1>4, <2>2 DEF Silence, Acks
  <2>4. \A b \in Acked' : b.kind \in {"stopped", "completed"} => Quiet(b.id)'
    BY <1>2, <1>6, <2>2, WireParts DEF Silence, Typed, Acks
  <2>5. \A i \in Ids : stopped'[i] # "open" \/ task[i] = "ended" => Quiet(i)'
    BY <1>6, <1>8, <2>2, <2>3 DEF Silence
  <2> QED BY <1>1, <2>2, <2>4, <2>5 DEF Silence
<1> QED BY <1>10, <1>11, <1>12, <1>13

LEMMA DisconnectKeeps ==
    ASSUME Typed, PlayInv, Disconnect
    PROVE  PlayInv'
<1> USE DEF PlayInv
<1>1. /\ UNCHANGED <<resp, mode, synthesizer, task, receipt>> /\ ~live' /\ down' = <<>> /\ up' = <<>>
      /\ UNCHANGED <<sound, owner, cancelled, stopAsked, epochOf, yielding, gain, paused, heard, refused>>
  BY DEF Disconnect, sessionVars, playerVars
<1>2. DOMAIN down' = {} /\ Sent' = {} /\ Acked' = {}
  <2>1. DOMAIN down' = {} /\ DOMAIN up' = {}
    BY <1>1
  <2> QED BY <2>1 DEF Sent, Acked
<1>3. \A i \in Ids : /\ i \in started' => i \in started \/ Waiting(i)
                     /\ \/ stopped'[i] = stopped[i]
                        \/ Waiting(i) /\ stopped'[i] = "nothing"
  <2> SUFFICES ASSUME NEW i \in Ids
               PROVE  /\ i \in started' => i \in started \/ Waiting(i)
                      /\ \/ stopped'[i] = stopped[i]
                         \/ Waiting(i) /\ stopped'[i] = "nothing"
    OBVIOUS
  <2>1. i \in started' => i \in started \/ Waiting(i)
    BY DEF Disconnect
  <2>2. stopped'[i] = IF Waiting(i) /\ stopped[i] = "open" THEN "nothing" ELSE stopped[i]
    BY DEF Disconnect, LostReceipt
  <2> QED BY <2>1, <2>2
<1>4. \A i \in Ids : Fresh(i)' => Fresh(i) /\ ~Waiting(i)
  <2> SUFFICES ASSUME NEW i \in Ids, Fresh(i)' PROVE Fresh(i) /\ ~Waiting(i)
    OBVIOUS
  <2>1. Fresh(i)
    BY <1>1 DEF Fresh
  <2> QED BY <2>1 DEF Fresh, Waiting
<1>5. OneAtATime' /\ Hearing' /\ Ownership' /\ CannotSpeak' /\ Gains' /\ RefusedForCause'
  BY <1>1 DEF OneAtATime, Over, Hearing, Ownership, ActiveAudio, CannotSpeak, Gains, Current, Speech,
              RefusedForCause, Unspoken
<1>6. SentOnce' /\ InOrder' /\ OwnerInOrder'
  BY <1>1, <1>2 DEF SentOnce, InOrder, OwnerInOrder
<1>7. FreshIsUntouched'
  BY <1>1, <1>2, <1>3, <1>4 DEF FreshIsUntouched
<1>8. Claims'
  BY <1>1, <1>2, <1>3 DEF Claims, Contract!AtLeast
<1>9. Silence'
  BY <1>1 DEF Silence
<1> QED BY <1>5, <1>6, <1>7, <1>8, <1>9

-----------------------------------------------------------------------------
(* The sounds. *)

\* What was heard is never taken back.
LEMMA HeardMore ==
    ASSUME NEW much, NEW some, NEW little,
           Contract!AtLeast(much, some), Contract!AtLeast(some, little)
    PROVE  Contract!AtLeast(much, little)
BY DEF Contract!AtLeast

LEMMA ComingIsAbsent ==
    ASSUME PlayInv, NEW i \in Ids, Coming(i)
    PROVE  sound[i] = "absent"
BY DEF PlayInv, SentOnce, Coming, Sent

LEMMA SoundOfOne ==
    ASSUME Typed, NEW i \in Ids, SoundStep(i), NEW j \in Ids, j # i
    PROVE  heard'[j] = heard[j]
BY DEF SoundStep, Begins, PlaysOut, FallsSilent, SpeechErrs, Typed, TypeOK

LEMMA SoundParts ==
    ASSUME Typed, PlayInv, NEW i \in Ids, SoundStep(i)
    PROVE  /\ UNCHANGED BesidesSound /\ live
           /\ sound[i] \in {"scheduled", "audible", "stopping"}
           /\ \E to \in {"audible", "done"}, a \in Acks :
                 /\ \A j \in Ids : sound'[j] = IF j = i THEN to ELSE sound[j]
                 /\ to = "audible" => sound[i] = "scheduled" /\ UNCHANGED owner
                 /\ to = "done" => ReleaseOwner(i)
                 /\ up' = Append(up, a) /\ a.id = i
                 /\ a.kind \in {"stopped", "completed"} => to = "done"
                 /\ Contract!AtLeast(heard'[i], a.heard)
           /\ \A j \in Ids : Contract!AtLeast(heard'[j], heard[j])
<1> USE DEF Contract!AtLeast, Typed, TypeOK
<1>1. UNCHANGED BesidesSound /\ live /\ sound[i] \in {"scheduled", "audible", "stopping"}
  BY DEF SoundStep, Begins, PlaysOut, FallsSilent, SpeechErrs
<1>2. \A kind \in {"started", "stopped", "completed"}, h \in Heard :
         /\ Ack(kind, i, h) \in Acks /\ Ack(kind, i, h).kind = kind
         /\ Ack(kind, i, h).id = i /\ Ack(kind, i, h).heard = h
  BY AboutSound DEF Ack
<1>3. \A j \in Ids : heard[j] \in {"nothing", "part", "all"}
  BY DEF Heard
<1>4. CASE Begins(i)
  <2>1. \A j \in Ids : sound'[j] = IF j = i THEN "audible" ELSE sound[j]
    BY <1>4 DEF Begins
  <2>2. \A j \in Ids : heard'[j] = IF j = i THEN "part" ELSE heard[j]
    BY <1>4 DEF Begins
  <2>3. heard[i] = "nothing"
    BY <1>4 DEF Begins, PlayInv, Hearing
  <2>4. up' = Append(up, Ack("started", i, "nothing")) /\ UNCHANGED owner /\ sound[i] = "scheduled"
    BY <1>4 DEF Begins
  <2>5. "nothing" \in Heard
    BY DEF Heard
  <2> QED BY <1>1, <1>2, <1>3, <2>1, <2>2, <2>3, <2>4, <2>5
<1>5. CASE PlaysOut(i)
  <2>1. \A j \in Ids : sound'[j] = IF j = i THEN "done" ELSE sound[j]
    BY <1>5 DEF PlaysOut, Leave
  <2>2. \A j \in Ids : heard'[j] = IF j = i THEN "all" ELSE heard[j]
    BY <1>5 DEF PlaysOut
  <2>3. up' = Append(up, Ack("completed", i, "all")) /\ ReleaseOwner(i)
    BY <1>5 DEF PlaysOut, Leave
  <2>4. "all" \in Heard
    BY DEF Heard
  <2> QED BY <1>1, <1>2, <1>3, <2>1, <2>2, <2>3, <2>4
<1>6. CASE FallsSilent(i) \/ SpeechErrs(i)
  <2>1. \A j \in Ids : sound'[j] = IF j = i THEN "done" ELSE sound[j]
    BY <1>6 DEF FallsSilent, SpeechErrs, Leave
  <2>2. UNCHANGED heard
    BY <1>6 DEF FallsSilent, SpeechErrs
  <2>3. PICK h \in {"nothing", heard[i]} : up' = Append(up, Ack("stopped", i, h))
    BY <1>6 DEF FallsSilent, SpeechErrs
  <2>4. h \in Heard /\ Contract!AtLeast(heard'[i], h)
    BY <1>3, <2>2 DEF Heard
  <2>5. ReleaseOwner(i)
    BY <1>6 DEF FallsSilent, SpeechErrs, Leave
  <2>6. \A j \in Ids : Contract!AtLeast(heard'[j], heard[j])
    BY <1>3, <2>2
  <2> HIDE DEF Contract!AtLeast
  <2> QED BY <1>1, <1>2, <2>1, <2>3, <2>4, <2>5, <2>6
<1> QED BY <1>4, <1>5, <1>6 DEF SoundStep

LEMMA SoundKeeps ==
    ASSUME Typed, PlayInv, NEW i \in Ids, SoundStep(i)
    PROVE  PlayInv'
<1> USE DEF PlayInv
<1>1. /\ UNCHANGED <<resp, mode, synthesizer, task, started, stopped, live, down>>
      /\ UNCHANGED <<cancelled, stopAsked, yielding, gain, refused>>
  BY SoundParts DEF BesidesSound, ServerVars, sessionVars, taskVars
<1>2. live /\ sound[i] \in {"scheduled", "audible", "stopping"}
  BY SoundParts
<1>3. PICK to \in {"audible", "done"}, a \in Acks :
         /\ \A j \in Ids : sound'[j] = IF j = i THEN to ELSE sound[j]
         /\ to = "audible" => sound[i] = "scheduled" /\ UNCHANGED owner
         /\ to = "done" => ReleaseOwner(i)
         /\ up' = Append(up, a) /\ a.id = i
         /\ a.kind \in {"stopped", "completed"} => to = "done"
         /\ Contract!AtLeast(heard'[i], a.heard)
  BY SoundParts
<1>4. \A j \in Ids : Contract!AtLeast(heard'[j], heard[j])
  BY SoundParts
<1>5. Sent' = Sent /\ Acked' = Acked \union {a} /\ \A b \in Acked : b.id \in Ids
  BY <1>1, <1>3, AckAdded, WireParts DEF Sent, Typed, Acks
<1>6. \A j \in Ids : (Fresh(j)' <=> Fresh(j)) /\ (Coming(j)' <=> Coming(j))
  BY <1>1, <1>5 DEF Fresh, Coming
<1>7. ~Coming(i) /\ ~Fresh(i) /\ ~Quiet(i)
  BY <1>2, ComingIsAbsent DEF FreshIsUntouched, Quiet
<1>8. \A j \in Ids : j # i => (Quiet(j)' <=> Quiet(j))
  BY <1>3, <1>6 DEF Quiet
<1>9. OneAtATime'
  BY <1>1 DEF OneAtATime, Over
<1>10. FreshIsUntouched'
  BY <1>1, <1>3, <1>5, <1>6, <1>7 DEF FreshIsUntouched
<1>11. SentOnce'
  <2>1. \A k \in DOMAIN down : down[k].kind = "audio" =>
           About(down[k]) \in Ids /\ sound'[About(down[k])] = "absent"
    <3> SUFFICES ASSUME NEW k \in DOMAIN down, down[k].kind = "audio"
                 PROVE  About(down[k]) \in Ids /\ sound'[About(down[k])] = "absent"
      OBVIOUS
    <3>1. About(down[k]) \in Ids
      BY WireParts DEF Typed, Messages, About, Ids
    <3>2. sound[About(down[k])] = "absent"
      BY DEF SentOnce
    <3> QED BY <1>2, <1>3, <3>1, <3>2
  <2> QED BY <1>1, <2>1 DEF SentOnce
<1>12. InOrder'
  <2>1. \A j \in Ids : sound'[j] # "absent" => sound[j] # "absent"
    BY <1>2, <1>3
  <2> QED BY <1>1, <2>1 DEF InOrder
<1>13. Hearing'
  <2> SUFFICES ASSUME NEW j \in Ids
               PROVE  /\ sound'[j] \in {"absent", "scheduled"} => heard'[j] = "nothing"
                      /\ sound'[j] = "stopping" => j \in stopAsked'
    BY DEF Hearing
  <2>1. CASE j = i
    BY <1>3, <2>1
  <2>2. CASE j # i
    <3>1. sound'[j] = sound[j]
      BY <1>3, <2>2
    <3>2. heard'[j] = heard[j]
      BY <2>2, SoundOfOne
    <3> QED BY <1>1, <3>1, <3>2 DEF Hearing
  <2> QED BY <2>1, <2>2
<1>14. Claims'
  <2>1. \A b \in Acked' : Contract!AtLeast(heard'[b.id], b.heard)
    <3>1. \A b \in Acked : Contract!AtLeast(heard'[b.id], b.heard)
      BY <1>4, <1>5, HeardMore DEF Claims
    <3> QED BY <1>3, <1>5, <3>1
  <2>2. \A j \in Ids : stopped'[j] # "open" => Contract!AtLeast(heard'[j], stopped'[j])
    BY <1>1, <1>4, HeardMore DEF Claims
  <2> QED BY <2>1, <2>2 DEF Claims
<1>15. Silence'
  <2>1. a.kind \in {"stopped", "completed"} => Quiet(i)'
    BY <1>3, <1>6, <1>7 DEF Quiet
  <2>2. \A b \in Acked' : b.kind \in {"stopped", "completed"} => Quiet(b.id)'
    BY <1>2, <1>3, <1>5, <1>7, <1>8, <2>1 DEF Silence
  <2>3. \A j \in Ids : stopped'[j] # "open" \/ task'[j] = "ended" => Quiet(j)'
    BY <1>1, <1>2, <1>7, <1>8 DEF Silence
  <2> QED BY <1>1, <1>2, <2>2, <2>3 DEF Silence
<1>16. Ownership' /\ OwnerInOrder'
  <2>0. \A j \in Ids : Unspoken(j) => Unspoken(j)'
    BY <1>1 DEF Unspoken, Speech
  <2>1. CASE to = "audible"
    <3>1. ActiveAudio' = ActiveAudio
      BY <1>2, <1>3, <2>1 DEF ActiveAudio
    <3> QED BY <1>1, <1>3, <2>0, <2>1, <3>1 DEF Ownership, OwnerInOrder
  <2>2. CASE to = "done"
    <3>1. ActiveAudio' = ActiveAudio \ {i} /\ i \in ActiveAudio
      BY <1>2, <1>3, <2>2 DEF ActiveAudio
    <3>2. owner' = IF ActiveAudio = {i} THEN 0 ELSE owner
      BY <1>3, <2>2 DEF ReleaseOwner
    <3>3. Ownership'
      BY <2>0, <3>1, <3>2 DEF Ownership
    <3>4. OwnerInOrder'
      <4>1. \A k \in DOMAIN down : down[k].resp \in Nat
        BY WireParts, MessageParts DEF Typed
      <4>2. resp \in Nat
        BY PlaybackBounds DEF Typed, TypeOK
      <4> QED BY <1>1, <3>2, <4>1, <4>2 DEF OwnerInOrder
    <3> QED BY <3>3, <3>4
  <2> QED BY <1>3, <2>1, <2>2
<1>17. Gains' /\ CannotSpeak'
  <2>0. CannotSpeak'
    BY <1>1, <1>2, <1>3 DEF CannotSpeak, Speech
  <2>1. \A j \in Ids : sound'[j] \in {"scheduled", "audible"} => sound[j] \in {"scheduled", "audible"}
    BY <1>3
  <2> QED BY <1>1, <2>0, <2>1 DEF Gains, Current, Speech
<1>18. RefusedForCause'
  BY <1>1 DEF RefusedForCause, Unspoken, Speech
<1> QED BY <1>9, <1>10, <1>11, <1>12, <1>13, <1>14, <1>15, <1>16, <1>17, <1>18

-----------------------------------------------------------------------------
(* The messages. *)

\* What one message does to the sounds: the chunk it announces is scheduled, or
\* sounds are told to stop.
SoundsMove(m) ==
    \A i \in Ids :
        \/ sound'[i] = sound[i]
        \/ m.kind = "audio" /\ About(m) = i /\ sound'[i] = "scheduled"
        \/ sound[i] \in {"scheduled", "audible"} /\ sound'[i] = "stopping" /\ i \in stopAsked'

\* It is answered at once only for a chunk that makes no sound.
Answers(m) ==
    \/ UNCHANGED up
    \/ \E a \in Acks : /\ up' = Append(up, a)
                      /\ a.id = About(m) /\ a.kind = "stopped" /\ a.heard = "nothing"
                      /\ m.kind \in {"audio", "cancel_audio"}
                      /\ sound'[a.id] \in {"absent", "done"}

LEMMA Refusal ==
    ASSUME NEW i \in Ids
    PROVE  /\ Ack("stopped", i, "nothing") \in Acks
           /\ Ack("stopped", i, "nothing").id = i
           /\ Ack("stopped", i, "nothing").kind = "stopped"
           /\ Ack("stopped", i, "nothing").heard = "nothing"
BY AboutSound DEF Ack, Heard

LEMMA MessageMoves ==
    ASSUME Typed, PlayInv, NEW m \in Sent,
           Takes(m) \/ Stops(m) \/ Invalidates(m) \/ Ducks(m) \/ Unducks(m)
    PROVE  SoundsMove(m) /\ Answers(m) /\ stopAsked \subseteq stopAsked' /\ UNCHANGED heard
<1> USE DEF SoundsMove, Answers
<1>1. CASE Takes(m)
  <2> DEFINE i == About(m)
  <2>1. i \in Ids
    BY <1>1 DEF Takes
  <2>2. UNCHANGED <<stopAsked, heard>>
    BY <1>1 DEF Takes
  <2>3. sound[i] = "absent"
    BY <1>1, <2>1, ComingIsAbsent DEF Coming, Takes
  <2>4. \/ UNCHANGED sound /\ up' = Append(up, Ack("stopped", i, "nothing"))
        \/ sound' = [sound EXCEPT ![i] = "scheduled"] /\ UNCHANGED up
    BY <1>1 DEF Takes, TakeAudio, Foreign
  <2>5. m.kind = "audio"
    BY <1>1 DEF Takes
  <2> HIDE DEF i
  <2>6. \A j \in Ids : sound'[j] = sound[j] \/ (i = j /\ sound'[j] = "scheduled")
    BY <2>1, <2>4 DEF Typed, TypeOK
  <2>7. Answers(m)
    BY <2>1, <2>3, <2>4, <2>5, Refusal DEF i
  <2> QED BY <2>2, <2>5, <2>6, <2>7 DEF i
<1>2. CASE Stops(m)
  <2> DEFINE i == About(m)
  <2>1. i \in Ids /\ m.kind = "cancel_audio" /\ stopAsked' = stopAsked \union {i} /\ UNCHANGED heard
    BY <1>2 DEF Stops
  <2>2. \/ UNCHANGED <<sound, up>>
        \/ /\ i \notin stopAsked /\ sound[i] \notin {"scheduled", "audible"} /\ UNCHANGED sound
           /\ up' = Append(up, Ack("stopped", i, "nothing"))
        \/ /\ sound[i] \in {"scheduled", "audible"} /\ UNCHANGED up
           /\ sound' = [sound EXCEPT ![i] = "stopping"]
    BY <1>2 DEF Stops, StopSound
  <2> HIDE DEF i
  <2>3. \A j \in Ids : \/ sound'[j] = sound[j]
                       \/ /\ j = i /\ sound[j] \in {"scheduled", "audible"}
                          /\ sound'[j] = "stopping" /\ j \in stopAsked'
    BY <2>1, <2>2 DEF Typed, TypeOK
  <2>4. CASE UNCHANGED up
    BY <2>1, <2>3, <2>4
  <2>5. CASE /\ i \notin stopAsked /\ sound[i] \notin {"scheduled", "audible"} /\ UNCHANGED sound
             /\ up' = Append(up, Ack("stopped", i, "nothing"))
    <3>1. sound[i] \in {"absent", "done"}
      BY <2>1, <2>5 DEF Typed, TypeOK, PlayInv, Hearing
    <3>2. Answers(m)
      BY <2>1, <2>5, <3>1, Refusal DEF i
    <3> QED BY <2>1, <2>3, <3>2
  <2> QED BY <2>2, <2>4, <2>5
<1>3. CASE Invalidates(m)
  <2>1. UNCHANGED <<up, heard>>
    BY <1>3 DEF Invalidates
  <2>2. /\ stopAsked' = stopAsked \union (ActiveAudio \intersect {i \in Ids : i[1] = m.resp})
        /\ sound' = [i \in Ids |-> IF i[1] = m.resp /\ sound[i] \in {"scheduled", "audible"}
                                   THEN "stopping" ELSE sound[i]]
    BY <1>3 DEF Invalidates, Invalidate
  <2>3. SoundsMove(m)
    BY <2>2 DEF ActiveAudio
  <2> QED BY <2>1, <2>2, <2>3
<1>4. CASE Ducks(m) \/ Unducks(m)
  BY <1>4 DEF Ducks, Unducks, BesidesYield
<1> QED BY <1>1, <1>2, <1>3, <1>4

\* All the invariant but the ownership and the gain follows from this.
LEMMA MessageKeeps ==
    ASSUME Typed, Typed', PlayInv, down # <<>>, down' = Tail(down), UNCHANGED ServerVars,
           NEW m \in Sent, m = Head(down),
           SoundsMove(m), Answers(m), stopAsked \subseteq stopAsked', UNCHANGED heard
    PROVE  OneAtATime' /\ FreshIsUntouched' /\ SentOnce' /\ InOrder' /\ Hearing' /\ Claims' /\ Silence'
<1> USE DEF PlayInv
<1>1. UNCHANGED <<resp, mode, synthesizer, task, started, stopped, live>>
  BY DEF ServerVars, sessionVars, taskVars
<1>2. Shifts /\ m = down[1] /\ Sent' \subseteq Sent
  BY TakenOff DEF Typed
<1>3. live
  BY DEF Silence
<1>4. \A b \in Acked' : \/ b \in Acked /\ b.id \in Ids
                        \/ /\ b.id = About(m) /\ b.id \in Ids /\ b.heard = "nothing"
                           /\ m.kind \in {"audio", "cancel_audio"}
                           /\ sound'[b.id] \in {"absent", "done"}
  <2>1. \A b \in Acked : b.id \in Ids
    BY WireParts DEF Acks, Typed
  <2>2. CASE UNCHANGED up
    BY <2>1, <2>2 DEF Acked
  <2>3. CASE ~UNCHANGED up
    <3>1. PICK a \in Acks : /\ up' = Append(up, a)
                           /\ a.id = About(m) /\ a.kind = "stopped" /\ a.heard = "nothing"
                           /\ m.kind \in {"audio", "cancel_audio"}
                           /\ sound'[a.id] \in {"absent", "done"}
      BY <2>3 DEF Answers
    <3>2. Acked' = Acked \union {a} /\ a.id \in Ids
      BY <3>1, AckAdded DEF Typed, Acks
    <3> QED BY <2>1, <3>1, <3>2
  <2> QED BY <2>2, <2>3
<1>5. \A i \in Ids : (Fresh(i)' <=> Fresh(i))
  BY <1>1 DEF Fresh
<1>6. \A i \in Ids : Fresh(i) => About(m) # i
  BY DEF FreshIsUntouched
<1>7. \A i \in Ids : Coming(i)' => Coming(i)
  BY <1>2 DEF Coming
<1>8. \A i \in Ids : Quiet(i) => Quiet(i)'
  <2> SUFFICES ASSUME NEW i \in Ids, Quiet(i) PROVE Quiet(i)'
    OBVIOUS
  <2>1. ~(m.kind = "audio" /\ About(m) = i)
    BY DEF Quiet, Coming
  <2>2. sound'[i] = sound[i]
    BY <2>1 DEF SoundsMove, Quiet
  <2> QED BY <1>7, <2>2 DEF Quiet
<1>9. \A k \in DOMAIN down' : down'[k].kind = "audio" =>
         (m.kind \in {"audio", "cancel_audio"} => About(down'[k]) # About(m))
  <2> SUFFICES ASSUME NEW k \in DOMAIN down', down'[k].kind = "audio",
                      m.kind \in {"audio", "cancel_audio"}, About(down'[k]) = About(m)
               PROVE  FALSE
    OBVIOUS
  <2>1. 1 \in DOMAIN down /\ k + 1 \in DOMAIN down /\ down'[k] = down[k + 1] /\ k \in Nat /\ k > 0
    BY <1>2 DEF Shifts
  <2>2. m.kind = "audio" => k + 1 = 1
    BY <1>2, <2>1 DEF SentOnce
  <2>3. m.kind = "cancel_audio" => k + 1 < 1
    BY <1>2, <2>1 DEF SentOnce
  <2> QED BY <2>1, <2>2, <2>3
<1>10. OneAtATime'
  BY <1>1 DEF OneAtATime, Over
<1>11. FreshIsUntouched'
  <2>1. \A i \in Ids : Fresh(i) => sound'[i] = "absent"
    BY <1>6 DEF FreshIsUntouched, SoundsMove
  <2> QED BY <1>1, <1>2, <1>4, <1>5, <1>6, <2>1 DEF FreshIsUntouched
<1>12. SentOnce'
  <2> SUFFICES ASSUME NEW k \in DOMAIN down', NEW l \in DOMAIN down', down'[k].kind = "audio"
               PROVE  /\ sound'[About(down'[k])] = "absent"
                      /\ About(down'[l]) = About(down'[k]) =>
                            /\ down'[l].kind = "audio" => k = l
                            /\ down'[l].kind = "cancel_audio" => k < l
    BY DEF SentOnce
  <2>1. /\ k + 1 \in DOMAIN down /\ down'[k] = down[k + 1] /\ k \in Nat
        /\ l + 1 \in DOMAIN down /\ down'[l] = down[l + 1] /\ l \in Nat
    BY <1>2 DEF Shifts
  <2>2. About(down'[k]) \in Ids
    BY <2>1, WireParts DEF Typed, Messages, About, Ids
  <2>3. sound[About(down'[k])] = "absent"
    BY <2>1 DEF SentOnce
  <2>4. sound'[About(down'[k])] = "absent"
    BY <1>9, <2>2, <2>3 DEF SoundsMove
  <2>5. About(down'[l]) = About(down'[k]) =>
           /\ down'[l].kind = "audio" => k + 1 = l + 1
           /\ down'[l].kind = "cancel_audio" => k + 1 < l + 1
    BY <2>1 DEF SentOnce
  <2> QED BY <2>1, <2>4, <2>5
<1>13. InOrder'
  <2> SUFFICES ASSUME NEW k \in DOMAIN down'
               PROVE  /\ down'[k].resp <= resp
                      /\ \A l \in DOMAIN down' : k < l => down'[k].resp <= down'[l].resp
                      /\ \A i \in Ids : sound'[i] # "absent" => i[1] <= down'[k].resp
    BY <1>1 DEF InOrder
  <2>1. 1 \in DOMAIN down /\ k + 1 \in DOMAIN down /\ down'[k] = down[k + 1] /\ k \in Nat /\ k > 0
    BY <1>2 DEF Shifts
  <2>2. down'[k].resp <= resp
    BY <2>1 DEF InOrder
  <2>3. ASSUME NEW l \in DOMAIN down', k < l PROVE down'[k].resp <= down'[l].resp
    <3>1. l + 1 \in DOMAIN down /\ down'[l] = down[l + 1] /\ l \in Nat
      BY <1>2 DEF Shifts
    <3>2. k + 1 < l + 1
      BY <2>1, <2>3, <3>1
    <3> QED BY <2>1, <3>1, <3>2 DEF InOrder
  <2>4. ASSUME NEW i \in Ids, sound'[i] # "absent" PROVE i[1] <= down'[k].resp
    <3>1. CASE sound[i] # "absent"
      BY <2>1, <3>1 DEF InOrder
    <3>2. CASE sound[i] = "absent"
      <4>1. About(m) = i
        BY <2>4, <3>2 DEF SoundsMove
      <4>2. i[1] = m.resp
        BY <4>1 DEF About
      <4>3. 1 < k + 1
        BY <2>1
      <4>4. down[1].resp <= down[k + 1].resp
        BY <2>1, <4>3 DEF InOrder
      <4> QED BY <1>2, <2>1, <4>2, <4>4
    <3> QED BY <3>1, <3>2
  <2> QED BY <2>2, <2>3, <2>4
<1>14. Hearing'
  <2> SUFFICES ASSUME NEW i \in Ids
               PROVE  /\ sound'[i] \in {"absent", "scheduled"} => heard[i] = "nothing"
                      /\ sound'[i] = "stopping" => i \in stopAsked'
    BY DEF Hearing
  <2>1. CASE sound'[i] = sound[i]
    BY <2>1 DEF Hearing
  <2>2. CASE m.kind = "audio" /\ About(m) = i /\ sound'[i] = "scheduled"
    <3>1. sound[i] = "absent"
      BY <2>2, ComingIsAbsent DEF Coming
    <3> QED BY <2>2, <3>1 DEF Hearing
  <2>3. CASE sound'[i] = "stopping" /\ i \in stopAsked'
    BY <2>3
  <2> QED BY <2>1, <2>2, <2>3 DEF SoundsMove
<1>15. Claims'
  BY <1>1, <1>4 DEF Claims, Contract!AtLeast
<1>16. Silence'
  <2>1. ASSUME NEW b \in Acked', b.kind \in {"stopped", "completed"} PROVE Quiet(b.id)'
    <3>1. CASE b \in Acked /\ b.id \in Ids
      BY <1>3, <1>8, <2>1, <3>1 DEF Silence
    <3>2. CASE /\ b.id = About(m) /\ m.kind \in {"audio", "cancel_audio"}
               /\ sound'[b.id] \in {"absent", "done"}
      <4>1. \A n \in Sent' : ~(n.kind = "audio" /\ About(n) = b.id)
        BY <1>9, <3>2 DEF Sent
      <4> QED BY <3>2, <4>1 DEF Quiet, Coming
    <3> QED BY <1>4, <3>1, <3>2
  <2>2. \A i \in Ids : stopped'[i] # "open" \/ task'[i] = "ended" => Quiet(i)'
    BY <1>1, <1>3, <1>8 DEF Silence
  <2> QED BY <1>1, <1>3, <2>1, <2>2 DEF Silence
<1> QED BY <1>10, <1>11, <1>12, <1>13, <1>14, <1>15, <1>16

LEMMA FirstMessage ==
    ASSUME Typed, PlayInv, down # <<>>
    PROVE  /\ Head(down) \in Sent /\ Head(down) \in Messages
           /\ Head(down).resp <= resp
           /\ \A i \in Ids : sound[i] # "absent" => i[1] <= Head(down).resp
           /\ owner <= Head(down).resp
<1>1. 1 \in DOMAIN down /\ Head(down) = down[1]
  <2>1. DOMAIN down = 1 .. Len(down) /\ Len(down) \in Nat /\ Len(down) > 0
    BY DEF Typed, WiresTyped
  <2> QED BY <2>1 DEF Typed, WiresTyped
<1>2. down[1] \in Sent /\ down[1] \in Messages
  BY <1>1, WireParts DEF Typed
<1> QED BY <1>1, <1>2 DEF PlayInv, InOrder, OwnerInOrder

\* A sent chunk that the browser cannot speak leaves its response the owner.
LEMMA OwnershipKept ==
    ASSUME Typed, PlayInv, NEW m \in Messages, m \in Sent, SoundsMove(m), UNCHANGED ServerVars,
           Takes(m) \/ Stops(m) \/ Invalidates(m) \/ Ducks(m) \/ Unducks(m)
    PROVE  Ownership'
<1> USE DEF PlayInv, Ownership
<1>0. /\ UNCHANGED <<mode, synthesizer, task>>
      /\ \A j \in Ids : Unspoken(j)' <=> Unspoken(j)
  BY DEF ServerVars, sessionVars, taskVars, Unspoken, Speech
<1>1. CASE m.kind # "audio"
  <2>1. UNCHANGED owner
    BY <1>1 DEF Takes, Stops, Invalidates, Ducks, Unducks, BesidesYield
  <2>2. ActiveAudio' = ActiveAudio
    BY <1>1 DEF SoundsMove, ActiveAudio
  <2> QED BY <1>0, <2>1, <2>2
<1>2. CASE Takes(m)
  <2>1. About(m) \in Ids /\ About(m)[1] = m.resp /\ m.resp # 0 /\ m.kind = "audio"
    BY <1>2, MessageParts DEF Takes, About, Responses
  <2>2. \/ UNCHANGED <<sound, owner>>
        \/ /\ owner \in {0, m.resp} /\ owner' = m.resp
           /\ sound' = [sound EXCEPT ![About(m)] = "scheduled"]
        \/ /\ owner \in {0, m.resp} /\ owner' = m.resp /\ UNCHANGED sound
           /\ mode[m.resp] = "speech" /\ ~synthesizer
    BY <1>2 DEF Takes, TakeAudio, Foreign
  <2>3. CASE UNCHANGED <<sound, owner>>
    BY <1>0, <2>3 DEF ActiveAudio
  <2>5. \A i \in ActiveAudio : i[1] # 0
    BY IdParts DEF ActiveAudio
  <2>4. CASE /\ owner \in {0, m.resp} /\ owner' = m.resp
             /\ sound' = [sound EXCEPT ![About(m)] = "scheduled"]
    <3>1. About(m) \in ActiveAudio' /\ ActiveAudio' \subseteq ActiveAudio \union {About(m)}
      BY <2>1, <2>4 DEF ActiveAudio, Typed, TypeOK
    <3> QED BY <2>1, <2>4, <2>5, <3>1
  <2>6. CASE /\ owner \in {0, m.resp} /\ owner' = m.resp /\ UNCHANGED sound
             /\ mode[m.resp] = "speech" /\ ~synthesizer
    <3>1. ActiveAudio' = ActiveAudio
      BY <2>6 DEF ActiveAudio
    <3>2. ~Fresh(About(m))
      BY <2>1 DEF FreshIsUntouched
    <3>3. Unspoken(About(m))
      BY <2>1, <2>6, <3>2 DEF Unspoken, Speech, Fresh
    <3> QED BY <1>0, <2>1, <2>5, <2>6, <3>1, <3>3
  <2> QED BY <2>2, <2>3, <2>4, <2>6
<1> QED BY <1>1, <1>2 DEF Stops, Invalidates, Ducks, Unducks

LEMMA OwnerOrderKept ==
    ASSUME Typed, PlayInv, down # <<>>, down' = Tail(down), NEW m \in Messages, m = Head(down),
           UNCHANGED ServerVars,
           Takes(m) \/ Stops(m) \/ Invalidates(m) \/ Ducks(m) \/ Unducks(m)
    PROVE  OwnerInOrder'
<1>1. UNCHANGED resp
  BY DEF ServerVars, sessionVars
<1>2. owner' \in {owner, m.resp}
  BY DEF Takes, TakeAudio, Foreign, Stops, Invalidates, Ducks, Unducks, BesidesYield
<1>3. Shifts /\ m = down[1]
  BY TakenOff DEF Typed
<1>4. 1 \in DOMAIN down /\ m.resp <= resp
  BY <1>3 DEF Shifts, PlayInv, InOrder
<1>5. ASSUME NEW k \in DOMAIN down' PROVE owner' <= down'[k].resp
  <2>1. k + 1 \in DOMAIN down /\ down'[k] = down[k + 1] /\ 1 < k + 1
    BY <1>3 DEF Shifts
  <2>2. m.resp <= down[k + 1].resp
    BY <1>3, <1>4, <2>1 DEF PlayInv, InOrder
  <2> QED BY <1>2, <2>1, <2>2 DEF PlayInv, OwnerInOrder
<1> QED BY <1>1, <1>2, <1>4, <1>5 DEF PlayInv, OwnerInOrder

LEMMA CannotSpeakKept ==
    ASSUME Typed, PlayInv, NEW m \in Messages, SoundsMove(m), UNCHANGED ServerVars,
           Takes(m) \/ Stops(m) \/ Invalidates(m) \/ Ducks(m) \/ Unducks(m)
    PROVE  CannotSpeak'
<1>1. UNCHANGED <<mode, synthesizer>>
  BY DEF ServerVars, sessionVars
<1> SUFFICES ASSUME ~synthesizer, NEW i \in Ids, Speech(i)
             PROVE  sound'[i] = "absent"
  BY <1>1 DEF CannotSpeak, Speech
<1>2. sound[i] = "absent"
  BY DEF PlayInv, CannotSpeak
<1>3. CASE Takes(m)
  <2>1. i = About(m) => mode[m.resp] = "speech"
    BY DEF About, Speech
  <2>2. UNCHANGED sound \/ (sound' = [sound EXCEPT ![About(m)] = "scheduled"] /\ i # About(m))
    BY <1>3, <2>1 DEF Takes, TakeAudio, Foreign
  <2> QED BY <1>2, <2>2 DEF Typed, TypeOK
<1>4. CASE ~Takes(m)
  <2>1. m.kind # "audio"
    BY <1>4 DEF Stops, Invalidates, Ducks, Unducks
  <2> QED BY <1>2, <2>1 DEF SoundsMove
<1> QED BY <1>3, <1>4

LEMMA GainsKept ==
    ASSUME Typed, PlayInv, down # <<>>, NEW m \in Messages, m = Head(down),
           SoundsMove(m), UNCHANGED ServerVars,
           Takes(m) \/ Stops(m) \/ Invalidates(m) \/ Ducks(m) \/ Unducks(m)
    PROVE  Gains'
<1> USE DEF PlayInv
<1>1. UNCHANGED <<resp, mode, synthesizer>>
  BY DEF ServerVars, sessionVars
<1>2. SUFFICES /\ yielding' # 0 => gain' # "muted"
               /\ \A i \in Ids : /\ i[1] = resp /\ sound'[i] \in {"scheduled", "audible"}
                                /\ i[1] \notin cancelled' /\ mode[i[1]] # "speech"
                                => gain' # "muted"
  BY <1>1 DEF Gains, Current, Speech
<1>3. \A i \in Ids : /\ i[1] = resp /\ sound[i] \in {"scheduled", "audible"}
                     /\ i[1] \notin cancelled /\ mode[i[1]] # "speech"
                     => gain # "muted"
  BY DEF Gains, Current, Speech
<1>4. yielding # 0 => gain # "muted"
  BY DEF Gains
<1>5. m.kind # "audio" =>
         \A i \in Ids : sound'[i] \in {"scheduled", "audible"} => sound[i] \in {"scheduled", "audible"}
  BY DEF SoundsMove
<1>6. CASE Takes(m)
  <2>1. UNCHANGED <<cancelled, yielding>>
    BY <1>6 DEF Takes
  <2>2. About(m) \in Ids /\ About(m)[1] = m.resp /\ m.resp # 0 /\ m.resp \in Responses
    BY <1>6, MessageParts DEF Takes, About, Responses
  <2>3. CASE UNCHANGED <<sound, gain>>
    BY <1>3, <1>4, <2>1, <2>3
  <2>4. CASE sound' = [sound EXCEPT ![About(m)] = "scheduled"] /\ gain' = GainFor(m.resp)
    <3>1. \A i \in Ids : sound'[i] = IF i = About(m) THEN "scheduled" ELSE sound[i]
      BY <2>2, <2>4 DEF Typed, TypeOK
    <3>2. gain' = "full" \/ gain' = gain
      BY <2>4 DEF GainFor
    <3>3. mode[m.resp] # "speech" => gain' # "muted"
      <4>1. mode[m.resp] \in {"pcm", "speech"}
        BY <2>2 DEF Typed, TypeOK
      <4> QED BY <1>4, <2>2, <2>4, <4>1 DEF GainFor
    <3> QED BY <1>3, <1>4, <2>1, <2>2, <3>1, <3>2, <3>3
  <2> QED BY <1>6, <2>3, <2>4 DEF Takes, TakeAudio, Foreign
<1>7. CASE Stops(m)
  <2>1. UNCHANGED <<yielding, gain>> /\ cancelled \subseteq cancelled'
    BY <1>7 DEF Stops, StopSound
  <2> QED BY <1>3, <1>4, <1>5, <1>7, <2>1 DEF Stops
<1>8. CASE Invalidates(m)
  <2>1. yielding' = 0 /\ cancelled' = cancelled \union {m.resp}
    BY <1>8 DEF Invalidates, Invalidate
  <2>2. ASSUME NEW i \in Ids, i[1] = resp, sound'[i] \in {"scheduled", "audible"}
        PROVE  i[1] \in cancelled'
    <3>1. sound[i] # "absent"
      BY <1>5, <1>8, <2>2 DEF Invalidates
    <3>2. i[1] <= m.resp /\ m.resp <= resp
      BY <3>1, FirstMessage
    <3>3. i[1] = m.resp
      BY <2>2, <3>2, IdParts, MessageParts
    <3> QED BY <2>1, <3>3
  <2> QED BY <2>1, <2>2
<1>9. CASE Ducks(m) \/ Unducks(m)
  <2>1. UNCHANGED <<sound, cancelled>>
    BY <1>9 DEF Ducks, Unducks, BesidesYield
  <2>2. gain' \in {"full", "ducked"} \/ UNCHANGED <<yielding, gain>>
    BY <1>9 DEF Ducks, Duck, Unducks, Unduck
  <2> QED BY <1>3, <1>4, <2>1, <2>2
<1> QED BY <1>6, <1>7, <1>8, <1>9

LEMMA RefusalKept ==
    ASSUME Typed, PlayInv, down # <<>>, NEW m \in Messages, m = Head(down),
           UNCHANGED ServerVars,
           Takes(m) \/ Stops(m) \/ Invalidates(m) \/ Ducks(m) \/ Unducks(m)
    PROVE  RefusedForCause'
<1> USE DEF PlayInv
<1>1. UNCHANGED task /\ \A j \in Ids : Unspoken(j)' <=> Unspoken(j)
  BY DEF ServerVars, sessionVars, taskVars, Unspoken, Speech
<1>2. CASE UNCHANGED refused
  BY <1>1, <1>2 DEF RefusedForCause
<1>3. CASE Takes(m) /\ refused' = refused \union {About(m)} /\ owner \notin {0, m.resp}
  <2>0. CASE ActiveAudio = {}
    <3>1. PICK j \in Ids : j[1] = owner /\ Unspoken(j)
      BY <1>3, <2>0 DEF Ownership
    <3>2. owner <= m.resp
      BY FirstMessage
    <3>3. owner < m.resp
      BY <1>3, <3>1, <3>2, IdParts, MessageParts
    <3> QED BY <1>1, <1>3, <3>1, <3>3 DEF RefusedForCause, About
  <2> SUFFICES ASSUME ActiveAudio # {} PROVE RefusedForCause'
    BY <2>0
  <2>1. PICK j \in ActiveAudio : TRUE
    OBVIOUS
  <2>2. j \in Ids /\ sound[j] \in {"scheduled", "audible", "stopping"} /\ j[1] = owner
    BY DEF ActiveAudio, Ownership
  <2>3. j[1] <= m.resp /\ m.resp <= resp
    BY <2>2, FirstMessage
  <2>4. j[1] \in Nat /\ m.resp \in Nat /\ resp \in Nat
    <3>1. j[1] \in Nat
      BY <2>2, IdParts
    <3>2. m.resp \in Nat
      BY MessageParts
    <3>3. resp \in Nat
      BY PlaybackBounds DEF Typed, TypeOK
    <3> QED BY <3>1, <3>2, <3>3
  <2>5. j[1] < m.resp /\ j[1] < resp
    <3>1. j[1] # m.resp
      BY <1>3, <2>2
    <3> QED BY <2>3, <2>4, <3>1
  <2>6. Over(j)
    BY <2>2, <2>5 DEF OneAtATime
  <2>7. task[j] # "none"
    BY <2>2 DEF FreshIsUntouched, Fresh
  <2>8. live
    BY DEF Silence
  <2>9. task[j] # "ended"
    BY <2>2, <2>8 DEF Silence, Quiet
  <2>10. task[j] = "failed" /\ j[1] < About(m)[1]
    BY <2>5, <2>6, <2>7, <2>9 DEF Over, About
  <2> QED BY <1>1, <1>3, <2>2, <2>10 DEF RefusedForCause
<1>4. UNCHANGED refused \/ (Takes(m) /\ refused' = refused \union {About(m)} /\ owner \notin {0, m.resp})
  BY DEF Takes, TakeAudio, Foreign, Stops, Invalidates, Ducks, Unducks, BesidesYield
<1> QED BY <1>2, <1>3, <1>4

LEMMA OnMessageKeeps ==
    ASSUME Typed, Typed', PlayInv, OnMessage
    PROVE  PlayInv'
<1>1. PICK m \in Messages :
         /\ m = Head(down) /\ down # <<>> /\ down' = Tail(down)
         /\ Takes(m) \/ Stops(m) \/ Invalidates(m) \/ Ducks(m) \/ Unducks(m)
         /\ UNCHANGED ServerVars
  BY OnMessageParts
<1>2. m \in Sent
  BY <1>1, FirstMessage
<1>3. SoundsMove(m) /\ Answers(m) /\ stopAsked \subseteq stopAsked' /\ UNCHANGED heard
  BY <1>1, <1>2, MessageMoves
<1>4. OneAtATime' /\ FreshIsUntouched' /\ SentOnce' /\ InOrder' /\ Hearing' /\ Claims' /\ Silence'
  BY <1>1, <1>2, <1>3, MessageKeeps
<1>5. Ownership' /\ OwnerInOrder' /\ CannotSpeak' /\ Gains' /\ RefusedForCause'
  BY <1>1, <1>2, <1>3, OwnershipKept, OwnerOrderKept, CannotSpeakKept, GainsKept, RefusalKept
<1> QED BY <1>4, <1>5 DEF PlayInv

-----------------------------------------------------------------------------
(* The invariant holds, and what follows from it. *)

LEMMA PlayInvInit == Init => PlayInv
<1> SUFFICES ASSUME Init PROVE PlayInv
  OBVIOUS
<1>1. DOMAIN down = {} /\ DOMAIN up = {}
  BY DEF Init
<1>2. Sent = {} /\ Acked = {}
  BY <1>1 DEF Sent, Acked
<1>3. \A i \in Ids : Quiet(i)
  BY <1>2 DEF Init, Quiet, Coming
<1>4. \A i \in Ids : task[i] = "none" /\ stopped[i] = "open" /\ sound[i] = "absent" /\ heard[i] = "nothing"
  BY DEF Init
<1>5. OneAtATime /\ FreshIsUntouched
  BY <1>2, <1>4 DEF OneAtATime, Over, FreshIsUntouched, Init
<1>6. SentOnce /\ InOrder
  BY <1>1 DEF SentOnce, InOrder
<1>7. Hearing /\ Claims
  BY <1>2, <1>4 DEF Hearing, Claims
<1>8. Silence
  BY <1>2, <1>3 DEF Silence, Init
<1>9. Ownership
  BY <1>4 DEF Ownership, ActiveAudio, Init
<1>10. Gains /\ RefusedForCause /\ OwnerInOrder /\ CannotSpeak
  BY <1>1, <1>4 DEF Gains, RefusedForCause, OwnerInOrder, CannotSpeak, Init
<1> QED BY <1>5, <1>6, <1>7, <1>8, <1>9, <1>10 DEF PlayInv

LEMMA PlayInvNext == Typed /\ PlayInv /\ [Next]_vars => PlayInv'
<1> SUFFICES ASSUME Typed, PlayInv, [Next]_vars PROVE PlayInv'
  OBVIOUS
<1>1. Typed'
  BY NextTypes
<1>2. CASE Session
  <2>1. CASE BeginResponse
    BY <2>1, BeginKeeps
  <2>2. ASSUME NEW i \in Ids, Schedule(i) PROVE PlayInv'
    BY <1>1, <2>2, ScheduleSpeaks, SpeaksKeeps
  <2>3. CASE Interrupt \/ FailResponse \/ SpeechOnset \/ SpeechEnds \/ Resume
    BY <1>1, <2>3, SessionSpeaks, SpeaksKeeps
  <2> QED BY <1>2, <2>1, <2>2, <2>3 DEF Session
<1>3. ASSUME NEW i \in Ids, Play(i) PROVE PlayInv'
  <2>1. CASE PlaySends(i)
    BY <1>1, <2>1, SendsKeeps
  <2>2. CASE ~PlaySends(i)
    BY <1>1, <1>3, <2>2, PlaySpeaks, SpeaksKeeps
  <2> QED BY <2>1, <2>2
<1>4. CASE Acknowledge \/ Disconnect
  BY <1>4, AcknowledgeKeeps, DisconnectKeeps
<1>5. CASE OnMessage
  BY <1>1, <1>5, OnMessageKeeps
<1>6. ASSUME NEW i \in Ids, SoundStep(i) PROVE PlayInv'
  BY <1>6, SoundKeeps
<1>7. CASE UNCHANGED vars
  <2>1. Speaks
    BY <1>7, IdleSpeaks DEF vars, sessionVars
  <2> QED BY <1>1, <2>1, SpeaksKeeps
<1> QED BY <1>2, <1>3, <1>4, <1>5, <1>6, <1>7 DEF Next, Player, SoundStep

LEMMA PlayInvariant == Spec => [](Typed /\ PlayInv)
<1>1. Init => Typed /\ PlayInv
  BY InitTypes, PlayInvInit
<1>2. Typed /\ PlayInv /\ [Next]_vars => (Typed /\ PlayInv)'
  BY NextTypes, PlayInvNext
<1> QED BY <1>1, <1>2, PTL DEF Spec

\* For any number of responses and chunks: a chunk whose play() returned makes no
\* sound while the browser is there, whatever cancels, invalidations and losses
\* crossed on the wire.
THEOREM ReturnedIsSilent == Spec => []EndedIsSilent
<1>1. PlayInv => EndedIsSilent
  BY DEF PlayInv, Silence, Quiet, EndedIsSilent
<1> QED BY <1>1, PlayInvariant, PTL

\* The browser refuses a chunk for another response's sake only when the server
\* gave up on a chunk of that response without an acknowledgement, or sent browser
\* speech to a browser without speechSynthesis, where playOutput() keeps the owner.
THEOREM RefusalHasCause == Spec => []RefusedForCause
<1>1. PlayInv => RefusedForCause
  BY DEF PlayInv
<1> QED BY <1>1, PlayInvariant, PTL

\* The mute of an invalidated response never silences the audio of a later one.
THEOREM MuteIsUndone == Spec => []NeverMuted
<1>1. PlayInv => NeverMuted
  BY DEF PlayInv, Gains, NeverMuted
<1> QED BY <1>1, PlayInvariant, PTL

-----------------------------------------------------------------------------
(* The contract of play(): each step of the output and the player is a step of *)
(* the contract, or one the contract does not see.                             *)

Lives == [i \in Ids |-> Life(i)]

LifeIn(t) ==
    CASE t = "waitStart"             -> "starting"
      [] t \in {"waitStop", "waitEnd"} -> "sounding"
      [] OTHER                       -> t

LEMMA LifeMoves ==
    ASSUME Typed, NEW i \in Ids, NEW to, task' = [task EXCEPT ![i] = to]
    PROVE  Lives' = [Lives EXCEPT ![i] = LifeIn(to)]
<1>1. \A j \in Ids : task'[j] = IF j = i THEN to ELSE task[j]
  BY DEF Typed, TypeOK
<1>2. \A j \in Ids : Life(j)' = IF j = i THEN LifeIn(to) ELSE Life(j)
  BY <1>1 DEF Life, LifeIn
<1>3. Lives' = [j \in Ids |-> IF j = i THEN LifeIn(to) ELSE Life(j)]
  BY <1>2 DEF Lives
<1> QED BY <1>3 DEF Lives

LEMMA LifeAt ==
    ASSUME NEW i \in Ids
    PROVE  Lives[i] = LifeIn(task[i])
BY DEF Lives, Life, LifeIn

\* A step of the contract.
ContractStep ==
    \E i \in Ids : \/ Contract!Hears(i) \/ Contract!Creates(i) \/ Contract!Sends(i)
                   \/ Contract!Starts(i) \/ Contract!Refuses(i) \/ Contract!Ends(i)
                   \/ Contract!GivesUp(i)

LEMMA Unseen ==
    ASSUME UNCHANGED <<task, receipt, heard>>
    PROVE  UNCHANGED <<Lives, receipt, heard>>
BY DEF Lives, Life

LEMMA PlayKeepsContract ==
    ASSUME Typed, PlayInv, NEW i \in Ids, Play(i) \/ Schedule(i)
    PROVE  ContractStep \/ UNCHANGED <<Lives, receipt, heard>>
<1> USE DEF ContractStep, LifeIn
<1>1. UNCHANGED heard
  BY DEF Play, PlayRefuses, PlaySends, PlayStarts, PlayLeavesWait, PlayEnds, PlayTimesOut, Schedule,
         BesidesPlay, playerVars
<1>2. \A from, to : task[i] = from /\ task' = [task EXCEPT ![i] = to]
         => Lives[i] = LifeIn(from) /\ Lives' = [Lives EXCEPT ![i] = LifeIn(to)]
  BY LifeMoves, LifeAt
<1>3. CASE Schedule(i)
  <2>1. Lives[i] = "none" /\ Lives' = [Lives EXCEPT ![i] = "created"] /\ UNCHANGED receipt
    BY <1>2, <1>3 DEF Schedule
  <2>2. Contract!Creates(i)
    BY <1>1, <2>1 DEF Contract!Creates, Contract!Move, Lives
  <2> QED BY <2>2
<1>4. CASE PlayRefuses(i)
  <2>1. Lives[i] = "created" /\ Lives' = [Lives EXCEPT ![i] = "ended"]
        /\ receipt' = [receipt EXCEPT ![i] = "nothing"]
    BY <1>2, <1>4 DEF PlayRefuses, Finish
  <2>2. Contract!Refuses(i)
    BY <1>1, <2>1 DEF Contract!Refuses, Contract!Move, Lives
  <2> QED BY <2>2
<1>5. CASE PlaySends(i)
  <2>1. Lives[i] = "created" /\ Lives' = [Lives EXCEPT ![i] = "starting"] /\ UNCHANGED receipt
    BY <1>2, <1>5 DEF PlaySends
  <2>2. Contract!Sends(i)
    BY <1>1, <2>1 DEF Contract!Sends, Contract!Move, Lives
  <2> QED BY <2>2
<1>6. CASE PlayStarts(i)
  <2>1. Lives[i] = "starting" /\ Lives' = [Lives EXCEPT ![i] = "sounding"] /\ UNCHANGED receipt
    BY <1>2, <1>6 DEF PlayStarts
  <2>2. Contract!Starts(i)
    BY <1>1, <2>1 DEF Contract!Starts, Contract!Move, Lives
  <2> QED BY <2>2
<1>7. CASE PlayLeavesWait(i)
  <2>1. Lives[i] = "sounding" /\ Lives' = [Lives EXCEPT ![i] = "sounding"] /\ UNCHANGED receipt
    BY <1>2, <1>7 DEF PlayLeavesWait
  <2>2. UNCHANGED Lives
    BY <2>1 DEF Lives
  <2> QED BY <1>1, <2>1, <2>2
<1>8. CASE PlayEnds(i)
  <2>1. Lives[i] = "sounding" /\ Lives' = [Lives EXCEPT ![i] = "ended"]
        /\ receipt' = [receipt EXCEPT ![i] = stopped[i]] /\ stopped[i] # "open"
    BY <1>2, <1>8 DEF PlayEnds, Finish
  <2>2. stopped[i] \in {"nothing", "part", "all"} /\ Contract!AtLeast(heard[i], stopped[i])
    BY <2>1 DEF PlayInv, Claims, Typed, TypeOK, Heard
  <2>3. Contract!Ends(i)
    BY <1>1, <2>1, <2>2 DEF Contract!Ends, Contract!Move, Lives
  <2> QED BY <2>3
<1>9. CASE PlayTimesOut(i)
  <2>1. /\ Lives[i] \in {"starting", "sounding"} /\ Lives' = [Lives EXCEPT ![i] = "failed"]
        /\ UNCHANGED receipt
    BY <1>2, <1>9 DEF PlayTimesOut
  <2>2. Contract!GivesUp(i)
    BY <1>1, <2>1 DEF Contract!GivesUp, Contract!Move, Lives
  <2> QED BY <2>2
<1> QED BY <1>3, <1>4, <1>5, <1>6, <1>7, <1>8, <1>9 DEF Play

LEMMA HearingKeepsContract ==
    ASSUME Typed, PlayInv, NEW i \in Ids, Begins(i) \/ PlaysOut(i)
    PROVE  ContractStep
<1>1. sound[i] \in {"scheduled", "audible"} /\ UNCHANGED <<task, receipt>>
  BY DEF Begins, PlaysOut, BesidesSound, ServerVars, taskVars
<1>2. task[i] \notin {"none", "created"}
  BY <1>1 DEF PlayInv, FreshIsUntouched, Fresh
<1>3. Lives[i] # "none"
  BY <1>2, LifeAt DEF LifeIn
<1>4. PICK h \in {"part", "all"} :
         Contract!AtLeast(h, heard[i]) /\ heard' = [heard EXCEPT ![i] = h]
  <2>1. heard[i] \in {"nothing", "part", "all"}
    BY DEF Typed, TypeOK, Heard
  <2>2. CASE Begins(i)
    <3>1. heard[i] = "nothing" /\ heard' = [heard EXCEPT ![i] = "part"]
      BY <2>2 DEF Begins, PlayInv, Hearing
    <3> QED BY <3>1 DEF Contract!AtLeast
  <2>3. CASE PlaysOut(i)
    BY <2>1, <2>3 DEF PlaysOut, Contract!AtLeast
  <2> QED BY <2>2, <2>3
<1>5. UNCHANGED Lives
  BY <1>1 DEF Lives, Life
<1>6. Contract!Hears(i)
  BY <1>1, <1>3, <1>4, <1>5 DEF Contract!Hears, Lives
<1> QED BY <1>6 DEF ContractStep

LEMMA StepKeepsContract ==
    ASSUME Typed, PlayInv, [Next]_vars
    PROVE  ContractStep \/ UNCHANGED <<Lives, receipt, heard>>
<1>1. CASE BeginResponse \/ Interrupt \/ FailResponse \/ SpeechOnset \/ SpeechEnds \/ Resume
  <2>1. UNCHANGED <<task, receipt, heard>>
    BY <1>1 DEF BeginResponse, Interrupt, FailResponse, SpeechOnset, SpeechEnds, Resume, taskVars,
                playerVars
  <2> QED BY <2>1, Unseen
<1>2. ASSUME NEW i \in Ids, Play(i) \/ Schedule(i)
      PROVE  ContractStep \/ UNCHANGED <<Lives, receipt, heard>>
  BY <1>2, PlayKeepsContract
<1>3. CASE Acknowledge \/ Disconnect
  <2>1. UNCHANGED <<task, receipt, heard>>
    BY <1>3 DEF Acknowledge, Disconnect, playerVars
  <2> QED BY <2>1, Unseen
<1>4. CASE OnMessage
  <2>1. UNCHANGED <<task, receipt, heard>>
    BY <1>4, OnMessageParts
       DEF ServerVars, taskVars, Takes, Stops, Invalidates, Ducks, Unducks, BesidesYield
  <2> QED BY <2>1, Unseen
<1>5. ASSUME NEW i \in Ids, Begins(i) \/ PlaysOut(i) PROVE ContractStep
  BY <1>5, HearingKeepsContract
<1>6. ASSUME NEW i \in Ids, FallsSilent(i) \/ SpeechErrs(i)
      PROVE  UNCHANGED <<Lives, receipt, heard>>
  <2>1. UNCHANGED <<task, receipt, heard>>
    BY <1>6 DEF FallsSilent, SpeechErrs, BesidesSound, ServerVars, taskVars
  <2> QED BY <2>1, Unseen
<1>7. CASE UNCHANGED vars
  <2>1. UNCHANGED <<task, receipt, heard>>
    BY <1>7 DEF vars, taskVars, playerVars
  <2> QED BY <2>1, Unseen
<1> QED
  BY <1>1, <1>2, <1>3, <1>4, <1>5, <1>6, <1>7 DEF Next, Session, Player

\* For any number of responses and chunks, the tasks, the wires and the player
\* together implement the contract of play(): its life cycle in order, one receipt
\* per chunk, and no receipt for more than the listener heard.
THEOREM PlaybackImplementsContract == Spec => KeepsContract
<1>1. Init => Contract!ContractInit
  BY DEF Init, Contract!ContractInit, Life
<1>2. Typed /\ PlayInv /\ [Next]_vars => [Contract!ContractNext]_(Contract!contractVars)
  BY StepKeepsContract DEF ContractStep, Contract!ContractNext, Contract!contractVars, Lives
<1> QED BY <1>1, <1>2, PlayInvariant, PTL DEF Spec, KeepsContract, Contract!ContractSpec

-----------------------------------------------------------------------------
(* Ducking and resuming: a yield the browser still honours has its resume on the *)
(* way as soon as the session requested one.                                     *)

\* The epochs on the wire grow, and the player knows none that is newer.
EpochsGrow ==
    /\ \A r \in Responses : epochOf[r] <= pepoch
    /\ \A k \in DOMAIN down :
          /\ down[k].epoch <= pepoch
          /\ \A r \in Responses : epochOf[r] <= down[k].epoch
          /\ \A l \in DOMAIN down : k < l => down[k].epoch <= down[l].epoch

IsYield(m, kind) == m.kind = kind /\ m.resp = resp

ResumeComes ==
    live /\ resumed =>
        /\ \A k \in DOMAIN down : IsYield(down[k], "duck") =>
              \E l \in DOMAIN down : k < l /\ IsYield(down[l], "resume")
        /\ yielding = resp /\ resp # 0 /\ resp \notin cancelled =>
              \/ \E l \in DOMAIN down : IsYield(down[l], "resume")
              \/ ~synthesizer /\ gain = "full"

\* Only a yield of this response makes what it plays soft or paused.
OnlyYields ==
    \A i \in Ids : Current(i) /\ i[1] \notin cancelled /\ yielding # resp =>
        /\ ~Speech(i) /\ sound[i] \in {"scheduled", "audible"} => gain = "full"
        /\ Speech(i) /\ sound[i] = "audible" => ~paused

YieldInv == EpochsGrow /\ ResumeComes /\ OnlyYields

\* What the server's steps do to this: new messages carry the epoch of the step,
\* a duck is sent only without a resume requested, a resume is sent when it is.
YieldSpeaks ==
    /\ UNCHANGED <<resp, mode, synthesizer, live, playerVars>>
    /\ Extends
    /\ pepoch <= pepoch' /\ pepoch' \in Nat
    /\ \A m \in Added : m.epoch = pepoch' /\ (m.kind = "duck" => ~resumed')
    /\ live /\ resumed' /\ ~resumed =>
          \E l \in DOMAIN down' \ DOMAIN down : IsYield(down'[l], "resume")

LEMMA EpochNumbers ==
    ASSUME Typed
    PROVE  /\ pepoch \in Nat /\ resp \in Nat
           /\ \A r \in Responses : epochOf[r] \in Nat
           /\ \A k \in DOMAIN down : down[k].epoch \in Nat /\ k \in Nat
<1>1. pepoch \in Nat /\ resp \in Nat
  BY PlaybackBounds DEF Typed, TypeOK
<1>2. \A r \in Responses : epochOf[r] \in 0 .. MaxResponses
  BY DEF Typed, TypeOK
<1>3. \A k \in DOMAIN down : down[k] \in Messages
  BY WireParts DEF Typed
<1>4. \A k \in DOMAIN down : k \in Nat
  BY DEF Typed, WiresTyped
<1> QED BY <1>1, <1>2, <1>3, <1>4, MessageParts, PlaybackBounds

LEMMA YieldSpeaksKeeps ==
    ASSUME Typed, Typed', YieldInv, YieldSpeaks
    PROVE  YieldInv'
<1> USE DEF YieldInv
<1>1. /\ UNCHANGED <<resp, mode, synthesizer, live>>
      /\ UNCHANGED <<sound, cancelled, epochOf, yielding, gain, paused>>
  BY DEF YieldSpeaks, playerVars
<1>2. /\ \A k \in DOMAIN down : k \in DOMAIN down' /\ down'[k] = down[k]
      /\ \A k \in DOMAIN down' : k \notin DOMAIN down => down'[k] \in Added
  BY DEF YieldSpeaks, Extends, Added
<1>3. EpochsGrow'
  <2>1. \A r \in Responses : epochOf[r] <= pepoch'
    BY EpochNumbers DEF EpochsGrow, YieldSpeaks
  <2>2. \A k \in DOMAIN down' : k \notin DOMAIN down => down'[k].epoch = pepoch'
    BY <1>2 DEF YieldSpeaks
  <2>3. \A k \in DOMAIN down' : down'[k].epoch <= pepoch'
    BY <1>2, <2>2, EpochNumbers DEF EpochsGrow, YieldSpeaks
  <2>4. \A k \in DOMAIN down', r \in Responses : epochOf[r] <= down'[k].epoch
    BY <1>2, <2>1, <2>2 DEF EpochsGrow
  <2>5. ASSUME NEW k \in DOMAIN down', NEW l \in DOMAIN down', k < l
        PROVE  down'[k].epoch <= down'[l].epoch
    <3>1. CASE l \notin DOMAIN down
      BY <2>2, <2>3, <3>1
    <3>2. CASE l \in DOMAIN down /\ k \in DOMAIN down
      BY <1>2, <2>5, <3>2 DEF EpochsGrow
    <3>3. CASE l \in DOMAIN down /\ k \notin DOMAIN down
      <4>1. l < k /\ l \in Nat /\ k \in Nat
        BY <3>3 DEF YieldSpeaks, Extends, Typed, WiresTyped
      <4> QED BY <2>5, <4>1
    <3> QED BY <3>1, <3>2, <3>3
  <2> QED BY <1>1, <2>1, <2>3, <2>4, <2>5 DEF EpochsGrow
<1>4. ResumeComes'
  <2> SUFFICES ASSUME live, resumed'
               PROVE  /\ \A k \in DOMAIN down' : IsYield(down'[k], "duck") =>
                            \E l \in DOMAIN down' : k < l /\ IsYield(down'[l], "resume")
                      /\ yielding = resp /\ resp # 0 /\ resp \notin cancelled =>
                            \/ \E l \in DOMAIN down' : IsYield(down'[l], "resume")
                            \/ ~synthesizer /\ gain = "full"
    BY <1>1 DEF ResumeComes, IsYield
  <2>1. \A k \in DOMAIN down' : IsYield(down'[k], "duck") => k \in DOMAIN down
    BY <1>2 DEF YieldSpeaks, IsYield
  <2>2. CASE resumed
    <3>1. \A k \in DOMAIN down : IsYield(down[k], "duck") =>
             \E l \in DOMAIN down : k < l /\ IsYield(down[l], "resume")
      BY <2>2 DEF ResumeComes
    <3>2. yielding = resp /\ resp # 0 /\ resp \notin cancelled =>
             \/ \E l \in DOMAIN down : IsYield(down[l], "resume")
             \/ ~synthesizer /\ gain = "full"
      BY <2>2 DEF ResumeComes
    <3> QED BY <1>2, <2>1, <3>1, <3>2
  <2>3. CASE ~resumed
    <3>1. PICK l \in DOMAIN down' \ DOMAIN down : IsYield(down'[l], "resume")
      BY <2>3 DEF YieldSpeaks
    <3>2. \A k \in DOMAIN down : k < l
      BY <3>1 DEF YieldSpeaks, Extends
    <3> QED BY <2>1, <3>1, <3>2
  <2> QED BY <2>2, <2>3
<1>5. OnlyYields'
  BY <1>1 DEF OnlyYields, Current, Speech
<1> QED BY <1>3, <1>4, <1>5

LEMMA SentNow ==
    ASSUME WiresTyped, live, NEW m \in Messages, Send(<<m>>)
    PROVE  \E l \in DOMAIN down' \ DOMAIN down : down'[l] = m
<1>1. down' = down \o <<m>> /\ Len(down) \in Nat /\ DOMAIN down = 1 .. Len(down)
  BY DEF Send, WiresTyped
<1>2. DOMAIN down' = 1 .. (Len(down) + 1) /\ down'[Len(down) + 1] = m
  BY <1>1 DEF WiresTyped
<1> QED BY <1>1, <1>2

LEMMA MessageEpochs ==
    ASSUME NEW kind, NEW r, NEW n
    PROVE  /\ Message(kind, r, n).epoch = pepoch /\ Message(kind, r, n).kind = kind
           /\ Message(kind, r, n).resp = r
           /\ [Message(kind, r, n) EXCEPT !.epoch = pepoch + 1].epoch = pepoch + 1
           /\ [Message(kind, r, n) EXCEPT !.epoch = pepoch + 1].kind = kind
BY DEF Message

LEMMA SessionYields ==
    ASSUME Typed,
           \/ Interrupt \/ FailResponse \/ SpeechOnset \/ SpeechEnds \/ Resume
           \/ \E i \in Ids : Schedule(i) \/ Play(i)
           \/ Acknowledge \/ UNCHANGED vars
    PROVE  YieldSpeaks
<1>1. pepoch \in Nat
  BY EpochNumbers
<1>2. CASE Interrupt
  <2> DEFINE m == [Message("invalidate", resp, 0) EXCEPT !.epoch = pepoch + 1]
  <2>1. m \in Messages
    BY <1>2, AboutResponse DEF Interrupt
  <2>2. Extends /\ Added \subseteq {m}
    BY <1>2, <2>1, OneAppended DEF Interrupt, Typed
  <2>3. m.epoch = pepoch + 1 /\ m.kind = "invalidate"
    BY MessageEpochs
  <2>4. UNCHANGED <<resp, mode, synthesizer, live, resumed, playerVars>> /\ pepoch' = pepoch + 1
    BY <1>2 DEF Interrupt, yieldVars
  <2> HIDE DEF m
  <2> QED BY <1>1, <2>2, <2>3, <2>4 DEF YieldSpeaks
<1>3. CASE SpeechOnset
  <2> DEFINE m == Message("duck", resp, 0)
  <2>1. m \in Messages
    BY <1>3, AboutResponse DEF SpeechOnset
  <2>2. UNCHANGED down \/ Send(<<m>>)
    BY <1>3 DEF SpeechOnset
  <2>3. m.epoch = pepoch
    BY MessageEpochs
  <2> HIDE DEF m
  <2>4. Extends /\ Added \subseteq {m}
    BY <2>1, <2>2, OneAppended, Unextended DEF Typed
  <2>5. UNCHANGED <<resp, mode, synthesizer, pepoch, live, playerVars>> /\ ~resumed'
    BY <1>3 DEF SpeechOnset, sessionVars
  <2> QED BY <1>1, <2>3, <2>4, <2>5 DEF YieldSpeaks
<1>4. CASE Resume
  <2> DEFINE m == Message("resume", resp, 0)
  <2>1. m \in Messages
    BY <1>4, AboutResponse DEF Resume, Typed, EpochFollows
  <2>2. Send(<<m>>)
    BY <1>4 DEF Resume, Typed, EpochFollows
  <2>3. m.epoch = pepoch /\ m.kind = "resume" /\ m.resp = resp
    BY MessageEpochs
  <2> HIDE DEF m
  <2>4. Extends /\ Added \subseteq {m}
    BY <2>1, <2>2, OneAppended DEF Typed
  <2>5. live => \E l \in DOMAIN down' \ DOMAIN down : down'[l] = m
    BY <2>1, <2>2, SentNow DEF Typed
  <2>6. UNCHANGED <<resp, mode, synthesizer, pepoch, live, playerVars>>
    BY <1>4 DEF Resume, sessionVars
  <2> QED BY <1>1, <2>3, <2>4, <2>5, <2>6 DEF YieldSpeaks, IsYield
<1>5. ASSUME NEW i \in Ids, PlaySends(i) PROVE YieldSpeaks
  <2> DEFINE m == Message("audio", i[1], i[2])
  <2>1. Extends /\ Added \subseteq {m}
    BY <1>5, AboutChunk, OneAppended DEF PlaySends, Typed
  <2>2. m.epoch = pepoch /\ m.kind = "audio"
    BY MessageEpochs
  <2>3. UNCHANGED <<resp, mode, synthesizer, pepoch, live, resumed, playerVars>>
    BY <1>5 DEF PlaySends, BesidesPlay, sessionVars, yieldVars
  <2> HIDE DEF m
  <2> QED BY <1>1, <2>1, <2>2, <2>3 DEF YieldSpeaks
<1>6. ASSUME NEW i \in Ids, Play(i), ~PlaySends(i) PROVE YieldSpeaks
  <2> DEFINE m == Message("cancel_audio", i[1], i[2])
  <2>1. Extends /\ Added \subseteq {m}
    BY <1>6, PlayRequests
  <2>2. m.epoch = pepoch /\ m.kind = "cancel_audio"
    BY MessageEpochs
  <2>3. UNCHANGED <<resp, mode, synthesizer, pepoch, live, resumed, playerVars>>
    BY <1>6 DEF Play, PlayRefuses, PlayStarts, PlayLeavesWait, PlayEnds, PlayTimesOut, BesidesPlay,
                sessionVars, yieldVars
  <2> HIDE DEF m
  <2> QED BY <1>1, <2>1, <2>2, <2>3 DEF YieldSpeaks
<1>7. CASE \/ FailResponse \/ SpeechEnds \/ Acknowledge \/ UNCHANGED vars
           \/ \E i \in Ids : Schedule(i)
  <2>1. UNCHANGED <<resp, mode, synthesizer, pepoch, live, down, resumed, playerVars>>
    BY <1>7 DEF FailResponse, SpeechEnds, Acknowledge, vars, Schedule, sessionVars, yieldVars
  <2> QED BY <1>1, <2>1, Unextended DEF YieldSpeaks
<1> QED BY <1>2, <1>3, <1>4, <1>5, <1>6, <1>7

LEMMA YieldRests ==
    ASSUME Typed, PlayInv, YieldInv, BeginResponse \/ Disconnect
    PROVE  YieldInv'
<1> USE DEF YieldInv
<1>1. UNCHANGED <<mode, synthesizer, pepoch, sound, cancelled, epochOf, yielding, gain, paused>>
  BY DEF BeginResponse, Disconnect, sessionVars, playerVars
<1>2. CASE BeginResponse
  <2>1. ~resumed' /\ UNCHANGED down /\ resp' = resp + 1
    BY <1>2 DEF BeginResponse
  <2>2. \A i \in Ids : i[1] = resp' => sound[i] = "absent"
    BY <2>1, EpochNumbers, IdParts DEF PlayInv, OneAtATime, FreshIsUntouched, Fresh
  <2>3. EpochsGrow' /\ ResumeComes'
    BY <1>1, <2>1 DEF EpochsGrow, ResumeComes
  <2>4. OnlyYields'
    BY <1>1, <2>2 DEF OnlyYields, Current, Speech
  <2> QED BY <2>3, <2>4
<1>3. CASE Disconnect
  <2>1. ~live' /\ down' = <<>> /\ UNCHANGED resp
    BY <1>3 DEF Disconnect, sessionVars
  <2>2. DOMAIN down' = {}
    BY <2>1
  <2>3. EpochsGrow' /\ ResumeComes'
    BY <1>1, <2>1, <2>2 DEF EpochsGrow, ResumeComes
  <2>4. OnlyYields'
    BY <1>1, <2>1 DEF OnlyYields, Current, Speech
  <2> QED BY <2>3, <2>4
<1> QED BY <1>2, <1>3

LEMMA YieldSounds ==
    ASSUME Typed, PlayInv, YieldInv, NEW i \in Ids, SoundStep(i)
    PROVE  YieldInv'
<1> USE DEF YieldInv
<1>1. /\ UNCHANGED <<resp, mode, synthesizer, pepoch, live, down, resumed>>
      /\ UNCHANGED <<cancelled, epochOf, yielding, gain, paused>>
  BY SoundParts DEF BesidesSound, ServerVars, sessionVars, yieldVars
<1>2. EpochsGrow' /\ ResumeComes'
  BY <1>1 DEF EpochsGrow, ResumeComes, IsYield
<1>3. \A j \in Ids : sound'[j] \in {"scheduled", "audible"} => sound[j] \in {"scheduled", "audible"}
  BY SoundParts
<1>4. \A j \in Ids : sound'[j] = "audible" => sound[j] = "audible" \/ (j = i /\ Begins(i))
  <2>1. CASE Begins(i)
    BY <2>1 DEF Begins, Typed, TypeOK
  <2>2. CASE ~Begins(i)
    BY <2>2 DEF SoundStep, PlaysOut, FallsSilent, SpeechErrs, Leave, Typed, TypeOK
  <2> QED BY <2>1, <2>2
<1>5. Begins(i) => ~(Speech(i) /\ paused)
  BY DEF Begins
<1>6. OnlyYields'
  BY <1>1, <1>3, <1>4, <1>5 DEF OnlyYields, Current, Speech
<1> QED BY <1>2, <1>6

LEMMA YieldMessages ==
    ASSUME Typed, Typed', PlayInv, YieldInv, OnMessage
    PROVE  YieldInv'
<1> USE DEF YieldInv
<1>1. PICK m \in Messages :
         /\ m = Head(down) /\ down # <<>> /\ down' = Tail(down)
         /\ Takes(m) \/ Stops(m) \/ Invalidates(m) \/ Ducks(m) \/ Unducks(m)
         /\ UNCHANGED ServerVars
  BY OnMessageParts
<1>2. Shifts /\ m = down[1] /\ m \in Sent
  BY <1>1, TakenOff, FirstMessage DEF Typed
<1>3. SoundsMove(m)
  BY <1>1, <1>2, MessageMoves
<1>4. UNCHANGED <<resp, mode, synthesizer, pepoch, live, resumed>> /\ cancelled \subseteq cancelled'
  BY <1>1 DEF ServerVars, sessionVars, yieldVars, Takes, Stops, StopSound, Invalidates, Invalidate,
              Ducks, Unducks, BesidesYield
<1>5. /\ 1 \in DOMAIN down
      /\ \A k \in DOMAIN down' :
            k + 1 \in DOMAIN down /\ down'[k] = down[k + 1] /\ k \in Nat /\ k > 0
      /\ \A k \in DOMAIN down : k \in Nat /\ k > 0 /\ (k # 1 => k - 1 \in DOMAIN down')
  BY <1>2 DEF Shifts
<1>6. m.resp \in Responses /\ m.epoch \in Nat /\ m.resp # 0
  BY MessageParts DEF Responses
<1>7. EpochsGrow'
  <2>1. \A r \in Responses : epochOf'[r] = epochOf[r] \/ epochOf'[r] = m.epoch
    <3>1. CASE UNCHANGED epochOf
      BY <3>1
    <3>2. CASE epochOf' = [epochOf EXCEPT ![m.resp] = m.epoch]
      BY <1>6, <3>2 DEF Typed, TypeOK
    <3>3. CASE Invalidates(m)
      <4>1. epochOf' = [epochOf EXCEPT ![m.resp] = IF @ < m.epoch THEN m.epoch ELSE @]
        BY <3>3 DEF Invalidates, Invalidate
      <4> QED BY <1>6, <4>1 DEF Typed, TypeOK
    <3>4. Takes(m) => UNCHANGED epochOf \/ epochOf' = [epochOf EXCEPT ![m.resp] = m.epoch]
      BY DEF Takes, TakeAudio, Foreign
    <3>5. Stops(m) \/ Ducks(m) \/ Unducks(m) => UNCHANGED epochOf
      BY DEF Stops, Ducks, Unducks, BesidesYield
    <3> QED BY <1>1, <3>1, <3>2, <3>3, <3>4, <3>5
  <2>2. m.epoch <= pepoch /\ \A k \in DOMAIN down : 1 < k => m.epoch <= down[k].epoch
    BY <1>2, <1>5 DEF EpochsGrow
  <2>3. \A r \in Responses : epochOf'[r] <= pepoch'
    BY <1>4, <2>1, <2>2 DEF EpochsGrow
  <2>4. ASSUME NEW k \in DOMAIN down'
        PROVE  /\ down'[k].epoch <= pepoch'
               /\ \A r \in Responses : epochOf'[r] <= down'[k].epoch
               /\ \A l \in DOMAIN down' : k < l => down'[k].epoch <= down'[l].epoch
    <3>1. k + 1 \in DOMAIN down /\ down'[k] = down[k + 1] /\ 1 < k + 1
      BY <1>5
    <3>2. down'[k].epoch <= pepoch'
      BY <1>4, <3>1 DEF EpochsGrow
    <3>3. \A r \in Responses : epochOf'[r] <= down'[k].epoch
      BY <2>1, <2>2, <3>1 DEF EpochsGrow
    <3>4. ASSUME NEW l \in DOMAIN down', k < l PROVE down'[k].epoch <= down'[l].epoch
      <4>1. l + 1 \in DOMAIN down /\ down'[l] = down[l + 1] /\ k + 1 < l + 1
        BY <1>5, <3>4
      <4> QED BY <3>1, <4>1 DEF EpochsGrow
    <3> QED BY <3>2, <3>3, <3>4
  <2> QED BY <2>3, <2>4 DEF EpochsGrow
<1>8. ResumeComes'
  <2> SUFFICES ASSUME live, resumed
               PROVE  /\ \A k \in DOMAIN down' : IsYield(down'[k], "duck") =>
                            \E l \in DOMAIN down' : k < l /\ IsYield(down'[l], "resume")
                      /\ yielding' = resp /\ resp # 0 /\ resp \notin cancelled' =>
                            \/ \E l \in DOMAIN down' : IsYield(down'[l], "resume")
                            \/ ~synthesizer /\ gain' = "full"
    BY <1>4 DEF ResumeComes, IsYield
  <2>1. \A l \in DOMAIN down : l # 1 /\ IsYield(down[l], "resume") =>
           l - 1 \in DOMAIN down' /\ IsYield(down'[l - 1], "resume")
    <3> SUFFICES ASSUME NEW l \in DOMAIN down, l # 1, IsYield(down[l], "resume")
                 PROVE  l - 1 \in DOMAIN down' /\ IsYield(down'[l - 1], "resume")
      OBVIOUS
    <3>1. l - 1 \in DOMAIN down' /\ l \in Nat /\ l > 0
      BY <1>5
    <3>2. down'[l - 1] = down[l - 1 + 1] /\ l - 1 + 1 = l
      BY <1>5, <3>1
    <3> QED BY <3>1, <3>2
  <2>2. ASSUME NEW k \in DOMAIN down', IsYield(down'[k], "duck")
        PROVE  \E l \in DOMAIN down' : k < l /\ IsYield(down'[l], "resume")
    <3>1. k + 1 \in DOMAIN down /\ down'[k] = down[k + 1] /\ k \in Nat /\ k > 0
      BY <1>5
    <3>2. PICK l \in DOMAIN down : k + 1 < l /\ IsYield(down[l], "resume")
      BY <2>2, <3>1 DEF ResumeComes
    <3>3. l \in Nat /\ k < l - 1 /\ l # 1
      BY <1>5, <3>1, <3>2
    <3> QED BY <2>1, <3>2, <3>3
  <2>3. ASSUME yielding' = resp, resp # 0, resp \notin cancelled'
        PROVE  \/ \E l \in DOMAIN down' : IsYield(down'[l], "resume")
               \/ ~synthesizer /\ gain' = "full"
    <3>1. CASE yielding = resp
      <4>0. resp \notin cancelled
        BY <1>4, <2>3
      <4>1. CASE ~\E l \in DOMAIN down : IsYield(down[l], "resume")
        <5>1. ~synthesizer /\ gain = "full"
          BY <2>3, <3>1, <4>0, <4>1 DEF ResumeComes
        <5>2. ~\E l \in DOMAIN down : IsYield(down[l], "duck")
          BY <4>1 DEF ResumeComes
        <5>3. ~(Ducks(m) /\ m.resp = resp)
          BY <1>2, <1>5, <5>2 DEF Ducks, IsYield
        <5>4. gain' = "full"
          <6>1. CASE Takes(m)
            BY <5>1, <6>1 DEF Takes, TakeAudio, Foreign, GainFor
          <6>2. CASE Stops(m)
            BY <5>1, <6>2 DEF Stops
          <6>3. CASE Invalidates(m)
            BY <2>3, <6>3 DEF Invalidates, Invalidate
          <6>4. CASE Ducks(m)
            BY <2>3, <5>1, <5>3, <6>4 DEF Ducks, Duck
          <6>5. CASE Unducks(m)
            BY <5>1, <6>5 DEF Unducks, Unduck
          <6> QED BY <1>1, <6>1, <6>2, <6>3, <6>4, <6>5
        <5> QED BY <5>1, <5>4
      <4>2. CASE \E l \in DOMAIN down : IsYield(down[l], "resume")
        <5>1. PICK l \in DOMAIN down : IsYield(down[l], "resume")
          BY <4>2
        <5>2. CASE l = 1
          <6>1. Unducks(m) /\ m.resp = resp
            BY <1>1, <1>2, <5>1, <5>2 DEF IsYield, Takes, Stops, Invalidates, Ducks
          <6>2. epochOf[m.resp] <= m.epoch
            BY <1>2, <1>5, <1>6 DEF EpochsGrow
          <6>3. ~(m.epoch < epochOf[m.resp])
            BY <1>6, <6>2, EpochNumbers
          <6>4. gain' = "full" /\ (synthesizer => yielding' = 0)
            BY <3>1, <4>0, <6>1, <6>3 DEF Unducks, Unduck
          <6> QED BY <2>3, <6>4 DEF Typed, TypeOK
        <5>3. CASE l # 1
          BY <2>1, <5>1, <5>3
        <5> QED BY <5>2, <5>3
      <4> QED BY <4>1, <4>2
    <3>2. CASE yielding # resp
      <4>1. Ducks(m) /\ m.resp = resp
        BY <1>1, <2>3, <3>2
           DEF Takes, Stops, Invalidates, Invalidate, Ducks, Duck, Unducks, Unduck
      <4>2. IsYield(down[1], "duck")
        BY <1>2, <4>1 DEF Ducks, IsYield
      <4>3. PICK l \in DOMAIN down : 1 < l /\ IsYield(down[l], "resume")
        BY <1>5, <4>2 DEF ResumeComes
      <4>4. l # 1
        BY <1>5, <4>3
      <4> QED BY <2>1, <4>3, <4>4
    <3> QED BY <3>1, <3>2
  <2> QED BY <2>2, <2>3
<1>9. OnlyYields'
  <2> SUFFICES ASSUME NEW i \in Ids, i[1] = resp, resp \notin cancelled', yielding' # resp
               PROVE  /\ mode[resp] # "speech" /\ sound'[i] \in {"scheduled", "audible"} => gain' = "full"
                      /\ mode[resp] = "speech" /\ sound'[i] = "audible" => ~paused'
    BY <1>4 DEF OnlyYields, Current, Speech
  <2>1. resp \notin cancelled
    BY <1>4
  <2>2. yielding # resp =>
           /\ mode[resp] # "speech" /\ sound[i] \in {"scheduled", "audible"} => gain = "full"
           /\ mode[resp] = "speech" /\ sound[i] = "audible" => ~paused
    BY <2>1 DEF OnlyYields, Current, Speech
  <2>3. sound'[i] = "audible" => sound[i] = "audible"
    BY <1>3 DEF SoundsMove
  <2>4. m.kind # "audio" => (sound'[i] \in {"scheduled", "audible"} => sound[i] \in {"scheduled", "audible"})
    BY <1>3 DEF SoundsMove
  <2>5. CASE Takes(m)
    <3>1. UNCHANGED <<yielding, paused>>
      BY <2>5 DEF Takes
    <3>2. CASE UNCHANGED <<sound, gain>>
      BY <2>2, <3>1, <3>2
    <3>3. CASE sound' = [sound EXCEPT ![About(m)] = "scheduled"] /\ gain' = GainFor(m.resp)
      <4>1. sound'[i] = sound[i] \/ i = About(m)
        BY <3>3 DEF Typed, TypeOK
      <4>2. i = About(m) => m.resp = resp
        BY DEF About
      <4>3. gain' = "full" \/ gain' = gain
        BY <3>3 DEF GainFor
      <4>4. mode[resp] # "speech" /\ m.resp = resp => gain' = "full"
        <5>1. mode[m.resp] \in {"pcm", "speech"}
          BY <1>6 DEF Typed, TypeOK
        <5> QED BY <3>1, <3>3, <5>1 DEF GainFor
      <4> QED BY <2>2, <2>3, <3>1, <4>1, <4>2, <4>3, <4>4
    <3> QED BY <2>5, <3>2, <3>3 DEF Takes, TakeAudio, Foreign
  <2>6. CASE Stops(m)
    BY <2>2, <2>3, <2>4, <2>6 DEF Stops
  <2>7. CASE Invalidates(m)
    <3>1. cancelled' = cancelled \union {m.resp}
      BY <2>7 DEF Invalidates, Invalidate
    <3>2. sound'[i] \notin {"scheduled", "audible"}
      <4>1. SUFFICES ASSUME sound'[i] \in {"scheduled", "audible"} PROVE FALSE
        OBVIOUS
      <4>2. sound[i] # "absent"
        BY <2>4, <2>7, <4>1 DEF Invalidates
      <4>3. i[1] <= m.resp /\ m.resp <= resp
        BY <1>1, <4>2, FirstMessage
      <4>4. m.resp = resp
        BY <4>3, EpochNumbers, MessageParts
      <4> QED BY <3>1, <4>4
    <3> QED BY <3>2
  <2>8. CASE Ducks(m)
    <3>1. UNCHANGED sound
      BY <2>8 DEF Ducks, BesidesYield
    <3>2. CASE UNCHANGED <<yielding, gain, paused>>
      BY <2>2, <3>1, <3>2
    <3>3. CASE owner = m.resp /\ yielding' = m.resp
      <4>1. sound[i] \in {"scheduled", "audible"} => i[1] = owner
        BY DEF PlayInv, Ownership, ActiveAudio
      <4>2. sound[i] \notin {"scheduled", "audible"}
        BY <3>3, <4>1
      <4> QED BY <3>1, <4>2
    <3> QED BY <2>8, <3>2, <3>3 DEF Ducks, Duck
  <2>9. CASE Unducks(m)
    <3>1. UNCHANGED sound
      BY <2>9 DEF Unducks, BesidesYield
    <3> QED BY <2>2, <2>9, <3>1 DEF Unducks, Unduck
  <2> QED BY <1>1, <2>5, <2>6, <2>7, <2>8, <2>9
<1> QED BY <1>7, <1>8, <1>9

LEMMA YieldInvInit == Init => YieldInv
<1> SUFFICES ASSUME Init PROVE YieldInv
  OBVIOUS
<1>1. DOMAIN down = {} /\ \A r \in Responses : epochOf[r] = 0
  BY DEF Init
<1>2. EpochsGrow
  BY <1>1 DEF EpochsGrow, Init
<1>3. ResumeComes
  BY DEF ResumeComes, Init
<1>4. OnlyYields
  BY DEF OnlyYields, Init
<1> QED BY <1>2, <1>3, <1>4 DEF YieldInv

LEMMA YieldInvNext == Typed /\ PlayInv /\ YieldInv /\ [Next]_vars => YieldInv'
<1> SUFFICES ASSUME Typed, PlayInv, YieldInv, [Next]_vars PROVE YieldInv'
  OBVIOUS
<1>1. Typed'
  BY NextTypes
<1>2. CASE Session
  BY <1>1, <1>2, SessionYields, YieldSpeaksKeeps, YieldRests DEF Session
<1>3. ASSUME NEW i \in Ids, Play(i) PROVE YieldInv'
  BY <1>1, <1>3, SessionYields, YieldSpeaksKeeps
<1>4. CASE Acknowledge \/ Disconnect \/ UNCHANGED vars
  BY <1>1, <1>4, SessionYields, YieldSpeaksKeeps, YieldRests
<1>5. CASE OnMessage
  BY <1>1, <1>5, YieldMessages
<1>6. ASSUME NEW i \in Ids, SoundStep(i) PROVE YieldInv'
  BY <1>6, YieldSounds
<1> QED BY <1>2, <1>3, <1>4, <1>5, <1>6 DEF Next, Player, SoundStep

\* Once a resume has reached the browser, what the response plays on is neither
\* soft nor paused, however the resume crossed sounds that ended or began.
THEOREM ResumeIsDone == Spec => []ResumeRestores
<1>1. Init => YieldInv
  BY YieldInvInit
<1>2. Typed /\ PlayInv /\ YieldInv /\ [Next]_vars => YieldInv'
  BY YieldInvNext
<1>3. PlayInv /\ YieldInv => ResumeRestores
  <2> SUFFICES ASSUME PlayInv, YieldInv, live, resumed, ~YieldUnderWay, NEW i \in Ids,
                      Current(i), sound[i] = "audible", i[1] \notin cancelled
               PROVE  IF Speech(i) THEN ~paused ELSE gain = "full"
    BY DEF ResumeRestores
  <2>1. \A l \in DOMAIN down : down[l].kind # "resume"
    BY DEF YieldUnderWay
  <2>2. resp # 0
    BY IdParts DEF Current
  <2>3. yielding = resp => ~synthesizer /\ gain = "full"
    BY <2>1, <2>2 DEF YieldInv, ResumeComes, Current, IsYield
  <2>4. Speech(i) => synthesizer
    BY DEF PlayInv, CannotSpeak
  <2> QED BY <2>3, <2>4 DEF YieldInv, OnlyYields
<1> QED BY <1>1, <1>2, <1>3, PlayInvariant, PTL DEF Spec
=============================================================================

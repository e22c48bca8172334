------------------------- MODULE VoiceSessionProofs -------------------------
(***************************************************************************)
(* What VoiceSession keeps true for any number of turns and chunks, any    *)
(* look-ahead and either set of handlers.  The type invariant comes first. *)
(* Inv is inductive relative to TypeOK; each action has a lemma that it    *)
(* keeps Inv, and the safety theorems read the properties off Inv.  Then   *)
(* come what an interruption leaves for the task to do and that no await   *)
(* waits for what cannot come.  The last part is about sessions that take  *)
(* turns from the input loop alone.                                        *)
(***************************************************************************)
EXTENDS VoiceSession, FiniteSetTheorems, TLAPS

-----------------------------------------------------------------------------
(* Type correctness. *)

LEMMA LedgerTypes ==
    ASSUME NEW L \in [Chunks -> LedgerState], NEW c \in Chunks, NEW heard
    PROVE  /\ CancelUnplayed(L) \in [Chunks -> LedgerState]
           /\ MarkUnconfirmed(L) \in [Chunks -> LedgerState]
           /\ MarkStarted(L, c) \in [Chunks -> LedgerState]
           /\ RecordPlayback(L, c, heard) \in [Chunks -> LedgerState]
  BY DEF CancelUnplayed, MarkUnconfirmed, MarkStarted, RecordPlayback, LedgerState

LEMMA WholeLedgerTypes ==
    ASSUME NEW L \in [Chunks -> LedgerState]
    PROVE  /\ CancelUnplayed(L) \in [Chunks -> LedgerState]
           /\ MarkUnconfirmed(L) \in [Chunks -> LedgerState]
  BY DEF CancelUnplayed, MarkUnconfirmed, LedgerState

LEMMA LeaveTypes ==
    ASSUME TypeOK, NEW state \in ConversationState, NEW wasCancelled,
           NEW L \in [Chunks -> LedgerState], Leave(state, wasCancelled, L)
    PROVE  /\ fsm' \in ConversationState
           /\ rpc' \in TaskPoint
           /\ owner' \in 0 .. MaxTurns
           /\ ledger' \in [Chunks -> LedgerState]
  <1>1. CancelUnplayed(L) \in [Chunks -> LedgerState]
    BY WholeLedgerTypes
  <1>2. "LISTENING" \in ConversationState /\ 0 \in 0 .. MaxTurns
    BY BoundsAssumption DEF ConversationState
  <1>3. "done" \in TaskPoint /\ "finally" \in TaskPoint
    BY DEF TaskPoint
  <1> QED BY <1>1, <1>2, <1>3 DEF Leave, Finish, TypeOK, ReleasedOwner

LEMMA FailTypes ==
    ASSUME TypeOK, Fail, UNCHANGED RestVars
    PROVE  TypeOK'
  <1> DEFINE L == CancelUnplayed(MarkUnconfirmed(ledger))
             recovered == IF fsm \notin {"THINKING", "SPEAKING"} THEN fsm
                          ELSE IF \E c \in Chunks : ledger[c] = "PLAYING"
                               THEN "HANDOFF" ELSE "LISTENING"
  <1>1. L \in [Chunks -> LedgerState]
    BY WholeLedgerTypes DEF TypeOK
  <1>2. recovered \in ConversationState
    BY DEF TypeOK, ConversationState
  <1>3. /\ cancel' = TRUE /\ epoch' = epoch + 1 /\ Leave(recovered, TRUE, L)
        /\ UNCHANGED <<resp, token, invalid, attempt, segAudio, play>>
    BY DEF Fail, InvalidateOperations
  <1> HIDE DEF L, recovered
  <1>4. /\ fsm' \in ConversationState /\ rpc' \in TaskPoint
        /\ owner' \in 0 .. MaxTurns /\ ledger' \in [Chunks -> LedgerState]
    BY <1>1, <1>2, <1>3, LeaveTypes
  <1> QED BY <1>3, <1>4 DEF TypeOK, RestVars, actorVars, endVars

LEMMA CompleteTypes ==
    ASSUME TypeOK, Complete, UNCHANGED RestVars
    PROVE  TypeOK'
  <1> DEFINE state == IF ~cancel /\ fsm = "SPEAKING" THEN "LISTENING" ELSE fsm
  <1>1. state \in ConversationState
    BY DEF TypeOK, ConversationState
  <1>2. Leave(state, cancel, ledger)
    BY DEF Complete
  <1> HIDE DEF state
  <1>3. /\ fsm' \in ConversationState /\ rpc' \in TaskPoint
        /\ owner' \in 0 .. MaxTurns /\ ledger' \in [Chunks -> LedgerState]
    BY <1>1, <1>2, LeaveTypes DEF TypeOK
  <1> QED BY <1>3 DEF TypeOK, Complete, RestVars, actorVars, endVars

LEMMA DrainTypes ==
    ASSUME TypeOK, Drain, UNCHANGED RestVars
    PROVE  TypeOK'
  <1>1. CASE FirstAudio
    BY <1>1, CompleteTypes DEF Drain
  <1>2. CASE ~FirstAudio
    BY <1>2 DEF Drain, TypeOK, TaskPoint, sessionVars, audioVars, RestVars, actorVars, endVars
  <1> QED BY <1>1, <1>2

LEMMA GoOnTypes ==
    ASSUME TypeOK, NEW point \in TaskPoint, GoOn(point), UNCHANGED RestVars
    PROVE  TypeOK'
  BY DEF GoOn, TypeOK, sessionVars, audioVars, RestVars, actorVars, endVars

LEMMA OpenStreamTypes ==
    ASSUME TypeOK, NEW n \in {0, 1}, OpenStream(n), UNCHANGED RestVars
    PROVE  TypeOK'
  BY DEF OpenStream, TypeOK, TaskPoint, sessionVars, audioVars, RestVars, actorVars, endVars

LEMMA TakeChunkTypes ==
    ASSUME TypeOK, NEW c \in Chunks, TakeChunk(c), UNCHANGED RestVars
    PROVE  TypeOK'
  <1> USE DEF RestVars, actorVars, endVars
  <1>1. CASE Refused
    BY <1>1, GoOnTypes DEF TakeChunk, TaskPoint
  <1>2. CASE ~Refused
    BY <1>2 DEF TakeChunk, Refused, TypeOK, TaskPoint, PlayState, LedgerState, ConversationState
  <1> QED BY <1>1, <1>2

LEMMA RunResponseTypes ==
    ASSUME TypeOK, RunResponse
    PROVE  TypeOK'
  <1> USE DEF TypeOK, TaskPoint, ConversationState, RestVars, actorVars, endVars, audioVars
  <1>1. CASE PlanNoTool
    <2>1. CASE Stale
      <3>1. Leave(fsm, cancel, ledger)
        BY <1>1, <2>1 DEF PlanNoTool
      <3>2. /\ fsm' \in ConversationState /\ rpc' \in TaskPoint
            /\ owner' \in 0 .. MaxTurns /\ ledger' \in [Chunks -> LedgerState]
        BY <3>1, LeaveTypes
      <3> QED BY <1>1, <2>1, <3>2 DEF PlanNoTool
    <2>2. CASE ~Stale
      BY <1>1, <2>2, GoOnTypes DEF PlanNoTool
    <2> QED BY <2>1, <2>2
  <1>2. CASE CallTool
    BY <1>2, FailTypes DEF CallTool
  <1>3. CASE ToolReturns
    BY <1>3, FailTypes DEF ToolReturns
  <1>4. CASE ToolFails
    <2>1. CASE fsm = "TOOL_WAIT"
      <3>1. Leave("THINKING", cancel, ledger)
        BY <1>4, <2>1 DEF ToolFails
      <3>2. /\ fsm' \in ConversationState /\ rpc' \in TaskPoint
            /\ owner' \in 0 .. MaxTurns /\ ledger' \in [Chunks -> LedgerState]
        BY <3>1, LeaveTypes
      <3> QED BY <1>4, <2>1, <3>2 DEF ToolFails, InvalidateOperations
    <2>2. CASE fsm # "TOOL_WAIT"
      BY <1>4, <2>2, FailTypes DEF ToolFails
    <2> QED BY <2>1, <2>2
  <1>5. CASE ReasonerYields \/ ReasonerEnds \/ ReasonerFails
    BY <1>5, FailTypes, DrainTypes, OpenStreamTypes
       DEF ReasonerYields, ReasonerEnds, ReasonerFails
  <1>6. ASSUME NEW c \in Chunks, SynthesizerYields(c)
        PROVE  TypeOK'
    BY <1>6, FailTypes, DrainTypes, GoOnTypes, TakeChunkTypes DEF SynthesizerYields
  <1>7. ASSUME NEW c \in Chunks, CapacityFreed(c)
        PROVE  TypeOK'
    BY <1>7, FailTypes, TakeChunkTypes DEF CapacityFreed
  <1>8. CASE StreamEnds \/ StreamFails
    BY <1>8, FailTypes, DrainTypes, GoOnTypes, OpenStreamTypes DEF StreamEnds, StreamFails
  <1>9. CASE Gathered
    BY <1>9, FailTypes, CompleteTypes DEF Gathered
  <1>10. CASE Finally
    <2>1. /\ fsm' \in ConversationState /\ rpc' \in TaskPoint
          /\ owner' \in 0 .. MaxTurns /\ ledger' \in [Chunks -> LedgerState]
      BY <1>10, LedgerTypes, WholeLedgerTypes, BoundsAssumption
         DEF Finally, Finish, ReleasedOwner
    <2> QED BY <1>10, <2>1 DEF Finally
  <1> QED BY <1>1, <1>2, <1>3, <1>4, <1>5, <1>6, <1>7, <1>8, <1>9, <1>10 DEF RunResponse

LEMMA PlaybackTypes ==
    ASSUME TypeOK, NEW c \in Chunks, Playback(c)
    PROVE  TypeOK'
  <1>1. ASSUME NEW L \in [Chunks -> LedgerState], NEW heard, TakeReceipt(c, L, heard)
        PROVE  play' \in [Chunks -> PlayState] /\ ledger' \in [Chunks -> LedgerState]
    <2>1. /\ RecordPlayback(L, c, heard) \in [Chunks -> LedgerState]
          /\ CancelUnplayed(RecordPlayback(L, c, heard)) \in [Chunks -> LedgerState]
      BY LedgerTypes, WholeLedgerTypes
    <2> QED BY <1>1, <2>1 DEF TakeReceipt, TypeOK, PlayState
  <1>2. play' \in [Chunks -> PlayState] /\ ledger' \in [Chunks -> LedgerState]
    <2>1. CASE PlayBegins(c)
      BY <2>1, <1>1, LedgerTypes DEF PlayBegins, TypeOK, PlayState
    <2>2. CASE PlayStarts(c)
      BY <2>2, LedgerTypes DEF PlayStarts, TypeOK, PlayState
    <2>3. CASE PlayTimesOut(c)
      BY <2>3 DEF PlayTimesOut, TypeOK, PlayState
    <2>4. ASSUME NEW heard \in {"all", "part", "nothing"}, PlayStops(c, heard)
          PROVE  play' \in [Chunks -> PlayState] /\ ledger' \in [Chunks -> LedgerState]
      BY <2>4, <1>1 DEF PlayStops, TypeOK, PlayState
    <2> QED BY <2>1, <2>2, <2>3, <2>4 DEF Playback
  <1>3. UNCHANGED BesidesAudio
    BY DEF Playback, PlayBegins, PlayStarts, PlayTimesOut, PlayStops
  <1> QED BY <1>2, <1>3
          DEF TypeOK, BesidesAudio, sessionVars, taskVars, RestVars, actorVars, endVars


\* What an interruption, a turn and a wait do to the types.
LEMMA WaitsTypes ==
    ASSUME TypeOK, NEW a \in Actors, NEW point \in ActorPoint, NEW r \in 0 .. MaxTurns,
           NEW turn \in BOOLEAN, Waits(a, point, r, turn)
    PROVE  /\ hpc' \in [Actors -> ActorPoint]
           /\ hwait' \in [Actors -> 0 .. MaxTurns]
           /\ hnext' \in [Actors -> BOOLEAN]
  BY DEF Waits, TypeOK

LEMMA LostTypes ==
    ASSUME TypeOK, NEW followup \in BOOLEAN
    PROVE  /\ NotLost \in (ConversationState \union {"none"}) \X BOOLEAN
           /\ <<fsm, followup>> \in (ConversationState \union {"none"}) \X BOOLEAN
  BY DEF NotLost, TypeOK

LEMMA InterruptTypes ==
    ASSUME TypeOK, NEW a \in Actors, NEW turn \in BOOLEAN, Interrupt(a, turn),
           lost' = NotLost \/ UNCHANGED lost, UNCHANGED endVars
    PROVE  TypeOK'
  <1>1. /\ hpc' \in [Actors -> ActorPoint]
        /\ hwait' \in [Actors -> 0 .. MaxTurns]
        /\ hnext' \in [Actors -> BOOLEAN]
    BY WaitsTypes DEF Interrupt, TypeOK, ActorPoint
  <1>2. lost' \in (ConversationState \union {"none"}) \X BOOLEAN
    BY LostTypes DEF TypeOK
  <1>3. /\ fsm' \in ConversationState /\ epoch' \in Nat
        /\ cancel' \in BOOLEAN /\ invalid' \in BOOLEAN
        /\ UNCHANGED <<resp, token, owner>>
    <2>1. CASE cancel
      BY <2>1 DEF Interrupt, TypeOK, sessionVars
    <2>2. CASE ~cancel
      BY <2>2 DEF Interrupt, StateOnInterrupt, InvalidateOperations, TypeOK, ConversationState
    <2> QED BY <2>1, <2>2
  <1> QED BY <1>1, <1>2, <1>3 DEF Interrupt, TypeOK, taskVars, audioVars, endVars

LEMMA TakeTurnTypes ==
    ASSUME TypeOK, NEW followup \in BOOLEAN, TakeTurn(followup), UNCHANGED endVars,
           hpc' \in [Actors -> ActorPoint], hwait' \in [Actors -> 0 .. MaxTurns],
           hnext' \in [Actors -> BOOLEAN]
    PROVE  TypeOK'
  <1>1. CASE ~Active /\ fsm = "LISTENING"
    <2>1. resp' \in 0 .. MaxTurns
      BY <1>1, BoundsAssumption DEF TakeTurn, Begin, TypeOK
    <2>2. lost' \in (ConversationState \union {"none"}) \X BOOLEAN
      BY <1>1, LostTypes DEF TakeTurn, Begin
    <2> QED BY <1>1, <2>1, <2>2
            DEF TakeTurn, Begin, TypeOK, endVars, ConversationState, TaskPoint, PlayState,
                LedgerState
  <1>2. CASE ~(~Active /\ fsm = "LISTENING")
    BY <1>2, LostTypes DEF TakeTurn, TypeOK, endVars, sessionVars, taskVars, audioVars
  <1> QED BY <1>1, <1>2

LEMMA ResumeTypes ==
    ASSUME TypeOK, NEW h \in Actors, NEW r \in 0 .. MaxTurns, NEW followup \in BOOLEAN,
           Resume(h, r, followup), UNCHANGED endVars
    PROVE  TypeOK'
  <1>1. /\ hpc' \in [Actors -> ActorPoint]
        /\ hwait' \in [Actors -> 0 .. MaxTurns]
        /\ hnext' \in [Actors -> BOOLEAN]
    <2>1. Waits(h, "gone", 0, FALSE) \/ Waits(h, "idle", 0, FALSE)
      BY DEF Resume
    <2>2. 0 \in 0 .. MaxTurns /\ FALSE \in BOOLEAN /\ {"gone", "idle"} \subseteq ActorPoint
      BY BoundsAssumption DEF ActorPoint
    <2> QED BY <2>1, <2>2, WaitsTypes
  <1>2. CASE r # 0 /\ r = killed
    BY <1>1, <1>2, LostTypes DEF Resume, TypeOK, endVars, sessionVars, taskVars, audioVars
  <1>3. CASE ~(r # 0 /\ r = killed)
    BY <1>1, <1>3, TakeTurnTypes DEF Resume
  <1> QED BY <1>2, <1>3

LEMMA HearTypes ==
    ASSUME TypeOK, Hear
    PROVE  TypeOK'
  <1>1. Handlers \subseteq Actors
    BY HandlersAssumption DEF Actors
  <1>2. ASSUME NEW h \in Handlers, HearTurn(h)
        PROVE  TypeOK'
    <2>1. CASE Active /\ fsm = "THINKING"
      BY <1>1, <1>2, <2>1, InterruptTypes DEF HearTurn
    <2>2. CASE ~(Active /\ fsm = "THINKING")
      BY <1>2, <2>2, TakeTurnTypes DEF HearTurn, TypeOK, actorVars
    <2> QED BY <2>1, <2>2
  <1>3. ASSUME NEW h \in Handlers, NEW acoustic \in BOOLEAN, NEW turn \in BOOLEAN,
               HearInterruption(h, acoustic, turn)
        PROVE  TypeOK'
    <2>1. CASE Active
      BY <1>1, <1>3, <2>1, InterruptTypes DEF HearInterruption
    <2>2. CASE ~Active
      BY <1>1, <1>3, <2>2, ResumeTypes DEF HearInterruption, TypeOK
    <2> QED BY <2>1, <2>2
  <1>4. ASSUME NEW acoustic \in BOOLEAN, HearBackground(acoustic)
        PROVE  TypeOK'
    <2>1. /\ "SPEAKING" \in ConversationState /\ "gone" \in ActorPoint
          /\ NotLost \in (ConversationState \union {"none"}) \X BOOLEAN
      BY DEF ConversationState, ActorPoint, NotLost
    <2>2. fsm' \in ConversationState
      BY <1>4, <2>1 DEF HearBackground, TypeOK
    <2>3. hpc' \in [Actors -> ActorPoint]
      BY <1>4, <2>1 DEF HearBackground, TypeOK
    <2> QED BY <1>4, <2>1, <2>2, <2>3
            DEF HearBackground, TypeOK, taskVars, audioVars, endVars
  <1> QED BY <1>2, <1>3, <1>4 DEF Hear

LEMMA WakeTypes ==
    ASSUME TypeOK, NEW a \in Actors, Wake(a)
    PROVE  TypeOK'
  <1> USE DEF TypeOK
  <1>1. CASE WakeAfterStop(a)
    <2>1. CASE hnext[a] /\ Active
      <3>1. /\ hpc' \in [Actors -> ActorPoint]
            /\ hwait' \in [Actors -> 0 .. MaxTurns]
            /\ hnext' \in [Actors -> BOOLEAN]
        BY <1>1, <2>1, WaitsTypes DEF WakeAfterStop, ActorPoint
      <3> QED BY <1>1, <2>1, <3>1, LostTypes
              DEF WakeAfterStop, sessionVars, taskVars, audioVars, endVars
    <2>2. CASE hnext[a] /\ ~Active
      BY <1>1, <2>2, ResumeTypes DEF WakeAfterStop
    <2>3. CASE ~hnext[a]
      <3>1. /\ hpc' \in [Actors -> ActorPoint]
            /\ hwait' \in [Actors -> 0 .. MaxTurns]
            /\ hnext' \in [Actors -> BOOLEAN]
        <4>1. Waits(a, "idle", 0, FALSE)
          BY <1>1, <2>3 DEF WakeAfterStop
        <4>2. 0 \in 0 .. MaxTurns /\ FALSE \in BOOLEAN /\ "idle" \in ActorPoint
          BY BoundsAssumption DEF ActorPoint
        <4> QED BY <4>1, <4>2, WaitsTypes
      <3> QED BY <1>1, <2>3, <3>1, LostTypes
              DEF WakeAfterStop, sessionVars, taskVars, audioVars, endVars
    <2> QED BY <2>1, <2>2, <2>3
  <1>2. CASE WakeAfterEnd(a)
    BY <1>2, ResumeTypes DEF WakeAfterEnd
  <1> QED BY <1>1, <1>2 DEF Wake

LEMMA CancelResponseTypes ==
    ASSUME TypeOK, CancelResponse
    PROVE  /\ sessionVars' = <<fsm', epoch, resp, token, cancel, invalid, owner'>>
           /\ fsm' \in ConversationState
           /\ owner' \in 0 .. MaxTurns
           /\ rpc' \in TaskPoint
           /\ attempt' = attempt /\ segAudio' = segAudio
           /\ play' \in [Chunks -> PlayState]
           /\ ledger' \in [Chunks -> LedgerState]
           /\ killed' \in 0 .. MaxTurns /\ mute' \in BOOLEAN
  <1>1. CASE rpc \in {"start", "finally", "drain"}
    BY <1>1 DEF CancelResponse, CancelPlayback, sessionVars, audioVars, TypeOK, TaskPoint,
                PlayState
  <1>2. CASE rpc \notin {"start", "finally", "drain"}
    <2>1. Leave(fsm, cancel, ledger) /\ play' = play
      BY <1>2 DEF CancelResponse
    <2>2. /\ fsm' \in ConversationState /\ rpc' \in TaskPoint
          /\ owner' \in 0 .. MaxTurns /\ ledger' \in [Chunks -> LedgerState]
      BY <2>1, LeaveTypes DEF TypeOK
    <2> QED BY <1>2, <2>1, <2>2 DEF CancelResponse, sessionVars, TypeOK
  <1> QED BY <1>1, <1>2

LEMMA HangUpTypes ==
    ASSUME TypeOK, HangUp
    PROVE  TypeOK'
  <1>1. "control" \in Actors /\ "closer" \in Actors
    BY DEF Actors
  <1>2. /\ hpc' \in [Actors -> ActorPoint]
        /\ hwait' \in [Actors -> 0 .. MaxTurns]
        /\ hnext' \in [Actors -> BOOLEAN]
    BY <1>1, BoundsAssumption DEF HangUp, TypeOK, ActorPoint
  <1>3. CASE CancelResponse
    BY <1>2, <1>3, CancelResponseTypes DEF HangUp, TypeOK, sessionVars
  <1>4. CASE UNCHANGED <<sessionVars, taskVars, audioVars, killed, mute>>
    BY <1>2, <1>4 DEF HangUp, TypeOK, sessionVars, taskVars, audioVars
  <1> QED BY <1>3, <1>4 DEF HangUp

LEMMA CloseTypes ==
    ASSUME TypeOK, Close
    PROVE  TypeOK'
  <1> USE DEF TypeOK
  <1>1. "closer" \in Actors /\ "input" \in Actors
    BY DEF Actors
  <1>2. \/ CloseBegins /\ Interrupt("closer", FALSE)
        \/ CloseBegins /\ Waits("closer", "awaitAcoustic", 0, FALSE)
        \/ CloseWaits /\ Waits("closer", "awaitEnd", resp, FALSE)
        \/ CloseWaits /\ Waits("closer", "awaitAcoustic", 0, FALSE)
        \/ CloseGate /\ Waits("closer", "awaitInput", 0, FALSE)
        \/ CloseEnds
    BY DEF Close, CloseBegins, CloseWaits, CloseGate
  <1>3. CASE CloseBegins /\ Interrupt("closer", FALSE)
    BY <1>1, <1>3, InterruptTypes DEF CloseBegins
  <1>4. ASSUME NEW point \in {"awaitAcoustic", "awaitEnd", "awaitInput"},
               NEW r \in {0, resp}, Waits("closer", point, r, FALSE)
        PROVE  /\ hpc' \in [Actors -> ActorPoint]
               /\ hwait' \in [Actors -> 0 .. MaxTurns]
               /\ hnext' \in [Actors -> BOOLEAN]
    <2>1. r \in 0 .. MaxTurns /\ FALSE \in BOOLEAN /\ point \in ActorPoint
      BY BoundsAssumption DEF ActorPoint
    <2> QED BY <1>1, <1>4, <2>1, WaitsTypes
  <1>5. CASE CloseBegins /\ Waits("closer", "awaitAcoustic", 0, FALSE)
    <2>1. CASE Active
      BY <1>1, <1>5, <2>1, InterruptTypes DEF CloseBegins
    <2>2. CASE ~Active
      BY <1>4, <1>5, <2>2 DEF CloseBegins, sessionVars, taskVars, audioVars, endVars
    <2> QED BY <2>1, <2>2
  <1>6. CASE CloseWaits /\ \/ Waits("closer", "awaitEnd", resp, FALSE)
                           \/ Waits("closer", "awaitAcoustic", 0, FALSE)
    BY <1>4, <1>6 DEF CloseWaits, sessionVars, taskVars, audioVars, endVars
  <1>7. CASE CloseGate /\ Waits("closer", "awaitInput", 0, FALSE)
    BY <1>4, <1>7 DEF CloseGate, sessionVars, taskVars, audioVars, endVars
  <1>8. CASE CloseEnds
    BY <1>1, <1>8 DEF CloseEnds, taskVars, audioVars, endVars, ConversationState, ActorPoint
  <1> QED BY <1>2, <1>3, <1>5, <1>6, <1>7, <1>8

LEMMA InitTypes == Init => TypeOK
  <1>1. Init => NotLost \in (ConversationState \union {"none"}) \X BOOLEAN
    BY DEF NotLost
  <1>2. Init => hnext \in [Actors -> BOOLEAN] /\ hwait \in [Actors -> 0 .. MaxTurns]
    BY BoundsAssumption DEF Init
  <1>3. Init => /\ cancel \in BOOLEAN /\ invalid \in BOOLEAN /\ segAudio \in BOOLEAN
                /\ episode \in BOOLEAN /\ mute \in BOOLEAN /\ closed \in BOOLEAN
    BY DEF Init
  <1>4. Init => hpc \in [Actors -> ActorPoint]
    BY DEF Init, ActorPoint
  <1>5. Init => play \in [Chunks -> PlayState] /\ ledger \in [Chunks -> LedgerState]
    BY DEF Init, PlayState, LedgerState
  <1> QED BY <1>1, <1>2, <1>3, <1>4, <1>5, BoundsAssumption
          DEF Init, TypeOK, ConversationState, TaskPoint

LEMMA NextTypes ==
    ASSUME TypeOK, [Next]_vars
    PROVE  TypeOK'
  <1>1. CASE PressInterrupt
    BY <1>1, InterruptTypes DEF PressInterrupt, Actors
  <1>2. CASE SpeechOnset
    BY <1>2 DEF SpeechOnset, TypeOK, sessionVars, taskVars, audioVars, actorVars, endVars
  <1>3. CASE SustainedTakeover
    BY <1>3, InterruptTypes DEF SustainedTakeover, Actors
  <1>4. CASE UNCHANGED vars
    BY <1>4 DEF vars, TypeOK, sessionVars, taskVars, audioVars, actorVars, endVars
  <1> QED BY <1>1, <1>2, <1>3, <1>4, RunResponseTypes, PlaybackTypes, HearTypes, WakeTypes,
             HangUpTypes, CloseTypes DEF Next

\* Whatever the interleaving of its tasks, the variables of a session keep their
\* types: no turn, chunk or actor is ever lost track of.
THEOREM TypeCorrect == Spec => []TypeOK
  BY InitTypes, NextTypes, PTL DEF Spec

-----------------------------------------------------------------------------
(* The steps of the response task. *)

LEMMA MidKeeps ==
    ASSUME TypeOK, Inv, Active, rpc # "tool",
           rpc' \in {"reason", "tts", "capacity", "drain"},
           UNCHANGED <<sessionVars, audioVars, RestVars>>
    PROVE  Inv'
  <1> USE DEF TypeOK, Inv, Active, sessionVars, audioVars, RestVars, endVars
  <1>1. TokensIssued' /\ CancelAgreesWithEpoch' /\ OwnerIsActive'
    BY DEF TokensIssued, CancelAgreesWithEpoch, OwnerIsActive
  <1>2. AudioLinked' /\ HandoffOnlyUnconfirmed'
    BY DEF AudioLinked, HandoffOnlyUnconfirmed, Chunks
  <1>3. StateLedOut' /\ QuietAfterBody'
    BY DEF StateLedOut, QuietAfterBody
  <1> QED BY <1>1, <1>2, <1>3

\* The body of the task is left in a state `finally` can lead out of, with a
\* ledger that holds nothing queued or playing.
LEMMA LeaveKeeps ==
    ASSUME TypeOK, Inv, Active,
           NEW state \in ConversationState, NEW L \in [Chunks -> LedgerState],
           Leave(state, cancel', L),
           L = ledger \/ L = CancelUnplayed(MarkUnconfirmed(ledger)),
           UNCHANGED <<resp, token, play, killed>>,
           token <= epoch',
           FirstAudio \/ (cancel' <=> token # epoch'),
           state # "RECOVERING",
           killed = 0 => state # "TOOL_WAIT" /\ (state = "INTERRUPTED" => cancel'),
           state = "HANDOFF" => \E c \in Chunks : L[c] = "PLAYBACK_UNCONFIRMED",
           killed = 0 => \A c \in Chunks : L[c] \notin {"QUEUED", "PLAYING"}
    PROVE  Inv'
  <1> USE DEF TypeOK, Inv
  <1>1. \A c \in Chunks : /\ play[c] = "none" => L[c] = "none"
                          /\ play[c] = "ended" => L[c] \in {"PLAYED", "CANCELLED"}
    BY DEF AudioLinked, CancelUnplayed, MarkUnconfirmed
  <1>2. resp # 0
    BY DEF TokensIssued, Active
  <1>3. CASE FirstAudio
    <2>1. Finish(state, cancel', L)
      BY <1>3 DEF Leave
    <2>2. ledger' = L
      BY <1>1, <1>3, <2>1 DEF Finish, CancelUnplayed, FirstAudio
    <2>3. rpc' = "done" /\ ~Active'
      BY <2>1 DEF Finish, Active
    <2>4. TokensIssued' /\ CancelAgreesWithEpoch'
      BY <1>2, <2>3 DEF TokensIssued, CancelAgreesWithEpoch
    <2>5. AudioLinked' /\ QuietAfterBody'
      BY <1>1, <1>3, <2>2, <2>3 DEF AudioLinked, QuietAfterBody, FirstAudio
    <2>6. StateLedOut'
      BY <2>1, <2>3 DEF StateLedOut, Finish, Winding
    <2>7. OwnerIsActive'
      BY <1>2, <2>1 DEF OwnerIsActive, Finish, ReleasedOwner
    <2>8. HandoffOnlyUnconfirmed'
      BY <2>1, <2>2 DEF HandoffOnlyUnconfirmed, Finish
    <2> QED BY <2>4, <2>5, <2>6, <2>7, <2>8
  <1>4. CASE ~FirstAudio
    <2>1. rpc' = "finally" /\ fsm' = state /\ ledger' = L /\ owner' = owner /\ Active'
      BY <1>4 DEF Leave, Active
    <2>2. TokensIssued' /\ CancelAgreesWithEpoch'
      BY <1>2, <1>4, <2>1 DEF TokensIssued, CancelAgreesWithEpoch
    <2>3. AudioLinked' /\ QuietAfterBody'
      BY <1>1, <2>1 DEF AudioLinked, QuietAfterBody
    <2>4. StateLedOut' /\ OwnerIsActive' /\ HandoffOnlyUnconfirmed'
      BY <2>1 DEF StateLedOut, OwnerIsActive, HandoffOnlyUnconfirmed
    <2> QED BY <2>2, <2>3, <2>4
  <1> QED BY <1>3, <1>4

LEMMA FailKeeps ==
    ASSUME TypeOK, Inv, Active, Fail, UNCHANGED RestVars,
           killed = 0 => fsm # "TOOL_WAIT"
    PROVE  Inv'
  <1> DEFINE L == CancelUnplayed(MarkUnconfirmed(ledger))
             unconfirmed == \E c \in Chunks : ledger[c] = "PLAYING"
             recovered == IF fsm \notin {"THINKING", "SPEAKING"} THEN fsm
                          ELSE IF unconfirmed THEN "HANDOFF" ELSE "LISTENING"
  <1>1. L \in [Chunks -> LedgerState]
    BY WholeLedgerTypes DEF TypeOK
  <1>2. recovered \in ConversationState
    BY DEF TypeOK, ConversationState
  <1>3. /\ cancel' /\ epoch' = epoch + 1 /\ Leave(recovered, cancel', L)
        /\ UNCHANGED <<resp, token, play, killed>>
    BY DEF Fail, InvalidateOperations, RestVars, endVars
  <1>4. token <= epoch' /\ token # epoch'
    BY <1>3 DEF TypeOK, Inv, TokensIssued
  <1>5. recovered # "RECOVERING" /\ (killed = 0 => recovered # "TOOL_WAIT")
    BY DEF Inv, StateLedOut
  <1>6. \A c \in Chunks : L[c] \notin {"QUEUED", "PLAYING"}
    BY DEF TypeOK, CancelUnplayed, MarkUnconfirmed
  <1>7. recovered = "HANDOFF" => \E c \in Chunks : L[c] = "PLAYBACK_UNCONFIRMED"
    BY DEF Inv, HandoffOnlyUnconfirmed, CancelUnplayed, MarkUnconfirmed
  <1> HIDE DEF L, recovered
  <1>8. L = CancelUnplayed(MarkUnconfirmed(ledger))
    BY DEF L
  <1> QED BY <1>1, <1>2, <1>3, <1>4, <1>5, <1>6, <1>7, <1>8, LeaveKeeps

LEMMA CompleteKeeps ==
    ASSUME TypeOK, Inv, Active, Complete, UNCHANGED RestVars, rpc # "tool",
           AllSettled /\ ~Failed
    PROVE  Inv'
  <1> DEFINE state == IF ~cancel /\ fsm = "SPEAKING" THEN "LISTENING" ELSE fsm
  <1>1. state \in ConversationState
    BY DEF TypeOK, ConversationState
  <1>2. /\ Leave(state, cancel, ledger) /\ cancel' = cancel /\ epoch' = epoch
        /\ UNCHANGED <<resp, token, play, killed>>
    BY DEF Complete, RestVars, endVars
  <1>3. \A c \in Chunks : ledger[c] \notin {"QUEUED", "PLAYING"}
    <2> SUFFICES ASSUME NEW c \in Chunks PROVE ledger[c] \notin {"QUEUED", "PLAYING"}
      OBVIOUS
    <2>1. play[c] \in {"none", "ended"}
      BY DEF AllSettled, Failed, Pending, TypeOK, PlayState
    <2> QED BY <2>1 DEF Inv, AudioLinked
  <1>4. /\ state = "HANDOFF" => \E c \in Chunks : ledger[c] = "PLAYBACK_UNCONFIRMED"
        /\ state # "RECOVERING"
        /\ killed = 0 => state # "TOOL_WAIT" /\ (state = "INTERRUPTED" => cancel)
    BY DEF Inv, HandoffOnlyUnconfirmed, StateLedOut
  <1>5. token <= epoch' /\ (cancel' <=> token # epoch')
    BY <1>2 DEF Inv, TokensIssued, CancelAgreesWithEpoch
  <1> HIDE DEF state
  <1>6. Leave(state, cancel', ledger)
    BY <1>2
  <1>7. ledger \in [Chunks -> LedgerState]
    BY DEF TypeOK
  <1> QED BY <1>1, <1>2, <1>3, <1>4, <1>5, <1>6, <1>7, LeaveKeeps

LEMMA DrainKeeps ==
    ASSUME TypeOK, Inv, Active, Drain, UNCHANGED RestVars, rpc # "tool"
    PROVE  Inv'
  <1>1. CASE FirstAudio
    <2>1. AllSettled /\ ~Failed
      BY <1>1 DEF FirstAudio, AllSettled, Failed, Pending
    <2> QED BY <1>1, <2>1, CompleteKeeps DEF Drain
  <1>2. CASE ~FirstAudio
    BY <1>2, MidKeeps DEF Drain, audioVars
  <1> QED BY <1>1, <1>2

LEMMA TakeChunkKeeps ==
    ASSUME TypeOK, Inv, rpc \in {"tts", "capacity"}, NEW c \in Chunks,
           TakeChunk(c), play[c] = "none", UNCHANGED RestVars
    PROVE  Inv'
  <1>1. Active /\ rpc # "tool"
    BY DEF Active
  <1>2. CASE Refused
    BY <1>1, <1>2, MidKeeps DEF TakeChunk, GoOn
  <1>3. CASE ~Refused
    <2> USE <1>3 DEF TypeOK, Inv, TakeChunk, Refused
    <2>1. resp # 0 /\ Active' /\ rpc' = "tts" /\ killed' = killed
      BY <1>1 DEF TokensIssued, Active, RestVars, endVars
    <2>2. TokensIssued' /\ CancelAgreesWithEpoch' /\ OwnerIsActive' /\ QuietAfterBody'
      BY <1>1, <2>1 DEF TokensIssued, CancelAgreesWithEpoch, OwnerIsActive, QuietAfterBody
    <2>3. AudioLinked'
      BY <2>1 DEF AudioLinked
    <2>4. StateLedOut'
      BY <1>1, <2>1 DEF StateLedOut
    <2>5. HandoffOnlyUnconfirmed'
      <3>1. ledger[c] = "none"
        BY DEF AudioLinked
      <3> QED BY <3>1 DEF HandoffOnlyUnconfirmed
    <2> QED BY <2>2, <2>3, <2>4, <2>5
  <1> QED BY <1>2, <1>3

LEMMA ToolKeeps ==
    ASSUME TypeOK, Inv, PlanNoTool \/ CallTool \/ ToolReturns \/ ToolFails
    PROVE  Inv'
  <1>1. /\ rpc \in {"start", "tool"} /\ Active /\ FirstAudio /\ resp # 0
        /\ UNCHANGED RestVars /\ killed' = killed
    BY DEF PlanNoTool, CallTool, ToolReturns, ToolFails, Active, Inv, AudioLinked, RestVars,
           endVars, TokensIssued
  <1>2. rpc = "start" \/ fsm # "TOOL_WAIT" => (killed = 0 => fsm # "TOOL_WAIT")
    BY DEF Inv, StateLedOut
  <1>3. CASE Fail /\ (rpc = "start" \/ fsm # "TOOL_WAIT")
    BY <1>1, <1>2, <1>3, FailKeeps
  <1>4. CASE rpc = "start" /\ GoOn("reason")
    BY <1>1, <1>4, MidKeeps DEF GoOn
  <1>5. ASSUME rpc' \in {"tool", "reason"}, fsm' = "TOOL_WAIT" => rpc' = "tool",
               fsm' \in {"TOOL_WAIT", "THINKING"}, token = epoch \/ UNCHANGED cancel,
               UNCHANGED <<epoch, resp, token, cancel, invalid, owner, audioVars>>
        PROVE  Inv'
    <2> USE <1>1, <1>5 DEF TypeOK, Inv, Active, audioVars
    <2>1. TokensIssued' /\ CancelAgreesWithEpoch' /\ OwnerIsActive'
      BY DEF TokensIssued, CancelAgreesWithEpoch, OwnerIsActive
    <2>2. AudioLinked'
      BY DEF AudioLinked, FirstAudio
    <2>3. StateLedOut' /\ QuietAfterBody' /\ HandoffOnlyUnconfirmed'
      BY DEF StateLedOut, QuietAfterBody, HandoffOnlyUnconfirmed
    <2> QED BY <2>1, <2>2, <2>3
  <1>6. CASE rpc = "start" /\ Leave(fsm, cancel, ledger)
             /\ UNCHANGED <<epoch, resp, token, cancel, play>>
    <2>1. \A c \in Chunks : ledger[c] = "none"
      BY <1>1 DEF Inv, AudioLinked, FirstAudio
    <2>2. killed = 0 => fsm # "TOOL_WAIT" /\ (fsm = "INTERRUPTED" => cancel)
      BY <1>6 DEF Inv, StateLedOut
    <2>3. token <= epoch' /\ fsm # "RECOVERING"
          /\ (fsm = "HANDOFF" => \E c \in Chunks : ledger[c] = "PLAYBACK_UNCONFIRMED")
      BY <1>6 DEF Inv, TokensIssued, StateLedOut, HandoffOnlyUnconfirmed
    <2>4. fsm \in ConversationState /\ ledger \in [Chunks -> LedgerState]
          /\ Leave(fsm, cancel', ledger)
      BY <1>6 DEF TypeOK
    <2> QED BY <1>1, <1>6, <2>1, <2>2, <2>3, <2>4, LeaveKeeps
  <1>7. CASE /\ rpc = "tool" /\ InvalidateOperations /\ Leave("THINKING", cancel, ledger)
             /\ UNCHANGED <<resp, token, cancel, play>>
    <2>1. \A c \in Chunks : ledger[c] = "none"
      BY <1>1 DEF Inv, AudioLinked, FirstAudio
    <2>2. token <= epoch'
      BY <1>7 DEF Inv, TokensIssued, InvalidateOperations, TypeOK
    <2>3. "THINKING" \in ConversationState /\ ledger \in [Chunks -> LedgerState]
          /\ Leave("THINKING", cancel', ledger)
      BY <1>7 DEF TypeOK, ConversationState
    <2> QED BY <1>1, <1>7, <2>1, <2>2, <2>3, LeaveKeeps
  <1>8. CASE PlanNoTool
    BY <1>4, <1>6, <1>8 DEF PlanNoTool
  <1>9. CASE CallTool
    BY <1>3, <1>5, <1>9 DEF CallTool
  <1>10. CASE ToolReturns
    BY <1>3, <1>5, <1>10 DEF ToolReturns
  <1>11. CASE ToolFails
    BY <1>3, <1>7, <1>11 DEF ToolFails
  <1> QED BY <1>8, <1>9, <1>10, <1>11

LEMMA FinallyKeeps ==
    ASSUME TypeOK, Inv, Finally
    PROVE  Inv'
  <1> USE DEF TypeOK, Inv, Finally, Finish
  <1>1. /\ rpc = "finally" /\ rpc' = "done" /\ Active /\ ~Active' /\ resp # 0
        /\ UNCHANGED <<epoch, resp, token, cancel, play, killed>>
    BY DEF Active, RestVars, endVars, TokensIssued
  <1>2. TokensIssued' /\ CancelAgreesWithEpoch'
    BY <1>1 DEF TokensIssued, CancelAgreesWithEpoch
  <1>3. AudioLinked' /\ QuietAfterBody'
    BY <1>1 DEF AudioLinked, QuietAfterBody, CancelUnplayed
  <1>4. StateLedOut'
    BY <1>1 DEF StateLedOut, Winding
  <1>5. OwnerIsActive'
    BY <1>1 DEF OwnerIsActive, ReleasedOwner
  <1>6. HandoffOnlyUnconfirmed'
    BY <1>1 DEF HandoffOnlyUnconfirmed, CancelUnplayed
  <1> QED BY <1>2, <1>3, <1>4, <1>5, <1>6

LEMMA RunResponseKeeps ==
    ASSUME TypeOK, Inv, RunResponse
    PROVE  Inv'
  <1> USE DEF TaskPoint
  <1>1. rpc \in {"reason", "tts", "capacity", "drain"} =>
            Active /\ rpc # "tool" /\ (killed = 0 => fsm # "TOOL_WAIT")
    BY DEF Active, Inv, StateLedOut
  <1>2. ASSUME NEW point \in {"reason", "tts", "capacity"}, Active, rpc # "tool",
               GoOn(point), UNCHANGED RestVars
        PROVE  Inv'
    BY <1>2, MidKeeps DEF GoOn
  <1>3. ASSUME NEW n \in {0, 1}, Active, rpc # "tool", OpenStream(n), UNCHANGED RestVars
        PROVE  Inv'
    BY <1>3, MidKeeps DEF OpenStream
  <1>4. CASE ReasonerYields \/ ReasonerEnds \/ ReasonerFails
    BY <1>1, <1>3, <1>4, FailKeeps, DrainKeeps DEF ReasonerYields, ReasonerEnds, ReasonerFails
  <1>5. ASSUME NEW c \in Chunks, SynthesizerYields(c)
        PROVE  Inv'
    BY <1>1, <1>2, <1>5, FailKeeps, DrainKeeps, TakeChunkKeeps DEF SynthesizerYields, NextChunk
  <1>6. ASSUME NEW c \in Chunks, CapacityFreed(c)
        PROVE  Inv'
    BY <1>1, <1>6, FailKeeps, TakeChunkKeeps DEF CapacityFreed, NextChunk
  <1>7. CASE StreamEnds
    BY <1>1, <1>2, <1>3, <1>7, FailKeeps, DrainKeeps DEF StreamEnds
  <1>8. CASE StreamFails
    BY <1>1, <1>3, <1>8, FailKeeps DEF StreamFails
  <1>9. CASE Gathered
    BY <1>1, <1>9, FailKeeps, CompleteKeeps DEF Gathered
  <1> QED BY <1>4, <1>5, <1>6, <1>7, <1>8, <1>9, ToolKeeps, FinallyKeeps DEF RunResponse
-----------------------------------------------------------------------------
(* The other steps. *)

\* A playback task touches its own entry, and others only to cancel what is
\* still queued.
LEMMA ReceiptKeeps ==
    ASSUME TypeOK, NEW c \in Chunks, NEW L \in [Chunks -> LedgerState],
           NEW heard \in {"all", "part", "nothing"}, TakeReceipt(c, L, heard)
    PROVE  /\ \A d \in Chunks \ {c} : /\ play'[d] = play[d]
                                      /\ ledger'[d] \in {L[d]} \union
                                           (IF L[d] = "QUEUED" THEN {"CANCELLED"} ELSE {})
           /\ \/ play'[c] = "ended" /\ ledger'[c] \in {"PLAYED", "CANCELLED"}
              \/ play'[c] = "failed" /\ ledger'[c] = L[c]
           /\ L[c] \in {"PLAYED", "CANCELLED", "PLAYBACK_UNCONFIRMED"} => ledger'[c] = L[c]
  BY DEF TakeReceipt, ReceiptFits, RecordPlayback, CancelUnplayed, TypeOK, PlayState, LedgerState

\* What the steps of a playback task do to the ledger, entry by entry.
LEMMA PlaybackStep ==
    ASSUME TypeOK, AudioLinked, NEW c \in Chunks, Playback(c)
    PROVE  /\ play[c] # "none" /\ play'[c] # "none"
           /\ \A d \in Chunks \ {c} : /\ play'[d] = play[d]
                                      /\ ledger'[d] \in {ledger[d]} \union
                                           (IF ledger[d] = "QUEUED" THEN {"CANCELLED"} ELSE {})
           /\ play'[c] = "ended" => ledger'[c] \in {"PLAYED", "CANCELLED"}
           /\ ledger[c] \notin {"QUEUED", "PLAYING"} => ledger'[c] = ledger[c]
           /\ UNCHANGED BesidesAudio
  <1> USE DEF TypeOK, PlayState, LedgerState
  <1>1. CASE PlayBegins(c)
    <2>1. CASE invalid
      <3>1. MarkStarted(ledger, c) \in [Chunks -> LedgerState]
        BY LedgerTypes
      <3>2. /\ \A d \in Chunks \ {c} : MarkStarted(ledger, c)[d] = ledger[d]
            /\ ledger[c] # "QUEUED" => MarkStarted(ledger, c)[c] = ledger[c]
        BY DEF MarkStarted
      <3>3. TakeReceipt(c, MarkStarted(ledger, c), "nothing") /\ play[c] = "created"
        BY <1>1, <2>1 DEF PlayBegins
      <3> HIDE DEF TypeOK
      <3>4. /\ \A d \in Chunks \ {c} :
                  /\ play'[d] = play[d]
                  /\ ledger'[d] \in {MarkStarted(ledger, c)[d]} \union
                       (IF MarkStarted(ledger, c)[d] = "QUEUED" THEN {"CANCELLED"} ELSE {})
            /\ \/ play'[c] = "ended" /\ ledger'[c] \in {"PLAYED", "CANCELLED"}
               \/ play'[c] = "failed" /\ ledger'[c] = MarkStarted(ledger, c)[c]
            /\ MarkStarted(ledger, c)[c] \in {"PLAYED", "CANCELLED", "PLAYBACK_UNCONFIRMED"} =>
                  ledger'[c] = MarkStarted(ledger, c)[c]
        BY <3>1, <3>3, ReceiptKeeps
      <3>5. ledger[c] \in LedgerState
        BY DEF TypeOK
      <3>6. ledger[c] = "none" => play'[c] = "failed"
        BY <3>3, <3>2 DEF TakeReceipt, ReceiptFits, TypeOK
      <3> QED BY <1>1, <2>1, <3>2, <3>3, <3>4, <3>5, <3>6 DEF PlayBegins
    <2>2. CASE ~invalid
      BY <1>1, <2>2 DEF PlayBegins
    <2> QED BY <2>1, <2>2
  <1>2. CASE PlayStarts(c)
    BY <1>2 DEF PlayStarts, MarkStarted
  <1>3. CASE PlayTimesOut(c)
    BY <1>3 DEF PlayTimesOut
  <1>4. ASSUME NEW heard \in {"all", "part", "nothing"}, PlayStops(c, heard)
        PROVE  /\ play[c] # "none" /\ play'[c] # "none"
               /\ \A d \in Chunks \ {c} :
                     /\ play'[d] = play[d]
                     /\ ledger'[d] \in {ledger[d]} \union
                          (IF ledger[d] = "QUEUED" THEN {"CANCELLED"} ELSE {})
               /\ play'[c] = "ended" => ledger'[c] \in {"PLAYED", "CANCELLED"}
               /\ ledger[c] \notin {"QUEUED", "PLAYING"} => ledger'[c] = ledger[c]
               /\ UNCHANGED BesidesAudio
    BY <1>4, ReceiptKeeps DEF PlayStops, TakeReceipt, ReceiptFits, RecordPlayback, CancelUnplayed
  <1> QED BY <1>1, <1>2, <1>3, <1>4 DEF Playback

LEMMA PlaybackKeeps ==
    ASSUME TypeOK, Inv, NEW c \in Chunks, Playback(c)
    PROVE  Inv'
  <1> USE DEF Inv
  <1>1. /\ play[c] # "none" /\ play'[c] # "none"
        /\ \A d \in Chunks \ {c} : /\ play'[d] = play[d]
                                   /\ ledger'[d] \in {ledger[d]} \union
                                        (IF ledger[d] = "QUEUED" THEN {"CANCELLED"} ELSE {})
        /\ play'[c] = "ended" => ledger'[c] \in {"PLAYED", "CANCELLED"}
        /\ ledger[c] \notin {"QUEUED", "PLAYING"} => ledger'[c] = ledger[c]
        /\ UNCHANGED BesidesAudio
    BY PlaybackStep
  <1>2. UNCHANGED <<fsm, epoch, resp, token, cancel, invalid, owner, rpc, killed>>
    BY <1>1 DEF BesidesAudio, sessionVars, taskVars, RestVars, endVars
  <1>3. /\ TokensIssued' /\ CancelAgreesWithEpoch' /\ OwnerIsActive' /\ StateLedOut'
    BY <1>2 DEF TokensIssued, CancelAgreesWithEpoch, OwnerIsActive, StateLedOut, Active
  <1>4. AudioLinked'
    BY <1>1, <1>2 DEF AudioLinked, FirstAudio
  <1>5. QuietAfterBody'
    BY <1>1, <1>2 DEF QuietAfterBody
  <1>6. HandoffOnlyUnconfirmed'
    BY <1>1, <1>2 DEF HandoffOnlyUnconfirmed
  <1> QED BY <1>3, <1>4, <1>5, <1>6

LEMMA InterruptKeeps ==
    ASSUME TypeOK, Inv, NEW a \in Actors, NEW turn \in BOOLEAN, Interrupt(a, turn),
           killed' = killed
    PROVE  Inv'
  <1> USE DEF Inv, Interrupt
  <1>1. UNCHANGED <<resp, token, owner, rpc, play, ledger>> /\ Active /\ Active' /\ cancel'
    BY DEF sessionVars, taskVars, audioVars, Active
  <1>2. /\ epoch' = IF cancel THEN epoch ELSE epoch + 1
        /\ fsm' = IF cancel THEN fsm ELSE StateOnInterrupt
    BY DEF sessionVars, InvalidateOperations
  <1>3. TokensIssued' /\ CancelAgreesWithEpoch'
    BY <1>1, <1>2 DEF TokensIssued, CancelAgreesWithEpoch, TypeOK
  <1>4. AudioLinked' /\ QuietAfterBody' /\ OwnerIsActive'
    BY <1>1 DEF AudioLinked, QuietAfterBody, OwnerIsActive, FirstAudio
  <1>5. StateLedOut' /\ HandoffOnlyUnconfirmed'
    BY <1>1, <1>2 DEF StateLedOut, HandoffOnlyUnconfirmed, StateOnInterrupt
  <1> QED BY <1>3, <1>4, <1>5

LEMMA TakeTurnKeeps ==
    ASSUME TypeOK, Inv, NEW followup, TakeTurn(followup), killed' = killed
    PROVE  Inv'
  <1>1. CASE ~Active /\ fsm = "LISTENING"
    <2> USE <1>1 DEF TypeOK, Inv, TakeTurn, Begin
    <2>1. TokensIssued' /\ CancelAgreesWithEpoch'
      BY DEF TokensIssued, CancelAgreesWithEpoch
    <2>2. OwnerIsActive'
      BY DEF OwnerIsActive
    <2>3. AudioLinked' /\ QuietAfterBody'
      BY DEF AudioLinked, QuietAfterBody, FirstAudio
    <2>4. StateLedOut' /\ HandoffOnlyUnconfirmed'
      BY DEF StateLedOut, HandoffOnlyUnconfirmed, Active
    <2> QED BY <2>1, <2>2, <2>3, <2>4
  <1>2. CASE ~(~Active /\ fsm = "LISTENING")
    <2> USE <1>2 DEF Inv
    <2>1. UNCHANGED <<sessionVars, taskVars, audioVars, killed>>
      BY DEF TakeTurn
    <2> QED BY <2>1
            DEF sessionVars, taskVars, audioVars, TokensIssued, CancelAgreesWithEpoch,
                OwnerIsActive, AudioLinked, QuietAfterBody, StateLedOut,
                HandoffOnlyUnconfirmed, Active, FirstAudio
  <1> QED BY <1>1, <1>2

\* A step that leaves the session, its task and its audio alone.
LEMMA BystanderKeeps ==
    ASSUME Inv, UNCHANGED <<sessionVars, taskVars, audioVars, killed>>
    PROVE  Inv'
  BY DEF Inv, sessionVars, taskVars, audioVars, TokensIssued, CancelAgreesWithEpoch,
         OwnerIsActive, AudioLinked, QuietAfterBody, StateLedOut, HandoffOnlyUnconfirmed,
         Active, FirstAudio

\* Background speech moves the machine only along an edge of its graph.
LEMMA BackgroundKeeps ==
    ASSUME TypeOK, Inv, NEW acoustic \in BOOLEAN, HearBackground(acoustic)
    PROVE  Inv'
  <1>1. UNCHANGED <<epoch, resp, token, cancel, invalid, owner, taskVars, audioVars, killed>>
    BY DEF HearBackground, endVars
  <1>2. CASE fsm' = fsm
    BY <1>1, <1>2, BystanderKeeps DEF sessionVars
  <1>3. CASE fsm' = "SPEAKING"
    BY <1>1, <1>3
       DEF Inv, taskVars, audioVars, TokensIssued, CancelAgreesWithEpoch, OwnerIsActive,
           AudioLinked, QuietAfterBody, StateLedOut, HandoffOnlyUnconfirmed, Active, FirstAudio
  <1> QED BY <1>2, <1>3 DEF HearBackground

LEMMA ResumeKeeps ==
    ASSUME TypeOK, Inv, NEW h, NEW r, NEW followup, Resume(h, r, followup), killed' = killed
    PROVE  Inv'
  BY BystanderKeeps, TakeTurnKeeps DEF Resume

LEMMA HearKeeps ==
    ASSUME TypeOK, Inv, Hear
    PROVE  Inv'
  <1>1. Handlers \subseteq Actors
    BY HandlersAssumption DEF Actors
  <1>2. ASSUME NEW h \in Handlers, HearTurn(h)
        PROVE  Inv'
    <2>1. killed' = killed
      BY <1>2 DEF HearTurn, endVars
    <2> QED BY <1>1, <1>2, <2>1, InterruptKeeps, TakeTurnKeeps DEF HearTurn
  <1>3. ASSUME NEW h \in Handlers, NEW acoustic \in BOOLEAN, NEW turn \in BOOLEAN,
               HearInterruption(h, acoustic, turn)
        PROVE  Inv'
    <2>1. killed' = killed
      BY <1>3 DEF HearInterruption, endVars
    <2> QED BY <1>1, <1>3, <2>1, InterruptKeeps, ResumeKeeps DEF HearInterruption
  <1> QED BY <1>2, <1>3, BackgroundKeeps DEF Hear

LEMMA WakeKeeps ==
    ASSUME TypeOK, Inv, NEW a \in Actors, Wake(a)
    PROVE  Inv'
  <1>1. killed' = killed
    BY DEF Wake, WakeAfterStop, WakeAfterEnd, endVars
  <1> QED BY <1>1, BystanderKeeps, ResumeKeeps DEF Wake, WakeAfterStop, WakeAfterEnd

\* The hang-up is the one step that may strand the session: it sets killed.
LEMMA HangUpKeeps ==
    ASSUME TypeOK, Inv, HangUp
    PROVE  Inv'
  <1>1. CASE CancelResponse /\ Active
    <2> USE <1>1 DEF CancelResponse, TypeOK, Inv
    <2>1. /\ resp # 0 /\ killed' # 0 /\ UNCHANGED <<epoch, resp, token, cancel>>
          /\ rpc' \in {"done", "finally"}
      BY DEF TokensIssued, Active, Leave, Finish
    <2>2. /\ fsm' \in {fsm, "LISTENING"} /\ \A c \in Chunks : ledger'[c] \in {ledger[c]} \union
               (IF ledger[c] = "QUEUED" THEN {"CANCELLED"} ELSE {})
      BY DEF Leave, Finish, audioVars, Winding, CancelUnplayed, CancelPlayback
    <2>3. \A c \in Chunks : play'[c] = play[c] \/ (play[c] # "none" /\ play'[c] = "failed")
      BY DEF audioVars, CancelPlayback, Pending
    <2>4. TokensIssued' /\ CancelAgreesWithEpoch' /\ OwnerIsActive' /\ QuietAfterBody'
      BY <2>1 DEF TokensIssued, CancelAgreesWithEpoch, OwnerIsActive, QuietAfterBody, Active
    <2>5. AudioLinked'
      BY <2>1, <2>2, <2>3 DEF AudioLinked
    <2>6. StateLedOut' /\ HandoffOnlyUnconfirmed'
      BY <2>1, <2>2 DEF StateLedOut, HandoffOnlyUnconfirmed
    <2> QED BY <2>4, <2>5, <2>6
  <1>2. CASE UNCHANGED <<sessionVars, taskVars, audioVars, killed, mute>>
    BY <1>2, BystanderKeeps
  <1> QED BY <1>1, <1>2 DEF HangUp, Ended

LEMMA CloseKeeps ==
    ASSUME TypeOK, Inv, Close
    PROVE  Inv'
  <1>1. killed' = killed
    BY DEF Close, CloseBegins, CloseWaits, CloseGate, CloseEnds, endVars
  <1>2. CASE CloseBegins
    BY <1>1, <1>2, BystanderKeeps, InterruptKeeps DEF CloseBegins, Actors
  <1>3. CASE CloseWaits \/ CloseGate
    BY <1>1, <1>3, BystanderKeeps DEF CloseWaits, CloseGate
  <1>4. CASE CloseEnds
    BY <1>1, <1>4
       DEF CloseEnds, Inv, taskVars, audioVars, TokensIssued, CancelAgreesWithEpoch,
           OwnerIsActive, AudioLinked, QuietAfterBody, StateLedOut, HandoffOnlyUnconfirmed,
           Active, FirstAudio
  <1> QED BY <1>2, <1>3, <1>4 DEF Close

LEMMA InitKeeps == Init => Inv
  BY DEF Init, Inv, TokensIssued, CancelAgreesWithEpoch, OwnerIsActive, AudioLinked,
         QuietAfterBody, StateLedOut, HandoffOnlyUnconfirmed, Active, FirstAudio

LEMMA NextKeeps ==
    ASSUME TypeOK, Inv, [Next]_vars
    PROVE  Inv'
  <1>1. CASE PressInterrupt
    BY <1>1, InterruptKeeps DEF PressInterrupt, endVars, Actors
  <1>2. CASE SpeechOnset
    BY <1>2, BystanderKeeps DEF SpeechOnset, endVars
  <1>3. CASE SustainedTakeover
    BY <1>3, InterruptKeeps DEF SustainedTakeover, endVars, Actors
  <1>4. CASE UNCHANGED vars
    BY <1>4, BystanderKeeps DEF vars, endVars
  <1> QED BY <1>1, <1>2, <1>3, <1>4, RunResponseKeeps, PlaybackKeeps, HearKeeps, WakeKeeps,
             HangUpKeeps, CloseKeeps DEF Next

-----------------------------------------------------------------------------
(* The theorems. *)

\* The strengthening is an invariant: at every await the response task, its
\* playback tasks, its ledger and the state machine agree.
THEOREM Invariant == Spec => []Inv
  <1>1. Init => Inv
    BY InitKeeps
  <1>2. TypeOK /\ Inv /\ [Next]_vars => Inv'
    BY NextKeeps
  <1> QED BY <1>1, <1>2, TypeCorrect, PTL DEF Spec

\* The session is never left waiting for a response that is over, in whatever
\* order its tasks, receipts, failures and interruptions come.
THEOREM NotStranded == Spec => []NeverStranded
  <1>1. Inv => NeverStranded
    BY DEF Inv, StateLedOut, NeverStranded, Active
  <1> QED BY <1>1, Invariant, PTL

\* The segment loop may look at the cancel event alone: at every wait it says
\* the same as the epoch of the response's operation token.
THEOREM CancelIsStale == Spec => []CancelAgreesWithEpoch
  <1>1. Inv => CancelAgreesWithEpoch
    BY DEF Inv
  <1> QED BY <1>1, Invariant, PTL

\* Playback is owned by the running response or by nobody.
THEOREM OwnerRuns == Spec => []OwnerIsActive
  <1>1. Inv => OwnerIsActive
    BY DEF Inv
  <1> QED BY <1>1, Invariant, PTL

\* The ledger of a response that is over is settled.
THEOREM Settled == Spec => []LedgerSettled
  <1>1. Inv => LedgerSettled
    BY DEF Inv, QuietAfterBody, LedgerSettled, Active
  <1> QED BY <1>1, Invariant, PTL

\* A handoff has audio whose end nobody confirmed as its cause.
THEOREM HandoffHasCause == Spec => []HandoffOnlyUnconfirmed
  <1>1. Inv => HandoffOnlyUnconfirmed
    BY DEF Inv
  <1> QED BY <1>1, Invariant, PTL

-----------------------------------------------------------------------------
(* What was heard is never rewritten. *)

Settles ==
    \A c \in Chunks : ledger[c] \in {"PLAYED", "CANCELLED", "PLAYBACK_UNCONFIRMED"}
                      => ledger'[c] = ledger[c]

LEMMA LeaveSettles ==
    ASSUME TypeOK, NEW state, NEW wasCancelled,
           NEW L \in {ledger, CancelUnplayed(MarkUnconfirmed(ledger))},
           Leave(state, wasCancelled, L)
    PROVE  Settles
  BY DEF Settles, Leave, Finish, CancelUnplayed, MarkUnconfirmed, TypeOK

LEMMA RunResponseSettles ==
    ASSUME TypeOK, Inv, RunResponse
    PROVE  Settles
  <1>1. CASE UNCHANGED ledger
    BY <1>1 DEF Settles
  <1>2. CASE Fail
    BY <1>2, LeaveSettles DEF Fail
  <1>3. CASE Complete
    BY <1>3, LeaveSettles DEF Complete
  <1>4. CASE Drain
    BY <1>1, <1>3, <1>4 DEF Drain, audioVars
  <1>5. ASSUME NEW c \in Chunks, TakeChunk(c), NextChunk(c)
        PROVE  Settles
    <2>1. ledger[c] = "none"
      BY <1>5 DEF NextChunk, Inv, AudioLinked
    <2> QED BY <1>5, <2>1 DEF TakeChunk, GoOn, audioVars, Settles, TypeOK
  <1>6. CASE Finally
    BY <1>6 DEF Finally, Finish, CancelUnplayed, Settles, TypeOK
  <1>7. ASSUME NEW state, Leave(state, cancel, ledger)
        PROVE  Settles
    BY <1>7, LeaveSettles
  <1>8. CASE PlanNoTool \/ CallTool \/ ToolReturns \/ ToolFails
    BY <1>1, <1>2, <1>7, <1>8
       DEF PlanNoTool, CallTool, ToolReturns, ToolFails, GoOn, audioVars
  <1>9. CASE ReasonerYields \/ ReasonerEnds \/ ReasonerFails \/ StreamEnds \/ StreamFails
             \/ Gathered
    BY <1>1, <1>2, <1>3, <1>4, <1>9
       DEF ReasonerYields, ReasonerEnds, ReasonerFails, StreamEnds, StreamFails, Gathered,
           OpenStream, GoOn, audioVars
  <1>10. ASSUME NEW c \in Chunks, SynthesizerYields(c) \/ CapacityFreed(c)
         PROVE  Settles
    BY <1>1, <1>2, <1>4, <1>5, <1>10 DEF SynthesizerYields, CapacityFreed, GoOn, audioVars
  <1> QED BY <1>6, <1>8, <1>9, <1>10 DEF RunResponse

LEMMA OthersSettle ==
    ASSUME TypeOK, Inv, [Next]_vars, ~RunResponse, resp' = resp
    PROVE  Settles
  <1>1. CASE UNCHANGED audioVars
    BY <1>1 DEF Settles, audioVars
  <1>2. ASSUME NEW c \in Chunks, Playback(c)
        PROVE  Settles
    BY <1>2, PlaybackStep DEF Settles, Inv
  <1>3. ASSUME NEW followup, TakeTurn(followup)
        PROVE  Settles
    BY <1>1, <1>3 DEF TakeTurn, Begin, TypeOK
  <1>4. CASE CancelResponse
    BY <1>4, LeaveSettles DEF CancelResponse, CancelPlayback, Settles, audioVars
  <1>5. CASE Hear
    BY <1>1, <1>3, <1>5 DEF Hear, HearTurn, HearInterruption, HearBackground, Interrupt, Resume
  <1>6. ASSUME NEW a \in Actors, Wake(a)
        PROVE  Settles
    BY <1>1, <1>3, <1>6 DEF Wake, WakeAfterStop, WakeAfterEnd, Resume
  <1>7. CASE HangUp
    BY <1>1, <1>4, <1>7 DEF HangUp
  <1>8. CASE Close
    BY <1>1, <1>8 DEF Close, CloseBegins, CloseWaits, CloseGate, CloseEnds, Interrupt
  <1>9. CASE PressInterrupt \/ SpeechOnset \/ SustainedTakeover \/ UNCHANGED vars
    BY <1>1, <1>9 DEF PressInterrupt, SpeechOnset, SustainedTakeover, Interrupt, vars
  <1> QED BY <1>2, <1>5, <1>6, <1>7, <1>8, <1>9 DEF Next

\* No receipt, timeout, failure, interruption or hang-up rewrites a settled
\* entry of the ledger while its response is the latest one.
THEOREM NeverRewritten == Spec => SettledForGood
  <1>1. TypeOK /\ Inv /\ [Next]_vars =>
          [resp' = resp => \A c \in Chunks :
               ledger[c] \in {"PLAYED", "CANCELLED", "PLAYBACK_UNCONFIRMED"}
               => ledger'[c] = ledger[c]]_vars
    BY RunResponseSettles, OthersSettle DEF Settles
  <1> QED BY <1>1, TypeCorrect, Invariant, PTL DEF Spec, SettledForGood

-----------------------------------------------------------------------------
(* An interruption is final. *)

\* A response that is cancelled while its body runs is invalid for the audio
\* output: its next chunk is refused even where no check follows the await.
CancelledIsInvalid == Active /\ cancel /\ rpc # "finally" => invalid

\* A step of a cancelled response.
WindsDown ==
    /\ cancel'
    /\ \A c \in Chunks : play[c] = "none" => play'[c] = "none"
    /\ UNCHANGED taskVars \/ Stage[rpc] < Stage[rpc']

LEMMA StageOrder ==
    ASSUME Active, rpc' \in {"finally", "done"}, rpc # "finally" \/ rpc' = "done", TypeOK
    PROVE  Stage[rpc] < Stage[rpc']
  BY DEF Stage, Active, TypeOK, TaskPoint

\* What leaves the body keeps both facts.
LEMMA LeaveWindsDown ==
    ASSUME TypeOK, Active, rpc # "finally", NEW state, NEW wasCancelled, NEW L,
           Leave(state, wasCancelled, L), UNCHANGED play
    PROVE  CancelledIsInvalid' /\ (cancel' => WindsDown)
  <1>1. rpc' \in {"finally", "done"}
    BY DEF Leave, Finish
  <1>2. Stage[rpc] < Stage[rpc']
    BY <1>1, StageOrder
  <1> QED BY <1>1, <1>2 DEF CancelledIsInvalid, WindsDown, Active

LEMMA FailWindsDown ==
    ASSUME TypeOK, Active, rpc # "finally", Fail
    PROVE  CancelledIsInvalid' /\ WindsDown
  BY LeaveWindsDown DEF Fail

LEMMA CompleteWindsDown ==
    ASSUME TypeOK, Active, rpc # "finally", Complete
    PROVE  CancelledIsInvalid' /\ (cancel => WindsDown)
  BY LeaveWindsDown DEF Complete

LEMMA DrainWindsDown ==
    ASSUME TypeOK, CancelledIsInvalid, Active, rpc \notin {"drain", "finally"}, Drain
    PROVE  CancelledIsInvalid' /\ (cancel => WindsDown)
  <1>1. CASE FirstAudio
    BY <1>1, CompleteWindsDown DEF Drain
  <1>2. CASE ~FirstAudio
    <2>1. rpc' = "drain" /\ UNCHANGED <<cancel, invalid, play>>
      BY <1>2 DEF Drain, sessionVars, audioVars
    <2>2. Stage[rpc] < Stage[rpc']
      BY <2>1 DEF Stage, Active, TypeOK, TaskPoint
    <2> QED BY <2>1, <2>2 DEF CancelledIsInvalid, WindsDown, Active
  <1> QED BY <1>1, <1>2

\* The task goes on, which a cancelled one only does towards its end.
LEMMA BodyWindsDown ==
    ASSUME TypeOK, CancelledIsInvalid, Active, rpc # "finally",
           rpc' \notin {"none", "finally", "done"}, UNCHANGED <<cancel, invalid>>,
           cancel => UNCHANGED play /\ Stage[rpc] < Stage[rpc']
    PROVE  CancelledIsInvalid' /\ (cancel => WindsDown)
  BY DEF CancelledIsInvalid, WindsDown, Active

\* An audio chunk of a cancelled response is refused.
LEMMA TakeChunkWindsDown ==
    ASSUME TypeOK, CancelledIsInvalid, rpc = "capacity" \/ (rpc = "tts" /\ ~cancel),
           NEW c \in Chunks, TakeChunk(c)
    PROVE  CancelledIsInvalid' /\ (cancel => WindsDown)
  <1>1. Active /\ rpc # "finally" /\ rpc' = "tts" /\ UNCHANGED <<cancel, invalid>>
    BY DEF Active, TakeChunk, GoOn, sessionVars
  <1>2. cancel => UNCHANGED play /\ rpc = "capacity"
    BY <1>1 DEF CancelledIsInvalid, TakeChunk, Refused, GoOn, audioVars
  <1>3. Stage["capacity"] < Stage["tts"]
    BY DEF Stage
  <1> QED BY <1>1, <1>2, <1>3, BodyWindsDown

LEMMA RunResponseWindsDown ==
    ASSUME TypeOK, Inv, CancelledIsInvalid, RunResponse
    PROVE  CancelledIsInvalid' /\ (cancel => WindsDown)
  <1>1. ASSUME NEW point \in {"reason", "tts", "capacity"}, GoOn(point), ~cancel \/ rpc = "start",
               point = "reason" \/ ~cancel, Active, rpc # "finally"
        PROVE  CancelledIsInvalid' /\ (cancel => WindsDown)
    <2>1. Stage["start"] < Stage["reason"]
      BY DEF Stage
    <2> QED BY <1>1, <2>1, BodyWindsDown DEF GoOn, sessionVars, audioVars
  <1>2. ASSUME NEW n \in {0, 1}, OpenStream(n), ~cancel, Active, rpc # "finally"
        PROVE  CancelledIsInvalid' /\ (cancel => WindsDown)
    BY <1>2, BodyWindsDown DEF OpenStream, sessionVars
  <1>3. CASE PlanNoTool
    BY <1>1, <1>3, LeaveWindsDown DEF PlanNoTool, Stale, Active
  <1>4. CASE CallTool
    <2>1. Stage["start"] < Stage["tool"]
      BY DEF Stage
    <2> QED BY <1>4, <2>1, BodyWindsDown, FailWindsDown DEF CallTool, audioVars, Active
  <1>5. CASE ToolReturns
    <2>1. ~cancel
      BY <1>5 DEF ToolReturns, Inv, CancelAgreesWithEpoch, Active
    <2> QED BY <1>5, <2>1, BodyWindsDown, FailWindsDown DEF ToolReturns, Active
  <1>6. CASE ToolFails
    BY <1>6, LeaveWindsDown, FailWindsDown DEF ToolFails, Active
  <1>7. CASE ReasonerYields \/ ReasonerEnds \/ ReasonerFails
    BY <1>2, <1>7, FailWindsDown, DrainWindsDown
       DEF ReasonerYields, ReasonerEnds, ReasonerFails, Stale, Active
  <1>8. ASSUME NEW c \in Chunks, SynthesizerYields(c)
        PROVE  CancelledIsInvalid' /\ (cancel => WindsDown)
    BY <1>1, <1>8, FailWindsDown, DrainWindsDown, TakeChunkWindsDown
       DEF SynthesizerYields, Stale, Active
  <1>9. ASSUME NEW c \in Chunks, CapacityFreed(c)
        PROVE  CancelledIsInvalid' /\ (cancel => WindsDown)
    BY <1>9, FailWindsDown, TakeChunkWindsDown DEF CapacityFreed, Active
  <1>10. CASE StreamEnds
    BY <1>1, <1>2, <1>10, FailWindsDown, DrainWindsDown DEF StreamEnds, Active
  <1>11. CASE StreamFails
    BY <1>2, <1>11, FailWindsDown DEF StreamFails, Active
  <1>12. CASE Gathered
    BY <1>12, FailWindsDown, CompleteWindsDown DEF Gathered, Active
  <1>13. CASE Finally
    <2>1. rpc = "finally" /\ rpc' = "done" /\ UNCHANGED <<cancel, play>>
      BY <1>13 DEF Finally, Finish
    <2>2. Stage["finally"] < Stage["done"]
      BY DEF Stage
    <2> QED BY <2>1, <2>2 DEF CancelledIsInvalid, WindsDown, Active
  <1> QED BY <1>3, <1>4, <1>5, <1>6, <1>7, <1>8, <1>9, <1>10, <1>11, <1>12, <1>13
          DEF RunResponse

\* Steps that leave the response and its task as they are.
LEMMA BystanderWindsDown ==
    ASSUME CancelledIsInvalid, UNCHANGED <<cancel, invalid, taskVars, play>>
    PROVE  CancelledIsInvalid' /\ (cancel => WindsDown)
  BY DEF CancelledIsInvalid, WindsDown, Active, taskVars

LEMMA InterruptWindsDown ==
    ASSUME CancelledIsInvalid, NEW a, NEW turn, Interrupt(a, turn)
    PROVE  CancelledIsInvalid' /\ WindsDown
  BY DEF Interrupt, CancelledIsInvalid, WindsDown, Active, sessionVars, taskVars, audioVars

LEMMA TakeTurnWindsDown ==
    ASSUME TypeOK, CancelledIsInvalid, NEW followup, TakeTurn(followup)
    PROVE  CancelledIsInvalid' /\ (cancel /\ resp' = resp => WindsDown)
  <1>1. CASE ~Active /\ fsm = "LISTENING"
    BY <1>1 DEF TakeTurn, Begin, TypeOK, CancelledIsInvalid
  <1>2. CASE ~(~Active /\ fsm = "LISTENING")
    BY <1>2, BystanderWindsDown DEF TakeTurn, sessionVars, audioVars
  <1> QED BY <1>1, <1>2

\* The hang-up may cancel the task at the point where it waits.
LEMMA HangUpWindsDown ==
    ASSUME TypeOK, CancelledIsInvalid, HangUp
    PROVE  CancelledIsInvalid' /\ (cancel => WindsDown)
  <1>1. CASE CancelResponse /\ Active
    <2>1. rpc' \in {"finally", "done"} /\ (rpc = "finally" => rpc' = "done") /\ cancel' = cancel
      BY <1>1 DEF CancelResponse, Leave, Finish
    <2>2. \A c \in Chunks : play[c] = "none" => play'[c] = "none"
      BY <1>1 DEF CancelResponse, CancelPlayback, Pending, audioVars
    <2>3. Stage[rpc] < Stage[rpc']
      BY <1>1, <2>1, StageOrder
    <2>4. CancelledIsInvalid'
      BY <2>1 DEF CancelledIsInvalid, Active
    <2> QED BY <2>1, <2>2, <2>3, <2>4 DEF WindsDown
  <1>2. CASE UNCHANGED <<sessionVars, taskVars, audioVars, killed, mute>>
    BY <1>2, BystanderWindsDown DEF sessionVars, audioVars
  <1> QED BY <1>1, <1>2 DEF HangUp, Ended

LEMMA NextWindsDown ==
    ASSUME TypeOK, Inv, CancelledIsInvalid, [Next]_vars
    PROVE  CancelledIsInvalid' /\ (cancel /\ resp' = resp => WindsDown)
  <1>1. CASE UNCHANGED <<cancel, invalid, taskVars, play>>
    BY <1>1, BystanderWindsDown
  <1>2. ASSUME NEW c \in Chunks, Playback(c)
        PROVE  CancelledIsInvalid' /\ (cancel => WindsDown)
    <2>1. /\ play'[c] # "none" /\ play[c] # "none" /\ UNCHANGED BesidesAudio
          /\ \A d \in Chunks \ {c} : play'[d] = play[d]
      BY <1>2, PlaybackStep DEF Inv
    <2> QED BY <2>1 DEF BesidesAudio, sessionVars, taskVars, CancelledIsInvalid, WindsDown, Active
  <1>3. ASSUME NEW a, NEW r, NEW followup, Resume(a, r, followup)
        PROVE  CancelledIsInvalid' /\ (cancel /\ resp' = resp => WindsDown)
    BY <1>1, <1>3, TakeTurnWindsDown DEF Resume, sessionVars, audioVars
  <1>4. CASE Hear
    BY <1>1, <1>3, <1>4, InterruptWindsDown, TakeTurnWindsDown
       DEF Hear, HearTurn, HearInterruption, HearBackground, audioVars
  <1>5. ASSUME NEW a \in Actors, Wake(a)
        PROVE  CancelledIsInvalid' /\ (cancel /\ resp' = resp => WindsDown)
    BY <1>1, <1>3, <1>5 DEF Wake, WakeAfterStop, WakeAfterEnd, sessionVars, audioVars
  <1>6. CASE Close
    BY <1>1, <1>6, InterruptWindsDown
       DEF Close, CloseBegins, CloseWaits, CloseGate, CloseEnds, sessionVars, audioVars
  <1>7. CASE PressInterrupt \/ SustainedTakeover \/ SpeechOnset \/ UNCHANGED vars
    BY <1>1, <1>7, InterruptWindsDown
       DEF PressInterrupt, SustainedTakeover, SpeechOnset, vars, sessionVars, audioVars
  <1> QED BY <1>2, <1>4, <1>5, <1>6, <1>7, RunResponseWindsDown, HangUpWindsDown DEF Next

LEMMA CancelledInvalid == Spec => []CancelledIsInvalid
  <1>1. Init => CancelledIsInvalid
    BY DEF Init, CancelledIsInvalid
  <1>2. TypeOK /\ Inv /\ CancelledIsInvalid /\ [Next]_vars => CancelledIsInvalid'
    BY NextWindsDown
  <1> QED BY <1>1, <1>2, TypeCorrect, Invariant, PTL DEF Spec

\* An interruption is final at every await it may meet: the response stays
\* cancelled, schedules no further chunk, and its task only moves towards its
\* end; in no interleaving is it taken up again.
THEOREM InterruptionFinal == Spec => InterruptionIsFinal
  <1>1. TypeOK /\ Inv /\ CancelledIsInvalid /\ [Next]_vars =>
          [cancel /\ resp' = resp =>
              /\ cancel'
              /\ \A c \in Chunks : play[c] = "none" => play'[c] = "none"
              /\ UNCHANGED taskVars \/ Stage[rpc] < Stage[rpc']]_vars
    BY NextWindsDown DEF WindsDown
  <1> QED BY <1>1, TypeCorrect, Invariant, CancelledInvalid, PTL DEF Spec, InterruptionIsFinal

-----------------------------------------------------------------------------
(* Nobody waits for what cannot come: the safety half of the liveness. *)

\* Whoever waits for a response waits for one that exists, and whoever waits for
\* its audible stop waits for a response that was cancelled.
WaitersServed ==
    \A a \in Actors :
        /\ hpc[a] \in {"awaitStop", "awaitEnd"} => hwait[a] \in 1 .. resp
        /\ hpc[a] = "awaitStop" /\ hwait[a] = resp /\ Active => cancel

\* A task that waits for room in the queue waits with a chunk in hand.
ChunkInHand == rpc = "capacity" => \E c \in Chunks : NextChunk(c)

\* A response that runs has a step of its own to take, or a playback task that
\* has: no await of the session waits for another that waits for it.
NeverStuck ==
    Active => \/ rpc \in {"start", "tool", "reason", "tts"}
              \/ rpc = "capacity" /\ ~QueueFull /\ \E c \in Chunks : NextChunk(c)
              \/ rpc = "drain" /\ (Failed \/ AllSettled)
              \/ rpc = "finally" /\ AllSettled
              \/ \E c \in Chunks : Pending(c)

\* No new waiter; the response goes on or ends, or stays cancelled.
LEMMA FewerWait ==
    ASSUME WaitersServed, resp' = resp, Active' => Active, cancel => cancel',
           \A a \in Actors : hpc'[a] \in {"awaitStop", "awaitEnd"} =>
                                 hpc'[a] = hpc[a] /\ hwait'[a] = hwait[a]
    PROVE  WaitersServed'
  BY DEF WaitersServed

\* One actor moves to another wait.
LEMMA WaitServed ==
    ASSUME TypeOK, WaitersServed, NEW a \in Actors, NEW point, NEW r, NEW turn,
           Waits(a, point, r, turn), resp' = resp, Active' => Active, cancel => cancel',
           point \in {"awaitStop", "awaitEnd"} => r \in 1 .. resp,
           point = "awaitStop" => cancel'
    PROVE  WaitersServed'
  <1>1. /\ hpc'[a] = point /\ hwait'[a] = r
        /\ \A b \in Actors \ {a} : hpc'[b] = hpc[b] /\ hwait'[b] = hwait[b]
    BY DEF Waits, TypeOK
  <1> QED BY <1>1 DEF WaitersServed

LEMMA RestServed ==
    ASSUME TypeOK, WaitersServed, NEW a \in Actors,
           NEW point \in {"idle", "awaitAcoustic", "awaitInput"}, Waits(a, point, 0, FALSE), UNCHANGED <<sessionVars, taskVars>>
    PROVE  WaitersServed'
  <1>1. resp' = resp /\ (Active' => Active) /\ (cancel => cancel')
    BY DEF sessionVars, taskVars, Active
  <1>2. point \notin {"awaitStop", "awaitEnd"}
    OBVIOUS
  <1> QED BY <1>1, <1>2, WaitServed

LEMMA AwaitServed ==
    ASSUME TypeOK, Inv, WaitersServed, NEW a \in Actors, NEW turn,
           Waits(a, "awaitEnd", resp, turn), Active, UNCHANGED <<sessionVars, taskVars>>
    PROVE  WaitersServed'
  <1>1. resp' = resp /\ (Active' => Active) /\ (cancel => cancel')
    BY DEF sessionVars, taskVars, Active
  <1>2. resp \in 1 .. resp
    BY DEF Inv, TokensIssued, Active, TypeOK
  <1> QED BY <1>1, <1>2, WaitServed

LEMMA InterruptServed ==
    ASSUME TypeOK, Inv, WaitersServed, NEW a \in Actors, NEW turn, Interrupt(a, turn)
    PROVE  WaitersServed'
  <1>1. /\ Waits(a, "awaitStop", resp, turn) /\ UNCHANGED <<resp, rpc>>
        /\ Active /\ cancel'
    BY DEF Interrupt, sessionVars, taskVars
  <1>2. resp \in 1 .. resp
    BY <1>1 DEF Inv, TokensIssued, Active, TypeOK
  <1> QED BY <1>1, <1>2, WaitServed DEF Active

\* A new response is no one's response to wait for yet.
LEMMA TakeTurnServed ==
    ASSUME TypeOK, WaitersServed, NEW followup, TakeTurn(followup),
           \A a \in Actors : hpc'[a] \in {"awaitStop", "awaitEnd"} =>
                                 hpc'[a] = hpc[a] /\ hwait'[a] = hwait[a]
    PROVE  WaitersServed'
  <1>1. CASE ~Active /\ fsm = "LISTENING"
    <2>1. resp' = resp + 1 /\ resp \in Nat
      BY <1>1 DEF TakeTurn, Begin, TypeOK
    <2> QED BY <2>1 DEF WaitersServed
  <1>2. CASE ~(~Active /\ fsm = "LISTENING")
    BY <1>2, FewerWait DEF TakeTurn, sessionVars, taskVars, Active
  <1> QED BY <1>1, <1>2

LEMMA ResumeServed ==
    ASSUME TypeOK, WaitersServed, NEW a \in Actors, NEW r, NEW followup,
           Resume(a, r, followup)
    PROVE  WaitersServed'
  <1>1. \A b \in Actors : hpc'[b] \in {"awaitStop", "awaitEnd"} =>
                              hpc'[b] = hpc[b] /\ hwait'[b] = hwait[b]
    BY DEF Resume, Waits, TypeOK
  <1> QED BY <1>1, FewerWait, TakeTurnServed DEF Resume, sessionVars, taskVars, Active

LEMMA TasksServe ==
    ASSUME TypeOK, Inv, CancelledIsInvalid, WaitersServed,
           RunResponse \/ (\E c \in Chunks : Playback(c)) \/ HangUp \/ SpeechOnset
           \/ UNCHANGED vars
    PROVE  WaitersServed'
  <1>1. CASE RunResponse
    <2>1. UNCHANGED <<resp, RestVars>> /\ Active
      BY <1>1
         DEF RunResponse, PlanNoTool, CallTool, ToolReturns, ToolFails, ReasonerYields,
             ReasonerEnds, ReasonerFails, SynthesizerYields, CapacityFreed, StreamEnds,
             StreamFails, Gathered, Finally, Fail, Drain, Complete, GoOn, OpenStream,
             TakeChunk, sessionVars, Active
    <2>2. cancel => cancel'
      BY <1>1, RunResponseWindsDown DEF WindsDown
    <2> QED BY <2>1, <2>2, FewerWait DEF RestVars, actorVars
  <1>2. CASE HangUp
    <2>1. UNCHANGED <<resp, cancel>> /\ (Active' => Active)
      BY <1>2 DEF HangUp, CancelResponse, Ended, Active, sessionVars, taskVars
    <2>2. \A a \in Actors : hpc'[a] \in {"awaitStop", "awaitEnd"} =>
                                hpc'[a] = hpc[a] /\ hwait'[a] = hwait[a]
      BY <1>2 DEF HangUp, TypeOK, Actors
    <2> QED BY <2>1, <2>2, FewerWait
  <1>3. CASE UNCHANGED <<resp, cancel, rpc, hpc, hwait>>
    BY <1>3, FewerWait DEF Active
  <1>4. RunResponse \/ HangUp \/ UNCHANGED <<resp, cancel, rpc, hpc, hwait>>
    BY DEF Playback, PlayBegins, PlayStarts, PlayTimesOut, PlayStops, SpeechOnset, vars,
           BesidesAudio, sessionVars, taskVars, RestVars, actorVars
  <1> QED BY <1>1, <1>2, <1>3, <1>4

LEMMA HearServes ==
    ASSUME TypeOK, Inv, WaitersServed, Hear
    PROVE  WaitersServed'
  <1>1. Handlers \subseteq Actors
    BY HandlersAssumption DEF Actors
  <1>2. ASSUME NEW h \in Handlers, HearTurn(h)
        PROVE  WaitersServed'
    BY <1>1, <1>2, InterruptServed, TakeTurnServed DEF HearTurn, actorVars
  <1>3. ASSUME NEW h \in Handlers, NEW acoustic \in BOOLEAN, NEW turn \in BOOLEAN,
               HearInterruption(h, acoustic, turn)
        PROVE  WaitersServed'
    BY <1>1, <1>3, InterruptServed, ResumeServed DEF HearInterruption
  <1>4. ASSUME NEW acoustic \in BOOLEAN, HearBackground(acoustic)
        PROVE  WaitersServed'
    <2>1. \A a \in Actors : hpc'[a] \in {"awaitStop", "awaitEnd"} =>
                                hpc'[a] = hpc[a] /\ hwait'[a] = hwait[a]
      BY <1>4 DEF HearBackground, TypeOK, Actors
    <2> QED BY <1>4, <2>1, FewerWait DEF HearBackground, taskVars, Active
  <1> QED BY <1>2, <1>3, <1>4 DEF Hear

LEMMA WakeServes ==
    ASSUME TypeOK, Inv, WaitersServed, NEW a \in Actors, Wake(a)
    PROVE  WaitersServed'
  <1>1. CASE WakeAfterStop(a) /\ hnext[a] /\ Active
    BY <1>1, AwaitServed DEF WakeAfterStop
  <1>2. CASE WakeAfterStop(a) /\ ~(hnext[a] /\ Active)
    <2>1. CASE hnext[a]
      BY <1>2, <2>1, ResumeServed DEF WakeAfterStop
    <2>2. CASE ~hnext[a]
      BY <1>2, <2>2, RestServed DEF WakeAfterStop
    <2> QED BY <2>1, <2>2
  <1>3. CASE WakeAfterEnd(a)
    BY <1>3, ResumeServed DEF WakeAfterEnd
  <1> QED BY <1>1, <1>2, <1>3 DEF Wake

LEMMA CloseServes ==
    ASSUME TypeOK, Inv, WaitersServed, Close
    PROVE  WaitersServed'
  <1>1. "closer" \in Actors
    BY DEF Actors
  <1>2. CASE CloseBegins
    BY <1>1, <1>2, InterruptServed, RestServed DEF CloseBegins
  <1>3. CASE CloseWaits
    BY <1>1, <1>3, AwaitServed, RestServed DEF CloseWaits
  <1>4. CASE CloseGate
    BY <1>1, <1>4, RestServed DEF CloseGate
  <1>5. CASE CloseEnds
    <2>1. \A a \in Actors : hpc'[a] \in {"awaitStop", "awaitEnd"} =>
                                hpc'[a] = hpc[a] /\ hwait'[a] = hwait[a]
      BY <1>5 DEF CloseEnds, TypeOK, Actors
    <2> QED BY <1>5, <2>1, FewerWait DEF CloseEnds, taskVars, Active
  <1> QED BY <1>2, <1>3, <1>4, <1>5 DEF Close

\* In every interleaving of handlers, button, acoustic task and hang-up, no one
\* waits for a response that does not exist, nor for the audible stop of one
\* that nobody stopped.
THEOREM WaitersAreServed == Spec => []WaitersServed
  <1>1. Init => WaitersServed
    BY DEF Init, WaitersServed
  <1>2. ASSUME TypeOK, Inv, CancelledIsInvalid, WaitersServed, [Next]_vars
        PROVE  WaitersServed'
    <2>1. CASE PressInterrupt \/ SustainedTakeover
      BY <1>2, <2>1, InterruptServed DEF PressInterrupt, SustainedTakeover, Actors
    <2> QED BY <1>2, <2>1, TasksServe, HearServes, WakeServes, CloseServes DEF Next
  <1> QED BY <1>1, <1>2, TypeCorrect, Invariant, CancelledInvalid, PTL DEF Spec

\* The chunk in hand stays the next one as long as the task waits.
LEMMA ChunkStays ==
    ASSUME ChunkInHand, rpc' = rpc, \A c \in Chunks : (play'[c] = "none") <=> (play[c] = "none")
    PROVE  ChunkInHand'
  <1>1. \A c \in Chunks : NextChunk(c) => NextChunk(c)'
    <2> SUFFICES ASSUME NEW c \in Chunks, NextChunk(c)
                 PROVE  NextChunk(c)'
      OBVIOUS
    <2>1. 1 .. (c - 1) \subseteq Chunks
      BY BoundsAssumption DEF Chunks
    <2> QED BY <2>1 DEF NextChunk
  <1> QED BY <1>1 DEF ChunkInHand

LEMMA ChunkStep ==
    ASSUME TypeOK, Inv, ChunkInHand, [Next]_vars
    PROVE  ChunkInHand'
  <1>1. CASE rpc' # "capacity"
    BY <1>1 DEF ChunkInHand
  <1>2. CASE UNCHANGED <<rpc, play>>
    BY <1>2, ChunkStays
  <1>3. ASSUME NEW c \in Chunks, Playback(c)
        PROVE  ChunkInHand'
    <2>1. /\ play'[c] # "none" /\ play[c] # "none" /\ UNCHANGED BesidesAudio
          /\ \A d \in Chunks \ {c} : play'[d] = play[d]
      BY <1>3, PlaybackStep DEF Inv
    <2> QED BY <2>1, ChunkStays DEF BesidesAudio, taskVars
  <1>4. CASE RunResponse
    <2>1. ASSUME NEW c \in Chunks, SynthesizerYields(c), rpc' = "capacity"
          PROVE  ChunkInHand'
      <3>1. NextChunk(c) /\ UNCHANGED play
        BY <2>1 DEF SynthesizerYields, Fail, Drain, Complete, Leave, Finish, GoOn, TakeChunk,
                    audioVars
      <3>2. NextChunk(c)'
        BY <3>1 DEF NextChunk
      <3> QED BY <3>2 DEF ChunkInHand
    <2>2. rpc' # "capacity" \/ \E c \in Chunks : SynthesizerYields(c)
      BY <1>4 DEF RunResponse, PlanNoTool, CallTool, ToolReturns, ToolFails, ReasonerYields,
                  ReasonerEnds, ReasonerFails, CapacityFreed, StreamEnds, StreamFails,
                  Gathered, Finally, Fail, Drain, Complete, Leave, Finish, GoOn, OpenStream,
                  TakeChunk
    <2> QED BY <1>1, <2>1, <2>2
  <1>5. ASSUME NEW followup, TakeTurn(followup)
        PROVE  ChunkInHand'
    BY <1>1, <1>2, <1>5 DEF TakeTurn, Begin, taskVars, audioVars
  <1>6. CASE HangUp
    BY <1>1, <1>2, <1>6 DEF HangUp, CancelResponse, Leave, Finish, taskVars, audioVars
  <1>7. CASE Hear
    BY <1>2, <1>5, <1>7
       DEF Hear, HearTurn, HearInterruption, HearBackground, Interrupt, Resume, taskVars, audioVars
  <1>8. ASSUME NEW a \in Actors, Wake(a)
        PROVE  ChunkInHand'
    BY <1>2, <1>5, <1>8 DEF Wake, WakeAfterStop, WakeAfterEnd, Resume, taskVars, audioVars
  <1>9. CASE Close \/ PressInterrupt \/ SpeechOnset \/ SustainedTakeover \/ UNCHANGED vars
    BY <1>2, <1>9
       DEF Close, CloseBegins, CloseWaits, CloseGate, CloseEnds, PressInterrupt, SpeechOnset,
           SustainedTakeover, Interrupt, vars, taskVars, audioVars
  <1> QED BY <1>3, <1>4, <1>6, <1>7, <1>8, <1>9 DEF Next

\* A response that runs can always take a step, or a playback task of it can:
\* whatever was interrupted, refused or timed out, no await of the session waits
\* for another that waits for it.  The fairness of the loop then ends it.
THEOREM ResponseNeverStuck == Spec => []NeverStuck
  <1>1. Init => ChunkInHand
    BY DEF Init, ChunkInHand
  <1>2. TypeOK /\ Inv /\ ChunkInHand /\ [Next]_vars => ChunkInHand'
    BY ChunkStep
  <1>3. ASSUME TypeOK, ChunkInHand
        PROVE  NeverStuck
    <2>1. QueueFull => \E c \in Chunks : Pending(c)
      <3> SUFFICES ASSUME QueueFull, \A c \in Chunks : ~Pending(c)
                   PROVE  FALSE
        OBVIOUS
      <3>1. {c \in Chunks : Pending(c)} = {}
        OBVIOUS
      <3>2. PendingCount = 0
        BY <3>1, FS_EmptySet DEF PendingCount
      <3> QED BY <3>2, BoundsAssumption DEF QueueFull
    <2>2. ~AllSettled => \E c \in Chunks : Pending(c)
      BY DEF AllSettled
    <2> QED BY <1>3, <2>1, <2>2 DEF NeverStuck, ChunkInHand, Active, TypeOK, TaskPoint
  <1> QED BY <1>1, <1>2, <1>3, TypeCorrect, Invariant, PTL DEF Spec

-----------------------------------------------------------------------------
(* The lookahead of the playback queue. *)

PendingSet == {c \in Chunks : Pending(c)}

LEMMA ChunksFinite == IsFiniteSet(Chunks) /\ Cardinality(Chunks) = MaxChunks
  BY FS_Interval, BoundsAssumption DEF Chunks

LEMMA FewerPending ==
    ASSUME TypeOK, LookaheadBounded, PendingSet' \subseteq PendingSet
    PROVE  LookaheadBounded'
  <1>1. IsFiniteSet(PendingSet)
    BY ChunksFinite, FS_Subset DEF PendingSet
  <1>2. /\ IsFiniteSet(PendingSet') /\ Cardinality(PendingSet') <= Cardinality(PendingSet)
        /\ Cardinality(PendingSet') \in Nat /\ Cardinality(PendingSet) \in Nat
    BY <1>1, FS_Subset, FS_CardinalityType
  <1> QED BY <1>2, BoundsAssumption DEF LookaheadBounded, PendingCount, PendingSet

LEMMA OneMorePending ==
    ASSUME TypeOK, NEW c \in Chunks, ~QueueFull, PendingSet' \subseteq PendingSet \union {c}
    PROVE  LookaheadBounded'
  <1>1. IsFiniteSet(PendingSet) /\ Cardinality(PendingSet) \in Nat
    BY ChunksFinite, FS_Subset, FS_CardinalityType DEF PendingSet
  <1>2. /\ IsFiniteSet(PendingSet \union {c})
        /\ Cardinality(PendingSet \union {c}) <= Cardinality(PendingSet) + 1
    <2>1. /\ IsFiniteSet(PendingSet \union {c})
          /\ Cardinality(PendingSet \union {c}) =
                IF c \in PendingSet THEN Cardinality(PendingSet) ELSE Cardinality(PendingSet) + 1
      <3> HIDE DEF PendingSet
      <3> QED BY <1>1, FS_AddElement
    <2> QED BY <1>1, <2>1
  <1>3. /\ Cardinality(PendingSet') <= Cardinality(PendingSet \union {c})
        /\ Cardinality(PendingSet') \in Nat /\ Cardinality(PendingSet \union {c}) \in Nat
    BY <1>2, FS_Subset, FS_CardinalityType
  <1>4. Cardinality(PendingSet) < Lookahead
    BY <1>1, BoundsAssumption DEF QueueFull, PendingCount, PendingSet
  <1> QED BY <1>1, <1>2, <1>3, <1>4, BoundsAssumption DEF LookaheadBounded, PendingCount, PendingSet

\* No more chunks wait for the browser than the queue may hold.
THEOREM LookaheadKept == Spec => []LookaheadBounded
  <1>1. Init => LookaheadBounded
    <2> SUFFICES ASSUME Init PROVE LookaheadBounded
      OBVIOUS
    <2>1. PendingSet = {}
      BY DEF Init, PendingSet, Pending
    <2>2. Cardinality(PendingSet) = 0
      BY <2>1, FS_EmptySet
    <2> QED BY <2>2, BoundsAssumption DEF LookaheadBounded, PendingCount, PendingSet
  <1>2. ASSUME TypeOK, LookaheadBounded, [Next]_vars
        PROVE  LookaheadBounded'
    <2>1. CASE UNCHANGED play
      BY <1>2, <2>1, FewerPending DEF PendingSet, Pending
    <2>2. ASSUME NEW c \in Chunks, TakeChunk(c), ~QueueFull
          PROVE  LookaheadBounded'
      <3>1. PendingSet' \subseteq PendingSet \union {c}
        BY <1>2, <2>2 DEF TakeChunk, GoOn, audioVars, PendingSet, Pending, TypeOK
      <3> QED BY <1>2, <2>2, <3>1, OneMorePending
    <2>3. CASE RunResponse
      BY <2>1, <2>2, <2>3
         DEF RunResponse, PlanNoTool, CallTool, ToolReturns, ToolFails, ReasonerYields,
             ReasonerEnds, ReasonerFails, SynthesizerYields, CapacityFreed, StreamEnds,
             StreamFails, Gathered, Finally, Fail, Drain, Complete, GoOn, OpenStream, audioVars
    <2>4. ASSUME NEW c \in Chunks, Playback(c)
          PROVE  LookaheadBounded'
      <3>1. /\ Pending(c)
            /\ \A d \in Chunks \ {c} : play'[d] = play[d]
        BY <1>2, <2>4 DEF Playback, PlayBegins, PlayStarts, PlayTimesOut, PlayStops,
                          TakeReceipt, Pending, TypeOK
      <3> QED BY <1>2, <3>1, FewerPending DEF PendingSet, Pending
    <2>5. ASSUME NEW followup, TakeTurn(followup)
          PROVE  LookaheadBounded'
      BY <1>2, <2>1, <2>5, FewerPending DEF TakeTurn, Begin, audioVars, PendingSet, Pending
    <2>6. CASE CancelResponse
      <3>1. PendingSet' \subseteq PendingSet
        BY <2>6 DEF CancelResponse, CancelPlayback, audioVars, PendingSet, Pending
      <3> QED BY <1>2, <3>1, FewerPending
    <2>7. CASE Hear
      BY <2>1, <2>5, <2>7
         DEF Hear, HearTurn, HearInterruption, HearBackground, Interrupt, Resume, audioVars
    <2>8. ASSUME NEW a \in Actors, Wake(a)
          PROVE  LookaheadBounded'
      BY <2>1, <2>5, <2>8 DEF Wake, WakeAfterStop, WakeAfterEnd, Resume, audioVars
    <2>9. CASE HangUp \/ Close
      BY <2>1, <2>6, <2>9
         DEF HangUp, Close, CloseBegins, CloseWaits, CloseGate, CloseEnds, Interrupt, audioVars
    <2>10. CASE PressInterrupt \/ SpeechOnset \/ SustainedTakeover \/ UNCHANGED vars
      BY <2>1, <2>10
         DEF PressInterrupt, SpeechOnset, SustainedTakeover, Interrupt, audioVars, vars
    <2> QED BY <1>2, <2>3, <2>4, <2>7, <2>8, <2>9, <2>10 DEF Next
  <1> QED BY <1>1, <1>2, TypeCorrect, PTL DEF Spec

-----------------------------------------------------------------------------
(* A session without diagnostic transcripts. *)

\* Turns come from the input loop alone, one after the other: while it waits for
\* a response no other begins, and the hang-up has no task to cancel.
SoleHandler ==
    /\ killed = 0
    /\ hpc["control"] # "awaitEnd"
    /\ \A a \in Actors \ {"input"} : ~hnext[a]
    /\ hpc["input"] = "awaitEnd" => hwait["input"] = resp

\* The session speaks in the body of a response nobody has cancelled, and is idle
\* only when the input loop is over.
SpeaksInBody ==
    /\ fsm \in {"IDLE", "LISTENING", "THINKING", "TOOL_WAIT", "SPEAKING", "INTERRUPTED", "HANDOFF"}
    /\ fsm = "SPEAKING" => Active /\ ~cancel /\ rpc # "finally"
    /\ Active /\ cancel => invalid \/ rpc = "finally"
    /\ fsm = "IDLE" => hpc["input"] = "gone"

\* What one handler keeps besides Inv.
AloneInv == SoleHandler /\ SpeaksInBody /\ FollowupsAreTaken

\* Leaving the body ends the speaking.
LEMMA LeaveStopsSpeaking ==
    ASSUME SpeaksInBody, NEW state, NEW wasCancelled, NEW L, Leave(state, wasCancelled, L),
           state \in {fsm, "LISTENING", "THINKING", "HANDOFF"}, state # "SPEAKING",
           UNCHANGED hpc
    PROVE  SpeaksInBody'
  BY DEF SpeaksInBody, Leave, Finish, Active

LEMMA FailStopsSpeaking ==
    ASSUME SpeaksInBody, Fail, UNCHANGED RestVars
    PROVE  SpeaksInBody'
  <1> DEFINE L == CancelUnplayed(MarkUnconfirmed(ledger))
             unconfirmed == \E c \in Chunks : ledger[c] = "PLAYING"
             recovered == IF fsm \notin {"THINKING", "SPEAKING"} THEN fsm
                          ELSE IF unconfirmed THEN "HANDOFF" ELSE "LISTENING"
  <1>1. recovered \in {fsm, "LISTENING", "HANDOFF"} /\ recovered # "SPEAKING"
    OBVIOUS
  <1>2. Leave(recovered, TRUE, L) /\ UNCHANGED hpc
    BY DEF Fail, RestVars, actorVars
  <1> HIDE DEF recovered, L
  <1> QED BY <1>1, <1>2 DEF SpeaksInBody, Leave, Finish, Active

LEMMA CompleteStopsSpeaking ==
    ASSUME SpeaksInBody, Complete, UNCHANGED RestVars
    PROVE  SpeaksInBody'
  <1> DEFINE state == IF ~cancel /\ fsm = "SPEAKING" THEN "LISTENING" ELSE fsm
  <1>1. state \in {fsm, "LISTENING"} /\ state # "SPEAKING"
    BY DEF SpeaksInBody
  <1>2. Leave(state, cancel, ledger) /\ UNCHANGED hpc
    BY DEF Complete, RestVars, actorVars
  <1> HIDE DEF state
  <1> QED BY <1>1, <1>2, LeaveStopsSpeaking

LEMMA DrainSpeaks ==
    ASSUME SpeaksInBody, Active, Drain, UNCHANGED RestVars, rpc # "finally"
    PROVE  SpeaksInBody'
  <1>1. CASE FirstAudio
    BY <1>1, CompleteStopsSpeaking DEF Drain
  <1>2. CASE ~FirstAudio
    BY <1>2 DEF Drain, SpeaksInBody, Active, sessionVars, RestVars, actorVars
  <1> QED BY <1>1, <1>2

\* The task goes on in its body.
LEMMA BodySpeaks ==
    ASSUME SpeaksInBody, Active, rpc # "finally",
           rpc' \in {"tool", "reason", "tts", "capacity"},
           UNCHANGED <<cancel, invalid, RestVars>>,
           \/ fsm' \in {fsm, "THINKING", "TOOL_WAIT"}
           \/ fsm' = "SPEAKING" /\ ~invalid
    PROVE  SpeaksInBody'
  BY DEF SpeaksInBody, Active, RestVars, actorVars

LEMMA TakeChunkSpeaks ==
    ASSUME SpeaksInBody, rpc \in {"tts", "capacity"}, NEW c \in Chunks, TakeChunk(c),
           UNCHANGED RestVars
    PROVE  SpeaksInBody'
  <1>1. Active
    BY DEF Active
  <1> QED BY <1>1, BodySpeaks DEF TakeChunk, Refused, GoOn, sessionVars

LEMMA RunResponseSpeaks ==
    ASSUME Inv, SpeaksInBody, RunResponse
    PROVE  SpeaksInBody'
  <1>1. CASE PlanNoTool
    <2>1. rpc = "start" /\ Active /\ UNCHANGED RestVars
      BY <1>1 DEF PlanNoTool, Active
    <2>2. CASE Stale
      <3>1. fsm # "SPEAKING"
        BY <2>1, <2>2 DEF Stale, Inv, CancelAgreesWithEpoch, SpeaksInBody
      <3>2. Leave(fsm, cancel, ledger) /\ UNCHANGED hpc
        BY <1>1, <2>2 DEF PlanNoTool, RestVars, actorVars
      <3> QED BY <3>1, <3>2, LeaveStopsSpeaking
    <2>3. CASE ~Stale
      BY <1>1, <2>1, <2>3, BodySpeaks DEF PlanNoTool, GoOn, sessionVars
    <2> QED BY <2>2, <2>3
  <1>2. CASE CallTool \/ ToolReturns
    <2>1. rpc \in {"start", "tool"} /\ Active /\ UNCHANGED RestVars
      BY <1>2 DEF CallTool, ToolReturns, Active
    <2>2. CASE Fail
      BY <2>1, <2>2, FailStopsSpeaking
    <2>3. CASE ~Fail
      <3>1. rpc' \in {"tool", "reason"} /\ fsm' \in {"THINKING", "TOOL_WAIT"}
            /\ UNCHANGED <<cancel, invalid>>
        BY <1>2, <2>3 DEF CallTool, ToolReturns
      <3> QED BY <2>1, <3>1, BodySpeaks
    <2> QED BY <2>2, <2>3
  <1>3. CASE ToolFails
    <2>1. CASE fsm = "TOOL_WAIT"
      <3>1. Leave("THINKING", cancel, ledger) /\ UNCHANGED hpc
        BY <1>3, <2>1 DEF ToolFails, RestVars, actorVars
      <3> QED BY <3>1, LeaveStopsSpeaking
    <2>2. CASE fsm # "TOOL_WAIT"
      BY <1>3, <2>2, FailStopsSpeaking DEF ToolFails
    <2> QED BY <2>1, <2>2
  <1>4. ASSUME Active, rpc # "finally", UNCHANGED RestVars,
               \/ Fail \/ Drain
               \/ \E n \in {0, 1} : OpenStream(n)
               \/ \E point \in {"reason", "tts", "capacity"} : GoOn(point)
        PROVE  SpeaksInBody'
    BY <1>4, FailStopsSpeaking, DrainSpeaks, BodySpeaks DEF OpenStream, GoOn, sessionVars
  <1>5. CASE ReasonerYields \/ ReasonerEnds \/ ReasonerFails
    BY <1>4, <1>5 DEF ReasonerYields, ReasonerEnds, ReasonerFails, Active
  <1>6. ASSUME NEW c \in Chunks, SynthesizerYields(c) \/ CapacityFreed(c)
        PROVE  SpeaksInBody'
    BY <1>4, <1>6, TakeChunkSpeaks DEF SynthesizerYields, CapacityFreed, Active
  <1>7. CASE StreamEnds \/ StreamFails
    BY <1>4, <1>7 DEF StreamEnds, StreamFails, Active
  <1>8. CASE Gathered
    BY <1>8, FailStopsSpeaking, CompleteStopsSpeaking DEF Gathered
  <1>9. CASE Finally
    BY <1>9 DEF Finally, Finish, SpeaksInBody, Active, RestVars, actorVars
  <1> QED BY <1>1, <1>2, <1>3, <1>5, <1>6, <1>7, <1>8, <1>9 DEF RunResponse

\* The response task, its playback and the microphone move no handler.
LEMMA TasksKeepAlone ==
    ASSUME Inv, AloneInv,
           \/ RunResponse
           \/ \E c \in Chunks : Playback(c)
           \/ SpeechOnset
           \/ UNCHANGED vars
    PROVE  AloneInv'
  <1> USE DEF AloneInv
  <1>1. UNCHANGED <<resp, actorVars, lost, endVars>>
    BY DEF RunResponse, PlanNoTool, CallTool, ToolReturns, ToolFails, ReasonerYields,
           ReasonerEnds, ReasonerFails, SynthesizerYields, CapacityFreed, StreamEnds,
           StreamFails, Gathered, Finally, Fail, Drain, Complete, GoOn, OpenStream, TakeChunk,
           Playback, PlayBegins, PlayStarts, PlayTimesOut, PlayStops, SpeechOnset,
           vars, BesidesAudio, sessionVars, RestVars
  <1>2. SoleHandler' /\ FollowupsAreTaken'
    BY <1>1 DEF SoleHandler, FollowupsAreTaken, actorVars, endVars
  <1>3. SpeaksInBody'
    <2>1. CASE RunResponse
      BY <2>1, RunResponseSpeaks
    <2>2. CASE UNCHANGED <<sessionVars, taskVars, actorVars>>
      BY <2>2 DEF SpeaksInBody, Active, sessionVars, taskVars, actorVars
    <2>3. UNCHANGED <<sessionVars, taskVars, actorVars>> \/ RunResponse
      BY DEF Playback, PlayBegins, PlayStarts, PlayTimesOut, PlayStops, SpeechOnset,
             vars, BesidesAudio, RestVars
    <2> QED BY <2>1, <2>2, <2>3
  <1> QED BY <1>2, <1>3

\* A step that drops no turn.
LEMMA NothingDropped ==
    ASSUME FollowupsAreTaken, lost' = NotLost \/ lost' = lost
    PROVE  FollowupsAreTaken'
  <1>1. CASE lost' = NotLost
    <2>1. lost'[2] = FALSE
      BY <1>1 DEF NotLost
    <2> QED BY <2>1 DEF FollowupsAreTaken
  <1>2. CASE lost' = lost
    BY <1>2 DEF FollowupsAreTaken
  <1> QED BY <1>1, <1>2

\* An interruption moves its actor to wait for the response that speaks.
LEMMA InterruptKeepsAlone ==
    ASSUME TypeOK, AloneInv, NEW a \in Actors, NEW turn \in BOOLEAN, Interrupt(a, turn),
           turn => a = "input", hpc[a] # "gone",
           lost' = NotLost \/ UNCHANGED lost, killed' = killed
    PROVE  AloneInv'
  <1> USE DEF AloneInv
  <1>1. /\ hpc' = [hpc EXCEPT ![a] = "awaitStop"]
        /\ hnext' = [hnext EXCEPT ![a] = turn]
        /\ hwait' = [hwait EXCEPT ![a] = resp]
        /\ UNCHANGED <<resp, rpc>> /\ Active
    BY DEF Interrupt, Waits, sessionVars, taskVars
  <1>2. SoleHandler'
    BY <1>1 DEF SoleHandler, TypeOK, Actors
  <1>3. SpeaksInBody'
    <2>1. /\ fsm' = IF cancel THEN fsm ELSE StateOnInterrupt
          /\ cancel' /\ (invalid' \/ (cancel /\ invalid' = invalid))
      BY DEF Interrupt, sessionVars
    <2>2. fsm' = "IDLE" => hpc["input"] = "gone"
      BY <2>1 DEF SpeaksInBody, StateOnInterrupt
    <2>3. hpc["input"] = "gone" => hpc'["input"] = "gone"
      BY <1>1 DEF TypeOK, Actors
    <2>4. fsm' # "SPEAKING"
      BY <2>1 DEF SpeaksInBody, StateOnInterrupt, PlaybackStates
    <2> QED BY <1>1, <2>1, <2>2, <2>3, <2>4 DEF SpeaksInBody, StateOnInterrupt, Active
  <1>4. FollowupsAreTaken'
    BY NothingDropped
  <1> QED BY <1>2, <1>3, <1>4

\* The input loop takes a turn once nothing speaks any more.
LEMMA TakeTurnKeepsAlone ==
    ASSUME TypeOK, Inv, AloneInv, NEW followup \in BOOLEAN, TakeTurn(followup),
           followup => ~Active, hpc["input"] # "gone",
           hpc' = [hpc EXCEPT !["input"] = "idle"],
           hwait' = hwait \/ hwait' = [hwait EXCEPT !["input"] = 0],
           hnext' = hnext \/ hnext' = [hnext EXCEPT !["input"] = FALSE],
           killed' = killed
    PROVE  AloneInv'
  <1> USE DEF AloneInv
  <1>1. hpc'["input"] = "idle" /\ \A a \in Actors \ {"input"} : hpc'[a] = hpc[a] /\ hnext'[a] = hnext[a]
    BY DEF TypeOK, Actors
  <1>2. SoleHandler'
    BY <1>1 DEF SoleHandler, Actors
  <1>3. CASE ~Active /\ fsm = "LISTENING"
    <2>1. fsm' = "THINKING" /\ cancel' = FALSE /\ lost' = NotLost
      BY <1>3 DEF TakeTurn, Begin
    <2>2. SpeaksInBody'
      BY <2>1 DEF SpeaksInBody
    <2> QED BY <1>2, <2>1, <2>2, NothingDropped
  <1>4. CASE ~(~Active /\ fsm = "LISTENING")
    <2>1. lost' = <<fsm, followup>> /\ UNCHANGED <<fsm, cancel, invalid, rpc>>
      BY <1>4 DEF TakeTurn, sessionVars, taskVars
    <2>2. SpeaksInBody'
      BY <1>1, <2>1 DEF SpeaksInBody, Active
    <2>3. followup => fsm = "HANDOFF"
      BY <1>4 DEF SpeaksInBody, SoleHandler, Inv, StateLedOut, Active
    <2>4. FollowupsAreTaken'
      BY <2>1, <2>3 DEF FollowupsAreTaken
    <2> QED BY <1>2, <2>2, <2>4
  <1> QED BY <1>3, <1>4

\* A step that only moves handlers on, none of them to or from the end.
LEMMA WaitKeepsAlone ==
    ASSUME TypeOK, AloneInv, NEW a \in Actors, NEW point \in ActorPoint, NEW turn \in BOOLEAN,
           Waits(a, point, resp, turn) \/ Waits(a, point, 0, turn),
           a = "control" => point # "awaitEnd",
           a = "input" => /\ hpc[a] # "gone"
                          /\ point = "awaitEnd" => hwait'[a] = resp,
           turn => a = "input",
           UNCHANGED <<sessionVars, taskVars, killed>>, lost' = NotLost \/ UNCHANGED lost
    PROVE  AloneInv'
  <1> USE DEF AloneInv
  <1>1. /\ hpc'[a] = point /\ hnext'[a] = turn
        /\ \A b \in Actors \ {a} : hpc'[b] = hpc[b] /\ hnext'[b] = hnext[b] /\ hwait'[b] = hwait[b]
    BY DEF Waits, TypeOK
  <1>2. UNCHANGED <<fsm, resp, cancel, invalid, rpc>>
    BY DEF sessionVars, taskVars
  <1>3. SoleHandler'
    BY <1>1, <1>2 DEF SoleHandler, Actors
  <1>4. SpeaksInBody'
    BY <1>1, <1>2 DEF SpeaksInBody, Active, Actors
  <1>5. FollowupsAreTaken'
    BY NothingDropped
  <1> QED BY <1>3, <1>4, <1>5

\* The handler is never awaiting a task that was cancelled.
LEMMA ResumeTakes ==
    ASSUME AloneInv, NEW h, NEW r, NEW followup, Resume(h, r, followup)
    PROVE  Waits(h, "idle", 0, FALSE) /\ TakeTurn(followup)
  BY DEF AloneInv, SoleHandler, Resume

LEMMA HearKeepsAlone ==
    ASSUME Handlers = {"input"}, TypeOK, Inv, AloneInv, Hear
    PROVE  AloneInv'
  <1>1. CASE HearTurn("input")
    <2>1. hpc["input"] = "idle" /\ killed' = killed
      BY <1>1 DEF HearTurn, Hears, endVars
    <2>2. CASE Active /\ fsm = "THINKING"
      BY <1>1, <2>1, <2>2, InterruptKeepsAlone DEF HearTurn, Actors
    <2>3. CASE ~(Active /\ fsm = "THINKING")
      <3>1. TakeTurn(FALSE) /\ UNCHANGED <<hpc, hwait, hnext>>
        BY <1>1, <2>3 DEF HearTurn, actorVars
      <3>2. hpc' = [hpc EXCEPT !["input"] = "idle"]
        BY <2>1, <3>1 DEF TypeOK
      <3> QED BY <2>1, <3>1, <3>2, TakeTurnKeepsAlone
    <2> QED BY <2>2, <2>3
  <1>2. ASSUME NEW acoustic \in BOOLEAN, NEW turn \in BOOLEAN,
               HearInterruption("input", acoustic, turn)
        PROVE  AloneInv'
    <2>1. hpc["input"] = "idle" /\ killed' = killed
      BY <1>2 DEF HearInterruption, Hears, endVars
    <2>2. CASE Active
      BY <1>2, <2>1, <2>2, InterruptKeepsAlone DEF HearInterruption, Actors
    <2>3. CASE ~Active
      <3>1. Waits("input", "idle", 0, FALSE) /\ TakeTurn(FALSE)
        BY <1>2, <2>3, ResumeTakes DEF HearInterruption
      <3> QED BY <2>1, <3>1, TakeTurnKeepsAlone DEF Waits
    <2> QED BY <2>2, <2>3
  <1>3. \A acoustic \in BOOLEAN : ~HearBackground(acoustic)
    BY DEF HearBackground, Hears
  <1> QED BY <1>1, <1>2, <1>3 DEF Hear

LEMMA WakeKeepsAlone ==
    ASSUME Handlers = {"input"}, TypeOK, Inv, AloneInv, NEW a \in Actors, Wake(a)
    PROVE  AloneInv'
  <1> USE DEF AloneInv
  <1>1. killed' = killed /\ hpc[a] # "gone"
    BY DEF Wake, WakeAfterStop, WakeAfterEnd, endVars
  <1>2. CASE WakeAfterStop(a)
    <2>1. hnext[a] => a = "input"
      BY DEF SoleHandler
    <2>2. CASE hnext[a] /\ Active
      BY <1>1, <1>2, <2>1, <2>2, WaitKeepsAlone DEF WakeAfterStop, Waits, ActorPoint, TypeOK
    <2>3. CASE hnext[a] /\ ~Active
      <3>1. Waits("input", "idle", 0, FALSE) /\ TakeTurn(TRUE)
        BY <1>2, <2>1, <2>3, ResumeTakes DEF WakeAfterStop
      <3> QED BY <1>1, <2>1, <2>3, <3>1, TakeTurnKeepsAlone DEF Waits
    <2>4. CASE ~hnext[a]
      BY <1>1, <1>2, <2>4, WaitKeepsAlone DEF WakeAfterStop, ActorPoint
    <2> QED BY <2>2, <2>3, <2>4
  <1>3. CASE WakeAfterEnd(a)
    <2>1. a = "input" /\ hwait[a] = resp /\ ~Active
      BY <1>3 DEF WakeAfterEnd, SoleHandler, Ended
    <2>2. Waits("input", "idle", 0, FALSE) /\ TakeTurn(TRUE)
      BY <1>3, <2>1, ResumeTakes DEF WakeAfterEnd
    <2> QED BY <1>1, <2>1, <2>2, TakeTurnKeepsAlone DEF Waits
  <1> QED BY <1>2, <1>3 DEF Wake

LEMMA CloseKeepsAlone ==
    ASSUME TypeOK, AloneInv, HangUp \/ Close
    PROVE  AloneInv'
  <1> USE DEF AloneInv
  <1>1. CASE HangUp
    <2>1. UNCHANGED <<sessionVars, taskVars, killed, lost>>
      BY <1>1 DEF HangUp, SoleHandler
    <2>2. SoleHandler'
      BY <1>1, <2>1 DEF HangUp, SoleHandler, TypeOK, Actors, sessionVars
    <2>3. hpc'["input"] = hpc["input"]
      BY <1>1 DEF HangUp, TypeOK, Actors
    <2> QED BY <2>1, <2>2, <2>3
            DEF SpeaksInBody, FollowupsAreTaken, Active, sessionVars, taskVars
  <1>2. CASE CloseBegins
    <2>1. CASE Active
      BY <1>2, <2>1, InterruptKeepsAlone DEF CloseBegins, Actors, endVars
    <2>2. CASE ~Active
      BY <1>2, <2>2, WaitKeepsAlone DEF CloseBegins, Actors, ActorPoint, endVars
    <2> QED BY <2>1, <2>2
  <1>3. CASE CloseWaits
    BY <1>3, WaitKeepsAlone DEF CloseWaits, Actors, ActorPoint, endVars
  <1>4. CASE CloseGate
    BY <1>4, WaitKeepsAlone DEF CloseGate, Actors, ActorPoint
  <1>5. CASE CloseEnds
    BY <1>5 DEF CloseEnds, SoleHandler, SpeaksInBody, FollowupsAreTaken, TypeOK, Actors,
                taskVars, endVars, Active
  <1> QED BY <1>1, <1>2, <1>3, <1>4, <1>5 DEF Close

\* One handler keeps AloneInv, whatever the other tasks do meanwhile.
LEMMA AloneStep ==
    ASSUME Handlers = {"input"}, TypeOK, Inv, AloneInv, [Next]_vars
    PROVE  AloneInv'
  <1>1. CASE PressInterrupt
    BY <1>1, InterruptKeepsAlone DEF PressInterrupt, Actors, endVars
  <1>2. CASE SustainedTakeover
    BY <1>2, InterruptKeepsAlone DEF SustainedTakeover, Actors, endVars
  <1> QED BY <1>1, <1>2, TasksKeepAlone, HearKeepsAlone, WakeKeepsAlone, CloseKeepsAlone DEF Next

THEOREM AloneInvariant ==
    ASSUME Handlers = {"input"}
    PROVE  Spec => []AloneInv
  <1>1. Init => AloneInv
    BY DEF Init, AloneInv, SoleHandler, SpeaksInBody, FollowupsAreTaken, NotLost, Active, Actors
  <1>2. TypeOK /\ Inv /\ AloneInv /\ [Next]_vars => AloneInv'
    BY AloneStep
  <1> QED BY <1>1, <1>2, TypeCorrect, Invariant, PTL DEF Spec

\* Without diagnostic transcripts the assistant is never taken to be speaking
\* when no response runs: nothing else would lead out of that state.
THEOREM NoSpeechWithoutResponse ==
    ASSUME Handlers = {"input"}
    PROVE  Spec => []SpeakingHasResponse
  <1>1. AloneInv => SpeakingHasResponse
    BY DEF AloneInv, SpeaksInBody, SpeakingHasResponse, PlaybackStates
  <1> QED BY <1>1, AloneInvariant, PTL

\* Nor is a turn dropped that interrupted the assistant, unless the session was
\* handed off when its audio could not be confirmed to have stopped.
THEOREM FollowupTaken ==
    ASSUME Handlers = {"input"}
    PROVE  Spec => []FollowupsAreTaken
  <1>1. AloneInv => FollowupsAreTaken
    BY DEF AloneInv
  <1> QED BY <1>1, AloneInvariant, PTL

=============================================================================

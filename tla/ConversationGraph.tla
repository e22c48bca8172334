------------------------- MODULE ConversationGraph -------------------------
(***************************************************************************)
(* The explicit lifecycle graph of one voice conversation                  *)
(* (controller/state_machine.py).  Every component that moves the state    *)
(* machine asks this graph first; an edge that is not in it raises         *)
(* InvalidTransition in the code.                                          *)
(***************************************************************************)

ConversationState ==
    {"IDLE", "LISTENING", "POSSIBLE_END_OF_TURN", "THINKING", "SPEAKING",
     "POSSIBLE_INTERRUPTION", "INTERRUPTED", "OVERLAP", "TOOL_WAIT",
     "RECOVERING", "HANDOFF", "DISCONNECTING", "FAILED"}

\* The successors of each state that are not the two exits every live state has.
Inward ==
    [s \in ConversationState |->
        CASE s = "IDLE"                  -> {"LISTENING"}
          [] s = "LISTENING"             -> {"POSSIBLE_END_OF_TURN", "THINKING", "OVERLAP"}
          [] s = "POSSIBLE_END_OF_TURN"  -> {"LISTENING", "THINKING"}
          [] s = "THINKING"              -> {"SPEAKING", "TOOL_WAIT", "LISTENING",
                                             "INTERRUPTED", "RECOVERING"}
          [] s = "SPEAKING"              -> {"POSSIBLE_INTERRUPTION", "INTERRUPTED",
                                             "OVERLAP", "LISTENING", "RECOVERING"}
          [] s = "POSSIBLE_INTERRUPTION" -> {"SPEAKING", "INTERRUPTED", "OVERLAP"}
          [] s = "INTERRUPTED"           -> {"LISTENING", "THINKING", "OVERLAP", "RECOVERING"}
          [] s = "OVERLAP"               -> {"LISTENING", "SPEAKING", "INTERRUPTED", "RECOVERING"}
          [] s = "TOOL_WAIT"             -> {"SPEAKING", "THINKING", "LISTENING", "RECOVERING"}
          [] s = "RECOVERING"            -> {"LISTENING", "THINKING", "SPEAKING", "HANDOFF"}
          [] s = "HANDOFF"               -> {"LISTENING"}
          [] s = "DISCONNECTING"         -> {"IDLE"}
          [] s = "FAILED"                -> {"RECOVERING", "HANDOFF"}]

AllowedTransitions ==
    [s \in ConversationState |->
        Inward[s] \union
        CASE s = "DISCONNECTING" -> {"FAILED"}
          [] s = "FAILED"        -> {"DISCONNECTING"}
          [] OTHER               -> {"DISCONNECTING", "FAILED"}]

\* transition() raises when the target is the source or no edge leads there.
CanGo(source, target) == target # source /\ target \in AllowedTransitions[source]

\* The states in which the session treats the assistant as audible.
PlaybackStates == {"SPEAKING", "POSSIBLE_INTERRUPTION", "OVERLAP"}
=============================================================================

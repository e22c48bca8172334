-------------------------- MODULE PlaybackContract --------------------------
(***************************************************************************)
(* What BrowserAcknowledgedAudioOutput promises to the session about each  *)
(* chunk: play() is entered once, its start and its end are reported in    *)
(* this order, it ends with one receipt or gives up, and a receipt never   *)
(* claims that more was heard than the listener heard.  The life of a      *)
(* chunk is the one the playback tasks of VoiceSession lead.               *)
(***************************************************************************)
CONSTANT Ids            \* the chunks

VARIABLES
    life,               \* per chunk: none, created, starting, sounding, ended, failed
    receipt,            \* per chunk: what its receipt says was heard
    heard               \* per chunk: what the listener heard

contractVars == <<life, receipt, heard>>

\* How much of a chunk can be heard, and claimed.
AtLeast(much, little) ==
    \/ little = "nothing"
    \/ little = "part" /\ much # "nothing"
    \/ little = "all"  /\ much = "all"

ContractInit ==
    /\ life    = [i \in Ids |-> "none"]
    /\ receipt = [i \in Ids |-> "none"]
    /\ heard   = [i \in Ids |-> "nothing"]

Move(i, before, after) == life[i] = before /\ life' = [life EXCEPT ![i] = after]

Hears(i) ==
    /\ life[i] # "none"
    /\ \E h \in {"part", "all"} : AtLeast(h, heard[i]) /\ heard' = [heard EXCEPT ![i] = h]
    /\ UNCHANGED <<life, receipt>>

Creates(i) == Move(i, "none", "created") /\ UNCHANGED <<receipt, heard>>

Sends(i) == Move(i, "created", "starting") /\ UNCHANGED <<receipt, heard>>

Starts(i) == Move(i, "starting", "sounding") /\ UNCHANGED <<receipt, heard>>

\* A chunk of an invalidated response is never sent.
Refuses(i) ==
    /\ Move(i, "created", "ended")
    /\ receipt' = [receipt EXCEPT ![i] = "nothing"]
    /\ UNCHANGED heard

Ends(i) ==
    /\ Move(i, "sounding", "ended")
    /\ \E h \in {"nothing", "part", "all"} :
          AtLeast(heard[i], h) /\ receipt' = [receipt EXCEPT ![i] = h]
    /\ UNCHANGED heard

GivesUp(i) ==
    /\ \/ Move(i, "starting", "failed")
       \/ Move(i, "sounding", "failed")
    /\ UNCHANGED <<receipt, heard>>

ContractNext ==
    \E i \in Ids : \/ Hears(i) \/ Creates(i) \/ Sends(i) \/ Starts(i)
                   \/ Refuses(i) \/ Ends(i) \/ GivesUp(i)

ContractSpec == ContractInit /\ [][ContractNext]_contractVars
=============================================================================

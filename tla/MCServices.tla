----------------------------- MODULE MCServices -----------------------------
(* TLC instance of five components that share no state with one another:   *)
(* in each behaviour one of them, chosen at the start, takes all the steps.*)
EXTENDS EngineeringHarness, VoiceInput, SoftYield, ResponseStream, CostLedger

VARIABLE part

servicesVars ==
    <<part, harnessVars, inputVars, softYieldVars, streamVars, costVars>>

ServicesInit ==
    /\ part \in {"engineering", "input", "yield", "stream", "cost"}
    /\ HarnessInit /\ InputInit /\ YieldInit /\ StreamInit /\ CostInit

ServicesNext ==
    /\ UNCHANGED part
    /\ \/ /\ part = "engineering" /\ HarnessNext
          /\ UNCHANGED <<inputVars, softYieldVars, streamVars, costVars>>
       \/ /\ part = "input" /\ InputNext
          /\ UNCHANGED <<harnessVars, softYieldVars, streamVars, costVars>>
       \/ /\ part = "yield" /\ YieldNext
          /\ UNCHANGED <<harnessVars, inputVars, streamVars, costVars>>
       \/ /\ part = "stream" /\ StreamNext
          /\ UNCHANGED <<harnessVars, inputVars, softYieldVars, costVars>>
       \/ /\ part = "cost" /\ CostNext
          /\ UNCHANGED <<harnessVars, inputVars, softYieldVars, streamVars>>

ServicesSpec == ServicesInit /\ [][ServicesNext]_servicesVars

\* Every component's variables have their types, and its own bookkeeping agrees.
ServicesTypeOK == HarnessTypeOK /\ InputTypeOK /\ YieldTypeOK /\ StreamTypeOK /\ CostTypeOK

-----------------------------------------------------------------------------
(* Engineering: two tasks about two problems that may run together, and a  *)
(* third about the second one's problem whose paths overlap with both.     *)

MCProblemOf == [t \in Task |-> IF t = 1 THEN "p" ELSE "q"]
MCRank == [t \in Task |-> IF t = 1 THEN 2 ELSE IF t = 2 THEN 1 ELSE 3]
MCDependencies == [t \in Task |-> {}]
MCAllowedPaths ==
    [t \in Task |-> IF t = 1 THEN {<<"src", "a">>}
                   ELSE IF t = 2 THEN {<<"src", "b", "**">>, <<"a", "x*">>} ELSE {<<"src", "**">>}]
MCProtectedPaths == [t \in Task |-> {<<"tests", "golden", "**">>}]
MCWild == {"**", "x*"}
MCFits == [wild \in MCWild |-> IF wild = "**" THEN {"src", "a", "b", "x", "y"} ELSE {"x"}]
\* In the scope of the first and third task, out of the second one's for its
\* second path; the first one the second task's glob takes from outside its prefix.
MCChanges == {{<<"src", "a", "x">>, <<"src", "a", "y">>}}

\* Only the first task is tried again; main moves, the tag moves, the process
\* dies or the task has its last try, but only one of them.
FewDisturbances ==
    /\ \A t \in Task \ {1} : att[t].n <= 1
    /\ main + crashes + (IF tag THEN 0 ELSE 1) + (IF att[1].n = MaxIterations THEN 1 ELSE 0) <= 1
    /\ batch = MaxBatches => main = 0 /\ tag

-----------------------------------------------------------------------------
(* Input: two connections, the second of which only asks for the lease.    *)

MCTexts == [n \in 1 .. 2 |-> IF n = 1 THEN {"short", "long"} ELSE {"short"}]

Departures ==
    <<now > heard, sent > 0 \/ voice # "silent", scribe.failed \/ scribe.up = "gone",
      scribe.partials > 0 /\ (voice = "silent" \/ heard > 1),
      \E c \in Conn : link[c] \in {"ending", "closing", "stopping"}>>

\* At most one departure from plain dictation: gaps in the audio, typed text or
\* a speaking assistant, a failed transcriber, partials (early ones go with a
\* speaking assistant), a connection that ends.
OneDeparture ==
    /\ link["b"] \in {"new", "refused"} \/ (~bound /\ sent = 0)
    /\ Cardinality({i \in DOMAIN Departures : Departures[i]}) <= 1
    /\ (\E i \in 1 .. 5 : Departures[i]) => scribe.finals <= 1 /\ heard <= 3
    /\ heard > 0 => sent <= 1

-----------------------------------------------------------------------------
(* Cost: a rule that was replaced, one that is inactive, one in another      *)
(* currency than the budget's, one without a rate.                           *)

Rule(service, valid, since, rate, eur) ==
    [service |-> service, active |-> valid, since |-> since, rate |-> rate, eur |-> eur]

MCRules ==
    {Rule("TTS", TRUE, 1, 2, FALSE), Rule("TTS", TRUE, 2, 4, TRUE),
     Rule("FALLBACK_TTS", TRUE, 1, 3, FALSE), Rule("LLM", FALSE, 1, 8, FALSE),
     Rule("TOOL", TRUE, 1, 0, TRUE)}

Bounded == FewDisturbances /\ OneDeparture
=============================================================================

--------------------------- MODULE ServicesProofs ---------------------------
(* The five components that share no state, side by side: what is proved of *)
(* each of them alone holds of it here, whatever the others do.             *)
EXTENDS MCServices, EngineeringProofs, VoiceInputProofs, SpeechProofs, CostLedgerProofs

\* A step of one component leaves the variables of the others alone.
LEMMA ServicesStep ==
    [ServicesNext]_servicesVars
      => /\ [HarnessNext]_harnessVars
         /\ [InputNext]_inputVars
         /\ [YieldNext]_softYieldVars
         /\ [StreamNext]_streamVars
         /\ [CostNext]_costVars
<1> SUFFICES ASSUME [ServicesNext]_servicesVars
             PROVE  /\ [HarnessNext]_harnessVars
                    /\ [InputNext]_inputVars
                    /\ [YieldNext]_softYieldVars
                    /\ [StreamNext]_streamVars
                    /\ [CostNext]_costVars
  OBVIOUS
<1>1. CASE UNCHANGED servicesVars
  BY <1>1 DEF servicesVars
<1>2. CASE ServicesNext
  BY <1>2 DEF ServicesNext
<1> QED BY <1>1, <1>2

\* Each component behaves here as it does alone: the engineering tasks, the
\* voice input, the yielding to a speaker, the stream of a response and the cost
\* ledger share no state in the code either.
THEOREM ServicesAreTheComponents ==
    ServicesSpec => HarnessSpec /\ InputSpec /\ YieldSpec /\ StreamSpec /\ CostSpec
<1>1. ServicesInit => HarnessInit /\ InputInit /\ YieldInit /\ StreamInit /\ CostInit
  BY DEF ServicesInit
<1> QED BY <1>1, ServicesStep, PTL
        DEF ServicesSpec, HarnessSpec, InputSpec, YieldSpec, StreamSpec, CostSpec

\* Every variable of the five components has its type and their own bookkeeping
\* agrees, in every state that they reach side by side.
THEOREM ServicesTypes == ServicesSpec => []ServicesTypeOK
BY ServicesAreTheComponents, HarnessTypes, InputTypes, YieldTypes, StreamTypes, CostTypes, PTL
   DEF ServicesTypeOK
=============================================================================

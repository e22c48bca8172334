--------------------------- MODULE VoiceInputProofs ---------------------------
(* For any connections, queue, texts and bounds: the lease comes back, every *)
(* frame the gate heard reaches the transcriber in order, no final is        *)
(* handled twice, and no two claim the same speech.                          *)
EXTENDS VoiceInput, Integers, SequenceTheorems, WellFoundedInduction, TLAPS

-----------------------------------------------------------------------------
(* The lease. *)

Links == {"new", "setup", "open", "ending", "closing", "stopping", "closed", "lost", "refused"}
LeaseInv == link \in [Conn -> Links] /\ LeaseIsReturned

\* Steps that neither connect nor end a connection keep the lease where it is.
LEMMA LeaseKept ==
    ASSUME LeaseInv, UNCHANGED <<link, lease>>
    PROVE  LeaseInv'
BY DEF LeaseInv, LeaseIsReturned

\* A connection that holds the lease goes on holding it.
LEMMA LeaseHeld ==
    ASSUME LeaseInv, NEW c \in Conn,
           NEW to \in {"setup", "open", "ending", "closing", "stopping", "lost"},
           link' = [link EXCEPT ![c] = to], lease' = c, lease \in {c, NoConn}
    PROVE  LeaseInv'
BY ConnAssumption DEF LeaseInv, LeaseIsReturned, Links

\* The lease goes back from the one that has it.
LEMMA LeaseGoesBack ==
    ASSUME LeaseInv, NEW c \in Conn, lease = c, GoesBack(c)
    PROVE  LeaseInv'
BY ConnAssumption DEF LeaseInv, LeaseIsReturned, Links, GoesBack

\* What ends, served or set up, has the lease.
LEMMA HolderHasIt ==
    ASSUME LeaseInv, NEW c \in Conn,
           link[c] \in {"setup", "open", "ending", "closing", "stopping", "lost"}
    PROVE  lease = c
BY DEF LeaseInv, LeaseIsReturned

LEMMA LeaseStep == LeaseInv /\ [InputNext]_inputVars => LeaseInv'
<1> SUFFICES ASSUME LeaseInv, [InputNext]_inputVars PROVE LeaseInv'
  OBVIOUS
<1>1. ASSUME NEW c \in Conn, Connect(c) PROVE LeaseInv'
  <2>1. CASE lease = NoConn /\ lease' = c /\ link' = [link EXCEPT ![c] = "setup"]
    BY <2>1, LeaseHeld
  <2>2. CASE lease # NoConn /\ link' = [link EXCEPT ![c] = "refused"] /\ UNCHANGED lease
    BY <1>1, <2>2 DEF Connect, LeaseInv, LeaseIsReturned, Links
  <2> QED BY <1>1, <2>1, <2>2 DEF Connect
<1>2. ASSUME NEW c \in Conn, SetUp(c) PROVE LeaseInv'
  <2>1. lease = c /\ lease' = c
    BY <1>2, HolderHasIt DEF SetUp
  <2>2. PICK to \in {"open", "lost"} : link' = [link EXCEPT ![c] = to]
    BY <1>2 DEF SetUp
  <2> QED BY <2>1, <2>2, LeaseHeld
<1>3. ASSUME NEW c \in Conn, NEW level \in Levels, Receive(c, level) PROVE LeaseInv'
  <2>1. lease = c /\ lease' = c
    BY <1>3, HolderHasIt DEF Receive, Serves
  <2>2. link' = link \/ link' = [link EXCEPT ![c] = "ending"]
    BY <1>3 DEF Receive
  <2> QED BY <2>1, <2>2, LeaseHeld, LeaseKept
<1>4. ASSUME NEW c \in Conn, Disconnect(c) PROVE LeaseInv'
  <2>1. lease = c /\ lease' = c /\ link' = [link EXCEPT ![c] = "ending"]
    BY <1>4, HolderHasIt DEF Disconnect, Serves
  <2> QED BY <2>1, LeaseHeld
<1>5. ASSUME NEW c \in Conn, EndSession(c) PROVE LeaseInv'
  <2>1. lease = c
    BY <1>5, HolderHasIt DEF EndSession
  <2>2. CASE GoesBack(c)
    BY <2>1, <2>2, LeaseGoesBack
  <2>3. CASE link' = [link EXCEPT ![c] = "closing"] /\ lease' = lease
    BY <2>1, <2>3, LeaseHeld
  <2> QED BY <1>5, <2>2, <2>3 DEF EndSession
<1>6. ASSUME NEW c \in Conn, StopLoop(c) PROVE LeaseInv'
  <2>1. lease = c /\ lease' = c /\ link' = [link EXCEPT ![c] = "stopping"]
    BY <1>6, HolderHasIt DEF StopLoop
  <2> QED BY <2>1, LeaseHeld
<1>7. ASSUME NEW c \in Conn, ReleaseLease(c) PROVE LeaseInv'
  BY <1>7, HolderHasIt, LeaseGoesBack DEF ReleaseLease
<1>8. ASSUME NEW c \in Conn, BindSource(c) \/ Gap(c) \/ SendControl(c) PROVE LeaseInv'
  BY <1>8, LeaseKept DEF BindSource, Gap, SendControl, webVars
<1>9. CASE InputLoop
  BY <1>9, LeaseKept
     DEF InputLoop, TakeFrame, ConnectScribe, AwaitReady, DrainUpdates, Delivered, AcceptUpdate,
         Reassess, Handled, LoopRests, webVars
<1>10. CASE SessionStarted \/ PartialArrives \/ FinalArrives \/ ScribeFails \/ AssistantSpeaks
  BY <1>10, LeaseKept
     DEF SessionStarted, PartialArrives, FinalArrives, ScribeFails, AssistantSpeaks, ScribeRests,
         webVars
<1>11. CASE TakeControl \/ ControlDone
  BY <1>11, LeaseKept DEF TakeControl, ControlDone
<1>12. CASE UNCHANGED inputVars
  BY <1>12, LeaseKept DEF inputVars, webVars
<1> QED
  BY <1>1, <1>2, <1>3, <1>4, <1>5, <1>6, <1>7, <1>8, <1>9, <1>10, <1>11, <1>12 DEF InputNext

\* The lease belongs to the connection that is served, and to nobody after it.
THEOREM LeaseComesBack == InputSpec => []LeaseIsReturned
<1>1. InputInit => LeaseInv
  BY ConnAssumption DEF InputInit, LeaseInv, LeaseIsReturned, Links
<1>2. LeaseInv => LeaseIsReturned
  BY DEF LeaseInv
<1> QED BY <1>1, <1>2, LeaseStep, PTL DEF InputSpec

-----------------------------------------------------------------------------
(* Finals. *)

IsSeq(s) == \E S : s \in Seq(S)

\* Finals are numbered as the transcriber commits them.
FinalsNumbered(s) ==
    \A i \in DOMAIN s : s[i].final => \E k \in 1 .. scribe.finals : s[i].id = <<"stt", k>>

Shapes ==
    /\ loop = [pc |-> loop.pc, frame |-> loop.frame, ups |-> loop.ups]
    /\ scribe = [up |-> scribe.up, failed |-> scribe.failed, last |-> scribe.last,
                 partial |-> scribe.partial, committed |-> scribe.committed,
                 partials |-> scribe.partials, finals |-> scribe.finals]
    /\ scribe.finals \in Nat

Sequences ==
    IsSeq(loop.ups) /\ IsSeq(scribe.partial) /\ IsSeq(scribe.committed) /\ IsSeq(turns)

\* The loop has updates only while it delivers them.
Delivering ==
    /\ loop.pc \notin {"deliver", "sleep", "handling"} => loop.ups = <<>>
    /\ loop.pc \in {"sleep", "handling"} => loop.ups # <<>>

\* What waits, in the transcriber and in the loop, has the transcriber's own ids.
Waiting ==
    /\ \A i \in DOMAIN scribe.partial : ~scribe.partial[i].final
    /\ FinalsNumbered(loop.ups) /\ FinalsNumbered(scribe.committed)

\* Whatever became a turn was entered.
Entered == \A i \in DOMAIN turns : turns[i].id \in seen

\* The final that sleeps was not entered when it fell asleep: what has its id now
\* is one turn, which was typed.
Asleep ==
    loop.pc = "sleep" /\ Head(loop.ups).id \in seen =>
        \E i \in DOMAIN turns : Handed(Head(loop.ups).id) = {i} /\ turns[i].how = "typed"

OnceInv == Shapes /\ Sequences /\ Delivering /\ Waiting /\ Entered /\ Asleep

\* Sequences, whatever their elements are.
LEMMA AppendIsSeq ==
    ASSUME NEW s, IsSeq(s), NEW e
    PROVE  /\ IsSeq(Append(s, e)) /\ DOMAIN s = 1 .. Len(s) /\ Len(s) \in Nat
           /\ DOMAIN Append(s, e) = 1 .. Len(s) + 1
           /\ Append(s, e)[Len(s) + 1] = e
           /\ \A i \in 1 .. Len(s) : Append(s, e)[i] = s[i]
<1>1. PICK S : s \in Seq(S)
  BY DEF IsSeq
<1>2. s \in Seq(S \cup {e})
  BY <1>1, SeqMonotonic
<1>3. Append(s, e) \in Seq(S \cup {e})
  BY <1>2
<1> QED BY <1>2, <1>3 DEF IsSeq

LEMMA TailIsSeq ==
    ASSUME NEW s, IsSeq(s), s # <<>>
    PROVE  /\ IsSeq(Tail(s)) /\ Len(s) \in Nat \ {0} /\ DOMAIN s = 1 .. Len(s) /\ Head(s) = s[1]
           /\ DOMAIN Tail(s) = 1 .. (Len(s) - 1)
           /\ \A i \in 1 .. (Len(s) - 1) : Tail(s)[i] = s[i + 1]
<1>1. PICK S : s \in Seq(S)
  BY DEF IsSeq
<1>2. Tail(s) \in Seq(S) /\ Len(s) \in Nat \ {0} /\ DOMAIN s = 1 .. Len(s)
  BY <1>1
<1> QED BY <1>1, <1>2 DEF IsSeq

LEMMA ConcatIsSeq ==
    ASSUME NEW s, NEW t, IsSeq(s), IsSeq(t)
    PROVE  /\ IsSeq(s \o t) /\ Len(s) \in Nat /\ Len(t) \in Nat
           /\ DOMAIN s = 1 .. Len(s) /\ DOMAIN t = 1 .. Len(t)
           /\ DOMAIN (s \o t) = 1 .. (Len(s) + Len(t))
           /\ \A i \in 1 .. Len(s) : (s \o t)[i] = s[i]
           /\ \A i \in Len(s) + 1 .. Len(s) + Len(t) : (s \o t)[i] = t[i - Len(s)]
<1>1. PICK S : s \in Seq(S)
  BY DEF IsSeq
<1>2. PICK T : t \in Seq(T)
  BY DEF IsSeq
<1>3. s \in Seq(S \cup T) /\ t \in Seq(S \cup T)
  BY <1>1, <1>2, SeqMonotonic
<1>4. s \o t \in Seq(S \cup T)
  BY <1>3
<1>5. IsSeq(s \o t)
  BY <1>4 DEF IsSeq
<1> QED BY <1>3, <1>5, ConcatProperties

LEMMA EmptyIsSeq == IsSeq(<<>>) /\ DOMAIN <<>> = {}
<1>1. <<>> \in Seq({})
  OBVIOUS
<1> QED BY <1>1 DEF IsSeq

-----------------------------------------------------------------------------
(* The steps, as far as finals go. *)

onceVars == <<loop, scribe, seen, turns>>

LEMMA OnceKept ==
    ASSUME OnceInv, UNCHANGED onceVars
    PROVE  OnceInv'
BY DEF onceVars, OnceInv, Shapes, Sequences, Delivering, Waiting, Entered, Asleep, Handed,
       FinalsNumbered

\* A new session, or none.
LEMMA OnceFresh ==
    ASSUME OnceInv, FreshSession, loop' \in {IdleLoop, EndedLoop}
    PROVE  OnceInv'
<1>1. /\ loop' = [pc |-> loop'.pc, frame |-> loop'.frame, ups |-> loop'.ups]
      /\ loop'.ups = <<>> /\ loop'.pc \in {"get", "ended"}
  BY DEF IdleLoop, EndedLoop
<1>2. /\ scribe' = NewScribe /\ seen' = {} /\ turns' = <<>>
  BY DEF FreshSession
<1>3. Shapes'
  BY <1>1, <1>2 DEF Shapes, NewScribe
<1>4. Sequences'
  BY <1>1, <1>2, EmptyIsSeq DEF Sequences, NewScribe
<1>5. Delivering'
  BY <1>1 DEF Delivering
<1>6. Waiting'
  BY <1>1, <1>2, EmptyIsSeq DEF Waiting, NewScribe, FinalsNumbered
<1>7. Entered' /\ Asleep'
  BY <1>1, <1>2, EmptyIsSeq DEF Entered, Asleep
<1> QED BY <1>3, <1>4, <1>5, <1>6, <1>7 DEF OnceInv

\* The loop stops delivering; the transcriber's finals stay where they are.
LEMMA OnceEmptied ==
    ASSUME OnceInv, UNCHANGED <<seen, turns>>,
           loop' = [pc |-> loop'.pc, frame |-> loop'.frame, ups |-> <<>>],
           loop'.pc \notin {"sleep", "handling"},
           scribe' = [up |-> scribe'.up, failed |-> scribe'.failed, last |-> scribe'.last,
                      partial |-> scribe.partial, committed |-> scribe.committed,
                      partials |-> scribe'.partials, finals |-> scribe.finals]
    PROVE  OnceInv'
<1>1. /\ loop'.ups = <<>> /\ scribe'.partial = scribe.partial
      /\ scribe'.committed = scribe.committed /\ scribe'.finals = scribe.finals
  OBVIOUS
<1>2. Shapes'
  BY <1>1 DEF OnceInv, Shapes
<1>3. Sequences'
  BY <1>1, EmptyIsSeq DEF OnceInv, Sequences
<1>4. Delivering'
  BY <1>1 DEF Delivering
<1>5. Waiting'
  BY <1>1, EmptyIsSeq DEF OnceInv, Waiting, FinalsNumbered
<1>6. Entered' /\ Asleep'
  BY DEF OnceInv, Entered, Asleep
<1> QED BY <1>2, <1>3, <1>4, <1>5, <1>6 DEF OnceInv

LEMMA OnceStatus ==
    ASSUME OnceInv, UNCHANGED <<seen, turns, loop>>,
           scribe' = [up |-> scribe'.up, failed |-> scribe'.failed, last |-> scribe'.last,
                      partial |-> scribe.partial, committed |-> scribe.committed,
                      partials |-> scribe'.partials, finals |-> scribe.finals]
    PROVE  OnceInv'
<1>1. /\ scribe'.partial = scribe.partial /\ scribe'.committed = scribe.committed
      /\ scribe'.finals = scribe.finals
  OBVIOUS
<1>2. Shapes'
  BY <1>1 DEF OnceInv, Shapes
<1> QED
  BY <1>1, <1>2
     DEF OnceInv, Sequences, Delivering, Waiting, Entered, Asleep, Handed, FinalsNumbered

LEMMA LoopFailsKeeps ==
    ASSUME OnceInv, LoopFails, UNCHANGED <<scribe, seen, turns>>
    PROVE  OnceInv'
<1>1. loop' = [pc |-> "ended", frame |-> 0, ups |-> <<>>]
  BY DEF LoopFails, OnceInv, Shapes
<1> QED BY <1>1, OnceEmptied DEF OnceInv, Shapes

LEMMA TransportSteps ==
    ASSUME OnceInv, TakeFrame \/ ConnectScribe \/ AwaitReady \/ Delivered
    PROVE  OnceInv'
<1>1. UNCHANGED <<seen, turns>> /\ loop.ups = <<>>
  BY DEF TakeFrame, ConnectScribe, AwaitReady, Delivered, OnceInv, Delivering
<1>2. CASE LoopFails /\ UNCHANGED scribe
  BY <1>1, <1>2, LoopFailsKeeps
<1>3. ASSUME NEW pc \in {"ended", "connect", "sent", "wait", "get"},
             NEW frame, NEW last, NEW up,
             loop' = [pc |-> pc, frame |-> frame, ups |-> <<>>],
             scribe' = [scribe EXCEPT !.last = last] \/ scribe' = [scribe EXCEPT !.up = up]
               \/ UNCHANGED scribe
      PROVE  OnceInv'
  <2>1. loop'.pc = pc /\ loop' = [pc |-> loop'.pc, frame |-> loop'.frame, ups |-> <<>>]
    BY <1>3
  <2>2. scribe' = [up |-> scribe'.up, failed |-> scribe'.failed, last |-> scribe'.last,
                   partial |-> scribe.partial, committed |-> scribe.committed,
                   partials |-> scribe'.partials, finals |-> scribe.finals]
    BY <1>3 DEF OnceInv, Shapes
  <2> QED BY <1>1, <1>3, <2>1, <2>2, OnceEmptied
<1> DEFINE L(pc, frame) == [pc |-> pc, frame |-> frame, ups |-> <<>>]
<1>4. CASE TakeFrame
  <2>1. CASE loop' = [loop EXCEPT !.pc = "ended"] /\ UNCHANGED scribe
    <3>1. loop' = L("ended", loop.frame)
      BY <1>1, <2>1 DEF OnceInv, Shapes
    <3> QED BY <1>3, <2>1, <3>1
  <2>2. CASE loop' = [loop EXCEPT !.pc = "connect", !.frame = Head(inq)] /\ UNCHANGED scribe
    <3>1. loop' = L("connect", Head(inq))
      BY <1>1, <2>2 DEF OnceInv, Shapes
    <3> QED BY <1>3, <2>2, <3>1
  <2>3. CASE loop' = [loop EXCEPT !.pc = "sent"] /\ Transmit(Head(inq))
    <3>1. loop' = L("sent", loop.frame)
      BY <1>1, <2>3 DEF OnceInv, Shapes
    <3> QED BY <1>3, <2>3, <3>1 DEF Transmit
  <2> QED BY <1>2, <1>4, <2>1, <2>2, <2>3 DEF TakeFrame
<1>5. CASE ConnectScribe
  <2>1. CASE loop' = [loop EXCEPT !.pc = "wait"] /\ scribe' = [scribe EXCEPT !.up = "waiting"]
    <3>1. loop' = L("wait", loop.frame)
      BY <1>1, <2>1 DEF OnceInv, Shapes
    <3> QED BY <1>3, <2>1, <3>1
  <2> QED BY <1>2, <1>5, <2>1 DEF ConnectScribe
<1>6. CASE AwaitReady
  <2>1. CASE loop' = [loop EXCEPT !.pc = "sent", !.frame = 0] /\ Transmit(loop.frame)
    <3>1. loop' = L("sent", 0)
      BY <1>1, <2>1 DEF OnceInv, Shapes
    <3> QED BY <1>3, <2>1, <3>1 DEF Transmit
  <2> QED BY <1>2, <1>6, <2>1 DEF AwaitReady
<1>7. CASE Delivered
  <2>1. loop' = L("get", loop.frame) /\ UNCHANGED scribe
    BY <1>1, <1>7 DEF Delivered, OnceInv, Shapes
  <2> QED BY <1>3, <2>1
<1> QED BY <1>4, <1>5, <1>6, <1>7

\* The transcriber's updates become the loop's, the partial one before the finals.
LEMMA DrainKeeps ==
    ASSUME OnceInv, DrainUpdates
    PROVE  OnceInv'
<1>1. CASE LoopFails /\ UNCHANGED scribe
  BY <1>1, LoopFailsKeeps DEF DrainUpdates
<1>2. CASE /\ loop' = [loop EXCEPT !.pc = "deliver", !.ups = scribe.partial \o scribe.committed]
           /\ scribe' = [scribe EXCEPT !.partial = <<>>, !.committed = <<>>]
  <2> DEFINE p == scribe.partial  c == scribe.committed  u == p \o c
  <2>1. /\ loop' = [pc |-> "deliver", frame |-> loop.frame, ups |-> u]
        /\ scribe' = [up |-> scribe.up, failed |-> scribe.failed, last |-> scribe.last,
                      partial |-> <<>>, committed |-> <<>>,
                      partials |-> scribe.partials, finals |-> scribe.finals]
        /\ UNCHANGED <<seen, turns>>
    BY <1>2 DEF DrainUpdates, OnceInv, Shapes
  <2>2. IsSeq(p) /\ IsSeq(c)
    BY DEF OnceInv, Sequences
  <2>3. /\ IsSeq(u) /\ Len(p) \in Nat /\ Len(c) \in Nat
        /\ DOMAIN p = 1 .. Len(p) /\ DOMAIN c = 1 .. Len(c)
        /\ DOMAIN u = 1 .. (Len(p) + Len(c))
        /\ \A i \in 1 .. Len(p) : u[i] = p[i]
        /\ \A i \in Len(p) + 1 .. Len(p) + Len(c) : u[i] = c[i - Len(p)]
    BY <2>2, ConcatIsSeq
  <2> HIDE DEF u
  <2>4. \A i \in DOMAIN u : u[i].final =>
            /\ i - Len(p) \in DOMAIN c /\ u[i] = c[i - Len(p)]
    <3> SUFFICES ASSUME NEW i \in DOMAIN u, u[i].final
                 PROVE  i - Len(p) \in DOMAIN c /\ u[i] = c[i - Len(p)]
      OBVIOUS
    <3>1. i \notin 1 .. Len(p)
      BY <2>3 DEF OnceInv, Waiting
    <3>2. i \in 1 .. (Len(p) + Len(c)) /\ Len(p) \in Nat /\ Len(c) \in Nat
      BY <2>3
    <3> HIDE DEF p, c
    <3>3. i \in Len(p) + 1 .. Len(p) + Len(c) /\ i - Len(p) \in 1 .. Len(c)
      BY <3>1, <3>2
    <3> QED BY <2>3, <3>3
  <2>5. Shapes'
    BY <2>1 DEF OnceInv, Shapes
  <2>6. Sequences'
    BY <2>1, <2>3, EmptyIsSeq DEF OnceInv, Sequences
  <2>7. Delivering'
    BY <2>1 DEF Delivering
  <2>8. Waiting'
    <3>1. FinalsNumbered(loop.ups)'
      BY <2>1, <2>4 DEF OnceInv, Waiting, FinalsNumbered
    <3> QED BY <2>1, <3>1, EmptyIsSeq DEF Waiting, FinalsNumbered
  <2>9. Entered' /\ Asleep'
    BY <2>1 DEF OnceInv, Entered, Asleep
  <2> QED BY <2>5, <2>6, <2>7, <2>8, <2>9 DEF OnceInv
<1> QED BY <1>1, <1>2 DEF DrainUpdates

\* The update in hand goes on: it was handled, or refused and entered.
LEMMA NextKeeps ==
    ASSUME OnceInv, loop.ups # <<>>, NextUpdate, UNCHANGED <<scribe, turns>>,
           seen \subseteq seen'
    PROVE  OnceInv'
<1> DEFINE u == loop.ups  t == Tail(u)
<1>1. IsSeq(u)
  BY DEF OnceInv, Sequences
<1>2. /\ IsSeq(t) /\ Len(u) \in Nat \ {0} /\ DOMAIN u = 1 .. Len(u) /\ Head(u) = u[1]
      /\ DOMAIN t = 1 .. (Len(u) - 1)
      /\ \A i \in 1 .. (Len(u) - 1) : t[i] = u[i + 1]
  BY <1>1, TailIsSeq
<1>3. loop' = [pc |-> "deliver", frame |-> loop.frame, ups |-> t]
  BY DEF NextUpdate, OnceInv, Shapes
<1>4. 1 \in DOMAIN u /\ \A i \in DOMAIN t : i + 1 \in DOMAIN u /\ i + 1 # 1 /\ t[i] = u[i + 1]
  BY <1>2
<1> HIDE DEF t
<1>5. Shapes' /\ Sequences' /\ Delivering'
  BY <1>2, <1>3 DEF OnceInv, Shapes, Sequences, Delivering
<1>6. Waiting'
  <2>1. FinalsNumbered(loop.ups)'
    BY <1>3, <1>4 DEF OnceInv, Waiting, FinalsNumbered
  <2> QED BY <1>3, <2>1 DEF OnceInv, Waiting, FinalsNumbered
<1>7. Entered' /\ Asleep'
  BY <1>3 DEF OnceInv, Entered, Asleep
<1> QED BY <1>5, <1>6, <1>7 DEF OnceInv

\* A turn is entered as it is handed over; the turns before it stay what they were.
LEMMA TurnKeeps ==
    ASSUME OnceInv, NEW id, NEW how, NEW gen,
           turns' = Append(turns, [id |-> id, how |-> how, gen |-> gen]),
           seen' = seen \cup {id}
    PROVE  /\ Entered' /\ IsSeq(turns') /\ Len(turns) \in Nat /\ DOMAIN turns = 1 .. Len(turns)
           /\ Len(turns') = Len(turns) + 1 /\ DOMAIN turns' = DOMAIN turns \cup {Len(turns')}
           /\ turns'[Len(turns')] = [id |-> id, how |-> how, gen |-> gen]
           /\ \A i \in DOMAIN turns : turns'[i] = turns[i]
<1> DEFINE e == [id |-> id, how |-> how, gen |-> gen]
<1>1. IsSeq(turns)
  BY DEF OnceInv, Sequences
<1>2. e.id = id
  OBVIOUS
<1> HIDE DEF e
<1>3. /\ IsSeq(turns') /\ Len(turns) \in Nat /\ DOMAIN turns = 1 .. Len(turns)
      /\ DOMAIN turns' = 1 .. Len(turns) + 1 /\ turns'[Len(turns) + 1] = e
      /\ \A i \in 1 .. Len(turns) : turns'[i] = turns[i]
  BY <1>1, AppendIsSeq DEF e
<1>4. Len(turns') = Len(turns) + 1
  <2>1. DOMAIN turns' = 1 .. Len(turns') /\ Len(turns') \in Nat
    BY <1>3, AppendIsSeq
  <2>2. \A m, n \in Nat : 1 .. m = 1 .. n => m = n
    OBVIOUS
  <2> QED BY <1>3, <2>1, <2>2
<1>5. DOMAIN turns' = DOMAIN turns \cup {Len(turns')}
  BY <1>3, <1>4
<1>6. Entered'
  BY <1>2, <1>3, <1>4, <1>5 DEF OnceInv, Entered
<1> QED BY <1>3, <1>4, <1>5, <1>6 DEF e

\* The update in hand is handled from here on.
LEMMA HandleKeeps ==
    ASSUME OnceInv, loop.pc \in {"deliver", "sleep"}, loop.ups # <<>>, UNCHANGED scribe,
           NEW how, NEW gen, Take(Head(loop.ups), how, gen), Loop("handling")
    PROVE  OnceInv'
<1> DEFINE u == loop.ups
<1>1. IsSeq(u)
  BY DEF OnceInv, Sequences
<1>2. Head(u) = u[1] /\ 1 \in DOMAIN u /\ DOMAIN u = 1 .. Len(u) /\ Len(u) \in Nat
  BY <1>1, TailIsSeq
<1>3. loop' = [pc |-> "handling", frame |-> loop.frame, ups |-> u]
  BY DEF Loop, OnceInv, Shapes
<1>4. IsSeq(turns') /\ Entered'
  <2>1. CASE u[1].final
    <3>1. turns' = Append(turns, [id |-> u[1].id, how |-> how, gen |-> gen])
      BY <1>2, <2>1 DEF Take, Turn
    <3>2. seen' = seen \cup {u[1].id}
      BY <1>2, <2>1 DEF Take
    <3> QED BY <3>1, <3>2, TurnKeeps
  <2>2. CASE ~u[1].final
    <3>1. UNCHANGED <<turns, seen>>
      BY <1>2, <2>2 DEF Take
    <3> QED BY <3>1 DEF OnceInv, Entered, Sequences
  <2> QED BY <2>1, <2>2
<1>5. Shapes' /\ Sequences' /\ Delivering'
  BY <1>3, <1>4 DEF OnceInv, Shapes, Sequences, Delivering
<1>6. Waiting'
  BY <1>3 DEF OnceInv, Waiting, FinalsNumbered
<1>7. Asleep'
  BY <1>3 DEF Asleep
<1> QED BY <1>4, <1>5, <1>6, <1>7 DEF OnceInv

\* The gate's verdict, the first or the second one.
LEMMA DecideKeeps ==
    ASSUME OnceInv, loop.pc \in {"deliver", "sleep"}, loop.ups # <<>>, UNCHANGED scribe,
           NEW playing, NEW verdict, NEW again, Decide(Head(loop.ups), playing, verdict, again),
           again => Head(loop.ups).id \notin seen
    PROVE  OnceInv'
<1> DEFINE u == Head(loop.ups)
<1>1. CASE \E how, gen : Take(u, how, gen) /\ Loop("handling")
  BY <1>1, HandleKeeps
<1>2. CASE again /\ Loop("sleep") /\ UNCHANGED <<seen, turns>>
  <2>1. loop' = [pc |-> "sleep", frame |-> loop.frame, ups |-> loop.ups]
    BY <1>2 DEF Loop, OnceInv, Shapes
  <2> QED BY <1>2, <2>1
          DEF OnceInv, Shapes, Sequences, Delivering, Waiting, Entered, Asleep, FinalsNumbered
<1>3. CASE Reject(u) /\ NextUpdate
  BY <1>3, NextKeeps DEF Reject
<1> QED BY <1>1, <1>2, <1>3 DEF Decide

LEMMA AcceptKeeps ==
    ASSUME OnceInv, AcceptUpdate \/ Reassess \/ Handled
    PROVE  OnceInv'
<1> DEFINE u == Head(loop.ups)
<1>1. CASE AcceptUpdate
  <2>1. loop.pc = "deliver" /\ loop.ups # <<>> /\ UNCHANGED scribe
    BY <1>1 DEF AcceptUpdate
  <2>2. CASE LoopFails /\ UNCHANGED <<seen, turns>>
    BY <2>1, <2>2, LoopFailsKeeps
  <2>3. CASE u.id \notin seen /\ \E verdict \in Verdicts(u) : Decide(u, Playing, verdict, TRUE)
    BY <2>1, <2>3, DecideKeeps
  <2>4. CASE NextUpdate /\ (Reject(u) \/ UNCHANGED <<seen, turns>>)
    BY <2>1, <2>4, NextKeeps DEF Reject
  <2>5. CASE Take(u, "partial", 0) /\ Loop("handling")
    BY <2>1, <2>5, HandleKeeps
  <2> QED BY <1>1, <2>2, <2>3, <2>4, <2>5 DEF AcceptUpdate
<1>2. CASE Reassess
  <2>1. loop.pc = "sleep" /\ loop.ups # <<>> /\ UNCHANGED scribe
    BY <1>2 DEF Reassess, OnceInv, Delivering
  <2>2. Decide(u, FALSE, "clear", FALSE)
    BY <1>2 DEF Reassess
  <2> QED BY <2>1, <2>2, DecideKeeps
<1>3. CASE Handled
  <2>1. loop.ups # <<>> /\ UNCHANGED <<scribe, turns, seen>>
    BY <1>3 DEF Handled, OnceInv, Delivering
  <2> QED BY <1>3, <2>1, NextKeeps, LoopFailsKeeps DEF Handled
<1> QED BY <1>1, <1>2, <1>3

\* What the transcriber's provider sends.
LEMMA ScribeKeeps ==
    ASSUME OnceInv, SessionStarted \/ ScribeFails \/ PartialArrives \/ FinalArrives
    PROVE  OnceInv'
<1> USE DEF ScribeRests, loopVars
<1>1. CASE SessionStarted \/ ScribeFails
  <2>1. UNCHANGED <<seen, turns, loop>>
    BY <1>1 DEF SessionStarted, ScribeFails
  <2>2. scribe' = [up |-> scribe'.up, failed |-> scribe'.failed, last |-> scribe'.last,
                   partial |-> scribe.partial, committed |-> scribe.committed,
                   partials |-> scribe'.partials, finals |-> scribe.finals]
    BY <1>1 DEF SessionStarted, ScribeFails, OnceInv, Shapes
  <2> QED BY <2>1, <2>2, OnceStatus
<1>2. CASE PartialArrives
  <2>1. PICK text \in Text :
            scribe' = [scribe EXCEPT !.partials = @ + 1,
                                     !.partial = <<Update(scribe.partials + 1, FALSE, text)>>]
    BY <1>2 DEF PartialArrives
  <2> DEFINE e == Update(scribe.partials + 1, FALSE, text)
  <2>2. /\ UNCHANGED <<seen, turns, loop>>
        /\ scribe' = [up |-> scribe.up, failed |-> scribe.failed, last |-> scribe.last,
                      partial |-> <<e>>, committed |-> scribe.committed,
                      partials |-> scribe.partials + 1, finals |-> scribe.finals]
    BY <1>2, <2>1 DEF PartialArrives, OnceInv, Shapes
  <2>3. IsSeq(<<e>>) /\ DOMAIN <<e>> = {1} /\ <<e>>[1] = e /\ ~e.final
    <3>1. <<e>> \in Seq({e})
      OBVIOUS
    <3>2. DOMAIN <<e>> = {1} /\ <<e>>[1] = e
      OBVIOUS
    <3>3. ~e.final
      BY DEF Update
    <3> QED BY <3>1, <3>2, <3>3 DEF IsSeq
  <2> HIDE DEF e
  <2> QED BY <2>2, <2>3
          DEF OnceInv, Shapes, Sequences, Delivering, Waiting, Entered, Asleep, Handed,
              FinalsNumbered
<1>3. CASE FinalArrives
  <2>1. PICK text \in Texts[scribe.finals + 1] :
            scribe' = [scribe EXCEPT !.finals = @ + 1, !.partial = <<>>,
                          !.committed = Append(@, Update(scribe.finals + 1, TRUE, text))]
    BY <1>3 DEF FinalArrives
  <2> DEFINE c == scribe.committed  e == Update(scribe.finals + 1, TRUE, text)  d == Append(c, e)
  <2>2. /\ UNCHANGED <<seen, turns, loop>> /\ scribe.finals \in Nat
        /\ scribe' = [up |-> scribe.up, failed |-> scribe.failed, last |-> scribe.last,
                      partial |-> <<>>, committed |-> d,
                      partials |-> scribe.partials, finals |-> scribe.finals + 1]
    BY <1>3, <2>1 DEF FinalArrives, OnceInv, Shapes
  <2>3. IsSeq(c)
    BY DEF OnceInv, Sequences
  <2>4. /\ IsSeq(d) /\ DOMAIN c = 1 .. Len(c) /\ Len(c) \in Nat /\ DOMAIN d = 1 .. Len(c) + 1
        /\ d[Len(c) + 1] = e /\ \A i \in 1 .. Len(c) : d[i] = c[i]
    <3> HIDE DEF c, e
    <3> QED BY <2>3, AppendIsSeq
  <2>5. e.id = <<"stt", scribe.finals + 1>>
    BY DEF Update
  <2> HIDE DEF d, e
  <2>6. \A j \in DOMAIN d : j = Len(c) + 1 \/ (j \in DOMAIN c /\ d[j] = c[j])
    BY <2>4
  <2>7. \A n \in 1 .. scribe.finals : n \in 1 .. scribe.finals + 1
    BY <2>2
  <2>9. Shapes' /\ Sequences' /\ Delivering'
    BY <2>2, <2>4, EmptyIsSeq DEF OnceInv, Shapes, Sequences, Delivering
  <2>10. Waiting'
    <3>1. FinalsNumbered(loop.ups)'
      BY <2>2, <2>7 DEF OnceInv, Waiting, FinalsNumbered
    <3>2. FinalsNumbered(scribe.committed)'
      <4>1. scribe.finals + 1 \in 1 .. scribe.finals + 1
        BY <2>2
      <4> QED BY <2>2, <2>4, <2>5, <2>6, <2>7, <4>1 DEF OnceInv, Waiting, FinalsNumbered
    <3> QED BY <2>2, <3>1, <3>2, EmptyIsSeq DEF OnceInv, Waiting
  <2>11. Entered' /\ Asleep'
    BY <2>2 DEF OnceInv, Entered, Asleep, Handed
  <2> QED BY <2>9, <2>10, <2>11 DEF OnceInv
<1> QED BY <1>1, <1>2, <1>3

\* What is typed was not entered before; a final that sleeps meanwhile may have the
\* same id, and then it has it from this one turn.
LEMMA TypedKeeps ==
    ASSUME OnceInv, TakeControl
    PROVE  OnceInv'
<1> DEFINE m == Head(controls)  u == Head(loop.ups)
<1>1. UNCHANGED <<loop, scribe>>
  BY DEF TakeControl
<1>2. CASE UNCHANGED <<seen, turns>>
  BY <1>1, <1>2, OnceKept DEF onceVars
<1>3. CASE ~Rejected(m) /\ Take([id |-> m.id, final |-> TRUE, at |-> now], "typed", 0)
  <2>1. /\ turns' = Append(turns, [id |-> m.id, how |-> "typed", gen |-> 0])
        /\ seen' = seen \cup {m.id} /\ m.id \notin seen
    BY <1>3 DEF Take, Turn, Rejected
  <2> DEFINE l == Len(turns')
  <2>2. /\ Entered' /\ IsSeq(turns') /\ DOMAIN turns' = DOMAIN turns \cup {l} /\ l \notin DOMAIN turns
        /\ turns'[l].id = m.id /\ turns'[l].how = "typed"
        /\ \A i \in DOMAIN turns : turns'[i] = turns[i] /\ turns[i].id # m.id
    BY <2>1, TurnKeeps DEF OnceInv, Entered
  <2> HIDE DEF l, m
  <2>3. Asleep'
    <3> SUFFICES ASSUME loop.pc = "sleep", u.id \in seen'
                 PROVE  \E i \in DOMAIN turns' : Handed(u.id)' = {i} /\ turns'[i].how = "typed"
      BY <1>1 DEF Asleep
    <3> DEFINE id == u.id
    <3> HIDE DEF u
    <3>1. CASE id = m.id
      <4>1. Handed(id)' = {l}
        BY <1>1, <2>2, <3>1 DEF Handed, u
      <4> QED BY <2>2, <4>1
    <3>2. CASE id # m.id
      <4>1. PICK i \in DOMAIN turns : Handed(id) = {i} /\ turns[i].how = "typed"
        BY <2>1, <3>2 DEF OnceInv, Asleep, u
      <4>2. Handed(id)' = {i}
        BY <1>1, <2>2, <3>2, <4>1 DEF Handed, u
      <4> QED BY <2>2, <4>1, <4>2
    <3> QED BY <3>1, <3>2
  <2> QED BY <1>1, <2>2, <2>3
          DEF OnceInv, Shapes, Sequences, Delivering, Waiting, FinalsNumbered
<1> QED BY <1>2, <1>3 DEF TakeControl

LEMMA OnceStep == OnceInv /\ [InputNext]_inputVars => OnceInv'
<1> SUFFICES ASSUME OnceInv, [InputNext]_inputVars PROVE OnceInv'
  OBVIOUS
<1>1. ASSUME NEW c \in Conn, SetUp(c) \/ EndSession(c) \/ ReleaseLease(c) PROVE OnceInv'
  <2>1. UNCHANGED onceVars \/ (FreshSession /\ loop' \in {IdleLoop, EndedLoop})
    BY <1>1 DEF SetUp, EndSession, ReleaseLease, GoesBack, loopVars, onceVars
  <2> QED BY <2>1, OnceKept, OnceFresh
<1>2. ASSUME NEW c \in Conn, \/ Connect(c) \/ BindSource(c) \/ Gap(c) \/ SendControl(c)
                              \/ Disconnect(c) \/ StopLoop(c)
      PROVE  OnceInv'
  <2>1. UNCHANGED onceVars
    BY <1>2 DEF Connect, BindSource, Gap, SendControl, Disconnect, StopLoop, loopVars, onceVars
  <2> QED BY <2>1, OnceKept
<1>7. ASSUME NEW c \in Conn, NEW level \in Levels, Receive(c, level) PROVE OnceInv'
  BY <1>7, OnceKept DEF Receive, onceVars
<1>3. CASE InputLoop
  BY <1>3, TransportSteps, DrainKeeps, AcceptKeeps DEF InputLoop
<1>4. CASE SessionStarted \/ PartialArrives \/ FinalArrives \/ ScribeFails
  BY <1>4, ScribeKeeps
<1>5. CASE TakeControl
  BY <1>5, TypedKeeps
<1>6. CASE ControlDone \/ AssistantSpeaks \/ UNCHANGED inputVars
  <2>1. UNCHANGED onceVars
    BY <1>6 DEF ControlDone, AssistantSpeaks, inputVars, loopVars, onceVars
  <2> QED BY <2>1, OnceKept
<1> QED BY <1>1, <1>2, <1>3, <1>4, <1>5, <1>6, <1>7 DEF InputNext

LEMMA OnceInit == InputInit => OnceInv
BY EmptyIsSeq
   DEF InputInit, EndedLoop, IdleLoop, NewScribe, OnceInv, Shapes, Sequences, Delivering, Waiting,
       FinalsNumbered, Entered, Asleep

\* The one step that hands over the update in hand.
LEMMA HandOver ==
    ASSUME OnceInv, NEW u, NEW how, NEW gen, Take(u, how, gen), Len(turns') > Len(turns)
    PROVE  turns'[Len(turns')].id = u.id /\ turns'[Len(turns')].how = how
<1>1. turns' # turns
  <2>1. Len(turns) \in Nat
    BY AppendIsSeq DEF OnceInv, Sequences
  <2> QED BY <2>1
<1>2. /\ turns' = Append(turns, [id |-> u.id, how |-> how, gen |-> gen])
      /\ seen' = seen \cup {u.id}
  BY <1>1 DEF Take, Turn
<1>3. turns'[Len(turns')] = [id |-> u.id, how |-> how, gen |-> gen]
  BY <1>2, TurnKeeps
<1> QED BY <1>3

\* An id that was not entered has no turn.
LEMMA NoneHanded ==
    ASSUME OnceInv, NEW id, id \notin seen
    PROVE  Handed(id) = {}
BY DEF OnceInv, Entered, Handed

\* A final that becomes a turn was handled or refused before only when it slept
\* while the same id came in as typed text, whatever the transcriber, the client
\* and the loop do in between.
THEOREM FinalsOnce == InputSpec => FinalsHandledOnce
<1> DEFINE Once ==
        Len(turns') > Len(turns) =>
            LET t == turns'[Len(turns')]
            IN  (t.id \notin seen /\ Handed(t.id) = {}) \/ TakenWhileAsleep(t)
<1>1. OnceInv /\ [InputNext]_inputVars => [Once]_inputVars
  <2> SUFFICES ASSUME OnceInv, [InputNext]_inputVars, Len(turns') > Len(turns)
               PROVE  LET t == turns'[Len(turns')]
                      IN  (t.id \notin seen /\ Handed(t.id) = {}) \/ TakenWhileAsleep(t)
    OBVIOUS
  <2>1. IsSeq(turns) /\ Len(turns) \in Nat /\ turns' # turns /\ turns' # <<>>
    <3>1. IsSeq(turns)
      BY DEF OnceInv, Sequences
    <3>2. Len(turns) \in Nat
      BY <3>1, AppendIsSeq
    <3> QED BY <3>1, <3>2
  <2>2. ASSUME NEW u, NEW how, NEW gen, Take(u, how, gen), u.id \notin seen
        PROVE  turns'[Len(turns')].id \notin seen /\ Handed(turns'[Len(turns')].id) = {}
    <3>1. turns'[Len(turns')].id = u.id
      BY <2>2, HandOver
    <3> QED BY <2>2, <3>1, NoneHanded
  <2> DEFINE u == Head(loop.ups)
  <2>3. CASE AcceptUpdate
    <3>1. CASE u.id \notin seen /\ \E how, gen : Take(u, how, gen)
      BY <2>2, <3>1
    <3>2. ~(\E gen : Take(u, "partial", gen) /\ ~u.final)
      BY <2>1 DEF Take
    <3> QED BY <2>1, <2>3, <3>1, <3>2 DEF AcceptUpdate, Decide, Reject
  <2>4. CASE Reassess
    <3>1. loop.pc = "sleep" /\ Decide(u, FALSE, "clear", FALSE)
      BY <2>4 DEF Reassess
    <3>2. PICK how \in Admitted : Take(u, how, Associated(gate, u).gen)
      BY <2>1, <3>1 DEF Decide, Reject
    <3>3. CASE u.id \notin seen
      BY <2>2, <3>2, <3>3
    <3>4. CASE u.id \in seen
      <4> DEFINE t == turns'[Len(turns')]
      <4>1. t.id = u.id /\ t.how = how
        BY <3>2, HandOver
      <4> HIDE DEF t
      <4>2. TakenWhileAsleep(t)
        BY <3>1, <3>4, <4>1 DEF OnceInv, Asleep, TakenWhileAsleep
      <4> QED BY <4>2 DEF t
    <3> QED BY <3>3, <3>4
  <2>5. CASE TakeControl
    <3> DEFINE m == [id |-> Head(controls).id, final |-> TRUE, at |-> now]
    <3>1. m.id \notin seen /\ Take(m, "typed", 0)
      BY <2>1, <2>5 DEF TakeControl, Rejected
    <3> QED BY <2>2, <3>1
  <2>6. ASSUME NEW c \in Conn, \/ Connect(c) \/ SetUp(c) \/ BindSource(c) \/ Gap(c) \/ SendControl(c)
                                \/ Disconnect(c) \/ EndSession(c) \/ StopLoop(c) \/ ReleaseLease(c)
        PROVE  FALSE
    BY <2>1, <2>6 DEF Connect, SetUp, BindSource, Gap, SendControl, Disconnect, EndSession, StopLoop,
                      ReleaseLease, GoesBack, FreshSession, loopVars
  <2>7. ASSUME NEW c \in Conn, NEW level \in Levels, Receive(c, level) PROVE FALSE
    BY <2>1, <2>7 DEF Receive
  <2>8. ~(TakeFrame \/ ConnectScribe \/ AwaitReady \/ DrainUpdates \/ Delivered \/ Handled)
    BY <2>1 DEF TakeFrame, ConnectScribe, AwaitReady, DrainUpdates, Delivered, Handled
  <2>9. ~(\/ SessionStarted \/ PartialArrives \/ FinalArrives \/ ScribeFails \/ ControlDone
          \/ AssistantSpeaks \/ UNCHANGED inputVars)
    BY <2>1 DEF SessionStarted, PartialArrives, FinalArrives, ScribeFails, ScribeRests, ControlDone,
                AssistantSpeaks, inputVars, loopVars
  <2> QED BY <2>3, <2>4, <2>5, <2>6, <2>7, <2>8, <2>9 DEF InputNext, InputLoop
<1> QED BY <1>1, OnceInit, OnceStep, PTL DEF InputSpec, FinalsHandledOnce

-----------------------------------------------------------------------------
(* Frames.                                                                  *)

Serving == \E c \in Conn : Serves(c)

\* The frames of the queue follow the n-th, and end with the last one heard.
InOrder(n) ==
    /\ n + Len(inq) = heard
    /\ \A i \in 1 .. Len(inq) : inq[i] = n + i

\* While the session serves and its loop runs, a frame in the loop's hand is the
\* first one not transmitted, and those of the queue come after it.
Straight ==
    /\ heard \in Nat /\ seqno = heard /\ inq \in Seq(Nat)
    /\ scribe.last \in Nat /\ loop.frame \in Nat
    /\ loop.frame # 0 <=> loop.pc \in {"connect", "wait"}
    /\ loop.frame # 0 => loop.frame = scribe.last + 1
    /\ InOrder(IF loop.frame = 0 THEN scribe.last ELSE loop.frame)

FrameInv == Serving /\ loop.pc # "ended" => Straight

frameVars == <<link, heard, seqno, inq, loop, scribe>>

LEMMA FramesKept ==
    ASSUME FrameInv, Serving' => Serving, UNCHANGED <<heard, seqno, inq>>,
           loop'.pc \in {"connect", "wait"} <=> loop.pc \in {"connect", "wait"},
           loop.pc = "ended" => loop'.pc = "ended",
           loop'.frame = loop.frame, scribe'.last = scribe.last
    PROVE  FrameInv'
BY DEF FrameInv, Straight, InOrder

\* A loop that ends owes nothing.
LEMMA FramesDropped ==
    ASSUME loop'.pc = "ended" \/ ~Serving'
    PROVE  FrameInv'
BY DEF FrameInv

\* Only one connection is ever served.
LEMMA NobodyElse ==
    ASSUME LeaseInv, NEW c \in Conn, lease = c, NEW to \in Links, to # "open",
           link' = [link EXCEPT ![c] = to]
    PROVE  ~Serving'
BY DEF LeaseInv, LeaseIsReturned, Serving, Serves

\* Taking the first of consecutive numbers, and adding the next one.
LEMMA FirstTaken ==
    ASSUME NEW n \in Nat, NEW q \in Seq(Nat), q # <<>>, \A i \in 1 .. Len(q) : q[i] = n + i
    PROVE  /\ Head(q) = n + 1 /\ Tail(q) \in Seq(Nat) /\ Len(Tail(q)) = Len(q) - 1
           /\ \A i \in 1 .. Len(Tail(q)) : Tail(q)[i] = n + 1 + i
<1>1. /\ Len(q) \in Nat \ {0} /\ Head(q) = q[1] /\ Tail(q) \in Seq(Nat)
      /\ Len(Tail(q)) = Len(q) - 1
      /\ \A i \in 1 .. Len(Tail(q)) : Tail(q)[i] = q[i + 1]
  OBVIOUS
<1>2. ASSUME NEW i \in 1 .. Len(Tail(q)) PROVE Tail(q)[i] = n + 1 + i
  <2>1. i + 1 \in 1 .. Len(q)
    BY <1>1
  <2>2. q[i + 1] = n + (i + 1)
    BY <2>1
  <2> QED BY <1>1, <2>2
<1>3. Head(q) = n + 1
  <2>1. 1 \in 1 .. Len(q)
    BY <1>1
  <2> QED BY <1>1, <2>1
<1> QED BY <1>1, <1>2, <1>3

LEMMA LastAdded ==
    ASSUME NEW n \in Nat, NEW q \in Seq(Nat), NEW h \in Nat, n + Len(q) = h,
           \A i \in 1 .. Len(q) : q[i] = n + i
    PROVE  /\ Append(q, h + 1) \in Seq(Nat) /\ n + Len(Append(q, h + 1)) = h + 1
           /\ \A i \in 1 .. Len(Append(q, h + 1)) : Append(q, h + 1)[i] = n + i
<1> DEFINE r == Append(q, h + 1)
<1>1. /\ r \in Seq(Nat) /\ Len(q) \in Nat /\ Len(r) = Len(q) + 1
      /\ r[Len(q) + 1] = h + 1 /\ \A i \in 1 .. Len(q) : r[i] = q[i]
  OBVIOUS
<1> HIDE DEF r
<1>2. ASSUME NEW i \in 1 .. Len(r) PROVE r[i] = n + i
  <2>1. CASE i \in 1 .. Len(q)
    <3>1. r[i] = q[i] /\ q[i] = n + i
      BY <1>1, <2>1
    <3> QED BY <3>1
  <2>2. CASE i = Len(q) + 1
    <3>1. r[i] = h + 1
      BY <1>1, <2>2
    <3>2. n + i = h + 1
      BY <1>1, <2>2
    <3> QED BY <3>1, <3>2
  <2> QED BY <1>1, <2>1, <2>2
<1>3. n + Len(r) = h + 1
  BY <1>1
<1> QED BY <1>1, <1>2, <1>3 DEF r

LEMMA FirstPut ==
    ASSUME NEW n \in Nat, NEW q \in Seq(Nat), NEW f, f = n + 1,
           \A i \in 1 .. Len(q) : q[i] = f + i, NEW w, w = <<f>> \o q
    PROVE  /\ Len(w) = 1 + Len(q)
           /\ \A i \in DOMAIN w : w[i] = n + i
<1>1. f \in Nat /\ <<f>> \in Seq(Nat) /\ Len(<<f>>) = 1 /\ <<f>>[1] = f /\ Len(q) \in Nat
  OBVIOUS
<1>2. /\ Len(w) = 1 + Len(q) /\ w \in Seq(Nat) /\ DOMAIN w = 1 .. Len(w)
      /\ \A i \in 1 .. Len(w) : w[i] = IF i <= 1 THEN <<f>>[i] ELSE q[i - 1]
  BY <1>1, ConcatProperties
<1>3. ASSUME NEW i \in 1 .. Len(w) PROVE w[i] = n + i
  <2>1. CASE i = 1
    BY <1>1, <1>2, <2>1
  <2>2. CASE i # 1
    <3>1. i - 1 \in 1 .. Len(q) /\ w[i] = q[i - 1]
      BY <1>1, <1>2, <2>2
    <3>2. q[i - 1] = f + (i - 1)
      BY <3>1
    <3> QED BY <3>1, <3>2
  <2> QED BY <2>1, <2>2
<1> QED BY <1>2, <1>3

\* The first frame of the queue is the one that is due.
LEMMA NextFrame ==
    ASSUME Straight, inq # <<>>, loop.frame = 0
    PROVE  /\ Head(inq) = scribe.last + 1 /\ Head(inq) \in Nat \ {Stop}
           /\ Tail(inq) \in Seq(Nat)
           /\ scribe.last + 1 + Len(Tail(inq)) = heard
           /\ \A i \in 1 .. Len(Tail(inq)) : Tail(inq)[i] = scribe.last + 1 + i
<1> DEFINE n == scribe.last
<1>1. /\ inq \in Seq(Nat) /\ Len(inq) \in Nat /\ n \in Nat /\ n + Len(inq) = heard
      /\ \A i \in 1 .. Len(inq) : inq[i] = n + i
  BY DEF Straight, InOrder
<1> HIDE DEF n
<1>2. /\ Head(inq) = n + 1 /\ Tail(inq) \in Seq(Nat) /\ Len(Tail(inq)) = Len(inq) - 1
      /\ \A i \in 1 .. Len(Tail(inq)) : Tail(inq)[i] = n + 1 + i
  BY <1>1, FirstTaken
<1>3. n + 1 + Len(Tail(inq)) = heard /\ n + 1 \in Nat \ {Stop}
  BY <1>1, <1>2 DEF Stop
<1> QED BY <1>2, <1>3 DEF n

LEMMA ReceiveInOrder ==
    ASSUME LeaseInv, FrameInv, NEW c \in Conn, NEW level \in Levels, Receive(c, level)
    PROVE  FrameInv'
<1>1. CASE UNCHANGED <<link, heard, inq, seqno>>
  <2>1. UNCHANGED <<loop, scribe>>
    BY DEF Receive
  <2> QED BY <1>1, <2>1, FramesKept DEF Serving, Serves
<1>2. CASE link' = [link EXCEPT ![c] = "ending"]
  <2>1. lease = c
    BY HolderHasIt DEF Receive, Serves
  <2> QED BY <1>2, <2>1, NobodyElse, FramesDropped DEF Links
<1>3. CASE /\ loop.pc # "ended" /\ heard' = heard + 1 /\ UNCHANGED link
           /\ inq' = Append(inq, seqno + 1) /\ seqno' = seqno + 1
  <2>1. Straight
    BY <1>3 DEF Receive, FrameInv, Serving
  <2>2. UNCHANGED <<loop, scribe>>
    BY DEF Receive
  <2> DEFINE n == IF loop.frame = 0 THEN scribe.last ELSE loop.frame
  <2>3. n \in Nat /\ heard \in Nat /\ seqno = heard /\ inq \in Seq(Nat) /\ InOrder(n)
    BY <2>1 DEF Straight
  <2> HIDE DEF n
  <2>4. /\ inq' \in Seq(Nat) /\ n + Len(inq') = heard'
        /\ \A i \in 1 .. Len(inq') : inq'[i] = n + i
    <3>1. inq' = Append(inq, heard + 1) /\ heard' = heard + 1
      BY <1>3, <2>3
    <3>2. n + Len(inq) = heard /\ \A i \in 1 .. Len(inq) : inq[i] = n + i
      BY <2>3 DEF InOrder
    <3>3. /\ Append(inq, heard + 1) \in Seq(Nat) /\ n + Len(Append(inq, heard + 1)) = heard + 1
          /\ \A i \in 1 .. Len(Append(inq, heard + 1)) : Append(inq, heard + 1)[i] = n + i
      BY <2>3, <3>2, LastAdded
    <3> QED BY <3>1, <3>3
  <2>5. InOrder(n)'
    <3>1. n' = n
      BY <2>2 DEF n
    <3> QED BY <2>4, <3>1 DEF InOrder
  <2> QED BY <1>3, <2>1, <2>2, <2>3, <2>4, <2>5 DEF FrameInv, Straight, n
<1> QED BY <1>1, <1>2, <1>3 DEF Receive

LEMMA LoopInOrder ==
    ASSUME OnceInv, FrameInv, InputLoop
    PROVE  FrameInv'
<1>1. UNCHANGED <<link, heard, seqno>>
  BY DEF InputLoop, TakeFrame, ConnectScribe, AwaitReady, DrainUpdates, Delivered, AcceptUpdate,
         Reassess, Handled, LoopRests, webVars
<1>2. Serving' <=> Serving
  BY <1>1 DEF Serving, Serves
<1>3. Shapes
  BY DEF OnceInv
<1>4. CASE LoopFails
  <2>1. loop'.pc = "ended"
    BY <1>3, <1>4 DEF LoopFails, Shapes
  <2> QED BY <2>1, FramesDropped
<1>5. CASE /\ UNCHANGED inq /\ scribe'.last = scribe.last /\ loop'.frame = loop.frame
           /\ loop.pc \notin {"connect", "wait", "ended"}
           /\ loop'.pc \notin {"connect", "wait"}
  BY <1>1, <1>2, <1>5, FramesKept
<1>6. CASE TakeFrame /\ ~LoopFails
  <2>1. loop.pc = "get" /\ inq # <<>>
    BY <1>6 DEF TakeFrame
  <2> SUFFICES ASSUME Serving, loop'.pc # "ended" PROVE Straight'
    BY <1>2 DEF FrameInv
  <2>2. Straight /\ loop.frame = 0
    BY <2>1 DEF FrameInv, Straight
  <2>3. /\ Head(inq) = scribe.last + 1 /\ Head(inq) \in Nat \ {Stop}
        /\ Tail(inq) \in Seq(Nat)
        /\ scribe.last + 1 + Len(Tail(inq)) = heard
        /\ \A i \in 1 .. Len(Tail(inq)) : Tail(inq)[i] = scribe.last + 1 + i
    BY <2>1, <2>2, NextFrame
  <2>4. inq' = Tail(inq)
    BY <1>6, <2>3 DEF TakeFrame
  <2>5. /\ heard \in Nat /\ seqno = heard /\ scribe.last \in Nat
    BY <2>2 DEF Straight
  <2>6. CASE loop' = [loop EXCEPT !.pc = "connect", !.frame = Head(inq)] /\ UNCHANGED scribe
    <3>1. loop'.pc = "connect" /\ loop'.frame = Head(inq)
      BY <1>3, <2>6 DEF Shapes
    <3>2. loop'.frame # 0 /\ loop'.frame = scribe.last + 1 /\ loop'.frame \in Nat
      BY <2>3, <2>5, <3>1 DEF Stop
    <3> QED BY <1>1, <2>3, <2>4, <2>5, <2>6, <3>1, <3>2 DEF Straight, InOrder
  <2>7. CASE loop' = [loop EXCEPT !.pc = "sent"] /\ Transmit(Head(inq))
    <3>1. loop'.pc = "sent" /\ loop'.frame = 0 /\ scribe'.last = scribe.last + 1
      BY <1>3, <2>2, <2>3, <2>7 DEF Shapes, Transmit
    <3> QED BY <1>1, <2>3, <2>4, <2>5, <3>1 DEF Straight, InOrder
  <2> QED BY <1>6, <2>3, <2>6, <2>7 DEF TakeFrame
<1>7. CASE ConnectScribe /\ ~LoopFails
  <2>1. /\ loop.pc = "connect" /\ loop'.pc = "wait" /\ loop'.frame = loop.frame
        /\ scribe'.last = scribe.last /\ UNCHANGED inq
    BY <1>3, <1>7 DEF ConnectScribe, Shapes
  <2> QED BY <1>1, <1>2, <2>1, FramesKept
<1>8. CASE AwaitReady /\ ~LoopFails
  <2>1. /\ loop.pc = "wait" /\ loop'.pc = "sent" /\ loop'.frame = 0
        /\ scribe'.last = loop.frame /\ UNCHANGED inq
    BY <1>3, <1>8 DEF AwaitReady, Transmit, Shapes
  <2> QED BY <1>1, <1>2, <2>1 DEF FrameInv, Straight, InOrder
<1>9. CASE (DrainUpdates \/ Delivered) /\ ~LoopFails
  <2>1. /\ loop.pc \in {"sent", "deliver"} /\ loop'.pc \in {"deliver", "get"}
        /\ loop'.frame = loop.frame /\ scribe'.last = scribe.last /\ UNCHANGED inq
    BY <1>3, <1>9 DEF DrainUpdates, Delivered, Shapes
  <2> QED BY <1>5, <2>1
<1>10. CASE (AcceptUpdate \/ Reassess \/ Handled) /\ ~LoopFails
  <2>1. /\ loop.pc \in {"deliver", "sleep", "handling"} /\ UNCHANGED <<inq, scribe>>
    BY <1>10 DEF AcceptUpdate, Reassess, Handled
  <2>2. NextUpdate \/ Loop("sleep") \/ Loop("handling")
    BY <1>10 DEF AcceptUpdate, Reassess, Handled, Decide
  <2>3. loop'.pc \in {"deliver", "sleep", "handling"} /\ loop'.frame = loop.frame
    BY <1>3, <2>2 DEF NextUpdate, Loop, Shapes
  <2> QED BY <1>5, <2>1, <2>3
<1> QED BY <1>4, <1>6, <1>7, <1>8, <1>9, <1>10 DEF InputLoop

LEMMA FrameStep == LeaseInv /\ OnceInv /\ FrameInv /\ [InputNext]_inputVars => FrameInv'
<1> SUFFICES ASSUME LeaseInv, OnceInv, FrameInv, [InputNext]_inputVars PROVE FrameInv'
  OBVIOUS
<1>1. CASE UNCHANGED <<heard, seqno, inq, loop, scribe>> /\ (Serving' => Serving)
  BY <1>1, FramesKept
<1>2. CASE UNCHANGED frameVars
  BY <1>1, <1>2 DEF frameVars, Serving, Serves
<1>3. ASSUME NEW c \in Conn, Connect(c) PROVE FrameInv'
  <2>1. Serving' => Serving
    BY <1>3 DEF Connect, Serving, Serves, LeaseInv
  <2> QED BY <1>1, <1>3, <2>1 DEF Connect
<1>4. ASSUME NEW c \in Conn, SetUp(c) PROVE FrameInv'
  <2>1. CASE FreshSession /\ loop' = IdleLoop
    <3>1. /\ heard' = 0 /\ seqno' = 0 /\ inq' = <<>> /\ scribe'.last = 0
          /\ loop'.frame = 0 /\ loop'.pc = "get"
      BY <2>1 DEF FreshSession, IdleLoop, NewScribe
    <3> QED BY <3>1 DEF FrameInv, Straight, InOrder
  <2>2. CASE UNCHANGED <<heard, seqno, inq, loop, scribe>> /\ link' = [link EXCEPT ![c] = "lost"]
    <3>1. lease = c
      BY <1>4, HolderHasIt DEF SetUp
    <3> QED BY <2>2, <3>1, NobodyElse, FramesDropped DEF Links
  <2> QED BY <1>4, <2>1, <2>2 DEF SetUp
<1>5. ASSUME NEW c \in Conn, \/ Disconnect(c) \/ EndSession(c) \/ StopLoop(c) \/ ReleaseLease(c)
      PROVE  FrameInv'
  <2>1. lease = c
    BY <1>5, HolderHasIt DEF Disconnect, EndSession, StopLoop, ReleaseLease, Serves
  <2>2. PICK to \in {"ending", "closing", "stopping", "closed"} : link' = [link EXCEPT ![c] = to]
    BY <1>5 DEF Disconnect, EndSession, StopLoop, ReleaseLease, GoesBack
  <2> QED BY <2>1, <2>2, NobodyElse, FramesDropped DEF Links
<1>6. ASSUME NEW c \in Conn, BindSource(c) \/ Gap(c) \/ SendControl(c) PROVE FrameInv'
  BY <1>2, <1>6 DEF BindSource, Gap, SendControl, webVars, loopVars, frameVars
<1>7. ASSUME NEW c \in Conn, NEW level \in Levels, Receive(c, level) PROVE FrameInv'
  BY <1>7, ReceiveInOrder
<1>8. CASE InputLoop
  BY <1>8, LoopInOrder
<1>9. CASE SessionStarted \/ PartialArrives \/ FinalArrives \/ ScribeFails
  <2>1. UNCHANGED <<link, heard, seqno, inq, loop>>
    <3>1. UNCHANGED ScribeRests
      BY <1>9 DEF SessionStarted, PartialArrives, FinalArrives, ScribeFails
    <3> QED BY <3>1 DEF ScribeRests, webVars, loopVars
  <2>2. scribe'.last = scribe.last
    <3>1. CASE SessionStarted \/ ScribeFails
      BY <1>9, <3>1 DEF SessionStarted, ScribeFails, OnceInv, Shapes
    <3>2. CASE PartialArrives
      <4>1. PICK n, p : scribe' = [scribe EXCEPT !.partials = n, !.partial = p]
        BY <3>2 DEF PartialArrives
      <4> QED BY <4>1 DEF OnceInv, Shapes
    <3>3. CASE FinalArrives
      <4>1. PICK n, p, c :
                scribe' = [scribe EXCEPT !.finals = n, !.partial = p, !.committed = c]
        BY <3>3 DEF FinalArrives
      <4> QED BY <4>1 DEF OnceInv, Shapes
    <3> QED BY <1>9, <3>1, <3>2, <3>3
  <2> QED BY <2>1, <2>2, FramesKept DEF Serving, Serves
<1>10. CASE TakeControl \/ ControlDone \/ AssistantSpeaks \/ UNCHANGED inputVars
  BY <1>2, <1>10
     DEF TakeControl, ControlDone, AssistantSpeaks, webVars, loopVars, inputVars, frameVars
<1> QED
  BY <1>3, <1>4, <1>5, <1>6, <1>7, <1>8, <1>9, <1>10 DEF InputNext

\* While the connection and the pipeline are up, every frame that the gate has
\* heard was transmitted or waits for it, in order, for any queue and clients.
THEOREM FramesArrive == InputSpec => []FramesReachTranscriber
<1>1. InputInit => LeaseInv
  BY ConnAssumption DEF InputInit, LeaseInv, LeaseIsReturned, Links
<1>2. InputInit => OnceInv
  BY OnceInit
<1>3. InputInit => FrameInv
  BY DEF InputInit, FrameInv, EndedLoop, IdleLoop
<1>4. FrameInv => FramesReachTranscriber
  <2> SUFFICES ASSUME Straight PROVE
        LET waiting == (IF loop.frame = 0 THEN <<>> ELSE <<loop.frame>>) \o inq
        IN  /\ scribe.last + Len(waiting) = heard
            /\ \A i \in DOMAIN waiting : waiting[i] = scribe.last + i
    BY DEF FrameInv, FramesReachTranscriber, Serving
  <2>1. CASE loop.frame = 0
    <3>1. <<>> \o inq = inq /\ DOMAIN inq = 1 .. Len(inq)
      BY DEF Straight
    <3> QED BY <2>1, <3>1 DEF Straight, InOrder
  <2>2. CASE loop.frame # 0
    <3> DEFINE f == loop.frame  n == scribe.last
    <3>1. /\ inq \in Seq(Nat) /\ f = n + 1 /\ n \in Nat /\ Len(inq) \in Nat
          /\ f + Len(inq) = heard /\ \A i \in 1 .. Len(inq) : inq[i] = f + i
      BY <2>2 DEF Straight, InOrder
    <3> DEFINE w == (IF f = 0 THEN <<>> ELSE <<f>>) \o inq
    <3>2. w = <<f>> \o inq
      BY <2>2
    <3> HIDE DEF f, n, w
    <3>3. Len(w) = 1 + Len(inq) /\ \A i \in DOMAIN w : w[i] = n + i
      BY <3>1, <3>2, FirstPut
    <3>4. n + Len(w) = heard
      BY <3>1, <3>3
    <3> QED BY <3>3, <3>4 DEF f, n, w
  <2> QED BY <2>1, <2>2
<1> QED BY <1>1, <1>2, <1>3, <1>4, LeaseStep, OnceStep, FrameStep, PTL DEF InputSpec

-----------------------------------------------------------------------------
(* The gate.                                                                *)

\* A set of numbers that is not empty has a least one.
LEMMA LeastIndex ==
    ASSUME NEW I \in SUBSET Nat, I # {}
    PROVE  \E x \in I : \A y \in I : x <= y
<1> DEFINE R == {p \in Nat \X Nat : p[1] < p[2]}
<1>1. IsWellFoundedOn(R, Nat)
  BY NatLessThanWellFounded DEF OpToRel
<1>2. \A x, y \in Nat : <<y, x>> \notin R => x <= y
  OBVIOUS
<1> HIDE DEF R
<1>3. \E x \in I : \A y \in I : ~ (<<y, x>> \in R)
  BY <1>1, WFMin
<1> QED BY <1>2, <1>3

\* What the proofs look at of an episode, and what a step may not change of it.
Recorded(e) == {"gen", "start", "claim"} \subseteq DOMAIN e /\ e.start \in Nat
Same(d, e) == Recorded(d) /\ d.gen = e.gen /\ d.start = e.start /\ d.claim = e.claim

\* The episodes of a gate are different ones, and nobody has claimed the active one.
GateInv(g) ==
    /\ g = [episodes |-> g.episodes, active |-> g.active, quiet |-> g.quiet, gen |-> g.gen]
    /\ g.gen \in Nat /\ IsSeq(g.episodes) /\ Len(g.episodes) <= MaxEpisodes
    /\ \A k \in DOMAIN g.episodes : Recorded(g.episodes[k]) /\ g.episodes[k].gen \in 1 .. g.gen
    /\ \A k, l \in DOMAIN g.episodes : g.episodes[k].gen = g.episodes[l].gen => k = l
    /\ g.active # NoEpisode =>
          /\ Recorded(g.active) /\ g.active.gen = g.gen /\ g.gen # 0 /\ g.active.claim = NoClaim
          /\ \A k \in DOMAIN g.episodes : g.episodes[k].gen # g.gen

\* The n-th episode is the one of this final, if the gate still has it.
Settled(g, n, id) ==
    /\ n \in 1 .. g.gen
    /\ \A k \in DOMAIN g.episodes : g.episodes[k].gen = n => g.episodes[k].claim = id
    /\ g.active # NoEpisode => g.active.gen # n

\* From gate to gate, what is settled stays so.
Keeps(g, h) == GateInv(h) /\ \A n, id : Settled(g, n, id) => Settled(h, n, id)

\* A pushed episode is the last one, behind all the old ones or all but the first.
LEMMA PushIsSeq ==
    ASSUME NEW s, IsSeq(s), NEW e, NEW t, t = Push(s, e)
    PROVE  /\ IsSeq(t) /\ Len(t) \in Nat \ {0} /\ DOMAIN t = 1 .. Len(t) /\ t[Len(t)] = e
           /\ \E d \in {0, 1} : \A k \in 1 .. Len(t) - 1 : k + d \in DOMAIN s /\ t[k] = s[k + d]
           /\ Len(s) <= MaxEpisodes => Len(t) <= MaxEpisodes
<1>1. Len(s) \in Nat /\ DOMAIN s = 1 .. Len(s)
  BY AppendIsSeq
<1>2. MaxEpisodes \in Nat \ {0}
  BY AdmissionConstants
<1>3. CASE Len(s) < MaxEpisodes
  <2>1. t = Append(s, e)
    BY <1>3 DEF Push
  <2>2. /\ IsSeq(t) /\ DOMAIN t = 1 .. Len(s) + 1 /\ t[Len(s) + 1] = e
        /\ \A i \in 1 .. Len(s) : t[i] = s[i]
    BY <2>1, AppendIsSeq
  <2>3. Len(t) = Len(s) + 1
    <3>1. Len(t) \in Nat /\ DOMAIN t = 1 .. Len(t)
      BY <2>2, AppendIsSeq
    <3> QED BY <1>1, <2>2, <3>1
  <2>4. \A k \in 1 .. Len(t) - 1 : k + 0 \in DOMAIN s /\ t[k] = s[k + 0]
    BY <1>1, <2>2, <2>3
  <2> QED BY <1>1, <1>2, <1>3, <2>2, <2>3, <2>4
<1>4. CASE ~(Len(s) < MaxEpisodes)
  <2>1. s # <<>>
    BY <1>1, <1>2, <1>4
  <2> DEFINE r == Tail(s)
  <2>2. /\ IsSeq(r) /\ Len(s) \in Nat \ {0} /\ DOMAIN r = 1 .. (Len(s) - 1)
        /\ \A i \in 1 .. (Len(s) - 1) : r[i] = s[i + 1]
    BY <2>1, TailIsSeq
  <2>3. t = Append(r, e)
    BY <1>4 DEF Push
  <2> HIDE DEF r
  <2>4. /\ IsSeq(t) /\ DOMAIN r = 1 .. Len(r) /\ Len(r) \in Nat /\ DOMAIN t = 1 .. Len(r) + 1
        /\ t[Len(r) + 1] = e /\ \A i \in 1 .. Len(r) : t[i] = r[i]
    BY <2>2, <2>3, AppendIsSeq
  <2>5. Len(r) = Len(s) - 1
    BY <2>2, <2>4
  <2>6. Len(t) = Len(r) + 1
    <3>1. Len(t) \in Nat /\ DOMAIN t = 1 .. Len(t)
      BY <2>4, AppendIsSeq
    <3> QED BY <2>4, <3>1
  <2>7. \A k \in 1 .. Len(t) - 1 : k + 1 \in DOMAIN s /\ t[k] = s[k + 1]
    BY <1>1, <2>2, <2>4, <2>5, <2>6
  <2> QED BY <1>1, <1>2, <2>4, <2>5, <2>6, <2>7
<1> QED BY <1>3, <1>4

\* An episode that ends here goes to the others, as the final found it or claimed.
LEMMA PushKeeps ==
    ASSUME NEW g, GateInv(g), g.active # NoEpisode, NEW c, Recorded(c), c.gen = g.gen,
           NEW h, h.episodes = Push(g.episodes, c), h.active = NoEpisode, h.gen = g.gen,
           h = [episodes |-> h.episodes, active |-> h.active, quiet |-> h.quiet, gen |-> h.gen]
    PROVE  /\ Keeps(g, h)
           /\ \A k \in DOMAIN h.episodes : h.episodes[k].gen = c.gen => h.episodes[k] = c
<1> DEFINE s == g.episodes  t == h.episodes
<1>1. /\ IsSeq(s) /\ Len(s) <= MaxEpisodes /\ g.gen \in Nat \ {0} /\ g.active.gen = g.gen
      /\ \A k \in DOMAIN s : Recorded(s[k]) /\ s[k].gen \in 1 .. g.gen /\ s[k].gen # g.gen
      /\ \A k, l \in DOMAIN s : s[k].gen = s[l].gen => k = l
  BY DEF GateInv
<1> HIDE DEF s, t
<1>2. t = Push(s, c)
  BY DEF s, t
<1>3. /\ IsSeq(t) /\ Len(t) <= MaxEpisodes /\ Len(t) \in Nat \ {0} /\ DOMAIN t = 1 .. Len(t) /\ t[Len(t)] = c
      /\ \E d \in {0, 1} : \A k \in 1 .. Len(t) - 1 : k + d \in DOMAIN s /\ t[k] = s[k + d]
  <2>1. IsSeq(s) /\ Len(s) <= MaxEpisodes
    BY <1>1
  <2> QED BY <1>2, <2>1, PushIsSeq
<1>4. PICK d \in {0, 1} : \A k \in 1 .. Len(t) - 1 : k + d \in DOMAIN s /\ t[k] = s[k + d]
  BY <1>3
<1>5. \A k \in DOMAIN t : k = Len(t) \/ k \in 1 .. Len(t) - 1
  BY <1>3
<1>6. \A k \in DOMAIN t : Recorded(t[k]) /\ t[k].gen \in 1 .. g.gen
  BY <1>1, <1>3, <1>4, <1>5
<1>7. \A k \in DOMAIN t : t[k].gen = c.gen => k = Len(t)
  BY <1>1, <1>4, <1>5
<1>8. \A k, l \in DOMAIN t : t[k].gen = t[l].gen => k = l
  <2> SUFFICES ASSUME NEW k \in DOMAIN t, NEW l \in DOMAIN t, t[k].gen = t[l].gen PROVE k = l
    OBVIOUS
  <2>1. CASE k = Len(t) \/ l = Len(t)
    BY <1>3, <1>7, <2>1
  <2>2. CASE k \in 1 .. Len(t) - 1 /\ l \in 1 .. Len(t) - 1
    <3>1. k + d = l + d
      BY <1>1, <1>4, <2>2
    <3> QED BY <1>3, <2>2, <3>1
  <2> QED BY <1>5, <2>1, <2>2
<1>9. GateInv(h)
  BY <1>1, <1>3, <1>6, <1>8 DEF GateInv, t
<1>10. ASSUME NEW n, NEW id, Settled(g, n, id) PROVE Settled(h, n, id)
  <2>1. /\ n \in 1 .. g.gen /\ n # g.gen
        /\ \A k \in DOMAIN s : s[k].gen = n => s[k].claim = id
    BY <1>1, <1>10 DEF Settled, s
  <2>2. \A k \in DOMAIN t : t[k].gen = n => t[k].claim = id
    BY <1>3, <1>4, <1>5, <2>1
  <2> QED BY <2>1, <2>2 DEF Settled, t
<1> QED BY <1>3, <1>7, <1>9, <1>10 DEF Keeps, t

LEMMA FinishKeeps ==
    ASSUME NEW g, GateInv(g), g.active # NoEpisode
    PROVE  Keeps(g, Finish(g)) /\ Finish(g).active = NoEpisode
<1> DEFINE c == [g.active EXCEPT !.state = "finalizing"]  h == Finish(g)
           s == Push(g.episodes, c)
<1>1. Recorded(c) /\ c.gen = g.gen
  BY DEF GateInv, Recorded
<1>2. h = [g EXCEPT !.episodes = s, !.active = NoEpisode, !.quiet = 0]
  BY DEF Finish
<1> HIDE DEF c, h, s
<1>3. g = [episodes |-> g.episodes, active |-> g.active, quiet |-> g.quiet, gen |-> g.gen]
  BY DEF GateInv
<1>4. h = [episodes |-> s, active |-> NoEpisode, quiet |-> 0, gen |-> g.gen]
  BY <1>2, <1>3
<1>5. /\ h.episodes = s /\ h.active = NoEpisode /\ h.gen = g.gen
      /\ h = [episodes |-> h.episodes, active |-> h.active, quiet |-> h.quiet, gen |-> h.gen]
  BY <1>4
<1>6. Keeps(g, h)
  BY <1>1, <1>5, PushKeeps DEF s
<1> QED BY <1>5, <1>6 DEF h

\* A frame of speech goes to the active episode, or to one with a number of its own.
LEMMA ExtendKeeps ==
    ASSUME NEW g, GateInv(g), NEW seq, NEW at \in Nat, NEW level
    PROVE  Keeps(g, Extend(g, seq, at, level))
<1> DEFINE e == IF g.active = NoEpisode THEN NewEpisode(g, seq, at) ELSE g.active
           a == [e EXCEPT !.end = at + 1, !.voiced = @ + 1, !.loud = @ \/ level = "loud"]
           h == Extend(g, seq, at, level)
<1>1. Recorded(e) /\ e.claim = NoClaim
  BY DEF GateInv, Recorded, NewEpisode
<1>2. IF g.active = NoEpisode THEN e.gen = g.gen + 1 ELSE e.gen = g.gen /\ e.gen # 0
  BY DEF GateInv, NewEpisode
<1> HIDE DEF e
<1>3. Recorded(a) /\ a.claim = NoClaim /\ a.gen = e.gen
  BY <1>1 DEF Recorded
<1>4. h = [g EXCEPT !.quiet = 0, !.gen = e.gen, !.active = a]
  BY DEF Extend, e
<1> HIDE DEF a, h
<1>5. g = [episodes |-> g.episodes, active |-> g.active, quiet |-> g.quiet, gen |-> g.gen]
  BY DEF GateInv
<1>6. h = [episodes |-> g.episodes, active |-> a, quiet |-> 0, gen |-> e.gen]
  BY <1>4, <1>5
<1>7. /\ h.episodes = g.episodes /\ h.active = a /\ h.gen = e.gen
      /\ h = [episodes |-> h.episodes, active |-> h.active, quiet |-> h.quiet, gen |-> h.gen]
  BY <1>6
<1>8. e.gen \in Nat \ {0} /\ g.gen \in Nat /\ g.gen <= e.gen
  BY <1>2 DEF GateInv
<1>9. \A k \in DOMAIN g.episodes : g.episodes[k].gen \in 1 .. e.gen /\ g.episodes[k].gen # e.gen
  BY <1>2, <1>8 DEF GateInv
<1>10. GateInv(h)
  BY <1>3, <1>7, <1>8, <1>9 DEF GateInv
<1>11. ASSUME NEW n, NEW id, Settled(g, n, id) PROVE Settled(h, n, id)
  <2>1. n \in 1 .. g.gen /\ n # e.gen
    BY <1>2, <1>8, <1>11 DEF Settled, GateInv
  <2> QED BY <1>3, <1>7, <1>8, <1>11, <2>1 DEF Settled
<1> QED BY <1>10, <1>11 DEF Keeps, h

LEMMA ObserveKeeps ==
    ASSUME NEW g, GateInv(g), NEW seq, NEW at \in Nat, NEW level
    PROVE  Keeps(g, Observe(g, seq, at, level))
<1> DEFINE h == IF g.active # NoEpisode /\ at >= g.active.end + Release THEN Finish(g) ELSE g
           o == Observe(g, seq, at, level)
<1>1. Keeps(g, h)
  BY FinishKeeps DEF Keeps
<1>2. o = IF level = "quiet" THEN Hush(h) ELSE Extend(h, seq, at, level)
  BY DEF Observe
<1> HIDE DEF h, o
<1>3. GateInv(h)
  BY <1>1 DEF Keeps
<1>4. Keeps(h, Hush(h))
  <2> DEFINE q == [h EXCEPT !.quiet = @ + 1]
  <2>1. Hush(h) = h \/ (h.active # NoEpisode /\ Hush(h) = Finish(h)) \/ Hush(h) = q
    BY DEF Hush
  <2>2. /\ q = [episodes |-> q.episodes, active |-> q.active, quiet |-> q.quiet, gen |-> q.gen]
        /\ q.episodes = h.episodes /\ q.active = h.active /\ q.gen = h.gen
    BY <1>3 DEF GateInv
  <2> HIDE DEF q
  <2>3. Keeps(h, q)
    BY <1>3, <2>2 DEF Keeps, GateInv, Settled
  <2>4. Keeps(h, h)
    BY <1>3 DEF Keeps
  <2> QED BY <1>3, <2>1, <2>3, <2>4, FinishKeeps
<1>5. Keeps(h, o)
  BY <1>2, <1>3, <1>4, ExtendKeeps
<1> QED BY <1>1, <1>5 DEF Keeps, o

\* A final that came too late changes no episode's number, start or claim.
LEMMA ExpireKeeps ==
    ASSUME NEW g, GateInv(g), NEW f
    PROVE  Keeps(g, Expire(g, f))
<1> DEFINE s == g.episodes
           late(e) == IF e \in Begun(g, f) /\ e.state = "finalizing"
                      THEN [e EXCEPT !.state = "expired"] ELSE e
           t == [i \in DOMAIN s |-> late(s[i])]
           h == Expire(g, f)
<1>1. h = [episodes |-> t, active |-> g.active, quiet |-> g.quiet, gen |-> g.gen]
  BY DEF Expire, GateInv
<1>2. \A i \in DOMAIN s : Same(t[i], s[i])
  <2> SUFFICES ASSUME NEW i \in DOMAIN s PROVE Same(late(s[i]), s[i])
    OBVIOUS
  <2>1. Recorded(s[i])
    BY DEF GateInv
  <2> QED BY <2>1 DEF Same, Recorded
<1>3. DOMAIN t = DOMAIN s
  OBVIOUS
<1>4. IsSeq(t)
  <2>1. IsSeq(s)
    BY DEF GateInv
  <2>2. Len(s) \in Nat /\ DOMAIN s = 1 .. Len(s)
    BY <2>1, AppendIsSeq
  <2> DEFINE S == {late(s[i]) : i \in DOMAIN s}
  <2>3. \A i \in 1 .. Len(s) : late(s[i]) \in S
    BY <2>2
  <2> HIDE DEF S, late
  <2>4. [i \in 1 .. Len(s) |-> late(s[i])] \in Seq(S)
    BY <2>2, <2>3
  <2> QED BY <2>2, <2>4 DEF IsSeq
<1> HIDE DEF t, late, h
<1>5. /\ h.episodes = t /\ h.active = g.active /\ h.gen = g.gen
      /\ h = [episodes |-> h.episodes, active |-> h.active, quiet |-> h.quiet, gen |-> h.gen]
  BY <1>1
<1>6. GateInv(h)
  BY <1>2, <1>3, <1>4, <1>5 DEF GateInv, Same
<1>7. ASSUME NEW n, NEW id, Settled(g, n, id) PROVE Settled(h, n, id)
  BY <1>2, <1>3, <1>5, <1>7 DEF Settled, Same
<1> QED BY <1>6, <1>7 DEF Keeps, h

\* The episode a final is associated with is one that nobody has claimed.
LEMMA AssociatedIs ==
    ASSUME NEW g, GateInv(g), NEW f, Unclaimed(g, f) # {}
    PROVE  /\ Associated(g, f) \in Candidates(g) /\ Associated(g, f).claim = NoClaim
           /\ Recorded(Associated(g, f)) /\ Associated(g, f).gen \in 1 .. g.gen
<1> DEFINE U == Unclaimed(g, f)
<1>1. \A e \in Candidates(g) : Recorded(e) /\ e.gen \in 1 .. g.gen
  BY DEF Candidates, GateInv, Range
<1>2. \A e \in U : e \in Candidates(g) /\ e.claim = NoClaim
  BY DEF Unclaimed, InTime, Begun
<1> HIDE DEF U
<1> DEFINE I == {e.start : e \in U}
<1>3. I \in SUBSET Nat /\ I # {}
  BY <1>1, <1>2 DEF Recorded, U
<1>4. \E x \in I : \A y \in I : x <= y
  <2> HIDE DEF I
  <2> QED BY <1>3, LeastIndex
<1>5. \E e \in U : \A d \in U : e.start <= d.start
  BY <1>4
<1>6. Associated(g, f) \in U
  BY <1>5 DEF Associated, U
<1> QED BY <1>1, <1>2, <1>6

\* The claimed episode is settled from here on, and the others are what they were.
LEMMA ClaimSettles ==
    ASSUME NEW g, GateInv(g), NEW f, Unclaimed(g, f) # {}
    PROVE  LET n == Associated(g, f).gen
               h == Claim(g, f)
           IN  /\ GateInv(h) /\ Settled(h, n, f.id)
               /\ \A m, id : Settled(g, m, id) /\ id # NoClaim => m # n /\ Settled(h, m, id)
<1> DEFINE e == Associated(g, f)  c == [e EXCEPT !.claim = f.id, !.state = "consumed"]
           h == Claim(g, f)  s == g.episodes
<1>1. e \in Candidates(g) /\ e.claim = NoClaim /\ Recorded(e) /\ e.gen \in 1 .. g.gen
  BY AssociatedIs
<1> HIDE DEF e
<1>2. Recorded(c) /\ c.gen = e.gen /\ c.claim = f.id
  BY <1>1 DEF Recorded
<1>3. h = IF e = g.active
          THEN [g EXCEPT !.episodes = Push(@, c), !.active = NoEpisode, !.quiet = 0]
          ELSE [g EXCEPT !.episodes = [i \in DOMAIN @ |-> IF @[i] = e THEN c ELSE @[i]]]
  BY DEF Claim, e
<1> HIDE DEF c, h
<1>4. ASSUME NEW m, NEW id, Settled(g, m, id), id # NoClaim PROVE m # e.gen
  BY <1>1, <1>4 DEF Settled, Candidates, Range
<1>5. CASE e = g.active
  <2>1. g.active # NoEpisode
    BY <1>1, <1>5 DEF NoEpisode
  <2>2. h = [episodes |-> Push(s, c), active |-> NoEpisode, quiet |-> 0, gen |-> g.gen]
    BY <1>3, <1>5 DEF GateInv
  <2>3. /\ h.episodes = Push(s, c) /\ h.active = NoEpisode /\ h.gen = g.gen
        /\ h = [episodes |-> h.episodes, active |-> h.active, quiet |-> h.quiet, gen |-> h.gen]
    BY <2>2
  <2>4. c.gen = g.gen
    BY <1>2, <1>5, <2>1 DEF GateInv
  <2>5. /\ Keeps(g, h)
        /\ \A k \in DOMAIN h.episodes : h.episodes[k].gen = c.gen => h.episodes[k] = c
    BY <1>2, <2>1, <2>3, <2>4, PushKeeps
  <2>6. Settled(h, e.gen, f.id)
    BY <1>1, <1>2, <2>3, <2>5 DEF Settled
  <2> QED BY <1>4, <2>5, <2>6 DEF Keeps, h, e
<1>6. CASE e # g.active
  <2> DEFINE t == [i \in DOMAIN s |-> IF s[i] = e THEN c ELSE s[i]]
  <2>1. PICK j \in DOMAIN s : s[j] = e
    BY <1>1, <1>6 DEF Candidates, Range
  <2>2. h = [episodes |-> t, active |-> g.active, quiet |-> g.quiet, gen |-> g.gen]
    BY <1>3, <1>6 DEF GateInv
  <2>3. DOMAIN t = DOMAIN s /\ t[j] = c /\ \A i \in DOMAIN s : i # j => t[i] = s[i]
    <3>1. \A i \in DOMAIN s : s[i] = e => i = j
      BY <2>1 DEF GateInv
    <3> QED BY <2>1, <3>1
  <2>4. IsSeq(t)
    <3>1. IsSeq(s)
      BY DEF GateInv
    <3>2. Len(s) \in Nat /\ DOMAIN s = 1 .. Len(s)
      BY <3>1, AppendIsSeq
    <3> DEFINE S == {t[i] : i \in 1 .. Len(s)}
    <3>3. \A i \in 1 .. Len(s) : (IF s[i] = e THEN c ELSE s[i]) \in S
      BY <3>2
    <3> HIDE DEF S
    <3>4. [i \in 1 .. Len(s) |-> IF s[i] = e THEN c ELSE s[i]] \in Seq(S)
      BY <3>2, <3>3
    <3> QED BY <3>2, <3>4 DEF IsSeq
  <2> HIDE DEF t
  <2>5. /\ h.episodes = t /\ h.active = g.active /\ h.gen = g.gen
        /\ h = [episodes |-> h.episodes, active |-> h.active, quiet |-> h.quiet, gen |-> h.gen]
    BY <2>2
  <2>6. \A i \in DOMAIN t : Recorded(t[i]) /\ t[i].gen = s[i].gen
    BY <1>2, <2>1, <2>3 DEF GateInv
  <2>7. GateInv(h)
    BY <2>3, <2>4, <2>5, <2>6 DEF GateInv
  <2>8. Settled(h, e.gen, f.id)
    <3>1. \A k \in DOMAIN t : t[k].gen = e.gen => k = j
      BY <2>1, <2>3, <2>6 DEF GateInv
    <3>2. g.active # NoEpisode => g.active.gen # e.gen
      BY <2>1 DEF GateInv
    <3> QED BY <1>1, <1>2, <2>3, <2>5, <3>1, <3>2 DEF Settled
  <2>9. ASSUME NEW m, NEW id, Settled(g, m, id), id # NoClaim PROVE Settled(h, m, id)
    <3>1. m # e.gen
      BY <1>4, <2>9
    <3>2. \A k \in DOMAIN t : t[k].gen = m => t[k].claim = id
      BY <2>1, <2>3, <2>6, <2>9, <3>1 DEF Settled
    <3> QED BY <2>5, <2>9, <3>2 DEF Settled
  <2> QED BY <1>4, <2>7, <2>8, <2>9 DEF h, e
<1> QED BY <1>5, <1>6

-----------------------------------------------------------------------------
(* Claims.                                                                  *)

\* Each spoken turn has the episode it claimed to itself.
ClaimInv ==
    /\ GateInv(gate) /\ now \in Nat
    /\ \A i \in DOMAIN turns : Spoken(i) =>
          turns[i].id # NoClaim /\ Settled(gate, turns[i].gen, turns[i].id)
    /\ \A i, j \in DOMAIN turns :
          Spoken(i) /\ Spoken(j) /\ turns[i].gen = turns[j].gen => i = j

LEMMA ClaimsKept ==
    ASSUME ClaimInv, UNCHANGED turns, Keeps(gate, gate') \/ UNCHANGED gate, now' \in Nat
    PROVE  ClaimInv'
BY DEF ClaimInv, Keeps, Spoken

\* What is not spoken claims nothing.
LEMMA TypedClaimsNothing ==
    ASSUME OnceInv, ClaimInv, NEW e, e.how \notin Admitted, turns' = Append(turns, e),
           UNCHANGED <<gate, now>>
    PROVE  ClaimInv'
<1>1. IsSeq(turns)
  BY DEF OnceInv, Sequences
<1>2. \A i \in DOMAIN turns' : turns'[i] = e \/ (i \in DOMAIN turns /\ turns'[i] = turns[i])
  BY <1>1, AppendIsSeq
<1>3. \A i \in DOMAIN turns' :
          Spoken(i)' => i \in DOMAIN turns /\ turns'[i] = turns[i] /\ Spoken(i)
  BY <1>2 DEF Spoken
<1> QED BY <1>3 DEF ClaimInv

\* A final that is admitted claims the episode it is associated with.
LEMMA AdmittedClaims ==
    ASSUME OnceInv, ClaimInv, NEW u, u.id # NoClaim, Unclaimed(gate, u) # {},
           gate' = Claim(gate, u), UNCHANGED now, NEW how,
           turns' = Append(turns, Turn(u, how, Associated(gate, u).gen))
    PROVE  ClaimInv'
<1> DEFINE n == Associated(gate, u).gen  e == Turn(u, how, n)  l == Len(turns) + 1
<1>1. IsSeq(turns)
  BY DEF OnceInv, Sequences
<1>2. /\ GateInv(gate') /\ Settled(gate', n, u.id)
      /\ \A m, id : Settled(gate, m, id) /\ id # NoClaim => m # n /\ Settled(gate', m, id)
  BY ClaimSettles DEF ClaimInv
<1>3. e.id = u.id /\ e.gen = n
  BY DEF Turn
<1> HIDE DEF e, n
<1>4. turns' = Append(turns, e)
  BY DEF e, n
<1>5. /\ turns'[l] = e
      /\ \A i \in DOMAIN turns' : i = l \/ (i \in DOMAIN turns /\ turns'[i] = turns[i])
  BY <1>1, <1>4, AppendIsSeq
<1> HIDE DEF l
<1>6. \A i \in DOMAIN turns' :
          Spoken(i)' => i = l \/ (i \in DOMAIN turns /\ turns'[i] = turns[i] /\ Spoken(i))
  BY <1>5 DEF Spoken
<1>7. \A i \in DOMAIN turns : Spoken(i) =>
          /\ turns[i].id # NoClaim /\ turns[i].gen # n
          /\ Settled(gate', turns[i].gen, turns[i].id)
  BY <1>2 DEF ClaimInv
<1>8. \A i \in DOMAIN turns' : Spoken(i)' =>
          turns'[i].id # NoClaim /\ Settled(gate', turns'[i].gen, turns'[i].id)
  BY <1>2, <1>3, <1>5, <1>6, <1>7
<1>9. \A i, j \in DOMAIN turns' :
          Spoken(i)' /\ Spoken(j)' /\ turns'[i].gen = turns'[j].gen => i = j
  BY <1>3, <1>5, <1>6, <1>7 DEF ClaimInv
<1> QED BY <1>2, <1>8, <1>9 DEF ClaimInv

LEMMA EmptyGateInv == GateInv(EmptyGate)
<1>1. Len(<<>>) <= MaxEpisodes
  BY AdmissionConstants
<1> QED BY <1>1, EmptyIsSeq DEF EmptyGate, GateInv

LEMMA DecideClaims ==
    ASSUME OnceInv, ClaimInv, NEW u, u.final => u.id # NoClaim, NEW playing, NEW verdict,
           NEW again, Decide(u, playing, verdict, again), UNCHANGED now
    PROVE  ClaimInv'
<1> DEFINE outcome == Outcome(gate, u, playing, verdict)
<1>1. GateInv(gate) /\ now \in Nat
  BY DEF ClaimInv
<1>2. Keeps(gate, gate)
  BY <1>1 DEF Keeps
<1>3. CASE outcome \notin Admitted
  <2>1. UNCHANGED turns
    BY <1>3 DEF Decide, Reject
  <2>2. gate' \in {gate, Expire(gate, u)}
    BY <1>3 DEF Decide, Assess
  <2> QED BY <1>1, <1>2, <2>1, <2>2, ExpireKeeps, ClaimsKept
<1>4. CASE outcome \in Admitted
  <2>1. Unclaimed(gate, u) # {}
    BY <1>4 DEF Outcome, WhyNone, Admitted
  <2>2. gate' = Claim(gate, u)
    BY <1>4, <2>1 DEF Decide, Assess
  <2>3. CASE u.final /\ turns' = Append(turns, Turn(u, outcome, Associated(gate, u).gen))
    BY <2>1, <2>2, <2>3, AdmittedClaims
  <2>4. CASE UNCHANGED turns
    <3>1. /\ GateInv(gate')
          /\ \A m, id : Settled(gate, m, id) /\ id # NoClaim => Settled(gate', m, id)
      BY <1>1, <2>1, <2>2, ClaimSettles
    <3> QED BY <2>4, <3>1 DEF ClaimInv, Spoken
  <2>5. Take(u, outcome, Associated(gate, u).gen) \/ UNCHANGED turns
    BY <1>4 DEF Decide
  <2> QED BY <2>3, <2>4, <2>5 DEF Take
<1> QED BY <1>3, <1>4

LEMMA LoopClaims ==
    ASSUME OnceInv, ClaimInv, InputLoop
    PROVE  ClaimInv'
<1>1. UNCHANGED now
  BY DEF InputLoop, TakeFrame, ConnectScribe, AwaitReady, DrainUpdates, Delivered, AcceptUpdate,
         Reassess, Handled, LoopRests
<1>2. CASE UNCHANGED <<gate, turns>>
  BY <1>1, <1>2, ClaimsKept DEF ClaimInv
<1>3. CASE TakeFrame \/ ConnectScribe \/ AwaitReady \/ DrainUpdates \/ Delivered \/ Handled
  BY <1>2, <1>3 DEF TakeFrame, ConnectScribe, AwaitReady, DrainUpdates, Delivered, Handled
<1> DEFINE u == Head(loop.ups)
<1>4. loop.ups # <<>> => (u.final => u.id # NoClaim)
  <2> SUFFICES ASSUME loop.ups # <<>>, u.final PROVE u.id # NoClaim
    OBVIOUS
  <2>1. IsSeq(loop.ups)
    BY DEF OnceInv, Sequences
  <2>2. Head(loop.ups) = loop.ups[1] /\ 1 \in DOMAIN loop.ups
    BY <2>1, TailIsSeq
  <2>3. PICK k \in 1 .. scribe.finals : u.id = <<"stt", k>>
    BY <2>2 DEF OnceInv, Waiting, FinalsNumbered
  <2>4. Len(<<"stt", k>>) # 0 /\ Len(<<>>) = 0
    OBVIOUS
  <2>5. Len(u.id) # 0
    BY <2>3, <2>4, Zenon
  <2> QED BY <2>4, <2>5, Zenon DEF NoClaim
<1>5. CASE AcceptUpdate
  <2>1. loop.ups # <<>>
    BY <1>5 DEF AcceptUpdate
  <2>2. ASSUME NEW verdict, Decide(u, Playing, verdict, TRUE) PROVE ClaimInv'
    BY <1>1, <1>4, <2>1, <2>2, DecideClaims
  <2>3. CASE ~u.final /\ UNCHANGED gate /\ (Reject(u) \/ Take(u, "partial", 0))
    BY <1>2, <2>3 DEF Reject, Take
  <2> QED BY <1>2, <1>5, <2>2, <2>3 DEF AcceptUpdate
<1>6. CASE Reassess
  <2>1. loop.ups # <<>>
    BY <1>6 DEF Reassess, OnceInv, Delivering
  <2>2. Decide(u, FALSE, "clear", FALSE)
    BY <1>6 DEF Reassess
  <2> QED BY <1>1, <1>4, <2>1, <2>2, DecideClaims
<1> QED BY <1>3, <1>5, <1>6 DEF InputLoop

LEMMA ClaimStep == OnceInv /\ ClaimInv /\ [InputNext]_inputVars => ClaimInv'
<1> SUFFICES ASSUME OnceInv, ClaimInv, [InputNext]_inputVars PROVE ClaimInv'
  OBVIOUS
<1>1. CASE UNCHANGED <<gate, turns, now>>
  BY <1>1, ClaimsKept DEF ClaimInv
<1>2. CASE FreshSession
  <2>1. gate' = EmptyGate /\ turns' = <<>> /\ now' = 0
    BY <1>2 DEF FreshSession
  <2> QED BY <2>1, EmptyGateInv, EmptyIsSeq DEF ClaimInv
<1>3. ASSUME NEW c \in Conn, SetUp(c) \/ EndSession(c) \/ ReleaseLease(c) PROVE ClaimInv'
  BY <1>1, <1>2, <1>3 DEF SetUp, EndSession, ReleaseLease, GoesBack, loopVars
<1>4. ASSUME NEW c \in Conn, \/ Connect(c) \/ BindSource(c) \/ SendControl(c) \/ Disconnect(c)
                              \/ StopLoop(c)
      PROVE  ClaimInv'
  BY <1>1, <1>4 DEF Connect, BindSource, SendControl, Disconnect, StopLoop, loopVars
<1>5. ASSUME NEW c \in Conn, Gap(c) PROVE ClaimInv'
  <2>1. UNCHANGED <<gate, turns>> /\ now' = now + Release
    BY <1>5 DEF Gap, loopVars
  <2>2. now' \in Nat
    BY <2>1, AdmissionConstants DEF ClaimInv
  <2> QED BY <2>1, <2>2, ClaimsKept
<1>6. ASSUME NEW c \in Conn, NEW level \in Levels, Receive(c, level) PROVE ClaimInv'
  <2>1. CASE UNCHANGED <<gate, now>>
    BY <1>1, <1>6, <2>1 DEF Receive
  <2>2. CASE gate' = Observe(gate, seqno + 1, now, level) /\ now' = now + 1
    <3>1. UNCHANGED turns
      BY <1>6 DEF Receive
    <3>2. Keeps(gate, gate') /\ now' \in Nat
      BY <2>2, ObserveKeeps DEF ClaimInv
    <3> QED BY <3>1, <3>2, ClaimsKept
  <2> QED BY <1>6, <2>1, <2>2 DEF Receive
<1>7. CASE InputLoop
  BY <1>7, LoopClaims
<1>8. CASE TakeControl
  <2>1. UNCHANGED <<gate, now>>
    BY <1>8 DEF TakeControl
  <2>2. CASE UNCHANGED turns
    BY <1>1, <2>1, <2>2
  <2>3. ASSUME NEW id, turns' = Append(turns, [id |-> id, how |-> "typed", gen |-> 0])
        PROVE  ClaimInv'
    <3> DEFINE e == [id |-> id, how |-> "typed", gen |-> 0]
    <3>1. e.how \notin Admitted
      BY DEF Admitted
    <3> HIDE DEF e
    <3>2. turns' = Append(turns, e)
      BY <2>3 DEF e
    <3> QED BY <2>1, <3>1, <3>2, TypedClaimsNothing
  <2>4. UNCHANGED turns \/ \E id : turns' = Append(turns, [id |-> id, how |-> "typed", gen |-> 0])
    BY <1>8 DEF TakeControl, Take, Turn
  <2> QED BY <2>2, <2>3, <2>4
<1>9. CASE SessionStarted \/ PartialArrives \/ FinalArrives \/ ScribeFails
  <2>1. UNCHANGED ScribeRests
    BY <1>9 DEF SessionStarted, PartialArrives, FinalArrives, ScribeFails
  <2> QED BY <1>1, <2>1 DEF ScribeRests, loopVars
<1>10. CASE ControlDone \/ AssistantSpeaks \/ UNCHANGED inputVars
  BY <1>1, <1>10 DEF ControlDone, AssistantSpeaks, inputVars, loopVars
<1> QED
  BY <1>3, <1>4, <1>5, <1>6, <1>7, <1>8, <1>9, <1>10 DEF InputNext

\* Two finals never become turns on the strength of the same speech, for any
\* thresholds, gaps and number of episodes that the gate remembers.
THEOREM FinalsAreApart == InputSpec => []FinalsClaimApart
<1>1. InputInit => ClaimInv
  BY EmptyGateInv, EmptyIsSeq DEF InputInit, ClaimInv
<1>2. ClaimInv => FinalsClaimApart
  BY DEF ClaimInv, FinalsClaimApart, Settled
<1> QED
  BY <1>1, <1>2, OnceInit, OnceStep, ClaimStep, PTL DEF InputSpec

-----------------------------------------------------------------------------
(* Types.                                                                   *)

LoopPc == {"get", "connect", "wait", "sent", "deliver", "sleep", "handling", "ended"}

\* Frames go from the gate to the queue to the loop to the transcriber, none
\* before its time; the queue never has more of them than it has room for.
FrameTypes ==
    /\ lease \in Conn \cup {NoConn}
    /\ heard \in Nat /\ seqno \in 0 .. heard
    /\ inq \in Seq(0 .. seqno) /\ Len(inq) <= QueueSize
    /\ loop.pc \in LoopPc /\ loop.frame \in 0 .. seqno /\ scribe.last \in 0 .. seqno

countVars == <<heard, seqno, inq, loop, scribe>>

LEMMA FrameTypesFresh ==
    ASSUME FreshSession, loop' \in {IdleLoop, EndedLoop}, lease' \in Conn \cup {NoConn}
    PROVE  FrameTypes'
<1>1. heard' = 0 /\ seqno' = 0 /\ inq' = <<>> /\ scribe'.last = 0
  BY DEF FreshSession, NewScribe
<1>2. loop'.pc \in {"get", "ended"} /\ loop'.frame = 0
  BY DEF IdleLoop, EndedLoop
<1>3. inq' \in Seq(0 .. seqno') /\ Len(inq') <= QueueSize
  BY <1>1, InputQueueHasRoom
<1> QED BY <1>1, <1>2, <1>3 DEF FrameTypes, LoopPc

LEMMA LoopFrameTypes ==
    ASSUME OnceInv, FrameTypes, InputLoop
    PROVE  FrameTypes'
<1>1. UNCHANGED <<lease, heard, seqno>>
  BY DEF InputLoop, TakeFrame, ConnectScribe, AwaitReady, DrainUpdates, Delivered, AcceptUpdate,
         Reassess, Handled, LoopRests, webVars
<1>2. /\ loop = [pc |-> loop.pc, frame |-> loop.frame, ups |-> loop.ups]
      /\ scribe = [up |-> scribe.up, failed |-> scribe.failed, last |-> scribe.last,
                   partial |-> scribe.partial, committed |-> scribe.committed,
                   partials |-> scribe.partials, finals |-> scribe.finals]
  BY DEF OnceInv, Shapes
<1>3. /\ inq \in Seq(0 .. seqno) /\ Len(inq) <= QueueSize /\ heard \in Nat /\ seqno \in 0 .. heard
      /\ loop.pc \in LoopPc /\ loop.frame \in 0 .. seqno /\ scribe.last \in 0 .. seqno
      /\ lease \in Conn \cup {NoConn}
  BY DEF FrameTypes
<1>4. ASSUME inq' \in Seq(0 .. seqno), Len(inq') <= QueueSize, loop'.pc \in LoopPc,
             loop'.frame \in 0 .. seqno, scribe'.last \in 0 .. seqno
      PROVE  FrameTypes'
  BY <1>1, <1>3, <1>4 DEF FrameTypes
<1>5. CASE LoopFails /\ UNCHANGED scribe
  <2>1. loop'.pc = "ended" /\ loop'.frame = 0 /\ inq' = <<>>
    BY <1>2, <1>5 DEF LoopFails
  <2>2. inq' \in Seq(0 .. seqno) /\ Len(inq') <= QueueSize
    BY <2>1, InputQueueHasRoom
  <2> QED BY <1>3, <1>4, <1>5, <2>1, <2>2 DEF LoopPc
<1>6. ASSUME UNCHANGED inq, loop'.frame = loop.frame, loop'.pc \in LoopPc,
             scribe'.last = scribe.last
      PROVE  FrameTypes'
  BY <1>3, <1>4, <1>6
<1>7. CASE TakeFrame
  <2>1. inq # <<>>
    BY <1>7 DEF TakeFrame
  <2>2. Head(inq) \in 0 .. seqno /\ Tail(inq) \in Seq(0 .. seqno) /\ Len(Tail(inq)) = Len(inq) - 1
    BY <1>3, <2>1
  <2>3. Len(Tail(inq)) <= QueueSize
    BY <1>3, <2>2, InputQueueHasRoom
  <2>4. CASE loop' = [loop EXCEPT !.pc = "ended"] /\ inq' = Tail(inq) /\ UNCHANGED scribe
    BY <1>2, <1>3, <1>4, <2>2, <2>3, <2>4 DEF LoopPc
  <2>5. CASE loop' = [loop EXCEPT !.pc = "connect", !.frame = Head(inq)] /\ inq' = Tail(inq)
             /\ UNCHANGED scribe
    BY <1>2, <1>3, <1>4, <2>2, <2>3, <2>5 DEF LoopPc
  <2>6. CASE loop' = [loop EXCEPT !.pc = "sent"] /\ inq' = Tail(inq) /\ Transmit(Head(inq))
    BY <1>2, <1>3, <1>4, <2>2, <2>3, <2>6 DEF LoopPc, Transmit
  <2> QED BY <1>5, <1>7, <2>4, <2>5, <2>6 DEF TakeFrame
<1>8. CASE ConnectScribe
  <2>1. CASE /\ scribe' = [scribe EXCEPT !.up = "waiting"]
             /\ loop' = [loop EXCEPT !.pc = "wait"] /\ UNCHANGED inq
    BY <1>2, <1>6, <2>1 DEF LoopPc
  <2> QED BY <1>5, <1>8, <2>1 DEF ConnectScribe
<1>9. CASE AwaitReady
  <2>1. CASE /\ Transmit(loop.frame) /\ UNCHANGED inq
             /\ loop' = [loop EXCEPT !.pc = "sent", !.frame = 0]
    BY <1>2, <1>3, <1>4, <2>1 DEF LoopPc, Transmit
  <2> QED BY <1>5, <1>9, <2>1 DEF AwaitReady
<1>10. CASE DrainUpdates
  <2>1. CASE /\ loop' = [loop EXCEPT !.pc = "deliver", !.ups = scribe.partial \o scribe.committed]
             /\ scribe' = [scribe EXCEPT !.partial = <<>>, !.committed = <<>>]
             /\ UNCHANGED inq
    BY <1>2, <1>6, <2>1 DEF LoopPc
  <2> QED BY <1>5, <1>10, <2>1 DEF DrainUpdates
<1>11. ASSUME NEW pc \in LoopPc, Loop(pc), UNCHANGED <<inq, scribe>> PROVE FrameTypes'
  BY <1>2, <1>6, <1>11 DEF Loop
<1>12. CASE NextUpdate /\ UNCHANGED <<inq, scribe>>
  BY <1>2, <1>6, <1>12 DEF NextUpdate, LoopPc
<1>13. CASE Delivered
  BY <1>2, <1>6, <1>13 DEF Delivered, LoopPc
<1>14. ASSUME NEW u, NEW playing, NEW verdict, NEW again, Decide(u, playing, verdict, again),
              UNCHANGED <<inq, scribe>>
       PROVE  FrameTypes'
  <2>1. Loop("handling") \/ Loop("sleep") \/ NextUpdate
    BY <1>14 DEF Decide
  <2>2. "handling" \in LoopPc /\ "sleep" \in LoopPc
    BY DEF LoopPc
  <2> QED BY <1>11, <1>12, <1>14, <2>1, <2>2
<1>15. CASE AcceptUpdate
  <2>1. UNCHANGED scribe
    BY <1>15 DEF AcceptUpdate
  <2>2. CASE LoopFails
    BY <1>5, <2>1, <2>2
  <2>3. ASSUME NEW verdict, Decide(Head(loop.ups), Playing, verdict, TRUE), UNCHANGED inq
        PROVE  FrameTypes'
    BY <1>14, <2>1, <2>3
  <2>4. CASE (NextUpdate \/ Loop("handling")) /\ UNCHANGED inq
    <3>1. "handling" \in LoopPc
      BY DEF LoopPc
    <3> QED BY <1>11, <1>12, <2>1, <2>4, <3>1
  <2> QED BY <1>15, <2>2, <2>3, <2>4 DEF AcceptUpdate
<1>16. CASE Reassess
  BY <1>14, <1>16 DEF Reassess
<1>17. CASE Handled
  <2>1. UNCHANGED scribe /\ ((NextUpdate /\ UNCHANGED inq) \/ LoopFails)
    BY <1>17 DEF Handled
  <2> QED BY <1>5, <1>12, <2>1
<1> QED BY <1>7, <1>8, <1>9, <1>10, <1>13, <1>15, <1>16, <1>17 DEF InputLoop

LEMMA FrameTypesStep == OnceInv /\ FrameTypes /\ [InputNext]_inputVars => FrameTypes'
<1> SUFFICES ASSUME OnceInv, FrameTypes, [InputNext]_inputVars PROVE FrameTypes'
  OBVIOUS
<1>1. ASSUME UNCHANGED countVars, lease' \in Conn \cup {NoConn} PROVE FrameTypes'
  BY <1>1 DEF FrameTypes, countVars
<1>2. ASSUME NEW c \in Conn, SetUp(c) \/ EndSession(c) \/ ReleaseLease(c) PROVE FrameTypes'
  <2>1. lease' \in Conn \cup {NoConn}
    BY <1>2 DEF SetUp, EndSession, ReleaseLease, GoesBack, FrameTypes
  <2>2. UNCHANGED countVars \/ (FreshSession /\ loop' \in {IdleLoop, EndedLoop})
    BY <1>2 DEF SetUp, EndSession, ReleaseLease, GoesBack, loopVars, countVars
  <2> QED BY <1>1, <2>1, <2>2, FrameTypesFresh
<1>3. ASSUME NEW c \in Conn, Connect(c) \/ BindSource(c) \/ Gap(c) \/ SendControl(c) \/ Disconnect(c)
      PROVE  FrameTypes'
  BY <1>1, <1>3 DEF Connect, BindSource, Gap, SendControl, Disconnect, webVars, loopVars, countVars,
                    FrameTypes
<1>4. ASSUME NEW c \in Conn, StopLoop(c) PROVE FrameTypes'
  <2>1. UNCHANGED <<lease, heard, seqno, loop, scribe>>
    BY <1>4 DEF StopLoop
  <2>2. inq \in Seq(0 .. seqno) /\ Len(inq) <= QueueSize /\ seqno \in Nat
    BY DEF FrameTypes
  <2>3. inq' \in Seq(0 .. seqno) /\ Len(inq') <= QueueSize
    <3>1. CASE inq' = <<>>
      BY <3>1, InputQueueHasRoom
    <3>2. CASE Len(inq) < QueueSize /\ inq' = Append(inq, Stop)
      <4>1. Stop \in 0 .. seqno
        BY <2>2 DEF Stop
      <4> QED BY <2>2, <3>2, <4>1, InputQueueHasRoom
    <3> QED BY <1>4, <3>1, <3>2 DEF StopLoop
  <2> QED BY <2>1, <2>3 DEF FrameTypes
<1>5. ASSUME NEW c \in Conn, NEW level \in Levels, Receive(c, level) PROVE FrameTypes'
  <2>1. UNCHANGED <<lease, loop, scribe>>
    BY <1>5 DEF Receive
  <2>2. CASE UNCHANGED <<heard, inq, seqno>>
    BY <1>1, <2>1, <2>2 DEF countVars, FrameTypes
  <2>3. CASE heard' = heard + 1 /\ UNCHANGED <<inq, seqno>>
    BY <2>1, <2>3 DEF FrameTypes
  <2>4. CASE /\ heard' = heard + 1 /\ Len(inq) < QueueSize /\ inq' = Append(inq, seqno + 1)
             /\ seqno' = seqno + 1
    <3>1. inq \in Seq(0 .. seqno) /\ seqno \in 0 .. heard /\ heard \in Nat
      BY DEF FrameTypes
    <3>2. inq \in Seq(0 .. seqno + 1) /\ seqno + 1 \in 0 .. seqno + 1
      <4>1. 0 .. seqno \subseteq 0 .. seqno + 1
        BY <3>1
      <4> QED BY <3>1, <4>1, SeqMonotonic
    <3>3. inq' \in Seq(0 .. seqno') /\ Len(inq') <= QueueSize
      BY <2>4, <3>2, InputQueueHasRoom
    <3> QED BY <2>1, <2>4, <3>1, <3>3 DEF FrameTypes
  <2> QED BY <1>5, <2>2, <2>3, <2>4 DEF Receive
<1>6. CASE InputLoop
  BY <1>6, LoopFrameTypes
<1>7. CASE SessionStarted \/ PartialArrives \/ FinalArrives \/ ScribeFails
  <2>1. UNCHANGED <<lease, heard, seqno, inq, loop>>
    BY <1>7 DEF SessionStarted, PartialArrives, FinalArrives, ScribeFails, ScribeRests, webVars,
                loopVars
  <2>2. scribe'.last = scribe.last
    BY <1>7 DEF SessionStarted, PartialArrives, FinalArrives, ScribeFails, OnceInv, Shapes
  <2> QED BY <2>1, <2>2 DEF FrameTypes
<1>8. CASE TakeControl \/ ControlDone \/ AssistantSpeaks \/ UNCHANGED inputVars
  BY <1>1, <1>8 DEF TakeControl, ControlDone, AssistantSpeaks, inputVars, webVars, loopVars, countVars,
                    FrameTypes
<1> QED BY <1>2, <1>3, <1>4, <1>5, <1>6, <1>7, <1>8 DEF InputNext

\* Connections, lease, loop and queue are only what they can be, the gate keeps
\* no more episodes than it may and its active one is the youngest and free, and
\* no frame is transmitted or queued that the gate has not heard.
THEOREM InputTypes == InputSpec => []InputTypeOK
<1>1. InputInit => FrameTypes
  BY InputQueueHasRoom DEF InputInit, EndedLoop, IdleLoop, NewScribe, FrameTypes, LoopPc
<1>2. InputInit => ClaimInv
  BY EmptyGateInv, EmptyIsSeq DEF InputInit, ClaimInv
<1>3. InputInit => LeaseInv
  BY ConnAssumption DEF InputInit, LeaseInv, Links, LeaseIsReturned
<1>4. LeaseInv /\ ClaimInv /\ FrameTypes => InputTypeOK
  <2> SUFFICES ASSUME LeaseInv, ClaimInv, FrameTypes PROVE InputTypeOK
    OBVIOUS
  <2>1. link \in [Conn -> Links]
    BY DEF LeaseInv
  <2>2. Len(gate.episodes) <= MaxEpisodes
        /\ (gate.active # NoEpisode => gate.active.gen = gate.gen /\ gate.active.claim = NoClaim)
    BY DEF ClaimInv, GateInv
  <2>3. scribe.last <= seqno /\ seqno <= heard
    BY DEF FrameTypes
  <2> QED BY <2>1, <2>2, <2>3 DEF InputTypeOK, FrameTypes, Links, LoopPc
<1> QED
  BY <1>1, <1>2, <1>3, <1>4, LeaseStep, OnceInit, OnceStep, ClaimStep, FrameTypesStep,
     PTL DEF InputSpec
=============================================================================

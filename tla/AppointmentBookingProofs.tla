---------------------- MODULE AppointmentBookingProofs ----------------------
(***************************************************************************)
(* Proofs about AppointmentBooking: no double booking, no lost booking,    *)
(* that every step is one of AppointmentCalendar, and that offers and      *)
(* beliefs keep in step with what was said and what is booked.             *)
(***************************************************************************)
EXTENDS AppointmentBooking, TLAPS

\* What a conversation keeps as booked was booked once.
KnownWasBooked == \A c \in Conversations : \A i \in persisted[c] : row[i] # "absent"

\* A turn is about an appointment its conversation knows.
TopicKnown == \A c \in Conversations : pc[c] # "idle" => Topic(c) \in Known(c)

\* The inductive invariant.
BookingInv == TypeOK /\ KnownWasBooked /\ TopicKnown /\ NoLostBooking /\ NoDoubleBooking

-----------------------------------------------------------------------------
(* The operators the actions share. *)

\* Whatever a conversation knows is an id.
LEMMA KnownIds ==
    ASSUME TypeOK, NEW c \in Conversations
    PROVE  Known(c) \subseteq Ids
BY DEF TypeOK, Known

\* The topic of a turn is an id.
LEMMA TopicIsId ==
    ASSUME TypeOK, TopicKnown, NEW c \in Conversations, pc[c] # "idle"
    PROVE  Topic(c) \in Ids
BY KnownIds DEF TopicKnown

\* Planning leaves a table of offers.
LEMMA TableTyped ==
    ASSUME TypeOK, TopicKnown, NEW c \in Conversations, pc[c] # "idle"
    PROVE  /\ Table(c) \in [Ids -> Offers]
           /\ Settled(c) \in [Ids -> Offers]
<1>1. Topic(c) \in Ids BY TopicIsId
<1>2. offer[c] \in [Ids -> Offers] BY DEF TypeOK
<1>3. NoOffer \in Offers BY DEF Offers
<1>4. ASSUME Confirmed(c)
      PROVE  [offer[c][Topic(c)] EXCEPT !.status = "COMMITTING"] \in Offers
  <2>1. offer[c][Topic(c)] \in Offers BY <1>1, <1>2
  <2>2. offer[c][Topic(c)] # NoOffer BY <1>4 DEF Confirmed, NoOffer
  <2> QED BY <2>1, <2>2 DEF Offers
<1>5. Table(c) \in [Ids -> Offers]
  <2>1. CASE said[c].kind = "list"
    BY <2>1, <1>3 DEF Table
  <2>2. CASE said[c].kind # "list" /\ said[c].kind = "yes" /\ Confirmed(c)
    <3>1. Table(c) = [offer[c] EXCEPT ![Topic(c)] = [offer[c][Topic(c)] EXCEPT !.status = "COMMITTING"]]
      BY <2>2, <1>1, <1>2 DEF Table
    <3> QED BY <3>1, <2>2, <1>1, <1>2, <1>4
  <2>3. CASE said[c].kind # "list" /\ ~(said[c].kind = "yes" /\ Confirmed(c))
    BY <2>3, <1>1, <1>2, <1>3 DEF Table
  <2> QED BY <2>1, <2>2, <2>3
<1> QED BY <1>5, <1>1, <1>3 DEF Settled

\* A response that ends leaves its conversation idle, and what is known known.
LEMMA EndsTyped ==
    ASSUME TypeOK, TopicKnown, NEW c \in Conversations, Ends(c),
           \A d \in Conversations : persisted[d] \subseteq persisted'[d]
    PROVE  /\ pc' \in [Conversations -> {"idle", "turn", "search"}]
           /\ said' = [d \in Conversations |-> said'[d]]
           /\ \A d \in Conversations :
                 IF pc'[d] = "idle" THEN said'[d].kind = "none"
                 ELSE said'[d] \in [kind : Intents, id : Ids, fresh : BOOLEAN]
           /\ stale' \in [Conversations -> BOOLEAN]
           /\ TopicKnown'
BY DEF Ends, TypeOK, TopicKnown, Topic, Known, NoTurn, Turn

\* What is laid on the table, and what is believed of an appointment, is typed.
LEMMA LaysTyped ==
    ASSUME TypeOK, NEW c \in Conversations, NEW table \in [Ids -> Offers], Lays(c, table)
    PROVE  offer' \in [Conversations -> [Ids -> Offers]]
BY DEF TypeOK, Lays

LEMMA BelievesTyped ==
    ASSUME TypeOK, NEW c \in Conversations, NEW i \in Ids, NEW state \in ActionStates,
           NEW time \in Times \union {"none"}, Believes(c, i, state, time)
    PROVE  /\ status' \in [Conversations -> [Ids -> ActionStates]]
           /\ wish' \in [Conversations -> [Ids -> Times \union {"none"}]]
BY DEF TypeOK, Believes

-----------------------------------------------------------------------------
(* Steps that leave the store and what is known alone. *)

\* The store and what conversations know of it stay as they are.
StoreKept == UNCHANGED <<row, persisted>>

LEMMA KeptIsKept ==
    ASSUME BookingInv, StoreKept
    PROVE  KnownWasBooked' /\ NoLostBooking' /\ NoDoubleBooking'
BY DEF BookingInv, StoreKept, KnownWasBooked, NoLostBooking, NoDoubleBooking, Booked

LEMMA HearKeeps ==
    ASSUME BookingInv, NEW c \in Conversations, NEW kind \in Intents, NEW i \in Ids,
           NEW time \in Times \union {"none"}, Hear(c, kind, i, time)
    PROVE  BookingInv'
<1> USE DEF BookingInv
<1>1. /\ StoreKept
      /\ offer' = offer /\ stale' = stale /\ committed' = committed
      /\ pc' = [pc EXCEPT ![c] = "turn"]
      /\ \E b \in BOOLEAN : said' = [said EXCEPT ![c] = Turn(kind, i, b)]
      /\ i \in Known(c)
  BY DEF Hear, StoreKept
<1>2. Derived(status[c][i], kind) \in ActionStates
  BY DEF Derived, ActionStates
<1>3. /\ status' \in [Conversations -> [Ids -> ActionStates]]
      /\ wish' \in [Conversations -> [Ids -> Times \union {"none"}]]
      /\ silent' \subseteq Conversations
  BY <1>2 DEF Hear, TypeOK
<1>4. /\ pc' \in [Conversations -> {"idle", "turn", "search"}]
      /\ said' = [d \in Conversations |-> said'[d]]
  BY <1>1 DEF TypeOK
<1>5. \A d \in Conversations :
         IF pc'[d] = "idle" THEN said'[d].kind = "none"
         ELSE said'[d] \in [kind : Intents, id : Ids, fresh : BOOLEAN]
  BY <1>1 DEF TypeOK, Turn
<1>6. TypeOK'
  BY <1>1, <1>3, <1>4, <1>5 DEF TypeOK, StoreKept
<1>7. TopicKnown'
  BY <1>1 DEF TypeOK, TopicKnown, Topic, Known, StoreKept, Turn
<1> QED BY <1>1, <1>6, <1>7, KeptIsKept

LEMMA InterruptKeeps ==
    ASSUME BookingInv, NEW c \in Conversations, Interrupt(c)
    PROVE  BookingInv'
<1> USE DEF BookingInv
<1>1. StoreKept BY DEF Interrupt, StoreKept, beliefs
<1>2. TypeOK' BY DEF Interrupt, TypeOK, beliefs
<1>3. TopicKnown' BY DEF Interrupt, TopicKnown, Topic, Known, beliefs
<1> QED BY <1>1, <1>2, <1>3, KeptIsKept

\* A step that ends a response and changes the table and beliefs only.
LEMMA QuietEnd ==
    ASSUME BookingInv, NEW c \in Conversations, Ends(c), StoreKept, committed' = committed,
           offer' \in [Conversations -> [Ids -> Offers]],
           status' \in [Conversations -> [Ids -> ActionStates]],
           wish' \in [Conversations -> [Ids -> Times \union {"none"}]],
           silent' \subseteq Conversations
    PROVE  BookingInv'
<1> USE DEF BookingInv
<1>1. \A d \in Conversations : persisted[d] \subseteq persisted'[d] BY DEF StoreKept
<1>2. TopicKnown' BY <1>1, EndsTyped
<1>3. TypeOK' BY <1>1, EndsTyped DEF TypeOK, StoreKept
<1> QED BY <1>2, <1>3, KeptIsKept

LEMMA NoToolKeeps ==
    ASSUME BookingInv, NEW c \in Conversations, NoTool(c) \/ Refused(c)
    PROVE  BookingInv'
<1> USE DEF BookingInv
<1>1. /\ pc[c] # "idle" /\ Lays(c, Table(c)) /\ Ends(c)
      /\ UNCHANGED <<row, persisted, committed, status, wish, silent>>
  BY DEF NoTool, Refused, Runs, beliefs
<1>2. offer' \in [Conversations -> [Ids -> Offers]] BY <1>1, TableTyped, LaysTyped
<1>3. /\ status' \in [Conversations -> [Ids -> ActionStates]]
      /\ wish' \in [Conversations -> [Ids -> Times \union {"none"}]]
      /\ silent' \subseteq Conversations
  BY <1>1 DEF TypeOK
<1> QED BY <1>1, <1>2, <1>3, QuietEnd DEF StoreKept

LEMMA ToolFailsKeeps ==
    ASSUME BookingInv, NEW c \in Conversations, ToolFails(c)
    PROVE  BookingInv'
<1> USE DEF BookingInv
<1>1. pc[c] # "idle" /\ Topic(c) \in Ids BY TopicIsId DEF ToolFails
<1>2. offer' \in [Conversations -> [Ids -> Offers]]
  BY <1>1, TableTyped, LaysTyped DEF ToolFails
<1>3. /\ status' \in [Conversations -> [Ids -> ActionStates]]
      /\ wish' \in [Conversations -> [Ids -> Times \union {"none"}]]
  <2>1. CASE ToolFor(c) \in {"reschedule", "cancel"}
    <3> DEFINE t == IF ToolFor(c) = "reschedule" /\ committed[c][Topic(c)] # "none"
                    THEN committed[c][Topic(c)] ELSE wish[c][Topic(c)]
    <3>1. Believes(c, Topic(c), "booked", t) BY <2>1 DEF ToolFails
    <3>2. t \in Times \union {"none"} BY <1>1, SlotsAreTimes DEF TypeOK
    <3>3. "booked" \in ActionStates BY DEF ActionStates
    <3> HIDE DEF t
    <3> QED BY <1>1, <3>1, <3>2, <3>3, BelievesTyped
  <2>2. CASE ToolFor(c) \notin {"reschedule", "cancel"}
    BY <2>2 DEF ToolFails, TypeOK
  <2> QED BY <2>1, <2>2
<1>4. silent' \subseteq Conversations BY DEF ToolFails, TypeOK
<1>5. Ends(c) /\ StoreKept /\ committed' = committed BY DEF ToolFails, StoreKept
<1> QED BY <1>2, <1>3, <1>4, <1>5, QuietEnd

LEMMA StartSearchKeeps ==
    ASSUME BookingInv, NEW c \in Conversations, StartSearch(c)
    PROVE  BookingInv'
<1> USE DEF BookingInv
<1>1. pc[c] = "turn" BY DEF StartSearch, Runs
<1>2. offer' \in [Conversations -> [Ids -> Offers]]
  BY <1>1, TableTyped, LaysTyped DEF StartSearch
<1>3. /\ StoreKept /\ pc' = [pc EXCEPT ![c] = "search"]
      /\ UNCHANGED <<said, stale, committed, status, wish, silent>>
  BY DEF StartSearch, StoreKept, beliefs
<1>4. TypeOK' BY <1>1, <1>2, <1>3 DEF TypeOK, StoreKept
<1>5. TopicKnown' BY <1>1, <1>3 DEF TypeOK, TopicKnown, Topic, Known, StoreKept
<1> QED BY <1>3, <1>4, <1>5, KeptIsKept

LEMMA SearchEndKeeps ==
    ASSUME BookingInv, NEW c \in Conversations, SearchLost(c) \/ SearchReturns(c)
    PROVE  BookingInv'
<1> USE DEF BookingInv
<1>1. pc[c] # "idle" /\ Topic(c) \in Ids BY TopicIsId DEF SearchLost, SearchReturns
<1>2. Ends(c) /\ StoreKept /\ UNCHANGED <<committed, wish>>
  BY DEF SearchLost, SearchReturns, StoreKept, beliefs
<1>3. wish' \in [Conversations -> [Ids -> Times \union {"none"}]] BY <1>2 DEF TypeOK
<1>4. silent' \subseteq Conversations BY DEF SearchLost, SearchReturns, TypeOK
<1>5. status' \in [Conversations -> [Ids -> ActionStates]]
  <2>1. status' = status \/ status' = [status EXCEPT ![c][Topic(c)] = "open"]
    BY DEF SearchLost, SearchReturns, beliefs
  <2>2. "open" \in ActionStates BY DEF ActionStates
  <2>3. status \in [Conversations -> [Ids -> ActionStates]] BY DEF TypeOK
  <2> QED BY <1>1, <2>1, <2>2, <2>3
<1>6. offer' \in [Conversations -> [Ids -> Offers]]
  <2>1. offer[c] \in [Ids -> Offers] /\ NoOffer \in Offers BY DEF TypeOK, Offers
  <2>2. [offer[c] EXCEPT ![Topic(c)] = NoOffer] \in [Ids -> Offers] BY <1>1, <2>1
  <2>3. ASSUME NEW s \in Available
        PROVE  [offer[c] EXCEPT ![Topic(c)] =
                  [slot |-> s, for |-> wish[c][Topic(c)], status |-> "OFFERED"]] \in [Ids -> Offers]
    <3>1. wish[c][Topic(c)] \in Times \union {"none"} BY <1>1 DEF TypeOK
    <3>2. [slot |-> s, for |-> wish[c][Topic(c)], status |-> "OFFERED"] \in Offers
      BY <3>1 DEF Offers
    <3> QED BY <1>1, <2>1, <3>2
  <2>4. CASE offer' = offer BY <2>4 DEF TypeOK
  <2>5. CASE Lays(c, [offer[c] EXCEPT ![Topic(c)] = NoOffer]) BY <2>2, <2>5, LaysTyped
  <2>6. CASE \E s \in Available : Lays(c, [offer[c] EXCEPT ![Topic(c)] =
                  [slot |-> s, for |-> wish[c][Topic(c)], status |-> "OFFERED"]])
    BY <2>3, <2>6, LaysTyped
  <2> QED BY <2>4, <2>5, <2>6 DEF SearchLost, SearchReturns
<1> QED BY <1>2, <1>3, <1>4, <1>5, <1>6, QuietEnd

-----------------------------------------------------------------------------
(* Steps that change the store, or what is known of it. *)

\* Taking a free slot makes no overlap.
LEMMA FreeSlotExclusive ==
    ASSUME TypeOK, NoDoubleBooking, NEW i \in Ids, NEW s, FreeFor(s, i),
           row' = [row EXCEPT ![i] = s]
    PROVE  NoDoubleBooking'
<1>1. row \in [Ids -> Available \union {"absent", "cancelled"}] BY DEF TypeOK
<1>2. row'[i] = s /\ \A j \in Ids \ {i} : row'[j] = row[j] BY <1>1
<1>3. \A j \in Ids \ {i} : row[j] \in Available =>
          <<row[j], s>> \notin Overlaps /\ <<s, row[j]>> \notin Overlaps
  BY OverlapsAreReal DEF FreeFor, Booked
<1> QED BY <1>2, <1>3 DEF NoDoubleBooking, Booked

\* A confirmed offer is of a slot of the store.
LEMMA ConfirmedSlot ==
    ASSUME BookingInv, NEW c \in Conversations, Runs(c, "create")
    PROVE  Topic(c) \in Ids /\ offer[c][Topic(c)].slot \in Available
<1> USE DEF BookingInv
<1>1. Topic(c) \in Ids BY TopicIsId DEF Runs
<1>2. Confirmed(c) BY DEF Runs, ToolFor, ActionFor
<1>3. offer[c][Topic(c)] \in Offers BY <1>1 DEF TypeOK
<1> QED BY <1>1, <1>2, <1>3 DEF Confirmed, Offers, NoOffer

\* What all of create, reschedule and cancel share: one row and one belief.
LEMMA WrittenTyped ==
    ASSUME BookingInv, NEW c \in Conversations, pc[c] # "idle", Ends(c),
           \A d \in Conversations : persisted[d] \subseteq persisted'[d],
           row' \in [Ids -> Available \union {"absent", "cancelled"}],
           offer' \in [Conversations -> [Ids -> Offers]],
           persisted' \in [Conversations -> SUBSET Ids],
           committed' \in [Conversations -> [Ids -> Available \union {"none"}]],
           status' \in [Conversations -> [Ids -> ActionStates]],
           wish' \in [Conversations -> [Ids -> Times \union {"none"}]],
           silent' = silent
    PROVE  TypeOK' /\ TopicKnown'
<1> USE DEF BookingInv
<1>1. TopicKnown' BY EndsTyped
<1>2. TypeOK' BY EndsTyped DEF TypeOK
<1> QED BY <1>1, <1>2

LEMMA CreateKeeps ==
    ASSUME BookingInv, NEW c \in Conversations, Create(c)
    PROVE  BookingInv'
<1> USE DEF BookingInv
<1> DEFINE i == Topic(c)
           s == offer[c][i].slot
<1>1. pc[c] # "idle" /\ i \in Ids /\ s \in Available /\ i \in Known(c)
  BY ConfirmedSlot DEF Create, Runs, TopicKnown
<1>2. Ends(c) /\ silent' = silent /\ Lays(c, Settled(c)) BY DEF Create
<1>3. offer' \in [Conversations -> [Ids -> Offers]] BY <1>1, <1>2, TableTyped, LaysTyped
<1>4. {"booked", "open"} \subseteq ActionStates BY DEF ActionStates
<1>5. s \in Times \union {"none"} /\ wish[c][i] \in Times \union {"none"}
  BY <1>1, SlotsAreTimes DEF TypeOK
<1> HIDE DEF i, s
<1>6. CASE /\ row[i] = s \/ (row[i] = "absent" /\ FreeFor(s, i))
           /\ row' = [row EXCEPT ![i] = s]
           /\ Remember(c, i)
           /\ committed' = [committed EXCEPT ![c][i] = s]
           /\ Believes(c, i, "booked", s)
  <2>1. /\ row' \in [Ids -> Available \union {"absent", "cancelled"}]
        /\ row'[i] = s /\ \A j \in Ids \ {i} : row'[j] = row[j]
    BY <1>1, <1>6 DEF TypeOK
  <2>2. /\ persisted' \in [Conversations -> SUBSET Ids]
        /\ persisted'[c] = persisted[c] \union {i}
        /\ \A d \in Conversations \ {c} : persisted'[d] = persisted[d]
    BY <1>1, <1>6 DEF TypeOK, Remember
  <2>3. committed' \in [Conversations -> [Ids -> Available \union {"none"}]]
    <3>1. committed \in [Conversations -> [Ids -> Available \union {"none"}]] BY DEF TypeOK
    <3> QED BY <1>1, <1>6, <3>1
  <2>4. /\ status' \in [Conversations -> [Ids -> ActionStates]]
        /\ wish' \in [Conversations -> [Ids -> Times \union {"none"}]]
    BY <1>1, <1>4, <1>5, <1>6, BelievesTyped
  <2>5. TypeOK' /\ TopicKnown' BY <1>1, <1>2, <1>3, <2>1, <2>2, <2>3, <2>4, WrittenTyped
  <2>6. s # "absent" BY <1>1, SlotsAreTimes, TimesAreNoMarks
  <2>7. KnownWasBooked' BY <2>1, <2>2, <2>6 DEF KnownWasBooked, TypeOK
  <2>8. NoLostBooking'
    <3>1. row[i] = "absent" => i[1] = c BY <1>1 DEF Known, KnownWasBooked
    <3>2. \A j \in Ids : j[1] \in Conversations BY DEF Ids
    <3>3. i \in persisted'[i[1]] BY <1>1, <1>6, <2>2, <2>6, <3>1, <3>2 DEF NoLostBooking
    <3> QED BY <2>1, <2>2, <3>2, <3>3 DEF NoLostBooking
  <2>9. NoDoubleBooking'
    <3>1. CASE row[i] = s
      <4>1. row' = row BY <1>1, <1>6, <3>1 DEF TypeOK
      <4> QED BY <4>1 DEF NoDoubleBooking, Booked
    <3>2. CASE FreeFor(s, i) BY <1>1, <1>6, <3>2, FreeSlotExclusive
    <3> QED BY <1>6, <3>1, <3>2
  <2> QED BY <2>5, <2>7, <2>8, <2>9
<1>7. CASE TellsConflict(c, i) /\ UNCHANGED <<row, persisted, committed>>
  <2>1. /\ status' \in [Conversations -> [Ids -> ActionStates]]
        /\ wish' \in [Conversations -> [Ids -> Times \union {"none"}]]
    BY <1>1, <1>4, <1>5, <1>7, BelievesTyped DEF TellsConflict
  <2>2. silent' \subseteq Conversations BY <1>2 DEF TypeOK
  <2> QED BY <1>2, <1>3, <1>7, <2>1, <2>2, QuietEnd DEF StoreKept
<1> QED BY <1>6, <1>7 DEF Create, i, s

\* A write to the row of a known appointment loses nothing.
LEMMA KnownRowWritten ==
    ASSUME BookingInv, NEW c \in Conversations, NEW i \in persisted[c], NEW s, s # "absent",
           row' = [row EXCEPT ![i] = s], persisted' = persisted
    PROVE  KnownWasBooked' /\ NoLostBooking'
BY DEF BookingInv, TypeOK, KnownWasBooked, NoLostBooking

LEMMA RescheduleKeeps ==
    ASSUME BookingInv, NEW c \in Conversations, Reschedule(c)
    PROVE  BookingInv'
<1> USE DEF BookingInv
<1> DEFINE i == Topic(c)
           s == wish[c][i]
<1>1. pc[c] # "idle" /\ i \in Ids BY TopicIsId DEF Reschedule, Runs
<1>2. i \in persisted[c] BY DEF Reschedule, Runs, ToolFor, ActionFor
<1>3. Ends(c) /\ persisted' = persisted /\ silent' = silent /\ Lays(c, Table(c))
  BY DEF Reschedule
<1>4. offer' \in [Conversations -> [Ids -> Offers]] BY <1>1, <1>3, TableTyped, LaysTyped
<1>5. "booked" \in ActionStates BY DEF ActionStates
<1>6. s \in Times \union {"none"} BY <1>1 DEF TypeOK
<1>7. persisted' \in [Conversations -> SUBSET Ids] BY <1>3 DEF TypeOK
<1> HIDE DEF i, s
<1>8. CASE /\ Booked(i) /\ FreeFor(s, i)
           /\ row' = [row EXCEPT ![i] = s]
           /\ committed' = [committed EXCEPT ![c][i] = s]
           /\ Believes(c, i, "booked", s)
  <2>1. s \in Available /\ s # "absent"
    BY <1>8, SlotsAreTimes, TimesAreNoMarks DEF FreeFor
  <2>2. row' \in [Ids -> Available \union {"absent", "cancelled"}] BY <1>1, <1>8, <2>1 DEF TypeOK
  <2>3. committed' \in [Conversations -> [Ids -> Available \union {"none"}]]
    <3>1. committed \in [Conversations -> [Ids -> Available \union {"none"}]] BY DEF TypeOK
    <3> QED BY <1>1, <1>8, <2>1, <3>1
  <2>4. /\ status' \in [Conversations -> [Ids -> ActionStates]]
        /\ wish' \in [Conversations -> [Ids -> Times \union {"none"}]]
    BY <1>1, <1>5, <1>6, <1>8, BelievesTyped
  <2>5. TypeOK' /\ TopicKnown'
    BY <1>1, <1>3, <1>4, <1>7, <2>2, <2>3, <2>4, WrittenTyped
  <2>6. KnownWasBooked' /\ NoLostBooking' BY <1>2, <1>3, <1>8, <2>1, KnownRowWritten
  <2>7. NoDoubleBooking' BY <1>1, <1>8, FreeSlotExclusive
  <2> QED BY <2>5, <2>6, <2>7
<1>9. CASE UNCHANGED <<row, committed>> /\ \E t \in Times \union {"none"} : Believes(c, i, "booked", t)
  <2>1. /\ status' \in [Conversations -> [Ids -> ActionStates]]
        /\ wish' \in [Conversations -> [Ids -> Times \union {"none"}]]
    BY <1>1, <1>5, <1>9, BelievesTyped
  <2>2. silent' \subseteq Conversations BY <1>3 DEF TypeOK
  <2> QED BY <1>3, <1>4, <1>9, <2>1, <2>2, QuietEnd DEF StoreKept
<1>10. Booked(i) => row[i] \in Times \union {"none"} BY SlotsAreTimes DEF Booked
<1> QED BY <1>6, <1>8, <1>9, <1>10 DEF Reschedule, i, s

LEMMA CancelKeeps ==
    ASSUME BookingInv, NEW c \in Conversations, Cancel(c)
    PROVE  BookingInv'
<1> USE DEF BookingInv
<1> DEFINE i == Topic(c)
<1>1. pc[c] # "idle" /\ i \in Ids BY TopicIsId DEF Cancel, Runs
<1>2. i \in persisted[c] BY DEF Cancel, Runs, ToolFor, ActionFor
<1>3. /\ Ends(c) /\ Lays(c, Table(c)) /\ row' = [row EXCEPT ![i] = "cancelled"]
      /\ UNCHANGED <<persisted, committed, silent>>
      /\ Believes(c, i, "cancelled", wish[c][i])
  BY DEF Cancel, CancelRow
<1>4. offer' \in [Conversations -> [Ids -> Offers]] BY <1>1, <1>3, TableTyped, LaysTyped
<1>5. /\ status' \in [Conversations -> [Ids -> ActionStates]]
      /\ wish' \in [Conversations -> [Ids -> Times \union {"none"}]]
  <2>1. "cancelled" \in ActionStates BY DEF ActionStates
  <2>2. wish[c][i] \in Times \union {"none"} BY <1>1 DEF TypeOK
  <2> HIDE DEF i
  <2> QED BY <1>1, <1>3, <2>1, <2>2, BelievesTyped
<1> HIDE DEF i
<1>6. /\ row' \in [Ids -> Available \union {"absent", "cancelled"}]
      /\ persisted' \in [Conversations -> SUBSET Ids]
      /\ committed' \in [Conversations -> [Ids -> Available \union {"none"}]]
  BY <1>1, <1>3 DEF TypeOK
<1>7. TypeOK' /\ TopicKnown' BY <1>1, <1>3, <1>4, <1>5, <1>6, WrittenTyped
<1>8. KnownWasBooked' /\ NoLostBooking' BY <1>2, <1>3, KnownRowWritten
<1>9. NoDoubleBooking'
  <2>1. "cancelled" \notin Available BY SlotsAreTimes, TimesAreNoMarks
  <2>2. row'[i] = "cancelled" /\ \A j \in Ids \ {i} : row'[j] = row[j]
    BY <1>1, <1>3 DEF TypeOK
  <2> QED BY <2>1, <2>2 DEF NoDoubleBooking, Booked
<1> QED BY <1>7, <1>8, <1>9

LEMMA ListKeeps ==
    ASSUME BookingInv, NEW c \in Conversations, List(c)
    PROVE  BookingInv'
<1> USE DEF BookingInv
<1> DEFINE all == {i \in Ids : Booked(i)}
<1>1. /\ pc[c] # "idle" /\ Ends(c) /\ Lays(c, Table(c)) /\ row' = row /\ silent' = silent
      /\ persisted' = [persisted EXCEPT ![c] = @ \union all]
  BY DEF List, Runs
<1>2. row \in [Ids -> Available \union {"absent", "cancelled"}] BY DEF TypeOK
<1>3. offer' \in [Conversations -> [Ids -> Offers]] BY <1>1, TableTyped, LaysTyped
<1>4. /\ persisted' \in [Conversations -> SUBSET Ids]
      /\ persisted'[c] = persisted[c] \union all
      /\ \A d \in Conversations \ {c} : persisted'[d] = persisted[d]
  BY <1>1 DEF TypeOK
<1>5. committed' \in [Conversations -> [Ids -> Available \union {"none"}]]
  BY DEF List, TypeOK, Booked
<1>6. "booked" \in ActionStates BY DEF ActionStates
<1>7. status' \in [Conversations -> [Ids -> ActionStates]]
  BY <1>6 DEF List, TypeOK
<1>8. wish' \in [Conversations -> [Ids -> Times \union {"none"}]]
  BY SlotsAreTimes DEF List, TypeOK, Booked
<1>9. TypeOK' /\ TopicKnown'
  BY <1>1, <1>2, <1>3, <1>4, <1>5, <1>7, <1>8, WrittenTyped
<1>10. \A i \in all : row[i] # "absent" BY SlotsAreTimes, TimesAreNoMarks DEF Booked
<1>11. KnownWasBooked' BY <1>1, <1>4, <1>10 DEF KnownWasBooked
<1>12. NoLostBooking'
  <2>1. \A i \in Ids : i[1] \in Conversations BY DEF Ids
  <2> QED BY <1>1, <1>4, <2>1 DEF NoLostBooking
<1>13. NoDoubleBooking' BY <1>1 DEF NoDoubleBooking, Booked
<1> QED BY <1>9, <1>11, <1>12, <1>13

-----------------------------------------------------------------------------
(* The theorems. *)

\* Nothing is booked, said or offered at first.
LEMMA InitEstablishes == Init => BookingInv
<1> SUFFICES ASSUME Init PROVE BookingInv OBVIOUS
<1>1. TypeOK BY DEF Init, TypeOK, NoTurn, Turn, ActionStates, Offers, NoOffer
<1>2. KnownWasBooked /\ TopicKnown /\ NoLostBooking
  BY DEF Init, KnownWasBooked, TopicKnown, NoLostBooking
<1>3. NoDoubleBooking
  <2>1. "absent" \notin Available BY SlotsAreTimes, TimesAreNoMarks
  <2> QED BY <2>1 DEF Init, NoDoubleBooking, Booked
<1> QED BY <1>1, <1>2, <1>3 DEF BookingInv

LEMMA StepKeeps == BookingInv /\ [Next]_vars => BookingInv'
<1> SUFFICES ASSUME BookingInv, [Next]_vars PROVE BookingInv' OBVIOUS
<1>1. CASE UNCHANGED vars
  BY <1>1 DEF vars, beliefs, BookingInv, TypeOK, KnownWasBooked, TopicKnown, Topic, Known,
              NoLostBooking, NoDoubleBooking, Booked
<1>2. ASSUME NEW c \in Conversations, NEW kind \in Intents, NEW i \in Ids,
             NEW time \in Times \union {"none"}, Hear(c, kind, i, time)
      PROVE  BookingInv'
  BY <1>2, HearKeeps
<1>3. ASSUME NEW c \in Conversations, Interrupt(c) PROVE BookingInv'
  BY <1>3, InterruptKeeps
<1>4. ASSUME NEW c \in Conversations, Execute(c) PROVE BookingInv'
  BY <1>4, NoToolKeeps, ToolFailsKeeps, StartSearchKeeps, SearchEndKeeps, CreateKeeps,
     RescheduleKeeps, CancelKeeps, ListKeeps DEF Execute
<1> QED BY <1>1, <1>2, <1>3, <1>4 DEF Next

\* In every reachable state the invariant holds, for any conversations,
\* appointments and slots.
THEOREM BookingInvariant == Spec => []BookingInv
BY InitEstablishes, StepKeeps, PTL DEF Spec

\* Every variable keeps its type.
THEOREM BookingTypes == Spec => []TypeOK
<1>1. BookingInv => TypeOK BY DEF BookingInv
<1> QED BY <1>1, BookingInvariant, PTL

\* No two bookings overlap, however many conversations book, move and cancel
\* through the tools of the store.
THEOREM Exclusive == Spec => []NoDoubleBooking
<1>1. BookingInv => NoDoubleBooking BY DEF BookingInv
<1> QED BY <1>1, BookingInvariant, PTL

\* What create_appointment committed is known to its conversation, whatever
\* became of the response.
THEOREM NothingLost == Spec => []NoLostBooking
<1>1. BookingInv => NoLostBooking BY DEF BookingInv
<1> QED BY <1>1, BookingInvariant, PTL

-----------------------------------------------------------------------------
(* Every step is one of the calendar, or none. *)

LEMMA CalendarFree ==
    ASSUME NEW s, NEW i, FreeFor(s, i)
    PROVE  Calendar!Free(s, i)
BY DEF FreeFor, Booked, Calendar!Free, Calendar!Taken

LEMMA CalendarStep ==
    ASSUME BookingInv, [Next]_vars
    PROVE  [Calendar!CalendarNext]_row
<1> USE DEF BookingInv
<1>1. row \in [Ids -> Available \union {"absent", "cancelled"}] BY DEF TypeOK
<1>2. ASSUME NEW c \in Conversations, Create(c) PROVE [Calendar!CalendarNext]_row
  <2> DEFINE i == Topic(c)
             s == offer[c][i].slot
  <2>1. i \in Ids /\ s \in Available BY <1>2, ConfirmedSlot DEF Create
  <2>2. CASE row' = row BY <2>2
  <2>3. CASE row[i] = s /\ row' = [row EXCEPT ![i] = s]
    BY <1>1, <2>1, <2>3
  <2>4. CASE row[i] = "absent" /\ FreeFor(s, i) /\ row' = [row EXCEPT ![i] = s]
    BY <2>1, <2>4, CalendarFree DEF Calendar!CalendarNext, Calendar!Book
  <2> QED BY <1>2, <2>2, <2>3, <2>4 DEF Create
<1>3. ASSUME NEW c \in Conversations, Reschedule(c) PROVE [Calendar!CalendarNext]_row
  <2> DEFINE i == Topic(c)
             s == wish[c][i]
  <2>1. i \in Ids BY <1>3, TopicIsId DEF Reschedule, Runs
  <2>2. CASE row' = row BY <2>2
  <2>3. CASE Booked(i) /\ FreeFor(s, i) /\ row' = [row EXCEPT ![i] = s]
    <3>1. s \in Available BY <2>3 DEF FreeFor
    <3> QED BY <2>1, <2>3, <3>1, CalendarFree DEF Booked, Calendar!CalendarNext, Calendar!Move
  <2> QED BY <1>3, <2>2, <2>3 DEF Reschedule
<1>4. ASSUME NEW c \in Conversations, Cancel(c) PROVE [Calendar!CalendarNext]_row
  <2> DEFINE i == Topic(c)
  <2>1. i \in Ids BY <1>4, TopicIsId DEF Cancel, Runs
  <2>2. i \in persisted[c] BY <1>4 DEF Cancel, Runs, ToolFor, ActionFor
  <2>3. row[i] # "absent" BY <2>2 DEF KnownWasBooked
  <2>4. row' = [row EXCEPT ![i] = "cancelled"] BY <1>4 DEF Cancel, CancelRow
  <2>5. CASE row[i] = "cancelled" BY <1>1, <2>1, <2>4, <2>5
  <2>6. CASE row[i] \in Available
    BY <2>1, <2>4, <2>6 DEF Calendar!CalendarNext, Calendar!GiveUp
  <2> QED BY <1>1, <2>1, <2>3, <2>5, <2>6
<1>5. CASE row' = row BY <1>5
<1>6. ASSUME NEW c \in Conversations, Execute(c) PROVE [Calendar!CalendarNext]_row
  <2>1. CASE NoTool(c) \/ Refused(c) \/ ToolFails(c) \/ StartSearch(c) \/ SearchLost(c)
             \/ SearchReturns(c) \/ List(c)
    BY <1>5, <2>1 DEF NoTool, Refused, ToolFails, StartSearch, SearchLost, SearchReturns, List
  <2> QED BY <1>2, <1>3, <1>4, <1>6, <2>1 DEF Execute
<1>7. CASE UNCHANGED vars BY <1>5, <1>7 DEF vars
<1>8. ASSUME NEW c \in Conversations,
             Interrupt(c) \/ \E kind \in Intents, i \in Ids, time \in Times \union {"none"} :
                                 Hear(c, kind, i, time)
      PROVE  [Calendar!CalendarNext]_row
  BY <1>5, <1>8 DEF Interrupt, Hear
<1> QED BY <1>6, <1>7, <1>8 DEF Next

\* To everybody who shares the store, every tool call is one atomic change the
\* calendar allows.
THEOREM Refines == Spec => KeepsCalendar
<1>1. Init => Calendar!CalendarInit BY DEF Init, Calendar!CalendarInit
<1>2. BookingInv /\ [Next]_vars => [Calendar!CalendarNext]_row BY CalendarStep
<1> QED BY <1>1, <1>2, BookingInvariant, PTL DEF Spec, KeepsCalendar, Calendar!CalendarSpec

-----------------------------------------------------------------------------
(* Offers and beliefs. *)

\* What lies on a table answers what was asked for last, and is not booked yet.
Current(c, table) ==
    \A j \in Ids : table[j] # NoOffer => j \notin persisted[c] /\ table[j].for = wish[c][j]

\* So does every offer, unless this very turn asks anew.
OffersFresh ==
    \A c \in Conversations, i \in Ids :
        offer[c][i] # NoOffer =>
            /\ i \notin persisted[c]
            /\ offer[c][i].for # wish[c][i] => pc[c] = "turn" /\ i = Topic(c) /\ said[c].fresh

\* What is believed booked, or about to be cancelled, is known; what is known and
\* not believed cancelled is booked, or was cancelled by somebody else.
BeliefsKnown ==
    \A c \in Conversations, i \in Ids :
        /\ status[c][i] \in {"booked", "pending"} => i \in persisted[c]
        /\ i \in persisted[c] => status[c][i] # "open"
        /\ i \in persisted[c] /\ status[c][i] # "cancelled" /\ ~Booked(i) =>
               \E d \in Conversations \ {c} : i \in persisted[d]

\* The time a conversation remembers as committed is the booked one, as long as
\* nobody else knows of the booking.
CommittedKept ==
    \A c \in Conversations : \A i \in persisted[c] :
        Booked(i) /\ committed[c][i] # row[i] =>
            \E d \in Conversations \ {c} : i \in persisted[d]

\* The offers and beliefs of a conversation change with its own steps only.
Others(c) ==
    \A d \in Conversations \ {c} :
        UNCHANGED <<pc[d], said[d], offer[d], persisted[d], status[d], wish[d]>>

\* Planning takes what a new time outdated off the table.
LEMMA TableCurrent ==
    ASSUME BookingInv, OffersFresh, NEW c \in Conversations, pc[c] # "idle"
    PROVE  Current(c, Table(c)) /\ Current(c, Settled(c))
<1> USE DEF BookingInv
<1> DEFINE i == Topic(c)
<1>1. i \in Ids BY TopicIsId
<1>2. offer[c] \in [Ids -> Offers] BY DEF TypeOK
<1>3. Table(c) \in [Ids -> Offers] BY TableTyped
<1>4. \A j \in Ids \ {i} : Table(c)[j] = NoOffer \/ Table(c)[j] = offer[c][j]
  BY <1>1, <1>2 DEF Table
<1>5. Table(c)[i] # NoOffer => ~said[c].fresh /\ offer[c][i] # NoOffer
                               /\ Table(c)[i].for = offer[c][i].for
  <2>1. CASE said[c].kind = "list" BY <1>1, <2>1 DEF Table
  <2>2. CASE said[c].kind # "list" /\ said[c].kind = "yes" /\ Confirmed(c)
    <3>1. Table(c)[i] = [offer[c][i] EXCEPT !.status = "COMMITTING"]
      BY <1>1, <1>2, <2>2 DEF Table
    <3>2. offer[c][i] \in Offers BY <1>1, <1>2
    <3>3. Table(c)[i].for = offer[c][i].for BY <3>1, <3>2 DEF Offers, NoOffer
    <3>4. ~said[c].fresh /\ offer[c][i] # NoOffer
      BY <2>2 DEF Confirmed, Withdrawn, NoOffer
    <3> QED BY <3>3, <3>4
  <2>3. CASE said[c].kind # "list" /\ ~(said[c].kind = "yes" /\ Confirmed(c))
    BY <1>1, <1>2, <2>3 DEF Table, Withdrawn
  <2> QED BY <2>1, <2>2, <2>3
<1>6. Current(c, Table(c)) BY <1>1, <1>4, <1>5 DEF Current, OffersFresh
<1>7. \A j \in Ids : Settled(c)[j] = NoOffer \/ Settled(c)[j] = Table(c)[j]
  BY <1>1, <1>3 DEF Settled
<1> QED BY <1>6, <1>7 DEF Current

\* A step of one conversation that leaves current offers on its table.
LEMMA OffersAfter ==
    ASSUME BookingInv, OffersFresh, NEW c \in Conversations, Others(c),
           NEW table \in [Ids -> Offers], Lays(c, table),
           \A j \in Ids : table[j] # NoOffer => j \notin persisted'[c] /\ table[j].for = wish'[c][j]
    PROVE  OffersFresh'
<1>1. offer'[c] = table BY DEF BookingInv, TypeOK, Lays
<1> QED BY <1>1 DEF OffersFresh, Others, Topic

\* A step of one conversation that changes one row, and one belief of its own.
LEMMA BeliefsAfter ==
    ASSUME BeliefsKnown, NEW c \in Conversations, Others(c), NEW i \in Ids,
           \A j \in Ids \ {i} : /\ row'[j] = row[j]
                                /\ status'[c][j] = status[c][j]
                                /\ j \in persisted'[c] <=> j \in persisted[c],
           i \in persisted[c] => i \in persisted'[c],
           i \in persisted'[c] \/ row'[i] = row[i],
           status'[c][i] \in {"booked", "pending"} => i \in persisted'[c],
           i \in persisted'[c] => status'[c][i] # "open",
           i \in persisted'[c] /\ status'[c][i] # "cancelled" =>
               \/ row'[i] \in Available
               \/ row'[i] = row[i] /\ i \in persisted[c] /\ status[c][i] # "cancelled"
    PROVE  BeliefsKnown'
<1> SUFFICES ASSUME NEW d \in Conversations, NEW j \in Ids
             PROVE  /\ status'[d][j] \in {"booked", "pending"} => j \in persisted'[d]
                    /\ j \in persisted'[d] => status'[d][j] # "open"
                    /\ j \in persisted'[d] /\ status'[d][j] # "cancelled" /\ row'[j] \notin Available
                       => \E e \in Conversations \ {d} : j \in persisted'[e]
  BY DEF BeliefsKnown, Booked
<1>1. \A e \in Conversations : j \in persisted[e] => j \in persisted'[e] BY DEF Others
<1>2. CASE d = c /\ j = i BY <1>1, <1>2 DEF BeliefsKnown, Booked
<1>3. CASE d = c /\ j # i BY <1>1, <1>3 DEF BeliefsKnown, Booked
<1>4. CASE d # c
  <2>1. status'[d] = status[d] /\ persisted'[d] = persisted[d] BY <1>4 DEF Others
  <2>2. CASE row'[j] = row[j] BY <1>1, <2>1, <2>2 DEF BeliefsKnown, Booked
  <2>3. CASE row'[j] # row[j]
    <3>1. j \in persisted'[c] BY <2>3
    <3> QED BY <1>4, <2>1, <3>1 DEF BeliefsKnown
  <2> QED BY <2>2, <2>3
<1> QED BY <1>2, <1>3, <1>4

\* The invariant of the offers and beliefs.
TrustInv == BookingInv /\ OffersFresh /\ BeliefsKnown /\ CommittedKept

\* A step that ends a turn touches one conversation.
LEMMA EndsOthers ==
    ASSUME BookingInv, NEW c \in Conversations, Ends(c),
           NEW table, Lays(c, table) \/ offer' = offer,
           \A d \in Conversations \ {c} : UNCHANGED <<persisted[d], status[d], wish[d]>>
    PROVE  Others(c)
BY DEF BookingInv, TypeOK, Ends, Lays, Others

\* The store and every belief stay as they are.
LEMMA BeliefsStay ==
    ASSUME BeliefsKnown, UNCHANGED <<row, persisted, status>>
    PROVE  BeliefsKnown'
BY DEF BeliefsKnown, Booked

\* One belief of one conversation changes, and no other.
LEMMA BelievesOne ==
    ASSUME BookingInv, NEW c \in Conversations, NEW i \in Ids, NEW state, NEW time,
           Believes(c, i, state, time)
    PROVE  /\ status'[c][i] = state /\ wish'[c][i] = time
           /\ \A j \in Ids \ {i} : status'[c][j] = status[c][j] /\ wish'[c][j] = wish[c][j]
           /\ \A d \in Conversations \ {c} : status'[d] = status[d] /\ wish'[d] = wish[d]
BY DEF BookingInv, TypeOK, Believes

LEMMA HearTrusts ==
    ASSUME TrustInv, NEW c \in Conversations, NEW kind \in Intents, NEW i \in Ids,
           NEW time \in Times \union {"none"}, Hear(c, kind, i, time)
    PROVE  OffersFresh' /\ BeliefsKnown'
<1> USE DEF TrustInv, BookingInv
<1>1. /\ pc[c] = "idle" /\ pc'[c] = "turn"
      /\ Topic(c)' = i /\ said'[c].fresh = (time # wish[c][i])
      /\ UNCHANGED <<row, offer, persisted>>
  BY DEF Hear, TypeOK, Topic, Turn
<1>2. /\ wish'[c][i] = time /\ status'[c][i] = Derived(status[c][i], kind)
      /\ \A j \in Ids \ {i} : status'[c][j] = status[c][j] /\ wish'[c][j] = wish[c][j]
  BY DEF Hear, TypeOK
<1>3. Others(c) BY DEF Hear, TypeOK, Others
<1>4. OffersFresh'
  <2>1. ASSUME NEW j \in Ids, offer[c][j] # NoOffer
        PROVE  j \notin persisted[c] /\ offer[c][j].for = wish[c][j]
    BY <1>1, <2>1 DEF OffersFresh
  <2>2. ASSUME NEW j \in Ids, offer'[c][j] # NoOffer
        PROVE  /\ j \notin persisted'[c]
               /\ offer'[c][j].for # wish'[c][j] => j = i /\ said'[c].fresh
    BY <1>1, <1>2, <2>1, <2>2
  <2>3. ASSUME NEW d \in Conversations \ {c}, NEW j \in Ids, offer'[d][j] # NoOffer
        PROVE  /\ j \notin persisted'[d]
               /\ offer'[d][j].for # wish'[d][j] => pc'[d] = "turn" /\ j = Topic(d)' /\ said'[d].fresh
    BY <1>3, <2>3 DEF OffersFresh, Others, Topic
  <2> QED BY <1>1, <2>2, <2>3 DEF OffersFresh
<1>5. status[c][i] \in ActionStates BY DEF TypeOK
<1>6. /\ Derived(status[c][i], kind) \in {"booked", "pending"} => status[c][i] \in {"booked", "pending"}
      /\ Derived(status[c][i], kind) = "open" => status[c][i] = "open"
      /\ Derived(status[c][i], kind) # "cancelled" => status[c][i] # "cancelled"
  BY <1>5 DEF Derived, ActionStates
<1>7. BeliefsKnown'
  <2>1. status[c][i] \in {"booked", "pending"} => i \in persisted[c] BY DEF BeliefsKnown
  <2>2. i \in persisted[c] => status[c][i] # "open" BY DEF BeliefsKnown
  <2>3. i \in persisted[c] \/ row'[i] = row[i] BY <1>1
  <2> QED BY <1>1, <1>2, <1>3, <1>6, <2>1, <2>2, <2>3, BeliefsAfter
<1> QED BY <1>4, <1>7

LEMMA InterruptTrusts ==
    ASSUME TrustInv, NEW c \in Conversations, Interrupt(c)
    PROVE  OffersFresh' /\ BeliefsKnown'
BY DEF TrustInv, Interrupt, beliefs, OffersFresh, BeliefsKnown, Topic, Booked

\* The table of the plan, laid by a step that leaves what is known and wished.
LEMMA TableLaid ==
    ASSUME BookingInv, OffersFresh, NEW c \in Conversations, pc[c] # "idle", Others(c),
           Lays(c, Table(c)) \/ Lays(c, Settled(c)),
           persisted'[c] = persisted[c],
           \A j \in Ids \ {Topic(c)} : wish'[c][j] = wish[c][j],
           \/ wish'[c][Topic(c)] = wish[c][Topic(c)]
           \/ Topic(c) \in persisted[c]
           \/ Lays(c, Settled(c))
    PROVE  OffersFresh'
<1>1. Topic(c) \in Ids BY TopicIsId DEF BookingInv
<1>2. Table(c) \in [Ids -> Offers] /\ Settled(c) \in [Ids -> Offers]
  BY TableTyped DEF BookingInv
<1>3. Current(c, Table(c)) /\ Current(c, Settled(c)) BY TableCurrent
<1>4. Settled(c)[Topic(c)] = NoOffer BY <1>1, <1>2 DEF Settled
<1>5. CASE Lays(c, Settled(c))
  <2>1. \A j \in Ids : Settled(c)[j] # NoOffer =>
            j \notin persisted'[c] /\ Settled(c)[j].for = wish'[c][j]
    BY <1>3, <1>4 DEF Current
  <2> QED BY <1>2, <1>5, <2>1, OffersAfter
<1>6. CASE ~Lays(c, Settled(c))
  <2>1. \A j \in Ids : Table(c)[j] # NoOffer =>
            j \notin persisted'[c] /\ Table(c)[j].for = wish'[c][j]
    BY <1>3, <1>6 DEF Current
  <2> QED BY <1>2, <1>6, <2>1, OffersAfter
<1> QED BY <1>5, <1>6

LEMMA PlanTrusts ==
    ASSUME TrustInv, NEW c \in Conversations, NoTool(c) \/ Refused(c) \/ StartSearch(c)
    PROVE  OffersFresh' /\ BeliefsKnown'
<1> USE DEF TrustInv
<1>1. /\ pc[c] # "idle" /\ Lays(c, Table(c))
      /\ UNCHANGED <<row, persisted, status, wish>>
  BY DEF NoTool, Refused, StartSearch, Runs, beliefs
<1>2. Others(c)
  BY DEF NoTool, Refused, StartSearch, Ends, Lays, beliefs, BookingInv, TypeOK, Others
<1>3. OffersFresh' BY <1>1, <1>2, TableLaid
<1>4. BeliefsKnown' BY <1>1, BeliefsStay
<1> QED BY <1>3, <1>4

LEMMA ToolFailsTrusts ==
    ASSUME TrustInv, NEW c \in Conversations, ToolFails(c)
    PROVE  OffersFresh' /\ BeliefsKnown'
<1> USE DEF TrustInv
<1> DEFINE i == Topic(c)
<1>1. pc[c] # "idle" /\ i \in Ids BY TopicIsId DEF ToolFails, BookingInv
<1>2. /\ Ends(c) /\ UNCHANGED <<row, persisted>>
      /\ Lays(c, Table(c)) \/ Lays(c, Settled(c))
  BY DEF ToolFails
<1>3. CASE ToolFor(c) \in {"reschedule", "cancel"}
  <2>1. i \in persisted[c] /\ status[c][i] # "cancelled"
    BY <1>3 DEF ToolFor, ActionFor, Over
  <2>2. PICK time : Believes(c, i, "booked", time) BY <1>3 DEF ToolFails
  <2>3. /\ status'[c][i] = "booked"
        /\ \A j \in Ids \ {i} : status'[c][j] = status[c][j] /\ wish'[c][j] = wish[c][j]
        /\ \A d \in Conversations \ {c} : status'[d] = status[d] /\ wish'[d] = wish[d]
    BY <1>1, <2>2, BelievesOne
  <2>4. Others(c) BY <1>2, <2>3, EndsOthers
  <2>5. persisted'[c] = persisted[c] BY <1>2
  <2>6. OffersFresh' BY <1>1, <1>2, <2>1, <2>3, <2>4, <2>5, TableLaid
  <2>7. BeliefsKnown' BY <1>1, <1>2, <2>1, <2>3, <2>4, BeliefsAfter
  <2> QED BY <2>6, <2>7
<1>4. CASE ToolFor(c) \notin {"reschedule", "cancel"}
  <2>1. UNCHANGED <<status, wish>> BY <1>4 DEF ToolFails
  <2>2. Others(c) BY <1>2, <2>1, EndsOthers
  <2>3. persisted'[c] = persisted[c] BY <1>2
  <2>4. OffersFresh' BY <1>1, <1>2, <2>1, <2>2, <2>3, TableLaid
  <2>5. BeliefsKnown' BY <1>2, <2>1, BeliefsStay
  <2> QED BY <2>4, <2>5
<1> QED BY <1>3, <1>4

LEMMA SearchEndTrusts ==
    ASSUME TrustInv, NEW c \in Conversations, SearchLost(c) \/ SearchReturns(c)
    PROVE  OffersFresh' /\ BeliefsKnown'
<1> USE DEF TrustInv
<1> DEFINE i == Topic(c)
           found(s) == [slot |-> s, for |-> wish[c][i], status |-> "OFFERED"]
<1>1. pc[c] = "search" /\ i \in Ids BY TopicIsId DEF SearchLost, SearchReturns, BookingInv
<1>2. Ends(c) /\ UNCHANGED <<row, persisted, wish>> BY DEF SearchLost, SearchReturns, beliefs
<1>3. offer[c] \in [Ids -> Offers] BY DEF BookingInv, TypeOK
<1>4. Current(c, offer[c]) BY <1>1 DEF OffersFresh, Current
<1>5. CASE UNCHANGED <<offer, status>>
  <2>1. Others(c) BY <1>2, <1>5, EndsOthers
  <2>2. Lays(c, offer[c]) BY <1>5 DEF BookingInv, TypeOK, Lays
  <2>3. OffersFresh' BY <1>2, <1>3, <1>4, <2>1, <2>2, OffersAfter DEF Current
  <2> QED BY <1>2, <1>5, <2>3, BeliefsStay
<1>6. CASE /\ i \notin persisted[c] /\ status' = [status EXCEPT ![c][i] = "open"]
           /\ \/ \E s \in Available : Lays(c, [offer[c] EXCEPT ![i] = found(s)])
              \/ Lays(c, [offer[c] EXCEPT ![i] = NoOffer])
  <2>1. /\ status'[c][i] = "open"
        /\ \A j \in Ids \ {i} : status'[c][j] = status[c][j]
        /\ \A d \in Conversations \ {c} : status'[d] = status[d]
    BY <1>1, <1>6 DEF BookingInv, TypeOK
  <2>2. PICK entry : /\ entry = NoOffer \/ \E s \in Available : entry = found(s)
                     /\ Lays(c, [offer[c] EXCEPT ![i] = entry])
    BY <1>6
  <2> DEFINE table == [offer[c] EXCEPT ![i] = entry]
  <2>3. wish[c][i] \in Times \union {"none"} BY <1>1 DEF BookingInv, TypeOK
  <2>4. entry \in Offers /\ (entry # NoOffer => entry.for = wish[c][i])
    BY <2>2, <2>3 DEF Offers
  <2>5. table \in [Ids -> Offers] BY <1>1, <1>3, <2>4
  <2>6. \A j \in Ids : table[j] # NoOffer => j \notin persisted'[c] /\ table[j].for = wish'[c][j]
    BY <1>1, <1>2, <1>3, <1>4, <1>6, <2>4 DEF Current
  <2>7. Lays(c, table) BY <2>2
  <2> HIDE DEF table
  <2>8. Others(c) BY <1>2, <2>1, <2>7, EndsOthers
  <2>9. OffersFresh' BY <2>5, <2>6, <2>7, <2>8, OffersAfter
  <2>10. BeliefsKnown' BY <1>1, <1>2, <1>6, <2>1, <2>8, BeliefsAfter
  <2> QED BY <2>9, <2>10
<1> QED BY <1>5, <1>6 DEF SearchLost, SearchReturns, beliefs

LEMMA CreateTrusts ==
    ASSUME TrustInv, NEW c \in Conversations, Create(c)
    PROVE  OffersFresh' /\ BeliefsKnown'
<1> USE DEF TrustInv
<1> DEFINE i == Topic(c)
           s == offer[c][i].slot
<1>1. pc[c] # "idle" /\ i \in Ids /\ s \in Available BY ConfirmedSlot DEF Create, Runs
<1>2. Ends(c) /\ Lays(c, Settled(c)) BY DEF Create
<1>3. Confirmed(c) BY DEF Create, Runs, ToolFor, ActionFor
<1>4. i \notin persisted[c] BY <1>1, <1>3 DEF Confirmed, NoOffer, OffersFresh
<1>5. Settled(c) \in [Ids -> Offers] /\ Settled(c)[i] = NoOffer
  <2>1. Table(c) \in [Ids -> Offers] /\ Settled(c) \in [Ids -> Offers]
    BY <1>1, TableTyped DEF BookingInv
  <2> QED BY <1>1, <2>1 DEF Settled
<1>6. Current(c, Settled(c)) BY <1>1, TableCurrent
<1> HIDE DEF i, s
<1>7. CASE /\ row' = [row EXCEPT ![i] = s]
           /\ Remember(c, i)
           /\ Believes(c, i, "booked", s)
  <2>1. /\ status'[c][i] = "booked"
        /\ \A j \in Ids \ {i} : status'[c][j] = status[c][j] /\ wish'[c][j] = wish[c][j]
        /\ \A d \in Conversations \ {c} : status'[d] = status[d] /\ wish'[d] = wish[d]
    BY <1>1, <1>7, BelievesOne
  <2>2. /\ persisted'[c] = persisted[c] \union {i}
        /\ \A d \in Conversations \ {c} : persisted'[d] = persisted[d]
    BY <1>7 DEF BookingInv, TypeOK, Remember
  <2>3. row'[i] = s /\ \A j \in Ids \ {i} : row'[j] = row[j]
    BY <1>1, <1>7 DEF BookingInv, TypeOK
  <2>4. Others(c) BY <1>2, <2>1, <2>2, EndsOthers
  <2>5. \A j \in Ids : Settled(c)[j] # NoOffer =>
            j \notin persisted'[c] /\ Settled(c)[j].for = wish'[c][j]
    BY <1>5, <1>6, <2>1, <2>2 DEF Current
  <2>6. OffersFresh' BY <1>2, <1>5, <2>4, <2>5, OffersAfter
  <2>7. BeliefsKnown' BY <1>1, <2>1, <2>2, <2>3, <2>4, BeliefsAfter
  <2> QED BY <2>6, <2>7
<1>8. CASE TellsConflict(c, i) /\ UNCHANGED <<row, persisted>>
  <2>1. /\ status'[c][i] = "open"
        /\ \A j \in Ids \ {i} : status'[c][j] = status[c][j] /\ wish'[c][j] = wish[c][j]
        /\ \A d \in Conversations \ {c} : status'[d] = status[d] /\ wish'[d] = wish[d]
    BY <1>1, <1>8, BelievesOne DEF TellsConflict
  <2>2. Others(c) BY <1>2, <1>8, <2>1, EndsOthers
  <2>3. \A j \in Ids : Settled(c)[j] # NoOffer =>
            j \notin persisted'[c] /\ Settled(c)[j].for = wish'[c][j]
    BY <1>5, <1>6, <1>8, <2>1 DEF Current
  <2>4. OffersFresh' BY <1>2, <1>5, <2>2, <2>3, OffersAfter
  <2>5. BeliefsKnown' BY <1>1, <1>4, <1>8, <2>1, <2>2, BeliefsAfter
  <2> QED BY <2>4, <2>5
<1> QED BY <1>7, <1>8 DEF Create, i, s

LEMMA RescheduleTrusts ==
    ASSUME TrustInv, NEW c \in Conversations, Reschedule(c)
    PROVE  OffersFresh' /\ BeliefsKnown'
<1> USE DEF TrustInv
<1> DEFINE i == Topic(c)
           s == wish[c][i]
<1>1. pc[c] # "idle" /\ i \in Ids BY TopicIsId DEF Reschedule, Runs, BookingInv
<1>2. i \in persisted[c] /\ status[c][i] # "cancelled"
  BY DEF Reschedule, Runs, ToolFor, ActionFor, Over
<1>3. Ends(c) /\ Lays(c, Table(c)) /\ persisted' = persisted BY DEF Reschedule
<1>4. PICK time : Believes(c, i, "booked", time) BY DEF Reschedule
<1>5. /\ status'[c][i] = "booked"
      /\ \A j \in Ids \ {i} : status'[c][j] = status[c][j] /\ wish'[c][j] = wish[c][j]
      /\ \A d \in Conversations \ {c} : status'[d] = status[d] /\ wish'[d] = wish[d]
  BY <1>1, <1>4, BelievesOne
<1>6. Others(c) BY <1>3, <1>5, EndsOthers
<1>7. OffersFresh' BY <1>1, <1>2, <1>3, <1>5, <1>6, TableLaid
<1>8. \/ row' = row
      \/ row' = [row EXCEPT ![i] = s] /\ s \in Available
  BY DEF Reschedule, FreeFor
<1> HIDE DEF s
<1>9. /\ row'[i] \in Available \/ row'[i] = row[i]
      /\ \A j \in Ids \ {i} : row'[j] = row[j]
  BY <1>1, <1>8 DEF BookingInv, TypeOK
<1>10. BeliefsKnown'
  BY <1>1, <1>2, <1>3, <1>5, <1>6, <1>9, BeliefsAfter
<1> QED BY <1>7, <1>10

LEMMA CancelTrusts ==
    ASSUME TrustInv, NEW c \in Conversations, Cancel(c)
    PROVE  OffersFresh' /\ BeliefsKnown'
<1> USE DEF TrustInv
<1> DEFINE i == Topic(c)
<1>1. pc[c] # "idle" /\ i \in Ids BY TopicIsId DEF Cancel, Runs, BookingInv
<1>2. i \in persisted[c] BY DEF Cancel, Runs, ToolFor, ActionFor
<1>3. /\ Ends(c) /\ Lays(c, Table(c)) /\ persisted' = persisted
      /\ Believes(c, i, "cancelled", wish[c][i])
  BY DEF Cancel
<1>4. \A j \in Ids \ {i} : row'[j] = row[j]
  BY <1>1 DEF Cancel, CancelRow, BookingInv, TypeOK
<1>5. /\ status'[c][i] = "cancelled"
      /\ \A j \in Ids \ {i} : status'[c][j] = status[c][j] /\ wish'[c][j] = wish[c][j]
      /\ \A d \in Conversations \ {c} : status'[d] = status[d] /\ wish'[d] = wish[d]
  BY <1>1, <1>3, BelievesOne
<1>6. Others(c) BY <1>3, <1>5, EndsOthers
<1>7. OffersFresh' BY <1>1, <1>2, <1>3, <1>5, <1>6, TableLaid
<1>8. BeliefsKnown' BY <1>1, <1>2, <1>3, <1>4, <1>5, <1>6, BeliefsAfter
<1> QED BY <1>7, <1>8

LEMMA ListTrusts ==
    ASSUME TrustInv, NEW c \in Conversations, List(c)
    PROVE  OffersFresh' /\ BeliefsKnown'
<1> USE DEF TrustInv
<1> DEFINE all == {j \in Ids : Booked(j)}
<1>1. /\ Ends(c) /\ Lays(c, Table(c)) /\ row' = row
      /\ \A d \in Conversations \ {c} : UNCHANGED <<persisted[d], status[d], wish[d]>>
  BY DEF List, BookingInv, TypeOK
<1>2. persisted'[c] = persisted[c] \union all BY DEF List, BookingInv, TypeOK
<1>3. \A j \in Ids : status'[c][j] = IF j \in all \ persisted[c] THEN "booked" ELSE status[c][j]
  BY DEF List, BookingInv, TypeOK
<1>4. Table(c) = [j \in Ids |-> NoOffer]
  BY DEF List, Runs, ToolFor, ActionFor, Table
<1>5. Table(c) \in [Ids -> Offers] BY <1>4 DEF Offers
<1>6. Others(c) BY <1>1, EndsOthers
<1>7. OffersFresh' BY <1>1, <1>4, <1>5, <1>6, OffersAfter
<1>8. BeliefsKnown'
  <2> SUFFICES ASSUME NEW d \in Conversations, NEW j \in Ids
               PROVE  /\ status'[d][j] \in {"booked", "pending"} => j \in persisted'[d]
                      /\ j \in persisted'[d] => status'[d][j] # "open"
                      /\ j \in persisted'[d] /\ status'[d][j] # "cancelled" /\ ~Booked(j)
                         => \E e \in Conversations \ {d} : j \in persisted'[e]
    BY <1>1 DEF BeliefsKnown, Booked
  <2>1. \A e \in Conversations : j \in persisted[e] => j \in persisted'[e] BY <1>1, <1>2
  <2>2. CASE d = c BY <1>2, <1>3, <2>1, <2>2 DEF BeliefsKnown
  <2>3. CASE d # c
    <3>1. status'[d] = status[d] /\ persisted'[d] = persisted[d] BY <1>1, <2>3
    <3> QED BY <2>1, <3>1 DEF BeliefsKnown
  <2> QED BY <2>2, <2>3
<1> QED BY <1>7, <1>8

\* What is remembered as committed: a step of one conversation may write the row
\* of an appointment it knows, and then remembers what it wrote.
LEMMA CommittedAfter ==
    ASSUME BookingInv, CommittedKept, NEW c \in Conversations, NEW i \in Ids,
           \A d \in Conversations \ {c} : UNCHANGED <<persisted[d], committed[d]>>,
           \A j \in Ids \ {i} : UNCHANGED <<row[j], committed[c][j]>>,
           persisted'[c] = persisted[c] \union {i},
           row'[i] \in {committed'[c][i], "cancelled"}
    PROVE  CommittedKept'
<1> SUFFICES ASSUME NEW d \in Conversations, NEW j \in persisted'[d],
                    Booked(j)', committed'[d][j] # row'[j]
             PROVE  \E e \in Conversations \ {d} : j \in persisted'[e]
  BY DEF CommittedKept
<1>1. j \in Ids
  <2>1. persisted[c] \subseteq Ids /\ persisted[d] \subseteq Ids BY DEF BookingInv, TypeOK
  <2>2. persisted'[d] = persisted[d] \/ persisted'[d] = persisted[c] \union {i} OBVIOUS
  <2> QED BY <2>1, <2>2
<1>2. CASE j = i
  <2>1. "cancelled" \notin Available BY SlotsAreTimes, TimesAreNoMarks
  <2>2. d # c BY <1>2, <2>1 DEF Booked
  <2> QED BY <1>2, <2>2
<1>3. CASE j # i
  <2>1. j \in persisted[d] /\ row'[j] = row[j] /\ committed'[d][j] = committed[d][j]
    BY <1>1, <1>3
  <2>2. PICK e \in Conversations \ {d} : j \in persisted[e]
    BY <2>1 DEF CommittedKept, Booked
  <2> QED BY <2>2
<1> QED BY <1>2, <1>3

LEMMA ListCommits ==
    ASSUME BookingInv, CommittedKept, NEW c \in Conversations, List(c)
    PROVE  CommittedKept'
<1>1. /\ row' = row
      /\ \A d \in Conversations \ {c} : UNCHANGED <<persisted[d], committed[d]>>
      /\ persisted'[c] = persisted[c] \union {j \in Ids : Booked(j)}
      /\ \A j \in Ids : Booked(j) => committed'[c][j] = row[j]
  BY DEF List, BookingInv, TypeOK
<1> SUFFICES ASSUME NEW d \in Conversations, NEW j \in persisted'[d],
                    Booked(j), committed'[d][j] # row[j]
             PROVE  \E e \in Conversations \ {d} : j \in persisted'[e]
  BY <1>1 DEF CommittedKept, Booked
<1>2. d # c BY <1>1 DEF BookingInv, TypeOK
<1>3. PICK e \in Conversations \ {d} : j \in persisted[e] BY <1>1, <1>2 DEF CommittedKept
<1> QED BY <1>1, <1>3

LEMMA StepCommits ==
    ASSUME BookingInv, CommittedKept, [Next]_vars
    PROVE  CommittedKept'
<1> USE DEF BookingInv
<1>1. CASE UNCHANGED <<row, persisted, committed>>
  BY <1>1 DEF CommittedKept, Booked
<1>2. ASSUME NEW c \in Conversations, Create(c) PROVE CommittedKept'
  <2> DEFINE i == Topic(c)
             s == offer[c][i].slot
  <2>1. i \in Ids BY <1>2, TopicIsId DEF Create, Runs
  <2>2. CASE /\ row' = [row EXCEPT ![i] = s]
             /\ Remember(c, i)
             /\ committed' = [committed EXCEPT ![c][i] = s]
    <3> HIDE DEF i, s
    <3>1. persisted'[c] = persisted[c] \union {i} BY <2>2 DEF Remember, TypeOK
    <3>2. row'[i] = s /\ \A j \in Ids \ {i} : row'[j] = row[j] BY <2>1, <2>2 DEF TypeOK
    <3>3. /\ committed'[c][i] = s
          /\ \A j \in Ids \ {i} : committed'[c][j] = committed[c][j]
          /\ \A d \in Conversations \ {c} : UNCHANGED <<persisted[d], committed[d]>>
      BY <2>1, <2>2 DEF Remember, TypeOK
    <3> QED BY <2>1, <3>1, <3>2, <3>3, CommittedAfter
  <2> QED BY <1>1, <1>2, <2>2 DEF Create
<1>3. ASSUME NEW c \in Conversations, Reschedule(c) PROVE CommittedKept'
  <2> DEFINE i == Topic(c)
             s == wish[c][i]
  <2>1. i \in Ids /\ i \in persisted[c]
    BY <1>3, TopicIsId DEF Reschedule, Runs, ToolFor, ActionFor
  <2>2. CASE /\ row' = [row EXCEPT ![i] = s]
             /\ committed' = [committed EXCEPT ![c][i] = s]
             /\ persisted' = persisted
    <3> HIDE DEF i, s
    <3>1. persisted'[c] = persisted[c] \union {i} BY <2>1, <2>2
    <3>2. row'[i] = s /\ \A j \in Ids \ {i} : row'[j] = row[j] BY <2>1, <2>2 DEF TypeOK
    <3>3. /\ committed'[c][i] = s
          /\ \A j \in Ids \ {i} : committed'[c][j] = committed[c][j]
          /\ \A d \in Conversations \ {c} : UNCHANGED <<persisted[d], committed[d]>>
      BY <2>1, <2>2 DEF TypeOK
    <3> QED BY <2>1, <3>1, <3>2, <3>3, CommittedAfter
  <2> QED BY <1>1, <1>3, <2>2 DEF Reschedule
<1>4. ASSUME NEW c \in Conversations, Cancel(c) PROVE CommittedKept'
  <2>1. Topic(c) \in Ids /\ Topic(c) \in persisted[c]
    BY <1>4, TopicIsId DEF Cancel, Runs, ToolFor, ActionFor
  <2>2. row' = [row EXCEPT ![Topic(c)] = "cancelled"] /\ UNCHANGED <<persisted, committed>>
    BY <1>4 DEF Cancel, CancelRow
  <2>3. persisted'[c] = persisted[c] \union {Topic(c)} BY <2>1, <2>2
  <2>4. row'[Topic(c)] = "cancelled" /\ \A j \in Ids \ {Topic(c)} : row'[j] = row[j]
    BY <2>1, <2>2 DEF TypeOK
  <2> QED BY <2>1, <2>2, <2>3, <2>4, CommittedAfter
<1>5. ASSUME NEW c \in Conversations, Execute(c) PROVE CommittedKept'
  BY <1>1, <1>2, <1>3, <1>4, <1>5, ListCommits
     DEF Execute, NoTool, Refused, ToolFails, StartSearch, SearchLost, SearchReturns, beliefs
<1> QED BY <1>1, <1>5 DEF Next, Hear, Interrupt, vars, beliefs

LEMMA InitTrusts == Init => TrustInv
<1> SUFFICES ASSUME Init PROVE TrustInv OBVIOUS
<1>1. OffersFresh BY DEF Init, OffersFresh
<1>2. BeliefsKnown BY DEF Init, BeliefsKnown
<1>3. CommittedKept BY DEF Init, CommittedKept
<1> QED BY <1>1, <1>2, <1>3, InitEstablishes DEF TrustInv

LEMMA StepTrusts == TrustInv /\ [Next]_vars => TrustInv'
<1> SUFFICES ASSUME TrustInv, [Next]_vars PROVE TrustInv' OBVIOUS
<1>1. BookingInv' /\ CommittedKept' BY StepKeeps, StepCommits DEF TrustInv
<1>2. CASE UNCHANGED vars
  BY <1>1, <1>2 DEF TrustInv, vars, beliefs, OffersFresh, BeliefsKnown, Topic, Booked
<1>3. ASSUME NEW c \in Conversations, NEW kind \in Intents, NEW i \in Ids,
             NEW time \in Times \union {"none"}, Hear(c, kind, i, time)
      PROVE  TrustInv'
  BY <1>1, <1>3, HearTrusts DEF TrustInv
<1>4. ASSUME NEW c \in Conversations, Interrupt(c) PROVE TrustInv'
  BY <1>1, <1>4, InterruptTrusts DEF TrustInv
<1>5. ASSUME NEW c \in Conversations, Execute(c) PROVE TrustInv'
  <2>1. OffersFresh' /\ BeliefsKnown'
    BY <1>5, PlanTrusts, ToolFailsTrusts, SearchEndTrusts, CreateTrusts, RescheduleTrusts,
       CancelTrusts, ListTrusts DEF Execute
  <2> QED BY <1>1, <2>1 DEF TrustInv
<1> QED BY <1>2, <1>3, <1>4, <1>5 DEF Next

\* Offers and beliefs keep in step with what was said and what is booked.
THEOREM TrustInvariant == Spec => []TrustInv
BY InitTrusts, StepTrusts, PTL DEF Spec

\* The offer a yes would book is never one for a time the user has moved on from,
\* nor for what is booked already, whatever was interrupted or failed in between.
THEOREM OffersStayCurrent == Spec => []OfferIsCurrent
<1>1. TrustInv => OfferIsCurrent BY DEF TrustInv, OffersFresh, OfferIsCurrent
<1> QED BY <1>1, TrustInvariant, PTL

\* A conversation is wrong about what it takes for booked only when another one,
\* which knows of the appointment, has moved or cancelled it.
THEOREM BeliefsHold == Spec => []BelievedIsBooked
<1>1. TrustInv => BelievedIsBooked BY DEF TrustInv, BeliefsKnown, CommittedKept, BelievedIsBooked
<1> QED BY <1>1, TrustInvariant, PTL

=============================================================================

-------------------------- MODULE AppointmentBooking --------------------------
(***************************************************************************)
(* Booking an appointment by voice: the transaction coordinator of each    *)
(* conversation (tools/appointment_coordinator.py) with its tool executor, *)
(* what the conversation believes (runtime/appointment_state.py), and the  *)
(* one SQLite store they share (tools/sqlite_appointments.py).             *)
(*                                                                         *)
(* A turn of the user names an appointment and an intent; the response     *)
(* task then plans a tool call and makes it.  Only the search can take     *)
(* time: every other tool is planned, called and recorded without an await *)
(* in between, as one transaction of the store.                            *)
(***************************************************************************)
EXTENDS Naturals, FiniteSets

CONSTANTS
    Conversations,
    Names,          \* the appointments one conversation speaks about
    Times,          \* the times a user can ask for
    Available,      \* those that are slots of the store
    Overlaps        \* pairs of overlapping slots

ASSUME SlotsAreTimes == Available \subseteq Times
ASSUME OverlapsAreReal ==
    /\ Overlaps \subseteq Available \X Available
    /\ \A s \in Available : <<s, s>> \in Overlaps
    /\ \A s, t \in Available : <<s, t>> \in Overlaps => <<t, s>> \in Overlaps
ASSUME TimesAreNoMarks == {"absent", "cancelled", "none"} \intersect Times = {}

\* The database id is made of the conversation and its name for the appointment;
\* an appointment restored from the store goes by the same id here.
Ids == Conversations \X Names
Intents == {"slot", "unclear", "ask", "yes", "no", "cancel", "list"}

\* The action states that claim something; "open" stands for all that do not,
\* whether slots were found or a tool has failed.
ActionStates == {"open", "booked", "pending", "cancelled"}

VARIABLES
    row,        \* the store: per id its booked slot, "absent" or "cancelled"
    pc,         \* per conversation: "idle", "turn" or "search"
    said,       \* its user turn: intent, appointment, whether the time is new
    stale,      \* its response was interrupted: the token is outdated
    offer,      \* _pending_offers: slot, time asked for, status
    persisted,  \* keys of _persisted_ids
    committed,  \* _committed_start_datetimes
    status,     \* the tracker's action state
    wish,       \* the tracker's date and time
    silent      \* conversations whose latest response ended without a word

beliefs == <<persisted, committed, status, wish>>
vars == <<row, pc, said, stale, offer, beliefs, silent>>

NoOffer == [slot |-> "none", for |-> "none", status |-> "none"]
Turn(kind, i, fresh) == [kind |-> kind, id |-> i, fresh |-> fresh]
NoTurn == [kind |-> "none", id |-> "none", fresh |-> FALSE]

Booked(i) == row[i] \in Available

\* mutant: only the very slot is checked, not what overlaps it
FreeExactly(s, i) == s \in Available /\ \A j \in Ids \ {i} : row[j] # s

\* _available_slot: on offer, and no other booking overlaps it.
FreeFor(s, i) ==
    s \in Available /\ \A j \in Ids \ {i} : Booked(j) => <<row[j], s>> \notin Overlaps

Known(c) == {i \in Ids : i[1] = c} \union persisted[c]

-----------------------------------------------------------------------------
(* The user's turn, as apply_user_turn records it. *)

\* A booking is only given up by the tool; anything else at once.
Derived(now, kind) ==
    IF kind = "cancel" THEN (IF now = "booked" THEN "pending" ELSE "cancelled")
    ELSE IF now \in {"booked", "cancelled", "pending"} THEN now ELSE "open"

\* A turn may name another time; only then it carries new slots.  An unclear
\* one leaves something to be asked back.
Hear(c, kind, i, time) ==
    /\ pc[c] = "idle"
    /\ i \in Known(c)
    /\ IF kind = "slot" THEN time \in Times \ {wish[c][i]}
       ELSE IF kind \in {"ask", "unclear"} THEN time \in Times \union {wish[c][i]}
       ELSE time = wish[c][i]
    /\ pc' = [pc EXCEPT ![c] = "turn"]
    /\ said' = [said EXCEPT ![c] = Turn(kind, i, time # wish[c][i])]
    /\ wish' = [wish EXCEPT ![c][i] = time]
    /\ status' = [status EXCEPT ![c][i] = Derived(@, kind)]
    /\ silent' = silent \ {c}
    /\ UNCHANGED <<row, stale, offer, persisted, committed>>

\* A barge-in outdates the response's token.
Interrupt(c) ==
    /\ pc[c] # "idle"
    /\ ~stale[c]
    /\ stale' = [stale EXCEPT ![c] = TRUE]
    /\ UNCHANGED <<row, pc, said, offer, beliefs, silent>>

-----------------------------------------------------------------------------
(* _plan: which tool, and what becomes of the offers on the table. *)

Topic(c) == said[c].id

Over(c) == status[c][Topic(c)] \in {"cancelled", "pending"}

\* mutant: a corrected time leaves the offer on the table
WithdrawnByWord(c) == said[c].kind = "no" \/ Over(c)

\* A correction, a no or a cancellation takes the offer off the table.
Withdrawn(c) == said[c].fresh \/ said[c].kind = "no" \/ Over(c)

Confirmed(c) == ~Withdrawn(c) /\ offer[c][Topic(c)].status = "OFFERED"

\* What is asked for without a word about offers, lists or free slots.
ActionFor(c) ==
    LET i == Topic(c) IN
    CASE status[c][i] = "pending" /\ i \in persisted[c]          -> "cancel"
      [] ~Over(c) /\ i \in persisted[c] /\ said[c].fresh         -> "reschedule"
      [] ~Over(c) /\ i \notin persisted[c] /\ wish[c][i] # "none" -> "search"
      [] OTHER                                                   -> "none"

ToolFor(c) ==
    CASE said[c].kind = "list"                                    -> "list"
      [] said[c].kind = "ask"                                     -> "search"
      [] said[c].kind = "yes"                                     -> IF Confirmed(c) THEN "create" ELSE "none"
      [] said[c].kind = "no" /\ offer[c][Topic(c)] # NoOffer      -> "none"
      [] said[c].kind = "unclear"                                 -> "none"
      [] OTHER                                                    -> ActionFor(c)

\* A confirmed offer is COMMITTING while its tool runs; a yes to any other one
\* drops it, and a list drops all of them.
Table(c) ==
    LET i == Topic(c) IN
    IF said[c].kind = "list" THEN [j \in Ids |-> NoOffer]
    ELSE IF said[c].kind = "yes" /\ Confirmed(c)
         THEN [offer[c] EXCEPT ![i].status = "COMMITTING"]
    ELSE IF said[c].kind \in {"ask", "yes"} \/ Withdrawn(c)
         THEN [offer[c] EXCEPT ![i] = NoOffer]
    ELSE offer[c]

\* The table after the tool: the offer of the topic is settled.
Settled(c) == [Table(c) EXCEPT ![Topic(c)] = NoOffer]

Runs(c, tool) == pc[c] = "turn" /\ ToolFor(c) = tool

\* mutant: the turn is not closed with its response
EndsOpen(c) ==
    /\ pc' = [pc EXCEPT ![c] = "idle"]
    /\ stale' = [stale EXCEPT ![c] = FALSE]
    /\ UNCHANGED said

Ends(c) ==
    /\ pc' = [pc EXCEPT ![c] = "idle"]
    /\ said' = [said EXCEPT ![c] = NoTurn]
    /\ stale' = [stale EXCEPT ![c] = FALSE]

Lays(c, table) == offer' = [offer EXCEPT ![c] = table]

Believes(c, i, state, time) ==
    /\ status' = [status EXCEPT ![c][i] = state]
    /\ wish' = [wish EXCEPT ![c][i] = time]

-----------------------------------------------------------------------------
(* execute *)

NoTool(c) ==
    /\ Runs(c, "none")
    /\ Lays(c, Table(c))
    /\ Ends(c)
    /\ UNCHANGED <<row, beliefs, silent>>

\* The executor refuses to start outside of THINKING, after the plan was made.
Refused(c) ==
    /\ pc[c] = "turn" /\ ToolFor(c) # "none"
    /\ stale[c]
    /\ Lays(c, Table(c))
    /\ Ends(c)
    /\ UNCHANGED <<row, beliefs, silent>>

\* A tool that fails outdates the token of its own response: the fallback's
\* answer is discarded, an offer that was to be booked is invalidated, and what
\* is booked stays so.
ToolFails(c) ==
    LET i == Topic(c) IN
    /\ pc[c] = "turn" /\ ToolFor(c) \notin {"none", "search"}
    /\ ~stale[c]
    /\ Lays(c, IF ToolFor(c) = "create" THEN Settled(c) ELSE Table(c))
    /\ IF ToolFor(c) \in {"reschedule", "cancel"}
       THEN Believes(c, i, "booked",
                     IF ToolFor(c) = "reschedule" /\ committed[c][i] # "none"
                     THEN committed[c][i] ELSE wish[c][i])
       ELSE UNCHANGED <<status, wish>>
    /\ silent' = silent \union {c}
    /\ Ends(c)
    /\ UNCHANGED <<row, persisted, committed>>

StartSearch(c) ==
    /\ Runs(c, "search")
    /\ ~stale[c]
    /\ pc' = [pc EXCEPT ![c] = "search"]
    /\ Lays(c, Table(c))
    /\ UNCHANGED <<row, said, stale, beliefs, silent>>

\* The search of an interrupted response, one that fails or one that takes too
\* long leaves nothing behind.
SearchLost(c) ==
    /\ pc[c] = "search"
    /\ silent' = IF stale[c] THEN silent ELSE silent \union {c}
    /\ Ends(c)
    /\ UNCHANGED <<row, offer, beliefs>>

\* The one slot found is offered; several or none are only told.  A search
\* about a booked appointment changes nothing.
SearchReturns(c) ==
    LET i == Topic(c) IN
    /\ pc[c] = "search"
    /\ ~stale[c]
    /\ IF i \in persisted[c] THEN UNCHANGED <<offer, status>>
       ELSE /\ status' = [status EXCEPT ![c][i] = "open"]
            /\ \/ \E s \in {t \in Available : FreeFor(t, i)} :
                     Lays(c, [offer[c] EXCEPT
                         ![i] = [slot |-> s, for |-> wish[c][i], status |-> "OFFERED"]])
               \/ Lays(c, [offer[c] EXCEPT ![i] = NoOffer])
    /\ Ends(c)
    /\ UNCHANGED <<row, persisted, committed, wish, silent>>

\* mutant: a booking is not entered in _persisted_ids
RememberNothing(c, i) == UNCHANGED persisted
Remember(c, i) == persisted' = [persisted EXCEPT ![c] = @ \union {i}]

\* mutant: a conflict is taken for a booking
TakesConflict(c, i) == Believes(c, i, "booked", wish[c][i])
TellsConflict(c, i) == Believes(c, i, "open", wish[c][i])

\* create_appointment: a replay of the same booking, a new one, or a conflict.
Create(c) ==
    LET i == Topic(c)
        s == offer[c][i].slot
    IN
    /\ Runs(c, "create")
    /\ ~stale[c]
    /\ Lays(c, Settled(c))
    /\ \/ /\ row[i] = s \/ (row[i] = "absent" /\ FreeFor(s, i))
          /\ row' = [row EXCEPT ![i] = s]
          /\ Remember(c, i)
          /\ committed' = [committed EXCEPT ![c][i] = s]
          /\ Believes(c, i, "booked", s)
       \/ /\ row[i] # s
          /\ row[i] # "absent" \/ ~FreeFor(s, i)
          /\ TellsConflict(c, i)
          /\ UNCHANGED <<row, persisted, committed>>
    /\ Ends(c)
    /\ UNCHANGED silent

\* reschedule_appointment: what is not booked any more, or finds no free slot,
\* stays as it was.
Reschedule(c) ==
    LET i == Topic(c)
        s == wish[c][i]
    IN
    /\ Runs(c, "reschedule")
    /\ ~stale[c]
    /\ Lays(c, Table(c))
    /\ \/ /\ Booked(i) /\ FreeFor(s, i)
          /\ row' = [row EXCEPT ![i] = s]
          /\ committed' = [committed EXCEPT ![c][i] = s]
          /\ Believes(c, i, "booked", s)
       \/ /\ Booked(i) /\ ~FreeFor(s, i)
          /\ Believes(c, i, "booked", row[i])
          /\ UNCHANGED <<row, committed>>
       \/ /\ ~Booked(i)
          /\ Believes(c, i, "booked", s)
          /\ UNCHANGED <<row, committed>>
    /\ Ends(c)
    /\ UNCHANGED <<persisted, silent>>

\* mutant: the row is deleted, and its id free for another booking
DeleteRow(i) == row' = [row EXCEPT ![i] = "absent"]
CancelRow(i) == row' = [row EXCEPT ![i] = "cancelled"]

\* cancel_appointment, also of what was cancelled already.
Cancel(c) ==
    LET i == Topic(c) IN
    /\ Runs(c, "cancel")
    /\ ~stale[c]
    /\ Lays(c, Table(c))
    /\ CancelRow(i)
    /\ Believes(c, i, "cancelled", wish[c][i])
    /\ Ends(c)
    /\ UNCHANGED <<persisted, committed, silent>>

\* list_appointments: every booking of the store becomes known here; one that
\* was known keeps the tracker's state.
List(c) ==
    LET all == {i \in Ids : Booked(i)}
        new == all \ persisted[c]
    IN
    /\ Runs(c, "list")
    /\ ~stale[c]
    /\ Lays(c, Table(c))
    /\ persisted' = [persisted EXCEPT ![c] = @ \union all]
    /\ committed' = [committed EXCEPT ![c] =
                        [i \in Ids |-> IF i \in all THEN row[i] ELSE @[i]]]
    /\ status' = [status EXCEPT ![c] = [i \in Ids |-> IF i \in new THEN "booked" ELSE @[i]]]
    /\ wish' = [wish EXCEPT ![c] = [i \in Ids |-> IF i \in new THEN row[i] ELSE @[i]]]
    /\ Ends(c)
    /\ UNCHANGED <<row, silent>>

Execute(c) ==
    \/ NoTool(c) \/ Refused(c) \/ ToolFails(c)
    \/ StartSearch(c) \/ SearchLost(c) \/ SearchReturns(c)
    \/ Create(c) \/ Reschedule(c) \/ Cancel(c) \/ List(c)

-----------------------------------------------------------------------------
Init ==
    /\ row = [i \in Ids |-> "absent"]
    /\ pc = [c \in Conversations |-> "idle"]
    /\ said = [c \in Conversations |-> NoTurn]
    /\ stale = [c \in Conversations |-> FALSE]
    /\ offer = [c \in Conversations |-> [i \in Ids |-> NoOffer]]
    /\ persisted = [c \in Conversations |-> {}]
    /\ committed = [c \in Conversations |-> [i \in Ids |-> "none"]]
    /\ status = [c \in Conversations |-> [i \in Ids |-> "open"]]
    /\ wish = [c \in Conversations |-> [i \in Ids |-> "none"]]
    /\ silent = {}

Next ==
    \E c \in Conversations :
        \/ \E kind \in Intents, i \in Ids, time \in Times \union {"none"} : Hear(c, kind, i, time)
        \/ Interrupt(c)
        \/ Execute(c)

Spec == Init /\ [][Next]_vars
-----------------------------------------------------------------------------
(* Properties. *)

Offers == [slot : Available, for : Times \union {"none"}, status : {"OFFERED", "COMMITTING"}]
              \union {NoOffer}

\* Types of the store, the offers and what each conversation believes.
TypeOK ==
    /\ row \in [Ids -> Available \union {"absent", "cancelled"}]
    /\ pc \in [Conversations -> {"idle", "turn", "search"}]
    /\ said = [c \in Conversations |-> said[c]]
    /\ \A c \in Conversations :
          IF pc[c] = "idle" THEN said[c].kind = "none"
          ELSE said[c] \in [kind : Intents, id : Ids, fresh : BOOLEAN]
    /\ stale \in [Conversations -> BOOLEAN]
    /\ offer \in [Conversations -> [Ids -> Offers]]
    /\ persisted \in [Conversations -> SUBSET Ids]
    /\ committed \in [Conversations -> [Ids -> Available \union {"none"}]]
    /\ status \in [Conversations -> [Ids -> ActionStates]]
    /\ wish \in [Conversations -> [Ids -> Times \union {"none"}]]
    /\ silent \subseteq Conversations

\* No two bookings of one resource overlap, whichever conversations made or
\* moved them.
NoDoubleBooking ==
    \A i, j \in Ids : i # j /\ Booked(i) /\ Booked(j) => <<row[i], row[j]>> \notin Overlaps

\* Every booking is known to the conversation that made it, interrupted or not:
\* none is left in the store that its user was never told of.
NoLostBooking == \A i \in Ids : row[i] # "absent" => i \in persisted[i[1]]

\* Between turns, the offer a yes would book answers what the user asked for
\* last, and what is booked already has no offer.
OfferIsCurrent ==
    \A c \in Conversations, i \in Ids :
        pc[c] = "idle" /\ offer[c][i] # NoOffer
            => offer[c][i].for = wish[c][i] /\ i \notin persisted[c]

\* What a conversation believes booked is booked, for the time it goes back to
\* when a reschedule fails, unless another conversation that listed the
\* appointment has moved or cancelled it.
BelievedIsBooked ==
    \A c \in Conversations, i \in Ids :
        /\ pc[c] = "idle" /\ status[c][i] = "booked"
        /\ ~Booked(i) \/ committed[c][i] # row[i]
        => \E d \in Conversations \ {c} : i \in persisted[d]

Calendar == INSTANCE AppointmentCalendar

\* To everybody who shares the store each tool call is one atomic change.
KeepsCalendar == Calendar!CalendarSpec

-----------------------------------------------------------------------------
(* What the documents say and the code does not do. *)

\* docs/ARCHITECTURE.md: "exhausted attempts use an explicit safe fallback"; its
\* answer is discarded, because the failure outdated the response's own token.
FallbackIsAnswered == silent = {}

\* appointment_state.py calls record_tool_result "The only path allowed to claim
\* an external booking/cancellation result."; a question about another time
\* moves the date of what the tracker claims to be booked.
BookedTimeIsCommitted ==
    \A c \in Conversations, i \in Ids :
        /\ pc[c] = "idle" /\ status[c][i] = "booked"
        /\ \A d \in Conversations \ {c} : i \notin persisted[d]
        => wish[c][i] = row[i]

=============================================================================

----------------------------- MODULE CostLedger -----------------------------
(* What a session costs: the observer that prices each usage                *)
(* (cost/runtime.py, cost/pricing.py, cost/budget.py), the recorder whose   *)
(* thread appends the events to SQLite (cost/ledger.py), and the summary    *)
(* taken of them when the connection ends (cost/aggregation.py, web/app.py).*)
EXTENDS Naturals, Sequences, FiniteSets, SequencesExt, FiniteSetsExt

CONSTANTS
    Rules,          \* pricing rules: service, active, since, rate, and whether in EUR
    Warning, Limit, \* CostBudgetPolicy, in EUR
    CostRoom,       \* queue_size of the recorder
    Samples,        \* samples of a response's audio
    MaxUsages       \* bound on recorded events

ASSUME CostConstants ==
    /\ CostRoom \in Nat \ {0} /\ Samples \in Nat \ {0}
    /\ Warning \in Nat \ {0} /\ Limit \in Nat /\ Warning <= Limit
    /\ \A r \in Rules :
          r.rate \in Nat /\ r.since \in Nat /\ r.active \in BOOLEAN /\ r.eur \in BOOLEAN

VARIABLES
    observer,   \* RuntimeCostObserver, and the response it is told about
    usages,     \* history: every event handed to the recorder
    pending,    \* the recorder's queue
    appender,   \* its thread: none, idle, dead, or the event in hand
    notices,    \* failure callbacks waiting on the event loop
    reported,   \* events whose failure has been reported
    rows,       \* cost_events
    closer,     \* session.close and the end of the connection
    summary     \* the saved summary

costVars == <<observer, usages, pending, appender, notices, reported, rows, closer, summary>>

Sentinel == [id |-> 0]
InHand(e) == [doing |-> "append", event |-> e]
Thread(state) == [doing |-> state, event |-> Sentinel]

CostInit ==
    /\ observer = [response |-> 1, segment |-> 1, failed |-> FALSE, told |-> FALSE,
                   speech |-> {}, total |-> 0, warned |-> {}]
    /\ usages = <<>> /\ pending = <<>> /\ appender = Thread("none")
    /\ notices = <<>> /\ reported = {} /\ rows = {}
    /\ closer = "open" /\ summary = {}

-----------------------------------------------------------------------------
(* pricing.py, budget.py *)

\* The youngest active rule of the service; inactive ones never make money.
RuleFor(service) ==
    LET candidates == {r \in Rules : r.active /\ r.service = service}
    IN  {r \in candidates : \A other \in candidates : other.since <= r.since}

\* eur: an estimate in the currency of the budget.
Price(known, eur, estimate, actual, wasted) ==
    [known |-> known, eur |-> eur, estimate |-> estimate, actual |-> actual, wasted |-> wasted]

\* Without an estimate, and so without its currency.
Unpriced(actual, wasted) == Price(FALSE, FALSE, 0, actual, wasted)

\* The appointment database is local: what it costs is actual, not an estimate.
Priced(service, units) ==
    IF RuleFor(service) = {} THEN Unpriced(0, 0)
    ELSE LET rule == CHOOSE r \in RuleFor(service) : TRUE
             cost == units * rule.rate
         IN  IF service = "TOOL" THEN Unpriced(cost, 0) ELSE Price(TRUE, rule.eur, cost, 0, 0)

\* _observe_budget: a decision is emitted once.
BudgetDecision(total) ==
    IF total >= Limit THEN {"HARD_LIMIT_REACHED"}
    ELSE IF total >= Warning THEN {"WARNING_THRESHOLD_REACHED"} ELSE {}

\* mutant: every estimate is taken for one in EUR
AnyCurrency(o, e) ==
    IF ~e.known THEN o
    ELSE [o EXCEPT !.total = @ + e.estimate, !.warned = @ \cup BudgetDecision(o.total + e.estimate)]

\* The summary adds every currency up, the budget only EUR.
Observed(o, e) ==
    IF ~e.known \/ ~e.eur THEN o
    ELSE [o EXCEPT !.total = @ + e.estimate, !.warned = @ \cup BudgetDecision(o.total + e.estimate)]

-----------------------------------------------------------------------------
(* AsyncCostRecorder.record_nowait *)

Full == Len(pending) >= CostRoom
Closed == closer \notin {"open", "flushing"}

Event(service, operation, key, price) ==
    [id |-> Len(usages) + 1, key |-> <<service, operation, key>>, late |-> Closed,
     known |-> price.known, eur |-> price.eur, estimate |-> price.estimate, actual |-> price.actual,
     wasted |-> price.wasted]

\* A refusal is a notice like any other; only before the first event is there no
\* loop to post it to.
Records(e) ==
    /\ usages' = Append(usages, e)
    /\ \/ /\ ~Closed /\ ~Full
          /\ pending' = Append(pending, e)
          /\ UNCHANGED <<notices, reported>>
       \/ /\ Closed /\ appender.doing = "none"
          /\ reported' = reported \cup {e.id}
          /\ UNCHANGED <<pending, notices>>
       \/ /\ (Full /\ ~Closed) \/ (Closed /\ appender.doing # "none")
          /\ notices' = Append(notices, e.id)
          /\ UNCHANGED <<pending, reported>>
    /\ appender' = IF ~Closed /\ appender.doing = "none" THEN Thread("idle") ELSE appender
    /\ UNCHANGED <<rows, closer, summary>>

May == Len(usages) < MaxUsages

Tells(o, e) == observer' = Observed(o, e) /\ Records(e)

\* What the session tells of, under which operation id.
SttUsage == Event("STT", "streaming_transcription", Len(usages), Priced("STT", 1))
ToolUsage == Event("TOOL", "appointment", Len(usages), Priced("TOOL", 1))
LlmUsage == Event("LLM", "reasoning", observer.response, Priced("LLM", 1))
SpeechUsage(service, operation, price) ==
    Event(service, operation, <<observer.response, observer.segment>>, price)

RecordStt ==
    /\ May /\ ~observer.failed
    /\ Tells(observer, SttUsage)

RecordTool ==
    /\ May /\ ~observer.failed
    /\ Tells(observer, ToolUsage)

\* At the end of a response that was not cancelled.
RecordLlm ==
    /\ May /\ ~observer.failed /\ ~observer.told
    /\ Tells([observer EXCEPT !.told = TRUE], LlmUsage)

\* The fallback's segment is recorded after the primary's failure, in one step of the loop.
RecordPrimaryFailure ==
    /\ May /\ ~observer.failed
    /\ Tells([observer EXCEPT !.failed = TRUE],
             SpeechUsage("TTS", "primary_synthesis_failure", Unpriced(0, 0)))

\* One attempt at a segment.  An attempt without any audio is repeated under the
\* same segment, so under the same key.
RecordTts ==
    /\ May
    /\ \E audio \in BOOLEAN :
          LET service == IF observer.failed THEN "FALLBACK_TTS" ELSE "TTS"
              e == SpeechUsage(service, "streaming_synthesis", Priced(service, 1))
          IN  Tells([observer EXCEPT !.speech = @ \cup {e}, !.failed = FALSE,
                                     !.segment = IF audio THEN @ + 1 ELSE @], e)

\* The sum of an amount over some events.
Total(amount, events) == FoldSet(LAMBDA e, sum : sum + e[amount], 0, events)

\* round(): to the nearest number; of a tie, Decimal's digits decide.
Shares(cost, unheard) ==
    LET q == (cost * unheard) \div Samples
        r == (cost * unheard) % Samples
    IN  {w \in {q, q + 1} : IF w = q THEN 2 * r <= Samples ELSE 2 * r >= Samples}

\* The response is over: what was not heard of its audio is a share of its cost.
RecordPlayed ==
    /\ May /\ ~observer.failed /\ observer.segment > 1
    /\ \E unheard \in 0 .. Samples :
          \E wasted \in IF \A e \in observer.speech : e.known
                        THEN Shares(Total("estimate", observer.speech), unheard) ELSE {0} :
             Records(Event("TTS", "played_audio_allocation", observer.response,
                           Unpriced(0, wasted)))
    /\ observer' = [observer EXCEPT !.response = @ + 1, !.segment = 1, !.told = FALSE, !.speech = {}]

-----------------------------------------------------------------------------
(* The recorder's thread, and the callbacks it posts to the loop. *)

TakeUsage ==
    /\ appender.doing = "idle" /\ pending # <<>>
    /\ appender' = IF Head(pending) = Sentinel THEN Thread("dead") ELSE InHand(Head(pending))
    /\ pending' = Tail(pending)
    /\ UNCHANGED <<observer, usages, notices, reported, rows, closer, summary>>

\* mutant: only the id of an event is looked at
IsNewId(e) == \A row \in rows : row.id # e.id

\* dedupe_key TEXT NOT NULL UNIQUE
IsNew(e) == \A row \in rows : row.key # e.key

\* One row in one transaction, refused for a key that is there already.
Inserted(e) == IsNew(e) /\ rows' = rows \cup {e}

\* Any error of it is a notice, never an exception.
AppendRow ==
    /\ appender.doing = "append"
    /\ appender' = Thread("idle")
    /\ LET e == appender.event
       IN  \/ Inserted(e) /\ UNCHANGED notices
           \/ notices' = Append(notices, e.id) /\ UNCHANGED rows
    /\ UNCHANGED <<observer, usages, pending, reported, closer, summary>>

RunNotices ==
    /\ notices # <<>> /\ ~observer.failed
    /\ reported' = reported \cup Range(notices) /\ notices' = <<>>
    /\ UNCHANGED <<observer, usages, pending, appender, rows, closer, summary>>

-----------------------------------------------------------------------------
(* The end of a session. *)

Closes(from, to) ==
    /\ closer = from /\ closer' = to /\ ~observer.failed
    /\ UNCHANGED <<observer, usages, rows>>

StartClose == Closes("open", "flushing") /\ UNCHANGED <<pending, appender, notices, reported, summary>>

\* flush() has seen no unfinished task; close() goes on in the same step.
StopRecorder ==
    /\ Closes("flushing", IF appender.doing = "none" THEN "yielding" ELSE "joining")
    /\ pending = <<>> /\ appender.doing # "append"
    /\ pending' = IF appender.doing = "none" THEN <<>> ELSE <<Sentinel>>
    /\ UNCHANGED <<appender, notices, reported, summary>>

\* mutant: what was posted and not yet taken is left behind
JoinOnly ==
    /\ Closes("joining", "yielding")
    /\ appender.doing = "dead"
    /\ UNCHANGED <<pending, appender, notices, reported, summary>>

\* The thread is dead; sleep(0) lets everything run that was posted until now.
JoinAppender ==
    /\ Closes("joining", "yielding")
    /\ appender.doing = "dead"
    /\ reported' = reported \cup Range(notices) /\ notices' = <<>>
    /\ UNCHANGED <<pending, appender, summary>>

\* aggregate_cost_rows
Aggregated ==
    [estimate |-> Total("estimate", rows), actual |-> Total("actual", rows),
     wasted |-> Total("wasted", rows)]

\* If the database lets it be read and written.
SaveSummary ==
    /\ Closes("yielding", "done")
    /\ summary' \in {{}, {Aggregated}}
    /\ UNCHANGED <<pending, appender, notices, reported>>

CostNext ==
    \/ RecordStt \/ RecordTool \/ RecordLlm \/ RecordPrimaryFailure \/ RecordTts \/ RecordPlayed
    \/ TakeUsage \/ AppendRow \/ RunNotices
    \/ StartClose \/ StopRecorder \/ JoinAppender \/ SaveSummary

CostSpec == CostInit /\ [][CostNext]_costVars

-----------------------------------------------------------------------------
CostTypeOK ==
    /\ closer \in {"open", "flushing", "joining", "yielding", "done"}
    /\ appender.doing \in {"none", "idle", "append", "dead"}
    /\ Len(pending) <= CostRoom
    /\ \A row, other \in rows : row.key = other.key => row = other

\* No cost is lost in silence: when the session's summary is taken, every event
\* that was handed to the recorder in time is a row of it or has been reported,
\* though the thread, its callbacks and a response that outlives the session all
\* run on, and one that came too late is reported next; and if nothing was
\* refused the summary's estimate is what the budget was checked against and
\* what it never sees, the estimates in another currency than EUR, with no more
\* of it wasted than was spent (AsyncCostRecorder.close, _notify,
\* _observe_budget, aggregate_cost_rows).
CostAccounted ==
    closer = "done" =>
        /\ \A i \in DOMAIN usages :
              LET e == usages[i]
              IN  e \in rows \/ e.id \in reported \/ (e.late /\ e.id \in Range(notices))
        /\ \A s \in summary :
              reported = {} /\ notices = <<>> =>
                  /\ s.estimate = observer.total + Total("estimate", {e \in Range(usages) : ~e.eur})
                  /\ s.wasted <= s.estimate
=============================================================================

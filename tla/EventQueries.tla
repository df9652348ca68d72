----------------------------- MODULE EventQueries ----------------------------
(***************************************************************************)
(* The self-service API: a client lists its events page by page and looks  *)
(* at one with its attempts (routes.ts, notification-event-queries.ts),    *)
(* through one of two adapters, while the pipeline moves the rows; and the *)
(* service shuts down (main.ts).  Each await of a handler is a step.       *)
(*                                                                         *)
(* The pipeline is its abstract specification, Lifecycle: what holds here  *)
(* holds beside everything that implements it.                             *)
(***************************************************************************)
EXTENDS Fixture, FiniteSets

CONSTANTS
  Requests,              \* bound: the clients' conversations of one behaviour
  PageSize,
  StateFilters,          \* bound: the states a filter names
  Ranges,                \* bound: the date ranges <<from, to>> a filter names
  MaxLog                 \* bound: attempts per event

ASSUME QueriesAssumption ==
  /\ Events # {} /\ IsFiniteSet(Events)
  /\ PageSize \in Nat \ {0}
  /\ Ranges # {} /\ Ranges \subseteq Nat \X Nat
  /\ StateFilters \subseteq EventState
  /\ MaxLog \in Nat

VARIABLES
  adapter,               \* EVENTS_REPOSITORY
  state, attempts, retries,
  request,               \* request[q]: where conversation q is
  server, pool           \* the HTTP server and the database pool

tables == <<state, attempts, retries>>
process == <<adapter, server, pool>>
vars == <<tables, process, request>>

Life == INSTANCE Lifecycle

AnyState == "any"
Filter == [state : StateFilters \cup {AnyState}, range : Ranges]
Answers == {0, 200, 400, 401, 404, 429, 500}

\* counted, first, known, raced: observed only by properties.
Request ==
  [step : {"new", "count", "page", "shown", "row", "history", "done", "cut"},
   client : Clients, event : Events, filter : Filter, status : Answers,
   number : Nat, total : Nat, items : Seq(Events), seen : SUBSET Events,
   row : EventState \cup {"none"}, log : Seq(DeliveryStatus),
   counted : SUBSET Events, first : SUBSET Events, known : Nat, raced : BOOLEAN]

NewRequest ==
  [step |-> "new", client |-> CHOOSE c \in Clients : TRUE, event |-> CHOOSE e \in Events : TRUE,
   filter |-> CHOOSE f \in Filter : TRUE, status |-> 0,
   number |-> 0, total |-> 0, items |-> <<>>, seen |-> {}, row |-> "none", log |-> <<>>,
   counted |-> {}, first |-> {}, known |-> 0, raced |-> FALSE]

\* The tables are empty, or seeded; the file adapter has none.
Init ==
  /\ \/ /\ adapter \in {"postgres", "file"}
        /\ Life!Init
     \/ /\ adapter = "postgres"
        /\ state = SeededState
        /\ attempts = [e \in Events |-> <<SeededAttempt(e)>>]
        /\ retries = [e \in Events |-> SeededRetries(e)]
  /\ request = [q \in Requests |-> NewRequest]
  /\ server = "up" /\ pool = "open"

QueriesTypeOK ==
  /\ adapter \in {"postgres", "file"}
  /\ state \in [Events -> EventState \cup {"ABSENT"}]
  /\ attempts \in [Events -> Seq(DeliveryStatus)]
  /\ retries \in [Events -> Nat]
  /\ request \in [Requests -> Request]
  /\ server \in {"up", "closing", "closed", "exited"}
  /\ pool \in {"open", "ended"}

-----------------------------------------------------------------------------
(* The tables.                                                             *)

Pipeline ==
  /\ adapter = "postgres"
  /\ Life!Next
  /\ \A e \in Events : Len(attempts'[e]) <= MaxLog /\ retries'[e] <= MaxAttempts
  /\ UNCHANGED <<request, process>>

\* The filters: the client of the token, and what the client asks for.
Asked(f, wanted, e) == /\ f.state \in {AnyState, wanted}
                       /\ f.range[1] <= CreatedAt[e] /\ CreatedAt[e] <= f.range[2]

Matching(c, f) == {e \in Events : state[e] # "ABSENT" /\ Owner[e] = c /\ Asked(f, state[e], e)}

FileMatching(c, f) == {e \in Events : Owner[e] = c /\ Asked(f, FileState[e], e)}

\* What the adapter in use has to show.
Rows(c, f) == IF adapter = "postgres" THEN Matching(c, f) ELSE FileMatching(c, f)

\* A mistake in findPage: the order is left to the date alone.
PrecedesByDate(e, f) == CreatedAt[e] >= CreatedAt[f]

\* ORDER BY created_at DESC, id DESC; the file adapter sorts by the date and keeps the
\* order of the file.
Precedes(e, f) ==
  \/ CreatedAt[e] > CreatedAt[f]
  \/ /\ CreatedAt[e] = CreatedAt[f]
     /\ IF adapter = "postgres" THEN IdRank[e] > IdRank[f] ELSE Place[e] < Place[f]

\* The orders a statement may return rows in.
Listings(rows) ==
  {s \in [1..Cardinality(rows) -> rows] :
    \A i, j \in DOMAIN s : i < j => s[i] # s[j] /\ Precedes(s[i], s[j])}

Least(a, b) == IF a < b THEN a ELSE b

\* LIMIT page_size OFFSET (page - 1) * page_size.
PageOf(s, page) == SubSeq(s, (page - 1) * PageSize + 1, Least(page * PageSize, Len(s)))

TotalPages(total) == IF total = 0 THEN 1 ELSE (total + PageSize - 1) \div PageSize

-----------------------------------------------------------------------------
(* The requests.                                                           *)

Update(q, r) == request' = [request EXCEPT ![q] = r]

Answered(q, r, status) == Update(q, [r EXCEPT !.step = "done", !.status = status])

\* A request that is refused before it reaches a handler ends the conversation.
Refused(q, status) ==
  /\ request[q].step \in {"new", "shown"}
  /\ server = "up"
  /\ Answered(q, request[q], status)
  /\ UNCHANGED <<tables, process>>

\* rateLimit: 120 requests a minute, counted before anybody is authenticated.
Limited(q) == Refused(q, 429)

\* authenticate: no bearer token, or not a valid one.
Unauthenticated(q) == Refused(q, 401)

\* The schemas of the query string and of the id.
Malformed(q) == Refused(q, 400)

\* The client of the token asks for the first page.
AskList(q) ==
  /\ request[q].step = "new"
  /\ server = "up"
  /\ \E c \in Clients, f \in Filter :
       IF f.range[1] > f.range[2]
         THEN Answered(q, request[q], 400)
         ELSE Update(q, [request[q] EXCEPT !.step = "count", !.client = c, !.filter = f,
                                           !.number = 1, !.first = Rows(c, f)])
  /\ UNCHANGED <<tables, process>>

\* And then, if it likes, for the next one, as long as the answer promised one.
TurnPage(q) ==
  /\ request[q].step = "shown"
  /\ server = "up"
  /\ Update(q, [request[q] EXCEPT !.step = "count", !.number = @ + 1])
  /\ UNCHANGED <<tables, process>>

AskEvent(q) ==
  /\ request[q].step = "new"
  /\ server = "up"
  /\ \E c \in Clients, e \in Events :
       Update(q, [request[q] EXCEPT !.step = "row", !.client = c, !.event = e])
  /\ UNCHANGED <<tables, process>>

\* What the handler answers when the page is there.
ShowPage(q, r) ==
  Update(q, [r EXCEPT
    !.step = IF r.number < TotalPages(r.total) THEN "shown" ELSE "done",
    !.status = 200,
    !.seen = @ \cup {r.items[i] : i \in 1..Len(r.items)}])

Count(q) ==
  /\ request[q].step = "count"
  /\ adapter = "postgres" /\ pool = "open"
  /\ LET rows == Matching(request[q].client, request[q].filter)
     IN  Update(q, [request[q] EXCEPT !.step = "page", !.total = Cardinality(rows),
                                      !.counted = rows])
  /\ UNCHANGED <<tables, process>>

\* A mistake in findPage: the page first, the count after it.
ReadPageThenCount(q) ==
  /\ request[q].step = "page"
  /\ adapter = "postgres" /\ pool = "open"
  /\ LET r == request[q]
         rows == Matching(r.client, r.filter)
     IN  \E s \in Listings(r.counted) :
           ShowPage(q, [r EXCEPT !.items = PageOf(s, r.number), !.total = Cardinality(rows),
                                 !.raced = @ \/ rows # r.counted])
  /\ UNCHANGED <<tables, process>>

\* The second statement of findPage sees the table as it is by then.
ReadPage(q) ==
  /\ request[q].step = "page"
  /\ adapter = "postgres" /\ pool = "open"
  /\ LET r == request[q]
         rows == Matching(r.client, r.filter)
     IN  \E s \in Listings(rows) :
           ShowPage(q, [r EXCEPT !.items = PageOf(s, r.number),
                                 !.raced = @ \/ rows # r.counted])
  /\ UNCHANGED <<tables, process>>

\* The file adapter reads everything it needs at once.
FilePage(q) ==
  /\ request[q].step = "count"
  /\ adapter = "file"
  /\ LET r == request[q]
         rows == FileMatching(r.client, r.filter)
     IN  \E s \in Listings(rows) :
           ShowPage(q, [r EXCEPT !.items = PageOf(s, r.number), !.total = Cardinality(rows)])
  /\ UNCHANGED <<tables, process>>

\* A mistake in findByIdForClient: the row is looked up by its id alone.
ReadRowOfAnybody(q) ==
  /\ request[q].step = "row"
  /\ adapter = "postgres" /\ pool = "open"
  /\ LET r == request[q]
     IN  IF state[r.event] # "ABSENT"
           THEN Update(q, [r EXCEPT !.step = "history", !.row = state[r.event],
                                    !.known = Len(attempts[r.event])])
           ELSE Answered(q, r, 404)
  /\ UNCHANGED <<tables, process>>

ReadRow(q) ==
  /\ request[q].step = "row"
  /\ adapter = "postgres" /\ pool = "open"
  /\ LET r == request[q]
     IN  IF state[r.event] # "ABSENT" /\ Owner[r.event] = r.client
           THEN Update(q, [r EXCEPT !.step = "history", !.row = state[r.event],
                                    !.known = Len(attempts[r.event])])
           ELSE Answered(q, r, 404)
  /\ UNCHANGED <<tables, process>>

\* A mistake in findByIdForClient: the attempts first, the row after them.
ReadHistoryTooEarly(q) ==
  /\ request[q].step = "history"
  /\ adapter = "postgres" /\ pool = "open"
  /\ LET r == request[q]
     IN  Answered(q, [r EXCEPT !.log = SubSeq(attempts[r.event], 1, r.known),
                               !.row = state[r.event]], 200)
  /\ UNCHANGED <<tables, process>>

ReadHistory(q) ==
  /\ request[q].step = "history"
  /\ adapter = "postgres" /\ pool = "open"
  /\ Answered(q, [request[q] EXCEPT !.log = attempts[request[q].event]], 200)
  /\ UNCHANGED <<tables, process>>

FileDetail(q) ==
  /\ request[q].step = "row"
  /\ adapter = "file"
  /\ LET r == request[q]
     IN  IF Owner[r.event] = r.client
           THEN Answered(q, [r EXCEPT !.row = FileState[r.event],
                                      !.log = <<SynthesisedAttempt(r.event)>>], 200)
           ELSE Answered(q, r, 404)
  /\ UNCHANGED <<tables, process>>

InFlight(q) == request[q].step \in {"count", "page", "row", "history"}

\* A statement, or reading the file, fails: the error middleware answers.
QueryFails(q) ==
  /\ InFlight(q)
  /\ Answered(q, request[q], 500)
  /\ UNCHANGED <<tables, process>>

Converse(q) ==
  \/ Limited(q) \/ Unauthenticated(q) \/ Malformed(q)
  \/ AskList(q) \/ Count(q) \/ ReadPage(q) \/ TurnPage(q) \/ FilePage(q)
  \/ AskEvent(q) \/ ReadRow(q) \/ ReadHistory(q) \/ FileDetail(q)
  \/ QueryFails(q)

-----------------------------------------------------------------------------
(* Shutdown.                                                               *)

\* SIGTERM: no new request is taken.
Signal ==
  /\ server = "up"
  /\ server' = "closing"
  /\ UNCHANGED <<tables, request, adapter, pool>>

\* A mistake in shutdown: the closers run at once.
ClosedAtOnce ==
  /\ server = "closing"
  /\ server' = "closed" /\ pool' = "ended"
  /\ UNCHANGED <<tables, request, adapter>>

\* The callback of server.close: every request has been answered, so the pool may go.
Closed ==
  /\ server = "closing"
  /\ \A q \in Requests : ~InFlight(q)
  /\ server' = "closed" /\ pool' = "ended"
  /\ UNCHANGED <<tables, request, adapter>>

Exit ==
  /\ server = "closed"
  /\ server' = "exited"
  /\ UNCHANGED <<tables, request, adapter, pool>>

\* A mistake in shutdown: the timer is only set when the server has closed.
GraceExpiresLate == Exit

\* 15 s after the signal the process exits, whoever still waits for an answer.
GraceExpires ==
  /\ server \in {"closing", "closed"}
  /\ server' = "exited"
  /\ request' = [q \in Requests |->
       IF InFlight(q) THEN [request[q] EXCEPT !.step = "cut"] ELSE request[q]]
  /\ UNCHANGED <<tables, adapter, pool>>

Next ==
  \/ Pipeline
  \/ server # "exited" /\ \E q \in Requests : Converse(q)
  \/ Signal \/ Closed \/ Exit \/ GraceExpires

Spec == Init /\ [][Next]_vars

\* Callbacks and timers run.  Nothing obliges a statement to return.
Fairness == WF_vars(Closed) /\ WF_vars(Exit) /\ WF_vars(GraceExpires)

FairSpec == Spec /\ Fairness

-----------------------------------------------------------------------------
(* What holds.                                                             *)

\* "Not found and not yours are the same answer": nothing of an event reaches anybody
\* but its client, on a page or in detail, through either adapter.
OwnEventsOnly ==
  \A q \in Requests :
    /\ \A e \in request[q].seen : Owner[e] = request[q].client
    /\ request[q].row # "none" => Owner[request[q].event] = request[q].client

\* The state a detail shows is explained by the attempts beside it although the two are
\* read by separate statements: a DELIVERED ends with the success, and no attempt the row
\* knew of is missing.
DetailIsExplained ==
  \A q \in Requests :
    LET r == request[q]
    IN  r.status = 200 /\ r.row # "none" =>
          /\ Len(r.log) >= r.known
          /\ r.row = "DELIVERED" => (r.log # <<>> /\ r.log[Len(r.log)] = "SUCCESS")

\* A list without a state filter never shows a page emptier than the total beside it
\* promises: rows are not deleted, and the count comes before the page.
PageWithinTotal ==
  \A q \in Requests :
    LET r == request[q]
    IN  (r.step \in {"shown", "done"} /\ r.status = 200 /\ r.number > 0 /\ r.filter.state = AnyState) =>
            Len(r.items) >= Least(PageSize, r.total - (r.number - 1) * PageSize)

\* "For every event notification of a client": a client that follows the pages to the end
\* sees every event it had at the start, whatever is ingested meanwhile and however many
\* events share a date, unless one was ingested between the count and the page of one
\* request.  Not so with a filter on the state, which the pipeline changes.
WalkMissesNothing ==
  \A q \in Requests :
    LET r == request[q]
    IN  r.step = "done" /\ r.status = 200 /\ r.number > 0 /\ r.filter.state = AnyState /\ ~r.raced =>
          r.first \subseteq r.seen

\* The pool is not closed under a request.
PoolOutlivesRequests == pool = "ended" /\ server # "exited" => \A q \in Requests : ~InFlight(q)

\* The process stops, even if a statement never returns.
ShutdownCompletes == server = "closing" ~> server = "exited"
=============================================================================

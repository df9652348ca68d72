-------------------------- MODULE EventQueriesProofs -------------------------
(***************************************************************************)
(* Proofs about EventQueries: for every number of clients, events and      *)
(* requests, any page size, and whatever the pipeline does to the tables.  *)
(***************************************************************************)
EXTENDS EventQueries, FiniteSetTheorems, SequenceTheorems, TLAPS

\* The log of a delivered event ends with the success.
Explained(log) == log # <<>> /\ log[Len(log)] = "SUCCESS"

TablesInv ==
  /\ adapter \in {"postgres", "file"}
  /\ state \in [Events -> EventState \cup {"ABSENT"}]
  /\ attempts \in [Events -> Seq(DeliveryStatus)]
  /\ retries \in [Events -> Nat]
  /\ \A e \in Events : state[e] = "DELIVERED" => Explained(attempts[e])

\* Between the two statements of a detail, the log only grows, and not after a success.
Pending(r) ==
  /\ r.known <= Len(attempts[r.event])
  /\ r.row = "DELIVERED" => state[r.event] = "DELIVERED"

RequestInv(r) ==
  /\ r \in Request
  /\ r.step \in {"new", "row", "history"} => r.seen = {} /\ r.status # 200
  /\ r.step \in {"new", "row"} => r.known = 0
  /\ r.step \in {"count", "page", "shown"} => r.number >= 1
  /\ r.step \in {"new", "row", "count", "page", "shown"} => r.row = "none"
  /\ \A e \in r.seen : Owner[e] = r.client
  /\ r.row # "none" => Owner[r.event] = r.client
  /\ r.step = "history" => Pending(r)
  /\ r.status = 200 /\ r.row # "none" =>
       Len(r.log) >= r.known /\ (r.row = "DELIVERED" => Explained(r.log))

\* The pool goes when the server has closed, which it does when nobody is waiting.
ServerInv ==
  /\ server \in {"up", "closing", "closed", "exited"}
  /\ pool \in {"open", "ended"}
  /\ pool = "ended" => server \in {"closed", "exited"}
  /\ server = "closed" => \A q \in Requests : ~InFlight(q)

QueriesInv ==
  /\ TablesInv
  /\ request \in [Requests -> Request]
  /\ \A q \in Requests : RequestInv(request[q])
  /\ ServerInv

-----------------------------------------------------------------------------
LEMMA NewRequestOK == NewRequest \in Request /\ RequestInv(NewRequest)
<1>1. PICK e \in Events : TRUE
  BY QueriesAssumption
<1>2. Owner[e] \in Clients
  BY <1>1, FixtureAssumption
<1>3. PICK range \in Ranges : TRUE
  BY QueriesAssumption
<1>4. [state |-> AnyState, range |-> range] \in Filter
  BY <1>3 DEF Filter
<1>5. /\ (CHOOSE c \in Clients : TRUE) \in Clients
      /\ (CHOOSE f \in Events : TRUE) \in Events
      /\ (CHOOSE f \in Filter : TRUE) \in Filter
  BY <1>1, <1>2, <1>4
<1>6. NewRequest \in Request
  BY <1>5 DEF NewRequest, Request, Answers
<1>7. QED BY <1>6 DEF NewRequest, RequestInv

LEMMA SeededOK ==
  /\ SeededState \in [Events -> EventState]
  /\ \A e \in Events : /\ SeededAttempt(e) \in DeliveryStatus
                       /\ SeededRetries(e) \in Nat
                       /\ SeededState[e] = "DELIVERED" => SeededAttempt(e) = "SUCCESS"
BY FixtureAssumption
   DEF SeededState, SeededAttempt, SeededRetries, ToEventState, EventState, DeliveryStatus

LEMMA InitOK == Init => QueriesInv
<1> SUFFICES ASSUME Init PROVE QueriesInv
  OBVIOUS
<1>1. request \in [Requests -> Request] /\ \A q \in Requests : RequestInv(request[q])
  BY NewRequestOK DEF Init
<1>2. TablesInv
  <2>1. CASE Life!Init
    BY <2>1 DEF Init, Life!Init, TablesInv
  <2>2. CASE ~Life!Init
    <3>1. /\ adapter = "postgres" /\ state = SeededState
          /\ attempts = [e \in Events |-> <<SeededAttempt(e)>>]
          /\ retries = [e \in Events |-> SeededRetries(e)]
      BY <2>2 DEF Init
    <3>2. ASSUME NEW status \in DeliveryStatus
          PROVE  <<status>> \in Seq(DeliveryStatus) /\ <<status>> # <<>> /\ Len(<<status>>) = 1
                 /\ <<status>>[1] = status
      OBVIOUS
    <3>3. ASSUME NEW e \in Events
          PROVE  attempts[e] \in Seq(DeliveryStatus)
                 /\ (state[e] = "DELIVERED" => Explained(attempts[e]))
      <4>1. attempts[e] = <<SeededAttempt(e)>> /\ SeededAttempt(e) \in DeliveryStatus
        BY <3>1, SeededOK
      <4>2. state[e] = "DELIVERED" => SeededAttempt(e) = "SUCCESS"
        BY <3>1, SeededOK
      <4>3. QED BY <4>1, <4>2, <3>2 DEF Explained
    <3>4. retries \in [Events -> Nat]
      BY <3>1, SeededOK
    <3>5. attempts \in [Events -> Seq(DeliveryStatus)]
      BY <3>1, <3>3
    <3>6. state \in [Events -> EventState \cup {"ABSENT"}]
      BY <3>1, SeededOK
    <3>7. QED BY <3>1, <3>3, <3>4, <3>5, <3>6 DEF TablesInv
  <2>3. QED BY <2>1, <2>2
<1>3. ServerInv
  <2>1. \A q \in Requests : ~InFlight(q)
    BY DEF Init, InFlight, NewRequest
  <2>2. QED BY <2>1 DEF Init, ServerInv
<1>4. QED BY <1>1, <1>2, <1>3 DEF QueriesInv

-----------------------------------------------------------------------------
(* The pipeline.                                                           *)

\* What a step of the lifecycle does to one event.
LEMMA LifeStep ==
  ASSUME TablesInv, Life!Next, NEW e \in Events
  PROVE  /\ state'[e] \in EventState \cup {"ABSENT"}
         /\ \/ attempts'[e] = attempts[e]
            \/ \E status \in DeliveryStatus :
                 /\ state[e] = "DELIVERING"
                 /\ attempts'[e] = Append(attempts[e], status)
                 /\ state'[e] = OutcomeState(status)
         /\ state'[e] = "DELIVERED" /\ state[e] # "DELIVERED" =>
              attempts'[e] = Append(attempts[e], "SUCCESS")
         /\ state[e] = "DELIVERED" => state'[e] = "DELIVERED" /\ attempts'[e] = attempts[e]
         /\ retries'[e] \in Nat
<1> USE DEF TablesInv, Life!Move, EventState, DeliveryStatus, OutcomeState
<1>1. CASE \E f \in Events : Life!Ingest(f)
  BY <1>1 DEF Life!Ingest
<1>2. CASE \E f \in Events : Life!Begin(f)
  BY <1>2 DEF Life!Begin
<1>3. CASE \E f \in Events : Life!Close(f)
  BY <1>3 DEF Life!Close
<1>4. CASE \E f \in Events : Life!GiveUp(f)
  BY <1>4 DEF Life!GiveUp
<1>5. CASE \E f \in Events : Life!Reopen(f)
  BY <1>5 DEF Life!Reopen
<1>6. CASE \E f \in Events, status \in DeliveryStatus : Life!End(f, status)
  <2>1. PICK f \in Events, status \in DeliveryStatus : Life!End(f, status)
    BY <1>6
  <2>2. /\ state[f] = "DELIVERING"
        /\ state' = [d \in Events |-> IF d = f THEN OutcomeState(status) ELSE state[d]]
        /\ attempts' = [attempts EXCEPT ![f] = Append(@, status)]
        /\ retries' = retries
    BY <2>1 DEF Life!End, Life!OutcomeState, OutcomeState
  <2>3. CASE e = f
    <3>1. state'[e] = OutcomeState(status) /\ attempts'[e] = Append(attempts[e], status)
          /\ state[e] = "DELIVERING"
      BY <2>2, <2>3
    <3>2. OutcomeState(status) = "DELIVERED" => status = "SUCCESS"
      OBVIOUS
    <3>3. QED BY <2>2, <3>1, <3>2
  <2>4. CASE e # f
    BY <2>2, <2>4
  <2>5. QED BY <2>3, <2>4
<1>7. CASE \E S \in SUBSET Events : Life!Release(S)
  BY <1>7 DEF Life!Release
<1>8. CASE \E S \in SUBSET Events : Life!CountRetry(S)
  BY <1>8 DEF Life!CountRetry
<1>9. QED
  BY <1>1, <1>2, <1>3, <1>4, <1>5, <1>6, <1>7, <1>8 DEF Life!Next, Life!DeliveryStatus

LEMMA LifeShape ==
  ASSUME TablesInv, Life!Next
  PROVE  /\ state' \in [Events -> EventState \cup {"ABSENT"}]
         /\ attempts' \in [Events -> Seq(DeliveryStatus)]
         /\ retries' \in [Events -> Nat]
<1>1. DOMAIN state' = Events /\ state' = [e \in Events |-> state'[e]]
  BY DEF TablesInv, Life!Next, Life!Ingest, Life!Begin, Life!Close, Life!GiveUp, Life!Reopen,
         Life!End, Life!Release, Life!CountRetry, Life!Move
<1>2. attempts' = [e \in Events |-> attempts'[e]]
  BY DEF TablesInv, Life!Next, Life!Ingest, Life!Begin, Life!Close, Life!GiveUp, Life!Reopen,
         Life!End, Life!Release, Life!CountRetry, Life!Move
<1>3. retries' = [e \in Events |-> retries'[e]]
  BY DEF TablesInv, Life!Next, Life!Ingest, Life!Begin, Life!Close, Life!GiveUp, Life!Reopen,
         Life!End, Life!Release, Life!CountRetry, Life!Move
<1>4. \A e \in Events : attempts'[e] \in Seq(DeliveryStatus)
  <2>1. TAKE e \in Events
  <2>2. attempts[e] \in Seq(DeliveryStatus)
    BY DEF TablesInv
  <2>3. QED BY <2>2, LifeStep, AppendProperties, ZenonT(60)
<1>5. QED BY <1>1, <1>2, <1>3, <1>4, LifeStep

LEMMA PipelineOK == QueriesInv /\ Pipeline => QueriesInv'
<1> SUFFICES ASSUME QueriesInv, Pipeline PROVE QueriesInv'
  OBVIOUS
<1>1. Life!Next /\ TablesInv /\ UNCHANGED <<request, adapter, server, pool>>
  BY DEF Pipeline, process, QueriesInv
<1>2. TablesInv'
  <2>1. ASSUME NEW e \in Events, state'[e] = "DELIVERED" PROVE Explained(attempts'[e])
    <3>1. attempts[e] \in Seq(DeliveryStatus) /\ "SUCCESS" \in DeliveryStatus
      BY <1>1 DEF TablesInv, DeliveryStatus
    <3>2. CASE state[e] = "DELIVERED"
      BY <3>2, <1>1, LifeStep DEF TablesInv
    <3>3. CASE state[e] # "DELIVERED"
      <4>1. attempts'[e] = Append(attempts[e], "SUCCESS")
        BY <3>3, <2>1, <1>1, LifeStep
      <4>2. QED BY <4>1, <3>1, AppendProperties DEF Explained
    <3>4. QED BY <3>2, <3>3
  <2>2. QED BY <2>1, <1>1, LifeShape DEF TablesInv
<1>3. ASSUME NEW q \in Requests PROVE RequestInv(request[q])'
  <2> DEFINE r == request[q]
  <2>1. RequestInv(r) /\ r \in Request /\ r' = r
    BY <1>1 DEF QueriesInv
  <2>2. r.event \in Events
    BY <2>1 DEF Request
  <2>3. Len(attempts'[r.event]) >= Len(attempts[r.event])
    <3>1. attempts[r.event] \in Seq(DeliveryStatus)
      BY <1>1, <2>2 DEF TablesInv
    <3>2. QED BY <3>1, <2>2, <1>1, LifeStep, AppendProperties, LenProperties
  <2>4. Pending(r) => Pending(r)'
    <3>1. r.known \in Nat
      BY <2>1 DEF Request
    <3>2. attempts[r.event] \in Seq(DeliveryStatus) /\ attempts'[r.event] \in Seq(DeliveryStatus)
      BY <1>1, <1>2, <2>2 DEF TablesInv
    <3>3. Len(attempts[r.event]) \in Nat /\ Len(attempts'[r.event]) \in Nat
      BY <3>2, LenProperties
    <3>4. state[r.event] = "DELIVERED" => state'[r.event] = "DELIVERED"
      BY <1>1, <2>2, LifeStep
    <3>5. QED BY <2>1, <2>3, <3>1, <3>3, <3>4 DEF Pending
  <2>5. QED BY <2>1, <2>4 DEF RequestInv
<1>4. ServerInv'
  BY <1>1 DEF QueriesInv, ServerInv, InFlight
<1>5. QED BY <1>1, <1>2, <1>3, <1>4 DEF QueriesInv
-----------------------------------------------------------------------------
(* The conversations.                                                      *)

\* A step of one conversation, before the server has closed.
LEMMA UpdateOK ==
  ASSUME QueriesInv, NEW q \in Requests, NEW r, RequestInv(r),
         request' = [request EXCEPT ![q] = r], UNCHANGED <<tables, process>>,
         server # "closed"
  PROVE  QueriesInv'
<1>1. UNCHANGED <<adapter, state, attempts, retries, server, pool>>
  BY DEF tables, process
<1>2. r \in Request /\ request \in [Requests -> Request]
  BY DEF RequestInv, QueriesInv
<1>3. TablesInv'
  BY <1>1 DEF QueriesInv, TablesInv
<1>4. request' \in [Requests -> Request]
  BY <1>2
<1>5. ASSUME NEW u \in Requests PROVE RequestInv(request[u])'
  <2>1. RequestInv(request'[u])
    BY <1>2 DEF QueriesInv
  <2>2. QED BY <2>1, <1>1 DEF RequestInv, Pending
<1>6. ServerInv'
  BY <1>1 DEF QueriesInv, ServerInv
<1>7. QED BY <1>3, <1>4, <1>5, <1>6 DEF QueriesInv

LEMMA MatchingSets ==
  ASSUME NEW c, NEW f
  PROVE  /\ Matching(c, f) \subseteq Events /\ FileMatching(c, f) \subseteq Events
         /\ \A e \in Matching(c, f) \cup FileMatching(c, f) : Owner[e] = c
         /\ Cardinality(Matching(c, f)) \in Nat /\ Cardinality(FileMatching(c, f)) \in Nat
<1>1. /\ Matching(c, f) \subseteq Events /\ FileMatching(c, f) \subseteq Events
      /\ \A e \in Matching(c, f) \cup FileMatching(c, f) : Owner[e] = c
  BY DEF Matching, FileMatching
<1>2. IsFiniteSet(Matching(c, f)) /\ IsFiniteSet(FileMatching(c, f))
  BY <1>1, QueriesAssumption, FS_Subset
<1>3. QED BY <1>1, <1>2, FS_CardinalityType

\* A page consists of the rows it is a page of.
LEMMA PageRows ==
  ASSUME NEW rows \in SUBSET Events, Cardinality(rows) \in Nat,
         NEW s \in Listings(rows), NEW page \in Nat, page >= 1
  PROVE  PageOf(s, page) \in Seq(rows)
<1> DEFINE n == Cardinality(rows)
           m == (page - 1) * PageSize + 1
           last == Least(page * PageSize, Len(s))
<1>1. s \in [1..n -> rows] /\ n \in Nat
  BY DEF Listings
<1>2. s \in Seq(rows) /\ Len(s) = n
  BY <1>1
<1>3. PageSize \in Nat /\ page - 1 \in Nat
  BY QueriesAssumption
<1>4. (page - 1) * PageSize \in Nat /\ page * PageSize \in Nat
  BY <1>3
<1>5. m \in Int /\ m >= 1 /\ last \in Int /\ last <= n
  BY <1>1, <1>2, <1>4 DEF Least
<1>6. \A i \in m..last : s[i] \in rows
  BY <1>1, <1>5
<1>7. SubSeq(s, m, last) \in Seq(rows)
  BY <1>5, <1>6, SubSeqProperties
<1>8. QED BY <1>7 DEF PageOf

LEMMA ShowPageOK ==
  ASSUME QueriesInv, NEW q \in Requests, server # "closed", UNCHANGED <<tables, process>>,
         NEW r, RequestInv(r), r.step \in {"count", "page"},
         \A i \in 1..Len(r.items) : Owner[r.items[i]] = r.client,
         ShowPage(q, r)
  PROVE  QueriesInv'
<1> DEFINE shown == {r.items[i] : i \in 1..Len(r.items)}
           step == IF r.number < TotalPages(r.total) THEN "shown" ELSE "done"
           all == r.seen \cup shown
           t == [r EXCEPT !.step = step, !.status = 200, !.seen = all]
<1>1. r \in Request
  BY DEF RequestInv
<1>2. r.items \in Seq(Events) /\ r.seen \subseteq Events
  BY <1>1 DEF Request
<1>3. all \in SUBSET Events /\ \A e \in shown : Owner[e] = r.client
  BY <1>2
<1>11. \A e \in all : e \in r.seen \/ e \in shown
  OBVIOUS
<1>4. step \in {"shown", "done"}
  OBVIOUS
<1>8. request' = [request EXCEPT ![q] = t]
  BY DEF ShowPage, Update
<1> HIDE DEF shown, step, all
<1>12. 200 \in Answers /\ all \in SUBSET Events
  BY <1>3 DEF Answers
<1>10. t \in Request
  BY <1>1, <1>4, <1>12, ZenonT(60) DEF Request
<1>5. /\ t.step \in {"shown", "done"} /\ t.status = 200
      /\ t.seen = all
      /\ t.client = r.client /\ t.row = r.row /\ t.number = r.number
  BY <1>1, <1>4 DEF Request
<1>6. r.row = "none" /\ r.number >= 1 /\ \A e \in r.seen : Owner[e] = r.client
  BY DEF RequestInv
<1>7. RequestInv(t)
  BY <1>10, <1>11, <1>3, <1>5, <1>6 DEF RequestInv
<1>9. QED BY <1>7, <1>8, UpdateOK

\* What an answer without an event does to a conversation.
LEMMA AnsweredOK ==
  ASSUME QueriesInv, NEW q \in Requests, server # "closed", UNCHANGED <<tables, process>>,
         NEW status \in Answers \ {200}, Answered(q, request[q], status)
  PROVE  QueriesInv'
<1> DEFINE r == request[q]
           t == [r EXCEPT !.step = "done", !.status = status]
<1>1. r \in Request /\ RequestInv(r)
  BY DEF QueriesInv
<1>2. t \in Request
  BY <1>1 DEF Request
<1>3. /\ t.step = "done" /\ t.status = status /\ t.seen = r.seen /\ t.client = r.client
      /\ t.row = r.row /\ t.event = r.event /\ t.log = r.log /\ t.known = r.known
  BY <1>1 DEF Request
<1>4. RequestInv(t)
  BY <1>1, <1>2, <1>3 DEF RequestInv
<1>5. request' = [request EXCEPT ![q] = t]
  BY DEF Answered, Update
<1>6. QED BY <1>4, <1>5, UpdateOK

LEMMA AsksOK ==
  ASSUME QueriesInv, NEW q \in Requests, AskList(q) \/ TurnPage(q) \/ AskEvent(q)
  PROVE  QueriesInv'
<1> DEFINE r == request[q]
<1>1. r \in Request /\ RequestInv(r) /\ server # "closed" /\ UNCHANGED <<tables, process>>
  BY DEF QueriesInv, AskList, TurnPage, AskEvent
<1>2. CASE AskList(q)
  <2>1. PICK c \in Clients, f \in Filter :
          IF f.range[1] > f.range[2]
            THEN Answered(q, r, 400)
            ELSE Update(q, [r EXCEPT !.step = "count", !.client = c, !.filter = f,
                                     !.number = 1, !.first = Rows(c, f)])
    BY <1>2 DEF AskList
  <2>2. CASE Answered(q, r, 400)
    BY <1>1, <2>2, AnsweredOK DEF Answers
  <2>3. CASE ~Answered(q, r, 400)
    <3> DEFINE t == [r EXCEPT !.step = "count", !.client = c, !.filter = f,
                              !.number = 1, !.first = Rows(c, f)]
    <3>1. r.step = "new"
      BY <1>2 DEF AskList
    <3>2. t \in Request
      BY <1>1, MatchingSets DEF Request, Rows
    <3>3. /\ t.step = "count" /\ t.number = 1 /\ t.seen = r.seen /\ t.row = r.row
          /\ t.status = r.status
      BY <1>1 DEF Request
    <3>4. r.seen = {} /\ r.row = "none"
      BY <1>1, <3>1 DEF RequestInv
    <3>5. RequestInv(t)
      BY <3>2, <3>3, <3>4 DEF RequestInv
    <3>6. request' = [request EXCEPT ![q] = t]
      BY <2>1, <2>3 DEF Update
    <3>7. QED BY <1>1, <3>5, <3>6, UpdateOK
  <2>4. QED BY <2>2, <2>3
<1>3. CASE TurnPage(q)
  <2> DEFINE n == r.number + 1
             t == [r EXCEPT !.step = "count", !.number = n]
  <2>1. r.step = "shown" /\ request' = [request EXCEPT ![q] = t]
    BY <1>3 DEF TurnPage, Update
  <2>7. r.number \in Nat /\ r.number >= 1 /\ r.row = "none" /\ \A e \in r.seen : Owner[e] = r.client
    BY <1>1, <2>1 DEF RequestInv, Request
  <2>2. n \in Nat /\ n >= 1
    BY <2>7
  <2> HIDE DEF n
  <2>3. t \in Request
    BY <1>1, <2>2 DEF Request
  <2>4. /\ t.step = "count" /\ t.number = n /\ t.seen = r.seen /\ t.row = r.row
        /\ t.client = r.client
    BY <1>1, <2>2 DEF Request
  <2>5. RequestInv(t)
    BY <2>2, <2>3, <2>4, <2>7 DEF RequestInv
  <2>6. QED BY <1>1, <2>1, <2>5, UpdateOK
<1>4. CASE AskEvent(q)
  <2>1. PICK c \in Clients, e \in Events :
          request' = [request EXCEPT ![q] =
                        [r EXCEPT !.step = "row", !.client = c, !.event = e]]
    BY <1>4 DEF AskEvent, Update
  <2> DEFINE t == [r EXCEPT !.step = "row", !.client = c, !.event = e]
  <2>2. r.step = "new"
    BY <1>4 DEF AskEvent
  <2>3. t \in Request
    BY <1>1 DEF Request
  <2>4. /\ t.step = "row" /\ t.seen = r.seen /\ t.row = r.row /\ t.status = r.status
        /\ t.known = r.known
    BY <1>1 DEF Request
  <2>5. r.seen = {} /\ r.row = "none" /\ r.status # 200 /\ r.known = 0
    BY <1>1, <2>2 DEF RequestInv
  <2>6. RequestInv(t)
    BY <2>3, <2>4, <2>5 DEF RequestInv
  <2>7. QED BY <1>1, <2>1, <2>6, UpdateOK
<1>5. QED BY <1>2, <1>3, <1>4

LEMMA PagesOK ==
  ASSUME QueriesInv, NEW q \in Requests, Count(q) \/ ReadPage(q) \/ FilePage(q)
  PROVE  QueriesInv'
<1> DEFINE r == request[q]
           c == r.client
           f == r.filter
<1>1. r \in Request /\ RequestInv(r) /\ UNCHANGED <<tables, process>>
  BY DEF QueriesInv, Count, ReadPage, FilePage
<1>2. r.step \in {"count", "page"} /\ server # "closed"
  BY DEF QueriesInv, ServerInv, InFlight, Count, ReadPage, FilePage
<1>3. /\ r.seen \subseteq Events /\ \A e \in r.seen : Owner[e] = c
      /\ r.row = "none" /\ r.number \in Nat /\ r.number >= 1
  BY <1>1, <1>2 DEF RequestInv, Request
<1>4. CASE Count(q)
  <2> DEFINE rows == Matching(c, f)
             n == Cardinality(rows)
             t == [r EXCEPT !.step = "page", !.total = n, !.counted = rows]
  <2>1. rows \in SUBSET Events /\ n \in Nat
    BY MatchingSets
  <2>2. request' = [request EXCEPT ![q] = t]
    BY <1>4 DEF Count, Update
  <2> HIDE DEF rows, n
  <2>3. t \in Request
    BY <1>1, <2>1 DEF Request
  <2>4. /\ t.step = "page" /\ t.number = r.number /\ t.seen = r.seen /\ t.row = r.row
        /\ t.client = r.client
    BY <1>1 DEF Request
  <2>5. RequestInv(t)
    BY <1>3, <2>3, <2>4 DEF RequestInv
  <2>6. QED BY <1>1, <1>2, <2>2, <2>5, UpdateOK
<1>5. CASE ReadPage(q)
  <2> DEFINE rows == Matching(c, f)
             raced == r.raced \/ rows # r.counted
  <2>1. PICK s \in Listings(rows) :
          ShowPage(q, [r EXCEPT !.items = PageOf(s, r.number), !.raced = raced])
    BY <1>5 DEF ReadPage
  <2> DEFINE items == PageOf(s, r.number)
             t == [r EXCEPT !.items = items, !.raced = raced]
  <2>2. rows \in SUBSET Events /\ Cardinality(rows) \in Nat /\ \A e \in rows : Owner[e] = c
    BY MatchingSets
  <2>3. items \in Seq(rows)
    BY <1>3, <2>2, PageRows
  <2>4. items \in Seq(Events) /\ \A i \in 1..Len(items) : Owner[items[i]] = c
    BY <2>2, <2>3
  <2>5. raced \in BOOLEAN
    OBVIOUS
  <2>6. ShowPage(q, t)
    BY <2>1
  <2> HIDE DEF rows, raced, items
  <2>7. t \in Request
    BY <1>1, <2>4, <2>5 DEF Request
  <2>8. /\ t.step = r.step /\ t.number = r.number /\ t.seen = r.seen /\ t.row = r.row
        /\ t.client = c /\ t.items = items
    BY <1>1 DEF Request
  <2>9. RequestInv(t)
    BY <1>2, <1>3, <2>7, <2>8 DEF RequestInv
  <2>10. QED BY <1>1, <1>2, <2>4, <2>6, <2>8, <2>9, ShowPageOK
<1>6. CASE FilePage(q)
  <2> DEFINE rows == FileMatching(c, f)
             total == Cardinality(rows)
  <2>1. PICK s \in Listings(rows) :
          ShowPage(q, [r EXCEPT !.items = PageOf(s, r.number), !.total = total])
    BY <1>6 DEF FilePage
  <2> DEFINE items == PageOf(s, r.number)
             t == [r EXCEPT !.items = items, !.total = total]
  <2>2. rows \in SUBSET Events /\ total \in Nat /\ \A e \in rows : Owner[e] = c
    BY MatchingSets
  <2>3. items \in Seq(rows)
    BY <1>3, <2>2, PageRows
  <2>4. items \in Seq(Events) /\ \A i \in 1..Len(items) : Owner[items[i]] = c
    BY <2>2, <2>3
  <2>6. ShowPage(q, t)
    BY <2>1
  <2>5. total \in Nat
    BY <2>2
  <2> HIDE DEF rows, total, items
  <2>7. t \in Request
    BY <1>1, <2>4, <2>5 DEF Request
  <2>8. /\ t.step = r.step /\ t.number = r.number /\ t.seen = r.seen /\ t.row = r.row
        /\ t.client = c /\ t.items = items
    BY <1>1 DEF Request
  <2>9. RequestInv(t)
    BY <1>2, <1>3, <2>7, <2>8 DEF RequestInv
  <2>10. QED BY <1>1, <1>2, <2>4, <2>6, <2>8, <2>9, ShowPageOK
<1>7. QED BY <1>4, <1>5, <1>6

LEMMA FileOK ==
  ASSUME NEW e \in Events
  PROVE  /\ FileState[e] \in EventState
         /\ <<SynthesisedAttempt(e)>> \in Seq(DeliveryStatus)
         /\ Len(<<SynthesisedAttempt(e)>>) = 1
         /\ FileState[e] = "DELIVERED" => Explained(<<SynthesisedAttempt(e)>>)
<1>1. FileState[e] \in EventState
  BY FixtureAssumption DEF FileState, ToEventState, EventState
<1>2. SynthesisedAttempt(e) \in DeliveryStatus
  BY DEF SynthesisedAttempt, DeliveryStatus
<1>3. FileState[e] = "DELIVERED" => SynthesisedAttempt(e) = "SUCCESS"
  BY DEF SynthesisedAttempt
<1>4. ASSUME NEW status
      PROVE  Len(<<status>>) = 1 /\ <<status>>[1] = status /\ <<status>> # <<>>
  OBVIOUS
<1>5. QED BY <1>1, <1>2, <1>3, <1>4 DEF Explained

LEMMA DetailsOK ==
  ASSUME QueriesInv, NEW q \in Requests, ReadRow(q) \/ ReadHistory(q) \/ FileDetail(q)
  PROVE  QueriesInv'
<1> DEFINE r == request[q]
           e == r.event
<1>1. r \in Request /\ RequestInv(r) /\ UNCHANGED <<tables, process>> /\ TablesInv
  BY DEF QueriesInv, ReadRow, ReadHistory, FileDetail
<1>2. r.step \in {"row", "history"} /\ server # "closed"
  BY DEF QueriesInv, ServerInv, InFlight, ReadRow, ReadHistory, FileDetail
<1>3. e \in Events /\ r.seen = {} /\ r.status # 200
  BY <1>1, <1>2 DEF RequestInv, Request
<1>4. /\ state[e] \in EventState \cup {"ABSENT"} /\ attempts[e] \in Seq(DeliveryStatus)
      /\ Len(attempts[e]) \in Nat
      /\ state[e] = "DELIVERED" => Explained(attempts[e])
  BY <1>1, <1>3 DEF TablesInv
<1>5. CASE Answered(q, r, 404)
  BY <1>1, <1>2, <1>5, AnsweredOK DEF Answers
<1>6. CASE ReadRow(q) /\ ~Answered(q, r, 404)
  <2> DEFINE row == state[e]
             known == Len(attempts[e])
             t == [r EXCEPT !.step = "history", !.row = row, !.known = known]
  <2>1. row # "ABSENT" /\ Owner[e] = r.client /\ request' = [request EXCEPT ![q] = t]
    BY <1>6 DEF ReadRow, Update
  <2>2. row \in EventState \cup {"none"} /\ known \in Nat
    BY <1>4, <2>1
  <2> HIDE DEF row, known
  <2>3. t \in Request
    BY <1>1, <2>2 DEF Request
  <2>4. /\ t.step = "history" /\ t.row = row /\ t.known = known /\ t.event = e
        /\ t.client = r.client /\ t.seen = r.seen /\ t.status = r.status
    BY <1>1 DEF Request
  <2>5. Pending(t)
    BY <1>4, <2>4 DEF Pending, row, known
  <2>6. RequestInv(t)
    BY <1>3, <2>1, <2>3, <2>4, <2>5 DEF RequestInv
  <2>7. QED BY <1>1, <1>2, <2>1, <2>6, UpdateOK
<1>7. CASE ReadHistory(q)
  <2> DEFINE log == attempts[e]
             t == [r EXCEPT !.log = log, !.step = "done", !.status = 200]
  <2>1. r.step = "history" /\ request' = [request EXCEPT ![q] = t]
    BY <1>1, <1>7 DEF ReadHistory, Answered, Update, Request
  <2>2. Pending(r) /\ (r.row # "none" => Owner[e] = r.client)
    BY <1>1, <2>1 DEF RequestInv
  <2>3. r.known <= Len(log) /\ (r.row = "DELIVERED" => Explained(log))
    BY <1>4, <2>2 DEF Pending
  <2>4. log \in Seq(DeliveryStatus) /\ 200 \in Answers
    BY <1>4 DEF Answers
  <2>8. r.known \in Nat /\ Len(log) \in Nat
    BY <1>1, <1>4 DEF Request
  <2> HIDE DEF log
  <2>5. t \in Request
    BY <1>1, <2>4, ZenonT(60) DEF Request
  <2>6. /\ t.step = "done" /\ t.row = r.row /\ t.known = r.known /\ t.event = e
        /\ t.client = r.client /\ t.seen = r.seen /\ t.status = 200 /\ t.log = log
    BY <1>1 DEF Request
  <2>7. RequestInv(t)
    BY <1>3, <2>2, <2>3, <2>5, <2>6, <2>8 DEF RequestInv
  <2>9. QED BY <1>1, <1>2, <2>1, <2>7, UpdateOK
<1>8. CASE FileDetail(q) /\ ~Answered(q, r, 404)
  <2> DEFINE row == FileState[e]
             log == <<SynthesisedAttempt(e)>>
             t == [r EXCEPT !.row = row, !.log = log, !.step = "done", !.status = 200]
  <2>1. /\ r.step = "row" /\ Owner[e] = r.client
        /\ Answered(q, [r EXCEPT !.row = row, !.log = log], 200)
    BY <1>8 DEF FileDetail
  <2>2. request' = [request EXCEPT ![q] = t]
    BY <1>1, <2>1 DEF Answered, Update, Request
  <2>3. /\ row \in EventState \cup {"none"} /\ log \in Seq(DeliveryStatus) /\ 200 \in Answers
        /\ Len(log) = 1 /\ (row = "DELIVERED" => Explained(log))
    BY <1>3, FileOK DEF Answers
  <2>4. r.known = 0
    BY <1>1, <2>1 DEF RequestInv
  <2> HIDE DEF row, log
  <2>5. t \in Request
    BY <1>1, <2>3, ZenonT(60) DEF Request
  <2>6. /\ t.step = "done" /\ t.row = row /\ t.known = r.known /\ t.event = e
        /\ t.client = r.client /\ t.seen = r.seen /\ t.status = 200 /\ t.log = log
    BY <1>1 DEF Request
  <2>7. RequestInv(t)
    BY <1>3, <2>1, <2>3, <2>4, <2>5, <2>6 DEF RequestInv
  <2>8. QED BY <1>1, <1>2, <2>2, <2>7, UpdateOK
<1>9. QED BY <1>5, <1>6, <1>7, <1>8

LEMMA ConverseOK ==
  ASSUME QueriesInv, NEW q \in Requests, Converse(q)
  PROVE  QueriesInv'
<1>1. CASE Limited(q) \/ Unauthenticated(q) \/ Malformed(q)
  BY <1>1, AnsweredOK DEF Limited, Unauthenticated, Malformed, Refused, Answers
<1>2. CASE QueryFails(q)
  <2>1. server # "closed" /\ UNCHANGED <<tables, process>> /\ Answered(q, request[q], 500)
    BY <1>2 DEF QueryFails, QueriesInv, ServerInv
  <2>2. QED BY <2>1, AnsweredOK DEF Answers
<1>3. QED BY <1>1, <1>2, AsksOK, PagesOK, DetailsOK DEF Converse

-----------------------------------------------------------------------------
(* Shutdown, and the induction.                                            *)

LEMMA ShutdownOK ==
  ASSUME QueriesInv, Signal \/ Closed \/ Exit \/ GraceExpires
  PROVE  QueriesInv'
<1>1. UNCHANGED <<state, attempts, retries, adapter>>
  BY DEF Signal, Closed, Exit, GraceExpires, tables
<1>2. TablesInv'
  BY <1>1 DEF QueriesInv, TablesInv
<1>3. CASE Signal \/ Closed \/ Exit
  <2>1. request' = request
    BY <1>3 DEF Signal, Closed, Exit
  <2>2. ASSUME NEW q \in Requests PROVE RequestInv(request[q])'
    BY <1>1, <2>1 DEF QueriesInv, RequestInv, Pending
  <2>3. ServerInv'
    BY <1>3, <2>1 DEF Signal, Closed, Exit, QueriesInv, ServerInv, InFlight
  <2>4. QED BY <1>2, <2>1, <2>2, <2>3 DEF QueriesInv
<1>4. CASE GraceExpires
  <2>1. /\ server' = "exited" /\ pool' = pool
        /\ request' = [q \in Requests |->
             IF InFlight(q) THEN [request[q] EXCEPT !.step = "cut"] ELSE request[q]]
    BY <1>4 DEF GraceExpires
  <2>2. ASSUME NEW q \in Requests
        PROVE  request'[q] \in Request /\ RequestInv(request[q])'
    <3> DEFINE r == request[q]
               t == [r EXCEPT !.step = "cut"]
    <3>1. r \in Request /\ RequestInv(r)
      BY DEF QueriesInv
    <3>2. CASE InFlight(q)
      <4>1. t \in Request
        BY <3>1 DEF Request
      <4>2. /\ t.step = "cut" /\ t.row = r.row /\ t.known = r.known /\ t.event = r.event
            /\ t.client = r.client /\ t.seen = r.seen /\ t.status = r.status /\ t.log = r.log
        BY <3>1 DEF Request
      <4>3. RequestInv(t)
        BY <3>1, <4>1, <4>2 DEF RequestInv
      <4>4. request'[q] = t
        BY <2>1, <3>2
      <4>5. t.step \notin {"new", "row", "history", "count", "page", "shown"}
        BY <4>2
      <4>6. QED BY <1>1, <4>3, <4>4, <4>5 DEF RequestInv
    <3>3. CASE ~InFlight(q)
      <4>1. request'[q] = r
        BY <2>1, <3>3
      <4>2. QED BY <1>1, <3>1, <4>1 DEF RequestInv, Pending
    <3>4. QED BY <3>2, <3>3
  <2>3. request' \in [Requests -> Request]
    BY <2>1, <2>2
  <2>4. ServerInv'
    BY <2>1 DEF QueriesInv, ServerInv
  <2>5. QED BY <1>2, <2>2, <2>3, <2>4 DEF QueriesInv
<1>5. QED BY <1>3, <1>4

LEMMA QueriesInductive == QueriesInv /\ [Next]_vars => QueriesInv'
<1> SUFFICES ASSUME QueriesInv, [Next]_vars PROVE QueriesInv'
  OBVIOUS
<1>1. CASE UNCHANGED vars
  <2>1. UNCHANGED <<adapter, state, attempts, retries, server, pool, request>>
    BY <1>1 DEF vars, tables, process
  <2>2. TablesInv'
    BY <2>1 DEF QueriesInv, TablesInv
  <2>3. ASSUME NEW q \in Requests PROVE RequestInv(request[q])'
    BY <2>1 DEF QueriesInv, RequestInv, Pending
  <2>4. ServerInv'
    BY <2>1 DEF QueriesInv, ServerInv, InFlight
  <2>5. QED BY <2>1, <2>2, <2>3, <2>4 DEF QueriesInv
<1>2. CASE Next
  BY <1>2, PipelineOK, ConverseOK, ShutdownOK DEF Next
<1>3. QED BY <1>1, <1>2

LEMMA QueriesInvHolds == Spec => []QueriesInv
BY InitOK, QueriesInductive, PTL DEF Spec

-----------------------------------------------------------------------------
(* Following the pages.                                                    *)

\* The rows listed before e, for the list a conversation follows.
Before(r, e) == {d \in Rows(r.client, r.filter) : Precedes(d, e)}

\* How many pages have been shown.
Turned(r) == IF r.step = "shown" THEN r.number ELSE r.number - 1

\* The rows counted are still there when the page is read: no state filter, no deletion.
CountedInv(r) ==
  r.step = "page" => /\ adapter = "postgres"
                     /\ r.counted \subseteq Rows(r.client, r.filter)
                     /\ r.total = Cardinality(r.counted)

ShownInv(r) ==
  r.step \in {"shown", "done"} /\ r.status = 200 =>
    Len(r.items) >= Least(PageSize, r.total - (r.number - 1) * PageSize)

\* An event not seen yet has as many rows before it as have been shown: rows that arrive
\* only push it towards the pages still to come.
PassedInv(r) ==
  ~r.raced =>
    /\ r.step \in {"count", "page", "shown"} =>
         \A e \in r.first : e \in r.seen \/ Cardinality(Before(r, e)) >= Turned(r) * PageSize
    /\ r.step = "done" /\ r.status = 200 => r.first \subseteq r.seen

WalkInv(r) ==
  /\ r.step \in {"new", "row", "history"} => r.number = 0
  /\ r.number > 0 /\ r.filter.state = AnyState =>
       /\ r.first \subseteq Rows(r.client, r.filter)
       /\ CountedInv(r)
       /\ ShownInv(r)
       /\ PassedInv(r)

WalksInv == \A q \in Requests : WalkInv(request[q])

LEMMA RowsFinite ==
  ASSUME NEW c, NEW f
  PROVE  /\ Rows(c, f) \subseteq Events /\ IsFiniteSet(Rows(c, f))
         /\ Cardinality(Rows(c, f)) \in Nat
<1>1. Rows(c, f) \subseteq Events
  BY MatchingSets DEF Rows
<1>2. IsFiniteSet(Rows(c, f))
  BY <1>1, QueriesAssumption, FS_Subset
<1>3. QED BY <1>1, <1>2, FS_CardinalityType

LEMMA PrecedesIsStrict ==
  ASSUME NEW d \in Events, NEW e \in Events, Precedes(d, e)
  PROVE  ~Precedes(e, d) /\ d # e
<1>1. /\ CreatedAt[d] \in Nat /\ CreatedAt[e] \in Nat /\ IdRank[d] \in Nat /\ IdRank[e] \in Nat
      /\ Place[d] \in Nat /\ Place[e] \in Nat
  BY FixtureAssumption
<1>2. QED BY <1>1 DEF Precedes

\* The place of a row in a listing is the number of rows that precede it.
LEMMA PlaceInListing ==
  ASSUME NEW rows \in SUBSET Events, NEW s \in Listings(rows)
  PROVE  /\ \A e \in rows : \E i \in 1..Cardinality(rows) : s[i] = e
         /\ \A i \in 1..Cardinality(rows) :
              Cardinality({d \in rows : Precedes(d, s[i])}) = i - 1
<1> DEFINE n == Cardinality(rows)
<1>1. IsFiniteSet(rows) /\ n \in Nat
  BY QueriesAssumption, FS_Subset, FS_CardinalityType
<1>2. /\ s \in [1..n -> rows]
      /\ \A i, j \in 1..n : i < j => s[i] # s[j] /\ Precedes(s[i], s[j])
  BY DEF Listings
<1>3. s \in Injection(1..n, rows)
  <2>1. ASSUME NEW i \in 1..n, NEW j \in 1..n, s[i] = s[j] PROVE i = j
    BY <1>1, <1>2, <2>1
  <2>2. QED BY <1>2, <2>1 DEF Injection, IsInjective
<1>4. Cardinality(1..n) = n
  BY <1>1, FS_Interval
<1>5. s \in Surjection(1..n, rows)
  BY <1>1, <1>3, <1>4, FS_Injection
<1>6. \A e \in rows : \E i \in 1..n : s[i] = e
  BY <1>5 DEF Surjection
<1>7. ASSUME NEW i \in 1..n
      PROVE  Cardinality({d \in rows : Precedes(d, s[i])}) = i - 1
  <2> DEFINE P == {d \in rows : Precedes(d, s[i])}
             k == i - 1
             g == [j \in 1..k |-> s[j]]
  <2>1. k \in Nat /\ k < n /\ \A j \in 1..k : j \in 1..n /\ j < i
    BY <1>1
  <2>2. \A j \in 1..k : g[j] = s[j] /\ s[j] \in P
    BY <1>2, <2>1
  <2>3. \A e \in P : \E j \in 1..k : g[j] = e
    <3>1. TAKE e \in P
    <3>2. PICK j \in 1..n : s[j] = e
      BY <1>6
    <3>3. s[i] \in Events /\ e \in Events /\ Precedes(e, s[i])
      BY <1>2
    <3>4. ~(i < j)
      BY <1>2, <3>2, <3>3, PrecedesIsStrict
    <3>5. j # i
      BY <3>2, <3>3, PrecedesIsStrict
    <3>6. j \in 1..k
      BY <1>1, <3>4, <3>5
    <3>7. QED BY <3>2, <3>6
  <2>4. \A j, l \in 1..k : g[j] = g[l] => j = l
    BY <1>3, <2>1 DEF Injection, IsInjective
  <2>5. g \in Bijection(1..k, P)
    BY <2>2, <2>3, <2>4 DEF Bijection, Injection, Surjection, IsInjective
  <2>6. IsFiniteSet(1..k) /\ Cardinality(1..k) = k
    BY <2>1, FS_Interval
  <2>7. QED BY <2>5, <2>6, FS_Bijection DEF ExistsBijection
<1>8. QED BY <1>6, <1>7

LEMMA PageBounds ==
  ASSUME NEW page \in Nat, page >= 1
  PROVE  /\ (page - 1) * PageSize \in Nat /\ page * PageSize \in Nat
         /\ page * PageSize = (page - 1) * PageSize + PageSize
<1>1. PageSize \in Nat /\ page - 1 \in Nat
  BY QueriesAssumption
<1>2. (page - 1) * PageSize \in Nat /\ page * PageSize \in Nat
  BY <1>1
<1>3. page * PageSize = (page - 1) * PageSize + PageSize
  BY <1>1
<1>4. QED BY <1>2, <1>3

\* LIMIT and OFFSET: a page is full unless the listing ends on it, and holds its places.
LEMMA PageProperties ==
  ASSUME NEW rows \in SUBSET Events, NEW s \in Listings(rows),
         NEW page \in Nat, page >= 1
  PROVE  /\ Len(PageOf(s, page)) \in Nat
         /\ Len(PageOf(s, page)) >= Least(PageSize, Cardinality(rows) - (page - 1) * PageSize)
         /\ \A i \in 1..Cardinality(rows) :
              (page - 1) * PageSize < i /\ i <= page * PageSize =>
                s[i] \in {PageOf(s, page)[j] : j \in 1..Len(PageOf(s, page))}
<1> DEFINE n == Cardinality(rows)
           a == (page - 1) * PageSize
           b == page * PageSize
           last == Least(b, Len(s))
           items == PageOf(s, page)
<1>1. n \in Nat /\ PageSize \in Nat
  BY QueriesAssumption, FS_Subset, FS_CardinalityType
<1>2. s \in Seq(rows) /\ Len(s) = n /\ \A i \in 1..n : s[i] \in rows
  BY <1>1 DEF Listings
<1>3. a \in Nat /\ b \in Nat /\ b = a + PageSize
  BY PageBounds
<1>4. items = SubSeq(s, a + 1, last)
  BY DEF PageOf
<1> HIDE DEF n, a, b, items
<1>5. last \in Int /\ last <= n /\ (last = b \/ last = n) /\ last <= b
  BY <1>1, <1>2, <1>3 DEF Least
<1> HIDE DEF last
<1>6. /\ Len(items) = IF a + 1 <= last THEN last - (a + 1) + 1 ELSE 0
      /\ \A j \in 1..(last - (a + 1) + 1) : items[j] = s[(a + 1) + j - 1]
  <2>1. \A j \in (a + 1)..last : s[j] \in rows
    BY <1>2, <1>3, <1>5
  <2>2. QED BY <1>3, <1>4, <1>5, <2>1, SubSeqProperties
<1>7. Len(items) \in Nat
  BY <1>3, <1>5, <1>6
<1>8. Len(items) >= Least(PageSize, n - a)
  BY <1>1, <1>3, <1>5, <1>6 DEF Least
<1>9. ASSUME NEW i \in 1..n, a < i, i <= b
      PROVE  s[i] \in {items[j] : j \in 1..Len(items)}
  <2>1. i <= last
    BY <1>5, <1>9
  <2>2. i - a \in 1..Len(items) /\ i - a \in 1..(last - (a + 1) + 1)
    BY <1>3, <1>5, <1>6, <1>9, <2>1
  <2>3. items[i - a] = s[(a + 1) + (i - a) - 1]
    BY <1>6, <2>2
  <2>4. (a + 1) + (i - a) - 1 = i
    BY <1>1, <1>3
  <2>5. QED BY <2>2, <2>3, <2>4
<1>10. QED BY <1>7, <1>8, <1>9 DEF n, a, b, items

\* As long as there are rows after the page, the answer promises another one.
LEMMA MorePages ==
  ASSUME NEW total \in Nat, NEW page \in Nat, page >= 1, total > page * PageSize
  PROVE  page < TotalPages(total)
<1> DEFINE p == page * PageSize
           t == total + PageSize - 1
           d == t \div PageSize
<1>1. PageSize \in Nat \ {0} /\ p \in Nat /\ total # 0
  BY QueriesAssumption, PageBounds
<1>2. t \in Nat /\ t >= p + PageSize
  BY <1>1
<1>3. d \in Nat /\ t < (d + 1) * PageSize
  BY <1>1, <1>2
<1>4. ASSUME d <= page PROVE FALSE
  <2>1. (d + 1) * PageSize <= (page + 1) * PageSize
    BY <1>1, <1>3, <1>4
  <2>2. (page + 1) * PageSize = p + PageSize
    BY <1>1
  <2>3. (d + 1) * PageSize \in Nat
    BY <1>1, <1>3
  <2>4. QED BY <1>1, <1>2, <1>3, <2>1, <2>2, <2>3
<1>5. QED BY <1>1, <1>3, <1>4 DEF TotalPages

\* What the answer does to the conversation it is shown in.
LEMMA ShownWalks ==
  ASSUME QueriesInv, NEW r, r \in Request, WalkInv(r), r.number >= 1,
         r.step \in {"count", "page"}, r.filter.state = AnyState,
         NEW s \in Listings(Rows(r.client, r.filter)),
         NEW total \in Nat, total <= Cardinality(Rows(r.client, r.filter)),
         NEW raced \in BOOLEAN,
         ~raced => ~r.raced /\ total = Cardinality(Rows(r.client, r.filter)),
         NEW t, t \in Request,
         t.client = r.client, t.filter = r.filter, t.first = r.first, t.number = r.number,
         t.items = PageOf(s, r.number), t.total = total, t.raced = raced,
         t.step = (IF r.number < TotalPages(total) THEN "shown" ELSE "done"),
         t.seen = r.seen \cup {t.items[i] : i \in 1..Len(t.items)}
  PROVE  WalkInv(t)
<1> DEFINE rows == Rows(r.client, r.filter)
           n == Cardinality(rows)
           page == r.number
           a == (page - 1) * PageSize
           b == page * PageSize
           shown == {t.items[i] : i \in 1..Len(t.items)}
<1>1. rows \in SUBSET Events /\ IsFiniteSet(rows) /\ n \in Nat /\ s \in Listings(rows)
  BY RowsFinite
<1>2. page \in Nat /\ PageSize \in Nat \ {0}
  BY QueriesAssumption DEF Request
<1>3. a \in Nat /\ b \in Nat /\ b = a + PageSize
  BY <1>2, PageBounds
<1>4. /\ Len(t.items) \in Nat /\ Len(t.items) >= Least(PageSize, n - a)
      /\ \A i \in 1..n : a < i /\ i <= b => s[i] \in shown
  <2>1. PICK items : items = PageOf(s, page)
    OBVIOUS
  <2>2. /\ Len(items) \in Nat /\ Len(items) >= Least(PageSize, n - a)
        /\ \A i \in 1..n : a < i /\ i <= b => s[i] \in {items[j] : j \in 1..Len(items)}
    BY <1>1, <1>2, <2>1, PageProperties
  <2>3. t.items = items
    BY <2>1
  <2>4. QED BY <2>2, <2>3
<1>5. t.step \in {"shown", "done"}
  OBVIOUS
<1>6. ShownInv(t)
  <2>1. total - a \in Int /\ total - a <= n - a
    BY <1>1, <1>3
  <2>2. Least(PageSize, total - a) <= Least(PageSize, n - a)
    <3>1. \A p, x, y \in Int : x <= y => Least(p, x) <= Least(p, y)
      BY DEF Least
    <3>2. PageSize \in Int /\ total - a \in Int /\ n - a \in Int
      BY <1>1, <1>2, <1>3, <2>1
    <3>3. QED BY <2>1, <3>1, <3>2
  <2>3. Least(PageSize, total - a) \in Int /\ Least(PageSize, n - a) \in Int
    BY <1>1, <1>2, <1>3 DEF Least
  <2>4. Len(t.items) >= Least(PageSize, total - a)
    BY <1>4, <2>2, <2>3
  <2>5. QED BY <2>4 DEF ShownInv
<1>7. r.first \subseteq rows /\ PassedInv(r)
  BY <1>2 DEF WalkInv
<1>8. ASSUME ~raced, NEW e \in r.first, e \notin t.seen
      PROVE  Cardinality(Before(t, e)) >= b /\ n > b
  <2>1. e \in rows /\ e \notin r.seen /\ e \notin shown
    BY <1>7, <1>8
  <2>2. PICK i \in 1..n : s[i] = e
    BY <1>1, <2>1, PlaceInListing
  <2>3. Before(t, e) = {d \in rows : Precedes(d, s[i])} /\ Before(r, e) = Before(t, e)
    BY <2>2 DEF Before
  <2>4. Cardinality(Before(t, e)) = i - 1
    BY <1>1, <2>3, PlaceInListing
  <2>5. Cardinality(Before(r, e)) >= Turned(r) * PageSize
    BY <1>7, <1>8, <2>1 DEF PassedInv
  <2>6. Turned(r) * PageSize = a
    BY DEF Turned
  <2>7. i - 1 >= a
    BY <2>3, <2>4, <2>5, <2>6
  <2>8. ~(a < i /\ i <= b)
    BY <1>4, <2>1, <2>2
  <2>9. i > b
    BY <1>3, <2>7, <2>8
  <2>10. QED BY <1>1, <1>3, <2>4, <2>9
<1>9. PassedInv(t)
  <2>1. CASE t.step = "shown"
    <3>1. Turned(t) * PageSize = b
      BY <2>1 DEF Turned
    <3>2. QED BY <1>8, <2>1, <3>1 DEF PassedInv
  <2>2. CASE t.step = "done"
    <3>1. ~(page < TotalPages(total))
      BY <2>2
    <3>2. ASSUME ~raced, NEW e \in r.first, e \notin t.seen PROVE FALSE
      <4>1. total > b
        BY <1>8, <3>2
      <4>2. QED BY <1>2, <3>1, <4>1, MorePages
    <3>3. QED BY <2>2, <3>2 DEF PassedInv
  <2>3. QED BY <1>5, <2>1, <2>2
<1>10. CountedInv(t)
  BY <1>5 DEF CountedInv
<1>11. QED BY <1>5, <1>6, <1>7, <1>9, <1>10 DEF WalkInv

\* The tables do not move, and at most the conversation of q does.
LEMMA SameRows ==
  ASSUME UNCHANGED <<state, adapter>>
  PROVE  \A c, f : Rows(c, f)' = Rows(c, f)
BY DEF Rows, Matching, FileMatching

LEMMA SameWalk ==
  ASSUME UNCHANGED <<state, adapter>>, NEW r, WalkInv(r)
  PROVE  WalkInv(r)'
<1>1. Rows(r.client, r.filter)' = Rows(r.client, r.filter)
  BY SameRows
<1>2. \A e : Before(r, e)' = Before(r, e)
  BY <1>1 DEF Before, Precedes
<1>3. PassedInv(r)' <=> PassedInv(r)
  BY <1>2 DEF PassedInv, Turned
<1>4. CountedInv(r)' <=> CountedInv(r)
  BY <1>1 DEF CountedInv
<1>5. ShownInv(r)' <=> ShownInv(r)
  BY DEF ShownInv
<1>6. QED BY <1>1, <1>3, <1>4, <1>5 DEF WalkInv

LEMMA UpdateWalks ==
  ASSUME QueriesInv, WalksInv, NEW q \in Requests, NEW r, WalkInv(r),
         request' = [request EXCEPT ![q] = r], UNCHANGED <<tables, process>>
  PROVE  WalksInv'
<1>1. UNCHANGED <<state, adapter>>
  BY DEF tables, process
<1>2. ASSUME NEW u \in Requests PROVE WalkInv(request[u])'
  <2>1. PICK a : a = request'[u]
    OBVIOUS
  <2>2. a = request[u] \/ a = r
    BY <2>1 DEF QueriesInv
  <2>3. WalkInv(a)
    BY <2>2 DEF WalksInv
  <2>4. WalkInv(a)'
    BY <1>1, <2>3, SameWalk
  <2>5. QED BY <2>1, <2>4
<1>3. QED BY <1>2 DEF WalksInv

\* Rows are never deleted, so a listing without a state filter only grows.
LEMMA RowsGrow ==
  ASSUME QueriesInv, Pipeline, NEW c, NEW f, f.state = AnyState
  PROVE  /\ Rows(c, f) \subseteq Rows(c, f)'
         /\ adapter' = adapter
<1>1. /\ Life!Next /\ TablesInv /\ adapter = "postgres" /\ adapter' = adapter
  BY DEF Pipeline, process, QueriesInv
<1>2. \A e \in Events : state[e] # "ABSENT" => state'[e] # "ABSENT"
  BY <1>1 DEF Life!Next, Life!Ingest, Life!Begin, Life!Close, Life!GiveUp, Life!Reopen,
         Life!End, Life!Release, Life!CountRetry, Life!Move, Life!OutcomeState, TablesInv
<1>3. QED BY <1>1, <1>2 DEF Rows, Matching, Asked

LEMMA PipelineWalks ==
  ASSUME QueriesInv, WalksInv, Pipeline
  PROVE  WalksInv'
<1>1. request' = request /\ adapter' = adapter
  BY DEF Pipeline, process
<1>2. ASSUME NEW u \in Requests PROVE WalkInv(request[u])'
  <2>1. PICK r : r = request[u]
    OBVIOUS
  <2>2. WalkInv(r) /\ request'[u] = r
    BY <1>1, <2>1 DEF WalksInv
  <2>6. r \in Request
    BY <2>1 DEF QueriesInv
  <2>3. ASSUME r.number > 0, r.filter.state = AnyState
        PROVE  r.first \subseteq Rows(r.client, r.filter)' /\ CountedInv(r)' /\ PassedInv(r)'
    <3>1. Rows(r.client, r.filter) \subseteq Rows(r.client, r.filter)'
      BY <2>3, RowsGrow
    <3>2. r.first \subseteq Rows(r.client, r.filter) /\ CountedInv(r) /\ PassedInv(r)
      BY <2>2, <2>3 DEF WalkInv
    <3>3. CountedInv(r)'
      BY <1>1, <3>1, <3>2 DEF CountedInv
    <3>4. ASSUME NEW e
          PROVE  Cardinality(Before(r, e)) <= Cardinality(Before(r, e)')
                 /\ Cardinality(Before(r, e)) \in Nat /\ Cardinality(Before(r, e)') \in Nat
      <4>1. Before(r, e) \subseteq Before(r, e)'
        BY <1>1, <3>1 DEF Before, Precedes
      <4>2. Rows(r.client, r.filter)' \subseteq Events
        BY DEF Rows, Matching, FileMatching
      <4>3. Before(r, e)' \subseteq Events
        BY <4>2 DEF Before
      <4>4. IsFiniteSet(Before(r, e)')
        BY <4>3, QueriesAssumption, FS_Subset
      <4>5. QED BY <4>1, <4>4, FS_Subset, FS_CardinalityType
    <3>5. Turned(r) * PageSize \in Int
      <4>1. Turned(r) \in Int /\ PageSize \in Int
        BY <2>6, QueriesAssumption DEF Turned, Request
      <4>2. QED BY <4>1
    <3>6. PassedInv(r)'
      <4>1. ASSUME ~r.raced, r.step \in {"count", "page", "shown"}, NEW e \in r.first,
                   e \notin r.seen
            PROVE  Cardinality(Before(r, e)') >= Turned(r) * PageSize
        <5>1. Cardinality(Before(r, e)) >= Turned(r) * PageSize
          BY <3>2, <4>1 DEF PassedInv
        <5>2. QED BY <3>4, <3>5, <5>1
      <4>2. QED BY <3>2, <4>1 DEF PassedInv, Turned
    <3>7. QED BY <3>1, <3>2, <3>3, <3>6
  <2>4. ShownInv(r)' <=> ShownInv(r)
    BY DEF ShownInv
  <2>5. WalkInv(r)'
    BY <2>2, <2>3, <2>4 DEF WalkInv
  <2>7. QED BY <2>2, <2>5
<1>3. QED BY <1>2 DEF WalksInv

\* An answer without a page.
LEMMA AnsweredWalks ==
  ASSUME QueriesInv, WalksInv, NEW q \in Requests, UNCHANGED <<tables, process>>,
         NEW status \in Answers, status # 200 \/ request[q].number = 0,
         Answered(q, request[q], status)
  PROVE  WalksInv'
<1> DEFINE r == request[q]
           t == [r EXCEPT !.step = "done", !.status = status]
<1>1. r \in Request /\ WalkInv(r)
  BY DEF QueriesInv, WalksInv
<1>2. /\ t.step = "done" /\ t.status = status /\ t.number = r.number /\ t.first = r.first
      /\ t.client = r.client /\ t.filter = r.filter
  BY <1>1 DEF Request
<1>3. WalkInv(t)
  BY <1>1, <1>2 DEF WalkInv, CountedInv, ShownInv, PassedInv
<1>4. request' = [request EXCEPT ![q] = t]
  BY DEF Answered, Update
<1>5. QED BY <1>3, <1>4, UpdateWalks

LEMMA AsksWalk ==
  ASSUME QueriesInv, WalksInv, NEW q \in Requests, AskList(q) \/ TurnPage(q) \/ AskEvent(q)
  PROVE  WalksInv'
<1> DEFINE r == request[q]
<1>1. r \in Request /\ WalkInv(r) /\ UNCHANGED <<tables, process>>
  BY DEF QueriesInv, WalksInv, AskList, TurnPage, AskEvent
<1>2. CASE AskList(q)
  <2>1. PICK c \in Clients, f \in Filter :
          IF f.range[1] > f.range[2]
            THEN Answered(q, r, 400)
            ELSE Update(q, [r EXCEPT !.step = "count", !.client = c, !.filter = f,
                                     !.number = 1, !.first = Rows(c, f)])
    BY <1>2 DEF AskList
  <2>2. CASE Answered(q, r, 400)
    BY <1>1, <2>2, AnsweredWalks DEF Answers
  <2>3. CASE ~Answered(q, r, 400)
    <3> DEFINE first == Rows(c, f)
               t == [r EXCEPT !.step = "count", !.client = c, !.filter = f,
                              !.number = 1, !.first = first]
    <3>1. request' = [request EXCEPT ![q] = t]
      BY <2>1, <2>3 DEF Update
    <3>2. /\ t.step = "count" /\ t.number = 1 /\ t.client = c /\ t.filter = f
          /\ t.first = first
      BY <1>1 DEF Request
    <3>3. \A e : Cardinality(Before(t, e)) >= 0
      <4>1. TAKE e
      <4>2. Before(t, e) \subseteq Rows(t.client, t.filter)
        BY DEF Before
      <4>3. QED BY <4>2, RowsFinite, FS_Subset, FS_CardinalityType
    <3>4. Turned(t) * PageSize = 0
      BY <3>2, QueriesAssumption DEF Turned
    <3>5. WalkInv(t)
      BY <3>2, <3>3, <3>4 DEF WalkInv, CountedInv, ShownInv, PassedInv
    <3>6. QED BY <1>1, <3>1, <3>5, UpdateWalks
  <2>4. QED BY <2>2, <2>3
<1>3. CASE TurnPage(q)
  <2> DEFINE n == r.number + 1
             t == [r EXCEPT !.step = "count", !.number = n]
  <2>1. r.step = "shown" /\ request' = [request EXCEPT ![q] = t]
    BY <1>3 DEF TurnPage, Update
  <2>2. r.number \in Nat /\ r.number >= 1
    BY <1>1, <2>1 DEF QueriesInv, RequestInv, Request
  <2>3. /\ t.step = "count" /\ t.number = n /\ t.client = r.client /\ t.filter = r.filter
        /\ t.first = r.first /\ t.seen = r.seen /\ t.raced = r.raced
    BY <1>1 DEF Request
  <2>4. Turned(t) = Turned(r)
    BY <2>1, <2>2, <2>3 DEF Turned
  <2>5. \A e : Before(t, e) = Before(r, e)
    BY <2>3 DEF Before
  <2>6. WalkInv(t)
    BY <1>1, <2>1, <2>2, <2>3, <2>4, <2>5 DEF WalkInv, CountedInv, ShownInv, PassedInv
  <2>7. QED BY <1>1, <2>1, <2>6, UpdateWalks
<1>4. CASE AskEvent(q)
  <2>1. PICK c \in Clients, e \in Events :
          request' = [request EXCEPT ![q] =
                        [r EXCEPT !.step = "row", !.client = c, !.event = e]]
    BY <1>4 DEF AskEvent, Update
  <2> DEFINE t == [r EXCEPT !.step = "row", !.client = c, !.event = e]
  <2>2. t.step = "row" /\ t.number = r.number /\ r.number = 0
    BY <1>1, <1>4 DEF Request, AskEvent, WalkInv
  <2>3. WalkInv(t)
    BY <2>2 DEF WalkInv
  <2>4. QED BY <1>1, <2>1, <2>3, UpdateWalks
<1>5. QED BY <1>2, <1>3, <1>4

LEMMA PagesWalk ==
  ASSUME QueriesInv, WalksInv, NEW q \in Requests, Count(q) \/ ReadPage(q) \/ FilePage(q)
  PROVE  WalksInv'
<1> DEFINE r == request[q]
           rows == Rows(r.client, r.filter)
<1>1. r \in Request /\ WalkInv(r) /\ RequestInv(r) /\ UNCHANGED <<tables, process>>
  BY DEF QueriesInv, WalksInv, Count, ReadPage, FilePage
<1>2. r.step \in {"count", "page"} /\ r.number \in Nat /\ r.number >= 1
  BY <1>1 DEF Count, ReadPage, FilePage, RequestInv, Request
<1>3. rows \subseteq Events /\ IsFiniteSet(rows) /\ Cardinality(rows) \in Nat
  BY RowsFinite
<1>4. CASE Count(q)
  <2> DEFINE n == Cardinality(rows)
             t == [r EXCEPT !.step = "page", !.total = n, !.counted = rows]
  <2>1. adapter = "postgres" /\ r.step = "count" /\ request' = [request EXCEPT ![q] = t]
    BY <1>4 DEF Count, Update, Rows
  <2>2. /\ t.step = "page" /\ t.number = r.number /\ t.client = r.client /\ t.filter = r.filter
        /\ t.first = r.first /\ t.seen = r.seen /\ t.raced = r.raced
        /\ t.total = n /\ t.counted = rows
    BY <1>1 DEF Request
  <2>3. Turned(t) = Turned(r) /\ \A e : Before(t, e) = Before(r, e)
    BY <2>1, <2>2 DEF Turned, Before
  <2>4. WalkInv(t)
    BY <1>1, <1>2, <2>1, <2>2, <2>3 DEF WalkInv, CountedInv, ShownInv, PassedInv
  <2>5. QED BY <1>1, <2>1, <2>4, UpdateWalks
\* Either way, a listing of what is there now.
<1>5. ASSUME NEW s \in Listings(rows), NEW total \in Nat, NEW raced \in BOOLEAN,
             r.filter.state = AnyState =>
               /\ total <= Cardinality(rows)
               /\ ~raced => ~r.raced /\ total = Cardinality(rows),
             ShowPage(q, [r EXCEPT !.items = PageOf(s, r.number), !.total = total,
                                   !.raced = raced])
      PROVE  WalksInv'
  <2> DEFINE items == PageOf(s, r.number)
             step == IF r.number < TotalPages(total) THEN "shown" ELSE "done"
             seen == r.seen \cup {items[i] : i \in 1..Len(items)}
             u == [r EXCEPT !.items = items, !.total = total, !.raced = raced]
             t == [u EXCEPT !.step = step, !.status = 200, !.seen = seen]
  <2>1. items \in Seq(rows)
    BY <1>2, <1>3, PageRows
  <2>2. items \in Seq(Events) /\ \A i \in 1..Len(items) : items[i] \in Events
    BY <1>3, <2>1
  <2>3. seen \subseteq Events
    BY <1>1, <2>2 DEF Request
  <2>4. step \in {"shown", "done"} /\ 200 \in Answers
    BY DEF Answers
  <2> HIDE DEF items, step, seen
  <2>5. u \in Request
    BY <1>1, <2>2 DEF Request
  <2>6. t \in Request
    BY <2>3, <2>4, <2>5, ZenonT(120) DEF Request
  <2>7. /\ u.number = r.number /\ u.total = total /\ u.items = items /\ u.seen = r.seen
        /\ u.client = r.client /\ u.filter = r.filter /\ u.first = r.first /\ u.raced = raced
    BY <1>1 DEF Request
  <2>8. /\ t.step = step /\ t.seen = seen
        /\ t.number = r.number /\ t.total = total /\ t.items = items
        /\ t.client = r.client /\ t.filter = r.filter /\ t.first = r.first /\ t.raced = raced
    BY <2>5, <2>7 DEF Request
  <2>9. request' = [request EXCEPT ![q] = t]
    BY <1>5, <2>7 DEF ShowPage, Update, items, step, seen
  <2>10. CASE r.filter.state = AnyState
    <3>1. /\ t.step = (IF r.number < TotalPages(total) THEN "shown" ELSE "done")
          /\ t.items = PageOf(s, r.number)
          /\ t.seen = r.seen \cup {t.items[i] : i \in 1..Len(t.items)}
      BY <2>8 DEF items, step, seen
    <3>2. total <= Cardinality(rows) /\ (~raced => ~r.raced /\ total = Cardinality(rows))
      BY <1>5, <2>10
    <3> HIDE DEF u, t
    <3>4. WalkInv(t)
      BY <1>1, <1>2, <2>6, <2>8, <2>10, <3>1, <3>2, ShownWalks
    <3>3. QED BY <1>1, <2>9, <3>4, UpdateWalks
  <2>11. CASE r.filter.state # AnyState
    <3>1. WalkInv(t)
      BY <2>4, <2>8, <2>11 DEF WalkInv
    <3>2. QED BY <1>1, <2>9, <3>1, UpdateWalks
  <2>12. QED BY <2>10, <2>11
<1>6. CASE ReadPage(q)
  <2> DEFINE raced == r.raced \/ rows # r.counted
             total == r.total
  <2>1. rows = Matching(r.client, r.filter) /\ r.step = "page"
    BY <1>6 DEF ReadPage, Rows
  <2>2. PICK s \in Listings(rows) :
          ShowPage(q, [r EXCEPT !.items = PageOf(s, r.number), !.raced = raced])
    BY <1>6, <2>1 DEF ReadPage
  <2>3. total \in Nat /\ raced \in BOOLEAN
    BY <1>1 DEF Request
  <2>4. r.filter.state = AnyState =>
          /\ total <= Cardinality(rows)
          /\ ~raced => ~r.raced /\ total = Cardinality(rows)
    BY <1>1, <1>2, <1>3, <2>1, FS_Subset DEF WalkInv, CountedInv
  <2> DEFINE items == PageOf(s, r.number)
  <2>5. [r EXCEPT !.items = items, !.raced = raced]
          = [r EXCEPT !.items = items, !.total = total, !.raced = raced]
    <3> HIDE DEF items, raced
    <3>1. QED BY <1>1 DEF Request
  <2>6. QED BY <1>5, <2>2, <2>3, <2>4, <2>5
<1>7. CASE FilePage(q)
  <2> DEFINE raced == r.raced
             total == Cardinality(rows)
  <2>1. rows = FileMatching(r.client, r.filter)
    BY <1>7 DEF FilePage, Rows
  <2>2. PICK s \in Listings(rows) :
          ShowPage(q, [r EXCEPT !.items = PageOf(s, r.number), !.total = total])
    BY <1>7, <2>1 DEF FilePage
  <2>3. total \in Nat /\ raced \in BOOLEAN
    BY <1>1, <1>3 DEF Request
  <2> DEFINE items == PageOf(s, r.number)
  <2>4. [r EXCEPT !.items = items, !.total = total]
          = [r EXCEPT !.items = items, !.total = total, !.raced = raced]
    <3> HIDE DEF items, total
    <3>1. QED BY <1>1 DEF Request
  <2>5. total <= Cardinality(rows) /\ (~raced => ~r.raced)
    BY <1>3
  <2>6. QED BY <1>5, <2>2, <2>3, <2>4, <2>5
<1>8. QED BY <1>4, <1>6, <1>7

LEMMA DetailsWalk ==
  ASSUME QueriesInv, WalksInv, NEW q \in Requests, ReadRow(q) \/ ReadHistory(q) \/ FileDetail(q)
  PROVE  WalksInv'
<1> DEFINE r == request[q]
<1>1. r \in Request /\ WalkInv(r) /\ UNCHANGED <<tables, process>> /\ r.number = 0
  BY DEF QueriesInv, WalksInv, WalkInv, ReadRow, ReadHistory, FileDetail
<1>2. \E t : t.number = 0 /\ request' = [request EXCEPT ![q] = t]
  BY <1>1, ZenonT(60) DEF ReadRow, ReadHistory, FileDetail, Answered, Update, Request
<1>3. PICK t : t.number = 0 /\ request' = [request EXCEPT ![q] = t]
  BY <1>2
<1>4. WalkInv(t)
  BY <1>3 DEF WalkInv
<1>5. QED BY <1>1, <1>3, <1>4, UpdateWalks

LEMMA ConverseWalks ==
  ASSUME QueriesInv, WalksInv, NEW q \in Requests, Converse(q)
  PROVE  WalksInv'
<1>1. CASE Limited(q) \/ Unauthenticated(q) \/ Malformed(q)
  BY <1>1, AnsweredWalks DEF Limited, Unauthenticated, Malformed, Refused, Answers
<1>2. CASE QueryFails(q)
  BY <1>2, AnsweredWalks DEF QueryFails, Answers
<1>3. QED BY <1>1, <1>2, AsksWalk, PagesWalk, DetailsWalk DEF Converse

LEMMA ShutdownWalks ==
  ASSUME QueriesInv, WalksInv, Signal \/ Closed \/ Exit \/ GraceExpires \/ UNCHANGED vars
  PROVE  WalksInv'
<1>1. UNCHANGED <<state, adapter>>
  BY DEF Signal, Closed, Exit, GraceExpires, tables, process, vars
<1>2. ASSUME NEW q \in Requests PROVE WalkInv(request[q])'
  <2>1. PICK a : a = request'[q]
    OBVIOUS
  <2>2. a = request[q] \/ a = [request[q] EXCEPT !.step = "cut"]
    BY <2>1 DEF Signal, Closed, Exit, GraceExpires, vars
  <2>3. request[q] \in Request /\ WalkInv(request[q])
    BY DEF QueriesInv, WalksInv
  <2>4. WalkInv(a)
    <3>1. CASE a = request[q]
      BY <2>3, <3>1
    <3>2. CASE a = [request[q] EXCEPT !.step = "cut"]
      <4>1. /\ a.step = "cut" /\ a.number = request[q].number /\ a.first = request[q].first
            /\ a.client = request[q].client /\ a.filter = request[q].filter
        BY <2>3, <3>2 DEF Request
      <4>2. QED BY <2>3, <4>1 DEF WalkInv, CountedInv, ShownInv, PassedInv
    <3>3. QED BY <2>2, <3>1, <3>2
  <2>5. WalkInv(a)'
    BY <1>1, <2>4, SameWalk
  <2>6. QED BY <2>1, <2>5
<1>3. QED BY <1>2 DEF WalksInv

LEMMA WalksInvHolds == Spec => []WalksInv
<1>1. Init => WalksInv
  <2>1. NewRequest.number = 0
    BY DEF NewRequest
  <2>2. QED BY <2>1 DEF Init, WalksInv, WalkInv
<1>2. QueriesInv /\ WalksInv /\ [Next]_vars => WalksInv'
  BY PipelineWalks, ConverseWalks, ShutdownWalks DEF Next
<1>3. QED BY <1>1, <1>2, QueriesInvHolds, PTL DEF Spec

-----------------------------------------------------------------------------
(* What holds.                                                             *)

\* Type correctness: whatever the adapters, the pipeline and a shutdown do.
THEOREM QueriesTypeCorrect == Spec => []QueriesTypeOK
<1>1. QueriesInv => QueriesTypeOK
  BY DEF QueriesInv, TablesInv, ServerInv, QueriesTypeOK
<1>2. QED BY <1>1, QueriesInvHolds, PTL

\* Nothing of an event is shown to anybody but its client (the WHERE client_id of every
\* statement, and the filter of the file adapter).
THEOREM OwnEventsOnlyHolds == Spec => []OwnEventsOnly
<1>1. QueriesInv => OwnEventsOnly
  BY DEF QueriesInv, RequestInv, OwnEventsOnly
<1>2. QED BY <1>1, QueriesInvHolds, PTL

\* Two statements are enough to explain a state (findByIdForClient), because the log only
\* grows, in the transaction that changes the state, and ends with the success.
THEOREM DetailIsExplainedHolds == Spec => []DetailIsExplained
<1>1. QueriesInv => DetailIsExplained
  BY DEF QueriesInv, RequestInv, DetailIsExplained, Explained
<1>2. QED BY <1>1, QueriesInvHolds, PTL

\* The pool is ended in the callback of server.close, hence under no request (shutdown).
THEOREM PoolOutlivesRequestsHolds == Spec => []PoolOutlivesRequests
<1>1. QueriesInv => PoolOutlivesRequests
  BY DEF QueriesInv, ServerInv, PoolOutlivesRequests
<1>2. QED BY <1>1, QueriesInvHolds, PTL

\* The page a list without a state filter shows is no emptier than the total beside it
\* says (findPage counts first and rows are never deleted), for every page size, however
\* many events are ingested between the two statements.
THEOREM PageIsAlwaysWithinTotal == Spec => []PageWithinTotal
<1>1. QueriesInv /\ WalksInv => PageWithinTotal
  BY DEF QueriesInv, WalksInv, WalkInv, ShownInv, PageWithinTotal
<1>2. QED BY <1>1, QueriesInvHolds, WalksInvHolds, PTL

\* Paging by OFFSET reaches every event that was there at the start: one that has not been
\* shown has at least as many rows before it as have been, and the last page is announced
\* only when no row is left behind it (ORDER BY created_at DESC, id DESC is strict).
THEOREM WalkAlwaysMissesNothing == Spec => []WalkMissesNothing
<1>1. QueriesInv /\ WalksInv => WalkMissesNothing
  BY DEF QueriesInv, WalksInv, WalkInv, PassedInv, WalkMissesNothing
<1>2. QED BY <1>1, QueriesInvHolds, WalksInvHolds, PTL

=============================================================================

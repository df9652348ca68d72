------------------------------- MODULE Monitor ------------------------------
(***************************************************************************)
(* The monitor service: it consumes the delivery results (result-          *)
(* consumer.ts), keeps the latest in memory (delivery-feed.ts), pushes     *)
(* each to the dashboards over server-sent events (sse.ts), answers their  *)
(* snapshots and shuts down (main.ts).                                     *)
(*                                                                         *)
(* A dashboard is the page the service serves (public/index.html): it      *)
(* opens the stream, loads one snapshot, and another when its filter       *)
(* changes.  Kafka, the network and the browser's EventSource are external.*)
(***************************************************************************)
EXTENDS Integers, SequencesExt

CONSTANTS
  Clients,
  Dashboards,
  Client,                \* Client[i]: the client of result i
  Duration, Status,      \* likewise
  Unreadable,            \* the messages JSON.parse or decode throws on
  Capacity,              \* MONITOR_BUFFER
  DefaultLimit,          \* the rows of a snapshot, 100
  MAX_ROWS,              \* the rows of a dashboard, 200
  Filters,               \* what may be typed, see All
  MaxResults, MaxAsks,
  MaxDisruptions         \* bounds: of connections, of group sessions, of processes

Results == 1..MaxResults

\* What a filter selects: a snapshot compares client ids, the page looks for the text in
\* them and does not mind the case.
All == [exact |-> Clients, within |-> Clients]

ASSUME MonitorAssumption ==
  /\ MaxResults \in Nat /\ MaxDisruptions \in Nat
  /\ Client \in [Results -> Clients]
  /\ Duration \in [Results -> Nat]
  /\ Status \in [Results -> {"SUCCESS", "FAILED"}]
  /\ Unreadable \subseteq Results
  /\ Capacity \in Nat \ {0} /\ DefaultLimit \in Nat \ {0} /\ MAX_ROWS \in Nat
  /\ MAX_ROWS >= 2 * DefaultLimit
  /\ Filters \subseteq [exact : SUBSET Clients, within : SUBSET Clients]
  /\ \A f \in Filters : f.exact \subseteq f.within

VARIABLES
  topic,                 \* the results published: 1..topic
  position, committed,   \* of the consumer; NoOffset: nothing committed
  handled,               \* the results handled, in order; a row is an index into it
                         \* (observed only by properties)
  started,               \* how many were handled by earlier processes (likewise)
  buffer,                \* the feed: rows
  server,                \* the HTTP server and the process
  link,                  \* link[b]: the event stream of dashboard b
  frames,                \* frames[b]: rows on their way to it
  rows, filter,          \* what it shows
  asks,                  \* asks[b]: its snapshots on their way
  whole, crossed,        \* whole[b]: see Apply; crossed[b]: were two snapshots under way
                         \* at once? (both observed only by properties)
  disruptions            \* counted for the bound

consumer == <<position, committed>>
feed == <<handled, started, buffer>>
page == <<rows, filter, asks, whole, crossed>>
vars == <<topic, consumer, feed, server, link, frames, page, disruptions>>

NoOffset == 0

\* A snapshot: asked for, or answered with rows.  intact: the stream has been open since
\* the answer and has shown nothing the answer lacks (observed only by properties).
Ask == [answered : BOOLEAN, filter : Filters \cup {All}, rows : Seq(Nat), intact : BOOLEAN]

NewAsk(f) == [answered |-> FALSE, filter |-> f, rows |-> <<>>, intact |-> FALSE]

Init ==
  /\ topic = 0
  /\ position = 1 /\ committed = NoOffset
  /\ handled = <<>> /\ started = 0 /\ buffer = <<>>
  /\ server = "up"
  /\ link = [b \in Dashboards |-> "connecting"]
  /\ frames = [b \in Dashboards |-> <<>>]
  /\ rows = [b \in Dashboards |-> <<>>]
  /\ filter = [b \in Dashboards |-> All]
  /\ asks = [b \in Dashboards |-> <<NewAsk(All)>>]
  /\ whole = [b \in Dashboards |-> FALSE]
  /\ crossed = [b \in Dashboards |-> FALSE]
  /\ disruptions = 0

MonitorTypeOK ==
  /\ topic \in 0..MaxResults
  /\ position \in Nat /\ committed \in Nat
  /\ handled \in Seq(Results) /\ started \in Nat
  /\ buffer \in Seq(Nat)
  /\ server \in {"up", "closing", "stopping", "down"}
  /\ link \in [Dashboards -> {"connecting", "open"}]
  /\ frames \in [Dashboards -> Seq(Nat)]
  /\ rows \in [Dashboards -> Seq(Nat)]
  /\ filter \in [Dashboards -> Filters \cup {All}]
  /\ asks \in [Dashboards -> Seq(Ask)]
  /\ whole \in [Dashboards -> BOOLEAN] /\ crossed \in [Dashboards -> BOOLEAN]
  /\ disruptions \in 0..MaxDisruptions

Least(a, b) == IF a < b THEN a ELSE b

ClientOf(row) == Client[handled[row]]

RowsOf(clients) == {row \in DOMAIN handled : ClientOf(row) \in clients}

-----------------------------------------------------------------------------
(* The feed.                                                               *)

\* A mistake in record: the length is looked at before the push.
RecordThenTooLong(row) ==
  IF Len(buffer) > Capacity THEN Tail(Append(buffer, row)) ELSE Append(buffer, row)

\* What record leaves in the buffer.
Record(row) ==
  LET pushed == Append(buffer, row)
  IN  IF Len(pushed) > Capacity THEN Tail(pushed) ELSE pushed

\* filter of JavaScript: the elements of s that are in S, in their order.
Filtered(s, S) ==
  LET F[i \in 0..Len(s)] ==
        IF i = 0 THEN <<>> ELSE IF s[i] \in S THEN Append(F[i - 1], s[i]) ELSE F[i - 1]
  IN  F[Len(s)]

\* slice(-limit) of JavaScript: from the end, but everything for a limit of 0.
SliceLast(s, limit) ==
  IF limit > 0 /\ limit <= Len(s) THEN SubSeq(s, Len(s) - limit + 1, Len(s)) ELSE s

\* A mistake in recent: the oldest.
RecentOldest(limit, clients) ==
  LET source == Filtered(buffer, RowsOf(clients))
  IN  SubSeq(source, 1, Least(limit, Len(source)))

Recent(limit, clients) ==
  Reverse(SliceLast(Filtered(buffer, RowsOf(clients)), limit))

\* A mistake in percentile: one place too low.
PercentileLow(sorted, q) ==
  IF sorted = <<>> THEN 0 ELSE sorted[IF (q * Len(sorted)) \div 100 = 0 THEN 1 ELSE (q * Len(sorted)) \div 100]

\* q in percent.
Percentile(sorted, q) ==
  IF sorted = <<>> THEN 0 ELSE sorted[Least(Len(sorted) - 1, (q * Len(sorted)) \div 100) + 1]

\* What summary counts, by its place in the feed, and its time; a cycle that made no call
\* has none.
Items(clients) == {i \in DOMAIN buffer : ClientOf(buffer[i]) \in clients}

Time(i) == Duration[handled[buffer[i]]]

Timed(clients) == {i \in Items(clients) : Time(i) > 0}

\* The order sort, which is stable, puts them in.
Before(i, j) == Time(i) < Time(j) \/ (Time(i) = Time(j) /\ i < j)

Durations(clients) ==
  LET timed == Timed(clients)
  IN  [k \in 1..Cardinality(timed) |->
        Time(CHOOSE i \in timed : Cardinality({j \in timed : Before(j, i)}) = k - 1)]

Succeeded(clients) == Cardinality({i \in Items(clients) : Status[handled[buffer[i]]] = "SUCCESS"})

\* GET /api/summary.
Summary(clients) ==
  LET durations == Durations(clients)
      total == Cardinality(Items(clients))
  IN  [total |-> total, succeeded |-> Succeeded(clients), failed |-> total - Succeeded(clients),
       p50 |-> Percentile(durations, 50), p95 |-> Percentile(durations, 95),
       max |-> IF durations = <<>> THEN 0 ELSE Last(durations),
       clients |-> Cardinality({ClientOf(buffer[i]) : i \in Items(clients)})]

-----------------------------------------------------------------------------
(* The consumer.                                                           *)

\* The dispatch service publishes a result.
Publish ==
  /\ topic < MaxResults
  /\ topic' = topic + 1
  /\ UNCHANGED <<consumer, feed, server, link, frames, page, disruptions>>

Disrupted == disruptions < MaxDisruptions /\ disruptions' = disruptions + 1

\* A mistake in eachMessage: what is left of an unreadable message is handled, too.
ConsumeUnreadable ==
  /\ server \in {"up", "closing"}
  /\ position <= topic
  /\ position' = position + 1
  /\ handled' = Append(handled, IF position \in Unreadable THEN 0 ELSE position)
  /\ buffer' = Record(Len(handled) + 1)
  /\ UNCHANGED <<topic, committed, started, server, link, frames, page, disruptions>>

\* eachMessage: the result is recorded and goes to every open stream.
Consume ==
  /\ server \in {"up", "closing"}
  /\ position <= topic
  /\ position' = position + 1
  /\ IF position \in Unreadable
       THEN UNCHANGED <<handled, buffer, frames>>
       ELSE LET row == Len(handled) + 1
            IN  /\ handled' = Append(handled, position)
                /\ buffer' = Record(row)
                /\ frames' = [b \in Dashboards |->
                     IF link[b] = "open" THEN Append(frames[b], row) ELSE frames[b]]
  /\ UNCHANGED <<topic, committed, started, server, link, page, disruptions>>

\* kafkajs commits now and then what it has consumed.
Commit ==
  /\ server \in {"up", "closing"}
  /\ position > 1 /\ committed # position
  /\ committed' = position
  /\ UNCHANGED <<topic, position, feed, server, link, frames, page, disruptions>>

\* It loses its session and joins again: from the committed offset, or else the end.
Rejoin ==
  /\ server \in {"up", "closing"}
  /\ Disrupted
  /\ position' = IF committed = NoOffset THEN topic + 1 ELSE committed
  /\ UNCHANGED <<topic, committed, feed, server, link, frames, page>>

-----------------------------------------------------------------------------
(* The dashboards.                                                         *)

\* handle: the stream is open.
Connect(b) ==
  /\ server = "up"
  /\ link[b] = "connecting"
  /\ link' = [link EXCEPT ![b] = "open"]
  /\ UNCHANGED <<topic, consumer, feed, server, frames, page, disruptions>>

Shaken(b) ==
  /\ whole' = [whole EXCEPT ![b] = FALSE]
  /\ asks' = [asks EXCEPT ![b] = [i \in 1..Len(@) |-> [@[i] EXCEPT !.intact = FALSE]]]

\* A connection breaks; EventSource opens another and says nothing to the page.
Drop(b) ==
  /\ link[b] = "open"
  /\ Disrupted
  /\ link' = [link EXCEPT ![b] = "connecting"]
  /\ frames' = [frames EXCEPT ![b] = <<>>]
  /\ Shaken(b)
  /\ UNCHANGED <<topic, consumer, feed, server, rows, filter, crossed>>

\* prepend: the row goes on top if it matches, and the oldest goes if there are too many.
ShowFrame(b) ==
  /\ frames[b] # <<>>
  /\ LET row == Head(frames[b])
         shown == <<row>> \o rows[b]
     IN  /\ rows' = [rows EXCEPT ![b] =
              IF ClientOf(row) \in filter[b].within
                THEN SubSeq(shown, 1, Least(MAX_ROWS, Len(shown)))
                ELSE @]
         /\ asks' = [asks EXCEPT ![b] = [i \in 1..Len(asks[b]) |->
              [asks[b][i] EXCEPT !.intact = @ /\ row \in ToSet(asks[b][i].rows)]]]
  /\ frames' = [frames EXCEPT ![b] = Tail(@)]
  /\ UNCHANGED <<topic, consumer, feed, server, link, filter, whole, crossed, disruptions>>

\* A mistake in the input handler: the new filter is for new rows only.
TypeFilterNoReload(b) ==
  /\ Len(asks[b]) < MaxAsks
  /\ \E f \in Filters \ {filter[b]} : filter' = [filter EXCEPT ![b] = f]
  /\ whole' = [whole EXCEPT ![b] = FALSE]
  /\ UNCHANGED <<topic, consumer, feed, server, link, frames, rows, asks, crossed, disruptions>>

\* Another text is typed: loadSnapshot.
TypeFilter(b) ==
  /\ Len(asks[b]) < MaxAsks
  /\ \E f \in Filters \ {filter[b]} :
       /\ filter' = [filter EXCEPT ![b] = f]
       /\ asks' = [asks EXCEPT ![b] = Append(@, NewAsk(f))]
  /\ crossed' = [crossed EXCEPT ![b] = @ \/ asks[b] # <<>>]
  /\ whole' = [whole EXCEPT ![b] = FALSE]
  /\ UNCHANGED <<topic, consumer, feed, server, link, frames, rows, disruptions>>

\* GET /api/deliveries.
AnswerAsk(b, i) ==
  /\ server \in {"up", "closing"}
  /\ ~asks[b][i].answered
  /\ asks' = [asks EXCEPT ![b][i] =
       [@ EXCEPT !.answered = TRUE, !.rows = Recent(DefaultLimit, asks[b][i].filter.exact),
                 !.intact = (link[b] = "open")]]
  /\ UNCHANGED <<topic, consumer, feed, server, link, frames, rows, filter, whole, crossed,
                 disruptions>>

\* The answer replaces the rows, whatever they are by then, and whatever the filter is.
Apply(b, i) ==
  /\ asks[b][i].answered
  /\ rows' = [rows EXCEPT ![b] = asks[b][i].rows]
  /\ whole' = [whole EXCEPT ![b] = asks[b][i].intact /\ asks[b][i].filter = filter[b]]
  /\ asks' = [asks EXCEPT ![b] = RemoveAt(@, i)]
  /\ UNCHANGED <<topic, consumer, feed, server, link, frames, filter, crossed, disruptions>>

\* The fetch is rejected: nobody handles that.
AskFails(b, i) ==
  /\ asks' = [asks EXCEPT ![b] = RemoveAt(@, i)]
  /\ crossed' = [crossed EXCEPT ![b] = TRUE]
  /\ UNCHANGED <<topic, consumer, feed, server, link, frames, rows, filter, whole, disruptions>>

-----------------------------------------------------------------------------
(* Shutdown, and the next process.                                         *)

Signal ==
  /\ server = "up"
  /\ server' = "closing"
  /\ UNCHANGED <<topic, consumer, feed, link, frames, page, disruptions>>

\* The callback of server.close: the streams of the dashboards have ended, too.
Closed ==
  /\ server = "closing"
  /\ \A b \in Dashboards : link[b] # "open"
  /\ server' = "stopping"
  /\ UNCHANGED <<topic, consumer, feed, link, frames, page, disruptions>>

\* The process ends, and with it every stream.
Exit ==
  /\ server' = "down"
  /\ link' = [b \in Dashboards |-> "connecting"]
  /\ frames' = [b \in Dashboards |-> <<>>]
  /\ whole' = [b \in Dashboards |-> FALSE]
  /\ asks' = [b \in Dashboards |->
       [i \in 1..Len(asks[b]) |-> [asks[b][i] EXCEPT !.intact = FALSE]]]
  /\ UNCHANGED <<topic, consumer, feed, rows, filter, crossed, disruptions>>

\* The consumer has left its group.
StreamStopped == server = "stopping" /\ Exit

\* A mistake in shutdown: no timer.
NoTimeLimit == server = "stopping" /\ Exit

\* 10 s after the signal.
TimeLimit == server \in {"closing", "stopping"} /\ Exit

\* Another process: a feed of its own, a group of its own, from the end of the topic.
Start ==
  /\ server = "down"
  /\ Disrupted
  /\ server' = "up"
  /\ position' = topic + 1 /\ committed' = NoOffset
  /\ buffer' = <<>> /\ started' = Len(handled)
  /\ UNCHANGED <<topic, handled, link, frames, page>>

Next ==
  \/ Publish \/ Consume \/ Commit \/ Rejoin
  \/ \E b \in Dashboards :
       \/ Connect(b) \/ Drop(b) \/ ShowFrame(b) \/ TypeFilter(b)
       \/ \E i \in DOMAIN asks[b] : AnswerAsk(b, i) \/ Apply(b, i) \/ AskFails(b, i)
  \/ Signal \/ Closed \/ StreamStopped \/ TimeLimit \/ Start

Spec == Init /\ [][Next]_vars

\* Callbacks and timers run.  Nobody has to close a dashboard.
Fairness == WF_vars(Closed) /\ WF_vars(StreamStopped) /\ WF_vars(TimeLimit)

FairSpec == Spec /\ Fairness

-----------------------------------------------------------------------------
(* What holds.                                                             *)

\* "A bounded in-memory view of recent deliveries": the feed is the latest results this
\* process handled, through restarts, malformed messages and messages read twice.
FeedIsWindow ==
  LET oldest == IF Len(handled) - Capacity > started THEN Len(handled) - Capacity ELSE started
  IN  buffer = [i \in 1..(Len(handled) - oldest) |-> oldest + i]

\* At most q percent of the times are below p, and more than q percent are not above it.
Divides(p, q, clients) ==
  LET n == Cardinality(Timed(clients))
  IN  /\ 100 * Cardinality({i \in Timed(clients) : Time(i) < p}) <= q * n
      /\ n # 0 => 100 * Cardinality({i \in Timed(clients) : Time(i) <= p}) > q * n

\* The latencies the monitor shows, of all clients or of one, divide the times of the calls
\* in the feed as their names say, are in order, and no call took longer than the longest.
LatencyIsPercentile ==
  \A f \in Filters \cup {All} :
    LET clients == f.exact
        latency == Summary(clients)
    IN  /\ Divides(latency.p50, 50, clients) /\ Divides(latency.p95, 95, clients)
        /\ latency.p50 <= latency.p95 /\ latency.p95 <= latency.max
        /\ \A i \in Timed(clients) : Time(i) <= latency.max

\* The rows handled after a row that the text of the filter selects.
Later(row, clients) == {r \in RowsOf(clients) : r > row}

\* What a dashboard is for: once it shows a snapshot that was taken while its stream was
\* open and that no live row overtook, and until the stream breaks or the filter changes,
\* it shows the latest results of the clients it names, as soon as they have arrived; but
\* it may lose them to rows of clients the text only occurs in, when there are so many.
DashboardIsComplete ==
  \A b \in Dashboards :
    whole[b] /\ frames[b] = <<>> =>
      \A row \in ToSet(Recent(DefaultLimit, filter[b].exact)) :
        \/ row \in ToSet(rows[b])
        \/ Cardinality(Later(row, filter[b].within)) > MAX_ROWS - DefaultLimit

\* A dashboard with no snapshot under way shows no row its filter excludes, unless two
\* snapshots crossed or one failed: the answers are applied in the order they arrive.
RowsMatchFilter ==
  \A b \in Dashboards :
    asks[b] = <<>> /\ ~crossed[b] =>
      \A i \in DOMAIN rows[b] : ClientOf(rows[b][i]) \in filter[b].within

\* The process ends after a signal, although a dashboard keeps its stream, and with it
\* the server, open for ever.
MonitorStops == server = "closing" ~> server = "down"
=============================================================================

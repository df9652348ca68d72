--------------------------- MODULE DeliveryProofs ---------------------------
(***************************************************************************)
(* Type correctness of the delivery pipeline, for every value of the       *)
(* constants.  TypeOK alone is not inductive: what a handler reads through *)
(* its offset is a message only if the offset lies in the log, and that    *)
(* message is about an event only past the poison check.                   *)
(***************************************************************************)
EXTENDS Guarantees, TLAPS

\* A handler at work holds a message of its partition's log; past decode the message
\* is about an event, and what it carries between two calls is a delivery status.
HandlerOK ==
  \A d \in Dispatchers :
    /\ pc[d] # "idle" => job[d].offset \in 1..Len(log[job[d].part])
    /\ pc[d] \notin {"idle", "poison", "commit"} => EventOf(d) \in Events
    /\ pc[d] \in {"record", "announce"} => job[d].held \in DeliveryStatus

TypeInv == TypeOK /\ HandlerOK

\* The values CHOOSE picks and the partitions messages go to have their types.
LEMMA Constants ==
  /\ NoJob \in Job
  /\ NoTask \in PendingRetry
  /\ \A source \in DispatchSource, e \in Events : PartitionOf[source][e] \in Partitions
<1>1. NoJob \in Job
  <2>1. (CHOOSE p \in Partitions : TRUE) \in Partitions
    BY DispatcherAssumption
  <2>2. QED BY <2>1 DEF NoJob, Job
<1>2. NoTask \in PendingRetry
  <2>1. (CHOOSE e \in Events : TRUE) \in Events
    BY DeliveryAssumption
  <2>2. QED BY <2>1 DEF NoTask, PendingRetry
<1>3. ASSUME NEW source \in DispatchSource, NEW e \in Events
      PROVE  PartitionOf[source][e] \in Partitions
  <2>1. PartitionOf[source] \in [Events -> Partitions]
    BY TopicsAssumption
  <2>2. QED BY <2>1
<1>4. QED BY <1>1, <1>2, <1>3

\* The services start well typed, with no handler at work.
LEMMA InitTypeInv == Init => TypeInv
<1> SUFFICES ASSUME Init PROVE TypeInv
  OBVIOUS
<1> USE Constants DEF Init
<1>1. StoreTypeOK
  BY DEF StoreInit, StoreTypeOK, Row, EventState, RetryTime
<1>2. TopicsTypeOK
  BY TopicsAssumption DEF TopicsInit, TopicsTypeOK
<1>3. DispatcherTypeOK
  BY DEF DispatcherInit, DispatcherTypeOK, Step
<1>4. WorkerTypeOK
  BY DEF WorkerInit, WorkerTypeOK, Stage
<1>5. ReplayTypeOK
  BY DeliveryAssumption DEF ReplayInit, ReplayTypeOK, Request, RequestStep
<1>6. HandlerOK
  BY DEF DispatcherInit, HandlerOK
<1>7. QED BY <1>1, <1>2, <1>3, <1>4, <1>5, <1>6 DEF TypeInv, TypeOK

\* Appending a message keeps every message already in the log where it was.
LEMMA LogGrows ==
  ASSUME TypeOK, NEW p \in Partitions, NEW m \in Message,
         log' = [log EXCEPT ![p] = Append(@, m)]
  PROVE  /\ log' \in [Partitions -> Seq(Message)]
         /\ \A q \in Partitions :
              /\ Len(log'[q]) >= Len(log[q])
              /\ \A i \in 1..Len(log[q]) : log'[q][i] = log[q][i]
BY DEF TypeOK, TopicsTypeOK

\* What the type invariant says of one handler.
LEMMA JobFacts ==
  ASSUME TypeInv, NEW d \in Dispatchers
  PROVE  /\ pc[d] \in Step
         /\ job[d] \in Job
         /\ job[d].part \in Partitions
         /\ job[d].offset \in Nat
         /\ job[d].number \in Nat
         /\ log[job[d].part] \in Seq(Message)
<1>1. pc[d] \in Step /\ job[d] \in Job
  BY DEF TypeInv, TypeOK, DispatcherTypeOK
<1>2. job[d].part \in Partitions /\ job[d].offset \in Nat /\ job[d].number \in Nat
  BY <1>1 DEF Job
<1>3. log[job[d].part] \in Seq(Message)
  BY <1>2 DEF TypeInv, TypeOK, TopicsTypeOK
<1>4. QED BY <1>1, <1>2, <1>3

\* A step that touches no handler, and at most appends to the log, keeps HandlerOK.
LEMMA HandlerFrame ==
  ASSUME TypeInv, UNCHANGED <<pc, job>>,
         \/ log' = log
         \/ \E p \in Partitions, m \in Message : log' = [log EXCEPT ![p] = Append(@, m)]
  PROVE  log' \in [Partitions -> Seq(Message)] /\ HandlerOK'
<1>1. /\ log' \in [Partitions -> Seq(Message)]
      /\ \A q \in Partitions :
           /\ Len(log'[q]) >= Len(log[q])
           /\ \A i \in 1..Len(log[q]) : log'[q][i] = log[q][i]
  <2>1. CASE log' = log
    BY <2>1 DEF TypeInv, TypeOK, TopicsTypeOK
  <2>2. CASE \E p \in Partitions, m \in Message : log' = [log EXCEPT ![p] = Append(@, m)]
    BY <2>2, LogGrows DEF TypeInv
  <2>3. QED BY <2>1, <2>2
<1>2. ASSUME NEW d \in Dispatchers, pc[d] # "idle"
      PROVE  job[d].offset \in 1..Len(log'[job[d].part]) /\ EventOf(d)' = EventOf(d)
  <2>1. job[d].offset \in 1..Len(log[job[d].part])
    BY <1>2 DEF TypeInv, HandlerOK
  <2>2. Len(log[job[d].part]) \in Nat /\ Len(log'[job[d].part]) \in Nat
    BY <1>1, JobFacts
  <2>3. QED BY <1>1, <2>1, <2>2, JobFacts DEF EventOf, MessageOf
<1>3. QED BY <1>1, <1>2 DEF TypeInv, HandlerOK

\* A step of one handler that leaves the log alone.
LEMMA HandlerStep ==
  ASSUME TypeInv, NEW d \in Dispatchers, NEW step \in Step, NEW j \in Job,
         pc' = [pc EXCEPT ![d] = step], job' = [job EXCEPT ![d] = j], log' = log,
         step # "idle" => j.offset \in 1..Len(log[j.part]),
         step \notin {"idle", "poison", "commit"} => log[j.part][j.offset].event \in Events,
         step \in {"record", "announce"} => j.held \in DeliveryStatus
  PROVE  /\ pc' \in [Dispatchers -> Step]
         /\ job' \in [Dispatchers -> Job]
         /\ HandlerOK'
<1>1. pc' \in [Dispatchers -> Step] /\ job' \in [Dispatchers -> Job]
  BY DEF TypeInv, TypeOK, DispatcherTypeOK
<1>2. ASSUME NEW x \in Dispatchers, x # d
      PROVE  pc'[x] = pc[x] /\ job'[x] = job[x] /\ EventOf(x)' = EventOf(x)
  BY <1>2 DEF TypeInv, TypeOK, DispatcherTypeOK, EventOf, MessageOf
<1>3. pc'[d] = step /\ job'[d] = j /\ EventOf(d)' = log[j.part][j.offset].event
  BY DEF TypeInv, TypeOK, DispatcherTypeOK, EventOf, MessageOf
<1>4. QED BY <1>1, <1>2, <1>3 DEF TypeInv, HandlerOK

\* The same for the steps that only move on with something in hand.
LEMMA GoStep ==
  ASSUME TypeInv, NEW d \in Dispatchers, NEW step \in Step,
         NEW held \in EventState \cup DeliveryStatus \cup {"none"},
         Go(d, step, held), log' = log, pc[d] # "idle",
         step \notin {"idle", "poison", "commit"} => pc[d] \notin {"poison", "commit"},
         step \in {"record", "announce"} => held \in DeliveryStatus
  PROVE  /\ pc' \in [Dispatchers -> Step]
         /\ job' \in [Dispatchers -> Job]
         /\ HandlerOK'
<1> DEFINE j == [job[d] EXCEPT !.held = held]
<1>1. j \in Job /\ j.part = job[d].part /\ j.offset = job[d].offset /\ j.held = held
  BY JobFacts DEF Job
<1>2. job' = [job EXCEPT ![d] = j] /\ pc' = [pc EXCEPT ![d] = step]
  BY DEF Go
<1>3. job[d].offset \in 1..Len(log[job[d].part])
  BY DEF TypeInv, HandlerOK
<1>4. step \notin {"idle", "poison", "commit"} => log[job[d].part][job[d].offset].event \in Events
  BY DEF TypeInv, HandlerOK, EventOf, MessageOf
<1> HIDE DEF j
<1>5. QED BY <1>1, <1>2, <1>3, <1>4, HandlerStep

\* The same for a store call whose answer may be lost.
LEMMA AnswerStep ==
  ASSUME TypeInv, NEW d \in Dispatchers, NEW step \in Step \ {"idle"},
         NEW held \in EventState \cup DeliveryStatus \cup {"none"},
         Answer(d, step, held), log' = log, pc[d] \notin {"idle", "poison", "commit"},
         step \in {"record", "announce"} => held \in DeliveryStatus
  PROVE  /\ pc' \in [Dispatchers -> Step]
         /\ job' \in [Dispatchers -> Job]
         /\ HandlerOK'
         /\ disruptions' \in 0..MaxDisruptions
<1>1. disruptions' \in 0..MaxDisruptions
  BY TopicsAssumption DEF Answer, Disrupt, TypeInv, TypeOK, TopicsTypeOK
<1>2. CASE Go(d, step, held)
  BY <1>1, <1>2, GoStep
<1>3. CASE Go(d, "find", "none")
  BY <1>1, <1>3, GoStep DEF Step
<1>4. QED BY <1>2, <1>3 DEF Answer

\* The statements of the store keep the tables well formed.
LEMMA StoreStatements ==
  ASSUME StoreTypeOK
  PROVE  /\ \A e \in Events :
              /\ Insert(e) => StoreTypeOK'
              /\ \A s \in EventState : UpdateState(e, s) => StoreTypeOK'
              /\ \A s \in EventState : ClaimForDelivery(e, s) => StoreTypeOK'
              /\ \A s \in DeliveryStatus : RecordOutcome(e, s) => StoreTypeOK'
              /\ ScheduleNext(e) => StoreTypeOK'
              /\ MarkFailed(e) => StoreTypeOK'
              /\ Lapse(e) => StoreTypeOK'
              /\ MarkForReplay(e) => StoreTypeOK'
         /\ \A S \in SUBSET Events :
              /\ ClaimDue(S) => StoreTypeOK'
              /\ ReclaimStalled(S) => StoreTypeOK'
         /\ UNCHANGED storeVars => StoreTypeOK'
<1> USE DEF StoreTypeOK, Row, EventState, RetryTime
<1>1. ASSUME NEW e \in Events PROVE Insert(e) => StoreTypeOK'
  BY DEF Insert
<1>2. ASSUME NEW e \in Events, NEW s \in EventState PROVE UpdateState(e, s) => StoreTypeOK'
  BY DEF UpdateState
<1>3. ASSUME NEW e \in Events, NEW s \in EventState PROVE ClaimForDelivery(e, s) => StoreTypeOK'
  <2>1. CASE Matches(e, s)
    <3>1. ClaimForDelivery(e, s) => UpdateState(e, "DELIVERING")
      BY <2>1 DEF ClaimForDelivery, UpdateState
    <3>2. QED BY <3>1, <1>2
  <2>2. CASE ~Matches(e, s)
    BY <2>2 DEF ClaimForDelivery
  <2>3. QED BY <2>1, <2>2
<1>4. ASSUME NEW e \in Events, NEW s \in DeliveryStatus PROVE RecordOutcome(e, s) => StoreTypeOK'
  <2>1. SUFFICES ASSUME RecordOutcome(e, s) PROVE StoreTypeOK'
    OBVIOUS
  <2>2. attempts' \in [Events -> Seq(DeliveryStatus)]
    BY <2>1 DEF RecordOutcome
  <2>3. OutcomeState(s) \in EventState
    BY DEF OutcomeState
  <2>4. rows' \in [Events -> Row]
    BY <2>1, <2>3 DEF RecordOutcome
  <2>5. QED BY <2>2, <2>4
<1>5. ASSUME NEW e \in Events PROVE ScheduleNext(e) => StoreTypeOK'
  <2>1. CASE State(e) = "RETRYING"
    <3>1. ScheduleNext(e) => rows' = [rows EXCEPT ![e].next = "scheduled"] /\ UNCHANGED attempts
      BY <2>1 DEF ScheduleNext
    <3>2. QED BY <3>1, ZenonT(60)
  <2>2. CASE State(e) # "RETRYING"
    BY <2>2 DEF ScheduleNext, State
  <2>3. QED BY <2>1, <2>2
<1>6. ASSUME NEW e \in Events, NEW s \in EventState,
             rows' = [rows EXCEPT ![e].state = s, ![e].next = "due"]
      PROVE  rows' \in [Events -> Row]
  <2>1. ASSUME NEW g \in Events PROVE rows'[g] \in Row
    <3>1. CASE g = e
      BY <1>6, <3>1
    <3>2. CASE g # e
      BY <1>6, <3>2
    <3>3. QED BY <3>1, <3>2
  <2>2. rows' = [g \in Events |-> rows'[g]]
    BY <1>6
  <2>3. QED BY <2>1, <2>2
<1>7. ASSUME NEW e \in Events PROVE MarkFailed(e) => StoreTypeOK'
  BY <1>6 DEF MarkFailed
<1>8. ASSUME NEW e \in Events PROVE Lapse(e) => StoreTypeOK'
  BY DEF Lapse
<1>9. ASSUME NEW e \in Events PROVE MarkForReplay(e) => StoreTypeOK'
  BY <1>6 DEF MarkForReplay
<1>10. ASSUME NEW S \in SUBSET Events PROVE ClaimDue(S) => StoreTypeOK'
  BY DEF ClaimDue, State
<1>11. ASSUME NEW S \in SUBSET Events PROVE ReclaimStalled(S) => StoreTypeOK'
  BY DEF ReclaimStalled
<1>12. UNCHANGED storeVars => StoreTypeOK'
  BY DEF storeVars
<1>13. QED
  BY <1>1, <1>2, <1>3, <1>4, <1>5, <1>7, <1>8, <1>9, <1>10, <1>11, <1>12

\* A producer appends one message to one partition.
LEMMA PublishLog ==
  ASSUME NEW e \in Events, NEW source \in DispatchSource, Publish(e, source)
  PROVE  \E p \in Partitions, m \in Message : log' = [log EXCEPT ![p] = Append(@, m)]
<1>1. PartitionOf[source][e] \in Partitions
  BY Constants
<1>2. [event |-> e, source |-> source] \in Message
  BY DEF Message
<1>3. QED BY <1>1, <1>2 DEF Publish

\* Each call of the dispatch service keeps the types.
LEMMA HandleTypes ==
  ASSUME TypeInv, NEW d \in Dispatchers, Handle(d)
  PROVE  StoreTypeOK' /\ TopicsTypeOK' /\ DispatcherTypeOK' /\ HandlerOK'
<1> DEFINE Goal == StoreTypeOK' /\ TopicsTypeOK' /\ DispatcherTypeOK' /\ HandlerOK'
<1> DEFINE e == EventOf(d)
<1>a. TypeOK /\ HandlerOK /\ StoreTypeOK /\ TopicsTypeOK /\ DispatcherTypeOK
  BY DEF TypeInv, TypeOK
<1>b. /\ pc[d] \in Step /\ job[d] \in Job /\ job[d].part \in Partitions
      /\ job[d].offset \in Nat /\ job[d].number \in Nat
  BY JobFacts
<1>c. pc[d] \notin {"idle", "poison", "commit"} => e \in Events
  BY <1>a DEF HandlerOK
<1>1. ASSUME NEW p \in Partitions, Fetch(d, p) PROVE Goal
  <2> DEFINE j == [NoJob EXCEPT !.part = p, !.offset = position[p] + 1]
  <2> DEFINE step == IF log[p][position[p] + 1].event = Malformed THEN "poison" ELSE "find"
  <2>1. position[p] \in Nat /\ log[p] \in Seq(Message) /\ position[p] < Len(log[p])
    BY <1>1, <1>a DEF TopicsTypeOK, Fetch
  <2>2. j \in Job /\ j.part = p /\ j.offset = position[p] + 1
    <3>1. NoJob \in Job /\ position[p] + 1 \in Nat
      BY <2>1, Constants
    <3>2. QED BY <3>1 DEF Job
  <2>3. log[p][position[p] + 1] \in Message /\ position[p] + 1 \in 1..Len(log[p])
    BY <2>1
  <2>4. step \in Step /\ (step = "find" => log[p][position[p] + 1].event \in Events)
    BY <2>3 DEF Step, Message
  <2>5. pc' = [pc EXCEPT ![d] = step] /\ job' = [job EXCEPT ![d] = j] /\ log' = log
    BY <1>1 DEF Fetch
  <2>6. step \in {"poison", "find"}
    OBVIOUS
  <2> HIDE DEF j, step
  <2>7. /\ pc' \in [Dispatchers -> Step]
        /\ job' \in [Dispatchers -> Job]
        /\ HandlerOK'
    BY <2>2, <2>3, <2>4, <2>5, <2>6, HandlerStep
  <2>8. StoreTypeOK' /\ TopicsTypeOK' /\ accepted' \in [Events -> Nat]
    BY <1>1, <1>a, <2>1 DEF Fetch, StoreTypeOK, TopicsTypeOK, DispatcherTypeOK, storeVars
  <2>9. QED BY <2>7, <2>8 DEF DispatcherTypeOK
<1>2. CASE ToDLQ(d)
  <2>1. pc' \in [Dispatchers -> Step] /\ job' \in [Dispatchers -> Job] /\ HandlerOK'
    BY <1>2, GoStep DEF ToDLQ, Step
  <2>2. dlq' \subseteq DeadLetterRecord \cup PoisonRecord
    BY <1>2, <1>a, <1>b DEF ToDLQ, TopicsTypeOK, PoisonRecord
  <2>3. disruptions' \in 0..MaxDisruptions
    BY <1>2, <1>a, TopicsAssumption DEF ToDLQ, Disrupt, TopicsTypeOK
  <2>4. QED BY <1>2, <1>a, <2>1, <2>2, <2>3
            DEF ToDLQ, storeVars, groupVars, StoreTypeOK, TopicsTypeOK, DispatcherTypeOK
<1>3. CASE Commit(d)
  <2>1. pc' \in [Dispatchers -> Step] /\ job' \in [Dispatchers -> Job] /\ HandlerOK'
    BY <1>3, Constants, HandlerStep DEF Commit, Step
  <2>2. committed' \in [Partitions -> Nat]
    BY <1>3, <1>a, <1>b DEF Commit, TopicsTypeOK
  <2>3. disruptions' \in 0..MaxDisruptions
    BY <1>3, <1>a, TopicsAssumption DEF Commit, Disrupt, TopicsTypeOK
  <2>4. QED BY <1>3, <1>a, <2>1, <2>2, <2>3
            DEF Commit, storeVars, StoreTypeOK, TopicsTypeOK, DispatcherTypeOK
<1>4. CASE Find(d)
  <2>1. State(e) \in EventState \cup {"ABSENT"}
    BY <1>4, <1>a, <1>c DEF Find, StoreTypeOK, State, Row
  <2>2. pc' \in [Dispatchers -> Step] /\ job' \in [Dispatchers -> Job] /\ HandlerOK'
    BY <1>4, <2>1, GoStep DEF Find, Step, CanBeDispatched, EventState, topicVars
  <2>3. QED BY <1>4, <1>a, <2>2
            DEF Find, storeVars, topicVars, StoreTypeOK, TopicsTypeOK, DispatcherTypeOK
<1>4a. CASE InsertRefused(d)
  <2>1. pc' \in [Dispatchers -> Step] /\ job' \in [Dispatchers -> Job] /\ HandlerOK'
    BY <1>4a, GoStep DEF InsertRefused, Step, EventState, topicVars
  <2>2. QED BY <1>4a, <1>a, <2>1
            DEF InsertRefused, storeVars, topicVars, StoreTypeOK, TopicsTypeOK, DispatcherTypeOK
<1>5. CASE InsertEvent(d)
  <2>1. /\ pc' \in [Dispatchers -> Step] /\ job' \in [Dispatchers -> Job] /\ HandlerOK'
        /\ disruptions' \in 0..MaxDisruptions
    BY <1>5, AnswerStep DEF InsertEvent, Step, EventState
  <2>2. StoreTypeOK'
    BY <1>5, <1>a, <1>c, StoreStatements DEF InsertEvent
  <2>3. QED BY <1>5, <1>a, <2>1, <2>2
            DEF InsertEvent, groupVars, TopicsTypeOK, DispatcherTypeOK
<1>6. CASE Claim(d)
  <2>1. /\ pc' \in [Dispatchers -> Step] /\ job' \in [Dispatchers -> Job] /\ HandlerOK'
        /\ disruptions' \in 0..MaxDisruptions
    BY <1>6, AnswerStep DEF Claim, Step
  <2>2. StoreTypeOK'
    BY <1>6, <1>a, <1>c DEF Claim, ClaimForDelivery, StoreTypeOK, Row, EventState
  <2>3. QED BY <1>6, <1>a, <2>1, <2>2 DEF Claim, groupVars, TopicsTypeOK, DispatcherTypeOK
<1>7. CASE Resolve(d)
  <2>1. pc' \in [Dispatchers -> Step] /\ job' \in [Dispatchers -> Job] /\ HandlerOK'
    BY <1>7, GoStep DEF Resolve, Step, topicVars
  <2>2. QED BY <1>7, <1>a, <2>1
            DEF Resolve, storeVars, topicVars, StoreTypeOK, TopicsTypeOK, DispatcherTypeOK
<1>8. CASE Send(d)
  <2>1. pc' \in [Dispatchers -> Step] /\ job' \in [Dispatchers -> Job] /\ HandlerOK'
    BY <1>8, GoStep DEF Send, Step, DeliveryStatus
  <2>2. accepted' \in [Events -> Nat]
    <3>1. PICK held \in DeliveryStatus, lost \in {0, 1} :
            accepted' = [accepted EXCEPT ![e] =
              accepted[e] + lost + (IF held = "SUCCESS" THEN 1 ELSE 0)]
      BY <1>8 DEF Send
    <3>2. accepted[e] + lost + (IF held = "SUCCESS" THEN 1 ELSE 0) \in Nat
      BY <1>8, <1>a, <1>c DEF Send, DispatcherTypeOK
    <3>3. QED BY <3>1, <3>2, <1>a DEF DispatcherTypeOK
  <2>3. disruptions' \in 0..MaxDisruptions
    BY <1>8, <1>a, TopicsAssumption DEF Send, Disrupt, TopicsTypeOK
  <2>4. QED BY <1>8, <1>a, <2>1, <2>2, <2>3
            DEF Send, storeVars, groupVars, StoreTypeOK, TopicsTypeOK, DispatcherTypeOK
<1>9. CASE Record(d)
  <2>1. job[d].held \in DeliveryStatus /\ e \in Events /\ job[d].offset \in 1..Len(log[job[d].part])
    BY <1>9, <1>a, <1>c DEF Record, HandlerOK
  <2>2. StoreTypeOK'
    BY <1>9, <1>a, <2>1, StoreStatements DEF Record
  <2>3. disruptions' \in 0..MaxDisruptions
    BY <1>9, <1>a, TopicsAssumption DEF Record, Disrupt, TopicsTypeOK
  <2>4. CASE Go(d, "find", "none")
    <3>1. pc' \in [Dispatchers -> Step] /\ job' \in [Dispatchers -> Job] /\ HandlerOK'
      BY <1>9, <2>4, GoStep DEF Record, Step
    <3>2. QED BY <1>9, <1>a, <2>2, <2>3, <3>1 DEF Record, groupVars, TopicsTypeOK, DispatcherTypeOK
  <2>5. CASE /\ pc' = [pc EXCEPT ![d] = "announce"]
             /\ job' = [job EXCEPT ![d].number = Len(attempts[e]) + 1]
    <3> DEFINE j == [job[d] EXCEPT !.number = Len(attempts[e]) + 1]
    <3>1. Len(attempts[e]) \in Nat
      BY <1>a, <2>1 DEF StoreTypeOK
    <3>2. j \in Job /\ j.part = job[d].part /\ j.offset = job[d].offset /\ j.held = job[d].held
      BY <1>b, <3>1 DEF Job
    <3>3. job' = [job EXCEPT ![d] = j] /\ log' = log /\ "announce" \in Step
      BY <1>9, <2>5 DEF Record, Step
    <3>4. log[job[d].part][job[d].offset].event \in Events
      BY <2>1 DEF EventOf, MessageOf
    <3> HIDE DEF j
    <3>5. pc' \in [Dispatchers -> Step] /\ job' \in [Dispatchers -> Job] /\ HandlerOK'
      BY <2>1, <2>5, <3>2, <3>3, <3>4, HandlerStep
    <3>6. QED BY <1>9, <1>a, <2>2, <2>3, <3>5 DEF Record, groupVars, TopicsTypeOK, DispatcherTypeOK
  <2>6. QED BY <1>9, <2>4, <2>5 DEF Record
<1>10. CASE Abandon(d)
  <2>1. /\ pc' \in [Dispatchers -> Step] /\ job' \in [Dispatchers -> Job] /\ HandlerOK'
        /\ disruptions' \in 0..MaxDisruptions
    BY <1>10, AnswerStep DEF Abandon, Step, DeliveryStatus
  <2>2. StoreTypeOK'
    BY <1>10, <1>a, <1>c, StoreStatements DEF Abandon, EventState
  <2>3. QED BY <1>10, <1>a, <2>1, <2>2 DEF Abandon, groupVars, TopicsTypeOK, DispatcherTypeOK
<1>11. CASE Close(d)
  <2>1. /\ pc' \in [Dispatchers -> Step] /\ job' \in [Dispatchers -> Job] /\ HandlerOK'
        /\ disruptions' \in 0..MaxDisruptions
    BY <1>11, AnswerStep DEF Close, Step, DeliveryStatus
  <2>2. StoreTypeOK'
    BY <1>11, <1>a, <1>c, StoreStatements DEF Close, EventState
  <2>3. QED BY <1>11, <1>a, <2>1, <2>2 DEF Close, groupVars, TopicsTypeOK, DispatcherTypeOK
<1>12. CASE Announce(d)
  <2> DEFINE j == [job[d] EXCEPT !.held = "none", !.number = 0]
  <2>1. j \in Job /\ j.part = job[d].part /\ j.offset = job[d].offset
    BY <1>b DEF Job
  <2>2. job[d].offset \in 1..Len(log[job[d].part]) /\ job[d].held \in DeliveryStatus /\ e \in Events
    BY <1>12, <1>a, <1>c DEF Announce, HandlerOK
  <2>3. /\ pc' = [pc EXCEPT ![d] = "commit"] /\ job' = [job EXCEPT ![d] = j]
        /\ log' = log /\ "commit" \in Step
    BY <1>12 DEF Announce, Step
  <2> HIDE DEF j
  <2>4. pc' \in [Dispatchers -> Step] /\ job' \in [Dispatchers -> Job] /\ HandlerOK'
    BY <2>1, <2>2, <2>3, HandlerStep
  <2>5. results' \subseteq [event : Events, status : DeliveryStatus, number : Nat]
    BY <1>12, <1>a, <1>b, <2>2 DEF Announce, TopicsTypeOK
  <2>6. disruptions' \in 0..MaxDisruptions
    BY <1>12, <1>a, TopicsAssumption DEF Announce, Disrupt, TopicsTypeOK
  <2>7. QED BY <1>12, <1>a, <2>4, <2>5, <2>6
            DEF Announce, storeVars, groupVars, StoreTypeOK, TopicsTypeOK, DispatcherTypeOK
<1>13. QED
  BY <1>1, <1>2, <1>3, <1>4, <1>4a, <1>5, <1>6, <1>7, <1>8, <1>9, <1>10, <1>11, <1>12 DEF Handle

\* So does what interrupts a dispatcher: a failed store call, a crash, a rebalance.
LEMMA DisruptionTypes ==
  ASSUME TypeInv, NEW d \in Dispatchers,
         StoreFails(d) \/ Crash(d) \/ \E p \in Partitions : Rebalance(d, p)
  PROVE  StoreTypeOK' /\ TopicsTypeOK' /\ DispatcherTypeOK' /\ HandlerOK'
<1>a. TypeOK /\ HandlerOK /\ StoreTypeOK /\ TopicsTypeOK /\ DispatcherTypeOK
  BY DEF TypeInv, TypeOK
<1>b. disruptions' \in 0..MaxDisruptions
  BY <1>a, TopicsAssumption DEF StoreFails, Crash, Rebalance, Disrupt, TopicsTypeOK
<1>1. CASE StoreFails(d)
  <2>1. pc' \in [Dispatchers -> Step] /\ job' \in [Dispatchers -> Job] /\ HandlerOK'
    BY <1>1, GoStep DEF StoreFails, Step
  <2>2. QED BY <1>1, <1>a, <1>b, <2>1
            DEF StoreFails, storeVars, groupVars, StoreTypeOK, TopicsTypeOK, DispatcherTypeOK
<1>2. CASE Crash(d)
  <2>1. pc' \in [Dispatchers -> Step] /\ job' \in [Dispatchers -> Job] /\ HandlerOK'
    BY <1>2, Constants, HandlerStep DEF Crash, Step
  <2>2. position' \in [Partitions -> Nat]
    BY <1>2, <1>a DEF Crash, TopicsTypeOK
  <2>3. QED BY <1>2, <1>a, <1>b, <2>1, <2>2
            DEF Crash, storeVars, StoreTypeOK, TopicsTypeOK, DispatcherTypeOK
<1>3. ASSUME NEW p \in Partitions, Rebalance(d, p)
      PROVE  StoreTypeOK' /\ TopicsTypeOK' /\ DispatcherTypeOK' /\ HandlerOK'
  <2>1. HandlerOK'
    BY <1>3, HandlerFrame DEF Rebalance, dispatcherVars
  <2>2. position' \in [Partitions -> Nat] /\ owner' \in [Partitions -> Dispatchers]
    BY <1>3, <1>a DEF Rebalance, TopicsTypeOK
  <2>3. QED BY <1>3, <1>a, <1>b, <2>1, <2>2
            DEF Rebalance, storeVars, dispatcherVars, StoreTypeOK, TopicsTypeOK, DispatcherTypeOK
<1>4. QED BY <1>1, <1>2, <1>3

\* Each step of the retry service keeps the types.
LEMMA WorkerTypes ==
  ASSUME TypeInv, NEW w \in Workers, Work(w, Stalled) \/ CrashWorker(w),
         UNCHANGED dispatcherVars
  PROVE  StoreTypeOK' /\ TopicsTypeOK' /\ WorkerTypeOK' /\ HandlerOK'
<1>a. /\ TypeOK /\ HandlerOK /\ StoreTypeOK /\ TopicsTypeOK /\ WorkerTypeOK
      /\ UNCHANGED <<pc, job>>
  BY DEF TypeInv, TypeOK, dispatcherVars
<1>1. CASE PollDue(w)
  <2>1. PICK S \in SUBSET Due \ {{}} :
          /\ ClaimDue(S)
          /\ \/ batch' = [batch EXCEPT ![w] = Claimed(S)] /\ UNCHANGED disruptions
             \/ UNCHANGED batch /\ Disrupt("store")
    BY <1>1 DEF PollDue
  <2>2. S \in SUBSET Events
    BY DEF Due
  <2>3. StoreTypeOK'
    BY <1>a, <2>1, <2>2, StoreStatements
  <2>4. Claimed(S) \in SUBSET PendingRetry
    BY <1>a, <2>2 DEF Claimed, PendingRetry, StoreTypeOK, Row
  <2>5. batch' \in [Workers -> SUBSET PendingRetry]
    BY <1>a, <2>1, <2>4 DEF WorkerTypeOK
  <2>6. disruptions' \in 0..MaxDisruptions
    BY <1>a, <2>1, TopicsAssumption DEF Disrupt, TopicsTypeOK
  <2>7. HandlerOK'
    BY <1>1, <1>a, HandlerFrame DEF PollDue
  <2>8. QED BY <1>1, <1>a, <2>3, <2>5, <2>6, <2>7 DEF PollDue, groupVars, TopicsTypeOK, WorkerTypeOK
<1>2. CASE Requeue(w)
  <2>1. PICK c \in batch[w] :
           \/ Publish(c.event, "RETRY_SERVICE") /\ Take(w, c, "schedule") /\ UNCHANGED disruptions
           \/ Publish(c.event, "RETRY_SERVICE") /\ Drop(w, c) /\ Disrupt("broker")
           \/ UNCHANGED log /\ Drop(w, c) /\ Disrupt("broker")
    BY <1>2 DEF Requeue
  <2>2. c \in PendingRetry /\ c.event \in Events
    BY <1>a DEF WorkerTypeOK, PendingRetry
  <2>3. \/ log' = log
        \/ \E p \in Partitions, m \in Message : log' = [log EXCEPT ![p] = Append(@, m)]
    BY <2>1, <2>2, PublishLog DEF DispatchSource
  <2>4. log' \in [Partitions -> Seq(Message)] /\ HandlerOK'
    BY <1>a, <2>3, HandlerFrame
  <2>5. WorkerTypeOK'
    BY <1>a, <2>1, <2>2 DEF Take, Drop, WorkerTypeOK, Stage
  <2>6. disruptions' \in 0..MaxDisruptions
    BY <1>a, <2>1, TopicsAssumption DEF Disrupt, TopicsTypeOK
  <2>7. QED BY <1>2, <1>a, <2>4, <2>5, <2>6
            DEF Requeue, storeVars, groupVars, StoreTypeOK, TopicsTypeOK
<1>3. CASE Schedule(w)
  <2>1. task[w].event \in Events
    BY <1>a DEF WorkerTypeOK, PendingRetry
  <2>2. StoreTypeOK'
    BY <1>3, <1>a, <2>1, StoreStatements DEF Schedule
  <2>3. WorkerTypeOK'
    BY <1>3, <1>a, Constants DEF Schedule, Finish, WorkerTypeOK, Stage
  <2>4. disruptions' \in 0..MaxDisruptions
    BY <1>3, <1>a, TopicsAssumption DEF Schedule, Disrupt, TopicsTypeOK
  <2>5. HandlerOK'
    BY <1>3, <1>a, HandlerFrame DEF Schedule
  <2>6. QED BY <1>3, <1>a, <2>2, <2>3, <2>4, <2>5 DEF Schedule, groupVars, TopicsTypeOK
<1>4. CASE Exhaust(w)
  <2>1. PICK c \in batch[w] :
           \/ MarkFailed(c.event) /\ Take(w, c, "deadletter") /\ UNCHANGED disruptions
           \/ MarkFailed(c.event) /\ Drop(w, c) /\ Disrupt("store")
           \/ UNCHANGED storeVars /\ Drop(w, c) /\ Disrupt("store")
    BY <1>4 DEF Exhaust
  <2>2. c \in PendingRetry /\ c.event \in Events
    BY <1>a DEF WorkerTypeOK, PendingRetry
  <2>3. StoreTypeOK'
    BY <1>a, <2>1, <2>2, StoreStatements
  <2>4. WorkerTypeOK'
    BY <1>a, <2>1, <2>2 DEF Take, Drop, WorkerTypeOK, Stage
  <2>5. disruptions' \in 0..MaxDisruptions
    BY <1>a, <2>1, TopicsAssumption DEF Disrupt, TopicsTypeOK
  <2>6. HandlerOK'
    BY <1>4, <1>a, HandlerFrame DEF Exhaust
  <2>7. QED BY <1>4, <1>a, <2>3, <2>4, <2>5, <2>6 DEF Exhaust, groupVars, TopicsTypeOK
<1>5. CASE DeadLetter(w)
  <2>1. WorkerTypeOK'
    BY <1>5, <1>a, Constants DEF DeadLetter, Finish, WorkerTypeOK, Stage
  <2>2. dlq' \subseteq DeadLetterRecord \cup PoisonRecord
    BY <1>5, <1>a DEF DeadLetter, WorkerTypeOK, PendingRetry, DeadLetterRecord, TopicsTypeOK
  <2>3. disruptions' \in 0..MaxDisruptions
    BY <1>5, <1>a, TopicsAssumption DEF DeadLetter, Disrupt, TopicsTypeOK
  <2>4. HandlerOK'
    BY <1>5, <1>a, HandlerFrame DEF DeadLetter
  <2>5. QED BY <1>5, <1>a, <2>1, <2>2, <2>3, <2>4
            DEF DeadLetter, storeVars, groupVars, StoreTypeOK, TopicsTypeOK
<1>6. CASE Reclaim(w, Stalled)
  <2>1. StoreTypeOK'
    BY <1>6, <1>a, StoreStatements DEF Reclaim, Stalled
  <2>2. HandlerOK'
    BY <1>6, <1>a, HandlerFrame DEF Reclaim, topicVars
  <2>3. QED BY <1>6, <1>a, <2>1, <2>2
            DEF Reclaim, topicVars, workerVars, TopicsTypeOK, WorkerTypeOK
<1>7. CASE CrashWorker(w)
  <2>1. WorkerTypeOK'
    BY <1>7, <1>a, Constants DEF CrashWorker, WorkerTypeOK, Stage
  <2>2. disruptions' \in 0..MaxDisruptions
    BY <1>7, <1>a, TopicsAssumption DEF CrashWorker, Disrupt, TopicsTypeOK
  <2>3. HandlerOK'
    BY <1>7, <1>a, HandlerFrame DEF CrashWorker
  <2>4. QED BY <1>7, <1>a, <2>1, <2>2, <2>3
            DEF CrashWorker, storeVars, groupVars, StoreTypeOK, TopicsTypeOK
<1>8. QED BY <1>1, <1>2, <1>3, <1>4, <1>5, <1>6, <1>7 DEF Work

\* Each step of a replay request keeps the types.
LEMMA ReplayTypes ==
  ASSUME TypeInv, ReplayNext, UNCHANGED dispatcherVars
  PROVE  StoreTypeOK' /\ TopicsTypeOK' /\ ReplayTypeOK' /\ HandlerOK'
<1>a. /\ TypeOK /\ HandlerOK /\ StoreTypeOK /\ TopicsTypeOK /\ ReplayTypeOK
      /\ UNCHANGED <<pc, job>>
  BY DEF TypeInv, TypeOK, dispatcherVars
<1>1. ASSUME NEW q \in Requests, NEW e \in Events, ReplayLookup(q, e)
      PROVE  StoreTypeOK' /\ TopicsTypeOK' /\ ReplayTypeOK' /\ HandlerOK'
  <2>1. ReplayTypeOK'
    BY <1>1, <1>a DEF ReplayLookup, ReplayTypeOK, Request, RequestStep
  <2>2. HandlerOK'
    BY <1>1, <1>a, HandlerFrame DEF ReplayLookup, topicVars
  <2>3. QED BY <1>1, <1>a, <2>1, <2>2
            DEF ReplayLookup, storeVars, topicVars, StoreTypeOK, TopicsTypeOK
<1>2. ASSUME NEW q \in Requests, ReplayMark(q)
      PROVE  StoreTypeOK' /\ TopicsTypeOK' /\ ReplayTypeOK' /\ HandlerOK'
  <2>1. replay[q].event \in Events
    BY <1>a DEF ReplayTypeOK, Request
  <2>2. StoreTypeOK'
    BY <1>2, <1>a, <2>1, StoreStatements DEF ReplayMark
  <2>3. Len(attempts[replay[q].event]) \in Nat
    BY <1>a, <2>1 DEF StoreTypeOK
  <2>4. ReplayTypeOK'
    BY <1>2, <1>a, <2>3, ZenonT(60) DEF ReplayMark, Advance, ReplayTypeOK, Request, RequestStep
  <2>5. disruptions' \in 0..MaxDisruptions
    BY <1>2, <1>a, TopicsAssumption DEF ReplayMark, Disrupt, TopicsTypeOK
  <2>6. HandlerOK'
    BY <1>2, <1>a, HandlerFrame DEF ReplayMark
  <2>7. QED BY <1>2, <1>a, <2>2, <2>4, <2>5, <2>6 DEF ReplayMark, groupVars, TopicsTypeOK
<1>3. ASSUME NEW q \in Requests, ReplayPublish(q)
      PROVE  StoreTypeOK' /\ TopicsTypeOK' /\ ReplayTypeOK' /\ HandlerOK'
  <2>1. replay[q].event \in Events
    BY <1>a DEF ReplayTypeOK, Request
  <2>2. \/ log' = log
        \/ \E p \in Partitions, m \in Message : log' = [log EXCEPT ![p] = Append(@, m)]
    BY <1>3, <2>1, PublishLog DEF ReplayPublish, DispatchSource
  <2>3. log' \in [Partitions -> Seq(Message)] /\ HandlerOK'
    BY <1>a, <2>2, HandlerFrame
  <2>4. ReplayTypeOK'
    BY <1>3, <1>a DEF ReplayPublish, Advance, ReplayTypeOK, Request, RequestStep
  <2>5. disruptions' \in 0..MaxDisruptions
    BY <1>3, <1>a, TopicsAssumption DEF ReplayPublish, Disrupt, TopicsTypeOK
  <2>6. QED BY <1>3, <1>a, <2>3, <2>4, <2>5
            DEF ReplayPublish, storeVars, groupVars, StoreTypeOK, TopicsTypeOK
<1>4. ASSUME NEW q \in Requests, ReplayInterrupted(q)
      PROVE  StoreTypeOK' /\ TopicsTypeOK' /\ ReplayTypeOK' /\ HandlerOK'
  <2>1. ReplayTypeOK'
    BY <1>4, <1>a DEF ReplayInterrupted, Advance, ReplayTypeOK, Request, RequestStep
  <2>2. disruptions' \in 0..MaxDisruptions
    BY <1>4, <1>a, TopicsAssumption DEF ReplayInterrupted, Disrupt, TopicsTypeOK
  <2>3. HandlerOK'
    BY <1>4, <1>a, HandlerFrame DEF ReplayInterrupted
  <2>4. QED BY <1>4, <1>a, <2>1, <2>2, <2>3
            DEF ReplayInterrupted, storeVars, groupVars, StoreTypeOK, TopicsTypeOK
<1>5. QED BY <1>1, <1>2, <1>3, <1>4 DEF ReplayNext, Serve

\* So do the platform's messages and the passing of retry times.
LEMMA EnvironmentTypes ==
  ASSUME TypeInv, EnvironmentNext, UNCHANGED dispatcherVars
  PROVE  StoreTypeOK' /\ TopicsTypeOK' /\ HandlerOK'
<1>a. /\ TypeOK /\ HandlerOK /\ StoreTypeOK /\ TopicsTypeOK
      /\ UNCHANGED <<pc, job>>
  BY DEF TypeInv, TypeOK, dispatcherVars
<1>1. ASSUME NEW e \in Events, PlatformPublish(e)
      PROVE  StoreTypeOK' /\ TopicsTypeOK' /\ HandlerOK'
  <2>1. \E p \in Partitions, m \in Message : log' = [log EXCEPT ![p] = Append(@, m)]
    BY <1>1, PublishLog DEF PlatformPublish, DispatchSource
  <2>2. log' \in [Partitions -> Seq(Message)] /\ HandlerOK'
    BY <1>a, <2>1, HandlerFrame
  <2>3. QED BY <1>1, <1>a, <2>2
            DEF PlatformPublish, storeVars, groupVars, StoreTypeOK, TopicsTypeOK
<1>2. ASSUME NEW p \in Partitions, MalformedMessage(p)
      PROVE  StoreTypeOK' /\ TopicsTypeOK' /\ HandlerOK'
  <2>1. [event |-> Malformed, source |-> "SYSTEM"] \in Message
    BY DEF Message, DispatchSource
  <2>2. log' \in [Partitions -> Seq(Message)] /\ HandlerOK'
    BY <1>2, <1>a, <2>1, HandlerFrame DEF MalformedMessage
  <2>3. QED BY <1>2, <1>a, <2>2
            DEF MalformedMessage, storeVars, groupVars, StoreTypeOK, TopicsTypeOK
<1>3. ASSUME NEW e \in Events, RetryTimePasses(e)
      PROVE  StoreTypeOK' /\ TopicsTypeOK' /\ HandlerOK'
  <2>1. StoreTypeOK'
    BY <1>3, <1>a, StoreStatements DEF RetryTimePasses
  <2>2. HandlerOK'
    BY <1>3, <1>a, HandlerFrame DEF RetryTimePasses, topicVars
  <2>3. QED BY <1>3, <1>a, <2>1, <2>2 DEF RetryTimePasses, topicVars, TopicsTypeOK
<1>4. QED BY <1>1, <1>2, <1>3 DEF EnvironmentNext

\* The inductive step: every step of the pipeline preserves TypeInv.
LEMMA NextTypeInv == TypeInv /\ [Next]_vars => TypeInv'
<1> SUFFICES ASSUME TypeInv, [Next]_vars PROVE TypeInv'
  OBVIOUS
<1>a. StoreTypeOK /\ TopicsTypeOK /\ DispatcherTypeOK /\ WorkerTypeOK /\ ReplayTypeOK /\ HandlerOK
  BY DEF TypeInv, TypeOK
<1>1. CASE DispatcherNext /\ UNCHANGED <<workerVars, replay>>
  <2>1. StoreTypeOK' /\ TopicsTypeOK' /\ DispatcherTypeOK' /\ HandlerOK'
    BY <1>1, HandleTypes, DisruptionTypes DEF DispatcherNext
  <2>2. WorkerTypeOK' /\ ReplayTypeOK'
    BY <1>1, <1>a DEF workerVars, WorkerTypeOK, ReplayTypeOK
  <2>3. QED BY <2>1, <2>2 DEF TypeInv, TypeOK
<1>2. CASE WorkerNext(Stalled) /\ UNCHANGED <<dispatcherVars, replay>>
  <2>1. StoreTypeOK' /\ TopicsTypeOK' /\ WorkerTypeOK' /\ HandlerOK'
    BY <1>2, WorkerTypes DEF WorkerNext
  <2>2. DispatcherTypeOK' /\ ReplayTypeOK'
    BY <1>2, <1>a DEF dispatcherVars, DispatcherTypeOK, ReplayTypeOK
  <2>3. QED BY <2>1, <2>2 DEF TypeInv, TypeOK
<1>3. CASE ReplayNext /\ UNCHANGED <<dispatcherVars, workerVars>>
  <2>1. StoreTypeOK' /\ TopicsTypeOK' /\ ReplayTypeOK' /\ HandlerOK'
    BY <1>3, ReplayTypes
  <2>2. DispatcherTypeOK' /\ WorkerTypeOK'
    BY <1>3, <1>a DEF dispatcherVars, workerVars, DispatcherTypeOK, WorkerTypeOK
  <2>3. QED BY <2>1, <2>2 DEF TypeInv, TypeOK
<1>4. CASE EnvironmentNext /\ UNCHANGED <<dispatcherVars, workerVars, replay>>
  <2>1. StoreTypeOK' /\ TopicsTypeOK' /\ HandlerOK'
    BY <1>4, EnvironmentTypes
  <2>2. DispatcherTypeOK' /\ WorkerTypeOK' /\ ReplayTypeOK'
    BY <1>4, <1>a DEF dispatcherVars, workerVars, DispatcherTypeOK, WorkerTypeOK, ReplayTypeOK
  <2>3. QED BY <2>1, <2>2 DEF TypeInv, TypeOK
<1>5. CASE UNCHANGED vars
  <2>1. HandlerOK'
    BY <1>5, HandlerFrame DEF vars, topicVars, dispatcherVars
  <2>2. QED BY <1>5, <1>a, <2>1
            DEF vars, storeVars, topicVars, dispatcherVars, workerVars, TypeInv, TypeOK,
                StoreTypeOK, TopicsTypeOK, DispatcherTypeOK, WorkerTypeOK, ReplayTypeOK
<1>6. QED BY <1>1, <1>2, <1>3, <1>4, <1>5 DEF Next

\* Every variable keeps its type in every reachable state, for any number of events,
\* partitions, dispatchers, workers, requests and disruptions.
THEOREM TypeCorrect == Spec => []TypeOK
<1>1. Init => TypeInv
  BY InitTypeInv
<1>2. TypeInv /\ [Next]_vars => TypeInv'
  BY NextTypeInv
<1>3. TypeInv => TypeOK
  BY DEF TypeInv
<1>4. QED BY <1>1, <1>2, <1>3, PTL DEF Spec

-----------------------------------------------------------------------------
(* The safety of the delivery pipeline, for every value of the constants,  *)
(* as long as no delivery outlasts the cutoff of the sweep.                *)

\* A handler about to claim holds a state the claim is meant for.
ClaimInv == \A d \in Dispatchers : pc[d] = "claim" => job[d].held \in {"PENDING", "RETRYING"}

ExclInv == ExclusiveDelivery /\ ClaimInv

\* A step of d's handler touches no other handler.
LEMMA OtherHandlers ==
  ASSUME TypeInv, NEW d \in Dispatchers, Handle(d) \/ StoreFails(d) \/ Crash(d)
  PROVE  /\ log' = log
         /\ \A x \in Dispatchers \ {d} :
              pc'[x] = pc[x] /\ job'[x] = job[x] /\ EventOf(x)' = EventOf(x)
<1>a. pc \in [Dispatchers -> Step] /\ job \in [Dispatchers -> Job]
  BY DEF TypeInv, TypeOK, DispatcherTypeOK
<1> DEFINE Goal == \A x \in Dispatchers \ {d} : pc'[x] = pc[x] /\ job'[x] = job[x]
<1>0. ASSUME NEW step, NEW held, Go(d, step, held) PROVE Goal
  BY <1>0, <1>a DEF Go
<1>1. ASSUME \E p \in Partitions : Fetch(d, p) PROVE Goal
  BY <1>1, <1>a DEF Fetch
<1>2. ASSUME ToDLQ(d) PROVE Goal
  BY <1>2, <1>0 DEF ToDLQ
<1>3. ASSUME Commit(d) PROVE Goal
  BY <1>3, <1>a DEF Commit
<1>4. ASSUME Find(d) PROVE Goal
  BY <1>4, <1>0 DEF Find
<1>4a. ASSUME InsertRefused(d) PROVE Goal
  BY <1>4a, <1>0 DEF InsertRefused
<1>5. ASSUME InsertEvent(d) PROVE Goal
  BY <1>5, <1>0 DEF InsertEvent, Answer
<1>6. ASSUME Claim(d) PROVE Goal
  BY <1>6, <1>0 DEF Claim, Answer
<1>7. ASSUME Resolve(d) PROVE Goal
  BY <1>7, <1>0 DEF Resolve
<1>8. ASSUME Send(d) PROVE Goal
  BY <1>8, <1>0 DEF Send
<1>9. ASSUME Record(d) PROVE Goal
  BY <1>9, <1>0, <1>a DEF Record
<1>10. ASSUME Abandon(d) \/ Close(d) PROVE Goal
  BY <1>10, <1>0 DEF Abandon, Close, Answer
<1>11. ASSUME Announce(d) PROVE Goal
  BY <1>11, <1>a DEF Announce
<1>12. ASSUME StoreFails(d) PROVE Goal
  BY <1>12, <1>0 DEF StoreFails
<1>13. ASSUME Crash(d) PROVE Goal
  BY <1>13, <1>a DEF Crash
<1>14. Goal
  BY <1>1, <1>2, <1>3, <1>4, <1>4a, <1>5, <1>6, <1>7, <1>8, <1>9, <1>10, <1>11, <1>12, <1>13
     DEF Handle
<1>15. log' = log
  BY DEF Handle, Fetch, ToDLQ, Commit, Find, InsertEvent, InsertRefused, Claim, Resolve, Send,
         Record, Abandon, Close, Announce, StoreFails, Crash, topicVars
<1>16. QED BY <1>14, <1>15 DEF EventOf, MessageOf

\* A step of nobody's handler leaves every handler with the message it has.
LEMMA BystanderEvents ==
  ASSUME TypeInv, UNCHANGED <<pc, job>>,
         \/ log' = log
         \/ \E p \in Partitions, m \in Message : log' = [log EXCEPT ![p] = Append(@, m)]
  PROVE  \A d \in Dispatchers : pc[d] # "idle" => EventOf(d)' = EventOf(d)
<1> SUFFICES ASSUME NEW d \in Dispatchers, pc[d] # "idle" PROVE EventOf(d)' = EventOf(d)
  OBVIOUS
<1>1. CASE log' = log
  BY <1>1 DEF EventOf, MessageOf
<1>2. CASE \E p \in Partitions, m \in Message : log' = [log EXCEPT ![p] = Append(@, m)]
  <2>1. job[d].offset \in 1..Len(log[job[d].part]) /\ job[d].part \in Partitions
    BY JobFacts DEF TypeInv, HandlerOK
  <2>2. log'[job[d].part][job[d].offset] = log[job[d].part][job[d].offset]
    BY <1>2, <2>1, LogGrows DEF TypeInv
  <2>3. QED BY <2>2 DEF EventOf, MessageOf
<1>3. QED BY <1>1, <1>2

\* ... and keeps deliveries exclusive if it leaves the rows being delivered alone.
LEMMA ExclusiveFrame ==
  ASSUME ExclInv, UNCHANGED <<pc, job>>,
         \A d \in Dispatchers : pc[d] # "idle" => EventOf(d)' = EventOf(d),
         \A e \in Events, d \in Dispatchers :
           Owns(d, e) /\ State(e) = "DELIVERING" => State(e)' = "DELIVERING"
  PROVE  ExclInv'
<1>1. \A d \in Dispatchers, e \in Events : Owns(d, e)' <=> Owns(d, e)
  BY DEF Owns, Owning
<1>2. ExclusiveDelivery'
  BY <1>1 DEF ExclInv, ExclusiveDelivery
<1>3. QED BY <1>2 DEF ExclInv, ClaimInv

\* A step of d's handler keeps deliveries exclusive if d owns afterwards only what it
\* owned before or has just claimed, and leaves what others deliver alone.
LEMMA ExclusiveStep ==
  ASSUME TypeInv, ExclInv, NEW d \in Dispatchers,
         Handle(d) \/ StoreFails(d) \/ Crash(d),
         pc'[d] = "claim" => job'[d].held \in {"PENDING", "RETRYING"},
         \A e \in Events : Owns(d, e)' =>
           State(e)' = "DELIVERING" /\ (Owns(d, e) \/ State(e) # "DELIVERING"),
         \A e \in Events, x \in Dispatchers \ {d} :
           Owns(x, e) /\ State(e) = "DELIVERING" => State(e)' = "DELIVERING"
  PROVE  ExclInv'
<1>1. \A x \in Dispatchers \ {d}, e \in Events : Owns(x, e)' <=> Owns(x, e)
  BY OtherHandlers DEF Owns
<1>2. ASSUME NEW x \in Dispatchers, NEW e \in Events, Owns(x, e)'
      PROVE  /\ State(e)' = "DELIVERING"
             /\ \A other \in Dispatchers : Owns(other, e)' => other = x
  <2>1. CASE x = d
    BY <2>1, <1>1, <1>2 DEF ExclInv, ExclusiveDelivery
  <2>2. CASE x # d
    BY <2>2, <1>1, <1>2 DEF ExclInv, ExclusiveDelivery
  <2>3. QED BY <2>1, <2>2
<1>3. ExclusiveDelivery'
  BY <1>2 DEF ExclusiveDelivery
<1>4. ClaimInv'
  BY OtherHandlers DEF ExclInv, ClaimInv
<1>5. QED BY <1>3, <1>4 DEF ExclInv

-----------------------------------------------------------------------------
\* A statement that moves e to a state if it has one of some, and counts no retry.
Moves(e, from, to) ==
  \A x \in Events :
    /\ State(x)' = IF x = e /\ State(e) \in from THEN to ELSE State(x)
    /\ rows'[x].retries = rows[x].retries

AnyState == EventState \cup {"ABSENT"}

\* What each statement of the store does to the states and the retry counts.
LEMMA StatementEffects ==
  ASSUME StoreTypeOK, NEW e \in Events
  PROVE  /\ Insert(e) =>
              \A x \in Events :
                /\ State(x)' = IF x = e /\ State(e) = "ABSENT" THEN "PENDING" ELSE State(x)
                /\ rows'[x].retries = IF x = e /\ State(e) = "ABSENT" THEN 0 ELSE rows[x].retries
         /\ \A from : ClaimForDelivery(e, from) => Moves(e, {from}, "DELIVERING")
         /\ \A s : UpdateState(e, s) => Moves(e, AnyState, s)
         /\ \A s : RecordOutcome(e, s) => Moves(e, AnyState, OutcomeState(s))
         /\ ScheduleNext(e) \/ Lapse(e) => Moves(e, {}, "RETRYING")
         /\ MarkFailed(e) => Moves(e, {"RETRYING"}, "FAILED")
         /\ MarkForReplay(e) => Moves(e, {"FAILED"}, "RETRYING")
<1> USE DEF StoreTypeOK, Row, State, AnyState
<1>0. ASSUME NEW s, NEW S, rows' = rows, State(e) \notin S PROVE Moves(e, S, s)
  BY <1>0 DEF Moves
<1>1. ASSUME NEW s, NEW S, rows' = [rows EXCEPT ![e].state = s], State(e) \in S
      PROVE  Moves(e, S, s)
  BY <1>1 DEF Moves
<1>2. ASSUME NEW s, NEW S, rows' = [rows EXCEPT ![e].state = s, ![e].next = "due"], State(e) \in S
      PROVE  Moves(e, S, s)
  BY <1>2 DEF Moves
<1>3. ASSUME NEW s, NEW t, rows' = [rows EXCEPT ![e].next = t] PROVE Moves(e, {}, s)
  BY <1>3 DEF Moves
<1>4. ASSUME Insert(e), NEW x \in Events
      PROVE  /\ State(x)' = IF x = e /\ State(e) = "ABSENT" THEN "PENDING" ELSE State(x)
             /\ rows'[x].retries = IF x = e /\ State(e) = "ABSENT" THEN 0 ELSE rows[x].retries
  BY <1>4 DEF Insert
<1>5. ASSUME NEW from, ClaimForDelivery(e, from) PROVE Moves(e, {from}, "DELIVERING")
  BY <1>5, <1>0, <1>1 DEF ClaimForDelivery, Matches
<1>6. ASSUME NEW s, UpdateState(e, s) PROVE Moves(e, AnyState, s)
  BY <1>6, <1>1 DEF UpdateState
<1>7. ASSUME NEW s, RecordOutcome(e, s) PROVE Moves(e, AnyState, OutcomeState(s))
  BY <1>7, <1>1 DEF RecordOutcome
<1>8. ASSUME ScheduleNext(e) \/ Lapse(e) PROVE Moves(e, {}, "RETRYING")
  BY <1>8, <1>0, <1>3 DEF ScheduleNext, Lapse
<1>9. ASSUME MarkFailed(e) PROVE Moves(e, {"RETRYING"}, "FAILED")
  BY <1>9, <1>0, <1>2 DEF MarkFailed
<1>10. ASSUME MarkForReplay(e) PROVE Moves(e, {"FAILED"}, "RETRYING")
  BY <1>10, <1>0, <1>2 DEF MarkForReplay
<1>11. QED BY <1>4, <1>5, <1>6, <1>7, <1>8, <1>9, <1>10

\* The two statements that take several rows at once.
LEMMA BatchEffects ==
  ASSUME StoreTypeOK, NEW S \in SUBSET Events
  PROVE  /\ ClaimDue(S) =>
              \A x \in Events :
                /\ State(x)' = State(x)
                /\ rows'[x].retries = IF x \in S THEN rows[x].retries + 1 ELSE rows[x].retries
         /\ ReclaimStalled(S) =>
              \A x \in Events :
                /\ State(x)' = IF x \in S THEN "RETRYING" ELSE State(x)
                /\ rows'[x].retries = rows[x].retries
BY DEF ClaimDue, ReclaimStalled, StoreTypeOK, Row, State

-----------------------------------------------------------------------------
\* Where a step of the handler leads it, and that it goes on with its message.
LEMMA GoEffect ==
  ASSUME TypeInv, NEW d \in Dispatchers, NEW step, NEW held, Go(d, step, held), log' = log
  PROVE  pc'[d] = step /\ job'[d].held = held /\ EventOf(d)' = EventOf(d)
<1>1. job[d] \in Job /\ pc \in [Dispatchers -> Step] /\ job \in [Dispatchers -> Job]
  BY DEF TypeInv, TypeOK, DispatcherTypeOK
<1>2. job'[d] = [job[d] EXCEPT !.held = held] /\ pc'[d] = step
  BY <1>1 DEF Go
<1>3. job'[d].held = held /\ job'[d].part = job[d].part /\ job'[d].offset = job[d].offset
  BY <1>1, <1>2 DEF Job
<1>4. QED BY <1>2, <1>3 DEF EventOf, MessageOf

\* Each call of the dispatch service keeps deliveries exclusive.
LEMMA ExclusiveHandle ==
  ASSUME TypeInv, ExclInv, NEW d \in Dispatchers, Handle(d) \/ StoreFails(d) \/ Crash(d)
  PROVE  ExclInv'
<1>a. /\ StoreTypeOK /\ pc \in [Dispatchers -> Step] /\ job \in [Dispatchers -> Job]
      /\ log' = log
  BY OtherHandlers DEF TypeInv, TypeOK, DispatcherTypeOK
<1>b. pc[d] \notin {"idle", "poison", "commit"} => EventOf(d) \in Events
  BY DEF TypeInv, HandlerOK
\* Steps that leave the rows alone and do not start a delivery.
<1>c. ASSUME UNCHANGED rows, pc'[d] # "claim",
             pc'[d] \in Owning => pc[d] \in Owning /\ EventOf(d)' = EventOf(d)
      PROVE  ExclInv'
  BY <1>c, ExclusiveStep DEF State, Owns, ExclInv, ExclusiveDelivery
<1>1. ASSUME NEW p \in Partitions, Fetch(d, p) PROVE ExclInv'
  BY <1>1, <1>a, <1>c DEF Fetch, Owning, storeVars
<1>2. CASE ToDLQ(d)
  BY <1>2, <1>a, <1>c, GoEffect DEF ToDLQ, Owning, storeVars
<1>3. CASE Commit(d) \/ Announce(d) \/ Crash(d)
  BY <1>3, <1>a, <1>c DEF Commit, Announce, Crash, Owning, storeVars
<1>4. CASE Find(d)
  <2>1. ASSUME NEW state, Go(d, "claim", state), CanBeDispatched(state) PROVE ExclInv'
    <3>1. pc'[d] = "claim" /\ job'[d].held \in {"PENDING", "RETRYING"}
      BY <1>a, <2>1, GoEffect DEF CanBeDispatched
    <3>2. UNCHANGED rows
      BY <1>4 DEF Find, storeVars
    <3>3. QED BY <3>1, <3>2, ExclusiveStep DEF State, Owns, Owning
  <2>2. ASSUME NEW step \in {"insert", "commit"}, Go(d, step, "none") PROVE ExclInv'
    BY <1>4, <1>a, <1>c, <2>2, GoEffect DEF Find, Owning, storeVars
  <2>3. QED BY <1>4, <2>1, <2>2 DEF Find
<1>4a. CASE InsertRefused(d)
  BY <1>4a, <1>a, <1>c, GoEffect DEF InsertRefused, Owning, storeVars
<1>5. CASE InsertEvent(d)
  <2>1. \/ pc'[d] = "claim" /\ job'[d].held = "PENDING"
        \/ pc'[d] \in {"reread", "find"}
    BY <1>5, <1>a, GoEffect DEF InsertEvent, Answer
  <2>2. \A x \in Events : State(x) = "DELIVERING" => State(x)' = "DELIVERING"
    BY <1>5, <1>a, <1>b, StatementEffects DEF InsertEvent
  <2>3. QED BY <2>1, <2>2, ExclusiveStep DEF Owns, Owning
<1>6. CASE Claim(d)
  <2>1. job[d].held \in {"PENDING", "RETRYING"}
    BY <1>6 DEF Claim, ExclInv, ClaimInv
  <2>2. Moves(EventOf(d), {job[d].held}, "DELIVERING") /\ EventOf(d) \in Events
    BY <1>6, <1>a, <1>b, StatementEffects DEF Claim
  <2>3. \A x \in Events : State(x) = "DELIVERING" => State(x)' = "DELIVERING"
    BY <2>1, <2>2 DEF Moves
  <2>4. /\ pc'[d] \in {"resolve", "commit", "find"} /\ EventOf(d)' = EventOf(d)
        /\ pc'[d] = "resolve" => State(EventOf(d)) = job[d].held
    BY <1>6, <1>a, GoEffect DEF Claim, Answer, Matches
  <2>5. pc'[d] = "resolve" => State(EventOf(d))' = "DELIVERING" /\ State(EventOf(d)) # "DELIVERING"
    BY <2>1, <2>2, <2>4 DEF Moves
  <2>6. QED BY <2>3, <2>4, <2>5, ExclusiveStep DEF Owns, Owning
<1>7. CASE Resolve(d)
  BY <1>7, <1>a, <1>c, GoEffect DEF Resolve, Owning, storeVars
<1>8. CASE Send(d)
  BY <1>8, <1>a, <1>c, GoEffect DEF Send, Owning, storeVars
<1>9. CASE Record(d) \/ Abandon(d) \/ Close(d)
  <2>1. pc'[d] \in {"announce", "find"}
    BY <1>9, <1>a, GoEffect DEF Record, Abandon, Close, Answer
  <2>2. \E s : Moves(EventOf(d), AnyState, s)
    BY <1>9, <1>a, <1>b, StatementEffects DEF Record, Abandon, Close
  <2>3. \A x \in Dispatchers \ {d} : ~Owns(x, EventOf(d))
    BY <1>9, <1>b DEF Record, Abandon, Close, ExclInv, ExclusiveDelivery, Owns, Owning
  <2>4. QED BY <2>1, <2>2, <2>3, ExclusiveStep DEF Owns, Owning, Moves
<1>10. CASE StoreFails(d)
  BY <1>10, <1>a, <1>c, GoEffect DEF StoreFails, Owning, storeVars
<1>11. QED
  BY <1>1, <1>2, <1>3, <1>4, <1>4a, <1>5, <1>6, <1>7, <1>8, <1>9, <1>10 DEF Handle

-----------------------------------------------------------------------------
\* The steps that are no handler's.
Bystander ==
  \/ /\ \/ \E d \in Dispatchers, p \in Partitions : Rebalance(d, p)
        \/ EnvironmentNext /\ UNCHANGED dispatcherVars
     /\ UNCHANGED <<workerVars, replay>>
  \/ WorkerNext(Stalled) /\ UNCHANGED <<dispatcherVars, replay>>
  \/ ReplayNext /\ UNCHANGED <<dispatcherVars, workerVars>>

\* A step of the system is a step of one handler or a bystander's.
LEMMA StepKinds ==
  ASSUME Next
  PROVE  \/ \E d \in Dispatchers : Handle(d) \/ StoreFails(d) \/ Crash(d)
         \/ Bystander
BY DEF Next, DispatcherNext, Bystander

\* Bystanders leave the handlers alone, and put at most one message on the topic.
LEMMA BystanderFrame ==
  ASSUME TypeInv, Bystander
  PROVE  /\ UNCHANGED <<pc, job>>
         /\ \/ log' = log
            \/ \E p \in Partitions, m \in Message : log' = [log EXCEPT ![p] = Append(@, m)]
         /\ \A d \in Dispatchers : pc[d] # "idle" => EventOf(d)' = EventOf(d)
<1> DEFINE Goal == \/ log' = log
                   \/ \E p \in Partitions, m \in Message : log' = [log EXCEPT ![p] = Append(@, m)]
<1>a. ASSUME NEW e \in Events, NEW source \in DispatchSource, Publish(e, source) PROVE Goal
  BY <1>a, PublishLog
<1>1. UNCHANGED <<pc, job>>
  BY DEF Bystander, Rebalance, dispatcherVars
<1>2. ASSUME NEW w \in Workers, Work(w, Stalled) \/ CrashWorker(w) PROVE Goal
  <2>1. CASE Requeue(w)
    <3>1. PICK c \in batch[w] : Publish(c.event, "RETRY_SERVICE") \/ UNCHANGED log
      BY <2>1 DEF Requeue
    <3>2. c.event \in Events
      BY DEF TypeInv, TypeOK, WorkerTypeOK, PendingRetry
    <3>3. QED BY <1>a, <3>1, <3>2 DEF DispatchSource
  <2>2. CASE ~Requeue(w)
    BY <1>2, <2>2 DEF Work, PollDue, Schedule, Exhaust, DeadLetter, Reclaim, CrashWorker, topicVars
  <2>3. QED BY <2>1, <2>2
<1>3. ASSUME ReplayNext PROVE Goal
  <2>1. ASSUME NEW q \in Requests, ReplayPublish(q) PROVE Goal
    <3>1. replay[q].event \in Events
      BY DEF TypeInv, TypeOK, ReplayTypeOK, Request
    <3>2. QED BY <1>a, <2>1, <3>1 DEF ReplayPublish, DispatchSource
  <2>2. QED BY <1>3, <2>1 DEF ReplayNext, Serve, ReplayLookup, ReplayMark, ReplayInterrupted, topicVars
<1>4. ASSUME EnvironmentNext PROVE Goal
  <2>1. ASSUME NEW p \in Partitions, MalformedMessage(p) PROVE Goal
    <3>1. [event |-> Malformed, source |-> "SYSTEM"] \in Message
      BY DEF Message, DispatchSource
    <3>2. QED BY <2>1, <3>1 DEF MalformedMessage
  <2>2. QED BY <1>a, <1>4, <2>1 DEF EnvironmentNext, PlatformPublish, RetryTimePasses, topicVars, DispatchSource
<1>5. Goal
  BY <1>2, <1>3, <1>4 DEF Bystander, WorkerNext, Rebalance
<1>6. QED BY <1>1, <1>5, BystanderEvents

\* What bystanders do to the rows: one statement of the retry service or the replay
\* endpoint, or nothing.
LEMMA BystanderStatements ==
  ASSUME TypeInv, Bystander
  PROVE  \/ UNCHANGED storeVars
         \/ \E e \in Events : ScheduleNext(e) \/ Lapse(e) \/ MarkForReplay(e)
         \/ \E w \in Workers : \E c \in batch[w] : IsExhausted(c.retries) /\ MarkFailed(c.event)
         \/ \E S \in SUBSET Due : ClaimDue(S)
         \/ \E S \in SUBSET Stalled : ReclaimStalled(S)
<1>1. ASSUME NEW w \in Workers, Work(w, Stalled) \/ CrashWorker(w)
      PROVE  \/ UNCHANGED storeVars
             \/ \E e \in Events : ScheduleNext(e)
             \/ \E c \in batch[w] : IsExhausted(c.retries) /\ MarkFailed(c.event)
             \/ \E S \in SUBSET Due : ClaimDue(S)
             \/ \E S \in SUBSET Stalled : ReclaimStalled(S)
  <2>1. task[w].event \in Events
    BY DEF TypeInv, TypeOK, WorkerTypeOK, PendingRetry
  <2>2. QED
    BY <1>1, <2>1 DEF Work, PollDue, Requeue, Schedule, Exhaust, DeadLetter, Reclaim, CrashWorker
<1>2. ASSUME NEW q \in Requests, ReplayMark(q) PROVE \E e \in Events : MarkForReplay(e)
  BY <1>2 DEF ReplayMark, TypeInv, TypeOK, ReplayTypeOK, Request
<1>3. ReplayNext => UNCHANGED storeVars \/ \E e \in Events : MarkForReplay(e)
  BY <1>2 DEF ReplayNext, Serve, ReplayLookup, ReplayPublish, ReplayInterrupted
<1>4. EnvironmentNext => UNCHANGED storeVars \/ \E e \in Events : Lapse(e)
  BY DEF EnvironmentNext, PlatformPublish, MalformedMessage, RetryTimePasses
<1>5. QED BY <1>1, <1>3, <1>4 DEF Bystander, WorkerNext, Rebalance

\* Bystanders keep deliveries exclusive.
LEMMA ExclusiveBystander ==
  ASSUME ~SlowDispatch, TypeInv, ExclInv, Bystander
  PROVE  ExclInv'
<1>a. StoreTypeOK
  BY DEF TypeInv, TypeOK
<1>1. ASSUME NEW e \in Events, NEW d \in Dispatchers, Owns(d, e), State(e) = "DELIVERING"
      PROVE  State(e)' = "DELIVERING"
  <2>1. CASE UNCHANGED storeVars
    BY <1>1, <2>1 DEF State, storeVars
  <2>2. CASE \E x \in Events : ScheduleNext(x) \/ Lapse(x) \/ MarkForReplay(x)
    BY <1>1, <1>a, <2>2, StatementEffects DEF Moves
  <2>3. CASE \E w \in Workers : \E c \in batch[w] : MarkFailed(c.event)
    <3>1. PICK x \in Events : MarkFailed(x)
      BY <2>3 DEF TypeInv, TypeOK, WorkerTypeOK, PendingRetry
    <3>2. QED BY <1>1, <1>a, <3>1, StatementEffects DEF Moves
  <2>4. CASE \E S \in SUBSET Due : ClaimDue(S)
    BY <1>1, <1>a, <2>4, BatchEffects DEF Due
  <2>5. CASE \E S \in SUBSET Stalled : ReclaimStalled(S)
    BY <1>1, <1>a, <2>5, BatchEffects DEF Stalled
  <2>6. QED BY <2>1, <2>2, <2>3, <2>4, <2>5, BystanderStatements
<1>2. QED BY <1>1, BystanderFrame, ExclusiveFrame

\* While no delivery outlasts the cutoff of the sweep, a dispatcher between its claim and
\* the write that ends the cycle is the only one delivering the event, and the row says so.
THEOREM DeliveryIsExclusive == ~SlowDispatch /\ Spec => []ExclusiveDelivery
<1> SUFFICES ASSUME ~SlowDispatch PROVE Spec => []ExclusiveDelivery
  OBVIOUS
<1>1. Init => ExclInv
  BY DEF Init, DispatcherInit, ExclInv, ExclusiveDelivery, ClaimInv, Owns, Owning
<1>2. TypeInv /\ ExclInv /\ [Next]_vars => ExclInv'
  <2> SUFFICES ASSUME TypeInv, ExclInv, [Next]_vars PROVE ExclInv'
    OBVIOUS
  <2>1. CASE Next
    BY <2>1, StepKinds, ExclusiveHandle, ExclusiveBystander
  <2>2. CASE UNCHANGED vars
    BY <2>2, ExclusiveFrame
       DEF vars, storeVars, topicVars, dispatcherVars, State, EventOf, MessageOf
  <2>3. QED BY <2>1, <2>2
<1>3. Spec => []TypeInv
  BY InitTypeInv, NextTypeInv, PTL DEF Spec
<1>4. ExclInv => ExclusiveDelivery
  BY DEF ExclInv
<1>5. QED BY <1>1, <1>2, <1>3, <1>4, PTL DEF Spec

-----------------------------------------------------------------------------
\* What a worker remembers of an event's retries, the row has counted; and a row that is
\* not there counts none.
CountInv ==
  /\ \A e \in Events : State(e) = "ABSENT" => rows[e].retries = 0
  /\ \A w \in Workers : \A c \in batch[w] : c.retries <= rows[c.event].retries

SafeInv == TypeInv /\ ExclInv /\ CountInv

\* A statement that moves one event is a move of its life, or changes nothing of it.
LEMMA MoveIsLife ==
  ASSUME NEW e \in Events, NEW from, NEW to, NEW F, Moves(e, from, to)
  PROVE  /\ UNCHANGED [x \in Events |-> rows[x].retries]
         /\ State(e) \in from /\ State(e) \in F => Life!Move({e}, F, to)
         /\ State(e) \notin from => UNCHANGED [x \in Events |-> State(x)]
BY DEF Moves, Life!Move

\* The tables unchanged, so is the event's life.
LEMMA NoLife ==
  ASSUME UNCHANGED storeVars
  PROVE  UNCHANGED Life!vars
BY DEF storeVars, Life!vars, State

\* Each call of the dispatch service is a step of the lifecycle or leaves it alone.
LEMMA LifeHandle ==
  ASSUME SafeInv, NEW d \in Dispatchers, Handle(d) \/ StoreFails(d) \/ Crash(d)
  PROVE  Life!Next \/ UNCHANGED Life!vars
<1> DEFINE e == EventOf(d)
<1> DEFINE Goal == Life!Next \/ UNCHANGED Life!vars
<1>a. StoreTypeOK /\ TypeInv /\ ExclInv /\ CountInv
  BY DEF SafeInv, TypeInv, TypeOK
<1>b. pc[d] \notin {"idle", "poison", "commit"} => e \in Events
  BY <1>a DEF TypeInv, HandlerOK
<1>c. pc[d] \in Owning => State(e) = "DELIVERING"
  BY <1>a, <1>b DEF ExclInv, ExclusiveDelivery, Owns, Owning
<1>1. CASE InsertEvent(d)
  <2>1. Insert(e) /\ e \in Events
    BY <1>1, <1>b DEF InsertEvent
  <2>2. UNCHANGED [x \in Events |-> rows[x].retries] /\ UNCHANGED attempts
    BY <1>a, <2>1, StatementEffects DEF CountInv, Insert
  <2>3. CASE State(e) = "ABSENT"
    <3>1. Life!Move({e}, {"ABSENT"}, "PENDING")
      BY <1>a, <2>1, <2>3, StatementEffects DEF Life!Move
    <3>2. QED BY <2>1, <2>2, <3>1 DEF Life!Next, Life!Ingest
  <2>4. CASE State(e) # "ABSENT"
    BY <2>1, <2>4, NoLife DEF Insert, storeVars
  <2>5. QED BY <2>3, <2>4
<1>2. CASE Claim(d)
  <2>1. ClaimForDelivery(e, job[d].held) /\ e \in Events /\ job[d].held \in {"PENDING", "RETRYING"}
    BY <1>2, <1>a, <1>b DEF Claim, ExclInv, ClaimInv
  <2>2. CASE State(e) = job[d].held
    <3>1. Moves(e, {job[d].held}, "DELIVERING") /\ UNCHANGED attempts
      BY <1>a, <2>1, StatementEffects DEF ClaimForDelivery
    <3>2. Life!Begin(e)
      BY <2>1, <2>2, <3>1, MoveIsLife DEF Life!Begin
    <3>3. QED BY <2>1, <3>2 DEF Life!Next
  <2>3. CASE State(e) # job[d].held
    BY <2>1, <2>3, NoLife DEF ClaimForDelivery, Matches, storeVars
  <2>4. QED BY <2>2, <2>3
<1>3. CASE Record(d)
  <2>1. RecordOutcome(e, job[d].held) /\ e \in Events /\ job[d].held \in DeliveryStatus
    BY <1>3, <1>a, <1>b DEF Record, TypeInv, HandlerOK
  <2>2. State(e) = "DELIVERING" /\ Moves(e, AnyState, OutcomeState(job[d].held))
    BY <1>3, <1>a, <1>c, <2>1, StatementEffects DEF Record, Owning
  <2>3. State(e) \in AnyState /\ State(e) \in {"DELIVERING"}
    BY <2>2 DEF AnyState, EventState
  <2>4. Life!Move({e}, {"DELIVERING"}, OutcomeState(job[d].held))
    BY <2>1, <2>2, <2>3, MoveIsLife
  <2>5. Life!OutcomeState(job[d].held) = OutcomeState(job[d].held)
    BY DEF OutcomeState, Life!OutcomeState
  <2>6. UNCHANGED [x \in Events |-> rows[x].retries]
    BY <2>1, <2>2, MoveIsLife
  <2>7. Life!End(e, job[d].held)
    BY <2>1, <2>4, <2>5, <2>6 DEF Life!End, RecordOutcome
  <2>8. QED BY <2>1, <2>7 DEF Life!Next, DeliveryStatus, Life!DeliveryStatus
<1>4. CASE Abandon(d)
  <2>1. UpdateState(e, "RETRYING") /\ e \in Events /\ State(e) = "DELIVERING"
    BY <1>4, <1>b, <1>c DEF Abandon, Owning
  <2>a. Moves(e, AnyState, "RETRYING") /\ UNCHANGED attempts
    BY <1>a, <2>1, StatementEffects DEF UpdateState
  <2>b. State(e) \in AnyState /\ State(e) \in {"DELIVERING"}
    BY <2>1 DEF AnyState, EventState
  <2>2. Life!Release({e})
    BY <2>1, <2>a, <2>b, MoveIsLife DEF Life!Release
  <2>3. {e} \in SUBSET Events
    BY <2>1
  <2>4. QED BY <2>2, <2>3 DEF Life!Next
<1>5. CASE Close(d)
  <2>1. UpdateState(e, "FAILED") /\ e \in Events /\ State(e) = "DELIVERING"
    BY <1>5, <1>b, <1>c DEF Close, Owning
  <2>a. Moves(e, AnyState, "FAILED") /\ UNCHANGED attempts
    BY <1>a, <2>1, StatementEffects DEF UpdateState
  <2>b. State(e) \in AnyState /\ State(e) \in {"DELIVERING"}
    BY <2>1 DEF AnyState, EventState
  <2>2. Life!Close(e)
    BY <2>1, <2>a, <2>b, MoveIsLife DEF Life!Close
  <2>3. QED BY <2>1, <2>2 DEF Life!Next
<1>6. ASSUME UNCHANGED storeVars PROVE Goal
  BY <1>6, NoLife
<1>7. QED
  BY <1>1, <1>2, <1>3, <1>4, <1>5, <1>6
     DEF Handle, Fetch, ToDLQ, Commit, Find, InsertRefused, Resolve, Send, Announce, StoreFails,
         Crash

\* So is each statement of the retry service and of the replay endpoint.
LEMMA LifeBystander ==
  ASSUME ~SlowDispatch, SafeInv, Bystander
  PROVE  Life!Next \/ UNCHANGED Life!vars
<1>a. StoreTypeOK /\ TypeInv /\ CountInv
  BY DEF SafeInv, TypeInv, TypeOK
<1>1. CASE UNCHANGED storeVars
  BY <1>1, NoLife
<1>2. ASSUME NEW e \in Events, ScheduleNext(e) \/ Lapse(e)
      PROVE  UNCHANGED Life!vars
  <2>1. Moves(e, {}, "RETRYING") /\ UNCHANGED attempts
    BY <1>a, <1>2, StatementEffects DEF ScheduleNext, Lapse
  <2>2. UNCHANGED [x \in Events |-> State(x)]
    BY <2>1 DEF Moves
  <2>3. UNCHANGED [x \in Events |-> rows[x].retries]
    BY <2>1 DEF Moves
  <2>4. QED BY <2>1, <2>2, <2>3 DEF Life!vars
<1>3. ASSUME NEW e \in Events, MarkForReplay(e)
      PROVE  Life!Next \/ UNCHANGED Life!vars
  <2>1. Moves(e, {"FAILED"}, "RETRYING") /\ UNCHANGED attempts
    BY <1>a, <1>3, StatementEffects DEF MarkForReplay
  <2>2. Life!Reopen(e) \/ UNCHANGED Life!vars
    BY <2>1, MoveIsLife DEF Life!Reopen, Life!vars
  <2>3. QED BY <2>2 DEF Life!Next
<1>4. ASSUME NEW w \in Workers, NEW c \in batch[w], IsExhausted(c.retries), MarkFailed(c.event)
      PROVE  Life!Next \/ UNCHANGED Life!vars
  <2>1. c.event \in Events /\ c.retries \in Nat
    BY <1>a DEF TypeInv, TypeOK, WorkerTypeOK, PendingRetry
  <2>2. rows[c.event].retries \in Nat /\ c.retries <= rows[c.event].retries
    BY <1>a, <2>1 DEF CountInv, StoreTypeOK, Row
  <2>3. rows[c.event].retries >= MaxAttempts
    BY <1>4, <2>1, <2>2, RetryWorkerAssumption DEF IsExhausted
  <2>4. Moves(c.event, {"RETRYING"}, "FAILED") /\ UNCHANGED attempts
    BY <1>a, <1>4, <2>1, StatementEffects DEF MarkFailed
  <2>5. Life!GiveUp(c.event) \/ UNCHANGED Life!vars
    BY <2>1, <2>3, <2>4, MoveIsLife DEF Life!GiveUp, Life!vars
  <2>6. QED BY <2>1, <2>5 DEF Life!Next
<1>5. ASSUME NEW S \in SUBSET Due, ClaimDue(S)
      PROVE  Life!Next
  <2>1. S \in SUBSET Events /\ \A e \in S : State(e) = "RETRYING"
    BY DEF Due
  <2>2. Life!CountRetry(S)
    BY <1>a, <1>5, <2>1, BatchEffects DEF Life!CountRetry, ClaimDue
  <2>3. QED BY <2>1, <2>2 DEF Life!Next
<1>6. ASSUME NEW S \in SUBSET Stalled, ReclaimStalled(S)
      PROVE  Life!Next
  <2>1. S \in SUBSET Events /\ \A e \in S : State(e) = "DELIVERING"
    BY DEF Stalled
  <2>2. Life!Release(S)
    BY <1>a, <1>6, <2>1, BatchEffects DEF Life!Release, Life!Move, ReclaimStalled
  <2>3. QED BY <2>1, <2>2 DEF Life!Next
<1>7. \/ UNCHANGED storeVars
      \/ \E e \in Events : ScheduleNext(e) \/ Lapse(e) \/ MarkForReplay(e)
      \/ \E w \in Workers : \E c \in batch[w] : IsExhausted(c.retries) /\ MarkFailed(c.event)
      \/ \E S \in SUBSET Due : ClaimDue(S)
      \/ \E S \in SUBSET Stalled : ReclaimStalled(S)
  BY <1>a, BystanderStatements
<1>8. QED BY <1>1, <1>2, <1>3, <1>4, <1>5, <1>6, <1>7


\* What every step of an event's life keeps: DELIVERED is never left, no row disappears,
\* and no retry is uncounted.
LEMMA LifeMonotone ==
  ASSUME StoreTypeOK, Life!Next \/ UNCHANGED Life!vars, NEW e \in Events
  PROVE  /\ State(e) = "DELIVERED" => State(e)' = "DELIVERED"
         /\ rows[e].retries <= rows'[e].retries
         /\ State(e)' = "ABSENT" => State(e) = "ABSENT" /\ rows'[e].retries = rows[e].retries
<1> DEFINE Goal == /\ State(e) = "DELIVERED" => State(e)' = "DELIVERED"
                   /\ rows[e].retries <= rows'[e].retries
                   /\ State(e)' = "ABSENT" => State(e) = "ABSENT" /\ rows'[e].retries = rows[e].retries
<1>a. rows[e].retries \in Nat
  BY DEF StoreTypeOK, Row
<1>1. ASSUME NEW S, NEW from, NEW to, Life!Move(S, from, to), "DELIVERED" \notin from,
             to # "ABSENT", UNCHANGED [x \in Events |-> rows[x].retries]
      PROVE  Goal
  <2>1. State(e)' = IF e \in S THEN to ELSE State(e)
    BY <1>1 DEF Life!Move
  <2>2. e \in S => State(e) \in from
    BY <1>1 DEF Life!Move
  <2>3. rows'[e].retries = rows[e].retries
    BY <1>1
  <2>4. QED BY <1>a, <1>1, <2>1, <2>2, <2>3
<1>2. ASSUME NEW S, Life!CountRetry(S) PROVE Goal
  <2>1. State(e)' = State(e)
    BY <1>2 DEF Life!CountRetry
  <2>2. rows'[e].retries = IF e \in S THEN rows[e].retries + 1 ELSE rows[e].retries
    BY <1>2 DEF Life!CountRetry
  <2>3. e \in S => State(e) = "RETRYING"
    BY <1>2 DEF Life!CountRetry
  <2>4. QED BY <1>a, <2>1, <2>2, <2>3
<1>3. ASSUME UNCHANGED Life!vars PROVE Goal
  <2>1. State(e)' = State(e) /\ rows'[e].retries = rows[e].retries
    BY <1>3 DEF Life!vars
  <2>2. QED BY <1>a, <2>1
<1>4. ASSUME NEW x \in Events, NEW status, Life!End(x, status) PROVE Goal
  BY <1>1, <1>4 DEF Life!End, Life!OutcomeState
<1>5. ASSUME NEW x \in Events,
             Life!Ingest(x) \/ Life!Begin(x) \/ Life!Close(x) \/ Life!GiveUp(x) \/ Life!Reopen(x)
      PROVE Goal
  BY <1>1, <1>5 DEF Life!Ingest, Life!Begin, Life!Close, Life!GiveUp, Life!Reopen
<1>6. ASSUME NEW S, Life!Release(S) PROVE Goal
  BY <1>1, <1>6 DEF Life!Release
<1>7. QED BY <1>2, <1>3, <1>4, <1>5, <1>6 DEF Life!Next

\* A worker's batch only shrinks, except when it claims the due rows.
LEMMA BatchFrame ==
  ASSUME TypeInv, Next, NEW w \in Workers
  PROVE  \/ batch'[w] \subseteq batch[w]
         \/ \E S \in SUBSET Due : ClaimDue(S) /\ batch'[w] = Claimed(S)
<1> DEFINE Goal == \/ batch'[w] \subseteq batch[w]
                   \/ \E S \in SUBSET Due : ClaimDue(S) /\ batch'[w] = Claimed(S)
<1>a. batch \in [Workers -> SUBSET PendingRetry]
  BY DEF TypeInv, TypeOK, WorkerTypeOK
<1>1. ASSUME NEW v \in Workers, PollDue(v) PROVE Goal
  BY <1>a, <1>1 DEF PollDue
<1>2. ASSUME NEW v \in Workers, Requeue(v) \/ Exhaust(v) PROVE Goal
  BY <1>a, <1>2 DEF Requeue, Exhaust, Drop, Take
<1>3. ASSUME NEW v \in Workers, Schedule(v) \/ DeadLetter(v) \/ Reclaim(v, Stalled) PROVE Goal
  BY <1>3 DEF Schedule, DeadLetter, Reclaim, Finish, workerVars
<1>4. ASSUME NEW v \in Workers, CrashWorker(v) PROVE Goal
  BY <1>a, <1>4 DEF CrashWorker
<1>5. ASSUME UNCHANGED workerVars PROVE Goal
  BY <1>5 DEF workerVars
<1>6. QED
  BY <1>1, <1>2, <1>3, <1>4, <1>5 DEF Next, WorkerNext, Work

\* Each step of the system is a step of the lifecycle or leaves it alone.
LEMMA LifeStep ==
  ASSUME ~SlowDispatch, SafeInv, Next
  PROVE  Life!Next \/ UNCHANGED Life!vars
<1>1. ASSUME NEW d \in Dispatchers, Handle(d) \/ StoreFails(d) \/ Crash(d)
      PROVE  Life!Next \/ UNCHANGED Life!vars
  BY <1>1, LifeHandle
<1>2. ASSUME Bystander PROVE Life!Next \/ UNCHANGED Life!vars
  BY <1>2, LifeBystander
<1>3. QED BY <1>1, <1>2, StepKinds

\* The counts of the retries are kept.
LEMMA CountStep ==
  ASSUME ~SlowDispatch, SafeInv, Next
  PROVE  CountInv'
<1>a. StoreTypeOK /\ TypeInv /\ CountInv
  BY DEF SafeInv, TypeInv, TypeOK
<1>b. Life!Next \/ UNCHANGED Life!vars
  BY LifeStep
<1>1. ASSUME NEW e \in Events, State(e)' = "ABSENT" PROVE rows'[e].retries = 0
  BY <1>a, <1>b, <1>1, LifeMonotone DEF CountInv
<1>2. ASSUME NEW w \in Workers, NEW c \in batch'[w] PROVE c.retries <= rows'[c.event].retries
  <2>1. CASE batch'[w] \subseteq batch[w]
    <3>1. c \in batch[w] /\ c.event \in Events /\ c.retries \in Nat
      BY <1>a, <2>1 DEF TypeInv, TypeOK, WorkerTypeOK, PendingRetry
    <3>2. c.retries <= rows[c.event].retries
      BY <1>a, <3>1 DEF CountInv
    <3>3. rows[c.event].retries <= rows'[c.event].retries
      BY <1>a, <1>b, <3>1, LifeMonotone
    <3>4. rows[c.event].retries \in Nat /\ rows'[c.event].retries \in Nat
      <4>1. TypeInv'
        BY <1>a, NextTypeInv
      <4>2. QED BY <1>a, <4>1, <3>1 DEF TypeInv, TypeOK, StoreTypeOK, Row
    <3>5. QED BY <3>1, <3>2, <3>3, <3>4
  <2>2. CASE \E S \in SUBSET Due : ClaimDue(S) /\ batch'[w] = Claimed(S)
    <3>1. PICK S \in SUBSET Due : ClaimDue(S) /\ batch'[w] = Claimed(S)
      BY <2>2
    <3>2. PICK e \in S : c = [event |-> e, retries |-> rows[e].retries + 1]
      BY <3>1 DEF Claimed
    <3>3. e \in Events /\ c.event = e /\ c.retries = rows[e].retries + 1
      BY <3>1, <3>2 DEF Due
    <3>4. rows'[e].retries = rows[e].retries + 1
      BY <3>1, <3>2, <3>3 DEF ClaimDue
    <3>5. rows[e].retries \in Nat
      BY <1>a, <3>3 DEF StoreTypeOK, Row
    <3>6. QED BY <3>3, <3>4, <3>5
  <2>3. QED BY <1>a, <2>1, <2>2, BatchFrame
<1>3. QED BY <1>1, <1>2 DEF CountInv

\* The safety invariant is inductive.
LEMMA SafeInductive ==
  /\ Init => SafeInv
  /\ ~SlowDispatch /\ SafeInv /\ [Next]_vars => SafeInv'
<1>1. Init => ExclInv /\ CountInv
  <2> SUFFICES ASSUME Init PROVE ExclInv /\ CountInv
    OBVIOUS
  <2>1. ExclInv
    BY DEF Init, DispatcherInit, ExclInv, ExclusiveDelivery, ClaimInv, Owns, Owning
  <2>2. \A e \in Events : rows[e].retries = 0
    BY DEF Init, StoreInit
  <2>3. \A w \in Workers : batch[w] = {}
    BY DEF Init, WorkerInit
  <2>4. QED BY <2>1, <2>2, <2>3 DEF CountInv
<1>2. Init => SafeInv
  BY <1>1, InitTypeInv DEF SafeInv
<1>3. ASSUME ~SlowDispatch, SafeInv, Next PROVE SafeInv'
  BY <1>3, NextTypeInv, StepKinds, ExclusiveHandle, ExclusiveBystander, CountStep DEF SafeInv
<1>4. ASSUME SafeInv, UNCHANGED vars PROVE SafeInv'
  <2>1. TypeInv'
    BY <1>4, NextTypeInv DEF SafeInv
  <2>2. ExclInv'
    BY <1>4, ExclusiveFrame
       DEF SafeInv, vars, storeVars, topicVars, dispatcherVars, State, EventOf, MessageOf
  <2>3. CountInv'
    BY <1>4 DEF SafeInv, CountInv, vars, storeVars, workerVars, State
  <2>4. QED BY <2>1, <2>2, <2>3 DEF SafeInv
<1>5. QED BY <1>2, <1>3, <1>4

\* While no delivery outlasts the cutoff of the sweep, every step of every service is a
\* step of the event's life: the pipeline implements Lifecycle.
THEOREM DeliveryRefinesLifecycle == ~SlowDispatch /\ Spec => RefinesLifecycle
<1> SUFFICES ASSUME ~SlowDispatch PROVE Spec => RefinesLifecycle
  OBVIOUS
<1>1. Init => Life!Init
  BY DEF Init, StoreInit, Life!Init, State
<1>2. SafeInv /\ [Next]_vars => [Life!Next]_Life!vars
  BY LifeStep, NoLife DEF vars
<1>3. Init => SafeInv
  BY SafeInductive
<1>4. SafeInv /\ [Next]_vars => SafeInv'
  BY SafeInductive
<1>5. QED BY <1>1, <1>2, <1>3, <1>4, PTL DEF Spec, RefinesLifecycle, Life!Spec

\* The terminal state of allowedTransitions is terminal: whatever is redelivered, retried,
\* replayed or swept, no write takes a delivered event out of DELIVERED.
THEOREM DeliveredStaysDelivered == ~SlowDispatch /\ Spec => DeliveredIsFinal
<1> SUFFICES ASSUME ~SlowDispatch PROVE Spec => DeliveredIsFinal
  OBVIOUS
<1>1. SafeInv /\ [Next]_vars => [\A e \in Events : State(e) = "DELIVERED" => State(e)' = "DELIVERED"]_vars
  <2> SUFFICES ASSUME SafeInv, Next PROVE \A e \in Events : State(e) = "DELIVERED" => State(e)' = "DELIVERED"
    OBVIOUS
  <2>1. StoreTypeOK
    BY DEF SafeInv, TypeInv, TypeOK
  <2>2. QED BY <2>1, LifeStep, LifeMonotone
<1>2. Init => SafeInv
  BY SafeInductive
<1>3. SafeInv /\ [Next]_vars => SafeInv'
  BY SafeInductive
<1>4. QED BY <1>1, <1>2, <1>3, PTL DEF Spec, DeliveredIsFinal

\* RecordOutcome keeps the attempts and the state they explain together, for ever: the
\* audit trail of an event ends with a success exactly when the event is DELIVERED.
THEOREM AuditTrailHolds == ~SlowDispatch /\ Spec => []AuditTrail
<1> SUFFICES ASSUME ~SlowDispatch PROVE Spec => []AuditTrail
  OBVIOUS
<1>1. Init => AuditTrail
  <2> SUFFICES ASSUME Init PROVE AuditTrail
    OBVIOUS
  <2>1. \A e \in Events : State(e) # "DELIVERED" /\ attempts[e] = <<>>
    BY DEF Init, StoreInit, State
  <2>0. Len(<<>>) = 0
    OBVIOUS
  <2>2. \A e \in Events : Len(attempts[e]) = 0
    BY <2>0, <2>1, Zenon
  <2>3. \A i \in 1..0 : FALSE
    OBVIOUS
  <2>4. QED BY <2>1, <2>2, <2>3 DEF AuditTrail
<1>2. ASSUME SafeInv, AuditTrail, Next PROVE AuditTrail'
  <2>a. StoreTypeOK
    BY <1>2 DEF SafeInv, TypeInv, TypeOK
  <2>b. Life!Next \/ UNCHANGED Life!vars
    BY <1>2, LifeStep
  <2>1. ASSUME UNCHANGED attempts,
               \A e \in Events : State(e)' = "DELIVERED" <=> State(e) = "DELIVERED"
        PROVE  AuditTrail'
    BY <1>2, <2>1 DEF AuditTrail
  <2>2. ASSUME NEW S, NEW from, NEW to, Life!Move(S, from, to),
               "DELIVERED" \notin from, to # "DELIVERED", UNCHANGED attempts
        PROVE  AuditTrail'
    <3>1. \A e \in Events : State(e)' = IF e \in S THEN to ELSE State(e)
      BY <2>2 DEF Life!Move
    <3>2. \A e \in S : State(e) \in from \/ e \notin Events
      BY <2>2 DEF Life!Move
    <3>3. QED BY <2>1, <2>2, <3>1, <3>2
  <2>3. ASSUME NEW x \in Events, NEW status \in DeliveryStatus, Life!End(x, status)
        PROVE  AuditTrail'
    <3>1. /\ State(x) = "DELIVERING"
          /\ \A e \in Events : State(e)' = IF e = x THEN Life!OutcomeState(status) ELSE State(e)
          /\ attempts' = [attempts EXCEPT ![x] = Append(@, status)]
      BY <2>3 DEF Life!End, Life!Move
    <3>2. ASSUME NEW e \in Events
          PROVE  LET n == Len(attempts'[e])
                 IN  /\ State(e)' = "DELIVERED" => n > 0 /\ attempts'[e][n] = "SUCCESS"
                     /\ \A i \in 1..n : attempts'[e][i] = "SUCCESS" => i = n /\ State(e)' = "DELIVERED"
      <4>1. CASE e # x
        <5>1. attempts'[e] = attempts[e] /\ State(e)' = State(e)
          BY <2>a, <3>1, <4>1 DEF StoreTypeOK
        <5>2. QED BY <1>2, <5>1 DEF AuditTrail
      <4>2. CASE e = x
        <5> DEFINE n == Len(attempts[e])
        <5>1. attempts[e] \in Seq(DeliveryStatus) /\ n \in Nat
          BY <2>a DEF StoreTypeOK
        <5>2. /\ Len(attempts'[e]) = n + 1
              /\ attempts'[e][n + 1] = status
              /\ \A i \in 1..n : attempts'[e][i] = attempts[e][i]
          BY <2>a, <3>1, <4>2, <5>1 DEF StoreTypeOK
        <5>3. State(e)' = Life!OutcomeState(status)
          BY <3>1, <4>2
        <5>4. \A i \in 1..n : attempts[e][i] # "SUCCESS"
          BY <1>2, <3>1, <4>2 DEF AuditTrail
        <5>5. State(e)' = "DELIVERED" <=> status = "SUCCESS"
          BY <5>3 DEF Life!OutcomeState
        <5> HIDE DEF n
        <5>6. \A i \in 1..(n + 1) : i = n + 1 \/ i \in 1..n
          BY <5>1
        <5>7. n + 1 > 0
          BY <5>1
        <5>8. QED BY <5>2, <5>4, <5>5, <5>6, <5>7
      <4>3. QED BY <4>1, <4>2
    <3>3. QED BY <3>2 DEF AuditTrail
  <2>4. ASSUME UNCHANGED Life!vars PROVE AuditTrail'
    <3>1. \A e \in Events : State(e)' = State(e)
      BY <2>4 DEF Life!vars
    <3>2. QED BY <2>1, <2>4, <3>1 DEF Life!vars
  <2>5. ASSUME NEW S, Life!CountRetry(S) PROVE AuditTrail'
    <3>1. \A e \in Events : State(e)' = State(e)
      BY <2>5 DEF Life!CountRetry
    <3>2. QED BY <2>1, <2>5, <3>1 DEF Life!CountRetry
  <2>6. ASSUME NEW x \in Events,
               Life!Ingest(x) \/ Life!Begin(x) \/ Life!Close(x) \/ Life!GiveUp(x) \/ Life!Reopen(x)
        PROVE  AuditTrail'
    BY <2>2, <2>6 DEF Life!Ingest, Life!Begin, Life!Close, Life!GiveUp, Life!Reopen
  <2>7. ASSUME NEW S, Life!Release(S) PROVE AuditTrail'
    BY <2>2, <2>7 DEF Life!Release
  <2>8. QED
    BY <2>b, <2>3, <2>4, <2>5, <2>6, <2>7 DEF Life!Next, DeliveryStatus, Life!DeliveryStatus
<1>3. ASSUME AuditTrail, UNCHANGED vars PROVE AuditTrail'
  BY <1>3 DEF AuditTrail, vars, storeVars, State
<1>4. Init => SafeInv
  BY SafeInductive
<1>5. SafeInv /\ [Next]_vars => SafeInv'
  BY SafeInductive
<1>6. SafeInv /\ AuditTrail /\ [Next]_vars => AuditTrail'
  BY <1>2, <1>3
<1>7. QED BY <1>1, <1>4, <1>5, <1>6, PTL DEF Spec

=============================================================================

----------------------------- MODULE RetryProofs -----------------------------
(***************************************************************************)
(* The retry budget, for every value of the constants and any number of    *)
(* workers: what is on the topic is not counted anywhere, so the proof     *)
(* weighs it, together with what the workers still hold, against the       *)
(* retries the row has counted.                                            *)
(***************************************************************************)
EXTENDS ConsumerProofs, FiniteSetTheorems

Requeues(e) == Published(e, "RETRY_SERVICE")

\* The workers that may still put e on the topic.
Waiting(e) == {w \in Workers : \E c \in batch[w] : c.event = e /\ ~IsExhausted(c.retries)}

\* Every requeue, made or still to come, was counted by its claim; and a claim past the
\* limit leads to none.
BudgetOK(e) ==
  /\ IsFiniteSet(Waiting(e))
  /\ Cardinality(Requeues(e)) + Cardinality(Waiting(e)) <= rows[e].retries
  /\ Cardinality(Requeues(e)) + Cardinality(Waiting(e)) <= MaxAttempts - 1

\* A worker holds an event once, and a row that is not there counts no retry.
UniqueInv == \A w \in Workers : \A b, c \in batch[w] : b.event = c.event => b = c
AbsentInv == \A e \in Events : State(e) = "ABSENT" => rows[e].retries = 0

BudgetInv == UniqueInv /\ AbsentInv /\ \A e \in Events : BudgetOK(e)

-----------------------------------------------------------------------------
(* The topic.                                                              *)

\* There are finitely many requeues of an event.
LEMMA RequeuesFinite ==
  ASSUME TypeInv, NEW e \in Events
  PROVE  IsFiniteSet(Requeues(e)) /\ Cardinality(Requeues(e)) \in Nat
<1>1. PICK p \in Partitions : p = PartitionOf["RETRY_SERVICE"][e]
  BY Constants DEF DispatchSource
<1>2. Len(log[p]) \in Nat
  BY DEF TypeInv, TypeOK, TopicsTypeOK
<1>3. IsFiniteSet(1..Len(log[p]))
  BY <1>2, FS_Interval
<1>4. Requeues(e) \in SUBSET (1..Len(log[p]))
  BY <1>1 DEF Requeues, Published
<1>5. IsFiniteSet(Requeues(e))
  BY <1>3, <1>4, FS_Subset
<1>6. QED BY <1>5, FS_CardinalityType

\* Another element makes a finite set larger by one at most.
LEMMA OneMore ==
  ASSUME NEW S, NEW x, IsFiniteSet(S)
  PROVE  IsFiniteSet(S \cup {x}) /\ Cardinality(S \cup {x}) <= Cardinality(S) + 1
<1>1. /\ IsFiniteSet(S \cup {x})
      /\ Cardinality(S \cup {x}) = IF x \in S THEN Cardinality(S) ELSE Cardinality(S) + 1
  BY FS_AddElement, Zenon
<1>2. Cardinality(S) \in Nat
  BY FS_CardinalityType
<1>3. QED BY <1>1, <1>2

\* A message is one more requeue of the event it is about if the retry service wrote it.
LEMMA AppendRequeues ==
  ASSUME TypeInv, NEW q \in Partitions, NEW m \in Message,
         log' = [log EXCEPT ![q] = Append(@, m)], NEW e \in Events
  PROVE  /\ \/ q # PartitionOf["RETRY_SERVICE"][e]
            \/ m # [event |-> e, source |-> "RETRY_SERVICE"]
            => Requeues(e)' = Requeues(e)
         /\ Cardinality(Requeues(e)') <= Cardinality(Requeues(e)) + 1
         /\ IsFiniteSet(Requeues(e)') /\ Cardinality(Requeues(e)') \in Nat
<1>a. PICK p \in Partitions : p = PartitionOf["RETRY_SERVICE"][e]
  BY Constants DEF DispatchSource
<1>b. /\ log \in [Partitions -> Seq(Message)] /\ log[p] \in Seq(Message)
      /\ Len(log[p]) \in Nat
  BY DEF TypeInv, TypeOK, TopicsTypeOK
<1> DEFINE r == [event |-> e, source |-> "RETRY_SERVICE"]
<1>c. /\ Requeues(e) = {i \in 1..Len(log[p]) : log[p][i] = r}
      /\ Requeues(e)' = {i \in 1..Len(log'[p]) : log'[p][i] = r}
  BY <1>a DEF Requeues, Published
<1> HIDE DEF r
<1>1. CASE p # q
  <2>1. log'[p] = log[p]
    BY <1>b, <1>1
  <2>2. Requeues(e)' = Requeues(e)
    BY <1>c, <2>1
  <2>3. QED BY <2>2, RequeuesFinite
<1>2. CASE p = q
  <2>1. /\ Len(log'[p]) = Len(log[p]) + 1
        /\ \A i \in 1..Len(log[p]) : log'[p][i] = log[p][i]
        /\ log'[p][Len(log[p]) + 1] = m
    BY <1>b, <1>2
  <2>2. 1..Len(log'[p]) = (1..Len(log[p])) \cup {Len(log[p]) + 1}
    BY <1>b, <2>1
  <2>3. CASE m # r
    <3>1. Requeues(e)' = Requeues(e)
      BY <1>c, <2>1, <2>2, <2>3
    <3>2. QED BY <3>1, RequeuesFinite
  <2>4. CASE m = r
    <3>1. Requeues(e)' = Requeues(e) \cup {Len(log[p]) + 1}
      BY <1>c, <2>1, <2>2, <2>4
    <3>2. /\ IsFiniteSet(Requeues(e)')
          /\ Cardinality(Requeues(e)') <= Cardinality(Requeues(e)) + 1
      <4>1. IsFiniteSet(Requeues(e))
        BY RequeuesFinite
      <4>2. /\ IsFiniteSet(Requeues(e) \cup {Len(log[p]) + 1})
            /\ Cardinality(Requeues(e) \cup {Len(log[p]) + 1}) <= Cardinality(Requeues(e)) + 1
        BY <4>1, OneMore
      <4>3. QED BY <3>1, <4>2
    <3>3. Cardinality(Requeues(e)') \in Nat
      BY <3>2, FS_CardinalityType
    <3>4. QED BY <1>a, <1>2, <2>4, <3>2, <3>3 DEF r
  <2>5. QED BY <2>3, <2>4
<1>3. QED BY <1>1, <1>2

\* Only the retry service puts requeues on the topic.
LEMMA OthersPublish ==
  ASSUME TypeInv, [Next]_vars, \A w \in Workers : ~Requeue(w), NEW e \in Events
  PROVE  Requeues(e)' = Requeues(e)
<1>a. ASSUME UNCHANGED log PROVE Requeues(e)' = Requeues(e)
  BY <1>a DEF Requeues, Published
<1>b. ASSUME NEW x \in Events, NEW source \in DispatchSource \ {"RETRY_SERVICE"},
             Publish(x, source)
      PROVE  Requeues(e)' = Requeues(e)
  <2>1. /\ PartitionOf[source][x] \in Partitions
        /\ [event |-> x, source |-> source] \in Message
    BY Constants DEF Message
  <2>2. [event |-> x, source |-> source] # [event |-> e, source |-> "RETRY_SERVICE"]
    OBVIOUS
  <2>3. QED BY <1>b, <2>1, <2>2, AppendRequeues DEF Publish
<1>1. ASSUME NEW d \in Dispatchers, Handle(d) \/ StoreFails(d) \/ Crash(d)
      PROVE  Requeues(e)' = Requeues(e)
  BY <1>1, <1>a, OtherHandlers
<1>2. ASSUME NEW w \in Workers, Work(w, Stalled) \/ CrashWorker(w)
      PROVE  Requeues(e)' = Requeues(e)
  BY <1>2, <1>a DEF Work, PollDue, Schedule, Exhaust, DeadLetter, Reclaim, CrashWorker, topicVars
<1>3. ASSUME ReplayNext PROVE Requeues(e)' = Requeues(e)
  <2>1. ASSUME NEW q \in Requests, ReplayPublish(q) PROVE Requeues(e)' = Requeues(e)
    <3>1. replay[q].event \in Events
      BY DEF TypeInv, TypeOK, ReplayTypeOK, Request
    <3>2. QED BY <1>a, <1>b, <2>1, <3>1 DEF ReplayPublish, DispatchSource
  <2>2. QED
    BY <1>3, <1>a, <2>1 DEF ReplayNext, Serve, ReplayLookup, ReplayMark, ReplayInterrupted, topicVars
<1>4. ASSUME EnvironmentNext PROVE Requeues(e)' = Requeues(e)
  <2>1. ASSUME NEW p \in Partitions, MalformedMessage(p) PROVE Requeues(e)' = Requeues(e)
    <3>1. /\ [event |-> Malformed, source |-> "SYSTEM"] \in Message
          /\ [event |-> Malformed, source |-> "SYSTEM"] # [event |-> e, source |-> "RETRY_SERVICE"]
      BY DEF Message, DispatchSource
    <3>2. QED BY <2>1, <3>1, AppendRequeues DEF MalformedMessage
  <2>2. QED BY <1>4, <1>a, <1>b, <2>1 DEF EnvironmentNext, PlatformPublish, RetryTimePasses,
                                          topicVars, DispatchSource
<1>5. QED
  BY <1>a, <1>1, <1>2, <1>3, <1>4, StepKinds DEF Bystander, WorkerNext, Rebalance, vars, topicVars

-----------------------------------------------------------------------------
(* The rows.                                                               *)

\* No statement takes back a retry that was counted, and a row starts with none.
LEMMA RetriesGrow ==
  ASSUME TypeInv, AbsentInv, [Next]_vars
  PROVE  /\ \A e \in Events : rows[e].retries \in Nat /\ rows'[e].retries \in Nat
         /\ \A e \in Events : rows'[e].retries >= rows[e].retries
         /\ AbsentInv'
<1>a. StoreTypeOK /\ StoreTypeOK'
  BY NextTypeInv DEF TypeInv, TypeOK
<1>b. \A e \in Events : rows[e].retries \in Nat /\ rows'[e].retries \in Nat
  BY <1>a DEF StoreTypeOK, Row
<1> DEFINE Goal == \A e \in Events : /\ rows'[e].retries >= rows[e].retries
                                     /\ State(e)' = "ABSENT" => rows'[e].retries = 0
<1>c. \A e \in Events : State(e)' = "ABSENT" => State(e) = "ABSENT"
  BY Forward DEF Present
<1>1. ASSUME \A e \in Events : rows'[e].retries = rows[e].retries PROVE Goal
  BY <1>1, <1>b, <1>c DEF AbsentInv
<1>2. ASSUME NEW e \in Events, Insert(e) PROVE Goal
  BY <1>2, <1>a, <1>b, <1>c, StatementEffects DEF AbsentInv
<1>3. ASSUME NEW S \in SUBSET Due, ClaimDue(S) PROVE Goal
  <2>1. S \in SUBSET Events /\ \A e \in S : State(e) # "ABSENT"
    BY DEF Due
  <2>2. QED BY <1>3, <1>a, <1>b, <2>1, BatchEffects DEF AbsentInv
<1>4. ASSUME NEW S \in SUBSET Stalled, ReclaimStalled(S) PROVE Goal
  BY <1>4, <1>1, <1>a, BatchEffects DEF Stalled
<1>5. ASSUME NEW e \in Events, NEW from, NEW to, Moves(e, from, to) PROVE Goal
  BY <1>5, <1>1 DEF Moves
<1>6. ASSUME NEW d \in Dispatchers, Handle(d) \/ StoreFails(d) \/ Crash(d) PROVE Goal
  <2>a. pc[d] \notin {"idle", "poison", "commit"} => EventOf(d) \in Events
    BY DEF TypeInv, HandlerOK
  <2>1. CASE InsertEvent(d)
    BY <1>2, <2>1, <2>a DEF InsertEvent
  <2>2. CASE Claim(d) \/ Record(d) \/ Abandon(d) \/ Close(d)
    <3>1. EventOf(d) \in Events
      BY <2>2, <2>a DEF Claim, Record, Abandon, Close
    <3>2. \E from, to : Moves(EventOf(d), from, to)
      BY <1>a, <2>2, <3>1, StatementEffects DEF Claim, Record, Abandon, Close
    <3>3. QED BY <1>5, <3>1, <3>2
  <2>3. CASE UNCHANGED rows
    BY <1>1, <2>3
  <2>4. QED
    BY <1>6, <2>1, <2>2, <2>3
       DEF Handle, Fetch, ToDLQ, Commit, Find, InsertRefused, Resolve, Send, Announce, StoreFails,
           Crash, storeVars
<1>7. ASSUME Bystander PROVE Goal
  <2>1. CASE UNCHANGED storeVars
    BY <1>1, <2>1 DEF storeVars
  <2>2. CASE \E e \in Events : ScheduleNext(e) \/ Lapse(e) \/ MarkForReplay(e)
    BY <1>a, <1>5, <2>2, StatementEffects
  <2>3. CASE \E w \in Workers : \E c \in batch[w] : MarkFailed(c.event)
    <3>1. PICK e \in Events : MarkFailed(e)
      BY <2>3 DEF TypeInv, TypeOK, WorkerTypeOK, PendingRetry
    <3>2. QED BY <1>a, <1>5, <3>1, StatementEffects
  <2>4. QED BY <1>3, <1>4, <1>7, <2>1, <2>2, <2>3, BystanderStatements
<1>8. UNCHANGED vars => Goal
  BY <1>1 DEF vars, storeVars
<1>9. Goal
  BY <1>6, <1>7, <1>8, StepKinds
<1>10. QED BY <1>b, <1>9 DEF AbsentInv

-----------------------------------------------------------------------------
(* The workers.                                                            *)

\* Nothing is put on the topic and no worker takes an event up: the budget holds.
LEMMA BudgetFrame ==
  ASSUME TypeInv, BudgetInv, [Next]_vars, NEW e \in Events,
         Requeues(e)' = Requeues(e), Waiting(e)' \subseteq Waiting(e)
  PROVE  BudgetOK(e)'
<1>1. BudgetOK(e) /\ rows[e].retries \in Nat /\ rows'[e].retries \in Nat
      /\ rows'[e].retries >= rows[e].retries
  BY RetriesGrow DEF BudgetInv
<1>2. Waiting(e)' \in SUBSET Waiting(e) /\ IsFiniteSet(Waiting(e))
  BY <1>1 DEF BudgetOK
<1>3. IsFiniteSet(Waiting(e)') /\ Cardinality(Waiting(e)') <= Cardinality(Waiting(e))
  BY <1>2, FS_Subset
<1>4. Cardinality(Waiting(e)') \in Nat /\ Cardinality(Waiting(e)) \in Nat
  BY <1>2, <1>3, FS_CardinalityType
<1>5. Cardinality(Requeues(e)) \in Nat /\ MaxAttempts \in Nat
  BY RequeuesFinite, RetryWorkerAssumption
<1>6. QED BY <1>1, <1>3, <1>4, <1>5 DEF BudgetOK

\* Batches that only shrink leave fewer workers waiting.
LEMMA WaitingShrinks ==
  ASSUME NEW e, \A w \in Workers : batch'[w] \subseteq batch[w]
  PROVE  Waiting(e)' \subseteq Waiting(e)
BY DEF Waiting, IsExhausted

\* The claim: one more worker may requeue, and one more retry is counted.
LEMMA ClaimKeepsBudget ==
  ASSUME TypeInv, BudgetInv, [Next]_vars, NEW w \in Workers, PollDue(w), NEW e \in Events
  PROVE  BudgetOK(e)'
<1>a. batch \in [Workers -> SUBSET PendingRetry] /\ StoreTypeOK
  BY DEF TypeInv, TypeOK, WorkerTypeOK
<1>b. Requeues(e)' = Requeues(e)
  BY DEF PollDue, Requeues, Published
<1>1. CASE UNCHANGED batch
  BY <1>1, <1>b, BudgetFrame, WaitingShrinks
<1>2. ASSUME NEW S \in SUBSET Due, ClaimDue(S), batch' = [batch EXCEPT ![w] = Claimed(S)]
      PROVE  BudgetOK(e)'
  <2>a. S \in SUBSET Events /\ batch[w] = {} /\ batch'[w] = Claimed(S)
    BY <1>2, <1>a DEF Due, PollDue
  <2>b. \A x \in Workers \ {w} : batch'[x] = batch[x]
    BY <1>2, <1>a
  <2>1. CASE e \notin S \/ IsExhausted(rows[e].retries + 1)
    <3>1. \A c \in Claimed(S) : c.event = e => IsExhausted(c.retries)
      BY <2>1 DEF Claimed
    <3>2. Waiting(e)' \subseteq Waiting(e)
      BY <2>a, <2>b, <3>1 DEF Waiting, IsExhausted
    <3>3. QED BY <1>b, <3>2, BudgetFrame
  <2>2. CASE e \in S /\ ~IsExhausted(rows[e].retries + 1)
    <3>1. Waiting(e)' \subseteq Waiting(e) \cup {w}
      BY <2>a, <2>b DEF Waiting, IsExhausted
    <3>2. rows'[e].retries = rows[e].retries + 1 /\ rows[e].retries \in Nat
      BY <1>2, <1>a, <2>a, <2>2, BatchEffects DEF StoreTypeOK, Row
    <3>3. rows'[e].retries <= MaxAttempts - 1 /\ MaxAttempts \in Nat
      BY <2>2, <3>2, RetryWorkerAssumption DEF IsExhausted
    <3>4. BudgetOK(e)
      BY DEF BudgetInv
    <3>5. IsFiniteSet(Waiting(e))
      BY <3>4 DEF BudgetOK
    <3>6. /\ IsFiniteSet(Waiting(e) \cup {w})
          /\ Cardinality(Waiting(e) \cup {w}) <= Cardinality(Waiting(e)) + 1
      BY <3>5, OneMore
    <3>7. IsFiniteSet(Waiting(e)') /\ Cardinality(Waiting(e)') <= Cardinality(Waiting(e) \cup {w})
      <4>1. Waiting(e)' \in SUBSET (Waiting(e) \cup {w})
        BY <3>1
      <4>2. QED BY <3>6, <4>1, FS_Subset
    <3>8. /\ Cardinality(Waiting(e)') \in Nat /\ Cardinality(Waiting(e)) \in Nat
          /\ Cardinality(Waiting(e) \cup {w}) \in Nat
      BY <3>5, <3>6, <3>7, FS_CardinalityType
    <3>9. Cardinality(Requeues(e)) \in Nat
      BY RequeuesFinite
    <3>10. Cardinality(Requeues(e)) + Cardinality(Waiting(e)') <= rows'[e].retries
      BY <3>2, <3>4, <3>6, <3>7, <3>8, <3>9 DEF BudgetOK
    <3>11. QED BY <1>b, <3>2, <3>3, <3>7, <3>8, <3>9, <3>10 DEF BudgetOK
  <2>3. QED BY <2>1, <2>2
<1>3. QED BY <1>1, <1>2 DEF PollDue

\* The requeue: what was waiting is on the topic.
LEMMA RequeueKeepsBudget ==
  ASSUME TypeInv, BudgetInv, [Next]_vars, NEW w \in Workers, Requeue(w), NEW e \in Events
  PROVE  BudgetOK(e)'
<1>a. batch \in [Workers -> SUBSET PendingRetry]
  BY DEF TypeInv, TypeOK, WorkerTypeOK
<1>1. PICK c \in batch[w] : /\ ~IsExhausted(c.retries)
                            /\ batch' = [batch EXCEPT ![w] = @ \ {c}]
                            /\ Publish(c.event, "RETRY_SERVICE") \/ UNCHANGED log
  BY DEF Requeue, Take, Drop
<1>2. c.event \in Events /\ batch'[w] = batch[w] \ {c} /\ \A x \in Workers \ {w} : batch'[x] = batch[x]
  BY <1>1, <1>a DEF PendingRetry
<1>3. Waiting(e)' \subseteq Waiting(e)
  BY <1>2, WaitingShrinks
<1>4. CASE UNCHANGED log
  BY <1>3, <1>4, BudgetFrame DEF Requeues, Published
<1>5. CASE Publish(c.event, "RETRY_SERVICE")
  <2>1. PICK q \in Partitions : q = PartitionOf["RETRY_SERVICE"][c.event]
    BY <1>2, Constants DEF DispatchSource
  <2>2. PICK m \in Message : m = [event |-> c.event, source |-> "RETRY_SERVICE"]
    BY <1>2 DEF Message, DispatchSource
  <2>3. log' = [log EXCEPT ![q] = Append(@, m)]
    BY <1>5, <2>1, <2>2 DEF Publish
  <2>4. CASE c.event # e
    <3>1. Requeues(e)' = Requeues(e)
      BY <2>2, <2>3, <2>4, AppendRequeues
    <3>2. QED BY <1>3, <3>1, BudgetFrame
  <2>5. CASE c.event = e
    <3>1. w \in Waiting(e) /\ Waiting(e)' \subseteq Waiting(e) \ {w}
      BY <1>1, <1>2, <1>3, <2>5 DEF Waiting, BudgetInv, UniqueInv
    <3>2. BudgetOK(e) /\ rows[e].retries \in Nat /\ rows'[e].retries \in Nat
          /\ rows'[e].retries >= rows[e].retries
      BY RetriesGrow DEF BudgetInv
    <3>3. IsFiniteSet(Waiting(e))
      BY <3>2 DEF BudgetOK
    <3>4. /\ IsFiniteSet(Waiting(e) \ {w})
          /\ Cardinality(Waiting(e) \ {w}) = Cardinality(Waiting(e)) - 1
      BY <3>1, <3>3, FS_RemoveElement
    <3>5. IsFiniteSet(Waiting(e)') /\ Cardinality(Waiting(e)') <= Cardinality(Waiting(e) \ {w})
      <4>1. Waiting(e)' \in SUBSET (Waiting(e) \ {w})
        BY <3>1
      <4>2. QED BY <3>4, <4>1, FS_Subset
    <3>6. Cardinality(Waiting(e)') \in Nat /\ Cardinality(Waiting(e)) \in Nat
      BY <3>3, <3>5, FS_CardinalityType
    <3>7. /\ Cardinality(Requeues(e)) \in Nat /\ Cardinality(Requeues(e)') \in Nat
          /\ Cardinality(Requeues(e)') <= Cardinality(Requeues(e)) + 1
      BY <2>3, RequeuesFinite, AppendRequeues
    <3>8. MaxAttempts \in Nat
      BY RetryWorkerAssumption
    <3>9. QED BY <3>2, <3>4, <3>5, <3>6, <3>7, <3>8 DEF BudgetOK
  <2>6. QED BY <2>4, <2>5
<1>6. QED BY <1>1, <1>4, <1>5

\* A worker never holds an event twice.
LEMMA UniqueStays ==
  ASSUME TypeInv, UniqueInv, [Next]_vars
  PROVE  UniqueInv'
<1>1. ASSUME NEW w \in Workers, Next
      PROVE  \A b, c \in batch'[w] : b.event = c.event => b = c
  <2>1. CASE batch'[w] \subseteq batch[w]
    BY <2>1 DEF UniqueInv
  <2>2. CASE \E S \in SUBSET Due : batch'[w] = Claimed(S)
    BY <2>2 DEF Claimed
  <2>3. QED BY <1>1, <2>1, <2>2, BatchFrame
<1>2. UNCHANGED vars => UniqueInv'
  BY DEF vars, workerVars, UniqueInv
<1>3. QED BY <1>1, <1>2 DEF UniqueInv

\* The retry budget bounds the requeues of an event over its whole life.
THEOREM RetriesAreBudgeted == Spec => []RetryBudget
<1>1. Init => BudgetInv
  <2> SUFFICES ASSUME Init PROVE BudgetInv
    OBVIOUS
  <2>1. /\ \A w \in Workers : batch[w] = {}
        /\ \A e \in Events : rows[e].retries = 0
        /\ \A p \in Partitions : Len(log[p]) = 0
    BY DEF Init, WorkerInit, StoreInit, TopicsInit
  <2>2. ASSUME NEW e \in Events PROVE BudgetOK(e)
    <3>1. Waiting(e) = {}
      BY <2>1 DEF Waiting
    <3>2. Requeues(e) = {}
      BY <2>1, Constants DEF Requeues, Published, DispatchSource
    <3>3. QED BY <2>1, <3>1, <3>2, FS_EmptySet, RetryWorkerAssumption DEF BudgetOK
  <2>3. QED BY <2>1, <2>2 DEF BudgetInv, UniqueInv, AbsentInv
<1>2. TypeInv /\ BudgetInv /\ [Next]_vars => BudgetInv'
  <2> SUFFICES ASSUME TypeInv, BudgetInv, [Next]_vars PROVE BudgetInv'
    OBVIOUS
  <2>1. ASSUME NEW e \in Events PROVE BudgetOK(e)'
    <3>1. CASE \E w \in Workers : PollDue(w)
      BY <3>1, ClaimKeepsBudget
    <3>2. CASE \E w \in Workers : Requeue(w)
      BY <3>2, RequeueKeepsBudget
    <3>3. CASE \A w \in Workers : ~PollDue(w) /\ ~Requeue(w)
      <4>1. \A w \in Workers : batch'[w] \subseteq batch[w]
        <5>a. batch \in [Workers -> SUBSET PendingRetry]
          BY DEF TypeInv, TypeOK, WorkerTypeOK
        <5>1. ASSUME NEW v \in Workers, Exhaust(v) \/ CrashWorker(v)
              PROVE  \A w \in Workers : batch'[w] \subseteq batch[w]
          BY <5>1, <5>a DEF Exhaust, CrashWorker, Drop, Take
        <5>2. (\E v \in Workers : Exhaust(v) \/ CrashWorker(v)) \/ UNCHANGED batch
          BY <3>3 DEF Next, vars, workerVars, WorkerNext, Work, Schedule, DeadLetter, Reclaim, Finish
        <5>3. QED BY <5>1, <5>2
      <4>2. QED BY <3>3, <4>1, OthersPublish, WaitingShrinks, BudgetFrame
    <3>4. QED BY <3>1, <3>2, <3>3
  <2>2. UniqueInv' /\ AbsentInv'
    BY UniqueStays, RetriesGrow DEF BudgetInv
  <2>3. QED BY <2>1, <2>2 DEF BudgetInv
<1>3. Spec => []TypeInv
  BY InitTypeInv, NextTypeInv, PTL DEF Spec
<1>4. TypeInv /\ BudgetInv => RetryBudget
  <2> SUFFICES ASSUME TypeInv, BudgetInv, NEW e \in Events
               PROVE  Cardinality(Requeues(e)) < MaxAttempts
    BY DEF RetryBudget, Requeues
  <2>1. BudgetOK(e) /\ Cardinality(Requeues(e)) \in Nat /\ MaxAttempts \in Nat
    BY RequeuesFinite, RetryWorkerAssumption DEF BudgetInv
  <2>2. Cardinality(Waiting(e)) \in Nat
    BY <2>1, FS_CardinalityType DEF BudgetOK
  <2>3. QED BY <2>1, <2>2 DEF BudgetOK
<1>5. QED BY <1>1, <1>2, <1>3, <1>4, PTL DEF Spec

-----------------------------------------------------------------------------
(* The schedule.                                                           *)

KeepsSchedule == \A e \in Events : rows'[e].next = "scheduled" => rows[e].next = "scheduled"

\* Only the retry service's ScheduleNext puts a row on the schedule.
LEMMA ScheduleFrame ==
  ASSUME TypeInv, [Next]_vars, \A w \in Workers : ~Schedule(w)
  PROVE  KeepsSchedule
<1>a. StoreTypeOK
  BY DEF TypeInv, TypeOK
<1> USE <1>a DEF KeepsSchedule, StoreTypeOK, Row
<1>1. UNCHANGED rows => KeepsSchedule
  OBVIOUS
<1>2. ASSUME NEW e \in Events PROVE Insert(e) => KeepsSchedule
  BY DEF Insert
<1>3. ASSUME NEW e \in Events, NEW s PROVE UpdateState(e, s) => KeepsSchedule
  BY DEF UpdateState
<1>4. ASSUME NEW e \in Events, NEW from PROVE ClaimForDelivery(e, from) => KeepsSchedule
  BY <1>1 DEF ClaimForDelivery
<1>5. ASSUME NEW e \in Events, NEW s PROVE RecordOutcome(e, s) => KeepsSchedule
  BY DEF RecordOutcome
<1>6. ASSUME NEW e \in Events, NEW s, rows' = [rows EXCEPT ![e].state = s, ![e].next = "due"]
      PROVE  KeepsSchedule
  BY <1>6
<1>7. ASSUME NEW e \in Events PROVE MarkFailed(e) \/ MarkForReplay(e) => KeepsSchedule
  BY <1>1, <1>6 DEF MarkFailed, MarkForReplay
<1>8. ASSUME NEW e \in Events PROVE Lapse(e) => KeepsSchedule
  BY DEF Lapse
<1>9. ASSUME NEW S PROVE ClaimDue(S) \/ ReclaimStalled(S) => KeepsSchedule
  BY DEF ClaimDue, ReclaimStalled
<1>10. ASSUME NEW d \in Dispatchers, Handle(d) \/ StoreFails(d) \/ Crash(d) PROVE KeepsSchedule
  <2>1. pc[d] \notin {"idle", "poison", "commit"} => EventOf(d) \in Events
    BY DEF TypeInv, HandlerOK
  <2>2. CASE InsertEvent(d) \/ Claim(d) \/ Record(d) \/ Abandon(d) \/ Close(d)
    BY <1>2, <1>3, <1>4, <1>5, <2>1, <2>2 DEF InsertEvent, Claim, Record, Abandon, Close
  <2>3. CASE UNCHANGED rows
    BY <1>1, <2>3
  <2>4. QED
    BY <1>10, <2>2, <2>3
       DEF Handle, Fetch, ToDLQ, Commit, Find, InsertRefused, Resolve, Send, Announce, StoreFails,
           Crash, storeVars
<1>11. ASSUME NEW w \in Workers, Work(w, Stalled) \/ CrashWorker(w) PROVE KeepsSchedule
  <2>1. CASE Exhaust(w)
    <3>1. PICK c \in batch[w] : MarkFailed(c.event) \/ UNCHANGED storeVars
      BY <2>1 DEF Exhaust
    <3>2. c.event \in Events
      BY DEF TypeInv, TypeOK, WorkerTypeOK, PendingRetry
    <3>3. QED BY <1>1, <1>7, <3>1, <3>2 DEF storeVars
  <2>2. CASE PollDue(w) \/ Reclaim(w, Stalled)
    BY <1>9, <2>2 DEF PollDue, Reclaim
  <2>3. QED
    BY <1>1, <1>11, <2>1, <2>2 DEF Work, Requeue, DeadLetter, CrashWorker, storeVars
<1>12. ASSUME NEW q \in Requests, ReplayMark(q) PROVE KeepsSchedule
  BY <1>7, <1>12 DEF ReplayMark, TypeInv, TypeOK, ReplayTypeOK, Request
<1>13. ReplayNext => KeepsSchedule
  BY <1>1, <1>12 DEF ReplayNext, Serve, ReplayLookup, ReplayPublish, ReplayInterrupted, storeVars
<1>14. EnvironmentNext => KeepsSchedule
  BY <1>1, <1>8 DEF EnvironmentNext, PlatformPublish, MalformedMessage, RetryTimePasses, storeVars
<1>15. QED
  BY <1>1, <1>10, <1>11, <1>13, <1>14, StepKinds
     DEF Bystander, WorkerNext, Rebalance, vars, storeVars

\* A requeue stays on the topic.
LEMMA RequeuesStay ==
  ASSUME TypeInv, [Next]_vars, NEW e \in Events, Requeues(e) # {}
  PROVE  Requeues(e)' # {}
<1>1. PICK p \in Partitions : p = PartitionOf["RETRY_SERVICE"][e]
  BY Constants DEF DispatchSource
<1>2. PICK i \in 1..Len(log[p]) : log[p][i] = [event |-> e, source |-> "RETRY_SERVICE"]
  BY <1>1 DEF Requeues, Published
<1>3. Len(log'[p]) \in Nat
  BY NextTypeInv DEF TypeInv, TypeOK, TopicsTypeOK
<1>4. i \in 1..Len(log'[p]) /\ log'[p][i] = [event |-> e, source |-> "RETRY_SERVICE"]
  BY <1>2, <1>3, LogKeeps
<1>5. QED BY <1>1, <1>4 DEF Requeues, Published

\* What a worker is about to schedule it has published.
TaskInv == \A w \in Workers : stage[w] = "schedule" => Requeues(task[w].event) # {}

LEMMA TaskStays ==
  ASSUME TypeInv, TaskInv, [Next]_vars
  PROVE  TaskInv'
<1>a. /\ stage \in [Workers -> Stage] /\ batch \in [Workers -> SUBSET PendingRetry]
      /\ task \in [Workers -> PendingRetry]
  BY DEF TypeInv, TypeOK, WorkerTypeOK
<1>1. ASSUME NEW w \in Workers, stage'[w] = stage[w], task'[w] = task[w], stage[w] = "schedule"
      PROVE  Requeues(task[w].event)' # {}
  <2>1. PICK e \in Events : e = task[w].event
    BY <1>a DEF PendingRetry
  <2>2. Requeues(e)' # {}
    BY <1>1, <2>1, RequeuesStay DEF TaskInv
  <2>3. QED BY <1>1, <2>1, <2>2 DEF Requeues, Published
<1>2. ASSUME NEW v \in Workers, NEW c \in batch[v], Take(v, c, "schedule"),
             Publish(c.event, "RETRY_SERVICE")
      PROVE  TaskInv'
  <2>1. PICK e \in Events : e = c.event
    BY <1>a DEF PendingRetry
  <2>2. PICK p \in Partitions : p = PartitionOf["RETRY_SERVICE"][e]
    BY <2>1, Constants DEF DispatchSource
  <2>3. log' = [log EXCEPT ![p] = Append(@, [event |-> e, source |-> "RETRY_SERVICE"])]
    BY <1>2, <2>1, <2>2 DEF Publish
  <2>4. log \in [Partitions -> Seq(Message)]
    BY DEF TypeInv, TypeOK, TopicsTypeOK
  <2>5. /\ Len(log[p]) + 1 \in 1..Len(log'[p])
        /\ log'[p][Len(log[p]) + 1] = [event |-> e, source |-> "RETRY_SERVICE"]
    <3>1. [event |-> e, source |-> "RETRY_SERVICE"] \in Message
      BY DEF Message, DispatchSource
    <3>2. QED BY <2>3, <2>4, <3>1
  <2>6. Requeues(e)' # {}
    BY <2>2, <2>5 DEF Requeues, Published
  <2>7. task'[v] = c
    BY <1>2, <1>a DEF Take
  <2>8. Requeues(task[v].event)' # {}
    BY <2>1, <2>6, <2>7 DEF Requeues, Published
  <2>9. \A w \in Workers \ {v} : stage'[w] = stage[w] /\ task'[w] = task[w]
    BY <1>2, <1>a DEF Take
  <2>10. QED BY <1>1, <2>8, <2>9 DEF TaskInv
<1>3. ASSUME NEW v \in Workers,
             \A w \in Workers \ {v} : stage'[w] = stage[w] /\ task'[w] = task[w],
             stage'[v] # "schedule" \/ (stage'[v] = stage[v] /\ task'[v] = task[v])
      PROVE  TaskInv'
  BY <1>1, <1>3 DEF TaskInv
<1>4. ASSUME NEW v \in Workers, Finish(v) \/ CrashWorker(v) PROVE TaskInv'
  BY <1>3, <1>4, <1>a DEF Finish, CrashWorker
<1>5. ASSUME UNCHANGED <<stage, task>> PROVE TaskInv'
  BY <1>1, <1>5 DEF TaskInv
<1>6. ASSUME NEW v \in Workers, NEW c \in batch[v], Take(v, c, "deadletter") \/ Drop(v, c)
      PROVE  TaskInv'
  BY <1>3, <1>5, <1>6, <1>a DEF Take, Drop
<1>7. ASSUME NEW v \in Workers, Work(v, Stalled) PROVE TaskInv'
  <2>1. CASE Requeue(v)
    BY <2>1, <1>2, <1>6 DEF Requeue
  <2>2. CASE Exhaust(v)
    BY <2>2, <1>6 DEF Exhaust
  <2>3. CASE Schedule(v) \/ DeadLetter(v)
    BY <2>3, <1>4 DEF Schedule, DeadLetter
  <2>4. CASE PollDue(v) \/ Reclaim(v, Stalled)
    BY <2>4, <1>5 DEF PollDue, Reclaim, workerVars
  <2>5. QED BY <1>7, <2>1, <2>2, <2>3, <2>4 DEF Work
<1>8. QED BY <1>4, <1>5, <1>7 DEF Next, vars, workerVars, WorkerNext

\* No event is scheduled for a retry that was never on the topic.
THEOREM ScheduledIsPublished == Spec => []ScheduledWasPublished
<1> DEFINE ScheduleInv == ScheduledWasPublished /\ TaskInv
<1>1. Init => ScheduleInv
  BY DEF Init, StoreInit, WorkerInit, ScheduledWasPublished, TaskInv
<1>2. TypeInv /\ ScheduleInv /\ [Next]_vars => ScheduleInv'
  <2> SUFFICES ASSUME TypeInv, ScheduledWasPublished, TaskInv, [Next]_vars
               PROVE  ScheduledWasPublished'
    BY TaskStays
  <2>1. ASSUME NEW e \in Events, rows'[e].next = "scheduled" PROVE Requeues(e) # {}
    <3>1. CASE rows[e].next = "scheduled"
      BY <3>1 DEF ScheduledWasPublished, Requeues
    <3>2. ASSUME NEW w \in Workers, Schedule(w), rows[e].next # "scheduled" PROVE Requeues(e) # {}
      <4>1. ScheduleNext(task[w].event) \/ UNCHANGED rows
        BY <3>2 DEF Schedule, storeVars
      <4>2. rows \in [Events -> Row]
        BY DEF TypeInv, TypeOK, StoreTypeOK
      <4>3. task[w].event = e
        BY <2>1, <3>2, <4>1, <4>2 DEF ScheduleNext, Row
      <4>4. QED BY <3>2, <4>3 DEF Schedule, TaskInv
    <3>3. QED BY <2>1, <3>1, <3>2, ScheduleFrame DEF KeepsSchedule
  <2>2. ASSUME NEW e \in Events, rows'[e].next = "scheduled" PROVE Requeues(e)' # {}
    BY <2>1, <2>2, RequeuesStay
  <2>3. QED BY <2>2 DEF ScheduledWasPublished, Requeues
<1>3. Spec => []TypeInv
  BY InitTypeInv, NextTypeInv, PTL DEF Spec
<1>4. ScheduleInv => ScheduledWasPublished
  OBVIOUS
<1> HIDE DEF ScheduleInv
<1>5. QED BY <1>1, <1>2, <1>3, <1>4, PTL DEF Spec
=============================================================================

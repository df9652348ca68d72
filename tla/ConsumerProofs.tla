--------------------------- MODULE ConsumerProofs ---------------------------
(***************************************************************************)
(* "Offsets are committed manually, only after processing succeeds": for   *)
(* every value of the constants the committed offset passes no message     *)
(* that nobody dealt with.  NoMessageSkipped alone is not inductive: a     *)
(* commit may be one of several the same partition gets from its old and   *)
(* its new owner, so what each of them has behind it must be known from    *)
(* the moment it fetches.                                                  *)
(***************************************************************************)
EXTENDS DeliveryProofs

Present(e) == State(e) # "ABSENT"
Started(e) == State(e) \notin {"ABSENT", "PENDING"}

\* What a handler knows of its event on the way to its commit.
StageOK(d) ==
  /\ pc[d] = "poison" => EventOf(d) = Malformed
  /\ pc[d] = "claim" => /\ job[d].held \in {"PENDING", "RETRYING"}
                        /\ Present(EventOf(d))
                        /\ job[d].held = "RETRYING" => Started(EventOf(d))
  /\ pc[d] \in Owning \cup {"announce"} => Started(EventOf(d))
  /\ pc[d] = "commit" => Handled(job[d].part, job[d].offset)

\* d is at work on message i of partition p.
At(d, p, i) == pc[d] # "idle" /\ job[d].part = p /\ job[d].offset = i

\* Everything a handler fetched past has been dealt with.
BehindOK(d) == pc[d] # "idle" => \A i \in 1..(job[d].offset - 1) : Handled(job[d].part, i)

HandlersInv == \A d \in Dispatchers : StageOK(d) /\ BehindOK(d)

\* So has everything the owner of a partition fetched, but for the message it is at.
PositionInv ==
  \A p \in Partitions :
    /\ position[p] <= Len(log[p])
    /\ \A i \in 1..position[p] : Handled(p, i) \/ At(owner[p], p, i)

CommitInv ==
  \A p \in Partitions : committed[p] <= Len(log[p])

ConsumerInv == HandlersInv /\ PositionInv /\ CommitInv /\ NoMessageSkipped

-----------------------------------------------------------------------------
(* What no step takes back.                                                *)

\* No statement of any service makes a row disappear or PENDING again.
LEMMA Forward ==
  ASSUME TypeInv, [Next]_vars, NEW e \in Events
  PROVE  /\ Present(e) => Present(e)'
         /\ Started(e) => Started(e)'
<1> DEFINE Goal == (Present(e) => Present(e)') /\ (Started(e) => Started(e)')
<1>a. StoreTypeOK
  BY DEF TypeInv, TypeOK
<1>1. ASSUME UNCHANGED rows PROVE Goal
  BY <1>1 DEF Present, Started, State
<1>2. ASSUME NEW x \in Events, NEW from, NEW to, Moves(x, from, to),
             to \notin {"ABSENT", "PENDING"}
      PROVE  Goal
  BY <1>2 DEF Moves, Present, Started
<1>3. ASSUME NEW d \in Dispatchers, Handle(d) \/ StoreFails(d) \/ Crash(d) PROVE Goal
  <2>a. pc[d] \notin {"idle", "poison", "commit"} => EventOf(d) \in Events
    BY DEF TypeInv, HandlerOK
  <2>1. CASE InsertEvent(d)
    <3>1. Insert(EventOf(d)) /\ EventOf(d) \in Events
      BY <2>1, <2>a DEF InsertEvent
    <3>2. QED BY <1>a, <3>1, StatementEffects DEF Present, Started
  <2>2. CASE Claim(d)
    <3>1. ClaimForDelivery(EventOf(d), job[d].held) /\ EventOf(d) \in Events
      BY <2>2, <2>a DEF Claim
    <3>2. Moves(EventOf(d), {job[d].held}, "DELIVERING")
      BY <1>a, <3>1, StatementEffects
    <3>3. QED BY <1>2, <3>1, <3>2
  <2>3. CASE Record(d)
    <3>1. RecordOutcome(EventOf(d), job[d].held) /\ EventOf(d) \in Events
      BY <2>3, <2>a DEF Record
    <3>2. Moves(EventOf(d), AnyState, OutcomeState(job[d].held))
      BY <1>a, <3>1, StatementEffects
    <3>3. OutcomeState(job[d].held) \notin {"ABSENT", "PENDING"}
      BY DEF OutcomeState
    <3>4. QED BY <1>2, <3>1, <3>2, <3>3
  <2>4. CASE Abandon(d) \/ Close(d)
    <3>1. /\ EventOf(d) \in Events
          /\ UpdateState(EventOf(d), "RETRYING") \/ UpdateState(EventOf(d), "FAILED")
      BY <2>4, <2>a DEF Abandon, Close
    <3>2. Moves(EventOf(d), AnyState, "RETRYING") \/ Moves(EventOf(d), AnyState, "FAILED")
      BY <1>a, <3>1, StatementEffects
    <3>3. QED BY <1>2, <3>1, <3>2
  <2>5. QED
    BY <1>1, <1>3, <2>1, <2>2, <2>3, <2>4
       DEF Handle, Fetch, ToDLQ, Commit, Find, InsertRefused, Resolve, Send, Announce, StoreFails,
           Crash, storeVars
<1>4. ASSUME Bystander PROVE Goal
  <2>1. CASE UNCHANGED storeVars
    BY <1>1, <2>1 DEF storeVars
  <2>2. CASE \E x \in Events : ScheduleNext(x) \/ Lapse(x) \/ MarkForReplay(x)
    <3>1. PICK x \in Events : ScheduleNext(x) \/ Lapse(x) \/ MarkForReplay(x)
      BY <2>2
    <3>2. Moves(x, {}, "RETRYING") \/ Moves(x, {"FAILED"}, "RETRYING")
      BY <1>a, <3>1, StatementEffects
    <3>3. QED BY <1>2, <3>2
  <2>3. CASE \E w \in Workers : \E c \in batch[w] : MarkFailed(c.event)
    <3>1. PICK x \in Events : MarkFailed(x)
      BY <2>3 DEF TypeInv, TypeOK, WorkerTypeOK, PendingRetry
    <3>2. Moves(x, {"RETRYING"}, "FAILED")
      BY <1>a, <3>1, StatementEffects
    <3>3. QED BY <1>2, <3>2
  <2>4. CASE \E S \in SUBSET Due : ClaimDue(S)
    BY <1>a, <2>4, BatchEffects DEF Due, Present, Started
  <2>5. CASE \E S \in SUBSET Stalled : ReclaimStalled(S)
    BY <1>a, <2>5, BatchEffects DEF Stalled, Present, Started
  <2>6. QED BY <1>4, <2>1, <2>2, <2>3, <2>4, <2>5, BystanderStatements
<1>5. CASE Next
  BY <1>3, <1>4, <1>5, StepKinds
<1>6. CASE UNCHANGED vars
  BY <1>1, <1>6 DEF vars, storeVars
<1>7. QED BY <1>5, <1>6

\* The dead letters and the count of disruptions only grow.
LEMMA Records ==
  ASSUME TypeInv, [Next]_vars
  PROVE  /\ dlq \subseteq dlq'
         /\ disruptions > 0 => disruptions' > 0
<1>a. disruptions \in Nat
  BY TopicsAssumption DEF TypeInv, TypeOK, TopicsTypeOK
<1>1. disruptions' = disruptions \/ disruptions' = disruptions + 1
  BY ZenonT(60) DEF Next, vars, topicVars, DispatcherNext, Handle, Fetch, ToDLQ, Commit, Find,
                    InsertEvent, InsertRefused, Claim, Resolve, Send, Record, Abandon, Close,
                    Announce, Answer, StoreFails, Crash, Rebalance, WorkerNext, Work, PollDue,
                    Requeue, Schedule, Exhaust, DeadLetter, Reclaim, CrashWorker, ReplayNext,
                    Serve, ReplayLookup, ReplayMark, ReplayPublish, ReplayInterrupted,
                    EnvironmentNext, PlatformPublish, MalformedMessage, RetryTimePasses, Disrupt
<1>2. dlq \subseteq dlq'
  BY DEF Next, vars, topicVars, DispatcherNext, Handle, Fetch, ToDLQ, Commit, Find, InsertEvent,
         InsertRefused, Claim, Resolve, Send, Record, Abandon, Close, Announce, Answer,
         StoreFails, Crash, Rebalance, WorkerNext, Work, PollDue, Requeue, Schedule, Exhaust,
         DeadLetter, Reclaim, CrashWorker, ReplayNext, Serve, ReplayLookup, ReplayMark,
         ReplayPublish, ReplayInterrupted, EnvironmentNext, PlatformPublish, MalformedMessage,
         RetryTimePasses
<1>3. QED BY <1>a, <1>1, <1>2

\* Nothing is taken from the log, and what stands in it stays where it is.
LEMMA LogKeeps ==
  ASSUME TypeInv, [Next]_vars, NEW p \in Partitions
  PROVE  /\ Len(log[p]) \in Nat /\ Len(log'[p]) >= Len(log[p])
         /\ \A i \in 1..Len(log[p]) : log'[p][i] = log[p][i] /\ log[p][i] \in Message
<1>a. TypeOK /\ log[p] \in Seq(Message) /\ Len(log[p]) \in Nat
  BY DEF TypeInv, TypeOK, TopicsTypeOK
<1>1. \/ log' = log
      \/ \E q \in Partitions, m \in Message : log' = [log EXCEPT ![q] = Append(@, m)]
  BY StepKinds, OtherHandlers, BystanderFrame DEF vars, topicVars
<1>2. CASE log' = log
  BY <1>a, <1>2
<1>3. CASE \E q \in Partitions, m \in Message : log' = [log EXCEPT ![q] = Append(@, m)]
  BY <1>a, <1>3, LogGrows
<1>4. QED BY <1>1, <1>2, <1>3

\* A message that was dealt with stays dealt with.
LEMMA HandledStays ==
  ASSUME TypeInv, [Next]_vars, NEW p \in Partitions, NEW i \in 1..Len(log[p]),
         Handled(p, i)
  PROVE  Handled(p, i)'
<1>1. log'[p][i] = log[p][i] /\ log[p][i] \in Message
  BY LogKeeps
<1>2. CASE log[p][i].event = Malformed
  BY <1>1, <1>2, Records DEF Handled
<1>3. CASE log[p][i].event # Malformed
  <2>1. PICK e \in Events : e = log[p][i].event
    BY <1>1, <1>3 DEF Message
  <2>2. Started(e)'
    BY <1>3, <2>1, Forward DEF Handled, Started
  <2>3. QED BY <1>1, <1>3, <2>1, <2>2 DEF Handled, Started
<1>4. QED BY <1>2, <1>3
-----------------------------------------------------------------------------
(* The handlers.                                                           *)

\* A handler that a step leaves alone knows afterwards what it knew before.
LEMMA HandlerStays ==
  ASSUME TypeInv, HandlersInv, [Next]_vars, NEW d \in Dispatchers,
         pc'[d] = pc[d], job'[d] = job[d], pc[d] # "idle" => EventOf(d)' = EventOf(d)
  PROVE  StageOK(d)' /\ BehindOK(d)'
<1>a. StageOK(d) /\ BehindOK(d)
  BY DEF HandlersInv
<1>b. PICK p \in Partitions : p = job[d].part
  BY JobFacts
<1>c. PICK n \in Nat : n = job[d].offset
  BY JobFacts
<1>d. /\ pc[d] # "idle" => n \in 1..Len(log[p])
      /\ pc[d] \notin {"idle", "poison", "commit"} => EventOf(d) \in Events
  BY <1>b, <1>c DEF TypeInv, HandlerOK
<1>e. Len(log[p]) \in Nat
  BY LogKeeps
<1>1. ASSUME pc[d] \notin {"idle", "poison", "commit"}
      PROVE  /\ Present(EventOf(d)) => Present(EventOf(d))'
             /\ Started(EventOf(d)) => Started(EventOf(d))'
  <2>1. PICK e \in Events : e = EventOf(d)
    BY <1>1, <1>d
  <2>2. EventOf(d)' = e
    BY <1>1, <2>1
  <2>3. (Present(e) => Present(e)') /\ (Started(e) => Started(e)')
    BY Forward
  <2>4. QED BY <2>1, <2>2, <2>3 DEF Present, Started, State
<1>2. pc[d] = "commit" => Handled(job[d].part, job[d].offset)'
  <2>1. SUFFICES ASSUME pc[d] = "commit" PROVE Handled(job[d].part, job[d].offset)'
    OBVIOUS
  <2>2. Handled(p, n) /\ n \in 1..Len(log[p])
    BY <1>a, <1>b, <1>c, <1>d, <2>1 DEF StageOK
  <2>3. Handled(p, n)'
    BY <2>2, HandledStays
  <2>4. job'[d].part = p /\ job'[d].offset = n
    BY <1>b, <1>c
  <2>5. QED BY <2>3, <2>4 DEF Handled
<1>3. StageOK(d)'
  BY <1>a, <1>1, <1>2 DEF StageOK, Owning
<1>4. ASSUME pc[d] # "idle", NEW i \in 1..(n - 1) PROVE Handled(p, i)'
  <2>1. Handled(p, i) /\ i \in 1..Len(log[p])
    BY <1>a, <1>b, <1>c, <1>d, <1>e, <1>4 DEF BehindOK
  <2>2. QED BY <2>1, HandledStays
<1>5. BehindOK(d)'
  <2>1. job'[d].part = p /\ job'[d].offset = n
    BY <1>b, <1>c
  <2>2. QED BY <1>4, <2>1 DEF BehindOK, Handled
<1>6. QED BY <1>3, <1>5

\* Between its fetch and its commit a handler goes on with the message it has.
LEMMA KeepsPlace ==
  ASSUME TypeInv, NEW d \in Dispatchers, Handle(d) \/ StoreFails(d),
         pc[d] \notin {"idle", "commit"}
  PROVE  /\ pc'[d] # "idle"
         /\ job'[d].part = job[d].part /\ job'[d].offset = job[d].offset
         /\ EventOf(d)' = EventOf(d)
         /\ UNCHANGED groupVars
<1> DEFINE Same == /\ pc'[d] # "idle"
                   /\ job'[d].part = job[d].part /\ job'[d].offset = job[d].offset
                   /\ EventOf(d)' = EventOf(d)
                   /\ UNCHANGED groupVars
<1>a. job[d] \in Job /\ pc \in [Dispatchers -> Step] /\ job \in [Dispatchers -> Job] /\ log' = log
  BY OtherHandlers DEF TypeInv, TypeOK, DispatcherTypeOK
<1>1. ASSUME NEW step, NEW held, Go(d, step, held), step # "idle", UNCHANGED groupVars
      PROVE  Same
  <2>1. job'[d] = [job[d] EXCEPT !.held = held] /\ pc'[d] = step
    BY <1>1, <1>a DEF Go
  <2>2. job'[d].part = job[d].part /\ job'[d].offset = job[d].offset
    BY <1>a, <2>1 DEF Job
  <2>3. EventOf(d)' = EventOf(d)
    BY <1>a, <2>2 DEF EventOf, MessageOf
  <2>4. QED BY <1>1, <2>1, <2>2, <2>3
<1>2. ~ \E p \in Partitions : Fetch(d, p)
  BY DEF Fetch
<1>3. ~Commit(d)
  BY DEF Commit
<1>4. CASE ToDLQ(d) \/ Find(d) \/ InsertRefused(d) \/ StoreFails(d) \/ Resolve(d) \/ Send(d)
  BY <1>4, <1>1 DEF ToDLQ, Find, InsertRefused, StoreFails, Resolve, Send, topicVars, groupVars
<1>5. CASE InsertEvent(d) \/ Claim(d) \/ Abandon(d) \/ Close(d)
  BY <1>5, <1>1 DEF InsertEvent, Claim, Abandon, Close, Answer
<1>6. CASE Record(d)
  <2>1. CASE Go(d, "find", "none")
    BY <1>6, <1>1, <2>1 DEF Record
  <2>2. CASE /\ pc' = [pc EXCEPT ![d] = "announce"]
             /\ job' = [job EXCEPT ![d].number = Len(attempts[EventOf(d)]) + 1]
    <3>1. job'[d].part = job[d].part /\ job'[d].offset = job[d].offset
      BY <1>a, <2>2 DEF Job
    <3>2. EventOf(d)' = EventOf(d)
      BY <1>a, <3>1 DEF EventOf, MessageOf
    <3>3. QED BY <1>6, <1>a, <2>2, <3>1, <3>2 DEF Record
  <2>3. QED BY <1>6, <2>1, <2>2 DEF Record
<1>7. CASE Announce(d)
  <2>1. job'[d].part = job[d].part /\ job'[d].offset = job[d].offset
    BY <1>7, <1>a DEF Announce, Job
  <2>2. EventOf(d)' = EventOf(d)
    BY <1>a, <2>1 DEF EventOf, MessageOf
  <2>3. QED BY <1>7, <1>a, <2>1, <2>2 DEF Announce
<1>8. QED BY <1>2, <1>3, <1>4, <1>5, <1>6, <1>7 DEF Handle

\* What d knows after its own step.
LEMMA HandlerMoves ==
  ASSUME TypeInv, HandlersInv, [Next]_vars, NEW d \in Dispatchers,
         Handle(d) \/ StoreFails(d) \/ Crash(d)
  PROVE  StageOK(d)'
<1>a. /\ StoreTypeOK /\ StageOK(d) /\ log' = log
      /\ pc \in [Dispatchers -> Step] /\ job \in [Dispatchers -> Job]
  BY OtherHandlers DEF TypeInv, TypeOK, DispatcherTypeOK, HandlersInv
<1>b. pc[d] \notin {"idle", "poison", "commit"} => EventOf(d) \in Events
  BY DEF TypeInv, HandlerOK
<1>c. pc'[d] \in {"idle", "find", "insert", "reread"} => StageOK(d)'
  BY DEF StageOK, Owning
<1>d. ASSUME NEW step, NEW held, Go(d, step, held)
      PROVE  pc'[d] = step /\ job'[d].held = held
  BY <1>a, <1>d, GoEffect
\* A handler that goes on with an event it keeps, started already.
<1>e. ASSUME pc[d] \notin {"idle", "poison", "commit"}, Started(EventOf(d)), pc'[d] # "idle",
             EventOf(d)' = EventOf(d), pc'[d] \notin {"poison", "claim", "commit"}
      PROVE  StageOK(d)'
  <2>1. PICK e \in Events : e = EventOf(d)
    BY <1>b, <1>e
  <2>2. Started(e)'
    BY <1>e, <2>1, Forward
  <2>3. Started(EventOf(d))'
    BY <1>e, <2>1, <2>2 DEF Started, State
  <2>4. QED BY <1>e, <2>3 DEF StageOK
\* A handler that commits: its message is dealt with.
<1>f. ASSUME pc[d] # "idle", pc'[d] = "commit", job'[d].part = job[d].part,
             job'[d].offset = job[d].offset, Handled(job[d].part, job[d].offset)
      PROVE  StageOK(d)'
  <2>a. PICK p \in Partitions : p = job[d].part
    BY JobFacts
  <2>b. PICK i \in 1..Len(log[p]) : i = job[d].offset
    BY <1>f, <2>a DEF TypeInv, HandlerOK
  <2>1. p = job[d].part /\ i = job[d].offset
    BY <2>a, <2>b
  <2>2. Handled(p, i)'
    BY <1>f, <2>1, HandledStays
  <2>3. Handled(job[d].part, job[d].offset)'
    BY <1>f, <2>1, <2>2 DEF Handled
  <2>4. QED BY <1>f, <2>3 DEF StageOK, Owning
<1>g. ASSUME pc[d] \notin {"idle", "poison", "commit"}, Started(EventOf(d))
      PROVE  Handled(job[d].part, job[d].offset)
  BY <1>b, <1>g, TopicsAssumption DEF Handled, Started, EventOf, MessageOf
<1>1. ASSUME NEW p \in Partitions, Fetch(d, p) PROVE StageOK(d)'
  <2>1. position[p] + 1 \in Nat /\ NoJob \in Job
    BY Constants DEF TypeInv, TypeOK, TopicsTypeOK
  <2>2. job'[d] = [NoJob EXCEPT !.part = p, !.offset = position[p] + 1]
    BY <1>1, <1>a DEF Fetch
  <2>3. job'[d].part = p /\ job'[d].offset = position[p] + 1
    BY <2>1, <2>2 DEF Job
  <2>4. EventOf(d)' = log[p][position[p] + 1].event
    BY <1>a, <2>3 DEF EventOf, MessageOf
  <2>5. pc'[d] = IF log[p][position[p] + 1].event = Malformed THEN "poison" ELSE "find"
    BY <1>1, <1>a DEF Fetch
  <2>6. QED BY <2>4, <2>5 DEF StageOK, Owning
<1>2. CASE ToDLQ(d)
  <2>1. /\ pc[d] = "poison" /\ pc'[d] = "commit" /\ EventOf(d) = Malformed
        /\ job'[d].part = job[d].part /\ job'[d].offset = job[d].offset
    BY <1>2, <1>a, <1>d, KeepsPlace DEF ToDLQ, Handle, StageOK
  <2>2. disruptions \in Nat
    BY TopicsAssumption DEF TypeInv, TypeOK, TopicsTypeOK
  <2>3. [part |-> job[d].part, offset |-> job[d].offset] \in dlq' \/ disruptions' > 0
    BY <1>2, <2>2 DEF ToDLQ, Disrupt
  <2>4. Handled(job[d].part, job[d].offset)'
    BY <1>a, <2>1, <2>3 DEF Handled, EventOf, MessageOf
  <2>5. QED BY <2>1, <2>4 DEF StageOK, Owning
<1>3. CASE Commit(d) \/ Crash(d)
  BY <1>3, <1>a, <1>c DEF Commit, Crash
<1>4. CASE Find(d)
  <2>1. /\ job'[d].part = job[d].part /\ job'[d].offset = job[d].offset
        /\ EventOf(d)' = EventOf(d) /\ pc[d] \notin {"idle", "poison", "commit"}
        /\ rows' = rows
    BY <1>4, KeepsPlace DEF Find, Handle, storeVars
  <2>2. CASE State(EventOf(d)) = "ABSENT" /\ Go(d, "insert", "none")
    BY <1>c, <1>d, <2>2
  <2>3. CASE CanBeDispatched(State(EventOf(d))) /\ Go(d, "claim", State(EventOf(d)))
    <3>1. pc'[d] = "claim" /\ job'[d].held = State(EventOf(d))
      BY <1>d, <2>3
    <3>2. State(EventOf(d))' = State(EventOf(d))
      BY <2>1 DEF State
    <3>3. QED BY <2>3, <3>1, <3>2 DEF StageOK, CanBeDispatched, Present, Started, Owning
  <2>4. CASE State(EventOf(d)) \notin {"ABSENT", "PENDING", "RETRYING"} /\ Go(d, "commit", "none")
    BY <1>d, <1>f, <1>g, <2>1, <2>4 DEF Started
  <2>5. QED BY <1>4, <2>2, <2>3, <2>4 DEF Find
<1>4a. CASE InsertRefused(d)
  BY <1>4a, <1>c, <1>d DEF InsertRefused
<1>5. CASE InsertEvent(d)
  <2>1. /\ EventOf(d)' = EventOf(d) /\ EventOf(d) \in Events /\ Insert(EventOf(d))
    BY <1>5, <1>b, KeepsPlace DEF InsertEvent, Handle
  <2>2. CASE State(EventOf(d)) = "ABSENT" /\ Go(d, "claim", "PENDING")
    <3>1. PICK e \in Events : e = EventOf(d)
      BY <2>1
    <3>2. State(e)' = "PENDING"
      BY <1>a, <2>1, <2>2, <3>1, StatementEffects
    <3>3. Present(EventOf(d))'
      BY <2>1, <3>1, <3>2 DEF Present, State
    <3>4. QED BY <1>d, <2>2, <3>3 DEF StageOK, Owning
  <2>3. CASE Go(d, "reread", "none") \/ Go(d, "find", "none")
    BY <1>c, <1>d, <2>3
  <2>4. QED BY <1>5, <2>2, <2>3 DEF InsertEvent, Answer
<1>6. CASE Claim(d)
  <2>1. /\ job'[d].part = job[d].part /\ job'[d].offset = job[d].offset
        /\ EventOf(d)' = EventOf(d) /\ EventOf(d) \in Events
        /\ ClaimForDelivery(EventOf(d), job[d].held)
        /\ pc[d] = "claim" /\ Present(EventOf(d))
        /\ job[d].held \in {"PENDING", "RETRYING"}
        /\ job[d].held = "RETRYING" => Started(EventOf(d))
    BY <1>6, <1>a, <1>b, KeepsPlace DEF Claim, Handle, StageOK
  <2>2. CASE State(EventOf(d)) = job[d].held /\ Go(d, "resolve", "none")
    <3>1. PICK e \in Events : e = EventOf(d)
      BY <2>1
    <3>2. Moves(e, {job[d].held}, "DELIVERING")
      BY <1>a, <2>1, <3>1, StatementEffects
    <3>3. State(e)' = "DELIVERING"
      BY <2>2, <3>1, <3>2 DEF Moves
    <3>4. Started(EventOf(d))'
      BY <2>1, <3>1, <3>3 DEF Started, State
    <3>5. QED BY <1>d, <2>2, <3>4 DEF StageOK
  <2>3. CASE State(EventOf(d)) # job[d].held /\ Go(d, "commit", "none")
    BY <1>d, <1>f, <1>g, <2>1, <2>3 DEF Present, Started
  <2>4. CASE Go(d, "find", "none")
    BY <1>c, <1>d, <2>4
  <2>5. QED BY <1>6, <2>2, <2>3, <2>4 DEF Claim, Answer, Matches
<1>7. CASE Resolve(d) \/ Send(d) \/ Record(d) \/ Abandon(d) \/ Close(d)
  <2>1. /\ pc[d] \in Owning /\ Started(EventOf(d)) /\ EventOf(d)' = EventOf(d)
        /\ pc'[d] # "idle"
    BY <1>7, <1>a, KeepsPlace
       DEF Resolve, Send, Record, Abandon, Close, Handle, Owning, StageOK
  <2>2. pc'[d] \in {"send", "close", "abandon", "record", "announce", "find"}
    BY <1>7, <1>a, <1>d DEF Resolve, Send, Record, Abandon, Close, Answer
  <2>3. QED BY <1>e, <2>1, <2>2 DEF Owning
<1>8. CASE Announce(d)
  <2>1. /\ pc[d] = "announce" /\ pc'[d] = "commit" /\ Started(EventOf(d))
        /\ job'[d].part = job[d].part /\ job'[d].offset = job[d].offset
    BY <1>8, <1>a, KeepsPlace DEF Announce, Handle, StageOK
  <2>2. QED BY <1>f, <1>g, <2>1
<1>9. CASE StoreFails(d)
  BY <1>9, <1>c, <1>d DEF StoreFails
<1>10. QED
  BY <1>1, <1>2, <1>3, <1>4, <1>4a, <1>5, <1>6, <1>7, <1>8, <1>9 DEF Handle

\* What d has behind it after its own step.
LEMMA HandlerBehind ==
  ASSUME TypeInv, ConsumerInv, [Next]_vars, NEW d \in Dispatchers,
         Handle(d) \/ StoreFails(d) \/ Crash(d)
  PROVE  BehindOK(d)'
<1>a. /\ BehindOK(d) /\ pc \in [Dispatchers -> Step] /\ job \in [Dispatchers -> Job]
  BY DEF TypeInv, TypeOK, DispatcherTypeOK, ConsumerInv, HandlersInv
<1>1. ASSUME NEW p \in Partitions, Fetch(d, p) PROVE BehindOK(d)'
  <2>1. position[p] \in Nat /\ position[p] + 1 \in Nat /\ NoJob \in Job
    BY Constants DEF TypeInv, TypeOK, TopicsTypeOK
  <2>2. job'[d] = [NoJob EXCEPT !.part = p, !.offset = position[p] + 1]
    BY <1>1, <1>a DEF Fetch
  <2>3. job'[d].part = p /\ job'[d].offset = position[p] + 1
    BY <2>1, <2>2 DEF Job
  <2>4. ASSUME NEW i \in 1..position[p] PROVE Handled(p, i)'
    <3>1. Handled(p, i) /\ position[p] <= Len(log[p])
      BY <1>1 DEF Fetch, ConsumerInv, PositionInv, At
    <3>2. i \in 1..Len(log[p])
      BY <2>1, <3>1, LogKeeps
    <3>3. QED BY <3>1, <3>2, HandledStays DEF ConsumerInv
  <2>5. \A i \in 1..(job'[d].offset - 1) : i \in 1..position[p]
    BY <2>1, <2>3
  <2>6. QED BY <2>3, <2>4, <2>5 DEF BehindOK, Handled
<1>2. CASE Commit(d) \/ Crash(d)
  BY <1>2, <1>a DEF Commit, Crash, BehindOK
<1>3. CASE (Handle(d) \/ StoreFails(d)) /\ pc[d] \notin {"idle", "commit"}
  <2>1. PICK p \in Partitions : p = job[d].part
    BY JobFacts
  <2>2. PICK n \in 1..Len(log[p]) : n = job[d].offset
    BY <1>3, <2>1 DEF TypeInv, HandlerOK
  <2>3. job'[d].part = p /\ job'[d].offset = n /\ Len(log[p]) \in Nat
    BY <1>3, <2>1, <2>2, KeepsPlace, LogKeeps
  <2>4. ASSUME NEW i \in 1..(n - 1) PROVE Handled(p, i)'
    <3>1. Handled(p, i) /\ i \in 1..Len(log[p])
      BY <1>a, <1>3, <2>1, <2>2, <2>3 DEF BehindOK
    <3>2. QED BY <3>1, HandledStays
  <2>5. QED BY <2>3, <2>4 DEF BehindOK, Handled
<1>4. QED
  BY <1>1, <1>2, <1>3
     DEF Handle, ToDLQ, Find, InsertEvent, InsertRefused, Claim, Resolve, Send, Record, Abandon,
         Close, Announce, StoreFails

-----------------------------------------------------------------------------
(* The group's offsets.                                                    *)

\* What lies behind a committed offset was dealt with, when a step leaves the offset alone.
LEMMA CommittedStays ==
  ASSUME TypeInv, ConsumerInv, [Next]_vars, NEW p \in Partitions,
         NEW i \in 1..committed[p]
  PROVE  Handled(p, i)'
<1>1. Handled(p, i) /\ committed[p] <= Len(log[p]) /\ committed[p] \in Nat
  BY DEF ConsumerInv, CommitInv, NoMessageSkipped, TypeInv, TypeOK, TopicsTypeOK
<1>2. i \in 1..Len(log[p])
  BY <1>1, LogKeeps
<1>3. QED BY <1>1, <1>2, HandledStays

\* A commit passes only what was dealt with, by whomever.
LEMMA OffsetsAdvance ==
  ASSUME TypeInv, ConsumerInv, [Next]_vars
  PROVE  CommitInv' /\ NoMessageSkipped'
<1>a. \A p \in Partitions : committed[p] \in Nat /\ committed[p] <= Len(log[p])
  BY DEF ConsumerInv, CommitInv, TypeInv, TypeOK, TopicsTypeOK
<1>1. CASE UNCHANGED committed
  <2>1. CommitInv'
    <3>1. ASSUME NEW p \in Partitions PROVE committed'[p] <= Len(log'[p])
      <4>1. Len(log[p]) \in Nat /\ Len(log'[p]) >= Len(log[p]) /\ committed'[p] = committed[p]
        BY <1>1, LogKeeps
      <4>2. Len(log'[p]) \in Int
        BY NextTypeInv DEF TypeInv, TypeOK, TopicsTypeOK
      <4>3. QED BY <1>a, <4>1, <4>2
    <3>2. QED BY <3>1 DEF CommitInv
  <2>2. NoMessageSkipped'
    BY <1>1, CommittedStays DEF NoMessageSkipped
  <2>3. QED BY <2>1, <2>2
<1>2. ASSUME NEW d \in Dispatchers, Commit(d), ~UNCHANGED committed
      PROVE  CommitInv' /\ NoMessageSkipped'
  <2>1. PICK q \in Partitions : q = job[d].part
    BY JobFacts
  <2>2. PICK n \in 1..Len(log[q]) : n = job[d].offset
    BY <1>2, <2>1 DEF TypeInv, HandlerOK, Commit
  <2>3. committed' = [committed EXCEPT ![q] = n] /\ log' = log
    BY <1>2, <2>1, <2>2 DEF Commit
  <2>4. committed \in [Partitions -> Nat] /\ Len(log[q]) \in Nat
    BY LogKeeps DEF TypeInv, TypeOK, TopicsTypeOK
  <2>5. CommitInv'
    BY <1>a, <2>3, <2>4 DEF CommitInv
  <2>6. ASSUME NEW i \in 1..n PROVE Handled(q, i)'
    <3>1. CASE i = n
      <4>1. Handled(q, n)
        BY <1>2, <2>1, <2>2 DEF Commit, ConsumerInv, HandlersInv, StageOK
      <4>2. QED BY <3>1, <4>1, HandledStays
    <3>2. CASE i # n
      <4>1. i \in 1..(n - 1) /\ i \in 1..Len(log[q])
        BY <2>4, <3>2
      <4>2. Handled(q, i)
        BY <1>2, <2>1, <2>2, <4>1 DEF Commit, ConsumerInv, HandlersInv, BehindOK
      <4>3. QED BY <4>1, <4>2, HandledStays
    <3>3. QED BY <3>1, <3>2
  <2>7. ASSUME NEW p \in Partitions, NEW i \in 1..committed'[p] PROVE Handled(p, i)'
    <3>1. CASE p = q
      BY <2>3, <2>4, <2>6, <2>7, <3>1
    <3>2. CASE p # q
      BY <2>3, <2>4, <2>7, <3>2, CommittedStays
    <3>3. QED BY <3>1, <3>2
  <2>8. NoMessageSkipped'
    BY <2>7 DEF NoMessageSkipped
  <2>9. QED BY <2>5, <2>8
<1>3. (\E d \in Dispatchers : Commit(d)) \/ UNCHANGED committed
  BY DEF Next, vars, topicVars, groupVars, DispatcherNext, Handle, Fetch, ToDLQ, Find,
         InsertEvent, InsertRefused, Claim, Resolve, Send, Record, Abandon, Close, Announce,
         StoreFails, Crash, Rebalance, WorkerNext, Work, PollDue, Requeue, Schedule, Exhaust,
         DeadLetter, Reclaim, CrashWorker, ReplayNext, Serve, ReplayLookup, ReplayMark,
         ReplayPublish, ReplayInterrupted, EnvironmentNext, PlatformPublish, MalformedMessage,
         RetryTimePasses
<1>4. QED BY <1>1, <1>2, <1>3

\* What a step does to the fetch positions: a fetch moves one on, a restart or a
\* reassignment moves some back to the committed offset.
LEMMA PositionSteps ==
  ASSUME TypeInv, [Next]_vars
  PROVE  \/ UNCHANGED <<position, owner>>
         \/ \E d \in Dispatchers, p \in Partitions : Fetch(d, p)
         \/ \E d \in Dispatchers : Crash(d)
         \/ \E d \in Dispatchers, p \in Partitions : Rebalance(d, p)
BY DEF Next, vars, topicVars, groupVars, DispatcherNext, Handle, ToDLQ, Commit, Find,
       InsertEvent, InsertRefused, Claim, Resolve, Send, Record, Abandon, Close, Announce,
       StoreFails, WorkerNext, Work, PollDue, Requeue, Schedule, Exhaust, DeadLetter, Reclaim,
       CrashWorker, ReplayNext, Serve, ReplayLookup, ReplayMark, ReplayPublish, ReplayInterrupted,
       EnvironmentNext, PlatformPublish, MalformedMessage, RetryTimePasses

\* A handler leaves the message it is at only when the message was dealt with, unless it
\* crashes.
LEMMA StaysAt ==
  ASSUME TypeInv, ConsumerInv, [Next]_vars, NEW d \in Dispatchers, ~Crash(d),
         NEW p \in Partitions, NEW i \in 1..Len(log[p]), At(d, p, i)
  PROVE  At(d, p, i)' \/ Handled(p, i)'
<1>1. CASE pc'[d] = pc[d] /\ job'[d] = job[d]
  BY <1>1 DEF At
<1>2. CASE (Handle(d) \/ StoreFails(d)) /\ pc[d] # "commit"
  BY <1>2, KeepsPlace DEF At
<1>3. CASE pc[d] = "commit"
  <2>1. Handled(p, i)
    BY <1>3 DEF At, ConsumerInv, HandlersInv, StageOK
  <2>2. QED BY <2>1, HandledStays
<1>4. ASSUME NEW x \in Dispatchers \ {d}, Handle(x) \/ StoreFails(x) \/ Crash(x)
      PROVE  pc'[d] = pc[d] /\ job'[d] = job[d]
  BY <1>4, OtherHandlers
<1>5. Bystander => pc'[d] = pc[d] /\ job'[d] = job[d]
  BY BystanderFrame
<1>6. QED BY <1>1, <1>2, <1>3, <1>4, <1>5, StepKinds DEF vars, dispatcherVars

\* The message an owner has fetched past was dealt with, or its handler is at it.
LEMMA PositionsAdvance ==
  ASSUME TypeInv, ConsumerInv, [Next]_vars
  PROVE  PositionInv'
<1>a. /\ log \in [Partitions -> Seq(Message)] /\ position \in [Partitions -> Nat]
      /\ committed \in [Partitions -> Nat] /\ owner \in [Partitions -> Dispatchers]
      /\ log' \in [Partitions -> Seq(Message)]
  BY NextTypeInv DEF TypeInv, TypeOK, TopicsTypeOK
<1>b. \A p \in Partitions : /\ position[p] <= Len(log[p]) /\ committed[p] <= Len(log[p])
                             /\ Len(log[p]) \in Nat /\ Len(log'[p]) \in Nat
                             /\ Len(log'[p]) >= Len(log[p])
  BY <1>a, LogKeeps DEF ConsumerInv, PositionInv, CommitInv
\* Partitions whose position and owner stay.
<1>c. ASSUME NEW p \in Partitions, position'[p] = position[p], owner'[p] = owner[p],
             ~Crash(owner[p])
      PROVE  /\ position'[p] <= Len(log'[p])
             /\ \A i \in 1..position'[p] : Handled(p, i)' \/ At(owner[p], p, i)'
  <2>1. position'[p] <= Len(log'[p])
    BY <1>a, <1>b, <1>c
  <2>2. ASSUME NEW i \in 1..position[p] PROVE Handled(p, i)' \/ At(owner[p], p, i)'
    <3>1. i \in 1..Len(log[p])
      BY <1>a, <1>b
    <3>2. PICK d \in Dispatchers : d = owner[p]
      BY <1>a
    <3>3. CASE Handled(p, i)
      BY <3>1, <3>3, HandledStays
    <3>4. CASE At(d, p, i)
      <4>1. At(d, p, i)' \/ Handled(p, i)'
        BY <1>c, <3>1, <3>2, <3>4, StaysAt
      <4>2. QED BY <3>2, <4>1, <1>c DEF At
    <3>5. QED BY <3>2, <3>3, <3>4 DEF ConsumerInv, PositionInv
  <2>3. QED BY <1>c, <2>1, <2>2
\* Partitions whose owner resumes at the committed offset.
<1>d. ASSUME NEW p \in Partitions, position'[p] = committed[p]
      PROVE  /\ position'[p] <= Len(log'[p])
             /\ \A i \in 1..position'[p] : Handled(p, i)'
  BY <1>a, <1>b, <1>d, CommittedStays
<1>1. CASE UNCHANGED <<position, owner>> /\ ~ \E d \in Dispatchers : Crash(d)
  BY <1>1, <1>a, <1>c DEF PositionInv, At
<1>2. ASSUME NEW d \in Dispatchers, NEW q \in Partitions, Fetch(d, q) PROVE PositionInv'
  <2>a. \A x \in Dispatchers : ~Crash(x)
    BY <1>2, TopicsAssumption DEF Fetch, Crash, Disrupt, TypeInv, TypeOK, TopicsTypeOK
  <2>1. ASSUME NEW p \in Partitions
        PROVE  /\ position'[p] <= Len(log'[p])
               /\ \A i \in 1..position'[p] : Handled(p, i)' \/ At(owner[p], p, i)'
    <3>1. CASE p # q
      BY <1>2, <1>a, <1>c, <2>a, <3>1 DEF Fetch, At
    <3>2. CASE p = q
      <4>1. position'[q] = position[q] + 1 /\ owner'[q] = d /\ position[q] < Len(log[q])
        BY <1>2, <1>a DEF Fetch
      <4>2. position'[q] <= Len(log'[q])
        BY <1>a, <1>b, <4>1
      <4>3. ASSUME NEW i \in 1..(position[q] + 1) PROVE Handled(q, i)' \/ At(d, q, i)'
        <5>1. CASE i \in 1..position[q]
          <6>1. Handled(q, i)
            BY <1>2, <5>1 DEF Fetch, ConsumerInv, PositionInv, At
          <6>2. i \in 1..Len(log[q])
            BY <1>a, <1>b, <5>1
          <6>3. QED BY <6>1, <6>2, HandledStays
        <5>2. CASE i = position[q] + 1
          <6>1. job' = [job EXCEPT ![d] = [NoJob EXCEPT !.part = q, !.offset = position[q] + 1]]
            BY <1>2 DEF Fetch
          <6>2. job \in [Dispatchers -> Job] /\ pc \in [Dispatchers -> Step] /\ NoJob \in Job
            BY Constants DEF TypeInv, TypeOK, DispatcherTypeOK
          <6>3. job'[d].part = q /\ job'[d].offset = position[q] + 1
            BY <6>1, <6>2 DEF Job
          <6>4. pc'[d] # "idle"
            BY <1>2, <6>2 DEF Fetch
          <6>5. QED BY <5>2, <6>3, <6>4 DEF At
        <5>3. QED BY <1>a, <5>1, <5>2
      <4>4. QED BY <3>2, <4>1, <4>2, <4>3 DEF At
    <3>3. QED BY <3>1, <3>2
  <2>2. QED BY <2>1 DEF PositionInv, At
<1>3. ASSUME NEW d \in Dispatchers, Crash(d) PROVE PositionInv'
  <2>1. ASSUME NEW p \in Partitions
        PROVE  /\ position'[p] <= Len(log'[p])
               /\ \A i \in 1..position'[p] : Handled(p, i)' \/ At(owner[p], p, i)'
    <3>1. CASE owner[p] = d
      BY <1>3, <1>d, <3>1 DEF Crash
    <3>2. CASE owner[p] # d
      <4>1. position'[p] = position[p] /\ owner'[p] = owner[p] /\ owner[p] \in Dispatchers
        BY <1>3, <1>a, <3>2 DEF Crash
      <4>2. pc'[owner[p]] = pc[owner[p]] /\ job'[owner[p]] = job[owner[p]]
        BY <1>3, <3>2, <4>1, OtherHandlers
      <4>3. ASSUME NEW i \in 1..position[p] PROVE Handled(p, i)' \/ At(owner[p], p, i)'
        <5>1. i \in 1..Len(log[p])
          BY <1>a, <1>b
        <5>2. Handled(p, i) \/ At(owner[p], p, i)
          BY DEF ConsumerInv, PositionInv
        <5>3. QED BY <4>1, <4>2, <5>1, <5>2, HandledStays DEF At
      <4>4. QED BY <1>a, <1>b, <4>1, <4>3
    <3>3. QED BY <3>1, <3>2
  <2>2. QED BY <2>1 DEF PositionInv, At
<1>4. ASSUME NEW d \in Dispatchers, NEW q \in Partitions, Rebalance(d, q) PROVE PositionInv'
  <2>1. pc' = pc /\ job' = job
    BY <1>4 DEF Rebalance, dispatcherVars
  <2>2. ASSUME NEW p \in Partitions
        PROVE  /\ position'[p] <= Len(log'[p])
               /\ \A i \in 1..position'[p] : Handled(p, i)' \/ At(owner[p], p, i)'
    <3>1. CASE p = q
      BY <1>4, <1>a, <1>d, <3>1 DEF Rebalance
    <3>2. CASE p # q
      <4>1. position'[p] = position[p] /\ owner'[p] = owner[p]
        BY <1>4, <1>a, <3>2 DEF Rebalance
      <4>2. ASSUME NEW i \in 1..position[p] PROVE Handled(p, i)' \/ At(owner[p], p, i)'
        <5>1. i \in 1..Len(log[p])
          BY <1>a, <1>b
        <5>2. Handled(p, i) \/ At(owner[p], p, i)
          BY DEF ConsumerInv, PositionInv
        <5>3. QED BY <2>1, <4>1, <5>1, <5>2, HandledStays DEF At
      <4>3. QED BY <1>a, <1>b, <4>1, <4>2
    <3>3. QED BY <3>1, <3>2
  <2>3. QED BY <2>2 DEF PositionInv, At
<1>5. QED BY <1>1, <1>2, <1>3, <1>4, PositionSteps

\* The committed offset never passes a message nobody dealt with.
THEOREM NoMessageIsSkipped == Spec => []NoMessageSkipped
<1>1. Init => ConsumerInv
  <2> SUFFICES ASSUME Init PROVE ConsumerInv
    OBVIOUS
  <2>1. \A d \in Dispatchers : pc[d] = "idle"
    BY DEF Init, DispatcherInit
  <2>2. HandlersInv
    BY <2>1 DEF HandlersInv, StageOK, BehindOK, Owning
  <2>3. \A p \in Partitions : position[p] = 0 /\ committed[p] = 0 /\ Len(log[p]) = 0
    BY DEF Init, TopicsInit
  <2>4. PositionInv /\ CommitInv /\ NoMessageSkipped
    BY <2>3 DEF PositionInv, CommitInv, NoMessageSkipped
  <2>5. QED BY <2>2, <2>4 DEF ConsumerInv
<1>2. TypeInv /\ ConsumerInv /\ [Next]_vars => ConsumerInv'
  <2> SUFFICES ASSUME TypeInv, ConsumerInv, [Next]_vars PROVE ConsumerInv'
    OBVIOUS
  <2>1. ASSUME NEW d \in Dispatchers PROVE StageOK(d)' /\ BehindOK(d)'
    <3>1. CASE Handle(d) \/ StoreFails(d) \/ Crash(d)
      BY <3>1, HandlerMoves, HandlerBehind DEF ConsumerInv
    <3>2. CASE \E x \in Dispatchers \ {d} : Handle(x) \/ StoreFails(x) \/ Crash(x)
      BY <3>2, OtherHandlers, HandlerStays DEF ConsumerInv
    <3>3. CASE Bystander
      BY <3>3, BystanderFrame, HandlerStays DEF ConsumerInv
    <3>4. CASE UNCHANGED vars
      BY <3>4, HandlerStays
         DEF ConsumerInv, vars, dispatcherVars, topicVars, EventOf, MessageOf
    <3>5. QED BY <3>1, <3>2, <3>3, <3>4, StepKinds
  <2>2. QED BY <2>1, PositionsAdvance, OffsetsAdvance DEF ConsumerInv, HandlersInv
<1>3. Spec => []TypeInv
  BY InitTypeInv, NextTypeInv, PTL DEF Spec
<1>4. ConsumerInv => NoMessageSkipped
  BY DEF ConsumerInv
<1>5. QED BY <1>1, <1>2, <1>3, <1>4, PTL DEF Spec

-----------------------------------------------------------------------------
(* What the client's webhook and the monitor are told, for every value of  *)
(* the constants: how often an event is accepted, and that a result which  *)
(* is announced is on the audit trail.                                     *)

\* The audit trail only grows.
LEMMA AttemptsGrow ==
  ASSUME TypeInv, [Next]_vars, NEW e \in Events
  PROVE  /\ Len(attempts[e]) \in Nat /\ Len(attempts'[e]) >= Len(attempts[e])
         /\ \A i \in 1..Len(attempts[e]) : attempts'[e][i] = attempts[e][i]
<1>a. /\ attempts[e] \in Seq(DeliveryStatus) /\ Len(attempts[e]) \in Nat
      /\ attempts \in [Events -> Seq(DeliveryStatus)]
  BY DEF TypeInv, TypeOK, StoreTypeOK
<1>1. CASE UNCHANGED attempts
  BY <1>a, <1>1
<1>2. ASSUME NEW d \in Dispatchers, Record(d)
      PROVE  /\ Len(attempts'[e]) >= Len(attempts[e])
             /\ \A i \in 1..Len(attempts[e]) : attempts'[e][i] = attempts[e][i]
  <2>1. attempts' = [attempts EXCEPT ![EventOf(d)] = Append(@, job[d].held)]
    BY <1>2 DEF Record, RecordOutcome
  <2>2. job[d].held \in DeliveryStatus
    BY <1>2 DEF Record, TypeInv, HandlerOK
  <2>3. QED BY <1>a, <2>1, <2>2
<1>3. (\E d \in Dispatchers : Record(d)) \/ UNCHANGED attempts
  BY BystanderStatements, StepKinds
     DEF vars, storeVars, Handle, Fetch, ToDLQ, Commit, Find, InsertEvent, InsertRefused, Claim,
         Resolve, Send, Abandon, Close, Announce, StoreFails, Crash, Insert, ClaimForDelivery,
         UpdateState, ScheduleNext, Lapse, MarkForReplay, MarkFailed, ClaimDue, ReclaimStalled
<1>4. QED BY <1>a, <1>1, <1>2, <1>3

-----------------------------------------------------------------------------
(* The results.                                                            *)

\* The result a handler is about to announce, if it carries an attempt's number, is that
\* attempt's; no other handler carries one.
NumberOK(d) ==
  /\ pc[d] # "announce" => job[d].number = 0
  /\ pc[d] = "announce" /\ job[d].number > 0 =>
       /\ job[d].number <= Len(attempts[EventOf(d)])
       /\ attempts[EventOf(d)][job[d].number] = job[d].held

ResultInv == ResultsAreRecorded /\ \A d \in Dispatchers : NumberOK(d)

\* A handler that keeps its place, its stage and its number keeps it right.
LEMMA NumberStays ==
  ASSUME TypeInv, ResultInv, [Next]_vars, NEW d \in Dispatchers,
         pc'[d] = pc[d], job'[d] = job[d], pc[d] # "idle" => EventOf(d)' = EventOf(d)
  PROVE  NumberOK(d)'
<1>1. CASE pc[d] # "announce"
  BY <1>1 DEF ResultInv, NumberOK
<1>2. CASE pc[d] = "announce"
  <2>1. PICK e \in Events : e = EventOf(d)
    BY <1>2 DEF TypeInv, HandlerOK
  <2>2. EventOf(d)' = e
    BY <1>2, <2>1
  <2>3. job[d].number \in Nat
    BY JobFacts
  <2>4. ASSUME job[d].number > 0
        PROVE  job[d].number <= Len(attempts'[e]) /\ attempts'[e][job[d].number] = job[d].held
    <3>1. job[d].number <= Len(attempts[e]) /\ attempts[e][job[d].number] = job[d].held
      BY <1>2, <2>1, <2>4 DEF ResultInv, NumberOK
    <3>2. Len(attempts'[e]) \in Nat
      BY NextTypeInv DEF TypeInv, TypeOK, StoreTypeOK
    <3>3. QED BY <2>3, <2>4, <3>1, <3>2, AttemptsGrow
  <2>5. QED BY <1>2, <2>2, <2>4 DEF NumberOK
<1>3. QED BY <1>1, <1>2

\* So does the handler's own step.
LEMMA NumberMoves ==
  ASSUME TypeInv, ResultInv, [Next]_vars, NEW d \in Dispatchers,
         Handle(d) \/ StoreFails(d) \/ Crash(d)
  PROVE  NumberOK(d)'
<1>a. /\ NumberOK(d) /\ job[d] \in Job /\ NoJob \in Job /\ NoJob.number = 0
      /\ pc \in [Dispatchers -> Step] /\ job \in [Dispatchers -> Job]
  BY Constants DEF ResultInv, TypeInv, TypeOK, DispatcherTypeOK, NoJob
<1>1. ASSUME NEW step, NEW held, Go(d, step, held), pc[d] # "announce" PROVE NumberOK(d)'
  <2>1. job'[d] = [job[d] EXCEPT !.held = held]
    BY <1>1, <1>a DEF Go
  <2>2. job'[d].number = 0
    BY <1>1, <1>a, <2>1 DEF NumberOK, Job
  <2>3. QED BY <2>2 DEF NumberOK
<1>2. ASSUME NEW p \in Partitions, Fetch(d, p) PROVE NumberOK(d)'
  <2>1. job'[d] = [NoJob EXCEPT !.part = p, !.offset = position[p] + 1]
    BY <1>2, <1>a DEF Fetch
  <2>2. job'[d].number = 0
    BY <1>a, <2>1 DEF Job
  <2>3. QED BY <2>2 DEF NumberOK
<1>3. CASE Commit(d) \/ Crash(d)
  BY <1>3, <1>a DEF Commit, Crash, NumberOK
<1>4. CASE ToDLQ(d) \/ Find(d) \/ InsertRefused(d) \/ StoreFails(d) \/ Resolve(d) \/ Send(d)
  BY <1>4, <1>1 DEF ToDLQ, Find, InsertRefused, StoreFails, Resolve, Send
<1>5. CASE InsertEvent(d) \/ Claim(d) \/ Abandon(d) \/ Close(d)
  BY <1>5, <1>1 DEF InsertEvent, Claim, Abandon, Close, Answer
<1>6. CASE Record(d)
  <2>1. CASE Go(d, "find", "none")
    BY <1>6, <1>1, <2>1 DEF Record
  <2>2. CASE /\ pc' = [pc EXCEPT ![d] = "announce"]
             /\ job' = [job EXCEPT ![d].number = Len(attempts[EventOf(d)]) + 1]
    <3>1. EventOf(d)' = EventOf(d)
      BY <1>6, KeepsPlace DEF Handle, Record
    <3>2. PICK e \in Events : e = EventOf(d)
      BY <1>6 DEF Record, TypeInv, HandlerOK
    <3>3. attempts' = [attempts EXCEPT ![e] = Append(@, job[d].held)] /\ job[d].held \in DeliveryStatus
      BY <1>6, <3>2 DEF Record, RecordOutcome, TypeInv, HandlerOK
    <3>4. attempts \in [Events -> Seq(DeliveryStatus)]
      BY DEF TypeInv, TypeOK, StoreTypeOK
    <3>5. Len(attempts'[e]) = Len(attempts[e]) + 1 /\ attempts'[e][Len(attempts[e]) + 1] = job[d].held
      BY <3>2, <3>3, <3>4
    <3>6. job'[d].number = Len(attempts[e]) + 1 /\ job'[d].held = job[d].held
      BY <1>a, <2>2, <3>2 DEF Job
    <3>7. pc'[d] = "announce"
      BY <1>a, <2>2
    <3>8. Len(attempts[e]) \in Nat
      BY <3>2, <3>4
    <3>9. QED BY <3>1, <3>2, <3>5, <3>6, <3>7, <3>8 DEF NumberOK
  <2>3. QED BY <1>6, <2>1, <2>2 DEF Record
<1>7. CASE Announce(d)
  <2>1. job'[d].number = 0
    BY <1>7, <1>a DEF Announce, Job
  <2>2. QED BY <2>1 DEF NumberOK
<1>8. QED BY <1>2, <1>3, <1>4, <1>5, <1>6, <1>7 DEF Handle

\* The monitor is never told of a delivery the audit trail does not have.
THEOREM ResultsAreOnRecord == Spec => []ResultsAreRecorded
<1>1. Init => ResultInv
  <2> SUFFICES ASSUME Init PROVE ResultInv
    OBVIOUS
  <2>1. \A d \in Dispatchers : pc[d] = "idle" /\ job[d].number = 0
    BY DEF Init, DispatcherInit, NoJob
  <2>2. QED BY <2>1 DEF Init, TopicsInit, ResultInv, NumberOK, ResultsAreRecorded
<1>2. TypeInv /\ ResultInv /\ [Next]_vars => ResultInv'
  <2> SUFFICES ASSUME TypeInv, ResultInv, [Next]_vars PROVE ResultInv'
    OBVIOUS
  <2>1. ASSUME NEW d \in Dispatchers PROVE NumberOK(d)'
    <3>1. CASE Handle(d) \/ StoreFails(d) \/ Crash(d)
      BY <3>1, NumberMoves
    <3>2. CASE \E x \in Dispatchers \ {d} : Handle(x) \/ StoreFails(x) \/ Crash(x)
      BY <3>2, OtherHandlers, NumberStays
    <3>3. CASE Bystander
      BY <3>3, BystanderFrame, NumberStays
    <3>4. CASE UNCHANGED vars
      BY <3>4, NumberStays DEF vars, dispatcherVars, topicVars, EventOf, MessageOf
    <3>5. QED BY <3>1, <3>2, <3>3, <3>4, StepKinds
  <2>2. ASSUME NEW e \in Events, NEW n \in Nat, n > 0, n <= Len(attempts[e])
        PROVE  n <= Len(attempts'[e]) /\ attempts'[e][n] = attempts[e][n]
    <3>1. Len(attempts'[e]) \in Nat
      BY NextTypeInv DEF TypeInv, TypeOK, StoreTypeOK
    <3>2. QED BY <2>2, <3>1, AttemptsGrow
  <2>a. results \subseteq [event : Events, status : DeliveryStatus, number : Nat]
    BY DEF TypeInv, TypeOK, TopicsTypeOK
  <2>3. ASSUME UNCHANGED results PROVE ResultsAreRecorded'
    <3>1. ASSUME NEW r \in results, r.number > 0
          PROVE  r.number <= Len(attempts'[r.event]) /\ attempts'[r.event][r.number] = r.status
      <4>1. r.event \in Events /\ r.number \in Nat
        BY <2>a
      <4>2. r.number <= Len(attempts[r.event]) /\ attempts[r.event][r.number] = r.status
        BY <3>1 DEF ResultInv, ResultsAreRecorded
      <4>3. QED BY <2>2, <3>1, <4>1, <4>2
    <3>2. QED BY <2>3, <3>1 DEF ResultsAreRecorded
  <2>4. ASSUME NEW d \in Dispatchers, Announce(d) PROVE ResultsAreRecorded'
    <3>1. UNCHANGED attempts /\ pc[d] = "announce" /\ NumberOK(d)
      BY <2>4 DEF Announce, storeVars, ResultInv
    <3>2. \A r \in results' : r \in results \/ r = [event |-> EventOf(d), status |-> job[d].held,
                                                    number |-> job[d].number]
      BY <2>4 DEF Announce
    <3>3. QED BY <3>1, <3>2 DEF NumberOK, ResultInv, ResultsAreRecorded
  <2>5. (\E d \in Dispatchers : Announce(d)) \/ UNCHANGED results
    BY DEF Next, vars, topicVars, groupVars, DispatcherNext, Handle, Fetch, ToDLQ, Commit, Find,
           InsertEvent, InsertRefused, Claim, Resolve, Send, Record, Abandon, Close, StoreFails,
           Crash, Rebalance, WorkerNext, Work, PollDue, Requeue, Schedule, Exhaust, DeadLetter,
           Reclaim, CrashWorker, ReplayNext, Serve, ReplayLookup, ReplayMark, ReplayPublish,
           ReplayInterrupted, EnvironmentNext, PlatformPublish, MalformedMessage, RetryTimePasses
  <2>6. QED BY <2>1, <2>3, <2>4, <2>5 DEF ResultInv
<1>3. Spec => []TypeInv
  BY InitTypeInv, NextTypeInv, PTL DEF Spec
<1>4. ResultInv => ResultsAreRecorded
  BY DEF ResultInv
<1>5. QED BY <1>1, <1>2, <1>3, <1>4, PTL DEF Spec

-----------------------------------------------------------------------------
(* The webhook.                                                            *)

\* d has an accepted delivery of e to record; e has one recorded or about to be.
Carries(d, e) == pc[d] = "record" /\ job[d].held = "SUCCESS" /\ EventOf(d) = e
Won(e) == State(e) = "DELIVERED" \/ \E d \in Dispatchers : Carries(d, e)

\* Every disruption pays for one acceptance, and so does the delivery that counts.
PaidInv == \A e \in Events : accepted[e] <= disruptions + (IF Won(e) THEN 1 ELSE 0)

\* Disruptions are counted one by one, and an interrupted handler counts one.
LEMMA DisruptionsCount ==
  ASSUME TypeInv, [Next]_vars
  PROVE  /\ disruptions \in Nat
         /\ disruptions' = disruptions \/ disruptions' = disruptions + 1
         /\ \A d \in Dispatchers : StoreFails(d) \/ Crash(d) => disruptions' = disruptions + 1
<1>1. disruptions \in Nat
  BY TopicsAssumption DEF TypeInv, TypeOK, TopicsTypeOK
<1>2. disruptions' = disruptions \/ disruptions' = disruptions + 1
  BY ZenonT(60) DEF Next, vars, topicVars, DispatcherNext, Handle, Fetch, ToDLQ, Commit, Find,
                    InsertEvent, InsertRefused, Claim, Resolve, Send, Record, Abandon, Close,
                    Announce, Answer, StoreFails, Crash, Rebalance, WorkerNext, Work, PollDue,
                    Requeue, Schedule, Exhaust, DeadLetter, Reclaim, CrashWorker, ReplayNext,
                    Serve, ReplayLookup, ReplayMark, ReplayPublish, ReplayInterrupted,
                    EnvironmentNext, PlatformPublish, MalformedMessage, RetryTimePasses, Disrupt
<1>3. \A d \in Dispatchers : StoreFails(d) \/ Crash(d) => disruptions' = disruptions + 1
  BY DEF StoreFails, Crash, Disrupt
<1>4. QED BY <1>1, <1>2, <1>3

\* The only call that makes the webhook accept anything is Send.
LEMMA AcceptedFrame ==
  ASSUME [Next]_vars
  PROVE  (\E d \in Dispatchers : Send(d)) \/ UNCHANGED accepted
BY DEF Next, vars, dispatcherVars, DispatcherNext, Handle, Fetch, ToDLQ, Commit, Find,
       InsertEvent, InsertRefused, Claim, Resolve, Record, Abandon, Close, Announce, StoreFails,
       Crash, Rebalance

\* An accepted delivery that is given up unrecorded was interrupted.
LEMMA WonStays ==
  ASSUME ~SlowDispatch, SafeInv, [Next]_vars, NEW e \in Events, Won(e)
  PROVE  Won(e)' \/ disruptions' = disruptions + 1
<1>a. TypeInv /\ StoreTypeOK /\ pc \in [Dispatchers -> Step] /\ job \in [Dispatchers -> Job]
  BY DEF SafeInv, TypeInv, TypeOK, DispatcherTypeOK
<1>1. CASE State(e) = "DELIVERED"
  <2>1. Next => State(e)' = "DELIVERED"
    BY <1>a, <1>1, LifeStep, LifeMonotone
  <2>2. UNCHANGED vars => State(e)' = "DELIVERED"
    BY <1>1 DEF vars, storeVars, State
  <2>3. QED BY <2>1, <2>2 DEF Won
<1>2. ASSUME NEW d \in Dispatchers, Carries(d, e) PROVE Won(e)' \/ disruptions' = disruptions + 1
  <2>1. CASE pc'[d] = pc[d] /\ job'[d] = job[d] /\ (pc[d] # "idle" => EventOf(d)' = EventOf(d))
    BY <1>2, <2>1 DEF Carries, Won
  <2>2. CASE StoreFails(d) \/ Crash(d)
    BY <1>a, <2>2, DisruptionsCount
  <2>3. CASE Handle(d)
    <3>1. Record(d)
      BY <1>2, <2>3 DEF Carries, Handle, Fetch, ToDLQ, Commit, Find, InsertEvent, InsertRefused,
                        Claim, Resolve, Send, Abandon, Close, Announce
    <3>2. Moves(e, AnyState, OutcomeState("SUCCESS"))
      BY <1>a, <1>2, <3>1, StatementEffects DEF Carries, Record
    <3>3. State(e) \in AnyState
      BY <1>a DEF StoreTypeOK, Row, State, AnyState
    <3>4. State(e)' = "DELIVERED"
      BY <3>2, <3>3 DEF Moves, OutcomeState
    <3>5. QED BY <3>4 DEF Won
  <2>4. CASE \E x \in Dispatchers \ {d} : Handle(x) \/ StoreFails(x) \/ Crash(x)
    BY <1>a, <2>1, <2>4, OtherHandlers
  <2>5. CASE Bystander
    BY <1>a, <2>1, <2>5, BystanderFrame
  <2>6. CASE UNCHANGED vars
    BY <2>1, <2>6 DEF vars, dispatcherVars, topicVars, EventOf, MessageOf
  <2>7. QED BY <2>2, <2>3, <2>4, <2>5, <2>6, StepKinds
<1>3. QED BY <1>1, <1>2 DEF Won

\* While no delivery outlasts the cutoff of the sweep, the webhook takes an event once,
\* and once more for each disruption at most.
THEOREM DuplicatesArePaidFor == ~SlowDispatch /\ Spec => []DuplicatesNeedDisruption
<1> SUFFICES ASSUME ~SlowDispatch PROVE Spec => []DuplicatesNeedDisruption
  OBVIOUS
<1>1. Init => SafeInv /\ PaidInv
  <2>1. ASSUME Init, NEW e \in Events
        PROVE  accepted[e] <= disruptions + (IF Won(e) THEN 1 ELSE 0)
    <3>1. accepted[e] = 0 /\ disruptions = 0
      BY <2>1 DEF Init, DispatcherInit, TopicsInit
    <3>2. CASE Won(e)
      BY <3>1, <3>2
    <3>3. CASE ~Won(e)
      BY <3>1, <3>3
    <3>4. QED BY <3>2, <3>3
  <2>2. QED BY <2>1, SafeInductive DEF PaidInv
<1>2. SafeInv /\ PaidInv /\ [Next]_vars => SafeInv' /\ PaidInv'
  <2> SUFFICES ASSUME SafeInv, PaidInv, [Next]_vars PROVE PaidInv'
    BY SafeInductive
  <2>a. TypeInv /\ ExclInv /\ accepted \in [Events -> Nat]
    BY DEF SafeInv, TypeInv, TypeOK, DispatcherTypeOK
  <2>b. /\ disruptions \in Nat
        /\ disruptions' = disruptions \/ disruptions' = disruptions + 1
    BY <2>a, DisruptionsCount
  <2>1. ASSUME NEW e \in Events, accepted'[e] = accepted[e]
        PROVE  accepted'[e] <= disruptions' + (IF Won(e)' THEN 1 ELSE 0)
    <3>1. accepted[e] <= disruptions + (IF Won(e) THEN 1 ELSE 0) /\ accepted[e] \in Nat
      BY <2>a DEF PaidInv
    <3>2. Won(e) => Won(e)' \/ disruptions' = disruptions + 1
      BY WonStays
    <3>3. CASE Won(e)
      BY <2>1, <2>b, <3>1, <3>2, <3>3
    <3>4. CASE ~Won(e)
      BY <2>1, <2>b, <3>1, <3>4
    <3>5. QED BY <3>3, <3>4
  <2>2. ASSUME NEW d \in Dispatchers, Send(d), NEW e \in Events, e = EventOf(d)
        PROVE  accepted'[e] <= disruptions' + (IF Won(e)' THEN 1 ELSE 0)
    <3>1. State(e) = "DELIVERING" /\ \A x \in Dispatchers : Owns(x, e) => x = d
      BY <2>2, <2>a DEF Send, ExclInv, ExclusiveDelivery, Owns, Owning
    <3>2. ~Won(e)
      BY <2>2, <3>1 DEF Won, Carries, Send, Owns, Owning
    <3>3. accepted[e] <= disruptions /\ accepted[e] \in Nat
      BY <2>a, <2>b, <3>2 DEF PaidInv
    <3>4. PICK held \in DeliveryStatus, lost \in {0, 1} :
            /\ Go(d, "record", held)
            /\ accepted' = [accepted EXCEPT ![e] =
                              accepted[e] + lost + (IF held = "SUCCESS" THEN 1 ELSE 0)]
            /\ IF lost = 1 THEN Disrupt("network") ELSE UNCHANGED disruptions
      BY <2>2 DEF Send
    <3>5. disruptions' = disruptions + lost
      BY <2>b, <3>4 DEF Disrupt
    <3>6. accepted'[e] = accepted[e] + lost + (IF held = "SUCCESS" THEN 1 ELSE 0)
      BY <2>a, <3>4
    <3>7. held = "SUCCESS" => Won(e)'
      <4>1. pc'[d] = "record" /\ job'[d].held = held /\ EventOf(d)' = EventOf(d)
        BY <2>2, <2>a, <3>4, GoEffect DEF Send
      <4>2. QED BY <2>2, <4>1 DEF Won, Carries
    <3>8. CASE held = "SUCCESS"
      BY <2>b, <3>3, <3>5, <3>6, <3>7, <3>8
    <3>9. CASE held # "SUCCESS"
      <4>1. accepted'[e] = accepted[e] + lost
        BY <3>3, <3>6, <3>9
      <4>2. QED BY <2>b, <3>3, <3>5, <4>1
    <3>10. QED BY <3>8, <3>9
  <2>3. ASSUME NEW d \in Dispatchers, Send(d), NEW e \in Events, e # EventOf(d)
        PROVE  accepted'[e] = accepted[e]
    BY <2>3, <2>a DEF Send
  <2>4. ASSUME NEW e \in Events
        PROVE  accepted'[e] <= disruptions' + (IF Won(e)' THEN 1 ELSE 0)
    BY <2>1, <2>2, <2>3, AcceptedFrame
  <2>5. QED BY <2>4 DEF PaidInv
<1>3. SafeInv /\ PaidInv => DuplicatesNeedDisruption
  <2> SUFFICES ASSUME SafeInv, PaidInv, NEW e \in Events PROVE accepted[e] <= 1 + disruptions
    BY DEF DuplicatesNeedDisruption
  <2>1. disruptions \in Nat /\ accepted[e] \in Nat
    BY TopicsAssumption DEF SafeInv, TypeInv, TypeOK, TopicsTypeOK, DispatcherTypeOK
  <2>2. accepted[e] <= disruptions + (IF Won(e) THEN 1 ELSE 0)
    BY DEF PaidInv
  <2>3. QED BY <2>1, <2>2
<1>4. QED BY <1>1, <1>2, <1>3, PTL DEF Spec

=============================================================================

----------------------------- MODULE DemoProofs -----------------------------
(***************************************************************************)
(* Proofs about DemoTools, for any clients, event types, runs of           *)
(* subscribe-all and deliveries, other clients of the subscription service *)
(* beside them and failing statements included.  What Subscriptions        *)
(* promises is shown to hold here too: the demo implements it.             *)
(***************************************************************************)
EXTENDS DemoTools, SubscriptionsProofs, FiniteSetTheorems

-----------------------------------------------------------------------------
(* The invariants.                                                         *)

\* Run s is over.
Over(s) == run[s].step \in {"done", "failed"}

\* The clients run s is through with, and those of them that were answered so.
Passed(s) == Range(FixtureClients) \ Range(run[s].left)

PassedWith(s, answers) == Passed(s) \cap Answering(s, answers)

\* The request of run s for client c is of that client, comes when it is its turn, and
\* divides the event types of the client into those written and those to come.
BatchInv(s, c) ==
  LET r == creation[CreationOf[s][c]]
  IN  r.step # "new" =>
        /\ c \in Range(FixtureClients) /\ r.client = c
        /\ r.made \cup Range(r.todo) = Range(FixtureTypes[c])
        /\ r.answer = "created" => r.todo = <<>>
        /\ r.step = "done" => r.answer # "none"

\* A run goes through the fixture in order: nothing was sent for the clients to come.
TurnsInv(s) ==
  /\ IsInjective(run[s].left) /\ Range(run[s].left) \subseteq Range(FixtureClients)
  /\ run[s].step \in {"post", "wait"} => run[s].left # <<>>
  /\ run[s].step \in {"hand", "done"} => run[s].left = <<>>
  /\ run[s].step = "new" =>
       /\ \A c \in Clients : creation[CreationOf[s][c]].step = "new"
       /\ run[s].issued = {}
       /\ run[s].registered = 0 /\ run[s].alreadyExisted = 0 /\ run[s].failed = 0
  /\ run[s].step = "post" =>
       \A c \in Range(run[s].left) : creation[CreationOf[s][c]].step = "new"
  /\ run[s].step = "wait" =>
       \A c \in Range(Tail(run[s].left)) : creation[CreationOf[s][c]].step = "new"

\* The rows made for these subscriptions.
Issued(s, W) == {[client |-> p[1], type |-> p[2], by |-> CreationOf[s][p[1]]] : p \in W}

\* The requests a run is through with are answered, and it counted each and kept the
\* secrets of those that made subscriptions.
CountsInv(s) ==
  run[s].step # "new" =>
    /\ \A c \in Passed(s) : creation[CreationOf[s][c]].step = "done"
    /\ IsFiniteSet(Wanted(PassedWith(s, {"created"})))
    /\ IsFiniteSet(Wanted(PassedWith(s, {"conflict"})))
    /\ run[s].registered = Cardinality(Wanted(PassedWith(s, {"created"})))
    /\ run[s].alreadyExisted = Cardinality(Wanted(PassedWith(s, {"conflict"})))
    /\ run[s].failed = Cardinality(PassedWith(s, {"rejected", "error"}))
    /\ run[s].issued = Issued(s, Wanted(PassedWith(s, {"created"})))

\* What a run says it handed over is all it registered, and the receiver has it.
EndInv(s) ==
  run[s].handedOver # 0 =>
    /\ run[s].step = "done" /\ run[s].handedOver = run[s].registered
    /\ restarts = 0 => {w.by : w \in run[s].issued} \subseteq handed

RunInv(s) == TurnsInv(s) /\ CountsInv(s) /\ EndInv(s)

\* What the receiver holds comes from runs that are over, a whole batch at a time.
SecretsInv ==
  /\ \A q \in handed : \E s \in Runs, c \in Clients : q = CreationOf[s][c]
  /\ \A s \in Runs, c \in Clients : CreationOf[s][c] \in handed =>
       /\ creation[CreationOf[s][c]].answer = "created" /\ Over(s)
       /\ \A t \in Range(FixtureTypes[c]) : secrets[c][t] # "none"
  /\ \A c \in Clients, t \in EventTypes : secrets[c][t] # "none" =>
       \E u \in Runs : secrets[c][t] = CreationOf[u][c]

\* Who wrote the row of c and t.
Writer(c, t) == IF table[c][t] = NoRow THEN "none" ELSE table[c][t].data

DataInv ==
  \A c, d \in Clients, t \in EventTypes, s \in Runs :
    Writer(c, t) = CreationOf[s][d] =>
      d = c /\ t \in Range(FixtureTypes[c]) /\ creation[CreationOf[s][d]].step # "new"

RivalsInv == \A s, u \in Runs : s # u /\ UnderWay(s) /\ UnderWay(u) => u \in rivals[s]

\* A run that wrote a row before s did and is still under way has s for a rival, unless s
\* was over before it could hand anything over.
OverlapInv ==
  \A s, u \in Runs, c \in Clients, t \in EventTypes :
    s # u /\ Writer(c, t) = CreationOf[s][c] /\ t \in creation[CreationOf[u][c]].made /\ UnderWay(u) =>
      u \in rivals[s] \/ (Over(s) /\ CreationOf[s][c] \notin handed)

ReplacedInv ==
  \A s, u \in Runs, c \in Clients, t \in EventTypes :
    s # u /\ Writer(c, t) = CreationOf[s][c] /\ CreationOf[s][c] \in handed /\ secrets[c][t] = CreationOf[u][c] =>
      u \in rivals[s]

\* A run that says it handed over nothing did not.
UnhandedInv ==
  \A s \in Runs, c \in Clients :
    run[s].step = "done" /\ run[s].handedOver = 0 => CreationOf[s][c] \notin handed

\* The failures left are those asked for less the calls answered since.
FailInv ==
  /\ \A i \in 1..Len(since) : call[since[i]].step = "done"
  /\ failNext = IF Len(since) < asked THEN asked - Len(since) ELSE 0
  /\ FailuresAsAsked

BatchesInv == \A s \in Runs, c \in Clients : BatchInv(s, c)
RunsInv == \A s \in Runs : RunInv(s)

DemoTypeInv ==
  /\ TypeInv /\ DemoTypeOK
  /\ restarts \in Nat

-----------------------------------------------------------------------------
(* Lists and sets.                                                         *)

LEMMA ListRange ==
  ASSUME NEW S, NEW s \in Seq(S)
  PROVE  /\ Range(s) \subseteq S
         /\ s = <<>> <=> Range(s) = {}
         /\ IsInjective(s) => IsFiniteSet(Range(s)) /\ Cardinality(Range(s)) = Len(s)
<1>1. Len(s) \in Nat /\ DOMAIN s = 1..Len(s) /\ \A i \in 1..Len(s) : s[i] \in S
  BY LenProperties, ElementOfSeq
<1>2. Range(s) \subseteq S
  BY <1>1 DEF Range
<1>3. s = <<>> <=> Len(s) = 0
  BY EmptySeq, <1>1
<1>4. s = <<>> <=> Range(s) = {}
  <2>1. CASE Len(s) = 0
    BY <1>1, <1>3, <2>1 DEF Range
  <2>2. CASE Len(s) # 0
    <3>1. 1 \in DOMAIN s
      BY <1>1, <2>2
    <3>2. s[1] \in Range(s)
      BY <3>1 DEF Range
    <3>3. QED BY <1>3, <2>2, <3>2
  <2>3. QED BY <2>1, <2>2
<1>5. ASSUME IsInjective(s)
      PROVE  IsFiniteSet(Range(s)) /\ Cardinality(Range(s)) = Len(s)
  <2>1. s \in [1..Len(s) -> Range(s)] /\ \A y \in Range(s) : \E i \in 1..Len(s) : s[i] = y
    BY <1>1 DEF Range
  <2>2. s \in Bijection(1..Len(s), Range(s))
    BY <1>5, <2>1 DEF Bijection, Injection, Surjection
  <2>3. IsFiniteSet(1..Len(s)) /\ Cardinality(1..Len(s)) = Len(s)
    <3>1. \A n \in Nat : IsFiniteSet(1..n) /\ Cardinality(1..n) = n
      BY FS_Interval
    <3>2. QED BY <1>1, <3>1
  <2>4. QED BY <2>2, <2>3, FS_Bijection DEF ExistsBijection
<1>6. QED BY <1>2, <1>4, <1>5

\* The head of a list without repetitions, and the rest.
LEMMA ListSplit ==
  ASSUME NEW S, NEW s \in Seq(S), s # <<>>, IsInjective(s)
  PROVE  /\ Head(s) \in S /\ Tail(s) \in Seq(S) /\ IsInjective(Tail(s))
         /\ Range(s) = {Head(s)} \cup Range(Tail(s))
         /\ Head(s) \notin Range(Tail(s))
<1>1. /\ Head(s) \in S /\ Tail(s) \in Seq(S)
      /\ Len(Tail(s)) = Len(s) - 1
      /\ \A i \in 1..Len(Tail(s)) : Tail(s)[i] = s[i + 1]
  BY HeadTailProperties
<1>2. Len(s) \in Nat \ {0}
  BY EmptySeq
<1>3. Head(s) = s[1]
  OBVIOUS
<1>4. DOMAIN s = 1..Len(s) /\ DOMAIN Tail(s) = 1..Len(Tail(s))
  BY <1>1, LenProperties
<1>5. \A i \in DOMAIN Tail(s) : i + 1 \in DOMAIN s /\ i + 1 # 1 /\ Tail(s)[i] = s[i + 1]
  BY <1>1, <1>2, <1>4
<1>6. 1 \in DOMAIN s
  BY <1>2, <1>4
<1>7. \A i \in DOMAIN s : i = 1 \/ (i - 1 \in DOMAIN Tail(s) /\ Tail(s)[i - 1] = s[i])
  <2>1. TAKE i \in DOMAIN s
  <2>2. i \in Nat /\ (i = 1 \/ i - 1 \in 1..Len(Tail(s)))
    BY <1>1, <1>2, <1>4
  <2>3. (i - 1) + 1 = i
    BY <2>2
  <2>4. QED BY <1>1, <1>4, <2>2, <2>3
<1>8. Range(s) = {Head(s)} \cup Range(Tail(s))
  <2>1. ASSUME NEW y \in Range(s) PROVE y = Head(s) \/ y \in Range(Tail(s))
    <3>1. PICK i \in DOMAIN s : s[i] = y
      BY <2>1 DEF Range
    <3>2. QED BY <1>3, <1>7, <3>1 DEF Range
  <2>2. ASSUME NEW y \in Range(Tail(s)) PROVE y \in Range(s)
    <3>1. PICK i \in DOMAIN Tail(s) : Tail(s)[i] = y
      BY <2>2 DEF Range
    <3>2. QED BY <1>5, <3>1 DEF Range
  <2>3. Head(s) \in Range(s)
    BY <1>3, <1>6 DEF Range
  <2>4. QED BY <2>1, <2>2, <2>3
<1>9. Head(s) \notin Range(Tail(s))
  BY <1>3, <1>5, <1>6 DEF Range, IsInjective
<1>10. IsInjective(Tail(s))
  <2> SUFFICES ASSUME NEW i \in DOMAIN Tail(s), NEW j \in DOMAIN Tail(s), Tail(s)[i] = Tail(s)[j]
               PROVE  i = j
    BY DEF IsInjective
  <2>1. i + 1 \in DOMAIN s /\ j + 1 \in DOMAIN s /\ s[i + 1] = s[j + 1]
    BY <1>5
  <2>2. i + 1 = j + 1
    BY <2>1 DEF IsInjective
  <2>3. i \in Nat /\ j \in Nat
    BY <1>1, <1>2, <1>4
  <2>4. QED BY <2>2, <2>3
<1>11. QED BY <1>1, <1>8, <1>9, <1>10

LEMMA FixtureLists ==
  /\ Range(FixtureClients) \subseteq Clients /\ IsFiniteSet(Range(FixtureClients))
  /\ \A c \in Range(FixtureClients) :
       LET types == FixtureTypes[c]
       IN  /\ types \in Seq(EventTypes) /\ types # <<>> /\ IsInjective(types)
           /\ Range(types) \subseteq EventTypes /\ Range(types) # {}
           /\ IsFiniteSet(Range(types)) /\ Cardinality(Range(types)) = Len(types)
<1>1. Range(FixtureClients) \subseteq Clients /\ IsFiniteSet(Range(FixtureClients))
  BY DemoAssumption, ListRange
<1>2. ASSUME NEW c \in Range(FixtureClients)
      PROVE  LET types == FixtureTypes[c]
             IN  /\ types \in Seq(EventTypes) /\ types # <<>> /\ IsInjective(types)
                 /\ Range(types) \subseteq EventTypes /\ Range(types) # {}
                 /\ IsFiniteSet(Range(types)) /\ Cardinality(Range(types)) = Len(types)
  <2>1. FixtureTypes[c] \in Seq(EventTypes) /\ FixtureTypes[c] # <<>> /\ IsInjective(FixtureTypes[c])
    BY <1>1, DemoAssumption
  <2>2. QED BY <2>1, ListRange
<1>3. QED BY <1>1, <1>2

-----------------------------------------------------------------------------
(* The demo implements Subscriptions.                                      *)

LEMMA FixtureBatch ==
  ASSUME NEW c \in Range(FixtureClients)
  PROVE  \E types \in Batches : FixtureTypes[c] \in Dedupe(types)
<1> DEFINE types == FixtureTypes[c]
<1>1. types \in Seq(EventTypes) /\ types # <<>> /\ IsInjective(types) /\ Len(types) <= MaxBatch
      /\ Range(types) \subseteq EventTypes
  BY FixtureLists, DemoAssumption
<1>2. Len(types) \in 0..MaxBatch /\ types \in [1..Len(types) -> EventTypes]
  BY <1>1, SubscriptionsAssumption, LenProperties
<1> HIDE DEF types
<1>3. types \in BoundedSeq(EventTypes, MaxBatch)
  BY <1>2 DEF BoundedSeq, SeqOf
<1>4. types \in [1..Len(types) -> EventTypes \cup {Blank}]
  BY <1>2
<1>5. types \in Batches
  BY <1>1, <1>2, <1>4 DEF BoundedSeq, SeqOf, Batches
<1>6. Range(types) = Range(types) \ {Blank}
  BY <1>1, SubscriptionsAssumption
<1>7. QED BY <1>1, <1>3, <1>5, <1>6 DEF Dedupe, Orders, types

LEMMA RunFacts ==
  ASSUME DemoTypeInv, RunsInv, NEW s \in Runs
  PROVE  /\ run \in [Runs -> Run] /\ run[s] \in Run /\ RunInv(s)
         /\ run[s].left \in Seq(Clients) /\ run[s].issued \subseteq Written
         /\ run[s].registered \in Nat /\ run[s].alreadyExisted \in Nat /\ run[s].failed \in Nat
         /\ run[s].left # <<>> =>
              /\ Head(run[s].left) \in Range(FixtureClients)
              /\ Head(run[s].left) \in Range(run[s].left)
<1>1. run \in [Runs -> Run] /\ run[s] \in Run /\ RunInv(s) /\ run[s].left \in Seq(Clients)
      /\ run[s].issued \subseteq Written
      /\ run[s].registered \in Nat /\ run[s].alreadyExisted \in Nat /\ run[s].failed \in Nat
  BY DEF DemoTypeInv, DemoTypeOK, RunsInv, Run
<1>2. run[s].left # <<>> => Head(run[s].left) \in Range(run[s].left)
  BY <1>1, ListSplit DEF RunInv, TurnsInv
<1>3. QED BY <1>1, <1>2 DEF RunInv, TurnsInv

\* A request a run sends is one that a client of the service might send.
LEMMA PostIsReceive ==
  ASSUME DemoTypeInv, RunsInv, NEW s \in Runs, PostSubscriptions(s)
  PROVE  /\ Head(run[s].left) \in Range(FixtureClients)
         /\ Head(run[s].left) \in Clients
         /\ CreationOf[s][Head(run[s].left)] \in Creations
         /\ Receive(CreationOf[s][Head(run[s].left)])
<1> DEFINE c == Head(run[s].left)
           q == CreationOf[s][c]
<1>1. run[s].step = "post" /\ Arrive(q, c, FixtureTypes[c])
  BY DEF PostSubscriptions
<1>2. c \in Range(FixtureClients) /\ c \in Range(run[s].left)
  BY <1>1, RunFacts DEF RunInv, TurnsInv
<1>3. c \in Clients
  BY <1>2, FixtureLists
<1>4. q \in Creations
  BY <1>3, DemoAssumption
<1>5. creation[q].step = "new"
  BY <1>1, <1>2, RunFacts DEF RunInv, TurnsInv
<1>6. \E types \in Batches : FixtureTypes[c] \in Dedupe(types)
  BY <1>2, FixtureBatch
<1>7. Receive(q)
  BY <1>1, <1>3, <1>5, <1>6 DEF Receive
<1>8. QED BY <1>2, <1>3, <1>4, <1>7

LEMMA StepIsServiceStep ==
  ASSUME DemoTypeInv, RunsInv, [DemoNext]_demoVars
  PROVE  [Next]_vars
<1>1. CASE OtherRequests
  BY <1>1 DEF OtherRequests, Next
<1>2. CASE Service
  BY <1>2 DEF Service, Next
<1>3. CASE \E s \in Runs : PostSubscriptions(s)
  BY <1>3, PostIsReceive DEF Next
<1>4. CASE (\E s \in Runs : StartRun(s) \/ RunFails(s) \/ Collect(s) \/ HandOver(s))
           \/ Receiver \/ Restart \/ UNCHANGED demoVars
  BY <1>4 DEF StartRun, RunFails, Collect, HandOver, Receiver, Control, Webhook, Respond, Answer,
         Restart, demoVars
<1>5. QED BY <1>1, <1>2, <1>3, <1>4 DEF DemoNext, SubscribeAll

-----------------------------------------------------------------------------
(* What the service does to requests and rows.                             *)

\* A request that is worked on goes through its list and is answered at the end.
LEMMA Advance ==
  ASSUME TypeInv, NEW p \in Creations,
         Validate(p) \/ FindActive(p) \/ Save(p) \/ CreationFails(p)
  PROVE  /\ creation[p].step \notin {"new", "done"}
         /\ \A o \in Creations : o # p => creation'[o] = creation[o]
         /\ creation'[p].step # "new" /\ creation'[p].client = creation[p].client
         /\ creation'[p].made \cup Range(creation'[p].todo)
              = creation[p].made \cup Range(creation[p].todo)
         /\ creation'[p].answer = "created" => creation'[p].todo = <<>>
         /\ creation'[p].step = "done" => creation'[p].answer # "none"
         /\ \/ creation'[p].made = creation[p].made
            \/ /\ Save(p)
               /\ creation'[p].made = creation[p].made \cup {Head(creation[p].todo)}
<1> DEFINE r == creation[p]
<1>1. /\ creation \in [Creations -> Creation] /\ r \in Creation /\ RequestOK(r)
      /\ r.todo \in Seq(EventTypes) /\ r.made \in SUBSET EventTypes
  BY RequestFacts
<1>2. r.step \in {"validate", "find", "save"} /\ r.answer = "none"
  BY <1>1 DEF Validate, FindActive, Save, CreationFails, RequestOK
<1>3. ASSUME NEW answer \in {"conflict", "rejected", "error"}, Answered(p, answer)
      PROVE  /\ creation'[p].step = "done" /\ creation'[p].client = r.client
             /\ creation'[p].made = r.made /\ creation'[p].todo = r.todo
             /\ creation'[p].answer = answer
             /\ \A o \in Creations : o # p => creation'[o] = creation[o]
  BY <1>1, <1>3 DEF Answered, Creation
<1>4. ASSUME NEW todo, NEW made, Proceed(p, todo, made)
      PROVE  /\ creation'[p].step = (IF todo = <<>> THEN "done" ELSE "find")
             /\ creation'[p].client = r.client
             /\ creation'[p].made = made /\ creation'[p].todo = todo
             /\ creation'[p].answer = (IF todo = <<>> THEN "created" ELSE "none")
             /\ \A o \in Creations : o # p => creation'[o] = creation[o]
  BY <1>1, <1>4 DEF Proceed, Creation
<1>5. CASE Validate(p)
  <2>1. r.step = "validate" /\ r.made = {}
    BY <1>1, <1>5 DEF Validate, RequestOK
  <2>2. CASE Answered(p, "rejected")
    BY <1>2, <1>3, <2>2
  <2>3. CASE Proceed(p, r.todo, {})
    BY <1>2, <1>4, <2>1, <2>3
  <2>4. QED BY <1>5, <2>2, <2>3 DEF Validate
<1>6. CASE FindActive(p)
  <2>1. CASE Answered(p, "conflict")
    BY <1>2, <1>3, <2>1
  <2>2. CASE creation' = [creation EXCEPT ![p].step = "save"]
    <3>1. /\ creation'[p].step = "save" /\ creation'[p].client = r.client
          /\ creation'[p].made = r.made /\ creation'[p].todo = r.todo
          /\ creation'[p].answer = r.answer
          /\ \A o \in Creations : o # p => creation'[o] = creation[o]
      BY <1>1, <2>2 DEF Creation
    <3>2. QED BY <1>2, <3>1
  <2>3. QED BY <1>6, <2>1, <2>2 DEF FindActive
<1>7. CASE Save(p)
  <2> DEFINE t == Head(r.todo)
  <2>1. r.todo # <<>> /\ IsInjective(r.todo)
    BY <1>1, <1>7 DEF Save, RequestOK
  <2>2. Range(r.todo) = {t} \cup Range(Tail(r.todo))
    BY <1>1, <2>1, ListSplit
  <2>3. CASE Answered(p, "error")
    BY <1>2, <1>3, <2>3
  <2>4. CASE Proceed(p, Tail(r.todo), r.made \cup {t})
    <3>1. /\ creation'[p].made = r.made \cup {t} /\ creation'[p].todo = Tail(r.todo)
          /\ creation'[p].step = (IF Tail(r.todo) = <<>> THEN "done" ELSE "find")
          /\ creation'[p].client = r.client
          /\ creation'[p].answer = (IF Tail(r.todo) = <<>> THEN "created" ELSE "none")
          /\ \A o \in Creations : o # p => creation'[o] = creation[o]
      BY <1>4, <2>4
    <3> HIDE DEF t
    <3>2. creation'[p].made \cup Range(creation'[p].todo) = r.made \cup Range(r.todo)
      BY <2>2, <3>1
    <3>3. QED BY <1>2, <1>7, <3>1, <3>2 DEF t
  <2>5. QED BY <1>7, <2>3, <2>4 DEF Save
<1>8. CASE CreationFails(p)
  BY <1>2, <1>3, <1>8 DEF CreationFails
<1>9. QED BY <1>5, <1>6, <1>7, <1>8

\* Only a save changes who wrote a row, namely the next on its list.
LEMMA WriterStep ==
  ASSUME TypeInv, NEW p \in Creations, Save(p), NEW c \in Clients, NEW t \in EventTypes
  PROVE  \/ /\ c = creation[p].client /\ t = Head(creation[p].todo)
            /\ Writer(c, t)' = p
         \/ /\ ~(c = creation[p].client /\ t = Head(creation[p].todo))
            /\ Writer(c, t)' = Writer(c, t)
<1> DEFINE d == creation[p].client
           u == Head(creation[p].todo)
           n == [id |-> IF table[d][u] = NoRow THEN p ELSE table[d][u].id,
                 data |-> p, status |-> "ACTIVE"]
<1>1. d \in Clients /\ u \in EventTypes /\ Upsert(p, d, u)
  BY SaveMoves
<1>2. table \in [Clients -> [EventTypes -> Row \cup {NoRow}]]
  BY DEF TypeInv, SubscriptionsTypeOK
<1>3. table' = [table EXCEPT ![d][u] = n]
  BY <1>1 DEF Upsert
<1>4. n.data = p /\ n # NoRow
  BY DEF NoRow
<1> HIDE DEF d, u, n
<1>5. CASE c = d /\ t = u
  <2>1. table'[c][t] = n
    BY <1>1, <1>2, <1>3, <1>5
  <2>2. QED BY <1>4, <1>5, <2>1 DEF Writer, d, u
<1>6. CASE ~(c = d /\ t = u)
  <2>1. table'[c][t] = table[c][t]
    BY <1>1, <1>2, <1>3, <1>6
  <2>2. QED BY <1>6, <2>1 DEF Writer, d, u
<1>7. QED BY <1>5, <1>6

LEMMA WriterKept ==
  ASSUME TypeInv, UNCHANGED table \/ \E r \in Deletions : Deactivate(r),
         NEW c \in Clients, NEW t \in EventTypes
  PROVE  Writer(c, t)' = Writer(c, t)
<1>1. CASE UNCHANGED table
  BY <1>1 DEF Writer
<1>2. CASE \E r \in Deletions : Deactivate(r)
  <2>1. PICK r \in Deletions : Deactivate(r)
    BY <1>2
  <2> DEFINE d == deletion[r].client
             u == deletion[r].type
             n == [table[d][u] EXCEPT !.status = "INACTIVE"]
  <2>2. d \in Clients /\ u \in EventTypes /\ table[d][u] # NoRow
    BY <2>1 DEF TypeInv, DeletionOK, Deactivate
  <2>3. table \in [Clients -> [EventTypes -> Row \cup {NoRow}]]
    BY DEF TypeInv, SubscriptionsTypeOK
  <2>4. table[d][u] \in Row
    BY <2>2, <2>3
  <2>5. n # NoRow /\ n.data = table[d][u].data
    BY <2>4 DEF Row, NoRow
  <2>6. table' = table \/ table' = [table EXCEPT ![d][u] = n]
    BY <2>1, <2>2, <2>3 DEF Deactivate
  <2> HIDE DEF d, u, n
  <2>7. table'[c][t] = table[c][t] \/ (c = d /\ t = u /\ table'[c][t] = n)
    BY <2>2, <2>3, <2>6
  <2>8. QED BY <2>2, <2>5, <2>7 DEF Writer
<1>3. QED BY <1>1, <1>2

-----------------------------------------------------------------------------
(* Counting subscriptions.                                                 *)

LEMMA WantedAdd ==
  ASSUME NEW P \in SUBSET Range(FixtureClients), IsFiniteSet(Wanted(P)),
         NEW c \in Range(FixtureClients), c \notin P
  PROVE  /\ IsFiniteSet(Wanted(P \cup {c}))
         /\ Cardinality(Wanted(P \cup {c})) = Cardinality(Wanted(P)) + Len(FixtureTypes[c])
         /\ Cardinality(Wanted(P)) \in Nat /\ Len(FixtureTypes[c]) \in Nat
         /\ Wanted(P \cup {c}) = Wanted(P) \cup {<<c, t>> : t \in Range(FixtureTypes[c])}
<1> DEFINE T == Range(FixtureTypes[c])
           W == {<<c, t>> : t \in T}
           g == [t \in T |-> <<c, t>>]
<1>1. c \in Clients /\ T \subseteq EventTypes /\ IsFiniteSet(T)
      /\ Cardinality(T) = Len(FixtureTypes[c])
  BY FixtureLists
<1>2. Wanted(P \cup {c}) = Wanted(P) \cup W
  BY <1>1 DEF Wanted
<1>3. Wanted(P) \cap W = {}
  BY DEF Wanted
<1>4. g \in Bijection(T, W)
  BY DEF Bijection, Injection, Surjection, IsInjective
<1>5. IsFiniteSet(W) /\ Cardinality(W) = Cardinality(T)
  BY <1>1, <1>4, FS_Bijection DEF ExistsBijection
<1>6. Cardinality(Wanted(P)) \in Nat /\ Cardinality(T) \in Nat
  BY <1>1, FS_CardinalityType
<1>7. Cardinality(Wanted(P) \cap W) = 0
  BY <1>3, FS_EmptySet
<1>8. /\ IsFiniteSet(Wanted(P) \cup W)
      /\ Cardinality(Wanted(P) \cup W) = Cardinality(Wanted(P)) + Cardinality(W)
  <2> HIDE DEF W, T
  <2>1. IsFiniteSet(Wanted(P) \cup W)
        /\ Cardinality(Wanted(P) \cup W)
             = Cardinality(Wanted(P)) + Cardinality(W) - Cardinality(Wanted(P) \cap W)
    BY <1>5, FS_Union
  <2>2. QED BY <1>5, <1>6, <1>7, <2>1
<1>9. QED BY <1>1, <1>2, <1>5, <1>6, <1>8

LEMMA IssuedCount ==
  ASSUME NEW s \in Runs, NEW W \in SUBSET (Clients \X EventTypes), IsFiniteSet(W)
  PROVE  IsFiniteSet(Issued(s, W)) /\ Cardinality(Issued(s, W)) = Cardinality(W)
<1> DEFINE g == [p \in W |-> [client |-> p[1], type |-> p[2], by |-> CreationOf[s][p[1]]]]
<1>1. \A p, o \in W : g[p] = g[o] => p = o
  <2> SUFFICES ASSUME NEW p \in W, NEW o \in W, g[p] = g[o] PROVE p = o
    OBVIOUS
  <2>1. g[p].client = p[1] /\ g[o].client = o[1] /\ g[p].type = p[2] /\ g[o].type = o[2]
    OBVIOUS
  <2>2. p[1] = o[1] /\ p[2] = o[2]
    BY <2>1
  <2>3. p = <<p[1], p[2]>> /\ o = <<o[1], o[2]>>
    OBVIOUS
  <2>4. QED BY <2>2, <2>3
<1>2. \A p \in W : g[p] \in Issued(s, W)
  BY DEF Issued
<1>3. \A w \in Issued(s, W) : \E p \in W : g[p] = w
  BY DEF Issued
<1>4. g \in [W -> Issued(s, W)]
  BY <1>2
<1>6. DOMAIN g = W
  OBVIOUS
<1> HIDE DEF g
<1>5. g \in Bijection(W, Issued(s, W))
  BY <1>1, <1>3, <1>4, <1>6 DEF Bijection, Injection, Surjection, IsInjective
<1>7. QED BY <1>5, FS_Bijection DEF ExistsBijection

LEMMA WantedPairs ==
  ASSUME NEW P
  PROVE  Wanted(P) \in SUBSET (Clients \X EventTypes)
BY DEF Wanted

-----------------------------------------------------------------------------
(* Types.                                                                  *)

\* A run's request that made subscriptions made all its client asks for.
LEMMA CreatedAll ==
  ASSUME DemoTypeInv, BatchesInv, NEW s \in Runs, NEW c \in Clients,
         creation[CreationOf[s][c]].answer = "created"
  PROVE  /\ c \in Range(FixtureClients)
         /\ creation[CreationOf[s][c]].made = Range(FixtureTypes[c])
         /\ creation[CreationOf[s][c]].step = "done"
<1> DEFINE q == CreationOf[s][c]
           r == creation[q]
<1>1. q \in Creations
  BY DemoAssumption
<1>2. RequestOK(r) /\ r \in Creation
  BY <1>1, RequestFacts DEF DemoTypeInv
<1>3. r.step = "done"
  BY <1>2 DEF RequestOK
<1>4. /\ c \in Range(FixtureClients)
      /\ r.made \cup Range(r.todo) = Range(FixtureTypes[c]) /\ r.todo = <<>>
  BY <1>3 DEF BatchesInv, BatchInv
<1>5. Range(<<>>) = {}
  BY DEF Range
<1>6. QED BY <1>3, <1>4, <1>5

\* What a run makes of the answer to its request q for client c.
Collects(s, c, q, left, answer) ==
  /\ run'[s] \in Run
  /\ \A u \in Runs : u # s => run'[u] = run[u]
  /\ run[s].left # <<>> /\ c \in Range(FixtureClients) /\ c \in Clients
  /\ q \in Creations /\ creation[q].step = "done"
  /\ answer \in {"created", "conflict", "rejected", "error"}
  /\ run'[s].left = left /\ run'[s].step = (IF left = <<>> THEN "hand" ELSE "post")
  /\ run'[s].handedOver = run[s].handedOver
  /\ run'[s].registered = run[s].registered
       + (IF answer = "created" THEN Len(FixtureTypes[c]) ELSE 0)
  /\ run'[s].alreadyExisted = run[s].alreadyExisted
       + (IF answer = "conflict" THEN Len(FixtureTypes[c]) ELSE 0)
  /\ run'[s].failed = run[s].failed
       + (IF answer \in {"rejected", "error"} THEN 1 ELSE 0)
  /\ run'[s].issued = run[s].issued \cup
       (IF answer = "created"
          THEN {[client |-> c, type |-> t, by |-> q] : t \in Range(FixtureTypes[c])}
          ELSE {})

LEMMA CollectStep ==
  ASSUME DemoTypeInv, BatchesInv, RunsInv, NEW s \in Runs, Collect(s),
         NEW c, c = Head(run[s].left), NEW q, q = CreationOf[s][c],
         NEW left, left = Tail(run[s].left), NEW answer, answer = creation[q].answer
  PROVE  Collects(s, c, q, left, answer)
<1> DEFINE step == IF left = <<>> THEN "hand" ELSE "post"
           r == [run[s] EXCEPT !.left = left, !.step = step]
           made == {[client |-> c, type |-> t, by |-> q] : t \in creation[q].made}
<1>1. /\ run \in [Runs -> Run] /\ run[s] \in Run /\ RunInv(s) /\ run[s].step = "wait"
      /\ run[s].left \in Seq(Clients)
  BY RunFacts DEF Collect
<1>2. run[s].left # <<>> /\ IsInjective(run[s].left)
  BY <1>1 DEF RunInv, TurnsInv
<1>3. c \in Range(FixtureClients) /\ c \in Clients /\ q \in Creations /\ left \in Seq(Clients)
  BY <1>1, <1>2, RunFacts, ListSplit, FixtureLists, DemoAssumption
<1>4. /\ creation[q].step = "done" /\ run' = [run EXCEPT ![s] = Collected(r, c, q)]
  BY DEF Collect
<1>5. creation[q] \in Creation /\ answer # "none"
  BY <1>3, <1>4, RequestFacts DEF DemoTypeInv, BatchesInv, BatchInv
<1>6. answer \in {"created", "conflict", "rejected", "error"}
  BY <1>5 DEF Creation
<1>7. answer = "created" =>
        /\ creation[q].made = Range(FixtureTypes[c])
        /\ Cardinality(creation[q].made) = Len(FixtureTypes[c])
        /\ made \subseteq Written
  <2>1. answer = "created" => creation[q].made = Range(FixtureTypes[c])
    BY <1>3, CreatedAll
  <2>2. creation[q].made \subseteq EventTypes
    BY <1>5 DEF Creation
  <2>3. made \subseteq Written
    <3>1. ASSUME NEW t \in creation[q].made
          PROVE  [client |-> c, type |-> t, by |-> q] \in Written
      <4>1. t \in EventTypes /\ c \in Clients /\ q \in Creations
        BY <1>3, <2>2
      <4>2. QED BY <4>1 DEF Written
    <3>2. QED BY <3>1
  <2>4. QED BY <1>3, <2>1, <2>3, FixtureLists
<1>8. Len(FixtureTypes[c]) \in Nat
  BY <1>3, FixtureLists, LenProperties
<1>9. step \in {"hand", "post"}
  OBVIOUS
<1>16. creation[q].answer = answer
  OBVIOUS
<1> HIDE DEF step, made
<1>10. /\ r \in Run /\ r.left = left /\ r.step = step
       /\ r.registered = run[s].registered /\ r.alreadyExisted = run[s].alreadyExisted
       /\ r.failed = run[s].failed /\ r.issued = run[s].issued
       /\ r.handedOver = run[s].handedOver
  BY <1>1, <1>3, <1>9 DEF Run
<1>11. /\ r.registered \in Nat /\ r.alreadyExisted \in Nat /\ r.failed \in Nat
       /\ r.issued \subseteq Written
  BY <1>10 DEF Run
<1> DEFINE n == Collected(r, c, q)
<1>12. run'[s] = n /\ \A u \in Runs : u # s => run'[u] = run[u]
  BY <1>1, <1>4
<1> HIDE DEF r
<1>13. CASE answer = "created"
  <2> DEFINE count == r.registered + Cardinality(creation[q].made)
             issued == r.issued \cup made
  <2>0. Cardinality(creation[q].made) = Len(FixtureTypes[c])
    BY <1>7, <1>13
  <2>1. count \in Nat /\ count = r.registered + Len(FixtureTypes[c])
    BY <1>8, <1>11, <2>0
  <2>2. issued \subseteq Written
    BY <1>7, <1>11, <1>13
  <2>3. n = [r EXCEPT !.registered = count, !.issued = issued]
    BY <1>13, <1>16 DEF Collected, made
  <2>4. issued = run[s].issued
          \cup {[client |-> c, type |-> t, by |-> q] : t \in Range(FixtureTypes[c])}
    BY <1>7, <1>10, <1>13 DEF made
  <2> HIDE DEF count, issued, n
  <2>5. /\ n \in Run /\ n.left = left /\ n.step = step
        /\ n.registered = count /\ n.alreadyExisted = run[s].alreadyExisted
        /\ n.failed = run[s].failed /\ n.issued = issued /\ n.handedOver = run[s].handedOver
    BY <1>10, <2>1, <2>2, <2>3 DEF Run
  <2>6. run[s].alreadyExisted \in Nat /\ run[s].failed \in Nat
    BY <1>1 DEF Run
  <2>8. /\ run'[s].registered = run[s].registered
              + (IF answer = "created" THEN Len(FixtureTypes[c]) ELSE 0)
        /\ run'[s].alreadyExisted = run[s].alreadyExisted
              + (IF answer = "conflict" THEN Len(FixtureTypes[c]) ELSE 0)
        /\ run'[s].failed = run[s].failed
              + (IF answer \in {"rejected", "error"} THEN 1 ELSE 0)
    BY <1>10, <1>12, <1>13, <2>1, <2>5, <2>6
  <2>9. run'[s].issued = run[s].issued \cup
          (IF answer = "created"
             THEN {[client |-> c, type |-> t, by |-> q] : t \in Range(FixtureTypes[c])}
             ELSE {})
    BY <1>12, <1>13, <2>5, <2>4
  <2>7. QED BY <1>2, <1>3, <1>4, <1>6, <1>12, <2>5, <2>8, <2>9 DEF step, Collects
<1>14. CASE answer = "conflict"
  <2> DEFINE count == r.alreadyExisted + Len(FixtureTypes[c])
  <2>1. count \in Nat
    BY <1>8, <1>11
  <2>3. n = [r EXCEPT !.alreadyExisted = count]
    BY <1>14, <1>16 DEF Collected
  <2> HIDE DEF n, count
  <2>5. /\ n \in Run /\ n.left = left /\ n.step = step
        /\ n.registered = run[s].registered /\ n.alreadyExisted = count
        /\ n.failed = run[s].failed /\ n.issued = run[s].issued
        /\ n.handedOver = run[s].handedOver
    BY <1>10, <2>1, <2>3 DEF Run
  <2>6. run[s].registered \in Nat /\ run[s].failed \in Nat
    BY <1>1 DEF Run
  <2>8. /\ run'[s].registered = run[s].registered
              + (IF answer = "created" THEN Len(FixtureTypes[c]) ELSE 0)
        /\ run'[s].alreadyExisted = run[s].alreadyExisted
              + (IF answer = "conflict" THEN Len(FixtureTypes[c]) ELSE 0)
        /\ run'[s].failed = run[s].failed
              + (IF answer \in {"rejected", "error"} THEN 1 ELSE 0)
    BY <1>10, <1>12, <1>14, <2>1, <2>5, <2>6 DEF count
  <2>9. run'[s].issued = run[s].issued \cup
          (IF answer = "created"
             THEN {[client |-> c, type |-> t, by |-> q] : t \in Range(FixtureTypes[c])}
             ELSE {})
    BY <1>12, <1>14, <2>5
  <2>7. QED BY <1>2, <1>3, <1>4, <1>6, <1>12, <2>5, <2>8, <2>9 DEF step, Collects
<1>15. CASE answer \in {"rejected", "error"}
  <2> DEFINE count == r.failed + 1
  <2>1. count \in Nat
    BY <1>11
  <2>3. n = [r EXCEPT !.failed = count]
    BY <1>15, <1>16 DEF Collected
  <2> HIDE DEF n, count
  <2>5. /\ n \in Run /\ n.left = left /\ n.step = step
        /\ n.registered = run[s].registered /\ n.alreadyExisted = run[s].alreadyExisted
        /\ n.failed = count /\ n.issued = run[s].issued
        /\ n.handedOver = run[s].handedOver
    BY <1>10, <2>1, <2>3 DEF Run
  <2>6. run[s].registered \in Nat /\ run[s].alreadyExisted \in Nat
    BY <1>1 DEF Run
  <2>8. /\ run'[s].registered = run[s].registered
              + (IF answer = "created" THEN Len(FixtureTypes[c]) ELSE 0)
        /\ run'[s].alreadyExisted = run[s].alreadyExisted
              + (IF answer = "conflict" THEN Len(FixtureTypes[c]) ELSE 0)
        /\ run'[s].failed = run[s].failed
              + (IF answer \in {"rejected", "error"} THEN 1 ELSE 0)
    BY <1>10, <1>12, <1>15, <2>1, <2>5, <2>6, SMTT(30) DEF count
  <2>9. run'[s].issued = run[s].issued \cup
          (IF answer = "created"
             THEN {[client |-> c, type |-> t, by |-> q] : t \in Range(FixtureTypes[c])}
             ELSE {})
    BY <1>12, <1>15, <2>5
  <2>7. QED BY <1>2, <1>3, <1>4, <1>6, <1>12, <2>5, <2>8, <2>9 DEF step, Collects
<1>17. QED BY <1>6, <1>13, <1>14, <1>15

-----------------------------------------------------------------------------
(* The runs, while the service works.                                      *)

\* The service works on requests that are neither to come nor answered, the other clients'
\* own excepted.
LEMMA ServiceStep ==
  ASSUME DemoTypeInv, BatchesInv, Service \/ OtherRequests
  PROVE  /\ BatchesInv'
         /\ \A s \in Runs, c \in Clients :
              creation[CreationOf[s][c]].step \in {"new", "done"} =>
                creation'[CreationOf[s][c]] = creation[CreationOf[s][c]]
         /\ \A s \in Runs, c \in Clients :
              creation[CreationOf[s][c]].step # "new" =>
                creation'[CreationOf[s][c]].step # "new"
<1>0. TypeInv
  BY DEF DemoTypeInv
<1>1. ASSUME NEW p \in Creations,
             Validate(p) \/ FindActive(p) \/ Save(p) \/ CreationFails(p),
             NEW s \in Runs, NEW c \in Clients
      PROVE  /\ BatchInv(s, c)'
             /\ creation[CreationOf[s][c]].step \in {"new", "done"} =>
                  creation'[CreationOf[s][c]] = creation[CreationOf[s][c]]
             /\ creation[CreationOf[s][c]].step # "new" =>
                  creation'[CreationOf[s][c]].step # "new"
  <2> DEFINE q == CreationOf[s][c]
  <2>1. q \in Creations /\ BatchInv(s, c)
    BY DemoAssumption DEF BatchesInv
  <2>2. CASE p = q
    BY <1>0, <1>1, <2>1, <2>2, Advance DEF BatchInv
  <2>3. CASE p # q
    <3>1. creation'[q] = creation[q]
      BY <1>0, <1>1, <2>1, <2>3, Advance
    <3>2. QED BY <2>1, <3>1 DEF BatchInv
  <2>4. QED BY <2>2, <2>3
<1>2. CASE \E p \in Creations : Validate(p) \/ FindActive(p) \/ Save(p) \/ CreationFails(p)
  BY <1>1, <1>2 DEF BatchesInv
<1>3. ASSUME \A s \in Runs, c \in Clients :
               creation'[CreationOf[s][c]] = creation[CreationOf[s][c]]
      PROVE  BatchesInv'
  BY <1>3 DEF BatchesInv, BatchInv
<1>4. CASE \E r \in Deletions : Lookup(r) \/ Deactivate(r)
  <2>1. creation' = creation
    BY <1>4 DEF Lookup, Deactivate
  <2>2. QED BY <1>3, <2>1
<1>5. CASE OtherRequests
  <2>1. PICK p \in Creations \ OfRun : Receive(p)
    BY <1>5 DEF OtherRequests
  <2>2. \A o \in Creations : o # p => creation'[o] = creation[o]
    BY <1>0, <2>1, ReceiveMoves DEF Moves
  <2>3. \A s \in Runs, c \in Clients :
          creation'[CreationOf[s][c]] = creation[CreationOf[s][c]]
    BY <2>1, <2>2, DemoAssumption DEF OfRun
  <2>4. QED BY <1>3, <2>3
<1>6. QED BY <1>2, <1>4, <1>5 DEF Service

\* A run that stands still, or is cut short, keeps its invariant.
LEMMA RunKept ==
  ASSUME DemoTypeInv, RunsInv, NEW s \in Runs,
         run'[s].left = run[s].left, run'[s].issued = run[s].issued,
         run'[s].registered = run[s].registered,
         run'[s].alreadyExisted = run[s].alreadyExisted, run'[s].failed = run[s].failed,
         run'[s].handedOver = run[s].handedOver,
         \/ run'[s].step = run[s].step
         \/ UnderWay(s) /\ run'[s].step = "failed",
         \A c \in Clients :
           creation[CreationOf[s][c]].step \in {"new", "done"} =>
             creation'[CreationOf[s][c]] = creation[CreationOf[s][c]],
         (handed \subseteq handed' /\ restarts' = restarts) \/ restarts' # 0
  PROVE  RunInv(s)'
<1>1. RunInv(s) /\ Range(FixtureClients) \subseteq Clients
  BY FixtureLists DEF RunsInv
<1>2. Passed(s)' = Passed(s)
  BY DEF Passed
<1>3. TurnsInv(s)'
  <2>1. Range(run[s].left) \subseteq Clients
    BY <1>1 DEF RunInv, TurnsInv
  <2>2. run[s].step = "wait" => Range(Tail(run[s].left)) \subseteq Clients
    <3>1. run[s].step = "wait" => run[s].left # <<>> /\ IsInjective(run[s].left)
      BY <1>1 DEF RunInv, TurnsInv
    <3>2. QED BY <2>1, <3>1, RunFacts, ListSplit
  <2>3. QED BY <1>1, <2>1, <2>2 DEF RunInv, TurnsInv
<1>4. CountsInv(s)'
  <2>1. CASE run[s].step = "new"
    <3>1. run'[s].step = "new"
      BY <2>1 DEF UnderWay
    <3>2. QED BY <3>1 DEF CountsInv
  <2>2. CASE run[s].step # "new"
    <3>1. \A c \in Passed(s) : creation'[CreationOf[s][c]] = creation[CreationOf[s][c]]
      BY <1>1, <2>2 DEF RunInv, CountsInv, Passed
    <3>2. \A A : PassedWith(s, A)' = PassedWith(s, A)
      BY <1>2, <3>1 DEF PassedWith, Answering, Passed
    <3>3. QED BY <1>1, <1>2, <2>2, <3>1, <3>2 DEF RunInv, CountsInv
  <2>3. QED BY <2>1, <2>2
<1>5. EndInv(s)'
  BY <1>1 DEF RunInv, EndInv, UnderWay
<1>6. QED BY <1>3, <1>4, <1>5 DEF RunInv

\* The run is where it was.
LEMMA RunSame ==
  ASSUME DemoTypeInv, RunsInv, NEW s \in Runs, run'[s] = run[s],
         \A c \in Clients :
           creation[CreationOf[s][c]].step \in {"new", "done"} =>
             creation'[CreationOf[s][c]] = creation[CreationOf[s][c]],
         (handed \subseteq handed' /\ restarts' = restarts) \/ restarts' # 0
  PROVE  RunInv(s)'
BY RunKept

-----------------------------------------------------------------------------
(* The runs, at their own steps.                                           *)

LEMMA EmptyCounts == Wanted({}) = {} /\ IsFiniteSet({}) /\ Cardinality({}) = 0
BY FS_EmptySet DEF Wanted

LEMMA StartRuns ==
  ASSUME DemoTypeInv, RunsInv, NEW s \in Runs, StartRun(s)
  PROVE  RunsInv'
<1>1. run \in [Runs -> Run] /\ run[s] \in Run /\ RunInv(s) /\ run[s].step = "new"
  BY RunFacts DEF StartRun
<1> DEFINE r == [run[s] EXCEPT !.step = "post", !.left = FixtureClients]
<1>2. run' = [run EXCEPT ![s] = r] /\ UNCHANGED <<creation, handed, restarts>>
  BY <1>1 DEF StartRun, vars, receiver
<1>3. /\ r.step = "post" /\ r.left = FixtureClients /\ r.issued = {}
      /\ r.registered = 0 /\ r.alreadyExisted = 0 /\ r.failed = 0 /\ r.handedOver = 0
  BY <1>1 DEF Run, RunInv, TurnsInv, EndInv
<1> HIDE DEF r
<1>4. ASSUME NEW u \in Runs PROVE RunInv(u)'
  <2>1. CASE u # s
    <3>1. run'[u] = run[u]
      BY <1>1, <1>2, <2>1
    <3>2. QED BY <1>2, <3>1, RunSame
  <2>2. CASE u = s
    <3>1. run'[s] = r
      BY <1>1, <1>2
    <3>2. TurnsInv(s)'
      BY <1>1, <1>2, <1>3, <3>1, DemoAssumption, FixtureLists DEF RunInv, TurnsInv
    <3>3. Passed(s)' = {} /\ \A A : PassedWith(s, A)' = {}
      BY <1>3, <3>1 DEF Passed, PassedWith
    <3>4. CountsInv(s)'
      <4>1. Issued(s, {}) = {}
        BY DEF Issued
      <4>2. QED BY <1>3, <3>1, <3>3, <4>1, EmptyCounts DEF CountsInv
    <3>5. EndInv(s)'
      BY <1>3, <3>1 DEF EndInv
    <3>6. QED BY <2>2, <3>2, <3>4, <3>5 DEF RunInv
  <2>3. QED BY <2>1, <2>2
<1>5. QED BY <1>4 DEF RunsInv

LEMMA PostRuns ==
  ASSUME DemoTypeInv, BatchesInv, RunsInv, NEW s \in Runs, PostSubscriptions(s)
  PROVE  RunsInv' /\ BatchesInv'
<1> DEFINE c == Head(run[s].left)
           q == CreationOf[s][c]
           r == [run[s] EXCEPT !.step = "wait"]
           n == [creation[q] EXCEPT !.step = "validate", !.client = c, !.todo = FixtureTypes[c]]
<1>1. /\ run \in [Runs -> Run] /\ run[s] \in Run /\ RunInv(s) /\ run[s].step = "post"
      /\ run[s].left \in Seq(Clients) /\ run[s].left # <<>> /\ IsInjective(run[s].left)
  BY RunFacts DEF PostSubscriptions, RunInv, TurnsInv
<1>2. c \in Range(FixtureClients) /\ c \in Clients /\ q \in Creations
      /\ creation[q].step = "new" /\ creation[q] \in Creation /\ RequestOK(creation[q])
      /\ creation \in [Creations -> Creation]
  BY PostIsReceive, RequestFacts DEF Receive, DemoTypeInv
<1>3. /\ run' = [run EXCEPT ![s] = r] /\ UNCHANGED <<handed, restarts>>
      /\ creation' = [creation EXCEPT ![q] = n]
  BY <1>1, <1>2 DEF PostSubscriptions, Arrive, receiver
<1>4. /\ r.step = "wait" /\ r.left = run[s].left /\ r.issued = run[s].issued
      /\ r.registered = run[s].registered /\ r.alreadyExisted = run[s].alreadyExisted
      /\ r.failed = run[s].failed /\ r.handedOver = 0
  BY <1>1 DEF Run, RunInv, EndInv
<1>5. /\ n.step = "validate" /\ n.client = c /\ n.todo = FixtureTypes[c]
      /\ n.made = {} /\ n.answer = "none"
  BY <1>2 DEF Creation, RequestOK
<1>6. /\ Range(run[s].left) = {c} \cup Range(Tail(run[s].left))
      /\ c \notin Range(Tail(run[s].left))
      /\ Range(run[s].left) \subseteq Clients
      /\ \A d \in Range(run[s].left) : creation[CreationOf[s][d]].step = "new"
  BY <1>1, ListSplit, FixtureLists DEF RunInv, TurnsInv
<1> HIDE DEF c, q, r, n
<1>14. q = CreationOf[s][c]
  BY DEF q
<1>7. run'[s] = r /\ creation'[q] = n
  BY <1>1, <1>2, <1>3
<1>8. \A u \in Runs, d \in Clients :
        CreationOf[u][d] \in Creations
        /\ (u # s \/ d # c => creation'[CreationOf[u][d]] = creation[CreationOf[u][d]])
  <2>1. TAKE u \in Runs, d \in Clients
  <2>2. CreationOf[u][d] \in Creations /\ (u # s \/ d # c => CreationOf[u][d] # q)
    BY <1>2, <1>14, DemoAssumption
  <2>3. QED BY <1>2, <1>3, <2>2
<1>9. ASSUME NEW u \in Runs, u # s PROVE RunInv(u)'
  <2>1. run'[u] = run[u]
    BY <1>1, <1>3, <1>9
  <2>2. QED BY <1>3, <1>8, <1>9, <2>1, RunSame
<1>10. TurnsInv(s)'
  BY <1>1, <1>2, <1>4, <1>6, <1>7, <1>8 DEF RunInv, TurnsInv
<1>11. CountsInv(s)'
  <2>1. Passed(s)' = Passed(s) /\ Passed(s) \subseteq Clients /\ c \notin Passed(s)
    BY <1>4, <1>6, <1>7, FixtureLists DEF Passed
  <2>2. \A d \in Passed(s) : creation'[CreationOf[s][d]] = creation[CreationOf[s][d]]
    BY <1>8, <2>1
  <2>3. \A A : PassedWith(s, A)' = PassedWith(s, A)
    BY <2>1, <2>2 DEF PassedWith, Answering, Passed
  <2>4. QED BY <1>1, <1>4, <1>7, <2>1, <2>2, <2>3 DEF RunInv, CountsInv
<1>12. EndInv(s)'
  BY <1>4, <1>7 DEF EndInv
<1>13. RunsInv'
  BY <1>9, <1>10, <1>11, <1>12 DEF RunsInv, RunInv
<1>15. ASSUME NEW u \in Runs, NEW d \in Clients PROVE BatchInv(u, d)'
  <2>1. CASE u # s \/ d # c
    BY <1>8, <2>1 DEF BatchesInv, BatchInv
  <2>2. CASE u = s /\ d = c
    BY <1>2, <1>5, <1>7, <1>14, <2>2 DEF BatchInv
  <2>3. QED BY <2>1, <2>2
<1>16. QED BY <1>13, <1>15 DEF BatchesInv

LEMMA CollectRuns ==
  ASSUME DemoTypeInv, BatchesInv, RunsInv, NEW s \in Runs, Collect(s)
  PROVE  RunsInv'
<1>0. PICK c : c = Head(run[s].left)
  OBVIOUS
<1>1. PICK q : q = CreationOf[s][c]
  OBVIOUS
<1>2. PICK left : left = Tail(run[s].left)
  OBVIOUS
<1>3. PICK answer : answer = creation[q].answer
  OBVIOUS
<1>17. Collects(s, c, q, left, answer)
  BY <1>0, <1>1, <1>2, <1>3, CollectStep
<1>4. /\ run'[s] \in Run
      /\ \A u \in Runs : u # s => run'[u] = run[u]
      /\ run[s].left # <<>> /\ c \in Range(FixtureClients) /\ c \in Clients
      /\ q \in Creations /\ creation[q].step = "done"
      /\ answer \in {"created", "conflict", "rejected", "error"}
      /\ run'[s].left = left /\ run'[s].step = (IF left = <<>> THEN "hand" ELSE "post")
      /\ run'[s].handedOver = run[s].handedOver
      /\ run'[s].registered = run[s].registered
           + (IF answer = "created" THEN Len(FixtureTypes[c]) ELSE 0)
      /\ run'[s].alreadyExisted = run[s].alreadyExisted
           + (IF answer = "conflict" THEN Len(FixtureTypes[c]) ELSE 0)
      /\ run'[s].failed = run[s].failed
           + (IF answer \in {"rejected", "error"} THEN 1 ELSE 0)
      /\ run'[s].issued = run[s].issued \cup
           (IF answer = "created"
              THEN {[client |-> c, type |-> t, by |-> q] : t \in Range(FixtureTypes[c])}
              ELSE {})
  BY <1>17 DEF Collects
<1>5. UNCHANGED <<creation, handed, restarts>> /\ run[s].step = "wait"
  BY DEF Collect, vars, receiver
<1>6. /\ RunInv(s) /\ IsInjective(run[s].left) /\ run[s].left \in Seq(Clients)
      /\ run[s].registered \in Nat /\ run[s].alreadyExisted \in Nat /\ run[s].failed \in Nat
  BY RunFacts DEF RunInv, TurnsInv
<1>7. /\ IsInjective(left) /\ Range(run[s].left) = {c} \cup Range(left) /\ c \notin Range(left)
  BY <1>0, <1>2, <1>4, <1>6, ListSplit, SMTT(30)
<1>8. TurnsInv(s)'
  BY <1>2, <1>4, <1>5, <1>6, <1>7 DEF RunInv, TurnsInv
<1>9. Passed(s)' = Passed(s) \cup {c} /\ c \notin Passed(s)
  BY <1>4, <1>6, <1>7 DEF Passed, RunInv, TurnsInv
<1>10. \A A : PassedWith(s, A)' = IF answer \in A THEN PassedWith(s, A) \cup {c}
                                               ELSE PassedWith(s, A)
  BY <1>1, <1>3, <1>4, <1>5, <1>9 DEF PassedWith, Answering
<1>11. \A A : PassedWith(s, A) \subseteq Range(FixtureClients) /\ c \notin PassedWith(s, A)
  BY <1>9 DEF PassedWith, Passed
<1>12. CountsInv(s)
  BY <1>6 DEF RunInv
<1>13. CountsInv(s)'
  <2> DEFINE W == Wanted(PassedWith(s, {"created"}))
             X == Wanted(PassedWith(s, {"conflict"}))
             F == PassedWith(s, {"rejected", "error"})
             len == Len(FixtureTypes[c])
  <2>1. /\ \A d \in Passed(s) : creation[CreationOf[s][d]].step = "done"
        /\ IsFiniteSet(W) /\ IsFiniteSet(X)
        /\ run[s].registered = Cardinality(W) /\ run[s].alreadyExisted = Cardinality(X)
        /\ run[s].failed = Cardinality(F) /\ run[s].issued = Issued(s, W)
    BY <1>5, <1>12 DEF CountsInv
  <2>2. \A d \in Passed(s)' : creation'[CreationOf[s][d]].step = "done"
    BY <1>1, <1>4, <1>5, <1>9, <2>1
  <2>3. /\ IsFiniteSet(Wanted(PassedWith(s, {"created"})'))
        /\ run'[s].registered = Cardinality(Wanted(PassedWith(s, {"created"})'))
        /\ run'[s].issued = Issued(s, Wanted(PassedWith(s, {"created"})'))
    <3>1. CASE answer = "created"
      <4>1. PassedWith(s, {"created"})' = PassedWith(s, {"created"}) \cup {c}
        BY <1>10, <3>1
      <4> DEFINE W2 == Wanted(PassedWith(s, {"created"}) \cup {c})
      <4>2. /\ IsFiniteSet(W2) /\ Cardinality(W2) = Cardinality(W) + len
            /\ W2 = W \cup {<<c, t>> : t \in Range(FixtureTypes[c])}
        BY <1>4, <1>11, <2>1, WantedAdd
      <4>3. run'[s].registered = run[s].registered + len
        BY <1>4, <3>1
      <4>4. Issued(s, W2) = Issued(s, W)
              \cup {[client |-> c, type |-> t, by |-> q] : t \in Range(FixtureTypes[c])}
        <5>1. Issued(s, {<<c, t>> : t \in Range(FixtureTypes[c])})
                = {[client |-> c, type |-> t, by |-> q] : t \in Range(FixtureTypes[c])}
          <6>1. \A t : <<c, t>>[1] = c /\ <<c, t>>[2] = t
            OBVIOUS
          <6>2. QED BY <1>1, <6>1 DEF Issued
        <5>2. \A A, B : Issued(s, A \cup B) = Issued(s, A) \cup Issued(s, B)
          BY DEF Issued
        <5> DEFINE new == {<<c, t>> : t \in Range(FixtureTypes[c])}
        <5>3. W2 = W \cup new
          BY <4>2
        <5>4. Issued(s, W2) = Issued(s, W) \cup Issued(s, new)
          BY <5>2, <5>3
        <5>5. QED BY <5>1, <5>4
      <4>5. run'[s].issued = Issued(s, W2)
        BY <1>4, <2>1, <3>1, <4>4
      <4>6. run'[s].registered = Cardinality(W2)
        BY <2>1, <4>2, <4>3
      <4>7. QED BY <4>1, <4>2, <4>5, <4>6
    <3>2. CASE answer # "created"
      <4>1. PassedWith(s, {"created"})' = PassedWith(s, {"created"})
        BY <1>10, <3>2
      <4>2. run'[s].registered = run[s].registered /\ run'[s].issued = run[s].issued
        BY <1>4, <1>6, <3>2
      <4>3. QED BY <2>1, <4>1, <4>2
    <3>3. QED BY <3>1, <3>2
  <2>4. /\ IsFiniteSet(Wanted(PassedWith(s, {"conflict"})'))
        /\ run'[s].alreadyExisted = Cardinality(Wanted(PassedWith(s, {"conflict"})'))
    <3>1. CASE answer = "conflict"
      <4>1. PassedWith(s, {"conflict"})' = PassedWith(s, {"conflict"}) \cup {c}
        BY <1>10, <3>1
      <4> DEFINE X2 == Wanted(PassedWith(s, {"conflict"}) \cup {c})
      <4>2. IsFiniteSet(X2) /\ Cardinality(X2) = Cardinality(X) + len
        BY <1>4, <1>11, <2>1, WantedAdd
      <4>3. run'[s].alreadyExisted = run[s].alreadyExisted + len
        BY <1>4, <3>1
      <4>4. QED BY <2>1, <4>1, <4>2, <4>3
    <3>2. CASE answer # "conflict"
      <4>1. PassedWith(s, {"conflict"})' = PassedWith(s, {"conflict"})
        BY <1>10, <3>2
      <4>2. run'[s].alreadyExisted = run[s].alreadyExisted
        BY <1>4, <1>6, <3>2
      <4>3. QED BY <2>1, <4>1, <4>2
    <3>3. QED BY <3>1, <3>2
  <2>5. run'[s].failed = Cardinality(PassedWith(s, {"rejected", "error"})')
    <3>1. IsFiniteSet(F)
      BY <1>11, FixtureLists, FS_Subset
    <3>2. CASE answer \in {"rejected", "error"}
      <4>1. PassedWith(s, {"rejected", "error"})' = F \cup {c}
        BY <1>10, <3>2
      <4>2. Cardinality(F \cup {c}) = Cardinality(F) + 1
        BY <1>11, <3>1, FS_AddElement
      <4>3. run'[s].failed = run[s].failed + 1
        BY <1>4, <3>2
      <4>4. QED BY <2>1, <4>1, <4>2, <4>3
    <3>3. CASE answer \notin {"rejected", "error"}
      <4>1. PassedWith(s, {"rejected", "error"})' = F
        BY <1>10, <3>3
      <4>2. run'[s].failed = run[s].failed
        BY <1>4, <1>6, <3>3
      <4>3. QED BY <2>1, <4>1, <4>2
    <3>4. QED BY <3>2, <3>3
  <2> HIDE DEF W, X, F, len
  <2>6. QED BY <2>2, <2>3, <2>4, <2>5 DEF CountsInv
<1>14. EndInv(s)'
  <2>1. run'[s].handedOver = 0
    BY <1>4, <1>5, <1>6 DEF RunInv, EndInv
  <2>2. QED BY <2>1 DEF EndInv
<1>15. ASSUME NEW u \in Runs, u # s PROVE RunInv(u)'
  <2>1. run'[u] = run[u]
    BY <1>4, <1>15
  <2>2. QED BY <1>5, <2>1, RunSame
<1>16. QED BY <1>8, <1>13, <1>14, <1>15 DEF RunsInv, RunInv

LEMMA HandOverRuns ==
  ASSUME DemoTypeInv, BatchesInv, RunsInv, NEW s \in Runs, HandOver(s)
  PROVE  RunsInv'
<1>1. /\ run \in [Runs -> Run] /\ run[s] \in Run /\ RunInv(s) /\ run[s].step = "hand"
      /\ run[s].handedOver = 0 /\ handed \subseteq handed'
      /\ UNCHANGED <<creation, restarts>>
  BY RunFacts DEF HandOver, Receives, vars, RunInv, EndInv
<1>2. ASSUME NEW u \in Runs, u # s PROVE RunInv(u)'
  <2>1. run'[u] = run[u]
    BY <1>1, <1>2 DEF HandOver
  <2>2. QED BY <1>1, <2>1, RunSame
<1>3. CASE run' = [run EXCEPT ![s].step = "failed"]
  <2>1. /\ run'[s].step = "failed" /\ run'[s].left = run[s].left
        /\ run'[s].issued = run[s].issued /\ run'[s].registered = run[s].registered
        /\ run'[s].alreadyExisted = run[s].alreadyExisted /\ run'[s].failed = run[s].failed
        /\ run'[s].handedOver = run[s].handedOver
    BY <1>1, <1>3 DEF Run
  <2>2. RunInv(s)'
    BY <1>1, <2>1, RunKept DEF UnderWay
  <2>3. QED BY <1>2, <2>2 DEF RunsInv
<1>4. CASE /\ run' = [run EXCEPT ![s].step = "done", ![s].handedOver = Cardinality(run[s].issued)]
           /\ Receives(run[s].issued)
  <2>0. handed' = handed \cup {w.by : w \in run[s].issued}
    BY <1>4 DEF Receives
  <2>1. /\ run'[s].step = "done" /\ run'[s].left = run[s].left
        /\ run'[s].issued = run[s].issued /\ run'[s].registered = run[s].registered
        /\ run'[s].alreadyExisted = run[s].alreadyExisted /\ run'[s].failed = run[s].failed
        /\ run'[s].handedOver = Cardinality(run[s].issued)
    BY <1>1, <1>4 DEF Run
  <2>2. Passed(s)' = Passed(s) /\ \A A : PassedWith(s, A)' = PassedWith(s, A)
    BY <1>1, <2>1 DEF Passed, PassedWith, Answering
  <2>3. Cardinality(run[s].issued) = run[s].registered
    BY <1>1, IssuedCount, WantedPairs DEF RunInv, CountsInv
  <2>4. TurnsInv(s)'
    BY <1>1, <2>1 DEF RunInv, TurnsInv
  <2>5. CountsInv(s)'
    BY <1>1, <2>1, <2>2 DEF RunInv, CountsInv
  <2>6. EndInv(s)'
    BY <1>1, <2>0, <2>1, <2>3 DEF EndInv
  <2>7. QED BY <1>2, <2>4, <2>5, <2>6 DEF RunsInv, RunInv
<1>5. CASE run' = [run EXCEPT ![s].step = "done"]
  <2>1. /\ run'[s].step = "done" /\ run'[s].left = run[s].left
        /\ run'[s].issued = run[s].issued /\ run'[s].registered = run[s].registered
        /\ run'[s].alreadyExisted = run[s].alreadyExisted /\ run'[s].failed = run[s].failed
        /\ run'[s].handedOver = 0
    BY <1>1, <1>5 DEF Run
  <2>2. Passed(s)' = Passed(s) /\ \A A : PassedWith(s, A)' = PassedWith(s, A)
    BY <1>1, <2>1 DEF Passed, PassedWith, Answering
  <2>3. TurnsInv(s)' /\ CountsInv(s)'
    BY <1>1, <2>1, <2>2 DEF RunInv, TurnsInv, CountsInv
  <2>4. EndInv(s)'
    BY <2>1 DEF EndInv
  <2>5. QED BY <1>2, <2>3, <2>4 DEF RunsInv, RunInv
<1>6. QED BY <1>3, <1>4, <1>5 DEF HandOver

LEMMA RestartRun ==
  ASSUME DemoTypeInv, Restart, NEW s \in Runs
  PROVE  /\ run'[s] \in Run
         /\ run'[s].left = run[s].left /\ run'[s].issued = run[s].issued
         /\ run'[s].registered = run[s].registered
         /\ run'[s].alreadyExisted = run[s].alreadyExisted /\ run'[s].failed = run[s].failed
         /\ run'[s].handedOver = run[s].handedOver
         /\ \/ run'[s].step = run[s].step
            \/ UnderWay(s) /\ run'[s].step = "failed"
<1>1. run \in [Runs -> Run] /\ run[s] \in Run
  BY DEF DemoTypeInv, DemoTypeOK
<1>2. PICK stopped \in SUBSET Others :
        run' = [u \in Runs |-> IF u \in stopped THEN [run[u] EXCEPT !.step = "failed"] ELSE run[u]]
  BY DEF Restart
<1>3. CASE s \in stopped
  <2>1. run'[s] = [run[s] EXCEPT !.step = "failed"] /\ UnderWay(s)
    BY <1>2, <1>3 DEF Others
  <2>2. QED BY <1>1, <2>1 DEF Run
<1>4. CASE s \notin stopped
  <2>1. run'[s] = run[s]
    BY <1>2, <1>4
  <2>2. QED BY <1>1, <2>1
<1>5. QED BY <1>3, <1>4

LEMMA RunsStep ==
  ASSUME DemoTypeInv, BatchesInv, RunsInv, [DemoNext]_demoVars
  PROVE  RunsInv' /\ BatchesInv'
<1>1. CASE Service \/ OtherRequests
  <2>1. UNCHANGED <<run, handed, restarts>>
    BY <1>1 DEF Service, OtherRequests, receiver
  <2>2. \A s \in Runs : RunInv(s)'
    BY <1>1, <2>1, ServiceStep, RunSame
  <2>3. QED BY <1>1, <2>2, ServiceStep DEF RunsInv
<1>2. ASSUME UNCHANGED creation PROVE BatchesInv'
  BY <1>2 DEF BatchesInv, BatchInv
<1>3. CASE \E s \in Runs : StartRun(s)
  BY <1>2, <1>3, StartRuns DEF StartRun, vars
<1>4. CASE \E s \in Runs : PostSubscriptions(s)
  BY <1>4, PostRuns
<1>5. CASE \E s \in Runs : Collect(s)
  BY <1>2, <1>5, CollectRuns DEF Collect, vars
<1>6. CASE \E s \in Runs : HandOver(s)
  BY <1>2, <1>6, HandOverRuns DEF HandOver, vars
<1>7. ASSUME NEW s \in Runs, RunFails(s) PROVE RunsInv' /\ BatchesInv'
  <2>1. /\ run \in [Runs -> Run] /\ run[s] \in Run /\ UnderWay(s)
        /\ run' = [run EXCEPT ![s] = [run[s] EXCEPT !.step = "failed"]]
        /\ UNCHANGED <<creation, handed, restarts>>
    BY <1>7 DEF RunFails, UnderWay, DemoTypeInv, DemoTypeOK, vars, receiver
  <2>2. ASSUME NEW u \in Runs PROVE RunInv(u)'
    <3>1. CASE u = s
      <4>1. /\ run'[u].left = run[u].left /\ run'[u].issued = run[u].issued
            /\ run'[u].registered = run[u].registered
            /\ run'[u].alreadyExisted = run[u].alreadyExisted
            /\ run'[u].failed = run[u].failed /\ run'[u].handedOver = run[u].handedOver
            /\ run'[u].step = "failed"
        BY <2>1, <3>1 DEF Run
      <4>2. QED BY <2>1, <3>1, <4>1, RunKept
    <3>2. CASE u # s
      <4>1. run'[u] = run[u]
        BY <2>1, <3>2
      <4>2. QED BY <2>1, <4>1, RunSame
    <3>3. QED BY <3>1, <3>2
  <2>3. QED BY <1>2, <2>1, <2>2 DEF RunsInv
<1>8. CASE Receiver \/ UNCHANGED demoVars
  <2>1. UNCHANGED <<run, creation, handed, restarts>>
    BY <1>8 DEF Receiver, Control, Webhook, Respond, Answer, demoVars, vars, receiver
  <2>2. \A s \in Runs : RunInv(s)'
    BY <2>1, RunSame
  <2>3. QED BY <1>2, <2>1, <2>2 DEF RunsInv
<1>9. CASE Restart
  <2>1. creation' = creation /\ restarts' # 0
    BY <1>9 DEF Restart, vars, DemoTypeInv
  <2>2. ASSUME NEW s \in Runs PROVE RunInv(s)'
    BY <1>9, <2>1, RestartRun, RunKept
  <2>3. QED BY <1>2, <2>1, <2>2 DEF RunsInv
<1>10. QED BY <1>1, <1>3, <1>4, <1>5, <1>6, <1>7, <1>8, <1>9 DEF DemoNext, SubscribeAll

LEMMA RegisterTypes ==
  ASSUME DemoTypeInv, NEW issued \in SUBSET Written
  PROVE  Register(issued) \in [Clients -> [EventTypes -> Creations \cup {"none"}]]
<1> SUFFICES ASSUME NEW c \in Clients, NEW t \in EventTypes
             PROVE  LET made == {w \in issued : w.client = c /\ w.type = t}
                    IN  (IF made = {} THEN secrets[c][t] ELSE (CHOOSE w \in made : TRUE).by)
                          \in Creations \cup {"none"}
  BY DEF Register
<1> DEFINE made == {w \in issued : w.client = c /\ w.type = t}
<1>1. CASE made = {}
  BY <1>1 DEF DemoTypeInv, DemoTypeOK
<1>2. CASE made # {}
  <2>1. PICK w \in Written : w = (CHOOSE v \in made : TRUE)
    BY <1>2
  <2>2. w.by \in Creations
    BY DEF Written
  <2>3. QED BY <1>2, <2>1, <2>2
<1>3. QED BY <1>1, <1>2

LEMMA DemoTypeStep ==
  ASSUME DemoTypeInv, BatchesInv, RunsInv, [DemoNext]_demoVars
  PROVE  DemoTypeInv'
<1>1. TypeInv'
  BY StepIsServiceStep, TypeStep DEF DemoTypeInv
<1>2. /\ run \in [Runs -> Run]
      /\ secrets \in [Clients -> [EventTypes -> Creations \cup {"none"}]]
      /\ handed \subseteq Creations /\ rivals \in [Runs -> SUBSET Runs]
      /\ failNext \in Nat /\ status \in Stored /\ call \in [Calls -> Call]
      /\ asked \in Nat /\ since \in Seq(Calls) /\ restarts \in Nat
  BY DEF DemoTypeInv, DemoTypeOK
<1>3. CASE Service \/ OtherRequests \/ UNCHANGED demoVars
  BY <1>1, <1>2, <1>3 DEF Service, OtherRequests, demoVars, receiver, DemoTypeInv, DemoTypeOK
<1>4. ASSUME NEW s \in Runs, NEW r \in Run, run' = [run EXCEPT ![s] = r],
             UNCHANGED receiver, rivals' \in [Runs -> SUBSET Runs]
      PROVE  DemoTypeInv'
  BY <1>1, <1>2, <1>4 DEF receiver, DemoTypeInv, DemoTypeOK
<1>5. ASSUME NEW s \in Runs,
             StartRun(s) \/ RunFails(s) \/ PostSubscriptions(s) \/ Collect(s) \/ HandOver(s)
      PROVE  DemoTypeInv'
  <2>0. run \in [Runs -> Run] /\ run[s] \in Run
    BY <1>2
  <2>1. CASE StartRun(s)
    <3> DEFINE r == [run[s] EXCEPT !.step = "post", !.left = FixtureClients]
    <3>1. r \in Run
      BY <2>0, DemoAssumption DEF Run
    <3>2. run' = [run EXCEPT ![s] = r] /\ UNCHANGED receiver
      BY <2>0, <2>1 DEF StartRun
    <3> HIDE DEF r
    <3>3. Others \subseteq Runs
      BY DEF Others
    <3>4. rivals' \in [Runs -> SUBSET Runs]
      BY <1>2, <2>1, <3>3 DEF StartRun
    <3>5. QED BY <1>4, <3>1, <3>2, <3>4
  <2>2. CASE RunFails(s)
    <3> DEFINE r == [run[s] EXCEPT !.step = "failed"]
    <3>1. r \in Run
      BY <2>0 DEF Run
    <3>2. run' = [run EXCEPT ![s] = r] /\ UNCHANGED <<receiver, rivals>>
      BY <1>2, <2>2 DEF RunFails
    <3> HIDE DEF r
    <3>3. QED BY <1>2, <1>4, <3>1, <3>2
  <2>3. CASE PostSubscriptions(s)
    <3> DEFINE r == [run[s] EXCEPT !.step = "wait"]
    <3>1. r \in Run
      BY <2>0 DEF Run
    <3>2. run' = [run EXCEPT ![s] = r] /\ UNCHANGED <<receiver, rivals>>
      BY <1>2, <2>3 DEF PostSubscriptions
    <3> HIDE DEF r
    <3>3. QED BY <1>2, <1>4, <3>1, <3>2
  <2>4. CASE Collect(s)
    <3>1. PICK r : \E c, q : run' = [run EXCEPT ![s] = r]
      BY <2>4 DEF Collect
    <3>2. PICK c, q, left, answer :
            c = Head(run[s].left) /\ q = CreationOf[s][c] /\ left = Tail(run[s].left)
            /\ answer = creation[q].answer
      OBVIOUS
    <3>3. Collects(s, c, q, left, answer)
      BY <2>4, <3>2, CollectStep
    <3>4. run'[s] \in Run
      BY <3>3 DEF Collects
    <3>5. r \in Run
      BY <1>2, <3>1, <3>4
    <3>6. UNCHANGED <<receiver, rivals>>
      BY <2>4 DEF Collect
    <3>7. QED BY <1>2, <1>4, <3>1, <3>5, <3>6
  <2>5. CASE HandOver(s)
    <3> DEFINE n == Cardinality(run[s].issued)
               r1 == [run[s] EXCEPT !.step = "done", !.handedOver = n]
               r2 == [run[s] EXCEPT !.step = "failed"]
               r3 == [run[s] EXCEPT !.step = "done"]
    <3>1. run[s].step = "hand" /\ RunInv(s) /\ run[s].issued \subseteq Written
      BY <2>5, RunFacts DEF HandOver
    <3>2. n \in Nat
      BY <3>1, IssuedCount, WantedPairs, FS_CardinalityType DEF RunInv, CountsInv
    <3>3. \E r \in {r1, r2, r3} : run' = [run EXCEPT ![s] = r]
      BY <2>0, <2>5 DEF HandOver
    <3> HIDE DEF n
    <3>4. r1 \in Run /\ r2 \in Run /\ r3 \in Run
      <4>1. r2 \in Run /\ r3 \in Run
        BY <2>0 DEF Run
      <4>2. r1 = [r3 EXCEPT !.handedOver = n]
        OBVIOUS
      <4> HIDE DEF r1, r2, r3
      <4>3. QED BY <3>2, <4>1, <4>2 DEF Run
    <3> HIDE DEF r1, r2, r3
    <3>5. run' \in [Runs -> Run]
      BY <1>2, <3>3, <3>4
    <3>6. secrets' \in [Clients -> [EventTypes -> Creations \cup {"none"}]]
      BY <1>2, <2>5, <3>1, RegisterTypes DEF HandOver, Receives
    <3>7. handed' \subseteq Creations
      <4>1. \A w \in run[s].issued : w.by \in Creations
        BY <3>1 DEF Written
      <4>2. QED BY <1>2, <2>5, <4>1 DEF HandOver, Receives
    <3>8. UNCHANGED <<rivals, failNext, status, call, asked, since, restarts>>
      BY <2>5 DEF HandOver
    <3>9. QED BY <1>1, <1>2, <3>5, <3>6, <3>7, <3>8 DEF DemoTypeInv, DemoTypeOK
  <2>6. QED BY <1>5, <2>1, <2>2, <2>3, <2>4, <2>5
<1>6. CASE Control
  <2>1. /\ status' \in Stored
        /\ UNCHANGED <<run, rivals, secrets, handed, call, restarts>>
    BY <1>6 DEF Control
  <2>3. failNext' \in Nat /\ asked' \in Nat /\ since' \in Seq(Calls)
    <3>1. CASE UNCHANGED <<failNext, asked, since>>
      BY <1>2, <3>1
    <3>2. ASSUME NEW n \in 0..MaxFailNext, failNext' = n, asked' = n, since' = <<>>
          PROVE  failNext' \in Nat /\ asked' \in Nat /\ since' \in Seq(Calls)
      BY <3>2, DemoAssumption
    <3>3. QED BY <1>6, <3>1, <3>2 DEF Control
  <2>4. QED BY <1>1, <1>2, <2>1, <2>3 DEF DemoTypeInv, DemoTypeOK
<1>7. ASSUME NEW w \in Calls, Webhook(w) PROVE DemoTypeInv'
  <2>0. call \in [Calls -> Call] /\ call[w] \in Call
    BY <1>2
  <2>1. PICK oneOff \in OneOff :
          call' = [call EXCEPT ![w] = [call[w] EXCEPT !.step = "delay", !.oneOff = oneOff]]
    BY <2>0, <1>7 DEF Webhook
  <2> DEFINE k == [call[w] EXCEPT !.step = "delay", !.oneOff = oneOff]
  <2>2. k \in Call
    BY <2>0, ZenonT(60) DEF Call
  <2> HIDE DEF k
  <2>3. call' \in [Calls -> Call]
    BY <2>0, <2>1, <2>2 DEF k
  <2>4. QED BY <1>1, <1>2, <1>7, <2>3 DEF Webhook, DemoTypeInv, DemoTypeOK
<1>8. ASSUME NEW w \in Calls, Respond(w) PROVE DemoTypeInv'
  <2> DEFINE code == IF call[w].oneOff # 0 THEN call[w].oneOff
                     ELSE IF failNext > 0 THEN 500 ELSE status
             k == [call[w] EXCEPT !.step = "done", !.status = code]
  <2>0. call \in [Calls -> Call] /\ call[w] \in Call
    BY <1>2
  <2>1. call' = [call EXCEPT ![w] = k]
    BY <2>0, <1>8, ZenonT(60) DEF Respond, Answer
  <2>2. code \in {0, 500} \cup OneOff \cup Stored
    <3>1. call[w].oneOff \in OneOff
      BY <2>0 DEF Call
    <3>2. QED BY <1>2, <3>1
  <2> HIDE DEF code
  <2>3. k \in Call
    <3> DEFINE k1 == [call[w] EXCEPT !.step = "done"]
    <3>1. k1 \in Call
      BY <2>0 DEF Call
    <3>2. k = [k1 EXCEPT !.status = code]
      OBVIOUS
    <3> HIDE DEF k, k1
    <3>3. QED BY <2>2, <3>1, <3>2 DEF Call
  <2> HIDE DEF k
  <2>4. call' \in [Calls -> Call]
    BY <1>2, <2>1, <2>3
  <2>5. failNext' \in Nat /\ since' \in Seq(Calls)
    BY <1>2, <1>8 DEF Respond, Answer
  <2>6. QED BY <1>1, <1>2, <1>8, <2>4, <2>5 DEF Respond, Answer, DemoTypeInv, DemoTypeOK
<1>9. CASE Restart
  <2>1. /\ secrets' = NoSecrets /\ handed' = {} /\ failNext' = 0 /\ status' = 200
        /\ asked' = 0 /\ since' = <<>> /\ rivals' = rivals /\ restarts' = restarts + 1
    BY <1>9 DEF Restart
  <2>2. ASSUME NEW w \in Calls PROVE [call[w] EXCEPT !.step = "done"] \in Call
    <3>1. call[w] \in Call
      BY <1>2
    <3>2. QED BY <3>1, ZenonT(60) DEF Call
  <2>3. call' \in [Calls -> Call]
    BY <1>2, <1>9, <2>2 DEF Restart
  <2>4. run' \in [Runs -> Run]
    <3>1. ASSUME NEW s \in Runs PROVE [run[s] EXCEPT !.step = "failed"] \in Run
      <4>1. run[s] \in Run
        BY <1>2
      <4>2. QED BY <4>1 DEF Run
    <3>2. QED BY <1>2, <1>9, <3>1 DEF Restart
  <2>5. NoSecrets \in [Clients -> [EventTypes -> Creations \cup {"none"}]]
    BY DEF NoSecrets
  <2>6. QED BY <1>1, <1>2, <2>1, <2>3, <2>4, <2>5 DEF DemoTypeInv, DemoTypeOK, Stored
<1>10. QED BY <1>3, <1>5, <1>6, <1>7, <1>8, <1>9 DEF DemoNext, SubscribeAll, Receiver

-----------------------------------------------------------------------------
(* Failing on demand.                                                      *)

\* Nothing was answered since the last order.
LEMMA FreshOrder ==
  ASSUME since' = <<>>, failNext' = asked', asked' \in Nat
  PROVE  FailInv'
BY DEF FailInv, FailuresAsAsked

\* The calls answered are as they were.
LEMMA SameAnswers ==
  ASSUME FailInv, UNCHANGED <<failNext, asked, since>>,
         \A i \in 1..Len(since) : call'[since[i]] = call[since[i]]
  PROVE  FailInv'
BY DEF FailInv, FailuresAsAsked

LEMMA FailStep ==
  ASSUME DemoTypeInv, FailInv, [DemoNext]_demoVars
  PROVE  FailInv'
<1>1. /\ failNext \in Nat /\ asked \in Nat /\ call \in [Calls -> Call]
      /\ status \in Stored /\ since \in Seq(Calls)
      /\ \A i \in 1..Len(since) : since[i] \in Calls /\ call[since[i]].step = "done"
  BY DEF DemoTypeInv, DemoTypeOK, FailInv
<1>2. CASE OtherRequests \/ Service \/ SubscribeAll \/ UNCHANGED demoVars
  <2>1. UNCHANGED <<failNext, call, asked, since>>
    BY <1>2 DEF OtherRequests, Service, SubscribeAll, StartRun, RunFails, PostSubscriptions,
           Collect, HandOver, demoVars, receiver
  <2>2. QED BY <2>1, SameAnswers
<1>3. CASE Control
  <2>1. CASE UNCHANGED <<failNext, asked, since>>
    <3>1. call' = call
      BY <1>3 DEF Control
    <3>2. QED BY <2>1, <3>1, SameAnswers
  <2>2. CASE since' = <<>> /\ failNext' = asked' /\ asked' \in Nat
    BY <2>2, FreshOrder
  <2>3. QED BY <1>3, <2>1, <2>2, DemoAssumption DEF Control
<1>4. CASE Restart
  BY <1>4, FreshOrder DEF Restart
<1>5. ASSUME NEW w \in Calls, Webhook(w) PROVE FailInv'
  <2>1. call[w].step = "new" /\ UNCHANGED <<failNext, asked, since>>
    BY <1>5 DEF Webhook
  <2>2. \A v \in Calls : v # w => call'[v] = call[v]
    BY <1>1, <1>5 DEF Webhook
  <2>3. QED BY <1>1, <2>1, <2>2, SameAnswers
<1>6. ASSUME NEW w \in Calls, Respond(w) PROVE FailInv'
  <2> DEFINE n == Len(since)
             code == IF call[w].oneOff # 0 THEN call[w].oneOff
                     ELSE IF failNext > 0 THEN 500 ELSE status
             k == [call[w] EXCEPT !.step = "done", !.status = code]
  <2>1. /\ call[w].step = "delay" /\ call[w] \in Call
        /\ failNext' = (IF failNext > 0 THEN failNext - 1 ELSE 0)
        /\ since' = Append(since, w) /\ asked' = asked
    BY <1>1, <1>6 DEF Respond, Answer
  <2>2. call' = [call EXCEPT ![w] = k]
    BY <1>1, <1>6, ZenonT(60) DEF Respond, Answer
  <2> HIDE DEF code
  <2>3. k.step = "done" /\ k.status = code /\ k.oneOff = call[w].oneOff
    BY <2>1 DEF Call
  <2> HIDE DEF k
  <2>4. /\ \A v \in Calls : v # w => call'[v] = call[v]
        /\ call'[w] = k
    BY <1>1, <2>2
  <2>5. /\ n \in Nat /\ Len(since') = n + 1 /\ since'[n + 1] = w
        /\ \A i \in 1..n : since'[i] = since[i] /\ since[i] \in Calls /\ since[i] # w
    BY <1>1, <2>1
  <2>6. failNext = (IF n < asked THEN asked - n ELSE 0)
    BY DEF FailInv
  <2>7. failNext' = (IF n + 1 < asked THEN asked - (n + 1) ELSE 0)
    BY <1>1, <2>1, <2>5, <2>6
  <2>8. \A i \in 1..n :
          LET v == call[since[i]]
          IN  IF v.oneOff # 0 THEN v.status = v.oneOff ELSE v.status = 500 <=> i <= asked
    BY DEF FailInv, FailuresAsAsked
  <2>9. IF k.oneOff # 0 THEN k.status = k.oneOff ELSE k.status = 500 <=> n + 1 <= asked
    <3>1. status # 500
      BY <1>1 DEF Stored
    <3>2. failNext > 0 <=> n + 1 <= asked
      BY <1>1, <2>5, <2>6
    <3>3. QED BY <2>3, <3>1, <3>2 DEF code
  <2> HIDE DEF n
  <2>10. \A i \in 1..Len(since') : i \in 1..n \/ i = n + 1
    BY <2>5
  <2>11. \A i \in 1..n : call'[since'[i]] = call[since[i]]
    BY <2>4, <2>5
  <2>12. call'[since'[n + 1]] = k
    BY <2>4, <2>5
  <2>13. FailuresAsAsked'
    BY <2>1, <2>8, <2>9, <2>10, <2>11, <2>12 DEF FailuresAsAsked
  <2>14. \A i \in 1..Len(since') : call'[since'[i]].step = "done"
    BY <1>1, <2>3, <2>10, <2>11, <2>12 DEF n
  <2>15. QED BY <2>1, <2>5, <2>7, <2>13, <2>14 DEF FailInv
<1>7. QED BY <1>2, <1>3, <1>4, <1>5, <1>6 DEF DemoNext, Receiver

-----------------------------------------------------------------------------
(* How requests, rows and runs move on.                                    *)

\* A run's request is not forgotten, an answer is final, and an event type is written by
\* a save that has it next.
RequestsMove ==
  \A s \in Runs, c \in Clients :
    LET q == CreationOf[s][c]
    IN  /\ creation[q].step # "new" => creation'[q].step # "new"
        /\ creation[q].step = "done" => creation'[q] = creation[q]
        /\ \A t \in creation'[q].made : t \in creation[q].made \/
             (q \in Creations /\ Save(q) /\ t = Head(creation[q].todo) /\ creation[q].step = "save")

LEMMA RequestsStep ==
  ASSUME DemoTypeInv, BatchesInv, RunsInv, [DemoNext]_demoVars
  PROVE  RequestsMove
<1>0. TypeInv
  BY DEF DemoTypeInv
<1>1. CASE Service \/ OtherRequests
  <2> SUFFICES ASSUME NEW s \in Runs, NEW c \in Clients, NEW q, q = CreationOf[s][c]
               PROVE  \A t \in creation'[q].made : t \in creation[q].made \/
                        (q \in Creations /\ Save(q) /\ t = Head(creation[q].todo)
                          /\ creation[q].step = "save")
    BY <1>1, ServiceStep DEF RequestsMove
  <2>1. q \in Creations
    BY DemoAssumption
  <2>2. ASSUME NEW p \in Creations,
               Validate(p) \/ FindActive(p) \/ Save(p) \/ CreationFails(p), p # q
        PROVE  creation'[q] = creation[q]
    BY <1>0, <2>1, <2>2, Advance
  <2>3. Save(q) => creation[q].step = "save"
    BY DEF Save
  <2>4. CASE Validate(q) \/ FindActive(q) \/ Save(q) \/ CreationFails(q)
    BY <1>0, <2>1, <2>3, <2>4, Advance
  <2>5. CASE OtherRequests
    <3>1. PICK p \in Creations \ OfRun : Receive(p)
      BY <2>5 DEF OtherRequests
    <3>2. p # q
      BY DEF OfRun
    <3>3. creation'[q] = creation[q]
      BY <1>0, <2>1, <3>1, <3>2, ReceiveMoves DEF Moves
    <3>4. QED BY <3>3
  <2>6. CASE \E r \in Deletions : Lookup(r) \/ Deactivate(r)
    BY <2>6 DEF Lookup, Deactivate
  <2>7. QED BY <1>1, <2>2, <2>4, <2>5, <2>6 DEF Service
<1>2. ASSUME NEW s \in Runs, PostSubscriptions(s) PROVE RequestsMove
  <2>1. PICK p \in Creations : p = CreationOf[s][Head(run[s].left)]
    BY <1>2, PostIsReceive
  <2>2. PICK c, todo : Arrive(p, c, todo)
    BY <1>2, <2>1 DEF PostSubscriptions
  <2>3. creation[p].step = "new" /\ creation[p] \in Creation
        /\ creation \in [Creations -> Creation]
    BY <1>0, <1>2, <2>1, PostIsReceive, RequestFacts DEF Receive
  <2>4. /\ \A q \in Creations : q # p => creation'[q] = creation[q]
        /\ creation'[p].step = "validate" /\ creation'[p].made = creation[p].made
    BY <2>2, <2>3 DEF Arrive, Creation
  <2>5. QED BY <2>3, <2>4, DemoAssumption DEF RequestsMove
<1>3. CASE UNCHANGED creation
  BY <1>3 DEF RequestsMove
<1>4. QED BY <1>1, <1>2, <1>3 DEF DemoNext, SubscribeAll, StartRun, RunFails, Collect, HandOver,
             Receiver, Control, Webhook, Respond, Answer, Restart, demoVars, vars

\* A row gets a new writer from a save that has it next.
RowsMove ==
  \A c \in Clients, t \in EventTypes :
    \/ Writer(c, t)' = Writer(c, t)
    \/ \E p \in Creations :
         /\ creation[p].step = "save" /\ c = creation[p].client /\ t = Head(creation[p].todo)
         /\ creation[p].todo # <<>> /\ Writer(c, t)' = p
         /\ UNCHANGED <<run, rivals, secrets, handed>>

LEMMA RowsStep ==
  ASSUME DemoTypeInv, BatchesInv, RunsInv, [DemoNext]_demoVars
  PROVE  RowsMove
<1>0. TypeInv
  BY DEF DemoTypeInv
<1>1. CASE Service
  <2>1. UNCHANGED <<run, rivals, secrets, handed>>
    BY <1>1 DEF Service, receiver
  <2>2. ASSUME NEW p \in Creations, Save(p) PROVE RowsMove
    <3>1. creation[p].step = "save" /\ creation[p].todo # <<>>
      BY <1>0, <2>2, RequestFacts DEF Save, RequestOK
    <3>2. QED BY <1>0, <2>1, <2>2, <3>1, WriterStep DEF RowsMove
  <2>3. CASE UNCHANGED table \/ \E r \in Deletions : Deactivate(r)
    BY <1>0, <2>3, WriterKept DEF RowsMove
  <2>4. QED BY <1>1, <2>2, <2>3 DEF Service, Validate, FindActive, CreationFails, Lookup
<1>2. CASE UNCHANGED table
  BY <1>0, <1>2, WriterKept DEF RowsMove
<1>3. QED BY <1>1, <1>2 DEF DemoNext, OtherRequests, Receive, Arrive, SubscribeAll, StartRun,
             RunFails, PostSubscriptions, Collect, HandOver, Receiver, Control, Webhook, Respond,
             Answer, Restart, demoVars, vars

\* A run gets under way by its start, is not taken up again once it is over, and keeps its
\* rivals.
RunsMove ==
  \A s \in Runs :
    /\ Over(s) => Over(s)'
    /\ run[s].step # "new" => rivals[s] \subseteq rivals'[s]
    /\ UnderWay(s)' => UnderWay(s) \/ (StartRun(s) /\ run[s].step = "new")

LEMMA RunsMoveStep ==
  ASSUME DemoTypeInv, BatchesInv, RunsInv, [DemoNext]_demoVars
  PROVE  RunsMove
<1>0. run \in [Runs -> Run] /\ rivals \in [Runs -> SUBSET Runs]
  BY DEF DemoTypeInv, DemoTypeOK
<1>1. CASE UNCHANGED <<run, rivals>>
  BY <1>1 DEF RunsMove, Over, UnderWay
<1>2. ASSUME NEW s \in Runs, run[s].step \notin {"new", "done", "failed"},
             \A u \in Runs : u # s => run'[u] = run[u], UNCHANGED rivals
      PROVE  RunsMove
  BY <1>2 DEF RunsMove, Over, UnderWay
<1>3. ASSUME NEW s \in Runs, StartRun(s) PROVE RunsMove
  <2>1. /\ run[s].step = "new"
        /\ rivals' = [u \in Runs |-> IF u = s THEN Others
                        ELSE IF u \in Others THEN rivals[u] \cup {s} ELSE rivals[u]]
        /\ \A u \in Runs : u # s => run'[u] = run[u]
    BY <1>0, <1>3 DEF StartRun
  <2>2. QED BY <1>3, <2>1 DEF RunsMove, Over, UnderWay
<1>4. ASSUME NEW s \in Runs, RunFails(s) \/ PostSubscriptions(s) \/ HandOver(s) PROVE RunsMove
  <2>1. run[s].step \notin {"new", "done", "failed"} /\ UNCHANGED rivals
        /\ \A u \in Runs : u # s => run'[u] = run[u]
    BY <1>0, <1>4 DEF RunFails, PostSubscriptions, HandOver
  <2>2. QED BY <1>2, <2>1
<1>5. ASSUME NEW s \in Runs, Collect(s) PROVE RunsMove
  <2>1. run[s].step \notin {"new", "done", "failed"} /\ UNCHANGED rivals
        /\ \A u \in Runs : u # s => run'[u] = run[u]
    BY <1>0, <1>5 DEF Collect
  <2>2. QED BY <1>2, <2>1
<1>6. CASE Restart
  <2>1. UNCHANGED rivals
    BY <1>6 DEF Restart
  <2>2. QED BY <1>6, <2>1, RestartRun DEF RunsMove, Over, UnderWay
<1>7. QED BY <1>1, <1>3, <1>4, <1>5, <1>6 DEF DemoNext, OtherRequests, Service, SubscribeAll,
             Receiver, Control, Webhook, Respond, Answer, demoVars

\* What the receiver is handed: the secrets of the requests of the run that made
\* subscriptions, for all their event types.
HandedMove ==
  \/ \E s \in Runs :
       /\ run[s].step = "hand"
       /\ handed' = handed \cup {CreationOf[s][c] : c \in PassedWith(s, {"created"})}
       /\ \A c \in Clients, t \in EventTypes :
            secrets'[c][t] = IF <<c, t>> \in Wanted(PassedWith(s, {"created"}))
                               THEN CreationOf[s][c] ELSE secrets[c][t]
       /\ Over(s)'
  \/ handed' = {} /\ secrets' = NoSecrets
  \/ UNCHANGED <<handed, secrets>>

\* The rows a run holds are those of its requests that made subscriptions.
LEMMA IssuedRows ==
  ASSUME DemoTypeInv, RunsInv, NEW s \in Runs, run[s].step # "new"
  PROVE  /\ {w.by : w \in run[s].issued} = {CreationOf[s][c] : c \in PassedWith(s, {"created"})}
         /\ \A c \in Clients, t \in EventTypes :
              LET made == {w \in run[s].issued : w.client = c /\ w.type = t}
              IN  IF <<c, t>> \in Wanted(PassedWith(s, {"created"}))
                    THEN made # {} /\ \A w \in made : w.by = CreationOf[s][c]
                    ELSE made = {}
<1> DEFINE P == PassedWith(s, {"created"})
           I == run[s].issued
<1>1. I = Issued(s, Wanted(P)) /\ P \subseteq Range(FixtureClients)
  BY DEF RunsInv, RunInv, CountsInv, PassedWith, Passed
<1> HIDE DEF P, I
<1>2. \A w \in I : <<w.client, w.type>> \in Wanted(P) /\ w.by = CreationOf[s][w.client]
                   /\ w.client \in P
  <2>1. TAKE w \in I
  <2>2. PICK p \in Wanted(P) :
          w = [client |-> p[1], type |-> p[2], by |-> CreationOf[s][p[1]]]
    BY <1>1 DEF Issued
  <2>3. p = <<p[1], p[2]>> /\ p[1] \in P
    BY DEF Wanted
  <2>4. QED BY <2>2, <2>3
<1>3. \A p \in Wanted(P) :
        [client |-> p[1], type |-> p[2], by |-> CreationOf[s][p[1]]] \in I
  BY <1>1 DEF Issued
<1>4. ASSUME NEW c \in P PROVE CreationOf[s][c] \in {w.by : w \in I}
  <2>1. c \in Clients /\ Range(FixtureTypes[c]) # {} /\ Range(FixtureTypes[c]) \subseteq EventTypes
    BY <1>1, FixtureLists
  <2>2. PICK t \in EventTypes : t \in Range(FixtureTypes[c])
    BY <2>1
  <2>3. <<c, t>> \in Wanted(P)
    BY <2>1, <2>2 DEF Wanted
  <2>4. [client |-> c, type |-> t, by |-> CreationOf[s][c]] \in I
    BY <1>3, <2>3
  <2>5. QED BY <2>4
<1>5. {w.by : w \in I} = {CreationOf[s][c] : c \in P}
  <2>1. \A w \in I : w.by \in {CreationOf[s][c] : c \in P}
    BY <1>2
  <2>2. \A c \in P : CreationOf[s][c] \in {w.by : w \in I}
    BY <1>4
  <2>3. QED BY <2>1, <2>2
<1>6. ASSUME NEW c \in Clients, NEW t \in EventTypes
      PROVE  LET made == {w \in I : w.client = c /\ w.type = t}
             IN  IF <<c, t>> \in Wanted(P)
                   THEN made # {} /\ \A w \in made : w.by = CreationOf[s][c]
                   ELSE made = {}
  <2>1. CASE <<c, t>> \in Wanted(P)
    <3>1. [client |-> c, type |-> t, by |-> CreationOf[s][c]] \in I
      BY <1>3, <2>1
    <3>2. QED BY <1>2, <2>1, <3>1
  <2>2. CASE <<c, t>> \notin Wanted(P)
    BY <1>2, <2>2
  <2>3. QED BY <2>1, <2>2
<1>7. QED BY <1>5, <1>6 DEF P, I

LEMMA HandedStep ==
  ASSUME DemoTypeInv, RunsInv, [DemoNext]_demoVars
  PROVE  HandedMove
<1>1. ASSUME NEW s \in Runs, HandOver(s), Receives(run[s].issued) PROVE HandedMove
  <2>1. /\ run[s].step = "hand" /\ run \in [Runs -> Run]
        /\ secrets' = Register(run[s].issued)
        /\ handed' = handed \cup {w.by : w \in run[s].issued}
    BY <1>1 DEF HandOver, Receives, DemoTypeInv, DemoTypeOK
  <2>2. handed' = handed \cup {CreationOf[s][c] : c \in PassedWith(s, {"created"})}
    BY <2>1, IssuedRows
  <2>3. ASSUME NEW c \in Clients, NEW t \in EventTypes
        PROVE  secrets'[c][t] = IF <<c, t>> \in Wanted(PassedWith(s, {"created"}))
                                  THEN CreationOf[s][c] ELSE secrets[c][t]
    <3> DEFINE made == {w \in run[s].issued : w.client = c /\ w.type = t}
    <3>1. secrets'[c][t] = IF made = {} THEN secrets[c][t] ELSE (CHOOSE w \in made : TRUE).by
      BY <2>1 DEF Register
    <3>2. IF <<c, t>> \in Wanted(PassedWith(s, {"created"}))
            THEN made # {} /\ \A w \in made : w.by = CreationOf[s][c]
            ELSE made = {}
      BY <2>1, IssuedRows
    <3> HIDE DEF made
    <3>3. made # {} => (CHOOSE w \in made : TRUE) \in made
      OBVIOUS
    <3>4. QED BY <3>1, <3>2, <3>3
  <2>4. Over(s)'
    BY <1>1, <2>1 DEF HandOver, Over, Run
  <2>5. QED BY <2>1, <2>2, <2>3, <2>4 DEF HandedMove
<1>2. CASE Restart
  BY <1>2 DEF Restart, HandedMove
<1>3. CASE UNCHANGED <<handed, secrets>>
  BY <1>3 DEF HandedMove
<1>4. QED BY <1>1, <1>2, <1>3 DEF DemoNext, OtherRequests, Service, SubscribeAll, StartRun,
             RunFails, PostSubscriptions, Collect, HandOver, Receiver, Control, Webhook, Respond,
             Answer, demoVars, receiver

-----------------------------------------------------------------------------
(* Whose secrets there are.                                                *)

\* Only a run that was started and not yet over asked for something it may still write.
LEMMA NewRunsAskNothing ==
  ASSUME DemoTypeInv, RunsInv, NEW s \in Runs, NEW c \in Clients,
         creation[CreationOf[s][c]].step # "new" \/ creation[CreationOf[s][c]].made # {}
  PROVE  run[s].step # "new" /\ creation[CreationOf[s][c]].step # "new"
<1>1. CreationOf[s][c] \in Creations
  BY DemoAssumption
<1>2. creation[CreationOf[s][c]].step # "new"
  BY <1>1, RequestFacts DEF DemoTypeInv, RequestOK
<1>3. QED BY <1>2 DEF RunsInv, RunInv, TurnsInv

LEMMA RivalsStep ==
  ASSUME DemoTypeInv, BatchesInv, RunsInv, RivalsInv, [DemoNext]_demoVars
  PROVE  RivalsInv'
<1>1. RunsMove
  BY RunsMoveStep
<1>2. ASSUME NEW s \in Runs, StartRun(s) PROVE RivalsInv'
  <2>1. /\ rivals' = [u \in Runs |-> IF u = s THEN Others
                        ELSE IF u \in Others THEN rivals[u] \cup {s} ELSE rivals[u]]
        /\ \A u \in Runs : u # s => run'[u] = run[u]
    BY <1>2 DEF StartRun, DemoTypeInv, DemoTypeOK
  <2>2. \A u \in Runs : u # s /\ UnderWay(u)' => UnderWay(u) /\ u \in Others
    BY <2>1 DEF UnderWay, Others
  <2>3. \A u \in Runs : rivals'[u] = IF u = s THEN Others
                                     ELSE IF u \in Others THEN rivals[u] \cup {s} ELSE rivals[u]
    BY <2>1
  <2> SUFFICES ASSUME NEW v \in Runs, NEW u \in Runs, v # u, UnderWay(v)', UnderWay(u)'
               PROVE  u \in rivals'[v]
    BY DEF RivalsInv
  <2>4. CASE v = s
    BY <2>2, <2>3, <2>4
  <2>5. CASE v # s /\ u = s
    BY <2>2, <2>3, <2>5
  <2>6. CASE v # s /\ u # s
    BY <2>2, <2>3, <2>6 DEF RivalsInv
  <2>7. QED BY <2>4, <2>5, <2>6
<1>3. CASE ~\E s \in Runs : StartRun(s)
  <2>1. \A s \in Runs : UnderWay(s)' => UnderWay(s) /\ rivals[s] \subseteq rivals'[s]
    BY <1>1, <1>3 DEF RunsMove, UnderWay
  <2>2. QED BY <2>1 DEF RivalsInv
<1>4. QED BY <1>2, <1>3

\* A row whose writer is a run's request is of that request's client, and one it asked for.
LEMMA DataStep ==
  ASSUME DemoTypeInv, BatchesInv, RunsInv, DataInv, [DemoNext]_demoVars
  PROVE  DataInv'
<1>1. RequestsMove /\ RowsMove
  BY RequestsStep, RowsStep
<1> SUFFICES ASSUME NEW c \in Clients, NEW d \in Clients, NEW t \in EventTypes, NEW s \in Runs,
                    Writer(c, t)' = CreationOf[s][d]
             PROVE  /\ d = c /\ t \in Range(FixtureTypes[c])
                    /\ creation'[CreationOf[s][d]].step # "new"
  BY DEF DataInv
<1>2. CASE Writer(c, t)' = Writer(c, t)
  <2>1. Writer(c, t) = CreationOf[s][d]
    BY <1>2
  <2>2. d = c /\ t \in Range(FixtureTypes[c]) /\ creation[CreationOf[s][d]].step # "new"
    BY <2>1 DEF DataInv
  <2>3. QED BY <1>1, <2>2 DEF RequestsMove
<1>3. ASSUME NEW p \in Creations, creation[p].step = "save", c = creation[p].client,
             t = Head(creation[p].todo), creation[p].todo # <<>>, Writer(c, t)' = p
      PROVE  /\ d = c /\ t \in Range(FixtureTypes[c])
             /\ creation'[CreationOf[s][d]].step # "new"
  <2>1. p = CreationOf[s][d]
    BY <1>3
  <2>2. creation[p].client = d
        /\ creation[p].made \cup Range(creation[p].todo) = Range(FixtureTypes[d])
    BY <1>3, <2>1 DEF BatchesInv, BatchInv
  <2>3. Head(creation[p].todo) \in Range(creation[p].todo)
    <3>1. creation[p].todo \in Seq(EventTypes) /\ IsInjective(creation[p].todo)
      BY RequestFacts DEF DemoTypeInv, RequestOK
    <3>2. QED BY <1>3, <3>1, ListSplit
  <2>4. creation'[p].step # "new"
    BY <1>1, <1>3, <2>1 DEF RequestsMove
  <2>5. QED BY <1>3, <2>1, <2>2, <2>3, <2>4
<1>4. QED BY <1>1, <1>2, <1>3 DEF RowsMove

LEMMA SecretsStep ==
  ASSUME DemoTypeInv, BatchesInv, RunsInv, SecretsInv, [DemoNext]_demoVars
  PROVE  SecretsInv'
<1>1. RequestsMove /\ RunsMove /\ HandedMove
  BY RequestsStep, RunsMoveStep, HandedStep
<1>2. \A s \in Runs, c \in Clients : CreationOf[s][c] \in Creations /\ CreationOf[s][c] # "none"
  BY DemoAssumption
<1>3. \A s \in Runs, c \in Clients :
        creation[CreationOf[s][c]].answer = "created" =>
          creation'[CreationOf[s][c]] = creation[CreationOf[s][c]]
  BY <1>1, CreatedAll DEF RequestsMove
<1>4. CASE UNCHANGED <<handed, secrets>>
  BY <1>1, <1>3, <1>4 DEF SecretsInv, RunsMove
<1>5. CASE handed' = {} /\ secrets' = NoSecrets
  BY <1>5 DEF SecretsInv, NoSecrets
<1>6. ASSUME NEW s \in Runs, run[s].step = "hand",
             handed' = handed \cup {CreationOf[s][c] : c \in PassedWith(s, {"created"})},
             \A c \in Clients, t \in EventTypes :
               secrets'[c][t] = IF <<c, t>> \in Wanted(PassedWith(s, {"created"}))
                                  THEN CreationOf[s][c] ELSE secrets[c][t],
             Over(s)'
      PROVE  SecretsInv'
  <2> DEFINE P == PassedWith(s, {"created"})
  <2>1. \A c \in P : c \in Clients /\ creation[CreationOf[s][c]].answer = "created"
    BY FixtureLists DEF PassedWith, Answering
  <2>2. \A q \in handed' : \E u \in Runs, c \in Clients : q = CreationOf[u][c]
    BY <1>6, <2>1 DEF SecretsInv
  <2>3. ASSUME NEW u \in Runs, NEW c \in Clients, CreationOf[u][c] \in handed'
        PROVE  /\ creation'[CreationOf[u][c]].answer = "created" /\ Over(u)'
               /\ \A t \in Range(FixtureTypes[c]) : secrets'[c][t] # "none"
    <3>1. CASE CreationOf[u][c] \in handed
      <4>1. creation'[CreationOf[u][c]].answer = "created" /\ Over(u)'
        BY <1>1, <1>3, <3>1 DEF SecretsInv, RunsMove
      <4>2. c \in Range(FixtureClients)
        BY <3>1, CreatedAll DEF SecretsInv
      <4>3. Range(FixtureTypes[c]) \subseteq EventTypes
        BY <4>2, FixtureLists
      <4>4. ASSUME NEW t \in Range(FixtureTypes[c]) PROVE secrets'[c][t] # "none"
        <5>1. secrets[c][t] # "none" /\ t \in EventTypes
          BY <3>1, <4>3 DEF SecretsInv
        <5>2. secrets'[c][t] = CreationOf[s][c] \/ secrets'[c][t] = secrets[c][t]
          BY <1>6, <5>1
        <5>3. QED BY <1>2, <5>1, <5>2
      <4>5. QED BY <4>1, <4>4
    <3>2. CASE CreationOf[u][c] \notin handed
      <4>1. u = s /\ c \in P
        BY <1>6, <2>1, <2>3, <3>2, DemoAssumption
      <4>2. Range(FixtureTypes[c]) \subseteq EventTypes
        BY <4>1, FixtureLists DEF PassedWith, Passed
      <4>3. \A t \in Range(FixtureTypes[c]) : <<c, t>> \in Wanted(P)
        BY <4>1, <4>2 DEF Wanted
      <4>4. \A t \in Range(FixtureTypes[c]) : secrets'[c][t] = CreationOf[s][c]
        BY <1>6, <4>2, <4>3
      <4>5. QED BY <1>2, <1>3, <1>6, <2>1, <4>1, <4>4
    <3>3. QED BY <3>1, <3>2
  <2>4. ASSUME NEW c \in Clients, NEW t \in EventTypes, secrets'[c][t] # "none"
        PROVE  \E u \in Runs : secrets'[c][t] = CreationOf[u][c]
    <3>1. secrets'[c][t] = CreationOf[s][c] \/ secrets'[c][t] = secrets[c][t]
      BY <1>6
    <3>2. secrets[c][t] # "none" => \E u \in Runs : secrets[c][t] = CreationOf[u][c]
      BY DEF SecretsInv
    <3>3. QED BY <2>4, <3>1, <3>2
  <2>5. QED BY <2>2, <2>3, <2>4 DEF SecretsInv
<1>7. QED BY <1>1, <1>4, <1>5, <1>6 DEF HandedMove

LEMMA OverlapStep ==
  ASSUME DemoTypeInv, BatchesInv, RunsInv, SecretsInv, DataInv, RivalsInv, OverlapInv,
         [DemoNext]_demoVars
  PROVE  OverlapInv'
<1>1. RequestsMove /\ RowsMove /\ RunsMove /\ HandedMove
  BY RequestsStep, RowsStep, RunsMoveStep, HandedStep
<1> SUFFICES ASSUME NEW s \in Runs, NEW u \in Runs, NEW c \in Clients, NEW t \in EventTypes,
                    s # u, Writer(c, t)' = CreationOf[s][c],
                    t \in creation'[CreationOf[u][c]].made, UnderWay(u)'
             PROVE  u \in rivals'[s] \/ (Over(s)' /\ CreationOf[s][c] \notin handed')
  BY DEF OverlapInv
<1> DEFINE q == CreationOf[s][c]
           p == CreationOf[u][c]
<1>2. q \in Creations /\ p \in Creations /\ q # p
  BY DemoAssumption
<1>3. /\ t \in creation[p].made \/
           (Save(p) /\ t = Head(creation[p].todo) /\ creation[p].step = "save")
  BY <1>1 DEF RequestsMove
<1>4. UnderWay(u) /\ creation[p].step # "new"
  <2>1. creation[p].step # "new" \/ creation[p].made # {}
    BY <1>3
  <2>2. run[u].step # "new" /\ creation[p].step # "new"
    BY <2>1, NewRunsAskNothing
  <2>3. QED BY <1>1, <2>2 DEF RunsMove
<1>5. ASSUME run[s].step # "new", u \in rivals[s] PROVE u \in rivals'[s]
  BY <1>1, <1>5 DEF RunsMove
\* The row was the run's before: it has its rivals, or it was over and stays without a claim.
<1>6. CASE Writer(c, t)' = Writer(c, t)
  <2>1. Writer(c, t) = q
    BY <1>6
  <2>2. creation[q].step # "new"
    BY <2>1 DEF DataInv
  <2>3. run[s].step # "new"
    BY <2>2, NewRunsAskNothing
  <2>4. CASE t \in creation[p].made
    <3>1. u \in rivals[s] \/ (Over(s) /\ q \notin handed)
      BY <1>4, <2>1, <2>4 DEF OverlapInv
    <3>2. CASE u \in rivals[s]
      BY <1>5, <2>3, <3>2
    <3>3. CASE Over(s) /\ q \notin handed
      <4>1. Over(s)'
        BY <1>1, <3>3 DEF RunsMove
      <4>2. ASSUME NEW v \in Runs, run[v].step = "hand",
                   handed' = handed \cup {CreationOf[v][d] : d \in PassedWith(v, {"created"})}
            PROVE  q \notin handed'
        <5>1. v # s
          BY <3>3, <4>2 DEF Over
        <5>2. \A d \in PassedWith(v, {"created"}) : d \in Clients
          BY FixtureLists DEF PassedWith, Answering
        <5>3. QED BY <3>3, <4>2, <5>1, <5>2, DemoAssumption
      <4>3. q \notin handed'
        BY <1>1, <3>3, <4>2 DEF HandedMove
      <4>4. QED BY <4>1, <4>3
    <3>4. QED BY <3>1, <3>2, <3>3
  <2>5. CASE Save(p) /\ t = Head(creation[p].todo) /\ creation[p].step = "save"
    <3>1. creation[p].client = c
      BY <1>4 DEF BatchesInv, BatchInv
    <3>2. Writer(c, t)' = p
      BY <1>2, <2>5, <3>1, WriterStep DEF DemoTypeInv
    <3>3. QED BY <1>2, <3>2
  <2>6. QED BY <1>3, <2>4, <2>5
\* The run writes the row now: it is under way, or has been cut short and is never heard of.
<1>7. CASE /\ creation[q].step = "save"
           /\ UNCHANGED <<run, rivals, secrets, handed>>
  <2>1. run[s].step # "new"
    BY <1>7, NewRunsAskNothing
  <2>2. CASE Over(s)
    <3>1. q \notin handed
      <4>1. creation[q].answer # "created"
        BY <1>2, <1>7, RequestFacts DEF DemoTypeInv, RequestOK
      <4>2. QED BY <4>1 DEF SecretsInv
    <3>2. QED BY <1>1, <1>7, <2>2, <3>1 DEF RunsMove
  <2>3. CASE ~Over(s)
    <3>1. UnderWay(s)
      BY <2>1, <2>3 DEF Over, UnderWay
    <3>2. QED BY <1>4, <1>5, <2>1, <3>1 DEF RivalsInv
  <2>4. QED BY <2>2, <2>3
<1>8. QED
  <2>1. Writer(c, t)' = q
    OBVIOUS
  <2> HIDE DEF q, p
  <2>2. QED BY <1>1, <1>6, <1>7, <2>1 DEF RowsMove

LEMMA ReplacedStep ==
  ASSUME DemoTypeInv, BatchesInv, RunsInv, SecretsInv, DataInv, OverlapInv, ReplacedInv,
         [DemoNext]_demoVars
  PROVE  ReplacedInv'
<1>1. RequestsMove /\ RowsMove /\ RunsMove /\ HandedMove
  BY RequestsStep, RowsStep, RunsMoveStep, HandedStep
<1> SUFFICES ASSUME NEW s \in Runs, NEW u \in Runs, NEW c \in Clients, NEW t \in EventTypes,
                    s # u, Writer(c, t)' = CreationOf[s][c], CreationOf[s][c] \in handed',
                    secrets'[c][t] = CreationOf[u][c]
             PROVE  u \in rivals'[s]
  BY DEF ReplacedInv
<1> DEFINE q == CreationOf[s][c]
           p == CreationOf[u][c]
<1>2. q \in Creations /\ p \in Creations /\ q # p /\ q # "none" /\ p # "none"
  BY DemoAssumption
<1>3. q \in handed => creation[q].step = "done" /\ Over(s) /\ run[s].step # "new"
  BY CreatedAll DEF SecretsInv, Over
<1>4. ASSUME q \in handed, u \in rivals[s] PROVE u \in rivals'[s]
  BY <1>1, <1>3, <1>4 DEF RunsMove
<1>5. CASE Writer(c, t)' = Writer(c, t)
  <2>1. Writer(c, t) = q
    BY <1>5
  <2>2. c = c /\ t \in Range(FixtureTypes[c]) /\ creation[q].step # "new"
    BY <2>1 DEF DataInv
  <2>3. CASE UNCHANGED <<handed, secrets>>
    BY <1>4, <2>1, <2>3 DEF ReplacedInv
  <2>4. CASE handed' = {}
    BY <2>4
  <2>5. ASSUME NEW v \in Runs, run[v].step = "hand",
               handed' = handed \cup {CreationOf[v][d] : d \in PassedWith(v, {"created"})},
               secrets'[c][t] = IF <<c, t>> \in Wanted(PassedWith(v, {"created"}))
                                  THEN CreationOf[v][c] ELSE secrets[c][t]
        PROVE  u \in rivals'[s]
    <3> DEFINE P == PassedWith(v, {"created"})
    <3>1. \A d \in P : d \in Clients /\ creation[CreationOf[v][d]].answer = "created"
      BY FixtureLists DEF PassedWith, Answering
    <3>2. q \in handed
      <4>1. SUFFICES ASSUME q \notin handed PROVE FALSE
        OBVIOUS
      <4>2. v = s /\ c \in P
        BY <2>5, <3>1, <4>1, DemoAssumption
      <4>3. <<c, t>> \in Wanted(P)
        BY <2>2, <4>2 DEF Wanted
      <4>4. secrets'[c][t] = q
        BY <2>5, <4>2, <4>3
      <4>5. QED BY <1>2, <4>4
    <3>3. CASE <<c, t>> \notin Wanted(P)
      <4>1. secrets[c][t] = p
        BY <2>5, <3>3
      <4>2. QED BY <1>4, <2>1, <3>2, <4>1 DEF ReplacedInv
    <3>4. CASE <<c, t>> \in Wanted(P)
      <4>1. v = u
        <5>1. CreationOf[v][c] = CreationOf[u][c]
          BY <2>5, <3>4
        <5>2. QED BY <5>1, DemoAssumption
      <4>2. c \in P /\ t \in Range(FixtureTypes[c])
        BY <3>4 DEF Wanted
      <4>3. t \in creation[p].made
        BY <3>1, <4>1, <4>2, CreatedAll
      <4>4. UnderWay(u)
        BY <2>5, <4>1 DEF UnderWay
      <4>5. u \in rivals[s]
        BY <2>1, <3>2, <4>3, <4>4 DEF OverlapInv
      <4>6. QED BY <1>4, <3>2, <4>5
    <3>5. QED BY <3>3, <3>4
  <2>6. QED BY <1>1, <2>3, <2>4, <2>5 DEF HandedMove
<1>6. CASE creation[q].step = "save" /\ UNCHANGED handed
  BY <1>3, <1>6
<1>7. QED
  <2>1. Writer(c, t)' = q
    OBVIOUS
  <2> HIDE DEF q, p
  <2>2. QED BY <1>1, <1>5, <1>6, <2>1 DEF RowsMove

\* Nothing is handed over after a run said that it did not.
LEMMA UnhandedStep ==
  ASSUME DemoTypeInv, BatchesInv, RunsInv, SecretsInv, UnhandedInv, [DemoNext]_demoVars
  PROVE  UnhandedInv'
<1>0. /\ run \in [Runs -> Run]
      /\ \A s, u \in Runs, c, d \in Clients : CreationOf[s][c] = CreationOf[u][d] => s = u
  BY DemoAssumption DEF DemoTypeInv, DemoTypeOK
<1>1. ASSUME handed' \subseteq handed,
             \A s \in Runs : run'[s].step = "done" =>
               run[s].step = "done" /\ run'[s].handedOver = run[s].handedOver
      PROVE  UnhandedInv'
  BY <1>1 DEF UnhandedInv
<1>2. ASSUME NEW s \in Runs, HandOver(s) PROVE UnhandedInv'
  <2>1. /\ run[s].step = "hand" /\ RunInv(s) /\ run[s] \in Run
        /\ \A u \in Runs : u # s => run'[u] = run[u]
    BY <1>0, <1>2, RunFacts DEF HandOver
  <2>2. \A c \in Clients : CreationOf[s][c] \notin handed
    BY <2>1 DEF SecretsInv, Over
  <2>3. ASSUME Receives(run[s].issued), NEW u \in Runs, u # s, NEW c \in Clients,
               CreationOf[u][c] \in handed'
        PROVE  CreationOf[u][c] \in handed
    <3>1. handed' = handed \cup {CreationOf[s][d] : d \in PassedWith(s, {"created"})}
      BY <2>1, <2>3, IssuedRows DEF Receives
    <3>2. PassedWith(s, {"created"}) \subseteq Clients
      BY FixtureLists DEF PassedWith, Answering
    <3>3. QED BY <1>0, <2>3, <3>1, <3>2
  <2>4. CASE UNCHANGED handed
    BY <2>1, <2>2, <2>4 DEF UnhandedInv
  <2>5. CASE /\ run' = [run EXCEPT ![s].step = "done",
                                 ![s].handedOver = Cardinality(run[s].issued)]
             /\ run[s].issued # {} /\ Receives(run[s].issued)
    <3>1. IsFiniteSet(run[s].issued)
      BY <2>1, IssuedCount, WantedPairs DEF RunInv, CountsInv
    <3>2. Cardinality(run[s].issued) # 0
      BY <2>5, <3>1, FS_EmptySet
    <3>3. run'[s].handedOver # 0
      BY <1>0, <2>1, <2>5, <3>2 DEF Run
    <3>4. ASSUME NEW u \in Runs, NEW c \in Clients, run'[u].step = "done", run'[u].handedOver = 0
          PROVE  CreationOf[u][c] \notin handed'
      <4>1. u # s
        BY <3>3, <3>4
      <4>2. CreationOf[u][c] \notin handed
        BY <2>1, <3>4, <4>1 DEF UnhandedInv
      <4>3. QED BY <2>3, <2>5, <4>1, <4>2
    <3>5. QED BY <3>4 DEF UnhandedInv
  <2>6. CASE run' = [run EXCEPT ![s].step = "failed"] /\ Receives(run[s].issued)
    <3>1. run'[s].step = "failed"
      BY <1>0, <2>1, <2>6 DEF Run
    <3>2. QED BY <2>1, <2>3, <2>6, <3>1 DEF UnhandedInv
  <2>7. QED BY <1>2, <2>4, <2>5, <2>6 DEF HandOver
<1>3. ASSUME NEW s \in Runs,
             StartRun(s) \/ RunFails(s) \/ PostSubscriptions(s)
      PROVE  UnhandedInv'
  <2>1. /\ run[s] \in Run /\ handed' = handed /\ run'[s].step # "done"
        /\ \A u \in Runs : u # s => run'[u] = run[u]
    BY <1>0, <1>3 DEF StartRun, RunFails, PostSubscriptions, receiver, Run
  <2>2. QED BY <1>1, <2>1
<1>4. ASSUME NEW s \in Runs, Collect(s) PROVE UnhandedInv'
  <2>1. PICK c, q, left, answer :
          c = Head(run[s].left) /\ q = CreationOf[s][c] /\ left = Tail(run[s].left)
          /\ answer = creation[q].answer
    OBVIOUS
  <2>2. Collects(s, c, q, left, answer)
    BY <1>4, <2>1, CollectStep
  <2>3. run'[s].step # "done" /\ \A u \in Runs : u # s => run'[u] = run[u]
    BY <2>2 DEF Collects
  <2>4. handed' = handed
    BY <1>4 DEF Collect, receiver
  <2>5. QED BY <1>1, <2>3, <2>4
<1>5. CASE Restart
  <2>1. handed' = {}
    BY <1>5 DEF Restart
  <2>2. QED BY <2>1 DEF UnhandedInv
<1>6. CASE UNCHANGED <<run, handed>>
  BY <1>1, <1>6
<1>7. QED BY <1>2, <1>3, <1>4, <1>5, <1>6 DEF DemoNext, OtherRequests, Service, SubscribeAll,
             Receiver, Control, Webhook, Respond, Answer, demoVars, receiver

-----------------------------------------------------------------------------
(* The inductive invariant.                                                *)

DemoInv ==
  /\ DemoTypeInv /\ BatchesInv /\ RunsInv /\ SecretsInv /\ DataInv
  /\ RivalsInv /\ OverlapInv /\ ReplacedInv /\ UnhandedInv /\ FailInv

LEMMA DemoInitInv == DemoInit => DemoInv
<1> SUFFICES ASSUME DemoInit PROVE DemoInv
  OBVIOUS
<1>1. TypeInv /\ Init
  BY InitInv DEF DemoInit, SafeInv
<1>2. <<>> \in Seq(Clients) /\ IsInjective(<<>>) /\ Range(<<>>) = {}
  BY EmptySeq, LenProperties DEF IsInjective, Range
<1>3. DemoTypeInv
  <2>1. run \in [Runs -> Run] /\ restarts \in Nat
    BY <1>2 DEF DemoInit, Run
  <2>2. secrets \in [Clients -> [EventTypes -> Creations \cup {"none"}]]
    BY DEF DemoInit, NoSecrets
  <2>3. call \in [Calls -> Call]
    BY DEF DemoInit, Call, NewCall, OneOff
  <2>4. /\ handed \subseteq Creations /\ rivals \in [Runs -> SUBSET Runs]
        /\ failNext \in Nat /\ status \in Stored /\ asked \in Nat /\ since \in Seq(Calls)
    BY DEF DemoInit, Stored
  <2>5. QED BY <1>1, <2>1, <2>2, <2>3, <2>4 DEF DemoTypeInv, DemoTypeOK
<1>4. \A s \in Runs, c \in Clients : CreationOf[s][c] \in Creations /\ CreationOf[s][c] # "none"
  BY DemoAssumption
<1>5. \A q \in Creations : creation[q].step = "new" /\ creation[q].made = {}
  BY <1>1 DEF Init
<1>6. BatchesInv
  BY <1>4, <1>5 DEF BatchesInv, BatchInv
<1>7. RunsInv
  <2>1. \A s \in Runs :
          /\ run[s].step = "new" /\ run[s].left = <<>> /\ run[s].issued = {}
          /\ run[s].registered = 0 /\ run[s].alreadyExisted = 0 /\ run[s].failed = 0
          /\ run[s].handedOver = 0
    BY DEF DemoInit
  <2>2. \A s \in Runs : TurnsInv(s)
    BY <1>2, <1>4, <1>5, <2>1 DEF TurnsInv
  <2>3. QED BY <2>1, <2>2 DEF RunsInv, RunInv, CountsInv, EndInv
<1>8. SecretsInv
  BY DEF SecretsInv, DemoInit, NoSecrets
<1>9. \A c \in Clients, t \in EventTypes : Writer(c, t) = "none"
  BY <1>1 DEF Init, Writer
<1>10. DataInv /\ OverlapInv /\ ReplacedInv
  BY <1>4, <1>9 DEF DataInv, OverlapInv, ReplacedInv
<1>11. RivalsInv
  BY DEF RivalsInv, UnderWay, DemoInit
<1>12. UnhandedInv
  BY DEF DemoInit, UnhandedInv
<1>13. FailInv
  BY DEF DemoInit, FailInv, FailuresAsAsked
<1>14. QED BY <1>3, <1>6, <1>7, <1>8, <1>10, <1>11, <1>12, <1>13 DEF DemoInv

LEMMA DemoStepInv == DemoInv /\ [DemoNext]_demoVars => DemoInv'
<1> SUFFICES ASSUME DemoInv, [DemoNext]_demoVars PROVE DemoInv'
  OBVIOUS
<1>1. QED BY DemoTypeStep, RunsStep, SecretsStep, DataStep, RivalsStep, OverlapStep,
             ReplacedStep, UnhandedStep, FailStep DEF DemoInv

\* What the runs, the receiver and their observations hold, at every moment of the demo.
THEOREM DemoInvariance == DemoSpec => []DemoInv
BY DemoInitInv, DemoStepInv, PTL DEF DemoSpec

-----------------------------------------------------------------------------
(* What holds.                                                             *)

\* The types of the runs, the receiver and the calls.
THEOREM DemoTypeCorrect == DemoSpec => []DemoTypeOK
<1>1. DemoInv => DemoTypeOK
  BY DEF DemoInv, DemoTypeInv
<1>2. QED BY <1>1, DemoInvariance, PTL

\* Deliveries of an active subscription whose secret the receiver was handed are verified,
\* unless the run that made it overlapped with the one whose secret the receiver has.
THEOREM HandedIsAlwaysVerified == DemoSpec => []HandedIsVerified
<1>1. ASSUME DemoInv PROVE HandedIsVerified
  <2> USE <1>1 DEF DemoInv
  <2> SUFFICES ASSUME NEW c \in Clients, NEW t \in EventTypes,
                      Active(c, t), table[c][t].data \in handed, Verdict(c, t) # "valid"
               PROVE  \E s, u \in Runs :
                        /\ CreationOf[s][c] = table[c][t].data
                        /\ CreationOf[u][c] = secrets[c][t]
                        /\ u \in rivals[s]
    BY DEF HandedIsVerified
  <2>1. table[c][t] # NoRow /\ Writer(c, t) = table[c][t].data
    BY DEF Active, Writer, NoRow
  <2>2. PICK s \in Runs, d \in Clients : table[c][t].data = CreationOf[s][d]
    BY DEF SecretsInv
  <2>3. d = c /\ t \in Range(FixtureTypes[c])
    BY <2>1, <2>2 DEF DataInv
  <2>4. secrets[c][t] # "none"
    BY <2>2, <2>3 DEF SecretsInv
  <2>5. PICK u \in Runs : secrets[c][t] = CreationOf[u][c]
    BY <2>4 DEF SecretsInv
  <2>6. secrets[c][t] # table[c][t].data
    BY <2>4 DEF Verdict
  <2>7. u # s
    BY <2>2, <2>3, <2>5, <2>6
  <2>8. u \in rivals[s]
    BY <2>1, <2>2, <2>3, <2>5, <2>7 DEF ReplacedInv
  <2>9. QED BY <2>2, <2>3, <2>5, <2>8
<1>2. QED BY <1>1, DemoInvariance, PTL

\* A run that ends has accounted for every subscription of the fixture, and what it says
\* of the secrets, all handed over or none, is so.
THEOREM RunAlwaysAccountsForAll == DemoSpec => []RunAccountsForAll
<1>1. ASSUME DemoInv PROVE RunAccountsForAll
  <2> SUFFICES ASSUME NEW s \in Runs, run[s].step = "done"
               PROVE  /\ run[s].registered = Cardinality(Wanted(Answering(s, {"created"})))
                      /\ run[s].alreadyExisted = Cardinality(Wanted(Answering(s, {"conflict"})))
                      /\ run[s].failed = Cardinality(Answering(s, {"rejected", "error"}))
                      /\ Answering(s, {"none"}) = {}
                      /\ run[s].handedOver \in {0, run[s].registered}
                      /\ LET created == {CreationOf[s][c] : c \in Answering(s, {"created"})}
                         IN  restarts = 0 =>
                               IF run[s].handedOver = 0 THEN created \cap handed = {}
                                                        ELSE created \subseteq handed
    BY DEF RunAccountsForAll
  <2>1. DemoTypeInv /\ RunsInv /\ BatchesInv /\ UnhandedInv /\ RunInv(s)
    BY <1>1 DEF DemoInv, RunsInv
  <2>2. run[s].left = <<>> /\ Range(<<>>) = {}
    BY <2>1 DEF RunInv, TurnsInv, Range
  <2>3. Passed(s) = Range(FixtureClients)
    BY <2>2 DEF Passed
  <2>4. \A A : PassedWith(s, A) = Answering(s, A)
    BY <2>3 DEF PassedWith, Answering
  <2>5. Answering(s, {"none"}) = {}
    <3> SUFFICES ASSUME NEW c \in Answering(s, {"none"}) PROVE FALSE
      OBVIOUS
    <3>1. c \in Passed(s) /\ c \in Clients /\ creation[CreationOf[s][c]].answer = "none"
      BY <2>3, FixtureLists DEF Answering
    <3>2. creation[CreationOf[s][c]].step = "done"
      BY <2>1, <3>1 DEF RunInv, CountsInv
    <3>3. QED BY <2>1, <3>1, <3>2 DEF BatchesInv, BatchInv
  <2>6. {w.by : w \in run[s].issued} = {CreationOf[s][c] : c \in Answering(s, {"created"})}
    BY <2>1, <2>4, IssuedRows
  <2>7. CASE run[s].handedOver = 0
    <3>1. \A c \in Clients : CreationOf[s][c] \notin handed
      BY <2>1, <2>7 DEF UnhandedInv
    <3>2. Answering(s, {"created"}) \subseteq Clients
      BY FixtureLists DEF Answering
    <3>3. QED BY <2>1, <2>4, <2>5, <2>7, <3>1, <3>2 DEF RunInv, CountsInv
  <2>8. CASE run[s].handedOver # 0
    BY <2>1, <2>4, <2>5, <2>6, <2>8 DEF RunInv, CountsInv, EndInv
  <2>9. QED BY <2>7, <2>8
<1>2. QED BY <1>1, DemoInvariance, PTL

\* The first calls to be answered, as many as was asked for, are answered 500 and no other
\* is, but for those whose URL names a status.
THEOREM FailuresAreAsAsked == DemoSpec => []FailuresAsAsked
<1>1. DemoInv => FailuresAsAsked
  BY DEF DemoInv, FailInv
<1>2. QED BY <1>1, DemoInvariance, PTL

-----------------------------------------------------------------------------
(* The demo implements the subscription service.                           *)

\* Beside runs, receiver and restarts the service behaves as Subscriptions says: each
\* request of a run is one that a client might send, and nothing else touches its state.
THEOREM DemoImplementsSubscriptions == DemoSpec => Spec
<1>1. DemoInit => Init
  BY DEF DemoInit
<1>2. DemoInv /\ [DemoNext]_demoVars => [Next]_vars
  BY StepIsServiceStep DEF DemoInv
<1>3. QED BY <1>1, <1>2, DemoInvariance, PTL DEF DemoSpec, Spec

\* What Subscriptions promises holds in the demo.
THEOREM DemoKeepsPromises ==
  DemoSpec => []SubscriptionsTypeOK /\ []RejectedWritesNothing
              /\ []ConflictIsAnothers /\ []DuplicatesOverlap
BY DemoImplementsSubscriptions, SubscriptionsTypeCorrect, RejectedWroteNothing,
   NoConflictWithItself, OnlyOverlapsDuplicate, PTL

=============================================================================

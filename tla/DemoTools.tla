------------------------------ MODULE DemoTools -----------------------------
(***************************************************************************)
(* The demo tools beside the subscription service: subscribe-all registers *)
(* the event types of the sample events client by client and hands the     *)
(* signing secrets to the demo receiver (simulate.ts, simulation-          *)
(* routes.ts), which verifies deliveries with them and fails on demand     *)
(* (webhook-server.ts).                                                    *)
(*                                                                         *)
(* As in Subscriptions, a creation request stands for the secrets it       *)
(* generates.                                                              *)
(***************************************************************************)
EXTENDS Subscriptions

CONSTANTS
  Runs,                  \* bound: the runs of subscribe-all
  FixtureTypes,          \* FixtureTypes[c]: the event types of client c in the fixture,
  FixtureClients,        \* and the clients, both in its order
  CreationOf,            \* CreationOf[s][c]: the request of run s for client c
  Calls,                 \* bound: the calls to /webhook
  MaxFailNext,           \* bound
  MaxControls, MaxRestarts      \* bounds

\* The requests that are not of a run are those of other clients of the API.
OfRun == {CreationOf[s][c] : s \in Runs, c \in Clients}

ASSUME DemoAssumption ==
  /\ FixtureTypes \in [Clients -> Seq(EventTypes)]
  /\ FixtureClients \in Seq(Clients) /\ FixtureClients # <<>> /\ IsInjective(FixtureClients)
  /\ \A c \in Range(FixtureClients) :
       LET types == FixtureTypes[c]
       IN  types # <<>> /\ IsInjective(types) /\ Len(types) <= MaxBatch
  /\ CreationOf \in [Runs -> [Clients -> Creations]]
  /\ \A s, u \in Runs, c, d \in Clients :
       CreationOf[s][c] = CreationOf[u][d] => s = u /\ c = d
  /\ "none" \notin Creations
  /\ MaxFailNext \in Nat /\ MaxRestarts \in Nat

VARIABLES
  run,                   \* run[s]: subscribe-all
  secrets,               \* secrets[c][t]: what the receiver verifies with
  handed,                \* the creations whose secrets it was handed and has kept
  rivals,                \* rivals[s]: the runs that were under way together with run s
                         \* (handed, rivals: observed only by properties)
  failNext, status,      \* how the receiver behaves
  call,                  \* call[w]: a delivery
  asked,                 \* the failures asked for last, and
  since,                 \* the calls answered since then, in that order (both observed
                         \* only by properties)
  controls, restarts     \* counted for the bounds

receiver == <<secrets, handed, failNext, status, call, asked, since, controls, restarts>>
demoVars == <<vars, run, rivals, receiver>>

\* left: the clients it has not passed; issued: the rows whose secrets it holds.
Run == [step : {"new", "post", "wait", "hand", "done", "failed"},
        left : Seq(Clients), issued : SUBSET Written,
        registered : Nat, alreadyExisted : Nat, failed : Nat, handedOver : Nat]

\* oneOff: the status the URL of the call names, or 0; status: what is answered.
OneOff == {0, 200, 418}
Stored == {200, 503}
Call == [step : {"new", "delay", "done"}, oneOff : OneOff, status : {0, 500} \cup OneOff \cup Stored]

NewCall == [step |-> "new", oneOff |-> 0, status |-> 0]

NoSecrets == [c \in Clients |-> [t \in EventTypes |-> "none"]]

DemoInit ==
  /\ Init
  /\ run = [s \in Runs |->
       [step |-> "new", left |-> <<>>, issued |-> {},
        registered |-> 0, alreadyExisted |-> 0, failed |-> 0, handedOver |-> 0]]
  /\ secrets = NoSecrets
  /\ handed = {}
  /\ rivals = [s \in Runs |-> {}]
  /\ failNext = 0 /\ status = 200
  /\ call = [w \in Calls |-> NewCall]
  /\ asked = 0 /\ since = <<>>
  /\ controls = 0 /\ restarts = 0

DemoTypeOK ==
  /\ run \in [Runs -> Run]
  /\ secrets \in [Clients -> [EventTypes -> Creations \cup {"none"}]]
  /\ handed \subseteq Creations
  /\ rivals \in [Runs -> SUBSET Runs]
  /\ failNext \in Nat /\ status \in Stored
  /\ call \in [Calls -> Call]
  /\ asked \in Nat /\ since \in Seq(Calls)

-----------------------------------------------------------------------------
(* subscribe-all.                                                          *)

UnderWay(s) == run[s].step \notin {"new", "done", "failed"}

Others == {s \in Runs : UnderWay(s)}

StartRun(s) ==
  /\ run[s].step = "new"
  /\ run' = [run EXCEPT ![s].step = "post", ![s].left = FixtureClients]
  /\ rivals' = [u \in Runs |-> IF u = s THEN Others
                               ELSE IF u \in Others THEN rivals[u] \cup {s} ELSE rivals[u]]
  /\ UNCHANGED <<vars, receiver>>

\* The token is refused (tokenFor, which comes before each client's request and changes
\* nothing), or a fetch throws: the run is over, with the secrets it was given.
RunFails(s) ==
  /\ run[s].step \in {"post", "wait", "hand"}
  /\ run[s].step = "hand" => run[s].issued # {}
  /\ run' = [run EXCEPT ![s].step = "failed"]
  /\ UNCHANGED <<vars, rivals, receiver>>

\* POST /subscriptions, with all event types of the client.
PostSubscriptions(s) ==
  /\ run[s].step = "post"
  /\ LET c == Head(run[s].left)
     IN  Arrive(CreationOf[s][c], c, FixtureTypes[c])
  /\ run' = [run EXCEPT ![s].step = "wait"]
  /\ UNCHANGED <<rivals, receiver>>

\* What the run makes of the answer: a conflict is one of the whole batch.
Collected(r, c, q) ==
  CASE creation[q].answer = "created" ->
         [r EXCEPT !.registered = @ + Cardinality(creation[q].made),
                   !.issued = @ \cup {[client |-> c, type |-> t, by |-> q] : t \in creation[q].made}]
    [] creation[q].answer = "conflict" ->
         [r EXCEPT !.alreadyExisted = @ + Len(FixtureTypes[c])]
    [] OTHER -> [r EXCEPT !.failed = @ + 1]

Collect(s) ==
  /\ run[s].step = "wait"
  /\ LET c == Head(run[s].left)
         q == CreationOf[s][c]
         left == Tail(run[s].left)
     IN  /\ creation[q].step = "done"
         /\ run' = [run EXCEPT ![s] = Collected(
              [@ EXCEPT !.left = left, !.step = IF left = <<>> THEN "hand" ELSE "post"], c, q)]
  /\ UNCHANGED <<vars, rivals, receiver>>

\* A mistake in the receiver: it keeps the secret it has.
KeepFirst(issued) ==
  [c \in Clients |-> [t \in EventTypes |->
     IF secrets[c][t] # "none" THEN secrets[c][t]
     ELSE LET made == {w \in issued : w.client = c /\ w.type = t}
          IN  IF made = {} THEN "none" ELSE (CHOOSE w \in made : TRUE).by]]

\* POST /secrets: a secret replaces the one there was.
Register(issued) ==
  [c \in Clients |-> [t \in EventTypes |->
     LET made == {w \in issued : w.client = c /\ w.type = t}
     IN  IF made = {} THEN secrets[c][t] ELSE (CHOOSE w \in made : TRUE).by]]

Receives(issued) ==
  /\ secrets' = Register(issued)
  /\ handed' = handed \cup {w.by : w \in issued}

\* A mistake in the hand-over: it is counted whatever the receiver answers.
HandOverUnchecked(s) ==
  /\ run[s].step = "hand"
  /\ run' = [run EXCEPT ![s].step = "done", ![s].handedOver = Cardinality(run[s].issued)]
  /\ \/ Receives(run[s].issued)
     \/ UNCHANGED <<secrets, handed>>
  /\ UNCHANGED <<vars, rivals, failNext, status, call, asked, since, controls, restarts>>

\* The secrets go to the receiver, whose answer may not come back.  Without a secret, or a
\* URL of the receiver, or if it answers with an error, the run ends and nothing was
\* handed over.
HandOver(s) ==
  /\ run[s].step = "hand"
  /\ \/ /\ run[s].issued # {}
        /\ Receives(run[s].issued)
        /\ \/ run' = [run EXCEPT ![s].step = "done",
                                 ![s].handedOver = Cardinality(run[s].issued)]
           \/ run' = [run EXCEPT ![s].step = "failed"]
     \/ run' = [run EXCEPT ![s].step = "done"] /\ UNCHANGED <<secrets, handed>>
  /\ UNCHANGED <<vars, rivals, failNext, status, call, asked, since, controls, restarts>>

\* Other clients of the subscription service.
OtherRequests ==
  /\ \E q \in Creations \ OfRun : Receive(q)
  /\ UNCHANGED <<run, rivals, receiver>>

Service ==
  /\ \/ \E q \in Creations : Validate(q) \/ FindActive(q) \/ Save(q) \/ CreationFails(q)
     \/ \E r \in Deletions : Lookup(r) \/ Deactivate(r)
  /\ UNCHANGED <<run, rivals, receiver>>

\* The process of the demo tools starts again: the secrets and the behaviour were in its
\* memory.  A run over HTTP is over with it, a run of the command line goes on.
Restart ==
  /\ restarts < MaxRestarts
  /\ restarts' = restarts + 1
  /\ secrets' = NoSecrets /\ handed' = {}
  /\ failNext' = 0 /\ status' = 200
  /\ call' = [w \in Calls |->
       IF call[w].step = "delay" THEN [call[w] EXCEPT !.step = "done"] ELSE call[w]]
  /\ asked' = 0 /\ since' = <<>>
  /\ \E stopped \in SUBSET Others :
       run' = [s \in Runs |-> IF s \in stopped THEN [run[s] EXCEPT !.step = "failed"] ELSE run[s]]
  /\ UNCHANGED <<vars, rivals, controls>>

-----------------------------------------------------------------------------
(* The receiver.                                                           *)

\* POST /control: fail the next n calls, answer the others with s, or both; a reset is an
\* order of none and 200.
Control ==
  /\ controls < MaxControls
  /\ controls' = controls + 1
  /\ status' \in Stored
  /\ \/ \E n \in 0..MaxFailNext : failNext' = n /\ asked' = n /\ since' = <<>>
     \/ UNCHANGED <<failNext, asked, since>>
  /\ UNCHANGED <<vars, run, rivals, secrets, handed, call, restarts>>

\* POST /webhook: the signature is verified, and the delay begins, if there is one.
Webhook(w) ==
  /\ call[w].step = "new"
  /\ \E oneOff \in OneOff : call' = [call EXCEPT ![w].step = "delay", ![w].oneOff = oneOff]
  /\ UNCHANGED <<vars, run, rivals, secrets, handed, failNext, status, asked, since, controls,
                 restarts>>

\* What the answer to w is when it uses a failure up, or does not: the status in the URL
\* comes before either.
Answer(w, fails) ==
  /\ call' = [call EXCEPT ![w].step = "done",
       ![w].status = IF call[w].oneOff # 0 THEN call[w].oneOff
                     ELSE IF fails THEN 500 ELSE status]
  /\ since' = Append(since, w)
  /\ UNCHANGED <<vars, run, rivals, secrets, handed, status, asked, controls, restarts>>

\* A mistake in the handler: failNext is not compared with 0.
RespondUnchecked(w) ==
  /\ call[w].step = "delay"
  /\ failNext' = failNext - 1
  /\ Answer(w, failNext # 0)

\* After the delay: a failure on demand is used up, even if the URL names a status.
Respond(w) ==
  /\ call[w].step = "delay"
  /\ failNext' = IF failNext > 0 THEN failNext - 1 ELSE 0
  /\ Answer(w, failNext > 0)

\* verifySignature, of a fresh delivery that the service signed with a subscription's
\* secret: the one of the pair, or the fallback, which is none.
Verdict(c, t) ==
  CASE secrets[c][t] = "none" -> "unverified"
    [] secrets[c][t] = table[c][t].data -> "valid"
    [] OTHER -> "invalid"

SubscribeAll ==
  \E s \in Runs :
    \/ StartRun(s) \/ RunFails(s) \/ PostSubscriptions(s) \/ Collect(s) \/ HandOver(s)

Receiver ==
  \/ Control
  \/ \E w \in Calls : Webhook(w) \/ Respond(w)

DemoNext == OtherRequests \/ Service \/ SubscribeAll \/ Receiver \/ Restart

DemoSpec == DemoInit /\ [][DemoNext]_demoVars

-----------------------------------------------------------------------------
(* What holds.                                                             *)

\* "Where to hand the signing secrets, so deliveries are actually verified": once the
\* receiver was handed the secret of an active subscription, it finds its deliveries
\* valid, however often the subscription was made and deactivated, unless the run that
\* made it overlapped with another.
HandedIsVerified ==
  \A c \in Clients, t \in EventTypes :
    Active(c, t) /\ table[c][t].data \in handed /\ Verdict(c, t) # "valid" =>
      \E s, u \in Runs :
        /\ CreationOf[s][c] = table[c][t].data
        /\ CreationOf[u][c] = secrets[c][t]
        /\ u \in rivals[s]

\* The clients of the fixture whose request of run s was answered in one of these ways,
\* and the subscriptions the fixture asks for on behalf of some clients.
Answering(s, answers) ==
  {c \in Range(FixtureClients) : creation[CreationOf[s][c]].answer \in answers}

Wanted(clients) ==
  {p \in Clients \X EventTypes : p[1] \in clients /\ p[2] \in Range(FixtureTypes[p[1]])}

\* A run that ends accounts for every subscription of the fixture: it was registered, or
\* in a batch with one that was there, or is in a client's failure.  And it is right about
\* the secrets: it says that the receiver has those of all it registered, or none, as it is.
RunAccountsForAll ==
  \A s \in Runs : run[s].step = "done" =>
    /\ run[s].registered = Cardinality(Wanted(Answering(s, {"created"})))
    /\ run[s].alreadyExisted = Cardinality(Wanted(Answering(s, {"conflict"})))
    /\ run[s].failed = Cardinality(Answering(s, {"rejected", "error"}))
    /\ Answering(s, {"none"}) = {}
    /\ run[s].handedOver \in {0, run[s].registered}
    /\ LET created == {CreationOf[s][c] : c \in Answering(s, {"created"})}
       IN  restarts = 0 => IF run[s].handedOver = 0 THEN created \cap handed = {}
                                                    ELSE created \subseteq handed

\* Failures are asked for, not left to chance: of the calls answered since an order of n
\* failures the first n are answered 500 and no other one is, however the delays of
\* concurrent calls overlap and whatever other status is set meanwhile.  A call whose URL
\* names a status gets that one, and is counted all the same.
FailuresAsAsked ==
  \A i \in 1..Len(since) :
    LET w == call[since[i]]
    IN  IF w.oneOff # 0 THEN w.status = w.oneOff ELSE w.status = 500 <=> i <= asked

=============================================================================

--------------------------- MODULE Subscriptions ----------------------------
(***************************************************************************)
(* The subscription service: clients register a webhook for a batch of     *)
(* event types and deactivate subscriptions (create-subscription.ts,       *)
(* subscription-queries.ts) in a table with one row per client and event   *)
(* type (subscription-repository.ts).  Requests run concurrently, and each *)
(* await is a step.                                                        *)
(*                                                                         *)
(* A creation request generates at most one id and one secret per event    *)
(* type, so the request stands for both, and for the URL and the method it *)
(* carries.                                                                *)
(***************************************************************************)
EXTENDS Integers, SequencesExt

CONSTANTS
  Clients, EventTypes,
  Blank,                 \* an event type that trims to nothing
  Creations, Deletions,  \* bounds: the requests of one behaviour
  MaxBatch,              \* bound: the event types in one request
  StoreFaults            \* may a statement fail?

ASSUME SubscriptionsAssumption ==
  /\ Blank \notin EventTypes
  /\ MaxBatch \in Nat \ {0}
  /\ StoreFaults \in BOOLEAN

VARIABLES
  table,                 \* table[c][t]: the row of client c and event type t
  creation, deletion,    \* the requests
  live,                  \* the creations that wrote a row since it was last deactivated
  seen                   \* seen[q]: what live was when q arrived
                         \* (live and seen: observed only by properties)

vars == <<table, creation, deletion, live, seen>>

NoRow == [status |-> "NONE"]
Row == [id : Creations, data : Creations, status : {"ACTIVE", "INACTIVE"}]

\* todo: the event types the loop has not passed; made: those it saved.
Creation == [step : {"new", "validate", "find", "save", "done"}, client : Clients \cup {"none"},
             todo : Seq(EventTypes), made : SUBSET EventTypes,
             answer : {"none", "created", "conflict", "rejected", "error"}]

Deletion == [step : {"new", "deactivate", "done"}, client : Clients \cup {"none"},
             id : Creations \cup {"none"}, type : EventTypes \cup {"none"}]

Written == [client : Clients, type : EventTypes, by : Creations]

Init ==
  /\ table = [c \in Clients |-> [t \in EventTypes |-> NoRow]]
  /\ creation = [q \in Creations |->
       [step |-> "new", client |-> "none", todo |-> <<>>, made |-> {}, answer |-> "none"]]
  /\ deletion = [r \in Deletions |->
       [step |-> "new", client |-> "none", id |-> "none", type |-> "none"]]
  /\ live = {}
  /\ seen = [q \in Creations |-> {}]

SubscriptionsTypeOK ==
  /\ table \in [Clients -> [EventTypes -> Row \cup {NoRow}]]
  /\ creation \in [Creations -> Creation]
  /\ deletion \in [Deletions -> Deletion]
  /\ live \subseteq Written
  /\ seen \in [Creations -> SUBSET Written]

Active(c, t) == table[c][t].status = "ACTIVE"

-----------------------------------------------------------------------------
(* Creation.                                                               *)

\* What the request schema lets through.
Batches == BoundedSeq(EventTypes \cup {Blank}, MaxBatch) \ {<<>>}

Orders(types) ==
  {s \in BoundedSeq(EventTypes, MaxBatch) : Range(s) = Range(types) \ {Blank}}

\* A mistake in dedupe: it only drops blanks.
DedupeNothing(types) == Orders(types)

\* What is left of a list without blanks and repetitions.  Its order is left open, since
\* a client may write every order.
Dedupe(types) == {s \in Orders(types) : IsInjective(s)}

Answered(q, answer) ==
  creation' = [creation EXCEPT ![q].step = "done", ![q].answer = answer]

\* The loop goes on with the event types in todo, or is through.
Proceed(q, todo, made) ==
  creation' = [creation EXCEPT
    ![q].step = IF todo = <<>> THEN "done" ELSE "find",
    ![q].answer = IF todo = <<>> THEN "created" ELSE "none",
    ![q].todo = todo,
    ![q].made = made]

\* A request of client c arrives, with todo left of its list.
Arrive(q, c, todo) ==
  /\ creation' = [creation EXCEPT ![q].step = "validate", ![q].client = c, ![q].todo = todo]
  /\ seen' = [seen EXCEPT ![q] = live]
  /\ UNCHANGED <<table, deletion, live>>

Receive(q) ==
  /\ creation[q].step = "new"
  /\ \E c \in Clients, types \in Batches : \E todo \in Dedupe(types) : Arrive(q, c, todo)

\* The destination is judged once, before anything is written.
Validate(q) ==
  /\ creation[q].step = "validate"
  /\ Answered(q, "rejected") \/ Proceed(q, creation[q].todo, {})
  /\ UNCHANGED <<table, deletion, live, seen>>

\* A mistake in execute: the unique constraint is trusted, nothing is looked up.
FindSkipped(q) ==
  /\ creation[q].step = "find"
  /\ creation' = [creation EXCEPT ![q].step = "save"]
  /\ UNCHANGED <<table, deletion, live, seen>>

FindActive(q) ==
  /\ creation[q].step = "find"
  /\ IF Active(creation[q].client, Head(creation[q].todo))
       THEN Answered(q, "conflict")
       ELSE creation' = [creation EXCEPT ![q].step = "save"]
  /\ UNCHANGED <<table, deletion, live, seen>>

\* INSERT ... ON CONFLICT (client_id, event_type) DO UPDATE: an existing row takes over
\* everything except the id.
Upsert(q, c, t) ==
  /\ table' = [table EXCEPT ![c][t] =
       [id |-> IF @ = NoRow THEN q ELSE @.id, data |-> q, status |-> "ACTIVE"]]
  /\ live' = live \cup {[client |-> c, type |-> t, by |-> q]}

\* A mistake in execute: the destination is judged after the row is written.
SaveThenValidate(q) ==
  /\ creation[q].step = "save"
  /\ LET t == Head(creation[q].todo)
     IN  /\ Upsert(q, creation[q].client, t)
         /\ \/ Proceed(q, Tail(creation[q].todo), creation[q].made \cup {t})
            \/ Answered(q, "rejected")
  /\ UNCHANGED <<deletion, seen>>

Save(q) ==
  /\ creation[q].step = "save"
  /\ LET t == Head(creation[q].todo)
     IN  /\ Upsert(q, creation[q].client, t)
         /\ \/ Proceed(q, Tail(creation[q].todo), creation[q].made \cup {t})
            \/ StoreFaults /\ Answered(q, "error")
  /\ UNCHANGED <<deletion, seen>>

\* A look-up or a write that had no effect ends the request, whatever it wrote before.
CreationFails(q) ==
  /\ StoreFaults
  /\ creation[q].step \in {"find", "save"}
  /\ Answered(q, "error")
  /\ UNCHANGED <<table, deletion, live, seen>>

-----------------------------------------------------------------------------
(* Deactivation.                                                           *)

\* findById and belongsTo: a row of somebody else is "not found".
Lookup(r) ==
  /\ deletion[r].step = "new"
  /\ \E c, owner \in Clients, t \in EventTypes :
       /\ table[owner][t] # NoRow
       /\ deletion' = [deletion EXCEPT ![r] =
            IF owner = c
              THEN [step |-> "deactivate", client |-> c, id |-> table[c][t].id, type |-> t]
              ELSE [@ EXCEPT !.step = "done", !.client = c]]
  /\ UNCHANGED <<table, creation, live, seen>>

\* A mistake in delete: a status the schema does not know.
DeactivateAsDeleted(r) ==
  /\ deletion[r].step = "deactivate"
  /\ LET c == deletion[r].client
         t == deletion[r].type
     IN  /\ table' = [table EXCEPT ![c][t].status = "DELETED"]
         /\ live' = {w \in live : w.client # c \/ w.type # t}
  /\ deletion' = [deletion EXCEPT ![r].step = "done"]
  /\ UNCHANGED <<creation, seen>>

\* The UPDATE names the id alone: it deactivates what the row holds by now.
Deactivate(r) ==
  /\ deletion[r].step = "deactivate"
  /\ LET c == deletion[r].client
         t == deletion[r].type
     IN  \/ /\ table[c][t].id = deletion[r].id
            /\ table' = [table EXCEPT ![c][t].status = "INACTIVE"]
            /\ live' = {w \in live : w.client # c \/ w.type # t}
         \/ StoreFaults /\ UNCHANGED <<table, live>>
  /\ deletion' = [deletion EXCEPT ![r].step = "done"]
  /\ UNCHANGED <<creation, seen>>

-----------------------------------------------------------------------------
Next ==
  \/ \E q \in Creations :
       \/ Receive(q) \/ Validate(q) \/ FindActive(q) \/ Save(q)
       \/ CreationFails(q)
  \/ \E r \in Deletions : Lookup(r) \/ Deactivate(r)

Spec == Init /\ [][Next]_vars

-----------------------------------------------------------------------------
(* What holds.                                                             *)

\* "A rejected destination must not leave half a batch of subscriptions behind"
\* (CreateSubscription): a request whose URL was refused wrote no row.
RejectedWritesNothing ==
  \A q \in Creations :
    creation[q].answer = "rejected" => \A c \in Clients, t \in EventTypes :
      table[c][t] # NoRow => table[c][t].data # q /\ table[c][t].id # q

\* A batch never conflicts with itself: behind a 409 there is a subscription some other
\* request made, however the client wrote its list.
ConflictIsAnothers ==
  \A q \in Creations :
    creation[q].answer = "conflict" => Head(creation[q].todo) \notin creation[q].made

\* The look-up before the upsert is a check that two requests may pass at once, and only
\* then: of two creations that wrote one row with no deactivation in between, neither
\* arrived after the other had written.
DuplicatesOverlap ==
  \A v, w \in live :
    v.client = w.client /\ v.type = w.type /\ v.by # w.by => v \notin seen[w.by]

-----------------------------------------------------------------------------
(* What does not.                                                          *)

\* docs/api/openapi.yaml: "each subscription is issued its own signing secret, returned
\* exactly once in this response".  Stated: the secret that signs the deliveries of an
\* active subscription was returned to its client, once the request that wrote it ended.
ActiveSecretWasReturned ==
  \A c \in Clients, t \in EventTypes :
    Active(c, t) /\ creation[table[c][t].data].step = "done" =>
      creation[table[c][t].data].answer = "created"
=============================================================================

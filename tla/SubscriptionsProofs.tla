------------------------ MODULE SubscriptionsProofs -------------------------
(***************************************************************************)
(* Proofs about Subscriptions, for any clients, event types and requests.  *)
(***************************************************************************)
EXTENDS Subscriptions, SequenceTheorems, TLAPS

\* A request past its arrival has a client and a list without repetitions, none of which
\* it saved yet; the list is not used up while the request works on it.
RequestOK(r) ==
  /\ r.step # "new" => r.client \in Clients
  /\ r.step # "done" => r.answer = "none"
  /\ r.step \in {"new", "validate"} => r.made = {}
  /\ IsInjective(r.todo)
  /\ Range(r.todo) \cap r.made = {}
  /\ r.step \in {"find", "save"} \/ r.answer = "conflict" => r.todo # <<>>

DeletionOK(d) ==
  d.step = "deactivate" =>
    /\ d.client \in Clients /\ d.type \in EventTypes /\ d.id \in Creations
    /\ table[d.client][d.type] # NoRow

TypeInv ==
  /\ SubscriptionsTypeOK
  /\ \A q \in Creations : RequestOK(creation[q])
  /\ \A r \in Deletions : DeletionOK(deletion[r])

-----------------------------------------------------------------------------
(* Lists.                                                                  *)

LEMMA DedupeGives ==
  ASSUME NEW types, NEW todo \in Dedupe(types)
  PROVE  todo \in Seq(EventTypes) /\ IsInjective(todo)
<1>1. todo \in BoundedSeq(EventTypes, MaxBatch) /\ IsInjective(todo)
  BY DEF Dedupe, Orders
<1>2. PICK m \in 0..MaxBatch : todo \in [1..m -> EventTypes]
  BY <1>1 DEF BoundedSeq, SeqOf
<1>3. m \in Nat
  BY <1>2, SubscriptionsAssumption
<1>4. QED BY <1>1, <1>2, <1>3, SeqDef

LEMMA HeadAndTail ==
  ASSUME NEW s \in Seq(EventTypes), s # <<>>, IsInjective(s)
  PROVE  /\ Head(s) \in EventTypes /\ Head(s) \in Range(s)
         /\ Tail(s) \in Seq(EventTypes) /\ IsInjective(Tail(s))
         /\ Range(Tail(s)) \subseteq Range(s) \ {Head(s)}
<1>1. /\ Head(s) \in EventTypes /\ Tail(s) \in Seq(EventTypes)
      /\ Len(Tail(s)) = Len(s) - 1
      /\ \A i \in 1..Len(Tail(s)) : Tail(s)[i] = s[i + 1]
  BY HeadTailProperties
<1>2. Len(s) \in Nat \ {0}
  BY EmptySeq
<1>3. Head(s) = s[1]
  OBVIOUS
<1>4. DOMAIN s = 1..Len(s) /\ DOMAIN Tail(s) = 1..Len(Tail(s))
  BY <1>1, LenProperties
<1>5. \A i \in DOMAIN Tail(s) : i + 1 \in DOMAIN s /\ i + 1 # 1 /\ Tail(s)[i] = s[i + 1]
  BY <1>1, <1>2, <1>4
<1>6. 1 \in DOMAIN s
  BY <1>2, <1>4
<1>7. Head(s) \in Range(s)
  BY <1>3, <1>6 DEF Range
<1>8. Range(Tail(s)) \subseteq Range(s) \ {Head(s)}
  <2> SUFFICES ASSUME NEW i \in DOMAIN Tail(s)
               PROVE  Tail(s)[i] \in Range(s) /\ Tail(s)[i] # Head(s)
    BY DEF Range
  <2>1. i + 1 \in DOMAIN s /\ i + 1 # 1 /\ Tail(s)[i] = s[i + 1]
    BY <1>5
  <2>2. s[i + 1] # s[1]
    BY <2>1, <1>6 DEF IsInjective
  <2>3. QED BY <2>1, <2>2, <1>3 DEF Range
<1>9. IsInjective(Tail(s))
  <2> SUFFICES ASSUME NEW i \in DOMAIN Tail(s), NEW j \in DOMAIN Tail(s), Tail(s)[i] = Tail(s)[j]
               PROVE  i = j
    BY DEF IsInjective
  <2>1. i + 1 \in DOMAIN s /\ j + 1 \in DOMAIN s /\ s[i + 1] = s[j + 1]
    BY <1>5
  <2>2. i + 1 = j + 1
    BY <2>1 DEF IsInjective
  <2>3. i \in Nat /\ j \in Nat
    BY <1>1, <1>2, <1>4
  <2>4. QED BY <2>2, <2>3
<1>10. QED BY <1>1, <1>7, <1>8, <1>9

-----------------------------------------------------------------------------
(* Types.                                                                  *)

\* A step that changes one request to a well-formed one keeps all well-formed.
LEMMA RequestStep ==
  ASSUME NEW q \in Creations, NEW r \in Creation, RequestOK(r),
         creation \in [Creations -> Creation],
         \A p \in Creations : RequestOK(creation[p]),
         creation' = [creation EXCEPT ![q] = r]
  PROVE  /\ creation' \in [Creations -> Creation]
         /\ \A p \in Creations : RequestOK(creation[p])'
<1>1. creation' \in [Creations -> Creation]
  OBVIOUS
<1>2. ASSUME NEW p \in Creations PROVE RequestOK(creation'[p])
  <2>1. CASE p = q
    BY <2>1
  <2>2. CASE p # q
    <3>1. creation'[p] = creation[p]
      BY <2>2
    <3>2. QED BY <3>1
  <2>3. QED BY <2>1, <2>2
<1>3. QED BY <1>1, <1>2

LEMMA UpsertTypes ==
  ASSUME TypeInv, NEW q \in Creations, NEW c \in Clients, NEW t \in EventTypes,
         Upsert(q, c, t)
  PROVE  /\ table' \in [Clients -> [EventTypes -> Row \cup {NoRow}]]
         /\ live' \subseteq Written
         /\ \A d \in Clients, u \in EventTypes : table[d][u] # NoRow => table'[d][u] # NoRow
<1> DEFINE r == [id |-> IF table[c][t] = NoRow THEN q ELSE table[c][t].id,
                 data |-> q, status |-> "ACTIVE"]
<1>1. table \in [Clients -> [EventTypes -> Row \cup {NoRow}]] /\ live \subseteq Written
  BY DEF TypeInv, SubscriptionsTypeOK
<1>2. r \in Row /\ r # NoRow
  BY <1>1 DEF Row, NoRow
<1>3. table' = [table EXCEPT ![c][t] = r]
  BY DEF Upsert
<1>4. live' \subseteq Written
  BY <1>1 DEF Upsert, Written
<1> HIDE DEF r
<1>5. table' \in [Clients -> [EventTypes -> Row \cup {NoRow}]]
  BY <1>1, <1>2, <1>3
<1>6. \A d \in Clients, u \in EventTypes : table[d][u] # NoRow => table'[d][u] # NoRow
  BY <1>1, <1>2, <1>3
<1>7. QED BY <1>4, <1>5, <1>6

RequestsOK ==
  /\ creation \in [Creations -> Creation]
  /\ \A p \in Creations : RequestOK(creation[p])

LEMMA AnsweredStep ==
  ASSUME TypeInv, NEW q \in Creations, NEW answer \in {"conflict", "rejected", "error"},
         creation[q].step # "new", answer = "conflict" => creation[q].todo # <<>>,
         Answered(q, answer)
  PROVE  /\ RequestsOK'
         /\ creation' = [creation EXCEPT
              ![q] = [creation[q] EXCEPT !.step = "done", !.answer = answer]]
<1> DEFINE r == [creation[q] EXCEPT !.step = "done", !.answer = answer]
<1>1. creation \in [Creations -> Creation] /\ \A p \in Creations : RequestOK(creation[p])
  BY DEF TypeInv, SubscriptionsTypeOK
<1>2. creation' = [creation EXCEPT ![q] = r]
  BY <1>1 DEF Answered
<1>3. r \in Creation
  BY <1>1 DEF Creation
<1>4. RequestOK(creation[q]) /\ creation[q] \in Creation
  BY <1>1
<1>5. /\ r.client = creation[q].client /\ r.todo = creation[q].todo
      /\ r.made = creation[q].made /\ r.step = "done" /\ r.answer = answer
  BY <1>4 DEF Creation
<1>6. RequestOK(r)
  BY <1>4, <1>5 DEF RequestOK
<1> HIDE DEF r
<1>7. RequestsOK'
  BY <1>1, <1>2, <1>3, <1>6, RequestStep DEF RequestsOK
<1>8. QED BY <1>2, <1>7 DEF r

Proceeded(r, todo, made) ==
  [r EXCEPT !.step = IF todo = <<>> THEN "done" ELSE "find",
            !.answer = IF todo = <<>> THEN "created" ELSE "none",
            !.todo = todo, !.made = made]

LEMMA ProceedStep ==
  ASSUME TypeInv, NEW q \in Creations, creation[q].step # "new",
         NEW todo \in Seq(EventTypes), IsInjective(todo),
         NEW made \in SUBSET EventTypes, Range(todo) \cap made = {},
         Proceed(q, todo, made)
  PROVE  /\ RequestsOK'
         /\ creation' = [creation EXCEPT ![q] = Proceeded(creation[q], todo, made)]
<1> DEFINE r == Proceeded(creation[q], todo, made)
<1>1. creation \in [Creations -> Creation] /\ \A p \in Creations : RequestOK(creation[p])
  BY DEF TypeInv, SubscriptionsTypeOK
<1>2. creation' = [creation EXCEPT ![q] = r]
  BY <1>1 DEF Proceed, Proceeded
<1>3. r \in Creation
  BY <1>1 DEF Creation, Proceeded
<1>4. RequestOK(creation[q]) /\ creation[q] \in Creation
  BY <1>1
<1>5. /\ r.client = creation[q].client /\ r.todo = todo /\ r.made = made
      /\ r.step = (IF todo = <<>> THEN "done" ELSE "find")
      /\ r.answer = (IF todo = <<>> THEN "created" ELSE "none")
  BY <1>4 DEF Creation, Proceeded
<1>6. RequestOK(r)
  BY <1>4, <1>5 DEF RequestOK
<1> HIDE DEF r
<1>7. RequestsOK'
  BY <1>1, <1>2, <1>3, <1>6, RequestStep DEF RequestsOK
<1>8. QED BY <1>2, <1>7 DEF r

\* The event types a request may still write.
Future(r) ==
  CASE r.step = "new" -> EventTypes
    [] r.step = "done" -> {}
    [] OTHER -> Range(r.todo)

\* A request that takes a step stays well-formed, leaves the other requests alone and can
\* write nothing it could not write before.
Moves(q) ==
  /\ RequestsOK'
  /\ \A p \in Creations : p # q => creation'[p] = creation[p]
  /\ creation[q].step # "done" /\ creation'[q].step # "new"
  /\ Future(creation'[q]) \subseteq Future(creation[q])

\* An upsert is of the next event type, which the request does not write again.
Spends(q) ==
  /\ Head(creation[q].todo) \in Future(creation[q])
  /\ Head(creation[q].todo) \notin Future(creation'[q])

LEMMA RequestFacts ==
  ASSUME TypeInv, NEW q \in Creations
  PROVE  /\ creation \in [Creations -> Creation] /\ creation[q] \in Creation
         /\ RequestOK(creation[q]) /\ \A p \in Creations : RequestOK(creation[p])
         /\ creation[q].todo \in Seq(EventTypes) /\ creation[q].made \in SUBSET EventTypes
BY DEF TypeInv, SubscriptionsTypeOK, Creation

LEMMA ReceiveMoves == ASSUME TypeInv, NEW q \in Creations, Receive(q) PROVE Moves(q)
<1>1. /\ creation \in [Creations -> Creation] /\ creation[q] \in Creation
      /\ RequestOK(creation[q]) /\ \A p \in Creations : RequestOK(creation[p])
  BY RequestFacts
<1>0. PICK c \in Clients, types \in Batches : \E todo \in Dedupe(types) :
        creation' = [creation EXCEPT ![q].step = "validate", ![q].client = c,
                                     ![q].todo = todo]
  BY DEF Receive, Arrive
<1>2. PICK todo \in Dedupe(types) :
        creation' = [creation EXCEPT ![q].step = "validate", ![q].client = c,
                                     ![q].todo = todo]
  BY <1>0
<1>3. todo \in Seq(EventTypes) /\ IsInjective(todo)
  BY DedupeGives
<1> DEFINE n == [creation[q] EXCEPT !.step = "validate", !.client = c, !.todo = todo]
<1>4. creation' = [creation EXCEPT ![q] = n]
  BY <1>1, <1>2
<1>5. n \in Creation
  BY <1>1, <1>3 DEF Creation
<1>6. creation[q].step = "new"
  BY DEF Receive, Arrive
<1>7. /\ n.step = "validate" /\ n.client = c /\ n.todo = todo
      /\ n.made = creation[q].made /\ n.answer = creation[q].answer
  BY <1>1 DEF Creation
<1>8. RequestOK(n)
  BY <1>1, <1>3, <1>6, <1>7 DEF RequestOK
<1>9. Range(todo) \subseteq EventTypes
  BY <1>3, LenProperties, ElementOfSeq DEF Range
<1>10. Future(n) \subseteq Future(creation[q])
  BY <1>6, <1>7, <1>9 DEF Future
<1> HIDE DEF n
<1>11. RequestsOK'
  BY <1>1, <1>4, <1>5, <1>8, RequestStep DEF RequestsOK
<1>12. creation'[q] = n /\ \A p \in Creations : p # q => creation'[p] = creation[p]
  BY <1>1, <1>4
<1>13. QED BY <1>6, <1>7, <1>10, <1>11, <1>12 DEF Moves

LEMMA AnsweredMoves ==
  ASSUME TypeInv, NEW q \in Creations, NEW answer \in {"conflict", "rejected", "error"},
         creation[q].step \in {"validate", "find", "save"},
         answer = "conflict" => creation[q].todo # <<>>,
         Answered(q, answer)
  PROVE  /\ Moves(q)
         /\ creation'[q] = [creation[q] EXCEPT !.step = "done", !.answer = answer]
<1>1. creation \in [Creations -> Creation] /\ creation[q] \in Creation
  BY RequestFacts
<1> DEFINE n == [creation[q] EXCEPT !.step = "done", !.answer = answer]
<1>2. RequestsOK' /\ creation' = [creation EXCEPT ![q] = n]
  BY AnsweredStep
<1>3. n.step = "done"
  BY <1>1 DEF Creation
<1> HIDE DEF n
<1>4. creation'[q] = n /\ \A p \in Creations : p # q => creation'[p] = creation[p]
  BY <1>1, <1>2
<1>5. Future(n) = {}
  BY <1>3 DEF Future
<1>6. QED BY <1>2, <1>3, <1>4, <1>5 DEF Moves, n

LEMMA ProceedMoves ==
  ASSUME TypeInv, NEW q \in Creations, creation[q].step \in {"validate", "find", "save"},
         NEW todo \in Seq(EventTypes), IsInjective(todo),
         NEW made \in SUBSET EventTypes, Range(todo) \cap made = {},
         Range(todo) \subseteq Range(creation[q].todo),
         Proceed(q, todo, made)
  PROVE  /\ Moves(q)
         /\ Future(creation'[q]) \subseteq Range(todo)
         /\ creation'[q].step \in {"find", "done"} /\ creation'[q].answer \in {"none", "created"}
<1>1. creation \in [Creations -> Creation] /\ creation[q] \in Creation
  BY RequestFacts
<1> DEFINE n == Proceeded(creation[q], todo, made)
<1>2. RequestsOK' /\ creation' = [creation EXCEPT ![q] = n]
  <2>1. creation[q].step # "new"
    OBVIOUS
  <2>2. QED BY <2>1, ProceedStep
<1>4. n.todo = todo /\ n.step \in {"find", "done"} /\ n.answer \in {"none", "created"}
  BY <1>1 DEF Creation, Proceeded
<1> HIDE DEF n
<1>5. creation'[q] = n /\ \A p \in Creations : p # q => creation'[p] = creation[p]
  BY <1>1, <1>2
<1>6. Future(n) \subseteq Range(todo)
  BY <1>4 DEF Future
<1>7. Future(creation[q]) = Range(creation[q].todo)
  BY DEF Future
<1>8. QED BY <1>2, <1>4, <1>5, <1>6, <1>7 DEF Moves

LEMMA ValidateMoves == ASSUME TypeInv, NEW q \in Creations, Validate(q) PROVE Moves(q)
<1>1. creation[q].todo \in Seq(EventTypes) /\ IsInjective(creation[q].todo)
  BY RequestFacts DEF RequestOK
<1>2. creation[q].step = "validate"
  BY DEF Validate
<1>3. CASE Answered(q, "rejected")
  BY <1>2, <1>3, AnsweredMoves
<1>4. CASE Proceed(q, creation[q].todo, {})
  <2>1. {} \in SUBSET EventTypes /\ Range(creation[q].todo) \cap {} = {}
    OBVIOUS
  <2>2. creation[q].step \in {"validate", "find", "save"}
    BY <1>2
  <2>3. QED BY <1>1, <1>4, <2>1, <2>2, ProceedMoves
<1>5. QED BY <1>3, <1>4 DEF Validate

LEMMA FindMoves == ASSUME TypeInv, NEW q \in Creations, FindActive(q) PROVE Moves(q)
<1>1. /\ creation \in [Creations -> Creation] /\ creation[q] \in Creation
      /\ RequestOK(creation[q]) /\ \A p \in Creations : RequestOK(creation[p])
  BY RequestFacts
<1>2. creation[q].step = "find" /\ creation[q].todo # <<>>
  BY <1>1 DEF FindActive, RequestOK
<1>3. CASE Answered(q, "conflict")
  BY <1>2, <1>3, AnsweredMoves
<1>4. CASE creation' = [creation EXCEPT ![q].step = "save"]
  <2> DEFINE n == [creation[q] EXCEPT !.step = "save"]
  <2>1. creation' = [creation EXCEPT ![q] = n] /\ n \in Creation
    BY <1>1, <1>4 DEF Creation
  <2>2. /\ n.step = "save" /\ n.client = creation[q].client /\ n.todo = creation[q].todo
        /\ n.made = creation[q].made /\ n.answer = creation[q].answer
    BY <1>1 DEF Creation
  <2>3. RequestOK(n)
    BY <1>1, <1>2, <2>2 DEF RequestOK
  <2>4. Future(n) = Future(creation[q])
    BY <1>2, <2>2 DEF Future
  <2> HIDE DEF n
  <2>5. RequestsOK'
    BY <1>1, <2>1, <2>3, RequestStep DEF RequestsOK
  <2>6. creation'[q] = n /\ \A p \in Creations : p # q => creation'[p] = creation[p]
    BY <1>1, <2>1
  <2>7. QED BY <1>2, <2>2, <2>4, <2>5, <2>6 DEF Moves
<1>5. QED BY <1>3, <1>4 DEF FindActive

LEMMA SaveMoves ==
  ASSUME TypeInv, NEW q \in Creations, Save(q)
  PROVE  /\ Moves(q) /\ Spends(q)
         /\ creation[q].client \in Clients /\ Head(creation[q].todo) \in EventTypes
         /\ Upsert(q, creation[q].client, Head(creation[q].todo))
<1> DEFINE todo == creation[q].todo
           t == Head(todo)
<1>1. /\ RequestOK(creation[q]) /\ creation[q].step = "save" /\ todo \in Seq(EventTypes)
      /\ creation[q].made \in SUBSET EventTypes
  BY RequestFacts DEF Save
<1>2. /\ creation[q].client \in Clients /\ todo # <<>> /\ IsInjective(todo)
      /\ Range(todo) \cap creation[q].made = {}
  BY <1>1 DEF RequestOK
<1>3. /\ t \in EventTypes /\ t \in Range(todo)
      /\ Tail(todo) \in Seq(EventTypes) /\ IsInjective(Tail(todo))
      /\ Range(Tail(todo)) \subseteq Range(todo) \ {t}
  BY <1>1, <1>2, HeadAndTail
<1>4. t \in Future(creation[q])
  BY <1>1, <1>3 DEF Future
<1>5. Upsert(q, creation[q].client, t)
  BY DEF Save
<1>6. CASE Proceed(q, Tail(todo), creation[q].made \cup {t})
  <2>1. /\ creation[q].made \cup {t} \in SUBSET EventTypes
        /\ Range(Tail(todo)) \cap (creation[q].made \cup {t}) = {}
        /\ Range(Tail(todo)) \subseteq Range(todo)
    BY <1>1, <1>2, <1>3
  <2>2. Moves(q) /\ Future(creation'[q]) \subseteq Range(Tail(todo))
    BY <1>1, <1>3, <1>6, <2>1, ProceedMoves
  <2>3. QED BY <1>2, <1>3, <1>4, <1>5, <2>2 DEF Spends
<1>7. CASE Answered(q, "error")
  <2>1. /\ Moves(q)
        /\ creation'[q] = [creation[q] EXCEPT !.step = "done", !.answer = "error"]
    BY <1>1, <1>7, AnsweredMoves
  <2>2. creation'[q].step = "done"
    BY <2>1, RequestFacts DEF Creation
  <2>3. Future(creation'[q]) = {}
    BY <2>2 DEF Future
  <2>4. QED BY <1>2, <1>3, <1>4, <1>5, <2>1, <2>3 DEF Spends
<1>8. QED BY <1>6, <1>7 DEF Save

LEMMA FailMoves == ASSUME TypeInv, NEW q \in Creations, CreationFails(q) PROVE Moves(q)
BY AnsweredMoves DEF CreationFails

-----------------------------------------------------------------------------
(* The inductive invariants.                                               *)

\* An observed write is of an active row, and of something its request does not write
\* again.  A request about to save found its row inactive: nothing that was live when it
\* arrived is live in that row.
LiveInv ==
  /\ \A w \in live : Active(w.client, w.type)
  /\ \A w \in live : w.type \notin Future(creation[w.by])
  /\ \A q \in Creations : \A w \in seen[q] : w.type \notin Future(creation[w.by])

FoundInv ==
  \A q \in Creations : creation[q].step = "save" =>
    \A w \in live :
      w.client = creation[q].client /\ w.type = Head(creation[q].todo) => w \notin seen[q]

\* A request that was refused, or has yet to be judged, wrote no row.
UnwrittenInv ==
  \A q \in Creations :
    creation[q].step \in {"new", "validate"} \/ creation[q].answer = "rejected" =>
      \A c \in Clients, t \in EventTypes :
        table[c][t] # NoRow => table[c][t].data # q /\ table[c][t].id # q

LEMMA DeletionKept ==
  ASSUME TypeInv, \A r \in Deletions : deletion'[r] = deletion[r],
         \A c \in Clients, t \in EventTypes : table[c][t] # NoRow => table'[c][t] # NoRow
  PROVE  \A r \in Deletions : DeletionOK(deletion[r])'
<1> SUFFICES ASSUME NEW r \in Deletions PROVE DeletionOK(deletion[r])'
  OBVIOUS
<1>1. DeletionOK(deletion[r])
  BY DEF TypeInv
<1>2. deletion'[r] = deletion[r]
  OBVIOUS
<1>3. QED BY <1>1, <1>2 DEF DeletionOK

\* A creation's step keeps the types.
LEMMA CreationTypes ==
  ASSUME TypeInv, NEW q \in Creations, Moves(q), UNCHANGED deletion,
         \/ UNCHANGED <<table, live>>
         \/ /\ creation[q].client \in Clients /\ Head(creation[q].todo) \in EventTypes
            /\ Upsert(q, creation[q].client, Head(creation[q].todo)),
         seen' \in [Creations -> SUBSET Written]
  PROVE  TypeInv'
<1>1. /\ table' \in [Clients -> [EventTypes -> Row \cup {NoRow}]] /\ live' \subseteq Written
      /\ \A c \in Clients, t \in EventTypes : table[c][t] # NoRow => table'[c][t] # NoRow
  <2>1. CASE UNCHANGED <<table, live>>
    BY <2>1 DEF TypeInv, SubscriptionsTypeOK
  <2>2. CASE /\ creation[q].client \in Clients /\ Head(creation[q].todo) \in EventTypes
             /\ Upsert(q, creation[q].client, Head(creation[q].todo))
    BY <2>2, UpsertTypes
  <2>3. QED BY <2>1, <2>2
<1>2. RequestsOK'
  BY DEF Moves
<1>3. deletion' \in [Deletions -> Deletion] /\ \A r \in Deletions : DeletionOK(deletion[r])'
  BY <1>1, DeletionKept DEF TypeInv, SubscriptionsTypeOK
<1>4. QED BY <1>1, <1>2, <1>3 DEF TypeInv, SubscriptionsTypeOK, RequestsOK

LEMMA TypeStep == TypeInv /\ [Next]_vars => TypeInv'
<1> SUFFICES ASSUME TypeInv, [Next]_vars PROVE TypeInv'
  OBVIOUS
<1>0. /\ table \in [Clients -> [EventTypes -> Row \cup {NoRow}]] /\ live \subseteq Written
      /\ seen \in [Creations -> SUBSET Written] /\ deletion \in [Deletions -> Deletion]
      /\ creation \in [Creations -> Creation]
  BY DEF TypeInv, SubscriptionsTypeOK
<1>1. ASSUME NEW q \in Creations, Receive(q) PROVE TypeInv'
  <2>1. seen' \in [Creations -> SUBSET Written]
    BY <1>0, <1>1 DEF Receive, Arrive
  <2>2. QED BY <1>1, <2>1, ReceiveMoves, CreationTypes DEF Receive, Arrive
<1>2. ASSUME NEW q \in Creations, Validate(q) PROVE TypeInv'
  BY <1>0, <1>2, ValidateMoves, CreationTypes DEF Validate
<1>3. ASSUME NEW q \in Creations, FindActive(q) PROVE TypeInv'
  BY <1>0, <1>3, FindMoves, CreationTypes DEF FindActive
<1>4. ASSUME NEW q \in Creations, Save(q) PROVE TypeInv'
  <2>1. UNCHANGED <<deletion, seen>>
    BY <1>4 DEF Save
  <2>2. QED BY <1>0, <1>4, <2>1, SaveMoves, CreationTypes
<1>5. ASSUME NEW q \in Creations, CreationFails(q) PROVE TypeInv'
  BY <1>0, <1>5, FailMoves, CreationTypes DEF CreationFails
<1>6. ASSUME NEW r \in Deletions, Lookup(r) PROVE TypeInv'
  <2>1. PICK c \in Clients, owner \in Clients, t \in EventTypes :
          /\ table[owner][t] # NoRow
          /\ deletion' = [deletion EXCEPT ![r] =
               IF owner = c
                 THEN [step |-> "deactivate", client |-> c, id |-> table[c][t].id, type |-> t]
                 ELSE [@ EXCEPT !.step = "done", !.client = c]]
    BY <1>6 DEF Lookup
  <2> DEFINE n == IF owner = c
                    THEN [step |-> "deactivate", client |-> c, id |-> table[c][t].id, type |-> t]
                    ELSE [deletion[r] EXCEPT !.step = "done", !.client = c]
  <2>2. deletion' = [deletion EXCEPT ![r] = n]
    BY <2>1
  <2>3. owner = c => table[c][t].id \in Creations
    BY <1>0, <2>1 DEF Row
  <2>4. n \in Deletion
    BY <1>0, <2>3 DEF Deletion
  <2>5. n.step = "deactivate" => owner = c
    BY <1>0 DEF Deletion
  <2>6. DeletionOK(n)
    BY <2>1, <2>3, <2>5 DEF DeletionOK
  <2> HIDE DEF n
  <2>7. UNCHANGED <<table, creation, live, seen>>
    BY <1>6 DEF Lookup
  <2>8. deletion' \in [Deletions -> Deletion]
    BY <1>0, <2>2, <2>4
  <2>9. ASSUME NEW s \in Deletions PROVE DeletionOK(deletion[s])'
    <3>1. deletion'[s] = IF s = r THEN n ELSE deletion[s]
      BY <1>0, <2>2
    <3>2. DeletionOK(deletion[s])
      BY DEF TypeInv
    <3>3. DeletionOK(deletion'[s])
      BY <2>6, <3>1, <3>2
    <3>4. QED BY <2>7, <3>3 DEF DeletionOK
  <2>10. QED BY <1>0, <2>7, <2>8, <2>9 DEF TypeInv, SubscriptionsTypeOK, RequestOK
<1>7. ASSUME NEW r \in Deletions, Deactivate(r) PROVE TypeInv'
  <2> DEFINE c == deletion[r].client
             t == deletion[r].type
  <2>1. c \in Clients /\ t \in EventTypes /\ table[c][t] # NoRow
    BY <1>7 DEF TypeInv, DeletionOK, Deactivate
  <2>2. table[c][t] \in Row
    BY <1>0, <2>1
  <2>3. [table[c][t] EXCEPT !.status = "INACTIVE"] \in Row
    BY <2>2 DEF Row
  <2>4. [table[c][t] EXCEPT !.status = "INACTIVE"] # NoRow
    BY <2>3 DEF Row, NoRow
  <2>5. \/ UNCHANGED table
        \/ table' = [table EXCEPT ![c][t] = [table[c][t] EXCEPT !.status = "INACTIVE"]]
    BY <1>0, <1>7, <2>1 DEF Deactivate
  <2>6. table' \in [Clients -> [EventTypes -> Row \cup {NoRow}]]
    BY <1>0, <2>1, <2>3, <2>5
  <2>7. \A d \in Clients, u \in EventTypes : table[d][u] # NoRow => table'[d][u] # NoRow
    BY <1>0, <2>1, <2>4, <2>5
  <2>8. live' \subseteq Written
    BY <1>0, <1>7 DEF Deactivate
  <2>9. /\ deletion' = [deletion EXCEPT ![r] = [deletion[r] EXCEPT !.step = "done"]]
        /\ UNCHANGED <<creation, seen>>
    BY <1>0, <1>7 DEF Deactivate
  <2>10. [deletion[r] EXCEPT !.step = "done"] \in Deletion
    BY <1>0 DEF Deletion
  <2>11. deletion' \in [Deletions -> Deletion]
    BY <1>0, <2>9, <2>10
  <2>12. ASSUME NEW s \in Deletions PROVE DeletionOK(deletion[s])'
    <3>1. deletion'[s] = deletion[s] \/ deletion'[s].step = "done"
      BY <1>0, <2>9 DEF Deletion
    <3>2. DeletionOK(deletion[s])
      BY DEF TypeInv
    <3>3. QED BY <2>7, <3>1, <3>2 DEF DeletionOK
  <2>13. QED BY <1>0, <2>6, <2>8, <2>9, <2>11, <2>12 DEF TypeInv, SubscriptionsTypeOK, RequestOK
<1>8. CASE UNCHANGED vars
  BY <1>8 DEF vars, TypeInv, SubscriptionsTypeOK, RequestOK, DeletionOK
<1>9. QED BY <1>1, <1>2, <1>3, <1>4, <1>5, <1>6, <1>7, <1>8 DEF Next

-----------------------------------------------------------------------------
(* Safety.                                                                 *)

\* Only the look-up leads to a save, only an inactive row passes it, and only the judgement
\* of the destination rejects a request.
LEMMA StepOrder ==
  ASSUME TypeInv, NEW q \in Creations
  PROVE  /\ Receive(q) \/ Validate(q) \/ Save(q) \/ CreationFails(q) =>
              creation'[q].step # "save"
         /\ FindActive(q) /\ creation'[q].step = "save" =>
              /\ ~Active(creation[q].client, Head(creation[q].todo))
              /\ creation'[q].client = creation[q].client
              /\ creation'[q].todo = creation[q].todo
         /\ FindActive(q) \/ Save(q) \/ CreationFails(q) =>
              /\ creation'[q].step \notin {"new", "validate"}
              /\ creation'[q].answer # "rejected"
         /\ Receive(q) \/ Validate(q) => creation[q].step \in {"new", "validate"}
         /\ Save(q) => creation[q].step = "save" /\ creation[q].answer = "none"
<1>1. /\ creation \in [Creations -> Creation] /\ creation[q] \in Creation
      /\ RequestOK(creation[q])
  BY RequestFacts
<1>2. ASSUME NEW a \in {"conflict", "rejected", "error"}, Answered(q, a)
      PROVE  creation'[q].step = "done" /\ creation'[q].answer = a
  BY <1>1, <1>2 DEF Answered, Creation
<1>3. ASSUME NEW todo, NEW made, Proceed(q, todo, made)
      PROVE  creation'[q].step \in {"find", "done"} /\ creation'[q].answer \in {"none", "created"}
  BY <1>1, <1>3 DEF Proceed, Creation
<1>4. ASSUME Receive(q) PROVE creation'[q].step = "validate"
  BY <1>1, <1>4 DEF Receive, Arrive, Creation
<1>5. ASSUME Validate(q) PROVE creation'[q].step \in {"find", "done"}
  BY <1>2, <1>3, <1>5 DEF Validate
<1>6. ASSUME Save(q)
      PROVE creation'[q].step \in {"find", "done"} /\ creation'[q].answer # "rejected"
  BY <1>2, <1>3, <1>6 DEF Save
<1>7. ASSUME CreationFails(q) PROVE creation'[q].step = "done" /\ creation'[q].answer = "error"
  BY <1>2, <1>7 DEF CreationFails
<1>8. ASSUME FindActive(q)
      PROVE  /\ creation'[q].step \in {"save", "done"} /\ creation'[q].answer # "rejected"
             /\ creation'[q].step = "save" =>
                  /\ ~Active(creation[q].client, Head(creation[q].todo))
                  /\ creation'[q].client = creation[q].client
                  /\ creation'[q].todo = creation[q].todo
  <2>1. CASE Active(creation[q].client, Head(creation[q].todo))
    BY <1>2, <1>8, <2>1 DEF FindActive
  <2>2. CASE ~Active(creation[q].client, Head(creation[q].todo))
    <3>1. creation[q].step = "find" /\ creation' = [creation EXCEPT ![q].step = "save"]
      BY <1>8, <2>2 DEF FindActive
    <3>2. creation[q].answer = "none"
      BY <1>1, <3>1 DEF RequestOK
    <3>3. QED BY <1>1, <2>2, <3>1, <3>2 DEF Creation
  <2>3. QED BY <2>1, <2>2
<1>9. Receive(q) \/ Validate(q) => creation[q].step \in {"new", "validate"}
  BY DEF Receive, Arrive, Validate
<1>10. Save(q) => creation[q].step = "save" /\ creation[q].answer = "none"
  BY <1>1 DEF Save, RequestOK
<1>11. QED BY <1>4, <1>5, <1>6, <1>7, <1>8, <1>9, <1>10

SafeInv == TypeInv /\ LiveInv /\ FoundInv /\ DuplicatesOverlap

\* What a request may still write only shrinks.
LEMMA FutureShrinks ==
  ASSUME NEW q \in Creations, Moves(q)
  PROVE  \A p \in Creations : Future(creation'[p]) \subseteq Future(creation[p])
BY DEF Moves

\* A creation's step that writes nothing.
LEMMA QuietStep ==
  ASSUME SafeInv, NEW q \in Creations, Moves(q), UNCHANGED <<table, live, seen>>,
         creation'[q].step = "save" =>
           /\ ~Active(creation[q].client, Head(creation[q].todo))
           /\ creation'[q].client = creation[q].client
           /\ creation'[q].todo = creation[q].todo
  PROVE  LiveInv' /\ FoundInv' /\ DuplicatesOverlap'
<1>1. /\ live \subseteq Written /\ seen \in [Creations -> SUBSET Written]
      /\ live' = live /\ seen' = seen /\ table' = table
  BY DEF SafeInv, TypeInv, SubscriptionsTypeOK
<1>2. \A p \in Creations : Future(creation'[p]) \subseteq Future(creation[p])
  BY FutureShrinks
<1>3. LiveInv'
  BY <1>1, <1>2 DEF SafeInv, LiveInv, Written, Active
<1>4. FoundInv'
  <2> SUFFICES ASSUME NEW p \in Creations, creation'[p].step = "save", NEW w \in live,
                      w.client = creation'[p].client, w.type = Head(creation'[p].todo)
               PROVE  w \notin seen[p]
    BY <1>1 DEF FoundInv
  <2>1. CASE p # q
    <3>1. creation'[p] = creation[p]
      BY <2>1 DEF Moves
    <3>2. QED BY <3>1 DEF SafeInv, FoundInv
  <2>2. CASE p = q
    <3>1. ~Active(w.client, w.type)
      BY <2>2
    <3>2. Active(w.client, w.type)
      BY DEF SafeInv, LiveInv
    <3>3. QED BY <3>1, <3>2
  <2>3. QED BY <2>1, <2>2
<1>5. DuplicatesOverlap'
  BY <1>1 DEF SafeInv, DuplicatesOverlap
<1>6. QED BY <1>3, <1>4, <1>5

LEMMA ReceiveSafe ==
  ASSUME SafeInv, NEW q \in Creations, Receive(q)
  PROVE  LiveInv' /\ FoundInv' /\ DuplicatesOverlap'
<1>1. /\ live \subseteq Written /\ seen \in [Creations -> SUBSET Written]
      /\ live' = live /\ table' = table /\ seen' = [seen EXCEPT ![q] = live]
      /\ creation[q].step = "new" /\ TypeInv
  BY DEF SafeInv, TypeInv, SubscriptionsTypeOK, Receive, Arrive
<1>2. Moves(q) /\ creation'[q].step # "save"
  BY <1>1, ReceiveMoves, StepOrder
<1>3. \A p \in Creations : Future(creation'[p]) \subseteq Future(creation[p])
  BY <1>2, FutureShrinks
<1>4. \A p \in Creations : seen'[p] = IF p = q THEN live ELSE seen[p]
  BY <1>1
<1>5. LiveInv'
  BY <1>1, <1>3, <1>4 DEF SafeInv, LiveInv, Written, Active
<1>6. FoundInv'
  <2> SUFFICES ASSUME NEW p \in Creations, creation'[p].step = "save", NEW w \in live,
                      w.client = creation'[p].client, w.type = Head(creation'[p].todo)
               PROVE  w \notin seen'[p]
    BY <1>1 DEF FoundInv
  <2>1. p # q /\ creation'[p] = creation[p]
    BY <1>2 DEF Moves
  <2>2. QED BY <1>4, <2>1 DEF SafeInv, FoundInv
<1>7. \A w \in live : w.by # q
  <2>1. Future(creation[q]) = EventTypes
    BY <1>1 DEF Future
  <2>2. \A w \in live : w.type \in EventTypes
    BY <1>1 DEF Written
  <2>3. QED BY <2>1, <2>2 DEF SafeInv, LiveInv
<1>8. DuplicatesOverlap'
  BY <1>1, <1>4, <1>7 DEF SafeInv, DuplicatesOverlap, Written
<1>9. QED BY <1>5, <1>6, <1>8

LEMMA SaveSafe ==
  ASSUME SafeInv, NEW q \in Creations, Save(q)
  PROVE  LiveInv' /\ FoundInv' /\ DuplicatesOverlap'
<1> DEFINE c == creation[q].client
           t == Head(creation[q].todo)
           n == [client |-> c, type |-> t, by |-> q]
<1>1. /\ live \subseteq Written /\ seen \in [Creations -> SUBSET Written] /\ TypeInv
      /\ table \in [Clients -> [EventTypes -> Row \cup {NoRow}]]
  BY DEF SafeInv, TypeInv, SubscriptionsTypeOK
<1>2. Moves(q) /\ Spends(q) /\ c \in Clients /\ t \in EventTypes /\ Upsert(q, c, t)
  BY <1>1, SaveMoves
<1>3. creation[q].step = "save" /\ creation'[q].step # "save"
  BY <1>1, StepOrder
<1>4. \A p \in Creations : Future(creation'[p]) \subseteq Future(creation[p])
  BY <1>2, FutureShrinks
<1>5. seen' = seen /\ live' = live \cup {n}
  BY <1>2 DEF Save, Upsert
<1>6. \A d \in Clients, u \in EventTypes :
        table'[d][u].status = IF d = c /\ u = t THEN "ACTIVE" ELSE table[d][u].status
  BY <1>1, <1>2 DEF Upsert
<1>7. n.client = c /\ n.type = t /\ n.by = q
  OBVIOUS
<1>8. t \in Future(creation[q]) /\ t \notin Future(creation'[q])
  BY <1>2 DEF Spends
<1> HIDE DEF n, c, t
<1>9. \A p \in Creations : n \notin seen[p]
  BY <1>7, <1>8 DEF SafeInv, LiveInv
<1>10. LiveInv'
  <2>1. \A w \in live' : Active(w.client, w.type)'
    BY <1>1, <1>2, <1>5, <1>6, <1>7 DEF SafeInv, LiveInv, Active, Written
  <2>2. \A w \in live' : w.type \notin Future(creation'[w.by])
    BY <1>1, <1>4, <1>5, <1>7, <1>8 DEF SafeInv, LiveInv, Written
  <2>3. \A p \in Creations : \A w \in seen[p] : w.type \notin Future(creation'[w.by])
    <3> SUFFICES ASSUME NEW p \in Creations, NEW w \in seen[p]
                 PROVE  w.type \notin Future(creation'[w.by])
      OBVIOUS
    <3>1. w.type \notin Future(creation[w.by])
      BY DEF SafeInv, LiveInv
    <3>2. w.by \in Creations
      BY <1>1 DEF Written
    <3>3. QED BY <1>4, <3>1, <3>2
  <2>4. QED BY <1>5, <2>1, <2>2, <2>3 DEF LiveInv
<1>11. FoundInv'
  <2> SUFFICES ASSUME NEW p \in Creations, creation'[p].step = "save", NEW w \in live',
                      w.client = creation'[p].client, w.type = Head(creation'[p].todo)
               PROVE  w \notin seen[p]
    BY <1>5 DEF FoundInv
  <2>1. creation'[p] = creation[p]
    BY <1>2, <1>3 DEF Moves
  <2>2. CASE w = n
    BY <1>9, <2>2
  <2>3. CASE w \in live
    BY <2>1, <2>3 DEF SafeInv, FoundInv
  <2>4. QED BY <1>5, <2>2, <2>3
<1>12. \A v \in live : v.client = c /\ v.type = t => v \notin seen[q]
  BY <1>3 DEF SafeInv, FoundInv, c, t
<1>13. DuplicatesOverlap'
  <2> SUFFICES ASSUME NEW v \in live', NEW w \in live', v.client = w.client, v.type = w.type,
                      v.by # w.by
               PROVE  v \notin seen[w.by]
    BY <1>5 DEF DuplicatesOverlap
  <2>1. CASE v = n
    <3>1. w \in live
      BY <1>5, <2>1
    <3>2. w.by \in Creations
      BY <1>1, <3>1 DEF Written
    <3>3. QED BY <1>9, <2>1, <3>2
  <2>2. CASE v \in live /\ w = n
    BY <1>7, <1>12, <2>2
  <2>3. CASE v \in live /\ w \in live
    BY <2>3 DEF SafeInv, DuplicatesOverlap
  <2>4. QED BY <1>5, <2>1, <2>2, <2>3
<1>14. QED BY <1>10, <1>11, <1>13

LEMMA DeactivateSafe ==
  ASSUME SafeInv, NEW r \in Deletions, Deactivate(r)
  PROVE  LiveInv' /\ FoundInv' /\ DuplicatesOverlap'
<1> DEFINE c == deletion[r].client
           t == deletion[r].type
<1>1. /\ live \subseteq Written /\ seen \in [Creations -> SUBSET Written]
      /\ table \in [Clients -> [EventTypes -> Row \cup {NoRow}]]
      /\ creation' = creation /\ seen' = seen
  BY DEF SafeInv, TypeInv, SubscriptionsTypeOK, Deactivate
<1>2. c \in Clients /\ t \in EventTypes
  BY DEF SafeInv, TypeInv, DeletionOK, Deactivate
<1>3. live' \subseteq live
  BY DEF Deactivate
<1>4. \A w \in live' : Active(w.client, w.type)'
  <2>1. CASE UNCHANGED <<table, live>>
    BY <2>1 DEF SafeInv, LiveInv, Active
  <2>2. CASE /\ table' = [table EXCEPT ![c][t].status = "INACTIVE"]
             /\ live' = {w \in live : w.client # c \/ w.type # t}
    <3>1. ASSUME NEW w \in live'
          PROVE  table'[w.client][w.type] = table[w.client][w.type]
      BY <1>1, <1>2, <2>2 DEF Written
    <3>2. QED BY <1>3, <3>1 DEF SafeInv, LiveInv, Active
  <2>3. QED BY <2>1, <2>2 DEF Deactivate
<1>5. LiveInv'
  BY <1>1, <1>3, <1>4 DEF SafeInv, LiveInv
<1>6. FoundInv'
  BY <1>1, <1>3 DEF SafeInv, FoundInv
<1>7. DuplicatesOverlap'
  BY <1>1, <1>3 DEF SafeInv, DuplicatesOverlap
<1>8. QED BY <1>5, <1>6, <1>7

LEMMA SafeStep == SafeInv /\ [Next]_vars => SafeInv'
<1> SUFFICES ASSUME SafeInv, [Next]_vars PROVE LiveInv' /\ FoundInv' /\ DuplicatesOverlap'
  BY TypeStep DEF SafeInv
<1>0. TypeInv
  BY DEF SafeInv
<1>1. ASSUME NEW q \in Creations, Receive(q)
      PROVE  LiveInv' /\ FoundInv' /\ DuplicatesOverlap'
  BY <1>1, ReceiveSafe
<1>2. ASSUME NEW q \in Creations, Validate(q)
      PROVE  LiveInv' /\ FoundInv' /\ DuplicatesOverlap'
  <2>1. Moves(q) /\ creation'[q].step # "save" /\ UNCHANGED <<table, live, seen>>
    BY <1>0, <1>2, ValidateMoves, StepOrder DEF Validate
  <2>2. QED BY <2>1, QuietStep
<1>3. ASSUME NEW q \in Creations, FindActive(q)
      PROVE  LiveInv' /\ FoundInv' /\ DuplicatesOverlap'
  <2>1. Moves(q) /\ UNCHANGED <<table, live, seen>>
    BY <1>0, <1>3, FindMoves DEF FindActive
  <2>2. creation'[q].step = "save" =>
          /\ ~Active(creation[q].client, Head(creation[q].todo))
          /\ creation'[q].client = creation[q].client
          /\ creation'[q].todo = creation[q].todo
    BY <1>0, <1>3, StepOrder
  <2>3. QED BY <2>1, <2>2, QuietStep
<1>4. ASSUME NEW q \in Creations, Save(q)
      PROVE  LiveInv' /\ FoundInv' /\ DuplicatesOverlap'
  BY <1>4, SaveSafe
<1>5. ASSUME NEW q \in Creations, CreationFails(q)
      PROVE  LiveInv' /\ FoundInv' /\ DuplicatesOverlap'
  <2>1. Moves(q) /\ creation'[q].step # "save" /\ UNCHANGED <<table, live, seen>>
    BY <1>0, <1>5, FailMoves, StepOrder DEF CreationFails
  <2>2. QED BY <2>1, QuietStep
<1>6. ASSUME NEW r \in Deletions, Lookup(r)
      PROVE  LiveInv' /\ FoundInv' /\ DuplicatesOverlap'
  BY <1>6 DEF Lookup, SafeInv, LiveInv, FoundInv, DuplicatesOverlap, Active
<1>7. ASSUME NEW r \in Deletions, Deactivate(r)
      PROVE  LiveInv' /\ FoundInv' /\ DuplicatesOverlap'
  BY <1>7, DeactivateSafe
<1>8. CASE UNCHANGED vars
  BY <1>8 DEF vars, SafeInv, LiveInv, FoundInv, DuplicatesOverlap, Active
<1>9. QED BY <1>1, <1>2, <1>3, <1>4, <1>5, <1>6, <1>7, <1>8 DEF Next

LEMMA UnwrittenStep == TypeInv /\ UnwrittenInv /\ [Next]_vars => UnwrittenInv'
<1> SUFFICES ASSUME TypeInv, UnwrittenInv, [Next]_vars PROVE UnwrittenInv'
  OBVIOUS
<1>0. table \in [Clients -> [EventTypes -> Row \cup {NoRow}]]
  BY DEF TypeInv, SubscriptionsTypeOK
<1>1. ASSUME NEW q \in Creations, Receive(q) \/ Validate(q) \/ FindActive(q) \/ CreationFails(q)
      PROVE  UnwrittenInv'
  <2>1. table' = table /\ Moves(q)
    BY <1>1, ReceiveMoves, ValidateMoves, FindMoves, FailMoves
       DEF Receive, Arrive, Validate, FindActive, CreationFails
  <2>2. creation'[q].step \in {"new", "validate"} \/ creation'[q].answer = "rejected" =>
          creation[q].step \in {"new", "validate"}
    BY <1>1, StepOrder
  <2>3. \A p \in Creations : p # q => creation'[p] = creation[p]
    BY <2>1 DEF Moves
  <2>4. QED BY <2>1, <2>2, <2>3 DEF UnwrittenInv
<1>2. ASSUME NEW q \in Creations, Save(q) PROVE UnwrittenInv'
  <2> DEFINE c == creation[q].client
             t == Head(creation[q].todo)
  <2>1. Moves(q) /\ c \in Clients /\ t \in EventTypes /\ Upsert(q, c, t)
    BY <1>2, SaveMoves
  <2>2. creation'[q].step \notin {"new", "validate"} /\ creation'[q].answer # "rejected"
    BY <1>2, StepOrder
  <2>3. \A p \in Creations : p # q => creation'[p] = creation[p]
    BY <2>1 DEF Moves
  <2> HIDE DEF c, t
  <2>4. \A d \in Clients, u \in EventTypes :
          \/ table'[d][u] = table[d][u]
          \/ /\ table'[d][u].data = q
             /\ \/ table'[d][u].id = q
                \/ table[d][u] # NoRow /\ table'[d][u].id = table[d][u].id
    BY <1>0, <2>1 DEF Upsert
  <2> SUFFICES ASSUME NEW p \in Creations,
                      creation'[p].step \in {"new", "validate"} \/ creation'[p].answer = "rejected",
                      NEW d \in Clients, NEW u \in EventTypes, table'[d][u] # NoRow
               PROVE  table'[d][u].data # p /\ table'[d][u].id # p
    BY DEF UnwrittenInv
  <2>5. p # q /\ creation'[p] = creation[p]
    BY <2>2, <2>3
  <2>6. table[d][u] # NoRow => table[d][u].data # p /\ table[d][u].id # p
    BY <2>5 DEF UnwrittenInv
  <2>7. QED BY <2>4, <2>5, <2>6
<1>3. ASSUME NEW r \in Deletions, Lookup(r) PROVE UnwrittenInv'
  BY <1>3 DEF Lookup, UnwrittenInv
<1>4. ASSUME NEW r \in Deletions, Deactivate(r) PROVE UnwrittenInv'
  <2>1. deletion[r].client \in Clients /\ deletion[r].type \in EventTypes
        /\ table[deletion[r].client][deletion[r].type] # NoRow
    BY <1>4 DEF TypeInv, DeletionOK, Deactivate
  <2>2. \A d \in Clients, u \in EventTypes :
          \/ table'[d][u] = table[d][u]
          \/ /\ table[d][u] # NoRow
             /\ table'[d][u].data = table[d][u].data /\ table'[d][u].id = table[d][u].id
    <3> DEFINE c == deletion[r].client
               t == deletion[r].type
               n == [table[c][t] EXCEPT !.status = "INACTIVE"]
    <3>1. table' = table \/ table' = [table EXCEPT ![c][t] = n]
      BY <1>0, <1>4, <2>1 DEF Deactivate
    <3>2. table[c][t] \in Row
      BY <1>0, <2>1
    <3>3. n.data = table[c][t].data /\ n.id = table[c][t].id
      BY <3>2 DEF Row
    <3> HIDE DEF n
    <3>4. QED BY <1>0, <2>1, <3>1, <3>3
  <2>3. creation' = creation
    BY <1>4 DEF Deactivate
  <2>4. QED BY <2>2, <2>3 DEF UnwrittenInv
<1>5. CASE UNCHANGED vars
  BY <1>5 DEF vars, UnwrittenInv
<1>6. QED BY <1>1, <1>2, <1>3, <1>4, <1>5 DEF Next

LEMMA InitInv == Init => SafeInv /\ UnwrittenInv
<1> SUFFICES ASSUME Init PROVE SafeInv /\ UnwrittenInv
  OBVIOUS
<1>1. <<>> \in Seq(EventTypes) /\ IsInjective(<<>>) /\ Range(<<>>) = {}
  BY EmptySeq, LenProperties DEF IsInjective, Range
<1>2. SubscriptionsTypeOK
  BY <1>1 DEF Init, SubscriptionsTypeOK, Creation, Deletion, Written
<1>3. \A q \in Creations : RequestOK(creation[q])
  BY <1>1 DEF Init, RequestOK
<1>4. \A r \in Deletions : DeletionOK(deletion[r])
  BY DEF Init, DeletionOK
<1>5. QED BY <1>2, <1>3, <1>4
          DEF Init, SafeInv, TypeInv, LiveInv, FoundInv, DuplicatesOverlap, UnwrittenInv, NoRow

\* The types of the table, the requests and the observations.
THEOREM SubscriptionsTypeCorrect == Spec => []SubscriptionsTypeOK
<1>1. SafeInv => SubscriptionsTypeOK
  BY DEF SafeInv, TypeInv
<1>2. QED BY <1>1, InitInv, SafeStep, PTL DEF Spec

\* Two creations of one subscription, with no deactivation in between, overlapped.
THEOREM OnlyOverlapsDuplicate == Spec => []DuplicatesOverlap
<1>1. SafeInv => DuplicatesOverlap
  BY DEF SafeInv
<1>2. QED BY <1>1, InitInv, SafeStep, PTL DEF Spec

\* A request whose destination was refused wrote nothing.
THEOREM RejectedWroteNothing == Spec => []RejectedWritesNothing
<1>1. UnwrittenInv => RejectedWritesNothing
  BY DEF UnwrittenInv, RejectedWritesNothing
<1>2. SafeInv => TypeInv
  BY DEF SafeInv
<1>3. QED BY <1>1, <1>2, InitInv, SafeStep, UnwrittenStep, PTL DEF Spec

\* The event type of a 409 is none the same request subscribed to.
THEOREM NoConflictWithItself == Spec => []ConflictIsAnothers
<1>1. TypeInv => ConflictIsAnothers
  <2> SUFFICES ASSUME TypeInv, NEW q \in Creations, creation[q].answer = "conflict"
               PROVE  Head(creation[q].todo) \notin creation[q].made
    BY DEF ConflictIsAnothers
  <2>1. /\ creation[q].todo \in Seq(EventTypes) /\ creation[q].todo # <<>>
        /\ IsInjective(creation[q].todo)
        /\ Range(creation[q].todo) \cap creation[q].made = {}
    BY RequestFacts DEF RequestOK
  <2>2. Head(creation[q].todo) \in Range(creation[q].todo)
    BY <2>1, HeadAndTail
  <2>3. QED BY <2>1, <2>2
<1>2. SafeInv => TypeInv
  BY DEF SafeInv
<1>3. QED BY <1>1, <1>2, InitInv, SafeStep, PTL DEF Spec
=============================================================================

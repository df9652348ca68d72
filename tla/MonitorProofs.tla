---------------------------- MODULE MonitorProofs ---------------------------
(***************************************************************************)
(* Proofs about Monitor and OperatorReplay: for any number of results,     *)
(* clients, dashboards, snapshots and disruptions, any capacities, and any *)
(* lifetimes of tokens.                                                    *)
(***************************************************************************)
EXTENDS MCMonitor, SequenceTheorems, FiniteSetTheorems, TLAPS

-----------------------------------------------------------------------------
(* Induction, from the well-foundedness of < on Nat: the principle is      *)
(* stated with a set, so that it can be cited.                             *)

Below == {ss \in Nat \X Nat : ss[1] < ss[2]}

LEMMA NatLeast ==
  ASSUME NEW T \in SUBSET Nat, T # {}
  PROVE  \E x \in T : \A y \in T : x <= y
<1>1. IsWellFoundedOn(Below, Nat)
  BY NatLessThanWellFounded DEF OpToRel, Below
<1>2. PICK x \in T : \A y \in T : ~(<<y, x>> \in Below)
  BY <1>1, WFMin
<1>3. ASSUME NEW y \in T PROVE x <= y
  <2>1. x \in Nat /\ y \in Nat /\ ~(<<y, x>> \in Below)
    BY <1>2
  <2>2. QED BY <2>1 DEF Below
<1>4. QED BY <1>3

LEMMA NatSetInduction ==
  ASSUME NEW T, 0 \in T, \A n \in Nat : n \in T => n + 1 \in T
  PROVE  \A n \in Nat : n \in T
<1> SUFFICES ASSUME Nat \ T # {} PROVE FALSE
  OBVIOUS
<1>1. PICK x \in Nat \ T : \A y \in Nat \ T : x <= y
  BY NatLeast
<1>2. x - 1 \in Nat /\ x - 1 \in T
  BY <1>1
<1>3. QED BY <1>1, <1>2

-----------------------------------------------------------------------------
(* The filter of delivery-feed.ts.                                         *)

\* g is what the recursion of Filtered defines, up to the n-th element.
Builds(g, s, S, n) ==
  g = [i \in 0..n |->
        IF i = 0 THEN <<>> ELSE IF s[i] \in S THEN Append(g[i - 1], s[i]) ELSE g[i - 1]]

LEMMA BuildsExtended ==
  ASSUME NEW s, NEW S, NEW n \in Nat, NEW g, Builds(g, s, S, n)
  PROVE  \E h : Builds(h, s, S, n + 1)
<1> DEFINE last == IF s[n + 1] \in S THEN Append(g[n], s[n + 1]) ELSE g[n]
           h == [i \in 0..(n + 1) |-> IF i = n + 1 THEN last ELSE g[i]]
           k == [i \in 0..(n + 1) |->
                  IF i = 0 THEN <<>> ELSE IF s[i] \in S THEN Append(h[i - 1], s[i]) ELSE h[i - 1]]
<1>1. \A i \in 0..n : g[i] = IF i = 0 THEN <<>>
                             ELSE IF s[i] \in S THEN Append(g[i - 1], s[i]) ELSE g[i - 1]
  BY DEF Builds
<1>2. \A i \in 1..(n + 1) : h[i - 1] = g[i - 1]
  OBVIOUS
<1>3. ASSUME NEW i \in 0..(n + 1) PROVE h[i] = k[i]
  <2>1. CASE i = 0
    <3>1. g[0] = <<>> /\ h[0] = g[0]
      BY <1>1
    <3>2. QED BY <2>1, <3>1
  <2>2. CASE i = n + 1
    BY <1>2, <2>2
  <2>3. CASE i \in 1..n
    <3>1. h[i] = g[i] /\ h[i - 1] = g[i - 1]
      BY <2>3
    <3>2. QED BY <1>1, <2>3, <3>1
  <2>4. QED BY <2>1, <2>2, <2>3
<1>4. h = k
  BY <1>3
<1>5. Builds(h, s, S, n + 1)
  BY <1>4 DEF Builds
<1>6. QED BY <1>5

LEMMA BuildsExists ==
  ASSUME NEW s, NEW S
  PROVE  \A n \in Nat : \E g : Builds(g, s, S, n)
<1> DEFINE T == {n \in Nat : \E g : Builds(g, s, S, n)}
<1>1. 0 \in T
  <2> DEFINE g == [i \in 0..0 |-> <<>>]
  <2>1. g = [i \in 0..0 |->
           IF i = 0 THEN <<>> ELSE IF s[i] \in S THEN Append(g[i - 1], s[i]) ELSE g[i - 1]]
    OBVIOUS
  <2>2. Builds(g, s, S, 0)
    BY <2>1 DEF Builds
  <2>3. QED BY <2>2
<1>2. \A n \in Nat : n \in T => n + 1 \in T
  BY BuildsExtended
<1> HIDE DEF T
<1>3. \A n \in Nat : n \in T
  BY <1>1, <1>2, NatSetInduction
<1>4. QED BY <1>3 DEF T

SameUpTo(s, t, n) == \A i \in 1..n : s[i] = t[i]

\* A shorter recursion is the beginning of a longer one.
LEMMA BuildsAgree ==
  ASSUME NEW s, NEW t, NEW S, NEW n \in Nat, NEW m \in Nat, n <= m,
         SameUpTo(s, t, n),
         NEW g, Builds(g, s, S, n), NEW h, Builds(h, t, S, m)
  PROVE  \A i \in 0..n : g[i] = h[i]
<1> DEFINE T == {i \in Nat : i <= n => g[i] = h[i]}
<1>1. \A i \in 0..n : g[i] = IF i = 0 THEN <<>>
                             ELSE IF s[i] \in S THEN Append(g[i - 1], s[i]) ELSE g[i - 1]
  BY DEF Builds
<1>2. \A i \in 0..m : h[i] = IF i = 0 THEN <<>>
                             ELSE IF t[i] \in S THEN Append(h[i - 1], t[i]) ELSE h[i - 1]
  BY DEF Builds
<1>3. 0 \in T
  BY <1>1, <1>2
<1>4. ASSUME NEW i \in Nat, i \in T PROVE i + 1 \in T
  <2>1. CASE i + 1 <= n
    <3>1. g[i] = h[i] /\ i + 1 \in 0..n /\ i + 1 \in 0..m /\ i + 1 \in 1..n /\ (i + 1) - 1 = i
          /\ i + 1 # 0
      BY <1>4, <2>1
    <3>2. g[i + 1] = IF s[i + 1] \in S THEN Append(g[i], s[i + 1]) ELSE g[i]
      BY <1>1, <3>1
    <3>3. h[i + 1] = IF t[i + 1] \in S THEN Append(h[i], t[i + 1]) ELSE h[i]
      BY <1>2, <3>1
    <3>4. s[i + 1] = t[i + 1]
      BY <3>1 DEF SameUpTo
    <3>5. QED BY <3>1, <3>2, <3>3, <3>4
  <2>2. QED BY <2>1
<1>5. \A i \in Nat : i \in T
  BY <1>3, <1>4, NatSetInduction
<1>6. QED BY <1>5

LEMMA FilteredBuilds ==
  ASSUME NEW A, NEW s \in Seq(A), NEW S
  PROVE  \E g : Builds(g, s, S, Len(s)) /\ Filtered(s, S) = g[Len(s)]
<1>1. \E g : Builds(g, s, S, Len(s))
  BY LenProperties, BuildsExists
<1>2. Builds(CHOOSE g : Builds(g, s, S, Len(s)), s, S, Len(s))
  BY <1>1
<1>3. Filtered(s, S) = (CHOOSE g : Builds(g, s, S, Len(s)))[Len(s)]
  BY DEF Filtered, Builds
<1>4. QED BY <1>2, <1>3

LEMMA FilteredEmpty ==
  ASSUME NEW S PROVE Filtered(<<>>, S) = <<>>
<1>1. <<>> \in Seq({}) /\ Len(<<>>) = 0
  OBVIOUS
<1>2. PICK g : Builds(g, <<>>, S, 0) /\ Filtered(<<>>, S) = g[0]
  BY <1>1, FilteredBuilds
<1>3. QED BY <1>2 DEF Builds

LEMMA FilteredAppend ==
  ASSUME NEW A, NEW s \in Seq(A), NEW x \in A, NEW S
  PROVE  Filtered(Append(s, x), S) =
           IF x \in S THEN Append(Filtered(s, S), x) ELSE Filtered(s, S)
<1> DEFINE t == Append(s, x)
           n == Len(s)
<1>1. /\ t \in Seq(A) /\ Len(t) = n + 1 /\ n \in Nat
      /\ \A i \in 1..n : s[i] = t[i]
      /\ t[n + 1] = x
  BY AppendProperties, LenProperties
<1>2. PICK g : Builds(g, s, S, n) /\ Filtered(s, S) = g[n]
  BY FilteredBuilds
<1>3. PICK h : Builds(h, t, S, n + 1) /\ Filtered(t, S) = h[n + 1]
  BY <1>1, FilteredBuilds
<1> HIDE DEF t, n
<1>4. \A i \in 0..n : g[i] = h[i]
  <2>1. n + 1 \in Nat /\ n <= n + 1
    BY <1>1
  <2>2. n \in Nat /\ SameUpTo(s, t, n) /\ Builds(g, s, S, n) /\ Builds(h, t, S, n + 1)
    BY <1>1, <1>2, <1>3 DEF SameUpTo
  <2>3. QED BY <2>1, <2>2, BuildsAgree
<1>7. g[n] = h[n]
  BY <1>1, <1>4
<1>5. h[n + 1] = IF t[n + 1] \in S THEN Append(h[n], t[n + 1]) ELSE h[n]
  <2>1. n + 1 \in 0..(n + 1) /\ n + 1 # 0 /\ (n + 1) - 1 = n
    BY <1>1
  <2>2. QED BY <1>3, <2>1 DEF Builds
<1>6. QED BY <1>1, <1>2, <1>3, <1>5, <1>7 DEF t

LEMMA ToSetAppend ==
  ASSUME NEW A, NEW s \in Seq(A), NEW x \in A
  PROVE  ToSet(Append(s, x)) = ToSet(s) \cup {x}
<1>1. /\ Append(s, x) \in Seq(A) /\ Len(Append(s, x)) = Len(s) + 1 /\ Len(s) \in Nat
      /\ \A i \in 1..Len(s) : Append(s, x)[i] = s[i]
      /\ Append(s, x)[Len(s) + 1] = x
  BY AppendProperties, LenProperties
<1>2. DOMAIN Append(s, x) = 1..(Len(s) + 1) /\ DOMAIN s = 1..Len(s)
  BY <1>1, LenProperties
<1>3. QED BY <1>1, <1>2 DEF ToSet

LEMMA ToSetElements ==
  ASSUME NEW A, NEW s \in Seq(A)
  PROVE  /\ ToSet(s) = {s[i] : i \in 1..Len(s)} /\ ToSet(s) \subseteq A
         /\ Len(s) \in Nat /\ DOMAIN s = 1..Len(s)
BY LenProperties DEF ToSet

\* What is left are elements of s, in order, if s is in order.
Increasing(s) == \A i, j \in 1..Len(s) : i < j => s[i] < s[j]

Kept(s, S) ==
  /\ Filtered(s, S) \in Seq(Nat)
  /\ ToSet(Filtered(s, S)) = ToSet(s) \cap S
  /\ Increasing(s) => Increasing(Filtered(s, S))

LEMMA IncreasingAppend ==
  ASSUME NEW s \in Seq(Nat), NEW x \in Nat
  PROVE  Increasing(Append(s, x)) <=> Increasing(s) /\ \A y \in ToSet(s) : y < x
<1> DEFINE t == Append(s, x)
<1>1. /\ Len(t) = Len(s) + 1 /\ Len(s) \in Nat
      /\ \A i \in 1..Len(s) : t[i] = s[i] /\ s[i] \in Nat
      /\ t[Len(s) + 1] = x
  BY AppendProperties, LenProperties
<1>2. ToSet(s) = {s[i] : i \in 1..Len(s)}
  BY ToSetElements
<1> HIDE DEF t
<1>3. ASSUME Increasing(t) PROVE Increasing(s) /\ \A y \in ToSet(s) : y < x
  <2>1. Increasing(s)
    BY <1>1, <1>3 DEF Increasing
  <2>2. ASSUME NEW i \in 1..Len(s) PROVE s[i] < x
    <3>1. i \in 1..Len(t) /\ Len(s) + 1 \in 1..Len(t) /\ i < Len(s) + 1
      BY <1>1
    <3>2. t[i] < t[Len(s) + 1]
      BY <3>1, <1>3 DEF Increasing
    <3>3. QED BY <3>2, <1>1
  <2>3. QED BY <2>1, <2>2, <1>2
<1>4. ASSUME Increasing(s), \A y \in ToSet(s) : y < x PROVE Increasing(t)
  <2> SUFFICES ASSUME NEW i \in 1..Len(t), NEW j \in 1..Len(t), i < j PROVE t[i] < t[j]
    BY DEF Increasing
  <2>1. i \in 1..Len(s)
    BY <1>1
  <2>2. CASE j = Len(s) + 1
    BY <2>1, <2>2, <1>1, <1>2, <1>4
  <2>3. CASE j # Len(s) + 1
    <3>1. j \in 1..Len(s)
      BY <2>3, <1>1
    <3>2. QED BY <2>1, <3>1, <1>1, <1>4 DEF Increasing
  <2>4. QED BY <2>2, <2>3
<1>5. QED BY <1>3, <1>4 DEF t

LEMMA FilteredKept ==
  ASSUME NEW S
  PROVE  \A s \in Seq(Nat) : Kept(s, S)
<1> DEFINE T == {n \in Nat : \A s \in Seq(Nat) : Len(s) = n => Kept(s, S)}
<1>1. 0 \in T
  <2>1. ToSet(<<>>) = {} /\ <<>> \in Seq(Nat) /\ Increasing(<<>>)
    BY DEF ToSet, Increasing
  <2>2. Kept(<<>>, S)
    BY <2>1, FilteredEmpty DEF Kept
  <2>3. QED BY <2>2, EmptySeq
<1>2. ASSUME NEW n \in Nat, n \in T PROVE n + 1 \in T
  <2> SUFFICES ASSUME NEW s \in Seq(Nat), Len(s) = n + 1 PROVE Kept(s, S)
    OBVIOUS
  <2>1. s # <<>>
    OBVIOUS
  <2>2. PICK u \in Seq(Nat), x \in Nat : s = Append(u, x)
    BY <2>1, SequenceEmptyOrAppend
  <2>3. Len(u) = n
    BY <2>2, AppendProperties, LenProperties
  <2>4. Kept(u, S)
    BY <1>2, <2>3
  <2> HIDE DEF T
  <2>5. /\ Filtered(u, S) \in Seq(Nat) /\ ToSet(Filtered(u, S)) = ToSet(u) \cap S
        /\ Increasing(u) => Increasing(Filtered(u, S))
    BY <2>4 DEF Kept
  <2>6. ToSet(s) = ToSet(u) \cup {x}
    BY <2>2, ToSetAppend
  <2>7. Increasing(s) => Increasing(u) /\ \A y \in ToSet(u) : y < x
    BY <2>2, IncreasingAppend
  <2>8. CASE x \in S
    <3>1. Filtered(s, S) = Append(Filtered(u, S), x)
      BY <2>2, <2>8, FilteredAppend
    <3>2. ToSet(Filtered(s, S)) = ToSet(Filtered(u, S)) \cup {x}
      BY <3>1, <2>5, ToSetAppend
    <3>3. Filtered(s, S) \in Seq(Nat)
      BY <3>1, <2>5, AppendProperties
    <3>4. Increasing(s) => Increasing(Filtered(s, S))
      BY <3>1, <2>5, <2>7, IncreasingAppend
    <3>5. ToSet(Filtered(s, S)) = ToSet(s) \cap S
      BY <3>2, <2>5, <2>6, <2>8
    <3>6. QED BY <3>3, <3>4, <3>5 DEF Kept
  <2>9. CASE x \notin S
    <3>1. Filtered(s, S) = Filtered(u, S)
      BY <2>2, <2>9, FilteredAppend
    <3>2. ToSet(s) \cap S = ToSet(u) \cap S
      BY <2>6, <2>9
    <3>3. QED BY <3>1, <3>2, <2>5, <2>7 DEF Kept
  <2>10. QED BY <2>8, <2>9
<1> HIDE DEF T
<1>3. \A n \in Nat : n \in T
  BY <1>1, <1>2, NatSetInduction
<1>4. QED BY <1>3, LenProperties DEF T

-----------------------------------------------------------------------------
(* The feed.                                                               *)

Oldest == IF Len(handled) - Capacity > started THEN Len(handled) - Capacity ELSE started

FeedInv ==
  /\ handled \in Seq(Results) /\ started \in Nat /\ started <= Len(handled)
  /\ FeedIsWindow

FeedFact ==
  /\ Oldest \in Nat /\ Oldest <= Len(handled) /\ Len(handled) \in Nat
  /\ DOMAIN handled = 1..Len(handled)
  /\ buffer \in Seq(Nat) /\ Increasing(buffer)
  /\ Len(buffer) = Len(handled) - Oldest /\ Len(buffer) \in Nat
  /\ \A i \in 1..Len(buffer) : buffer[i] = Oldest + i
  /\ ToSet(buffer) = (Oldest + 1)..Len(handled)

LEMMA FeedFacts == FeedInv => FeedFact
<1> SUFFICES ASSUME FeedInv PROVE FeedFact
  OBVIOUS
<1>1. Len(handled) \in Nat /\ DOMAIN handled = 1..Len(handled)
  BY LenProperties DEF FeedInv
<1>2. Oldest \in Nat /\ Oldest <= Len(handled)
  BY <1>1, MonitorAssumption DEF FeedInv, Oldest
<1>3. buffer = [i \in 1..(Len(handled) - Oldest) |-> Oldest + i]
  BY DEF FeedInv, FeedIsWindow, Oldest
<1> DEFINE n == Len(handled) - Oldest
<1>4. n \in Nat
  BY <1>1, <1>2
<1>5. buffer \in Seq(Nat) /\ Len(buffer) = n
  BY <1>2, <1>3, <1>4
<1>6. Increasing(buffer)
  BY <1>2, <1>3, <1>5 DEF Increasing
<1>9. \A i \in 1..Len(buffer) : buffer[i] = Oldest + i
  BY <1>3, <1>5
<1>7. ToSet(buffer) = {Oldest + i : i \in 1..n}
  <2>1. ToSet(buffer) = {buffer[i] : i \in 1..Len(buffer)}
    BY <1>5, ToSetElements
  <2>2. QED BY <2>1, <1>5, <1>9
<1>8. {Oldest + i : i \in 1..n} = (Oldest + 1)..Len(handled)
  <2>1. ASSUME NEW row \in (Oldest + 1)..Len(handled)
        PROVE  row \in {Oldest + i : i \in 1..n}
    <3>1. row - Oldest \in 1..n /\ row = Oldest + (row - Oldest)
      BY <1>1, <1>2
    <3>2. QED BY <3>1
  <2>2. \A i \in 1..n : Oldest + i \in (Oldest + 1)..Len(handled)
    BY <1>1, <1>2
  <2>3. QED BY <2>1, <2>2
<1>10. QED BY <1>1, <1>2, <1>4, <1>5, <1>6, <1>7, <1>8, <1>9 DEF FeedFact

LEMMA FeedFactsNext == (FeedInv => FeedFact)'
BY FeedFacts, PTL

\* Of the rows of some clients, those with fewer than DefaultLimit after them.
Latest(clients) ==
  {row \in ToSet(buffer) \cap RowsOf(clients) : Cardinality(Later(row, clients)) < DefaultLimit}

\* The elements behind a place of an increasing sequence are as many as places.
LEMMA CountBehind ==
  ASSUME NEW f \in Seq(Nat), Increasing(f), NEW p \in 1..Len(f)
  PROVE  LET S == {r \in ToSet(f) : r > f[p]}
         IN  IsFiniteSet(S) /\ Cardinality(S) = Len(f) - p
<1> DEFINE S == {r \in ToSet(f) : r > f[p]}
           I == (p + 1)..Len(f)
           g == [j \in I |-> f[j]]
<1>1. /\ ToSet(f) = {f[i] : i \in 1..Len(f)} /\ Len(f) \in Nat
      /\ \A i \in 1..Len(f) : f[i] \in Nat
  BY ToSetElements
<1>2. IsFiniteSet(I) /\ Cardinality(I) = Len(f) - p
  BY <1>1, FS_Interval
<1>3. \A i, j \in 1..Len(f) : f[i] < f[j] => i < j
  <2> SUFFICES ASSUME NEW i \in 1..Len(f), NEW j \in 1..Len(f), f[i] < f[j], ~(i < j)
               PROVE  FALSE
    OBVIOUS
  <2>1. f[i] \in Nat /\ f[j] \in Nat
    BY <1>1
  <2>2. CASE i = j
    BY <2>1, <2>2
  <2>3. CASE j < i
    BY <2>1, <2>3 DEF Increasing
  <2>4. QED BY <2>2, <2>3
<1>4. \A i, j \in 1..Len(f) : i < j => f[i] < f[j]
  BY DEF Increasing
<1>5. g \in [I -> S]
  <2> SUFFICES ASSUME NEW j \in I PROVE f[j] \in S
    OBVIOUS
  <2>1. j \in 1..Len(f) /\ p < j
    BY <1>1
  <2>2. f[p] < f[j] /\ f[p] \in Nat /\ f[j] \in Nat
    BY <1>1, <1>4, <2>1
  <2>3. f[j] > f[p]
    BY <2>2
  <2>4. QED BY <1>1, <2>1, <2>3
<1>6. \A i, j \in I : g[i] = g[j] => i = j
  <2> SUFFICES ASSUME NEW i \in I, NEW j \in I, f[i] = f[j], i < j PROVE FALSE
    BY <1>1
  <2>1. i \in 1..Len(f) /\ j \in 1..Len(f)
    BY <1>1
  <2>2. f[i] < f[j] /\ f[j] \in Nat
    BY <1>1, <1>4, <2>1
  <2>3. QED BY <2>2
<1>7. \A r \in S : \E j \in I : g[j] = r
  <2> SUFFICES ASSUME NEW r \in S PROVE \E j \in I : f[j] = r
    OBVIOUS
  <2>1. PICK j \in 1..Len(f) : r = f[j]
    BY <1>1
  <2>2. f[p] < f[j]
    BY <1>1, <2>1
  <2>3. p < j
    BY <1>3, <2>2
  <2>4. j \in I
    BY <1>1, <2>3
  <2>5. QED BY <2>1, <2>4
<1> HIDE DEF S, I, g
<1>8. g \in Bijection(I, S)
  BY <1>5, <1>6, <1>7 DEF Bijection, Injection, Surjection, IsInjective
<1>9. ExistsBijection(I, S)
  BY <1>8 DEF ExistsBijection
<1>10. IsFiniteSet(S) /\ Cardinality(S) = Cardinality(I)
  BY <1>2, <1>9, FS_Bijection
<1>11. QED BY <1>2, <1>10 DEF S

-----------------------------------------------------------------------------
(* The invariant: by part of the service, and by dashboard.                *)

\* The rows a dashboard's stream has delivered, if it has been open long enough.
Shown(b) == Len(handled) - Len(frames[b])

\* On their way are the rows handled last.
StreamInv(b) ==
  /\ Len(frames[b]) <= Len(handled)
  /\ \A i \in 1..Len(frames[b]) : frames[b][i] = Shown(b) + i
  /\ link[b] # "open" => frames[b] = <<>>

\* Every one of the latest rows that the stream has shown is in the set.
Covers(b, clients, shown) == \A row \in Latest(clients) : row <= Shown(b) => row \in shown

AskInv(b, a) ==
  /\ a.answered =>
       /\ Len(a.rows) <= DefaultLimit
       /\ \A i \in DOMAIN a.rows : a.rows[i] \in RowsOf(a.filter.exact)
  /\ a.intact =>
       /\ a.answered /\ link[b] = "open"
       /\ Covers(b, a.filter.exact, ToSet(a.rows))

\* The rows after a row that the stream has shown and the text of the filter selects.
Pushing(b, row) == {r \in Later(row, filter[b].within) : r <= Shown(b)}

\* A row is as far down as rows have come after it, or was pushed off by too many.
Placed(b, row) ==
  \/ \E p \in DOMAIN rows[b] :
       rows[b][p] = row /\ p <= DefaultLimit + Cardinality(Pushing(b, row))
  \/ Cardinality(Pushing(b, row)) > MAX_ROWS - DefaultLimit

PageInv(b) ==
  /\ \A p \in DOMAIN rows[b] : rows[b][p] \in DOMAIN handled
  /\ whole[b] =>
       /\ link[b] = "open"
       /\ \A row \in Latest(filter[b].exact) : row <= Shown(b) => Placed(b, row)

\* While snapshots have not crossed, there is one at most, and it is for the filter.
MatchInv(b) ==
  ~crossed[b] =>
    /\ Len(asks[b]) <= 1
    /\ \A i \in DOMAIN asks[b] : asks[b][i].filter = filter[b]
    /\ asks[b] = <<>> =>
         \A p \in DOMAIN rows[b] : rows[b][p] \in RowsOf(filter[b].within)

DashboardInv(b) ==
  /\ StreamInv(b) /\ PageInv(b) /\ MatchInv(b)
  /\ \A i \in DOMAIN asks[b] : AskInv(b, asks[b][i])
  /\ server \in {"stopping", "down"} => link[b] # "open"

MonitorInv ==
  /\ MonitorTypeOK /\ position # 0 /\ FeedInv
  /\ \A b \in Dashboards : DashboardInv(b)

-----------------------------------------------------------------------------
(* A snapshot is the latest rows of its clients.                           *)

LEMMA LastOnesReversed ==
  ASSUME NEW f \in Seq(Nat), NEW limit \in Nat \ {0}
  PROVE  LET t == Reverse(SliceLast(f, limit))
         IN  /\ t \in Seq(Nat)
             /\ Len(t) = IF limit <= Len(f) THEN limit ELSE Len(f)
             /\ \A i \in 1..Len(t) : t[i] = f[Len(f) - i + 1]
<1> DEFINE u == SliceLast(f, limit)
           m == IF limit <= Len(f) THEN limit ELSE Len(f)
<1>1. Len(f) \in Nat /\ \A i \in 1..Len(f) : f[i] \in Nat
  BY ToSetElements
<1>2. u \in Seq(Nat) /\ Len(u) = m /\ \A i \in 1..m : u[i] = f[Len(f) - m + i]
  <2>1. CASE limit <= Len(f)
    <3>1. u = SubSeq(f, Len(f) - limit + 1, Len(f))
      BY <2>1 DEF SliceLast
    <3>2. \A i \in (Len(f) - limit + 1)..Len(f) : f[i] \in Nat
      BY <1>1, <2>1
    <3>3. /\ SubSeq(f, Len(f) - limit + 1, Len(f)) \in Seq(Nat)
          /\ Len(SubSeq(f, Len(f) - limit + 1, Len(f))) = limit
          /\ \A i \in 1..limit :
               SubSeq(f, Len(f) - limit + 1, Len(f))[i] = f[(Len(f) - limit + 1) + i - 1]
      <4>1. Len(f) - limit + 1 \in Int /\ Len(f) \in Int
        BY <1>1
      <4>2. /\ Len(f) - limit + 1 <= Len(f) /\ Len(f) - (Len(f) - limit + 1) + 1 = limit
        BY <1>1, <2>1
      <4>3. QED BY <3>2, <4>1, <4>2, SubSeqProperties
    <3>4. \A i \in 1..limit : (Len(f) - limit + 1) + i - 1 = Len(f) - limit + i
      BY <1>1
    <3>5. QED BY <2>1, <3>1, <3>3, <3>4
  <2>2. CASE ~(limit <= Len(f))
    BY <2>2, <1>1 DEF SliceLast
  <2>3. QED BY <2>1, <2>2
<1>3. m \in Nat /\ m <= Len(f)
  BY <1>1
<1> HIDE DEF u, m
<1>4. Reverse(u) = [i \in 1..m |-> u[m - i + 1]]
  BY <1>2 DEF Reverse
<1>5. \A i \in 1..m : m - i + 1 \in 1..m /\ u[m - i + 1] = f[Len(f) - i + 1] /\ u[m - i + 1] \in Nat
  <2> SUFFICES ASSUME NEW i \in 1..m
               PROVE  /\ m - i + 1 \in 1..m /\ u[m - i + 1] = f[Len(f) - i + 1]
                      /\ u[m - i + 1] \in Nat
    OBVIOUS
  <2>1. m - i + 1 \in 1..m /\ Len(f) - m + (m - i + 1) = Len(f) - i + 1
        /\ Len(f) - i + 1 \in 1..Len(f)
    BY <1>1, <1>3
  <2>2. u[m - i + 1] = f[Len(f) - m + (m - i + 1)]
    BY <1>2, <2>1
  <2>3. QED BY <1>1, <2>1, <2>2
<1>6. Reverse(u) \in Seq(Nat) /\ Len(Reverse(u)) = m
  BY <1>3, <1>4, <1>5
<1>7. \A i \in 1..m : Reverse(u)[i] = f[Len(f) - i + 1]
  BY <1>4, <1>5
<1>8. QED BY <1>6, <1>7 DEF u, m

LEMMA RecentIsLatest ==
  ASSUME FeedInv, NEW clients
  PROVE  LET t == Recent(DefaultLimit, clients)
         IN  /\ t \in Seq(Nat) /\ Len(t) <= DefaultLimit
             /\ \A i \in DOMAIN t : t[i] \in RowsOf(clients)
             /\ ToSet(t) = Latest(clients)
<1> DEFINE f == Filtered(buffer, RowsOf(clients))
           n == Len(f)
           t == Recent(DefaultLimit, clients)
<1>1. DefaultLimit \in Nat \ {0}
  BY MonitorAssumption
<1>2. f \in Seq(Nat) /\ Increasing(f) /\ ToSet(f) = ToSet(buffer) \cap RowsOf(clients)
  BY FeedFacts, FilteredKept DEF FeedFact, Kept
<1>3. n \in Nat /\ ToSet(f) = {f[i] : i \in 1..n} /\ \A i \in 1..n : f[i] \in Nat
  BY <1>2, ToSetElements
<1>4. /\ t \in Seq(Nat) /\ Len(t) = IF DefaultLimit <= n THEN DefaultLimit ELSE n
      /\ \A i \in 1..Len(t) : t[i] = f[n - i + 1]
  BY <1>1, <1>2, LastOnesReversed DEF Recent
<1>5. Len(t) \in Nat /\ DOMAIN t = 1..Len(t) /\ ToSet(t) = {t[i] : i \in 1..Len(t)}
  BY <1>4, ToSetElements
<1> HIDE DEF f, t
<1>6. ASSUME NEW p \in 1..n PROVE Cardinality(Later(f[p], clients)) = n - p
  <2>1. f[p] \in ToSet(buffer) /\ f[p] \in Nat
    BY <1>2, <1>3
  <2>2. \A r \in RowsOf(clients) : r > f[p] => r \in ToSet(buffer)
    BY <2>1, FeedFacts DEF FeedFact, RowsOf
  <2>3. Later(f[p], clients) = {r \in ToSet(f) : r > f[p]}
    BY <1>2, <2>2 DEF Later
  <2>4. QED BY <1>2, <2>3, CountBehind
<1>7. \A i \in 1..Len(t) : n - i + 1 \in 1..n /\ t[i] = f[n - i + 1] /\ n - (n - i + 1) < DefaultLimit
  BY <1>1, <1>3, <1>4, <1>5
<1>8. ASSUME NEW i \in 1..Len(t) PROVE t[i] \in Latest(clients)
  <2>1. n - i + 1 \in 1..n /\ t[i] = f[n - i + 1] /\ n - (n - i + 1) < DefaultLimit
    BY <1>7
  <2>2. t[i] \in ToSet(f)
    BY <2>1, <1>3
  <2>3. Cardinality(Later(t[i], clients)) = n - (n - i + 1)
    BY <2>1, <1>6
  <2>4. QED BY <2>1, <2>2, <2>3, <1>2 DEF Latest
<1>9. ASSUME NEW row \in Latest(clients) PROVE row \in ToSet(t)
  <2>1. PICK p \in 1..n : row = f[p]
    BY <1>2, <1>3 DEF Latest
  <2>2. n - p < DefaultLimit
    BY <1>6, <2>1 DEF Latest
  <2>3. n - p + 1 \in 1..Len(t) /\ n - (n - p + 1) + 1 = p
    BY <1>1, <1>3, <1>4, <2>2
  <2>4. t[n - p + 1] = f[n - (n - p + 1) + 1]
    BY <1>4, <2>3
  <2>5. QED BY <1>5, <2>1, <2>3, <2>4
<1>10. ToSet(t) = Latest(clients)
  BY <1>5, <1>8, <1>9
<1>11. Len(t) <= DefaultLimit
  BY <1>1, <1>3, <1>4
<1>12. \A i \in DOMAIN t : t[i] \in RowsOf(clients)
  BY <1>5, <1>8 DEF Latest
<1>13. QED BY <1>4, <1>10, <1>11, <1>12 DEF t

-----------------------------------------------------------------------------
(* The types.                                                              *)

LEMMA RemoveAtProperties ==
  ASSUME NEW A, NEW s \in Seq(A), NEW i \in 1..Len(s)
  PROVE  /\ RemoveAt(s, i) \in Seq(A) /\ Len(RemoveAt(s, i)) = Len(s) - 1
         /\ \A j \in 1..(Len(s) - 1) :
              /\ RemoveAt(s, i)[j] = s[IF j < i THEN j ELSE j + 1]
              /\ (IF j < i THEN j ELSE j + 1) \in 1..Len(s)
<1> DEFINE front == SubSeq(s, 1, i - 1)
           back == SubSeq(s, i + 1, Len(s))
<1>1. Len(s) \in Nat /\ \A j \in 1..Len(s) : s[j] \in A
  BY ElementOfSeq, LenProperties
<1>2. /\ front \in Seq(A) /\ Len(front) = i - 1
      /\ \A j \in 1..(i - 1) : front[j] = s[j]
  <2>1. /\ 1 \in Int /\ i - 1 \in Int /\ \A j \in 1..(i - 1) : s[j] \in A
        /\ (i - 1) - 1 + 1 = i - 1 /\ \A j \in 1..(i - 1) : 1 + j - 1 = j
        /\ (IF 1 <= i - 1 THEN (i - 1) - 1 + 1 ELSE 0) = i - 1
    BY <1>1
  <2>2. /\ front \in Seq(A)
        /\ Len(front) = IF 1 <= i - 1 THEN (i - 1) - 1 + 1 ELSE 0
        /\ \A j \in 1..((i - 1) - 1 + 1) : front[j] = s[1 + j - 1]
    BY <2>1, SubSeqProperties
  <2>3. QED BY <2>1, <2>2
<1>3. /\ back \in Seq(A) /\ Len(back) = Len(s) - i
      /\ \A j \in 1..(Len(s) - i) : back[j] = s[i + j]
  <2>1. /\ i + 1 \in Int /\ Len(s) \in Int /\ \A j \in (i + 1)..Len(s) : s[j] \in A
        /\ Len(s) - (i + 1) + 1 = Len(s) - i
        /\ \A j \in 1..(Len(s) - i) : (i + 1) + j - 1 = i + j
        /\ (IF i + 1 <= Len(s) THEN Len(s) - (i + 1) + 1 ELSE 0) = Len(s) - i
    BY <1>1
  <2> DEFINE n == Len(s)
             m == i + 1
  <2> HIDE DEF n, m, back
  <2>2. /\ SubSeq(s, m, n) \in Seq(A)
        /\ Len(SubSeq(s, m, n)) = IF m <= n THEN n - m + 1 ELSE 0
        /\ \A j \in 1..(n - m + 1) : SubSeq(s, m, n)[j] = s[m + j - 1]
    <3>1. m \in Int /\ n \in Int /\ \A j \in m..n : s[j] \in A
      BY <2>1 DEF m, n
    <3>2. QED BY <3>1, SubSeqProperties
  <2>3. QED BY <2>1, <2>2 DEF m, n, back
<1>4. RemoveAt(s, i) = front \o back
  BY DEF RemoveAt
<1> HIDE DEF front, back
<1>5. /\ front \o back \in Seq(A) /\ Len(front \o back) = Len(front) + Len(back)
      /\ \A j \in 1..(Len(front) + Len(back)) :
           (front \o back)[j] = IF j <= Len(front) THEN front[j] ELSE back[j - Len(front)]
  BY <1>2, <1>3, ConcatProperties
<1>6. Len(front) + Len(back) = Len(s) - 1
  BY <1>1, <1>2, <1>3
<1>7. ASSUME NEW j \in 1..(Len(s) - 1)
      PROVE  /\ (front \o back)[j] = s[IF j < i THEN j ELSE j + 1]
             /\ (IF j < i THEN j ELSE j + 1) \in 1..Len(s)
  <2>1. CASE j < i
    BY <2>1, <1>1, <1>2, <1>5, <1>6
  <2>2. CASE ~(j < i)
    <3>1. j - (i - 1) \in 1..(Len(s) - i) /\ i + (j - (i - 1)) = j + 1 /\ ~(j <= i - 1)
      BY <2>2, <1>1
    <3>2. (front \o back)[j] = back[j - (i - 1)]
      BY <3>1, <1>2, <1>5, <1>6
    <3>3. back[j - (i - 1)] = s[j + 1]
      BY <3>1, <1>3
    <3>4. QED BY <2>2, <3>2, <3>3, <1>1
  <2>3. QED BY <2>1, <2>2
<1>8. QED BY <1>4, <1>5, <1>6, <1>7

\* A dashboard's snapshots remain snapshots, when one is shaken, answered or gone.
LEMMA AskTypes ==
  ASSUME NEW q \in Seq(Ask)
  PROVE  /\ DOMAIN q = 1..Len(q) /\ Len(q) \in Nat /\ \A i \in 1..Len(q) : q[i] \in Ask
         /\ \A i \in 1..Len(q) : \A t \in BOOLEAN : [q[i] EXCEPT !.intact = t] \in Ask
         /\ \A f \in Filters \cup {All} : NewAsk(f) \in Ask
<1>1. Len(q) \in Nat /\ DOMAIN q = 1..Len(q) /\ \A i \in 1..Len(q) : q[i] \in Ask
  BY ToSetElements, ElementOfSeq
<1>2. ASSUME NEW i \in 1..Len(q), NEW t \in BOOLEAN
      PROVE  [q[i] EXCEPT !.intact = t] \in Ask
  <2>1. q[i] \in Ask
    BY <1>1
  <2>2. QED BY <2>1 DEF Ask
<1>3. ASSUME NEW f \in Filters \cup {All} PROVE NewAsk(f) \in Ask
  BY DEF NewAsk, Ask
<1>4. QED BY <1>1, <1>2, <1>3

LEMMA TypeStep ==
  ASSUME MonitorTypeOK, position # 0, FeedInv, \A b \in Dashboards : PageInv(b), [Next]_vars
  PROVE  (MonitorTypeOK /\ position # 0)'
<1> USE MonitorAssumption DEF vars, consumer, feed, page
<1>1. CASE Publish
  BY <1>1 DEF Publish, MonitorTypeOK
<1>2. CASE Consume
  <2>1. position \in Results /\ position + 1 \in Nat /\ position + 1 # 0
    BY <1>2 DEF Consume, MonitorTypeOK, Results
  <2>2. handled' \in Seq(Results)
    <3>1. handled \in Seq(Results)
      BY DEF MonitorTypeOK
    <3>2. Append(handled, position) \in Seq(Results)
      BY <2>1, <3>1, AppendProperties
    <3>3. QED BY <3>1, <3>2, <1>2 DEF Consume
  <2>3. Len(handled) + 1 \in Nat
    BY LenProperties DEF MonitorTypeOK
  <2>4. buffer' \in Seq(Nat)
    <3>0. buffer \in Seq(Nat)
      BY DEF MonitorTypeOK
    <3>1. /\ Append(buffer, Len(handled) + 1) \in Seq(Nat)
          /\ Append(buffer, Len(handled) + 1) # <<>>
      BY <2>3, <3>0, AppendProperties, SMTT(30)
    <3>2. Tail(Append(buffer, Len(handled) + 1)) \in Seq(Nat)
      BY <3>1, HeadTailProperties
    <3>3. Record(Len(handled) + 1) \in Seq(Nat)
      BY <3>1, <3>2 DEF Record
    <3>4. QED BY <3>3, <1>2 DEF Consume, MonitorTypeOK
  <2>5. frames' \in [Dashboards -> Seq(Nat)]
    <3>1. \A b \in Dashboards : Append(frames[b], Len(handled) + 1) \in Seq(Nat)
      BY <2>3, AppendProperties DEF MonitorTypeOK
    <3>2. QED BY <3>1, <1>2 DEF Consume, MonitorTypeOK
  <2>6. QED BY <2>1, <2>2, <2>4, <2>5, <1>2 DEF Consume, MonitorTypeOK
<1>3. CASE Commit
  BY <1>3 DEF Commit, MonitorTypeOK
<1>4. CASE Rejoin
  <2>1. topic + 1 \in Nat /\ topic + 1 # 0
    BY DEF MonitorTypeOK
  <2>2. QED BY <2>1, <1>4 DEF Rejoin, MonitorTypeOK, NoOffset, Disrupted
<1>5. ASSUME NEW b \in Dashboards, Connect(b) PROVE (MonitorTypeOK /\ position # 0)'
  BY <1>5 DEF Connect, MonitorTypeOK
<1>6. ASSUME NEW b \in Dashboards, Drop(b) PROVE (MonitorTypeOK /\ position # 0)'
  <2>1. asks' \in [Dashboards -> Seq(Ask)]
    <3>1. asks[b] \in Seq(Ask)
      BY DEF MonitorTypeOK
    <3>2. /\ Len(asks[b]) \in Nat
          /\ \A i \in 1..Len(asks[b]) : [asks[b][i] EXCEPT !.intact = FALSE] \in Ask
      BY <3>1, AskTypes
    <3>3. [i \in 1..Len(asks[b]) |-> [asks[b][i] EXCEPT !.intact = FALSE]] \in Seq(Ask)
      BY <3>2
    <3>4. QED BY <3>3, <1>6 DEF Drop, Shaken, MonitorTypeOK
  <2>2. frames' \in [Dashboards -> Seq(Nat)]
    BY <1>6, EmptySeq DEF Drop, MonitorTypeOK
  <2>3. whole' \in [Dashboards -> BOOLEAN] /\ link' \in [Dashboards -> {"connecting", "open"}]
    BY <1>6 DEF Drop, Shaken, MonitorTypeOK
  <2>4. disruptions' \in 0..MaxDisruptions
    BY <1>6 DEF Drop, Disrupted, MonitorTypeOK
  <2>5. QED BY <2>1, <2>2, <2>3, <2>4, <1>6 DEF Drop, MonitorTypeOK
<1>7. ASSUME NEW b \in Dashboards, ShowFrame(b) PROVE (MonitorTypeOK /\ position # 0)'
  <2>1. frames[b] \in Seq(Nat) /\ rows[b] \in Seq(Nat) /\ asks[b] \in Seq(Ask)
    BY DEF MonitorTypeOK
  <2>2. Head(frames[b]) \in Nat /\ Tail(frames[b]) \in Seq(Nat)
    BY <1>7, <2>1, HeadTailProperties DEF ShowFrame
  <2>3. frames' \in [Dashboards -> Seq(Nat)]
    BY <1>7, <2>2 DEF ShowFrame, MonitorTypeOK
  <2>4. rows' \in [Dashboards -> Seq(Nat)]
    <3> DEFINE shown == <<Head(frames[b])>> \o rows[b]
               least == Least(MAX_ROWS, Len(shown))
    <3>1. shown \in Seq(Nat)
      <4>1. <<Head(frames[b])>> \in Seq(Nat)
        BY <2>2
      <4>2. QED BY <2>1, <4>1, ConcatProperties
    <3>2. Len(shown) \in Nat /\ \A i \in 1..Len(shown) : shown[i] \in Nat
      BY <3>1, ToSetElements, SMTT(30)
    <3> HIDE DEF shown
    <3>3. least \in Int /\ 1 \in Int /\ \A i \in 1..least : shown[i] \in Nat
      BY <3>2 DEF Least
    <3>4. SubSeq(shown, 1, least) \in Seq(Nat)
      BY <3>3, SubSeqProperties
    <3>5. QED BY <3>4, <1>7 DEF ShowFrame, MonitorTypeOK, shown
  <2>5. asks' \in [Dashboards -> Seq(Ask)]
    <3> DEFINE q == [i \in 1..Len(asks[b]) |->
                      [asks[b][i] EXCEPT !.intact = @ /\ Head(frames[b]) \in ToSet(asks[b][i].rows)]]
    <3>1. ASSUME NEW i \in 1..Len(asks[b])
          PROVE  [asks[b][i] EXCEPT !.intact = @ /\ Head(frames[b]) \in ToSet(asks[b][i].rows)]
                   \in Ask
      <4>1. (asks[b][i].intact /\ Head(frames[b]) \in ToSet(asks[b][i].rows)) \in BOOLEAN
        OBVIOUS
      <4>2. QED BY <4>1, <2>1, AskTypes
    <3>2. Len(asks[b]) \in Nat
      BY <2>1, AskTypes
    <3>3. q \in Seq(Ask)
      BY <3>1, <3>2
    <3> HIDE DEF q
    <3>4. asks' = [asks EXCEPT ![b] = q]
      BY <1>7 DEF ShowFrame, q
    <3>5. QED BY <3>3, <3>4 DEF MonitorTypeOK
  <2>6. QED BY <1>7, <2>3, <2>4, <2>5 DEF ShowFrame, MonitorTypeOK
<1>8. ASSUME NEW b \in Dashboards, TypeFilter(b) PROVE (MonitorTypeOK /\ position # 0)'
  <2>1. PICK f \in Filters :
          /\ filter' = [filter EXCEPT ![b] = f]
          /\ asks' = [asks EXCEPT ![b] = Append(@, NewAsk(f))]
    BY <1>8 DEF TypeFilter
  <2>2. asks[b] \in Seq(Ask)
    BY DEF MonitorTypeOK
  <2>3. Append(asks[b], NewAsk(f)) \in Seq(Ask)
    BY <2>2, AskTypes, AppendProperties
  <2>4. asks' \in [Dashboards -> Seq(Ask)] /\ filter' \in [Dashboards -> Filters \cup {All}]
    BY <2>1, <2>3 DEF MonitorTypeOK
  <2>5. crossed' \in [Dashboards -> BOOLEAN] /\ whole' \in [Dashboards -> BOOLEAN]
    BY <1>8 DEF TypeFilter, MonitorTypeOK
  <2>6. QED BY <1>8, <2>4, <2>5 DEF TypeFilter, MonitorTypeOK
<1>9. ASSUME NEW b \in Dashboards, NEW i \in DOMAIN asks[b], AnswerAsk(b, i)
      PROVE  (MonitorTypeOK /\ position # 0)'
  <2>1. asks[b] \in Seq(Ask) /\ i \in 1..Len(asks[b]) /\ asks[b][i] \in Ask
    <3>1. asks[b] \in Seq(Ask)
      BY DEF MonitorTypeOK
    <3>2. QED BY <3>1, AskTypes
  <2>2. Recent(DefaultLimit, asks[b][i].filter.exact) \in Seq(Nat)
    BY RecentIsLatest
  <2> DEFINE a == [asks[b][i] EXCEPT !.answered = TRUE,
                     !.rows = Recent(DefaultLimit, asks[b][i].filter.exact),
                     !.intact = (link[b] = "open")]
  <2>3. a \in Ask
    BY <2>1, <2>2 DEF Ask
  <2>4. asks' = [asks EXCEPT ![b] = [asks[b] EXCEPT ![i] = a]]
    BY <1>9 DEF AnswerAsk, MonitorTypeOK
  <2> HIDE DEF a
  <2>5. [asks[b] EXCEPT ![i] = a] \in Seq(Ask)
    BY <2>1, <2>3, ExceptSeq
  <2>6. asks' \in [Dashboards -> Seq(Ask)]
    BY <2>4, <2>5 DEF MonitorTypeOK
  <2>7. QED BY <1>9, <2>6 DEF AnswerAsk, MonitorTypeOK
<1>10. ASSUME NEW b \in Dashboards, NEW i \in DOMAIN asks[b], Apply(b, i) \/ AskFails(b, i)
       PROVE  (MonitorTypeOK /\ position # 0)'
  <2>1. asks[b] \in Seq(Ask) /\ i \in 1..Len(asks[b]) /\ asks[b][i] \in Ask
    <3>1. asks[b] \in Seq(Ask)
      BY DEF MonitorTypeOK
    <3>2. QED BY <3>1, AskTypes
  <2>2. RemoveAt(asks[b], i) \in Seq(Ask)
    BY <2>1, RemoveAtProperties
  <2>3. asks' \in [Dashboards -> Seq(Ask)]
    BY <2>2, <1>10 DEF Apply, AskFails, MonitorTypeOK
  <2>4. asks[b][i].rows \in Seq(Nat) /\ asks[b][i].intact \in BOOLEAN
    BY <2>1 DEF Ask
  <2>5. QED BY <1>10, <2>3, <2>4 DEF Apply, AskFails, MonitorTypeOK
<1>11. CASE Signal \/ Closed
  BY <1>11 DEF Signal, Closed, MonitorTypeOK
<1>12. CASE StreamStopped \/ TimeLimit
  <2>1. Exit
    BY <1>12 DEF StreamStopped, TimeLimit
  <2>2. ASSUME NEW b \in Dashboards
        PROVE [i \in 1..Len(asks[b]) |-> [asks[b][i] EXCEPT !.intact = FALSE]] \in Seq(Ask)
    <3>1. asks[b] \in Seq(Ask)
      BY DEF MonitorTypeOK
    <3>2. /\ Len(asks[b]) \in Nat
          /\ \A i \in 1..Len(asks[b]) : [asks[b][i] EXCEPT !.intact = FALSE] \in Ask
      BY <3>1, AskTypes
    <3>3. QED BY <3>2
  <2>3. asks' \in [Dashboards -> Seq(Ask)]
    BY <2>1, <2>2 DEF Exit
  <2>4. frames' \in [Dashboards -> Seq(Nat)]
    BY <2>1, EmptySeq DEF Exit
  <2>5. QED BY <2>1, <2>3, <2>4 DEF Exit, MonitorTypeOK
<1>13. CASE Start
  <2>1. Len(handled) \in Nat /\ topic + 1 \in Nat /\ topic + 1 # 0
    BY LenProperties DEF MonitorTypeOK
  <2>2. QED BY <1>13, <2>1, EmptySeq DEF Start, MonitorTypeOK, Disrupted, NoOffset
<1>14. CASE UNCHANGED vars
  BY <1>14 DEF MonitorTypeOK
<1>15. QED
  BY <1>1, <1>2, <1>3, <1>4, <1>5, <1>6, <1>7, <1>8, <1>9, <1>10, <1>11, <1>12, <1>13, <1>14
  DEF Next

-----------------------------------------------------------------------------
(* The feed remains the window it is, and results only come after results. *)

LEMMA RecordKeepsWindow ==
  ASSUME FeedInv, NEW x \in Results,
         handled' = Append(handled, x), buffer' = Record(Len(handled) + 1), started' = started
  PROVE  FeedInv'
<1> USE MonitorAssumption
<1>1. FeedFact /\ handled \in Seq(Results) /\ started \in Nat /\ started <= Len(handled)
  BY FeedFacts DEF FeedInv
<1> DEFINE n == Len(handled)
           pushed == Append(buffer, n + 1)
<1>2. handled' \in Seq(Results) /\ Len(handled') = n + 1 /\ n \in Nat
  BY <1>1, AppendProperties, LenProperties
<1>3. n \in Nat /\ n + 1 \in Nat /\ buffer \in Seq(Nat) /\ Len(buffer) = n - Oldest
      /\ Oldest \in Nat /\ Oldest <= n
  BY <1>1, <1>2 DEF FeedFact
<1>4. /\ pushed \in Seq(Nat) /\ pushed # <<>> /\ Len(pushed) = n - Oldest + 1
      /\ \A i \in 1..(n - Oldest + 1) : pushed[i] = Oldest + i
  <2>1. /\ pushed \in Seq(Nat) /\ pushed # <<>> /\ Len(pushed) = Len(buffer) + 1
        /\ \A i \in 1..Len(buffer) : pushed[i] = buffer[i]
        /\ pushed[Len(buffer) + 1] = n + 1
    BY <1>3, AppendProperties, SMTT(30)
  <2> HIDE DEF pushed
  <2>2. \A i \in 1..(n - Oldest) : buffer[i] = Oldest + i
    BY <1>1 DEF FeedFact
  <2>3. Oldest + (n - Oldest + 1) = n + 1
    BY <1>3
  <2> HIDE DEF n
  <2>4. \A i \in 1..(n - Oldest + 1) : i \in 1..(n - Oldest) \/ i = n - Oldest + 1
    BY <1>3
  <2>5. QED BY <1>3, <2>1, <2>2, <2>3, <2>4
<1>5. buffer' = IF n - Oldest + 1 > Capacity THEN Tail(pushed) ELSE pushed
  BY <1>4 DEF Record
<1> DEFINE oldest == IF (n + 1) - Capacity > started THEN (n + 1) - Capacity ELSE started
<1>9. /\ Oldest = IF n - Capacity > started THEN n - Capacity ELSE started
      /\ started \in Nat /\ started <= n /\ Capacity \in Nat \ {0}
  BY <1>1 DEF Oldest
<1> HIDE DEF pushed, n
<1>6. buffer' = [i \in 1..((n + 1) - oldest) |-> oldest + i]
  <2>1. CASE n - Oldest + 1 > Capacity
    <3>1. oldest = Oldest + 1
      BY <1>3, <1>9, <2>1
    <3>2. /\ Tail(pushed) \in Seq(Nat) /\ Len(Tail(pushed)) = n - Oldest
          /\ \A i \in 1..(n - Oldest) : Tail(pushed)[i] = pushed[i + 1]
      BY <1>3, <1>4, HeadTailProperties
    <3>3. \A i \in 1..(n - Oldest) : Tail(pushed)[i] = (Oldest + 1) + i
      <4>1. \A i \in 1..(n - Oldest) :
              i + 1 \in 1..(n - Oldest + 1) /\ Oldest + (i + 1) = (Oldest + 1) + i
        BY <1>3
      <4>2. QED BY <1>4, <3>2, <4>1
    <3>4. DOMAIN Tail(pushed) = 1..(n - Oldest)
      BY <3>2, LenProperties
    <3>5. Tail(pushed) = [i \in 1..(n - Oldest) |-> (Oldest + 1) + i]
      <4>1. Tail(pushed) = [i \in 1..(n - Oldest) |-> Tail(pushed)[i]]
        BY <3>2, <3>4, LenProperties
      <4>2. QED BY <3>3, <4>1
    <3>6. (n + 1) - (Oldest + 1) = n - Oldest
      BY <1>3
    <3>7. QED BY <1>5, <2>1, <3>1, <3>5, <3>6
  <2>2. CASE ~(n - Oldest + 1 > Capacity)
    <3>1. oldest = Oldest
      BY <1>3, <1>9, <2>2
    <3>2. pushed = [i \in 1..(n - Oldest + 1) |-> Oldest + i]
      BY <1>4
    <3>3. (n + 1) - Oldest = n - Oldest + 1
      BY <1>3
    <3>4. QED BY <1>5, <2>2, <3>1, <3>2, <3>3
  <2>3. QED BY <2>1, <2>2
<1>7. FeedIsWindow'
  BY <1>2, <1>6 DEF FeedIsWindow
<1>8. QED BY <1>1, <1>2, <1>7 DEF FeedInv, n

LEMMA FeedStep ==
  ASSUME MonitorTypeOK, position # 0, FeedInv, [Next]_vars
  PROVE  FeedInv'
<1> USE DEF vars, consumer, feed, page
<1>1. CASE Consume
  <2>1. CASE position \in Unreadable
    BY <1>1, <2>1 DEF Consume, FeedInv, FeedIsWindow
  <2>2. CASE position \notin Unreadable
    <3>1. position \in Results
      BY <1>1, MonitorAssumption DEF Consume, MonitorTypeOK, Results
    <3>2. handled' = Append(handled, position) /\ buffer' = Record(Len(handled) + 1)
          /\ started' = started
      BY <1>1, <2>2 DEF Consume
    <3>3. QED BY <3>1, <3>2, RecordKeepsWindow
  <2>3. QED BY <2>1, <2>2
<1>2. CASE Start
  <2>1. buffer' = <<>> /\ started' = Len(handled) /\ handled' = handled
    BY <1>2 DEF Start
  <2>2. Len(handled) \in Nat /\ handled \in Seq(Results)
    BY LenProperties DEF FeedInv
  <2>3. ~(Len(handled) - Capacity > Len(handled)) /\ 1..(Len(handled) - Len(handled)) = {}
    BY <2>2, MonitorAssumption
  <2>4. <<>> = [i \in 1..(Len(handled) - Len(handled)) |-> Len(handled) + i]
    BY <2>3
  <2>5. FeedIsWindow'
    BY <2>1, <2>3, <2>4 DEF FeedIsWindow
  <2>6. QED BY <2>1, <2>2, <2>5 DEF FeedInv
<1>3. CASE UNCHANGED <<handled, started, buffer>>
  BY <1>3 DEF FeedInv, FeedIsWindow
<1>4. CASE Publish \/ Commit \/ Rejoin
  BY <1>3, <1>4 DEF Publish, Commit, Rejoin
<1>5. CASE Signal \/ Closed \/ StreamStopped \/ TimeLimit
  BY <1>3, <1>5 DEF Signal, Closed, StreamStopped, TimeLimit, Exit
<1>6. ASSUME NEW b \in Dashboards,
             Connect(b) \/ Drop(b) \/ ShowFrame(b) \/ TypeFilter(b)
      PROVE  FeedInv'
  BY <1>3, <1>6 DEF Connect, Drop, ShowFrame, TypeFilter
<1>7. ASSUME NEW b \in Dashboards, NEW i \in DOMAIN asks[b],
             AnswerAsk(b, i) \/ Apply(b, i) \/ AskFails(b, i)
      PROVE  FeedInv'
  BY <1>3, <1>7 DEF AnswerAsk, Apply, AskFails
<1>8. CASE UNCHANGED vars
  BY <1>3, <1>8
<1>9. QED BY <1>1, <1>2, <1>4, <1>5, <1>6, <1>7, <1>8 DEF Next

\* Results handled later leave the clients of those before as they are, and of the latest
\* of a client only fewer remain.
LEMMA ResultsGrow ==
  ASSUME FeedInv, FeedInv', NEW x \in Results, handled' = Append(handled, x), started' = started,
         NEW clients
  PROVE  LET n == Len(handled)
         IN  /\ Len(handled') = n + 1
             /\ \A row \in DOMAIN handled :
                  /\ row \in DOMAIN handled' /\ ClientOf(row)' = ClientOf(row)
                  /\ row \in RowsOf(clients)' <=> row \in RowsOf(clients)
             /\ \A row \in Nat : row <= n => Later(row, clients) \subseteq Later(row, clients)'
             /\ Latest(clients)' \subseteq Latest(clients) \cup {n + 1}
<1> DEFINE n == Len(handled)
<1> USE MonitorAssumption
<1>1. FeedFact /\ FeedFact' /\ handled \in Seq(Results)
  BY FeedFacts, FeedFactsNext DEF FeedInv
<1>2. /\ Len(handled') = n + 1 /\ n \in Nat
      /\ \A i \in 1..n : handled'[i] = handled[i]
  BY <1>1, AppendProperties, LenProperties
<1>3. DOMAIN handled = 1..n /\ DOMAIN handled' = 1..(n + 1)
  BY <1>1, <1>2 DEF FeedFact
<1>4. ASSUME NEW row \in DOMAIN handled
      PROVE  /\ row \in DOMAIN handled' /\ ClientOf(row)' = ClientOf(row)
             /\ row \in RowsOf(clients)' <=> row \in RowsOf(clients)
  BY <1>2, <1>3 DEF ClientOf, RowsOf
<1>5. ASSUME NEW row \in Nat PROVE Later(row, clients) \subseteq Later(row, clients)'
  BY <1>4 DEF Later, RowsOf
<1>6. ASSUME NEW row \in Latest(clients)', row # n + 1
      PROVE  row \in Latest(clients)
  <2>1. row \in ToSet(buffer)' /\ row \in RowsOf(clients)' /\ row \in 1..n
    BY <1>3, <1>6 DEF Latest, RowsOf
  <2>2. row \in RowsOf(clients)
    BY <1>3, <1>4, <2>1
  <2>3. Oldest <= Oldest'
    BY <1>1, <1>2 DEF Oldest, FeedInv
  <2>4. row \in ToSet(buffer)
    <3>1. ToSet(buffer) = (Oldest + 1)..n /\ Oldest \in Nat
      BY <1>1 DEF FeedFact
    <3>2. ToSet(buffer)' = (Oldest' + 1)..(n + 1) /\ Oldest' \in Nat
      BY <1>1, <1>2 DEF FeedFact
    <3>3. QED BY <1>2, <2>1, <2>3, <3>1, <3>2
  <2>5. IsFiniteSet(Later(row, clients)')
    <3>1. IsFiniteSet(1..(n + 1)) /\ Later(row, clients)' \subseteq 1..(n + 1)
      BY <1>2, <1>3, FS_Interval DEF Later, RowsOf
    <3>2. QED BY <3>1, FS_Subset
  <2>6. Later(row, clients) \subseteq Later(row, clients)'
    BY <1>5, <2>1
  <2>7. /\ Cardinality(Later(row, clients)) <= Cardinality(Later(row, clients)')
        /\ Cardinality(Later(row, clients)) \in Nat /\ Cardinality(Later(row, clients)') \in Nat
    BY <2>5, <2>6, FS_Subset, FS_CardinalityType
  <2>8. Cardinality(Later(row, clients)') < DefaultLimit
    BY <1>6 DEF Latest
  <2>9. QED BY <2>2, <2>4, <2>7, <2>8 DEF Latest
<1>7. QED BY <1>2, <1>4, <1>5, <1>6

-----------------------------------------------------------------------------
(* A dashboard, step by step.                                              *)

Asks(b) == \A i \in DOMAIN asks[b] : AskInv(b, asks[b][i])

StopInv(b) == server \in {"stopping", "down"} => link[b] # "open"

LEMMA DashboardParts ==
  ASSUME NEW b
  PROVE  DashboardInv(b) <=>
           StreamInv(b) /\ PageInv(b) /\ MatchInv(b) /\ Asks(b) /\ StopInv(b)
BY DEF DashboardInv, Asks, StopInv

LEMMA DashboardPartsNext ==
  ASSUME NEW b
  PROVE  DashboardInv(b)' <=>
           StreamInv(b)' /\ PageInv(b)' /\ MatchInv(b)' /\ Asks(b)' /\ StopInv(b)'
BY DEF DashboardInv, Asks, StopInv

LEMMA SameFeed ==
  ASSUME handled' = handled, buffer' = buffer
  PROVE  /\ \A clients : RowsOf(clients)' = RowsOf(clients) /\ Latest(clients)' = Latest(clients)
         /\ \A row, clients : Later(row, clients)' = Later(row, clients)
BY DEF RowsOf, ClientOf, Latest, Later

\* What happens elsewhere does not matter.
LEMMA Undisturbed ==
  ASSUME NEW b, DashboardInv(b), handled' = handled, buffer' = buffer,
         link'[b] = link[b], frames'[b] = frames[b], rows'[b] = rows[b], filter'[b] = filter[b],
         asks'[b] = asks[b], whole'[b] = whole[b], crossed'[b] = crossed[b], StopInv(b)'
  PROVE  DashboardInv(b)'
<1>1. StreamInv(b) /\ PageInv(b) /\ MatchInv(b) /\ Asks(b)
  BY DashboardParts
<1>2. StreamInv(b)' /\ Shown(b)' = Shown(b)
  BY <1>1 DEF StreamInv, Shown
<1>3. \A row : Placed(b, row)' <=> Placed(b, row)
  BY <1>2, SameFeed DEF Placed, Pushing
<1>4. PageInv(b)'
  BY <1>1, <1>2, <1>3, SameFeed DEF PageInv
<1>5. MatchInv(b)'
  BY <1>1, SameFeed DEF MatchInv
<1>6. \A a : AskInv(b, a)' <=> AskInv(b, a)
  BY <1>2, SameFeed DEF AskInv, Covers
<1>7. Asks(b)'
  BY <1>1, <1>6 DEF Asks
<1>8. QED BY <1>2, <1>4, <1>5, <1>7, DashboardPartsNext

LEMMA ConsumeKeeps ==
  ASSUME MonitorTypeOK, position # 0, FeedInv, FeedInv', NEW b \in Dashboards, DashboardInv(b),
         Consume
  PROVE  DashboardInv(b)'
<1> DEFINE n == Len(handled)
<1>1. StreamInv(b) /\ PageInv(b) /\ MatchInv(b) /\ Asks(b) /\ StopInv(b)
  BY DashboardParts
<1>2. CASE position \in Unreadable
  <2>1. UNCHANGED <<handled, buffer, frames, server, link, page>>
    BY <1>2 DEF Consume
  <2>2. StopInv(b)'
    BY <1>1, <2>1 DEF StopInv
  <2>3. QED BY <2>1, <2>2, Undisturbed DEF page
<1>3. CASE position \notin Unreadable
  <2>1. /\ position \in Results /\ handled' = Append(handled, position) /\ started' = started
        /\ frames'[b] = IF link[b] = "open" THEN Append(frames[b], n + 1) ELSE frames[b]
        /\ UNCHANGED <<server, link, page>>
    BY <1>3, MonitorAssumption DEF Consume, MonitorTypeOK, Results, feed
  <2>2. \A clients :
          /\ Len(handled') = n + 1
          /\ \A row \in DOMAIN handled :
               /\ row \in DOMAIN handled' /\ ClientOf(row)' = ClientOf(row)
               /\ row \in RowsOf(clients)' <=> row \in RowsOf(clients)
          /\ Latest(clients)' \subseteq Latest(clients) \cup {n + 1}
    BY <2>1, ResultsGrow
  <2>3. /\ n \in Nat /\ DOMAIN handled = 1..n /\ frames[b] \in Seq(Nat) /\ Len(frames[b]) \in Nat
        /\ Len(frames[b]) <= n /\ DOMAIN handled' = 1..(n + 1)
    BY <1>1, <2>1, LenProperties, AppendProperties DEF MonitorTypeOK, StreamInv, FeedInv
  <2>4. CASE link[b] = "open"
    <3>1. /\ Len(frames'[b]) = Len(frames[b]) + 1
          /\ \A i \in 1..Len(frames[b]) : frames'[b][i] = frames[b][i]
          /\ frames'[b][Len(frames[b]) + 1] = n + 1
      <4>1. n + 1 \in Nat
        BY <2>3
      <4>2. QED BY <2>1, <2>3, <2>4, <4>1, AppendProperties
    <3>2. /\ Shown(b)' = Shown(b) /\ Shown(b) \in Nat /\ Shown(b) <= n
          /\ Shown(b) = n - Len(frames[b])
      BY <2>2, <2>3, <3>1 DEF Shown
    <3>3. StreamInv(b)'
      <4>1. ASSUME NEW i \in 1..Len(frames'[b]) PROVE frames'[b][i] = Shown(b) + i
        <5>1. CASE i = Len(frames[b]) + 1
          BY <2>3, <3>1, <3>2, <5>1
        <5>2. CASE i # Len(frames[b]) + 1
          <6>1. i \in 1..Len(frames[b])
            BY <2>3, <3>1, <5>2
          <6>2. QED BY <1>1, <3>1, <6>1 DEF StreamInv
        <5>3. QED BY <5>1, <5>2
      <4>2. Len(frames'[b]) <= Len(handled')
        BY <2>2, <2>3, <3>1
      <4>3. QED BY <2>1, <2>4, <3>2, <4>1, <4>2 DEF StreamInv
    <3>4. ASSUME NEW clients, NEW row \in Latest(clients)', row <= Shown(b)
          PROVE  row \in Latest(clients)
      <4>1. row # n + 1
        BY <2>3, <3>2, <3>4
      <4>2. QED BY <2>2, <4>1
    <3>5. Asks(b)'
      <4>1. ASSUME NEW a, AskInv(b, a) PROVE AskInv(b, a)'
        <5>1. \A j \in DOMAIN a.rows :
                a.rows[j] \in RowsOf(a.filter.exact) => a.rows[j] \in RowsOf(a.filter.exact)'
          <6> SUFFICES ASSUME NEW j \in DOMAIN a.rows, a.rows[j] \in RowsOf(a.filter.exact)
                       PROVE  a.rows[j] \in RowsOf(a.filter.exact)'
            OBVIOUS
          <6>1. a.rows[j] \in DOMAIN handled
            BY DEF RowsOf
          <6>2. QED BY <2>2, <6>1
        <5>2. Covers(b, a.filter.exact, ToSet(a.rows)) => Covers(b, a.filter.exact, ToSet(a.rows))'
          BY <3>2, <3>4 DEF Covers
        <5>3. QED BY <2>1, <4>1, <5>1, <5>2 DEF AskInv
      <4>2. QED BY <1>1, <2>1, <4>1 DEF Asks, page
    <3>6. PageInv(b)'
      <4>1. rows'[b] = rows[b] /\ filter'[b] = filter[b] /\ whole'[b] = whole[b]
        BY <2>1 DEF page
      <4>2. ASSUME NEW row \in Nat PROVE Pushing(b, row)' = Pushing(b, row)
        BY <2>2, <2>3, <3>2, <4>1 DEF Pushing, Later, RowsOf
      <4>3. ASSUME NEW row \in Latest(filter[b].exact), Placed(b, row) PROVE Placed(b, row)'
        <5>1. row \in Nat
          BY <2>3 DEF Latest, RowsOf
        <5>2. Pushing(b, row)' = Pushing(b, row)
          BY <5>1, <4>2
        <5>3. QED BY <4>1, <4>3, <5>2 DEF Placed
      <4>4. \A p \in DOMAIN rows[b] : rows[b][p] \in DOMAIN handled'
        BY <1>1, <2>2 DEF PageInv
      <4>5. QED BY <1>1, <2>1, <3>2, <3>4, <4>1, <4>3, <4>4 DEF PageInv
    <3>7. MatchInv(b)'
      <4>1. rows'[b] = rows[b] /\ filter'[b] = filter[b] /\ crossed'[b] = crossed[b]
            /\ asks'[b] = asks[b]
        BY <2>1 DEF page
      <4>2. QED BY <1>1, <2>2, <4>1 DEF MatchInv, RowsOf
    <3>8. StopInv(b)'
      BY <1>1, <2>1 DEF StopInv
    <3>9. QED BY <3>3, <3>5, <3>6, <3>7, <3>8, DashboardPartsNext
  <2>5. CASE link[b] # "open"
    <3>1. frames[b] = <<>> /\ frames'[b] = <<>> /\ link'[b] = link[b]
      BY <1>1, <2>1, <2>5 DEF StreamInv
    <3>2. StreamInv(b)'
      BY <2>2, <2>3, <2>5, <3>1 DEF StreamInv
    <3>3. ~whole[b] /\ \A i \in DOMAIN asks[b] : ~asks[b][i].intact
      BY <1>1, <2>5 DEF PageInv, Asks, AskInv
    <3>4. rows'[b] = rows[b] /\ filter'[b] = filter[b] /\ crossed'[b] = crossed[b]
          /\ asks'[b] = asks[b] /\ whole'[b] = whole[b]
      BY <2>1 DEF page
    <3>5. PageInv(b)'
      BY <1>1, <2>2, <3>3, <3>4 DEF PageInv
    <3>6. MatchInv(b)'
      BY <1>1, <2>2, <3>4 DEF MatchInv, RowsOf
    <3>7. Asks(b)'
      <4>1. ASSUME NEW a, AskInv(b, a), ~a.intact PROVE AskInv(b, a)'
        <5>1. ASSUME NEW j \in DOMAIN a.rows, a.rows[j] \in RowsOf(a.filter.exact)
              PROVE  a.rows[j] \in RowsOf(a.filter.exact)'
          <6>1. a.rows[j] \in DOMAIN handled
            BY <5>1 DEF RowsOf
          <6>2. QED BY <2>2, <5>1, <6>1
        <5>2. QED BY <4>1, <5>1 DEF AskInv
      <4>2. QED BY <1>1, <3>3, <3>4, <4>1 DEF Asks
    <3>8. StopInv(b)'
      BY <1>1, <2>1 DEF StopInv
    <3>9. QED BY <3>2, <3>5, <3>6, <3>7, <3>8, DashboardPartsNext
  <2>6. QED BY <2>4, <2>5
<1>4. QED BY <1>2, <1>3

LEMMA ShowFrameKeeps ==
  ASSUME MonitorTypeOK, FeedInv, NEW b \in Dashboards, DashboardInv(b), ShowFrame(b)
  PROVE  DashboardInv(b)'
<1> DEFINE n == Len(handled)
           row == Head(frames[b])
           within == filter[b].within
           shown == <<row>> \o rows[b]
           k == Least(MAX_ROWS, Len(shown))
<1>1. StreamInv(b) /\ PageInv(b) /\ MatchInv(b) /\ Asks(b) /\ StopInv(b)
  BY DashboardParts
<1>2. /\ frames[b] # <<>> /\ frames'[b] = Tail(frames[b])
      /\ rows'[b] = IF ClientOf(row) \in within THEN SubSeq(shown, 1, k) ELSE rows[b]
      /\ asks'[b] = [i \in 1..Len(asks[b]) |->
           [asks[b][i] EXCEPT !.intact = @ /\ row \in ToSet(asks[b][i].rows)]]
      /\ UNCHANGED <<handled, buffer, server, link, filter, whole, crossed>>
  BY DEF ShowFrame, MonitorTypeOK, feed
<1>3. /\ n \in Nat /\ DOMAIN handled = 1..n
      /\ frames[b] \in Seq(Nat) /\ Len(frames[b]) \in Nat \ {0}
      /\ Len(frames'[b]) = Len(frames[b]) - 1
      /\ \A i \in 1..Len(frames'[b]) : frames'[b][i] = frames[b][i + 1]
      /\ row = frames[b][1]
  <2>1. frames[b] \in Seq(Nat)
    BY DEF MonitorTypeOK
  <2>2. QED BY <1>2, <2>1, EmptySeq, HeadTailProperties, LenProperties DEF FeedInv
<1>12. n = Len(handled) /\ n = Len(handled') /\ within = filter[b].within
  BY <1>2
<1> HIDE DEF n, row, within
<1>4. /\ link[b] = "open" /\ Len(frames[b]) <= n /\ Shown(b) = n - Len(frames[b])
      /\ row = Shown(b) + 1 /\ row \in 1..n /\ Shown(b)' = Shown(b) + 1 /\ Shown(b) \in Nat
  <2>0. 1 \in 1..Len(frames[b])
    BY <1>3
  <2>1. Len(frames[b]) <= n /\ frames[b][1] = Shown(b) + 1 /\ link[b] = "open"
    BY <1>1, <1>2, <1>12, <2>0 DEF StreamInv
  <2>2. Shown(b) = n - Len(frames[b]) /\ Shown(b)' = n - Len(frames'[b])
    BY <1>12 DEF Shown
  <2>3. QED BY <1>3, <2>1, <2>2
<1>5. StreamInv(b)'
  <2>1. ASSUME NEW i \in 1..Len(frames'[b]) PROVE frames'[b][i] = Shown(b)' + i
    <3>1. i + 1 \in 1..Len(frames[b])
      BY <1>3
    <3>2. frames[b][i + 1] = Shown(b) + (i + 1)
      BY <1>1, <3>1 DEF StreamInv
    <3>3. Shown(b) + (i + 1) = (Shown(b) + 1) + i
      BY <1>4
    <3>4. QED BY <1>3, <1>4, <3>2, <3>3
  <2>2. Len(frames'[b]) <= Len(handled')
    BY <1>2, <1>3, <1>4
  <2>3. QED BY <1>2, <1>4, <2>1, <2>2 DEF StreamInv
<1>6. /\ rows[b] \in Seq(Nat) /\ asks[b] \in Seq(Ask) /\ filter[b].exact \subseteq within
  <2>1. filter[b] \in Filters \cup {All}
    BY DEF MonitorTypeOK
  <2>2. \A f \in Filters \cup {All} : f.exact \subseteq f.within
    BY MonitorAssumption DEF All
  <2>3. QED BY <1>12, <2>1, <2>2 DEF MonitorTypeOK
<1>7. Asks(b)'
  <2>1. Len(asks[b]) \in Nat /\ DOMAIN asks[b] = 1..Len(asks[b]) /\ DOMAIN asks'[b] = 1..Len(asks[b])
    BY <1>2, <1>6, AskTypes
  <2>2. ASSUME NEW a \in Ask, AskInv(b, a),
               NEW c, c = [a EXCEPT !.intact = @ /\ row \in ToSet(a.rows)]
        PROVE  AskInv(b, c)'
    <3>1. c.answered = a.answered /\ c.rows = a.rows /\ c.filter = a.filter
          /\ (c.intact <=> a.intact /\ row \in ToSet(a.rows))
      BY <2>2 DEF Ask
    <3>2. Covers(b, a.filter.exact, ToSet(a.rows)) /\ row \in ToSet(a.rows)
            => Covers(b, a.filter.exact, ToSet(a.rows))'
      <4> SUFFICES ASSUME Covers(b, a.filter.exact, ToSet(a.rows)), row \in ToSet(a.rows),
                          NEW r \in Latest(a.filter.exact), r <= Shown(b)'
                   PROVE  r \in ToSet(a.rows)
        BY <1>2, SameFeed DEF Covers
      <4>1. r \in Nat
        BY <1>3 DEF Latest, RowsOf
      <4>2. r = row \/ r <= Shown(b)
        BY <1>4, <4>1
      <4>3. QED BY <4>2 DEF Covers
    <3>3. QED BY <1>2, <2>2, <3>1, <3>2, SameFeed DEF AskInv
  <2>3. ASSUME NEW i \in 1..Len(asks[b]), NEW c, c = asks'[b][i] PROVE AskInv(b, c)'
    <3>1. asks[b][i] \in Ask /\ AskInv(b, asks[b][i])
      BY <1>1, <1>6, <2>1, AskTypes DEF Asks
    <3>2. c = [asks[b][i] EXCEPT !.intact = @ /\ row \in ToSet(asks[b][i].rows)]
      BY <1>2, <2>3
    <3>3. QED BY <2>2, <3>1, <3>2
  <2>4. QED BY <2>1, <2>3 DEF Asks
<1>8. ASSUME NEW r \in Nat
      PROVE  /\ Cardinality(Pushing(b, r)) \in Nat
             /\ r <= Shown(b) /\ ClientOf(row) \in within
                  => Cardinality(Pushing(b, r)') = Cardinality(Pushing(b, r)) + 1
             /\ r <= Shown(b) /\ ClientOf(row) \notin within => Pushing(b, r)' = Pushing(b, r)
             /\ Cardinality(Pushing(b, r)') \in Nat
  <2>0. IsFiniteSet(1..n)
    BY <1>3, FS_Interval
  <2>1. IsFiniteSet(1..n) /\ Pushing(b, r) \subseteq 1..n /\ Pushing(b, r)' \subseteq 1..n
    BY <1>2, <1>3, <2>0 DEF Pushing, Later, RowsOf
  <2>2. IsFiniteSet(Pushing(b, r)) /\ IsFiniteSet(Pushing(b, r)')
    BY <2>1, FS_Subset
  <2>3. row \notin Pushing(b, r)
    BY <1>4 DEF Pushing
  <2>4. filter'[b].within = within
    BY <1>2, <1>12
  <2>5. Pushing(b, r)' = {s \in Later(r, within) : s <= Shown(b) + 1}
    BY <1>2, <1>4, <2>4, SameFeed DEF Pushing
  <2>6. Pushing(b, r) = {s \in Later(r, within) : s <= Shown(b)}
    BY DEF Pushing, within
  <2>7. \A s \in Later(r, within) : s \in Nat /\ (s <= Shown(b) + 1 <=> s <= Shown(b) \/ s = row)
    <3> SUFFICES ASSUME NEW s \in Later(r, within)
                 PROVE  s \in Nat /\ (s <= Shown(b) + 1 <=> s <= Shown(b) \/ s = row)
      OBVIOUS
    <3>1. s \in 1..n
      BY <1>3 DEF Later, RowsOf
    <3>2. s \in Nat /\ Shown(b) \in Nat /\ row = Shown(b) + 1
      BY <1>3, <1>4, <3>1
    <3>3. QED BY <3>2
  <2>8. ASSUME r <= Shown(b), ClientOf(row) \in within
        PROVE  Cardinality(Pushing(b, r)') = Cardinality(Pushing(b, r)) + 1
    <3>1. row \in Later(r, within)
      <4>1. row > r
        BY <1>4, <2>8
      <4>2. QED BY <1>3, <1>4, <2>8, <4>1 DEF Later, RowsOf
    <3>2. Pushing(b, r)' = Pushing(b, r) \cup {row}
      BY <1>4, <2>5, <2>6, <2>7, <3>1
    <3>3. QED BY <2>2, <2>3, <3>2, FS_AddElement
  <2>9. ASSUME r <= Shown(b), ClientOf(row) \notin within
        PROVE  Pushing(b, r)' = Pushing(b, r)
    <3>1. row \notin Later(r, within)
      BY <2>9 DEF Later, RowsOf
    <3>2. QED BY <2>5, <2>6, <2>7, <3>1
  <2>10. QED BY <2>2, <2>8, <2>9, FS_CardinalityType
<1>9. CASE ClientOf(row) \notin within
  <2>1. rows'[b] = rows[b]
    BY <1>2, <1>9
  <2>2. PageInv(b)'
    <3>1. ASSUME whole[b], NEW r \in Latest(filter[b].exact), r <= Shown(b)'
          PROVE  Placed(b, r)'
      <4>1. r \in Nat /\ r # row
        BY <1>3, <1>6, <1>9 DEF Latest, RowsOf
      <4>2. r <= Shown(b)
        BY <1>4, <3>1, <4>1
      <4>3. Placed(b, r) /\ Pushing(b, r)' = Pushing(b, r)
        BY <1>1, <1>8, <1>9, <3>1, <4>1, <4>2 DEF PageInv
      <4>4. QED BY <2>1, <4>3 DEF Placed
    <3>2. QED BY <1>1, <1>2, <1>4, <2>1, <3>1, SameFeed DEF PageInv
  <2>3. asks'[b] = <<>> => asks[b] = <<>>
    BY <1>2, <1>6, AskTypes
  <2>4. MatchInv(b)'
    <3>1. \A i \in DOMAIN asks'[b] : i \in DOMAIN asks[b] /\ asks'[b][i].filter = asks[b][i].filter
      BY <1>2, <1>6, AskTypes DEF Ask
    <3>2. Len(asks'[b]) = Len(asks[b])
      BY <1>2, <1>6, AskTypes
    <3>3. QED BY <1>1, <1>2, <2>1, <2>3, <3>1, <3>2, SameFeed DEF MatchInv
  <2>5. QED BY <1>1, <1>2, <1>5, <1>7, <2>2, <2>4, DashboardPartsNext DEF StopInv
<1>10. CASE ClientOf(row) \in within
  <2>1. /\ Len(rows[b]) \in Nat /\ DOMAIN rows[b] = 1..Len(rows[b])
        /\ \A p \in 1..Len(rows[b]) : rows[b][p] \in Nat
    BY <1>6, ToSetElements, ElementOfSeq
  <2>2. /\ shown \in Seq(Nat) /\ Len(shown) = Len(rows[b]) + 1 /\ shown[1] = row
        /\ \A p \in 1..Len(rows[b]) : shown[p + 1] = rows[b][p]
    <3>1. <<row>> \in Seq(Nat) /\ Len(<<row>>) = 1 /\ <<row>>[1] = row
      BY <1>3, <1>4
    <3>2. /\ shown \in Seq(Nat) /\ Len(shown) = 1 + Len(rows[b])
          /\ \A p \in 1..(1 + Len(rows[b])) :
               shown[p] = IF p <= 1 THEN <<row>>[p] ELSE rows[b][p - 1]
      BY <1>6, <3>1, ConcatProperties
    <3> HIDE DEF shown
    <3>3. \A p \in 1..Len(rows[b]) : p + 1 \in 1..(1 + Len(rows[b])) /\ ~(p + 1 <= 1)
                                     /\ (p + 1) - 1 = p
      BY <2>1
    <3>4. 1 \in 1..(1 + Len(rows[b]))
      BY <2>1
    <3>5. QED BY <2>1, <3>1, <3>2, <3>3, <3>4
  <2>3. /\ k \in Nat /\ 1 <= k /\ k <= Len(shown)
        /\ \A p \in Nat : p <= MAX_ROWS /\ p <= Len(rows[b]) + 1 => p <= k
    BY <2>1, <2>2, MonitorAssumption DEF Least
  <2> HIDE DEF shown, k
  <2>4. /\ rows'[b] \in Seq(Nat) /\ Len(rows'[b]) = k /\ DOMAIN rows'[b] = 1..k
        /\ \A p \in 1..k : rows'[b][p] = shown[p]
    <3>1. /\ 1 \in Int /\ k \in Int /\ \A p \in 1..k : shown[p] \in Nat
          /\ k - 1 + 1 = k /\ \A p \in 1..k : 1 + p - 1 = p
          /\ (IF 1 <= k THEN k - 1 + 1 ELSE 0) = k
      <4>1. \A p \in 1..Len(shown) : shown[p] \in Nat
        BY <2>2, ElementOfSeq
      <4>2. QED BY <2>2, <2>3, <4>1
    <3>2. /\ SubSeq(shown, 1, k) \in Seq(Nat)
          /\ Len(SubSeq(shown, 1, k)) = IF 1 <= k THEN k - 1 + 1 ELSE 0
          /\ \A p \in 1..(k - 1 + 1) : SubSeq(shown, 1, k)[p] = shown[1 + p - 1]
      BY <3>1, SubSeqProperties
    <3>3. rows'[b] = SubSeq(shown, 1, k)
      BY <1>2, <1>10 DEF shown, k
    <3>4. QED BY <3>1, <3>2, <3>3, LenProperties
  <2>5. ASSUME NEW p \in 1..k PROVE rows'[b][p] = row \/ \E q \in DOMAIN rows[b] : rows'[b][p] = rows[b][q]
    <3>1. CASE p = 1
      BY <2>2, <2>4, <3>1
    <3>2. CASE p # 1
      <4>1. p - 1 \in 1..Len(rows[b]) /\ (p - 1) + 1 = p
        <5>1. p \in Nat /\ 1 <= p /\ p <= Len(rows[b]) + 1
          BY <2>1, <2>2, <2>3
        <5>2. QED BY <2>1, <3>2, <5>1
      <4>2. shown[(p - 1) + 1] = rows[b][p - 1]
        BY <2>2, <4>1
      <4>3. QED BY <2>1, <2>4, <4>1, <4>2
    <3>3. QED BY <3>1, <3>2
  <2>6. ASSUME whole[b], NEW r \in Latest(filter[b].exact), r <= Shown(b)'
        PROVE  Placed(b, r)'
    <3>1. r \in Nat
      BY <1>3 DEF Latest, RowsOf
    <3>2. DefaultLimit \in Nat \ {0} /\ MAX_ROWS \in Nat
      BY MonitorAssumption
    <3>3. CASE r = row
      <4>0. 1 \in 1..k /\ shown[1] = r
        BY <2>2, <2>3, <3>3
      <4>1. 1 \in DOMAIN rows'[b] /\ rows'[b][1] = r
        BY <2>4, <4>0
      <4>2. 1 <= DefaultLimit + Cardinality(Pushing(b, r)')
        BY <1>8, <3>1, <3>2
      <4>3. QED BY <4>1, <4>2 DEF Placed
    <3>4. CASE r # row
      <4>1. r <= Shown(b)
        BY <1>4, <2>6, <3>1, <3>4
      <4>2. /\ Placed(b, r)
            /\ Cardinality(Pushing(b, r)') = Cardinality(Pushing(b, r)) + 1
            /\ Cardinality(Pushing(b, r)) \in Nat
        BY <1>1, <1>8, <1>10, <2>6, <3>1, <4>1 DEF PageInv
      <4>3. CASE Cardinality(Pushing(b, r)) > MAX_ROWS - DefaultLimit
        <5>1. Cardinality(Pushing(b, r)') > MAX_ROWS - DefaultLimit
          BY <3>2, <4>2, <4>3
        <5>2. QED BY <5>1 DEF Placed
      <4>4. ASSUME NEW p \in DOMAIN rows[b], rows[b][p] = r,
                   p <= DefaultLimit + Cardinality(Pushing(b, r))
            PROVE  Placed(b, r)'
        <5>1. p \in 1..Len(rows[b]) /\ shown[p + 1] = r
          BY <2>1, <2>2, <4>4
        <5>2. p + 1 <= DefaultLimit + Cardinality(Pushing(b, r)')
          BY <3>2, <4>2, <4>4, <5>1
        <5>3. CASE p + 1 <= MAX_ROWS
          <6>1. p + 1 \in 1..k
            BY <2>1, <2>3, <5>1, <5>3
          <6>2. p + 1 \in DOMAIN rows'[b] /\ rows'[b][p + 1] = r
            BY <2>4, <5>1, <6>1
          <6>3. QED BY <5>2, <6>2 DEF Placed
        <5>4. CASE ~(p + 1 <= MAX_ROWS)
          <6>1. Cardinality(Pushing(b, r)') > MAX_ROWS - DefaultLimit
            BY <3>2, <4>2, <5>1, <5>2, <5>4
          <6>2. QED BY <6>1 DEF Placed
        <5>5. QED BY <5>3, <5>4
      <4>5. QED BY <4>2, <4>3, <4>4 DEF Placed
    <3>5. QED BY <3>3, <3>4
  <2>7. PageInv(b)'
    <3>1. \A p \in DOMAIN rows'[b] : rows'[b][p] \in DOMAIN handled
      BY <1>1, <1>3, <1>4, <2>4, <2>5 DEF PageInv
    <3>2. QED BY <1>1, <1>2, <1>4, <2>6, <3>1, SameFeed DEF PageInv
  <2>8. MatchInv(b)'
    <3>1. \A i \in DOMAIN asks'[b] : i \in DOMAIN asks[b] /\ asks'[b][i].filter = asks[b][i].filter
      BY <1>2, <1>6, AskTypes DEF Ask
    <3>2. Len(asks'[b]) = Len(asks[b]) /\ (asks'[b] = <<>> => asks[b] = <<>>)
      BY <1>2, <1>6, AskTypes, SMTT(30)
    <3>3. row \in RowsOf(filter[b].within)
      BY <1>3, <1>4, <1>10 DEF RowsOf, within
    <3>4. asks[b] = <<>> /\ ~crossed[b] => \A p \in DOMAIN rows'[b] : rows'[b][p] \in RowsOf(filter[b].within)
      BY <1>1, <2>4, <2>5, <3>3 DEF MatchInv
    <3>5. QED BY <1>1, <1>2, <3>1, <3>2, <3>4, SameFeed DEF MatchInv
  <2>9. QED BY <1>1, <1>2, <1>5, <1>7, <2>7, <2>8, DashboardPartsNext DEF StopInv
<1>11. QED BY <1>9, <1>10

\* A stream that breaks takes with it what was on its way.
LEMMA BreakKeeps ==
  ASSUME MonitorTypeOK, FeedInv, NEW b \in Dashboards, DashboardInv(b),
         handled' = handled, buffer' = buffer, rows'[b] = rows[b], filter'[b] = filter[b],
         crossed'[b] = crossed[b], link'[b] = "connecting", frames'[b] = <<>>, whole'[b] = FALSE,
         asks'[b] = [i \in 1..Len(asks[b]) |-> [asks[b][i] EXCEPT !.intact = FALSE]]
  PROVE  DashboardInv(b)'
<1>1. StreamInv(b) /\ PageInv(b) /\ MatchInv(b) /\ Asks(b) /\ StopInv(b)
  BY DashboardParts
<1>2. asks[b] \in Seq(Ask) /\ Len(handled) \in Nat
  BY LenProperties DEF MonitorTypeOK
<1>3. /\ Len(asks[b]) \in Nat /\ DOMAIN asks[b] = 1..Len(asks[b]) /\ DOMAIN asks'[b] = DOMAIN asks[b]
      /\ Len(asks'[b]) = Len(asks[b]) /\ (asks'[b] = <<>> => asks[b] = <<>>)
      /\ \A i \in DOMAIN asks[b] :
           /\ asks[b][i] \in Ask /\ asks'[b][i] = [asks[b][i] EXCEPT !.intact = FALSE]
  <2>1. /\ Len(asks[b]) \in Nat /\ DOMAIN asks[b] = 1..Len(asks[b])
        /\ \A i \in DOMAIN asks[b] : asks[b][i] \in Ask
    BY <1>2, AskTypes
  <2>2. /\ DOMAIN asks'[b] = DOMAIN asks[b]
        /\ \A i \in DOMAIN asks[b] : asks'[b][i] = [asks[b][i] EXCEPT !.intact = FALSE]
    BY <2>1
  <2>3. Len(asks'[b]) = Len(asks[b])
    BY <2>1
  <2>4. asks'[b] = <<>> => asks[b] = <<>>
    <3>1. SUFFICES ASSUME asks'[b] = <<>> PROVE asks[b] = <<>>
      OBVIOUS
    <3>2. Len(asks[b]) = 0
      BY <2>3, <3>1, EmptySeq
    <3>3. QED BY <1>2, <3>2, EmptySeq
  <2>5. QED BY <2>1, <2>2, <2>3, <2>4
<1>4. StreamInv(b)' /\ StopInv(b)'
  BY <1>2 DEF StreamInv, StopInv
<1>5. PageInv(b)'
  BY <1>1 DEF PageInv
<1>6. MatchInv(b)'
  BY <1>1, <1>3, SameFeed DEF MatchInv, Ask
<1>7. ASSUME NEW a \in Ask, AskInv(b, a), NEW c, c = [a EXCEPT !.intact = FALSE]
      PROVE  AskInv(b, c)'
  <2>1. c.answered = a.answered /\ c.rows = a.rows /\ c.filter = a.filter /\ c.intact = FALSE
    BY <1>7 DEF Ask
  <2>2. QED BY <1>7, <2>1, SameFeed DEF AskInv
<1>8. ASSUME NEW i \in DOMAIN asks[b], NEW c, c = asks'[b][i] PROVE AskInv(b, c)'
  <2>1. AskInv(b, asks[b][i])
    BY <1>1 DEF Asks
  <2>2. QED BY <1>3, <1>7, <1>8, <2>1
<1>9. Asks(b)'
  BY <1>3, <1>8 DEF Asks
<1>10. QED BY <1>4, <1>5, <1>6, <1>9, DashboardPartsNext

\* While no stream is open, nothing on the page counts as complete.
LEMMA ClosedIsNotWhole ==
  ASSUME NEW b, DashboardInv(b), link[b] # "open"
  PROVE  frames[b] = <<>> /\ ~whole[b] /\ \A i \in DOMAIN asks[b] : ~asks[b][i].intact
<1>1. StreamInv(b) /\ PageInv(b) /\ Asks(b)
  BY DashboardParts
<1>2. QED BY <1>1 DEF StreamInv, PageInv, Asks, AskInv

LEMMA ConnectOrStartKeeps ==
  ASSUME MonitorTypeOK, FeedInv, NEW b \in Dashboards, DashboardInv(b), link[b] # "open",
         handled' = handled, frames' = frames, page' = page, server' = "up"
  PROVE  DashboardInv(b)'
<1>1. StreamInv(b) /\ PageInv(b) /\ MatchInv(b) /\ Asks(b)
  BY DashboardParts
<1>2. frames[b] = <<>> /\ ~whole[b] /\ \A i \in DOMAIN asks[b] : ~asks[b][i].intact
  BY ClosedIsNotWhole
<1>3. rows'[b] = rows[b] /\ filter'[b] = filter[b] /\ crossed'[b] = crossed[b]
      /\ asks'[b] = asks[b] /\ whole'[b] = whole[b]
  BY DEF page
<1>4. Len(handled) \in Nat /\ Len(<<>>) = 0
  BY LenProperties DEF FeedInv
<1>5. StreamInv(b)'
  BY <1>2, <1>4 DEF StreamInv
<1>6. \A clients : RowsOf(clients)' = RowsOf(clients)
  BY DEF RowsOf, ClientOf
<1>7. PageInv(b)' /\ MatchInv(b)'
  BY <1>1, <1>2, <1>3, <1>6 DEF PageInv, MatchInv
<1>8. ASSUME NEW a, AskInv(b, a), ~a.intact PROVE AskInv(b, a)'
  BY <1>6, <1>8 DEF AskInv
<1>9. Asks(b)'
  BY <1>1, <1>2, <1>3, <1>8 DEF Asks
<1>10. StopInv(b)'
  BY DEF StopInv
<1>11. QED BY <1>5, <1>7, <1>9, <1>10, DashboardPartsNext

LEMMA TypeFilterKeeps ==
  ASSUME MonitorTypeOK, FeedInv, NEW b \in Dashboards, DashboardInv(b), TypeFilter(b)
  PROVE  DashboardInv(b)'
<1>1. StreamInv(b) /\ PageInv(b) /\ MatchInv(b) /\ Asks(b) /\ StopInv(b)
  BY DashboardParts
<1>2. PICK f \in Filters :
        filter'[b] = f /\ asks'[b] = Append(asks[b], NewAsk(f))
  BY DEF TypeFilter, MonitorTypeOK
<1>3. /\ UNCHANGED <<handled, buffer, server, link, frames, rows>>
      /\ whole'[b] = FALSE /\ crossed'[b] = (crossed[b] \/ asks[b] # <<>>)
  BY DEF TypeFilter, MonitorTypeOK, feed
<1>4. asks[b] \in Seq(Ask) /\ NewAsk(f) \in Ask
  <2>1. asks[b] \in Seq(Ask)
    BY DEF MonitorTypeOK
  <2>2. QED BY <2>1, AskTypes
<1>5. /\ Len(asks[b]) \in Nat /\ DOMAIN asks[b] = 1..Len(asks[b])
      /\ Len(asks'[b]) = Len(asks[b]) + 1 /\ DOMAIN asks'[b] = 1..(Len(asks[b]) + 1)
      /\ \A i \in 1..Len(asks[b]) : asks'[b][i] = asks[b][i]
      /\ asks'[b][Len(asks[b]) + 1] = NewAsk(f) /\ asks'[b] # <<>>
  BY <1>2, <1>4, AppendProperties, LenProperties
<1>6. StreamInv(b)' /\ StopInv(b)' /\ PageInv(b)'
  BY <1>1, <1>3 DEF StreamInv, Shown, StopInv, PageInv
<1>7. MatchInv(b)'
  <2>1. ASSUME ~crossed'[b]
        PROVE  Len(asks'[b]) <= 1 /\ \A i \in DOMAIN asks'[b] : asks'[b][i].filter = filter'[b]
    <3>1. asks[b] = <<>>
      BY <1>3, <2>1
    <3>2. Len(asks[b]) = 0
      BY <3>1, EmptySeq
    <3>3. QED BY <1>2, <1>5, <3>2 DEF NewAsk
  <2>2. QED BY <1>5, <2>1 DEF MatchInv
<1>8. \A a : AskInv(b, a) => AskInv(b, a)'
  BY <1>3, SameFeed DEF AskInv, Covers, Shown
<1>9. \A a : a = NewAsk(f) => AskInv(b, a)'
  BY DEF AskInv, NewAsk
<1>10. ASSUME NEW i \in DOMAIN asks'[b], NEW c, c = asks'[b][i] PROVE AskInv(b, c)'
  <2>1. CASE i = Len(asks[b]) + 1
    BY <1>5, <1>9, <1>10, <2>1
  <2>2. CASE i # Len(asks[b]) + 1
    <3>1. i \in 1..Len(asks[b])
      BY <1>5, <2>2
    <3>2. QED BY <1>1, <1>5, <1>8, <1>10, <3>1 DEF Asks
  <2>3. QED BY <2>1, <2>2
<1>11. Asks(b)'
  BY <1>10 DEF Asks
<1>12. QED BY <1>6, <1>7, <1>11, DashboardPartsNext

LEMMA AnswerAskKeeps ==
  ASSUME MonitorTypeOK, FeedInv, NEW b \in Dashboards, DashboardInv(b),
         NEW i \in DOMAIN asks[b], AnswerAsk(b, i)
  PROVE  DashboardInv(b)'
<1> DEFINE t == Recent(DefaultLimit, asks[b][i].filter.exact)
           a == [asks[b][i] EXCEPT !.answered = TRUE, !.rows = t, !.intact = (link[b] = "open")]
<1>1. StreamInv(b) /\ PageInv(b) /\ MatchInv(b) /\ Asks(b) /\ StopInv(b)
  BY DashboardParts
<1>2. /\ UNCHANGED <<handled, buffer, server, link, frames, rows, filter, whole, crossed>>
      /\ asks'[b] = [asks[b] EXCEPT ![i] = a]
  BY DEF AnswerAsk, MonitorTypeOK, feed
<1>3. asks[b] \in Seq(Ask)
  BY DEF MonitorTypeOK
<1>4. DOMAIN asks[b] = 1..Len(asks[b]) /\ asks[b][i] \in Ask
  BY <1>3, AskTypes
<1>5. /\ t \in Seq(Nat) /\ Len(t) <= DefaultLimit
      /\ \A j \in DOMAIN t : t[j] \in RowsOf(asks[b][i].filter.exact)
      /\ ToSet(t) = Latest(asks[b][i].filter.exact)
  BY RecentIsLatest
<1>6. /\ a.answered /\ a.rows = t /\ a.filter = asks[b][i].filter
      /\ (a.intact <=> link[b] = "open")
  BY <1>4 DEF Ask
<1> HIDE DEF a, t
<1>7. DOMAIN asks'[b] = DOMAIN asks[b] /\ Len(asks'[b]) = Len(asks[b]) /\ asks[b] # <<>>
      /\ asks'[b] # <<>> /\ \A j \in DOMAIN asks[b] : asks'[b][j] = IF j = i THEN a ELSE asks[b][j]
  <2>1. DOMAIN asks'[b] = DOMAIN asks[b] /\ asks[b] # <<>>
    BY <1>2, <1>4
  <2>2. QED BY <1>2, <1>3, <1>4, <2>1
<1>8. StreamInv(b)' /\ StopInv(b)'
  BY <1>1, <1>2 DEF StreamInv, Shown, StopInv
<1>9. \A row : Placed(b, row)' <=> Placed(b, row)
  BY <1>2, SameFeed DEF Placed, Pushing, Shown
<1>10. PageInv(b)'
  BY <1>1, <1>2, <1>9, SameFeed DEF PageInv, Shown
<1>11. MatchInv(b)'
  BY <1>1, <1>2, <1>6, <1>7 DEF MatchInv
<1>12. \A c : AskInv(b, c) => AskInv(b, c)'
  BY <1>2, SameFeed DEF AskInv, Covers, Shown
<1>13. \A c : c = a => AskInv(b, c)
  BY <1>5, <1>6 DEF AskInv, Covers
<1>14. ASSUME NEW j \in DOMAIN asks'[b], NEW c, c = asks'[b][j] PROVE AskInv(b, c)'
  BY <1>1, <1>7, <1>12, <1>13, <1>14 DEF Asks
<1>15. Asks(b)'
  BY <1>14 DEF Asks
<1>16. QED BY <1>8, <1>10, <1>11, <1>15, DashboardPartsNext

LEMMA ApplyOrFailKeeps ==
  ASSUME MonitorTypeOK, FeedInv, NEW b \in Dashboards, DashboardInv(b),
         NEW i \in DOMAIN asks[b], Apply(b, i) \/ AskFails(b, i)
  PROVE  DashboardInv(b)'
<1>1. StreamInv(b) /\ PageInv(b) /\ MatchInv(b) /\ Asks(b) /\ StopInv(b)
  BY DashboardParts
<1>2. /\ UNCHANGED <<handled, buffer, server, link, frames, filter>>
      /\ asks'[b] = RemoveAt(asks[b], i)
  BY DEF Apply, AskFails, MonitorTypeOK, feed
<1>3. asks[b] \in Seq(Ask)
  BY DEF MonitorTypeOK
<1>4. DOMAIN asks[b] = 1..Len(asks[b]) /\ asks[b][i] \in Ask /\ Len(asks[b]) \in Nat
  BY <1>3, AskTypes
<1>5. /\ Len(asks'[b]) = Len(asks[b]) - 1 /\ DOMAIN asks'[b] = 1..(Len(asks[b]) - 1)
      /\ \A j \in DOMAIN asks'[b] : \E k \in DOMAIN asks[b] : asks'[b][j] = asks[b][k]
  <2>1. /\ RemoveAt(asks[b], i) \in Seq(Ask) /\ Len(RemoveAt(asks[b], i)) = Len(asks[b]) - 1
        /\ \A j \in 1..(Len(asks[b]) - 1) :
             /\ RemoveAt(asks[b], i)[j] = asks[b][IF j < i THEN j ELSE j + 1]
             /\ (IF j < i THEN j ELSE j + 1) \in 1..Len(asks[b])
    BY <1>3, <1>4, RemoveAtProperties
  <2>2. DOMAIN RemoveAt(asks[b], i) = 1..(Len(asks[b]) - 1)
    BY <2>1, LenProperties
  <2>3. QED BY <1>2, <1>4, <2>1, <2>2
<1>6. StreamInv(b)' /\ StopInv(b)'
  BY <1>1, <1>2 DEF StreamInv, Shown, StopInv
<1>7. \A c : AskInv(b, c) => AskInv(b, c)'
  BY <1>2, SameFeed DEF AskInv, Covers, Shown
<1>8. ASSUME NEW j \in DOMAIN asks'[b], NEW c, c = asks'[b][j] PROVE AskInv(b, c)'
  <2>1. PICK k \in DOMAIN asks[b] : c = asks[b][k]
    BY <1>5, <1>8
  <2>2. AskInv(b, c)
    BY <1>1, <2>1 DEF Asks
  <2>3. QED BY <1>7, <2>2
<1>9. Asks(b)'
  BY <1>8 DEF Asks
<1>10. CASE AskFails(b, i)
  <2>1. crossed'[b] = TRUE /\ rows'[b] = rows[b] /\ whole'[b] = whole[b]
    BY <1>10 DEF AskFails, MonitorTypeOK
  <2>2. \A row : Placed(b, row)' <=> Placed(b, row)
    BY <1>2, <2>1, SameFeed DEF Placed, Pushing, Shown
  <2>3. PageInv(b)'
    BY <1>1, <1>2, <2>1, <2>2, SameFeed DEF PageInv, Shown
  <2>4. MatchInv(b)'
    BY <2>1 DEF MatchInv
  <2>5. QED BY <1>6, <1>9, <2>3, <2>4, DashboardPartsNext
<1>11. CASE Apply(b, i)
  <2> DEFINE a == asks[b][i]
  <2>1. /\ a.answered /\ crossed' = crossed /\ rows'[b] = a.rows
        /\ whole'[b] = (a.intact /\ a.filter = filter[b])
    BY <1>11 DEF Apply, MonitorTypeOK
  <2>2. AskInv(b, a)
    BY <1>1 DEF Asks
  <2>3. a \in Ask /\ a.rows \in Seq(Nat)
    BY <1>4 DEF Ask
  <2> HIDE DEF a
  <2>4. /\ Len(a.rows) <= DefaultLimit /\ Len(a.rows) \in Nat /\ DOMAIN a.rows = 1..Len(a.rows)
        /\ \A p \in DOMAIN a.rows : a.rows[p] \in RowsOf(a.filter.exact)
    BY <2>1, <2>2, <2>3, LenProperties DEF AskInv
  <2>5. ASSUME whole'[b], NEW row \in Latest(filter[b].exact), row <= Shown(b)
        PROVE  Placed(b, row)'
    <3>1. row \in ToSet(a.rows)
      BY <2>1, <2>2, <2>5 DEF AskInv, Covers
    <3>2. PICK p \in DOMAIN a.rows : a.rows[p] = row
      BY <3>1 DEF ToSet
    <3>3. Cardinality(Pushing(b, row)') \in Nat
      <4>1. Len(handled) \in Nat /\ DOMAIN handled = 1..Len(handled)
        BY LenProperties DEF FeedInv
      <4>2. IsFiniteSet(1..Len(handled))
        <5>1. \A m \in Nat : IsFiniteSet(1..m)
          BY FS_Interval
        <5>2. QED BY <4>1, <5>1
      <4>3. Pushing(b, row)' \subseteq 1..Len(handled)
        BY <1>2, <4>1 DEF Pushing, Later, RowsOf
      <4>4. QED BY <4>2, <4>3, FS_Subset, FS_CardinalityType
    <3>4. p <= DefaultLimit + Cardinality(Pushing(b, row)')
      BY <2>4, <3>2, <3>3, MonitorAssumption
    <3>5. QED BY <2>1, <3>2, <3>4 DEF Placed
  <2>6. PageInv(b)'
    <3>1. \A p \in DOMAIN rows'[b] : rows'[b][p] \in DOMAIN handled
      BY <2>1, <2>4 DEF RowsOf
    <3>2. whole'[b] => link[b] = "open"
      BY <2>1, <2>2 DEF AskInv
    <3>3. QED BY <1>2, <2>5, <3>1, <3>2, SameFeed DEF PageInv, Shown
  <2>7. MatchInv(b)'
    <3>1. ASSUME ~crossed[b]
          PROVE  Len(asks'[b]) <= 1 /\ DOMAIN asks'[b] = {} /\ a.filter = filter[b]
      BY <1>1, <1>4, <1>5, <3>1 DEF MatchInv, a
    <3>2. filter[b].exact \subseteq filter[b].within
      <4>1. filter[b] \in Filters \cup {All}
        BY DEF MonitorTypeOK
      <4>2. \A f \in Filters \cup {All} : f.exact \subseteq f.within
        BY MonitorAssumption DEF All
      <4>3. QED BY <4>1, <4>2
    <3>3. RowsOf(filter[b].exact) \subseteq RowsOf(filter[b].within)
      BY <3>2 DEF RowsOf
    <3>4. QED BY <1>2, <2>1, <2>4, <3>1, <3>3, SameFeed DEF MatchInv
  <2>8. QED BY <1>6, <1>9, <2>6, <2>7, DashboardPartsNext
<1>12. QED BY <1>10, <1>11

LEMMA DashboardStep ==
  ASSUME MonitorInv, [Next]_vars, FeedInv', NEW b \in Dashboards
  PROVE  DashboardInv(b)'
<1> USE DEF vars, consumer, feed, page
<1>1. MonitorTypeOK /\ position # 0 /\ FeedInv /\ DashboardInv(b)
  BY DEF MonitorInv
<1>2. StopInv(b)
  BY <1>1, DashboardParts
<1>3. CASE Consume
  BY <1>1, <1>3, ConsumeKeeps
<1>4. CASE Publish \/ Commit \/ Rejoin \/ Signal \/ Closed \/ UNCHANGED vars
  <2>1. UNCHANGED <<feed, link, frames, page>>
    BY <1>4 DEF Publish, Commit, Rejoin, Signal, Closed
  <2>2. StopInv(b)'
    BY <1>2, <1>4 DEF StopInv, Publish, Commit, Rejoin, Signal, Closed
  <2>3. QED BY <1>1, <2>1, <2>2, Undisturbed
<1>5. ASSUME NEW d \in Dashboards, Connect(d) PROVE DashboardInv(b)'
  <2>1. UNCHANGED <<feed, frames, page>> /\ server' = "up"
    BY <1>5 DEF Connect
  <2>2. CASE b = d
    <3>1. link[b] # "open"
      BY <1>5, <2>2 DEF Connect
    <3>2. QED BY <1>1, <2>1, <3>1, ConnectOrStartKeeps
  <2>3. CASE b # d
    <3>1. link'[b] = link[b] /\ StopInv(b)'
      BY <1>5, <2>1, <2>3 DEF Connect, MonitorTypeOK, StopInv
    <3>2. QED BY <1>1, <2>1, <3>1, Undisturbed
  <2>4. QED BY <2>2, <2>3
<1>6. ASSUME NEW d \in Dashboards, Drop(d) PROVE DashboardInv(b)'
  <2>1. UNCHANGED <<handled, buffer, server, rows, filter, crossed>>
    BY <1>6 DEF Drop
  <2>2. CASE b = d
    <3>1. /\ link'[b] = "connecting" /\ frames'[b] = <<>> /\ whole'[b] = FALSE
          /\ asks'[b] = [i \in 1..Len(asks[b]) |-> [asks[b][i] EXCEPT !.intact = FALSE]]
      BY <1>1, <1>6, <2>2 DEF Drop, Shaken, MonitorTypeOK
    <3>2. QED BY <1>1, <2>1, <3>1, BreakKeeps
  <2>3. CASE b # d
    <3>1. /\ link'[b] = link[b] /\ frames'[b] = frames[b] /\ whole'[b] = whole[b]
          /\ asks'[b] = asks[b] /\ StopInv(b)'
      BY <1>1, <1>2, <1>6, <2>1, <2>3 DEF Drop, Shaken, MonitorTypeOK, StopInv
    <3>2. QED BY <1>1, <2>1, <3>1, Undisturbed
  <2>4. QED BY <2>2, <2>3
<1>7. ASSUME NEW d \in Dashboards, ShowFrame(d) PROVE DashboardInv(b)'
  <2>1. CASE b = d
    BY <1>1, <1>7, <2>1, ShowFrameKeeps
  <2>2. CASE b # d
    <3>1. UNCHANGED <<handled, buffer, server, link, filter, whole, crossed>>
      BY <1>7 DEF ShowFrame
    <3>2. /\ frames'[b] = frames[b] /\ rows'[b] = rows[b] /\ asks'[b] = asks[b] /\ StopInv(b)'
      BY <1>1, <1>2, <1>7, <2>2, <3>1 DEF ShowFrame, MonitorTypeOK, StopInv
    <3>3. QED BY <1>1, <3>1, <3>2, Undisturbed
  <2>3. QED BY <2>1, <2>2
<1>8. ASSUME NEW d \in Dashboards, TypeFilter(d) PROVE DashboardInv(b)'
  <2>1. CASE b = d
    BY <1>1, <1>8, <2>1, TypeFilterKeeps
  <2>2. CASE b # d
    <3>1. UNCHANGED <<handled, buffer, server, link, frames, rows>>
      BY <1>8 DEF TypeFilter
    <3>2. /\ filter'[b] = filter[b] /\ asks'[b] = asks[b] /\ whole'[b] = whole[b]
          /\ crossed'[b] = crossed[b] /\ StopInv(b)'
      BY <1>1, <1>2, <1>8, <2>2, <3>1 DEF TypeFilter, MonitorTypeOK, StopInv
    <3>3. QED BY <1>1, <3>1, <3>2, Undisturbed
  <2>3. QED BY <2>1, <2>2
<1>9. ASSUME NEW d \in Dashboards, NEW i \in DOMAIN asks[d], AnswerAsk(d, i)
      PROVE  DashboardInv(b)'
  <2>1. CASE b = d
    BY <1>1, <1>9, <2>1, AnswerAskKeeps
  <2>2. CASE b # d
    <3>1. UNCHANGED <<handled, buffer, server, link, frames, rows, filter, whole, crossed>>
      BY <1>9 DEF AnswerAsk
    <3>2. asks'[b] = asks[b] /\ StopInv(b)'
      BY <1>1, <1>2, <1>9, <2>2, <3>1 DEF AnswerAsk, MonitorTypeOK, StopInv
    <3>3. QED BY <1>1, <3>1, <3>2, Undisturbed
  <2>3. QED BY <2>1, <2>2
<1>10. ASSUME NEW d \in Dashboards, NEW i \in DOMAIN asks[d], Apply(d, i) \/ AskFails(d, i)
       PROVE  DashboardInv(b)'
  <2>1. CASE b = d
    BY <1>1, <1>10, <2>1, ApplyOrFailKeeps
  <2>2. CASE b # d
    <3>1. UNCHANGED <<handled, buffer, server, link, frames, filter>>
      BY <1>10 DEF Apply, AskFails
    <3>2. /\ rows'[b] = rows[b] /\ asks'[b] = asks[b] /\ whole'[b] = whole[b]
          /\ crossed'[b] = crossed[b] /\ StopInv(b)'
      BY <1>1, <1>2, <1>10, <2>2, <3>1 DEF Apply, AskFails, MonitorTypeOK, StopInv
    <3>3. QED BY <1>1, <3>1, <3>2, Undisturbed
  <2>3. QED BY <2>1, <2>2
<1>11. CASE StreamStopped \/ TimeLimit
  <2>1. Exit
    BY <1>11 DEF StreamStopped, TimeLimit
  <2>2. /\ UNCHANGED <<handled, buffer, rows, filter, crossed>>
        /\ link'[b] = "connecting" /\ frames'[b] = <<>> /\ whole'[b] = FALSE
        /\ asks'[b] = [i \in 1..Len(asks[b]) |-> [asks[b][i] EXCEPT !.intact = FALSE]]
    BY <2>1 DEF Exit
  <2>3. QED BY <1>1, <2>2, BreakKeeps
<1>12. CASE Start
  <2>1. link[b] # "open" /\ UNCHANGED <<handled, frames, page>> /\ server' = "up"
    BY <1>2, <1>12 DEF Start, StopInv
  <2>2. QED BY <1>1, <2>1, ConnectOrStartKeeps
<1>13. QED
  BY <1>3, <1>4, <1>5, <1>6, <1>7, <1>8, <1>9, <1>10, <1>11, <1>12 DEF Next

-----------------------------------------------------------------------------
(* The theorems about the service.                                         *)

LEMMA MonitorInvInit == Init => MonitorInv
<1> SUFFICES ASSUME Init PROVE MonitorInv
  OBVIOUS
<1> USE MonitorAssumption
<1>1. \A S : <<>> \in Seq(S) /\ Len(<<>>) = 0 /\ DOMAIN <<>> = {}
  BY EmptySeq, LenProperties
<1>2. NewAsk(All) \in Ask
  BY DEF NewAsk, Ask
<1>3. <<NewAsk(All)>> \in Seq(Ask) /\ Len(<<NewAsk(All)>>) = 1 /\ DOMAIN <<NewAsk(All)>> = {1}
      /\ <<NewAsk(All)>>[1] = NewAsk(All) /\ <<NewAsk(All)>> # <<>>
  BY <1>2
<1>4. MonitorTypeOK /\ position # 0
  <2>1. topic \in 0..MaxResults /\ disruptions \in 0..MaxDisruptions
    BY DEF Init
  <2>2. QED BY <1>1, <1>3, <2>1 DEF Init, MonitorTypeOK, NoOffset
<1>5. FeedInv
  <2>1. <<>> = [i \in 1..(0 - 0) |-> 0 + i]
    BY <1>1
  <2>2. ~(0 - Capacity > 0)
    OBVIOUS
  <2>3. FeedIsWindow
    BY <1>1, <2>1, <2>2 DEF Init, FeedIsWindow
  <2>4. QED BY <1>1, <2>3 DEF Init, FeedInv
<1>6. ASSUME NEW b \in Dashboards PROVE DashboardInv(b)
  <2>1. /\ handled = <<>> /\ server = "up" /\ frames[b] = <<>> /\ rows[b] = <<>> /\ whole[b] = FALSE
        /\ asks[b] = <<NewAsk(All)>> /\ filter[b] = All
    BY DEF Init
  <2>2. StreamInv(b) /\ PageInv(b) /\ StopInv(b)
    BY <1>1, <2>1 DEF StreamInv, PageInv, StopInv
  <2>3. MatchInv(b)
    BY <1>3, <2>1 DEF MatchInv, NewAsk
  <2>4. Asks(b)
    BY <1>3, <2>1 DEF Asks, AskInv, NewAsk
  <2>5. QED BY <2>2, <2>3, <2>4, DashboardParts
<1>7. QED BY <1>4, <1>5, <1>6 DEF MonitorInv

LEMMA MonitorInvStep == MonitorInv /\ [Next]_vars => MonitorInv'
<1> SUFFICES ASSUME MonitorInv, [Next]_vars PROVE MonitorInv'
  OBVIOUS
<1>1. MonitorTypeOK /\ position # 0 /\ FeedInv /\ \A b \in Dashboards : PageInv(b)
  BY DashboardParts DEF MonitorInv
<1>2. (MonitorTypeOK /\ position # 0)' /\ FeedInv'
  BY <1>1, TypeStep, FeedStep
<1>3. \A b \in Dashboards : DashboardInv(b)'
  BY <1>2, DashboardStep
<1>4. QED BY <1>2, <1>3 DEF MonitorInv

-----------------------------------------------------------------------------
(* The latencies.                                                          *)

\* How many of the places T sort puts before i.
Rank(i, T) == Cardinality({j \in T : Before(j, i)})

\* The ranks of n places are 0..(n - 1), in the order of the times.
LEMMA Ranks ==
  ASSUME NEW T \in SUBSET Nat, IsFiniteSet(T), \A i \in T : Time(i) \in Nat,
         NEW n, n = Cardinality(T)
  PROVE  /\ n \in Nat
         /\ \A i \in T : Rank(i, T) \in 0..(n - 1)
         /\ \A i, j \in T : Rank(i, T) <= Rank(j, T) => i = j \/ Before(i, j)
         /\ \A k \in 1..n : \E i \in T : Rank(i, T) = k - 1
<1> DEFINE Ahead(i) == {j \in T : Before(j, i)}
<1>1. n \in Nat
  BY FS_CardinalityType
<1>2. ASSUME NEW i \in T PROVE Rank(i, T) \in 0..(n - 1)
  <2>1. Ahead(i) \in SUBSET T /\ i \notin Ahead(i)
    BY DEF Before
  <2>2. Rank(i, T) = Cardinality(Ahead(i))
    BY DEF Rank
  <2> HIDE DEF Ahead
  <2>3. IsFiniteSet(Ahead(i)) /\ Cardinality(Ahead(i)) <= n /\ Cardinality(Ahead(i)) # n
    BY <2>1, FS_Subset
  <2>4. Cardinality(Ahead(i)) \in Nat
    BY <2>3, FS_CardinalityType
  <2>5. QED BY <1>1, <2>2, <2>3, <2>4
<1>3. \A i, j \in T : i = j \/ Before(i, j) \/ Before(j, i)
  <2>1. TAKE i, j \in T
  <2>2. Time(i) \in Nat /\ Time(j) \in Nat /\ i \in Nat /\ j \in Nat
    OBVIOUS
  <2>3. QED BY <2>2 DEF Before
<1>4. ASSUME NEW i \in T, NEW j \in T, Before(i, j) PROVE Rank(i, T) < Rank(j, T)
  <2>1. Ahead(i) \in SUBSET Ahead(j)
    <3> SUFFICES ASSUME NEW x \in T, Before(x, i) PROVE Before(x, j)
      OBVIOUS
    <3>1. /\ Time(x) \in Nat /\ Time(i) \in Nat /\ Time(j) \in Nat
          /\ x \in Nat /\ i \in Nat /\ j \in Nat
      OBVIOUS
    <3>2. QED BY <1>4, <3>1 DEF Before
  <2>2. i \in Ahead(j) /\ i \notin Ahead(i)
    BY <1>4 DEF Before
  <2>3. IsFiniteSet(Ahead(j))
    BY FS_Subset
  <2>4. Rank(i, T) = Cardinality(Ahead(i)) /\ Rank(j, T) = Cardinality(Ahead(j))
    BY DEF Rank
  <2> HIDE DEF Ahead
  <2>5. Cardinality(Ahead(i)) <= Cardinality(Ahead(j))
        /\ Cardinality(Ahead(i)) # Cardinality(Ahead(j))
    BY <2>1, <2>2, <2>3, FS_Subset
  <2>6. Rank(i, T) \in Int /\ Rank(j, T) \in Int
    BY <1>1, <1>2
  <2>7. QED BY <2>4, <2>5, <2>6
<1> HIDE DEF Ahead
<1>5. ASSUME NEW i \in T, NEW j \in T, Rank(i, T) <= Rank(j, T) PROVE i = j \/ Before(i, j)
  <2>1. Rank(i, T) \in Int /\ Rank(j, T) \in Int
    BY <1>1, <1>2
  <2>2. ~Before(j, i)
    <3>1. Before(j, i) => Rank(j, T) < Rank(i, T)
      BY <1>4
    <3>2. QED BY <1>5, <2>1, <3>1
  <2>3. QED BY <1>3, <2>2
<1>7. \A k \in 1..n : \E i \in T : Rank(i, T) = k - 1
  <2> DEFINE S == 0..(n - 1)
             g == [i \in T |-> Rank(i, T)]
  <2>1. g \in [T -> S]
    BY <1>2
  <2>2. \A i, j \in T : g[i] = g[j] => i = j
    <3>1. ASSUME NEW i \in T, NEW j \in T, Rank(i, T) = Rank(j, T) PROVE i = j
      <4>1. Rank(i, T) \in Int /\ Rank(j, T) \in Int
        BY <1>1, <1>2
      <4>2. ~Before(i, j) /\ ~Before(j, i)
        <5>1. Before(i, j) => Rank(i, T) < Rank(j, T)
          BY <1>4
        <5>2. Before(j, i) => Rank(j, T) < Rank(i, T)
          BY <1>4
        <5>3. QED BY <3>1, <4>1, <5>1, <5>2
      <4>3. QED BY <1>3, <4>2
    <3>2. QED BY <3>1
  <2>3. IsFiniteSet(S) /\ Cardinality(S) = n
    <3>1. 0 \in Int /\ n - 1 \in Int
      BY <1>1
    <3>2. \A a, b \in Int : IsFiniteSet(a..b) /\ Cardinality(a..b) = IF a > b THEN 0 ELSE b - a + 1
      BY FS_Interval
    <3>3. IsFiniteSet(S) /\ Cardinality(S) = IF 0 > n - 1 THEN 0 ELSE (n - 1) - 0 + 1
      BY <3>1, <3>2
    <3>4. QED BY <1>1, <3>3
  <2> HIDE DEF g, S
  <2>4. g \in Injection(T, S)
    BY <2>1, <2>2 DEF Injection, IsInjective
  <2>5. g \in Surjection(T, S)
    BY <2>3, <2>4, FS_Injection
  <2>6. \A k \in S : \E i \in T : g[i] = k
    BY <2>5 DEF Surjection
  <2>7. \A k \in 1..n : k - 1 \in S
    BY <1>1 DEF S
  <2>8. QED BY <2>6, <2>7 DEF g
<1>8. QED BY <1>1, <1>2, <1>5, <1>7

\* The times of the places of T, in the order sort gives them.
TimesOf(T, n) == [k \in 1..n |-> Time(CHOOSE i \in T : Rank(i, T) = k - 1)]

\* D is in order, and its k-th has the right numbers of times on either side.
Sorts(D, T, n) ==
  /\ n \in Nat /\ D \in Seq(Nat) /\ Len(D) = n
  /\ \A k \in 1..n :
       /\ Cardinality({i \in T : Time(i) < D[k]}) <= k - 1
       /\ Cardinality({i \in T : Time(i) <= D[k]}) >= k
       /\ \A l \in k..n : D[k] <= D[l]
  /\ \A i \in T : n # 0 /\ Time(i) <= D[n]

\* The k-th of the durations is the time of a place with k - 1 places before it.
LEMMA SortedTimes ==
  ASSUME NEW T \in SUBSET Nat, IsFiniteSet(T), \A i \in T : Time(i) \in Nat,
         NEW n, n = Cardinality(T), NEW D, D = TimesOf(T, n)
  PROVE  Sorts(D, T, n)
<1> USE DEF TimesOf, Sorts
<1>1. /\ n \in Nat
      /\ \A i \in T : Rank(i, T) \in 0..(n - 1)
      /\ \A i, j \in T : Rank(i, T) <= Rank(j, T) => i = j \/ Before(i, j)
      /\ \A k \in 1..n : \E i \in T : Rank(i, T) = k - 1
  BY Ranks
<1>2. ASSUME NEW k \in 1..n
      PROVE  \E i \in T : Rank(i, T) = k - 1 /\ D[k] = Time(i)
  <2>1. PICK a : a = CHOOSE i \in T : Rank(i, T) = k - 1
    OBVIOUS
  <2>2. a \in T /\ Rank(a, T) = k - 1
    BY <1>1, <2>1
  <2>3. D[k] = Time(a)
    BY <2>1
  <2>4. QED BY <2>2, <2>3
<1>3. DOMAIN D = 1..n /\ \A k \in 1..n : D[k] \in Nat
  BY <1>2
<1>4. D \in Seq(Nat) /\ Len(D) = n
  <2>1. D = [k \in 1..n |-> D[k]]
    BY <1>3
  <2>2. D \in [1..n -> Nat]
    BY <1>3, <2>1
  <2>3. D \in Seq(Nat)
    BY <1>1, <2>2, SeqDef
  <2>4. QED BY <1>1, <1>3, <2>3, LenProperties
<1>5. \A i, j \in T : Before(i, j) => Time(i) <= Time(j)
  BY DEF Before
<1>6. ASSUME NEW k \in 1..n
      PROVE  /\ Cardinality({i \in T : Time(i) < D[k]}) <= k - 1
             /\ Cardinality({i \in T : Time(i) <= D[k]}) >= k
             /\ \A l \in k..n : D[k] <= D[l]
  <2>1. PICK a \in T : Rank(a, T) = k - 1 /\ D[k] = Time(a)
    BY <1>2
  <2>2. PICK A : A = {i \in T : Before(i, a)}
    OBVIOUS
  <2>3. PICK L : L = {i \in T : Time(i) < D[k]}
    OBVIOUS
  <2>4. PICK U : U = {i \in T : Time(i) <= D[k]}
    OBVIOUS
  <2>5. k \in Nat /\ Cardinality(A) = k - 1
    BY <1>1, <2>1, <2>2 DEF Rank
  <2>6. A \in SUBSET T /\ U \in SUBSET T
    BY <2>2, <2>4
  <2>7. IsFiniteSet(A) /\ IsFiniteSet(U)
    BY <2>6, FS_Subset
  <2>8. L \subseteq A
    <3>1. ASSUME NEW i \in L PROVE Before(i, a)
      BY <2>1, <2>3 DEF Before
    <3>2. QED BY <2>2, <2>3, <3>1
  <2>9. A \cup {a} \subseteq U
    <3>1. ASSUME NEW i \in A PROVE Time(i) <= Time(a)
      BY <1>5, <2>2
    <3>2. Time(a) <= Time(a)
      OBVIOUS
    <3>3. QED BY <2>1, <2>4, <2>6, <3>1, <3>2
  <2>10. a \notin A
    <3>1. ~Before(a, a)
      BY DEF Before
    <3>2. QED BY <2>2, <3>1
  <2>11. Cardinality(L) <= k - 1
    BY <2>5, <2>7, <2>8, FS_Subset
  <2>12. Cardinality(A \cup {a}) = Cardinality(A) + 1
    BY <2>7, <2>10, FS_AddElement
  <2>13. Cardinality(U) >= k
    <3>1. Cardinality(A \cup {a}) <= Cardinality(U)
      BY <2>7, <2>9, FS_Subset
    <3>2. Cardinality(U) \in Nat
      BY <2>7, FS_CardinalityType
    <3>3. QED BY <2>5, <2>12, <3>1, <3>2
  <2>14. ASSUME NEW l \in k..n PROVE D[k] <= D[l]
    <3>1. l \in 1..n /\ k - 1 <= l - 1
      BY <1>1
    <3>2. PICK b \in T : Rank(b, T) = l - 1 /\ D[l] = Time(b)
      BY <1>2, <3>1
    <3>3. a = b \/ Before(a, b)
      BY <1>1, <2>1, <3>1, <3>2
    <3>4. Time(a) <= Time(b)
      <4>1. Time(a) <= Time(a)
        OBVIOUS
      <4>2. QED BY <1>5, <3>3, <4>1
    <3>5. QED BY <2>1, <3>2, <3>4
  <2>15. QED BY <2>3, <2>4, <2>11, <2>13, <2>14
<1>7. ASSUME NEW i \in T PROVE n # 0 /\ Time(i) <= D[n]
  <2>1. Rank(i, T) \in 0..(n - 1)
    BY <1>1
  <2>2. n \in 1..n
    BY <1>1, <2>1
  <2>3. PICK b \in T : Rank(b, T) = n - 1 /\ D[n] = Time(b)
    BY <1>2, <2>2
  <2>4. Rank(i, T) <= Rank(b, T)
    BY <1>1, <2>1, <2>3
  <2>5. i = b \/ Before(i, b)
    BY <1>1, <2>4
  <2>6. Time(i) <= Time(b)
    <3>1. Time(i) <= Time(i)
      OBVIOUS
    <3>2. QED BY <1>5, <2>5, <3>1
  <2>7. QED BY <2>2, <2>3, <2>6
<1>8. QED BY <1>1, <1>4, <1>6, <1>7

\* The place percentile takes.
IsPlace(k, D, n, q) ==
  /\ Percentile(D, q) = D[k] /\ 100 * (k - 1) <= q * n /\ 100 * k > q * n
  /\ k = Least(n - 1, (q * n) \div 100) + 1

LEMMA PercentilePlace ==
  ASSUME NEW D \in Seq(Nat), D # <<>>, NEW n, n = Len(D), NEW q \in {50, 95}
  PROVE  \E k \in 1..n : IsPlace(k, D, n, q)
<1>1. n \in Nat \ {0}
  BY EmptySeq, LenProperties
<1> DEFINE d == (q * n) \div 100
           k == Least(n - 1, d) + 1
<1>2. d \in Nat /\ 100 * d <= q * n /\ 100 * (d + 1) > q * n
  BY <1>1
<1> HIDE DEF d
<1>3. k \in 1..n /\ 100 * (k - 1) <= q * n /\ 100 * k > q * n
  BY <1>1, <1>2 DEF Least
<1>4. Percentile(D, q) = D[k]
  BY DEF Percentile, d
<1>5. IsPlace(k, D, n, q)
  BY <1>3, <1>4 DEF d, IsPlace
<1>6. QED BY <1>3, <1>5

\* The 50th percentile is not taken behind the 95th.
LEMMA PercentileOrder ==
  ASSUME NEW n \in Nat
  PROVE  Least(n - 1, (50 * n) \div 100) <= Least(n - 1, (95 * n) \div 100)
<1>1. (50 * n) \div 100 <= (95 * n) \div 100 /\ (50 * n) \div 100 \in Nat /\ (95 * n) \div 100 \in Nat
  OBVIOUS
<1>2. QED BY <1>1 DEF Least

LEMMA LatencyFacts ==
  ASSUME FeedInv, NEW clients
  PROVE  LET latency == Summary(clients)
         IN  /\ Divides(latency.p50, 50, clients) /\ Divides(latency.p95, 95, clients)
             /\ latency.p50 <= latency.p95 /\ latency.p95 <= latency.max
             /\ \A i \in Timed(clients) : Time(i) <= latency.max
<1> DEFINE T == Timed(clients)
           n == Cardinality(T)
           D == Durations(clients)
           latency == Summary(clients)
<1>1. T \subseteq 1..Len(buffer) /\ Len(buffer) \in Nat
  BY FeedFacts DEF FeedFact, Timed, Items
<1>2. T \in SUBSET Nat /\ IsFiniteSet(T)
  <2>1. \A m \in Nat : IsFiniteSet(1..m) /\ 1..m \subseteq Nat
    BY FS_Interval
  <2>2. QED BY <1>1, <2>1, FS_Subset
<1>3. \A i \in T : Time(i) \in Nat
  <2>1. TAKE i \in T
  <2>2. buffer[i] \in 1..Len(handled)
    BY <1>1, FeedFacts DEF FeedFact
  <2>3. handled[buffer[i]] \in Results
    BY <2>2, ElementOfSeq DEF FeedInv
  <2>4. QED BY <2>3, MonitorAssumption DEF Time
<1>4. D = TimesOf(T, n)
  BY DEF Durations, Rank, TimesOf
<1>5. /\ latency.p50 = Percentile(D, 50) /\ latency.p95 = Percentile(D, 95)
      /\ latency.max = IF D = <<>> THEN 0 ELSE Last(D)
  BY DEF Summary
<1> HIDE DEF T, n, D, latency
<1>6. /\ n \in Nat /\ D \in Seq(Nat) /\ Len(D) = n
      /\ \A k \in 1..n :
           /\ Cardinality({i \in T : Time(i) < D[k]}) <= k - 1
           /\ Cardinality({i \in T : Time(i) <= D[k]}) >= k
           /\ \A l \in k..n : D[k] <= D[l]
      /\ \A i \in T : n # 0 /\ Time(i) <= D[n]
  <2>1. n = Cardinality(T)
    BY DEF n
  <2>2. T \in SUBSET Nat /\ IsFiniteSet(T)
    BY <1>2
  <2>3. Sorts(D, T, n)
    BY <1>3, <1>4, <2>1, <2>2, SortedTimes
  <2>4. QED BY <2>3 DEF Sorts
<1>7. D = <<>> <=> n = 0
  BY <1>6, EmptySeq
<1>8. \A p, q : Divides(p, q, clients) <=>
        /\ 100 * Cardinality({i \in T : Time(i) < p}) <= q * n
        /\ n # 0 => 100 * Cardinality({i \in T : Time(i) <= p}) > q * n
  BY DEF Divides, T, n
<1>9. CASE n = 0
  <2>1. T = {}
    BY <1>6, <1>9
  <2>2. latency.p50 = 0 /\ latency.p95 = 0 /\ latency.max = 0
    BY <1>5, <1>7, <1>9 DEF Percentile
  <2>3. Cardinality({i \in T : Time(i) < 0}) = 0
    <3>1. {i \in T : Time(i) < 0} = {}
      BY <2>1
    <3>2. QED BY <3>1, FS_EmptySet
  <2>4. QED BY <1>8, <1>9, <2>1, <2>2, <2>3 DEF T, latency
<1>10. CASE n # 0
  <2>1. ASSUME NEW q \in {50, 95}, NEW k \in 1..n, 100 * (k - 1) <= q * n, 100 * k > q * n
        PROVE  Divides(D[k], q, clients)
    <3>1. PICK low : low = Cardinality({i \in T : Time(i) < D[k]})
      OBVIOUS
    <3>2. PICK high : high = Cardinality({i \in T : Time(i) <= D[k]})
      OBVIOUS
    <3>3. low \in Nat /\ high \in Nat
      BY <1>2, <3>1, <3>2, FS_Subset, FS_CardinalityType
    <3>4. low <= k - 1 /\ high >= k /\ k \in Nat
      BY <1>6, <3>1, <3>2
    <3>5. 100 * low <= q * n /\ 100 * high > q * n
      BY <1>6, <2>1, <3>3, <3>4
    <3>6. QED BY <1>8, <3>1, <3>2, <3>5
  <2>0. D \in Seq(Nat) /\ D # <<>> /\ n = Len(D) /\ 50 \in {50, 95} /\ 95 \in {50, 95}
    BY <1>6, <1>7, <1>10
  <2>2. PICK k \in 1..n : IsPlace(k, D, n, 50)
    BY <2>0, PercentilePlace
  <2>3. PICK l \in 1..n : IsPlace(l, D, n, 95)
    BY <2>0, PercentilePlace
  <2>4. Divides(latency.p50, 50, clients) /\ Divides(latency.p95, 95, clients)
    BY <1>5, <2>1, <2>2, <2>3 DEF IsPlace
  <2>5. k <= l
    <3>1. \A m \in Nat : Least(m - 1, (50 * m) \div 100) <= Least(m - 1, (95 * m) \div 100)
      BY PercentileOrder
    <3>2. Least(n - 1, (50 * n) \div 100) <= Least(n - 1, (95 * n) \div 100)
      BY <1>6, <3>1
    <3>3. PICK x, y : x = Least(n - 1, (50 * n) \div 100) /\ y = Least(n - 1, (95 * n) \div 100)
      OBVIOUS
    <3>4. k = x + 1 /\ l = y + 1 /\ x <= y
      BY <2>2, <2>3, <3>2, <3>3 DEF IsPlace
    <3>5. x \in Int /\ y \in Int
      BY <1>6, <3>3 DEF Least
    <3>6. QED BY <3>4, <3>5
  <2>6. l \in k..n /\ n \in l..n /\ n \in 1..n
    BY <1>6, <1>10, <2>5
  <2>7. latency.max = D[n]
    BY <1>5, <1>6, <1>7, <1>10 DEF Last
  <2>8. D[k] <= D[l] /\ D[l] <= D[n] /\ \A i \in T : Time(i) <= D[n]
    BY <1>6, <2>6
  <2>9. QED BY <1>5, <2>2, <2>3, <2>4, <2>7, <2>8 DEF T, latency, IsPlace
<1>11. QED BY <1>9, <1>10

-----------------------------------------------------------------------------
(* What holds of the monitor.                                              *)

\* What the feed, the streams, the snapshots and the pages hold at every moment.
THEOREM MonitorInvariance == Spec => []MonitorInv
BY MonitorInvInit, MonitorInvStep, PTL DEF Spec

\* However results, restarts, malformed messages and messages read twice interleave, the
\* feed (delivery-feed.ts) is the latest results its process handled, Capacity at most.
THEOREM FeedIsAlwaysWindow == Spec => []FeedIsWindow
<1>1. MonitorInv => FeedIsWindow
  BY DEF MonitorInv, FeedInv
<1>2. QED BY <1>1, MonitorInvariance, PTL

\* The latencies of the summary (percentile in delivery-feed.ts), of all clients or of one,
\* divide the times in the feed at the shares they are named for, whatever is in the feed.
THEOREM LatencyIsAlwaysPercentile == Spec => []LatencyIsPercentile
<1>1. MonitorInv => FeedInv
  BY DEF MonitorInv
<1>2. FeedInv => LatencyIsPercentile
  BY LatencyFacts DEF LatencyIsPercentile
<1>3. QED BY <1>1, <1>2, MonitorInvariance, PTL

\* However its rows, its snapshots and its filters cross, a dashboard (index.html) whose
\* snapshots did not overlap or fail shows rows of its filter only, once none is under way.
THEOREM RowsAlwaysMatchFilter == Spec => []RowsMatchFilter
<1>1. ASSUME MonitorInv PROVE RowsMatchFilter
  <2> SUFFICES ASSUME NEW b \in Dashboards, asks[b] = <<>>, ~crossed[b], NEW i \in DOMAIN rows[b]
               PROVE  ClientOf(rows[b][i]) \in filter[b].within
    BY DEF RowsMatchFilter
  <2>1. MatchInv(b)
    BY <1>1, DashboardParts DEF MonitorInv
  <2>2. QED BY <2>1 DEF MatchInv, RowsOf
<1>2. QED BY <1>1, MonitorInvariance, PTL

\* A dashboard that took a snapshot (the handler of /api/deliveries) over an open stream
\* misses none of the latest results the stream has brought since, however results, drops
\* and prepends interleave, but for those that rows of other clients push off.
THEOREM DashboardIsAlwaysComplete == Spec => []DashboardIsComplete
<1>1. ASSUME MonitorInv PROVE DashboardIsComplete
  <2> SUFFICES ASSUME NEW b \in Dashboards, whole[b], frames[b] = <<>>,
                      NEW row \in ToSet(Recent(DefaultLimit, filter[b].exact))
               PROVE  \/ row \in ToSet(rows[b])
                      \/ Cardinality(Later(row, filter[b].within)) > MAX_ROWS - DefaultLimit
    BY DEF DashboardIsComplete
  <2>1. FeedInv /\ PageInv(b) /\ MonitorTypeOK
    BY <1>1, DashboardParts DEF MonitorInv
  <2>2. row \in Latest(filter[b].exact)
    BY <2>1, RecentIsLatest
  <2>3. Len(handled) \in Nat /\ DOMAIN handled = 1..Len(handled) /\ Shown(b) = Len(handled)
    BY <2>1, LenProperties, EmptySeq DEF FeedInv, Shown
  <2>4. row \in 1..Len(handled)
    BY <2>2, <2>3 DEF Latest, RowsOf
  <2>5. Placed(b, row)
    BY <2>1, <2>2, <2>3, <2>4 DEF PageInv
  <2>6. Pushing(b, row) = Later(row, filter[b].within)
    BY <2>3 DEF Pushing, Later, RowsOf
  <2>7. QED BY <2>5, <2>6 DEF Placed, ToSet
<1>2. QED BY <1>1, MonitorInvariance, PTL

-----------------------------------------------------------------------------
(* The operator's replays.                                                 *)

\* Whose token it is, and how long it lasts if tokens are valid for long enough.
PressInv(p) ==
  /\ press[p].step = "new" => press[p].age = 0
  /\ press[p].step # "done" => press[p].status = 0
  /\ UnderWay(p) => press[p].client \in Accounts /\ press[p].age <= MaxLatency
  /\ press[p].step \in {"issued", "post"} =>
       press[p].token \in Token /\ press[p].token.client = press[p].client
  /\ press[p].status \in {202, 409} => press[p].token.client = press[p].client
  /\ JwtTtl >= TokenTtl + 2 * MaxLatency =>
       /\ press[p].step = "issued" => press[p].token.expiresAt + press[p].age >= now + JwtTtl
       /\ press[p].step = "post" => press[p].token.expiresAt + press[p].age > now + MaxLatency
       /\ press[p].status # 401

CacheInv(c) ==
  tokens[c].expiresAt > 0 =>
    /\ tokens[c].token \in Token /\ tokens[c].token.client = c
    /\ JwtTtl >= TokenTtl + 2 * MaxLatency =>
         tokens[c].token.expiresAt >= tokens[c].expiresAt + MaxLatency

OperatorInv ==
  /\ OperatorTypeOK
  /\ \A p \in Presses : PressInv(p)
  /\ \A c \in Accounts : CacheInv(c)

LEMMA OperatorInvInit == OperatorInit => OperatorInv
<1> SUFFICES ASSUME OperatorInit PROVE OperatorInv
  OBVIOUS
<1>1. NoToken \in Token \cup {NoToken}
  OBVIOUS
<1>2. OperatorTypeOK
  BY <1>1 DEF OperatorInit, OperatorTypeOK, Press
<1>3. \A p \in Presses : PressInv(p)
  BY DEF OperatorInit, PressInv, UnderWay
<1>4. \A c \in Accounts : CacheInv(c)
  BY DEF OperatorInit, CacheInv
<1>5. QED BY <1>2, <1>3, <1>4 DEF OperatorInv

LEMMA PressTyped ==
  ASSUME OperatorTypeOK, NEW p \in Presses
  PROVE  /\ press[p] \in Press /\ press[p].age \in Nat
         /\ press[p].step \in {"new", "token", "issued", "post", "done"}
         /\ press[p].token \in Token => press[p].token.expiresAt \in Nat
BY DEF OperatorTypeOK, Press, Token

\* Every update of a press that a step makes is a press.
PressStates == {"new", "token", "issued", "post", "done"}
PressStatuses == {0, 202, 400, 401, 409, 502}

LEMMA PressStatus ==
  ASSUME NEW q \in Press, NEW s \in PressStates, NEW n \in PressStatuses
  PROVE  [q EXCEPT !.step = s, !.status = n] \in Press
<1> DEFINE u == [q EXCEPT !.step = s]
<1>1. u \in Press
  BY DEF Press, PressStates
<1>2. [q EXCEPT !.step = s, !.status = n] = [u EXCEPT !.status = n]
  BY DEF Press
<1> HIDE DEF u
<1>3. QED BY <1>1, <1>2 DEF Press, PressStatuses

LEMMA PressToken ==
  ASSUME NEW q \in Press, NEW s \in PressStates, NEW n \in Token
  PROVE  [q EXCEPT !.step = s, !.token = n] \in Press
<1> DEFINE u == [q EXCEPT !.step = s]
<1>1. u \in Press
  BY DEF Press, PressStates
<1>2. [q EXCEPT !.step = s, !.token = n] = [u EXCEPT !.token = n]
  BY DEF Press
<1> HIDE DEF u
<1>3. QED BY <1>1, <1>2 DEF Press

LEMMA PressClient ==
  ASSUME NEW q \in Press, NEW s \in PressStates, NEW n \in Accounts
  PROVE  [q EXCEPT !.step = s, !.client = n] \in Press
<1> DEFINE u == [q EXCEPT !.step = s]
<1>1. u \in Press
  BY DEF Press, PressStates
<1>2. [q EXCEPT !.step = s, !.client = n] = [u EXCEPT !.client = n]
  BY DEF Press
<1> HIDE DEF u
<1>3. QED BY <1>1, <1>2 DEF Press

LEMMA PressAge ==
  ASSUME NEW q \in Press, NEW s \in PressStates, NEW n \in Nat
  PROVE  [q EXCEPT !.step = s, !.age = n] \in Press
<1> DEFINE u == [q EXCEPT !.step = s]
<1>1. u \in Press
  BY DEF Press, PressStates
<1>2. [q EXCEPT !.step = s, !.age = n] = [u EXCEPT !.age = n]
  BY DEF Press
<1> HIDE DEF u
<1>3. QED BY <1>1, <1>2 DEF Press

LEMMA PressClientToken ==
  ASSUME NEW q \in Press, NEW s \in PressStates, NEW a \in Accounts, NEW t \in Token
  PROVE  [q EXCEPT !.step = s, !.client = a, !.token = t] \in Press
<1> DEFINE u == [q EXCEPT !.step = s, !.client = a]
<1>1. u \in Press
  BY PressClient
<1>2. [q EXCEPT !.step = s, !.client = a, !.token = t] = [u EXCEPT !.token = t]
  BY DEF Press
<1> HIDE DEF u
<1>3. QED BY <1>1, <1>2 DEF Press

\* What a step does to the press it is about.
LEMMA PressStep ==
  ASSUME OperatorInv, NEW p \in Presses, NEW c \in Press, press' = [press EXCEPT ![p] = c],
         now' = now, tokens' \in [Accounts -> [token : Token \cup {NoToken}, expiresAt : Nat]],
         PressInv(p)', \A d \in Accounts : CacheInv(d)'
  PROVE  OperatorInv'
<1>1. OperatorTypeOK'
  BY DEF OperatorInv, OperatorTypeOK
<1>2. ASSUME NEW q \in Presses, q # p PROVE PressInv(q)'
  <2>1. press'[q] = press[q]
    BY <1>2 DEF OperatorInv, OperatorTypeOK
  <2>2. QED BY <2>1 DEF OperatorInv, PressInv, UnderWay
<1>3. QED BY <1>1, <1>2 DEF OperatorInv

LEMMA OperatorInvStep == OperatorInv /\ [OperatorNext]_operator => OperatorInv'
<1> SUFFICES ASSUME OperatorInv, [OperatorNext]_operator PROVE OperatorInv'
  OBVIOUS
<1> USE OperatorAssumption
<1>1. /\ OperatorTypeOK /\ now \in Nat /\ DOMAIN press = Presses
      /\ tokens \in [Accounts -> [token : Token \cup {NoToken}, expiresAt : Nat]]
  BY DEF OperatorInv, OperatorTypeOK
<1>2. ASSUME tokens' = tokens PROVE \A d \in Accounts : CacheInv(d)'
  BY <1>2 DEF OperatorInv, CacheInv
<1>3. ASSUME NEW p \in Presses, BadRequest(p) PROVE OperatorInv'
  <2> DEFINE c == [press[p] EXCEPT !.step = "done", !.status = 400]
  <2>1. press' = [press EXCEPT ![p] = c] /\ now' = now /\ tokens' = tokens
    BY <1>1, <1>3, ZenonT(60) DEF BadRequest
  <2>2. c \in Press /\ c.step = "done" /\ c.status = 400
    <3>1. press[p] \in Press
      BY <1>1, PressTyped
    <3>4. "done" \in PressStates /\ 400 \in PressStatuses
      BY DEF PressStates, PressStatuses
    <3>2. c \in Press
      BY <3>1, <3>4, PressStatus, ZenonT(60)
    <3>3. QED BY <3>1, <3>2 DEF Press
  <2> HIDE DEF c
  <2>3. PressInv(p)'
    BY <1>1, <2>1, <2>2 DEF PressInv, UnderWay
  <2>4. QED BY <1>1, <1>2, <2>1, <2>2, <2>3, PressStep
<1>4. ASSUME NEW p \in Presses, PressReplay(p) PROVE OperatorInv'
  <2>1. PICK a \in Accounts :
          IF tokens[a].expiresAt > now
            THEN press' = [press EXCEPT ![p].step = "post", ![p].client = a,
                                        ![p].token = tokens[a].token]
            ELSE press' = [press EXCEPT ![p].step = "token", ![p].client = a]
    BY <1>4 DEF PressReplay
  <2>2. press[p] \in Press /\ press[p].age = 0 /\ now' = now /\ tokens' = tokens
        /\ press[p].status = 0 /\ PressInv(p)
    BY <1>1, <1>4, PressTyped DEF PressReplay, OperatorInv, PressInv
  <2>3. CASE tokens[a].expiresAt > now
    <3> DEFINE c == [press[p] EXCEPT !.step = "post", !.client = a, !.token = tokens[a].token]
    <3>1. press' = [press EXCEPT ![p] = c]
      BY <1>1, <2>1, <2>3
    <3>2. /\ tokens[a].token \in Token /\ tokens[a].token.client = a
          /\ tokens[a].expiresAt \in Nat /\ tokens[a].token.expiresAt \in Nat
          /\ JwtTtl >= TokenTtl + 2 * MaxLatency =>
               tokens[a].token.expiresAt >= tokens[a].expiresAt + MaxLatency
      <4>1. CacheInv(a) /\ tokens[a].expiresAt \in Nat
        BY <1>1 DEF OperatorInv
      <4>2. tokens[a].expiresAt > 0
        BY <1>1, <2>3, <4>1
      <4>3. QED BY <4>1, <4>2 DEF CacheInv, Token
    <3>3. /\ c \in Press /\ c.step = "post" /\ c.client = a /\ c.token = tokens[a].token
          /\ c.age = 0 /\ c.status = press[p].status
      <4>1. c \in Press
        BY <2>2, <3>2, PressClientToken DEF PressStates
      <4>2. QED BY <2>2, <4>1 DEF Press
    <3> HIDE DEF c
    <3>4. press'[p] = c
      BY <1>1, <3>1
    <3>5. JwtTtl >= TokenTtl + 2 * MaxLatency => c.token.expiresAt + c.age > now + MaxLatency
      BY <1>1, <2>3, <3>2, <3>3
    <3>6. PressInv(p)'
      BY <2>2, <3>2, <3>3, <3>4, <3>5 DEF PressInv, UnderWay
    <3>7. QED BY <1>1, <1>2, <2>2, <3>1, <3>3, <3>6, PressStep
  <2>4. CASE ~(tokens[a].expiresAt > now)
    <3> DEFINE c == [press[p] EXCEPT !.step = "token", !.client = a]
    <3>1. press' = [press EXCEPT ![p] = c]
      BY <1>1, <2>1, <2>4
    <3>2. /\ c \in Press /\ c.step = "token" /\ c.client = a /\ c.token = press[p].token
          /\ c.age = 0 /\ c.status = press[p].status
      <4>1. c \in Press
        BY <2>2, PressClient DEF PressStates
      <4>2. QED BY <2>2, <4>1 DEF Press
    <3> HIDE DEF c
    <3>3. press'[p] = c
      BY <1>1, <3>1
    <3>4. PressInv(p)'
      BY <2>2, <3>2, <3>3 DEF PressInv, UnderWay
    <3>5. QED BY <1>1, <1>2, <2>2, <3>1, <3>2, <3>4, PressStep
  <2>5. QED BY <2>3, <2>4

<1>5. ASSUME NEW p \in Presses, IssueToken(p) PROVE OperatorInv'
  <2> DEFINE t == [client |-> press[p].client, expiresAt |-> now + JwtTtl]
             c == [press[p] EXCEPT !.step = "issued", !.token = t]
  <2>1. /\ press[p] \in Press /\ press[p].age \in Nat /\ now' = now /\ tokens' = tokens
        /\ PressInv(p) /\ press[p].step = "token"
    BY <1>1, <1>5, PressTyped DEF IssueToken, OperatorInv
  <2>2. press' = [press EXCEPT ![p] = c]
    BY <1>1, <1>5 DEF IssueToken
  <2>3. press[p].client \in Accounts /\ press[p].age <= MaxLatency /\ press[p].status = 0
    BY <2>1 DEF PressInv, UnderWay
  <2>4. t \in Token /\ t.client = press[p].client /\ t.expiresAt = now + JwtTtl
    BY <1>1, <2>3 DEF Token
  <2> HIDE DEF t
  <2>5. /\ c \in Press /\ c.step = "issued" /\ c.client = press[p].client /\ c.token = t
        /\ c.age = press[p].age /\ c.status = 0
    <3>1. c \in Press
      BY <2>1, <2>3, <2>4, PressToken DEF PressStates
    <3>2. QED BY <2>1, <2>3, <2>4, <3>1 DEF Press
  <2> HIDE DEF c
  <2>6. press'[p] = c /\ c.token.expiresAt + c.age >= now + JwtTtl
    BY <1>1, <2>1, <2>2, <2>4, <2>5
  <2>7. PressInv(p)'
    BY <2>1, <2>3, <2>4, <2>5, <2>6 DEF PressInv, UnderWay
  <2>8. QED BY <1>1, <1>2, <2>1, <2>2, <2>5, <2>7, PressStep
<1>6. ASSUME NEW p \in Presses, TakeToken(p) PROVE OperatorInv'
  <2> DEFINE c == [press[p] EXCEPT !.step = "post", !.age = 0]
             a == press[p].client
             e == [token |-> press[p].token, expiresAt |-> now + TokenTtl]
  <2>1. /\ press[p] \in Press /\ press[p].age \in Nat /\ now' = now
        /\ PressInv(p) /\ press[p].step = "issued" /\ tokens' = [tokens EXCEPT ![a] = e]
    BY <1>1, <1>6, PressTyped DEF TakeToken, OperatorInv
  <2>2. press' = [press EXCEPT ![p] = c]
    BY <1>1, <1>6 DEF TakeToken
  <2>3. /\ a \in Accounts /\ press[p].age <= MaxLatency /\ press[p].status = 0
        /\ press[p].token \in Token /\ press[p].token.client = a
        /\ press[p].token.expiresAt \in Nat
    BY <1>1, <2>1, PressTyped DEF PressInv, UnderWay
  <2>4. JwtTtl >= TokenTtl + 2 * MaxLatency
          => press[p].token.expiresAt + press[p].age >= now + JwtTtl
    BY <2>1 DEF PressInv
  <2>5. /\ c \in Press /\ c.step = "post" /\ c.client = a /\ c.token = press[p].token
        /\ c.age = 0 /\ c.status = 0
    <3>1. c \in Press
      BY <2>1, <2>3, PressAge DEF PressStates
    <3>2. QED BY <2>1, <2>3, <3>1 DEF Press
  <2>6. /\ e \in [token : Token \cup {NoToken}, expiresAt : Nat] /\ e.token = press[p].token
        /\ e.expiresAt = now + TokenTtl
    BY <1>1, <2>3
  <2> HIDE DEF c, a, e
  <2>7. JwtTtl >= TokenTtl + 2 * MaxLatency
          => /\ press[p].token.expiresAt > now + MaxLatency
             /\ press[p].token.expiresAt >= (now + TokenTtl) + MaxLatency
    BY <1>1, <2>1, <2>3, <2>4
  <2>8. press'[p] = c
    BY <1>1, <2>2
  <2>9. PressInv(p)'
    BY <1>1, <2>1, <2>3, <2>5, <2>7, <2>8 DEF PressInv, UnderWay
  <2>10. tokens' \in [Accounts -> [token : Token \cup {NoToken}, expiresAt : Nat]]
    BY <1>1, <2>1, <2>3, <2>6
  <2>11. ASSUME NEW d \in Accounts PROVE CacheInv(d)'
    <3>1. CASE d = a
      <4>1. tokens'[d] = e
        BY <1>1, <2>1, <3>1
      <4>2. QED BY <2>3, <2>6, <2>7, <3>1, <4>1 DEF CacheInv
    <3>2. CASE d # a
      <4>1. tokens'[d] = tokens[d]
        BY <1>1, <2>1, <3>2
      <4>2. QED BY <4>1 DEF OperatorInv, CacheInv
    <3>3. QED BY <3>1, <3>2
  <2>12. QED BY <2>1, <2>2, <2>5, <2>9, <2>10, <2>11, PressStep
<1>7. ASSUME NEW p \in Presses, Replayed(p) PROVE OperatorInv'
  <2>1. /\ press[p] \in Press /\ press[p].age \in Nat /\ now' = now /\ tokens' = tokens
        /\ PressInv(p) /\ press[p].step = "post"
    BY <1>1, <1>7, PressTyped DEF Replayed, OperatorInv
  <2>2. PICK answer \in {202, 401, 409} :
          /\ answer = 401 <=> press[p].token.expiresAt <= now
          /\ press' = [press EXCEPT ![p].step = "done", ![p].status = answer]
    BY <1>7 DEF Replayed
  <2>3. /\ press[p].token \in Token /\ press[p].token.client = press[p].client
        /\ press[p].token.expiresAt \in Nat /\ press[p].age <= MaxLatency
    BY <1>1, <2>1, PressTyped DEF PressInv, UnderWay
  <2>4. JwtTtl >= TokenTtl + 2 * MaxLatency => press[p].token.expiresAt > now
    <3>1. JwtTtl >= TokenTtl + 2 * MaxLatency
            => press[p].token.expiresAt + press[p].age > now + MaxLatency
      BY <2>1 DEF PressInv
    <3>2. QED BY <1>1, <2>1, <2>3, <3>1
  <2> DEFINE c == [press[p] EXCEPT !.step = "done", !.status = answer]
  <2>5. press' = [press EXCEPT ![p] = c]
    BY <1>1, <2>2
  <2>6. /\ c \in Press /\ c.step = "done" /\ c.client = press[p].client
        /\ c.token = press[p].token /\ c.status = answer /\ c.age = press[p].age
    <3> DEFINE u == [press[p] EXCEPT !.step = "done"]
    <3>1. u \in Press
      BY <2>1 DEF Press
    <3>2. c \in Press
      <4>1. c = [u EXCEPT !.status = answer]
        BY <2>1 DEF Press
      <4> HIDE DEF u, c
      <4>2. QED BY <3>1, <4>1 DEF Press
    <3>3. QED BY <2>1, <2>2, <3>2 DEF Press
  <2> HIDE DEF c
  <2>7. JwtTtl >= TokenTtl + 2 * MaxLatency => answer # 401
    BY <1>1, <2>2, <2>3, <2>4
  <2>8. press'[p] = c
    BY <1>1, <2>5
  <2>9. PressInv(p)'
    BY <2>1, <2>3, <2>6, <2>7, <2>8 DEF PressInv, UnderWay
  <2>10. QED BY <1>1, <1>2, <2>1, <2>5, <2>6, <2>9, PressStep
<1>8. ASSUME NEW p \in Presses, Unavailable(p) PROVE OperatorInv'
  <2> DEFINE c == [press[p] EXCEPT !.step = "done", !.status = 502]
  <2>1. press' = [press EXCEPT ![p] = c] /\ now' = now /\ tokens' = tokens
    BY <1>1, <1>8, ZenonT(60) DEF Unavailable
  <2>2. c \in Press /\ c.step = "done" /\ c.status = 502
    <3>1. press[p] \in Press
      BY <1>1, PressTyped
    <3>4. "done" \in PressStates /\ 502 \in PressStatuses
      BY DEF PressStates, PressStatuses
    <3>2. c \in Press
      BY <3>1, <3>4, PressStatus, ZenonT(60)
    <3>3. QED BY <3>1, <3>2 DEF Press
  <2> HIDE DEF c
  <2>3. PressInv(p)'
    BY <1>1, <2>1, <2>2 DEF PressInv, UnderWay
  <2>4. QED BY <1>1, <1>2, <2>1, <2>2, <2>3, PressStep
<1>9. CASE Tick
  <2>1. now' = now + 1 /\ tokens' = tokens
    BY <1>9 DEF Tick
  <2>2. ASSUME NEW p \in Presses PROVE press'[p] \in Press /\ PressInv(p)'
    <3>1. press[p] \in Press /\ press[p].age \in Nat /\ PressInv(p)
          /\ (press[p].token \in Token => press[p].token.expiresAt \in Nat)
      BY <1>1, PressTyped DEF OperatorInv
    <3>2. CASE UnderWay(p)
      <4> DEFINE c == [press[p] EXCEPT !.age = @ + 1]
      <4>1. press'[p] = c /\ press[p].age < MaxLatency
        BY <1>9, <3>2 DEF Tick
      <4>2. /\ c \in Press /\ c.step = press[p].step /\ c.client = press[p].client
            /\ c.token = press[p].token /\ c.status = press[p].status
            /\ c.age = press[p].age + 1
        BY <3>1 DEF Press
      <4> HIDE DEF c
      <4>3. c.age <= MaxLatency
        BY <3>1, <4>1, <4>2
      <4>4. press[p].step \in {"token", "issued", "post"}
        BY <3>2 DEF UnderWay
      <4>5. JwtTtl >= TokenTtl + 2 * MaxLatency =>
              /\ c.step = "issued" => c.token.expiresAt + c.age >= (now + 1) + JwtTtl
              /\ c.step = "post" => c.token.expiresAt + c.age > (now + 1) + MaxLatency
        BY <1>1, <3>1, <4>2 DEF PressInv
      <4>6. QED BY <2>1, <3>1, <3>2, <4>1, <4>2, <4>3, <4>4, <4>5 DEF PressInv, UnderWay
    <3>3. CASE ~UnderWay(p)
      <4>1. press'[p] = press[p]
        BY <1>9, <3>3 DEF Tick
      <4>2. QED BY <3>1, <3>3, <4>1 DEF PressInv, UnderWay
    <3>4. QED BY <3>2, <3>3
  <2>3. press' \in [Presses -> Press]
    BY <1>9, <2>2 DEF Tick
  <2>4. OperatorTypeOK'
    BY <1>1, <2>1, <2>3 DEF OperatorTypeOK
  <2>5. QED BY <1>2, <2>1, <2>2, <2>4 DEF OperatorInv
<1>10. CASE UNCHANGED operator
  BY <1>10 DEF operator, OperatorInv, OperatorTypeOK, PressInv, CacheInv, UnderWay
<1>11. QED
  BY <1>3, <1>4, <1>5, <1>6, <1>7, <1>8, <1>9, <1>10 DEF OperatorNext

\* What the cached tokens and the presses of the replay button hold at every moment
\* (replay-client.ts): a token asked for is the client's of the row, and young enough.
THEOREM OperatorInvariance == OperatorSpec => []OperatorInv
BY OperatorInvInit, OperatorInvStep, PTL DEF OperatorSpec

\* However presses, calls and the clock interleave, the token cache (tokenFor of
\* replay-client.ts) never makes the API refuse a token, as long as JWT_TTL_SECONDS exceeds
\* TOKEN_TTL_MS by two calls.
THEOREM OperatorIsNeverRefused == OperatorSpec => []OperatorIsNotRefused
<1>1. OperatorInv => OperatorIsNotRefused
  BY DEF OperatorInv, PressInv, OperatorIsNotRefused
<1>2. QED BY <1>1, OperatorInvariance, PTL

\* The token a replay is asked for with (replay-client.ts) is that of the row's client.
THEOREM ReplayIsAlwaysClients == OperatorSpec => []ReplayIsClients
<1>1. OperatorInv => ReplayIsClients
  BY DEF OperatorInv, PressInv, ReplayIsClients
<1>2. QED BY <1>1, OperatorInvariance, PTL

\* Each of the two moves while the other rests, so what holds of both holds of the pair.
LEMMA ServiceInvStep ==
  MonitorInv /\ OperatorInv /\ [ServiceNext]_<<vars, operator, focus>>
    => (MonitorInv /\ OperatorInv)'
<1> SUFFICES ASSUME MonitorInv, OperatorInv, [ServiceNext]_<<vars, operator, focus>>
             PROVE  (MonitorInv /\ OperatorInv)'
  OBVIOUS
<1>1. [Next]_vars /\ [OperatorNext]_operator
  BY DEF ServiceNext
<1>2. QED BY <1>1, MonitorInvStep, OperatorInvStep

\* Every variable of the monitor, of its dashboards and of an operator's replays keeps its
\* type; so what is handled is readable, and a cached token is a client's.
THEOREM ServiceTypeCorrect == ServiceSpec => []ServiceTypeOK
<1>1. ServiceInit => MonitorInv /\ OperatorInv
  BY MonitorInvInit, OperatorInvInit DEF ServiceInit
<1>2. MonitorInv /\ OperatorInv => ServiceTypeOK
  BY DEF MonitorInv, OperatorInv, ServiceTypeOK
<1>3. QED BY <1>1, <1>2, ServiceInvStep, PTL DEF ServiceSpec

=============================================================================

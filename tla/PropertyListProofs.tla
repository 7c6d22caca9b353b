-------------------------- MODULE PropertyListProofs --------------------------
(***************************************************************************)
(* The safety of listing for every table, every width of an int and every  *)
(* page size.  The argument is about positions: a row moves away from the  *)
(* front of the list by one for each row that is created before it, and it *)
(* never moves back.                                                       *)
(***************************************************************************)
EXTENDS PropertyList, FiniteSetTheorems, FunctionTheorems, SequenceTheorems, TLAPS

RangeOf(s) == {s[n] : n \in DOMAIN s}

\* The rows before and at i, in the order of the list.
UpTo(t, f, i) ==
    {j \in Matching(t, f) :
        \/ t[j].createdAt > t[i].createdAt
        \/ t[j].createdAt = t[i].createdAt /\ j >= i}
RankIn(t, f, i) == Cardinality(UpTo(t, f, i))

All == Matching(rows, filter)

\* What the reader has seen: of an answered request the page is in read already.
Seen == IF pc = "answered" THEN read ELSE read \o items

\* The positions before the page, and those of all pages so far.
Before == (page - 1) * size
Covered == Before + Len(items)

Live == pc \in {"asking", "answered"}

-----------------------------------------------------------------------------
(* The invariant.                                                          *)

Types ==
    /\ rows \in [DOMAIN rows -> Table!Row] /\ DOMAIN rows \subseteq Ids
    /\ pc \in {"idle", "asking", "answered", "refused", "failed"}
    /\ filter \in FilterParam
    /\ page \in 1..MaxInt
    /\ size \in 1..MaxPageSize
    /\ running \subseteq {"scan", "count"}
    /\ items \in Seq(Ids) /\ Len(items) <= size
    /\ total \in 0..Cardinality(Ids)
    /\ quiet \in BOOLEAN
    /\ base \subseteq Ids
    /\ read \in Seq(Ids)

ControlOK ==
    /\ pc = "asking" <=> running # {}
    /\ pc = "idle" => read = <<>> /\ base = {}
    /\ pc = "idle" \/ "scan" \in running => items = <<>>

\* With filters on columns that never change, a row that was there, or was
\* seen, still matches.
StableOK == filter.status = AnyValue => base \cup RangeOf(Seen) \subseteq All

\* A reading from the first page on: what was there and is not yet seen is
\* behind the pages so far, and there are pages to come.
SkippedOK ==
    filter.status = AnyValue /\ Live /\ Len(Seen) = Covered =>
        /\ Covered <= Cardinality(All)
        /\ \A i \in base :
              \/ i \in RangeOf(Seen)
              \/ /\ "scan" \in running \/ Len(items) = size
                 /\ RankIn(rows, filter, i) > Covered

\* The rows that were seen and have been pushed behind the pages so far: they
\* will be seen again.
Pushed == {i \in RangeOf(Seen) : RankIn(rows, filter, i) > Covered}

\* Repetitions, those to come included, are paid for by rows that came in.
RepeatsOK ==
    filter.status = AnyValue /\ InRange =>
        Len(Seen) + Cardinality(Pushed)
            <= Cardinality(RangeOf(Seen)) + Cardinality(All \ base)

\* Without a write what a statement found still is what the table says.
QuietOK ==
    quiet /\ InRange =>
        LET n == Cardinality(All)
        IN  /\ pc # "refused"
            /\ Live /\ "count" \notin running => total = n
            /\ Live /\ "scan" \notin running =>
                  /\ Len(items) = IF n <= Before THEN 0
                                  ELSE IF n < Before + size THEN n - Before ELSE size
                  /\ \A p \in DOMAIN items :
                        items[p] \in All /\ RankIn(rows, filter, items[p]) = Before + p

IInv == Types /\ ControlOK /\ StableOK /\ SkippedOK /\ RepeatsOK /\ QuietOK

-----------------------------------------------------------------------------
(* Integers.                                                               *)

\* The width of an int is enough for pages and for the table.
LEMMA IntLemma ==
    /\ MaxInt \in Nat /\ MaxInt >= 1
    /\ \A n \in Int : n < 2^(IntBits - 1) <=> n <= MaxInt
    /\ MaxPageSize \in Nat /\ DefaultPageSize \in 1..MaxPageSize
    /\ Cardinality(Ids) \in Nat /\ Cardinality(Ids) <= MaxInt
    /\ 2^IntBits = 2 * (MaxInt + 1)
<1>1. PICK n : n = 2^(IntBits - 1)
  OBVIOUS
<1>2. n \in Nat /\ MaxPageSize < n /\ MaxPageSize \in Nat \ {0} /\ MaxInt = n - 1
      /\ DefaultPageSize \in 1..MaxPageSize
  BY <1>1, SizeAssumption, WidthAssumption DEF MaxInt
<1>3. Cardinality(Ids) < n /\ Cardinality(Ids) \in Nat
  BY <1>1, IdsAssumption, FS_CardinalityType
<1>4. 2^IntBits = 2 * n
  BY <1>1, WidthAssumption
<1> QED BY <1>1, <1>2, <1>3, <1>4

\* An offset that is an int is not changed by being one.
LEMMA WrapLemma == ASSUME NEW n \in 0..MaxInt PROVE Wrap(n) = n
<1>1. PICK w : w = 2^IntBits
  OBVIOUS
<1>2. MaxInt \in Nat /\ w = 2 * (MaxInt + 1)
  BY <1>1, IntLemma
<1>3. Wrap(n) = ((n + MaxInt + 1) % w) - MaxInt - 1
  BY <1>1 DEF Wrap
<1>4. (n + MaxInt + 1) % w = n + MaxInt + 1
  BY <1>2
<1> QED BY <1>2, <1>3, <1>4

\* Any offset is an int.
LEMMA WrapTypeLemma == ASSUME NEW n \in Int PROVE Wrap(n) \in Int
<1>1. PICK w : w = 2^IntBits
  OBVIOUS
<1>2. MaxInt \in Nat /\ w = 2 * (MaxInt + 1)
  BY <1>1, IntLemma
<1>3. Wrap(n) = ((n + MaxInt + 1) % w) - MaxInt - 1
  BY <1>1 DEF Wrap
<1>4. (n + MaxInt + 1) % w \in Int
  BY <1>2
<1> QED BY <1>2, <1>3, <1>4

-----------------------------------------------------------------------------
(* Sequences and what is in them.                                          *)

\* There are n numbers from one to n.
LEMMA FirstLemma ==
    ASSUME NEW n \in Nat PROVE IsFiniteSet(1..n) /\ Cardinality(1..n) = n
  BY FS_Interval

\* A sequence has no more elements than places.
LEMMA RangeLemma ==
    ASSUME NEW S, NEW s \in Seq(S)
    PROVE  /\ RangeOf(s) \subseteq S /\ IsFiniteSet(RangeOf(s))
           /\ Cardinality(RangeOf(s)) \in Nat /\ Cardinality(RangeOf(s)) <= Len(s)
<1>1. s \in [1..Len(s) -> S] /\ Len(s) \in Nat /\ DOMAIN s = 1..Len(s)
  OBVIOUS
<1>2. s \in Surjection(1..Len(s), RangeOf(s))
  BY <1>1, Fun_IsSurj DEF RangeOf
<1>3. IsFiniteSet(1..Len(s)) /\ Cardinality(1..Len(s)) = Len(s)
  BY <1>1, FirstLemma
<1>4. IsFiniteSet(RangeOf(s)) /\ Cardinality(RangeOf(s)) <= Len(s)
  BY <1>2, <1>3, FS_Surjection
<1>5. RangeOf(s) \subseteq S
  BY <1>1 DEF RangeOf
<1> QED BY <1>4, <1>5, FS_CardinalityType

\* Joined sequences have the elements of both.
LEMMA JoinLemma ==
    ASSUME NEW S, NEW s \in Seq(S), NEW t \in Seq(S)
    PROVE  /\ s \o t \in Seq(S) /\ Len(s \o t) = Len(s) + Len(t)
           /\ RangeOf(s \o t) = RangeOf(s) \cup RangeOf(t)
<1>1. /\ s \o t \in Seq(S) /\ Len(s \o t) = Len(s) + Len(t)
      /\ Len(s) \in Nat /\ Len(t) \in Nat
      /\ DOMAIN s = 1..Len(s) /\ DOMAIN t = 1..Len(t) /\ DOMAIN (s \o t) = 1..(Len(s) + Len(t))
      /\ \A n \in 1..(Len(s) + Len(t)) :
            (s \o t)[n] = IF n <= Len(s) THEN s[n] ELSE t[n - Len(s)]
  OBVIOUS
<1>2. ASSUME NEW x \in RangeOf(s) PROVE x \in RangeOf(s \o t)
  <2>1. PICK n \in 1..Len(s) : s[n] = x
    BY <1>1 DEF RangeOf
  <2>2. n \in 1..(Len(s) + Len(t)) /\ (s \o t)[n] = x
    BY <1>1, <2>1
  <2> QED BY <1>1, <2>2 DEF RangeOf
<1>3. ASSUME NEW x \in RangeOf(t) PROVE x \in RangeOf(s \o t)
  <2>1. PICK n \in 1..Len(t) : t[n] = x
    BY <1>1 DEF RangeOf
  <2>2. Len(s) + n \in 1..(Len(s) + Len(t)) /\ (s \o t)[Len(s) + n] = x
    BY <1>1, <2>1
  <2> QED BY <1>1, <2>2 DEF RangeOf
<1>4. ASSUME NEW x \in RangeOf(s \o t) PROVE x \in RangeOf(s) \cup RangeOf(t)
  <2>1. PICK n \in 1..(Len(s) + Len(t)) : (s \o t)[n] = x
    BY <1>1 DEF RangeOf
  <2>2. CASE n <= Len(s)
    BY <1>1, <2>1, <2>2 DEF RangeOf
  <2>3. CASE ~(n <= Len(s))
    <3>1. n - Len(s) \in 1..Len(t) /\ t[n - Len(s)] = x
      BY <1>1, <2>1, <2>3
    <3> QED BY <1>1, <3>1 DEF RangeOf
  <2> QED BY <2>2, <2>3
<1> QED BY <1>1, <1>2, <1>3, <1>4

\* One more element is one more at most.
LEMMA AddLemma ==
    ASSUME NEW S, IsFiniteSet(S), NEW x
    PROVE  /\ IsFiniteSet(S \cup {x}) /\ Cardinality(S \cup {x}) \in Nat
           /\ Cardinality(S \cup {x}) <= Cardinality(S) + 1
           /\ x \notin S => Cardinality(S \cup {x}) = Cardinality(S) + 1
<1>1. Cardinality(S) \in Nat
  BY FS_CardinalityType
<1>2. IsFiniteSet(S \cup {x})
      /\ Cardinality(S \cup {x}) = IF x \in S THEN Cardinality(S) ELSE Cardinality(S) + 1
  BY FS_AddElement
<1> QED BY <1>1, <1>2

-----------------------------------------------------------------------------
(* Positions.                                                              *)

\* A table: what the rows are matters only for their place in the list.
IsTable(t) ==
    DOMAIN t \subseteq Ids /\ \A i \in DOMAIN t : t[i].createdAt \in Nat

\* The rows that match are finite in number.
LEMMA MatchingLemma ==
    ASSUME NEW t, IsTable(t), NEW f
    PROVE  /\ Matching(t, f) \subseteq DOMAIN t /\ Matching(t, f) \subseteq Ids
           /\ IsFiniteSet(Matching(t, f))
           /\ Cardinality(Matching(t, f)) \in Nat
           /\ Cardinality(Matching(t, f)) <= Cardinality(Ids)
<1>1. Matching(t, f) \subseteq DOMAIN t /\ Matching(t, f) \subseteq Ids
  BY DEF Matching, IsTable
<1>2. Matching(t, f) \in SUBSET Ids
  BY <1>1
<1> QED BY <1>1, <1>2, IdsAssumption, FS_Subset, FS_CardinalityType

\* So are those up to one of them, and that one is among them.
LEMMA RankLemma ==
    ASSUME NEW t, IsTable(t), NEW f, NEW i
    PROVE  /\ UpTo(t, f, i) \subseteq Matching(t, f)
           /\ IsFiniteSet(UpTo(t, f, i))
           /\ RankIn(t, f, i) \in Nat
           /\ i \in Matching(t, f) => i \in UpTo(t, f, i) /\ RankIn(t, f, i) >= 1
<1>1. UpTo(t, f, i) \in SUBSET Matching(t, f)
  BY DEF UpTo
<1>2. IsFiniteSet(UpTo(t, f, i)) /\ RankIn(t, f, i) \in Nat
  BY <1>1, MatchingLemma, FS_Subset, FS_CardinalityType DEF RankIn
<1>3. ASSUME i \in Matching(t, f) PROVE i \in UpTo(t, f, i) /\ RankIn(t, f, i) >= 1
  <2>1. i \in DOMAIN t /\ i \in Nat
    BY <1>3, MatchingLemma, IdsAssumption
  <2>2. i \in UpTo(t, f, i)
    BY <1>3, <2>1 DEF UpTo
  <2>3. RankIn(t, f, i) # 0
    BY <1>2, <2>2, FS_EmptySet DEF RankIn
  <2> QED BY <1>2, <2>2, <2>3
<1> QED BY <1>1, <1>2, <1>3

\* What is up to a row is up to every row behind it.
LEMMA NestLemma ==
    ASSUME NEW t, IsTable(t), NEW f,
           NEW i \in Matching(t, f), NEW j \in Matching(t, f),
           t[i].createdAt > t[j].createdAt \/ (t[i].createdAt = t[j].createdAt /\ i >= j)
    PROVE  UpTo(t, f, i) \subseteq UpTo(t, f, j)
<1> SUFFICES ASSUME NEW k \in UpTo(t, f, i) PROVE k \in UpTo(t, f, j)
  OBVIOUS
<1>1. k \in Matching(t, f)
  BY DEF UpTo
<1>2. \A x \in Matching(t, f) : x \in Nat /\ t[x].createdAt \in Nat
  BY MatchingLemma, IdsAssumption DEF IsTable
<1> QED BY <1>1, <1>2 DEF UpTo

\* No two rows are in one place: the id decides between rows of one time.
LEMMA DistinctLemma ==
    ASSUME NEW t, IsTable(t), NEW f,
           NEW i \in Matching(t, f), NEW j \in Matching(t, f),
           RankIn(t, f, i) = RankIn(t, f, j)
    PROVE  i = j
<1>1. i \in Nat /\ j \in Nat /\ i \in DOMAIN t /\ j \in DOMAIN t
  BY MatchingLemma, IdsAssumption
<1>2. t[i].createdAt \in Nat /\ t[j].createdAt \in Nat
  BY <1>1 DEF IsTable
<1>3. UpTo(t, f, i) \subseteq UpTo(t, f, j) \/ UpTo(t, f, j) \subseteq UpTo(t, f, i)
  <2>1. \/ t[i].createdAt > t[j].createdAt
        \/ t[i].createdAt = t[j].createdAt /\ i >= j
        \/ t[j].createdAt > t[i].createdAt
        \/ t[j].createdAt = t[i].createdAt /\ j >= i
    BY <1>1, <1>2
  <2> QED BY <2>1, NestLemma
<1>4. UpTo(t, f, i) = UpTo(t, f, j)
  <2>1. CASE UpTo(t, f, i) \subseteq UpTo(t, f, j)
    <3>1. UpTo(t, f, i) \in SUBSET UpTo(t, f, j)
      BY <2>1
    <3> QED BY <3>1, RankLemma, FS_Subset DEF RankIn
  <2>2. CASE UpTo(t, f, j) \subseteq UpTo(t, f, i)
    <3>1. UpTo(t, f, j) \in SUBSET UpTo(t, f, i)
      BY <2>2
    <3> QED BY <3>1, RankLemma, FS_Subset DEF RankIn
  <2> QED BY <1>3, <2>1, <2>2
<1>5. i \in UpTo(t, f, j) /\ j \in UpTo(t, f, i)
  BY <1>4, RankLemma
<1> QED BY <1>1, <1>2, <1>5 DEF UpTo

\* In whatever order Postgres returns them, each row is in its place.
LEMMA OrderLemma ==
    ASSUME IsTable(rows), NEW o \in Orders(All)
    PROVE  /\ o \in [1..Cardinality(All) -> All]
           /\ \A n \in 1..Cardinality(All) : RankIn(rows, filter, o[n]) = n
           /\ \A i \in All : \E n \in 1..Cardinality(All) : o[n] = i
<1> DEFINE N == Cardinality(All)
<1>1. IsFiniteSet(All) /\ N \in Nat
  BY MatchingLemma DEF All
<1>2. o \in [1..N -> All] /\ DOMAIN o = 1..N
  BY DEF Orders
<1>3. \A q \in 1..N : \A p \in 1..(q - 1) : o[p] # o[q] /\ ~Precedes(o[q], o[p])
  BY <1>2 DEF Orders
<1> HIDE DEF N
<1>4. ASSUME NEW p \in 1..N, NEW q \in 1..N, p < q
      PROVE  o[p] # o[q] /\ ~Precedes(o[q], o[p])
  <2>1. p \in 1..(q - 1)
    BY <1>1, <1>4
  <2> QED BY <1>3, <2>1
<1>5. \A p, q \in 1..N : o[p] = o[q] => p = q
  <2> SUFFICES ASSUME NEW p \in 1..N, NEW q \in 1..N, o[p] = o[q], p # q PROVE FALSE
    OBVIOUS
  <2>1. p < q \/ q < p
    BY <1>1
  <2> QED BY <1>4, <2>1
<1>6. o \in Injection(1..N, All)
  BY <1>2, <1>5, Fun_IsInj
<1>7. \A i \in All : \E n \in 1..N : o[n] = i
  <2>1. IsFiniteSet(1..N) /\ Cardinality(1..N) = N
    BY <1>1, FirstLemma
  <2>2. o \in Surjection(1..N, All)
    BY <1>1, <1>6, <2>1, FS_Injection DEF N
  <2> QED BY <2>2 DEF Surjection
<1>8. \A i \in All : i \in Nat /\ rows[i].createdAt \in Nat
  BY MatchingLemma, IdsAssumption DEF IsTable, All
<1>9. ASSUME NEW n \in 1..N PROVE RankIn(rows, filter, o[n]) = n
  <2> DEFINE S == {o[p] : p \in 1..n}
             g == [p \in 1..n |-> o[p]]
  <2>1. S \subseteq UpTo(rows, filter, o[n])
    <3> SUFFICES ASSUME NEW p \in 1..n PROVE o[p] \in UpTo(rows, filter, o[n])
      OBVIOUS
    <3>1. p \in 1..N /\ o[p] \in All /\ o[n] \in All
      BY <1>1, <1>2
    <3>2. p = n \/ ~Precedes(o[n], o[p])
      BY <1>1, <1>4, <3>1
    <3> QED BY <1>8, <3>1, <3>2 DEF UpTo, Precedes, All
  <2>2. UpTo(rows, filter, o[n]) \subseteq S
    <3> SUFFICES ASSUME NEW i \in UpTo(rows, filter, o[n]) PROVE i \in S
      OBVIOUS
    <3>1. i \in All /\ o[n] \in All
      BY <1>2 DEF UpTo, All
    <3>2. PICK p \in 1..N : o[p] = i
      BY <1>7, <3>1
    <3>3. p <= n
      <4> SUFFICES ASSUME n < p PROVE FALSE
        BY <1>1
      <4>1. i # o[n] /\ ~Precedes(i, o[n])
        BY <1>4, <3>2
      <4> QED BY <1>8, <3>1, <4>1 DEF UpTo, Precedes
    <3>4. p \in 1..n
      BY <3>3
    <3> QED BY <3>2, <3>4
  <2>3. Cardinality(S) = n
    <3>1. n \in Nat /\ \A p \in 1..n : p \in 1..N
      BY <1>1
    <3>2. g \in [1..n -> S] /\ \A p, q \in 1..n : g[p] = g[q] => p = q
      BY <1>5, <3>1
    <3>3. \A x \in S : \E p \in 1..n : g[p] = x
      OBVIOUS
    <3> HIDE DEF g, S
    <3>4. g \in Injection(1..n, S) /\ g \in Surjection(1..n, S)
      BY <3>2, <3>3, Fun_IsInj, Fun_IsSurj
    <3>5. IsFiniteSet(1..n) /\ Cardinality(1..n) = n
      BY <3>1, FirstLemma
    <3> QED BY <3>4, <3>5, FS_Surjection
  <2> HIDE DEF S
  <2>4. UpTo(rows, filter, o[n]) = S
    BY <2>1, <2>2
  <2> QED BY <2>3, <2>4 DEF RankIn
<1> QED BY <1>2, <1>7, <1>9 DEF N

\* A page is a part of the list.
LEMMA SliceLemma ==
    ASSUME Cardinality(All) \in Nat, NEW o \in [1..Cardinality(All) -> All],
           NEW offset \in Nat, size \in Nat
    PROVE  LET s == Slice(o, offset)
               n == Cardinality(All)
           IN  /\ s \in Seq(All)
               /\ Len(s) = IF n <= offset THEN 0
                           ELSE IF n < offset + size THEN n - offset ELSE size
               /\ \A p \in 1..Len(s) : offset + p \in 1..n /\ s[p] = o[offset + p]
<1> DEFINE S == All
           n == Cardinality(All)
<1>1. n \in Nat /\ o \in [1..n -> S]
  OBVIOUS
<1> HIDE DEF n, S
<1> DEFINE m == IF offset + size < n THEN offset + size ELSE n
<1>2. Len(o) = n
  BY <1>1
<1>3. m \in Int /\ m <= n /\ m <= offset + size
  BY <1>1
<1>4. Slice(o, offset) = SubSeq(o, offset + 1, m)
  BY <1>2 DEF Slice
<1>5. \A i \in (offset + 1)..m : o[i] \in S
  BY <1>1, <1>3
<1> DEFINE s == SubSeq(o, offset + 1, m)
<1>6. /\ s \in Seq(S)
      /\ Len(s) = IF offset + 1 <= m THEN m - (offset + 1) + 1 ELSE 0
      /\ \A i \in 1..(m - (offset + 1) + 1) : s[i] = o[offset + 1 + i - 1]
  <2> HIDE DEF m
  <2> QED BY <1>3, <1>5, SubSeqProperties
<1> HIDE DEF s
<1>7. Len(s) = IF n <= offset THEN 0
               ELSE IF n < offset + size THEN n - offset ELSE size
  BY <1>1, <1>6
<1>8. ASSUME NEW p \in 1..Len(s) PROVE offset + p \in 1..n /\ s[p] = o[offset + p]
  <2>1. offset + 1 <= m
    BY <1>1, <1>6
  <2> HIDE DEF m
  <2>2. Len(s) = m - offset
    BY <1>1, <1>3, <1>6, <2>1
  <2>3. p \in 1..(m - (offset + 1) + 1) /\ offset + 1 + p - 1 = offset + p
    BY <1>1, <1>3, <2>2
  <2>4. s[p] = o[offset + p]
    BY <1>6, <2>3
  <2> QED BY <1>1, <1>3, <2>2, <2>4
<1> QED BY <1>4, <1>6, <1>7, <1>8 DEF s, n, S

\* A page is the rows from the offset on, and no others.
LEMMA PageLemma ==
    ASSUME IsTable(rows), NEW o \in Orders(All), NEW offset \in Nat, size \in Nat
    PROVE  LET s == Slice(o, offset)
               n == Cardinality(All)
           IN  /\ s \in Seq(All)
               /\ Len(s) = IF n <= offset THEN 0
                           ELSE IF n < offset + size THEN n - offset ELSE size
               /\ \A p \in 1..Len(s) :
                     s[p] \in All /\ RankIn(rows, filter, s[p]) = offset + p
               /\ \A i \in All : \/ i \in RangeOf(s)
                                 \/ RankIn(rows, filter, i) <= offset
                                 \/ RankIn(rows, filter, i) > offset + Len(s)
<1> DEFINE s == Slice(o, offset)
           n == Cardinality(All)
<1>1. n \in Nat
  BY MatchingLemma DEF All
<1>2. /\ o \in [1..n -> All]
      /\ \A p \in 1..n : RankIn(rows, filter, o[p]) = p
      /\ \A i \in All : \E p \in 1..n : o[p] = i
  BY OrderLemma
<1> HIDE DEF n
<1>3. /\ s \in Seq(All)
      /\ Len(s) = IF n <= offset THEN 0
                  ELSE IF n < offset + size THEN n - offset ELSE size
      /\ \A p \in 1..Len(s) : offset + p \in 1..n /\ s[p] = o[offset + p]
  BY <1>1, <1>2, SliceLemma DEF n
<1> HIDE DEF s
<1>4. ASSUME NEW p \in 1..Len(s)
      PROVE  s[p] \in All /\ RankIn(rows, filter, s[p]) = offset + p
  BY <1>2, <1>3
<1>5. ASSUME NEW i \in All, RankIn(rows, filter, i) > offset,
             RankIn(rows, filter, i) <= offset + Len(s)
      PROVE  i \in RangeOf(s)
  <2>1. PICK p \in 1..n : o[p] = i
    BY <1>2
  <2>2. p > offset /\ p <= offset + Len(s)
    BY <1>2, <1>5, <2>1
  <2>3. p - offset \in 1..Len(s) /\ offset + (p - offset) = p
    BY <1>1, <1>3, <2>2
  <2>4. s[p - offset] = i
    BY <1>3, <2>1, <2>3
  <2>5. DOMAIN s = 1..Len(s)
    BY <1>3
  <2> QED BY <2>3, <2>4, <2>5 DEF RangeOf
<1>6. \A i \in All : RankIn(rows, filter, i) \in Nat
  BY RankLemma
<1>7. ASSUME NEW i \in All
      PROVE  \/ i \in RangeOf(s)
             \/ RankIn(rows, filter, i) <= offset
             \/ RankIn(rows, filter, i) > offset + Len(s)
  <2>1. Len(s) \in Nat
    BY <1>3
  <2> QED BY <1>5, <1>6, <2>1
<1> QED BY <1>3, <1>4, <1>7 DEF s, n

-----------------------------------------------------------------------------
(* Types and control.                                                      *)

\* The rows of the properties table have their place in the list.
LEMMA TableLemma == Types => IsTable(rows)
  BY DEF Types, IsTable, Table!Row

\* So have those of the next state.
LEMMA NextTableLemma == Types' => IsTable(rows')
<1>1. Types' => IsTable(rows)'
  BY TableLemma, PTL
<1>2. IsTable(rows)' <=> IsTable(rows')
  OBVIOUS
<1> QED BY <1>1, <1>2

\* Pages begin somewhere.
LEMMA BeforeLemma == Types => Before \in Nat /\ size \in Nat \ {0} /\ page \in Nat \ {0}
<1> SUFFICES ASSUME Types PROVE Before \in Nat /\ size \in Nat \ {0} /\ page \in Nat \ {0}
  OBVIOUS
<1>1. page \in Nat \ {0} /\ size \in Nat \ {0}
  BY IntLemma DEF Types
<1>2. page - 1 \in Nat
  BY <1>1
<1>3. \A m, n \in Nat : m * n \in Nat
  OBVIOUS
<1>4. (page - 1) * size \in Nat
  BY <1>1, <1>2, <1>3
<1> QED BY <1>1, <1>4 DEF Before

\* A page has at most the size asked for, and it is the page that was asked for
\* if its offset is an int.
LEMMA ScanLemma ==
    ASSUME Types, Scan
    PROVE  /\ items' \in Seq(All) /\ items' \in Seq(Ids) /\ Len(items') <= size
           /\ InRange =>
                 LET n == Cardinality(All) IN
                 /\ Len(items') = IF n <= Before THEN 0
                                  ELSE IF n < Before + size THEN n - Before ELSE size
                 /\ \A p \in 1..Len(items') :
                       items'[p] \in All /\ RankIn(rows, filter, items'[p]) = Before + p
                 /\ \A i \in All : \/ i \in RangeOf(items')
                                   \/ RankIn(rows, filter, i) <= Before
                                   \/ RankIn(rows, filter, i) > Before + Len(items')
<1>1. IsTable(rows) /\ Before \in Nat /\ size \in Nat \ {0}
  BY TableLemma, BeforeLemma
<1>2. PICK o \in Orders(All) : items' = Slice(o, IF Offset < 0 THEN 0 ELSE Offset)
  BY DEF Scan, All
<1>3. Offset = Wrap(Before) /\ (InRange <=> Before <= MaxInt)
  BY DEF Offset, InRange, Before
<1>4. Offset \in Int
  BY <1>1, <1>3, WrapTypeLemma
<1>5. PICK offset \in Nat : items' = Slice(o, offset) /\ (InRange => offset = Before)
  <2>1. InRange => Offset = Before
    <3>1. InRange => Before \in 0..MaxInt
      BY <1>1, <1>3, IntLemma
    <3> QED BY <1>3, <3>1, WrapLemma
  <2>2. (IF Offset < 0 THEN 0 ELSE Offset) \in Nat
    BY <1>4
  <2> QED BY <1>1, <1>2, <2>1, <2>2
<1> DEFINE s == Slice(o, offset)
           n == Cardinality(All)
<1>6. /\ s \in Seq(All)
      /\ Len(s) = IF n <= offset THEN 0
                  ELSE IF n < offset + size THEN n - offset ELSE size
      /\ \A p \in 1..Len(s) :
            s[p] \in All /\ RankIn(rows, filter, s[p]) = offset + p
      /\ \A i \in All : \/ i \in RangeOf(s)
                        \/ RankIn(rows, filter, i) <= offset
                        \/ RankIn(rows, filter, i) > offset + Len(s)
  BY <1>1, PageLemma
<1>7. items' = s /\ n \in Nat /\ All \subseteq Ids
  BY <1>1, <1>5, MatchingLemma DEF All
<1> HIDE DEF s
<1>8. Len(s) <= size
  <2> HIDE DEF n
  <2> QED BY <1>1, <1>6, <1>7
<1>9. s \in Seq(Ids)
  BY <1>6, <1>7
<1> QED BY <1>5, <1>6, <1>7, <1>8, <1>9

\* Every step keeps the types.
LEMMA TypesLemma ==
    ASSUME Types, ControlOK, [Next]_vars PROVE Types' /\ ControlOK'
<1> USE DEF Types, ControlOK
<1>1. CASE BeginReading
  <2>1. PICK p \in PageParams, s \in SizeParams, f \in FilterParams :
           /\ page' = NormalPage(p) /\ size' = NormalSize(s) /\ filter' = ToListFilter(f)
    BY <1>1 DEF BeginReading, Ask
  <2>2. page' \in 1..MaxInt
    BY <2>1, IntLemma, ParamAssumption DEF NormalPage
  <2>3. size' \in 1..MaxPageSize
    BY <2>1, IntLemma, ParamAssumption DEF NormalSize
  <2>4. filter' \in FilterParam
    BY <2>1, ParamAssumption DEF ToListFilter, FilterParam
  <2>5. base' \subseteq Ids
    BY <1>1, TableLemma, MatchingLemma DEF BeginReading
  <2>6. total' \in 0..Cardinality(Ids)
    BY <1>1, IntLemma DEF BeginReading, Ask
  <2> QED BY <1>1, <2>2, <2>3, <2>4, <2>5, <2>6 DEF BeginReading, Ask
<1>2. CASE NextPage
  <2>1. page' \in 1..MaxInt /\ total' \in 0..Cardinality(Ids)
    BY <1>2, IntLemma DEF NextPage, Ask
  <2> QED BY <1>2, <2>1 DEF NextPage, Ask
<1>3. CASE Count
  <2>1. total' \in 0..Cardinality(Ids)
    <3>1. total' = Cardinality(Matching(rows, filter))
      BY <1>3 DEF Count
    <3> QED BY <3>1, TableLemma, MatchingLemma, IntLemma
  <2>2. read' \in Seq(Ids)
    BY <1>3 DEF Count, Done
  <2> QED BY <1>3, <2>1, <2>2 DEF Count, Done
<1>4. CASE Scan
  <2>1. items' \in Seq(Ids) /\ Len(items') <= size
    BY <1>4, ScanLemma
  <2>2. read' \in Seq(Ids)
    BY <1>4, <2>1 DEF Scan, Done
  <2> QED BY <1>4, <2>1, <2>2 DEF Scan, Done
<1>5. CASE OffsetRefused \/ StatementFails
  BY <1>5 DEF OffsetRefused, StatementFails, Fail
<1>6. CASE RowCreated
  <2>1. PICK id \in Ids, row \in Table!Row : rows' = Table!Put(rows, id, row)
    BY <1>6 DEF RowCreated, Table!Insert, Table!Stores
  <2>2. rows' \in [DOMAIN rows' -> Table!Row] /\ DOMAIN rows' \subseteq Ids
    BY <2>1 DEF Table!Put
  <2>3. UNCHANGED request /\ quiet' = FALSE
    BY <1>6 DEF RowCreated
  <2> QED BY <2>2, <2>3 DEF request
<1>7. CASE RowChanged
  BY <1>7 DEF RowChanged, request, Table!Replace, Table!Stores, Table!Put
<1>8. CASE UNCHANGED vars
  BY <1>8 DEF vars
<1> QED BY <1>1, <1>2, <1>3, <1>4, <1>5, <1>6, <1>7, <1>8 DEF Next

-----------------------------------------------------------------------------
(* What a step does to what is seen, and to the positions.                 *)

\* Only a page that is read adds to what the reader has seen, and it adds as
\* many positions as rows.
LEMMA SeenLemma ==
    ASSUME IInv, Next, ~BeginReading
    PROVE  /\ filter' = filter /\ base' = base
           /\ ~Scan => Seen' = Seen /\ Covered' = Covered
           /\ Scan => /\ rows' = rows /\ Before' = Before /\ size' = size
                      /\ Seen = read /\ Covered = Before
                      /\ Seen' = read \o items' /\ Covered' = Before + Len(items')
<1> USE DEF IInv, Types, ControlOK
<1>1. CASE NextPage
  <2>1. filter' = filter /\ base' = base /\ size' = size /\ page' = page + 1 /\ items' = <<>>
        /\ pc' = "asking" /\ read' = read /\ pc = "answered" /\ Len(items) = size
        /\ ~Scan
    BY <1>1 DEF NextPage, Ask, Scan, Done
  <2>2. Seen' = Seen
    <3>1. Seen' = read \o <<>> /\ Seen = read
      BY <2>1 DEF Seen
    <3> QED BY <3>1, ConcatEmptySeq
  <2>3. Covered' = Covered
    <3>1. PICK p \in Nat \ {0}, s \in Nat \ {0} : p = page /\ s = size
      BY BeforeLemma
    <3>2. Covered = (p - 1) * s + s
      BY <2>1, <3>1 DEF Covered, Before
    <3>3. Covered' = ((p + 1) - 1) * s + 0
      BY <2>1, <3>1 DEF Covered, Before
    <3> QED BY <3>1, <3>2, <3>3
  <2> QED BY <2>1, <2>2, <2>3
<1>2. CASE Count
  <2>1. filter' = filter /\ base' = base /\ size' = size /\ page' = page /\ items' = items
        /\ pc = "asking"
        /\ \/ pc' = "answered" /\ read' = read \o items
           \/ pc' = "asking" /\ read' = read
    BY <1>2 DEF Count, Done
  <2>2. Seen' = Seen /\ Covered' = Covered
    BY <2>1 DEF Seen, Covered, Before
  <2>3. ~Scan
    BY <1>2 DEF Count, Scan, Done
  <2> QED BY <2>1, <2>2, <2>3
<1>3. CASE Scan
  <2>1. filter' = filter /\ base' = base /\ size' = size /\ page' = page /\ rows' = rows
        /\ pc = "asking" /\ items = <<>>
        /\ \/ pc' = "answered" /\ read' = read \o items'
           \/ pc' = "asking" /\ read' = read
    BY <1>3 DEF Scan, Done
  <2>2. Before' = Before
    BY <2>1 DEF Before
  <2>3. Seen = read
    <3>1. Seen = read \o <<>>
      BY <2>1 DEF Seen
    <3> QED BY <3>1, ConcatEmptySeq
  <2>4. Covered = Before
    BY <2>1, BeforeLemma DEF Covered
  <2>5. Seen' = read \o items'
    BY <2>1 DEF Seen
  <2>6. Covered' = Before + Len(items')
    BY <2>2 DEF Covered
  <2> QED BY <1>3, <2>1, <2>2, <2>3, <2>4, <2>5, <2>6
<1>4. CASE OffsetRefused \/ StatementFails
  <2>1. filter' = filter /\ base' = base /\ size' = size /\ page' = page /\ items' = items
        /\ pc = "asking" /\ pc' \in {"refused", "failed"} /\ read' = read
    BY <1>4 DEF OffsetRefused, StatementFails, Fail
  <2>2. Seen' = Seen /\ Covered' = Covered
    BY <2>1 DEF Seen, Covered, Before
  <2>3. ~Scan
    BY <2>1 DEF Scan, Done
  <2> QED BY <2>1, <2>2, <2>3
<1>5. CASE RowCreated \/ RowChanged
  <2>1. UNCHANGED request
    BY <1>5 DEF RowCreated, RowChanged
  <2>2. Seen' = Seen /\ Covered' = Covered /\ filter' = filter /\ base' = base
    BY <2>1 DEF Seen, Covered, Before, request
  <2>3. ~Scan
    BY <2>1 DEF Scan, Done, request
  <2> QED BY <2>2, <2>3
<1> QED BY <1>1, <1>2, <1>3, <1>4, <1>5 DEF Next

\* A row that comes in moves the rows behind it by one place, and no other row.
LEMMA CreatedLemma ==
    ASSUME NEW t, IsTable(t), NEW u, IsTable(u), NEW id \in Ids \ DOMAIN t, NEW f,
           DOMAIN u = DOMAIN t \cup {id}, \A i \in DOMAIN t : u[i] = t[i]
    PROVE  /\ Matching(t, f) \subseteq Matching(u, f)
           /\ Matching(u, f) \subseteq Matching(t, f) \cup {id}
           /\ \A i \in Matching(t, f) :
                 /\ RankIn(t, f, i) <= RankIn(u, f, i)
                 /\ RankIn(u, f, i) <= RankIn(t, f, i) + 1
                 /\ id \notin Matching(u, f) => RankIn(u, f, i) = RankIn(t, f, i)
<1>1. Matching(t, f) \subseteq DOMAIN t
  BY MatchingLemma
<1>2. /\ Matching(t, f) \subseteq Matching(u, f)
      /\ Matching(u, f) \subseteq Matching(t, f) \cup {id}
  BY DEF Matching
<1>3. ASSUME NEW i \in Matching(t, f)
      PROVE  /\ RankIn(t, f, i) <= RankIn(u, f, i)
             /\ RankIn(u, f, i) <= RankIn(t, f, i) + 1
             /\ id \notin Matching(u, f) => RankIn(u, f, i) = RankIn(t, f, i)
  <2>1. i \in DOMAIN t /\ u[i] = t[i] /\ \A j \in Matching(t, f) : u[j] = t[j]
    BY <1>1, <1>3
  <2>2. UpTo(t, f, i) \in SUBSET UpTo(u, f, i)
    BY <1>2, <2>1 DEF UpTo
  <2>3. UpTo(u, f, i) \in SUBSET (UpTo(t, f, i) \cup {id})
    BY <1>2, <2>1 DEF UpTo
  <2>4. IsFiniteSet(UpTo(t, f, i)) /\ IsFiniteSet(UpTo(u, f, i))
        /\ RankIn(t, f, i) \in Nat /\ RankIn(u, f, i) \in Nat
    BY RankLemma
  <2>5. RankIn(t, f, i) <= RankIn(u, f, i)
    BY <2>2, <2>4, FS_Subset DEF RankIn
  <2>6. RankIn(u, f, i) <= RankIn(t, f, i) + 1
    <3>1. IsFiniteSet(UpTo(t, f, i) \cup {id})
          /\ Cardinality(UpTo(t, f, i) \cup {id}) \in Nat
          /\ Cardinality(UpTo(t, f, i) \cup {id}) <= RankIn(t, f, i) + 1
      BY <2>4, AddLemma DEF RankIn
    <3>2. RankIn(u, f, i) <= Cardinality(UpTo(t, f, i) \cup {id})
      BY <2>3, <3>1, FS_Subset DEF RankIn
    <3> QED BY <2>4, <3>1, <3>2
  <2>7. ASSUME id \notin Matching(u, f) PROVE RankIn(u, f, i) = RankIn(t, f, i)
    <3>1. UpTo(u, f, i) \subseteq Matching(u, f)
      BY RankLemma
    <3>2. UpTo(u, f, i) = UpTo(t, f, i)
      BY <2>2, <2>3, <2>7, <3>1
    <3> QED BY <3>2 DEF RankIn
  <2> QED BY <2>5, <2>6, <2>7
<1> QED BY <1>2, <1>3

\* A row that changes its status stays in its place, if the list does not look
\* at statuses.
LEMMA ChangedLemma ==
    ASSUME NEW t, NEW u, NEW f, f.status = AnyValue, DOMAIN u = DOMAIN t,
           \A i \in DOMAIN t : u[i].createdAt = t[i].createdAt /\ u[i].addr = t[i].addr
    PROVE  /\ Matching(u, f) = Matching(t, f)
           /\ \A i \in Matching(t, f) : RankIn(u, f, i) = RankIn(t, f, i)
<1>1. Matching(u, f) = Matching(t, f)
  BY DEF Matching
<1>2. ASSUME NEW i \in Matching(t, f) PROVE UpTo(u, f, i) = UpTo(t, f, i)
  <2>1. Matching(t, f) \subseteq DOMAIN t
    BY DEF Matching
  <2> QED BY <1>1, <2>1 DEF UpTo
<1> QED BY <1>1, <1>2 DEF RankIn

\* What a write does to the table.
LEMMA WriteLemma ==
    /\ RowCreated => \E id \in Ids \ DOMAIN rows :
          DOMAIN rows' = DOMAIN rows \cup {id} /\ \A i \in DOMAIN rows : rows'[i] = rows[i]
    /\ RowChanged =>
          /\ DOMAIN rows' = DOMAIN rows
          /\ \A i \in DOMAIN rows :
                rows'[i].createdAt = rows[i].createdAt /\ rows'[i].addr = rows[i].addr
    /\ RowCreated \/ RowChanged => quiet' = FALSE /\ UNCHANGED request
<1>1. RowCreated => \E id \in Ids \ DOMAIN rows :
         DOMAIN rows' = DOMAIN rows \cup {id} /\ \A i \in DOMAIN rows : rows'[i] = rows[i]
  BY DEF RowCreated, Table!Insert, Table!Stores, Table!Put
<1>2. ASSUME RowChanged
      PROVE  /\ DOMAIN rows' = DOMAIN rows
             /\ \A i \in DOMAIN rows :
                   rows'[i].createdAt = rows[i].createdAt /\ rows'[i].addr = rows[i].addr
  <2>1. PICK id \in DOMAIN rows, row \in Table!Row :
           /\ row.addr = rows[id].addr /\ row.createdAt = rows[id].createdAt
           /\ rows' = Table!Put(rows, id, row)
    BY <1>2 DEF RowChanged, Table!Replace, Table!Stores
  <2> QED BY <2>1 DEF Table!Put
<1> QED BY <1>1, <1>2 DEF RowCreated, RowChanged

-----------------------------------------------------------------------------
(* The steps keep the invariant.                                           *)

\* What the reader knows of stays in the list.
LEMMA StableLemma ==
    ASSUME IInv, Next, Types' PROVE StableOK'
<1> SUFFICES ASSUME filter'.status = AnyValue
             PROVE  base' \cup RangeOf(Seen') \subseteq All'
  BY DEF StableOK
<1>1. CASE BeginReading
  <2>1. base' = All' /\ pc' = "asking" /\ items' = <<>> /\ read' = <<>>
    BY <1>1 DEF BeginReading, Ask, All, IInv, ControlOK
  <2>2. RangeOf(Seen') = {}
    <3>1. Seen' = <<>> \o <<>>
      BY <2>1 DEF Seen
    <3>2. Seen' = <<>>
      BY <3>1
    <3> QED BY <3>2 DEF RangeOf
  <2> QED BY <2>1, <2>2
<1>2. CASE ~BeginReading
  <2>1. base \cup RangeOf(Seen) \subseteq All /\ filter' = filter /\ base' = base
    BY <1>2, SeenLemma DEF IInv, StableOK
  <2>2. CASE Scan
    <3>1. items' \in Seq(All) /\ items' \in Seq(Ids) /\ read \in Seq(Ids)
      BY <2>2, ScanLemma DEF IInv, Types
    <3>2. rows' = rows /\ Seen = read /\ Seen' = read \o items'
      BY <1>2, <2>2, SeenLemma
    <3>3. RangeOf(Seen') = RangeOf(Seen) \cup RangeOf(items')
      BY <3>1, <3>2, JoinLemma
    <3>4. RangeOf(items') \subseteq All
      BY <3>1, RangeLemma
    <3>5. All' = All
      BY <2>1, <3>2 DEF All
    <3> QED BY <2>1, <3>3, <3>4, <3>5
  <2>3. CASE ~Scan
    <3>1. Seen' = Seen
      BY <1>2, <2>3, SeenLemma
    <3>2. All \subseteq All'
      <4>1. CASE rows' = rows
        BY <2>1, <4>1 DEF All
      <4>2. CASE RowCreated
        <5>1. IsTable(rows) /\ IsTable(rows')
          BY TableLemma, NextTableLemma DEF IInv
        <5> QED BY <2>1, <4>2, <5>1, WriteLemma, CreatedLemma DEF All
      <4>3. CASE RowChanged
        BY <2>1, <4>3, WriteLemma, ChangedLemma DEF All
      <4> QED BY <1>2, <2>3, <4>1, <4>2, <4>3
              DEF Next, NextPage, Count, OffsetRefused, StatementFails, Fail
    <3> QED BY <2>1, <3>1, <3>2
  <2> QED BY <2>2, <2>3
<1> QED BY <1>1, <1>2

\* Rows of the list, if it does not look at statuses, move to the back, by at
\* most one place, and that only when the list grows.
LEMMA MoveLemma ==
    ASSUME IInv, RowCreated \/ RowChanged, Types', filter.status = AnyValue
    PROVE  /\ filter' = filter /\ base' = base
           /\ All \subseteq All' /\ Cardinality(All) <= Cardinality(All')
           /\ \A i \in All : /\ RankIn(rows, filter, i) <= RankIn(rows', filter, i)
                             /\ RankIn(rows', filter, i) <= RankIn(rows, filter, i) + 1
           /\ \/ /\ All' = All
                 /\ \A i \in All : RankIn(rows', filter, i) = RankIn(rows, filter, i)
              \/ \E id \in Ids \ All : All' = All \cup {id} /\ id \notin base
<1>1. IsTable(rows) /\ IsTable(rows')
  BY TableLemma, NextTableLemma DEF IInv
<1>2. filter' = filter /\ base' = base
  BY WriteLemma DEF request
<1>3. \A i \in All : RankIn(rows, filter, i) \in Nat
  BY <1>1, RankLemma
<1>4. CASE RowChanged
  <2>1. All' = All /\ \A i \in All : RankIn(rows', filter, i) = RankIn(rows, filter, i)
    BY <1>2, <1>4, WriteLemma, ChangedLemma DEF All
  <2>2. Cardinality(All) \in Nat
    BY <1>1, MatchingLemma DEF All
  <2> QED BY <1>2, <1>3, <2>1, <2>2
<1>5. CASE RowCreated
  <2>1. PICK id \in Ids \ DOMAIN rows :
           DOMAIN rows' = DOMAIN rows \cup {id} /\ \A i \in DOMAIN rows : rows'[i] = rows[i]
    BY <1>5, WriteLemma
  <2>2. /\ All \subseteq All' /\ All' \subseteq All \cup {id}
        /\ \A i \in All : /\ RankIn(rows, filter, i) <= RankIn(rows', filter, i)
                          /\ RankIn(rows', filter, i) <= RankIn(rows, filter, i) + 1
                          /\ id \notin All' => RankIn(rows', filter, i) = RankIn(rows, filter, i)
    BY <1>1, <1>2, <2>1, CreatedLemma DEF All
  <2>3. id \notin All /\ id \notin base
    BY <1>1, <2>1, MatchingLemma DEF All, IInv, StableOK
  <2>4. Cardinality(All) <= Cardinality(All')
    <3>1. IsFiniteSet(All') /\ All \in SUBSET All'
      BY <1>1, <2>2, MatchingLemma DEF All
    <3> QED BY <3>1, FS_Subset
  <2> QED BY <1>2, <2>1, <2>2, <2>3, <2>4
<1> QED BY <1>4, <1>5

\* A scan that starts where the reading is leaves nothing out.
LEMMA SkippedLemma ==
    ASSUME IInv, Next, Types' PROVE SkippedOK'
<1> SUFFICES ASSUME filter'.status = AnyValue, Live', Len(Seen') = Covered'
             PROVE  /\ Covered' <= Cardinality(All')
                    /\ \A i \in base' :
                          \/ i \in RangeOf(Seen')
                          \/ /\ "scan" \in running' \/ Len(items') = size'
                             /\ RankIn(rows', filter', i) > Covered'
  BY DEF SkippedOK
<1>1. IsTable(rows) /\ IsTable(rows') /\ Before \in Nat /\ size \in Nat \ {0}
  BY TableLemma, NextTableLemma, BeforeLemma DEF IInv
<1>2. CASE BeginReading
  <2>1. base' = All' /\ pc' = "asking" /\ items' = <<>> /\ read' = <<>>
        /\ running' = {"scan", "count"} /\ rows' = rows
    BY <1>2 DEF BeginReading, Ask, All, IInv, ControlOK
  <2>2. Len(Seen') = 0
    <3>1. Seen' = <<>> \o <<>>
      BY <2>1 DEF Seen
    <3> QED BY <3>1
  <2>3. Covered' = 0
    BY <2>2
  <2>4. \A i \in All' : RankIn(rows', filter', i) > 0
    BY <1>1, RankLemma DEF All
  <2>5. Cardinality(All') \in Nat
    BY <1>1, MatchingLemma DEF All
  <2> QED BY <2>1, <2>3, <2>4, <2>5
<1>3. CASE ~BeginReading /\ ~Scan
  <2>1. filter' = filter /\ base' = base /\ Seen' = Seen /\ Covered' = Covered
    BY <1>3, SeenLemma
  <2>2. Live
    BY <1>3 DEF Live, Next, NextPage, Count, OffsetRefused, StatementFails, Fail, RowCreated,
                RowChanged, request, IInv, ControlOK, Done
  <2>3. /\ Covered <= Cardinality(All)
        /\ \A i \in base : \/ i \in RangeOf(Seen)
                           \/ /\ "scan" \in running \/ Len(items) = size
                              /\ RankIn(rows, filter, i) > Covered
    BY <2>1, <2>2 DEF IInv, SkippedOK
  <2>4. base \subseteq All
    BY <2>1 DEF IInv, StableOK
  <2>5. Covered \in Nat
    BY <1>1 DEF Covered, IInv, Types
  <2>6. CASE NextPage \/ Count
    <3>1. rows' = rows /\ ("scan" \in running \/ Len(items) = size =>
                              "scan" \in running' \/ Len(items') = size')
      BY <2>6 DEF NextPage, Ask, Count, Done
    <3>2. All' = All
      BY <2>1, <3>1 DEF All
    <3> QED BY <2>1, <2>3, <3>1, <3>2
  <2>7. CASE RowCreated \/ RowChanged
    <3>1. UNCHANGED <<running, items, size>>
      BY <2>7, WriteLemma DEF request
    <3>2. /\ Cardinality(All) <= Cardinality(All')
          /\ \A i \in All : RankIn(rows, filter, i) <= RankIn(rows', filter, i)
      BY <2>1, <2>7, MoveLemma
    <3>3. Cardinality(All) \in Nat /\ Cardinality(All') \in Nat
      BY <1>1, MatchingLemma DEF All
    <3>4. Covered <= Cardinality(All')
      BY <2>3, <2>5, <3>2, <3>3
    <3>5. ASSUME NEW i \in base, RankIn(rows, filter, i) > Covered
          PROVE  RankIn(rows', filter, i) > Covered
      <4>1. RankIn(rows, filter, i) \in Nat /\ RankIn(rows', filter, i) \in Nat
        BY <1>1, RankLemma
      <4> QED BY <2>4, <2>5, <3>2, <3>5, <4>1
    <3> QED BY <2>1, <2>3, <3>1, <3>4, <3>5
  <2>8. ~(OffsetRefused \/ StatementFails)
    BY DEF OffsetRefused, StatementFails, Fail, Live
  <2> QED BY <1>3, <2>6, <2>7, <2>8 DEF Next
<1>4. CASE Scan
  <2>1. ~BeginReading
    BY <1>4 DEF Scan, Done, BeginReading, IInv, ControlOK
  <2>2. /\ filter' = filter /\ base' = base /\ rows' = rows /\ size' = size
        /\ Seen = read /\ Covered = Before
        /\ Seen' = read \o items' /\ Covered' = Before + Len(items')
    BY <1>4, <2>1, SeenLemma
  <2>3. /\ items' \in Seq(Ids) /\ read \in Seq(Ids) /\ Len(items') \in Nat /\ Len(read) \in Nat
    BY <1>4, ScanLemma DEF IInv, Types
  <2>4. Len(Seen') = Len(read) + Len(items') /\ RangeOf(Seen') = RangeOf(Seen) \cup RangeOf(items')
    BY <2>2, <2>3, JoinLemma
  <2>5. Len(Seen) = Covered
    <3>1. PICK l \in Nat : l = Len(items')
      BY <2>3
    <3> QED BY <1>1, <2>2, <2>3, <2>4, <3>1
  <2>6. Live
    BY <1>4 DEF Live, Scan, Done, IInv, ControlOK
  <2>7. /\ Before <= Cardinality(All)
        /\ \A i \in base : i \in RangeOf(Seen) \/ RankIn(rows, filter, i) > Before
    BY <2>2, <2>5, <2>6 DEF IInv, SkippedOK
  <2>8. base \subseteq All
    BY <2>2 DEF IInv, StableOK
  <2>9. Cardinality(All) \in Nat /\ Cardinality(All) <= MaxInt /\ MaxInt \in Nat
    BY <1>1, MatchingLemma, IntLemma DEF All
  <2>10. InRange
    BY <1>1, <2>7, <2>9 DEF InRange, Before
  <2>11. PICK l \in Nat : l = Len(items')
    BY <2>3
  <2>12. l = IF Cardinality(All) <= Before THEN 0
             ELSE IF Cardinality(All) < Before + size THEN Cardinality(All) - Before ELSE size
    BY <1>4, <2>10, <2>11, ScanLemma DEF IInv
  <2>13. ASSUME NEW i \in All
         PROVE  \/ i \in RangeOf(items')
                \/ RankIn(rows, filter, i) <= Before
                \/ RankIn(rows, filter, i) > Before + l
    BY <1>4, <2>10, <2>11, ScanLemma DEF IInv
  <2>14. Covered' = Before + l
    BY <2>2, <2>11
  <2>15. All' = All
    BY <2>2 DEF All
  <2>16. Before + l <= Cardinality(All)
    BY <1>1, <2>7, <2>9, <2>12
  <2>17. ASSUME NEW i \in base, i \notin RangeOf(Seen'), RankIn(rows, filter, i) > Before
         PROVE  l = size /\ RankIn(rows, filter, i) > Before + l
    <3>1. RankIn(rows, filter, i) \in Nat /\ RankIn(rows, filter, i) <= Cardinality(All)
      <4>1. UpTo(rows, filter, i) \in SUBSET All /\ IsFiniteSet(All)
        BY <1>1, RankLemma, MatchingLemma DEF All
      <4> QED BY <1>1, <4>1, RankLemma, FS_Subset DEF RankIn
    <3>2. i \notin RangeOf(items') /\ i \in All
      BY <2>4, <2>8, <2>17
    <3>3. RankIn(rows, filter, i) > Before + l
      BY <1>1, <2>13, <2>17, <3>1, <3>2
    <3> QED BY <1>1, <2>9, <2>12, <3>1, <3>3
  <2>18. ASSUME NEW i \in base'
         PROVE  \/ i \in RangeOf(Seen')
                \/ /\ "scan" \in running' \/ Len(items') = size'
                   /\ RankIn(rows', filter', i) > Covered'
    BY <2>2, <2>4, <2>7, <2>11, <2>14, <2>17
  <2> QED BY <2>14, <2>15, <2>16, <2>18
<1> QED BY <1>2, <1>3, <1>4

\* The rows of a page that has rows at all are all different.
LEMMA PageSizeLemma ==
    ASSUME NEW s \in Seq(Ids), NEW b \in Nat,
           \A p \in 1..Len(s) : RankIn(rows, filter, s[p]) = b + p
    PROVE  Cardinality(RangeOf(s)) = Len(s)
<1>1. Len(s) \in Nat /\ DOMAIN s = 1..Len(s) /\ s \in [1..Len(s) -> Ids]
  OBVIOUS
<1> DEFINE R == RangeOf(s)
<1>2. s \in [1..Len(s) -> R] /\ \A x \in R : \E p \in 1..Len(s) : s[p] = x
  BY <1>1 DEF RangeOf
<1>3. \A p, q \in 1..Len(s) : s[p] = s[q] => p = q
  <2> SUFFICES ASSUME NEW p \in 1..Len(s), NEW q \in 1..Len(s), s[p] = s[q] PROVE p = q
    OBVIOUS
  <2>1. b + p = b + q
    OBVIOUS
  <2> QED BY <1>1, <2>1
<1> HIDE DEF R
<1>4. s \in Injection(1..Len(s), R) /\ s \in Surjection(1..Len(s), R)
  BY <1>2, <1>3, Fun_IsInj, Fun_IsSurj
<1>5. IsFiniteSet(1..Len(s)) /\ Cardinality(1..Len(s)) = Len(s)
  BY <1>1, FirstLemma
<1>6. Cardinality(R) = Len(s)
  BY <1>4, <1>5, FS_Surjection
<1> QED BY <1>6 DEF R

\* The rows the reader has seen and is to see again are finite in number.
LEMMA PushedLemma ==
    ASSUME NEW S, IsFiniteSet(S), NEW t, NEW f, NEW c
    PROVE  /\ IsFiniteSet({i \in S : RankIn(t, f, i) > c})
           /\ Cardinality({i \in S : RankIn(t, f, i) > c}) \in Nat
<1>1. {i \in S : RankIn(t, f, i) > c} \in SUBSET S
  OBVIOUS
<1> QED BY <1>1, FS_Subset, FS_CardinalityType

\* A page repeats just the rows that were pushed onto it, and a row that comes
\* in pushes at most one.
LEMMA RepeatsLemma ==
    ASSUME IInv, Next, Types' PROVE RepeatsOK'
<1> SUFFICES ASSUME filter'.status = AnyValue, InRange'
             PROVE  Len(Seen') + Cardinality(Pushed')
                       <= Cardinality(RangeOf(Seen')) + Cardinality(All' \ base')
  BY DEF RepeatsOK
<1> DEFINE Inequality ==
      Len(Seen) + Cardinality(Pushed) <= Cardinality(RangeOf(Seen)) + Cardinality(All \ base)
<1>1. IsTable(rows) /\ IsTable(rows') /\ Before \in Nat /\ size \in Nat \ {0}
  BY TableLemma, NextTableLemma, BeforeLemma DEF IInv
<1>2. Seen \in Seq(Ids) /\ Len(Seen) \in Nat /\ IsFiniteSet(RangeOf(Seen))
      /\ Cardinality(RangeOf(Seen)) \in Nat
  <2>1. Seen \in Seq(Ids)
    BY DEF Seen, IInv, Types
  <2> QED BY <2>1, RangeLemma
<1>3. IsFiniteSet(Pushed) /\ Cardinality(Pushed) \in Nat
  BY <1>2, PushedLemma, ZenonT(60) DEF Pushed
<1>4. IsFiniteSet(All \ base) /\ Cardinality(All \ base) \in Nat
      /\ IsFiniteSet(All' \ base') /\ Cardinality(All' \ base') \in Nat
  <2>1. IsFiniteSet(All) /\ IsFiniteSet(All')
    BY <1>1, MatchingLemma DEF All
  <2> QED BY <2>1, FS_Difference, FS_CardinalityType
<1>5. Covered \in Nat
  BY <1>1 DEF Covered, IInv, Types
<1>6. CASE BeginReading
  <2>1. pc' = "asking" /\ items' = <<>> /\ read' = <<>>
    BY <1>6 DEF BeginReading, Ask, IInv, ControlOK
  <2>2. Seen' = <<>>
    <3>1. Seen' = <<>> \o <<>>
      BY <2>1 DEF Seen
    <3> QED BY <3>1
  <2>3. RangeOf(Seen') = {}
    BY <2>2 DEF RangeOf
  <2>4. Pushed' = {}
    BY <2>3 DEF Pushed
  <2>5. Cardinality({}) = 0 /\ Len(Seen') = 0
    BY <2>2, FS_EmptySet
  <2> QED BY <1>4, <2>3, <2>4, <2>5
<1>7. CASE ~BeginReading /\ ~Scan
  <2>1. filter' = filter /\ base' = base /\ Seen' = Seen /\ Covered' = Covered
    BY <1>7, SeenLemma
  <2>2. InRange
    <3>1. CASE NextPage
      <4>1. PICK p \in Nat \ {0}, s \in Nat \ {0} : p = page /\ s = size
        BY BeforeLemma DEF IInv
      <4>2. page' = p + 1 /\ size' = s
        BY <3>1, <4>1 DEF NextPage, Ask
      <4>3. ((p + 1) - 1) * s <= MaxInt
        BY <4>2 DEF InRange
      <4>4. (p - 1) * s \in Int /\ ((p + 1) - 1) * s = (p - 1) * s + s
        BY <4>1
      <4>5. (p - 1) * s <= MaxInt
        BY <4>3, <4>4, IntLemma
      <4> QED BY <4>1, <4>5 DEF InRange
    <3>2. CASE page' = page /\ size' = size
      BY <3>2 DEF InRange
    <3> QED BY <1>7, <3>1, <3>2 DEF Next, Count, OffsetRefused, StatementFails, Fail,
                                    RowCreated, RowChanged, request
  <2>3. Inequality
    BY <2>1, <2>2 DEF IInv, RepeatsOK
  <2>4. RangeOf(Seen) \subseteq All
    BY <2>1 DEF IInv, StableOK
  <2>5. CASE /\ All' = All
             /\ \A i \in All : RankIn(rows', filter, i) = RankIn(rows, filter, i)
    <3>1. Pushed' = Pushed
      BY <2>1, <2>4, <2>5 DEF Pushed
    <3> QED BY <2>1, <2>3, <2>5, <3>1
  <2>6. CASE rows' = rows
    <3>1. All' = All
      BY <2>1, <2>6 DEF All
    <3> QED BY <2>5, <2>6, <3>1
  <2>7. ASSUME RowCreated \/ RowChanged, NEW id \in Ids \ All,
               All' = All \cup {id}, id \notin base
        PROVE  Len(Seen') + Cardinality(Pushed')
                  <= Cardinality(RangeOf(Seen')) + Cardinality(All' \ base')
    <3>1. Cardinality(All' \ base') = Cardinality(All \ base) + 1
      <4>1. All' \ base' = (All \ base) \cup {id} /\ id \notin All \ base
        BY <2>1, <2>7
      <4> QED BY <1>4, <4>1, AddLemma
    <3>2. ASSUME NEW i \in Pushed' \ Pushed
          PROVE  i \in All /\ RankIn(rows, filter, i) = Covered
      <4>1. i \in RangeOf(Seen) /\ i \in All
        BY <2>1, <2>4, <3>2 DEF Pushed
      <4>2. RankIn(rows', filter, i) > Covered /\ ~(RankIn(rows, filter, i) > Covered)
        BY <2>1, <3>2, <4>1 DEF Pushed
      <4>3. RankIn(rows, filter, i) \in Nat /\ RankIn(rows', filter, i) \in Nat
        BY <1>1, RankLemma
      <4>4. RankIn(rows', filter, i) <= RankIn(rows, filter, i) + 1
        BY <2>1, <2>7, <4>1, MoveLemma
      <4> QED BY <1>5, <4>1, <4>2, <4>3, <4>4
    <3>3. Cardinality(Pushed') \in Nat /\ Cardinality(Pushed') <= Cardinality(Pushed) + 1
      <4>1. PICK x : Pushed' \subseteq Pushed \cup {x}
        <5>1. CASE Pushed' \subseteq Pushed
          BY <5>1
        <5>2. CASE ~(Pushed' \subseteq Pushed)
          <6>1. PICK x : x \in Pushed' \ Pushed
            BY <5>2
          <6>2. ASSUME NEW i \in Pushed' \ Pushed PROVE i = x
            <7>1. /\ i \in All /\ RankIn(rows, filter, i) = Covered
                  /\ x \in All /\ RankIn(rows, filter, x) = Covered
              BY <3>2, <6>1, <6>2
            <7> QED BY <1>1, <7>1, DistinctLemma DEF All
          <6> QED BY <6>2
        <5> QED BY <5>1, <5>2
      <4>2. IsFiniteSet(Pushed \cup {x}) /\ Cardinality(Pushed \cup {x}) \in Nat
            /\ Cardinality(Pushed \cup {x}) <= Cardinality(Pushed) + 1
        BY <1>3, AddLemma
      <4>3. Pushed' \in SUBSET (Pushed \cup {x})
        BY <4>1
      <4>4. IsFiniteSet(Pushed') /\ Cardinality(Pushed') <= Cardinality(Pushed \cup {x})
        BY <4>2, <4>3, FS_Subset
      <4>5. Cardinality(Pushed') \in Nat
        BY <4>4, FS_CardinalityType
      <4> QED BY <1>3, <4>2, <4>4, <4>5
    <3>4. PICK a \in Nat, b \in Nat : a = Cardinality(Pushed') /\ b = Cardinality(All' \ base')
      BY <1>4, <3>3
    <3>5. Len(Seen) + a <= Cardinality(RangeOf(Seen)) + b
      BY <1>2, <1>3, <1>4, <2>3, <3>1, <3>3, <3>4
    <3> QED BY <2>1, <3>4, <3>5
  <2>8. CASE RowCreated \/ RowChanged
    BY <2>1, <2>5, <2>7, <2>8, MoveLemma
  <2> QED BY <1>7, <2>6, <2>8
          DEF Next, NextPage, Count, OffsetRefused, StatementFails, Fail
<1>8. CASE Scan
  <2>1. ~BeginReading
    BY <1>8 DEF Scan, Done, BeginReading, IInv, ControlOK
  <2>2. /\ filter' = filter /\ base' = base /\ rows' = rows /\ size' = size /\ Before' = Before
        /\ Seen = read /\ Covered = Before
        /\ Seen' = read \o items' /\ Covered' = Before + Len(items')
    BY <1>8, <2>1, SeenLemma
  <2>3. InRange
    BY <2>2 DEF InRange, Before
  <2>4. Inequality
    BY <2>2, <2>3 DEF IInv, RepeatsOK
  <2>5. items' \in Seq(Ids) /\ Len(items') \in Nat /\ RangeOf(items') \subseteq All
    BY <1>8, ScanLemma, RangeLemma DEF IInv
  <2>6. PICK new \in Seq(Ids), l \in Nat : new = items' /\ l = Len(new)
    BY <2>5
  <2> DEFINE R == RangeOf(new)
  <2>7. \A p \in 1..l : new[p] \in All /\ RankIn(rows, filter, new[p]) = Before + p
    BY <1>8, <2>3, <2>6, ScanLemma DEF IInv
  <2>8. \A i \in All : \/ i \in R
                       \/ RankIn(rows, filter, i) <= Before
                       \/ RankIn(rows, filter, i) > Before + l
    BY <1>8, <2>3, <2>6, ScanLemma DEF IInv
  <2>9. Cardinality(R) = l /\ IsFiniteSet(R)
    BY <1>1, <2>6, <2>7, PageSizeLemma, RangeLemma
  <2>10. Len(Seen') = Len(Seen) + l /\ RangeOf(Seen') = RangeOf(Seen) \cup R
    BY <1>2, <2>2, <2>6, JoinLemma
  <2>11. \A i \in R : RankIn(rows, filter, i) > Before /\ RankIn(rows, filter, i) <= Before + l
    <3> SUFFICES ASSUME NEW i \in R
                 PROVE  RankIn(rows, filter, i) > Before /\ RankIn(rows, filter, i) <= Before + l
      OBVIOUS
    <3>1. PICK p \in 1..l : new[p] = i
      BY <2>6 DEF RangeOf
    <3>2. RankIn(rows, filter, i) = Before + p
      BY <2>7, <3>1
    <3> QED BY <1>1, <3>2
  <2> HIDE DEF R
  <2>12. All' = All /\ RangeOf(Seen) \subseteq All
    BY <2>2 DEF All, IInv, StableOK
  <2>13. Covered' = Before + l
    BY <2>2, <2>6
  <2>14. Pushed' = Pushed \ R
    <3>1. ASSUME NEW i \in RangeOf(Seen) \cup R
          PROVE  RankIn(rows, filter, i) > Before + l
                    <=> RankIn(rows, filter, i) > Before /\ i \notin R
      <4>1. RankIn(rows, filter, i) \in Nat
        BY <1>1, RankLemma
      <4>2. CASE i \in R
        BY <1>1, <2>11, <4>1, <4>2
      <4>3. CASE i \notin R
        <5>1. i \in All
          BY <2>12, <3>1, <4>3
        <5> QED BY <1>1, <2>8, <4>1, <4>3, <5>1
      <4> QED BY <4>2, <4>3
    <3>2. Pushed' = {i \in RangeOf(Seen) \cup R : RankIn(rows, filter, i) > Before + l}
      BY <2>2, <2>10, <2>13 DEF Pushed
    <3>3. Pushed = {i \in RangeOf(Seen) : RankIn(rows, filter, i) > Before}
      BY <2>2 DEF Pushed
    <3> QED BY <3>1, <3>2, <3>3
  <2>15. Pushed \cap R = RangeOf(Seen) \cap R
    BY <2>2, <2>11 DEF Pushed
  <2> DEFINE k == Cardinality(Pushed \cap R)
  <2>16. Cardinality(Pushed') = Cardinality(Pushed) - k
    BY <1>3, <2>14, FS_Difference
  <2>17. Cardinality(RangeOf(Seen')) = Cardinality(RangeOf(Seen)) + l - k
    BY <1>2, <2>9, <2>10, <2>15, FS_Union
  <2>18. k \in Nat
    BY <1>3, FS_Intersection, FS_CardinalityType
  <2> HIDE DEF k
  <2>19. (Len(Seen) + l) + (Cardinality(Pushed) - k)
            <= (Cardinality(RangeOf(Seen)) + l - k) + Cardinality(All \ base)
    BY <1>2, <1>3, <1>4, <2>4, <2>18
  <2> QED BY <2>2, <2>10, <2>12, <2>16, <2>17, <2>19
<1> QED BY <1>6, <1>7, <1>8

\* What a statement finds without a write in between stays true till the answer.
LEMMA QuietLemma ==
    ASSUME IInv, Next, Types' PROVE QuietOK'
<1>1. IsTable(rows) /\ Before \in Nat /\ size \in Nat \ {0}
  BY TableLemma, BeforeLemma DEF IInv
<1>2. CASE BeginReading \/ NextPage
  <2>1. pc' = "asking" /\ running' = {"scan", "count"}
    BY <1>2 DEF BeginReading, NextPage, Ask
  <2> QED BY <2>1 DEF QuietOK
<1>3. CASE RowCreated \/ RowChanged
  BY <1>3, WriteLemma DEF QuietOK
<1>4. CASE Count
  <2>1. /\ UNCHANGED <<rows, filter, page, size, items, quiet>>
        /\ total' = Cardinality(All)
        /\ Live /\ pc' # "refused" /\ ("scan" \notin running' => "scan" \notin running)
    BY <1>4 DEF Count, Done, All, Live, IInv, ControlOK
  <2>2. All' = All /\ Before' = Before /\ (InRange' <=> InRange)
    BY <2>1 DEF All, Before, InRange
  <2> QED BY <2>1, <2>2 DEF QuietOK, IInv
<1>5. CASE Scan
  <2>1. /\ UNCHANGED <<rows, filter, page, size, total, quiet>>
        /\ Live /\ pc' # "refused" /\ ("count" \notin running' => "count" \notin running)
    BY <1>5 DEF Scan, Done, Live, IInv, ControlOK
  <2>2. All' = All /\ Before' = Before /\ (InRange' <=> InRange)
    BY <2>1 DEF All, Before, InRange
  <2>3. items' \in Seq(Ids) /\ DOMAIN items' = 1..Len(items')
    BY <1>5, ScanLemma DEF IInv
  <2>4. InRange =>
           /\ Len(items') = IF Cardinality(All) <= Before THEN 0
                            ELSE IF Cardinality(All) < Before + size
                                 THEN Cardinality(All) - Before ELSE size
           /\ \A p \in DOMAIN items' :
                 items'[p] \in All /\ RankIn(rows, filter, items'[p]) = Before + p
    BY <1>5, <2>3, ScanLemma DEF IInv
  <2> QED BY <2>1, <2>2, <2>4 DEF QuietOK, IInv
<1>6. CASE OffsetRefused
  <2>1. Before \in 0..MaxInt => Offset = Before
    BY WrapLemma DEF Offset, Before
  <2>2. Offset < 0 /\ UNCHANGED <<page, size>>
    BY <1>6 DEF OffsetRefused, Fail
  <2>3. ~InRange
    <3> SUFFICES ASSUME InRange PROVE FALSE
      OBVIOUS
    <3>1. Before <= MaxInt
      BY DEF InRange, Before
    <3>2. Before \in 0..MaxInt
      BY <1>1, <3>1, IntLemma
    <3> QED BY <1>1, <2>1, <2>2, <3>2
  <2> QED BY <2>2, <2>3 DEF QuietOK, InRange
<1>7. CASE StatementFails
  BY <1>7 DEF StatementFails, Fail, QuietOK, Live
<1> QED BY <1>2, <1>3, <1>4, <1>5, <1>6, <1>7 DEF Next

-----------------------------------------------------------------------------
(* What follows.                                                           *)

\* Nothing is read yet.
LEMMA InitLemma == Init => IInv
<1> SUFFICES ASSUME Init PROVE IInv
  OBVIOUS
<1> USE DEF Init
<1>1. Types
  <2>1. rows \in [DOMAIN rows -> Table!Row] /\ DOMAIN rows \subseteq Ids
    BY DEF Table!NoRows
  <2>2. filter \in FilterParam
    BY DEF FilterParam, AnyValue
  <2>3. page \in 1..MaxInt /\ size \in 1..MaxPageSize /\ total \in 0..Cardinality(Ids)
    BY IntLemma
  <2>4. Len(items) <= size
    BY <2>3
  <2> QED BY <2>1, <2>2, <2>3, <2>4 DEF Types
<1>2. ControlOK
  BY DEF ControlOK
<1>3. Seen = <<>>
  <2>1. Seen = <<>> \o <<>>
    BY DEF Seen
  <2> QED BY <2>1
<1>4. RangeOf(Seen) = {} /\ Len(Seen) = 0
  BY <1>3 DEF RangeOf
<1>5. StableOK
  BY <1>4 DEF StableOK
<1>6. RepeatsOK
  <2>1. Pushed = {} /\ Cardinality({}) = 0
    BY <1>4, FS_EmptySet DEF Pushed
  <2>2. Cardinality(All \ base) \in Nat
    BY <1>1, TableLemma, MatchingLemma, FS_Difference, FS_CardinalityType DEF All
  <2> QED BY <1>4, <2>1, <2>2 DEF RepeatsOK
<1>7. SkippedOK /\ QuietOK
  BY DEF SkippedOK, QuietOK, Live
<1> QED BY <1>1, <1>2, <1>5, <1>6, <1>7 DEF IInv

\* Every step keeps the invariant.
LEMMA NextLemma == IInv /\ [Next]_vars => IInv'
<1> SUFFICES ASSUME IInv, [Next]_vars PROVE IInv'
  OBVIOUS
<1>1. Types' /\ ControlOK'
  BY TypesLemma DEF IInv
<1>2. CASE Next
  BY <1>1, <1>2, StableLemma, SkippedLemma, RepeatsLemma, QuietLemma DEF IInv
<1>3. CASE UNCHANGED vars
  <2> USE <1>3 DEF vars
  <2>1. /\ Seen' = Seen /\ All' = All /\ Before' = Before /\ Covered' = Covered
        /\ (InRange' <=> InRange) /\ (Live' <=> Live)
    BY DEF Seen, All, Before, Covered, InRange, Live
  <2>2. Pushed' = Pushed
    BY <2>1 DEF Pushed
  <2>3. StableOK' /\ SkippedOK' /\ RepeatsOK' /\ QuietOK'
    BY <2>1, <2>2 DEF IInv, StableOK, SkippedOK, RepeatsOK, QuietOK
  <2> QED BY <1>1, <2>3 DEF IInv
<1> QED BY <1>2, <1>3

\* The invariant holds in every state.
LEMMA Invariance == Spec => []IInv
  BY InitLemma, NextLemma, PTL DEF Spec

\* Every variable has its type, whatever the width of an int: a page has at most
\* the size asked for, and a total is that of a table.
THEOREM Typing == Spec => []TypeOK
<1>1. IInv => TypeOK
  BY DEF IInv, Types, TypeOK
<1> QED BY <1>1, Invariance, PTL

\* A reader that pages on to a page that is not full has seen every row that was
\* there when it began, however the others write in between.
THEOREM NothingIsSkipped == Spec => []NothingSkipped
<1>1. IInv => NothingSkipped
  <2> SUFFICES ASSUME IInv, WholeReading PROVE base \subseteq {read[k] : k \in DOMAIN read}
    BY DEF NothingSkipped
  <2>1. /\ pc = "answered" /\ Len(items) < size /\ filter.status = AnyValue
        /\ Len(read) = Before + Len(items)
    BY DEF WholeReading, Before
  <2>2. Live /\ Len(Seen) = Covered /\ Seen = read
    BY <2>1 DEF Live, Seen, Covered
  <2>3. "scan" \notin running
    BY <2>1 DEF IInv, ControlOK
  <2>4. Len(items) # size
    BY <2>1, BeforeLemma DEF IInv, Types
  <2>5. \A i \in base : i \in RangeOf(read)
    BY <2>1, <2>2, <2>3, <2>4 DEF IInv, SkippedOK
  <2> QED BY <2>5 DEF RangeOf
<1> QED BY <1>1, Invariance, PTL

\* A reader sees a row again only if another one came in: there are at most as
\* many repetitions as rows created since the reading began.
THEOREM RepeatsAreBounded == Spec => []RepeatsAreShifts
<1>1. IInv => RepeatsAreShifts
  <2> SUFFICES ASSUME IInv, filter.status = AnyValue, InRange
               PROVE  Len(read) - Cardinality(RangeOf(read)) <= Cardinality(All \ base)
    BY DEF RepeatsAreShifts, RangeOf, All
  <2>1. /\ read \in Seq(Ids) /\ items \in Seq(Ids) /\ Len(read) \in Nat /\ Len(items) \in Nat
        /\ Cardinality(RangeOf(read)) \in Nat
    BY RangeLemma DEF IInv, Types
  <2>2. /\ Seen \in Seq(Ids) /\ Len(Seen) \in Nat
        /\ IsFiniteSet(RangeOf(Seen)) /\ Cardinality(RangeOf(Seen)) \in Nat
    <3>1. Seen \in Seq(Ids)
      BY <2>1 DEF Seen
    <3> QED BY <3>1, RangeLemma
  <2>3. Cardinality(Pushed) \in Nat
    BY <2>2, PushedLemma, ZenonT(60) DEF Pushed
  <2>4. Cardinality(All \ base) \in Nat
    BY TableLemma, MatchingLemma, FS_Difference, FS_CardinalityType DEF All, IInv
  <2>5. Len(Seen) - Cardinality(RangeOf(Seen)) <= Cardinality(All \ base)
    <3>1. Len(Seen) + Cardinality(Pushed)
             <= Cardinality(RangeOf(Seen)) + Cardinality(All \ base)
      BY DEF IInv, RepeatsOK
    <3> QED BY <2>2, <2>3, <2>4, <3>1
  <2>6. Len(read) - Cardinality(RangeOf(read)) <= Len(Seen) - Cardinality(RangeOf(Seen))
    <3>1. CASE Seen = read
      BY <2>1, <3>1
    <3>2. CASE Seen = read \o items
      <4>1. Len(Seen) = Len(read) + Len(items)
            /\ RangeOf(Seen) = RangeOf(read) \cup RangeOf(items)
        BY <2>1, <3>2, JoinLemma
      <4>2. /\ IsFiniteSet(RangeOf(read)) /\ IsFiniteSet(RangeOf(items))
            /\ Cardinality(RangeOf(items)) \in Nat
            /\ Cardinality(RangeOf(items)) <= Len(items)
            /\ Cardinality(RangeOf(read) \cap RangeOf(items)) \in Nat
        BY <2>1, RangeLemma, FS_Intersection, FS_CardinalityType
      <4>3. Cardinality(RangeOf(Seen)) =
               Cardinality(RangeOf(read)) + Cardinality(RangeOf(items))
                  - Cardinality(RangeOf(read) \cap RangeOf(items))
        BY <4>1, <4>2, FS_Union
      <4> QED BY <2>1, <4>1, <4>2, <4>3
    <3> QED BY <3>1, <3>2 DEF Seen
  <2> QED BY <2>1, <2>2, <2>4, <2>5, <2>6
<1> QED BY <1>1, Invariance, PTL

\* Without a write in between an answer is exact, whenever its offset is an int:
\* the page has all the rows of its positions in order, and the total is the
\* number of rows.
THEOREM QuietIsExact == Spec => []QuietAnswerExact
<1>1. IInv => QuietAnswerExact
  <2> SUFFICES ASSUME IInv, pc \in {"answered", "refused"}, quiet, InRange
               PROVE  LET before == (page - 1) * size
                          n == Cardinality(Matching(rows, filter))
                      IN  /\ pc = "answered"
                          /\ total = n
                          /\ Len(items) = IF n <= before THEN 0
                                          ELSE IF n < before + size THEN n - before ELSE size
                          /\ \A k \in DOMAIN items :
                                items[k] \in Matching(rows, filter)
                                /\ Rank(items[k]) = before + k
    BY DEF QuietAnswerExact
  <2>1. \A i : Rank(i) = RankIn(rows, filter, i)
    BY DEF Rank, RankIn, UpTo
  <2>2. pc = "answered" /\ running = {} /\ Live
    BY DEF IInv, QuietOK, ControlOK, Live
  <2> QED BY <2>1, <2>2 DEF IInv, QuietOK, Before, All
<1> QED BY <1>1, Invariance, PTL
=============================================================================

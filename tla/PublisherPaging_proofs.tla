------------------------ MODULE PublisherPaging_proofs ------------------------
(***************************************************************************)
(* The safety properties of PublisherPaging, for tables and pages of any   *)
(* size, a page size of 0 included.                                        *)
(*                                                                         *)
(* What was given lies before the OFFSET of the next query, so no row is   *)
(* given twice.  After k full pages, k * limit rows were given and         *)
(* next_record counts limit + 1 for each page: one row for each page lies  *)
(* before the OFFSET and was not given.                                    *)
(***************************************************************************)
EXTENDS PublisherPaging, FiniteSetTheorems, TLAPS

\* The rows of a page: those behind off, lim of them if there is a LIMIT, in a
\* table of n rows.
PageOf(n, off, lim) ==
  IF lim > 0 THEN {r \in 1 .. n : off < r /\ r <= off + lim} ELSE 1 .. n

TypesInv ==
  /\ rows \in 0 .. MaxRows /\ limit \in Limits /\ start \in Nat
  /\ page \subseteq 1 .. rows /\ seen \subseteq 1 .. rows
  /\ state \in {"query", "loaded", "done"}
  /\ state = "loaded" => \E n \in 0 .. rows : page = PageOf(n, Offset, limit)

\* After k full pages from the first request's start s.
Full(k, s) == Cardinality(seen) = k * limit /\ start = s + k * (limit + 1)

PagesInv ==
  /\ limit = 0 /\ state # "done" => seen = {}
  /\ limit > 0 /\ state # "done" =>
       /\ \A r \in seen : r <= Offset
       /\ \E k \in Nat, s \in {0, 1} : Full(k, s)

MissesInv == limit > 0 => MissesAreBounded

IInv == TypesInv /\ PagesInv /\ MissesInv
-----------------------------------------------------------------------------
LEMMA FullPages ==
  ASSUME NEW k \in Nat, NEW l \in Nat \ {0}, NEW x \in Nat, k * l <= x
  PROVE  k <= x \div l
<1> DEFINE q == x \div l
<1>1. q \in Nat /\ x < l * q + l
  OBVIOUS
<1> HIDE DEF q
<1> SUFFICES ASSUME q + 1 <= k PROVE FALSE
  BY <1>1 DEF q
<1>2. (q + 1) * l <= k * l
  BY <1>1
<1>3. (q + 1) * l = l * q + l
  BY <1>1
<1>4. (q + 1) * l \in Nat /\ k * l \in Nat /\ l * q + l \in Nat
  BY <1>1
<1> QED
  BY <1>1, <1>2, <1>3, <1>4

\* The rows that T lacks, when they all lie among the first n, as S does.
LEMMA Misses ==
  ASSUME NEW n \in Nat, NEW S \in SUBSET (1 .. n), NEW T, S \subseteq T,
         NEW r, \A q \in 1 .. r : q \notin T => q \in 1 .. n
  PROVE  Cardinality({q \in 1 .. r : q \notin T}) <= n - Cardinality(S)
<1>0. PICK N : N = 1 .. n
  OBVIOUS
<1>1. IsFiniteSet(N) /\ Cardinality(N) = n
  BY <1>0, FS_Interval
<1>2. N \cap S = S
  BY <1>0
<1>3. IsFiniteSet(N \ S) /\ Cardinality(N \ S) = n - Cardinality(S)
  <2>1. /\ IsFiniteSet(N \ S)
        /\ Cardinality(N \ S) = Cardinality(N) - Cardinality(N \cap S)
    BY <1>1, FS_Difference, Zenon
  <2> QED
    BY <1>1, <1>2, <2>1, Zenon
<1>4. {q \in 1 .. r : q \notin T} \in SUBSET (N \ S)
  BY <1>0
<1> QED
  BY <1>3, <1>4, FS_Subset

LEMMA FiniteRows ==
  ASSUME NEW n \in Nat, NEW S \in SUBSET (1 .. n)
  PROVE  IsFiniteSet(S) /\ Cardinality(S) \in Nat /\ Cardinality({}) = 0
<1>0. PICK N : N = 1 .. n
  OBVIOUS
<1>1. IsFiniteSet(N)
  BY <1>0, FS_Interval
<1>2. IsFiniteSet(S)
  BY <1>0, <1>1, FS_Subset
<1> QED
  BY <1>2, FS_CardinalityType, FS_EmptySet

\* Where the OFFSET is after k full pages.
LEMMA OffsetIs ==
  ASSUME TypesInv, limit > 0, NEW k \in Nat, NEW s \in {0, 1}, Full(k, s)
  PROVE  /\ Offset \in Nat /\ Offset <= start
         /\ Offset - Cardinality(seen) <= 1 + k
<1>1. limit \in Nat \ {0} /\ start \in Nat
  BY PagingAssumption DEF TypesInv
<1>2. k * (limit + 1) = k * limit + k /\ k * limit \in Nat
  BY <1>1
<1>3. start = s + k * limit + k /\ Cardinality(seen) = k * limit /\ s <= 1
  BY <1>1, <1>2 DEF Full
<1> QED
  BY <1>1, <1>2, <1>3 DEF Offset

\* The page that is handed on: disjoint from what was given before, and what it
\* leaves out lies before the OFFSET.
LEMMA PageHandedOn ==
  ASSUME TypesInv, PagesInv, state = "loaded", limit > 0
  PROVE  /\ page \cap seen = {}
         /\ \A r \in page : Offset < r /\ r <= Offset + limit
         /\ \A r \in seen \cup page : \A q \in 1 .. r :
              q \notin seen \cup page => q \in 1 .. Offset
<1>1. PICK n \in 0 .. rows : page = PageOf(n, Offset, limit)
  BY DEF TypesInv
<1>2. limit \in Nat \ {0} /\ start \in Nat /\ Offset \in Nat /\ rows \in Nat
  BY PagingAssumption DEF TypesInv, Offset
<1>3. \A r : r \in page <=> r \in 1 .. n /\ Offset < r /\ r <= Offset + limit
  BY <1>1 DEF PageOf
<1>4. \A r \in seen : r \in Nat /\ r <= Offset
  BY <1>2 DEF PagesInv, TypesInv
<1> HIDE DEF Offset
<1> QED
  BY <1>2, <1>3, <1>4
-----------------------------------------------------------------------------
LEMMA TypesStep ==
  ASSUME TypesInv, [Next]_vars PROVE TypesInv'
<1> USE PagingAssumption
<1>1. limit \in Nat /\ start \in Nat /\ rows \in Nat
  BY DEF TypesInv
<1>2. CASE LoadCurrentPublisherInfoList
  <2>1. page' = PageOf(rows, Offset, limit) /\ Offset' = Offset
    BY <1>2 DEF LoadCurrentPublisherInfoList, Rows, PageOf, Offset
  <2>2. page' \subseteq 1 .. rows /\ rows \in 0 .. rows
    BY <1>1, <2>1 DEF PageOf
  <2> QED
    BY <1>2, <2>1, <2>2 DEF LoadCurrentPublisherInfoList, TypesInv
<1>3. CASE OnPublisherInfoListLoaded
  <2>1. start' \in Nat /\ state' \in {"query", "done"} /\ seen' \subseteq 1 .. rows
    BY <1>1, <1>3 DEF OnPublisherInfoListLoaded, NextRecord, TypesInv
  <2> QED
    BY <1>3, <2>1 DEF OnPublisherInfoListLoaded, TypesInv
<1>4. CASE SaveRow
  <2>1. /\ rows' = rows + 1 /\ rows' \in 0 .. MaxRows /\ Offset' = Offset
        /\ UNCHANGED <<limit, start, page, state, seen>>
    BY <1>1, <1>4 DEF SaveRow, Offset
  <2>2. 1 .. rows \subseteq 1 .. rows' /\ 0 .. rows \subseteq 0 .. rows'
    BY <1>1, <2>1
  <2> QED
    BY <2>1, <2>2 DEF TypesInv
<1>5. CASE UNCHANGED vars
  BY <1>5 DEF vars, TypesInv, Offset
<1> QED
  BY <1>2, <1>3, <1>4, <1>5 DEF Next

LEMMA PagesStep ==
  ASSUME TypesInv, PagesInv, [Next]_vars PROVE PagesInv'
<1>1. limit \in Nat /\ start \in Nat /\ rows \in Nat /\ page \in SUBSET (1 .. rows)
      /\ seen \in SUBSET (1 .. rows)
  BY PagingAssumption DEF TypesInv
<1>2. CASE UNCHANGED <<limit, start, seen>> /\ (state = "done" => state' = "done")
  BY <1>2 DEF PagesInv, Full, Offset
<1>3. ASSUME OnPublisherInfoListLoaded, state' # "done"
      PROVE  /\ Cardinality(page) = limit /\ start' = start + limit + 1
             /\ seen' = seen \cup page /\ limit' = limit /\ state = "loaded"
  BY <1>3 DEF OnPublisherInfoListLoaded, NextRecord
<1>4. ASSUME OnPublisherInfoListLoaded, state' # "done", limit = 0 PROVE seen' = {}
  <2>1. page = {}
    BY <1>1, <1>3, <1>4, FiniteRows, FS_EmptySet
  <2> QED
    BY <1>3, <1>4, <2>1 DEF PagesInv
<1>5. ASSUME OnPublisherInfoListLoaded, state' # "done", limit > 0
      PROVE  /\ \A r \in seen' : r <= Offset'
             /\ \E k \in Nat, s \in {0, 1} : Full(k, s)'
  <2>1. PICK k \in Nat, s \in {0, 1} : Full(k, s)
    BY <1>3, <1>5 DEF PagesInv
  <2>2. Offset \in Nat /\ Offset <= start
    BY <1>5, <2>1, OffsetIs
  <2>3. Offset' = start + limit + 1
    BY <1>1, <1>3, <1>5 DEF Offset
  <2>4. ASSUME NEW r \in seen' PROVE r <= Offset'
    <3>1. r \in Nat /\ r <= Offset + limit
      <4>1. CASE r \in seen
        BY <1>1, <1>3, <1>5, <2>2, <4>1 DEF PagesInv
      <4>2. CASE r \in page
        BY <1>1, <1>3, <1>5, <4>2, PageHandedOn
      <4> QED
        BY <1>3, <1>5, <4>1, <4>2
    <3> QED
      BY <1>1, <2>2, <2>3, <3>1
  <2>5. Cardinality(seen') = Cardinality(seen) + limit
    <3>1. page \cap seen = {} /\ seen \cap page = {}
      BY <1>3, <1>5, PageHandedOn
    <3>2. /\ IsFiniteSet(seen) /\ IsFiniteSet(page) /\ Cardinality({}) = 0
          /\ Cardinality(seen) \in Nat
      BY <1>1, FiniteRows
    <3>3. Cardinality(seen \cup page)
            = Cardinality(seen) + Cardinality(page) - Cardinality(seen \cap page)
      BY <3>2, FS_Union
    <3>4. Cardinality(seen \cap page) = 0
      BY <3>1, <3>2, Zenon
    <3>5. Cardinality(seen') = Cardinality(seen \cup page) /\ Cardinality(page) = limit
      BY <1>3, <1>5, Zenon
    <3> QED
      BY <1>1, <3>2, <3>3, <3>4, <3>5
  <2>6. (k + 1) * limit = k * limit + limit /\ k * limit \in Nat
    BY <1>1
  <2>7. (k + 1) * (limit + 1) = k * (limit + 1) + limit + 1 /\ k * (limit + 1) \in Nat
    BY <1>1
  <2>8. Full(k + 1, s)'
    BY <1>1, <1>3, <1>5, <2>1, <2>5, <2>6, <2>7 DEF Full
  <2>9. k + 1 \in Nat
    OBVIOUS
  <2> QED
    BY <2>4, <2>8, <2>9
<1>6. CASE OnPublisherInfoListLoaded
  <2>1. limit' = limit
    BY <1>6 DEF OnPublisherInfoListLoaded
  <2> QED
    BY <1>4, <1>5, <1>6, <2>1 DEF PagesInv
<1> QED
  BY <1>2, <1>6 DEF Next, LoadCurrentPublisherInfoList, SaveRow, vars

\* A page boundary passes over the rows between the last page and the OFFSET.
LEMMA MissesStep ==
  ASSUME IInv, [Next]_vars PROVE MissesInv'
<1> USE DEF IInv
<1>1. CASE UNCHANGED <<limit, seen>>
  BY <1>1 DEF MissesInv, MissesAreBounded, MissedBefore
<1>2. ASSUME OnPublisherInfoListLoaded, limit > 0, NEW r \in seen'
      PROVE  Cardinality({q \in 1 .. r : q \notin seen'})
               <= 1 + Cardinality(seen') \div limit
  <2>1. seen' = seen \cup page /\ state = "loaded"
    BY <1>2 DEF OnPublisherInfoListLoaded
  <2>2. PICK k \in Nat, s \in {0, 1} : Full(k, s)
    BY <1>2, <2>1 DEF PagesInv
  <2>3. /\ limit \in Nat \ {0} /\ rows \in Nat
        /\ seen \in SUBSET (1 .. rows) /\ page \in SUBSET (1 .. rows)
    BY <1>2, PagingAssumption DEF TypesInv
  <2>4. Offset \in Nat /\ Offset - Cardinality(seen) <= 1 + k
    BY <1>2, <2>2, OffsetIs
  <2>5. seen \in SUBSET (1 .. Offset)
    <3>1. \A q \in seen : q \in Nat /\ 1 <= q /\ q <= Offset
      BY <1>2, <2>1, <2>3 DEF PagesInv
    <3> QED
      BY <2>4, <3>1
  <2>6. \A q \in 1 .. r : q \notin seen' => q \in 1 .. Offset
    BY <1>2, <2>1, PageHandedOn
  <2> HIDE DEF Offset
  <2>7. Cardinality({q \in 1 .. r : q \notin seen'}) <= Offset - Cardinality(seen)
    BY <2>1, <2>4, <2>5, <2>6, Misses
  <2>8. /\ Cardinality(seen) \in Nat /\ Cardinality(seen') \in Nat
        /\ Cardinality(seen) <= Cardinality(seen')
    <3>1. seen' \in SUBSET (1 .. rows) /\ seen \in SUBSET seen'
      BY <2>1, <2>3
    <3> QED
      BY <2>3, <3>1, FiniteRows, FS_Subset
  <2>9. k <= Cardinality(seen') \div limit
    <3>1. k * limit = Cardinality(seen)
      BY <2>2 DEF Full
    <3> QED
      BY <2>3, <2>8, <3>1, FullPages
  <2>10. Cardinality({q \in 1 .. r : q \notin seen'}) \in Nat
    <3>1. {q \in 1 .. r : q \notin seen'} \in SUBSET (1 .. Offset)
      BY <2>6
    <3> QED
      BY <2>4, <3>1, FiniteRows
  <2>11. Cardinality(seen') \div limit \in Nat
    BY <2>3, <2>8
  <2> QED
    BY <2>4, <2>7, <2>8, <2>9, <2>10, <2>11
<1>3. CASE OnPublisherInfoListLoaded
  <2>1. limit' = limit
    BY <1>3 DEF OnPublisherInfoListLoaded
  <2> QED
    BY <1>2, <1>3, <2>1 DEF MissesInv, MissesAreBounded, MissedBefore
<1> QED
  BY <1>1, <1>3 DEF Next, LoadCurrentPublisherInfoList, SaveRow, vars

\* The inductive invariant of reading by pages.
THEOREM Invariant == Spec => []IInv
<1>1. Init => IInv
  <2> SUFFICES ASSUME Init PROVE IInv
    OBVIOUS
  <2>1. /\ rows \in 0 .. MaxRows /\ limit \in Nat /\ limit \in Limits
        /\ start \in {0, 1} /\ page = {} /\ seen = {} /\ state = "query"
    BY PagingAssumption DEF Init
  <2>2. Cardinality({}) = 0
    BY FS_EmptySet
  <2>3. \E k \in Nat, s \in {0, 1} : Full(k, s)
    <3>1. Full(0, start)
      BY <2>1, <2>2 DEF Full
    <3> QED
      BY <2>1, <3>1
  <2> QED
    BY <2>1, <2>3 DEF IInv, TypesInv, PagesInv, MissesInv, MissesAreBounded
<1>2. IInv /\ [Next]_vars => IInv'
  BY TypesStep, PagesStep, MissesStep DEF IInv
<1> QED
  BY <1>1, <1>2, PTL DEF Spec

\* The types: a page and what was given are rows of the table.
THEOREM Typing == Spec => []TypeOK
<1>1. IInv => TypeOK
  BY PagingAssumption DEF IInv, TypesInv, TypeOK
<1> QED
  BY <1>1, Invariant, PTL

\* No row is given twice, whatever is saved between the queries
\* (OnPublisherInfoListLoaded hands each page on), a page size of 0 included.
THEOREM GivenOnce == Spec => RowOnce
<1>1. IInv /\ [Next]_vars => (state = "loaded" /\ seen' # seen => page \cap seen = {})
  <2> SUFFICES ASSUME IInv, state = "loaded" PROVE page \cap seen = {}
    OBVIOUS
  <2>1. limit = 0 \/ limit > 0
    BY PagingAssumption DEF IInv, TypesInv
  <2> QED
    BY <2>1, PageHandedOn DEF IInv, PagesInv
<1> QED
  BY <1>1, Invariant, PTL DEF Spec, RowOnce

\* Reading with a LIMIT passes over one row for each page boundary at most, and
\* over one more if the client began with start = 1 (next_record is
\* start + limit + 1).
THEOREM FewMissed == Spec => [](limit > 0 => MissesAreBounded)
<1>1. IInv => (limit > 0 => MissesAreBounded)
  BY DEF IInv, MissesInv
<1> QED
  BY <1>1, Invariant, PTL
=============================================================================

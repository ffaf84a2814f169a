---------------------------- MODULE QueryApiProofs ----------------------------
(***************************************************************************)
(* What a reader of read-service can rely on, for every set of series and  *)
(* times, every filter and limit, and every table below 2^31 rows.         *)
(*                                                                         *)
(* A row that the reader has not received stands behind at least as many   *)
(* newer rows as it has received: insertions keep that true, and the next  *)
(* page starts no later than such a row.  While nothing matching is        *)
(* inserted, a received row has exactly its place's number of newer rows.  *)
(***************************************************************************)
EXTENDS QueryApi, FiniteSetTheorems, SequenceTheorems, TLAPS

\* The rows of a table with a later time.
Newer(table, row) == {r \in table : r.ts > row.ts}

\* No two rows of a table have the same time.
AllDiffer(table) == \A r, q \in table : r.ts = q.ts => r = q

\* Ids count the rows.
TableInv ==
    /\ IsFiniteSet(rows)
    /\ Cardinality(rows) <= MaxRows
    /\ \A r \in rows : r.id <= Cardinality(rows)
    /\ \A r, q \in rows : r.id = q.id => r = q

\* The state of a series is an event of it.
StateInv == \A s \in Series : state[s] # Null => state[s].series = s

\* The reader has no more than there is.
ReaderInv ==
    /\ atStart \subseteq Matching(rows, filter)
    /\ Len(result) <= Cardinality(Matching(rows, filter))

\* What it has not received is still ahead of it.
MissingInv ==
    AllDiffer(Matching(rows, filter)) =>
        \A r \in atStart \ Received :
            reading /\ Cardinality(Newer(Matching(rows, filter), r)) >= Len(result)

\* Without insertions its rows are the newest of those at the start.
QuietInv ==
    ~grown =>
        /\ reading => atStart = Matching(rows, filter)
        /\ AllDiffer(atStart) =>
              /\ \A i \in 1 .. Len(result) : /\ result[i] \in atStart
                                             /\ Cardinality(Newer(atStart, result[i])) = i - 1
              /\ ~reading => Len(result) = Cardinality(atStart)

IInv == TypeOK /\ TableInv /\ StateInv /\ ReaderInv /\ MissingInv /\ QuietInv

-----------------------------------------------------------------------------
(* Counting *)

\* A part of a finite set has fewer members, or all of them.
LEMMA PartCount ==
    ASSUME NEW T, IsFiniteSet(T), NEW P \in SUBSET T
    PROVE  /\ IsFiniteSet(P)
           /\ Cardinality(P) \in Nat /\ Cardinality(T) \in Nat
           /\ Cardinality(P) <= Cardinality(T)
           /\ P # T => Cardinality(P) < Cardinality(T)
<1>1. /\ IsFiniteSet(P) /\ Cardinality(P) <= Cardinality(T)
      /\ Cardinality(T) = Cardinality(P) => T = P
  BY FS_Subset
<1>2. Cardinality(P) \in Nat /\ Cardinality(T) \in Nat
  BY <1>1, FS_CardinalityType
<1> QED
  BY <1>1, <1>2

\* An interval from 1 on.
LEMMA IntervalCount ==
    ASSUME NEW n \in Nat
    PROVE  IsFiniteSet(1 .. n) /\ Cardinality(1 .. n) = n
<1>1. 1 \in Int /\ n \in Int /\ (1 > n => n = 0) /\ n - 1 + 1 = n
  OBVIOUS
<1> QED
  BY <1>1, FS_Interval

\* An order of a set without repetitions leaves no member out.
LEMMA OrderOnto ==
    ASSUME NEW T, IsFiniteSet(T), NEW order \in [1 .. Cardinality(T) -> T],
           \A i, j \in DOMAIN order : i < j => order[i] # order[j]
    PROVE  \A r \in T : \E k \in 1 .. Cardinality(T) : order[k] = r
<1> DEFINE n == Cardinality(T)
<1>1. n \in Nat
  BY FS_CardinalityType
<1> HIDE DEF n
<1>2. order \in [1 .. n -> T] /\ \A i, j \in 1 .. n : i < j => order[i] # order[j]
  BY DEF n
<1>3. order \in Injection(1 .. n, T)
  <2>1. ASSUME NEW i \in 1 .. n, NEW j \in 1 .. n, order[i] = order[j] PROVE i = j
    BY <1>1, <1>2, <2>1
  <2> QED
    BY <1>2, <2>1 DEF Injection, IsInjective
<1>4. Cardinality(1 .. n) = Cardinality(T)
  BY <1>1, IntervalCount DEF n
<1>5. order \in Surjection(1 .. n, T)
  <2>1. Cardinality(1 .. n) = Cardinality(T) <=> order \in Surjection(1 .. n, T)
    BY <1>3, FS_Injection
  <2> QED
    BY <1>4, <2>1
<1>6. \A r \in T : \E k \in 1 .. n : order[k] = r
  BY <1>5 DEF Surjection
<1> QED
  BY <1>6 DEF n

\* The row at place k of an order by time has k - 1 newer ones.
LEMMA OrderRank ==
    ASSUME NEW T \in SUBSET Row, IsFiniteSet(T), AllDiffer(T), NEW order \in Ordered(T),
           NEW k \in 1 .. Cardinality(T)
    PROVE  order[k] \in T /\ Cardinality(Newer(T, order[k])) = k - 1
<1> DEFINE n == Cardinality(T)
           front == [i \in 1 .. k - 1 |-> order[i]]
           N == Newer(T, order[k])
<1>1. n \in Nat
  BY FS_CardinalityType
<1> HIDE DEF n
<1>2. /\ order \in [1 .. n -> T] /\ k \in 1 .. n /\ k - 1 \in Nat
      /\ \A i, j \in 1 .. n : i < j => order[i] # order[j] /\ order[i].ts >= order[j].ts
      /\ \A r \in T : r.ts \in Int
  <2>1. /\ order \in [1 .. Cardinality(T) -> T]
        /\ \A i, j \in DOMAIN order :
               i < j => order[i] # order[j] /\ order[i].ts >= order[j].ts
    BY Zenon DEF Ordered
  <2>2. DOMAIN order = 1 .. n /\ order \in [1 .. n -> T]
    BY <2>1 DEF n
  <2>3. k \in 1 .. n
    BY DEF n
  <2>4. \A r \in T : r.ts \in Int
    BY QueryAssumption DEF Row
  <2> QED
    BY <1>1, <2>1, <2>2, <2>3, <2>4
<1>3. \A r \in T : \E i \in 1 .. n : order[i] = r
  <2>1. /\ order \in [1 .. Cardinality(T) -> T]
        /\ \A i, j \in DOMAIN order : i < j => order[i] # order[j]
    BY Zenon DEF Ordered
  <2> QED
    BY <2>1, OrderOnto DEF n
<1>4. ASSUME NEW i \in 1 .. k - 1 PROVE order[i] \in N
  <2>1. i \in 1 .. n /\ i < k
    BY <1>1, <1>2
  <2>2. order[i] # order[k] /\ order[i].ts >= order[k].ts /\ order[i] \in T /\ order[k] \in T
    BY <1>2, <2>1
  <2>3. order[i].ts # order[k].ts
    BY <2>2 DEF AllDiffer
  <2>4. order[i].ts > order[k].ts
    BY <1>2, <2>2, <2>3
  <2> QED
    BY <2>2, <2>4 DEF Newer
<1>5. ASSUME NEW r \in N PROVE \E i \in 1 .. k - 1 : order[i] = r
  <2>1. r \in T /\ r.ts > order[k].ts
    BY DEF Newer
  <2>2. PICK i \in 1 .. n : order[i] = r
    BY <1>3, <2>1
  <2>3. i < k
    <3>1. i # k
      BY <1>2, <2>1, <2>2
    <3>2. ~ (k < i)
      BY <1>2, <2>1, <2>2
    <3> QED
      BY <1>1, <1>2, <3>1, <3>2
  <2>4. i \in 1 .. k - 1
    BY <1>1, <1>2, <2>3
  <2> QED
    BY <2>2, <2>4
<1>6. front \in [1 .. k - 1 -> N] /\ \A i \in 1 .. k - 1 : front[i] = order[i]
  BY <1>4
<1> HIDE DEF front, N
<1>7. front \in Surjection(1 .. k - 1, N)
  <2>1. \A r \in N : \E i \in 1 .. k - 1 : front[i] = r
    BY <1>5, <1>6
  <2> QED
    BY <1>6, <2>1 DEF Surjection
<1>8. front \in Injection(1 .. k - 1, N)
  <2>1. ASSUME NEW i \in 1 .. k - 1, NEW j \in 1 .. k - 1, front[i] = front[j] PROVE i = j
    <3>1. i \in 1 .. n /\ j \in 1 .. n
      BY <1>1, <1>2
    <3>2. ~ (i < j) /\ ~ (j < i)
      BY <1>2, <1>6, <2>1, <3>1
    <3> QED
      BY <3>2
  <2> QED
    BY <1>6, <2>1 DEF Injection, IsInjective
<1>9. Cardinality(N) = k - 1
  <2>1. ExistsBijection(1 .. k - 1, N)
    BY <1>7, <1>8 DEF ExistsBijection, Bijection
  <2> QED
    BY <1>2, <2>1, FS_CountingElements
<1> QED
  BY <1>2, <1>9 DEF N

\* Rows with different ids can be listed by them.
LEMMA UpdatedOrderExists ==
    ASSUME NEW T \in SUBSET Row, IsFiniteSet(T), \A r, q \in T : r.id = q.id => r = q
    PROVE  /\ UpdatedOrder(T) \in [1 .. Cardinality(T) -> T]
           /\ \A i, j \in 1 .. Cardinality(T) :
                  i < j => UpdatedOrder(T)[i].id > UpdatedOrder(T)[j].id
<1> DEFINE n == Cardinality(T)
           After(r) == {q \in T : q.id > r.id}
           place == [r \in T |-> Cardinality(After(r)) + 1]
           order == [i \in 1 .. n |-> CHOOSE r \in T : place[r] = i]
<1>1. n \in Nat /\ \A r \in T : r.id \in Int
  BY FS_CardinalityType, QueryAssumption DEF Row
<1> HIDE DEF n
<1>2. ASSUME NEW r \in T
      PROVE  Cardinality(After(r)) \in Nat /\ Cardinality(After(r)) < n
  <2>1. After(r) \in SUBSET T /\ r \notin After(r)
    BY <1>1
  <2> QED
    BY <2>1, PartCount DEF n
<1>3. ASSUME NEW r \in T, NEW q \in T, r.id < q.id
      PROVE  Cardinality(After(q)) < Cardinality(After(r))
  <2>1. /\ After(q) \in SUBSET After(r) /\ After(r) \in SUBSET T
        /\ q \in After(r) /\ q \notin After(q)
    BY <1>1, <1>3
  <2>2. IsFiniteSet(After(r))
    BY <2>1, PartCount
  <2> HIDE DEF After
  <2> QED
    BY <2>1, <2>2, PartCount
<1>4. place \in [T -> 1 .. n] /\ \A r \in T : place[r] = Cardinality(After(r)) + 1
  BY <1>1, <1>2
<1>5. ASSUME NEW r \in T, NEW q \in T, r.id < q.id PROVE place[q] < place[r]
  <2>1. Cardinality(After(q)) \in Nat /\ Cardinality(After(r)) \in Nat
    BY <1>2
  <2> HIDE DEF After, place
  <2> QED
    BY <1>3, <1>4, <1>5, <2>1
<1> HIDE DEF place
<1>6. place \in Injection(T, 1 .. n)
  <2>1. ASSUME NEW r \in T, NEW q \in T, place[r] = place[q] PROVE r = q
    <3>1. place[r] \in Nat /\ place[q] \in Nat
      BY <1>4
    <3>2. ~ (r.id < q.id) /\ ~ (q.id < r.id)
      BY <1>5, <2>1, <3>1
    <3> QED
      BY <1>1, <3>2
  <2> QED
    BY <1>4, <2>1 DEF Injection, IsInjective
<1>7. \A i \in 1 .. n : \E r \in T : place[r] = i
  <2>1. IsFiniteSet(1 .. n) /\ Cardinality(T) = Cardinality(1 .. n)
    BY <1>1, IntervalCount DEF n
  <2>2. Cardinality(T) = Cardinality(1 .. n) <=> place \in Surjection(T, 1 .. n)
    BY <1>6, <2>1, FS_Injection
  <2> QED
    BY <2>1, <2>2 DEF Surjection
<1>8. /\ order \in [1 .. n -> T]
      /\ \A i \in 1 .. n : place[order[i]] = i
  BY <1>7
<1> HIDE DEF order
<1>9. ASSUME NEW i \in 1 .. n, NEW j \in 1 .. n, i < j PROVE order[i].id > order[j].id
  <2>1. order[i] \in T /\ order[j] \in T /\ place[order[i]] = i /\ place[order[j]] = j
    BY <1>8
  <2>2. ~ (order[i].id < order[j].id)
    BY <1>5, <1>9, <2>1
  <2>3. order[i].id # order[j].id
    BY <1>9, <2>1
  <2> QED
    BY <1>1, <2>1, <2>2, <2>3
<1>10. \E o \in [1 .. Cardinality(T) -> T] :
          \A i, j \in DOMAIN o : i < j => o[i].id > o[j].id
  <2>1. order \in [1 .. Cardinality(T) -> T]
    BY <1>8 DEF n
  <2>2. \A i, j \in DOMAIN order : i < j => order[i].id > order[j].id
    BY <1>8, <1>9
  <2> QED
    BY <2>1, <2>2
<1> QED
  BY <1>10 DEF UpdatedOrder

\* Below HalfWord, the conversion keeps a natural number.
LEMMA Int32Keeps == ASSUME NEW k \in Nat, k < HalfWord PROVE Int32(k) = k
<1>1. HalfWord \in Nat /\ k + HalfWord \in 0 .. 2 * HalfWord - 1 /\ 2 * HalfWord \in Nat \ {0}
  BY QueryAssumption
<1>2. \A a, b \in Nat : a < b => a % b = a
  OBVIOUS
<1>3. (k + HalfWord) % (2 * HalfWord) = k + HalfWord
  BY <1>1, <1>2
<1> QED
  BY <1>1, <1>3 DEF Int32

\* The limits are positive.
LEMMA Limits ==
    ASSUME NEW raw \in RawLimit
    PROVE  Limit(raw) \in Nat \ {0} /\ ListingSize(raw) \in Nat \ {0}
<1>1. raw \in Int /\ HalfWord \in Nat \ {0} /\ 2 * HalfWord \in Nat \ {0}
  BY QueryAssumption
<1>2. \A a \in Int, b \in Nat \ {0} : a % b \in Int
  OBVIOUS
<1>3. raw + HalfWord \in Int
  BY <1>1
<1>4. (raw + HalfWord) % (2 * HalfWord) \in Int
  BY <1>1, <1>2, <1>3
<1>5. Int32(raw) \in Int
  BY <1>1, <1>4 DEF Int32
<1> QED
  BY <1>5, QueryAssumption DEF Limit, ListingSize

\* The rows behind the offset, as many as are asked for or are left of n.
Behind(page, order, n, offset, size) ==
    /\ \A i \in 1 .. Len(page) : offset + i \in 1 .. n /\ page[i] = order[offset + i]
    /\ \/ offset + Len(page) = n
       \/ offset + Len(page) < n /\ Len(page) = size
       \/ offset > n /\ Len(page) = 0

\* They are on the page.
LEMMA PageIs ==
    ASSUME NEW T, NEW n \in Nat, NEW order \in [1 .. n -> T],
           NEW offset \in Nat, NEW size \in Nat \ {0}
    PROVE  /\ Page(order, offset, size) \in Seq(T)
           /\ Behind(Page(order, offset, size), order, n, offset, size)
<1> USE DEF Behind
<1> DEFINE top == IF offset + size < n THEN offset + size ELSE n
           page == SubSeq(order, offset + 1, top)
<1>1. order \in Seq(T) /\ Len(order) = n
  OBVIOUS
<1>2. Page(order, offset, size) = page
  BY <1>1 DEF Page
<1>3. top \in Nat /\ top <= n
  OBVIOUS
<1>4. CASE offset >= n
  <2>1. offset + 1 > top
    BY <1>3, <1>4
  <2>2. page = <<>>
    <3> HIDE DEF top
    <3> QED
      BY <1>1, <1>3, <2>1
  <2> QED
    BY <1>2, <1>4, <2>2
<1>5. CASE offset < n
  <2>1. offset + 1 \in 1 .. Len(order) /\ top \in offset + 1 .. n
    BY <1>1, <1>5
  <2>2. /\ top = offset + size \/ top = n
        /\ top # n => top = offset + size /\ top < n
    BY <1>5
  <2> HIDE DEF top
  <2>3. /\ page \in Seq(T)
        /\ Len(page) = top - offset
        /\ \A i \in 1 .. top - offset : page[i] = order[offset + i]
    <3>1. page = [i \in 1 .. top - offset |-> order[offset + i]]
      BY <1>1, <1>3, <2>1
    <3>2. \A i \in 1 .. top - offset : order[offset + i] \in T
      BY <1>3, <2>1
    <3>3. top - offset \in Nat
      BY <2>1
    <3>4. page \in [1 .. top - offset -> T]
      BY <3>1, <3>2
    <3> HIDE DEF page
    <3> QED
      BY <3>1, <3>3, <3>4
  <2> HIDE DEF page
  <2> QED
    BY <1>2, <1>3, <2>1, <2>2, <2>3
<1> QED
  BY <1>4, <1>5

\* The page has the k-th of an order of n, or only some before it.
UpToOrBefore(page, order, n, k) ==
    \/ \E i \in 1 .. Len(page) : page[i] = order[k]
    \/ /\ page # <<>>
       /\ \A i \in 1 .. Len(page) : \E j \in 1 .. n : j < k /\ page[i] = order[j]

\* So it is with a first page.
LEMMA FirstPage ==
    ASSUME NEW T, NEW n \in Nat, NEW order \in [1 .. n -> T],
           NEW size \in Nat \ {0}, NEW k \in 1 .. n
    PROVE  UpToOrBefore(Page(order, 0, size), order, n, k)
<1> USE DEF UpToOrBefore
<1> DEFINE page == Page(order, 0, size)
<1>1. page \in Seq(T) /\ Behind(page, order, n, 0, size)
  BY PageIs
<1> HIDE DEF page
<1>2. Len(page) \in Nat
  BY <1>1
<1>3. \A i \in 1 .. Len(page) : i \in 1 .. n /\ page[i] = order[i]
  <2>1. ASSUME NEW i \in 1 .. Len(page) PROVE i \in 1 .. n /\ page[i] = order[i]
    <3>1. 0 + i = i
      BY <1>2
    <3>2. 0 + i \in 1 .. n /\ page[0 + i] = order[0 + i]
      BY <1>1, <3>1 DEF Behind
    <3> QED
      BY <3>1, <3>2
  <2> QED
    BY <2>1
<1>4. Len(page) = n \/ Len(page) = size
  <2> DEFINE l == Len(page)
  <2>1. 0 + l = n \/ (0 + l < n /\ l = size) \/ (0 > n /\ l = 0)
    BY <1>1 DEF Behind
  <2>2. l \in Nat
    BY <1>2
  <2> HIDE DEF l
  <2>3. l = n \/ l = size
    BY <2>1, <2>2
  <2> QED
    BY <2>3 DEF l
<1>5. CASE k <= Len(page)
  <2>1. k \in 1 .. Len(page)
    BY <1>2, <1>5
  <2> QED
    BY <1>3, <2>1 DEF page
<1>6. CASE ~ (k <= Len(page))
  <2>1. Len(page) \in Nat \ {0}
    BY <1>2, <1>4, <1>6
  <2>2. page # <<>>
    BY <2>1
  <2>3. \A i \in 1 .. Len(page) : i < k
    BY <1>2, <1>6
  <2> QED
    BY <1>3, <2>2, <2>3 DEF page
<1> QED
  BY <1>5, <1>6

\* A sequence over a set is one over any larger set.
LEMMA SeqGrows ==
    ASSUME NEW S, NEW T, S \subseteq T, NEW w \in Seq(S)
    PROVE  w \in Seq(T)
<1>1. Len(w) \in Nat /\ w \in [1 .. Len(w) -> S]
  OBVIOUS
<1>2. w \in [1 .. Len(w) -> T]
  BY <1>1
<1> QED
  BY <1>1, <1>2

-----------------------------------------------------------------------------
(* The invariant *)

\* The rows that match are some of the table.
LEMMA MatchingCount ==
    ASSUME TypeOK, TableInv, NEW f
    PROVE  /\ Matching(rows, f) \in SUBSET rows /\ Matching(rows, f) \in SUBSET Row
           /\ IsFiniteSet(Matching(rows, f))
           /\ Cardinality(Matching(rows, f)) \in Nat
           /\ Cardinality(Matching(rows, f)) <= MaxRows
<1>1. Matching(rows, f) \in SUBSET rows /\ rows \subseteq Row
  BY DEF Matching, TypeOK
<1>2. IsFiniteSet(rows) /\ Cardinality(rows) <= MaxRows /\ MaxRows \in Nat
  BY QueryAssumption DEF TableInv
<1> QED
  BY <1>1, <1>2, PartCount

\* The empty table and a reader who has asked for nothing.
LEMMA InitIInv == Init => IInv
<1> SUFFICES ASSUME Init PROVE IInv
  OBVIOUS
<1>1. /\ rows = {} /\ result = <<>> /\ listed = <<>> /\ atStart = {} /\ reading = FALSE
      /\ state = [s \in Series |-> Null] /\ filter \in Filter /\ limit \in RawLimit
      /\ grown = FALSE
  BY DEF Init
<1>2. IsFiniteSet({}) /\ Cardinality({}) = 0 /\ MaxRows \in Nat
  BY FS_EmptySet, QueryAssumption
<1>3. Matching(rows, filter) = {} /\ Received = {}
  BY <1>1 DEF Matching, Received
<1>4. TypeOK
  <2>1. <<>> \in Seq(rows) /\ Len(<<>>) = 0 /\ 0 <= MaxRows
    BY <1>2
  <2>2. state \in [Series -> rows \cup {Null}]
    BY <1>1
  <2> QED
    BY <1>1, <2>1, <2>2 DEF TypeOK
<1>5. TableInv /\ StateInv
  BY <1>1, <1>2 DEF TableInv, StateInv
<1>6. ReaderInv
  <2>1. Len(result) = 0 /\ atStart = {} /\ Cardinality(Matching(rows, filter)) = 0
    BY <1>1, <1>2, <1>3
  <2> QED
    BY <2>1 DEF ReaderInv
<1>7. MissingInv
  BY <1>1, <1>3 DEF MissingInv
<1>8. QuietInv
  BY <1>1, <1>2, <1>3 DEF QuietInv
<1> QED
  BY <1>4, <1>5, <1>6, <1>7, <1>8 DEF IInv

\* An insertion adds one row, behind all ids, and none of the reader's.
LEMMA InsertIInv ==
    ASSUME IInv, NEW s \in Series, NEW t \in Timestamp, InsertAnomalyEvent(s, t)
    PROVE  IInv'
<1> DEFINE n == Cardinality(rows)
           row == NextRow(s, t)
           M == Matching(rows, filter)
<1>1. /\ n < MaxRows /\ rows' = rows \cup {row} /\ Upsert(row)
      /\ grown' = (grown \/ (reading /\ Matches(row, filter)))
      /\ UNCHANGED <<reading, filter, limit, result, listed, atStart>>
  BY Zenon DEF InsertAnomalyEvent
<1>2. TypeOK /\ TableInv /\ StateInv /\ ReaderInv /\ MissingInv /\ QuietInv
  BY DEF IInv
<1>3. n \in Nat /\ MaxRows \in Nat /\ rows \subseteq Row
  BY <1>2, QueryAssumption, FS_CardinalityType DEF TableInv, TypeOK
<1> HIDE DEF n
<1>4. row \in Row /\ row.id = n + 1 /\ row.series = s /\ row \notin rows
  <2>1. row = [id |-> n + 1, series |-> s, ts |-> t]
    BY DEF NextRow, n
  <2>2. \A r \in rows : r.id <= n
    BY <1>2 DEF TableInv, n
  <2> HIDE DEF row
  <2>3. ~ (n + 1 <= n) /\ n + 1 \in 1 .. MaxRows
    BY <1>1, <1>3
  <2> QED
    BY <2>1, <2>2, <2>3 DEF Row
<1> HIDE DEF row
<1>5. state' = [state EXCEPT ![s] = row]
  BY <1>1, <1>4 DEF Upsert
<1>6. IsFiniteSet(rows') /\ Cardinality(rows') = n + 1
  BY <1>1, <1>2, <1>4, FS_AddElement DEF TableInv, n
<1>7. TypeOK'
  <2>1. rows' \subseteq Row /\ rows \subseteq rows'
    BY <1>1, <1>3, <1>4
  <2>2. state' \in [Series -> rows' \cup {Null}]
    BY <1>1, <1>2, <1>5 DEF TypeOK
  <2>3. result' \in Seq(rows') /\ listed' \in Seq(rows')
    <3>1. result \in Seq(rows) /\ listed \in Seq(rows)
      BY <1>2 DEF TypeOK
    <3>2. result \in Seq(rows') /\ listed \in Seq(rows')
      BY <2>1, <3>1, SeqGrows
    <3> QED
      BY <1>1, <3>2
  <2>4. grown' \in BOOLEAN
    BY <1>1
  <2> QED
    BY <1>1, <1>2, <2>1, <2>2, <2>3, <2>4 DEF TypeOK
<1>8. TableInv'
  <2>1. \A r \in rows : r.id <= n /\ r.id \in Nat
    BY <1>2, <1>3 DEF TableInv, Row, n
  <2>2. \A r \in rows' : r.id <= n + 1
    BY <1>1, <1>3, <1>4, <2>1
  <2>3. \A r \in rows : r.id # row.id
    BY <1>3, <1>4, <2>1
  <2>4. \A r, q \in rows' : r.id = q.id => r = q
    BY <1>1, <1>2, <2>3 DEF TableInv
  <2>5. n + 1 <= MaxRows
    BY <1>1, <1>3
  <2> QED
    BY <1>6, <2>2, <2>4, <2>5 DEF TableInv
<1>9. StateInv'
  <2>1. state \in [Series -> rows \cup {Null}]
    BY <1>2 DEF TypeOK
  <2>2. \A q \in Series : state'[q] # Null => state'[q].series = q
    BY <1>2, <1>4, <1>5, <2>1 DEF StateInv
  <2> QED
    BY <2>2 DEF StateInv
<1>10. M \subseteq M' /\ IsFiniteSet(M') /\ Cardinality(M') \in Nat
  <2>1. M \subseteq M'
    BY <1>1 DEF Matching
  <2>2. IsFiniteSet(M') /\ Cardinality(M') \in Nat
    <3>1. M' \in SUBSET rows'
      BY DEF Matching
    <3> QED
      BY <1>6, <3>1, PartCount
  <2> QED
    BY <2>1, <2>2
<1>11. M \in SUBSET rows /\ IsFiniteSet(M) /\ Cardinality(M) \in Nat
  BY <1>2, MatchingCount
<1>12. result' = result /\ atStart' = atStart /\ Received' = Received /\ Len(result) \in Nat
  BY <1>1, <1>2 DEF Received, TypeOK
<1>13. ReaderInv'
  <2>1. Cardinality(M) <= Cardinality(M')
    BY <1>10, PartCount
  <2>2. atStart \subseteq M /\ Len(result) <= Cardinality(M)
    BY <1>2 DEF ReaderInv
  <2>3. atStart' \subseteq M' /\ Len(result') <= Cardinality(M')
    BY <1>10, <1>11, <1>12, <2>1, <2>2
  <2> QED
    BY <2>3 DEF ReaderInv
<1>14. MissingInv'
  <2>1. ASSUME AllDiffer(M'), NEW r \in atStart \ Received
        PROVE  reading /\ Cardinality(Newer(M', r)) >= Len(result)
    <3>1. AllDiffer(M)
      BY <1>10, <2>1 DEF AllDiffer
    <3>2. reading /\ Cardinality(Newer(M, r)) >= Len(result)
      BY <1>2, <2>1, <3>1 DEF MissingInv
    <3>3. Newer(M, r) \in SUBSET Newer(M', r) /\ Newer(M', r) \in SUBSET M'
      BY <1>10 DEF Newer
    <3>4. /\ Cardinality(Newer(M, r)) <= Cardinality(Newer(M', r))
          /\ Cardinality(Newer(M, r)) \in Nat /\ Cardinality(Newer(M', r)) \in Nat
      BY <1>10, <3>3, PartCount
    <3> QED
      BY <1>12, <3>2, <3>4
  <2>2. AllDiffer(M') =>
          \A r \in atStart' \ Received' : reading' /\ Cardinality(Newer(M', r)) >= Len(result')
    BY <1>1, <1>12, <2>1
  <2> QED
    BY <2>2 DEF MissingInv
<1>15. QuietInv'
  <2>1. ASSUME ~grown' PROVE ~grown /\ (reading => M' = M)
    <3>1. ~grown /\ ~(reading /\ Matches(row, filter))
      BY <1>1, <2>1
    <3>2. ~Matches(row, filter) => M' = M
      BY <1>1 DEF Matching
    <3> QED
      BY <3>1, <3>2
  <2>2. ~grown' => (reading' => atStart' = M')
    BY <1>1, <1>2, <2>1 DEF QuietInv
  <2>3. ~grown' /\ AllDiffer(atStart') =>
          /\ \A i \in 1 .. Len(result') :
                /\ result'[i] \in atStart'
                /\ Cardinality(Newer(atStart', result'[i])) = i - 1
          /\ ~reading' => Len(result') = Cardinality(atStart')
    <3>1. ~grown /\ AllDiffer(atStart) =>
            /\ \A i \in 1 .. Len(result) :
                  /\ result[i] \in atStart
                  /\ Cardinality(Newer(atStart, result[i])) = i - 1
            /\ ~reading => Len(result) = Cardinality(atStart)
      BY <1>2, Zenon DEF QuietInv
    <3> QED
      BY <1>1, <2>1, <3>1
  <2> QED
    BY <2>2, <2>3 DEF QuietInv
<1> QED
  BY <1>7, <1>8, <1>9, <1>13, <1>14, <1>15 DEF IInv

\* A reader that begins has everything ahead of it.
LEMMA BeginIInv ==
    ASSUME IInv, NEW f \in Filter, NEW raw \in RawLimit, Begin(f, raw)
    PROVE  IInv'
<1> DEFINE M == Matching(rows, f)
<1>1. /\ reading' = TRUE /\ filter' = f /\ limit' = raw /\ result' = <<>>
      /\ listed' = <<>> /\ atStart' = M /\ grown' = FALSE
      /\ UNCHANGED <<rows, state>>
  BY DEF Begin
<1>2. TypeOK /\ TableInv /\ StateInv
  BY DEF IInv
<1>3. M \in SUBSET rows /\ IsFiniteSet(M) /\ Cardinality(M) \in Nat /\ MaxRows \in Nat
  BY <1>2, MatchingCount, QueryAssumption
<1>4. Matching(rows, filter)' = M
  BY <1>1 DEF Matching
<1> HIDE DEF M
<1>5. <<>> \in Seq(rows) /\ Len(result') = 0
  BY <1>1
<1>6. TypeOK'
  <2>1. result' \in Seq(rows) /\ listed' \in Seq(rows) /\ Len(result') <= MaxRows
    BY <1>1, <1>3, <1>5
  <2>2. rows' = rows /\ state' = state /\ filter' \in Filter /\ limit' \in RawLimit
    BY <1>1
  <2>3. atStart' \subseteq rows /\ reading' \in BOOLEAN /\ grown' \in BOOLEAN
    BY <1>1, <1>3
  <2> QED
    BY <1>2, <2>1, <2>2, <2>3 DEF TypeOK
<1>7. TableInv' /\ StateInv'
  BY <1>1, <1>2 DEF TableInv, StateInv
<1>8. ReaderInv'
  BY <1>1, <1>3, <1>4, <1>5 DEF ReaderInv
<1>9. MissingInv'
  <2>1. ASSUME NEW r PROVE Cardinality(Newer(M, r)) >= 0
    <3>1. Newer(M, r) \in SUBSET M
      BY DEF Newer
    <3>2. Cardinality(Newer(M, r)) \in Nat
      BY <1>3, <3>1, PartCount
    <3> QED
      BY <3>2
  <2> QED
    BY <1>1, <1>4, <1>5, <2>1 DEF MissingInv
<1>10. QuietInv'
  BY <1>1, <1>4, <1>5 DEF QuietInv
<1> QED
  BY <1>6, <1>7, <1>8, <1>9, <1>10 DEF IInv

\* The next page begins with the row that has as many newer ones as the reader
\* has received.
LEMMA ListIInv == ASSUME IInv, ListAnomalies PROVE IInv'
<1> DEFINE M == Matching(rows, filter)
           n == Cardinality(M)
           offset == Len(result)
<1>1. PICK order \in Ordered(M) :
         LET page == Page(order, Offset(offset), Limit(limit))
         IN  result' = result \o page /\ reading' = (page # <<>>)
  BY Zenon DEF ListAnomalies
<1> DEFINE page == Page(order, Offset(offset), Limit(limit))
<1>2. /\ reading /\ result' = result \o page /\ reading' = (page # <<>>)
      /\ UNCHANGED <<rows, state, filter, limit, listed, atStart, grown>>
  BY <1>1 DEF ListAnomalies
<1>3. TypeOK /\ TableInv /\ StateInv /\ ReaderInv /\ MissingInv /\ QuietInv
  BY DEF IInv
<1>4. /\ M \in SUBSET rows /\ M \in SUBSET Row /\ IsFiniteSet(M) /\ n \in Nat
      /\ n <= MaxRows /\ MaxRows \in Nat /\ HalfWord \in Nat /\ MaxRows < HalfWord
  BY <1>3, MatchingCount, QueryAssumption
<1>5. offset \in Nat /\ offset <= n
  BY <1>3 DEF TypeOK, ReaderInv
<1>6. /\ order \in [1 .. n -> M]
      /\ \A i, j \in DOMAIN order : i < j => order[i] # order[j]
  BY Zenon DEF Ordered
<1>7. Offset(offset) = offset
  <2>1. offset < HalfWord
    BY <1>4, <1>5
  <2>2. Int32(offset) = offset
    BY <1>5, <2>1, Int32Keeps
  <2> QED
    BY <1>5, <2>2 DEF Offset
<1>8. Limit(limit) \in Nat \ {0}
  BY <1>3, Limits DEF TypeOK
<1>9. /\ page \in Seq(M)
      /\ \A i \in 1 .. Len(page) : /\ offset + i \in 1 .. n
                                   /\ page[i] = order[offset + i]
      /\ \/ offset + Len(page) = n
         \/ offset + Len(page) < n /\ Len(page) = Limit(limit)
  <2>1. /\ page \in Seq(M)
        /\ \A i \in 1 .. Len(page) : /\ offset + i \in 1 .. n
                                     /\ page[i] = order[offset + i]
        /\ \/ offset + Len(page) = n
           \/ offset + Len(page) < n /\ Len(page) = Limit(limit)
           \/ offset > n /\ Len(page) = 0
    <3> DEFINE size == Limit(limit)
               p == Page(order, offset, size)
    <3>1. size \in Nat \ {0} /\ page = p
      BY <1>7, <1>8
    <3> HIDE DEF page, n, offset, size, M
    <3>2. p \in Seq(M) /\ Behind(p, order, n, offset, size)
      <4>1. /\ n \in Nat /\ offset \in Nat /\ size \in Nat \ {0}
            /\ order \in [1 .. n -> M]
        BY <1>4, <1>5, <1>6, <3>1
      <4> QED
        BY <4>1, PageIs
    <3> HIDE DEF p
    <3> QED
      BY <3>1, <3>2 DEF size, Behind
  <2> HIDE DEF page, n
  <2> QED
    BY <1>4, <1>5, <2>1
<1> HIDE DEF page
<1>10. /\ Len(page) \in Nat /\ Len(result') = offset + Len(page)
       /\ \A i \in 1 .. offset : result'[i] = result[i]
       /\ \A i \in 1 .. Len(page) : result'[offset + i] = page[i]
  <2>1. result \in Seq(rows) /\ page \in Seq(rows)
    <3>1. page \in Seq(rows)
      BY <1>4, <1>9, SeqGrows
    <3> QED
      BY <1>3, <3>1 DEF TypeOK
  <2> QED
    BY <1>2, <2>1
<1>11. result' \in Seq(rows) /\ Len(result') <= n
  <2>1. result \in Seq(rows) /\ page \in Seq(rows)
    <3>1. page \in Seq(rows)
      BY <1>4, <1>9, SeqGrows
    <3> QED
      BY <1>3, <3>1 DEF TypeOK
  <2>2. result' \in Seq(rows)
    BY <1>2, <2>1
  <2>3. Len(result') <= n
    <3> HIDE DEF n, offset
    <3> QED
      BY <1>4, <1>5, <1>9, <1>10
  <2> QED
    BY <2>2, <2>3
<1>12. M' = M
  BY <1>2 DEF Matching
<1>13. TypeOK'
  <2>1. Len(result') <= MaxRows /\ reading' \in BOOLEAN
    BY <1>2, <1>4, <1>10, <1>11
  <2> QED
    BY <1>2, <1>3, <1>11, <2>1 DEF TypeOK
<1>14. TableInv' /\ StateInv'
  BY <1>2, <1>3 DEF TableInv, StateInv
<1>15. ReaderInv'
  <2>1. atStart' \subseteq M /\ Len(result') <= Cardinality(M)
    BY <1>2, <1>3, <1>11 DEF ReaderInv
  <2> QED
    BY <1>12, <2>1 DEF ReaderInv
<1>16. MissingInv'
  <2>1. ASSUME AllDiffer(M), NEW r \in atStart', r \notin Received'
        PROVE  reading' /\ Cardinality(Newer(M, r)) >= Len(result')
    <3>1. r \in M /\ r \notin Received
      <4>1. r \in M
        BY <1>2, <1>3 DEF ReaderInv
      <4>2. ASSUME r \in Received PROVE FALSE
        <5>1. PICK i \in 1 .. offset : r = result[i]
          BY <4>2 DEF Received
        <5>2. i \in 1 .. Len(result') /\ r = result'[i]
          BY <1>5, <1>10, <5>1
        <5>3. r \in Received'
          BY <5>2 DEF Received
        <5> QED
          BY <2>1, <5>3
      <4> QED
        BY <4>1, <4>2
    <3>2. Cardinality(Newer(M, r)) >= offset
      BY <1>2, <1>3, <2>1, <3>1 DEF MissingInv
    <3>3. PICK k \in 1 .. n : order[k] = r
      BY <1>4, <1>6, <3>1, OrderOnto
    <3>4. Cardinality(Newer(M, r)) = k - 1
      BY <1>4, <2>1, <3>3, OrderRank
    <3> HIDE DEF n, offset
    <3>5. ~ (k <= offset + Len(page))
      <4> SUFFICES ASSUME k <= offset + Len(page) PROVE FALSE
        OBVIOUS
      <4>1. k - offset \in 1 .. Len(page) /\ offset + (k - offset) = k
        BY <1>4, <1>5, <1>10, <3>2, <3>4
      <4>2. result'[k] = r
        BY <1>9, <1>10, <3>3, <4>1
      <4>3. k \in 1 .. Len(result')
        BY <1>5, <1>10, <4>1
      <4>4. r \in Received'
        BY <4>2, <4>3 DEF Received
      <4> QED
        BY <2>1, <4>4
    <3>6. Len(page) \in Nat \ {0}
      BY <1>4, <1>5, <1>8, <1>9, <1>10, <3>5
    <3>7. page # <<>>
      BY <3>6
    <3>8. k \in Nat /\ offset + Len(page) \in Nat /\ Len(result') = offset + Len(page)
      BY <1>4, <1>5, <1>10
    <3>9. k - 1 >= offset + Len(page)
      BY <3>5, <3>8
    <3>10. Cardinality(Newer(M, r)) >= Len(result')
      BY <3>4, <3>8, <3>9
    <3>11. reading'
      BY <1>2, <3>7
    <3> QED
      BY <3>10, <3>11
  <2> QED
    BY <1>12, <2>1 DEF MissingInv
<1>17. QuietInv'
  <2>1. ASSUME ~grown PROVE atStart = M
    BY <1>2, <1>3, <2>1 DEF QuietInv
  <2>2. ~grown' => (reading' => atStart' = M')
    BY <1>2, <1>12, <2>1
  <2>3. ASSUME ~grown, AllDiffer(M), NEW i \in 1 .. Len(result')
        PROVE  result'[i] \in M /\ Cardinality(Newer(M, result'[i])) = i - 1
    <3>1. CASE i <= offset
      <4>1. i \in 1 .. Len(result) /\ result'[i] = result[i]
        BY <1>5, <1>10, <3>1
      <4>2. /\ result[i] \in atStart
            /\ Cardinality(Newer(atStart, result[i])) = i - 1
        BY <1>3, <2>1, <2>3, <4>1 DEF QuietInv
      <4> QED
        BY <2>1, <2>3, <4>1, <4>2
    <3>2. CASE ~ (i <= offset)
      <4> HIDE DEF n, offset
      <4>1. i - offset \in 1 .. Len(page) /\ offset + (i - offset) = i
        BY <1>5, <1>10, <3>2
      <4>2. result'[i] = order[i] /\ i \in 1 .. n
        BY <1>9, <1>10, <4>1
      <4>3. order[i] \in M /\ Cardinality(Newer(M, order[i])) = i - 1
        BY <1>4, <2>3, <4>2, OrderRank DEF n
      <4> QED
        BY <4>2, <4>3
    <3> QED
      BY <3>1, <3>2
  <2>4. ~reading' => Len(result') = n
    <3>1. ASSUME ~reading' PROVE Len(page) = 0
      <4>1. page = <<>>
        BY <1>2, <3>1
      <4> QED
        BY <4>1
    <3> HIDE DEF n, offset
    <3> QED
      BY <1>5, <1>8, <1>9, <1>10, <3>1
  <2>5. ~grown' /\ AllDiffer(atStart') =>
          /\ \A i \in 1 .. Len(result') :
                /\ result'[i] \in atStart'
                /\ Cardinality(Newer(atStart', result'[i])) = i - 1
          /\ ~reading' => Len(result') = Cardinality(atStart')
    <3>1. grown' = grown /\ atStart' = atStart
      BY <1>2
    <3> SUFFICES ASSUME ~grown, AllDiffer(atStart)
                 PROVE  /\ \A i \in 1 .. Len(result') :
                              /\ result'[i] \in atStart
                              /\ Cardinality(Newer(atStart, result'[i])) = i - 1
                        /\ ~reading' => Len(result') = Cardinality(atStart)
      BY <3>1
    <3>2. atStart = M
      BY <2>1
    <3> QED
      BY <2>3, <2>4, <3>2
  <2> QED
    BY <2>2, <2>5 DEF QuietInv
<1> QED
  BY <1>13, <1>14, <1>15, <1>16, <1>17 DEF IInv

\* A listing is of states, and they are rows.
LEMMA SeriesIInv ==
    ASSUME IInv, NEW f \in Filter, NEW raw \in RawLimit, ListSeries(f, raw)
    PROVE  IInv'
<1> DEFINE chosen == {row \in Range(state) \ {Null} :
                        f.series = Null \/ row.series = f.series}
           n == Cardinality(chosen)
           page == Page(UpdatedOrder(chosen), 0, ListingSize(raw))
<1>1. /\ listed' = page
      /\ UNCHANGED <<rows, state, reading, filter, limit, result, atStart, grown>>
  BY DEF ListSeries
<1>2. TypeOK /\ TableInv /\ StateInv /\ ReaderInv /\ MissingInv /\ QuietInv
  BY DEF IInv
<1>3. chosen \in SUBSET rows /\ chosen \in SUBSET Row
  BY <1>2 DEF Range, TypeOK
<1> HIDE DEF chosen
<1>4. /\ IsFiniteSet(chosen) /\ n \in Nat
      /\ \A r, q \in chosen : r.id = q.id => r = q
  BY <1>2, <1>3, PartCount DEF TableInv
<1>5. UpdatedOrder(chosen) \in [1 .. n -> chosen]
  BY <1>3, <1>4, UpdatedOrderExists
<1>6. ListingSize(raw) \in Nat \ {0} /\ 0 \in Nat
  BY Limits
<1>7. page \in Seq(chosen)
  <2> DEFINE order == UpdatedOrder(chosen)
             size == ListingSize(raw)
  <2> HIDE DEF order, size, n
  <2>1. Page(order, 0, size) \in Seq(chosen)
    BY <1>4, <1>5, <1>6, PageIs DEF order, size
  <2> QED
    BY <2>1 DEF order, size
<1> HIDE DEF page
<1>8. listed' \in Seq(rows)
  BY <1>1, <1>3, <1>7, SeqGrows
<1>9. TypeOK'
  BY <1>1, <1>2, <1>8 DEF TypeOK
<1>10. Matching(rows, filter)' = Matching(rows, filter) /\ Received' = Received
  BY <1>1 DEF Matching, Received
<1>11. TableInv' /\ StateInv' /\ ReaderInv'
  BY <1>1, <1>2, <1>10 DEF TableInv, StateInv, ReaderInv
<1>12. MissingInv'
  BY <1>1, <1>2, <1>10 DEF MissingInv
<1>13. QuietInv'
  BY <1>1, <1>2, <1>10 DEF QuietInv
<1> QED
  BY <1>9, <1>11, <1>12, <1>13 DEF IInv

\* Insertions, listings and pages keep the invariant.
LEMMA StepIInv == IInv /\ [Next]_vars => IInv'
<1> SUFFICES ASSUME IInv, [Next]_vars PROVE IInv'
  OBVIOUS
<1>1. CASE \E s \in Series, t \in Timestamp : InsertAnomalyEvent(s, t)
  BY <1>1, InsertIInv
<1>2. CASE \E f \in Filter, raw \in RawLimit : Begin(f, raw)
  BY <1>2, BeginIInv
<1>3. CASE ListAnomalies
  BY <1>3, ListIInv
<1>4. CASE \E f \in Filter, raw \in RawLimit : ListSeries(f, raw)
  BY <1>4, SeriesIInv
<1>5. CASE UNCHANGED vars
  <2>1. /\ rows' = rows /\ state' = state /\ reading' = reading /\ filter' = filter
        /\ limit' = limit /\ result' = result /\ listed' = listed
        /\ atStart' = atStart /\ grown' = grown
    BY <1>5 DEF vars
  <2>2. TypeOK /\ TableInv /\ StateInv /\ ReaderInv /\ MissingInv /\ QuietInv
    BY DEF IInv
  <2>3. Matching(rows, filter)' = Matching(rows, filter) /\ Received' = Received
    BY <2>1 DEF Matching, Received
  <2>4. TypeOK' /\ TableInv' /\ StateInv'
    BY <2>1, <2>2 DEF TypeOK, TableInv, StateInv
  <2>5. ReaderInv' /\ MissingInv'
    BY <2>1, <2>2, <2>3 DEF ReaderInv, MissingInv
  <2>6. QuietInv'
    BY <2>1, <2>2, <2>3 DEF QuietInv
  <2> QED
    BY <2>4, <2>5, <2>6 DEF IInv
<1> QED
  BY <1>1, <1>2, <1>3, <1>4, <1>5 DEF Next

\* The invariant holds for ever.
LEMMA Invariance == Spec => []IInv
<1> QED
  BY InitIInv, StepIInv, PTL DEF Spec

-----------------------------------------------------------------------------
(* What the reader can rely on *)

\* The types: no row is received that is not in the table, and no page makes
\* the reader hold more rows than the table can have.
THEOREM TypeCorrectness == Spec => []TypeOK
<1>1. IInv => TypeOK
  BY DEF IInv
<1> QED
  BY <1>1, Invariance, PTL

\* Insertions between the pages, of any time, hide no row from the reader that
\* was there when it began, whatever limit it asks for.
THEOREM NoRowIsMissed == Spec => []PagingMissesNothing
<1>1. ASSUME IInv, ~reading, TimesDiffer PROVE atStart \subseteq Received
  <2>1. AllDiffer(Matching(rows, filter))
    BY <1>1 DEF TimesDiffer, AllDiffer
  <2> QED
    BY <1>1, <2>1 DEF IInv, MissingInv
<1>2. IInv => PagingMissesNothing
  BY <1>1 DEF PagingMissesNothing
<1> QED
  BY <1>2, Invariance, PTL

\* Without insertions the pages are the listing, each matching row once and the
\* newest first.
THEOREM QuietPages == Spec => []QuietPagingIsExact
<1>1. ASSUME IInv, ~reading, ~grown, TimesDiffer
      PROVE  /\ Len(result) = Cardinality(atStart)
             /\ \A i, j \in 1 .. Len(result) : i < j => result[i].ts > result[j].ts
  <2>1. TypeOK /\ TableInv /\ ReaderInv /\ QuietInv
    BY <1>1 DEF IInv
  <2>2. AllDiffer(atStart) /\ atStart \in SUBSET Matching(rows, filter)
    BY <1>1, <2>1 DEF TimesDiffer, AllDiffer, ReaderInv
  <2>3. IsFiniteSet(atStart) /\ \A r \in atStart : r.ts \in Int
    <3>1. IsFiniteSet(atStart)
      BY <2>1, <2>2, MatchingCount, PartCount
    <3> QED
      BY <2>1, <3>1, QueryAssumption DEF TypeOK, Row
  <2>4. /\ \A i \in 1 .. Len(result) :
               /\ result[i] \in atStart
               /\ Cardinality(Newer(atStart, result[i])) = i - 1
        /\ Len(result) = Cardinality(atStart)
    BY <1>1, <2>1, <2>2, Zenon DEF QuietInv
  <2>5. ASSUME NEW i \in 1 .. Len(result), NEW j \in 1 .. Len(result), i < j
        PROVE  result[i].ts > result[j].ts
    <3> SUFFICES ASSUME ~ (result[i].ts > result[j].ts) PROVE FALSE
      OBVIOUS
    <3>1. result[i] \in atStart /\ result[j] \in atStart
      BY <2>4
    <3>2. /\ Newer(atStart, result[j]) \in SUBSET Newer(atStart, result[i])
          /\ Newer(atStart, result[i]) \in SUBSET atStart
      BY <2>3, <3>1 DEF Newer
    <3>3. Cardinality(Newer(atStart, result[j])) <= Cardinality(Newer(atStart, result[i]))
      BY <2>3, <3>2, PartCount
    <3>4. j - 1 <= i - 1
      BY <2>4, <3>3
    <3> QED
      BY <2>5, <3>4
  <2> QED
    BY <2>4, <2>5
<1>2. IInv => QuietPagingIsExact
  BY <1>1 DEF QuietPagingIsExact
<1> QED
  BY <1>2, Invariance, PTL

\* A listing leaves out only older states, and is empty only if none matches,
\* for every limit, what int32 makes of it included.
THEOREM NewestAreListed == Spec => ListingIsNewest
<1>1. ASSUME IInv, NEW f \in Filter, NEW raw \in RawLimit, NEW s \in Series,
             ListSeries(f, raw), state[s] # Null, f.series = Null \/ f.series = s
      PROVE  \/ state[s] \in Range(listed')
             \/ listed' # <<>> /\ \A row \in Range(listed') : row.id > state[s].id
  <2> DEFINE chosen == {row \in Range(state) \ {Null} :
                          f.series = Null \/ row.series = f.series}
             n == Cardinality(chosen)
             order == UpdatedOrder(chosen)
             size == ListingSize(raw)
             page == Page(order, 0, size)
  <2>1. TypeOK /\ TableInv /\ StateInv
    BY <1>1 DEF IInv
  <2>2. chosen \in SUBSET rows /\ chosen \in SUBSET Row
    BY <2>1 DEF Range, TypeOK
  <2>3. state[s] \in chosen
    <3>1. state[s] \in Range(state) \ {Null} /\ state[s].series = s
      BY <1>1, <2>1 DEF Range, TypeOK, StateInv
    <3> QED
      BY <1>1, <3>1
  <2>4. listed' = page
    BY <1>1 DEF ListSeries
  <2> HIDE DEF chosen
  <2>5. /\ IsFiniteSet(chosen) /\ n \in Nat
        /\ \A r, q \in chosen : r.id = q.id => r = q
        /\ \A r \in chosen : r.id \in Int
    BY <2>1, <2>2, PartCount, QueryAssumption DEF TableInv, Row
  <2>6. /\ order \in [1 .. n -> chosen]
        /\ \A i, j \in 1 .. n : i < j => order[i].id > order[j].id
    BY <2>2, <2>5, UpdatedOrderExists
  <2>7. size \in Nat \ {0}
    BY Limits
  <2> HIDE DEF order, size
  <2>8. PICK k \in 1 .. n : order[k] = state[s]
    <3>1. \A i, j \in DOMAIN order : i < j => order[i] # order[j]
      <4>1. ASSUME NEW i \in 1 .. n, NEW j \in 1 .. n, i < j PROVE order[i] # order[j]
        BY <2>5, <2>6, <4>1
      <4> QED
        BY <2>6, <4>1
    <3> QED
      BY <2>3, <2>5, <2>6, <3>1, OrderOnto
  <2>9. /\ page \in Seq(chosen)
        /\ UpToOrBefore(page, order, n, k)
    <3> HIDE DEF n, page
    <3>1. /\ n \in Nat /\ order \in [1 .. n -> chosen]
          /\ size \in Nat \ {0} /\ k \in 1 .. n
      BY <2>5, <2>6, <2>7, <2>8
    <3>2. page \in Seq(chosen)
      BY <3>1, PageIs DEF page
    <3>3. UpToOrBefore(page, order, n, k)
      BY <3>1, FirstPage DEF page
    <3> QED
      BY <3>2, <3>3
  <2> HIDE DEF page
  <2>10. DOMAIN page = 1 .. Len(page)
    BY <2>9
  <2>11. CASE \E i \in 1 .. Len(page) : page[i] = order[k]
    BY <2>4, <2>8, <2>10, <2>11 DEF Range
  <2>12. CASE /\ page # <<>>
              /\ \A i \in 1 .. Len(page) : \E j \in 1 .. n : j < k /\ page[i] = order[j]
    <3>1. ASSUME NEW i \in DOMAIN page PROVE page[i].id > state[s].id
      BY <2>6, <2>8, <2>10, <2>12
    <3> QED
      BY <2>4, <2>12, <3>1 DEF Range
  <2> QED
    BY <2>9, <2>11, <2>12 DEF UpToOrBefore
<1>2. IInv => (\A f \in Filter, raw \in RawLimit, s \in Series :
                  ListSeries(f, raw) /\ state[s] # Null /\ (f.series = Null \/ f.series = s) =>
                      \/ state[s] \in Range(listed')
                      \/ /\ listed' # <<>>
                         /\ \A row \in Range(listed') : row.id > state[s].id)
  BY <1>1
<1> QED
  BY <1>2, Invariance, PTL DEF ListingIsNewest
=============================================================================

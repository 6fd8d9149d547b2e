--------------------------- MODULE PagedReadProofs ---------------------------
(***************************************************************************)
(* Proofs about PagedRead, for every page size, every shape of answer and  *)
(* whatever others add to the list, anywhere in it, and delete from it     *)
(* during the call.                                                        *)
(***************************************************************************)
EXTENDS PagedRead, SequenceTheorems, FunctionTheorems, FiniteSetTheorems, TLAPS

-----------------------------------------------------------------------------
(* Pages *)

LEMMA DivFacts ==
    ASSUME NEW a \in Nat, NEW n \in Nat \ {0}
    PROVE  /\ a \div n \in Nat
           /\ n * (a \div n) <= a
           /\ a < n * (a \div n) + n
OBVIOUS

LEMMA TimesMonotonic ==
    ASSUME NEW a \in Nat, NEW b \in Nat, NEW n \in Nat, a <= b
    PROVE  n * a <= n * b
OBVIOUS

LEMMA TimesNext ==
    ASSUME NEW a \in Int, NEW n \in Nat
    PROVE  n * (a + 1) = n * a + n
OBVIOUS

\* A part of a sequence.
LEMMA PartOf ==
    ASSUME NEW S, NEW s \in Seq(S), NEW m \in Nat \ {0}, NEW n \in Nat, n <= Len(s)
    PROVE  /\ SubSeq(s, m, n) \in Seq(S)
           /\ Len(SubSeq(s, m, n)) = IF m <= n THEN n - m + 1 ELSE 0
           /\ \A k \in m..n : SubSeq(s, m, n)[k - m + 1] = s[k]
<1>1. \A k \in m..n : s[k] \in S
  BY LenProperties
<1>2. /\ SubSeq(s, m, n) \in Seq(S)
      /\ Len(SubSeq(s, m, n)) = IF m <= n THEN n - m + 1 ELSE 0
      /\ \A j \in 1..n - m + 1 : SubSeq(s, m, n)[j] = s[m + j - 1]
  BY <1>1, SubSeqProperties
<1>3. ASSUME NEW k \in m..n
      PROVE  SubSeq(s, m, n)[k - m + 1] = s[k]
  <2>1. k - m + 1 \in 1..n - m + 1 /\ m + (k - m + 1) - 1 = k
    OBVIOUS
  <2>2. SubSeq(s, m, n)[k - m + 1] = s[m + (k - m + 1) - 1]
    BY <1>2, <2>1
  <2>3. QED
    BY <2>1, <2>2
<1>4. QED
  BY <1>2, <1>3

\* A sequence without its i-th element.
LEMMA WithoutOne ==
    ASSUME NEW S, NEW s \in Seq(S), NEW i \in 1..Len(s), NEW r,
           r = SubSeq(s, 1, i - 1) \o SubSeq(s, i + 1, Len(s))
    PROVE  /\ r \in Seq(S)
           /\ Len(r) = Len(s) - 1
           /\ \A k \in 1..Len(s) - 1 : r[k] = IF k < i THEN s[k] ELSE s[k + 1]
<1> DEFINE p == SubSeq(s, 1, i - 1)
           q == SubSeq(s, i + 1, Len(s))
<1>1. Len(s) \in Nat /\ i - 1 \in Nat /\ i + 1 \in Nat \ {0} /\ i - 1 <= Len(s)
  BY LenProperties
<1>2. /\ p \in Seq(S) /\ Len(p) = i - 1
      /\ \A k \in 1..i - 1 : p[k - 1 + 1] = s[k]
  BY <1>1, PartOf
<1>3. /\ q \in Seq(S) /\ Len(q) = Len(s) - i
      /\ \A k \in i + 1..Len(s) : q[k - (i + 1) + 1] = s[k]
  BY <1>1, PartOf
<1>4. /\ p \o q \in Seq(S) /\ Len(p \o q) = Len(p) + Len(q)
      /\ \A k \in 1..Len(p) + Len(q) : (p \o q)[k] = IF k <= Len(p) THEN p[k] ELSE q[k - Len(p)]
  BY <1>2, <1>3, ConcatProperties
<1> HIDE DEF p, q
<1>5. ASSUME NEW k \in 1..Len(s) - 1
      PROVE  (p \o q)[k] = IF k < i THEN s[k] ELSE s[k + 1]
  <2>1. CASE k < i
    <3>1. k \in 1..i - 1 /\ k - 1 + 1 = k /\ k \in 1..Len(p) + Len(q) /\ k <= Len(p)
      BY <1>1, <1>2, <1>3, <2>1
    <3>2. QED
      BY <1>2, <1>4, <2>1, <3>1
  <2>2. CASE ~(k < i)
    <3>1. /\ k + 1 \in i + 1..Len(s) /\ (k + 1) - (i + 1) + 1 = k - Len(p)
          /\ k \in 1..Len(p) + Len(q) /\ ~(k <= Len(p))
      BY <1>1, <1>2, <1>3, <2>2
    <3>2. QED
      BY <1>3, <1>4, <2>2, <3>1
  <2>3. QED
    BY <2>1, <2>2
<1>6. r = p \o q
  BY DEF p, q
<1>7. Len(p \o q) = Len(s) - 1
  BY <1>1, <1>2, <1>3, <1>4
<1>8. QED
  BY <1>4, <1>5, <1>6, <1>7

\* A page that is not the last is full, and the last ends with the list.
LEMMA Pages ==
    ASSUME TypeOK, NEW page \in Nat \ {0}
    PROVE  /\ NumPages \in Nat \ {0}
           /\ PageSize * (page - 1) \in Nat
           /\ PageSize * page = PageSize * (page - 1) + PageSize
           /\ page < NumPages => PageSize * page <= Len(list)
           /\ page > NumPages => Len(list) <= PageSize * (page - 1)
<1>1. Len(list) \in Nat /\ PageSize \in Nat \ {0}
  BY PagingAssumption DEF TypeOK
<1>2. /\ PageSize * (page - 1) \in Nat
      /\ PageSize * page = PageSize * (page - 1) + PageSize
  BY <1>1, TimesNext
<1>3. CASE list = <<>>
  <2>1. NumPages = 1 /\ Len(list) = 0
    BY <1>3 DEF NumPages
  <2>2. QED
    BY <1>2, <2>1
<1>4. CASE list # <<>>
  <2> DEFINE n == (Len(list) + PageSize - 1) \div PageSize
  <2>1. NumPages = n /\ Len(list) > 0
    BY <1>1, <1>4, EmptySeq DEF NumPages, TypeOK
  <2>2. /\ n \in Nat /\ PageSize * n <= Len(list) + PageSize - 1
        /\ Len(list) + PageSize - 1 < PageSize * n + PageSize
    BY <1>1, <2>1, DivFacts
  <2>3. n # 0
    BY <1>1, <2>1, <2>2
  <2>4. ASSUME page < n PROVE PageSize * page <= Len(list)
    <3>1. PageSize * (page + 1) <= PageSize * n
      BY <1>1, <2>2, <2>4, TimesMonotonic
    <3>2. PageSize * (page + 1) = PageSize * page + PageSize
      BY <1>1, TimesNext
    <3>3. QED
      BY <1>1, <1>2, <2>2, <3>1, <3>2
  <2>5. ASSUME page > n PROVE Len(list) <= PageSize * (page - 1)
    <3>1. PageSize * n <= PageSize * (page - 1)
      BY <1>1, <2>2, <2>5, TimesMonotonic
    <3>2. QED
      BY <1>1, <1>2, <2>2, <3>1
  <2>6. QED
    BY <1>2, <2>1, <2>2, <2>3, <2>4, <2>5
<1>5. QED
  BY <1>3, <1>4

\* The records up to a position of the list are those of the pages before.
LastRow(page) == IF page < NumPages THEN PageSize * page ELSE Len(list)

LEMMA Rows ==
    ASSUME TypeOK, NEW page \in Nat \ {0}, page <= NumPages
    PROVE  /\ PageRows(page) \in Seq(1..MaxRecords)
           /\ LastRow(page) \in Nat /\ LastRow(page) <= Len(list)
           /\ \A j \in 1..Len(PageRows(page)) :
                /\ PageSize * (page - 1) + j \in 1..LastRow(page)
                /\ PageRows(page)[j] = list[PageSize * (page - 1) + j]
           /\ \A i \in 1..LastRow(page) : i > PageSize * (page - 1) =>
                /\ i - PageSize * (page - 1) \in 1..Len(PageRows(page))
                /\ PageRows(page)[i - PageSize * (page - 1)] = list[i]
<1> DEFINE b == PageSize * (page - 1)
           rows == PageRows(page)
<1>1. /\ b \in Nat /\ PageSize \in Nat \ {0} /\ PageSize * page = b + PageSize
      /\ page < NumPages => PageSize * page <= Len(list)
  BY Pages, PagingAssumption
<1>2. Len(list) \in Nat /\ DOMAIN list = 1..Len(list) /\ list \in [1..Len(list) -> 1..MaxRecords]
  BY LenProperties DEF TypeOK
<1>3. rows = SubSeq(list, b + 1, LastRow(page))
      /\ LastRow(page) \in Nat /\ LastRow(page) <= Len(list)
  BY <1>1, <1>2 DEF PageRows, LastRow
<1>4. /\ rows \in Seq(1..MaxRecords)
      /\ Len(rows) = IF b + 1 <= LastRow(page) THEN LastRow(page) - (b + 1) + 1 ELSE 0
      /\ \A i \in b + 1..LastRow(page) : rows[i - (b + 1) + 1] = list[i]
  <2>1. b + 1 \in Nat \ {0} /\ list \in Seq(1..MaxRecords)
    BY <1>1 DEF TypeOK
  <2> HIDE DEF b, rows
  <2>2. LastRow(page) \in Nat /\ LastRow(page) <= Len(list)
    BY <1>3
  <2>3. SubSeq(list, b + 1, LastRow(page)) \in Seq(1..MaxRecords)
    BY <2>1, <2>2, PartOf
  <2>4. Len(SubSeq(list, b + 1, LastRow(page)))
          = IF b + 1 <= LastRow(page) THEN LastRow(page) - (b + 1) + 1 ELSE 0
    BY <2>1, <2>2, PartOf
  <2>5. \A i \in b + 1..LastRow(page) :
          SubSeq(list, b + 1, LastRow(page))[i - (b + 1) + 1] = list[i]
    BY <2>1, <2>2, PartOf
  <2>6. QED
    BY <1>3, <2>3, <2>4, <2>5
<1> HIDE DEF b, rows
<1>5. \A j \in 1..Len(rows) : b + j \in 1..LastRow(page) /\ rows[j] = list[b + j]
  <2> SUFFICES ASSUME NEW j \in 1..Len(rows)
               PROVE  b + j \in 1..LastRow(page) /\ rows[j] = list[b + j]
    OBVIOUS
  <2>1. b + j \in b + 1..LastRow(page) /\ (b + j) - (b + 1) + 1 = j
    BY <1>1, <1>3, <1>4
  <2>2. QED
    BY <1>1, <1>2, <1>3, <1>4, <2>1
<1>6. \A i \in 1..LastRow(page) : i > b => i - b \in 1..Len(rows) /\ rows[i - b] = list[i]
  <2> SUFFICES ASSUME NEW i \in 1..LastRow(page), i > b
               PROVE  i - b \in 1..Len(rows) /\ rows[i - b] = list[i]
    OBVIOUS
  <2>1. i \in b + 1..LastRow(page) /\ i - (b + 1) + 1 = i - b
    BY <1>1, <1>3
  <2>2. QED
    BY <1>1, <1>3, <1>4, <2>1
<1>7. QED
  BY <1>3, <1>4, <1>5, <1>6 DEF b, rows

\* What Delete(i) leaves of the list.
Without(i) == SubSeq(list, 1, i - 1) \o SubSeq(list, i + 1, Len(list))

LEMMA Deleted ==
    ASSUME TypeOK, NEW i \in DOMAIN list
    PROVE  /\ Without(i) \in Seq(1..MaxRecords)
           /\ Len(Without(i)) = Len(list) - 1
           /\ \A k \in 1..Len(list) - 1 :
                Without(i)[k] = IF k < i THEN list[k] ELSE list[k + 1]
<1>1. list \in Seq(1..MaxRecords) /\ i \in 1..Len(list)
  BY LenProperties DEF TypeOK
<1>2. Without(i) = SubSeq(list, 1, i - 1) \o SubSeq(list, i + 1, Len(list))
  BY DEF Without
<1>3. QED
  <2>1. Without(i) \in Seq(1..MaxRecords)
    BY <1>1, <1>2, WithoutOne
  <2>2. Len(Without(i)) = Len(list) - 1
    BY <1>1, <1>2, WithoutOne
  <2>3. \A k \in 1..Len(list) - 1 :
          Without(i)[k] = IF k < i THEN list[k] ELSE list[k + 1]
    <3> DEFINE r == Without(i)
    <3>1. r = SubSeq(list, 1, i - 1) \o SubSeq(list, i + 1, Len(list))
      BY <1>2
    <3> HIDE DEF r
    <3>2. ASSUME NEW k \in 1..Len(list) - 1
          PROVE  r[k] = IF k < i THEN list[k] ELSE list[k + 1]
      BY <1>1, <3>1, WithoutOne, SMTT(30)
    <3>3. QED
      BY <3>2 DEF r
  <2>4. QED
    BY <2>1, <2>2, <2>3

\* What Insert(i) makes of the list.
With(i) == SubSeq(list, 1, i - 1) \o <<lastId + 1>> \o SubSeq(list, i, Len(list))

LEMMA Inserted ==
    ASSUME TypeOK, NEW i \in 1..Len(list) + 1, lastId < MaxRecords
    PROVE  /\ With(i) \in Seq(1..MaxRecords)
           /\ Len(With(i)) = Len(list) + 1
           /\ \A k \in 1..Len(list) + 1 :
                With(i)[k] = IF k < i THEN list[k]
                             ELSE IF k = i THEN lastId + 1 ELSE list[k - 1]
<1> DEFINE p == SubSeq(list, 1, i - 1)
           q == SubSeq(list, i, Len(list))
           e == <<lastId + 1>>
<1>0. list \in Seq(1..MaxRecords) /\ lastId + 1 \in 1..MaxRecords
  BY PagingAssumption DEF TypeOK
<1>1. Len(list) \in Nat /\ i - 1 \in Nat /\ i \in Nat \ {0} /\ i - 1 <= Len(list)
  BY <1>0, LenProperties
<1>2. /\ p \in Seq(1..MaxRecords) /\ Len(p) = i - 1
      /\ \A k \in 1..i - 1 : p[k - 1 + 1] = list[k]
  <2>1. p \in Seq(1..MaxRecords)
    <3>1. 1 \in Nat \ {0}
      OBVIOUS
    <3>2. QED
      BY <1>0, <1>1, <3>1, PartOf, Zenon
  <2>2. Len(p) = IF 1 <= i - 1 THEN (i - 1) - 1 + 1 ELSE 0
    BY <1>0, <1>1, PartOf
  <2>3. \A k \in 1..i - 1 : p[k - 1 + 1] = list[k]
    BY <1>0, <1>1, PartOf
  <2>4. QED
    BY <1>1, <2>1, <2>2, <2>3
<1>3. /\ q \in Seq(1..MaxRecords) /\ Len(q) = Len(list) - i + 1
      /\ \A k \in i..Len(list) : q[k - i + 1] = list[k]
  <2>1. q \in Seq(1..MaxRecords)
    <3>1. Len(list) \in Nat /\ Len(list) <= Len(list)
      BY <1>1
    <3>2. QED
      BY <1>0, <1>1, <3>1, PartOf, Zenon
  <2>2. Len(q) = IF i <= Len(list) THEN Len(list) - i + 1 ELSE 0
    BY <1>0, <1>1, PartOf
  <2>3. \A k \in i..Len(list) : q[k - i + 1] = list[k]
    BY <1>0, <1>1, PartOf
  <2>4. QED
    BY <1>1, <2>1, <2>2, <2>3
<1>4. e \in Seq(1..MaxRecords) /\ Len(e) = 1 /\ e[1] = lastId + 1
  BY <1>0
<1> HIDE DEF p, q, e
<1> DEFINE f == p \o e
<1>5. /\ f \in Seq(1..MaxRecords) /\ Len(f) = i
      /\ \A k \in 1..i : f[k] = IF k < i THEN p[k] ELSE lastId + 1
  <2>1. /\ p \o e \in Seq(1..MaxRecords) /\ Len(p \o e) = Len(p) + Len(e)
        /\ \A k \in 1..Len(p) + Len(e) : (p \o e)[k] = IF k <= Len(p) THEN p[k] ELSE e[k - Len(p)]
    BY <1>2, <1>4, ConcatProperties
  <2>2. Len(p) + Len(e) = i
    BY <1>1, <1>2, <1>4
  <2>3. ASSUME NEW k \in 1..i PROVE (p \o e)[k] = IF k < i THEN p[k] ELSE lastId + 1
    <3>1. (p \o e)[k] = IF k <= Len(p) THEN p[k] ELSE e[k - Len(p)]
      BY <2>1, <2>2
    <3>2. (k <= Len(p) <=> k < i) /\ (~(k < i) => k - Len(p) = 1)
      BY <1>1, <1>2
    <3>3. QED
      BY <1>4, <3>1, <3>2
  <2>4. QED
    BY <2>1, <2>2, <2>3
<1> HIDE DEF f
<1>6. /\ f \o q \in Seq(1..MaxRecords) /\ Len(f \o q) = Len(f) + Len(q)
      /\ \A k \in 1..Len(f) + Len(q) : (f \o q)[k] = IF k <= Len(f) THEN f[k] ELSE q[k - Len(f)]
  BY <1>3, <1>5, ConcatProperties
<1>7. Len(f) + Len(q) = Len(list) + 1
  BY <1>1, <1>3, <1>5
<1>8. ASSUME NEW k \in 1..Len(list) + 1
      PROVE  (f \o q)[k] = IF k < i THEN list[k] ELSE IF k = i THEN lastId + 1 ELSE list[k - 1]
  <2>1. (f \o q)[k] = IF k <= i THEN f[k] ELSE q[k - i]
    BY <1>5, <1>6, <1>7
  <2>2. CASE k < i
    <3>1. k \in 1..i - 1 /\ k \in 1..i /\ k - 1 + 1 = k /\ k <= i
      BY <1>1, <2>2
    <3>2. QED
      BY <1>2, <1>5, <2>1, <2>2, <3>1
  <2>3. CASE k = i
    BY <1>1, <1>5, <2>1, <2>3
  <2>4. CASE k > i
    <3>1. k - 1 \in i..Len(list) /\ (k - 1) - i + 1 = k - i /\ ~(k <= i)
      BY <1>1, <2>4
    <3>2. QED
      BY <1>1, <1>3, <2>1, <2>4, <3>1
  <2>5. k < i \/ k = i \/ k > i
    BY <1>1
  <2>6. QED
    BY <2>2, <2>3, <2>4, <2>5
<1>9. With(i) = f \o q
  BY DEF With, f, e, p, q
<1>10. QED
  BY <1>6, <1>7, <1>8, <1>9

LEMMA IdsAreNumbers ==
    ASSUME NEW s \in Seq(1..MaxRecords)
    PROVE  s \in Seq(Nat)
<1>1. \A k \in 1..Len(s) : s[k] \in Nat
  BY PagingAssumption, LenProperties
<1>2. s \in [1..Len(s) -> Nat] /\ Len(s) \in Nat
  BY <1>1, LenProperties
<1>3. QED
  BY <1>2, SeqDef

\* What Rows says, as one sequence after another.
LEMMA ItemsAndRows ==
    ASSUME TypeOK, reader.page <= NumPages
    PROVE  /\ reader.items \o PageRows(reader.page) \in Seq(Nat)
           /\ Len(reader.items \o PageRows(reader.page))
                = Len(reader.items) + Len(PageRows(reader.page))
           /\ \A k \in 1..Len(reader.items) + Len(PageRows(reader.page)) :
                (reader.items \o PageRows(reader.page))[k]
                  = IF k <= Len(reader.items) THEN reader.items[k]
                    ELSE PageRows(reader.page)[k - Len(reader.items)]
<1> DEFINE items == reader.items
           rows == PageRows(reader.page)
<1>1. items \in Seq(Nat) /\ reader.page \in Nat \ {0} /\ MaxRecords \in Nat
  BY PagingAssumption DEF TypeOK, Reader
<1>2. rows \in Seq(Nat)
  <2>1. rows \in Seq(1..MaxRecords)
    BY <1>1, Rows
  <2>2. QED
    BY <2>1, IdsAreNumbers
<1> HIDE DEF items, rows
<1>3. items \o rows \in Seq(Nat)
  BY <1>1, <1>2, ConcatProperties
<1>4. Len(items \o rows) = Len(items) + Len(rows)
  BY <1>1, <1>2, ConcatProperties
<1>5. \A k \in 1..Len(items) + Len(rows) :
        (items \o rows)[k] = IF k <= Len(items) THEN items[k] ELSE rows[k - Len(items)]
  BY <1>1, <1>2, ConcatProperties
<1>6. QED
  BY <1>3, <1>4, <1>5 DEF items, rows

-----------------------------------------------------------------------------
(* Types *)

LEMMA FreshType == Fresh \in Reader
<1>1. <<>> \in Seq(Nat)
  BY EmptySeq
<1>2. QED
  BY <1>1 DEF Fresh, Reader

LEMMA TypeInit == Init => TypeOK
<1>1. <<>> \in Seq(1..MaxRecords)
  BY EmptySeq
<1>2. QED
  BY <1>1, FreshType, PagingAssumption DEF Init, TypeOK

LEMMA TypeStep == TypeOK /\ [Next]_vars => TypeOK'
<1> SUFFICES ASSUME TypeOK, [Next]_vars
             PROVE  TypeOK'
  OBVIOUS
<1>t. /\ list \in Seq(1..MaxRecords) /\ lastId \in 0..MaxRecords /\ reader \in Reader
      /\ MaxRecords \in Nat
  BY PagingAssumption DEF TypeOK
<1>1. ASSUME NEW i \in 1..Len(list) + 1, Insert(i)
      PROVE  TypeOK'
  <2>1. lastId < MaxRecords /\ lastId' = lastId + 1 /\ list' = With(i)
    BY <1>1 DEF Insert, With
  <2>2. list' \in Seq(1..MaxRecords)
    BY <2>1, Inserted
  <2>3. reader' \in Reader
    <3>1. (IF reader.pc = "reading" /\ i <= RowsPassed
           THEN reader.ahead + 1 ELSE reader.ahead) \in Nat
      BY <1>t DEF Reader
    <3>2. QED
      BY <1>t, <1>1, <3>1 DEF Insert, Reader
  <2>4. QED
    BY <1>t, <2>1, <2>2, <2>3 DEF TypeOK
<1>2. ASSUME NEW i \in DOMAIN list, Delete(i)
      PROVE  TypeOK'
  <2>1. list' = Without(i) /\ lastId' = lastId
    BY <1>2 DEF Delete, Without
  <2>2. list' \in Seq(1..MaxRecords)
    BY <2>1, Deleted
  <2>3. reader' \in Reader
    <3>1. /\ reader.kept \ {list[i]} \in SUBSET Nat
          /\ (IF reader.pc = "reading" THEN reader.gone + 1 ELSE reader.gone) \in Nat
      BY <1>t DEF Reader
    <3>2. QED
      BY <1>t, <1>2, <3>1 DEF Delete, Reader
  <2>4. QED
    BY <1>t, <2>1, <2>2, <2>3 DEF TypeOK
<1>3. ASSUME NEW shape \in Shapes, Start(shape)
      PROVE  TypeOK'
  <2>1. Contents(list) \in SUBSET Nat
    BY <1>t, LenProperties DEF Contents
  <2>2. shape \in {"list", "results", "standard"}
    BY PagingAssumption
  <2>3. reader' \in Reader
    BY <1>3, <2>1, <2>2, FreshType DEF Start, Reader
  <2>4. QED
    BY <1>t, <1>3, <2>3 DEF Start, TypeOK
<1>4. CASE NextPage
  <2>1. /\ reader.items \o PageRows(reader.page) \in Seq(Nat)
        /\ (IF reader.page < NumPages THEN reader.page + 1 ELSE reader.page) \in Nat \ {0}
    BY <1>t, <1>4, ItemsAndRows DEF NextPage, Reader
  <2>2. reader' \in Reader
    BY <1>t, <1>4, <2>1 DEF NextPage, Reader
  <2>3. QED
    BY <1>t, <1>4, <2>2 DEF NextPage, TypeOK
<1>5. CASE PastTheEnd
  BY <1>t, <1>5 DEF PastTheEnd, TypeOK, Reader
<1>6. CASE WholeList
  <2>1. list \in Seq(Nat)
    BY <1>t, IdsAreNumbers
  <2>2. PageRows(1) \in Seq(Nat)
    <3>1. PageRows(1) \in Seq(1..MaxRecords)
      BY Rows, Pages
    <3>2. QED
      BY <3>1, IdsAreNumbers
  <2>3. reader' \in Reader
    BY <1>t, <1>6, <2>1, <2>2 DEF WholeList, Reader
  <2>4. QED
    BY <1>t, <1>6, <2>3 DEF WholeList, TypeOK
<1>7. CASE ErrorAnswer
  BY <1>t, <1>7 DEF ErrorAnswer, TypeOK, Reader
<1>8. CASE NoAnswer
  BY <1>t, <1>8 DEF NoAnswer, TypeOK, Reader
<1>9. CASE Return
  BY <1>t, <1>9, FreshType DEF Return, TypeOK
<1>10. CASE UNCHANGED vars
  BY <1>t, <1>10 DEF TypeOK, vars
<1>11. QED
  BY <1>1, <1>2, <1>3, <1>4, <1>5, <1>6, <1>7, <1>8, <1>9, <1>10 DEF Next, Read

\* The list, the id counter and the call of paged_get() (platform_client.py:80-107)
\* keep the types the module gives them.
THEOREM TypeCorrect == Spec => []TypeOK
<1>1. Init => TypeOK
  BY TypeInit
<1>2. TypeOK /\ [Next]_vars => TypeOK'
  BY TypeStep
<1>3. QED
  BY <1>1, <1>2, PTL DEF Spec

-----------------------------------------------------------------------------
(* One repeat per insertion *)

Distinct(s) == \A i, j \in DOMAIN s : s[i] = s[j] => i = j

\* The records read already that a page to come would show again.
ToRepeat == {x \in Contents(reader.items) :
               \E i \in DOMAIN list : i > RowsPassed /\ list[i] = x}

\* Every insertion in front of the page to come moves at most one record behind it that was
\* read; a record that is returned twice leaves ToRepeat, as the list holds it once.
FewRepeated ==
    /\ Distinct(list) /\ \A i \in DOMAIN list : list[i] <= lastId
    /\ \A x \in Contents(reader.items) : x <= lastId
    /\ reader.pc = "reading" =>
         Len(reader.items) - Cardinality(Contents(reader.items)) + Cardinality(ToRepeat)
           <= reader.ahead
    /\ OneRepeatPerInsertion

\* TypeOK, field by field.
LEMMA Typed ==
    ASSUME TypeOK
    PROVE  /\ list \in Seq(1..MaxRecords) /\ Len(list) \in Nat /\ DOMAIN list = 1..Len(list)
           /\ \A i \in 1..Len(list) : list[i] \in 1..MaxRecords
           /\ lastId \in 0..MaxRecords /\ MaxRecords \in Nat /\ PageSize \in Nat \ {0}
           /\ reader \in Reader /\ reader.page \in Nat \ {0} /\ reader.gone \in Nat
           /\ reader.ahead \in Nat
           /\ reader.items \in Seq(Nat) /\ Len(reader.items) \in Nat
           /\ DOMAIN reader.items = 1..Len(reader.items)
           /\ \A j \in 1..Len(reader.items) : reader.items[j] \in Nat
           /\ RowsPassed \in Nat
<1>1. /\ list \in Seq(1..MaxRecords) /\ lastId \in 0..MaxRecords /\ reader \in Reader
      /\ MaxRecords \in Nat /\ PageSize \in Nat \ {0}
  BY PagingAssumption DEF TypeOK
<1>2. /\ reader.page \in Nat \ {0} /\ reader.gone \in Nat /\ reader.ahead \in Nat
      /\ reader.items \in Seq(Nat)
  BY <1>1 DEF Reader
<1>3. /\ Len(list) \in Nat /\ DOMAIN list = 1..Len(list)
      /\ \A i \in 1..Len(list) : list[i] \in 1..MaxRecords
  BY <1>1, LenProperties
<1>4. /\ Len(reader.items) \in Nat /\ DOMAIN reader.items = 1..Len(reader.items)
      /\ \A j \in 1..Len(reader.items) : reader.items[j] \in Nat
  BY <1>2, LenProperties
<1>5. RowsPassed \in Nat
  BY <1>2, Pages DEF RowsPassed
<1>6. QED
  BY <1>1, <1>2, <1>3, <1>4, <1>5

\* The rows of a page, for the page the reader is at.
LEMMA NextRows ==
    ASSUME TypeOK, reader.page <= NumPages
    PROVE  /\ Len(PageRows(reader.page)) \in Nat
           /\ LastRow(reader.page) \in Nat /\ LastRow(reader.page) <= Len(list)
           /\ \A j \in 1..Len(PageRows(reader.page)) :
                /\ RowsPassed + j \in 1..LastRow(reader.page)
                /\ PageRows(reader.page)[j] = list[RowsPassed + j]
           /\ \A i \in 1..LastRow(reader.page) : i > RowsPassed =>
                /\ i - RowsPassed \in 1..Len(PageRows(reader.page))
                /\ PageRows(reader.page)[i - RowsPassed] = list[i]
           /\ reader.page < NumPages =>
                LastRow(reader.page) = PageSize * ((reader.page + 1) - 1)
<1>1. reader.page \in Nat \ {0} /\ PageSize \in Nat
  BY Typed
<1>2. PageRows(reader.page) \in Seq(1..MaxRecords)
  BY <1>1, Rows
<1>3. Len(PageRows(reader.page)) \in Nat
  BY <1>2, LenProperties
<1>4. (reader.page + 1) - 1 = reader.page
  BY <1>1
<1>5. reader.page < NumPages =>
        LastRow(reader.page) = PageSize * ((reader.page + 1) - 1)
  BY <1>4 DEF LastRow
<1>6. LastRow(reader.page) \in Nat /\ LastRow(reader.page) <= Len(list)
  BY <1>1, Rows
<1>7. \A j \in 1..Len(PageRows(reader.page)) :
        /\ RowsPassed + j \in 1..LastRow(reader.page)
        /\ PageRows(reader.page)[j] = list[RowsPassed + j]
  BY <1>1, Rows DEF RowsPassed
<1>8. \A i \in 1..LastRow(reader.page) : i > RowsPassed =>
        /\ i - RowsPassed \in 1..Len(PageRows(reader.page))
        /\ PageRows(reader.page)[i - RowsPassed] = list[i]
  BY <1>1, Rows DEF RowsPassed
<1>9. QED
  BY <1>3, <1>5, <1>6, <1>7, <1>8

\* A sequence has no more contents than places, and as many if it repeats nothing.
LEMMA ContentsCount ==
    ASSUME NEW s \in Seq(Nat)
    PROVE  /\ IsFiniteSet(Contents(s)) /\ Cardinality(Contents(s)) \in Nat
           /\ Cardinality(Contents(s)) <= Len(s)
           /\ Distinct(s) => Cardinality(Contents(s)) = Len(s)
<1>1. /\ Len(s) \in Nat /\ DOMAIN s = 1..Len(s) /\ s \in [1..Len(s) -> Nat]
  BY LenProperties
<1>2. s \in [1..Len(s) -> Contents(s)] /\ s \in Surjection(1..Len(s), Contents(s))
  <2>1. s \in [1..Len(s) -> Contents(s)]
    BY <1>1 DEF Contents
  <2>2. \A x \in Contents(s) : \E k \in 1..Len(s) : s[k] = x
    BY <1>1 DEF Contents
  <2>3. QED
    BY <2>1, <2>2, Fun_IsSurj
<1>3. IsFiniteSet(1..Len(s)) /\ Cardinality(1..Len(s)) = Len(s)
  <2>1. 1 \in Int /\ Len(s) \in Int /\ Len(s) >= 0
    BY <1>1
  <2>2. /\ IsFiniteSet(1..Len(s))
        /\ Cardinality(1..Len(s)) = IF 1 > Len(s) THEN 0 ELSE Len(s) - 1 + 1
    BY <2>1, FS_Interval
  <2>3. QED
    BY <2>1, <2>2
<1>4. /\ IsFiniteSet(Contents(s)) /\ Cardinality(Contents(s)) <= Len(s)
      /\ Cardinality(Contents(s)) = Len(s) <=> s \in Injection(1..Len(s), Contents(s))
  BY <1>2, <1>3, FS_Surjection
<1>5. Distinct(s) => s \in Injection(1..Len(s), Contents(s))
  BY <1>1, <1>2, Fun_IsInj DEF Distinct
<1>6. QED
  BY <1>4, <1>5, FS_CardinalityType

LEMMA ToRepeatCount ==
    ASSUME TypeOK, NEW T, T \subseteq ToRepeat
    PROVE  /\ IsFiniteSet(ToRepeat) /\ Cardinality(ToRepeat) \in Nat
           /\ IsFiniteSet(T) /\ Cardinality(T) \in Nat
           /\ Cardinality(T) <= Cardinality(ToRepeat)
<1>1. IsFiniteSet(Contents(reader.items)) /\ ToRepeat \subseteq Contents(reader.items)
  BY Typed, ContentsCount DEF ToRepeat
<1>2. IsFiniteSet(ToRepeat)
  BY <1>1, FS_Subset
<1>3. QED
  BY <1>2, FS_Subset, FS_CardinalityType

LEMMA RepeatedInit == Init => FewRepeated
<1> SUFFICES ASSUME Init PROVE FewRepeated
  OBVIOUS
<1>1. <<>> \in Seq(Nat) /\ Len(<<>>) = 0 /\ DOMAIN <<>> = {} /\ Contents(<<>>) = {}
  BY EmptySeq DEF Contents
<1>2. list = <<>> /\ reader.items = <<>> /\ reader.pc = "idle" /\ reader.ahead = 0
  BY DEF Init, Fresh
<1>3. QED
  BY <1>1, <1>2, FS_EmptySet DEF FewRepeated, OneRepeatPerInsertion, Distinct

LEMMA RepeatedInsert ==
    ASSUME TypeOK, FewRepeated, NEW i \in 1..Len(list) + 1, Insert(i)
    PROVE  FewRepeated'
<1>1. /\ Len(list) \in Nat /\ DOMAIN list = 1..Len(list) /\ lastId \in Nat
      /\ \A k \in 1..Len(list) : list[k] \in Nat
      /\ RowsPassed \in Nat /\ reader.ahead \in Nat /\ reader.items \in Seq(Nat)
      /\ Len(reader.items) \in Nat
  BY Typed
<1>2. /\ DOMAIN list' = 1..Len(list) + 1
      /\ \A k \in 1..Len(list) + 1 :
           list'[k] = IF k < i THEN list[k] ELSE IF k = i THEN lastId + 1 ELSE list[k - 1]
  <2>1. list' = With(i) /\ lastId < MaxRecords
    BY DEF Insert, With
  <2>2. With(i) \in Seq(1..MaxRecords) /\ Len(With(i)) = Len(list) + 1
    BY <2>1, Inserted
  <2>3. QED
    BY <2>1, <2>2, Inserted, LenProperties
<1>3. /\ lastId' = lastId + 1 /\ reader'.pc = reader.pc /\ reader'.items = reader.items
      /\ RowsPassed' = RowsPassed
      /\ reader'.ahead = IF reader.pc = "reading" /\ i <= RowsPassed
                         THEN reader.ahead + 1 ELSE reader.ahead
  BY Typed DEF Insert, RowsPassed, Reader
\* What stands at a place of the new list is the new record, or stood there or one place
\* nearer to the front.
<1>4. ASSUME NEW k \in 1..Len(list) + 1
      PROVE  \/ k = i /\ list'[k] = lastId + 1
             \/ k < i /\ k \in DOMAIN list /\ list'[k] = list[k]
             \/ k > i /\ k - 1 \in DOMAIN list /\ list'[k] = list[k - 1]
  BY <1>1, <1>2
<1>5. \A k \in DOMAIN list : list[k] \in Nat /\ list[k] <= lastId /\ list[k] # lastId + 1
  BY <1>1 DEF FewRepeated
<1>6. Distinct(list')
  <2> SUFFICES ASSUME NEW k \in 1..Len(list) + 1, NEW l \in 1..Len(list) + 1,
                      list'[k] = list'[l]
               PROVE  k = l
    BY <1>2 DEF Distinct
  <2>1. Distinct(list) /\ k \in Nat /\ l \in Nat /\ i \in Nat
    BY <1>1 DEF FewRepeated
  <2>2. \A p, q \in DOMAIN list : list[p] = list[q] => p = q
    BY <2>1 DEF Distinct
  \* Where the two records stood, if neither is the new one.
  <2>3. CASE k = i
    <3>1. list'[l] = lastId + 1
      BY <1>4, <2>1, <2>3
    <3>2. QED
      BY <1>4, <1>5, <2>1, <2>3, <3>1
  <2>4. CASE l = i
    <3>1. list'[k] = lastId + 1
      BY <1>4, <2>1, <2>4
    <3>2. QED
      BY <1>4, <1>5, <2>1, <2>4, <3>1
  <2>5. CASE k # i /\ l # i
    <3>1. PICK p \in DOMAIN list :
            list'[k] = list[p] /\ ((k < i /\ p = k) \/ (k > i /\ p = k - 1))
      BY <1>4, <2>5
    <3>2. PICK q \in DOMAIN list :
            list'[l] = list[q] /\ ((l < i /\ q = l) \/ (l > i /\ q = l - 1))
      BY <1>4, <2>5
    <3>3. p = q
      BY <2>2, <3>1, <3>2
    <3>4. QED
      BY <2>1, <3>1, <3>2, <3>3
  <2>6. QED
    BY <2>3, <2>4, <2>5
<1>7. \A k \in DOMAIN list' : list'[k] <= lastId'
  BY <1>1, <1>2, <1>3, <1>4, <1>5
<1>8. \A x \in Contents(reader.items) : x \in Nat /\ x <= lastId /\ x # lastId + 1
  <2>1. \A j \in DOMAIN reader.items : reader.items[j] \in Nat
    BY Typed
  <2>2. QED
    BY <1>1, <2>1 DEF FewRepeated, Contents
<1>9. ToRepeat' \subseteq ToRepeat \cup (IF i <= RowsPassed THEN {list[RowsPassed]} ELSE {})
  <2> SUFFICES ASSUME NEW x \in ToRepeat'
               PROVE  x \in ToRepeat \/ (i <= RowsPassed /\ x = list[RowsPassed])
    OBVIOUS
  <2>1. PICK k \in 1..Len(list) + 1 : k > RowsPassed /\ list'[k] = x
    BY <1>2, <1>3 DEF ToRepeat
  <2>2. x \in Contents(reader.items)
    BY <1>3 DEF ToRepeat
  <2>3. k # i
    BY <1>4, <1>8, <2>1, <2>2
  <2>4. CASE k < i
    BY <1>4, <2>1, <2>2, <2>4 DEF ToRepeat
  <2>5. CASE k > i
    <3>1. k - 1 \in DOMAIN list /\ list[k - 1] = x
      BY <1>4, <2>1, <2>5
    <3>2. CASE k - 1 > RowsPassed
      BY <2>2, <3>1, <3>2 DEF ToRepeat
    <3>3. CASE k - 1 = RowsPassed
      BY <1>1, <2>5, <3>1, <3>3
    <3>4. QED
      BY <1>1, <2>1, <3>2, <3>3
  <2>6. QED
    BY <2>3, <2>4, <2>5
<1>10. ASSUME reader.pc = "reading"
       PROVE  Len(reader.items) - Cardinality(Contents(reader.items)) + Cardinality(ToRepeat')
                <= reader'.ahead
  <2>1. /\ IsFiniteSet(ToRepeat) /\ Cardinality(ToRepeat) \in Nat
        /\ Cardinality(Contents(reader.items)) \in Nat
    BY <1>1, ToRepeatCount, ContentsCount
  <2>2. Len(reader.items) - Cardinality(Contents(reader.items)) + Cardinality(ToRepeat)
          <= reader.ahead
    BY <1>10 DEF FewRepeated
  <2>3. CASE i <= RowsPassed
    <3>1. ToRepeat' \subseteq ToRepeat \cup {list[RowsPassed]}
      BY <1>9, <2>3
    <3>2. /\ IsFiniteSet(ToRepeat \cup {list[RowsPassed]})
          /\ Cardinality(ToRepeat \cup {list[RowsPassed]}) \in
               {Cardinality(ToRepeat), Cardinality(ToRepeat) + 1}
      BY <2>1, FS_AddElement
    <3>3. IsFiniteSet(ToRepeat') /\
            Cardinality(ToRepeat') <= Cardinality(ToRepeat \cup {list[RowsPassed]})
      BY <3>1, <3>2, FS_Subset
    <3>4. Cardinality(ToRepeat') \in Nat
      BY <3>3, FS_CardinalityType
    <3>5. Cardinality(ToRepeat') <= Cardinality(ToRepeat) + 1
      BY <2>1, <3>2, <3>3, <3>4
    <3>6. reader'.ahead = reader.ahead + 1
      BY <1>3, <1>10, <2>3
    <3>7. QED
      BY <1>1, <2>1, <2>2, <3>4, <3>5, <3>6
  <2>4. CASE ~(i <= RowsPassed)
    <3>1. ToRepeat' \subseteq ToRepeat
      BY <1>9, <2>4
    <3>2. Cardinality(ToRepeat') \in Nat /\ Cardinality(ToRepeat') <= Cardinality(ToRepeat)
      BY <3>1, ToRepeatCount
    <3>3. QED
      BY <1>1, <1>3, <2>1, <2>2, <2>4, <3>2
  <2>5. QED
    BY <2>3, <2>4
<1>11. OneRepeatPerInsertion'
  <2>1. reader.ahead <= reader'.ahead /\ reader'.ahead \in Nat
    BY <1>1, <1>3
  <2>2. Cardinality(Contents(reader.items)) \in Nat
    BY <1>1, ContentsCount
  <2>3. Len(reader.items) - Cardinality(Contents(reader.items)) <= reader.ahead
    BY DEF FewRepeated, OneRepeatPerInsertion
  <2>4. Len(reader.items) - Cardinality(Contents(reader.items)) <= reader'.ahead
    BY <1>1, <2>1, <2>2, <2>3
  <2>5. QED
    BY <1>3, <2>4 DEF OneRepeatPerInsertion
<1>12. \A x \in Contents(reader.items) : x <= lastId'
  BY <1>1, <1>3, <1>8
<1>13. QED
  BY <1>3, <1>6, <1>7, <1>10, <1>11, <1>12 DEF FewRepeated

LEMMA RepeatedDelete ==
    ASSUME TypeOK, FewRepeated, NEW i \in DOMAIN list, Delete(i)
    PROVE  FewRepeated'
<1>1. /\ Len(list) \in Nat /\ DOMAIN list = 1..Len(list) /\ RowsPassed \in Nat
      /\ reader.ahead \in Nat /\ reader.items \in Seq(Nat) /\ Len(reader.items) \in Nat
  BY Typed
<1>2. /\ lastId' = lastId /\ RowsPassed' = RowsPassed /\ reader'.pc = reader.pc
      /\ reader'.items = reader.items /\ reader'.ahead = reader.ahead
  BY Typed DEF Delete, RowsPassed, Reader
<1>3. /\ DOMAIN list' = 1..Len(list) - 1
      /\ \A k \in 1..Len(list) - 1 : list'[k] = IF k < i THEN list[k] ELSE list[k + 1]
  <2>1. list' = Without(i)
    BY DEF Delete, Without
  <2>2. list' \in Seq(1..MaxRecords) /\ Len(list') = Len(list) - 1
    BY <2>1, Deleted
  <2>3. QED
    BY <2>1, <2>2, Deleted, LenProperties
<1>4. ASSUME NEW k \in DOMAIN list'
      PROVE  \/ k < i /\ k \in DOMAIN list /\ list'[k] = list[k]
             \/ k >= i /\ k + 1 \in DOMAIN list /\ list'[k] = list[k + 1]
  BY <1>1, <1>3
<1>5. Distinct(list')
  <2> SUFFICES ASSUME NEW k \in DOMAIN list', NEW l \in DOMAIN list', list'[k] = list'[l]
               PROVE  k = l
    BY DEF Distinct
  <2>1. k \in Nat /\ l \in Nat /\ i \in Nat
    BY <1>1, <1>3
  <2>2. \A p, q \in DOMAIN list : list[p] = list[q] => p = q
    BY DEF FewRepeated, Distinct
  <2>3. CASE k < i
    BY <1>1, <1>4, <2>1, <2>2, <2>3
  <2>4. CASE k >= i
    BY <1>1, <1>4, <2>1, <2>2, <2>4
  <2>5. QED
    BY <2>1, <2>3, <2>4
<1>6. \A k \in DOMAIN list' : list'[k] <= lastId'
  BY <1>2, <1>4 DEF FewRepeated
<1>7. ToRepeat' \subseteq ToRepeat
  <2> SUFFICES ASSUME NEW x \in ToRepeat' PROVE x \in ToRepeat
    OBVIOUS
  <2>1. PICK k \in DOMAIN list' : k > RowsPassed /\ list'[k] = x
    BY <1>2 DEF ToRepeat
  <2>2. x \in Contents(reader.items)
    BY <1>2 DEF ToRepeat
  <2>3. k \in Nat /\ k + 1 > RowsPassed
    BY <1>1, <1>3, <2>1
  <2>4. \E m \in DOMAIN list : m > RowsPassed /\ list[m] = x
    BY <1>4, <2>1, <2>3
  <2>5. QED
    BY <2>2, <2>4 DEF ToRepeat
<1>8. ASSUME reader.pc = "reading"
      PROVE  Len(reader.items) - Cardinality(Contents(reader.items)) + Cardinality(ToRepeat')
               <= reader.ahead
  <2>1. Cardinality(Contents(reader.items)) \in Nat
    BY <1>1, ContentsCount
  <2>2. /\ Cardinality(ToRepeat) \in Nat /\ Cardinality(ToRepeat') \in Nat
        /\ Cardinality(ToRepeat') <= Cardinality(ToRepeat)
    BY <1>7, ToRepeatCount
  <2>3. Len(reader.items) - Cardinality(Contents(reader.items)) + Cardinality(ToRepeat)
          <= reader.ahead
    BY <1>8 DEF FewRepeated
  <2>4. QED
    BY <1>1, <2>1, <2>2, <2>3
<1>9. QED
  BY <1>2, <1>5, <1>6, <1>8 DEF FewRepeated, OneRepeatPerInsertion

LEMMA Offset ==
    ASSUME NEW a \in Nat, NEW b \in Nat, NEW k \in 1..a + b, ~(k <= a)
    PROVE  k - a \in 1..b
OBVIOUS

\* What NextPage has read after it, in the old state's terms.
LEMMA NextItems ==
    ASSUME TypeOK, NextPage
    PROVE  /\ DOMAIN reader'.items = 1..Len(reader.items) + Len(PageRows(reader.page))
           /\ \A k \in 1..Len(reader.items) + Len(PageRows(reader.page)) :
                reader'.items[k] = IF k <= Len(reader.items) THEN reader.items[k]
                                   ELSE list[RowsPassed + (k - Len(reader.items))]
<1>1. reader.page <= NumPages /\ reader'.items = reader.items \o PageRows(reader.page)
  BY Typed DEF NextPage, Reader
<1>2. DOMAIN reader'.items = 1..Len(reader.items) + Len(PageRows(reader.page))
  BY <1>1, ItemsAndRows, LenProperties
<1>3. ASSUME NEW k \in 1..Len(reader.items) + Len(PageRows(reader.page))
      PROVE  reader'.items[k] = IF k <= Len(reader.items) THEN reader.items[k]
                                ELSE list[RowsPassed + (k - Len(reader.items))]
  <2>1. reader'.items[k] = IF k <= Len(reader.items) THEN reader.items[k]
                           ELSE PageRows(reader.page)[k - Len(reader.items)]
    BY <1>1, ItemsAndRows
  <2>2. ~(k <= Len(reader.items)) =>
          k - Len(reader.items) \in 1..Len(PageRows(reader.page))
    <3>1. Len(PageRows(reader.page)) \in Nat /\ Len(reader.items) \in Nat
      BY <1>1, NextRows, Typed
    <3>2. QED
      BY <3>1, Offset
  <2>3. QED
    BY <1>1, <2>1, <2>2, NextRows
<1>4. QED
  BY <1>2, <1>3

LEMMA RepeatedNextPage == TypeOK /\ FewRepeated /\ NextPage => FewRepeated'
<1> SUFFICES ASSUME TypeOK, FewRepeated, NextPage
             PROVE  FewRepeated'
  OBVIOUS
<1> DEFINE n == Len(reader.items)
           rows == PageRows(reader.page)
           m == Len(rows)
           A == Contents(reader.items)
           B == Contents(rows)
<1>1. /\ Len(list) \in Nat /\ DOMAIN list = 1..Len(list) /\ RowsPassed \in Nat
      /\ n \in Nat /\ DOMAIN reader.items = 1..n /\ reader.items \in Seq(Nat)
      /\ reader.ahead \in Nat
  BY Typed
<1>2. /\ list' = list /\ lastId' = lastId /\ reader.pc = "reading"
      /\ reader.page <= NumPages /\ reader'.ahead = reader.ahead
      /\ reader'.items = reader.items \o rows
      /\ reader'.pc = "reading" =>
           /\ reader.page < NumPages
           /\ RowsPassed' = PageSize * ((reader.page + 1) - 1)
  BY Typed DEF NextPage, Reader, RowsPassed
<1>3. rows \in Seq(Nat)
  <2>1. rows \in Seq(1..MaxRecords)
    BY <1>2, Typed, Rows
  <2>2. QED
    BY <2>1, IdsAreNumbers
<1>4. /\ m \in Nat /\ DOMAIN rows = 1..m
      /\ \A j \in 1..m : RowsPassed + j \in 1..LastRow(reader.page)
      /\ \A j \in 1..m : rows[j] = list[RowsPassed + j]
      /\ LastRow(reader.page) \in Nat /\ LastRow(reader.page) <= Len(list)
  BY <1>2, <1>3, NextRows, LenProperties
<1>5. reader'.pc = "reading" => RowsPassed' = LastRow(reader.page)
  BY <1>2, NextRows
<1>6. \A p, q \in DOMAIN list : list[p] = list[q] => p = q
  BY DEF FewRepeated, Distinct
\* The page shows its records once, and they stand behind the pages read before.
<1>7. ASSUME NEW x \in B
      PROVE  \E k \in DOMAIN list : k > RowsPassed /\ k <= LastRow(reader.page) /\ list[k] = x
  <2>1. PICK j \in 1..m : rows[j] = x
    BY <1>4 DEF Contents
  <2>2. RowsPassed + j \in DOMAIN list /\ RowsPassed + j > RowsPassed
        /\ RowsPassed + j <= LastRow(reader.page)
    BY <1>1, <1>4
  <2>3. QED
    BY <1>4, <2>1, <2>2
<1>8. Distinct(rows)
  <2> SUFFICES ASSUME NEW j \in 1..m, NEW k \in 1..m, rows[j] = rows[k]
               PROVE  j = k
    BY <1>4 DEF Distinct
  <2>1. RowsPassed + j \in DOMAIN list /\ RowsPassed + k \in DOMAIN list
    BY <1>1, <1>4
  <2>2. RowsPassed + j = RowsPassed + k
    BY <1>4, <1>6, <2>1
  <2>3. QED
    BY <1>1, <2>2
<1>9. /\ Len(reader'.items) = n + m /\ Contents(reader'.items) = A \cup B
  <2> HIDE DEF rows
  <2>1. /\ reader.items \o rows \in Seq(Nat) /\ Len(reader.items \o rows) = n + m
        /\ \A k \in 1..n + m :
             (reader.items \o rows)[k] = IF k <= n THEN reader.items[k] ELSE rows[k - n]
    BY <1>1, <1>3, ConcatProperties
  <2>2. DOMAIN (reader.items \o rows) = 1..n + m
    BY <2>1, LenProperties
  <2> DEFINE c == reader.items \o rows
  <2> HIDE DEF c, n, m
  <2>3. \A k \in DOMAIN c : c[k] \in A \cup B
    <3> SUFFICES ASSUME NEW k \in 1..n + m PROVE c[k] \in A \cup B
      BY <2>2 DEF c
    <3>1. CASE k <= n
      BY <1>1, <2>1, <3>1 DEF Contents, c
    <3>2. CASE ~(k <= n)
      <4>1. k - n \in 1..m
        BY <1>1, <1>4, <3>2, Offset
      <4>2. QED
        BY <1>4, <2>1, <3>2, <4>1 DEF Contents, c
    <3>3. QED
      BY <3>1, <3>2
  <2>4. \A k \in 1..n : k \in DOMAIN c /\ c[k] = reader.items[k]
    <3> SUFFICES ASSUME NEW k \in 1..n PROVE k \in DOMAIN c /\ c[k] = reader.items[k]
      OBVIOUS
    <3>1. k \in 1..n + m /\ k <= n
      BY <1>1, <1>4
    <3>2. QED
      BY <2>1, <2>2, <3>1 DEF c
  <2>5. \A j \in 1..m : n + j \in DOMAIN c /\ c[n + j] = rows[j]
    <3> SUFFICES ASSUME NEW j \in 1..m PROVE n + j \in DOMAIN c /\ c[n + j] = rows[j]
      OBVIOUS
    <3>1. n + j \in 1..n + m /\ ~(n + j <= n) /\ (n + j) - n = j
      BY <1>1, <1>4
    <3>2. QED
      BY <2>1, <2>2, <3>1 DEF c
  <2>6. Contents(c) = A \cup B
    BY <1>1, <1>4, <2>3, <2>4, <2>5 DEF Contents
  <2>7. QED
    BY <1>2, <2>1, <2>6 DEF c, n, m
<1>10. /\ IsFiniteSet(A) /\ Cardinality(A) \in Nat
       /\ IsFiniteSet(B) /\ Cardinality(B) = m
  BY <1>1, <1>3, <1>8, ContentsCount
<1>11. A \cap B \subseteq ToRepeat
  BY <1>7 DEF ToRepeat
<1>12. /\ Cardinality(A \cup B) = Cardinality(A) + m - Cardinality(A \cap B)
       /\ IsFiniteSet(A \cap B) /\ Cardinality(A \cap B) \in Nat
       /\ Cardinality(A \cap B) <= Cardinality(ToRepeat) /\ Cardinality(ToRepeat) \in Nat
  BY <1>10, <1>11, ToRepeatCount, FS_Union
<1>13. n - Cardinality(A) + Cardinality(ToRepeat) <= reader.ahead
  BY <1>2 DEF FewRepeated
<1>14. ASSUME reader'.pc = "reading"
       PROVE  Cardinality(ToRepeat') \in Nat /\
                Cardinality(ToRepeat') + Cardinality(A \cap B) <= Cardinality(ToRepeat)
  <2>1. ASSUME NEW x \in ToRepeat'
        PROVE  x \in ToRepeat /\ x \notin B
    <3>1. PICK k \in DOMAIN list : k > LastRow(reader.page) /\ list[k] = x
      BY <1>2, <1>5, <1>14 DEF ToRepeat
    <3>2. x \in A \cup B
      BY <1>9 DEF ToRepeat
    <3>3. x \notin B
      <4> SUFFICES ASSUME x \in B PROVE FALSE
        OBVIOUS
      <4>1. PICK l \in DOMAIN list : l <= LastRow(reader.page) /\ list[l] = x
        BY <1>7
      <4>2. k = l
        BY <1>6, <3>1, <4>1
      <4>3. QED
        BY <1>1, <1>4, <3>1, <4>1, <4>2
    <3>4. LastRow(reader.page) >= RowsPassed
      <4>1. reader.page < NumPages /\ reader.page \in Nat \ {0} /\ PageSize \in Nat
        BY <1>2, <1>14, Typed
      <4>2. LastRow(reader.page) = RowsPassed + PageSize
        BY <4>1, Pages DEF LastRow, RowsPassed
      <4>3. QED
        BY <1>1, <4>1, <4>2
    <3>5. k > RowsPassed
      BY <1>1, <1>4, <3>1, <3>4
    <3>6. QED
      BY <3>1, <3>2, <3>3, <3>5 DEF ToRepeat
  <2>2. /\ ToRepeat' \subseteq ToRepeat /\ ToRepeat' \cap (A \cap B) = {}
        /\ ToRepeat' \cup (A \cap B) \subseteq ToRepeat
    BY <1>11, <2>1
  <2>3. IsFiniteSet(ToRepeat') /\ Cardinality(ToRepeat') \in Nat
    BY <2>2, ToRepeatCount
  <2>4. Cardinality(ToRepeat' \cup (A \cap B))
          = Cardinality(ToRepeat') + Cardinality(A \cap B)
    <3> DEFINE again == ToRepeat'
               both == A \cap B
    <3>1. IsFiniteSet(again) /\ IsFiniteSet(both) /\ again \cap both = {}
      BY <1>12, <2>2, <2>3
    <3>2. Cardinality(again) \in Nat /\ Cardinality(both) \in Nat
      BY <1>12, <2>3
    <3> HIDE DEF again, both
    <3>3. Cardinality(again \cup both)
            = Cardinality(again) + Cardinality(both) - Cardinality(again \cap both)
      BY <3>1, FS_Union
    <3>4. Cardinality(again \cap both) = 0
      BY <3>1, FS_EmptySet
    <3>5. Cardinality(again \cup both) = Cardinality(again) + Cardinality(both)
      BY <3>2, <3>3, <3>4
    <3>6. QED
      BY <3>5 DEF again, both
  <2>5. Cardinality(ToRepeat' \cup (A \cap B)) <= Cardinality(ToRepeat)
    BY <2>2, ToRepeatCount
  <2>6. QED
    BY <1>12, <2>3, <2>4, <2>5
<1> HIDE DEF n, m, A, B, rows
<1>15. Len(reader'.items) - Cardinality(Contents(reader'.items))
         = n - Cardinality(A) + Cardinality(A \cap B)
  BY <1>1, <1>4, <1>9, <1>10, <1>12
<1>16. n - Cardinality(A) + Cardinality(A \cap B) <= reader.ahead
  BY <1>1, <1>10, <1>12, <1>13
<1>17. reader'.pc = "reading" =>
         n - Cardinality(A) + Cardinality(A \cap B) + Cardinality(ToRepeat') <= reader.ahead
  BY <1>1, <1>10, <1>12, <1>13, <1>14
<1>18. \A x \in Contents(reader'.items) : x <= lastId
  <2>1. \A x \in A : x <= lastId
    BY DEF FewRepeated, A
  <2>2. \A x \in B : x <= lastId
    BY <1>7 DEF FewRepeated
  <2>3. QED
    BY <1>9, <2>1, <2>2
<1>19. OneRepeatPerInsertion'
  BY <1>2, <1>15, <1>16 DEF OneRepeatPerInsertion
<1>20. reader'.pc = "reading" =>
         Len(reader'.items) - Cardinality(Contents(reader'.items)) + Cardinality(ToRepeat')
           <= reader.ahead
  BY <1>15, <1>17
<1>21. Distinct(list) /\ \A i \in DOMAIN list : list[i] <= lastId
  BY DEF FewRepeated
<1>22. QED
  BY <1>2, <1>18, <1>19, <1>20, <1>21 DEF FewRepeated

LEMMA RepeatedWholeList == TypeOK /\ FewRepeated /\ WholeList => FewRepeated'
<1> SUFFICES ASSUME TypeOK, FewRepeated, WholeList
             PROVE  FewRepeated'
  OBVIOUS
<1>1. /\ Len(list) \in Nat /\ DOMAIN list = 1..Len(list) /\ reader.ahead \in Nat
      /\ list \in Seq(Nat)
  BY Typed, IdsAreNumbers
<1>2. /\ list' = list /\ lastId' = lastId /\ reader'.pc = "done"
      /\ reader'.items = (IF reader.shape = "list" THEN list ELSE PageRows(1))
      /\ reader'.ahead = reader.ahead
  BY Typed DEF WholeList, Reader
<1>3. Distinct(list) /\ \A i \in DOMAIN list : list[i] <= lastId
  BY DEF FewRepeated
<1>4. /\ reader'.items \in Seq(Nat) /\ Distinct(reader'.items)
      /\ \A x \in Contents(reader'.items) : x <= lastId
  <2>1. CASE reader.shape = "list"
    BY <1>1, <1>2, <1>3, <2>1 DEF Contents
  <2>2. CASE reader.shape # "list"
    <3> DEFINE rows == PageRows(1)
    <3>1. 1 \in Nat \ {0} /\ 1 <= NumPages /\ PageSize * (1 - 1) = 0
      <4>1. 1 \in Nat \ {0} /\ PageSize \in Nat
        BY Typed
      <4>2. NumPages \in Nat \ {0}
        BY <4>1, Pages
      <4>3. QED
        BY <4>1, <4>2
    <3>2. rows \in Seq(1..MaxRecords) /\ LastRow(1) \in Nat /\ LastRow(1) <= Len(list)
      BY <3>1, Rows
    <3>3. \A j \in 1..Len(rows) : 0 + j \in 1..LastRow(1) /\ rows[j] = list[0 + j]
      BY <3>1, Rows
    <3>4. rows \in Seq(Nat) /\ DOMAIN rows = 1..Len(rows) /\ Len(rows) \in Nat
      BY <3>2, IdsAreNumbers, LenProperties
    <3> HIDE DEF rows
    <3>5. \A j \in 1..Len(rows) : j \in 1..Len(list) /\ rows[j] = list[j]
      BY <1>1, <3>2, <3>3, <3>4
    <3>6. Distinct(rows) /\ \A x \in Contents(rows) : x <= lastId
      BY <1>1, <1>3, <3>4, <3>5 DEF Distinct, Contents
    <3>7. reader'.items = rows
      BY <1>2, <2>2 DEF rows
    <3>8. QED
      BY <3>4, <3>6, <3>7
  <2>3. QED
    BY <2>1, <2>2
<1>5. Len(reader'.items) - Cardinality(Contents(reader'.items)) = 0
  <2>1. Len(reader'.items) \in Nat
    BY <1>4, LenProperties
  <2>2. Cardinality(Contents(reader'.items)) = Len(reader'.items)
    BY <1>4, ContentsCount
  <2>3. QED
    BY <2>1, <2>2
<1>6. OneRepeatPerInsertion'
  BY <1>1, <1>2, <1>5 DEF OneRepeatPerInsertion
<1>7. QED
  BY <1>2, <1>3, <1>4, <1>6 DEF FewRepeated

LEMMA RepeatedStep == TypeOK /\ FewRepeated /\ [Next]_vars => FewRepeated'
<1> SUFFICES ASSUME TypeOK, FewRepeated, [Next]_vars
             PROVE  FewRepeated'
  OBVIOUS
<1>e. Len(<<>>) = 0 /\ Contents(<<>>) = {} /\ Cardinality({}) = 0
  BY EmptySeq, FS_EmptySet DEF Contents
<1>1. CASE Return \/ \E shape \in Shapes : Start(shape)
  <2>1. /\ list' = list /\ lastId' = lastId /\ reader'.items = <<>> /\ reader'.ahead = 0
    <3>1. CASE Return
      BY <3>1 DEF Return, Fresh
    <3>2. CASE \E shape \in Shapes : Start(shape)
      BY <3>2 DEF Start, Fresh
    <3>3. QED
      BY <1>1, <3>1, <3>2
  <2>2. Contents(reader'.items) = {} /\ Len(reader'.items) = 0
    BY <1>e, <2>1
  <2>3. ToRepeat' = {}
    BY <2>2 DEF ToRepeat
  <2>4. Len(reader'.items) - Cardinality(Contents(reader'.items)) = 0
    BY <1>e, <2>2
  <2>5. Len(reader'.items) - Cardinality(Contents(reader'.items)) + Cardinality(ToRepeat') = 0
    BY <1>e, <2>2, <2>3
  <2>6. Distinct(list') /\ \A i \in DOMAIN list' : list'[i] <= lastId'
    BY <2>1 DEF FewRepeated
  <2>7. QED
    BY <2>1, <2>2, <2>4, <2>5, <2>6 DEF FewRepeated, OneRepeatPerInsertion
<1>2. CASE PastTheEnd \/ ErrorAnswer \/ NoAnswer
  <2>1. /\ list' = list /\ lastId' = lastId /\ reader'.items = reader.items
        /\ reader'.ahead = reader.ahead /\ reader'.pc # "reading"
    BY <1>2, Typed DEF PastTheEnd, ErrorAnswer, NoAnswer, Reader
  <2>2. QED
    BY <2>1 DEF FewRepeated, OneRepeatPerInsertion, Distinct
<1>3. CASE UNCHANGED vars
  BY <1>3 DEF FewRepeated, OneRepeatPerInsertion, Distinct, ToRepeat, RowsPassed, vars
<1>4. QED
  BY <1>1, <1>2, <1>3, RepeatedInsert, RepeatedDelete, RepeatedNextPage, RepeatedWholeList
  DEF Next, Read

\* paged_get() (platform_client.py:91-106) takes each page from the list as it is when that
\* page is asked for: it returns no more records a second time than were added meanwhile in
\* front of the page to come, wherever the order of the list puts a new record, whatever is
\* deleted, and for every page size.
THEOREM FewRepeats == Spec => []OneRepeatPerInsertion
<1>1. Init => TypeOK /\ FewRepeated
  BY TypeInit, RepeatedInit
<1>2. TypeOK /\ FewRepeated /\ [Next]_vars => (TypeOK /\ FewRepeated)'
  BY TypeStep, RepeatedStep
<1>3. TypeOK /\ FewRepeated => OneRepeatPerInsertion
  BY DEF FewRepeated
<1>4. QED
  BY <1>1, <1>2, <1>3, PTL DEF Spec

-----------------------------------------------------------------------------
(* One miss per deletion *)

\* The records in the list since the call started that are in front of the page to come,
\* and that no page has shown.
Skipped == {x \in reader.kept \ Contents(reader.items) :
              \A i \in DOMAIN list : list[i] = x => i <= RowsPassed}

\* Every deletion moves at most one record in front of the page to come.
FewSkipped ==
    /\ reader.kept \subseteq 1..MaxRecords
    /\ reader.pc = "reading" =>
         /\ reader.kept \subseteq Contents(list)
         /\ Cardinality(Skipped) <= reader.gone
    /\ OneMissPerDeletion

\* What is compared is finite.
LEMMA SmallerCount ==
    ASSUME TypeOK, FewSkipped, NEW S, NEW T, NEW n \in Nat,
           T \subseteq reader.kept, S \subseteq T, Cardinality(T) <= n
    PROVE  Cardinality(S) <= n
<1>1. MaxRecords \in Int /\ IsFiniteSet(1..MaxRecords)
  BY PagingAssumption, FS_Interval
<1>2. IsFiniteSet(T)
  BY <1>1, FS_Subset DEF FewSkipped
<1>3. IsFiniteSet(S) /\ Cardinality(S) <= Cardinality(T)
  BY <1>2, FS_Subset
<1>4. Cardinality(S) \in Nat /\ Cardinality(T) \in Nat
  BY <1>2, <1>3, FS_CardinalityType
<1>5. QED
  BY <1>3, <1>4

LEMMA FewInit == Init => FewSkipped
BY DEF Init, Fresh, FewSkipped, OneMissPerDeletion

LEMMA FewInsert ==
    ASSUME TypeOK, FewSkipped, NEW i \in 1..Len(list) + 1, Insert(i)
    PROVE  FewSkipped'
<1>1. /\ DOMAIN list = 1..Len(list) /\ Len(list) \in Nat /\ RowsPassed \in Nat
      /\ reader.gone \in Nat
  BY Typed
<1>2. /\ DOMAIN list' = 1..Len(list) + 1
      /\ \A k \in 1..Len(list) + 1 :
           list'[k] = IF k < i THEN list[k] ELSE IF k = i THEN lastId + 1 ELSE list[k - 1]
  <2>1. list' = With(i) /\ lastId < MaxRecords
    BY DEF Insert, With
  <2>2. With(i) \in Seq(1..MaxRecords) /\ Len(With(i)) = Len(list) + 1
    BY <2>1, Inserted
  <2>3. QED
    BY <2>1, <2>2, Inserted, LenProperties
<1>3. /\ reader'.pc = reader.pc /\ reader'.items = reader.items
      /\ reader'.kept = reader.kept /\ reader'.error = reader.error
      /\ reader'.shape = reader.shape /\ RowsPassed' = RowsPassed
      /\ reader'.gone = reader.gone
  BY Typed DEF Insert, RowsPassed, Reader
\* A record that was there is where it was, or one place further from the front.
<1>4. ASSUME NEW k \in DOMAIN list
      PROVE  \E l \in DOMAIN list' : list'[l] = list[k] /\ l >= k
  <2>1. k \in 1..Len(list) + 1 /\ k + 1 \in 1..Len(list) + 1 /\ (k + 1) - 1 = k
    BY <1>1
  <2>2. CASE k < i
    BY <1>1, <1>2, <2>1, <2>2
  <2>3. CASE ~(k < i)
    BY <1>1, <1>2, <2>1, <2>3
  <2>4. QED
    BY <2>2, <2>3
<1>5. Contents(list) \subseteq Contents(list')
  BY <1>4 DEF Contents
<1>6. Skipped' \subseteq Skipped /\ Skipped \subseteq reader.kept
  <2> SUFFICES ASSUME NEW x \in Skipped', NEW k \in DOMAIN list, list[k] = x
               PROVE  k <= RowsPassed
    BY <1>3 DEF Skipped
  <2>1. PICK l \in DOMAIN list' : list'[l] = x /\ l >= k
    BY <1>4
  <2>2. l <= RowsPassed
    BY <1>3, <2>1 DEF Skipped
  <2>3. QED
    BY <1>1, <1>2, <2>1, <2>2
<1>7. reader.pc = "reading" => Cardinality(Skipped') <= reader.gone
  BY <1>1, <1>6, SmallerCount DEF FewSkipped
<1>8. QED
  BY <1>3, <1>5, <1>7 DEF FewSkipped, OneMissPerDeletion

LEMMA FewDelete ==
    ASSUME TypeOK, FewSkipped, NEW i \in DOMAIN list, Delete(i)
    PROVE  FewSkipped'
<1>1. /\ Len(list) \in Nat /\ DOMAIN list = 1..Len(list) /\ RowsPassed \in Nat
      /\ reader.gone \in Nat
  BY Typed
<1>2. /\ reader'.pc = reader.pc /\ reader'.items = reader.items
      /\ reader'.kept = reader.kept \ {list[i]} /\ reader'.error = reader.error
      /\ reader'.shape = reader.shape /\ RowsPassed' = RowsPassed
      /\ reader'.gone = IF reader.pc = "reading" THEN reader.gone + 1 ELSE reader.gone
  BY Typed DEF Delete, RowsPassed, Reader
<1>3. /\ DOMAIN list' = 1..Len(list) - 1
      /\ \A k \in 1..Len(list) - 1 : list'[k] = IF k < i THEN list[k] ELSE list[k + 1]
  <2>1. list' = Without(i)
    BY DEF Delete, Without
  <2>2. list' \in Seq(1..MaxRecords) /\ Len(list') = Len(list) - 1
    BY <2>1, Deleted
  <2>3. QED
    BY <2>1, <2>2, Deleted, LenProperties
\* A record that is still there is where it was, or one place nearer to the front.
<1>4. ASSUME NEW m \in DOMAIN list, list[m] # list[i]
      PROVE  \E k \in DOMAIN list' : list'[k] = list[m] /\ k \in {m, m - 1}
  <2>1. CASE m < i
    BY <1>1, <1>3, <2>1
  <2>2. CASE m > i
    <3>1. m - 1 \in 1..Len(list) - 1 /\ ~(m - 1 < i) /\ (m - 1) + 1 = m
      BY <1>1, <2>2
    <3>2. QED
      BY <1>3, <3>1
  <2>3. QED
    BY <1>1, <1>4, <2>1, <2>2
<1>5. ASSUME reader.pc = "reading"
      PROVE  reader'.kept \subseteq Contents(list')
  BY <1>2, <1>4, <1>5 DEF FewSkipped, Contents
<1>6. ASSUME reader.pc = "reading"
      PROVE  Skipped' \subseteq Skipped \cup {list[RowsPassed + 1]}
  <2> SUFFICES ASSUME NEW x \in Skipped', x # list[RowsPassed + 1]
               PROVE  x \in Skipped
    OBVIOUS
  <2>1. /\ x \in reader.kept \ Contents(reader.items) /\ x # list[i]
        /\ \A k \in DOMAIN list' : list'[k] = x => k <= RowsPassed
    BY <1>2 DEF Skipped
  <2>2. ASSUME NEW m \in DOMAIN list, list[m] = x
        PROVE  m <= RowsPassed
    <3>1. PICK k \in DOMAIN list' : list'[k] = list[m] /\ k \in {m, m - 1}
      BY <1>4, <2>1, <2>2
    <3>2. k <= RowsPassed /\ m # RowsPassed + 1
      BY <2>1, <2>2, <3>1
    <3>3. QED
      BY <1>1, <3>1, <3>2
  <2>3. QED
    BY <2>1, <2>2 DEF Skipped
<1>7. ASSUME reader.pc = "reading"
      PROVE  Cardinality(Skipped') <= reader.gone + 1
  <2>1. IsFiniteSet(Skipped)
    <3>1. MaxRecords \in Int /\ Skipped \subseteq 1..MaxRecords
      BY PagingAssumption DEF FewSkipped, Skipped
    <3>2. IsFiniteSet(1..MaxRecords)
      BY <3>1, FS_Interval
    <3>3. QED
      BY <3>1, <3>2, FS_Subset
  <2>2. /\ IsFiniteSet(Skipped \cup {list[RowsPassed + 1]})
        /\ Cardinality(Skipped \cup {list[RowsPassed + 1]}) \in
             {Cardinality(Skipped), Cardinality(Skipped) + 1}
    BY <2>1, FS_AddElement
  <2>3. IsFiniteSet(Skipped') /\ Cardinality(Skipped') <=
          Cardinality(Skipped \cup {list[RowsPassed + 1]})
    BY <1>6, <1>7, <2>2, FS_Subset
  <2>4. Cardinality(Skipped) \in Nat /\ Cardinality(Skipped') \in Nat
    BY <2>1, <2>3, FS_CardinalityType
  <2>5. Cardinality(Skipped) <= reader.gone
    BY <1>7 DEF FewSkipped
  <2>6. QED
    BY <1>1, <2>2, <2>3, <2>4, <2>5
<1>8. OneMissPerDeletion'
  <2> SUFFICES ASSUME reader.pc = "done", ~reader.error, reader.shape # "standard"
               PROVE  Cardinality(reader'.kept \ Contents(reader.items)) <= reader.gone
    BY <1>2 DEF OneMissPerDeletion
  <2>1. Cardinality(reader.kept \ Contents(reader.items)) <= reader.gone
    BY DEF FewSkipped, OneMissPerDeletion
  <2>2. reader'.kept \ Contents(reader.items) \subseteq reader.kept \ Contents(reader.items)
    BY <1>2
  <2>3. QED
    BY <1>1, <2>1, <2>2, SmallerCount
<1>9. QED
  BY <1>2, <1>5, <1>7, <1>8 DEF FewSkipped

LEMMA FewStart ==
    ASSUME TypeOK, FewSkipped, NEW shape \in Shapes, Start(shape)
    PROVE  FewSkipped'
<1>1. /\ list' = list /\ reader'.pc = "reading" /\ reader'.kept = Contents(list)
      /\ reader'.gone = 0 /\ reader'.page = 1
  BY DEF Start, Fresh
<1>2. RowsPassed' = 0
  <2>1. RowsPassed' = PageSize * (1 - 1)
    BY <1>1 DEF RowsPassed
  <2>2. QED
    BY <2>1, Typed
<1>3. Contents(list) \subseteq 1..MaxRecords
  BY Typed DEF Contents
<1>4. Skipped' = {}
  <2> SUFFICES ASSUME NEW x \in Skipped' PROVE FALSE
    OBVIOUS
  <2>1. x \in Contents(list) /\ \A i \in DOMAIN list : list[i] = x => i <= 0
    BY <1>1, <1>2 DEF Skipped
  <2>2. PICK i \in DOMAIN list : list[i] = x
    BY <2>1 DEF Contents
  <2>3. QED
    BY <2>1, <2>2, Typed
<1>5. Cardinality(Skipped') <= reader'.gone
  BY <1>1, <1>4, FS_EmptySet
<1>6. QED
  BY <1>1, <1>3, <1>5 DEF FewSkipped, OneMissPerDeletion

LEMMA FewNextPage == TypeOK /\ FewSkipped /\ NextPage => FewSkipped'
<1> SUFFICES ASSUME TypeOK, FewSkipped, NextPage
             PROVE  FewSkipped'
  OBVIOUS
<1> DEFINE n == Len(reader.items)
           m == Len(PageRows(reader.page))
<1>1. /\ Len(list) \in Nat /\ DOMAIN list = 1..Len(list) /\ RowsPassed \in Nat
      /\ n \in Nat /\ DOMAIN reader.items = 1..n /\ reader.gone \in Nat
  BY Typed
<1>2. /\ list' = list /\ reader.pc = "reading" /\ reader.page <= NumPages
      /\ reader'.kept = reader.kept /\ reader'.gone = reader.gone
      /\ reader'.pc = IF reader.page < NumPages THEN "reading" ELSE "done"
      /\ reader.page < NumPages => RowsPassed' = PageSize * ((reader.page + 1) - 1)
  BY Typed DEF NextPage, Reader, RowsPassed
<1>3. /\ m \in Nat /\ LastRow(reader.page) \in Nat
      /\ \A i \in 1..LastRow(reader.page) : i > RowsPassed => i - RowsPassed \in 1..m
      /\ reader.page < NumPages => RowsPassed' = LastRow(reader.page)
      /\ ~(reader.page < NumPages) => LastRow(reader.page) = Len(list)
  BY <1>2, NextRows DEF LastRow
<1>4. /\ DOMAIN reader'.items = 1..n + m
      /\ \A k \in 1..n + m :
           reader'.items[k] = IF k <= n THEN reader.items[k] ELSE list[RowsPassed + (k - n)]
  BY NextItems
<1> HIDE DEF n, m
<1>5. Contents(reader.items) \subseteq Contents(reader'.items)
  <2> SUFFICES ASSUME NEW k \in 1..n
               PROVE  reader.items[k] \in Contents(reader'.items)
    BY <1>1 DEF Contents
  <2>1. k \in 1..n + m /\ k <= n
    BY <1>1, <1>3
  <2>2. QED
    BY <1>4, <2>1 DEF Contents
<1>6. ASSUME NEW i \in 1..LastRow(reader.page), i > RowsPassed
      PROVE  list[i] \in Contents(reader'.items)
  <2> DEFINE k == n + (i - RowsPassed)
  <2>1. i - RowsPassed \in 1..m
    BY <1>3, <1>6
  <2>2. k \in 1..n + m /\ ~(k <= n) /\ k - n = i - RowsPassed
    BY <1>1, <1>3, <2>1
  <2>3. RowsPassed + (i - RowsPassed) = i
    BY <1>1, <1>3
  <2> HIDE DEF k
  <2>4. QED
    BY <1>4, <2>2, <2>3 DEF Contents
\* What is not on the page was skipped already.
<1>7. ASSUME NEW x \in reader.kept \ Contents(reader'.items),
             \A i \in DOMAIN list : list[i] = x => i <= LastRow(reader.page)
      PROVE  x \in Skipped
  <2>1. x \in reader.kept \ Contents(reader.items)
    BY <1>5
  <2>2. ASSUME NEW i \in DOMAIN list, list[i] = x
        PROVE  i <= RowsPassed
    BY <1>1, <1>3, <1>6, <1>7, <2>2
  <2>3. QED
    BY <2>1, <2>2 DEF Skipped
<1>8. Skipped \subseteq reader.kept /\ Cardinality(Skipped) <= reader.gone
  BY <1>2 DEF Skipped, FewSkipped
<1>9. CASE reader.page < NumPages
  <2>1. Skipped' \subseteq Skipped
    BY <1>2, <1>3, <1>7, <1>9 DEF Skipped
  <2>2. Cardinality(Skipped') <= reader.gone
    BY <1>1, <1>8, <2>1, SmallerCount
  <2>3. QED
    BY <1>2, <1>9, <2>2 DEF FewSkipped, OneMissPerDeletion
<1>10. CASE ~(reader.page < NumPages)
  <2>1. reader.kept \ Contents(reader'.items) \subseteq Skipped
    BY <1>1, <1>3, <1>7, <1>10
  <2>2. Cardinality(reader.kept \ Contents(reader'.items)) <= reader.gone
    BY <1>1, <1>8, <2>1, SmallerCount
  <2>3. QED
    BY <1>2, <1>10, <2>2 DEF FewSkipped, OneMissPerDeletion
<1>11. QED
  BY <1>9, <1>10

LEMMA FewPastTheEnd == TypeOK /\ FewSkipped /\ PastTheEnd => FewSkipped'
<1> SUFFICES ASSUME TypeOK, FewSkipped, PastTheEnd
             PROVE  FewSkipped'
  OBVIOUS
<1>1. /\ list' = list /\ reader.pc = "reading" /\ reader.page > NumPages
      /\ reader'.kept = reader.kept /\ reader'.gone = reader.gone
      /\ reader'.items = reader.items /\ reader'.pc = "done"
  BY Typed DEF PastTheEnd, Reader
<1>2. \A i \in DOMAIN list : i <= RowsPassed
  <2>1. reader.page \in Nat \ {0}
    BY Typed
  <2>2. Len(list) <= RowsPassed
    BY <1>1, <2>1, Pages DEF RowsPassed
  <2>3. RowsPassed \in Nat /\ Len(list) \in Nat /\ DOMAIN list = 1..Len(list)
    BY Typed
  <2>4. QED
    BY <2>2, <2>3
<1>3. reader.kept \ Contents(reader.items) = Skipped
  BY <1>2 DEF Skipped
<1>4. Cardinality(reader.kept \ Contents(reader.items)) <= reader.gone
  BY <1>1, <1>3 DEF FewSkipped
<1>5. QED
  BY <1>1, <1>4 DEF FewSkipped, OneMissPerDeletion

LEMMA FewWholeList == TypeOK /\ FewSkipped /\ WholeList => FewSkipped'
<1> SUFFICES ASSUME TypeOK, FewSkipped, WholeList
             PROVE  FewSkipped'
  OBVIOUS
<1>1. /\ reader.pc = "reading" /\ reader.shape \in {"list", "standard"}
      /\ reader'.shape = reader.shape /\ reader'.pc = "done"
      /\ reader'.kept = reader.kept /\ reader'.gone = reader.gone
      /\ reader'.items = IF reader.shape = "list" THEN list ELSE PageRows(1)
  BY Typed DEF WholeList, Reader
<1>2. ASSUME reader.shape # "standard"
      PROVE  Cardinality(reader.kept \ Contents(reader'.items)) <= reader.gone
  <2>1. reader'.items = list /\ reader.kept \subseteq Contents(list)
    BY <1>1, <1>2 DEF FewSkipped
  <2>2. reader.kept \ Contents(reader'.items) = {}
    BY <2>1
  <2>3. Cardinality(reader.kept \ Contents(reader'.items)) = 0
    BY <2>2, FS_EmptySet
  <2>4. reader.gone \in Nat
    BY Typed
  <2>5. QED
    BY <2>3, <2>4
<1>3. QED
  BY <1>1, <1>2 DEF FewSkipped, OneMissPerDeletion

LEMMA FewStep == TypeOK /\ FewSkipped /\ [Next]_vars => FewSkipped'
<1> SUFFICES ASSUME TypeOK, FewSkipped, [Next]_vars
             PROVE  FewSkipped'
  OBVIOUS
<1>1. CASE ErrorAnswer \/ NoAnswer
  <2>1. /\ reader'.kept = reader.kept /\ reader'.pc # "reading"
        /\ reader'.pc = "done" => reader'.error
    BY <1>1, Typed DEF ErrorAnswer, NoAnswer, Reader
  <2>2. QED
    BY <2>1 DEF FewSkipped, OneMissPerDeletion
<1>2. CASE Return
  <2>1. reader'.kept = {} /\ reader'.pc = "idle"
    BY <1>2 DEF Return, Fresh
  <2>2. QED
    BY <2>1 DEF FewSkipped, OneMissPerDeletion
<1>3. CASE UNCHANGED vars
  BY <1>3 DEF FewSkipped, OneMissPerDeletion, Skipped, Contents, RowsPassed, vars
<1>4. QED
  BY <1>1, <1>2, <1>3, FewInsert, FewDelete, FewStart, FewNextPage, FewPastTheEnd, FewWholeList
  DEF Next, Read

\* A call of paged_get() that met no error page misses, of the records in the list from
\* its start to its end, at most as many as were deleted meanwhile
\* (platform_client.py:80-107), for every page size and length of the list.
THEOREM FewMisses == Spec => []OneMissPerDeletion
<1>1. Init => TypeOK /\ FewSkipped
  BY TypeInit, FewInit
<1>2. TypeOK /\ FewSkipped /\ [Next]_vars => (TypeOK /\ FewSkipped)'
  BY TypeStep, FewStep
<1>3. TypeOK /\ FewSkipped => OneMissPerDeletion
  BY DEF FewSkipped
<1>4. QED
  BY <1>1, <1>2, <1>3, PTL DEF Spec
=============================================================================

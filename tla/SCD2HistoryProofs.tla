-------------------------- MODULE SCD2HistoryProofs --------------------------
(***************************************************************************)
(* Proofs about SCD2History, for every set of writers, owners and          *)
(* snapshots and for every bound.                                          *)
(***************************************************************************)
EXTENDS SCD2History, SequenceTheorems, FiniteSetTheorems, TLAPS

-----------------------------------------------------------------------------
(* Type correctness *)

LEMMA IdleType == Idle \in Tx
BY NonEmptyAssumption, BoundsAssumption DEF Idle, Tx

LEMMA OpenedType ==
    ASSUME NEW version \in Nat \ {0}, NEW now \in Nat, NEW s \in Snapshots
    PROVE  Opened(version, now, s) \in Row
BY DEF Opened, Row

LEMMA ClosedType ==
    ASSUME NEW row \in Row, NEW now \in Nat
    PROVE  Closed(row, now) \in Row
BY DEF Closed, Row

\* The row a writer has locked exists, is open, and is locked by nobody else; and a
\* writer is about to write only what differs from it.
TxOK(w) ==
    LET t == tx[w] IN
    /\ t.pc \notin {"compare", "write", "end"} => t.current = 0
    /\ t.current # 0 => t.current \in DOMAIN rows[t.owner] /\ IsOpen(t.owner, t.current)
    /\ t.candidates \subseteq DOMAIN rows[t.owner]
    /\ t.pc = "write" => Differs(w)

LocksExclusive ==
    \A v, w \in Writers :
        /\ tx[v].current # 0
        /\ tx[v].owner = tx[w].owner
        /\ tx[v].current = tx[w].current
        => v = w

TxInv == (\A w \in Writers : TxOK(w)) /\ LocksExclusive

LEMMA AppendFacts ==
    ASSUME NEW S, NEW seq \in Seq(S), NEW e \in S
    PROVE  /\ Append(seq, e) \in Seq(S)
           /\ Len(Append(seq, e)) = Len(seq) + 1
           /\ Append(seq, e)[Len(seq) + 1] = e
           /\ \A i \in 1..Len(seq) : Append(seq, e)[i] = seq[i]
OBVIOUS

\* What COMMIT of a next version does to the table of its owner.
LEMMA CommitNextRows ==
    ASSUME TypeOK, TxInv, NEW w \in Writers, CommitNext(w)
    PROVE  LET t == tx[w]
               old == rows[t.owner]
               new == rows'[t.owner] IN
           /\ t.owner \in Owners /\ t.current \in 1..Len(old) /\ old \in Seq(Row)
           /\ new \in Seq(Row)
           /\ Len(new) = Len(old) + 1
           /\ new[Len(old) + 1] = Opened(old[t.current].version + 1, t.now, t.snapshot)
           /\ new[t.current] = Closed(old[t.current], t.now)
           /\ \A i \in 1..Len(old) : i # t.current => new[i] = old[i]
           /\ \A o \in Owners : o # t.owner => rows'[o] = rows[o]
           /\ IsOpen(t.owner, t.current)
<1> DEFINE t == tx[w]
           old == rows[t.owner]
           closed == [old EXCEPT ![t.current] = Closed(old[t.current], t.now)]
           opened == Opened(old[t.current].version + 1, t.now, t.snapshot)
<1>1. /\ t \in Tx /\ t.owner \in Owners /\ t.snapshot \in Snapshots
      /\ t.now \in Nat /\ old \in Seq(Row)
  BY BoundsAssumption DEF TypeOK, Tx
<1>2. t.current \in 1..Len(old) /\ IsOpen(t.owner, t.current)
  BY <1>1 DEF TxInv, TxOK, CommitNext
<1>3. old[t.current] \in Row
  BY <1>1, <1>2
<1>4. Closed(old[t.current], t.now) \in Row
  BY <1>1, <1>3, ClosedType
<1>5. opened \in Row
  <2>1. old[t.current].version + 1 \in Nat \ {0}
    BY <1>3 DEF Row
  <2>2. QED
    BY <1>1, <2>1, OpenedType
<1>6. /\ closed \in Seq(Row) /\ Len(closed) = Len(old)
      /\ closed[t.current] = Closed(old[t.current], t.now)
      /\ \A i \in 1..Len(old) : i # t.current => closed[i] = old[i]
  BY <1>1, <1>2, <1>4
<1>7. rows' = [rows EXCEPT ![t.owner] = Append(closed, opened)]
  BY DEF CommitNext
<1>8. rows'[t.owner] = Append(closed, opened)
  BY <1>1, <1>7 DEF TypeOK
<1>9. \A o \in Owners : o # t.owner => rows'[o] = rows[o]
  BY <1>1, <1>7 DEF TypeOK
<1>10. /\ Append(closed, opened) \in Seq(Row)
       /\ Len(Append(closed, opened)) = Len(old) + 1
       /\ Append(closed, opened)[Len(old) + 1] = opened
       /\ \A i \in 1..Len(old) : Append(closed, opened)[i] = closed[i]
  <2> HIDE DEF closed, opened
  <2>1. QED
    BY <1>5, <1>6, AppendFacts
<1>11. QED
  BY <1>1, <1>2, <1>6, <1>8, <1>9, <1>10

\* What COMMIT of a first version does to the table of its owner.
LEMMA CommitFirstRows ==
    ASSUME TypeOK, NEW w \in Writers, CommitFirst(w)
    PROVE  LET t == tx[w]
               old == rows[t.owner]
               new == rows'[t.owner] IN
           /\ t.owner \in Owners /\ old \in Seq(Row)
           /\ new \in Seq(Row)
           /\ Len(new) = Len(old) + 1
           /\ new[Len(old) + 1] = Opened(1, t.now, t.snapshot)
           /\ \A i \in 1..Len(old) : new[i] = old[i]
           /\ \A o \in Owners : o # t.owner => rows'[o] = rows[o]
<1> DEFINE t == tx[w]
           old == rows[t.owner]
           opened == Opened(1, t.now, t.snapshot)
<1>1. /\ t \in Tx /\ t.owner \in Owners /\ t.snapshot \in Snapshots
      /\ t.now \in Nat /\ old \in Seq(Row)
  BY BoundsAssumption DEF TypeOK, Tx
<1>2. opened \in Row
  BY <1>1, OpenedType
<1>3. rows' = [rows EXCEPT ![t.owner] = Append(old, opened)]
  BY DEF CommitFirst
<1>4. rows'[t.owner] = Append(old, opened)
  BY <1>1, <1>3 DEF TypeOK
<1>5. \A o \in Owners : o # t.owner => rows'[o] = rows[o]
  BY <1>1, <1>3 DEF TypeOK
<1>6. QED
  BY <1>1, <1>2, <1>4, <1>5

\* The steps of a call before its COMMIT, and those of the clock.
Quiet(w) == \/ \E o \in Owners, s \in Snapshots : Call(w, o, s)
            \/ Select(w) \/ LockRow(w) \/ SkipRow(w) \/ NoRow(w)
            \/ Unchanged(w) \/ Change(w)
            \/ CommitNothing(w) \/ Abort(w)

LEMMA QuietType ==
    ASSUME TypeOK, NEW w \in Writers, Quiet(w)
    PROVE  TypeOK'
<1>1. rows' = rows /\ clock' = clock
  BY DEF Quiet, Call, Select, LockRow, SkipRow, NoRow, Unchanged, Change,
         CommitNothing, Abort
<1>2. \A u \in Tx : [tx EXCEPT ![w] = u] \in [Writers -> Tx]
  BY DEF TypeOK
<1>3. tx[w] \in Tx /\ tx[w].owner \in Owners
  BY DEF TypeOK, Tx
<1>4. tx' \in [Writers -> Tx]
  <2>1. ASSUME NEW o \in Owners, NEW s \in Snapshots, Call(w, o, s)
        PROVE  tx' \in [Writers -> Tx]
    <3>1. PICK now \in Now :
            tx' = [tx EXCEPT ![w] = [Idle EXCEPT !.pc = "select", !.owner = o,
                                                 !.snapshot = s, !.now = now]]
      BY <2>1 DEF Call
    <3>2. now \in 0..MaxTime
      BY BoundsAssumption DEF Now, TypeOK
    <3>3. [Idle EXCEPT !.pc = "select", !.owner = o, !.snapshot = s, !.now = now] \in Tx
      BY <3>2, IdleType DEF Tx
    <3>4. QED
      BY <1>2, <3>1, <3>3
  <2>2. CASE Select(w)
    <3>1. rows[tx[w].owner] \in Seq(Row)
      BY <1>3 DEF TypeOK
    <3>2. OpenRows(tx[w].owner) \in SUBSET (Nat \ {0})
      BY <3>1 DEF OpenRows
    <3>3. [tx[w] EXCEPT !.pc = "lock", !.candidates = OpenRows(tx[w].owner)] \in Tx
      BY <1>3, <3>2 DEF Tx
    <3>4. QED
      BY <1>2, <2>2, <3>3 DEF Select, TypeOK
  <2>3. CASE LockRow(w)
    <3>1. PICK i \in tx[w].candidates :
            tx' = [tx EXCEPT ![w].pc = "compare", ![w].current = i,
                             ![w].candidates = {}]
      BY <2>3 DEF LockRow
    <3>2. [tx[w] EXCEPT !.pc = "compare", !.current = i, !.candidates = {}] \in Tx
      BY <1>3 DEF Tx
    <3>3. QED
      BY <1>2, <3>1, <3>2 DEF TypeOK
  <2>4. CASE SkipRow(w)
    <3>1. PICK i \in tx[w].candidates : tx' = [tx EXCEPT ![w].candidates = @ \ {i}]
      BY <2>4 DEF SkipRow
    <3>2. [tx[w] EXCEPT !.candidates = @ \ {i}] \in Tx
      BY <1>3 DEF Tx
    <3>3. QED
      BY <1>2, <3>1, <3>2 DEF TypeOK
  <2>5. CASE NoRow(w) \/ Change(w) \/ Unchanged(w)
    <3>1. PICK pc \in {"compare", "write", "end"} : tx' = [tx EXCEPT ![w].pc = pc]
      BY <2>5 DEF NoRow, Change, Unchanged
    <3>2. [tx[w] EXCEPT !.pc = pc] \in Tx
      BY <1>3 DEF Tx
    <3>3. QED
      BY <1>2, <3>1, <3>2 DEF TypeOK
  <2>6. CASE CommitNothing(w) \/ Abort(w)
    BY <1>2, <2>6, IdleType DEF CommitNothing, Abort
  <2>7. QED
    BY <2>1, <2>2, <2>3, <2>4, <2>5, <2>6 DEF Quiet
<1>5. QED
  BY <1>1, <1>4 DEF TypeOK

LEMMA CommitType ==
    ASSUME TypeOK, TxInv, NEW w \in Writers, CommitFirst(w) \/ CommitNext(w)
    PROVE  TypeOK'
<1>1. clock' = clock /\ tx' = [tx EXCEPT ![w] = Idle] /\ tx' \in [Writers -> Tx]
  BY IdleType DEF TypeOK, CommitFirst, CommitNext
<1>2. \A o \in Owners : rows'[o] \in Seq(Row)
  <2>1. CASE CommitFirst(w)
    BY <2>1, CommitFirstRows DEF TypeOK
  <2>2. CASE CommitNext(w)
    BY <2>2, CommitNextRows DEF TypeOK
  <2>3. QED
    BY <2>1, <2>2
<1>3. rows' \in [Owners -> Seq(Row)]
  <2>1. \E r : rows' = [rows EXCEPT ![tx[w].owner] = r]
    BY DEF CommitFirst, CommitNext
  <2>2. QED
    BY <1>2, <2>1 DEF TypeOK
<1>4. QED
  BY <1>1, <1>3 DEF TypeOK

-----------------------------------------------------------------------------
(* The locks *)

\* A step that only changes tx[w] keeps what holds of the other writers.
LEMMA OthersTxOK ==
    ASSUME NEW v \in Writers, TxOK(v), tx'[v] = tx[v], rows' = rows
    PROVE  TxOK(v)'
BY DEF TxOK, Differs, IsOpen

LEMMA QuietTxInv ==
    ASSUME TypeOK, TxInv, NEW w \in Writers, Quiet(w)
    PROVE  TxInv'
<1>1. rows' = rows
  BY DEF Quiet, Call, Select, LockRow, SkipRow, NoRow, Unchanged, Change,
         CommitNothing, Abort
<1>2. \A v \in Writers : v # w => tx'[v] = tx[v]
  BY DEF TypeOK, Quiet, Call, Select, LockRow, SkipRow, NoRow, Unchanged, Change,
         CommitNothing, Abort
<1>3. \A v \in Writers : v # w => TxOK(v)'
  BY <1>1, <1>2, OthersTxOK DEF TxInv
<1>4. tx[w] \in Tx /\ tx[w].owner \in Owners /\ tx \in [Writers -> Tx]
  BY DEF TypeOK, Tx
<1>5. TxOK(w)
  BY DEF TxInv
<1>6. TxOK(w)' /\ (tx'[w].current # 0 =>
                     \/ tx'[w].current = tx[w].current /\ tx'[w].owner = tx[w].owner
                     \/ ~Locked(tx'[w].owner, tx'[w].current))
  <2>1. CASE tx'[w].current = 0 /\ tx'[w].candidates = {} /\ tx'[w].pc # "write"
    BY <2>1 DEF TxOK
  <2>2. ASSUME NEW o \in Owners, NEW s \in Snapshots, Call(w, o, s)
        PROVE  tx'[w].current = 0 /\ tx'[w].candidates = {} /\ tx'[w].pc # "write"
    BY <1>4, <2>2 DEF Call, Idle
  <2>3. CASE Select(w)
    BY <1>1, <1>4, <1>5, <2>3 DEF Select, TxOK, Differs, OpenRows
  <2>4. CASE LockRow(w)
    <3>1. PICK i \in tx[w].candidates :
            /\ ~Locked(tx[w].owner, i) /\ IsOpen(tx[w].owner, i)
            /\ tx' = [tx EXCEPT ![w].pc = "compare", ![w].current = i,
                                ![w].candidates = {}]
      BY <2>4 DEF LockRow
    <3>2. /\ tx'[w].pc = "compare" /\ tx'[w].current = i
          /\ tx'[w].candidates = {} /\ tx'[w].owner = tx[w].owner
      BY <1>4, <3>1 DEF Tx
    <3>3. i \in DOMAIN rows[tx[w].owner]
      BY <1>5 DEF TxOK
    <3>4. QED
      BY <1>1, <3>1, <3>2, <3>3 DEF TxOK, IsOpen
  <2>5. CASE SkipRow(w)
    <3>1. PICK i \in tx[w].candidates :
            tx[w].pc = "lock" /\ tx' = [tx EXCEPT ![w].candidates = @ \ {i}]
      BY <2>5 DEF SkipRow
    <3>2. /\ tx'[w].pc = "lock" /\ tx'[w].current = tx[w].current
          /\ tx'[w].candidates \subseteq tx[w].candidates
          /\ tx'[w].owner = tx[w].owner
      BY <1>4, <3>1 DEF Tx
    <3>3. tx[w].current = 0
      BY <1>5, <3>1 DEF TxOK
    <3>4. QED
      BY <1>1, <1>5, <3>2, <3>3 DEF TxOK
  <2>6. CASE NoRow(w)
    <3>1. /\ tx'[w].pc = "compare" /\ tx'[w].current = tx[w].current
          /\ tx'[w].candidates = {}
      BY <1>4, <2>6 DEF NoRow, Tx
    <3>2. tx[w].current = 0
      BY <1>5, <2>6 DEF TxOK, NoRow
    <3>3. QED
      BY <2>1, <3>1, <3>2
  <2>7. CASE Change(w)
    <3>1. /\ tx'[w].pc = "write" /\ tx'[w].current = tx[w].current
          /\ tx'[w].candidates = tx[w].candidates
          /\ tx'[w].owner = tx[w].owner /\ tx'[w].snapshot = tx[w].snapshot
          /\ Differs(w)
      BY <1>4, <2>7 DEF Change, Tx
    <3>2. QED
      BY <1>1, <1>5, <3>1 DEF TxOK, Differs, IsOpen
  <2>8. CASE Unchanged(w)
    <3>1. /\ tx'[w].pc = "end" /\ tx'[w].current = tx[w].current
          /\ tx'[w].candidates = tx[w].candidates /\ tx'[w].owner = tx[w].owner
      BY <1>4, <2>8 DEF Unchanged, Tx
    <3>2. QED
      BY <1>1, <1>5, <3>1 DEF TxOK, IsOpen
  <2>9. CASE CommitNothing(w) \/ Abort(w)
    BY <1>4, <2>1, <2>9 DEF CommitNothing, Abort, Idle
  <2>10. QED
    BY <2>1, <2>2, <2>3, <2>4, <2>5, <2>6, <2>7, <2>8, <2>9 DEF Quiet
<1>7. LocksExclusive'
  BY <1>2, <1>6 DEF TxInv, LocksExclusive, Locked
<1>8. QED
  BY <1>3, <1>6, <1>7 DEF TxInv

\* A COMMIT keeps every row, but for the end of the one it closes.
LEMMA CommitKeepsRows ==
    ASSUME TypeOK, TxInv, NEW w \in Writers, CommitFirst(w) \/ CommitNext(w),
           NEW o \in Owners, NEW i \in DOMAIN rows[o]
    PROVE  /\ i \in DOMAIN rows'[o]
           /\ \/ rows'[o][i] = rows[o][i]
              \/ /\ CommitNext(w) /\ o = tx[w].owner /\ i = tx[w].current
                 /\ i # 0 /\ IsOpen(o, i)
                 /\ rows'[o][i] = Closed(rows[o][i], tx[w].now)
<1>1. rows[o] \in Seq(Row) /\ rows'[o] \in Seq(Row)
  BY CommitType DEF TypeOK
<1>2. i \in 1..Len(rows[o]) /\ i # 0
  BY <1>1
<1>3. CASE o # tx[w].owner
  <2>1. rows'[o] = rows[o]
    <3>1. CASE CommitFirst(w)
      BY <1>3, <3>1, CommitFirstRows
    <3>2. CASE CommitNext(w)
      BY <1>3, <3>2, CommitNextRows
    <3>3. QED
      BY <3>1, <3>2
  <2>2. QED
    BY <1>2, <2>1
<1>4. CASE o = tx[w].owner /\ CommitFirst(w)
  <2>1. Len(rows'[o]) = Len(rows[o]) + 1 /\ rows'[o][i] = rows[o][i]
    BY <1>2, <1>4, CommitFirstRows
  <2>2. QED
    BY <1>1, <1>2, <2>1
<1>5. CASE o = tx[w].owner /\ CommitNext(w)
  <2>1. /\ Len(rows'[o]) = Len(rows[o]) + 1
        /\ rows'[o][tx[w].current] = Closed(rows[o][tx[w].current], tx[w].now)
        /\ i # tx[w].current => rows'[o][i] = rows[o][i]
        /\ IsOpen(o, tx[w].current)
    BY <1>2, <1>5, CommitNextRows
  <2>2. QED
    BY <1>1, <1>2, <1>5, <2>1
<1>6. QED
  BY <1>3, <1>4, <1>5

LEMMA CommitTxInv ==
    ASSUME TypeOK, TxInv, NEW w \in Writers, CommitFirst(w) \/ CommitNext(w)
    PROVE  TxInv'
<1>1. tx \in [Writers -> Tx] /\ tx' = [tx EXCEPT ![w] = Idle]
  BY DEF TypeOK, CommitFirst, CommitNext
<1>2. TxOK(w)'
  BY <1>1 DEF TxOK, Idle
<1>3. ASSUME NEW v \in Writers, v # w
      PROVE  TxOK(v)'
  <2>1. tx'[v] = tx[v] /\ tx[v] \in Tx /\ tx[v].owner \in Owners
    BY <1>1, <1>3 DEF Tx
  <2>3. \A i \in DOMAIN rows[tx[v].owner] :
          /\ i \in DOMAIN rows'[tx[v].owner]
          /\ \/ tx[w].owner = tx[v].owner /\ tx[w].current = i /\ tx[w].current # 0
             \/ rows'[tx[v].owner][i] = rows[tx[v].owner][i]
    BY <2>1, CommitKeepsRows
  <2>4. TxOK(v)
    BY DEF TxInv
  <2>5. tx[v].current # 0 =>
          rows'[tx[v].owner][tx[v].current] = rows[tx[v].owner][tx[v].current]
    BY <1>3, <2>3, <2>4 DEF TxInv, LocksExclusive, TxOK
  <2>6. QED
    BY <2>1, <2>3, <2>4, <2>5 DEF TxOK, Differs, IsOpen
<1>4. LocksExclusive'
  BY <1>1 DEF TxInv, LocksExclusive, Idle
<1>5. QED
  BY <1>2, <1>3, <1>4 DEF TxInv

-----------------------------------------------------------------------------
(* The history *)

ColumnsAgree ==
    \A o \in Owners : \A i \in DOMAIN rows[o] : rows[o][i].is_current = IsOpen(o, i)

\* COMMIT preserves Succession: the row it closes is succeeded by the one it opens.
LEMMA CommitSuccession ==
    ASSUME TypeOK, TxInv, Succession, NEW w \in Writers, CommitFirst(w) \/ CommitNext(w)
    PROVE  Succession'
<1>1. SUFFICES ASSUME NEW o \in Owners, NEW i \in DOMAIN rows'[o],
                      rows'[o][i].date_fin # Open
               PROVE  \E j \in DOMAIN rows'[o] : Succeeds(o, i, j)'
  BY DEF Succession, IsOpen
<1>2. rows[o] \in Seq(Row) /\ rows'[o] \in Seq(Row) /\ tx[w] \in Tx /\ tx[w].now \in Nat
  BY CommitType, BoundsAssumption DEF TypeOK, Tx
<1>3. CASE i \in DOMAIN rows[o] /\ rows'[o][i] = rows[o][i]
  <2>1. PICK j \in DOMAIN rows[o] : Succeeds(o, i, j)
    BY <1>1, <1>3 DEF Succession, IsOpen
  <2>2. /\ j \in DOMAIN rows'[o]
        /\ rows'[o][j] = rows[o][j] \/ rows'[o][j] = Closed(rows[o][j], tx[w].now)
    BY <2>1, CommitKeepsRows
  <2>3. /\ rows'[o][j].version = rows[o][j].version
        /\ rows'[o][j].date_debut = rows[o][j].date_debut
        /\ rows'[o][j].snapshot = rows[o][j].snapshot
    <3>1. rows[o][j] \in Row
      BY <1>2, <2>1
    <3>2. QED
      BY <2>2, <3>1 DEF Closed, Row
  <2>4. QED
    BY <1>3, <2>1, <2>2, <2>3 DEF Succeeds
<1>4. CASE i \in DOMAIN rows[o] /\ rows'[o][i] # rows[o][i]
  <2>1. /\ CommitNext(w) /\ o = tx[w].owner /\ i = tx[w].current /\ i # 0
        /\ rows'[o][i] = Closed(rows[o][i], tx[w].now)
    BY <1>4, CommitKeepsRows
  <2>. PICK j \in Nat : j = Len(rows[o]) + 1
    BY <1>2
  <2>2. /\ i < j /\ j \in DOMAIN rows'[o]
        /\ rows'[o][j] = Opened(rows[o][i].version + 1, tx[w].now, tx[w].snapshot)
    BY <1>2, <1>4, <2>1, CommitNextRows
  <2>3. rows[o][i].snapshot # tx[w].snapshot
    BY <2>1 DEF TxInv, TxOK, Differs, CommitNext
  <2>4. /\ rows'[o][i].version = rows[o][i].version
        /\ rows'[o][i].date_fin = tx[w].now
        /\ rows'[o][i].snapshot = rows[o][i].snapshot
    <3>1. rows[o][i] \in Row
      BY <1>2, <1>4
    <3>2. QED
      BY <2>1, <3>1 DEF Closed, Row
  <2>5. Succeeds(o, i, j)'
    BY <2>2, <2>3, <2>4 DEF Succeeds, Opened
  <2>6. QED
    BY <2>2, <2>5
<1>5. CASE i \notin DOMAIN rows[o]
  <2>1. \E version : rows'[o][i] = Opened(version, tx[w].now, tx[w].snapshot)
    <3>1. CASE CommitFirst(w)
      BY <1>1, <1>2, <1>5, <3>1, CommitFirstRows
    <3>2. CASE CommitNext(w)
      BY <1>1, <1>2, <1>5, <3>2, CommitNextRows
    <3>3. QED
      BY <3>1, <3>2
  <2>2. QED
    BY <1>1, <2>1 DEF Opened
<1>6. QED
  BY <1>3, <1>4, <1>5

LEMMA CommitColumnsAgree ==
    ASSUME TypeOK, TxInv, ColumnsAgree, NEW w \in Writers, CommitFirst(w) \/ CommitNext(w)
    PROVE  ColumnsAgree'
<1>1. SUFFICES ASSUME NEW o \in Owners, NEW i \in DOMAIN rows'[o]
               PROVE  rows'[o][i].is_current = (rows'[o][i].date_fin = Open)
  BY DEF ColumnsAgree, IsOpen
<1>2. rows[o] \in Seq(Row) /\ rows'[o] \in Seq(Row) /\ tx[w] \in Tx /\ tx[w].now \in Nat
  BY CommitType, BoundsAssumption DEF TypeOK, Tx
<1>3. CASE i \in DOMAIN rows[o]
  <2>1. CASE rows'[o][i] = rows[o][i]
    BY <1>3, <2>1 DEF ColumnsAgree, IsOpen
  <2>2. CASE rows'[o][i] = Closed(rows[o][i], tx[w].now)
    <3>1. rows[o][i] \in Row
      BY <1>2, <1>3
    <3>2. rows'[o][i].is_current = FALSE /\ rows'[o][i].date_fin = tx[w].now
      BY <2>2, <3>1 DEF Closed, Row
    <3>3. tx[w].now # Open
      BY <1>2 DEF Open
    <3>4. QED
      BY <3>2, <3>3
  <2>3. QED
    BY <1>3, <2>1, <2>2, CommitKeepsRows
<1>4. CASE i \notin DOMAIN rows[o]
  <2>1. \E version : rows'[o][i] = Opened(version, tx[w].now, tx[w].snapshot)
    <3>1. CASE CommitFirst(w)
      BY <1>1, <1>2, <1>4, <3>1, CommitFirstRows
    <3>2. CASE CommitNext(w)
      BY <1>1, <1>2, <1>4, <3>2, CommitNextRows
    <3>3. QED
      BY <3>1, <3>2
  <2>2. rows'[o][i].is_current = TRUE /\ rows'[o][i].date_fin = Open
    BY <2>1 DEF Opened
  <2>3. QED
    BY <2>2
<1>5. QED
  BY <1>3, <1>4

\* The inductive invariant.
Inv == TypeOK /\ TxInv /\ Succession /\ ColumnsAgree

LEMMA InitInv == Init => Inv
<1> SUFFICES ASSUME Init PROVE Inv
  OBVIOUS
<1>1. TypeOK
  BY IdleType, BoundsAssumption DEF Init, TypeOK
<1>2. TxInv
  BY DEF Init, Idle, TxInv, TxOK, LocksExclusive
<1>3. Succession /\ ColumnsAgree
  BY DEF Init, Succession, ColumnsAgree
<1>4. QED
  BY <1>1, <1>2, <1>3 DEF Inv

\* Every step is of one of four kinds.
LEMMA StepKinds ==
    ASSUME [Next]_vars
    PROVE  \/ UNCHANGED vars
           \/ Tick
           \/ \E w \in Writers : Quiet(w)
           \/ \E w \in Writers : CommitFirst(w) \/ CommitNext(w)
BY DEF Next, Quiet

\* What is said of the rows alone survives a step that leaves them alone.
LEMMA RowsOnly ==
    ASSUME Succession, ColumnsAgree, rows' = rows
    PROVE  Succession' /\ ColumnsAgree'
BY DEF Succession, ColumnsAgree, IsOpen, Succeeds

LEMMA NextInv == Inv /\ [Next]_vars => Inv'
<1> SUFFICES ASSUME Inv, [Next]_vars PROVE Inv'
  OBVIOUS
<1> USE DEF Inv
<1>1. CASE UNCHANGED vars
  <2>1. TypeOK' /\ TxInv'
    BY <1>1 DEF vars, TypeOK, TxInv, TxOK, LocksExclusive, Differs, IsOpen
  <2>2. QED
    BY <1>1, <2>1, RowsOnly DEF vars
<1>2. CASE Tick
  <2>1. TypeOK'
    BY <1>2, BoundsAssumption DEF Tick, TypeOK
  <2>2. TxInv'
    BY <1>2 DEF Tick, TxInv, TxOK, LocksExclusive, Differs, IsOpen
  <2>3. QED
    BY <1>2, <2>1, <2>2, RowsOnly DEF Tick
<1>3. CASE \E w \in Writers : Quiet(w)
  <2>1. PICK w \in Writers : Quiet(w)
    BY <1>3
  <2>2. rows' = rows
    BY <2>1 DEF Quiet, Call, Select, LockRow, SkipRow, NoRow, Unchanged, Change,
         CommitNothing, Abort
  <2>3. QED
    BY <2>1, <2>2, QuietType, QuietTxInv, RowsOnly
<1>4. CASE \E w \in Writers : CommitFirst(w) \/ CommitNext(w)
  BY <1>4, CommitType, CommitTxInv, CommitSuccession, CommitColumnsAgree
<1>5. QED
  BY <1>1, <1>2, <1>3, <1>4, StepKinds

LEMMA SpecInv == Spec => []Inv
BY InitInv, NextInv, PTL DEF Spec

\* The variables keep their types (service.py, models.py).
THEOREM TypeCorrect == Spec => []TypeOK
<1>1. Inv => TypeOK
  BY DEF Inv
<1>2. QED
  BY <1>1, SpecInv, PTL

\* However many writers race, every closed row has its successor (service.py:67-98).
THEOREM SuccessionHolds == Spec => []Succession
<1>1. Inv => Succession
  BY DEF Inv
<1>2. QED
  BY <1>1, SpecInv, PTL

\* However many writers race and fail, an owner with a history has an open row
\* (service.py:78-98): the last row of the table could only be closed by a call that
\* would have added a later one.
THEOREM NeverOrphanedHolds == Spec => []NeverOrphaned
<1>1. Inv => NeverOrphaned
  <2>1. SUFFICES ASSUME Inv, NEW o \in Owners, rows[o] # <<>>
                 PROVE  OpenRows(o) # {}
    BY DEF NeverOrphaned, Inv, ColumnsAgree
  <2>2. rows[o] \in Seq(Row)
    BY <2>1 DEF Inv, TypeOK
  <2>3. Len(rows[o]) \in DOMAIN rows[o]
    BY <2>1, <2>2
  <2>4. ~ \E j \in DOMAIN rows[o] : Len(rows[o]) < j
    BY <2>2
  <2>5. IsOpen(o, Len(rows[o]))
    BY <2>1, <2>3, <2>4 DEF Inv, Succession, Succeeds
  <2>6. QED
    BY <2>3, <2>5 DEF OpenRows
<1>2. QED
  BY <1>1, SpecInv, PTL

\* However many writers race, history is only appended to (service.py:78-98).
THEOREM AppendOnlyHolds == Spec => HistoryIsAppendOnly
<1> DEFINE Keeps(o, i) ==
         /\ i \in DOMAIN rows'[o]
         /\ IF IsOpen(o, i)
            THEN \/ rows'[o][i] = rows[o][i]
                 \/ rows'[o][i] = Closed(rows[o][i], rows'[o][i].date_fin)
            ELSE rows'[o][i] = rows[o][i]
<1>1. Inv /\ [Next]_vars => [\A o \in Owners : \A i \in DOMAIN rows[o] : Keeps(o, i)]_rows
  <2>1. SUFFICES ASSUME Inv, [Next]_vars, rows' # rows,
                        NEW o \in Owners, NEW i \in DOMAIN rows[o]
                 PROVE  Keeps(o, i)
    OBVIOUS
  <2>2. PICK w \in Writers : CommitFirst(w) \/ CommitNext(w)
    BY <2>1, StepKinds DEF vars, Tick, Quiet, Call, Select, LockRow, SkipRow, NoRow,
                           Unchanged, Change, CommitNothing, Abort
  <2>3. /\ i \in DOMAIN rows'[o]
        /\ \/ rows'[o][i] = rows[o][i]
           \/ IsOpen(o, i) /\ rows'[o][i] = Closed(rows[o][i], tx[w].now)
    BY <2>1, <2>2, CommitKeepsRows DEF Inv
  <2>4. CASE IsOpen(o, i) /\ rows'[o][i] = Closed(rows[o][i], tx[w].now)
    <3>1. rows[o][i] \in Row
      BY <2>1 DEF Inv, TypeOK
    <3>2. rows'[o][i].date_fin = tx[w].now
      BY <2>4, <3>1 DEF Closed, Row
    <3>3. QED
      BY <2>3, <2>4, <3>2
  <2>5. QED
    BY <2>3, <2>4
<1>2. QED
  BY <1>1, SpecInv, PTL DEF Spec, HistoryIsAppendOnly

-----------------------------------------------------------------------------
(***************************************************************************)
(* One writer at a time, the deployment of the compose stack (one          *)
(* synchronous gunicorn worker per service): the rows of an owner then     *)
(* implement SCD2Timeline.                                                 *)
(***************************************************************************)
OneWriter == (\A v, w \in Writers : v = w) /\ ~ExplicitAt

\* Only the last row of an owner is open, and no row starts in the future or ends
\* before it starts.
RowsInOrder ==
    \A o \in Owners : \A i \in DOMAIN rows[o] :
        /\ IsOpen(o, i) <=> i = Len(rows[o])
        /\ rows[o][i].date_debut <= clock
        /\ ~IsOpen(o, i) => rows[o][i].date_debut <= rows[o][i].date_fin

\* What a call has seen is still so: it works on the last row of its owner, and that
\* row does not start after its time.
CallUpToDate(w) ==
    LET t == tx[w] IN
    /\ t.pc # "idle" =>
         /\ t.now <= clock
         /\ \A i \in DOMAIN rows[t.owner] : rows[t.owner][i].date_debut <= t.now
    /\ t.pc = "lock" => t.candidates = OpenRows(t.owner)
    /\ t.pc \in {"compare", "write"} => t.current = Len(rows[t.owner])

OneInv == Inv /\ RowsInOrder /\ \A w \in Writers : CallUpToDate(w)

LEMMA InitOneInv == Init => OneInv
<1> SUFFICES ASSUME Init PROVE OneInv
  OBVIOUS
<1>1. RowsInOrder /\ \A w \in Writers : CallUpToDate(w)
  BY DEF Init, Idle, RowsInOrder, CallUpToDate
<1>2. QED
  BY <1>1, InitInv DEF OneInv

\* The candidates of the SELECT are the last row, or none.
LEMMA OpenIsLast ==
    ASSUME TypeOK, RowsInOrder, NEW o \in Owners
    PROVE  OpenRows(o) = IF Len(rows[o]) = 0 THEN {} ELSE {Len(rows[o])}
<1>1. rows[o] \in Seq(Row)
  BY DEF TypeOK
<1>2. \A i \in DOMAIN rows[o] : IsOpen(o, i) <=> i = Len(rows[o])
  BY DEF RowsInOrder
<1>3. QED
  BY <1>1, <1>2 DEF OpenRows

LEMMA QuietOneInv ==
    ASSUME OneWriter, OneInv, NEW w \in Writers, Quiet(w)
    PROVE  RowsInOrder' /\ \A v \in Writers : CallUpToDate(v)'
<1>1. rows' = rows /\ clock' = clock
  BY DEF Quiet, Call, Select, LockRow, SkipRow, NoRow, Unchanged, Change,
         CommitNothing, Abort
<1>2. RowsInOrder'
  BY <1>1 DEF OneInv, RowsInOrder, IsOpen
<1>3. /\ TypeOK /\ TxOK(w) /\ tx[w] \in Tx /\ tx \in [Writers -> Tx]
      /\ tx[w].owner \in Owners /\ rows[tx[w].owner] \in Seq(Row)
  BY DEF OneInv, Inv, TypeOK, TxInv, Tx
<1>4. CallUpToDate(w)
  BY DEF OneInv
<1>5. Len(rows[tx[w].owner]) \in Nat /\ clock \in Nat
  BY <1>3, BoundsAssumption DEF TypeOK
<1>6. OpenRows(tx[w].owner) = IF Len(rows[tx[w].owner]) = 0 THEN {}
                              ELSE {Len(rows[tx[w].owner])}
  BY <1>3, OpenIsLast DEF OneInv
<1>7. CallUpToDate(w)'
  <2>1. ASSUME NEW o \in Owners, NEW s \in Snapshots, Call(w, o, s)
        PROVE  CallUpToDate(w)'
    <3>1. /\ tx'[w].pc = "select" /\ tx'[w].owner = o /\ tx'[w].now = clock
      BY <1>3, <2>1 DEF Call, Idle, Now, OneWriter
    <3>2. QED
      BY <1>1, <1>5, <3>1 DEF CallUpToDate, OneInv, RowsInOrder
  <2>2. CASE Select(w)
    <3>1. /\ tx'[w].pc = "lock" /\ tx'[w].owner = tx[w].owner
          /\ tx'[w].now = tx[w].now /\ tx'[w].candidates = OpenRows(tx[w].owner)
      BY <1>3, <2>2 DEF Select, Tx
    <3>2. QED
      BY <1>1, <1>4, <2>2, <3>1 DEF CallUpToDate, Select, OpenRows, IsOpen
  <2>3. CASE LockRow(w)
    <3>1. PICK i \in tx[w].candidates :
            /\ tx[w].pc = "lock"
            /\ tx' = [tx EXCEPT ![w].pc = "compare", ![w].current = i,
                                ![w].candidates = {}]
      BY <2>3 DEF LockRow
    <3>2. /\ tx'[w].pc = "compare" /\ tx'[w].owner = tx[w].owner
          /\ tx'[w].now = tx[w].now /\ tx'[w].current = i
      BY <1>3, <3>1 DEF Tx
    <3>3. i = Len(rows[tx[w].owner])
      BY <1>4, <1>6, <3>1 DEF CallUpToDate
    <3>4. QED
      BY <1>1, <1>4, <3>1, <3>2, <3>3 DEF CallUpToDate
  <2>4. CASE SkipRow(w)
    <3>1. PICK i \in tx[w].candidates : tx[w].pc = "lock" /\ ~IsOpen(tx[w].owner, i)
      BY <2>4 DEF SkipRow
    <3>2. QED
      BY <1>4, <3>1 DEF CallUpToDate, OpenRows
  <2>5. CASE NoRow(w)
    <3>1. /\ tx[w].pc = "lock" /\ tx[w].candidates = {}
          /\ tx'[w].pc = "compare" /\ tx'[w].owner = tx[w].owner
          /\ tx'[w].now = tx[w].now /\ tx'[w].current = tx[w].current
      BY <1>3, <2>5 DEF NoRow, Tx
    <3>2. tx[w].current = 0 /\ Len(rows[tx[w].owner]) = 0
      BY <1>3, <1>4, <1>6, <3>1 DEF TxOK, CallUpToDate
    <3>3. QED
      BY <1>1, <1>4, <3>1, <3>2 DEF CallUpToDate
  <2>6. CASE Change(w)
    <3>1. /\ tx[w].pc = "compare"
          /\ tx'[w].pc = "write" /\ tx'[w].owner = tx[w].owner
          /\ tx'[w].now = tx[w].now /\ tx'[w].current = tx[w].current
      BY <1>3, <2>6 DEF Change, Tx
    <3>2. QED
      BY <1>1, <1>4, <3>1 DEF CallUpToDate
  <2>7. CASE CommitNothing(w) \/ Abort(w)
    <3>1. tx'[w].pc = "idle"
      BY <1>3, <2>7 DEF CommitNothing, Abort, Idle
    <3>2. QED
      BY <3>1 DEF CallUpToDate
  <2>8. CASE Unchanged(w)
    <3>1. /\ tx'[w].pc = "end" /\ tx'[w].owner = tx[w].owner /\ tx'[w].now = tx[w].now
      BY <1>3, <2>8 DEF Unchanged, Tx
    <3>2. QED
      BY <1>1, <1>4, <2>8, <3>1 DEF CallUpToDate, Unchanged
  <2>9. QED
    BY <2>1, <2>2, <2>3, <2>4, <2>5, <2>6, <2>7, <2>8 DEF Quiet
<1>8. QED
  BY <1>2, <1>7 DEF OneWriter

\* COMMIT by the only writer appends one open row and closes the one before it.
LEMMA CommitAppends ==
    ASSUME OneWriter, OneInv, NEW w \in Writers, CommitFirst(w) \/ CommitNext(w)
    PROVE  LET t == tx[w]
               old == rows[t.owner]
               new == rows'[t.owner] IN
           /\ t.owner \in Owners /\ t.snapshot \in Snapshots /\ t.now \in 0..clock
           /\ old \in Seq(Row) /\ new \in Seq(Row)
           /\ Len(new) = Len(old) + 1
           /\ \E version : new[Len(old) + 1] = Opened(version, t.now, t.snapshot)
           /\ Len(old) # 0 => /\ new[Len(old)] = Closed(old[Len(old)], t.now)
                              /\ old[Len(old)].snapshot # t.snapshot
                              /\ old[Len(old)].date_debut <= t.now
           /\ \A i \in 1..Len(old) : i # Len(old) => new[i] = old[i]
           /\ \A o \in Owners : o # t.owner => rows'[o] = rows[o]
<1>1. /\ TypeOK /\ TxInv /\ TxOK(w) /\ CallUpToDate(w) /\ tx[w] \in Tx
      /\ tx[w].pc = "write"
  BY DEF OneInv, Inv, TypeOK, TxInv, CommitFirst, CommitNext
<1>2. /\ tx[w].owner \in Owners /\ tx[w].snapshot \in Snapshots /\ tx[w].now \in 0..clock
      /\ rows[tx[w].owner] \in Seq(Row)
      /\ tx[w].current = Len(rows[tx[w].owner])
      /\ \A i \in DOMAIN rows[tx[w].owner] : rows[tx[w].owner][i].date_debut <= tx[w].now
  BY <1>1, BoundsAssumption DEF CallUpToDate, TypeOK, Tx
<1>3. CASE CommitFirst(w)
  <2>1. Len(rows[tx[w].owner]) = 0
    BY <1>2, <1>3 DEF CommitFirst
  <2>2. QED
    BY <1>1, <1>2, <1>3, <2>1, CommitFirstRows
<1>4. CASE CommitNext(w)
  <2>1. tx[w].current # 0 /\ Len(rows[tx[w].owner]) \in DOMAIN rows[tx[w].owner]
    BY <1>2, <1>4 DEF CommitNext
  <2>2. rows[tx[w].owner][tx[w].current].snapshot # tx[w].snapshot
    BY <1>1, <2>1 DEF TxOK, Differs
  <2>3. QED
    BY <1>1, <1>2, <1>4, <2>1, <2>2, CommitNextRows
<1>5. QED
  BY <1>3, <1>4

LEMMA CommitOneInv ==
    ASSUME OneWriter, OneInv, NEW w \in Writers, CommitFirst(w) \/ CommitNext(w)
    PROVE  RowsInOrder' /\ \A v \in Writers : CallUpToDate(v)'
<1>1. \A v \in Writers : CallUpToDate(v)'
  <2>1. tx'[w].pc = "idle"
    BY DEF OneInv, Inv, TypeOK, CommitFirst, CommitNext, Idle
  <2>2. QED
    BY <2>1 DEF OneWriter, CallUpToDate
<1>2. clock' = clock /\ clock \in Nat
  BY BoundsAssumption DEF CommitFirst, CommitNext, OneInv, Inv, TypeOK
<1>3. ASSUME NEW o \in Owners, NEW i \in DOMAIN rows'[o]
      PROVE  /\ rows'[o][i].date_fin = Open <=> i = Len(rows'[o])
             /\ rows'[o][i].date_debut <= clock
             /\ rows'[o][i].date_fin # Open => rows'[o][i].date_debut <= rows'[o][i].date_fin
  <2>1. rows[o] \in Seq(Row) /\ TypeOK
    BY DEF OneInv, Inv, TypeOK
  <2>2. \A j \in 1..Len(rows[o]) :
          /\ rows[o][j] \in Row
          /\ rows[o][j].date_fin = Open <=> j = Len(rows[o])
          /\ rows[o][j].date_debut <= clock
          /\ rows[o][j].date_fin # Open => rows[o][j].date_debut <= rows[o][j].date_fin
    BY <2>1 DEF OneInv, RowsInOrder, IsOpen
  <2>3. CASE o # tx[w].owner
    <3>1. rows'[o] = rows[o]
      BY <2>3, CommitAppends
    <3>2. QED
      BY <1>3, <2>1, <2>2, <3>1
  <2>4. CASE o = tx[w].owner
    <3>1. /\ Len(rows'[o]) = Len(rows[o]) + 1 /\ i \in 1..(Len(rows[o]) + 1)
          /\ tx[w].now \in 0..clock /\ Len(rows[o]) \in Nat
      BY <1>3, <2>1, <2>4, CommitAppends
    <3>2. CASE i = Len(rows[o]) + 1
      <4>1. \E version : rows'[o][i] = Opened(version, tx[w].now, tx[w].snapshot)
        BY <2>4, <3>2, CommitAppends
      <4>2. rows'[o][i].date_fin = Open /\ rows'[o][i].date_debut = tx[w].now
        BY <4>1 DEF Opened
      <4>3. QED
        BY <1>2, <3>1, <3>2, <4>2
    <3>3. CASE i = Len(rows[o])
      <4>1. /\ rows'[o][i] = Closed(rows[o][i], tx[w].now)
            /\ rows[o][i].date_debut <= tx[w].now
        BY <2>4, <3>1, <3>3, CommitAppends
      <4>2. rows[o][i] \in Row /\ rows[o][i].date_debut <= clock
        BY <2>2, <3>1, <3>3
      <4>3. /\ rows'[o][i].date_fin = tx[w].now
            /\ rows'[o][i].date_debut = rows[o][i].date_debut
        BY <4>1, <4>2 DEF Closed, Row
      <4>4. tx[w].now # Open
        BY <3>1 DEF Open
      <4>5. QED
        BY <3>1, <3>3, <4>1, <4>2, <4>3, <4>4
    <3>4. CASE i \in 1..Len(rows[o]) /\ i # Len(rows[o])
      <4>1. rows'[o][i] = rows[o][i]
        BY <2>4, <3>4, CommitAppends
      <4>2. QED
        BY <2>2, <3>1, <3>4, <4>1
    <3>5. QED
      BY <3>1, <3>2, <3>3, <3>4
  <2>5. QED
    BY <2>3, <2>4
<1>4. RowsInOrder'
  BY <1>2, <1>3 DEF RowsInOrder, IsOpen
<1>5. QED
  BY <1>1, <1>4

LEMMA NextOneInv ==
    ASSUME OneWriter, OneInv, [Next]_vars
    PROVE  OneInv'
<1>1. Inv'
  BY NextInv DEF OneInv
<1>2. CASE UNCHANGED vars
  BY <1>1, <1>2 DEF vars, OneInv, RowsInOrder, CallUpToDate, IsOpen, OpenRows
<1>3. CASE Tick
  <2>1. clock \in Nat /\ clock' = clock + 1 /\ rows' = rows /\ tx' = tx
    BY <1>3, BoundsAssumption DEF Tick, OneInv, Inv, TypeOK
  <2>2. \A o \in Owners : \A i \in DOMAIN rows[o] : rows[o][i].date_debut \in Nat
    <3>1. ASSUME NEW o \in Owners, NEW i \in DOMAIN rows[o]
          PROVE  rows[o][i].date_debut \in Nat
      <4>1. rows[o] \in Seq(Row)
        BY DEF OneInv, Inv, TypeOK
      <4>2. rows[o][i] \in Row
        BY <4>1
      <4>3. QED
        BY <4>2 DEF Row
    <3>2. QED
      BY <3>1
  <2>3. RowsInOrder'
    BY <2>1, <2>2 DEF OneInv, RowsInOrder, IsOpen
  <2>4. \A w \in Writers : tx[w].now \in Nat
    BY BoundsAssumption DEF OneInv, Inv, TypeOK, Tx
  <2>5. \A w \in Writers : CallUpToDate(w)'
    BY <2>1, <2>4 DEF OneInv, CallUpToDate, OpenRows, IsOpen
  <2>6. QED
    BY <1>1, <2>3, <2>5 DEF OneInv
<1>4. CASE \E w \in Writers : Quiet(w)
  BY <1>1, <1>4, QuietOneInv DEF OneInv
<1>5. CASE \E w \in Writers : CommitFirst(w) \/ CommitNext(w)
  BY <1>1, <1>5, CommitOneInv DEF OneInv
<1>6. QED
  BY <1>2, <1>3, <1>4, <1>5, StepKinds

LEMMA SpecOneInv ==
    ASSUME OneWriter
    PROVE  Spec => []OneInv
<1>1. Init => OneInv
  BY InitOneInv
<1>2. OneInv /\ [Next]_vars => OneInv'
  BY NextOneInv
<1>3. QED
  BY <1>1, <1>2, PTL DEF Spec

\* "at most one open row per employee" (REALITY_MAP.md:54), with one writer.
THEOREM OneWriterOneOpenRow ==
    ASSUME OneWriter
    PROVE  Spec => []OneOpenRow
<1>1. OneInv => OneOpenRow
  <2>1. SUFFICES ASSUME OneInv, NEW o \in Owners
                 PROVE  Cardinality(OpenRows(o)) <= 1
    BY DEF OneOpenRow
  <2>2. OpenRows(o) = {} \/ OpenRows(o) = {Len(rows[o])}
    BY <2>1, OpenIsLast DEF OneInv, Inv
  <2>3. QED
    <3>1. Cardinality(OpenRows(o)) \in {0, 1}
      BY <2>2, FS_EmptySet, FS_Singleton
    <3>2. QED
      BY <3>1
<1>2. QED
  BY <1>1, SpecOneInv, PTL

\* No validity window ends before it starts, with one writer that passes no at=
\* (service.py:65 takes the time before the SELECT).
THEOREM OneWriterWindowsOrdered ==
    ASSUME OneWriter
    PROVE  Spec => []WindowsOrdered
<1>1. OneInv => WindowsOrdered
  BY DEF OneInv, RowsInOrder, WindowsOrdered
<1>2. QED
  BY <1>1, SpecOneInv, PTL

-----------------------------------------------------------------------------
(* The refinement *)

\* The timeline that the rows of one owner stand for.
View(table) == [i \in DOMAIN table |->
                  [snapshot |-> table[i].snapshot, from |-> table[i].date_debut]]


VersionType == [snapshot : Snapshots, from : Nat]
VersionOf(row) == [snapshot |-> row.snapshot, from |-> row.date_debut]

LEMMA ViewType ==
    ASSUME NEW table \in Seq(Row)
    PROVE  /\ View(table) \in Seq(VersionType)
           /\ Len(View(table)) = Len(table)
           /\ \A i \in 1..Len(table) : View(table)[i] = VersionOf(table[i])
<1>1. DOMAIN table = 1..Len(table) /\ Len(table) \in Nat
  OBVIOUS
<1>2. View(table) = [i \in 1..Len(table) |-> VersionOf(table[i])]
  BY <1>1 DEF View, VersionOf
<1>3. \A i \in 1..Len(table) : VersionOf(table[i]) \in VersionType
  <2>1. ASSUME NEW i \in 1..Len(table)
        PROVE  VersionOf(table[i]) \in VersionType
    <3>1. table[i] \in Row
      BY <2>1
    <3>2. QED
      BY <3>1 DEF VersionOf, VersionType, Row
  <2>2. QED
    BY <2>1
<1>4. View(table) \in [1..Len(table) -> VersionType]
  BY <1>2, <1>3
<1>5. QED
  BY <1>1, <1>2, <1>4

LEMMA ViewAppend ==
    ASSUME NEW old \in Seq(Row), NEW new \in Seq(Row),
           Len(new) = Len(old) + 1,
           \A i \in 1..Len(old) : VersionOf(new[i]) = VersionOf(old[i])
    PROVE  View(new) = Append(View(old), VersionOf(new[Len(old) + 1]))
<1> DEFINE last == VersionOf(new[Len(old) + 1])
<1>1. Len(old) \in Nat
  OBVIOUS
<1>2. last \in VersionType
  BY <1>1, ViewType
<1>3. Append(View(old), last) \in Seq(VersionType)
  BY <1>2, ViewType, AppendFacts
<1>4. Len(View(new)) = Len(Append(View(old), last))
  BY <1>2, ViewType, AppendFacts
<1>5. \A i \in 1..Len(View(new)) : View(new)[i] = Append(View(old), last)[i]
  <2>1. ASSUME NEW i \in 1..Len(View(new))
        PROVE  View(new)[i] = Append(View(old), last)[i]
    <3>1. i \in 1..(Len(old) + 1) /\ View(new)[i] = VersionOf(new[i])
      BY ViewType
    <3>2. CASE i \in 1..Len(old)
      <4>1. View(new)[i] = View(old)[i]
        BY <3>1, <3>2, ViewType
      <4>2. Append(View(old), last)[i] = View(old)[i]
        BY <1>2, <3>2, ViewType, AppendFacts
      <4>3. QED
        BY <4>1, <4>2
    <3>3. CASE i = Len(old) + 1
      <4>1. Append(View(old), last)[i] = last
        BY <1>2, <3>3, ViewType, AppendFacts
      <4>2. QED
        BY <3>1, <3>3, <4>1
    <3>4. i \in 1..Len(old) \/ i = Len(old) + 1
      BY <1>1, <3>1
    <3>5. QED
      BY <3>2, <3>3, <3>4
  <2>2. QED
    BY <2>1
<1>6. View(new) \in Seq(VersionType)
  BY ViewType
<1> HIDE DEF last
<1>7. View(new) = Append(View(old), last)
  BY <1>3, <1>4, <1>5, <1>6, SeqEqual
<1>8. QED
  BY <1>7 DEF last

\* COMMIT appends one version to the timeline of its owner.
LEMMA CommitRecords ==
    ASSUME OneWriter, OneInv, NEW w \in Writers, CommitFirst(w) \/ CommitNext(w)
    PROVE  Timeline!Next
<1>0. /\ rows[tx[w].owner] \in Seq(Row) /\ rows'[tx[w].owner] \in Seq(Row)
      /\ tx[w].owner \in Owners /\ tx[w].snapshot \in Snapshots /\ tx[w].now \in 0..clock
      /\ Len(rows[tx[w].owner]) \in Nat
  BY CommitAppends
<1>1. PICK o \in Owners, s \in Snapshots, at \in 0..clock, n \in Nat :
        /\ o = tx[w].owner /\ s = tx[w].snapshot /\ at = tx[w].now
        /\ rows[o] \in Seq(Row) /\ rows'[o] \in Seq(Row)
        /\ n = Len(rows[o]) /\ Len(rows'[o]) = n + 1
        /\ \E v : rows'[o][n + 1] = Opened(v, at, s)
        /\ n # 0 => /\ rows'[o][n] = Closed(rows[o][n], at)
                    /\ rows[o][n].snapshot # s
                    /\ rows[o][n].date_debut <= at
        /\ \A i \in 1..n : i # n => rows'[o][i] = rows[o][i]
        /\ \A p \in Owners : p # o => rows'[p] = rows[p]
  <2> USE <1>0
  <2> WITNESS tx[w].owner \in Owners, tx[w].snapshot \in Snapshots,
              tx[w].now \in 0..clock, Len(rows[tx[w].owner]) \in Nat
  <2>1. QED
    BY CommitAppends
<1>2. at \in 0..MaxTime
  BY <1>1, BoundsAssumption DEF OneInv, Inv, TypeOK
<1>3. \A i \in 1..n : VersionOf(rows'[o][i]) = VersionOf(rows[o][i])
  <2>1. \A i \in 1..n : rows[o][i] \in Row
    BY <1>1
  <2>2. \A i \in 1..n : rows'[o][i] = rows[o][i] \/ rows'[o][i] = Closed(rows[o][i], at)
    BY <1>1
  <2>3. QED
    BY <2>1, <2>2 DEF Closed, Row, VersionOf
<1>4. VersionOf(rows'[o][n + 1]) = [snapshot |-> s, from |-> at]
  BY <1>1 DEF Opened, VersionOf
<1>5. View(rows'[o]) = Append(View(rows[o]), [snapshot |-> s, from |-> at])
  <2>1. View(rows'[o]) = Append(View(rows[o]), VersionOf(rows'[o][n + 1]))
    BY <1>1, <1>3, ViewAppend
  <2>2. QED
    BY <1>4, <2>1
<1>6. View(rows[o]) # <<>> =>
        /\ s # View(rows[o])[Len(View(rows[o]))].snapshot
        /\ View(rows[o])[Len(View(rows[o]))].from <= at
  <2>1. SUFFICES ASSUME View(rows[o]) # <<>>
                 PROVE  /\ s # View(rows[o])[Len(View(rows[o]))].snapshot
                        /\ View(rows[o])[Len(View(rows[o]))].from <= at
    OBVIOUS
  <2>2. Len(View(rows[o])) = n /\ n # 0
    BY <1>1, <2>1, ViewType
  <2>3. View(rows[o])[n] = VersionOf(rows[o][n])
    BY <1>1, <2>2, ViewType
  <2>4. QED
    BY <1>1, <2>2, <2>3 DEF VersionOf
<1>7. [p \in Owners |-> View(rows[p])]' =
        [[p \in Owners |-> View(rows[p])] EXCEPT ![o] =
           Append(@, [snapshot |-> s, from |-> at])]
  BY <1>1, <1>5
<1>8. Timeline!Record(o, s, at)
  BY <1>1, <1>2, <1>6, <1>7 DEF Timeline!Record, View
<1>9. QED
  BY <1>2, <1>8 DEF Timeline!Next

\* One writer at a time implements SCD2Timeline: the initial table is the empty
\* timeline, each COMMIT is a Record, and every other step leaves it as it is.
THEOREM OneWriterImplementsTimeline ==
    ASSUME OneWriter
    PROVE  Spec => TimelineSpec
<1>1. Init => Timeline!Init
  BY DEF Init, Timeline!Init
<1>2. OneInv /\ [Next]_vars =>
        [Timeline!Next]_([o \in Owners |-> [i \in DOMAIN rows[o] |->
                            [snapshot |-> rows[o][i].snapshot,
                             from |-> rows[o][i].date_debut]]])
  <2>1. SUFFICES ASSUME OneInv, [Next]_vars, rows' # rows
                 PROVE  Timeline!Next
    OBVIOUS
  <2>2. PICK w \in Writers : CommitFirst(w) \/ CommitNext(w)
    BY <2>1, StepKinds DEF vars, Tick, Quiet, Call, Select, LockRow, SkipRow, NoRow,
                           Unchanged, Change, CommitNothing, Abort
  <2>3. QED
    BY <2>1, <2>2, CommitRecords
<1>3. QED
  BY <1>1, <1>2, SpecOneInv, PTL DEF Spec, TimelineSpec, Timeline!Spec
=============================================================================

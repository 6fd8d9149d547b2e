---------------------------- MODULE SCD2History ----------------------------
(***************************************************************************)
(* The SCD type 2 snapshot service                                         *)
(* (smarthr360_integration/history/service.py, models.py): concurrent      *)
(* calls of snapshot_history() on one history table.                       *)
(*                                                                         *)
(* A writer is a request thread, a worker process or a batch job.  Its     *)
(* call is in a transaction: of its own, or the caller's, in which         *)
(* @transaction.atomic is a savepoint, and then the row stays locked and   *)
(* the writes stay unseen for as long as the caller likes after the call   *)
(* has returned.  A transaction makes one call here: callers that snapshot *)
(* several owners in one transaction are not modelled.  The database is    *)
(* external: PostgreSQL at READ COMMITTED, Django's default.  SELECT ...   *)
(* FOR UPDATE ORDER BY version DESC LIMIT 1 takes the rows that match when *)
(* the statement starts, waits for the lock of the first one, and skips a  *)
(* row that no longer matches once the lock is granted; rows committed     *)
(* after the statement started are not seen.                               *)
(*                                                                         *)
(* Every query filters on the owner, so the table is kept per owner, in    *)
(* the order of insertion.                                                 *)
(***************************************************************************)
EXTENDS Integers, Sequences, FiniteSets

CONSTANTS
    Writers,    \* concurrent callers
    Owners,     \* values of the owner filter
    Snapshots,  \* values of the tracked fields
    ExplicitAt, \* whether callers pass at=, a time of their own that is not in the future
    MaxRows,    \* bound on the rows of an owner
    MaxTime     \* bound on the clock

ASSUME BoundsAssumption ==
    MaxRows \in Nat /\ MaxTime \in Nat /\ ExplicitAt \in BOOLEAN

ASSUME NonEmptyAssumption == Owners # {} /\ Snapshots # {}

VARIABLES
    clock,      \* timezone.now()
    rows,       \* the committed rows of each owner, oldest insertion first
    tx          \* the transaction each writer is in

vars == <<clock, rows, tx>>

Open == -1      \* date_fin IS NULL

Row == [version : Nat \ {0}, date_debut : Nat, date_fin : Nat \cup {Open},
        is_current : BOOLEAN, snapshot : Snapshots]

IsOpen(o, i) == rows[o][i].date_fin = Open
OpenRows(o) == {i \in DOMAIN rows[o] : IsOpen(o, i)}

\* pc: the next step; at "write" and "end" the call may have returned, and the transaction
\* waits for its COMMIT.  candidates: the rows the SELECT still has to lock.  current:
\* the row it returned and holds the lock of, or 0 for None.
Idle == [pc |-> "idle", owner |-> CHOOSE o \in Owners : TRUE,
         snapshot |-> CHOOSE s \in Snapshots : TRUE,
         now |-> 0, candidates |-> {}, current |-> 0]

Tx == [pc : {"idle", "select", "lock", "compare", "write", "end"}, owner : Owners,
       snapshot : Snapshots, now : 0..MaxTime, candidates : SUBSET (Nat \ {0}), current : Nat]

\* A writer holds the lock of a row from the end of its SELECT to the end of its
\* transaction.
Locked(o, i) == \E w \in Writers : tx[w].owner = o /\ tx[w].current = i

Init ==
    /\ clock = 0
    /\ rows = [o \in Owners |-> <<>>]
    /\ tx = [w \in Writers |-> Idle]

Tick == /\ clock < MaxTime
        /\ clock' = clock + 1
        /\ UNCHANGED <<rows, tx>>

\* Faulty variant: callers without at= get some earlier time.
BugBackdated == 0..clock

\* now = at or timezone.now()
Now == IF ExplicitAt THEN 0..clock ELSE {clock}

\* snapshot_history() is called, and fixes its time before the SELECT.
Call(w, o, s) ==
    /\ tx[w].pc = "idle"
    /\ \E now \in Now :
         tx' = [tx EXCEPT ![w] = [Idle EXCEPT !.pc = "select", !.owner = o,
                                              !.snapshot = s, !.now = now]]
    /\ UNCHANGED <<clock, rows>>

\* The SELECT ... FOR UPDATE starts: the open rows of the owner as of now.
Select(w) ==
    /\ tx[w].pc = "select"
    /\ tx' = [tx EXCEPT ![w].pc = "lock", ![w].candidates = OpenRows(tx[w].owner)]
    /\ UNCHANGED <<clock, rows>>

\* The candidate with the highest version (ties in any order).
First(w, i) ==
    /\ i \in tx[w].candidates
    /\ \A j \in tx[w].candidates :
         rows[tx[w].owner][j].version <= rows[tx[w].owner][i].version

\* Faulty variant: the row is not checked again once its lock is granted.
BugLockWithoutRecheck(w) ==
    /\ tx[w].pc = "lock"
    /\ \E i \in tx[w].candidates :
         /\ First(w, i)
         /\ ~Locked(tx[w].owner, i)
         /\ tx' = [tx EXCEPT ![w].pc = "compare", ![w].current = i, ![w].candidates = {}]
    /\ UNCHANGED <<clock, rows>>

\* The lock of the first candidate is free and the row still matches: .first().
LockRow(w) ==
    /\ tx[w].pc = "lock"
    /\ \E i \in tx[w].candidates :
         /\ First(w, i)
         /\ ~Locked(tx[w].owner, i)
         /\ IsOpen(tx[w].owner, i)
         /\ tx' = [tx EXCEPT ![w].pc = "compare", ![w].current = i,
                             ![w].candidates = {}]
    /\ UNCHANGED <<clock, rows>>

\* ... and it does not match any more: another writer closed it meanwhile.
SkipRow(w) ==
    /\ tx[w].pc = "lock"
    /\ \E i \in tx[w].candidates :
         /\ First(w, i)
         /\ ~Locked(tx[w].owner, i)
         /\ ~IsOpen(tx[w].owner, i)
         /\ tx' = [tx EXCEPT ![w].candidates = @ \ {i}]
    /\ UNCHANGED <<clock, rows>>

\* There is no candidate (left): .first() is None.
NoRow(w) ==
    /\ tx[w].pc = "lock"
    /\ tx[w].candidates = {}
    /\ tx' = [tx EXCEPT ![w].pc = "compare"]
    /\ UNCHANGED <<clock, rows>>

\* Faulty variant: a snapshot always counts as changed.
BugAlwaysDiffers(w) == TRUE

\* snapshot_differs()
Differs(w) ==
    tx[w].current # 0 => rows[tx[w].owner][tx[w].current].snapshot # tx[w].snapshot

\* Faulty variant: the transaction is never ended, and keeps its lock.
BugUnchangedKeepsLock(w) ==
    /\ tx[w].pc = "compare"
    /\ ~Differs(w)
    /\ tx' = [tx EXCEPT ![w].pc = "idle"]
    /\ UNCHANGED <<clock, rows>>

\* Nothing changed: return None.  The row stays locked until the transaction ends ...
Unchanged(w) ==
    /\ tx[w].pc = "compare"
    /\ ~Differs(w)
    /\ tx' = [tx EXCEPT ![w].pc = "end"]
    /\ UNCHANGED <<clock, rows>>

\* ... with the call, or with the transaction of the caller.
CommitNothing(w) ==
    /\ tx[w].pc = "end"
    /\ tx' = [tx EXCEPT ![w] = Idle]
    /\ UNCHANGED <<clock, rows>>

\* Something did: the UPDATE and the INSERT are issued, visible to nobody yet.
\* (The bound MaxRows leaves a call that would exceed it no step but Abort.)
Change(w) ==
    /\ tx[w].pc = "compare"
    /\ Differs(w)
    /\ Len(rows[tx[w].owner]) < MaxRows
    /\ tx' = [tx EXCEPT ![w].pc = "write"]
    /\ UNCHANGED <<clock, rows>>

\* The row a transaction closes, and the one it opens.
Closed(row, now) == [row EXCEPT !.date_fin = now, !.is_current = FALSE]
Opened(version, now, s) ==
    [version |-> version, date_debut |-> now, date_fin |-> Open, is_current |-> TRUE,
     snapshot |-> s]

\* Faulty variant: versions are numbered from zero.
BugFirstIsZero(w) ==
    /\ tx[w].pc = "write"
    /\ tx[w].current = 0
    /\ rows' = [rows EXCEPT ![tx[w].owner] =
                  Append(@, Opened(0, tx[w].now, tx[w].snapshot))]
    /\ tx' = [tx EXCEPT ![w] = Idle]
    /\ UNCHANGED clock

\* COMMIT of a first version ...
CommitFirst(w) ==
    /\ tx[w].pc = "write"
    /\ tx[w].current = 0
    /\ rows' = [rows EXCEPT ![tx[w].owner] =
                  Append(@, Opened(1, tx[w].now, tx[w].snapshot))]
    /\ tx' = [tx EXCEPT ![w] = Idle]
    /\ UNCHANGED clock

\* Faulty variants of the next commit: the new row takes the time of the INSERT, the
\* INSERT is lost, or the current row is not closed.
BugTwoClocks(w) ==
    LET t == tx[w]
        current == rows[t.owner][t.current] IN
    /\ t.pc = "write" /\ t.current # 0
    /\ rows' = [rows EXCEPT ![t.owner] =
                  Append([@ EXCEPT ![t.current] = Closed(current, t.now)],
                         Opened(current.version + 1, clock, t.snapshot))]
    /\ tx' = [tx EXCEPT ![w] = Idle]
    /\ UNCHANGED clock

BugInsertLost(w) ==
    /\ tx[w].pc = "write" /\ tx[w].current # 0
    /\ rows' = [rows EXCEPT ![tx[w].owner][tx[w].current] = Closed(@, tx[w].now)]
    /\ tx' = [tx EXCEPT ![w] = Idle]
    /\ UNCHANGED clock

BugCurrentStaysOpen(w) ==
    LET t == tx[w] IN
    /\ t.pc = "write" /\ t.current # 0
    /\ rows' = [rows EXCEPT ![t.owner] =
                  Append(@, Opened(@[t.current].version + 1, t.now, t.snapshot))]
    /\ tx' = [tx EXCEPT ![w] = Idle]
    /\ UNCHANGED clock

\* ... and of a next version together with the end of the current one.
CommitNext(w) ==
    LET t == tx[w]
        current == rows[t.owner][t.current] IN
    /\ t.pc = "write"
    /\ t.current # 0
    /\ rows' = [rows EXCEPT ![t.owner] =
                  Append([@ EXCEPT ![t.current] = Closed(current, t.now)],
                         Opened(current.version + 1, t.now, t.snapshot))]
    /\ tx' = [tx EXCEPT ![w] = Idle]
    /\ UNCHANGED clock

\* An exception, a lost connection or a crash of the process: ROLLBACK.
Abort(w) ==
    /\ tx[w].pc # "idle"
    /\ tx' = [tx EXCEPT ![w] = Idle]
    /\ UNCHANGED <<clock, rows>>

Next == \/ Tick
        \/ \E w \in Writers :
             \/ \E o \in Owners, s \in Snapshots : Call(w, o, s)
             \/ Select(w) \/ LockRow(w) \/ SkipRow(w) \/ NoRow(w)
             \/ Unchanged(w) \/ Change(w)
             \/ CommitNothing(w) \/ CommitFirst(w) \/ CommitNext(w) \/ Abort(w)

Spec == Init /\ [][Next]_vars

\* A transaction whose SELECT has returned goes on to its end or is rolled back: no
\* caller sits on it for ever.
Finishes(w) == \/ Unchanged(w) \/ Change(w)
               \/ CommitNothing(w) \/ CommitFirst(w) \/ CommitNext(w)
               \/ tx[w].pc \in {"compare", "write", "end"} /\ Abort(w)

\* PostgreSQL queues the transactions that wait for a row: one that waits gets its
\* turn even if others take the lock again and again.
FairSpec ==
    /\ Spec
    /\ \A w \in Writers : /\ WF_vars(Select(w) \/ NoRow(w))
                          /\ WF_vars(Finishes(w))
                          /\ SF_vars(LockRow(w) \/ SkipRow(w))

-----------------------------------------------------------------------------
TypeOK ==
    /\ clock \in 0..MaxTime
    /\ rows \in [Owners -> Seq(Row)]
    /\ tx \in [Writers -> Tx]

\* However many writers race (service.py:67-98): a row that was closed was closed by
\* the call that opened the next one. Its successor comes later in the table, has the
\* next version, starts exactly where it ends, and holds another snapshot: the
\* history of a row has no gap, no overlap and no repetition.
Succeeds(o, i, j) ==
    /\ i < j
    /\ rows[o][j].version = rows[o][i].version + 1
    /\ rows[o][j].date_debut = rows[o][i].date_fin
    /\ rows[o][j].snapshot # rows[o][i].snapshot

Succession ==
    \A o \in Owners : \A i \in DOMAIN rows[o] :
        ~IsOpen(o, i) => \E j \in DOMAIN rows[o] : Succeeds(o, i, j)

\* However many writers race, and whatever call fails half way: an owner that has a
\* history always has an open row (service.py:78-98 closes and opens in one
\* transaction), and the two columns that say so agree.
NeverOrphaned ==
    \A o \in Owners :
        /\ rows[o] # <<>> => OpenRows(o) # {}
        /\ \A i \in DOMAIN rows[o] : rows[o][i].is_current = IsOpen(o, i)

\* However many writers race: rows are never deleted, what a row recorded never
\* changes, and a closed row is never closed again (service.py:78-81).
HistoryIsAppendOnly ==
    [][\A o \in Owners : \A i \in DOMAIN rows[o] :
         /\ i \in DOMAIN rows'[o]
         /\ IF IsOpen(o, i)
            THEN \/ rows'[o][i] = rows[o][i]
                 \/ rows'[o][i] = Closed(rows[o][i], rows'[o][i].date_fin)
            ELSE rows'[o][i] = rows[o][i]]_rows

\* "at most one open row per employee" (REALITY_MAP.md:54)
OneOpenRow == \A o \in Owners : Cardinality(OpenRows(o)) <= 1

\* The validity windows of an owner follow one another (models.py:27): no row ends
\* before it starts.
WindowsOrdered ==
    \A o \in Owners : \A i \in DOMAIN rows[o] :
        IsOpen(o, i) \/ rows[o][i].date_debut <= rows[o][i].date_fin

\* The timeline that the rows of each owner stand for, in the order of their
\* insertion. One writer at a time implements SCD2Timeline.
Timeline == INSTANCE SCD2Timeline WITH
    Times <- 0..MaxTime,
    timeline <- [o \in Owners |-> [i \in DOMAIN rows[o] |->
                   [snapshot |-> rows[o][i].snapshot, from |-> rows[o][i].date_debut]]]

TimelineSpec == Timeline!Spec

\* Every transaction ends (service.py:67-72), and with it the wait of every call for the
\* row another has locked, if each makes one call and none is left open for ever.
CallEnds == \A w \in Writers : tx[w].pc # "idle" ~> tx[w].pc = "idle"
=============================================================================

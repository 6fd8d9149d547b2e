------------------------ MODULE FullSeedSessionProofs ------------------------
(***************************************************************************)
(* Sessions of the seed scripts: what FullSeedSession promises of accounts,*)
(* conversations and actions holds for any number of runs, people,         *)
(* attempts and employees.                                                 *)
(***************************************************************************)
EXTENDS FullSeedSession, SequenceTheorems, FiniteSetTheorems, WellFoundedInduction, TLAPS

Phases == {"idle", "login", "register", "middle", "rows", "post", "respond", "review",
           "outcome", "ready", "failed", "down", "dead"}

Sessions == [kind : Kinds, pc : Phases, at : 1..(Len(People) + 1), attempt : 1..Attempts,
             refused : 0..Attempts, hit : BOOLEAN, live : BOOLEAN,
             known : SUBSET Staff, todo : SUBSET Staff, queue : Seq(Nat)]

\* The account a run is at, and what became of its attempts: all of them were refused, but
\* for one that may have lost a race; then the account is there, so that only errors of
\* auth keep the run from it.
Attempting(x) ==
    /\ x.at <= Len(People) /\ x.refused <= x.attempt - 1
    /\ x.kind = "full" =>
          \/ x.refused = x.attempt - 1
          \/ /\ x.refused = x.attempt - 2 /\ People[x.at] \in accounts
             /\ x.pc = "register" => x.hit

AccountsDone(x) ==
    /\ x.pc \in {"login", "register"} => Attempting(x)
    /\ x.pc \in {"middle", "rows", "post", "respond", "review", "outcome"} =>
          x.at = Len(People) + 1
    /\ x.kind = "full" /\ x.pc = "failed" /\ x.at <= Len(People) => x.refused >= Attempts - 1

\* A run works actions that were not the newest one when it listed them, which has only
\* receded since.
Older(x) ==
    /\ \A i \in 1..Len(x.queue) : x.queue[i] \in 1..(Len(actions) - 1)
    /\ x.pc = "outcome" => x.queue # <<>>

\* A run that is not at its replies has none to give.
NothingToDo(x) == x.pc \notin {"respond", "dead"} => x.todo = {}

Statuses == {"pending", "approved", "recorded", "human"}

SessionsOK ==
    /\ accounts \subseteq Persons
    /\ run \in [Runs -> Sessions]
    /\ rows \subseteq Staff /\ conv \in [Staff -> {"none", "open", "done"}]
    /\ actions \in Seq(Statuses) /\ slipped \subseteq DOMAIN actions
    /\ \A r \in Runs : AccountsDone(run[r]) /\ Older(run[r]) /\ NothingToDo(run[r])

-----------------------------------------------------------------------------
(* pending[:-1]: every rank but the last belongs to an action, which is    *)
(* not the newest.                                                         *)

LEMMA LeastElement ==
    ASSUME NEW T \in SUBSET Nat, T # {}
    PROVE  \E m \in T : \A k \in T : m <= k
<1> DEFINE R == {ss \in Nat \X Nat : ss[1] < ss[2]}
<1>1. OpToRel(<, Nat) = R
  BY DEF OpToRel
<1>2. IsWellFoundedOn(R, Nat)
  BY <1>1, NatLessThanWellFounded
<1>3. PICK m \in T : \A k \in T : ~(<<k, m>> \in R)
  BY <1>2, WFMin
<1>4. \A k \in T : ~(k < m) /\ k \in Nat /\ m \in Nat
  BY <1>3
<1>5. QED
  BY <1>4

\* The greatest is the one that is least far from the bound.
LEMMA GreatestElement ==
    ASSUME NEW n \in Nat, NEW T \in SUBSET (1..n), T # {}
    PROVE  \E m \in T : \A k \in T : k <= m
<1> DEFINE Distances == {n - k : k \in T}
<1>1. Distances \in SUBSET Nat /\ Distances # {}
  <2>1. \A k \in T : n - k \in Nat
    OBVIOUS
  <2>2. QED
    BY <2>1
<1>2. PICK d \in Distances : \A e \in Distances : d <= e
  BY <1>1, LeastElement
<1>3. PICK m \in T : d = n - m
  OBVIOUS
<1>4. ASSUME NEW k \in T
      PROVE  k <= m
  <2>1. n - m <= n - k
    BY <1>2, <1>3
  <2>2. QED
    BY <2>1
<1>5. QED
  BY <1>4

UpTo(T, a) == {b \in T : b <= a}

LEMMA RankExists ==
    ASSUME NEW n \in Nat, NEW T \in SUBSET (1..n), NEW i \in 1..Cardinality(T)
    PROVE  \E a \in T : Cardinality(UpTo(T, a)) = i
<1>1. IsFiniteSet(T) /\ Cardinality(T) \in Nat
  <2>1. IsFiniteSet(1..n)
    BY FS_Interval
  <2>2. QED
    BY <2>1, FS_Subset, FS_CardinalityType
<1>2. \A a \in T : IsFiniteSet(UpTo(T, a)) /\ Cardinality(UpTo(T, a)) \in Nat
  <2>1. \A a : UpTo(T, a) \in SUBSET T
    BY DEF UpTo
  <2>2. QED
    BY <1>1, <2>1, FS_Subset, FS_CardinalityType
<1> DEFINE Late == {a \in T : Cardinality(UpTo(T, a)) >= i}
<1>3. Late # {}
  <2>1. T # {}
    BY <1>1, FS_EmptySet
  <2>2. PICK m \in T : \A k \in T : k <= m
    BY <2>1, GreatestElement
  <2>3. UpTo(T, m) = T
    BY <2>2 DEF UpTo
  <2>4. m \in Late
    BY <1>1, <2>3
  <2>5. QED
    BY <2>4
<1>4. PICK a \in Late : \A k \in Late : a <= k
  <2>1. Late \subseteq T
    OBVIOUS
  <2> HIDE DEF Late
  <2>2. QED
    BY <1>3, <2>1, LeastElement
<1>5. SUFFICES ASSUME Cardinality(UpTo(T, a)) # i PROVE FALSE
  BY <1>4
<1> DEFINE Before == UpTo(T, a) \ {a}
<1>6. /\ IsFiniteSet(Before) /\ Cardinality(Before) = Cardinality(UpTo(T, a)) - 1
      /\ a \in T /\ Cardinality(UpTo(T, a)) > i
  <2>1. a \in UpTo(T, a)
    BY DEF UpTo
  <2>2. IsFiniteSet(UpTo(T, a)) /\ Cardinality(UpTo(T, a)) \in Nat /\ a \in T
        /\ Cardinality(UpTo(T, a)) >= i
    BY <1>2
  <2>3. IsFiniteSet(Before) /\ Cardinality(Before) = Cardinality(UpTo(T, a)) - 1
    BY <2>1, <2>2, FS_RemoveElement
  <2>4. QED
    BY <1>5, <2>2, <2>3
<1>7. Before # {} /\ Before \in SUBSET (1..n)
  <2>1. Cardinality(Before) # 0
    BY <1>2, <1>6
  <2>2. QED
    BY <1>6, <2>1, FS_EmptySet DEF UpTo
<1>8. PICK c \in Before : \A k \in Before : k <= c
  BY <1>7, GreatestElement
<1>9. c \in T /\ c < a
  BY <1>6 DEF UpTo
<1>10. UpTo(T, c) = Before
  <2>1. \A b \in T : b <= c => b <= a /\ b # a
    BY <1>6, <1>9
  <2>2. \A b \in Before : b \in T /\ b <= c
    BY <1>8 DEF UpTo
  <2>3. QED
    BY <2>1, <2>2 DEF UpTo
<1>11. c \in Late
  BY <1>2, <1>6, <1>9, <1>10
<1>12. QED
  BY <1>4, <1>6, <1>9, <1>11

\* What is left to work when the newest pending action is left out.
LEMMA QueueIsOlder ==
    ASSUME actions \in Seq(Statuses), Pending # {}
    PROVE  /\ Queue \in Seq(Nat)
           /\ \A i \in 1..Len(Queue) : Queue[i] \in 1..(Len(actions) - 1)
<1> DEFINE n == Len(actions)
           last == Cardinality(Pending)
<1>1. n \in Nat /\ Pending \in SUBSET (1..n)
  BY LenProperties DEF Pending
<1>2. IsFiniteSet(Pending) /\ last \in Nat /\ last > 0
  <2>1. IsFiniteSet(1..n)
    BY <1>1, FS_Interval
  <2>2. IsFiniteSet(Pending) /\ last \in Nat
    BY <1>1, <2>1, FS_Subset, FS_CardinalityType
  <2>3. last # 0
    BY <2>2, FS_EmptySet
  <2>4. QED
    BY <2>2, <2>3
<1>3. PICK newest \in Pending : \A k \in Pending : k <= newest
  BY <1>1, GreatestElement
<1> HIDE DEF n, last
<1>4. ASSUME NEW i \in 1..(last - 1)
      PROVE  (CHOOSE a \in Pending : Cardinality({b \in Pending : b <= a}) = i) \in 1..(n - 1)
  <2> DEFINE a == CHOOSE a \in Pending : Cardinality({b \in Pending : b <= a}) = i
  <2>1. \E x \in Pending : Cardinality({b \in Pending : b <= x}) = i
    <3>1. i \in 1..Cardinality(Pending)
      BY <1>2 DEF last
    <3>2. QED
      BY <1>1, <3>1, RankExists DEF UpTo
  <2>2. a \in Pending /\ Cardinality({b \in Pending : b <= a}) = i
    BY <2>1
  <2> HIDE DEF a
  <2>3. a # newest
    <3>1. SUFFICES ASSUME a = newest PROVE FALSE
      OBVIOUS
    <3>2. {b \in Pending : b <= a} = Pending
      BY <1>3, <3>1
    <3>3. i = last
      BY <2>2, <3>2 DEF last
    <3>4. QED
      BY <1>2, <3>3
  <2>4. a <= newest /\ newest <= n /\ a \in 1..n /\ newest \in 1..n
    BY <1>1, <1>3, <2>2
  <2>5. a \in 1..(n - 1)
    BY <1>1, <2>3, <2>4
  <2>6. QED
    BY <2>5 DEF a
<1>5. /\ Queue \in [1..(last - 1) -> Nat]
      /\ \A i \in 1..(last - 1) : Queue[i] \in 1..(n - 1)
  <2> DEFINE ranked(i) == CHOOSE a \in Pending : Cardinality({b \in Pending : b <= a}) = i
  <2>1. Queue = [i \in 1..(last - 1) |-> ranked(i)]
    BY DEF Queue, last
  <2>2. \A i \in 1..(last - 1) : ranked(i) \in 1..(n - 1)
    BY <1>4
  <2> HIDE DEF ranked
  <2>3. QED
    BY <2>1, <2>2
<1>6. last - 1 \in Nat
  BY <1>2
<1>7. Queue \in Seq(Nat) /\ Len(Queue) = last - 1
  BY <1>5, <1>6, SeqDef, LenProperties
<1>8. QED
  BY <1>5, <1>7 DEF n

-----------------------------------------------------------------------------
(* One run moves                                                           *)

Later == {"middle", "rows", "post", "respond", "review", "outcome"}

LEMMA Moved ==
    ASSUME SessionsOK, NEW r \in Runs, NEW x \in Sessions, Set(r, x)
    PROVE  /\ run' \in [Runs -> Sessions] /\ run'[r] = x
           /\ \A q \in Runs \ {r} : run'[q] = run[q]
BY DEF SessionsOK, Set

\* What the other runs know stays true when accounts and actions only grow.
LEMMA OneMoves ==
    ASSUME SessionsOK, NEW r \in Runs,
           run' \in [Runs -> Sessions], \A q \in Runs \ {r} : run'[q] = run[q],
           accounts \subseteq accounts', accounts' \subseteq Persons,
           rows' \subseteq Staff, conv' \in [Staff -> {"none", "open", "done"}],
           actions' \in Seq(Statuses), Len(actions) <= Len(actions'),
           slipped' \subseteq DOMAIN actions',
           AccountsDone(run[r])', Older(run[r])', NothingToDo(run[r])'
    PROVE  SessionsOK'
<1>1. Len(actions) \in Nat /\ Len(actions') \in Nat
  BY LenProperties DEF SessionsOK
<1>2. ASSUME NEW q \in Runs \ {r}
      PROVE  AccountsDone(run[q])' /\ Older(run[q])' /\ NothingToDo(run[q])'
  <2>1. AccountsDone(run[q]) /\ Older(run[q]) /\ NothingToDo(run[q]) /\ run'[q] = run[q]
    BY DEF SessionsOK
  <2>2. AccountsDone(run[q])'
    BY <2>1 DEF AccountsDone, Attempting
  <2>3. Older(run[q])'
    BY <1>1, <2>1 DEF Older
  <2>4. NothingToDo(run[q])'
    BY <2>1 DEF NothingToDo
  <2>5. QED
    BY <2>2, <2>3, <2>4
<1>3. QED
  BY <1>2 DEF SessionsOK

LEMMA PeopleCounted ==
    /\ Len(People) \in Nat \ {0} /\ Attempts \in Nat \ {0}
    /\ 1 \in 1..(Len(People) + 1) /\ 1 \in 1..Attempts /\ 0 \in 0..Attempts
BY AccountsAssumption, LenProperties

\* The account is there: the attempts of the next one begin.
LEMMA ObtainedOK ==
    ASSUME SessionsOK, NEW r \in Runs, run[r].pc \in {"login", "register"}, Obtained(r),
           accounts \subseteq accounts', accounts' \subseteq Persons, UNCHANGED retentionVars
    PROVE  SessionsOK'
<1> DEFINE x == run[r]
           z == [x EXCEPT !.at = @ + 1, !.attempt = 1, !.refused = 0, !.hit = FALSE,
                   !.live = @ \/ x.at = 1,
                   !.pc = IF x.at < Len(People) THEN "login"
                          ELSE IF x.kind = "full" THEN "middle" ELSE "ready"]
<1>1. /\ x \in Sessions /\ AccountsDone(x) /\ Older(x) /\ NothingToDo(x)
      /\ x.at <= Len(People)
  BY DEF SessionsOK, AccountsDone, Attempting
<1>2. z \in Sessions
  <2>1. x.at \in Nat /\ x.at + 1 \in 1..(Len(People) + 1)
    BY <1>1, PeopleCounted DEF Sessions
  <2>2. (x.live \/ x.at = 1) \in BOOLEAN
    OBVIOUS
  <2>3. QED
    BY <1>1, <2>1, <2>2, PeopleCounted DEF Sessions, Phases
<1>3. /\ z.at = x.at + 1 /\ z.attempt = 1 /\ z.refused = 0 /\ z.todo = x.todo /\ z.queue = x.queue
      /\ z.pc = IF x.at < Len(People) THEN "login"
                ELSE IF x.kind = "full" THEN "middle" ELSE "ready"
  BY <1>1 DEF Sessions
<1>4. Set(r, z)
  BY DEF Obtained
<1> HIDE DEF x, z
<1>5. /\ run' \in [Runs -> Sessions] /\ run'[r] = z
      /\ \A q \in Runs \ {r} : run'[q] = run[q]
  BY <1>2, <1>4, Moved
<1>6. AccountsDone(run[r])'
  <2>1. x.at \in Nat /\ Len(People) \in Nat /\ x.at <= Len(People)
    BY <1>1, PeopleCounted DEF Sessions
  <2>2. CASE x.at < Len(People)
    <3>1. z.pc = "login" /\ z.at <= Len(People) /\ z.refused = z.attempt - 1
      BY <1>3, <2>1, <2>2
    <3>2. /\ run'[r].pc = "login" /\ run'[r].at <= Len(People)
          /\ run'[r].attempt = 1 /\ run'[r].refused = 0
      BY <1>3, <1>5, <3>1
    <3>3. Attempting(run[r])'
      BY <3>2 DEF Attempting
    <3>4. QED
      BY <3>2, <3>3 DEF AccountsDone
  <2>3. CASE ~(x.at < Len(People))
    <3>1. z.pc \in {"middle", "ready"} /\ z.at = Len(People) + 1
      BY <1>3, <2>1, <2>3
    <3>2. QED
      BY <1>5, <3>1 DEF AccountsDone
  <2>4. QED
    BY <2>2, <2>3
<1>7. Older(run[r])' /\ NothingToDo(run[r])'
  BY <1>1, <1>3, <1>5 DEF Older, NothingToDo, retentionVars, x
<1>8. QED
  BY <1>5, <1>6, <1>7, OneMoves DEF SessionsOK, retentionVars

\* An attempt fails: for a refusal, or because another run was faster.
LEMMA AgainOK ==
    ASSUME SessionsOK, NEW r \in Runs, NEW hit \in BOOLEAN,
           run[r].pc \in {"login", "register"}, Again(r, hit),
           hit \/ (run[r].pc = "register" /\ ~run[r].hit /\ Person(r) \in accounts),
           UNCHANGED <<accounts, retentionVars>>
    PROVE  SessionsOK'
<1> DEFINE x == run[r]
           last == x.kind = "small" \/ x.attempt = Attempts
           z == [x EXCEPT !.pc = IF last THEN "failed" ELSE "login",
                          !.attempt = IF last THEN @ ELSE @ + 1,
                          !.refused = IF hit THEN @ + 1 ELSE @,
                          !.hit = FALSE]
<1>1. /\ x \in Sessions /\ AccountsDone(x) /\ Older(x) /\ NothingToDo(x)
      /\ x.at <= Len(People) /\ x.refused <= x.attempt - 1 /\ Attempting(x)
  BY DEF SessionsOK, AccountsDone, Attempting
<1>2. z \in Sessions
  <2>1. x.refused + 1 \in 0..Attempts /\ (~last => x.attempt + 1 \in 1..Attempts)
    BY <1>1, PeopleCounted DEF Sessions
  <2>2. QED
    BY <1>1, <2>1 DEF Sessions, Phases
<1>3. /\ z.kind = x.kind /\ z.at = x.at /\ z.todo = x.todo /\ z.queue = x.queue
      /\ z.pc = (IF last THEN "failed" ELSE "login")
      /\ z.attempt = (IF last THEN x.attempt ELSE x.attempt + 1)
      /\ z.refused = (IF hit THEN x.refused + 1 ELSE x.refused)
  BY <1>1 DEF Sessions
<1>4. Set(r, z)
  BY DEF Again
<1> HIDE DEF z
<1>5. /\ run' \in [Runs -> Sessions] /\ run'[r] = z
      /\ \A q \in Runs \ {r} : run'[q] = run[q]
  BY <1>2, <1>4, Moved
<1>6. AccountsDone(run[r])'
  <2>1. /\ x.attempt \in 1..Attempts /\ x.refused \in 0..Attempts
    BY <1>1 DEF Sessions
  <2>2. x.kind = "full" => \/ x.refused = x.attempt - 1
                           \/ hit /\ x.refused = x.attempt - 2 /\ People[x.at] \in accounts
    <3>1. SUFFICES ASSUME x.kind = "full", x.refused # x.attempt - 1
                   PROVE  hit /\ x.refused = x.attempt - 2 /\ People[x.at] \in accounts
      OBVIOUS
    <3>2. x.refused = x.attempt - 2 /\ People[x.at] \in accounts
      BY <1>1, <3>1 DEF Attempting
    <3>3. x.pc = "register" => x.hit
      BY <1>1, <3>1 DEF Attempting
    <3>4. hit
      BY <3>3
    <3>5. QED
      BY <3>2, <3>4
  <2>3. ~hit => People[x.at] \in accounts
    BY DEF Person
  <2>4. CASE last
    BY <1>1, <1>3, <1>5, <2>1, <2>2, <2>4, PeopleCounted DEF AccountsDone
  <2>5. CASE ~last
    <3>1. /\ z.pc = "login" /\ z.attempt = x.attempt + 1 /\ x.kind = "full"
          /\ z.refused = (IF hit THEN x.refused + 1 ELSE x.refused)
      BY <1>1, <1>3, <2>5 DEF Sessions, Kinds
    <3>2. accounts' = accounts
      OBVIOUS
    <3>3. Attempting(run[r])'
      <4>1. z.at = x.at /\ z.kind = "full" /\ z.at <= Len(People)
        BY <1>1, <1>3, <3>1
      <4>2. z.refused <= z.attempt - 1
        BY <1>1, <2>1, <3>1
      <4>3. \/ z.refused = z.attempt - 1
            \/ z.refused = z.attempt - 2 /\ People[z.at] \in accounts
        BY <2>1, <2>2, <2>3, <3>1, <4>1
      <4>4. QED
        BY <1>5, <3>1, <3>2, <4>1, <4>2, <4>3 DEF Attempting
    <3>4. QED
      BY <1>5, <3>1, <3>3 DEF AccountsDone
  <2>6. QED
    BY <2>4, <2>5
<1>7. Older(run[r])' /\ NothingToDo(run[r])'
  BY <1>1, <1>3, <1>5 DEF Older, NothingToDo, retentionVars
<1>8. QED
  BY <1>5, <1>6, <1>7, OneMoves DEF SessionsOK, retentionVars

LEMMA AccountsStep ==
    ASSUME SessionsOK, NEW r \in Runs,
           \/ Start(r)
           \/ /\ \/ AccountSteps(r) \/ AccountFaults(r)
                 \/ \E kind \in Kinds : ServicesDown(r, kind)
              /\ UNCHANGED retentionVars
    PROVE  SessionsOK'
<1> DEFINE x == run[r]
<1>0. /\ x \in Sessions /\ AccountsDone(x) /\ Older(x) /\ NothingToDo(x)
      /\ Idle \in Sessions
  <2>1. Idle \in Sessions
    BY PeopleCounted DEF Idle, Sessions, Phases, Kinds
  <2>2. QED
    BY <2>1 DEF SessionsOK
<1>t. /\ accounts \subseteq Persons /\ rows \subseteq Staff
      /\ conv \in [Staff -> {"none", "open", "done"}]
      /\ actions \in Seq(Statuses) /\ slipped \subseteq DOMAIN actions
      /\ Len(actions) <= Len(actions)
  <2>1. actions \in Seq(Statuses)
    BY DEF SessionsOK
  <2>2. Len(actions) \in Nat
    BY <2>1, LenProperties
  <2>3. QED
    BY <2>1, <2>2 DEF SessionsOK
<1>1. ASSUME NEW kind \in Kinds, StartRun(r, kind) \/ ServicesDown(r, kind),
             UNCHANGED retentionVars
      PROVE  SessionsOK'
  <2>1. PICK pc \in {"login", "down"} : Set(r, [Idle EXCEPT !.kind = kind, !.pc = pc])
    BY <1>1 DEF StartRun, ServicesDown
  <2> DEFINE z == [Idle EXCEPT !.kind = kind, !.pc = pc]
  <2>2. z \in Sessions
    BY <1>0 DEF Sessions, Phases
  <2>3. /\ z.kind = kind /\ z.pc = pc /\ z.at = 1 /\ z.attempt = 1 /\ z.refused = 0
        /\ z.todo = {} /\ z.queue = <<>>
    BY DEF Idle
  <2> HIDE DEF z
  <2>4. /\ run' \in [Runs -> Sessions] /\ run'[r] = z
        /\ \A q \in Runs \ {r} : run'[q] = run[q]
    BY <2>1, <2>2, Moved DEF z
  <2>5. AccountsDone(run[r])'
    BY <2>3, <2>4, PeopleCounted DEF AccountsDone, Attempting
  <2>6. Len(<<>>) = 0
    OBVIOUS
  <2>7. Older(run[r])' /\ NothingToDo(run[r])'
    BY <2>3, <2>4, <2>6 DEF Older, NothingToDo
  <2>8. QED
    BY <1>t, <1>1, <2>4, <2>5, <2>7, OneMoves DEF StartRun, ServicesDown, retentionVars
<1>2. ASSUME LoginOk(r) \/ RegisterOk(r), UNCHANGED retentionVars
      PROVE  SessionsOK'
  <2>1. Person(r) \in Persons
    <3>1. x.at \in 1..Len(People)
      BY <1>0, <1>2, PeopleCounted
         DEF LoginOk, RegisterOk, AccountsDone, Attempting, Sessions
    <3>2. QED
      BY <3>1, AccountsAssumption DEF Person
  <2>2. accounts \subseteq accounts' /\ accounts' \subseteq Persons
    BY <1>t, <1>2, <2>1 DEF LoginOk, RegisterOk
  <2>3. QED
    BY <1>2, <2>2, ObtainedOK DEF LoginOk, RegisterOk
<1>3. ASSUME RegisterExists(r) \/ RegisterRefused(r) \/ (LoginThrottled(r) /\ x.kind = "full"),
             UNCHANGED retentionVars
      PROVE  SessionsOK'
  <2>1. CASE RegisterExists(r)
    <3>1. x.hit \in BOOLEAN
      BY <1>0 DEF Sessions
    <3>2. QED
      BY <1>3, <2>1, <3>1, AgainOK DEF RegisterExists
  <2>2. CASE RegisterRefused(r) \/ (LoginThrottled(r) /\ x.kind = "full")
    BY <1>3, <2>2, AgainOK DEF RegisterRefused, LoginThrottled
  <2>3. QED
    BY <1>3, <2>1, <2>2
<1>4. ASSUME LoginRejected(r) \/ LoginError(r) \/ (LoginThrottled(r) /\ x.kind # "full"),
             UNCHANGED retentionVars
      PROVE  SessionsOK'
  <2>1. PICK hit \in {x.hit, TRUE} : /\ Set(r, [x EXCEPT !.pc = "register", !.hit = hit])
                                     /\ x.kind = "full" =>
                                            hit = TRUE \/ Person(r) \notin accounts
    <3>1. x = [x EXCEPT !.hit = x.hit] 
      BY <1>0 DEF Sessions
    <3>2. [x EXCEPT !.pc = "register"] = [x EXCEPT !.pc = "register", !.hit = x.hit]
      BY <1>0 DEF Sessions
    <3>3. QED
      BY <1>4, <3>2 DEF LoginRejected, LoginError, LoginThrottled
  <2> DEFINE z == [x EXCEPT !.pc = "register", !.hit = hit]
  <2>2. z \in Sessions
    BY <1>0 DEF Sessions, Phases
  <2>3. /\ z.kind = x.kind /\ z.pc = "register" /\ z.at = x.at /\ z.attempt = x.attempt
        /\ z.refused = x.refused /\ z.todo = x.todo /\ z.queue = x.queue /\ z.hit = hit
    BY <1>0 DEF Sessions
  <2> HIDE DEF z
  <2>4. /\ run' \in [Runs -> Sessions] /\ run'[r] = z
        /\ \A q \in Runs \ {r} : run'[q] = run[q]
    BY <2>1, <2>2, Moved DEF z
  <2>5. accounts' = accounts /\ x.pc = "login" /\ Attempting(x)
    BY <1>0, <1>4 DEF LoginRejected, LoginError, LoginThrottled, AccountsDone
  <2>6. AccountsDone(run[r])'
    BY <2>1, <2>3, <2>4, <2>5 DEF AccountsDone, Attempting, Person
  <2>7. Older(run[r])' /\ NothingToDo(run[r])'
    BY <1>0, <1>4, <2>3, <2>4, <2>5 DEF Older, NothingToDo, retentionVars
  <2>8. QED
    BY <1>t, <1>4, <2>4, <2>5, <2>6, <2>7, OneMoves DEF retentionVars
<1>5. ASSUME RegisterLost(r), UNCHANGED retentionVars
      PROVE  SessionsOK'
  <2>1. Person(r) \in Persons
    <3>1. x.at \in 1..Len(People)
      BY <1>0, <1>5, PeopleCounted DEF RegisterLost, AccountsDone, Attempting, Sessions
    <3>2. QED
      BY <3>1, AccountsAssumption DEF Person
  <2>2. accounts \subseteq accounts' /\ accounts' \subseteq Persons
    BY <1>t, <1>5, <2>1 DEF RegisterLost
  <2> DEFINE z == [x EXCEPT !.pc = "dead"]
  <2>3. z \in Sessions /\ z.pc = "dead" /\ z.queue = x.queue /\ Set(r, z)
    BY <1>0, <1>5 DEF Sessions, Phases, RegisterLost
  <2> HIDE DEF z
  <2>4. /\ run' \in [Runs -> Sessions] /\ run'[r] = z
        /\ \A q \in Runs \ {r} : run'[q] = run[q]
    BY <2>3, Moved
  <2>5. AccountsDone(run[r])' /\ Older(run[r])' /\ NothingToDo(run[r])'
    BY <1>0, <1>5, <2>3, <2>4 DEF AccountsDone, Older, NothingToDo, retentionVars
  <2>6. QED
    BY <1>t, <1>5, <2>2, <2>4, <2>5, OneMoves DEF retentionVars
<1>6. QED
  BY <1>1, <1>2, <1>3, <1>4, <1>5 DEF Start, AccountSteps, AccountFaults

-----------------------------------------------------------------------------
(* The retention story                                                     *)

LEMMA LaterMoves ==
    ASSUME SessionsOK, NEW r \in Runs, run[r].pc \in Later, NEW z \in Sessions, Set(r, z),
           z.at = run[r].at, z.pc \in Later \cup {"ready", "failed", "dead"},
           z.pc \notin {"respond", "dead"} => z.todo = {},
           \A i \in 1..Len(z.queue) : z.queue[i] \in 1..(Len(actions) - 1),
           z.pc = "outcome" => z.queue # <<>>,
           accounts' = accounts, rows' \subseteq Staff,
           conv' \in [Staff -> {"none", "open", "done"}],
           actions' \in Seq(Statuses), Len(actions) <= Len(actions'),
           slipped' \subseteq DOMAIN actions'
    PROVE  SessionsOK'
<1>1. /\ run' \in [Runs -> Sessions] /\ run'[r] = z
      /\ \A q \in Runs \ {r} : run'[q] = run[q]
  BY Moved
<1>2. AccountsDone(run[r])'
  <2>1. z.at = Len(People) + 1
    BY DEF SessionsOK, AccountsDone, Later
  <2>2. QED
    BY <1>1, <2>1, PeopleCounted DEF AccountsDone, Later
<1>3. Older(run[r])'
  <2>1. Len(actions) \in Nat /\ Len(actions') \in Nat
    BY LenProperties DEF SessionsOK
  <2>2. QED
    BY <1>1, <2>1 DEF Older
<1>4. NothingToDo(run[r])'
  BY <1>1 DEF NothingToDo
<1>5. accounts \subseteq Persons
  BY DEF SessionsOK
<1>6. QED
  BY <1>1, <1>2, <1>3, <1>4, <1>5, OneMoves

\* The state a retention step finds.
LEMMA Found ==
    ASSUME SessionsOK, NEW r \in Runs
    PROVE  /\ run[r] \in Sessions /\ Older(run[r]) /\ NothingToDo(run[r])
           /\ rows \subseteq Staff /\ conv \in [Staff -> {"none", "open", "done"}]
           /\ actions \in Seq(Statuses) /\ slipped \subseteq DOMAIN actions
           /\ Len(actions) \in Nat /\ DOMAIN actions = 1..Len(actions)
BY LenProperties DEF SessionsOK

\* Steps that change the run alone, and leave it its queue.
LEMMA QuietMoves ==
    ASSUME SessionsOK, NEW r \in Runs, run[r].pc \in Later \ {"outcome"},
           NEW z \in Sessions, Set(r, z),
           z.at = run[r].at, z.queue = run[r].queue,
           z.pc \in (Later \ {"outcome"}) \cup {"ready", "failed", "dead"},
           z.pc \notin {"respond", "dead"} => z.todo = {},
           UNCHANGED <<accounts, conv, actions, slipped>>, rows' \subseteq Staff
    PROVE  SessionsOK'
BY Found, LaterMoves DEF Older

LEMMA RowsStep ==
    ASSUME SessionsOK, NEW r \in Runs, Middle(r) \/ ReadRows(r) \/ PostRow(r)
    PROVE  SessionsOK'
<1> DEFINE x == run[r]
<1>0. /\ x \in Sessions /\ rows \subseteq Staff
      /\ x.pc # "respond" /\ x.pc # "dead" => x.todo = {}
  BY Found DEF NothingToDo
<1>1. CASE Middle(r)
  <2>1. PICK pc \in {"rows", "failed"} : Set(r, [x EXCEPT !.pc = pc]) /\ x.pc = "middle"
    BY <1>1 DEF Middle, Goto
  <2>2. [x EXCEPT !.pc = pc] \in Sessions
    BY <1>0 DEF Sessions, Phases
  <2>3. PICK z \in Sessions : /\ Set(r, z) /\ z.pc \in {"rows", "failed"}
                              /\ z.at = x.at /\ z.queue = x.queue /\ z.todo = {}
    BY <1>0, <2>1, <2>2 DEF Sessions
  <2>4. UNCHANGED <<accounts, rows, conv, actions, slipped>>
    BY <1>1 DEF Middle, retentionVars
  <2>5. QED
    BY <1>0, <2>1, <2>3, <2>4, QuietMoves DEF Later
<1>2. CASE ReadRows(r)
  <2>1. PICK known \in SUBSET Staff :
           Set(r, [x EXCEPT !.pc = "post", !.known = known]) /\ x.pc = "rows"
    BY <1>0, <1>2 DEF ReadRows
  <2>2. [x EXCEPT !.pc = "post", !.known = known] \in Sessions
    BY <1>0 DEF Sessions, Phases
  <2>3. QED
    BY <1>0, <1>2, <2>1, <2>2, QuietMoves DEF ReadRows, Later, Sessions, retentionVars
<1>3. CASE PostRow(r)
  <2>1. PICK s \in Staff :
           \/ rows' = rows \cup {s} /\ Set(r, [x EXCEPT !.known = @ \cup {s}])
           \/ Set(r, [x EXCEPT !.pc = "failed"]) /\ rows' = rows
    BY <1>3 DEF PostRow, Goto
  <2>2. [x EXCEPT !.known = @ \cup {s}] \in Sessions /\ [x EXCEPT !.pc = "failed"] \in Sessions
    BY <1>0 DEF Sessions, Phases
  <2>3. rows' \subseteq Staff /\ x.pc = "post"
    BY <1>0, <1>3, <2>1 DEF PostRow
  <2>4. PICK z \in Sessions : /\ Set(r, z) /\ z.pc \in {"post", "failed"}
                              /\ z.at = x.at /\ z.queue = x.queue /\ z.todo = {}
    BY <1>0, <2>1, <2>2, <2>3 DEF Sessions
  <2>5. UNCHANGED <<accounts, conv, actions, slipped>>
    BY <1>3 DEF PostRow
  <2>6. QED
    BY <1>0, <2>3, <2>4, <2>5, QuietMoves DEF Later
<1>4. QED
  BY <1>1, <1>2, <1>3

LEMMA DetectStep ==
    ASSUME SessionsOK, NEW r \in Runs, Detect(r) \/ DetectLost(r)
    PROVE  SessionsOK'
<1> DEFINE x == run[r]
           opened == [s \in Staff |-> IF s \in Opened THEN "open" ELSE conv[s]]
<1>0. /\ x \in Sessions /\ x.pc = "post" /\ x.todo = {} /\ Opened \subseteq Staff
      /\ conv \in [Staff -> {"none", "open", "done"}]
      /\ opened \in [Staff -> {"none", "open", "done"}]
  BY Found DEF NothingToDo, Detect, DetectLost, Opened
<1>1. /\ UNCHANGED <<accounts, rows, actions, slipped>> /\ conv' \in {conv, opened}
      /\ \/ Set(r, [x EXCEPT !.pc = "respond", !.todo = Opened])
         \/ Set(r, [x EXCEPT !.pc = "failed"]) \/ Set(r, [x EXCEPT !.pc = "dead"])
  BY DEF Detect, DetectLost, Goto
<1>2. /\ [x EXCEPT !.pc = "respond", !.todo = Opened] \in Sessions
      /\ [x EXCEPT !.pc = "failed"] \in Sessions /\ [x EXCEPT !.pc = "dead"] \in Sessions
  BY <1>0 DEF Sessions, Phases
<1>3. PICK z \in Sessions : /\ Set(r, z) /\ z.pc \in {"respond", "failed", "dead"}
                            /\ z.pc = "failed" => z.todo = {}
                            /\ z.at = x.at /\ z.queue = x.queue
  BY <1>0, <1>1, <1>2 DEF Sessions
<1>4. conv' \in [Staff -> {"none", "open", "done"}]
  BY <1>0, <1>1
<1>5. QED
  BY <1>0, <1>1, <1>3, <1>4, Found, LaterMoves DEF Older, Later

LEMMA RespondStep ==
    ASSUME SessionsOK, NEW r \in Runs,
           Respond(r) \/ RespondLost(r) \/ RespondExpired(r) \/ RespondRefused(r)
    PROVE  SessionsOK'
<1> DEFINE x == run[r]
<1>0. /\ x \in Sessions /\ x.pc = "respond"
      /\ conv \in [Staff -> {"none", "open", "done"}] /\ actions \in Seq(Statuses)
  BY Found DEF Respond, RespondLost, RespondExpired, RespondRefused
<1>1. PICK s \in x.todo :
           /\ Answered(s) \/ UNCHANGED <<accounts, retentionVars>>
           /\ Set(r, [x EXCEPT !.todo = @ \ {s}]) \/ Set(r, [x EXCEPT !.pc = "dead"])
  BY DEF Respond, RespondLost, RespondExpired, RespondRefused, Goto
<1>2. [x EXCEPT !.todo = @ \ {s}] \in Sessions /\ [x EXCEPT !.pc = "dead"] \in Sessions
  BY <1>0 DEF Sessions, Phases
<1>3. PICK z \in Sessions : /\ Set(r, z) /\ z.pc \in {"respond", "dead"}
                            /\ z.at = x.at /\ z.queue = x.queue
  BY <1>0, <1>1, <1>2 DEF Sessions
<1>4. /\ UNCHANGED <<accounts, rows, slipped>>
      /\ conv' \in [Staff -> {"none", "open", "done"}]
  BY <1>0, <1>1 DEF Answered, retentionVars
<1>5. /\ actions' \in Seq(Statuses) /\ Len(actions) <= Len(actions')
      /\ DOMAIN actions \subseteq DOMAIN actions'
  <2>1. CASE actions' = actions
    BY <1>0, <2>1, LenProperties
  <2>2. CASE actions' = Append(actions, "pending")
    <3>1. "pending" \in Statuses
      BY DEF Statuses
    <3>2. /\ actions' \in Seq(Statuses) /\ Len(actions') = Len(actions) + 1
          /\ Len(actions) \in Nat
      BY <1>0, <2>2, <3>1, AppendProperties, LenProperties
    <3>3. DOMAIN actions = 1..Len(actions) /\ DOMAIN actions' = 1..Len(actions')
      BY <1>0, <3>2, LenProperties
    <3>4. QED
      BY <3>2, <3>3
  <2>3. QED
    BY <1>1, <2>1, <2>2 DEF Answered, retentionVars
<1>6. slipped' \subseteq DOMAIN actions'
  BY <1>4, <1>5, Found
<1>7. QED
  BY <1>0, <1>3, <1>4, <1>5, <1>6, Found, LaterMoves DEF Older, Later

LEMMA TailOlder ==
    ASSUME NEW n \in Nat, NEW queue \in Seq(Nat), queue # <<>>,
           \A i \in 1..Len(queue) : queue[i] \in 1..n
    PROVE  /\ Head(queue) \in 1..n /\ Tail(queue) \in Seq(Nat)
           /\ \A i \in 1..Len(Tail(queue)) : Tail(queue)[i] \in 1..n
<1>1. Len(queue) \in Nat \ {0}
  BY EmptySeq, LenProperties
<1>2. /\ Head(queue) = queue[1] /\ Tail(queue) \in Seq(Nat)
      /\ Len(Tail(queue)) = Len(queue) - 1
      /\ \A i \in 1..Len(Tail(queue)) : Tail(queue)[i] = queue[i + 1]
  BY HeadTailProperties
<1>3. \A i \in 1..Len(Tail(queue)) : i + 1 \in 1..Len(queue)
  BY <1>1, <1>2
<1>4. QED
  BY <1>1, <1>2, <1>3

LEMMA MarkedActions ==
    ASSUME actions \in Seq(Statuses), NEW a, NEW status \in Statuses, Mark(a, status)
    PROVE  /\ actions' \in Seq(Statuses) /\ Len(actions') = Len(actions)
           /\ DOMAIN actions' = DOMAIN actions
           /\ \A b \in DOMAIN actions : actions'[b] = IF b = a THEN status ELSE actions[b]
<1>1. Len(actions) \in Nat /\ actions \in [1..Len(actions) -> Statuses]
  BY LenProperties
<1>2. actions' = [actions EXCEPT ![a] = status]
  BY DEF Mark
<1>3. actions' \in [1..Len(actions) -> Statuses]
  BY <1>1, <1>2
<1>4. actions' \in Seq(Statuses) /\ Len(actions') = Len(actions)
  BY <1>1, <1>3, SeqDef, LenProperties
<1>5. QED
  BY <1>1, <1>2, <1>3, <1>4

LEMMA ReviewStep ==
    ASSUME SessionsOK, NEW r \in Runs,
           \/ Review(r) \/ ReviewPasses(r) \/ ReviewRefused(r)
           \/ Outcome(r) \/ OutcomeMissed(r)
    PROVE  SessionsOK'
<1> DEFINE x == run[r]
<1>0. /\ x \in Sessions /\ Older(x) /\ x.todo = {} /\ x.pc \in {"review", "outcome"}
      /\ x.queue # <<>> /\ x.queue \in Seq(Nat) /\ Len(actions) - 1 \in Nat
      /\ Len(actions) \in Nat /\ DOMAIN actions = 1..Len(actions)
  <2>1. x \in Sessions /\ Older(x) /\ x.pc \in {"review", "outcome"} /\ x.todo = {}
    BY Found DEF NothingToDo, Review, ReviewPasses, ReviewRefused, Outcome, OutcomeMissed, Working
  <2>2. x.queue # <<>> /\ x.queue \in Seq(Nat)
    BY <2>1 DEF Older, Sessions, Review, ReviewPasses, ReviewRefused, Outcome, OutcomeMissed,
                Working
  <2>3. 1 \in 1..Len(x.queue)
    BY <2>2, EmptySeq, LenProperties
  <2>4. Len(actions) \in Nat /\ DOMAIN actions = 1..Len(actions)
    BY Found
  <2>5. x.queue[1] \in 1..(Len(actions) - 1)
    BY <2>1, <2>3 DEF Older
  <2>6. QED
    BY <2>1, <2>2, <2>4, <2>5
<1>1. /\ First(r) \in 1..(Len(actions) - 1) /\ Tail(x.queue) \in Seq(Nat)
      /\ \A i \in 1..Len(Tail(x.queue)) : Tail(x.queue)[i] \in 1..(Len(actions) - 1)
  BY <1>0, TailOlder DEF Older, First
<1>2. First(r) \in DOMAIN actions
  BY <1>0, <1>1
<1>3. PICK z \in Sessions : /\ Set(r, z) /\ z.at = x.at /\ z.todo = {}
                            /\ \/ z.pc = "review" /\ z.queue = Tail(x.queue)
                               \/ z.pc = "outcome" /\ z.queue = x.queue
  <2>1. \/ Set(r, [x EXCEPT !.pc = "review", !.queue = Tail(@)])
        \/ Set(r, [x EXCEPT !.pc = "outcome"])
    BY DEF Review, ReviewPasses, ReviewRefused, Outcome, OutcomeMissed, Passed, Goto
  <2>2. /\ [x EXCEPT !.pc = "review", !.queue = Tail(@)] \in Sessions
        /\ [x EXCEPT !.pc = "outcome"] \in Sessions
    BY <1>0, <1>1 DEF Sessions, Phases
  <2>3. QED
    BY <1>0, <2>1, <2>2 DEF Sessions
<1>4. /\ actions' \in Seq(Statuses) /\ Len(actions') = Len(actions)
      /\ DOMAIN actions' = DOMAIN actions
  <2>1. \/ Mark(First(r), "approved") \/ Mark(First(r), "recorded") \/ actions' = actions
    BY DEF Review, ReviewPasses, ReviewRefused, Outcome, OutcomeMissed, retentionVars
  <2>2. "approved" \in Statuses /\ "recorded" \in Statuses
    BY DEF Statuses
  <2>3. QED
    BY <2>1, <2>2, Found, MarkedActions
<1>5. /\ UNCHANGED <<accounts, rows, conv>> /\ slipped' \subseteq slipped \cup {First(r)}
  BY DEF Review, ReviewPasses, ReviewRefused, Outcome, OutcomeMissed, retentionVars
<1>6. /\ slipped' \subseteq DOMAIN actions' /\ Len(actions) <= Len(actions')
      /\ rows' \subseteq Staff /\ conv' \in [Staff -> {"none", "open", "done"}]
  BY <1>0, <1>2, <1>4, <1>5, Found
<1>7. \A i \in 1..Len(z.queue) : z.queue[i] \in 1..(Len(actions) - 1)
  BY <1>0, <1>1, <1>3 DEF Older
<1>8. QED
  BY <1>0, <1>3, <1>4, <1>5, <1>6, <1>7, LaterMoves DEF Later

LEMMA ListStep ==
    ASSUME SessionsOK, NEW r \in Runs, ListActions(r) \/ Finish(r)
    PROVE  SessionsOK'
<1> DEFINE x == run[r]
<1>0. x \in Sessions /\ UNCHANGED <<accounts, rows, conv, actions, slipped>> /\ rows \subseteq Staff
  BY Found DEF ListActions, Finish, retentionVars
<1>1. CASE ListActions(r)
  <2>1. PICK queue :
           /\ Set(r, [x EXCEPT !.pc = "review", !.queue = queue])
           /\ queue = <<>> \/ (queue = Queue /\ Pending # {})
    BY <1>1 DEF ListActions
  <2>2. x.pc = "respond" /\ x.todo = {}
    BY <1>1 DEF ListActions
  <2>3. queue \in Seq(Nat) /\ \A i \in 1..Len(queue) : queue[i] \in 1..(Len(actions) - 1)
    <3>1. <<>> \in Seq(Nat) /\ Len(<<>>) = 0
      OBVIOUS
    <3>2. CASE queue = <<>>
      BY <3>1, <3>2
    <3>3. CASE queue = Queue /\ Pending # {}
      BY <3>3, Found, QueueIsOlder
    <3>4. QED
      BY <2>1, <3>2, <3>3
  <2>4. [x EXCEPT !.pc = "review", !.queue = queue] \in Sessions
    BY <1>0, <2>3 DEF Sessions, Phases
  <2>5. PICK z \in Sessions : /\ Set(r, z) /\ z.pc = "review" /\ z.queue = queue
                              /\ z.at = x.at /\ z.todo = {}
    BY <1>0, <2>1, <2>2, <2>4 DEF Sessions
  <2>6. Len(actions) <= Len(actions')
    BY <1>0, Found
  <2>7. QED
    BY <1>0, <2>2, <2>3, <2>5, <2>6, Found, LaterMoves DEF Later
<1>2. CASE Finish(r)
  <2>1. Set(r, [x EXCEPT !.pc = "ready"]) /\ x.pc = "review" /\ x.todo = {}
    BY <1>2, Found DEF Finish, Goto, NothingToDo
  <2>2. [x EXCEPT !.pc = "ready"] \in Sessions
    BY <1>0 DEF Sessions, Phases
  <2>3. PICK z \in Sessions : /\ Set(r, z) /\ z.pc = "ready" /\ z.queue = x.queue
                              /\ z.at = x.at /\ z.todo = {}
    BY <1>0, <2>1, <2>2 DEF Sessions
  <2>4. QED
    BY <1>0, <2>1, <2>3, QuietMoves DEF Later
<1>3. QED
  BY <1>1, <1>2

-----------------------------------------------------------------------------
(* The whole session                                                       *)

LEMMA ExpireStep ==
    ASSUME SessionsOK, NEW r \in Runs, Expire(r)
    PROVE  SessionsOK'
<1> DEFINE x == run[r]
           z == [x EXCEPT !.live = FALSE]
<1>0. x \in Sessions /\ AccountsDone(x) /\ Older(x) /\ NothingToDo(x)
  BY DEF SessionsOK
<1>1. z \in Sessions
  BY <1>0 DEF Sessions
<1>2. /\ z.kind = x.kind /\ z.pc = x.pc /\ z.at = x.at /\ z.attempt = x.attempt
      /\ z.refused = x.refused /\ z.hit = x.hit /\ z.todo = x.todo /\ z.queue = x.queue
  BY <1>0 DEF Sessions
<1>3. Set(r, z) /\ UNCHANGED <<accounts, retentionVars>>
  BY DEF Expire
<1> HIDE DEF z
<1>4. /\ run' \in [Runs -> Sessions] /\ run'[r] = z
      /\ \A q \in Runs \ {r} : run'[q] = run[q]
  BY <1>1, <1>3, Moved
<1>5. AccountsDone(run[r])' /\ Older(run[r])' /\ NothingToDo(run[r])'
  BY <1>0, <1>2, <1>3, <1>4 DEF AccountsDone, Attempting, Older, NothingToDo, retentionVars
<1>6. accounts \subseteq Persons /\ Len(actions) <= Len(actions)
  BY Found DEF SessionsOK
<1>7. QED
  BY <1>3, <1>4, <1>5, <1>6, Found, OneMoves DEF retentionVars

\* A run that starts over knows nothing, one that is dead does nothing any more.
LEMMA EndStep ==
    ASSUME SessionsOK, NEW r \in Runs, Die(r) \/ Exit(r)
    PROVE  SessionsOK'
<1> DEFINE x == run[r]
<1>0. x \in Sessions /\ Older(x) /\ Idle \in Sessions /\ Idle.pc = "idle" /\ Idle.todo = {}
      /\ Idle.queue = <<>>
  BY Found, PeopleCounted DEF Idle, Sessions, Phases, Kinds
<1>1. PICK z \in Sessions : /\ Set(r, z)
                            /\ \/ z.pc = "dead" /\ z.queue = x.queue
                               \/ z.pc = "idle" /\ z.queue = <<>> /\ z.todo = {}
  <2>1. CASE Die(r)
    <3>1. Set(r, [x EXCEPT !.pc = "dead"]) /\ [x EXCEPT !.pc = "dead"] \in Sessions
      BY <1>0, <2>1 DEF Die, Sessions, Phases
    <3>2. [x EXCEPT !.pc = "dead"].pc = "dead" /\ [x EXCEPT !.pc = "dead"].queue = x.queue
      BY <1>0 DEF Sessions
    <3>3. QED
      BY <3>1, <3>2
  <2>2. CASE Exit(r)
    BY <1>0, <2>2 DEF Exit
  <2>3. QED
    BY <2>1, <2>2
<1>2. /\ run' \in [Runs -> Sessions] /\ run'[r] = z
      /\ \A q \in Runs \ {r} : run'[q] = run[q]
  BY <1>1, Moved
<1>3. /\ UNCHANGED <<accounts, rows, conv, actions>>
      /\ slipped' \in {slipped, slipped \cup {First(r)}}
      /\ slipped' # slipped => x.pc = "outcome"
  BY DEF Die, Exit, retentionVars
<1>4. slipped' \subseteq DOMAIN actions'
  <2>1. CASE x.pc = "outcome"
    <3>1. x.queue # <<>> /\ x.queue \in Seq(Nat)
      BY <1>0, <2>1 DEF Older, Sessions
    <3>2. 1 \in 1..Len(x.queue) /\ Head(x.queue) = x.queue[1]
      BY <3>1, EmptySeq, LenProperties, HeadTailProperties
    <3>3. x.queue[1] \in 1..(Len(actions) - 1)
      BY <1>0, <3>2 DEF Older
    <3>4. First(r) \in DOMAIN actions
      BY <3>2, <3>3, Found DEF First
    <3>5. QED
      BY <1>3, <3>4, Found
  <2>2. CASE x.pc # "outcome"
    BY <1>3, <2>2, Found
  <2>3. QED
    BY <2>1, <2>2
<1>5. AccountsDone(run[r])' /\ NothingToDo(run[r])'
  BY <1>1, <1>2 DEF AccountsDone, NothingToDo
<1>6. Older(run[r])'
  <2>1. Len(<<>>) = 0
    OBVIOUS
  <2>2. QED
    BY <1>0, <1>1, <1>2, <1>3, <2>1 DEF Older
<1>7. accounts \subseteq Persons /\ Len(actions) <= Len(actions)
  BY Found DEF SessionsOK
<1>8. QED
  BY <1>2, <1>3, <1>4, <1>5, <1>6, <1>7, Found, OneMoves

LEMMA HumanStep ==
    ASSUME SessionsOK, HumanReview
    PROVE  SessionsOK'
<1>1. UNCHANGED <<accounts, run, rows, conv, slipped>>
  BY DEF HumanReview
<1>2. actions' \in Seq(Statuses) /\ Len(actions') = Len(actions) /\ DOMAIN actions' = DOMAIN actions
  <2>1. PICK a \in Pending : Mark(a, "human")
    BY DEF HumanReview
  <2>2. "human" \in Statuses /\ actions \in Seq(Statuses)
    BY DEF Statuses, SessionsOK
  <2>3. QED
    BY <2>1, <2>2, MarkedActions
<1>3. \A r \in Runs : AccountsDone(run[r])' /\ Older(run[r])' /\ NothingToDo(run[r])'
  BY <1>1, <1>2 DEF SessionsOK, AccountsDone, Attempting, Older, NothingToDo
<1>4. QED
  BY <1>1, <1>2, <1>3 DEF SessionsOK

LEMMA SessionsInit == Init => SessionsOK
<1> SUFFICES ASSUME Init PROVE SessionsOK
  OBVIOUS
<1>1. Idle \in Sessions /\ Idle.pc = "idle" /\ Idle.todo = {} /\ Idle.queue = <<>>
  BY PeopleCounted DEF Idle, Sessions, Phases, Kinds
<1>2. Len(<<>>) = 0 /\ <<>> \in Seq(Statuses)
  OBVIOUS
<1>3. \A r \in Runs : run[r] = Idle
  BY DEF Init
<1>4. \A r \in Runs : AccountsDone(run[r]) /\ Older(run[r]) /\ NothingToDo(run[r])
  BY <1>1, <1>2, <1>3 DEF AccountsDone, Older, NothingToDo
<1>5. QED
  BY <1>1, <1>2, <1>4 DEF Init, RetentionInit, SessionsOK

LEMMA SessionsStep == SessionsOK /\ [Next]_vars => SessionsOK'
<1> SUFFICES ASSUME SessionsOK, [Next]_vars PROVE SessionsOK'
  OBVIOUS
<1>1. CASE UNCHANGED vars
  BY <1>1 DEF SessionsOK, AccountsDone, Attempting, Older, NothingToDo, vars, retentionVars
<1>2. ASSUME NEW r \in Runs, Works(r) \/ RetentionFaults(r)
      PROVE  SessionsOK'
  BY <1>2, AccountsStep, RowsStep, DetectStep, RespondStep, ListStep, ReviewStep
     DEF Works, RetentionSteps, RetentionFaults, OutcomeExpired, OutcomeRefused
<1>3. ASSUME NEW r \in Runs, Start(r) \/ Fault(r)
      PROVE  SessionsOK'
  BY <1>2, <1>3, AccountsStep, ExpireStep, EndStep DEF Fault
<1>4. QED
  BY <1>1, <1>2, <1>3, EndStep, HumanStep DEF Next

LEMMA SessionsAlways == Spec => []SessionsOK
<1>1. QED
  BY SessionsInit, SessionsStep, PTL DEF Spec

\* The accounts, the runs, the conversations and the actions are at every step what the
\* scripts (platform_client.py, seed_demo_full.py) take them for.
THEOREM TypeCorrect == Spec => []TypeOK
<1>1. SessionsOK => TypeOK
  <2> SUFFICES ASSUME SessionsOK PROVE TypeOK
    OBVIOUS
  <2>1. ASSUME NEW r \in Runs
        PROVE  run[r].queue \in Seq(DOMAIN actions)
    <3>1. /\ run[r].queue \in Seq(Nat)
          /\ \A i \in 1..Len(run[r].queue) : run[r].queue[i] \in 1..(Len(actions) - 1)
      BY DEF SessionsOK, Sessions, Older
    <3>2. 1..(Len(actions) - 1) \subseteq DOMAIN actions
      BY Found
    <3>3. Len(run[r].queue) \in Nat /\ run[r].queue \in [1..Len(run[r].queue) -> Nat]
      BY <3>1, LenProperties
    <3>4. run[r].queue \in [1..Len(run[r].queue) -> DOMAIN actions]
      BY <3>1, <3>2, <3>3
    <3>5. QED
      BY <3>3, <3>4, SeqDef
  <2> DEFINE Runners == [kind : Kinds,
                         pc : {"idle", "login", "register", "middle", "rows", "post",
                               "respond", "review", "outcome", "ready", "failed", "down",
                               "dead"},
                         at : 1..(Len(People) + 1), attempt : 1..Attempts,
                         refused : 0..Attempts, hit : BOOLEAN, live : BOOLEAN,
                         known : SUBSET Staff, todo : SUBSET Staff,
                         queue : Seq(DOMAIN actions)]
  <2>2. ASSUME NEW r \in Runs
        PROVE  run[r] \in Runners
    <3>1. run[r] \in Sessions
      BY DEF SessionsOK
    <3>2. QED
      BY <2>1, <3>1 DEF Sessions, Phases
  <2>3. run \in [Runs -> Runners]
    BY <2>2 DEF SessionsOK
  <2>4. QED
    BY <2>3 DEF SessionsOK, TypeOK, Statuses
<1>2. QED
  BY <1>1, SessionsAlways, PTL

\* "Survives auth throttling and 'already exists' races" (seed_demo_full.py:43-44), for any
\* number of overlapping runs, people and attempts: a full run gives up an account only if
\* auth refused all of its attempts but one; a lost race costs it one attempt at most.
THEOREM RacesSurvived == Spec => []FailsOnlyRefused
<1>1. SessionsOK => FailsOnlyRefused
  BY DEF SessionsOK, AccountsDone, FailsOnlyRefused
<1>2. QED
  BY <1>1, SessionsAlways, PTL

-----------------------------------------------------------------------------
(* The actions                                                             *)

\* What a step does to the actions: it leaves them, adds a pending one, marks one a run had
\* queued, or one a person looks at.
LEMMA FirstIsOlder ==
    ASSUME SessionsOK, NEW r \in Runs, run[r].queue # <<>>
    PROVE  First(r) \in 1..(Len(actions) - 1)
<1>1. run[r].queue \in Seq(Nat) /\ Older(run[r])
  BY DEF SessionsOK, Sessions
<1>2. 1 \in 1..Len(run[r].queue) /\ Head(run[r].queue) = run[r].queue[1]
  BY <1>1, EmptySeq, LenProperties, HeadTailProperties
<1>3. QED
  BY <1>1, <1>2 DEF Older, First

LEMMA ActionsChange ==
    ASSUME SessionsOK, [Next]_vars
    PROVE  \/ actions' = actions
           \/ actions' = Append(actions, "pending")
           \/ \E r \in Runs : \/ Review(r) /\ Mark(First(r), "approved")
                              \/ Outcome(r) /\ Mark(First(r), "recorded")
           \/ HumanReview
<1>1. CASE UNCHANGED vars \/ \E r \in Runs : Start(r) \/ Exit(r) \/ Expire(r) \/ Die(r)
  BY <1>1 DEF Start, Exit, Expire, Die, vars, retentionVars
<1>2. ASSUME NEW r \in Runs, Works(r)
      PROVE  \/ actions' = actions \/ actions' = Append(actions, "pending")
             \/ Review(r) /\ Mark(First(r), "approved")
             \/ Outcome(r) /\ Mark(First(r), "recorded")
  BY <1>2 DEF Works, RetentionSteps, Middle, ReadRows, PostRow, Detect, Respond, Answered,
              RespondExpired, ListActions, Review, ReviewPasses, Outcome, OutcomeExpired,
              OutcomeMissed, Finish, retentionVars
<1>3. ASSUME NEW r \in Runs, Fault(r), ~Expire(r), ~Die(r)
      PROVE  actions' = actions \/ actions' = Append(actions, "pending")
  BY <1>3 DEF Fault, RetentionFaults, DetectLost, RespondLost, Answered, RespondRefused,
              ReviewRefused, OutcomeRefused, OutcomeMissed, retentionVars
<1>4. QED
  BY <1>1, <1>2, <1>3 DEF Next

LEMMA NewestStep ==
    ASSUME SessionsOK, NewestLeftPending, [Next]_vars
    PROVE  NewestLeftPending'
<1>0. actions \in Seq(Statuses) /\ Len(actions) \in Nat /\ DOMAIN actions = 1..Len(actions)
      /\ (actions = <<>> <=> Len(actions) = 0)
  BY EmptySeq, Found, LenProperties DEF SessionsOK
<1>1. CASE actions' = actions
  BY <1>1 DEF NewestLeftPending
<1>2. CASE actions' = Append(actions, "pending")
  <2>1. Len(actions') = Len(actions) + 1 /\ actions'[Len(actions) + 1] = "pending"
    <3>1. "pending" \in Statuses
      BY DEF Statuses
    <3>2. QED
      BY <1>0, <1>2, <3>1, AppendProperties
  <2>2. QED
    BY <2>1 DEF NewestLeftPending
<1>3. ASSUME NEW r \in Runs, NEW status \in {"approved", "recorded"}, Mark(First(r), status),
             Review(r) \/ Outcome(r)
      PROVE  NewestLeftPending'
  <2>1. run[r].queue # <<>>
    BY <1>3 DEF Review, Outcome, Working, SessionsOK, Older
  <2>2. First(r) \in 1..(Len(actions) - 1)
    BY <2>1, FirstIsOlder
  <2>3. /\ actions' \in Seq(Statuses) /\ Len(actions') = Len(actions)
        /\ \A b \in DOMAIN actions : actions'[b] = IF b = First(r) THEN status ELSE actions[b]
    <3>1. status \in Statuses
      BY DEF Statuses
    <3>2. QED
      BY <1>0, <1>3, <3>1, MarkedActions
  <2>4. Len(actions) \in DOMAIN actions /\ Len(actions) # First(r)
    BY <1>0, <2>2
  <2>5. actions'[Len(actions')] = actions[Len(actions)] /\ actions # <<>>
    BY <1>0, <2>3, <2>4
  <2>6. QED
    BY <2>5 DEF NewestLeftPending
<1>4. CASE HumanReview
  <2>1. PICK a \in Pending : Mark(a, "human")
    BY <1>4 DEF HumanReview
  <2>2. /\ Len(actions') = Len(actions) /\ actions # <<>>
        /\ \A b \in DOMAIN actions : actions'[b] = IF b = a THEN "human" ELSE actions[b]
    <3>1. "human" \in Statuses
      BY DEF Statuses
    <3>2. a \in DOMAIN actions
      BY DEF Pending
    <3>3. QED
      BY <1>0, <2>1, <3>1, <3>2, MarkedActions
  <2>3. Len(actions) \in DOMAIN actions
    BY <1>0, <2>2
  <2>4. QED
    BY <2>2, <2>3 DEF NewestLeftPending
<1>5. QED
  BY <1>1, <1>2, <1>3, <1>4, ActionsChange

\* "ALWAYS leave the most recent pending action untouched" (seed_demo_full.py:531-533): for
\* any number of overlapping runs and employees, the newest action waits for a person.
THEOREM NewestWaits == Spec => []NewestLeftPending
<1>1. Init => NewestLeftPending
  BY DEF Init, RetentionInit, NewestLeftPending
<1>2. QED
  BY <1>1, NewestStep, SessionsAlways, PTL DEF Spec

\* A step of one run leaves the others alone.
LEMMA OthersStay ==
    ASSUME SessionsOK, NEW r \in Runs, Start(r) \/ Works(r) \/ Fault(r) \/ Exit(r),
           NEW q \in Runs \ {r}
    PROVE  run'[q] = run[q]
<1>1. CASE Start(r) \/ Exit(r) \/ Expire(r) \/ Die(r) \/ \E kind \in Kinds : ServicesDown(r, kind)
  BY <1>1 DEF Start, StartRun, Exit, Expire, Die, ServicesDown, Set, SessionsOK
<1>2. CASE AccountSteps(r) \/ AccountFaults(r)
  BY <1>2 DEF AccountSteps, LoginOk, LoginRejected, RegisterOk, RegisterExists, AccountFaults,
              LoginThrottled, LoginError, RegisterRefused, RegisterLost, Obtained, Again, Set,
              SessionsOK
<1>3. CASE RetentionSteps(r)
  BY <1>3 DEF RetentionSteps, Middle, ReadRows, PostRow, Detect, Respond, RespondExpired,
              ListActions, Review, ReviewPasses, Outcome, OutcomeExpired, OutcomeMissed, Finish,
              Goto, Set, SessionsOK
<1>4. CASE RetentionFaults(r)
  BY <1>4 DEF RetentionFaults, DetectLost, RespondLost, RespondRefused, ReviewRefused,
              OutcomeRefused, OutcomeMissed, Goto, Set, SessionsOK
<1>5. QED
  BY <1>1, <1>2, <1>3, <1>4 DEF Works, Fault

\* A run that has approved an action stays at its outcome until that is recorded or missed.
LEMMA OutcomeKept ==
    ASSUME SessionsOK, [Next]_vars, NEW r \in Runs, run[r].pc = "outcome"
    PROVE  \/ run'[r].pc = "outcome" /\ run'[r].queue = run[r].queue
           \/ First(r) \in slipped'
           \/ Outcome(r)
<1>0. run[r] \in Sessions /\ run \in [Runs -> Sessions]
  BY DEF SessionsOK
<1>1. CASE UNCHANGED vars \/ HumanReview
  BY <1>1 DEF vars, HumanReview
<1>2. ASSUME NEW q \in Runs \ {r}, Start(q) \/ Works(q) \/ Fault(q) \/ Exit(q)
      PROVE  run'[r] = run[r]
  BY <1>2, OthersStay
<1>3. CASE Start(r) \/ Exit(r) \/ \E kind \in Kinds : ServicesDown(r, kind)
  BY <1>3 DEF Start, StartRun, Exit, Ended, ServicesDown
<1>4. CASE AccountSteps(r) \/ AccountFaults(r)
  BY <1>4 DEF AccountSteps, LoginOk, LoginRejected, RegisterOk, RegisterExists, AccountFaults,
              LoginThrottled, LoginError, RegisterRefused, RegisterLost
<1>5. CASE RetentionSteps(r) \/ RetentionFaults(r)
  BY <1>5 DEF RetentionSteps, Middle, ReadRows, PostRow, Detect, Respond, RespondExpired,
              ListActions, Review, ReviewPasses, OutcomeExpired, OutcomeMissed, Finish,
              RetentionFaults, DetectLost, RespondLost, RespondRefused, ReviewRefused,
              OutcomeRefused, Working
<1>6. CASE Die(r)
  BY <1>6 DEF Die
<1>7. CASE Expire(r)
  <2>1. run' = [run EXCEPT ![r] = [run[r] EXCEPT !.live = FALSE]]
    BY <1>7 DEF Expire, Set
  <2>2. run'[r] = [run[r] EXCEPT !.live = FALSE]
    BY <1>0, <2>1
  <2>3. QED
    BY <1>0, <2>2 DEF Sessions
<1>8. QED
  BY <1>1, <1>2, <1>3, <1>4, <1>5, <1>6, <1>7 DEF Next, Works, Fault

LEMMA ApprovedStep ==
    ASSUME SessionsOK, ApprovedIsRecorded, [Next]_vars
    PROVE  ApprovedIsRecorded'
<1>0. actions \in Seq(Statuses) /\ Len(actions) \in Nat /\ DOMAIN actions = 1..Len(actions)
      /\ {"pending", "approved", "recorded", "human"} \subseteq Statuses
  BY Found DEF SessionsOK, Statuses
<1>1. SUFFICES ASSUME NEW a \in DOMAIN actions', actions'[a] = "approved"
               PROVE  a \in slipped' \/ \E r \in Runs : run'[r].pc = "outcome" /\ First(r)' = a
  BY DEF ApprovedIsRecorded
<1>2. slipped \subseteq slipped'
  <2>1. CASE UNCHANGED vars \/ HumanReview
    BY <2>1 DEF vars, retentionVars, HumanReview
  <2>2. ASSUME NEW r \in Runs, Start(r) \/ Works(r) \/ Exit(r)
        PROVE  slipped \subseteq slipped'
    BY <2>2 DEF Start, Works, Exit, RetentionSteps, Middle, ReadRows, PostRow, Detect, Respond,
                Answered, RespondExpired, ListActions, Review, ReviewPasses, Outcome,
                OutcomeExpired, OutcomeMissed, Finish, retentionVars
  <2>3. ASSUME NEW r \in Runs, Fault(r)
        PROVE  slipped \subseteq slipped'
    BY <2>3 DEF Fault, RetentionFaults, DetectLost, RespondLost, Answered, RespondRefused,
                ReviewRefused, OutcomeRefused, OutcomeMissed, Expire, Die, retentionVars
  <2>4. QED
    BY <2>1, <2>2, <2>3 DEF Next
<1>3. ASSUME a \in DOMAIN actions, actions[a] = "approved",
             \A r \in Runs : Outcome(r) => First(r) # a
      PROVE  a \in slipped' \/ \E r \in Runs : run'[r].pc = "outcome" /\ First(r)' = a
  <2>1. CASE a \in slipped
    BY <1>2, <2>1
  <2>2. ASSUME NEW r \in Runs, run[r].pc = "outcome", First(r) = a
        PROVE  a \in slipped' \/ \E q \in Runs : run'[q].pc = "outcome" /\ First(q)' = a
    <3>1. run'[r].queue = run[r].queue => First(r)' = a
      BY <2>2 DEF First
    <3>2. QED
      BY <1>3, <2>2, <3>1, OutcomeKept
  <2>3. QED
    BY <1>3, <2>1, <2>2 DEF ApprovedIsRecorded
<1>4. CASE \E r \in Runs : Review(r) /\ Mark(First(r), "approved")
  <2>1. PICK r \in Runs : Review(r) /\ Mark(First(r), "approved")
    BY <1>4
  <2>2. a \in DOMAIN actions
        /\ actions'[a] = IF a = First(r) THEN "approved" ELSE actions[a]
    BY <1>0, <2>1, MarkedActions
  <2>3. CASE a = First(r)
    <3>1. run' = [run EXCEPT ![r] = [run[r] EXCEPT !.pc = "outcome"]]
      BY <2>1 DEF Review, Goto, Set
    <3>2. run[r] \in Sessions /\ run'[r] = [run[r] EXCEPT !.pc = "outcome"]
      BY <3>1 DEF SessionsOK
    <3>3. run'[r].pc = "outcome" /\ run'[r].queue = run[r].queue
      BY <3>2 DEF Sessions
    <3>4. QED
      BY <2>3, <3>3 DEF First
  <2>4. CASE a # First(r)
    <3>1. \A q \in Runs : ~Outcome(q) \/ First(q) # a
      <4>1. SUFFICES ASSUME NEW q \in Runs, Outcome(q), First(q) = a PROVE FALSE
        OBVIOUS
      <4>2. actions'[a] = "recorded"
        BY <1>0, <2>2, <4>1, MarkedActions DEF Outcome
      <4>3. QED
        BY <1>1, <4>2
    <3>2. QED
      BY <1>1, <1>3, <2>2, <2>4, <3>1
  <2>5. QED
    BY <2>3, <2>4
<1>5. CASE \E r \in Runs : Outcome(r) /\ Mark(First(r), "recorded")
  <2>1. PICK r \in Runs : Outcome(r) /\ Mark(First(r), "recorded")
    BY <1>5
  <2>2. \A q \in Runs : Outcome(q) => /\ a \in DOMAIN actions
                                      /\ actions'[a] = IF a = First(q) THEN "recorded"
                                                       ELSE actions[a]
    BY <1>0, MarkedActions DEF Outcome
  <2>3. QED
    BY <1>1, <1>3, <2>1, <2>2
<1>6. CASE actions' = actions \/ actions' = Append(actions, "pending") \/ HumanReview
  <2>1. a \in DOMAIN actions /\ actions[a] = "approved"
    <3>1. CASE actions' = actions
      BY <1>1, <3>1
    <3>2. CASE actions' = Append(actions, "pending")
      <4>1. /\ Len(actions') = Len(actions) + 1 /\ DOMAIN actions' = 1..Len(actions')
            /\ actions'[Len(actions) + 1] = "pending"
            /\ \A i \in 1..Len(actions) : actions'[i] = actions[i]
        BY <1>0, <3>2, AppendProperties, LenProperties
      <4>2. QED
        BY <1>0, <1>1, <4>1
    <3>3. CASE HumanReview
      <4>1. PICK b \in Pending : Mark(b, "human")
        BY <3>3 DEF HumanReview
      <4>2. a \in DOMAIN actions /\ actions'[a] = IF a = b THEN "human" ELSE actions[a]
        BY <1>0, <4>1, MarkedActions
      <4>3. QED
        BY <1>1, <4>2
    <3>4. QED
      BY <1>6, <3>1, <3>2, <3>3
  <2>2. ASSUME NEW r \in Runs, Outcome(r), First(r) = a
        PROVE  FALSE
    BY <1>0, <1>1, <2>1, <2>2, MarkedActions DEF Outcome
  <2>3. QED
    BY <1>3, <2>1, <2>2
<1>7. QED
  BY <1>4, <1>5, <1>6, ActionsChange

\* No approved action is left without an outcome but for a refused request or a killed run
\* (seed_demo_full.py:542-550): each has a run that is about to record it, or has slipped.
THEOREM ApprovedGetOutcomes == Spec => []ApprovedIsRecorded
<1>1. Init => ApprovedIsRecorded
  <2>1. DOMAIN <<>> = {}
    BY EmptySeq
  <2>2. QED
    BY <2>1 DEF Init, RetentionInit, ApprovedIsRecorded
<1>2. QED
  BY <1>1, ApprovedStep, SessionsAlways, PTL DEF Spec

-----------------------------------------------------------------------------
(* The conversations                                                       *)

LEMMA ForgottenStep ==
    ASSUME SessionsOK, [Next]_vars, ~\E r \in Runs : Fault(r) \/ RespondExpired(r)
    PROVE  Forgotten' \subseteq Forgotten
<1>1. SUFFICES ASSUME NEW s \in Staff, conv'[s] = "open",
                      \A q \in Runs : Active(q)' => s \notin run'[q].todo
               PROVE  s \in Forgotten
  BY DEF Forgotten
<1>2. ASSUME conv[s] = "open", \A q \in Runs : Active(q) => s \notin run[q].todo
      PROVE  s \in Forgotten
  BY <1>2 DEF Forgotten
<1>3. ASSUME NEW r \in Runs, NEW q \in Runs \ {r}, Start(r) \/ Works(r) \/ Exit(r), Active(q)
      PROVE  s \notin run[q].todo
  <2>1. run'[q] = run[q]
    BY <1>3, OthersStay
  <2>2. QED
    BY <1>1, <1>3, <2>1 DEF Active, Ended
<1>4. CASE UNCHANGED vars \/ HumanReview
  BY <1>1, <1>2, <1>4 DEF vars, retentionVars, HumanReview, Active, Ended
<1>5. ASSUME NEW r \in Runs, Start(r) \/ Exit(r)
      PROVE  s \in Forgotten
  <2>1. conv' = conv /\ ~Active(r)
    BY <1>5 DEF Start, StartRun, Exit, Active, retentionVars
  <2>2. QED
    BY <1>1, <1>2, <1>3, <1>5, <2>1
<1>6. ASSUME NEW r \in Runs, Works(r), run[r].todo = {}, conv' = conv
      PROVE  s \in Forgotten
  BY <1>1, <1>2, <1>3, <1>6
<1>7. ASSUME NEW r \in Runs, Detect(r)
      PROVE  s \in Forgotten
  <2>1. run[r].todo = {} /\ run[r] \in Sessions /\ run \in [Runs -> Sessions]
    BY <1>7, Found DEF Detect, NothingToDo, SessionsOK
  <2>2. CASE conv' = conv
    BY <1>6, <1>7, <2>1, <2>2 DEF Works, RetentionSteps
  <2>3. CASE conv' # conv
    <3>1. /\ conv' = [t \in Staff |-> IF t \in Opened THEN "open" ELSE conv[t]]
          /\ run' = [run EXCEPT ![r] = [run[r] EXCEPT !.pc = "respond", !.todo = Opened]]
      BY <1>7, <2>3 DEF Detect, Set
    <3>2. run'[r].pc = "respond" /\ run'[r].todo = Opened
      BY <2>1, <3>1 DEF Sessions
    <3>3. s \notin Opened
      BY <1>1, <3>2 DEF Active, Ended
    <3>4. conv[s] = "open"
      BY <1>1, <3>1, <3>3
    <3>5. QED
      BY <1>2, <1>3, <1>7, <2>1, <3>4 DEF Works, RetentionSteps
  <2>4. QED
    BY <2>2, <2>3
<1>8. ASSUME NEW r \in Runs, Respond(r)
      PROVE  s \in Forgotten
  <2>1. /\ run[r] \in Sessions /\ run \in [Runs -> Sessions]
        /\ conv \in [Staff -> {"none", "open", "done"}]
    BY DEF SessionsOK
  <2>2. PICK t \in run[r].todo :
           /\ conv' = [conv EXCEPT ![t] = "done"]
           /\ run' = [run EXCEPT ![r] = [run[r] EXCEPT !.todo = @ \ {t}]]
    BY <1>8 DEF Respond, Answered, Set
  <2>3. s # t /\ conv[s] = "open"
    BY <1>1, <2>1, <2>2
  <2>4. run'[r].todo = run[r].todo \ {t} /\ run'[r].pc = "respond"
    BY <1>8, <2>1, <2>2 DEF Respond, Sessions
  <2>5. s \notin run[r].todo
    BY <1>1, <2>3, <2>4 DEF Active, Ended
  <2>6. QED
    BY <1>2, <1>3, <1>8, <2>3, <2>5 DEF Works, RetentionSteps
<1>9. ASSUME NEW r \in Runs, Works(r), ~Detect(r), ~Respond(r), ~RespondExpired(r)
      PROVE  run[r].todo = {} /\ conv' = conv
  <2>1. CASE AccountSteps(r) /\ UNCHANGED retentionVars
    <3>1. run[r].pc \in {"login", "register"}
      BY <2>1 DEF AccountSteps, LoginOk, LoginRejected, RegisterOk, RegisterExists
    <3>2. QED
      BY <2>1, <3>1, Found DEF NothingToDo, retentionVars
  <2>2. CASE RetentionSteps(r)
    <3>1. conv' = conv
      BY <1>9, <2>2 DEF RetentionSteps, Middle, ReadRows, PostRow, ListActions, Review,
                  ReviewPasses, Outcome, OutcomeExpired, OutcomeMissed, Finish, retentionVars
    <3>2. run[r].pc \in {"middle", "rows", "post", "review", "outcome"} \/ run[r].todo = {}
      BY <1>9, <2>2 DEF RetentionSteps, Middle, ReadRows, PostRow, ListActions, Review,
                  ReviewPasses, Outcome, OutcomeExpired, OutcomeMissed, Finish, Working
    <3>3. QED
      BY <3>1, <3>2, Found DEF NothingToDo
  <2>3. QED
    BY <1>9, <2>1, <2>2 DEF Works
<1>10. QED
  BY <1>4, <1>5, <1>6, <1>7, <1>8, <1>9 DEF Next

\* A conversation is forgotten only by a step that goes wrong (seed_demo_full.py:509-527): a
\* run that works does not drop one, whatever the other runs do.
THEOREM OnlyFaultsForget == Spec => ForgottenByFault
<1>1. SessionsOK /\ [Next]_vars =>
          [Forgotten' \subseteq Forgotten \/ \E r \in Runs : Fault(r) \/ RespondExpired(r)]_vars
  BY ForgottenStep
<1>2. QED
  BY <1>1, SessionsAlways, PTL DEF Spec, ForgottenByFault
=============================================================================

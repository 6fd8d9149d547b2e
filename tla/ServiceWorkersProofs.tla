------------------------ MODULE ServiceWorkersProofs ------------------------
(***************************************************************************)
(* Proofs about ServiceWorkers, for every number of pids and workers,      *)
(* every release and configuration, and every bound.                       *)
(***************************************************************************)
EXTENDS ServiceWorkers, SequenceTheorems, FiniteSetTheorems, WellFoundedInduction, TLAPS

-----------------------------------------------------------------------------
(* Sums over the files of a directory.  SumFunction is a fold, that is, a  *)
(* recursive function on sets: it exists, and induction on the size of a   *)
(* set says what it returns.                                               *)

LEMMA LeastElement ==
    ASSUME NEW T \in SUBSET Nat, T # {}
    PROVE  \E m \in T : \A k \in T : m <= k
<1> DEFINE R == {ss \in Nat \X Nat : ss[1] < ss[2]}
<1>1. OpToRel(<, Nat) = R
  BY DEF OpToRel
<1>2. IsWellFoundedOn(R, Nat)
  BY <1>1, NatLessThanWellFounded
<1>3. PICK m \in T : \A k \in T : ~(<<k, m>> \in R)
  BY <1>2, WFMin
<1>4. \A k \in T : ~(k < m) /\ k \in Nat /\ m \in Nat
  BY <1>3
<1>5. QED
  BY <1>4

\* A family of sets of pids that holds {} and, with what is left without any one pid,
\* the whole, holds all of them.
LEMMA EverySubset ==
    ASSUME NEW Good, {} \in Good,
           \A T \in SUBSET Pids : T # {} /\ (\A x \in T : T \ {x} \in Good) => T \in Good
    PROVE  SUBSET Pids \subseteq Good
<1> DEFINE Sizes == {Cardinality(T) : T \in (SUBSET Pids) \ Good}
<1>1. \A T \in SUBSET Pids : IsFiniteSet(T) /\ Cardinality(T) \in Nat
  BY ConstantsAssumption, FS_Subset, FS_CardinalityType
<1>2. SUFFICES ASSUME Sizes # {} PROVE FALSE
  OBVIOUS
<1>3. PICK m \in Sizes : \A k \in Sizes : m <= k
  <2>1. Sizes \in SUBSET Nat
    BY <1>1
  <2> HIDE DEF Sizes
  <2>2. QED
    BY <1>2, <2>1, LeastElement
<1>4. PICK T \in (SUBSET Pids) \ Good : Cardinality(T) = m
  OBVIOUS
<1>5. ASSUME NEW x \in T PROVE T \ {x} \in Good
  <2>1. Cardinality(T \ {x}) = Cardinality(T) - 1
    BY <1>1, FS_RemoveElement
  <2>2. T \ {x} \in SUBSET Pids
    OBVIOUS
  <2>3. CASE T \ {x} \notin Good
    <3>1. Cardinality(T \ {x}) \in Sizes
      BY <2>2, <2>3
    <3>2. m <= Cardinality(T \ {x})
      BY <1>3, <3>1
    <3>3. QED
      BY <1>1, <1>4, <2>1, <3>2
  <2>4. QED
    BY <2>3
<1>6. QED
  BY <1>5

\* One element of a set, the one SumFunction takes first.
One(s) == CHOOSE x \in s : TRUE
Step(f, s, it) == IF s = {} THEN 0 ELSE f[One(s)] + it[s \ {One(s)}]
SumOver(f) == CHOOSE it : it = [s \in SUBSET Pids |-> Step(f, s, it)]

LEMMA TotalUnfolds ==
    ASSUME NEW f, DOMAIN f = Pids
    PROVE  Total(f) = SumOver(f)[Pids]
<1>1. SumFunctionOnSet(f, Pids) = SumOver(f)[Pids]
  BY DEF SumFunctionOnSet, FoldFunctionOnSet, MapThenFoldSet, SumOver, Step, One
<1>2. QED
  BY <1>1 DEF Total, SumFunction

LEMMA SumExists ==
    ASSUME NEW f
    PROVE  \E it : it = [s \in SUBSET Pids |-> Step(f, s, it)]
<1> DEFINE Small(n) == {s \in SUBSET Pids : Cardinality(s) <= n}
           Solves(it, n) == it = [s \in Small(n) |-> Step(f, s, it)]
           Bad == {n \in Nat : \A it : ~Solves(it, n)}
<1>1. \A s \in SUBSET Pids : IsFiniteSet(s) /\ Cardinality(s) \in Nat
  BY ConstantsAssumption, FS_Subset, FS_CardinalityType
<1>2. Bad = {}
  <2>1. SUFFICES ASSUME Bad # {} PROVE FALSE
    OBVIOUS
  <2>2. PICK n \in Bad : \A k \in Bad : n <= k
    <3>1. Bad \in SUBSET Nat
      OBVIOUS
    <3> HIDE DEF Bad
    <3>2. QED
      BY <2>1, <3>1, LeastElement
  <2>3. n \in Nat /\ \A it : ~Solves(it, n)
    OBVIOUS
  <2>4. CASE n = 0
    <3> DEFINE g == [s \in Small(n) |-> 0]
    <3>1. \A s \in Small(n) : s = {}
      BY <1>1, <2>4, FS_EmptySet
    <3>2. \A s \in Small(n) : Step(f, s, g) = 0
      BY <3>1 DEF Step
    <3> HIDE DEF Small
    <3>3. Solves(g, n)
      BY <3>2
    <3>4. QED
      BY <2>3, <3>3
  <2>5. CASE n # 0
    <3>1. n - 1 \in Nat /\ n - 1 \notin Bad
      BY <2>2, <2>3, <2>5
    <3>2. PICK g : Solves(g, n - 1)
      BY <3>1
    <3> DEFINE h == [s \in Small(n) |-> Step(f, s, g)]
    <3>3. ASSUME NEW s \in Small(n), s # {}
          PROVE  s \ {One(s)} \in Small(n - 1) /\ s \ {One(s)} \in Small(n)
      <4>1. One(s) \in s
        BY <3>3 DEF One
      <4>2. Cardinality(s \ {One(s)}) = Cardinality(s) - 1 /\ s \ {One(s)} \in SUBSET Pids
        BY <1>1, <4>1, FS_RemoveElement
      <4>3. QED
        BY <1>1, <2>3, <4>2
    <3>4. \A s \in Small(n - 1) : s \in Small(n)
      BY <1>1, <2>3
    <3> HIDE DEF Small
    <3>5. \A s \in Small(n - 1) : h[s] = g[s]
      BY <3>2, <3>4
    <3>6. ASSUME NEW s \in Small(n) PROVE Step(f, s, g) = Step(f, s, h)
      <4>1. CASE s = {}
        BY <4>1 DEF Step
      <4>2. CASE s # {}
        <5>1. h[s \ {One(s)}] = g[s \ {One(s)}]
          BY <3>3, <3>5, <4>2
        <5> HIDE DEF h
        <5>2. QED
          BY <4>2, <5>1 DEF Step
      <4>3. QED
        BY <4>1, <4>2
    <3>7. Solves(h, n)
      BY <3>6, Zenon
    <3>8. QED
      BY <2>3, <3>7
  <2>6. QED
    BY <2>4, <2>5
<1>3. Cardinality(Pids) \in Nat
  BY <1>1
<1>4. PICK it : Solves(it, Cardinality(Pids))
  BY <1>2, <1>3
<1>5. Small(Cardinality(Pids)) = SUBSET Pids
  BY ConstantsAssumption, FS_Subset
<1>6. QED
  BY <1>4, <1>5

LEMMA SumSteps ==
    ASSUME NEW f, NEW T \in SUBSET Pids
    PROVE  SumOver(f)[T] = IF T = {} THEN 0 ELSE f[One(T)] + SumOver(f)[T \ {One(T)}]
<1> DEFINE it == SumOver(f)
<1>1. it = [s \in SUBSET Pids |-> Step(f, s, it)]
  BY SumExists DEF SumOver
<1> HIDE DEF it
<1>2. it[T] = Step(f, T, it)
  BY <1>1
<1>3. QED
  BY <1>2 DEF it, Step

LEMMA SumType ==
    ASSUME NEW f \in [Pids -> Nat], NEW T \in SUBSET Pids
    PROVE  SumOver(f)[T] \in Nat
<1> DEFINE Good == {S \in SUBSET Pids : SumOver(f)[S] \in Nat}
<1>0. SumOver(f)[{}] = 0
  BY SumSteps
<1>1. {} \in Good
  BY <1>0
<1>2. ASSUME NEW S \in SUBSET Pids, S # {}, \A x \in S : S \ {x} \in Good
      PROVE  S \in Good
  <2>1. One(S) \in S
    BY <1>2 DEF One
  <2>2. SumOver(f)[S] = f[One(S)] + SumOver(f)[S \ {One(S)}]
    BY <1>2, SumSteps
  <2>3. f[One(S)] \in Nat /\ SumOver(f)[S \ {One(S)}] \in Nat
    BY <1>2, <2>1
  <2>4. QED
    BY <2>2, <2>3
<1> HIDE DEF Good
<1>3. SUBSET Pids \subseteq Good
  BY <1>1, <1>2, EverySubset
<1>4. QED
  BY <1>3 DEF Good

\* The order does not matter: any element may be taken first.
LEMMA SumTake ==
    ASSUME NEW f \in [Pids -> Nat], NEW T \in SUBSET Pids, NEW q \in T
    PROVE  SumOver(f)[T] = f[q] + SumOver(f)[T \ {q}]
<1> DEFINE Good == {S \in SUBSET Pids :
                      \A x \in S : SumOver(f)[S] = f[x] + SumOver(f)[S \ {x}]}
<1>1. {} \in Good
  OBVIOUS
<1>2. ASSUME NEW S \in SUBSET Pids, S # {}, \A x \in S : S \ {x} \in Good
      PROVE  S \in Good
  <2> SUFFICES ASSUME NEW x \in S
               PROVE  SumOver(f)[S] = f[x] + SumOver(f)[S \ {x}]
    OBVIOUS
  <2> DEFINE c == One(S)
  <2>1. c \in S
    BY <1>2 DEF One
  <2>2. SumOver(f)[S] = f[c] + SumOver(f)[S \ {c}]
    BY <1>2, SumSteps
  <2> HIDE DEF c
  <2>3. CASE x = c
    BY <2>2, <2>3
  <2>4. CASE x # c
    <3>1. x \in S \ {c} /\ c \in S \ {x} /\ (S \ {c}) \ {x} = (S \ {x}) \ {c}
      BY <2>1, <2>4
    <3>2. SumOver(f)[S \ {c}] = f[x] + SumOver(f)[(S \ {c}) \ {x}]
      BY <1>2, <2>1, <3>1
    <3>3. SumOver(f)[S \ {x}] = f[c] + SumOver(f)[(S \ {x}) \ {c}]
      BY <1>2, <3>1
    <3>4. f[x] \in Nat /\ f[c] \in Nat /\ SumOver(f)[(S \ {x}) \ {c}] \in Nat
      BY <2>1, SumType
    <3>5. SumOver(f)[S \ {c}] = f[x] + SumOver(f)[(S \ {x}) \ {c}]
      BY <3>1, <3>2
    <3> DEFINE rest == SumOver(f)[(S \ {x}) \ {c}]
    <3>6. f[x] \in Nat /\ f[c] \in Nat /\ rest \in Nat
      BY <3>4
    <3>7. SumOver(f)[S] = f[c] + (f[x] + rest) /\ SumOver(f)[S \ {x}] = f[c] + rest
      BY <2>2, <3>3, <3>5
    <3> HIDE DEF rest
    <3>8. QED
      BY <3>6, <3>7
  <2>5. QED
    BY <2>3, <2>4
<1>3. SUBSET Pids \subseteq Good
  <2> HIDE DEF Good
  <2>1. QED
    BY <1>1, <1>2, EverySubset
<1>4. QED
  BY <1>3

LEMMA SumSame ==
    ASSUME NEW f \in [Pids -> Nat], NEW g \in [Pids -> Nat], NEW T \in SUBSET Pids,
           \A x \in T : f[x] = g[x]
    PROVE  SumOver(f)[T] = SumOver(g)[T]
<1> DEFINE Good == {S \in SUBSET Pids : S \subseteq T => SumOver(f)[S] = SumOver(g)[S]}
<1>1. {} \in Good
  BY SumSteps
<1>2. ASSUME NEW S \in SUBSET Pids, S # {}, \A x \in S : S \ {x} \in Good
      PROVE  S \in Good
  <2> SUFFICES ASSUME S \subseteq T
               PROVE  SumOver(f)[S] = SumOver(g)[S]
    OBVIOUS
  <2> DEFINE c == One(S)
  <2>1. c \in S
    BY <1>2 DEF One
  <2>2. /\ SumOver(f)[S] = f[c] + SumOver(f)[S \ {c}]
        /\ SumOver(g)[S] = g[c] + SumOver(g)[S \ {c}]
    BY <1>2, SumSteps
  <2> HIDE DEF c
  <2>3. SumOver(f)[S \ {c}] = SumOver(g)[S \ {c}]
    BY <1>2, <2>1
  <2>4. QED
    BY <2>1, <2>2, <2>3
<1>3. SUBSET Pids \subseteq Good
  <2> HIDE DEF Good
  <2>1. QED
    BY <1>1, <1>2, EverySubset
<1>4. QED
  BY <1>3

LEMMA TotalTake ==
    ASSUME NEW f \in [Pids -> Nat], NEW g \in [Pids -> Nat], NEW p \in Pids,
           NEW T \in SUBSET Pids, p \in T,
           g[p] = f[p] + 1, \A q \in Pids \ {p} : g[q] = f[q]
    PROVE  SumOver(g)[T] = SumOver(f)[T] + 1
<1>1. /\ SumOver(f)[T] = f[p] + SumOver(f)[T \ {p}]
      /\ SumOver(g)[T] = g[p] + SumOver(g)[T \ {p}]
  BY SumTake
<1>2. SumOver(f)[T \ {p}] = SumOver(g)[T \ {p}]
  BY SumSame
<1>3. SumOver(f)[T \ {p}] \in Nat /\ f[p] \in Nat
  BY SumType
<1>4. QED
  BY <1>1, <1>2, <1>3

-----------------------------------------------------------------------------
(* What holds of every state, beside the types *)

\* Without a master there is no process and no scrape.
Stopped ==
    master # "up" => scrape = NoScrape /\ \A p \in Pids : proc[p] = "free"

\* What is in memory goes with the process.
Volatile ==
    \A p \in Pids : ~Alive(p) => handles[p] = <<>> /\ key[p] = Unread

\* A request in progress is in the file of its process.
Busy ==
    \A p \in Pids : proc[p] \in {"accepted", "counted"} => inprog[p] > 0

\* The newest of the times in the files is the time of the last request.
NewestKnown ==
    /\ \E p \in Pids : lastrun[p] = latest
    /\ \A p \in Pids : lastrun[p] <= latest

StateOK == TypeOK /\ Stopped /\ Volatile /\ Busy /\ NewestKnown

LEMMA PidsKnown == IsFiniteSet(Pids) /\ Pids # {}
<1>1. IsFiniteSet(Pids) /\ Workers \in 1..Cardinality(Pids)
  BY ConstantsAssumption
<1>2. CASE Pids = {}
  <2>1. Cardinality(Pids) = 0
    BY <1>2, FS_EmptySet
  <2>2. QED
    BY <1>1, <2>1
<1>3. QED
  BY <1>1, <1>2

\* Of bounded values, Newest is one, and the greatest.
LEMMA NewestIsGreatest ==
    ASSUME NEW f \in [Pids -> Nat], NEW n \in Nat, \A p \in Pids : f[p] <= n
    PROVE  /\ Newest(f) \in Nat
           /\ \E p \in Pids : f[p] = Newest(f)
           /\ \A p \in Pids : f[p] <= Newest(f)
<1> DEFINE T == {n - f[p] : p \in Pids}
<1>1. T \in SUBSET Nat /\ T # {}
  BY PidsKnown
<1>2. PICK m \in T : \A k \in T : m <= k
  <2> HIDE DEF T
  <2>1. QED
    BY <1>1, LeastElement
<1>3. PICK p \in Pids : m = n - f[p]
  BY <1>2
<1>4. \A q \in Pids : f[p] >= f[q]
  <2> SUFFICES ASSUME NEW q \in Pids PROVE f[p] >= f[q]
    OBVIOUS
  <2>1. n - f[q] \in T
    OBVIOUS
  <2>2. n - f[p] <= n - f[q]
    BY <1>2, <1>3, <2>1
  <2>3. f[p] \in Nat /\ f[q] \in Nat
    OBVIOUS
  <2>4. QED
    BY <2>2, <2>3
<1>5. f[p] \in Range(f) /\ \A y \in Range(f) : f[p] >= y
  BY <1>4 DEF Range
<1>6. Newest(f) \in Range(f) /\ \A y \in Range(f) : Newest(f) >= y
  BY <1>5 DEF Newest, Max
<1>7. QED
  BY <1>6 DEF Range

LEMMA NothingHeld == \A S : <<>> \in [{} -> S]
BY EmptySeq

LEMMA StateInit == Init => StateOK
<1> SUFFICES ASSUME Init PROVE StateOK
  OBVIOUS
<1>1. TypeOK
  <2>1. <<>> \in Holdings
    BY NothingHeld DEF Holdings
  <2>2. QED
    BY <2>1 DEF Init, TypeOK, Phases, NoScrape
<1>2. Stopped /\ Volatile /\ Busy
  BY DEF Init, Stopped, Volatile, Busy, Alive
<1>3. NewestKnown
  BY PidsKnown DEF Init, NewestKnown
<1>4. QED
  BY <1>1, <1>2, <1>3 DEF StateOK

LEMMA StateBoot ==
    ASSUME StateOK, NEW kept \in SUBSET Pids, Boot(kept)
    PROVE  StateOK'
<1> USE DEF StateOK
<1> DEFINE left(file) == [p \in Pids |-> IF p \in kept THEN file[p] ELSE 0]
<1>1. /\ counter' = left(counter) /\ inprog' = left(inprog) /\ lastrun' = left(lastrun)
      /\ events' = 0 /\ carried' = Total(left(counter)) /\ latest' = Newest(left(lastrun))
      /\ ghosts' = {p \in kept : inprog[p] > 0}
  BY DEF Boot, ResetMultiprocDir
<1>2. left(counter) \in [Pids -> Nat] /\ left(inprog) \in [Pids -> Nat]
  BY DEF TypeOK
<1>3. left(lastrun) \in [Pids -> Nat] /\ \A p \in Pids : left(lastrun)[p] <= latest
  BY DEF TypeOK, NewestKnown
<1>4. latest \in Nat
  BY DEF TypeOK
<1>5. /\ Newest(left(lastrun)) \in Nat
      /\ \E p \in Pids : left(lastrun)[p] = Newest(left(lastrun))
      /\ \A p \in Pids : left(lastrun)[p] <= Newest(left(lastrun))
  <2> HIDE DEF left
  <2>1. QED
    BY <1>3, <1>4, NewestIsGreatest
<1>6. Total(left(counter)) \in Nat
  <2>1. DOMAIN left(counter) = Pids
    OBVIOUS
  <2> HIDE DEF left
  <2>2. QED
    BY <1>2, <2>1, TotalUnfolds, SumType
<1> HIDE DEF left
<1>7. /\ master' = "up" /\ release' \in Releases /\ conf' \in Confs
      /\ keyFile' = keyFile /\ proc' = proc /\ handles' = handles /\ key' = key
      /\ seen' = seen /\ scrape' = scrape /\ \A p \in Pids : proc[p] = "free"
  BY DEF Boot, workerVars, Stopped
<1>8. handles' \in [Pids -> Holdings']
  <2>1. \A p \in Pids : handles[p] = <<>>
    BY <1>7 DEF Volatile, Alive
  <2>2. <<>> \in Holdings'
    BY NothingHeld DEF Holdings
  <2>3. QED
    BY <1>7, <2>1, <2>2 DEF TypeOK
<1>9. TypeOK'
  BY <1>1, <1>2, <1>3, <1>5, <1>6, <1>7, <1>8 DEF TypeOK
<1>10. Stopped' /\ Volatile' /\ Busy'
  BY <1>7 DEF Stopped, Volatile, Busy, Alive
<1>11. NewestKnown'
  BY <1>1, <1>5 DEF NewestKnown
<1>12. QED
  BY <1>9, <1>10, <1>11

LEMMA StateAllStop ==
    ASSUME StateOK, AllStop, master' \in {"down", "halted"},
           UNCHANGED <<release, conf, keyFile, fileVars, countVars, events, latest, carried,
                       ghosts>>
    PROVE  StateOK'
<1> USE DEF StateOK
<1>1. TypeOK'
  <2>1. <<>> \in Holdings'
    BY NothingHeld DEF Holdings
  <2>2. QED
    BY <2>1 DEF AllStop, TypeOK, fileVars, Phases, NoScrape
<1>2. Stopped' /\ Volatile' /\ Busy'
  BY DEF AllStop, Stopped, Volatile, Busy, Alive
<1>3. NewestKnown'
  BY DEF NewestKnown, fileVars
<1>4. QED
  BY <1>1, <1>2, <1>3

LEMMA StateKeyFile == StateOK /\ KeyFileChanges => StateOK'
<1> SUFFICES ASSUME StateOK, KeyFileChanges PROVE StateOK'
  OBVIOUS
<1> USE DEF StateOK
<1>1. /\ keyFile' \in Keys \cup {None}
      /\ seen' = [p \in Pids |-> IF Alive(p) THEN seen[p] \cup {keyFile'} ELSE seen[p]]
      /\ UNCHANGED <<master, release, conf, workerVars, fileVars, scrape, events, latest,
                     carried, ghosts>>
  BY DEF KeyFileChanges
<1>2. TypeOK'
  <2>1. seen' \in [Pids -> SUBSET (Keys \cup {None})]
    BY <1>1 DEF TypeOK
  <2>2. Holdings' = Holdings
    BY <1>1 DEF Holdings
  <2>3. QED
    BY <1>1, <2>1, <2>2 DEF TypeOK, workerVars, fileVars
<1>3. Stopped' /\ Volatile' /\ Busy' /\ NewestKnown'
  BY <1>1 DEF Stopped, Volatile, Busy, NewestKnown, Alive, workerVars, fileVars
<1>4. QED
  BY <1>2, <1>3

LEMMA StateFork ==
    ASSUME StateOK, NEW p \in Pids, Fork(p)
    PROVE  StateOK'
<1> USE DEF StateOK
<1>1. /\ master = "up" /\ proc' = [proc EXCEPT ![p] = "importing"]
      /\ seen' = [seen EXCEPT ![p] = {keyFile}]
      /\ UNCHANGED <<master, release, conf, keyFile, handles, key, fileVars, scrape, events,
                     latest, carried, ghosts>>
  BY DEF Fork
<1>2. TypeOK'
  <2>1. Holdings' = Holdings
    BY <1>1 DEF Holdings
  <2>2. QED
    BY <1>1, <2>1 DEF TypeOK, Phases, fileVars
<1>3. Stopped' /\ Volatile' /\ Busy' /\ NewestKnown'
  BY <1>1 DEF TypeOK, Stopped, Volatile, Busy, NewestKnown, Alive, fileVars
<1>4. QED
  BY <1>2, <1>3

LEMMA StateDie ==
    ASSUME StateOK, NEW p \in Pids, Die(p)
    PROVE  StateOK'
<1> USE DEF StateOK
<1>1. /\ Alive(p) /\ proc' = [proc EXCEPT ![p] = "zombie"]
      /\ handles' = [handles EXCEPT ![p] = <<>>] /\ key' = [key EXCEPT ![p] = Unread]
      /\ seen' = [seen EXCEPT ![p] = {}]
      /\ scrape' = IF p \in scrape.by THEN NoScrape ELSE scrape
      /\ UNCHANGED <<master, release, conf, keyFile, fileVars, events, latest, carried, ghosts>>
  BY DEF Die
<1>2. TypeOK'
  <2>1. Holdings' = Holdings /\ <<>> \in Holdings
    BY <1>1, NothingHeld DEF Holdings
  <2>2. scrape' \in [by : SUBSET Pids, left : SUBSET Pids, sum : Nat, floor : Nat]
    BY <1>1 DEF TypeOK, NoScrape
  <2>3. QED
    BY <1>1, <2>1, <2>2 DEF TypeOK, Phases, fileVars
<1>3. Stopped'
  BY <1>1 DEF Stopped, Alive
<1>4. Volatile' /\ Busy' /\ NewestKnown'
  BY <1>1 DEF TypeOK, Volatile, Busy, NewestKnown, Alive, fileVars
<1>5. QED
  BY <1>2, <1>3, <1>4

LEMMA StateReap ==
    ASSUME StateOK, NEW p \in Pids, NEW dropped \in BOOLEAN, Reap(p, dropped)
    PROVE  StateOK'
<1> USE DEF StateOK
<1>1. /\ master = "up" /\ proc[p] = "zombie" /\ proc' = [proc EXCEPT ![p] = "free"]
      /\ inprog' = [inprog EXCEPT ![p] = IF dropped THEN 0 ELSE inprog[p]]
      /\ ghosts' = IF dropped \/ inprog[p] = 0 THEN ghosts \ {p} ELSE ghosts \cup {p}
      /\ UNCHANGED <<master, release, conf, keyFile, handles, key, counter, lastrun, scrape,
                     events, latest, carried, seen>>
  BY DEF Reap
<1>2. TypeOK'
  <2>1. Holdings' = Holdings
    BY <1>1 DEF Holdings
  <2>2. inprog' \in [Pids -> Nat]
    BY <1>1 DEF TypeOK
  <2>3. QED
    BY <1>1, <2>1, <2>2 DEF TypeOK, Phases
<1>3. Stopped' /\ Volatile' /\ Busy' /\ NewestKnown'
  BY <1>1 DEF TypeOK, Stopped, Volatile, Busy, NewestKnown, Alive
<1>4. QED
  BY <1>2, <1>3

\* A factory hands out a registered collector or the one it makes.
LEMMA Handed ==
    ASSUME NEW registry, NEW d, NEW c \in GetMetric(registry, d)
    PROVE  c \in registry \/ c = Meant(d)
BY DEF GetMetric, Existing, Meant

\* What Import(p, d) leaves in memory.
LEMMA Imports ==
    ASSUME TypeOK, NEW p \in Pids, NEW d \in release, NEW c,
           c \in GetMetric(Range(handles[p]), d),
           handles' = [handles EXCEPT ![p] = [e \in DOMAIN handles[p] \cup {d} |->
                                                IF e = d THEN c ELSE handles[p][e]]]
    PROVE  /\ DOMAIN handles[p] \subseteq release
           /\ \A e \in DOMAIN handles[p] : handles[p][e] \in {Meant(x) : x \in release}
           /\ c \in {Meant(x) : x \in release}
           /\ handles' \in [Pids -> Holdings]
           /\ DOMAIN handles'[p] = DOMAIN handles[p] \cup {d}
           /\ \A e \in DOMAIN handles'[p] : handles'[p][e] = IF e = d THEN c ELSE handles[p][e]
           /\ \A q \in Pids \ {p} : handles'[q] = handles[q]
<1> DEFINE made == {Meant(x) : x \in release}
<1>1. handles \in [Pids -> Holdings]
  BY DEF TypeOK
<1>2. PICK D \in SUBSET release : handles[p] \in [D -> made]
  BY <1>1 DEF Holdings
<1>3. Meant(d) \in made
  OBVIOUS
<1>4. c \in made
  <2> HIDE DEF made
  <2>1. c \in Range(handles[p]) \/ c = Meant(d)
    BY Handed
  <2>2. QED
    BY <1>2, <1>3, <2>1 DEF Range
<1> HIDE DEF made
<1> DEFINE h == [e \in D \cup {d} |-> IF e = d THEN c ELSE handles[p][e]]
<1>5. h \in [D \cup {d} -> made] /\ D \cup {d} \in SUBSET release
  BY <1>2, <1>4
<1>6. h \in Holdings
  BY <1>5 DEF Holdings, made
<1>7. handles' = [handles EXCEPT ![p] = h]
  BY <1>2
<1>8. DOMAIN h = D \cup {d} /\ \A e \in D \cup {d} : h[e] = IF e = d THEN c ELSE handles[p][e]
  OBVIOUS
<1> HIDE DEF h
<1>9. /\ handles' \in [Pids -> Holdings] /\ handles'[p] = h
      /\ \A q \in Pids \ {p} : handles'[q] = handles[q]
  BY <1>1, <1>6, <1>7
<1>10. QED
  BY <1>2, <1>4, <1>8, <1>9 DEF made

LEMMA StateImport ==
    ASSUME StateOK, NEW p \in Pids, NEW d \in release, Import(p, d)
    PROVE  StateOK'
<1> USE DEF StateOK
<1>1. PICK c \in GetMetric(Range(handles[p]), d) :
           handles' = [handles EXCEPT ![p] = [e \in DOMAIN handles[p] \cup {d} |->
                                                IF e = d THEN c ELSE handles[p][e]]]
  BY DEF Import
<1>2. /\ proc[p] = "importing"
      /\ UNCHANGED <<master, release, conf, keyFile, proc, key, fileVars, scrape, historyVars>>
  BY DEF Import
<1>3. /\ handles' \in [Pids -> Holdings]
      /\ \A q \in Pids \ {p} : handles'[q] = handles[q]
  BY <1>1, Imports
<1>4. Holdings' = Holdings
  BY <1>2 DEF Holdings
<1>5. TypeOK'
  BY <1>2, <1>3, <1>4 DEF TypeOK, fileVars, historyVars
<1>6. Stopped' /\ Volatile' /\ Busy' /\ NewestKnown'
  BY <1>2, <1>3 DEF Stopped, Volatile, Busy, NewestKnown, Alive, fileVars, historyVars
<1>7. QED
  BY <1>5, <1>6

LEMMA ResolvedType == TypeOK => ResolvePublicKey(conf, keyFile) \in Keys \cup {None}
BY ConstantsAssumption DEF TypeOK, ResolvePublicKey

LEMMA CachedType ==
    ASSUME TypeOK, NEW p \in Pids
    PROVE  CachedKey(p) \in Keys \cup {None}
BY ResolvedType DEF TypeOK, CachedKey

\* The steps that leave files and scrapes alone.
LEMMA StateRequest ==
    ASSUME StateOK, NEW p \in Pids, NEW k \in Keys, Accept(p, k) \/ Reject(p, k)
    PROVE  StateOK'
<1> USE DEF StateOK
<1>1. key' = [key EXCEPT ![p] = CachedKey(p)] /\ CachedKey(p) \in Keys \cup {None}
  BY CachedType DEF Accept, Reject
<1>2. /\ proc[p] = "serving" /\ proc' \in {proc, [proc EXCEPT ![p] = "accepted"]}
      /\ inprog' = IF proc' = proc THEN inprog ELSE [inprog EXCEPT ![p] = inprog[p] + 1]
      /\ UNCHANGED <<master, release, conf, keyFile, handles, counter, lastrun, scrape,
                     historyVars>>
  BY DEF Accept, Reject, TypeOK, fileVars
<1>3. TypeOK'
  <2>1. Holdings' = Holdings
    BY <1>2 DEF Holdings
  <2>2. inprog' \in [Pids -> Nat] /\ proc' \in [Pids -> Phases]
    BY <1>2 DEF TypeOK, Phases
  <2>3. QED
    BY <1>1, <1>2, <2>1, <2>2 DEF TypeOK, historyVars
<1>4. Stopped' /\ Volatile' /\ Busy' /\ NewestKnown'
  BY <1>1, <1>2 DEF TypeOK, Stopped, Volatile, Busy, NewestKnown, Alive, historyVars
<1>5. QED
  BY <1>3, <1>4

LEMMA StateCount ==
    ASSUME StateOK, NEW p \in Pids, CountRequest(p)
    PROVE  StateOK'
<1> USE DEF StateOK
<1>1. /\ proc[p] = "accepted" /\ proc' = [proc EXCEPT ![p] = "counted"]
      /\ counter' = [counter EXCEPT ![p] = counter[p] + 1] /\ events' = events + 1
      /\ UNCHANGED <<master, release, conf, keyFile, handles, key, inprog, lastrun, scrape,
                     latest, carried, ghosts, seen>>
  BY DEF CountRequest
<1>2. TypeOK'
  <2>1. Holdings' = Holdings
    BY <1>1 DEF Holdings
  <2>2. counter' \in [Pids -> Nat] /\ proc' \in [Pids -> Phases]
    BY <1>1 DEF TypeOK, Phases
  <2>3. QED
    BY <1>1, <2>1, <2>2 DEF TypeOK
<1>3. Stopped' /\ Volatile' /\ Busy' /\ NewestKnown'
  BY <1>1 DEF TypeOK, Stopped, Volatile, Busy, NewestKnown, Alive
<1>4. QED
  BY <1>2, <1>3

LEMMA StateFinish ==
    ASSUME StateOK, NEW p \in Pids, Finish(p)
    PROVE  StateOK'
<1> USE DEF StateOK
<1>1. /\ proc[p] = "counted" /\ proc' = [proc EXCEPT ![p] = "serving"]
      /\ inprog' = [inprog EXCEPT ![p] = inprog[p] - 1]
      /\ latest' = latest + 1 /\ lastrun' = [lastrun EXCEPT ![p] = latest + 1]
      /\ UNCHANGED <<master, release, conf, keyFile, handles, key, counter, scrape,
                     events, carried, ghosts, seen>>
  BY DEF Finish
<1>2. TypeOK'
  <2>1. Holdings' = Holdings
    BY <1>1 DEF Holdings
  <2>2. inprog' \in [Pids -> Nat]
    <3>1. inprog[p] \in Nat /\ inprog[p] > 0
      BY <1>1 DEF Busy, TypeOK
    <3>2. QED
      BY <1>1, <3>1 DEF TypeOK
  <2>3. lastrun' \in [Pids -> Nat] /\ proc' \in [Pids -> Phases]
    BY <1>1 DEF TypeOK, Phases
  <2>4. QED
    BY <1>1, <2>1, <2>2, <2>3 DEF TypeOK
<1>3. Stopped' /\ Volatile' /\ Busy'
  BY <1>1 DEF TypeOK, Stopped, Volatile, Busy, Alive
<1>4. NewestKnown'
  <2>1. /\ latest \in Nat /\ lastrun' \in [Pids -> Nat] /\ lastrun'[p] = latest'
        /\ \A q \in Pids \ {p} : lastrun'[q] = lastrun[q]
    BY <1>1, <1>2 DEF TypeOK
  <2>2. \A q \in Pids : lastrun[q] <= latest /\ lastrun[q] \in Nat
    BY DEF NewestKnown, TypeOK
  <2>3. QED
    BY <1>1, <2>1, <2>2 DEF NewestKnown
<1>5. QED
  BY <1>2, <1>3, <1>4

LEMMA StateOther ==
    ASSUME StateOK, NEW p \in Pids,
           Imported(p) \/ ScrapeStarts(p) \/ ScrapeReads(p) \/ ScrapeEnds(p)
    PROVE  StateOK'
<1> USE DEF StateOK
<1>1. /\ proc' = proc \/ \E phase \in {"serving", "scraping"} :
                            proc' = [proc EXCEPT ![p] = phase] /\ Alive(p)
      /\ UNCHANGED <<master, release, conf, keyFile, handles, key, fileVars, historyVars>>
  BY DEF Imported, ScrapeStarts, ScrapeReads, ScrapeEnds, Alive, workerVars
<1>2. scrape' \in [by : SUBSET Pids, left : SUBSET Pids, sum : Nat, floor : Nat]
  <2>1. CASE ScrapeStarts(p)
    <3>1. /\ events + carried \in Nat
          /\ scrape' = [by |-> {p}, left |-> {q \in Pids : counter[q] > 0}, sum |-> 0,
                        floor |-> events + carried]
      BY <2>1 DEF TypeOK, ScrapeStarts
    <3>2. QED
      BY <3>1
  <2>2. CASE ScrapeReads(p)
    <3>1. /\ scrape \in [by : SUBSET Pids, left : SUBSET Pids, sum : Nat, floor : Nat]
          /\ counter[p] \in Nat
      BY DEF TypeOK
    <3>2. scrape' = [scrape EXCEPT !.left = scrape.left \ {p}, !.sum = scrape.sum + counter[p]]
      BY <2>2 DEF ScrapeReads
    <3>3. scrape.sum + counter[p] \in Nat /\ scrape.left \ {p} \in SUBSET Pids
      BY <3>1
    <3>4. QED
      BY <3>1, <3>2, <3>3
  <2>3. CASE Imported(p) \/ ScrapeEnds(p)
    BY <2>3 DEF TypeOK, Imported, ScrapeEnds, NoScrape
  <2>4. QED
    BY <2>1, <2>2, <2>3
<1>3. TypeOK'
  <2>1. Holdings' = Holdings
    BY <1>1 DEF Holdings
  <2>2. proc' \in [Pids -> Phases]
    BY <1>1 DEF TypeOK, Phases
  <2>3. QED
    BY <1>1, <1>2, <2>1, <2>2 DEF TypeOK, fileVars, historyVars
<1>4. Stopped'
  <2>1. CASE master # "up"
    <3>1. scrape = NoScrape /\ \A q \in Pids : proc[q] = "free"
      BY <2>1 DEF Stopped
    <3>2. scrape.left = {}
      BY <3>1 DEF NoScrape
    <3>3. QED
      BY <3>1, <3>2 DEF Imported, ScrapeStarts, ScrapeReads, ScrapeEnds
  <2>2. QED
    BY <1>1, <2>1 DEF Stopped
<1>5. Volatile' /\ Busy' /\ NewestKnown'
  BY <1>1 DEF TypeOK, Volatile, Busy, NewestKnown, Alive, fileVars, historyVars
<1>6. QED
  BY <1>3, <1>4, <1>5

LEMMA StateStep == StateOK /\ [Next]_vars => StateOK'
<1> SUFFICES ASSUME StateOK, [Next]_vars PROVE StateOK'
  OBVIOUS
<1>1. CASE UNCHANGED vars
  BY <1>1 DEF StateOK, TypeOK, Holdings, Stopped, Volatile, Busy, NewestKnown, Alive, vars,
              workerVars, fileVars, historyVars
<1>2. ASSUME NEW p \in Pids, NEW d \in release, ImportRaises(p, d)
      PROVE  StateOK'
  BY <1>2, StateAllStop DEF ImportRaises
<1>3. CASE MasterDies
  BY <1>3, StateAllStop DEF MasterDies
<1>4. QED
  BY <1>1, <1>2, <1>3, StateBoot, StateKeyFile, StateFork, StateDie, StateReap, StateImport,
     StateRequest, StateCount, StateFinish, StateOther
  DEF Next, MasterSteps, WorkerSteps

LEMMA StateAlways == Spec => []StateOK
<1>1. Init => StateOK
  BY StateInit
<1>2. StateOK /\ [Next]_vars => StateOK'
  BY StateStep
<1>3. QED
  BY <1>1, <1>2, PTL DEF Spec

\* Masters, workers, metric files and caches (gunicorn.conf.py, observability.py, conf.py)
\* keep the types the module gives them; no file ever shows a negative count.
THEOREM TypeCorrect == Spec => []TypeOK
<1>1. StateOK => TypeOK
  BY DEF StateOK
<1>2. QED
  BY <1>1, StateAlways, PTL

-----------------------------------------------------------------------------
(* The "livesum" files *)

LEMMA GhostsInit == Init => NoGhosts
BY DEF Init, NoGhosts

LEMMA GhostsStep == StateOK /\ NoGhosts /\ [Next]_vars => NoGhosts'
<1> SUFFICES ASSUME StateOK, NoGhosts, [Next]_vars PROVE NoGhosts'
  OBVIOUS
<1>t. /\ proc \in [Pids -> Phases] /\ inprog \in [Pids -> Nat]
      /\ \A p \in Pids : inprog[p] \in Nat
  BY DEF StateOK, TypeOK
<1>1. ASSUME NEW kept \in SUBSET Pids, Boot(kept)
      PROVE  NoGhosts'
  <2>1. /\ inprog' = [p \in Pids |-> IF p \in kept THEN inprog[p] ELSE 0]
        /\ ghosts' = {p \in kept : inprog[p] > 0}
    BY <1>1 DEF Boot, ResetMultiprocDir
  <2>2. \A p \in Pids \ ghosts' : inprog'[p] = 0
    BY <1>t, <2>1
  <2>3. QED
    BY <2>2 DEF NoGhosts
<1>2. ASSUME NEW p \in Pids, Reap(p, FALSE) \/ Reap(p, TRUE)
      PROVE  NoGhosts'
  <2>1. /\ master = "up" /\ proc[p] = "zombie" /\ proc' = [proc EXCEPT ![p] = "free"]
        /\ inprog' \in {inprog, [inprog EXCEPT ![p] = 0]}
        /\ \/ ghosts' = ghosts \ {p} /\ inprog'[p] = 0
           \/ ghosts' = ghosts \cup {p}
    BY <1>t, <1>2 DEF Reap
  <2>2. \A q \in Pids \ {p} : inprog'[q] = inprog[q] /\ proc'[q] = proc[q]
    BY <1>t, <2>1
  <2>3. QED
    BY <1>t, <2>1, <2>2 DEF NoGhosts
<1>3. ASSUME NEW p \in Pids, NEW k \in Keys, Accept(p, k)
      PROVE  NoGhosts'
  BY <1>t, <1>3 DEF NoGhosts, Accept, historyVars
<1>4. ASSUME NEW p \in Pids, Finish(p)
      PROVE  NoGhosts'
  BY <1>t, <1>4 DEF NoGhosts, Finish
<1>5. ASSUME NEW p \in Pids,
             Fork(p) \/ Die(p) \/ Imported(p) \/ CountRequest(p) \/ ScrapeStarts(p)
               \/ ScrapeEnds(p)
      PROVE  NoGhosts'
  <2>1. /\ master' = master /\ inprog' = inprog /\ ghosts' = ghosts
        /\ \E phase : /\ proc' = [proc EXCEPT ![p] = phase]
                      /\ proc[p] \in {"accepted", "counted", "zombie"}
                           => phase \in {"accepted", "counted", "zombie"}
    BY <1>t, <1>5 DEF Fork, Die, Imported, CountRequest, ScrapeStarts, ScrapeEnds, fileVars,
                    historyVars
  <2>2. QED
    BY <1>t, <2>1 DEF NoGhosts
<1>6. ASSUME NEW p \in Pids, ScrapeReads(p) \/ \E d \in release : Import(p, d)
      PROVE  NoGhosts'
  BY <1>6 DEF NoGhosts, ScrapeReads, Import, workerVars, fileVars, historyVars
<1>7. ASSUME NEW p \in Pids, NEW k \in Keys, Reject(p, k)
      PROVE  NoGhosts'
  BY <1>7 DEF NoGhosts, Reject, fileVars, historyVars
<1>8. ASSUME NEW p \in Pids, NEW d \in release, ImportRaises(p, d)
      PROVE  NoGhosts'
  BY <1>8 DEF NoGhosts, ImportRaises
<1>9. CASE MasterDies \/ KeyFileChanges \/ UNCHANGED vars
  BY <1>9 DEF NoGhosts, MasterDies, KeyFileChanges, vars, workerVars, fileVars, historyVars
<1>10. QED
  BY <1>1, <1>2, <1>3, <1>4, <1>5, <1>6, <1>7, <1>8, <1>9
  DEF Next, MasterSteps, WorkerSteps

\* A "livesum" file shows the requests in progress in its own process and none once that is
\* reaped, but for files that could not be dropped (gunicorn.conf.py:46-53), whatever
\* the deaths, the pids used again and the boots over an old directory.
THEOREM OnlyLiveProcesses == Spec => []NoGhosts
<1>1. Init => NoGhosts
  BY GhostsInit
<1>2. StateOK /\ NoGhosts /\ [Next]_vars => NoGhosts'
  BY GhostsStep
<1>3. QED
  BY <1>1, <1>2, StateAlways, PTL DEF Spec

-----------------------------------------------------------------------------
(* The cached static key *)

\* A process that lives has seen the present content of the key file.
KeyFileSeen == \A p \in Pids : Alive(p) => keyFile \in seen[p]

LEMMA KeyInit == Init => KeyFileSeen /\ KeyReadInLife
BY DEF Init, KeyFileSeen, KeyReadInLife, Alive

LEMMA KeyStep ==
    StateOK /\ KeyFileSeen /\ KeyReadInLife /\ [Next]_vars => (KeyFileSeen /\ KeyReadInLife)'
<1> SUFFICES ASSUME StateOK, KeyFileSeen, KeyReadInLife, [Next]_vars
             PROVE  (KeyFileSeen /\ KeyReadInLife)'
  OBVIOUS
<1>t. /\ proc \in [Pids -> Phases] /\ key \in [Pids -> Keys \cup {None, Unread}]
      /\ seen \in [Pids -> SUBSET (Keys \cup {None})]
      /\ \A p \in Pids : ~Alive(p) => key[p] = Unread
  BY DEF StateOK, TypeOK, Volatile
<1>1. ASSUME NEW kept \in SUBSET Pids, Boot(kept)
      PROVE  (KeyFileSeen /\ KeyReadInLife)'
  <2>1. proc' = proc /\ key' = key /\ \A p \in Pids : ~Alive(p)
    BY <1>1 DEF Boot, workerVars, StateOK, Stopped, Alive
  <2>2. QED
    BY <1>t, <2>1 DEF KeyFileSeen, KeyReadInLife, Alive
<1>2. ASSUME NEW p \in Pids, Fork(p)
      PROVE  (KeyFileSeen /\ KeyReadInLife)'
  <2>1. /\ key' = key /\ conf' = conf /\ keyFile' = keyFile /\ key[p] = Unread
        /\ seen' = [seen EXCEPT ![p] = {keyFile}]
        /\ proc' = [proc EXCEPT ![p] = "importing"]
    BY <1>t, <1>2 DEF Fork, Alive
  <2>2. QED
    BY <1>t, <2>1 DEF KeyFileSeen, KeyReadInLife, Alive
<1>3. ASSUME NEW p \in Pids, Die(p)
      PROVE  (KeyFileSeen /\ KeyReadInLife)'
  <2>1. /\ conf' = conf /\ keyFile' = keyFile
        /\ key' = [key EXCEPT ![p] = Unread] /\ seen' = [seen EXCEPT ![p] = {}]
        /\ proc' = [proc EXCEPT ![p] = "zombie"]
    BY <1>3 DEF Die
  <2>2. QED
    BY <1>t, <2>1 DEF KeyFileSeen, KeyReadInLife, Alive
<1>4. ASSUME NEW p \in Pids, NEW k \in Keys, Accept(p, k) \/ Reject(p, k)
      PROVE  (KeyFileSeen /\ KeyReadInLife)'
  <2>1. /\ conf' = conf /\ keyFile' = keyFile /\ seen' = seen
        /\ key' = [key EXCEPT ![p] = CachedKey(p)] /\ proc[p] = "serving"
        /\ \A q \in Pids : Alive(q)' => Alive(q)
    BY <1>t, <1>4 DEF Accept, Reject, Alive, historyVars
  <2>2. keyFile \in seen[p]
    BY <2>1 DEF KeyFileSeen, Alive
  <2>3. \/ CachedKey(p) = key[p] /\ key[p] # Unread
        \/ CachedKey(p) = ResolvePublicKey(conf, keyFile)
    BY DEF CachedKey
  <2>4. KeyReadInLife'
    BY <1>t, <2>1, <2>2, <2>3 DEF KeyReadInLife
  <2>5. QED
    BY <2>1, <2>4 DEF KeyFileSeen
<1>5. CASE KeyFileChanges
  <2>1. /\ conf' = conf /\ key' = key /\ proc' = proc
        /\ seen' = [p \in Pids |-> IF Alive(p) THEN seen[p] \cup {keyFile'} ELSE seen[p]]
    BY <1>5 DEF KeyFileChanges, workerVars
  <2>2. QED
    BY <1>t, <2>1 DEF KeyFileSeen, KeyReadInLife, Alive
<1>6. CASE AllStop
  BY <1>6 DEF AllStop, KeyFileSeen, KeyReadInLife, Alive
<1>7. ASSUME NEW p \in Pids,
             \/ \E dropped \in BOOLEAN : Reap(p, dropped)
             \/ \E d \in release : Import(p, d)
             \/ Imported(p) \/ CountRequest(p) \/ Finish(p)
             \/ ScrapeStarts(p) \/ ScrapeReads(p) \/ ScrapeEnds(p)
      PROVE  (KeyFileSeen /\ KeyReadInLife)'
  <2>1. /\ conf' = conf /\ keyFile' = keyFile /\ key' = key /\ seen' = seen
        /\ \A q \in Pids : Alive(q)' => Alive(q)
    BY <1>t, <1>7 DEF Reap, Import, Imported, CountRequest, Finish, ScrapeStarts, ScrapeReads,
                    ScrapeEnds, Alive, workerVars, historyVars
  <2>2. QED
    BY <2>1 DEF KeyFileSeen, KeyReadInLife
<1>8. CASE UNCHANGED vars
  BY <1>8 DEF KeyFileSeen, KeyReadInLife, Alive, vars, workerVars, historyVars
<1>9. QED
  BY <1>1, <1>2, <1>3, <1>4, <1>5, <1>6, <1>7, <1>8
  DEF Next, MasterSteps, WorkerSteps, MasterDies, ImportRaises

\* The static key a worker remembers (lru_cache, conf.py:33) is one its configuration gave
\* at a moment of that worker's own life: nothing remembered outlives a process, although
\* pids are used again.
THEOREM KeyOfThisLife == Spec => []KeyReadInLife
<1>1. Init => KeyFileSeen /\ KeyReadInLife
  BY KeyInit
<1>2. /\ StateOK /\ KeyFileSeen /\ KeyReadInLife /\ [Next]_vars
        => (KeyFileSeen /\ KeyReadInLife)'
  BY KeyStep
<1>3. QED
  BY <1>1, <1>2, StateAlways, PTL DEF Spec

-----------------------------------------------------------------------------
(* What the directory adds up to, and what a scrape makes of it *)

LEMMA TotalIsSum ==
    ASSUME NEW f \in [Pids -> Nat]
    PROVE  Total(f) = SumOver(f)[Pids] /\ Total(f) \in Nat
<1>1. DOMAIN f = Pids
  OBVIOUS
<1>2. Total(f) = SumOver(f)[Pids]
  BY <1>1, TotalUnfolds
<1>3. SumOver(f)[Pids] \in Nat
  BY SumType
<1>4. QED
  BY <1>2, <1>3

LEMMA SumOfNone == ASSUME NEW f PROVE SumOver(f)[{}] = 0
BY SumSteps

\* Files that hold nothing may be left out.
LEMMA SumOfSome ==
    ASSUME NEW f \in [Pids -> Nat]
    PROVE  SumOver(f)[{p \in Pids : f[p] > 0}] = SumOver(f)[Pids]
<1> DEFINE Some(T) == {p \in T : f[p] > 0}
           Good == {T \in SUBSET Pids : SumOver(f)[Some(T)] = SumOver(f)[T]}
<1>1. {} \in Good
  <2>1. Some({}) = {}
    OBVIOUS
  <2>2. QED
    BY <2>1
<1>2. ASSUME NEW T \in SUBSET Pids, T # {}, \A x \in T : T \ {x} \in Good
      PROVE  T \in Good
  <2>1. PICK x \in T : TRUE
    BY <1>2
  <2>2. SumOver(f)[Some(T \ {x})] = SumOver(f)[T \ {x}]
    BY <1>2
  <2>3. SumOver(f)[T] = f[x] + SumOver(f)[T \ {x}] /\ SumOver(f)[T \ {x}] \in Nat
    BY SumTake, SumType
  <2>4. CASE f[x] > 0
    <3>1. Some(T) \in SUBSET Pids /\ x \in Some(T) /\ Some(T) \ {x} = Some(T \ {x})
      BY <2>4
    <3>2. SumOver(f)[Some(T)] = f[x] + SumOver(f)[Some(T) \ {x}]
      <4> HIDE DEF Some
      <4>1. QED
        BY <3>1, SumTake
    <3> HIDE DEF Some
    <3>3. QED
      BY <2>2, <2>3, <3>1, <3>2
  <2>5. CASE ~(f[x] > 0)
    <3>1. f[x] = 0 /\ Some(T) = Some(T \ {x})
      BY <2>5
    <3> HIDE DEF Some
    <3>2. SumOver(f)[T] = SumOver(f)[T \ {x}]
      BY <2>3, <3>1
    <3>3. QED
      BY <2>2, <3>1, <3>2
  <2>6. QED
    BY <2>4, <2>5
<1>3. SUBSET Pids \subseteq Good
  <2> HIDE DEF Good
  <2>1. QED
    BY <1>1, <1>2, EverySubset
<1>4. QED
  BY <1>3

\* What has been read and what is still to be read lies between what was counted when
\* the scrape began and what is counted now.
ScrapeSum ==
    scrape # NoScrape =>
        /\ scrape.floor <= scrape.sum + SumOver(counter)[scrape.left]
        /\ scrape.sum + SumOver(counter)[scrape.left] <= Total(counter)

CountersAddUp == Total(counter) = events + carried

LEMMA SumsInit == Init => CountersAddUp /\ ScrapeSum
<1> SUFFICES ASSUME Init PROVE CountersAddUp /\ ScrapeSum
  OBVIOUS
<1>1. counter \in [Pids -> Nat] /\ {p \in Pids : counter[p] > 0} = {}
  BY DEF Init
<1>2. Total(counter) = 0
  BY <1>1, TotalIsSum, SumOfSome, SumOfNone
<1>3. QED
  BY <1>2 DEF Init, CountersAddUp, ScrapeSum

LEMMA SumsCount ==
    ASSUME StateOK, CountersAddUp, ScrapeSum, NEW p \in Pids, CountRequest(p)
    PROVE  (CountersAddUp /\ ScrapeSum)'
<1>1. /\ counter \in [Pids -> Nat] /\ {events, carried} \subseteq Nat
      /\ scrape \in [by : SUBSET Pids, left : SUBSET Pids, sum : Nat, floor : Nat]
  BY DEF StateOK, TypeOK
<1>2. /\ counter' = [counter EXCEPT ![p] = counter[p] + 1] /\ events' = events + 1
      /\ carried' = carried /\ scrape' = scrape
  BY DEF CountRequest
<1>3. /\ counter' \in [Pids -> Nat] /\ counter'[p] = counter[p] + 1
      /\ \A q \in Pids \ {p} : counter'[q] = counter[q]
  BY <1>1, <1>2
<1>4. /\ Total(counter) = SumOver(counter)[Pids] /\ Total(counter) \in Nat
      /\ Total(counter') = SumOver(counter')[Pids]
  BY <1>1, <1>3, TotalIsSum
<1>5. SumOver(counter')[Pids] = SumOver(counter)[Pids] + 1
  BY <1>1, <1>3, TotalTake
<1>6. CountersAddUp'
  <2>1. Total(counter') = Total(counter) + 1
    BY <1>4, <1>5
  <2>2. Total(counter)' = Total(counter')
    OBVIOUS
  <2>3. QED
    BY <1>1, <1>2, <1>4, <2>1, <2>2 DEF CountersAddUp
<1>7. SumOver(counter)[scrape.left] \in Nat
  BY <1>1, SumType
<1>8. SumOver(counter')[scrape.left] \in
        {SumOver(counter)[scrape.left], SumOver(counter)[scrape.left] + 1}
  <2>1. scrape.left \in SUBSET Pids
    BY <1>1
  <2>2. CASE p \in scrape.left
    BY <1>1, <1>3, <2>1, <2>2, TotalTake
  <2>3. CASE p \notin scrape.left
    <3>1. \A q \in scrape.left : counter'[q] = counter[q]
      BY <1>3, <2>1, <2>3
    <3>2. QED
      BY <1>1, <1>3, <2>1, <3>1, SumSame
  <2>4. QED
    BY <2>2, <2>3
<1>9. ScrapeSum'
  <2> SUFFICES ASSUME scrape # NoScrape
               PROVE  /\ scrape.floor <= scrape.sum + SumOver(counter')[scrape.left]
                      /\ scrape.sum + SumOver(counter')[scrape.left] <= Total(counter')
    BY <1>2 DEF ScrapeSum
  <2>1. /\ scrape.floor <= scrape.sum + SumOver(counter)[scrape.left]
        /\ scrape.sum + SumOver(counter)[scrape.left] <= Total(counter)
    BY DEF ScrapeSum
  <2>2. Total(counter') = Total(counter) + 1
    BY <1>4, <1>5
  <2>3. scrape.sum \in Nat /\ scrape.floor \in Nat
    BY <1>1
  <2>4. QED
    BY <1>4, <1>7, <1>8, <2>1, <2>2, <2>3
<1>10. QED
  BY <1>6, <1>9

LEMMA SumsScrape ==
    ASSUME StateOK, CountersAddUp, ScrapeSum, NEW p \in Pids, ScrapeStarts(p) \/ ScrapeReads(p)
    PROVE  (CountersAddUp /\ ScrapeSum)'
<1>1. /\ counter \in [Pids -> Nat] /\ {events, carried} \subseteq Nat
      /\ scrape \in [by : SUBSET Pids, left : SUBSET Pids, sum : Nat, floor : Nat]
  BY DEF StateOK, TypeOK
<1>2. counter' = counter /\ events' = events /\ carried' = carried
  BY DEF ScrapeStarts, ScrapeReads, fileVars, historyVars
<1>3. CountersAddUp'
  BY <1>2 DEF CountersAddUp
<1>4. Total(counter) = SumOver(counter)[Pids] /\ Total(counter) \in Nat
  BY <1>1, TotalIsSum
<1>5. CASE ScrapeStarts(p)
  <2>1. /\ scrape'.left = {q \in Pids : counter[q] > 0} /\ scrape'.sum = 0
        /\ scrape'.floor = events + carried
    BY <1>5 DEF ScrapeStarts
  <2>2. SumOver(counter)[scrape'.left] = Total(counter)
    BY <1>1, <1>4, <2>1, SumOfSome
  <2>3. /\ scrape'.floor <= scrape'.sum + SumOver(counter)[scrape'.left]
        /\ scrape'.sum + SumOver(counter)[scrape'.left] <= Total(counter)
    BY <1>4, <2>1, <2>2 DEF CountersAddUp
  <2>4. QED
    BY <1>2, <1>3, <2>3 DEF ScrapeSum
<1>6. CASE ScrapeReads(p)
  <2>1. /\ p \in scrape.left /\ scrape.left \in SUBSET Pids /\ scrape.sum \in Nat
        /\ scrape'.left = scrape.left \ {p} /\ scrape'.sum = scrape.sum + counter[p]
        /\ scrape'.floor = scrape.floor
    BY <1>1, <1>6 DEF ScrapeReads
  <2>2. SumOver(counter)[scrape.left] = counter[p] + SumOver(counter)[scrape'.left]
    BY <1>1, <2>1, SumTake
  <2>3. SumOver(counter)[scrape'.left] \in Nat /\ counter[p] \in Nat
    BY <1>1, <2>1, SumType
  <2>4. scrape'.sum + SumOver(counter)[scrape'.left]
          = scrape.sum + SumOver(counter)[scrape.left]
    BY <2>1, <2>2, <2>3
  <2>5. scrape # NoScrape
    BY <2>1 DEF NoScrape
  <2>6. /\ scrape.floor <= scrape.sum + SumOver(counter)[scrape.left]
        /\ scrape.sum + SumOver(counter)[scrape.left] <= Total(counter)
    BY <2>5 DEF ScrapeSum
  <2>7. QED
    BY <1>2, <1>3, <2>1, <2>4, <2>6 DEF ScrapeSum
<1>7. QED
  BY <1>5, <1>6

LEMMA SumsStep ==
    StateOK /\ CountersAddUp /\ ScrapeSum /\ [Next]_vars => (CountersAddUp /\ ScrapeSum)'
<1> SUFFICES ASSUME StateOK, CountersAddUp, ScrapeSum, [Next]_vars
             PROVE  (CountersAddUp /\ ScrapeSum)'
  OBVIOUS
<1>1. ASSUME NEW kept \in SUBSET Pids, Boot(kept)
      PROVE  (CountersAddUp /\ ScrapeSum)'
  <2>1. scrape' = NoScrape
    BY <1>1 DEF Boot, StateOK, Stopped
  <2>2. events' = 0 /\ carried' = Total(counter')
    BY <1>1 DEF Boot, ResetMultiprocDir
  <2>3. counter' \in [Pids -> Nat]
    BY <1>1, StateBoot DEF StateOK, TypeOK
  <2>4. Total(counter') \in Nat
    BY <2>3, TotalIsSum
  <2>5. CountersAddUp'
    BY <2>2, <2>4 DEF CountersAddUp
  <2>6. QED
    BY <2>1, <2>5 DEF ScrapeSum, NoScrape
<1>2. ASSUME counter' = counter, events' = events, carried' = carried,
             scrape' \in {scrape, NoScrape}
      PROVE  (CountersAddUp /\ ScrapeSum)'
  BY <1>2 DEF CountersAddUp, ScrapeSum, NoScrape
<1>3. ASSUME NEW p \in Pids,
             \/ Fork(p) \/ Die(p) \/ \E dropped \in BOOLEAN : Reap(p, dropped)
             \/ \E d \in release : Import(p, d) \/ ImportRaises(p, d)
             \/ Imported(p) \/ (\E k \in Keys : Accept(p, k) \/ Reject(p, k))
             \/ Finish(p) \/ ScrapeEnds(p)
      PROVE  /\ counter' = counter /\ events' = events /\ carried' = carried
             /\ scrape' \in {scrape, NoScrape}
  BY <1>3 DEF Fork, Die, Reap, Import, ImportRaises, Imported, Accept, Reject, Finish,
              ScrapeEnds, AllStop, fileVars, historyVars
<1>4. ASSUME MasterDies \/ KeyFileChanges \/ UNCHANGED vars
      PROVE  /\ counter' = counter /\ events' = events /\ carried' = carried
             /\ scrape' \in {scrape, NoScrape}
  BY <1>4 DEF MasterDies, KeyFileChanges, AllStop, vars, fileVars, historyVars
<1>5. QED
  BY <1>1, <1>2, <1>3, <1>4, SumsCount, SumsScrape DEF Next, MasterSteps, WorkerSteps

LEMMA SumsAlways == Spec => [](StateOK /\ CountersAddUp /\ ScrapeSum)
<1>1. Init => CountersAddUp /\ ScrapeSum
  BY SumsInit
<1>2. StateOK /\ CountersAddUp /\ ScrapeSum /\ [Next]_vars => (CountersAddUp /\ ScrapeSum)'
  BY SumsStep
<1>3. QED
  BY <1>1, <1>2, StateAlways, PTL DEF Spec

\* "A single event is counted correctly" (REALITY_MAP.md:45): for any number of workers and
\* whatever dies, the counters of the directory add up to the requests counted since the
\* boot and what stale files carried over, and the "max" gauge is the last one's time.
THEOREM EventsCountedOnce == Spec => []AggregatesExact
<1>1. StateOK /\ CountersAddUp => AggregatesExact
  <2> SUFFICES ASSUME StateOK, CountersAddUp PROVE AggregatesExact
    OBVIOUS
  <2>1. lastrun \in [Pids -> Nat] /\ latest \in Nat
    BY DEF StateOK, TypeOK
  <2>2. (\E p \in Pids : lastrun[p] = latest) /\ \A p \in Pids : lastrun[p] <= latest
    BY DEF StateOK, NewestKnown
  <2>3. /\ Newest(lastrun) \in Nat
        /\ \E p \in Pids : lastrun[p] = Newest(lastrun)
        /\ \A p \in Pids : lastrun[p] <= Newest(lastrun)
    BY <2>1, <2>2, NewestIsGreatest
  <2>4. Newest(lastrun) = latest
    BY <2>1, <2>2, <2>3
  <2>5. QED
    BY <2>4 DEF AggregatesExact, CountersAddUp
<1>2. QED
  BY <1>1, SumsAlways, PTL

\* A scrape that has read all its files, one by one while workers count and die, shows no
\* fewer requests than were counted when it began, and no more than are counted by now
\* (gunicorn.conf.py, observability.py): the counters Prometheus sees never fall.
THEOREM ScrapesBracketed == Spec => []ScrapeBracketed
<1>1. StateOK /\ CountersAddUp /\ ScrapeSum => ScrapeBracketed
  <2> SUFFICES ASSUME StateOK, CountersAddUp, ScrapeSum, scrape # NoScrape, scrape.left = {}
               PROVE  scrape.floor <= scrape.sum /\ scrape.sum <= events + carried
    BY DEF ScrapeBracketed
  <2>1. scrape.sum \in Nat
    BY DEF StateOK, TypeOK
  <2>2. SumOver(counter)[scrape.left] = 0
    BY SumOfNone
  <2>3. QED
    BY <2>1, <2>2 DEF ScrapeSum, CountersAddUp
<1>2. QED
  BY <1>1, SumsAlways, PTL

-----------------------------------------------------------------------------
(* The metrics of a process *)

\* What names are made of: strings, the ones the code writes itself among them.
Reserved == {NS, "total", "created", "bucket", "sum", "count"}
Words == STRING \cup Reserved

\* The convention of observability.py (lines 10-11), in full: a name ends in its unit, with
\* "_total" after it for counters, and a unit is none of the suffixes prometheus_client
\* adds to names of its own accord or _existing() tries.  Without it get_gauge("jobs")
\* hands out the gauge "jobs_created" if that was declared first.
UnitNames ==
    \A declared \in Releases : \A d \in declared :
        /\ d.kind \in {"counter", "gauge", "histogram"}
        /\ d.name \in Seq(Words) \ {<<>>}
        /\ Last(Meant(d).base) \notin KindSuffixes(d.kind) \cup {"total", "created"}

LEMMA LastOfAppend ==
    ASSUME NEW S, NEW s \in Seq(S), NEW e \in S
    PROVE  Last(Append(s, e)) = e /\ Front(Append(s, e)) = s
<1>1. /\ Append(s, e) \in Seq(S) /\ Len(Append(s, e)) = Len(s) + 1 /\ Len(s) \in Nat
      /\ \A i \in 1..Len(s) : Append(s, e)[i] = s[i]
      /\ Append(s, e)[Len(s) + 1] = e
  BY AppendProperties, LenProperties
<1>2. Last(Append(s, e)) = e
  BY <1>1 DEF Last
<1>3. Front(Append(s, e)) = SubSeq(Append(s, e), 1, Len(s))
  BY <1>1 DEF Front
<1>4. SubSeq(Append(s, e), 1, Len(s)) = s
  <2>1. SubSeq(Append(s, e), 1, Len(s)) = [i \in 1..Len(s) |-> Append(s, e)[i]]
    BY <1>1
  <2>2. s = [i \in 1..Len(s) |-> s[i]]
    BY LenProperties
  <2>3. QED
    BY <1>1, <2>1, <2>2
<1>5. QED
  BY <1>2, <1>3, <1>4

LEMMA FrontAndLast ==
    ASSUME NEW S, NEW s \in Seq(S), s # <<>>
    PROVE  Last(s) \in S /\ Front(s) \in Seq(S) /\ s = Append(Front(s), Last(s))
<1>1. PICK t \in Seq(S), e \in S : s = Append(t, e)
  BY SequenceEmptyOrAppend
<1>2. Last(s) = e /\ Front(s) = t
  BY <1>1, LastOfAppend
<1>3. QED
  BY <1>1, <1>2

\* The full name of a declaration, and the base its collector is registered under.
LEMMA FullNames ==
    ASSUME UnitNames, NEW declared \in Releases, NEW d \in declared
    PROVE  /\ FullName(d.name) \in Seq(Words)
           /\ Meant(d).base \in Seq(Words)
           /\ Meant(d).kind = d.kind
           /\ IF d.kind = "counter" THEN FullName(d.name) = Append(Meant(d).base, "total")
                                    ELSE FullName(d.name) = Meant(d).base
<1> DEFINE full == FullName(d.name)
<1>1. d.name \in Seq(Words) /\ d.name # <<>> /\ Len(d.name) \in Nat \ {0}
  BY EmptySeq, LenProperties DEF UnitNames
<1>2. full \in Seq(Words) /\ full # <<>> /\ Last(full) = Last(d.name)
  <2>1. CASE Head(d.name) = NS
    BY <1>1, <2>1 DEF FullName
  <2>2. CASE Head(d.name) # NS
    <3>1. full = <<NS>> \o d.name
      BY <2>2 DEF FullName
    <3>2. <<NS>> \in Seq(Words) /\ Len(<<NS>>) = 1
      <4>1. NS \in Words
        BY DEF Words, Reserved
      <4> HIDE DEF NS, Words
      <4>2. QED
        BY <4>1
    <3>3. /\ <<NS>> \o d.name \in Seq(Words)
          /\ Len(<<NS>> \o d.name) = 1 + Len(d.name)
          /\ (<<NS>> \o d.name)[1 + Len(d.name)] = d.name[Len(d.name)]
      <4>1. 1 + Len(d.name) \in 1..Len(<<NS>>) + Len(d.name)
        BY <1>1, <3>2
      <4>2. QED
        BY <1>1, <3>2, <4>1, ConcatProperties
    <3>4. QED
      BY <1>1, <3>1, <3>3, EmptySeq DEF Last
  <2>3. QED
    BY <2>1, <2>2
<1>3. Last(full) = "total" <=> d.kind = "counter"
  BY <1>2, NamingAssumption
<1>4. Meant(d) = [kind |-> d.kind, base |-> IF d.kind = "counter" THEN Front(full) ELSE full]
  BY <1>3 DEF Meant, Construct
<1> HIDE DEF full
<1>5. Front(full) \in Seq(Words) /\ full = Append(Front(full), Last(full))
  BY <1>2, FrontAndLast
<1>6. QED
  BY <1>2, <1>3, <1>4, <1>5 DEF full

\* A collector found under one of the names _existing() tries, of the kind asked for, is
\* the one the declaration means.
LEMMA FoundIsMeant ==
    ASSUME UnitNames, NEW declared \in Releases, NEW d \in declared, NEW e \in declared,
           e.kind = d.kind,
           NEW n \in {FullName(d.name), Append(FullName(d.name), "total"),
                      Append(FullName(d.name), "created")},
           n \in NamesOf(Meant(e))
    PROVE  Meant(e) = Meant(d)
<1> DEFINE full == FullName(d.name)
           b == Meant(d).base
           c == Meant(e).base
<1>1. /\ full \in Seq(Words) /\ b \in Seq(Words) /\ c \in Seq(Words)
      /\ Meant(d).kind = d.kind /\ Meant(e).kind = d.kind
      /\ IF d.kind = "counter" THEN full = Append(b, "total") ELSE full = b
  BY FullNames
<1>2. /\ d.kind \in {"counter", "gauge", "histogram"}
      /\ Last(b) \notin KindSuffixes(d.kind) \cup {"total", "created"}
      /\ Last(c) \notin KindSuffixes(d.kind) \cup {"total", "created"}
  BY DEF UnitNames
<1>3. Meant(d) = [kind |-> d.kind, base |-> b] /\ Meant(e) = [kind |-> d.kind, base |-> c]
  BY <1>1 DEF Meant, Construct
<1>4. n = c \/ \E s \in KindSuffixes(d.kind) : n = Append(c, s)
  BY <1>1 DEF NamesOf
<1>5. KindSuffixes(d.kind) \cup {"total", "created"} \subseteq Words
  <2>1. {"total", "created", "bucket", "sum", "count"} \subseteq Words
    BY DEF Words, Reserved
  <2>2. KindSuffixes(d.kind) \subseteq {"total", "created", "bucket", "sum", "count"}
    BY <1>2 DEF KindSuffixes
  <2>3. QED
    BY <2>1, <2>2
<1> HIDE DEF full, b, c
<1>6. \A s \in Words : /\ Last(Append(full, s)) = s /\ Last(Append(b, s)) = s
                        /\ Last(Append(c, s)) = s
  BY <1>1, LastOfAppend
<1>7. full = c \/ (\E s \in KindSuffixes(d.kind) : full = Append(c, s)) => b = c
  <2>1. CASE d.kind = "counter"
    <3>1. full = Append(b, "total") /\ Last(full) = "total"
      BY <1>1, <1>5, <1>6, <2>1
    <3>2. full # c
      BY <1>2, <3>1
    <3>3. ASSUME NEW s \in KindSuffixes(d.kind), full = Append(c, s)
          PROVE  b = c
      <4>1. s \in Words /\ "total" \in Words /\ Append(b, "total") = Append(c, s)
        BY <1>5, <3>1, <3>3
      <4>2. QED
        BY ONLY <1>1, <4>1, AppendInjective
    <3>4. QED
      BY <3>2, <3>3
  <2>2. CASE d.kind # "counter"
    <3>1. full = b
      BY <1>1, <2>2
    <3>2. ASSUME NEW s \in KindSuffixes(d.kind), full = Append(c, s)
          PROVE  FALSE
      BY <1>2, <1>5, <1>6, <3>1, <3>2
    <3>3. QED
      BY <3>1, <3>2
  <2>3. QED
    BY <2>1, <2>2
<1>8. CASE n = full
  BY <1>3, <1>4, <1>7, <1>8
<1>9. ASSUME NEW x \in {"total", "created"}, n = Append(full, x)
       PROVE  b = c
  <2>1. n # c
    BY <1>2, <1>5, <1>6, <1>9
  <2>2. PICK s \in KindSuffixes(d.kind) : n = Append(c, s)
    BY <1>4, <2>1
  <2>3. full = c
    <3>1. s \in Words /\ x \in Words /\ Append(full, x) = Append(c, s)
      BY <1>5, <1>9, <2>2
    <3>2. QED
      BY ONLY <1>1, <3>1, AppendInjective
  <2>4. QED
    BY <1>7, <2>3
<1>10. QED
  BY <1>3, <1>8, <1>9 DEF full

LEMMA FactoryFinds ==
    ASSUME UnitNames, NEW declared \in Releases, NEW d \in declared, NEW registry,
           registry \subseteq {Meant(e) : e \in declared},
           NEW c \in GetMetric(registry, d)
    PROVE  c = Meant(d)
<1> DEFINE full == FullName(d.name)
<1>1. CASE c = Construct(d.kind, full)
  BY <1>1 DEF Meant
<1>2. CASE c \in Existing(registry, full) /\ c.kind = d.kind
  <2>1. PICK n \in {full, Append(full, "total"), Append(full, "created")} :
           c \in registry /\ n \in NamesOf(c)
    BY <1>2 DEF Existing
  <2>2. PICK e \in declared : c = Meant(e)
    BY <2>1
  <2>3. e.kind = d.kind
    BY <1>2, <2>2, FullNames
  <2>4. QED
    BY <2>1, <2>2, <2>3, FoundIsMeant
<1>3. QED
  BY <1>1, <1>2 DEF GetMetric

\* The collector a declaration means is found once it is registered: a factory raises for
\* another collector only.
LEMMA FactoryRaises ==
    ASSUME UnitNames, NEW declared \in Releases, NEW d \in declared, NEW registry,
           registry \subseteq {Meant(e) : e \in declared},
           GetMetric(registry, d) = {}
    PROVE  \E d1, d2 \in declared : Meant(d1) # Meant(d2) /\ Clash(Meant(d1), Meant(d2))
<1> DEFINE full == FullName(d.name)
<1>1. Meant(d) \notin registry
  <2>1. SUFFICES ASSUME Meant(d) \in registry PROVE FALSE
    OBVIOUS
  <2>2. full \in NamesOf(Meant(d)) /\ Meant(d).kind = d.kind
    <3>1. /\ Meant(d).kind = d.kind
          /\ IF d.kind = "counter" THEN full = Append(Meant(d).base, "total")
                                   ELSE full = Meant(d).base
      BY FullNames
    <3>2. "total" \in KindSuffixes("counter")
      BY DEF KindSuffixes
    <3>3. QED
      BY <3>1, <3>2 DEF NamesOf
  <2>3. Meant(d) \in Existing(registry, full)
    BY <2>1, <2>2 DEF Existing
  <2>4. QED
    BY <2>2, <2>3 DEF GetMetric
<1>2. PICK c \in registry : Clash(c, Construct(d.kind, full))
  BY DEF GetMetric
<1>3. PICK e \in declared : c = Meant(e)
  BY <1>2
<1>4. QED
  BY <1>1, <1>2, <1>3 DEF Meant

LEMMA OwnInit == Init => OwnMetric
<1>1. DOMAIN <<>> = {}
  BY EmptySeq
<1>2. QED
  BY <1>1 DEF Init, OwnMetric

LEMMA OwnStep ==
    ASSUME UnitNames, StateOK, OwnMetric, [Next]_vars
    PROVE  OwnMetric'
<1>e. DOMAIN <<>> = {}
  BY EmptySeq
<1>t. /\ release \in Releases /\ handles \in [Pids -> Holdings]
  BY DEF StateOK, TypeOK
<1>r. ASSUME NEW p \in Pids
      PROVE  Range(handles[p]) \subseteq {Meant(e) : e \in release}
  <2>1. PICK D \in SUBSET release : handles[p] \in [D -> {Meant(e) : e \in release}]
    BY <1>t DEF Holdings
  <2>2. QED
    BY <2>1 DEF Range
<1>1. ASSUME NEW kept \in SUBSET Pids, Boot(kept)
      PROVE  OwnMetric'
  <2>1. handles' = handles /\ master' = "up" /\ \A p \in Pids : handles[p] = <<>>
    BY <1>1 DEF Boot, workerVars, StateOK, Stopped, Volatile, Alive
  <2>2. QED
    BY <1>e, <2>1 DEF OwnMetric
<1>2. ASSUME NEW p \in Pids, NEW d \in release, Import(p, d)
      PROVE  OwnMetric'
  <2>1. PICK c \in GetMetric(Range(handles[p]), d) :
           handles' = [handles EXCEPT ![p] = [e \in DOMAIN handles[p] \cup {d} |->
                                                IF e = d THEN c ELSE handles[p][e]]]
    BY <1>2 DEF Import
  <2>2. c = Meant(d)
    BY <1>t, <1>r, FactoryFinds
  <2>3. TypeOK
    BY DEF StateOK
  <2>4. /\ DOMAIN handles'[p] = DOMAIN handles[p] \cup {d}
        /\ \A e \in DOMAIN handles'[p] : handles'[p][e] = IF e = d THEN c ELSE handles[p][e]
        /\ \A q \in Pids \ {p} : handles'[q] = handles[q]
    BY <2>1, <2>3, Imports
  <2>5. master' = master /\ release' = release
    BY <1>2 DEF Import
  <2>6. \A q \in Pids : \A e \in DOMAIN handles'[q] : handles'[q][e] = Meant(e)
    BY <2>2, <2>4 DEF OwnMetric
  <2>7. QED
    BY <2>5, <2>6 DEF OwnMetric
<1>3. ASSUME NEW p \in Pids, NEW d \in release, ImportRaises(p, d)
      PROVE  OwnMetric'
  <2>1. /\ GetMetric(Range(handles[p]), d) = {} /\ release' = release
        /\ handles' = [q \in Pids |-> <<>>]
    BY <1>3 DEF ImportRaises, AllStop
  <2>2. \E d1, d2 \in release : Meant(d1) # Meant(d2) /\ Clash(Meant(d1), Meant(d2))
    BY <1>t, <1>r, <2>1, FactoryRaises
  <2>3. QED
    BY <1>e, <2>1, <2>2 DEF OwnMetric
<1>4. CASE MasterDies
  <2>1. handles' = [q \in Pids |-> <<>>] /\ master' = "down"
    BY <1>4 DEF MasterDies, AllStop
  <2>2. QED
    BY <1>e, <2>1 DEF OwnMetric
<1>5. ASSUME NEW p \in Pids, Die(p)
      PROVE  OwnMetric'
  <2>1. handles' = [handles EXCEPT ![p] = <<>>] /\ master' = master /\ release' = release
    BY <1>5 DEF Die
  <2>2. QED
    BY <1>e, <1>t, <2>1 DEF OwnMetric
<1>6. ASSUME handles' = handles, master' = master, release' = release
      PROVE  OwnMetric'
  BY <1>6 DEF OwnMetric
<1>7. ASSUME NEW p \in Pids,
             \/ Fork(p) \/ \E dropped \in BOOLEAN : Reap(p, dropped)
             \/ Imported(p) \/ (\E k \in Keys : Accept(p, k) \/ Reject(p, k))
             \/ CountRequest(p) \/ Finish(p)
             \/ ScrapeStarts(p) \/ ScrapeReads(p) \/ ScrapeEnds(p)
      PROVE  handles' = handles /\ master' = master /\ release' = release
  BY <1>7 DEF Fork, Reap, Imported, Accept, Reject, CountRequest, Finish, ScrapeStarts,
              ScrapeReads, ScrapeEnds, workerVars
<1>8. CASE KeyFileChanges \/ UNCHANGED vars
  BY <1>6, <1>8 DEF KeyFileChanges, vars, workerVars
<1>9. QED
  BY <1>1, <1>2, <1>3, <1>4, <1>5, <1>6, <1>7, <1>8 DEF Next, MasterSteps, WorkerSteps

\* With names as observability.py wants them, each declaration gets hold of the collector it
\* means, in whatever order and however often the modules are imported, and an import
\* raises only for two declarations whose names clash.
THEOREM MetricsAreOwn ==
    ASSUME UnitNames
    PROVE  Spec => []OwnMetric
<1>1. Init => OwnMetric
  BY OwnInit
<1>2. StateOK /\ OwnMetric /\ [Next]_vars => OwnMetric'
  BY OwnStep
<1>3. QED
  BY <1>1, <1>2, StateAlways, PTL DEF Spec
=============================================================================

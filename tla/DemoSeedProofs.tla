--------------------------- MODULE DemoSeedProofs ---------------------------
(***************************************************************************)
(* Theorems about DemoSeed, for every script, every history of interrupted *)
(* runs and refusals, every page size and whatever others create.          *)
(***************************************************************************)
EXTENDS DemoSeed, FiniteSetTheorems, TLAPS

\* What is left to post are items of the step, and what the step has read is there.
Bookkeeping ==
    /\ run.pc = "post" => run.todo \subseteq DOMAIN Current.items
    /\ \A r \in run.seen : r \in Records /\ store[r] > 0

Checked(s) == s.check \in {"missing", "enrich", "always", "reset"} /\ s.expect

\* Inside a step that looks for each of its items, each of them is there or left to post.
HeldOrToDo ==
    run.pc = "post" /\ Checked(Current)
        => \A i \in DOMAIN Current.items : i \in run.todo \/ Held(run.step, i)

PassedComplete == \A k \in DOMAIN Script : Passed(k) /\ Checked(Script[k]) => AllHeld(k)

IInv == TypeOK /\ Bookkeeping /\ HeldOrToDo /\ PassedComplete

-----------------------------------------------------------------------------
LEMMA ScriptFacts ==
    /\ Len(Script) \in Nat /\ DOMAIN Script = 1..Len(Script)
    /\ \A k \in DOMAIN Script :
         /\ Script[k] \in Step
         /\ DOMAIN Script[k].items \subseteq Nat
         /\ \A i \in DOMAIN Script[k].items : Script[k].items[i] \in Records
<1>1. /\ Len(Script) \in Nat /\ DOMAIN Script = 1..Len(Script)
      /\ \A k \in DOMAIN Script : Script[k] \in Step
  BY ScriptAssumption
<1>2. ASSUME NEW k \in DOMAIN Script
      PROVE  /\ DOMAIN Script[k].items \subseteq Nat
             /\ \A i \in DOMAIN Script[k].items : Script[k].items[i] \in Records
  <2>1. Script[k].items \in Seq(Records)
    BY <1>1 DEF Step
  <2> QED BY <2>1
<1> QED BY <1>1, <1>2

LEMMA IdleIsRun == Idle \in Run
  BY DEF Idle, Run

\* What was held stays held when nothing is taken away.
LEMMA HeldStays ==
    ASSUME filled \subseteq filled',
           \A r \in Records : store[r] > 0 => store'[r] > 0,
           NEW k \in DOMAIN Script, NEW i \in DOMAIN Script[k].items, Held(k, i)
    PROVE  Held(k, i)'
  BY ScriptFacts DEF Held

\* A run that only marks off item i of its step keeps the invariant, if the item is held.
LEMMA MarkedOff ==
    ASSUME IInv, TypeOK', run.pc = "post", NEW i \in run.todo,
           run'.pc = "post", run'.step = run.step, run'.seen = run.seen,
           run'.todo = run.todo \ {i},
           filled \subseteq filled',
           \A r \in Records : store[r] > 0 => store'[r] > 0,
           Checked(Current) => Held(run.step, i)'
    PROVE  IInv'
<1>1. run.step \in DOMAIN Script
  BY DEF IInv, TypeOK
<1>2. Bookkeeping'
  BY DEF IInv, Bookkeeping, Current
<1>3. HeldOrToDo'
  <2> SUFFICES ASSUME Checked(Current), NEW j \in DOMAIN Current.items, j \notin run'.todo
               PROVE  Held(run.step, j)'
    BY DEF HeldOrToDo, Current
  <2>1. CASE j = i
    BY <2>1
  <2>2. CASE j # i
    <3>1. Held(run.step, j)
      BY <2>2 DEF IInv, HeldOrToDo
    <3> QED BY <1>1, <3>1, HeldStays DEF Current
  <2> QED BY <2>1, <2>2
<1>4. PassedComplete'
  <2> SUFFICES ASSUME NEW k \in DOMAIN Script, Passed(k)', Checked(Script[k]),
                      NEW j \in DOMAIN Script[k].items
               PROVE  Held(k, j)'
    BY DEF PassedComplete, AllHeld
  <2>1. Passed(k)
    BY DEF Passed
  <2>2. Held(k, j)
    BY <2>1 DEF IInv, PassedComplete, AllHeld
  <2> QED BY <2>2, HeldStays
<1> QED BY <1>2, <1>3, <1>4 DEF IInv

\* A run that starts or ends, or others that create a record, cannot disturb it either.
LEMMA NothingTaken ==
    ASSUME IInv, TypeOK', filled \subseteq filled',
           \A r \in Records : store[r] > 0 => store'[r] > 0,
           run' = run \/ run' = Idle
    PROVE  IInv'
<1>1. CASE run' = run
  <2>1. Bookkeeping'
    BY <1>1 DEF IInv, Bookkeeping, Current
  <2>2. HeldOrToDo'
    <3> SUFFICES ASSUME run.pc = "post", Checked(Current), NEW j \in DOMAIN Current.items,
                        j \notin run.todo
                 PROVE  Held(run.step, j)'
      BY <1>1 DEF HeldOrToDo, Current
    <3>1. Held(run.step, j) /\ run.step \in DOMAIN Script
      BY DEF IInv, HeldOrToDo, TypeOK
    <3> QED BY <1>1, <3>1, HeldStays DEF Current
  <2>3. PassedComplete'
    <3> SUFFICES ASSUME NEW k \in DOMAIN Script, Passed(k), Checked(Script[k]),
                        NEW j \in DOMAIN Script[k].items
                 PROVE  Held(k, j)'
      BY <1>1 DEF PassedComplete, AllHeld, Passed
    <3>1. Held(k, j)
      BY DEF IInv, PassedComplete, AllHeld
    <3> QED BY <3>1, HeldStays
  <2> QED BY <2>1, <2>2, <2>3 DEF IInv
<1>2. CASE run' = Idle
  <2>1. run'.pc = "idle"
    BY <1>2 DEF Idle
  <2> QED BY <1>2, <2>1 DEF IInv, Idle, Bookkeeping, HeldOrToDo, PassedComplete, Passed
<1> QED BY <1>1, <1>2

-----------------------------------------------------------------------------
LEMMA InitHolds == Init => IInv
<1> SUFFICES ASSUME Init PROVE IInv
  OBVIOUS
<1>1. TypeOK
  BY BoundsAssumption DEF Init, TypeOK, Run, Idle
<1> QED BY <1>1 DEF IInv, Bookkeeping, HeldOrToDo, PassedComplete, Passed, Init, Idle

LEMMA BeginStep == ASSUME IInv, Begin PROVE IInv'
<1>1. /\ run'.pc = "look" /\ run'.step = 1 /\ run'.seen = {} /\ run' \in Run
      /\ UNCHANGED <<store, filled, cut>>
  BY DEF Begin, Idle, Run, AllHeld
<1>2. run'.step \in DOMAIN Script
  BY <1>1, ScriptFacts, ScriptAssumption
<1>3. TypeOK'
  BY <1>1, <1>2 DEF IInv, TypeOK
<1>4. \A k \in DOMAIN Script : ~Passed(k)'
  BY <1>1, ScriptFacts DEF Passed
<1> QED BY <1>1, <1>3, <1>4 DEF IInv, Bookkeeping, HeldOrToDo, PassedComplete

LEMMA LookStep == ASSUME IInv, Look PROVE IInv'
<1>1. PICK seen \in IF Current.reads THEN Readable(Current) ELSE {run.seen} :
        run' = [run EXCEPT !.pc = "post", !.seen = seen, !.todo = Missing(Current, seen),
                           !.made = FALSE]
  BY DEF Look
<1>2. /\ run.pc = "look" /\ run.step \in DOMAIN Script /\ run \in Run
      /\ UNCHANGED <<store, filled, cut>>
  BY DEF Look, IInv, TypeOK
<1>3. /\ run'.pc = "post" /\ run'.step = run.step /\ run'.seen = seen
      /\ run'.todo = Missing(Current, seen) /\ run'.made = FALSE /\ run'.whole = run.whole
  BY <1>1, <1>2 DEF Run
<1>4. Current \in Step
  BY <1>2, ScriptFacts DEF Current
<1>5. \A r \in seen : r \in Records /\ store[r] > 0
  <2>1. CASE Current.reads
    BY <1>4, <2>1 DEF Readable, InView, Stored, Step
  <2>2. CASE ~Current.reads
    BY <2>2 DEF IInv, Bookkeeping
  <2> QED BY <2>1, <2>2
<1>6. Missing(Current, seen) \subseteq DOMAIN Current.items
  BY DEF Missing
<1>7. TypeOK'
  <2>1. seen \subseteq Records
    BY <1>5
  <2>2. Missing(Current, seen) \subseteq Nat
    BY <1>2, <1>6, ScriptFacts DEF Current
  <2>3. run' \in Run
    BY <1>1, <1>2, <2>1, <2>2 DEF Run
  <2> QED BY <1>2, <1>3, <2>3 DEF IInv, TypeOK
<1>8. Bookkeeping'
  BY <1>2, <1>3, <1>5, <1>6 DEF Bookkeeping, Current
<1>9. HeldOrToDo'
  <2> SUFFICES ASSUME Checked(Current), NEW i \in DOMAIN Current.items,
                      i \notin Missing(Current, seen)
               PROVE  Held(run.step, i)'
    BY <1>2, <1>3 DEF HeldOrToDo, Current
  <2>1. Current.check = "missing" /\ Current.items[i] \in seen
    BY DEF Checked, Missing
  <2> QED BY <1>2, <1>3, <1>5, <2>1 DEF Held, Current
<1>10. PassedComplete'
  BY <1>2, <1>3 DEF IInv, PassedComplete, Passed, AllHeld, Held
<1> QED BY <1>7, <1>8, <1>9, <1>10 DEF IInv

LEMMA PatchStep == ASSUME IInv, NEW i \in run.todo, Patch(i) PROVE IInv'
<1>1. /\ run.pc = "post" /\ run.step \in DOMAIN Script /\ run \in Run
      /\ Current.check = "enrich" /\ Current.items[i] \in run.seen
      /\ filled' = filled \cup {Current.items[i]}
      /\ run' = [run EXCEPT !.todo = run.todo \ {i}]
      /\ UNCHANGED <<store, cut>>
  BY DEF Patch, Turn, IInv, TypeOK
<1>2. /\ run'.pc = "post" /\ run'.step = run.step /\ run'.seen = run.seen
      /\ run'.todo = run.todo \ {i}
  BY <1>1 DEF Run
<1>3. Current.items[i] \in Records /\ store[Current.items[i]] > 0
  BY <1>1 DEF IInv, Bookkeeping
<1>4. TypeOK'
  <2>1. run' \in Run
    BY <1>1 DEF Run
  <2> QED BY <1>1, <1>2, <1>3, <2>1 DEF IInv, TypeOK
<1>5. Held(run.step, i)'
  BY <1>1, <1>2, <1>3 DEF Held, Current
<1> QED BY <1>1, <1>2, <1>4, <1>5, MarkedOff

LEMMA RecomputeStep == ASSUME IInv, NEW i \in run.todo, Recompute(i) PROVE IInv'
<1> DEFINE r == Current.items[i]
<1>1. /\ run.pc = "post" /\ run.step \in DOMAIN Script /\ run \in Run
      /\ Current.check \in {"reset", "created"}
      /\ store' = [store EXCEPT ![r] = 1]
      /\ run' = [run EXCEPT !.todo = run.todo \ {i}]
      /\ UNCHANGED <<filled, cut>>
  BY DEF Recompute, Turn, IInv, TypeOK
<1>2. /\ run'.pc = "post" /\ run'.step = run.step /\ run'.seen = run.seen
      /\ run'.todo = run.todo \ {i}
  BY <1>1 DEF Run
<1>3. i \in DOMAIN Current.items /\ r \in Records
  BY <1>1, ScriptFacts DEF IInv, Bookkeeping, Current
<1>4. store \in [Records -> 0..MaxCopies]
  BY DEF IInv, TypeOK
<1>5. store'[r] = 1 /\ \A q \in Records : store[q] > 0 => store'[q] > 0
  BY <1>1, <1>3, <1>4
<1>6. TypeOK'
  <2>1. run' \in Run
    BY <1>1 DEF Run
  <2>2. store' \in [Records -> 0..MaxCopies]
    <3> HIDE DEF r
    <3>1. 1 \in 0..MaxCopies
      BY BoundsAssumption
    <3> QED BY <1>1, <1>4, <3>1
  <2> QED BY <1>1, <1>2, <2>1, <2>2 DEF IInv, TypeOK
<1>7. Held(run.step, i)'
  BY <1>1, <1>2, <1>5 DEF Held, Current
<1> QED BY <1>1, <1>2, <1>5, <1>6, <1>7, MarkedOff

LEMMA CreateStep == ASSUME IInv, NEW i \in run.todo, Create(i) PROVE IInv'
<1> DEFINE r == Current.items[i]
<1>1. /\ run.pc = "post" /\ run.step \in DOMAIN Script /\ run \in Run
      /\ store' = [store EXCEPT ![r] = IF store[r] < MaxCopies THEN store[r] + 1 ELSE store[r]]
      /\ filled' = filled \cup {r}
      /\ run' = [run EXCEPT !.todo = run.todo \ {i}, !.made = TRUE]
      /\ UNCHANGED cut
  BY DEF Create, Turn, IInv, TypeOK
<1>2. /\ run'.pc = "post" /\ run'.step = run.step /\ run'.seen = run.seen
      /\ run'.todo = run.todo \ {i}
  BY <1>1 DEF Run
<1>3. i \in DOMAIN Current.items /\ r \in Records
  BY <1>1, ScriptFacts DEF IInv, Bookkeeping, Current
<1>4. store \in [Records -> 0..MaxCopies]
  BY DEF IInv, TypeOK
<1>5. store'[r] > 0 /\ \A q \in Records : store[q] > 0 => store'[q] > 0
  BY <1>1, <1>3, <1>4, BoundsAssumption
<1>6. TypeOK'
  <2>1. run' \in Run
    BY <1>1 DEF Run
  <2>2. store' \in [Records -> 0..MaxCopies]
    BY <1>1, <1>3, <1>4, BoundsAssumption
  <2> QED BY <1>1, <1>2, <1>3, <2>1, <2>2 DEF IInv, TypeOK
<1>7. Held(run.step, i)'
  BY <1>1, <1>2, <1>5 DEF Held, Current
<1> QED BY <1>1, <1>2, <1>5, <1>6, <1>7, MarkedOff

LEMMA RefuseStep == ASSUME IInv, NEW i \in run.todo, Refuse(i) PROVE IInv'
<1>1. /\ run.pc = "post" /\ run.step \in DOMAIN Script /\ run \in Run
      /\ UNCHANGED <<store, filled>>
  BY DEF Refuse, Turn, IInv, TypeOK
<1>2. CASE Current.expect
  <2>1. run' = Idle /\ cut' = cut \cup {run.step, run.step + 1}
    BY <1>2 DEF Refuse
  <2>2. TypeOK'
    <3>1. run'.pc = "idle" /\ cut' \subseteq Nat
      <4>1. run.step \in Nat /\ run.step + 1 \in Nat /\ cut \subseteq Nat
        BY <1>1, ScriptFacts DEF IInv, TypeOK
      <4> QED BY <2>1, <4>1 DEF Idle
    <3> QED BY <1>1, <2>1, <3>1, IdleIsRun DEF IInv, TypeOK
  <2> QED BY <1>1, <2>1, <2>2, NothingTaken
<1>3. CASE ~Current.expect
  <2>1. run' = [run EXCEPT !.todo = run.todo \ {i}] /\ UNCHANGED cut
    BY <1>3 DEF Refuse
  <2>2. /\ run'.pc = "post" /\ run'.step = run.step /\ run'.seen = run.seen
        /\ run'.todo = run.todo \ {i}
    BY <1>1, <2>1 DEF Run
  <2>3. run' \in Run
    BY <1>1, <2>1 DEF Run
  <2>4. TypeOK'
    BY <1>1, <2>1, <2>2, <2>3 DEF IInv, TypeOK
  <2> QED BY <1>1, <1>3, <2>2, <2>4, MarkedOff DEF Checked
<1> QED BY <1>2, <1>3

LEMMA PassOverStep == ASSUME IInv, NEW i \in run.todo, PassOver(i) PROVE IInv'
<1> DEFINE left == IF Current.check = "headed" /\ i = 1 THEN {} ELSE run.todo \ {i}
<1>1. /\ run.pc = "post" /\ run.step \in DOMAIN Script /\ run \in Run
      /\ ~Current.expect /\ run' = [run EXCEPT !.todo = left]
      /\ cut' = cut \cup {run.step}
      /\ UNCHANGED <<store, filled>>
  BY DEF PassOver, Turn, IInv, TypeOK
<1>2. /\ run'.pc = "post" /\ run'.step = run.step /\ run'.seen = run.seen
      /\ run'.todo = left /\ left \subseteq run.todo
  BY <1>1 DEF Run
<1>3. TypeOK'
  <2>1. run' \in Run
    BY <1>1, <1>2 DEF Run
  <2> QED BY <1>1, <1>2, <2>1, ScriptFacts DEF IInv, TypeOK
<1>4. Bookkeeping'
  BY <1>1, <1>2 DEF IInv, Bookkeeping, Current
<1>5. HeldOrToDo'
  BY <1>1, <1>2 DEF HeldOrToDo, Checked, Current
<1>6. PassedComplete'
  BY <1>1, <1>2 DEF IInv, PassedComplete, Passed, AllHeld, Held
<1> QED BY <1>3, <1>4, <1>5, <1>6 DEF IInv

LEMMA DieStep == ASSUME IInv, Die PROVE IInv'
<1>1. /\ run.step \in DOMAIN Script /\ run' = Idle
      /\ cut' = cut \cup {run.step, run.step + 1} /\ UNCHANGED <<store, filled>>
  BY DEF Die, IInv, TypeOK
<1>2. TypeOK'
  <2>1. run'.pc = "idle" /\ cut' \subseteq Nat
    <3>1. run.step \in Nat /\ run.step + 1 \in Nat /\ cut \subseteq Nat
      BY <1>1, ScriptFacts DEF IInv, TypeOK
    <3> QED BY <1>1, <3>1 DEF Idle
  <2> QED BY <1>1, <2>1, IdleIsRun DEF IInv, TypeOK
<1> QED BY <1>1, <1>2, NothingTaken

\* A step is left when nothing is left to post: it is complete if it is a checked one.
LEMMA NextStepStep == ASSUME IInv, NextStep PROVE IInv'
<1>1. /\ run.pc = "post" /\ run.todo = {} /\ run.step \in DOMAIN Script /\ run \in Run
      /\ UNCHANGED <<store, filled, cut>>
  BY DEF NextStep, IInv, TypeOK
<1>2. Checked(Current) => AllHeld(run.step)
  BY <1>1 DEF IInv, HeldOrToDo, AllHeld, Current
<1>3. \/ /\ run.step = Len(Script) /\ run'.pc = "ready" /\ run'.seen = {} /\ run' \in Run
      \/ /\ run.step # Len(Script) /\ run'.pc = "look" /\ run'.step = run.step + 1
         /\ run'.seen = run.seen /\ run' \in Run
  <2>1. CASE run.step = Len(Script)
    <3>1. run' = [Idle EXCEPT !.pc = "ready"]
      BY <2>1 DEF NextStep
    <3> QED BY <2>1, <3>1 DEF Idle, Run
  <2>2. CASE run.step # Len(Script)
    <3>1. run' = [Idle EXCEPT !.pc = "look", !.step = run.step + 1, !.seen = run.seen,
                              !.made = run.made, !.whole = run.whole]
      BY <2>2 DEF NextStep
    <3>2. /\ run.step + 1 \in Nat /\ run.seen \in SUBSET Records
          /\ run.made \in BOOLEAN /\ run.whole \in BOOLEAN
      BY <1>1, ScriptFacts DEF Run
    <3> QED BY <2>2, <3>1, <3>2 DEF Idle, Run
  <2> QED BY <2>1, <2>2
<1>4. TypeOK'
  BY <1>1, <1>3, ScriptFacts DEF IInv, TypeOK
<1>5. PassedComplete'
  <2> SUFFICES ASSUME NEW k \in DOMAIN Script, Passed(k)', Checked(Script[k])
               PROVE  AllHeld(k)
    BY <1>1 DEF PassedComplete, AllHeld, Held
  <2>1. k < run.step \/ k = run.step
    BY <1>1, <1>3, ScriptFacts DEF Passed
  <2>2. CASE k < run.step
    BY <1>1, <2>2 DEF IInv, PassedComplete, Passed
  <2>3. CASE k = run.step
    BY <1>2, <2>3 DEF Current
  <2> QED BY <2>1, <2>2, <2>3
<1>6. Bookkeeping' /\ HeldOrToDo'
  BY <1>1, <1>3 DEF IInv, Bookkeeping, HeldOrToDo
<1> QED BY <1>4, <1>5, <1>6 DEF IInv

LEMMA ArriveStep == ASSUME IInv, NEW r \in Arrivals, Arrive(r) PROVE IInv'
<1>1. /\ store' = [store EXCEPT ![r] = 1] /\ UNCHANGED <<filled, run, cut>>
      /\ r \in Records /\ store \in [Records -> 0..MaxCopies]
  BY ArrivalsAssumption DEF Arrive, IInv, TypeOK
<1>2. TypeOK'
  BY <1>1, BoundsAssumption DEF IInv, TypeOK
<1>3. \A q \in Records : store[q] > 0 => store'[q] > 0
  BY <1>1
<1> QED BY <1>1, <1>2, <1>3, NothingTaken

LEMMA NextHolds == IInv /\ [Next]_vars => IInv'
<1> SUFFICES ASSUME IInv, [Next]_vars PROVE IInv'
  OBVIOUS
<1>1. CASE Begin
  BY <1>1, BeginStep
<1>2. CASE Look
  BY <1>2, LookStep
<1>3. CASE Posts
  BY <1>3, PatchStep, RecomputeStep, CreateStep, RefuseStep DEF Posts
<1>4. CASE NextStep
  BY <1>4, NextStepStep
<1>5. CASE Interrupted
  BY <1>5, DieStep, PassOverStep DEF Interrupted
<1>6. CASE \E r \in Arrivals : Arrive(r)
  BY <1>6, ArriveStep
<1>7. CASE UNCHANGED vars
  <2>1. run' = run /\ store' = store /\ filled' = filled /\ TypeOK'
    BY <1>7 DEF vars, IInv, TypeOK
  <2> QED BY <2>1, NothingTaken
<1> QED BY <1>1, <1>2, <1>3, <1>4, <1>5, <1>6, <1>7 DEF Next

LEMMA Invariance == Spec => []IInv
  BY InitHolds, NextHolds, PTL DEF Spec

-----------------------------------------------------------------------------
\* The variables keep their types, for every script.
THEOREM TypeCorrect == Spec => []TypeOK
<1>1. IInv => TypeOK
  BY DEF IInv
<1> QED BY <1>1, Invariance, PTL

\* Whatever the script, however often its runs are cut short or refused and whatever
\* others create: the steps that look for each of their items (seed_demo.py:52-116,
\* 279-307, seed_demo_full.py:174-243, 460-502) are complete once a run has passed them.
THEOREM CheckedStepsCompleteHolds == Spec => []CheckedStepsComplete
<1>1. IInv => CheckedStepsComplete
  BY DEF IInv, PassedComplete, Checked, CheckedStepsComplete
<1> QED BY <1>1, Invariance, PTL

-----------------------------------------------------------------------------
(* What a step reads *)

LEMMA PositionOne ==
    ASSUME NEW k \in DOMAIN Script, NEW i \in DOMAIN Script[k].items
    PROVE  i \in Nat /\ i >= 1 /\ 1 \in DOMAIN Script[k].items
<1>1. Script[k].items \in Seq(Records)
  BY ScriptFacts DEF Step
<1> QED BY <1>1

\* A list that is read in full, whether it is paged or short.
LEMMA AllRead ==
    ASSUME NEW s \in Step, ReadsAll(s), NEW seen \in Readable(s)
    PROVE  seen = Stored(s.scope)
<1>1. CASE s.paged
  BY <1>1 DEF Readable, InView
<1>2. CASE IsFiniteSet(s.scope) /\ Cardinality(s.scope) <= PageSize
  <2>1. Stored(s.scope) \subseteq s.scope
    BY DEF Stored
  <2>2. /\ Cardinality(Stored(s.scope)) <= Cardinality(s.scope)
        /\ Cardinality(s.scope) \in Nat /\ Cardinality(Stored(s.scope)) \in Nat
    BY <1>2, <2>1, FS_Subset, FS_CardinalityType
  <2>3. Cardinality(Stored(s.scope)) <= PageSize
    BY <1>2, <2>2, BoundsAssumption
  <2> QED BY <2>3 DEF Readable, InView
<1> QED BY <1>1, <1>2 DEF ReadsAll

\* Nothing is read where nothing is; where something is, a page is not empty.
LEMMA ReadsNothing ==
    ASSUME NEW s \in Step, NEW seen \in Readable(s)
    PROVE  /\ Stored(s.scope) = {} => seen = {}
           /\ s.paged \/ PageSize > 0 => (seen = {} => Stored(s.scope) = {})
<1>1. seen \subseteq Stored(s.scope)
  BY DEF Readable, InView
<1>2. ASSUME ~s.paged, PageSize > 0, seen = {}
      PROVE  Stored(s.scope) = {}
  <2>1. Cardinality(seen) = 0
    BY <1>2, FS_EmptySet
  <2> QED BY <1>2, <2>1, BoundsAssumption DEF Readable, InView
<1>3. ASSUME s.paged
      PROVE  seen = Stored(s.scope)
  BY <1>3 DEF Readable, InView
<1> QED BY <1>1, <1>2, <1>3

\* No step whose list is in its view, of a script that lists what could be in its way,
\* sets out to create a record that the service, when asked, already had and will refuse:
\* a "409" at such a step (platform_client.py:85-87) comes of what others have created
\* since it looked.
THEOREM NoSpuriousConflictHolds ==
    ASSUME SeesConflicts PROVE Spec => NoSpuriousConflict
<1>1. ASSUME IInv, Look, Current.reads, InView(Current), NEW i \in run'.todo, Sets(Current, i)
      PROVE  ~Refused(Current.items[i])
  <2>1. /\ run \in Run /\ run.step \in DOMAIN Script /\ Current \in Step
        /\ store \in [Records -> 0..MaxCopies]
    BY <1>1, ScriptFacts DEF IInv, TypeOK, Look, Current
  <2>2. PICK seen \in Readable(Current) :
          run' = [run EXCEPT !.pc = "post", !.seen = seen, !.todo = Missing(Current, seen),
                             !.made = FALSE]
    BY <1>1 DEF Look
  <2>3. run'.seen = seen /\ run'.todo = Missing(Current, seen)
    BY <2>1, <2>2 DEF Run
  <2>4. i \in DOMAIN Current.items /\ Current.items[i] \in Records
    BY <1>1, <2>1, <2>3, ScriptFacts DEF Missing, Current
  <2> SUFFICES ASSUME Key(Current.items[i])
               PROVE  ~(store[Current.items[i]] > 0)
    BY DEF Refused, Key
  <2>5. /\ Current.items[i] \in Current.scope
        /\ Current.check = "headed" => i = 1
    BY <1>1, <2>1, <2>4 DEF SeesConflicts, Sets, Current
  <2>6. seen = Stored(Current.scope)
    BY <1>1, <2>2 DEF Readable
  <2>7. Current.items[i] \notin seen
    BY <1>1, <2>3, <2>5 DEF Sets, Missing
  <2> QED BY <2>5, <2>6, <2>7 DEF Stored
<1>2. IInv /\ [Next]_vars =>
        [Look /\ Current.reads /\ InView(Current) =>
           \A i \in run'.todo : Sets(Current, i) => ~Refused(Current.items[i])]_vars
  BY <1>1
<1> QED BY <1>2, Invariance, PTL DEF Spec, NoSpuriousConflict

-----------------------------------------------------------------------------
(* No record is created twice *)

Unchecked(r) ==
    \E k \in DOMAIN Script : Script[k].check \in {"topup", "always"} /\ r \in Posted(k)

Guards(s) == s.check \in {"empty", "headed"} /\ (s.check = "empty" => s.expect)

\* Step k posts its item i if it does not find it, and the service would take it twice.
Once(k, i) == ~Key(Script[k].items[i]) /\ ReadsAll(Script[k])
              /\ (Asks(Script[k], i) \/ Follows(k, i))

\* What is still to be posted of these is not there.
StillNew ==
    run.pc = "post" => \A i \in run.todo :
        /\ Once(run.step, i)
        /\ ~ (Current.check = "enrich" /\ Current.items[i] \in run.seen)
        => store[Current.items[i]] = 0

\* The first item of a step whose list it decides is there when any other is, and is
\* posted before any other.
FirstIsThere ==
    \A k \in DOMAIN Script : \A i \in DOMAIN Script[k].items :
        Once(k, i) /\ Follows(k, i) /\ store[Script[k].items[i]] > 0
            => store[Script[k].items[1]] > 0
FirstGoesAhead ==
    run.pc = "post" /\ Guards(Current) /\ run.todo # {}
        => 1 \in run.todo \/ store[Current.items[1]] > 0

NoTwins == \A r \in Records : store[r] > 1 => Unchecked(r)

TwinInv == StillNew /\ FirstIsThere /\ FirstGoesAhead /\ NoTwins

\* A step that marks off item i of its list, and may have brought it into being.
LEMMA TwinPost ==
    ASSUME IInv, IInv', TwinInv, FindsItsOwn, run.pc = "post", NEW i \in run.todo,
           \A j \in run.todo : i <= j,
           run'.pc = "post", run'.step = run.step, run'.seen = run.seen,
           run'.todo = run.todo \ {i},
           \A r \in Records \ {Current.items[i]} : store'[r] = store[r],
           store[Current.items[i]] > 0 => store'[Current.items[i]] > 0,
           Guards(Current) => store'[Current.items[i]] > 0,
           store'[Current.items[i]] > 1 => Unchecked(Current.items[i])
    PROVE  TwinInv'
<1> DEFINE r == Current.items[i]
<1>1. /\ run.step \in DOMAIN Script /\ i \in DOMAIN Current.items /\ r \in Records
      /\ store \in [Records -> 0..MaxCopies] /\ store' \in [Records -> 0..MaxCopies]
  BY ScriptFacts DEF IInv, TypeOK, Bookkeeping, Current
<1>2. Current' = Current /\ i \in Nat /\ i >= 1 /\ run.todo \subseteq DOMAIN Current.items
  BY <1>1, PositionOne DEF Current, IInv, Bookkeeping
<1>3. StillNew'
  <2> SUFFICES ASSUME NEW j \in run.todo \ {i}, Once(run.step, j),
                      ~ (Current.check = "enrich" /\ Current.items[j] \in run.seen)
               PROVE  store'[Current.items[j]] = 0
    BY <1>2 DEF StillNew, Once, Key, ReadsAll, Asks, Follows, Own, Posted
  <2>1. j \in DOMAIN Current.items /\ Current.items[j] \in Records
    BY <1>1, <1>2, ScriptFacts DEF Current
  <2>2. Current.items[j] # r
    BY <1>1, <2>1 DEF FindsItsOwn, Once, Asks, Follows, Current
  <2> QED BY <2>1, <2>2 DEF TwinInv, StillNew
<1>4. FirstIsThere'
  <2> SUFFICES ASSUME NEW k \in DOMAIN Script, NEW j \in DOMAIN Script[k].items,
                      Once(k, j), Follows(k, j), store'[Script[k].items[j]] > 0
               PROVE  store'[Script[k].items[1]] > 0
    BY DEF FirstIsThere, Once, Key, ReadsAll, Asks, Follows, Own, Posted
  <2>1. 1 \in DOMAIN Script[k].items /\ Script[k].items[1] \in Records
        /\ Script[k].items[j] \in Records
    BY PositionOne, ScriptFacts
  <2>2. CASE Script[k].items[j] # r
    <3>1. store[Script[k].items[j]] > 0
      BY <2>1, <2>2
    <3>2. store[Script[k].items[1]] > 0
      BY <3>1 DEF TwinInv, FirstIsThere
    <3> QED BY <2>1, <3>2
  <2>3. CASE Script[k].items[j] = r
    <3>1. k = run.step
      BY <1>1, <2>3 DEF Follows, Own, Posted, Current
    <3>2. Guards(Current)
      BY <3>1 DEF Follows, Guards, Current
    <3>3. 1 \in run.todo \/ store[Current.items[1]] > 0
      BY <3>2 DEF TwinInv, FirstGoesAhead
    <3>4. CASE 1 \in run.todo
      <4>1. i = 1
        BY <1>2, <3>4
      <4> QED BY <3>1, <3>2, <4>1 DEF Current
    <3>5. CASE store[Current.items[1]] > 0
      BY <2>1, <3>1, <3>5 DEF Current
    <3> QED BY <3>3, <3>4, <3>5
  <2> QED BY <2>2, <2>3
<1>5. FirstGoesAhead'
  <2> SUFFICES ASSUME Guards(Current), run.todo \ {i} # {}
               PROVE  1 \in run.todo \ {i} \/ store'[Current.items[1]] > 0
    BY <1>2 DEF FirstGoesAhead, Guards
  <2>1. 1 \in run.todo \/ store[Current.items[1]] > 0
    BY DEF TwinInv, FirstGoesAhead
  <2>2. Current.items[1] \in Records
    BY <1>1, PositionOne, ScriptFacts DEF Current
  <2> QED BY <2>1, <2>2
<1>6. NoTwins'
  BY <1>1 DEF TwinInv, NoTwins, Unchecked, Posted
<1> QED BY <1>3, <1>4, <1>5, <1>6 DEF TwinInv

\* A step that brings nothing into being, and a run that is not inside a step.
LEMMA TwinStays ==
    ASSUME TwinInv, store' = store,
           \/ run'.pc # "post"
           \/ run'.pc = run.pc /\ run'.step = run.step /\ run'.seen = run.seen
              /\ run'.todo \subseteq run.todo
              /\ (Guards(Current) /\ 1 \in run.todo => run'.todo = {} \/ 1 \in run'.todo)
    PROVE  TwinInv'
<1>1. StillNew'
  BY DEF TwinInv, StillNew, Once, Key, ReadsAll, Asks, Follows, Own, Posted, Current
<1>2. FirstIsThere'
  BY DEF TwinInv, FirstIsThere, Once, Key, ReadsAll, Asks, Follows, Own, Posted
<1>3. FirstGoesAhead'
  BY DEF TwinInv, FirstGoesAhead, Guards, Current
<1>4. NoTwins'
  BY DEF TwinInv, NoTwins, Unchecked, Posted
<1> QED BY <1>1, <1>2, <1>3, <1>4 DEF TwinInv

LEMMA TwinLook == ASSUME IInv, IInv', TwinInv, FindsItsOwn, Look PROVE TwinInv'
<1>1. /\ run \in Run /\ run.pc = "look" /\ run.step \in DOMAIN Script /\ Current \in Step
      /\ store \in [Records -> 0..MaxCopies] /\ store' = store
  BY ScriptFacts DEF IInv, TypeOK, Look, Current
<1>2. PICK seen \in IF Current.reads THEN Readable(Current) ELSE {run.seen} :
        run' = [run EXCEPT !.pc = "post", !.seen = seen, !.todo = Missing(Current, seen),
                           !.made = FALSE]
  BY DEF Look
<1>3. /\ run'.pc = "post" /\ run'.seen = seen /\ run'.todo = Missing(Current, seen)
      /\ run'.step = run.step /\ Current' = Current
  BY <1>1, <1>2 DEF Run, Current
<1>4. Missing(Current, seen) \subseteq DOMAIN Current.items
  BY DEF Missing
<1>5. ASSUME NEW i \in Missing(Current, seen), Once(run.step, i),
             ~ (Current.check = "enrich" /\ Current.items[i] \in seen)
      PROVE  store[Current.items[i]] = 0
  <2>1. /\ i \in DOMAIN Current.items /\ Current.items[i] \in Records
        /\ Current.items[1] \in Records
    BY <1>1, <1>4, ScriptFacts, PositionOne DEF Current
  <2>2. seen = Stored(Current.scope) /\ ReadsAll(Current)
    BY <1>1, <1>2, <1>5, AllRead DEF Once, ReadsAll, Current
  <2>3. CASE Asks(Current, i)
    <3>1. Current.items[i] \notin seen /\ Current.items[i] \in Current.scope
      BY <1>5, <2>3 DEF Asks, Missing
    <3>2. ~(store[Current.items[i]] > 0)
      BY <2>2, <3>1 DEF Stored
    <3> QED BY <1>1, <2>1, <3>2
  <2>4. CASE Follows(run.step, i)
    <3>1. Current.items[1] \notin seen /\ Current.items[1] \in Current.scope
      BY <1>5, <2>4 DEF Follows, Missing, Current
    <3>2. ~(store[Current.items[1]] > 0)
      BY <2>2, <3>1 DEF Stored
    <3>3. ~(store[Current.items[i]] > 0)
      BY <1>1, <1>5, <2>1, <2>4, <3>2 DEF TwinInv, FirstIsThere, Current
    <3> QED BY <1>1, <2>1, <3>3
  <2> QED BY <1>5, <2>3, <2>4 DEF Once, Current
<1>6. StillNew'
  BY <1>1, <1>3, <1>5 DEF StillNew, Once, Key, ReadsAll, Asks, Follows, Own, Posted, Current
<1>7. FirstIsThere'
  BY <1>1 DEF TwinInv, FirstIsThere, Once, Key, ReadsAll, Asks, Follows, Own, Posted
<1>8. FirstGoesAhead'
  <2>1. Guards(Current) /\ Missing(Current, seen) # {} => 1 \in Missing(Current, seen)
    <3> SUFFICES ASSUME Guards(Current), NEW i \in Missing(Current, seen)
                 PROVE  1 \in Missing(Current, seen)
      OBVIOUS
    <3>1. 1 \in DOMAIN Current.items
      BY <1>1, <1>4, PositionOne DEF Current
    <3> QED BY <3>1 DEF Guards, Missing
  <2> QED BY <1>3, <2>1 DEF FirstGoesAhead, Guards
<1>9. NoTwins'
  BY <1>1 DEF TwinInv, NoTwins, Unchecked, Posted
<1> QED BY <1>6, <1>7, <1>8, <1>9 DEF TwinInv

LEMMA TwinPatch ==
    ASSUME IInv, IInv', TwinInv, FindsItsOwn, NEW i \in run.todo, Patch(i)
    PROVE  TwinInv'
<1>1. /\ run \in Run /\ Current.check = "enrich" /\ Current.items[i] \in run.seen
      /\ run' = [run EXCEPT !.todo = run.todo \ {i}] /\ store' = store
      /\ run.pc = "post" /\ \A j \in run.todo : i <= j
  BY DEF Patch, Turn, IInv, TypeOK
<1>2. /\ run'.pc = "post" /\ run'.step = run.step /\ run'.seen = run.seen
      /\ run'.todo = run.todo \ {i}
  BY <1>1 DEF Run
<1>3. ~Guards(Current)
  BY <1>1 DEF Guards
<1> QED BY <1>1, <1>2, <1>3, TwinStays

LEMMA TwinRecompute ==
    ASSUME IInv, IInv', TwinInv, FindsItsOwn, NEW i \in run.todo, Recompute(i)
    PROVE  TwinInv'
<1> DEFINE r == Current.items[i]
<1>1. /\ run \in Run /\ Current.check \in {"reset", "created"}
      /\ run' = [run EXCEPT !.todo = run.todo \ {i}]
      /\ store' = [store EXCEPT ![r] = 1]
      /\ run.pc = "post" /\ \A j \in run.todo : i <= j
  BY DEF Recompute, Turn, IInv, TypeOK
<1>2. /\ run'.pc = "post" /\ run'.step = run.step /\ run'.seen = run.seen
      /\ run'.todo = run.todo \ {i}
  BY <1>1 DEF Run
<1>3. ~Guards(Current)
  BY <1>1 DEF Guards
<1>4. r \in Records /\ store \in [Records -> 0..MaxCopies]
  BY <1>1, ScriptFacts DEF IInv, TypeOK, Bookkeeping, Current
<1>5. store'[r] = 1 /\ \A q \in Records \ {r} : store'[q] = store[q]
  BY <1>1, <1>4
<1> QED BY <1>1, <1>2, <1>3, <1>5, TwinPost

\* A record is created a second time by a step that does not look for it, or not at all.
LEMMA TwinCreate ==
    ASSUME IInv, IInv', TwinInv, FindsItsOwn, NEW i \in run.todo, Create(i)
    PROVE  TwinInv'
<1> DEFINE r == Current.items[i]
<1>1. /\ run \in Run /\ Current.check \notin {"reset", "created"}
      /\ ~ (Current.check = "enrich" /\ r \in run.seen)
      /\ ~Refused(r)
      /\ run' = [run EXCEPT !.todo = run.todo \ {i}, !.made = TRUE]
      /\ store' = [store EXCEPT ![r] = IF store[r] < MaxCopies THEN store[r] + 1 ELSE store[r]]
      /\ run.pc = "post" /\ \A j \in run.todo : i <= j
  BY DEF Create, Turn, IInv, TypeOK
<1>2. /\ run'.pc = "post" /\ run'.step = run.step /\ run'.seen = run.seen
      /\ run'.todo = run.todo \ {i}
  BY <1>1 DEF Run
<1>3. /\ run.step \in DOMAIN Script /\ i \in DOMAIN Current.items /\ r \in Records
      /\ store \in [Records -> 0..MaxCopies]
  BY <1>1, ScriptFacts DEF IInv, TypeOK, Bookkeeping, Current
<1>4. /\ store'[r] > 0 /\ store[r] \in Nat /\ (store[r] = 0 => store'[r] = 1)
      /\ \A q \in Records \ {r} : store'[q] = store[q]
  BY <1>1, <1>3, BoundsAssumption
<1>5. store'[r] > 0
  BY <1>4
<1>6. store'[r] > 1 => Unchecked(r)
  <2>1. CASE Current.check \in {"topup", "always"}
    BY <1>3, <2>1 DEF Unchecked, Posted, Current
  <2>2. CASE Current.check \notin {"topup", "always"}
    <3>1. Key(r) \/ Once(run.step, i)
      BY <1>1, <1>3, <2>2 DEF FindsItsOwn, Once, Current
    <3>2. Key(r) => store[r] = 0
      BY <1>1, <1>4 DEF Key, Refused
    <3>3. Once(run.step, i) => store[r] = 0
      BY <1>1 DEF TwinInv, StillNew
    <3> QED BY <1>4, <3>1, <3>2, <3>3
  <2> QED BY <2>1, <2>2
<1> QED BY <1>1, <1>2, <1>4, <1>5, <1>6, TwinPost

LEMMA TwinRefuse ==
    ASSUME IInv, IInv', TwinInv, FindsItsOwn, NEW i \in run.todo, Refuse(i)
    PROVE  TwinInv'
<1>1. /\ run \in Run /\ store' = store /\ Refused(Current.items[i])
      /\ run.pc = "post" /\ \A j \in run.todo : i <= j
  BY DEF Refuse, Turn, IInv, TypeOK
<1>2. CASE Current.expect
  <2>1. run'.pc = "idle"
    BY <1>2 DEF Refuse, Idle
  <2> QED BY <1>1, <2>1, TwinStays
<1>3. CASE ~Current.expect
  <2>1. run' = [run EXCEPT !.todo = run.todo \ {i}]
    BY <1>3 DEF Refuse
  <2>2. /\ run'.pc = "post" /\ run'.step = run.step /\ run'.seen = run.seen
        /\ run'.todo = run.todo \ {i}
    BY <1>1, <2>1 DEF Run
  <2>3. /\ run.step \in DOMAIN Script /\ i \in DOMAIN Current.items
        /\ Current.items[i] \in Records
    BY <1>1, ScriptFacts DEF IInv, TypeOK, Bookkeeping, Current
  <2>4. store[Current.items[i]] > 0 /\ store'[Current.items[i]] > 0
    BY <1>1 DEF Refused
  <2>5. store'[Current.items[i]] > 1 => Unchecked(Current.items[i])
    BY <1>1, <2>3 DEF TwinInv, NoTwins
  <2> QED BY <1>1, <2>2, <2>4, <2>5, TwinPost
<1> QED BY <1>2, <1>3

\* The rest of a headed step goes with its first post.
LEMMA TwinPassOver ==
    ASSUME IInv, IInv', TwinInv, FindsItsOwn, NEW i \in run.todo, PassOver(i)
    PROVE  TwinInv'
<1> DEFINE left == IF Current.check = "headed" /\ i = 1 THEN {} ELSE run.todo \ {i}
<1>1. /\ run \in Run /\ store' = store /\ ~Current.expect /\ run.pc = "post"
      /\ run' = [run EXCEPT !.todo = left]
  BY DEF PassOver, Turn, IInv, TypeOK
<1>2. /\ run'.pc = run.pc /\ run'.step = run.step /\ run'.seen = run.seen
      /\ run'.todo = left
  BY <1>1 DEF Run
<1>3. left \subseteq run.todo
  OBVIOUS
<1>4. Guards(Current) /\ 1 \in run.todo => left = {} \/ 1 \in left
  BY <1>1 DEF Guards
<1> HIDE DEF left
<1> QED BY <1>1, <1>2, <1>3, <1>4, TwinStays

LEMMA TwinArrive ==
    ASSUME IInv, IInv', TwinInv, FindsItsOwn, NEW r \in Arrivals, Arrive(r)
    PROVE  TwinInv'
<1>1. /\ r \in Records /\ store \in [Records -> 0..MaxCopies] /\ run' = run
      /\ store' = [store EXCEPT ![r] = 1] /\ store[r] = 0
  BY ArrivalsAssumption DEF Arrive, IInv, TypeOK
<1>2. store'[r] = 1 /\ \A q \in Records \ {r} : store'[q] = store[q]
  BY <1>1
<1>3. \A q \in Records : store[q] > 0 => store'[q] > 0
  BY <1>1, <1>2
<1>4. ASSUME NEW k \in DOMAIN Script, NEW i \in DOMAIN Script[k].items, Once(k, i)
      PROVE  Script[k].items[i] \in Records \ {r}
  BY <1>4, ScriptFacts DEF Once, Asks, Follows, Own
<1>5. StillNew'
  <2> SUFFICES ASSUME run.pc = "post", NEW i \in run.todo, Once(run.step, i),
                      ~ (Current.check = "enrich" /\ Current.items[i] \in run.seen)
               PROVE  store'[Current.items[i]] = 0
    BY <1>1 DEF StillNew, Once, Key, ReadsAll, Asks, Follows, Own, Posted, Current
  <2>1. run.step \in DOMAIN Script /\ i \in DOMAIN Current.items
    BY DEF IInv, TypeOK, Bookkeeping
  <2>2. store[Current.items[i]] = 0
    BY DEF TwinInv, StillNew
  <2> QED BY <1>2, <1>4, <2>1, <2>2 DEF Current
<1>6. FirstIsThere'
  <2> SUFFICES ASSUME NEW k \in DOMAIN Script, NEW i \in DOMAIN Script[k].items,
                      Once(k, i), Follows(k, i), store'[Script[k].items[i]] > 0
               PROVE  store'[Script[k].items[1]] > 0
    BY DEF FirstIsThere, Once, Key, ReadsAll, Asks, Follows, Own, Posted
  <2>1. store[Script[k].items[i]] > 0
    BY <1>2, <1>4
  <2>2. Script[k].items[1] \in Records
    BY PositionOne, ScriptFacts
  <2> QED BY <1>3, <2>1, <2>2 DEF TwinInv, FirstIsThere
<1>7. FirstGoesAhead'
  <2> SUFFICES ASSUME run.pc = "post", Guards(Current), NEW i \in run.todo, 1 \notin run.todo
               PROVE  store'[Current.items[1]] > 0
    BY <1>1 DEF FirstGoesAhead, Guards, Current
  <2>1. run.step \in DOMAIN Script /\ i \in DOMAIN Current.items
    BY DEF IInv, TypeOK, Bookkeeping
  <2>2. Current.items[1] \in Records
    BY <2>1, PositionOne, ScriptFacts DEF Current
  <2> QED BY <1>3, <2>2 DEF TwinInv, FirstGoesAhead
<1>8. NoTwins'
  BY <1>2 DEF TwinInv, NoTwins, Unchecked, Posted
<1> QED BY <1>5, <1>6, <1>7, <1>8 DEF TwinInv

LEMMA TwinNext ==
    ASSUME IInv, TwinInv, FindsItsOwn, [Next]_vars
    PROVE  TwinInv'
<1>1. IInv'
  BY NextHolds
<1>2. CASE Begin
  <2>1. store' = store /\ run'.pc = "look"
    BY <1>2 DEF Begin, Idle
  <2> QED BY <2>1, TwinStays
<1>3. CASE Look
  BY <1>1, <1>3, TwinLook
<1>4. CASE Posts
  BY <1>1, <1>4, TwinPatch, TwinRecompute, TwinCreate, TwinRefuse DEF Posts
<1>5. CASE NextStep
  <2>1. store' = store /\ run'.pc \in {"ready", "look"}
    BY <1>5 DEF NextStep, Idle
  <2> QED BY <2>1, TwinStays
<1>6. CASE Die
  <2>1. store' = store /\ run'.pc = "idle"
    BY <1>6 DEF Die, Idle
  <2> QED BY <2>1, TwinStays
<1>7. CASE \E i \in run.todo : PassOver(i)
  BY <1>1, <1>7, TwinPassOver
<1>8. CASE \E r \in Arrivals : Arrive(r)
  BY <1>1, <1>8, TwinArrive
<1>9. CASE UNCHANGED vars
  <2>1. store' = store /\ run' = run
    BY <1>9 DEF vars
  <2> QED BY <2>1, TwinStays
<1> QED BY <1>2, <1>3, <1>4, <1>5, <1>6, <1>7, <1>8, <1>9 DEF Next, Interrupted

\* What of "checks-before-create everywhere" (seed_demo_full.py:18) holds, and what it
\* rests on: if every step that claims to look for its items finds what it has posted
\* before, then no history of interrupted runs, refusals and arrivals makes a second copy
\* of a record, but of those that a step counts (seed_demo_full.py:335-352) or posts
\* without looking (:455, :573-575).
THEOREM NoOtherTwinsHolds ==
    ASSUME FindsItsOwn PROVE Spec => []NoOtherTwins
<1>1. Init => TwinInv
  <2> SUFFICES ASSUME Init PROVE TwinInv
    OBVIOUS
  <2>1. run.pc = "idle" /\ \A r \in Records : store[r] = 0
    BY DEF Init, Idle
  <2>2. FirstIsThere
    BY <2>1, ScriptFacts DEF FirstIsThere
  <2> QED BY <2>1, <2>2 DEF TwinInv, StillNew, FirstGoesAhead, NoTwins
<1>2. (IInv /\ TwinInv) /\ [Next]_vars => (IInv /\ TwinInv)'
  BY NextHolds, TwinNext
<1>3. TwinInv => NoOtherTwins
  BY DEF TwinInv, NoTwins, Unchecked, Posted, NoOtherTwins
<1> QED BY <1>1, <1>2, <1>3, InitHolds, PTL DEF Spec

-----------------------------------------------------------------------------
(* What is left out was interrupted *)

Reached(k) == Passed(k) \/ (run.pc = "post" /\ run.step = k)

\* All of the step is there, or what is not is left to post, or the step is still to come
\* and what its check counts or looks at is not there either.
Settled(k) ==
    \/ AllHeld(k)
    \/ /\ run.pc = "post" /\ run.step = k
       /\ \A i \in DOMAIN Script[k].items : i \in run.todo \/ Held(k, i)
    \/ /\ ~Reached(k)
       /\ Script[k].check \in {"empty", "headed", "topup"} => Stored(Script[k].scope) = {}

\* A run ended in the step or passed something over; where it did not go on to the step
\* that answers to this one, that one counts as interrupted too.
Lost(k) == k \in cut /\ (Script[k].expect /\ Script[k].check # "answers" => k + 1 \in cut)

Accounted == \A k \in DOMAIN Script : Settled(k) \/ Lost(k)

\* What is there, and what was interrupted, remains so.
Grows == /\ filled \subseteq filled' /\ cut \subseteq cut'
         /\ \A r \in Records : store[r] > 0 => store'[r] > 0

LEMMA LostStays ==
    ASSUME Grows, NEW k \in DOMAIN Script, Lost(k) PROVE Lost(k)'
  BY DEF Grows, Lost

LEMMA AllHeldStays ==
    ASSUME Grows, NEW k \in DOMAIN Script, AllHeld(k) PROVE AllHeld(k)'
  BY HeldStays DEF Grows, AllHeld

\* A step that no run is posting for is disturbed by nothing that is its own.
LEMMA Elsewhere ==
    ASSUME NEW k \in DOMAIN Script, Steady(k), Settled(k) \/ Lost(k), Grows,
           ~ (run.pc = "post" /\ run.step = k),
           Reached(k)' => Reached(k),
           \A r \in Records : store'[r] > 0 /\ ~ (store[r] > 0) => ~Own(k, r)
    PROVE  Settled(k)' \/ Lost(k)'
<1>1. CASE Lost(k)
  BY <1>1, LostStays
<1>2. CASE AllHeld(k)
  BY <1>2, AllHeldStays DEF Settled
<1>3. CASE /\ ~Reached(k)
           /\ Script[k].check \in {"empty", "headed", "topup"} => Stored(Script[k].scope) = {}
  <2> SUFFICES ASSUME Script[k].check \in {"empty", "headed", "topup"},
                      NEW r \in Script[k].scope, store'[r] > 0
               PROVE  FALSE
    BY <1>3 DEF Settled, Stored
  <2>1. r \in Records /\ ~ (store[r] > 0)
    BY <1>3, ScriptFacts DEF Step, Stored
  <2>2. Own(k, r)
    BY DEF Steady
  <2> QED BY <2>1, <2>2
<1> QED BY <1>1, <1>2, <1>3 DEF Settled

\* A step that a run is posting for, as long as what is marked off is there.
LEMMA Inside ==
    ASSUME Settled(run.step) \/ Lost(run.step), Grows,
           run.step \in DOMAIN Script, run.pc = "post",
           run'.pc = "post", run'.step = run.step,
           \A i \in DOMAIN Current.items :
               i \in run.todo => i \in run'.todo \/ Held(run.step, i)'
    PROVE  Settled(run.step)' \/ Lost(run.step)'
<1> DEFINE k == run.step
<1>1. CASE Lost(k)
  <2>1. Lost(k)' <=> (k \in cut' /\ (Script[k].expect /\ Script[k].check # "answers"
                                      => k + 1 \in cut'))
    BY DEF Lost
  <2> QED BY <1>1, <2>1 DEF Grows, Lost
<1>2. CASE AllHeld(k)
  <2>1. \A i \in DOMAIN Script[k].items : Held(k, i) /\ Script[k].items[i] \in Records
    BY <1>2, ScriptFacts DEF AllHeld
  <2>2. \A i \in DOMAIN Script[k].items : Held(k, i)'
    BY <2>1 DEF Held, Grows
  <2> QED BY <2>2 DEF Settled, AllHeld
<1>3. CASE \A i \in DOMAIN Script[k].items : i \in run.todo \/ Held(k, i)
  <2>1. ASSUME NEW i \in DOMAIN Script[k].items
        PROVE  i \in run'.todo \/ Held(k, i)'
    <3>1. Script[k].items[i] \in Records
      BY ScriptFacts
    <3>2. Held(k, i) => Held(k, i)'
      BY <3>1 DEF Held, Grows
    <3> QED BY <1>3, <3>2 DEF Current
  <2> QED BY <2>1 DEF Settled
<1> QED BY <1>1, <1>2, <1>3 DEF Settled, Reached

\* A run that marks off an item of its step that is there now.
LEMMA AccountedMark ==
    ASSUME IInv, AllSteady, Accounted, run.pc = "post", NEW i \in run.todo,
           run'.pc = "post", run'.step = run.step, run'.todo = run.todo \ {i}, Grows,
           \A r \in Records : store'[r] > 0 /\ ~ (store[r] > 0) => r = Current.items[i],
           Held(run.step, i)'
    PROVE  Accounted'
<1>1. run.step \in DOMAIN Script /\ i \in DOMAIN Current.items
  BY DEF IInv, TypeOK, Bookkeeping
<1> SUFFICES ASSUME NEW k \in DOMAIN Script PROVE Settled(k)' \/ Lost(k)'
  BY DEF Accounted
<1>2. CASE k = run.step
  <2>1. Settled(run.step) \/ Lost(run.step)
    BY <1>1 DEF Accounted
  <2>2. \A j \in DOMAIN Current.items :
          j \in run.todo => j \in run'.todo \/ Held(run.step, j)'
    OBVIOUS
  <2>3. Settled(run.step)' \/ Lost(run.step)'
    BY <1>1, <2>1, <2>2, Inside
  <2> QED BY <1>2, <2>3 DEF Settled, Lost, Reached, Passed, AllHeld, Held
<1>3. CASE k # run.step
  <2>1. Reached(k)' => Reached(k)
    BY DEF Reached, Passed
  <2>2. \A r \in Records : store'[r] > 0 /\ ~ (store[r] > 0) => ~Own(k, r)
    BY <1>1, <1>3 DEF Own, Posted, Current
  <2> QED BY <1>3, <2>1, <2>2, Elsewhere DEF AllSteady, Accounted
<1> QED BY <1>2, <1>3

\* A run that ends in its step.
LEMMA AccountedEnd ==
    ASSUME IInv, AllSteady, Accounted, run.step \in DOMAIN Script, run'.pc = "idle",
           store' = store, filled' = filled, cut' = cut \cup {run.step, run.step + 1}
    PROVE  Accounted'
<1> SUFFICES ASSUME NEW k \in DOMAIN Script PROVE Settled(k)' \/ Lost(k)'
  BY DEF Accounted
<1>1. CASE k = run.step
  BY <1>1 DEF Lost
<1>2. CASE k # run.step
  <2>1. Grows /\ ~Reached(k)'
    BY DEF Grows, Reached, Passed
  <2> QED BY <1>2, <2>1, Elsewhere DEF AllSteady, Accounted
<1> QED BY <1>1, <1>2

LEMMA AccountedLook ==
    ASSUME IInv, IInv', AllSteady, Accounted, Look PROVE Accounted'
<1>1. /\ run \in Run /\ run.pc = "look" /\ run.step \in DOMAIN Script /\ Current \in Step
      /\ store' = store /\ filled' = filled /\ cut' = cut
  BY ScriptFacts DEF IInv, TypeOK, Look, Current
<1>2. PICK seen \in IF Current.reads THEN Readable(Current) ELSE {run.seen} :
        run' = [run EXCEPT !.pc = "post", !.seen = seen, !.todo = Missing(Current, seen),
                           !.made = FALSE]
  BY DEF Look
<1>3. /\ run'.pc = "post" /\ run'.seen = seen /\ run'.todo = Missing(Current, seen)
      /\ run'.step = run.step
  BY <1>1, <1>2 DEF Run
<1>4. Grows
  BY <1>1 DEF Grows
<1>5. ASSUME ~Reached(run.step), ~Lost(run.step),
             Current.check \in {"empty", "headed", "topup"} => Stored(Current.scope) = {},
             NEW i \in DOMAIN Current.items
      PROVE  i \in Missing(Current, seen) \/ Held(run.step, i)
  <2>1. Steady(run.step)
    BY <1>1 DEF AllSteady
  <2>2. CASE Current.check = "missing"
    <3>1. \A r \in seen : store[r] > 0
      BY <1>1, <1>3 DEF IInv, Bookkeeping
    <3> QED BY <2>2, <3>1 DEF Missing, Held, Current
  <2>3. CASE Current.check \in {"always", "reset", "enrich"}
    BY <2>3 DEF Missing
  <2>4. CASE Current.check \in {"empty", "headed"}
    <3>1. Current.reads /\ seen \in Readable(Current)
      BY <1>2, <2>1, <2>4 DEF Steady, Current
    <3>2. seen = {}
      BY <1>1, <1>5, <2>4, <3>1, ReadsNothing
    <3> QED BY <2>4, <3>2 DEF Missing
  <2>5. CASE Current.check = "topup"
    <3>1. \A r \in Current.scope : ~ (store[r] > 0) /\ store[r] \in Nat
      BY <1>1, <1>5, <2>5, BoundsAssumption DEF Stored, Step, IInv, TypeOK
    <3>2. {c \in Current.scope \X (1..MaxCopies) : c[2] <= store[c[1]]} = {}
      BY <3>1, BoundsAssumption
    <3>3. Copies(Current.scope) = 0
      BY <3>2, FS_EmptySet DEF Copies
    <3>4. Len(Current.items) > 0
      BY <1>1 DEF Step
    <3> QED BY <2>5, <3>3, <3>4 DEF Missing
  <2>6. CASE Current.check = "answers"
    <3> DEFINE p == run.step - 1
    <3>1. /\ p \in DOMAIN Script /\ Script[p].expect /\ Script[p].check # "answers"
          /\ Current.reads /\ (Current.paged \/ PageSize > 0)
          /\ Posted(p) \cap Current.scope # {}
      BY <2>1, <2>6 DEF Steady, Current
    <3>2. run.step \in Nat /\ Passed(p) /\ p + 1 = run.step
      BY <1>1, ScriptFacts DEF Passed
    <3>3. ~Lost(p)
      BY <1>5, <2>6, <3>1, <3>2 DEF Lost, Current
    <3>4. AllHeld(p)
      BY <1>1, <3>1, <3>2, <3>3 DEF Accounted, Settled, Reached
    <3>5. PICK j \in DOMAIN Script[p].items : Script[p].items[j] \in Current.scope
      BY <3>1 DEF Posted
    <3>6. Script[p].items[j] \in Stored(Current.scope)
      BY <3>4, <3>5 DEF AllHeld, Held, Stored
    <3>7. seen # {}
      BY <1>1, <1>2, <3>1, <3>6, ReadsNothing
    <3> QED BY <2>6, <3>7 DEF Missing
  <2> QED BY <2>1, <2>2, <2>3, <2>4, <2>5, <2>6 DEF Steady, Current
<1> SUFFICES ASSUME NEW k \in DOMAIN Script PROVE Settled(k)' \/ Lost(k)'
  BY DEF Accounted
<1>6. CASE k = run.step
  <2>1. CASE Lost(k)
    BY <1>4, <2>1, LostStays
  <2>2. CASE AllHeld(k)
    BY <1>4, <2>2, AllHeldStays DEF Settled
  <2>3. CASE ~Lost(k) /\ ~AllHeld(k)
    <3>1. /\ ~Reached(k)
          /\ Script[k].check \in {"empty", "headed", "topup"}
               => Stored(Script[k].scope) = {}
      BY <1>1, <2>3 DEF Accounted, Settled
    <3>2. \A i \in DOMAIN Script[k].items : i \in run'.todo \/ Held(k, i)
      BY <1>3, <1>5, <1>6, <2>3, <3>1 DEF Current
    <3> QED BY <1>1, <1>3, <1>6, <3>2 DEF Settled, Held
  <2> QED BY <2>1, <2>2, <2>3
<1>7. CASE k # run.step
  <2>1. Reached(k)' => Reached(k)
    BY <1>1, <1>3, <1>7 DEF Reached, Passed
  <2> QED BY <1>1, <1>4, <2>1, Elsewhere DEF AllSteady, Accounted
<1> QED BY <1>6, <1>7

LEMMA AccountedPatch ==
    ASSUME IInv, AllSteady, Accounted, NEW i \in run.todo, Patch(i) PROVE Accounted'
<1>1. /\ run \in Run /\ run.pc = "post" /\ Current.items[i] \in run.seen
      /\ filled' = filled \cup {Current.items[i]}
      /\ run' = [run EXCEPT !.todo = run.todo \ {i}] /\ UNCHANGED <<store, cut>>
  BY DEF Patch, Turn, IInv, TypeOK
<1>2. run'.pc = "post" /\ run'.step = run.step /\ run'.todo = run.todo \ {i}
  BY <1>1 DEF Run
<1>3. Held(run.step, i)'
  BY <1>1, <1>2 DEF IInv, Bookkeeping, Held, Current
<1> QED BY <1>1, <1>2, <1>3, AccountedMark DEF Grows

LEMMA AccountedRecompute ==
    ASSUME IInv, AllSteady, Accounted, NEW i \in run.todo, Recompute(i) PROVE Accounted'
<1> DEFINE r == Current.items[i]
<1>1. /\ run \in Run /\ run.pc = "post" /\ Current.check \in {"reset", "created"}
      /\ store' = [store EXCEPT ![r] = 1]
      /\ run' = [run EXCEPT !.todo = run.todo \ {i}] /\ UNCHANGED <<filled, cut>>
  BY DEF Recompute, Turn, IInv, TypeOK
<1>2. run'.pc = "post" /\ run'.step = run.step /\ run'.todo = run.todo \ {i}
  BY <1>1 DEF Run
<1>3. r \in Records /\ store \in [Records -> 0..MaxCopies]
  BY <1>1, ScriptFacts DEF IInv, TypeOK, Bookkeeping, Current
<1>4. store'[r] = 1 /\ \A q \in Records \ {r} : store'[q] = store[q]
  BY <1>1, <1>3
<1>5. Held(run.step, i)'
  BY <1>1, <1>2, <1>4 DEF Held, Current
<1>6. /\ \A q \in Records : store[q] > 0 => store'[q] > 0
      /\ \A q \in Records : store'[q] > 0 /\ ~ (store[q] > 0) => q = r
  BY <1>4
<1> QED BY <1>1, <1>2, <1>5, <1>6, AccountedMark DEF Grows

LEMMA AccountedCreate ==
    ASSUME IInv, AllSteady, Accounted, NEW i \in run.todo, Create(i) PROVE Accounted'
<1> DEFINE r == Current.items[i]
<1>1. /\ run \in Run /\ run.pc = "post"
      /\ store' = [store EXCEPT ![r] = IF store[r] < MaxCopies THEN store[r] + 1 ELSE store[r]]
      /\ filled' = filled \cup {r}
      /\ run' = [run EXCEPT !.todo = run.todo \ {i}, !.made = TRUE] /\ UNCHANGED cut
  BY DEF Create, Turn, IInv, TypeOK
<1>2. run'.pc = "post" /\ run'.step = run.step /\ run'.todo = run.todo \ {i}
  BY <1>1 DEF Run
<1>3. r \in Records /\ store \in [Records -> 0..MaxCopies]
  BY <1>1, ScriptFacts DEF IInv, TypeOK, Bookkeeping, Current
<1>4. store'[r] > 0 /\ \A q \in Records \ {r} : store'[q] = store[q]
  BY <1>1, <1>3, BoundsAssumption
<1>5. Held(run.step, i)'
  BY <1>1, <1>2, <1>4 DEF Held, Current
<1>6. /\ \A q \in Records : store[q] > 0 => store'[q] > 0
      /\ \A q \in Records : store'[q] > 0 /\ ~ (store[q] > 0) => q = r
  BY <1>4
<1> QED BY <1>1, <1>2, <1>5, <1>6, AccountedMark DEF Grows

\* What is refused is there.
LEMMA AccountedRefuse ==
    ASSUME IInv, AllSteady, Accounted, NEW i \in run.todo, Refuse(i) PROVE Accounted'
<1>1. /\ run \in Run /\ run.step \in DOMAIN Script /\ run.pc = "post"
      /\ Refused(Current.items[i]) /\ UNCHANGED <<store, filled>>
  BY DEF Refuse, Turn, IInv, TypeOK
<1>2. CASE Current.expect
  <2>1. run'.pc = "idle" /\ cut' = cut \cup {run.step, run.step + 1}
    BY <1>2 DEF Refuse, Idle
  <2> QED BY <1>1, <2>1, AccountedEnd
<1>3. CASE ~Current.expect
  <2>1. run' = [run EXCEPT !.todo = run.todo \ {i}] /\ UNCHANGED cut
    BY <1>3 DEF Refuse
  <2>2. run'.pc = "post" /\ run'.step = run.step /\ run'.todo = run.todo \ {i}
    BY <1>1, <2>1 DEF Run
  <2>3. Current.check # "enrich"
    BY <1>1, <1>3 DEF AllSteady, Steady, Current
  <2>4. Held(run.step, i)'
    BY <1>1, <2>2, <2>3 DEF Refused, Held, Current
  <2> QED BY <1>1, <2>1, <2>2, <2>4, AccountedMark DEF Grows
<1> QED BY <1>2, <1>3

LEMMA AccountedPassOver ==
    ASSUME IInv, AllSteady, Accounted, NEW i \in run.todo, PassOver(i) PROVE Accounted'
<1>1. /\ run \in Run /\ run.step \in DOMAIN Script /\ run.pc = "post" /\ ~Current.expect
      /\ run'.pc = run.pc /\ run'.step = run.step /\ cut' = cut \cup {run.step}
      /\ UNCHANGED <<store, filled>>
  BY DEF PassOver, Turn, IInv, TypeOK, Run
<1> SUFFICES ASSUME NEW k \in DOMAIN Script PROVE Settled(k)' \/ Lost(k)'
  BY DEF Accounted
<1>2. CASE k = run.step
  BY <1>1, <1>2 DEF Lost, Current
<1>3. CASE k # run.step
  <2>1. Grows /\ (Reached(k)' => Reached(k))
    BY <1>1 DEF Grows, Reached, Passed
  <2> QED BY <1>1, <1>3, <2>1, Elsewhere DEF AllSteady, Accounted
<1> QED BY <1>2, <1>3

LEMMA AccountedNextStep ==
    ASSUME IInv, AllSteady, Accounted, NextStep PROVE Accounted'
<1>1. /\ run.pc = "post" /\ run.todo = {} /\ run.step \in DOMAIN Script
      /\ UNCHANGED <<store, filled, cut>>
  BY DEF NextStep, IInv, TypeOK
<1>2. \/ run.step = Len(Script) /\ run'.pc = "ready"
      \/ run.step # Len(Script) /\ run'.pc = "look" /\ run'.step = run.step + 1
  BY DEF NextStep, Idle
<1> SUFFICES ASSUME NEW k \in DOMAIN Script PROVE Settled(k)' \/ Lost(k)'
  BY DEF Accounted
<1>3. CASE k = run.step
  <2>1. AllHeld(k) \/ Lost(k)
    BY <1>1, <1>3 DEF Accounted, Settled, Reached, AllHeld
  <2> QED BY <1>1, <2>1 DEF Settled, AllHeld, Held, Lost
<1>4. CASE k # run.step
  <2>1. Grows
    BY <1>1 DEF Grows
  <2>2. Reached(k)' => Reached(k)
    BY <1>1, <1>2, <1>4, ScriptFacts DEF Reached, Passed
  <2> QED BY <1>1, <1>4, <2>1, <2>2, Elsewhere DEF AllSteady, Accounted
<1> QED BY <1>3, <1>4

LEMMA AccountedArrive ==
    ASSUME IInv, AllSteady, Accounted, NEW r \in Arrivals, Arrive(r) PROVE Accounted'
<1>1. /\ r \in Records /\ store \in [Records -> 0..MaxCopies]
      /\ store' = [store EXCEPT ![r] = 1] /\ store[r] = 0 /\ UNCHANGED <<filled, run, cut>>
  BY ArrivalsAssumption DEF Arrive, IInv, TypeOK
<1>2. store'[r] = 1 /\ \A q \in Records \ {r} : store'[q] = store[q]
  BY <1>1
<1>3. Grows
  BY <1>1, <1>2 DEF Grows
<1> SUFFICES ASSUME NEW k \in DOMAIN Script PROVE Settled(k)' \/ Lost(k)'
  BY DEF Accounted
<1>4. CASE run.pc = "post" /\ run.step = k
  <2>1. Settled(run.step)' \/ Lost(run.step)'
    BY <1>1, <1>3, <1>4, Inside DEF Accounted
  <2> QED BY <1>1, <1>4, <2>1 DEF Settled, Lost, Reached, Passed, AllHeld, Held
<1>5. CASE ~ (run.pc = "post" /\ run.step = k)
  <2>1. Reached(k)' => Reached(k)
    BY <1>1 DEF Reached, Passed
  <2>2. \A q \in Records : store'[q] > 0 /\ ~ (store[q] > 0) => ~Own(k, q)
    BY <1>2 DEF Own
  <2> QED BY <1>3, <1>5, <2>1, <2>2, Elsewhere DEF AllSteady, Accounted
<1> QED BY <1>4, <1>5

LEMMA AccountedNext ==
    ASSUME IInv, AllSteady, Accounted, [Next]_vars PROVE Accounted'
<1>1. IInv'
  BY NextHolds
<1>2. CASE Begin
  <2>1. /\ run.pc \in {"idle", "ready"} /\ run'.pc = "look" /\ run'.step = 1
        /\ UNCHANGED <<store, filled, cut>>
    BY <1>2 DEF Begin, Idle
  <2>2. Grows /\ \A k \in DOMAIN Script : ~Reached(k)'
    BY <2>1, ScriptFacts DEF Grows, Reached, Passed
  <2>3. \A k \in DOMAIN Script : Settled(k)' \/ Lost(k)'
    BY <2>1, <2>2, Elsewhere DEF AllSteady, Accounted
  <2> QED BY <2>3 DEF Accounted
<1>3. CASE Look
  BY <1>1, <1>3, AccountedLook
<1>4. CASE Posts
  BY <1>4, AccountedPatch, AccountedRecompute, AccountedCreate, AccountedRefuse DEF Posts
<1>5. CASE NextStep
  BY <1>5, AccountedNextStep
<1>6. CASE Die
  <2>1. /\ run.step \in DOMAIN Script /\ run'.pc = "idle" /\ store' = store
        /\ filled' = filled /\ cut' = cut \cup {run.step, run.step + 1}
    BY <1>6 DEF Die, Idle, IInv, TypeOK
  <2> QED BY <2>1, AccountedEnd
<1>7. CASE \E i \in run.todo : PassOver(i)
  BY <1>7, AccountedPassOver
<1>8. CASE \E r \in Arrivals : Arrive(r)
  BY <1>8, AccountedArrive
<1>9. CASE UNCHANGED vars
  BY <1>9 DEF vars, Accounted, Settled, Lost, Reached, Passed, AllHeld, Held, Stored
<1> QED BY <1>2, <1>3, <1>4, <1>5, <1>6, <1>7, <1>8, <1>9 DEF Next, Interrupted

\* What a run that ends with "Demo ready" leaves out is what an earlier run was interrupted
\* in or passed over: for a script whose all-or-nothing steps list what they alone create
\* (seed_demo_full.py:310-454), no order of steps, refusals and arrivals makes
\* anything else go missing.
THEOREM OnlyInterruptedHolds ==
    ASSUME AllSteady PROVE Spec => []OnlyInterruptedStepsIncomplete
<1>1. Init => Accounted
  <2> SUFFICES ASSUME Init, NEW k \in DOMAIN Script PROVE Settled(k)
    BY DEF Accounted
  <2>1. run.pc = "idle" /\ \A r \in Records : store[r] = 0
    BY DEF Init, Idle
  <2>2. Stored(Script[k].scope) = {}
    BY <2>1, ScriptFacts DEF Stored, Step
  <2> QED BY <2>1, <2>2 DEF Settled, Reached, Passed
<1>2. (IInv /\ Accounted) /\ [Next]_vars => (IInv /\ Accounted)'
  BY NextHolds, AccountedNext
<1>3. Accounted => OnlyInterruptedStepsIncomplete
  BY DEF Accounted, Settled, Reached, Passed, Lost, OnlyInterruptedStepsIncomplete
<1> QED BY <1>1, <1>2, <1>3, InitHolds, PTL DEF Spec
=============================================================================

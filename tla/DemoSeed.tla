------------------------------ MODULE DemoSeed ------------------------------
(***************************************************************************)
(* Runs of a seed script (scripts/seed_demo.py, seed_demo_full.py): a      *)
(* sequence of steps, each of which asks a service what is there and posts *)
(* what its check finds missing.  A run may end anywhere: a post is        *)
(* refused, a request times out, the process is killed; and then the       *)
(* script is run again.  The services are external: a store of records     *)
(* that refuses a second record of some kinds, and into which others put   *)
(* records too.  The scripts themselves are in DemoStory.                  *)
(***************************************************************************)
EXTENDS Integers, Sequences, FiniteSets

CONSTANTS
    Records,    \* what the services may hold: pairs of a kind and a name
    Script,     \* the steps of the script
    Keyed,      \* kinds of which a service refuses a second record of a name
    Arrivals,   \* records others create: provisioned profiles, ingested rows
    PageSize,   \* page_size of the list endpoints
    MaxCopies,  \* the copies of a record that are told apart: so many, or more
    MaxCut      \* bound on the steps that runs are interrupted in

\* What makes a step post a record of its items, given what it has read:
\*   missing: it is not among the records.     enrich: it is patched if it is.
\*   empty: there is no record at all.         headed: the first one is not there.
\*   topup: there are fewer than the items.    answers: there is what to answer to.
\*   created: the step before has created something.
\*   always: no check, and a record more each time.        reset: no check, and no more.
Checks == {"missing", "enrich", "empty", "headed", "topup", "answers", "created",
           "always", "reset"}

\* scope: the records the GET of the step lists.  paged: whether it follows the pages.
\* reads: FALSE if the step goes by what the step before it has read.  expect: whether a
\* post that is refused raises StepFailed, or is passed over.
Step == [check : Checks, scope : SUBSET Records, items : Seq(Records),
         paged : BOOLEAN, reads : BOOLEAN, expect : BOOLEAN]

ASSUME ScriptAssumption == Script \in Seq(Step) /\ Script # <<>>
ASSUME BoundsAssumption ==
    PageSize \in Nat /\ MaxCopies \in Nat \ {0} /\ MaxCut \in Nat
ASSUME ArrivalsAssumption == Arrivals \subseteq Records

VARIABLES
    store,      \* how many copies of each record there are
    filled,     \* the records that hold the data of the script
    run,        \* the run of the script
    cut         \* the steps a run ended in or passed something over in

vars == <<store, filled, run, cut>>

\* seen: what the step has read.  todo: the positions of its items left to post.
\* made: the variable created of the step.  whole: whether the story was complete when
\* the run began (read by properties only).
Run == [pc : {"idle", "look", "post", "ready"}, step : Nat, seen : SUBSET Records,
        todo : SUBSET Nat, made : BOOLEAN, whole : BOOLEAN]

Idle == [pc |-> "idle", step |-> 0, seen |-> {}, todo |-> {}, made |-> FALSE,
         whole |-> FALSE]

Current == Script[run.step]

Init == /\ store = [r \in Records |-> 0]
        /\ filled = {}
        /\ run = Idle
        /\ cut = {}

\* An item of a step is there, with the data of the script if the step patches it.
Held(k, i) == /\ store[Script[k].items[i]] > 0
              /\ Script[k].check = "enrich" => Script[k].items[i] \in filled

AllHeld(k) == \A i \in DOMAIN Script[k].items : Held(k, i)

\* The script is started, for the first time or again.
Begin ==
    /\ run.pc \in {"idle", "ready"}
    /\ run' = [Idle EXCEPT !.pc = "look", !.step = 1,
                          !.whole = \A k \in DOMAIN Script : AllHeld(k)]
    /\ UNCHANGED <<store, filled, cut>>

Stored(scope) == {r \in scope : store[r] > 0}

\* Faulty variant: only the first page is read, in every step.
BugFirstPage(s) ==
    IF Cardinality(Stored(s.scope)) <= PageSize THEN {Stored(s.scope)}
    ELSE {page \in SUBSET Stored(s.scope) : Cardinality(page) = PageSize}

\* Nothing of the list is out of the step's view.
InView(s) == s.paged \/ Cardinality(Stored(s.scope)) <= PageSize

\* What a step may read: everything, or a first page in the order of the service.
Readable(s) ==
    IF InView(s) THEN {Stored(s.scope)}
    ELSE {page \in SUBSET Stored(s.scope) : Cardinality(page) = PageSize}

\* How many records a list shows, copies included.
Copies(scope) == Cardinality({c \in scope \X (1..MaxCopies) : c[2] <= store[c[1]]})

\* Faulty variants: a check that takes one item for all of them; and no check in the
\* steps whose list is not that of their items.
BugAnyThere(s, seen) ==
    IF \E i \in DOMAIN s.items : s.items[i] \in seen THEN {} ELSE DOMAIN s.items
BugOnlyMissing(s, seen) ==
    {i \in DOMAIN s.items : s.check = "missing" => s.items[i] \notin seen}

\* The positions of the items a step posts, in the order of the positions.
Missing(s, seen) ==
    CASE s.check = "missing" -> {i \in DOMAIN s.items : s.items[i] \notin seen}
      [] s.check = "empty" -> IF seen = {} THEN DOMAIN s.items ELSE {}
      [] s.check = "headed" -> IF s.items[1] \in seen THEN {} ELSE DOMAIN s.items
      [] s.check = "topup" -> IF Copies(s.scope) < Len(s.items) THEN DOMAIN s.items ELSE {}
      [] s.check = "answers" -> IF seen = {} THEN {} ELSE DOMAIN s.items
      [] s.check = "created" -> IF run.made THEN DOMAIN s.items ELSE {}
      [] OTHER -> DOMAIN s.items

\* The GET of a step, if it has one.
Look ==
    /\ run.pc = "look"
    /\ \E seen \in IF Current.reads THEN Readable(Current) ELSE {run.seen} :
         run' = [run EXCEPT !.pc = "post", !.seen = seen, !.todo = Missing(Current, seen),
                            !.made = FALSE]
    /\ UNCHANGED <<store, filled, cut>>

\* The next post of a step is for the item at position i.
Turn(i) == /\ run.pc = "post"
           /\ i \in run.todo
           /\ \A j \in run.todo : i <= j

\* Whether the service refuses the post: it has such a record.
Refused(r) == r[1] \in Keyed /\ store[r] > 0

\* PATCH of a record that was there.
Patch(i) ==
    /\ Turn(i)
    /\ Current.check = "enrich" /\ Current.items[i] \in run.seen
    /\ filled' = filled \cup {Current.items[i]}
    /\ run' = [run EXCEPT !.todo = @ \ {i}]
    /\ UNCHANGED <<store, cut>>

\* Faulty variant: what was posted before is refused, and the run fails.
BugRecompute(i) ==
    /\ Turn(i)
    /\ Current.check \in {"reset", "created"}
    /\ store' = [store EXCEPT ![Current.items[i]] = 1]
    /\ run' = IF store[Current.items[i]] = 0 THEN [run EXCEPT !.todo = @ \ {i}] ELSE Idle
    /\ UNCHANGED <<filled, cut>>

\* A post that resets the demo data of a service, or runs a detection over it: repeated,
\* it leaves what it left before.
Recompute(i) ==
    /\ Turn(i)
    /\ Current.check \in {"reset", "created"}
    /\ store' = [store EXCEPT ![Current.items[i]] = 1]
    /\ run' = [run EXCEPT !.todo = @ \ {i}]
    /\ UNCHANGED <<filled, cut>>

\* A post that creates a record, one more of those that are there.
Create(i) ==
    LET r == Current.items[i] IN
    /\ Turn(i)
    /\ Current.check \notin {"reset", "created"}
    /\ ~ (Current.check = "enrich" /\ r \in run.seen)
    /\ ~Refused(r)
    /\ store' = [store EXCEPT ![r] = IF @ < MaxCopies THEN @ + 1 ELSE @]
    /\ filled' = filled \cup {r}
    /\ run' = [run EXCEPT !.todo = @ \ {i}, !.made = TRUE]
    /\ UNCHANGED cut

\* A post of a record that is there: StepFailed, or passed over.
Refuse(i) ==
    LET r == Current.items[i] IN
    /\ Turn(i)
    /\ Current.check \notin {"reset", "created"}
    /\ ~ (Current.check = "enrich" /\ r \in run.seen)
    /\ Refused(r)
    /\ IF Current.expect THEN run' = Idle /\ cut' = cut \cup {run.step, run.step + 1}
       ELSE run' = [run EXCEPT !.todo = @ \ {i}] /\ UNCHANGED cut
    /\ UNCHANGED <<store, filled>>

\* Faulty variant: no step looks at the answers to its posts.
BugPassOver(i) ==
    /\ Turn(i)
    /\ Cardinality(cut) < MaxCut
    /\ run' = [run EXCEPT !.todo = @ \ {i}]
    /\ cut' = cut \cup {run.step}
    /\ UNCHANGED <<store, filled>>

\* A post fails for another reason, and the script does not look at the answer.  The
\* rest of a headed step depends on its first post.
PassOver(i) ==
    /\ Turn(i)
    /\ Cardinality(cut) < MaxCut
    /\ ~Current.expect
    /\ run' = [run EXCEPT !.todo = IF Current.check = "headed" /\ i = 1 THEN {}
                                   ELSE @ \ {i}]
    /\ cut' = cut \cup {run.step}
    /\ UNCHANGED <<store, filled>>

\* A post that is looked at fails (StepFailed), a request raises, or the process is
\* killed.
Die ==
    /\ run.pc \in {"look", "post"}
    /\ Cardinality(cut) < MaxCut
    /\ run' = Idle
    /\ cut' = cut \cup {run.step, run.step + 1}
    /\ UNCHANGED <<store, filled>>

\* The step has nothing left to post.
NextStep ==
    /\ run.pc = "post"
    /\ run.todo = {}
    /\ run' = IF run.step = Len(Script) THEN [Idle EXCEPT !.pc = "ready"]
              ELSE [Idle EXCEPT !.pc = "look", !.step = run.step + 1, !.seen = run.seen,
                            !.made = run.made, !.whole = run.whole]
    /\ UNCHANGED <<store, filled, cut>>

\* Others create a record: the provisioning of a profile at registration, or the
\* ingest of a burnout alert.
Arrive(r) ==
    /\ store[r] = 0
    /\ store' = [store EXCEPT ![r] = 1]
    /\ UNCHANGED <<filled, run, cut>>

Posts == \E i \in run.todo : Patch(i) \/ Recompute(i) \/ Create(i) \/ Refuse(i)
Interrupted == Die \/ \E i \in run.todo : PassOver(i)

Next == \/ Begin \/ Look \/ Posts \/ NextStep
        \/ Interrupted
        \/ \E r \in Arrivals : Arrive(r)

Spec == Init /\ [][Next]_vars

\* A run goes on, and whoever runs the script starts it again.
FairSpec == Spec /\ WF_vars(Begin \/ Look \/ Posts \/ NextStep)

-----------------------------------------------------------------------------
TypeOK ==
    /\ store \in [Records -> 0..MaxCopies]
    /\ filled \subseteq Records
    /\ run \in Run /\ (run.pc \in {"look", "post"} => run.step \in DOMAIN Script)
    /\ cut \subseteq Nat

\* "Idempotent: safe to run repeatedly" (seed_demo.py:16), the part that holds of every
\* script and every history of interrupted runs, refusals and arrivals: the steps that
\* look for each of their items are complete once a run has passed them.
Passed(k) == run.pc = "ready" \/ (run.pc \in {"look", "post"} /\ k < run.step)

CheckedStepsComplete ==
    \A k \in DOMAIN Script :
        /\ Passed(k) /\ Script[k].expect
        /\ Script[k].check \in {"missing", "enrich", "always", "reset"}
        => AllHeld(k)

\* The whole claim: the story is complete when a run ends with "Demo ready".
ReadyMeansComplete == run.pc = "ready" => \A k \in DOMAIN Script : AllHeld(k)

\* What a run that ends well leaves out is what an earlier one was interrupted in (or
\* passed over): nothing goes missing by the order of steps and arrivals alone.
OnlyInterruptedStepsIncomplete ==
    run.pc = "ready" => \A k \in DOMAIN Script \ cut : AllHeld(k)

\* What of "checks-before-create everywhere" (seed_demo_full.py:18) holds: no record is
\* created a second time, but for those of the steps that do not look for them.  Of
\* seed_demo_full.py these are the goals, which it counts (:335-352), and the scores and
\* the policy simulations, which it posts on every run (:455, :573-575).
NoOtherTwins ==
    \A r \in Records : store[r] > 1 =>
        \E k \in DOMAIN Script : /\ Script[k].check \in {"topup", "always"}
                                 /\ \E i \in DOMAIN Script[k].items : Script[k].items[i] = r

\* A step never sets out to create what the service, when asked, already had and will
\* refuse: that would end this run and every later one (platform_client.py:85-87).  The
\* exception is what these lines warn of: the lists that are read without following
\* their pages, those of departments (seed_demo_full.py:156) and most of seed_demo.py's.
Sets(s, i) == /\ s.expect /\ s.check \in {"missing", "enrich", "empty", "headed"}
              /\ ~ (s.check = "enrich" /\ s.items[i] \in run'.seen)

NoSpuriousConflict ==
    [][Look /\ Current.reads /\ InView(Current) =>
         \A i \in run'.todo : Sets(Current, i) => ~Refused(Current.items[i])]_vars

\* Run again and again, the script ends with "Demo ready" once nothing interrupts it,
\* unless such a list outgrows its page: then no later run need end.
OutOfSight ==
    \E k \in DOMAIN Script :
        LET s == Script[k] IN
        /\ s.expect /\ ~InView(s)
        /\ \E i \in DOMAIN s.items : s.items[i][1] \in Keyed

SeedSettles == <>[][~Interrupted]_vars => []<>(run.pc = "ready") \/ <>OutOfSight

-----------------------------------------------------------------------------
(* What a script has to be like for the last three of the safety properties *)

\* The GET of the step shows all there is.
ReadsAll(s) ==
    s.reads /\ (s.paged \/ (IsFiniteSet(s.scope) /\ Cardinality(s.scope) <= PageSize))

Posted(k) == {Script[k].items[i] : i \in DOMAIN Script[k].items}

\* Only step k brings the record into being.
Own(k, r) == r \notin Arrivals /\ \A j \in DOMAIN Script \ {k} : r \notin Posted(j)

Key(r) == r[1] \in Keyed

\* A step finds out whether its item i is there: the item itself is in its list, or the
\* first item is, which goes ahead of the others.
Asks(s, i) == s.check \in {"missing", "enrich"} /\ s.items[i] \in s.scope \ Arrivals
Follows(k, i) ==
    LET s == Script[k] IN
    /\ s.check \in {"empty", "headed"} /\ (s.check = "empty" => s.expect)
    /\ s.items[1] \in s.scope /\ Own(k, s.items[i])

\* Every step but those that count, reset or do not look finds what it has posted before.
FindsItsOwn ==
    \A k \in DOMAIN Script :
        LET s == Script[k] IN
        \/ s.check \in {"always", "reset", "created", "topup"}
        \/ /\ \A i, j \in DOMAIN s.items : s.items[i] = s.items[j] => i = j
           /\ \A i \in DOMAIN s.items :
                Key(s.items[i]) \/ (ReadsAll(s) /\ (Asks(s, i) \/ Follows(k, i)))

\* A step that insists on its posts lists all records that could be in their way.
SeesConflicts ==
    \A k \in DOMAIN Script :
        LET s == Script[k] IN
        s.expect /\ s.reads /\ s.check \in {"missing", "enrich", "empty", "headed"} =>
            \A i \in DOMAIN s.items :
                Key(s.items[i]) => /\ s.items[i] \in s.scope
                                   /\ s.check = "headed" => i = 1

\* A step that leaves its items out when it finds something lists what it alone creates.
\* One that answers comes after one that insists on creating what it answers to.
Steady(k) ==
    LET s == Script[k] IN
    \/ s.check \in {"missing", "always", "reset"} \/ (s.check = "enrich" /\ s.expect)
    \/ s.check \in {"empty", "headed", "topup"} /\ s.reads /\ \A r \in s.scope : Own(k, r)
    \/ /\ s.check = "answers" /\ s.reads /\ (s.paged \/ PageSize > 0)
       /\ k - 1 \in DOMAIN Script /\ Script[k - 1].expect
       /\ Script[k - 1].check # "answers" /\ Posted(k - 1) \cap s.scope # {}

AllSteady == \A k \in DOMAIN Script : Steady(k)
=============================================================================

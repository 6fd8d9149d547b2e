-------------------------- MODULE FullSeedSession --------------------------
(***************************************************************************)
(* Sessions of the seed scripts from the login to "ready": overlapping     *)
(* runs obtain their accounts (DemoAccounts), and full ones go on to the   *)
(* retention story (RetentionQueue).  Requests are throttled, refused or   *)
(* lost, tokens expire and runs are killed; runs are repeated.             *)
(***************************************************************************)
EXTENDS RetentionQueue

Ended(r) == run[r].pc \in {"ready", "failed", "down", "dead"}
Active(r) == run[r].pc # "idle" /\ ~Ended(r)

\* The access token of a run expires.
Expire(r) ==
    /\ Active(r) /\ run[r].live
    /\ Set(r, [run[r] EXCEPT !.live = FALSE])
    /\ UNCHANGED <<accounts, retentionVars>>

\* A run is killed, or dies of a lost answer that left nothing behind.
Die(r) ==
    /\ Active(r)
    /\ Set(r, [run[r] EXCEPT !.pc = "dead"])
    /\ slipped' = IF run[r].pc = "outcome" THEN slipped \cup {First(r)} ELSE slipped
    /\ UNCHANGED <<accounts, rows, conv, actions>>

Exit(r) ==
    /\ Ended(r)
    /\ Set(r, Idle)
    /\ UNCHANGED <<accounts, retentionVars>>

Kinds == {"small", "full"}

Start(r) == \E kind \in Kinds : StartRun(r, kind) /\ UNCHANGED retentionVars
Works(r) == (AccountSteps(r) /\ UNCHANGED retentionVars) \/ RetentionSteps(r)
Fault(r) == \/ (AccountFaults(r) \/ \E kind \in Kinds : ServicesDown(r, kind))
                  /\ UNCHANGED retentionVars
            \/ RetentionFaults(r) \/ Expire(r) \/ Die(r)

Init == /\ accounts = {}
        /\ run = [r \in Runs |-> Idle]
        /\ RetentionInit

Next == \/ HumanReview
        \/ \E r \in Runs : Start(r) \/ Works(r) \/ Fault(r) \/ Exit(r)

Spec == Init /\ [][Next]_vars

\* A run that is under way goes on.
FairSpec == Spec /\ \A r \in Runs : WF_vars(Works(r)) /\ WF_vars(Exit(r))

-----------------------------------------------------------------------------
TypeOK ==
    /\ accounts \subseteq Persons
    /\ run \in [Runs -> [kind : Kinds,
                         pc : {"idle", "login", "register", "middle", "rows", "post",
                               "respond", "review", "outcome", "ready", "failed", "down",
                               "dead"},
                         at : 1..(Len(People) + 1), attempt : 1..Attempts,
                         refused : 0..Attempts, hit : BOOLEAN, live : BOOLEAN,
                         known : SUBSET Staff, todo : SUBSET Staff,
                         queue : Seq(DOMAIN actions)]]
    /\ rows \subseteq Staff
    /\ conv \in [Staff -> {"none", "open", "done"}]
    /\ actions \in Seq({"pending", "approved", "recorded", "human"})
    /\ slipped \subseteq DOMAIN actions

\* "survives auth throttling and 'already exists' races" (seed_demo_full.py:43-44): a full
\* run gives up an account only when auth throttled or failed each of its attempts but
\* one, which may have lost a race; the next attempt finds what the race left.
FailsOnlyRefused ==
    \A r \in Runs :
        run[r].kind = "full" /\ run[r].pc = "failed" /\ run[r].at <= Len(People)
            => run[r].refused >= Attempts - 1

\* "ALWAYS leave the most recent pending action untouched" (seed_demo_full.py:531-533):
\* however runs overlap, the newest action is pending until a person reviews it.
NewestLeftPending ==
    actions # <<>> => actions[Len(actions)] \in {"pending", "human"}

\* An approved action has its outcome recorded, or the run that approved it is about to;
\* or its request was refused or the run killed, and then no later run goes back to it
\* (seed_demo_full.py:542-550).
ApprovedIsRecorded ==
    \A a \in DOMAIN actions : actions[a] = "approved" =>
        a \in slipped \/ \E r \in Runs : run[r].pc = "outcome" /\ First(r) = a

\* The conversations no run will answer any more: only a detection opens them, and only
\* the run it answered replies (seed_demo_full.py:509-527).
Forgotten == {s \in Staff : conv[s] = "open" /\ \A r \in Runs : Active(r) => s \notin run[r].todo}

\* A conversation is forgotten only by a step that goes wrong, never by one that works:
\* a reply refused or lost, a token that has expired, a run that is killed.
ForgottenByFault ==
    [][Forgotten' \subseteq Forgotten \/ \E r \in Runs : Fault(r) \/ RespondExpired(r)]_vars

\* Seeding settles: when nothing goes wrong any more and the full seed is run again and
\* again, overlapping or not, every account is there in the end, and every conversation
\* is answered or forgotten.
FullStarts == \E r \in Runs : StartRun(r, "full") /\ UNCHANGED retentionVars
NoFault == \A r \in Runs : ~Fault(r)

SessionSettles ==
    <>[][NoFault]_vars /\ []<><<FullStarts>>_vars =>
        <>[](/\ {People[i] : i \in 1..Len(People)} \subseteq accounts
             /\ \A s \in Staff : conv[s] = "done" \/ s \in Forgotten)
=============================================================================

---------------------------- MODULE MCDemoSeed ----------------------------
(* Constants of the model-checking runs of DemoSeed. *)
EXTENDS DemoSeed, DemoStory

\* The kinds the scripts find by a key; surveys, tasks, goals, reviews have none.
KeyedKinds == {"department", "profile", "skill", "evaluation", "row", "response"}

\* Profiles provisioned at registration, the row of a burnout alert, and a department that
\* is not one of the script's.
SmallArrivals == {<<"profile", "employee">>, <<"row", "employee">>}
FullArrivals == {<<"profile", "emp01">>, <<"row", "emp01">>, <<"department", "OPS">>}

\* seed_demo_full.py is a script of the kind the theorems are about.
ASSUME FullAssumption ==
    Script = Full => FindsItsOwn /\ SeesConflicts /\ AllSteady
=============================================================================

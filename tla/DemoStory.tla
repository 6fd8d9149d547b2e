----------------------------- MODULE DemoStory -----------------------------
(***************************************************************************)
(* What the seed scripts post, step by step: scripts/seed_demo.py (Small)  *)
(* and scripts/seed_demo_full.py (Full), with two items for each longer    *)
(* list of theirs.  A record is a pair of a kind and a name; what a step   *)
(* does with its items is in DemoSeed.                                     *)
(***************************************************************************)
EXTENDS Sequences

\* The records of one kind.
Kind(kind, names) == {<<kind, n>> : n \in names}

Departments == Kind("department", {"ENG", "DATA", "OPS"})
Profiles == Kind("profile", {"manager", "employee", "emp01", "emp02"})
Skills == Kind("skill", {"PY", "DJ"})
Evaluations == Kind("evaluation", {"employee PY", "employee DJ", "emp01 PY", "emp02 PY"})
Cycles == Kind("cycle", {"Annual", "Mid-year"})
Goals == Kind("goal", {"employee", "emp01", "emp02"})
Surveys == Kind("survey", {"Pulse"})
Questions == Kind("question", {"q1", "q2", "q3"})
Tasks(user) == Kind("task", {user \o " 1", user \o " 2"})
Rows == Kind("row", {"employee", "manager", "emp01", "emp02"})
Others == Kind("response", {"employee", "emp01", "emp02"})
          \cup Kind("need", {"K8S"}) \cup Kind("review", {"emp01"})
          \cup Kind("item", {"emp01"}) \cup Kind("submitted", {"emp01"})
          \cup Kind("signal", {"employee", "emp01"})
          \cup Kind("score", {"employee", "emp01"})
          \cup Kind("simulation", {"remote_work", "flexible_hours"})
          \cup Kind("reset", {"career", "policy"}) \cup Kind("detection", {"retention"})

AllRecords == UNION {Departments, Profiles, Skills, Evaluations, Cycles, Goals, Surveys,
                     Questions, Tasks("employee"), Tasks("emp01"), Rows, Others}

\* A step of seed_demo.py, of seed_demo_full.py that raises, and one that does not.
SmallStep(check, scope, items, paged) ==
    [check |-> check, scope |-> scope, items |-> items, paged |-> paged, reads |-> TRUE,
     expect |-> TRUE]
FullStep(check, scope, items) ==
    [check |-> check, scope |-> scope, items |-> items, paged |-> TRUE, reads |-> TRUE,
     expect |-> TRUE]
LaxStep(check, scope, items) ==
    [check |-> check, scope |-> scope, items |-> items, paged |-> TRUE, reads |-> TRUE,
     expect |-> FALSE]

-----------------------------------------------------------------------------
(* seed_demo.py *)

SmallDepartments ==
    SmallStep("missing", Departments, <<<<"department", "ENG">>, <<"department", "DATA">>>>, FALSE)
SmallProfiles ==
    SmallStep("enrich", Profiles, <<<<"profile", "manager">>, <<"profile", "employee">>>>, TRUE)
SmallSkills == SmallStep("missing", Skills, <<<<"skill", "PY">>, <<"skill", "DJ">>>>, FALSE)
SmallEvaluations ==
    SmallStep("missing", Evaluations,
              <<<<"evaluation", "employee PY">>, <<"evaluation", "employee DJ">>>>, FALSE)
SmallCycle == SmallStep("missing", Cycles, <<<<"cycle", "Annual">>>>, FALSE)
SmallGoal == SmallStep("empty", Goals, <<<<"goal", "employee">>>>, FALSE)

\* The survey, its questions and the response of the employee.
SmallSurvey ==
    SmallStep("headed", Surveys, <<<<"survey", "Pulse">>, <<"question", "q1">>,
                                   <<"question", "q2">>, <<"response", "employee">>>>, FALSE)

\* The tasks of the employee, the manager's included, and the workday signal.
SmallTasks ==
    SmallStep("empty", Tasks("employee"),
              <<<<"task", "employee 1">>, <<"task", "employee 2">>, <<"signal", "employee">>>>,
              FALSE)
SmallScore == SmallStep("always", {}, <<<<"score", "employee">>>>, FALSE)
SmallCareer == SmallStep("reset", {}, <<<<"reset", "career">>>>, FALSE)
SmallPolicy == SmallStep("reset", {}, <<<<"reset", "policy">>>>, FALSE)
SmallSimulation == SmallStep("always", {}, <<<<"simulation", "remote_work">>>>, FALSE)
SmallRetention == SmallStep("missing", Rows, <<<<"row", "employee">>, <<"row", "manager">>>>, FALSE)
SmallDetection == SmallStep("created", {}, <<<<"detection", "retention">>>>, FALSE)

Small == <<SmallDepartments, SmallProfiles, SmallSkills, SmallEvaluations, SmallCycle,
           SmallGoal, SmallSurvey, SmallTasks, SmallScore, SmallCareer, SmallPolicy,
           SmallSimulation, SmallRetention, SmallDetection>>

-----------------------------------------------------------------------------
(* seed_demo_full.py *)

\* Read without following the pages, like that of seed_demo.py.
FullDepartments == SmallDepartments
FullStaff == FullStep("missing", Profiles, <<<<"profile", "manager">>, <<"profile", "employee">>>>)

\* The list of profiles is that of the step before.
FullPeople ==
    [FullStep("enrich", Profiles, <<<<"profile", "emp01">>, <<"profile", "emp02">>>>)
        EXCEPT !.reads = FALSE]
FullSkills == FullStep("missing", Skills, <<<<"skill", "PY">>, <<"skill", "DJ">>>>)
FullEvaluations ==
    FullStep("missing", Evaluations,
             <<<<"evaluation", "emp01 PY">>, <<"evaluation", "emp02 PY">>>>)
FullNeeds == LaxStep("missing", Kind("need", {"K8S"}), <<<<"need", "K8S">>>>)
FullCycles == FullStep("missing", Cycles, <<<<"cycle", "Annual">>, <<"cycle", "Mid-year">>>>)

\* One review, with its items, submitted.
FullReview ==
    LaxStep("headed", Kind("review", {"emp01"}),
            <<<<"review", "emp01">>, <<"item", "emp01">>, <<"submitted", "emp01">>>>)
FullGoals == LaxStep("topup", Goals, <<<<"goal", "emp01">>, <<"goal", "emp02">>>>)
FullSurvey ==
    FullStep("headed", Surveys, <<<<"survey", "Pulse">>, <<"question", "q1">>,
                                  <<"question", "q2">>, <<"question", "q3">>>>)
FullResponses == LaxStep("answers", Questions, <<<<"response", "emp01">>, <<"response", "emp02">>>>)
FullTasks ==
    [FullStep("empty", Tasks("emp01"),
              <<<<"task", "emp01 1">>, <<"task", "emp01 2">>, <<"signal", "emp01">>>>)
        EXCEPT !.paged = FALSE]
FullScore == FullStep("always", {}, <<<<"score", "emp01">>>>)
FullCareer == FullStep("reset", {}, <<<<"reset", "career">>>>)
FullPolicy == FullStep("reset", {}, <<<<"reset", "policy">>>>)
FullSimulations ==
    LaxStep("always", {},
            <<<<"simulation", "remote_work">>, <<"simulation", "flexible_hours">>>>)
FullRetention == FullStep("missing", Rows, <<<<"row", "emp01">>, <<"row", "emp02">>>>)
FullDetection == FullStep("reset", {}, <<<<"detection", "retention">>>>)

Full == <<FullDepartments, FullStaff, FullPeople, FullSkills, FullEvaluations, FullNeeds,
          FullCycles, FullReview, FullGoals, FullSurvey, FullResponses, FullTasks,
          FullScore, FullCareer, FullPolicy, FullSimulations, FullRetention,
          FullDetection>>

\* bootstrap.sh --seed both
Both == Small \o Full
=============================================================================

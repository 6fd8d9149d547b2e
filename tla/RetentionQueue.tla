--------------------------- MODULE RetentionQueue ---------------------------
(***************************************************************************)
(* seed_retention_volume() of scripts/seed_demo_full.py: engagement rows,  *)
(* detection, the conversations it opens and the queue of actions, by      *)
(* full runs that have obtained their accounts, next to HR staff who       *)
(* review actions in the UI.  The retention service is external.           *)
(***************************************************************************)
EXTENDS DemoAccounts

CONSTANT Staff  \* the employees the script engineers as critical

VARIABLES
    rows,       \* the employees the retention service knows
    conv,       \* the conversation of each: "none", "open", "done"
    actions,    \* the actions generated, oldest first
    slipped     \* the actions whose outcome was refused or lost, for properties only

retentionVars == <<rows, conv, actions, slipped>>
vars == <<accounts, run, retentionVars>>

RetentionInit ==
    /\ rows = {}
    /\ conv = [s \in Staff |-> "none"]
    /\ actions = <<>>
    /\ slipped = {}

Goto(r, pc) == Set(r, [run[r] EXCEPT !.pc = pc])

\* The steps before: each posts with expect=, so that a token that has expired ends the
\* run here.
Middle(r) ==
    /\ run[r].pc = "middle"
    /\ Goto(r, IF run[r].live THEN "rows" ELSE "failed")
    /\ UNCHANGED <<accounts, retentionVars>>

\* paged_get() takes the error page of an expired token for an empty list.
ReadRows(r) ==
    /\ run[r].pc = "rows"
    /\ Set(r, [run[r] EXCEPT !.pc = "post",
                             !.known = IF run[r].live THEN rows ELSE {}])
    /\ UNCHANGED <<accounts, retentionVars>>

\* One row per employee it did not find; a post that is refused ends the run.
PostRow(r) ==
    /\ run[r].pc = "post"
    /\ \E s \in Staff \ run[r].known :
         IF run[r].live /\ s \notin rows
         THEN /\ rows' = rows \cup {s}
              /\ Set(r, [run[r] EXCEPT !.known = @ \cup {s}])
         ELSE /\ Goto(r, "failed")
              /\ UNCHANGED rows
    /\ UNCHANGED <<accounts, conv, actions, slipped>>

\* The service opens a conversation for every employee at risk without one, and names
\* those it has opened.
Opened == {s \in rows : conv[s] = "none"}

Detect(r) ==
    /\ run[r].pc = "post"
    /\ Staff \subseteq run[r].known
    /\ IF run[r].live
       THEN /\ conv' = [s \in Staff |-> IF s \in Opened THEN "open" ELSE conv[s]]
            /\ Set(r, [run[r] EXCEPT !.pc = "respond", !.todo = Opened])
       ELSE Goto(r, "failed") /\ UNCHANGED conv
    /\ UNCHANGED <<accounts, rows, actions, slipped>>

DetectLost(r) ==
    /\ run[r].pc = "post"
    /\ Staff \subseteq run[r].known
    /\ run[r].live
    /\ conv' = [s \in Staff |-> IF s \in Opened THEN "open" ELSE conv[s]]
    /\ Goto(r, "dead")
    /\ UNCHANGED <<accounts, rows, actions, slipped>>

Answered(s) ==
    /\ conv' = [conv EXCEPT ![s] = "done"]
    /\ actions' = Append(actions, "pending")
    /\ UNCHANGED <<accounts, rows, slipped>>

\* A reply completes a conversation and generates an action ...
Respond(r) ==
    /\ run[r].pc = "respond" /\ run[r].live
    /\ \E s \in run[r].todo :
         /\ Answered(s)
         /\ Set(r, [run[r] EXCEPT !.todo = @ \ {s}])

RespondLost(r) ==
    /\ run[r].pc = "respond" /\ run[r].live
    /\ \E s \in run[r].todo : Answered(s)
    /\ Goto(r, "dead")

\* ... and a reply that is refused is passed over: no status is asked for.
RespondExpired(r) ==
    /\ run[r].pc = "respond" /\ ~run[r].live
    /\ \E s \in run[r].todo : Set(r, [run[r] EXCEPT !.todo = @ \ {s}])
    /\ UNCHANGED <<accounts, retentionVars>>

RespondRefused(r) ==
    /\ run[r].pc = "respond" /\ run[r].live
    /\ \E s \in run[r].todo : Set(r, [run[r] EXCEPT !.todo = @ \ {s}])
    /\ UNCHANGED <<accounts, retentionVars>>

Pending == {a \in DOMAIN actions : actions[a] = "pending"}

\* Faulty variant: the newest pending action is worked with the others.
BugWholeQueue == [i \in 1..Cardinality(Pending) |->
    CHOOSE a \in Pending : Cardinality({b \in Pending : b <= a}) = i]

\* pending[:-1], sorted by id.
Queue == [i \in 1..(Cardinality(Pending) - 1) |->
    CHOOSE a \in Pending : Cardinality({b \in Pending : b <= a}) = i]

\* Faulty variant: one reply per run.
BugListEarly(r) ==
    /\ run[r].pc = "respond"
    /\ Set(r, [run[r] EXCEPT !.pc = "review", !.todo = {},
                 !.queue = IF run[r].live /\ Pending # {} THEN Queue ELSE <<>>])
    /\ UNCHANGED <<accounts, retentionVars>>

ListActions(r) ==
    /\ run[r].pc = "respond" /\ run[r].todo = {}
    /\ Set(r, [run[r] EXCEPT !.pc = "review",
                 !.queue = IF run[r].live /\ Pending # {} THEN Queue ELSE <<>>])
    /\ UNCHANGED <<accounts, retentionVars>>

First(r) == Head(run[r].queue)
Working(r) == run[r].pc = "review" /\ run[r].queue # <<>>
Passed(r) == [run[r] EXCEPT !.pc = "review", !.queue = Tail(@)]
Mark(a, status) == actions' = [actions EXCEPT ![a] = status]

\* An action is approved, and its outcome recorded by a second request.
Review(r) ==
    /\ Working(r)
    /\ run[r].live /\ actions[First(r)] = "pending"
    /\ Mark(First(r), "approved")
    /\ Goto(r, "outcome")
    /\ UNCHANGED <<accounts, rows, conv, slipped>>

\* The approval is refused: the token has expired, or others were faster.
ReviewPasses(r) ==
    /\ Working(r)
    /\ ~run[r].live \/ actions[First(r)] # "pending"
    /\ Set(r, Passed(r))
    /\ UNCHANGED <<accounts, retentionVars>>

ReviewRefused(r) ==
    /\ Working(r)
    /\ run[r].live /\ actions[First(r)] = "pending"
    /\ Set(r, Passed(r))
    /\ UNCHANGED <<accounts, retentionVars>>

\* Faulty variant: only every other action gets its outcome.
BugOutcomeIfRetained(r) ==
    /\ run[r].pc = "outcome" /\ run[r].live
    /\ IF Len(run[r].queue) % 2 = 0 THEN Mark(First(r), "recorded") ELSE UNCHANGED actions
    /\ Set(r, Passed(r))
    /\ UNCHANGED <<accounts, rows, conv, slipped>>

Outcome(r) ==
    /\ run[r].pc = "outcome" /\ run[r].live
    /\ Mark(First(r), "recorded")
    /\ Set(r, Passed(r))
    /\ UNCHANGED <<accounts, rows, conv, slipped>>

\* The service refuses the outcome, or the token has expired: nobody looks at the status.
OutcomeMissed(r) ==
    /\ run[r].pc = "outcome"
    /\ slipped' = slipped \cup {First(r)}
    /\ Set(r, Passed(r))
    /\ UNCHANGED <<accounts, rows, conv, actions>>

OutcomeRefused(r) == run[r].live /\ OutcomeMissed(r)
OutcomeExpired(r) == ~run[r].live /\ OutcomeMissed(r)

Finish(r) ==
    /\ run[r].pc = "review" /\ run[r].queue = <<>>
    /\ Goto(r, "ready")
    /\ UNCHANGED <<accounts, retentionVars>>

\* HR staff approve or reject a pending action in the UI.
HumanReview ==
    /\ \E a \in Pending : Mark(a, "human")
    /\ UNCHANGED <<accounts, run, rows, conv, slipped>>

RetentionSteps(r) ==
    \/ Middle(r) \/ ReadRows(r) \/ PostRow(r) \/ Detect(r)
    \/ Respond(r) \/ RespondExpired(r) \/ ListActions(r)
    \/ Review(r) \/ ReviewPasses(r) \/ Outcome(r) \/ OutcomeExpired(r) \/ Finish(r)

RetentionFaults(r) ==
    \/ DetectLost(r) \/ RespondLost(r) \/ RespondRefused(r)
    \/ ReviewRefused(r) \/ OutcomeRefused(r)
=============================================================================

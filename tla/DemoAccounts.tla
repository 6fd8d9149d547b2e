---------------------------- MODULE DemoAccounts ----------------------------
(***************************************************************************)
(* The demo accounts: wait_for_services() and login_or_register() of       *)
(* scripts/platform_client.py, and robust_account() of                     *)
(* scripts/seed_demo_full.py, by runs of seed_demo.py ("small") and        *)
(* seed_demo_full.py ("full") that may overlap.  The auth service, which   *)
(* holds the accounts and throttles logins and registrations, is external. *)
(***************************************************************************)
EXTENDS Integers, Sequences, FiniteSets

CONSTANTS
    Runs,       \* runs of the scripts that may be under way at once
    Persons,    \* the people with a demo account
    People,     \* the same in the order a run obtains the accounts; HR comes first
    Attempts    \* the attempts robust_account() makes (10)

ASSUME AccountsAssumption ==
    /\ People \in Seq(Persons) /\ Len(People) > 0
    /\ Attempts \in Nat \ {0}

VARIABLES
    accounts,   \* the accounts auth holds
    run         \* the runs of the scripts

\* at: the account a run is at.  attempt: the attempt robust_account() is at, and
\* refused: how many before it failed for a 429 or an error of auth (read by properties
\* only).  hit: whether the present one has met an error.  live: the access token of HR,
\* which the run takes once and never refreshes, has not expired.  known, todo, queue:
\* see RetentionQueue.
Idle == [kind |-> "full", pc |-> "idle", at |-> 1, attempt |-> 1, refused |-> 0,
         hit |-> FALSE, live |-> FALSE, known |-> {}, todo |-> {}, queue |-> <<>>]

Person(r) == People[run[r].at]
Set(r, record) == run' = [run EXCEPT ![r] = record]

\* Faulty variant: the accounts are taken from the second on.
BugSecondFirst(r, kind) ==
    /\ run[r].pc = "idle"
    /\ Set(r, [Idle EXCEPT !.kind = kind, !.pc = "login", !.at = 2])
    /\ UNCHANGED accounts

\* main(): the services are up, or a required one is not.
StartRun(r, kind) ==
    /\ run[r].pc = "idle"
    /\ Set(r, [Idle EXCEPT !.kind = kind, !.pc = "login"])
    /\ UNCHANGED accounts

ServicesDown(r, kind) ==
    /\ run[r].pc = "idle"
    /\ Set(r, [Idle EXCEPT !.kind = kind, !.pc = "down"])
    /\ UNCHANGED accounts

\* The account is there, and its token with it: on to the next one.
Obtained(r) ==
    Set(r, [run[r] EXCEPT !.at = @ + 1, !.attempt = 1, !.refused = 0, !.hit = FALSE,
              !.live = @ \/ run[r].at = 1,
              !.pc = IF run[r].at < Len(People) THEN "login"
                     ELSE IF run[r].kind = "full" THEN "middle" ELSE "ready"])

\* robust_account() sleeps and tries again, ten times in all; login_or_register() fails.
Again(r, hit) ==
    LET last == run[r].kind = "small" \/ run[r].attempt = Attempts
    IN  Set(r, [run[r] EXCEPT !.pc = IF last THEN "failed" ELSE "login",
                              !.attempt = IF last THEN @ ELSE @ + 1,
                              !.refused = IF hit THEN @ + 1 ELSE @,
                              !.hit = FALSE])

LoginOk(r) ==
    /\ run[r].pc = "login"
    /\ Person(r) \in accounts
    /\ Obtained(r)
    /\ UNCHANGED accounts

LoginRejected(r) ==
    /\ run[r].pc = "login"
    /\ Person(r) \notin accounts
    /\ Set(r, [run[r] EXCEPT !.pc = "register"])
    /\ UNCHANGED accounts

\* 429: robust_account() waits; login_or_register() takes it for an unknown account.
LoginThrottled(r) ==
    /\ run[r].pc = "login"
    /\ IF run[r].kind = "full" THEN Again(r, TRUE)
       ELSE Set(r, [run[r] EXCEPT !.pc = "register"])
    /\ UNCHANGED accounts

\* Any other status: on to the registration, whether there is an account or not.
LoginError(r) ==
    /\ run[r].pc = "login"
    /\ Set(r, [run[r] EXCEPT !.pc = "register", !.hit = TRUE])
    /\ UNCHANGED accounts

RegisterOk(r) ==
    /\ run[r].pc = "register"
    /\ Person(r) \notin accounts
    /\ accounts' = accounts \cup {Person(r)}
    /\ Obtained(r)

\* Faulty variant: an account that exists ends the run.
BugExistsFails(r) ==
    /\ run[r].pc = "register"
    /\ Person(r) \in accounts
    /\ Set(r, [run[r] EXCEPT !.pc = "failed"])
    /\ UNCHANGED accounts

\* Another run has registered it since, or the login had met an error.
RegisterExists(r) ==
    /\ run[r].pc = "register"
    /\ Person(r) \in accounts
    /\ Again(r, run[r].hit)
    /\ UNCHANGED accounts

RegisterRefused(r) ==
    /\ run[r].pc = "register"
    /\ Again(r, TRUE)
    /\ UNCHANGED accounts

\* A registration whose answer is lost: requests raises, and nothing catches it.
RegisterLost(r) ==
    /\ run[r].pc = "register"
    /\ Person(r) \notin accounts
    /\ accounts' = accounts \cup {Person(r)}
    /\ Set(r, [run[r] EXCEPT !.pc = "dead"])

AccountSteps(r) ==
    \/ LoginOk(r) \/ LoginRejected(r) \/ RegisterOk(r) \/ RegisterExists(r)

AccountFaults(r) ==
    \/ LoginThrottled(r) \/ LoginError(r) \/ RegisterRefused(r) \/ RegisterLost(r)
=============================================================================

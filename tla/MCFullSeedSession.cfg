SPECIFICATION FairSpec
CONSTANTS
    r1 = r1
    r2 = r2
    hr = hr
    s1 = s1
    s2 = s2
    Runs = {r1, r2}
    Persons = {hr, s1}
    People <- HrAndOne
    Attempts = 3
    Staff = {s1, s2}
INVARIANTS FailsOnlyRefused NewestLeftPending ApprovedIsRecorded
PROPERTIES ForgottenByFault SessionSettles

------------------------ MODULE MCReadOnlyPipeline ------------------------
(* Constants of the model-checking runs of ReadOnlyPipeline. *)
EXTENDS ReadOnlyPipeline, TLC

CONSTANTS k1, k2, t1, t2

Persona(role, groups) == [authenticated |-> TRUE, id |-> 1, role |-> role,
                          groups |-> groups, is_superuser |-> role = "ADMIN"]

EmployeeAuditor == Persona("EMPLOYEE", {"EMPLOYEE", "AUDITOR"})
EmployeeSupport == Persona("EMPLOYEE", {"EMPLOYEE", "SUPPORT"})
HrAuditor == Persona("HR", {"HR", "AUDITOR"})
Anonymous == [Persona("EMPLOYEE", {}) EXCEPT !.authenticated = FALSE]

\* Calls of which the read-only rule decides: an auditor on its own objects, and HR
\* staff who audit on a view of theirs.
AuditCalls ==
    {[method |-> "POST", user |-> EmployeeAuditor, view |-> "IsSelfOrHR", owner |-> 1],
     [method |-> "POST", user |-> HrAuditor, view |-> "IsHRRole", owner |-> 2]}

\* And a write of the other read-only group, a read, and a write of nobody.
MixedCalls ==
    AuditCalls
    \cup {[method |-> m, user |-> EmployeeSupport, view |-> "IsHRRole",
           owner |-> NoObject] : m \in {"GET", "POST"}}
    \cup {[method |-> "POST", user |-> Anonymous, view |-> "IsSelfOrHR",
           owner |-> NoObject]}

NextKey == <<{k1}, {k1, k2}>>
PlainTokens == [kid : {FALSE}, good : {TRUE}]

ThreadSymmetry == Permutations(Threads)
=============================================================================

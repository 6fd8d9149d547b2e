--------------------------- MODULE AccessControl ---------------------------
(***************************************************************************)
(* Who may do what: the claim-based role helpers of                        *)
(* smarthr360_jwt_auth/access.py and the permission classes of             *)
(* permissions.py, as operators on the user built from a token (user.py).  *)
(***************************************************************************)

CONSTANTS
    Ids,        \* user ids
    NoObject,   \* the owner of no object: a list or a create request
    OtherRoles, \* values of the role claim that no helper asks for
    OtherGroups \* groups that no helper asks for

\* Faulty variant: support staff count as HR.
BugSupportIsHr == {"HR", "HR_ADMIN", "SUPPORT"}

HR_GROUPS == {"HR", "HR_ADMIN"}
MANAGER_GROUPS == {"MANAGER", "MANAGER_ADMIN"}
EMPLOYEE_GROUPS == {"EMPLOYEE", "EMPLOYEE_ADMIN"}
AUDITOR_GROUPS == {"AUDITOR"}
SUPPORT_GROUPS == {"SUPPORT"}

Roles == {"EMPLOYEE", "MANAGER", "HR", "ADMIN"} \cup OtherRoles
Groups == UNION {HR_GROUPS, MANAGER_GROUPS, EMPLOYEE_GROUPS, AUDITOR_GROUPS,
                 SUPPORT_GROUPS, OtherGroups}

\* TokenUser, or (authenticated = FALSE) Django's AnonymousUser.
User == [authenticated : BOOLEAN, id : Ids, role : Roles, groups : SUBSET Groups,
         is_superuser : BOOLEAN]

InGroups(user, names) == user.authenticated /\ user.groups \cap names # {}

IsAdmin(user) == user.authenticated /\ (user.is_superuser \/ user.role = "ADMIN")
IsHr(user) == user.authenticated /\ (user.role = "HR" \/ InGroups(user, HR_GROUPS))
IsManager(user) ==
    user.authenticated /\ (user.role = "MANAGER" \/ InGroups(user, MANAGER_GROUPS))
IsEmployee(user) ==
    user.authenticated /\ (user.role = "EMPLOYEE" \/ InGroups(user, EMPLOYEE_GROUPS))

HasHrAccess(user) == IsAdmin(user) \/ IsHr(user)
HasManagerAccess(user) == IsAdmin(user) \/ IsManager(user) \/ IsHr(user)
HasEmployeeAccess(user) == IsAdmin(user) \/ IsEmployee(user)
IsAuditor(user) == IsAdmin(user) \/ InGroups(user, AUDITOR_GROUPS)

\* The part of a request the permission classes look at: whether its method is one
\* of SAFE_METHODS, and the user_id of the object it is about, if it is about one.
SafeMethods == {"GET", "HEAD", "OPTIONS"}
UnsafeMethods == {"POST", "PUT", "PATCH", "DELETE"}
Methods == SafeMethods \cup UnsafeMethods

PermissionClasses ==
    {"IsAdminRole", "IsHRRole", "IsManagerOrAbove", "IsEmployee", "ReadOnlyOrAdmin",
     "IsAuditorReadOnly", "IsHROrAuditorReadOnly", "IsManagerOrAuditorReadOnly",
     "IsSelfOrHR"}

\* A class grants a request: has_permission() and, on an object, has_object_permission().
Grants(class, method, user, owner) ==
    LET safe == method \in SafeMethods IN
    CASE class = "IsAdminRole" -> IsAdmin(user)
      [] class = "IsHRRole" -> HasHrAccess(user)
      [] class = "IsManagerOrAbove" -> HasManagerAccess(user)
      [] class = "IsEmployee" -> HasEmployeeAccess(user)
      [] class = "ReadOnlyOrAdmin" -> user.authenticated /\ (safe \/ IsAdmin(user))
      [] class = "IsAuditorReadOnly" -> safe /\ IsAuditor(user)
      [] class = "IsHROrAuditorReadOnly" ->
            HasHrAccess(user) \/ (safe /\ IsAuditor(user))
      [] class = "IsManagerOrAuditorReadOnly" ->
            HasManagerAccess(user) \/ (safe /\ IsAuditor(user))
      [] class = "IsSelfOrHR" ->
            \/ owner = NoObject
            \/ HasHrAccess(user)
            \/ user.authenticated /\ owner = user.id

\* A user whose tokens AuditorReadOnlyMiddleware restricts.
RestrictedAuditor(user) == ~IsAdmin(user) /\ IsAuditor(user)

\* The same person without the groups that are documented as read-only.
WithoutReadOnlyGroups(user) ==
    [user EXCEPT !.groups = @ \ (AUDITOR_GROUPS \cup SUPPORT_GROUPS)]
=============================================================================

------------------------- MODULE ReadOnlyPipeline -------------------------
(***************************************************************************)
(* The way of a request through a service: AuditorReadOnlyMiddleware       *)
(* (smarthr360_jwt_auth/readonly.py), then DRF's authentication and the    *)
(* permission class of the view (permissions.py).  The middleware and DRF  *)
(* authenticate the request independently, one after the other, and each   *)
(* authentication is a run of JwksVerification of its own: the keys, the   *)
(* cache, the network and the clock may change between the two.            *)
(***************************************************************************)
EXTENDS JwksVerification, AccessControl

CONSTANT Calls      \* the requests clients make

ASSUME CallsAssumption ==
    /\ Calls # {}
    /\ Calls \subseteq [method : Methods, user : User, view : PermissionClasses,
                         owner : Ids \cup {NoObject}]

VARIABLE call       \* the request each thread handles and how far it got

pvars == <<vars, call>>

\* mw: the middleware authenticates; drf: DRF does.  Then the response: readonly is
\* the 403 of the middleware, unauthorized the 401, denied the 403 of the permission
\* class, ran the view.
Stages == {"idle", "mw", "drf", "readonly", "unauthorized", "denied", "ran"}
Answers == {"readonly", "unauthorized", "denied", "ran"}

NoCall == CHOOSE c \in Calls : TRUE

\* mwFailed: a JWKS request of the middleware's authentication failed (read by
\* properties only).
Call == [stage : Stages, c : Calls, mwFailed : BOOLEAN]

PInit == Init /\ call = [t \in Threads |-> [stage |-> "idle", c |-> NoCall,
                                            mwFailed |-> FALSE]]

\* Faulty variant: creating something does not count as a write.
BugPostIsSafe(c) == IF c.method \in SafeMethods \cup {"POST"} THEN "drf" ELSE "mw"

\* The stage a request enters: the middleware lets the safe methods pass.
FirstStage(c) == IF c.method \in SafeMethods THEN "drf" ELSE "mw"

\* A request with a token of the calling user arrives ...
Receive(t, c, tok) ==
    /\ call[t].stage = "idle"
    /\ c.user.authenticated
    /\ Start(t, tok)
    /\ call' = [call EXCEPT ![t] = [stage |-> FirstStage(c), c |-> c, mwFailed |-> FALSE]]

\* ... or one without a usable token.
ReceiveUnparsed(t, c) ==
    /\ call[t].stage = "idle"
    /\ ~c.user.authenticated
    /\ Unparsed(t)
    /\ call' = [call EXCEPT ![t] = [stage |-> FirstStage(c), c |-> c, mwFailed |-> FALSE]]

Authenticate(t) == Step(t) /\ UNCHANGED call

\* _token_user() returned a user, and the user is a restricted auditor.
MwBlocks(t) ==
    /\ call[t].stage = "mw"
    /\ req[t].outcome = "accepted"
    /\ RestrictedAuditor(call[t].c.user)
    /\ Finish(t)
    /\ call' = [call EXCEPT ![t].stage = "readonly"]

\* _token_user() returned another user, or None for want of a usable token: DRF
\* authenticates the request again, from the start.
MwPasses(t) ==
    /\ call[t].stage = "mw"
    /\ req[t].pc = "done"
    /\ ~ (req[t].outcome = "accepted" /\ RestrictedAuditor(call[t].c.user))
    /\ req' = IF req[t].outcome \in {"anonymous", "malformed"} THEN req
              ELSE [req EXCEPT ![t] = Parsed(req[t].token)]
    /\ call' = [call EXCEPT ![t].stage = "drf", ![t].mwFailed = req[t].failed]
    /\ UNCHANGED <<now, authVars, cache, lock, sentAt>>

\* DRF's authentication failed: 401.
DrfRejects(t) ==
    /\ call[t].stage = "drf"
    /\ req[t].pc = "done"
    /\ req[t].outcome \notin {"accepted", "anonymous"}
    /\ Finish(t)
    /\ call' = [call EXCEPT ![t].stage = "unauthorized"]

\* DRF has a user, from the token or AnonymousUser: the permission class decides
\* (401 instead of 403 for an anonymous user).
DrfDecides(t) ==
    /\ call[t].stage = "drf"
    /\ req[t].outcome \in {"accepted", "anonymous"}
    /\ Finish(t)
    /\ LET c == call[t].c IN
       call' = [call EXCEPT ![t].stage =
                  IF Grants(c.view, c.method, c.user, c.owner) THEN "ran"
                  ELSE IF req[t].outcome = "accepted" THEN "denied"
                  ELSE "unauthorized"]

Respond(t) ==
    /\ call[t].stage \in Answers
    /\ call' = [call EXCEPT ![t] = [stage |-> "idle", c |-> NoCall, mwFailed |-> FALSE]]
    /\ UNCHANGED vars

PNext == \/ Environment /\ UNCHANGED call
         \/ \E t \in Threads :
              \/ \E c \in Calls : \/ ReceiveUnparsed(t, c)
                                  \/ \E tok \in Minted : Receive(t, c, tok)
              \/ Authenticate(t) \/ MwBlocks(t) \/ MwPasses(t)
              \/ DrfRejects(t) \/ DrfDecides(t) \/ Respond(t)

PSpec == PInit /\ [][PNext]_pvars

-----------------------------------------------------------------------------
PTypeOK == TypeOK /\ call \in [Threads -> Call]

\* The view ran for an unsafe request of a user the middleware restricts.
AuditorWrote(t) == /\ call[t].stage = "ran"
                   /\ call[t].c.method \in UnsafeMethods
                   /\ RestrictedAuditor(call[t].c.user)

\* "rejects every unsafe HTTP method for a token carrying the AUDITOR group"
\* (DEMO.md:40-41, readonly.py:3-5).
AuditorNeverWrites == \A t \in Threads : ~AuditorWrote(t)

\* With a JWKS URL the two authentications may disagree.  They do so in one way only:
\* a JWKS request of the middleware's authentication failed (readonly.py:51-54 turns
\* that into "no user") and DRF's own found the key.  Neither an expiry, a rotation,
\* nor the refresh of another thread between the two lets an auditor write.
AuditorWriteNeedsFailedFetch ==
    \A t \in Threads : AuditorWrote(t) => call[t].mwFailed

\* The permission class would grant the request without the read-only groups, too.
GrantedAnyway(c) == Grants(c.view, c.method, WithoutReadOnlyGroups(c.user), c.owner)

\* "write controls ... exclude AUDITOR/SUPPORT, so read-only falls out structurally"
\* (SECURITY_REVIEW.md:35): a view that ran for an unsafe request would have run for
\* the same user without those groups.
ReadOnlyGroupsGrantNoWrite ==
    \A t \in Threads :
        call[t].stage = "ran" /\ call[t].c.method \in UnsafeMethods
            => GrantedAnyway(call[t].c)
=============================================================================

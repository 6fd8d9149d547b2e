----------------------- MODULE ReadOnlyPipelineProofs -----------------------
(***************************************************************************)
(* Proofs about the request pipeline, for every set of calls: users with   *)
(* any role and groups, every method, permission class and owner.          *)
(***************************************************************************)
EXTENDS ReadOnlyPipeline, JwksVerificationProofs

-----------------------------------------------------------------------------
(* Type correctness *)

LEMMA NoCallType == NoCall \in Calls
BY CallsAssumption DEF NoCall

LEMMA PInitType == PInit => PTypeOK
BY InitType, NoCallType DEF PInit, PTypeOK, Call, Stages

\* A thread that authenticates a second time starts anew with its token.
LEMMA ParsedType ==
    ASSUME NEW tok \in Token, now \in Nat
    PROVE  Parsed(tok) \in Request
<1>1. Idle \in Request
  BY IdleType
<1>2. QED
  BY <1>1 DEF Parsed, Request

\* What each step of the pipeline makes of the request its thread handles.
CallSteps(t) ==
    \/ \E c \in Calls : \/ ReceiveUnparsed(t, c)
                        \/ \E tok \in Minted : Receive(t, c, tok)
    \/ MwBlocks(t) \/ MwPasses(t) \/ DrfRejects(t) \/ DrfDecides(t) \/ Respond(t)

\* A step changes the call of the thread that takes it only.
LEMMA CallFrame ==
    ASSUME PTypeOK, [PNext]_pvars, NEW u \in Threads, call'[u] # call[u]
    PROVE  CallSteps(u)
<1>1. call \in [Threads -> Call]
  BY DEF PTypeOK
<1>2. PICK t \in Threads : CallSteps(t)
  BY DEF PNext, pvars, Authenticate, CallSteps
<1>3. CASE t # u
  <2>1. \E r : call' = [call EXCEPT ![t] = r]
    BY <1>2 DEF CallSteps, ReceiveUnparsed, Receive, MwBlocks, MwPasses, DrfRejects,
                DrfDecides, Respond
  <2>2. QED
    BY <1>1, <1>3, <2>1
<1>4. QED
  BY <1>2, <1>3

LEMMA CallType ==
    ASSUME PTypeOK, NEW t \in Threads, CallSteps(t)
    PROVE  call' \in [Threads -> Call]
<1>1. call \in [Threads -> Call] /\ call[t] \in Call
  BY DEF PTypeOK
<1>2. \A s \in Stages, c \in Calls, f \in BOOLEAN :
        [stage |-> s, c |-> c, mwFailed |-> f] \in Call
  BY DEF Call
<1>3. \A r \in Call : [call EXCEPT ![t] = r] \in [Threads -> Call]
  BY <1>1
<1>4. \A s \in Stages : [call EXCEPT ![t].stage = s] \in [Threads -> Call]
  BY <1>1 DEF Call
<1>5. \A c : FirstStage(c) \in Stages
  BY DEF FirstStage, Stages
<1>6. CASE \E c \in Calls : \/ ReceiveUnparsed(t, c)
                            \/ \E tok \in Minted : Receive(t, c, tok)
  <2>1. PICK c \in Calls :
          call' = [call EXCEPT ![t] =
                     [stage |-> FirstStage(c), c |-> c, mwFailed |-> FALSE]]
    BY <1>6 DEF ReceiveUnparsed, Receive
  <2>2. QED
    BY <1>2, <1>3, <1>5, <2>1
<1>7. CASE MwBlocks(t)
  BY <1>4, <1>7 DEF MwBlocks, Stages
<1>8. CASE MwPasses(t)
  <2>1. req[t].failed \in BOOLEAN
    BY DEF PTypeOK, TypeOK, Request
  <2>2. call' = [call EXCEPT ![t].stage = "drf", ![t].mwFailed = req[t].failed]
    BY <1>8 DEF MwPasses
  <2>3. QED
    BY <1>1, <2>1, <2>2 DEF Call, Stages
<1>9. CASE DrfRejects(t)
  BY <1>4, <1>9 DEF DrfRejects, Stages
<1>10. CASE DrfDecides(t)
  <2>1. PICK s \in {"ran", "denied", "unauthorized"} :
          call' = [call EXCEPT ![t].stage = s]
    BY <1>10 DEF DrfDecides
  <2>2. QED
    BY <1>4, <2>1 DEF Stages
<1>11. CASE Respond(t)
  BY <1>2, <1>3, <1>11, NoCallType DEF Respond, Stages
<1>12. QED
  BY <1>6, <1>7, <1>8, <1>9, <1>10, <1>11 DEF CallSteps

\* Every step but MwPasses is one of JwksVerification's, or none.
LEMMA AuthenticationSteps ==
    ASSUME [PNext]_pvars
    PROVE  [Next]_vars \/ \E t \in Threads : MwPasses(t)
<1>1. CASE UNCHANGED pvars
  BY <1>1 DEF pvars
<1>2. CASE Environment
  BY <1>2 DEF Next
<1>3. ASSUME NEW t \in Threads,
             \/ \E c \in Calls : \/ ReceiveUnparsed(t, c)
                                 \/ \E tok \in Minted : Receive(t, c, tok)
             \/ Authenticate(t) \/ MwBlocks(t)
             \/ DrfRejects(t) \/ DrfDecides(t) \/ Respond(t)
      PROVE  [Next]_vars
  <2>1. \/ Unparsed(t) \/ Step(t) \/ Finish(t) \/ UNCHANGED vars
        \/ \E tok \in Minted : Start(t, tok)
    BY <1>3 DEF ReceiveUnparsed, Receive, Authenticate, MwBlocks, DrfRejects,
                DrfDecides, Respond
  <2>2. QED
    BY <2>1 DEF Next
<1>4. QED
  BY <1>1, <1>2, <1>3 DEF PNext

LEMMA PNextType == PTypeOK /\ [PNext]_pvars => PTypeOK'
<1> SUFFICES ASSUME PTypeOK, [PNext]_pvars PROVE PTypeOK'
  OBVIOUS
<1>1. TypeOK'
  <2>1. CASE [Next]_vars
    BY <2>1, NextType DEF PTypeOK
  <2>2. ASSUME NEW t \in Threads, MwPasses(t)
        PROVE  TypeOK'
    <3>1. req \in [Threads -> Request] /\ req[t].token \in Token /\ now \in Nat
      BY DEF PTypeOK, TypeOK, Request
    <3>2. Parsed(req[t].token) \in Request
      BY <3>1, ParsedType
    <3>3. req' \in [Threads -> Request]
      BY <2>2, <3>1, <3>2 DEF MwPasses
    <3>4. QED
      BY <2>2, <3>3 DEF MwPasses, PTypeOK, TypeOK, authVars
  <2>3. QED
    BY <2>1, <2>2, AuthenticationSteps
<1>2. call' \in [Threads -> Call]
  <2>1. CASE call' = call
    BY <2>1 DEF PTypeOK
  <2>2. ASSUME NEW t \in Threads, CallSteps(t)
        PROVE  call' \in [Threads -> Call]
    BY <2>2, CallType
  <2>3. QED
    BY <2>1, <2>2 DEF PNext, pvars, Authenticate, CallSteps
<1>3. QED
  BY <1>1, <1>2 DEF PTypeOK

\* The variables of the pipeline keep their types.
THEOREM PTypeCorrect == PSpec => []PTypeOK
BY PInitType, PNextType, PTL DEF PSpec

-----------------------------------------------------------------------------
(* Read-only groups *)

\* No permission class grants a write because of AUDITOR or SUPPORT.
LEMMA GroupsGrantNoWrite ==
    ASSUME NEW c \in Calls, c.method \in UnsafeMethods,
           Grants(c.view, c.method, c.user, c.owner)
    PROVE  GrantedAnyway(c)
<1> DEFINE u == c.user
           v == WithoutReadOnlyGroups(u)
<1>1. c.view \in PermissionClasses /\ u \in User /\ c.method \notin SafeMethods
  BY CallsAssumption DEF UnsafeMethods, SafeMethods
<1>2. /\ v.authenticated = u.authenticated /\ v.id = u.id /\ v.role = u.role
      /\ v.is_superuser = u.is_superuser
      /\ v.groups = u.groups \ {"AUDITOR", "SUPPORT"}
  BY <1>1 DEF WithoutReadOnlyGroups, User, AUDITOR_GROUPS, SUPPORT_GROUPS
<1>3. /\ InGroups(u, HR_GROUPS) => InGroups(v, HR_GROUPS)
      /\ InGroups(u, MANAGER_GROUPS) => InGroups(v, MANAGER_GROUPS)
      /\ InGroups(u, EMPLOYEE_GROUPS) => InGroups(v, EMPLOYEE_GROUPS)
  BY <1>2 DEF InGroups, HR_GROUPS, MANAGER_GROUPS, EMPLOYEE_GROUPS
<1> HIDE DEF u, v
<1>4. /\ IsAdmin(u) => IsAdmin(v)
      /\ HasHrAccess(u) => HasHrAccess(v)
      /\ HasManagerAccess(u) => HasManagerAccess(v)
      /\ IsEmployee(u) => IsEmployee(v)
  BY <1>2, <1>3 DEF IsAdmin, HasHrAccess, HasManagerAccess, IsHr, IsManager, IsEmployee
<1>5. Grants(c.view, c.method, u, c.owner)
  BY DEF u
<1>6. Grants(c.view, c.method, v, c.owner)
  <2>1. CASE c.view \in {"IsAdminRole", "ReadOnlyOrAdmin", "IsAuditorReadOnly"}
    BY <1>1, <1>2, <1>4, <1>5, <2>1 DEF Grants, IsAdmin
  <2>2. CASE c.view \in {"IsHRRole", "IsHROrAuditorReadOnly"}
    BY <1>1, <1>4, <1>5, <2>2 DEF Grants
  <2>3. CASE c.view \in {"IsManagerOrAbove", "IsManagerOrAuditorReadOnly"}
    BY <1>1, <1>4, <1>5, <2>3 DEF Grants
  <2>4. CASE c.view = "IsEmployee"
    BY <1>4, <1>5, <2>4 DEF Grants, HasEmployeeAccess
  <2>5. CASE c.view = "IsSelfOrHR"
    BY <1>2, <1>4, <1>5, <2>5 DEF Grants
  <2>6. QED
    BY <1>1, <2>1, <2>2, <2>3, <2>4, <2>5 DEF PermissionClasses
<1>7. QED
  BY <1>6 DEF u, v, GrantedAnyway

\* A write runs only if it would have run without AUDITOR and SUPPORT
\* (permissions.py:27-82), for every user, permission class and owner.
THEOREM ReadOnlyGroupsGrantNoWriteHolds == PSpec => []ReadOnlyGroupsGrantNoWrite
<1>1. PInit => ReadOnlyGroupsGrantNoWrite
  BY DEF PInit, ReadOnlyGroupsGrantNoWrite
<1>2. PTypeOK /\ ReadOnlyGroupsGrantNoWrite /\ [PNext]_pvars
        => ReadOnlyGroupsGrantNoWrite'
  <2> SUFFICES ASSUME PTypeOK, ReadOnlyGroupsGrantNoWrite, [PNext]_pvars,
                      NEW u \in Threads, call'[u].stage = "ran",
                      call'[u].c.method \in UnsafeMethods
               PROVE  GrantedAnyway(call'[u].c)
    BY DEF ReadOnlyGroupsGrantNoWrite
  <2>1. CASE call'[u] = call[u]
    BY <2>1 DEF ReadOnlyGroupsGrantNoWrite
  <2>2. CASE call'[u] # call[u]
    <3>1. call \in [Threads -> Call]
      BY DEF PTypeOK
    <3>2. CallSteps(u)
      BY <2>2, CallFrame
    <3>3. DrfDecides(u)
      BY <3>1, <3>2 DEF CallSteps, ReceiveUnparsed, Receive, MwBlocks, MwPasses,
                        DrfRejects, Respond, FirstStage, Call
    <3>4. /\ call'[u].c = call[u].c
          /\ Grants(call[u].c.view, call[u].c.method, call[u].c.user, call[u].c.owner)
      BY <3>1, <3>3 DEF DrfDecides, Call
    <3>5. call[u].c \in Calls
      BY <3>1 DEF Call
    <3>6. QED
      BY <3>4, <3>5, GroupsGrantNoWrite
  <2>3. QED
    BY <2>1, <2>2
<1>3. QED
  BY <1>1, <1>2, PTypeCorrect, PTL DEF PSpec

-----------------------------------------------------------------------------
(* The middleware with a static key *)

\* A token that no authentication accepts any more, for want of another key than the
\* static one.
Unusable(tok) == \/ tok.key \notin {StaticKey} \ {NoKey}
                 \/ tok.exp <= now
                 \/ ~tok.good

\* Without a URL an authentication reads no document, and rejects a parsed token
\* only for good.
NoDocument(t) ==
    /\ req[t].pc \in {"idle", "verify", "done"}
    /\ req[t].used = 0
    /\ req[t].pc = "done" /\ req[t].outcome \notin {"accepted", "anonymous", "malformed"}
         => Unusable(req[t].token)

RestrictedWrite(c) == c.method \in UnsafeMethods /\ RestrictedAuditor(c.user)

\* A restricted write comes with a parsed token, and reaches DRF only if that token is
\* unusable.
Guarded(t) ==
    RestrictedWrite(call[t].c) =>
      /\ call[t].stage \in {"mw", "drf"} =>
            req[t].outcome \notin {"anonymous", "malformed"}
      /\ call[t].stage = "drf" =>
            Unusable(req[t].token) /\ req[t].outcome # "accepted"
      /\ call[t].stage # "ran"

StaticInv == \A t \in Threads : NoDocument(t) /\ Guarded(t)

LEMMA WriteFacts ==
    ASSUME NEW c, RestrictedWrite(c)
    PROVE  c.user.authenticated /\ FirstStage(c) = "mw"
<1>1. c.user.authenticated
  BY DEF RestrictedWrite, RestrictedAuditor, IsAuditor, InGroups
<1>2. c.method \notin SafeMethods
  BY DEF RestrictedWrite, UnsafeMethods, SafeMethods
<1>3. QED
  BY <1>1, <1>2 DEF FirstStage

LEMMA ParsedFacts ==
    ASSUME ~HasUrl, NEW tok \in Token
    PROVE  /\ Parsed(tok).pc = "verify" /\ Parsed(tok).used = 0
           /\ Parsed(tok).outcome = "pending" /\ Parsed(tok).token = tok
BY DEF Parsed, Idle

\* Without a URL the steps of an authentication are the decisions about its token.
LEMMA StaticStep ==
    ASSUME ~HasUrl, TypeOK, NEW t \in Threads, NoDocument(t), Step(t)
    PROVE  /\ req'[t].pc = "done" /\ req'[t].used = 0
           /\ req'[t].token = req[t].token
           /\ req'[t].outcome \notin {"anonymous", "malformed"}
           /\ req'[t].outcome = "accepted" <=> ~Unusable(req[t].token)
           /\ now' = now
<1>1. req \in [Threads -> Request] /\ req[t] \in Request
  BY DEF TypeOK
<1>2. req[t].pc \in {"idle", "verify", "done"} /\ req[t].used = 0
  BY DEF NoDocument
<1>3. Candidates(req[t].token, 0) = {StaticKey} \ {NoKey}
  BY DEF Candidates, JwksKeys
<1>4. VerifyMatch(t) \/ VerifyReject(t)
  BY <1>2 DEF Step, Refresh, ReadCache, Serve, Reply, FetchFailsStale, FetchFailsCold,
              VerifyRetry
<1>5. CASE VerifyMatch(t)
  <2>1. req'[t] = [req[t] EXCEPT !.pc = "done", !.outcome = Verdict(req[t].token)]
    BY <1>1, <1>5 DEF VerifyMatch
  <2>2. req[t].token.key \in {StaticKey} \ {NoKey} /\ now' = now
    BY <1>2, <1>3, <1>5 DEF VerifyMatch
  <2>3. /\ Verdict(req[t].token) \notin {"anonymous", "malformed"}
        /\ Verdict(req[t].token) = "accepted" <=> ~Unusable(req[t].token)
    BY <2>2 DEF Verdict, Unusable
  <2>4. QED
    BY <1>1, <1>2, <2>1, <2>2, <2>3 DEF Request
<1>6. CASE VerifyReject(t)
  <2>1. PICK o \in {"no_keys", "unknown_key"} :
          req'[t] = [req[t] EXCEPT !.pc = "done", !.outcome = o]
    BY <1>1, <1>6 DEF VerifyReject
  <2>2. req[t].token.key \notin {StaticKey} \ {NoKey} /\ now' = now
    BY <1>2, <1>3, <1>6 DEF VerifyReject
  <2>3. QED
    BY <1>1, <1>2, <2>1, <2>2 DEF Request, Unusable
<1>7. QED
  BY <1>4, <1>5, <1>6

\* A thread that takes no step: its request and call stay, and no token recovers.
LEMMA Untouched ==
    ASSUME PTypeOK, NEW t \in Threads, NoDocument(t), Guarded(t),
           req'[t] = req[t], call'[t] = call[t], now' \in Nat, now' >= now
    PROVE  NoDocument(t)' /\ Guarded(t)'
<1>1. req[t].token.exp \in Nat /\ now \in Nat
  BY DEF PTypeOK, TypeOK, Request, Token
<1>2. Unusable(req[t].token) => Unusable(req[t].token)'
  BY <1>1 DEF Unusable
<1>3. NoDocument(t)'
  BY <1>2 DEF NoDocument
<1>4. Guarded(t)'
  BY <1>2 DEF Guarded
<1>5. QED
  BY <1>3, <1>4

\* An authentication does not change the call; what it accepts was usable.
LEMMA StaticAuthenticate ==
    ASSUME ~HasUrl, PTypeOK, NEW t \in Threads, NoDocument(t), Guarded(t),
           Authenticate(t)
    PROVE  NoDocument(t)' /\ Guarded(t)'
<1>1. /\ req'[t].pc = "done" /\ req'[t].used = 0 /\ req'[t].token = req[t].token
      /\ req'[t].outcome \notin {"anonymous", "malformed"}
      /\ req'[t].outcome = "accepted" <=> ~Unusable(req[t].token)
      /\ now' = now
  BY StaticStep DEF Authenticate, PTypeOK
<1>2. Unusable(req[t].token)' <=> Unusable(req[t].token)
  BY <1>1 DEF Unusable
<1>3. call' = call
  BY DEF Authenticate
<1>4. NoDocument(t)'
  BY <1>1, <1>2 DEF NoDocument
<1>5. Guarded(t)'
  BY <1>1, <1>2, <1>3 DEF Guarded
<1>6. QED
  BY <1>4, <1>5

\* A thread that hands its request on, to itself or to the client.
LEMMA StaticCall ==
    ASSUME ~HasUrl, PTypeOK, NEW t \in Threads, NoDocument(t), Guarded(t), CallSteps(t)
    PROVE  NoDocument(t)' /\ Guarded(t)'
<1>1. /\ req \in [Threads -> Request] /\ req[t] \in Request
      /\ call \in [Threads -> Call] /\ call[t] \in Call
  BY DEF PTypeOK, TypeOK
<1>2. /\ Idle.pc = "idle" /\ Idle.used = 0
  BY DEF Idle
<1>3. ASSUME NEW c \in Calls, ReceiveUnparsed(t, c)
      PROVE  NoDocument(t)' /\ Guarded(t)'
  <2>1. PICK o \in {"anonymous", "malformed"} :
          req'[t] = [Idle EXCEPT !.pc = "done", !.outcome = o]
    BY <1>1, <1>3 DEF ReceiveUnparsed, Unparsed
  <2>2. req'[t].pc = "done" /\ req'[t].used = 0 /\ req'[t].outcome = o
    BY <2>1 DEF Idle
  <2>3. call'[t].c = c
    BY <1>1, <1>3 DEF ReceiveUnparsed
  <2>4. ~RestrictedWrite(c)
    BY <1>3, WriteFacts DEF ReceiveUnparsed
  <2>5. QED
    BY <2>2, <2>3, <2>4 DEF NoDocument, Guarded
<1>4. ASSUME NEW c \in Calls, NEW tok \in Minted, Receive(t, c, tok)
      PROVE  NoDocument(t)' /\ Guarded(t)'
  <2>1. tok \in Token
    BY MintedType DEF PTypeOK
  <2>2. req'[t] = Parsed(tok)
    BY <1>1, <1>4 DEF Receive, Start
  <2>3. call'[t].c = c /\ call'[t].stage = FirstStage(c)
    BY <1>1, <1>4 DEF Receive
  <2>4. RestrictedWrite(c) => FirstStage(c) = "mw"
    BY WriteFacts
  <2>5. QED
    BY <2>1, <2>2, <2>3, <2>4, ParsedFacts DEF NoDocument, Guarded
<1>5. CASE MwBlocks(t) \/ DrfRejects(t)
  <2>1. req'[t] = Idle
    BY <1>1, <1>5 DEF MwBlocks, DrfRejects, Finish
  <2>2. call'[t].stage \in {"readonly", "unauthorized"}
    BY <1>1, <1>5 DEF MwBlocks, DrfRejects, Call
  <2>3. QED
    BY <1>2, <2>1, <2>2 DEF NoDocument, Guarded
<1>6. CASE MwPasses(t)
  <2>1. call'[t].stage = "drf" /\ call'[t].c = call[t].c /\ now' = now
    BY <1>1, <1>6 DEF MwPasses, Call
  <2>2. /\ req[t].pc = "done" /\ call[t].stage = "mw"
        /\ ~ (req[t].outcome = "accepted" /\ RestrictedAuditor(call[t].c.user))
    BY <1>6 DEF MwPasses
  <2>3. CASE req[t].outcome \in {"anonymous", "malformed"}
    <3>1. req' = req
      BY <1>6, <2>3 DEF MwPasses
    <3>2. ~RestrictedWrite(call[t].c)
      BY <2>2, <2>3 DEF Guarded
    <3>3. QED
      BY <2>1, <2>3, <3>1, <3>2 DEF NoDocument, Guarded
  <2>4. CASE req[t].outcome \notin {"anonymous", "malformed"}
    <3>1. req'[t] = Parsed(req[t].token) /\ req[t].token \in Token
      BY <1>1, <1>6, <2>4 DEF MwPasses, Request
    <3>2. RestrictedWrite(call[t].c) => Unusable(req[t].token)
      BY <2>2, <2>4 DEF NoDocument, RestrictedWrite
    <3>3. Unusable(req[t].token)' <=> Unusable(req[t].token)
      BY <2>1, <3>1, ParsedFacts DEF Unusable
    <3>4. /\ req'[t].pc = "verify" /\ req'[t].used = 0 /\ req'[t].outcome = "pending"
      BY <3>1, ParsedFacts
    <3>5. QED
      BY <2>1, <3>2, <3>3, <3>4 DEF NoDocument, Guarded
  <2>5. QED
    BY <2>3, <2>4
<1>7. CASE DrfDecides(t)
  <2>1. req'[t] = Idle
    BY <1>1, <1>7 DEF DrfDecides, Finish
  <2>2. /\ call[t].stage = "drf" /\ req[t].outcome \in {"accepted", "anonymous"}
        /\ call'[t].c = call[t].c
        /\ call'[t].stage \in {"ran", "denied", "unauthorized"}
    BY <1>1, <1>7 DEF DrfDecides, Call
  <2>3. ~RestrictedWrite(call[t].c)
    BY <2>2 DEF Guarded
  <2>4. QED
    BY <1>2, <2>1, <2>2, <2>3 DEF NoDocument, Guarded
<1>8. CASE Respond(t)
  <2>1. req' = req /\ now' = now
    BY <1>8 DEF Respond, vars
  <2>2. call'[t].stage = "idle"
    BY <1>1, <1>8 DEF Respond
  <2>3. NoDocument(t)'
    BY <2>1 DEF NoDocument, Unusable
  <2>4. QED
    BY <2>2, <2>3 DEF Guarded
<1>9. QED
  BY <1>3, <1>4, <1>5, <1>6, <1>7, <1>8 DEF CallSteps

\* What a step of the pipeline leaves alone.
LEMMA PipelineFrame ==
    ASSUME PTypeOK, [PNext]_pvars, NEW u \in Threads, ~CallSteps(u), ~Authenticate(u)
    PROVE  call'[u] = call[u] /\ req'[u] = req[u] /\ now' \in Nat /\ now' >= now
<1>1. call'[u] = call[u]
  BY CallFrame
<1>2. now \in Nat /\ req \in [Threads -> Request]
  BY DEF PTypeOK, TypeOK
<1>3. CASE UNCHANGED pvars
  BY <1>1, <1>2, <1>3 DEF pvars, vars
<1>4. CASE Environment
  BY <1>1, <1>2, <1>4 DEF Environment, Tick, Publish, SwitchSigning
<1>5. ASSUME NEW t \in Threads, Authenticate(t), t # u
      PROVE  req'[u] = req[u] /\ now' = now
  BY <1>5, StepFrame DEF Authenticate, Step, LocalStep, FetchEnds, PTypeOK
<1>6. ASSUME NEW t \in Threads, CallSteps(t), t # u
      PROVE  req'[u] = req[u] /\ now' = now
  BY <1>2, <1>6 DEF CallSteps, ReceiveUnparsed, Unparsed, Receive, Start, MwBlocks,
                    MwPasses, DrfRejects, DrfDecides, Finish, Respond, vars
<1>7. QED
  BY <1>1, <1>2, <1>3, <1>4, <1>5, <1>6 DEF PNext, CallSteps

LEMMA StaticNext ==
    ASSUME ~HasUrl, PTypeOK, StaticInv, [PNext]_pvars
    PROVE  StaticInv'
<1> SUFFICES ASSUME NEW u \in Threads
             PROVE  NoDocument(u)' /\ Guarded(u)'
  BY DEF StaticInv
<1>1. NoDocument(u) /\ Guarded(u)
  BY DEF StaticInv
<1>2. CASE CallSteps(u)
  BY <1>1, <1>2, StaticCall
<1>3. CASE Authenticate(u)
  BY <1>1, <1>3, StaticAuthenticate
<1>4. CASE ~CallSteps(u) /\ ~Authenticate(u)
  BY <1>1, <1>4, PipelineFrame, Untouched
<1>5. QED
  BY <1>2, <1>3, <1>4

LEMMA StaticInit == ASSUME ~HasUrl, PInit PROVE StaticInv
BY DEF PInit, Init, Idle, StaticInv, NoDocument, Guarded

\* With a static key and no URL the middleware lets no auditor write
\* (readonly.py:35-59): its authentication rejects a token only if DRF's will.
THEOREM StaticAuditorNeverWrites ==
    ASSUME ~HasUrl PROVE PSpec => []AuditorNeverWrites
<1>1. PInit => StaticInv
  BY StaticInit
<1>2. PTypeOK /\ StaticInv /\ [PNext]_pvars => StaticInv'
  BY StaticNext
<1>3. StaticInv => AuditorNeverWrites
  BY DEF StaticInv, Guarded, RestrictedWrite, AuditorNeverWrites, AuditorWrote
<1>4. QED
  BY <1>1, <1>2, <1>3, PTypeCorrect, PTL DEF PSpec

-----------------------------------------------------------------------------
(* The middleware with a JWKS URL, in an orderly rotation *)

\* The second authentication of a request starts like any other: with no document, no
\* reply, and the token of the first.
LEMMA MwPassesEffect ==
    ASSUME PTypeOK, HasUrl, NEW t \in Threads, MwPasses(t), req' # req
    PROVE  /\ req'[t] = Parsed(req[t].token)
           /\ req'[t].pc = "lock" /\ req'[t].token = req[t].token /\ req'[t].used = 0
           /\ req'[t].reply = 0 /\ req'[t].outcome = "pending"
           /\ req[t].pc = "done" /\ \A u \in Threads : u # t => req'[u] = req[u]
           /\ UNCHANGED <<now, authVars, cache, lock>>
<1>1. req \in [Threads -> Request]
  BY DEF PTypeOK, TypeOK
<1>2. /\ req' = [req EXCEPT ![t] = Parsed(req[t].token)] /\ req[t].pc = "done"
      /\ UNCHANGED <<now, authVars, cache, lock>>
  BY DEF MwPasses
<1>3. req'[t] = Parsed(req[t].token) /\ \A u \in Threads : u # t => req'[u] = req[u]
  BY <1>1, <1>2
<1>4. \A tok : LET z == Parsed(tok)
                 IN  /\ z.pc = "lock" /\ z.token = tok /\ z.used = 0 /\ z.reply = 0
                     /\ z.outcome = "pending"
  BY DEF Parsed, Idle
<1>5. QED
  BY <1>2, <1>3, <1>4

\* What is known of the lock, of the replies and of live tokens holds in the pipeline, too.
SearchOK == OneFetchAtATime /\ RepliesRecent /\ RotationInv

LEMMA PipelineSearch ==
    ASSUME HasUrl, Orderly, PTypeOK, SearchOK, [PNext]_pvars
    PROVE  SearchOK'
<1>1. CASE [Next]_vars
  BY <1>1, NextOneFetch, NextReplies, NextRotation DEF SearchOK, PTypeOK
<1>2. ASSUME NEW t \in Threads, MwPasses(t)
      PROVE  SearchOK'
  <2>1. CASE req' = req
    <3>1. UNCHANGED vars
      BY <1>2, <2>1 DEF MwPasses, vars
    <3>2. QED
      BY <1>1, <3>1
  <2>2. CASE req' # req
    <3>1. /\ req'[t].pc = "lock" /\ req'[t].token = req[t].token /\ req'[t].used = 0
          /\ req'[t].reply = 0 /\ req'[t].outcome = "pending" /\ req[t].pc = "done"
          /\ \A u \in Threads : u # t => req'[u] = req[u]
          /\ now' = now /\ cache' = cache /\ lock' = lock /\ UNCHANGED authVars
      BY <1>2, <2>2, MwPassesEffect
    <3>2. OneFetchAtATime'
      <4>1. lock # NoThread => lock \in Threads
        BY DEF PTypeOK, TypeOK
      <4>2. QED
        BY <3>1, <4>1 DEF SearchOK, OneFetchAtATime
    <3>3. RepliesRecent'
      BY <3>1 DEF SearchOK, RepliesRecent, authVars
    <3>4. KeysLive'
      BY <3>1 DEF SearchOK, RotationInv, KeysLive, Signed, LatestExpiry, authVars
    <3>5. TokensKnown'
      <4>1. \A u \in Threads : req'[u].token = req[u].token
        BY <3>1
      <4>2. QED
        BY <3>1, <4>1
        DEF SearchOK, RotationInv, TokensKnown, Live, Signed, LatestExpiry, authVars
    <3>6. \A u \in Threads : SearchInv(u)'
      <4>1. SearchInv(t)'
        BY <3>1 DEF SearchInv, LiveTokenRejected
      <4>2. \A u \in Threads : u # t => SearchInv(u)'
        BY <3>1 DEF SearchOK, RotationInv, SearchInv, LiveTokenRejected, Live, JwksKeys
      <4>3. QED
        BY <4>1, <4>2
    <3>7. QED
      BY <3>2, <3>3, <3>4, <3>5, <3>6 DEF SearchOK, RotationInv
  <2>3. QED
    BY <2>1, <2>2
<1>3. QED
  BY <1>1, <1>2, AuthenticationSteps

\* No authentication accepts the token any more, whatever the keys.
Hopeless(tok) == tok.exp <= now \/ ~tok.good

\* What the outcome of an authentication says of the token, keys apart.
Decided(t) ==
    req[t].pc = "done" =>
      /\ req[t].outcome # "pending"
      /\ req[t].outcome \in {"expired", "bad_claims"} => Hopeless(req[t].token)

LEMMA VerdictFacts ==
    ASSUME NEW tok \in Token, now \in Nat
    PROVE  /\ Verdict(tok) \in {"expired", "accepted", "bad_claims"}
           /\ Verdict(tok) = "accepted" <=> ~Hopeless(tok)
BY DEF Verdict, Hopeless, Token

LEMMA DecideStep ==
    ASSUME TypeOK, NEW t \in Threads, Step(t)
    PROVE  /\ now' = now /\ SameToken(t) /\ Decided(t)'
           /\ req'[t].outcome \in {req[t].outcome, "pending", "no_keys", "unknown_key",
                                   Verdict(req[t].token)}
<1>1. now' = now
  BY StepFrame DEF Step, LocalStep, FetchEnds
<1>2. CASE Refresh(t) \/ ReadCache(t) \/ Serve(t) \/ Reply(t) \/ FetchFailsStale(t)
           \/ VerifyRetry(t)
  <2>1. SameToken(t) /\ req'[t].pc # "done" /\ req'[t].outcome = req[t].outcome
    BY <1>2, RefreshEffect, ReadCacheEffect, ServeEffect, ReplyEffect, FailsStaleEffect,
       RetryEffect
  <2>2. QED
    BY <1>1, <2>1 DEF Decided
<1>3. CASE FetchFailsCold(t)
  <2>1. /\ SameToken(t) /\ req'[t].outcome \in {"pending", "no_keys"}
        /\ req'[t].pc = "done" => req'[t].outcome = "no_keys"
    BY <1>3, FailsColdEffect
  <2>2. QED
    BY <1>1, <2>1 DEF Decided
<1>4. CASE VerifyMatch(t)
  <2>1. SameToken(t) /\ req'[t].outcome = Verdict(req[t].token)
    BY <1>4, MatchEffect
  <2>2. req[t].token \in Token /\ now \in Nat
    BY DEF TypeOK, Request
  <2>3. Decided(t)'
    BY <1>1, <2>1, <2>2, VerdictFacts DEF Decided, Hopeless, SameToken
  <2>4. QED
    BY <1>1, <2>1, <2>3
<1>5. CASE VerifyReject(t)
  <2>1. SameToken(t) /\ req'[t].outcome \in {"no_keys", "unknown_key"}
    BY <1>5, RejectEffect
  <2>2. QED
    BY <1>1, <2>1 DEF Decided
<1>6. QED
  BY <1>2, <1>3, <1>4, <1>5 DEF Step

\* A restricted write comes with a parsed token.  It reaches DRF with one that is not
\* hopeless only if a JWKS request of the middleware failed, and so it runs.
Barred(t) ==
    RestrictedWrite(call[t].c) =>
      /\ call[t].stage \in {"mw", "drf"} =>
            req[t].outcome \notin {"anonymous", "malformed"}
      /\ call[t].stage = "drf" /\ ~call[t].mwFailed =>
            Hopeless(req[t].token) /\ req[t].outcome # "accepted"
      /\ call[t].stage = "ran" => call[t].mwFailed

BarredInv == \A t \in Threads : Decided(t) /\ Barred(t)

LEMMA BarredUntouched ==
    ASSUME PTypeOK, NEW t \in Threads, Decided(t), Barred(t),
           req'[t] = req[t], call'[t] = call[t], now' \in Nat, now' >= now
    PROVE  Decided(t)' /\ Barred(t)'
<1>1. req[t].token.exp \in Nat /\ now \in Nat
  BY DEF PTypeOK, TypeOK, Request, Token
<1>2. Hopeless(req[t].token) => Hopeless(req[t].token)'
  BY <1>1 DEF Hopeless
<1>3. Decided(t)'
  BY <1>2 DEF Decided
<1>4. Barred(t)'
  BY <1>2 DEF Barred
<1>5. QED
  BY <1>3, <1>4

LEMMA BarredAuthenticate ==
    ASSUME PTypeOK, NEW t \in Threads, Decided(t), Barred(t), Authenticate(t)
    PROVE  Decided(t)' /\ Barred(t)'
<1>1. /\ now' = now /\ SameToken(t) /\ Decided(t)'
      /\ req'[t].outcome \in {req[t].outcome, "pending", "no_keys", "unknown_key",
                              Verdict(req[t].token)}
  BY DecideStep DEF Authenticate, PTypeOK
<1>2. call' = call
  BY DEF Authenticate
<1>3. req[t].token \in Token /\ now \in Nat
  BY DEF PTypeOK, TypeOK, Request
<1>4. /\ Verdict(req[t].token) \in {"expired", "accepted", "bad_claims"}
      /\ Verdict(req[t].token) = "accepted" <=> ~Hopeless(req[t].token)
  BY <1>3, VerdictFacts
<1>5. Hopeless(req[t].token)' <=> Hopeless(req[t].token)
  BY <1>1 DEF Hopeless, SameToken
<1>6. Barred(t)'
  BY <1>1, <1>2, <1>4, <1>5 DEF Barred
<1>7. QED
  BY <1>1, <1>6

\* The middleware passes a restricted write on only with a hopeless token, or after a
\* failed JWKS request.
LEMMA PassedOn ==
    ASSUME PTypeOK, RotationInv, NEW t \in Threads, Decided(t), MwPasses(t),
           RestrictedWrite(call[t].c),
           req[t].outcome \notin {"anonymous", "malformed"}, ~req[t].failed
    PROVE  Hopeless(req[t].token)
<1>1. req[t].pc = "done" /\ req[t].outcome # "accepted"
  BY DEF MwPasses, RestrictedWrite
<1>2. req[t].token.exp \in Nat /\ now \in Nat /\ req[t].outcome \in Outcomes
  BY DEF PTypeOK, TypeOK, Request, Token
<1>3. CASE req[t].outcome \in {"expired", "bad_claims"}
  BY <1>1, <1>3 DEF Decided
<1>4. CASE req[t].outcome \in {"unknown_key", "no_keys"}
  <2>1. ~LiveTokenRejected(t)
    BY DEF RotationInv, SearchInv
  <2>2. QED
    BY <1>1, <1>2, <1>4, <2>1 DEF LiveTokenRejected, Hopeless
<1>5. QED
  BY <1>1, <1>2, <1>3, <1>4 DEF Decided, Outcomes

LEMMA BarredCall ==
    ASSUME HasUrl, PTypeOK, RotationInv, NEW t \in Threads, Decided(t), Barred(t), CallSteps(t)
    PROVE  Decided(t)' /\ Barred(t)'
<1>1. /\ req \in [Threads -> Request] /\ req[t] \in Request
      /\ call \in [Threads -> Call] /\ call[t] \in Call
  BY DEF PTypeOK, TypeOK
<1>2. Idle.pc = "idle"
  BY DEF Idle
<1>3. ASSUME NEW c \in Calls, ReceiveUnparsed(t, c)
      PROVE  Decided(t)' /\ Barred(t)'
  <2>1. Unparsed(t)
    BY <1>3 DEF ReceiveUnparsed
  <2>2. req'[t].pc = "done" /\ req'[t].outcome \in {"anonymous", "malformed"}
    BY <2>1, UnparsedEffect DEF PTypeOK
  <2>3. call'[t].c = c
    BY <1>1, <1>3 DEF ReceiveUnparsed
  <2>4. ~RestrictedWrite(c)
    BY <1>3, WriteFacts DEF ReceiveUnparsed
  <2>5. QED
    BY <2>2, <2>3, <2>4 DEF Decided, Barred
<1>4. ASSUME NEW c \in Calls, NEW tok \in Minted, Receive(t, c, tok)
      PROVE  Decided(t)' /\ Barred(t)'
  <2>1. Start(t, tok)
    BY <1>4 DEF Receive
  <2>2. req'[t].pc # "done" /\ req'[t].outcome = "pending"
    BY <2>1, StartEffect DEF PTypeOK
  <2>3. call'[t].c = c /\ call'[t].stage = FirstStage(c)
    BY <1>1, <1>4 DEF Receive
  <2>4. RestrictedWrite(c) => FirstStage(c) = "mw"
    BY WriteFacts
  <2>5. QED
    BY <2>2, <2>3, <2>4 DEF Decided, Barred
<1>5. CASE MwBlocks(t) \/ DrfRejects(t)
  <2>1. req'[t] = Idle
    BY <1>1, <1>5 DEF MwBlocks, DrfRejects, Finish
  <2>2. call'[t].stage \in {"readonly", "unauthorized"}
    BY <1>1, <1>5 DEF MwBlocks, DrfRejects, Call
  <2>3. QED
    BY <1>2, <2>1, <2>2 DEF Decided, Barred
<1>6. CASE MwPasses(t)
  <2>1. /\ call'[t].stage = "drf" /\ call'[t].c = call[t].c
        /\ call'[t].mwFailed = req[t].failed /\ now' = now /\ call[t].stage = "mw"
    BY <1>1, <1>6 DEF MwPasses, Call
  <2>2. CASE req[t].outcome \in {"anonymous", "malformed"}
    <3>1. req' = req
      BY <1>6, <2>2 DEF MwPasses
    <3>2. ~RestrictedWrite(call[t].c)
      BY <2>1, <2>2 DEF Barred
    <3>3. QED
      BY <2>1, <2>2, <3>1, <3>2 DEF Decided, Barred
  <2>3. CASE req[t].outcome \notin {"anonymous", "malformed"}
    <3>1. req'[t] = Parsed(req[t].token)
      BY <1>1, <1>6, <2>3 DEF MwPasses
    <3>2. req'[t].pc = "lock" /\ req'[t].outcome = "pending" /\ req'[t].token = req[t].token
      BY <3>1 DEF Parsed, Idle
    <3>3. RestrictedWrite(call[t].c) /\ ~req[t].failed => Hopeless(req[t].token)
      BY <1>6, <2>3, PassedOn
    <3>4. Hopeless(req[t].token)' <=> Hopeless(req[t].token)
      BY <2>1, <3>2 DEF Hopeless
    <3>5. QED
      BY <2>1, <3>2, <3>3, <3>4 DEF Decided, Barred
  <2>4. QED
    BY <2>2, <2>3
<1>7. CASE DrfDecides(t)
  <2>1. req'[t] = Idle
    BY <1>1, <1>7 DEF DrfDecides, Finish
  <2>2. /\ call[t].stage = "drf" /\ req[t].outcome \in {"accepted", "anonymous"}
        /\ call'[t].c = call[t].c /\ call'[t].mwFailed = call[t].mwFailed
        /\ call'[t].stage \in {"ran", "denied", "unauthorized"}
    BY <1>1, <1>7 DEF DrfDecides, Call
  <2>3. RestrictedWrite(call[t].c) => call[t].mwFailed
    BY <2>2 DEF Barred
  <2>4. QED
    BY <1>2, <2>1, <2>2, <2>3 DEF Decided, Barred
<1>8. CASE Respond(t)
  <2>1. req' = req /\ now' = now
    BY <1>8 DEF Respond, vars
  <2>2. call'[t].stage = "idle"
    BY <1>1, <1>8 DEF Respond
  <2>3. Decided(t)'
    BY <2>1 DEF Decided, Hopeless
  <2>4. QED
    BY <2>2, <2>3 DEF Barred
<1>9. QED
  BY <1>3, <1>4, <1>5, <1>6, <1>7, <1>8 DEF CallSteps

LEMMA BarredNext ==
    ASSUME HasUrl, PTypeOK, SearchOK, BarredInv, [PNext]_pvars
    PROVE  BarredInv'
<1> SUFFICES ASSUME NEW u \in Threads
             PROVE  Decided(u)' /\ Barred(u)'
  BY DEF BarredInv
<1>1. Decided(u) /\ Barred(u) /\ RotationInv
  BY DEF BarredInv, SearchOK
<1>2. CASE CallSteps(u)
  BY <1>1, <1>2, BarredCall
<1>3. CASE Authenticate(u)
  BY <1>1, <1>3, BarredAuthenticate
<1>4. CASE ~CallSteps(u) /\ ~Authenticate(u)
  BY <1>1, <1>4, PipelineFrame, BarredUntouched
<1>5. QED
  BY <1>2, <1>3, <1>4

\* While auth rotates its keys in order, an auditor's write runs only after a failed JWKS
\* request of the middleware's own authentication (readonly.py:51-54), in a service with or
\* without a URL: no expiry, rotation or refresh between the two authentications is enough.
THEOREM WriteNeedsFailure ==
    ASSUME Orderly PROVE PSpec => []AuditorWriteNeedsFailedFetch
<1>1. CASE ~HasUrl
  <2>1. AuditorNeverWrites => AuditorWriteNeedsFailedFetch
    BY DEF AuditorNeverWrites, AuditorWriteNeedsFailedFetch
  <2>2. PSpec => []AuditorNeverWrites
    BY <1>1, StaticAuditorNeverWrites
  <2>3. QED
    BY <2>1, <2>2, PTL
<1>2. CASE HasUrl
  <2>1. PInit => SearchOK
    BY InitOneFetch, InitReplies, InitRotation DEF PInit, SearchOK
  <2>2. PInit => BarredInv
    BY DEF PInit, Init, Idle, BarredInv, Decided, Barred
  <2>3. PTypeOK /\ SearchOK /\ [PNext]_pvars => SearchOK'
    BY <1>2, PipelineSearch
  <2>4. PTypeOK /\ SearchOK /\ BarredInv /\ [PNext]_pvars => BarredInv'
    BY <1>2, BarredNext
  <2>5. BarredInv => AuditorWriteNeedsFailedFetch
    BY DEF BarredInv, Barred, RestrictedWrite, AuditorWriteNeedsFailedFetch, AuditorWrote
  <2>6. QED
    BY <2>1, <2>2, <2>3, <2>4, <2>5, PTypeCorrect, PTL DEF PSpec
<1>3. QED
  BY <1>1, <1>2
=============================================================================

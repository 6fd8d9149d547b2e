----------------------- MODULE JwksVerificationProofs -----------------------
(***************************************************************************)
(* Proofs about JwksVerification, for every set of threads and keys, every *)
(* sequence of documents, every TTL, latency and token lifetime.           *)
(***************************************************************************)
EXTENDS JwksVerification, TLAPS

USE DEF Docs

-----------------------------------------------------------------------------
(* Type correctness *)

LEMMA IdleType == Idle \in Request
<1>1. Rotation[1] \in SUBSET Keys
  BY RotationAssumption
<1>2. FirstKey \in Keys
  BY <1>1, RotationAssumption
<1>3. QED
  BY <1>2 DEF Idle, NoToken, Token, Request, Outcomes

LEMMA MintedType ==
    ASSUME TypeOK, NEW tok \in Minted
    PROVE  tok \in Token
<1>1. PICK k \in Keys, shape \in Shapes :
        tok = [key |-> k, exp |-> LatestExpiry(k), kid |-> shape.kid, good |-> shape.good]
  BY DEF Minted
<1>2. LatestExpiry(k) \in Nat
  <2>1. lastSigned[k] \in Nat \cup {Never} /\ now \in Nat /\ TokenLife \in Nat
    BY ConstantsAssumption DEF TypeOK
  <2>2. QED
    BY <2>1 DEF LatestExpiry
<1>3. shape.kid \in BOOLEAN /\ shape.good \in BOOLEAN
  BY ConstantsAssumption DEF TokenShape
<1>4. QED
  BY <1>1, <1>2, <1>3 DEF Token

LEMMA InitType == Init => TypeOK
BY IdleType, RotationAssumption, ConstantsAssumption DEF Init, TypeOK, Never

LEMMA EnvironmentType ==
    ASSUME TypeOK, Environment
    PROVE  TypeOK'
<1>1. CASE Tick
  BY <1>1 DEF Tick, authVars, TypeOK
<1>2. CASE Publish
  BY <1>2, RotationAssumption DEF Publish, TypeOK
<1>3. ASSUME NEW k \in Keys, SwitchSigning(k)
      PROVE  TypeOK'
  BY <1>3 DEF SwitchSigning, TypeOK
<1>4. QED
  BY <1>1, <1>2, <1>3 DEF Environment

\* The steps that work on a request only.
LocalStep(t) == \/ Unparsed(t) \/ Finish(t) \/ (\E tok \in Minted : Start(t, tok))
                \/ ReadCache(t) \/ Serve(t)
                \/ VerifyMatch(t) \/ VerifyRetry(t) \/ VerifyReject(t)

\* What a step of a thread leaves alone.
LEMMA StepFrame ==
    ASSUME TypeOK, NEW t \in Threads, LocalStep(t) \/ Refresh(t) \/ FetchEnds(t)
    PROVE  /\ now' = now /\ docNo' = docNo /\ signing' = signing
           /\ lastSigned' = lastSigned /\ replacedAt' = replacedAt
           /\ \A u \in Threads : u # t => req'[u] = req[u]
BY DEF TypeOK, LocalStep, Unparsed, Finish, Start, ReadCache, Serve, VerifyMatch,
       VerifyRetry, VerifyReject, Refresh, FetchEnds, Reply, FetchFailsStale,
       FetchFailsCold, authVars

LEMMA RequestType ==
    ASSUME TypeOK, NEW t \in Threads, LocalStep(t) \/ Refresh(t) \/ FetchEnds(t)
    PROVE  req' \in [Threads -> Request]
<1>1. \A r \in Request : [req EXCEPT ![t] = r] \in [Threads -> Request]
  BY DEF TypeOK
<1>2. req[t] \in Request /\ cache.doc \in {0} \cup Docs /\ docNo \in Docs /\ now \in Nat
  BY DEF TypeOK
<1>3. CASE Unparsed(t)
  <2>1. PICK o \in {"anonymous", "malformed"} :
          req' = [req EXCEPT ![t] = [Idle EXCEPT !.pc = "done", !.outcome = o]]
    BY <1>3 DEF Unparsed
  <2>2. [Idle EXCEPT !.pc = "done", !.outcome = o] \in Request
    BY IdleType DEF Request, Outcomes
  <2>3. QED
    BY <1>1, <2>1, <2>2
<1>4. CASE Finish(t)
  BY <1>1, <1>4, IdleType DEF Finish
<1>5. ASSUME NEW tok \in Minted, Start(t, tok)
      PROVE  req' \in [Threads -> Request]
  <2>1. Parsed(tok) \in Request
    BY <1>2, IdleType, MintedType DEF Parsed, Request
  <2>2. QED
    BY <1>1, <1>5, <2>1 DEF Start
<1>6. CASE ReadCache(t)
  <2>1. [req[t] EXCEPT !.pc = "verify", !.used = cache.doc] \in Request
    BY <1>2 DEF Request
  <2>2. QED
    BY <1>1, <1>6, <2>1 DEF ReadCache, TypeOK
<1>7. CASE Serve(t)
  <2>1. [req[t] EXCEPT !.reply = docNo] \in Request
    BY <1>2 DEF Request
  <2>2. QED
    BY <1>1, <1>7, <2>1 DEF Serve, TypeOK
<1>8. CASE VerifyMatch(t)
  <2>1. Verdict(req[t].token) \in Outcomes
    BY DEF Verdict, Outcomes
  <2>2. [req[t] EXCEPT !.pc = "done", !.outcome = Verdict(req[t].token)] \in Request
    BY <1>2, <2>1 DEF Request
  <2>3. QED
    BY <1>1, <1>8, <2>2 DEF VerifyMatch, TypeOK
<1>9. CASE VerifyRetry(t)
  <2>1. [req[t] EXCEPT !.pc = "lock", !.pass = 2, !.used = 0] \in Request
    BY <1>2 DEF Request
  <2>2. QED
    BY <1>1, <1>9, <2>1 DEF VerifyRetry, TypeOK
<1>10. CASE VerifyReject(t)
  <2>1. PICK o \in {"no_keys", "unknown_key"} :
          req' = [req EXCEPT ![t].pc = "done", ![t].outcome = o]
    BY <1>10 DEF VerifyReject
  <2>2. [req[t] EXCEPT !.pc = "done", !.outcome = o] \in Request
    BY <1>2 DEF Request, Outcomes
  <2>3. QED
    BY <1>1, <2>1, <2>2 DEF TypeOK
<1>11. CASE Refresh(t)
  <2>1. [req[t] EXCEPT !.pc = "fetch"] \in Request
    BY <1>2 DEF Request
  <2>2. QED
    BY <1>1, <1>11, <2>1 DEF Refresh, TypeOK
<1>12. CASE Reply(t)
  <2>1. [req[t] EXCEPT !.pc = "verify", !.used = req[t].reply, !.reply = 0] \in Request
    BY <1>2 DEF Request
  <2>2. QED
    BY <1>1, <1>12, <2>1 DEF Reply, TypeOK
<1>13. CASE FetchFailsStale(t)
  <2>1. [req[t] EXCEPT !.pc = "verify", !.used = cache.doc, !.reply = 0,
                       !.failed = TRUE] \in Request
    BY <1>2 DEF Request
  <2>2. QED
    BY <1>1, <1>13, <2>1 DEF FetchFailsStale, TypeOK
<1>14. CASE FetchFailsCold(t)
  <2>1. [req[t] EXCEPT
           !.failed = TRUE, !.reply = 0, !.pass = 2,
           !.pc = IF req[t].pass = 1 THEN "lock" ELSE "done",
           !.outcome = IF req[t].pass = 1 THEN "pending" ELSE "no_keys"] \in Request
    BY <1>2 DEF Request, Outcomes
  <2>2. QED
    BY <1>1, <1>14, <2>1 DEF FetchFailsCold
<1>15. QED
  BY <1>3, <1>4, <1>5, <1>6, <1>7, <1>8, <1>9, <1>10, <1>11, <1>12, <1>13, <1>14
     DEF LocalStep, FetchEnds

LEMMA NextType == TypeOK /\ [Next]_vars => TypeOK'
<1> SUFFICES ASSUME TypeOK, [Next]_vars PROVE TypeOK'
  OBVIOUS
<1>1. CASE UNCHANGED vars
  BY <1>1 DEF vars, authVars, TypeOK
<1>2. CASE Environment
  BY <1>2, EnvironmentType
<1>3. ASSUME NEW t \in Threads, LocalStep(t) \/ Refresh(t) \/ FetchEnds(t)
      PROVE  TypeOK'
  <2>1. req' \in [Threads -> Request]
    BY <1>3, RequestType
  <2>2. /\ lock' \in Threads \cup {NoThread} /\ sentAt' \in Nat
        /\ cache' \in [doc : {0} \cup Docs, fetchedAt : Nat]
    <3>1. CASE LocalStep(t)
      BY <3>1 DEF TypeOK, LocalStep, Unparsed, Finish, Start, ReadCache, Serve,
                  VerifyMatch, VerifyRetry, VerifyReject
    <3>2. CASE Refresh(t)
      BY <3>2 DEF TypeOK, Refresh
    <3>3. CASE Reply(t)
      <4>1. req[t].reply \in {0} \cup Docs
        BY DEF TypeOK, Request
      <4>2. QED
        BY <3>3, <4>1 DEF TypeOK, Reply
    <3>4. CASE FetchFailsStale(t) \/ FetchFailsCold(t)
      BY <3>4 DEF TypeOK, FetchFailsStale, FetchFailsCold
    <3>5. QED
      BY <1>3, <3>1, <3>2, <3>3, <3>4 DEF FetchEnds
  <2>3. QED
    BY <1>3, <2>1, <2>2, StepFrame DEF TypeOK
<1>4. QED
  BY <1>1, <1>2, <1>3 DEF Next, Step, LocalStep, FetchEnds

\* The variables keep their types.
THEOREM TypeCorrect == Spec => []TypeOK
BY InitType, NextType, PTL DEF Spec

-----------------------------------------------------------------------------
(* The lock and the cache *)

LEMMA InitOneFetch == Init => OneFetchAtATime
BY DEF Init, OneFetchAtATime, Idle

\* A request keeps its token, its start and the record of its failures.
SameToken(t) == /\ req'[t].token = req[t].token
                /\ req'[t].started = req[t].started

\* What each step makes of the request of its thread.
LEMMA ReadCacheEffect ==
    ASSUME TypeOK, NEW t \in Threads, ReadCache(t)
    PROVE  /\ req[t].pc = "lock" /\ SameToken(t)
           /\ req'[t].pc = "verify"
           /\ req'[t].used = cache.doc
           /\ req'[t].pass = req[t].pass /\ req'[t].reply = req[t].reply
           /\ req'[t].failed = req[t].failed /\ req'[t].outcome = req[t].outcome
<1>1. req \in [Threads -> Request] /\ req[t] \in Request
  BY DEF TypeOK
<1>2. req'[t] = [req[t] EXCEPT !.pc = "verify", !.used = cache.doc]
  BY <1>1 DEF ReadCache
<1>3. req[t].pc = "lock"
  BY DEF ReadCache
<1>4. QED
  BY <1>1, <1>2, <1>3 DEF SameToken, Request

LEMMA RefreshEffect ==
    ASSUME TypeOK, NEW t \in Threads, Refresh(t)
    PROVE  /\ req[t].pc = "lock" /\ SameToken(t)
           /\ req'[t].pc = "fetch"
           /\ req'[t].pass = req[t].pass /\ req'[t].used = req[t].used
           /\ req'[t].reply = req[t].reply /\ req'[t].failed = req[t].failed
           /\ req'[t].outcome = req[t].outcome
<1>1. req \in [Threads -> Request] /\ req[t] \in Request
  BY DEF TypeOK
<1>2. req'[t] = [req[t] EXCEPT !.pc = "fetch"]
  BY <1>1 DEF Refresh
<1>3. req[t].pc = "lock"
  BY DEF Refresh
<1>4. QED
  BY <1>1, <1>2, <1>3 DEF SameToken, Request

LEMMA ServeEffect ==
    ASSUME TypeOK, NEW t \in Threads, Serve(t)
    PROVE  /\ req[t].pc = "fetch" /\ SameToken(t)
           /\ req'[t].reply = docNo
           /\ req'[t].pc = req[t].pc /\ req'[t].pass = req[t].pass
           /\ req'[t].used = req[t].used /\ req'[t].failed = req[t].failed
           /\ req'[t].outcome = req[t].outcome
<1>1. req \in [Threads -> Request] /\ req[t] \in Request
  BY DEF TypeOK
<1>2. req'[t] = [req[t] EXCEPT !.reply = docNo]
  BY <1>1 DEF Serve
<1>3. req[t].pc = "fetch"
  BY DEF Serve
<1>4. QED
  BY <1>1, <1>2, <1>3 DEF SameToken, Request

LEMMA ReplyEffect ==
    ASSUME TypeOK, NEW t \in Threads, Reply(t)
    PROVE  /\ req[t].pc = "fetch" /\ SameToken(t)
           /\ req'[t].pc = "verify"
           /\ req'[t].used = req[t].reply
           /\ req'[t].reply = 0
           /\ req'[t].pass = req[t].pass /\ req'[t].failed = req[t].failed
           /\ req'[t].outcome = req[t].outcome
<1>1. req \in [Threads -> Request] /\ req[t] \in Request
  BY DEF TypeOK
<1>2. req'[t] = [req[t] EXCEPT !.pc = "verify", !.used = req[t].reply, !.reply = 0]
  BY <1>1 DEF Reply
<1>3. req[t].pc = "fetch"
  BY DEF Reply
<1>4. QED
  BY <1>1, <1>2, <1>3 DEF SameToken, Request

LEMMA FailsStaleEffect ==
    ASSUME TypeOK, NEW t \in Threads, FetchFailsStale(t)
    PROVE  /\ req[t].pc = "fetch" /\ SameToken(t)
           /\ req'[t].pc = "verify"
           /\ req'[t].used = cache.doc
           /\ req'[t].reply = 0
           /\ req'[t].failed = TRUE
           /\ req'[t].pass = req[t].pass /\ req'[t].outcome = req[t].outcome
<1>1. req \in [Threads -> Request] /\ req[t] \in Request
  BY DEF TypeOK
<1>2. req'[t] = [req[t] EXCEPT !.pc = "verify", !.used = cache.doc, !.reply = 0, !.failed = TRUE]
  BY <1>1 DEF FetchFailsStale
<1>3. req[t].pc = "fetch"
  BY DEF FetchFailsStale
<1>4. QED
  BY <1>1, <1>2, <1>3 DEF SameToken, Request

LEMMA FailsColdEffect ==
    ASSUME TypeOK, NEW t \in Threads, FetchFailsCold(t)
    PROVE  /\ req[t].pc = "fetch" /\ SameToken(t)
           /\ req'[t].failed = TRUE
           /\ req'[t].reply = 0
           /\ req'[t].pass = 2
           /\ req'[t].pc = (IF req[t].pass = 1 THEN "lock" ELSE "done")
           /\ req'[t].outcome = (IF req[t].pass = 1 THEN "pending" ELSE "no_keys")
           /\ req'[t].used = req[t].used
<1>1. req \in [Threads -> Request] /\ req[t] \in Request
  BY DEF TypeOK
<1>2. req'[t] = [req[t] EXCEPT
          !.failed = TRUE, !.reply = 0, !.pass = 2,
          !.pc = IF req[t].pass = 1 THEN "lock" ELSE "done",
          !.outcome = IF req[t].pass = 1 THEN "pending" ELSE "no_keys"]
  BY <1>1 DEF FetchFailsCold
<1>3. req[t].pc = "fetch"
  BY DEF FetchFailsCold
<1>4. QED
  BY <1>1, <1>2, <1>3 DEF SameToken, Request

LEMMA MatchEffect ==
    ASSUME TypeOK, NEW t \in Threads, VerifyMatch(t)
    PROVE  /\ req[t].pc = "verify" /\ SameToken(t)
           /\ req'[t].pc = "done"
           /\ req'[t].outcome = Verdict(req[t].token)
           /\ req'[t].pass = req[t].pass /\ req'[t].used = req[t].used
           /\ req'[t].reply = req[t].reply /\ req'[t].failed = req[t].failed
<1>1. req \in [Threads -> Request] /\ req[t] \in Request
  BY DEF TypeOK
<1>2. req'[t] = [req[t] EXCEPT !.pc = "done", !.outcome = Verdict(req[t].token)]
  BY <1>1 DEF VerifyMatch
<1>3. req[t].pc = "verify"
  BY DEF VerifyMatch
<1>4. QED
  BY <1>1, <1>2, <1>3 DEF SameToken, Request

LEMMA RetryEffect ==
    ASSUME TypeOK, NEW t \in Threads, VerifyRetry(t)
    PROVE  /\ req[t].pc = "verify" /\ SameToken(t)
           /\ req'[t].pc = "lock"
           /\ req'[t].pass = 2
           /\ req'[t].used = 0
           /\ req'[t].reply = req[t].reply /\ req'[t].failed = req[t].failed
           /\ req'[t].outcome = req[t].outcome
<1>1. req \in [Threads -> Request] /\ req[t] \in Request
  BY DEF TypeOK
<1>2. req'[t] = [req[t] EXCEPT !.pc = "lock", !.pass = 2, !.used = 0]
  BY <1>1 DEF VerifyRetry
<1>3. req[t].pc = "verify"
  BY DEF VerifyRetry
<1>4. QED
  BY <1>1, <1>2, <1>3 DEF SameToken, Request

LEMMA RejectEffect ==
    ASSUME TypeOK, NEW t \in Threads, VerifyReject(t)
    PROVE  /\ req[t].pc = "verify" /\ SameToken(t)
           /\ req'[t].pc = "done"
           /\ req'[t].outcome \in {"no_keys", "unknown_key"}
           /\ req'[t].pass = req[t].pass /\ req'[t].used = req[t].used
           /\ req'[t].reply = req[t].reply /\ req'[t].failed = req[t].failed
<1>1. req \in [Threads -> Request] /\ req[t] \in Request
  BY DEF TypeOK
<1>2. PICK o \in {"no_keys", "unknown_key"} :
        req'[t] = [req[t] EXCEPT !.pc = "done", !.outcome = o]
  BY <1>1 DEF VerifyReject
<1>3. req[t].pc = "verify"
  BY DEF VerifyReject
<1>4. QED
  BY <1>1, <1>2, <1>3 DEF SameToken, Request

LEMMA StartEffect ==
    ASSUME TypeOK, NEW t \in Threads, NEW tok, Start(t, tok)
    PROVE  /\ req[t].pc = "idle"
           /\ req'[t].pc = (IF HasUrl THEN "lock" ELSE "verify")
           /\ req'[t].token = tok /\ req'[t].started = now
           /\ req'[t].pass = 1 /\ req'[t].used = 0 /\ req'[t].reply = 0
           /\ req'[t].failed = FALSE /\ req'[t].outcome = "pending"
<1>1. req'[t] = Parsed(tok) /\ req[t].pc = "idle"
  BY DEF Start, TypeOK
<1>2. QED
  BY <1>1 DEF Parsed, Idle

LEMMA FinishEffect ==
    ASSUME TypeOK, NEW t \in Threads, Finish(t)
    PROVE  /\ req[t].pc = "done" /\ req'[t].pc = "idle"
           /\ req'[t].outcome = "pending"
           /\ req'[t].token = NoToken /\ req'[t].started = 0
           /\ req'[t].pass = 1 /\ req'[t].used = 0 /\ req'[t].reply = 0
           /\ req'[t].failed = FALSE
<1>1. req'[t] = Idle /\ req[t].pc = "done"
  BY DEF Finish, TypeOK
<1>2. QED
  BY <1>1 DEF Idle

LEMMA UnparsedEffect ==
    ASSUME TypeOK, NEW t \in Threads, Unparsed(t)
    PROVE  /\ req[t].pc = "idle" /\ req'[t].pc = "done"
           /\ req'[t].outcome \in {"anonymous", "malformed"}
           /\ req'[t].token = NoToken /\ req'[t].started = 0
           /\ req'[t].pass = 1 /\ req'[t].used = 0 /\ req'[t].reply = 0
           /\ req'[t].failed = FALSE
<1>1. PICK o \in {"anonymous", "malformed"} :
        req'[t] = [Idle EXCEPT !.pc = "done", !.outcome = o]
  BY DEF Unparsed, TypeOK
<1>2. QED
  BY <1>1 DEF Unparsed, Idle

\* The steps between two authentications.
Between(t) == Unparsed(t) \/ Finish(t) \/ (\E tok \in Minted : Start(t, tok))

LEMMA BetweenEffect ==
    ASSUME TypeOK, NEW t \in Threads, Between(t)
    PROVE  /\ req[t].pc # "fetch" /\ req'[t].pc # "fetch"
           /\ req'[t].pass = 1 /\ req'[t].used = 0 /\ req'[t].reply = 0
           /\ req'[t].failed = FALSE
<1>1. CASE Unparsed(t)
  BY <1>1, UnparsedEffect
<1>2. CASE Finish(t)
  BY <1>2, FinishEffect
<1>3. ASSUME NEW tok \in Minted, Start(t, tok)
      PROVE  /\ req[t].pc # "fetch" /\ req'[t].pc # "fetch"
             /\ req'[t].pass = 1 /\ req'[t].used = 0 /\ req'[t].reply = 0
             /\ req'[t].failed = FALSE
  BY <1>3, StartEffect
<1>4. QED
  BY <1>1, <1>2, <1>3 DEF Between

\* A step of a thread that does not start or end a JWKS request moves the thread
\* neither into "fetch" nor out of it, and leaves the lock alone.
LEMMA LocalStepFrame ==
    ASSUME TypeOK, NEW t \in Threads, LocalStep(t)
    PROVE  /\ lock' = lock /\ cache' = cache /\ sentAt' = sentAt
           /\ req'[t].pc = "fetch" <=> req[t].pc = "fetch"
<1>1. req \in [Threads -> Request]
  BY DEF TypeOK
<1>2. lock' = lock /\ cache' = cache /\ sentAt' = sentAt
  BY DEF LocalStep, Unparsed, Finish, Start, ReadCache, Serve, VerifyMatch, VerifyRetry,
         VerifyReject
<1>3. CASE Between(t)
  BY <1>2, <1>3, BetweenEffect
<1>4. CASE ReadCache(t) \/ Serve(t)
  BY <1>2, <1>4, ReadCacheEffect, ServeEffect
<1>5. CASE VerifyMatch(t) \/ VerifyRetry(t) \/ VerifyReject(t)
  BY <1>2, <1>5, MatchEffect, RetryEffect, RejectEffect
<1>6. QED
  BY <1>2, <1>3, <1>4, <1>5 DEF LocalStep, Between

LEMMA FetchEndsFrame ==
    ASSUME TypeOK, NEW t \in Threads, FetchEnds(t)
    PROVE  /\ lock' = NoThread /\ req[t].pc = "fetch" /\ req'[t].pc # "fetch"
           /\ req'[t].reply = 0
<1>1. req[t] \in Request
  BY DEF TypeOK
<1>2. lock' = NoThread /\ req[t].pc = "fetch"
  BY DEF FetchEnds, Reply, FetchFailsStale, FetchFailsCold
<1>3. req'[t].pc # "fetch" /\ req'[t].reply = 0
  BY ReplyEffect, FailsStaleEffect, FailsColdEffect DEF FetchEnds
<1>4. QED
  BY <1>2, <1>3

LEMMA EnvironmentFrame ==
    ASSUME Environment
    PROVE  UNCHANGED <<cache, lock, sentAt, req>>
BY DEF Environment, Tick, Publish, SwitchSigning

LEMMA NextOneFetch ==
    TypeOK /\ OneFetchAtATime /\ [Next]_vars => OneFetchAtATime'
<1> SUFFICES ASSUME TypeOK, OneFetchAtATime, [Next]_vars PROVE OneFetchAtATime'
  OBVIOUS
<1> USE DEF OneFetchAtATime
<1>1. CASE UNCHANGED vars
  BY <1>1 DEF vars
<1>2. CASE Environment
  BY <1>2, EnvironmentFrame
<1>3. ASSUME NEW t \in Threads, LocalStep(t)
      PROVE  OneFetchAtATime'
  <2>1. \A u \in Threads : req'[u].pc = "fetch" <=> req[u].pc = "fetch"
    BY <1>3, LocalStepFrame, StepFrame
  <2>2. lock' = lock /\ lock \in Threads \cup {NoThread}
    BY <1>3, LocalStepFrame DEF TypeOK
  <2>3. QED
    BY <2>1, <2>2
<1>4. ASSUME NEW t \in Threads, Refresh(t)
      PROVE  OneFetchAtATime'
  <2>1. req'[t].pc = "fetch" /\ lock' = t /\ lock = NoThread
    BY <1>4 DEF Refresh, TypeOK, Request
  <2>2. \A u \in Threads : u # t => req'[u].pc # "fetch"
    BY <1>4, <2>1, StepFrame, ConstantsAssumption
  <2>3. QED
    BY <2>1, <2>2
<1>5. ASSUME NEW t \in Threads, FetchEnds(t)
      PROVE  OneFetchAtATime'
  <2>1. lock = t /\ lock' = NoThread /\ req'[t].pc # "fetch"
    BY <1>5, FetchEndsFrame
  <2>2. \A u \in Threads : req'[u].pc # "fetch"
    BY <1>5, <2>1, StepFrame
  <2>3. QED
    BY <2>1, <2>2
<1>6. QED
  BY <1>1, <1>2, <1>3, <1>4, <1>5 DEF Next, Step, LocalStep, FetchEnds

\* At most one JWKS request is in flight, and the thread that made it holds the lock.
THEOREM OneFetchAtATimeHolds == Spec => []OneFetchAtATime
BY InitType, NextType, InitOneFetch, NextOneFetch, PTL DEF Spec

\* A reply on its way is as recent as the cached document, as nobody else can have
\* filled the cache since it was sent.
RepliesRecent ==
    /\ cache.doc <= docNo
    /\ \A t \in Threads : req[t].reply # 0 =>
         req[t].pc = "fetch" /\ cache.doc <= req[t].reply /\ req[t].reply <= docNo

LEMMA InitReplies == Init => RepliesRecent
BY DEF Init, RepliesRecent, Idle

LEMMA NextReplies ==
    TypeOK /\ OneFetchAtATime /\ RepliesRecent /\ [Next]_vars
      => RepliesRecent' /\ cache'.doc >= cache.doc
<1> SUFFICES ASSUME TypeOK, OneFetchAtATime, RepliesRecent, [Next]_vars
             PROVE  RepliesRecent' /\ cache'.doc >= cache.doc
  OBVIOUS
<1> DEFINE P == RepliesRecent' /\ cache'.doc >= cache.doc
<1>0. /\ docNo \in Nat /\ cache.doc \in Nat
      /\ \A t \in Threads : req[t].reply \in Nat /\ req[t] \in Request
  BY RotationAssumption DEF TypeOK, Request
<1>1. CASE UNCHANGED vars
  BY <1>0, <1>1 DEF vars, authVars, RepliesRecent
<1>2. CASE Environment
  <2>1. docNo' \in Nat /\ docNo <= docNo'
    BY <1>0, <1>2 DEF Environment, Tick, Publish, SwitchSigning, authVars
  <2>2. QED
    BY <1>0, <1>2, <2>1, EnvironmentFrame DEF RepliesRecent
<1>3. ASSUME NEW t \in Threads, LocalStep(t)
      PROVE  P
  <2>1. docNo' = docNo /\ cache' = cache
    BY <1>3, StepFrame, LocalStepFrame
  <2>2. \A u \in Threads : u # t => req'[u] = req[u]
    BY <1>3, StepFrame
  <2>3. req'[t].reply # 0 => req'[t].pc = "fetch" /\ req'[t].reply \in {req[t].reply, docNo}
    <3>1. CASE Serve(t)
      BY <3>1, ServeEffect
    <3>2. CASE Between(t)
      BY <3>2, BetweenEffect
    <3>3. CASE ReadCache(t) \/ VerifyMatch(t) \/ VerifyRetry(t) \/ VerifyReject(t)
      <4>1. req'[t].reply = req[t].reply
        BY <3>3, ReadCacheEffect, MatchEffect, RetryEffect, RejectEffect
      <4>2. req[t].pc # "fetch"
        BY <3>3 DEF ReadCache, VerifyMatch, VerifyRetry, VerifyReject
      <4>3. QED
        BY <4>1, <4>2 DEF RepliesRecent
    <3>4. QED
      BY <1>3, <3>1, <3>2, <3>3 DEF LocalStep, Between
  <2>4. req[t].reply # 0 => cache.doc <= req[t].reply /\ req[t].reply <= docNo
    BY DEF RepliesRecent
  <2>5. QED
    BY <1>0, <2>1, <2>2, <2>3, <2>4 DEF RepliesRecent
<1>4. ASSUME NEW t \in Threads, Refresh(t)
      PROVE  P
  <2>1. req'[t].reply = req[t].reply /\ req[t].pc = "lock" /\ cache' = cache
    BY <1>0, <1>4 DEF Refresh, TypeOK, Request
  <2>2. req[t].reply = 0
    BY <2>1 DEF RepliesRecent
  <2>3. QED
    BY <1>0, <1>4, <2>1, <2>2, StepFrame DEF RepliesRecent
<1>5. ASSUME NEW t \in Threads, FetchEnds(t)
      PROVE  P
  <2>1. \A u \in Threads : req'[u].reply = 0
    <3>1. \A u \in Threads : u # t => req[u].pc # "fetch"
      BY <1>5, FetchEndsFrame DEF OneFetchAtATime
    <3>2. QED
      BY <1>5, <3>1, FetchEndsFrame, StepFrame DEF RepliesRecent
  <2>2. docNo' = docNo
    BY <1>5, StepFrame
  <2>3. cache'.doc \in {cache.doc, req[t].reply} /\ (cache'.doc # cache.doc => req[t].reply # 0)
    BY <1>5 DEF FetchEnds, Reply, FetchFailsStale, FetchFailsCold
  <2>4. QED
    BY <1>0, <2>1, <2>2, <2>3 DEF RepliesRecent
<1>6. QED
  BY <1>1, <1>2, <1>3, <1>4, <1>5 DEF Next, Step, LocalStep, FetchEnds

\* The cache never goes back to an older document.
THEOREM CacheNeverRegressesHolds == Spec => CacheNeverRegresses
BY InitType, NextType, InitOneFetch, NextOneFetch, InitReplies, NextReplies,
   PTL DEF Spec, CacheNeverRegresses

\* A thread that goes on takes its keys from what is cached then, or has none, or keeps
\* what it has.
LEMMA UsesTheCache ==
    ASSUME TypeOK, RepliesRecent, NEW t \in Threads, Step(t)
    PROVE  \/ cache'.doc = cache.doc /\ req'[t].used \in {req[t].used, 0}
           \/ req'[t].used = cache'.doc /\ cache'.doc # 0
<1>1. CASE ReadCache(t)
  <2>1. cache.doc # 0 /\ cache' = cache
    BY <1>1 DEF ReadCache
  <2> QED BY <1>1, <2>1, ReadCacheEffect
<1>2. CASE Reply(t)
  <2>1. req[t].reply # 0 /\ cache'.doc = req[t].reply
    BY <1>2 DEF Reply
  <2> QED BY <1>2, <2>1, ReplyEffect
<1>3. CASE FetchFailsStale(t)
  <2>1. cache.doc # 0 /\ cache' = cache
    BY <1>3 DEF FetchFailsStale
  <2> QED BY <1>3, <2>1, FailsStaleEffect
<1>4. CASE Refresh(t) \/ Serve(t) \/ FetchFailsCold(t)
  <2>1. cache' = cache
    BY <1>4 DEF Refresh, Serve, FetchFailsCold
  <2> QED BY <1>4, <2>1, RefreshEffect, ServeEffect, FailsColdEffect
<1>5. CASE VerifyMatch(t) \/ VerifyRetry(t) \/ VerifyReject(t)
  <2>1. cache' = cache
    BY <1>5 DEF VerifyMatch, VerifyRetry, VerifyReject
  <2> QED BY <1>5, <2>1, MatchEffect, RetryEffect, RejectEffect
<1> QED BY <1>1, <1>2, <1>3, <1>4, <1>5 DEF Step

\* The cache implements the register: what auth publishes, what is cached and what the
\* threads take their keys from.
THEOREM ImplementsRegister == Spec => RegisterSpec
<1> DEFINE using == [t \in Threads |-> req[t].used]
<1>1. Init => Register!Init
  BY DEF Init, Register!Init, Idle
<1>2. ASSUME TypeOK, TypeOK', OneFetchAtATime, RepliesRecent, [Next]_vars
      PROVE  [Register!Next]_<<docNo, cache.doc, using>>
  <2>1. /\ docNo \in Nat /\ docNo' \in Nat /\ cache.doc \in Nat /\ cache'.doc \in Nat
        /\ \A t \in Threads : req[t].used \in Nat
    BY <1>2, RotationAssumption DEF TypeOK, Request
  <2>2. cache'.doc <= docNo' /\ cache.doc <= cache'.doc
    BY <1>2, NextReplies DEF RepliesRecent
  <2>3. CASE UNCHANGED vars
    BY <2>3 DEF vars, authVars
  <2>4. CASE Environment
    <3>1. cache' = cache /\ req' = req
      BY <2>4, EnvironmentFrame
    <3>2. docNo' = docNo \/ docNo' = docNo + 1
      BY <2>4 DEF Environment, Tick, Publish, SwitchSigning, authVars
    <3> QED BY <3>1, <3>2 DEF Register!Next, Register!Publish
  <2>5. ASSUME NEW t \in Threads, Step(t) \/ Between(t)
        PROVE  [Register!Next]_<<docNo, cache.doc, using>>
    <3>1. docNo' = docNo /\ \A u \in Threads : u # t => req'[u] = req[u]
      BY <1>2, <2>5, StepFrame DEF Between, Step, LocalStep, FetchEnds
    <3>2. using' = [using EXCEPT ![t] = req'[t].used]
      BY <3>1
    <3>3. \/ cache'.doc = cache.doc /\ req'[t].used \in {req[t].used, 0}
          \/ req'[t].used = cache'.doc /\ cache'.doc # 0
      <4>1. CASE Step(t)
        BY <1>2, <4>1, UsesTheCache
      <4>2. CASE Between(t)
        <5>1. cache' = cache
          BY <1>2, <4>2, LocalStepFrame DEF LocalStep, Between
        <5> QED BY <1>2, <4>2, <5>1, BetweenEffect
      <4> QED BY <2>5, <4>1, <4>2
    <3>4. CASE cache'.doc = cache.doc /\ req'[t].used = req[t].used
      <4>1. using' = using
        BY <3>2, <3>4
      <4> QED BY <3>1, <3>4, <4>1
    <3>5. CASE cache'.doc = cache.doc /\ req'[t].used = 0
      <4>1. Register!Forget(t)
        BY <3>1, <3>2, <3>5 DEF Register!Forget
      <4> QED BY <4>1 DEF Register!Next
    <3>6. CASE req'[t].used = cache'.doc /\ cache'.doc # 0
      <4>1. cache'.doc \in 1..docNo
        BY <2>1, <2>2, <3>1, <3>6
      <4>2. Register!Use(t)
        BY <2>2, <3>1, <3>2, <3>6, <4>1 DEF Register!Use
      <4> QED BY <4>2 DEF Register!Next
    <3> QED BY <3>3, <3>4, <3>5, <3>6
  <2> QED BY <1>2, <2>3, <2>4, <2>5 DEF Next, Between
<1> QED BY <1>1, <1>2, InitType, NextType, InitOneFetch, NextOneFetch, InitReplies,
           NextReplies, PTL DEF Spec, RegisterSpec, Register!Spec

-----------------------------------------------------------------------------
(***************************************************************************)
(* Zero-downtime rotation: in a service with a JWKS URL, while auth        *)
(* rotates its keys in order, no live token is rejected for want of a key  *)
(* unless a JWKS request of its own failed.                                *)
(***************************************************************************)
\* Auth has signed with the key.
Signed(k) == k = signing \/ lastSigned[k] # Never

\* Auth publishes every key that it signs with or that has unexpired tokens.
KeysLive ==
    /\ signing \in Rotation[docNo]
    /\ \A k \in Keys : Signed(k) /\ now < LatestExpiry(k) => k \in Rotation[docNo]

\* A live token was signed by auth, with a key whose latest token lives at least as long.
Live(t) == now < req[t].token.exp

TokensKnown ==
    \A t \in Threads : Live(t) =>
        /\ Signed(req[t].token.key)
        /\ req[t].token.exp <= LatestExpiry(req[t].token.key)

\* How far the search for the key of a live token got: a reply on its way holds the
\* key, and so do the keys of the second pass unless its request failed.
SearchInv(t) ==
    /\ req[t].pc \in {"lock", "fetch"} => req[t].used = 0
    /\ req[t].reply # 0 /\ Live(t) => req[t].token.key \in JwksKeys(req[t].reply)
    /\ req[t].pc = "verify" /\ req[t].pass = 2 /\ Live(t) =>
         req[t].failed \/ req[t].token.key \in JwksKeys(req[t].used)
    /\ LiveTokenRejected(t) => req[t].failed /\ req[t].token.key \notin JwksKeys(req[t].used)

RotationInv == KeysLive /\ TokensKnown /\ \A t \in Threads : SearchInv(t)

-----------------------------------------------------------------------------
LEMMA InitRotation == Init => RotationInv
<1> SUFFICES ASSUME Init PROVE RotationInv
  OBVIOUS
<1>1. KeysLive
  BY RotationAssumption DEF Init, KeysLive, Signed
<1>2. \A t \in Threads : req[t] = Idle /\ now = 0
  BY DEF Init
<1>3. TokensKnown
  BY <1>2 DEF TokensKnown, Live, Idle, NoToken
<1>4. \A t \in Threads : SearchInv(t)
  BY <1>2 DEF SearchInv, LiveTokenRejected, Idle
<1>5. QED
  BY <1>1, <1>3, <1>4 DEF RotationInv

\* The environment only ever extends the life of a key's tokens.
LEMMA EnvironmentKeys ==
    ASSUME TypeOK, KeysLive, Orderly, Environment
    PROVE  /\ KeysLive' /\ now \in Nat /\ now' \in Nat /\ now <= now'
           /\ \A k \in Keys : Signed(k) =>
                Signed(k)' /\ LatestExpiry(k) <= LatestExpiry(k)'
           /\ req' = req
<1> USE ConstantsAssumption DEF KeysLive, Signed, LatestExpiry, Never
<1>1. /\ now \in Nat /\ docNo \in 1..Len(Rotation) /\ signing \in Keys
      /\ lastSigned \in [Keys -> Nat \cup {-1}]
  BY DEF TypeOK
<1>2. CASE Tick
  <2>1. now' = now + 1 /\ UNCHANGED <<docNo, signing, lastSigned, req>>
    BY <1>2 DEF Tick, authVars
  <2>2. QED
    BY <1>1, <2>1
<1>3. CASE Publish
  <2>1. /\ docNo' = docNo + 1 /\ UNCHANGED <<now, signing, lastSigned, req>>
        /\ \A k \in Rotation[docNo] \ Rotation[docNo + 1] :
             k # signing /\ LatestExpiry(k) <= now
    BY <1>3 DEF Publish
  <2>2. \A k \in Keys : LatestExpiry(k) \in Int
    BY <1>1
  <2>3. QED
    BY <1>1, <2>1, <2>2
<1>4. ASSUME NEW new \in Keys, SwitchSigning(new)
      PROVE  /\ KeysLive' /\ now' = now /\ req' = req
             /\ \A k \in Keys : Signed(k) =>
                  Signed(k)' /\ LatestExpiry(k) <= LatestExpiry(k)'
  <2>1. /\ new \in Rotation[docNo] /\ new # signing /\ lastSigned[new] = -1
        /\ lastSigned' = [lastSigned EXCEPT ![signing] = now]
        /\ signing' = new /\ UNCHANGED <<now, docNo, req>>
    BY <1>4 DEF SwitchSigning
  <2>2. \A k \in Keys : k # signing => lastSigned'[k] = lastSigned[k]
    BY <1>1, <2>1
  <2>3. lastSigned'[signing] = now /\ now # -1
    BY <1>1, <2>1
  <2>4. \A k \in Keys : Signed(k) => Signed(k)' /\ LatestExpiry(k) <= LatestExpiry(k)'
    BY <1>1, <2>1, <2>2, <2>3
  <2>5. KeysLive'
    BY <1>1, <2>1, <2>2, <2>3
  <2>6. QED
    BY <2>1, <2>4, <2>5
<1>5. QED
  BY <1>1, <1>2, <1>3, <1>4 DEF Environment

LEMMA EnvironmentRotation ==
    ASSUME TypeOK, RotationInv, Orderly, Environment
    PROVE  RotationInv'
<1>1. /\ KeysLive' /\ now \in Nat /\ now' \in Nat /\ now <= now' /\ req' = req
      /\ \A k \in Keys : Signed(k) => Signed(k)' /\ LatestExpiry(k) <= LatestExpiry(k)'
  BY EnvironmentKeys DEF RotationInv
<1>2. \A t \in Threads : Live(t)' => Live(t)
  <2>1. \A t \in Threads : req[t].token.exp \in Nat
    BY DEF TypeOK, Request, Token
  <2>2. QED
    BY <1>1, <2>1 DEF Live
<1>3. TokensKnown'
  <2> SUFFICES ASSUME NEW t \in Threads, Live(t)'
               PROVE  /\ Signed(req[t].token.key)'
                      /\ req'[t].token.exp <= LatestExpiry(req[t].token.key)'
    BY DEF TokensKnown
  <2> DEFINE k == req[t].token.key
  <2>1. req[t].token.key \in Keys /\ req[t].token.exp \in Nat
    BY DEF TypeOK, Request, Token
  <2>2. Signed(req[t].token.key) /\ req[t].token.exp <= LatestExpiry(req[t].token.key)
    BY <1>2 DEF RotationInv, TokensKnown
  <2>3. PICK key \in Keys : key = req[t].token.key
    BY <2>1
  <2>4. /\ Signed(key)' /\ LatestExpiry(key) <= LatestExpiry(key)'
        /\ req[t].token.exp <= LatestExpiry(key)
    BY <1>1, <2>2, <2>3
  <2>5. LatestExpiry(key) \in Int /\ LatestExpiry(key)' \in Int
    BY EnvironmentType, ConstantsAssumption DEF LatestExpiry, TypeOK, Never
  <2>6. req'[t].token.key = key /\ req'[t].token.exp = req[t].token.exp
    BY <1>1, <2>3
  <2>7. req[t].token.exp <= LatestExpiry(key)'
    BY <2>1, <2>4, <2>5
  <2>8. QED
    BY <2>4, <2>6, <2>7
<1>4. \A t \in Threads : SearchInv(t)'
  <2> SUFFICES ASSUME NEW t \in Threads
               PROVE  SearchInv(t)'
    OBVIOUS
  <2>1. SearchInv(t) /\ (Live(t)' => Live(t)) /\ req'[t] = req[t]
    BY <1>1, <1>2 DEF RotationInv
  <2>2. LiveTokenRejected(t)' => LiveTokenRejected(t)
    BY <2>1 DEF LiveTokenRejected, Live
  <2>3. QED
    BY <2>1, <2>2 DEF SearchInv, JwksKeys
<1>5. QED
  BY <1>1, <1>3, <1>4 DEF RotationInv

\* A step of a thread leaves the keys alone, and the requests of the others.
LEMMA OthersRotation ==
    ASSUME TypeOK, RotationInv, NEW t \in Threads,
           LocalStep(t) \/ Refresh(t) \/ FetchEnds(t),
           Live(t)' => /\ Signed(req'[t].token.key)
                       /\ req'[t].token.exp <= LatestExpiry(req'[t].token.key),
           SearchInv(t)'
    PROVE  RotationInv'
<1>1. /\ now' = now /\ docNo' = docNo /\ signing' = signing /\ lastSigned' = lastSigned
      /\ \A u \in Threads : u # t => req'[u] = req[u]
  BY StepFrame
<1>2. KeysLive'
  BY <1>1 DEF RotationInv, KeysLive, Signed, LatestExpiry
<1>3. TokensKnown'
  BY <1>1 DEF RotationInv, TokensKnown, Live, Signed, LatestExpiry
<1>4. \A u \in Threads : u # t => SearchInv(u)'
  BY <1>1 DEF RotationInv, SearchInv, Live, LiveTokenRejected, JwksKeys
<1>5. QED
  BY <1>2, <1>3, <1>4 DEF RotationInv

\* The token of a request is live and known to auth, or it was presented just now.
LEMMA TokenStep ==
    ASSUME TypeOK, RotationInv, NEW t \in Threads, now' = now, Live(t)',
           SameToken(t) \/ req'[t].token = NoToken \/ req'[t].token \in Minted
    PROVE  /\ Signed(req'[t].token.key)
           /\ req'[t].token.exp <= LatestExpiry(req'[t].token.key)
<1>1. CASE SameToken(t)
  BY <1>1 DEF SameToken, Live, RotationInv, TokensKnown
<1>2. CASE req'[t].token = NoToken
  BY <1>2 DEF NoToken, Live, TypeOK
<1>3. CASE req'[t].token \in Minted
  <2>1. PICK k \in Keys, shape \in Shapes :
          /\ Signed(k)
          /\ req'[t].token = [key |-> k, exp |-> LatestExpiry(k), kid |-> shape.kid,
                              good |-> shape.good]
    BY <1>3 DEF Minted, Signed
  <2>2. LatestExpiry(k) \in Int
    BY ConstantsAssumption DEF LatestExpiry, TypeOK, Never
  <2>3. req'[t].token.key = k /\ req'[t].token.exp = LatestExpiry(k)
    BY <2>1
  <2>4. QED
    BY <2>1, <2>2, <2>3
<1>4. QED
  BY <1>1, <1>2, <1>3

LEMMA BetweenRotation ==
    ASSUME TypeOK, RotationInv, HasUrl, NEW t \in Threads, Between(t)
    PROVE  RotationInv'
<1>1. now' = now /\ LocalStep(t)
  BY StepFrame DEF Between, LocalStep
<1>2. /\ req'[t].token = NoToken \/ req'[t].token \in Minted
      /\ req'[t].pc # "verify"
      /\ req'[t].outcome \notin {"unknown_key", "no_keys"}
  <2>1. CASE Unparsed(t)
    BY <2>1, UnparsedEffect
  <2>2. CASE Finish(t)
    BY <2>2, FinishEffect
  <2>3. ASSUME NEW tok \in Minted, Start(t, tok)
        PROVE  <1>2
    BY <2>3, StartEffect
  <2>4. QED
    BY <2>1, <2>2, <2>3 DEF Between
<1>3. SearchInv(t)'
  BY <1>2, BetweenEffect DEF SearchInv, LiveTokenRejected
<1>4. QED
  BY <1>1, <1>2, <1>3, TokenStep, OthersRotation

\* A document that auth serves holds the key of a live token.
LEMMA ServedKey ==
    ASSUME TypeOK, RotationInv, NEW t \in Threads, Live(t)
    PROVE  req[t].token.key \in JwksKeys(docNo)
<1>1. req[t].token.key \in Keys /\ req[t].token.exp \in Nat /\ now \in Nat
      /\ docNo \in Docs
  BY DEF TypeOK, Request, Token
<1>2. PICK k \in Keys : k = req[t].token.key
  BY <1>1
<1>3. Signed(k) /\ req[t].token.exp <= LatestExpiry(k)
  BY <1>2 DEF RotationInv, TokensKnown
<1>4. LatestExpiry(k) \in Int
  BY ConstantsAssumption DEF LatestExpiry, TypeOK, Never
<1>5. now < LatestExpiry(k)
  BY <1>1, <1>2, <1>3, <1>4 DEF Live
<1>6. QED
  BY <1>1, <1>2, <1>3, <1>5, RotationAssumption DEF RotationInv, KeysLive, JwksKeys

LEMMA SearchRotation ==
    ASSUME TypeOK, RepliesRecent, RotationInv, HasUrl, NEW t \in Threads, Step(t)
    PROVE  RotationInv'
<1>1. now' = now /\ req[t] \in Request
  BY StepFrame DEF Step, LocalStep, FetchEnds, TypeOK
<1>2. SearchInv(t) /\ (req[t].reply # 0 => req[t].pc = "fetch")
  BY DEF RotationInv, RepliesRecent
<1>3. SameToken(t)
  BY ReadCacheEffect, RefreshEffect, ServeEffect, ReplyEffect, FailsStaleEffect,
     FailsColdEffect, MatchEffect, RetryEffect, RejectEffect DEF Step
<1>4. Live(t)' <=> Live(t)
  BY <1>1, <1>3 DEF Live, SameToken
<1>5. SearchInv(t)'
  <2> USE DEF SearchInv, LiveTokenRejected
  <2>1. CASE Refresh(t)
    BY <1>1, <1>2, <1>3, <1>4, <2>1, RefreshEffect DEF SameToken, Live
  <2>2. CASE ReadCache(t)
    <3>1. req[t].pass # 2
      BY <2>2 DEF ReadCache
    <3>2. QED
      BY <1>1, <1>2, <1>3, <1>4, <2>2, <3>1, ReadCacheEffect DEF SameToken, Live
  <2>3. CASE Serve(t)
    BY <1>1, <1>2, <1>3, <1>4, <2>3, ServeEffect, ServedKey DEF SameToken, Live, JwksKeys
  <2>4. CASE Reply(t)
    <3>1. req[t].reply # 0
      BY <2>4 DEF Reply
    <3>2. QED
      BY <1>1, <1>2, <1>3, <1>4, <2>4, <3>1, ReplyEffect DEF SameToken, Live, JwksKeys
  <2>5. CASE FetchFailsStale(t)
    BY <1>1, <1>2, <1>3, <1>4, <2>5, FailsStaleEffect DEF SameToken, Live
  <2>6. CASE FetchFailsCold(t)
    BY <1>1, <1>2, <1>3, <1>4, <2>6, FailsColdEffect DEF SameToken, Live, JwksKeys
  <2>7. CASE VerifyMatch(t)
    <3>1. Verdict(req[t].token) \notin {"unknown_key", "no_keys"}
      BY DEF Verdict
    <3>2. QED
      BY <1>1, <1>2, <1>3, <1>4, <2>7, <3>1, MatchEffect DEF SameToken, Live
  <2>8. CASE VerifyRetry(t)
    BY <1>1, <1>2, <1>3, <1>4, <2>8, RetryEffect DEF SameToken, Live
  <2>9. CASE VerifyReject(t)
    <3>1. req[t].token.key \notin JwksKeys(req[t].used) /\ req[t].pass = 2
      BY <2>9 DEF VerifyReject, Candidates
    <3>2. QED
      BY <1>1, <1>2, <1>3, <1>4, <2>9, <3>1, RejectEffect DEF SameToken, Live, JwksKeys
  <2>10. QED
    BY <2>1, <2>2, <2>3, <2>4, <2>5, <2>6, <2>7, <2>8, <2>9 DEF Step
<1>6. QED
  BY <1>1, <1>3, <1>5, TokenStep, OthersRotation DEF Step, LocalStep, FetchEnds

LEMMA NextRotation ==
    HasUrl /\ Orderly /\ TypeOK /\ RepliesRecent /\ RotationInv /\ [Next]_vars
      => RotationInv'
<1> SUFFICES ASSUME HasUrl, Orderly, TypeOK, RepliesRecent, RotationInv, [Next]_vars
             PROVE  RotationInv'
  OBVIOUS
<1>1. CASE UNCHANGED vars
  BY <1>1 DEF vars, authVars, RotationInv, KeysLive, TokensKnown, SearchInv, Signed, Live,
              LatestExpiry, LiveTokenRejected, JwksKeys
<1>2. CASE Environment
  BY <1>2, EnvironmentRotation
<1>3. ASSUME NEW t \in Threads, Between(t)
      PROVE  RotationInv'
  BY <1>3, BetweenRotation
<1>4. ASSUME NEW t \in Threads, Step(t)
      PROVE  RotationInv'
  BY <1>4, SearchRotation
<1>5. QED
  BY <1>1, <1>2, <1>3, <1>4 DEF Next, Between

\* While auth rotates its keys in order, a live token is rejected for want of a key only
\* if a JWKS request of this authentication failed and the document it fell back on
\* does not hold the key.
THEOREM ZeroDowntimeHolds ==
    ASSUME HasUrl, Orderly
    PROVE  Spec => []ZeroDowntime
<1>1. RotationInv => ZeroDowntime
  BY DEF RotationInv, SearchInv, ZeroDowntime
<1>2. TypeOK /\ RepliesRecent /\ RotationInv /\ [Next]_vars => RotationInv'
  BY NextRotation
<1>3. TypeOK /\ OneFetchAtATime /\ RepliesRecent /\ [Next]_vars => RepliesRecent'
  BY NextReplies
<1>4. QED
  BY <1>1, <1>2, <1>3, InitType, NextType, InitOneFetch, NextOneFetch, InitReplies,
     InitRotation, PTL DEF Spec

-----------------------------------------------------------------------------
(***************************************************************************)
(* How old a document an authentication may use, and when a retired key    *)
(* stops verifying, however auth behaves.                                  *)
(***************************************************************************)
\* Auth was serving the document at the given time or later.
ServedSince(doc, at) == doc = docNo \/ replacedAt[doc] >= at

\* The JWKS request in flight was sent within MaxLatency, and its reply is not older.
FetchInv(t) ==
    req[t].pc = "fetch" =>
        /\ now <= sentAt + MaxLatency
        /\ req[t].started <= sentAt
        /\ req[t].reply # 0 => ServedSince(req[t].reply, sentAt)

\* The document an authentication uses is recent unless a request of it failed.
Uses(t) == /\ HasUrl /\ ~req[t].failed
           /\ \/ req[t].pc = "verify"
              \/ req[t].pc = "done" /\ req[t].outcome \notin {"anonymous", "malformed"}

UseInv(t) ==
    Uses(t) => /\ req[t].used \in 1..docNo
               /\ ServedSince(req[t].used, req[t].started - TTL - MaxLatency)

CacheInv ==
    cache.doc # 0 =>
        cache.fetchedAt <= now /\ ServedSince(cache.doc, cache.fetchedAt - MaxLatency)

\* An accepted token was verified with one of the candidates.
AcceptedInv(t) ==
    req[t].outcome = "accepted" =>
        req[t].pc = "done" /\ req[t].token.key \in Candidates(req[t].token, req[t].used)

ThreadInv(t) == /\ req[t].started <= now
                /\ FetchInv(t) /\ UseInv(t) /\ AcceptedInv(t)

StalenessInv == sentAt <= now /\ CacheInv /\ \A t \in Threads : ThreadInv(t)

-----------------------------------------------------------------------------
LEMMA InitStaleness == Init => StalenessInv
BY DEF Init, StalenessInv, CacheInv, ThreadInv, FetchInv, UseInv, Uses, AcceptedInv, Idle

\* What was served since a time that has passed stays so.
LEMMA ServedStays ==
    ASSUME TypeOK, Environment, NEW doc \in Docs, NEW at \in Int, at <= now,
           ServedSince(doc, at)
    PROVE  ServedSince(doc, at)'
<1> USE DEF ServedSince, TypeOK
<1>1. CASE Tick
  BY <1>1 DEF Tick, authVars
<1>2. CASE Publish
  <2>1. replacedAt' = [replacedAt EXCEPT ![docNo] = now]
    BY <1>2 DEF Publish
  <2>2. QED
    BY <2>1
<1>3. CASE \E k \in Keys : SwitchSigning(k)
  BY <1>3 DEF SwitchSigning
<1>4. QED
  BY <1>1, <1>2, <1>3 DEF Environment

LEMMA Clock ==
    ASSUME TypeOK, Environment, NEW t \in Threads, req[t].pc = "fetch",
           now <= sentAt + MaxLatency
    PROVE  now' <= sentAt + MaxLatency
<1>1. CASE Tick
  BY <1>1, ConstantsAssumption DEF Tick, TypeOK
<1>2. CASE Publish \/ \E k \in Keys : SwitchSigning(k)
  BY <1>2 DEF Publish, SwitchSigning
<1>3. QED
  BY <1>1, <1>2 DEF Environment

LEMMA EnvironmentStaleness ==
    ASSUME TypeOK, RepliesRecent, StalenessInv, Environment
    PROVE  StalenessInv'
<1>1. /\ cache' = cache /\ sentAt' = sentAt /\ req' = req
      /\ now \in Nat /\ now' \in Nat /\ now <= now'
      /\ docNo \in Nat /\ docNo' \in Nat /\ docNo <= docNo'
  BY EnvironmentFrame DEF Environment, Tick, Publish, SwitchSigning, authVars, TypeOK
<1>2. sentAt \in Nat /\ sentAt <= now /\ TTL \in Nat /\ MaxLatency \in Nat
  BY ConstantsAssumption DEF TypeOK, StalenessInv
<1>3. CacheInv'
  <2>1. cache.doc \in {0} \cup Docs /\ cache.fetchedAt \in Nat
    BY DEF TypeOK
  <2>2. QED
    BY <1>1, <1>2, <2>1, ServedStays DEF StalenessInv, CacheInv
<1>4. ASSUME NEW t \in Threads
      PROVE  ThreadInv(t)'
  <2>1. /\ req[t].started \in Nat /\ req[t].used \in {0} \cup Docs
        /\ req[t].reply \in {0} \cup Docs /\ req'[t] = req[t]
    BY <1>1 DEF TypeOK, Request
  <2>2. ThreadInv(t)
    BY DEF StalenessInv
  <2>3. FetchInv(t)'
    BY <1>1, <1>2, <2>1, <2>2, Clock, ServedStays DEF ThreadInv, FetchInv
  <2>4. UseInv(t)'
    <3>1. SUFFICES ASSUME Uses(t)'
                   PROVE  /\ req[t].used \in 1..docNo'
                          /\ ServedSince(req[t].used, req[t].started - TTL - MaxLatency)'
      BY <2>1 DEF UseInv, ServedSince
    <3>2. /\ req[t].used \in 1..docNo /\ req[t].used \in Docs
          /\ ServedSince(req[t].used, req[t].started - TTL - MaxLatency)
      BY <1>1, <2>1, <2>2, <3>1 DEF ThreadInv, UseInv, Uses
    <3>3. req[t].started - TTL - MaxLatency \in Int
          /\ req[t].started - TTL - MaxLatency <= now
      BY <1>1, <1>2, <2>1, <2>2 DEF ThreadInv
    <3>4. QED
      BY <1>1, <3>2, <3>3, ServedStays
  <2>5. AcceptedInv(t)' /\ req'[t].started <= now'
    BY <1>1, <2>1, <2>2 DEF ThreadInv, AcceptedInv, Candidates, JwksKeys
  <2>6. QED
    BY <2>3, <2>4, <2>5 DEF ThreadInv
<1>5. QED
  BY <1>1, <1>2, <1>3, <1>4 DEF StalenessInv

\* A step of a thread leaves the requests of the others alone.
LEMMA OthersStaleness ==
    ASSUME TypeOK, OneFetchAtATime, StalenessInv, NEW t \in Threads,
           LocalStep(t) \/ Refresh(t) \/ FetchEnds(t),
           sentAt' <= now', CacheInv', ThreadInv(t)'
    PROVE  StalenessInv'
<1>1. /\ now' = now /\ docNo' = docNo /\ replacedAt' = replacedAt
      /\ \A u \in Threads : u # t => req'[u] = req[u]
  BY StepFrame
<1>2. ASSUME NEW u \in Threads, u # t
      PROVE  ThreadInv(u)'
  <2>1. ThreadInv(u) /\ req'[u] = req[u]
    BY <1>1, <1>2 DEF StalenessInv
  <2>2. sentAt' = sentAt \/ req[u].pc # "fetch"
    <3>1. CASE LocalStep(t)
      BY <3>1, LocalStepFrame
    <3>2. CASE Refresh(t)
      BY <3>2, ConstantsAssumption DEF Refresh, OneFetchAtATime
    <3>3. CASE FetchEnds(t)
      BY <1>2, <3>3, FetchEndsFrame DEF OneFetchAtATime
    <3>4. QED
      BY <3>1, <3>2, <3>3
  <2>3. QED
    BY <1>1, <2>1, <2>2 DEF ThreadInv, FetchInv, UseInv, Uses, AcceptedInv, ServedSince,
       Candidates, JwksKeys
<1>3. QED
  BY <1>2 DEF StalenessInv

\* ThreadInv in the next state, in terms of the thread's next request.
LEMMA ThreadInvNext ==
    ASSUME NEW t \in Threads, docNo' = docNo, replacedAt' = replacedAt, now' = now,
           req'[t].started <= now,
           req'[t].pc = "fetch" =>
             /\ now <= sentAt' + MaxLatency
             /\ req'[t].started <= sentAt'
             /\ req'[t].reply # 0 => ServedSince(req'[t].reply, sentAt'),
           (/\ HasUrl /\ ~req'[t].failed
            /\ \/ req'[t].pc = "verify"
               \/ req'[t].pc = "done" /\ req'[t].outcome \notin {"anonymous", "malformed"})
             => /\ req'[t].used \in 1..docNo
                /\ ServedSince(req'[t].used, req'[t].started - TTL - MaxLatency),
           req'[t].outcome = "accepted" =>
             /\ req'[t].pc = "done"
             /\ req'[t].token.key \in Candidates(req'[t].token, req'[t].used)
    PROVE  ThreadInv(t)'
<1>1. FetchInv(t)'
  BY DEF FetchInv, ServedSince
<1>2. UseInv(t)'
  BY DEF UseInv, Uses, ServedSince
<1>3. AcceptedInv(t)'
  BY DEF AcceptedInv, Candidates, JwksKeys
<1>4. QED
  BY <1>1, <1>2, <1>3 DEF ThreadInv

\* What ThreadInv says of a request, without its definitions.
LEMMA ThreadInvNow ==
    ASSUME TypeOK, StalenessInv, NEW t \in Threads
    PROVE  /\ req[t].started \in Nat /\ req[t].used \in {0} \cup Docs
           /\ req[t].reply \in {0} \cup Docs
           /\ req[t].started <= now
           /\ req[t].pc = "fetch" =>
                /\ now <= sentAt + MaxLatency
                /\ req[t].started <= sentAt
                /\ req[t].reply # 0 => ServedSince(req[t].reply, sentAt)
           /\ HasUrl /\ ~req[t].failed /\ req[t].pc = "verify" =>
                /\ req[t].used \in 1..docNo
                /\ ServedSince(req[t].used, req[t].started - TTL - MaxLatency)
           /\ req[t].outcome = "accepted" => req[t].pc = "done"
           /\ now \in Nat /\ sentAt \in Nat /\ docNo \in Docs
           /\ replacedAt \in [Docs -> Nat \cup {-1}]
           /\ cache.doc \in {0} \cup Docs /\ cache.fetchedAt \in Nat
           /\ TTL \in Nat /\ MaxLatency \in Nat
<1>1. ThreadInv(t)
  BY DEF StalenessInv
<1>2. /\ req[t].started \in Nat /\ req[t].used \in {0} \cup Docs
      /\ req[t].reply \in {0} \cup Docs
      /\ now \in Nat /\ sentAt \in Nat /\ docNo \in Docs
      /\ replacedAt \in [Docs -> Nat \cup {-1}]
      /\ cache.doc \in {0} \cup Docs /\ cache.fetchedAt \in Nat
      /\ TTL \in Nat /\ MaxLatency \in Nat
  BY ConstantsAssumption DEF TypeOK, Request, Never
<1>3. QED
  BY <1>1, <1>2 DEF ThreadInv, FetchInv, UseInv, Uses, AcceptedInv

\* Served since some time, a document was served since any earlier time.
LEMMA ServedEarlier ==
    ASSUME NEW doc \in Docs, replacedAt \in [Docs -> Nat \cup {-1}],
           NEW a \in Int, NEW b \in Int, b <= a, ServedSince(doc, a)
    PROVE  ServedSince(doc, b)
<1>1. replacedAt[doc] \in Int
  OBVIOUS
<1>2. QED
  BY <1>1 DEF ServedSince

LEMMA WithinTTL ==
    ASSUME NEW start \in Nat, NEW fetched \in Nat, NEW at \in Nat, NEW ttl \in Nat,
           NEW latency \in Nat, start <= at, at - fetched <= ttl
    PROVE  /\ fetched - latency \in Int /\ start - ttl - latency \in Int
           /\ start - ttl - latency <= fetched - latency
OBVIOUS

LEMMA StepThread ==
    ASSUME TypeOK, OneFetchAtATime, RepliesRecent, StalenessInv, NEW t \in Threads,
           LocalStep(t) \/ Refresh(t) \/ FetchEnds(t)
    PROVE  ThreadInv(t)'
<1>1. /\ now' = now /\ docNo' = docNo /\ replacedAt' = replacedAt
  BY StepFrame
<1>2. CASE Between(t)
  <2>1. 0 <= now /\ now <= now
    BY ThreadInvNow
  <2>2. CASE Unparsed(t)
    <3>1. /\ req'[t].pc = "done" /\ req'[t].started = 0
          /\ req'[t].outcome \in {"anonymous", "malformed"}
      BY <2>2, UnparsedEffect
    <3>2. QED
      BY <1>1, <2>1, <3>1, ThreadInvNext
  <2>3. CASE Finish(t)
    <3>1. req'[t].pc = "idle" /\ req'[t].started = 0 /\ req'[t].outcome = "pending"
      BY <2>3, FinishEffect
    <3>2. QED
      BY <1>1, <2>1, <3>1, ThreadInvNext
  <2>4. ASSUME NEW tok \in Minted, Start(t, tok)
        PROVE  ThreadInv(t)'
    <3>1. /\ req'[t].pc = (IF HasUrl THEN "lock" ELSE "verify")
          /\ req'[t].started = now /\ req'[t].outcome = "pending"
      BY <2>4, StartEffect
    <3>2. QED
      BY <1>1, <2>1, <3>1, ThreadInvNext
  <2>5. QED
    BY <1>2, <2>2, <2>3, <2>4 DEF Between
<1>3. CASE ReadCache(t)
  <2>1. cache.doc # 0 /\ now - cache.fetchedAt <= TTL
    BY <1>3, ThreadInvNow DEF ReadCache, Stale
  <2>2. /\ cache.doc \in 1..docNo /\ cache.fetchedAt <= now
        /\ ServedSince(cache.doc, cache.fetchedAt - MaxLatency)
    BY <2>1, ThreadInvNow DEF StalenessInv, CacheInv, RepliesRecent
  <2>3. ServedSince(cache.doc, req[t].started - TTL - MaxLatency)
    <3>1. /\ cache.doc \in Docs /\ replacedAt \in [Docs -> Nat \cup {-1}]
          /\ cache.fetchedAt \in Nat /\ req[t].started \in Nat /\ now \in Nat
          /\ TTL \in Nat /\ MaxLatency \in Nat /\ req[t].started <= now
      BY <2>1, ThreadInvNow
    <3>2. /\ cache.fetchedAt - MaxLatency \in Int /\ req[t].started - TTL - MaxLatency \in Int
          /\ req[t].started - TTL - MaxLatency <= cache.fetchedAt - MaxLatency
      BY <2>1, <3>1, WithinTTL
    <3>3. QED
      BY <2>2, <3>1, <3>2, ServedEarlier
  <2>4. req'[t].started = req[t].started
    BY <1>3, ReadCacheEffect DEF SameToken
  <2>5. /\ req'[t].pc = "verify" /\ req'[t].used = cache.doc
        /\ req'[t].outcome = req[t].outcome /\ req[t].pc = "lock"
    BY <1>3, ReadCacheEffect
  <2>6. req[t].started <= now /\ req[t].outcome # "accepted"
    BY <2>5, ThreadInvNow
  <2>7. QED
    BY <1>1, <2>2, <2>3, <2>4, <2>5, <2>6, ThreadInvNext
<1>4. CASE Serve(t)
  <2>1. req'[t].started = req[t].started /\ sentAt' = sentAt
    BY <1>4, ServeEffect DEF SameToken, Serve
  <2>2. ServedSince(docNo, sentAt)
    BY DEF ServedSince
  <2>3. QED
    BY <1>1, <1>4, <2>1, <2>2, ServeEffect, ThreadInvNow, ThreadInvNext
<1>5. CASE VerifyMatch(t)
  <2>1. req[t].token.key \in Candidates(req[t].token, req[t].used)
    BY <1>5 DEF VerifyMatch
  <2>2. req'[t].started = req[t].started /\ req'[t].token = req[t].token
    BY <1>5, MatchEffect DEF SameToken
  <2>3. QED
    BY <1>1, <1>5, <2>1, <2>2, MatchEffect, ThreadInvNow, ThreadInvNext
<1>6. CASE VerifyRetry(t)
  <2>1. req'[t].started = req[t].started
    BY <1>6, RetryEffect DEF SameToken
  <2>2. QED
    BY <1>1, <1>6, <2>1, RetryEffect, ThreadInvNow, ThreadInvNext
<1>7. CASE VerifyReject(t)
  <2>1. req'[t].started = req[t].started
    BY <1>7, RejectEffect DEF SameToken
  <2>2. QED
    BY <1>1, <1>7, <2>1, RejectEffect, ThreadInvNow, ThreadInvNext
<1>8. CASE Refresh(t)
  <2>1. req'[t].started = req[t].started /\ sentAt' = now /\ req'[t].reply = 0
    BY <1>8, RefreshEffect DEF SameToken, Refresh, RepliesRecent
  <2>2. now <= sentAt' + MaxLatency
    BY <2>1, ThreadInvNow
  <2>3. QED
    BY <1>1, <1>8, <2>1, <2>2, RefreshEffect, ThreadInvNow, ThreadInvNext
<1>9. CASE Reply(t)
  <2>1. req'[t].started = req[t].started
    BY <1>9, ReplyEffect DEF SameToken
  <2>2. req[t].reply \in 1..docNo
    BY <1>9, ThreadInvNow DEF Reply, RepliesRecent
  <2>3. ServedSince(req[t].reply, req[t].started - TTL - MaxLatency)
    <3>1. req[t].pc = "fetch" /\ req[t].reply # 0
      BY <1>9 DEF Reply
    <3>2. /\ req[t].reply \in Docs /\ ServedSince(req[t].reply, sentAt)
          /\ sentAt \in Int /\ req[t].started - TTL - MaxLatency \in Int
          /\ req[t].started - TTL - MaxLatency <= sentAt
          /\ replacedAt \in [Docs -> Nat \cup {-1}]
      BY <2>2, <3>1, ThreadInvNow
    <3>3. QED
      BY <3>2, ServedEarlier
  <2>4. QED
    BY <1>1, <1>9, <2>1, <2>2, <2>3, ReplyEffect, ThreadInvNow, ThreadInvNext
<1>10. CASE FetchFailsStale(t)
  <2>1. req'[t].started = req[t].started
    BY <1>10, FailsStaleEffect DEF SameToken
  <2>2. QED
    BY <1>1, <1>10, <2>1, FailsStaleEffect, ThreadInvNow, ThreadInvNext
<1>11. CASE FetchFailsCold(t)
  <2>1. req'[t].started = req[t].started
    BY <1>11, FailsColdEffect DEF SameToken
  <2>2. QED
    BY <1>1, <1>11, <2>1, FailsColdEffect, ThreadInvNow, ThreadInvNext
<1>12. QED
  BY <1>2, <1>3, <1>4, <1>5, <1>6, <1>7, <1>8, <1>9, <1>10, <1>11
     DEF LocalStep, Between, FetchEnds

LEMMA StepCache ==
    ASSUME TypeOK, StalenessInv, RepliesRecent, NEW t \in Threads,
           LocalStep(t) \/ Refresh(t) \/ FetchEnds(t)
    PROVE  CacheInv' /\ sentAt' <= now'
<1>1. /\ now' = now /\ docNo' = docNo /\ replacedAt' = replacedAt /\ CacheInv
      /\ sentAt <= now
  BY StepFrame DEF StalenessInv
<1>2. CASE LocalStep(t)
  BY <1>1, <1>2, LocalStepFrame DEF CacheInv, ServedSince
<1>3. CASE Refresh(t)
  <2>1. cache' = cache /\ sentAt' = now /\ now \in Nat
    BY <1>3, ThreadInvNow DEF Refresh
  <2>2. QED
    BY <1>1, <2>1 DEF CacheInv, ServedSince
<1>4. CASE Reply(t)
  <2>1. /\ cache'.doc = req[t].reply /\ cache'.fetchedAt = now /\ sentAt' = 0
        /\ req[t].reply # 0 /\ req[t].pc = "fetch"
    BY <1>4 DEF Reply
  <2>2. ServedSince(req[t].reply, now - MaxLatency)
    <3>1. /\ req[t].reply \in Docs /\ ServedSince(req[t].reply, sentAt)
          /\ sentAt \in Int /\ now - MaxLatency \in Int /\ now - MaxLatency <= sentAt
          /\ replacedAt \in [Docs -> Nat \cup {-1}]
      BY <2>1, ThreadInvNow
    <3>2. QED
      BY <3>1, ServedEarlier
  <2>3. now \in Nat /\ ServedSince(cache'.doc, cache'.fetchedAt - MaxLatency)
    BY <2>1, <2>2, ThreadInvNow
  <2>4. QED
    BY <1>1, <2>1, <2>3 DEF CacheInv, ServedSince
<1>5. CASE FetchFailsStale(t) \/ FetchFailsCold(t)
  <2>1. cache' = cache /\ sentAt' = 0 /\ now \in Nat
    BY <1>5, ThreadInvNow DEF FetchFailsStale, FetchFailsCold
  <2>2. QED
    BY <1>1, <2>1 DEF CacheInv, ServedSince
<1>6. QED
  BY <1>2, <1>3, <1>4, <1>5 DEF FetchEnds

LEMMA StepStaleness ==
    ASSUME TypeOK, OneFetchAtATime, RepliesRecent, StalenessInv, NEW t \in Threads,
           LocalStep(t) \/ Refresh(t) \/ FetchEnds(t)
    PROVE  StalenessInv'
BY StepThread, StepCache, OthersStaleness

LEMMA NextStaleness ==
    TypeOK /\ OneFetchAtATime /\ RepliesRecent /\ StalenessInv /\ [Next]_vars
      => StalenessInv'
<1> SUFFICES ASSUME TypeOK, OneFetchAtATime, RepliesRecent, StalenessInv, [Next]_vars
             PROVE  StalenessInv'
  OBVIOUS
<1>1. CASE UNCHANGED vars
  BY <1>1 DEF vars, authVars, StalenessInv, CacheInv, ThreadInv, FetchInv, UseInv, Uses,
              AcceptedInv, ServedSince, Candidates, JwksKeys
<1>2. CASE Environment
  BY <1>2, EnvironmentStaleness
<1>3. ASSUME NEW t \in Threads, LocalStep(t) \/ Refresh(t) \/ FetchEnds(t)
      PROVE  StalenessInv'
  BY <1>3, StepStaleness
<1>4. QED
  BY <1>1, <1>2, <1>3 DEF Next, Step, LocalStep, FetchEnds

LEMMA StalenessInvariant == Spec => [](TypeOK /\ StalenessInv)
BY InitType, NextType, InitOneFetch, NextOneFetch, InitReplies, NextReplies,
   InitStaleness, NextStaleness, PTL DEF Spec

LEMMA RecentEnough == TypeOK /\ StalenessInv => BoundedStaleness
<1> SUFFICES ASSUME TypeOK, StalenessInv, NEW t \in Threads, Uses(t)
             PROVE  req[t].used \in RecentDocs(t)
  BY DEF BoundedStaleness, Uses
<1>1. /\ req[t].used \in 1..docNo
      /\ ServedSince(req[t].used, req[t].started - TTL - MaxLatency)
  BY DEF StalenessInv, ThreadInv, UseInv
<1>2. req[t].used \in Docs /\ replacedAt[req[t].used] \in Int /\ req[t].started \in Nat
  BY <1>1 DEF TypeOK, Never, Request
<1>3. QED
  BY <1>1, <1>2, ConstantsAssumption DEF RecentDocs, ServedSince

\* Unless a JWKS request of its own failed, an authentication uses a document that auth
\* served at some time since TTL + MaxLatency before the authentication started.
THEOREM BoundedStalenessHolds == Spec => []BoundedStaleness
BY StalenessInvariant, RecentEnough, PTL

\* A key that auth has not published for longer than that verifies no token unless a
\* JWKS request of the authentication failed, or it is the static key.
THEOREM RetiredKeyRejectedHolds == Spec => []RetiredKeyRejected
<1>1. TypeOK /\ StalenessInv => RetiredKeyRejected
  <2> SUFFICES ASSUME TypeOK, StalenessInv, NEW t \in Threads,
                      HasUrl, req[t].outcome = "accepted", req[t].token.key # StaticKey,
                      \A i \in RecentDocs(t) : req[t].token.key \notin Rotation[i]
               PROVE  req[t].failed
    BY DEF RetiredKeyRejected
  <2>1. req[t].pc = "done" /\ req[t].token.key \in JwksKeys(req[t].used)
    BY DEF StalenessInv, ThreadInv, AcceptedInv, Candidates
  <2>2. ~req[t].failed => req[t].used \in RecentDocs(t)
    BY <2>1, RecentEnough DEF BoundedStaleness
  <2>3. QED
    BY <2>1, <2>2 DEF JwksKeys
<1>2. QED
  BY <1>1, StalenessInvariant, PTL

-----------------------------------------------------------------------------
(* The static key as a safety net, whether or not there is a URL *)

\* A thread that is looking for keys has none yet; a token of the static key is rejected
\* for want of a key only where the static key was not asked.
NetInv(t) ==
    /\ req[t].pc \in {"lock", "fetch"} => req[t].used = 0
    /\ /\ req[t].outcome \in {"unknown_key", "no_keys"} /\ req[t].pc = "done"
       /\ req[t].token.key = StaticKey
       => req[t].failed /\ req[t].used = 0

LEMMA StaticIsCandidate ==
    ASSUME TypeOK, NEW t \in Threads, req[t].token.key = StaticKey
    PROVE  req[t].token.key \in Candidates(req[t].token, req[t].used)
<1>1. req[t].token.key \in Keys
  BY DEF TypeOK, Request, Token
<1>2. QED
  BY <1>1, ConstantsAssumption DEF Candidates

LEMMA NetStep ==
    ASSUME TypeOK, NEW t \in Threads, NetInv(t), Step(t)
    PROVE  NetInv(t)'
<1> USE DEF NetInv
<1>1. CASE Refresh(t)
  BY <1>1, RefreshEffect
<1>2. CASE ReadCache(t)
  BY <1>2, ReadCacheEffect
<1>3. CASE Serve(t)
  BY <1>3, ServeEffect
<1>4. CASE Reply(t)
  BY <1>4, ReplyEffect
<1>5. CASE FetchFailsStale(t)
  BY <1>5, FailsStaleEffect
<1>6. CASE FetchFailsCold(t)
  BY <1>6, FailsColdEffect
<1>7. CASE VerifyMatch(t)
  <2>1. Verdict(req[t].token) \notin {"unknown_key", "no_keys"}
    BY DEF Verdict
  <2>2. QED
    BY <1>7, <2>1, MatchEffect
<1>8. CASE VerifyRetry(t)
  BY <1>8, RetryEffect
<1>9. CASE VerifyReject(t)
  <2>1. req[t].token.key # StaticKey
    BY <1>9, StaticIsCandidate DEF VerifyReject
  <2>2. QED
    BY <1>9, <2>1, RejectEffect DEF SameToken
<1>10. QED
  BY <1>1, <1>2, <1>3, <1>4, <1>5, <1>6, <1>7, <1>8, <1>9 DEF Step

LEMMA NetNext ==
    ASSUME TypeOK, \A u \in Threads : NetInv(u), [Next]_vars, NEW t \in Threads
    PROVE  NetInv(t)'
<1>1. CASE req'[t] = req[t]
  BY <1>1 DEF NetInv
<1>2. CASE Step(t)
  BY <1>2, NetStep
<1>3. CASE Between(t)
  <2>1. req'[t].used = 0 /\ req'[t].outcome \notin {"unknown_key", "no_keys"}
    BY <1>3, BetweenEffect, UnparsedEffect, FinishEffect, StartEffect DEF Between
  <2>2. QED
    BY <2>1 DEF NetInv
<1>4. CASE UNCHANGED vars \/ Environment
  <2>1. req' = req
    BY <1>4 DEF vars, Environment, Tick, Publish, SwitchSigning
  <2>2. QED
    BY <1>1, <2>1
<1>5. ASSUME NEW u \in Threads, u # t, Step(u) \/ Between(u)
      PROVE  req'[t] = req[t]
  BY <1>5, StepFrame DEF Step, Between, LocalStep, FetchEnds
<1>6. QED
  BY <1>1, <1>2, <1>3, <1>4, <1>5 DEF Next, Between

\* The static PEM as a safety net (keys.py:77-78, 83-84), for any rotation, outage and
\* number of threads: a live token it verifies is rejected only by an authentication whose
\* JWKS requests failed and that found no cached document to fall back on.
THEOREM SafetyNetHolds == Spec => []StaticKeySafetyNet
<1> DEFINE Inv == \A t \in Threads : NetInv(t)
<1>1. Init => Inv
  BY DEF Init, Idle, NetInv
<1>2. TypeOK /\ Inv /\ [Next]_vars => Inv'
  BY NetNext
<1>3. Inv => StaticKeySafetyNet
  BY DEF NetInv, StaticKeySafetyNet, LiveTokenRejected
<1>4. QED
  BY <1>1, <1>2, <1>3, TypeCorrect, PTL DEF Spec

-----------------------------------------------------------------------------
(***************************************************************************)
(* Every authentication comes to an end: the part of BurstAnswered that    *)
(* needs no fairness.                                                      *)
(***************************************************************************)
\* How many steps an authentication has left at most: four for each of its two passes.
StepsLeft(t) ==
    IF ~InProgress(t) THEN 0
    ELSE (IF req[t].pass = 1 THEN 4 ELSE 0)
         + (IF req[t].pc = "lock" THEN 4
            ELSE IF req[t].pc = "verify" THEN 1
            ELSE IF req[t].reply = 0 THEN 3 ELSE 2)

GetsOn(t) == InProgress(t) => req'[t] = req[t] \/ StepsLeft(t)' < StepsLeft(t)

LEMMA StepGetsOn ==
    ASSUME TypeOK, RepliesRecent, NEW t \in Threads, Step(t) PROVE GetsOn(t)
<1>1. req[t].pass \in {1, 2} /\ docNo # 0
  BY RotationAssumption DEF TypeOK, Request, Docs
<1> USE DEF GetsOn, StepsLeft, InProgress
<1>2. CASE Refresh(t)
  <2>1. req[t].reply = 0
    BY <1>2 DEF RepliesRecent, Refresh
  <2> QED BY <1>1, <1>2, <2>1, RefreshEffect
<1>3. CASE ReadCache(t)
  BY <1>1, <1>3, ReadCacheEffect
<1>4. CASE Serve(t)
  <2>1. req[t].reply = 0
    BY <1>4 DEF Serve
  <2> QED BY <1>1, <1>4, <2>1, ServeEffect
<1>5. CASE Reply(t)
  <2>1. req[t].reply # 0
    BY <1>5 DEF Reply
  <2> QED BY <1>1, <1>5, <2>1, ReplyEffect
<1>6. CASE FetchFailsStale(t)
  <2>1. req[t].pc = "fetch" /\ req'[t].pc = "verify" /\ req'[t].pass = req[t].pass
    BY <1>6, FailsStaleEffect
  <2> QED BY <1>1, <2>1
<1>7. CASE FetchFailsCold(t)
  <2>1. /\ req[t].pc = "fetch" /\ req'[t].pass = 2
        /\ req'[t].pc = (IF req[t].pass = 1 THEN "lock" ELSE "done")
    BY <1>7, FailsColdEffect
  <2>2. CASE req[t].pass = 1
    BY <2>1, <2>2
  <2>3. CASE req[t].pass = 2
    BY <2>1, <2>3
  <2> QED BY <1>1, <2>2, <2>3
<1>8. CASE VerifyMatch(t)
  BY <1>1, <1>8, MatchEffect
<1>9. CASE VerifyRetry(t)
  <2>1. req[t].pass = 1
    BY <1>9 DEF VerifyRetry
  <2> QED BY <1>1, <1>9, <2>1, RetryEffect
<1>10. CASE VerifyReject(t)
  BY <1>1, <1>10, RejectEffect
<1> QED BY <1>2, <1>3, <1>4, <1>5, <1>6, <1>7, <1>8, <1>9, <1>10 DEF Step

\* An authentication (authentication.py:91-98, keys.py:35-66) is over after at most eight
\* steps of its own, two JWKS requests among them, whatever the other threads, the clock
\* and auth do meanwhile: no step of theirs sets it back.
THEOREM AuthenticationEnds ==
    Spec => [][\A t \in Threads : StepsLeft(t) \in 0..8 /\ GetsOn(t)]_vars
<1>1. ASSUME TypeOK, RepliesRecent, [Next]_vars, NEW t \in Threads
      PROVE  StepsLeft(t) \in 0..8 /\ GetsOn(t)
  <2>1. StepsLeft(t) \in 0..8
    BY DEF StepsLeft
  <2>2. CASE UNCHANGED vars \/ Environment
    <3>1. req' = req
      BY <2>2, EnvironmentFrame DEF vars
    <3> QED BY <2>1, <3>1 DEF GetsOn
  <2>3. ASSUME NEW u \in Threads, Step(u) \/ Between(u)
        PROVE  GetsOn(t)
    <3>1. CASE u # t
      BY <1>1, <2>3, <3>1, StepFrame DEF Between, Step, LocalStep, FetchEnds, GetsOn
    <3>2. CASE u = t /\ Step(t)
      BY <1>1, <3>2, StepGetsOn
    <3>3. CASE u = t /\ Between(t)
      BY <3>3 DEF Between, Unparsed, Finish, Start, GetsOn, InProgress
    <3> QED BY <2>3, <3>1, <3>2, <3>3
  <2> QED BY <1>1, <2>1, <2>2, <2>3 DEF Next, Between
<1>2. (TypeOK /\ OneFetchAtATime /\ RepliesRecent) /\ [Next]_vars =>
        [\A t \in Threads : StepsLeft(t) \in 0..8 /\ GetsOn(t)]_vars
  BY <1>1
<1> QED BY <1>2, InitType, NextType, InitOneFetch, NextOneFetch, InitReplies, NextReplies,
           PTL DEF Spec
=============================================================================

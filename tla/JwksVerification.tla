------------------------- MODULE JwksVerification -------------------------
(***************************************************************************)
(* Local verification of RS256 access tokens by one service process:       *)
(* smarthr360_jwt_auth/keys.py (the JWKS cache and its lock),              *)
(* authentication.py (the two-pass search for a key) and conf.py (the      *)
(* static key and the URL).                                                *)
(*                                                                         *)
(* Request threads of the process share the cache and its lock.  The auth  *)
(* service, which signs the tokens, publishes the JWKS document and        *)
(* rotates keys, is external: it walks through the sequence of documents   *)
(* Rotation, and a document is named by its position in that sequence, so  *)
(* that a later document is a larger number and 0 is "no document".        *)
(***************************************************************************)
EXTENDS Integers, Sequences, FiniteSets

CONSTANTS
    Threads,        \* request threads of the service process
    Keys,           \* signing keys
    NoKey, NoThread,\* null values
    Rotation,       \* the JWKS documents auth publishes, in order: sets of keys
    FirstKey,       \* the key auth signs with at the start
    StaticKey,      \* the static PEM of the service, or NoKey
    HasUrl,         \* whether SMARTHR_JWT_JWKS_URL is set
    TTL,            \* SMARTHR_JWT_JWKS_CACHE_SECONDS
    MaxLatency,     \* bound on the duration of one JWKS request (timeout=5)
    TokenLife,      \* lifetime of an access token
    Shapes,         \* the shapes of token the clients present: see TokenShape
    Orderly,        \* TRUE: a key is retired only once its tokens have expired
    MaxTime         \* bound on the clock

\* Whether the header of the token names its key, and whether its issuer, token_type
\* and user_id claims are what _decode() and authenticate() ask for.
TokenShape == [kid : BOOLEAN, good : BOOLEAN]

ASSUME RotationAssumption ==
    /\ Rotation \in Seq(SUBSET Keys)
    /\ Len(Rotation) > 0
    /\ \A i \in 1..Len(Rotation) : Rotation[i] # {}
    /\ FirstKey \in Rotation[1]

ASSUME ConstantsAssumption ==
    /\ NoKey \notin Keys /\ NoThread \notin Threads
    /\ StaticKey \in Keys \cup {NoKey}
    /\ HasUrl \in BOOLEAN /\ Orderly \in BOOLEAN
    /\ Shapes \subseteq TokenShape
    /\ TTL \in Nat /\ MaxLatency \in Nat /\ TokenLife \in Nat /\ MaxTime \in Nat

VARIABLES
    now,        \* the clock
    docNo,      \* the document auth serves
    signing,    \* the key auth signs with
    lastSigned, \* when auth last signed with a key that it no longer signs with
    replacedAt, \* when a document was replaced by the next one
    cache,      \* _jwks_cache
    lock,       \* _lock: the thread that holds it
    sentAt,     \* when the lock holder sent its JWKS request; 0 when there is none
    req         \* the request each thread handles

authVars == <<docNo, signing, lastSigned, replacedAt>>
vars == <<now, authVars, cache, lock, sentAt, req>>

Never == -1
Docs == 1..Len(Rotation)

\* A token: the key that signed it, when it expires, and its shape.
Token == [key : Keys, exp : Nat, kid : BOOLEAN, good : BOOLEAN]

Outcomes == {"pending", "anonymous", "accepted", "malformed", "expired",
             "bad_claims", "unknown_key", "no_keys"}

NoToken == [key |-> FirstKey, exp |-> 0, kid |-> FALSE, good |-> FALSE]

\* pc: the next step of the thread.  pass: 1, or 2 for the forced refresh.
\* used: the document the candidate keys are taken from.  reply: the document auth
\* answered with.  failed: some JWKS request of this authentication failed, and
\* started: when it started (both read by properties only).
Request == [pc : {"idle", "lock", "fetch", "verify", "done"}, pass : {1, 2},
            token : Token, used : {0} \cup Docs, reply : {0} \cup Docs,
            failed : BOOLEAN, started : Nat, outcome : Outcomes]

Idle == [pc |-> "idle", pass |-> 1, token |-> NoToken, used |-> 0, reply |-> 0,
         failed |-> FALSE, started |-> 0, outcome |-> "pending"]

JwksKeys(doc) == IF doc = 0 THEN {} ELSE Rotation[doc]

LatestExpiry(k) == IF k = signing THEN now + TokenLife
                   ELSE IF lastSigned[k] = Never THEN 0
                   ELSE lastSigned[k] + TokenLife

Init ==
    /\ now = 0
    /\ docNo = 1
    /\ signing = FirstKey
    /\ lastSigned = [k \in Keys |-> Never]
    /\ replacedAt = [i \in Docs |-> Never]
    /\ cache = [doc |-> 0, fetchedAt |-> 0]
    /\ lock = NoThread
    /\ sentAt = 0
    /\ req = [t \in Threads |-> Idle]

-----------------------------------------------------------------------------
(* The clock and the auth service (external).                              *)

\* Time passes, but a JWKS request is answered or times out within MaxLatency.
Tick ==
    /\ now < MaxTime
    /\ \A t \in Threads : req[t].pc = "fetch" => now - sentAt < MaxLatency
    /\ now' = now + 1
    /\ UNCHANGED <<authVars, cache, lock, sentAt, req>>

\* Auth replaces its JWKS document by the next one.  It drops no key it signs with
\* and, in an orderly rotation, no key with unexpired tokens.
Publish ==
    /\ docNo < Len(Rotation)
    /\ \A k \in Rotation[docNo] \ Rotation[docNo + 1] :
         /\ k # signing
         /\ Orderly => LatestExpiry(k) <= now
    /\ replacedAt' = [replacedAt EXCEPT ![docNo] = now]
    /\ docNo' = docNo + 1
    /\ UNCHANGED <<now, signing, lastSigned, cache, lock, sentAt, req>>

\* Auth starts to sign with a new key of its current document.
SwitchSigning(k) ==
    /\ k \in Rotation[docNo] \ {signing}
    /\ lastSigned[k] = Never
    /\ lastSigned' = [lastSigned EXCEPT ![signing] = now]
    /\ signing' = k
    /\ UNCHANGED <<now, docNo, replacedAt, cache, lock, sentAt, req>>

-----------------------------------------------------------------------------
(* authenticate() and _decode(), one step per interaction with shared state. *)

\* Tokens a client can hold: signed by a key auth signs or signed with.
Minted ==
    {[key |-> k, exp |-> LatestExpiry(k), kid |-> shape.kid, good |-> shape.good] :
       k \in {k \in Keys : k = signing \/ lastSigned[k] # Never}, shape \in Shapes}

\* Faulty variant: the static PEM stands in for the JWKS document only.
BugStaticStandsIn(tok, doc) ==
    IF doc = 0 THEN {StaticKey} \ {NoKey}
    ELSE {k \in JwksKeys(doc) : tok.kid => k = tok.key}

\* The keys get_verification_keys() returns for a token, given the cached document.
Candidates(tok, doc) ==
    {k \in JwksKeys(doc) : tok.kid => k = tok.key} \cup ({StaticKey} \ {NoKey})

\* A request without a usable bearer token: no header or another scheme (None), or
\* a header or a token that cannot be parsed (AuthenticationFailed).
Unparsed(t) ==
    /\ req[t].pc = "idle"
    /\ \E o \in {"anonymous", "malformed"} :
         req' = [req EXCEPT ![t] = [Idle EXCEPT !.pc = "done", !.outcome = o]]
    /\ UNCHANGED <<now, authVars, cache, lock, sentAt>>

\* authenticate() has parsed a token.  Without a URL, _jwks_keys() returns at once.
Parsed(tok) == [Idle EXCEPT !.pc = IF HasUrl THEN "lock" ELSE "verify",
                            !.token = tok, !.started = now]

Start(t, tok) ==
    /\ req[t].pc = "idle"
    /\ req' = [req EXCEPT ![t] = Parsed(tok)]
    /\ UNCHANGED <<now, authVars, cache, lock, sentAt>>

\* Faulty variant: the TTL is ignored once there is a document.
BugStaleNever == cache.doc = 0

Stale == now - cache.fetchedAt > TTL

BugRefreshUnlocked(t) ==
    /\ req[t].pc = "lock"
    /\ req[t].pass = 2 \/ Stale \/ cache.doc = 0
    /\ sentAt' = now
    /\ req' = [req EXCEPT ![t].pc = "fetch"]
    /\ UNCHANGED <<now, authVars, cache, lock>>

\* _jwks_keys() takes _lock.  It keeps it while it asks auth for the document when
\* the refresh is forced or the cache is stale or empty ...
Refresh(t) ==
    /\ req[t].pc = "lock"
    /\ lock = NoThread
    /\ req[t].pass = 2 \/ Stale \/ cache.doc = 0
    /\ lock' = t
    /\ sentAt' = now
    /\ req' = [req EXCEPT ![t].pc = "fetch"]
    /\ UNCHANGED <<now, authVars, cache>>

\* ... and returns the cached keys at once otherwise.
ReadCache(t) ==
    /\ req[t].pc = "lock"
    /\ lock = NoThread
    /\ ~ (req[t].pass = 2 \/ Stale \/ cache.doc = 0)
    /\ req' = [req EXCEPT ![t].pc = "verify", ![t].used = cache.doc]
    /\ UNCHANGED <<now, authVars, cache, lock, sentAt>>

\* Auth answers with its current document (external); the reply is under way.
Serve(t) ==
    /\ req[t].pc = "fetch"
    /\ req[t].reply = 0
    /\ req' = [req EXCEPT ![t].reply = docNo]
    /\ UNCHANGED <<now, authVars, cache, lock, sentAt>>

\* Faulty variant: a forced refresh fills the cache only if there was nothing in it.
BugReplyNotKept(t) ==
    /\ req[t].pc = "fetch"
    /\ req[t].reply # 0
    /\ cache' = IF cache.doc = 0 THEN [doc |-> req[t].reply, fetchedAt |-> now] ELSE cache
    /\ lock' = NoThread
    /\ sentAt' = 0
    /\ req' = [req EXCEPT ![t].pc = "verify", ![t].used = req[t].reply, ![t].reply = 0]
    /\ UNCHANGED <<now, authVars>>

\* The reply arrives: it fills the cache, and the lock is released.
Reply(t) ==
    /\ req[t].pc = "fetch"
    /\ req[t].reply # 0
    /\ cache' = [doc |-> req[t].reply, fetchedAt |-> now]
    /\ lock' = NoThread
    /\ sentAt' = 0
    /\ req' = [req EXCEPT ![t].pc = "verify", ![t].used = req[t].reply, ![t].reply = 0]
    /\ UNCHANGED <<now, authVars>>

\* Faulty variant: a failed refresh counts as a fresh one.
BugFailureIsFresh(t) ==
    /\ req[t].pc = "fetch"
    /\ cache.doc # 0
    /\ cache' = [cache EXCEPT !.fetchedAt = now]
    /\ lock' = NoThread
    /\ sentAt' = 0
    /\ req' = [req EXCEPT ![t].pc = "verify", ![t].used = cache.doc, ![t].reply = 0]
    /\ UNCHANGED <<now, authVars>>

\* No usable reply: auth is down, the request times out, or the payload is not a
\* list of keys.  A cached document keeps serving ...
FetchFailsStale(t) ==
    /\ req[t].pc = "fetch"
    /\ cache.doc # 0
    /\ lock' = NoThread
    /\ sentAt' = 0
    /\ req' = [req EXCEPT ![t].pc = "verify", ![t].used = cache.doc, ![t].reply = 0,
                          ![t].failed = TRUE]
    /\ UNCHANGED <<now, authVars, cache>>

\* ... and without one KeyResolutionError leaves get_verification_keys(), static key
\* or not; try_keys() goes on to the forced refresh, or gives up if this was it.
FetchFailsCold(t) ==
    /\ req[t].pc = "fetch"
    /\ cache.doc = 0
    /\ lock' = NoThread
    /\ sentAt' = 0
    /\ req' = [req EXCEPT ![t] = [req[t] EXCEPT
                 !.failed = TRUE,
                 !.reply = 0,
                 !.pass = 2,
                 !.pc = IF req[t].pass = 1 THEN "lock" ELSE "done",
                 !.outcome = IF req[t].pass = 1 THEN "pending" ELSE "no_keys"]]
    /\ UNCHANGED <<now, authVars, cache>>

\* What jwt.decode() and authenticate() make of a token whose signature verifies.
Verdict(tok) == IF tok.exp <= now THEN "expired"
                ELSE IF tok.good THEN "accepted" ELSE "bad_claims"

\* One of the candidate keys verifies the signature.
VerifyMatch(t) ==
    /\ req[t].pc = "verify"
    /\ req[t].token.key \in Candidates(req[t].token, req[t].used)
    /\ req' = [req EXCEPT ![t].pc = "done", ![t].outcome = Verdict(req[t].token)]
    /\ UNCHANGED <<now, authVars, cache, lock, sentAt>>

\* Faulty variants: the passes are counted but not bounded, or not counted.
BugRetryUnbounded(t) ==
    /\ req[t].pc = "verify"
    /\ req[t].token.key \notin Candidates(req[t].token, req[t].used)
    /\ HasUrl
    /\ req' = [req EXCEPT ![t].pc = "lock", ![t].pass = @ + 1, ![t].used = 0]
    /\ UNCHANGED <<now, authVars, cache, lock, sentAt>>

BugRetryUncounted(t) ==
    /\ req[t].pc = "verify"
    /\ req[t].token.key \notin Candidates(req[t].token, req[t].used)
    /\ HasUrl /\ req[t].pass = 1
    /\ req' = [req EXCEPT ![t].pc = "lock", ![t].used = 0]
    /\ UNCHANGED <<now, authVars, cache, lock, sentAt>>

\* None does (or there is none): the forced refresh, if it is still to come.
VerifyRetry(t) ==
    /\ req[t].pc = "verify"
    /\ req[t].token.key \notin Candidates(req[t].token, req[t].used)
    /\ HasUrl /\ req[t].pass = 1
    /\ req' = [req EXCEPT ![t].pc = "lock", ![t].pass = 2, ![t].used = 0]
    /\ UNCHANGED <<now, authVars, cache, lock, sentAt>>

\* Faulty variant: the token is rejected without the forced refresh.
BugRejectFirst(t) ==
    /\ req[t].pc = "verify"
    /\ req[t].token.key \notin Candidates(req[t].token, req[t].used)
    /\ req' = [req EXCEPT ![t].pc = "done", ![t].outcome = "unknown_key"]
    /\ UNCHANGED <<now, authVars, cache, lock, sentAt>>

\* None does and there is no other pass: the token is rejected.
VerifyReject(t) ==
    /\ req[t].pc = "verify"
    /\ req[t].token.key \notin Candidates(req[t].token, req[t].used)
    /\ ~HasUrl \/ req[t].pass = 2
    /\ req' = [req EXCEPT
         ![t].pc = "done",
         ![t].outcome = IF Candidates(req[t].token, req[t].used) = {}
                        THEN "no_keys" ELSE "unknown_key"]
    /\ UNCHANGED <<now, authVars, cache, lock, sentAt>>

\* The caller takes the outcome; the thread can handle another request.
Finish(t) ==
    /\ req[t].pc = "done"
    /\ req' = [req EXCEPT ![t] = Idle]
    /\ UNCHANGED <<now, authVars, cache, lock, sentAt>>

-----------------------------------------------------------------------------
Environment == Tick \/ Publish \/ (\E k \in Keys : SwitchSigning(k))

\* The steps of one authentication after its start.
Step(t) == \/ Refresh(t) \/ ReadCache(t) \/ Serve(t) \/ Reply(t)
           \/ FetchFailsStale(t) \/ FetchFailsCold(t)
           \/ VerifyMatch(t) \/ VerifyRetry(t) \/ VerifyReject(t)

Next == \/ Environment
        \/ \E t \in Threads : \/ Unparsed(t) \/ Step(t) \/ Finish(t)
                              \/ \E tok \in Minted : Start(t, tok)

Spec == Init /\ [][Next]_vars

\* A JWKS request is answered or times out; a thread that is not blocked runs.  There
\* is no strong fairness for _lock: a threading.Lock promises its waiters no order.
FetchEnds(t) == Reply(t) \/ FetchFailsStale(t) \/ FetchFailsCold(t)
ThreadRuns(t) == \/ Refresh(t) \/ ReadCache(t)
                 \/ VerifyMatch(t) \/ VerifyRetry(t) \/ VerifyReject(t)

FairSpec == Spec /\ \A t \in Threads : WF_vars(FetchEnds(t)) /\ WF_vars(ThreadRuns(t))

-----------------------------------------------------------------------------
TypeOK ==
    /\ now \in Nat /\ sentAt \in Nat
    /\ docNo \in Docs
    /\ signing \in Keys
    /\ lastSigned \in [Keys -> Nat \cup {Never}]
    /\ replacedAt \in [Docs -> Nat \cup {Never}]
    /\ cache \in [doc : {0} \cup Docs, fetchedAt : Nat]
    /\ lock \in Threads \cup {NoThread}
    /\ req \in [Threads -> Request]

\* The _lock serialises JWKS requests (keys.py:54-66): a thread that waits for a
\* reply holds it, so at most one request is in flight, and the holder is waiting
\* for a reply whenever another thread can look.
OneFetchAtATime ==
    /\ \A t \in Threads : req[t].pc = "fetch" => lock = t
    /\ lock # NoThread => req[lock].pc = "fetch"

\* The cache never goes back to an older document (keys.py:54-60): a slow reply
\* cannot overwrite the document of a later one, which would make a key that some
\* request has already verified with unknown again.
CacheNeverRegresses == [][cache'.doc >= cache.doc]_vars

\* To the threads the cache is a register that only advances (keys.py:35-66): each takes
\* its keys from what is cached at that moment, which is no older than what any thread has
\* used before, although replies overlap with rotations, failures and other threads.
Register == INSTANCE KeyRegister WITH
    published <- docNo,
    held <- cache.doc,
    using <- [t \in Threads |-> req[t].used]

RegisterSpec == Register!Spec

\* Zero-downtime rotation (README "Key rotation", keys.py:10-16): while auth rotates
\* its keys in order, a live token is rejected for want of a key only if a JWKS
\* request of this very authentication failed and the document it fell back on, if
\* any, does not hold the key.  No order of publishing, switching, caching and
\* concurrent refreshes rejects it otherwise.
LiveTokenRejected(t) == /\ req[t].pc = "done"
                        /\ req[t].outcome \in {"unknown_key", "no_keys"}
                        /\ now < req[t].token.exp

ZeroDowntime ==
    \A t \in Threads : LiveTokenRejected(t) =>
        req[t].failed /\ req[t].token.key \notin JwksKeys(req[t].used)

\* The documents auth was serving at some time since TTL + MaxLatency before the
\* authentication of t started.
RecentDocs(t) ==
    {i \in 1..docNo : \/ i = docNo
                      \/ replacedAt[i] + TTL + MaxLatency >= req[t].started}

\* Bounded staleness (keys.py:55-59): unless a JWKS request of its own failed, an
\* authentication uses a recent document.  fetched_at is set when the reply arrives
\* and not when auth wrote it, so TTL alone is not the bound.
BoundedStaleness ==
    \A t \in Threads :
        HasUrl /\ req[t].pc \in {"verify", "done"} /\ ~req[t].failed
               /\ req[t].outcome \notin {"anonymous", "malformed"}
            => req[t].used \in RecentDocs(t)

\* A retired key stops verifying: once auth has stopped publishing a key for longer
\* than TTL + MaxLatency, a token it signed is accepted only by an authentication
\* whose own JWKS request failed, or through the static PEM.
RetiredKeyRejected ==
    \A t \in Threads :
        /\ HasUrl
        /\ req[t].outcome = "accepted"
        /\ req[t].token.key # StaticKey
        /\ \A i \in RecentDocs(t) : req[t].token.key \notin Rotation[i]
        => req[t].failed

\* The static PEM as a safety net (keys.py:77-78, 83-84): a live token it verifies is
\* rejected for want of a key only by an authentication that could not get any JWKS
\* document, as the process has had none so far.  An outage, a retired key or a stale
\* cache never takes the net away later.
StaticKeySafetyNet ==
    \A t \in Threads :
        LiveTokenRejected(t) /\ req[t].token.key = StaticKey
            => /\ req[t].failed
               /\ req[t].used = 0

\* When no more requests arrive, every request in the process is answered
\* (authentication.py:91-98): the two passes end, and waiting for _lock ends.
InProgress(t) == req[t].pc \in {"lock", "fetch", "verify"}
NoArrival == \A t \in Threads : InProgress(t)' => InProgress(t)

BurstAnswered ==
    <>[][NoArrival]_vars => \A t \in Threads : InProgress(t) ~> req[t].pc = "done"
=============================================================================

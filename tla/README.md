# SmartHR360 platform: formal models

TLA+ models, model-checking runs and machine-checked proofs for the code of the
`smarthr360-platform` repository: the two shared Python packages
(`smarthr360-jwt-auth`, `smarthr360-integration`) and the scripts that bring a
platform up and fill it. The services themselves (auth, core-hr, career-sim,
future-skills, workload, policy-gen, retention, the frontend) live in other
repositories; where the code here talks to them they are modelled from how it
uses them, and `PROJECT.json` marks those definitions as external.

## 1. The system and its parts

| Part | State | Operations | What is hard about it |
| --- | --- | --- | --- |
| Verification keys (`keys.py`, `conf.py`) | `_jwks_cache` and `_lock` of a process, the `lru_cache` of the static PEM | `_jwks_keys`, `get_verification_keys` | threads share the cache; the JWKS request is made under the lock; auth rotates keys meanwhile; requests fail and time out |
| Authentication (`authentication.py`) | none of its own: local variables of one call | `authenticate`, `_decode` with its two passes | cached keys first, a forced refresh second, each of which may fail |
| Roles and permissions (`access.py`, `permissions.py`, `user.py`) | none | role helpers, permission classes | many combinations of role, groups and method |
| Auditor middleware (`readonly.py`) | none | `__call__`, `_token_user` | authenticates a request that DRF authenticates again a moment later |
| SCD2 history (`history/service.py`, `models.py`) | the history tables; a per-thread suppression flag | `snapshot_history`, `history_signal_suppressed` | concurrent transactions, row locks, rollbacks |
| Seed scripts (`seed_demo.py`, `seed_demo_full.py`) | none: the state is in the services | a sequence of check-and-create steps | runs fail half way and are repeated; others create records too |
| Paged reads (`platform_client.py`, `api/pagination.py`) | local variables of `paged_get` | `paged_get`, `StandardEnvelopePagination` | the list changes between two pages, anywhere in it |
| Accounts and waits (`platform_client.py`, `seed_demo_full.py`, `bootstrap.sh`) | accounts in auth | `login_or_register`, `robust_account`, `wait_for_services`, `wait_one` | throttling, lost answers, two runs that register one account, deadlines |
| Retention story (`seed_demo_full.py`) | rows, conversations and actions in the retention service | detect, reply, review, record the outcome | tokens that expire on the way, overlapping runs, people who review meanwhile |
| Provisioning (`bootstrap.sh`, `generate_rsa_keys.sh`, `gen_secret.sh`, `deploy.sh`, `seed_demo.sh`) | key files, `.env`, the database volume, containers and what they loaded | create once, then keep; up; wait; migrate; seed | a crash between two files, files that are kept torn, containers and volumes older than the files |
| Metrics helpers (`observability.py`) | the metrics registry of a process | `get_counter`, `get_gauge`, `get_histogram` | modules imported in any order and again |
| Worker processes (`gunicorn.conf.py`, `conf.py`) | the multiprocess directory; per process the static key | `on_starting`, `child_exit`, `_resolve_public_key` | workers killed in a request, pids used again, a master that boots over old files, scrapes meanwhile |
| Service clients, analytics, API errors, schema | none | pure functions or single GETs | nothing over time |
| Compose, k3s, Caddy, Prometheus, Grafana, CI | configuration of other programs | | |

How they interact: auth signs access tokens and publishes its public keys as a
JWKS document. Every other service verifies tokens locally with
`smarthr360-jwt-auth`: a request passes `AuditorReadOnlyMiddleware`, which calls
`JWTAuthentication` for unsafe methods, then DRF, which calls it again, then a
permission class of the view. The threads of a process share the JWKS cache. Views
and signals call `snapshot_history()` inside the service's database. The scripts
run outside and talk to the services over HTTP like any client.

What makes each part correct:

- keys and authentication: an orderly rotation is invisible to clients; a retired
  key stops verifying within a bound; the cache never goes back; the lock is
  released, so that every request is answered;
- pipeline: an auditor never writes; a read-only group is never the reason why a
  write is granted;
- history: versions follow one another without gap, overlap or repetition; one open
  row per owner; nothing recorded is changed or lost, whatever fails half way;
- seeding: running a script again repairs what an earlier run left out, creates
  nothing twice that it looks for, and fails for what it failed to read only where it does
  not follow the pages;
- paged reads: all of the list, each record once, as far as others leave the list alone;
- accounts and retention: throttling and races do not cost an account; the newest action
  stays for the UI; an approved action gets its outcome;
- provisioning: what exists is kept; "ready" means that keys, containers and database fit
  together; running a script again repairs what an interruption left, or else is known
  not to;
- workers: every event is counted once, whatever dies; no ghosts; a metric is the one that
  was asked for; a restart heals an outdated key.

`PROJECT.json` lists every hazard found in this code with its line and the
properties that cover it, or the reason why none does yet.

## 2. Modules

| Module | Models | State | Actions |
| --- | --- | --- | --- |
| `JwksVerification` | `keys.py`, `authentication.py`, `conf.py` | clock; auth's document, signing key and history; `cache`, `lock`; one request per thread | one per interaction with shared state: `Refresh`, `ReadCache`, `Reply`, `FetchFailsStale`, `FetchFailsCold`, `VerifyMatch`, `VerifyRetry`, `VerifyReject`, ...; environment `Tick`, `Publish`, `SwitchSigning`, `Serve` |
| `KeyRegister` | what the key cache promises to the threads of a process: an abstract specification | the document published, the one held, the one each thread uses | `Publish`, `Use`, `Forget` |
| `AccessControl` | `access.py`, `permissions.py`, `user.py` | none (operators) | |
| `ReadOnlyPipeline` | `readonly.py` and DRF's use of the other two; extends both modules above | the stage of each request | `Receive`, `ReceiveUnparsed`, `MwBlocks`, `MwPasses`, `DrfRejects`, `DrfDecides`, `Respond`, and the steps of the authentication |
| `SCD2History` | `history/service.py`, `models.py` over PostgreSQL row locks | clock, committed rows per owner, the transaction of each writer | `Call`, `Select`, `LockRow`, `SkipRow`, `NoRow`, `Unchanged`, `Change`, `CommitNothing`, `CommitFirst`, `CommitNext`, `Abort` |
| `SCD2Timeline` | what the history promises: the abstract specification | the timeline of each owner | `Record` |
| `DemoSeed` | a run of a seed script, for any script | records in the services, the run, the steps that were cut short | `Begin`, `Look`, `Patch`, `Recompute`, `Create`, `Refuse`, `PassOver`, `NextStep`, `Die`, `Arrive` |
| `DemoStory` | the steps of the two scripts, as data for `DemoSeed` | none | |
| `PagedRead` | `paged_get()` and the pagination class | the list, the call | `Start`, `NextPage`, `PastTheEnd`, `WholeList`, `ErrorAnswer`, `NoAnswer`, `Return`; others' `Insert`, `Delete` |
| `StackHost` | the host: what `bootstrap.sh` and `deploy.sh` both do: `generate_rsa_keys.sh`, `docker compose up` | `priv`, `pub`, `dotEnv`, `volume`, `seeded`, `box` (containers), the run of the script | `GenRefuses`, `GenOpensPrivate`, `GenWritesPublic`, ..., `Up`, `UpFails`; containers `Answers`, `Dies`; the operator `RemoveKeys`, `RemoveEnv`; `Stop` anywhere |
| `Bootstrap` | `bootstrap.sh` | that of `StackHost` | one per branch of its five sections, `--reset`, `--down` |
| `Deploy` | `deploy.sh`, `seed_demo.sh` | same | `EnsureKeys`, `PostgresReady`, `Migrate`, `SeedScript`, `SeedSkips`, `SeedOne`, `SeedFails`, `SeedOver`, `Fallback` |
| `Provisioning` | both of them composed on one host | same | |
| `DemoAccounts` | `login_or_register`, `robust_account`, `wait_for_services` | auth's accounts, the runs | one per answer of auth: `LoginOk`, `LoginThrottled`, `RegisterExists`, `RegisterLost`, ... |
| `RetentionQueue` | `seed_retention_volume`; extends `DemoAccounts` | rows, conversations, actions | `ReadRows`, `PostRow`, `Detect`, `Respond`, `ListActions`, `Review`, `Outcome`, ... and what goes wrong with each |
| `FullSeedSession` | sessions of overlapping runs, composed of the two | same | `Expire`, `Die`, `Exit` |
| `MetricsRegistry` | `observability.py` | none (operators) | |
| `StaticKeyConf` | the key settings of `conf.py` | none (operators) | |
| `ServiceWorkers` | `gunicorn.conf.py`, and the two modules above in each worker | master, workers, metric files, cached keys, the scrape | `Boot`, `Fork`, `Reap`, `Import`, `Accept`, `CountRequest`, `Finish`, `ScrapeStarts`, `ScrapeReads`, `Die`, `MasterDies`, `KeyFileChanges`, ... |
| `MC...` | constants of the runs | | |
| `...Proofs` | theorems, see section 5 | | |

The `map` of `PROJECT.json` gives the lines each definition stands for. Operators
called `Bug...` are variants of the definition that follows them, as a plausible
mistake would leave it; nothing in the specifications uses them. Each names a
change that breaks some property, which shows that the property depends on the
code.

Correspondence, where it is not one to one:

- *Granularity.* A thread of `JwksVerification` takes a step where it meets shared
  state: taking `_lock`, the arrival of the reply (the lock is held in between, as in
  the code), the decoding. What it computes in between is local and belongs to the
  step. A document is the number of its position in `Rotation`, so "older" is "less".
- *Tokens.* A token is its signing key, its expiry, whether it has a `kid`, and
  whether its claims are acceptable; signatures verify under exactly their own key.
  `iat`, leeway and algorithm details are left out.
- *Static keys.* With no URL the search ends after one pass, with a URL after two;
  the static PEM is a candidate on both, unless the JWKS request of a cold cache
  fails (`keys.py:62` leaves before the PEM is added).
- *Pipeline.* `MwPasses` starts a second authentication from scratch, with the same
  token: the clock, cache and network may have changed, as between the two calls of
  the code.
- *History.* The database is external: READ COMMITTED, a SELECT ... FOR UPDATE that
  sees the rows of its start, waits for a row lock and checks the row again when it
  has it. A transaction's writes become visible at its commit, so `CommitFirst` and
  `CommitNext` do both the close and the insert; a failure between them is `Abort`. The
  transaction is the call's own or the caller's, in which `@transaction.atomic` is only a
  savepoint: after the call has returned, the row stays locked and the writes unseen for
  as long as the caller goes on (`pc` is "write", or "end" if nothing has changed). A
  transaction makes one call; callers that snapshot several owners in one transaction,
  and could wait for one another in a circle, are not modelled: they are in the services.
- *Paged reads.* The endpoint and its order are external, and nothing in the repository
  fixes the order: a record may be inserted anywhere in the list. `ahead` counts what was
  inserted into the pages already passed, `gone` what was deleted.
- *Seeding.* A step of a script reads what there is, decides what to post and posts
  it, one request per action. How it decides is its check: for each item (`missing`,
  `enrich`), the list is empty (`empty`), the first item (`headed`), a count
  (`topup`), something to answer to (`answers`), the step before created something
  (`created`); or there is none, and the post either resets what was there (`reset`: one
  record is left, as by the resets of demo data and the detection) or adds one more
  (`always`: the scores, and the policy simulations of `seed_demo_full.py:573-575`). A step
  reads all of its list if it follows the pages or one page holds the list (`InView`),
  otherwise any page of it: so the departments of both scripts (`seed_demo_full.py:156`) and
  most lists of `seed_demo.py`. Lists of the scripts that are longer have two items in
  `DemoStory`; six employees are one or two. The services refuse a second record of
  the kinds the scripts find by a key (`Keyed`); that is what the scripts rely on, the
  services' own code is elsewhere.
- *Provisioning.* A file is missing, torn (opened, not yet written) or whole, and then a
  number stands for its content: a public key has the number of its private key. A script can
  stop before any of its commands, for any reason (`set -e`, Ctrl-C, a crash); a file that is
  being written stays torn. A poll of a container that is starting may return without success
  (`PollAgain`) or never: `curl` has no `--max-time` (`bootstrap.sh:107`), and whether it is
  refused or left waiting is the container's affair. `HeldUp` names these states, and that of
  `until pg_isready` (`deploy.sh:75`). `git`, image builds, `chown` and the probe of the
  frontend are left out.
- *Sessions.* One request per action; the answer decides which. A run takes the access
  tokens once, and its own expire at any moment; the steps between accounts and retention
  are one step, that an expired token ends (they are `DemoSeed`'s matter).
- *Workers.* What matters of a metric file is its value, 0 if there is no file. A request
  does three updates, one after the other, with a death possible between them. A restarted
  container has the old directory and may hand out the old pids.

## 3. Runs

| Run | Shows | Bounds |
| --- | --- | --- |
| `jwks_rotation` | types; the cache never regresses and implements `KeyRegister`; zero downtime in an orderly rotation | 2 threads, 2 keys, three documents (old, both, new), TTL = latency = lifetime = 1, clock to 2 |
| `jwks_revocation` | bounded staleness; a retired key is rejected, auth rotating as it likes; what the static key helps with; a burst of requests is answered | TTL 0: every authentication contends for the lock; latency 1, lifetime 3, clock to 2, so tokens outlive the key; a static key that is not the first signing key |
| `pipeline_jwks` | with a URL an auditor's write runs only if a JWKS request of the middleware's own authentication failed; a read-only group grants no write | 2 threads, a rotation, an expiry; writes of an auditor, of HR staff who audit, of support staff and of nobody, and a read: one request for each way through the pipeline. The other users and classes are the theorem's (section 5) |
| `scd2_writers` | types; succession, never orphaned, append-only under races and rollbacks, with times of the callers' own; every call ends | 2 writers, 1 owner, 3 rows: a first insert, a succession, and a second of each |
| `scd2_single` | one writer at a time: one open row, ordered windows, implements `SCD2Timeline` | 1 writer, 2 owners, 3 rows |
| `scd2_race` | violation: two first snapshots leave two open rows | 2 writers |
| `paged_read` | a paged read misses at most one record per deletion and repeats at most one per insertion in front of it, for each shape of answer and any order of the list | page size 2, 5 records, inserted anywhere: three pages, so a middle one |
| `seed_full` | checked steps are complete when passed; only interrupted steps are incomplete; nothing is created twice but by steps that count or do not look; no conflict from a read that shows the whole list; the script ends well in the end, unless a list outgrows the page it is read by | all 18 steps, up to two steps interrupted or passed over; two departments of the script's and a third from others against a page of two, so that the unpaged read does miss one of the script's own |
| `seed_rerun` | violation: "Demo ready" over an incomplete story | the 14 steps of `seed_demo.py` |
| `provisioning` | nothing whole is overwritten, "ready" and "Done" mean what they say, every run ends but one held up by a wait without a deadline, repetition settles | auth, one verifier, one optional service; two polls before the deadline (so that one service can use up another's time); one removal of files by the operator, any number of runs, stops and container deaths; containers that never answer |
| `seed_session` | accounts survive throttling and races; the newest action stays pending; outcomes follow approvals; only faults forget conversations; repeated sessions settle | two overlapping runs, small and full; two people, two critical employees (so two actions, one of them to work); three attempts |
| `service_workers` | exact aggregates, scrapes that never lose counts, no ghosts, own metrics, keys read in the worker's life | two workers and two pids, so that every new worker gets a used pid; two requests, deaths and boots, one change of the key file; one release that declares a counter under two spellings, one with clashing names |

Every bound is a constant or a guard that names it: `MaxTime`, `MaxRows`, `MaxRecords`,
`MaxCopies`, `MaxCut`, `MaxRemovals`, `Patience`, `Attempts`, `MaxRequests`, `MaxDeaths`,
`MaxBoots`, `MaxKeyFiles`. `MaxTime` is at least TTL + latency wherever a property speaks of
their sum, so cached documents do become stale and retired keys do come out of the window.
`MaxCopies = 2` is enough to see a twin. Symmetry is used for request threads and for pids,
and only in runs without liveness properties. With three pids and one death `service_workers`
was checked as well. Only `service_workers` turns the deadlock check off: its bounds run out.
`MaxCut` bounds the steps ever interrupted, not how often each is: a run may be cut short in
the same step again and again.

Each module has a type invariant. The runs check those of `JwksVerification`
and `SCD2History`; those of `DemoSeed`, `PagedRead`, `Provisioning`, `FullSeedSession`,
`ServiceWorkers` and `ReadOnlyPipeline` (`PTypeOK`) are there for proofs, as is
`OneFetchAtATime`. TLC was run with them too.

### Fairness

- `JwksVerification!FairSpec`: a JWKS request ends (`timeout=5` in `keys.py`), and a
  thread that can take a step takes one (weak fairness per thread). Nothing is assumed
  of the order in which `_lock` is granted; a Python lock promises none. That is why
  `BurstAnswered` speaks of a burst after which no further request arrives.
- `SCD2History!FairSpec`: a transaction that is not blocked goes on to its end or is rolled
  back (weak; no caller keeps one open for ever), and a waiter for a row lock is served
  eventually (strong: PostgreSQL queues the waiters of a row).
- `DemoSeed!FairSpec`: a run goes on, and the script is started again when it ended.
  `SeedSettles` assumes in its own premise that interruptions cease.
- `Provisioning!FairSpec`: a script that runs and is not held up (`HeldUp`) goes on, and is
  run again when it ended. Nothing is assumed of containers and postgres, which may never
  answer. `Settles` assumes in its premise that disturbances cease and that what the scripts
  wait for comes (`Answering`).
- `FullSeedSession!FairSpec`: a run under way goes on. `SessionSettles` assumes in its
  premise that nothing goes wrong any more and that the full script is started again and
  again.
- The other specifications have none, and only safety properties.

### What the violations say

Each is a documented claim that the code does not meet; `findings` in `PROJECT.json`
quotes the claim:

1. `scd2_race`: SELECT ... FOR UPDATE has no row to lock for the first snapshot of an
   owner, and there is no unique constraint.
2. `seed_rerun`: survey, tasks and detection are guarded by their first record, or by
   what this very run created.

In more places the code does less than a docstring leads one to expect. There the
property states what remains true, with the exception spelled out, and dropping the
exception makes it false:

- `StaticKeySafetyNet`: `keys.py:77-78` calls the static PEM a safety net, but when the
  JWKS request of a process without a cached document fails, the exception leaves
  (`keys.py:62`) before the PEM is added, and tokens it verifies are rejected.
- `AuditorWriteNeedsFailedFetch`: `DEMO.md:39-41` says the middleware rejects every unsafe
  request of an auditor. `readonly.py:53` takes any failure of its own authentication for
  "DRF will answer 401"; if it was a failed JWKS request and DRF's own succeeds, the view
  runs, unless its permission class refuses.
- `NoOtherTwins`: `seed_demo_full.py:18` says "checks-before-create everywhere". The goals
  (`:335-352`) are counted and not looked for: after one failed post, the next run posts
  all ten again. The scores (`:455`) and three policy simulations (`:573-575`, without
  `expect=`) are posted on every run with no check at all. The property excepts these steps,
  whose records the runs do repeat.
- `NoSpuriousConflict`, `SeedSettles`: `platform_client.py:85-87` warns of callers that read
  the first page only. `seed_demo_full.py:156` is one: it reads the departments with one
  unpaged GET and posts with `expect=[201]`. When others have added departments until the
  page need not show the script's own, it posts one that exists, is refused, and no later
  run need end (`OutOfSight`). `seed_demo.py` reads departments, skills, evaluations and
  retention rows so. All other keyed lists of `seed_demo_full.py` are read page by page.
- `OneRepeatPerInsertion`: `paged_get()` does not look for repeated records. On a list
  ordered newest first, a record that is added between two pages pushes one that was read
  onto the next page.
- `RunsEnd`: `bootstrap.sh:102` gives the services "5 minutes". DEADLINE is looked at only
  when `curl` returns (`:107`, no `--max-time`), so a service that takes the connection and
  does not answer holds the run for ever; `deploy.sh:75` has no deadline at all.
- `OnlyInterruptedStepsIncomplete` holds of each script by itself. With `Script <- Both` it
  does not: both scripts have the survey "Pulse Q3 2026", with two questions
  (`seed_demo.py:161-177`) and with three (`seed_demo_full.py:379-384`); the large one finds
  the survey and leaves it at two.
- `OneMissPerDeletion` leaves out the shape "standard": `paged_get()` takes a list under
  `data` for the whole list, and `StandardEnvelopePagination` has one page there.
- `NothingOverwritten`: `bootstrap.sh:14` says existing keys are never overwritten. A public
  key without its private key is: the generator looks at the private key only. If that
  run stops in between, the pair does not belong together; `ReadyMeansConsistent` excepts it.
- `ReadyMeansConsistent`, `Settles`: both scripts are called safe to run again. A private key
  alone stays alone (the generator refuses, and `deploy.sh:30` does not even call it), a
  torn `.env` is kept for ever, `docker compose up -d` keeps containers whose key files
  were replaced, and a new `.env` has a password the old volume does not know.
- `DeployedMeansSeeded`: the fallback of `deploy.sh:83` seeds auth alone and hides that the
  rest failed, which it does on every host without an `.env`, as `seed_demo.sh` calls
  compose without the `--env-file` of its caller.
- `ApprovedIsRecorded`, `ForgottenByFault`: an outcome that is refused
  and a conversation whose reply failed are never taken up again, and "FULL demo ready"
  is printed all the same.
- `AggregatesExact`, `NoGhosts`: `gunicorn.conf.py:46` says a dead worker's metric files are
  dropped. Only its live gauges are, and rightly so: without its counters the sums would
  fall. What `rmtree(ignore_errors=True)` or the swallowed exception leave behind is
  counted on.
- `OwnMetric` needs the naming convention of `observability.py:9-10`
  (`NamingAssumption`): with a gauge named `x_total`, `get_gauge("x")` returns it; so it
  does with a gauge `x_created`, which the convention does not mention (section 5).

## 4. Why the properties are what they are

`ZeroDowntime` allows one exception, which the code has: a live token may be rejected if a
JWKS request of this very authentication failed and the document it fell back on does not hold
the key. Without the exception it is false. `RegisterSpec` relates the threads to one another,
which the other properties of the cache do not: a document that is handed to a thread and not
kept, or kept and not handed out, lets one thread know a key and the next one not.
`BoundedStaleness` uses TTL + `MaxLatency` and not TTL: `fetched_at` is the time of the reply,
while the document is as of the moment auth wrote it. `AuditorWriteNeedsFailedFetch` is what
remains of the documented claim with a JWKS URL: a failed request is the only way.
`Succession` does not say which successor a row has, as racing writers may leave several open
rows; `NeverOrphaned` and `HistoryIsAppendOnly` hold nonetheless. `CheckedStepsComplete` is
the part of "idempotent" that holds for every script; `OnlyInterruptedStepsIncomplete` says
that nothing else goes missing than what an interruption touched; `NoOtherTwins` is the part
of "checks-before-create everywhere" that holds. `OneMissPerDeletion` and
`OneRepeatPerInsertion` are the exact price of offset pagination: one record missed for each
that is deleted, one repeated for each that is inserted in front, and nothing of either
without its cause. A deletion never repeats a record and an insertion never hides one, in any
order of the list.

`ReadyMeansConsistent` compares what containers have loaded and not what the files say, as
that is what tokens are verified with; each of its exceptions was dropped in turn and
TLC found the run that needs it. `Settles` is the liveness half of "idempotent": `Broken`
lists every state no later run repairs, and nothing else keeps a platform from getting
ready. `FailsOnlyRefused` says how many of the attempts may be lost to races: one.
`ScrapeBracketed` is about a read that is not atomic; that the sums never fall between
two scrapes follows from it. `AggregatesExact` is an equation, so that an event counted
twice is as wrong as one that is lost, and what stale files carry over is in it.
`KeyReadInLife` holds however long a worker remembers a missing key: only that it does
not outlive the worker.

## 5. Proofs

All theorems hold for every value of the constants that meets the named assumptions of
the modules: `RotationAssumption`, `ConstantsAssumption` (of `JwksVerification` and of
`ServiceWorkers`), `BoundsAssumption` (of `SCD2History` and of `DemoSeed`),
`NonEmptyAssumption`, `CallsAssumption`, `ScriptAssumption`, `ArrivalsAssumption`,
`PagingAssumption`, `ServicesAssumption`, `WaitAssumption`, `SeedOrderAssumption`,
`AccountsAssumption`, `NamingAssumption`. TLC evaluates each of them on a run. What a
theorem needs beyond them is in its own ASSUME, and stated below. Every safety property
that a run checks and finds to hold has its theorem.

- **`JwksVerificationProofs`.** `TypeCorrect`; `OneFetchAtATimeHolds`, which is inductive
  with `TypeOK`; `CacheNeverRegressesHolds`, an action property, from
  `RepliesRecent`: what a request in flight brings is no older than what the cache
  holds. That is true because only the lock holder has a request in flight
  (`OneFetchAtATime`) and documents only advance. One lemma per action states its
  effect on a thread, and a frame lemma what it leaves alone; the invariants are
  proved from those effects.
  - `ZeroDowntimeHolds`, under `HasUrl` and `Orderly`. `KeysLive`: auth publishes every
    key that it signs with or that has unexpired tokens. `TokensKnown`: the tokens in the
    hands of requests were signed with such keys and expire no later than auth's latest.
    `SearchInv`: a thread on its second pass that had no failure has used a document
    served since it started, hence one with the key, or the token has expired.
  - `BoundedStalenessHolds`, `RetiredKeyRejectedHolds`. The invariant dates things: the
    request in flight was sent at most `MaxLatency` ago and its reply was served since
    then; the cached document was served since `fetchedAt` less `MaxLatency`; the document
    a thread uses was served since its start less TTL and `MaxLatency`.
  - `SafetyNetHolds`: a thread that looks for keys has none in use yet, and the static
    key is a candidate wherever keys are tried at all (`NetInv`); what is left is the
    exception that leaves before, from an empty cache.
  - `ImplementsRegister`, the refinement of `KeyRegister`: a hit and a reply that arrives are
    a `Use`, the end of a pass is a `Forget`, a new document of auth a `Publish`, every other
    step a stutter. `Use` asks that the document is no older than the cached one, which is
    `RepliesRecent` again.
  - `AuthenticationEnds`: `StepsLeft` is at most eight (four for each pass) and falls with
    every step of the thread; no step of another thread, the clock or auth raises it.
- **`ReadOnlyPipelineProofs`.** `PTypeCorrect` and `ReadOnlyGroupsGrantNoWriteHolds`, for
  every set of calls: no permission class looks at AUDITOR or SUPPORT for an unsafe
  method (`GroupsGrantNoWrite`), and a view runs only when its class granted the
  request. `StaticAuditorNeverWrites`, under `~HasUrl`: without a URL an
  authentication rejects a token only for good, for its key, its claims or its expiry
  (`NoDocument`), so a token the middleware could not use is one DRF rejects
  (`Guarded`). `WriteNeedsFailure`, under `Orderly`, is what remains with a URL:
  `SearchOK` lifts the invariants of the search into the pipeline; with them the middleware
  rejects a live token only after a failed request, and any other rejection means that
  the token is past hope (`Hopeless`) and stays so until DRF looks at it (`Barred`).
- **`SCD2HistoryProofs`.** For any number of racing writers: `TypeCorrect`,
  `SuccessionHolds`, `NeverOrphanedHolds`, `AppendOnlyHolds`. The strengthening
  (`TxInv`, `LocksExclusive`, `ColumnsAgree`) says that a writer which has a row holds
  its lock alone and that the row is still open; hence a commit closes an open row and
  opens its successor, and disturbs nothing else. Under `OneWriter` (writers take turns,
  times are the service's own): `OneWriterOneOpenRow`, `OneWriterWindowsOrdered`, and
  `OneWriterImplementsTimeline`, the refinement of `SCD2Timeline`: every commit is a
  `Record` step and every other step a stutter. `RowsInOrder` (only the last row is
  open) and `CallUpToDate` make it inductive.
- **`DemoSeedProofs`.** For every script: `TypeCorrect` and `CheckedStepsCompleteHolds`:
  inside a checked step every item is there or still to be posted (`HeldOrToDo`), what
  was passed stays complete (`PassedComplete`), as nothing is taken away. The other three
  depend on the script, and say how. A condition on scripts is defined at the end of
  `DemoSeed`, and TLC evaluates (`FullAssumption`) that `seed_demo_full.py` meets all of
  them. `seed_demo.py` meets none, because of its unpaged reads, of the response it posts along
  with the survey, and of its last step.
  - `NoSpuriousConflictHolds`, for scripts that list what could be in the way of their
    posts (`SeesConflicts`). Like the property, it is about the steps that have all of
    their list in view.
  - `NoOtherTwinsHolds`, for scripts whose steps find what they have posted before, if they
    claim to look (`FindsItsOwn`); the steps that count or post without looking are the
    property's exceptions, not assumed away: their copies do add up. What is left to post is
    not there yet (`StillNew`). A step decided by its first item needs more: that item is
    there whenever another is (`FirstIsThere`) and is posted before the others
    (`FirstGoesAhead`), however often the step was cut short.
  - `OnlyInterruptedHolds`, for scripts whose all-or-nothing steps list what they alone
    create (`AllSteady`). Every step is complete, or being posted with the rest still to
    do, or still to come with its list empty (`Settled`); or it was interrupted (`Lost`), and
    then the step that answers to it counts as interrupted too.
- **`PagedReadProofs`.** `TypeCorrect`; `FewRepeats`: ids are distinct in the list, and the
  repetitions so far and the records that were read and are behind the page to come
  (`ToRepeat`) are together at most as many as the insertions in front of that page
  (`FewRepeated`): an insertion moves one record to that side, a deletion none, and one that
  is read again leaves `ToRepeat`. `FewMisses`: the records in front of the page to come that
  no page has shown (`Skipped`) are at most as many as the deletions (`FewSkipped`).
- **`ServiceWorkersProofs`.** For any number of workers and pids: `TypeCorrect`;
  `OnlyLiveProcesses` and `KeyOfThisLife`, with `StateOK` (what holds of processes that are
  not there, of requests in progress and of the newest time); `EventsCountedOnce` and
  `ScrapesBracketed`, which are about sums over the files: `CountersAddUp`, and `ScrapeSum`:
  what was read and what is still to read lies between the total at the start of the
  scrape and the total now. `MetricsAreOwn`, under `UnitNames`, the convention of
  `observability.py:10-11` in full: a name ends in a unit that is none of the suffixes the
  library or `_existing()` adds. `NamingAssumption` alone does not suffice, as the proof
  attempt showed: `get_gauge("jobs")` finds a gauge `jobs_created` if that was declared
  first (`observability.py:39-42`).
- **`ProvisioningProofs`.** For any set of services, any patience and any number of runs:
  `TypeCorrect`; `KeysAndEnvStay`, an action property, from `HalfWritten` (a file that is
  being written is torn). `ReadyIsConsistent`: two whole key files are a pair, but between
  the two writes (`Paired`); containers hold the key files of the host (`Loaded`); the
  database takes the password (`Password`), each unless the exception it names has
  happened. `DoneIsSeeded`: the services that the seed loop has passed and that still run are
  seeded, or it noted a failure (`SeededSoFar`). `RunsGetOn`: `StepsToGo` falls with every
  step of a run; the loops advance over their lists, the polls use up the one deadline, and
  no section leads back. That bounds the steps, not the time: a poll or a wait that never
  returns is no step.
- **`FullSeedSessionProofs`.** For any number of overlapping runs, people and attempts:
  `TypeCorrect`; `RacesSurvived`: all attempts at an account were refused but for one that
  may have lost a race, after which the account is there (`Attempting`). `NewestWaits`: a run
  works actions that were not the newest when it listed them, and the newest has only
  receded since (`Older`). `ApprovedGetOutcomes`; `OnlyFaultsForget`, an action property.

Recursive functions of the library (`SumFunction`, sorted lists) are reasoned about by a
least counterexample in a well-founded order, as the induction theorems take an operator
that the provers cannot instantiate.

Only model-checked: liveness (`BurstAnswered`, `CallEnds`, `SeedSettles`, `RunsEnd`,
`Settles`, `SessionSettles`), as the proof system reasons neither about fairness nor about
ENABLED here. Of `BurstAnswered` and `RunsEnd` the half that needs no fairness is proved
(`AuthenticationEnds`, `RunsGetOn`): what was begun takes boundedly many steps. That each of
them is taken at last, where nothing holds it up, stays with TLC. The two violations (section
3) are counterexamples and need no proof.

## 6. Not modelled, and the plan

Not modelled because there is nothing over time to check: service clients,
analytics, API errors, the OpenAPI schema, the smoke test; declarative configuration
(compose, k3s, Caddy, Prometheus, Grafana, CI). The services are external.

Parts of modelled components that are left out: labels and buckets of metrics, the
thread-based worker class, JWKS entries that are no RSA keys, the delays between attempts, the
per-thread flag of `history_signal_suppressed()` (the signal handlers that read it are in the
services), transactions that snapshot several owners, the helpers of `access.py` that only
services use.

What is left to prove, most important first:

1. That a run which stops leaves what the next one repairs, or something that is `Broken`:
   the safety half of `Settles`.
2. Bounds on the steps of the other programs, as for the authentication and the scripts that
   bring a platform up: a call of `snapshot_history()`, a run of a seed script, a session.
3. `SCD2Timeline` for racing writers, with the open rows as a set.

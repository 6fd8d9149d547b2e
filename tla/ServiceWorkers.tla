--------------------------- MODULE ServiceWorkers ---------------------------
(***************************************************************************)
(* One Django service of the platform under gunicorn with                  *)
(* deploy/gunicorn.conf.py: a master and its sync worker processes, each   *)
(* with a metrics registry and a cached static key of its own, and the     *)
(* directory PROMETHEUS_MULTIPROC_DIR in which every process keeps its     *)
(* metric files, named by its pid.  Workers die at any point and their     *)
(* pids are used again; the master dies and boots again over the old       *)
(* directory.  gunicorn, prometheus_client and the service's own request   *)
(* are external.                                                           *)
(*                                                                         *)
(* The request modelled is one that authenticates with the static key and  *)
(* updates a metric of each aggregation: a gauge "livesum" (requests in    *)
(* progress), a counter (requests) and a gauge "max" (when the last one    *)
(* was done).                                                              *)
(***************************************************************************)
EXTENDS Integers, MetricsRegistry, StaticKeyConf

CONSTANTS
    Pids,       \* process ids of workers
    Workers,    \* GUNICORN_WORKERS
    Releases,   \* sets of metric declarations: the code a boot may run
    Confs,      \* configurations of the static key
    Keys,       \* contents of the key file
    MaxRequests, \* bound on the requests accepted
    MaxDeaths,  \* bound on the deaths of workers
    MaxBoots,   \* bound on the boots of the master
    MaxKeyFiles \* bound on the times the key file is written or removed

ASSUME ConstantsAssumption ==
    /\ IsFiniteSet(Pids) /\ Workers \in 1..Cardinality(Pids)
    /\ {MaxRequests, MaxDeaths, MaxBoots, MaxKeyFiles} \subseteq Nat
    /\ Keys \cap {None, Blank} = {}
    /\ \A c \in Confs : Setting(c, "PUBLIC_KEY") \in Keys \cup {None, Blank}

\* The naming convention of observability.py: the names of counters, and only those, end
\* in "_total".
ASSUME NamingAssumption ==
    \A declared \in Releases : \A d \in declared :
        (d.kind = "counter") <=> (Last(d.name) = "total")

VARIABLES
    master,    \* "down", "up", or "halted": a worker failed to boot
    release, conf,  \* what the master was booted with
    proc,      \* per pid: what the process is at
    handles,   \* per pid: the collector each declaration got
    key,       \* per pid: the process' cached static key
    keyFile,   \* the content of the key file
    counter, inprog, lastrun,  \* per pid: the value in its metric files, 0 when there is none
    scrape,    \* the scrape under way
    asked, deaths, boots, written,  \* counts against the bounds
    events, latest,            \* history: requests counted since boot, the last one's time
    carried, ghosts,           \* history: what stale files held, and whose could not be dropped
    seen                       \* history, per pid: contents of the key file in its life

workerVars == <<proc, handles, key>>
fileVars == <<counter, inprog, lastrun>>
countVars == <<asked, deaths, boots, written>>
historyVars == <<events, latest, carried, ghosts, seen>>
vars == <<master, release, conf, keyFile, workerVars, fileVars, scrape, countVars, historyVars>>

Unread == "unread"
NoScrape == [by |-> {}, left |-> {}, sum |-> 0, floor |-> 0]

Alive(p) == proc[p] \notin {"free", "zombie"}
\* The directory's values aggregated over its files, as a scrape does.
Total(file) == SumFunction(file)
Newest(file) == Max(Range(file))

\* Every process of the service is gone; its files stay.
AllStop ==
    /\ proc' = [p \in Pids |-> "free"]
    /\ handles' = [p \in Pids |-> <<>>]
    /\ key' = [p \in Pids |-> Unread]
    /\ seen' = [p \in Pids |-> {}]
    /\ scrape' = NoScrape

Init ==
    /\ master = "down"
    /\ release \in Releases /\ conf \in Confs
    /\ keyFile \in Keys \cup {None}
    /\ proc = [p \in Pids |-> "free"]
    /\ handles = [p \in Pids |-> <<>>]
    /\ key = [p \in Pids |-> Unread]
    /\ seen = [p \in Pids |-> {}]
    /\ counter = [p \in Pids |-> 0]
    /\ inprog = [p \in Pids |-> 0]
    /\ lastrun = [p \in Pids |-> 0]
    /\ scrape = NoScrape
    /\ asked = 0 /\ deaths = 0 /\ boots = 0 /\ written = 0
    /\ events = 0 /\ latest = 0 /\ carried = 0 /\ ghosts = {}
-----------------------------------------------------------------------------
(* gunicorn's master, and the hooks of gunicorn.conf.py *)

\* on_starting: the directory is emptied; rmtree() ignores errors, so that some of its
\* files may stay.
ResetMultiprocDir(kept) ==
    LET left(file) == [p \in Pids |-> IF p \in kept THEN file[p] ELSE 0]
    IN  /\ counter' = left(counter) /\ inprog' = left(inprog) /\ lastrun' = left(lastrun)
        /\ events' = 0
        /\ carried' = Total(left(counter)) /\ latest' = Newest(left(lastrun))
        /\ ghosts' = {p \in kept : inprog[p] > 0}

\* The master of a stopped or halted service starts, on what is deployed by now.
Boot(kept) ==
    /\ master # "up" /\ boots < MaxBoots
    /\ master' = "up" /\ boots' = boots + 1
    /\ release' \in Releases /\ conf' \in Confs
    /\ ResetMultiprocDir(kept)
    /\ UNCHANGED <<workerVars, seen, keyFile, scrape, asked, deaths, written>>

\* A worker is forked for a free slot, with a pid no process has.
Fork(p) ==
    /\ master = "up" /\ proc[p] = "free"
    /\ Cardinality({q \in Pids : proc[q] # "free"}) < Workers
    /\ proc' = [proc EXCEPT ![p] = "importing"]
    /\ seen' = [seen EXCEPT ![p] = {keyFile}]
    /\ UNCHANGED <<master, release, conf, keyFile, handles, key, fileVars, scrape, countVars,
                   events, latest, carried, ghosts>>

\* Faulty variant: all metric files of the dead worker go, as the docstring has it.
BugReapRemovesAll(p, dropped) ==
    /\ master = "up" /\ proc[p] = "zombie"
    /\ proc' = [proc EXCEPT ![p] = "free"]
    /\ counter' = [counter EXCEPT ![p] = 0]
    /\ inprog' = [inprog EXCEPT ![p] = 0]
    /\ lastrun' = [lastrun EXCEPT ![p] = 0]
    /\ ghosts' = ghosts \ {p}
    /\ UNCHANGED <<master, release, conf, keyFile, handles, key, scrape,
                   countVars, events, latest, carried, seen>>

\* Faulty variant: the hook does nothing.
BugReapKeepsAll(p, dropped) ==
    /\ master = "up" /\ proc[p] = "zombie"
    /\ proc' = [proc EXCEPT ![p] = "free"]
    /\ UNCHANGED <<master, release, conf, keyFile, handles, key, fileVars, scrape,
                   countVars, historyVars>>

\* child_exit: mark_process_dead() drops the live gauges of the dead worker and keeps its
\* counters; a failure is swallowed, and the file stays.
Reap(p, dropped) ==
    /\ master = "up" /\ proc[p] = "zombie"
    /\ proc' = [proc EXCEPT ![p] = "free"]
    /\ inprog' = [inprog EXCEPT ![p] = IF dropped THEN 0 ELSE @]
    /\ ghosts' = IF dropped \/ inprog[p] = 0 THEN ghosts \ {p} ELSE ghosts \cup {p}
    /\ UNCHANGED <<master, release, conf, keyFile, handles, key, counter, lastrun, scrape,
                   countVars, events, latest, carried, seen>>
-----------------------------------------------------------------------------
(* A worker *)

\* It imports the service's modules, in any order and any of them again: each declares.
Import(p, d) ==
    /\ proc[p] = "importing" /\ d \in release
    /\ \E c \in GetMetric(Range(handles[p]), d) :
           handles' = [handles EXCEPT ![p] = [e \in DOMAIN @ \cup {d} |->
                                                 IF e = d THEN c ELSE @[e]]]
    /\ UNCHANGED <<master, release, conf, keyFile, proc, key, fileVars, scrape, countVars,
                   historyVars>>

\* An import that raises ends the worker, and "Worker failed to boot" the master and its
\* other workers.
ImportRaises(p, d) ==
    /\ proc[p] = "importing" /\ d \in release
    /\ GetMetric(Range(handles[p]), d) = {}
    /\ master' = "halted"
    /\ AllStop
    /\ UNCHANGED <<release, conf, keyFile, fileVars, countVars, events, latest, carried, ghosts>>

Imported(p) ==
    /\ proc[p] = "importing" /\ DOMAIN handles[p] = release
    /\ proc' = [proc EXCEPT ![p] = "serving"]
    /\ UNCHANGED <<master, release, conf, keyFile, handles, key, fileVars, scrape, countVars,
                   historyVars>>

\* Faulty variant: the cache outlives the process, the workers share it.
BugKeyShared(p) ==
    IF \E q \in Pids : key[q] # Unread THEN CHOOSE k \in Range(key) : k # Unread
    ELSE ResolvePublicKey(conf, keyFile)

\* The static key as the process knows it: read once.
CachedKey(p) == IF key[p] = Unread THEN ResolvePublicKey(conf, keyFile) ELSE key[p]

\* A request with a token signed by the private key of k is accepted ...
Accept(p, k) ==
    /\ proc[p] = "serving" /\ asked < MaxRequests
    /\ asked' = asked + 1
    /\ CachedKey(p) = k
    /\ key' = [key EXCEPT ![p] = CachedKey(p)]
    /\ proc' = [proc EXCEPT ![p] = "accepted"]
    /\ inprog' = [inprog EXCEPT ![p] = @ + 1]
    /\ UNCHANGED <<master, release, conf, keyFile, handles, counter, lastrun, scrape,
                   deaths, boots, written, historyVars>>

\* ... or rejected.
Reject(p, k) ==
    /\ proc[p] = "serving"
    /\ CachedKey(p) # k
    /\ key' = [key EXCEPT ![p] = CachedKey(p)]
    /\ UNCHANGED <<master, release, conf, keyFile, proc, handles, fileVars, scrape, countVars,
                   historyVars>>

CountRequest(p) ==
    /\ proc[p] = "accepted"
    /\ proc' = [proc EXCEPT ![p] = "counted"]
    /\ counter' = [counter EXCEPT ![p] = @ + 1]
    /\ events' = events + 1
    /\ UNCHANGED <<master, release, conf, keyFile, handles, key, inprog, lastrun, scrape,
                   countVars, latest, carried, ghosts, seen>>

\* The clock goes on with each request done.
Finish(p) ==
    /\ proc[p] = "counted"
    /\ proc' = [proc EXCEPT ![p] = "serving"]
    /\ inprog' = [inprog EXCEPT ![p] = @ - 1]
    /\ latest' = latest + 1
    /\ lastrun' = [lastrun EXCEPT ![p] = latest + 1]
    /\ UNCHANGED <<master, release, conf, keyFile, handles, key, counter, scrape, countVars,
                   events, carried, ghosts, seen>>

\* GET /metrics: the worker lists the files, then reads one at a time.
ScrapeStarts(p) ==
    /\ proc[p] = "serving" /\ scrape = NoScrape
    /\ proc' = [proc EXCEPT ![p] = "scraping"]
    /\ scrape' = [by |-> {p}, left |-> {q \in Pids : counter[q] > 0}, sum |-> 0,
                  floor |-> events + carried]
    /\ UNCHANGED <<master, release, conf, keyFile, handles, key, fileVars, countVars,
                   historyVars>>

ScrapeReads(q) ==
    /\ q \in scrape.left
    /\ scrape' = [scrape EXCEPT !.left = @ \ {q}, !.sum = @ + counter[q]]
    /\ UNCHANGED <<master, release, conf, keyFile, workerVars, fileVars, countVars, historyVars>>

ScrapeEnds(p) ==
    /\ proc[p] = "scraping" /\ scrape.left = {}
    /\ proc' = [proc EXCEPT ![p] = "serving"]
    /\ scrape' = NoScrape
    /\ UNCHANGED <<master, release, conf, keyFile, handles, key, fileVars, countVars,
                   historyVars>>
-----------------------------------------------------------------------------
(* Faults, and the operator *)

\* A worker crashes, is killed for its timeout or for its memory: what it had in memory
\* is gone, its files stay.
Die(p) ==
    /\ Alive(p) /\ deaths < MaxDeaths
    /\ proc' = [proc EXCEPT ![p] = "zombie"]
    /\ handles' = [handles EXCEPT ![p] = <<>>]
    /\ key' = [key EXCEPT ![p] = Unread]
    /\ seen' = [seen EXCEPT ![p] = {}]
    /\ scrape' = IF p \in scrape.by THEN NoScrape ELSE scrape
    /\ deaths' = deaths + 1
    /\ UNCHANGED <<master, release, conf, keyFile, fileVars, asked, boots, written, events, latest,
                   carried, ghosts>>

\* The container stops, with every process in it.
MasterDies ==
    /\ master = "up"
    /\ master' = "down"
    /\ AllStop
    /\ UNCHANGED <<release, conf, keyFile, fileVars, countVars, events, latest, carried, ghosts>>

\* The key file is written (a key pair generated, rotated, mounted) or removed.
KeyFileChanges ==
    /\ written < MaxKeyFiles
    /\ keyFile' \in (Keys \cup {None}) \ {keyFile}
    /\ written' = written + 1
    /\ seen' = [p \in Pids |-> IF Alive(p) THEN seen[p] \cup {keyFile'} ELSE seen[p]]
    /\ UNCHANGED <<master, release, conf, workerVars, fileVars, scrape, asked, deaths, boots,
                   events, latest, carried, ghosts>>

MasterSteps == (\E kept \in SUBSET Pids : Boot(kept)) \/ MasterDies \/ KeyFileChanges

WorkerSteps(p) ==
    \/ Fork(p) \/ Die(p) \/ \E dropped \in BOOLEAN : Reap(p, dropped)
    \/ \E d \in release : Import(p, d) \/ ImportRaises(p, d)
    \/ Imported(p)
    \/ \E k \in Keys : Accept(p, k) \/ Reject(p, k)
    \/ CountRequest(p) \/ Finish(p)
    \/ ScrapeStarts(p) \/ ScrapeReads(p) \/ ScrapeEnds(p)

Next == MasterSteps \/ \E p \in Pids : WorkerSteps(p)

Spec == Init /\ [][Next]_vars
-----------------------------------------------------------------------------
(* Properties *)

\* The collector a declaration means.
Meant(d) == Construct(d.kind, FullName(d.name))

\* What a process may hold: for some of the declarations, a collector each.
Holdings == UNION {[D -> {Meant(d) : d \in release}] : D \in SUBSET release}

Phases == {"free", "importing", "serving", "accepted", "counted", "scraping", "zombie"}

\* Types: the phases of the processes, what they hold, and no negative count in any file.
TypeOK ==
    /\ master \in {"down", "up", "halted"}
    /\ release \in Releases /\ conf \in Confs
    /\ keyFile \in Keys \cup {None}
    /\ proc \in [Pids -> Phases]
    /\ handles \in [Pids -> Holdings]
    /\ key \in [Pids -> Keys \cup {None, Unread}]
    /\ seen \in [Pids -> SUBSET (Keys \cup {None})]
    /\ {counter, inprog, lastrun} \subseteq [Pids -> Nat]
    /\ scrape \in [by : SUBSET Pids, left : SUBSET Pids, sum : Nat, floor : Nat]
    /\ {events, latest, carried} \subseteq Nat
    /\ ghosts \subseteq Pids

\* "A single event is counted correctly" (REALITY_MAP.md:45): over the deaths of workers and
\* the reuse of their pids, the counters of the directory add up to the requests counted
\* since the boot and what files on_starting could not remove had carried over, and the
\* "max" gauge is the time of the last request done, whichever process did it.
AggregatesExact ==
    /\ Total(counter) = events + carried
    /\ Newest(lastrun) = latest

\* A scrape reads the files one by one while workers count and die: it shows no fewer
\* requests than were counted when it started, and no more than by its end; so the counters
\* Prometheus sees never fall within a master's life.
ScrapeBracketed ==
    scrape # NoScrape /\ scrape.left = {} =>
        scrape.floor <= scrape.sum /\ scrape.sum <= events + carried

\* "Aggregation only reflects live processes" (gunicorn.conf.py:46): a "livesum" file shows
\* the requests in progress in its own process, and none once that is reaped, unless the
\* file of a dead process of that pid could not be dropped.
NoGhosts ==
    master = "up" => \A p \in Pids \ ghosts :
        inprog[p] <= IF proc[p] \in {"accepted", "counted", "zombie"} THEN 1 ELSE 0

\* Services "can define their metrics at import time without guarding against reloads"
\* (observability.py:6): whatever the order and the repetitions of the imports, each
\* declaration gets hold of the collector it means, and a service fails to boot only if it
\* declares two metrics whose names clash.  That takes names that end in a unit, as the
\* naming convention asks (observability.py:9-10): a gauge jobs_created that was declared
\* first would be handed to who asks for the gauge jobs (_existing(), lines 39-42).
OwnMetric ==
    /\ \A p \in Pids : \A d \in DOMAIN handles[p] : handles[p][d] = Meant(d)
    /\ master = "halted" =>
        \E d1, d2 \in release : Meant(d1) # Meant(d2) /\ Clash(Meant(d1), Meant(d2))

\* The static key a worker remembers (lru_cache, conf.py:33) is one its configuration gave
\* at some moment of the worker's own life: restarting the workers heals a missing or an
\* outdated key, whatever the workers before them had remembered.
KeyReadInLife ==
    \A p \in Pids :
        key[p] = Unread \/ \E file \in seen[p] : key[p] = ResolvePublicKey(conf, file)
=============================================================================

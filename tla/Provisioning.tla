---------------------------- MODULE Provisioning ----------------------------
(***************************************************************************)
(* Bringing a platform up, again and again: runs of bootstrap.sh or of     *)
(* deploy.sh on one host, with failures and crashes anywhere, containers   *)
(* that start slowly or die, and an operator who resets, takes down, and   *)
(* removes key files and .env between the runs.                            *)
(***************************************************************************)
EXTENDS Bootstrap, Deploy

ScriptRuns == Generator \/ Up \/ UpFails \/ BootstrapRuns \/ DeployRuns
Starts == BootstrapStarts \/ BeginDeploy
Operator == RemoveKeys \/ RemoveEnv \/ BootstrapCommands
Disturbance == Stop \/ Operator \/ \E s \in Services : Dies(s)

Next == \/ Starts \/ ScriptRuns \/ Exit
        \/ Disturbance
        \/ \E s \in Services : Answers(s)

Spec == Init /\ [][Next]_vars

\* The two waits without a deadline: the poll of a service that has the connection and
\* does not answer (curl has no --max-time, bootstrap.sh:107), and deploy.sh:75.
HeldUp == run.pc = "pg" \/ (Polling /\ box[Awaited].state = "starting")

\* A script that is not held up goes on, and the scripts are run again and again.
\* Nothing is assumed of the containers and of postgres: they may never answer.
FairSpec == /\ Spec
            /\ WF_vars(ScriptRuns /\ ~HeldUp) /\ WF_vars(Exit) /\ WF_vars(Starts)

-----------------------------------------------------------------------------
Contents == {Torn, Missing} \cup Nat

Sections == {"idle", "keys", "gen", "genkey", "pubout", "pubkey", "env", "fill", "up", "wait",
             "poll", "ensure", "pg", "migrate", "seed", "fallback", "ready", "failed",
             "stopped"}

Runs == [script : Scripts, pc : Sections, mode : Modes, at : Nat, budget : 0..Patience,
         up : SUBSET Services, bad : BOOLEAN]

TypeOK ==
    /\ {priv, pub, dotEnv, volume, upEnv} \subseteq Contents
    /\ volume # Torn /\ upEnv # Torn
    /\ seeded \subseteq Services
    /\ box \in [Services -> [state : {"off", "starting", "healthy"}, key : Contents]]
    /\ run \in Runs
    /\ {lostPair, swapped, lostPassword} \subseteq BOOLEAN

\* "existing keys and .env are NEVER overwritten" (bootstrap.sh:14): no step of a run
\* changes a private key or an .env that some earlier run or the operator left whole;
\* a public key only if its private key is missing, which the generator does not look at.
NothingOverwritten ==
    [][run.pc # "idle" =>
         /\ Whole(priv) => priv' = priv
         /\ Whole(dotEnv) => dotEnv' = dotEnv
         /\ Whole(pub) /\ pub' # pub => run.pc = "pubout"]_vars

Alive(s) == box[s].state # "off"

\* A run that ends with "ready" leaves a platform whose services verify what auth signs
\* and whose database takes the password, whatever stopped earlier runs (bootstrap.sh:60,
\* 70); the exceptions are a pair that was torn, key files or an .env removed by hand, and
\* a truncated key file.
ReadyMeansConsistent ==
    run.pc = "ready" =>
        /\ \A s \in Verifiers : Alive(Auth) /\ Alive(s) =>
              box[s].key = box[Auth].key \/ lostPair \/ swapped \/ Torn \in {priv, pub}
        /\ IsBootstrap => volume = dotEnv \/ lostPassword

\* "Done" of deploy.sh: every service that still runs holds the demo data, or
\* seed_demo.sh failed and auth alone is sure to (deploy.sh:83, seed_demo.sh:20-52).
DeployedMeansSeeded ==
    run.script = "deploy" /\ run.pc = "ready" =>
        \A s \in Services : Alive(s) => s \in seeded \/ (run.bad /\ s # Auth)

\* Every run ends, whatever fails or dies, but for a run that one of the two waits holds
\* up for ever.  The "5 minutes" of DEADLINE (bootstrap.sh:102) bound the wait for a
\* service that refuses or is gone: DEADLINE is looked at only when curl has returned.
RunsEnd == (run.pc # "idle" ~> run.pc = "idle") \/ <>[]HeldUp

\* What no later run repairs: a private key without its public key, a torn file,
\* containers with keys that do not match, and a volume with another password.
Broken ==
    \/ priv # Missing /\ pub = Missing
    \/ Torn \in {priv, pub, dotEnv}
    \/ \E s \in Verifiers : Alive(s) /\ Alive(Auth) /\ box[s].key # box[Auth].key
    \/ IsBootstrap /\ volume \notin {Missing, dotEnv}

\* What the scripts wait for comes: containers answer or are gone, postgres is ready.
Answering == /\ \A s \in Services : []<>(IsBootstrap => box[s].state # "starting")
             /\ []<>(run.pc # "pg")

\* "Idempotent: safe to re-run" (deploy.sh:17, bootstrap.sh:14-16): when nothing disturbs
\* the host any more, and what the scripts wait for comes, running the script again and
\* again ends with "ready" again and again, unless an earlier disturbance left what no
\* run repairs.
Settles ==
    <>[][~Disturbance]_vars /\ Answering => (<>[]Broken \/ []<>(run.pc = "ready"))
=============================================================================

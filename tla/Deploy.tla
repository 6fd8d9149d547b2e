------------------------------- MODULE Deploy -------------------------------
(* deploy/prod/deploy.sh and scripts/seed_demo.sh, which it calls last.     *)
EXTENDS StackHost, Sequences

CONSTANT SeedOrder  \* the services, in the order they are migrated and seeded in

\* Both loops name every service (deploy.sh:78, seed_demo.sh:6).
ASSUME SeedOrderAssumption ==
    /\ SeedOrder \in Seq(Services)
    /\ Services = {SeedOrder[i] : i \in DOMAIN SeedOrder}

BeginDeploy ==
    /\ run.script = "deploy" /\ run.pc = "idle"
    /\ Goto("ensure")
    /\ UNCHANGED <<fileVars, stackVars, faultVars>>

\* [ -f keys/jwt_private.pem ] || generate_rsa_keys.sh
EnsureKeys ==
    /\ run.pc = "ensure"
    /\ Goto(IF priv # Missing THEN "up" ELSE "gen")
    /\ UNCHANGED <<fileVars, stackVars, faultVars>>

\* until pg_isready: there is no deadline, and this step need never happen.
PostgresReady ==
    /\ run.pc = "pg"
    /\ run' = [run EXCEPT !.pc = "migrate", !.at = 1]
    /\ UNCHANGED <<fileVars, stackVars, faultVars>>

InOrder(section) == run.pc = section /\ run.at <= Len(SeedOrder)
Over(section) == run.pc = section /\ run.at > Len(SeedOrder)
Turn == SeedOrder[run.at]

\* compose exec fails for a container that is not running, and set -e ends the run.
Migrate ==
    /\ InOrder("migrate")
    /\ run' = IF box[Turn].state = "off" THEN [run EXCEPT !.pc = "failed"]
              ELSE [run EXCEPT !.at = @ + 1]
    /\ UNCHANGED <<fileVars, stackVars, faultVars>>

\* seed_demo.sh looks once which containers run.  It calls compose without the
\* --env-file of deploy.sh, and compose refuses without a whole .env.
SeedScript ==
    /\ Over("migrate")
    /\ run' = IF Whole(dotEnv)
              THEN [run EXCEPT !.pc = "seed", !.at = 1,
                               !.up = {s \in Services : box[s].state # "off"}]
              ELSE [run EXCEPT !.pc = "fallback"]
    /\ UNCHANGED <<fileVars, stackVars, faultVars>>

\* A service that was not running then is skipped.
SeedSkips ==
    /\ InOrder("seed")
    /\ Turn \notin run.up
    /\ run' = [run EXCEPT !.at = @ + 1]
    /\ UNCHANGED <<fileVars, stackVars, faultVars>>

\* The others are migrated and seeded; a failure is noted, and the loop goes on.
SeedOne ==
    /\ InOrder("seed")
    /\ Turn \in run.up
    /\ box[Turn].state # "off"
    /\ seeded' = seeded \cup {Turn}
    /\ run' = [run EXCEPT !.at = @ + 1]
    /\ UNCHANGED <<fileVars, volume, box, upEnv, faultVars>>

SeedFails ==
    /\ InOrder("seed")
    /\ Turn \in run.up
    /\ run' = [run EXCEPT !.at = @ + 1, !.bad = TRUE]
    /\ UNCHANGED <<fileVars, stackVars, faultVars>>

\* Faulty variant: the exit status of seed_demo.sh is that of its last command.
BugSeedAlwaysOver ==
    /\ Over("seed")
    /\ Goto("ready")
    /\ UNCHANGED <<fileVars, stackVars, faultVars>>

\* seed_demo.sh || exec auth seed_demo
SeedOver ==
    /\ Over("seed")
    /\ Goto(IF run.bad THEN "fallback" ELSE "ready")
    /\ UNCHANGED <<fileVars, stackVars, faultVars>>

Fallback ==
    /\ run.pc = "fallback"
    /\ run' = IF box[Auth].state = "off" THEN [run EXCEPT !.pc = "failed"]
              ELSE [run EXCEPT !.pc = "ready", !.bad = TRUE]
    /\ seeded' = IF box[Auth].state = "off" THEN seeded ELSE seeded \cup {Auth}
    /\ UNCHANGED <<fileVars, volume, box, upEnv, faultVars>>

DeployRuns == \/ EnsureKeys \/ PostgresReady \/ Migrate \/ SeedScript
              \/ SeedSkips \/ SeedOne \/ SeedFails \/ SeedOver \/ Fallback
=============================================================================

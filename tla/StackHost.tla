----------------------------- MODULE StackHost -----------------------------
(***************************************************************************)
(* The host a platform is brought up on: the key files in keys/, the .env  *)
(* file, the database volume and the containers, and what bootstrap.sh and *)
(* deploy.sh both do to them: scripts/generate_rsa_keys.sh and docker      *)
(* compose up.  Docker is external.                                        *)
(*                                                                         *)
(* A file is Missing, Torn (it exists but was never completely written) or *)
(* whole, and then a number names its content: the public key n belongs to *)
(* the private key n, and the password n to the database initialised with  *)
(* it.                                                                     *)
(***************************************************************************)
EXTENDS Integers, FiniteSets

CONSTANTS
    Auth,       \* the auth service, which signs with the private key
    Verifiers,  \* the services given the public key
    Others,     \* the services given no key file, optional for bootstrap.sh
    Scripts,    \* what is run on a host: "bootstrap", "deploy"
    MaxRemovals \* bound on the files the operator removes

Services == {Auth} \cup Verifiers \cup Others

ASSUME ServicesAssumption ==
    /\ Auth \notin Verifiers \cup Others
    /\ Verifiers \cap Others = {}
    /\ IsFiniteSet(Services)
    /\ Scripts \subseteq {"bootstrap", "deploy"}
    /\ MaxRemovals \in Nat

VARIABLES
    priv, pub,      \* keys/jwt_private.pem, keys/jwt_public.pem
    dotEnv,         \* .env
    volume,         \* the password the volume pgdata was initialised with, or Missing
    seeded,         \* the services whose database holds the demo data of seed_demo.sh
    box,            \* the container of each service, and the key it loaded
    upEnv,          \* the password the containers were last started with
    run,            \* the run of the script
    lostPair,       \* a generation stopped between the two files of a pair
    removals,       \* how often the operator has removed files
    swapped,        \* key files were removed under containers that had loaded them
    lostPassword    \* .env was removed while the volume was kept

fileVars == <<priv, pub, dotEnv>>
stackVars == <<volume, seeded, box, upEnv>>
faultVars == <<lostPair, swapped, lostPassword, removals>>  \* history
vars == <<fileVars, stackVars, run, faultVars>>

Missing == 0
Torn == -1
Whole(file) == file > 0

\* A number that is not in use.
Fresh(used) == CHOOSE n \in 1..(Cardinality(used) + 1) : n \notin used

\* pc: the section the script is at.  mode: the option --seed.  at: the position in a
\* list of services.  budget: how many more polls DEADLINE leaves.  up: the containers
\* seed_demo.sh found running.  bad: it could not seed some of them, or did not run.
Idle(script) == [script |-> script, pc |-> "idle", mode |-> "none", at |-> 1,
                 budget |-> 0, up |-> {}, bad |-> FALSE]

Off == [state |-> "off", key |-> Missing]

\* deploy.sh gets its secrets from deploy/prod/.env.prod, which the operator has written.
ProdEnv == 1
Env == IF run.script = "deploy" THEN ProdEnv ELSE dotEnv

\* A clone of the repository, perhaps with the public key in it; perhaps with an .env.
Init ==
    /\ priv = Missing
    /\ pub \in {Missing, 1}
    /\ dotEnv \in {Missing, 1}
    /\ volume = Missing
    /\ seeded = {}
    /\ box = [s \in Services |-> Off]
    /\ upEnv = Missing
    /\ \E script \in Scripts : run = Idle(script)
    /\ lostPair = FALSE /\ swapped = FALSE /\ lostPassword = FALSE
    /\ removals = 0

Goto(pc) == run' = [run EXCEPT !.pc = pc]

-----------------------------------------------------------------------------
(* generate_rsa_keys.sh.                                                   *)

\* Faulty variant: the generator refuses whenever one of the two files is there.
BugGenRefusesAny ==
    /\ run.pc = "gen"
    /\ priv # Missing \/ pub # Missing
    /\ Goto("failed")
    /\ UNCHANGED <<fileVars, stackVars, faultVars>>

\* It refuses to overwrite a private key.
GenRefuses ==
    /\ run.pc = "gen"
    /\ priv # Missing
    /\ Goto("failed")
    /\ UNCHANGED <<fileVars, stackVars, faultVars>>

\* Faulty variant: the check for a private key is gone.
BugGenOverwrites ==
    /\ run.pc = "gen"
    /\ priv' = Torn
    /\ Goto("genkey")
    /\ UNCHANGED <<pub, dotEnv, stackVars, faultVars>>

\* openssl genpkey: opens the file, then writes the key.
GenOpensPrivate ==
    /\ run.pc = "gen"
    /\ priv = Missing
    /\ priv' = Torn
    /\ Goto("genkey")
    /\ UNCHANGED <<pub, dotEnv, stackVars, faultVars>>

GenWritesPrivate ==
    /\ run.pc = "genkey"
    /\ priv' = Fresh({pub} \cup {box[s].key : s \in Services})
    /\ Goto("pubout")
    /\ UNCHANGED <<pub, dotEnv, stackVars, faultVars>>

AfterKeys == IF run.script = "bootstrap" THEN "env" ELSE "up"

\* openssl pkey -pubout: opens the file, over a public key that is there ...
GenOpensPublic ==
    /\ run.pc = "pubout"
    /\ pub' = Torn
    /\ Goto("pubkey")
    /\ UNCHANGED <<priv, dotEnv, stackVars, faultVars>>

\* ... and writes the public key of the private one.
GenWritesPublic ==
    /\ run.pc = "pubkey"
    /\ pub' = priv
    /\ Goto(AfterKeys)
    /\ UNCHANGED <<priv, dotEnv, stackVars, faultVars>>

Generator == GenRefuses \/ GenOpensPrivate \/ GenWritesPrivate
             \/ GenOpensPublic \/ GenWritesPublic

-----------------------------------------------------------------------------
(* docker compose (external): what the two scripts rely on.                *)

\* compose refuses a required variable that is missing or empty, and a secret without
\* its file.
CanUp == Whole(Env) /\ priv # Missing /\ pub # Missing

KeyFile(s) == IF s = Auth THEN priv ELSE IF s \in Verifiers THEN pub ELSE Missing

\* A container that runs with the present environment is left alone.
Kept(s) == box[s].state # "off" /\ upEnv = Env

Up ==
    /\ run.pc = "up"
    /\ CanUp
    /\ box' = [s \in Services |->
                 IF Kept(s) THEN box[s] ELSE [state |-> "starting", key |-> KeyFile(s)]]
    /\ upEnv' = Env
    /\ volume' = IF volume = Missing THEN Env ELSE volume
    /\ run' = [run EXCEPT !.pc = IF run.script = "bootstrap" THEN "wait" ELSE "pg",
                          !.at = 1]
    /\ swapped' = (swapped /\ \E s \in Services : Kept(s))
    /\ UNCHANGED <<fileVars, seeded, lostPair, lostPassword, removals>>

UpFails ==
    /\ run.pc = "up"
    /\ ~CanUp
    /\ Goto("failed")
    /\ UNCHANGED <<fileVars, stackVars, faultVars>>

\* A container starts to answer its health check, which only bootstrap.sh looks at; a
\* container dies, and no restart policy brings it back.
Answers(s) ==
    /\ run.script = "bootstrap"
    /\ box[s].state = "starting"
    /\ box' = [box EXCEPT ![s].state = "healthy"]
    /\ UNCHANGED <<fileVars, volume, seeded, upEnv, run, faultVars>>

Dies(s) ==
    /\ box[s].state # "off"
    /\ box' = [box EXCEPT ![s] = Off]
    /\ UNCHANGED <<fileVars, volume, seeded, upEnv, run, faultVars>>

-----------------------------------------------------------------------------
(* The operator, between two runs, and what may end a run anywhere.        *)

RemoveKeys ==
    /\ run.pc = "idle"
    /\ removals < MaxRemovals
    /\ removals' = removals + 1
    /\ \E files \in {{"priv"}, {"pub"}, {"priv", "pub"}} :
         /\ "priv" \in files => priv # Missing
         /\ "pub" \in files => pub # Missing
         /\ priv' = IF "priv" \in files THEN Missing ELSE priv
         /\ pub' = IF "pub" \in files THEN Missing ELSE pub
    /\ lostPair' = FALSE
    /\ swapped' = (swapped \/ \E s \in {Auth} \cup Verifiers : box[s].state # "off")
    /\ UNCHANGED <<dotEnv, stackVars, run, lostPassword>>

RemoveEnv ==
    /\ run.pc = "idle"
    /\ removals < MaxRemovals
    /\ removals' = removals + 1
    /\ dotEnv # Missing
    /\ dotEnv' = Missing
    /\ lostPassword' = (volume # Missing)
    /\ UNCHANGED <<priv, pub, stackVars, run, lostPair, swapped>>

\* Ctrl-C, a crash of the host, or a command that fails where the script does not
\* expect it (set -e): the files stay as they are.
Running == run.pc \notin {"idle", "ready", "failed", "stopped"}

Stop ==
    /\ Running
    /\ Goto("stopped")
    /\ lostPair' = (lostPair \/ (run.pc = "pubout" /\ Whole(pub)))
    /\ UNCHANGED <<fileVars, stackVars, swapped, lostPassword, removals>>

Exit ==
    /\ run.pc \in {"ready", "failed", "stopped"}
    /\ run' = Idle(run.script)
    /\ UNCHANGED <<fileVars, stackVars, faultVars>>
=============================================================================

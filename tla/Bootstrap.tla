----------------------------- MODULE Bootstrap -----------------------------
(* bootstrap.sh: keys, .env, compose up, the wait for the services, seeds.  *)
EXTENDS StackHost, Sequences

CONSTANTS
    WaitOrder,  \* the services wait_one is called for, the optional ones last
    Patience    \* the polls that fit into the 5 minutes of DEADLINE

ASSUME WaitAssumption ==
    /\ WaitOrder \in Seq(Services)
    /\ Patience \in Nat

\* The modes of --seed: no data, or the seed scripts (small, full or both of them).
Modes == {"none", "seeded"}

IsBootstrap == run.script = "bootstrap"

BeginBootstrap(mode) ==
    /\ IsBootstrap /\ run.pc = "idle"
    /\ run' = [run EXCEPT !.pc = "keys", !.mode = mode]
    /\ UNCHANGED <<fileVars, stackVars, faultVars>>

\* --reset: down -v, then a full run.  compose reads .env first, and refuses without.
ResetBootstrap(mode) ==
    /\ IsBootstrap /\ run.pc = "idle"
    /\ Whole(dotEnv)
    /\ run' = [run EXCEPT !.pc = "keys", !.mode = mode]
    /\ box' = [s \in Services |-> Off]
    /\ volume' = Missing /\ upEnv' = Missing
    /\ seeded' = {}
    /\ swapped' = FALSE /\ lostPassword' = FALSE
    /\ UNCHANGED <<fileVars, lostPair, removals>>

ResetFails ==
    /\ IsBootstrap /\ run.pc = "idle"
    /\ ~Whole(dotEnv)
    /\ Goto("failed")
    /\ UNCHANGED <<fileVars, stackVars, faultVars>>

\* --down: the containers go, the volume stays.
Down ==
    /\ IsBootstrap /\ run.pc = "idle"
    /\ Whole(dotEnv)
    /\ box' = [s \in Services |-> Off]
    /\ upEnv' = Missing
    /\ swapped' = FALSE
    /\ UNCHANGED <<fileVars, volume, seeded, run, lostPair, lostPassword, removals>>

\* [1/5] Both key files are there, or the generator is called.
KeysKept ==
    /\ IsBootstrap /\ run.pc = "keys"
    /\ priv # Missing /\ pub # Missing
    /\ Goto("env")
    /\ UNCHANGED <<fileVars, stackVars, faultVars>>

KeysMissing ==
    /\ IsBootstrap /\ run.pc = "keys"
    /\ priv = Missing \/ pub = Missing
    /\ Goto("gen")
    /\ UNCHANGED <<fileVars, stackVars, faultVars>>

\* [2/5] An .env that is there is kept ...
EnvKept ==
    /\ run.pc = "env"
    /\ dotEnv # Missing
    /\ Goto("up")
    /\ UNCHANGED <<fileVars, stackVars, faultVars>>

\* Faulty variant: .env is written anew by every run.
BugEnvRewritten ==
    /\ run.pc = "env"
    /\ dotEnv' = Torn
    /\ Goto("fill")
    /\ UNCHANGED <<priv, pub, stackVars, faultVars>>

\* ... otherwise the redirection creates the file, empty, before the secrets of the
\* here-document are generated.
EnvOpens ==
    /\ run.pc = "env"
    /\ dotEnv = Missing
    /\ dotEnv' = Torn
    /\ Goto("fill")
    /\ UNCHANGED <<priv, pub, stackVars, faultVars>>

\* A failure of gen_secret.sh inside the here-document is no failure of the command:
\* the value stays empty.
EnvFills ==
    /\ run.pc = "fill"
    /\ dotEnv' \in {Torn, Fresh({volume, upEnv})}
    /\ Goto("up")
    /\ UNCHANGED <<priv, pub, stackVars, faultVars>>

\* [4/5] The services are waited for one after the other, all under one DEADLINE,
\* which is fixed when the wait starts.
WaitStarts ==
    /\ run.pc = "wait"
    /\ run' = [run EXCEPT !.pc = "poll", !.budget = Patience]
    /\ UNCHANGED <<fileVars, stackVars, faultVars>>

Awaited == WaitOrder[run.at]
Polling == run.pc = "poll" /\ run.at <= Len(WaitOrder)

ServiceUp ==
    /\ Polling
    /\ box[Awaited].state = "healthy"
    /\ run' = [run EXCEPT !.at = @ + 1]
    /\ UNCHANGED <<fileVars, stackVars, faultVars>>

\* A poll that returns without success, before DEADLINE.  One of a service that takes the
\* connection need not return: see HeldUp in Provisioning.
PollAgain ==
    /\ Polling
    /\ box[Awaited].state # "healthy"
    /\ run.budget > 0
    /\ run' = [run EXCEPT !.budget = @ - 1]
    /\ UNCHANGED <<fileVars, stackVars, faultVars>>

\* Faulty variant: only a required service is given up.
BugOptionalHoldsUp ==
    /\ Polling
    /\ box[Awaited].state # "healthy"
    /\ run.budget = 0
    /\ Awaited \notin Others
    /\ Goto("failed")
    /\ UNCHANGED <<fileVars, stackVars, faultVars>>

\* A required service that is given up fails the run; an optional one is passed over.
WaitOver ==
    /\ Polling
    /\ box[Awaited].state # "healthy"
    /\ run.budget = 0
    /\ run' = IF Awaited \in Others THEN [run EXCEPT !.at = @ + 1]
              ELSE [run EXCEPT !.pc = "failed"]
    /\ UNCHANGED <<fileVars, stackVars, faultVars>>

\* [5/5] The seed scripts log in, and call every service with the token: that works if
\* auth and the services hold one key pair and the database takes the password.
KeysAgree == Whole(box[Auth].key) /\ \A s \in Verifiers : box[s].key = box[Auth].key
SeedWorks == /\ \A s \in {Auth} \cup Verifiers : box[s].state = "healthy"
             /\ KeysAgree /\ volume = upEnv

Seeds ==
    /\ run.pc = "poll" /\ run.at > Len(WaitOrder)
    /\ Goto(IF run.mode = "none" \/ SeedWorks THEN "ready" ELSE "failed")
    /\ UNCHANGED <<fileVars, stackVars, faultVars>>

BootstrapStarts == \E mode \in Modes : BeginBootstrap(mode)

BootstrapRuns ==
    \/ KeysKept \/ KeysMissing \/ EnvKept \/ EnvOpens \/ EnvFills
    \/ WaitStarts \/ ServiceUp \/ PollAgain \/ WaitOver \/ Seeds

BootstrapCommands == ResetFails \/ Down \/ \E mode \in Modes : ResetBootstrap(mode)
=============================================================================

------------------------- MODULE ProvisioningProofs -------------------------
(***************************************************************************)
(* Bringing a platform up: what Provisioning promises of the key files,    *)
(* the .env, the containers and the demo data holds for any number of      *)
(* services, any patience and any number of files removed.                 *)
(***************************************************************************)
EXTENDS Provisioning, FiniteSetTheorems, SequenceTheorems, TLAPS

\* What a script has done when it is at a section of its own.
ScriptAt ==
    /\ run.script = "bootstrap" =>
          run.pc \notin {"ensure", "pg", "migrate", "seed", "fallback"}
    /\ run.script = "deploy" => run.pc \notin {"keys", "env", "fill", "wait", "poll"}

\* A file that is being written is torn until it is whole.
HalfWritten ==
    /\ run.pc = "genkey" => priv = Torn
    /\ run.pc = "pubkey" => pub = Torn
    /\ run.pc = "fill" => dotEnv = Torn

Generating == run.pc \in {"genkey", "pubout", "pubkey"}

\* Two key files that nobody tore apart are a pair, but for the moment between the writing
\* of the one and of the other.
Paired ==
    Generating \/ lostPair \/ Missing \in {priv, pub} \/ Torn \in {priv, pub} \/ priv = pub

\* The containers hold the key files of the host, unless some were removed under them.
Loaded ==
    swapped \/ \A s \in {Auth} \cup Verifiers :
        Alive(s) => /\ box[s].key = KeyFile(s)
                    /\ priv # Missing /\ pub # Missing /\ ~Generating

\* The database takes the password of .env, unless that was removed under the volume; and
\* bootstrap.sh is past docker compose up only with a volume.
Password ==
    IsBootstrap =>
        /\ volume = Missing \/ volume = dotEnv \/ lostPassword
        /\ run.pc \in {"wait", "poll", "ready"} => volume # Missing

\* seed_demo.sh goes through the services: those it has passed and that still run are
\* seeded, or it has noted a failure; a service it did not find running does not start
\* behind its back.
SeededSoFar ==
    /\ run.pc = "seed" =>
          /\ run.at > 0
          /\ \A s \in Services : Alive(s) => s \in run.up
          /\ \A i \in 1..Len(SeedOrder) :
                i < run.at /\ Alive(SeedOrder[i]) => SeedOrder[i] \in seeded \/ run.bad
    /\ DeployedMeansSeeded

HostOK == TypeOK /\ ScriptAt /\ HalfWritten

-----------------------------------------------------------------------------
(* Types *)

\* There is a number that is not in use: one of the first |used| + 1.
LEMMA FreshIsWhole ==
    ASSUME NEW used, IsFiniteSet(used)
    PROVE  Fresh(used) \in Nat \ {0}
<1> DEFINE n == Cardinality(used)
           First == 1..(n + 1)
<1>1. n \in Nat
  BY FS_CardinalityType
<1>2. IsFiniteSet(First) /\ Cardinality(First) = n + 1
  <2>1. IsFiniteSet(First)
        /\ Cardinality(First) = IF 1 > n + 1 THEN 0 ELSE (n + 1) - 1 + 1
    BY <1>1, FS_Interval
  <2>2. QED
    BY <1>1, <2>1
<1>3. ~(First \subseteq used)
  <2>1. First \subseteq used => Cardinality(First) <= n
    BY FS_Subset
  <2>2. QED
    BY <1>1, <1>2, <2>1
<1>4. \E m \in First : m \notin used
  BY <1>3
<1>5. Fresh(used) \in First
  BY <1>4 DEF Fresh
<1>6. QED
  BY <1>1, <1>5

LEMMA KeysInUse == IsFiniteSet({pub} \cup {box[s].key : s \in Services})
<1> DEFINE keyOf == [s \in Services |-> box[s].key]
           Keys == {keyOf[s] : s \in Services}
<1>1. IsFiniteSet(Keys)
  <2>1. keyOf \in [Services -> Keys]
    OBVIOUS
  <2>2. keyOf \in Surjection(Services, Keys)
    BY <2>1 DEF Surjection
  <2>3. QED
    BY <2>2, FS_Surjection, ServicesAssumption
<1>2. {pub} \cup {box[s].key : s \in Services}
      = Keys \cup {pub}
  OBVIOUS
<1> HIDE DEF Keys
<1>3. QED
  BY <1>1, <1>2, FS_AddElement

LEMMA PasswordsInUse == IsFiniteSet({volume, upEnv})
<1>1. IsFiniteSet({volume}) 
  BY FS_Singleton
<1>2. {volume, upEnv} = {volume} \cup {upEnv}
  OBVIOUS
<1>3. QED
  BY <1>1, <1>2, FS_AddElement

LEMMA HostInit == Init => HostOK
<1> SUFFICES ASSUME Init PROVE HostOK
  OBVIOUS
<1> USE DEF Init
<1>1. PICK script \in Scripts : run = Idle(script)
  OBVIOUS
<1>2. TypeOK
  <2>1. {priv, pub, dotEnv, volume, upEnv} \subseteq Contents /\ volume # Torn /\ upEnv # Torn
    BY DEF Contents, Missing, Torn
  <2>2. box \in [Services -> [state : {"off", "starting", "healthy"}, key : Contents]]
    BY DEF Off, Contents, Missing
  <2>3. run \in Runs
    BY <1>1, WaitAssumption DEF Idle, Modes, Runs, Sections
  <2>4. QED
    BY <2>1, <2>2, <2>3 DEF TypeOK
<1>3. ScriptAt /\ HalfWritten
  BY <1>1 DEF Idle, ScriptAt, HalfWritten
<1>4. QED
  BY <1>2, <1>3 DEF HostOK

\* What every step does to the record of the run, one field at a time.
LEMMA RunMoves ==
    ASSUME TypeOK, NEW pc \in Sections, run' = [run EXCEPT !.pc = pc]
    PROVE  /\ run' \in Runs /\ run'.pc = pc /\ run'.script = run.script
           /\ run'.bad = run.bad /\ run'.up = run.up /\ run'.at = run.at
BY DEF TypeOK, Runs

\* A step of a script that touches nothing but its own run.
LEMMA QuietStep ==
    ASSUME HostOK, run' \in Runs, run'.script = run.script,
           run'.pc \in {run.pc, "ready", "failed"} \/ ScriptAt',
           run'.pc \notin {"genkey", "pubkey", "fill"},
           UNCHANGED <<fileVars, volume, box, upEnv, faultVars>>, seeded' \subseteq Services
    PROVE  HostOK'
BY DEF HostOK, TypeOK, ScriptAt, HalfWritten, fileVars, faultVars

LEMMA HostGenerator ==
    ASSUME HostOK, Generator
    PROVE  HostOK'
<1> USE DEF HostOK, TypeOK, ScriptAt, HalfWritten, Goto, Sections, Contents,
            fileVars, stackVars, faultVars
<1>1. CASE GenRefuses
  BY <1>1, RunMoves DEF GenRefuses
<1>2. CASE GenOpensPrivate
  BY <1>2, RunMoves DEF GenOpensPrivate
<1>3. CASE GenWritesPrivate
  BY <1>3, RunMoves, FreshIsWhole, KeysInUse DEF GenWritesPrivate
<1>4. CASE GenOpensPublic
  BY <1>4, RunMoves DEF GenOpensPublic
<1>5. CASE GenWritesPublic
  BY <1>5, RunMoves DEF GenWritesPublic, AfterKeys
<1>6. QED
  BY <1>1, <1>2, <1>3, <1>4, <1>5 DEF Generator

LEMMA HostBootstrap ==
    ASSUME HostOK, BootstrapRuns
    PROVE  HostOK'
<1> USE DEF HostOK, TypeOK, ScriptAt, HalfWritten, Goto, Sections, Contents,
            fileVars, stackVars, faultVars
<1>1. CASE KeysKept
  BY <1>1, RunMoves DEF KeysKept, IsBootstrap
<1>2. CASE KeysMissing
  BY <1>2, RunMoves DEF KeysMissing, IsBootstrap
<1>3. CASE EnvKept
  BY <1>3, RunMoves DEF EnvKept
<1>4. CASE EnvOpens
  BY <1>4, RunMoves DEF EnvOpens
<1>5. CASE EnvFills
  BY <1>5, RunMoves, FreshIsWhole, PasswordsInUse DEF EnvFills
<1>6. CASE WaitStarts
  <2>1. run' \in Runs /\ run'.script = run.script
    <3>1. Patience \in 0..Patience
      BY WaitAssumption
    <3>2. QED
      BY <1>6, <3>1 DEF WaitStarts, Runs
  <2>2. run.pc = "wait" /\ run'.pc = "poll"
    BY <1>6 DEF WaitStarts, Runs
  <2>3. QED
    BY <1>6, <2>1, <2>2, QuietStep DEF WaitStarts
<1>7. CASE ServiceUp
  <2>1. run' \in Runs /\ run'.script = run.script
    BY <1>7 DEF ServiceUp, Runs, Polling
  <2>2. run.pc = "poll" /\ run'.pc = "poll"
    BY <1>7 DEF ServiceUp, Runs, Polling
  <2>3. QED
    BY <1>7, <2>1, <2>2, QuietStep DEF ServiceUp
<1>8. CASE PollAgain
  <2>1. run' \in Runs /\ run'.script = run.script
    BY <1>8, WaitAssumption DEF PollAgain, Runs, Polling
  <2>2. run.pc = "poll" /\ run'.pc = "poll"
    BY <1>8 DEF PollAgain, Runs, Polling
  <2>3. QED
    BY <1>8, <2>1, <2>2, QuietStep DEF PollAgain
<1>9. CASE WaitOver
  <2>1. run' \in Runs /\ run'.script = run.script
    BY <1>9 DEF WaitOver, Runs, Polling
  <2>2. run.pc = "poll" /\ run'.pc \in {"poll", "failed"}
    BY <1>9 DEF WaitOver, Runs, Polling
  <2>3. QED
    BY <1>9, <2>1, <2>2, QuietStep DEF WaitOver
<1>10. CASE Seeds
  BY <1>10, RunMoves DEF Seeds
<1>11. QED
  BY <1>1, <1>2, <1>3, <1>4, <1>5, <1>6, <1>7, <1>8, <1>9, <1>10 DEF BootstrapRuns

LEMMA HostDeploy ==
    ASSUME HostOK, DeployRuns
    PROVE  HostOK'
<1> USE DEF HostOK, TypeOK, ScriptAt, HalfWritten, Goto, Sections, Contents,
            fileVars, stackVars, faultVars
<1>1. CASE EnsureKeys
  BY <1>1, RunMoves DEF EnsureKeys
<1>2. CASE PostgresReady
  BY <1>2, RunMoves DEF PostgresReady, Runs
<1>3. CASE Migrate
  <2>1. run' \in Runs /\ run'.script = run.script
    BY <1>3 DEF Migrate, Runs, InOrder
  <2>2. run.pc = "migrate" /\ run'.pc \in {"migrate", "failed"}
    BY <1>3 DEF Migrate, Runs, InOrder
  <2>3. QED
    BY <1>3, <2>1, <2>2, QuietStep DEF Migrate
<1>4. CASE SeedScript
  BY <1>4, RunMoves DEF SeedScript, Runs, Over
<1>5. CASE SeedSkips
  <2>1. run' \in Runs /\ run'.script = run.script
    BY <1>5 DEF SeedSkips, Runs, InOrder
  <2>2. run.pc = "seed" /\ run'.pc = "seed"
    BY <1>5 DEF SeedSkips, Runs, InOrder
  <2>3. QED
    BY <1>5, <2>1, <2>2, QuietStep DEF SeedSkips
<1>6. CASE SeedOne
  <2>1. run' \in Runs /\ run'.script = run.script
    BY <1>6 DEF SeedOne, Runs, InOrder
  <2>2. run.pc = "seed" /\ run'.pc = "seed"
    BY <1>6 DEF SeedOne, Runs, InOrder
  <2>3. QED
    BY <1>6, <2>1, <2>2, QuietStep DEF SeedOne, Runs
<1>7. CASE SeedFails
  <2>1. run' \in Runs /\ run'.script = run.script
    <3>1. run' = [run EXCEPT !.at = run.at + 1, !.bad = TRUE]
      BY <1>7 DEF SeedFails
    <3>2. run \in Runs /\ run.at + 1 \in Nat
      BY DEF Runs
    <3>3. run' = [script |-> run.script, pc |-> run.pc, mode |-> run.mode, at |-> run.at + 1,
                  budget |-> run.budget, up |-> run.up, bad |-> TRUE]
      BY <3>1, <3>2 DEF Runs
    <3>4. QED
      BY <3>2, <3>3 DEF Runs
  <2>2. run.pc = "seed" /\ run'.pc = "seed"
    BY <1>7 DEF SeedFails, Runs, InOrder
  <2>3. QED
    BY <1>7, <2>1, <2>2, QuietStep DEF SeedFails
<1>8. CASE SeedOver
  BY <1>8, RunMoves DEF SeedOver, Over
<1>9. CASE Fallback
  BY <1>9, RunMoves DEF Fallback, Runs, Services
<1>10. QED
  BY <1>1, <1>2, <1>3, <1>4, <1>5, <1>6, <1>7, <1>8, <1>9 DEF DeployRuns

LEMMA HostStarts ==
    ASSUME HostOK, Up \/ UpFails \/ Exit \/ Starts \/ Stop
    PROVE  HostOK'
<1> USE DEF HostOK, TypeOK, ScriptAt, HalfWritten, Goto, Sections, Contents,
            fileVars, stackVars, faultVars
<1>1. CASE Up
  <2>1. run' \in Runs /\ run'.script = run.script /\ run'.pc \in {"wait", "pg"}
        /\ (run'.pc = "wait" <=> run.script = "bootstrap")
    BY <1>1 DEF Up, Runs
  <2>2. Env \in Contents \ {Torn, Missing}
    BY <1>1 DEF Up, CanUp, Env, Whole, ProdEnv, Torn, Missing
  <2>3. box' \in [Services -> [state : {"off", "starting", "healthy"}, key : Contents]]
    <3>1. \A s \in Services : KeyFile(s) \in Contents
      BY DEF KeyFile
    <3>2. QED
      BY <1>1, <3>1 DEF Up
  <2>4. {priv', pub', dotEnv', volume', upEnv'} \subseteq Contents
        /\ volume' # Torn /\ upEnv' # Torn
    BY <1>1, <2>2 DEF Up
  <2>5. seeded' = seeded /\ {lostPair', swapped', lostPassword'} \subseteq BOOLEAN
    BY <1>1 DEF Up
  <2>6. TypeOK'
    BY <2>1, <2>3, <2>4, <2>5
  <2>7. QED
    BY <2>1, <2>6
<1>2. CASE UpFails
  BY <1>2, RunMoves DEF UpFails
<1>3. CASE Exit
  BY <1>3, RunMoves, WaitAssumption DEF Exit, Runs, Idle, Modes
<1>4. CASE BeginDeploy
  BY <1>4, RunMoves DEF BeginDeploy
<1>5. ASSUME NEW mode \in Modes, BeginBootstrap(mode)
      PROVE  HostOK'
  <2>1. run' \in Runs /\ run'.script = run.script
    BY <1>5 DEF BeginBootstrap, Runs
  <2>2. run'.pc = "keys" /\ run.script = "bootstrap"
    BY <1>5 DEF BeginBootstrap, Runs, IsBootstrap
  <2>3. QED
    BY <1>5, <2>1, <2>2, QuietStep DEF BeginBootstrap
<1>6. CASE Stop
  BY <1>6, RunMoves DEF Stop, Running
<1>7. QED
  BY <1>1, <1>2, <1>3, <1>4, <1>5, <1>6 DEF Starts, BootstrapStarts

LEMMA MissingIsNotTorn == Missing \in Contents /\ Missing # Torn
BY DEF Missing, Torn, Contents

LEMMA HostOperator ==
    ASSUME HostOK, Operator
    PROVE  HostOK'
<1> USE DEF HostOK, TypeOK, ScriptAt, HalfWritten, Goto, Sections, Contents,
            fileVars, stackVars, faultVars
<1>1. CASE RemoveKeys
  <2>1. run' = run /\ run.pc = "idle"
    BY <1>1 DEF RemoveKeys
  <2>2. {priv', pub'} \subseteq Contents
    BY <1>1 DEF RemoveKeys, Missing
  <2>3. {lostPair', swapped', lostPassword'} \subseteq BOOLEAN
    BY <1>1 DEF RemoveKeys
  <2>4. UNCHANGED <<dotEnv, stackVars>>
    BY <1>1 DEF RemoveKeys
  <2>5. QED
    BY <2>1, <2>2, <2>3, <2>4
<1>2. CASE RemoveEnv
  BY <1>2, RunMoves DEF RemoveEnv
<1>3. CASE ResetFails
  BY <1>3, RunMoves DEF ResetFails, IsBootstrap
<1>4. CASE Down
  <2>1. box' \in [Services -> [state : {"off", "starting", "healthy"}, key : Contents]]
    BY <1>4 DEF Down, Off
  <2>2. UNCHANGED <<fileVars, volume, seeded, run, lostPair, lostPassword>>
        /\ upEnv' = Missing /\ swapped' = FALSE
    BY <1>4 DEF Down
  <2>3. QED
    BY <2>1, <2>2, MissingIsNotTorn
<1>5. ASSUME NEW mode \in Modes, ResetBootstrap(mode)
      PROVE  HostOK'
  <2>1. run' \in Runs /\ run'.script = run.script /\ run'.pc = "keys" /\ run.script = "bootstrap"
    BY <1>5 DEF ResetBootstrap, Runs, IsBootstrap
  <2>2. box' \in [Services -> [state : {"off", "starting", "healthy"}, key : Contents]]
    BY <1>5 DEF ResetBootstrap, Off
  <2>3. UNCHANGED <<fileVars, lostPair>> /\ volume' = Missing /\ upEnv' = Missing
        /\ seeded' = {} /\ swapped' = FALSE /\ lostPassword' = FALSE
    BY <1>5 DEF ResetBootstrap
  <2>4. TypeOK'
    BY <2>1, <2>2, <2>3, MissingIsNotTorn
  <2>5. QED
    BY <2>1, <2>4
<1>6. QED
  BY <1>1, <1>2, <1>3, <1>4, <1>5 DEF Operator, BootstrapCommands

LEMMA HostContainers ==
    ASSUME HostOK, NEW s \in Services, Answers(s) \/ Dies(s)
    PROVE  HostOK'
<1> USE DEF HostOK, TypeOK, ScriptAt, HalfWritten, Goto, Sections, Contents,
            fileVars, stackVars, faultVars
<1>1. CASE Answers(s)
  BY <1>1, RunMoves DEF Answers
<1>2. CASE Dies(s)
  BY <1>2, RunMoves DEF Dies, Off
<1>3. QED
  BY <1>1, <1>2

LEMMA HostStep == HostOK /\ [Next]_vars => HostOK'
<1> SUFFICES ASSUME HostOK, [Next]_vars PROVE HostOK'
  OBVIOUS
<1>1. CASE UNCHANGED vars
  BY <1>1 DEF HostOK, TypeOK, ScriptAt, HalfWritten, vars, fileVars, stackVars, faultVars
<1>2. QED
  BY <1>1, HostGenerator, HostBootstrap, HostDeploy, HostStarts, HostOperator, HostContainers
     DEF Next, ScriptRuns, Disturbance

\* The files, the volume, the containers, the demo data and the run of a script are at every
\* step what the scripts (bootstrap.sh, deploy.sh) take them for.
THEOREM TypeCorrect == Spec => []TypeOK
<1>1. HostOK => TypeOK
  BY DEF HostOK
<1>2. QED
  BY <1>1, HostInit, HostStep, PTL DEF Spec

-----------------------------------------------------------------------------
(* What a run leaves alone *)

LEMMA HostAlways == Spec => []HostOK
<1>1. QED
  BY HostInit, HostStep, PTL DEF Spec

\* "Existing keys and .env are NEVER overwritten" (bootstrap.sh:14): on any host, over any
\* number of runs with failures anywhere, no run changes a whole private key or .env, and
\* a whole public key only where a private key is generated anew next to it.
THEOREM KeysAndEnvStay == Spec => NothingOverwritten
<1>1. ASSUME HostOK, [Next]_vars
      PROVE  [run.pc # "idle" =>
                /\ Whole(priv) => priv' = priv
                /\ Whole(dotEnv) => dotEnv' = dotEnv
                /\ Whole(pub) /\ pub' # pub => run.pc = "pubout"]_vars
  <2> SUFFICES ASSUME run.pc # "idle"
               PROVE  /\ Whole(priv) => priv' = priv
                      /\ Whole(dotEnv) => dotEnv' = dotEnv
                      /\ Whole(pub) /\ pub' # pub => run.pc = "pubout"
    OBVIOUS
  <2>0. HalfWritten /\ ~Whole(Torn) /\ ~Whole(Missing)
    BY <1>1 DEF HostOK, Whole, Torn, Missing
  <2>1. CASE UNCHANGED vars
    BY <2>1 DEF vars, fileVars
  <2>2. CASE Generator
    BY <2>0, <2>2 DEF Generator, GenRefuses, GenOpensPrivate, GenWritesPrivate, GenOpensPublic,
                      GenWritesPublic, HalfWritten, fileVars
  <2>3. CASE BootstrapRuns
    BY <2>0, <2>3 DEF BootstrapRuns, KeysKept, KeysMissing, EnvKept, EnvOpens, EnvFills,
                      WaitStarts, ServiceUp, PollAgain, WaitOver, Seeds, HalfWritten, fileVars
  <2>4. CASE DeployRuns
    BY <2>4 DEF DeployRuns, EnsureKeys, PostgresReady, Migrate, SeedScript, SeedSkips, SeedOne,
                SeedFails, SeedOver, Fallback, fileVars
  <2>5. CASE Up \/ UpFails \/ Exit \/ Starts \/ Stop
    BY <2>5 DEF Up, UpFails, Exit, Starts, BootstrapStarts, BeginBootstrap, BeginDeploy, Stop,
                fileVars
  <2>6. CASE Operator
    BY <2>6 DEF Operator, RemoveKeys, RemoveEnv, BootstrapCommands, ResetFails, Down,
                ResetBootstrap
  <2>7. CASE \E s \in Services : Answers(s) \/ Dies(s)
    BY <2>7 DEF Answers, Dies, fileVars
  <2>8. QED
    BY <1>1, <2>1, <2>2, <2>3, <2>4, <2>5, <2>6, <2>7 DEF Next, ScriptRuns, Disturbance
<1>2. QED
  BY <1>1, HostAlways, PTL DEF Spec, NothingOverwritten

-----------------------------------------------------------------------------
(* The key pair *)

LEMMA PairStep == HostOK /\ Paired /\ [Next]_vars => Paired'
<1> SUFFICES ASSUME HostOK, Paired, [Next]_vars PROVE Paired'
  OBVIOUS
<1>0. HalfWritten /\ TypeOK
  BY DEF HostOK
<1> USE DEF Paired, Generating
<1>1. CASE Generator
  <2>1. CASE GenRefuses \/ GenOpensPrivate
    BY <2>1, <1>0, RunMoves DEF GenRefuses, GenOpensPrivate, Goto, Sections, fileVars, faultVars
  <2>2. CASE GenWritesPrivate \/ GenOpensPublic
    BY <2>2, <1>0, RunMoves DEF GenWritesPrivate, GenOpensPublic, Goto, Sections
  <2>3. CASE GenWritesPublic
    BY <2>3 DEF GenWritesPublic
  <2>4. QED
    BY <1>1, <2>1, <2>2, <2>3 DEF Generator
<1>2. CASE BootstrapRuns
  <2>1. run.pc \in {"keys", "env", "fill", "wait", "poll"}
    BY <1>2 DEF BootstrapRuns, KeysKept, KeysMissing, EnvKept, EnvOpens, EnvFills,
                WaitStarts, ServiceUp, PollAgain, WaitOver, Seeds, Polling
  <2>2. priv' = priv /\ pub' = pub /\ lostPair' = lostPair
    BY <1>2 DEF BootstrapRuns, KeysKept, KeysMissing, EnvKept, EnvOpens, EnvFills,
                WaitStarts, ServiceUp, PollAgain, WaitOver, Seeds, fileVars, faultVars
  <2>3. QED
    BY <2>1, <2>2
<1>3. CASE DeployRuns
  BY <1>0, <1>3 DEF DeployRuns, EnsureKeys, PostgresReady, Migrate, SeedScript, SeedSkips, SeedOne,
              InOrder, Over,
              SeedFails, SeedOver, Fallback, fileVars, faultVars
<1>4. CASE Up \/ UpFails \/ Exit \/ Starts
  BY <1>0, <1>4 DEF Up, UpFails, Exit, Starts, BootstrapStarts, BeginBootstrap, BeginDeploy,
              fileVars, faultVars
<1>5. CASE Stop
  <2>1. priv' = priv /\ pub' = pub /\ lostPair' = (lostPair \/ (run.pc = "pubout" /\ Whole(pub)))
    BY <1>5 DEF Stop, fileVars
  <2>2. pub \in {Missing, Torn} \/ Whole(pub)
    BY <1>0 DEF TypeOK, Contents, Whole, Missing
  <2>3. QED
    BY <1>0, <2>1, <2>2 DEF HalfWritten
<1>6. CASE RemoveKeys
  BY <1>6 DEF RemoveKeys
<1>7. CASE RemoveEnv \/ BootstrapCommands
  BY <1>0, <1>7 DEF RemoveEnv, BootstrapCommands, ResetFails, Down, ResetBootstrap, IsBootstrap, 
       fileVars, faultVars
<1>8. CASE UNCHANGED vars \/ \E s \in Services : Answers(s) \/ Dies(s)
  BY <1>8 DEF Answers, Dies, vars, fileVars, faultVars
<1>9. QED
  BY <1>1, <1>2, <1>3, <1>4, <1>5, <1>6, <1>7, <1>8 DEF Next, ScriptRuns, Disturbance, Operator

-----------------------------------------------------------------------------
(* The containers and the keys they loaded *)

KeyBoxes == {Auth} \cup Verifiers

\* Steps that leave the key files, the containers and the history of them alone, and do not
\* start to generate.
LEMMA LoadedStays ==
    ASSUME Loaded, UNCHANGED <<priv, pub, box, swapped>>,
           run'.pc \notin {"genkey", "pubout", "pubkey"} \/ Generating
    PROVE  Loaded'
BY DEF Loaded, Generating, Alive, KeyFile

LEMMA LoadedUp ==
    ASSUME TypeOK, Loaded, Up
    PROVE  Loaded'
<1>1. /\ priv # Missing /\ pub # Missing /\ priv' = priv /\ pub' = pub
      /\ \A s \in Services :
            box'[s] = IF Kept(s) THEN box[s] ELSE [state |-> "starting", key |-> KeyFile(s)]
      /\ swapped' = (swapped /\ \E s \in Services : Kept(s))
      /\ run.pc = "up" /\ run'.pc \in {"wait", "pg"}
  BY DEF Up, CanUp, fileVars, TypeOK, Runs
<1>2. KeyBoxes \subseteq Services
  BY DEF KeyBoxes, Services
<1>3. \A s \in KeyBoxes : KeyFile(s)' = KeyFile(s)
  BY <1>1 DEF KeyFile
<1>4. swapped' \/ \A s \in KeyBoxes : Alive(s)' => box'[s].key = KeyFile(s)
  <2>1. SUFFICES ASSUME ~swapped', NEW s \in KeyBoxes, Alive(s)'
                 PROVE  box'[s].key = KeyFile(s)
    OBVIOUS
  <2>2. CASE Kept(s)
    <3>1. ~swapped /\ box'[s] = box[s] /\ Alive(s)
      BY <1>1, <1>2, <2>1, <2>2 DEF Kept, Alive
    <3>2. QED
      BY <3>1, <2>1 DEF Loaded, KeyBoxes
  <2>3. CASE ~Kept(s)
    <3>1. box'[s] = [state |-> "starting", key |-> KeyFile(s)]
      BY <1>1, <1>2, <2>3
    <3>2. QED
      BY <3>1
  <2>4. QED
    BY <2>2, <2>3
<1>5. ~Generating'
  BY <1>1 DEF Generating
<1>6. QED
  BY <1>1, <1>3, <1>4, <1>5 DEF Loaded, KeyBoxes

LEMMA LoadedStep == HostOK /\ Loaded /\ [Next]_vars => Loaded'
<1> SUFFICES ASSUME HostOK, Loaded, [Next]_vars PROVE Loaded'
  OBVIOUS
<1>0. TypeOK
  BY DEF HostOK
<1>1. CASE GenOpensPrivate
  <2>1. swapped' = swapped /\ box' = box /\ priv = Missing
    BY <1>1 DEF GenOpensPrivate, stackVars, faultVars
  <2>2. QED
    BY <2>1 DEF Loaded, Alive
<1>2. CASE GenWritesPrivate \/ GenOpensPublic \/ GenWritesPublic
  <2>1. swapped' = swapped /\ box' = box /\ Generating
    BY <1>2 DEF GenWritesPrivate, GenOpensPublic, GenWritesPublic, stackVars, faultVars, Generating
  <2>2. QED
    BY <2>1 DEF Loaded, Alive
<1>3. CASE GenRefuses \/ UpFails
  BY <1>0, <1>3, LoadedStays, RunMoves
     DEF GenRefuses, UpFails, Goto, Sections, fileVars, stackVars, faultVars
<1>4. CASE BootstrapRuns
  <2>1. UNCHANGED <<priv, pub, box, swapped>>
    BY <1>4 DEF BootstrapRuns, KeysKept, KeysMissing, EnvKept, EnvOpens, EnvFills,
                WaitStarts, ServiceUp, PollAgain, WaitOver, Seeds, fileVars, stackVars, faultVars
  <2>2. run'.pc \notin {"genkey", "pubout", "pubkey"}
    BY <1>0, <1>4 DEF BootstrapRuns, KeysKept, KeysMissing, EnvKept, EnvOpens, EnvFills,
                WaitStarts, ServiceUp, PollAgain, WaitOver, Seeds, Polling, Goto, TypeOK, Runs
  <2>3. QED
    BY <2>1, <2>2, LoadedStays
<1>5. CASE DeployRuns
  <2>1. UNCHANGED <<priv, pub, box, swapped>>
    BY <1>5 DEF DeployRuns, EnsureKeys, PostgresReady, Migrate, SeedScript, SeedSkips, SeedOne,
                SeedFails, SeedOver, Fallback, fileVars, stackVars, faultVars
  <2>2. run'.pc \notin {"genkey", "pubout", "pubkey"}
    BY <1>0, <1>5 DEF DeployRuns, EnsureKeys, PostgresReady, Migrate, SeedScript, SeedSkips,
                SeedOne, SeedFails, SeedOver, Fallback, InOrder, Over, Goto, TypeOK, Runs
  <2>3. QED
    BY <2>1, <2>2, LoadedStays
<1>6. CASE Exit \/ Starts \/ Stop
  <2>1. UNCHANGED <<priv, pub, box, swapped>>
    BY <1>6 DEF Exit, Starts, BootstrapStarts, BeginBootstrap, BeginDeploy, Stop,
                fileVars, stackVars, faultVars
  <2>2. run'.pc \notin {"genkey", "pubout", "pubkey"}
    <3>1. CASE Exit
      BY <3>1 DEF Exit, Idle
    <3>2. CASE Starts
      BY <1>0, <3>2 DEF Starts, BootstrapStarts, BeginBootstrap, BeginDeploy, Goto, TypeOK, Runs
    <3>3. CASE Stop
      BY <1>0, <3>3 DEF Stop, Goto, TypeOK, Runs
    <3>4. QED
      BY <1>6, <3>1, <3>2, <3>3
  <2>3. QED
    BY <2>1, <2>2, LoadedStays
<1>7. CASE RemoveKeys
  <2>1. swapped' = (swapped \/ \E s \in {Auth} \cup Verifiers : box[s].state # "off")
        /\ box' = box
    BY <1>7 DEF RemoveKeys, stackVars
  <2>2. QED
    BY <2>1 DEF Loaded, Alive
<1>8. CASE RemoveEnv \/ ResetFails
  BY <1>0, <1>8, LoadedStays, RunMoves
     DEF RemoveEnv, ResetFails, Goto, Sections, fileVars, stackVars, faultVars
<1>9. ASSUME box' = [s \in Services |-> Off]
      PROVE  Loaded'
  BY <1>9 DEF Loaded, Alive, Off, Services
<1>10. CASE Down \/ \E mode \in Modes : ResetBootstrap(mode)
  BY <1>9, <1>10 DEF Down, ResetBootstrap
<1>11. ASSUME NEW s \in Services, Answers(s) \/ Dies(s)
       PROVE  Loaded'
  <2>1. \A t \in Services : Alive(t)' => Alive(t) /\ box'[t].key = box[t].key
    BY <1>0, <1>11 DEF Answers, Dies, Off, Alive, TypeOK
  <2>2. UNCHANGED <<priv, pub, run, swapped>>
    BY <1>11 DEF Answers, Dies, fileVars, faultVars
  <2>3. QED
    BY <2>1, <2>2 DEF Loaded, KeyFile, Generating, Services
<1>12. CASE UNCHANGED vars
  BY <1>12, LoadedStays DEF vars, fileVars, stackVars, faultVars, Generating
<1>13. QED
  BY <1>0, <1>1, <1>2, <1>3, <1>4, <1>5, <1>6, <1>7, <1>8, <1>10, <1>11, <1>12, LoadedUp
     DEF Next, ScriptRuns, Generator, Disturbance, Operator, BootstrapCommands

-----------------------------------------------------------------------------
(* The password of the database *)

\* Steps that touch neither .env nor the volume, and do not get past docker compose up.
LEMMA PasswordStays ==
    ASSUME Password, UNCHANGED <<dotEnv, volume, lostPassword>>, run'.script = run.script,
           run'.pc \notin {"wait", "poll", "ready"} \/ run.pc \in {"wait", "poll", "ready"}
    PROVE  Password'
BY DEF Password, IsBootstrap

\* The script a host is brought up with stays the same.
LEMMA ScriptStays ==
    ASSUME TypeOK, [Next]_vars
    PROVE  run'.script = run.script
<1>1. CASE UNCHANGED vars \/ Exit \/ Up \/ UpFails \/ Starts \/ Stop
  <2>1. CASE UNCHANGED vars \/ Exit
    BY <2>1 DEF vars, Exit, Idle
  <2>2. CASE Up
    BY <2>2 DEF Up, TypeOK, Runs
  <2>3. CASE UpFails \/ Starts \/ Stop
    BY <2>3 DEF UpFails, Starts, BootstrapStarts, BeginBootstrap, BeginDeploy, Stop, Goto,
                      TypeOK, Runs
  <2>4. QED
    BY <1>1, <2>1, <2>2, <2>3
<1>2. CASE Generator
  BY <1>2 DEF Generator, GenRefuses, GenOpensPrivate, GenWritesPrivate, GenOpensPublic,
                    GenWritesPublic, Goto, TypeOK, Runs
<1>3. CASE BootstrapRuns
  BY <1>3 DEF BootstrapRuns, KeysKept, KeysMissing, EnvKept, EnvOpens, EnvFills,
              WaitStarts, ServiceUp, PollAgain, WaitOver, Seeds, Goto, TypeOK, Runs
<1>4. CASE DeployRuns
  BY <1>4 DEF DeployRuns, EnsureKeys, PostgresReady, Migrate, SeedScript, SeedSkips,
              SeedOne, SeedFails, SeedOver, Fallback, Goto, TypeOK, Runs
<1>5. CASE Operator
  BY <1>5 DEF Operator, RemoveKeys, RemoveEnv, BootstrapCommands, ResetFails, Down,
                    ResetBootstrap, Goto, TypeOK, Runs, stackVars
<1>6. CASE \E s \in Services : Answers(s) \/ Dies(s)
  BY <1>6 DEF Answers, Dies
<1>7. QED
  BY <1>1, <1>2, <1>3, <1>4, <1>5, <1>6 DEF Next, ScriptRuns, Disturbance

LEMMA PasswordStep == HostOK /\ Password /\ [Next]_vars => Password'
<1> SUFFICES ASSUME HostOK, Password, [Next]_vars PROVE Password'
  OBVIOUS
<1>0. TypeOK /\ HalfWritten /\ ScriptAt
  BY DEF HostOK
<1>1. run'.script = run.script
  BY <1>0, ScriptStays
<1>2. CASE Generator
  <2>1. UNCHANGED <<dotEnv, volume, lostPassword>>
    BY <1>2 DEF Generator, GenRefuses, GenOpensPrivate, GenWritesPrivate, GenOpensPublic,
                GenWritesPublic, fileVars, stackVars, faultVars
  <2>2. run'.pc \notin {"wait", "poll", "ready"}
    BY <1>0, <1>2 DEF Generator, GenRefuses, GenOpensPrivate, GenWritesPrivate, GenOpensPublic,
                      GenWritesPublic, Goto, TypeOK, Runs, AfterKeys
  <2>3. QED
    BY <1>1, <2>1, <2>2, PasswordStays
<1>3. CASE Up
  <2>1. dotEnv' = dotEnv /\ lostPassword' = lostPassword
        /\ volume' = (IF volume = Missing THEN Env ELSE volume) /\ Env # Missing
    BY <1>3 DEF Up, CanUp, Whole, Missing, fileVars
  <2>2. QED
    BY <1>1, <2>1 DEF Password, IsBootstrap, Env
<1>4. CASE EnvOpens
  <2>1. dotEnv = Missing /\ UNCHANGED <<volume, lostPassword>> /\ run'.pc = "fill"
    BY <1>0, <1>4 DEF EnvOpens, Goto, TypeOK, Runs, stackVars, faultVars
  <2>2. QED
    BY <1>1, <2>1 DEF Password, IsBootstrap
<1>5. CASE EnvFills
  <2>1. dotEnv = Torn /\ volume # Torn /\ UNCHANGED <<volume, lostPassword>> /\ run'.pc = "up"
    BY <1>0, <1>5 DEF EnvFills, Goto, TypeOK, Runs, stackVars, faultVars, HalfWritten
  <2>2. QED
    BY <1>1, <2>1 DEF Password, IsBootstrap
<1>6. CASE KeysKept \/ KeysMissing \/ EnvKept \/ WaitStarts \/ ServiceUp \/ PollAgain
           \/ WaitOver \/ Seeds
  <2>1. UNCHANGED <<dotEnv, volume, lostPassword>>
    BY <1>6 DEF KeysKept, KeysMissing, EnvKept, WaitStarts, ServiceUp, PollAgain, WaitOver, Seeds,
                fileVars, stackVars, faultVars
  <2>2. run'.pc \notin {"wait", "poll", "ready"} \/ run.pc \in {"wait", "poll", "ready"}
    BY <1>0, <1>6 DEF KeysKept, KeysMissing, EnvKept, WaitStarts, ServiceUp, PollAgain, WaitOver,
                      Seeds, Polling, Goto, TypeOK, Runs
  <2>3. QED
    BY <1>1, <2>1, <2>2, PasswordStays
<1>7. CASE DeployRuns
  <2>1. run.script = "deploy"
    BY <1>0, <1>7, ServicesAssumption
       DEF DeployRuns, EnsureKeys, PostgresReady, Migrate, SeedScript, SeedSkips, SeedOne,
           SeedFails, SeedOver, Fallback, InOrder, Over, ScriptAt, TypeOK, Runs
  <2>2. QED
    BY <1>1, <2>1 DEF Password, IsBootstrap
<1>8. CASE UpFails \/ Exit \/ Starts \/ Stop \/ RemoveKeys \/ ResetFails \/ Down
  <2>1. UNCHANGED <<dotEnv, volume, lostPassword>>
    BY <1>8 DEF UpFails, Exit, Starts, BootstrapStarts, BeginBootstrap, BeginDeploy, Stop,
                RemoveKeys, ResetFails, Down, fileVars, stackVars, faultVars
  <2>2. run'.pc \notin {"wait", "poll", "ready"}
    <3>1. CASE UpFails \/ Starts \/ Stop \/ ResetFails
      BY <1>0, <3>1 DEF UpFails, Starts, BootstrapStarts, BeginBootstrap, BeginDeploy, Stop,
                        ResetFails, Goto, TypeOK, Runs
    <3>2. CASE Exit \/ RemoveKeys \/ Down
      BY <1>0, <3>2 DEF Exit, RemoveKeys, Down, Idle, stackVars
    <3>3. QED
      BY <1>8, <3>1, <3>2
  <2>3. QED
    BY <1>1, <2>1, <2>2, PasswordStays
<1>9. CASE RemoveEnv
  <2>1. lostPassword' = (volume # Missing) /\ volume' = volume /\ run' = run
    BY <1>9 DEF RemoveEnv, stackVars
  <2>2. QED
    BY <2>1 DEF Password, IsBootstrap
<1>10. ASSUME NEW mode \in Modes, ResetBootstrap(mode)
       PROVE  Password'
  <2>1. volume' = Missing /\ run'.pc = "keys"
    BY <1>0, <1>10 DEF ResetBootstrap, TypeOK, Runs
  <2>2. QED
    BY <2>1 DEF Password
<1>11. CASE UNCHANGED vars \/ \E s \in Services : Answers(s) \/ Dies(s)
  <2>1. UNCHANGED <<dotEnv, volume, lostPassword, run>>
    BY <1>11 DEF Answers, Dies, vars, fileVars, stackVars, faultVars
  <2>2. QED
    BY <2>1 DEF Password, IsBootstrap
<1>12. QED
  BY <1>2, <1>3, <1>4, <1>5, <1>6, <1>7, <1>8, <1>9, <1>10, <1>11
     DEF Next, ScriptRuns, BootstrapRuns, Disturbance, Operator, BootstrapCommands

LEMMA ConsistencyAlways == Spec => [](HostOK /\ Paired /\ Loaded /\ Password)
<1>1. Init => Paired /\ Loaded /\ Password
  <2>1. ASSUME Init
        PROVE  Paired /\ Loaded /\ Password
    <3>1. priv = Missing /\ volume = Missing /\ \A s \in Services : box[s] = Off
      BY <2>1 DEF Init
    <3>2. run.pc = "idle"
      BY <2>1 DEF Init, Idle
    <3>3. Loaded
      BY <3>1 DEF Loaded, Alive, Off, Services
    <3>4. QED
      BY <3>1, <3>2, <3>3 DEF Paired, Password
  <2>2. QED
    BY <2>1
<1>2. QED
  BY <1>1, HostInit, HostStep, PairStep, LoadedStep, PasswordStep, PTL DEF Spec

\* A run that ends with "ready" (bootstrap.sh:102-119, deploy.sh:77-84) leaves services that
\* verify what auth signs and a database that takes the password, after any number of
\* earlier runs that failed or were stopped anywhere; what it cannot repair are key files
\* or an .env removed by hand, and a pair or a file torn by a crash.
THEOREM ReadyIsConsistent == Spec => []ReadyMeansConsistent
<1>1. HostOK /\ Paired /\ Loaded /\ Password => ReadyMeansConsistent
  <2> SUFFICES ASSUME HostOK, Paired, Loaded, Password, run.pc = "ready"
               PROVE  /\ \A s \in Verifiers : Alive(Auth) /\ Alive(s) =>
                            box[s].key = box[Auth].key \/ lostPair \/ swapped
                            \/ Torn \in {priv, pub}
                      /\ IsBootstrap => volume = dotEnv \/ lostPassword
    BY DEF ReadyMeansConsistent
  <2>1. ASSUME NEW s \in Verifiers, Alive(Auth), Alive(s), ~lostPair, ~swapped,
               Torn \notin {priv, pub}
        PROVE  box[s].key = box[Auth].key
    <3>1. box[Auth].key = priv /\ box[s].key = pub /\ Missing \notin {priv, pub}
      BY <2>1, ServicesAssumption DEF Loaded, KeyFile
    <3>2. QED
      BY <2>1, <3>1 DEF Paired, Generating
  <2>2. IsBootstrap => volume = dotEnv \/ lostPassword
    BY DEF Password
  <2>3. QED
    BY <2>1, <2>2
<1>2. QED
  BY <1>1, ConsistencyAlways, PTL

-----------------------------------------------------------------------------
(* The demo data of a deployment *)

\* Steps that start no container, lose no demo data and leave the run where it is.
LEMMA SeededStays ==
    ASSUME SeededSoFar, run' = run, seeded' = seeded, \A s \in Services : Alive(s)' => Alive(s)
    PROVE  SeededSoFar'
<1>1. \A i \in 1..Len(SeedOrder) : SeedOrder[i] \in Services
  BY SeedOrderAssumption
<1>2. QED
  BY <1>1 DEF SeededSoFar, DeployedMeansSeeded

\* Steps outside the loop of seed_demo.sh, which "Done" does not follow.
LEMMA NotSeeding ==
    ASSUME run'.pc # "seed", run'.pc # "ready" \/ run'.script # "deploy"
    PROVE  SeededSoFar'
BY DEF SeededSoFar, DeployedMeansSeeded

\* One turn of the loop.
LEMMA SeededTurn ==
    ASSUME TypeOK, SeededSoFar, InOrder("seed"),
           run' \in Runs, run'.pc = "seed", run'.at = run.at + 1, run'.up = run.up,
           run.bad => run'.bad, box' = box, seeded \subseteq seeded',
           Alive(Turn) => Turn \in seeded' \/ run'.bad
    PROVE  SeededSoFar'
<1>0. run.pc = "seed" /\ run.at \in Nat /\ run.at > 0 /\ Len(SeedOrder) \in Nat
  BY SeedOrderAssumption, LenProperties DEF TypeOK, Runs, InOrder, SeededSoFar
<1>1. \A s \in Services : Alive(s)' => s \in run'.up
  BY <1>0 DEF SeededSoFar, Alive
<1>2. ASSUME NEW i \in 1..Len(SeedOrder), i < run'.at, Alive(SeedOrder[i])'
      PROVE  SeedOrder[i] \in seeded' \/ run'.bad
  <2>1. Alive(SeedOrder[i]) /\ (i < run.at \/ i = run.at)
    BY <1>0, <1>2 DEF Alive
  <2>2. CASE i < run.at
    BY <1>0, <2>1, <2>2 DEF SeededSoFar
  <2>3. CASE i = run.at
    BY <2>1, <2>3 DEF Turn
  <2>4. QED
    BY <2>1, <2>2, <2>3
<1>3. QED
  BY <1>0, <1>1, <1>2 DEF SeededSoFar, DeployedMeansSeeded

LEMMA SeededDeploy == HostOK /\ HostOK' /\ SeededSoFar /\ DeployRuns => SeededSoFar'
<1> SUFFICES ASSUME HostOK, HostOK', SeededSoFar, DeployRuns PROVE SeededSoFar'
  OBVIOUS
<1>0. TypeOK /\ run \in Runs /\ run' \in Runs /\ Len(SeedOrder) \in Nat
  BY SeedOrderAssumption, LenProperties DEF HostOK, TypeOK
<1>1. CASE EnsureKeys \/ PostgresReady \/ Migrate
  BY <1>0, <1>1, NotSeeding DEF EnsureKeys, PostgresReady, Migrate, InOrder, Goto, Runs
<1>2. CASE SeedScript
  <2>1. run'.pc = "fallback" \/ /\ run'.pc = "seed" /\ run'.at = 1
                                /\ run'.up = {s \in Services : box[s].state # "off"}
    BY <1>0, <1>2 DEF SeedScript, Runs
  <2>2. box' = box
    BY <1>2 DEF SeedScript, stackVars
  <2>3. QED
    BY <1>0, <2>1, <2>2 DEF SeededSoFar, DeployedMeansSeeded, Alive
<1>3. CASE SeedSkips
  <2>1. /\ InOrder("seed") /\ Turn \notin run.up /\ box' = box /\ seeded' = seeded
        /\ run'.pc = "seed" /\ run'.at = run.at + 1 /\ run'.up = run.up /\ run'.bad = run.bad
    BY <1>0, <1>3 DEF SeedSkips, InOrder, Runs, stackVars
  <2>2. Turn \in Services
    <3>1. run.at \in 1..Len(SeedOrder)
      BY <1>0, <2>1 DEF SeededSoFar, InOrder, Runs
    <3>2. QED
      BY <3>1, SeedOrderAssumption DEF Turn
  <2>3. ~Alive(Turn)
    BY <2>1, <2>2 DEF SeededSoFar, InOrder
  <2>4. QED
    BY <1>0, <2>1, <2>3, SeededTurn
<1>4. CASE SeedOne
  <2>1. /\ InOrder("seed") /\ box' = box /\ seeded' = seeded \cup {Turn}
        /\ run'.pc = "seed" /\ run'.at = run.at + 1 /\ run'.up = run.up /\ run'.bad = run.bad
    BY <1>0, <1>4 DEF SeedOne, InOrder, Runs
  <2>2. QED
    BY <1>0, <2>1, SeededTurn
<1>5. CASE SeedFails
  <2>1. /\ InOrder("seed") /\ box' = box /\ seeded' = seeded
        /\ run'.pc = "seed" /\ run'.at = run.at + 1 /\ run'.up = run.up
    BY <1>0, <1>5 DEF SeedFails, InOrder, Runs, stackVars
  <2>2. run'.bad
    BY <1>0, <1>5 DEF SeedFails, Runs
  <2>3. QED
    BY <1>0, <2>1, <2>2, SeededTurn
<1>6. CASE SeedOver
  <2>1. /\ run.pc = "seed" /\ run.at > Len(SeedOrder) /\ box' = box /\ seeded' = seeded
        /\ run'.pc = (IF run.bad THEN "fallback" ELSE "ready")
    BY <1>0, <1>6 DEF SeedOver, Over, Goto, Runs, stackVars
  <2>2. CASE run.bad
    BY <2>1, <2>2, NotSeeding
  <2>3. CASE ~run.bad
    <3>1. \A i \in 1..Len(SeedOrder) : Alive(SeedOrder[i]) => SeedOrder[i] \in seeded
      BY <1>0, <2>1, <2>3 DEF SeededSoFar, Runs
    <3>2. \A s \in Services : Alive(s) => s \in seeded
      BY <3>1, SeedOrderAssumption
    <3>3. QED
      BY <2>1, <2>3, <3>2 DEF SeededSoFar, DeployedMeansSeeded, Alive
  <2>4. QED
    BY <2>2, <2>3
<1>7. CASE Fallback
  <2>1. CASE box[Auth].state = "off"
    BY <1>0, <1>7, <2>1, NotSeeding DEF Fallback, Runs
  <2>2. CASE box[Auth].state # "off"
    <3>1. run'.pc = "ready" /\ Auth \in seeded'
      BY <1>0, <1>7, <2>2 DEF Fallback, Runs
    <3>2. run'.bad
      BY <1>0, <1>7, <2>2 DEF Fallback, Runs
    <3>3. QED
      BY <3>1, <3>2 DEF SeededSoFar, DeployedMeansSeeded
  <2>3. QED
    BY <2>1, <2>2
<1>8. QED
  BY <1>1, <1>2, <1>3, <1>4, <1>5, <1>6, <1>7 DEF DeployRuns

LEMMA SeededStep == HostOK /\ HostOK' /\ SeededSoFar /\ [Next]_vars => SeededSoFar'
<1> SUFFICES ASSUME HostOK, HostOK', SeededSoFar, [Next]_vars PROVE SeededSoFar'
  OBVIOUS
<1>0. TypeOK /\ ScriptAt /\ run \in Runs /\ run'.script = run.script
  BY ScriptStays DEF HostOK, TypeOK
<1>1. CASE Generator
  BY <1>0, <1>1, NotSeeding
     DEF Generator, GenRefuses, GenOpensPrivate, GenWritesPrivate, GenOpensPublic,
         GenWritesPublic, Goto, AfterKeys, Runs
<1>2. CASE BootstrapRuns
  <2>1. run.pc \in {"keys", "env", "fill", "wait", "poll"}
    BY <1>2 DEF BootstrapRuns, KeysKept, KeysMissing, EnvKept, EnvOpens, EnvFills,
                WaitStarts, ServiceUp, PollAgain, WaitOver, Seeds, Polling
  <2>2. run'.script # "deploy"
    BY <1>0, <2>1 DEF ScriptAt
  <2>3. run'.pc # "seed"
    BY <1>0, <1>2 DEF BootstrapRuns, KeysKept, KeysMissing, EnvKept, EnvOpens, EnvFills,
                      WaitStarts, ServiceUp, PollAgain, WaitOver, Seeds, Polling, Goto, Runs
  <2>4. QED
    BY <2>2, <2>3, NotSeeding
<1>3. CASE Up \/ UpFails \/ Starts \/ Stop \/ Exit \/ ResetFails
  <2>1. CASE Up
    BY <1>0, <2>1, NotSeeding DEF Up, Runs
  <2>2. CASE UpFails \/ Starts \/ Stop \/ ResetFails
    BY <1>0, <2>2, NotSeeding
       DEF UpFails, Starts, BootstrapStarts, BeginBootstrap, BeginDeploy, Stop, ResetFails, Goto,
           Runs
  <2>3. CASE Exit
    BY <2>3, NotSeeding DEF Exit, Idle
  <2>4. QED
    BY <1>3, <2>1, <2>2, <2>3
<1>4. CASE RemoveKeys \/ RemoveEnv \/ Down
  BY <1>4, NotSeeding DEF RemoveKeys, RemoveEnv, Down, stackVars
<1>5. ASSUME NEW mode \in Modes, ResetBootstrap(mode)
      PROVE  SeededSoFar'
  BY <1>0, <1>5, NotSeeding DEF ResetBootstrap, Runs
<1>6. ASSUME NEW s \in Services, Answers(s) \/ Dies(s)
      PROVE  SeededSoFar'
  <2>1. \A t \in Services : Alive(t)' => Alive(t)
    BY <1>0, <1>6 DEF Answers, Dies, Off, Alive, TypeOK
  <2>2. run' = run /\ seeded' = seeded
    BY <1>6 DEF Answers, Dies
  <2>3. QED
    BY <2>1, <2>2, SeededStays
<1>7. CASE UNCHANGED vars
  BY <1>7, SeededStays DEF vars, stackVars, Alive
<1>8. QED
  BY <1>1, <1>2, <1>3, <1>4, <1>5, <1>6, <1>7, SeededDeploy
     DEF Next, ScriptRuns, Disturbance, Operator, BootstrapCommands

\* "Done" (deploy.sh:85) means what it says: every service that still runs holds the demo
\* data, unless seed_demo.sh noted a failure (seed_demo.sh:26-49) or did not run, and then
\* auth does; a container that dies while the loop goes on does not make it skip another.
THEOREM DoneIsSeeded == Spec => []DeployedMeansSeeded
<1>1. Init => SeededSoFar
  <2>1. ASSUME Init
        PROVE  run.pc = "idle"
    BY <2>1 DEF Init, Idle
  <2>2. QED
    BY <2>1 DEF SeededSoFar, DeployedMeansSeeded
<1>2. SeededSoFar => DeployedMeansSeeded
  BY DEF SeededSoFar
<1>3. QED
  BY <1>1, <1>2, SeededStep, HostAlways, PTL DEF Spec

-----------------------------------------------------------------------------
(***************************************************************************)
(* A run gets on: the part of RunsEnd that needs no fairness.              *)
(***************************************************************************)
\* What is left of a list from position at on; at is 0 at worst.
Remaining(order, at) == IF at <= Len(order) THEN Len(order) + 1 - at ELSE 0

WaitSteps == Len(WaitOrder) + Patience + 3      \* from the wait of bootstrap.sh on
DeploySteps == 2 * Len(SeedOrder) + 6           \* from the wait for postgres on
UpSteps == WaitSteps + DeploySteps + 1          \* from docker compose up on

\* How many steps a run r has left at most.
StepsToGo(r) ==
    CASE r.pc \in {"keys", "ensure"} -> UpSteps + 7
      [] r.pc = "gen" -> UpSteps + 6
      [] r.pc = "genkey" -> UpSteps + 5
      [] r.pc = "pubout" -> UpSteps + 4
      [] r.pc = "pubkey" -> UpSteps + 3
      [] r.pc = "env" -> UpSteps + 2
      [] r.pc = "fill" -> UpSteps + 1
      [] r.pc = "up" -> UpSteps
      [] r.pc = "wait" -> WaitSteps
      [] r.pc = "poll" -> Remaining(WaitOrder, r.at) + r.budget + 1
      [] r.pc = "pg" -> DeploySteps
      [] r.pc = "migrate" -> Remaining(SeedOrder, r.at) + Len(SeedOrder) + 4
      [] r.pc = "seed" -> Remaining(SeedOrder, r.at) + 2
      [] r.pc = "fallback" -> 1
      [] OTHER -> 0

LEMMA ListLengths ==
    Len(SeedOrder) \in Nat /\ Len(WaitOrder) \in Nat /\ Patience \in Nat
BY SeedOrderAssumption, WaitAssumption, LenProperties

\* StepsToGo section by section: up to docker compose up, after it, and at the end.
LEMMA StepsBefore ==
    ASSUME NEW r
    PROVE  /\ r.pc \in {"keys", "ensure"} => StepsToGo(r) = UpSteps + 7
           /\ r.pc = "gen" => StepsToGo(r) = UpSteps + 6
           /\ r.pc = "genkey" => StepsToGo(r) = UpSteps + 5
           /\ r.pc = "pubout" => StepsToGo(r) = UpSteps + 4
           /\ r.pc = "pubkey" => StepsToGo(r) = UpSteps + 3
           /\ r.pc = "env" => StepsToGo(r) = UpSteps + 2
           /\ r.pc = "fill" => StepsToGo(r) = UpSteps + 1
           /\ r.pc = "up" => StepsToGo(r) = UpSteps
<1>1. r.pc \in {"keys", "ensure"} => StepsToGo(r) = UpSteps + 7
  BY DEF StepsToGo
<1>2. r.pc = "gen" => StepsToGo(r) = UpSteps + 6
  BY DEF StepsToGo
<1>3. r.pc = "genkey" => StepsToGo(r) = UpSteps + 5
  BY DEF StepsToGo
<1>4. r.pc = "pubout" => StepsToGo(r) = UpSteps + 4
  BY DEF StepsToGo
<1>5. r.pc = "pubkey" => StepsToGo(r) = UpSteps + 3
  BY DEF StepsToGo
<1>6. r.pc = "env" => StepsToGo(r) = UpSteps + 2
  BY DEF StepsToGo
<1>7. r.pc = "fill" => StepsToGo(r) = UpSteps + 1
  BY DEF StepsToGo
<1>8. r.pc = "up" => StepsToGo(r) = UpSteps
  BY DEF StepsToGo
<1> QED
  BY <1>1, <1>2, <1>3, <1>4, <1>5, <1>6, <1>7, <1>8

LEMMA StepsAfter ==
    ASSUME NEW r
    PROVE  /\ r.pc = "wait" => StepsToGo(r) = WaitSteps
           /\ r.pc = "poll" => StepsToGo(r) = Remaining(WaitOrder, r.at) + r.budget + 1
           /\ r.pc = "pg" => StepsToGo(r) = DeploySteps
           /\ r.pc = "migrate" => StepsToGo(r) = Remaining(SeedOrder, r.at) + Len(SeedOrder) + 4
           /\ r.pc = "seed" => StepsToGo(r) = Remaining(SeedOrder, r.at) + 2
           /\ r.pc = "fallback" => StepsToGo(r) = 1
<1>1. r.pc = "wait" => StepsToGo(r) = WaitSteps
  BY DEF StepsToGo
<1>2. r.pc = "poll" => StepsToGo(r) = Remaining(WaitOrder, r.at) + r.budget + 1
  BY DEF StepsToGo
<1>3. r.pc = "pg" => StepsToGo(r) = DeploySteps
  BY DEF StepsToGo
<1>4. r.pc = "migrate" => StepsToGo(r) = Remaining(SeedOrder, r.at) + Len(SeedOrder) + 4
  BY DEF StepsToGo
<1>5. r.pc = "seed" => StepsToGo(r) = Remaining(SeedOrder, r.at) + 2
  BY DEF StepsToGo
<1>6. r.pc = "fallback" => StepsToGo(r) = 1
  BY DEF StepsToGo
<1> QED
  BY <1>1, <1>2, <1>3, <1>4, <1>5, <1>6

LEMMA NoStepsLeft ==
    ASSUME NEW r, r.pc \in {"idle", "ready", "failed", "stopped"}
    PROVE  StepsToGo(r) = 0
BY DEF StepsToGo

LEMMA ListsLeft ==
    ASSUME NEW r \in Runs
    PROVE  /\ Remaining(WaitOrder, r.at) \in 0..(Len(WaitOrder) + 1)
           /\ Remaining(SeedOrder, r.at) \in Nat
           /\ r.at = 1 => Remaining(SeedOrder, r.at) = Len(SeedOrder)
           /\ r.budget \in 0..Patience
<1>1. r.at \in Nat /\ r.budget \in 0..Patience
  BY DEF Runs
<1> QED
  BY <1>1, ListLengths DEF Remaining

LEMMA StepsWhole ==
    /\ WaitSteps \in Nat /\ DeploySteps \in Nat /\ UpSteps \in Nat
    /\ WaitSteps = Len(WaitOrder) + Patience + 3
    /\ DeploySteps = 2 * Len(SeedOrder) + 6
    /\ UpSteps = WaitSteps + DeploySteps + 1
BY ListLengths DEF WaitSteps, DeploySteps, UpSteps

LEMMA StepsCount == \A r \in Runs : StepsToGo(r) \in Nat
<1> SUFFICES ASSUME NEW r \in Runs PROVE StepsToGo(r) \in Nat
  OBVIOUS
<1>1. r.pc \in Sections /\ r.budget \in Nat
  BY ListLengths DEF Runs
<1>2. CASE r.pc \in {"poll", "migrate", "seed"}
  BY <1>1, <1>2, StepsAfter, ListsLeft, ListLengths
<1>3. CASE r.pc \in {"wait", "pg", "fallback"}
  BY <1>3, StepsAfter, StepsWhole
<1>4. CASE r.pc \in {"keys", "ensure", "gen", "genkey", "pubout", "pubkey", "env", "fill", "up"}
  <2>0. UpSteps \in Nat
    BY StepsWhole
  <2>1. \E n \in 0..7 : StepsToGo(r) = UpSteps + n
    BY <1>4, <2>0, StepsBefore
  <2> QED
    BY <2>0, <2>1
<1>5. CASE r.pc \in {"idle", "ready", "failed", "stopped"}
  BY <1>5, NoStepsLeft
<1> QED
  BY <1>1, <1>2, <1>3, <1>4, <1>5 DEF Sections

\* Bounds on what is left, for the sections where it depends on a position in a list.
LEMMA StepsFrom ==
    ASSUME NEW r \in Runs
    PROVE  /\ r.pc \notin {"idle", "ready", "failed", "stopped"} => StepsToGo(r) > 0
           /\ r.pc = "poll" => StepsToGo(r) < WaitSteps
           /\ r.pc = "migrate" /\ r.at = 1 => StepsToGo(r) < DeploySteps
           /\ r.pc = "migrate" => StepsToGo(r) > Len(SeedOrder) + 2
           /\ r.pc = "seed" => StepsToGo(r) > 1
           /\ r.pc = "seed" /\ r.at = 1 => StepsToGo(r) = Len(SeedOrder) + 2
<1>1. r.pc \in Sections /\ r.budget \in 0..Patience
  BY DEF Runs
<1>2. r.pc = "poll" => StepsToGo(r) < WaitSteps /\ StepsToGo(r) > 0
  BY <1>1, StepsAfter, ListsLeft, ListLengths, StepsWhole
<1>3. r.pc = "migrate" /\ r.at = 1 => StepsToGo(r) < DeploySteps
  BY StepsAfter, ListsLeft, ListLengths, StepsWhole
<1>4. r.pc = "migrate" => StepsToGo(r) > Len(SeedOrder) + 2
  BY StepsAfter, ListsLeft, ListLengths
<1>5. /\ r.pc = "seed" => StepsToGo(r) > 1
      /\ r.pc = "seed" /\ r.at = 1 => StepsToGo(r) = Len(SeedOrder) + 2
  BY StepsAfter, ListsLeft, ListLengths
<1>6. ASSUME r.pc \notin {"idle", "ready", "failed", "stopped", "poll", "migrate", "seed"}
      PROVE  StepsToGo(r) > 0
  BY <1>1, <1>6, StepsBefore, StepsAfter, StepsWhole, ListLengths DEF Sections
<1>7. CASE r.pc \notin {"idle", "ready", "failed", "stopped"}
  <2>1. StepsToGo(r) > 0
    BY <1>1, <1>2, <1>4, <1>5, <1>6, <1>7, StepsCount, ListLengths DEF Sections
  <2> QED BY <1>2, <1>3, <1>4, <1>5, <2>1
<1> QED
  BY <1>2, <1>3, <1>4, <1>5, <1>7

\* Where a section leads to, and that each of these is closer to the end.
LEMMA SectionsAdvance ==
    ASSUME NEW r \in Runs, NEW s \in Runs,
           \/ r.pc \notin {"idle", "ready", "failed", "stopped"}
              /\ s.pc \in {"ready", "failed", "stopped"}
           \/ r.pc \in {"keys", "ensure"} /\ s.pc \in {"gen", "env", "up"}
           \/ r.pc = "gen" /\ s.pc = "genkey"
           \/ r.pc = "genkey" /\ s.pc = "pubout"
           \/ r.pc = "pubout" /\ s.pc = "pubkey"
           \/ r.pc = "pubkey" /\ s.pc \in {"env", "up"}
           \/ r.pc = "env" /\ s.pc \in {"fill", "up"}
           \/ r.pc = "fill" /\ s.pc = "up"
           \/ r.pc = "up" /\ s.pc \in {"wait", "pg"}
           \/ r.pc = "wait" /\ s.pc = "poll"
           \/ r.pc = "pg" /\ s.pc = "migrate" /\ s.at = 1
           \/ r.pc = "migrate" /\ s.pc = "seed" /\ s.at = 1
           \/ r.pc \in {"migrate", "seed"} /\ s.pc = "fallback"
    PROVE  StepsToGo(s) < StepsToGo(r)
<1>0. UpSteps \in Nat
  BY StepsWhole
<1>1. CASE s.pc \in {"ready", "failed", "stopped"}
  <2>1. StepsToGo(s) = 0
    BY <1>1, NoStepsLeft
  <2>2. r.pc \notin {"idle", "ready", "failed", "stopped"}
    BY <1>1
  <2> QED BY <2>1, <2>2, StepsFrom
<1>2. CASE s.pc \in {"gen", "env"}
  BY <1>0, <1>2, StepsBefore
<1>3. CASE s.pc \in {"genkey", "pubout", "pubkey"}
  BY <1>0, <1>3, StepsBefore
<1>4. CASE s.pc \in {"fill", "up"}
  BY <1>0, <1>4, StepsBefore
<1>5. CASE s.pc \in {"wait", "pg"}
  <2>1. StepsToGo(r) = UpSteps
    BY <1>5, StepsBefore
  <2>2. StepsToGo(s) \in {WaitSteps, DeploySteps}
    BY <1>5, StepsAfter
  <2> QED BY <2>1, <2>2, StepsWhole
<1>6. CASE s.pc \in {"poll", "migrate"}
  BY <1>6, StepsAfter, StepsFrom
<1>7. CASE s.pc = "seed"
  BY <1>7, StepsFrom
<1>8. CASE s.pc = "fallback"
  <2>1. StepsToGo(s) = 1 /\ StepsToGo(r) > 1
    BY <1>8, StepsAfter, StepsFrom, StepsCount, ListLengths
  <2> QED BY <2>1
<1> QED
  BY <1>1, <1>2, <1>3, <1>4, <1>5, <1>6, <1>7, <1>8

\* A step inside one of the loops: the next service, or the next poll.
LEMMA LoopsAdvance ==
    ASSUME NEW r \in Runs, NEW s \in Runs, s.pc = r.pc,
           \/ r.pc = "poll" /\ r.at <= Len(WaitOrder) /\ s.at = r.at + 1 /\ s.budget = r.budget
           \/ r.pc = "poll" /\ s.at = r.at /\ s.budget < r.budget
           \/ r.pc \in {"migrate", "seed"} /\ r.at <= Len(SeedOrder) /\ s.at = r.at + 1
    PROVE  StepsToGo(s) < StepsToGo(r)
<1>1. r.at \in Nat /\ s.at \in Nat /\ r.budget \in Nat /\ s.budget \in Nat
  BY ListLengths DEF Runs
<1>2. CASE r.pc = "poll"
  <2>1. /\ StepsToGo(r) = Remaining(WaitOrder, r.at) + r.budget + 1
        /\ StepsToGo(s) = Remaining(WaitOrder, s.at) + s.budget + 1
    BY <1>2, StepsAfter
  <2>2. CASE r.at <= Len(WaitOrder) /\ s.at = r.at + 1
    <3>1. Remaining(WaitOrder, r.at) = Len(WaitOrder) + 1 - r.at
          /\ Remaining(WaitOrder, s.at) = Len(WaitOrder) - r.at
      BY <1>1, <2>2, ListLengths DEF Remaining
    <3> QED BY <1>1, <1>2, <2>1, <2>2, <3>1, ListLengths
  <2>3. CASE s.at = r.at /\ s.budget < r.budget
    BY <1>1, <2>1, <2>3, ListsLeft, ListLengths
  <2> QED BY <1>2, <2>2, <2>3
<1>3. CASE r.pc \in {"migrate", "seed"}
  <2>1. \E n \in Nat : /\ StepsToGo(r) = Remaining(SeedOrder, r.at) + n
                       /\ StepsToGo(s) = Remaining(SeedOrder, s.at) + n
    <3>1. CASE r.pc = "migrate"
      <4>1. /\ StepsToGo(r) = Remaining(SeedOrder, r.at) + Len(SeedOrder) + 4
            /\ StepsToGo(s) = Remaining(SeedOrder, s.at) + Len(SeedOrder) + 4
        BY <3>1, StepsAfter
      <4>2. /\ StepsToGo(r) = Remaining(SeedOrder, r.at) + (Len(SeedOrder) + 4)
            /\ StepsToGo(s) = Remaining(SeedOrder, s.at) + (Len(SeedOrder) + 4)
        BY <4>1, ListsLeft, ListLengths
      <4> QED BY <4>2, ListLengths
    <3>2. CASE r.pc = "seed"
      BY <3>2, StepsAfter
    <3> QED BY <1>3, <3>1, <3>2
  <2>2. Remaining(SeedOrder, r.at) = Len(SeedOrder) + 1 - r.at
        /\ Remaining(SeedOrder, s.at) = Len(SeedOrder) - r.at
    BY <1>1, <1>3, ListLengths DEF Remaining
  <2> QED BY <1>1, <2>1, <2>2, ListLengths
<1> QED
  BY <1>2, <1>3

GetsOn == run' = run \/ StepsToGo(run') < StepsToGo(run)

LEMMA GeneratorGetsOn == TypeOK /\ TypeOK' /\ (Generator \/ Up \/ UpFails \/ Stop) => GetsOn
<1> SUFFICES ASSUME TypeOK, TypeOK', Generator \/ Up \/ UpFails \/ Stop PROVE GetsOn
  OBVIOUS
<1>1. run \in Runs /\ run' \in Runs
  BY DEF TypeOK
<1>2. CASE Generator
  <2>1. \/ run.pc = "gen" /\ run'.pc \in {"failed", "genkey"}
        \/ run.pc = "genkey" /\ run'.pc = "pubout"
        \/ run.pc = "pubout" /\ run'.pc = "pubkey"
        \/ run.pc = "pubkey" /\ run'.pc \in {"env", "up"}
    BY <1>1, <1>2 DEF Generator, GenRefuses, GenOpensPrivate, GenWritesPrivate, GenOpensPublic,
                      GenWritesPublic, AfterKeys, Goto, Runs
  <2> QED BY <1>1, <2>1, SectionsAdvance DEF GetsOn
<1>3. CASE Up \/ UpFails
  <2>1. run.pc = "up" /\ run'.pc \in {"wait", "pg", "failed"}
    BY <1>1, <1>3 DEF Up, UpFails, Goto, Runs
  <2> QED BY <1>1, <2>1, SectionsAdvance DEF GetsOn
<1>4. CASE Stop
  <2>1. run.pc \notin {"idle", "ready", "failed", "stopped"} /\ run'.pc = "stopped"
    BY <1>1, <1>4 DEF Stop, Running, Goto, Runs
  <2> QED BY <1>1, <2>1, SectionsAdvance DEF GetsOn
<1> QED BY <1>2, <1>3, <1>4

LEMMA BootstrapGetsOn == TypeOK /\ TypeOK' /\ BootstrapRuns => GetsOn
<1> SUFFICES ASSUME TypeOK, TypeOK', BootstrapRuns PROVE GetsOn
  OBVIOUS
<1>1. run \in Runs /\ run' \in Runs
  BY DEF TypeOK
<1>2. CASE KeysKept \/ KeysMissing \/ EnvKept \/ EnvOpens \/ EnvFills \/ WaitStarts \/ Seeds
  <2>1. \/ run.pc = "keys" /\ run'.pc \in {"env", "gen"}
        \/ run.pc = "env" /\ run'.pc \in {"fill", "up"}
        \/ run.pc = "fill" /\ run'.pc = "up"
        \/ run.pc = "wait" /\ run'.pc = "poll"
        \/ run.pc = "poll" /\ run'.pc \in {"ready", "failed"}
    BY <1>1, <1>2 DEF KeysKept, KeysMissing, EnvKept, EnvOpens, EnvFills, WaitStarts, Seeds,
                      Goto, Runs
  <2> QED BY <1>1, <2>1, SectionsAdvance DEF GetsOn
<1>3. CASE ServiceUp \/ PollAgain \/ WaitOver
  <2>1. run.pc = "poll" /\ run.at <= Len(WaitOrder)
    BY <1>3 DEF ServiceUp, PollAgain, WaitOver, Polling
  <2>2. \/ run'.pc = "failed"
        \/ run'.pc = "poll" /\ run'.at = run.at + 1 /\ run'.budget = run.budget
        \/ run'.pc = "poll" /\ run'.at = run.at /\ run'.budget < run.budget
    BY <1>1, <1>3, <2>1, ListLengths DEF ServiceUp, PollAgain, WaitOver, Runs
  <2>3. CASE run'.pc = "failed"
    BY <1>1, <2>1, <2>3, SectionsAdvance DEF GetsOn
  <2>4. CASE run'.pc = "poll"
    BY <1>1, <2>1, <2>2, <2>4, LoopsAdvance DEF GetsOn
  <2> QED BY <2>2, <2>3, <2>4
<1> QED BY <1>2, <1>3 DEF BootstrapRuns

LEMMA DeployGetsOn == TypeOK /\ TypeOK' /\ DeployRuns => GetsOn
<1> SUFFICES ASSUME TypeOK, TypeOK', DeployRuns PROVE GetsOn
  OBVIOUS
<1>1. run \in Runs /\ run' \in Runs
  BY DEF TypeOK
<1>2. CASE EnsureKeys \/ PostgresReady \/ SeedScript \/ SeedOver \/ Fallback
  <2>1. \/ run.pc = "ensure" /\ run'.pc \in {"up", "gen"}
        \/ run.pc = "pg" /\ run'.pc = "migrate" /\ run'.at = 1
        \/ run.pc = "migrate" /\ run'.pc = "seed" /\ run'.at = 1
        \/ run.pc \in {"migrate", "seed"} /\ run'.pc = "fallback"
        \/ run.pc \in {"seed", "fallback"} /\ run'.pc \in {"ready", "failed"}
    BY <1>1, <1>2 DEF EnsureKeys, PostgresReady, SeedScript, SeedOver, Fallback, Over, Goto, Runs
  <2> QED BY <1>1, <2>1, SectionsAdvance DEF GetsOn
<1>3. CASE Migrate \/ SeedSkips \/ SeedOne \/ SeedFails
  <2>1. run.pc \in {"migrate", "seed"} /\ run.at <= Len(SeedOrder)
    BY <1>3 DEF Migrate, SeedSkips, SeedOne, SeedFails, InOrder
  <2>2. \/ run'.pc = "failed"
        \/ run'.pc = run.pc /\ run'.at = run.at + 1 /\ run'.budget = run.budget
    BY <1>1, <1>3 DEF Migrate, SeedSkips, SeedOne, SeedFails, Runs
  <2>3. CASE run'.pc = "failed"
    BY <1>1, <2>1, <2>3, SectionsAdvance DEF GetsOn
  <2>4. CASE run'.pc = run.pc
    BY <1>1, <2>1, <2>2, <2>4, LoopsAdvance DEF GetsOn
  <2> QED BY <2>2, <2>3, <2>4
<1> QED BY <1>2, <1>3 DEF DeployRuns

\* Every step of a run of bootstrap.sh or deploy.sh brings it closer to its end, for any
\* number of services, any patience and whatever the containers do meanwhile: the loops over
\* the services and the polls under one DEADLINE (bootstrap.sh:102-119) never start over.
\* A bound on steps, not on time: a poll that never returns (:107) is no step.
THEOREM RunsGetOn ==
    Spec => [][Running => StepsToGo(run) \in Nat
                          /\ (run' = run \/ StepsToGo(run') < StepsToGo(run))]_vars
<1>1. ASSUME TypeOK, TypeOK', [Next]_vars
      PROVE  [Running => StepsToGo(run) \in Nat
                         /\ (run' = run \/ StepsToGo(run') < StepsToGo(run))]_vars
  <2> SUFFICES ASSUME Running PROVE StepsToGo(run) \in Nat /\ GetsOn
    BY DEF GetsOn
  <2>1. StepsToGo(run) \in Nat
    BY <1>1, StepsCount DEF TypeOK
  <2>2. CASE UNCHANGED vars
    BY <2>1, <2>2 DEF vars, GetsOn
  <2>3. CASE ScriptRuns \/ Stop
    BY <1>1, <2>1, <2>3, GeneratorGetsOn, BootstrapGetsOn, DeployGetsOn DEF ScriptRuns
  <2>4. CASE Starts \/ Exit \/ Operator
    BY <2>4 DEF Running, Starts, BootstrapStarts, BeginBootstrap, BeginDeploy, Exit, Operator,
                RemoveKeys, RemoveEnv, BootstrapCommands, ResetFails, Down, ResetBootstrap
  <2>5. CASE \E s \in Services : Answers(s) \/ Dies(s)
    BY <2>1, <2>5 DEF Answers, Dies, GetsOn
  <2> QED
    BY <1>1, <2>1, <2>2, <2>3, <2>4, <2>5 DEF Next, Disturbance
<1> QED
  BY <1>1, TypeCorrect, PTL DEF Spec
=============================================================================

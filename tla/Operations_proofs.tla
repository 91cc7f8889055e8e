-------------------------- MODULE Operations_proofs --------------------------
(***************************************************************************)
(* Proofs about Operations: what each program promises, in every reachable *)
(* state and for every value of the constants that satisfies the           *)
(* assumptions of Operations.  Each component has a section: its inductive *)
(* invariant, a lemma per action or per part of it, and the promises the   *)
(* invariant implies; the theorems of the specification come last.         *)
(***************************************************************************)
EXTENDS Operations, WellFoundedInduction, FiniteSetTheorems, TLAPS

-----------------------------------------------------------------------------
(* Sets of numbers *)

\* A number of a set of numbers is the least.
LEMMA LeastNatural ==
  ASSUME NEW S \in SUBSET Nat, S # {}
  PROVE  \E n \in S : \A m \in S : n <= m
<1> DEFINE R == {p \in Nat \X Nat : p[1] < p[2]}
<1>1. IsWellFoundedOn(R, Nat)
  BY NatLessThanWellFounded, SMT DEF OpToRel
<1>2. PICK n \in S : \A m \in S : ~ (<<m, n>> \in R)
  <2> HIDE DEF R
  <2> QED
    BY <1>1, WFMin
<1>3. \A m \in S : ~ (m < n)
  BY <1>2
<1> QED
  BY <1>3

\* And one of a bounded set is the greatest.
LEMMA GreatestNatural ==
  ASSUME NEW N \in Nat, NEW S \in SUBSET (0 .. N), S # {}
  PROVE  \E n \in S : \A m \in S : n >= m
<1> DEFINE T == {n \in Nat : n <= N /\ N - n \in S}
<1>1. T \in SUBSET Nat /\ T # {}
  <2>1. PICK m \in S : TRUE
    OBVIOUS
  <2>2. m \in Nat /\ m <= N /\ N - m \in Nat /\ N - m <= N /\ N - (N - m) = m
    BY <2>1
  <2>3. N - m \in T
    BY <2>1, <2>2
  <2> QED
    BY <2>3
<1> HIDE DEF T
<1>2. PICK n \in T : \A m \in T : n <= m
  BY <1>1, LeastNatural
<1>3. n \in Nat /\ n <= N /\ N - n \in S
  BY DEF T
<1>4. ASSUME NEW m \in S PROVE N - n >= m
  <2>1. m \in Nat /\ m <= N /\ N - m \in Nat /\ N - m <= N /\ N - (N - m) = m
    OBVIOUS
  <2>2. N - m \in T
    BY <2>1 DEF T
  <2> QED
    BY <1>2, <1>3, <2>1, <2>2
<1> QED
  BY <1>3, <1>4

-----------------------------------------------------------------------------
(* Deployment *)

\* The release of the newest record, which runs and is current between deployments.
LastRun == IF ledger = <<>> THEN None ELSE ledger[Len(ledger)].release

Touching == {"web", "ready", "smoke", "record"}

Job == [step : {"idle", "preflight", "migrate", "verify", "api", "web", "ready", "smoke",
                "record", "current"},
        release : Release \cup {None}, mode : {"deploy", "rollback"}, migrate : BOOLEAN,
        smoke : {"passed", "failed", "not-run"}]

DeploymentTypes ==
    /\ running \in [{"api", "web"} -> Release \cup {None}]
    /\ applied \in Nat /\ ledger \in Seq(Deployment!Record)
    /\ job \in [Deployer -> Job]
    /\ \A d \in Deployer : /\ job[d].step # "idle" => job[d].release \in Release
                           /\ job[d].step = "idle" => job[d] = Deployment!Idle

\* A head that was verified stays high enough: migrations are not taken back.
HeadHolds ==
    VerifyMigrations =>
        \A d \in Deployer : job[d].step \in {"api", "web"} => MigrationsOf[job[d].release] <= applied

\* What runs is what the ledger says, but for the deployment under way.
LedgerTracks(d) ==
    /\ job[d].step \in {"idle", "preflight", "migrate", "verify", "api", "web"} =>
          running["web"] = LastRun
    /\ job[d].step \in {"idle", "preflight", "migrate", "verify", "api"} =>
          running["api"] = LastRun
    /\ job[d].step \in {"web", "ready", "smoke", "record", "current"} =>
          running["api"] = job[d].release
    /\ job[d].step \in {"ready", "smoke", "record", "current"} => running["web"] = job[d].release
    /\ job[d].step = "current" => ledger # <<>> /\ LastRun = job[d].release
    /\ job[d].step # "idle" /\ job[d].mode = "rollback" => ledger # <<>>

\* What a rollback replaced stands in the ledger before the record of a rollback.
EscapedIsNamed(d) ==
    escaped \subseteq Deployment!RolledAwayFrom
       \cup (IF job[d].step \in Touching /\ job[d].mode = "rollback" THEN {LastRun} ELSE {})

DeploymentInv ==
    /\ DeploymentTypes /\ HeadHolds /\ Deployment!SchemaCoversCode
    /\ astray = {} => \A d \in Deployer : LedgerTracks(d) /\ EscapedIsNamed(d)

\* A host nothing was deployed to satisfies the invariant.
LEMMA DeploymentInit == Deployment!Init => DeploymentInv
<1> SUFFICES ASSUME Deployment!Init PROVE DeploymentInv
  OBVIOUS
<1> USE DeploymentAssumption DEF Deployment!Init
<1>1. Deployment!Idle \in Job
  BY DEF Job, Deployment!Idle
<1>2. DeploymentTypes
  BY <1>1 DEF DeploymentTypes, Deployment!Idle
<1>3. HeadHolds /\ Deployment!SchemaCoversCode
  BY DEF HeadHolds, Deployment!SchemaCoversCode, Deployment!Idle
<1>4. \A d \in Deployer : LedgerTracks(d) /\ EscapedIsNamed(d)
  BY DEF LedgerTracks, EscapedIsNamed, LastRun, Deployment!Idle
<1> QED
  BY <1>2, <1>3, <1>4 DEF DeploymentInv

JobTypes ==
    /\ job \in [Deployer -> Job]
    /\ \A d \in Deployer : /\ job[d].step # "idle" => job[d].release \in Release
                           /\ job[d].step = "idle" => job[d] = Deployment!Idle

\* A deployment goes to a step; with its smoke test, or to an end.
LEMMA GotoStep ==
  ASSUME DeploymentTypes, NEW d \in Deployer, job[d].step # "idle",
         NEW s \in {"migrate", "verify", "api", "web", "ready", "smoke", "record", "current"},
         Deployment!Goto(d, s)
  PROVE  /\ JobTypes' /\ job'[d].step = s
         /\ job'[d].release = job[d].release /\ job'[d].mode = job[d].mode
<1>1. job \in [Deployer -> Job] /\ job[d].release \in Release
  BY DEF DeploymentTypes
<1>2. [job[d] EXCEPT !.step = s] \in Job
  BY <1>1 DEF Job
<1>3. job' = [job EXCEPT ![d] = [job[d] EXCEPT !.step = s]]
  BY <1>1 DEF Deployment!Goto
<1>4. job' \in [Deployer -> Job] /\ job'[d] = [job[d] EXCEPT !.step = s]
  BY <1>1, <1>2, <1>3
<1>5. /\ job'[d].step = s /\ job'[d].release = job[d].release /\ job'[d].mode = job[d].mode
  BY <1>1, <1>4 DEF Job
<1> QED
  BY <1>1, <1>4, <1>5, DeploymentAssumption DEF JobTypes

\* A script that ends gives its operator nothing to go on with.
LEMMA EndStep ==
  ASSUME DeploymentTypes, NEW d \in Deployer, NEW w, Deployment!Die(d, w)
  PROVE  JobTypes' /\ job'[d] = Deployment!Idle /\ job'[d].step = "idle"
<1>1. Deployment!Idle \in Job /\ Deployment!Idle.step = "idle"
  BY DEF Job, Deployment!Idle
<1>2. job' = [job EXCEPT ![d] = Deployment!Idle]
  BY DEF Deployment!Die
<1>3. job' \in [Deployer -> Job] /\ job'[d] = Deployment!Idle
  BY <1>1, <1>2 DEF DeploymentTypes
<1> QED
  BY <1>1, <1>3, DeploymentAssumption DEF JobTypes

\* A script that starts is in its preflights, with the release and mode it was given.
LEMMA BeginStep ==
  ASSUME DeploymentTypes, NEW d \in Deployer, NEW r \in Release, NEW m \in {"deploy", "rollback"},
         NEW b \in BOOLEAN, Deployment!Start(d, r, m, b)
  PROVE  /\ JobTypes' /\ job'[d].step = "preflight"
         /\ job'[d].release = r /\ job'[d].mode = m
<1> DEFINE new == [step |-> "preflight", release |-> r, mode |-> m, migrate |-> b,
                   smoke |-> "not-run"]
<1>1. new \in Job /\ new.step = "preflight" /\ new.release = r /\ new.mode = m
  BY DEF Job
<1>2. job' = [job EXCEPT ![d] = new]
  BY DEF Deployment!Start
<1> HIDE DEF new
<1>3. job' \in [Deployer -> Job] /\ job'[d] = new
  BY <1>1, <1>2 DEF DeploymentTypes
<1> QED
  BY <1>1, <1>3, DeploymentAssumption DEF JobTypes

\* A smoke test leaves release and mode of the attempt as they are.
LEMMA SmokeStep ==
  ASSUME DeploymentTypes, NEW d \in Deployer, Deployment!SmokeTest(d)
  PROVE  /\ JobTypes' /\ job'[d].step = "record"
         /\ job'[d].release = job[d].release /\ job'[d].mode = job[d].mode
<1>1. job \in [Deployer -> Job] /\ job[d].release \in Release /\ job[d].step = "smoke"
  BY DEF DeploymentTypes, Deployment!SmokeTest, Deployment!At
<1>2. PICK m \in {"passed", "failed"} : job' = [job EXCEPT ![d].smoke = m, ![d].step = "record"]
  BY DEF Deployment!SmokeTest
<1> DEFINE new == [job[d] EXCEPT !.smoke = m, !.step = "record"]
<1>3. new \in Job /\ new.step = "record" /\ new.release = job[d].release /\ new.mode = job[d].mode
  BY <1>1, <1>2 DEF Job
<1>4. job' = [job EXCEPT ![d] = new]
  BY <1>1, <1>2
<1> HIDE DEF new
<1>5. job' \in [Deployer -> Job] /\ job'[d] = new
  BY <1>1, <1>3, <1>4
<1> QED
  BY <1>1, <1>3, <1>5, DeploymentAssumption DEF JobTypes

\* A new record leaves the releases that were named before, and a rollback names
\* the one before it.
LEMMA RecordAdds ==
  ASSUME ledger \in Seq(Deployment!Record), NEW e \in Deployment!Record,
         ledger' = Append(ledger, e)
  PROVE  /\ ledger' \in Seq(Deployment!Record) /\ ledger' # <<>> /\ LastRun' = e.release
         /\ Deployment!RolledAwayFrom \subseteq Deployment!RolledAwayFrom'
         /\ e.mode = "rollback" /\ ledger # <<>> => LastRun \in Deployment!RolledAwayFrom'
<1>1. /\ Len(ledger) \in Nat /\ Len(ledger') = Len(ledger) + 1 /\ ledger' \in Seq(Deployment!Record)
      /\ ledger'[Len(ledger) + 1] = e /\ \A i \in 1 .. Len(ledger) : ledger'[i] = ledger[i]
  OBVIOUS
<1>2. ledger' # <<>> /\ LastRun' = e.release
  BY <1>1 DEF LastRun
<1>3. ASSUME NEW x \in Deployment!RolledAwayFrom PROVE x \in Deployment!RolledAwayFrom'
  <2>1. PICK i \in 2 .. Len(ledger) : ledger[i].mode = "rollback" /\ x = ledger[i - 1].release
    BY <1>3 DEF Deployment!RolledAwayFrom
  <2>2. i \in 2 .. Len(ledger') /\ i \in 1 .. Len(ledger) /\ i - 1 \in 1 .. Len(ledger)
    BY <1>1, <2>1
  <2>3. ledger'[i].mode = "rollback" /\ x = ledger'[i - 1].release
    BY <1>1, <2>1, <2>2
  <2> QED
    BY <2>2, <2>3 DEF Deployment!RolledAwayFrom
<1>4. ASSUME e.mode = "rollback", ledger # <<>> PROVE LastRun \in Deployment!RolledAwayFrom'
  <2>1. Len(ledger) > 0 /\ LastRun = ledger[Len(ledger)].release
    BY <1>4 DEF LastRun
  <2>2. Len(ledger) + 1 \in 2 .. Len(ledger') /\ ledger'[Len(ledger) + 1].mode = "rollback"
    BY <1>1, <1>4, <2>1
  <2>3. LastRun = ledger'[(Len(ledger) + 1) - 1].release
    BY <1>1, <2>1
  <2> QED
    BY <2>2, <2>3 DEF Deployment!RolledAwayFrom
<1> QED
  BY <1>1, <1>2, <1>3, <1>4

\* Every step keeps the types.
LEMMA DeploymentTyped == DeploymentTypes /\ Deployment!Next => DeploymentTypes'
<1> SUFFICES ASSUME DeploymentTypes, Deployment!Next PROVE DeploymentTypes'
  OBVIOUS
<1>t. /\ running \in [{"api", "web"} -> Release \cup {None}] /\ applied \in Nat
      /\ ledger \in Seq(Deployment!Record) /\ job \in [Deployer -> Job]
      /\ \A d \in Deployer : job[d].step # "idle" => job[d].release \in Release
  BY DEF DeploymentTypes
<1>q. JobTypes' /\ running' \in [{"api", "web"} -> Release \cup {None}]
        /\ applied' \in Nat /\ ledger' \in Seq(Deployment!Record) => DeploymentTypes'
  BY DEF DeploymentTypes, JobTypes
<1> USE DEF Deployment!At
<1>1. ASSUME NEW d \in Deployer, NEW r \in Release, Deployment!Deploy(d, r) \/ Deployment!Rollback(d, r)
      PROVE  DeploymentTypes'
  <2>1. PICK m \in {"deploy", "rollback"}, b \in BOOLEAN : Deployment!Start(d, r, m, b)
    BY <1>1 DEF Deployment!Deploy, Deployment!Rollback
  <2>2. UNCHANGED <<running, applied, ledger>>
    BY <2>1 DEF Deployment!Start
  <2> QED
    BY <1>t, <1>q, <2>1, <2>2, BeginStep
<1>2. ASSUME NEW d \in Deployer,
             Deployment!Refuse(d) \/ Deployment!NotReady(d) \/ Deployment!WriteCurrent(d)
                \/ Deployment!Interrupt(d) \/ Deployment!UpFails(d)
      PROVE  DeploymentTypes'
  <2>1. \E w : Deployment!Die(d, w)
    BY <1>2 DEF Deployment!Refuse, Deployment!NotReady, Deployment!WriteCurrent,
                Deployment!Interrupt, Deployment!UpFails
  <2>2. UNCHANGED <<applied, ledger>>
    BY <1>2 DEF Deployment!Refuse, Deployment!NotReady, Deployment!WriteCurrent,
                Deployment!Interrupt, Deployment!UpFails
  <2>3. running' \in [{"api", "web"} -> Release \cup {None}]
    <3>1. CASE UNCHANGED running
      BY <1>t, <3>1
    <3>2. ASSUME NEW c \in {"api", "web"}, job[d].step = c, Deployment!Up(d, c)
          PROVE  running' \in [{"api", "web"} -> Release \cup {None}]
      BY <1>t, <3>2 DEF Deployment!Up
    <3> QED
      BY <1>2, <3>1, <3>2
      DEF Deployment!Refuse, Deployment!NotReady, Deployment!WriteCurrent,
          Deployment!Interrupt, Deployment!UpFails
  <2> QED
    BY <1>t, <1>q, <2>1, <2>2, <2>3, EndStep
<1>3. ASSUME NEW d \in Deployer, Deployment!UpContainer(d) PROVE DeploymentTypes'
  <2>1. PICK c \in {"api", "web"}, s \in {"web", "ready"} :
           job[d].step = c /\ Deployment!Up(d, c) /\ Deployment!Goto(d, s)
    BY <1>3 DEF Deployment!UpContainer
  <2>2. UNCHANGED <<applied, ledger>>
    BY <1>3 DEF Deployment!UpContainer
  <2>3. running' \in [{"api", "web"} -> Release \cup {None}]
    BY <1>t, <2>1 DEF Deployment!Up
  <2>4. JobTypes'
    BY <2>1, GotoStep
  <2> QED
    BY <1>t, <1>q, <2>2, <2>3, <2>4
<1>4. ASSUME NEW d \in Deployer, Deployment!Migrate(d) \/ Deployment!MigrateFails(d)
      PROVE  DeploymentTypes'
  <2>1. job[d].step = "migrate" /\ UNCHANGED <<running, ledger>>
    BY <1>4 DEF Deployment!Migrate, Deployment!MigrateFails
  <2>2. MigrationsOf[job[d].release] \in Nat
    BY <1>t, <2>1, DeploymentAssumption
  <2>3. Deployment!Larger(applied, MigrationsOf[job[d].release]) \in Nat
    BY <1>t, <2>2 DEF Deployment!Larger
  <2>4. applied' \in Nat
    BY <1>4, <1>t, <2>3 DEF Deployment!Migrate, Deployment!MigrateFails
  <2>5. JobTypes'
    BY <1>4, <2>1, GotoStep DEF Deployment!Migrate, Deployment!MigrateFails
  <2> QED
    BY <1>t, <1>q, <2>1, <2>4, <2>5
<1>5. ASSUME NEW d \in Deployer, Deployment!Preflight(d) \/ Deployment!Ready(d)
      PROVE  DeploymentTypes'
  <2>1. JobTypes'
    BY <1>5, GotoStep DEF Deployment!Preflight, Deployment!Ready
  <2> QED
    BY <1>t, <1>q, <1>5, <2>1 DEF Deployment!Preflight, Deployment!Ready
<1>6. ASSUME NEW d \in Deployer, Deployment!VerifyHead(d) PROVE DeploymentTypes'
  <2>1. JobTypes'
    BY <1>6, GotoStep, EndStep DEF Deployment!VerifyHead
  <2> QED
    BY <1>t, <1>q, <1>6, <2>1 DEF Deployment!VerifyHead
<1>7. ASSUME NEW d \in Deployer, Deployment!SmokeTest(d) PROVE DeploymentTypes'
  BY <1>t, <1>q, <1>7, SmokeStep DEF Deployment!SmokeTest
<1>8. ASSUME NEW d \in Deployer, Deployment!WriteRecord(d) PROVE DeploymentTypes'
  <2>1. JobTypes'
    BY <1>8, GotoStep DEF Deployment!WriteRecord
  <2>2. [release |-> job[d].release, mode |-> job[d].mode, smoke |-> job[d].smoke]
           \in Deployment!Record
    BY <1>t, <1>8
    DEF Deployment!WriteRecord, Job, Deployment!Record, Deployment!Mode, Deployment!Smoke
  <2>3. ledger' \in Seq(Deployment!Record)
    BY <1>t, <1>8, <2>2 DEF Deployment!WriteRecord
  <2> QED
    BY <1>t, <1>q, <1>8, <2>1, <2>3 DEF Deployment!WriteRecord
<1> QED
  BY <1>1, <1>2, <1>3, <1>4, <1>5, <1>6, <1>7, <1>8 DEF Deployment!Next

\* No step starts the API of a release whose head was not verified.
LEMMA HeadHoldsStep ==
  DeploymentInv /\ Deployment!Next => (HeadHolds /\ Deployment!SchemaCoversCode)'
<1> SUFFICES ASSUME DeploymentInv, Deployment!Next, VerifyMigrations
             PROVE  /\ \A q \in Deployer : job'[q].step \in {"api", "web"} =>
                          MigrationsOf[job'[q].release] <= applied'
                    /\ running'["api"] # None => MigrationsOf[running'["api"]] <= applied'
  BY DEF HeadHolds, Deployment!SchemaCoversCode
<1>t. /\ DeploymentTypes
      /\ running \in [{"api", "web"} -> Release \cup {None}] /\ applied \in Nat
      /\ \A d \in Deployer : job[d].step # "idle" => job[d].release \in Release
  BY DEF DeploymentInv, DeploymentTypes
<1>h. /\ \A q \in Deployer : job[q].step \in {"api", "web"} => MigrationsOf[job[q].release] <= applied
      /\ running["api"] # None => MigrationsOf[running["api"]] <= applied
  BY DEF DeploymentInv, HeadHolds, Deployment!SchemaCoversCode
<1> USE DeploymentAssumption DEF Deployment!At
\* A deployment that is not at the containers puts no demand on the head.
<1>n. ASSUME NEW d \in Deployer, job'[d].step \notin {"api", "web"}, UNCHANGED <<running, applied>>
      PROVE  /\ \A q \in Deployer : job'[q].step \in {"api", "web"} =>
                   MigrationsOf[job'[q].release] <= applied'
             /\ running'["api"] # None => MigrationsOf[running'["api"]] <= applied'
  BY <1>h, <1>n
<1>1. ASSUME NEW d \in Deployer, NEW r \in Release, Deployment!Deploy(d, r) \/ Deployment!Rollback(d, r)
      PROVE  job'[d].step \notin {"api", "web"} /\ UNCHANGED <<running, applied>>
  <2>1. PICK m \in {"deploy", "rollback"}, b \in BOOLEAN : Deployment!Start(d, r, m, b)
    BY <1>1 DEF Deployment!Deploy, Deployment!Rollback
  <2> QED
    BY <1>t, <2>1, BeginStep DEF Deployment!Start
<1>2. ASSUME NEW d \in Deployer,
             Deployment!Refuse(d) \/ Deployment!NotReady(d) \/ Deployment!WriteCurrent(d)
                \/ Deployment!Interrupt(d)
      PROVE  job'[d].step \notin {"api", "web"} /\ UNCHANGED <<running, applied>>
  BY <1>2, <1>t, EndStep
  DEF Deployment!Refuse, Deployment!NotReady, Deployment!WriteCurrent, Deployment!Interrupt
<1>3. ASSUME NEW d \in Deployer,
             Deployment!Preflight(d) \/ Deployment!Ready(d) \/ Deployment!WriteRecord(d)
      PROVE  job'[d].step \notin {"api", "web"} /\ UNCHANGED <<running, applied>>
  BY <1>3, <1>t, GotoStep DEF Deployment!Preflight, Deployment!Ready, Deployment!WriteRecord
<1>4. ASSUME NEW d \in Deployer, Deployment!SmokeTest(d)
      PROVE  job'[d].step \notin {"api", "web"} /\ UNCHANGED <<running, applied>>
  BY <1>4, <1>t, SmokeStep DEF Deployment!SmokeTest
\* Migrations are only added.
<1>5. ASSUME NEW d \in Deployer, Deployment!Migrate(d) \/ Deployment!MigrateFails(d)
      PROVE  /\ \A q \in Deployer : job'[q].step \in {"api", "web"} =>
                   MigrationsOf[job'[q].release] <= applied'
             /\ running'["api"] # None => MigrationsOf[running'["api"]] <= applied'
  <2>1. job[d].step = "migrate" /\ UNCHANGED running /\ job'[d].step \notin {"api", "web"}
    BY <1>5, <1>t, GotoStep DEF Deployment!Migrate, Deployment!MigrateFails
  <2>2. MigrationsOf[job[d].release] \in Nat
    BY <1>t, <2>1
  <2>3. applied' \in Nat /\ applied <= applied'
    BY <1>5, <1>t, <2>2 DEF Deployment!Migrate, Deployment!MigrateFails, Deployment!Larger
  <2>4. running["api"] # None => MigrationsOf[running["api"]] \in Nat
    BY <1>t
  <2> QED
    BY <1>t, <1>h, <2>1, <2>3, <2>4
<1>6. ASSUME NEW d \in Deployer, Deployment!VerifyHead(d)
      PROVE  /\ \A q \in Deployer : job'[q].step \in {"api", "web"} =>
                   MigrationsOf[job'[q].release] <= applied'
             /\ running'["api"] # None => MigrationsOf[running'["api"]] <= applied'
  <2>1. UNCHANGED <<running, applied>> /\ job[d].step = "verify"
    BY <1>6 DEF Deployment!VerifyHead
  <2>2. CASE Deployment!HeadMatches(d) /\ Deployment!Goto(d, "api")
    <3>1. applied = MigrationsOf[job[d].release] /\ job'[d].release = job[d].release
      BY <1>t, <2>1, <2>2, GotoStep DEF Deployment!HeadMatches
    <3> QED
      BY <1>t, <1>h, <2>1, <3>1
  <2>3. ASSUME NEW w, Deployment!Die(d, w) PROVE job'[d].step \notin {"api", "web"}
    BY <1>t, <2>3, EndStep
  <2> QED
    BY <1>6, <1>n, <2>1, <2>2, <2>3 DEF Deployment!VerifyHead
<1>7. ASSUME NEW d \in Deployer, Deployment!UpContainer(d) \/ Deployment!UpFails(d)
      PROVE  /\ \A q \in Deployer : job'[q].step \in {"api", "web"} =>
                   MigrationsOf[job'[q].release] <= applied'
             /\ running'["api"] # None => MigrationsOf[running'["api"]] <= applied'
  <2>1. UNCHANGED applied /\ job[d].step \in {"api", "web"}
    BY <1>7 DEF Deployment!UpContainer, Deployment!UpFails
  <2>2. running'["api"] \in {running["api"], job[d].release}
    BY <1>7, <1>t DEF Deployment!UpContainer, Deployment!UpFails, Deployment!Up
  <2>3. job'[d].step \in {"api", "web"} => job'[d].release = job[d].release
    BY <1>7, <1>t, <2>1, GotoStep, EndStep DEF Deployment!UpContainer, Deployment!UpFails
  <2> QED
    BY <1>h, <2>1, <2>2, <2>3
<1> QED
  BY <1>n, <1>1, <1>2, <1>3, <1>4, <1>5, <1>6, <1>7 DEF Deployment!Next

\* The facts of one deployment under way, as long as the ledger has kept up.
Tracks == \A d \in Deployer : LedgerTracks(d) /\ EscapedIsNamed(d)

\* Every step keeps the ledger and what runs together.
LEMMA LedgerTracksStep ==
  DeploymentInv /\ Deployment!Next => (astray = {} => Tracks)'
<1> SUFFICES ASSUME DeploymentInv, Deployment!Next, astray' = {} PROVE Tracks'
  BY DEF Tracks
<1>t. /\ DeploymentTypes /\ ledger \in Seq(Deployment!Record)
      /\ running \in [{"api", "web"} -> Release \cup {None}]
  BY DEF DeploymentInv, DeploymentTypes
<1>a. astray = {}
  BY DEF Deployment!Next, Deployment!Deploy, Deployment!Rollback, Deployment!Start,
         Deployment!Refuse, Deployment!Preflight, Deployment!Migrate, Deployment!MigrateFails,
         Deployment!VerifyHead, Deployment!UpContainer, Deployment!UpFails, Deployment!Ready,
         Deployment!NotReady, Deployment!SmokeTest, Deployment!WriteRecord,
         Deployment!WriteCurrent, Deployment!Interrupt, Deployment!Die
<1>h. \A d \in Deployer : LedgerTracks(d) /\ EscapedIsNamed(d)
  BY <1>a DEF DeploymentInv
<1>o. ASSUME NEW d \in Deployer, LedgerTracks(d)' /\ EscapedIsNamed(d)' PROVE Tracks'
  BY <1>o, DeploymentAssumption DEF Tracks
<1>u. UNCHANGED ledger => LastRun' = LastRun /\ Deployment!RolledAwayFrom' = Deployment!RolledAwayFrom
  BY DEF LastRun, Deployment!RolledAwayFrom
<1>d. /\ \A d \in Deployer : Deployment!NotReady(d) => FALSE
      /\ \A d \in Deployer : Deployment!UpFails(d) => FALSE
      /\ \A d \in Deployer : Deployment!Interrupt(d) => FALSE
      /\ \A d \in Deployer : Deployment!MigrateFails(d) => FALSE
  BY DEF Deployment!NotReady, Deployment!UpFails, Deployment!Interrupt,
         Deployment!MigrateFails, Deployment!Die
<1> USE DEF Deployment!At, LedgerTracks, EscapedIsNamed, Touching
<1>1. ASSUME NEW d \in Deployer, NEW r \in Release, Deployment!Deploy(d, r) \/ Deployment!Rollback(d, r)
      PROVE  Tracks'
  <2>1. PICK m \in {"deploy", "rollback"}, b \in BOOLEAN :
           Deployment!Start(d, r, m, b) /\ (m = "rollback" => Deployment!IsRollbackTarget(r))
    BY <1>1 DEF Deployment!Deploy, Deployment!Rollback
  <2>2. UNCHANGED <<running, ledger, escaped>> /\ job[d].step = "idle"
    BY <2>1 DEF Deployment!Start, Deployment!Idle
  <2>3. job'[d].step = "preflight" /\ job'[d].mode = m
    BY <1>t, <2>1, BeginStep
  <2>4. m = "rollback" => ledger # <<>>
    BY <2>1 DEF Deployment!IsRollbackTarget
  <2> QED
    BY <1>h, <1>o, <1>u, <2>2, <2>3, <2>4
<1>2. ASSUME NEW d \in Deployer, Deployment!Refuse(d) PROVE Tracks'
  <2>1. job'[d].step = "idle" /\ job[d].step = "preflight" /\ UNCHANGED <<running, ledger, escaped>>
    BY <1>2, <1>t, EndStep DEF Deployment!Refuse
  <2> QED
    BY <1>h, <1>o, <1>u, <2>1
<1>3. ASSUME NEW d \in Deployer, Deployment!Preflight(d) \/ Deployment!Migrate(d) PROVE Tracks'
  <2>1. /\ job[d].step \in {"preflight", "migrate"} /\ job'[d].step \in {"migrate", "verify"}
        /\ job'[d].mode = job[d].mode /\ UNCHANGED <<running, ledger, escaped>>
    BY <1>3, <1>t, GotoStep DEF Deployment!Preflight, Deployment!Migrate
  <2> QED
    BY <1>h, <1>o, <1>u, <2>1
<1>4. ASSUME NEW d \in Deployer, Deployment!VerifyHead(d) PROVE Tracks'
  <2>1. job[d].step = "verify" /\ UNCHANGED <<running, ledger, escaped>>
    BY <1>4 DEF Deployment!VerifyHead
  <2>2. \/ job'[d].step = "api" /\ job'[d].mode = job[d].mode
        \/ job'[d].step = "idle"
    BY <1>4, <1>t, <2>1, GotoStep, EndStep DEF Deployment!VerifyHead
  <2> QED
    BY <1>h, <1>o, <1>u, <2>1, <2>2
<1>5. ASSUME NEW d \in Deployer, Deployment!UpContainer(d) PROVE Tracks'
  <2>1. PICK c \in {"api", "web"} :
           /\ job[d].step = c /\ Deployment!Up(d, c) /\ UNCHANGED ledger
           /\ Deployment!Goto(d, IF c = "api" THEN "web" ELSE "ready")
    BY <1>5 DEF Deployment!UpContainer
  <2>2. /\ job'[d].step = IF c = "api" THEN "web" ELSE "ready"
        /\ job'[d].mode = job[d].mode /\ job'[d].release = job[d].release
    BY <1>t, <2>1, GotoStep
  <2>3. /\ running'[c] = job[d].release
        /\ \A x \in {"api", "web"} \ {c} : running'[x] = running[x]
    BY <1>t, <2>1 DEF Deployment!Up
  <2>4. running[c] = LastRun
    BY <1>h, <2>1
  <2>5. /\ job[d].mode # "rollback" => escaped' = escaped
        /\ escaped' \subseteq escaped \cup {LastRun}
    BY <2>1, <2>4 DEF Deployment!Up
  <2>6. LedgerTracks(d)'
    BY <1>h, <1>u, <2>1, <2>2, <2>3
  <2>7. EscapedIsNamed(d)'
    BY <1>h, <1>u, <2>1, <2>2, <2>5
  <2> QED
    BY <1>o, <2>6, <2>7
<1>6. ASSUME NEW d \in Deployer, Deployment!Ready(d) \/ Deployment!SmokeTest(d) PROVE Tracks'
  <2>1. /\ job[d].step \in {"ready", "smoke"} /\ job'[d].step \in {"smoke", "record"}
        /\ job'[d].mode = job[d].mode /\ job'[d].release = job[d].release
        /\ UNCHANGED <<running, ledger, escaped>>
    BY <1>6, <1>t, GotoStep, SmokeStep DEF Deployment!Ready, Deployment!SmokeTest
  <2> QED
    BY <1>h, <1>o, <1>u, <2>1
<1>7. ASSUME NEW d \in Deployer, Deployment!WriteRecord(d) PROVE Tracks'
  <2> DEFINE e == [release |-> job[d].release, mode |-> job[d].mode, smoke |-> job[d].smoke]
  <2>1. /\ job[d].step = "record" /\ job'[d].step = "current" /\ job'[d].mode = job[d].mode
        /\ job'[d].release = job[d].release /\ UNCHANGED <<running, escaped>>
        /\ ledger' = Append(ledger, e)
    BY <1>7, <1>t, GotoStep DEF Deployment!WriteRecord
  <2>2. e \in Deployment!Record /\ e.release = job[d].release /\ e.mode = job[d].mode
    BY <1>t, <2>1
    DEF DeploymentTypes, Job, Deployment!Record, Deployment!Mode, Deployment!Smoke
  <2> HIDE DEF e
  <2>3. /\ ledger' # <<>> /\ LastRun' = job[d].release
        /\ Deployment!RolledAwayFrom \subseteq Deployment!RolledAwayFrom'
        /\ job[d].mode = "rollback" /\ ledger # <<>> => LastRun \in Deployment!RolledAwayFrom'
    BY <1>t, <2>1, <2>2, RecordAdds
  <2>4. LedgerTracks(d)'
    BY <1>h, <2>1, <2>3
  <2>5. EscapedIsNamed(d)'
    BY <1>h, <2>1, <2>3
  <2> QED
    BY <1>o, <2>4, <2>5
<1>8. ASSUME NEW d \in Deployer, Deployment!WriteCurrent(d) PROVE Tracks'
  <2>1. /\ job[d].step = "current" /\ job'[d].step = "idle" /\ UNCHANGED <<running, ledger, escaped>>
        /\ job'[d].mode = "deploy"
    BY <1>8, <1>t, EndStep DEF Deployment!WriteCurrent, Deployment!Idle
  <2> QED
    BY <1>h, <1>o, <1>u, <2>1
<1> QED
  BY <1>d, <1>1, <1>2, <1>3, <1>4, <1>5, <1>6, <1>7, <1>8 DEF Deployment!Next

\* Every step of the deployment scripts preserves the invariant.
LEMMA DeploymentStep == DeploymentInv /\ Deployment!Next => DeploymentInv'
  BY DeploymentTyped, HeadHoldsStep, LedgerTracksStep DEF DeploymentInv, Tracks

\* A rollback starts a release that no rollback has replaced.
LEMMA RollbackAvoids == DeploymentInv /\ Deployment!Next => Deployment!AvoidsEscaped
<1> SUFFICES ASSUME DeploymentInv, Deployment!Next, NEW q \in Deployer, astray = {},
                    job[q] = Deployment!Idle, job'[q].mode = "rollback"
             PROVE  job'[q].release \notin escaped
  BY DEF Deployment!AvoidsEscaped
<1>t. DeploymentTypes /\ job[q].step = "idle" /\ job[q].mode = "deploy"
  BY DEF DeploymentInv, Deployment!Idle
<1>1. PICK d \in Deployer, r \in Release : Deployment!Deploy(d, r) \/ Deployment!Rollback(d, r)
  <2>1. \A d \in Deployer : d = q
    BY DeploymentAssumption
  <2> QED
    BY <1>t, <2>1
    DEF Deployment!Next, Deployment!Refuse, Deployment!Preflight, Deployment!Migrate,
        Deployment!MigrateFails, Deployment!VerifyHead, Deployment!UpContainer,
        Deployment!UpFails, Deployment!Ready, Deployment!NotReady, Deployment!SmokeTest,
        Deployment!WriteRecord, Deployment!WriteCurrent, Deployment!Interrupt, Deployment!At
<1>2. d = q
  BY DeploymentAssumption
<1>3. PICK m \in {"deploy", "rollback"}, b \in BOOLEAN :
         Deployment!Start(q, r, m, b) /\ (m = "rollback" => Deployment!IsRollbackTarget(r))
  BY <1>1, <1>2 DEF Deployment!Deploy, Deployment!Rollback
<1>4. job'[q].release = r /\ m = "rollback"
  BY <1>t, <1>3, BeginStep
<1>5. r \notin Deployment!RolledAwayFrom
  BY <1>3, <1>4 DEF Deployment!IsRollbackTarget, Deployment!Qualifies
<1>6. escaped \subseteq Deployment!RolledAwayFrom
  BY <1>t DEF DeploymentInv, EscapedIsNamed, Touching
<1> QED
  BY <1>4, <1>5, <1>6

-----------------------------------------------------------------------------
(* Release gates *)

\* A reading of the jobs of a run that was listed, or none yet.
Reading(x) == [GatesOf[x].checks -> Gates(x)!Job] \cup {None}

Polling(x) ==
    [step : {"idle", "list", "jobs", "done"}, listed : SUBSET Gates(x)!RunId,
     unread : SUBSET Gates(x)!RunId, jobs : [Gates(x)!RunId -> Reading(x)]]

GatesTypes(x) ==
    /\ runs \in [Gates(x)!RunId -> Gates(x)!Run \cup {None}]
    /\ verify \in [Sha -> Polling(x)]

\* A job that says success did succeed, and a run that is started again keeps its commit.
SuccessHappened(x) ==
    \A r \in Gates(x)!RunId : runs[r] # None =>
        \A k \in GatesOf[x].checks : runs[r].jobs[k] = "success" => <<runs[r].sha, k>> \in green

\* What a poll has listed are runs of its commit, and what it has read of them was so.
PollIsOfCommit(x) ==
    \A c \in Sha :
        /\ verify[c].step # "idle" => c \in Main
        /\ verify[c].unread \subseteq verify[c].listed
        /\ \A r \in verify[c].listed :
              /\ runs[r] # None /\ runs[r].sha = c
              /\ \A k \in GatesOf[x].checks :
                    verify[c].jobs[r] # None /\ verify[c].jobs[r][k] = "success"
                       => <<c, k>> \in green

\* Evidence is of a commit of the release branch whose checks did succeed.
EvidenceIsProven(x) ==
    \A f \in files :
        f.headSha \in Main /\ \A k \in GatesOf[x].checks : <<f.headSha, k>> \in green

GatesInv(x) ==
    /\ GatesTypes(x) /\ SuccessHappened(x) /\ PollIsOfCommit(x) /\ EvidenceIsProven(x)
    /\ Gates(x)!DeployableIsProven

\* Before any run the invariant holds.
LEMMA GatesInit == ASSUME NEW x, Gates(x)!Init PROVE GatesInv(x)
<1> USE DEF Gates!Init
<1>1. Gates(x)!Idle \in Polling(x)
  BY DEF Gates!Idle, Polling, Reading
<1>2. GatesTypes(x)
  BY <1>1 DEF GatesTypes
<1>3. SuccessHappened(x) /\ EvidenceIsProven(x) /\ Gates(x)!DeployableIsProven
  BY DEF SuccessHappened, EvidenceIsProven, Gates!DeployableIsProven
<1>4. PollIsOfCommit(x)
  BY DEF PollIsOfCommit, Gates!Idle
<1> QED
  BY <1>2, <1>3, <1>4 DEF GatesInv

\* The run that decides is one of those that were listed.
LEMMA NewestDecides ==
  ASSUME NEW x \in Gated, NEW S \in SUBSET Gates(x)!RunId, S # {}
  PROVE  Gates(x)!Max(S) \in S
<1>1. GatesOf[x].runs \in Nat /\ S \in SUBSET (0 .. GatesOf[x].runs)
  BY GatesAssumption DEF Gates!RunId
<1>2. \E n \in S : \A m \in S : n >= m
  BY <1>1, GreatestNatural
<1> QED
  BY <1>2 DEF Gates!Max

\* The gates are satisfied by jobs that succeeded.
LEMMA SatisfiedIsProven ==
  ASSUME NEW x \in Gated, GatesInv(x), NEW c \in Sha, Gates(x)!Satisfied(verify[c]),
         NEW k \in GatesOf[x].checks
  PROVE  <<c, k>> \in green
<1> DEFINE S == Gates(x)!Candidates(verify[c], k)
           n == Gates(x)!Max(S)
<1>1. S # {} /\ verify[c].jobs[n] # None /\ verify[c].jobs[n][k] = "success"
  BY DEF Gates!Satisfied, Gates!GateState
<1>2. S \subseteq verify[c].listed /\ verify[c].listed \subseteq Gates(x)!RunId
  BY DEF GatesInv, GatesTypes, Polling, Gates!Candidates
<1> HIDE DEF S
<1>3. n \in verify[c].listed
  BY <1>1, <1>2, NewestDecides
<1> QED
  BY <1>1, <1>3 DEF GatesInv, PollIsOfCommit

\* GitHub's steps leave what has succeeded, and the runs their commits.
LEMMA WorkflowStep ==
  ASSUME NEW x, GatesInv(x), GatesTypes(x)', SuccessHappened(x)', green \subseteq green',
         \A r \in Gates(x)!RunId : runs[r] # None => runs'[r] # None /\ runs'[r].sha = runs[r].sha,
         UNCHANGED <<verify, files, manifest>>
  PROVE  GatesInv(x)'
<1>1. PollIsOfCommit(x)'
  <2>1. \A c \in Sha : verify[c].listed \subseteq Gates(x)!RunId
    BY DEF GatesInv, GatesTypes, Polling
  <2> QED
    BY <2>1 DEF GatesInv, PollIsOfCommit
<1>2. EvidenceIsProven(x)'
  BY DEF GatesInv, EvidenceIsProven
<1>3. Gates(x)!DeployableIsProven'
  BY DEF GatesInv, Gates!DeployableIsProven, Gates!Deployable
<1> QED
  BY <1>1, <1>2, <1>3 DEF GatesInv

\* Every step of runs, gates and manifest preserves the invariant.
LEMMA GatesStep == ASSUME NEW x \in Gated, GatesInv(x), Gates(x)!Next PROVE GatesInv(x)'
<1>t. /\ GatesTypes(x) /\ runs \in [Gates(x)!RunId -> Gates(x)!Run \cup {None}]
      /\ verify \in [Sha -> Polling(x)] /\ SuccessHappened(x)
  BY DEF GatesInv, GatesTypes
<1>i. PollIsOfCommit(x) /\ EvidenceIsProven(x) /\ Gates(x)!DeployableIsProven
  BY DEF GatesInv
<1>v. ASSUME NEW c \in Sha, NEW v \in Polling(x), verify' = [verify EXCEPT ![c] = v],
             v.step # "idle" => c \in Main, v.unread \subseteq v.listed,
             \A r \in v.listed :
                 /\ runs[r] # None /\ runs[r].sha = c
                 /\ \A k \in GatesOf[x].checks :
                       v.jobs[r] # None /\ v.jobs[r][k] = "success" => <<c, k>> \in green,
             UNCHANGED <<runs, green, manifest>>, EvidenceIsProven(x)'
      PROVE  GatesInv(x)'
  <2>1. GatesTypes(x)'
    BY <1>t, <1>v DEF GatesTypes
  <2>2. SuccessHappened(x)'
    BY <1>t, <1>v DEF SuccessHappened
  <2>3. PollIsOfCommit(x)'
    BY <1>t, <1>i, <1>v DEF PollIsOfCommit
  <2>4. Gates(x)!DeployableIsProven'
    BY <1>i, <1>v DEF Gates!DeployableIsProven, Gates!Deployable
  <2> QED
    BY <1>v, <2>1, <2>2, <2>3, <2>4 DEF GatesInv
<1>e. UNCHANGED <<files, green>> => EvidenceIsProven(x)'
  BY <1>i DEF EvidenceIsProven
<1> USE DEF Gates!Active
<1>1. ASSUME NEW c \in Sha, NEW w \in GatesOf[x].workflows, Gates(x)!StartRun(c, w)
      PROVE  GatesInv(x)'
  <2> DEFINE new == [sha |-> c, workflow |-> w, completed |-> FALSE,
                     jobs |-> [k \in GatesOf[x].checks |-> "absent"]]
  <2>1. PICK r \in Gates(x)!RunId : runs[r] = None /\ runs' = [runs EXCEPT ![r] = new]
    BY <1>1 DEF Gates!StartRun
  <2>2. new \in Gates(x)!Run /\ \A k \in GatesOf[x].checks : new.jobs[k] = "absent"
    BY DEF Gates!Run, Gates!Job
  <2>3. UNCHANGED <<green, verify, files, manifest>>
    BY <1>1 DEF Gates!StartRun
  <2> HIDE DEF new
  <2>4. GatesTypes(x)'
    BY <1>t, <2>1, <2>2, <2>3 DEF GatesTypes
  <2>5. SuccessHappened(x)'
    BY <1>t, <2>1, <2>2, <2>3 DEF SuccessHappened
  <2>6. \A q \in Gates(x)!RunId : runs[q] # None => runs'[q] = runs[q]
    BY <1>t, <2>1
  <2> QED
    BY <2>3, <2>4, <2>5, <2>6, WorkflowStep
\* A step on the jobs of a run that is there.
<1>r. ASSUME NEW r \in Gates(x)!RunId, runs[r] # None, NEW new \in Gates(x)!Run,
             new.sha = runs[r].sha, runs' = [runs EXCEPT ![r] = new],
             \A k \in GatesOf[x].checks : new.jobs[k] = "success" => <<runs[r].sha, k>> \in green',
             green \subseteq green', UNCHANGED <<verify, files, manifest>>
      PROVE  GatesInv(x)'
  <2>1. GatesTypes(x)'
    BY <1>t, <1>r DEF GatesTypes
  <2>2. runs'[r] = new /\ \A q \in Gates(x)!RunId \ {r} : runs'[q] = runs[q]
    BY <1>t, <1>r
  <2>3. new # None
    BY <1>r, GatesAssumption
  <2>4. ASSUME NEW q \in Gates(x)!RunId, runs[q] # None
        PROVE  runs'[q] # None /\ runs'[q].sha = runs[q].sha
    BY <1>t, <1>r, <2>2, <2>3, <2>4
  <2>5. SuccessHappened(x)'
    BY <1>t, <1>r, <2>2 DEF SuccessHappened
  <2> QED
    BY <1>r, <2>1, <2>4, <2>5, WorkflowStep
<1>2. ASSUME NEW r \in Gates(x)!RunId, NEW k \in GatesOf[x].checks,
             NEW conclusion \in {"running", "success", "failure"},
             runs[r] # None, runs' = [runs EXCEPT ![r].jobs[k] = conclusion],
             green' = IF conclusion = "success" THEN green \cup {<<runs[r].sha, k>>} ELSE green,
             UNCHANGED <<verify, files, manifest>>
      PROVE  GatesInv(x)'
  <2> DEFINE jobs == [runs[r].jobs EXCEPT ![k] = conclusion]
             new == [runs[r] EXCEPT !.jobs = jobs]
  <2>1. runs[r] \in Gates(x)!Run
    BY <1>t, <1>2
  <2>2. runs[r].jobs \in [GatesOf[x].checks -> Gates(x)!Job]
    BY <2>1 DEF Gates!Run
  <2>3. jobs \in [GatesOf[x].checks -> Gates(x)!Job]
    BY <2>2 DEF Gates!Job
  <2>4. \A j \in GatesOf[x].checks : jobs[j] = "success" => <<runs[r].sha, j>> \in green'
    BY <1>t, <1>2, <2>2 DEF SuccessHappened
  <2>5. runs' = [runs EXCEPT ![r] = new]
    BY <1>2
  <2> HIDE DEF jobs
  <2>6. new \in Gates(x)!Run /\ new.sha = runs[r].sha /\ new.jobs = jobs
    BY <2>1, <2>3 DEF Gates!Run
  <2> HIDE DEF new
  <2> QED
    BY <1>r, <1>2, <2>4, <2>5, <2>6
<1>3. ASSUME NEW r \in Gates(x)!RunId, NEW k \in GatesOf[x].checks,
             \/ Gates(x)!StartJob(r, k)
             \/ Gates(x)!EndJob(r, k, "success") \/ Gates(x)!EndJob(r, k, "failure")
      PROVE  GatesInv(x)'
  BY <1>2, <1>3 DEF Gates!StartJob, Gates!EndJob, Gates!Pending
<1>4. ASSUME NEW r \in Gates(x)!RunId, Gates(x)!CompleteRun(r) PROVE GatesInv(x)'
  <2> DEFINE new == [runs[r] EXCEPT !.completed = TRUE]
  <2>1. runs[r] # None /\ runs' = [runs EXCEPT ![r] = new]
    BY <1>4 DEF Gates!CompleteRun, Gates!Pending
  <2>2. runs[r] \in Gates(x)!Run
    BY <1>t, <2>1
  <2>3. new \in Gates(x)!Run /\ new.sha = runs[r].sha /\ new.jobs = runs[r].jobs
    BY <2>2 DEF Gates!Run
  <2> HIDE DEF new
  <2> QED
    BY <1>r, <1>t, <1>4, <2>1, <2>3 DEF Gates!CompleteRun, SuccessHappened
<1>5. ASSUME NEW r \in Gates(x)!RunId, Gates(x)!RunAgain(r) PROVE GatesInv(x)'
  <2> DEFINE jobs == [k \in GatesOf[x].checks |-> "absent"]
             halted == [runs[r] EXCEPT !.completed = FALSE]
             new == [halted EXCEPT !.jobs = jobs]
  <2>1. runs[r] # None /\ runs' = [runs EXCEPT ![r] = new]
    BY <1>5 DEF Gates!RunAgain
  <2>2. runs[r] \in Gates(x)!Run
    BY <1>t, <2>1
  <2>3. halted \in Gates(x)!Run /\ halted.sha = runs[r].sha
    BY <2>2 DEF Gates!Run
  <2>4. jobs \in [GatesOf[x].checks -> Gates(x)!Job] /\ \A k \in GatesOf[x].checks : jobs[k] = "absent"
    BY DEF Gates!Job
  <2> HIDE DEF jobs, halted
  <2>5. new \in Gates(x)!Run /\ new.sha = runs[r].sha /\ new.jobs = jobs
    BY <2>3, <2>4 DEF Gates!Run
  <2> HIDE DEF new
  <2> QED
    BY <1>r, <1>5, <2>1, <2>4, <2>5 DEF Gates!RunAgain
<1>6. ASSUME NEW c \in Sha, Gates(x)!StartVerify(c) PROVE GatesInv(x)'
  <2> DEFINE v == [verify[c] EXCEPT !.step = "list"]
  <2>1. verify[c] \in Polling(x) /\ c \in Main
    BY <1>t, <1>6 DEF Gates!StartVerify
  <2>2. /\ v \in Polling(x) /\ v.unread = verify[c].unread /\ v.listed = verify[c].listed
        /\ v.jobs = verify[c].jobs
    BY <2>1 DEF Polling
  <2>3. verify' = [verify EXCEPT ![c] = v]
    BY <1>t, <1>6 DEF Gates!StartVerify
  <2> HIDE DEF v
  <2>4. /\ v.unread \subseteq v.listed
        /\ \A r \in v.listed :
              /\ runs[r] # None /\ runs[r].sha = c
              /\ \A k \in GatesOf[x].checks :
                    v.jobs[r] # None /\ v.jobs[r][k] = "success" => <<c, k>> \in green
    BY <1>i, <2>2 DEF PollIsOfCommit
  <2>5. UNCHANGED <<runs, green, files, manifest>>
    BY <1>6 DEF Gates!StartVerify
  <2> QED
    BY <1>e, <1>v, <2>1, <2>2, <2>3, <2>4, <2>5
<1>7. ASSUME NEW c \in Sha, Gates(x)!ListRuns(c) PROVE GatesInv(x)'
  <2> DEFINE mine == {r \in Gates(x)!RunId : runs[r] # None /\ runs[r].sha = c}
             v == [step |-> "jobs", listed |-> mine, unread |-> {r \in mine : runs[r].completed},
                   jobs |-> [r \in Gates(x)!RunId |-> None]]
  <2>1. v \in Polling(x) /\ v.unread \subseteq v.listed /\ v.listed = mine
    BY DEF Polling, Reading
  <2>2. \A r \in Gates(x)!RunId : v.jobs[r] = None
    OBVIOUS
  <2>3. verify' = [verify EXCEPT ![c] = v] /\ c \in Main
    BY <1>i, <1>7 DEF Gates!ListRuns, PollIsOfCommit
  <2>4. mine \subseteq Gates(x)!RunId /\ \A r \in mine : runs[r] # None /\ runs[r].sha = c
    OBVIOUS
  <2> HIDE DEF v, mine
  <2> QED
    BY <1>e, <1>v, <1>7, <2>1, <2>2, <2>3, <2>4 DEF Gates!ListRuns
<1>8. ASSUME NEW c \in Sha, NEW r \in Gates(x)!RunId, Gates(x)!ReadJobs(c, r) PROVE GatesInv(x)'
  <2> DEFINE read == [verify[c].jobs EXCEPT ![r] = runs[r].jobs]
             rest == [verify[c] EXCEPT !.unread = verify[c].unread \ {r}]
             v == [rest EXCEPT !.jobs = read]
  <2>1. /\ verify[c] \in Polling(x) /\ r \in verify[c].unread /\ r \in verify[c].listed
        /\ verify[c].step = "jobs" /\ c \in Main
    BY <1>t, <1>i, <1>8 DEF Gates!ReadJobs, PollIsOfCommit
  <2>2. runs[r] # None /\ runs[r].sha = c /\ runs[r] \in Gates(x)!Run
    BY <1>t, <1>i, <2>1 DEF PollIsOfCommit
  <2>3. runs[r].jobs \in Reading(x)
    BY <2>2 DEF Gates!Run, Reading
  <2>4. /\ verify[c].jobs \in [Gates(x)!RunId -> Reading(x)]
        /\ verify[c].listed \subseteq Gates(x)!RunId
    BY <2>1 DEF Polling
  <2>5. read \in [Gates(x)!RunId -> Reading(x)]
    BY <2>3, <2>4
  <2>6. verify' = [verify EXCEPT ![c] = v]
    BY <1>8 DEF Gates!ReadJobs
  <2>7. /\ rest \in Polling(x) /\ rest.step = verify[c].step /\ rest.listed = verify[c].listed
        /\ rest.unread = verify[c].unread \ {r}
    BY <2>1 DEF Polling
  <2>8. /\ read[r] = runs[r].jobs
        /\ \A q \in Gates(x)!RunId \ {r} : read[q] = verify[c].jobs[q]
    BY <2>4
  <2> HIDE DEF rest, read
  <2>9. /\ v \in Polling(x) /\ v.step = verify[c].step /\ v.listed = verify[c].listed
        /\ v.unread = verify[c].unread \ {r} /\ v.jobs = read
    BY <2>5, <2>7 DEF Polling
  <2> HIDE DEF v
  <2>10. ASSUME NEW q \in verify[c].listed, NEW k \in GatesOf[x].checks,
                read[q] # None, read[q][k] = "success"
         PROVE  <<c, k>> \in green
    <3>1. CASE q = r
      BY <1>t, <2>2, <2>8, <2>10, <3>1 DEF SuccessHappened
    <3>2. CASE q # r
      BY <1>i, <2>4, <2>8, <2>10, <3>2 DEF PollIsOfCommit
    <3> QED
      BY <3>1, <3>2
  <2>11. /\ v.unread \subseteq v.listed
         /\ \A q \in v.listed :
                /\ runs[q] # None /\ runs[q].sha = c
                /\ \A k \in GatesOf[x].checks :
                      v.jobs[q] # None /\ v.jobs[q][k] = "success" => <<c, k>> \in green
    BY <1>i, <2>9, <2>10 DEF PollIsOfCommit
  <2>12. UNCHANGED <<runs, green, files, manifest>>
    BY <1>8 DEF Gates!ReadJobs
  <2> QED
    BY <1>e, <1>v, <2>1, <2>6, <2>9, <2>11, <2>12
\* A poll that ends or starts again forgets what it has listed.
<1>9. ASSUME NEW c \in Sha, NEW s \in {"idle", "list", "done"},
             verify' = [verify EXCEPT ![c] = [Gates(x)!Idle EXCEPT !.step = s]],
             verify[c].step = "jobs", UNCHANGED <<runs, green, manifest>>, EvidenceIsProven(x)'
      PROVE  GatesInv(x)'
  <2> DEFINE v == [Gates(x)!Idle EXCEPT !.step = s]
  <2>1. v \in Polling(x) /\ v.unread = {} /\ v.listed = {}
    BY DEF Gates!Idle, Polling, Reading
  <2>2. c \in Main
    BY <1>i, <1>9 DEF PollIsOfCommit
  <2> HIDE DEF v
  <2>3. \A r \in v.listed :
           /\ runs[r] # None /\ runs[r].sha = c
           /\ \A k \in GatesOf[x].checks :
                 v.jobs[r] # None /\ v.jobs[r][k] = "success" => <<c, k>> \in green
    BY <2>1
  <2>4. verify' = [verify EXCEPT ![c] = v]
    BY <1>9 DEF v
  <2> QED
    BY <1>v, <1>9, <2>1, <2>2, <2>3, <2>4
<1>10. ASSUME NEW c \in Sha, Gates(x)!PollAgain(c) \/ Gates(x)!Refuse(c) PROVE GatesInv(x)'
  <2>1. [Gates(x)!Idle EXCEPT !.step = "idle"] = Gates(x)!Idle
    BY DEF Gates!Idle
  <2> QED
    BY <1>e, <1>9, <1>10, <2>1 DEF Gates!PollAgain, Gates!Refuse, Gates!Read
<1>11. ASSUME NEW c \in Sha, Gates(x)!WriteEvidence(c) PROVE GatesInv(x)'
  <2> DEFINE f == [headSha |-> c, required |-> {[check |-> k, headSha |-> c] : k \in GatesOf[x].checks}]
  <2>1. files' = files \cup {f} /\ f.headSha = c
    BY <1>11 DEF Gates!WriteEvidence
  <2>2. verify[c].step = "jobs" /\ c \in Main
    BY <1>i, <1>11 DEF Gates!WriteEvidence, Gates!Read, PollIsOfCommit
  <2>3. \A k \in GatesOf[x].checks : <<c, k>> \in green
    BY <1>11, SatisfiedIsProven DEF Gates!WriteEvidence
  <2> HIDE DEF f
  <2>4. EvidenceIsProven(x)'
    BY <1>i, <1>11, <2>1, <2>2, <2>3 DEF Gates!WriteEvidence, EvidenceIsProven
  <2> QED
    BY <1>9, <1>11, <2>2, <2>4 DEF Gates!WriteEvidence
<1>12. ASSUME NEW m \in Gates(x)!Requests, Gates(x)!Generate(m) PROVE GatesInv(x)'
  <2>1. manifest' = m /\ UNCHANGED <<runs, green, verify, files>> /\ Gates(x)!Valid(m)
    BY <1>12 DEF Gates!Generate
  <2>2. GatesTypes(x)' /\ SuccessHappened(x)' /\ PollIsOfCommit(x)' /\ EvidenceIsProven(x)'
    BY <1>t, <1>i, <2>1 DEF GatesTypes, SuccessHappened, PollIsOfCommit, EvidenceIsProven
  <2>3. Gates(x)!DeployableIsProven'
    <3>1. SUFFICES ASSUME m.type = "published"
                   PROVE  /\ m.commit \in Main /\ m.provenance = "commit"
                          /\ \A k \in GatesOf[x].checks : <<m.commit, k>> \in green
      BY <2>1 DEF Gates!DeployableIsProven, Gates!Deployable
    <3>2. m.provenance = "commit" /\ m.gates # None /\ m.gates.headSha = m.commit
      BY <2>1, <3>1 DEF Gates!Valid, Gates!Authorised
    <3>3. m.gates \in files
      BY <1>12, <3>2 DEF Gates!Generate
    <3> QED
      BY <1>i, <3>2, <3>3 DEF EvidenceIsProven
  <2> QED
    BY <2>2, <2>3 DEF GatesInv
<1> QED
  BY <1>1, <1>3, <1>4, <1>5, <1>6, <1>7, <1>8, <1>10, <1>11, <1>12 DEF Gates!Next

-----------------------------------------------------------------------------
(* The archive of WAL *)

SpoolFile  == [state : {"none", "open", "private", "whole"}, at : Nat]
Object     == [content : {"none", "whole"}, at : Nat]
Statistics == [archived : Nat, lastArchived : Nat \cup {None}, lastFailed : Nat \cup {None}]
Archiver   == [step : {"idle", "copy", "publish", "mark"}, done : Nat, failed : BOOLEAN]
WalRun     == [step : {"idle", "read", "stored"}, segment : WalArchive!Segment \cup {None},
               content : {"none", "whole"}]
HealthRun  == [step : {"idle", "listed", "queried"}, store : [WalArchive!Segment -> Object],
               stats : Statistics \cup {None}, pending : BOOLEAN,
               verdict : {"none", "healthy", "unhealthy"}]

WalTypes ==
    /\ now \in Nat /\ closed \in [WalArchive!Segment -> Nat \cup {None}]
    /\ file \in [WalArchive!Segment -> SpoolFile]
    /\ archiver \in Archiver /\ (archiver.step # "idle" => archiver.done \in WalArchive!Segment)
    /\ stats \in Statistics
    /\ offhost \in [WalArchive!Segment -> Object]
    /\ ship \in WalRun
    /\ ship.step # "idle" => ship.segment \in WalArchive!Segment /\ ship.content = "whole"
    /\ health \in HealthRun

\* The file of the segment at hand is as the attempt has left it, and what a run of
\* ship-wal holds stays in the spool until it is removed.
FilesAreSafe ==
    /\ archiver.step = "copy" => file[archiver.done].state = "open"
    /\ archiver.step = "publish" => file[archiver.done].state = "private"
    /\ archiver.step = "mark" =>
          file[archiver.done].state = "whole" \/ offhost[archiver.done].content = "whole"
    /\ ship.step # "idle" => file[ship.segment].state = "whole"
    /\ ship.step = "stored" => offhost[ship.segment].content = "whole"
    /\ WalArchive!ArchiveIsWhole

\* A segment closed before this unit waits for the archiver.
Waiting(s) == closed[s] # None /\ closed[s] < now /\ s >= archiver.done

\* What the statistics then show: nothing archived since a crash, a failure that still
\* counts, or a segment archived in this unit.
Admits(st) == st.archived = 0 \/ WalArchive!Failing(st) \/ st.lastArchived = now

StatsAreTrue ==
    /\ stats.lastArchived # None => stats.lastArchived <= now
    /\ archiver.failed = TRUE => stats.archived = 0 \/ stats.lastFailed = now
    /\ \A s \in WalArchive!Segment : Waiting(s) => Admits(stats) \/ ArchiverHangs
    /\ health.step = "queried" =>
          \A s \in WalArchive!Segment : Waiting(s) => Admits(health.stats) \/ ArchiverHangs
    /\ health.step # "idle" => health.verdict = "none"

WalInv == WalTypes /\ FilesAreSafe /\ StatsAreTrue

\* A new server, with nothing archived, satisfies the invariant.
LEMMA WalInit == ASSUME WalArchive!Init PROVE WalInv
<1>1. WalTypes
  BY DEF WalArchive!Init, WalTypes, WalArchive!NoFile, WalArchive!NoObject, WalArchive!NoShip,
         WalArchive!NoHealth, SpoolFile, Object, Statistics, Archiver, WalRun, HealthRun
<1>2. FilesAreSafe
  BY DEF WalArchive!Init, FilesAreSafe, WalArchive!NoShip, WalArchive!ArchiveIsWhole,
         WalArchive!Segment
<1>3. StatsAreTrue
  BY DEF WalArchive!Init, StatsAreTrue, WalArchive!NoHealth, Waiting
<1> QED
  BY <1>1, <1>2, <1>3 DEF WalInv

\* What PostgreSQL and its archiver do.
LEMMA WalTypesArchiver ==
    ASSUME WalInv,
           \/ WalArchive!Write \/ WalArchive!Switch \/ WalArchive!Begin \/ WalArchive!Copy
           \/ WalArchive!Publish \/ WalArchive!Mark \/ WalArchive!CopyFails \/ WalArchive!Crash
    PROVE  WalTypes'
<1> USE WalAssumption
<1>0. WalTypes /\ FilesAreSafe
  BY DEF WalInv
<1>1. CASE WalArchive!Write
  BY <1>0, <1>1 DEF WalArchive!Write, WalTypes
<1>2. CASE WalArchive!Switch
  <2>1. closed' \in [WalArchive!Segment -> Nat \cup {None}]
    BY <1>0, <1>2 DEF WalArchive!Switch, WalTypes
  <2> QED
    BY <2>1, <1>0, <1>2 DEF WalArchive!Switch, WalTypes
<1>a. ASSUME WalArchive!AttemptFails, UNCHANGED <<now, closed, file, offhost, ship, health>>
      PROVE  WalTypes'
  <2>1. archiver' \in Archiver /\ archiver'.step = "idle"
    BY <1>0, <1>a DEF WalArchive!AttemptFails, WalTypes, Archiver
  <2>2. stats' \in Statistics
    BY <1>0, <1>a DEF WalArchive!AttemptFails, WalTypes, Statistics
  <2> QED
    BY <2>1, <2>2, <1>0, <1>a DEF WalTypes
<1>3. CASE WalArchive!Begin
  <2>1. CASE file[WalArchive!Current].state = "none"
    <3>1. archiver.done \in WalArchive!Segment
      BY <1>0, <1>3 DEF WalArchive!Begin, WalArchive!Ready, WalArchive!Segment, WalTypes, Archiver
    <3>2. archiver' = [archiver EXCEPT !.step = "copy", !.failed = FALSE]
      BY <2>1, <1>3 DEF WalArchive!Begin
    <3>3. archiver' \in Archiver /\ archiver'.done = archiver.done
      BY <3>2, <1>0 DEF WalTypes, Archiver
    <3>4. file' \in [WalArchive!Segment -> SpoolFile]
      BY <2>1, <1>3, <1>0 DEF WalArchive!Begin, WalTypes, SpoolFile
    <3> QED
      BY <3>1, <3>3, <3>4, <2>1, <1>3, <1>0 DEF WalArchive!Begin, WalTypes
  <2>2. CASE file[WalArchive!Current].state # "none"
    BY <2>2, <1>a, <1>3 DEF WalArchive!Begin
  <2> QED
    BY <2>1, <2>2
<1>4. CASE WalArchive!Copy
  <2>1. archiver' \in Archiver /\ archiver'.done = archiver.done /\ archiver.done \in WalArchive!Segment
    BY <1>0, <1>4 DEF WalArchive!Copy, WalTypes, Archiver
  <2>2. file' \in [WalArchive!Segment -> SpoolFile]
    BY <1>4, <1>0 DEF WalArchive!Copy, WalTypes, SpoolFile
  <2> QED
    BY <2>1, <2>2, <1>4, <1>0 DEF WalArchive!Copy, WalTypes
<1>5. CASE WalArchive!Publish
  <2>1. CASE file[WalArchive!Current].state = "none"
    BY <2>1, <1>a, <1>5 DEF WalArchive!Publish
  <2>2. CASE file[WalArchive!Current].state # "none"
    <3>1. archiver' \in Archiver /\ archiver'.done = archiver.done /\ archiver.done \in WalArchive!Segment
      BY <1>0, <1>5, <2>2 DEF WalArchive!Publish, WalTypes, Archiver
    <3>2. file' = [file EXCEPT ![archiver.done].state = "whole"]
      BY <1>5, <2>2 DEF WalArchive!Publish, WalArchive!Current
    <3>3. file' \in [WalArchive!Segment -> SpoolFile]
      BY <3>1, <3>2, <1>0 DEF WalTypes, SpoolFile
    <3> QED
      BY <3>1, <3>3, <1>5, <1>0, <2>2 DEF WalArchive!Publish, WalTypes
  <2> QED
    BY <2>1, <2>2
<1>6. CASE WalArchive!Mark
  <2>1. archiver' \in Archiver /\ archiver'.step = "idle"
    BY <1>0, <1>6 DEF WalArchive!Mark, WalTypes, Archiver
  <2>2. stats' \in Statistics
    <3> DEFINE counted == [stats EXCEPT !.archived = stats.archived + 1]
    <3>1. stats' = [counted EXCEPT !.lastArchived = now]
      BY <1>6 DEF WalArchive!Mark
    <3>2. stats \in Statistics /\ stats.archived + 1 \in Nat /\ now \in Nat
      BY <1>0 DEF WalTypes, Statistics
    <3>3. counted \in Statistics
      BY <3>2 DEF Statistics
    <3> HIDE DEF counted
    <3> QED
      BY <3>1, <3>2, <3>3 DEF Statistics
  <2> QED
    BY <2>1, <2>2, <1>0, <1>6 DEF WalArchive!Mark, WalTypes
<1>7. CASE WalArchive!CopyFails
  BY <1>a, <1>7 DEF WalArchive!CopyFails
<1>8. CASE WalArchive!Crash
  <2>1. archiver' \in Archiver /\ archiver'.step = "idle"
    BY <1>0, <1>8 DEF WalArchive!Crash, WalTypes, Archiver
  <2>2. stats' \in Statistics
    BY <1>8 DEF WalArchive!Crash, Statistics
  <2> QED
    BY <2>1, <2>2, <1>0, <1>8 DEF WalArchive!Crash, WalTypes
<1> QED
  BY <1>1, <1>2, <1>3, <1>4, <1>5, <1>6, <1>7, <1>8

\* What ship-wal and wal-health do, and the passing of time.
LEMMA WalTypesReaders ==
    ASSUME WalInv,
           \/ WalArchive!Read \/ WalArchive!Store \/ WalArchive!Remove \/ WalArchive!ShipFails
           \/ WalArchive!ListStore \/ WalArchive!QueryArchiver \/ WalArchive!ReadSpool
           \/ WalArchive!Tick
    PROVE  WalTypes'
<1> USE WalAssumption
<1>0. WalTypes /\ FilesAreSafe
  BY DEF WalInv
<1>1. CASE WalArchive!Read
  <2> DEFINE s == WalArchive!Min(WalArchive!Spool)
  <2>1. s \in WalArchive!Spool
    <3>1. WalArchive!Spool \in SUBSET Nat /\ WalArchive!Spool # {}
      BY <1>1 DEF WalArchive!Read, WalArchive!Spool, WalArchive!Segment
    <3>2. \E n \in WalArchive!Spool : \A m \in WalArchive!Spool : n <= m
      BY <3>1, LeastNatural
    <3> QED
      BY <3>2 DEF WalArchive!Min
  <2>2. s \in WalArchive!Segment
    BY <2>1 DEF WalArchive!Spool
  <2>3. ship' = [step |-> "read", segment |-> s, content |-> "whole"]
    BY <1>1 DEF WalArchive!Read, WalArchive!Readable
  <2> HIDE DEF s
  <2>4. ship' \in WalRun /\ ship'.segment = s /\ ship'.content = "whole"
    BY <2>2, <2>3 DEF WalRun
  <2> QED
    BY <2>2, <2>4, <1>0, <1>1 DEF WalArchive!Read, WalTypes
<1>2. CASE WalArchive!Store
  <2>1. ship.segment \in WalArchive!Segment /\ ship.content = "whole" /\ ship \in WalRun
    BY <1>0, <1>2 DEF WalArchive!Store, WalTypes
  <2>2. offhost' = [offhost EXCEPT ![ship.segment] = [content |-> "whole", at |-> now]]
    BY <2>1, <1>2 DEF WalArchive!Store
  <2>3. offhost' \in [WalArchive!Segment -> Object]
    BY <2>2, <1>0 DEF WalTypes, Object
  <2>4. ship' = [ship EXCEPT !.step = "stored"]
    BY <1>2 DEF WalArchive!Store
  <2>5. ship' \in WalRun /\ ship'.segment = ship.segment /\ ship'.content = ship.content
    BY <2>1, <2>4 DEF WalRun
  <2> QED
    BY <2>1, <2>3, <2>5, <1>0, <1>2 DEF WalArchive!Store, WalTypes
<1>a. WalArchive!NoShip \in WalRun /\ WalArchive!NoShip.step = "idle"
  BY DEF WalRun, WalArchive!NoShip
<1>3. CASE WalArchive!Remove
  <2>1. file' \in [WalArchive!Segment -> SpoolFile]
    BY <1>3, <1>0 DEF WalArchive!Remove, WalTypes, SpoolFile, WalArchive!NoFile
  <2> QED
    BY <1>a, <2>1, <1>0, <1>3 DEF WalArchive!Remove, WalTypes
<1>4. CASE WalArchive!ShipFails
  BY <1>a, <1>0, <1>4 DEF WalArchive!ShipFails, WalTypes
<1>b. WalArchive!NoHealth \in HealthRun
  BY DEF HealthRun, WalArchive!NoHealth, WalArchive!NoObject, Object
<1>5. CASE WalArchive!ListStore
  <2> DEFINE moved == [WalArchive!NoHealth EXCEPT !.step = "listed"]
  <2>1. health' = [moved EXCEPT !.store = offhost]
    BY <1>5 DEF WalArchive!ListStore
  <2>2. moved \in HealthRun
    BY <1>b DEF HealthRun
  <2> HIDE DEF moved
  <2>3. health' \in HealthRun
    BY <2>1, <2>2, <1>0 DEF HealthRun, WalTypes
  <2> QED
    BY <2>3, <1>0, <1>5 DEF WalArchive!ListStore, WalTypes
<1>6. CASE WalArchive!QueryArchiver
  <2> DEFINE moved == [health EXCEPT !.step = "queried"]
             counted == [moved EXCEPT !.stats = stats]
  <2>1. health' = [counted EXCEPT !.pending = (dirty # None)]
    BY <1>6 DEF WalArchive!QueryArchiver
  <2>2. moved \in HealthRun
    BY <1>0 DEF HealthRun, WalTypes
  <2> HIDE DEF moved
  <2>3. counted \in HealthRun
    BY <2>2, <1>0 DEF HealthRun, WalTypes
  <2> HIDE DEF counted
  <2>4. health' \in HealthRun
    BY <2>1, <2>3 DEF HealthRun
  <2> QED
    BY <2>4, <1>0, <1>6 DEF WalArchive!QueryArchiver, WalTypes
<1>7. CASE WalArchive!ReadSpool
  <2>1. PICK v \in {"healthy", "unhealthy"} : health' = [WalArchive!NoHealth EXCEPT !.verdict = v]
    BY <1>7 DEF WalArchive!ReadSpool
  <2>2. health' \in HealthRun
    BY <2>1, <1>b DEF HealthRun
  <2> QED
    BY <2>2, <1>0, <1>7 DEF WalArchive!ReadSpool, WalTypes
<1>8. CASE WalArchive!Tick
  <2>1. archiver' \in Archiver /\ archiver'.done = archiver.done /\ archiver'.step = archiver.step
    BY <1>0, <1>8 DEF WalArchive!Tick, WalTypes, Archiver
  <2>2. now' \in Nat
    BY <1>0, <1>8 DEF WalArchive!Tick, WalTypes
  <2> QED
    BY <2>1, <2>2, <1>0, <1>8 DEF WalArchive!Tick, WalTypes
<1> QED
  BY <1>1, <1>2, <1>3, <1>4, <1>5, <1>6, <1>7, <1>8

\* The archiver's steps, one file at a time, and those of ship-wal on the same files.
LEMMA WalFiles == ASSUME WalInv, WalArchive!Next PROVE FilesAreSafe'
<1> USE WalAssumption
<1>0. WalTypes /\ FilesAreSafe
  BY DEF WalInv
<1>0a. archiver \in Archiver /\ archiver.done \in Nat /\ ship \in WalRun
  BY <1>0 DEF WalTypes, Archiver
<1>a. ASSUME UNCHANGED <<file, offhost, ship>>, archiver'.done = archiver.done,
             archiver'.step \in {"idle", archiver.step}
      PROVE  FilesAreSafe'
  BY <1>0, <1>a DEF FilesAreSafe, WalArchive!ArchiveIsWhole
<1>b. ASSUME WalArchive!AttemptFails PROVE archiver'.done = archiver.done /\ archiver'.step = "idle"
  BY <1>0a, <1>b DEF WalArchive!AttemptFails, Archiver
<1>1. CASE WalArchive!Write \/ WalArchive!Switch \/ WalArchive!ListStore
           \/ WalArchive!QueryArchiver \/ WalArchive!ReadSpool
  BY <1>a, <1>1 DEF WalArchive!Write, WalArchive!Switch, WalArchive!ListStore,
                    WalArchive!QueryArchiver, WalArchive!ReadSpool
<1>2. CASE WalArchive!Tick \/ WalArchive!Crash
  <2>1. archiver'.done = archiver.done /\ archiver'.step \in {"idle", archiver.step}
    BY <1>0a, <1>2 DEF WalArchive!Tick, WalArchive!Crash, Archiver
  <2> QED
    BY <2>1, <1>a, <1>2 DEF WalArchive!Tick, WalArchive!Crash
<1>3. CASE WalArchive!CopyFails
  BY <1>a, <1>b, <1>3 DEF WalArchive!CopyFails
<1>4. CASE WalArchive!Begin
  <2>1. CASE file[WalArchive!Current].state = "none"
    <3>1. archiver.done \in WalArchive!Segment
      BY <1>0a, <1>4 DEF WalArchive!Begin, WalArchive!Ready, WalArchive!Segment
    <3>2. archiver' = [archiver EXCEPT !.step = "copy", !.failed = FALSE]
      BY <2>1, <1>4 DEF WalArchive!Begin
    <3>3. archiver'.step = "copy" /\ archiver'.done = archiver.done
      BY <3>2, <1>0a DEF Archiver
    <3>4. file' = [file EXCEPT ![archiver.done] = [state |-> "open", at |-> now]]
      BY <2>1, <1>4 DEF WalArchive!Begin, WalArchive!Current
    <3>5. /\ file'[archiver.done].state = "open"
          /\ \A s \in WalArchive!Segment : s # archiver.done => file'[s] = file[s]
      BY <3>1, <3>4, <1>0 DEF WalTypes
    <3>6. UNCHANGED <<offhost, ship>>
      BY <1>4 DEF WalArchive!Begin
    <3>7. ship.step # "idle" => ship.segment # archiver.done
      BY <2>1, <1>0 DEF FilesAreSafe, WalArchive!Current
    <3>8. \A s \in WalArchive!Segment : s < archiver.done => s # archiver.done
      BY <1>0a DEF WalArchive!Segment
    <3> QED
      BY <3>3, <3>5, <3>6, <3>7, <3>8, <1>0 DEF FilesAreSafe, WalArchive!ArchiveIsWhole, WalTypes
  <2>2. CASE file[WalArchive!Current].state # "none"
    BY <2>2, <1>a, <1>b, <1>4 DEF WalArchive!Begin
  <2> QED
    BY <2>1, <2>2
<1>5. CASE WalArchive!Copy
  <2>1. archiver.done \in WalArchive!Segment /\ file[archiver.done].state = "open"
    BY <1>0, <1>5 DEF WalArchive!Copy, WalTypes, FilesAreSafe
  <2>2. archiver'.step = "publish" /\ archiver'.done = archiver.done
    BY <1>0a, <1>5 DEF WalArchive!Copy, Archiver
  <2>3. file' = [file EXCEPT ![archiver.done] = [state |-> "private", at |-> now]]
    BY <2>1, <1>5 DEF WalArchive!Copy, WalArchive!Current
  <2>4. /\ file'[archiver.done].state = "private"
        /\ \A s \in WalArchive!Segment : s # archiver.done => file'[s] = file[s]
    BY <2>1, <2>3, <1>0 DEF WalTypes
  <2>5. UNCHANGED <<offhost, ship>>
    BY <1>5 DEF WalArchive!Copy
  <2>6. ship.step # "idle" => ship.segment # archiver.done
    BY <2>1, <1>0 DEF FilesAreSafe
  <2>7. \A s \in WalArchive!Segment : s < archiver.done => s # archiver.done
    BY <1>0a DEF WalArchive!Segment
  <2> QED
    BY <2>1, <2>2, <2>4, <2>5, <2>6, <2>7, <1>0
    DEF FilesAreSafe, WalArchive!ArchiveIsWhole, WalTypes
<1>6. CASE WalArchive!Publish
  <2>1. archiver.done \in WalArchive!Segment /\ file[archiver.done].state = "private"
    BY <1>0, <1>6 DEF WalArchive!Publish, WalTypes, FilesAreSafe
  <2>2. archiver' = [archiver EXCEPT !.step = "mark"]
    BY <2>1, <1>6 DEF WalArchive!Publish, WalArchive!Current
  <2>3. archiver'.step = "mark" /\ archiver'.done = archiver.done
    BY <2>2, <1>0a DEF Archiver
  <2>4. file' = [file EXCEPT ![archiver.done].state = "whole"]
    BY <2>1, <1>6 DEF WalArchive!Publish, WalArchive!Current
  <2>5. /\ file'[archiver.done].state = "whole"
        /\ \A s \in WalArchive!Segment : s # archiver.done => file'[s] = file[s]
    BY <2>1, <2>4, <1>0 DEF WalTypes, SpoolFile
  <2>6. UNCHANGED <<offhost, ship>>
    BY <1>6 DEF WalArchive!Publish
  <2> QED
    BY <2>1, <2>3, <2>5, <2>6, <1>0 DEF FilesAreSafe, WalArchive!ArchiveIsWhole, WalTypes
<1>7. CASE WalArchive!Mark
  <2>1. archiver.done \in WalArchive!Segment
        /\ (file[archiver.done].state = "whole" \/ offhost[archiver.done].content = "whole")
    BY <1>0, <1>7 DEF WalArchive!Mark, WalTypes, FilesAreSafe
  <2>2. archiver'.step = "idle" /\ archiver'.done = archiver.done + 1
    BY <1>7 DEF WalArchive!Mark
  <2>3. \A s \in WalArchive!Segment : s < archiver.done + 1 => s < archiver.done \/ s = archiver.done
    BY <1>0a DEF WalArchive!Segment
  <2>4. UNCHANGED <<file, offhost, ship>>
    BY <1>7 DEF WalArchive!Mark
  <2> QED
    BY <2>1, <2>2, <2>3, <2>4, <1>0 DEF FilesAreSafe, WalArchive!ArchiveIsWhole
<1>8. CASE WalArchive!Read
  <2> DEFINE s == WalArchive!Min(WalArchive!Spool)
  <2>1. file[s].state = "whole" /\ ship'.segment = s /\ ship'.step = "read"
    BY <1>8 DEF WalArchive!Read, WalArchive!Readable
  <2> HIDE DEF s
  <2>2. UNCHANGED <<file, offhost, archiver>>
    BY <1>8 DEF WalArchive!Read
  <2> QED
    BY <2>1, <2>2, <1>0 DEF FilesAreSafe, WalArchive!ArchiveIsWhole
<1>9. CASE WalArchive!Store
  <2>1. ship.segment \in WalArchive!Segment /\ ship.content = "whole"
        /\ file[ship.segment].state = "whole"
    BY <1>0, <1>9 DEF WalArchive!Store, WalTypes, FilesAreSafe
  <2>2. offhost' = [offhost EXCEPT ![ship.segment] = [content |-> "whole", at |-> now]]
    BY <2>1, <1>9 DEF WalArchive!Store
  <2>3. /\ offhost'[ship.segment].content = "whole"
        /\ \A s \in WalArchive!Segment : s # ship.segment => offhost'[s] = offhost[s]
    BY <2>1, <2>2, <1>0 DEF WalTypes
  <2>4. ship'.segment = ship.segment /\ ship'.step = "stored"
    BY <1>9, <1>0a DEF WalArchive!Store, WalRun
  <2>5. UNCHANGED <<file, archiver>>
    BY <1>9 DEF WalArchive!Store
  <2> QED
    BY <2>1, <2>3, <2>4, <2>5, <1>0 DEF FilesAreSafe, WalArchive!ArchiveIsWhole, WalTypes
<1>10. CASE WalArchive!Remove
  <2>1. ship.segment \in WalArchive!Segment /\ offhost[ship.segment].content = "whole"
        /\ file[ship.segment].state = "whole"
    BY <1>0, <1>10 DEF WalArchive!Remove, WalTypes, FilesAreSafe
  <2>2. file' = [file EXCEPT ![ship.segment] = WalArchive!NoFile]
    BY <1>10 DEF WalArchive!Remove
  <2>3. \A s \in WalArchive!Segment : s # ship.segment => file'[s] = file[s]
    BY <2>2, <1>0 DEF WalTypes
  <2>4. ship'.step = "idle"
    BY <1>10 DEF WalArchive!Remove, WalArchive!NoShip
  <2>5. UNCHANGED <<offhost, archiver>>
    BY <1>10 DEF WalArchive!Remove
  <2> QED
    BY <2>1, <2>3, <2>4, <2>5, <1>0 DEF FilesAreSafe, WalArchive!ArchiveIsWhole, WalTypes
<1>11. CASE WalArchive!ShipFails
  <2>1. ship'.step = "idle"
    BY <1>11 DEF WalArchive!ShipFails, WalArchive!NoShip
  <2>2. UNCHANGED <<file, offhost, archiver>>
    BY <1>11 DEF WalArchive!ShipFails
  <2> QED
    BY <2>1, <2>2, <1>0 DEF FilesAreSafe, WalArchive!ArchiveIsWhole
<1> QED
  BY <1>1, <1>2, <1>3, <1>4, <1>5, <1>6, <1>7, <1>8, <1>9, <1>10, <1>11 DEF WalArchive!Next

\* The statistics admit what still waits: a unit passes only when no segment is at hand
\* or the last attempt of the unit has failed.
LEMMA WalStatistics == ASSUME WalInv, WalArchive!Next PROVE StatsAreTrue'
<1> USE WalAssumption
<1>0. WalTypes /\ StatsAreTrue
  BY DEF WalInv
<1>0a. /\ archiver \in Archiver /\ archiver.done \in Nat /\ now \in Nat /\ now # None
       /\ stats \in Statistics /\ health \in HealthRun
       /\ stats.lastArchived \in Nat \cup {None} /\ stats.lastFailed \in Nat \cup {None}
  BY <1>0 DEF WalTypes, Archiver, Statistics
\* Nothing newly waits while the clock stands still.
<1>a. ASSUME now' = now, archiver'.done \in Nat, archiver'.done >= archiver.done,
             \A s \in WalArchive!Segment : closed'[s] \in {now, closed[s]}
      PROVE  \A s \in WalArchive!Segment : Waiting(s)' => Waiting(s)
  <2>1. \A s \in WalArchive!Segment : s \in Nat /\ closed[s] \in Nat \cup {None}
    BY <1>0 DEF WalTypes, WalArchive!Segment
  <2> QED
    BY <2>1, <1>a, <1>0a DEF Waiting
<1>b. ASSUME UNCHANGED <<stats, health, now>>, archiver'.done = archiver.done,
             archiver'.failed \in {FALSE, archiver.failed},
             \A s \in WalArchive!Segment : closed'[s] \in {now, closed[s]}
      PROVE  StatsAreTrue'
  <2>1. \A s \in WalArchive!Segment : Waiting(s)' => Waiting(s)
    BY <1>a, <1>b, <1>0a
  <2>2. \A st : Admits(st) => Admits(st)'
    BY <1>b DEF Admits, WalArchive!Failing
  <2> QED
    BY <2>1, <2>2, <1>b, <1>0 DEF StatsAreTrue
<1>c. ASSUME WalArchive!AttemptFails, UNCHANGED <<health, now, closed>> PROVE StatsAreTrue'
  <2>1. archiver'.done = archiver.done /\ archiver'.failed = TRUE
    BY <1>c, <1>0a DEF WalArchive!AttemptFails, Archiver
  <2>2. stats'.lastFailed = now /\ stats'.lastArchived = stats.lastArchived
    BY <1>c, <1>0a DEF WalArchive!AttemptFails, Statistics
  <2>3. WalArchive!Failing(stats')
    BY <2>2, <1>0a, <1>0 DEF WalArchive!Failing, StatsAreTrue
  <2>4. \A s \in WalArchive!Segment : Waiting(s)' => Waiting(s)
    BY <1>a, <1>c, <2>1, <1>0a
  <2>5. \A st : Admits(st)' <=> Admits(st)
    BY <1>c DEF Admits, WalArchive!Failing
  <2> QED
    BY <2>1, <2>2, <2>3, <2>4, <2>5, <1>c, <1>0 DEF StatsAreTrue, Admits, WalArchive!Failing
<1>d. ASSUME UNCHANGED <<stats, archiver, now, closed>>,
             health'.step = "queried" => health.step = "listed" /\ health'.stats = stats,
             health'.step # "idle" => health'.verdict = "none"
      PROVE  StatsAreTrue'
  <2>1. \A s \in WalArchive!Segment : Waiting(s)' <=> Waiting(s)
    BY <1>d DEF Waiting
  <2>2. \A st : Admits(st)' <=> Admits(st)
    BY <1>d DEF Admits, WalArchive!Failing
  <2> QED
    BY <2>1, <2>2, <1>d, <1>0 DEF StatsAreTrue
<1>1. CASE WalArchive!Write \/ WalArchive!Read \/ WalArchive!Store \/ WalArchive!Remove
           \/ WalArchive!ShipFails
  BY <1>b, <1>1 DEF WalArchive!Write, WalArchive!Read, WalArchive!Store, WalArchive!Remove,
                    WalArchive!ShipFails
<1>2. CASE WalArchive!Switch
  <2>1. \A s \in WalArchive!Segment : closed'[s] \in {now, closed[s]}
    BY <1>0, <1>2 DEF WalArchive!Switch, WalTypes
  <2> QED
    BY <2>1, <1>b, <1>2 DEF WalArchive!Switch
<1>3. CASE WalArchive!Begin
  <2>1. CASE file[WalArchive!Current].state = "none"
    <3>1. archiver' = [archiver EXCEPT !.step = "copy", !.failed = FALSE]
      BY <2>1, <1>3 DEF WalArchive!Begin
    <3>2. archiver'.failed = FALSE /\ archiver'.done = archiver.done
      BY <3>1, <1>0a DEF Archiver
    <3> QED
      BY <2>1, <3>2, <1>b, <1>3 DEF WalArchive!Begin
  <2>2. CASE file[WalArchive!Current].state # "none"
    BY <2>2, <1>c, <1>3 DEF WalArchive!Begin
  <2> QED
    BY <2>1, <2>2
<1>4. CASE WalArchive!Copy
  <2>1. archiver'.failed = archiver.failed /\ archiver'.done = archiver.done
    BY <1>0a, <1>4 DEF WalArchive!Copy, Archiver
  <2> QED
    BY <2>1, <1>b, <1>4 DEF WalArchive!Copy
<1>5. CASE WalArchive!Publish
  <2>1. CASE file[WalArchive!Current].state = "none"
    BY <2>1, <1>c, <1>5 DEF WalArchive!Publish
  <2>2. CASE file[WalArchive!Current].state # "none"
    <3>1. archiver' = [archiver EXCEPT !.step = "mark"] /\ UNCHANGED stats
      BY <2>2, <1>5 DEF WalArchive!Publish
    <3>2. archiver'.failed = archiver.failed /\ archiver'.done = archiver.done
      BY <3>1, <1>0a DEF Archiver
    <3> QED
      BY <3>1, <3>2, <1>b, <1>5 DEF WalArchive!Publish
  <2> QED
    BY <2>1, <2>2
<1>6. CASE WalArchive!Mark
  <2>1. archiver'.failed = FALSE /\ archiver'.done = archiver.done + 1
    BY <1>6 DEF WalArchive!Mark
  <2>2. stats'.lastArchived = now
    <3> DEFINE counted == [stats EXCEPT !.archived = stats.archived + 1]
    <3>1. stats' = [counted EXCEPT !.lastArchived = now]
      BY <1>6 DEF WalArchive!Mark
    <3>2. stats.archived + 1 \in Nat
      BY <1>0a DEF Statistics
    <3>3. counted \in Statistics
      BY <3>2, <1>0a DEF Statistics
    <3> HIDE DEF counted
    <3> QED
      BY <3>1, <3>3 DEF Statistics
  <2>3. UNCHANGED <<health, now, closed>>
    BY <1>6 DEF WalArchive!Mark
  <2>4. \A s \in WalArchive!Segment : Waiting(s)' => Waiting(s)
    BY <1>a, <2>1, <2>3, <1>0a
  <2>5. \A st : Admits(st)' <=> Admits(st)
    BY <2>3 DEF Admits, WalArchive!Failing
  <2> QED
    BY <2>1, <2>2, <2>3, <2>4, <2>5, <1>0a, <1>0 DEF StatsAreTrue, Admits
<1>7. CASE WalArchive!CopyFails
  BY <1>c, <1>7 DEF WalArchive!CopyFails
<1>8. CASE WalArchive!Crash
  <2>1. archiver'.done = archiver.done
    BY <1>8, <1>0a DEF WalArchive!Crash, Archiver
  <2>2. stats'.archived = 0 /\ stats'.lastArchived = None
    BY <1>8 DEF WalArchive!Crash
  <2>3. UNCHANGED <<health, now, closed>>
    BY <1>8 DEF WalArchive!Crash
  <2>4. \A s \in WalArchive!Segment : Waiting(s)' => Waiting(s)
    BY <1>a, <2>1, <2>3, <1>0a
  <2>5. \A st : Admits(st)' <=> Admits(st)
    BY <2>3 DEF Admits, WalArchive!Failing
  <2> QED
    BY <2>2, <2>3, <2>4, <2>5, <1>0 DEF StatsAreTrue, Admits
<1>9. CASE WalArchive!ListStore
  <2> DEFINE moved == [WalArchive!NoHealth EXCEPT !.step = "listed"]
  <2>1. health' = [moved EXCEPT !.store = offhost]
    BY <1>9 DEF WalArchive!ListStore
  <2>2. moved.step = "listed" /\ moved.verdict = "none" /\ moved \in HealthRun
    BY DEF WalArchive!NoHealth, WalArchive!NoObject, HealthRun, Object
  <2> HIDE DEF moved
  <2>3. health'.step = "listed" /\ health'.verdict = "none"
    BY <2>1, <2>2 DEF HealthRun
  <2> QED
    BY <2>3, <1>d, <1>9 DEF WalArchive!ListStore
<1>10. CASE WalArchive!QueryArchiver
  <2> DEFINE moved == [health EXCEPT !.step = "queried"]
             counted == [moved EXCEPT !.stats = stats]
  <2>1. health' = [counted EXCEPT !.pending = (dirty # None)] /\ health.step = "listed"
    BY <1>10 DEF WalArchive!QueryArchiver
  <2>2. moved \in HealthRun /\ moved.verdict = health.verdict
    BY <1>0a DEF HealthRun
  <2> HIDE DEF moved
  <2>3. counted \in HealthRun /\ counted.verdict = health.verdict /\ counted.stats = stats
    BY <2>2, <1>0a DEF HealthRun
  <2> HIDE DEF counted
  <2>4. health'.verdict = health.verdict /\ health'.stats = stats
    BY <2>1, <2>3 DEF HealthRun
  <2> QED
    BY <2>1, <2>4, <1>d, <1>10, <1>0 DEF WalArchive!QueryArchiver, StatsAreTrue
<1>11. CASE WalArchive!ReadSpool
  <2>1. PICK v \in {"healthy", "unhealthy"} : health' = [WalArchive!NoHealth EXCEPT !.verdict = v]
    BY <1>11 DEF WalArchive!ReadSpool
  <2>2. health'.step = "idle"
    BY <2>1 DEF WalArchive!NoHealth
  <2> QED
    BY <2>2, <1>d, <1>11 DEF WalArchive!ReadSpool
<1>12. CASE WalArchive!Tick
  <2>1. archiver'.failed = FALSE /\ archiver'.done = archiver.done
    BY <1>12, <1>0a DEF WalArchive!Tick, Archiver
  <2>2. now' = now + 1 /\ UNCHANGED <<closed, stats, health>> /\ health.step = "idle"
    BY <1>12 DEF WalArchive!Tick
  <2>3. ASSUME NEW s \in WalArchive!Segment, Waiting(s)' PROVE Admits(stats)' \/ ArchiverHangs
    <3>1. s \in WalArchive!Ready
      BY <2>1, <2>2, <2>3 DEF Waiting, WalArchive!Ready
    <3>2. ArchiverHangs \/ archiver.failed = TRUE
      <4>1. archiver.failed \in BOOLEAN
        BY <1>0a DEF Archiver
      <4> QED
        BY <3>1, <4>1, <1>12 DEF WalArchive!Tick
    <3>3. CASE archiver.failed = TRUE
      <4>1. stats.archived = 0 \/ stats.lastFailed = now
        BY <3>3, <1>0 DEF StatsAreTrue
      <4>2. stats.lastFailed = now => WalArchive!Failing(stats)
        BY <1>0, <1>0a DEF StatsAreTrue, WalArchive!Failing
      <4> QED
        BY <4>1, <4>2, <2>2 DEF Admits, WalArchive!Failing
    <3> QED
      BY <3>2, <3>3
  <2>4. stats'.lastArchived # None => stats'.lastArchived <= now'
    BY <2>2, <1>0, <1>0a DEF StatsAreTrue
  <2> QED
    BY <2>1, <2>2, <2>3, <2>4, <1>0 DEF StatsAreTrue
<1> QED
  BY <1>1, <1>2, <1>3, <1>4, <1>5, <1>6, <1>7, <1>8, <1>9, <1>10, <1>11, <1>12
  DEF WalArchive!Next

\* Every step of archiver, ship-wal and verdict preserves the invariant.
LEMMA WalStep == ASSUME WalInv, [WalArchive!Next]_WalArchive!vars PROVE WalInv'
<1>1. CASE WalArchive!Next
  BY <1>1, WalTypesArchiver, WalTypesReaders, WalFiles, WalStatistics DEF WalInv, WalArchive!Next
<1>2. CASE UNCHANGED WalArchive!vars
  <2>1. WalTypes'
    BY <1>2 DEF WalInv, WalTypes, WalArchive!vars
  <2>2. FilesAreSafe'
    BY <1>2 DEF WalInv, FilesAreSafe, WalArchive!vars, WalArchive!ArchiveIsWhole
  <2>3. StatsAreTrue'
    BY <1>2 DEF WalInv, StatsAreTrue, WalArchive!vars, Waiting, Admits, WalArchive!Failing
  <2> QED
    BY <2>1, <2>2, <2>3 DEF WalInv
<1> QED
  BY <1>1, <1>2

\* A verdict is given at ReadSpool, on what was true of the statistics in this unit.
LEMMA WalJudges ==
    ASSUME ~ ArchiverHangs, WalInv, [WalArchive!Next]_WalArchive!vars
    PROVE  WalArchive!JudgesRightly
<1> USE WalAssumption
<1> SUFFICES ASSUME health.step = "queried", health'.verdict = "healthy"
             PROVE  WalArchive!Recoverable
  BY DEF WalArchive!JudgesRightly
<1>0. WalTypes /\ FilesAreSafe /\ StatsAreTrue
  BY DEF WalInv
<1>1. WalArchive!ReadSpool
  <2>1. health.verdict = "none"
    BY <1>0 DEF StatsAreTrue
  <2>2. health' # health
    BY <2>1
  <2> QED
    BY <2>2 DEF WalArchive!Next, WalArchive!vars, WalArchive!Write, WalArchive!Switch,
        WalArchive!Begin, WalArchive!Copy, WalArchive!Publish, WalArchive!Mark,
        WalArchive!CopyFails, WalArchive!Crash, WalArchive!Read, WalArchive!Store,
        WalArchive!Remove, WalArchive!ShipFails, WalArchive!ListStore,
        WalArchive!QueryArchiver, WalArchive!Tick
<1>2. WalArchive!IsHealthy(health.store, health.stats, health.pending)
  <2>1. CASE ~ WalArchive!IsHealthy(health.store, health.stats, health.pending)
    <3>1. health' = [WalArchive!NoHealth EXCEPT !.verdict = "unhealthy"]
      BY <2>1, <1>1 DEF WalArchive!ReadSpool
    <3> QED
      BY <3>1 DEF WalArchive!NoHealth
  <2> QED
    BY <2>1
<1>3. /\ health.stats.archived > 0 /\ ~ WalArchive!Failing(health.stats)
      /\ \A s \in WalArchive!Spool : WalArchive!Recent(file[s].at, MaxAge)
  BY <1>2 DEF WalArchive!IsHealthy
<1>4. SUFFICES ASSUME NEW s \in WalArchive!Segment,
                      closed[s] # None, closed[s] + MaxAge + 1 < now
               PROVE  \/ offhost[s].content = "whole"
                      \/ file[s].state = "whole" /\ WalArchive!Recent(file[s].at, MaxAge)
                      \/ health.stats.lastArchived = now /\ s >= archiver.done
  BY DEF WalArchive!Recoverable
<1>5. CASE s < archiver.done
  <2>1. file[s].state = "whole" \/ offhost[s].content = "whole"
    BY <1>5, <1>0 DEF FilesAreSafe, WalArchive!ArchiveIsWhole
  <2>2. file[s].state = "whole" => s \in WalArchive!Spool
    BY DEF WalArchive!Spool
  <2> QED
    BY <2>1, <2>2, <1>3
<1>6. CASE ~ (s < archiver.done)
  <2>1. /\ closed[s] \in Nat /\ now \in Nat /\ archiver.done \in Nat /\ s \in Nat
    BY <1>0, <1>4 DEF WalTypes, Archiver, WalArchive!Segment
  <2>2. Waiting(s)
    BY <2>1, <1>4, <1>6 DEF Waiting
  <2>3. Admits(health.stats)
    BY <2>2, <1>0 DEF StatsAreTrue
  <2>4. health.stats.archived # 0
    BY <1>3
  <2> QED
    BY <2>1, <2>3, <2>4, <1>3, <1>6 DEF Admits
<1> QED
  BY <1>5, <1>6

-----------------------------------------------------------------------------
(* The setup of WAL archiving *)

SetupRun ==
    [step : {"idle", "mount", "own", "settings", "reload", "restart?", "count", "switch",
             "poll", "active", "restart needed", "died", "reported"},
     confirm : BOOLEAN, was : BOOLEAN, before : Nat, polls : Nat, heard : BOOLEAN]

\* What the script has made sure of is so until it ends, and once it reports success;
\* an archiver that had heard of it by the count has copied every segment since to the
\* spool, oldest first.
SetupInv ==
    /\ run \in SetupRun /\ archived \in Nat
    /\ mode \in BOOLEAN /\ auto.mode \in BOOLEAN
    /\ run.step \in {"own", "settings", "reload", "count", "switch", "poll", "active"} =>
          directory = "mount"
    /\ run.step \in {"reload", "count", "switch", "poll", "active"} => auto.to = "spool"
    /\ run.heard = TRUE => run.step \notin {"mount", "own", "settings", "reload", "count"}
    /\ run.step \in {"switch", "poll", "active"} /\ run.heard = TRUE =>
          /\ loaded = "spool" /\ copying \in {None, "spool"} /\ run.before <= archived
          /\ \A s \in Nat : run.before < s /\ s <= archived => s \in spool
    /\ run.step = "active" => run.before < archived

\* Whatever was set up before satisfies the invariant.
LEMMA SetupInit == ASSUME WalSetup!Init PROVE SetupInv
<1>1. auto \in WalSetup!Settings
  <2>1. PICK f \in Found : auto = WalSetup!Before(f)
    BY DEF WalSetup!Init
  <2>2. f \in {"nothing", "this", "other"}
    BY SetupAssumption
  <2>3. CASE f = "nothing"
    BY <2>1, <2>3 DEF WalSetup!Before, WalSetup!Settings, WalSetup!Destination
  <2>4. CASE f = "this"
    BY <2>1, <2>4 DEF WalSetup!Before, WalSetup!Settings, WalSetup!Destination
  <2>5. CASE f = "other"
    BY <2>1, <2>5 DEF WalSetup!Before, WalSetup!Settings, WalSetup!Destination
  <2> QED
    BY <2>2, <2>3, <2>4, <2>5
<1>2. run \in SetupRun /\ run.step = "idle" /\ run.heard = FALSE
  BY DEF WalSetup!Init, WalSetup!Idle, SetupRun
<1> QED
  BY <1>1, <1>2 DEF WalSetup!Init, WalSetup!Settings, SetupInv

\* Success means that a segment archived since the count is in the spool.
LEMMA SetupProves == ASSUME SetupInv PROVE WalSetup!ActiveMeansArchiving
<1>1. SUFFICES ASSUME run.step = "active", run.heard
               PROVE  \E s \in spool : s > run.before /\ s <= archived
  BY DEF WalSetup!ActiveMeansArchiving, WalSetup!At
<1>2. run.before \in Nat /\ run.heard = TRUE
  BY <1>1 DEF SetupInv, SetupRun
<1> QED
  BY <1>1, <1>2 DEF SetupInv

\* Each step of the script, and what may happen beside it.
LEMMA SetupStep == ASSUME SetupInv, WalSetup!Next PROVE SetupInv'
<1> USE DEF WalSetup!At, WalSetup!Goto, WalSetup!server
<1>t. run \in SetupRun /\ archived \in Nat /\ mode \in BOOLEAN /\ auto.mode \in BOOLEAN
  BY DEF SetupInv
<1>g. ASSUME NEW s \in {"own", "settings", "reload", "restart?", "count", "poll", "active",
                        "restart needed", "died", "reported"},
             run' = [run EXCEPT !.step = s]
      PROVE  /\ run' \in SetupRun /\ run'.step = s /\ run'.heard = run.heard
             /\ run'.before = run.before
  BY <1>t, <1>g DEF SetupRun
<1>1. CASE WalSetup!Start
  <2>1. run' \in SetupRun /\ run'.step = "mount" /\ run'.heard = FALSE
    <3> DEFINE started == [WalSetup!Idle EXCEPT !.step = "mount"]
    <3>1. started \in SetupRun /\ started.step = "mount" /\ started.heard = FALSE
      BY DEF WalSetup!Idle, SetupRun
    <3>2. PICK confirm \in BOOLEAN : run' = [started EXCEPT !.confirm = confirm]
      BY <1>1 DEF WalSetup!Start
    <3> HIDE DEF started
    <3> QED
      BY <3>1, <3>2 DEF SetupRun
  <2> QED
    BY <1>1, <2>1 DEF WalSetup!Start, SetupInv
<1>2. CASE WalSetup!CheckMount
  <2>1. run.step = "mount" /\ UNCHANGED <<directory, owned, auto, WalSetup!server>>
    BY <1>2 DEF WalSetup!CheckMount
  <2>2. CASE directory = "mount" /\ run' = [run EXCEPT !.step = "own"]
    BY <1>g, <2>1, <2>2 DEF SetupInv
  <2>3. CASE run' = [run EXCEPT !.step = "died"]
    BY <1>g, <2>1, <2>3 DEF SetupInv
  <2> QED
    BY <1>2, <2>2, <2>3 DEF WalSetup!CheckMount, WalSetup!Persistent
<1>3. CASE WalSetup!PrepareSpool
  <2>1. run.step = "own" /\ UNCHANGED <<directory, auto, WalSetup!server>>
    BY <1>3 DEF WalSetup!PrepareSpool
  <2>2. run' = [run EXCEPT !.step = "settings"] \/ run' = [run EXCEPT !.step = "reported"]
    BY <1>3 DEF WalSetup!PrepareSpool
  <2>3. CASE run' = [run EXCEPT !.step = "settings"]
    BY <1>g, <2>1, <2>3 DEF SetupInv
  <2>4. CASE run' = [run EXCEPT !.step = "reported"]
    BY <1>g, <2>1, <2>4 DEF SetupInv
  <2> QED
    BY <2>2, <2>3, <2>4
<1>4. CASE WalSetup!WriteSettings
  <2> DEFINE moved == [run EXCEPT !.step = "reload"]
  <2>1. /\ run.step = "settings" /\ run' = [moved EXCEPT !.was = mode]
        /\ auto' = [mode |-> TRUE, to |-> "spool"] /\ UNCHANGED <<directory, WalSetup!server>>
    BY <1>4 DEF WalSetup!WriteSettings
  <2>2. moved \in SetupRun /\ moved.step = "reload" /\ moved.heard = run.heard
    BY <1>t DEF SetupRun
  <2> HIDE DEF moved
  <2>3. run' \in SetupRun /\ run'.step = "reload" /\ run'.heard = run.heard
    BY <1>t, <2>1, <2>2 DEF SetupRun
  <2> QED
    BY <2>1, <2>3 DEF SetupInv
<1>5. CASE WalSetup!Reload
  <2>1. run.step = "reload" /\ UNCHANGED <<directory, auto, WalSetup!server>>
    BY <1>5 DEF WalSetup!Reload
  <2>2. run' = [run EXCEPT !.step = "count"] \/ run' = [run EXCEPT !.step = "restart needed"]
    BY <1>5 DEF WalSetup!Reload
  <2>3. CASE run' = [run EXCEPT !.step = "count"]
    BY <1>g, <2>1, <2>3 DEF SetupInv
  <2>4. CASE run' = [run EXCEPT !.step = "restart needed"]
    BY <1>g, <2>1, <2>4 DEF SetupInv
  <2> QED
    BY <2>2, <2>3, <2>4
\* At the count nothing has been archived since.
<1>6. CASE WalSetup!CountBefore
  <2> DEFINE heard   == loaded = "spool" /\ copying \in {None, "spool"}
             moved   == [run EXCEPT !.step = "switch"]
             counted == [moved EXCEPT !.before = archived]
  <2>1. /\ run.step = "count" /\ run' = [counted EXCEPT !.heard = heard]
        /\ UNCHANGED <<directory, owned, auto, WalSetup!server>>
    BY <1>6 DEF WalSetup!CountBefore
  <2>2. moved \in SetupRun /\ moved.step = "switch"
    BY <1>t DEF SetupRun
  <2> HIDE DEF moved
  <2>3. counted \in SetupRun /\ counted.step = "switch" /\ counted.before = archived
    BY <1>t, <2>2 DEF SetupRun
  <2> HIDE DEF counted
  <2>4. PICK b \in BOOLEAN : b = heard
    OBVIOUS
  <2> HIDE DEF heard
  <2>5. run' = [counted EXCEPT !.heard = b]
    BY <2>1, <2>4
  <2>6. run' \in SetupRun /\ run'.step = "switch" /\ run'.before = archived /\ run'.heard = b
    BY <2>3, <2>5 DEF SetupRun
  <2>7. b = TRUE => loaded = "spool" /\ copying \in {None, "spool"}
    BY <2>4 DEF heard
  <2> QED
    BY <1>t, <2>1, <2>6, <2>7 DEF SetupInv
<1>7. CASE WalSetup!SwitchWal
  <2>1. run.step = "switch" /\ UNCHANGED <<directory, auto, mode, loaded, archived, copying, spool>>
    BY <1>7 DEF WalSetup!SwitchWal
  <2>2. run' = [run EXCEPT !.step = "poll"]
    BY <1>7 DEF WalSetup!SwitchWal
  <2> QED
    BY <1>g, <2>1, <2>2 DEF SetupInv
<1>8. CASE WalSetup!Poll
  <2>1. run.step = "poll" /\ UNCHANGED <<directory, auto, WalSetup!server>>
    BY <1>8 DEF WalSetup!Poll
  <2>2. CASE run.before < archived /\ run' = [run EXCEPT !.step = "active"]
    BY <1>g, <2>1, <2>2 DEF SetupInv
  <2>3. CASE run' = [run EXCEPT !.step = "died"]
    BY <1>g, <2>1, <2>3 DEF SetupInv
  <2>4. CASE run' = [run EXCEPT !.polls = run.polls + 1]
    <3> DEFINE n == run.polls + 1
    <3>0. run.polls \in Nat
      BY <1>t DEF SetupRun
    <3>1. n \in Nat /\ run' = [run EXCEPT !.polls = n]
      BY <2>4, <3>0
    <3> HIDE DEF n
    <3>2. /\ run' \in SetupRun /\ run'.step = run.step /\ run'.heard = run.heard
          /\ run'.before = run.before
      BY <1>t, <3>1 DEF SetupRun
    <3> QED
      BY <2>1, <3>2 DEF SetupInv
  <2>5. archived > run.before <=> run.before < archived
    BY <1>t DEF SetupRun
  <2> QED
    BY <1>8, <2>2, <2>3, <2>4, <2>5 DEF WalSetup!Poll, WalSetup!Advanced
<1>9. CASE WalSetup!Die
  <2>1. run' = [run EXCEPT !.step = "died"] /\ UNCHANGED <<directory, auto, WalSetup!server>>
    BY <1>9 DEF WalSetup!Die
  <2> QED
    BY <1>g, <2>1 DEF SetupInv
<1>10. CASE WalSetup!WriteRows
  BY <1>10 DEF WalSetup!WriteRows, SetupInv
<1>11. CASE WalSetup!CloseSegment
  BY <1>11 DEF WalSetup!CloseSegment, SetupInv
<1>12. CASE WalSetup!HearReload
  BY <1>12 DEF WalSetup!HearReload, SetupInv
<1>13. CASE WalSetup!StartCopy
  BY <1>13 DEF WalSetup!StartCopy, SetupInv
\* A copy that ends is of the segment after the last one archived.
<1>14. CASE WalSetup!EndCopy
  <2>1. copying # None /\ copying' = None /\ UNCHANGED <<directory, auto, mode, loaded, run>>
    BY <1>14 DEF WalSetup!EndCopy
  <2>2. CASE UNCHANGED <<archived, spool>>
    BY <2>1, <2>2 DEF SetupInv
  <2>3. CASE /\ archived' = archived + 1
             /\ spool' = IF copying = "spool" THEN spool \cup {archived + 1} ELSE spool
    <3>1. archived' \in Nat /\ (run.before < archived => run.before < archived')
          /\ (run.before <= archived => run.before <= archived')
      <4>1. run.before \in Nat /\ archived' = archived + 1
        BY <1>t, <2>3 DEF SetupRun
      <4> QED
        BY <1>t, <4>1
    <3>2. ASSUME run.step \in {"switch", "poll", "active"}, run.heard = TRUE, NEW s \in Nat,
                 run.before < s, s <= archived'
          PROVE  s \in spool'
      <4>1. copying = "spool"
        BY <2>1, <3>2 DEF SetupInv
      <4>2. CASE s = archived + 1
        BY <2>3, <4>1, <4>2
      <4>3. CASE s <= archived
        BY <2>3, <3>2, <4>3 DEF SetupInv
      <4> QED
        BY <1>t, <2>3, <3>2, <4>2, <4>3
    <3> QED
      BY <2>1, <2>3, <3>1, <3>2 DEF SetupInv
  <2> QED
    BY <1>14, <2>2, <2>3 DEF WalSetup!EndCopy
<1>15. CASE WalSetup!Restart
  BY <1>15 DEF WalSetup!Restart, SetupInv
\* What is on the mount outlives the container.
<1>16. CASE WalSetup!Recreate
  BY <1>16 DEF WalSetup!Recreate, SetupInv
<1> QED
  BY <1>1, <1>2, <1>3, <1>4, <1>5, <1>6, <1>7, <1>8, <1>9, <1>10, <1>11, <1>12, <1>13, <1>14,
     <1>15, <1>16 DEF WalSetup!Next

-----------------------------------------------------------------------------
(* The restore drill *)

DrillData == [schema : {"none", "part", "full"}, rows : {"none", "part", "full"},
              from : Drill!Run \cup {None}]
DrillDump == [content : {"none", "void", "lossy", "torn", "whole"}, from : Drill!Run \cup {None}]
DrillRun  == [run : 0 .. MaxRun, artifact : BOOLEAN, keep : BOOLEAN,
              step : {"idle", "network", "source", "migrate", "seed", "dump", "checksum",
                      "target", "empty", "restore", "verify", "remigrate", "api", "read",
                      "sweep", "recount", "passed", "failed"}]

\* After which steps the rows of the target have been counted once, and what went
\* before them.
Counted  == {"remigrate", "api", "read", "sweep", "recount", "passed"}
Restored == {"verify"} \cup Counted
Trusted  == {"target", "empty", "restore"} \cup Restored

\* A dump that is taken is of the data this run has seeded, one that is trusted is not
\* torn, and a target that is complete was empty before the restore.
DrillInv ==
    /\ volumes \in [Drill!Database -> DrillData] /\ dump \in DrillDump /\ drill \in DrillRun
    /\ drill.step # "idle" => drill.run \in Drill!Run
    /\ drill.step = "dump" => volumes["source"].from = drill.run
    /\ drill.step \in {"checksum"} \cup Trusted => dump.from = drill.run
    /\ drill.step \in Trusted => dump.content # "torn"
    /\ drill.step = "restore" => volumes["target"].schema = "none"
    /\ drill.step \in Restored /\ Drill!Complete(volumes["target"]) =>
          volumes["target"].from = drill.run /\ dump.content = "whole"
    /\ drill.step \in Counted => Drill!Complete(volumes["target"])

\* A host without containers satisfies the invariant.
LEMMA DrillInit == ASSUME Drill!Init PROVE DrillInv
<1>1. Drill!NoData \in DrillData /\ Drill!NoDump \in DrillDump
  BY DEF Drill!NoData, Drill!NoDump, DrillData, DrillDump
<1>2. drill \in DrillRun /\ drill.step = "idle"
  BY DrillAssumption DEF Drill!Init, DrillRun
<1> QED
  BY <1>1, <1>2 DEF Drill!Init, DrillInv, Restored, Counted, Trusted

\* A drill that passes has restored what it seeded.
LEMMA DrillProves == ASSUME DrillInv PROVE Drill!PassProvesRestore
<1>1. SUFFICES ASSUME drill.step = "passed"
               PROVE  /\ dump = [content |-> "whole", from |-> drill.run]
                      /\ volumes["target"] = [schema |-> "full", rows |-> "full", from |-> drill.run]
  BY DEF Drill!PassProvesRestore, Drill!At
<1>2. volumes["target"] \in DrillData /\ dump \in DrillDump
  BY DEF DrillInv, Drill!Database
<1>3. dump.from = drill.run /\ Drill!Complete(volumes["target"])
  BY <1>1 DEF DrillInv, Restored, Counted, Trusted
<1>4. volumes["target"].from = drill.run /\ dump.content = "whole"
  BY <1>1, <1>3 DEF DrillInv, Restored, Counted
<1>5. dump = [content |-> "whole", from |-> drill.run]
  BY <1>2, <1>3, <1>4 DEF DrillDump
<1>6. volumes["target"] = [schema |-> "full", rows |-> "full", from |-> drill.run]
  BY <1>2, <1>3, <1>4 DEF DrillData, Drill!Complete
<1> QED
  BY <1>5, <1>6
\* Every step of the drill preserves the invariant.
LEMMA DrillStep == ASSUME DrillInv, Drill!Next PROVE DrillInv'
<1> USE DEF Drill!At, Drill!Goto, Drill!Assert
<1>t. volumes \in [Drill!Database -> DrillData] /\ dump \in DrillDump /\ drill \in DrillRun
  BY DEF DrillInv
<1>d. volumes["source"] \in DrillData /\ volumes["target"] \in DrillData
  BY <1>t DEF Drill!Database
<1>s. DrillRun = [run : 0 .. MaxRun, artifact : BOOLEAN, keep : BOOLEAN,
                  step : {"idle", "network", "source", "migrate", "seed"} \cup {"dump", "checksum"}
                         \cup {"failed"} \cup Trusted]
  BY DEF DrillRun, Trusted, Restored, Counted
\* The steps before the dump, and the end of a failed run, promise nothing.
<1>f. ASSUME NEW s \in {"source", "migrate", "seed", "failed", "idle"},
             drill' = [drill EXCEPT !.step = s], drill.step # "idle",
             volumes' \in [Drill!Database -> DrillData], dump' \in DrillDump
      PROVE  DrillInv'
  <2>1. drill' \in DrillRun /\ drill'.step = s /\ drill'.run = drill.run
    BY <1>t, <1>f DEF DrillRun
  <2> QED
    BY <1>f, <2>1 DEF DrillInv, Trusted, Restored, Counted
\* The others, while the databases and the dump stay as they are.
<1>g. ASSUME NEW s \in {"dump", "checksum"} \cup Trusted, drill' = [drill EXCEPT !.step = s]
      PROVE  drill' \in DrillRun /\ drill'.step = s /\ drill'.run = drill.run
  BY <1>t, <1>g DEF DrillRun, Trusted, Restored, Counted
<1>k. ASSUME NEW s \in Trusted, drill' = [drill EXCEPT !.step = s], drill.step # "idle",
             UNCHANGED <<volumes, dump>>, dump.from = drill.run, dump.content # "torn",
             s = "restore" => volumes["target"].schema = "none",
             s \in Restored /\ Drill!Complete(volumes["target"]) =>
                volumes["target"].from = drill.run /\ dump.content = "whole",
             s \in Counted => Drill!Complete(volumes["target"])
      PROVE  DrillInv'
  <2>1. drill' \in DrillRun /\ drill'.step = s /\ drill'.run = drill.run
    BY <1>g, <1>k
  <2>2. s \notin {"idle", "dump", "checksum"}
    BY DEF Trusted, Restored, Counted
  <2>3. Drill!Complete(volumes["target"])' <=> Drill!Complete(volumes["target"])
    BY <1>k DEF Drill!Complete
  <2> QED
    BY <1>t, <1>k, <2>1, <2>2, <2>3 DEF DrillInv
<1>1. CASE Drill!Start
  <2>1. PICK artifact \in BOOLEAN, keep \in BOOLEAN :
           drill' = [run |-> drill.run + 1, step |-> "network", artifact |-> artifact, keep |-> keep]
    BY <1>1 DEF Drill!Start
  <2>2. drill.run \in 0 .. MaxRun /\ drill.run < MaxRun
    BY <1>t, <1>1 DEF DrillRun, Drill!Start
  <2>3. drill.run + 1 \in 0 .. MaxRun /\ drill.run + 1 \in Drill!Run
    BY <2>2, DrillAssumption DEF Drill!Run
  <2>4. drill' \in DrillRun /\ drill'.step = "network" /\ drill'.run = drill.run + 1
    BY <2>1, <2>3 DEF DrillRun
  <2>5. Drill!NoDump \in DrillDump
    BY DEF Drill!NoDump, DrillDump
  <2> QED
    BY <1>t, <1>1, <2>3, <2>4, <2>5 DEF Drill!Start, DrillInv, Trusted, Restored, Counted
<1>2. CASE Drill!CreateNetwork \/ Drill!StartSource
  BY <1>t, <1>f, <1>2 DEF Drill!CreateNetwork, Drill!StartSource, Drill!StartServer
<1>m. ASSUME NEW name \in Drill!Database,
             volumes' = [volumes EXCEPT ![name].schema =
                            IF volumes[name].schema = "none" THEN "full" ELSE volumes[name].schema]
      PROVE  /\ volumes' \in [Drill!Database -> DrillData]
             /\ \A d \in Drill!Database \ {name} : volumes'[d] = volumes[d]
             /\ volumes[name].schema = "full" => volumes'[name] = volumes[name]
  <2> DEFINE s == IF volumes[name].schema = "none" THEN "full" ELSE volumes[name].schema
             new == [volumes[name] EXCEPT !.schema = s]
  <2>1. volumes' = [volumes EXCEPT ![name] = new]
    BY <1>m
  <2>2. volumes[name] \in DrillData
    BY <1>t
  <2>3. s \in {"none", "part", "full"} /\ (volumes[name].schema = "full" => s = volumes[name].schema)
    BY <2>2 DEF DrillData
  <2> HIDE DEF s
  <2>4. new \in DrillData /\ (s = volumes[name].schema => new = volumes[name])
    BY <2>2, <2>3 DEF DrillData
  <2> QED
    BY <1>t, <2>1, <2>3, <2>4
<1>3. CASE Drill!MigrateSource
  <2>1. volumes' \in [Drill!Database -> DrillData]
    BY <1>m, <1>3 DEF Drill!MigrateSource, Drill!Migrate, Drill!Database
  <2> QED
    BY <1>t, <1>f, <1>3, <2>1 DEF Drill!MigrateSource, Drill!Migrate
<1>4. CASE Drill!Seed
  <2>1. CASE UNCHANGED volumes /\ drill' = [drill EXCEPT !.step = "failed"]
    BY <1>t, <1>f, <1>4, <2>1 DEF Drill!Seed
  <2>2. CASE /\ drill' = [drill EXCEPT !.step = "dump"]
             /\ volumes' = [volumes EXCEPT !["source"].rows = "full", !["source"].from = drill.run]
    <3> DEFINE rows == [volumes["source"] EXCEPT !.rows = "full"]
               new == [rows EXCEPT !.from = drill.run]
    <3>1. volumes' = [volumes EXCEPT !["source"] = new]
      BY <2>2
    <3>2. drill.run \in Drill!Run
      BY <1>4 DEF Drill!Seed, DrillInv
    <3>3. rows \in DrillData
      BY <1>d DEF DrillData
    <3> HIDE DEF rows
    <3>4. new \in DrillData /\ new.from = drill.run
      BY <3>2, <3>3 DEF DrillData
    <3>5. volumes' \in [Drill!Database -> DrillData] /\ volumes'["source"].from = drill.run
      BY <1>t, <3>1, <3>4 DEF Drill!Database
    <3> QED
      BY <1>t, <1>g, <1>4, <2>2, <3>2, <3>5
         DEF Drill!Seed, DrillInv, Trusted, Restored, Counted
  <2> QED
    BY <1>4, <2>1, <2>2 DEF Drill!Seed
<1>5. CASE Drill!Dump
  <2>1. PICK content \in {"whole", "lossy", "void"} :
           dump' = [content |-> content, from |-> volumes["source"].from]
    BY <1>5 DEF Drill!Dump
  <2>2. volumes["source"].from = drill.run /\ drill.run \in Drill!Run
    BY <1>5 DEF Drill!Dump, DrillInv
  <2>3. dump' \in DrillDump /\ dump'.from = drill.run
    BY <2>1, <2>2 DEF DrillDump
  <2> QED
    BY <1>t, <1>g, <1>5, <2>2, <2>3 DEF Drill!Dump, DrillInv, Trusted, Restored, Counted
<1>6. CASE Drill!Damage
  <2>1. dump' \in DrillDump /\ dump'.from = dump.from
    BY <1>t, <1>6 DEF Drill!Damage, DrillDump
  <2> QED
    BY <1>t, <1>6, <2>1 DEF Drill!Damage, DrillInv, Trusted, Restored, Counted
<1>7. CASE Drill!VerifyChecksum
  <2>1. dump.from = drill.run /\ drill.step # "idle"
    BY <1>7 DEF Drill!VerifyChecksum, DrillInv
  <2>2. "target" \in Trusted /\ "target" \notin Restored /\ "target" \notin Counted
    BY DEF Trusted, Restored, Counted
  <2>3. CASE dump.content # "torn"
    BY <1>k, <1>7, <2>1, <2>2, <2>3 DEF Drill!VerifyChecksum
  <2>4. CASE dump.content = "torn"
    BY <1>t, <1>f, <1>7, <2>4 DEF Drill!VerifyChecksum
  <2> QED
    BY <2>3, <2>4
<1>8. CASE Drill!StartTarget
  <2>1. drill.step = "target" /\ UNCHANGED <<volumes, dump>>
    BY <1>8 DEF Drill!StartTarget, Drill!StartServer
  <2>2. /\ "target" \in Trusted
        /\ "empty" \in Trusted /\ "empty" \notin Restored /\ "empty" \notin Counted
    BY DEF Trusted, Restored, Counted
  <2>3. dump.from = drill.run /\ dump.content # "torn"
    BY <2>1, <2>2 DEF DrillInv
  <2>4. CASE drill' = [drill EXCEPT !.step = "empty"]
    BY <1>k, <2>1, <2>2, <2>3, <2>4
  <2>5. CASE drill' = [drill EXCEPT !.step = "failed"]
    BY <1>t, <1>f, <2>1, <2>5
  <2> QED
    BY <1>8, <2>4, <2>5 DEF Drill!StartTarget, Drill!StartServer
<1>9. CASE Drill!AssertFresh
  <2>1. drill.step = "empty" /\ UNCHANGED <<volumes, dump>>
    BY <1>9 DEF Drill!AssertFresh
  <2>2. /\ "empty" \in Trusted
        /\ "restore" \in Trusted /\ "restore" \notin Restored /\ "restore" \notin Counted
    BY DEF Trusted, Restored, Counted
  <2>3. dump.from = drill.run /\ dump.content # "torn"
    BY <2>1, <2>2 DEF DrillInv
  <2>4. CASE drill' = [drill EXCEPT !.step = "restore"] /\ volumes["target"].schema = "none"
    BY <1>k, <2>1, <2>2, <2>3, <2>4
  <2>5. CASE drill' = [drill EXCEPT !.step = "failed"]
    BY <1>t, <1>f, <2>1, <2>5
  <2> QED
    BY <1>9, <2>4, <2>5 DEF Drill!AssertFresh, Drill!Fresh
\* A restore that does not fail leaves the data of a dump that was whole, or of one
\* that was not and is not complete.
<1>10. CASE Drill!Restore
  <2>1. /\ drill.step = "restore" /\ UNCHANGED dump /\ volumes["target"].schema = "none"
        /\ dump.from = drill.run /\ dump.content # "torn" /\ drill.run \in Drill!Run
    BY <1>10 DEF Drill!Restore, DrillInv, Trusted
  <2>2. /\ "verify" \in Trusted /\ "verify" \in Restored /\ "verify" \notin Counted
    BY DEF Trusted, Restored, Counted
  <2>3. ASSUME NEW schema \in {"part", "full"}, NEW rows \in {"none", "part", "full"},
               volumes' = [volumes EXCEPT !["target"] =
                              [schema |-> schema, from |-> dump.from, rows |-> rows]]
        PROVE  /\ volumes' \in [Drill!Database -> DrillData]
               /\ volumes'["target"].from = drill.run /\ volumes'["target"].rows = rows
    <3>1. [schema |-> schema, from |-> dump.from, rows |-> rows] \in DrillData
      BY <2>1 DEF DrillData
    <3> QED
      BY <1>t, <2>1, <2>3, <3>1 DEF Drill!Database
  <2>4. CASE dump.content = "void" /\ drill' = [drill EXCEPT !.step = "verify"] /\ UNCHANGED volumes
    <3>1. ~Drill!Complete(volumes["target"])
      BY <2>1 DEF Drill!Complete
    <3> QED
      BY <1>k, <2>1, <2>2, <2>4, <3>1
  <2>5. CASE drill' = [drill EXCEPT !.step = "failed"] /\ UNCHANGED volumes
    BY <1>t, <1>f, <2>1, <2>5
  <2>6. CASE /\ dump.content \in {"whole", "lossy"} /\ drill' = [drill EXCEPT !.step = "verify"]
             /\ volumes' = [volumes EXCEPT !["target"] =
                   [schema |-> "full", from |-> dump.from,
                    rows |-> IF dump.content = "whole" THEN "full" ELSE "part"]]
    <3> DEFINE rows == IF dump.content = "whole" THEN "full" ELSE "part"
    <3>1. rows \in {"none", "part", "full"} /\ (rows = "full" => dump.content = "whole")
      OBVIOUS
    <3>2. volumes' = [volumes EXCEPT !["target"] =
                         [schema |-> "full", from |-> dump.from, rows |-> rows]]
      BY <2>6
    <3> HIDE DEF rows
    <3>3. /\ volumes' \in [Drill!Database -> DrillData]
          /\ volumes'["target"].from = drill.run /\ volumes'["target"].rows = rows
      BY <2>3, <3>1, <3>2
    <3>4. Drill!Complete(volumes["target"])' => dump.content = "whole"
      BY <3>1, <3>3 DEF Drill!Complete
    <3>5. drill' \in DrillRun /\ drill'.step = "verify" /\ drill'.run = drill.run
      BY <1>g, <2>2, <2>6
    <3> QED
      BY <1>t, <2>1, <2>2, <3>3, <3>4, <3>5 DEF DrillInv
  <2>7. CASE /\ drill' = [drill EXCEPT !.step = "failed"]
             /\ \E schema \in {"part", "full"} :
                   volumes' = [volumes EXCEPT !["target"] =
                      [schema |-> schema, from |-> dump.from,
                       rows |-> IF schema = "full" THEN "part" ELSE "none"]]
    <3>1. PICK schema \in {"part", "full"} :
             volumes' = [volumes EXCEPT !["target"] =
                [schema |-> schema, from |-> dump.from,
                 rows |-> IF schema = "full" THEN "part" ELSE "none"]]
      BY <2>7
    <3> DEFINE rows == IF schema = "full" THEN "part" ELSE "none"
    <3>2. rows \in {"none", "part", "full"}
      OBVIOUS
    <3>3. volumes' = [volumes EXCEPT !["target"] =
                         [schema |-> schema, from |-> dump.from, rows |-> rows]]
      BY <3>1
    <3> HIDE DEF rows
    <3>4. volumes' \in [Drill!Database -> DrillData]
      BY <2>3, <3>2, <3>3
    <3> QED
      BY <1>t, <1>f, <2>1, <2>7, <3>4
  <2> QED
    BY <1>10, <2>4, <2>5, <2>6, <2>7 DEF Drill!Restore
\* What is counted again stays complete.
<1>c. ASSUME drill.step \in Restored, NEW s \in Counted, Drill!Complete(volumes["target"]),
             UNCHANGED <<volumes, dump>>, drill' = [drill EXCEPT !.step = s]
      PROVE  DrillInv'
  <2>1. drill.step \in Trusted /\ s \in Trusted /\ s # "restore" /\ drill.step # "idle"
    BY <1>c DEF Trusted, Restored, Counted
  <2>2. dump.from = drill.run /\ dump.content # "torn"
    BY <2>1 DEF DrillInv
  <2>3. volumes["target"].from = drill.run /\ dump.content = "whole"
    BY <1>c DEF DrillInv
  <2> QED
    BY <1>c, <1>k, <2>1, <2>2, <2>3
<1>11. CASE Drill!Verify \/ Drill!Recount \/ Drill!ReadBack
  <2>1. /\ drill.step \in {"verify", "recount", "read"} /\ UNCHANGED <<volumes, dump>>
        /\ {"remigrate", "passed", "sweep"} \subseteq Counted /\ drill.step \in Restored
    BY <1>11 DEF Drill!Verify, Drill!Recount, Drill!ReadBack, Restored, Counted
  <2>2. CASE Drill!Complete(volumes["target"])
    BY <1>c, <1>11, <2>1, <2>2 DEF Drill!Verify, Drill!Recount, Drill!ReadBack
  <2>3. CASE ~Drill!Complete(volumes["target"])
    BY <1>t, <1>f, <1>11, <2>1, <2>3 DEF Drill!Verify, Drill!Recount, Drill!ReadBack
  <2> QED
    BY <2>2, <2>3
<1>12. CASE Drill!Remigrate
  <2>1. drill.step = "remigrate" /\ UNCHANGED dump
    BY <1>12 DEF Drill!Remigrate, Drill!Migrate
  <2>2. drill.step \in Restored /\ "api" \in Counted /\ "passed" \in Counted
        /\ Drill!Complete(volumes["target"])
    BY <2>1 DEF DrillInv, Restored, Counted
  <2>3. volumes' \in [Drill!Database -> DrillData] /\ volumes'["target"] = volumes["target"]
        /\ volumes'["source"] = volumes["source"]
    BY <1>m, <1>12, <2>2 DEF Drill!Remigrate, Drill!Migrate, Drill!Database, Drill!Complete
  <2>4. volumes' = volumes
    BY <1>t, <2>3 DEF Drill!Database
  <2>5. \/ drill' = [drill EXCEPT !.step = "api"] \/ drill' = [drill EXCEPT !.step = "passed"]
        \/ drill' = [drill EXCEPT !.step = "failed"]
    BY <1>12 DEF Drill!Remigrate, Drill!Migrate
  <2>6. CASE drill' = [drill EXCEPT !.step = "failed"]
    BY <1>t, <1>f, <2>1, <2>3, <2>6
  <2> QED
    BY <1>c, <2>1, <2>2, <2>4, <2>5, <2>6
<1>13. CASE Drill!StartApi \/ Drill!Sweep
  <2>1. /\ drill.step \in {"api", "sweep"} /\ UNCHANGED <<volumes, dump>>
        /\ {"read", "recount"} \subseteq Counted /\ drill.step \in Restored
        /\ Drill!Complete(volumes["target"])
    BY <1>13 DEF Drill!StartApi, Drill!Sweep, DrillInv, Restored, Counted
  <2>2. \/ drill' = [drill EXCEPT !.step = "read"] \/ drill' = [drill EXCEPT !.step = "recount"]
        \/ drill' = [drill EXCEPT !.step = "failed"]
    BY <1>13 DEF Drill!StartApi, Drill!Sweep
  <2>3. CASE drill' = [drill EXCEPT !.step = "failed"]
    BY <1>t, <1>f, <2>1, <2>3
  <2> QED
    BY <1>c, <2>1, <2>2, <2>3
<1>14. CASE Drill!Fail \/ Drill!Kill
  BY <1>t, <1>f, <1>14 DEF Drill!Fail, Drill!Kill
<1>15. CASE Drill!Cleanup
  <2>1. drill.step # "idle" /\ drill' = [drill EXCEPT !.step = "idle"]
    BY <1>15 DEF Drill!Cleanup
  <2>2. Drill!NoData \in DrillData /\ Drill!NoDump \in DrillDump
    BY DEF Drill!NoData, Drill!NoDump, DrillData, DrillDump
  <2>3. volumes' \in [Drill!Database -> DrillData] /\ dump' \in DrillDump
    BY <1>t, <1>15, <2>2 DEF Drill!Cleanup
  <2> QED
    BY <1>f, <2>1, <2>3
<1> QED
  BY <1>1, <1>2, <1>3, <1>4, <1>5, <1>6, <1>7, <1>8, <1>9, <1>10, <1>11, <1>12, <1>13, <1>14,
     <1>15 DEF Drill!Next

-----------------------------------------------------------------------------
(* The rehearsal of recovery from off-host storage *)

LiveData == [rows : Nat, ledger : Nat]
Dumped   == LiveData \cup {None}
Document == [digest : Dumped, ledger : Nat]
Shipping == [step : {"idle", "started", "counted", "dumped", "stored"}, point : Nat, key : Nat,
             ledger : Nat]
RehearsalRun ==
    [step : {"idle", "catalog", "documents", "fetch", "digest", "restore", "ledger", "rows",
             "migrate", "api", "passed", "failed"},
     image : {None} \cup 1 .. MaxMigration, listed : SUBSET Rehearsal!Point,
     point : {None} \cup Rehearsal!Point, document : {None} \cup Document]

\* What is known of the run after each step.
Ledgered == {"rows", "migrate", "api", "passed"}
Loaded   == {"ledger"} \cup Ledgered
Verified == {"restore"} \cup Loaded
Chosen   == {"fetch", "digest"} \cup Verified

RehearsalTypes ==
    /\ live \in LiveData /\ key \in Nat /\ backup \in Shipping
    /\ dumped \in [Rehearsal!Point -> Dumped]
    /\ documents \in [Rehearsal!Point -> Document \cup {None}]
    /\ rehearsal \in RehearsalRun
    /\ backup.step # "idle" => backup.point \in Rehearsal!Point
    /\ rehearsal.step = "migrate" => rehearsal.image \in 1 .. MaxMigration

\* No backup reads the database for a point again.
Settled(p) == p < backup.point \/ (p = backup.point /\ backup.step = "idle")

\* A document is of what its backup read; it is stored last, and points are not used
\* again.
DocumentsAreTrue ==
    \A p \in Rehearsal!Point : documents[p] # None => Settled(p) /\ documents[p].digest = dumped[p]

\* What the run holds is what its document says, and what the document says was read.
RunIsTrue ==
    /\ rehearsal.step \in Chosen =>
          /\ rehearsal.point \in Rehearsal!Point /\ Settled(rehearsal.point)
          /\ rehearsal.document \in Document
          /\ rehearsal.document.digest = dumped[rehearsal.point]
    /\ rehearsal.step \in Verified => file = rehearsal.document.digest
    /\ rehearsal.step \in Loaded => target = file
    /\ rehearsal.step \in Ledgered => target.ledger = rehearsal.document.ledger

RehearsalInv == RehearsalTypes /\ DocumentsAreTrue /\ RunIsTrue

\* An empty store satisfies the invariant.
LEMMA RehearsalInit == ASSUME Rehearsal!Init PROVE RehearsalInv
<1>1. rehearsal \in RehearsalRun /\ rehearsal.step = "idle"
  BY DEF Rehearsal!Init, Rehearsal!NoRehearsal, RehearsalRun
<1>2. live \in LiveData /\ backup \in Shipping /\ backup.step = "idle"
  BY DEF Rehearsal!Init, Rehearsal!NoBackup, LiveData, Shipping
<1>3. /\ key \in Nat /\ dumped \in [Rehearsal!Point -> Dumped]
      /\ documents \in [Rehearsal!Point -> Document \cup {None}]
      /\ \A p \in Rehearsal!Point : documents[p] = None
  BY DEF Rehearsal!Init, Dumped
<1>4. RehearsalTypes
  BY <1>1, <1>2, <1>3 DEF RehearsalTypes
<1> QED
  BY <1>1, <1>3, <1>4
     DEF RehearsalInv, DocumentsAreTrue, RunIsTrue, Chosen, Verified, Loaded, Ledgered

\* A run that passes has restored what the backup read.
LEMMA RehearsalProves == ASSUME RehearsalInv PROVE Rehearsal!PassProvesRecovery
<1>1. SUFFICES ASSUME rehearsal.step = "passed" PROVE target = dumped[rehearsal.point]
  BY DEF Rehearsal!PassProvesRecovery, Rehearsal!At
<1> QED
  BY <1>1 DEF RehearsalInv, RunIsTrue, Chosen, Verified, Loaded, Ledgered

\* A step outside the run that keeps the points that are settled, and what was read for
\* them.
LEMMA OutsideStep ==
  ASSUME RehearsalInv, RehearsalTypes', DocumentsAreTrue', UNCHANGED Rehearsal!inRun,
         \A p \in Rehearsal!Point : Settled(p) => Settled(p)' /\ dumped'[p] = dumped[p]
  PROVE  RehearsalInv'
<1>1. UNCHANGED <<rehearsal, file, target>>
  BY DEF Rehearsal!inRun
<1>2. ASSUME rehearsal.step \in Chosen
      PROVE  /\ rehearsal.point \in Rehearsal!Point /\ Settled(rehearsal.point)'
             /\ rehearsal.document \in Document
             /\ rehearsal.document.digest = dumped'[rehearsal.point]
  <2>1. PICK p \in Rehearsal!Point : p = rehearsal.point /\ Settled(p)
    BY <1>2 DEF RehearsalInv, RunIsTrue
  <2>2. Settled(p)' /\ dumped'[p] = dumped[p] /\ p = rehearsal'.point
    BY <1>1, <2>1
  <2>3. Settled(rehearsal.point)'
    BY <2>2 DEF Settled
  <2> QED
    BY <1>2, <2>1, <2>2, <2>3 DEF RehearsalInv, RunIsTrue
<1>3. RunIsTrue'
  BY <1>1, <1>2 DEF RehearsalInv, RunIsTrue
<1> QED
  BY <1>3 DEF RehearsalInv

\* A step of a backup, which may settle its point but not unsettle one.
LEMMA DumpStep ==
  ASSUME RehearsalInv,
         \/ Rehearsal!StartBackup \/ Rehearsal!CountMigrations \/ Rehearsal!TakeDump
         \/ Rehearsal!StoreArtifact \/ Rehearsal!StoreDocument \/ Rehearsal!BackupFails
  PROVE  RehearsalInv'
<1>t. /\ live \in LiveData /\ live.ledger \in Nat /\ key \in Nat /\ backup \in Shipping
      /\ backup.point \in Nat /\ dumped \in [Rehearsal!Point -> Dumped]
      /\ documents \in [Rehearsal!Point -> Document \cup {None}]
      /\ rehearsal \in RehearsalRun /\ (backup.step # "idle" => backup.point \in Rehearsal!Point)
      /\ (rehearsal.step = "migrate" => rehearsal.image \in 1 .. MaxMigration)
  BY DEF RehearsalInv, RehearsalTypes, LiveData, Shipping
<1>p. \A p \in Rehearsal!Point : p \in Nat
  BY DEF Rehearsal!Point
<1>s. UNCHANGED <<live, key, Rehearsal!inRun>> /\ UNCHANGED rehearsal
  BY DEF Rehearsal!StartBackup, Rehearsal!CountMigrations, Rehearsal!TakeDump,
         Rehearsal!StoreArtifact, Rehearsal!StoreDocument, Rehearsal!BackupFails,
         Rehearsal!inRun, Rehearsal!store
<1>g. ASSUME backup' \in Shipping, backup'.point \in Nat, UNCHANGED <<dumped, documents>>,
             backup'.step # "idle" => backup'.point \in Rehearsal!Point,
             \A p \in Rehearsal!Point : Settled(p) => Settled(p)'
      PROVE  RehearsalInv'
  <2>1. RehearsalTypes'
    BY <1>t, <1>s, <1>g DEF RehearsalTypes
  <2>2. DocumentsAreTrue'
    BY <1>g DEF RehearsalInv, DocumentsAreTrue
  <2> QED
    BY <1>g, <1>s, <2>1, <2>2, OutsideStep
<1>1. CASE Rehearsal!StartBackup
  <2> DEFINE started == [backup EXCEPT !.step = "started"]
             pointed == [started EXCEPT !.point = backup.point + 1]
  <2>1. /\ backup' = [pointed EXCEPT !.key = key] /\ backup.step = "idle"
        /\ backup.point < MaxPoint /\ UNCHANGED <<dumped, documents>>
    BY <1>1 DEF Rehearsal!StartBackup, Rehearsal!store
  <2>2. started \in Shipping /\ started.step = "started"
    BY <1>t DEF Shipping
  <2>3. backup.point + 1 \in Nat /\ backup.point + 1 \in Rehearsal!Point
    BY <1>t, <2>1, RehearsalAssumption DEF Rehearsal!Point
  <2> HIDE DEF started
  <2>4. pointed \in Shipping /\ pointed.step = "started" /\ pointed.point = backup.point + 1
    BY <2>2, <2>3 DEF Shipping
  <2> HIDE DEF pointed
  <2>5. backup' \in Shipping /\ backup'.step = "started" /\ backup'.point = backup.point + 1
    BY <1>t, <2>1, <2>4 DEF Shipping
  <2>6. \A p \in Rehearsal!Point : Settled(p) => Settled(p)'
    BY <1>t, <1>p, <2>5 DEF Settled
  <2> QED
    BY <1>g, <2>1, <2>3, <2>5, <2>6
<1>2. CASE Rehearsal!CountMigrations
  <2> DEFINE counted == [backup EXCEPT !.step = "counted"]
  <2>1. /\ backup' = [counted EXCEPT !.ledger = live.ledger] /\ backup.step = "started"
        /\ UNCHANGED <<dumped, documents>>
    BY <1>2 DEF Rehearsal!CountMigrations, Rehearsal!store
  <2>2. counted \in Shipping /\ counted.step = "counted" /\ counted.point = backup.point
    BY <1>t DEF Shipping
  <2> HIDE DEF counted
  <2>3. backup' \in Shipping /\ backup'.step = "counted" /\ backup'.point = backup.point
    BY <1>t, <2>1, <2>2 DEF Shipping
  <2>4. \A p \in Rehearsal!Point : Settled(p) => Settled(p)'
    BY <2>1, <2>3 DEF Settled
  <2> QED
    BY <1>g, <1>t, <2>1, <2>3, <2>4
\* Only the point of the backup, which is not settled, is read.
<1>3. CASE Rehearsal!TakeDump
  <2>1. /\ backup.step = "counted" /\ backup' = [backup EXCEPT !.step = "dumped"]
        /\ dumped' = [dumped EXCEPT ![backup.point] = live] /\ UNCHANGED documents
    BY <1>3 DEF Rehearsal!TakeDump, Rehearsal!store
  <2>2. backup' \in Shipping /\ backup'.step = "dumped" /\ backup'.point = backup.point
    BY <1>t, <2>1 DEF Shipping
  <2>3. ASSUME NEW p \in Rehearsal!Point, Settled(p)
        PROVE  Settled(p)' /\ dumped'[p] = dumped[p]
    <3>1. p < backup.point
      BY <2>1, <2>3 DEF Settled
    <3>2. p # backup.point
      BY <1>t, <1>p, <3>1
    <3> QED
      BY <1>t, <2>1, <2>2, <3>1, <3>2 DEF Settled
  <2>4. RehearsalTypes'
    BY <1>t, <1>s, <2>1, <2>2 DEF RehearsalTypes, Dumped
  <2>5. DocumentsAreTrue'
    BY <2>1, <2>3 DEF RehearsalInv, DocumentsAreTrue
  <2> QED
    BY <1>s, <2>3, <2>4, <2>5, OutsideStep
<1>4. CASE Rehearsal!StoreArtifact \/ Rehearsal!BackupFails
  <2>1. /\ UNCHANGED <<dumped, documents>> /\ backup.step # "idle"
        /\ \/ backup' = [backup EXCEPT !.step = "stored"]
           \/ backup' = [backup EXCEPT !.step = "idle"]
    BY <1>4 DEF Rehearsal!StoreArtifact, Rehearsal!BackupFails, Rehearsal!store
  <2>2. backup' \in Shipping /\ backup'.point = backup.point
    BY <1>t, <2>1 DEF Shipping
  <2>3. \A p \in Rehearsal!Point : Settled(p) => Settled(p)'
    BY <2>1, <2>2 DEF Settled
  <2> QED
    BY <1>g, <1>t, <2>1, <2>2, <2>3
<1>5. CASE Rehearsal!StoreDocument
  <2> DEFINE new == [digest |-> dumped[backup.point], ledger |-> backup.ledger]
  <2>1. /\ backup.step = "stored" /\ backup' = [backup EXCEPT !.step = "idle"]
        /\ UNCHANGED dumped /\ documents' = [documents EXCEPT ![backup.point] = new]
    BY <1>5 DEF Rehearsal!StoreDocument
  <2>2. backup' \in Shipping /\ backup'.point = backup.point /\ backup'.step = "idle"
        /\ backup.ledger \in Nat /\ backup.point \in Rehearsal!Point
    BY <1>t, <2>1 DEF Shipping
  <2>3. new \in Document /\ new.digest = dumped[backup.point]
    BY <1>t, <2>2 DEF Document
  <2> HIDE DEF new
  <2>4. \A p \in Rehearsal!Point : Settled(p) => Settled(p)'
    BY <2>1, <2>2 DEF Settled
  <2>5. RehearsalTypes'
    BY <1>t, <1>s, <2>1, <2>2, <2>3 DEF RehearsalTypes
  <2>6. DocumentsAreTrue'
    <3> SUFFICES ASSUME NEW p \in Rehearsal!Point, documents'[p] # None
                 PROVE  Settled(p)' /\ documents'[p].digest = dumped[p]
      BY <2>1 DEF DocumentsAreTrue
    <3>1. CASE p = backup.point
      BY <1>t, <2>1, <2>2, <2>3, <3>1 DEF Settled
    <3>2. CASE p # backup.point
      BY <1>t, <2>1, <2>4, <3>2 DEF RehearsalInv, DocumentsAreTrue
    <3> QED
      BY <3>1, <3>2
  <2> QED
    BY <1>s, <2>1, <2>4, <2>5, <2>6, OutsideStep
<1> QED
  BY <1>1, <1>2, <1>3, <1>4, <1>5

\* A step of the live system or in the store.
LEMMA StoreStep ==
  ASSUME RehearsalInv,
         \/ Rehearsal!Write \/ Rehearsal!Migrate \/ Rehearsal!ReplaceKey
         \/ \E p \in Rehearsal!Point : \/ Rehearsal!Prune(p) \/ Rehearsal!Damage(p)
                                       \/ \E q \in Rehearsal!Point : Rehearsal!Misplace(p, q)
  PROVE  RehearsalInv'
<1>t. /\ live \in LiveData /\ key \in Nat /\ backup \in Shipping
      /\ dumped \in [Rehearsal!Point -> Dumped]
      /\ documents \in [Rehearsal!Point -> Document \cup {None}]
      /\ rehearsal \in RehearsalRun /\ (backup.step # "idle" => backup.point \in Rehearsal!Point)
      /\ (rehearsal.step = "migrate" => rehearsal.image \in 1 .. MaxMigration)
  BY DEF RehearsalInv, RehearsalTypes
<1>1. UNCHANGED <<backup, dumped, Rehearsal!inRun>> /\ UNCHANGED rehearsal
  BY DEF Rehearsal!Write, Rehearsal!Migrate, Rehearsal!ReplaceKey, Rehearsal!Prune,
         Rehearsal!Damage, Rehearsal!Misplace, Rehearsal!inRun
<1>2. live' \in LiveData /\ key' \in Nat
  <2>1. live.rows \in Nat /\ live.ledger \in Nat
    BY <1>t DEF LiveData
  <2>2. CASE Rehearsal!Write
    <3> DEFINE n == live.rows + 1
    <3>1. n \in Nat /\ live' = [live EXCEPT !.rows = n] /\ UNCHANGED key
      BY <2>1, <2>2 DEF Rehearsal!Write
    <3> HIDE DEF n
    <3> QED
      BY <1>t, <3>1 DEF LiveData
  <2>3. CASE Rehearsal!Migrate
    <3> DEFINE n == live.ledger + 1
    <3>1. n \in Nat /\ live' = [live EXCEPT !.ledger = n] /\ UNCHANGED key
      BY <2>1, <2>3 DEF Rehearsal!Migrate
    <3> HIDE DEF n
    <3> QED
      BY <1>t, <3>1 DEF LiveData
  <2>4. CASE Rehearsal!ReplaceKey
    BY <1>t, <2>4 DEF Rehearsal!ReplaceKey
  <2>5. CASE ~Rehearsal!Write /\ ~Rehearsal!Migrate /\ ~Rehearsal!ReplaceKey
    BY <1>t, <2>5 DEF Rehearsal!Prune, Rehearsal!Damage, Rehearsal!Misplace
  <2> QED
    BY <2>2, <2>3, <2>4, <2>5
<1>3. /\ documents' \in [Rehearsal!Point -> Document \cup {None}]
      /\ \A p \in Rehearsal!Point : documents'[p] # None => documents'[p] = documents[p]
  BY <1>t DEF Rehearsal!Write, Rehearsal!Migrate, Rehearsal!ReplaceKey, Rehearsal!Prune,
              Rehearsal!Damage, Rehearsal!Misplace, Rehearsal!store
<1>4. \A p \in Rehearsal!Point : Settled(p) => Settled(p)'
  BY <1>1 DEF Settled
<1>5. RehearsalTypes'
  BY <1>t, <1>1, <1>2, <1>3 DEF RehearsalTypes
<1>6. DocumentsAreTrue'
  BY <1>1, <1>3, <1>4 DEF RehearsalInv, DocumentsAreTrue
<1> QED
  BY <1>1, <1>4, <1>5, <1>6, OutsideStep
\* A step of the run itself.
LEMMA RunStep ==
  ASSUME RehearsalInv,
         \/ Rehearsal!Begin \/ Rehearsal!ListObjects \/ Rehearsal!SelectPoint \/ Rehearsal!Fetch
         \/ Rehearsal!VerifyDigest \/ Rehearsal!Restore \/ Rehearsal!VerifyLedger
         \/ Rehearsal!VerifyRows \/ Rehearsal!Remigrate \/ Rehearsal!StartApi \/ Rehearsal!Fail
         \/ Rehearsal!Cleanup
  PROVE  RehearsalInv'
<1> USE DEF Rehearsal!At, Rehearsal!Goto, Rehearsal!Check
<1>t. /\ rehearsal \in RehearsalRun /\ RehearsalTypes
      /\ (rehearsal.step = "migrate" => rehearsal.image \in 1 .. MaxMigration)
      /\ documents \in [Rehearsal!Point -> Document \cup {None}]
  BY DEF RehearsalInv, RehearsalTypes
<1>e. UNCHANGED <<live, key, backup, dumped, documents>>
  BY DEF Rehearsal!Begin, Rehearsal!ListObjects, Rehearsal!SelectPoint, Rehearsal!Fetch,
         Rehearsal!VerifyDigest, Rehearsal!Restore, Rehearsal!VerifyLedger, Rehearsal!VerifyRows,
         Rehearsal!Remigrate, Rehearsal!StartApi, Rehearsal!Fail, Rehearsal!Cleanup,
         Rehearsal!elsewhere, Rehearsal!store
<1>d. DocumentsAreTrue' /\ \A p \in Rehearsal!Point : Settled(p) => Settled(p)'
  BY <1>e DEF RehearsalInv, DocumentsAreTrue, Settled
\* It is enough that the run stays true.
<1>q. ASSUME rehearsal' \in RehearsalRun, RunIsTrue',
             rehearsal'.step = "migrate" => rehearsal'.image \in 1 .. MaxMigration
      PROVE  RehearsalInv'
  <2>1. RehearsalTypes'
    BY <1>t, <1>e, <1>q DEF RehearsalTypes
  <2> QED
    BY <1>d, <1>q, <2>1 DEF RehearsalInv
\* Before a point is chosen and after a failure nothing is promised.
<1>f. ASSUME rehearsal' \in RehearsalRun,
             rehearsal'.step \in {"idle", "catalog", "documents", "failed"}
      PROVE  RehearsalInv'
  <2>1. RunIsTrue'
    BY <1>f DEF RunIsTrue, Chosen, Verified, Loaded, Ledgered
  <2> QED
    BY <1>f, <1>q, <2>1
<1>g. ASSUME NEW s \in {"idle", "catalog", "documents", "fetch", "digest", "restore", "ledger",
                        "rows", "migrate", "api", "passed", "failed"},
             rehearsal' = [rehearsal EXCEPT !.step = s]
      PROVE  /\ rehearsal' \in RehearsalRun /\ rehearsal'.step = s
             /\ rehearsal'.image = rehearsal.image /\ rehearsal'.point = rehearsal.point
             /\ rehearsal'.document = rehearsal.document
  BY <1>t, <1>g DEF RehearsalRun
\* The run moves on with the point and the document it has.
<1>n. ASSUME rehearsal.step \in Chosen, NEW s \in Chosen, rehearsal' = [rehearsal EXCEPT !.step = s],
             s \in Verified => file' = rehearsal.document.digest,
             s \in Loaded => target' = file',
             s \in Ledgered => target'.ledger = rehearsal.document.ledger,
             s = "migrate" => rehearsal.image \in 1 .. MaxMigration
      PROVE  RehearsalInv'
  <2>1. /\ rehearsal' \in RehearsalRun /\ rehearsal'.step = s
        /\ rehearsal'.image = rehearsal.image /\ rehearsal'.point = rehearsal.point
        /\ rehearsal'.document = rehearsal.document
    BY <1>g, <1>n DEF Chosen, Verified, Loaded, Ledgered
  <2>2. /\ rehearsal.point \in Rehearsal!Point /\ Settled(rehearsal.point)
        /\ rehearsal.document \in Document
        /\ rehearsal.document.digest = dumped[rehearsal.point]
    BY <1>n DEF RehearsalInv, RunIsTrue
  <2>3. Settled(rehearsal.point)'
    BY <1>e, <2>1, <2>2 DEF Settled
  <2>4. RunIsTrue'
    BY <1>e, <1>n, <2>1, <2>2, <2>3 DEF RunIsTrue
  <2> QED
    BY <1>n, <1>q, <2>1, <2>4
<1>1. CASE Rehearsal!Begin
  <2> DEFINE begun == [Rehearsal!NoRehearsal EXCEPT !.step = "catalog"]
  <2>1. PICK image \in {None} \cup 1 .. MaxMigration : rehearsal' = [begun EXCEPT !.image = image]
    BY <1>1 DEF Rehearsal!Begin
  <2>2. begun \in RehearsalRun /\ begun.step = "catalog"
    BY DEF Rehearsal!NoRehearsal, RehearsalRun
  <2> HIDE DEF begun
  <2>3. rehearsal' \in RehearsalRun /\ rehearsal'.step = "catalog"
    BY <2>1, <2>2 DEF RehearsalRun
  <2> QED
    BY <1>f, <2>3
<1>2. CASE Rehearsal!ListObjects
  <2> DEFINE moved == [rehearsal EXCEPT !.step = "documents"]
             listed == {p \in Rehearsal!Point : objects[p] # None /\ documents[p] # None}
  <2>1. rehearsal' = [moved EXCEPT !.listed = listed]
    BY <1>2 DEF Rehearsal!ListObjects
  <2>2. moved \in RehearsalRun /\ moved.step = "documents"
    BY <1>t DEF RehearsalRun
  <2>3. listed \in SUBSET Rehearsal!Point
    OBVIOUS
  <2> HIDE DEF moved, listed
  <2>4. rehearsal' \in RehearsalRun /\ rehearsal'.step = "documents"
    BY <2>1, <2>2, <2>3 DEF RehearsalRun
  <2> QED
    BY <1>f, <2>4
<1>3. CASE Rehearsal!SelectPoint
  <2>1. CASE rehearsal' = [rehearsal EXCEPT !.step = "failed"]
    BY <1>f, <1>g, <2>1
  <2>2. CASE \E p \in Rehearsal!Uploaded(rehearsal.listed) :
                rehearsal' = [rehearsal EXCEPT !.step = "fetch", !.point = p,
                                               !.document = documents[p]]
    <3>1. PICK p \in Rehearsal!Uploaded(rehearsal.listed) :
             rehearsal' = [rehearsal EXCEPT !.step = "fetch", !.point = p, !.document = documents[p]]
      BY <2>2
    <3>2. p \in Rehearsal!Point /\ documents[p] # None
      BY <1>t DEF Rehearsal!Uploaded, RehearsalRun
    <3>3. documents[p] \in Document /\ Settled(p) /\ documents[p].digest = dumped[p]
      BY <1>t, <3>2 DEF RehearsalInv, DocumentsAreTrue
    <3> DEFINE moved == [rehearsal EXCEPT !.step = "fetch"]
               pointed == [moved EXCEPT !.point = p]
    <3>4. rehearsal' = [pointed EXCEPT !.document = documents[p]]
      BY <3>1
    <3>5. moved \in RehearsalRun /\ moved.step = "fetch"
      BY <1>t DEF RehearsalRun
    <3> HIDE DEF moved
    <3>6. pointed \in RehearsalRun /\ pointed.step = "fetch" /\ pointed.point = p
      BY <3>2, <3>5 DEF RehearsalRun
    <3> HIDE DEF pointed
    <3>7. /\ rehearsal' \in RehearsalRun /\ rehearsal'.step = "fetch" /\ rehearsal'.point = p
          /\ rehearsal'.document = documents[p]
      BY <3>3, <3>4, <3>6 DEF RehearsalRun
    <3>8. Settled(rehearsal.point)'
      BY <1>e, <3>3, <3>7 DEF Settled
    <3>9. RunIsTrue'
      BY <1>e, <3>2, <3>3, <3>7, <3>8 DEF RunIsTrue, Chosen, Verified, Loaded, Ledgered
    <3> QED
      BY <1>q, <3>7, <3>9
  <2> QED
    BY <1>3, <2>1, <2>2 DEF Rehearsal!SelectPoint
<1>4. CASE Rehearsal!Fetch \/ Rehearsal!VerifyDigest
  <2>1. rehearsal.step \in {"fetch", "digest"} /\ rehearsal.step \in Chosen
    BY <1>4 DEF Rehearsal!Fetch, Rehearsal!VerifyDigest, Chosen
  <2>2. CASE rehearsal' = [rehearsal EXCEPT !.step = "failed"]
    BY <1>f, <1>g, <2>2
  <2>3. CASE rehearsal' = [rehearsal EXCEPT !.step = "digest"]
    BY <1>n, <2>1, <2>3 DEF Chosen, Verified, Loaded, Ledgered
  <2>4. CASE /\ rehearsal' = [rehearsal EXCEPT !.step = "restore"]
             /\ file = rehearsal.document.digest /\ UNCHANGED file
    BY <1>n, <2>1, <2>4 DEF Chosen, Verified, Loaded, Ledgered
  <2> QED
    BY <1>4, <2>2, <2>3, <2>4 DEF Rehearsal!Fetch, Rehearsal!VerifyDigest, Rehearsal!Matches
<1>5. CASE Rehearsal!Restore
  <2>1. /\ rehearsal.step = "restore" /\ rehearsal' = [rehearsal EXCEPT !.step = "ledger"]
        /\ target' = file /\ UNCHANGED file
    BY <1>5 DEF Rehearsal!Restore
  <2>2. rehearsal.step \in Chosen /\ file = rehearsal.document.digest
    BY <2>1 DEF RehearsalInv, RunIsTrue, Chosen, Verified
  <2> QED
    BY <1>n, <2>1, <2>2 DEF Chosen, Verified, Loaded, Ledgered
<1>6. CASE Rehearsal!VerifyLedger
  <2>1. rehearsal.step = "ledger" /\ UNCHANGED <<file, target>>
    BY <1>6 DEF Rehearsal!VerifyLedger
  <2>2. rehearsal.step \in Chosen /\ file = rehearsal.document.digest /\ target = file
    BY <2>1 DEF RehearsalInv, RunIsTrue, Chosen, Verified, Loaded
  <2>3. CASE rehearsal' = [rehearsal EXCEPT !.step = "failed"]
    BY <1>f, <1>g, <2>3
  <2>4. CASE /\ rehearsal' = [rehearsal EXCEPT !.step = "rows"]
             /\ target.ledger = rehearsal.document.ledger
    BY <1>n, <2>1, <2>2, <2>4 DEF Chosen, Verified, Loaded, Ledgered
  <2> QED
    BY <1>6, <2>3, <2>4 DEF Rehearsal!VerifyLedger
\* From here on the target and its document agree on the ledger.
<1>l. ASSUME rehearsal.step \in Ledgered, NEW s \in Ledgered,
             rehearsal' = [rehearsal EXCEPT !.step = s], UNCHANGED <<file, target>>,
             s = "migrate" => rehearsal.image \in 1 .. MaxMigration
      PROVE  RehearsalInv'
  <2>1. /\ rehearsal.step \in Chosen /\ file = rehearsal.document.digest /\ target = file
        /\ target.ledger = rehearsal.document.ledger /\ s \in Chosen
    BY <1>l DEF RehearsalInv, RunIsTrue, Chosen, Verified, Loaded
  <2> QED
    BY <1>l, <1>n, <2>1
<1>7. CASE Rehearsal!VerifyRows
  <2>1. /\ rehearsal.step = "rows" /\ UNCHANGED <<file, target>>
        /\ rehearsal' = [rehearsal EXCEPT !.step = IF rehearsal.image = None THEN "passed" ELSE "migrate"]
    BY <1>7 DEF Rehearsal!VerifyRows
  <2>2. rehearsal.image = None \/ rehearsal.image \in 1 .. MaxMigration
    BY <1>t DEF RehearsalRun
  <2>3. rehearsal.step \in Ledgered /\ {"passed", "migrate"} \subseteq Ledgered
    BY <2>1 DEF Ledgered
  <2> QED
    BY <1>l, <2>1, <2>2, <2>3
\* A target whose ledger is the document's has nothing to migrate if the image has not.
<1>8. CASE Rehearsal!Remigrate
  <2>1. /\ rehearsal.step = "migrate" /\ UNCHANGED file
        /\ rehearsal' = [rehearsal EXCEPT !.step =
                            IF rehearsal.image <= rehearsal.document.ledger THEN "api" ELSE "failed"]
        /\ target' = IF rehearsal.image > target.ledger
                     THEN [target EXCEPT !.ledger = rehearsal.image] ELSE target
    BY <1>8 DEF Rehearsal!Remigrate
  <2>2. /\ rehearsal.step \in Ledgered /\ "api" \in Ledgered /\ rehearsal.step \in Chosen
        /\ target.ledger = rehearsal.document.ledger /\ rehearsal.document \in Document
    BY <2>1 DEF RehearsalInv, RunIsTrue, Ledgered, Loaded, Verified, Chosen
  <2>3. rehearsal.document.ledger \in Nat /\ rehearsal.image \in 1 .. MaxMigration
    BY <1>t, <2>1, <2>2 DEF Document
  <2>4. CASE rehearsal.image <= rehearsal.document.ledger
    <3>1. ~(rehearsal.image > target.ledger)
      BY <2>2, <2>3, <2>4
    <3> QED
      BY <1>l, <2>1, <2>2, <2>4, <3>1
  <2>5. CASE ~(rehearsal.image <= rehearsal.document.ledger)
    BY <1>f, <1>g, <2>1, <2>5
  <2> QED
    BY <2>4, <2>5
<1>9. CASE Rehearsal!StartApi
  <2>1. /\ rehearsal.step = "api" /\ UNCHANGED <<file, target>>
        /\ rehearsal' = [rehearsal EXCEPT !.step = "passed"]
    BY <1>9 DEF Rehearsal!StartApi
  <2>2. rehearsal.step \in Ledgered /\ "passed" \in Ledgered
    BY <2>1 DEF Ledgered
  <2> QED
    BY <1>l, <2>1, <2>2
<1>10. CASE Rehearsal!Fail
  BY <1>f, <1>g, <1>10 DEF Rehearsal!Fail
<1>11. CASE Rehearsal!Cleanup
  <2>1. rehearsal' \in RehearsalRun /\ rehearsal'.step = "idle"
    BY <1>11 DEF Rehearsal!Cleanup, Rehearsal!NoRehearsal, RehearsalRun
  <2> QED
    BY <1>f, <2>1
<1> QED
  BY <1>1, <1>2, <1>3, <1>4, <1>5, <1>6, <1>7, <1>8, <1>9, <1>10, <1>11

\* Every step of backup, rehearsal and store preserves the invariant.
LEMMA RehearsalStep == ASSUME RehearsalInv, Rehearsal!Next PROVE RehearsalInv'
<1>1. CASE \/ Rehearsal!StartBackup \/ Rehearsal!CountMigrations \/ Rehearsal!TakeDump
           \/ Rehearsal!StoreArtifact \/ Rehearsal!StoreDocument \/ Rehearsal!BackupFails
  BY <1>1, DumpStep
<1>2. CASE \/ Rehearsal!Write \/ Rehearsal!Migrate \/ Rehearsal!ReplaceKey
           \/ \E p \in Rehearsal!Point : \/ Rehearsal!Prune(p) \/ Rehearsal!Damage(p)
                                         \/ \E q \in Rehearsal!Point : Rehearsal!Misplace(p, q)
  BY <1>2, StoreStep
<1>3. CASE \/ Rehearsal!Begin \/ Rehearsal!ListObjects \/ Rehearsal!SelectPoint \/ Rehearsal!Fetch
           \/ Rehearsal!VerifyDigest \/ Rehearsal!Restore \/ Rehearsal!VerifyLedger
           \/ Rehearsal!VerifyRows \/ Rehearsal!Remigrate \/ Rehearsal!StartApi \/ Rehearsal!Fail
           \/ Rehearsal!Cleanup
  BY <1>3, RunStep
<1> QED
  BY <1>1, <1>2, <1>3 DEF Rehearsal!Next

-----------------------------------------------------------------------------
(* Point-in-time recovery *)

Committed(x) == [marker : ReplayOf[x].operators \cup {None}, post : BOOLEAN, row : BOOLEAN,
                 others : Nat]
LogEntry(x)  == [db : Committed(x), segment : Nat]
ReplayRun    ==
    [step : {"new", "base", "select", "marker", "count", "switch", "target", "post", "delete",
             "recount", "fetch", "recover", "verify", "passed", "failed", "undone", "over"},
     base : Nat, projects : Nat, target : Nat, deleted : BOOLEAN, fetched : Nat]

\* Before its marker is written; once its base backup is chosen; once its target is.
Unmarked  == {"new", "base", "select", "marker"}
Targeted  == {"post", "delete", "recount", "fetch", "recover", "verify", "passed"}
BaseTaken == {"marker", "count", "switch", "target"} \cup Targeted

ReplayTypes(x) ==
    /\ log \in Seq(LogEntry(x)) /\ Len(log) \in Nat \ {0} /\ segment \in Nat
    /\ base \in 0 .. Len(log)
    /\ run \in [ReplayOf[x].operators -> ReplayRun]
    /\ recovered \in [ReplayOf[x].operators -> Committed(x) \cup {None}]
    /\ disturbed \in BOOLEAN

\* What a run knows of the log; its marker is written once, after its base backup.
OperatorInv(o) ==
    /\ run[o].step \in Unmarked => \A i \in 1 .. Len(log) : log[i].db.marker # o
    /\ run[o].step \in BaseTaken =>
          run[o].base \in 1 .. Len(log) /\ log[run[o].base].db.marker # o
    /\ run[o].step \in Targeted => run[o].target \in 1 .. Len(log)
    /\ run[o].step \in {"verify", "passed"} => recovered[o] = log[run[o].target].db
    /\ run[o].step = "passed" => recovered[o].marker = o
    /\ run[o].step \in {"new", "undone", "over"} => run[o].deleted = FALSE

\* While nothing went wrong on the live database, somebody is left to undo what is not
\* as it was found.
LiveInv(x) ==
    ReplayOf[x].offHost /\ disturbed = FALSE =>
        /\ log[1].db.row = TRUE
        /\ Replay(x)!Live.marker # None \/ Replay(x)!Live.post = TRUE =>
              \E o \in ReplayOf[x].operators : run[o].step \notin {"new", "over"}
        /\ Replay(x)!Live.row = FALSE => \E o \in ReplayOf[x].operators : run[o].deleted = TRUE

ReplayInv(x) ==
    ReplayTypes(x) /\ LiveInv(x) /\ \A o \in ReplayOf[x].operators : OperatorInv(o)

\* A database before its first rehearsal satisfies the invariant.
LEMMA ReplayInit == ASSUME NEW x \in Replayed, Replay(x)!Init PROVE ReplayInv(x)
<1>1. PICK row \in ReplayOf[x].rows :
         log = <<[db |-> [marker |-> None, post |-> FALSE, row |-> row, others |-> 0], segment |-> 1]>>
  BY DEF Replay!Init
<1>2. row \in BOOLEAN /\ (ReplayOf[x].offHost => row = TRUE)
  BY ReplayAssumption
<1> DEFINE db == [marker |-> None, post |-> FALSE, row |-> row, others |-> 0]
           entry == [db |-> db, segment |-> 1]
<1>3. /\ db \in Committed(x) /\ db.marker = None /\ db.post = FALSE
  BY <1>2 DEF Committed
<1>0. ReplayOf[x].offHost => db.row = TRUE
  BY <1>2
<1> HIDE DEF db
<1>4. entry \in LogEntry(x) /\ entry.db = db
  BY <1>3 DEF LogEntry
<1>5. log = <<entry>>
  BY <1>1 DEF db
<1> HIDE DEF entry
<1>6. log \in Seq(LogEntry(x)) /\ Len(log) = 1 /\ log[1] = entry
  BY <1>4, <1>5
<1>7. /\ segment = 1 /\ base = 0 /\ disturbed = FALSE
      /\ run = [o \in ReplayOf[x].operators |-> Replay(x)!RunAt("new")]
      /\ recovered = [o \in ReplayOf[x].operators |-> None]
  BY DEF Replay!Init
<1>8. Replay(x)!RunAt("new") \in ReplayRun /\ Replay(x)!RunAt("new").step = "new"
      /\ Replay(x)!RunAt("new").deleted = FALSE
  BY DEF Replay!RunAt, ReplayRun
<1>9. ReplayTypes(x)
  <2> DEFINE fresh == Replay(x)!RunAt("new")
  <2> HIDE DEF fresh
  <2>1. fresh \in ReplayRun /\ run = [o \in ReplayOf[x].operators |-> fresh]
    BY <1>7, <1>8 DEF fresh
  <2>2. /\ run \in [ReplayOf[x].operators -> ReplayRun]
        /\ recovered \in [ReplayOf[x].operators -> Committed(x) \cup {None}]
    BY <1>7, <2>1
  <2>3. /\ Len(log) \in Nat \ {0} /\ segment \in Nat /\ base \in 0 .. Len(log)
    BY <1>6, <1>7
  <2> QED
    BY <1>6, <1>7, <2>2, <2>3 DEF ReplayTypes
<1>10. LiveInv(x)
  BY <1>0, <1>3, <1>4, <1>6 DEF LiveInv, Replay!Live
<1>11. ASSUME NEW o \in ReplayOf[x].operators PROVE OperatorInv(o)
  <2>1. run[o].step = "new" /\ run[o].deleted = FALSE
    BY <1>7, <1>8
  <2>2. \A i \in 1 .. Len(log) : log[i].db.marker # o
    <3>1. \A i \in 1 .. Len(log) : log[i].db.marker = None
      BY <1>3, <1>4, <1>6
    <3>2. o # None
      BY ReplayAssumption
    <3> QED
      BY <3>1, <3>2
  <2> QED
    BY <2>1, <2>2 DEF OperatorInv, Unmarked, BaseTaken, Targeted
<1> QED
  BY <1>9, <1>10, <1>11 DEF ReplayInv

\* A run that passes has recovered the state at its target.
LEMMA ReplayProves == ASSUME NEW x, ReplayInv(x) PROVE Replay(x)!PassProvesReplay
<1> SUFFICES ASSUME NEW o \in ReplayOf[x].operators, run[o].step = "passed"
             PROVE  /\ recovered[o] = log[run[o].target].db /\ recovered[o].marker = o
                    /\ log[run[o].base].db.marker # o
  BY DEF Replay!PassProvesReplay, Replay!At
<1> QED
  BY DEF ReplayInv, OperatorInv, BaseTaken, Targeted

\* When nobody is left to undo anything, nothing is left to be undone.
LEMMA ReplayUndoes ==
  ASSUME NEW x, ReplayInv(x), ReplayOf[x].offHost PROVE Replay(x)!LiveComesBack
<1> SUFFICES ASSUME \A o \in ReplayOf[x].operators : run[o].step \in {"new", "over"},
                    ~disturbed
             PROVE  Replay(x)!AsFound
  BY DEF Replay!LiveComesBack, Replay!NobodyRuns
<1>1. disturbed = FALSE /\ log \in Seq(LogEntry(x)) /\ Len(log) \in 1 .. Len(log)
  BY DEF ReplayInv, ReplayTypes
<1>2. \A o \in ReplayOf[x].operators : run[o].deleted = FALSE
  BY DEF ReplayInv, OperatorInv
<1>3. /\ log[1].db.row = TRUE /\ Replay(x)!Live.marker = None /\ Replay(x)!Live.post # TRUE
      /\ Replay(x)!Live.row # FALSE
  BY <1>1, <1>2 DEF ReplayInv, LiveInv
<1>4. Replay(x)!Live \in Committed(x)
  <2>1. log[Len(log)] \in LogEntry(x)
    BY <1>1
  <2> QED
    BY <2>1 DEF LogEntry, Replay!Live
<1>5. Replay(x)!Live.row = TRUE /\ Replay(x)!Live.post = FALSE
  BY <1>3, <1>4 DEF Committed
<1> QED
  BY <1>3, <1>5 DEF Replay!AsFound
\* The log grows by at most one state, with no marker but one it had, none or that of who.
LogKept(x, who) ==
    \/ log' = log
    \/ \E d \in Committed(x) : /\ d.marker \in {None, Replay(x)!Live.marker, who}
                              /\ log' = Append(log, [db |-> d, segment |-> segment])

\* A log that is kept or appended to keeps its entries, and a new marker is of whoever wrote.
LEMMA LogGrows ==
  ASSUME NEW x, ReplayTypes(x), NEW who, LogKept(x, who)
  PROVE  /\ log' \in Seq(LogEntry(x)) /\ Len(log') \in Nat \ {0} /\ Len(log) <= Len(log')
         /\ \A i \in 1 .. Len(log) : i \in 1 .. Len(log') /\ log'[i] = log[i]
         /\ \A i \in 1 .. Len(log') : i \in 1 .. Len(log)
               \/ log'[i].db.marker \in {None, Replay(x)!Live.marker, who}
<1>t. log \in Seq(LogEntry(x)) /\ Len(log) \in Nat \ {0} /\ segment \in Nat
  BY DEF ReplayTypes
<1>1. CASE log' = log
  BY <1>t, <1>1
<1>2. CASE log' # log
  <2>1. PICK d \in Committed(x) : /\ d.marker \in {None, Replay(x)!Live.marker, who}
                                 /\ log' = Append(log, [db |-> d, segment |-> segment])
    BY <1>2 DEF LogKept
  <2> DEFINE e == [db |-> d, segment |-> segment]
  <2>2. e \in LogEntry(x) /\ e.db = d /\ log' = Append(log, e)
    BY <1>t, <2>1 DEF LogEntry
  <2> HIDE DEF e
  <2>3. /\ log' \in Seq(LogEntry(x)) /\ Len(log') = Len(log) + 1
        /\ \A i \in 1 .. Len(log) : log'[i] = log[i]
        /\ log'[Len(log) + 1] = e
    BY <1>t, <2>2
  <2>4. \A i \in 1 .. Len(log') : i \in 1 .. Len(log) \/ i = Len(log) + 1
    BY <1>t, <2>3
  <2>5. log'[Len(log) + 1].db.marker \in {None, Replay(x)!Live.marker, who}
    BY <2>1, <2>2, <2>3
  <2>6. \A i \in 1 .. Len(log') : i \in 1 .. Len(log)
               \/ log'[i].db.marker \in {None, Replay(x)!Live.marker, who}
    BY <2>4, <2>5
  <2> QED
    BY <1>t, <2>3, <2>6
<1> QED
  BY <1>1, <1>2

\* What is committed is what the live database is then.
LEMMA CommitShows ==
  ASSUME NEW x, ReplayTypes(x), NEW d \in Committed(x), Replay(x)!Commit(d)
  PROVE  Replay(x)!Live' = d /\ log'[1] = log[1]
<1> DEFINE e == [db |-> d, segment |-> segment]
<1>1. log \in Seq(LogEntry(x)) /\ Len(log) \in Nat \ {0} /\ segment \in Nat
  BY DEF ReplayTypes
<1>2. e \in LogEntry(x) /\ e.db = d /\ log' = Append(log, e)
  BY <1>1 DEF LogEntry, Replay!Commit
<1> HIDE DEF e
<1>3. Len(log') = Len(log) + 1 /\ log'[Len(log')] = e /\ log'[1] = log[1]
  BY <1>1, <1>2
<1> QED
  BY <1>2, <1>3 DEF Replay!Live

\* The live database is a state that was committed.
LEMMA LiveTyped == ASSUME NEW x, ReplayTypes(x) PROVE Replay(x)!Live \in Committed(x)
<1>1. log \in Seq(LogEntry(x)) /\ Len(log) \in 1 .. Len(log)
  BY DEF ReplayTypes
<1>2. log[Len(log)] \in LogEntry(x)
  BY <1>1
<1> QED
  BY <1>2 DEF LogEntry, Replay!Live

\* A step leaves what the other runs know.
LEMMA OthersKeep ==
  ASSUME NEW x \in Replayed, ReplayInv(x), NEW who, LogKept(x, who),
         NEW p \in ReplayOf[x].operators \ {who},
         run'[p] = run[p], recovered'[p] = recovered[p]
  PROVE  OperatorInv(p)'
<1>t. ReplayTypes(x) /\ OperatorInv(p) /\ p # None
  BY ReplayAssumption DEF ReplayInv
<1>1. /\ Len(log') \in Nat \ {0} /\ Len(log) <= Len(log')
      /\ \A i \in 1 .. Len(log) : i \in 1 .. Len(log') /\ log'[i] = log[i]
      /\ \A i \in 1 .. Len(log') : i \in 1 .. Len(log)
            \/ log'[i].db.marker \in {None, Replay(x)!Live.marker, who}
  BY <1>t, LogGrows
<1>2. run[p].step \in Unmarked => \A i \in 1 .. Len(log') : log'[i].db.marker # p
  <2> SUFFICES ASSUME run[p].step \in Unmarked, NEW i \in 1 .. Len(log')
               PROVE  log'[i].db.marker # p
    OBVIOUS
  <2>1. \A j \in 1 .. Len(log) : log[j].db.marker # p
    BY <1>t DEF OperatorInv
  <2>2. Replay(x)!Live.marker # p
    <3>1. Len(log) \in 1 .. Len(log)
      BY <1>t DEF ReplayTypes
    <3> QED
      BY <2>1, <3>1 DEF Replay!Live
  <2> QED
    BY <1>t, <1>1, <2>1, <2>2
<1>3. /\ run[p].step \in BaseTaken =>
            run[p].base \in 1 .. Len(log') /\ log'[run[p].base].db.marker # p
      /\ run[p].step \in Targeted => run[p].target \in 1 .. Len(log')
      /\ run[p].step \in {"verify", "passed"} => recovered[p] = log'[run[p].target].db
  BY <1>t, <1>1 DEF OperatorInv, Targeted
<1> QED
  BY <1>t, <1>2, <1>3 DEF OperatorInv

\* A step of one run.
LEMMA ReplayMove ==
  ASSUME NEW x \in Replayed, ReplayInv(x), NEW o \in ReplayOf[x].operators,
         NEW new \in ReplayRun, run' = [run EXCEPT ![o] = new],
         NEW r \in Committed(x) \cup {None},
         recovered' = [recovered EXCEPT ![o] = r] \/ UNCHANGED recovered,
         LogKept(x, o), segment' \in Nat, base' \in 0 .. Len(log'), disturbed' \in BOOLEAN,
         OperatorInv(o)', LiveInv(x)'
  PROVE  ReplayInv(x)'
<1>t. /\ ReplayTypes(x) /\ run \in [ReplayOf[x].operators -> ReplayRun]
      /\ recovered \in [ReplayOf[x].operators -> Committed(x) \cup {None}]
  BY DEF ReplayInv, ReplayTypes
<1>1. log' \in Seq(LogEntry(x)) /\ Len(log') \in Nat \ {0}
  BY <1>t, LogGrows
<1>2. /\ run' \in [ReplayOf[x].operators -> ReplayRun]
      /\ recovered' \in [ReplayOf[x].operators -> Committed(x) \cup {None}]
  BY <1>t
<1>3. ReplayTypes(x)'
  BY <1>1, <1>2 DEF ReplayTypes
<1>4. ASSUME NEW p \in ReplayOf[x].operators \ {o} PROVE OperatorInv(p)'
  <2>1. run'[p] = run[p] /\ recovered'[p] = recovered[p]
    BY <1>t, <1>4
  <2> QED
    BY <1>4, <2>1, OthersKeep
<1> QED
  BY <1>3, <1>4 DEF ReplayInv

\* A step that leaves the live database is not the one to leave it to nobody.
LEMMA LiveStays ==
  ASSUME NEW x, ReplayInv(x), UNCHANGED <<log, disturbed>>, NEW o \in ReplayOf[x].operators,
         NEW new \in ReplayRun, run' = [run EXCEPT ![o] = new],
         new.step \notin {"new", "over"}, run[o].deleted = TRUE => new.deleted = TRUE
  PROVE  LiveInv(x)'
<1>1. run \in [ReplayOf[x].operators -> ReplayRun]
  BY DEF ReplayInv, ReplayTypes
<1>2. Replay(x)!Live' = Replay(x)!Live
  BY DEF Replay!Live
<1>3. /\ run'[o] = new /\ \A p \in ReplayOf[x].operators \ {o} : run'[p] = run[p]
  BY <1>1
<1>4. SUFFICES ASSUME ReplayOf[x].offHost, disturbed = FALSE
      PROVE  /\ log[1].db.row = TRUE
             /\ Replay(x)!Live.marker # None \/ Replay(x)!Live.post = TRUE =>
                   \E p \in ReplayOf[x].operators : run'[p].step \notin {"new", "over"}
             /\ Replay(x)!Live.row = FALSE =>
                   \E p \in ReplayOf[x].operators : run'[p].deleted = TRUE
  BY <1>2 DEF LiveInv
<1>5. /\ log[1].db.row = TRUE
      /\ Replay(x)!Live.marker # None \/ Replay(x)!Live.post = TRUE =>
            \E p \in ReplayOf[x].operators : run[p].step \notin {"new", "over"}
      /\ Replay(x)!Live.row = FALSE => \E p \in ReplayOf[x].operators : run[p].deleted = TRUE
  BY <1>4 DEF ReplayInv, LiveInv
<1>6. \E p \in ReplayOf[x].operators : run'[p].step \notin {"new", "over"}
  BY <1>3
<1>7. (\E p \in ReplayOf[x].operators : run[p].deleted = TRUE) =>
         \E p \in ReplayOf[x].operators : run'[p].deleted = TRUE
  <2> SUFFICES ASSUME NEW p \in ReplayOf[x].operators, run[p].deleted = TRUE
               PROVE  \E q \in ReplayOf[x].operators : run'[q].deleted = TRUE
    OBVIOUS
  <2> QED
    BY <1>3
<1> QED
  BY <1>5, <1>6, <1>7

\* A step of a run that commits nothing and keeps its base backup and its target.
LEMMA QuietStep ==
  ASSUME NEW x \in Replayed, ReplayInv(x), NEW o \in ReplayOf[x].operators,
         NEW new \in ReplayRun, run' = [run EXCEPT ![o] = new],
         new.base = run[o].base, new.target = run[o].target, new.deleted = run[o].deleted,
         UNCHANGED <<log, recovered, disturbed>>, segment' \in Nat, base' \in 0 .. Len(log),
         new.step \notin {"new", "undone", "over"},
         new.step \in Unmarked => run[o].step \in Unmarked,
         new.step \in BaseTaken => run[o].step \in BaseTaken,
         new.step \in Targeted => run[o].step \in Targeted,
         new.step \in {"verify", "passed"} => run[o].step \in {"verify", "passed"},
         new.step = "passed" => recovered[o].marker = o
  PROVE  ReplayInv(x)'
<1>1. run \in [ReplayOf[x].operators -> ReplayRun] /\ OperatorInv(o) /\ disturbed \in BOOLEAN
      /\ recovered[o] \in Committed(x) \cup {None}
  BY DEF ReplayInv, ReplayTypes
<1>2. run'[o] = new
  BY <1>1
<1>3. OperatorInv(o)'
  BY <1>1, <1>2 DEF OperatorInv
<1>4. LiveInv(x)'
  BY LiveStays
<1> QED
  BY <1>1, <1>3, <1>4, ReplayMove DEF LogKept
\* The steps of a run that neither write to the live database nor choose anything.
LEMMA RehearsalQuiet ==
  ASSUME NEW x \in Replayed, ReplayInv(x), NEW o \in ReplayOf[x].operators,
         \/ Replay(x)!CheckArchiving(o) \/ Replay(x)!TakeBase(o) \/ Replay(x)!CountProjects(o)
         \/ Replay(x)!SwitchWal(o) \/ Replay(x)!Recount(o) \/ Replay(x)!FetchWal(o)
         \/ Replay(x)!Verify(o) \/ Replay(x)!Fail(o)
  PROVE  ReplayInv(x)'
<1> USE DEF Replay!At, Replay!Goto, Replay!Check, Replay!wal
<1>t. /\ ReplayTypes(x) /\ run[o] \in ReplayRun /\ segment \in Nat /\ base \in 0 .. Len(log)
      /\ Len(log) \in Nat \ {0} /\ segment + 1 \in Nat
  BY DEF ReplayInv, ReplayTypes
<1>g. ASSUME NEW s \in {"base", "select", "target", "fetch", "passed", "failed"},
             run' = [run EXCEPT ![o].step = s], UNCHANGED <<log, recovered, disturbed>>,
             segment' \in Nat, base' \in 0 .. Len(log),
             s \in Unmarked => run[o].step \in Unmarked,
             s \in BaseTaken => run[o].step \in BaseTaken,
             s \in Targeted => run[o].step \in Targeted,
             s = "passed" => run[o].step = "verify" /\ recovered[o].marker = o
      PROVE  ReplayInv(x)'
  <2> DEFINE new == [run[o] EXCEPT !.step = s]
  <2>1. /\ new \in ReplayRun /\ new.step = s /\ new.base = run[o].base
        /\ new.target = run[o].target /\ new.deleted = run[o].deleted
    BY <1>t DEF ReplayRun
  <2>2. run' = [run EXCEPT ![o] = new]
    BY <1>g
  <2> HIDE DEF new
  <2>3. /\ new.step \notin {"new", "undone", "over"}
        /\ new.step \in {"verify", "passed"} => run[o].step \in {"verify", "passed"}
        /\ new.step = "passed" => recovered[o].marker = o
        /\ new.step \in Unmarked => run[o].step \in Unmarked
        /\ new.step \in BaseTaken => run[o].step \in BaseTaken
        /\ new.step \in Targeted => run[o].step \in Targeted
    BY <1>g, <2>1
  <2> QED
    BY <1>g, <2>1, <2>2, <2>3, QuietStep
<1>1. CASE Replay(x)!CheckArchiving(o)
  BY <1>t, <1>g, <1>1 DEF Replay!CheckArchiving, Unmarked, BaseTaken, Targeted
<1>2. CASE Replay(x)!TakeBase(o)
  <2>1. base' \in 0 .. Len(log) /\ segment' \in Nat
    BY <1>t, <1>2 DEF Replay!TakeBase, Replay!BaseBackup
  <2> QED
    BY <1>g, <1>2, <2>1 DEF Replay!TakeBase, Unmarked, BaseTaken, Targeted
<1>3. CASE Replay(x)!CountProjects(o)
  <2> DEFINE n == Replay(x)!Projects(Replay(x)!Live)
             counted == [run[o] EXCEPT !.projects = n]
             new == [counted EXCEPT !.step = "switch"]
  <2>1. n \in Nat
    <3>1. Replay(x)!Live.others \in Nat
      BY <1>t, LiveTyped DEF Committed
    <3> QED
      BY <3>1 DEF Replay!Projects
  <2>2. run' = [run EXCEPT ![o] = new] /\ run[o].step = "count"
    BY <1>3 DEF Replay!CountProjects
  <2>3. UNCHANGED <<log, recovered, disturbed, segment, base>>
    BY <1>3 DEF Replay!CountProjects
  <2> HIDE DEF n
  <2>4. /\ counted \in ReplayRun /\ counted.base = run[o].base
        /\ counted.target = run[o].target /\ counted.deleted = run[o].deleted
    BY <1>t, <2>1 DEF ReplayRun
  <2> HIDE DEF counted
  <2>5. /\ new \in ReplayRun /\ new.step = "switch" /\ new.base = run[o].base
        /\ new.target = run[o].target /\ new.deleted = run[o].deleted
    BY <2>4 DEF ReplayRun
  <2> HIDE DEF new
  <2> QED
    BY <1>t, <2>2, <2>3, <2>5, QuietStep DEF Unmarked, BaseTaken, Targeted
<1>4. CASE Replay(x)!SwitchWal(o)
  BY <1>t, <1>g, <1>4 DEF Replay!SwitchWal, Unmarked, BaseTaken, Targeted
<1>5. CASE Replay(x)!Recount(o)
  <2>1. /\ run[o].step = "recount" /\ UNCHANGED <<log, base, recovered, disturbed>>
        /\ segment' = segment + 1
        /\ \/ run' = [run EXCEPT ![o].step = "fetch"] \/ run' = [run EXCEPT ![o].step = "failed"]
    BY <1>5 DEF Replay!Recount
  <2>2. run[o].step \in Targeted /\ run[o].step \in BaseTaken
    BY <2>1 DEF Targeted, BaseTaken
  <2> QED
    BY <1>t, <1>g, <2>1, <2>2 DEF Unmarked
<1>6. CASE Replay(x)!FetchWal(o)
  <2>1. PICK n \in Replay(x)!Stored :
           run' = [run EXCEPT ![o].fetched = n, ![o].step = "recover"]
    BY <1>6 DEF Replay!FetchWal
  <2> DEFINE fetched == [run[o] EXCEPT !.fetched = n]
             new == [fetched EXCEPT !.step = "recover"]
  <2>2. n \in Nat
    BY <1>t DEF Replay!Stored
  <2>3. run' = [run EXCEPT ![o] = new] /\ run[o].step = "fetch"
    BY <1>6, <2>1 DEF Replay!FetchWal
  <2>4. UNCHANGED <<log, recovered, disturbed, segment, base>>
    BY <1>6 DEF Replay!FetchWal
  <2>5. /\ fetched \in ReplayRun /\ fetched.base = run[o].base
        /\ fetched.target = run[o].target /\ fetched.deleted = run[o].deleted
    BY <1>t, <2>2 DEF ReplayRun
  <2> HIDE DEF fetched
  <2>6. /\ new \in ReplayRun /\ new.step = "recover" /\ new.base = run[o].base
        /\ new.target = run[o].target /\ new.deleted = run[o].deleted
    BY <2>5 DEF ReplayRun
  <2> HIDE DEF new
  <2> QED
    BY <1>t, <2>3, <2>4, <2>6, QuietStep DEF Unmarked, BaseTaken, Targeted
<1>7. CASE Replay(x)!Verify(o)
  <2>1. /\ run[o].step = "verify" /\ UNCHANGED <<log, segment, base, recovered, disturbed>>
        /\ \/ run' = [run EXCEPT ![o].step = "passed"] /\ recovered[o].marker = o
           \/ run' = [run EXCEPT ![o].step = "failed"]
    BY <1>7 DEF Replay!Verify, Replay!AtTarget
  <2>2. run[o].step \in Targeted /\ run[o].step \in BaseTaken
    BY <2>1 DEF Targeted, BaseTaken
  <2> QED
    BY <1>t, <1>g, <2>1, <2>2 DEF Unmarked, BaseTaken, Targeted
<1>8. CASE Replay(x)!Fail(o)
  BY <1>t, <1>g, <1>8 DEF Replay!Fail, Unmarked, BaseTaken, Targeted
<1> QED
  BY <1>1, <1>2, <1>3, <1>4, <1>5, <1>6, <1>7, <1>8

\* The steps that choose the base backup and the target, and the recovery.
LEMMA RehearsalChoice ==
  ASSUME NEW x \in Replayed, ReplayInv(x), NEW o \in ReplayOf[x].operators,
         Replay(x)!SelectBase(o) \/ Replay(x)!RecordTarget(o) \/ Replay(x)!Recover(o)
  PROVE  ReplayInv(x)'
<1> USE DEF Replay!At, Replay!Goto, Replay!Check, Replay!wal
<1>t. /\ ReplayTypes(x) /\ run[o] \in ReplayRun /\ segment \in Nat /\ base \in 0 .. Len(log)
      /\ Len(log) \in 1 .. Len(log) /\ OperatorInv(o) /\ disturbed \in BOOLEAN
      /\ run \in [ReplayOf[x].operators -> ReplayRun]
      /\ recovered \in [ReplayOf[x].operators -> Committed(x) \cup {None}]
  BY DEF ReplayInv, ReplayTypes
<1>l. LogKept(x, o) /\ UNCHANGED <<log, segment, base, disturbed>>
  BY DEF Replay!SelectBase, Replay!RecordTarget, Replay!Recover, LogKept
<1>1. CASE Replay(x)!SelectBase(o)
  <2> DEFINE s == IF base > 0 THEN "marker" ELSE "failed"
             based == [run[o] EXCEPT !.base = base]
             new == [based EXCEPT !.step = s]
  <2>1. run' = [run EXCEPT ![o] = new] /\ run[o].step = "select" /\ UNCHANGED recovered
    BY <1>1 DEF Replay!SelectBase
  <2>2. s \in {"marker", "failed"} /\ (s = "marker" => base \in 1 .. Len(log))
    BY <1>t
  <2>3. base \in Nat
    BY <1>t
  <2> HIDE DEF s
  <2>4. based \in ReplayRun /\ based.base = base /\ based.deleted = run[o].deleted
    BY <1>t, <2>3 DEF ReplayRun
  <2> HIDE DEF based
  <2>5. new \in ReplayRun /\ new.step = s /\ new.base = base /\ new.deleted = run[o].deleted
    BY <2>2, <2>4 DEF ReplayRun
  <2> HIDE DEF new
  <2>6. run'[o] = new
    BY <1>t, <2>1
  <2>7. \A i \in 1 .. Len(log) : log[i].db.marker # o
    BY <1>t, <2>1 DEF OperatorInv, Unmarked
  <2>8. OperatorInv(o)'
    BY <1>l, <2>2, <2>5, <2>6, <2>7 DEF OperatorInv, Unmarked, BaseTaken, Targeted
  <2>9. LiveInv(x)'
    BY <1>l, <2>1, <2>2, <2>5, LiveStays
  <2> QED
    BY <1>t, <1>l, <2>1, <2>5, <2>8, <2>9, ReplayMove
<1>2. CASE Replay(x)!RecordTarget(o)
  <2> DEFINE aimed == [run[o] EXCEPT !.target = Len(log)]
             new == [aimed EXCEPT !.step = "post"]
  <2>1. run' = [run EXCEPT ![o] = new] /\ run[o].step = "target" /\ UNCHANGED recovered
    BY <1>2 DEF Replay!RecordTarget
  <2>2. Len(log) \in Nat
    BY <1>t
  <2>3. /\ aimed \in ReplayRun /\ aimed.base = run[o].base /\ aimed.deleted = run[o].deleted
        /\ aimed.target = Len(log)
    BY <1>t, <2>2 DEF ReplayRun
  <2> HIDE DEF aimed
  <2>4. /\ new \in ReplayRun /\ new.step = "post" /\ new.base = run[o].base
        /\ new.deleted = run[o].deleted /\ new.target = Len(log)
    BY <2>3 DEF ReplayRun
  <2> HIDE DEF new
  <2>5. run'[o] = new
    BY <1>t, <2>1
  <2>6. OperatorInv(o)'
    BY <1>t, <1>l, <2>1, <2>4, <2>5 DEF OperatorInv, Unmarked, BaseTaken
  <2>7. LiveInv(x)'
    BY <1>l, <2>1, <2>4, LiveStays
  <2> QED
    BY <1>t, <1>l, <2>1, <2>4, <2>6, <2>7, ReplayMove
<1>3. CASE Replay(x)!Recover(o)
  <2> DEFINE s == IF Replay(x)!Reaches(o) THEN "verify" ELSE "failed"
             r == IF Replay(x)!Reaches(o) THEN log[run[o].target].db ELSE None
             based == [run[o] EXCEPT !.base = run[o].base]
             new == [based EXCEPT !.step = s]
  <2>1. /\ run' = [run EXCEPT ![o] = new] /\ run[o].step = "recover"
        /\ recovered' = [recovered EXCEPT ![o] = r]
    BY <1>3 DEF Replay!Recover, Replay!From
  <2>2. s \in {"verify", "failed"} /\ (s = "verify" => r = log[run[o].target].db)
    OBVIOUS
  <2>3. r \in Committed(x) \cup {None}
    <3>1. run[o].target \in 1 .. Len(log) /\ log \in Seq(LogEntry(x))
      BY <1>t, <2>1 DEF OperatorInv, ReplayTypes, Targeted
    <3>2. log[run[o].target] \in LogEntry(x)
      BY <3>1
    <3> QED
      BY <3>2 DEF LogEntry
  <2> HIDE DEF s, r
  <2>4. /\ based \in ReplayRun /\ based.base = run[o].base /\ based.deleted = run[o].deleted
        /\ based.target = run[o].target
    BY <1>t DEF ReplayRun
  <2> HIDE DEF based
  <2>5. /\ new \in ReplayRun /\ new.step = s /\ new.base = run[o].base
        /\ new.deleted = run[o].deleted /\ new.target = run[o].target
    BY <2>2, <2>4 DEF ReplayRun
  <2> HIDE DEF new
  <2>6. run'[o] = new /\ recovered'[o] = r
    BY <1>t, <2>1
  <2>7. /\ run[o].base \in 1 .. Len(log) /\ log[run[o].base].db.marker # o
        /\ run[o].target \in 1 .. Len(log)
    BY <1>t, <2>1 DEF OperatorInv, BaseTaken, Targeted
  <2>8. OperatorInv(o)'
    BY <1>l, <2>2, <2>5, <2>6, <2>7 DEF OperatorInv, Unmarked, BaseTaken, Targeted
  <2>9. LiveInv(x)'
    BY <1>l, <2>1, <2>2, <2>5, LiveStays
  <2> QED
    BY <1>t, <1>l, <2>1, <2>3, <2>5, <2>8, <2>9, ReplayMove
<1> QED
  BY <1>1, <1>2, <1>3
\* What is committed shows in the live database, and the log is kept.
LEMMA CommitKeeps ==
  ASSUME NEW x, ReplayTypes(x), NEW who, NEW d \in Committed(x),
         d.marker \in {None, Replay(x)!Live.marker, who}, Replay(x)!Commit(d)
  PROVE  /\ LogKept(x, who) /\ Replay(x)!Live' = d /\ log'[1] = log[1]
         /\ Len(log') = Len(log) + 1 /\ Len(log) \in 1 .. Len(log')
         /\ \A i \in 1 .. Len(log) : i \in 1 .. Len(log') /\ log'[i] = log[i]
<1>1. Replay(x)!Live' = d /\ log'[1] = log[1]
  BY CommitShows
<1>2. LogKept(x, who)
  BY DEF LogKept, Replay!Commit
<1>3. Len(log') = Len(log) + 1 /\ Len(log) \in Nat \ {0}
  <2>1. log \in Seq(LogEntry(x)) /\ Len(log) \in Nat \ {0}
    BY DEF ReplayTypes
  <2> QED
    BY <2>1 DEF Replay!Commit
<1>4. \A i \in 1 .. Len(log) : i \in 1 .. Len(log') /\ log'[i] = log[i]
  BY <1>2, LogGrows
<1> QED
  BY <1>1, <1>2, <1>3, <1>4

\* The steps of a run that write to the live database.
LEMMA RehearsalWrites ==
  ASSUME NEW x \in Replayed, ReplayInv(x), NEW o \in ReplayOf[x].operators,
         \/ Replay(x)!WriteMarker(o) \/ Replay(x)!WritePost(o) \/ Replay(x)!DeleteRow(o)
         \/ Replay(x)!DeleteUnanswered(o)
  PROVE  ReplayInv(x)'
<1> USE DEF Replay!At, Replay!Goto, Replay!wal
<1>t. /\ ReplayTypes(x) /\ run[o] \in ReplayRun /\ segment \in Nat /\ base \in 0 .. Len(log)
      /\ Len(log) \in Nat \ {0} /\ OperatorInv(o) /\ disturbed \in BOOLEAN
      /\ run \in [ReplayOf[x].operators -> ReplayRun]
      /\ recovered[o] \in Committed(x) \cup {None} /\ log \in Seq(LogEntry(x))
  BY DEF ReplayInv, ReplayTypes
<1>v. Replay(x)!Live \in Committed(x)
  BY <1>t, LiveTyped
<1>s. UNCHANGED <<segment, base, recovered>>
  BY DEF Replay!WriteMarker, Replay!WritePost, Replay!DeleteRow, Replay!DeleteUnanswered
\* A commit by a run that goes on with its base backup and its target.
<1>g. ASSUME NEW new \in ReplayRun, run' = [run EXCEPT ![o] = new], new.base = run[o].base,
             new.target = run[o].target, new.step \in {"count", "delete", "recount", "failed"},
             new.step \in BaseTaken => run[o].step \in BaseTaken,
             new.step \in Targeted => run[o].step \in Targeted,
             NEW d \in Committed(x), d.marker \in {None, Replay(x)!Live.marker, o},
             Replay(x)!Commit(d), disturbed' \in BOOLEAN, LiveInv(x)'
      PROVE  ReplayInv(x)'
  <2>1. /\ LogKept(x, o) /\ Len(log') = Len(log) + 1
        /\ \A i \in 1 .. Len(log) : i \in 1 .. Len(log') /\ log'[i] = log[i]
    BY <1>t, <1>g, CommitKeeps
  <2>2. run'[o] = new /\ base' \in 0 .. Len(log')
    BY <1>t, <1>s, <1>g, <2>1
  <2>3. OperatorInv(o)'
    <3>1. /\ new.step \in BaseTaken => run[o].base \in 1 .. Len(log) /\ log[run[o].base].db.marker # o
          /\ new.step \in Targeted => run[o].target \in 1 .. Len(log)
      BY <1>t, <1>g DEF OperatorInv
    <3>2. new.step \notin Unmarked \cup {"verify", "passed", "new", "undone", "over"}
      BY <1>g DEF Unmarked
    <3>3. /\ new.step \in BaseTaken =>
                run[o].base \in 1 .. Len(log') /\ log'[run[o].base].db.marker # o
          /\ new.step \in Targeted => run[o].target \in 1 .. Len(log')
      BY <2>1, <3>1
    <3> QED
      BY <1>g, <2>2, <3>2, <3>3 DEF OperatorInv
  <2> QED
    BY <1>t, <1>s, <1>g, <2>1, <2>2, <2>3, ReplayMove
\* What the live database then is, and who is left to undo it.
<1>l. ASSUME NEW new \in ReplayRun, run' = [run EXCEPT ![o] = new],
             new.step \in {"count", "delete", "recount"}, run[o].deleted = TRUE => new.deleted = TRUE,
             NEW d \in Committed(x), d.marker \in {None, Replay(x)!Live.marker, o},
             d.row = Replay(x)!Live.row \/ new.deleted = TRUE, Replay(x)!Commit(d),
             UNCHANGED disturbed
      PROVE  LiveInv(x)'
  <2>1. Replay(x)!Live' = d /\ log'[1] = log[1]
    BY <1>t, <1>l, CommitKeeps
  <2>2. run'[o] = new /\ \A p \in ReplayOf[x].operators \ {o} : run'[p] = run[p]
    BY <1>t, <1>l
  <2>3. SUFFICES ASSUME ReplayOf[x].offHost, disturbed = FALSE
        PROVE  /\ log[1].db.row = TRUE
               /\ \E p \in ReplayOf[x].operators : run'[p].step \notin {"new", "over"}
               /\ d.row = FALSE => \E p \in ReplayOf[x].operators : run'[p].deleted = TRUE
    BY <1>l, <2>1 DEF LiveInv
  <2>4. /\ log[1].db.row = TRUE
        /\ Replay(x)!Live.row = FALSE => \E p \in ReplayOf[x].operators : run[p].deleted = TRUE
    BY <2>3 DEF ReplayInv, LiveInv
  <2>5. run'[o].step \notin {"new", "over"}
    BY <1>l, <2>2
  <2>6. (\E p \in ReplayOf[x].operators : run[p].deleted = TRUE) =>
           \E p \in ReplayOf[x].operators : run'[p].deleted = TRUE
    <3> SUFFICES ASSUME NEW p \in ReplayOf[x].operators, run[p].deleted = TRUE
                 PROVE  \E q \in ReplayOf[x].operators : run'[q].deleted = TRUE
      OBVIOUS
    <3> QED
      BY <1>l, <2>2
  <2>7. new.deleted = TRUE => \E p \in ReplayOf[x].operators : run'[p].deleted = TRUE
    BY <2>2
  <2>8. d.row = FALSE => \E p \in ReplayOf[x].operators : run'[p].deleted = TRUE
    BY <1>l, <2>4, <2>6, <2>7
  <2> QED
    BY <2>4, <2>5, <2>8
<1>r. ASSUME NEW s \in {"count", "delete", "failed"}
      PROVE  LET new == [run[o] EXCEPT !.step = s]
             IN  /\ new \in ReplayRun /\ new.step = s /\ new.base = run[o].base
                 /\ new.target = run[o].target /\ new.deleted = run[o].deleted
  BY <1>t DEF ReplayRun
<1>1. CASE Replay(x)!WriteMarker(o)
  <2> DEFINE d   == [Replay(x)!Live EXCEPT !.marker = o]
             new == [run[o] EXCEPT !.step = "count"]
  <2>1. /\ run[o].step = "marker" /\ run' = [run EXCEPT ![o] = new] /\ Replay(x)!Commit(d)
        /\ UNCHANGED disturbed
    BY <1>1 DEF Replay!WriteMarker
  <2>2. d \in Committed(x) /\ d.marker = o /\ d.row = Replay(x)!Live.row
    BY <1>v DEF Committed
  <2>3. /\ new \in ReplayRun /\ new.step = "count" /\ new.base = run[o].base
        /\ new.target = run[o].target /\ new.deleted = run[o].deleted
    BY <1>r
  <2> HIDE DEF d, new
  <2>4. LiveInv(x)'
    BY <1>l, <2>1, <2>2, <2>3
  <2> QED
    BY <1>t, <1>g, <2>1, <2>2, <2>3, <2>4 DEF BaseTaken, Targeted
<1>2. CASE Replay(x)!WritePost(o)
  <2> DEFINE d   == [Replay(x)!Live EXCEPT !.post = TRUE]
             new == [run[o] EXCEPT !.step = "delete"]
  <2>1. /\ run[o].step = "post" /\ run' = [run EXCEPT ![o] = new] /\ Replay(x)!Commit(d)
        /\ UNCHANGED disturbed
    BY <1>2 DEF Replay!WritePost
  <2>2. d \in Committed(x) /\ d.marker = Replay(x)!Live.marker /\ d.row = Replay(x)!Live.row
    BY <1>v DEF Committed
  <2>3. /\ new \in ReplayRun /\ new.step = "delete" /\ new.base = run[o].base
        /\ new.target = run[o].target /\ new.deleted = run[o].deleted
    BY <1>r
  <2> HIDE DEF d, new
  <2>4. LiveInv(x)'
    BY <1>l, <2>1, <2>2, <2>3
  <2> QED
    BY <1>t, <1>g, <2>1, <2>2, <2>3, <2>4 DEF BaseTaken, Targeted
<1>3. CASE Replay(x)!DeleteRow(o)
  <2> DEFINE d   == [Replay(x)!Live EXCEPT !.row = FALSE]
             deleting == [run[o] EXCEPT !.deleted = TRUE]
             new == [deleting EXCEPT !.step = "recount"]
  <2>1. /\ run[o].step = "delete" /\ run' = [run EXCEPT ![o] = new] /\ Replay(x)!Commit(d)
        /\ UNCHANGED disturbed
    BY <1>3 DEF Replay!DeleteRow
  <2>2. d \in Committed(x) /\ d.marker = Replay(x)!Live.marker
    BY <1>v DEF Committed
  <2>3. /\ deleting \in ReplayRun /\ deleting.base = run[o].base
        /\ deleting.target = run[o].target /\ deleting.deleted = TRUE
    BY <1>t DEF ReplayRun
  <2> HIDE DEF deleting
  <2>4. /\ new \in ReplayRun /\ new.step = "recount" /\ new.base = run[o].base
        /\ new.target = run[o].target /\ new.deleted = TRUE
    BY <2>3 DEF ReplayRun
  <2> HIDE DEF d, new
  <2>5. LiveInv(x)'
    BY <1>l, <2>1, <2>2, <2>4
  <2> QED
    BY <1>t, <1>g, <2>1, <2>2, <2>4, <2>5 DEF BaseTaken, Targeted
<1>4. CASE Replay(x)!DeleteUnanswered(o)
  <2> DEFINE d   == [Replay(x)!Live EXCEPT !.row = FALSE]
             new == [run[o] EXCEPT !.step = "failed"]
  <2>1. /\ run[o].step = "delete" /\ run' = [run EXCEPT ![o] = new] /\ Replay(x)!Commit(d)
        /\ disturbed' = TRUE
    BY <1>4 DEF Replay!DeleteUnanswered
  <2>2. d \in Committed(x) /\ d.marker = Replay(x)!Live.marker
    BY <1>v DEF Committed
  <2>3. /\ new \in ReplayRun /\ new.step = "failed" /\ new.base = run[o].base
        /\ new.target = run[o].target
    BY <1>r
  <2> HIDE DEF d, new
  <2>4. LiveInv(x)'
    BY <2>1 DEF LiveInv
  <2> QED
    BY <1>g, <2>1, <2>2, <2>3, <2>4 DEF BaseTaken, Targeted
<1> QED
  BY <1>1, <1>2, <1>3, <1>4
\* The end of a run, at each exit or where it is killed.
LEMMA RehearsalEnds ==
  ASSUME NEW x \in Replayed, ReplayInv(x), NEW o \in ReplayOf[x].operators,
         Replay(x)!UndoDelete(o) \/ Replay(x)!UndoRows(o) \/ Replay(x)!Kill(o)
  PROVE  ReplayInv(x)'
<1> USE DEF Replay!At, Replay!Goto, Replay!wal
<1>t. /\ ReplayTypes(x) /\ run[o] \in ReplayRun /\ segment \in Nat /\ base \in 0 .. Len(log)
      /\ Len(log) \in Nat \ {0} /\ OperatorInv(o) /\ disturbed \in BOOLEAN
      /\ run \in [ReplayOf[x].operators -> ReplayRun]
      /\ recovered \in [ReplayOf[x].operators -> Committed(x) \cup {None}]
      /\ recovered[o] \in Committed(x) \cup {None}
  BY DEF ReplayInv, ReplayTypes
<1>v. Replay(x)!Live \in Committed(x)
  BY <1>t, LiveTyped
<1>s. UNCHANGED <<segment, base>>
  BY DEF Replay!UndoDelete, Replay!UndoRows, Replay!Kill
<1>a. ASSUME NEW s \in {"undone", "over"}
      PROVE  /\ Replay(x)!RunAt(s) \in ReplayRun /\ Replay(x)!RunAt(s).step = s
             /\ Replay(x)!RunAt(s).deleted = FALSE
  BY DEF Replay!RunAt, ReplayRun
\* Such a run knows nothing of the log.
<1>g. ASSUME NEW new \in ReplayRun, run' = [run EXCEPT ![o] = new], new.deleted = FALSE,
             new.step \in {"undone", "over"},
             recovered' = [recovered EXCEPT ![o] = None] \/ UNCHANGED recovered,
             LogKept(x, o), disturbed' \in BOOLEAN, LiveInv(x)'
      PROVE  ReplayInv(x)'
  <2>1. Len(log) <= Len(log') /\ Len(log') \in Nat
    BY <1>t, <1>g, LogGrows
  <2>2. run'[o] = new /\ base' \in 0 .. Len(log')
    BY <1>t, <1>s, <1>g, <2>1
  <2>3. OperatorInv(o)'
    BY <1>g, <2>2 DEF OperatorInv, Unmarked, BaseTaken, Targeted
  <2> QED
    BY <1>t, <1>s, <1>g, <2>2, <2>3, ReplayMove
<1>1. CASE Replay(x)!UndoDelete(o)
  <2> DEFINE new == Replay(x)!RunAt("undone")
  <2>1. new \in ReplayRun /\ new.step = "undone" /\ new.deleted = FALSE
    BY <1>a
  <2>2. run' = [run EXCEPT ![o] = new] /\ recovered' = [recovered EXCEPT ![o] = None]
    BY <1>1 DEF Replay!UndoDelete
  <2> HIDE DEF new
  <2>3. CASE Replay(x)!Commit([Replay(x)!Live EXCEPT !.row = TRUE]) /\ UNCHANGED disturbed
    <3> DEFINE d == [Replay(x)!Live EXCEPT !.row = TRUE]
    <3>1. d \in Committed(x) /\ d.marker = Replay(x)!Live.marker /\ d.row = TRUE
      BY <1>v DEF Committed
    <3>2. Replay(x)!Commit(d)
      BY <2>3
    <3> HIDE DEF d
    <3>3. LogKept(x, o) /\ Replay(x)!Live' = d /\ log'[1] = log[1]
      BY <1>t, <3>1, <3>2, CommitKeeps
    <3>4. run'[o] = new
      BY <1>t, <2>2
    <3>5. LiveInv(x)'
      BY <2>1, <2>3, <3>1, <3>3, <3>4 DEF ReplayInv, LiveInv
    <3> QED
      BY <1>t, <1>g, <2>1, <2>2, <2>3, <3>3, <3>5
  <2>4. CASE UNCHANGED log /\ disturbed' = TRUE
    <3>1. LiveInv(x)' /\ LogKept(x, o)
      BY <2>4 DEF LiveInv, LogKept
    <3> QED
      BY <1>g, <2>1, <2>2, <2>4, <3>1
  <2>5. CASE UNCHANGED <<log, disturbed>> /\ ~(ReplayOf[x].offHost /\ run[o].deleted)
    <3>1. LiveInv(x)'
      <4>1. CASE ~ReplayOf[x].offHost
        BY <4>1 DEF LiveInv
      <4>2. CASE run[o].deleted # TRUE
        BY <2>1, <2>2, <2>5, <4>2, LiveStays
      <4> QED
        BY <2>5, <4>1, <4>2
    <3>2. LogKept(x, o)
      BY <2>5 DEF LogKept
    <3> QED
      BY <1>t, <1>g, <2>1, <2>2, <2>5, <3>1, <3>2
  <2> QED
    BY <1>1, <2>3, <2>4, <2>5 DEF Replay!UndoDelete, Replay!Undoes
<1>2. CASE Replay(x)!UndoRows(o)
  <2> DEFINE new == [run[o] EXCEPT !.step = "over"]
  <2>1. new \in ReplayRun /\ new.step = "over" /\ new.deleted = FALSE
    <3>1. run[o].deleted = FALSE
      BY <1>t, <1>2 DEF OperatorInv, Replay!UndoRows
    <3> QED
      BY <1>t, <3>1 DEF ReplayRun
  <2>2. run' = [run EXCEPT ![o] = new] /\ UNCHANGED recovered
    BY <1>2 DEF Replay!UndoRows
  <2>0. run[o].deleted = FALSE
    BY <1>t, <1>2 DEF OperatorInv, Replay!UndoRows
  <2> HIDE DEF new
  <2>3. CASE /\ Replay(x)!Commit([Replay(x)!Live EXCEPT !.marker = None, !.post = FALSE])
             /\ UNCHANGED disturbed
    <3> DEFINE bare == [Replay(x)!Live EXCEPT !.marker = None]
               d    == [bare EXCEPT !.post = FALSE]
    <3>1. bare \in Committed(x) /\ bare.marker = None /\ bare.row = Replay(x)!Live.row
      BY <1>v DEF Committed
    <3>2. Replay(x)!Commit(d)
      BY <2>3
    <3> HIDE DEF bare
    <3>3. /\ d \in Committed(x) /\ d.marker = None /\ d.row = Replay(x)!Live.row
          /\ d.post = FALSE
      BY <3>1 DEF Committed
    <3> HIDE DEF d
    <3>4. LogKept(x, o) /\ Replay(x)!Live' = d /\ log'[1] = log[1]
      BY <1>t, <3>2, <3>3, CommitKeeps
    <3>5. \A p \in ReplayOf[x].operators \ {o} : run'[p] = run[p]
      BY <1>t, <2>2
    <3>6. (\E p \in ReplayOf[x].operators : run[p].deleted = TRUE) =>
             \E p \in ReplayOf[x].operators : run'[p].deleted = TRUE
      <4> SUFFICES ASSUME NEW p \in ReplayOf[x].operators, run[p].deleted = TRUE
                   PROVE  \E q \in ReplayOf[x].operators : run'[q].deleted = TRUE
        OBVIOUS
      <4> QED
        BY <2>0, <3>5
    <3>7. LiveInv(x)'
      <4>1. SUFFICES ASSUME ReplayOf[x].offHost, disturbed = FALSE
            PROVE  /\ log[1].db.row = TRUE
                   /\ d.row = FALSE => \E p \in ReplayOf[x].operators : run'[p].deleted = TRUE
        BY <2>3, <3>3, <3>4 DEF LiveInv
      <4> QED
        BY <3>3, <3>6, <4>1 DEF ReplayInv, LiveInv
    <3> QED
      BY <1>t, <1>g, <2>1, <2>2, <2>3, <3>4, <3>7
  <2>4. CASE UNCHANGED log /\ disturbed' = TRUE
    <3>1. LiveInv(x)' /\ LogKept(x, o)
      BY <2>4 DEF LiveInv, LogKept
    <3> QED
      BY <1>g, <2>1, <2>2, <2>4, <3>1
  <2>5. CASE UNCHANGED <<log, disturbed>> /\ ~ReplayOf[x].offHost
    <3>1. LiveInv(x)' /\ LogKept(x, o)
      BY <2>5 DEF LiveInv, LogKept
    <3> QED
      BY <1>t, <1>g, <2>1, <2>2, <2>5, <3>1
  <2> QED
    BY <1>2, <2>3, <2>4, <2>5 DEF Replay!UndoRows
<1>3. CASE Replay(x)!Kill(o)
  <2>1. /\ run' = [run EXCEPT ![o] = Replay(x)!RunAt("over")] /\ UNCHANGED log
        /\ recovered' = [recovered EXCEPT ![o] = None] /\ disturbed' = TRUE
    BY <1>3 DEF Replay!Kill
  <2>2. LiveInv(x)' /\ LogKept(x, o)
    BY <2>1 DEF LiveInv, LogKept
  <2> QED
    BY <1>a, <1>g, <2>1, <2>2
<1> QED
  BY <1>1, <1>2, <1>3

\* What happens beside the rehearsals.
LEMMA BesideRehearsals ==
  ASSUME NEW x \in Replayed, ReplayInv(x), Replay(x)!OtherProject \/ Replay(x)!BaseOnTimer
  PROVE  ReplayInv(x)'
<1>t. /\ ReplayTypes(x) /\ segment \in Nat /\ base \in 0 .. Len(log) /\ LiveInv(x)
      /\ Len(log) \in Nat \ {0} /\ Replay(x)!Live \in Committed(x)
  BY LiveTyped DEF ReplayInv, ReplayTypes
<1>s. UNCHANGED <<run, recovered, disturbed>>
  BY DEF Replay!OtherProject, Replay!BaseOnTimer
<1>g. ASSUME LogKept(x, None), segment' \in Nat, base' \in 0 .. Len(log'), LiveInv(x)'
      PROVE  ReplayInv(x)'
  <2>1. ReplayTypes(x)'
    <3>1. log' \in Seq(LogEntry(x)) /\ Len(log') \in Nat \ {0}
      BY <1>t, <1>g, LogGrows
    <3> QED
      BY <1>t, <1>s, <1>g, <3>1 DEF ReplayTypes
  <2>2. ASSUME NEW p \in ReplayOf[x].operators PROVE OperatorInv(p)'
    <3>1. p \in ReplayOf[x].operators \ {None}
      BY ReplayAssumption
    <3> QED
      BY <1>s, <1>g, <3>1, OthersKeep
  <2> QED
    BY <1>g, <2>1, <2>2 DEF ReplayInv
<1>1. CASE Replay(x)!OtherProject
  <2> DEFINE n == Replay(x)!Live.others + 1
             d == [Replay(x)!Live EXCEPT !.others = n]
  <2>1. n \in Nat
    <3>1. Replay(x)!Live.others \in Nat
      BY <1>t DEF Committed
    <3> QED
      BY <3>1
  <2>2. Replay(x)!Commit(d) /\ UNCHANGED <<segment, base>>
    BY <1>1 DEF Replay!OtherProject, Replay!wal
  <2> HIDE DEF n
  <2>3. /\ d \in Committed(x) /\ d.marker = Replay(x)!Live.marker
        /\ d.row = Replay(x)!Live.row /\ d.post = Replay(x)!Live.post
    BY <1>t, <2>1 DEF Committed
  <2> HIDE DEF d
  <2>4. LogKept(x, None) /\ Replay(x)!Live' = d /\ log'[1] = log[1] /\ Len(log') = Len(log) + 1
    BY <1>t, <2>2, <2>3, CommitKeeps
  <2>5. LiveInv(x)'
    BY <1>t, <1>s, <2>3, <2>4 DEF LiveInv
  <2>6. base' \in 0 .. Len(log')
    BY <1>t, <2>2, <2>4
  <2> QED
    BY <1>t, <1>g, <2>2, <2>4, <2>5, <2>6
<1>2. CASE Replay(x)!BaseOnTimer
  <2>1. log' = log /\ base' = Len(log) /\ segment' = segment + 1
    BY <1>2 DEF Replay!BaseOnTimer, Replay!BaseBackup
  <2>2. LogKept(x, None) /\ Replay(x)!Live' = Replay(x)!Live
    BY <2>1 DEF LogKept, Replay!Live
  <2>3. LiveInv(x)'
    BY <1>t, <1>s, <2>1, <2>2 DEF LiveInv
  <2>4. segment' \in Nat /\ base' \in 0 .. Len(log')
    BY <1>t, <2>1
  <2> QED
    BY <1>g, <2>2, <2>3, <2>4
<1> QED
  BY <1>1, <1>2

\* Every step of the operators and of the live database preserves the invariant.
LEMMA ReplayStep == ASSUME NEW x \in Replayed, ReplayInv(x), Replay(x)!Next PROVE ReplayInv(x)'
<1>1. ASSUME NEW o \in ReplayOf[x].operators, Replay(x)!Step(o) PROVE ReplayInv(x)'
  <2>1. CASE \/ Replay(x)!CheckArchiving(o) \/ Replay(x)!TakeBase(o) \/ Replay(x)!CountProjects(o)
             \/ Replay(x)!SwitchWal(o) \/ Replay(x)!Recount(o) \/ Replay(x)!FetchWal(o)
             \/ Replay(x)!Verify(o) \/ Replay(x)!Fail(o)
    BY <2>1, RehearsalQuiet
  <2>2. CASE Replay(x)!SelectBase(o) \/ Replay(x)!RecordTarget(o) \/ Replay(x)!Recover(o)
    BY <2>2, RehearsalChoice
  <2>3. CASE \/ Replay(x)!WriteMarker(o) \/ Replay(x)!WritePost(o) \/ Replay(x)!DeleteRow(o)
             \/ Replay(x)!DeleteUnanswered(o)
    BY <2>3, RehearsalWrites
  <2>4. CASE Replay(x)!UndoDelete(o) \/ Replay(x)!UndoRows(o) \/ Replay(x)!Kill(o)
    BY <2>4, RehearsalEnds
  <2> QED
    BY <1>1, <2>1, <2>2, <2>3, <2>4 DEF Replay!Step
<1>2. CASE Replay(x)!OtherProject \/ Replay(x)!BaseOnTimer
  BY <1>2, BesideRehearsals
<1> QED
  BY <1>1, <1>2 DEF Replay!Next

-----------------------------------------------------------------------------
(* The backup programme *)

Kinds(x)    == BackupsOf[x].kinds
ShipRun(x)  == [step : {"idle", "taken", "stored"}, at : Backups(x)!Time]
SpoolRun(x) == [step : {"idle", "next", "stored"}, at : Nat, todo : SUBSET Backups(x)!Segment]
PruneRun(x) == [step : {"idle", "artifact", "metadata", "wal"}, at : Nat,
                points : SUBSET Backups(x)!Point, doomed : SUBSET Backups(x)!Point,
                doomedWal : SUBSET Backups(x)!Segment]

BackupTypes(x) ==
    /\ now \in Backups(x)!Time /\ segment \in Nat
    /\ spool \in SUBSET Backups(x)!Segment
    /\ wal \in [Backups(x)!Segment -> Nat \cup {None}]
    /\ stored \in [Kinds(x) -> SUBSET Backups(x)!Time]
    /\ described \in [Kinds(x) -> SUBSET Backups(x)!Time]
    /\ first \in [Backups(x)!Time -> Nat]
    /\ ship \in [Kinds(x) -> ShipRun(x)]
    /\ walShip \in SpoolRun(x)
    /\ prune \in [Pruner -> PruneRun(x)]

\* A command ends within JobDays, nothing else touches the backup it makes, and a prune
\* dooms what is older than today.
ShipHolds(x, k) ==
    ship[k].step # "idle" =>
        /\ ship[k].at <= now /\ now <= ship[k].at + JobDays
        /\ ship[k].at \notin described[k]
        /\ \A p \in Pruner : <<k, ship[k].at>> \notin prune[p].doomed
        /\ ship[k].step = "stored" => ship[k].at \in stored[k]
PruneHolds(x, p) ==
    /\ prune[p].step # "idle" => prune[p].at <= now /\ now <= prune[p].at + JobDays
    /\ prune[p].step = "metadata" => prune[p].doomed # {}
    /\ \A k \in Kinds(x), t \in Backups(x)!Time : <<k, t>> \in prune[p].doomed => t < now

CommandsHold(x) ==
    /\ \A k \in Kinds(x) : ShipHolds(x, k) /\ \A t \in described[k] : t <= now
    /\ \A p \in Pruner : PruneHolds(x, p)

\* A base backup that the catalog offers, or will once its command is done.
Needed(x, t) ==
    /\ "base" \in Kinds(x)
    /\ t \in described["base"] \/ (ship["base"].step # "idle" /\ ship["base"].at = t)

\* Only finished segments are anywhere.
SegmentsAreFinished(x) ==
    /\ \A s \in spool : s < segment
    /\ \A s \in walShip.todo : s < segment
    /\ \A s \in Backups(x)!Segment : wal[s] # None => s < segment
    /\ \A p \in Pruner : \A s \in prune[p].doomedWal : s < segment

\* A segment that a needed backup is followed by is stored after the backup starts, is not
\* lost, and no prune dooms it.
FollowedBy(x, t) ==
    \A s \in Backups(x)!Segment : first[t] <= s =>
        /\ wal[s] # None => t <= wal[s]
        /\ s < segment => s \in spool \/ wal[s] # None
        /\ \A p \in Pruner : s \notin prune[p].doomedWal

\* A prune knows the backup, or started at most JobDays after it.
KnownTo(p, t) ==
    prune[p].step \in {"artifact", "metadata"} =>
        <<"base", t>> \in prune[p].points \cup prune[p].doomed \/ prune[p].at <= t + JobDays

WalIsKept(x) ==
    \A t \in Backups(x)!Time :
        Needed(x, t) => FollowedBy(x, t) /\ \A p \in Pruner : KnownTo(p, t)

\* What no prune will delete.
Keeps(x, k) ==
    {t \in described[k] : \A p \in Pruner : <<k, t>> \notin prune[p].doomed}
Later(S, t) == {u \in S : u > t}

\* A backup is at risk that is doomed, or has lost its artifact: enough are kept after it.
AtRisk(k, t) ==
    \/ t \in described[k] /\ t \notin stored[k]
    \/ \E p \in Pruner : <<k, t>> \in prune[p].doomed
EnoughAreKept(x) ==
    \A k \in Kinds(x), t \in Backups(x)!Time :
        AtRisk(k, t) => Cardinality(Later(Keeps(x, k), t)) >= Backups(x)!Kept(k)

BackupInv(x) ==
    BackupTypes(x) /\ CommandsHold(x) /\ SegmentsAreFinished(x) /\ WalIsKept(x)
    /\ EnoughAreKept(x)

\* A set of bounded numbers is finite and counts at least what its subsets count.
LEMMA CountMonotone ==
    ASSUME NEW T \in Nat, NEW B \in SUBSET (0 .. T), NEW A \in SUBSET B
    PROVE  /\ IsFiniteSet(B) /\ Cardinality(A) \in Nat /\ Cardinality(B) \in Nat
           /\ Cardinality(A) <= Cardinality(B)
<1>1. IsFiniteSet(0 .. T)
  BY FS_Interval
<1>2. IsFiniteSet(B)
  BY <1>1, FS_Subset
<1> QED
  BY <1>2, FS_Subset, FS_CardinalityType

\* A number is among the n newest when fewer than n are newer.
NewestOf(n, D) == {t \in D : Cardinality(Later(D, t)) < n}

\* Where n numbers are later than t, the n newest hold n that are.
LEMMA NewestAreLater ==
    ASSUME NEW T \in Nat, NEW D \in SUBSET (0 .. T), NEW n \in Nat, NEW t \in Nat,
           Cardinality(Later(D, t)) >= n
    PROVE  Cardinality(Later(NewestOf(n, D), t)) >= n
<1>a. /\ Later(D, t) \in SUBSET (0 .. T) /\ Later(NewestOf(n, D), t) \in SUBSET (0 .. T)
      /\ D \in SUBSET Nat
  <2>1. Later(D, t) \subseteq D /\ Later(NewestOf(n, D), t) \subseteq D
    BY DEF Later, NewestOf
  <2>2. D \subseteq 0 .. T /\ D \subseteq Nat
    OBVIOUS
  <2> QED
    BY <2>1, <2>2
<1>1. CASE n = 0
  <2>1. Cardinality(Later(NewestOf(n, D), t)) \in Nat
    BY <1>a, CountMonotone
  <2> QED
    BY <2>1, <1>1
<1>2. CASE n # 0
  <2> DEFINE From(m) == {u \in D : u >= m}
             M == {m \in Later(D, t) : Cardinality(From(m)) >= n}
  <2>1. ASSUME NEW v \in Nat, Cardinality(Later(D, v)) >= n
        PROVE  \E m \in Later(D, v) : Cardinality(From(m)) >= n
    <3>1. Later(D, v) # {}
      BY <2>1, <1>2, FS_EmptySet
    <3>2. Later(D, v) \in SUBSET Nat
      BY <1>a DEF Later
    <3>3. PICK m \in Later(D, v) : \A u \in Later(D, v) : m <= u
      BY <3>1, <3>2, LeastNatural
    <3>4. Later(D, v) \subseteq From(m) /\ From(m) \in SUBSET (0 .. T)
      BY <3>3, <1>a DEF Later
    <3>5. /\ Cardinality(Later(D, v)) <= Cardinality(From(m))
          /\ Cardinality(Later(D, v)) \in Nat /\ Cardinality(From(m)) \in Nat
      <4> HIDE DEF From
      <4> QED
        BY <3>4, CountMonotone
    <3> QED
      BY <3>3, <3>5, <2>1
  <2>2. M \in SUBSET (0 .. T) /\ M # {}
    BY <2>1, <1>a
  <2> HIDE DEF M
  <2>3. PICK m \in M : \A u \in M : m >= u
    BY <2>2, GreatestNatural
  <2>4. m \in D /\ m > t /\ m \in Nat /\ Cardinality(From(m)) >= n
    BY <2>3, <1>a DEF M, Later
  <2>5. ASSUME NEW u \in From(m) PROVE u \in Later(NewestOf(n, D), t)
    <3>1. u \in D /\ u >= m /\ u \in Nat /\ u > t
      BY <2>4, <1>a
    <3>2. CASE Cardinality(Later(D, u)) >= n
      <4>1. PICK w \in Later(D, u) : Cardinality(From(w)) >= n
        BY <2>1, <3>1, <3>2
      <4>2. w \in Nat /\ w > u /\ w \in D
        BY <1>a DEF Later
      <4>3. w \in M
        BY <4>1, <4>2, <3>1 DEF M, Later
      <4> QED
        BY <4>2, <4>3, <2>3, <2>4, <3>1
    <3>3. CASE ~ (Cardinality(Later(D, u)) >= n)
      <4>1. Later(D, u) \in SUBSET (0 .. T)
        BY DEF Later
      <4>2. Cardinality(Later(D, u)) \in Nat
        BY <4>1, CountMonotone
      <4> QED
        BY <4>2, <3>1, <3>3 DEF Later, NewestOf
    <3> QED
      BY <3>2, <3>3
  <2>6. From(m) \subseteq Later(NewestOf(n, D), t)
    BY <2>5
  <2> HIDE DEF From
  <2>7. /\ Cardinality(From(m)) <= Cardinality(Later(NewestOf(n, D), t))
        /\ Cardinality(From(m)) \in Nat /\ Cardinality(Later(NewestOf(n, D), t)) \in Nat
    BY <2>6, <1>a, CountMonotone
  <2> QED
    BY <2>4, <2>7
<1> QED
  BY <1>1, <1>2

\* An empty store with nothing running satisfies the invariant.
LEMMA BackupInit == ASSUME NEW x \in Stored, Backups(x)!Init PROVE BackupInv(x)
<1> USE BackupsAssumption
<1>1. BackupTypes(x)
  BY DEF Backups!Init, BackupTypes, Backups!Time, Backups!Segment, Backups!Point, Backups!Idle,
         Backups!NotPruning, ShipRun, SpoolRun, PruneRun, Kinds
<1>2. CommandsHold(x)
  BY DEF Backups!Init, CommandsHold, ShipHolds, PruneHolds, Backups!Idle, Backups!NotPruning, Kinds
<1>3. SegmentsAreFinished(x)
  BY DEF Backups!Init, SegmentsAreFinished, Backups!NotPruning
<1>4. WalIsKept(x)
  BY DEF Backups!Init, WalIsKept, Needed, Backups!Idle, Kinds
<1>5. EnoughAreKept(x)
  BY DEF Backups!Init, EnoughAreKept, AtRisk, Backups!NotPruning, Kinds
<1> QED
  BY <1>1, <1>2, <1>3, <1>4, <1>5 DEF BackupInv

\* The steps on one run of a command, field by field.
ShipTurns(x, k, step, at) ==
    /\ ship' \in [Kinds(x) -> ShipRun(x)] /\ ship'[k].step = step /\ ship'[k].at = at
    /\ \A j \in Kinds(x) : j # k => ship'[j] = ship[j]
PruneTurns(x, p, step, at, points, doomed, doomedWal) ==
    /\ prune' \in [Pruner -> PruneRun(x)]
    /\ prune'[p].step = step /\ prune'[p].at = at /\ prune'[p].points = points
    /\ prune'[p].doomed = doomed /\ prune'[p].doomedWal = doomedWal
    /\ \A q \in Pruner : q # p => prune'[q] = prune[q]

\* An assignment to the entry of one kind of backup turns only that command.
LEMMA ShipSets ==
    ASSUME NEW x \in Stored, BackupTypes(x), NEW k \in Kinds(x), NEW r \in ShipRun(x),
           ship' = [ship EXCEPT ![k] = r]
    PROVE  ShipTurns(x, k, r.step, r.at)
BY DEF BackupTypes, ShipTurns

\* An assignment to the entry of one prune turns only that prune.
LEMMA PruneSets ==
    ASSUME NEW x \in Stored, BackupTypes(x), NEW p \in Pruner, NEW r \in PruneRun(x),
           prune' = [prune EXCEPT ![p] = r]
    PROVE  PruneTurns(x, p, r.step, r.at, r.points, r.doomed, r.doomedWal)
BY DEF BackupTypes, PruneTurns

\* What each step of a backup does to its command.
LEMMA ShipSteps ==
    ASSUME NEW x \in Stored, BackupTypes(x), NEW k \in Kinds(x)
    PROVE  /\ Backups(x)!Take(k) => ShipTurns(x, k, "taken", now)
           /\ Backups(x)!Upload(k) => ShipTurns(x, k, "stored", ship[k].at)
           /\ Backups(x)!Describe(k) \/ Backups(x)!ShipFails(k) => ShipTurns(x, k, "idle", 0)
<1> USE BackupsAssumption
<1>0. ship[k] \in ShipRun(x) /\ now \in Backups(x)!Time /\ 0 \in Backups(x)!Time
  BY DEF BackupTypes, Backups!Time
<1>1. ASSUME Backups(x)!Take(k) PROVE ShipTurns(x, k, "taken", now)
  <2> DEFINE r == [step |-> "taken", at |-> now]
  <2>1. r \in ShipRun(x) /\ r.step = "taken" /\ r.at = now
    BY <1>0 DEF ShipRun
  <2>2. ship' = [ship EXCEPT ![k] = r]
    BY <1>1 DEF Backups!Take
  <2> HIDE DEF r
  <2>3. ShipTurns(x, k, r.step, r.at)
    BY <2>1, <2>2, ShipSets
  <2> QED
    BY <2>1, <2>3
<1>2. ASSUME Backups(x)!Upload(k) PROVE ShipTurns(x, k, "stored", ship[k].at)
  <2> DEFINE r == [ship[k] EXCEPT !.step = "stored"]
  <2>1. r \in ShipRun(x) /\ r.step = "stored" /\ r.at = ship[k].at
    BY <1>0 DEF ShipRun
  <2>2. ship' = [ship EXCEPT ![k] = r]
    BY <1>2 DEF Backups!Upload
  <2> HIDE DEF r
  <2>3. ShipTurns(x, k, r.step, r.at)
    BY <2>1, <2>2, ShipSets
  <2> QED
    BY <2>1, <2>3
<1>3. ASSUME Backups(x)!Describe(k) \/ Backups(x)!ShipFails(k) PROVE ShipTurns(x, k, "idle", 0)
  <2> DEFINE r == Backups(x)!Idle
  <2>1. r \in ShipRun(x) /\ r.step = "idle" /\ r.at = 0
    BY <1>0 DEF ShipRun, Backups!Idle
  <2>2. ship' = [ship EXCEPT ![k] = r]
    BY <1>3 DEF Backups!Describe, Backups!ShipFails
  <2> HIDE DEF r
  <2>3. ShipTurns(x, k, r.step, r.at)
    BY <2>1, <2>2, ShipSets
  <2> QED
    BY <2>1, <2>3
<1> QED
  BY <1>1, <1>2, <1>3

\* The catalog as one listing reads it.
Listed(x) == UNION {{k} \X described[k] : k \in Kinds(x)}

\* What each step of a prune does to its run.
LEMMA PruneSteps ==
    ASSUME NEW x \in Stored, BackupTypes(x), NEW p \in Pruner
    PROVE  /\ Backups(x)!ReadCatalog(p) =>
                PruneTurns(x, p, "artifact", now, Listed(x) \ Backups(x)!Expendable(Listed(x)),
                           Backups(x)!Expendable(Listed(x)), {})
           /\ Backups(x)!DeleteArtifact(p) =>
                PruneTurns(x, p, "metadata", prune[p].at, prune[p].points, prune[p].doomed,
                           prune[p].doomedWal)
           /\ Backups(x)!DeleteMetadata(p) =>
                PruneTurns(x, p, "artifact", prune[p].at, prune[p].points,
                           prune[p].doomed \ {Backups(x)!NextDoomed(p)}, prune[p].doomedWal)
           /\ Backups(x)!ListWal(p) =>
                PruneTurns(x, p, "wal", prune[p].at, prune[p].points, prune[p].doomed,
                           {s \in Backups(x)!Segment : /\ wal[s] # None
                               /\ Backups(x)!OlderThanCutoff(wal[s], prune[p].points)})
           /\ Backups(x)!DeleteSegment(p) =>
                PruneTurns(x, p, prune[p].step, prune[p].at, prune[p].points, prune[p].doomed,
                           prune[p].doomedWal \ {Backups(x)!Min(prune[p].doomedWal)})
           /\ Backups(x)!PruneEnds(p) => PruneTurns(x, p, "idle", 0, {}, {}, {})
<1> USE BackupsAssumption
<1>0. prune[p] \in PruneRun(x) /\ now \in Nat
  BY DEF BackupTypes, Backups!Time
<1>1. ASSUME Backups(x)!ReadCatalog(p)
      PROVE  PruneTurns(x, p, "artifact", now, Listed(x) \ Backups(x)!Expendable(Listed(x)),
                           Backups(x)!Expendable(Listed(x)), {})
  <2> DEFINE e == Backups(x)!Expendable(Listed(x))
             r == [step |-> "artifact", at |-> now, doomedWal |-> {},
                   points |-> Listed(x) \ e, doomed |-> e]
  <2>1. prune' = [prune EXCEPT ![p] = r]
    BY <1>1 DEF Backups!ReadCatalog, Listed, Kinds
  <2>2. Listed(x) \in SUBSET Backups(x)!Point
    BY DEF Listed, BackupTypes, Backups!Point, Kinds
  <2>3. e \subseteq Listed(x)
    BY DEF Backups!Expendable
  <2> HIDE DEF e
  <2>4. r \in PruneRun(x)
    BY <2>2, <2>3, <1>0 DEF PruneRun
  <2>5. /\ r.step = "artifact" /\ r.at = now /\ r.points = Listed(x) \ e /\ r.doomed = e
        /\ r.doomedWal = {}
    OBVIOUS
  <2> HIDE DEF r
  <2>6. PruneTurns(x, p, r.step, r.at, r.points, r.doomed, r.doomedWal)
    BY <2>1, <2>4, PruneSets
  <2> QED
    BY <2>5, <2>6 DEF e
<1>2. ASSUME Backups(x)!DeleteArtifact(p)
      PROVE  PruneTurns(x, p, "metadata", prune[p].at, prune[p].points, prune[p].doomed,
                           prune[p].doomedWal)
  <2> DEFINE r == [prune[p] EXCEPT !.step = "metadata"]
  <2>1. prune' = [prune EXCEPT ![p] = r]
    BY <1>2 DEF Backups!DeleteArtifact
  <2>2. /\ r \in PruneRun(x) /\ r.step = "metadata" /\ r.at = prune[p].at
        /\ r.points = prune[p].points /\ r.doomed = prune[p].doomed
        /\ r.doomedWal = prune[p].doomedWal
    BY <1>0 DEF PruneRun
  <2> HIDE DEF r
  <2>3. PruneTurns(x, p, r.step, r.at, r.points, r.doomed, r.doomedWal)
    BY <2>1, <2>2, PruneSets
  <2> QED
    BY <2>2, <2>3
<1>3. ASSUME Backups(x)!DeleteMetadata(p)
      PROVE  PruneTurns(x, p, "artifact", prune[p].at, prune[p].points,
                           prune[p].doomed \ {Backups(x)!NextDoomed(p)}, prune[p].doomedWal)
  <2> DEFINE d == Backups(x)!NextDoomed(p)
             m == [prune[p] EXCEPT !.step = "artifact"]
             r == [m EXCEPT !.doomed = prune[p].doomed \ {d}]
  <2>1. prune' = [prune EXCEPT ![p] = r]
    BY <1>3 DEF Backups!DeleteMetadata
  <2> HIDE DEF d
  <2>2. /\ m \in PruneRun(x) /\ m.step = "artifact" /\ m.at = prune[p].at
        /\ m.points = prune[p].points /\ m.doomedWal = prune[p].doomedWal
    BY <1>0 DEF PruneRun
  <2>3. prune[p].doomed \ {d} \in SUBSET Backups(x)!Point
    BY <1>0 DEF PruneRun
  <2> HIDE DEF m
  <2>4. /\ r \in PruneRun(x) /\ r.step = m.step /\ r.at = m.at
        /\ r.points = m.points /\ r.doomed = prune[p].doomed \ {d}
        /\ r.doomedWal = m.doomedWal
    BY <2>2, <2>3 DEF PruneRun
  <2> HIDE DEF r
  <2>5. PruneTurns(x, p, r.step, r.at, r.points, r.doomed, r.doomedWal)
    BY <2>1, <2>4, PruneSets
  <2> QED
    BY <2>2, <2>4, <2>5 DEF d
<1>4. ASSUME Backups(x)!ListWal(p)
      PROVE  PruneTurns(x, p, "wal", prune[p].at, prune[p].points, prune[p].doomed,
                           {s \in Backups(x)!Segment : /\ wal[s] # None
                               /\ Backups(x)!OlderThanCutoff(wal[s], prune[p].points)})
  <2> DEFINE old == {s \in Backups(x)!Segment : /\ wal[s] # None
                        /\ Backups(x)!OlderThanCutoff(wal[s], prune[p].points)}
             m == [prune[p] EXCEPT !.step = "wal"]
             r == [m EXCEPT !.doomedWal = old]
  <2>1. prune' = [prune EXCEPT ![p] = r]
    BY <1>4 DEF Backups!ListWal
  <2>2. /\ m \in PruneRun(x) /\ m.step = "wal" /\ m.at = prune[p].at
        /\ m.points = prune[p].points /\ m.doomed = prune[p].doomed
    BY <1>0 DEF PruneRun
  <2>3. old \in SUBSET Backups(x)!Segment
    OBVIOUS
  <2> HIDE DEF m, old
  <2>4. /\ r \in PruneRun(x) /\ r.step = m.step /\ r.at = m.at
        /\ r.points = m.points /\ r.doomed = m.doomed /\ r.doomedWal = old
    BY <2>2, <2>3 DEF PruneRun
  <2> HIDE DEF r
  <2>5. PruneTurns(x, p, r.step, r.at, r.points, r.doomed, r.doomedWal)
    BY <2>1, <2>4, PruneSets
  <2> QED
    BY <2>2, <2>4, <2>5 DEF old
<1>5. ASSUME Backups(x)!DeleteSegment(p)
      PROVE  PruneTurns(x, p, prune[p].step, prune[p].at, prune[p].points, prune[p].doomed,
                           prune[p].doomedWal \ {Backups(x)!Min(prune[p].doomedWal)})
  <2> DEFINE rest == prune[p].doomedWal \ {Backups(x)!Min(prune[p].doomedWal)}
             r == [prune[p] EXCEPT !.doomedWal = rest]
  <2>1. prune' = [prune EXCEPT ![p] = r]
    BY <1>5 DEF Backups!DeleteSegment
  <2>2. rest \in SUBSET Backups(x)!Segment
    BY <1>0 DEF PruneRun
  <2> HIDE DEF rest
  <2>3. /\ r \in PruneRun(x) /\ r.step = prune[p].step /\ r.at = prune[p].at
        /\ r.points = prune[p].points /\ r.doomed = prune[p].doomed /\ r.doomedWal = rest
    BY <1>0, <2>2 DEF PruneRun
  <2> HIDE DEF r
  <2>4. PruneTurns(x, p, r.step, r.at, r.points, r.doomed, r.doomedWal)
    BY <2>1, <2>3, PruneSets
  <2> QED
    BY <2>3, <2>4 DEF rest
<1>6. ASSUME Backups(x)!PruneEnds(p) PROVE PruneTurns(x, p, "idle", 0, {}, {}, {})
  <2> DEFINE r == Backups(x)!NotPruning
  <2>1. prune' = [prune EXCEPT ![p] = r]
    BY <1>6 DEF Backups!PruneEnds
  <2>2. /\ r \in PruneRun(x) /\ r.step = "idle" /\ r.at = 0 /\ r.points = {}
        /\ r.doomed = {} /\ r.doomedWal = {}
    BY DEF PruneRun, Backups!NotPruning
  <2> HIDE DEF r
  <2>3. PruneTurns(x, p, r.step, r.at, r.points, r.doomed, r.doomedWal)
    BY <2>1, <2>2, PruneSets
  <2> QED
    BY <2>2, <2>3
<1> QED
  BY <1>1, <1>2, <1>3, <1>4, <1>5, <1>6

\* The oldest of some segments is one of them.
LEMMA SegmentMin ==
    ASSUME NEW x \in Stored, NEW S \in SUBSET Backups(x)!Segment, S # {}
    PROVE  Backups(x)!Min(S) \in S
<1>1. S \in SUBSET Nat
  BY BackupsAssumption DEF Backups!Segment
<1>2. PICK n \in S : \A m \in S : n <= m
  BY <1>1, LeastNatural
<1> QED
  BY <1>2 DEF Backups!Min

\* What a prune deletes next is among what it has doomed.
LEMMA NextIsDoomed ==
    ASSUME NEW x \in Stored, BackupTypes(x), NEW p \in Pruner, prune[p].doomed # {}
    PROVE  \E k \in Kinds(x), t \in Backups(x)!Time :
              Backups(x)!NextDoomed(p) = <<k, t>> /\ <<k, t>> \in prune[p].doomed
<1> USE BackupsAssumption
<1>1. prune[p].doomed \subseteq Kinds(x) \X Backups(x)!Time
  BY DEF BackupTypes, PruneRun, Backups!Point, Kinds
<1> DEFINE Gone(k) == Backups(x)!Taken(prune[p].doomed, k)
<1>2. ASSUME NEW k, Gone(k) # {} PROVE Backups(x)!Max(Gone(k)) \in Gone(k)
  <2>1. Gone(k) \in SUBSET (0 .. MaxTimeOf.backup)
    BY DEF Backups!Taken, Backups!Time
  <2> HIDE DEF Gone
  <2>2. PICK n \in Gone(k) : \A m \in Gone(k) : n >= m
    BY <2>1, <1>2, GreatestNatural
  <2> QED
    BY <2>2 DEF Backups!Max
<1>3. \A k : \A t \in Gone(k) : <<k, t>> \in prune[p].doomed /\ k \in Kinds(x) /\ t \in Backups(x)!Time
  BY <1>1 DEF Backups!Taken
<1>4. Gone("logical") # {} \/ Gone("base") # {}
  <2>1. PICK d \in prune[p].doomed : TRUE
    OBVIOUS
  <2>2. PICK k \in Kinds(x), t \in Backups(x)!Time : d = <<k, t>>
    BY <1>1
  <2>3. t \in Gone(k)
    BY <2>1, <2>2 DEF Backups!Taken
  <2>4. k \in {"logical", "base"}
    BY DEF Kinds
  <2> QED
    BY <2>3, <2>4
<1>5. CASE Gone("logical") # {}
  <2>1. Backups(x)!NextDoomed(p) = <<"logical", Backups(x)!Max(Gone("logical"))>>
    BY <1>5 DEF Backups!NextDoomed
  <2> HIDE DEF Gone
  <2> QED
    BY <2>1, <1>2, <1>3, <1>5
<1>6. CASE Gone("logical") = {}
  <2>1. Backups(x)!NextDoomed(p) = <<"base", Backups(x)!Max(Gone("base"))>>
    BY <1>6 DEF Backups!NextDoomed
  <2> HIDE DEF Gone
  <2> QED
    BY <2>1, <1>2, <1>3, <1>4, <1>6
<1> QED
  BY <1>5, <1>6

\* Every step keeps the types.
LEMMA BackupTyped ==
    ASSUME NEW x \in Stored, BackupInv(x), Backups(x)!Next
    PROVE  BackupTypes(x)'
<1> USE BackupsAssumption
<1>0. BackupTypes(x) /\ now \in Nat /\ segment \in Nat
  BY DEF BackupInv, BackupTypes, Backups!Time
<1>a. ASSUME UNCHANGED <<now, segment, spool, wal, stored, described, first, walShip, prune>>,
             ship' \in [Kinds(x) -> ShipRun(x)]
      PROVE  BackupTypes(x)'
  BY <1>0, <1>a DEF BackupTypes
<1>b. ASSUME UNCHANGED <<now, segment, spool, wal, stored, described, first, ship, walShip>>,
             prune' \in [Pruner -> PruneRun(x)]
      PROVE  BackupTypes(x)'
  BY <1>0, <1>b DEF BackupTypes
<1>c. \A f \in [Backups(x)!Time -> Nat] : \A t : \A n \in Nat :
          [f EXCEPT ![t] = n] \in [Backups(x)!Time -> Nat]
  OBVIOUS
<1>d. first \in [Backups(x)!Time -> Nat]
  BY <1>0 DEF BackupTypes
<1>1. ASSUME NEW k \in Kinds(x), Backups(x)!Take(k) PROVE BackupTypes(x)'
  <2>1. ship' \in [Kinds(x) -> ShipRun(x)]
    BY <1>0, <1>1, ShipSteps DEF ShipTurns
  <2>2. first' \in [Backups(x)!Time -> Nat]
    BY <1>0, <1>1, <1>c, <1>d DEF Backups!Take
  <2> QED
    BY <2>1, <2>2, <1>0, <1>1 DEF Backups!Take, Backups!files, BackupTypes
<1>2. ASSUME NEW k \in Kinds(x), Backups(x)!Upload(k) PROVE BackupTypes(x)'
  <2>1. ship' \in [Kinds(x) -> ShipRun(x)]
    BY <1>0, <1>2, ShipSteps DEF ShipTurns
  <2>2. stored[k] \cup {ship[k].at} \in SUBSET Backups(x)!Time
    BY <1>0 DEF BackupTypes, ShipRun
  <2>3. stored' \in [Kinds(x) -> SUBSET Backups(x)!Time]
    BY <2>2, <1>0, <1>2 DEF Backups!Upload, BackupTypes
  <2> QED
    BY <2>1, <2>3, <1>0, <1>2 DEF Backups!Upload, BackupTypes
<1>3. ASSUME NEW k \in Kinds(x), Backups(x)!Describe(k) PROVE BackupTypes(x)'
  <2>1. ship' \in [Kinds(x) -> ShipRun(x)]
    BY <1>0, <1>3, ShipSteps DEF ShipTurns
  <2>2. described[k] \cup {ship[k].at} \in SUBSET Backups(x)!Time
    BY <1>0 DEF BackupTypes, ShipRun
  <2>3. described' \in [Kinds(x) -> SUBSET Backups(x)!Time]
    BY <2>2, <1>0, <1>3 DEF Backups!Describe, BackupTypes
  <2> QED
    BY <2>1, <2>3, <1>0, <1>3 DEF Backups!Describe, BackupTypes
<1>4. ASSUME NEW k \in Kinds(x), Backups(x)!ShipFails(k) PROVE BackupTypes(x)'
  <2>1. ship' \in [Kinds(x) -> ShipRun(x)]
    BY <1>0, <1>4, ShipSteps DEF ShipTurns
  <2>2. first' \in [Backups(x)!Time -> Nat]
    BY <1>4, <1>c, <1>d DEF Backups!ShipFails
  <2> QED
    BY <2>1, <2>2, <1>0, <1>4 DEF Backups!ShipFails, Backups!files, BackupTypes
<1>5. CASE Backups(x)!SwitchSegment
  <2>1. segment \in Backups(x)!Segment
    BY <1>0, <1>5 DEF Backups!SwitchSegment, Backups!Segment
  <2>2. segment' \in Nat /\ spool' \in SUBSET Backups(x)!Segment
    BY <2>1, <1>0, <1>5 DEF Backups!SwitchSegment, BackupTypes
  <2> QED
    BY <2>2, <1>0, <1>5 DEF Backups!SwitchSegment, BackupTypes
<1>6. CASE Backups(x)!ReadSpool
  <2>1. walShip' \in SpoolRun(x)
    BY <1>0, <1>6 DEF Backups!ReadSpool, BackupTypes, SpoolRun
  <2> QED
    BY <2>1, <1>0, <1>6 DEF Backups!ReadSpool, Backups!files, BackupTypes
<1>7. CASE Backups(x)!StoreSegment
  <2>1. walShip' \in SpoolRun(x)
    BY <1>0, <1>7 DEF Backups!StoreSegment, BackupTypes, SpoolRun
  <2>2. wal' \in [Backups(x)!Segment -> Nat \cup {None}]
    BY <1>0, <1>7 DEF Backups!StoreSegment, BackupTypes
  <2> QED
    BY <2>1, <2>2, <1>0, <1>7 DEF Backups!StoreSegment, BackupTypes
<1>8. CASE Backups(x)!RemoveSegment
  <2> DEFINE moved == [walShip EXCEPT !.step = "next"]
             rest == walShip.todo \ {Backups(x)!Min(walShip.todo)}
  <2>1. walShip' = [moved EXCEPT !.todo = rest]
    BY <1>8 DEF Backups!RemoveSegment
  <2>2. moved \in SpoolRun(x) /\ rest \in SUBSET Backups(x)!Segment
    BY <1>0 DEF BackupTypes, SpoolRun
  <2> HIDE DEF moved, rest
  <2>3. walShip' \in SpoolRun(x)
    BY <2>1, <2>2 DEF SpoolRun
  <2>4. spool' \in SUBSET Backups(x)!Segment
    BY <1>0, <1>8 DEF Backups!RemoveSegment, BackupTypes
  <2> QED
    BY <2>3, <2>4, <1>0, <1>8 DEF Backups!RemoveSegment, BackupTypes
<1>9. CASE Backups(x)!WalShipEnds
  <2>1. walShip' \in SpoolRun(x)
    BY <1>9 DEF Backups!WalShipEnds, SpoolRun
  <2> QED
    BY <2>1, <1>0, <1>9 DEF Backups!WalShipEnds, Backups!files, BackupTypes
<1>10. ASSUME NEW p \in Pruner,
              Backups(x)!ReadCatalog(p) \/ Backups(x)!ListWal(p) \/ Backups(x)!PruneEnds(p)
       PROVE  BackupTypes(x)'
  <2>1. prune' \in [Pruner -> PruneRun(x)]
    BY <1>0, <1>10, PruneSteps DEF PruneTurns
  <2> QED
    BY <2>1, <1>b, <1>10 DEF Backups!ReadCatalog, Backups!ListWal, Backups!PruneEnds, Backups!files
<1>11. ASSUME NEW p \in Pruner, Backups(x)!DeleteArtifact(p) PROVE BackupTypes(x)'
  <2>1. prune' \in [Pruner -> PruneRun(x)]
    BY <1>0, <1>11, PruneSteps DEF PruneTurns
  <2> DEFINE d == Backups(x)!NextDoomed(p)
  <2>2. stored' = [stored EXCEPT ![d[1]] = @ \ {d[2]}]
    BY <1>11 DEF Backups!DeleteArtifact
  <2> HIDE DEF d
  <2>3. stored' \in [Kinds(x) -> SUBSET Backups(x)!Time]
    BY <2>2, <1>0 DEF BackupTypes
  <2> QED
    BY <2>1, <2>3, <1>0, <1>11 DEF Backups!DeleteArtifact, BackupTypes
<1>12. ASSUME NEW p \in Pruner, Backups(x)!DeleteMetadata(p) PROVE BackupTypes(x)'
  <2>1. prune' \in [Pruner -> PruneRun(x)]
    BY <1>0, <1>12, PruneSteps DEF PruneTurns
  <2> DEFINE d == Backups(x)!NextDoomed(p)
  <2>2. /\ described' = [described EXCEPT ![d[1]] = @ \ {d[2]}]
        /\ first' = IF d[1] = "base" THEN [first EXCEPT ![d[2]] = 0] ELSE first
    BY <1>12 DEF Backups!DeleteMetadata
  <2> HIDE DEF d
  <2>3. described' \in [Kinds(x) -> SUBSET Backups(x)!Time]
    BY <2>2, <1>0 DEF BackupTypes
  <2>4. first' \in [Backups(x)!Time -> Nat]
    BY <2>2, <1>c, <1>d
  <2> QED
    BY <2>1, <2>3, <2>4, <1>0, <1>12 DEF Backups!DeleteMetadata, BackupTypes
<1>13. ASSUME NEW p \in Pruner, Backups(x)!DeleteSegment(p) PROVE BackupTypes(x)'
  <2>1. prune' \in [Pruner -> PruneRun(x)]
    BY <1>0, <1>13, PruneSteps DEF PruneTurns
  <2>2. wal' \in [Backups(x)!Segment -> Nat \cup {None}]
    BY <1>0, <1>13 DEF Backups!DeleteSegment, BackupTypes
  <2> QED
    BY <2>1, <2>2, <1>0, <1>13 DEF Backups!DeleteSegment, BackupTypes
<1>14. CASE Backups(x)!Tick
  <2>1. now' \in Backups(x)!Time
    BY <1>0, <1>14 DEF Backups!Tick, Backups!Time
  <2> QED
    BY <2>1, <1>0, <1>14 DEF Backups!Tick, Backups!files, BackupTypes
<1> QED
  BY <1>1, <1>2, <1>3, <1>4, <1>5, <1>6, <1>7, <1>8, <1>9, <1>10, <1>11, <1>12, <1>13, <1>14
  DEF Backups!Next, Kinds

\* The instance counts as the library does.
LEMMA CountIs == ASSUME NEW x, NEW S PROVE Backups(x)!Cardinality(S) = Cardinality(S)
BY DEF Backups!Cardinality, Cardinality

\* What the code calls the newest are those with fewer than n newer ones.
LEMMA NewestIs == ASSUME NEW x, NEW n, NEW S PROVE Backups(x)!Newest(n, S) = NewestOf(n, S)
<1>1. \A t : Backups(x)!Cardinality(Later(S, t)) = Cardinality(Later(S, t))
  BY CountIs
<1>2. Backups(x)!Newest(n, S) = {t \in S : Backups(x)!Cardinality(Later(S, t)) < n}
  BY DEF Backups!Newest, Later
<1> QED
  BY <1>1, <1>2 DEF NewestOf

\* What a prune dooms is listed, and old.
LEMMA DoomedAreOld ==
    ASSUME NEW x \in Stored, BackupTypes(x), NEW k \in Kinds(x), NEW t \in Backups(x)!Time,
           <<k, t>> \in Backups(x)!Expendable(Listed(x))
    PROVE  /\ t \in described[k] /\ t < now
           /\ t \notin NewestOf(Backups(x)!Kept(k), described[k])
<1> USE BackupsAssumption
<1>1. <<k, t>> \in Listed(x)
  BY DEF Backups!Expendable
<1>2. t \in described[k]
  BY <1>1 DEF Listed
<1>3. t + BackupDays < now /\ t \notin Backups(x)!Newest(Backups(x)!Kept(k),
                                        Backups(x)!Taken(Listed(x), k))
  BY DEF Backups!Expendable
<1>4. Backups(x)!Taken(Listed(x), k) = described[k]
  <2>1. \A u : <<k, u>> \in Listed(x) <=> u \in described[k]
    BY DEF Listed
  <2>2. described[k] \subseteq Backups(x)!Time
    BY DEF BackupTypes
  <2> QED
    BY <2>1, <2>2 DEF Backups!Taken
<1>5. now \in Nat /\ t \in Nat
  BY DEF BackupTypes, Backups!Time
<1>6. Backups(x)!Newest(Backups(x)!Kept(k), described[k]) = NewestOf(Backups(x)!Kept(k), described[k])
  BY NewestIs
<1> QED
  BY <1>2, <1>3, <1>4, <1>5, <1>6

\* Every step keeps what backups and prunes under way know.
LEMMA CommandsStillHold ==
    ASSUME NEW x \in Stored, BackupInv(x), Backups(x)!Next
    PROVE  CommandsHold(x)'
<1> USE BackupsAssumption
<1>0. BackupTypes(x) /\ CommandsHold(x)
  BY DEF BackupInv
<1>0a. /\ now \in Nat /\ \A k \in Kinds(x) : ship[k].at \in Nat
       /\ \A p \in Pruner : prune[p].at \in Nat
  BY <1>0 DEF BackupTypes, ShipRun, PruneRun, Backups!Time
<1>a. ASSUME UNCHANGED <<now, stored, described, ship>>,
             \A q \in Pruner : /\ prune'[q].at = prune[q].at /\ prune'[q].doomed = prune[q].doomed
                               /\ \/ prune'[q].step = prune[q].step
                                  \/ prune'[q].step = "wal" /\ prune[q].step = "artifact"
      PROVE  CommandsHold(x)'
  BY <1>a, <1>0 DEF CommandsHold, ShipHolds, PruneHolds
<1>1. ASSUME NEW k \in Kinds(x), Backups(x)!Take(k) PROVE CommandsHold(x)'
  <2>1. ShipTurns(x, k, "taken", now)
    BY <1>0, <1>1, ShipSteps
  <2>2. now \notin described[k] /\ UNCHANGED <<now, stored, described, prune>>
    BY <1>1 DEF Backups!Take, Backups!files
  <2>3. \A p \in Pruner : <<k, now>> \notin prune[p].doomed
    BY <1>0, <1>0a DEF CommandsHold, PruneHolds, BackupTypes
  <2>4. ShipHolds(x, k)'
    BY <2>1, <2>2, <2>3, <1>0a DEF ShipTurns, ShipHolds
  <2> QED
    BY <2>1, <2>2, <2>4, <1>0 DEF ShipTurns, CommandsHold, ShipHolds, PruneHolds
<1>2. ASSUME NEW k \in Kinds(x), Backups(x)!Upload(k) PROVE CommandsHold(x)'
  <2>1. ShipTurns(x, k, "stored", ship[k].at)
    BY <1>0, <1>2, ShipSteps
  <2>2. ship[k].step = "taken" /\ UNCHANGED <<now, described, prune>>
    BY <1>2 DEF Backups!Upload
  <2>3. /\ ship[k].at \in stored'[k]
        /\ \A j \in Kinds(x) : j # k => stored'[j] = stored[j]
    BY <1>0, <1>2 DEF Backups!Upload, BackupTypes
  <2>4. ShipHolds(x, k)'
    BY <2>1, <2>2, <2>3, <1>0 DEF ShipTurns, ShipHolds, CommandsHold
  <2> QED
    BY <2>1, <2>2, <2>3, <2>4, <1>0 DEF ShipTurns, CommandsHold, ShipHolds, PruneHolds
<1>3. ASSUME NEW k \in Kinds(x), Backups(x)!Describe(k) PROVE CommandsHold(x)'
  <2>1. ShipTurns(x, k, "idle", 0)
    BY <1>0, <1>3, ShipSteps
  <2>2. ship[k].step = "stored" /\ UNCHANGED <<now, stored, prune>>
    BY <1>3 DEF Backups!Describe
  <2>3. /\ described'[k] = described[k] \cup {ship[k].at}
        /\ \A j \in Kinds(x) : j # k => described'[j] = described[j]
    BY <1>0, <1>3 DEF Backups!Describe, BackupTypes
  <2>4. ship[k].at <= now
    BY <2>2, <1>0 DEF CommandsHold, ShipHolds
  <2>5. ShipHolds(x, k)'
    BY <2>1 DEF ShipTurns, ShipHolds
  <2>6. \A j \in Kinds(x) : j # k => ShipHolds(x, j)'
    BY <2>1, <2>2, <2>3, <1>0 DEF ShipTurns, CommandsHold, ShipHolds
  <2>7. \A j \in Kinds(x) : \A t \in described'[j] : t <= now
    BY <2>3, <2>4, <1>0 DEF CommandsHold
  <2>8. \A p \in Pruner : PruneHolds(x, p)'
    BY <2>2, <1>0 DEF CommandsHold, PruneHolds
  <2> QED
    BY <2>2, <2>5, <2>6, <2>7, <2>8 DEF CommandsHold
<1>4. ASSUME NEW k \in Kinds(x), Backups(x)!ShipFails(k) PROVE CommandsHold(x)'
  <2>1. ShipTurns(x, k, "idle", 0)
    BY <1>0, <1>4, ShipSteps
  <2>2. UNCHANGED <<now, stored, described, prune>>
    BY <1>4 DEF Backups!ShipFails, Backups!files
  <2> QED
    BY <2>1, <2>2, <1>0 DEF ShipTurns, CommandsHold, ShipHolds, PruneHolds
<1>5. CASE Backups(x)!SwitchSegment \/ Backups(x)!ReadSpool \/ Backups(x)!StoreSegment
           \/ Backups(x)!RemoveSegment \/ Backups(x)!WalShipEnds
  BY <1>a, <1>5 DEF Backups!SwitchSegment, Backups!ReadSpool, Backups!StoreSegment,
     Backups!RemoveSegment, Backups!WalShipEnds, Backups!files
<1>6. ASSUME NEW p \in Pruner, Backups(x)!ListWal(p) PROVE CommandsHold(x)'
  <2>1. PruneTurns(x, p, "wal", prune[p].at, prune[p].points, prune[p].doomed,
                   {s \in Backups(x)!Segment : /\ wal[s] # None
                               /\ Backups(x)!OlderThanCutoff(wal[s], prune[p].points)})
    BY <1>0, <1>6, PruneSteps
  <2>2. UNCHANGED <<now, stored, described, ship>> /\ prune[p].step = "artifact"
    BY <1>6 DEF Backups!ListWal, Backups!files, Backups!At
  <2> QED
    BY <2>1, <2>2, <1>a DEF PruneTurns
<1>7. ASSUME NEW p \in Pruner, Backups(x)!DeleteSegment(p) PROVE CommandsHold(x)'
  <2>1. PruneTurns(x, p, prune[p].step, prune[p].at, prune[p].points, prune[p].doomed,
                   prune[p].doomedWal \ {Backups(x)!Min(prune[p].doomedWal)})
    BY <1>0, <1>7, PruneSteps
  <2>2. UNCHANGED <<now, stored, described, ship>>
    BY <1>7 DEF Backups!DeleteSegment
  <2> QED
    BY <2>1, <2>2, <1>a DEF PruneTurns
<1>8. ASSUME NEW p \in Pruner, Backups(x)!ReadCatalog(p) PROVE CommandsHold(x)'
  <2> DEFINE gone == Backups(x)!Expendable(Listed(x))
             left == Listed(x) \ gone
  <2>1. PruneTurns(x, p, "artifact", now, left, gone, {})
    BY <1>0, <1>8, PruneSteps
  <2>2. UNCHANGED <<now, stored, described, ship>>
    BY <1>8 DEF Backups!ReadCatalog, Backups!files
  <2>3. \A k \in Kinds(x), t \in Backups(x)!Time : <<k, t>> \in gone => t \in described[k] /\ t < now
    BY <1>0, DoomedAreOld
  <2>4. \A k \in Kinds(x) : ship[k].at \in Backups(x)!Time
    BY <1>0 DEF BackupTypes, ShipRun
  <2> HIDE DEF gone, left
  <2>5. PruneHolds(x, p)'
    BY <2>1, <2>2, <2>3, <1>0a DEF PruneTurns, PruneHolds
  <2>6. \A k \in Kinds(x) : ShipHolds(x, k)'
    BY <2>1, <2>2, <2>3, <2>4, <1>0 DEF PruneTurns, CommandsHold, ShipHolds
  <2>7. \A q \in Pruner : PruneHolds(x, q)'
    BY <2>1, <2>2, <2>5, <1>0 DEF PruneTurns, CommandsHold, PruneHolds
  <2> QED
    BY <2>2, <2>6, <2>7, <1>0 DEF CommandsHold
<1>9. ASSUME NEW p \in Pruner, Backups(x)!DeleteArtifact(p) PROVE CommandsHold(x)'
  <2>1. PruneTurns(x, p, "metadata", prune[p].at, prune[p].points, prune[p].doomed,
                   prune[p].doomedWal)
    BY <1>0, <1>9, PruneSteps
  <2>2. /\ UNCHANGED <<now, described, ship>> /\ prune[p].doomed # {}
        /\ prune[p].step = "artifact"
    BY <1>9 DEF Backups!DeleteArtifact, Backups!At
  <2>3. PICK k \in Kinds(x), t \in Backups(x)!Time :
            Backups(x)!NextDoomed(p) = <<k, t>> /\ <<k, t>> \in prune[p].doomed
    BY <1>0, <2>2, NextIsDoomed
  <2>4. stored' = [stored EXCEPT ![k] = @ \ {t}]
    BY <1>9, <2>3 DEF Backups!DeleteArtifact
  <2>5. \A j \in Kinds(x) : ship[j].step = "stored" => ship[j].at \in stored'[j]
    <3>1. ship[k].step # "idle" => ship[k].at # t
      BY <2>3, <1>0 DEF CommandsHold, ShipHolds
    <3>2. /\ stored'[k] = stored[k] \ {t}
          /\ \A j \in Kinds(x) : j # k => stored'[j] = stored[j]
      BY <2>4, <1>0 DEF BackupTypes
    <3> QED
      BY <3>1, <3>2, <1>0 DEF CommandsHold, ShipHolds
  <2>6. \A j \in Kinds(x) : ShipHolds(x, j)'
    BY <2>1, <2>2, <2>5, <1>0 DEF PruneTurns, CommandsHold, ShipHolds
  <2>7. \A q \in Pruner : PruneHolds(x, q)'
    BY <2>1, <2>2, <1>0 DEF PruneTurns, CommandsHold, PruneHolds
  <2> QED
    BY <2>2, <2>6, <2>7, <1>0 DEF CommandsHold
<1>10. ASSUME NEW p \in Pruner, Backups(x)!DeleteMetadata(p) PROVE CommandsHold(x)'
  <2> DEFINE d == Backups(x)!NextDoomed(p)
  <2>1. PruneTurns(x, p, "artifact", prune[p].at, prune[p].points, prune[p].doomed \ {d},
                   prune[p].doomedWal)
    BY <1>0, <1>10, PruneSteps
  <2>2. /\ UNCHANGED <<now, stored, ship>> /\ prune[p].step = "metadata"
        /\ described' = [described EXCEPT ![d[1]] = @ \ {d[2]}]
    BY <1>10 DEF Backups!DeleteMetadata, Backups!At
  <2> HIDE DEF d
  <2>3. \A k \in Kinds(x) : described'[k] \subseteq described[k]
    BY <2>2, <1>0 DEF BackupTypes
  <2>4. \A q \in Pruner : prune'[q].doomed \subseteq prune[q].doomed
    BY <2>1 DEF PruneTurns
  <2>5. \A j \in Kinds(x) : ShipHolds(x, j)'
    BY <2>2, <2>3, <2>4, <1>0 DEF CommandsHold, ShipHolds
  <2>6. \A q \in Pruner : PruneHolds(x, q)'
    <3>1. PruneHolds(x, p)'
      BY <2>1, <2>2, <1>0 DEF PruneTurns, CommandsHold, PruneHolds
    <3> QED
      BY <3>1, <2>1, <2>2, <1>0 DEF PruneTurns, CommandsHold, PruneHolds
  <2> QED
    BY <2>2, <2>3, <2>5, <2>6, <1>0 DEF CommandsHold
<1>11. ASSUME NEW p \in Pruner, Backups(x)!PruneEnds(p) PROVE CommandsHold(x)'
  <2>1. PruneTurns(x, p, "idle", 0, {}, {}, {})
    BY <1>0, <1>11, PruneSteps
  <2>2. UNCHANGED <<now, stored, described, ship>>
    BY <1>11 DEF Backups!PruneEnds, Backups!files
  <2> QED
    BY <2>1, <2>2, <1>0 DEF PruneTurns, CommandsHold, ShipHolds, PruneHolds
<1>12. CASE Backups(x)!Tick
  <2>1. now' = now + 1 /\ UNCHANGED <<stored, described, ship, prune>>
    BY <1>12 DEF Backups!Tick, Backups!files
  <2>2. /\ \A k \in Kinds(x) : ship[k].step # "idle" => now < ship[k].at + JobDays
        /\ \A p \in Pruner : prune[p].step # "idle" => now < prune[p].at + JobDays
    BY <1>12 DEF Backups!Tick, Backups!Running, Backups!At, Kinds
  <2>3. \A k \in Kinds(x) : ShipHolds(x, k)'
    BY <2>1, <2>2, <1>0, <1>0a DEF CommandsHold, ShipHolds
  <2>4. \A p \in Pruner : PruneHolds(x, p)'
    BY <2>1, <2>2, <1>0, <1>0a DEF CommandsHold, PruneHolds, Backups!Time
  <2>5. \A k \in Kinds(x) : \A t \in described[k] : t \in Nat /\ t <= now + 1
    BY <1>0, <1>0a DEF CommandsHold, BackupTypes, Backups!Time
  <2> QED
    BY <2>1, <2>3, <2>4, <2>5 DEF CommandsHold
<1> QED
  BY <1>1, <1>2, <1>3, <1>4, <1>5, <1>6, <1>7, <1>8, <1>9, <1>10, <1>11, <1>12
  DEF Backups!Next, Kinds

\* Every step keeps segments finished before they are anywhere.
LEMMA SegmentsStayFinished ==
    ASSUME NEW x \in Stored, BackupInv(x), Backups(x)!Next
    PROVE  SegmentsAreFinished(x)'
<1> USE BackupsAssumption
<1>0. BackupTypes(x) /\ SegmentsAreFinished(x) /\ segment \in Nat
  BY DEF BackupInv, BackupTypes
<1>a. ASSUME UNCHANGED <<segment, spool, wal, walShip>>,
             \A q \in Pruner : prune'[q].doomedWal \subseteq prune[q].doomedWal
      PROVE  SegmentsAreFinished(x)'
  BY <1>a, <1>0 DEF SegmentsAreFinished
<1>1. ASSUME NEW k \in Kinds(x), \/ Backups(x)!Take(k) \/ Backups(x)!Upload(k)
                                \/ Backups(x)!Describe(k) \/ Backups(x)!ShipFails(k)
      PROVE  SegmentsAreFinished(x)'
  BY <1>1, <1>a DEF Backups!Take, Backups!Upload, Backups!Describe, Backups!ShipFails, Backups!files
<1>2. CASE Backups(x)!SwitchSegment
  <2>1. /\ segment' = segment + 1 /\ spool' = spool \cup {segment}
        /\ UNCHANGED <<wal, walShip, prune>>
    BY <1>2 DEF Backups!SwitchSegment
  <2>2. \A s \in Backups(x)!Segment : s \in Nat
    BY DEF Backups!Segment
  <2>3. /\ spool \subseteq Backups(x)!Segment /\ walShip.todo \subseteq Backups(x)!Segment
        /\ \A p \in Pruner : prune[p].doomedWal \subseteq Backups(x)!Segment
    BY <1>0 DEF BackupTypes, SpoolRun, PruneRun
  <2>4. \A s \in Backups(x)!Segment : s < segment => s < segment + 1
    BY <2>2, <1>0
  <2> QED
    BY <2>1, <2>3, <2>4, <1>0 DEF SegmentsAreFinished
<1>3. CASE Backups(x)!ReadSpool
  <2>1. walShip'.todo = spool
    BY <1>3 DEF Backups!ReadSpool
  <2> QED
    BY <2>1, <1>0, <1>3 DEF SegmentsAreFinished, Backups!ReadSpool, Backups!files
<1>4. CASE Backups(x)!StoreSegment
  <2>1. walShip.todo \in SUBSET Backups(x)!Segment /\ walShip.todo # {}
    BY <1>0, <1>4 DEF Backups!StoreSegment, BackupTypes, SpoolRun
  <2>2. Backups(x)!Min(walShip.todo) < segment
    BY <2>1, <1>0, SegmentMin DEF SegmentsAreFinished
  <2>3. walShip'.todo = walShip.todo
    BY <1>0, <1>4 DEF Backups!StoreSegment, BackupTypes, SpoolRun
  <2>4. \A s \in Backups(x)!Segment : wal'[s] # wal[s] => s = Backups(x)!Min(walShip.todo)
    BY <1>0, <1>4 DEF Backups!StoreSegment, BackupTypes
  <2>5. UNCHANGED <<segment, spool, prune>>
    BY <1>4 DEF Backups!StoreSegment
  <2> QED
    BY <2>2, <2>3, <2>4, <2>5, <1>0 DEF SegmentsAreFinished
<1>5. CASE Backups(x)!RemoveSegment
  <2> DEFINE rest == walShip.todo \ {Backups(x)!Min(walShip.todo)}
             moved == [walShip EXCEPT !.step = "next"]
  <2>1. walShip' = [moved EXCEPT !.todo = rest]
    BY <1>5 DEF Backups!RemoveSegment
  <2>2. moved \in SpoolRun(x) /\ rest \subseteq walShip.todo
    BY <1>0 DEF BackupTypes, SpoolRun
  <2> HIDE DEF moved, rest
  <2>3. walShip'.todo \subseteq walShip.todo
    BY <2>1, <2>2 DEF SpoolRun
  <2>4. spool' \subseteq spool /\ UNCHANGED <<segment, wal, prune>>
    BY <1>5 DEF Backups!RemoveSegment
  <2> QED
    BY <2>3, <2>4, <1>0 DEF SegmentsAreFinished
<1>6. CASE Backups(x)!WalShipEnds
  <2>1. walShip'.todo = {}
    BY <1>6 DEF Backups!WalShipEnds
  <2> QED
    BY <2>1, <1>0, <1>6 DEF SegmentsAreFinished, Backups!WalShipEnds, Backups!files
<1>7. ASSUME NEW p \in Pruner, \/ Backups(x)!ReadCatalog(p) \/ Backups(x)!DeleteArtifact(p)
                              \/ Backups(x)!DeleteMetadata(p) \/ Backups(x)!PruneEnds(p)
      PROVE  SegmentsAreFinished(x)'
  <2>1. \A q \in Pruner : prune'[q].doomedWal \subseteq prune[q].doomedWal
    BY <1>0, <1>7, PruneSteps DEF PruneTurns
  <2> QED
    BY <2>1, <1>7, <1>a DEF Backups!ReadCatalog, Backups!DeleteArtifact, Backups!DeleteMetadata,
       Backups!PruneEnds, Backups!files
<1>8. ASSUME NEW p \in Pruner, Backups(x)!ListWal(p) PROVE SegmentsAreFinished(x)'
  <2>1. /\ \A s \in prune'[p].doomedWal : s \in Backups(x)!Segment /\ wal[s] # None
        /\ \A q \in Pruner : q # p => prune'[q] = prune[q]
    BY <1>0, <1>8, PruneSteps DEF PruneTurns
  <2>2. UNCHANGED <<segment, spool, wal, walShip>>
    BY <1>8 DEF Backups!ListWal, Backups!files
  <2> QED
    BY <2>1, <2>2, <1>0 DEF SegmentsAreFinished
<1>9. ASSUME NEW p \in Pruner, Backups(x)!DeleteSegment(p) PROVE SegmentsAreFinished(x)'
  <2>1. \A q \in Pruner : prune'[q].doomedWal \subseteq prune[q].doomedWal
    BY <1>0, <1>9, PruneSteps DEF PruneTurns
  <2>2. \A s \in Backups(x)!Segment : wal'[s] \in {None, wal[s]}
    BY <1>0, <1>9 DEF Backups!DeleteSegment, BackupTypes
  <2> QED
    BY <2>1, <2>2, <1>9, <1>0 DEF SegmentsAreFinished, Backups!DeleteSegment
<1>10. CASE Backups(x)!Tick
  BY <1>10, <1>a DEF Backups!Tick, Backups!files
<1> QED
  BY <1>1, <1>2, <1>3, <1>4, <1>5, <1>6, <1>7, <1>8, <1>9, <1>10
  DEF Backups!Next, Kinds

\* Every step keeps the WAL that a base backup needs.
LEMMA WalStaysKept ==
    ASSUME NEW x \in Stored, BackupInv(x), Backups(x)!Next
    PROVE  WalIsKept(x)'
<1> USE BackupsAssumption
<1>0. BackupTypes(x) /\ CommandsHold(x) /\ SegmentsAreFinished(x) /\ WalIsKept(x)
  BY DEF BackupInv
<1>0a. /\ now \in Nat /\ segment \in Nat /\ first \in [Backups(x)!Time -> Nat]
       /\ \A t \in Backups(x)!Time : t \in Nat
       /\ \A s \in Backups(x)!Segment : s \in Nat /\ wal[s] \in Nat \cup {None}
       /\ \A p \in Pruner : prune[p].at \in Nat
  BY <1>0 DEF BackupTypes, PruneRun, Backups!Time, Backups!Segment
<1>0b. \A t \in Backups(x)!Time : Needed(x, t) => t <= now
  BY <1>0 DEF Needed, CommandsHold, ShipHolds
\* No backup is newly needed, and the prunes know as much as before.
<1>a. ASSUME UNCHANGED <<segment, spool, wal>>,
             \A t \in Backups(x)!Time : Needed(x, t)' =>
                /\ Needed(x, t) /\ first'[t] = first[t]
                /\ \A q \in Pruner : KnownTo(q, t) => KnownTo(q, t)',
             \A q \in Pruner : prune'[q].doomedWal \subseteq prune[q].doomedWal
      PROVE  WalIsKept(x)'
  <2> SUFFICES ASSUME NEW t \in Backups(x)!Time, Needed(x, t)'
               PROVE  FollowedBy(x, t)' /\ \A q \in Pruner : KnownTo(q, t)'
    BY DEF WalIsKept
  <2>1. Needed(x, t) /\ first'[t] = first[t] /\ \A q \in Pruner : KnownTo(q, t) => KnownTo(q, t)'
    BY <1>a
  <2>2. FollowedBy(x, t) /\ \A q \in Pruner : KnownTo(q, t)
    BY <2>1, <1>0 DEF WalIsKept
  <2>3. FollowedBy(x, t)'
    BY <2>1, <2>2, <1>a DEF FollowedBy
  <2> QED
    BY <2>1, <2>2, <2>3
<1>b. ASSUME UNCHANGED prune PROVE \A q \in Pruner : \A t : KnownTo(q, t) <=> KnownTo(q, t)'
  BY <1>b DEF KnownTo
<1>c. ASSUME UNCHANGED <<described, ship>>
      PROVE  \A t : Needed(x, t) <=> Needed(x, t)'
  BY <1>c DEF Needed
<1>1. ASSUME NEW k \in Kinds(x), Backups(x)!Take(k) PROVE WalIsKept(x)'
  <2>1. ShipTurns(x, k, "taken", now)
    BY <1>0, <1>1, ShipSteps
  <2>2. /\ UNCHANGED <<now, segment, spool, wal, stored, described, prune>>
        /\ ship[k].step = "idle" /\ now \notin described[k]
        /\ first' = IF k = "base" THEN [first EXCEPT ![now] = segment] ELSE first
    BY <1>1 DEF Backups!Take, Backups!files
  <2> SUFFICES ASSUME NEW t \in Backups(x)!Time, Needed(x, t)'
               PROVE  FollowedBy(x, t)' /\ \A q \in Pruner : KnownTo(q, t)'
    BY DEF WalIsKept
  <2>3. CASE k = "base" /\ t = now
    <3>1. first'[t] = segment
      BY <2>2, <2>3, <1>0a
    <3>2. FollowedBy(x, t)'
      <4>1. \A s \in Backups(x)!Segment : segment <= s => ~ (s < segment)
        BY <1>0a
      <4> QED
        BY <4>1, <3>1, <2>2, <1>0 DEF FollowedBy, SegmentsAreFinished
    <3>3. \A q \in Pruner : KnownTo(q, t)'
      <4>1. \A q \in Pruner : prune[q].step # "idle" => prune[q].at <= t + JobDays
        BY <2>3, <1>0, <1>0a DEF CommandsHold, PruneHolds
      <4> QED
        BY <4>1, <2>2 DEF KnownTo
    <3> QED
      BY <3>2, <3>3
  <2>4. CASE ~ (k = "base" /\ t = now)
    <3>1. Needed(x, t) /\ first'[t] = first[t]
      <4>1. first'[t] = first[t]
        BY <2>2, <2>4, <1>0a
      <4>2. Needed(x, t)
        BY <2>1, <2>2, <2>4 DEF Needed, ShipTurns
      <4> QED
        BY <4>1, <4>2
    <3>2. FollowedBy(x, t) /\ \A q \in Pruner : KnownTo(q, t)
      BY <3>1, <1>0 DEF WalIsKept
    <3>3. FollowedBy(x, t)'
      BY <3>1, <3>2, <2>2 DEF FollowedBy
    <3> QED
      BY <3>2, <3>3, <2>2, <1>b
  <2> QED
    BY <2>3, <2>4
<1>2. ASSUME NEW k \in Kinds(x), Backups(x)!Upload(k) PROVE WalIsKept(x)'
  <2>1. ShipTurns(x, k, "stored", ship[k].at)
    BY <1>0, <1>2, ShipSteps
  <2>2. UNCHANGED <<segment, spool, wal, described, first, prune>> /\ ship[k].step = "taken"
    BY <1>2 DEF Backups!Upload
  <2>3. \A t \in Backups(x)!Time : Needed(x, t)' => Needed(x, t)
    BY <2>1, <2>2 DEF ShipTurns, Needed
  <2> QED
    BY <2>2, <2>3, <1>a, <1>b
<1>3. ASSUME NEW k \in Kinds(x), Backups(x)!Describe(k) PROVE WalIsKept(x)'
  <2>1. ShipTurns(x, k, "idle", 0)
    BY <1>0, <1>3, ShipSteps
  <2>2. /\ UNCHANGED <<segment, spool, wal, first, prune>> /\ ship[k].step = "stored"
        /\ described' = [described EXCEPT ![k] = @ \cup {ship[k].at}]
    BY <1>3 DEF Backups!Describe
  <2>3. \A j \in Kinds(x) : \A t \in described'[j] : t \in described[j] \/ (j = k /\ t = ship[k].at)
    BY <2>2, <1>0 DEF BackupTypes
  <2>4. \A t \in Backups(x)!Time : Needed(x, t)' => Needed(x, t)
    BY <2>1, <2>2, <2>3 DEF ShipTurns, Needed
  <2> QED
    BY <2>2, <2>4, <1>a, <1>b
<1>4. ASSUME NEW k \in Kinds(x), Backups(x)!ShipFails(k) PROVE WalIsKept(x)'
  <2>1. ShipTurns(x, k, "idle", 0)
    BY <1>0, <1>4, ShipSteps
  <2>2. /\ UNCHANGED <<segment, spool, wal, described, prune>> /\ ship[k].step # "idle"
        /\ first' = IF k = "base" /\ ship[k].step = "taken"
                    THEN [first EXCEPT ![ship[k].at] = 0] ELSE first
    BY <1>4 DEF Backups!ShipFails, Backups!files
  <2>3. \A t \in Backups(x)!Time : Needed(x, t)' => Needed(x, t)
    BY <2>1, <2>2 DEF ShipTurns, Needed
  <2>4. \A t \in Backups(x)!Time : Needed(x, t)' => first'[t] = first[t]
    <3> SUFFICES ASSUME NEW t \in Backups(x)!Time, Needed(x, t)', k = "base", ship[k].step = "taken"
                 PROVE  [first EXCEPT ![ship[k].at] = 0][t] = first[t]
      BY <2>2
    <3>1. t \in described["base"]
      BY <2>1, <2>2 DEF ShipTurns, Needed
    <3>2. ship["base"].at \notin described["base"]
      BY <1>0 DEF CommandsHold, ShipHolds
    <3> QED
      BY <3>1, <3>2, <1>0a
  <2> QED
    BY <2>2, <2>3, <2>4, <1>a, <1>b
<1>5. CASE Backups(x)!SwitchSegment
  <2>1. /\ segment' = segment + 1 /\ spool' = spool \cup {segment}
        /\ UNCHANGED <<wal, described, first, ship, prune>>
    BY <1>5 DEF Backups!SwitchSegment
  <2> SUFFICES ASSUME NEW t \in Backups(x)!Time, Needed(x, t)'
               PROVE  FollowedBy(x, t)' /\ \A q \in Pruner : KnownTo(q, t)'
    BY DEF WalIsKept
  <2>2. FollowedBy(x, t) /\ \A q \in Pruner : KnownTo(q, t)
    BY <2>1, <1>0, <1>c DEF WalIsKept
  <2>3. \A s \in Backups(x)!Segment : s < segment + 1 => s < segment \/ s = segment
    BY <1>0a
  <2>4. FollowedBy(x, t)'
    BY <2>1, <2>2, <2>3 DEF FollowedBy
  <2> QED
    BY <2>1, <2>2, <2>4, <1>b
<1>6. CASE Backups(x)!ReadSpool \/ Backups(x)!WalShipEnds \/ Backups(x)!Tick
  <2>1. UNCHANGED <<segment, spool, wal, described, first, ship, prune>>
    BY <1>6 DEF Backups!ReadSpool, Backups!WalShipEnds, Backups!Tick, Backups!files
  <2> QED
    BY <2>1, <1>a, <1>b, <1>c
<1>7. CASE Backups(x)!StoreSegment
  <2> DEFINE m == Backups(x)!Min(walShip.todo)
  <2>1. /\ wal' = [wal EXCEPT ![m] = now]
        /\ UNCHANGED <<segment, spool, described, first, ship, prune>>
    BY <1>7 DEF Backups!StoreSegment
  <2> HIDE DEF m
  <2> SUFFICES ASSUME NEW t \in Backups(x)!Time, Needed(x, t)'
               PROVE  FollowedBy(x, t)' /\ \A q \in Pruner : KnownTo(q, t)'
    BY DEF WalIsKept
  <2>2. t <= now /\ FollowedBy(x, t) /\ \A q \in Pruner : KnownTo(q, t)
    BY <2>1, <1>0, <1>0b, <1>c DEF WalIsKept
  <2>3. \A s \in Backups(x)!Segment : wal'[s] \in {now, wal[s]}
    BY <2>1, <1>0 DEF BackupTypes
  <2>4. now # None
    BY <1>0a, WalAssumption
  <2>5. FollowedBy(x, t)'
    BY <2>1, <2>2, <2>3, <2>4 DEF FollowedBy
  <2> QED
    BY <2>1, <2>2, <2>5, <1>b
<1>8. CASE Backups(x)!RemoveSegment
  <2> DEFINE m == Backups(x)!Min(walShip.todo)
  <2>1. /\ wal[m] # None /\ spool' = spool \ {m}
        /\ UNCHANGED <<segment, wal, described, first, ship, prune>>
    BY <1>8 DEF Backups!RemoveSegment
  <2> HIDE DEF m
  <2> SUFFICES ASSUME NEW t \in Backups(x)!Time, Needed(x, t)'
               PROVE  FollowedBy(x, t)' /\ \A q \in Pruner : KnownTo(q, t)'
    BY DEF WalIsKept
  <2>2. FollowedBy(x, t) /\ \A q \in Pruner : KnownTo(q, t)
    BY <2>1, <1>0, <1>c DEF WalIsKept
  <2>3. FollowedBy(x, t)'
    BY <2>1, <2>2 DEF FollowedBy
  <2> QED
    BY <2>1, <2>2, <2>3, <1>b
<1>9. ASSUME NEW p \in Pruner, Backups(x)!ReadCatalog(p) PROVE WalIsKept(x)'
  <2> DEFINE gone == Backups(x)!Expendable(Listed(x))
             left == Listed(x) \ gone
  <2>1. PruneTurns(x, p, "artifact", now, left, gone, {}) /\ left \cup gone = Listed(x) \cup gone
    BY <1>0, <1>9, PruneSteps
  <2>2. UNCHANGED <<segment, spool, wal, described, first, ship>>
    BY <1>9 DEF Backups!ReadCatalog, Backups!files
  <2> HIDE DEF gone, left
  <2>3. \A q \in Pruner : prune'[q].doomedWal \subseteq prune[q].doomedWal
    BY <2>1 DEF PruneTurns
  <2>4. ASSUME NEW t \in Backups(x)!Time, Needed(x, t), NEW q \in Pruner, KnownTo(q, t)
        PROVE  KnownTo(q, t)'
    <3>1. CASE q # p
      BY <3>1, <2>1, <2>4 DEF PruneTurns, KnownTo
    <3>2. CASE t \in described["base"]
      <4>1. <<"base", t>> \in Listed(x)
        BY <3>2, <2>4 DEF Listed, Needed
      <4>2. CASE q = p
        BY <4>1, <4>2, <2>1 DEF PruneTurns, KnownTo
      <4> QED
        BY <4>2, <3>1
    <3>3. CASE ship["base"].step # "idle" /\ ship["base"].at = t
      <4>1. now <= t + JobDays
        BY <3>3, <2>4, <1>0 DEF CommandsHold, ShipHolds, Needed
      <4>2. CASE q = p
        BY <4>1, <4>2, <2>1 DEF PruneTurns, KnownTo
      <4> QED
        BY <4>2, <3>1
    <3> QED
      BY <3>2, <3>3, <2>4 DEF Needed
  <2>5. \A t : Needed(x, t) <=> Needed(x, t)'
    BY <2>2, <1>c
  <2> QED
    BY <2>2, <2>3, <2>4, <2>5, <1>a
<1>10. ASSUME NEW p \in Pruner, Backups(x)!DeleteArtifact(p) PROVE WalIsKept(x)'
  <2>1. PruneTurns(x, p, "metadata", prune[p].at, prune[p].points, prune[p].doomed,
                   prune[p].doomedWal)
    BY <1>0, <1>10, PruneSteps
  <2>2. UNCHANGED <<segment, spool, wal, described, first, ship>> /\ prune[p].step = "artifact"
    BY <1>10 DEF Backups!DeleteArtifact, Backups!At
  <2>3. \A q \in Pruner : \A t : KnownTo(q, t) => KnownTo(q, t)'
    BY <2>1, <2>2 DEF PruneTurns, KnownTo
  <2>4. \A q \in Pruner : prune'[q].doomedWal \subseteq prune[q].doomedWal
    BY <2>1 DEF PruneTurns
  <2>5. \A t : Needed(x, t) <=> Needed(x, t)'
    BY <2>2, <1>c
  <2> QED
    BY <2>2, <2>3, <2>4, <2>5, <1>a
<1>11. ASSUME NEW p \in Pruner, Backups(x)!DeleteMetadata(p) PROVE WalIsKept(x)'
  <2> DEFINE d == Backups(x)!NextDoomed(p)
  <2>1. PruneTurns(x, p, "artifact", prune[p].at, prune[p].points, prune[p].doomed \ {d},
                   prune[p].doomedWal)
    BY <1>0, <1>11, PruneSteps
  <2>2. /\ UNCHANGED <<segment, spool, wal, ship>> /\ prune[p].step = "metadata"
        /\ described' = [described EXCEPT ![d[1]] = @ \ {d[2]}]
        /\ first' = IF d[1] = "base" THEN [first EXCEPT ![d[2]] = 0] ELSE first
    BY <1>11 DEF Backups!DeleteMetadata, Backups!At
  <2>3. prune[p].doomed # {}
    BY <2>2, <1>0 DEF CommandsHold, PruneHolds
  <2>4. PICK k \in Kinds(x), u \in Backups(x)!Time : d = <<k, u>> /\ <<k, u>> \in prune[p].doomed
    BY <1>0, <2>3, NextIsDoomed
  <2> HIDE DEF d
  <2>5. /\ described' = [described EXCEPT ![k] = @ \ {u}]
        /\ first' = IF k = "base" THEN [first EXCEPT ![u] = 0] ELSE first
    BY <2>2, <2>4
  <2>6. ASSUME NEW t \in Backups(x)!Time, Needed(x, t)'
        PROVE  Needed(x, t) /\ ~ (k = "base" /\ t = u)
    <3>1. \A j \in Kinds(x) : described'[j] = IF j = k THEN described[j] \ {u} ELSE described[j]
      BY <2>5, <1>0 DEF BackupTypes
    <3>2. ship[k].step # "idle" => ship[k].at # u
      BY <2>4, <1>0 DEF CommandsHold, ShipHolds
    <3>3. "base" \in Kinds(x) /\ ship' = ship
      BY <2>2, <2>6 DEF Needed
    <3>4. t \in described'["base"] \/ (ship["base"].step # "idle" /\ ship["base"].at = t)
      BY <2>6, <3>3 DEF Needed
    <3>5. CASE t \in described'["base"]
      <4>1. t \in described["base"] /\ ~ (k = "base" /\ t = u)
        BY <3>1, <3>3, <3>5
      <4> QED
        BY <4>1, <3>3 DEF Needed
    <3>6. CASE ship["base"].step # "idle" /\ ship["base"].at = t
      BY <3>2, <3>3, <3>6 DEF Needed
    <3> QED
      BY <3>4, <3>5, <3>6
  <2>7. ASSUME NEW t \in Backups(x)!Time, Needed(x, t)' PROVE first'[t] = first[t]
    BY <2>5, <2>6, <2>7, <1>0a
  <2>8. ASSUME NEW t \in Backups(x)!Time, Needed(x, t)', NEW q \in Pruner, KnownTo(q, t)
        PROVE  KnownTo(q, t)'
    <3>1. <<"base", t>> # d
      BY <2>4, <2>6, <2>8
    <3> QED
      BY <3>1, <2>1, <2>2, <2>8 DEF PruneTurns, KnownTo
  <2>9. \A q \in Pruner : prune'[q].doomedWal \subseteq prune[q].doomedWal
    BY <2>1 DEF PruneTurns
  <2> QED
    BY <2>2, <2>6, <2>7, <2>8, <2>9, <1>a
<1>12. ASSUME NEW p \in Pruner, Backups(x)!ListWal(p) PROVE WalIsKept(x)'
  <2> DEFINE old == {s \in Backups(x)!Segment : /\ wal[s] # None
                        /\ Backups(x)!OlderThanCutoff(wal[s], prune[p].points)}
  <2>1. PruneTurns(x, p, "wal", prune[p].at, prune[p].points, prune[p].doomed, old)
    BY <1>0, <1>12, PruneSteps
  <2>2. /\ UNCHANGED <<segment, spool, wal, described, first, ship>>
        /\ prune[p].step = "artifact" /\ prune[p].doomed = {}
    BY <1>12 DEF Backups!ListWal, Backups!files, Backups!At
  <2> SUFFICES ASSUME NEW t \in Backups(x)!Time, Needed(x, t)'
               PROVE  FollowedBy(x, t)' /\ \A q \in Pruner : KnownTo(q, t)'
    BY DEF WalIsKept
  <2>3. Needed(x, t) /\ FollowedBy(x, t) /\ \A q \in Pruner : KnownTo(q, t)
    BY <2>2, <1>0, <1>c DEF WalIsKept
  <2>4. ASSUME NEW s \in old PROVE ~ (first[t] <= s)
    <3>1. /\ s \in Backups(x)!Segment /\ wal[s] \in Nat /\ wal[s] + WalDays < now
          /\ \A b \in Backups(x)!Taken(prune[p].points, "base") : wal[s] < b
      BY <1>0a DEF Backups!OlderThanCutoff
    <3>2. wal[s] < t
      <4>1. CASE <<"base", t>> \in prune[p].points
        BY <4>1, <3>1 DEF Backups!Taken
      <4>2. CASE prune[p].at <= t + JobDays
        <5>1. now <= prune[p].at + JobDays
          BY <2>2, <1>0 DEF CommandsHold, PruneHolds
        <5> QED
          BY <5>1, <4>2, <3>1, <1>0a
      <4> QED
        BY <4>1, <4>2, <2>2, <2>3 DEF KnownTo
    <3>3. first[t] <= s => t <= wal[s]
      BY <3>1, <2>3 DEF FollowedBy
    <3> QED
      BY <3>1, <3>2, <3>3, <1>0a
  <2> HIDE DEF old
  <2>5. FollowedBy(x, t)'
    BY <2>1, <2>2, <2>3, <2>4 DEF FollowedBy, PruneTurns
  <2>6. \A q \in Pruner : KnownTo(q, t)'
    BY <2>1, <2>3 DEF KnownTo, PruneTurns
  <2> QED
    BY <2>5, <2>6
<1>13. ASSUME NEW p \in Pruner, Backups(x)!DeleteSegment(p) PROVE WalIsKept(x)'
  <2> DEFINE m == Backups(x)!Min(prune[p].doomedWal)
  <2>1. PruneTurns(x, p, prune[p].step, prune[p].at, prune[p].points, prune[p].doomed,
                   prune[p].doomedWal \ {m})
    BY <1>0, <1>13, PruneSteps
  <2>2. /\ UNCHANGED <<segment, spool, described, first, ship>>
        /\ prune[p].doomedWal # {} /\ wal' = [wal EXCEPT ![m] = None]
    BY <1>13 DEF Backups!DeleteSegment
  <2>3. m \in prune[p].doomedWal
    <3>1. prune[p].doomedWal \in SUBSET Backups(x)!Segment
      BY <1>0 DEF BackupTypes, PruneRun
    <3> QED
      BY <3>1, <2>2, SegmentMin
  <2> HIDE DEF m
  <2> SUFFICES ASSUME NEW t \in Backups(x)!Time, Needed(x, t)'
               PROVE  FollowedBy(x, t)' /\ \A q \in Pruner : KnownTo(q, t)'
    BY DEF WalIsKept
  <2>4. Needed(x, t) /\ FollowedBy(x, t) /\ \A q \in Pruner : KnownTo(q, t)
    BY <2>2, <1>0, <1>c DEF WalIsKept
  <2>5. \A s \in Backups(x)!Segment : s # m => wal'[s] = wal[s]
    BY <2>2, <1>0 DEF BackupTypes
  <2>6. ~ (first[t] <= m) \/ m \notin Backups(x)!Segment
    BY <2>3, <2>4 DEF FollowedBy
  <2>7. FollowedBy(x, t)'
    BY <2>1, <2>2, <2>4, <2>5, <2>6 DEF FollowedBy, PruneTurns
  <2>8. \A q \in Pruner : KnownTo(q, t)'
    BY <2>1, <2>4 DEF KnownTo, PruneTurns
  <2> QED
    BY <2>7, <2>8
<1>14. ASSUME NEW p \in Pruner, Backups(x)!PruneEnds(p) PROVE WalIsKept(x)'
  <2>1. PruneTurns(x, p, "idle", 0, {}, {}, {})
    BY <1>0, <1>14, PruneSteps
  <2>2. UNCHANGED <<segment, spool, wal, described, first, ship>>
    BY <1>14 DEF Backups!PruneEnds, Backups!files
  <2>3. \A q \in Pruner : \A t : KnownTo(q, t) => KnownTo(q, t)'
    BY <2>1 DEF PruneTurns, KnownTo
  <2>4. \A q \in Pruner : prune'[q].doomedWal \subseteq prune[q].doomedWal
    BY <2>1 DEF PruneTurns
  <2>5. \A t : Needed(x, t) <=> Needed(x, t)'
    BY <2>2, <1>c
  <2> QED
    BY <2>2, <2>3, <2>4, <2>5, <1>a
<1> QED
  BY <1>1, <1>2, <1>3, <1>4, <1>5, <1>6, <1>7, <1>8, <1>9, <1>10, <1>11, <1>12, <1>13, <1>14
  DEF Backups!Next, Kinds

\* The more is kept the better, and the fewer backups are at risk.
LEMMA MoreIsEnough ==
    ASSUME NEW x \in Stored, BackupTypes(x), EnoughAreKept(x), BackupTypes(x)',
           \A k \in Kinds(x), t \in Backups(x)!Time :
               /\ t \in Keeps(x, k) => t \in Keeps(x, k)'
               /\ AtRisk(k, t)' => AtRisk(k, t)
    PROVE  EnoughAreKept(x)'
<1> USE BackupsAssumption
<1> SUFFICES ASSUME NEW k \in Kinds(x), NEW t \in Backups(x)!Time, AtRisk(k, t)'
             PROVE  Cardinality(Later(Keeps(x, k)', t)) >= Backups(x)!Kept(k)
  BY DEF EnoughAreKept, Later, Backups!Kept
<1>1. Cardinality(Later(Keeps(x, k), t)) >= Backups(x)!Kept(k)
  BY DEF EnoughAreKept
<1>2. Keeps(x, k) \subseteq 0 .. MaxTimeOf.backup /\ Keeps(x, k)' \subseteq 0 .. MaxTimeOf.backup
  BY DEF Keeps, BackupTypes, Backups!Time
<1>3. Later(Keeps(x, k), t) \subseteq Later(Keeps(x, k)', t)
  BY <1>2 DEF Later, Backups!Time
<1>4. Later(Keeps(x, k)', t) \in SUBSET (0 .. MaxTimeOf.backup)
  BY <1>2 DEF Later
<1>5. /\ Cardinality(Later(Keeps(x, k), t)) <= Cardinality(Later(Keeps(x, k)', t))
      /\ Cardinality(Later(Keeps(x, k), t)) \in Nat /\ Cardinality(Later(Keeps(x, k)', t)) \in Nat
  BY <1>3, <1>4, CountMonotone
<1>6. Backups(x)!Kept(k) \in Nat
  BY DEF Backups!Kept
<1> QED
  BY <1>1, <1>5, <1>6

\* What a prune newly dooms leaves the newest, and none of them was doomed before.
LEMMA EnoughOnceListed ==
    ASSUME NEW x \in Stored, BackupInv(x), NEW p \in Pruner, Backups(x)!ReadCatalog(p)
    PROVE  EnoughAreKept(x)'
<1> USE BackupsAssumption
<1>0. BackupTypes(x) /\ EnoughAreKept(x)
  BY DEF BackupInv
<1> DEFINE gone == Backups(x)!Expendable(Listed(x))
           left == Listed(x) \ gone
<1>1. PruneTurns(x, p, "artifact", now, left, gone, {})
  BY <1>0, PruneSteps
<1>2. UNCHANGED <<stored, described>>
  BY DEF Backups!ReadCatalog, Backups!files
<1>3. \A k \in Kinds(x), t \in Backups(x)!Time : <<k, t>> \in gone =>
          t \in described[k] /\ t \notin NewestOf(Backups(x)!Kept(k), described[k])
  BY <1>0, DoomedAreOld
<1> HIDE DEF gone, left
<1> SUFFICES ASSUME NEW k \in Kinds(x), NEW t \in Backups(x)!Time, AtRisk(k, t)'
             PROVE  Cardinality(Later(Keeps(x, k)', t)) >= Backups(x)!Kept(k)
  BY DEF EnoughAreKept, Later, Backups!Kept
<1> DEFINE n == Backups(x)!Kept(k)
           D == described[k]
<1>4. /\ n \in Nat /\ MaxTimeOf.backup \in Nat /\ D \in SUBSET (0 .. MaxTimeOf.backup)
      /\ D \subseteq Backups(x)!Time /\ t \in Nat
  BY <1>0 DEF Backups!Kept, BackupTypes, Backups!Time
<1>5. Keeps(x, k) \subseteq D
  BY DEF Keeps
<1> HIDE DEF n, D
\* Whatever is at risk has enough later backups in the catalog.
<1>6. ASSUME NEW u \in Backups(x)!Time, AtRisk(k, u) PROVE Cardinality(Later(D, u)) >= n
  <2>1. Cardinality(Later(Keeps(x, k), u)) >= n
    BY <1>0, <1>6 DEF EnoughAreKept, n
  <2>2. Later(Keeps(x, k), u) \subseteq Later(D, u) /\ Later(D, u) \in SUBSET (0 .. MaxTimeOf.backup)
    BY <1>4, <1>5 DEF Later
  <2>3. /\ Cardinality(Later(Keeps(x, k), u)) <= Cardinality(Later(D, u))
        /\ Cardinality(Later(Keeps(x, k), u)) \in Nat /\ Cardinality(Later(D, u)) \in Nat
    BY <2>2, <1>4, CountMonotone
  <2> QED
    BY <2>1, <2>3, <1>4
\* So the newest are kept, before and after.
<1>7. NewestOf(n, D) \subseteq Keeps(x, k)'
  <2> SUFFICES ASSUME NEW u \in NewestOf(n, D) PROVE u \in Keeps(x, k)'
    OBVIOUS
  <2>1. u \in D /\ u \in Backups(x)!Time /\ Cardinality(Later(D, u)) < n
    BY <1>4 DEF NewestOf
  <2>2. Cardinality(Later(D, u)) \in Nat
    <3>1. Later(D, u) \in SUBSET (0 .. MaxTimeOf.backup)
      BY <1>4 DEF Later
    <3> QED
      BY <3>1, <1>4, CountMonotone
  <2>3. ~ AtRisk(k, u)
    BY <2>1, <2>2, <1>4, <1>6
  <2>4. \A q \in Pruner : <<k, u>> \notin prune[q].doomed
    BY <2>3 DEF AtRisk
  <2>5. <<k, u>> \notin gone
    BY <2>1, <1>3 DEF n, D
  <2>6. \A q \in Pruner : <<k, u>> \notin prune'[q].doomed
    BY <2>4, <2>5, <1>1 DEF PruneTurns
  <2> QED
    BY <2>1, <2>6, <1>2 DEF Keeps, D
<1>8. Cardinality(Later(D, t)) >= n
  <2>1. CASE AtRisk(k, t)
    BY <2>1, <1>6
  <2>2. CASE ~ AtRisk(k, t)
    <3>1. <<k, t>> \in gone
      BY <2>2, <1>1, <1>2 DEF AtRisk, PruneTurns
    <3>2. t \in D /\ t \notin NewestOf(n, D)
      BY <3>1, <1>3 DEF n, D
    <3>3. Cardinality(Later(D, t)) \in Nat
      <4>1. Later(D, t) \in SUBSET (0 .. MaxTimeOf.backup)
        BY <1>4 DEF Later
      <4> QED
        BY <4>1, <1>4, CountMonotone
    <3>4. ~ (Cardinality(Later(D, t)) < n)
      BY <3>2 DEF NewestOf
    <3> QED
      BY <3>3, <3>4, <1>4
  <2> QED
    BY <2>1, <2>2
<1>9. Cardinality(Later(NewestOf(n, D), t)) >= n
  BY <1>4, <1>8, NewestAreLater
<1>10. /\ Later(NewestOf(n, D), t) \subseteq Later(Keeps(x, k)', t)
       /\ Later(Keeps(x, k)', t) \in SUBSET (0 .. MaxTimeOf.backup)
  <2>1. Keeps(x, k)' \subseteq D
    BY <1>2 DEF Keeps, D
  <2> QED
    BY <2>1, <1>4, <1>7 DEF Later
<1>11. /\ Cardinality(Later(NewestOf(n, D), t)) <= Cardinality(Later(Keeps(x, k)', t))
       /\ Cardinality(Later(NewestOf(n, D), t)) \in Nat /\ Cardinality(Later(Keeps(x, k)', t)) \in Nat
  BY <1>10, <1>4, CountMonotone
<1>12. Cardinality(Later(Keeps(x, k)', t)) >= n
  BY <1>9, <1>11, <1>4
<1> QED
  BY <1>12 DEF n

\* Every step keeps enough backups after one that is at risk.
LEMMA EnoughStayKept ==
    ASSUME NEW x \in Stored, BackupInv(x), Backups(x)!Next
    PROVE  EnoughAreKept(x)'
<1> USE BackupsAssumption
<1>0. BackupTypes(x) /\ EnoughAreKept(x) /\ BackupTypes(x)' /\ CommandsHold(x)
  BY BackupTyped DEF BackupInv
<1>a. ASSUME UNCHANGED <<stored, described>>,
             \A q \in Pruner : prune'[q].doomed \subseteq prune[q].doomed
      PROVE  EnoughAreKept(x)'
  <2>1. \A k \in Kinds(x), t \in Backups(x)!Time :
            /\ t \in Keeps(x, k) => t \in Keeps(x, k)'
            /\ AtRisk(k, t)' => AtRisk(k, t)
    BY <1>a DEF Keeps, AtRisk
  <2> QED
    BY <2>1, <1>0, MoreIsEnough
<1>1. ASSUME NEW k \in Kinds(x), Backups(x)!Take(k) \/ Backups(x)!ShipFails(k)
      PROVE  EnoughAreKept(x)'
  BY <1>1, <1>a DEF Backups!Take, Backups!ShipFails, Backups!files
<1>2. ASSUME NEW k \in Kinds(x), Backups(x)!Upload(k) PROVE EnoughAreKept(x)'
  <2>1. UNCHANGED <<described, prune>>
    BY <1>2 DEF Backups!Upload
  <2>2. \A j \in Kinds(x) : stored[j] \subseteq stored'[j]
    BY <1>0, <1>2 DEF Backups!Upload, BackupTypes
  <2>3. \A j \in Kinds(x), t \in Backups(x)!Time :
            /\ t \in Keeps(x, j) => t \in Keeps(x, j)'
            /\ AtRisk(j, t)' => AtRisk(j, t)
    BY <2>1, <2>2 DEF Keeps, AtRisk
  <2> QED
    BY <2>3, <1>0, MoreIsEnough
<1>3. ASSUME NEW k \in Kinds(x), Backups(x)!Describe(k) PROVE EnoughAreKept(x)'
  <2>1. UNCHANGED <<stored, prune>> /\ ship[k].step = "stored"
    BY <1>3 DEF Backups!Describe
  <2>2. \A j \in Kinds(x) :
            described'[j] = IF j = k THEN described[j] \cup {ship[k].at} ELSE described[j]
    BY <1>0, <1>3 DEF Backups!Describe, BackupTypes
  <2>3. ship[k].at \in stored[k]
    BY <2>1, <1>0 DEF CommandsHold, ShipHolds
  <2>4. \A j \in Kinds(x), t \in Backups(x)!Time :
            /\ t \in Keeps(x, j) => t \in Keeps(x, j)'
            /\ AtRisk(j, t)' => AtRisk(j, t)
    BY <2>1, <2>2, <2>3 DEF Keeps, AtRisk
  <2> QED
    BY <2>4, <1>0, MoreIsEnough
<1>4. CASE Backups(x)!SwitchSegment \/ Backups(x)!ReadSpool \/ Backups(x)!StoreSegment
           \/ Backups(x)!RemoveSegment \/ Backups(x)!WalShipEnds \/ Backups(x)!Tick
  <2>1. UNCHANGED <<stored, described, prune>>
    BY <1>4 DEF Backups!SwitchSegment, Backups!ReadSpool, Backups!StoreSegment,
       Backups!RemoveSegment, Backups!WalShipEnds, Backups!Tick, Backups!files
  <2> QED
    BY <2>1, <1>a
<1>5. ASSUME NEW p \in Pruner, \/ Backups(x)!ListWal(p) \/ Backups(x)!DeleteSegment(p)
                              \/ Backups(x)!PruneEnds(p)
      PROVE  EnoughAreKept(x)'
  <2>1. \A q \in Pruner : prune'[q].doomed \subseteq prune[q].doomed
    BY <1>0, <1>5, PruneSteps DEF PruneTurns
  <2> QED
    BY <2>1, <1>5, <1>a DEF Backups!ListWal, Backups!DeleteSegment, Backups!PruneEnds, Backups!files
<1>6. ASSUME NEW p \in Pruner, Backups(x)!DeleteArtifact(p) PROVE EnoughAreKept(x)'
  <2>1. PruneTurns(x, p, "metadata", prune[p].at, prune[p].points, prune[p].doomed,
                   prune[p].doomedWal)
    BY <1>0, <1>6, PruneSteps
  <2>2. UNCHANGED described /\ prune[p].doomed # {}
    BY <1>6 DEF Backups!DeleteArtifact
  <2>3. PICK k \in Kinds(x), u \in Backups(x)!Time :
            Backups(x)!NextDoomed(p) = <<k, u>> /\ <<k, u>> \in prune[p].doomed
    BY <1>0, <2>2, NextIsDoomed
  <2>4. stored' = [stored EXCEPT ![k] = @ \ {u}]
    BY <1>6, <2>3 DEF Backups!DeleteArtifact
  <2>5. \A j \in Kinds(x) : stored'[j] = IF j = k THEN stored[j] \ {u} ELSE stored[j]
    BY <2>4, <1>0 DEF BackupTypes
  <2>6. \A q \in Pruner : prune'[q].doomed = prune[q].doomed
    BY <2>1 DEF PruneTurns
  <2>7. \A j \in Kinds(x), t \in Backups(x)!Time : t \in Keeps(x, j) => t \in Keeps(x, j)'
    BY <2>2, <2>6 DEF Keeps
  <2>8. \A j \in Kinds(x), t \in Backups(x)!Time : AtRisk(j, t)' => AtRisk(j, t)
    BY <2>2, <2>3, <2>5, <2>6 DEF AtRisk
  <2> QED
    BY <2>7, <2>8, <1>0, MoreIsEnough
<1>7. ASSUME NEW p \in Pruner, Backups(x)!DeleteMetadata(p) PROVE EnoughAreKept(x)'
  <2> DEFINE d == Backups(x)!NextDoomed(p)
  <2>1. PruneTurns(x, p, "artifact", prune[p].at, prune[p].points, prune[p].doomed \ {d},
                   prune[p].doomedWal)
    BY <1>0, <1>7, PruneSteps
  <2>2. /\ UNCHANGED stored /\ prune[p].step = "metadata"
        /\ described' = [described EXCEPT ![d[1]] = @ \ {d[2]}]
    BY <1>7 DEF Backups!DeleteMetadata, Backups!At
  <2>3. prune[p].doomed # {}
    BY <2>2, <1>0 DEF CommandsHold, PruneHolds
  <2>4. PICK k \in Kinds(x), u \in Backups(x)!Time : d = <<k, u>> /\ <<k, u>> \in prune[p].doomed
    BY <1>0, <2>3, NextIsDoomed
  <2> HIDE DEF d
  <2>5. \A j \in Kinds(x) : described'[j] = IF j = k THEN described[j] \ {u} ELSE described[j]
    BY <2>2, <2>4, <1>0 DEF BackupTypes
  <2>6. \A q \in Pruner : prune'[q].doomed \subseteq prune[q].doomed
    BY <2>1 DEF PruneTurns
  <2>7. \A j \in Kinds(x), t \in Backups(x)!Time : t \in Keeps(x, j) => t \in Keeps(x, j)'
    BY <2>4, <2>5, <2>6 DEF Keeps
  <2>8. \A j \in Kinds(x), t \in Backups(x)!Time : AtRisk(j, t)' => AtRisk(j, t)
    BY <2>2, <2>5, <2>6 DEF AtRisk
  <2> QED
    BY <2>7, <2>8, <1>0, MoreIsEnough
<1>8. ASSUME NEW p \in Pruner, Backups(x)!ReadCatalog(p) PROVE EnoughAreKept(x)'
  BY <1>8, EnoughOnceListed
<1> QED
  BY <1>1, <1>2, <1>3, <1>4, <1>5, <1>6, <1>7, <1>8 DEF Backups!Next, Kinds

\* Every step of backups, shipping and prunes preserves the invariant.
LEMMA BackupStep ==
    ASSUME NEW x \in Stored, BackupInv(x), [Backups(x)!Next]_(Backups(x)!vars)
    PROVE  BackupInv(x)'
<1>1. CASE Backups(x)!Next
  BY <1>1, BackupTyped, CommandsStillHold, SegmentsStayFinished, WalStaysKept, EnoughStayKept
  DEF BackupInv
<1>2. CASE UNCHANGED Backups(x)!vars
  <2>1. UNCHANGED <<now, segment, spool, wal, stored, described, first, ship, walShip, prune>>
    BY <1>2 DEF Backups!vars
  <2>2. BackupTypes(x)'
    BY <2>1 DEF BackupInv, BackupTypes
  <2>3. CommandsHold(x)'
    BY <2>1 DEF BackupInv, CommandsHold, ShipHolds, PruneHolds
  <2>4. SegmentsAreFinished(x)'
    BY <2>1 DEF BackupInv, SegmentsAreFinished
  <2>5. WalIsKept(x)'
    BY <2>1 DEF BackupInv, WalIsKept, Needed, FollowedBy, KnownTo
  <2>6. EnoughAreKept(x)'
    BY <2>1 DEF BackupInv, EnoughAreKept, AtRisk, Keeps, Later, Backups!Kept
  <2> QED
    BY <2>2, <2>3, <2>4, <2>5, <2>6 DEF BackupInv
<1> QED
  BY <1>1, <1>2

\* The invariant implies what the backups promise.
LEMMA BackupProves ==
    ASSUME NEW x \in Stored, BackupInv(x)
    PROVE  Backups(x)!ChainIsUnbroken /\ Backups(x)!NewestAreReal
<1> USE BackupsAssumption
<1>0. BackupTypes(x) /\ WalIsKept(x) /\ EnoughAreKept(x)
  BY DEF BackupInv
<1>1. Backups(x)!ChainIsUnbroken
  <2> SUFFICES ASSUME "base" \in Kinds(x), NEW t \in described["base"],
                      NEW s \in Backups(x)!Segment, first[t] <= s, s < segment
               PROVE  s \in spool \/ wal[s] # None
    BY DEF Backups!ChainIsUnbroken, Kinds
  <2>1. t \in Backups(x)!Time /\ Needed(x, t)
    BY <1>0 DEF BackupTypes, Needed
  <2> QED
    BY <2>1, <1>0 DEF WalIsKept, FollowedBy
<1>2. Backups(x)!NewestAreReal
  <2> SUFFICES ASSUME NEW k \in Kinds(x), NEW t \in NewestOf(Backups(x)!Kept(k), described[k]),
                      t \notin stored[k]
               PROVE  FALSE
    BY NewestIs DEF Backups!NewestAreReal, Kinds
  <2>1. /\ t \in described[k] /\ t \in Backups(x)!Time /\ described[k] \subseteq 0 .. MaxTimeOf.backup
        /\ Cardinality(Later(described[k], t)) < Backups(x)!Kept(k)
    BY <1>0 DEF NewestOf, BackupTypes, Backups!Time
  <2>2. Cardinality(Later(Keeps(x, k), t)) >= Backups(x)!Kept(k)
    BY <2>1, <1>0 DEF EnoughAreKept, AtRisk
  <2>3. /\ Later(Keeps(x, k), t) \subseteq Later(described[k], t)
        /\ Later(described[k], t) \in SUBSET (0 .. MaxTimeOf.backup)
    BY <2>1 DEF Later, Keeps
  <2>4. /\ Cardinality(Later(Keeps(x, k), t)) <= Cardinality(Later(described[k], t))
        /\ Cardinality(Later(Keeps(x, k), t)) \in Nat /\ Cardinality(Later(described[k], t)) \in Nat
    BY <2>3, CountMonotone
  <2>5. Backups(x)!Kept(k) \in Nat
    BY DEF Backups!Kept
  <2> QED
    BY <2>1, <2>2, <2>4, <2>5
<1> QED
  BY <1>1, <1>2

-----------------------------------------------------------------------------
(* The programs side by side *)

\* A step that changes nothing preserves the invariants.
LEMMA DeploymentStutter == DeploymentInv /\ UNCHANGED vars => DeploymentInv'
<1> SUFFICES ASSUME DeploymentInv, UNCHANGED <<running, applied, ledger, job, escaped, astray>>
             PROVE  DeploymentInv'
  BY DEF vars
<1>1. DeploymentTypes' /\ HeadHolds' /\ Deployment!SchemaCoversCode'
  BY DEF DeploymentInv, DeploymentTypes, HeadHolds, Deployment!SchemaCoversCode
<1>2. (astray = {} => \A d \in Deployer : LedgerTracks(d) /\ EscapedIsNamed(d))'
  BY DEF DeploymentInv, LedgerTracks, EscapedIsNamed, LastRun, Deployment!RolledAwayFrom
<1> QED
  BY <1>1, <1>2 DEF DeploymentInv

\* The same for the gates.
LEMMA GatesStutter == ASSUME NEW x, GatesInv(x), UNCHANGED vars PROVE GatesInv(x)'
<1>1. UNCHANGED <<runs, green, verify, files, manifest>>
  BY DEF vars
<1>2. GatesTypes(x)' /\ SuccessHappened(x)' /\ PollIsOfCommit(x)' /\ EvidenceIsProven(x)'
  BY <1>1 DEF GatesInv, GatesTypes, SuccessHappened, PollIsOfCommit, EvidenceIsProven
<1>3. Gates(x)!DeployableIsProven'
  BY <1>1 DEF GatesInv, Gates!DeployableIsProven
<1> QED
  BY <1>2, <1>3 DEF GatesInv

\* The same for set-up, drill and rehearsals.
LEMMA RunsStutter ==
    ASSUME UNCHANGED vars
    PROVE  /\ SetupInv => SetupInv'
           /\ DrillInv => DrillInv'
           /\ RehearsalInv => RehearsalInv'
           /\ \A x : ReplayInv(x) => ReplayInv(x)'
<1>1. SetupInv => SetupInv'
  BY DEF vars, SetupInv
<1>2. DrillInv => DrillInv'
  BY DEF vars, DrillInv
<1>3. RehearsalInv => RehearsalInv'
  BY DEF vars, RehearsalInv, RehearsalTypes, DocumentsAreTrue, RunIsTrue, Settled
<1>4. ASSUME NEW x, ReplayInv(x) PROVE ReplayInv(x)'
  <2>1. UNCHANGED <<run, log, segment, base, recovered, disturbed>>
    BY DEF vars
  <2>2. ReplayTypes(x)' /\ LiveInv(x)'
    BY <2>1, <1>4 DEF ReplayInv, ReplayTypes, LiveInv, Replay!Live
  <2>3. \A o \in ReplayOf[x].operators : OperatorInv(o)'
    BY <2>1, <1>4 DEF ReplayInv, OperatorInv
  <2> QED
    BY <2>2, <2>3 DEF ReplayInv
<1> QED
  BY <1>1, <1>2, <1>3, <1>4

OperationsInv ==
    /\ component = "deployment" => DeploymentInv
    /\ \A x \in Gated : component = x => GatesInv(x)
    /\ component = "wal" => WalInv
    /\ component = "wal setup" => SetupInv
    /\ component = "drill" => DrillInv
    /\ component = "rehearsal" => RehearsalInv
    /\ \A x \in Replayed : component = x => ReplayInv(x)
    /\ \A x \in Stored : component = x => BackupInv(x)

\* No component has the name of another.
LEMMA Apart ==
    /\ {"deployment", "wal", "wal setup", "drill", "rehearsal"}
          \cap (Gated \cup Replayed \cup Stored) = {}
    /\ Gated \cap Replayed = {} /\ Gated \cap Stored = {} /\ Replayed \cap Stored = {}
BY DEF Gated, Replayed, Stored

\* Every initial state satisfies the invariant of its component.
LEMMA OperationsInit == Init => OperationsInv
<1> SUFFICES ASSUME Init PROVE OperationsInv
  OBVIOUS
<1>1. component = "deployment" => DeploymentInv
  BY Apart, DeploymentInit DEF Init
<1>2. \A x \in Gated : component = x => GatesInv(x)
  BY Apart, GatesInit DEF Init
<1>3. component = "wal" => WalInv
  BY Apart, WalInit DEF Init
<1>4. component = "wal setup" => SetupInv
  BY Apart, SetupInit DEF Init
<1>5. component = "drill" => DrillInv
  BY Apart, DrillInit DEF Init
<1>6. component = "rehearsal" => RehearsalInv
  BY Apart, RehearsalInit DEF Init
<1>7. \A x \in Replayed : component = x => ReplayInv(x)
  BY Apart, ReplayInit DEF Init
<1>8. \A x \in Stored : component = x => BackupInv(x)
  BY Apart, BackupInit DEF Init
<1> QED
  BY <1>1, <1>2, <1>3, <1>4, <1>5, <1>6, <1>7, <1>8 DEF OperationsInv

\* Every step preserves the invariant of its component.
LEMMA OperationsStep == OperationsInv /\ [Next]_vars => OperationsInv'
<1> SUFFICES ASSUME OperationsInv, [Next]_vars PROVE OperationsInv'
  OBVIOUS
<1>1. CASE Next
  <2>1. component' = component
    BY <1>1 DEF Next
  <2>2. (component = "deployment" => DeploymentInv)'
    BY <1>1, <2>1, Apart, DeploymentStep DEF Next, OperationsInv
  <2>3. (\A x \in Gated : component = x => GatesInv(x))'
    BY <1>1, <2>1, Apart, GatesStep DEF Next, OperationsInv
  <2>4. (component = "wal" => WalInv)'
    BY <1>1, <2>1, Apart, WalStep DEF Next, OperationsInv
  <2>5. (component = "wal setup" => SetupInv)'
    BY <1>1, <2>1, Apart, SetupStep DEF Next, OperationsInv
  <2>6. (component = "drill" => DrillInv)'
    BY <1>1, <2>1, Apart, DrillStep DEF Next, OperationsInv
  <2>7. (component = "rehearsal" => RehearsalInv)'
    BY <1>1, <2>1, Apart, RehearsalStep DEF Next, OperationsInv
  <2>8. (\A x \in Replayed : component = x => ReplayInv(x))'
    BY <1>1, <2>1, Apart, ReplayStep DEF Next, OperationsInv
  <2>9. (\A x \in Stored : component = x => BackupInv(x))'
    BY <1>1, <2>1, Apart, BackupStep DEF Next, OperationsInv
  <2> QED
    BY <2>2, <2>3, <2>4, <2>5, <2>6, <2>7, <2>8, <2>9 DEF OperationsInv
<1>2. CASE UNCHANGED vars
  <2>1. UNCHANGED component
    BY <1>2 DEF vars
  <2>2. WalInv => WalInv'
    <3>1. UNCHANGED WalArchive!vars
      BY <1>2 DEF vars, WalArchive!vars
    <3> QED
      BY <3>1, WalStep
  <2>3. \A x \in Stored : BackupInv(x) => BackupInv(x)'
    <3>1. \A x : UNCHANGED Backups(x)!vars
      BY <1>2 DEF vars, Backups!vars
    <3> QED
      BY <3>1, BackupStep
  <2>4. (component = "deployment" => DeploymentInv)'
    BY <1>2, <2>1, DeploymentStutter DEF OperationsInv
  <2>5. (\A x \in Gated : component = x => GatesInv(x))'
    BY <1>2, <2>1, GatesStutter DEF OperationsInv
  <2>6. (component = "wal setup" => SetupInv)' /\ (component = "drill" => DrillInv)'
    BY <1>2, <2>1, RunsStutter DEF OperationsInv
  <2>7. (component = "rehearsal" => RehearsalInv)'
    BY <1>2, <2>1, RunsStutter DEF OperationsInv
  <2>8. (\A x \in Replayed : component = x => ReplayInv(x))'
    BY <1>2, <2>1, RunsStutter DEF OperationsInv
  <2>9. (component = "wal" => WalInv)' /\ (\A x \in Stored : component = x => BackupInv(x))'
    BY <2>1, <2>2, <2>3 DEF OperationsInv
  <2> QED
    BY <2>4, <2>5, <2>6, <2>7, <2>8, <2>9 DEF OperationsInv
<1> QED
  BY <1>1, <1>2

\* A release that may be deployed was proven by the required checks on its commit
\* (release-gates.mjs, release-manifest.mjs); WAL archiving reported active is
\* archiving (pg-enable-wal-archiving.sh); a drill or rehearsal that passes has restored
\* what the backup held (db-restore-drill.sh, backup-restore-rehearsal.sh), and one of
\* point-in-time recovery has stopped at its own target (backup-pitr-rehearsal.sh,
\* db-pitr-drill.sh), for any number of runs, operators, releases, points and steps
\* beside.
THEOREM ReportsTrue == Spec => []ReportsAreTrue
<1>1. OperationsInv => ReportsAreTrue
  <2> SUFFICES ASSUME OperationsInv PROVE ReportsAreTrue
    OBVIOUS
  <2>1. \A x \in Gated : component = x => Gates(x)!DeployableIsProven
    BY DEF OperationsInv, GatesInv
  <2>2. \A x \in Replayed : component = x => Replay(x)!PassProvesReplay
    BY ReplayProves DEF OperationsInv
  <2> QED
    BY <2>1, <2>2, SetupProves, DrillProves, RehearsalProves DEF OperationsInv, ReportsAreTrue
<1> QED
  BY <1>1, OperationsInit, OperationsStep, PTL DEF Spec

\* A rehearsal of point-in-time recovery leaves the live database as it found it: the
\* marker and the row it wrote are gone, and the project it deleted is back
\* (backup-pitr-rehearsal.sh), for any number of operators at once.
THEOREM LiveRestored == Spec => []LiveComesBack
<1>1. OperationsInv => LiveComesBack
  BY ReplayUndoes DEF OperationsInv, LiveComesBack
<1> QED
  BY <1>1, OperationsInit, OperationsStep, PTL DEF Spec

\* With the check of the migration head on, the schema is at least the one the running
\* API was built with, however a deployment or rollback ends (deploy.sh), for any
\* releases and migrations.
THEOREM SchemaCovers == Spec => []SchemaCoversCode
<1>1. OperationsInv => SchemaCoversCode
  BY DEF OperationsInv, DeploymentInv, SchemaCoversCode
<1> QED
  BY <1>1, OperationsInit, OperationsStep, PTL DEF Spec

\* While the ledger has kept up with what runs, no rollback returns to a release that a
\* rollback has replaced (deploy-evidence.mjs), for any releases, with one operator at
\* a time.
THEOREM RollbackAdvances == Spec => RollbackNeverReturns
<1> DEFINE Avoids == component = "deployment" => Deployment!AvoidsEscaped
<1>1. OperationsInv /\ [Next]_vars => [Avoids]_vars
  BY Apart, RollbackAvoids DEF Next, OperationsInv
<1> HIDE DEF Avoids
<1>2. Spec => [][Avoids]_vars
  BY <1>1, OperationsInit, OperationsStep, PTL DEF Spec
<1> QED
  BY <1>2 DEF RollbackNeverReturns, Avoids

\* As long as no attempt of the archiver takes for ever, a segment that PostgreSQL may
\* recycle is whole in the spool or off-host, and a healthy verdict bounds what a loss
\* of the host would lose (pg-enable-wal-archiving.sh, backup-ops.mjs), for any number
\* of segments, limits, crashes and failures.
THEOREM WalRecoverable == ASSUME ~ ArchiverHangs PROVE Spec => WalIsRecoverable
<1> DEFINE Whole  == component = "wal" => WalArchive!ArchiveIsWhole
           Judges == component = "wal" => WalArchive!JudgesRightly
<1>1. OperationsInv => Whole
  BY DEF OperationsInv, WalInv, FilesAreSafe
<1>2. OperationsInv /\ [Next]_vars => [Judges]_vars
  <2> SUFFICES ASSUME OperationsInv, Next, component = "wal" PROVE WalArchive!JudgesRightly
    OBVIOUS
  <2>1. WalInv /\ WalArchive!Next
    BY Apart DEF OperationsInv, Next
  <2> QED
    BY <2>1, WalJudges
<1> HIDE DEF Whole, Judges
<1>3. Spec => []Whole /\ [][Judges]_vars
  BY <1>1, <1>2, OperationsInit, OperationsStep, PTL DEF Spec
<1> QED
  BY <1>3 DEF WalIsRecoverable, Whole, Judges

\* Every base backup the catalog offers is followed by all its WAL, and the newest
\* recovery points are backed by their artifacts (backup-ops.mjs), for any number of
\* prunes at once, commands cut short anywhere, segments, days and windows.
THEOREM BackupsWhole == Spec => []BackupsAreWhole
<1>1. OperationsInv => BackupsAreWhole
  BY BackupProves DEF OperationsInv, BackupsAreWhole
<1> QED
  BY <1>1, OperationsInit, OperationsStep, PTL DEF Spec

=============================================================================

----------------------------- MODULE OteToolProofs -----------------------------
(***************************************************************************)
(* OteTool for any configuration sources, files, directories and number of *)
(* runs: what a run that is not killed makes of what others have left.     *)
(***************************************************************************)
EXTENDS OteTool, TLAPS

USE ToolAssumption, ConfigurationAssumption

-----------------------------------------------------------------------------
(* The configuration. *)

\* An overlay takes from the source what it names.
LEMMA OverlayValue ==
  ASSUME NEW c, NEW given
  PROVE  /\ DOMAIN Overlay(c, given) = Setting
         /\ \A s \in Setting :
               Overlay(c, given)[s] = IF s \in DOMAIN given THEN given[s] ELSE c[s]
  BY DEF Overlay

\* What the variables leave of a configuration.
LEMMA EnvironmentValue ==
  ASSUME NEW c, NEW env, NEW s \in Setting
  PROVE  ApplyEnvironment(c, env)[s] =
             IF s \in DOMAIN env /\ s \in Variable
             THEN IF s \in Switch THEN env[s] = "true" ELSE env[s]
             ELSE c[s]
<1> DEFINE given == [x \in DOMAIN env \cap Variable |-> IF x \in Switch THEN env[x] = "true" ELSE env[x]]
<1>1. ApplyEnvironment(c, env)[s] = IF s \in DOMAIN given THEN given[s] ELSE c[s]
  BY OverlayValue DEF ApplyEnvironment
<1> QED BY <1>1

\* What the command line leaves of a configuration.
LEMMA CommandLineValue ==
  ASSUME NEW c, NEW options, NEW command
  PROVE  LET parsed == ParseCommandLine(c, options, command)
         IN  /\ DOMAIN parsed = Setting
             /\ \A s \in Option : parsed[s] = IF s \in DOMAIN options THEN options[s] ELSE c[s]
             /\ parsed.deploy = ~(IF "skipDeploy" \in DOMAIN options THEN options.skipDeploy ELSE ~c.deploy)
<1> DEFINE named == [s \in DOMAIN options \cap Option |-> options[s]]
           base == Overlay(c, named)
           parsed == ParseCommandLine(c, options, command)
<1>1. DOMAIN base = Setting /\ \A s \in Setting : base[s] = IF s \in DOMAIN named THEN named[s] ELSE c[s]
  BY OverlayValue
<1>2. \A s \in Option : base[s] = IF s \in DOMAIN options THEN options[s] ELSE c[s]
  BY <1>1 DEF Option
<1> HIDE DEF named, base
<1>3. parsed = [base EXCEPT
            !.deploy = ~(IF "skipDeploy" \in DOMAIN options THEN options["skipDeploy"] ELSE ~c.deploy),
            !.deleteAtStart = IF command = "start" THEN ~(IF "skipDelete" \in DOMAIN options THEN options["skipDelete"] ELSE FALSE) ELSE @,
            !.deleteAtStop = IF command = "stop" THEN ~(IF "skipDelete" \in DOMAIN options THEN options["skipDelete"] ELSE FALSE) ELSE @]
  BY DEF parsed, ParseCommandLine, base, named
<1> HIDE DEF parsed
<1>4. DOMAIN parsed = Setting /\ \A s \in Option : parsed[s] = base[s]
  BY <1>1, <1>3 DEF Option
<1>5. parsed["deploy"] = ~(IF "skipDeploy" \in DOMAIN options THEN options["skipDeploy"] ELSE ~c.deploy)
  BY <1>1, <1>3 DEF Setting, Switch
<1> QED BY <1>2, <1>4, <1>5 DEF parsed

\* A setting with an option has the value of its strongest source.
LEMMA StatedValue ==
  ASSUME NEW i, NEW s \in Option
  PROVE  Stated(i)[s] = Strongest(s, i)
<1> DEFINE fromFiles == Overlay(ApplyEnvironment(Default, i.env), i.custom)
<1>1. s \in Setting
  BY DEF Option
<1>2. fromFiles[s] = IF s \in DOMAIN i.custom THEN i.custom[s]
                     ELSE IF s \in DOMAIN i.env /\ s \in Variable
                          THEN IF s \in Switch THEN i.env[s] = "true" ELSE i.env[s]
                          ELSE Default[s]
  <2>1. fromFiles[s] = IF s \in DOMAIN i.custom THEN i.custom[s] ELSE ApplyEnvironment(Default, i.env)[s]
    BY <1>1, OverlayValue
  <2> QED BY <1>1, <2>1, EnvironmentValue
<1> HIDE DEF fromFiles
<1>3. CASE i.underTest
  <2>1. Stated(i) = fromFiles
    BY <1>3 DEF Stated, fromFiles
  <2> QED BY <1>2, <1>3, <2>1 DEF Strongest
<1>4. CASE ~i.underTest
  <2>1. Stated(i) = ParseCommandLine(fromFiles, i.options, Command(i.args))
    BY <1>4 DEF Stated, fromFiles
  <2>2. Stated(i)[s] = IF s \in DOMAIN i.options THEN i.options[s] ELSE fromFiles[s]
    BY <2>1, CommandLineValue
  <2> QED BY <1>2, <1>4, <2>2 DEF Strongest
<1> QED BY <1>3, <1>4

\* So has the switch of the deployment, unless an option of its own is given.
LEMMA DeployValue ==
  ASSUME NEW i \in Invocation, ~i.underTest
  PROVE  Stated(i).deploy = IF "skipDeploy" \in DOMAIN i.options THEN ~i.options.skipDeploy
                                                                 ELSE Strongest("deploy", i)
<1> DEFINE fromFiles == Overlay(ApplyEnvironment(Default, i.env), i.custom)
<1>1. "deploy" \in Setting /\ "deploy" \notin Variable /\ "deploy" \notin DOMAIN i.options
  BY DEF Setting, Switch, Variable, Option
<1>2. fromFiles["deploy"] = IF "deploy" \in DOMAIN i.custom THEN i.custom["deploy"] ELSE Default["deploy"]
  <2>1. ApplyEnvironment(Default, i.env)["deploy"] = Default["deploy"]
    BY <1>1, EnvironmentValue
  <2> QED BY <1>1, <2>1, OverlayValue
<1>3. fromFiles["deploy"] \in BOOLEAN
  BY <1>2
<1>4. Strongest("deploy", i) = fromFiles["deploy"]
  BY <1>1, <1>2 DEF Strongest
<1> HIDE DEF fromFiles
<1>5. Stated(i) = ParseCommandLine(fromFiles, i.options, Command(i.args))
  BY DEF Stated, fromFiles
<1>6. Stated(i).deploy = ~(IF "skipDeploy" \in DOMAIN i.options THEN i.options.skipDeploy ELSE ~fromFiles.deploy)
  BY <1>5, CommandLineValue
<1> QED BY <1>3, <1>4, <1>6

\* What is resolved of the settings, one by one.
LEMMA ResolvedValue ==
  ASSUME NEW c, DOMAIN c = Setting
  PROVE  LET r == Resolved(c)
         IN  /\ DOMAIN r = Setting
             /\ \A s \in {"cluster", "tag", "enterprise", "directory", "template", "registryConfig", "deploy"} :
                    r[s] = c[s]
             /\ r.environment = Detected(c.environment, <<"minikube", "k3d">>)
             /\ r.engine = Detected(c.engine, <<"docker", "podman">>)
             /\ r.kubeConfig = KubeConfigPath(c.kubeConfig)
             /\ r.pullPolicy = Spelling(c.pullPolicy)
             /\ r.operatorPullPolicy = Spelling(c.operatorPullPolicy)
             /\ r.registry = RegistryHost(r.environment, c.registry)
  BY DEF Resolved, Setting, Switch, Path

\* The order of the README, for every setting of an accepted run.
LEMMA StrongestDecides ==
  ASSUME NEW i \in Invocation, ~i.underTest, run = i, cfg = Configuration(i)
  PROVE  StrongestWins
<1> DEFINE c == Stated(i)
<1>1. DOMAIN c = Setting
  BY CommandLineValue DEF Stated
<1>2. \A s \in Option : c[s] = Strongest(s, i)
  BY StatedValue
<1>3. cfg = Resolved(c)
  BY DEF Configuration
<1>4. c["deploy"] = IF "skipDeploy" \in DOMAIN i.options THEN ~i.options.skipDeploy ELSE Strongest("deploy", i)
  BY DeployValue
<1> HIDE DEF c
<1>5. /\ \A s \in {"cluster", "tag", "enterprise", "directory", "template", "registryConfig", "deploy"} :
             cfg[s] = c[s]
      /\ cfg.environment = Detected(c.environment, <<"minikube", "k3d">>)
      /\ cfg.engine = Detected(c.engine, <<"docker", "podman">>)
      /\ cfg.kubeConfig = KubeConfigPath(c.kubeConfig)
      /\ cfg.pullPolicy = Spelling(c.pullPolicy)
      /\ cfg.operatorPullPolicy = Spelling(c.operatorPullPolicy)
      /\ cfg.registry = RegistryHost(cfg.environment, c.registry)
  BY <1>1, <1>3, ResolvedValue
<1>6. {"cluster", "tag", "enterprise", "directory", "template", "registryConfig", "environment",
       "engine", "kubeConfig", "pullPolicy", "operatorPullPolicy", "registry"} \subseteq Option
  BY DEF Option, Setting, Switch, Path
<1>7. \A s \in {"cluster", "tag", "enterprise", "directory", "template", "registryConfig"} :
          cfg[s] = Strongest(s, run)
  BY <1>2, <1>5, <1>6
<1>8. cfg.deploy = IF "skipDeploy" \in DOMAIN run.options THEN ~run.options.skipDeploy ELSE Strongest("deploy", run)
  BY <1>4, <1>5
<1>9. \A s \in {"environment", "engine", "kubeConfig"} : Strongest(s, run) # "detect" => cfg[s] = Strongest(s, run)
  <2>1. \A asked, supported : asked # "detect" => Detected(asked, supported) = asked
    BY DEF Detected
  <2>2. \A asked : asked # "detect" => KubeConfigPath(asked) = asked
    BY DEF KubeConfigPath
  <2> QED BY <1>2, <1>5, <1>6, <2>1, <2>2
<1>10. \A s \in {"pullPolicy", "operatorPullPolicy"} : cfg[s] = Spelling(Strongest(s, run))
  BY <1>2, <1>5, <1>6
<1>11. cfg.environment = "k3d" => cfg.registry = Strongest("registry", run)
  BY <1>2, <1>5, <1>6 DEF RegistryHost
<1> QED BY <1>7, <1>8, <1>9, <1>10, <1>11 DEF StrongestWins

-----------------------------------------------------------------------------
(* The invariant. *)

\* An accepted run has one of the three commands.
LEMMA CommandKnown ==
  ASSUME NEW i \in Invocation, Accepted(i), ~i.underTest
  PROVE  Command(i.args) \in {"start", "stop", "deploy"}
  BY DEF Accepted, Command

\* Whole copies are contents, and neither missing nor cut short.
LEMMA WholeContents ==
  ASSUME NEW d \in Source, NEW n \in 1..MaxEdits
  PROVE  Whole(d, n) \in Contents /\ Whole(d, n) \notin {Missing, Partial}
  BY DEF Contents, Whole, Missing, Partial

\* So is a source as it is.
LEMMA CurrentContents ==
  ASSUME TypeOK, NEW f \in File, NEW d \in Source
  PROVE  Current(d, f) \in Contents /\ Current(d, f) \notin {Missing, Partial}
<1>1. source[d][f] \in 1..MaxEdits
  BY DEF TypeOK
<1> QED BY <1>1, WholeContents DEF Current

\* The source of a file is one of its homes.
LEMMA SourceOfFile ==
  ASSUME TypeOK, RunInv, Running, NEW f \in File
  PROVE  Dir(f) \in Home(f) /\ Dir(f) \in Source
<1>1. cfg.directory \in Directory
  BY DEF TypeOK, RunInv
<1> QED BY <1>1 DEF Dir, Home, Source

\* The file at hand is a file, and none that has been passed.
LEMMA FileAtHand ==
  ASSUME TypeOK, RunInv, pc \in Copying
  PROVE  /\ Files[at] \in File /\ at \in 1..Len(Files)
         /\ \A i \in 1..(at - 1) : Files[i] \in File /\ Files[i] # Files[at]
         /\ Files[at] \notin made
<1>1. at \in 1..Len(Files)
  BY DEF TypeOK, RunInv
<1>2. \A i \in 1..(at - 1) : Files[i] \in File /\ Files[i] # Files[at]
  BY <1>1 DEF File
<1>3. Files[at] \notin made
  BY <1>2 DEF RunInv
<1> QED BY <1>1, <1>2, <1>3 DEF File

\* Copies that nobody touches, of sources that nobody touches, are kept as they are.
LEMMA SameKept ==
  ASSUME KeptInv, UNCHANGED <<source, copies, newer, origin, hidden>>
  PROVE  KeptInv'
  BY DEF KeptInv, Current

\* So are the files passed; what is in hand matters while one is copied.
LEMMA SameCopies ==
  ASSUME CopyInv, Running' => Running, pc' \notin Copying \ {"copy"},
         UNCHANGED <<run, cfg, at, seen, made, source, copies, newer, origin, hidden>>
  PROVE  CopyInv'
<1>1. KeptInv'
  BY SameKept DEF CopyInv
<1>2. HeldInv'
  BY DEF HeldInv, Copying
<1>3. Deploys' = Deploys /\ \A f : Excused(f)' = Excused(f) /\ Versions(f)' = Versions(f)
  BY DEF Deploys, cmd, Excused, Versions, Dir
<1>4. PassedInv'
  BY <1>3 DEF CopyInv, PassedInv
<1> QED BY <1>1, <1>2, <1>4 DEF CopyInv

\* With no file passed and none in hand there is nothing to say of a run.
LEMMA NothingCopied ==
  ASSUME KeptInv', at' = 1 \/ ~Running', pc' \notin Copying \ {"copy"}
  PROVE  CopyInv'
<1>1. HeldInv'
  BY DEF HeldInv, Copying
<1>2. PassedInv'
  BY DEF PassedInv
<1> QED BY <1>1, <1>2 DEF CopyInv

LEMMA InitTool == Init => ToolInv
<1> SUFFICES ASSUME Init PROVE ToolInv
  OBVIOUS
<1>1. NoRun \in Invocation
  BY DEF NoRun
<1>2. TypeOK
  <2>1. /\ source \in [Source -> [File -> 1..MaxEdits]]
        /\ copies \in [File -> Contents] /\ newer \in [File -> SUBSET Source]
        /\ origin \in [File -> Source \cup {"none"}] /\ hidden \in [File -> SUBSET Source]
        /\ held \in Contents /\ seen \in [File -> 0..MaxEdits] /\ made \in SUBSET File
    BY DEF Init, Contents, Unseen
  <2>2. /\ DOMAIN clusters = Environments
        /\ \A e \in Environments : clusters[e] = Absent
    BY DEF Init
  <2>3. \A e \in Environments : /\ DOMAIN clusters[e] = {"state", "deployed"}
                                /\ clusters[e].state \in {"absent", "running", "stopped"}
    BY <2>2 DEF Absent
  <2>4. /\ run \in Invocation /\ DOMAIN cfg = Setting
        /\ at \in 1..(Len(Files) + 1) /\ trials \in 0..MaxTrials /\ runs \in 0..MaxRuns
    BY <1>1 DEF Init
  <2> QED BY <2>1, <2>2, <2>3, <2>4 DEF Init, TypeOK
<1>3. RunInv
  BY DEF Init, RunInv, Running, Starting, Stopping, Copying, Deploying, Deploys
<1>4. CopyInv
  BY DEF Init, CopyInv, KeptInv, HeldInv, PassedInv, Running, Copying
<1>5. DeployInv /\ ClusterInv
  BY DEF Init, DeployInv, ClusterInv, Running, Copying, Deploying, Deploys
<1> QED BY <1>2, <1>3, <1>4, <1>5 DEF ToolInv

\* A run begins with what it finds, taking none of it for its own.
LEMMA InvokeTool ==
  ASSUME ToolInv, NEW i \in Invocation, Invoke(i)
  PROVE  ToolInv'
<1>1. CASE /\ Accepted(i) /\ ~i.underTest
           /\ cfg' = Configuration(i)
           /\ pc' = FirstCall(Command(i.args), cfg')
  <2>1. run' = i /\ at' = at /\ trials' = trials /\ at = 1 /\ trials = MaxTrials
    BY DEF Invoke, ToolInv, RunInv
  <2>2. cmd' \in {"start", "stop", "deploy"} /\ cmd' = Command(i.args)
    BY <1>1, <2>1, CommandKnown DEF cmd
  <2>3. DOMAIN cfg' = Setting
    BY <1>1, CommandLineValue, ResolvedValue DEF Configuration, Stated
  <2>4. \/ pc' = "copy" /\ cfg'.deploy /\ cmd' \in {"start", "deploy"} /\ cmd' # "start"
        \/ pc' = "done" /\ ~cfg'.deploy /\ cmd' = "deploy"
        \/ pc' = "failed"
        \/ pc' = "stopCluster" /\ cmd' = "stop" /\ cfg'.environment \in Environments
        \/ pc' = "delete" /\ cmd' = "start" /\ cfg'.environment \in Environments
        \/ pc' = "startCluster" /\ cmd' = "start" /\ cfg'.environment \in Environments /\ ~cfg'.deleteAtStart
    BY <1>1, <2>2 DEF FirstCall, DeployFirst, Supported
  <2>5. TypeOK'
    BY <2>1, <2>3, <2>4 DEF Invoke, ToolInv, TypeOK, copy_vars, file_vars, world_vars
  <2>6. RunInv'
    <3>1. made' = made /\ pc = "idle"
      BY DEF Invoke, copy_vars
    <3> QED
      BY <1>1, <2>1, <2>4, <3>1 DEF RunInv, Running, Starting, Stopping, Copying, Deploying, Deploys, ToolInv, TypeOK
  <2>7. CopyInv'
    <3>1. KeptInv'
      BY SameKept DEF Invoke, ToolInv, CopyInv, file_vars
    <3> QED BY <2>1, <2>4, <3>1, NothingCopied DEF Copying
  <2>8. DeployInv' /\ ClusterInv'
    BY <2>2, <2>4 DEF DeployInv, ClusterInv, Deploys, Copying, Deploying
  <2> QED BY <2>5, <2>6, <2>7, <2>8 DEF ToolInv
<1>2. CASE pc' = "failed" /\ UNCHANGED cfg
  <2>1. run' = i /\ at' = at /\ trials' = trials
    BY DEF Invoke
  <2>2. TypeOK'
    BY <1>2, <2>1 DEF Invoke, ToolInv, TypeOK, copy_vars, file_vars, world_vars
  <2>3. RunInv'
    BY <1>2, <2>1 DEF Invoke, copy_vars, ToolInv, RunInv, Running, Starting, Stopping, Copying, Deploying, Deploys
  <2>4. CopyInv'
    <3>1. KeptInv'
      BY SameKept DEF Invoke, ToolInv, CopyInv, file_vars
    <3> QED BY <1>2, <3>1, NothingCopied DEF Running, Copying
  <2>5. DeployInv' /\ ClusterInv'
    BY <1>2 DEF DeployInv, ClusterInv, Copying, Deploying
  <2> QED BY <2>2, <2>3, <2>4, <2>5 DEF ToolInv
<1> QED BY <1>1, <1>2 DEF Invoke

\* A run ends, by itself or by a kill.
LEMMA OverTool ==
  ASSUME ToolInv, Over
  PROVE  ToolInv'
<1>1. NoRun \in Invocation
  BY DEF NoRun
<1>2. TypeOK'
  BY <1>1 DEF ToolInv, TypeOK, Over, Unseen, Contents, file_vars, world_vars
<1>3. RunInv'
  BY DEF Over, RunInv, Running, Starting, Stopping, Copying, Deploying, Deploys
<1>4. CopyInv'
  <2>1. KeptInv'
    BY SameKept DEF Over, ToolInv, CopyInv, file_vars
  <2> QED BY <2>1, NothingCopied DEF Over, Copying
<1>5. DeployInv' /\ ClusterInv'
  BY DEF Over, DeployInv, ClusterInv, Copying, Deploying
<1> QED BY <1>2, <1>3, <1>4, <1>5 DEF ToolInv

\* What a step keeps of the configuration keeps the command and the files.
LEMMA SameRun ==
  ASSUME UNCHANGED <<run, cfg>>
  PROVE  /\ cmd' = cmd /\ Deploys' = Deploys /\ Rendered' = Rendered
         /\ \A f : Dir(f)' = Dir(f)
  BY DEF cmd, Deploys, Dir, Rendered

\* A command fails, and the run with it.
LEMMA FailTool ==
  ASSUME ToolInv, Fail, UNCHANGED <<source, copies, newer, origin, hidden, world_vars>>
  PROVE  ToolInv'
<1>1. TypeOK'
  BY DEF ToolInv, TypeOK, Fail, Goto, copy_vars, world_vars
<1>2. RunInv'
  BY DEF Fail, Goto, copy_vars, ToolInv, RunInv, Running, Starting, Stopping, Copying, Deploying, Deploys
<1>3. CopyInv'
  BY SameCopies DEF Fail, Goto, copy_vars, ToolInv, Running, Copying
<1>4. DeployInv' /\ ClusterInv'
  BY DEF Fail, Goto, DeployInv, ClusterInv, Copying, Deploying
<1> QED BY <1>1, <1>2, <1>3, <1>4 DEF ToolInv

\* A write fails: the copy is cut short from now on, and younger than its source.
LEMMA WriteFailsTool ==
  ASSUME ToolInv, WriteFails
  PROVE  ToolInv'
<1> DEFINE f == Files[at]
<1>1. /\ pc = "write" /\ pc' = "failed"
      /\ newer' = [newer EXCEPT ![f] = {}]
      /\ UNCHANGED <<run, cfg, runs, at, trials, held, seen, made, source, copies, origin, hidden, clusters, network, context>>
  BY DEF WriteFails, Fail, Goto, copy_vars, world_vars
<1>2. copies[f] = Partial
  BY <1>1 DEF ToolInv, CopyInv, HeldInv
<1>3. TypeOK'
  BY <1>1 DEF ToolInv, TypeOK
<1>4. RunInv'
  BY <1>1 DEF ToolInv, RunInv, Running, Starting, Stopping, Copying, Deploying, Deploys
<1>5. KeptInv'
  BY <1>1, <1>2 DEF ToolInv, TypeOK, CopyInv, KeptInv, Current
<1>6. CopyInv'
  BY <1>1, <1>5, NothingCopied DEF Running, Copying
<1>7. DeployInv' /\ ClusterInv'
  BY <1>1 DEF DeployInv, ClusterInv, Copying, Deploying
<1> QED BY <1>3, <1>4, <1>6, <1>7 DEF ToolInv

\* Commands that end the run may leave something in the cluster.
LEMMA ApplyFailsTool ==
  ASSUME ToolInv, ApplyFails
  PROVE  ToolInv'
<1>1. TypeOK'
  BY DEF ToolInv, TypeOK, ApplyFails, Fail, Goto, Reachable, Deployed, copy_vars, file_vars
<1>2. RunInv'
  BY DEF ApplyFails, Fail, Goto, copy_vars, ToolInv, RunInv, Running, Starting, Stopping, Copying, Deploying, Deploys
<1>3. CopyInv'
  BY SameCopies DEF ApplyFails, Fail, Goto, copy_vars, file_vars, ToolInv, Running, Copying
<1>4. DeployInv' /\ ClusterInv'
  BY DEF ApplyFails, Fail, Goto, DeployInv, ClusterInv, Copying, Deploying
<1> QED BY <1>1, <1>2, <1>3, <1>4 DEF ToolInv

\* Where DeployFirst leads.
LEMMA DeployFirstIs ==
  ASSUME NEW c
  PROVE  \/ DeployFirst(c) = "copy" /\ c.deploy
         \/ DeployFirst(c) = "done" /\ ~c.deploy
  BY DEF DeployFirst

\* The steps on the clusters.
LEMMA DeleteClusterTool ==
  ASSUME ToolInv, DeleteCluster("delete", "startCluster") \/ DeleteCluster("deleteAtStop", "done")
  PROVE  ToolInv'
<1>1. /\ UNCHANGED <<run, cfg, runs, at, trials, held, seen, made, source, file_vars>>
      /\ cfg.environment \in Environments
      /\ clusters' = [clusters EXCEPT ![cfg.environment] = Absent]
      /\ \/ pc = "delete" /\ pc' = "startCluster" /\ cmd = "start"
         \/ pc = "deleteAtStop" /\ pc' = "done" /\ cmd = "stop"
  BY DEF DeleteCluster, Goto, copy_vars, ToolInv, RunInv, Starting, Stopping
<1>2. cmd' = cmd /\ Deploys' = Deploys
  BY <1>1, SameRun
<1>3. network' \in {"absent", "present", "connected"} /\ context' \in Environments \cup {"none"}
  BY DEF DeleteCluster, ToolInv, TypeOK
<1>4. TypeOK'
  BY <1>1, <1>3 DEF ToolInv, TypeOK, Absent, file_vars
<1>5. RunInv'
  BY <1>1, <1>2 DEF ToolInv, RunInv, Running, Starting, Stopping, Copying, Deploying, Deploys
<1>6. CopyInv'
  BY <1>1, SameCopies DEF ToolInv, Running, Copying, file_vars
<1>7. DeployInv'
  BY <1>1, <1>2 DEF DeployInv, Deploys
<1>8. ClusterInv'
  BY <1>1, <1>2 DEF ToolInv, TypeOK, ClusterInv, Copying, Deploying
<1> QED BY <1>4, <1>5, <1>6, <1>7, <1>8 DEF ToolInv

LEMMA StopClusterTool ==
  ASSUME ToolInv, StopCluster
  PROVE  ToolInv'
<1>1. /\ UNCHANGED <<run, cfg, runs, at, trials, held, seen, made, source, file_vars, network, context>>
      /\ pc = "stopCluster" /\ pc' \in {"deleteAtStop", "done"}
      /\ cmd = "stop" /\ cfg.environment \in Environments
      /\ clusters' = [clusters EXCEPT ![cfg.environment].state = "stopped"]
  BY DEF StopCluster, Goto, copy_vars, ToolInv, RunInv, Stopping
<1>2. cmd' = cmd /\ Deploys' = Deploys
  BY <1>1, SameRun
<1>4. TypeOK'
  BY <1>1 DEF ToolInv, TypeOK, file_vars
<1>5. RunInv'
  BY <1>1, <1>2 DEF ToolInv, RunInv, Running, Starting, Stopping, Copying, Deploying, Deploys
<1>6. CopyInv'
  BY <1>1, SameCopies DEF ToolInv, Running, Copying, file_vars
<1>7. DeployInv'
  BY <1>1, <1>2 DEF DeployInv, Deploys
<1>8. ClusterInv'
  BY <1>1, <1>2 DEF ClusterInv
<1> QED BY <1>4, <1>5, <1>6, <1>7, <1>8 DEF ToolInv

LEMMA StartTool ==
  ASSUME ToolInv, StartMinikube \/ StartK3d \/ ConnectNetwork
  PROVE  ToolInv'
<1>1. /\ UNCHANGED <<run, cfg, runs, at, trials, held, seen, made, source, file_vars>>
      /\ pc \in {"startCluster", "network"} /\ cmd = "start" /\ cfg.environment \in Environments
      /\ at = 1 /\ trials = MaxTrials
  BY DEF StartMinikube, StartK3d, ConnectNetwork, Goto, copy_vars, ToolInv, RunInv, Starting
<1>2. /\ cmd' = cmd /\ Deploys' = Deploys
      /\ \A r : LocalRegistry(r)' = LocalRegistry(r)
  BY <1>1, SameRun DEF LocalRegistry
<1>3. \/ pc' = "network"
      \/ pc' = "copy" /\ cfg.deploy
      \/ pc' = "done" /\ ~cfg.deploy
  BY DeployFirstIs DEF StartMinikube, StartK3d, ConnectNetwork, Goto
<1>4. TypeOK'
  BY <1>1, <1>3 DEF ToolInv, TypeOK, file_vars, StartMinikube, StartK3d, ConnectNetwork, Environments
<1>5. RunInv'
  BY <1>1, <1>2, <1>3 DEF ToolInv, RunInv, Running, Starting, Stopping, Copying, Deploying, Deploys
<1>6. CopyInv'
  BY <1>1, <1>3, SameCopies DEF ToolInv, Running, Copying, file_vars
<1>7. DeployInv'
  BY <1>1, <1>2, <1>3 DEF DeployInv, Deploys
<1>8. ClusterInv'
  <2>1. CASE StartMinikube
    BY <1>1, <1>2, <1>3, <2>1 DEF ToolInv, TypeOK, ClusterInv, StartMinikube, Goto, Copying, Deploying, Absent, Environments
  <2>2. CASE StartK3d
    BY <1>1, <1>2, <1>3, <2>2 DEF ToolInv, TypeOK, ClusterInv, StartK3d, Goto, Copying, Deploying, Absent, Environments
  <2>3. CASE ConnectNetwork
    BY <1>1, <1>2, <1>3, <2>3 DEF ToolInv, TypeOK, ClusterInv, ConnectNetwork, Goto, Copying, Deploying, Absent, Environments
  <2> QED BY <2>1, <2>2, <2>3
<1> QED BY <1>4, <1>5, <1>6, <1>7, <1>8 DEF ToolInv

\* The step from one file to the next, and to the generation after the last.
LEMMA NextFileStep ==
  ASSUME ToolInv, pc \in Copying, NextFile
  PROVE  /\ UNCHANGED <<run, cfg, runs, trials>>
         /\ at' = at + 1 /\ at' \in 1..(Len(Files) + 1)
         /\ \/ pc' = "copy" /\ at' <= Len(Files)
            \/ pc' = "generate" /\ at' = Len(Files) + 1
         /\ trials = MaxTrials
<1>1. at \in 1..Len(Files) /\ trials = MaxTrials
  BY FileAtHand DEF ToolInv, RunInv
<1> QED BY <1>1 DEF NextFile, Goto

\* What every step on a file can count on.
LEMMA AtHand ==
  ASSUME ToolInv, pc \in Copying, UNCHANGED <<run, cfg>>
  PROVE  /\ cmd' = cmd /\ Deploys' = Deploys /\ \A g : Dir(g)' = Dir(g)
         /\ Deploys /\ Running /\ Files[at] \in File /\ at \in 1..Len(Files)
         /\ Dir(Files[at]) \in Source /\ Dir(Files[at]) \in Home(Files[at])
<1>1. Running /\ Deploys /\ Files[at] \in File /\ at \in 1..Len(Files)
  BY FileAtHand DEF ToolInv, RunInv, Copying, Running
<1> QED BY <1>1, SameRun, SourceOfFile DEF ToolInv

\* A step on one file leaves those passed as they are.
LEMMA OthersPassed ==
  ASSUME ToolInv, pc \in Copying, UNCHANGED <<run, cfg, source>>,
         \A g \in File : g # Files[at] =>
             /\ copies'[g] = copies[g] /\ origin'[g] = origin[g] /\ hidden'[g] = hidden[g]
             /\ seen'[g] = seen[g] /\ (g \in made' <=> g \in made)
  PROVE  \A i \in 1..(at - 1) : (Excused(Files[i]) \/ copies[Files[i]] \in Versions(Files[i]))'
<1> SUFFICES ASSUME NEW i \in 1..(at - 1)
             PROVE  (Excused(Files[i]) \/ copies[Files[i]] \in Versions(Files[i]))'
  OBVIOUS
<1>1. Files[i] \in File /\ Files[i] # Files[at]
  BY FileAtHand DEF ToolInv
<1>2. Excused(Files[i]) \/ copies[Files[i]] \in Versions(Files[i])
  BY AtHand DEF ToolInv, CopyInv, PassedInv
<1>3. Dir(Files[i])' = Dir(Files[i])
  BY AtHand
<1>4. Excused(Files[i])' = Excused(Files[i])
  BY <1>1, <1>3 DEF Excused
<1>5. Versions(Files[i])' = Versions(Files[i])
  BY <1>1, <1>3 DEF Versions
<1> QED BY <1>1, <1>2, <1>4, <1>5

\* What a run generates and deploys is not touched by the steps on the files.
LEMMA FilesFirst ==
  ASSUME ToolInv, pc \in Copying, pc' \in Copying \cup {"generate"},
         UNCHANGED <<run, cfg, generated, manifest, clusters, network, context>>
  PROVE  DeployInv' /\ ClusterInv'
<1>1. cmd' = cmd /\ Deploys' = Deploys /\ \A r : LocalRegistry(r)' = LocalRegistry(r)
  BY SameRun DEF LocalRegistry
<1>2. DeployInv'
  BY DEF DeployInv, Copying
<1>3. ClusterInv'
  BY <1>1 DEF ToolInv, ClusterInv, Copying, Deploying
<1> QED BY <1>2, <1>3

\* A copy that stays because it is no older than its source is what is there.
LEMMA KeepCopyTool ==
  ASSUME ToolInv, KeepCopy
  PROVE  ToolInv'
<1>0. PICK f \in File : f = Files[at]
  BY FileAtHand DEF ToolInv, KeepCopy, Copying
<1>1. /\ pc = "copy" /\ IsCurrent(f) /\ NextFile
      /\ seen' = [seen EXCEPT ![f] = source[Dir(f)][f]]
      /\ UNCHANGED <<held, made, source, copies, newer, generated, manifest, origin, hidden, clusters, network, context>>
  BY <1>0 DEF KeepCopy, Look, file_vars, world_vars
<1>2. /\ UNCHANGED <<run, cfg, runs, trials>>
      /\ at' = at + 1 /\ at' \in 1..(Len(Files) + 1)
      /\ \/ pc' = "copy" /\ at' <= Len(Files)
         \/ pc' = "generate" /\ at' = Len(Files) + 1
      /\ trials = MaxTrials
  BY <1>1, NextFileStep DEF Copying
<1>3. /\ cmd' = cmd /\ Deploys' = Deploys /\ \A g : Dir(g)' = Dir(g)
      /\ Deploys /\ Running /\ f \in File /\ at \in 1..Len(Files)
      /\ Dir(f) \in Source /\ Dir(f) \in Home(f)
  BY <1>0, <1>1, <1>2, AtHand DEF Copying
<1>4. source[Dir(f)][f] \in 1..MaxEdits /\ seen'[f] = source[Dir(f)][f]
  BY <1>1, <1>3 DEF ToolInv, TypeOK
<1>5. TypeOK'
  BY <1>1, <1>2, <1>4 DEF ToolInv, TypeOK
<1>6. RunInv'
  BY <1>1, <1>2, <1>3 DEF ToolInv, RunInv, Running, Starting, Stopping, Copying, Deploying
<1>7. CopyInv'
  <2>1. KeptInv'
    BY <1>1, SameKept DEF ToolInv, CopyInv
  <2>2. HeldInv'
    BY <1>2 DEF HeldInv, Copying
  <2>3. (Excused(f) \/ copies[f] \in Versions(f))'
    <3>1. f \notin made'
      BY <1>0, <1>1, FileAtHand DEF ToolInv, Copying
    <3>2. \/ copies[f] = Partial \/ origin[f] # Dir(f) \/ Dir(f) \in hidden[f]
          \/ copies[f] = Current(Dir(f), f)
      BY <1>1, <1>3 DEF IsCurrent, ToolInv, CopyInv, KeptInv
    <3>3. Current(Dir(f), f) \in Versions(f)' /\ Dir(f)' = Dir(f)
      BY <1>1, <1>3, <1>4 DEF Versions, Current
    <3> QED BY <1>1, <1>3, <3>1, <3>2, <3>3 DEF Excused
  <2>4. \A i \in 1..(at - 1) : (Excused(Files[i]) \/ copies[Files[i]] \in Versions(Files[i]))'
    <3>1. \A g \in File : g # f => seen'[g] = seen[g]
      BY <1>1 DEF ToolInv, TypeOK
    <3> QED BY <1>1, <1>2, <3>1, <1>0, OthersPassed DEF Copying
  <2>5. PassedInv'
    <3>1. \A i \in 1..(at' - 1) : i = at \/ i \in 1..(at - 1)
      BY <1>2, <1>3
    <3> QED BY <1>0, <2>3, <2>4, <3>1 DEF PassedInv
  <2> QED BY <2>1, <2>2, <2>5 DEF CopyInv
<1>8. DeployInv' /\ ClusterInv'
  BY <1>1, <1>2, FilesFirst DEF Copying
<1> QED BY <1>5, <1>6, <1>7, <1>8 DEF ToolInv

\* A run that finds a copy out of date counts the changes of its source from here.
LEMMA BeginCopyTool ==
  ASSUME ToolInv, BeginCopy
  PROVE  ToolInv'
<1> DEFINE f == Files[at]
<1>1. /\ pc = "copy" /\ pc' = "open" /\ ~IsCurrent(f)
      /\ seen' = [seen EXCEPT ![f] = source[Dir(f)][f]]
      /\ hidden' = [hidden EXCEPT ![f] = @ \ {Dir(f)}]
      /\ UNCHANGED <<run, cfg, runs, at, trials, held, made, source, copies, newer, generated, manifest, origin,
                     clusters, network, context>>
  BY DEF BeginCopy, Look, Goto, world_vars
<1>2. /\ cmd' = cmd /\ Deploys' = Deploys /\ \A g : Dir(g)' = Dir(g)
      /\ Deploys /\ Running /\ f \in File /\ at \in 1..Len(Files)
      /\ Dir(f) \in Source /\ Dir(f) \in Home(f)
  BY <1>1, AtHand DEF Copying
<1>3. source[Dir(f)][f] \in 1..MaxEdits /\ seen'[f] = source[Dir(f)][f]
  BY <1>1, <1>2 DEF ToolInv, TypeOK
<1>4. hidden' \in [File -> SUBSET Source] /\ hidden'[f] = hidden[f] \ {Dir(f)}
  BY <1>1, <1>2 DEF ToolInv, TypeOK
<1>5. \A g \in File : g # f => seen'[g] = seen[g] /\ hidden'[g] = hidden[g]
  BY <1>1 DEF ToolInv, TypeOK
<1>6. TypeOK'
  BY <1>1, <1>3, <1>4 DEF ToolInv, TypeOK
<1>7. RunInv'
  BY <1>1, <1>2 DEF ToolInv, RunInv, Running, Starting, Stopping, Copying, Deploying
<1>8. KeptInv'
  <2> SUFFICES ASSUME NEW g \in File, copies[g] \notin {Missing, Partial}, origin[g] \notin newer[g] \cup hidden'[g]
               PROVE  origin[g] \in Home(g) /\ copies[g] = Current(origin[g], g)
    BY <1>1 DEF KeptInv, Current
  <2>1. origin[g] \notin hidden[g]
    BY <1>1, <1>4, <1>5 DEF IsCurrent
  <2> QED BY <2>1 DEF ToolInv, CopyInv, KeptInv
<1>9. HeldInv'
  BY <1>1, <1>2, <1>3 DEF HeldInv, Copying
<1>10. PassedInv'
  BY <1>1, <1>5, OthersPassed DEF PassedInv, Copying
<1>11. DeployInv' /\ ClusterInv'
  BY <1>1, FilesFirst DEF Copying
<1> QED BY <1>6, <1>7, <1>8, <1>9, <1>10, <1>11 DEF ToolInv, CopyInv

\* What it opens is the last version, and one that it has found or a later one.
LEMMA OpenSourceTool ==
  ASSUME ToolInv, OpenSource
  PROVE  ToolInv'
<1> DEFINE f == Files[at]
<1>1. /\ pc = "open" /\ pc' = "create" /\ held' = Current(Dir(f), f)
      /\ UNCHANGED <<run, cfg, runs, at, trials, seen, made, source, copies, newer, generated, manifest, origin, hidden,
                     clusters, network, context>>
  BY DEF OpenSource, Goto, file_vars, world_vars
<1>2. /\ cmd' = cmd /\ Deploys' = Deploys /\ \A g : Dir(g)' = Dir(g)
      /\ Deploys /\ Running /\ f \in File /\ at \in 1..Len(Files)
      /\ Dir(f) \in Source /\ Dir(f) \in Home(f)
  BY <1>1, AtHand DEF Copying
<1>3. Current(Dir(f), f) \in Contents /\ source[Dir(f)][f] \in 1..MaxEdits
  BY <1>2, CurrentContents DEF ToolInv, TypeOK
<1>4. TypeOK'
  BY <1>1, <1>3 DEF ToolInv, TypeOK
<1>5. RunInv'
  BY <1>1, <1>2 DEF ToolInv, RunInv, Running, Starting, Stopping, Copying, Deploying
<1>6. KeptInv'
  BY <1>1, SameKept DEF ToolInv, CopyInv
<1>7. HeldInv'
  <2>1. seen[f] \in 1..source[Dir(f)][f]
    BY <1>1 DEF ToolInv, CopyInv, HeldInv, Copying
  <2>2. Current(Dir(f), f) \in Versions(f)
    BY <1>3, <2>1 DEF Versions, Current
  <2>3. Versions(f)' = Versions(f) /\ Current(Dir(f), f)' = Current(Dir(f), f)
    BY <1>1, <1>2 DEF Versions, Current
  <2> QED BY <1>1, <1>2, <2>1, <2>2, <2>3 DEF HeldInv
<1>8. PassedInv'
  BY <1>1, OthersPassed DEF PassedInv, Copying
<1>9. DeployInv' /\ ClusterInv'
  BY <1>1, FilesFirst DEF Copying
<1> QED BY <1>4, <1>5, <1>6, <1>7, <1>8, <1>9 DEF ToolInv, CopyInv

\* A copy that is created is cut short until it is written.
LEMMA CreateCopyTool ==
  ASSUME ToolInv, CreateCopy
  PROVE  ToolInv'
<1> DEFINE f == Files[at]
<1>1. /\ pc = "create" /\ pc' = "read"
      /\ copies' = [copies EXCEPT ![f] = Partial]
      /\ newer' = [newer EXCEPT ![f] = {}]
      /\ origin' = [origin EXCEPT ![f] = Dir(f)]
      /\ UNCHANGED <<run, cfg, runs, at, trials, held, seen, made, source, generated, manifest, hidden,
                     clusters, network, context>>
  BY DEF CreateCopy, Goto, copy_vars, world_vars
<1>2. /\ cmd' = cmd /\ Deploys' = Deploys /\ \A g : Dir(g)' = Dir(g)
      /\ Deploys /\ Running /\ f \in File /\ at \in 1..Len(Files)
      /\ Dir(f) \in Source /\ Dir(f) \in Home(f)
  BY <1>1, AtHand DEF Copying
<1>3. /\ copies'[f] = Partial /\ origin'[f] = Dir(f)
      /\ \A g \in File : g # f => copies'[g] = copies[g] /\ origin'[g] = origin[g] /\ newer'[g] = newer[g]
  BY <1>1, <1>2 DEF ToolInv, TypeOK
<1>4. TypeOK'
  BY <1>1, <1>2 DEF ToolInv, TypeOK, Contents
<1>5. RunInv'
  BY <1>1, <1>2 DEF ToolInv, RunInv, Running, Starting, Stopping, Copying, Deploying
<1>6. KeptInv'
  BY <1>1, <1>3 DEF ToolInv, CopyInv, KeptInv, Current
<1>7. HeldInv'
  <2>1. Versions(f)' = Versions(f) /\ Current(Dir(f), f)' = Current(Dir(f), f)
    BY <1>1, <1>2 DEF Versions, Current
  <2> QED BY <1>1, <1>2, <1>3, <2>1 DEF ToolInv, CopyInv, HeldInv, Copying
<1>8. PassedInv'
  BY <1>1, <1>3, OthersPassed DEF PassedInv, Copying
<1>9. DeployInv' /\ ClusterInv'
  BY <1>1, FilesFirst DEF Copying
<1> QED BY <1>4, <1>5, <1>6, <1>7, <1>8, <1>9 DEF ToolInv, CopyInv

\* What it reads is a version since it looked or, of a file changed meanwhile, a mixture.
LEMMA ReadSourceTool ==
  ASSUME ToolInv, ReadSource
  PROVE  ToolInv'
<1> DEFINE f == Files[at]
<1>1. /\ pc = "read" /\ pc' = "write"
      /\ \/ \E n \in held.revision..source[Dir(f)][f] : held' = Whole(Dir(f), n)
         \/ held # Current(Dir(f), f) /\ held' = Partial
      /\ UNCHANGED <<run, cfg, runs, at, trials, seen, made, source, copies, newer, generated, manifest, origin, hidden,
                     clusters, network, context>>
  BY DEF ReadSource, Goto, file_vars, world_vars
<1>2. /\ cmd' = cmd /\ Deploys' = Deploys /\ \A g : Dir(g)' = Dir(g)
      /\ Deploys /\ Running /\ f \in File /\ at \in 1..Len(Files)
      /\ Dir(f) \in Source /\ Dir(f) \in Home(f)
  BY <1>1, AtHand DEF Copying
<1>3. /\ seen[f] \in 1..source[Dir(f)][f] /\ held \in Versions(f)
      /\ Dir(f) \notin hidden[f] => held = Current(Dir(f), f)
      /\ origin[f] = Dir(f) /\ copies[f] = Partial
  BY <1>1 DEF ToolInv, CopyInv, HeldInv, Copying
<1>4. source[Dir(f)][f] \in 1..MaxEdits
  BY <1>2 DEF ToolInv, TypeOK
<1>5. held.revision \in seen[f]..source[Dir(f)][f]
  BY <1>3 DEF Versions, Whole
<1>6. held' \in Versions(f) \/ (held # Current(Dir(f), f) /\ held' = Partial)
  BY <1>1, <1>3, <1>4, <1>5 DEF Versions
<1>7. held = Current(Dir(f), f) => held' = held
  <2> SUFFICES ASSUME held = Current(Dir(f), f) PROVE held' = held
    OBVIOUS
  <2>1. held.revision = source[Dir(f)][f]
    BY DEF Current, Whole
  <2>2. PICK n \in held.revision..source[Dir(f)][f] : held' = Whole(Dir(f), n)
    BY <1>1
  <2>3. n = source[Dir(f)][f]
    BY <1>4, <2>1, <2>2
  <2> QED BY <2>2, <2>3 DEF Current
<1>8. TypeOK'
  <2>1. Versions(f) \subseteq Contents
    BY <1>2, <1>3, <1>4, WholeContents DEF Versions
  <2>2. held' \in Contents
    BY <1>6, <2>1 DEF Contents
  <2> QED BY <1>1, <2>2 DEF ToolInv, TypeOK
<1>9. RunInv'
  BY <1>1, <1>2 DEF ToolInv, RunInv, Running, Starting, Stopping, Copying, Deploying
<1>10. KeptInv'
  BY <1>1, SameKept DEF ToolInv, CopyInv
<1>11. HeldInv'
  <2>1. Versions(f)' = Versions(f) /\ Current(Dir(f), f)' = Current(Dir(f), f)
    BY <1>1, <1>2 DEF Versions, Current
  <2> QED BY <1>1, <1>2, <1>3, <1>6, <1>7, <2>1 DEF HeldInv, Copying
<1>12. PassedInv'
  BY <1>1, OthersPassed DEF PassedInv, Copying
<1>13. DeployInv' /\ ClusterInv'
  BY <1>1, FilesFirst DEF Copying
<1> QED BY <1>8, <1>9, <1>10, <1>11, <1>12, <1>13 DEF ToolInv, CopyInv

\* A copy that is written is what was read: the source as it is, if no change is hidden.
LEMMA WriteCopyTool ==
  ASSUME ToolInv, WriteCopy
  PROVE  ToolInv'
<1>0. PICK f \in File : f = Files[at]
  BY FileAtHand DEF ToolInv, WriteCopy, Copying
<1>1. /\ pc = "write" /\ NextFile
      /\ copies' = [copies EXCEPT ![f] = held]
      /\ newer' = [newer EXCEPT ![f] = {}]
      /\ held' = Missing /\ made' = made \cup {f}
      /\ UNCHANGED <<seen, source, generated, manifest, origin, hidden, clusters, network, context>>
  BY <1>0 DEF WriteCopy, world_vars
<1>2. /\ UNCHANGED <<run, cfg, runs, trials>>
      /\ at' = at + 1 /\ at' \in 1..(Len(Files) + 1)
      /\ \/ pc' = "copy" /\ at' <= Len(Files)
         \/ pc' = "generate" /\ at' = Len(Files) + 1
      /\ trials = MaxTrials
  BY <1>1, NextFileStep DEF Copying
<1>3. /\ cmd' = cmd /\ Deploys' = Deploys /\ \A g : Dir(g)' = Dir(g)
      /\ Deploys /\ Running /\ f \in File /\ at \in 1..Len(Files)
      /\ Dir(f) \in Source /\ Dir(f) \in Home(f)
  BY <1>0, <1>1, <1>2, AtHand DEF Copying
<1>4. /\ held \in Versions(f) \cup {Partial} /\ origin[f] = Dir(f)
      /\ Dir(f) \notin hidden[f] => held = Current(Dir(f), f)
  BY <1>0, <1>1 DEF ToolInv, CopyInv, HeldInv, Copying
<1>5. /\ copies'[f] = held
      /\ \A g \in File : g # f => copies'[g] = copies[g] /\ newer'[g] = newer[g]
  BY <1>1, <1>3 DEF ToolInv, TypeOK
<1>6. TypeOK'
  BY <1>1, <1>2, <1>3 DEF ToolInv, TypeOK, Contents
<1>7. RunInv'
  <2>1. made' \subseteq {Files[i] : i \in 1..(at' - 1)}
    <3>1. at \in 1..(at' - 1) /\ 1..(at - 1) \subseteq 1..(at' - 1)
      BY <1>2, <1>3
    <3> QED BY <1>0, <1>1, <3>1 DEF ToolInv, RunInv
  <2> QED BY <1>2, <1>3, <2>1 DEF ToolInv, RunInv, Running, Starting, Stopping, Copying, Deploying
<1>8. KeptInv'
  <2> SUFFICES ASSUME NEW g \in File, copies'[g] \notin {Missing, Partial}, origin[g] \notin newer'[g] \cup hidden[g]
               PROVE  origin[g] \in Home(g) /\ copies'[g] = Current(origin[g], g)
    BY <1>1 DEF KeptInv, Current
  <2>1. CASE g = f
    BY <1>3, <1>4, <1>5, <2>1
  <2>2. CASE g # f
    BY <1>5, <2>2 DEF ToolInv, CopyInv, KeptInv
  <2> QED BY <2>1, <2>2
<1>9. HeldInv'
  BY <1>2 DEF HeldInv, Copying
<1>10. PassedInv'
  <2>1. (Excused(f) \/ copies[f] \in Versions(f))'
    <3>1. held = Partial => Dir(f) \in hidden[f]
      BY <1>3, <1>4, CurrentContents DEF ToolInv
    <3>2. Versions(f)' = Versions(f) /\ Dir(f)' = Dir(f)
      BY <1>1, <1>3 DEF Versions
    <3> QED BY <1>1, <1>3, <1>4, <1>5, <3>1, <3>2 DEF Excused
  <2>2. \A i \in 1..(at - 1) : (Excused(Files[i]) \/ copies[Files[i]] \in Versions(Files[i]))'
    BY <1>1, <1>2, <1>5, <1>0, OthersPassed DEF Copying
  <2>3. \A i \in 1..(at' - 1) : i = at \/ i \in 1..(at - 1)
    BY <1>2, <1>3
  <2> QED BY <1>0, <2>1, <2>2, <2>3 DEF PassedInv
<1>11. DeployInv' /\ ClusterInv'
  BY <1>1, <1>2, FilesFirst DEF Copying
<1> QED BY <1>6, <1>7, <1>8, <1>9, <1>10, <1>11 DEF ToolInv, CopyInv

\* Generation: what an earlier run has generated gives way to what this one has.
LEMMA GenerateTool ==
  ASSUME ToolInv, Generate
  PROVE  ToolInv'
<1>1. /\ pc = "generate" /\ pc' = "kustomize"
      /\ cfg.template \in Template => generated' = Rendered
      /\ UNCHANGED <<run, cfg, runs, at, trials, held, seen, made, source, copies, newer, hidden, manifest, origin, clusters, network, context>>
  BY DEF Generate, Goto, copy_vars, world_vars
<1>2. /\ cmd' = cmd /\ Deploys' = Deploys /\ Rendered' = Rendered /\ \A g : Dir(g)' = Dir(g)
  BY <1>1, SameRun
<1>3. TypeOK'
  BY <1>1 DEF ToolInv, TypeOK
<1>4. RunInv'
  BY <1>1, <1>2 DEF ToolInv, RunInv, Running, Starting, Stopping, Copying, Deploying
<1>5. CopyInv'
  BY <1>1, SameCopies DEF ToolInv, Running, Copying
<1>6. DeployInv' /\ ClusterInv'
  BY <1>1, <1>2 DEF ToolInv, DeployInv, ClusterInv, Copying, Deploying, LocalRegistry
<1> QED BY <1>3, <1>4, <1>5, <1>6 DEF ToolInv

\* A trial of kustomize, whether it puts the manifest together or not.
LEMMA KustomizeTool ==
  ASSUME ToolInv, Kustomize \/ KustomizeFails
  PROVE  ToolInv'
<1>1. /\ pc = "kustomize"
      /\ \/ pc' = "deploy" /\ manifest' = [base |-> copies, custom |-> generated] /\ trials' = trials
         \/ pc' = "kustomize" /\ trials' = trials - 1 /\ trials > 1
         \/ pc' = "failed" /\ trials' = trials - 1
      /\ trials > 0
      /\ UNCHANGED <<run, cfg, runs, at, held, seen, made, source, copies, newer, hidden, generated, origin, clusters, network, context>>
  BY DEF Kustomize, KustomizeFails, Goto, copy_vars, world_vars, ToolInv, RunInv, TypeOK
<1>2. /\ cmd' = cmd /\ Deploys' = Deploys /\ Rendered' = Rendered /\ \A g : Dir(g)' = Dir(g)
  BY <1>1, SameRun
<1>3. TypeOK'
  BY <1>1 DEF ToolInv, TypeOK
<1>4. RunInv'
  BY <1>1, <1>2 DEF ToolInv, TypeOK, RunInv, Running, Starting, Stopping, Copying, Deploying
<1>5. CopyInv'
  BY <1>1, SameCopies DEF ToolInv, Running, Copying
<1>6. DeployInv' /\ ClusterInv'
  BY <1>1, <1>2 DEF ToolInv, DeployInv, ClusterInv, Copying, Deploying, LocalRegistry
<1> QED BY <1>3, <1>4, <1>5, <1>6 DEF ToolInv

\* The manifest goes to the cluster kubectl talks to, in one try or two.
LEMMA CreateTool ==
  ASSUME ToolInv, Create \/ CreateFails \/ Apply
  PROVE  ToolInv'
<1>1. /\ pc \in {"deploy", "apply"}
      /\ \/ pc' = "done" /\ context # "none" /\ clusters' = [clusters EXCEPT ![context].deployed = manifest]
         \/ pc' = "apply" /\ context # "none" /\ clusters' = [clusters EXCEPT ![context].deployed = Partial]
         \/ pc' = "apply" /\ clusters' = clusters
      /\ UNCHANGED <<run, cfg, runs, at, trials, held, seen, made, source, copies, newer, hidden, generated, manifest, origin, network, context>>
  BY DEF Create, CreateFails, Apply, Goto, Reachable, Deployed, copy_vars, file_vars
<1>2. /\ cmd' = cmd /\ Deploys' = Deploys /\ Rendered' = Rendered /\ \A g : Dir(g)' = Dir(g)
      /\ Deploys
  BY <1>1, SameRun DEF ToolInv, RunInv, Deploying
<1>3. /\ DOMAIN clusters' = Environments
      /\ \A e \in Environments : /\ DOMAIN clusters'[e] = {"state", "deployed"}
                                 /\ clusters'[e].state = clusters[e].state
  <2>1. DOMAIN clusters = Environments
    BY DEF ToolInv, TypeOK
  <2>2. \A e \in Environments : DOMAIN clusters[e] = {"state", "deployed"}
    BY DEF ToolInv, TypeOK
  <2>3. \A what, e : e \in Environments =>
            LET c == [clusters EXCEPT ![context].deployed = what]
            IN  DOMAIN c[e] = {"state", "deployed"} /\ c[e].state = clusters[e].state
    <3> SUFFICES ASSUME NEW what, NEW e \in Environments,
                        NEW c, c = [clusters EXCEPT ![context].deployed = what]
                 PROVE  DOMAIN c[e] = {"state", "deployed"} /\ c[e].state = clusters[e].state
      OBVIOUS
    <3>1. CASE e = context
      <4>1. c[e] = [clusters[e] EXCEPT !.deployed = what]
        BY <3>1, <2>1
      <4> QED BY <4>1, <2>2
    <3>2. CASE e # context
      <4>1. c[e] = clusters[e]
        BY <3>2, <2>1
      <4> QED BY <4>1, <2>2
    <3> QED BY <3>1, <3>2
  <2>4. DOMAIN clusters' = Environments
    BY <1>1, <2>1
  <2> QED BY <1>1, <2>2, <2>3, <2>4
<1>4. pc' = "done" => clusters'[context].deployed = manifest
  BY <1>1 DEF ToolInv, TypeOK
<1>5. TypeOK'
  BY <1>1, <1>3 DEF ToolInv, TypeOK
<1>6. RunInv'
  BY <1>1, <1>2 DEF ToolInv, RunInv, Running, Starting, Stopping, Copying, Deploying
<1>7. CopyInv'
  BY <1>1, SameCopies DEF ToolInv, Running, Copying
<1>8. DeployInv'
  BY <1>1, <1>2, <1>4 DEF ToolInv, DeployInv
<1>9. ClusterInv'
  BY <1>1, <1>2, <1>3 DEF ToolInv, TypeOK, ClusterInv, Copying, Deploying, LocalRegistry, Deploys
<1> QED BY <1>5, <1>6, <1>7, <1>8, <1>9 DEF ToolInv

\* A source changes: a copy made from it is older from now on, or the change hidden.
LEMMA EditTool ==
  ASSUME ToolInv, NEW d \in Source, NEW g \in File, NEW younger \in BOOLEAN, Edit(d, g, younger)
  PROVE  ToolInv'
<1>1. /\ source' = [source EXCEPT ![d][g] = @ + 1] /\ source[d][g] < MaxEdits
      /\ newer' = [newer EXCEPT ![g] = IF copies[g] = Missing THEN @ ELSE IF younger THEN @ \cup {d} ELSE @ \ {d}]
      /\ hidden' = [hidden EXCEPT ![g] = IF UnderWay(d, g) \/ (copies[g] # Missing /\ ~younger) THEN @ \cup {d} ELSE @]
      /\ UNCHANGED <<pc, run, cfg, at, trials, runs, held, seen, made, copies, generated, manifest, origin,
                     clusters, network, context>>
  BY DEF Edit, run_vars, world_vars
<1>2. /\ cmd' = cmd /\ Deploys' = Deploys /\ Rendered' = Rendered /\ \A f : Dir(f)' = Dir(f)
  BY <1>1, SameRun
<1>3. /\ \A e \in Source, f \in File : /\ source[e][f] \in 1..MaxEdits
                                       /\ source'[e][f] = IF e = d /\ f = g THEN source[e][f] + 1 ELSE source[e][f]
      /\ \A f \in File : hidden[f] \subseteq hidden'[f]
      /\ UnderWay(d, g) => d \in hidden'[g]
  BY <1>1 DEF ToolInv, TypeOK
<1>4. TypeOK'
  BY <1>1 DEF ToolInv, TypeOK
<1>5. RunInv'
  BY <1>1, <1>2 DEF ToolInv, RunInv, Running
<1>6. KeptInv'
  <2> SUFFICES ASSUME NEW f \in File, copies[f] \notin {Missing, Partial}, origin[f] \notin newer'[f] \cup hidden'[f]
               PROVE  origin[f] \in Home(f) /\ copies[f] = Current(origin[f], f)'
    BY <1>1 DEF KeptInv, Current
  <2>1. ~(f = g /\ origin[f] = d) /\ origin[f] \notin newer[f]
    BY <1>1 DEF ToolInv, TypeOK
  <2>2. origin[f] \in Home(f) /\ copies[f] = Current(origin[f], f)
    BY <1>3, <2>1 DEF ToolInv, CopyInv, KeptInv
  <2>3. origin[f] \in Source
    BY <2>2 DEF Home, Source
  <2> QED BY <1>1, <1>3, <2>1, <2>2, <2>3 DEF Current
<1>7. HeldInv'
  <2> SUFFICES ASSUME pc \in Copying \ {"copy"} PROVE HeldInv'
    BY <1>1 DEF HeldInv, Copying
  <2> DEFINE f == Files[at]
  <2>1. f \in File /\ Dir(f) \in Source
    BY AtHand, FileAtHand, SourceOfFile DEF ToolInv, Copying, Running
  <2>2. source[Dir(f)][f] \in Nat /\ source'[Dir(f)][f] \in Nat /\ source[Dir(f)][f] <= source'[Dir(f)][f]
    BY <1>3, <2>1
  <2>3. seen[f] \in 1..source'[Dir(f)][f] /\ Versions(f) \subseteq Versions(f)'
    <3>1. seen[f] \in 1..source[Dir(f)][f]
      BY DEF ToolInv, CopyInv, HeldInv, Copying
    <3> QED BY <1>1, <1>2, <2>2, <3>1 DEF Versions
  <2>4. Dir(f) \notin hidden'[f] => Dir(f) \notin hidden[f] /\ Current(Dir(f), f)' = Current(Dir(f), f)
    <3>1. f = g /\ Dir(f) = d => UnderWay(d, g)
      BY DEF UnderWay, Copying
    <3> QED BY <1>1, <1>2, <1>3, <2>1, <3>1 DEF Current
  <2> QED BY <1>1, <1>2, <2>1, <2>3, <2>4 DEF ToolInv, CopyInv, HeldInv, Copying
<1>8. PassedInv'
  <2> SUFFICES ASSUME Running, Deploys, NEW i \in 1..(at - 1)
               PROVE  (Excused(Files[i]) \/ copies[Files[i]] \in Versions(Files[i]))'
    BY <1>1, <1>2 DEF PassedInv, Running
  <2> DEFINE f == Files[i]
  <2>1. f \in File /\ Dir(f) \in Source
    <3>1. f \in File
      BY DEF ToolInv, TypeOK, File
    <3> QED BY <3>1, SourceOfFile DEF ToolInv
  <2>2. Excused(f) => Excused(f)'
    BY <1>1, <1>2, <1>3, <2>1 DEF Excused
  <2>3. Versions(f) \subseteq Versions(f)'
    <3>1. seen[f] \in Nat
      BY <2>1 DEF ToolInv, TypeOK
    <3>2. source[Dir(f)][f] \in Nat /\ source'[Dir(f)][f] \in Nat /\ source[Dir(f)][f] <= source'[Dir(f)][f]
      BY <1>3, <2>1
    <3> QED BY <1>1, <1>2, <3>1, <3>2 DEF Versions
  <2> QED BY <1>1, <2>2, <2>3 DEF ToolInv, CopyInv, PassedInv
<1>9. DeployInv' /\ ClusterInv'
  BY <1>1, <1>2 DEF ToolInv, DeployInv, ClusterInv, LocalRegistry
<1> QED BY <1>4, <1>5, <1>6, <1>7, <1>8, <1>9 DEF ToolInv, CopyInv

\* Every step keeps the invariant.
LEMMA NextTool ==
  ASSUME ToolInv, [Next]_vars
  PROVE  ToolInv'
<1>1. CASE UNCHANGED vars
  <2>1. TypeOK' /\ RunInv'
    BY <1>1 DEF ToolInv, TypeOK, RunInv, Running, Deploys, cmd, vars
  <2>2. KeptInv' /\ HeldInv' /\ PassedInv'
    BY <1>1 DEF ToolInv, CopyInv, KeptInv, HeldInv, PassedInv, Running, Deploys, cmd, Current, Dir, Versions, Excused, vars
  <2>3. DeployInv' /\ ClusterInv'
    BY <1>1 DEF ToolInv, DeployInv, ClusterInv, Deploys, cmd, Rendered, LocalRegistry, vars
  <2> QED BY <2>1, <2>2, <2>3 DEF ToolInv, CopyInv
<1>2. CASE \E i \in Invocation : Invoke(i)
  BY <1>2, InvokeTool
<1>3. CASE End \/ Kill
  BY <1>3, OverTool DEF End, Kill
<1>4. CASE \E label \in Fallible : CommandFails(label)
  BY <1>4, FailTool DEF CommandFails, file_vars
<1>5. CASE GenerateFails
  BY <1>5, FailTool DEF GenerateFails
<1>6. CASE DeleteCluster("delete", "startCluster") \/ DeleteCluster("deleteAtStop", "done")
  BY <1>6, DeleteClusterTool
<1>7. CASE StartMinikube \/ StartK3d \/ ConnectNetwork
  BY <1>7, StartTool
<1>8. CASE StopCluster
  BY <1>8, StopClusterTool
<1>9. CASE KeepCopy \/ BeginCopy \/ OpenSource \/ CreateCopy
  BY <1>9, KeepCopyTool, BeginCopyTool, OpenSourceTool, CreateCopyTool
<1>14. CASE ReadSource \/ WriteCopy \/ WriteFails
  BY <1>14, ReadSourceTool, WriteCopyTool, WriteFailsTool
<1>10. CASE Generate \/ Kustomize \/ KustomizeFails
  BY <1>10, GenerateTool, KustomizeTool
<1>11. CASE Create \/ CreateFails \/ Apply
  BY <1>11, CreateTool
<1>12. CASE ApplyFails
  BY <1>12, ApplyFailsTool
<1>13. CASE \E d \in Source, f \in File, younger \in BOOLEAN : Edit(d, f, younger)
  BY <1>13, EditTool
<1> QED BY <1>1, <1>2, <1>3, <1>4, <1>5, <1>6, <1>7, <1>8, <1>9, <1>10, <1>11, <1>12, <1>13, <1>14 DEF Next, RunStep

-----------------------------------------------------------------------------
(* The theorems. *)

\* The inductive invariant holds, whatever is killed, fails or is edited.
THEOREM ToolInvHolds == Spec => []ToolInv
<1>1. Init => ToolInv
  BY InitTool
<1>2. ToolInv /\ [Next]_vars => ToolInv'
  BY NextTool
<1> QED BY <1>1, <1>2, PTL DEF Spec

\* Each setting of a run comes from the strongest source that names it.
THEOREM SourcesAreRanked == Spec => []StrongestWins
<1>1. ToolInv => StrongestWins
  <2> SUFFICES ASSUME ToolInv, Running PROVE StrongestWins
    BY DEF StrongestWins
  <2> QED BY StrongestDecides DEF ToolInv, RunInv, TypeOK
<1> QED BY <1>1, ToolInvHolds, PTL

\* A run that succeeds leaves deployed what it found and generated.
THEOREM DeploymentIsTrue == Spec => []DeploysWhatItFound
<1>1. ToolInv => DeploysWhatItFound
  <2> SUFFICES ASSUME ToolInv, pc = "done", Deploys PROVE DeploysWhatItFound
    BY DEF DeploysWhatItFound
  <2>1. /\ clusters[context].deployed = manifest
        /\ manifest = [base |-> copies, custom |-> generated]
        /\ cfg.template \in Template => generated = Rendered
    BY DEF ToolInv, DeployInv
  <2>2. \A f \in File : Excused(f) \/ copies[f] \in Versions(f)
    BY DEF ToolInv, RunInv, CopyInv, PassedInv, Running, File
  <2> QED BY <2>1, <2>2 DEF DeploysWhatItFound
<1> QED BY <1>1, ToolInvHolds, PTL

\* A start that succeeds has its own cluster up, with the registry in reach.
THEOREM StartHasCluster == Spec => []StartDelivers
<1>1. ToolInv => StartDelivers
  BY DEF ToolInv, ClusterInv, StartDelivers
<1> QED BY <1>1, ToolInvHolds, PTL

\* Start and stop leave the other environment's cluster alone.
THEOREM OthersAreLeft == Spec => StaysHome
<1> DEFINE Home1 == \A e \in Environments : clusters'[e] # clusters[e] => cmd = "deploy" \/ e = cfg.environment
<1>1. ToolInv /\ [Next]_vars => [Home1]_vars
  <2> SUFFICES ASSUME ToolInv, Next PROVE Home1
    OBVIOUS
  <2>1. CASE UNCHANGED clusters
    BY <2>1
  <2>2. CASE \/ DeleteCluster("delete", "startCluster") \/ DeleteCluster("deleteAtStop", "done")
             \/ StopCluster \/ StartMinikube \/ StartK3d
    BY <2>2 DEF DeleteCluster, StopCluster, StartMinikube, StartK3d, ToolInv, TypeOK
  <2>3. CASE Create \/ CreateFails \/ Apply \/ ApplyFails
    <3>1. pc \in Deploying /\ Deploys
      BY <2>3 DEF Create, CreateFails, Apply, ApplyFails, Deploying, ToolInv, RunInv
    <3>2. cmd = "start" => context = cfg.environment
      BY <3>1 DEF ToolInv, ClusterInv
    <3>3. clusters' = clusters \/ \E what : clusters' = [clusters EXCEPT ![context].deployed = what]
      BY <2>3 DEF Create, CreateFails, Apply, ApplyFails, Deployed
    <3> QED BY <3>1, <3>2, <3>3 DEF Deploys, ToolInv, TypeOK
  <2> QED
    BY <2>1, <2>2, <2>3
    DEF Next, RunStep, Invoke, End, Kill, Over, Edit, CommandFails, ConnectNetwork, KeepCopy, BeginCopy,
        OpenSource, CreateCopy, ReadSource, WriteCopy, WriteFails, Generate, GenerateFails, Kustomize, KustomizeFails, world_vars
<1> QED BY <1>1, ToolInvHolds, PTL DEF Spec, StaysHome

-----------------------------------------------------------------------------
(* How far a run is from its end. *)

\* What the measure counts with.
LEMMA Counted ==
  ASSUME ToolInv
  PROVE  /\ Len(Files) \in Nat \ {0} /\ MaxTrials \in Nat \ {0}
         /\ at \in 1..(Len(Files) + 1) /\ trials \in 0..MaxTrials
  BY ToolAssumption DEF ToolInv, TypeOK

\* The measure, place by place.
LEMMA PlaceCounts ==
  ASSUME NEW a, NEW l
  PROVE  /\ StepsFrom("idle", a, l) = 0
         /\ StepsFrom("done", a, l) = 1 /\ StepsFrom("failed", a, l) = 1
         /\ StepsFrom("apply", a, l) = 2 /\ StepsFrom("deleteAtStop", a, l) = 2
         /\ StepsFrom("deploy", a, l) = 3 /\ StepsFrom("stopCluster", a, l) = 3
         /\ StepsFrom("kustomize", a, l) = 3 + l
         /\ StepsFrom("generate", a, l) = 4 + MaxTrials
         /\ StepsFrom("write", a, l) = MaxTrials + 5 * (Len(Files) + 1 - a)
         /\ StepsFrom("read", a, l) = 1 + MaxTrials + 5 * (Len(Files) + 1 - a)
         /\ StepsFrom("create", a, l) = 2 + MaxTrials + 5 * (Len(Files) + 1 - a)
         /\ StepsFrom("open", a, l) = 3 + MaxTrials + 5 * (Len(Files) + 1 - a)
         /\ StepsFrom("copy", a, l) = 4 + MaxTrials + 5 * (Len(Files) + 1 - a)
         /\ StepsFrom("network", a, l) = MaxSteps - 2
         /\ StepsFrom("startCluster", a, l) = MaxSteps - 1
         /\ StepsFrom("delete", a, l) = MaxSteps
  BY DEF StepsFrom

\* While files are copied the trials and five steps a file are still to come.
LEMMA CopyingLeft ==
  ASSUME ToolInv, pc \in Copying
  PROVE  /\ at <= Len(Files) /\ StepsLeft \in Nat /\ StepsLeft > 1
         /\ StepsLeft >= MaxTrials + 5 * (Len(Files) + 1 - at)
<1>1. /\ Len(Files) \in Nat \ {0} /\ MaxTrials \in Nat \ {0} /\ at \in 1..Len(Files)
  BY Counted, FileAtHand DEF ToolInv
<1>2. StepsLeft \in {n + MaxTrials + 5 * (Len(Files) + 1 - at) : n \in 0..4}
  <2>1. CASE pc = "copy"
    <3>1. StepsLeft = 4 + MaxTrials + 5 * (Len(Files) + 1 - at)
      BY PlaceCounts, <2>1 DEF StepsLeft
    <3> QED BY <3>1
  <2>2. CASE pc = "open"
    <3>1. StepsLeft = 3 + MaxTrials + 5 * (Len(Files) + 1 - at)
      BY PlaceCounts, <2>2 DEF StepsLeft
    <3> QED BY <3>1
  <2>3. CASE pc = "create"
    <3>1. StepsLeft = 2 + MaxTrials + 5 * (Len(Files) + 1 - at)
      BY PlaceCounts, <2>3 DEF StepsLeft
    <3> QED BY <3>1
  <2>4. CASE pc = "read"
    <3>1. StepsLeft = 1 + MaxTrials + 5 * (Len(Files) + 1 - at)
      BY PlaceCounts, <2>4 DEF StepsLeft
    <3> QED BY <3>1
  <2>5. CASE pc = "write"
    <3>1. StepsLeft = MaxTrials + 5 * (Len(Files) + 1 - at)
      BY PlaceCounts, <2>5 DEF StepsLeft
    <3> QED BY <1>1, <3>1
  <2> QED BY <2>1, <2>2, <2>3, <2>4, <2>5 DEF Copying
<1> QED BY <1>1, <1>2

\* Commands that end the run, and those on the clusters.
LEMMA CommandsCount ==
  ASSUME ToolInv, ToolInv',
         \/ End
         \/ DeleteCluster("delete", "startCluster") \/ DeleteCluster("deleteAtStop", "done")
         \/ StartMinikube \/ StartK3d \/ ConnectNetwork \/ StopCluster
         \/ \E label \in Fallible : CommandFails(label)
  PROVE  StepsLeft' \in 0..(StepsLeft - 1)
<1>1. /\ Len(Files) \in Nat \ {0} /\ MaxTrials \in Nat \ {0}
      /\ at \in 1..(Len(Files) + 1) /\ trials \in 0..MaxTrials
  BY Counted
<1>2. CASE End
  <2>1. pc \in {"done", "failed"} /\ pc' = "idle"
    BY <1>2 DEF End, Over
  <2>2. StepsLeft = 1 /\ StepsLeft' = 0
    BY PlaceCounts, <2>1 DEF StepsLeft
  <2> QED BY <2>2
<1>3. CASE \E label \in Fallible : CommandFails(label)
  <2>1. /\ pc' = "failed"
        /\ pc \in Copying \/ pc \in {"delete", "deleteAtStop", "startCluster", "network", "stopCluster", "generate"}
    BY <1>3 DEF CommandFails, Fail, Goto, Fallible, Copying
  <2>2. StepsLeft' = 1
    BY PlaceCounts, <2>1 DEF StepsLeft
  <2>4. StepsLeft \in Nat /\ StepsLeft > 1
    <3>1. MaxSteps \in Nat /\ MaxSteps > 7
      BY <1>1 DEF MaxSteps
    <3>2. CASE pc \in {"delete", "startCluster", "network"}
      <4>1. StepsLeft \in {MaxSteps, MaxSteps - 1, MaxSteps - 2}
        BY PlaceCounts, <3>2 DEF StepsLeft
      <4> QED BY <3>1, <4>1
    <3>4. CASE pc \in {"deleteAtStop", "stopCluster"}
      BY PlaceCounts, <3>4 DEF StepsLeft
    <3>5. CASE pc \in Copying
      BY CopyingLeft, <3>5
    <3>6. CASE pc = "generate"
      BY PlaceCounts, <1>1, <3>6 DEF StepsLeft
    <3> QED BY <2>1, <3>2, <3>4, <3>5, <3>6
  <2> QED BY <2>2, <2>4
<1>4. CASE \/ DeleteCluster("delete", "startCluster") \/ DeleteCluster("deleteAtStop", "done")
           \/ StopCluster
  <2>1. \/ pc = "delete" /\ pc' = "startCluster"
        \/ pc = "deleteAtStop" /\ pc' = "done"
        \/ pc = "stopCluster" /\ pc' \in {"deleteAtStop", "done"}
    BY <1>4 DEF DeleteCluster, StopCluster, Goto
  <2>2. CASE pc = "delete"
    <3>1. StepsLeft = MaxSteps /\ StepsLeft' = MaxSteps - 1
      BY PlaceCounts, <2>1, <2>2 DEF StepsLeft
    <3> QED BY <1>1, <3>1 DEF MaxSteps
  <2>3. CASE pc = "deleteAtStop"
    <3>1. StepsLeft = 2 /\ StepsLeft' = 1
      BY PlaceCounts, <2>1, <2>3 DEF StepsLeft
    <3> QED BY <3>1
  <2>4. CASE pc = "stopCluster"
    <3>1. StepsLeft = 3 /\ StepsLeft' \in {1, 2}
      BY PlaceCounts, <2>1, <2>4 DEF StepsLeft
    <3> QED BY <3>1
  <2> QED BY <2>1, <2>2, <2>3, <2>4
<1>5. CASE StartMinikube \/ StartK3d \/ ConnectNetwork
  <2>1. /\ pc \in {"startCluster", "network"} /\ at = 1 /\ at' = at /\ trials' = trials
        /\ \/ pc' = "network" /\ pc = "startCluster"
           \/ pc' = "copy" \/ pc' = "done"
    BY <1>5, DeployFirstIs DEF StartMinikube, StartK3d, ConnectNetwork, Goto, ToolInv, RunInv, Starting
  <2>2. StepsLeft = IF pc = "network" THEN MaxSteps - 2 ELSE MaxSteps - 1
    BY PlaceCounts, <2>1 DEF StepsLeft
  <2>3. \/ StepsLeft' = MaxSteps - 2 /\ pc # "network"
        \/ StepsLeft' = 4 + MaxTrials + 5 * (Len(Files) + 1 - 1)
        \/ StepsLeft' = 1
    <3>1. CASE pc' = "network"
      BY PlaceCounts, <2>1, <3>1 DEF StepsLeft
    <3>2. CASE pc' = "copy"
      <4>1. StepsLeft' = 4 + MaxTrials + 5 * (Len(Files) + 1 - at')
        BY PlaceCounts, <3>2 DEF StepsLeft
      <4> QED BY <2>1, <4>1
    <3>3. CASE pc' = "done"
      BY PlaceCounts, <3>3 DEF StepsLeft
    <3> QED BY <2>1, <3>1, <3>2, <3>3
  <2> QED BY <1>1, <2>2, <2>3 DEF MaxSteps
<1> QED BY <1>2, <1>3, <1>4, <1>5

\* The copies, the generation and the deployment.
LEMMA DeploymentCounts ==
  ASSUME ToolInv, ToolInv',
         \/ KeepCopy \/ BeginCopy \/ OpenSource \/ CreateCopy \/ ReadSource \/ WriteCopy \/ WriteFails
         \/ Generate \/ GenerateFails
         \/ Kustomize \/ KustomizeFails \/ Create \/ CreateFails \/ Apply \/ ApplyFails
  PROVE  StepsLeft' \in 0..(StepsLeft - 1)
<1>1. /\ Len(Files) \in Nat \ {0} /\ MaxTrials \in Nat \ {0}
      /\ at \in 1..(Len(Files) + 1) /\ trials \in 0..MaxTrials
  BY Counted
<1>2. CASE KeepCopy \/ WriteCopy
  <2>1. pc \in Copying /\ NextFile
    BY <1>2 DEF KeepCopy, WriteCopy, Copying
  <2>2. /\ at' = at + 1 /\ at <= Len(Files)
        /\ \/ pc' = "copy" /\ at' <= Len(Files)
           \/ pc' = "generate" /\ at' = Len(Files) + 1
    BY <1>1, <2>1, NextFileStep
  <2>3. StepsLeft >= MaxTrials + 5 * (Len(Files) + 1 - at) /\ StepsLeft \in Nat
    BY <2>1, CopyingLeft
  <2>4. StepsLeft' = 4 + MaxTrials + 5 * (Len(Files) - at)
    <3>1. CASE pc' = "copy"
      <4>1. StepsLeft' = 4 + MaxTrials + 5 * (Len(Files) + 1 - at')
        BY PlaceCounts, <3>1 DEF StepsLeft
      <4> QED BY <1>1, <2>2, <4>1
    <3>2. CASE pc' = "generate"
      <4>1. StepsLeft' = 4 + MaxTrials
        BY PlaceCounts, <3>2 DEF StepsLeft
      <4>2. at = Len(Files)
        BY <1>1, <2>2, <3>2
      <4> QED BY <1>1, <4>1, <4>2
    <3> QED BY <2>2, <3>1, <3>2
  <2> QED BY <1>1, <2>2, <2>3, <2>4
<1>3. CASE BeginCopy \/ OpenSource \/ CreateCopy \/ ReadSource
  <2>1. /\ \/ pc = "copy" /\ pc' = "open"
           \/ pc = "open" /\ pc' = "create"
           \/ pc = "create" /\ pc' = "read"
           \/ pc = "read" /\ pc' = "write"
        /\ at' = at
    BY <1>3 DEF BeginCopy, OpenSource, CreateCopy, ReadSource, Goto
  <2>2. at <= Len(Files)
    BY <2>1, CopyingLeft DEF Copying
  <2>3. \E n \in 0..3 : /\ StepsLeft = n + 1 + MaxTrials + 5 * (Len(Files) + 1 - at)
                        /\ StepsLeft' = n + MaxTrials + 5 * (Len(Files) + 1 - at)
    <3>1. CASE pc = "copy"
      <4>1. /\ StepsLeft = 4 + MaxTrials + 5 * (Len(Files) + 1 - at)
            /\ StepsLeft' = 3 + MaxTrials + 5 * (Len(Files) + 1 - at)
        BY PlaceCounts, <2>1, <3>1 DEF StepsLeft
      <4> QED BY <4>1
    <3>2. CASE pc = "open"
      <4>1. /\ StepsLeft = 3 + MaxTrials + 5 * (Len(Files) + 1 - at)
            /\ StepsLeft' = 2 + MaxTrials + 5 * (Len(Files) + 1 - at)
        BY PlaceCounts, <2>1, <3>2 DEF StepsLeft
      <4> QED BY <4>1
    <3>3. CASE pc = "create"
      <4>1. /\ StepsLeft = 2 + MaxTrials + 5 * (Len(Files) + 1 - at)
            /\ StepsLeft' = 1 + MaxTrials + 5 * (Len(Files) + 1 - at)
        BY PlaceCounts, <2>1, <3>3 DEF StepsLeft
      <4> QED BY <4>1
    <3>4. CASE pc = "read"
      <4>1. /\ StepsLeft = 1 + MaxTrials + 5 * (Len(Files) + 1 - at)
            /\ StepsLeft' = MaxTrials + 5 * (Len(Files) + 1 - at)
        BY PlaceCounts, <2>1, <3>4 DEF StepsLeft
      <4> QED BY <1>1, <4>1
    <3> QED BY <2>1, <3>1, <3>2, <3>3, <3>4
  <2> QED BY <1>1, <2>2, <2>3
<1>8. CASE WriteFails
  <2>1. pc \in Copying /\ pc' = "failed"
    BY <1>8 DEF WriteFails, Fail, Goto, Copying
  <2>2. StepsLeft' = 1
    BY PlaceCounts, <2>1 DEF StepsLeft
  <2> QED BY <2>1, <2>2, CopyingLeft
<1>4. CASE Generate
  <2>1. pc = "generate" /\ pc' = "kustomize" /\ trials' = MaxTrials
    BY <1>4 DEF Generate, Goto, ToolInv, RunInv
  <2>2. StepsLeft = 4 + MaxTrials /\ StepsLeft' = 3 + MaxTrials
    BY PlaceCounts, <2>1 DEF StepsLeft
  <2> QED BY <1>1, <2>2
<1>5. CASE GenerateFails \/ ApplyFails
  <2>1. pc \in {"generate", "apply"} /\ pc' = "failed"
    BY <1>5 DEF GenerateFails, ApplyFails, Fail, Goto
  <2>2. StepsLeft \in {4 + MaxTrials, 2} /\ StepsLeft' = 1
    BY PlaceCounts, <2>1 DEF StepsLeft
  <2> QED BY <1>1, <2>2
<1>6. CASE Kustomize \/ KustomizeFails
  <2>1. /\ pc = "kustomize" /\ trials > 0
        /\ \/ pc' = "deploy" \/ pc' = "failed"
           \/ pc' = "kustomize" /\ trials' = trials - 1
    BY <1>6 DEF Kustomize, KustomizeFails, Goto, ToolInv, RunInv
  <2>2. StepsLeft = 3 + trials
    BY PlaceCounts, <2>1 DEF StepsLeft
  <2>3. StepsLeft' \in {3, 1, 2 + trials}
    <3>1. CASE pc' = "kustomize"
      <4>1. StepsLeft' = 3 + trials' /\ trials' = trials - 1
        BY PlaceCounts, <2>1, <3>1 DEF StepsLeft
      <4> QED BY <1>1, <4>1
    <3>2. CASE pc' \in {"deploy", "failed"}
      BY PlaceCounts, <3>2 DEF StepsLeft
    <3> QED BY <2>1, <3>1, <3>2
  <2> QED BY <1>1, <2>1, <2>2, <2>3
<1>7. CASE Create \/ CreateFails \/ Apply
  <2>1. \/ pc = "deploy" /\ pc' \in {"done", "apply"}
        \/ pc = "apply" /\ pc' = "done"
    BY <1>7 DEF Create, CreateFails, Apply, Goto
  <2>2. \/ StepsLeft = 3 /\ StepsLeft' \in {1, 2}
        \/ StepsLeft = 2 /\ StepsLeft' = 1
    BY PlaceCounts, <2>1 DEF StepsLeft
  <2> QED BY <2>2
<1> QED BY <1>2, <1>3, <1>4, <1>5, <1>6, <1>7, <1>8

\* A run ends after at most MaxSteps commands and file operations, for any files,
\* invocations, trials, edits and whatever earlier runs have left; and each brings
\* it nearer to its end (start.go, stop.go, deploy.go, kubectl.go Kustomize).
THEOREM RunsAreBounded == Spec => RunIsBounded
<1> DEFINE Shrinks == IF source' # source THEN StepsLeft' = StepsLeft
                      ELSE StepsLeft' \in 0..(IF pc = "idle" THEN MaxSteps ELSE StepsLeft - 1)
<1>1. ToolInv /\ ToolInv' /\ [Next]_vars => [Shrinks]_vars
  <2> SUFFICES ASSUME ToolInv, ToolInv', Next PROVE Shrinks
    OBVIOUS
  <2>1. /\ Len(Files) \in Nat \ {0} /\ MaxTrials \in Nat \ {0}
        /\ at \in 1..(Len(Files) + 1) /\ trials \in 0..MaxTrials
    BY Counted
  <2>2. ASSUME NEW i \in Invocation, Invoke(i) PROVE Shrinks
    <3>1. /\ pc = "idle" /\ at = 1 /\ at' = at /\ trials' = trials
          /\ pc' \in {"copy", "done", "failed", "stopCluster", "delete", "startCluster"}
      BY <2>2, DeployFirstIs DEF Invoke, FirstCall, ToolInv, RunInv
    <3>2. StepsLeft' \in {4 + MaxTrials + 5 * (Len(Files) + 1 - 1), 1, 3, MaxSteps, MaxSteps - 1}
      BY PlaceCounts, <3>1 DEF StepsLeft
    <3>3. source' = source
      BY <2>2 DEF Invoke
    <3> QED BY <2>1, <3>1, <3>2, <3>3 DEF MaxSteps
  <2>3. CASE RunStep
    <3>1. pc # "idle"
      BY <2>3
      DEF RunStep, Fallible, End, DeleteCluster, StartMinikube, StartK3d, ConnectNetwork, StopCluster, CommandFails,
          KeepCopy, BeginCopy, OpenSource, CreateCopy, ReadSource, WriteCopy, WriteFails, Generate, GenerateFails, Kustomize, KustomizeFails,
          Create, CreateFails, Apply, ApplyFails
    <3>2. source' = source
      BY <2>3
      DEF RunStep, End, Over, DeleteCluster, StartMinikube, StartK3d, ConnectNetwork, StopCluster, CommandFails,
          KeepCopy, BeginCopy, OpenSource, CreateCopy, ReadSource, WriteCopy, WriteFails, Generate, GenerateFails, Kustomize, KustomizeFails,
          Create, CreateFails, Apply, ApplyFails
    <3>3. StepsLeft' \in 0..(StepsLeft - 1)
      BY <2>3, CommandsCount, DeploymentCounts DEF RunStep
    <3> QED BY <3>1, <3>2, <3>3
  <2>4. CASE Kill
    <3>1. pc \notin {"idle", "done", "failed"} /\ pc' = "idle"
      BY <2>4 DEF Kill, Over
    <3>3. StepsLeft' = 0
      BY PlaceCounts, <3>1 DEF StepsLeft
    <3>4. StepsLeft \in Nat \ {0}
      <4>1. CASE pc \in Copying
        BY CopyingLeft, <4>1
      <4>2. CASE pc \notin Copying
        <5>1. StepsLeft \in {2, 3, 3 + trials, 4 + MaxTrials, MaxSteps - 2, MaxSteps - 1, MaxSteps}
          BY PlaceCounts, <3>1, <4>2 DEF StepsLeft, ToolInv, TypeOK, Copying
        <5> QED BY <2>1, <5>1 DEF MaxSteps
      <4> QED BY <4>1, <4>2
    <3>5. source' = source
      BY <2>4 DEF Kill, Over
    <3> QED BY <3>1, <3>3, <3>4, <3>5
  <2>5. ASSUME NEW d \in Source, NEW f \in File, NEW younger \in BOOLEAN, Edit(d, f, younger) PROVE Shrinks
    <3>1. StepsLeft' = StepsLeft
      BY <2>5 DEF Edit, run_vars, StepsLeft
    <3>2. source'[d][f] = source[d][f] + 1 /\ source[d][f] \in Nat
      BY <2>5 DEF Edit, ToolInv, TypeOK
    <3> QED BY <3>1, <3>2
  <2> QED BY <2>2, <2>3, <2>4, <2>5 DEF Next
<1> QED BY <1>1, ToolInvHolds, PTL DEF Spec, RunIsBounded

=============================================================================

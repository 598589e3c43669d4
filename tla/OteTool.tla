------------------------------- MODULE OteTool --------------------------------
(***************************************************************************)
(* Runs of ote, one after the other: start, stop and deploy, over the      *)
(* clusters of the two environments, the kustomization directory that each *)
(* run updates from the one before, and operator directories that somebody *)
(* edits or unpacks a release into meanwhile.  A run may be killed at any  *)
(* point.                                                                  *)
(***************************************************************************)
EXTENDS Configuration

CONSTANTS
    Files,       \* the files to copy, in order: the skeleton, then the yamls
    Directory,   \* operator directories
    Template,    \* operator-template files that contain a "{{."
    Invocation,  \* sources of the configuration of a run
    MaxRuns,     \* bound: runs
    MaxEdits,    \* bound: revisions of a source file
    MaxTrials    \* Kubectl.Kustomize: five

Environments == {"minikube", "k3d"}

\* The skeleton of the kustomization is copied in the same way from a directory
\* of its own.
Skeleton == "kustomization"
File == {Files[i] : i \in 1..Len(Files)}
Source == Directory \cup {"template"}
Home(f) == IF f = Skeleton THEN {"template"} ELSE Directory

Missing == [kind |-> "missing"]
Partial == [kind |-> "partial"]

Whole(d, n) == [kind |-> "whole", from |-> d, revision |-> n]
Contents == {Missing, Partial} \cup {Whole(d, n) : d \in Source, n \in 1..MaxEdits}

ASSUME ToolAssumption ==
    /\ Files \in Seq(STRING) /\ Len(Files) > 0
    /\ \A i, j \in 1..Len(Files) : Files[i] = Files[j] => i = j
    /\ MaxEdits \in Nat \ {0} /\ MaxRuns \in Nat /\ MaxTrials \in Nat \ {0}
    /\ Invocation # {}
    /\ \A i \in Invocation :
          /\ Accepted(i) => Configuration(i).directory \in Directory
          /\ DOMAIN i.options \subseteq Option \cup {"skipDelete", "skipDeploy"}
          /\ "deploy" \in DOMAIN i.custom => i.custom.deploy \in BOOLEAN

VARIABLES
    pc,        \* the next call of the run, "idle" between runs
    run,       \* the sources of its configuration
    cfg,       \* the configuration
    at,        \* the file to copy next
    trials,    \* trials of kustomize left
    runs,      \* number of runs
    source,    \* the revision of each source file
    copies,    \* the files of the kustomization
    newer,     \* the directories whose file is younger than the copy
    held,      \* what the run has open of a source, or has read of it
    generated, \* test-suite/deploy-operator.yaml
    manifest,  \* ote-deployment.yaml
    clusters,  \* state of each environment's cluster, and what is deployed there
    network,   \* k3d's network: "absent", "present" or "connected" to the registry
    context,   \* the cluster kubectl talks to, or "none"
    origin,    \* history: the directory each copy was made from
    hidden,    \* history: the directories whose file has changed while a run copied
               \* it, or without becoming younger than the copy, since a run last
               \* began to copy it
    seen,      \* history: the revision this run found of the source of each file
    made       \* history: the files this run has copied

copy_vars == <<held, seen, made>>
run_vars == <<pc, run, cfg, at, trials, runs, held, seen, made>>
file_vars == <<copies, newer, generated, manifest, origin, hidden>>
world_vars == <<clusters, network, context>>
vars == <<pc, run, cfg, at, trials, runs, source, copies, newer, held, generated, manifest,
          clusters, network, context, origin, hidden, seen, made>>

cmd == Command(run.args)

Dir(f) == IF f = Skeleton THEN "template" ELSE cfg.directory

Current(d, f) == Whole(d, source[d][f])

\* What is generated from a template.
Rendered == [kind |-> "rendered", registry |-> cfg.registry, tag |-> cfg.tag, policy |-> cfg.operatorPullPolicy]
Absent == [state |-> "absent", deployed |-> Missing]

NoRun == CHOOSE i \in Invocation : TRUE
Unseen == [f \in File |-> 0]

Init ==
    /\ pc = "idle" /\ run = NoRun /\ cfg = Default /\ at = 1 /\ trials = MaxTrials
    /\ held = Missing /\ seen = Unseen /\ made = {} /\ runs = 0
    /\ source = [d \in Source |-> [f \in File |-> 1]]
    /\ copies = [f \in File |-> Missing] /\ newer = [f \in File |-> {}]
    /\ generated = Missing /\ manifest = Missing
    /\ clusters = [e \in Environments |-> Absent]
    /\ network = "absent" /\ context = "none"
    /\ origin = [f \in File |-> "none"] /\ hidden = [f \in File |-> {}]

-----------------------------------------------------------------------------
(* Beginning and end of a run. *)

Goto(label) == pc' = label /\ UNCHANGED <<run, cfg, runs>>

Fail == Goto("failed") /\ UNCHANGED <<at, trials, copy_vars>>

\* deploy(): nothing unless configured.
DeployFirst(c) == IF c.deploy THEN "copy" ELSE "done"

\* GetEnvironment, and the container engine that k3d needs.
Supported(c) ==
    /\ c.environment \in Environments
    /\ c.environment = "k3d" => c.engine \in {"docker", "podman"}

\* Mutant: without a delete the cluster is taken to be up.
FirstCallAssumed(command, c) ==
    IF command = "deploy" THEN DeployFirst(c)
    ELSE IF ~Supported(c) THEN "failed"
    ELSE IF command = "stop" THEN "stopCluster"
    ELSE IF c.deleteAtStart THEN "delete" ELSE DeployFirst(c)

\* RunCommand, start and stop.
FirstCall(command, c) ==
    IF command = "deploy" THEN DeployFirst(c)
    ELSE IF ~Supported(c) THEN "failed"
    ELSE IF command = "stop" THEN "stopCluster"
    ELSE IF c.deleteAtStart THEN "delete" ELSE "startCluster"

Invoke(i) ==
    /\ pc = "idle" /\ runs < MaxRuns
    /\ run' = i /\ runs' = runs + 1
    /\ \/ /\ Accepted(i) /\ ~i.underTest
          /\ cfg' = Configuration(i)
          /\ pc' = FirstCall(Command(i.args), cfg')
       \/ pc' = "failed" /\ UNCHANGED cfg
    /\ UNCHANGED <<at, trials, copy_vars, source, file_vars, world_vars>>

\* Nothing of a run outlives it but its files and clusters.
Over ==
    /\ pc' = "idle" /\ run' = NoRun /\ cfg' = Default /\ at' = 1 /\ trials' = MaxTrials
    /\ held' = Missing /\ seen' = Unseen /\ made' = {}
    /\ UNCHANGED <<runs, source, file_vars, world_vars>>

End == pc \in {"done", "failed"} /\ Over

-----------------------------------------------------------------------------
(* The clusters (k3d and minikube are external). *)

\* The command reports an error.
CommandFails(label) ==
    /\ pc = label
    /\ Fail
    /\ UNCHANGED <<source, file_vars, world_vars>>

\* DeleteCluster; a network to which the registry is connected is not removed.
DeleteCluster(label, next) ==
    /\ pc = label
    /\ clusters' = [clusters EXCEPT ![cfg.environment] = Absent]
    /\ network' = IF cfg.environment = "k3d" /\ network = "present" THEN "absent" ELSE network
    /\ context' = IF context = cfg.environment THEN "none" ELSE context
    /\ Goto(next)
    /\ UNCHANGED <<at, trials, copy_vars, source, file_vars>>

\* "minikube start": makes the cluster or takes it up again.
StartMinikube ==
    /\ pc = "startCluster" /\ cfg.environment = "minikube"
    /\ clusters' = [clusters EXCEPT !["minikube"].state = "running"]
    /\ context' = "minikube"
    /\ Goto(DeployFirst(cfg))
    /\ UNCHANGED <<at, trials, copy_vars, source, file_vars, network>>

\* "k3d cluster create": there must be none of this name.
StartK3d ==
    /\ pc = "startCluster" /\ cfg.environment = "k3d"
    /\ clusters["k3d"].state = "absent"
    /\ clusters' = [clusters EXCEPT !["k3d"] = [state |-> "running", deployed |-> Missing]]
    /\ network' = IF network = "absent" THEN "present" ELSE network
    /\ context' = "k3d"
    /\ Goto("network")
    /\ UNCHANGED <<at, trials, copy_vars, source, file_vars>>

LocalRegistry(registry) ==
    registry # NoRegistry /\ HostOfRegistry(registry) \in Loopback

\* Mutant: a network that exists is taken for connected.
ConnectIfAbsent ==
    /\ pc = "network"
    /\ cfg.registry # NoRegistry => HostOfRegistry(cfg.registry) \in Known
    /\ network' = IF network = "absent" THEN "connected" ELSE network
    /\ Goto(DeployFirst(cfg))
    /\ UNCHANGED <<at, trials, copy_vars, source, file_vars, clusters, context>>

\* k3dEnv.connectNetwork: a registry on this machine joins the cluster's network.
ConnectNetwork ==
    /\ pc = "network"
    /\ cfg.registry # NoRegistry => HostOfRegistry(cfg.registry) \in Known
    /\ network' = IF LocalRegistry(cfg.registry) THEN "connected" ELSE network
    /\ Goto(DeployFirst(cfg))
    /\ UNCHANGED <<at, trials, copy_vars, source, file_vars, clusters, context>>

StopCluster ==
    /\ pc = "stopCluster"
    /\ clusters[cfg.environment].state # "absent"
    /\ clusters' = [clusters EXCEPT ![cfg.environment].state = "stopped"]
    /\ Goto(IF cfg.deleteAtStop THEN "deleteAtStop" ELSE "done")
    /\ UNCHANGED <<at, trials, copy_vars, source, file_vars, network, context>>

-----------------------------------------------------------------------------
(* The kustomization. *)

\* On to the next file, and to the generation after the last.
NextFile ==
    /\ at' = at + 1
    /\ Goto(IF at < Len(Files) THEN "copy" ELSE "generate")
    /\ UNCHANGED trials

\* Mutant: what is there is kept.
PresentIsCurrent(f) == copies[f] # Missing

\* CanUpdateFile: the copy is there and no older than the source.
IsCurrent(f) == copies[f] # Missing /\ Dir(f) \notin newer[f]

\* What the run finds in the source when it looks at the times.
Look(f) == seen' = [seen EXCEPT ![f] = source[Dir(f)][f]]

\* CopyOrUpdateFile on a copy that can stay.
KeepCopy ==
    /\ pc = "copy" /\ IsCurrent(Files[at])
    /\ Look(Files[at]) /\ NextFile
    /\ UNCHANGED <<held, made, source, file_vars, world_vars>>

\* os.Stat and CanUpdateFile on one that cannot.
BeginCopy ==
    /\ pc = "copy" /\ ~IsCurrent(Files[at])
    /\ Look(Files[at]) /\ Goto("open")
    /\ hidden' = [hidden EXCEPT ![Files[at]] = @ \ {Dir(Files[at])}]
    /\ UNCHANGED <<at, trials, held, made, source, copies, newer, generated, manifest, origin, world_vars>>

\* os.Open: a source that is replaced from here on stays open as it is.
OpenSource ==
    /\ pc = "open"
    /\ held' = Current(Dir(Files[at]), Files[at])
    /\ Goto("create")
    /\ UNCHANGED <<at, trials, seen, made, source, file_vars, world_vars>>

\* os.Create: from here on the copy is there, and younger than any source.
CreateCopy ==
    /\ pc = "create"
    /\ copies' = [copies EXCEPT ![Files[at]] = Partial]
    /\ newer' = [newer EXCEPT ![Files[at]] = {}]
    /\ origin' = [origin EXCEPT ![Files[at]] = Dir(Files[at])]
    /\ Goto("read")
    /\ UNCHANGED <<at, trials, copy_vars, source, generated, manifest, hidden, world_vars>>

\* io.Copy reads: the file that was opened or, of one written in place since, what
\* that made of it, or parts of several revisions.
ReadSource ==
    /\ pc = "read"
    /\ \/ \E n \in held.revision..source[Dir(Files[at])][Files[at]] : held' = Whole(Dir(Files[at]), n)
       \/ held # Current(Dir(Files[at]), Files[at]) /\ held' = Partial
    /\ Goto("write")
    /\ UNCHANGED <<at, trials, seen, made, source, file_vars, world_vars>>

\* io.Copy writes: the copy is younger than any change made while it was read.
WriteCopy ==
    /\ pc = "write"
    /\ copies' = [copies EXCEPT ![Files[at]] = held]
    /\ newer' = [newer EXCEPT ![Files[at]] = {}]
    /\ held' = Missing /\ made' = made \cup {Files[at]}
    /\ NextFile
    /\ UNCHANGED <<seen, source, generated, manifest, origin, hidden, world_vars>>

\* Mutant: the error of io.Copy is dropped.
WriteFailsUnnoticed ==
    /\ pc = "write"
    /\ newer' = [newer EXCEPT ![Files[at]] = {}]
    /\ held' = Missing /\ made' = made \cup {Files[at]}
    /\ NextFile
    /\ UNCHANGED <<seen, source, copies, generated, manifest, origin, hidden, world_vars>>

\* It has written a part only.
WriteFails ==
    /\ pc = "write"
    /\ newer' = [newer EXCEPT ![Files[at]] = {}]
    /\ Fail
    /\ UNCHANGED <<source, copies, generated, manifest, origin, hidden, world_vars>>

\* GenerateDeployOperatorYaml: nothing unless there is something to fill in.
Generate ==
    /\ pc = "generate"
    /\ generated' = IF cfg.template \in Template THEN Rendered ELSE generated
    /\ Goto("kustomize")
    /\ UNCHANGED <<at, trials, copy_vars, source, copies, newer, hidden, manifest, origin, world_vars>>

GenerateFails ==
    /\ pc = "generate" /\ cfg.template \in Template
    /\ generated' = Partial
    /\ Fail
    /\ UNCHANGED <<source, copies, newer, hidden, manifest, origin, world_vars>>

\* "kubectl kustomize" needs every file; one cut short may pass for a yaml.
Kustomize ==
    /\ pc = "kustomize"
    /\ generated # Missing /\ \A f \in File : copies[f] # Missing
    /\ manifest' = [base |-> copies, custom |-> generated]
    /\ Goto("deploy")
    /\ UNCHANGED <<at, trials, copy_vars, source, copies, newer, hidden, generated, origin, world_vars>>

\* Mutant: it is tried without end.
KustomizeForever ==
    /\ pc = "kustomize"
    /\ manifest' = Partial
    /\ Goto("kustomize")
    /\ UNCHANGED <<at, trials, copy_vars, source, copies, newer, hidden, generated, origin, world_vars>>

\* A failed trial has emptied the output.
KustomizeFails ==
    /\ pc = "kustomize"
    /\ manifest' = Partial /\ trials' = trials - 1
    /\ Goto(IF trials > 1 THEN "kustomize" ELSE "failed")
    /\ UNCHANGED <<at, copy_vars, source, copies, newer, hidden, generated, origin, world_vars>>

-----------------------------------------------------------------------------
(* The deployment, to the cluster that kubectl talks to. *)

Reachable == context # "none" /\ clusters[context].state = "running"

Deployed(what) == clusters' = [clusters EXCEPT ![context].deployed = what]

\* "kubectl create": fails if there is any of it already.
Create ==
    /\ pc = "deploy" /\ Reachable /\ clusters[context].deployed = Missing
    /\ Deployed(manifest)
    /\ Goto("done")
    /\ UNCHANGED <<at, trials, copy_vars, source, file_vars, network, context>>

\* It fails, after some of it or without effect.
CreateFails ==
    /\ pc = "deploy"
    /\ \/ Reachable /\ clusters[context].deployed = Missing /\ Deployed(Partial)
       \/ UNCHANGED clusters
    /\ Goto("apply")
    /\ UNCHANGED <<at, trials, copy_vars, source, file_vars, network, context>>

Apply ==
    /\ pc = "apply" /\ Reachable
    /\ Deployed(manifest)
    /\ Goto("done")
    /\ UNCHANGED <<at, trials, copy_vars, source, file_vars, network, context>>

ApplyFails ==
    /\ pc = "apply"
    /\ (Reachable /\ Deployed(Partial)) \/ UNCHANGED clusters
    /\ Fail
    /\ UNCHANGED <<source, file_vars, network, context>>

-----------------------------------------------------------------------------

\* CopyOrUpdateFile has looked at the source and not yet written the copy.
UnderWay(d, f) ==
    pc \in {"open", "create", "read", "write"} /\ Files[at] = f /\ Dir(f) = d

\* A source file changes, replaced or in place: an editor dates it now, and a
\* release unpacked over it as it likes, as old as the copy or older too.
Edit(d, f, younger) ==
    /\ d \in Home(f) /\ source[d][f] < MaxEdits
    /\ source' = [source EXCEPT ![d][f] = @ + 1]
    /\ newer' = [newer EXCEPT ![f] = IF copies[f] = Missing THEN @ ELSE IF younger THEN @ \cup {d} ELSE @ \ {d}]
    /\ hidden' = [hidden EXCEPT ![f] = IF UnderWay(d, f) \/ (copies[f] # Missing /\ ~younger) THEN @ \cup {d} ELSE @]
    /\ UNCHANGED <<run_vars, copies, generated, manifest, origin, world_vars>>

\* The run is killed.  What it had open is left as it is, and what a command or a
\* write was about as one that fails may leave it.
Kill ==
    /\ pc \notin {"idle", "done", "failed"}
    /\ Over

\* The places of commands and file operations that may fail without effect.
Fallible == {"delete", "deleteAtStop", "startCluster", "network", "stopCluster",
             "copy", "open", "create", "read", "write", "generate"}

RunStep ==
    \/ End
    \/ DeleteCluster("delete", "startCluster") \/ DeleteCluster("deleteAtStop", "done")
    \/ StartMinikube \/ StartK3d \/ ConnectNetwork \/ StopCluster
    \/ \E label \in Fallible :
           CommandFails(label)
    \/ KeepCopy \/ BeginCopy \/ OpenSource \/ CreateCopy \/ ReadSource \/ WriteCopy \/ WriteFails
    \/ Generate \/ GenerateFails
    \/ Kustomize \/ KustomizeFails \/ Create \/ CreateFails \/ Apply \/ ApplyFails

Next ==
    \/ \E i \in Invocation : Invoke(i)
    \/ RunStep
    \/ Kill
    \/ \E d \in Source, f \in File, younger \in BOOLEAN : Edit(d, f, younger)

Spec == Init /\ [][Next]_vars

LiveSpec == Spec /\ WF_vars(RunStep)

-----------------------------------------------------------------------------
(* Properties. *)

TypeOK ==
    /\ pc \in {"idle", "delete", "startCluster", "network", "copy", "open", "create", "read", "write",
               "generate", "kustomize", "deploy", "apply", "stopCluster", "deleteAtStop", "done", "failed"}
    /\ run \in Invocation /\ DOMAIN cfg = Setting
    /\ at \in 1..(Len(Files) + 1) /\ trials \in 0..MaxTrials /\ runs \in 0..MaxRuns
    /\ source \in [Source -> [File -> 1..MaxEdits]]
    /\ copies \in [File -> Contents] /\ newer \in [File -> SUBSET Source]
    /\ origin \in [File -> Source \cup {"none"}] /\ hidden \in [File -> SUBSET Source]
    /\ held \in Contents /\ seen \in [File -> 0..MaxEdits] /\ made \in SUBSET File
    /\ DOMAIN clusters = Environments
    /\ \A e \in Environments : /\ DOMAIN clusters[e] = {"state", "deployed"}
                               /\ clusters[e].state \in {"absent", "running", "stopped"}
    /\ network \in {"absent", "present", "connected"}
    /\ context \in Environments \cup {"none"}

Running == pc \notin {"idle", "failed"}

\* Each setting comes from the strongest source that names it, in the order of
\* the README, whatever is resolved of it afterwards (setup.go, command_line.go).
StrongestWins ==
    Running =>
        /\ \A s \in {"cluster", "tag", "enterprise", "directory", "template", "registryConfig"} :
               cfg[s] = Strongest(s, run)
        /\ cfg.deploy = IF "skipDeploy" \in DOMAIN run.options THEN ~run.options.skipDeploy
                                                              ELSE Strongest("deploy", run)
        /\ \A s \in {"environment", "engine", "kubeConfig"} :
               Strongest(s, run) # "detect" => cfg[s] = Strongest(s, run)
        /\ \A s \in {"pullPolicy", "operatorPullPolicy"} : cfg[s] = Spelling(Strongest(s, run))
        /\ cfg.environment = "k3d" => cfg.registry = Strongest("registry", run)

Deploys == cmd \in {"start", "deploy"} /\ cfg.deploy

\* The versions that a run's directory has had of a file since it looked there.
Versions(f) == {Whole(Dir(f), n) : n \in seen[f]..source[Dir(f)][f]}

\* What may keep a run from having one of them.  Of a copy it has made: it was read
\* while it was written in place.  Of one it has kept: it was cut short or mixed
\* earlier, is of another directory, or a change of its source does not show.
Excused(f) ==
    IF f \in made THEN copies[f] = Partial /\ Dir(f) \in hidden[f]
                  ELSE copies[f] = Partial \/ origin[f] # Dir(f) \/ Dir(f) \in hidden[f]

\* What a run leaves deployed when it succeeds is what it generated from its
\* configuration and, file by file, what its directory has held at a moment since
\* the run looked at it: of each file that it copied itself, whoever edits, kills
\* or fails and whatever was there; and of each it kept, unless Excused
\* (deploy.go, file.go, generate.go).
DeploysWhatItFound ==
    pc = "done" /\ Deploys =>
        LET deployed == clusters[context].deployed
        IN  /\ deployed = manifest
            /\ cfg.template \in Template => deployed.custom = Rendered
            /\ \A f \in File : Excused(f) \/ deployed.base[f] \in Versions(f)

\* A successful start leaves its own cluster running and kubectl talking to it,
\* with a local registry in reach of k3d, and after a delete with nothing of
\* what was there before (start.go, k3d.go, minikube.go).
StartDelivers ==
    pc = "done" /\ cmd = "start" =>
        /\ context = cfg.environment
        /\ clusters[cfg.environment].state = "running"
        /\ cfg.environment = "k3d" /\ LocalRegistry(cfg.registry) => network = "connected"
        /\ cfg.deleteAtStart /\ ~cfg.deploy => clusters[cfg.environment].deployed = Missing

\* Start and stop never touch the cluster of the other environment, though they
\* deploy to whichever kubectl talks to (deploy.go, environment.go).
StaysHome ==
    [][\A e \in Environments : clusters'[e] # clusters[e] => cmd = "deploy" \/ e = cfg.environment]_vars

\* The most commands and file operations that a run has still to make: five for
\* each file to copy, a trial of kustomize each, one for each other place.
MaxSteps == 7 + MaxTrials + 5 * Len(Files)

StepsFrom(place, file, left) ==
    CASE place = "idle" -> 0
      [] place \in {"done", "failed"} -> 1
      [] place \in {"apply", "deleteAtStop"} -> 2
      [] place \in {"deploy", "stopCluster"} -> 3
      [] place = "kustomize" -> 3 + left
      [] place = "generate" -> 4 + MaxTrials
      [] place = "write" -> MaxTrials + 5 * (Len(Files) + 1 - file)
      [] place = "read" -> 1 + MaxTrials + 5 * (Len(Files) + 1 - file)
      [] place = "create" -> 2 + MaxTrials + 5 * (Len(Files) + 1 - file)
      [] place = "open" -> 3 + MaxTrials + 5 * (Len(Files) + 1 - file)
      [] place = "copy" -> 4 + MaxTrials + 5 * (Len(Files) + 1 - file)
      [] place = "network" -> MaxSteps - 2
      [] place = "startCluster" -> MaxSteps - 1
      [] place = "delete" -> MaxSteps

StepsLeft == StepsFrom(pc, at, trials)

\* Whatever commands answer, whoever edits sources meanwhile and whatever earlier
\* runs have left, each step of a run brings it nearer to its end, which is at
\* most MaxSteps away (start.go, stop.go, deploy.go, kubectl.go Kustomize).
RunIsBounded ==
    [][IF source' # source THEN StepsLeft' = StepsLeft
       ELSE StepsLeft' \in 0..(IF pc = "idle" THEN MaxSteps ELSE StepsLeft - 1)]_vars

\* Every run ends: no retry or copy goes on for ever.
RunEnds == pc # "idle" ~> pc = "idle"

Copying == {"copy", "open", "create", "read", "write"}
Deploying == {"generate", "kustomize", "deploy", "apply"}
Starting == {"delete", "startCluster", "network"}
Stopping == {"stopCluster", "deleteAtStop"}

\* Where a run is says which command it is and how far it has come.
RunInv ==
    /\ Running => Accepted(run) /\ ~run.underTest /\ cfg = Configuration(run)
    /\ pc \in Starting => cmd = "start" /\ cfg.environment \in Environments
    /\ pc \in Stopping => cmd = "stop" /\ cfg.environment \in Environments
    /\ pc \in Copying \cup Deploying => Deploys
    /\ pc \in Copying => at <= Len(Files)
    /\ pc \in Deploying \/ (pc = "done" /\ Deploys) => at = Len(Files) + 1
    /\ pc \in Starting \cup Stopping \cup {"idle"} => at = 1
    /\ made \subseteq {Files[i] : i \in 1..(at - 1)}
    /\ pc = "kustomize" => trials > 0
    /\ pc \in Starting \cup Stopping \cup Copying \cup {"idle", "generate"} => trials = MaxTrials

\* A copy that is whole is a copy of its origin as it is, unless the times or a
\* hidden change say otherwise.
KeptInv ==
    \A f \in File :
        copies[f] \notin {Missing, Partial} /\ origin[f] \notin newer[f] \cup hidden[f] =>
            origin[f] \in Home(f) /\ copies[f] = Current(origin[f], f)

\* What a run has in hand is a version of the source since it looked there, and
\* the last one if nobody has touched it.
HeldInv ==
    LET f == Files[at]
    IN  /\ pc \in Copying \ {"copy"} => seen[f] \in 1..source[Dir(f)][f]
        /\ pc \in {"create", "read"} => held \in Versions(f)
        /\ pc \in {"create", "read", "write"} /\ Dir(f) \notin hidden[f] => held = Current(Dir(f), f)
        /\ pc = "write" => held \in Versions(f) \cup {Partial}
        /\ pc \in {"read", "write"} => origin[f] = Dir(f) /\ copies[f] = Partial

\* The files that a run has passed are what it found.
PassedInv ==
    Running /\ Deploys => \A i \in 1..(at - 1) : LET f == Files[i] IN Excused(f) \/ copies[f] \in Versions(f)

CopyInv == KeptInv /\ HeldInv /\ PassedInv

\* What is generated, put together and deployed is one thing.
DeployInv ==
    /\ (pc \in {"kustomize", "deploy", "apply"} \/ (pc = "done" /\ Deploys)) /\ cfg.template \in Template =>
           generated = Rendered
    /\ pc \in {"deploy", "apply"} \/ (pc = "done" /\ Deploys) =>
           manifest = [base |-> copies, custom |-> generated]
    /\ pc = "done" /\ Deploys => context # "none" /\ clusters[context].deployed = manifest

\* A start works on the cluster it has started.
ClusterInv ==
    cmd = "start" =>
        /\ pc = "startCluster" /\ cfg.deleteAtStart => clusters[cfg.environment] = Absent
        /\ pc \in {"network", "done"} \cup Copying \cup Deploying =>
              /\ cfg.environment \in Environments /\ context = cfg.environment
              /\ clusters[context].state = "running"
        /\ (pc = "network" \/ (pc = "done" /\ ~cfg.deploy)) /\ cfg.deleteAtStart =>
              clusters[context].deployed = Missing
        /\ pc \in {"done"} \cup Copying \cup Deploying =>
              (cfg.environment = "k3d" /\ LocalRegistry(cfg.registry) => network = "connected")

\* The inductive invariant: what runs that were killed, failed or finished have
\* left is never taken for what this one has made (deploy.go, file.go, start.go).
ToolInv == TypeOK /\ RunInv /\ CopyInv /\ DeployInv /\ ClusterInv

\* "All settings are listed in default.cfg. They can be overridden" by variables,
\* custom.cfg and options (README.md:61): a stop deletes the cluster only if the
\* strongest source that names deleteAtStop, or an option given, says so.
DeletesAsConfigured ==
    pc = "deleteAtStop" => "skipDelete" \in DOMAIN run.options \/ Strongest("deleteAtStop", run)

=============================================================================

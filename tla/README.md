# A verification development for ote

`ote` ("operator test environment", `test-suite/`) is a Go tool and test suite
for the MySQL Operator for Kubernetes. `ote start|stop|deploy` prepares a local
cluster (k3d or minikube) and deploys the operator; the e2e tests, run one
package at a time by `go test -p 1`, drive the cluster through a client library
(`util/k8s`), check it (`util/suite`) and clean up after themselves. Everything
the suite talks to runs concurrently with it and asynchronously: the API
server, its controllers, the operator, the MySQL group. That is where the code
is hard, and what these modules are about.

All paths below are relative to `src/test-suite/`.

## Inventory

| Component | State it keeps | Operations | Interacts with | Hard behaviour | What makes it correct |
|---|---|---|---|---|---|
| Unit lifecycle (`util/suite/{suite,unit,namespace,helpers}.go`) | two namespace names; progress of a wipe | `Setup`, `Teardown`, `WipeNamespace`, waits, applies | k8s client, controllers, operator | objects re-created or collected during the wipe; failed calls; a run killed anywhere | a test starts in a fresh namespace, leaves nothing, touches nothing else |
| k8s client, deletes (`util/k8s/client.go:280-473`) | a goroutine, a context and a request per call | `deleteItem` and 14 `Delete*` | API server | a request that outlives its call; a goroutine nobody hears | an answered delete is over; the caller always returns |
| k8s client, waits (`client.go:637-794`) | watch, goroutine, timer per call | `WaitOnPod`, `WaitOnPodGone`, `WaitOnInnoDBCluster`, `WaitOnInnoDBClusterGone` | API server, controllers | look-then-watch gap, stream ended by the server, timer racing a match, versions | nil is true, a timeout is honest, a match is found |
| k8s client, reads and patches (`client.go:59-278,506-635`) | none | `List*`, `Get*`, `Has*`, patches | API server | namespace argument ignored for volumes; `HasNamespace("")` | what the callers rely on (in the modules of the callers) |
| `CrossSyncGtids` (`util/suite/cluster.go`) | sessions, a GTID set | one call | MySQL group | commits meanwhile; a wait without timeout | nil means all pods have all that any had; sessions closed |
| Recovery scenarios (`e2e/cluster/config/cluster{1,3}_defaults_test.go`) | a resource version, a remembered error | get version, kill, restart or delete pods, wait, wait | client, kubectl, sessions, operator | edge-triggered waits, a kill retried, a delete that fails and is only recorded | a pass proves harm, notice and recovery in this order |
| Polling waits, events (`unit.go:119-170,215-243,271-289`) | poll counter | `Wait`, `AssertGotClusterEvent`, `WaitOnRouters*` | API server | stale and expiring events; no look after the last sleep | an assertion that times out has looked to the end |
| Cluster checks (`util/suite/check_*.go`) | fetched objects, a primary, sessions | `CheckAll`, `CheckData` and their parts | client, sessions, group, operator | a cluster that changes between two reads; lost errors; sessions never closed | on a cluster that stays as it is nil iff it is as described; on one that changes nil stands for what has held |
| MySQL sessions (`util/mysql/`) | connection and port-forward process | `NewSession`, `Close`, queries | kubectl, mysqld | a trial that fails half-way leaves its process | processes and sessions are bounded |
| kubectl wrapper (`util/k8s/kubectl.go`) | none; a port-forward process | `Execute`, `Apply`, `Kustomize`, `PortForward`, ... with trials | kubectl | retry of what was done; a truncated output | a retried command ends, its output is whole or an error |
| Configuration (`util/setup/`) | the configuration | defaults, file, environment, command line, resolve, generate | files | precedence, defaults of options | the strongest source that names a setting wins |
| Start, stop, deploy (`ote.go`, `util/executor/`) | the cluster, the kustomization directory | `start`, `stop`, `deploy` | k3d/minikube, kubectl, files | a run killed anywhere, stale copies, retries | what is deployed is what was configured and found |
| Kubernetes environments (`util/k8s/{environment,k3d,minikube}.go`) | network of k3d | create, start, stop, delete | k3d, minikube | a network left connected | a start delivers its own cluster |
| Containers, pods, engine, OCI (`util/k8s/{container,pod,diagnostic}.go`, `util/container/`, `util/oci/`) | none | selectors and command lines | podman, docker, oci | - | - |
| System helpers (`util/system/`, `util/common/`, `util/auxi/`) | none | files, processes, strings | OS | copies cut short, a copy that looks current | a run that copies a file has what its source held since it looked |
| Other e2e scenarios (`e2e/`) | test locals | sequences of the above | all | through the waits and checks | - |
| Operator | external (empty submodule) | - | - | - | - |

`util/log`, which many files import, is not in the repository. `hazards` in
`PROJECT.json` lists, line by line, what can go wrong and which property would
show it.

## Modules

| Module | Models | Code |
|---|---|---|
| `KubeApi` | external: objects, finalizers, graceful deletion, controllers, namespaces | - |
| `UnitLifecycle` (extends `KubeApi`) | Setup, Teardown, WipeNamespace | `unit.go:32-50,316-353`, `namespace.go`, `helpers.go:16-57` |
| `UnitPromise` | what Setup and Teardown promise, without their calls | the same, abstractly |
| `DeleteItem` | `deleteItem` and its goroutine | `client.go:282-473` |
| `DeletePromise` | what a delete promises its caller, without goroutine and requests | the same, abstractly |
| `Watch` | the four watch-based waits | `client.go:637-794`, `unit.go:181-269` |
| `RecoverCrash` (extends `Watch`) | the recovery scenarios over two such waits | `cluster3_defaults_test.go:256-485,946-1110`, `client.go:491-504` |
| `RecoverEvents` (extends `RecoverCrash`) | their event assertions, over the poll of `Unit.Wait` | `cluster3_defaults_test.go:297-387`, `unit.go:119-170`, `client.go:156-167` |
| `CrossSync` | `CrossSyncGtids` | `cluster.go` |
| `CheckCluster` | `WaitOnRouters` and `CheckAll` with the sessions they open, over a cluster that changes | `check_common.go`, `check_group.go`, `check_apiobjects.go`, `check_routing.go`, `session.go` |
| `CheckData` (extends `CheckCluster`) | `CheckData`, called after it | `check_group.go:340-500` |
| `Configuration` | `CreateConfiguration` as a function of its sources, and the order the README gives | `util/setup/` |
| `OteTool` (extends `Configuration`) | runs of `start`, `stop` and `deploy` over what earlier runs have left | `ote.go`, `util/executor/`, `util/k8s/{environment,k3d,minikube}.go`, `system/file.go`, `setup/generate.go` |
| `MC*` | small instances for TLC | - |
| `*Proofs` | theorems and their proofs | - |

How the models correspond to the code:

* **UnitLifecycle.** `pc` is the API call the test process makes next: `has`
  (`HasNamespace`), `list`/`strip`/`patch`/`delete` (the loops of
  `wipeNamespace.run`), `deleteNs`, `collect`/`nsCheck`
  (`collectPendingItems`), `create`. `stage` walks `WipeOrder`, the kinds in the
  order the code deletes them. Each call is one action with three outcomes where
  the code tells them apart: done, refused (`NotFound`, conflict), failed; a
  failed delete or create may have taken effect. `queue` holds the namespaces
  `Setup` or `Teardown` has still to wipe. `Crash` ends the process anywhere.
  The controllers of `KubeApi` interleave with every step.
* **UnitPromise** sees only which namespaces exist and which are condemned;
  `UnitLifecycle` maps its state to it in `Promise`.
* **DeleteItem.** `caller` is the `select` of `deleteItem`, `worker` its
  goroutine, `request` the HTTP request, which the server may serve after the
  caller has gone.
* **DeletePromise** sees, of each call, only the object it is meant for, what its
  caller was told and whether it may still strike; `DeleteItem` maps its state to
  it in `Promise`.
* **Watch.** `log` is the history of the objects, a resource version a position
  in it. `opened` is where the watch starts, `pos` how far the goroutine has
  read, `rx` the goroutine itself.
* **RecoverCrash** runs a test's steps over `Watch`; the operator's reports are
  changes of the same `log`. A `scenario` says what is done (a kill with its
  trials, a `restart` in a session, a delete of the pod), to how many pods,
  whether the two waits start from versions read before, and whether an error
  is fatal or only recorded (`marked`). `down` are the pods whose mysqld is down.
* **RecoverEvents** adds the events the operator posts after its reports, those
  left of earlier scenarios (`old`), their expiry on the server, and the polls of
  the assertions: `turn` is the assertion under way, `looks` the passes of its
  loop. A pass of the loop (list, match, sleep) is one action.
* **CrossSync.** one action per query, `executed` the pods' GTID sets.
* **CheckCluster.** `pc` is the next read: of the routers, the cluster object,
  each pod, the group, the labels, each instance, each sidecar. What one read
  compares field by field is a *flaw* the read finds or does not; what may change
  while the check runs (pods, members and roles, labels, `onlineInstances`,
  routers) is state of its own, changed by `ClusterChange` between any two reads.
  A failed trial of `NewSession` may leave its port-forward process; `quiet` and
  `failed` are history, for properties that hold only then, and `met` collects
  what has held of the cluster at a moment since the call (`Facts`).
* **CheckData.** One action per query; `Failure` says what a query that fails
  makes of the verdict, a wait included whose number of affected rows cannot be
  had (no error) or is not zero (an error). The data of a pod are the transactions
  it has executed. `Rejected` are the statements a server does not accept as they
  are written (`SHOW TABLES IN !`, GTID sets without quotes).
* **Configuration** has no state: each source is a partial function from settings
  to values, applied in the order of the code. The settings are those whose
  treatment differs; all others are treated like `tag`.
* **OteTool.** `pc` is the next command or file operation of a run. A file of the
  kustomization is missing, cut short, or a copy of a revision from a directory.
  `CopyOrUpdateFile` is taken operation by operation: the look at the times
  (`copy`), the opening of the source (`open`), the creation of the copy
  (`create`), the read (`read`) and the write (`write`), with `held` for what is
  open or has been read. `Edit` changes a source file between any two of them:
  replaced by rename, so that what is open stays the old one, or in place, so that
  what is read is the new one or a mixture; dated later than the copy or earlier,
  as the files of an unpacked release are. The comparison of modification times is
  `newer`, the directories whose file is younger than the copy; `hidden` are those
  whose file has changed without being younger. `seen` and `made` are history:
  the revision when a run looked at a file, and the files it copied itself.
  `Kill` ends a run anywhere. The clusters, k3d's network and kubectl's context
  outlive the runs. Nobody dates a file in the future.

## Runs

Passing runs (`expect: pass`):

| Run | Instance | Shows |
|---|---|---|
| `UnitCluster` | a unit without auxiliary namespace, and another namespace; cluster, StatefulSet, pod, backup, a pod next door; 1 fault, 2 polls, 2 starts; the process keeps running | `IInv`, `ClustersGoFirst`; each call brings `Setup` or `Teardown` nearer to its end, and they return; a polled namespace goes |
| `UnitVolumes` | main, auxiliary, foreign namespace; pods, claims, volumes, a token; 1 fault, 2 polls | clean start, complete teardown, confinement, `UnitPromise` |
| `CrossSync` | 3 pods, 2 transactions, one of them errant | synchronisation, a nil that excludes errant transactions, sessions; without an errant transaction the call returns |
| `Watch` | 2 objects, 2 states, 3 changes, every wait from every version | right answers; nothing goes by unnoticed; matches are found |
| `RecoverCrash` | a crash of one pod from versions, of two from what there is, a restart, a delete; 2 trials of the kill, 5 versions, 2 looks per assertion, any old events | a pass proves harm, notice and recovery; assertions are honest and end |
| `DeleteItem` | 3 calls, 2 objects, 2 re-creations | deletes and their requests, `DeletePromise`; every call returns |
| `OteTool` | 2 runs out of 7 invocations, 2 environments, a skeleton and a yaml, 2 directories, 2 revisions, 2 trials, edits at any moment of a copy | precedence, deployments of what was found or named as kept, starts that deliver, no foreign cluster touched, each step nearer to the end, runs end |
| `Check` | 2 pods, 1 router, 4 flaws, 2 transactions, 2 trials, looks and polls, 2 changes anywhere | right verdicts on a quiet cluster, a nil that was true on a changing one, bounded leaks, nothing missing, each step nearer to the verdict |

Runs that show where the code and what is said about it differ (`expect:
violation`; `findings` in `PROJECT.json` quotes the text):

| Run | Shows |
|---|---|
| `UnitForeign` | the wipe of one namespace deletes the volumes of claims in others |
| `WatchGone` | an object that goes between `Has` and the watch is never noticed as gone |
| `OteDelete` | a stop without options deletes the cluster although `deleteAtStop` is false |
| `CheckNil` | `CheckData` returns nil without having compared any data |

`Check` takes the statements of `CheckData` as if the server accepted them
(`Rejected = {}`), so that every query of it is reached; `CheckNil` has the four
rejected that a server rejects. The theorems hold for every `Rejected`.

Differences met on the way that need no run:

* `wipeNamespace.run` deletes pods before backups although the comment above it
  (`namespace.go:221`) names `mbk` before `po`.
* The goroutine of a delete that timed out stays blocked on its unbuffered
  channel for ever (`client.go:287-289`).
* A wait on a cluster "aborts on timeout or when an unexpected error is detected
  in the operator" (`unit.go:183`); nothing looks for such an error.
* A cluster restored before the second version is read fails its scenario, and a
  kill that was obeyed and then reported as failed is sent again to the
  restarted mysqld.
* `ListEvents` gives its version to the server as the oldest state to answer
  from; it filters nothing, so that an assertion "since" a version is met by an
  event of an earlier scenario. `AssertionIsHonest` therefore speaks of timeouts
  only.
* An edit of a source between its opening and the end of the copy
  (`system/file.go:172-184`) leaves a copy of the old version that is younger than
  its source; a changed source whose time is older than that of the copy (an
  unpacked release) is not copied (`:155`); a copy cut short by a kill or a full
  disk is taken for current, and so is one from another directory. Later runs
  keep and deploy these: `Excused` names them, and `DeploysWhatItFound` says that
  they are the only ones. No text of the repository says otherwise.
* `ote deploy` deploys to whichever cluster kubectl's context names, whatever the
  configured environment is.
* A template without anything to fill in is never written
  (`setup/generate.go:81`): the deployment uses what an earlier run generated.
* `checkOnlinePod` loses the error of the labels it checks when the pod can be
  fetched again (`check_apiobjects.go:387`): a wrong label never fails the check,
  and `QuietVerdict` and `NilWasTrue` leave labels out.
* The parts of a nil of `CheckAll` on a changing cluster hold each at a moment of
  its own, and need never have held together.
* `CheckData` reports equal schemas as different (`check_group.go:473`), compares
  a set of the primary with the primary's own in its check for errants (`:461`);
  `check_apiobjects.go:304` takes the number of init containers for that of
  containers.
* RecoverDelete2of3 says it makes sure "that the pods were actually deleted and
  recreated" (`cluster3_defaults_test.go:646`); its comparison of creation times
  is also met by a pod that was never deleted.

**Bounds.** `MaxFaults`, `MaxRuns`, `MaxPolls`, `MaxVersion`, `MaxTrials`,
`MaxLooks`, `MaxCreates`, `MaxEdits` and `MaxChanges` cap counters that the code
or its environment leaves unbounded or bounds by a larger number (`Unit.Wait`
polls 30 times, an assertion 20 times, `Kill` has 25 trials, `NewSession` and
`Kustomize` five). One fault at any call, a crash at any call and two starts are
enough for a run of the unit to meet every state a predecessor can leave, since
`ApiInit` also starts from any half-wiped cluster. Two polls, trials or looks
distinguish the first, a further and the last one. Three changes suffice for an
object to appear, change and go around a watch. Five versions are the cluster
before the harm, degraded and restored after it, and once more for a second
kill. Two runs of `ote` are one that leaves a mess and one that works on it; two
revisions make a copy stale. Two changes of the
cluster are a crash and what follows from it, between any two reads of a check.
The theorems hold for every value of these bounds.

**Deadlock** is not checked (`CHECK_DEADLOCK FALSE`): every system here may
stop, when the process has made its last run, the call has returned or the
bounds are used up and the controllers have nothing left to do. That calls
return is checked as liveness instead.

**Fairness.** `UnitLifecycle!LiveSpec` assumes only that a live process makes
its next call (`WF` of `WipeStep`): the code is sequential and every call
returns or fails. `PolledNamespaceGoes` is conditional on
`ControllerFairness`: the controllers finish deletions. `CrossSync!LiveSpec`
adds that group replication delivers committed transactions. `Watch!LiveSpec`
makes the goroutine and the caller run and asks nothing of timer and server.
`DeleteItem!LiveSpec` makes the caller run and its timer fire, and asks nothing
of the deleter. `RecoverEvents!ScenarioSpec` makes the polls of the assertions go
on, and asks nothing of operator and server. `OteTool!LiveSpec` makes a run go on
(`WF` of `RunStep`): its commands end, with success or without; nobody need start
a run, kill one or edit a file. `CheckData!DataSpec` assumes no fairness: what is
said of the end of the two calls is a bound on their steps.

## Proofs

TLAPS checks the `*Proofs` modules. The assumptions are the `ASSUME`s of the
modules (`KubeApiAssumption`, `UnitAssumption`, `CrossSyncAssumption`,
`WatchAssumption`, `RecoverAssumption`, `EventsAssumption`, `DeleteAssumption`,
`ConfigurationAssumption`, `ToolAssumption`, `CheckAssumption`,
`DataAssumption`), all of which TLC evaluates. What they ask beyond the kinds of
values is little: the objects are finitely many, the bounds are natural numbers. Each inductive invariant contains
the type invariant of its module and is itself checked by TLC; `MetInv` and
`FirstInv`, kept relative to those, are only proved.

* `UnitLifecycleProofs`: `SetupStartsClean` says that a namespace is gone when
  nobody has looked at it for a while (the main one, while the auxiliary one is
  wiped). It is not inductive: it needs that nothing is in a namespace that does
  not exist (`ContentsHaveNs`), that only a unit in its body creates namespaces,
  and that a wiped one stays gone (`WipedStayGone`), which in turn needs to know
  which namespaces the queue still holds (`QueueShape`). `WipeConfined` needs
  that what was listed is in the current namespace (`ListedHere`) and that the
  empty name never gets past `HasNamespace` (`NamedWipe`). `UnitInv` is their
  conjunction; `IInv` adds that the counters of the loops stay within what was
  listed and configured (`LoopBounds`). One lemma per action; lemmas on the controllers say that they
  never make a namespace appear. `ClustersGoFirst` has an invariant of its own
  (`FirstInv`): what a stage has listed, deleted and polled, and that no
  controller makes a cluster (a conjunct of `KubeApiAssumption`).
* `UnitPromiseProofs`: each step of `UnitLifecycle` is a step of `UnitPromise`
  or a stutter, under `IInv`.
* `CrossSyncProofs`: `SyncInv` relates what each loop has covered so far to what
  every pod had at the call; `Progress` is monotone under commits.
  That an errant transaction stays on its member (`ErrantAlone`) is an invariant
  of its own; with `CrossSynced` it gives that a nil excludes errant ones
  (`NilExcludesErrant`): `CheckData`, whose query for them finds none, could rely
  on `CrossSyncGtids` for that.
* `WatchProofs`: `WaitInv` relates the goroutine's position in the history to
  what it has found. `NothingMissed` speaks of all versions a silent goroutine has
  come by, those that changed other objects included; it is kept, step by step,
  relative to `WaitInv`, because a change that does not match brings nothing
  about (`NoMatchNoChange`).
* `RecoverProofs`: builds on `WaitInv`, whose preservation it cites for the steps
  of a wait. `RecoverInv` adds where each wait starts, that only what the test
  has done degrades the cluster, which pods were hit so far, and that the version
  from which the second wait looks (`Floor`: the one read, or that of its start)
  is no older than the degraded report. `EventInv` adds what the looks of the
  assertion under way did not see. Every step of a scenario is one of `Watch` or
  leaves its variables alone (`ScenariosUseWatches`, which no run checks), and a scenario with
  assertions is one without and more (`ScenariosAreTests`), so that what is proved
  below is had above: `RecoveryProven`, `NothingMissed` (`ScenariosMissNothing`).
* `DeleteProofs`: `AnswerInv` says what an answer implies about the request. Under
  it each step of `DeleteItem` is a step of `DeletePromise` or a stutter
  (`DeletesKeepPromise`). `AnsweredIsOver` follows from `AnswerInv` and is not run by itself.
* `OteToolProofs`: `ToolInv` says for each place of a run which command it
  belongs to and how far it has come (`RunInv`), that a copy that is whole
  is its origin as it is unless the times or a hidden change say otherwise
  (`KeptInv`), that what a run has in hand is a version of its source since its
  look, and the last one unless somebody has changed it since (`HeldInv`), that
  each file it has passed is such a version or one it may keep (`PassedInv`), and that
  what is generated, put together and deployed is one thing (`DeployInv`), in the
  cluster the run has started (`ClusterInv`). Precedence is an equality of
  functions, proved setting by setting from the definitions.
* `CheckProofs`: `CheckInv` is what was read while nothing changed (`ReadInv`),
  the sessions and processes at each place, counted through every trial
  (`SessionInv`), and that what was read of the primary's transactions stays
  executed wherever it was compared (`GtidInv`). `NilWasTrue` speaks of clusters
  that change, of which `CheckInv` says little: its invariant `MetInv` says, for
  each place of `CheckAll`, which facts the reads made so far stand for, all of
  them in `met`. Facts only accumulate, so that a change disturbs none of it.

**How long it takes.** `WipeIsBounded`, `ChecksAreBounded` and `RunIsBounded` each
give a number of steps that are left at most, from the place of the process and
its counters, and say that each step of it makes the number smaller while no step
of anybody else makes it larger (`WipeCallsAreBounded`, `ChecksComeToAnEnd`,
`RunsAreBounded`). They are the part of `WipeReturns` and
`RunEnds` that holds whatever the schedule: a cluster that never settles, a
controller that makes objects again or somebody who edits files can make no loop
of the code start over. The numbers are `MaxCalls` for a wipe (what can be listed
of each kind, two calls and a delete each, and the polls), `7 + MaxTrials + 5 *
Len(Files)` for a run of `ote`, and for the two checks linear in the pods with the
trials and looks of each. The proofs give the number at each place in a lemma of
constant level, and leave an inequality of sums to each step.

Model-checked only, because it is out of the prover's reach: liveness
(`WipeReturns`, `PolledNamespaceGoes`, `CallReturns`, `MatchIsFound`,
`VerdictComes`, `DeleteReturns`, `RunEnds`).

## Not modelled

* Formatting, logging, wording of errors and command lines; the generated
  accessors of the CRDs; engines and OCI, which only spawn tools.
* `images.go`: nothing outside it fills or reads its list. The registry file of
  k3d and the files of minikube's kubeconfig. One cluster name per environment.
* Of the checks: `CountSessions` and `Version`, which no test sets, restarts of
  routers, and the fields behind each flaw. Of the sessions: the conversions of
  `resultset.go` and scripts.
* RecoverDelete2of3 with its waits on pods, the sidecar, shutdown and stop
  scenarios, restart counts and events that are no change of status; the other
  e2e scenarios, which are sequences of calls modelled here.
* The operator, the API server, controllers, MySQL, k3d and minikube, except for
  what the code meets of them, which is marked external in `PROJECT.json`.
* Trouble of pods that a recovery scenario does not touch: the cluster is harmed
  only by the scenario. Were it harmed by something else, the waits would be met by
  that, and the code could not tell.
* `UnitLifecycle` applies a timed-out delete at once or never; that it may arrive
  later is `DeleteItem`'s subject and would end the wipe with an error there too.

Worth doing next: the waits on pods inside a recovery scenario; the enterprise
and backup scenarios over `UnitLifecycle` and `CheckCluster`; `resultset.go` as
pure functions with a reference.

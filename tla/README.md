# A verification of rooket in TLA+

rooket brings up throw-away Rook/Ceph clusters on one Linux host: kind nodes
under podman or docker, disks that are image files behind iSCSI targets of the
host's own kernel, a registry per cluster, a pull-through image cache shared by
all of them, and rook images built from a clone on the same host. There is no
daemon. Every command is a process of its own, and what the processes share is
the host: files under the state root, flocks, containers, and the kernel's
iSCSI configuration. What is hard to get right is what several such processes do
to one host at a time, what a killed one leaves behind, and what a later one
makes of it. That is what the modules here are about.

## The system

| component | state it keeps | operations | what makes it correct |
|---|---|---|---|
| cluster locks (`cmd/lock.go`) | one lock file per cluster, its inode's flock, the process's map of held locks | acquire, nested acquire, release, release with deletion of the file | two runs never have one cluster, although the file is deleted and recreated under them; a killed run strands nothing |
| single-cluster lifecycle (`cmd/up.go`, `create.go`, `delete.go`, `down.go`, `block.go`) | state directory, images, targets, node containers | up, cluster create, block setup, down, cluster delete, block teardown | disks are wiped exactly when nothing uses them; a record goes only after what it records |
| sweeps (`cmd/downall.go`, `cmd/prune.go`) | a plan, held by the process | scan, prompt, lock, second look, delete, zap, one batched teardown, removal | nothing live, and nothing another clone owns, is taken on the word of an old scan |
| registry ports (`cmd/create.go`, `state.go`, `internal/registry`) | `registry-port` per cluster, `.ports.lock`, a container with a published port | reserve, repair, start, remove | two clusters never have one port; a lost port is repaired, and a registry never discarded because of another registry |
| released-chart cache (`internal/chartcache`) | an entry per version, `.pull.lock`, temporary directories | ensure | an entry that exists is whole; one helm at a time |
| image cache (`cmd/cache.go`, `internal/cache`) | one container, one configuration file | setup, delete | concurrent bring-ups, which take no lock, converge |
| builds (`cmd/build.go`, `buildcache.go`, `buildstamp.go`) | a stamp per cluster, records and pinned tags per clone, make's output tag | gate, lookup, make, pin, evict, push, repush, stamp | no tree is ever served by an image of another one |
| devices (`cmd/block.go`, `internal/lio`, `cmd/privilege.go`) | LIO objects and targets, iSCSI sessions, images | setup, repair, teardown, as scripts of root commands | a repair removes only what is broken; a teardown leaves nothing it does not name; what a failed run leaves is repaired by a later one |
| bring-up pipeline (`cmd/up.go`, `concurrent.go`) | lanes of one process, one terminal, the clone's build lock, the task each lane is at | pre-flight, block setup, cluster create, early make, join, publishing, deploy | a task waits for what it needs, runs once and is not cut off; no prompt under make's output; no build without the lock, which every end gives back |
| resuming (`cmd/create.go`, `shape.go`, `internal/cluster`) | node containers, the disk names bound into them, `shape.json` | inspect, check, start, rebuild, refuse, record, prepare | a node never comes back holding another cluster's disk; what is called ready is whole |
| deploy (`cmd/deploy.go`, `profilesrelease.go`, `internal/values/base.go`) | helm releases, the record of the source, the operator's pod template | deploy, deploy operator, deploy cluster | one source and one selection for all charts of a deploy; the operator runs what was built last; the CRDs' delay is survived |
| readiness wait (`cmd/wait.go`) | a deadline, the unmet conditions of the last poll | poll, sleep, diagnose | the verdict is true and in time, although queries hang and conditions are lost again |
| values files (`internal/values`, `cmd/compose.go`) | the merged values of a chart, the layer of every path | merge of base, sticky file and profiles | layers add up path by path whatever kinds of value meet; every path is credited to the layer that set it |
| shapes, sources | records of flags | settling | sequential |

They interact through the host. A command on one cluster holds that cluster's
lock for its whole run, so within a cluster everything is sequential; across
clusters the ports lock, the clone's build lock and the pull lock order single
steps (an `up` that builds early keeps the build lock from its make to its push), and the image cache and the kernel's iSCSI configuration have no lock at
all. Nothing sends messages. `PROJECT.json` lists every component under
"components", with those that are not modelled and why, and under "hazards" what
can go wrong at which line.

## The modules

| module | models | extends or instantiates |
|---|---|---|
| `AbstractLock` | what a lock promises: one holder at a time | |
| `Flock` | `acquireFlock`, `lockClusterIn` and the release, over inodes and descriptors; refines `AbstractLock` | `AbstractLock` |
| `Host` | what the commands share per cluster: lock, state directory, images, targets, nodes | |
| `Lifecycle` | the commands on one cluster, step by step | `Host` |
| `Sweeps`, `Sweeps_proofs` | `down --all` and `prune`, against the commands of `Lifecycle` and each other | `Lifecycle` |
| `RegistryPorts` | port allocation, repair, start and removal of registries | |
| `Locks_proofs` | the theorems of `Flock` and of `RegistryPorts` | `Flock`, `RegistryPorts`, `AbstractLock` |
| `ChartCache` | `chartcache.Ensure` | |
| `ImageCache` | `setupCache`, `cache.Create`, `cache.Delete` | |
| `Caches_proofs` | the theorems of both caches | `ChartCache`, `ImageCache`, `AbstractLock` |
| `Builds`, `Builds_proofs` | the build stamp, the build cache and make's output tag | |
| `Devices`, `Devices_proofs` | block setup, its repair of the host's iSCSI configuration and block teardown, root command by root command | |
| `Nodes`, `Nodes_proofs` | `createClusterRun` and `resumeCluster`: node containers and disk names over reboots | |
| `UpGraph` | what a bring-up promises: the dependency graph of its tasks, run by run | |
| `BringUp` | the lanes, joins, prompt and lock of `up`; refines `UpGraph` | `UpGraph` |
| `BringUp_proofs` | its theorems | `BringUp` |
| `Deploy` | the releases of a deploy, and what the kubelets make of the operator's Deployment | |
| `Wait` | `rooket wait`: polls, deadline, diagnostics, over discrete time | |
| `Rollout_proofs` | the theorems of both | `Deploy`, `Wait` |
| `Values` | the merge of a chart's layers, with its provenance | |
| `MCCharts` | an instance of `ChartCache` or else of `Values`, which share no state | `ChartCache`, `Values` |
| `MCRollout` | an instance of `Deploy` or else of `Wait`, which share no state | `Deploy`, `Wait` |
| `MC...` | the instances TLC checks: sets of clusters, jobs and flags | the module of that name |

`Host`, `Lifecycle` and `Sweeps` use the lock as `AbstractLock` has it, an owner
that is taken and given back in one step; `Flock` shows that the protocol in
`cmd/lock.go` is such a lock. The other locks (`.ports.lock`, `.pull.lock`, the
build cache's) are never deleted, so they need no more than the kernel's promise,
an owner that is dropped when it dies. That the code around `.ports.lock` and
`.pull.lock` uses them as locks, with who waits too long ending in an error, is
proved: `RegistryPorts` and `ChartCache` implement `AbstractLock` too.

## How the modules correspond to the code

The state of a process is its `pc`, the call it is about to make, and a record
of what it has settled; an action is one call whose effect another process can
see, with every assignment that comes with it. A failure is an action of its
own, enabled when its name is in the constant `Faults`: `crash` (the process is
killed, the kernel drops its flocks), and per module the calls that can fail.
`Faults` is a constant and not a list of disjuncts so that a property can be
checked, and proved, under exactly the failures it holds under. (`ImageCache`
calls them `Mishaps` and its `pc` `call`, and prefixes its Init, Next and
Spec, so that its theorems can stand beside those of `ChartCache`; `Flock`
prefixes them too and calls its `pc` `at`, for the same reason beside
`RegistryPorts`.)

* **Flock.** `Open`, `TakeFlock`, `FindCurrent`, `FindStale`, `Reopen` are the
  loop of `acquireFlock`; `Refuse` is its error; `NestedLock` and
  `NestedRelease` the no-op release of a lock the process already has;
  `SetRemove`, `Unlink`, `Close` the release of `cmd/lock.go:86-116`, which
  deletes the file first and closes it second. Inode numbers are reused as soon
  as nothing has them open.
* **Host, Lifecycle.** A run takes its lock and goes through the stages of its
  command: `MakeImages`, `MakeTargets` (`blockSetupRunTo`), `Create`,
  `Resume`, `Rebuild` (`createClusterRun`), `Delete`, `ZapDisks`
  (`deleteClusterAndZap`), `BlockTeardown`, `RemoveDir`. An image is `dirty`
  from the time nodes ran on it until it is zapped or removed. `reported` is the
  history of targets a teardown warned it had to leave.
* **Sweeps.** `ScanAll`/`ScanPrune` look without a lock; every run may then
  change everything, which is the prompt; `LockNext` tries the locks one at a
  time; `RecheckAll`/`RecheckPrune` look again; the rest acts on the plan.
* **RegistryPorts.** `LockPorts` to `UnlockPorts` are `reserveRegistryPort`:
  recorded port, probe, repair (`Discard`), search (`Pick`), record (`Write`).
  `LockTimesOut` is the end of the 30-second wait, an error that ends the run.
  `StartContainer`, `RunContainer` and their failures are `registry.Create`.
* **ChartCache.** `Look`, `LockPulls`, `Recheck`, `HelmStarts`, `HelmEnds`,
  `HelmFails`, `Pulled`, `Install` are `Ensure`, `pull` and `lockPulls`.
* **ImageCache.** One action per engine call of `setupCache`, `cache.Create` and
  `cache.Delete`, with the failure of the call as a disjunct of it: `Ask` and
  `Inspect` a look that shows nothing (`cache.Exists` takes a failed `ps` for a
  no), `StartContainer` a container that stays down, `Remove` one that stays,
  `Run` one that was never made or was made and did not start. `broken` and
  `erred` are the history of these failures, of the container and of the runs:
  the container is down and a run of it or a look at it failed since it was up;
  the run had a call of its own fail. The write of the configuration is two
  steps, truncation and content, as `os.WriteFile` is, and each may fail.
* **Builds.** `Fingerprint` and `Check` are the gate (`buildSkipCheck`);
  `LockCache`, `Lookup` the build cache; `MakeEnds`, `Pin`, `PinFails`,
  `PushUnpinned` are `buildMakePhase` and `pinBuild`; `Push`, `Repush`,
  `WriteStamp` are `buildPushPhase`, `repushStampedImages` and `stampBuild`. An
  image is the set of trees that make read while it built it, so that an image
  built under an edit, `{t1, t2}`, is told from one built of `t1`.

* **Builds' `reverted`.** The trees that were edited and came back between the
  fingerprint before a make of theirs and the one after: the history of what
  `treeFingerprint` cannot notice.
* **Host's `unwiped`.** The dirty images of a cluster that was deleted and whose
  zap an error, a kill or `--zap=false` prevented: the history that lets
  `FreshNodesOnCleanDisks` be stated of the runs that went well.
* **Devices.** A run holds a script of `privStep`s and executes one per action
  (`Step`), so that the runs of two clusters interleave between any two root
  commands; a script is a list of the commands of one disk after the other, in no
  particular order of the disks (`InTurn`). `Works` and `Apply` say what each
  command (`targetcli`, `iscsiadm`, `rm`) needs and does; they are external.
  `Plan` is `lioRepairPreflight`, whose view of the kernel is then as old as the
  script; `Falter` is the second run of the whole script through pkexec. `spoiled`
  is the history of disks whose image or target was deleted under an object or a
  session.
* **Nodes.** A disk, `<<cluster, worker>>`, is told from the name, `/dev/sdX`, it
  has at the moment: `at` maps names to disks and a reboot permutes it. `bound`
  is the name in a container's bind list. Every exit of `resumeCluster` is an
  action (`Keep`, `Rebuild`, `RefuseUnfit`, `RefuseBlind`); `sees` is what is in
  a node's `/dev`, all names when it is started and its own after
  `nodePrepScript`.

* **BringUp.** A task (block setup, the node-image pre-pull, kind, the branches of
  cluster create, the wiring of containerd, make, push, deploy) is `todo`,
  `running`, `done` or `failed`; `pc` is where the run's main goroutine is:
  `Probe` and `LockEarly` decide on an early make, `EndAhead` ends block setup
  that has to run alone, `Join` is the `wg.Wait` of `cmd/up.go:452`, `SkipBuild`,
  `NeedBuild`, `Relock`, `AfterMake` the build that was not started early.
  `Release` is deferred in the code and so is part of every action by which a run
  ends. `AskRoot` is a pkexec prompt, `Answer` its answer. `Regrant`, `Lose` are
  what changes after `PromptFree` was evaluated; `misled` is the history of it.
* **UpGraph.** One state per task and run and three steps: a run advances by
  tasks whose needs are met, leaves with none under way, or is killed. `Graph`
  in `BringUp` maps the tasks to themselves and `complete` to `pc`.
* **Deploy.** One action per helm release in the order of `deployCmd`;
  `StartDeploy` is `deploySetup`, which settles source and selection. `TryDrivers`
  is one of the five tries at the drivers chart; `InstallCluster` has one.
  `InstallProfiles` goes by `Contributors`, whoever has templates: the active
  profiles, settled by `deploySetup`, and the configuration home (`Home`), whose
  templates are read there, last. The release is uninstalled if there is nobody,
  though profiles may be active. `Pins`
  is the probe of the registry for a digest, where no answer and no such tag read
  the same. `StartPod` and `ImageFor` are the kubelet's, by the pull policy that
  `PullsAlways` says; `late` is the history of pods that were started after the
  tag was pushed again.
* **Wait.** Time is a number; `Tick` cannot pass the end of a sleep or of a
  budget, since a context ends then. A poll is one `Query` per condition, which
  `Answers` or not (`NoAnswer`), and `EndPoll` looks at the deadline.
* **Values.** A document is a scalar, a null, a map or a list, and a path a
  sequence of steps. `MergeMap`, `MergeKey`, `MergeNamed`, `Named` and `Cut` are
  `mergeMap`, `mergeNamed`, `namedList` and `deleteProvSubtree`; each layer that
  `composeChart` stacks is an action. The reference they are compared with,
  `Lasting`, does not merge: it looks at every end of every layer and asks what
  each later layer has at, above and below its path.

`PROJECT.json` has, under "map", the lines of every definition.

## The runs

| run | instance | shows |
|---|---|---|
| `flock` | 3 processes, 3 inodes, nesting 2, kills | mutual exclusion; the holder's flock is the one the path names; refusals are by living processes; `Flock` implements `AbstractLock`; attempts end |
| `sweeps_host` | 2 clusters, 1 disk each, 1 engine, ups and downs against `down --all` | only the lock holder changes a cluster; no zap under live nodes |
| `sweeps_engines` | 1 cluster, 2 engines, every command, every sweep, every fault | what a sweep takes is not live at that moment; prune leaves owned clusters alone; only a prune, of disks it did not name, lets a target outlive its record unreported; fresh nodes meet clean disks |
| `sweeps_other_engine` | a `down` under the other engine | **violated**: see findings |
| `ports` | 3 clusters, 2 ports, one other program | ports are never shared, registries never collide with each other, repair is reached |
| `charts` | pulls: 2 runs, 2 versions, 2 charts, every fault; or values: base, sticky file and two profiles, up to 4 layers, one key with any kind of value, lists of 2, maps of 2 levels | whole entries, one pull, every run answered; the layers add up path by path, ends are credited to who set them, nothing is credited that is gone |
| `cache` | 3 runs, 2 builds of rooket, every fault, engine calls that fail among them | the race is lost gracefully, and the runs converge on one container with the right configuration, unless the engine failed at it and nobody has brought it up since |
| `builds` | 2 clusters of a clone, 2 trees, a cache of 1 build, 2 edits of the tree, also back to what it was, one fault of any kind | records, stamps and registries hold what they say |
| `devices` | 2 clusters, images in and out of the state root, a foreign object, one fault | repairs spare what is healthy, setups that succeed have their devices, teardowns are whole, repeated setups succeed |
| `nodes` | 1 cluster of 1 or 2 workers, every flag, 3 disk names, two faults | no running node is on another worker's disk; what is called ready has its nodes, disks and masks; a stopped cluster comes back |
| `bringup` | 2 clusters of a clone, one under every flag, one with a build; one fault | up implements `UpGraph`; prompts are alone; builds are under the lock; every up ends |
| `rollout` | deploy: 2 branches, 2 contents, 1 node, a clone and a release, 2 tries, one fault; or wait: timeout 4, interval 2, one condition lost | the operator is not stale, a deploy is of a piece and is reached; the wait's verdict is true and in time |

**Bounds.** Two processes are enough for every race named in the code's
comments; where a third could matter (the inode reused by a third locker, a
third cluster between a lost port and its repair, a third bring-up in the cache's
race) there are three. Two clusters show what one does to another. One disk
stands for all disks of a cluster in the sweeps, where disks are treated alike,
and one per worker in `devices` and `nodes`, where what matters is which
worker's it is. Three names for three disks let every permutation of a reboot
happen. Two trees suffice in `builds`, since what can go wrong
is one tree's image under another's name, and a cache of one build evicts at the
second. `MaxNest`, `MaxForeign`, `MaxEdits` and `MaxFaults` are the only bounds
that cut a behaviour short: nested acquisitions, ports of other programs, edits of
the tree (two, so that it can leave a state and come back to it), and things going
wrong: one in a behaviour of `builds`, `devices`, `bringup` and `rollout`, two in
`nodes`, so that their properties are about every single fault, there every
pair, and not about more of them; and `MaxSlips`, how often the cluster that is
waited for loses a condition again. The other runs have as many faults as there
are steps. Two ports for three clusters make every cluster meet a port that is
taken. The runs of `cache` and the clusters of `builds` are
interchangeable, and those two runs, which check safety only, take them up to
permutation. `nodes` has one cluster: what another one does to its disk names a reboot
does too, and the proof is for any number of clusters. Two branches of cluster
create, one that may fail and one that may not, stand for all of them. In `Wait`
the units are such that a poll can span the deadline and can end on it with a cluster
that became ready just after its first answer (`Interval` and `PollBudget` 2,
`Timeout` 4); the diagnostics' budget is one. In the values of `charts` a layer has one key,
since keys do not affect each other; four layers let a value be set,
replaced or deleted, set again and merged into.

**Fairness.** `flock`: a process goes on with an attempt it has begun. `ports`:
a run goes on by itself, and one that polls `.ports.lock` gets it if it comes
free again and again (strong fairness of `LockPorts`: the code polls every 25 ms
for at most 30 s). `charts`: the same for `.pull.lock`, and a helm that was
started ends. `devices`, `nodes`: a run goes on by itself, since it is
a process that is scheduled and every call of it returns. Nothing is assumed of
when commands are started, of faults, or of other programs; a property that
needs a command to be given again and again has that as its hypothesis.
`bringup`: a run that can go on does (weak
fairness of the run as a whole), which is what the scheduler gives a process
whose programs end; the wait for the build lock is bounded by `cloneLockWait`,
so it needs no fairness of its own. `rollout`: a deploy goes on, the apiserver
comes to serve the CRDs, and deploy is run again and again (strong fairness, a
hypothesis on the user: `DeployReached` is about that user); the wait and the
clock go on, of queries only that their budget ends them.
`sweeps_*`, `cache`, `builds` and the values of `charts` check safety only.

## What the runs found

One run is expected to fail; the finding in `PROJECT.json` quotes the lines.

* `sweeps_other_engine`: `deleteClusterAndZap` asks the session's engine alone
  whether the cluster is gone. A `down` under podman of a cluster that is live
  under docker finds nothing, succeeds, and truncates the images in use.

Other divergences, which a change of an instance shows:

* *builds*: an edit that is made and taken back while make runs goes unnoticed by
  the two fingerprints (`cmd/build.go:157`), and the build is recorded for a tree it
  is not of; the comments at `cmd/build.go:151-154` and `cmd/buildcache.go:34-36`
  promise more. `RecordsAreTrue`, `StampsAreTrue` and `ServesItsTree` except such a
  tree by `reverted`, and the first and the last are violated without.
* *sweeps*: `down --all --delete-disks --skip-block` keeps the images and skips
  their zap, since the condition of the zap looks at `--delete-disks` and not at
  whether disks are torn down (`cmd/downall.go:259`, against
  `cmd/downall.go:255-256`), and the next `up` puts fresh nodes on them: with
  `All(TRUE, TRUE)` among the `SweepFlags` and `Jobs <- Ups`, `sweeps_engines`
  violates `FreshNodesOnCleanDisks`. `prune` names the disks it tears down before
  its prompt (`cmd/prune.go:125`), and then removes the state directory, the
  record also of disks that were made since: `NoUnrecordedTargets`, that a cluster
  without a state directory has no target but those a teardown warned of, fails
  for it, as it does with `Jobs <- UpsAndSetups` and `SweepFlags <- Prunes` in
  `sweeps_host`. `OnlyPruneForgets`, which `sweeps_engines` checks, says how far
  that goes. `down --all` likewise never looks again at which clusters have a
  state directory (`cmd/downall.go:257`), and a kill or failed zap between its
  delete and its zap leaves dirty disks; both are excepted by `unwiped`.
* *ports*: an explicit `--registry-port` is recorded although another cluster has
  it (`cmd/state.go:456`): `Requests <- Explicit` violates `PortsNeverShared`. A
  registry that `down` could not delete outlives the record of its port and is
  started on it later (`internal/registry/registry.go:246`): `"delete"` in
  `Faults` violates `NoSelfCollision`. `SharedIsAskedFor`, `OnlyRemovalOrphans`
  and `CollisionsAreExplained`, which are proved, say that there are no other
  ways.
* *cache*: of two upgraded runs the one that loses the removal reports an error
  (`cmd/cache.go:60`), where `cmd/cache.go:32-34` says they converge; a kill
  between the write of the configuration and the removal of the container keeps
  the old configuration for good (`cmd/cache.go:54`), and so does a `ps` or an
  `rm` that fails there (`cmd/cache.go:57-62`), since no later run finds the file
  changed. A `run -d` that fails after it created the container, on a host port
  that is taken for one, reports "was created concurrently; using it" and success
  (`internal/cache/cache.go:209-213`) of a cache that is down. When a container was
  dropped for a changed configuration and the run of its successor fails, the
  clusters that were served by it have none. `Converge` and `ServesTheConfig`
  except these by `broken` and `happened`, and TLC violates either without.
* *devices*: the repair's delete of a storage object is fatal also when another
  run, or the first half of the same script under sudo, has already deleted it
  (`cmd/block.go:389`); `RepairStopsOnlyOnOrphans` in `Devices` states the
  contrary, and `MCDevices` with it as its property violates it. A `--login` for
  all targets (`cmd/block.go:760`) logs in to a target that another cluster is
  tearing down; an image made anew before the kernel is looked at
  (`cmd/block.go:155`) hides the stale object over its predecessor. The
  properties of `devices` except both by `spoiled`.
* *nodes*: `up --disk-count 0` on a running cluster with disks keeps the cluster,
  as `cmd/create.go:366-368` means it to, and then records 0 disks as the shape it
  was created with (`cmd/create.go:165`, against `cmd/shape.go:22`). A later plain
  `up` sets up no disks, cannot mask the devices it does not know of, and after a
  reboot refuses. `RecordIsTrue` in `Nodes` states the contrary and fails without
  any fault. A kind that is killed after the apiserver serves and before the
  workers have joined leaves a cluster that looks whole; `HalfMade` is the kill
  before that, so `ReadyIsWhole` does not cover it. From its start to its
  preparation a resumed node sees every device of the host.

* *bringup*: what `infraOverlapSafe` is computed from (`cmd/up.go:162`) may be an
  hour old when block setup starts beside make, since the wait for the build lock
  lies between (`cmd/buildcache.go:52`); a sudo credential that ran out, or a
  device that was lost, then brings the prompt under make's output after all.
  `PromptsAlone` excepts it by `misled` and fails without.
* *deploy*: if the probe of the registry has no answer, the operator is not
  pinned and the chart's `IfNotPresent` stands, so a node that has the tag runs
  what it cached; and a pod that starts after another build was pushed, before
  the next deploy, runs that build under the older annotation, since the image is
  named by its tag. `NeverStale` is about neither. A deploy of an older Rook
  leaves the release of ceph-csi-drivers that a newer one made, although
  `cmd/deploy.go:409-412` says that earlier Rooks would fight that chart.
* *values*: a list with named elements over an empty one replaces it and is
  credited as a whole, under the list's own path
  (`internal/values/merge.go:58-60`). When a later layer then sets every value of
  every element, the whole is still credited to the layer before, of which nothing
  is left, and `values show --layers` prints both; `merge.go:14-15` promises
  credits of leaves only, and `merge.go:112-115` none for values that are gone.
  `CreditsWhatLasts` in `Values` states that, and `MCCharts` with it as its
  invariant violates it: base `x: []`, sticky file and profile both
  `x: [{name: m}]`. The merged values are right, and so is the nearest credit of
  every end (`CreditsTheSetter`).
* *wait*: `cmd/wait.go:131-132` says that the final poll starts on the deadline;
  a poll that spans the deadline is the final one instead, and what it found may
  be older than the deadline by the budget of a poll. `SaysWhatIsSo` allows for it.

## What is proved

`tlapm` checks the theorems of eight modules, each for every value of the
constants, under the assumptions the module names. In each the argument is an
inductive invariant, `IInv` (`LockInv` in `Flock`, `WaitInv` in `Wait`,
`CacheInv` in `ImageCache`); as an INVARIANT of the
module's run TLC agrees to it.

* **Flock.** `MutualExclusion` alone is not inductive: a second process may
  have the flock of another inode. `LockInv` says what relates them: the owner of
  an inode's flock has it open; a process past its flock is the owner of the
  inode it opened; the inode of a process that holds the cluster, until it has
  deleted the file, is the one the path names. Two holders would then own one
  inode. From it follow `MutualExclusion`, `HolderGuardsThePath`,
  `OnlyTheHolderUnlinks` and `RefusedOnlyByALiveRun`, and `FlockImplementsLock`:
  every step maps to a step or a stutter of `AbstractLock`, with the holder as
  owner. `PortsLockIsALock` and `PullLockIsALock` say the same of `RegistryPorts`
  and `ChartCache`, with the lock's variable as owner: it is taken only when free,
  and a wait that timed out neither takes nor frees it.
* **Sweeps.** All commands and sweeps together, any number of them. Two facts
  carry the rest. Whoever works on a cluster has its lock: a run from `Lock` to
  `Unlock` (`RunnersHold`), a sweep for every cluster on its lists
  (`SweepersHold`, which also says what it has not locked: a `down --all` that
  keeps the disks passes over the locks of clusters that are not live, and never
  touches those). And what a process found out under the lock still stands, as
  only it may change it (`RunnerFound`, `SweeperFound`): so the second look of a
  sweep is as good as a look at the moment of the delete, however many clusters it
  deletes before. `RunnerWipes` and `SweeperWipes` say who is still to wipe a
  deleted cluster's disks, and `WipedOrDue` that some such process exists for
  every dirty image that `unwiped` does not have. The proof is of the process that
  moves, operation by operation (`StepBy`): the lemmas say what each does to the
  plan and the host, and that it leaves the clusters it has no lock of alone
  (`Keeps`), so that what the other processes found stands on. Three theorems have
  a hypothesis, each of a divergence named above, and each has a counterpart that
  holds without it and says that the divergence is the only way.
  `TargetsAreRecorded` is about a host without prunes (`NoPrune`),
  `FreshNodesOnCleanDisksHolds` about one where no sweep is told both to delete
  the disks and to skip them (`NoneKeepsDirty`), `ZapsOnlyTheGoneHolds` about one
  engine. Without: a cluster loses the record of a target in one step only, that
  of a prune which has the cluster's lock and whose scan named none of what is
  lost (`OnlyPruneForgetsHolds`); the disks of a deleted cluster stop being
  somebody's to wipe only under a sweep with those two flags
  (`OnlySkippingLeavesDirtyHolds`); and what is wiped under nodes is wiped by a
  command on that one cluster, under an engine that has no such nodes, never by a
  sweep (`ZapsOnlyUnderAnotherEngineHolds`). The rest, `OnlyTheHolderTouches`,
  `SweepsSpareTheLive` and `PruneKeepsParked`, need none.
* **RegistryPorts.** `IInv` follows a port from the search to the record: what a
  run inside the lock has chosen is on no other cluster's record, unless it was
  asked for (`ChoiceIsAskedFor`), and no other run is inside. It gives
  `SharedIsAskedFor`, whatever fails: two clusters have one port only if a
  `--registry-port` named it. `OnlyRemovalOrphans` is that a container comes off
  its cluster's recorded port by the removal of the record and by nothing else;
  `FollowsContainer` carries it: a run that finds its container on the recorded
  port settles on no other while it is there. From the two follows
  `CollisionsAreExplained`: a registry that cannot bind its port, or is discarded
  over it, met another program, a port that was asked for, or a registry that
  outlived its record. With nobody asking for a port and every `down` able to delete
  its registry (`"delete" \notin Faults`) that leaves other programs, which is
  `NoSelfCollision`, and ports are never shared. These are hypotheses of those
  corollaries only, and not assumptions on the constants.
* **ChartCache.** `IInv` says that the run past its second look holds the lock,
  that helm runs only there, and that no entry for its version has been made
  since; `OneHelmAtATime`, `EntriesAreWhole` and `PullsOnlyWhatIsMissing` follow.
* **ImageCache.** No lock orders the runs, so `CacheInv` says what each of them
  may rely on and who is still to repair what is wrong. What was gone once was
  made anew (`MadeAnew`): a run that saw no container, or has one, knows that it
  is up or broken whenever it is there, and of the right image unless an `rm` or a
  look failed, since an upgrade waits for the runs and a reboot ends them. A
  container that is gone after someone was served is on its way (`IsMadeAgain`)
  or broken: whoever removes it has yet to make it, and `ToMakeIt` are the calls
  from which a run makes it if it stays gone and the engine does as it is told;
  from the others a run may fail, but not as the last one. A configuration that
  is not the installed one, or not the one that is loaded, has a run at work that
  wrote it and will drop the container (`ConfigIsRight`). `Converge` and
  `ServesTheConfig` are what is left when all are through. `NoLostRace` is apart:
  as long as nothing is written or deleted no run gets to a call that removes
  anything (`NothingIsRemoved`), kills or not, so that what a run finds missing it
  has lost to a failure of its own.
* **Nodes.** `RunningOnItsOwn` is about the moment a node is started or made, and
  what makes it hold there was settled steps before: what a run has located
  stays where it is until the run is over (`DevicesAreLocated`, since block setup
  only uses names that are free and a reboot ends every run), and what a run
  keeps has exactly those disks bound (`KeptFits`, from `CheckDevices`; without
  disks, `StartsBare`). That `KeptFits` includes the number of nodes needs
  `MadeAlike`: kind gives a disk to every worker or to none, so a node beyond
  the shape would have one bound. `AfterWait` and `Masked` add what
  `ReadyIsWhole` says of the record and the nodes' `/dev`.

* **Devices.** What the three properties need is said of scripts, since a script is
  what is still going to happen. `ScriptsSpare` is of every command that any run
  has still to execute, or would again if it fell back on pkexec: none but the
  start of iscsid, the save and the login is about a foreign object, and of
  another cluster's disks it only deletes, and only such as have lost their image
  (are `spoiled`). That a disk once spoiled stays so while a script names it is
  part of the model's history (`Fresh`); what makes the repair's deletions such
  is `DisksAreKnown`, that an object which is not over its image and a session
  whose target went are always of spoiled disks. It gives `SparesTheHealthy`
  command by command, however old the view of the kernel is that the script was
  made of. `AttachedToItsImage` adds `DevicesArePresent`: what a setup has seen
  when it is done stays, since the others spare it. `TearsDown` is the
  invariant of a teardown under way: beyond the disks it named nothing of the
  cluster is there, of those it named everything that is there is still due in
  the script or warned of, and the script it may begin anew, which forgets the
  warnings, has every deletion in it. `TornDownWhole` is that with an empty
  script. `DiskAssumption`, that there are finitely many disks, is what makes a
  script that goes through them one; `Within`, `InTurn` and `Rest` are the
  lemmas on scripts.
* **BringUp.** `IInv` says, run by run, how far the tasks are by where the run is
  (`TasksFollow`), that what is begun has its needs met (`NeedsAreMet`), that the
  lock's holder is told by `pc` and `early` (`LockFollows`), and that who is at a
  prompt beside the lanes was free of prompts when it was looked at and has been
  misled since (`AsksInFront`). The proof is of one run at a time: `Others` shows
  that a run leaves what the others are at as it is, `TasksOwn` and `AsksOwn` are
  of the run that moves, and only the lock relates two. `GraphIsFollowed` is the
  refinement: `MovesOn` has every step of a run move its tasks as `UpGraph` does,
  `NeedsAreMet` of the next state gives the needs, `Finish` maps to `Leave` by
  `EndsWhole` (an end has no task under way), a kill to `Kill`, and what changes
  around the runs to a stutter. `GraphPromises` is of `UpGraph` alone, by an
  invariant of its own: deploy is begun on everything, and an up is complete of
  nothing less than all its tasks. By the refinement up does so too (`DeploysOnAll`).
* **Builds.** Of the content of images, what matters is settled at the pin:
  `Steady` compares the tree with the fingerprint, and that stands for what make
  read only if the tree was not another in between. `Sees` and `Makes` are that,
  and inductive since an edit that takes the tree back under a make (`MakesOf`) is
  in the history `reverted`: a run whose tree is that of its fingerprint, and did
  not come back to it, has read no other. `IInv` excepts just those trees, so its
  theorems have no hypothesis on the edits. `Makes` ties the output tag to what
  make read, `Pushes` and `Stamps` carry it on to the stamp, `LockIsHeld` keeps
  the other runs from the shared tags meanwhile, and `ContentsAreTrue` is
  `RecordsAreTrue` of pins and records by themselves, since eviction, untagging
  and a failed record part the two. `Repushes` has the stamp of a run that is to
  repush. The proof is of the run that moves; `OthersKeepTheirs` is for the rest.
  What holds of the lock does so for these trees too, and has an inductive
  invariant of its own, `LockInv`: from its push to its stamp a run has to do with
  one image (`PublishesOne`), which stays under the pin or the output tag since
  nobody else is inside. `PushedIsThere`, `StampsOneImage`, `DoneIsServed` and
  `OnlyTheHolderBuilds` follow.
* **Deploy.** `NeverStale` is about the pod of the current template, and a pod
  that is not of it may be of it again when a deploy goes back to what it was;
  so `PodIsPinned` is about every pod and its own template. That a pod which
  always pulls gets that digest is `TemplateIsPinned`: the tag names what the
  template pins unless it moved. `StagesAreThrough` has what each stage left, of
  the job's source and selection, and `JobFollows` that the job is the one they
  were run for; `OfAPiece` is the two at "done".
* **Wait.** `TimeIsBounded` has the clock's bound where the wait is: a poll begins
  by the deadline, since the sleep before it is cut short, and each diagnostic
  adds its budget; `InTime` follows. `PollIsRight` and `NotReadySince` are
  `SaysWhatIsSo` while the poll is under way. Its second half is not strict: a
  cluster may become ready just after an answer and still be called not ready,
  exactly a poll's budget later.

Liveness (`AttemptsEnd`, `RepairIsReached`, `EveryRunIsAnswered`,
`RepairIsEnough`, `ComesBack`, `EveryUpEnds`, `DeployReached`, `WaitInTime`) and
what needs ENABLED is beyond the prover and left to TLC, and so is `Values`, whose
merge is recursive over documents. Every other property of a passing run is a
theorem, a few of them under the hypotheses named above; `Lifecycle` is part of
`Sweeps`. The counterparts and the other properties named above that no run lists
(`SharedIsAskedFor`, `StampsOneImage` and the like) hold by proof alone.

## What is not modelled

Components with no module are in `PROJECT.json` with the reason. Within the
modules that there are:

* *locks*: the owner record in a lock file is message text.
* *sweeps*: clusters and registries rooket does not manage; cluster names that
  no lock can have, which prune takes unlocked; errors of `os.Remove` on images,
  and images made in part; the repair of the iSCSI configuration that a setup
  begins with, which `Devices` has and `OnlyTheHolderTouches` is therefore not
  about.
* *ports*: registries under two engines.
* *charts*: the deletion of the whole cache; what helm keeps in its home.
* *cache*: two engines; a zot that ends by itself in a container that started; the
  failure of the removal of the volume, which `--delete-cache` reports.
* *builds*: several images in one build; a `--tag` in another registry; a make
  that outlives its killed rooket, or that the user runs; image IDs are
  identified with the content they hash; ties in the ages of records.
* *devices*: the rewriting of the initiator's name and its ACLs; reboots.
* *nodes*: paused nodes; a block teardown of a live cluster; the steps beside
  and after node preparation (registry, cache, CRDs, containerd), which have
  parts of their own or none; more than one disk per worker; the zap of a
  rebuild, which is in `Lifecycle`.
* *bringup*: the order of the output (`switchwriter.go`); `up --wait` and
  `--skip-deploy`'s check of the devices; a make that goes on after its rooket is
  killed, which has no lock any more; the failures of single branches beyond that
  they fail.
* *values*: keys that hold a dot or a bracket, whose joined paths may collide;
  what rooket's base says (`internal/values/base.go`), which is data; reading and
  writing YAML. Profiles are whole: a `values fork` that is killed leaves part of
  one (`internal/profiles/profiles.go:180`), which then shadows the built-in.
* *deploy*: the values a release is given (their merge is in `Values`), of which
  the configuration home's are read chart by chart and may differ from one to the
  next if they are edited meanwhile: `OfAPiece` is about source and profiles;
  the rendering of the templates, whose failure is helm's here; releases that helm left pending; a branch that is switched between two charts of one
  deploy, which only changes the operator's tag; more than one operator pod at a
  time.
* *wait*: the texts; the retries of kubectl itself.

## The plan

Done: the locks, the lifecycle and the sweeps over them, the registry ports, the
two caches, builds, devices, nodes, the bring-up, deploy, wait and values; the
theorems above, and beside each that needs a hypothesis about ports, prunes, engines
or flags the one that says what is left without it. What could come next:

1. **Inputs** (`cmd/shape.go`, `cmd/source.go`): the settling of shapes and
   sources as operators.
2. **Finer exceptions** than the histories `unwiped`, `spoiled`, `misled` and
   `reverted`, which never forget.
3. **Theorems about `Values`** are out of reach as long as its merge is recursive
   over documents, which is induction over data.

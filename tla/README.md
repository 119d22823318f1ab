# A verification project for lasd (local-agent-sandbox)

`lasd` emulates the part of a Kubernetes cluster that agent sandboxes need: an
API server over an in-memory object store, controllers that turn SandboxClaims
and warm pools into Sandboxes and Sandboxes into Docker containers, and a data
plane that routes requests to the containers. This directory models the store,
the control plane, the data plane and the way from a pod spec to the runtime in
its container in TLA+, checks small instances with TLC and proves with TLAPS, for
instances of any size, every safety property that the runs check. Paths below are
relative to `src/`.

## 1. Inventory

| Component | State it keeps | Operations | Interacts through |
|---|---|---|---|
| Object store (`internal/store`) | objects by type and key, one resourceVersion counter, bounded event history, subscriptions | Create, Get, Update, Patch, Delete, List, Watch, pump, LoadFrom | one lock; channels to the pumps; a delete hook that runs after the unlock |
| Persister (`store/persist.go`) | bolt file, page cache | SaveObject, RemoveObject, Load, flush every second | called inside the store's lock |
| Manager (`reconciler/manager.go`) | one work queue per controller | watch loops, workers, requeue | watches without a resourceVersion; one reconcile per key |
| Sandbox controller (`reconciler/sandbox.go`) | none of its own | orphan check, expiry, suspend, run, status | store reads and writes, Docker calls |
| Claim controller (`reconciler/claim.go`, `build.go`) | none | expiry, resolve, bind, adopt, cold start, status | store |
| Warm pool controller (`reconciler/warmpool.go`) | none | list, create, scale down, status | store |
| Delete hooks (`reconciler/reconcile.go`) | none | cascade from claim and pool to sandbox, from sandbox to container and PVC | run in the goroutine that deleted |
| Docker driver (`internal/driver`) | containers and volumes in Docker | image, create, start, inspect, stop, remove, probe, events, volumes | Docker API; events queue sandboxes |
| API facade (`internal/kubefacade`) | none | list, get, create, update, patch, delete, watch, scale; discovery, OpenAPI | store |
| Pod building and mapping (`reconciler/build.go`, `driver/mapping.go`) | none | env injection, volume templates, secure defaults, pod to container | called by the claim, pool and sandbox controllers |
| Application (`internal/app`) | none | boot, bootAdoption, bootstrap objects, teardown | starts the controllers before bootAdoption |
| Virtual router objects (`internal/vrouter`) | objects in the store | ensure per namespace | one watch of namespaces |
| Data-plane router (`internal/router`) | none | resolve a request to a published port, proxy | store and driver reads |
| Port forwarding (`internal/portforward`) | streams of one connection | pair streams, copy both ways | router port |
| PVC controller (`reconciler/pvc.go`) | none | back a PVC by a volume, status | store, Docker |
| Template controller | none | logs | store |
| Runtime (`runtime/`) | files of the container | exec, upload, download, list | HTTP from the router |
| Command line (`cmd/lasd`) | none | gc, purge, status, ls, doctor | Docker, API |
| Static parts (`apis`, `config`, `kubeconfig`, discovery, OpenAPI) | tables | none | - |

Hard behaviours, each listed with its line under `hazards` in `PROJECT.json`:

- a watch is assembled from a list, a replay and a live channel that writers
  fill concurrently; history and channels are bounded; history does not survive
  a restart, and the last second of writes does not survive a power loss;
- a reconcile is a sequence of store and driver calls, none of which is checked
  again against what it read first; status writes and deletes carry no
  precondition; names are reused by new incarnations;
- delete hooks check an owner with one call and delete by name with the next;
- the work queue is the only serialisation: one reconcile per key, nothing
  between a claim, its pool, its sandbox and an API request;
- Docker calls fail, and most errors of clean-up calls are dropped;
- the process is killed between any two calls and starts again over the same
  store and the same containers, with the controllers running while
  bootAdoption collects;
- gc, purge and bootAdoption remove containers and volumes behind the
  controllers' back, and Docker's event stream ends for good with its first
  error;
- a request is resolved by one read of the store and one of Docker, and dialled
  at a host port that may have changed hands; a tunnel pairs streams that arrive
  in any order and copies in two goroutines that end one through the other;
- namespaces appear while the one watch that gives them a router is opened;
- a file is written and read by concurrent requests without a lock.

What makes the parts correct: watches neither lose, repeat nor reorder; a
resourceVersion names one version; spec and status writers do not overwrite each
other; a sandbox has one owner and is adopted once; a claim has one sandbox of
its own and gets it; pools do not overshoot; a sandbox has one container; what
is deleted, expired, orphaned or suspended goes away, and what is to run comes
back; containers have their PVCs and users keep theirs; requests reach their own
sandbox, are answered, and tunnels end; the process in the container gets the
environment, mounts, arguments and files that were asked for.

## 2. Modules

| Module | Models |
|---|---|
| `ObjectStore` | `internal/store` with its clients: writers that read, modify and write back, watchers that keep a view |
| `Cluster` | the state the controllers share, work queues, delete hooks, Docker containers and volumes |
| `SandboxController`, `ClaimController`, `WarmPoolController`, `PVCController` | one reconciler each, over `Cluster` |
| `Collectors` | bootAdoption, `lasd gc`, `lasd purge` |
| `ControlPlane` | the four controllers, hooks, collectors, users, Docker, crash and boot, composed |
| `SandboxOwnership` | abstract specification: who a sandbox belongs to |
| `VirtualRouter` | the router's Pod, Service and EndpointSlice and the goroutine that makes them |
| `Router` | the data-plane router's handler, one exchange per connection |
| `PortForward` | the port-forward server on one SPDY connection, over `Router` |
| `DataPlane` | `VirtualRouter` and `PortForward` with clients and changing containers |
| `PodBlueprint` | `build.go`, `injectPodVolume` and `MapPodSpec` as operators |
| `Runtime` | `splitArgs`, `safePath` and the file handlers |
| `SandboxPod` | a claim on a template, through `PodBlueprint`, to a container with a `Runtime` |
| `MC...` | constants of the instances TLC checks |
| `ObjectStoreProofs`, `WatchProofs` | theorems about `ObjectStore`: types, history and versions; copies and streams |
| `ControlPlaneTypes` | type correctness of `ControlPlane`, with the types of all threads |
| `OwnershipProofs` | `ControlPlane` implements `SandboxOwnership`; pools; one sandbox per claim; what a claim records |
| `ContainerProofs` | containers and PVCs of `ControlPlane`; suspension |
| `DataPlaneProofs` | types of `DataPlane`, and where requests go |
| `Folding` | what a left fold over a sequence computes, for any step |
| `SandboxPodProofs` | environment, mounts, arguments and files of `SandboxPod` |

### ObjectStore

Every method of `Store` holds the lock for its whole body and is one action.
`data`, `rv`, `history` and `subs` are the fields of `Store`; `flushed` is what
the last `db.Sync` wrote. A stored object is abstracted to uid, resourceVersion,
generation, spec, status and one label. `Commit` is what all writes do at their
end: `nextRV`, `putLocked` and `emitLocked` with its trimming and fan-out. A
subscription holds the bootstrap the pump still has to send, the channel, and
the resourceVersion at registration. The pump's steps (`PumpBootstrap`,
`PumpLive`, `StreamEnd`) deliver to a client that applies events to a view;
delivery is one step, so the channel `out`, which is unbuffered, has no state.
A watcher opens streams in one of three ways: List then Watch(RV)
(`WatchListed`), again with its last resourceVersion (`Resume`), or without one,
as the manager does (`WatchNow`). Calls that fail change nothing and are not
actions. `exact` and `origin` in `cli` are history variables: they say whether
the client's starting point is known to be a state of the store and whether the
store could still send everything after it.

`Restart` is the death of the process: all committed bolt transactions survive
in the page cache, history and subscriptions do not. `PowerLoss` boots from
`flushed`.

### Cluster and the controllers

One store call or one driver call is one step; a reconcile is a small program
counter per key (`sbw`, `clw`, `plw`) with the copy it read first. `dirty` is the
set of queued keys, `Take` a worker that gets one. `hook[t]` is the delete hook
that thread `t` is running: hooks run in the deleting goroutine, so a worker goes
on only when its hooks have returned. `fresh` holds the claims whose copy of the
picked sandbox still has the stored resourceVersion, which is all that
`Store.Update`'s precondition asks. UIDs and container ids come from one counter.
`containers` are found by the name on their labels, as `InspectSandbox` does.

`storage` is PVCs and Docker volumes. A PVC has an owner (the UID of a Sandbox,
0 for a user's) and a phase; a volume exists with the labels of `EnsureVolume`,
or bare, when Docker made it for a container, or not. `reconcileRunning` makes
the PVCs of the templates, looks up every PVC the pod mounts and ensures its
volume, one call a step, before it inspects. For a non-root container with
volumes `prepareVolumePermissions` runs a one-shot container with the sandbox's
labels (uid 0 in the model), which every inspection by label can meet. The
delete hook of a sandbox goes on to its PVCs and their volumes; Docker refuses
to remove a volume that is mounted.

`sweep` is the one collector at work: a list taken once, worked through one
lookup and one removal at a time. `events` is Docker's event stream; what would
queue a sandbox is lost when it has ended.

Abstractions, in the order of the code: the image check and the runtime probe
belong to the step that inspects; stopping belongs to the step that removes; a
failing start with its removal, which may fail as well, and the inspection after
the start are one step and count as one failure; the
pod-name annotation belongs to the status write and the claim's sandbox-name
annotation to the adoption (no controller reads either); the claim's reads of
pool and template are one step; conditions are three Booleans; the counts in a
pool's status are left out; Delete and DeleteForeground are the same in the code
and in the model. A requeue, with or without a delay, puts the key back at once.
Expiry by `shutdownTime` or, for a finished claim, `ttlSecondsAfterFinished` is
the action `Expire`, which also queues the key as
`expiryRequeue` and `claimLifecycleRequeue` do. After a restart the default pool
and template that `bootstrapObjects` would create again are not re-created: the
model's pools are any pools. A generated name is any free name of `WarmNames`.

### SandboxOwnership

Provision (for one owner, under a new UID), Adopt (from pool to claim, once),
Destroy. `ControlPlane!Ownership` maps the stored sandboxes to it, and
`AdoptedOnce` says that the control plane implements it.

### VirtualRouter, Router, PortForward, DataPlane

`VrStep` is `startVirtualRouter`: three objects for `default` and the system
namespace, one Get and one Create a step, then one watch. `nsWatch` is the
subscription, a snapshot and a channel of `NsChan` that is cut when full;
`ensureNamespace` is the second store call of the facade's create, so an object
can be in a namespace whose Namespace is not stored yet.

`ex[e]` is a connection to the router with one request. `ServeHTTP` reads the
store, `Inspect` Docker, `Dial` reaches whoever publishes the host port by then,
`Upstream` is the container's answer. `Cancel` is the context's end, by
`X-Sandbox-Timeout` or because `net/http` saw the client's side end. `HttpClose`
and `HttpHangUp` are what `net/http` does with the connection.

In `PortForward`, `streamChan` has the capacity 1 of the code, `onStream` is the
whole function, and `forward` is `DialRouter`, then `CopyUp` and `CopyDown` as
two goroutines, then `Finish`. Data streams are the names of exchanges. A direct
connection to the router is an exchange without the bridge and shows nothing
more.

In `DataPlane` the control plane appears by what it does: sandboxes are made and
deleted, containers start on free host ports, serve, exit and go, and the Ready
condition follows some time after.

### PodBlueprint, Runtime, SandboxPod

`PodBlueprint` keeps the results of the code's functions: a value, a rejection,
an error, or the panic of an index out of range. Env vars, volumes and
volumeClaimTemplates are sequences, because first and last of a name differ.
`Runtime` is the loop of `splitArgs` as a fold over characters, `safePath` over
path components, and `upload` and `download` as goroutines that move one chunk a
step at an offset of their own. `SandboxPod` starts from an input (template,
claim, command, number of file requests), builds, creates the container, and
runs. The references are stated on the input: the property says what the
container must have, not how the functions get there; for commands the reference
is a client that quotes a list of arguments in one of three styles. Labels,
annotations, resource limits, pull policy, the copying of commands and warnings
are left out.

## 3. Runs

Passing runs:

| Run | Checks | Instance |
|---|---|---|
| `store_watch` | `TypeOK`, `ViewsConverge`, `OrderedDelivery`, `RVIdentifiesVersion`, `HistoryWindow`, `HalvesSeparate` | two types, one name, a writer with stale copies, one watcher in all three modes, four writes, two disconnects or restarts, history of 2, channel of 1 |
| `store_live` | `ViewsConverge`, `HistoryWindow`, `EventuallyConsistent` | two watchers without a resourceVersion, one with a selector, three writes, a disconnect or power loss |
| `cp_bind` | `TypeOK`, `OneSandboxPerClaim`, `PoolNeverOvershoots`, `AdoptedOnce` | two claims, one pool, two warm names, three operations of users (claim, pool, scale, unpool, template, mode) |
| `cp_sandbox` | `AtMostOneContainer`, `SuspendedMeansGone`, `RestartCollects`, `SelfHeals`, `UnwantedRemoved` | one sandbox, three operations (create, delete, suspend, resume, exit, expire, gc, purge, end of the events), one failing call, one crash |
| `cp_claim` | `OrphansCollected`, `ClaimServed`, `ExpiryReleases`, `BindingIsOwn` | one claim with a cold start, kept or deleted on expiry, three operations (create, delete, expire, exit, TTL), one of which may be a crash instead |
| `cp_volumes` | `MountsBacked`, `UserPVCKept`, `PVCsBound`, `SelfHeals` | one non-root sandbox with a template's PVC and a user's, three operations (create, delete, PVC, delete of a PVC, purge) one of which may be a failing call instead |
| `data_plane` | `TypeOK`, `NoCrossTalk`, `TimedRequestsAnswered`, `ForwardsEnd`, `PairsForwarded`, `RouterEverywhere` | two sandboxes of one name in two namespaces, two host ports, the pair of streams of one request, one failed dial, and two changes of containers or a third stream: of another request, repeated or a stray; or three operations in three namespaces with a channel of 1 |
| `sandbox_pod` | `EnvAsAsked`, `MountsAsAsked`, `ArgvAsQuoted`, `FileReadsBack` | all policies over the templates, claims, volumes and mounts of `MCSandboxPod`, command lines of up to two arguments of up to two special characters in three quotings, two clients with three file requests |

What they show, beyond the property's own comment:

- `store_watch`: no interleaving of writes with list, registration, replay and
  live delivery loses or repeats an event when the store still has what the
  client needs. It holds by two things together: registration and bootstrap
  under one lock, and dropping rather than skipping a slow subscriber; removing
  either breaks it. The pump's `currentRV` check is modelled and changes nothing:
  a channel that is registered under that lock holds newer events only.
- `store_live`: the manager's way of watching heals every gap, including the one
  a power loss makes.
- `cp_bind`: the 409 of `Store.Update` is what makes adoption exclusive; the
  binding in the status is what keeps a claim from taking a second sandbox.
- `cp_claim`: the orphan check compares UIDs; if it compared names, a re-created
  claim would wait for ever behind the sandbox of its predecessor. A reconcile of
  a deleted incarnation can write its status into the claim made again under the
  name, binding and conditions alike; `BindingIsOwn` says what such a write can
  name, and `ClaimServed` that the new claim has a sandbox of its own in the end.
  handleClaimExpiry knows what to delete from `status.sandbox.name` alone: a
  retained claim whose process died between the creation of the sandbox and the
  status write, and which expires before it is reconciled again, keeps the sandbox
  for ever, although the comment at `reconciler/claim.go:302` says that the owned
  sandbox is deleted. `ExpiryReleases` names this as its one exemption, and TLC
  finds it when the exemption is taken out. The run has no warm pool: an adopted
  sandbox is released by the same delete, and the same crash loses it.
  `ClaimServed` excuses the container that a crash leaves created and not started,
  as `SelfHeals` does.
- `cp_sandbox`: what keeps a running sandbox under observation is its own status
  write, made even when nothing changed: that event queues it again. Without it,
  a container that gc removes after Docker's events ended is never replaced.
  `SelfHeals` does not hold where a crash or a failing call leaves a container
  that never ran its process: one in state created, which no reconcile starts, or
  the one-shot container of a non-root sandbox, which passes for the sandbox's.
  The property excuses a behaviour only if such a container stays for ever.
  `SuspendedMeansGone` ends with the first failure of Docker, because
  reconcileSuspended drops the error of the removal; `UnwantedRemoved` says what
  is left: the container does go in the end, since the status write queues the
  sandbox again and the removal is tried again.
- `cp_volumes`: the owner's UID is what protects a user's PVC that has the name
  a template yields. It holds while users do not delete a sandbox's own PVCs:
  between the hook's Get and its Delete by name another PVC can take the name.
  `MountsBacked` is about PVC objects; a volume can be bare, when purge takes it
  between `EnsureVolume` and the creation.
- `data_plane`: `NoCrossTalk` excuses a request whose container stopped between
  `Resolve` and the dial, because its host port may be another's by then and
  nothing checks who answers. `ForwardsEnd` rests on `CloseWrite`, which makes
  `net/http` end the connection. `PairsForwarded` is about pairs that are found by
  their request ID past the stream of another request; with one slot for all
  requests a data stream is forwarded with the other's error stream.
  `RouterEverywhere` excuses a watch that the store cut, which is never opened
  again.
- `sandbox_pod`: `EnvAsAsked` has two exemptions, a template without containers,
  for which `injectEnv` panics when the claim has env, and a name that the
  template declares twice. `injectPodVolume` replaces a pod volume of the name,
  although its comment says it adds one "if not already present":
  `MountsAsAsked` states what the code does, which is what a
  volumeClaimTemplate needs. `FileReadsBack` speaks of uploads that were alone;
  concurrent ones mix and a failed one leaves the file cut off.

Runs that end in a counterexample, each a finding in `PROJECT.json`:

| Run | What the code does |
|---|---|
| `store_boundary` | A watch from one below the oldest retained resourceVersion gets a snapshot, not a replay: a retained deletion never reaches the client. |
| `cp_leak` | Deleting a sandbox between `InspectSandbox` and `ContainerCreate` of `reconcileRunning` leaves a container until the next start. |
| `cp_scale_down` | A scale-down deletes a sandbox that was adopted after the pool listed it. |
| `cp_crash_adopt` | A crash between adoption and status write gives the claim a second sandbox; the annotation that would tell is written later and never read. |

### Bounds

`MaxRV`, `MaxFaults`, `MaxOps`, `MaxAll`, `MaxCrashes`, `MaxChanges` and
`MaxDialFails` bound counters; `MaxAll` bounds operations, failures and crashes
together and only bites in `cp_volumes` and `cp_claim`. Capacities are as
small as the code allows them to matter: a history of two and a channel of one
are full after two writes, so trimming, dropping and the boundary of the replay
condition happen in every run, and one write more than the history holds is
enough for each kind of starting point. Two adoption attempts show a conflict, a
retry and giving up. Three operations are enough for create, delete and create
again of one name, with another thread at any step. `Scheduled` names the keys
whose reconciles an instance runs: `cp_bind` leaves the sandbox controller out
and lets users write to the sandboxes instead, `cp_claim` leaves an empty pool's
controller out, `cp_volumes` the reconcile of the PVC that the pod refers to. For
a safety property this only removes behaviours of threads that are not part of
the question; `cp_claim`'s liveness properties concern keys
that are scheduled. `cp_bind` uses symmetry of the claims, for safety only.
Deadlock is not checked because users stop after `MaxOps`. In `data_plane` a
behaviour either works in namespaces or opens a tunnel: the tunnel reads nothing
of the virtual router but the EndpointSlice it starts with. A third stream
(`Extra`), of another request, repeated or a stray, takes the place of the
container changes. Two sandboxes with
one name and two host ports are the least in which a port changes hands and a
filter by name alone goes wrong.

### Fairness

`ObjectStore`: weak fairness of each pump goroutine and of each client that has a
stream to open (the manager's loop opens one whenever its stream ends); writers
and faults are not fair. `ControlPlane`: weak fairness of each worker, each
running hook, the collector at work, and of a started container's runtime
beginning to serve and the one-shot chown ending. Workers are fair per key because
the work queue hands out keys in order; nothing makes a user, a crash or a failure happen.
`DataPlane`: weak fairness of the facade's second call, of the virtual router's
goroutine, of `run`, of each handler and each forward, and none of clients,
containers or upstream answers; a deadline that was set passes, which is part of
the handler. Go's scheduler and Docker
answering in finite time are what this rests on.

## 4. Proofs

All theorems hold for every value of the constants that satisfies the named
assumptions of the modules; a theorem that needs more says so in its `ASSUME`.
The assumptions are about the shape of the parameters: capacities and retries
are positive, bounds are natural numbers, names, pools and surviving containers
are finitely many, names of claims, generated names and names that users choose
do not clash, a stream that may be a data stream has an exchange. TLC evaluates
them in every run. `MaxOps`, `MaxFaults`, `MaxCrashes` and `MaxRV` are arbitrary,
so the theorems say more than the runs about how long a behaviour may be, too.

An invariant named below was checked by TLC on the small instances before it was
proved. Where the state is large the proofs go through *effects*: a lemma lists
the few ways in which any step of `Next` can change one variable
(`SandboxEffect`, `ContainersEffect`, `PVCEffect`, `PoolThreadEffect`, ...), and
the invariant is then shown for each way and not for each action.

### The store

| Theorem | States | Rests on |
|---|---|---|
| `StoreTypeCorrect` | `[]TypeOK` | inductive as it stands; the work is in what a watch is bootstrapped with (`BootstrapType`) |
| `WindowHolds` | `[]HistoryWindow` | with `TypeOK`; has to speak of the flushed contents too, since a power loss makes them the contents |
| `HalvesStaySeparate` | `HalvesSeparate`, without power losses | `MergeHalves`, for any incoming copy |
| `VersionsAreUnique` | `[]RVIdentifiesVersion`, without power losses | `CopyInv` |
| `DeliveryIsOrdered` | `[]OrderedDelivery` | `StreamsInv` |
| `StreamsConverge` | `[]ViewsConverge` | `StreamsInv`, `StoreInv` |

`CopyInv` says of every copy, including those in bootstraps and channels, that it
is no newer than the counter and equal to the stored object if it has its
resourceVersion: copies in a channel become views, so they have to be part of it.
A write stamps a number above every copy, which is all that is needed
(`VersionStep`). With power losses the statement is false, and so is
`HalvesSeparate`: numbers are given out again, and both halves go back to the
last flush.

`DeliveryIsOrdered` and `StreamsConverge` have no hypothesis: all faults,
capacities, selectors and ways to watch are in. The one notion they are built on
is `Upto`: what is known of an object is *right up to r* when it is what the
store has, or when the event that changed it since is newer than `r` (for a
deleted object, whose resourceVersion is gone, that event must be in the history,
or the history must begin after `r`). `StoreInv` says that each retained event is
right up to itself, that every write within the window has its event, and that
the disk is behind the counter or equal to the contents. `Knows(..., j, r)` says
that a client that has applied the first `j` of the events on their way is right
up to `r`. `StreamsInv` then says of each watch: bootstrap events are no newer than
the registration and live ones newer (`StreamSound`); an exact client is right up
to its lastRV, and after each further event up to that event (`StreamExact`); one
that gets a snapshot, whose events come in any order, is right up to the
registration once it has them all (`StreamBooting`); and all that is on its way
makes the client of an open stream right up to the counter (`StreamOpen`). A
stream that the slow-consumer rule has closed keeps the first three, which is why
it can be resumed.

### The control plane

| Theorem | States | Rests on |
|---|---|---|
| `ControlPlaneTypeCorrect` | `[]TypeOK` | `TypeInv`, which also types each thread by its program counter |
| `ControlPlaneImplementsOwnership` | `AdoptedOnce`, the refinement of `SandboxOwnership` | `UidInv`, `FreshInv` (`UidsAndPicks`) |
| `PoolsNeverOvershoot` | `[]PoolNeverOvershoots` | `PoolInv` |
| `ClaimHasOneSandbox` | `[](crashes = 0 => OneSandboxPerClaim)` | `UidsGiven`, `UidsApart`, `ClaimInv` |
| `NamesHaveOneContainer` | `[]AtMostOneContainer`, if `MaxFaults = 0` or no non-root sandbox mounts volumes | `ContainerInv` (`QuietNamesHaveOneContainer`) |
| `SuspendedSandboxesAreGone` | `SuspendedMeansGone`, if `MaxCrashes = 0` or no sandbox mounts PVCs | `ContainerInv`, `SuspendInv` (`SuspendedAreGone`) |
| `ColdBindingsAreOwn` | `BindingIsOwn`, if `WarmNames` is empty | `UidsGiven`, `WarmInv`, `BindInv` (`BindingsAreOwn`) |
| `UserPVCsKept` | `UserPVCKept`, if users do not delete sandboxes' own PVCs | `HookInv` |
| `MountsStayBacked` | `[]MountsBacked`, if users leave pods' PVCs alone and no template yields one | `MountInv` |

- Refinement. Every step makes one sandbox under a UID that was never given out,
  adopts one, destroys one, or changes no owner. `FreshInv` is what the 409 of
  `Store.Update` gives: while a claim's copy of its pick has the stored
  resourceVersion, the pick is still a pool's.
- Pools. Members, together with what the worker still means to create from its
  old listing, stay within the replicas; the copy the worker read counts as well.
- Claims. What an incarnation of a claim owns is the sandbox its status records,
  or what its worker is about to record; an incarnation that no worker has read
  owns nothing. The hypothesis `crashes = 0` is the point: a crash loses what the
  worker was about to record, and `cp_crash_adopt` is the counterexample.
- Containers. Between the inspection that found no container and the creation
  there is none, except the one-shot container that the reconcile itself waits
  for. With a failing call that container can be left behind and be joined by
  another, so the hypothesis is needed for non-root sandboxes with volumes;
  `QuietNamesHaveOneContainer` is the same for each name and without a
  hypothesis, up to the first failure.
- Suspension. A status write has no precondition, so what it says may have been
  read from another incarnation. `SuspendInv`: a status that will say Suspended,
  and a stored one or a copy that says so already, belongs to a name without a
  container, except between the creation of a container and the status write
  that follows it; the container that a reconcile removes or starts is the only
  one. A crash in that gap leaves a sandbox that says Suspended and has a
  container; a reconcile that then misses a PVC keeps what its copy says and can
  write it to a re-created sandbox. Hence the hypothesis; `SuspendedAreGone`
  states it for each name and each moment instead.
- Bindings. While a claim is reconciled nobody else writes the binding of the
  incarnation that was read, so a write that changes it writes a new one. A new
  binding that is about to be written is to an adopted sandbox, or to the one of
  the claim's own name, which is then the read incarnation's, a user's or gone:
  only the claim's own worker creates under that name. The write itself may reach
  a claim that was re-created meanwhile: that its new binding is the predecessor's
  sandbox is part of the statement, and only an old binding that is carried over
  is not. For an adopted sandbox the
  statement would need that a generated name is not generated again after a
  delete; the model lets it be, so `BindingsAreOwn` speaks of all names but the
  generated ones, and the property itself is proved for instances without them
  (the run `cp_claim` is one).
- PVCs. A hook that found a PVC owned by its sandbox still finds it so when it
  deletes by name: no two hooks clean up after one sandbox, and no stored sandbox
  has a UID that a hook is cleaning up after. A user who deletes and re-creates a
  sandbox's PVC in between breaks it, which is the hypothesis.
- Mounts. Sandboxes own PVCs of templates only, and what a reconcile has got past
  in its loop over the volumes exists until its container is gone. Where a
  template yields a PVC that a pod also refers to by name, the hook of the one
  would delete what the other mounts; hence the hypothesis.

### The data plane

| Theorem | States | Rests on |
|---|---|---|
| `DataPlaneTypeCorrect` | `[]TypeOK` | `TypeInv`, which also says that container ids and keys are unique |
| `RequestsReachTheirSandbox` | `[]NoCrossTalk` | `RouteInv` |

`RouteInv`: running containers share no host port; until the dial the target is a
port of the container that was found, if that runs; after it, the container that
was dialled has the request's sandbox or the one that was found has ended.

### The pod and the runtime

| Theorem | States | Rests on |
|---|---|---|
| `EnvArrives` | `[]EnvAsAsked` | `PodInv` |
| `MountsArrive` | `[]MountsAsAsked` | `PodInv` |
| `ArgumentsArrive` | `[]ArgvAsQuoted` | `ArgvInv` |
| `FilesReadBack` | `[]FileReadsBack` | `RuntimeInv` |

The first three hold for every template, claim, list of arguments and way of
quoting, that is for data of any length. `Inputs` is any set of well-typed inputs
(`InputAssumption`); that a PVC's name is not empty is assumed by name because
the provers know nothing of characters.

- Folds. The loops of the code are `FoldLeft` in the model. A theorem with an
  operator as a parameter is of no use to the provers, but a module with an
  operator as a constant is: `Folding` proves for any step that a fold over
  nothing is its start and that a fold over a longer sequence is one step more
  (`FoldEmpty`, `FoldAppend`, `FoldConcat`), and `SandboxPodProofs` instantiates
  it once for each loop. Induction is over the set of lengths, or of sequences,
  for which a statement holds (`NatSet`, `SeqSet`), which needs no parameter
  either.
- Environment. `Carries` says of the claim's variables so far that the template's
  entries keep their names and places, that each new name has been added once,
  and that the last one asked for of each name is there; each further variable
  keeps it. `PodInv` takes the result through `buildSandbox` and `MapPodSpec` to
  the container's map, where the last entry of a name counts.
- Mounts. A volumeClaimTemplate of the claim or the template is in the merged
  list, injection makes the first volume of its name the sandbox's PVC and leaves
  the other names alone, and every mount comes from a volume mount.
- Arguments. A scanner of the quoted form of a word, started between words, ends
  in the word or after it with exactly its characters, for each style; the proof
  goes through the states of `splitArgs` (`Between`, `InWord`, `InSingle`, ...).
- Files. `RuntimeInv`: while one upload is alone in a file, the file is the chunks
  that it has written so far; a download whose expectation still stands has read
  the first chunks of what the file holds. Opening a file for another upload
  takes back every expectation about it.

### Only model-checked

- All liveness (`EventuallyConsistent`, `RestartCollects`, `SelfHeals`,
  `UnwantedRemoved`, `OrphansCollected`, `ClaimServed`, `ExpiryReleases`, `PVCsBound`,
  `TimedRequestsAnswered`, `ForwardsEnd`, `PairsForwarded`, `RouterEverywhere`):
  fairness and `ENABLED` are outside the prover's reach.
- `BindingIsOwn` for generated names: what is proved of it leaves them out (see
  above), and `cp_claim` has none.

## 5. Not modelled, and the plan

Left out of modelled parts:

- claims whose env or volume templates are rejected are not inputs of
  `ControlPlane`; `SandboxPod` covers what is rejected and why;
- pod specs that the sandbox controller rejects (`failReady` for a mapping error
  or a pod without containers) are not inputs of `ControlPlane` either; what
  `MapPodSpec` rejects is in `SandboxPod`;
- no passing run deletes a sandbox's own PVC or a pod's PVC under its hands
  (operations `unvct` and `unpod`): `UserPVCKept` and `MountsBacked` are stated
  for users who do not;
- upgraded connections: the router's proxy hands a WebSocket or another hijacked
  connection through as two copied byte streams, and an exchange in the model is
  a request with one answer;
- of whitespace between arguments only the blank: `splitArgs` treats tab, newline
  and carriage return in the same way;
- one collector runs at a time; gc's `--dry-run` and purge's `--state` are out;
- directories below the runtime's root, and what an executed process does;
- a restart of the process in `DataPlane`, header rewriting and streaming of
  bodies in the proxy, and the drain of connections at shutdown;
- the mode without a Docker driver, in which no controller runs.

Left out for good: discovery and OpenAPI documents, configuration, kubeconfig,
schemes, the fake driver of the tests, and the commands `status`, `ls` and
`doctor`, which keep or change no state of the system.

Known behaviours without a property (a watcher with a selector is not told that
an object left it; a client that resumes after a restart is not told that
history is gone) are listed under `hazards` with the reason. `gc` announces
"containers/volumes" (`cmd/lasd/commands.go:199`) and looks at containers only.

Nothing is left of the plan. Worth adding when the code changes: generated names
that are never used twice, with which `BindingIsOwn` would hold for adopted
sandboxes as well; and a watch of namespaces that is opened again, with which
`RouterEverywhere` would need no exemption.

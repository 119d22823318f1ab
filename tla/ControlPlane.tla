--------------------------- MODULE ControlPlane ----------------------------
(***************************************************************************)
(* The control plane of lasd: the four controllers, the delete hooks, the  *)
(* collectors, Docker, and the users that create, change and delete        *)
(* claims, pools, templates, sandboxes and PVCs through the API.  The      *)
(* store outlives a crash of the process; threads, queues and hooks do     *)
(* not.                                                                    *)
(***************************************************************************)
EXTENDS SandboxController, ClaimController, WarmPoolController, PVCController, Collectors

CONSTANTS
  UserOps,       \* what users and the environment do in this instance
  UserPolicies,  \* shutdown policies of the claims and sandboxes users create
  InitReplicas   \* spec.replicas of new pools; users scale them to at most that

ASSUME ControlPlaneAssumption ==
  /\ UserOps \subseteq {"claim", "cold", "unclaim", "pool", "scale", "unpool",
                        "template", "bare", "delete", "mode", "exit", "expire", "ttl",
                        "pvc", "unpvc", "unvct", "unpod", "gc", "purge", "deaf"}
  /\ UserPolicies \subseteq Policies
  /\ InitReplicas \in Nat
  /\ IsFiniteSet(PoolNames)

----------------------------------------------------------------------------
(* Users and the environment.                                              *)

\* one of the bounded number of operations of the given kind
Op(kind) ==
  /\ kind \in UserOps
  /\ ops < MaxOps /\ ops + faults + crashes < MaxAll
  /\ ops' = ops + 1
  /\ UNCHANGED <<sbw, clw, plw, pvw, volumes, faults, crashes>>
\* ... that concerns neither PVCs nor Docker
ApiOp(kind) == Op(kind) /\ UNCHANGED <<pvcs, events, sweep>>

CreateClaim(c, p, cold, policy) ==
  /\ ApiOp(IF cold THEN "cold" ELSE "claim")
  /\ claims[c] = NoObject
  /\ claims' = [claims EXCEPT ![c] = [uid |-> lastUID + 1, pool |-> p, cold |-> cold,
                  shutdown |-> policy, due |-> FALSE,
                  ttl |-> IF "ttl" \in UserOps THEN "set" ELSE "none",
                  sb |-> NoName, ready |-> FALSE, finished |-> FALSE]]
  /\ lastUID' = lastUID + 1
  /\ dirty' = dirty \cup {<<"claim", c>>}
  /\ UNCHANGED <<pools, template, sandboxes, containers, fresh, hook>>

\* an API request is free to run a delete
Free(t) == hook[t].pc = "none"

ApiDeleteClaim(t, c) ==
  /\ ApiOp("unclaim")
  /\ Free(t) /\ claims[c] # NoObject
  /\ DeleteClaim(t, c)
  /\ UNCHANGED <<pools, template, sandboxes, containers, fresh, lastUID>>

ApiDeleteSandbox(t, n) ==
  /\ ApiOp("delete")
  /\ Free(t) /\ sandboxes[n] # NoObject
  /\ DeleteSandbox(t, n, {})
  /\ UNCHANGED <<claims, pools, template, containers, lastUID>>

ApiDeletePool(t, p) ==
  /\ ApiOp("unpool")
  /\ Free(t) /\ pools[p] # NoObject
  /\ pools' = [pools EXCEPT ![p] = NoObject]
  /\ dirty' = dirty \cup {<<"pool", p>>}
  /\ hook' = [hook EXCEPT ![t] = [NoHook EXCEPT !.pc = "plist", !.name = p]]
  /\ UNCHANGED <<claims, template, sandboxes, containers, fresh, lastUID>>

CreatePool(p) ==
  /\ ApiOp("pool")
  /\ pools[p] = NoObject
  /\ pools' = [pools EXCEPT ![p] = [uid |-> lastUID + 1, replicas |-> InitReplicas]]
  /\ lastUID' = lastUID + 1
  /\ dirty' = dirty \cup {<<"pool", p>>}
  /\ UNCHANGED <<claims, template, sandboxes, containers, fresh, hook>>

\* handleScale
ScalePool(p, replicas) ==
  /\ ApiOp("scale")
  /\ pools[p] # NoObject /\ pools[p].replicas # replicas
  /\ pools' = [pools EXCEPT ![p].replicas = replicas]
  /\ dirty' = dirty \cup {<<"pool", p>>}
  /\ UNCHANGED <<claims, template, sandboxes, containers, fresh, hook, lastUID>>

\* the template is created or deleted; no controller watches it for others
ToggleTemplate ==
  /\ ApiOp("template")
  /\ template' = ~template
  /\ UNCHANGED <<claims, pools, sandboxes, containers, dirty, fresh, hook, lastUID>>

CreateSandbox(n, policy) ==
  /\ ApiOp("bare")
  /\ sandboxes[n] = NoObject
  /\ PutSandbox(n, [uid |-> lastUID + 1, owner |-> NoOwner, mode |-> "Running",
                    shutdown |-> policy, due |-> FALSE, st |-> NoConditions])
  /\ lastUID' = lastUID + 1
  /\ UNCHANGED <<claims, pools, template, containers, hook>>

\* a user suspends or resumes a sandbox
SetMode(n) ==
  /\ ApiOp("mode")
  /\ sandboxes[n] # NoObject
  /\ PutSandbox(n, [sandboxes[n] EXCEPT !.mode = IF @ = "Running" THEN "Suspended"
                                                 ELSE "Running"])
  /\ UNCHANGED <<claims, pools, template, containers, hook, lastUID>>

\* a shutdownTime or the TTL after Finished passes; expiryRequeue has the key
\* queued for that time, and a claim that is not ready is polled
Expire ==
  /\ ApiOp("expire")
  /\ \/ \E c \in ClaimNames :
          /\ claims[c] # NoObject
          /\ \/ /\ claims[c].shutdown # "none" /\ ~claims[c].due
                /\ claims' = [claims EXCEPT ![c].due = TRUE]
             \/ /\ claims[c].ttl = "set" /\ claims[c].finished
                /\ claims' = [claims EXCEPT ![c].ttl = "passed"]
          /\ dirty' = dirty \cup {<<"claim", c>>}
          /\ UNCHANGED sandboxes
     \/ \E n \in SbNames :
          /\ sandboxes[n] # NoObject /\ sandboxes[n].shutdown # "none" /\ ~sandboxes[n].due
          /\ sandboxes' = [sandboxes EXCEPT ![n].due = TRUE]
          /\ dirty' = dirty \cup {<<"sandbox", n>>}
          /\ UNCHANGED claims
  /\ UNCHANGED <<pools, template, containers, fresh, hook, lastUID>>

\* a user creates a PVC, also one with the name of a template's
CreatePVC(v) ==
  /\ Op("pvc")
  /\ pvcs[v] = NoObject
  /\ pvcs' = [pvcs EXCEPT ![v] = [uid |-> lastUID + 1, owner |-> 0, phase |-> "none"]]
  /\ lastUID' = lastUID + 1
  /\ dirty' = dirty \cup {<<"pvc", v>>}
  /\ UNCHANGED <<claims, pools, template, sandboxes, containers, events, fresh, hook, sweep>>

\* ... and deletes one: a sandbox's, one of his own that pods refer to, or another
ApiDeletePVC(t, v) ==
  /\ pvcs[v] # NoObject
  /\ Op(CASE pvcs[v].owner # 0 -> "unvct"
          [] pvcs[v].owner = 0 /\ \E n \in SbNames : v \in PodPVCs[n] -> "unpod"
          [] OTHER -> "unpvc")
  /\ Free(t)
  /\ DeletePVC(t, v, FALSE)
  /\ UNCHANGED <<claims, pools, template, sandboxes, containers, events, fresh, sweep, lastUID>>

\* `lasd gc' and `lasd purge' begin: they list the containers
StartSweep(mode) ==
  /\ Op(mode)
  /\ sweep = NoSweep
  /\ SweepTo(Listed(mode))
  /\ UNCHANGED <<claims, pools, template, sandboxes, containers, pvcs, events, dirty, fresh,
                 hook, lastUID>>

\* the stream of Docker events fails; StartDriverEvents does not open another
EventsEnd ==
  /\ Op("deaf")
  /\ events /\ events' = FALSE
  /\ UNCHANGED <<claims, pools, template, sandboxes, containers, pvcs, dirty, fresh, hook,
                 sweep, lastUID>>

\* the container's process ends; Docker reports it
ContainerExit(c) ==
  /\ ApiOp("exit")
  /\ c.state \in {"running", "serving"} /\ c.uid # 0
  /\ containers' = Replace(c, "exited")
  /\ dirty' = dirty \cup Notify({c.name})
  /\ UNCHANGED <<claims, pools, template, sandboxes, fresh, hook, lastUID>>

\* what Docker does by itself
DockerFrame == <<claims, pools, template, sandboxes, fresh, sbw, clw, plw, storage, hook,
                 lastUID, faults, outside>>

\* the runtime in the container begins to answer
ContainerServe(c) ==
  /\ c.state = "running" /\ c.uid # 0
  /\ containers' = Replace(c, "serving")
  /\ UNCHANGED <<DockerFrame, dirty>>

\* chown is done
ChownEnds(c) ==
  /\ c.state = "running" /\ c.uid = 0
  /\ containers' = Replace(c, "exited")
  /\ dirty' = dirty \cup Notify({c.name})
  /\ UNCHANGED DockerFrame

----------------------------------------------------------------------------
(* Crash and restart.                                                      *)

Idle == /\ sbw' = [n \in SbNames |-> IdleSandbox]
        /\ clw' = [c \in ClaimNames |-> IdleClaim]
        /\ plw' = [p \in PoolNames |-> IdlePool]
        /\ pvw' = [v \in PVCNames |-> IdlePVC]
        /\ hook' = [t \in Threads |-> NoHook]
        /\ fresh' = {}

\* The process dies and a new one starts: the watches begin with every stored
\* object, and bootAdoption lists the managed containers.
Crash ==
  /\ crashes < MaxCrashes /\ ops + faults + crashes < MaxAll
  /\ crashes' = crashes + 1
  /\ Idle
  /\ dirty' = (UNION {SandboxKeys(n, sandboxes[n]) : n \in {m \in SbNames : sandboxes[m] # NoObject}})
              \cup {<<"claim", c>> : c \in {d \in ClaimNames : claims[d] # NoObject}}
              \cup {<<"pool", p>> : p \in {q \in PoolNames : pools[q] # NoObject}}
              \cup {<<"pvc", v>> : v \in {u \in PVCNames : pvcs[u] # NoObject}}
  /\ SweepTo(Listed("boot"))
  /\ events' = TRUE
  /\ UNCHANGED <<claims, pools, template, sandboxes, containers, pvcs, volumes, lastUID,
                 ops, faults>>

----------------------------------------------------------------------------
\* bootstrapObjects, or a user, has created the pools and their template; users
\* may have created PVCs that pods refer to
Init ==
  /\ claims = [c \in ClaimNames |-> NoObject]
  /\ \E f \in [PoolNames -> 1..Cardinality(PoolNames)] :
       /\ \A p, q \in PoolNames : f[p] = f[q] => p = q
       /\ pools = [p \in PoolNames |-> [uid |-> f[p], replicas |-> InitReplicas]]
  /\ template = TRUE
  /\ sandboxes = [n \in SbNames |-> NoObject]
  /\ containers = {}
  /\ \E made \in SUBSET UNION {PodPVCs[n] : n \in SbNames} :
       pvcs = [v \in PVCNames |-> IF v \notin made THEN NoObject
                 ELSE [uid |-> Cardinality(PoolNames) + 1, owner |-> 0, phase |-> "Bound"]]
  /\ volumes = [v \in PVCNames |-> IF pvcs[v] = NoObject THEN "none" ELSE "labelled"]
  /\ events = TRUE
  /\ dirty = {<<"pool", p>> : p \in PoolNames}
  /\ fresh = {}
  /\ sbw = [n \in SbNames |-> IdleSandbox]
  /\ clw = [c \in ClaimNames |-> IdleClaim]
  /\ plw = [p \in PoolNames |-> IdlePool]
  /\ pvw = [v \in PVCNames |-> IdlePVC]
  /\ hook = [t \in Threads |-> NoHook]
  /\ sweep = NoSweep
  /\ lastUID = Cardinality(PoolNames) + 1
  /\ ops = 0 /\ faults = 0 /\ crashes = 0

User ==
  \/ \E c \in ClaimNames, p \in PoolNames, cold \in BOOLEAN, policy \in UserPolicies :
       CreateClaim(c, p, cold, policy)
  \/ \E x \in ApiThreads :
       LET t == <<"api", x>>
       IN  \/ \E c \in ClaimNames : ApiDeleteClaim(t, c)
           \/ \E n \in SbNames : ApiDeleteSandbox(t, n)
           \/ \E p \in PoolNames : ApiDeletePool(t, p)
           \/ \E v \in PVCNames : ApiDeletePVC(t, v)
  \/ \E p \in PoolNames : CreatePool(p) \/ \E r \in 0..InitReplicas : ScalePool(p, r)
  \/ ToggleTemplate
  \/ \E n \in BareNames, policy \in UserPolicies : CreateSandbox(n, policy)
  \/ \E n \in SbNames : SetMode(n)
  \/ \E v \in PVCNames : CreatePVC(v)
  \/ \E mode \in {"gc", "purge"} : StartSweep(mode)
  \/ EventsEnd
  \/ Expire
  \/ \E c \in containers : ContainerExit(c)

Serve == \E c \in containers : ContainerServe(c) \/ ChownEnds(c)

Next ==
  \/ \E n \in SbNames : SandboxStep(n)
  \/ \E c \in ClaimNames : ClaimStep(c)
  \/ \E p \in PoolNames : PoolStep(p)
  \/ \E t \in Threads : HookStep(t)
  \/ \E v \in PVCNames : PVCStep(v)
  \/ Serve \/ SweepStep
  \/ User \/ Crash

Spec == Init /\ [][Next]_vars

\* Every goroutine runs and every container that was started begins to serve;
\* users, crashes and failures need not happen.
Fairness ==
  /\ \A n \in SbNames : WF_vars(SandboxStep(n))
  /\ \A c \in ClaimNames : WF_vars(ClaimStep(c))
  /\ \A p \in PoolNames : WF_vars(PoolStep(p))
  /\ \A t \in Threads : WF_vars(HookStep(t))
  /\ \A v \in PVCNames : WF_vars(PVCStep(v))
  /\ WF_vars(Serve) /\ WF_vars(SweepStep)
FairSpec == Spec /\ Fairness

----------------------------------------------------------------------------
(* Properties.                                                             *)

TypeOK ==
  /\ claims \in [ClaimNames -> Claim \cup {NoObject}]
  /\ pools \in [PoolNames -> Pool \cup {NoObject}]
  /\ template \in BOOLEAN
  /\ sandboxes \in [SbNames -> Sandbox \cup {NoObject}]
  /\ containers \subseteq Container
  /\ pvcs \in [PVCNames -> PVC \cup {NoObject}]
  /\ volumes \in [PVCNames -> Volume]
  /\ events \in BOOLEAN
  /\ dirty \subseteq Keys
  /\ fresh \subseteq ClaimNames
  /\ sbw \in [SbNames -> SbThread]
  /\ clw \in [ClaimNames -> ClThread]
  /\ plw \in [PoolNames -> PlThread]
  /\ pvw \in [PVCNames -> PvThread]
  /\ hook \in [Threads -> [pc : HookPcs, uid : Nat, name : SbNames \cup PoolNames \cup {NoName},
                           todo : SUBSET SbNames, id : Nat, vols : SUBSET PVCNames,
                           pv : PVCNames \cup {NoName}]]
  /\ sweep \in Sweep
  /\ lastUID \in Nat
  /\ ops \in 0..MaxOps /\ faults \in 0..MaxFaults /\ crashes \in 0..MaxCrashes

Stored == {n \in SbNames : sandboxes[n] # NoObject}
OwnedBy(kind, uid) ==
  {n \in Stored : sandboxes[n].owner # NoOwner /\ sandboxes[n].owner.kind = kind
                  /\ sandboxes[n].owner.uid = uid}

\* A name has one container, whatever happens between the inspection that
\* found none and the creation, to the sandbox's incarnation or to the process
\* (reconcileRunning under the work queue's one reconcile per key).
AtMostOneContainer ==
  \A a, b \in containers : a.name = b.name => a = b

\* A sandbox belongs to one owner and is handed from a pool to a claim at most
\* once, however many claims pick it (adoptWarmSandbox's Update with the RV of
\* its read) and whatever the hooks and the orphan collection do meanwhile.
Ownership == INSTANCE SandboxOwnership WITH
  live <- {[uid |-> sandboxes[n].uid, kind |-> sandboxes[n].owner.kind,
            owner |-> controllerOwnerUID(sandboxes[n])] : n \in Stored},
  top <- lastUID
AdoptedOnce == Ownership!Spec

\* A claim owns one sandbox (getOrCreateSandbox, adoptWarmSandbox's retries):
\* the one it goes on to record is the only one made or adopted for it.
\* (Not across a crash between the adoption and the write of
\* status.sandbox.name: the next reconcile does not know what it adopted.)
OneSandboxPerClaim ==
  \A c \in ClaimNames :
    claims[c] # NoObject => Cardinality(OwnedBy("claim", claims[c].uid)) <= 1

\* A pool never has more members than the most replicas it was asked for, with
\* its worker listing while members are adopted, deleted and collected and the
\* pool is scaled down and up (reconcileWarmPool's create loop).
PoolNeverOvershoots ==
  \A p \in PoolNames : Cardinality(Members(p)) <= InitReplicas

\* A status write that changes status.sandbox.name names a sandbox that belongs
\* to the incarnation of the claim that the reconcile has read, or one deleted
\* since, whatever is deleted and created between its look at the sandbox and the
\* write (getOrCreateSandbox's owner checks).  The write has no precondition: it
\* can reach a claim that was re-created meanwhile.  This covers what it makes or
\* takes for the predecessor, not the old binding it only carries over; that
\* neither lasts is ClaimServed.
BindingIsOwn ==
  [][\A c \in ClaimNames :
       LET o == claims[c]  q == claims'[c]  read == clw[c].o
       IN  o # NoObject /\ q # NoObject /\ q.sb # o.sb /\ (q.uid = read.uid \/ q.sb # read.sb) =>
             \A n \in Stored : n = q.sb /\ sandboxes[n].owner # NoOwner
                                => sandboxes[n].owner.uid = read.uid]_vars

OwnerGone(n) ==
  /\ n \in Stored
  /\ sandboxes[n].owner.kind \in {"claim", "pool"}
  /\ controllerOwnerUID(sandboxes[n]) \notin
       {claims[c].uid : c \in ClaimNames} \cup {pools[p].uid : p \in PoolNames}

\* A sandbox whose owner is gone, or whose owner's name belongs to another
\* incarnation, is deleted in the end (reconcileSandbox's orphan check): no
\* event tells the sandbox controller that an owner went away.
OrphansCollected ==
  \A n \in SbNames : OwnerGone(n) ~> ~OwnerGone(n)

\* the claim's lifecycle has ended
Expired(o) == o.due \/ (o.ttl = "passed" /\ o.finished)

\* a sandbox has a container that never ran its process
Unstarted(n) == \E c \in OfSandbox(n) : c.state = "created" \/ c.uid = 0

\* A claim that stays and does not expire is reported ready, or finished, and
\* bound to a sandbox of its own, also when a sandbox of an earlier claim with its
\* name is in the way, the reconcile of that claim has written its status, or the
\* process has died at any step (getOrCreateSandbox, the orphan check).  (Not when
\* it died between the creation and the start of the container: no other reconcile
\* starts it.)
ClaimServed ==
  \A c \in ClaimNames :
    LET o == claims[c]
    IN  o # NoObject ~>
          \/ o = NoObject \/ Expired(o)
          \/ (o.ready \/ o.finished) /\ o.sb \in OwnedBy("claim", o.uid)
          \/ [](crashes > 0 /\ \E n \in OwnedBy("claim", o.uid) : Unstarted(n))

\* what an expired claim has let go of: it is gone itself or owns nothing
Released(c) ==
  claims[c] = NoObject \/ ~Expired(claims[c]) \/ OwnedBy("claim", claims[c].uid) = {}
\* the claim is kept, and owns a sandbox that its status does not name
Unrecorded(c) ==
  /\ claims[c] # NoObject /\ claims[c].shutdown \notin {"Delete", "DeleteForeground"}
  /\ OwnedBy("claim", claims[c].uid) \ {claims[c].sb} # {}

\* An expired claim lets go of its sandbox whatever its policy, also when it
\* expires in the middle of the reconcile that creates it, or the process dies
\* between any two steps (handleClaimExpiry).  What a deleted claim owned is
\* OrphansCollected's.  (Not a claim that is retained and whose process died
\* between the creation, or the adoption, and the write of status.sandbox.name:
\* handleClaimExpiry deletes what the status names.)
ExpiryReleases ==
  \A c \in ClaimNames :
    claims[c] # NoObject /\ Expired(claims[c]) ~>
      Released(c) \/ [](crashes > 0 /\ Unrecorded(c))

\* A restart collects the containers that the deletes of the process before it
\* left behind (bootAdoption), while the controllers are already running, once Docker has
\* stopped failing.
RestartCollects ==
  \A n \in SbNames :
    (sandboxes[n] = NoObject /\ faults = MaxFaults
       /\ sweep.mode = "boot" /\ \E c \in OfSandbox(n) : c.id \in sweep.todo) ~>
    (sandboxes[n] # NoObject \/ OfSandbox(n) = {})

\* the PVCs that its pod refers to exist
PodBacked(n) == \A v \in PodPVCs[n] : pvcs[v] # NoObject
\* a sandbox that is to run
Wanted(n) == n \in Stored /\ sandboxes[n].mode = "Running" /\ ~sandboxes[n].due
\* it runs, or has ended and is reported so
Settled(n) ==
  \E c \in OfSandbox(n) :
    /\ c.uid # 0
    /\ c.state \in {"running", "serving"} \/ (c.state = "exited" /\ sandboxes[n].st.finished)

\* A sandbox that is to run gets a container again when gc (with a lookup that
\* fails) or purge removes it behind the controllers' back, and is reported
\* finished when its process ends, even after the stream of Docker events has
\* ended: what queues the sandbox is its own status write; and after a crash or
\* a failing call at any step.  (Not when one of these leaves a container in state
\* created, which no other reconcile starts, or the one-shot container of
\* prepareVolumePermissions, which passes for the sandbox's.)
SelfHeals ==
  \A n \in SbNames :
    Wanted(n) /\ PodBacked(n) ~>
      ~Wanted(n) \/ ~PodBacked(n) \/ Settled(n) \/ [](crashes + faults > 0 /\ Unstarted(n))

\* A sandbox that is suspended or has expired loses its container, although
\* reconcileSuspended and handleSandboxExpiry drop the errors of StopContainer
\* and RemoveContainer and report it gone, and the process may die in between:
\* the status write queues the sandbox, and the removal is tried again.
UnwantedRemoved ==
  \A n \in SbNames :
    n \in Stored /\ ~Wanted(n) ~> n \notin Stored \/ Wanted(n) \/ OfSandbox(n) = {}

\* A container never exists without the PVC objects its pod refers to, as long
\* as users do not delete those: the sandbox waits, not ready, until they are
\* there (reconcileRunning's loop over the volumes), and no hook of a sandbox
\* that mounts the same volume takes them away.
MountsBacked == \A c \in containers : PodBacked(c.name)

\* What a user created only a user deletes: a clean-up of any incarnation of a
\* sandbox whose template yields the same PVC name leaves it alone
\* (cleanupSandboxResources' look at the owner's UID), as long as users do not
\* delete the sandbox's PVCs under its hands.
UserPVCKept ==
  [][\A v \in PVCNames :
       pvcs[v] # NoObject /\ pvcs[v].owner = 0 /\ pvcs'[v] # pvcs[v] =>
         pvcs'[v].uid = pvcs[v].uid \/ ops' = ops + 1]_vars

\* A PVC that stays is bound, although the volume can be removed by the hook of
\* an earlier PVC with its name, calls fail, and the status goes to whatever
\* PVC has the name (reconcilePVC, writePVCStatus).
PVCsBound ==
  \A v \in {u \in PVCNames : <<"pvc", u>> \in Scheduled} :
    pvcs[v] # NoObject ~> pvcs[v] = NoObject \/ pvcs[v].phase = "Bound"

\* Suspended turns True only when the container is gone, whatever the user
\* switches meanwhile, as long as Docker has not failed: reconcileSuspended
\* drops the errors of StopContainer and RemoveContainer.
SuspendedMeansGone ==
  [][\A n \in Stored :
       /\ ~sandboxes[n].st.suspended
       /\ sandboxes'[n] # NoObject /\ sandboxes'[n].st.suspended
       => OfSandbox(n) = {} \/ faults > 0]_vars

----------------------------------------------------------------------------
(* What comments and plans say and the code does not do.                   *)

\* reconcileWarmPool's comment: an adopted sandbox drops out of the pool's set.
\* What a pool deletes is one of its members.
AdoptedDropsOut ==
  [][\A t \in Threads :
       hook[t].pc = "pdelete" /\ hook'[t].pc = "inspect" =>
         sandboxes[hook'[t].name].owner.kind = "pool"]_vars

\* The deletion cascade reaches the container: none stays without a sandbox.
ContainersCollected ==
  \A n \in SbNames :
    (sandboxes[n] = NoObject /\ OfSandbox(n) # {}) ~>
    (sandboxes[n] # NoObject \/ OfSandbox(n) = {})
=============================================================================

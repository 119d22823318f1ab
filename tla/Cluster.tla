------------------------------ MODULE Cluster ------------------------------
(***************************************************************************)
(* The state the controllers of lasd share: the objects of the store that  *)
(* they read and write (SandboxClaim, SandboxWarmPool, SandboxTemplate,    *)
(* Sandbox), the Docker containers, the work queues, and the delete hooks. *)
(*                                                                         *)
(* One store call or one driver call is one atomic step; what happens      *)
(* between two calls of a reconcile can interleave with every other        *)
(* thread.  The work queue runs at most one reconcile per key, so a        *)
(* controller's threads are indexed by the names it reconciles.  A watch   *)
(* event adds a key to the queue of the object's own controller, and of    *)
(* its owner's (ownerMap); `dirty' is the set of queued keys.  Namespaces  *)
(* are part of a name.                                                     *)
(***************************************************************************)
EXTENDS Integers, FiniteSets

CONSTANTS
  ClaimNames,   \* names of SandboxClaims, hence of cold-created Sandboxes
  PoolNames,    \* names of SandboxWarmPools
  WarmNames,    \* names generateName can produce
  BareNames,    \* names of Sandboxes users create themselves
  ApiThreads,   \* concurrent API requests that delete something
  PVCNames,     \* names of PersistentVolumeClaims, hence of Docker volumes
  TemplatePVCs, \* [SbNames -> SUBSET PVCNames]: from its volumeClaimTemplates
  PodPVCs,      \* [SbNames -> SUBSET PVCNames]: others its pod refers to
  NonRoot,      \* sandboxes whose container does not run as root
  MaxAttempts,  \* attempts of adoptWarmSandbox (5)
  Scheduled,    \* bound: keys whose reconciles are scheduled in this instance
  MaxOps,       \* bound: number of user operations
  MaxFaults,    \* bound: number of driver failures
  MaxAll,       \* bound: user operations, driver failures and crashes together
  MaxCrashes    \* bound: number of times the process is killed

\* no name: the empty string
NoName == "none"
SbNames == ClaimNames \cup WarmNames \cup BareNames
Threads == ({"sandbox"} \X SbNames) \cup ({"claim"} \X ClaimNames)
           \cup ({"pool"} \X PoolNames) \cup ({"pvc"} \X PVCNames)
           \cup ({"api"} \X ApiThreads)
Keys == ({"sandbox"} \X SbNames) \cup ({"claim"} \X ClaimNames)
        \cup ({"pool"} \X PoolNames) \cup ({"pvc"} \X PVCNames)

ASSUME ClusterAssumption ==
  /\ ClaimNames \cap (WarmNames \cup BareNames) = {}
  /\ WarmNames \cap BareNames = {}
  /\ NoName \notin ClaimNames \cup WarmNames \cup BareNames
  /\ TemplatePVCs \in [SbNames -> SUBSET PVCNames]
  /\ PodPVCs \in [SbNames -> SUBSET PVCNames]
  /\ NonRoot \subseteq SbNames
  /\ MaxAttempts \in Nat \ {0}
  /\ Scheduled \subseteq Keys
  /\ MaxOps \in Nat /\ MaxFaults \in Nat /\ MaxAll \in Nat /\ MaxCrashes \in Nat

VARIABLES
  claims,      \* [ClaimNames -> claim or NoObject]
  pools,       \* [PoolNames -> pool or NoObject]
  template,    \* BOOLEAN: the pools' SandboxTemplate exists
  sandboxes,   \* [SbNames -> sandbox or NoObject]
  containers,  \* set of Docker containers labelled las.managed
  pvcs,        \* [PVCNames -> PVC or NoObject]
  volumes,     \* [PVCNames -> the Docker volume of that name]
  events,      \* BOOLEAN: the stream of Docker events is open
  dirty,       \* queued keys <<kind, name>>
  fresh,       \* claims whose picked copy still has the stored RV
  sbw,         \* [SbNames -> thread of the sandbox controller]
  clw,         \* [ClaimNames -> thread of the claim controller]
  plw,         \* [PoolNames -> thread of the warm pool controller]
  pvw,         \* [PVCNames -> thread of the PVC controller]
  hook,        \* [Threads -> the delete hook the thread is running]
  sweep,       \* bootAdoption, gc or purge: what is left to look at and to remove
  lastUID,     \* last UID and container id handed out
  ops, faults, crashes

vars == <<claims, pools, template, sandboxes, containers, pvcs, volumes, events, dirty,
          fresh, sbw, clw, plw, pvw, hook, sweep, lastUID, ops, faults, crashes>>
counters == <<ops, faults, crashes>>
storage == <<pvcs, volumes, pvw>>
\* what only users, sweeps and Docker write
outside == <<events, sweep, ops, crashes>>

NoObject == [uid |-> 0]

\* Ready, Finished and Suspended conditions of a Sandbox
Conditions == [ready : BOOLEAN, finished : BOOLEAN, suspended : BOOLEAN]
NoConditions == [ready |-> FALSE, finished |-> FALSE, suspended |-> FALSE]

\* The controller ownerReference: kind, name and UID.
Owners == [kind : {"claim"}, name : ClaimNames, uid : Nat]
          \cup [kind : {"pool"}, name : PoolNames, uid : Nat]
NoOwner == [kind |-> "none"]

\* shutdown: "none" without a shutdownTime, otherwise the shutdownPolicy; due:
\* the shutdownTime has passed.
Policies == {"none", "Retain", "Delete", "DeleteForeground"}
Sandbox == [uid : Nat \ {0}, owner : Owners \cup {NoOwner}, mode : {"Running", "Suspended"},
            shutdown : Policies, due : BOOLEAN, st : Conditions]
\* sb: status.sandbox.name; cold: env or volumeClaimTemplates force a cold start;
\* ttl: ttlSecondsAfterFinished is set, and that long has passed since Finished
Claim == [uid : Nat \ {0}, pool : PoolNames, cold : BOOLEAN, shutdown : Policies,
          due : BOOLEAN, ttl : {"none", "set", "passed"},
          sb : SbNames \cup {NoName}, ready : BOOLEAN, finished : BOOLEAN]
Pool == [uid : Nat \ {0}, replicas : Nat]
\* serving: the runtime answers the probe; uid 0: the one-shot container of
\* prepareVolumePermissions, which has the labels but not the UID
Container == [id : Nat \ {0}, name : SbNames, uid : Nat,
              state : {"created", "running", "serving", "exited"}]
\* owner: UID of the controlling Sandbox, 0 for a PVC that a user created
PVC == [uid : Nat \ {0}, owner : Nat, phase : {"none", "Pending", "Bound"}]
\* labelled: made by EnsureVolume; bare: made by Docker for a container that
\* names a volume that does not exist
Volume == {"none", "labelled", "bare"}

\* the PVCs that the container of sandbox n mounts
Mounts(n) == TemplatePVCs[n] \cup PodPVCs[n]

----------------------------------------------------------------------------
(* Watch events and work queues.                                           *)

\* keyOf and ownerMap: the keys an event about sandbox n adds
SandboxKeys(n, o) ==
  {<<"sandbox", n>>}
  \cup (IF o.owner = NoOwner THEN {} ELSE {<<o.owner.kind, o.owner.name>>})

\* A stored sandbox changed: queue the keys, and every other copy of it that a
\* claim picked has a stale resourceVersion.
Touch(n, o) ==
  /\ fresh' = {c \in fresh : clw[c].pick # n}
  /\ dirty' = dirty \cup SandboxKeys(n, o)

PutSandbox(n, o) ==
  /\ sandboxes' = [sandboxes EXCEPT ![n] = o]
  /\ Touch(n, o)

ownedBy(o, kind, name) == o # NoObject /\ o.owner # NoOwner
                          /\ o.owner.kind = kind /\ o.owner.name = name
controllerOwnerUID(o) == IF o.owner = NoOwner THEN 0 ELSE o.owner.uid
Members(p) == {n \in SbNames : ownedBy(sandboxes[n], "pool", p)}

OfSandbox(n) == {c \in containers : c.name = n}

\* a slip: containers that have exited are not listed
InspectRunning(n) == {c \in OfSandbox(n) : c.state # "exited"}

\* DockerDriver.InspectSandbox lists by the labels, stopped containers too, and
\* takes the first, which for Docker is the newest
InspectSandbox(n) == {c \in OfSandbox(n) : \A d \in OfSandbox(n) : d.id <= c.id}

Replace(c, state) == (containers \ {c}) \cup {[c EXCEPT !.state = state]}

\* One of the bounded number of driver calls that fail.
Fail ==
  /\ faults < MaxFaults /\ ops + faults + crashes < MaxAll
  /\ faults' = faults + 1

\* the keys that Docker's events about sandboxes ns add, while the stream is open
Notify(ns) == IF events THEN {<<"sandbox", n>> : n \in ns} ELSE {}

\* EnsureVolume: an existing volume is left as it is
EnsureVolume(v) ==
  volumes' = [volumes EXCEPT ![v] = IF @ = "none" THEN "labelled" ELSE @]

\* Docker refuses to remove a volume that a container mounts; like every other
\* error of RemoveVolume that is only logged
RemoveVolume(v) ==
  LET inUse == \E c \in containers : v \in Mounts(c.name)
  IN  \/ volumes' = [volumes EXCEPT ![v] = IF inUse THEN @ ELSE "none"] /\ UNCHANGED faults
      \/ Fail /\ UNCHANGED volumes

\* A worker takes a key: it is queued, and no reconcile of it is running.
Take(t, pc) ==
  /\ pc = "idle" /\ hook[t].pc = "none" /\ t \in dirty \cap Scheduled
  /\ dirty' = dirty \ {t}

----------------------------------------------------------------------------
(* The delete hooks (reconcile.go, OnDelete).  Store.Delete calls them in  *)
(* the deleting goroutine after it has released the lock, so a worker      *)
(* keeps its key until they are done.                                      *)

NoHook == [pc |-> "none", uid |-> 0, name |-> NoName, todo |-> {}, id |-> 0,
           vols |-> {}, pv |-> NoName]
HookPcs == {"none", "cascade", "cdelete", "plist", "pdelete", "inspect", "remove",
            "pvcs", "pvcdelete", "volume"}

\* Store.Delete of sandbox n by thread t, and the start of its hook.  `todo'
\* are further sandboxes the thread will delete afterwards.
DeleteSandbox(t, n, todo) ==
  IF sandboxes[n] = NoObject
  THEN /\ hook' = [hook EXCEPT ![t] = [NoHook EXCEPT
                     !.pc = IF todo = {} THEN "none" ELSE "pdelete", !.todo = todo]]
       /\ UNCHANGED <<sandboxes, dirty, fresh>>
  ELSE /\ sandboxes' = [sandboxes EXCEPT ![n] = NoObject]
       /\ Touch(n, sandboxes[n])
       /\ hook' = [hook EXCEPT ![t] =
                     [NoHook EXCEPT !.pc = "inspect", !.name = n, !.todo = todo,
                                    !.uid = sandboxes[n].uid]]

\* Store.Delete of claim c by thread t: the hook has the deleted object
DeleteClaim(t, c) ==
  IF claims[c] = NoObject THEN UNCHANGED <<claims, dirty, hook>>
  ELSE /\ claims' = [claims EXCEPT ![c] = NoObject]
       /\ dirty' = dirty \cup {<<"claim", c>>}
       /\ hook' = [hook EXCEPT ![t] = [NoHook EXCEPT !.pc = "cascade",
                     !.uid = claims[c].uid,
                     !.name = IF claims[c].sb = NoName THEN c ELSE claims[c].sb]]

HookDone(t) ==
  hook' = [hook EXCEPT ![t] = [NoHook EXCEPT
             !.pc = IF hook[t].todo = {} THEN "none" ELSE "pdelete",
             !.todo = hook[t].todo]]

\* Store.Delete of PVC v by thread t, and the start of its hook, cleanupPVCVolume
DeletePVC(t, v, otherwise) ==
  IF pvcs[v] = NoObject THEN otherwise /\ UNCHANGED <<pvcs, dirty>>
  ELSE /\ pvcs' = [pvcs EXCEPT ![v] = NoObject]
       /\ dirty' = dirty \cup {<<"pvc", v>>}
       /\ hook' = [hook EXCEPT ![t].pc = "volume", ![t].pv = v]

\* cascadeClaimDelete: Get the sandbox the claim named, compare the owner's UID
CascadeCheck(t) ==
  LET o == sandboxes[hook[t].name]
  IN  /\ hook[t].pc = "cascade"
      /\ IF o # NoObject /\ controllerOwnerUID(o) = hook[t].uid
         THEN hook' = [hook EXCEPT ![t].pc = "cdelete"]
         ELSE HookDone(t)
      /\ UNCHANGED <<claims, pools, template, sandboxes, containers, dirty, fresh,
                     sbw, clw, plw, storage, lastUID, faults, outside>>

\* ... and delete it by name
CascadeDelete(t) ==
  /\ hook[t].pc = "cdelete"
  /\ DeleteSandbox(t, hook[t].name, {})
  /\ UNCHANGED <<claims, pools, template, containers, sbw, clw, plw, storage,
                 lastUID, faults, outside>>

\* cascadeWarmPoolDelete: list the members, by the pool's name
CascadeList(t) ==
  /\ hook[t].pc = "plist"
  /\ LET mine == Members(hook[t].name)
     IN  hook' = [hook EXCEPT ![t] = [NoHook EXCEPT
                    !.pc = IF mine = {} THEN "none" ELSE "pdelete", !.todo = mine]]
  /\ UNCHANGED <<claims, pools, template, sandboxes, containers, dirty, fresh,
                 sbw, clw, plw, storage, lastUID, faults, outside>>

\* ... and delete them one by one; the scale-down loop of reconcileWarmPool
CascadeEach(t) ==
  /\ hook[t].pc = "pdelete"
  /\ \E n \in hook[t].todo : DeleteSandbox(t, n, hook[t].todo \ {n})
  /\ UNCHANGED <<claims, pools, template, containers, sbw, clw, plw, storage,
                 lastUID, faults, outside>>

\* cleanupSandboxResources goes on with the PVCs of the templates, `left' of them
CleanupPVCs(t, left) ==
  IF left = {} THEN HookDone(t)
  ELSE hook' = [hook EXCEPT ![t].pc = "pvcs", ![t].id = 0, ![t].vols = left, ![t].pv = NoName]

\* cleanupSandboxResources: InspectSandbox finds a container by its labels,
\* that is by the sandbox's name
CleanupInspect(t) ==
  /\ hook[t].pc = "inspect"
  /\ \/ /\ InspectSandbox(hook[t].name) = {}
        /\ CleanupPVCs(t, TemplatePVCs[hook[t].name])
        /\ UNCHANGED faults
     \/ /\ \E c \in InspectSandbox(hook[t].name) :
             hook' = [hook EXCEPT ![t].pc = "remove", ![t].id = c.id]
        /\ UNCHANGED faults
     \/ Fail /\ CleanupPVCs(t, TemplatePVCs[hook[t].name])
  /\ UNCHANGED <<claims, pools, template, sandboxes, containers, dirty, fresh,
                 sbw, clw, plw, storage, lastUID, outside>>

\* docker removes the container and reports it: the event queues the sandbox
Removed(id) ==
  /\ containers' = {c \in containers : c.id # id}
  /\ dirty' = dirty \cup Notify({c.name : c \in {d \in containers : d.id = id}})

\* RemoveContainer, whose error is dropped
RemoveQuietly(id) ==
  \/ Removed(id) /\ UNCHANGED faults
  \/ Fail /\ UNCHANGED <<containers, dirty>>

\* ... and removes it
CleanupRemove(t) ==
  /\ hook[t].pc = "remove"
  /\ RemoveQuietly(hook[t].id)
  /\ CleanupPVCs(t, TemplatePVCs[hook[t].name])
  /\ UNCHANGED <<claims, pools, template, sandboxes, fresh, sbw, clw, plw, storage,
                 lastUID, outside>>

\* a slip: whoever owns the PVC with the template's name
CleanupAnyPVC(t) ==
  /\ hook[t].pc = "pvcs"
  /\ \E v \in hook[t].vols :
       hook' = [hook EXCEPT ![t].vols = @ \ {v}, ![t].pv = v,
                  ![t].pc = IF pvcs[v] = NoObject THEN "volume" ELSE "pvcdelete"]
  /\ UNCHANGED <<claims, pools, template, sandboxes, containers, dirty, fresh,
                 sbw, clw, plw, storage, lastUID, faults, outside>>

\* ... then Get each PVC: delete it if it is the sandbox's, leave a user's alone,
\* and without one remove the volume directly
CleanupPVC(t) ==
  /\ hook[t].pc = "pvcs"
  /\ \E v \in hook[t].vols :
       IF pvcs[v] # NoObject /\ pvcs[v].owner # hook[t].uid
       THEN CleanupPVCs(t, hook[t].vols \ {v})
       ELSE hook' = [hook EXCEPT ![t].vols = @ \ {v}, ![t].pv = v,
                       ![t].pc = IF pvcs[v] = NoObject THEN "volume" ELSE "pvcdelete"]
  /\ UNCHANGED <<claims, pools, template, sandboxes, containers, dirty, fresh,
                 sbw, clw, plw, storage, lastUID, faults, outside>>

\* ... by name
CleanupDelete(t) ==
  /\ hook[t].pc = "pvcdelete"
  /\ DeletePVC(t, hook[t].pv, CleanupPVCs(t, hook[t].vols))
  /\ UNCHANGED <<claims, pools, template, sandboxes, containers, fresh, sbw, clw, plw,
                 volumes, pvw, lastUID, faults, outside>>

\* cleanupPVCVolume
CleanupVolume(t) ==
  /\ hook[t].pc = "volume"
  /\ RemoveVolume(hook[t].pv)
  /\ CleanupPVCs(t, hook[t].vols)
  /\ UNCHANGED <<claims, pools, template, sandboxes, containers, dirty, fresh,
                 sbw, clw, plw, pvcs, pvw, lastUID, outside>>

HookStep(t) ==
  \/ CascadeCheck(t) \/ CascadeDelete(t) \/ CascadeList(t) \/ CascadeEach(t)
  \/ CleanupInspect(t) \/ CleanupRemove(t)
  \/ CleanupPVC(t) \/ CleanupDelete(t) \/ CleanupVolume(t)
=============================================================================

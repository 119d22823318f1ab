------------------------- MODULE ControlPlaneTypes --------------------------
(***************************************************************************)
(* Type correctness of ControlPlane, for every set of claims, pools,       *)
(* sandboxes, PVCs and threads and every bound on operations, failures and *)
(* crashes.                                                                *)
(***************************************************************************)
EXTENDS ControlPlane, FiniteSetTheorems, TLAPS

----------------------------------------------------------------------------
(* The inductive invariant: the types, and what a thread's program counter *)
(* says about the copies and names it holds.                               *)

StoreT ==
  /\ claims \in [ClaimNames -> Claim \cup {NoObject}]
  /\ pools \in [PoolNames -> Pool \cup {NoObject}]
  /\ template \in BOOLEAN
  /\ sandboxes \in [SbNames -> Sandbox \cup {NoObject}]
  /\ pvcs \in [PVCNames -> PVC \cup {NoObject}]
  /\ lastUID \in Nat
  /\ IsFiniteSet(Stored)
DockerT ==
  /\ containers \subseteq Container
  /\ volumes \in [PVCNames -> Volume]
  /\ events \in BOOLEAN
  /\ sweep \in Sweep
QueueT == dirty \subseteq Keys /\ fresh \subseteq ClaimNames
\* a reconcile that is running has read a sandbox
SbwT ==
  /\ sbw \in [SbNames -> SbThread]
  /\ \A n \in SbNames : sbw[n].pc # "idle" => sbw[n].o \in Sandbox
\* ... a claim; a name that was picked is a name, and attempts are left
ClWell(th) ==
  /\ th.pc # "idle" => th.o \in Claim
  /\ th.pc \in {"pick", "adopt"} => th.pick \in SbNames /\ th.tries < MaxAttempts
  /\ th.pc = "rdelete" => th.o.sb \in SbNames
ClwT == clw \in [ClaimNames -> ClThread] /\ \A c \in ClaimNames : ClWell(clw[c])
\* ... a pool; something is left to create
PlwT ==
  /\ plw \in [PoolNames -> PlThread]
  /\ \A p \in PoolNames :
       /\ plw[p].pc # "idle" => plw[p].o \in Pool
       /\ plw[p].pc = "create" => plw[p].left # 0
PvwT == pvw \in [PVCNames -> PvThread]
Hook == [pc : HookPcs, uid : Nat, name : SbNames \cup PoolNames \cup {NoName},
         todo : SUBSET SbNames, id : Nat, vols : SUBSET PVCNames, pv : PVCNames \cup {NoName}]
HookWell(h) ==
  /\ h.pc \in {"cascade", "cdelete", "inspect", "remove"} => h.name \in SbNames
  /\ h.pc = "pvcdelete" => h.pv \in PVCNames
\* a hook holds the name that it works on
HookT == hook \in [Threads -> Hook] /\ \A t \in Threads : HookWell(hook[t])
CountT == ops \in 0..MaxOps /\ faults \in 0..MaxFaults /\ crashes \in 0..MaxCrashes

TypeInv == StoreT /\ DockerT /\ QueueT /\ SbwT /\ ClwT /\ PlwT /\ PvwT /\ HookT /\ CountT

----------------------------------------------------------------------------
(* Helpers.                                                                *)

\* Every name has its threads and keys, and a claim's name is a sandbox's.
LEMMA ThreadOf ==
  /\ \A n \in SbNames : <<"sandbox", n>> \in Threads /\ <<"sandbox", n>> \in Keys
  /\ \A c \in ClaimNames : <<"claim", c>> \in Threads /\ <<"claim", c>> \in Keys /\ c \in SbNames
  /\ \A p \in PoolNames : <<"pool", p>> \in Threads /\ <<"pool", p>> \in Keys
  /\ \A v \in PVCNames : <<"pvc", v>> \in Threads /\ <<"pvc", v>> \in Keys
  /\ \A x \in ApiThreads : <<"api", x>> \in Threads
  BY DEF Threads, Keys, SbNames

\* A driver call that fails stays within the bound on failures.
LEMMA FailCounts ==
  ASSUME CountT, Fail
  PROVE  faults' \in 0..MaxFaults
  BY ClusterAssumption DEF CountT, Fail

\* An event about a sandbox queues keys of sandboxes, claims and pools.
LEMMA KeysOf ==
  ASSUME NEW n \in SbNames, NEW o \in Sandbox
  PROVE  SandboxKeys(n, o) \subseteq Keys
<1>1. o.owner \in Owners \cup {NoOwner}
  BY DEF Sandbox
<1>2. CASE o.owner = NoOwner
  BY <1>2, ThreadOf DEF SandboxKeys
<1>3. CASE o.owner \in Owners
  <2>1. <<o.owner.kind, o.owner.name>> \in Keys
    BY <1>3, ThreadOf DEF Owners
  <2>2. QED
    BY <2>1, ThreadOf DEF SandboxKeys
<1>4. QED
  BY <1>1, <1>2, <1>3

\* One thread's hook changes to a well-typed one.
LEMMA HookSet ==
  ASSUME HookT, NEW t \in Threads, NEW h \in Hook, HookWell(h),
         hook' = [hook EXCEPT ![t] = h]
  PROVE  HookT'
<1>1. hook' \in [Threads -> Hook]
  BY DEF HookT
<1>2. \A u \in Threads : HookWell(hook'[u])
  BY DEF HookT
<1>3. QED
  BY <1>1, <1>2 DEF HookT, HookWell

\* No hook, or what is left of a list of sandboxes to delete.
LEMMA EachHook ==
  ASSUME NEW todo \in SUBSET SbNames
  PROVE  LET h == [NoHook EXCEPT !.pc = IF todo = {} THEN "none" ELSE "pdelete", !.todo = todo]
         IN  h \in Hook /\ HookWell(h)
  BY DEF NoHook, Hook, HookWell, HookPcs

\* A sandbox that is written keeps the store and the queues well typed.
LEMMA PutType ==
  ASSUME TypeInv, NEW n \in SbNames, NEW o \in Sandbox, PutSandbox(n, o)
  PROVE  /\ sandboxes' \in [SbNames -> Sandbox \cup {NoObject}]
         /\ IsFiniteSet(Stored')
         /\ QueueT'
<1>1. sandboxes' \in [SbNames -> Sandbox \cup {NoObject}]
  BY DEF TypeInv, StoreT, PutSandbox
<1>2. IsFiniteSet(Stored')
  <2>1. Stored' \in SUBSET (Stored \cup {n})
    BY DEF TypeInv, StoreT, PutSandbox, Stored
  <2>2. QED
    BY <2>1, FS_AddElement, FS_Subset DEF TypeInv, StoreT
<1>3. QueueT'
  BY KeysOf DEF TypeInv, QueueT, PutSandbox, Touch
<1>4. QED
  BY <1>1, <1>2, <1>3

\* So does a delete, and the hook it starts is well typed.
LEMMA DeleteSandboxType ==
  ASSUME TypeInv, NEW t \in Threads, NEW n \in SbNames, NEW todo \in SUBSET SbNames,
         DeleteSandbox(t, n, todo)
  PROVE  /\ sandboxes' \in [SbNames -> Sandbox \cup {NoObject}]
         /\ IsFiniteSet(Stored')
         /\ QueueT'
         /\ HookT'
<1>1. CASE sandboxes[n] = NoObject
  <2>1. UNCHANGED <<sandboxes, dirty, fresh>>
    BY <1>1 DEF DeleteSandbox
  <2>2. HookT'
    BY <1>1, EachHook, HookSet DEF DeleteSandbox, TypeInv
  <2>3. QED
    BY <2>1, <2>2 DEF TypeInv, StoreT, QueueT, Stored
<1>2. CASE sandboxes[n] # NoObject
  <2>0. sandboxes[n] \in Sandbox
    BY <1>2 DEF TypeInv, StoreT
  <2>1. sandboxes' = [sandboxes EXCEPT ![n] = NoObject] /\ Touch(n, sandboxes[n])
    BY <1>2 DEF DeleteSandbox
  <2>2. HookT'
    <3>1. sandboxes[n].uid \in Nat
      BY <2>0 DEF Sandbox
    <3> DEFINE h == [NoHook EXCEPT !.pc = "inspect", !.name = n, !.todo = todo,
                                   !.uid = sandboxes[n].uid]
    <3>2. h \in Hook /\ HookWell(h)
      BY <3>1 DEF NoHook, Hook, HookWell, HookPcs
    <3>3. hook' = [hook EXCEPT ![t] = h]
      BY <1>2 DEF DeleteSandbox
    <3> HIDE DEF h
    <3>4. QED
      BY <3>2, <3>3, HookSet DEF TypeInv
  <2>3. Stored' \in SUBSET Stored
    BY <2>1 DEF TypeInv, StoreT, Stored
  <2>4. IsFiniteSet(Stored')
    BY <2>3, FS_Subset DEF TypeInv, StoreT
  <2>5. QueueT'
    BY <2>0, <2>1, KeysOf DEF TypeInv, QueueT, Touch
  <2>6. QED
    BY <2>1, <2>2, <2>4, <2>5 DEF TypeInv, StoreT
<1>3. QED
  BY <1>1, <1>2

\* Where a hook goes next keeps it well typed.
LEMMA CleanupType ==
  ASSUME HookT, NEW t \in Threads, NEW left \in SUBSET PVCNames, CleanupPVCs(t, left)
  PROVE  HookT'
<1>0. hook[t] \in Hook /\ HookWell(hook[t])
  BY DEF HookT
<1>1. CASE left = {}
  BY <1>0, <1>1, EachHook, HookSet DEF CleanupPVCs, HookDone, Hook
<1>2. CASE left # {}
  <2> DEFINE h == [hook[t] EXCEPT !.pc = "pvcs", !.id = 0, !.vols = left, !.pv = NoName]
  <2>1. h \in Hook /\ HookWell(h)
    BY <1>0 DEF Hook, HookWell, HookPcs
  <2>2. hook' = [hook EXCEPT ![t] = h]
    BY <1>2, <1>0 DEF CleanupPVCs, HookT, Hook
  <2> HIDE DEF h
  <2>3. QED
    BY <2>1, <2>2, HookSet
<1>3. QED
  BY <1>1, <1>2

\* RemoveContainer, also one that fails, keeps the types.
LEMMA RemoveType ==
  ASSUME TypeInv, NEW id, RemoveQuietly(id)
  PROVE  /\ containers' \subseteq Container
         /\ dirty' \subseteq Keys
         /\ faults' \in 0..MaxFaults
<1>1. CASE Removed(id) /\ UNCHANGED faults
  <2>1. Notify({c.name : c \in {d \in containers : d.id = id}}) \subseteq Keys
    BY ThreadOf DEF TypeInv, DockerT, Notify, Container
  <2>2. QED
    BY <1>1, <2>1 DEF Removed, TypeInv, DockerT, QueueT, CountT
<1>2. CASE Fail /\ UNCHANGED <<containers, dirty>>
  BY <1>2, FailCounts DEF TypeInv, DockerT, QueueT
<1>3. QED
  BY <1>1, <1>2 DEF RemoveQuietly

\* RemoveVolume, also one that fails, keeps the types.
LEMMA RemoveVolumeType ==
  ASSUME TypeInv, NEW v, RemoveVolume(v)
  PROVE  volumes' \in [PVCNames -> Volume] /\ faults' \in 0..MaxFaults
  BY FailCounts DEF TypeInv, DockerT, CountT, RemoveVolume, Volume

\* One reconcile of a sandbox goes on with a well-typed state.
LEMMA SbSet ==
  ASSUME SbwT, NEW n \in SbNames, NEW th \in SbThread, th.pc # "idle" => th.o \in Sandbox,
         sbw' = [sbw EXCEPT ![n] = th]
  PROVE  SbwT'
  BY DEF SbwT

\* A reconcile of a sandbox that ends keeps the threads' types.
LEMMA SbDoneType ==
  ASSUME SbwT, NEW n \in SbNames, SbDone(n)
  PROVE  SbwT'
<1>1. IdleSandbox \in SbThread /\ IdleSandbox.pc = "idle"
  BY DEF IdleSandbox, SbThread, SbPcs, NoConditions, Conditions
<1>2. QED
  BY <1>1, SbSet DEF SbDone

\* A reconcile of a sandbox that goes on keeps the threads' types.
LEMMA SbGotoType ==
  ASSUME SbwT, NEW n \in SbNames, NEW pc \in SbPcs, NEW st \in Conditions,
         sbw[n].o \in Sandbox, SbGoto(n, pc, st)
  PROVE  SbwT'
<1> DEFINE th == [sbw[n] EXCEPT !.pc = pc, !.st = st]
<1>1. th \in SbThread /\ th.o = sbw[n].o
  BY DEF SbwT, SbThread
<1>2. sbw' = [sbw EXCEPT ![n] = th]
  BY DEF SbGoto, SbwT, SbThread
<1> HIDE DEF th
<1>3. QED
  BY <1>1, <1>2, SbSet

\* One reconcile of a claim goes on with a well-typed state.
LEMMA ClSet ==
  ASSUME ClwT, NEW c \in ClaimNames, NEW th \in ClThread, ClWell(th),
         clw' = [clw EXCEPT ![c] = th]
  PROVE  ClwT'
  BY DEF ClwT, ClWell

\* A reconcile of a claim goes on where what it holds is enough for.
LEMMA ClGotoType ==
  ASSUME ClwT, NEW c \in ClaimNames, NEW pc \in ClPcs, clw[c].pc # "idle",
         pc \in {"pick", "adopt"} => clw[c].pick \in SbNames /\ clw[c].tries < MaxAttempts,
         pc = "rdelete" => clw[c].o.sb \in SbNames,
         ClGoto(c, pc)
  PROVE  ClwT'
<1> DEFINE th == [clw[c] EXCEPT !.pc = pc]
<1>1. th \in ClThread /\ ClWell(th)
  BY DEF ClwT, ClThread, ClWell
<1>2. clw' = [clw EXCEPT ![c] = th]
  BY DEF ClGoto, ClwT, ClThread
<1> HIDE DEF th
<1>3. QED
  BY <1>1, <1>2, ClSet

\* A reconcile of a claim that goes on to write its status keeps the types.
LEMMA ClStatusType ==
  ASSUME ClwT, NEW c \in ClaimNames, clw[c].pc # "idle", NEW sb \in SbNames \cup {NoName},
         NEW ready \in BOOLEAN, NEW finished \in BOOLEAN, ClStatus(c, sb, ready, finished)
  PROVE  ClwT'
<1> DEFINE th == [clw[c] EXCEPT !.pc = "status", !.sb = sb, !.ready = ready,
                                !.finished = finished]
<1>1. th \in ClThread /\ ClWell(th)
  <2>1. clw[c] \in ClThread /\ clw[c].o \in Claim /\ "status" \in ClPcs
    BY DEF ClwT, ClWell, ClPcs
  <2>2. th \in ClThread /\ th.pc = "status" /\ th.o = clw[c].o
    BY <2>1 DEF ClThread
  <2>3. QED
    BY <2>1, <2>2 DEF ClWell
<1>2. clw' = [clw EXCEPT ![c] = th]
  BY DEF ClStatus, ClwT, ClThread
<1> HIDE DEF th
<1>3. QED
  BY <1>1, <1>2, ClSet

\* ... also with the conditions of the sandbox that it read.
LEMMA MirrorType ==
  ASSUME TypeInv, NEW c \in ClaimNames, clw[c].pc # "idle", NEW n \in SbNames,
         sandboxes[n] # NoObject, Mirror(c, n)
  PROVE  ClwT'
<1>1. sandboxes[n] \in Sandbox
  BY DEF TypeInv, StoreT
<1>2. sandboxes[n].st.ready \in BOOLEAN /\ sandboxes[n].st.finished \in BOOLEAN
  BY <1>1 DEF Sandbox, Conditions
<1>3. QED
  BY <1>2, ClStatusType DEF Mirror, TypeInv

\* ... also with the sandbox that it already recorded.
LEMMA NotReadyType ==
  ASSUME ClwT, NEW c \in ClaimNames, clw[c].pc # "idle", claimNotReady(c)
  PROVE  ClwT'
<1>1. clw[c].o \in Claim
  BY DEF ClwT, ClWell
<1>2. clw[c].o.sb \in SbNames \cup {NoName} /\ clw[c].o.finished \in BOOLEAN
  BY <1>1 DEF Claim
<1>3. QED
  BY <1>2, ClStatusType DEF claimNotReady

\* One reconcile of a pool goes on with a well-typed state.
LEMMA PlSet ==
  ASSUME PlwT, NEW p \in PoolNames, NEW th \in PlThread, th.pc # "idle" => th.o \in Pool,
         th.pc = "create" => th.left # 0, plw' = [plw EXCEPT ![p] = th]
  PROVE  PlwT'
  BY DEF PlwT

\* A sweep that goes on, or ends, is a sweep.
LEMMA SweepToType ==
  ASSUME NEW s \in Sweep, SweepTo(s)
  PROVE  sweep' \in Sweep
  BY DEF SweepTo, Sweep, NoSweep

----------------------------------------------------------------------------
(* The delete hooks.                                                       *)

\* One step of a delete hook keeps everything well typed.
LEMMA HookType ==
  ASSUME TypeInv, NEW t \in Threads, HookStep(t)
  PROVE  TypeInv'
<1> USE DEF outside, storage
<1>0. hook[t] \in Hook /\ HookWell(hook[t])
  BY DEF TypeInv, HookT
<1>t. \A n \in SbNames : TemplatePVCs[n] \in SUBSET PVCNames
  BY ClusterAssumption
<1>1. CASE CascadeCheck(t)
  <2>1. HookT'
    <3>1. CASE hook' = [hook EXCEPT ![t].pc = "cdelete"]
      <4> DEFINE h == [hook[t] EXCEPT !.pc = "cdelete"]
      <4>1. h \in Hook /\ HookWell(h)
        BY <1>0, <1>1 DEF CascadeCheck, Hook, HookWell, HookPcs
      <4>2. hook' = [hook EXCEPT ![t] = h]
        BY <3>1, <1>0 DEF TypeInv, HookT, Hook
      <4> HIDE DEF h
      <4>3. QED
        BY <4>1, <4>2, HookSet DEF TypeInv
    <3>2. CASE HookDone(t)
      BY <1>0, <3>2, EachHook, HookSet DEF HookDone, Hook, TypeInv
    <3>3. QED
      BY <1>1, <3>1, <3>2 DEF CascadeCheck
  <2>2. QED
    BY <1>1, <2>1 DEF CascadeCheck, TypeInv, StoreT, DockerT, QueueT, SbwT, ClwT, PlwT, PvwT, CountT, Stored
<1>2. CASE CascadeDelete(t)
  <2>1. DeleteSandbox(t, hook[t].name, {}) /\ hook[t].name \in SbNames
    BY <1>0, <1>2 DEF CascadeDelete, HookWell
  <2>2. QED
    BY <1>2, <2>1, DeleteSandboxType
    DEF CascadeDelete, TypeInv, StoreT, DockerT, SbwT, ClwT, PlwT, PvwT, CountT
<1>3. CASE CascadeList(t)
  <2>1. Members(hook[t].name) \in SUBSET SbNames
    BY DEF Members
  <2>2. HookT'
    BY <1>3, <2>1, EachHook, HookSet DEF CascadeList, TypeInv
  <2>3. QED
    BY <1>3, <2>2 DEF CascadeList, TypeInv, StoreT, DockerT, QueueT, SbwT, ClwT, PlwT, PvwT, CountT, Stored
<1>4. CASE CascadeEach(t)
  <2>1. PICK n \in hook[t].todo : DeleteSandbox(t, n, hook[t].todo \ {n})
    BY <1>4 DEF CascadeEach
  <2>2. n \in SbNames /\ hook[t].todo \ {n} \in SUBSET SbNames
    BY <1>0 DEF Hook
  <2>3. QED
    BY <1>4, <2>1, <2>2, DeleteSandboxType
    DEF CascadeEach, TypeInv, StoreT, DockerT, SbwT, ClwT, PlwT, PvwT, CountT
<1>5. CASE CleanupInspect(t)
  <2>0. hook[t].name \in SbNames
    BY <1>0, <1>5 DEF CleanupInspect, HookWell
  <2>1. faults' \in 0..MaxFaults
    BY <1>5, FailCounts DEF CleanupInspect, TypeInv, CountT
  <2>2. HookT'
    <3>1. CASE CleanupPVCs(t, TemplatePVCs[hook[t].name])
      BY <3>1, <2>0, <1>t, CleanupType DEF TypeInv
    <3>2. ASSUME NEW c \in InspectSandbox(hook[t].name),
                 hook' = [hook EXCEPT ![t].pc = "remove", ![t].id = c.id]
          PROVE  HookT'
      <4> DEFINE h == [hook[t] EXCEPT !.pc = "remove", !.id = c.id]
      <4>1. c.id \in Nat
        BY <3>2 DEF InspectSandbox, OfSandbox, TypeInv, DockerT, Container
      <4>2. h \in Hook /\ HookWell(h)
        BY <1>0, <2>0, <4>1 DEF Hook, HookWell, HookPcs
      <4>3. hook' = [hook EXCEPT ![t] = h]
        BY <3>2, <1>0 DEF TypeInv, HookT, Hook
      <4> HIDE DEF h
      <4>4. QED
        BY <4>2, <4>3, HookSet DEF TypeInv
    <3>3. QED
      BY <1>5, <3>1, <3>2 DEF CleanupInspect
  <2>3. QED
    BY <1>5, <2>1, <2>2
    DEF CleanupInspect, TypeInv, StoreT, DockerT, QueueT, SbwT, ClwT, PlwT, PvwT, CountT, Stored
<1>6. CASE CleanupRemove(t)
  <2>1. HookT'
    BY <1>0, <1>6, <1>t, CleanupType DEF CleanupRemove, HookWell, TypeInv
  <2>2. containers' \subseteq Container /\ dirty' \subseteq Keys /\ faults' \in 0..MaxFaults
    BY <1>6, RemoveType DEF CleanupRemove
  <2>3. QED
    BY <1>6, <2>1, <2>2
    DEF CleanupRemove, TypeInv, StoreT, DockerT, QueueT, SbwT, ClwT, PlwT, PvwT, CountT, Stored
<1>7. CASE CleanupPVC(t)
  <2>1. PICK v \in hook[t].vols :
          IF pvcs[v] # NoObject /\ pvcs[v].owner # hook[t].uid
          THEN CleanupPVCs(t, hook[t].vols \ {v})
          ELSE hook' = [hook EXCEPT ![t].vols = @ \ {v}, ![t].pv = v,
                       ![t].pc = IF pvcs[v] = NoObject THEN "volume" ELSE "pvcdelete"]
    BY <1>7 DEF CleanupPVC
  <2>2. v \in PVCNames /\ hook[t].vols \ {v} \in SUBSET PVCNames
    BY <1>0 DEF Hook
  <2>3. HookT'
    <3>1. CASE CleanupPVCs(t, hook[t].vols \ {v})
      BY <3>1, <2>2, CleanupType DEF TypeInv
    <3>2. CASE hook' = [hook EXCEPT ![t].vols = @ \ {v}, ![t].pv = v,
                       ![t].pc = IF pvcs[v] = NoObject THEN "volume" ELSE "pvcdelete"]
      <4> DEFINE h == [hook[t] EXCEPT !.vols = @ \ {v}, !.pv = v,
                         !.pc = IF pvcs[v] = NoObject THEN "volume" ELSE "pvcdelete"]
      <4>1. h \in Hook /\ HookWell(h)
        BY <1>0, <2>2 DEF Hook, HookWell, HookPcs
      <4>2. hook' = [hook EXCEPT ![t] = h]
        BY <3>2, <1>0 DEF TypeInv, HookT, Hook
      <4> HIDE DEF h
      <4>3. QED
        BY <4>1, <4>2, HookSet DEF TypeInv
    <3>3. QED
      BY <2>1, <3>1, <3>2
  <2>4. QED
    BY <1>7, <2>3 DEF CleanupPVC, TypeInv, StoreT, DockerT, QueueT, SbwT, ClwT, PlwT, PvwT, CountT, Stored
<1>8. CASE CleanupDelete(t)
  <2>0. hook[t].pv \in PVCNames /\ hook[t].vols \in SUBSET PVCNames
    BY <1>0, <1>8 DEF CleanupDelete, HookWell, Hook
  <2>1. HookT' /\ dirty' \subseteq Keys /\ pvcs' \in [PVCNames -> PVC \cup {NoObject}]
    <3>1. CASE pvcs[hook[t].pv] = NoObject
      <4>1. CleanupPVCs(t, hook[t].vols) /\ UNCHANGED <<pvcs, dirty>>
        BY <1>8, <3>1 DEF CleanupDelete, DeletePVC
      <4>2. QED
        BY <2>0, <4>1, CleanupType DEF TypeInv, StoreT, QueueT
    <3>2. CASE pvcs[hook[t].pv] # NoObject
      <4> DEFINE h == [hook[t] EXCEPT !.pc = "volume", !.pv = hook[t].pv]
      <4>1. h \in Hook /\ HookWell(h)
        BY <1>0, <2>0 DEF Hook, HookWell, HookPcs
      <4>2. hook' = [hook EXCEPT ![t] = h]
        BY <1>8, <3>2, <1>0 DEF CleanupDelete, DeletePVC, TypeInv, HookT, Hook
      <4>3. dirty' \subseteq Keys /\ pvcs' \in [PVCNames -> PVC \cup {NoObject}]
        BY <1>8, <2>0, <3>2, ThreadOf DEF CleanupDelete, DeletePVC, TypeInv, StoreT, QueueT
      <4> HIDE DEF h
      <4>4. QED
        BY <4>1, <4>2, <4>3, HookSet DEF TypeInv
    <3>3. QED
      BY <3>1, <3>2
  <2>2. QED
    BY <1>8, <2>1 DEF CleanupDelete, TypeInv, StoreT, DockerT, QueueT, SbwT, ClwT, PlwT, PvwT, CountT, Stored
<1>9. CASE CleanupVolume(t)
  <2>1. HookT'
    BY <1>0, <1>9, CleanupType DEF CleanupVolume, Hook, TypeInv
  <2>2. volumes' \in [PVCNames -> Volume] /\ faults' \in 0..MaxFaults
    BY <1>9, RemoveVolumeType DEF CleanupVolume
  <2>3. QED
    BY <1>9, <2>1, <2>2
    DEF CleanupVolume, TypeInv, StoreT, DockerT, QueueT, SbwT, ClwT, PlwT, PvwT, CountT, Stored
<1>10. QED
  BY <1>1, <1>2, <1>3, <1>4, <1>5, <1>6, <1>7, <1>8, <1>9 DEF HookStep

----------------------------------------------------------------------------
(* The sandbox controller.                                                 *)

\* The loop over the templates, and what follows it, keeps the types.
LEMMA EachTemplateType ==
  ASSUME SbwT, NEW n \in SbNames, sbw[n].o \in Sandbox, NEW left \in SUBSET PVCNames,
         EachTemplate(n, left)
  PROVE  SbwT'
<1>1. CASE left # {}
  <2> DEFINE th == [sbw[n] EXCEPT !.pc = "vct", !.vols = left]
  <2>1. th \in SbThread /\ th.o = sbw[n].o
    BY DEF SbwT, SbThread, SbPcs
  <2>2. sbw' = [sbw EXCEPT ![n] = th]
    BY <1>1 DEF EachTemplate, SbwT, SbThread
  <2> HIDE DEF th
  <2>3. QED
    BY <2>1, <2>2, SbSet
<1>2. CASE left = {}
  <2> DEFINE th == [sbw[n] EXCEPT !.vols = Mounts(n),
                                  !.pc = IF Mounts(n) = {} THEN "inspect" ELSE "pvc"]
  <2>0. Mounts(n) \in SUBSET PVCNames
    BY ClusterAssumption DEF Mounts
  <2>1. th \in SbThread /\ th.o = sbw[n].o
    BY <2>0 DEF SbwT, SbThread, SbPcs
  <2>2. sbw' = [sbw EXCEPT ![n] = th]
    BY <1>2 DEF EachTemplate, SbwT, SbThread
  <2> HIDE DEF th
  <2>3. QED
    BY <2>1, <2>2, SbSet
<1>3. QED
  BY <1>1, <1>2

\* What a new container leaves behind in Docker, the queue and the reconcile.
LEMMA ContainerCreateType ==
  ASSUME TypeInv, NEW n \in SbNames, sbw[n].o \in Sandbox, NEW uid \in Nat,
         NEW state \in {"created", "running"}, NEW pc \in SbPcs,
         ContainerCreate(n, uid, state, pc)
  PROVE  /\ containers' \subseteq Container
         /\ volumes' \in [PVCNames -> Volume]
         /\ lastUID' \in Nat
         /\ dirty' \subseteq Keys
         /\ SbwT'
<1>0. lastUID \in Nat /\ lastUID + 1 \in Nat \ {0}
  BY DEF TypeInv, StoreT
<1>1. containers' \subseteq Container
  BY <1>0 DEF ContainerCreate, TypeInv, DockerT, Container
<1>2. volumes' \in [PVCNames -> Volume]
  BY DEF ContainerCreate, TypeInv, DockerT, Volume
<1>3. dirty' \subseteq Keys
  BY ThreadOf DEF ContainerCreate, TypeInv, QueueT, Notify
<1>4. SbwT'
  <2> DEFINE th == [sbw[n] EXCEPT !.pc = pc, !.id = lastUID + 1]
  <2>1. th \in SbThread /\ th.o = sbw[n].o
    BY <1>0 DEF TypeInv, SbwT, SbThread
  <2>2. sbw' = [sbw EXCEPT ![n] = th]
    BY DEF ContainerCreate, TypeInv, SbwT, SbThread
  <2> HIDE DEF th
  <2>3. QED
    BY <2>1, <2>2, SbSet DEF TypeInv
<1>5. QED
  BY <1>0, <1>1, <1>2, <1>3, <1>4 DEF ContainerCreate

\* SbGoto to the removal of a container that was found.
LEMMA SbFoundType ==
  ASSUME TypeInv, NEW n \in SbNames, sbw[n].o \in Sandbox, NEW pc \in SbPcs,
         NEW c \in InspectSandbox(n), sbw' = [sbw EXCEPT ![n].pc = pc, ![n].id = c.id]
  PROVE  SbwT'
<1> DEFINE th == [sbw[n] EXCEPT !.pc = pc, !.id = c.id]
<1>0. c.id \in Nat
  BY DEF InspectSandbox, OfSandbox, TypeInv, DockerT, Container
<1>1. th \in SbThread /\ th.o = sbw[n].o
  BY <1>0 DEF TypeInv, SbwT, SbThread
<1>2. sbw' = [sbw EXCEPT ![n] = th]
  BY DEF TypeInv, SbwT, SbThread
<1> HIDE DEF th
<1>3. QED
  BY <1>1, <1>2, SbSet DEF TypeInv

\* What the controller computes are conditions.
LEMMA ConditionsType ==
  /\ \A st \in Conditions : failReady(st) \in Conditions
  /\ \A st \in Conditions, state \in {"created", "running", "serving", "exited"} :
       Observed(st, state) \in Conditions
  /\ \A gone \in BOOLEAN : SuspendedStatus(gone) \in Conditions
  /\ NoConditions \in Conditions
<1>1. \A st \in Conditions : failReady(st) \in Conditions
  BY DEF failReady, Conditions
<1>2. \A st \in Conditions : [st EXCEPT !.ready = FALSE, !.suspended = FALSE] \in Conditions
  BY DEF Conditions
<1>3. \A b \in BOOLEAN, f \in BOOLEAN :
        [ready |-> b, finished |-> f, suspended |-> FALSE] \in Conditions
  BY DEF Conditions
<1>4. ASSUME NEW st \in Conditions, NEW state \in {"created", "running", "serving", "exited"}
      PROVE  Observed(st, state) \in Conditions
  BY <1>2, <1>3 DEF Observed
<1>5. \A gone \in BOOLEAN : SuspendedStatus(gone) \in Conditions
  BY DEF SuspendedStatus, Conditions
<1>6. NoConditions \in Conditions
  BY DEF NoConditions, Conditions
<1>7. QED
  BY <1>1, <1>4, <1>5, <1>6

\* One step of reconcileSandbox keeps everything well typed.
LEMMA SandboxType ==
  ASSUME TypeInv, NEW n \in SbNames, SandboxStep(n)
  PROVE  TypeInv'
<1> USE DEF outside, SbFrame
<1>0. /\ sbw[n] \in SbThread
      /\ sbw[n].pc # "idle" => /\ sbw[n].o \in Sandbox
                               /\ sbw[n].o.st \in Conditions
                               /\ sbw[n].o.uid \in Nat
      /\ sbw[n].st \in Conditions
  BY DEF TypeInv, SbwT, SbThread, Sandbox
<1>f. Fail => faults' \in 0..MaxFaults
  BY FailCounts DEF TypeInv
<1>r. SbRequeue(n) => dirty' \subseteq Keys /\ SbwT'
  BY ThreadOf, SbDoneType DEF SbRequeue, TypeInv, QueueT
<1>1. CASE SbGet(n)
  <2>1. SbwT'
    <3>1. CASE sbw' = sbw
      BY <3>1 DEF TypeInv, SbwT
    <3>2. CASE sandboxes[n] # NoObject
      <4> DEFINE th == [IdleSandbox EXCEPT !.pc = "owner", !.o = sandboxes[n]]
      <4>1. sandboxes[n] \in Sandbox
        BY <3>2 DEF TypeInv, StoreT
      <4>2. th \in SbThread /\ th.o \in Sandbox
        BY <4>1, ConditionsType DEF IdleSandbox, SbThread, SbPcs
      <4>3. sbw' = [sbw EXCEPT ![n] = th]
        BY <1>1, <3>2 DEF SbGet
      <4> HIDE DEF th
      <4>4. QED
        BY <4>2, <4>3, SbSet DEF TypeInv
    <3>3. QED
      BY <1>1, <3>1, <3>2 DEF SbGet
  <2>2. dirty' \subseteq Keys
    BY <1>1 DEF SbGet, Take, TypeInv, QueueT
  <2>3. QED
    BY <1>1, <2>1, <2>2
    DEF SbGet, TypeInv, StoreT, DockerT, QueueT, ClwT, PlwT, PvwT, HookT, CountT, Stored
<1>2. CASE SbOwner(n)
  <2>1. SbwT'
    <3>1. \A pc \in SbPcs : SbGoto(n, pc, sbw[n].o.st) => SbwT'
      BY <1>0, <1>2, SbGotoType DEF SbOwner, TypeInv
    <3>2. EachTemplate(n, TemplatePVCs[n]) => SbwT'
      BY <1>0, <1>2, EachTemplateType, ClusterAssumption DEF SbOwner, TypeInv
    <3>3. {"delete", "expire", "suspend"} \subseteq SbPcs
      BY DEF SbPcs
    <3>4. QED
      BY <1>2, <3>1, <3>2, <3>3 DEF SbOwner
  <2>2. QED
    BY <1>2, <2>1
    DEF SbOwner, TypeInv, StoreT, DockerT, QueueT, ClwT, PlwT, PvwT, HookT, CountT, Stored
<1>3. CASE SbDelete(n)
  <2>1. SbwT'
    BY <1>3, SbDoneType DEF SbDelete, TypeInv
  <2>2. QED
    BY <1>3, <2>1, ThreadOf, DeleteSandboxType
    DEF SbDelete, TypeInv, StoreT, DockerT, ClwT, PlwT, PvwT, CountT
<1>4. CASE ensureVCTPVCObject(n)
  <2>1. PICK v \in sbw[n].vols :
          /\ EachTemplate(n, sbw[n].vols \ {v})
          /\ IF pvcs[v] # NoObject THEN UNCHANGED <<pvcs, lastUID, dirty>>
             ELSE /\ pvcs' = [pvcs EXCEPT ![v] = [uid |-> lastUID + 1, owner |-> sbw[n].o.uid,
                                                 phase |-> "none"]]
                  /\ lastUID' = lastUID + 1
                  /\ dirty' = dirty \cup {<<"pvc", v>>}
    BY <1>4 DEF ensureVCTPVCObject
  <2>2. v \in PVCNames /\ sbw[n].vols \ {v} \in SUBSET PVCNames
    BY <1>0 DEF SbThread
  <2>3. SbwT'
    BY <1>0, <1>4, <2>1, <2>2, EachTemplateType DEF ensureVCTPVCObject, TypeInv
  <2>4. pvcs' \in [PVCNames -> PVC \cup {NoObject}] /\ lastUID' \in Nat
    BY <1>0, <1>4, <2>1, <2>2 DEF ensureVCTPVCObject, TypeInv, StoreT, PVC
  <2>5. dirty' \subseteq Keys
    BY <2>1, <2>2, ThreadOf DEF TypeInv, QueueT
  <2>6. QED
    BY <1>4, <2>3, <2>4, <2>5
    DEF ensureVCTPVCObject, TypeInv, StoreT, DockerT, QueueT, ClwT, PlwT, PvwT, HookT, CountT, Stored
<1>5. CASE SbPVC(n)
  <2>1. PICK v \in sbw[n].vols :
          IF pvcs[v] = NoObject THEN SbGoto(n, "status", failReady(sbw[n].o.st))
          ELSE sbw' = [sbw EXCEPT ![n].pc = "ensure", ![n].vols = @ \ {v}, ![n].pv = v]
    BY <1>5 DEF SbPVC
  <2>2. v \in PVCNames /\ sbw[n].vols \ {v} \in SUBSET PVCNames
    BY <1>0 DEF SbThread
  <2>3. SbwT'
    <3>1. CASE SbGoto(n, "status", failReady(sbw[n].o.st))
      BY <1>0, <1>5, <3>1, ConditionsType, SbGotoType DEF SbPVC, TypeInv, SbPcs
    <3>2. CASE sbw' = [sbw EXCEPT ![n].pc = "ensure", ![n].vols = @ \ {v}, ![n].pv = v]
      <4> DEFINE th == [sbw[n] EXCEPT !.pc = "ensure", !.vols = @ \ {v}, !.pv = v]
      <4>1. th \in SbThread /\ th.o \in Sandbox
        BY <1>0, <1>5, <2>2 DEF SbPVC, SbThread, SbPcs
      <4>2. sbw' = [sbw EXCEPT ![n] = th]
        BY <3>2, <1>0 DEF TypeInv, SbwT, SbThread
      <4> HIDE DEF th
      <4>3. QED
        BY <4>1, <4>2, SbSet DEF TypeInv
    <3>3. QED
      BY <2>1, <3>1, <3>2
  <2>4. QED
    BY <1>5, <2>3
    DEF SbPVC, TypeInv, StoreT, DockerT, QueueT, ClwT, PlwT, PvwT, HookT, CountT, Stored
<1>6. CASE SbEnsure(n)
  <2>1. CASE EnsureVolume(sbw[n].pv) /\ UNCHANGED <<dirty, faults>>
             /\ sbw' = [sbw EXCEPT ![n].pv = NoName,
                          ![n].pc = IF sbw[n].vols = {} THEN "inspect" ELSE "pvc"]
    <3> DEFINE th == [sbw[n] EXCEPT !.pv = NoName,
                                    !.pc = IF sbw[n].vols = {} THEN "inspect" ELSE "pvc"]
    <3>1. th \in SbThread /\ th.o \in Sandbox
      BY <1>0, <1>6 DEF SbEnsure, SbThread, SbPcs
    <3>2. sbw' = [sbw EXCEPT ![n] = th]
      BY <2>1, <1>0 DEF TypeInv, SbwT, SbThread
    <3> HIDE DEF th
    <3>3. SbwT'
      BY <3>1, <3>2, SbSet DEF TypeInv
    <3>4. volumes' \in [PVCNames -> Volume]
      BY <2>1 DEF EnsureVolume, Volume, TypeInv, DockerT
    <3>5. QED
      BY <1>6, <2>1, <3>3, <3>4
      DEF SbEnsure, TypeInv, StoreT, DockerT, QueueT, ClwT, PlwT, PvwT, HookT, CountT, Stored
  <2>2. CASE Fail /\ SbRequeue(n) /\ UNCHANGED volumes
    BY <1>6, <1>f, <1>r, <2>2
    DEF SbEnsure, TypeInv, StoreT, DockerT, QueueT, ClwT, PlwT, PvwT, HookT, CountT, Stored
  <2>3. QED
    BY <1>6, <2>1, <2>2 DEF SbEnsure
<1>7. CASE SbInspect(n)
  <2>1. faults' \in 0..MaxFaults
    BY <1>7, <1>f DEF SbInspect, TypeInv, CountT
  <2>2. dirty' \subseteq Keys
    BY <1>7, <1>r DEF SbInspect, TypeInv, QueueT
  <2>3. SbwT'
    <3>1. \A pc \in SbPcs, st \in Conditions : SbGoto(n, pc, st) => SbwT'
      BY <1>0, <1>7, SbGotoType DEF SbInspect, TypeInv
    <3>2. \A c \in InspectSandbox(n) : Observed(sbw[n].o.st, c.state) \in Conditions
      BY <1>0, <1>7, ConditionsType
      DEF SbInspect, InspectSandbox, OfSandbox, TypeInv, DockerT, Container
    <3>3. {"prepare", "create", "status"} \subseteq SbPcs
      BY DEF SbPcs
    <3>4. sbw[n].o.st \in Conditions /\ failReady(sbw[n].o.st) \in Conditions
      BY <1>0, <1>7, ConditionsType DEF SbInspect
    <3>5. QED
      BY <1>7, <1>r, <3>1, <3>2, <3>3, <3>4 DEF SbInspect
  <2>4. QED
    BY <1>7, <2>1, <2>2, <2>3
    DEF SbInspect, TypeInv, StoreT, DockerT, QueueT, ClwT, PlwT, PvwT, HookT, CountT, Stored
<1>8. CASE SbPrepare(n)
  <2>0. "chown" \in SbPcs /\ "create" \in SbPcs /\ sbw[n].o \in Sandbox
    BY <1>0, <1>8 DEF SbPcs, SbPrepare
  <2>1. CASE ContainerCreate(n, 0, "running", "chown") /\ UNCHANGED faults
    BY <1>8, <2>0, <2>1, ContainerCreateType
    DEF SbPrepare, TypeInv, StoreT, DockerT, QueueT, ClwT, PlwT, PvwT, HookT, CountT, Stored
  <2>2. CASE Fail /\ SbGoto(n, "create", sbw[n].st)
             /\ UNCHANGED <<containers, volumes, lastUID, dirty>>
    <3>1. SbwT'
      BY <1>0, <2>0, <2>2, SbGotoType DEF TypeInv
    <3>2. QED
      BY <1>8, <1>f, <2>2, <3>1
      DEF SbPrepare, TypeInv, StoreT, DockerT, QueueT, ClwT, PlwT, PvwT, HookT, CountT, Stored
  <2>3. QED
    BY <1>8, <2>1, <2>2 DEF SbPrepare
<1>9. CASE SbChown(n)
  <2>1. SbwT'
    BY <1>0, <1>9, SbGotoType DEF SbChown, TypeInv, SbPcs
  <2>2. QED
    BY <1>9, <2>1, RemoveType
    DEF SbChown, TypeInv, StoreT, DockerT, QueueT, ClwT, PlwT, PvwT, HookT, CountT, Stored
<1>10. CASE SbCreate(n)
  <2>0. "start" \in SbPcs /\ sbw[n].o \in Sandbox /\ sbw[n].o.uid \in Nat
    BY <1>0, <1>10 DEF SbPcs, SbCreate
  <2>1. CASE ContainerCreate(n, sbw[n].o.uid, "created", "start") /\ UNCHANGED faults
    BY <1>10, <2>0, <2>1, ContainerCreateType
    DEF SbCreate, TypeInv, StoreT, DockerT, QueueT, ClwT, PlwT, PvwT, HookT, CountT, Stored
  <2>2. CASE Fail /\ SbRequeue(n) /\ UNCHANGED <<containers, volumes, lastUID>>
    BY <1>10, <1>f, <1>r, <2>2
    DEF SbCreate, TypeInv, StoreT, DockerT, QueueT, ClwT, PlwT, PvwT, HookT, CountT, Stored
  <2>3. QED
    BY <1>10, <2>1, <2>2 DEF SbCreate
<1>11. CASE SbStart(n)
  <2>1. ASSUME NEW c \in containers, NEW state \in {"running", "serving"},
               containers' = Replace(c, state),
               SbGoto(n, "status", Observed(sbw[n].o.st, state)),
               dirty' = dirty \cup Notify({n}), UNCHANGED faults
        PROVE  containers' \subseteq Container /\ SbwT' /\ dirty' \subseteq Keys
               /\ faults' \in 0..MaxFaults
    <3>1. containers' \subseteq Container
      BY <2>1 DEF Replace, TypeInv, DockerT, Container
    <3>2. SbwT'
      BY <1>0, <1>11, <2>1, ConditionsType, SbGotoType DEF SbStart, TypeInv, SbPcs
    <3>3. dirty' \subseteq Keys
      BY <2>1, ThreadOf DEF Notify, TypeInv, QueueT
    <3>4. QED
      BY <2>1, <3>1, <3>2, <3>3 DEF TypeInv, CountT
  <2>2. ASSUME SbRequeue(n), Fail \/ UNCHANGED faults,
               \/ containers' \subseteq containers
               \/ \E c \in containers : containers' = Replace(c, "running")
        PROVE  containers' \subseteq Container /\ SbwT' /\ dirty' \subseteq Keys
               /\ faults' \in 0..MaxFaults
    <3>1. containers' \subseteq Container
      BY <2>2 DEF Replace, TypeInv, DockerT, Container
    <3>2. QED
      BY <1>f, <1>r, <2>2, <3>1 DEF TypeInv, CountT
  <2>3. containers' \subseteq Container /\ SbwT' /\ dirty' \subseteq Keys
        /\ faults' \in 0..MaxFaults
    BY <1>11, <2>1, <2>2 DEF SbStart
  <2>4. QED
    BY <1>11, <2>3
    DEF SbStart, TypeInv, StoreT, DockerT, QueueT, ClwT, PlwT, PvwT, HookT, CountT, Stored
<1>12. CASE writeSandboxStatus(n)
  <2>1. CASE sandboxes[n] # NoObject /\ SbDone(n)
             /\ PutSandbox(n, [sandboxes[n] EXCEPT !.st = sbw[n].st])
    <3>1. [sandboxes[n] EXCEPT !.st = sbw[n].st] \in Sandbox
      BY <1>0, <2>1 DEF TypeInv, StoreT, Sandbox
    <3>2. QED
      BY <1>12, <2>1, <3>1, PutType, SbDoneType
      DEF writeSandboxStatus, TypeInv, StoreT, DockerT, ClwT, PlwT, PvwT, HookT, CountT
  <2>2. CASE SbRequeue(n) /\ UNCHANGED <<sandboxes, fresh>>
    BY <1>12, <1>r, <2>2
    DEF writeSandboxStatus, TypeInv, StoreT, DockerT, QueueT, ClwT, PlwT, PvwT, HookT, CountT, Stored
  <2>3. QED
    BY <1>12, <2>1, <2>2 DEF writeSandboxStatus
<1>13. CASE SbSuspend(n)
  <2>1. faults' \in 0..MaxFaults
    BY <1>13, <1>f DEF SbSuspend, TypeInv, CountT
  <2>2. SbwT'
    <3>1. \A gone \in BOOLEAN : SbGoto(n, "status", SuspendedStatus(gone)) => SbwT'
      BY <1>0, <1>13, ConditionsType, SbGotoType DEF SbSuspend, TypeInv, SbPcs
    <3>2. ASSUME NEW c \in InspectSandbox(n),
                 sbw' = [sbw EXCEPT ![n].pc = "susremove", ![n].id = c.id]
          PROVE  SbwT'
      BY <1>0, <1>13, <3>2, SbFoundType DEF SbSuspend, SbPcs
    <3>3. QED
      BY <1>13, <3>1, <3>2 DEF SbSuspend
  <2>3. QED
    BY <1>13, <2>1, <2>2
    DEF SbSuspend, TypeInv, StoreT, DockerT, QueueT, ClwT, PlwT, PvwT, HookT, CountT, Stored
<1>14. CASE SbSuspendRemove(n)
  <2>1. SbwT'
    BY <1>0, <1>14, ConditionsType, SbGotoType DEF SbSuspendRemove, TypeInv, SbPcs
  <2>2. QED
    BY <1>14, <2>1, RemoveType
    DEF SbSuspendRemove, TypeInv, StoreT, DockerT, QueueT, ClwT, PlwT, PvwT, HookT, CountT, Stored
<1>15. CASE SbExpire(n)
  <2>1. faults' \in 0..MaxFaults
    BY <1>15, <1>f DEF SbExpire, TypeInv, CountT
  <2>2. SbwT'
    <3>1. SbGoto(n, AfterExpiry(sbw[n].o), failReady(sbw[n].o.st)) => SbwT'
      BY <1>0, <1>15, ConditionsType, SbGotoType DEF SbExpire, TypeInv, SbPcs, AfterExpiry
    <3>2. ASSUME NEW c \in InspectSandbox(n),
                 sbw' = [sbw EXCEPT ![n].pc = "expremove", ![n].id = c.id]
          PROVE  SbwT'
      BY <1>0, <1>15, <3>2, SbFoundType DEF SbExpire, SbPcs
    <3>3. QED
      BY <1>15, <3>1, <3>2 DEF SbExpire
  <2>3. QED
    BY <1>15, <2>1, <2>2
    DEF SbExpire, TypeInv, StoreT, DockerT, QueueT, ClwT, PlwT, PvwT, HookT, CountT, Stored
<1>16. CASE SbExpireRemove(n)
  <2>1. SbwT'
    BY <1>0, <1>16, ConditionsType, SbGotoType DEF SbExpireRemove, TypeInv, SbPcs, AfterExpiry
  <2>2. QED
    BY <1>16, <2>1, RemoveType
    DEF SbExpireRemove, TypeInv, StoreT, DockerT, QueueT, ClwT, PlwT, PvwT, HookT, CountT, Stored
<1>17. QED
  BY <1>1, <1>2, <1>3, <1>4, <1>5, <1>6, <1>7, <1>8, <1>9, <1>10, <1>11, <1>12, <1>13,
     <1>14, <1>15, <1>16 DEF SandboxStep

----------------------------------------------------------------------------
(* The claim controller.                                                   *)

\* Deleting a claim starts a hook that has a sandbox's name.
LEMMA DeleteClaimType ==
  ASSUME TypeInv, NEW t \in Threads, NEW c \in ClaimNames, DeleteClaim(t, c)
  PROVE  /\ claims' \in [ClaimNames -> Claim \cup {NoObject}]
         /\ dirty' \subseteq Keys
         /\ HookT'
<1>1. CASE claims[c] = NoObject
  BY <1>1 DEF DeleteClaim, TypeInv, StoreT, QueueT, HookT
<1>2. CASE claims[c] # NoObject
  <2> DEFINE h == [NoHook EXCEPT !.pc = "cascade", !.uid = claims[c].uid,
                     !.name = IF claims[c].sb = NoName THEN c ELSE claims[c].sb]
  <2>1. claims[c] \in Claim
    BY <1>2 DEF TypeInv, StoreT
  <2>2. claims[c].uid \in Nat /\ claims[c].sb \in SbNames \cup {NoName} /\ c \in SbNames
    BY <2>1, ThreadOf DEF Claim
  <2>3. h \in Hook /\ HookWell(h)
    BY <2>2 DEF NoHook, Hook, HookWell, HookPcs
  <2>4. hook' = [hook EXCEPT ![t] = h]
    BY <1>2 DEF DeleteClaim
  <2>5. claims' \in [ClaimNames -> Claim \cup {NoObject}] /\ dirty' \subseteq Keys
    BY <1>2, ThreadOf DEF DeleteClaim, TypeInv, StoreT, QueueT
  <2> HIDE DEF h
  <2>6. QED
    BY <2>3, <2>4, <2>5, HookSet DEF TypeInv
<1>3. QED
  BY <1>1, <1>2

\* One step of reconcileClaim keeps everything well typed.
LEMMA ClaimType ==
  ASSUME TypeInv, NEW c \in ClaimNames, ClaimStep(c)
  PROVE  TypeInv'
<1> USE DEF outside, storage, ClFrame
<1>0. clw[c] \in ClThread /\ ClWell(clw[c])
  BY DEF TypeInv, ClwT
<1>o. clw[c].pc # "idle" => /\ clw[c].o \in Claim
                            /\ clw[c].o.sb \in SbNames \cup {NoName}
                            /\ clw[c].o.uid \in Nat
                            /\ clw[c].o.pool \in PoolNames
  BY <1>0 DEF ClWell, Claim
<1>n. c \in SbNames /\ <<"claim", c>> \in Threads /\ <<"claim", c>> \in Keys
  BY ThreadOf
<1>i. IdleClaim \in ClThread /\ ClWell(IdleClaim)
  BY ClusterAssumption DEF IdleClaim, ClThread, ClPcs, ClWell
<1>g. ASSUME NEW pc \in {"create", "list", "bind", "got"}, clw[c].pc # "idle", ClGoto(c, pc)
      PROVE  ClwT'
  <2>1. pc \in ClPcs /\ pc \notin {"pick", "adopt"} /\ pc # "rdelete"
    BY DEF ClPcs
  <2>2. QED
    BY <1>g, <2>1, ClGotoType DEF TypeInv
<1>1. CASE ClGet(c)
  <2>1. ClwT'
    <3>1. CASE clw' = clw
      BY <3>1 DEF TypeInv, ClwT
    <3>2. CASE claims[c] # NoObject
      <4> DEFINE th == [IdleClaim EXCEPT !.o = claims[c],
                    !.pc = CASE ~claimExpired(claims[c]) -> "resolve"
                             [] claimExpired(claims[c])
                                /\ claims[c].shutdown \in {"Delete", "DeleteForeground"} -> "delete"
                             [] OTHER -> "retain"]
      <4>1. claims[c] \in Claim
        BY <3>2 DEF TypeInv, StoreT
      <4>2. th.pc \in {"resolve", "delete", "retain"} /\ th.o = claims[c]
        BY DEF IdleClaim
      <4>3. th \in ClThread
        BY <1>i, <4>1, <4>2 DEF IdleClaim, ClThread, ClPcs
      <4>4. clw' = [clw EXCEPT ![c] = th]
        BY <1>1, <3>2 DEF ClGet
      <4> HIDE DEF th
      <4>5. ClWell(th)
        BY <4>1, <4>2 DEF ClWell
      <4>6. QED
        BY <4>3, <4>4, <4>5, ClSet DEF TypeInv
    <3>3. QED
      BY <1>1, <3>1, <3>2 DEF ClGet
  <2>2. dirty' \subseteq Keys
    BY <1>1 DEF ClGet, Take, TypeInv, QueueT
  <2>3. QED
    BY <1>1, <2>1, <2>2
    DEF ClGet, TypeInv, StoreT, DockerT, QueueT, SbwT, PlwT, PvwT, HookT, CountT, Stored
<1>2. CASE ClDelete(c)
  <2>1. ClwT'
    BY <1>2, <1>i, ClSet DEF ClDelete, TypeInv
  <2>2. QED
    BY <1>2, <1>n, <2>1, DeleteClaimType
    DEF ClDelete, TypeInv, StoreT, DockerT, QueueT, SbwT, PlwT, PvwT, CountT, Stored
<1>3. CASE ClRetain(c)
  <2>1. ClwT'
    <3>1. CASE clw[c].o.sb # NoName /\ ClGoto(c, "rdelete")
      <4>1. clw[c].pc # "idle" /\ "rdelete" \in ClPcs
        BY <1>3 DEF ClRetain, At, ClPcs
      <4>2. clw[c].o.sb \in SbNames
        BY <1>o, <3>1, <4>1
      <4>3. QED
        BY <3>1, <4>1, <4>2, ClGotoType DEF TypeInv
    <3>2. CASE claimNotReady(c)
      BY <1>3, <3>2, NotReadyType DEF ClRetain, At, TypeInv
    <3>3. QED
      BY <1>3, <3>1, <3>2 DEF ClRetain
  <2>2. QED
    BY <1>3, <2>1
    DEF ClRetain, TypeInv, StoreT, DockerT, QueueT, SbwT, PlwT, PvwT, HookT, CountT, Stored
<1>4. CASE ClRetainDelete(c)
  <2>1. ClwT'
    BY <1>4, NotReadyType DEF ClRetainDelete, At, TypeInv
  <2>2. clw[c].o.sb \in SbNames /\ DeleteSandbox(<<"claim", c>>, clw[c].o.sb, {})
    BY <1>0, <1>4 DEF ClRetainDelete, At, ClWell
  <2>3. QED
    BY <1>4, <1>n, <2>1, <2>2, DeleteSandboxType
    DEF ClRetainDelete, TypeInv, StoreT, DockerT, SbwT, PlwT, PvwT, CountT
<1>5. CASE ClResolve(c)
  <2>1. ClwT'
    BY <1>5, <1>g, NotReadyType DEF ClResolve, At, TypeInv
  <2>2. QED
    BY <1>5, <2>1
    DEF ClResolve, TypeInv, StoreT, DockerT, QueueT, SbwT, PlwT, PvwT, HookT, CountT, Stored
<1>6. CASE ClBind(c)
  <2>1. ClwT'
    <3>0. clw[c].pc # "idle"
      BY <1>6 DEF ClBind, At
    <3>1. CASE clw[c].o.sb # NoName /\ ours(c, sandboxes[clw[c].o.sb]) /\ Mirror(c, clw[c].o.sb)
      <4>1. clw[c].o.sb \in SbNames /\ sandboxes[clw[c].o.sb] # NoObject
        BY <1>o, <3>0, <3>1 DEF ours
      <4>2. QED
        BY <3>0, <3>1, <4>1, MirrorType
    <3>2. CASE ClGoto(c, IF clw[c].o.cold THEN "create" ELSE "list")
      BY <1>g, <3>0, <3>2
    <3>3. QED
      BY <1>6, <3>1, <3>2 DEF ClBind
  <2>2. QED
    BY <1>6, <2>1
    DEF ClBind, TypeInv, StoreT, DockerT, QueueT, SbwT, PlwT, PvwT, HookT, CountT, Stored
<1>7. CASE ClList(c)
  <2>1. ClwT'
    <3>0. clw[c].pc # "idle"
      BY <1>7 DEF ClList, At
    <3>1. CASE ClGoto(c, "create")
      BY <1>g, <3>0, <3>1
    <3>2. ASSUME NEW n \in SbNames,
                 clw' = [clw EXCEPT ![c].pc = "pick", ![c].pick = n, ![c].tries = 0]
          PROVE  ClwT'
      <4> DEFINE th == [clw[c] EXCEPT !.pc = "pick", !.pick = n, !.tries = 0]
      <4>0. 0 \in 0..MaxAttempts /\ 0 < MaxAttempts
        BY ClusterAssumption
      <4>1. th \in ClThread /\ ClWell(th)
        BY <1>0, <3>0, <4>0 DEF ClThread, ClPcs, ClWell
      <4>2. clw' = [clw EXCEPT ![c] = th]
        BY <3>2, <1>0 DEF TypeInv, ClwT, ClThread
      <4> HIDE DEF th
      <4>3. QED
        BY <4>1, <4>2, ClSet DEF TypeInv
    <3>3. QED
      BY <1>7, <3>1, <3>2 DEF ClList, Members
  <2>2. QED
    BY <1>7, <2>1
    DEF ClList, TypeInv, StoreT, DockerT, QueueT, SbwT, PlwT, PvwT, HookT, CountT, Stored
<1>8. CASE ClPick(c)
  <2>1. ClwT'
    <3>0. clw[c].pc = "pick"
      BY <1>8 DEF ClPick, At
    <3>1. CASE ClGoto(c, "create")
      BY <1>g, <3>0, <3>1
    <3>2. CASE ClGoto(c, "adopt")
      <4>1. "adopt" \in ClPcs /\ clw[c].pick \in SbNames /\ clw[c].tries < MaxAttempts
        BY <1>0, <3>0 DEF ClPcs, ClWell
      <4>2. QED
        BY <3>0, <3>2, <4>1, ClGotoType DEF TypeInv
    <3>3. QED
      BY <1>8, <3>1, <3>2 DEF ClPick
  <2>2. fresh' \subseteq ClaimNames
    BY <1>8 DEF ClPick, TypeInv, QueueT
  <2>3. QED
    BY <1>8, <2>1, <2>2
    DEF ClPick, TypeInv, StoreT, DockerT, QueueT, SbwT, PlwT, PvwT, HookT, CountT, Stored
<1>9. CASE ClAdopt(c)
  <2> DEFINE n == clw[c].pick
  <2>0. clw[c].pc = "adopt" /\ n \in SbNames /\ clw[c].tries < MaxAttempts
    BY <1>0, <1>9 DEF ClAdopt, At, ClWell
  <2> HIDE DEF n
  <2>1. CASE /\ UpdateAccepts(c, n)
             /\ PutSandbox(n, [sandboxes[n] EXCEPT !.owner = claimRef(clw[c].o, c)])
             /\ Mirror(c, n)
    <3>1. sandboxes[n] \in Sandbox /\ sandboxes[n] # NoObject
      BY <2>0, <2>1 DEF UpdateAccepts, TypeInv, StoreT
    <3>2. claimRef(clw[c].o, c) \in Owners
      BY <1>o, <2>0 DEF claimRef, Owners
    <3>3. [sandboxes[n] EXCEPT !.owner = claimRef(clw[c].o, c)] \in Sandbox
      BY <3>1, <3>2 DEF Sandbox
    <3>4. ClwT'
      BY <2>0, <2>1, <3>1, MirrorType
    <3>5. QED
      BY <1>9, <2>0, <2>1, <3>3, <3>4, PutType
      DEF ClAdopt, TypeInv, StoreT, DockerT, SbwT, PlwT, PvwT, HookT, CountT
  <2>2. CASE /\ clw' = [clw EXCEPT ![c].tries = @ + 1,
                          ![c].pc = IF RetryAgain(clw[c].tries) THEN "pick" ELSE "create"]
             /\ UNCHANGED <<sandboxes, dirty, fresh>>
    <3> DEFINE th == [clw[c] EXCEPT !.tries = @ + 1,
                          !.pc = IF RetryAgain(clw[c].tries) THEN "pick" ELSE "create"]
    <3>1. clw[c].tries \in Nat /\ clw[c].tries + 1 \in 0..MaxAttempts /\ MaxAttempts \in Nat
      BY <1>0, <2>0, ClusterAssumption DEF ClThread
    <3>2. th \in ClThread
      BY <1>0, <3>1 DEF ClThread, ClPcs
    <3>3. ClWell(th)
      BY <1>0, <2>0, <3>1 DEF ClThread, ClWell, RetryAgain, n
    <3>4. clw' = [clw EXCEPT ![c] = th]
      BY <2>2, <1>0 DEF TypeInv, ClwT, ClThread
    <3> HIDE DEF th
    <3>5. ClwT'
      BY <3>2, <3>3, <3>4, ClSet DEF TypeInv
    <3>6. QED
      BY <1>9, <2>2, <3>5
      DEF ClAdopt, TypeInv, StoreT, DockerT, QueueT, SbwT, PlwT, PvwT, HookT, CountT, Stored
  <2>3. CASE ClGoto(c, "create") /\ UNCHANGED <<sandboxes, dirty, fresh>>
    <3>1. ClwT'
      BY <1>g, <2>0, <2>3
    <3>2. QED
      BY <1>9, <2>3, <3>1
      DEF ClAdopt, TypeInv, StoreT, DockerT, QueueT, SbwT, PlwT, PvwT, HookT, CountT, Stored
  <2>4. QED
    BY <1>9, <2>1, <2>2, <2>3 DEF ClAdopt, n
<1>10. CASE ClCreate(c)
  <2>0. clw[c].pc # "idle"
    BY <1>10 DEF ClCreate, At
  <2> DEFINE o == [uid |-> lastUID + 1, owner |-> claimRef(clw[c].o, c), mode |-> "Running",
                   shutdown |-> "none", due |-> FALSE, st |-> NoConditions]
  <2>1. CASE PutSandbox(c, o) /\ lastUID' = lastUID + 1 /\ ClStatus(c, c, FALSE, FALSE)
    <3>1. claimRef(clw[c].o, c) \in Owners
      BY <1>o, <2>0 DEF claimRef, Owners
    <3>2. o \in Sandbox
      BY <3>1, ConditionsType DEF Sandbox, Policies, TypeInv, StoreT
    <3>3. ClwT'
      BY <1>n, <2>0, <2>1, ClStatusType DEF TypeInv
    <3> HIDE DEF o
    <3>4. QED
      BY <1>10, <1>n, <2>1, <3>2, <3>3, PutType
      DEF ClCreate, TypeInv, StoreT, DockerT, SbwT, PlwT, PvwT, HookT, CountT
  <2>2. CASE ClGoto(c, "got") /\ UNCHANGED <<sandboxes, dirty, fresh, lastUID>>
    <3>1. ClwT'
      BY <1>g, <2>0, <2>2
    <3>2. QED
      BY <1>10, <2>2, <3>1
      DEF ClCreate, TypeInv, StoreT, DockerT, QueueT, SbwT, PlwT, PvwT, HookT, CountT, Stored
  <2>3. QED
    BY <1>10, <2>1, <2>2 DEF ClCreate
<1>11. CASE ClGot(c)
  <2>1. ClwT'
    BY <1>11, <1>n, MirrorType, NotReadyType DEF ClGot, At, ours, TypeInv
  <2>2. QED
    BY <1>11, <2>1
    DEF ClGot, TypeInv, StoreT, DockerT, QueueT, SbwT, PlwT, PvwT, HookT, CountT, Stored
<1>12. CASE writeClaimStatus(c)
  <2>1. ClwT'
    BY <1>12, <1>i, ClSet DEF writeClaimStatus, TypeInv
  <2>2. claims' \in [ClaimNames -> Claim \cup {NoObject}]
    <3>1. CASE claims[c] # NoObject
      <4> DEFINE o == [claims[c] EXCEPT !.sb = clw[c].sb, !.ready = clw[c].ready,
                       !.finished = clw[c].finished,
                       !.ttl = IF @ = "passed" /\ ~clw[c].finished THEN "set" ELSE @]
      <4>1. claims[c] \in Claim
        BY <3>1 DEF TypeInv, StoreT
      <4>2. o \in Claim
        BY <1>0, <4>1 DEF Claim, ClThread
      <4>3. claims' = [claims EXCEPT ![c] = o]
        BY <1>12, <3>1, <4>1 DEF writeClaimStatus, TypeInv, StoreT, Claim
      <4> HIDE DEF o
      <4>4. QED
        BY <4>2, <4>3 DEF TypeInv, StoreT
    <3>2. QED
      BY <1>12, <3>1 DEF writeClaimStatus, TypeInv, StoreT
  <2>3. QED
    BY <1>12, <1>n, <2>1, <2>2
    DEF writeClaimStatus, TypeInv, StoreT, DockerT, QueueT, SbwT, PlwT, PvwT, HookT, CountT, Stored
<1>13. QED
  BY <1>1, <1>2, <1>3, <1>4, <1>5, <1>6, <1>7, <1>8, <1>9, <1>10, <1>11, <1>12 DEF ClaimStep

----------------------------------------------------------------------------
(* The warm pool controller.                                               *)

\* The members of a pool are finitely many.
LEMMA MembersFinite ==
  ASSUME TypeInv, NEW p
  PROVE  IsFiniteSet(Members(p)) /\ Cardinality(Members(p)) \in Nat
<1>1. Members(p) \in SUBSET Stored
  BY DEF Members, ownedBy, Stored
<1>2. QED
  BY <1>1, FS_Subset, FS_CardinalityType DEF TypeInv, StoreT

\* One step of reconcileWarmPool keeps everything well typed.
LEMMA PoolType ==
  ASSUME TypeInv, NEW p \in PoolNames, PoolStep(p)
  PROVE  TypeInv'
<1> USE DEF outside, storage, PlFrame
<1>0. plw[p] \in PlThread
      /\ (plw[p].pc # "idle" => plw[p].o \in Pool /\ plw[p].o.uid \in Nat
                                 /\ plw[p].o.replicas \in Nat)
      /\ (plw[p].pc = "create" => plw[p].left # 0)
  BY DEF TypeInv, PlwT, Pool
<1>n. <<"pool", p>> \in Threads /\ <<"pool", p>> \in Keys
  BY ThreadOf
<1>i. IdlePool \in PlThread /\ IdlePool.pc = "idle"
  BY DEF IdlePool, PlThread
<1>1. CASE PlGet(p)
  <2>1. PlwT'
    <3>1. CASE plw' = plw
      BY <3>1 DEF TypeInv, PlwT
    <3>2. CASE pools[p] # NoObject
      <4> DEFINE th == [IdlePool EXCEPT !.pc = "list", !.o = pools[p]]
      <4>1. pools[p] \in Pool
        BY <3>2 DEF TypeInv, StoreT
      <4>2. th \in PlThread /\ th.o \in Pool /\ th.pc = "list"
        BY <4>1 DEF IdlePool, PlThread
      <4>3. plw' = [plw EXCEPT ![p] = th]
        BY <1>1, <3>2 DEF PlGet
      <4> HIDE DEF th
      <4>4. QED
        BY <4>2, <4>3, PlSet DEF TypeInv
    <3>3. QED
      BY <1>1, <3>1, <3>2 DEF PlGet
  <2>2. dirty' \subseteq Keys
    BY <1>1 DEF PlGet, Take, TypeInv, QueueT
  <2>3. QED
    BY <1>1, <2>1, <2>2
    DEF PlGet, TypeInv, StoreT, DockerT, QueueT, SbwT, ClwT, PvwT, HookT, CountT, Stored
<1>2. CASE PlList(p)
  <2> DEFINE mine == Mine(p)
             have == Cardinality(mine)
             want == plw[p].o.replicas
  <2>0. have \in Nat /\ want \in Nat /\ mine \in SUBSET SbNames
    BY <1>0, <1>2, MembersFinite DEF PlList, Mine, Members
  <2> HIDE DEF have, want, mine
  <2>1. PlwT'
    <3>1. CASE have < want /\ plw' = [plw EXCEPT ![p].pc = "create", ![p].left = want - have]
      <4> DEFINE d == want - have
                 th == [plw[p] EXCEPT !.pc = "create", !.left = d]
      <4>0. d \in Nat /\ d # 0
        BY <2>0, <3>1
      <4>1. plw[p].o \in Pool
        BY <1>0, <1>2 DEF PlList
      <4> HIDE DEF d
      <4>2. th.o = plw[p].o /\ th.left = d
        BY <1>0 DEF PlThread
      <4>3. th \in PlThread
        BY <1>0, <4>0 DEF PlThread
      <4>4. plw' = [plw EXCEPT ![p] = th]
        BY <3>1, <1>0 DEF TypeInv, PlwT, PlThread, d
      <4> HIDE DEF th
      <4>5. QED
        BY <4>0, <4>1, <4>2, <4>3, <4>4, PlSet DEF TypeInv
    <3>2. CASE plw' = [plw EXCEPT ![p].pc = "status"]
      <4> DEFINE th == [plw[p] EXCEPT !.pc = "status"]
      <4>1. th \in PlThread /\ th.o \in Pool /\ th.pc = "status"
        BY <1>0, <1>2 DEF PlList, PlThread
      <4>2. plw' = [plw EXCEPT ![p] = th]
        BY <3>2, <1>0 DEF TypeInv, PlwT, PlThread
      <4> HIDE DEF th
      <4>3. QED
        BY <4>1, <4>2, PlSet DEF TypeInv
    <3>3. QED
      BY <1>2, <3>1, <3>2 DEF PlList, have, want, mine
  <2>2. HookT'
    <3>1. CASE UNCHANGED hook
      BY <3>1 DEF TypeInv, HookT
    <3>2. ASSUME NEW s \in Excess(mine, have - want),
                 hook' = [hook EXCEPT ![<<"pool", p>>] =
                            [NoHook EXCEPT !.pc = "pdelete", !.todo = s]]
          PROVE  HookT'
      <4> DEFINE h == [NoHook EXCEPT !.pc = "pdelete", !.todo = s]
      <4>1. s \in SUBSET SbNames
        BY <2>0 DEF Excess
      <4>2. h \in Hook /\ HookWell(h)
        BY <4>1 DEF NoHook, Hook, HookWell, HookPcs
      <4>3. hook' = [hook EXCEPT ![<<"pool", p>>] = h]
        BY <3>2
      <4> HIDE DEF h
      <4>4. QED
        BY <1>n, <4>2, <4>3, HookSet DEF TypeInv
    <3>3. QED
      BY <1>2, <3>1, <3>2 DEF PlList, have, want, mine
  <2>3. QED
    BY <1>2, <2>1, <2>2
    DEF PlList, TypeInv, StoreT, DockerT, QueueT, SbwT, ClwT, PvwT, CountT, Stored
<1>3. CASE PlCreate(p)
  <2> DEFINE o == [uid |-> lastUID + 1,
                   owner |-> [kind |-> "pool", name |-> p, uid |-> plw[p].o.uid],
                   mode |-> "Running", shutdown |-> "none", due |-> FALSE,
                   st |-> NoConditions]
  <2>1. PICK n \in WarmNames : PutSandbox(n, o)
    BY <1>3 DEF PlCreate
  <2>2. n \in SbNames /\ lastUID' \in Nat
    BY <1>3 DEF PlCreate, SbNames, TypeInv, StoreT
  <2>3. o \in Sandbox
    <3>1. [kind |-> "pool", name |-> p, uid |-> plw[p].o.uid] \in Owners
      BY <1>0, <1>3 DEF PlCreate, Owners
    <3>2. QED
      BY <3>1, ConditionsType DEF Sandbox, Policies, TypeInv, StoreT
  <2> HIDE DEF o
  <2>4. PlwT'
    <3> DEFINE th == [plw[p] EXCEPT !.left = @ - 1,
                        !.pc = IF Last(plw[p].left) THEN "status" ELSE "create"]
    <3>1. plw[p].left \in Nat /\ plw[p].left # 0
      BY <1>0, <1>3 DEF PlCreate, PlThread
    <3>2. th \in PlThread /\ th.o \in Pool /\ (th.pc = "create" => th.left # 0)
      <4>1. plw[p].left - 1 \in Nat /\ (~Last(plw[p].left) => plw[p].left - 1 # 0)
        BY <3>1 DEF Last
      <4>2. plw[p].o \in Pool
        BY <1>0, <1>3 DEF PlCreate
      <4>3. QED
        BY <1>0, <4>1, <4>2 DEF PlThread
    <3>3. plw' = [plw EXCEPT ![p] = th]
      BY <1>3, <1>0 DEF PlCreate, TypeInv, PlwT, PlThread
    <3> HIDE DEF th
    <3>4. QED
      BY <3>2, <3>3, PlSet DEF TypeInv
  <2>5. QED
    BY <1>3, <2>1, <2>2, <2>3, <2>4, PutType
    DEF PlCreate, TypeInv, StoreT, DockerT, SbwT, ClwT, PvwT, HookT, CountT
<1>4. CASE writeWarmPoolStatus(p)
  <2>1. PlwT'
    BY <1>4, <1>i, PlSet DEF writeWarmPoolStatus, TypeInv
  <2>2. QED
    BY <1>4, <1>n, <2>1
    DEF writeWarmPoolStatus, TypeInv, StoreT, DockerT, QueueT, SbwT, ClwT, PvwT, HookT, CountT, Stored
<1>5. QED
  BY <1>1, <1>2, <1>3, <1>4 DEF PoolStep

----------------------------------------------------------------------------
(* The PVC controller and the collectors.                                  *)

\* One step of reconcilePVC keeps everything well typed.
LEMMA PVCType ==
  ASSUME TypeInv, NEW v \in PVCNames, PVCStep(v)
  PROVE  TypeInv'
<1> USE DEF outside, PvFrame
<1>0. pvw[v] \in PvThread
  BY DEF TypeInv, PvwT
<1>n. <<"pvc", v>> \in Keys
  BY ThreadOf
<1>1. CASE PvGet(v)
  <2>1. PvwT'
    <3>1. CASE pvcs[v] # NoObject
      <4>1. pvcs[v].phase \in Phases
        BY <3>1 DEF TypeInv, StoreT, PVC, Phases
      <4>2. QED
        BY <1>1, <3>1, <4>1 DEF PvGet, TypeInv, PvwT, PvThread, IdlePVC, Phases
    <3>2. QED
      BY <1>1, <3>1 DEF PvGet, TypeInv, PvwT
  <2>2. dirty' \subseteq Keys
    BY <1>1 DEF PvGet, Take, TypeInv, QueueT
  <2>3. QED
    BY <1>1, <2>1, <2>2
    DEF PvGet, TypeInv, StoreT, DockerT, QueueT, SbwT, ClwT, PlwT, HookT, CountT, Stored
<1>2. CASE PvEnsure(v)
  <2>1. PvwT'
    BY <1>2, <1>0 DEF PvEnsure, TypeInv, PvwT, PvThread, Phases
  <2>2. volumes' \in [PVCNames -> Volume]
    BY <1>2 DEF PvEnsure, EnsureVolume, TypeInv, DockerT, Volume
  <2>3. dirty' \subseteq Keys /\ faults' \in 0..MaxFaults
    BY <1>2, <1>n, FailCounts DEF PvEnsure, TypeInv, QueueT, CountT
  <2>4. QED
    BY <1>2, <2>1, <2>2, <2>3
    DEF PvEnsure, TypeInv, StoreT, DockerT, QueueT, SbwT, ClwT, PlwT, HookT, CountT, Stored
<1>3. CASE writePVCStatus(v)
  <2>1. PvwT'
    BY <1>3 DEF writePVCStatus, TypeInv, PvwT, PvThread, IdlePVC, Phases
  <2>2. pvcs' \in [PVCNames -> PVC \cup {NoObject}]
    <3>1. pvw[v].phase \in Phases
      BY <1>0 DEF PvThread
    <3>2. pvcs[v] \in PVC => [pvcs[v] EXCEPT !.phase = pvw[v].phase] \in PVC
      BY <3>1 DEF PVC, Phases
    <3>3. QED
      BY <1>3, <3>2 DEF writePVCStatus, TypeInv, StoreT
  <2>3. dirty' \subseteq Keys
    BY <1>3, <1>n DEF writePVCStatus, TypeInv, QueueT
  <2>4. QED
    BY <1>3, <2>1, <2>2, <2>3
    DEF writePVCStatus, TypeInv, StoreT, DockerT, QueueT, SbwT, ClwT, PlwT, HookT, CountT, Stored
<1>4. QED
  BY <1>1, <1>2, <1>3 DEF PVCStep

\* One step of a collector keeps everything well typed.
LEMMA SweepType ==
  ASSUME TypeInv, SweepStep
  PROVE  TypeInv'
<1> USE DEF SweepFrame
<1>0. sweep \in Sweep
  BY DEF TypeInv, DockerT
<1>f. Fail => faults' \in 0..MaxFaults
  BY FailCounts DEF TypeInv
<1>c. ASSUME NEW id \in sweep.todo, NEW r \in {id, 0}
      PROVE  [sweep EXCEPT !.todo = @ \ {id}, !.rm = r] \in Sweep
  <2>1. id \in Nat /\ r \in Nat /\ sweep.todo \ {id} \in SUBSET Nat
    BY <1>0 DEF Sweep
  <2>2. QED
    BY <1>0, <2>1 DEF Sweep
<1>1. CASE BootLook
  <2>1. sweep' \in Sweep
    BY <1>1, <1>c, SweepToType DEF BootLook
  <2>2. QED
    BY <1>1, <2>1
    DEF BootLook, TypeInv, StoreT, DockerT, QueueT, SbwT, ClwT, PlwT, PvwT, HookT, CountT, Stored
<1>2. CASE GcLook
  <2>1. sweep' \in Sweep
    BY <1>2, <1>c, SweepToType DEF GcLook
  <2>2. faults' \in 0..MaxFaults
    BY <1>2, <1>f DEF GcLook, TypeInv, CountT
  <2>3. QED
    BY <1>2, <2>1, <2>2
    DEF GcLook, TypeInv, StoreT, DockerT, QueueT, SbwT, ClwT, PlwT, PvwT, HookT, CountT, Stored
<1>3. CASE SweepRemove
  <2>1. [sweep EXCEPT !.rm = 0] \in Sweep
    BY <1>0 DEF Sweep
  <2>2. sweep' \in Sweep
    BY <1>3, <2>1, SweepToType DEF SweepRemove
  <2>3. QED
    BY <1>3, <2>2, RemoveType
    DEF SweepRemove, TypeInv, StoreT, DockerT, QueueT, SbwT, ClwT, PlwT, PvwT, HookT, CountT, Stored
<1>4. CASE PurgeContainer
  <2>1. PICK id \in sweep.todo : RemoveQuietly(id) /\ sweep' = [sweep EXCEPT !.todo = @ \ {id}]
    BY <1>4 DEF PurgeContainer
  <2>2. sweep' \in Sweep
    BY <1>0, <2>1 DEF Sweep
  <2>3. QED
    BY <1>4, <2>1, <2>2, RemoveType
    DEF PurgeContainer, TypeInv, StoreT, DockerT, QueueT, SbwT, ClwT, PlwT, PvwT, HookT, CountT, Stored
<1>5. CASE ListManagedVolumes
  <2>1. [NoSweep EXCEPT !.mode = "volumes",
                        !.vols = {v \in PVCNames : volumes[v] = "labelled"}] \in Sweep
    BY DEF NoSweep, Sweep
  <2>2. sweep' \in Sweep
    BY <1>5, <2>1, SweepToType DEF ListManagedVolumes
  <2>3. QED
    BY <1>5, <2>2
    DEF ListManagedVolumes, TypeInv, StoreT, DockerT, QueueT, SbwT, ClwT, PlwT, PvwT, HookT, CountT, Stored
<1>6. CASE PurgeVolume
  <2>1. PICK v \in sweep.vols : RemoveVolume(v) /\ SweepTo([sweep EXCEPT !.vols = @ \ {v}])
    BY <1>6 DEF PurgeVolume
  <2>2. [sweep EXCEPT !.vols = @ \ {v}] \in Sweep
    BY <1>0 DEF Sweep
  <2>3. sweep' \in Sweep
    BY <2>1, <2>2, SweepToType
  <2>4. QED
    BY <1>6, <2>1, <2>3, RemoveVolumeType
    DEF PurgeVolume, TypeInv, StoreT, DockerT, QueueT, SbwT, ClwT, PlwT, PvwT, HookT, CountT, Stored
<1>7. QED
  BY <1>1, <1>2, <1>3, <1>4, <1>5, <1>6 DEF SweepStep

----------------------------------------------------------------------------
(* Users, the environment, Docker and crashes.                             *)

\* A container's state changes: it is a container still.
LEMMA ReplaceType ==
  ASSUME TypeInv, NEW c \in containers, NEW state \in {"running", "serving", "exited"},
         containers' = Replace(c, state)
  PROVE  containers' \subseteq Container
  BY DEF Replace, TypeInv, DockerT, Container

\* What a collector lists are ids.
LEMMA ListedType ==
  ASSUME TypeInv, NEW mode \in {"boot", "gc", "purge"}
  PROVE  Listed(mode) \in Sweep
<1>1. {c.id : c \in containers} \in SUBSET Nat
  BY DEF TypeInv, DockerT, Container
<1>2. QED
  BY <1>1 DEF Listed, NoSweep, Sweep

\* One operation of a user keeps everything well typed.
LEMMA UserType ==
  ASSUME TypeInv, User
  PROVE  TypeInv'
<1> USE DEF Op, ApiOp
<1>u. lastUID + 1 \in Nat \ {0}
  BY DEF TypeInv, StoreT
<1>o. ASSUME ops < MaxOps, ops' = ops + 1
      PROVE  ops' \in 0..MaxOps
  BY <1>o, ClusterAssumption DEF TypeInv, CountT
<1>l. \A mode \in {"gc", "purge"} : Listed(mode) \in Sweep
  BY ListedType
<1>1. ASSUME NEW c \in ClaimNames, NEW p \in PoolNames, NEW cold \in BOOLEAN,
             NEW policy \in UserPolicies, CreateClaim(c, p, cold, policy)
      PROVE  TypeInv'
  <2> DEFINE o == [uid |-> lastUID + 1, pool |-> p, cold |-> cold,
                  shutdown |-> policy, due |-> FALSE,
                  ttl |-> IF "ttl" \in UserOps THEN "set" ELSE "none",
                  sb |-> NoName, ready |-> FALSE, finished |-> FALSE]
  <2>1. o \in Claim
    BY <1>u, ControlPlaneAssumption DEF Claim
  <2>2. claims' = [claims EXCEPT ![c] = o]
    BY <1>1 DEF CreateClaim
  <2> HIDE DEF o
  <2>3. claims' \in [ClaimNames -> Claim \cup {NoObject}] /\ lastUID' \in Nat /\ dirty' \subseteq Keys
    BY <1>1, <1>u, <2>1, <2>2, ThreadOf, ZenonT(40) DEF CreateClaim, TypeInv, StoreT, QueueT
  <2>4. QED
    BY <1>1, <1>o, <2>3
    DEF CreateClaim, TypeInv, StoreT, DockerT, QueueT, SbwT, ClwT, PlwT, PvwT, HookT, CountT, Stored
<1>2. ASSUME NEW t \in Threads, NEW c \in ClaimNames, ApiDeleteClaim(t, c)
      PROVE  TypeInv'
  BY <1>2, <1>o, DeleteClaimType
  DEF ApiDeleteClaim, TypeInv, StoreT, DockerT, QueueT, SbwT, ClwT, PlwT, PvwT, CountT, Stored
<1>3. ASSUME NEW t \in Threads, NEW n \in SbNames, ApiDeleteSandbox(t, n)
      PROVE  TypeInv'
  BY <1>3, <1>o, DeleteSandboxType
  DEF ApiDeleteSandbox, TypeInv, StoreT, DockerT, SbwT, ClwT, PlwT, PvwT, CountT
<1>4. ASSUME NEW t \in Threads, NEW p \in PoolNames, ApiDeletePool(t, p)
      PROVE  TypeInv'
  <2> DEFINE h == [NoHook EXCEPT !.pc = "plist", !.name = p]
  <2>1. h \in Hook /\ HookWell(h)
    BY DEF NoHook, Hook, HookWell, HookPcs
  <2>2. hook' = [hook EXCEPT ![t] = h]
    BY <1>4 DEF ApiDeletePool
  <2> HIDE DEF h
  <2>3. HookT'
    BY <2>1, <2>2, HookSet DEF TypeInv
  <2>4. pools' \in [PoolNames -> Pool \cup {NoObject}] /\ dirty' \subseteq Keys
    BY <1>4, ThreadOf DEF ApiDeletePool, TypeInv, StoreT, QueueT
  <2>5. QED
    BY <1>4, <1>o, <2>3, <2>4
    DEF ApiDeletePool, TypeInv, StoreT, DockerT, QueueT, SbwT, ClwT, PlwT, PvwT, CountT, Stored
<1>5. ASSUME NEW t \in Threads, NEW v \in PVCNames, ApiDeletePVC(t, v)
      PROVE  TypeInv'
  <2> DEFINE h == [hook[t] EXCEPT !.pc = "volume", !.pv = v]
  <2>1. hook[t] \in Hook
    BY DEF TypeInv, HookT
  <2>2. h \in Hook /\ HookWell(h)
    BY <2>1 DEF Hook, HookWell, HookPcs
  <2>3. hook' = [hook EXCEPT ![t] = h]
    BY <1>5, <2>1 DEF ApiDeletePVC, DeletePVC, TypeInv, HookT, Hook
  <2> HIDE DEF h
  <2>4. HookT'
    BY <2>2, <2>3, HookSet DEF TypeInv
  <2>5. pvcs' \in [PVCNames -> PVC \cup {NoObject}] /\ dirty' \subseteq Keys
    BY <1>5, ThreadOf DEF ApiDeletePVC, DeletePVC, TypeInv, StoreT, QueueT
  <2>6. QED
    BY <1>5, <1>o, <2>4, <2>5
    DEF ApiDeletePVC, TypeInv, StoreT, DockerT, QueueT, SbwT, ClwT, PlwT, PvwT, CountT, Stored
<1>6. ASSUME NEW p \in PoolNames, CreatePool(p)
      PROVE  TypeInv'
  <2>1. [uid |-> lastUID + 1, replicas |-> InitReplicas] \in Pool
    BY <1>u, ControlPlaneAssumption DEF Pool
  <2>2. pools' \in [PoolNames -> Pool \cup {NoObject}] /\ lastUID' \in Nat /\ dirty' \subseteq Keys
    BY <1>6, <1>u, <2>1, ThreadOf DEF CreatePool, TypeInv, StoreT, QueueT
  <2>3. QED
    BY <1>6, <1>o, <2>2
    DEF CreatePool, TypeInv, StoreT, DockerT, QueueT, SbwT, ClwT, PlwT, PvwT, HookT, CountT, Stored
<1>7. ASSUME NEW p \in PoolNames, NEW r \in 0..InitReplicas, ScalePool(p, r)
      PROVE  TypeInv'
  <2>1. pools[p] \in Pool
    BY <1>7 DEF ScalePool, TypeInv, StoreT
  <2>2. [pools[p] EXCEPT !.replicas = r] \in Pool
    BY <2>1, ControlPlaneAssumption DEF Pool
  <2>3. pools' \in [PoolNames -> Pool \cup {NoObject}] /\ dirty' \subseteq Keys
    BY <1>7, <2>2, ThreadOf DEF ScalePool, TypeInv, StoreT, QueueT
  <2>4. QED
    BY <1>7, <1>o, <2>3
    DEF ScalePool, TypeInv, StoreT, DockerT, QueueT, SbwT, ClwT, PlwT, PvwT, HookT, CountT, Stored
<1>8. CASE ToggleTemplate
  BY <1>8, <1>o
  DEF ToggleTemplate, TypeInv, StoreT, DockerT, QueueT, SbwT, ClwT, PlwT, PvwT, HookT, CountT, Stored
<1>9. ASSUME NEW n \in BareNames, NEW policy \in UserPolicies, CreateSandbox(n, policy)
      PROVE  TypeInv'
  <2> DEFINE o == [uid |-> lastUID + 1, owner |-> NoOwner, mode |-> "Running",
                    shutdown |-> policy, due |-> FALSE, st |-> NoConditions]
  <2>1. n \in SbNames /\ o \in Sandbox
    BY <1>u, ControlPlaneAssumption, ConditionsType DEF SbNames, Sandbox
  <2>2. PutSandbox(n, o) /\ lastUID' \in Nat
    BY <1>9, <1>u DEF CreateSandbox
  <2> HIDE DEF o
  <2>3. QED
    BY <1>9, <1>o, <2>1, <2>2, PutType
    DEF CreateSandbox, TypeInv, StoreT, DockerT, SbwT, ClwT, PlwT, PvwT, HookT, CountT
<1>10. ASSUME NEW n \in SbNames, SetMode(n)
       PROVE  TypeInv'
  <2> DEFINE o == [sandboxes[n] EXCEPT !.mode = IF @ = "Running" THEN "Suspended" ELSE "Running"]
  <2>1. sandboxes[n] \in Sandbox
    BY <1>10 DEF SetMode, TypeInv, StoreT
  <2>2. o \in Sandbox
    BY <2>1 DEF Sandbox
  <2>3. PutSandbox(n, o)
    BY <1>10 DEF SetMode
  <2> HIDE DEF o
  <2>4. QED
    BY <1>10, <1>o, <2>2, <2>3, PutType
    DEF SetMode, TypeInv, StoreT, DockerT, SbwT, ClwT, PlwT, PvwT, HookT, CountT
<1>11. ASSUME NEW v \in PVCNames, CreatePVC(v)
       PROVE  TypeInv'
  <2>1. [uid |-> lastUID + 1, owner |-> 0, phase |-> "none"] \in PVC
    BY <1>u DEF PVC
  <2>2. pvcs' \in [PVCNames -> PVC \cup {NoObject}] /\ lastUID' \in Nat /\ dirty' \subseteq Keys
    BY <1>11, <1>u, <2>1, ThreadOf DEF CreatePVC, TypeInv, StoreT, QueueT
  <2>3. QED
    BY <1>11, <1>o, <2>2
    DEF CreatePVC, TypeInv, StoreT, DockerT, QueueT, SbwT, ClwT, PlwT, PvwT, HookT, CountT, Stored
<1>12. ASSUME NEW mode \in {"gc", "purge"}, StartSweep(mode)
       PROVE  TypeInv'
  <2>1. sweep' \in Sweep
    BY <1>12, <1>l, SweepToType DEF StartSweep
  <2>2. QED
    BY <1>12, <1>o, <2>1
    DEF StartSweep, TypeInv, StoreT, DockerT, QueueT, SbwT, ClwT, PlwT, PvwT, HookT, CountT, Stored
<1>13. CASE EventsEnd
  BY <1>13, <1>o
  DEF EventsEnd, TypeInv, StoreT, DockerT, QueueT, SbwT, ClwT, PlwT, PvwT, HookT, CountT, Stored
<1>14. CASE Expire
  <2>1. claims' \in [ClaimNames -> Claim \cup {NoObject}]
    <3>1. ASSUME NEW c \in ClaimNames, claims[c] # NoObject
          PROVE  /\ [claims[c] EXCEPT !.due = TRUE] \in Claim
                 /\ [claims[c] EXCEPT !.ttl = "passed"] \in Claim
      BY <3>1 DEF TypeInv, StoreT, Claim
    <3>2. QED
      BY <1>14, <3>1 DEF Expire, TypeInv, StoreT
  <2>2. /\ sandboxes' \in [SbNames -> Sandbox \cup {NoObject}]
        /\ Stored' = Stored
    <3>1. ASSUME NEW n \in SbNames, sandboxes[n] # NoObject
          PROVE  [sandboxes[n] EXCEPT !.due = TRUE] \in Sandbox
      BY <3>1 DEF TypeInv, StoreT, Sandbox
    <3>2. NoObject \notin Sandbox
      BY DEF NoObject, Sandbox
    <3>3. QED
      BY <1>14, <3>1, <3>2 DEF Expire, TypeInv, StoreT, Stored
  <2>3. dirty' \subseteq Keys
    BY <1>14, ThreadOf DEF Expire, TypeInv, QueueT
  <2>4. QED
    BY <1>14, <1>o, <2>1, <2>2, <2>3
    DEF Expire, TypeInv, StoreT, DockerT, QueueT, SbwT, ClwT, PlwT, PvwT, HookT, CountT
<1>15. ASSUME NEW c \in containers, ContainerExit(c)
       PROVE  TypeInv'
  <2>1. containers' \subseteq Container
    BY <1>15, ReplaceType DEF ContainerExit
  <2>2. dirty' \subseteq Keys
    BY <1>15, ThreadOf DEF ContainerExit, Notify, TypeInv, QueueT, DockerT, Container
  <2>3. QED
    BY <1>15, <1>o, <2>1, <2>2
    DEF ContainerExit, TypeInv, StoreT, DockerT, QueueT, SbwT, ClwT, PlwT, PvwT, HookT, CountT, Stored
<1>16. QED
  <2> HIDE DEF Op, ApiOp
  <2>1. \A x \in ApiThreads : <<"api", x>> \in Threads
    BY ThreadOf
  <2>2. QED
    BY <1>1, <1>2, <1>3, <1>4, <1>5, <1>6, <1>7, <1>8, <1>9, <1>10, <1>11, <1>12, <1>13, <1>14,
       <1>15, <2>1 DEF User

\* So does what Docker does by itself.
LEMMA ServeType ==
  ASSUME TypeInv, Serve
  PROVE  TypeInv'
<1> USE DEF DockerFrame, storage, outside
<1>1. PICK c \in containers : ContainerServe(c) \/ ChownEnds(c)
  BY DEF Serve
<1>2. containers' \subseteq Container
  BY <1>1, ReplaceType DEF ContainerServe, ChownEnds
<1>3. dirty' \subseteq Keys
  BY <1>1, ThreadOf DEF ContainerServe, ChownEnds, Notify, TypeInv, QueueT, DockerT, Container
<1>4. QED
  BY <1>1, <1>2, <1>3
  DEF ContainerServe, ChownEnds, TypeInv, StoreT, DockerT, QueueT, SbwT, ClwT, PlwT, PvwT, HookT,
      CountT, Stored

\* The threads of a process that has just started.
LEMMA IdleType ==
  /\ IdleSandbox \in SbThread /\ IdleSandbox.pc = "idle"
  /\ IdleClaim \in ClThread /\ ClWell(IdleClaim)
  /\ IdlePool \in PlThread /\ IdlePool.pc = "idle"
  /\ IdlePVC \in PvThread
  /\ NoHook \in Hook /\ HookWell(NoHook)
  /\ NoSweep \in Sweep
<1>1. IdleSandbox \in SbThread /\ IdleSandbox.pc = "idle"
  BY ConditionsType DEF IdleSandbox, SbThread, SbPcs
<1>2. IdleClaim \in ClThread /\ ClWell(IdleClaim)
  BY ClusterAssumption DEF IdleClaim, ClThread, ClPcs, ClWell
<1>3. IdlePool \in PlThread /\ IdlePool.pc = "idle"
  BY DEF IdlePool, PlThread
<1>4. IdlePVC \in PvThread
  BY DEF IdlePVC, PvThread, Phases
<1>5. NoHook \in Hook /\ HookWell(NoHook)
  BY DEF NoHook, Hook, HookWell, HookPcs
<1>6. NoSweep \in Sweep
  BY DEF NoSweep, Sweep
<1>7. QED
  BY <1>1, <1>2, <1>3, <1>4, <1>5, <1>6

\* A crash and the restart keep everything well typed.
LEMMA CrashType ==
  ASSUME TypeInv, Crash
  PROVE  TypeInv'
<1>1. SbwT' /\ ClwT' /\ PlwT' /\ PvwT' /\ HookT'
  BY IdleType DEF Crash, Idle, SbwT, ClwT, PlwT, PvwT, HookT
<1>2. QueueT'
  <2>1. \A n \in SbNames : sandboxes[n] # NoObject => SandboxKeys(n, sandboxes[n]) \subseteq Keys
    BY KeysOf DEF TypeInv, StoreT
  <2> DEFINE A == {SandboxKeys(n, sandboxes[n]) : n \in {m \in SbNames : sandboxes[m] # NoObject}}
             B == {<<"claim", c>> : c \in {d \in ClaimNames : claims[d] # NoObject}}
             C == {<<"pool", p>> : p \in {q \in PoolNames : pools[q] # NoObject}}
             D == {<<"pvc", v>> : v \in {u \in PVCNames : pvcs[u] # NoObject}}
  <2>2. UNION A \subseteq Keys
    BY <2>1
  <2>3. B \subseteq Keys /\ C \subseteq Keys /\ D \subseteq Keys
    BY ThreadOf
  <2>4. dirty' = (UNION A) \cup B \cup C \cup D /\ fresh' = {}
    BY DEF Crash, Idle
  <2> HIDE DEF A, B, C, D
  <2>5. QED
    BY <2>2, <2>3, <2>4 DEF QueueT
<1>3. DockerT'
  <2>1. Listed("boot") \in Sweep
    BY ListedType
  <2>2. QED
    BY <2>1, SweepToType DEF Crash, TypeInv, DockerT
<1>4. CountT'
  BY ClusterAssumption DEF Crash, TypeInv, CountT
<1>5. StoreT'
  BY DEF Crash, TypeInv, StoreT, Stored
<1>6. QED
  BY <1>1, <1>2, <1>3, <1>4, <1>5 DEF TypeInv

----------------------------------------------------------------------------
(* The theorem.                                                            *)

\* The invariant holds initially.
LEMMA InitType ==
  ASSUME Init
  PROVE  TypeInv
<1>0. Cardinality(PoolNames) \in Nat
  BY ControlPlaneAssumption, FS_CardinalityType
<1>1. pools \in [PoolNames -> Pool \cup {NoObject}]
  <2>1. PICK f \in [PoolNames -> 1..Cardinality(PoolNames)] :
          pools = [p \in PoolNames |-> [uid |-> f[p], replicas |-> InitReplicas]]
    BY DEF Init
  <2>2. \A p \in PoolNames : [uid |-> f[p], replicas |-> InitReplicas] \in Pool
    BY <1>0, ControlPlaneAssumption DEF Pool
  <2>3. QED
    BY <2>1, <2>2
<1>2. pvcs \in [PVCNames -> PVC \cup {NoObject}]
  <2>1. PICK made \in SUBSET UNION {PodPVCs[n] : n \in SbNames} :
          pvcs = [v \in PVCNames |-> IF v \notin made THEN NoObject
                   ELSE [uid |-> Cardinality(PoolNames) + 1, owner |-> 0, phase |-> "Bound"]]
    BY DEF Init
  <2>2. [uid |-> Cardinality(PoolNames) + 1, owner |-> 0, phase |-> "Bound"] \in PVC
    BY <1>0 DEF PVC
  <2>3. QED
    BY <2>1, <2>2
<1>3. StoreT
  <2>1. Stored = {}
    BY DEF Init, Stored
  <2>2. IsFiniteSet(Stored)
    BY <2>1, FS_EmptySet
  <2>3. QED
    BY <1>0, <1>1, <1>2, <2>2 DEF Init, StoreT
<1>4. DockerT
  BY IdleType DEF Init, DockerT, Volume
<1>5. SbwT /\ ClwT /\ PlwT /\ PvwT /\ HookT
  BY IdleType DEF Init, SbwT, ClwT, PlwT, PvwT, HookT
<1>6. QueueT /\ CountT
  BY ThreadOf, ClusterAssumption DEF Init, QueueT, CountT
<1>7. QED
  BY <1>3, <1>4, <1>5, <1>6 DEF TypeInv

\* Every step of the control plane keeps the invariant.
LEMMA NextType ==
  ASSUME TypeInv, [Next]_vars
  PROVE  TypeInv'
<1>1. CASE UNCHANGED vars
  BY <1>1 DEF vars, TypeInv, StoreT, DockerT, QueueT, SbwT, ClwT, PlwT, PvwT, HookT, CountT, Stored
<1>2. CASE Next
  BY <1>2, SandboxType, ClaimType, PoolType, HookType, PVCType, SweepType, UserType, ServeType,
     CrashType DEF Next
<1>3. QED
  BY <1>1, <1>2

\* The invariant of the threads, hooks, store and Docker that the other
\* theorems about the control plane rest on.
THEOREM TypesAndThreads == Spec => []TypeInv
  BY InitType, NextType, PTL DEF Spec

\* Every object, copy, hook, queue and list has its type in every reachable
\* state (the controllers, the hooks and the collectors of reconcile.go, app.go).
THEOREM ControlPlaneTypeCorrect == Spec => []TypeOK
<1>1. TypeInv => TypeOK
  BY DEF TypeInv, StoreT, DockerT, QueueT, SbwT, ClwT, PlwT, PvwT, HookT, CountT, Hook, TypeOK
<1>2. QED
  BY <1>1, TypesAndThreads, PTL
=============================================================================

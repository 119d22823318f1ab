--------------------------- MODULE ContainerProofs --------------------------
(***************************************************************************)
(* A sandbox's container and its PVCs, for every instance of ControlPlane: *)
(* there is one container where no one-shot container can be left behind,  *)
(* what a user created only a user deletes, no container is without the    *)
(* PVCs that its pod refers to, and a sandbox that says it is suspended    *)
(* has none.                                                               *)
(***************************************************************************)
EXTENDS OwnershipProofs

----------------------------------------------------------------------------
(* The inductive invariant.                                                *)

\* no failure has left the container of prepareVolumePermissions behind
Quiet(n) == faults = 0 \/ n \notin NonRoot \/ Mounts(n) = {}
Alone(n) == \A a, b \in OfSandbox(n) : a = b
\* between the inspection that found none and the creation there is none, but
\* for the one-shot container that the reconcile itself waits for
ContainerInv ==
  \A n \in SbNames :
    /\ sbw[n].pc \in {"prepare", "chown"} => n \in NonRoot /\ Mounts(n) # {}
    /\ Quiet(n) =>
         /\ Alone(n)
         /\ sbw[n].pc \in {"prepare", "create"} => OfSandbox(n) = {}
         /\ sbw[n].pc = "chown" => \A c \in OfSandbox(n) : c.id = sbw[n].id

----------------------------------------------------------------------------
(* What a step can do to the containers.                                   *)

\* no container of n appears, and those there are keep their ids
Held(n) ==
  /\ Alone(n) => Alone(n)'
  /\ \A c \in OfSandbox(n)' : \E d \in OfSandbox(n) : d.id = c.id

\* Containers that only go away are held.
LEMMA FewerHeld ==
  ASSUME NEW n, containers' \subseteq containers
  PROVE  Held(n)
  BY DEF Held, Alone, OfSandbox

\* A container that changes its state keeps its id and its name.
LEMMA ReplaceHeld ==
  ASSUME TypeInv, NEW n, NEW c \in containers, NEW state, containers' = Replace(c, state)
  PROVE  Held(n)
<1> DEFINE d == [c EXCEPT !.state = state]
<1>1. d.name = c.name /\ d.id = c.id
  BY DEF TypeInv, DockerT, Container
<1>2. containers' = (containers \ {c}) \cup {d}
  BY DEF Replace
<1> HIDE DEF d
<1>3. QED
  BY <1>1, <1>2 DEF Held, Alone, OfSandbox

\* A removal, also one that fails, is held.
LEMMA RemoveHeld ==
  ASSUME NEW n, NEW id, RemoveQuietly(id)
  PROVE  Held(n)
<1>1. containers' \subseteq containers
  BY DEF RemoveQuietly, Removed
<1>2. QED
  BY <1>1, FewerHeld

\* Only the reconcile of a sandbox creates containers for it.
LEMMA ContainersEffect ==
  ASSUME TypeInv, NEW n \in SbNames, [Next]_vars
  PROVE  Held(n) \/ SbPrepare(n) \/ SbCreate(n)
<1>0. CASE UNCHANGED containers
  BY <1>0, FewerHeld
<1>1. ASSUME NEW m \in SbNames, SandboxStep(m)
      PROVE  Held(n) \/ SbPrepare(n) \/ SbCreate(n)
  <2>1. CASE SbChown(m) \/ SbSuspendRemove(m) \/ SbExpireRemove(m)
    BY <2>1, RemoveHeld DEF SbChown, SbSuspendRemove, SbExpireRemove
  <2>2. CASE SbStart(m)
    <3>1. \/ containers' \subseteq containers
          \/ \E c \in containers, state \in {"running", "serving"} : containers' = Replace(c, state)
      BY <2>2 DEF SbStart
    <3>2. QED
      BY <3>1, FewerHeld, ReplaceHeld
  <2>3. CASE SbPrepare(m) \/ SbCreate(m)
    <3>1. CASE m = n
      BY <2>3, <3>1
    <3>2. CASE m # n
      <4>1. UNCHANGED containers
            \/ \E uid, state : containers' = containers \cup
                 {[id |-> lastUID + 1, name |-> m, uid |-> uid, state |-> state]}
        BY <2>3 DEF SbPrepare, SbCreate, ContainerCreate
      <4>2. OfSandbox(n)' = OfSandbox(n)
        BY <3>2, <4>1 DEF OfSandbox
      <4>3. QED
        BY <4>2 DEF Held, Alone
    <3>3. QED
      BY <3>1, <3>2
  <2>4. QED
    BY <1>0, <1>1, <2>1, <2>2, <2>3
    DEF SandboxStep, SbGet, SbOwner, SbDelete, ensureVCTPVCObject, SbPVC, SbEnsure, SbInspect,
        writeSandboxStatus, SbSuspend, SbExpire
<1>2. CASE \E c \in ClaimNames : ClaimStep(c)
  BY <1>0, <1>2, ZenonT(40)
  DEF ClaimStep, ClGet, ClDelete, ClRetain, ClRetainDelete, ClResolve, ClBind, ClList, ClPick,
      ClAdopt, ClCreate, ClGot, writeClaimStatus, ClFrame
<1>3. CASE \E t \in Threads : HookStep(t)
  BY <1>0, <1>3, RemoveHeld
  DEF HookStep, CascadeCheck, CascadeDelete, CascadeList, CascadeEach, CleanupInspect,
      CleanupRemove, CleanupPVC, CleanupDelete, CleanupVolume
<1>4. CASE (\E p \in PoolNames : PoolStep(p)) \/ (\E v \in PVCNames : PVCStep(v))
           \/ Crash \/ UNCHANGED vars
  BY <1>0, <1>4
  DEF PoolStep, PlGet, PlList, PlCreate, writeWarmPoolStatus, PlFrame, PVCStep, PvGet, PvEnsure,
      writePVCStatus, PvFrame, Crash, vars
<1>5. CASE Serve
  BY <1>5, ReplaceHeld DEF Serve, ContainerServe, ChownEnds
<1>6. CASE SweepStep
  BY <1>0, <1>6, RemoveHeld
  DEF SweepStep, BootLook, GcLook, SweepRemove, PurgeContainer, ListManagedVolumes, PurgeVolume
<1>7. CASE User
  <2>1. ASSUME NEW c \in containers, ContainerExit(c)
        PROVE  Held(n)
    BY <2>1, ReplaceHeld DEF ContainerExit
  <2>2. QED
    BY <1>0, <1>7, <2>1
    DEF User, CreateClaim, ApiDeleteClaim, ApiDeleteSandbox, ApiDeletePool, ApiDeletePVC,
        CreatePool, ScalePool, ToggleTemplate, CreateSandbox, SetMode, CreatePVC, StartSweep,
        EventsEnd, Expire
<1>8. QED
  BY <1>1, <1>2, <1>3, <1>4, <1>5, <1>6, <1>7 DEF Next

\* Only the reconcile of a sandbox changes its state, or a crash ends it.
LEMMA SandboxThreadEffect ==
  ASSUME TypeInv, NEW n \in SbNames, [Next]_vars
  PROVE  sbw'[n] = sbw[n] \/ SandboxStep(n) \/ (Crash /\ sbw'[n] = IdleSandbox)
<1>0. sbw \in [SbNames -> SbThread]
  BY DEF TypeInv, SbwT
<1>u. CASE UNCHANGED sbw
  BY <1>u
<1>1. ASSUME NEW m \in SbNames, SandboxStep(m), m # n
      PROVE  sbw'[n] = sbw[n]
  BY <1>0, <1>1
  DEF SandboxStep, SbGet, SbOwner, SbDelete, ensureVCTPVCObject, SbPVC, SbEnsure, SbInspect,
      SbPrepare, SbChown, SbCreate, SbStart, writeSandboxStatus, SbSuspend, SbSuspendRemove,
      SbExpire, SbExpireRemove, SbGoto, SbDone, SbRequeue, EachTemplate, ContainerCreate
<1>2. CASE \E c \in ClaimNames : ClaimStep(c)
  BY <1>u, <1>2, ZenonT(40)
  DEF ClaimStep, ClGet, ClDelete, ClRetain, ClRetainDelete, ClResolve, ClBind, ClList, ClPick,
      ClAdopt, ClCreate, ClGot, writeClaimStatus, ClFrame
<1>3. CASE \E t \in Threads : HookStep(t)
  BY <1>u, <1>3
  DEF HookStep, CascadeCheck, CascadeDelete, CascadeList, CascadeEach, CleanupInspect,
      CleanupRemove, CleanupPVC, CleanupDelete, CleanupVolume
<1>4. CASE (\E p \in PoolNames : PoolStep(p)) \/ (\E v \in PVCNames : PVCStep(v)) \/ Serve
           \/ SweepStep \/ UNCHANGED vars
  BY <1>u, <1>4
  DEF PoolStep, PlGet, PlList, PlCreate, writeWarmPoolStatus, PlFrame, PVCStep, PvGet, PvEnsure,
      writePVCStatus, PvFrame, Serve, ContainerServe, ChownEnds, DockerFrame, SweepStep, BootLook,
      GcLook, SweepRemove, PurgeContainer, ListManagedVolumes, PurgeVolume, SweepFrame, vars
<1>5. CASE User
  BY <1>u, <1>5
  DEF User, Op, ApiOp, CreateClaim, ApiDeleteClaim, ApiDeleteSandbox, ApiDeletePool, ApiDeletePVC,
      CreatePool, ScalePool, ToggleTemplate, CreateSandbox, SetMode, CreatePVC, StartSweep,
      EventsEnd, Expire, ContainerExit
<1>6. CASE Crash
  BY <1>6 DEF Crash, Idle
<1>7. QED
  BY <1>1, <1>2, <1>3, <1>4, <1>5, <1>6 DEF Next

\* Failures are counted and never forgotten.
LEMMA FaultsGrow ==
  ASSUME TypeInv, [Next]_vars
  PROVE  faults' = 0 => faults = 0
<1>0. faults \in Nat
  BY ClusterAssumption DEF TypeInv, CountT
<1>u. CASE UNCHANGED faults
  BY <1>u
<1>f. Fail => faults' # 0
  BY <1>0 DEF Fail
<1>1. CASE \E n \in SbNames : SandboxStep(n)
  BY <1>f, <1>1, ZenonT(40)
  DEF SandboxStep, SbGet, SbOwner, SbDelete, ensureVCTPVCObject, SbPVC, SbEnsure, SbInspect,
      SbPrepare, SbChown, SbCreate, SbStart, writeSandboxStatus, SbSuspend, SbSuspendRemove,
      SbExpire, SbExpireRemove, RemoveQuietly
<1>2. CASE \E c \in ClaimNames : ClaimStep(c)
  BY <1>u, <1>2, ZenonT(40)
  DEF ClaimStep, ClGet, ClDelete, ClRetain, ClRetainDelete, ClResolve, ClBind, ClList, ClPick,
      ClAdopt, ClCreate, ClGot, writeClaimStatus, ClFrame
<1>3. CASE \E t \in Threads : HookStep(t)
  BY <1>f, <1>3
  DEF HookStep, CascadeCheck, CascadeDelete, CascadeList, CascadeEach, CleanupInspect,
      CleanupRemove, CleanupPVC, CleanupDelete, CleanupVolume, RemoveQuietly, RemoveVolume
<1>4. CASE (\E p \in PoolNames : PoolStep(p)) \/ (\E v \in PVCNames : PVCStep(v)) \/ Serve
           \/ SweepStep \/ UNCHANGED vars
  BY <1>f, <1>4
  DEF PoolStep, PlGet, PlList, PlCreate, writeWarmPoolStatus, PlFrame, PVCStep, PvGet, PvEnsure,
      writePVCStatus, Serve, ContainerServe, ChownEnds, DockerFrame, SweepStep, BootLook,
      GcLook, SweepRemove, PurgeContainer, ListManagedVolumes, PurgeVolume, RemoveQuietly,
      RemoveVolume, vars
<1>5. CASE User \/ Crash
  BY <1>u, <1>5
  DEF User, Op, ApiOp, CreateClaim, ApiDeleteClaim, ApiDeleteSandbox, ApiDeletePool, ApiDeletePVC,
      CreatePool, ScalePool, ToggleTemplate, CreateSandbox, SetMode, CreatePVC, StartSweep,
      EventsEnd, Expire, ContainerExit, Crash
<1>6. QED
  BY <1>1, <1>2, <1>3, <1>4, <1>5 DEF Next

----------------------------------------------------------------------------
(* Where a reconcile of a sandbox goes.                                    *)

\* A reconcile that goes on changes its place and the status it will write.
LEMMA SbGoes ==
  ASSUME TypeInv, NEW n \in SbNames, NEW pc, NEW st, SbGoto(n, pc, st)
  PROVE  /\ sbw'[n].pc = pc /\ sbw'[n].o = sbw[n].o /\ sbw'[n].id = sbw[n].id
         /\ sbw'[n].vols = sbw[n].vols
  BY DEF SbGoto, TypeInv, SbwT, SbThread

\* A reconcile that ends is idle.
LEMMA SbEnds ==
  ASSUME TypeInv, NEW n \in SbNames, SbDone(n)
  PROVE  sbw'[n] = IdleSandbox /\ sbw'[n].pc = "idle"
  BY DEF SbDone, TypeInv, SbwT, IdleSandbox

\* Only an inspection leads to a creation, directly or by way of chown.
LEMMA WayToCreate ==
  ASSUME TypeInv, NEW n \in SbNames, SandboxStep(n),
         sbw'[n].pc \in {"prepare", "chown", "create"}
  PROVE  SbInspect(n) \/ SbPrepare(n) \/ SbChown(n) \/ sbw' = sbw
<1>0. sbw \in [SbNames -> SbThread] /\ sbw[n] \in SbThread
  BY DEF TypeInv, SbwT
<1>g. ASSUME NEW pc, NEW st, SbGoto(n, pc, st) PROVE sbw'[n].pc = pc
  BY <1>g, SbGoes
<1>d. SbDone(n) => sbw'[n].pc = "idle"
  BY SbEnds
<1>e. ASSUME NEW left, EachTemplate(n, left) PROVE sbw'[n].pc \in {"vct", "pvc", "inspect"}
  BY <1>0, <1>e DEF EachTemplate, SbThread
<1>1. CASE SbGet(n)
  <2>1. sbw' = sbw \/ sbw'[n] = [IdleSandbox EXCEPT !.pc = "owner", !.o = sandboxes[n]]
    BY <1>0, <1>1 DEF SbGet
  <2>2. QED
    BY <2>1 DEF IdleSandbox
<1>2. CASE SbOwner(n)
  <2>1. \/ \E st : SbGoto(n, "delete", st) \/ SbGoto(n, "expire", st) \/ SbGoto(n, "suspend", st)
        \/ EachTemplate(n, TemplatePVCs[n])
    BY <1>2 DEF SbOwner
  <2>2. CASE EachTemplate(n, TemplatePVCs[n])
    BY <1>e, <2>2
  <2>3. CASE \E st : SbGoto(n, "delete", st) \/ SbGoto(n, "expire", st) \/ SbGoto(n, "suspend", st)
    BY <1>g, <2>3
  <2>4. QED
    BY <2>1, <2>2, <2>3
<1>3. CASE SbDelete(n) \/ writeSandboxStatus(n)
  BY <1>d, <1>3 DEF SbDelete, writeSandboxStatus, SbRequeue
<1>4. CASE ensureVCTPVCObject(n)
  BY <1>e, <1>4 DEF ensureVCTPVCObject
<1>5. CASE SbPVC(n)
  <2>1. \/ \E st : SbGoto(n, "status", st)
        \/ \E v : sbw' = [sbw EXCEPT ![n].pc = "ensure", ![n].vols = @ \ {v}, ![n].pv = v]
    BY <1>5 DEF SbPVC
  <2>2. CASE \E st : SbGoto(n, "status", st)
    BY <1>g, <2>2
  <2>3. CASE \E v : sbw' = [sbw EXCEPT ![n].pc = "ensure", ![n].vols = @ \ {v}, ![n].pv = v]
    <3>1. PICK v : sbw' = [sbw EXCEPT ![n].pc = "ensure", ![n].vols = @ \ {v}, ![n].pv = v]
      BY <2>3
    <3>2. sbw'[n].pc = "ensure"
      BY <1>0, <3>1 DEF SbThread
    <3>3. QED
      BY <3>2
  <2>4. QED
    BY <2>1, <2>2, <2>3
<1>6. CASE SbEnsure(n)
  <2>1. \/ sbw' = [sbw EXCEPT ![n].pv = NoName,
                     ![n].pc = IF sbw[n].vols = {} THEN "inspect" ELSE "pvc"]
        \/ SbDone(n)
    BY <1>6 DEF SbEnsure, SbRequeue
  <2>2. CASE sbw' = [sbw EXCEPT ![n].pv = NoName,
                       ![n].pc = IF sbw[n].vols = {} THEN "inspect" ELSE "pvc"]
    BY <1>0, <2>2 DEF SbThread
  <2>3. QED
    BY <1>d, <2>1, <2>2
<1>7. CASE SbCreate(n)
  <2>1. \/ sbw' = [sbw EXCEPT ![n].pc = "start", ![n].id = lastUID + 1]
        \/ SbDone(n)
    BY <1>7 DEF SbCreate, ContainerCreate, SbRequeue
  <2>2. CASE sbw' = [sbw EXCEPT ![n].pc = "start", ![n].id = lastUID + 1]
    BY <1>0, <2>2 DEF SbThread
  <2>3. QED
    BY <1>d, <2>1, <2>2
<1>8. CASE SbStart(n) \/ SbSuspendRemove(n) \/ SbExpireRemove(n)
  <2>1. SbDone(n) \/ \E st : SbGoto(n, "status", st) \/ SbGoto(n, "delete", st)
    BY <1>8 DEF SbStart, SbSuspendRemove, SbExpireRemove, SbRequeue, AfterExpiry
  <2>2. QED
    BY <1>d, <1>g, <2>1
<1>9. CASE SbSuspend(n) \/ SbExpire(n)
  <2>1. \/ \E st : SbGoto(n, "status", st) \/ SbGoto(n, "delete", st)
        \/ \E id : sbw' = [sbw EXCEPT ![n].pc = "susremove", ![n].id = id]
        \/ \E id : sbw' = [sbw EXCEPT ![n].pc = "expremove", ![n].id = id]
    BY <1>9 DEF SbSuspend, SbExpire, AfterExpiry
  <2>2. CASE \E st : SbGoto(n, "status", st) \/ SbGoto(n, "delete", st)
    BY <1>g, <2>2
  <2>3. CASE \E id : sbw' = [sbw EXCEPT ![n].pc = "susremove", ![n].id = id]
    <3>1. sbw'[n].pc = "susremove"
      BY <1>0, <2>3 DEF SbThread
    <3>2. QED
      BY <3>1
  <2>4. CASE \E id : sbw' = [sbw EXCEPT ![n].pc = "expremove", ![n].id = id]
    <3>1. sbw'[n].pc = "expremove"
      BY <1>0, <2>4 DEF SbThread
    <3>2. QED
      BY <3>1
  <2>5. QED
    BY <2>1, <2>2, <2>3, <2>4
<1>10. QED
  BY <1>1, <1>2, <1>3, <1>4, <1>5, <1>6, <1>7, <1>8, <1>9 DEF SandboxStep

----------------------------------------------------------------------------
(* At most one container.                                                  *)

\* The invariant of one sandbox's reconcile and containers is inductive.
LEMMA NextContainer ==
  ASSUME TypeInv, ContainerInv, [Next]_vars
  PROVE  ContainerInv'
<1> SUFFICES ASSUME NEW n \in SbNames
             PROVE  /\ sbw'[n].pc \in {"prepare", "chown"} => n \in NonRoot /\ Mounts(n) # {}
                    /\ Quiet(n)' =>
                         /\ Alone(n)'
                         /\ sbw'[n].pc \in {"prepare", "create"} => OfSandbox(n)' = {}
                         /\ sbw'[n].pc = "chown" =>
                              \A c \in OfSandbox(n)' : c.id = sbw'[n].id
  BY DEF ContainerInv, OfSandbox
<1>0. /\ sbw[n] \in SbThread /\ sbw \in [SbNames -> SbThread]
      /\ sbw[n].pc \in {"prepare", "chown"} => n \in NonRoot /\ Mounts(n) # {}
      /\ Quiet(n) =>
           /\ Alone(n)
           /\ sbw[n].pc \in {"prepare", "create"} => OfSandbox(n) = {}
           /\ sbw[n].pc = "chown" => \A c \in OfSandbox(n) : c.id = sbw[n].id
  BY DEF ContainerInv, TypeInv, SbwT
<1>q. Quiet(n)' => Quiet(n)
  BY FaultsGrow DEF Quiet, Mounts
<1>f. Fail => faults' # 0
  BY ClusterAssumption DEF Fail, TypeInv, CountT
<1>g. ASSUME NEW pc, NEW st, SbGoto(n, pc, st)
      PROVE  sbw'[n].pc = pc /\ sbw'[n].id = sbw[n].id
  BY <1>g, SbGoes
<1>d. SbDone(n) => sbw'[n].pc = "idle"
  BY SbEnds
<1>1. CASE Held(n) /\ sbw'[n].pc \notin {"prepare", "chown", "create"}
  BY <1>0, <1>1, <1>q DEF Held
<1>2. CASE Held(n) /\ sbw'[n] = sbw[n]
  BY <1>0, <1>2, <1>q DEF Held
<1>3. CASE SbInspect(n)
  <2>0. OfSandbox(n)' = OfSandbox(n)
    BY <1>3 DEF SbInspect, OfSandbox
  <2>1. CASE /\ InspectSandbox(n) = {}
             /\ SbGoto(n, IF n \in NonRoot /\ Mounts(n) # {} THEN "prepare" ELSE "create", sbw[n].o.st)
    <3>1. sbw'[n].pc = IF n \in NonRoot /\ Mounts(n) # {} THEN "prepare" ELSE "create"
      BY <1>g, <2>1
    <3>2. Quiet(n) => OfSandbox(n) = {}
      <4> SUFFICES ASSUME Quiet(n), NEW c \in OfSandbox(n) PROVE FALSE
        OBVIOUS
      <4>1. c.id \in Nat /\ \A d \in OfSandbox(n) : d = c
        BY <1>0 DEF Alone, OfSandbox, TypeInv, DockerT, Container
      <4>2. c \in InspectSandbox(n)
        BY <4>1 DEF InspectSandbox
      <4>3. QED
        BY <2>1, <4>2
    <3>3. QED
      BY <1>0, <1>q, <2>0, <3>1, <3>2 DEF Alone
  <2>2. CASE SbDone(n) \/ \E st : SbGoto(n, "status", st)
    <3>1. sbw'[n].pc \in {"idle", "status"}
      BY <1>d, <1>g, <2>2
    <3>2. QED
      BY <1>0, <1>q, <2>0, <3>1 DEF Alone
  <2>3. QED
    BY <1>3, <2>1, <2>2 DEF SbInspect, SbRequeue
<1>4. CASE SbPrepare(n) \/ SbCreate(n)
  <2>0. sbw[n].pc \in {"prepare", "create"}
    BY <1>4 DEF SbPrepare, SbCreate
  <2>1. ASSUME NEW uid, NEW state, NEW pc, ContainerCreate(n, uid, state, pc)
        PROVE  /\ sbw'[n].pc = pc /\ sbw'[n].id = lastUID + 1
               /\ Quiet(n) => Alone(n)' /\ \A c \in OfSandbox(n)' : c.id = lastUID + 1
    <3> DEFINE new == [id |-> lastUID + 1, name |-> n, uid |-> uid, state |-> state]
    <3>1. containers' = containers \cup {new}
          /\ sbw' = [sbw EXCEPT ![n].pc = pc, ![n].id = lastUID + 1]
      BY <2>1 DEF ContainerCreate
    <3>2. sbw'[n].pc = pc /\ sbw'[n].id = lastUID + 1
      BY <1>0, <3>1 DEF SbThread
    <3>3. new.id = lastUID + 1
      OBVIOUS
    <3> HIDE DEF new
    <3>4. Quiet(n) => OfSandbox(n)' \subseteq {new}
      BY <1>0, <2>0, <3>1 DEF OfSandbox
    <3>5. QED
      BY <3>2, <3>3, <3>4 DEF Alone
  <2>2. CASE SbPrepare(n) /\ ContainerCreate(n, 0, "running", "chown")
    BY <1>0, <1>q, <2>1, <2>2 DEF SbPrepare
  <2>3. CASE SbPrepare(n) /\ SbGoto(n, "create", sbw[n].st) /\ UNCHANGED containers
    <3>1. sbw'[n].pc = "create" /\ OfSandbox(n)' = OfSandbox(n)
      BY <1>g, <2>3 DEF OfSandbox
    <3>2. QED
      BY <1>0, <1>q, <2>0, <3>1 DEF Alone
  <2>4. CASE ContainerCreate(n, sbw[n].o.uid, "created", "start")
    <3>1. PICK uid : uid = sbw[n].o.uid
      OBVIOUS
    <3>2. ContainerCreate(n, uid, "created", "start")
      BY <2>4, <3>1
    <3>3. QED
      BY <1>q, <2>1, <3>2
  <2>5. CASE SbDone(n) /\ UNCHANGED containers
    <3>1. sbw'[n].pc = "idle" /\ OfSandbox(n)' = OfSandbox(n)
      BY <1>d, <2>5 DEF OfSandbox
    <3>2. QED
      BY <1>0, <1>q, <3>1 DEF Alone
  <2>6. QED
    BY <1>4, <2>2, <2>3, <2>4, <2>5 DEF SbPrepare, SbCreate, SbRequeue
<1>5. CASE SbChown(n)
  <2>1. sbw[n].pc = "chown" /\ sbw'[n].pc = "create" /\ RemoveQuietly(sbw[n].id)
    BY <1>5, <1>g DEF SbChown
  <2>2. CASE Removed(sbw[n].id)
    <3>1. Quiet(n) => OfSandbox(n)' = {}
      BY <1>0, <2>1, <2>2 DEF Removed, OfSandbox
    <3>2. QED
      BY <1>q, <2>1, <3>1 DEF Alone
  <2>3. CASE Fail
    <3>1. ~Quiet(n)'
      BY <1>0, <1>f, <2>1, <2>3 DEF Quiet, Mounts
    <3>2. QED
      BY <2>1, <3>1
  <2>4. QED
    BY <2>1, <2>2, <2>3 DEF RemoveQuietly
<1>6. CASE sbw'[n] = IdleSandbox /\ Held(n)
  BY <1>1, <1>6 DEF IdleSandbox
<1>7. QED
  BY <1>1, <1>2, <1>3, <1>4, <1>5, <1>6, ContainersEffect, SandboxThreadEffect, WayToCreate

\* A sandbox's name has one container in every reachable state, unless a failed
\* call has left the one-shot container of prepareVolumePermissions behind.
THEOREM QuietNamesHaveOneContainer ==
  Spec => [](\A n \in SbNames : Quiet(n) => Alone(n))
<1>1. Init => ContainerInv
  BY DEF Init, ContainerInv, Alone, OfSandbox, IdleSandbox
<1>2. ContainerInv => \A n \in SbNames : Quiet(n) => Alone(n)
  BY DEF ContainerInv
<1>3. QED
  BY <1>1, <1>2, NextContainer, TypesAndThreads, PTL DEF Spec

\* Where Docker does not fail, or no sandbox needs the one-shot container, two
\* containers never have the same name, whatever the deletes, the sweeps, users
\* and crashes do between the inspection and the creation (reconcileRunning
\* under the work queue's one reconcile per key), for every number of sandboxes.
THEOREM NamesHaveOneContainer ==
  ASSUME MaxFaults = 0 \/ \A n \in NonRoot : Mounts(n) = {}
  PROVE  Spec => []AtMostOneContainer
<1>1. TypeInv /\ (\A n \in SbNames : Quiet(n) => Alone(n)) => AtMostOneContainer
  <2> SUFFICES ASSUME TypeInv, \A n \in SbNames : Quiet(n) => Alone(n),
                      NEW a \in containers, NEW b \in containers, a.name = b.name
               PROVE  a = b
    BY DEF AtMostOneContainer
  <2>1. a.name \in SbNames
    BY DEF TypeInv, DockerT, Container
  <2>2. Quiet(a.name)
    <3>1. MaxFaults = 0 => faults = 0
      BY DEF TypeInv, CountT
    <3>2. QED
      BY <3>1 DEF Quiet
  <2>3. QED
    BY <2>1, <2>2 DEF Alone, OfSandbox
<1>2. QED
  BY <1>1, TypesAndThreads, QuietNamesHaveOneContainer, PTL

(***************************************************************************)
(* Who deletes a PVC.                                                      *)
(***************************************************************************)
----------------------------------------------------------------------------
(* What a step can do to a PVC.                                            *)

\* the PVC stays the same one; its phase may change
PVCKept(v) ==
  /\ pvcs'[v].uid = pvcs[v].uid
  /\ pvcs[v] # NoObject => pvcs'[v] # NoObject /\ pvcs'[v].owner = pvcs[v].owner
  /\ pvcs[v] = NoObject => pvcs'[v] = NoObject
PVCMade(v, owner) ==
  pvcs[v] = NoObject /\ pvcs'[v] # NoObject /\ pvcs'[v].owner = owner
\* the hook of a sandbox deletes it by name
PVCCleaned(v) == \E t \in Threads : CleanupDelete(t) /\ hook[t].pv = v /\ pvcs'[v] = NoObject
\* a user does
PVCDropped(v) ==
  /\ pvcs[v] # NoObject /\ pvcs'[v] = NoObject /\ ops' = ops + 1
  /\ pvcs[v].owner # 0 => "unvct" \in UserOps
  /\ pvcs[v].owner = 0 /\ (\E n \in SbNames : v \in PodPVCs[n]) => "unpod" \in UserOps

\* A PVC that nothing writes is kept.
LEMMA SamePVC ==
  ASSUME NEW v, pvcs'[v] = pvcs[v]
  PROVE  PVCKept(v)
  BY DEF PVCKept

\* One creation makes the PVC with the given owner and keeps the others.
LEMMA MakeEffect ==
  ASSUME TypeInv, NEW u \in PVCNames, NEW v \in PVCNames, NEW owner, pvcs[u] = NoObject,
         pvcs' = [pvcs EXCEPT ![u] = [uid |-> lastUID + 1, owner |-> owner, phase |-> "none"]]
  PROVE  PVCKept(v) \/ (v = u /\ PVCMade(v, owner))
<1>1. pvcs \in [PVCNames -> PVC \cup {NoObject}] /\ lastUID \in Nat
  BY DEF TypeInv, StoreT
<1>2. CASE u = v
  <2>1. pvcs'[v] = [uid |-> lastUID + 1, owner |-> owner, phase |-> "none"]
    BY <1>1, <1>2
  <2>2. QED
    BY <1>1, <1>2, <2>1 DEF PVCMade, NoObject
<1>3. CASE u # v
  BY <1>1, <1>3, SamePVC
<1>4. QED
  BY <1>2, <1>3

\* A PVC is created by a sandbox's reconcile or a user and deleted by a hook or
\* a user; everything else leaves its UID and its owner alone.
LEMMA PVCEffect ==
  ASSUME TypeInv, NEW v \in PVCNames, [Next]_vars
  PROVE  \/ PVCKept(v) \/ PVCMade(v, 0) \/ PVCCleaned(v) \/ PVCDropped(v)
         \/ \E n \in SbNames : /\ sbw[n].pc = "vct" /\ v \in sbw[n].vols
                               /\ PVCMade(v, sbw[n].o.uid)
<1>0. pvcs \in [PVCNames -> PVC \cup {NoObject}] /\ lastUID \in Nat
  BY DEF TypeInv, StoreT
<1>u. CASE UNCHANGED pvcs
  BY <1>u, SamePVC
<1>1. ASSUME NEW n \in SbNames, SandboxStep(n)
      PROVE  \/ PVCKept(v)
             \/ sbw[n].pc = "vct" /\ v \in sbw[n].vols /\ PVCMade(v, sbw[n].o.uid)
  <2>1. CASE ensureVCTPVCObject(n)
    <3>1. PICK owner : owner = sbw[n].o.uid
      OBVIOUS
    <3>2. CASE UNCHANGED pvcs
      BY <3>2, SamePVC
    <3>3. ASSUME NEW w \in sbw[n].vols, pvcs[w] = NoObject,
                 pvcs' = [pvcs EXCEPT ![w] = [uid |-> lastUID + 1, owner |-> owner,
                                              phase |-> "none"]]
          PROVE  PVCKept(v) \/ (sbw[n].pc = "vct" /\ v \in sbw[n].vols /\ PVCMade(v, owner))
      <4>1. w \in PVCNames /\ sbw[n].pc = "vct"
        BY <2>1, <3>3 DEF ensureVCTPVCObject, TypeInv, SbwT, SbThread
      <4>2. QED
        BY <3>3, <4>1, MakeEffect
    <3>4. QED
      BY <2>1, <3>1, <3>2, <3>3 DEF ensureVCTPVCObject
  <2>2. CASE UNCHANGED pvcs
    BY <2>2, SamePVC
  <2>3. QED
    BY <1>1, <2>1, <2>2
    DEF SandboxStep, SbGet, SbOwner, SbDelete, SbPVC, SbEnsure, SbInspect,
        SbPrepare, SbChown, SbCreate, SbStart, writeSandboxStatus, SbSuspend, SbSuspendRemove,
        SbExpire, SbExpireRemove
<1>2. CASE \E c \in ClaimNames : ClaimStep(c)
  BY <1>u, <1>2, ZenonT(40)
  DEF ClaimStep, ClGet, ClDelete, ClRetain, ClRetainDelete, ClResolve, ClBind, ClList, ClPick,
      ClAdopt, ClCreate, ClGot, writeClaimStatus, ClFrame, storage
<1>3. ASSUME NEW t \in Threads, HookStep(t)
      PROVE  PVCKept(v) \/ PVCCleaned(v)
  <2>1. CASE CleanupDelete(t)
    <3>1. UNCHANGED pvcs \/ pvcs' = [pvcs EXCEPT ![hook[t].pv] = NoObject]
      BY <2>1 DEF CleanupDelete, DeletePVC
    <3>2. CASE hook[t].pv = v /\ pvcs' = [pvcs EXCEPT ![hook[t].pv] = NoObject]
      BY <1>0, <2>1, <3>2 DEF PVCCleaned
    <3>3. CASE hook[t].pv # v \/ UNCHANGED pvcs
      BY <1>0, <3>1, <3>3, SamePVC
    <3>4. QED
      BY <3>1, <3>2, <3>3
  <2>2. CASE UNCHANGED pvcs
    BY <2>2, SamePVC
  <2>3. QED
    BY <1>3, <2>1, <2>2
    DEF HookStep, CascadeCheck, CascadeDelete, CascadeList, CascadeEach, CleanupInspect,
        CleanupRemove, CleanupPVC, CleanupVolume, storage
<1>4. ASSUME NEW u \in PVCNames, PVCStep(u)
      PROVE  PVCKept(v)
  <2>1. CASE UNCHANGED pvcs
    BY <2>1, SamePVC
  <2>2. CASE pvcs[u] # NoObject /\ pvcs' = [pvcs EXCEPT ![u].phase = pvw[u].phase]
    <3>1. pvcs[u] \in PVC /\ NoObject \notin PVC /\ pvcs'[u] \in PVC
      BY <1>0, <2>2 DEF PVC, NoObject, TypeInv, PvwT, PvThread, Phases
    <3>2. pvcs'[u].uid = pvcs[u].uid /\ pvcs'[u].owner = pvcs[u].owner
      BY <1>0, <2>2, <3>1 DEF PVC
    <3>3. u # v => pvcs'[v] = pvcs[v]
      BY <1>0, <2>2
    <3>4. QED
      BY <2>2, <3>1, <3>2, <3>3, SamePVC DEF PVCKept
  <2>3. QED
    BY <1>4, <2>1, <2>2 DEF PVCStep, PvGet, PvEnsure, writePVCStatus
<1>5. CASE (\E p \in PoolNames : PoolStep(p)) \/ Serve \/ SweepStep \/ Crash \/ UNCHANGED vars
  BY <1>u, <1>5
  DEF PoolStep, PlGet, PlList, PlCreate, writeWarmPoolStatus, PlFrame, storage, Serve,
      ContainerServe, ChownEnds, DockerFrame, SweepStep, BootLook, GcLook, SweepRemove,
      PurgeContainer, ListManagedVolumes, PurgeVolume, SweepFrame, Crash, vars
<1>6. CASE User
  <2>1. ASSUME NEW u \in PVCNames, CreatePVC(u)
        PROVE  PVCKept(v) \/ PVCMade(v, 0)
    BY <2>1, MakeEffect DEF CreatePVC
  <2>2. ASSUME NEW t, NEW u \in PVCNames, ApiDeletePVC(t, u)
        PROVE  PVCKept(v) \/ PVCDropped(v)
    <3>1. pvcs[u] # NoObject /\ pvcs' = [pvcs EXCEPT ![u] = NoObject]
      BY <2>2 DEF ApiDeletePVC, DeletePVC
    <3>2. CASE u = v
      <4> DEFINE Refers == \E n \in SbNames : v \in PodPVCs[n]
                 kind == CASE pvcs[v].owner # 0 -> "unvct"
                           [] pvcs[v].owner = 0 /\ Refers -> "unpod"
                           [] OTHER -> "unpvc"
      <4>1. Op(kind)
        BY <2>2, <3>2 DEF ApiDeletePVC
      <4>2. /\ pvcs[v].owner # 0 => kind = "unvct"
            /\ pvcs[v].owner = 0 /\ Refers => kind = "unpod"
        OBVIOUS
      <4> HIDE DEF kind
      <4>3. kind \in UserOps /\ ops' = ops + 1
        BY <4>1 DEF Op
      <4>4. pvcs'[v] = NoObject
        BY <1>0, <3>1, <3>2
      <4>5. QED
        BY <3>1, <3>2, <4>2, <4>3, <4>4 DEF PVCDropped
    <3>3. CASE u # v
      BY <1>0, <3>1, <3>3, SamePVC
    <3>4. QED
      BY <3>2, <3>3
  <2>3. QED
    BY <1>u, <1>6, <2>1, <2>2
    DEF User, ApiOp, CreateClaim, ApiDeleteClaim, ApiDeleteSandbox, ApiDeletePool, CreatePool,
        ScalePool, ToggleTemplate, CreateSandbox, SetMode, StartSweep, EventsEnd, Expire,
        ContainerExit
<1>7. QED
  BY <1>1, <1>2, <1>3, <1>4, <1>5, <1>6 DEF Next

----------------------------------------------------------------------------
(* What a step can do to the hook that a thread runs.                      *)

\* the clean-up of a sandbox or of a PVC's volume
Phase == {"inspect", "remove", "pvcs", "pvcdelete", "volume"}
\* PVCs named by templates, and PVCs that pods refer to
FromTemplate == UNION {TemplatePVCs[n] : n \in SbNames}
ForPods == UNION {PodPVCs[n] : n \in SbNames}

\* it holds no object
HookBlank(t) ==
  hook'[t].pc \in {"none", "plist", "pdelete"} /\ hook'[t].uid = 0 /\ hook'[t].vols = {}
\* it holds a deleted claim
HookCascades(t) ==
  \/ hook'[t].pc = "cascade" /\ hook'[t].vols = {}
  \/ hook[t].pc = "cascade" /\ hook'[t].pc = "cdelete" /\ hook'[t].vols = hook[t].vols
\* it holds a sandbox that this step deletes
HookBegins(t) ==
  /\ \E n \in SbNames : /\ sandboxes[n] # NoObject
                        /\ sandboxes' = [sandboxes EXCEPT ![n] = NoObject]
                        /\ hook'[t].uid = sandboxes[n].uid
  /\ lastUID' = lastUID
  /\ hook'[t].pc = "inspect" /\ hook'[t].vols = {}
  /\ \A s \in Threads : s # t => hook'[s] = hook[s]
\* a user deletes a PVC, and its volume follows
HookFrees(t) ==
  /\ hook[t].pc = "none" /\ hook'[t].pc = "volume"
  /\ hook'[t].uid = hook[t].uid /\ hook'[t].vols = hook[t].vols
\* the clean-up of a sandbox goes on
HookGoes(t) ==
  /\ hook[t].pc \in Phase /\ hook'[t].pc \in Phase
  /\ hook'[t].uid = hook[t].uid
  /\ hook'[t].vols \subseteq hook[t].vols \cup FromTemplate
  /\ hook[t].pc = "volume" => hook'[t].vols # {} /\ hook'[t].vols \subseteq hook[t].vols
  /\ hook'[t].pc = "pvcdelete" =>
       /\ hook'[t].pv \in hook[t].vols /\ UNCHANGED pvcs
       /\ pvcs[hook'[t].pv] # NoObject /\ pvcs[hook'[t].pv].owner = hook[t].uid
HookMove(t) ==
  \/ hook'[t] = hook[t] \/ HookBlank(t) \/ HookCascades(t) \/ HookBegins(t)
  \/ HookFrees(t) \/ HookGoes(t)

\* A hook that is done, or goes on with the next sandbox of a list, is blank.
LEMMA DoneBlank ==
  ASSUME TypeInv, NEW t \in Threads, HookDone(t)
  PROVE  HookBlank(t)
<1>1. hook \in [Threads -> Hook] /\ hook[t] \in Hook
  BY DEF TypeInv, HookT
<1>2. hook'[t] = [NoHook EXCEPT !.pc = IF hook[t].todo = {} THEN "none" ELSE "pdelete",
                                !.todo = hook[t].todo]
  BY <1>1 DEF HookDone
<1>3. QED
  BY <1>1, <1>2 DEF NoHook, HookBlank

\* The loop over the templates' PVCs goes on with what is left, or is done.
LEMMA CleanupMoves ==
  ASSUME TypeInv, NEW t \in Threads, NEW left, CleanupPVCs(t, left)
  PROVE  \/ HookBlank(t)
         \/ /\ hook'[t].pc = "pvcs" /\ hook'[t].vols = left /\ left # {}
            /\ hook'[t].uid = hook[t].uid
<1>1. hook \in [Threads -> Hook] /\ hook[t] \in Hook
  BY DEF TypeInv, HookT
<1>2. CASE left = {}
  BY <1>2, DoneBlank DEF CleanupPVCs
<1>3. CASE left # {}
  BY <1>1, <1>3 DEF CleanupPVCs, Hook
<1>4. QED
  BY <1>2, <1>3

\* The deletion of a sandbox starts the clean-up of that sandbox.
LEMMA DeleteMoves ==
  ASSUME TypeInv, NEW t \in Threads, NEW n \in SbNames, NEW todo, DeleteSandbox(t, n, todo),
         lastUID' = lastUID
  PROVE  /\ HookBlank(t) \/ HookBegins(t)
         /\ \A s \in Threads : s # t => hook'[s] = hook[s]
<1>1. hook \in [Threads -> Hook] /\ hook[t] \in Hook
  BY DEF TypeInv, HookT
<1>2. CASE sandboxes[n] = NoObject
  <2>1. hook' = [hook EXCEPT ![t] = [NoHook EXCEPT
                   !.pc = IF todo = {} THEN "none" ELSE "pdelete", !.todo = todo]]
    BY <1>2 DEF DeleteSandbox
  <2>2. hook'[t].pc = IF todo = {} THEN "none" ELSE "pdelete"
    BY <1>1, <2>1 DEF NoHook
  <2>3. hook'[t].uid = 0 /\ hook'[t].vols = {}
    BY <1>1, <2>1 DEF NoHook
  <2>4. QED
    BY <1>1, <2>1, <2>2, <2>3 DEF HookBlank
<1>3. CASE sandboxes[n] # NoObject
  <2>1. /\ sandboxes' = [sandboxes EXCEPT ![n] = NoObject]
        /\ hook' = [hook EXCEPT ![t] = [NoHook EXCEPT !.pc = "inspect", !.name = n,
                      !.todo = todo, !.uid = sandboxes[n].uid]]
    BY <1>3 DEF DeleteSandbox
  <2>2. hook'[t].pc = "inspect" /\ hook'[t].uid = sandboxes[n].uid /\ hook'[t].vols = {}
    BY <1>1, <2>1 DEF NoHook
  <2>3. \A s \in Threads : s # t => hook'[s] = hook[s]
    BY <1>1, <2>1
  <2>4. QED
    BY <1>3, <2>1, <2>2, <2>3 DEF HookBegins
<1>4. QED
  BY <1>2, <1>3

\* A step of a hook moves that hook only.
LEMMA HookMoves ==
  ASSUME TypeInv, NEW t \in Threads, HookStep(t), NEW s \in Threads
  PROVE  HookMove(s)
<1>0. hook \in [Threads -> Hook] /\ hook[t] \in Hook /\ HookWell(hook[t])
  BY DEF TypeInv, HookT
<1> DEFINE h == hook[t]
<1>o. CASE s # t
  <2>1. hook'[s] = hook[s]
    BY <1>0, <1>o
    DEF HookStep, CascadeCheck, CascadeDelete, CascadeList, CascadeEach, CleanupInspect,
        CleanupRemove, CleanupPVC, CleanupDelete, CleanupVolume, DeleteSandbox, DeletePVC,
        HookDone, CleanupPVCs
  <2>2. QED
    BY <2>1 DEF HookMove
<1>s. SUFFICES ASSUME s = t
               PROVE  HookMove(t)
  BY <1>o
<1>c. ASSUME NEW left, CleanupPVCs(t, left), h.pc \in Phase, left \subseteq h.vols \cup FromTemplate,
             h.pc = "volume" => left \subseteq h.vols
      PROVE  HookMove(t)
  BY <1>c, CleanupMoves DEF HookGoes, HookMove, Phase
<1>f. ASSUME h.name \in SbNames
      PROVE  TemplatePVCs[h.name] \subseteq FromTemplate
  BY <1>f DEF FromTemplate
<1>1. CASE CascadeCheck(t)
  <2>1. HookDone(t) \/ (h.pc = "cascade" /\ hook' = [hook EXCEPT ![t].pc = "cdelete"])
    BY <1>1 DEF CascadeCheck
  <2>2. CASE h.pc = "cascade" /\ hook' = [hook EXCEPT ![t].pc = "cdelete"]
    BY <1>0, <2>2 DEF HookMove, HookCascades, Hook
  <2>3. QED
    BY <2>1, <2>2, DoneBlank DEF HookMove
<1>2. CASE CascadeDelete(t)
  <2>1. h.name \in SbNames /\ DeleteSandbox(t, h.name, {}) /\ lastUID' = lastUID
    BY <1>0, <1>2 DEF CascadeDelete, HookWell
  <2>2. QED
    BY <2>1, DeleteMoves DEF HookMove
<1>3. CASE CascadeList(t)
  <2>1. PICK mine : hook' = [hook EXCEPT ![t] = [NoHook EXCEPT
                      !.pc = IF mine = {} THEN "none" ELSE "pdelete", !.todo = mine]]
    BY <1>3 DEF CascadeList
  <2>2. hook'[t].pc = IF mine = {} THEN "none" ELSE "pdelete"
    BY <1>0, <2>1 DEF NoHook
  <2>3. hook'[t].uid = 0 /\ hook'[t].vols = {}
    BY <1>0, <2>1 DEF NoHook
  <2>4. QED
    BY <2>2, <2>3 DEF HookBlank, HookMove
<1>4. CASE CascadeEach(t)
  <2>1. PICK n \in h.todo : DeleteSandbox(t, n, h.todo \ {n})
    BY <1>4 DEF CascadeEach
  <2>2. n \in SbNames /\ lastUID' = lastUID
    BY <1>0, <1>4, <2>1 DEF CascadeEach, Hook
  <2>3. QED
    BY <2>1, <2>2, DeleteMoves DEF HookMove
<1>5. CASE CleanupInspect(t)
  <2>1. h.pc = "inspect" /\ h.name \in SbNames
    BY <1>0, <1>5 DEF CleanupInspect, HookWell
  <2>2. \/ CleanupPVCs(t, TemplatePVCs[h.name])
        \/ \E id : hook' = [hook EXCEPT ![t].pc = "remove", ![t].id = id]
    BY <1>5 DEF CleanupInspect
  <2>3. CASE CleanupPVCs(t, TemplatePVCs[h.name])
    BY <1>c, <1>f, <2>1, <2>3 DEF Phase
  <2>4. CASE \E id : hook' = [hook EXCEPT ![t].pc = "remove", ![t].id = id]
    <3>1. PICK id : hook' = [hook EXCEPT ![t].pc = "remove", ![t].id = id]
      BY <2>4
    <3>2. hook'[t].pc = "remove" /\ hook'[t].uid = h.uid /\ hook'[t].vols = h.vols
      BY <1>0, <3>1 DEF Hook
    <3>3. QED
      BY <2>1, <3>2 DEF HookMove, HookGoes, Phase
  <2>5. QED
    BY <2>2, <2>3, <2>4
<1>6. CASE CleanupRemove(t)
  <2>1. h.pc = "remove" /\ h.name \in SbNames /\ CleanupPVCs(t, TemplatePVCs[h.name])
    BY <1>0, <1>6 DEF CleanupRemove, HookWell
  <2>2. QED
    BY <1>c, <1>f, <2>1 DEF Phase
<1>7. CASE CleanupPVC(t)
  <2>1. PICK v \in h.vols :
          IF pvcs[v] # NoObject /\ pvcs[v].owner # h.uid
          THEN CleanupPVCs(t, h.vols \ {v})
          ELSE hook' = [hook EXCEPT ![t].vols = @ \ {v}, ![t].pv = v,
                          ![t].pc = IF pvcs[v] = NoObject THEN "volume" ELSE "pvcdelete"]
    BY <1>7 DEF CleanupPVC
  <2>2. h.pc = "pvcs" /\ UNCHANGED pvcs
    BY <1>7 DEF CleanupPVC, storage
  <2>3. CASE pvcs[v] # NoObject /\ pvcs[v].owner # h.uid
    <3>1. CleanupPVCs(t, h.vols \ {v})
      BY <2>1, <2>3
    <3>2. QED
      BY <1>c, <2>2, <3>1 DEF Phase
  <2>4. CASE ~(pvcs[v] # NoObject /\ pvcs[v].owner # h.uid)
    <3>1. hook' = [hook EXCEPT ![t].vols = @ \ {v}, ![t].pv = v,
                     ![t].pc = IF pvcs[v] = NoObject THEN "volume" ELSE "pvcdelete"]
      BY <2>1, <2>4
    <3>2. /\ hook'[t].pc = IF pvcs[v] = NoObject THEN "volume" ELSE "pvcdelete"
          /\ hook'[t].vols = h.vols \ {v} /\ hook'[t].pv = v /\ hook'[t].uid = h.uid
      BY <1>0, <3>1 DEF Hook
    <3>3. QED
      BY <2>1, <2>2, <2>4, <3>2 DEF HookMove, HookGoes, Phase
  <2>5. QED
    BY <2>3, <2>4
<1>8. CASE CleanupDelete(t)
  <2>1. h.pc = "pvcdelete"
        /\ (CleanupPVCs(t, h.vols) \/ hook' = [hook EXCEPT ![t].pc = "volume", ![t].pv = h.pv])
    BY <1>8 DEF CleanupDelete, DeletePVC
  <2>2. CASE CleanupPVCs(t, h.vols)
    BY <1>c, <2>1, <2>2 DEF Phase
  <2>3. CASE hook' = [hook EXCEPT ![t].pc = "volume", ![t].pv = h.pv]
    <3>1. hook'[t].pc = "volume" /\ hook'[t].uid = h.uid /\ hook'[t].vols = h.vols
      BY <1>0, <2>3 DEF Hook
    <3>2. QED
      BY <2>1, <3>1 DEF HookMove, HookGoes, Phase
  <2>4. QED
    BY <2>1, <2>2, <2>3
<1>9. CASE CleanupVolume(t)
  BY <1>c, <1>9 DEF CleanupVolume, Phase
<1>10. QED
  BY <1>1, <1>2, <1>3, <1>4, <1>5, <1>6, <1>7, <1>8, <1>9 DEF HookStep

\* Every step moves the hook of a thread in one of these ways.
LEMMA EveryHookMoves ==
  ASSUME TypeInv, NEW s \in Threads, [Next]_vars
  PROVE  HookMove(s)
<1>0. hook \in [Threads -> Hook] /\ hook[s] \in Hook /\ lastUID \in Nat
  BY DEF TypeInv, HookT, StoreT
<1>u. CASE UNCHANGED hook
  BY <1>u DEF HookMove
<1>d. ASSUME NEW t \in Threads, NEW n \in SbNames, NEW todo, DeleteSandbox(t, n, todo),
             lastUID' = lastUID
      PROVE  HookMove(s)
  BY <1>d, DeleteMoves DEF HookMove
<1>c. ASSUME NEW t \in Threads, NEW c \in ClaimNames, DeleteClaim(t, c)
      PROVE  HookMove(s)
  <2>1. CASE claims[c] = NoObject
    BY <1>c, <1>u, <2>1 DEF DeleteClaim
  <2>2. CASE claims[c] # NoObject
    <3>1. PICK uid, name : hook' = [hook EXCEPT ![t] = [NoHook EXCEPT !.pc = "cascade",
                                      !.uid = uid, !.name = name]]
      BY <1>c, <2>2 DEF DeleteClaim
    <3>2. hook'[t].pc = "cascade" /\ hook'[t].vols = {}
      BY <1>0, <3>1 DEF NoHook
    <3>3. s # t => hook'[s] = hook[s]
      BY <1>0, <3>1
    <3>4. QED
      BY <3>2, <3>3 DEF HookMove, HookCascades
  <2>3. QED
    BY <2>1, <2>2
<1>1. ASSUME NEW n \in SbNames, SandboxStep(n)
      PROVE  HookMove(s)
  <2>1. CASE SbDelete(n)
    BY <1>d, <2>1, ThreadOf DEF SbDelete
  <2>2. QED
    BY <1>u, <1>1, <2>1
    DEF SandboxStep, SbGet, SbOwner, ensureVCTPVCObject, SbPVC, SbEnsure, SbInspect, SbPrepare,
        SbChown, SbCreate, SbStart, writeSandboxStatus, SbSuspend, SbSuspendRemove, SbExpire,
        SbExpireRemove
<1>2. ASSUME NEW c \in ClaimNames, ClaimStep(c)
      PROVE  HookMove(s)
  <2>1. CASE ClDelete(c)
    BY <1>c, <2>1, ThreadOf DEF ClDelete
  <2>2. CASE ClRetainDelete(c)
    <3>1. clw[c].o.sb \in SbNames
      BY <2>2 DEF ClRetainDelete, At, TypeInv, ClwT, ClWell
    <3>2. DeleteSandbox(<<"claim", c>>, clw[c].o.sb, {}) /\ lastUID' = lastUID
      BY <2>2 DEF ClRetainDelete
    <3>3. QED
      BY <1>d, <3>1, <3>2, ThreadOf
  <2>3. QED
    BY <1>u, <1>2, <2>1, <2>2
    DEF ClaimStep, ClGet, ClRetain, ClResolve, ClBind, ClList, ClPick, ClAdopt, ClCreate, ClGot,
        writeClaimStatus
<1>3. ASSUME NEW p \in PoolNames, PoolStep(p)
      PROVE  HookMove(s)
  <2>1. CASE PlList(p)
    <3>1. \/ UNCHANGED hook
          \/ \E todo : hook' = [hook EXCEPT ![<<"pool", p>>] =
                                  [NoHook EXCEPT !.pc = "pdelete", !.todo = todo]]
      BY <2>1 DEF PlList
    <3>2. CASE \E todo : hook' = [hook EXCEPT ![<<"pool", p>>] =
                                    [NoHook EXCEPT !.pc = "pdelete", !.todo = todo]]
      <4>1. PICK todo : hook' = [hook EXCEPT ![<<"pool", p>>] =
                                   [NoHook EXCEPT !.pc = "pdelete", !.todo = todo]]
        BY <3>2
      <4>2. CASE s = <<"pool", p>>
        BY <1>0, <4>1, <4>2 DEF NoHook, HookBlank, HookMove
      <4>3. CASE s # <<"pool", p>>
        BY <1>0, <4>1, <4>3 DEF HookMove
      <4>4. QED
        BY <4>2, <4>3
    <3>3. QED
      BY <1>u, <3>1, <3>2
  <2>2. QED
    BY <1>u, <1>3, <2>1 DEF PoolStep, PlGet, PlCreate, writeWarmPoolStatus
<1>4. CASE (\E v \in PVCNames : PVCStep(v)) \/ Serve \/ SweepStep \/ UNCHANGED vars
  BY <1>u, <1>4
  DEF PVCStep, PvGet, PvEnsure, writePVCStatus, PvFrame, Serve, ContainerServe, ChownEnds,
      DockerFrame, SweepStep, BootLook, GcLook, SweepRemove, PurgeContainer, ListManagedVolumes,
      PurgeVolume, SweepFrame, vars
<1>5. CASE Crash
  BY <1>5 DEF Crash, Idle, NoHook, HookBlank, HookMove
<1>6. CASE User
  <2>1. ASSUME NEW x \in ApiThreads, NEW p \in PoolNames, ApiDeletePool(<<"api", x>>, p)
        PROVE  HookMove(s)
    <3>1. hook' = [hook EXCEPT ![<<"api", x>>] = [NoHook EXCEPT !.pc = "plist", !.name = p]]
      BY <2>1 DEF ApiDeletePool
    <3>2. CASE s = <<"api", x>>
      BY <1>0, <3>1, <3>2 DEF NoHook, HookBlank, HookMove
    <3>3. CASE s # <<"api", x>>
      BY <1>0, <3>1, <3>3 DEF HookMove
    <3>4. QED
      BY <3>2, <3>3
  <2>2. ASSUME NEW x \in ApiThreads, NEW v \in PVCNames, ApiDeletePVC(<<"api", x>>, v)
        PROVE  HookMove(s)
    <3> DEFINE t == <<"api", x>>
    <3>1. hook[t].pc = "none" /\ hook' = [hook EXCEPT ![t].pc = "volume", ![t].pv = v]
      BY <2>2 DEF ApiDeletePVC, DeletePVC, Free
    <3> HIDE DEF t
    <3>2. CASE s = t
      BY <1>0, <3>1, <3>2 DEF Hook, HookFrees, HookMove
    <3>3. CASE s # t
      BY <1>0, <3>1, <3>3 DEF HookMove
    <3>4. QED
      BY <3>2, <3>3
  <2>3. ASSUME NEW x \in ApiThreads, NEW c \in ClaimNames, ApiDeleteClaim(<<"api", x>>, c)
        PROVE  HookMove(s)
    BY <1>c, <2>3, ThreadOf DEF ApiDeleteClaim
  <2>4. ASSUME NEW x \in ApiThreads, NEW n \in SbNames, ApiDeleteSandbox(<<"api", x>>, n)
        PROVE  HookMove(s)
    BY <1>d, <2>4, ThreadOf DEF ApiDeleteSandbox
  <2>5. QED
    BY <1>u, <1>6, <2>1, <2>2, <2>3, <2>4
    DEF User, CreateClaim, CreatePool, ScalePool, ToggleTemplate, CreateSandbox, SetMode,
        CreatePVC, StartSweep, EventsEnd, Expire, ContainerExit
<1>7. QED
  BY <1>1, <1>2, <1>3, <1>4, <1>5, <1>6, HookMoves DEF Next

\* A sandbox that is stored after a step was stored before it, or is new.
LEMMA StoredUids ==
  ASSUME TypeInv, [Next]_vars
  PROVE  /\ lastUID' \in Nat /\ lastUID' >= lastUID
         /\ \A n \in Stored' : \/ sandboxes'[n].uid > lastUID
                               \/ \E m \in Stored : sandboxes[m].uid = sandboxes'[n].uid
<1>0. /\ lastUID \in Nat
      /\ \A n \in SbNames : sandboxes[n].uid \in Nat /\ (sandboxes[n] = NoObject <=> sandboxes[n].uid = 0)
      /\ sandboxes \in [SbNames -> Sandbox \cup {NoObject}]
  BY DEF TypeInv, StoreT, Sandbox, NoObject
<1>1. CASE Kept
  <2>1. \A n \in SbNames : sandboxes'[n] = NoObject <=> sandboxes'[n].uid = 0
    <3>1. TypeInv'
      BY NextType
    <3>2. QED
      BY <3>1 DEF TypeInv, StoreT, Sandbox, NoObject
  <2>2. QED
    BY <1>0, <1>1, <2>1 DEF Kept, Stored
<1>2. CASE Destroyed
  BY <1>0, <1>2 DEF Destroyed, Stored
<1>3. CASE MadeByUser \/ MadeByPool \/ MadeByClaim
  <2>1. PICK n \in SbNames, o \in Sandbox : Provisioned(n, o)
    BY <1>3, MadeProvisioned
  <2>2. QED
    BY <1>0, <2>1 DEF Provisioned, Stored
<1>4. CASE Adopted
  <2>1. PICK c \in ClaimNames : ClAdopt(c) /\ UpdateAccepts(c, clw[c].pick)
    BY <1>4 DEF Adopted
  <2>2. PICK n \in SbNames, o \in Sandbox :
          /\ sandboxes[n] \in Sandbox /\ o.uid = sandboxes[n].uid
          /\ sandboxes' = [sandboxes EXCEPT ![n] = o] /\ lastUID' = lastUID
    BY <2>1, AdoptEffect
  <2>3. NoObject \notin Sandbox
    BY DEF NoObject, Sandbox
  <2>4. QED
    BY <1>0, <2>2, <2>3 DEF Stored
<1>5. QED
  BY <1>1, <1>2, <1>3, <1>4, SandboxEffect

----------------------------------------------------------------------------
(* What a user created only a user deletes.                                *)

\* A hook that is not cleaning up holds nothing; one that cleans up after a
\* sandbox has the UID of one that is gone, and no other hook has the same;
\* without a UID it is removing the volume of a PVC that a user deleted.
HookHolds(t) ==
  /\ hook[t].pc \in {"none", "plist", "pdelete"} => hook[t].uid = 0 /\ hook[t].vols = {}
  /\ hook[t].pc \in {"cascade", "cdelete"} => hook[t].vols = {}
  /\ hook[t].pc \in Phase /\ hook[t].uid = 0 => hook[t].pc = "volume" /\ hook[t].vols = {}
  /\ hook[t].pc \in Phase => /\ hook[t].uid <= lastUID
                             /\ \A n \in Stored : sandboxes[n].uid # hook[t].uid
HooksApart ==
  \A s, t \in Threads :
    s # t /\ hook[s].pc \in Phase /\ hook[t].pc \in Phase /\ hook[s].uid = hook[t].uid
    => hook[t].uid = 0
\* what CleanupPVC found is still so when it deletes by name
StillOwned(t) ==
  hook[t].pc = "pvcdelete" =>
    pvcs[hook[t].pv] # NoObject /\ pvcs[hook[t].pv].owner = hook[t].uid
HookInv ==
  (\A t \in Threads : HookHolds(t)) /\ HooksApart /\ \A t \in Threads : StillOwned(t)

\* The hooks keep what they hold, and the UIDs of those that are gone.
LEMMA NextHolds ==
  ASSUME TypeInv, UidInv, HookInv, [Next]_vars, NEW t \in Threads
  PROVE  HookHolds(t)'
<1>0. lastUID \in Nat /\ hook[t].uid \in Nat /\ HookHolds(t)
  BY DEF TypeInv, StoreT, HookT, Hook, HookInv
<1>u. \A n \in SbNames : sandboxes[n] # NoObject =>
                           sandboxes[n].uid \in Nat \ {0} /\ sandboxes[n].uid <= lastUID
  BY DEF TypeInv, StoreT, Sandbox, UidInv, Stored
<1>s. hook[t].pc \in Phase => /\ hook[t].uid <= lastUID'
                              /\ \A n \in Stored' : sandboxes'[n].uid # hook[t].uid
  BY <1>0, StoredUids DEF HookHolds
<1>n. lastUID' >= lastUID /\ lastUID' \in Nat
      /\ \A n \in Stored' : sandboxes'[n].uid # 0
  <2>1. TypeInv'
    BY NextType
  <2>2. QED
    BY <2>1, StoredUids DEF TypeInv, StoreT, Sandbox, Stored
<1>1. CASE hook'[t] = hook[t]
  BY <1>0, <1>s, <1>1 DEF HookHolds
<1>2. CASE HookBlank(t)
  BY <1>2 DEF HookBlank, HookHolds, Phase
<1>3. CASE HookCascades(t)
  BY <1>0, <1>3 DEF HookCascades, HookHolds, Phase
<1>4. CASE HookBegins(t)
  <2>1. PICK n \in SbNames : /\ sandboxes[n] # NoObject
                             /\ sandboxes' = [sandboxes EXCEPT ![n] = NoObject]
                             /\ hook'[t].uid = sandboxes[n].uid
    BY <1>4 DEF HookBegins
  <2>2. hook'[t].pc = "inspect" /\ hook'[t].vols = {} /\ lastUID' = lastUID
    BY <1>4 DEF HookBegins
  <2>3. sandboxes[n].uid # 0 /\ sandboxes[n].uid <= lastUID
    BY <1>u, <2>1
  <2>4. \A m \in Stored' : sandboxes'[m].uid # sandboxes[n].uid
    BY <2>1 DEF TypeInv, StoreT, UidInv, Stored
  <2>5. QED
    BY <2>1, <2>2, <2>3, <2>4 DEF HookHolds, Phase
<1>5. CASE HookFrees(t)
  <2>1. hook'[t].pc = "volume" /\ hook'[t].uid = 0 /\ hook'[t].vols = {}
    BY <1>0, <1>5 DEF HookFrees, HookHolds
  <2>2. QED
    BY <1>0, <1>n, <2>1 DEF HookHolds
<1>6. CASE HookGoes(t)
  <2>1. hook[t].pc \in Phase /\ hook'[t].pc \in Phase /\ hook'[t].uid = hook[t].uid
    BY <1>6 DEF HookGoes
  <2>2. hook[t].uid # 0
    BY <1>0, <1>6 DEF HookGoes, HookHolds
  <2>3. QED
    BY <1>s, <2>1, <2>2 DEF HookHolds, Phase
<1>7. QED
  BY <1>1, <1>2, <1>3, <1>4, <1>5, <1>6, EveryHookMoves DEF HookMove

\* No two hooks clean up after the same sandbox.
LEMMA NextApart ==
  ASSUME TypeInv, UidInv, HookInv, [Next]_vars
  PROVE  HooksApart'
<1> SUFFICES ASSUME NEW s \in Threads, NEW t \in Threads, s # t,
                    hook'[s].pc \in Phase, hook'[t].pc \in Phase, hook'[s].uid = hook'[t].uid
             PROVE  hook'[t].uid = 0
  BY DEF HooksApart
<1>h. HookHolds(s) /\ HookHolds(t) /\ HooksApart
  BY DEF HookInv
<1>1. ASSUME NEW a \in Threads, hook'[a].pc \in Phase
      PROVE  \/ hook'[a].uid = 0
             \/ hook[a].pc \in Phase /\ hook'[a].uid = hook[a].uid
             \/ HookBegins(a)
  <2>1. HookHolds(a) /\ HookMove(a)
    BY EveryHookMoves DEF HookInv
  <2>2. QED
    BY <1>1, <2>1
    DEF HookMove, HookBlank, HookCascades, HookFrees, HookGoes, HookHolds, Phase
<1>2. ASSUME NEW a \in Threads, NEW b \in Threads, a # b, HookBegins(a), hook'[b].pc \in Phase
      PROVE  hook'[a].uid # hook'[b].uid
  <2>1. PICK n \in SbNames : sandboxes[n] # NoObject /\ hook'[a].uid = sandboxes[n].uid
    BY <1>2 DEF HookBegins
  <2>2. hook'[b] = hook[b] /\ HookHolds(b)
    BY <1>2 DEF HookBegins, HookInv
  <2>3. QED
    BY <1>2, <2>1, <2>2 DEF HookHolds, Stored
<1>3. QED
  BY <1>h, <1>1, <1>2 DEF HooksApart

\* The PVC that a hook is about to delete is still the sandbox's.
LEMMA NextStillOwned ==
  ASSUME "unvct" \notin UserOps, TypeInv, HookInv, [Next]_vars, NEW t \in Threads
  PROVE  StillOwned(t)'
<1> SUFFICES ASSUME hook'[t].pc = "pvcdelete"
             PROVE  pvcs'[hook'[t].pv] # NoObject /\ pvcs'[hook'[t].pv].owner = hook'[t].uid
  BY DEF StillOwned
<1>1. hook'[t] = hook[t] \/ HookGoes(t)
  BY EveryHookMoves DEF HookMove, HookBlank, HookCascades, HookBegins, HookFrees
<1>2. CASE HookGoes(t)
  BY <1>2 DEF HookGoes
<1>3. CASE hook'[t] = hook[t]
  <2>1. PICK v \in PVCNames : v = hook[t].pv
    BY <1>3 DEF TypeInv, HookT, HookWell
  <2>2. pvcs[v] # NoObject /\ pvcs[v].owner = hook[t].uid /\ hook[t].uid # 0
    BY <1>3, <2>1 DEF HookInv, StillOwned, HookHolds, Phase
  <2>3. ~PVCDropped(v)
    BY <2>2 DEF PVCDropped
  <2>4. ~PVCCleaned(v)
    <3> SUFFICES ASSUME NEW s \in Threads, CleanupDelete(s), hook[s].pv = v, pvcs'[v] = NoObject
                 PROVE  FALSE
      BY DEF PVCCleaned
    <3>1. hook[s].pc = "pvcdelete"
      BY DEF CleanupDelete
    <3>2. hook[s].uid = hook[t].uid
      BY <2>2, <3>1 DEF HookInv, StillOwned
    <3>3. s = t
      BY <1>3, <2>2, <3>1, <3>2 DEF HookInv, HooksApart, Phase
    <3>4. hook' = [hook EXCEPT ![t].pc = "volume", ![t].pv = v]
      BY <2>1, <2>2, <3>3 DEF CleanupDelete, DeletePVC
    <3>5. hook'[t].pc = "volume"
      BY <3>4 DEF TypeInv, HookT, Hook
    <3>6. QED
      BY <3>5
  <2>5. PVCKept(v)
    BY <2>2, <2>3, <2>4, PVCEffect DEF PVCMade
  <2>6. pvcs'[v] # NoObject /\ pvcs'[v].owner = hook[t].uid
    BY <2>2, <2>5 DEF PVCKept
  <2>7. QED
    BY <1>3, <2>1, <2>6
<1>4. QED
  BY <1>1, <1>2, <1>3

\* The PVCs that users created stay until a user deletes them, however many
\* sandboxes whose templates name them are deleted (cleanupSandboxResources),
\* as long as users do not delete the sandboxes' own PVCs.
THEOREM UserPVCsKept ==
  ASSUME "unvct" \notin UserOps
  PROVE  Spec => UserPVCKept
<1>1. Init => HookInv
  BY DEF Init, HookInv, HookHolds, HooksApart, StillOwned, NoHook, Phase
<1>2. TypeInv /\ UidInv /\ HookInv /\ [Next]_vars => HookInv'
  BY NextHolds, NextApart, NextStillOwned DEF HookInv
<1>3. TypeInv /\ HookInv /\ [Next]_vars =>
        [\A v \in PVCNames :
           pvcs[v] # NoObject /\ pvcs[v].owner = 0 /\ pvcs'[v] # pvcs[v] =>
             pvcs'[v].uid = pvcs[v].uid \/ ops' = ops + 1]_vars
  <2> SUFFICES ASSUME TypeInv, HookInv, [Next]_vars,
                      NEW v \in PVCNames, pvcs[v] # NoObject, pvcs[v].owner = 0
               PROVE  pvcs'[v].uid = pvcs[v].uid \/ ops' = ops + 1
    OBVIOUS
  <2>1. ~PVCCleaned(v)
    BY DEF PVCCleaned, CleanupDelete, HookInv, HookHolds, StillOwned, Phase
  <2>2. QED
    BY <2>1, PVCEffect DEF PVCKept, PVCMade, PVCDropped
<1>4. QED
  BY <1>1, <1>2, <1>3, UidsAndPicks, PTL DEF Spec, UserPVCKept

----------------------------------------------------------------------------
(* No container without the PVCs that its pod refers to.                   *)

\* Sandboxes own PVCs of templates only, and the loops over templates and the
\* hooks' loops go over those only.
TemplateInv ==
  /\ \A v \in PVCNames : pvcs[v] # NoObject /\ pvcs[v].owner # 0 => v \in FromTemplate
  /\ \A t \in Threads : /\ hook[t].vols \subseteq FromTemplate
                        /\ hook[t].pc = "pvcdelete" => hook[t].pv \in FromTemplate
  /\ \A n \in SbNames : sbw[n].pc = "vct" => sbw[n].vols \subseteq TemplatePVCs[n]
\* What a reconcile has got past exists, and what a container needs.
Passed(n) ==
  /\ sbw[n].pc \in {"pvc", "ensure"} => \A v \in PodPVCs[n] \ sbw[n].vols : pvcs[v] # NoObject
  /\ sbw[n].pc \in {"inspect", "prepare", "chown", "create"} => PodBacked(n)
  /\ OfSandbox(n) # {} => PodBacked(n)
MountInv == TemplateInv /\ \A n \in SbNames : Passed(n)

\* the steps of a reconcile up to the creation of the container
PathPcs == {"vct", "pvc", "ensure", "inspect", "prepare", "chown", "create"}
\* How a reconcile of n gets along it.
OnPath(n) ==
  \/ sbw[n].pc = "owner" /\ sbw'[n].pc = "vct" /\ sbw'[n].vols \subseteq TemplatePVCs[n]
  \/ sbw[n].pc = "vct" /\ sbw'[n].pc = "vct" /\ sbw'[n].vols \subseteq sbw[n].vols
  \/ sbw'[n].pc = "pvc" /\ sbw'[n].vols = Mounts(n) /\ Mounts(n) # {}
  \/ sbw'[n].pc = "inspect" /\ Mounts(n) = {}
  \/ /\ sbw[n].pc = "pvc" /\ sbw'[n].pc = "ensure"
     /\ \E v : pvcs[v] # NoObject /\ sbw'[n].vols = sbw[n].vols \ {v}
  \/ /\ sbw[n].pc = "ensure" /\ sbw'[n].vols = sbw[n].vols
     /\ sbw'[n].pc = "pvc" \/ (sbw'[n].pc = "inspect" /\ sbw[n].vols = {})
  \/ sbw[n].pc \in {"inspect", "prepare", "chown"} /\ sbw'[n].pc \in {"prepare", "chown", "create"}

\* A step of a reconcile that is on the path afterwards is one of these.
LEMMA PathEffect ==
  ASSUME TypeInv, NEW n \in SbNames, SandboxStep(n), sbw'[n].pc \in PathPcs
  PROVE  sbw'[n] = sbw[n] \/ OnPath(n)
<1>0. sbw \in [SbNames -> SbThread] /\ sbw[n] \in SbThread
  BY DEF TypeInv, SbwT
<1>g. ASSUME NEW pc, NEW st, SbGoto(n, pc, st) PROVE sbw'[n].pc = pc
  BY <1>g, SbGoes
<1>d. ~SbDone(n)
  BY SbEnds DEF PathPcs
<1>e. ASSUME NEW left, EachTemplate(n, left),
             \/ left \subseteq TemplatePVCs[n] /\ sbw[n].pc = "owner"
             \/ left \subseteq sbw[n].vols /\ sbw[n].pc = "vct"
      PROVE  OnPath(n)
  <2>1. CASE left # {}
    <3>1. sbw'[n].pc = "vct" /\ sbw'[n].vols = left
      BY <1>0, <1>e, <2>1 DEF EachTemplate, SbThread
    <3>2. QED
      BY <1>e, <3>1 DEF OnPath
  <2>2. CASE left = {}
    <3>1. /\ sbw'[n].vols = Mounts(n)
          /\ sbw'[n].pc = IF Mounts(n) = {} THEN "inspect" ELSE "pvc"
      BY <1>0, <1>e, <2>2 DEF EachTemplate, SbThread
    <3>2. QED
      BY <3>1 DEF OnPath
  <2>3. QED
    BY <2>1, <2>2
<1>1. CASE SbGet(n)
  <2>1. sbw' = sbw \/ sbw'[n] = [IdleSandbox EXCEPT !.pc = "owner", !.o = sandboxes[n]]
    BY <1>0, <1>1 DEF SbGet
  <2>2. QED
    BY <2>1 DEF IdleSandbox, PathPcs
<1>2. CASE SbOwner(n)
  <2>1. /\ sbw[n].pc = "owner"
        /\ \/ \E st : SbGoto(n, "delete", st) \/ SbGoto(n, "expire", st) \/ SbGoto(n, "suspend", st)
           \/ EachTemplate(n, TemplatePVCs[n])
    BY <1>2 DEF SbOwner
  <2>2. CASE EachTemplate(n, TemplatePVCs[n])
    BY <1>e, <2>1, <2>2
  <2>3. CASE \E st : SbGoto(n, "delete", st) \/ SbGoto(n, "expire", st) \/ SbGoto(n, "suspend", st)
    BY <1>g, <2>3 DEF PathPcs
  <2>4. QED
    BY <2>1, <2>2, <2>3
<1>3. CASE SbDelete(n) \/ writeSandboxStatus(n)
  BY <1>d, <1>3 DEF SbDelete, writeSandboxStatus, SbRequeue
<1>4. CASE ensureVCTPVCObject(n)
  <2>1. PICK v : EachTemplate(n, sbw[n].vols \ {v})
    BY <1>4 DEF ensureVCTPVCObject
  <2>2. sbw[n].pc = "vct"
    BY <1>4 DEF ensureVCTPVCObject
  <2>3. QED
    BY <1>e, <2>1, <2>2
<1>5. CASE SbPVC(n)
  <2>1. /\ sbw[n].pc = "pvc"
        /\ \/ \E st : SbGoto(n, "status", st)
           \/ \E v : /\ pvcs[v] # NoObject
                     /\ sbw' = [sbw EXCEPT ![n].pc = "ensure", ![n].vols = @ \ {v}, ![n].pv = v]
    BY <1>5 DEF SbPVC
  <2>2. CASE \E st : SbGoto(n, "status", st)
    BY <1>g, <2>2 DEF PathPcs
  <2>3. ASSUME NEW v, pvcs[v] # NoObject,
               sbw' = [sbw EXCEPT ![n].pc = "ensure", ![n].vols = @ \ {v}, ![n].pv = v]
        PROVE  OnPath(n)
    <3>1. sbw'[n].pc = "ensure" /\ sbw'[n].vols = sbw[n].vols \ {v}
      BY <1>0, <2>3 DEF SbThread
    <3>2. QED
      BY <2>1, <2>3, <3>1 DEF OnPath
  <2>4. QED
    BY <2>1, <2>2, <2>3
<1>6. CASE SbEnsure(n)
  <2>1. /\ sbw[n].pc = "ensure"
        /\ sbw' = [sbw EXCEPT ![n].pv = NoName,
                     ![n].pc = IF sbw[n].vols = {} THEN "inspect" ELSE "pvc"]
    BY <1>d, <1>6 DEF SbEnsure, SbRequeue
  <2>2. /\ sbw'[n].pc = IF sbw[n].vols = {} THEN "inspect" ELSE "pvc"
        /\ sbw'[n].vols = sbw[n].vols
    BY <1>0, <2>1 DEF SbThread
  <2>3. QED
    BY <2>1, <2>2 DEF OnPath
<1>7. CASE SbInspect(n)
  <2>1. \/ \E st : SbGoto(n, "status", st)
        \/ \E st : SbGoto(n, "prepare", st) \/ SbGoto(n, "create", st)
    BY <1>d, <1>7 DEF SbInspect, SbRequeue
  <2>2. CASE \E st : SbGoto(n, "status", st)
    BY <1>g, <2>2 DEF PathPcs
  <2>3. CASE \E st : SbGoto(n, "prepare", st) \/ SbGoto(n, "create", st)
    <3>1. sbw'[n].pc \in {"prepare", "create"}
      BY <1>g, <2>3
    <3>2. sbw[n].pc = "inspect"
      BY <1>7 DEF SbInspect
    <3>3. QED
      BY <3>1, <3>2 DEF OnPath
  <2>4. QED
    BY <2>1, <2>2, <2>3
<1>8. CASE SbPrepare(n) \/ SbChown(n)
  <2>1. /\ sbw[n].pc \in {"prepare", "chown"}
        /\ \/ sbw' = [sbw EXCEPT ![n].pc = "chown", ![n].id = lastUID + 1]
           \/ SbGoto(n, "create", sbw[n].st)
    BY <1>8 DEF SbPrepare, SbChown, ContainerCreate
  <2>2. sbw'[n].pc \in {"chown", "create"}
    BY <1>0, <1>g, <2>1 DEF SbThread
  <2>3. QED
    BY <2>1, <2>2 DEF OnPath
<1>9. CASE SbCreate(n)
  <2>1. sbw' = [sbw EXCEPT ![n].pc = "start", ![n].id = lastUID + 1]
    BY <1>d, <1>9 DEF SbCreate, ContainerCreate, SbRequeue
  <2>2. sbw'[n].pc = "start"
    BY <1>0, <2>1 DEF SbThread
  <2>3. QED
    BY <2>2 DEF PathPcs
<1>10. CASE SbStart(n) \/ SbSuspendRemove(n) \/ SbExpireRemove(n)
  <2>1. \E st : SbGoto(n, "status", st) \/ SbGoto(n, "delete", st)
    BY <1>d, <1>10 DEF SbStart, SbSuspendRemove, SbExpireRemove, SbRequeue, AfterExpiry
  <2>2. QED
    BY <1>g, <2>1 DEF PathPcs
<1>11. CASE SbSuspend(n) \/ SbExpire(n)
  <2>1. \/ \E st : SbGoto(n, "status", st) \/ SbGoto(n, "delete", st)
        \/ \E id : sbw' = [sbw EXCEPT ![n].pc = "susremove", ![n].id = id]
        \/ \E id : sbw' = [sbw EXCEPT ![n].pc = "expremove", ![n].id = id]
    BY <1>11 DEF SbSuspend, SbExpire, AfterExpiry
  <2>2. CASE \E st : SbGoto(n, "status", st) \/ SbGoto(n, "delete", st)
    BY <1>g, <2>2 DEF PathPcs
  <2>3. CASE \E id : sbw' = [sbw EXCEPT ![n].pc = "susremove", ![n].id = id]
    <3>1. sbw'[n].pc = "susremove"
      BY <1>0, <2>3 DEF SbThread
    <3>2. QED
      BY <3>1 DEF PathPcs
  <2>4. CASE \E id : sbw' = [sbw EXCEPT ![n].pc = "expremove", ![n].id = id]
    <3>1. sbw'[n].pc = "expremove"
      BY <1>0, <2>4 DEF SbThread
    <3>2. QED
      BY <3>1 DEF PathPcs
  <2>5. QED
    BY <2>1, <2>2, <2>3, <2>4
<1>12. QED
  BY <1>1, <1>2, <1>3, <1>4, <1>5, <1>6, <1>7, <1>8, <1>9, <1>10, <1>11 DEF SandboxStep

\* A reconcile that is on the path after a step was there, or got along it.
LEMMA EveryPath ==
  ASSUME TypeInv, NEW n \in SbNames, [Next]_vars, sbw'[n].pc \in PathPcs
  PROVE  sbw'[n] = sbw[n] \/ OnPath(n)
  BY PathEffect, SandboxThreadEffect DEF IdleSandbox, PathPcs

\* The PVCs of templates stay apart from the others.
LEMMA NextTemplate ==
  ASSUME TypeInv, TemplateInv, [Next]_vars
  PROVE  TemplateInv'
<1>1. ASSUME NEW v \in PVCNames, pvcs'[v] # NoObject, pvcs'[v].owner # 0
      PROVE  v \in FromTemplate
  <2>1. CASE PVCKept(v)
    BY <1>1, <2>1 DEF PVCKept, TemplateInv
  <2>2. ASSUME NEW n \in SbNames, sbw[n].pc = "vct", v \in sbw[n].vols
        PROVE  v \in FromTemplate
    BY <2>2 DEF TemplateInv, FromTemplate
  <2>3. QED
    BY <1>1, <2>1, <2>2, PVCEffect DEF PVCMade, PVCCleaned, PVCDropped
<1>2. ASSUME NEW t \in Threads
      PROVE  /\ hook'[t].vols \subseteq FromTemplate
             /\ hook'[t].pc = "pvcdelete" => hook'[t].pv \in FromTemplate
  <2>1. HookMove(t)
    BY EveryHookMoves
  <2>2. /\ hook[t].vols \subseteq FromTemplate
        /\ hook[t].pc = "pvcdelete" => hook[t].pv \in FromTemplate
    BY DEF TemplateInv
  <2>3. QED
    BY <2>1, <2>2
    DEF HookMove, HookBlank, HookCascades, HookBegins, HookFrees, HookGoes
<1>3. ASSUME NEW n \in SbNames, sbw'[n].pc = "vct"
      PROVE  sbw'[n].vols \subseteq TemplatePVCs[n]
  BY <1>3, EveryPath DEF OnPath, PathPcs, TemplateInv
<1>4. QED
  BY <1>1, <1>2, <1>3 DEF TemplateInv

\* A PVC that a pod refers to and no template names stays.
LEMMA PodPVCStays ==
  ASSUME "unpod" \notin UserOps, FromTemplate \cap ForPods = {},
         TypeInv, TemplateInv, [Next]_vars,
         NEW n \in SbNames, NEW v \in PodPVCs[n], pvcs[v] # NoObject
  PROVE  pvcs'[v] # NoObject
<1>1. v \in PVCNames /\ v \in ForPods /\ v \notin FromTemplate
  BY ClusterAssumption DEF ForPods
<1>2. pvcs[v].owner = 0
  BY <1>1 DEF TemplateInv
<1>3. ~PVCDropped(v)
  BY <1>2 DEF PVCDropped
<1>4. ~PVCCleaned(v)
  BY <1>1 DEF PVCCleaned, CleanupDelete, TemplateInv
<1>5. QED
  BY <1>1, <1>3, <1>4, PVCEffect DEF PVCKept, PVCMade

\* A container has its PVCs, and a reconcile that is to create one found them.
LEMMA NextPassed ==
  ASSUME "unpod" \notin UserOps, FromTemplate \cap ForPods = {},
         TypeInv, MountInv, [Next]_vars, NEW n \in SbNames
  PROVE  Passed(n)'
<1>0. Passed(n) /\ TemplateInv
  BY DEF MountInv
<1>k. \A v \in PodPVCs[n] : pvcs[v] # NoObject => pvcs'[v] # NoObject
  BY <1>0, PodPVCStays
<1>b. PodBacked(n) => PodBacked(n)'
  BY <1>k DEF PodBacked
<1>1. ASSUME sbw'[n].pc \in {"pvc", "ensure"}, NEW v \in PodPVCs[n], v \notin sbw'[n].vols
      PROVE  pvcs'[v] # NoObject
  <2>1. sbw'[n] = sbw[n] \/ OnPath(n)
    BY <1>1, EveryPath DEF PathPcs
  <2>2. v \in Mounts(n)
    BY DEF Mounts
  <2>3. CASE sbw'[n] = sbw[n]
    BY <1>0, <1>1, <1>k, <2>3 DEF Passed
  <2>4. CASE OnPath(n)
    <3>1. \/ sbw'[n].pc = "pvc" /\ sbw'[n].vols = Mounts(n)
          \/ sbw[n].pc = "ensure" /\ sbw'[n].vols = sbw[n].vols
          \/ /\ sbw[n].pc = "pvc"
             /\ \E w : pvcs[w] # NoObject /\ sbw'[n].vols = sbw[n].vols \ {w}
      BY <1>1, <2>4 DEF OnPath
    <3>2. pvcs[v] # NoObject
      BY <1>0, <1>1, <2>2, <3>1 DEF Passed
    <3>3. QED
      BY <1>k, <3>2
  <2>5. QED
    BY <2>1, <2>3, <2>4
<1>2. ASSUME sbw'[n].pc \in {"inspect", "prepare", "chown", "create"}
      PROVE  PodBacked(n)'
  <2>1. sbw'[n] = sbw[n] \/ OnPath(n)
    BY <1>2, EveryPath DEF PathPcs
  <2>2. PodBacked(n)
    BY <1>0, <1>2, <2>1 DEF OnPath, Passed, PodBacked, Mounts
  <2>3. QED
    BY <1>b, <2>2
<1>3. ASSUME OfSandbox(n)' # {}
      PROVE  PodBacked(n)'
  <2>1. CASE Held(n)
    <3>1. OfSandbox(n) # {}
      BY <1>3, <2>1 DEF Held
    <3>2. QED
      BY <1>0, <1>b, <3>1 DEF Passed
  <2>2. CASE SbPrepare(n) \/ SbCreate(n)
    <3>1. sbw[n].pc \in {"prepare", "create"}
      BY <2>2 DEF SbPrepare, SbCreate
    <3>2. QED
      BY <1>0, <1>b, <3>1 DEF Passed
  <2>3. QED
    BY <2>1, <2>2, ContainersEffect
<1>4. QED
  BY <1>1, <1>2, <1>3 DEF Passed

\* No container is without the PVCs that its pod refers to (reconcileRunning's
\* loop over the volumes), when users leave those alone and no template yields
\* a PVC that a pod refers to by name.
THEOREM MountsStayBacked ==
  ASSUME "unpod" \notin UserOps, FromTemplate \cap ForPods = {}
  PROVE  Spec => []MountsBacked
<1>1. Init => MountInv
  <2> SUFFICES ASSUME Init
               PROVE  MountInv
    OBVIOUS
  <2>1. \A v \in PVCNames : pvcs[v] # NoObject => pvcs[v].owner = 0
    BY DEF Init, NoObject
  <2>2. TemplateInv
    BY <2>1 DEF Init, TemplateInv, NoHook, IdleSandbox
  <2>3. \A n \in SbNames : Passed(n)
    BY DEF Init, Passed, IdleSandbox, OfSandbox
  <2>4. QED
    BY <2>2, <2>3 DEF MountInv
<1>2. TypeInv /\ MountInv /\ [Next]_vars => MountInv'
  BY NextTemplate, NextPassed DEF MountInv
<1>3. TypeInv /\ MountInv => MountsBacked
  BY DEF MountInv, Passed, MountsBacked, OfSandbox, TypeInv, DockerT, Container
<1>4. QED
  BY <1>1, <1>2, <1>3, TypesAndThreads, PTL DEF Spec

(***************************************************************************)
(* Suspended means gone.                                                   *)
(***************************************************************************)
----------------------------------------------------------------------------
(* The inductive invariant.                                                *)

\* the stored sandbox n says Suspended; so does the copy of its reconcile
Says(n) == sandboxes[n] # NoObject /\ sandboxes[n].st.suspended
Read(n) == sbw[n].pc # "idle" /\ sbw[n].o.st.suspended
\* the reconcile works on the container it has found or made
Leaving == {"susremove", "expremove", "start"}
\* the reconcile has made a container, and the status is not yet written
Away == {"chown", "start", "status"}

\* the container that is being worked on is the only one; a status that will
\* say Suspended, or that says so already, is about a sandbox without one.  The
\* last two need the status write that follows a creation: a crash can come
\* between them, and then only a reconcile that never looks for PVCs recovers.
Cleared(n) ==
  /\ sbw[n].pc \in Leaving => \A c \in OfSandbox(n) : c.id = sbw[n].id
  /\ /\ crashes = 0 \/ Mounts(n) = {}
     /\ sbw[n].pc = "status" /\ sbw[n].st.suspended
     => OfSandbox(n) = {}
  /\ crashes = 0 /\ sbw[n].pc \notin Away /\ (Says(n) \/ Read(n)) => OfSandbox(n) = {}
SuspendInv ==
  \A n \in SbNames :
    /\ sbw[n].pc \in {"pvc", "ensure"} => Mounts(n) # {}
    /\ faults = 0 => Cleared(n)

----------------------------------------------------------------------------
(* Who makes a sandbox say Suspended.                                      *)

\* no sandbox begins to say Suspended
StKept == \A n \in SbNames : Says(n)' => Says(n)

\* A write that leaves the status alone, and one of a new sandbox.
LEMMA PutStKept ==
  ASSUME TypeInv, NEW n \in SbNames, NEW o, PutSandbox(n, o),
         ~o.st.suspended \/ (sandboxes[n] # NoObject /\ o.st = sandboxes[n].st)
  PROVE  StKept
<1>1. \A m \in SbNames : sandboxes'[m] = IF m = n THEN o ELSE sandboxes[m]
  BY DEF PutSandbox, TypeInv, StoreT
<1>2. QED
  BY <1>1 DEF StKept, Says

\* A delete takes a sandbox away, or none.
LEMMA DeleteStKept ==
  ASSUME TypeInv, NEW t, NEW n \in SbNames, NEW todo, DeleteSandbox(t, n, todo)
  PROVE  StKept
<1>1. CASE UNCHANGED sandboxes
  BY <1>1 DEF StKept, Says
<1>2. CASE sandboxes' = [sandboxes EXCEPT ![n] = NoObject]
  <2>1. \A m \in SbNames : sandboxes'[m] = IF m = n THEN NoObject ELSE sandboxes[m]
    BY <1>2 DEF TypeInv, StoreT
  <2>2. QED
    BY <2>1 DEF StKept, Says
<1>3. QED
  BY <1>1, <1>2 DEF DeleteSandbox

\* Only the status write of its own reconcile makes a sandbox say Suspended.
LEMMA StatusEffect ==
  ASSUME TypeInv, [Next]_vars, NEW n \in SbNames, Says(n)'
  PROVE  Says(n) \/ (writeSandboxStatus(n) /\ sandboxes[n] # NoObject /\ sbw[n].st.suspended)
<1>0. sandboxes \in [SbNames -> Sandbox \cup {NoObject}] /\ ~NoConditions.suspended
  BY DEF TypeInv, StoreT, NoConditions
<1>k. StKept => Says(n)
  BY DEF StKept
<1>u. UNCHANGED sandboxes => Says(n)
  BY DEF Says
<1>1. CASE User
  <2>1. ASSUME NEW t, NEW m \in SbNames, ApiDeleteSandbox(t, m)
        PROVE  StKept
    BY <2>1, DeleteStKept DEF ApiDeleteSandbox
  <2>2. ASSUME NEW m \in BareNames, NEW policy, CreateSandbox(m, policy)
        PROVE  StKept
    <3>1. PICK o : o.st = NoConditions /\ PutSandbox(m, o)
      BY <2>2 DEF CreateSandbox
    <3>2. QED
      BY <1>0, <3>1, PutStKept DEF SbNames
  <2>3. ASSUME NEW m \in SbNames, SetMode(m)
        PROVE  StKept
    <3>1. sandboxes[m] # NoObject /\ sandboxes[m] \in Sandbox
      BY <1>0, <2>3 DEF SetMode
    <3>2. PICK o : o.st = sandboxes[m].st /\ PutSandbox(m, o)
      BY <2>3, <3>1 DEF SetMode, Sandbox
    <3>3. QED
      BY <3>1, <3>2, PutStKept
  <2>4. CASE Expire
    <3>1. CASE \E m \in SbNames : /\ sandboxes[m] # NoObject
                                  /\ sandboxes' = [sandboxes EXCEPT ![m].due = TRUE]
      <4>1. PICK m \in SbNames : /\ sandboxes[m] # NoObject
                                 /\ sandboxes' = [sandboxes EXCEPT ![m].due = TRUE]
        BY <3>1
      <4>2. sandboxes[m] \in Sandbox
        BY <1>0, <4>1
      <4>3. \A k \in SbNames : sandboxes'[k] = IF k = m THEN [sandboxes[m] EXCEPT !.due = TRUE]
                                               ELSE sandboxes[k]
        BY <1>0, <4>1
      <4>4. [sandboxes[m] EXCEPT !.due = TRUE].st = sandboxes[m].st
        BY <4>2 DEF Sandbox
      <4>5. QED
        BY <4>1, <4>3, <4>4 DEF Says
    <3>2. QED
      BY <1>u, <2>4, <3>1 DEF Expire
  <2>5. QED
    BY <1>1, <1>k, <1>u, <2>1, <2>2, <2>3, <2>4
    DEF User, CreateClaim, ApiDeleteClaim, ApiDeletePool, ApiDeletePVC, CreatePool, ScalePool,
        ToggleTemplate, CreatePVC, StartSweep, EventsEnd, ContainerExit
<1>2. ASSUME NEW m \in SbNames, SandboxStep(m)
      PROVE  Says(n) \/ (writeSandboxStatus(n) /\ sandboxes[n] # NoObject /\ sbw[n].st.suspended)
  <2>1. CASE SbDelete(m)
    BY <1>k, <2>1, DeleteStKept DEF SbDelete
  <2>2. CASE writeSandboxStatus(m)
    <3>1. CASE sandboxes[m] = NoObject
      BY <1>u, <2>2, <3>1 DEF writeSandboxStatus
    <3>2. CASE sandboxes[m] # NoObject
      <4>1. sandboxes[m] \in Sandbox
        BY <1>0, <3>2
      <4>2. PICK o : o.st = sbw[m].st /\ PutSandbox(m, o)
        BY <2>2, <3>2, <4>1 DEF writeSandboxStatus, Sandbox
      <4>3. sandboxes'[n] = IF n = m THEN o ELSE sandboxes[n]
        BY <1>0, <4>2 DEF PutSandbox
      <4>4. QED
        BY <2>2, <3>2, <4>2, <4>3 DEF Says
    <3>3. QED
      BY <3>1, <3>2
  <2>3. QED
    BY <1>2, <1>u, <2>1, <2>2
    DEF SandboxStep, SbGet, SbOwner, ensureVCTPVCObject, SbPVC, SbEnsure, SbInspect, SbPrepare,
        SbChown, SbCreate, SbStart, SbSuspend, SbSuspendRemove, SbExpire, SbExpireRemove
<1>3. ASSUME NEW c \in ClaimNames, ClaimStep(c)
      PROVE  Says(n)
  <2>1. CASE ClRetainDelete(c)
    <3>1. clw[c].o.sb \in SbNames
      BY <2>1 DEF ClRetainDelete, At, TypeInv, ClwT, ClWell
    <3>2. QED
      BY <1>k, <2>1, <3>1, DeleteStKept DEF ClRetainDelete
  <2>2. CASE ClAdopt(c)
    <3>1. CASE UpdateAccepts(c, clw[c].pick)
      <4>1. clw[c].pick \in SbNames /\ sandboxes[clw[c].pick] \in Sandbox
        BY <2>2, <3>1, AdoptEffect
      <4>2. sandboxes[clw[c].pick] # NoObject
        BY <3>1 DEF UpdateAccepts
      <4>3. PICK o : o.st = sandboxes[clw[c].pick].st /\ PutSandbox(clw[c].pick, o)
        BY <2>2, <3>1, <4>1, <4>2 DEF ClAdopt, Sandbox
      <4>4. QED
        BY <1>k, <4>1, <4>2, <4>3, PutStKept
    <3>2. QED
      BY <1>u, <2>2, <3>1 DEF ClAdopt
  <2>3. CASE ClCreate(c)
    <3>1. CASE sandboxes[c] = NoObject
      <4>1. PICK o : o.st = NoConditions /\ PutSandbox(c, o)
        BY <2>3, <3>1 DEF ClCreate
      <4>2. QED
        BY <1>0, <1>k, <4>1, PutStKept DEF SbNames
    <3>2. QED
      BY <1>u, <2>3, <3>1 DEF ClCreate
  <2>4. QED
    BY <1>3, <1>u, <2>1, <2>2, <2>3
    DEF ClaimStep, ClGet, ClDelete, ClRetain, ClResolve, ClBind, ClList, ClPick, ClGot,
        writeClaimStatus
<1>4. ASSUME NEW p \in PoolNames, PoolStep(p)
      PROVE  Says(n)
  <2>1. CASE PlCreate(p)
    <3>1. PICK m, o : m \in WarmNames /\ o.st = NoConditions /\ PutSandbox(m, o)
      BY <2>1 DEF PlCreate
    <3>2. QED
      BY <1>0, <1>k, <3>1, PutStKept DEF SbNames
  <2>2. QED
    BY <1>4, <1>u, <2>1 DEF PoolStep, PlGet, PlList, writeWarmPoolStatus
<1>5. ASSUME NEW t \in Threads, HookStep(t)
      PROVE  Says(n)
  <2>0. hook[t] \in Hook /\ HookWell(hook[t])
    BY DEF TypeInv, HookT
  <2>1. CASE CascadeDelete(t)
    <3>1. hook[t].name \in SbNames
      BY <2>0, <2>1 DEF CascadeDelete, HookWell
    <3>2. QED
      BY <1>k, <2>1, <3>1, DeleteStKept DEF CascadeDelete
  <2>2. CASE CascadeEach(t)
    <3>1. hook[t].todo \subseteq SbNames
      BY <2>0 DEF Hook
    <3>2. QED
      BY <1>k, <2>2, <3>1, DeleteStKept DEF CascadeEach
  <2>3. QED
    BY <1>5, <1>u, <2>1, <2>2
    DEF HookStep, CascadeCheck, CascadeList, CleanupInspect, CleanupRemove, CleanupPVC,
        CleanupDelete, CleanupVolume
<1>6. CASE (\E v \in PVCNames : PVCStep(v)) \/ Serve \/ SweepStep \/ Crash \/ UNCHANGED vars
  BY <1>6, <1>u
  DEF PVCStep, PvGet, PvEnsure, writePVCStatus, PvFrame, Serve, ContainerServe, ChownEnds,
      DockerFrame, SweepStep, BootLook, GcLook, SweepRemove, PurgeContainer, ListManagedVolumes,
      PurgeVolume, SweepFrame, Crash, vars
<1>7. QED
  BY <1>1, <1>2, <1>3, <1>4, <1>5, <1>6 DEF Next

----------------------------------------------------------------------------
(* The invariant is inductive.                                             *)

\* The status that a step of a reconcile leaves to be written.
LEMMA SbSays ==
  ASSUME TypeInv, NEW n \in SbNames, NEW pc, NEW st, SbGoto(n, pc, st)
  PROVE  sbw'[n].st = st
  BY DEF SbGoto, TypeInv, SbwT, SbThread

\* What the statuses say: only reconcileSuspended says Suspended anew.
LEMMA StatusSays ==
  /\ \A st \in Conditions : failReady(st).suspended = st.suspended
  /\ \A st \in Conditions : \A state : ~Observed(st, state).suspended
<1>1. \A st \in Conditions : failReady(st).suspended = st.suspended
  BY DEF failReady, Conditions
<1>2. ASSUME NEW st \in Conditions, NEW state
      PROVE  ~Observed(st, state).suspended
  BY DEF Observed, Conditions
<1>3. QED
  BY <1>1, <1>2

\* Without any container everything that is said is true.
LEMMA NoneCleared ==
  ASSUME NEW n, OfSandbox(n)' = {}
  PROVE  Cleared(n)'
  BY DEF Cleared, OfSandbox, Says, Read

\* A status that does not say Suspended settles nothing.
LEMMA StatusCleared ==
  ASSUME NEW n, sbw'[n].pc = "status", ~sbw'[n].st.suspended
  PROVE  Cleared(n)'
  BY DEF Cleared, Leaving, Away

\* A step that makes no container and goes on with the copy, or ends.
LEMMA MoveCleared ==
  ASSUME NEW n, Cleared(n), Held(n), Says(n)' => Says(n), UNCHANGED crashes,
         sbw[n].pc \notin Away, sbw'[n].pc \notin Away \cup Leaving,
         sbw'[n].pc = "idle" \/ (sbw[n].pc # "idle" /\ sbw'[n].o = sbw[n].o)
  PROVE  Cleared(n)'
<1> SUFFICES ASSUME crashes' = 0, Says(n)' \/ Read(n)'
             PROVE  OfSandbox(n)' = {}
  BY DEF Cleared, Says, Read, OfSandbox, Away
<1>1. Says(n) \/ Read(n)
  BY DEF Read
<1>2. OfSandbox(n) = {}
  BY <1>1 DEF Cleared
<1>3. QED
  BY <1>2 DEF Held

\* A step of another thread.
LEMMA OthersCleared ==
  ASSUME NEW n, Cleared(n), Held(n), Says(n)' => Says(n), UNCHANGED crashes,
         sbw'[n] = sbw[n]
  PROVE  Cleared(n)'
<1>1. OfSandbox(n) = {} => OfSandbox(n)' = {}
  BY DEF Held
<1>2. (\A c \in OfSandbox(n) : c.id = sbw[n].id) => \A c \in OfSandbox(n)' : c.id = sbw'[n].id
  BY DEF Held
<1>3. Read(n)' => Read(n)
  BY DEF Read
<1>4. Cleared(n) =>
        /\ sbw'[n].pc \in Leaving => \A c \in OfSandbox(n)' : c.id = sbw'[n].id
        /\ /\ crashes' = 0 \/ Mounts(n) = {}
           /\ sbw'[n].pc = "status" /\ sbw'[n].st.suspended
           => OfSandbox(n)' = {}
        /\ crashes' = 0 /\ sbw'[n].pc \notin Away /\ (Says(n)' \/ Read(n)') => OfSandbox(n)' = {}
  BY <1>1, <1>2, <1>3 DEF Cleared
<1>5. QED
  BY <1>4 DEF Cleared, Says, Read, OfSandbox

\* The removal of the only container.
LEMMA RemovalCleared ==
  ASSUME TypeInv, NEW n, \A c \in OfSandbox(n) : c.id = sbw[n].id, RemoveQuietly(sbw[n].id), ~Fail
  PROVE  Cleared(n)'
<1>1. containers' = {c \in containers : c.id # sbw[n].id}
  BY DEF RemoveQuietly, Removed
<1>2. OfSandbox(n)' = {}
  BY <1>1 DEF OfSandbox
<1>3. QED
  BY <1>2, NoneCleared

\* A step of the reconcile of n in which Docker does not fail.
LEMMA StepCleared ==
  ASSUME TypeInv, ContainerInv, SuspendInv, NEW n \in SbNames, SandboxStep(n), [Next]_vars,
         faults = 0, ~Fail, UNCHANGED crashes
  PROVE  Cleared(n)'
<1>0. /\ sbw \in [SbNames -> SbThread] /\ sbw[n] \in SbThread
      /\ sbw[n].pc # "idle" => sbw[n].o.st \in Conditions
      /\ Cleared(n) /\ Quiet(n) /\ Alone(n)
      /\ sbw[n].pc \in {"prepare", "create"} => OfSandbox(n) = {}
      /\ sbw[n].pc = "chown" => \A c \in OfSandbox(n) : c.id = sbw[n].id
      /\ sbw[n].pc \in Leaving => \A c \in OfSandbox(n) : c.id = sbw[n].id
      /\ containers \subseteq Container
  BY DEF TypeInv, SbwT, DockerT, Sandbox, ContainerInv, SuspendInv, Quiet, Cleared
<1>g. ASSUME NEW pc, NEW st, SbGoto(n, pc, st)
      PROVE  sbw'[n].pc = pc /\ sbw'[n].o = sbw[n].o /\ sbw'[n].st = st
  BY <1>g, SbGoes, SbSays
<1>d. SbDone(n) => sbw'[n].pc = "idle"
  BY SbEnds
<1>i. InspectSandbox(n) = {} => OfSandbox(n) = {}
  <2> SUFFICES ASSUME NEW c \in OfSandbox(n)
               PROVE  c \in InspectSandbox(n)
    OBVIOUS
  <2>1. c.id \in Nat /\ \A d \in OfSandbox(n) : d = c
    BY <1>0 DEF Alone, OfSandbox, Container
  <2>2. QED
    BY <2>1 DEF InspectSandbox
<1>j. ASSUME NEW c \in InspectSandbox(n), NEW d \in OfSandbox(n)
      PROVE  d.id = c.id
  BY <1>0, <1>j DEF InspectSandbox, Alone
<1>n. ASSUME OfSandbox(n) = {}, Held(n)
      PROVE  Cleared(n)'
  BY <1>n, NoneCleared DEF Held
<1>h. ~SbPrepare(n) /\ ~SbCreate(n) => Held(n)
  BY ContainersEffect
<1>s. ~writeSandboxStatus(n) => (Says(n)' => Says(n))
  BY StatusEffect
<1>m. ASSUME Held(n), Says(n)' => Says(n), sbw[n].pc \notin Away \cup {"idle"},
             sbw'[n].pc \notin Away \cup Leaving, sbw'[n].pc = "idle" \/ sbw'[n].o = sbw[n].o
      PROVE  Cleared(n)'
  BY <1>0, <1>m, MoveCleared
<1>1. CASE SbGet(n)
  <2>0. UNCHANGED <<containers, sandboxes>> /\ sbw[n].pc = "idle" /\ OfSandbox(n)' = OfSandbox(n)
    BY <1>1 DEF SbGet, Take, OfSandbox
  <2>h. Held(n) /\ Says(n)' = Says(n)
    BY <2>0, FewerHeld DEF Says
  <2>1. CASE sbw' = sbw
    BY <1>0, <2>1, <2>h, OthersCleared
  <2>2. CASE sbw'[n] = [IdleSandbox EXCEPT !.pc = "owner", !.o = sandboxes[n]]
             /\ sandboxes[n] # NoObject
    <3>1. sbw'[n].pc = "owner" /\ sbw'[n].o = sandboxes[n]
      BY <2>2 DEF IdleSandbox
    <3>2. Read(n)' => Says(n)
      BY <2>2, <3>1 DEF Read, Says
    <3>3. crashes' = 0 /\ (Says(n)' \/ Read(n)') => OfSandbox(n)' = {}
      BY <1>0, <2>0, <2>h, <3>2 DEF Cleared, Away
    <3>4. QED
      BY <3>1, <3>3 DEF Cleared, Leaving, Says, Read, OfSandbox
  <2>3. QED
    BY <1>0, <1>1, <2>1, <2>2 DEF SbGet
<1>2. CASE SbOwner(n)
  <2>1. \/ \E st : SbGoto(n, "delete", st) \/ SbGoto(n, "expire", st) \/ SbGoto(n, "suspend", st)
        \/ EachTemplate(n, TemplatePVCs[n])
    BY <1>2 DEF SbOwner
  <2>2. sbw'[n].pc \in {"delete", "expire", "suspend", "vct", "pvc", "inspect"}
        /\ sbw'[n].o = sbw[n].o
    <3>1. CASE EachTemplate(n, TemplatePVCs[n])
      BY <1>0, <3>1 DEF EachTemplate, SbThread
    <3>2. QED
      BY <1>g, <2>1, <3>1
  <2>3. sbw[n].pc = "owner" /\ ~SbPrepare(n) /\ ~SbCreate(n) /\ ~writeSandboxStatus(n)
    BY <1>2 DEF SbOwner, SbPrepare, SbCreate, writeSandboxStatus
  <2>4. QED
    BY <1>h, <1>m, <1>s, <2>2, <2>3 DEF Away, Leaving
<1>3. CASE SbDelete(n)
  <2>1. sbw[n].pc = "delete" /\ ~SbPrepare(n) /\ ~SbCreate(n) /\ ~writeSandboxStatus(n)
        /\ sbw'[n].pc = "idle"
    BY <1>3, <1>d DEF SbDelete, SbPrepare, SbCreate, writeSandboxStatus
  <2>2. QED
    BY <1>h, <1>m, <1>s, <2>1 DEF Away, Leaving
<1>4. CASE ensureVCTPVCObject(n)
  <2>1. PICK left : EachTemplate(n, left)
    BY <1>4 DEF ensureVCTPVCObject
  <2>2. sbw'[n].pc \in {"vct", "pvc", "inspect"} /\ sbw'[n].o = sbw[n].o
    BY <1>0, <2>1 DEF EachTemplate, SbThread
  <2>3. sbw[n].pc = "vct" /\ ~SbPrepare(n) /\ ~SbCreate(n) /\ ~writeSandboxStatus(n)
    BY <1>4 DEF ensureVCTPVCObject, SbPrepare, SbCreate, writeSandboxStatus
  <2>4. QED
    BY <1>h, <1>m, <1>s, <2>2, <2>3 DEF Away, Leaving
<1>5. CASE SbPVC(n)
  <2>0. sbw[n].pc = "pvc" /\ ~SbPrepare(n) /\ ~SbCreate(n) /\ ~writeSandboxStatus(n)
        /\ Mounts(n) # {}
    BY <1>5 DEF SbPVC, SbPrepare, SbCreate, writeSandboxStatus, SuspendInv
  <2>1. CASE SbGoto(n, "status", failReady(sbw[n].o.st))
    <3>1. sbw'[n].pc = "status" /\ sbw'[n].st = failReady(sbw[n].o.st)
      BY <1>g, <2>1
    <3>2. CASE crashes = 0 /\ sbw[n].o.st.suspended
      <4>1. OfSandbox(n) = {}
        BY <1>0, <2>0, <3>2 DEF Cleared, Away, Read
      <4>2. QED
        BY <1>h, <1>n, <2>0, <4>1
    <3>3. CASE ~sbw[n].o.st.suspended
      <4>1. ~sbw'[n].st.suspended
        BY <1>0, <2>0, <3>1, <3>3, StatusSays
      <4>2. QED
        BY <3>1, <4>1, StatusCleared
    <3>4. CASE crashes # 0
      BY <2>0, <3>1, <3>4 DEF Cleared, Leaving
    <3>5. QED
      BY <3>2, <3>3, <3>4
  <2>2. CASE \E v : sbw' = [sbw EXCEPT ![n].pc = "ensure", ![n].vols = @ \ {v}, ![n].pv = v]
    <3>1. PICK v : sbw' = [sbw EXCEPT ![n].pc = "ensure", ![n].vols = @ \ {v}, ![n].pv = v]
      BY <2>2
    <3>2. sbw'[n].pc = "ensure" /\ sbw'[n].o = sbw[n].o
      BY <1>0, <3>1 DEF SbThread
    <3>3. QED
      BY <1>h, <1>m, <1>s, <2>0, <3>2 DEF Away, Leaving
  <2>3. QED
    BY <1>5, <2>1, <2>2 DEF SbPVC
<1>6. CASE SbEnsure(n)
  <2>1. sbw' = [sbw EXCEPT ![n].pv = NoName,
                  ![n].pc = IF sbw[n].vols = {} THEN "inspect" ELSE "pvc"]
    BY <1>6 DEF SbEnsure
  <2>2. sbw'[n].pc \in {"inspect", "pvc"} /\ sbw'[n].o = sbw[n].o
    BY <1>0, <2>1 DEF SbThread
  <2>3. sbw[n].pc = "ensure" /\ ~SbPrepare(n) /\ ~SbCreate(n) /\ ~writeSandboxStatus(n)
    BY <1>6 DEF SbEnsure, SbPrepare, SbCreate, writeSandboxStatus
  <2>4. QED
    BY <1>h, <1>m, <1>s, <2>2, <2>3 DEF Away, Leaving
<1>7. CASE SbInspect(n)
  <2>0. sbw[n].pc = "inspect" /\ ~SbPrepare(n) /\ ~SbCreate(n) /\ ~writeSandboxStatus(n)
    BY <1>7 DEF SbInspect, SbPrepare, SbCreate, writeSandboxStatus
  <2>1. CASE InspectSandbox(n) = {}
    BY <1>h, <1>i, <1>n, <2>0, <2>1
  <2>2. CASE \E state : SbGoto(n, "status", Observed(sbw[n].o.st, state))
    <3>1. PICK state : SbGoto(n, "status", Observed(sbw[n].o.st, state))
      BY <2>2
    <3>2. sbw'[n].pc = "status" /\ sbw'[n].st = Observed(sbw[n].o.st, state)
      BY <1>g, <3>1
    <3>3. ~sbw'[n].st.suspended
      BY <1>0, <2>0, <3>2, StatusSays
    <3>4. QED
      BY <3>2, <3>3, StatusCleared
  <2>3. QED
    BY <1>7, <2>1, <2>2 DEF SbInspect
<1>8. CASE SbPrepare(n)
  <2>1. sbw' = [sbw EXCEPT ![n].pc = "chown", ![n].id = lastUID + 1]
    BY <1>8 DEF SbPrepare, ContainerCreate
  <2>2. sbw'[n].pc = "chown"
    BY <1>0, <2>1 DEF SbThread
  <2>3. QED
    BY <2>2 DEF Cleared, Leaving, Away
<1>9. CASE SbChown(n)
  BY <1>0, <1>9, RemovalCleared DEF SbChown
<1>10. CASE SbCreate(n)
  <2>1. /\ sbw' = [sbw EXCEPT ![n].pc = "start", ![n].id = lastUID + 1]
        /\ containers' = containers \cup
             {[id |-> lastUID + 1, name |-> n, uid |-> sbw[n].o.uid, state |-> "created"]}
        /\ OfSandbox(n) = {}
    BY <1>0, <1>10 DEF SbCreate, ContainerCreate
  <2>2. sbw'[n].pc = "start" /\ sbw'[n].id = lastUID + 1
    BY <1>0, <2>1 DEF SbThread
  <2>3. \A c \in OfSandbox(n)' : c.id = sbw'[n].id
    BY <2>1, <2>2 DEF OfSandbox
  <2>4. QED
    BY <2>2, <2>3 DEF Cleared, Away, OfSandbox
<1>11. CASE SbStart(n)
  <2>0. sbw[n].pc = "start" /\ ~SbPrepare(n) /\ ~SbCreate(n)
    BY <1>11 DEF SbStart, SbPrepare, SbCreate
  <2>1. CASE {c \in containers : c.id = sbw[n].id} = {}
    <3>1. OfSandbox(n) = {}
      BY <1>0, <2>0, <2>1 DEF OfSandbox, Leaving
    <3>2. QED
      BY <1>h, <1>n, <2>0, <3>1
  <2>2. CASE \E state : SbGoto(n, "status", Observed(sbw[n].o.st, state))
    <3>1. PICK state : SbGoto(n, "status", Observed(sbw[n].o.st, state))
      BY <2>2
    <3>2. sbw'[n].pc = "status" /\ sbw'[n].st = Observed(sbw[n].o.st, state)
      BY <1>g, <3>1
    <3>3. ~sbw'[n].st.suspended
      BY <1>0, <2>0, <3>2, StatusSays
    <3>4. QED
      BY <3>2, <3>3, StatusCleared
  <2>3. QED
    BY <1>11, <2>1, <2>2 DEF SbStart
<1>12. CASE writeSandboxStatus(n)
  <2>0. sbw[n].pc = "status" /\ sbw'[n].pc = "idle" /\ UNCHANGED containers
    BY <1>12, <1>d DEF writeSandboxStatus, SbRequeue
  <2>1. CASE crashes = 0 /\ Says(n)' /\ sbw[n].st.suspended
    <3>1. OfSandbox(n) = {}
      BY <1>0, <2>0, <2>1 DEF Cleared
    <3>2. QED
      BY <1>n, <2>0, <3>1, FewerHeld
  <2>2. CASE Says(n)' /\ ~sbw[n].st.suspended
    <3>1. sandboxes[n] # NoObject
      BY <1>12, <2>2 DEF writeSandboxStatus, Says
    <3>2. sandboxes[n] \in Sandbox
      BY <3>1 DEF TypeInv, StoreT
    <3>3. sandboxes'[n].st = sbw[n].st
      BY <1>12, <3>1, <3>2 DEF writeSandboxStatus, PutSandbox, TypeInv, StoreT, Sandbox
    <3>4. QED
      BY <2>2, <3>3 DEF Says
  <2>3. CASE crashes # 0 \/ ~Says(n)'
    BY <2>0, <2>3 DEF Cleared, Leaving, Read, Says
  <2>4. QED
    BY <2>1, <2>2, <2>3
<1>13. CASE SbSuspend(n) \/ SbExpire(n)
  <2>0. sbw[n].pc \in {"suspend", "expire"} /\ ~SbPrepare(n) /\ ~SbCreate(n)
        /\ ~writeSandboxStatus(n) /\ UNCHANGED containers
    BY <1>13 DEF SbSuspend, SbExpire, SbPrepare, SbCreate, writeSandboxStatus
  <2>1. CASE InspectSandbox(n) = {}
    BY <1>h, <1>i, <1>n, <2>0, <2>1
  <2>2. CASE \E c \in InspectSandbox(n) :
               \/ sbw' = [sbw EXCEPT ![n].pc = "susremove", ![n].id = c.id]
               \/ sbw' = [sbw EXCEPT ![n].pc = "expremove", ![n].id = c.id]
    <3>1. PICK c \in InspectSandbox(n) :
               \/ sbw' = [sbw EXCEPT ![n].pc = "susremove", ![n].id = c.id]
               \/ sbw' = [sbw EXCEPT ![n].pc = "expremove", ![n].id = c.id]
      BY <2>2
    <3>2. /\ sbw'[n].pc \in {"susremove", "expremove"} /\ sbw'[n].o = sbw[n].o
          /\ sbw'[n].id = c.id
      BY <1>0, <3>1 DEF SbThread
    <3>3. \A d \in OfSandbox(n)' : d.id = sbw'[n].id
      BY <1>j, <2>0, <3>2 DEF OfSandbox
    <3>4. crashes' = 0 /\ (Says(n)' \/ Read(n)') => OfSandbox(n)' = {}
      <4>1. Read(n)' => Read(n)
        BY <2>0, <3>2 DEF Read
      <4>2. OfSandbox(n)' = OfSandbox(n)
        BY <2>0 DEF OfSandbox
      <4>3. QED
        BY <1>0, <1>s, <2>0, <4>1, <4>2 DEF Cleared, Away
    <3>5. QED
      BY <3>2, <3>3, <3>4 DEF Cleared, OfSandbox, Says, Read
  <2>3. QED
    BY <1>13, <2>1, <2>2 DEF SbSuspend, SbExpire
<1>14. CASE SbSuspendRemove(n) \/ SbExpireRemove(n)
  BY <1>0, <1>14, RemovalCleared DEF SbSuspendRemove, SbExpireRemove, Leaving
<1>15. QED
  BY <1>1, <1>2, <1>3, <1>4, <1>5, <1>6, <1>7, <1>8, <1>9, <1>10, <1>11, <1>12, <1>13, <1>14
  DEF SandboxStep

\* No step of any thread disturbs it.
LEMMA NextSuspend ==
  ASSUME TypeInv, ContainerInv, SuspendInv, [Next]_vars
  PROVE  SuspendInv'
<1> SUFFICES ASSUME NEW n \in SbNames
             PROVE  /\ sbw'[n].pc \in {"pvc", "ensure"} => Mounts(n) # {}
                    /\ faults' = 0 => Cleared(n)'
  BY DEF SuspendInv
<1>1. sbw'[n].pc \in {"pvc", "ensure"} => Mounts(n) # {}
  <2> SUFFICES ASSUME sbw'[n].pc \in {"pvc", "ensure"}
               PROVE  Mounts(n) # {}
    OBVIOUS
  <2>1. sbw'[n] = sbw[n] \/ OnPath(n)
    BY EveryPath DEF PathPcs
  <2>2. QED
    BY <2>1 DEF OnPath, SuspendInv
<1>2. ASSUME faults' = 0
      PROVE  Cleared(n)'
  <2>0. faults = 0 /\ ~Fail /\ Cleared(n)
    <3>1. faults = 0
      BY <1>2, FaultsGrow
    <3>2. ~Fail
      BY <1>2, <3>1 DEF Fail
    <3>3. QED
      BY <3>1, <3>2 DEF SuspendInv
  <2>1. CASE Crash
    <3>1. crashes' # 0 /\ sbw'[n] = IdleSandbox
      BY <2>1 DEF Crash, Idle, TypeInv, CountT
    <3>2. QED
      BY <3>1 DEF Cleared, IdleSandbox, Leaving
  <2>2. CASE ~Crash /\ SandboxStep(n)
    BY <2>0, <2>2, OnlyCrash, StepCleared
  <2>3. CASE ~Crash /\ ~SandboxStep(n)
    <3>1. sbw'[n] = sbw[n] /\ UNCHANGED crashes
      BY <2>3, OnlyCrash, SandboxThreadEffect
    <3>2. Held(n) /\ (Says(n)' => Says(n))
      BY <2>3, ContainersEffect, StatusEffect DEF SandboxStep
    <3>3. QED
      BY <2>0, <3>1, <3>2, OthersCleared
  <2>4. QED
    BY <2>1, <2>2, <2>3
<1>3. QED
  BY <1>1, <1>2

----------------------------------------------------------------------------
(* The theorems.                                                           *)

\* what SuspendedMeansGone says of one sandbox, until the process first crashes
\* or when no PVC is mounted
GoneWhenSuspended(n) ==
  /\ crashes = 0 \/ Mounts(n) = {}
  /\ ~sandboxes[n].st.suspended
  /\ sandboxes'[n] # NoObject /\ sandboxes'[n].st.suspended
  => OfSandbox(n) = {} \/ faults > 0

\* For every instance: a sandbox turns Suspended only when it has no container
\* (reconcileSuspended, writeSandboxStatus without a precondition), whatever
\* users, hooks and sweeps do between the inspection and the write, also to a
\* new incarnation of the name, as long as Docker has not failed.
THEOREM SuspendedAreGone == Spec => [][\A n \in Stored : GoneWhenSuspended(n)]_vars
<1>1. Init => ContainerInv /\ SuspendInv
  <2>1. Init => ContainerInv
    BY DEF Init, ContainerInv, Alone, OfSandbox, IdleSandbox
  <2>2. Init => SuspendInv
    BY DEF Init, SuspendInv, Cleared, OfSandbox, IdleSandbox
  <2>3. QED
    BY <2>1, <2>2
<1>2. TypeInv /\ SuspendInv /\ [Next]_vars => \A n \in Stored : GoneWhenSuspended(n)
  <2> SUFFICES ASSUME TypeInv, SuspendInv, [Next]_vars, NEW n \in Stored,
                      crashes = 0 \/ Mounts(n) = {}, ~sandboxes[n].st.suspended,
                      sandboxes'[n] # NoObject, sandboxes'[n].st.suspended, ~(faults > 0)
               PROVE  OfSandbox(n) = {}
    BY DEF GoneWhenSuspended
  <2>1. n \in SbNames /\ Says(n)' /\ ~Says(n)
    BY DEF Says, Stored
  <2>2. sbw[n].pc = "status" /\ sbw[n].st.suspended
    BY <2>1, StatusEffect DEF writeSandboxStatus
  <2>3. faults = 0
    BY ClusterAssumption DEF TypeInv, CountT
  <2>4. QED
    BY <2>1, <2>2, <2>3 DEF SuspendInv, Cleared
<1>3. QED
  BY <1>1, <1>2, NextContainer, NextSuspend, TypesAndThreads, PTL DEF Spec

\* Where the process is not killed, or no sandbox mounts a PVC, that is the
\* property itself.
THEOREM SuspendedSandboxesAreGone ==
  ASSUME MaxCrashes = 0 \/ \A n \in SbNames : Mounts(n) = {}
  PROVE  Spec => SuspendedMeansGone
<1>1. TypeInv /\ (\A n \in Stored : GoneWhenSuspended(n)) =>
        \A n \in Stored :
          /\ ~sandboxes[n].st.suspended
          /\ sandboxes'[n] # NoObject /\ sandboxes'[n].st.suspended
          => OfSandbox(n) = {} \/ faults > 0
  <2>1. TypeInv => \A n \in Stored : crashes = 0 \/ Mounts(n) = {}
    BY DEF TypeInv, CountT, Stored
  <2>2. QED
    BY <2>1 DEF GoneWhenSuspended
<1>2. QED
  BY <1>1, SuspendedAreGone, TypesAndThreads, PTL DEF SuspendedMeansGone
=============================================================================

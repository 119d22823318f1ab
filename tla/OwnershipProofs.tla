-------------------------- MODULE OwnershipProofs ---------------------------
(***************************************************************************)
(* Who a sandbox belongs to, for every instance of ControlPlane: it        *)
(* implements SandboxOwnership, a pool never has more members than the     *)
(* most replicas it was asked for, a claim has one sandbox until the       *)
(* process first crashes, and a claim records only what it owns.           *)
(***************************************************************************)
EXTENDS ControlPlaneTypes

----------------------------------------------------------------------------
(* What a step can do to the stored sandboxes and to the copies that       *)
(* claims have picked.                                                     *)

\* every stored sandbox keeps its UID and its owner, and none appears
Kept ==
  /\ \A n \in SbNames :
       /\ sandboxes'[n].uid = sandboxes[n].uid
       /\ sandboxes[n] # NoObject => sandboxes'[n].owner = sandboxes[n].owner
  /\ lastUID' \in Nat /\ lastUID' >= lastUID
\* one is deleted, and every copy of it is stale
Destroyed ==
  \E n \in SbNames :
    /\ sandboxes[n] # NoObject
    /\ sandboxes' = [sandboxes EXCEPT ![n] = NoObject]
    /\ fresh' = {c \in fresh : clw[c].pick # n}
    /\ lastUID' = lastUID
MadeByUser == \E n \in BareNames, policy \in UserPolicies : CreateSandbox(n, policy)
MadeByPool == \E p \in PoolNames : PlCreate(p)
MadeByClaim == \E c \in ClaimNames : ClCreate(c) /\ sandboxes[c] = NoObject
Adopted == \E c \in ClaimNames : ClAdopt(c) /\ UpdateAccepts(c, clw[c].pick)

\* Store.Delete of a sandbox deletes that one, or nothing.
LEMMA DeleteEffect ==
  ASSUME NEW t, NEW n \in SbNames, NEW todo, DeleteSandbox(t, n, todo), lastUID' = lastUID,
         lastUID \in Nat
  PROVE  Kept \/ Destroyed
  BY DEF DeleteSandbox, Kept, Destroyed, Touch

\* A step that only hands out a UID keeps the sandboxes.
LEMMA UnchangedKept ==
  ASSUME UNCHANGED sandboxes, lastUID \in Nat, lastUID' = lastUID \/ lastUID' = lastUID + 1
  PROVE  Kept
  BY DEF Kept

\* A write that leaves UID and owner alone.
LEMMA PutKept ==
  ASSUME TypeInv, NEW n \in SbNames, NEW o \in Sandbox, sandboxes[n] # NoObject,
         o.uid = sandboxes[n].uid, o.owner = sandboxes[n].owner,
         PutSandbox(n, o), lastUID' = lastUID
  PROVE  Kept
  BY DEF Kept, PutSandbox, TypeInv, StoreT

\* A hook deletes a sandbox or keeps them all.
LEMMA HookEffect ==
  ASSUME TypeInv, NEW t \in Threads, HookStep(t)
  PROVE  Kept \/ Destroyed
<1>0. lastUID \in Nat /\ hook[t] \in Hook /\ HookWell(hook[t])
  BY DEF TypeInv, StoreT, HookT
<1>1. CASE CascadeDelete(t)
  <2>1. hook[t].name \in SbNames /\ DeleteSandbox(t, hook[t].name, {}) /\ lastUID' = lastUID
    BY <1>0, <1>1 DEF CascadeDelete, HookWell
  <2>2. QED
    BY <1>0, <2>1, DeleteEffect
<1>2. CASE CascadeEach(t)
  <2>1. PICK n \in hook[t].todo : DeleteSandbox(t, n, hook[t].todo \ {n})
    BY <1>2 DEF CascadeEach
  <2>2. n \in SbNames /\ lastUID' = lastUID
    BY <1>0, <1>2 DEF Hook, CascadeEach
  <2>3. QED
    BY <1>0, <2>1, <2>2, DeleteEffect
<1>3. CASE UNCHANGED <<sandboxes, lastUID>>
  BY <1>0, <1>3, UnchangedKept
<1>4. QED
  BY <1>1, <1>2, <1>3
  DEF HookStep, CascadeCheck, CascadeList, CleanupInspect, CleanupRemove, CleanupPVC,
      CleanupDelete, CleanupVolume

\* So does a reconcile of a sandbox.
LEMMA SandboxStepEffect ==
  ASSUME TypeInv, NEW n \in SbNames, SandboxStep(n)
  PROVE  Kept \/ Destroyed
<1>0. lastUID \in Nat
  BY DEF TypeInv, StoreT
<1>1. CASE SbDelete(n)
  BY <1>0, <1>1, DeleteEffect DEF SbDelete
<1>2. CASE writeSandboxStatus(n)
  <2>1. CASE sandboxes[n] # NoObject
    <3>1. sandboxes[n] \in Sandbox /\ sbw[n].st \in Conditions
      BY <2>1 DEF TypeInv, StoreT, SbwT, SbThread
    <3> DEFINE o == [sandboxes[n] EXCEPT !.st = sbw[n].st]
    <3>2. o \in Sandbox /\ o.uid = sandboxes[n].uid /\ o.owner = sandboxes[n].owner
      BY <3>1 DEF Sandbox
    <3>3. PutSandbox(n, o) /\ lastUID' = lastUID
      BY <1>2, <2>1 DEF writeSandboxStatus
    <3> HIDE DEF o
    <3>4. QED
      BY <2>1, <3>2, <3>3, PutKept
  <2>2. CASE sandboxes[n] = NoObject
    BY <1>0, <1>2, <2>2, UnchangedKept DEF writeSandboxStatus
  <2>3. QED
    BY <2>1, <2>2
<1>3. CASE UNCHANGED sandboxes /\ (lastUID' = lastUID \/ lastUID' = lastUID + 1)
  BY <1>0, <1>3, UnchangedKept
<1>4. QED
  BY <1>1, <1>2, <1>3
  DEF SandboxStep, SbGet, SbOwner, ensureVCTPVCObject, SbPVC, SbEnsure, SbInspect, SbPrepare,
      SbChown, SbCreate, SbStart, SbSuspend, SbSuspendRemove, SbExpire, SbExpireRemove,
      ContainerCreate

\* A reconcile of a claim can also make one, or adopt one.
LEMMA ClaimStepEffect ==
  ASSUME TypeInv, NEW c \in ClaimNames, ClaimStep(c)
  PROVE  \/ Kept \/ Destroyed
         \/ ClCreate(c) /\ sandboxes[c] = NoObject
         \/ ClAdopt(c) /\ UpdateAccepts(c, clw[c].pick)
<1>0. lastUID \in Nat
  BY DEF TypeInv, StoreT
<1>1. CASE ClRetainDelete(c)
  <2>1. clw[c].o.sb \in SbNames /\ DeleteSandbox(<<"claim", c>>, clw[c].o.sb, {})
        /\ lastUID' = lastUID
    BY <1>1 DEF ClRetainDelete, At, TypeInv, ClwT, ClWell
  <2>2. QED
    BY <1>0, <2>1, DeleteEffect
<1>2. CASE ClCreate(c)
  BY <1>0, <1>2, UnchangedKept DEF ClCreate
<1>3. CASE ClAdopt(c)
  BY <1>0, <1>3, UnchangedKept DEF ClAdopt
<1>4. CASE UNCHANGED <<sandboxes, lastUID>>
  BY <1>0, <1>4, UnchangedKept
<1>5. QED
  BY <1>1, <1>2, <1>3, <1>4
  DEF ClaimStep, ClGet, ClDelete, ClRetain, ClResolve, ClBind, ClList, ClPick, ClGot,
      writeClaimStatus

\* A user can also make one.
LEMMA UserEffect ==
  ASSUME TypeInv, User
  PROVE  Kept \/ Destroyed \/ MadeByUser
<1>0. lastUID \in Nat
  BY DEF TypeInv, StoreT
<1>1. ASSUME NEW t, NEW n \in SbNames, ApiDeleteSandbox(t, n)
      PROVE  Kept \/ Destroyed
  BY <1>0, <1>1, DeleteEffect DEF ApiDeleteSandbox
<1>2. ASSUME NEW n \in SbNames, SetMode(n)
      PROVE  Kept
  <2> DEFINE o == [sandboxes[n] EXCEPT !.mode = IF @ = "Running" THEN "Suspended" ELSE "Running"]
  <2>1. sandboxes[n] \in Sandbox /\ sandboxes[n] # NoObject
    BY <1>2 DEF SetMode, TypeInv, StoreT
  <2>2. o \in Sandbox /\ o.uid = sandboxes[n].uid /\ o.owner = sandboxes[n].owner
    BY <2>1 DEF Sandbox
  <2>3. PutSandbox(n, o) /\ lastUID' = lastUID
    BY <1>2 DEF SetMode
  <2> HIDE DEF o
  <2>4. QED
    BY <2>1, <2>2, <2>3, PutKept
<1>3. CASE Expire
  <2>1. ASSUME NEW n \in SbNames, sandboxes[n] # NoObject,
               sandboxes' = [sandboxes EXCEPT ![n].due = TRUE]
        PROVE  Kept
    <3>1. sandboxes[n] \in Sandbox
      BY <2>1 DEF TypeInv, StoreT
    <3>2. lastUID' = lastUID
      BY <1>3 DEF Expire
    <3>3. QED
      BY <1>0, <2>1, <3>1, <3>2 DEF Kept, TypeInv, StoreT, Sandbox
  <2>2. CASE UNCHANGED sandboxes
    BY <1>0, <1>3, <2>2, UnchangedKept DEF Expire
  <2>3. QED
    BY <1>3, <2>1, <2>2 DEF Expire
<1>4. CASE UNCHANGED sandboxes /\ (lastUID' = lastUID \/ lastUID' = lastUID + 1)
  BY <1>0, <1>4, UnchangedKept
<1>5. QED
  BY <1>1, <1>2, <1>3, <1>4
  DEF User, MadeByUser, CreateClaim, ApiDeleteClaim, ApiDeletePool, ApiDeletePVC, CreatePool,
      ScalePool, ToggleTemplate, CreatePVC, StartSweep, EventsEnd, ContainerExit

\* Every step leaves UIDs and owners alone, deletes one sandbox, makes one, or
\* hands one to a claim.
LEMMA SandboxEffect ==
  ASSUME TypeInv, [Next]_vars
  PROVE  Kept \/ Destroyed \/ MadeByUser \/ MadeByPool \/ MadeByClaim \/ Adopted
<1>0. lastUID \in Nat
  BY DEF TypeInv, StoreT
<1>1. CASE UNCHANGED <<sandboxes, lastUID>>
  BY <1>0, <1>1, UnchangedKept
<1>2. CASE User
  BY <1>2, UserEffect
<1>3. CASE \E n \in SbNames : SandboxStep(n)
  BY <1>3, SandboxStepEffect
<1>4. CASE \E c \in ClaimNames : ClaimStep(c)
  BY <1>4, ClaimStepEffect DEF MadeByClaim, Adopted
<1>5. CASE \E p \in PoolNames : PoolStep(p)
  BY <1>1, <1>5 DEF PoolStep, PlGet, PlList, writeWarmPoolStatus, MadeByPool
<1>6. CASE \E t \in Threads : HookStep(t)
  BY <1>6, HookEffect
<1>7. CASE (\E v \in PVCNames : PVCStep(v)) \/ Serve \/ SweepStep \/ Crash \/ UNCHANGED vars
  BY <1>1, <1>7
  DEF PVCStep, PvGet, PvEnsure, writePVCStatus, PvFrame, Serve, ContainerServe, ChownEnds,
      DockerFrame, SweepStep, BootLook, GcLook, SweepRemove, PurgeContainer, ListManagedVolumes,
      PurgeVolume, SweepFrame, Crash, vars
<1>8. QED
  BY <1>2, <1>3, <1>4, <1>5, <1>6, <1>7 DEF Next

\* sandbox n is stored as o under a UID that was never used
Provisioned(n, o) ==
  /\ sandboxes[n] = NoObject
  /\ sandboxes' = [sandboxes EXCEPT ![n] = o]
  /\ o.uid = lastUID + 1 /\ lastUID' = lastUID + 1

\* Whoever makes a sandbox gives it a new UID.
LEMMA MadeProvisioned ==
  ASSUME TypeInv, MadeByUser \/ MadeByPool \/ MadeByClaim
  PROVE  \E n \in SbNames, o \in Sandbox :
           /\ Provisioned(n, o)
           /\ \/ o.owner = NoOwner
              \/ \E p \in PoolNames : /\ PlCreate(p)
                                      /\ o.owner = [kind |-> "pool", name |-> p,
                                                    uid |-> plw[p].o.uid]
              \/ \E c \in ClaimNames : /\ ClCreate(c) /\ n = c
                                       /\ o.owner = claimRef(clw[c].o, c)
<1>u. lastUID + 1 \in Nat \ {0}
  BY DEF TypeInv, StoreT
<1>1. CASE MadeByUser
  <2>1. PICK n \in BareNames, policy \in UserPolicies : CreateSandbox(n, policy)
    BY <1>1 DEF MadeByUser
  <2> DEFINE o == [uid |-> lastUID + 1, owner |-> NoOwner, mode |-> "Running",
                   shutdown |-> policy, due |-> FALSE, st |-> NoConditions]
  <2>2. n \in SbNames /\ o \in Sandbox
    BY <1>u, ControlPlaneAssumption, ConditionsType DEF SbNames, Sandbox
  <2>3. Provisioned(n, o) /\ o.owner = NoOwner
    BY <2>1 DEF CreateSandbox, PutSandbox, Provisioned
  <2> HIDE DEF o
  <2>4. QED
    BY <2>2, <2>3
<1>2. CASE MadeByPool
  <2>1. PICK p \in PoolNames : PlCreate(p)
    BY <1>2 DEF MadeByPool
  <2> DEFINE o == [uid |-> lastUID + 1,
                   owner |-> [kind |-> "pool", name |-> p, uid |-> plw[p].o.uid],
                   mode |-> "Running", shutdown |-> "none", due |-> FALSE,
                   st |-> NoConditions]
  <2>2. PICK n \in WarmNames : sandboxes[n] = NoObject /\ PutSandbox(n, o)
    BY <2>1 DEF PlCreate
  <2>3. plw[p].o.uid \in Nat
    BY <2>1 DEF PlCreate, TypeInv, PlwT, Pool
  <2>4. n \in SbNames /\ o \in Sandbox
    BY <1>u, <2>3, ConditionsType DEF SbNames, Sandbox, Owners, Policies
  <2>5. Provisioned(n, o) /\ o.owner = [kind |-> "pool", name |-> p, uid |-> plw[p].o.uid]
    BY <2>1, <2>2 DEF PlCreate, PutSandbox, Provisioned
  <2> HIDE DEF o
  <2>6. QED
    BY <2>1, <2>4, <2>5
<1>3. CASE MadeByClaim
  <2>1. PICK c \in ClaimNames : ClCreate(c) /\ sandboxes[c] = NoObject
    BY <1>3 DEF MadeByClaim
  <2> DEFINE o == [uid |-> lastUID + 1, owner |-> claimRef(clw[c].o, c), mode |-> "Running",
                   shutdown |-> "none", due |-> FALSE, st |-> NoConditions]
  <2>2. clw[c].o.uid \in Nat
    BY <2>1 DEF ClCreate, At, TypeInv, ClwT, ClWell, Claim
  <2>3. c \in SbNames /\ o \in Sandbox
    BY <1>u, <2>2, ThreadOf, ConditionsType DEF Sandbox, Owners, Policies, claimRef
  <2>4. Provisioned(c, o) /\ o.owner = claimRef(clw[c].o, c)
    BY <2>1 DEF ClCreate, PutSandbox, Provisioned
  <2> HIDE DEF o
  <2>5. QED
    BY <2>1, <2>3, <2>4
<1>4. QED
  BY <1>1, <1>2, <1>3

----------------------------------------------------------------------------
(* UIDs are never reused, and a copy with the stored resourceVersion is    *)
(* that of a pool's member.                                                *)

UidInv ==
  /\ \A n \in Stored : sandboxes[n].uid <= lastUID
  /\ \A m, n \in Stored : sandboxes[m].uid = sandboxes[n].uid => m = n

\* what adoptWarmSandbox read is still so, as long as its Update would succeed
FreshInv ==
  \A c \in fresh :
    clw[c].pc = "adopt" =>
      /\ sandboxes[clw[c].pick] # NoObject
      /\ sandboxes[clw[c].pick].owner # NoOwner
      /\ sandboxes[clw[c].pick].owner.kind = "pool"

\* The Update of adoptWarmSandbox changes the owner of the picked sandbox only.
LEMMA AdoptEffect ==
  ASSUME TypeInv, NEW c \in ClaimNames, ClAdopt(c), UpdateAccepts(c, clw[c].pick)
  PROVE  LET n == clw[c].pick
             o == [sandboxes[n] EXCEPT !.owner = claimRef(clw[c].o, c)]
         IN  /\ n \in SbNames /\ sandboxes[n] \in Sandbox /\ c \in fresh /\ clw[c].pc = "adopt"
             /\ o \in Sandbox /\ o.uid = sandboxes[n].uid /\ o.owner = claimRef(clw[c].o, c)
             /\ sandboxes' = [sandboxes EXCEPT ![n] = o]
             /\ fresh' = {d \in fresh : clw[d].pick # n}
             /\ lastUID' = lastUID
<1> DEFINE n == clw[c].pick
           o == [sandboxes[n] EXCEPT !.owner = claimRef(clw[c].o, c)]
<1>1. n \in SbNames /\ clw[c].pc = "adopt" /\ clw[c].o \in Claim
  BY DEF ClAdopt, At, TypeInv, ClwT, ClWell
<1>2. sandboxes[n] \in Sandbox /\ sandboxes[n] # NoObject /\ c \in fresh
  BY <1>1 DEF UpdateAccepts, TypeInv, StoreT
<1>3. claimRef(clw[c].o, c) \in Owners
  BY <1>1 DEF claimRef, Owners, Claim
<1>4. o \in Sandbox /\ o.uid = sandboxes[n].uid /\ o.owner = claimRef(clw[c].o, c)
  BY <1>2, <1>3 DEF Sandbox
<1>5. PutSandbox(n, o) /\ lastUID' = lastUID
  BY <1>2 DEF ClAdopt, UpdateAccepts
<1>6. QED
  BY <1>1, <1>2, <1>4, <1>5 DEF PutSandbox, Touch

\* Sandboxes keep distinct UIDs that were handed out.
LEMMA NextUid ==
  ASSUME TypeInv, UidInv, [Next]_vars
  PROVE  UidInv'
<1>0. /\ lastUID \in Nat
      /\ \A n \in SbNames : sandboxes[n].uid \in Nat /\ (sandboxes[n] = NoObject <=> sandboxes[n].uid = 0)
      /\ sandboxes \in [SbNames -> Sandbox \cup {NoObject}]
  BY DEF TypeInv, StoreT, Sandbox, NoObject
<1>1. CASE Kept
  <2>1. \A n \in SbNames : sandboxes'[n] = NoObject <=> sandboxes'[n].uid = 0
    <3>1. TypeInv'
      BY NextType
    <3>2. QED
      BY <3>1 DEF TypeInv, StoreT, Sandbox, NoObject
  <2>2. QED
    BY <1>0, <1>1, <2>1 DEF Kept, UidInv, Stored
<1>2. CASE Destroyed
  BY <1>0, <1>2 DEF Destroyed, UidInv, Stored
<1>3. CASE MadeByUser \/ MadeByPool \/ MadeByClaim
  <2>1. PICK n \in SbNames, o \in Sandbox : Provisioned(n, o)
    BY <1>3, MadeProvisioned
  <2>2. QED
    BY <1>0, <2>1 DEF Provisioned, UidInv, Stored
<1>4. CASE Adopted
  <2>1. PICK c \in ClaimNames : ClAdopt(c) /\ UpdateAccepts(c, clw[c].pick)
    BY <1>4 DEF Adopted
  <2>2. PICK n \in SbNames, o \in Sandbox :
          /\ sandboxes[n] \in Sandbox /\ o.uid = sandboxes[n].uid
          /\ sandboxes' = [sandboxes EXCEPT ![n] = o] /\ lastUID' = lastUID
    BY <2>1, AdoptEffect
  <2>3. NoObject \notin Sandbox
    BY DEF NoObject, Sandbox
  <2>4. QED
    BY <1>0, <2>2, <2>3 DEF UidInv, Stored
<1>5. QED
  BY <1>1, <1>2, <1>3, <1>4, SandboxEffect

\* A claim's thread is at "adopt" with the stored resourceVersion only after
\* its own read, and leaves the set when the sandbox is written.
LEMMA FreshEffect ==
  ASSUME TypeInv, [Next]_vars
  PROVE  \A c \in fresh' : clw'[c].pc = "adopt" =>
           \/ c \in fresh /\ clw'[c] = clw[c]
           \/ ClPick(c) /\ UNCHANGED sandboxes
<1>1. CASE \E c \in ClaimNames : ClaimStep(c)
  <2>1. PICK c \in ClaimNames : ClaimStep(c)
    BY <1>1
  <2>2. clw' = [clw EXCEPT ![c] = clw'[c]] /\ (clw'[c].pc = "adopt" => ClPick(c) \/ clw' = clw)
    <3>0. clw \in [ClaimNames -> ClThread]
      BY DEF TypeInv, ClwT
    <3>1. CASE ClGet(c)
      <4>1. clw' = clw \/ clw' = [clw EXCEPT ![c] = [IdleClaim EXCEPT !.o = claims[c],
                    !.pc = CASE ~claimExpired(claims[c]) -> "resolve"
                             [] claimExpired(claims[c])
                                /\ claims[c].shutdown \in {"Delete", "DeleteForeground"} -> "delete"
                             [] OTHER -> "retain"]]
        BY <3>1 DEF ClGet
      <4>2. QED
        BY <3>0, <4>1, ZenonT(40) DEF IdleClaim
    <3>2. CASE ClDelete(c) \/ writeClaimStatus(c)
      BY <3>0, <3>2 DEF ClDelete, writeClaimStatus, IdleClaim
    <3>3. ASSUME NEW sb, NEW ready, NEW finished, ClStatus(c, sb, ready, finished)
          PROVE  clw' = [clw EXCEPT ![c] = clw'[c]] /\ clw'[c].pc = "status"
      BY <3>0, <3>3 DEF ClStatus, ClThread
    <3>4. ASSUME NEW pc, ClGoto(c, pc)
          PROVE  clw' = [clw EXCEPT ![c] = clw'[c]] /\ clw'[c].pc = pc
      BY <3>0, <3>4 DEF ClGoto, ClThread
    <3>5. CASE ClRetain(c) \/ ClRetainDelete(c) \/ ClResolve(c) \/ ClBind(c) \/ ClCreate(c)
               \/ ClGot(c)
      <4>1. \/ ClGoto(c, "rdelete") \/ ClGoto(c, "bind") \/ ClGoto(c, "create")
            \/ ClGoto(c, "list") \/ ClGoto(c, "got")
            \/ \E sb, ready, finished : ClStatus(c, sb, ready, finished)
        BY <3>5 DEF ClRetain, ClRetainDelete, ClResolve, ClBind, ClCreate, ClGot, claimNotReady, Mirror
      <4>2. QED
        BY <3>3, <3>4, <4>1
    <3>6. CASE ClPick(c)
      BY <3>4, <3>6 DEF ClPick
    <3>7. CASE ClList(c)
      <4>1. CASE ClGoto(c, "create")
        BY <3>4, <4>1
      <4>2. ASSUME NEW n, clw' = [clw EXCEPT ![c].pc = "pick", ![c].pick = n, ![c].tries = 0]
            PROVE  clw' = [clw EXCEPT ![c] = clw'[c]] /\ clw'[c].pc = "pick"
        BY <3>0, <4>2 DEF ClThread
      <4>3. QED
        BY <3>7, <4>1, <4>2 DEF ClList
    <3>8. CASE ClAdopt(c)
      BY <3>0, <3>3, <3>4, <3>8 DEF ClAdopt, Mirror, ClThread
    <3>9. QED
      BY <2>1, <3>1, <3>2, <3>5, <3>6, <3>7, <3>8 DEF ClaimStep
  <2>3. \A d \in fresh' : d \in fresh \/ (ClPick(c) /\ d = c)
    <3>1. CASE ClPick(c)
      BY <3>1 DEF ClPick
    <3>2. CASE UNCHANGED fresh
      BY <3>2
    <3>3. CASE ClRetainDelete(c)
      BY <3>3 DEF ClRetainDelete, DeleteSandbox, Touch
    <3>4. CASE ClAdopt(c) \/ ClCreate(c)
      BY <3>4 DEF ClAdopt, ClCreate, PutSandbox, Touch
    <3>5. QED
      BY <2>1, <3>1, <3>2, <3>3, <3>4
      DEF ClaimStep, ClGet, ClDelete, ClRetain, ClResolve, ClBind, ClList, ClGot, writeClaimStatus
  <2>4. ClPick(c) => UNCHANGED sandboxes
    BY DEF ClPick
  <2>5. fresh' \subseteq ClaimNames /\ clw \in [ClaimNames -> ClThread]
    <3>1. TypeInv'
      BY NextType
    <3>2. QED
      BY <3>1 DEF TypeInv, QueueT, ClwT
  <2>6. QED
    BY <2>2, <2>3, <2>4, <2>5
<1>2. CASE UNCHANGED clw /\ fresh' \subseteq fresh
  BY <1>2
<1>3. CASE Crash
  BY <1>3 DEF Crash, Idle
<1>4. CASE \E n \in SbNames : SandboxStep(n)
  <2>1. PICK n \in SbNames : SandboxStep(n)
    BY <1>4
  <2>2. UNCHANGED clw /\ fresh' \subseteq fresh
    BY <2>1
    DEF SandboxStep, SbGet, SbOwner, SbDelete, ensureVCTPVCObject, SbPVC, SbEnsure, SbInspect,
        SbPrepare, SbChown, SbCreate, SbStart, writeSandboxStatus, SbSuspend, SbSuspendRemove,
        SbExpire, SbExpireRemove, SbFrame, DeleteSandbox, PutSandbox, Touch
  <2>3. QED
    BY <2>2, <1>2
<1>5. CASE \E t \in Threads : HookStep(t)
  <2>1. PICK t \in Threads : HookStep(t)
    BY <1>5
  <2>2. UNCHANGED clw /\ fresh' \subseteq fresh
    BY <2>1
    DEF HookStep, CascadeCheck, CascadeDelete, CascadeList, CascadeEach, CleanupInspect,
        CleanupRemove, CleanupPVC, CleanupDelete, CleanupVolume, DeleteSandbox, Touch
  <2>3. QED
    BY <2>2, <1>2
<1>6. CASE User
  <2>1. UNCHANGED clw /\ fresh' \subseteq fresh
    BY <1>6
    DEF User, Op, ApiOp, CreateClaim, ApiDeleteClaim, ApiDeleteSandbox, ApiDeletePool, ApiDeletePVC,
        CreatePool, ScalePool, ToggleTemplate, CreateSandbox, SetMode, CreatePVC, StartSweep,
        EventsEnd, Expire, ContainerExit, DeleteSandbox, PutSandbox, Touch
  <2>2. QED
    BY <2>1, <1>2
<1>7. CASE (\E p \in PoolNames : PoolStep(p)) \/ (\E v \in PVCNames : PVCStep(v)) \/ Serve
           \/ SweepStep \/ UNCHANGED vars
  <2>1. UNCHANGED clw /\ fresh' \subseteq fresh
    BY <1>7
    DEF PoolStep, PlGet, PlList, PlCreate, writeWarmPoolStatus, PlFrame, PutSandbox, Touch,
        PVCStep, PvGet, PvEnsure, writePVCStatus, PvFrame, Serve, ContainerServe, ChownEnds,
        DockerFrame, SweepStep, BootLook, GcLook, SweepRemove, PurgeContainer, ListManagedVolumes,
        PurgeVolume, SweepFrame, vars
  <2>2. QED
    BY <2>1, <1>2
<1>8. QED
  BY <1>1, <1>3, <1>4, <1>5, <1>6, <1>7 DEF Next

\* A pick that its Update would accept stays that of a pool's member.
LEMMA NextFresh ==
  ASSUME TypeInv, FreshInv, [Next]_vars
  PROVE  FreshInv'
<1> SUFFICES ASSUME NEW c \in fresh', clw'[c].pc = "adopt"
             PROVE  /\ sandboxes'[clw'[c].pick] # NoObject
                    /\ sandboxes'[clw'[c].pick].owner # NoOwner
                    /\ sandboxes'[clw'[c].pick].owner.kind = "pool"
  BY DEF FreshInv
<1>0. c \in ClaimNames /\ TypeInv'
  BY NextType DEF TypeInv, QueueT
<1>1. CASE ClPick(c) /\ UNCHANGED sandboxes
  <2>1. clw \in [ClaimNames -> ClThread]
    BY DEF TypeInv, ClwT
  <2>2. ownedBy(sandboxes[clw[c].pick], "pool", clw[c].o.pool) /\ clw'[c].pick = clw[c].pick
    BY <1>0, <1>1, <2>1 DEF ClPick, ClGoto, ClThread
  <2>3. QED
    BY <1>1, <2>2 DEF ownedBy
<1>2. CASE c \in fresh /\ clw'[c] = clw[c]
  <2> DEFINE n == clw[c].pick
  <2>0. /\ n \in SbNames /\ sandboxes[n] # NoObject
        /\ sandboxes[n].owner # NoOwner /\ sandboxes[n].owner.kind = "pool"
        /\ clw'[c].pick = n
    BY <1>0, <1>2 DEF FreshInv, TypeInv, ClwT, ClWell
  <2>u. sandboxes \in [SbNames -> Sandbox \cup {NoObject}]
        /\ sandboxes' \in [SbNames -> Sandbox \cup {NoObject}]
    BY <1>0 DEF TypeInv, StoreT
  <2> HIDE DEF n
  <2>1. CASE Kept
    <3>1. sandboxes'[n].uid = sandboxes[n].uid /\ sandboxes'[n].owner = sandboxes[n].owner
      BY <2>0, <2>1 DEF Kept
    <3>2. sandboxes'[n] # NoObject
      BY <2>0, <2>u, <3>1 DEF Sandbox, NoObject
    <3>3. QED
      BY <2>0, <3>1, <3>2
  <2>2. CASE Destroyed
    BY <2>0, <2>2, <2>u DEF Destroyed, n
  <2>3. CASE MadeByUser \/ MadeByPool \/ MadeByClaim
    <3>1. PICK m \in SbNames, o \in Sandbox : Provisioned(m, o)
      BY <2>3, MadeProvisioned
    <3>2. QED
      BY <2>0, <2>u, <3>1 DEF Provisioned
  <2>4. CASE Adopted
    <3>1. PICK d \in ClaimNames : ClAdopt(d) /\ UpdateAccepts(d, clw[d].pick)
      BY <2>4 DEF Adopted
    <3>2. PICK o \in Sandbox : /\ sandboxes' = [sandboxes EXCEPT ![clw[d].pick] = o]
                               /\ fresh' = {e \in fresh : clw[e].pick # clw[d].pick}
      BY <3>1, AdoptEffect
    <3>3. n # clw[d].pick
      BY <3>2 DEF n
    <3>4. QED
      BY <2>0, <2>u, <3>2, <3>3
  <2>5. QED
    BY <2>1, <2>2, <2>3, <2>4, SandboxEffect
<1>3. QED
  BY <1>1, <1>2, FreshEffect

----------------------------------------------------------------------------
(* The refinement of SandboxOwnership.                                     *)

\* what the mapping shows of a stored sandbox, and of all of them
Shown(o) == [uid |-> o.uid, kind |-> o.owner.kind, owner |-> controllerOwnerUID(o)]
Live == {Shown(sandboxes[n]) : n \in Stored}

\* Sandboxes that differ in name are shown as different.
LEMMA ShownApart ==
  ASSUME UidInv, NEW m \in Stored, NEW n \in Stored, Shown(sandboxes[m]) = Shown(sandboxes[n])
  PROVE  m = n
<1>1. sandboxes[m].uid = sandboxes[n].uid
  BY DEF Shown
<1>2. QED
  BY <1>1 DEF UidInv

\* One step of the control plane is a step of the ownership contract.
LEMMA OwnershipStep ==
  ASSUME TypeInv, UidInv, FreshInv, [Next]_vars
  PROVE  /\ lastUID' >= lastUID
         /\ \/ \E x \in Live' \ Live : x.uid \in (lastUID + 1)..lastUID' /\ Live' = Live \cup {x}
            \/ \E x \in Live, y \in Live' \ Live :
                 /\ y.uid = x.uid
                 /\ x.kind = "pool" /\ y.kind = "claim"
                 /\ Live' = (Live \ {x}) \cup {y}
            \/ \E x \in Live : Live' = Live \ {x}
            \/ UNCHANGED Live
<1>0. /\ lastUID \in Nat
      /\ sandboxes \in [SbNames -> Sandbox \cup {NoObject}]
      /\ sandboxes' \in [SbNames -> Sandbox \cup {NoObject}]
  BY NextType DEF TypeInv, StoreT
<1>n. NoObject \notin Sandbox /\ \A o \in Sandbox : o.uid # NoObject.uid
  BY DEF NoObject, Sandbox
<1>1. CASE Kept
  <2>1. Stored' = Stored
    <3>1. \A n \in SbNames : sandboxes'[n] = NoObject <=> sandboxes[n] = NoObject
      BY <1>0, <1>1, <1>n DEF Kept
    <3>2. QED
      BY <3>1 DEF Stored
  <2>2. \A n \in Stored : Shown(sandboxes'[n]) = Shown(sandboxes[n])
    BY <1>1 DEF Kept, Shown, Stored, controllerOwnerUID
  <2>3. Live' = Live
    BY <2>1, <2>2 DEF Live
  <2>4. QED
    BY <1>1, <2>3 DEF Kept
<1>2. CASE Destroyed
  <2>1. PICK n \in SbNames : /\ sandboxes[n] # NoObject
                             /\ sandboxes' = [sandboxes EXCEPT ![n] = NoObject]
                             /\ lastUID' = lastUID
    BY <1>2 DEF Destroyed
  <2>2. n \in Stored /\ Stored' = Stored \ {n}
    BY <1>0, <2>1 DEF Stored
  <2>3. \A m \in Stored' : sandboxes'[m] = sandboxes[m]
    BY <1>0, <2>1, <2>2 DEF Stored
  <2>4. Live' = {Shown(sandboxes[m]) : m \in Stored \ {n}}
    BY <2>2, <2>3 DEF Live
  <2>5. Live' = Live \ {Shown(sandboxes[n])} /\ Shown(sandboxes[n]) \in Live
    BY <2>2, <2>4, ShownApart DEF Live
  <2>6. QED
    BY <1>0, <2>1, <2>5
<1>3. CASE MadeByUser \/ MadeByPool \/ MadeByClaim
  <2>1. PICK n \in SbNames, o \in Sandbox : Provisioned(n, o)
    BY <1>3, MadeProvisioned
  <2>2. Stored' = Stored \cup {n} /\ sandboxes'[n] = o /\ n \notin Stored
    BY <1>0, <1>n, <2>1 DEF Stored, Provisioned
  <2>3. \A m \in Stored : sandboxes'[m] = sandboxes[m]
    BY <1>0, <2>1, <2>2 DEF Stored, Provisioned
  <2>4. Live' = Live \cup {Shown(o)}
    BY <2>2, <2>3 DEF Live
  <2>5. Shown(o).uid = lastUID + 1 /\ lastUID' = lastUID + 1
    BY <2>1 DEF Shown, Provisioned
  <2>6. \A x \in Live : x.uid \in Nat /\ x.uid <= lastUID
    <3>1. \A m \in Stored : sandboxes[m].uid \in Nat /\ sandboxes[m].uid <= lastUID
      BY <1>0 DEF UidInv, Stored, Sandbox
    <3>2. QED
      BY <3>1 DEF Live, Shown
  <2>7. Shown(o) \notin Live
    BY <1>0, <2>5, <2>6
  <2>8. QED
    BY <1>0, <2>4, <2>5, <2>7
<1>4. CASE Adopted
  <2>1. PICK c \in ClaimNames : ClAdopt(c) /\ UpdateAccepts(c, clw[c].pick)
    BY <1>4 DEF Adopted
  <2> DEFINE n == clw[c].pick
             o == [sandboxes[n] EXCEPT !.owner = claimRef(clw[c].o, c)]
  <2>2. /\ n \in SbNames /\ sandboxes[n] \in Sandbox /\ c \in fresh /\ clw[c].pc = "adopt"
        /\ o \in Sandbox /\ o.uid = sandboxes[n].uid /\ o.owner = claimRef(clw[c].o, c)
        /\ sandboxes' = [sandboxes EXCEPT ![n] = o]
        /\ lastUID' = lastUID
    BY <2>1, AdoptEffect
  <2>3. sandboxes[n].owner.kind = "pool"
    BY <2>2 DEF FreshInv
  <2> HIDE DEF n, o
  <2>4. n \in Stored /\ Stored' = Stored /\ sandboxes'[n] = o
    BY <1>0, <1>n, <2>2 DEF Stored
  <2>5. \A m \in Stored \ {n} : sandboxes'[m] = sandboxes[m]
    BY <1>0, <2>2, <2>4 DEF Stored
  <2> DEFINE x == Shown(sandboxes[n])
             y == Shown(o)
  <2>6. x.uid = sandboxes[n].uid /\ y.uid = x.uid /\ x.kind = "pool" /\ y.kind = "claim"
    BY <2>2, <2>3 DEF Shown, claimRef
  <2>7. Live' = {Shown(sandboxes[m]) : m \in Stored \ {n}} \cup {y}
    BY <2>4, <2>5 DEF Live
  <2>8. x \in Live /\ {Shown(sandboxes[m]) : m \in Stored \ {n}} = Live \ {x}
    BY <2>4, ShownApart DEF Live
  <2>9. y \notin Live
    <3>1. SUFFICES ASSUME NEW m \in Stored, y = Shown(sandboxes[m])
                   PROVE  FALSE
      BY DEF Live
    <3>2. sandboxes[m].uid = sandboxes[n].uid /\ sandboxes[m].owner.kind = "claim"
      BY <2>6, <3>1 DEF Shown
    <3>3. m = n
      BY <2>4, <3>2 DEF UidInv
    <3>4. QED
      BY <2>3, <3>2, <3>3
  <2> HIDE DEF x, y
  <2>10. QED
    BY <1>0, <2>2, <2>6, <2>7, <2>8, <2>9
<1>5. QED
  BY <1>1, <1>2, <1>3, <1>4, SandboxEffect

\* UIDs are never reused and what a claim is about to adopt belongs to a pool,
\* in every reachable state.
THEOREM UidsAndPicks == Spec => [](TypeInv /\ UidInv /\ FreshInv)
<1>1. Init => TypeInv /\ UidInv /\ FreshInv
  <2> SUFFICES ASSUME Init PROVE TypeInv /\ UidInv /\ FreshInv
    OBVIOUS
  <2>1. Stored = {} /\ fresh = {}
    BY DEF Init, Stored
  <2>2. QED
    BY <2>1, InitType DEF UidInv, FreshInv
<1>2. TypeInv /\ UidInv /\ FreshInv /\ [Next]_vars => (TypeInv /\ UidInv /\ FreshInv)'
  BY NextType, NextUid, NextFresh
<1>3. QED
  BY <1>1, <1>2, PTL DEF Spec

\* The control plane implements the ownership contract: a sandbox has one owner
\* under a UID never used before, is handed from a pool to a claim at most once
\* (adoptWarmSandbox's Update with the resourceVersion of its read), and nothing
\* else changes its owner, for every number of claims, pools, threads, crashes
\* and failures.
THEOREM ControlPlaneImplementsOwnership == Spec => AdoptedOnce
<1>1. Init => Ownership!Init
  <2> SUFFICES ASSUME Init PROVE Ownership!Init
    OBVIOUS
  <2>1. Stored = {} /\ lastUID \in Nat
    BY InitType DEF Init, Stored, TypeInv, StoreT
  <2>2. QED
    BY <2>1 DEF Ownership!Init
<1>2. TypeInv /\ UidInv /\ FreshInv /\ [Next]_vars
        => [Ownership!Next]_<<Live, lastUID>>
  <2>1. (\E x \in Live' \ Live : x.uid \in (lastUID + 1)..lastUID' /\ Live' = Live \cup {x})
          => Ownership!Provision
    BY DEF Ownership!Provision, Live, Shown
  <2>2. (\E x \in Live, y \in Live' \ Live :
           /\ y.uid = x.uid
           /\ x.kind = "pool" /\ y.kind = "claim"
           /\ Live' = (Live \ {x}) \cup {y})
          => Ownership!Adopt
    BY DEF Ownership!Adopt, Live, Shown
  <2>3. (\E x \in Live : Live' = Live \ {x}) => Ownership!Destroy
    BY DEF Ownership!Destroy, Live, Shown
  <2>4. lastUID' >= lastUID
          /\ (Ownership!Provision \/ Ownership!Adopt \/ Ownership!Destroy \/ UNCHANGED Live)
          => Ownership!Next
    BY DEF Ownership!Next, Live, Shown
  <2>5. QED
    BY <2>1, <2>2, <2>3, <2>4, OwnershipStep
<1>3. QED
  BY <1>1, <1>2, UidsAndPicks, PTL DEF Spec, AdoptedOnce, Ownership!Spec, Live, Shown

----------------------------------------------------------------------------
(* A warm pool never overshoots.                                           *)

\* What a pool has, with what its worker has left to create, is at most the
\* largest number of replicas that was ever asked for.
PoolInv ==
  \A p \in PoolNames :
    /\ pools[p] # NoObject => pools[p].replicas <= InitReplicas
    /\ plw[p].pc # "idle" => plw[p].o.replicas <= InitReplicas
    /\ plw[p].pc = "create" => Cardinality(Members(p)) + plw[p].left <= InitReplicas
    /\ Cardinality(Members(p)) <= InitReplicas

\* Only the worker of a pool adds to its members, and one at a time.
LEMMA MembersEffect ==
  ASSUME TypeInv, FreshInv, NEW p \in PoolNames, [Next]_vars
  PROVE  \/ Members(p)' \subseteq Members(p)
         \/ PlCreate(p) /\ \E n \in SbNames \ Members(p) : Members(p)' = Members(p) \cup {n}
<1>0. /\ sandboxes \in [SbNames -> Sandbox \cup {NoObject}]
      /\ sandboxes' \in [SbNames -> Sandbox \cup {NoObject}]
  BY NextType DEF TypeInv, StoreT
<1>n. NoObject \notin Sandbox /\ \A o \in Sandbox : o.uid # NoObject.uid
  BY DEF NoObject, Sandbox
<1>1. CASE Kept
  BY <1>0, <1>1, <1>n DEF Kept, Members, ownedBy
<1>2. CASE Destroyed
  BY <1>0, <1>2 DEF Destroyed, Members, ownedBy
<1>3. CASE MadeByUser \/ MadeByPool \/ MadeByClaim
  <2>1. PICK n \in SbNames, o \in Sandbox :
           /\ Provisioned(n, o)
           /\ \/ o.owner = NoOwner
              \/ \E q \in PoolNames : /\ PlCreate(q)
                                      /\ o.owner = [kind |-> "pool", name |-> q,
                                                    uid |-> plw[q].o.uid]
              \/ \E c \in ClaimNames : /\ ClCreate(c) /\ n = c
                                       /\ o.owner = claimRef(clw[c].o, c)
    BY <1>3, MadeProvisioned
  <2>2. n \notin Members(p) /\ sandboxes'[n] = o /\ \A m \in SbNames \ {n} : sandboxes'[m] = sandboxes[m]
    BY <1>0, <2>1 DEF Provisioned, Members, ownedBy
  <2>3. CASE ownedBy(o, "pool", p)
    <3>1. PlCreate(p)
      <4>1. ASSUME NEW q \in PoolNames, PlCreate(q),
                   o.owner = [kind |-> "pool", name |-> q, uid |-> plw[q].o.uid]
            PROVE  PlCreate(p)
        <5>1. q = p
          BY <2>3, <4>1 DEF ownedBy
        <5>2. QED
          BY <4>1, <5>1
      <4>2. o.owner # NoOwner /\ \A c \in ClaimNames : o.owner # claimRef(clw[c].o, c)
        BY <2>3 DEF ownedBy, claimRef
      <4>3. QED
        BY <2>1, <4>1, <4>2
    <3>2. Members(p)' = Members(p) \cup {n}
      BY <2>2, <2>3 DEF Members
    <3>3. QED
      BY <2>2, <3>1, <3>2
  <2>4. CASE ~ownedBy(o, "pool", p)
    BY <2>2, <2>4 DEF Members
  <2>5. QED
    BY <2>3, <2>4
<1>4. CASE Adopted
  <2>1. PICK c \in ClaimNames : ClAdopt(c) /\ UpdateAccepts(c, clw[c].pick)
    BY <1>4 DEF Adopted
  <2>2. PICK n \in SbNames, o \in Sandbox :
          sandboxes' = [sandboxes EXCEPT ![n] = o] /\ o.owner = claimRef(clw[c].o, c)
    BY <2>1, AdoptEffect, ZenonT(40)
  <2>3. o.owner.kind = "claim"
    BY <2>2 DEF claimRef
  <2>4. QED
    BY <1>0, <2>2, <2>3 DEF Members, ownedBy
<1>5. QED
  BY <1>1, <1>2, <1>3, <1>4, SandboxEffect

\* Only users write a pool's replicas, and within what the instance asks for.
LEMMA ReplicasEffect ==
  ASSUME TypeInv, PoolInv, NEW p \in PoolNames, [Next]_vars
  PROVE  pools'[p] # NoObject => pools'[p].replicas <= InitReplicas
<1>0. pools \in [PoolNames -> Pool \cup {NoObject}] /\ InitReplicas \in Nat
  BY ControlPlaneAssumption DEF TypeInv, StoreT
<1>1. CASE UNCHANGED pools
  BY <1>1 DEF PoolInv
<1>2. CASE User
  <2>1. ASSUME NEW q \in PoolNames, NEW r \in 0..InitReplicas, ScalePool(q, r)
        PROVE  pools'[p] # NoObject => pools'[p].replicas <= InitReplicas
    <3>1. pools' = [pools EXCEPT ![q].replicas = r] /\ pools[q] \in Pool
      BY <1>0, <2>1 DEF ScalePool
    <3>2. QED
      BY <1>0, <2>1, <3>1 DEF PoolInv, Pool
  <2>2. ASSUME NEW q \in PoolNames, CreatePool(q)
        PROVE  pools'[p] # NoObject => pools'[p].replicas <= InitReplicas
    BY <1>0, <2>2 DEF CreatePool, PoolInv
  <2>3. ASSUME NEW t, NEW q \in PoolNames, ApiDeletePool(t, q)
        PROVE  pools'[p] # NoObject => pools'[p].replicas <= InitReplicas
    BY <1>0, <2>3 DEF ApiDeletePool, PoolInv
  <2>4. QED
    BY <1>1, <1>2, <2>1, <2>2, <2>3
    DEF User, CreateClaim, ApiDeleteClaim, ApiDeleteSandbox, ApiDeletePVC, ToggleTemplate,
        CreateSandbox, SetMode, CreatePVC, StartSweep, EventsEnd, Expire, ContainerExit
<1>3. CASE \E n \in SbNames : SandboxStep(n)
  BY <1>1, <1>3, ZenonT(40)
  DEF SandboxStep, SbGet, SbOwner, SbDelete, ensureVCTPVCObject, SbPVC, SbEnsure, SbInspect,
      SbPrepare, SbChown, SbCreate, SbStart, writeSandboxStatus, SbSuspend, SbSuspendRemove,
      SbExpire, SbExpireRemove, SbFrame
<1>4. CASE \E c \in ClaimNames : ClaimStep(c)
  BY <1>1, <1>4, ZenonT(40)
  DEF ClaimStep, ClGet, ClDelete, ClRetain, ClRetainDelete, ClResolve, ClBind, ClList, ClPick,
      ClAdopt, ClCreate, ClGot, writeClaimStatus, ClFrame
<1>5. CASE \E t \in Threads : HookStep(t)
  BY <1>1, <1>5
  DEF HookStep, CascadeCheck, CascadeDelete, CascadeList, CascadeEach, CleanupInspect,
      CleanupRemove, CleanupPVC, CleanupDelete, CleanupVolume
<1>6. CASE (\E q \in PoolNames : PoolStep(q)) \/ (\E v \in PVCNames : PVCStep(v)) \/ Serve
           \/ SweepStep \/ Crash \/ UNCHANGED vars
  BY <1>1, <1>6
  DEF PoolStep, PlGet, PlList, PlCreate, writeWarmPoolStatus, PlFrame,
      PVCStep, PvGet, PvEnsure, writePVCStatus, PvFrame, Serve, ContainerServe, ChownEnds,
      DockerFrame, SweepStep, BootLook, GcLook, SweepRemove, PurgeContainer, ListManagedVolumes,
      PurgeVolume, SweepFrame, Crash, vars
<1>7. QED
  BY <1>2, <1>3, <1>4, <1>5, <1>6 DEF Next

\* Only the worker of a pool changes its state, or a crash ends it.
LEMMA PoolThreadEffect ==
  ASSUME TypeInv, NEW p \in PoolNames, [Next]_vars
  PROVE  plw'[p] = plw[p] \/ PoolStep(p) \/ plw'[p] = IdlePool
<1>0. plw \in [PoolNames -> PlThread]
  BY DEF TypeInv, PlwT
<1>1. CASE UNCHANGED plw
  BY <1>1
<1>2. CASE User
  BY <1>1, <1>2
  DEF User, Op, ApiOp, CreateClaim, ApiDeleteClaim, ApiDeleteSandbox, ApiDeletePool, ApiDeletePVC,
      CreatePool, ScalePool, ToggleTemplate, CreateSandbox, SetMode, CreatePVC, StartSweep,
      EventsEnd, Expire, ContainerExit
<1>3. CASE \E n \in SbNames : SandboxStep(n)
  BY <1>1, <1>3, ZenonT(40)
  DEF SandboxStep, SbGet, SbOwner, SbDelete, ensureVCTPVCObject, SbPVC, SbEnsure, SbInspect,
      SbPrepare, SbChown, SbCreate, SbStart, writeSandboxStatus, SbSuspend, SbSuspendRemove,
      SbExpire, SbExpireRemove, SbFrame
<1>4. CASE \E c \in ClaimNames : ClaimStep(c)
  BY <1>1, <1>4, ZenonT(40)
  DEF ClaimStep, ClGet, ClDelete, ClRetain, ClRetainDelete, ClResolve, ClBind, ClList, ClPick,
      ClAdopt, ClCreate, ClGot, writeClaimStatus, ClFrame
<1>5. CASE \E t \in Threads : HookStep(t)
  BY <1>1, <1>5
  DEF HookStep, CascadeCheck, CascadeDelete, CascadeList, CascadeEach, CleanupInspect,
      CleanupRemove, CleanupPVC, CleanupDelete, CleanupVolume
<1>6. CASE (\E v \in PVCNames : PVCStep(v)) \/ Serve \/ SweepStep \/ UNCHANGED vars
  BY <1>1, <1>6
  DEF PVCStep, PvGet, PvEnsure, writePVCStatus, PvFrame, Serve, ContainerServe, ChownEnds,
      DockerFrame, SweepStep, BootLook, GcLook, SweepRemove, PurgeContainer, ListManagedVolumes,
      PurgeVolume, SweepFrame, vars
<1>7. CASE Crash
  BY <1>7 DEF Crash, Idle
<1>8. ASSUME NEW q \in PoolNames, PoolStep(q)
      PROVE  q = p \/ plw'[p] = plw[p]
  BY <1>0, <1>8 DEF PoolStep, PlGet, PlList, PlCreate, writeWarmPoolStatus
<1>9. QED
  BY <1>2, <1>3, <1>4, <1>5, <1>6, <1>7, <1>8 DEF Next

\* The bound on a pool and its worker is inductive.
LEMMA NextPool ==
  ASSUME TypeInv, FreshInv, PoolInv, [Next]_vars
  PROVE  PoolInv'
<1> SUFFICES ASSUME NEW p \in PoolNames
             PROVE  /\ plw'[p].pc # "idle" => plw'[p].o.replicas <= InitReplicas
                    /\ plw'[p].pc = "create" =>
                         Cardinality(Members(p)') + plw'[p].left <= InitReplicas
                    /\ Cardinality(Members(p)') <= InitReplicas
  BY ReplicasEffect DEF PoolInv
<1>0. /\ IsFiniteSet(Members(p)) /\ Cardinality(Members(p)) \in Nat
      /\ Cardinality(Members(p)) <= InitReplicas /\ InitReplicas \in Nat
      /\ plw[p] \in PlThread /\ plw[p].left \in Nat
      /\ plw \in [PoolNames -> PlThread]
      /\ plw[p].pc # "idle" => plw[p].o \in Pool /\ plw[p].o.replicas \in Nat
                               /\ plw[p].o.replicas <= InitReplicas
      /\ plw[p].pc = "create" => /\ plw[p].left # 0
                                 /\ Cardinality(Members(p)) + plw[p].left <= InitReplicas
  BY MembersFinite, ControlPlaneAssumption DEF TypeInv, PlwT, PlThread, Pool, PoolInv
<1>1. CASE PlCreate(p)
  <2>1. PICK n : Members(p)' \subseteq Members(p) \cup {n}
    BY <1>1, MembersEffect
  <2>2. Cardinality(Members(p)') \in Nat
        /\ Cardinality(Members(p)') <= Cardinality(Members(p)) + 1
    <3>1. IsFiniteSet(Members(p) \cup {n})
          /\ Cardinality(Members(p) \cup {n}) <= Cardinality(Members(p)) + 1
          /\ Cardinality(Members(p) \cup {n}) \in Nat
      <4>1. IsFiniteSet(Members(p) \cup {n})
            /\ Cardinality(Members(p) \cup {n}) =
                 IF n \in Members(p) THEN Cardinality(Members(p)) ELSE Cardinality(Members(p)) + 1
        BY <1>0, FS_AddElement
      <4>2. QED
        BY <1>0, <4>1
    <3>2. IsFiniteSet(Members(p)')
          /\ Cardinality(Members(p)') <= Cardinality(Members(p) \cup {n})
      BY <2>1, <3>1, FS_Subset
    <3>3. Cardinality(Members(p)') \in Nat
      BY <3>2, FS_CardinalityType
    <3>4. QED
      BY <1>0, <3>1, <3>2, <3>3
  <2>3. plw[p].pc = "create" /\ plw'[p].left = plw[p].left - 1 /\ plw'[p].o = plw[p].o
    BY <1>0, <1>1 DEF PlCreate, PlThread
  <2>4. QED
    BY <1>0, <2>2, <2>3
<1>2. CASE ~PlCreate(p)
  <2>1. Cardinality(Members(p)') \in Nat
        /\ Cardinality(Members(p)') <= Cardinality(Members(p))
    <3>1. Members(p)' \subseteq Members(p)
      BY <1>2, MembersEffect
    <3>2. IsFiniteSet(Members(p)')
          /\ Cardinality(Members(p)') <= Cardinality(Members(p))
      BY <1>0, <3>1, FS_Subset
    <3>3. QED
      BY <3>2, FS_CardinalityType
  <2>2. CASE plw'[p] = plw[p]
    BY <1>0, <2>1, <2>2
  <2>3. CASE plw'[p] = IdlePool
    BY <1>0, <2>1, <2>3 DEF IdlePool
  <2>4. CASE PlGet(p)
    <3>1. CASE plw' = plw
      BY <2>2, <3>1
    <3>2. CASE pools[p] # NoObject
      <4>1. plw'[p] = [IdlePool EXCEPT !.pc = "list", !.o = pools[p]]
        BY <1>0, <2>4, <3>2 DEF PlGet
      <4>2. plw'[p].pc = "list" /\ plw'[p].o.replicas <= InitReplicas
        BY <3>2, <4>1 DEF IdlePool, PoolInv
      <4>3. QED
        BY <1>0, <2>1, <4>2
    <3>3. QED
      BY <2>4, <3>1, <3>2 DEF PlGet
  <2>5. CASE PlList(p)
    <3>1. Members(p)' = Members(p)
      BY <2>5 DEF PlList, Members
    <3> DEFINE have == Cardinality(Members(p))
               want == plw[p].o.replicas
    <3>2. plw[p].pc = "list"
      BY <2>5 DEF PlList
    <3>3. CASE have < want /\ plw' = [plw EXCEPT ![p].pc = "create", ![p].left = want - have]
      <4>1. plw'[p].left = want - have /\ plw'[p].o = plw[p].o
        BY <1>0, <3>3 DEF PlThread
      <4>2. QED
        BY <1>0, <3>1, <3>2, <4>1
    <3>4. CASE plw' = [plw EXCEPT ![p].pc = "status"]
      <4>1. plw'[p].pc = "status" /\ plw'[p].o = plw[p].o
        BY <1>0, <3>4 DEF PlThread
      <4>2. QED
        BY <1>0, <3>1, <3>2, <4>1
    <3>5. QED
      BY <2>5, <3>3, <3>4 DEF PlList, Mine
  <2>6. CASE writeWarmPoolStatus(p)
    BY <1>0, <2>3, <2>6 DEF writeWarmPoolStatus
  <2>7. QED
    BY <1>2, <2>2, <2>3, <2>4, <2>5, <2>6, PoolThreadEffect DEF PoolStep
<1>3. QED
  BY <1>1, <1>2

\* A pool never has more members than the largest number of replicas that was
\* asked for, whatever claims adopt, hooks delete and users scale between its
\* worker's listing and its creates (reconcileWarmPool), for every number of
\* pools, claims and crashes.
THEOREM PoolsNeverOvershoot == Spec => []PoolNeverOvershoots
<1>1. Init => PoolInv
  <2> SUFFICES ASSUME Init, NEW p \in PoolNames
               PROVE  /\ pools[p] # NoObject => pools[p].replicas <= InitReplicas
                      /\ plw[p].pc = "idle" /\ Cardinality(Members(p)) <= InitReplicas
    BY DEF PoolInv
  <2>1. Members(p) = {}
    BY DEF Init, Members, ownedBy
  <2>2. pools[p].replicas = InitReplicas /\ plw[p].pc = "idle"
    BY DEF Init, IdlePool
  <2>3. QED
    BY <2>1, <2>2, FS_EmptySet, ControlPlaneAssumption
<1>2. PoolInv => PoolNeverOvershoots
  BY DEF PoolInv, PoolNeverOvershoots
<1>3. QED
  BY <1>1, <1>2, NextPool, UidsAndPicks, PTL DEF Spec

(***************************************************************************)
(* A claim has one sandbox.                                                *)
(***************************************************************************)
----------------------------------------------------------------------------
(* The inductive invariant.                                                *)

\* every UID that a claim, a copy of one or an ownerReference to one has was
\* handed out
UidsGiven ==
  /\ \A c \in ClaimNames : claims[c].uid <= lastUID /\ clw[c].o.uid <= lastUID
  /\ \A n \in Stored : sandboxes[n].owner.kind = "claim" => sandboxes[n].owner.uid <= lastUID
\* the stored incarnation of a claim, and the one its worker has read
Incarnations(c) == {claims[c].uid, clw[c].o.uid}
UidsApart ==
  \A c, d \in ClaimNames : c # d =>
    \A u \in Incarnations(c) : u \in Incarnations(d) => u = 0
\* the worker knows that n is the claim's: from the copy it read, or because it
\* is about to record it
Knows(th, n) ==
  \/ th.pc \in {"delete", "retain", "rdelete", "resolve", "bind"} /\ n = th.o.sb
  \/ th.pc = "status" /\ n = th.sb
\* what an incarnation owns is recorded, or its worker is about to record it;
\* and an incarnation no worker has read owns nothing
ClaimBound(c) ==
  /\ clw[c].pc = "idle" /\ claims[c] # NoObject =>
       \A n \in OwnedBy("claim", claims[c].uid) : n = claims[c].sb
  /\ clw[c].pc # "idle" => \A n \in OwnedBy("claim", clw[c].o.uid) : Knows(clw[c], n)
  /\ clw[c].pc # "idle" /\ claims[c] # NoObject /\ claims[c].uid # clw[c].o.uid =>
       OwnedBy("claim", claims[c].uid) = {}
ClaimInv == crashes = 0 => \A c \in ClaimNames : ClaimBound(c)

----------------------------------------------------------------------------
(* What a step can do to a claim and to the copy its worker has.           *)

\* the claim stays this incarnation, bound as it was
ClaimKept(c) ==
  /\ claims'[c].uid = claims[c].uid
  /\ claims[c] # NoObject => claims'[c].sb = claims[c].sb
ClaimMade(c) ==
  /\ claims[c] = NoObject
  /\ claims'[c].uid = lastUID + 1 /\ lastUID' = lastUID + 1
  /\ UNCHANGED <<sandboxes, clw>>
  /\ \A d \in ClaimNames \ {c} : claims'[d] = claims[d]

\* A claim changes by a step of its own worker, by a user or by the clock.
LEMMA ClaimEffect ==
  ASSUME TypeInv, NEW c \in ClaimNames, [Next]_vars
  PROVE  \/ ClaimStep(c)
         \/ clw'[c] = clw[c] /\ (ClaimKept(c) \/ claims'[c] = NoObject \/ ClaimMade(c))
         \/ Crash
<1>0. claims \in [ClaimNames -> Claim \cup {NoObject}] /\ clw \in [ClaimNames -> ClThread]
  BY DEF TypeInv, StoreT, ClwT
<1>1. CASE UNCHANGED <<claims, clw>>
  BY <1>1 DEF ClaimKept
<1>2. CASE User
  <2>1. ASSUME NEW d \in ClaimNames, NEW p, NEW cold, NEW policy, CreateClaim(d, p, cold, policy)
        PROVE  clw'[c] = clw[c] /\ (ClaimKept(c) \/ ClaimMade(c))
    <3>1. CASE d = c
      <4>1. claims'[c].uid = lastUID + 1
        BY <1>0, <2>1, <3>1 DEF CreateClaim
      <4>2. QED
        BY <1>0, <2>1, <3>1, <4>1 DEF CreateClaim, ApiOp, Op, ClaimMade
    <3>2. CASE d # c
      BY <1>0, <2>1, <3>2 DEF CreateClaim, ApiOp, Op, ClaimKept
    <3>3. QED
      BY <3>1, <3>2
  <2>2. ASSUME NEW t, NEW d \in ClaimNames, ApiDeleteClaim(t, d)
        PROVE  clw'[c] = clw[c] /\ (ClaimKept(c) \/ claims'[c] = NoObject)
    BY <1>0, <2>2 DEF ApiDeleteClaim, DeleteClaim, ApiOp, Op, ClaimKept
  <2>3. CASE Expire
    <3>1. ASSUME NEW d \in ClaimNames, claims[d] # NoObject,
                 \/ claims' = [claims EXCEPT ![d].due = TRUE]
                 \/ claims' = [claims EXCEPT ![d].ttl = "passed"]
          PROVE  ClaimKept(c)
      <4>1. claims[d] \in Claim
        BY <1>0, <3>1
      <4>2. QED
        BY <1>0, <3>1, <4>1 DEF ClaimKept, Claim
    <3>2. ASSUME UNCHANGED claims PROVE ClaimKept(c)
      BY <3>2 DEF ClaimKept
    <3>3. (\E d \in ClaimNames :
              /\ claims[d] # NoObject
              /\ \/ claims' = [claims EXCEPT ![d].due = TRUE]
                 \/ claims' = [claims EXCEPT ![d].ttl = "passed"])
          \/ UNCHANGED claims
      BY <2>3 DEF Expire
    <3>4. clw' = clw
      BY <2>3 DEF Expire, ApiOp, Op
    <3>5. QED
      BY <3>1, <3>2, <3>3, <3>4
  <2>4. QED
    BY <1>1, <1>2, <2>1, <2>2, <2>3
    DEF User, Op, ApiOp, ApiDeleteSandbox, ApiDeletePool, ApiDeletePVC, CreatePool, ScalePool,
        ToggleTemplate, CreateSandbox, SetMode, CreatePVC, StartSweep, EventsEnd, ContainerExit
<1>3. CASE \E n \in SbNames : SandboxStep(n)
  BY <1>1, <1>3, ZenonT(40)
  DEF SandboxStep, SbGet, SbOwner, SbDelete, ensureVCTPVCObject, SbPVC, SbEnsure, SbInspect,
      SbPrepare, SbChown, SbCreate, SbStart, writeSandboxStatus, SbSuspend, SbSuspendRemove,
      SbExpire, SbExpireRemove, SbFrame
<1>4. ASSUME NEW d \in ClaimNames, ClaimStep(d), d # c
      PROVE  clw'[c] = clw[c] /\ ClaimKept(c)
  <2>1. clw'[c] = clw[c]
    BY <1>0, <1>4
    DEF ClaimStep, ClGet, ClDelete, ClRetain, ClRetainDelete, ClResolve, ClBind, ClList, ClPick,
        ClAdopt, ClCreate, ClGot, writeClaimStatus, ClGoto, ClStatus, Mirror, claimNotReady
  <2>2. claims'[c] = claims[c]
    BY <1>0, <1>4
    DEF ClaimStep, ClGet, ClDelete, ClRetain, ClRetainDelete, ClResolve, ClBind, ClList, ClPick,
        ClAdopt, ClCreate, ClGot, writeClaimStatus, DeleteClaim
  <2>3. QED
    BY <2>1, <2>2 DEF ClaimKept
<1>5. CASE \E t \in Threads : HookStep(t)
  BY <1>1, <1>5
  DEF HookStep, CascadeCheck, CascadeDelete, CascadeList, CascadeEach, CleanupInspect,
      CleanupRemove, CleanupPVC, CleanupDelete, CleanupVolume
<1>6. CASE (\E p \in PoolNames : PoolStep(p)) \/ (\E v \in PVCNames : PVCStep(v)) \/ Serve
           \/ SweepStep \/ UNCHANGED vars
  BY <1>1, <1>6
  DEF PoolStep, PlGet, PlList, PlCreate, writeWarmPoolStatus, PlFrame,
      PVCStep, PvGet, PvEnsure, writePVCStatus, PvFrame, Serve, ContainerServe, ChownEnds,
      DockerFrame, SweepStep, BootLook, GcLook, SweepRemove, PurgeContainer, ListManagedVolumes,
      PurgeVolume, SweepFrame, vars
<1>7. QED
  BY <1>2, <1>3, <1>4, <1>5, <1>6 DEF Next

\* A claim comes to own a sandbox only by its own worker's Create or Update.
LEMMA OwnedEffect ==
  ASSUME TypeInv, [Next]_vars, NEW u
  PROVE  \/ OwnedBy("claim", u)' \subseteq OwnedBy("claim", u)
         \/ \E d \in ClaimNames :
              /\ u = clw[d].o.uid
              /\ \/ /\ ClCreate(d) /\ sandboxes[d] = NoObject
                    /\ OwnedBy("claim", u)' \subseteq OwnedBy("claim", u) \cup {d}
                 \/ /\ ClAdopt(d) /\ UpdateAccepts(d, clw[d].pick)
                    /\ OwnedBy("claim", u)' \subseteq OwnedBy("claim", u) \cup {clw[d].pick}
<1>0. /\ sandboxes \in [SbNames -> Sandbox \cup {NoObject}]
      /\ sandboxes' \in [SbNames -> Sandbox \cup {NoObject}]
  BY NextType DEF TypeInv, StoreT
<1>n. NoObject \notin Sandbox /\ \A o \in Sandbox : o.uid # NoObject.uid
  BY DEF NoObject, Sandbox
<1>1. CASE Kept
  BY <1>0, <1>1, <1>n DEF Kept, OwnedBy, Stored
<1>2. CASE Destroyed
  BY <1>0, <1>2 DEF Destroyed, OwnedBy, Stored
<1>3. CASE MadeByUser \/ MadeByPool \/ MadeByClaim
  <2>1. PICK n \in SbNames, o \in Sandbox :
           /\ Provisioned(n, o)
           /\ \/ o.owner = NoOwner
              \/ \E q \in PoolNames : /\ PlCreate(q)
                                      /\ o.owner = [kind |-> "pool", name |-> q,
                                                    uid |-> plw[q].o.uid]
              \/ \E c \in ClaimNames : /\ ClCreate(c) /\ n = c
                                       /\ o.owner = claimRef(clw[c].o, c)
    BY <1>3, MadeProvisioned
  <2>2. sandboxes[n] = NoObject /\ sandboxes'[n] = o
        /\ \A m \in SbNames \ {n} : sandboxes'[m] = sandboxes[m]
    BY <1>0, <2>1 DEF Provisioned
  <2>3. OwnedBy("claim", u)' \subseteq OwnedBy("claim", u) \cup {n}
    BY <2>2 DEF OwnedBy, Stored
  <2>4. CASE o.owner.kind = "claim" /\ o.owner.uid = u
    <3>1. PICK d \in ClaimNames : ClCreate(d) /\ n = d /\ o.owner = claimRef(clw[d].o, d)
      <4>1. o.owner # NoOwner
        BY <2>4 DEF NoOwner
      <4>2. \A q : o.owner # [kind |-> "pool", name |-> q, uid |-> plw[q].o.uid]
        BY <2>4
      <4>3. QED
        BY <2>1, <4>1, <4>2
    <3>2. u = clw[d].o.uid
      BY <2>4, <3>1 DEF claimRef
    <3>3. QED
      BY <2>2, <2>3, <3>1, <3>2
  <2>5. CASE ~(o.owner.kind = "claim" /\ o.owner.uid = u)
    BY <2>2, <2>5 DEF OwnedBy, Stored
  <2>6. QED
    BY <2>4, <2>5
<1>4. CASE Adopted
  <2>1. PICK d \in ClaimNames : ClAdopt(d) /\ UpdateAccepts(d, clw[d].pick)
    BY <1>4 DEF Adopted
  <2> DEFINE n == clw[d].pick
  <2>2. PICK o \in Sandbox :
          /\ n \in SbNames /\ sandboxes' = [sandboxes EXCEPT ![n] = o]
          /\ o.owner = claimRef(clw[d].o, d)
    BY <2>1, AdoptEffect
  <2> HIDE DEF n
  <2>3. sandboxes'[n] = o /\ \A m \in SbNames \ {n} : sandboxes'[m] = sandboxes[m]
    BY <1>0, <2>2
  <2>4. OwnedBy("claim", u)' \subseteq OwnedBy("claim", u) \cup {n}
    BY <2>3 DEF OwnedBy, Stored
  <2>5. CASE u = clw[d].o.uid
    BY <2>1, <2>4, <2>5 DEF n
  <2>6. CASE u # clw[d].o.uid
    <3>1. o.owner.uid # u
      BY <2>2, <2>6 DEF claimRef
    <3>2. QED
      BY <2>3, <3>1 DEF OwnedBy, Stored
  <2>7. QED
    BY <2>5, <2>6
<1>5. QED
  BY <1>1, <1>2, <1>3, <1>4, SandboxEffect

----------------------------------------------------------------------------
(* UIDs of claims.                                                         *)

\* A worker that goes on keeps the copy it has read.
LEMMA GoesOn ==
  ASSUME TypeInv, NEW c \in ClaimNames, NEW pc, ClGoto(c, pc)
  PROVE  clw'[c] = [clw[c] EXCEPT !.pc = pc] /\ clw'[c].pc = pc /\ clw'[c].o = clw[c].o
         /\ clw'[c].pick = clw[c].pick
  BY DEF ClGoto, TypeInv, ClwT, ClThread

\* ... so does one that is about to write the status.
LEMMA ToStatus ==
  ASSUME TypeInv, NEW c \in ClaimNames, NEW sb, NEW ready, NEW finished,
         ClStatus(c, sb, ready, finished)
  PROVE  clw'[c].pc = "status" /\ clw'[c].o = clw[c].o /\ clw'[c].sb = sb
  BY DEF ClStatus, TypeInv, ClwT, ClThread

\* A step of a claim's worker reads the stored incarnation, keeps the copy, or
\* ends; only the two last steps write the claim.
LEMMA WorkerCopy ==
  ASSUME TypeInv, NEW c \in ClaimNames, ClaimStep(c)
  PROVE  \/ ClGet(c) \/ ClDelete(c) \/ writeClaimStatus(c)
         \/ clw'[c].o = clw[c].o /\ clw[c].pc # "idle" /\ clw'[c].pc # "idle"
            /\ UNCHANGED claims
<1>0. clw \in [ClaimNames -> ClThread] /\ clw[c] \in ClThread
  BY DEF TypeInv, ClwT
<1>g. ASSUME NEW pc, ClGoto(c, pc)
      PROVE  clw'[c].o = clw[c].o /\ clw'[c].pc = pc
  BY <1>g, GoesOn
<1>s. ASSUME NEW sb, NEW ready, NEW finished, ClStatus(c, sb, ready, finished)
      PROVE  clw'[c].o = clw[c].o /\ clw'[c].pc = "status"
  BY <1>s, ToStatus
<1>1. CASE ClRetain(c) \/ ClRetainDelete(c) \/ ClResolve(c) \/ ClBind(c) \/ ClCreate(c)
           \/ ClGot(c) \/ ClPick(c)
  <2>1. \/ ClGoto(c, "rdelete") \/ ClGoto(c, "bind") \/ ClGoto(c, "create")
        \/ ClGoto(c, "list") \/ ClGoto(c, "got") \/ ClGoto(c, "adopt")
        \/ \E sb, ready, finished : ClStatus(c, sb, ready, finished)
    BY <1>1 DEF ClRetain, ClRetainDelete, ClResolve, ClBind, ClCreate, ClGot, ClPick, claimNotReady, Mirror
  <2>2. clw'[c].o = clw[c].o /\ clw'[c].pc # "idle"
    BY <2>1, <1>g, <1>s
  <2>3. clw[c].pc # "idle" /\ UNCHANGED claims
    BY <1>1 DEF ClRetain, ClRetainDelete, ClResolve, ClBind, ClCreate, ClGot, ClPick, At
  <2>4. QED
    BY <2>2, <2>3
<1>2. CASE ClList(c)
  <2>1. CASE \E n : clw' = [clw EXCEPT ![c].pc = "pick", ![c].pick = n, ![c].tries = 0]
    <3>1. PICK n : clw' = [clw EXCEPT ![c].pc = "pick", ![c].pick = n, ![c].tries = 0]
      BY <2>1
    <3>2. clw'[c].o = clw[c].o /\ clw'[c].pc = "pick"
      BY <1>0, <3>1 DEF ClThread
    <3>3. QED
      BY <1>2, <3>2 DEF ClList, At
  <2>2. CASE ClGoto(c, "create")
    <3>1. clw'[c].o = clw[c].o /\ clw'[c].pc = "create"
      BY <2>2, <1>g
    <3>2. clw[c].pc = "list" /\ UNCHANGED claims
      BY <1>2 DEF ClList, At
    <3>3. QED
      BY <3>1, <3>2
  <2>3. QED
    BY <1>2, <2>1, <2>2 DEF ClList
<1>3. CASE ClAdopt(c)
  <2>1. ASSUME clw' = [clw EXCEPT ![c].tries = @ + 1,
                         ![c].pc = IF RetryAgain(clw[c].tries) THEN "pick" ELSE "create"]
        PROVE  clw'[c].o = clw[c].o /\ clw'[c].pc # "idle"
    BY <1>0, <2>1 DEF ClThread
  <2>2. clw'[c].o = clw[c].o /\ clw'[c].pc # "idle"
    BY <1>3, <2>1, <1>g, <1>s DEF ClAdopt, Mirror
  <2>3. QED
    BY <1>3, <2>2 DEF ClAdopt, At
<1>4. QED
  BY <1>1, <1>2, <1>3 DEF ClaimStep

\* The three steps that begin and end a reconcile of a claim.
LEMMA WorkerEnds ==
  ASSUME TypeInv, NEW c \in ClaimNames
  PROVE  /\ ClGet(c) => /\ UNCHANGED <<claims, sandboxes>>
                        /\ \/ clw' = clw
                           \/ /\ claims[c] # NoObject /\ clw[c].pc = "idle"
                              /\ clw'[c].o = claims[c]
                              /\ clw'[c].pc \in {"resolve", "delete", "retain"}
         /\ ClDelete(c) => claims'[c] = NoObject /\ clw'[c] = IdleClaim /\ UNCHANGED sandboxes
         /\ writeClaimStatus(c) =>
              /\ clw[c].pc = "status" /\ clw'[c] = IdleClaim /\ UNCHANGED sandboxes
              /\ \/ claims[c] = NoObject /\ claims'[c] = NoObject
                 \/ claims'[c].uid = claims[c].uid /\ claims'[c].sb = clw[c].sb
                    /\ claims[c] # NoObject
<1>0. /\ clw \in [ClaimNames -> ClThread] /\ clw[c] \in ClThread
      /\ claims \in [ClaimNames -> Claim \cup {NoObject}]
  BY DEF TypeInv, ClwT, StoreT
<1>1. ASSUME ClGet(c)
      PROVE  /\ UNCHANGED <<claims, sandboxes>>
             /\ \/ clw' = clw
                \/ /\ claims[c] # NoObject /\ clw[c].pc = "idle"
                   /\ clw'[c].o = claims[c]
                   /\ clw'[c].pc \in {"resolve", "delete", "retain"}
  <2>1. CASE claims[c] # NoObject
    <3> DEFINE pc == CASE ~claimExpired(claims[c]) -> "resolve"
                       [] claimExpired(claims[c])
                          /\ claims[c].shutdown \in {"Delete", "DeleteForeground"} -> "delete"
                       [] OTHER -> "retain"
    <3>1. clw'[c] = [IdleClaim EXCEPT !.o = claims[c], !.pc = pc]
      BY <1>0, <1>1, <2>1 DEF ClGet
    <3>2. pc \in {"resolve", "delete", "retain"}
      OBVIOUS
    <3> HIDE DEF pc
    <3>3. clw'[c].o = claims[c] /\ clw'[c].pc = pc
      BY <3>1 DEF IdleClaim
    <3>4. clw[c].pc = "idle" /\ UNCHANGED <<claims, sandboxes>>
      BY <1>1 DEF ClGet, Take
    <3>5. QED
      BY <2>1, <3>2, <3>3, <3>4
  <2>2. QED
    BY <1>1, <2>1 DEF ClGet
<1>2. ClDelete(c) => claims'[c] = NoObject /\ clw'[c] = IdleClaim /\ UNCHANGED sandboxes
  BY <1>0 DEF ClDelete, DeleteClaim
<1>3. ASSUME writeClaimStatus(c)
      PROVE  /\ clw[c].pc = "status" /\ clw'[c] = IdleClaim /\ UNCHANGED sandboxes
             /\ \/ claims[c] = NoObject /\ claims'[c] = NoObject
                \/ claims'[c].uid = claims[c].uid /\ claims'[c].sb = clw[c].sb
                   /\ claims[c] # NoObject
  <2>1. CASE claims[c] # NoObject
    <3>1. claims[c] \in Claim
      BY <1>0, <2>1
    <3>2. claims'[c].uid = claims[c].uid /\ claims'[c].sb = clw[c].sb
      BY <1>0, <1>3, <2>1, <3>1 DEF writeClaimStatus, Claim
    <3>3. QED
      BY <1>0, <1>3, <2>1, <3>2 DEF writeClaimStatus, At
  <2>2. CASE claims[c] = NoObject
    BY <1>0, <1>3, <2>2 DEF writeClaimStatus, At
  <2>3. QED
    BY <2>1, <2>2
<1>4. QED
  BY <1>1, <1>2, <1>3

\* No step gives a claim or the copy of its worker another incarnation's UID,
\* other than by the creation of the claim.
LEMMA IncarnationsEffect ==
  ASSUME TypeInv, NEW c \in ClaimNames, [Next]_vars
  PROVE  Incarnations(c)' \subseteq Incarnations(c) \cup {0} \/ ClaimMade(c)
<1>0. NoObject.uid = 0 /\ IdleClaim.o = NoObject
  BY DEF NoObject, IdleClaim
<1>1. CASE ClaimStep(c)
  <2>1. \/ clw'[c].o = clw[c].o /\ UNCHANGED claims
        \/ ClGet(c) \/ ClDelete(c) \/ writeClaimStatus(c)
    BY <1>1, WorkerCopy
  <2>2. ClGet(c) => claims'[c].uid = claims[c].uid
                    /\ (clw'[c].o = clw[c].o \/ clw'[c].o = claims[c])
    BY WorkerEnds
  <2>3. ClDelete(c) \/ writeClaimStatus(c) =>
          clw'[c].o = NoObject /\ (claims'[c] = NoObject \/ claims'[c].uid = claims[c].uid)
    BY <1>0, WorkerEnds
  <2>4. QED
    BY <1>0, <2>1, <2>2, <2>3 DEF Incarnations
<1>2. CASE clw'[c] = clw[c] /\ (ClaimKept(c) \/ claims'[c] = NoObject \/ ClaimMade(c))
  BY <1>0, <1>2 DEF Incarnations, ClaimKept
<1>3. CASE Crash
  BY <1>0, <1>3 DEF Crash, Idle, Incarnations
<1>4. QED
  BY <1>1, <1>2, <1>3, ClaimEffect

\* UIDs only grow.
LEMMA UidGrows ==
  ASSUME TypeInv, [Next]_vars
  PROVE  lastUID \in Nat /\ lastUID' \in Nat /\ lastUID' >= lastUID
<1>0. lastUID \in Nat /\ lastUID' \in Nat
  BY NextType DEF TypeInv, StoreT
<1>1. MadeByUser \/ MadeByPool \/ MadeByClaim => lastUID' = lastUID + 1
  BY MadeProvisioned DEF Provisioned
<1>2. Adopted => lastUID' = lastUID
  BY AdoptEffect DEF Adopted
<1>3. QED
  BY <1>0, <1>1, <1>2, SandboxEffect DEF Kept, Destroyed

\* Every UID in use was handed out, and no two claims share one.
LEMMA NextUids ==
  ASSUME TypeInv, UidsGiven, UidsApart, [Next]_vars
  PROVE  UidsGiven' /\ UidsApart'
<1>0. /\ lastUID \in Nat /\ lastUID' \in Nat /\ lastUID' >= lastUID
      /\ \A c \in ClaimNames : \A u \in Incarnations(c) : u \in Nat /\ u <= lastUID
  <2>1. \A c \in ClaimNames : claims[c].uid \in Nat /\ clw[c].o.uid \in Nat
    <3>1. \A o \in Claim \cup {NoObject} : o.uid \in Nat
      BY DEF Claim, NoObject
    <3>2. QED
      BY <3>1 DEF TypeInv, StoreT, ClwT, ClThread
  <2>2. QED
    BY <2>1, UidGrows DEF UidsGiven, Incarnations
<1>1. \A c \in ClaimNames : \A u \in Incarnations(c)' : u <= lastUID'
  <2> SUFFICES ASSUME NEW c \in ClaimNames, NEW u \in Incarnations(c)'
               PROVE  u <= lastUID'
    OBVIOUS
  <2>1. CASE Incarnations(c)' \subseteq Incarnations(c) \cup {0}
    BY <1>0, <2>1
  <2>2. CASE ClaimMade(c)
    <3>1. u = lastUID + 1 \/ u \in Incarnations(c)
      BY <2>2 DEF ClaimMade, Incarnations
    <3>2. QED
      BY <1>0, <2>2, <3>1 DEF ClaimMade
  <2>3. QED
    BY <2>1, <2>2, IncarnationsEffect
<1>2. UidsApart'
  <2> SUFFICES ASSUME NEW c \in ClaimNames, NEW d \in ClaimNames, c # d,
                      NEW u \in Incarnations(c)', u \in Incarnations(d)'
               PROVE  u = 0
    BY DEF UidsApart, Incarnations
  <2>1. ASSUME NEW a \in ClaimNames, ClaimMade(a), NEW b \in ClaimNames, a # b,
               u \in Incarnations(a)', u \in Incarnations(b)'
        PROVE  u = 0
    <3>1. Incarnations(b)' = Incarnations(b) /\ (u = lastUID + 1 \/ u \in Incarnations(a))
      BY <2>1 DEF ClaimMade, Incarnations
    <3>2. QED
      BY <1>0, <2>1, <3>1 DEF UidsApart
  <2>2. CASE Incarnations(c)' \subseteq Incarnations(c) \cup {0}
             /\ Incarnations(d)' \subseteq Incarnations(d) \cup {0}
    BY <2>2 DEF UidsApart
  <2>3. QED
    BY <2>1, <2>2, IncarnationsEffect
<1>3. \A n \in Stored' : sandboxes'[n].owner.kind = "claim" => sandboxes'[n].owner.uid <= lastUID'
  <2> SUFFICES ASSUME NEW n \in Stored', sandboxes'[n].owner.kind = "claim"
               PROVE  sandboxes'[n].owner.uid <= lastUID'
    OBVIOUS
  <2>u. PICK u : u = sandboxes'[n].owner.uid
    OBVIOUS
  <2>0. n \in SbNames /\ sandboxes'[n] # NoObject /\ sandboxes'[n].owner # NoOwner
    BY DEF Stored, NoOwner
  <2>1. n \in OwnedBy("claim", u)'
    BY <2>0, <2>u DEF OwnedBy, Stored
  <2>2. CASE n \in OwnedBy("claim", u)
    <3>1. n \in Stored /\ sandboxes[n].owner.kind = "claim" /\ sandboxes[n].owner.uid = u
      BY <2>2 DEF OwnedBy
    <3>2. u <= lastUID /\ u \in Nat
      <4>1. sandboxes[n] \in Sandbox
        BY <3>1 DEF TypeInv, StoreT, Stored
      <4>2. sandboxes[n].owner \in Owners
        BY <3>1, <4>1 DEF Sandbox, NoOwner
      <4>3. QED
        BY <3>1, <4>2 DEF UidsGiven, Owners
    <3>3. QED
      BY <1>0, <2>u, <3>2
  <2>3. CASE n \notin OwnedBy("claim", u)
    <3>1. PICK d \in ClaimNames : u = clw[d].o.uid
      BY <2>1, <2>3, OwnedEffect
    <3>2. u \in Nat /\ u <= lastUID
      BY <1>0, <3>1 DEF Incarnations
    <3>3. QED
      BY <1>0, <2>u, <3>2
  <2>4. QED
    BY <2>2, <2>3
<1>4. QED
  BY <1>1, <1>2, <1>3 DEF UidsGiven, Incarnations

----------------------------------------------------------------------------
(* What a claim owns is known.                                             *)

\* the two calls by which the worker of claim c comes to own sandbox n
Gains(c, n) ==
  \/ ClCreate(c) /\ sandboxes[c] = NoObject /\ n = c
  \/ ClAdopt(c) /\ UpdateAccepts(c, clw[c].pick) /\ n = clw[c].pick

\* An incarnation of a claim comes to own a sandbox only by its own worker.
LEMMA OwnedBefore ==
  ASSUME TypeInv, UidsApart, [Next]_vars, NEW c \in ClaimNames, NEW u, u \in Incarnations(c),
         u # 0, NEW n, n \in OwnedBy("claim", u)'
  PROVE  n \in OwnedBy("claim", u) \/ (u = clw[c].o.uid /\ Gains(c, n))
<1> SUFFICES ASSUME n \notin OwnedBy("claim", u)
             PROVE  u = clw[c].o.uid /\ Gains(c, n)
  OBVIOUS
<1>1. PICK d \in ClaimNames : u = clw[d].o.uid /\ Gains(d, n)
  BY OwnedEffect DEF Gains
<1>2. d = c
  BY <1>1 DEF UidsApart, Incarnations
<1>3. QED
  BY <1>1, <1>2

\* The worker that gains a sandbox owned none and is about to record it.
LEMMA GainKnown ==
  ASSUME TypeInv, NEW c \in ClaimNames, NEW n, Gains(c, n)
  PROVE  clw[c].pc \in {"create", "adopt"} /\ clw'[c].pc = "status" /\ clw'[c].sb = n
<1>1. ASSUME NEW sb, NEW ready, NEW finished, ClStatus(c, sb, ready, finished)
      PROVE  clw'[c].pc = "status" /\ clw'[c].sb = sb
  BY <1>1, ToStatus
<1>2. CASE ClCreate(c) /\ sandboxes[c] = NoObject /\ n = c
  <2>1. ClStatus(c, c, FALSE, FALSE) /\ clw[c].pc = "create"
    BY <1>2 DEF ClCreate, At
  <2>2. QED
    BY <1>1, <1>2, <2>1
<1>3. CASE ClAdopt(c) /\ UpdateAccepts(c, clw[c].pick) /\ n = clw[c].pick
  <2>1. clw[c].pc = "adopt" /\ Mirror(c, clw[c].pick)
    BY <1>3 DEF ClAdopt, At, UpdateAccepts
  <2>2. QED
    BY <1>1, <1>3, <2>1 DEF Mirror
<1>4. QED
  BY <1>2, <1>3 DEF Gains

\* A worker that goes on still knows every sandbox that the claim owns.
LEMMA StillKnown ==
  ASSUME TypeInv, NEW c \in ClaimNames, ClaimStep(c), clw'[c].o = clw[c].o,
         clw[c].pc # "idle", clw'[c].pc # "idle",
         NEW n, n \in OwnedBy("claim", clw[c].o.uid), Knows(clw[c], n)
  PROVE  Knows(clw'[c], n)
<1>0. /\ clw[c].pc \in {"delete", "retain", "rdelete", "resolve", "bind", "status"}
      /\ clw[c].pc # "status" => n = clw[c].o.sb
  BY DEF Knows
<1>n. /\ n \in SbNames /\ n # NoName /\ ours(c, sandboxes[n])
  BY ClusterAssumption DEF OwnedBy, Stored, ours, controllerOwnerUID, SbNames
<1>g. ASSUME NEW pc, ClGoto(c, pc)
      PROVE  clw'[c].pc = pc
  BY <1>g, GoesOn
<1>s. ASSUME NEW sb, NEW ready, NEW finished, ClStatus(c, sb, ready, finished)
      PROVE  clw'[c].pc = "status" /\ clw'[c].sb = sb
  BY <1>s, ToStatus
<1>r. ASSUME claimNotReady(c)
      PROVE  clw'[c].pc = "status" /\ clw'[c].sb = clw[c].o.sb
  BY <1>r, <1>s DEF claimNotReady
<1>1. CASE ClRetain(c)
  <2>1. clw[c].pc = "retain" /\ (ClGoto(c, "rdelete") \/ claimNotReady(c))
    BY <1>1 DEF ClRetain, At
  <2>2. CASE ClGoto(c, "rdelete")
    BY <1>0, <1>g, <2>1, <2>2 DEF Knows
  <2>3. CASE claimNotReady(c)
    BY <1>0, <1>r, <2>1, <2>3 DEF Knows
  <2>4. QED
    BY <2>1, <2>2, <2>3
<1>2. CASE ClRetainDelete(c)
  <2>1. clw[c].pc = "rdelete" /\ claimNotReady(c)
    BY <1>2 DEF ClRetainDelete, At
  <2>2. QED
    BY <1>0, <1>r, <2>1 DEF Knows
<1>3. CASE ClResolve(c)
  <2>1. clw[c].pc = "resolve" /\ (ClGoto(c, "bind") \/ claimNotReady(c))
    BY <1>3 DEF ClResolve, At
  <2>2. CASE ClGoto(c, "bind")
    BY <1>0, <1>g, <2>1, <2>2 DEF Knows
  <2>3. CASE claimNotReady(c)
    BY <1>0, <1>r, <2>1, <2>3 DEF Knows
  <2>4. QED
    BY <2>1, <2>2, <2>3
<1>4. CASE ClBind(c)
  <2>1. clw[c].pc = "bind" /\ n = clw[c].o.sb
    BY <1>0, <1>4 DEF ClBind, At
  <2>2. Mirror(c, n)
    BY <1>4, <1>n, <2>1 DEF ClBind
  <2>3. QED
    BY <1>s, <2>2 DEF Mirror, Knows
<1>5. CASE ClGet(c) \/ ClDelete(c) \/ writeClaimStatus(c)
  <2>1. clw'[c].pc = "idle" \/ clw[c].pc = "idle"
    <3>1. ClGet(c) => clw[c].pc = "idle"
      BY DEF ClGet, Take
    <3>2. ClDelete(c) \/ writeClaimStatus(c) => clw'[c] = IdleClaim
      BY WorkerEnds
    <3>3. QED
      BY <1>5, <3>1, <3>2 DEF IdleClaim
  <2>2. QED
    BY <2>1
<1>6. QED
  BY <1>0, <1>1, <1>2, <1>3, <1>4, <1>5
  DEF ClaimStep, ClList, ClPick, ClAdopt, ClCreate, ClGot, At

\* As long as the process does not crash, a claim's sandbox is known.
LEMMA NextBound ==
  ASSUME TypeInv, UidsGiven, UidsApart, NEW c \in ClaimNames, ClaimBound(c), [Next]_vars, ~Crash
  PROVE  ClaimBound(c)'
<1>0. /\ claims[c] \in Claim \cup {NoObject} /\ claims'[c] \in Claim \cup {NoObject}
      /\ clw[c].pc # "idle" => clw[c].o \in Claim
      /\ lastUID \in Nat
  BY NextType DEF TypeInv, StoreT, ClwT, ClWell
<1>z. /\ \A o \in Claim \cup {NoObject} : o.uid \in Nat /\ (o.uid = 0 <=> o = NoObject)
      /\ \A o \in Claim : o.uid # 0
  BY DEF Claim, NoObject
<1>u. PICK u : u = claims'[c].uid
  OBVIOUS
<1>w. PICK w : w = clw'[c].o.uid
  OBVIOUS
<1>v. PICK v : v = claims[c].uid
  OBVIOUS
<1> DEFINE Idle1 == clw'[c].pc = "idle" /\ claims'[c] # NoObject =>
                      \A n \in OwnedBy("claim", u)' : n = claims'[c].sb
           Known1 == clw'[c].pc # "idle" => \A n \in OwnedBy("claim", w)' : Knows(clw'[c], n)
           Other1 == clw'[c].pc # "idle" /\ claims'[c] # NoObject /\ u # w =>
                       OwnedBy("claim", u)' = {}
<1> SUFFICES Idle1 /\ Known1 /\ Other1
  BY <1>u, <1>w DEF ClaimBound, OwnedBy, Stored, Knows
<1>b. /\ clw[c].pc = "idle" /\ claims[c] # NoObject =>
           \A n \in OwnedBy("claim", v) : n = claims[c].sb
      /\ clw[c].pc # "idle" => \A n \in OwnedBy("claim", clw[c].o.uid) : Knows(clw[c], n)
      /\ clw[c].pc # "idle" /\ claims[c] # NoObject /\ v # clw[c].o.uid =>
           OwnedBy("claim", v) = {}
  BY <1>v DEF ClaimBound
<1>1. CASE clw'[c] = clw[c] /\ ~ClaimStep(c)
  <2>0. w = clw[c].o.uid /\ w \in Incarnations(c) /\ v \in Incarnations(c)
    BY <1>1, <1>v, <1>w DEF Incarnations
  <2>1. \A n : ~Gains(c, n)
    BY <1>1 DEF Gains, ClaimStep
  <2>2. ASSUME NEW x, x \in {v, w}, x # 0 PROVE OwnedBy("claim", x)' \subseteq OwnedBy("claim", x)
    BY <2>0, <2>1, <2>2, OwnedBefore
  <2>3. Known1
    <3>1. clw[c].pc # "idle" => w # 0
      BY <1>0, <1>z, <2>0
    <3>2. clw[c].pc # "idle" => \A n \in OwnedBy("claim", w)' : Knows(clw[c], n)
      BY <1>b, <2>0, <2>2, <3>1
    <3>3. QED
      BY <1>1, <3>2
  <2>4. CASE ClaimKept(c)
    <3>1. u = v /\ (claims'[c] = NoObject <=> claims[c] = NoObject)
          /\ (claims[c] # NoObject => u # 0 /\ claims'[c].sb = claims[c].sb)
      BY <1>0, <1>u, <1>v, <1>z, <2>4 DEF ClaimKept
    <3>2. claims[c] # NoObject => OwnedBy("claim", u)' \subseteq OwnedBy("claim", v)
      BY <2>2, <3>1
    <3>3. Idle1
      BY <1>1, <1>b, <3>1, <3>2
    <3>4. Other1
      BY <1>1, <1>b, <2>0, <3>1, <3>2
    <3>5. QED
      BY <2>3, <3>3, <3>4
  <2>5. CASE claims'[c] = NoObject
    BY <2>3, <2>5
  <2>6. CASE ClaimMade(c)
    <3>1. OwnedBy("claim", u)' = {}
      <4>1. u = lastUID + 1 /\ UNCHANGED sandboxes
        BY <1>u, <2>6 DEF ClaimMade
      <4>2. \A n \in Stored : sandboxes[n].owner.kind = "claim" =>
              sandboxes[n].owner.uid <= lastUID /\ sandboxes[n].owner.uid \in Nat
        <5> SUFFICES ASSUME NEW n \in Stored, sandboxes[n].owner.kind = "claim"
                     PROVE  sandboxes[n].owner.uid <= lastUID /\ sandboxes[n].owner.uid \in Nat
          OBVIOUS
        <5>1. sandboxes[n] \in Sandbox
          BY DEF TypeInv, StoreT, Stored
        <5>2. sandboxes[n].owner \in Owners
          BY <5>1 DEF Sandbox, NoOwner
        <5>3. QED
          BY <5>2 DEF UidsGiven, Owners
      <4>3. QED
        BY <1>0, <4>1, <4>2 DEF OwnedBy, Stored
    <3>2. QED
      BY <2>3, <3>1
  <2>7. QED
    BY <1>1, <2>4, <2>5, <2>6, ClaimEffect
<1>2. CASE ClaimStep(c)
  <2>1. CASE ClGet(c)
    <3>1. CASE clw' = clw
      <4>1. w = clw[c].o.uid /\ u = v /\ UNCHANGED <<claims, sandboxes>>
        BY <1>u, <1>v, <1>w, <2>1, <3>1, WorkerEnds
      <4>2. \A x : OwnedBy("claim", x)' = OwnedBy("claim", x)
        BY <4>1 DEF OwnedBy, Stored
      <4>3. QED
        BY <1>b, <3>1, <4>1, <4>2
    <3>2. CASE /\ claims[c] # NoObject /\ clw[c].pc = "idle"
               /\ clw'[c].o = claims[c]
               /\ clw'[c].pc \in {"resolve", "delete", "retain"}
      <4>1. w = v /\ u = v /\ UNCHANGED <<claims, sandboxes>>
        BY <1>u, <1>v, <1>w, <2>1, <3>2, WorkerEnds
      <4>2. OwnedBy("claim", v)' = OwnedBy("claim", v)
        BY <4>1 DEF OwnedBy, Stored
      <4>3. QED
        BY <1>b, <3>2, <4>1, <4>2 DEF Knows
    <3>3. QED
      BY <2>1, <3>1, <3>2, WorkerEnds
  <2>2. CASE ClDelete(c)
    BY <2>2, WorkerEnds DEF IdleClaim
  <2>3. CASE writeClaimStatus(c)
    <3>0. clw'[c].pc = "idle"
      BY <2>3, WorkerEnds DEF IdleClaim
    <3>1. CASE claims'[c] = NoObject
      BY <3>0, <3>1
    <3>2. CASE claims'[c] # NoObject
      <4>1. u = v /\ claims[c] # NoObject /\ claims'[c].sb = clw[c].sb /\ clw[c].pc = "status"
            /\ UNCHANGED sandboxes
        BY <1>u, <1>v, <2>3, <3>2, WorkerEnds
      <4>2. OwnedBy("claim", u)' = OwnedBy("claim", v)
        BY <4>1 DEF OwnedBy, Stored
      <4>3. \A n \in OwnedBy("claim", v) : n = clw[c].sb
        BY <1>b, <4>1 DEF Knows
      <4>4. QED
        BY <3>0, <4>1, <4>2, <4>3
    <3>3. QED
      BY <3>1, <3>2
  <2>4. CASE clw'[c].o = clw[c].o /\ clw[c].pc # "idle" /\ clw'[c].pc # "idle" /\ UNCHANGED claims
    <3>0. /\ w = clw[c].o.uid /\ u = v /\ w # 0 /\ w \in Incarnations(c) /\ u \in Incarnations(c)
          /\ claims[c] # NoObject => u # 0
      BY <1>0, <1>z, <1>u, <1>v, <1>w, <2>4 DEF Incarnations
    <3>1. Known1
      <4> SUFFICES ASSUME NEW n \in OwnedBy("claim", w)'
                   PROVE  Knows(clw'[c], n)
        OBVIOUS
      <4>1. CASE n \in OwnedBy("claim", w)
        BY <1>2, <1>b, <2>4, <3>0, <4>1, StillKnown
      <4>2. CASE Gains(c, n)
        BY <4>2, GainKnown DEF Knows
      <4>3. QED
        BY <3>0, <4>1, <4>2, OwnedBefore
    <3>2. Other1
      <4> SUFFICES ASSUME claims'[c] # NoObject, u # w
                   PROVE  OwnedBy("claim", u)' = {}
        OBVIOUS
      <4>1. OwnedBy("claim", u)' \subseteq OwnedBy("claim", u)
        BY <2>4, <3>0, OwnedBefore
      <4>2. OwnedBy("claim", u) = {}
        BY <1>b, <2>4, <3>0
      <4>3. QED
        BY <4>1, <4>2
    <3>3. QED
      BY <2>4, <3>1, <3>2
  <2>5. QED
    BY <1>2, <2>1, <2>2, <2>3, <2>4, WorkerCopy
<1>3. QED
  BY <1>1, <1>2, ClaimEffect

\* Only a crash counts as one.
LEMMA OnlyCrash ==
  ASSUME [Next]_vars, ~Crash
  PROVE  UNCHANGED crashes
<1> USE DEF outside
<1>1. CASE User
  BY <1>1
  DEF User, Op, ApiOp, CreateClaim, ApiDeleteClaim, ApiDeleteSandbox, ApiDeletePool, ApiDeletePVC,
      CreatePool, ScalePool, ToggleTemplate, CreateSandbox, SetMode, CreatePVC, StartSweep,
      EventsEnd, Expire, ContainerExit
<1>2. CASE \E n \in SbNames : SandboxStep(n)
  BY <1>2, ZenonT(40)
  DEF SandboxStep, SbGet, SbOwner, SbDelete, ensureVCTPVCObject, SbPVC, SbEnsure, SbInspect,
      SbPrepare, SbChown, SbCreate, SbStart, writeSandboxStatus, SbSuspend, SbSuspendRemove,
      SbExpire, SbExpireRemove, SbFrame
<1>3. CASE \E c \in ClaimNames : ClaimStep(c)
  BY <1>3, ZenonT(40)
  DEF ClaimStep, ClGet, ClDelete, ClRetain, ClRetainDelete, ClResolve, ClBind, ClList, ClPick,
      ClAdopt, ClCreate, ClGot, writeClaimStatus, ClFrame
<1>4. CASE \E t \in Threads : HookStep(t)
  BY <1>4
  DEF HookStep, CascadeCheck, CascadeDelete, CascadeList, CascadeEach, CleanupInspect,
      CleanupRemove, CleanupPVC, CleanupDelete, CleanupVolume
<1>5. CASE (\E p \in PoolNames : PoolStep(p)) \/ (\E v \in PVCNames : PVCStep(v)) \/ Serve
           \/ SweepStep \/ UNCHANGED vars
  BY <1>5
  DEF PoolStep, PlGet, PlList, PlCreate, writeWarmPoolStatus, PlFrame,
      PVCStep, PvGet, PvEnsure, writePVCStatus, PvFrame, Serve, ContainerServe, ChownEnds,
      DockerFrame, SweepStep, BootLook, GcLook, SweepRemove, PurgeContainer, ListManagedVolumes,
      PurgeVolume, SweepFrame, vars
<1>6. QED
  BY <1>1, <1>2, <1>3, <1>4, <1>5 DEF Next

\* Until the process first crashes a claim owns at most one sandbox, however
\* its reconciles, the adoption's retries, expiry, the cascades, other claims
\* and later incarnations of its name interleave (getOrCreateSandbox,
\* adoptWarmSandbox), for every number of claims, pools and operations.
THEOREM ClaimHasOneSandbox == Spec => [](crashes = 0 => OneSandboxPerClaim)
<1> DEFINE Inv == TypeInv /\ UidsGiven /\ UidsApart /\ ClaimInv
<1>1. Init => Inv
  <2> SUFFICES ASSUME Init PROVE Inv
    OBVIOUS
  <2>1. TypeInv
    BY InitType
  <2>2. Stored = {} /\ \A c \in ClaimNames : claims[c] = NoObject /\ clw[c] = IdleClaim
    BY DEF Init, Stored
  <2>3. UidsGiven /\ UidsApart
    BY <2>1, <2>2
    DEF UidsGiven, UidsApart, Incarnations, NoObject, IdleClaim, TypeInv, StoreT
  <2>4. ClaimInv
    BY <2>2 DEF ClaimInv, ClaimBound, IdleClaim
  <2>5. QED
    BY <2>1, <2>3, <2>4
<1>2. Inv /\ [Next]_vars => Inv'
  <2> SUFFICES ASSUME Inv, [Next]_vars PROVE ClaimInv'
    BY NextType, NextUids
  <2>1. CASE Crash
    <3>1. crashes' # 0
      BY <2>1 DEF Crash, TypeInv, CountT
    <3>2. QED
      BY <3>1 DEF ClaimInv
  <2>2. CASE ~Crash
    <3> SUFFICES ASSUME crashes' = 0, NEW c \in ClaimNames PROVE ClaimBound(c)'
      BY DEF ClaimInv
    <3>1. crashes = 0
      BY <2>2, OnlyCrash
    <3>2. QED
      BY <2>2, <3>1, NextBound DEF ClaimInv
  <2>3. QED
    BY <2>1, <2>2
<1>3. Inv => (crashes = 0 => OneSandboxPerClaim)
  <2> SUFFICES ASSUME Inv, crashes = 0, NEW c \in ClaimNames, claims[c] # NoObject
               PROVE  Cardinality(OwnedBy("claim", claims[c].uid)) <= 1
    BY DEF OneSandboxPerClaim
  <2> DEFINE S == OwnedBy("claim", claims[c].uid)
  <2>1. \E x : S \subseteq {x}
    BY DEF ClaimInv, ClaimBound, Knows
  <2>2. PICK x : S \subseteq {x}
    BY <2>1
  <2>3. IsFiniteSet({x}) /\ Cardinality({x}) = 1
    BY FS_Singleton
  <2>4. Cardinality(S) <= 1
    BY <2>2, <2>3, FS_Subset
  <2>5. QED
    BY <2>4
<1>4. QED
  BY <1>1, <1>2, <1>3, PTL DEF Spec

(***************************************************************************)
(* What a claim records is its own.                                        *)
(***************************************************************************)
----------------------------------------------------------------------------
(* The inductive invariant.                                                *)

\* a pool owns only what it made, and a claim picks only from a pool
WarmInv ==
  /\ \A n \in Stored : sandboxes[n].owner.kind = "pool" => n \in WarmNames
  /\ \A c \in ClaimNames : clw[c].pc \in {"pick", "adopt"} => clw[c].pick \in WarmNames
\* a new binding of the worker's copy is to an adopted sandbox, or to the one
\* with the claim's name; that one is gone, a user's, or this incarnation's
NewBinding(c) ==
  clw[c].pc = "status" /\ clw[c].sb # clw[c].o.sb =>
    \/ clw[c].sb \in WarmNames
    \/ /\ clw[c].sb = c
       /\ sandboxes[c] # NoObject /\ sandboxes[c].owner # NoOwner =>
            sandboxes[c].owner.uid = clw[c].o.uid
\* nobody else writes the binding of the incarnation that the worker has read
CopiedBinding(c) ==
  clw[c].pc # "idle" /\ claims[c] # NoObject /\ claims[c].uid = clw[c].o.uid =>
    claims[c].sb = clw[c].o.sb
BindInv == \A c \in ClaimNames : NewBinding(c) /\ CopiedBinding(c)

----------------------------------------------------------------------------
(* What the steps do to it.                                                *)

\* A step of another thread than c's worker leaves the sandbox of that name
\* alone, deletes it, or lets a user take the name.
LEMMA SandboxOfName ==
  ASSUME TypeInv, WarmInv, [Next]_vars, NEW c \in ClaimNames, ~ClaimStep(c),
         sandboxes'[c] # NoObject, sandboxes'[c].owner # NoOwner
  PROVE  sandboxes[c] # NoObject /\ sandboxes'[c].owner = sandboxes[c].owner
<1>0. /\ sandboxes \in [SbNames -> Sandbox \cup {NoObject}]
      /\ sandboxes' \in [SbNames -> Sandbox \cup {NoObject}]
      /\ c \in SbNames
  BY NextType DEF TypeInv, StoreT, SbNames
<1>n. NoObject \notin Sandbox /\ \A o \in Sandbox : o.uid # NoObject.uid
  BY DEF NoObject, Sandbox
<1>w. c \notin WarmNames
  BY ClusterAssumption
<1>1. CASE Kept
  BY <1>0, <1>1, <1>n DEF Kept
<1>2. CASE Destroyed
  BY <1>0, <1>2 DEF Destroyed
<1>3. CASE MadeByUser \/ MadeByClaim
  <2>1. PICK n, o :
          /\ n \in SbNames
          /\ sandboxes' = [sandboxes EXCEPT ![n] = o]
          /\ o.owner = NoOwner \/ (n \in ClaimNames /\ ClCreate(n))
    <3>1. CASE MadeByUser
      <4>1. PICK n, policy : n \in BareNames /\ CreateSandbox(n, policy)
        BY <3>1 DEF MadeByUser
      <4>2. PICK o : o.owner = NoOwner /\ sandboxes' = [sandboxes EXCEPT ![n] = o]
        BY <4>1 DEF CreateSandbox, PutSandbox
      <4>3. QED
        BY <4>1, <4>2 DEF SbNames
    <3>2. CASE MadeByClaim
      BY <3>2 DEF MadeByClaim, ClCreate, PutSandbox, SbNames
    <3>3. QED
      BY <1>3, <3>1, <3>2
  <2>2. CASE n = c
    BY <1>0, <2>1, <2>2 DEF ClaimStep
  <2>3. CASE n # c
    BY <1>0, <2>1, <2>3
  <2>4. QED
    BY <2>2, <2>3
<1>4. CASE MadeByPool \/ Adopted
  <2>1. PICK n, o : n \in WarmNames /\ sandboxes' = [sandboxes EXCEPT ![n] = o]
    <3>1. CASE MadeByPool
      BY <3>1 DEF MadeByPool, PlCreate, PutSandbox
    <3>2. CASE Adopted
      <4>1. PICK d \in ClaimNames : ClAdopt(d) /\ UpdateAccepts(d, clw[d].pick)
        BY <3>2 DEF Adopted
      <4>2. clw[d].pick \in WarmNames
        BY <4>1 DEF ClAdopt, At, WarmInv
      <4>3. \E o : sandboxes' = [sandboxes EXCEPT ![clw[d].pick] = o]
        BY <4>1, AdoptEffect
      <4>4. QED
        BY <4>2, <4>3
    <3>3. QED
      BY <1>4, <3>1, <3>2
  <2>2. QED
    BY <1>0, <1>w, <2>1
<1>5. QED
  BY <1>1, <1>2, <1>3, <1>4, SandboxEffect

\* Only a pool makes members of a pool, and no other step turns a sandbox into one.
LEMMA NextMembers ==
  ASSUME TypeInv, WarmInv, [Next]_vars, NEW n \in Stored', sandboxes'[n].owner.kind = "pool"
  PROVE  n \in WarmNames
<1>0. /\ sandboxes \in [SbNames -> Sandbox \cup {NoObject}]
      /\ sandboxes' \in [SbNames -> Sandbox \cup {NoObject}]
      /\ n \in SbNames /\ sandboxes'[n] # NoObject
  BY NextType DEF TypeInv, StoreT, Stored
<1>n. NoObject \notin Sandbox /\ \A o \in Sandbox : o.uid # NoObject.uid
  BY DEF NoObject, Sandbox
<1>k. \A m \in SbNames : sandboxes[m] # NoObject /\ sandboxes[m].owner.kind = "pool" =>
        m \in WarmNames
  BY DEF WarmInv, Stored
<1>1. CASE Kept
  BY <1>0, <1>1, <1>n, <1>k DEF Kept
<1>2. CASE Destroyed
  BY <1>0, <1>2, <1>k DEF Destroyed
<1>3. CASE MadeByUser \/ MadeByClaim \/ Adopted
  <2>1. PICK m, o :
          /\ m \in SbNames
          /\ sandboxes' = [sandboxes EXCEPT ![m] = o] /\ o.owner.kind # "pool"
    <3>1. CASE MadeByUser
      <4>1. PICK b, policy : b \in BareNames /\ CreateSandbox(b, policy)
        BY <3>1 DEF MadeByUser
      <4>2. PICK o : o.owner = NoOwner /\ sandboxes' = [sandboxes EXCEPT ![b] = o]
        BY <4>1 DEF CreateSandbox, PutSandbox
      <4>3. b \in SbNames /\ o.owner.kind # "pool"
        BY <4>1, <4>2 DEF SbNames, NoOwner
      <4>4. QED
        BY <4>2, <4>3
    <3>2. CASE MadeByClaim
      BY <3>2 DEF MadeByClaim, ClCreate, PutSandbox, SbNames, claimRef
    <3>3. CASE Adopted
      <4>1. PICK d \in ClaimNames : ClAdopt(d) /\ UpdateAccepts(d, clw[d].pick)
        BY <3>3 DEF Adopted
      <4>2. PICK o : /\ clw[d].pick \in SbNames /\ o.owner = claimRef(clw[d].o, d)
                     /\ sandboxes' = [sandboxes EXCEPT ![clw[d].pick] = o]
        BY <4>1, AdoptEffect
      <4>3. o.owner.kind # "pool"
        BY <4>2 DEF claimRef
      <4>4. QED
        BY <4>2, <4>3
    <3>4. QED
      BY <1>3, <3>1, <3>2, <3>3
  <2>2. QED
    BY <1>0, <1>k, <2>1
<1>4. CASE MadeByPool
  <2>1. PICK m, o : m \in WarmNames /\ sandboxes' = [sandboxes EXCEPT ![m] = o]
    BY <1>4 DEF MadeByPool, PlCreate, PutSandbox
  <2>2. QED
    BY <1>0, <1>k, <2>1
<1>5. QED
  BY <1>1, <1>2, <1>3, <1>4, SandboxEffect

\* A claim's worker picks a member of a pool, and keeps to it.
LEMMA NextPick ==
  ASSUME TypeInv, WarmInv, [Next]_vars, NEW c \in ClaimNames, clw'[c].pc \in {"pick", "adopt"}
  PROVE  clw'[c].pick \in WarmNames
<1>0. clw \in [ClaimNames -> ClThread] /\ clw[c] \in ClThread
  BY DEF TypeInv, ClwT
<1>g. ASSUME NEW pc, ClGoto(c, pc)
      PROVE  clw'[c].pc = pc /\ clw'[c].pick = clw[c].pick
  BY <1>g, GoesOn
<1>s. ASSUME NEW sb, NEW ready, NEW finished, ClStatus(c, sb, ready, finished)
      PROVE  clw'[c].pc = "status"
  BY <1>s, ToStatus
<1>1. CASE clw'[c] = clw[c]
  BY <1>1 DEF WarmInv
<1>2. CASE Crash
  BY <1>2 DEF Crash, Idle, IdleClaim
<1>3. CASE ClGet(c) \/ ClDelete(c) \/ writeClaimStatus(c)
  <2>1. clw'[c] = clw[c] \/ clw'[c].pc \in {"resolve", "delete", "retain"} \/ clw'[c] = IdleClaim
    BY <1>3, WorkerEnds
  <2>2. QED
    BY <1>1, <2>1 DEF IdleClaim
<1>4. CASE ClList(c)
  <2>1. CASE ClGoto(c, "create")
    BY <1>g, <2>1
  <2>2. CASE \E n \in Members(clw[c].o.pool) :
               clw' = [clw EXCEPT ![c].pc = "pick", ![c].pick = n, ![c].tries = 0]
    <3>1. PICK n \in Members(clw[c].o.pool) :
               clw' = [clw EXCEPT ![c].pc = "pick", ![c].pick = n, ![c].tries = 0]
      BY <2>2, Zenon
    <3>2. n \in WarmNames
      BY DEF Members, ownedBy, WarmInv, Stored
    <3>3. clw'[c].pick = n
      BY <1>0, <3>1 DEF ClThread
    <3>4. QED
      BY <3>2, <3>3
  <2>3. QED
    BY <1>4, <2>1, <2>2, Zenon DEF ClList
<1>5. CASE ClPick(c)
  BY <1>5, <1>g DEF ClPick, At, WarmInv
<1>6. CASE ClAdopt(c)
  <2>0. clw[c].pick \in WarmNames
    BY <1>6 DEF ClAdopt, At, WarmInv
  <2>1. ASSUME clw' = [clw EXCEPT ![c].tries = @ + 1,
                         ![c].pc = IF RetryAgain(clw[c].tries) THEN "pick" ELSE "create"]
        PROVE  clw'[c].pick = clw[c].pick
    BY <1>0, <2>1 DEF ClThread
  <2>2. QED
    BY <1>6, <1>g, <1>s, <2>0, <2>1 DEF ClAdopt, Mirror
<1>7. CASE ClRetain(c) \/ ClRetainDelete(c) \/ ClResolve(c) \/ ClBind(c) \/ ClCreate(c) \/ ClGot(c)
  <2>1. \/ ClGoto(c, "rdelete") \/ ClGoto(c, "bind") \/ ClGoto(c, "create")
        \/ ClGoto(c, "list") \/ ClGoto(c, "got")
        \/ \E sb, ready, finished : ClStatus(c, sb, ready, finished)
    BY <1>7 DEF ClRetain, ClRetainDelete, ClResolve, ClBind, ClCreate, ClGot, claimNotReady, Mirror
  <2>2. QED
    BY <1>g, <1>s, <2>1
<1>8. QED
  BY <1>1, <1>2, <1>3, <1>4, <1>5, <1>6, <1>7, ClaimEffect DEF ClaimStep

\* Where the worker of a claim gets a new binding from: an adoption, its own
\* Create, or a sandbox of the claim's name that it has looked at.
LEMMA BindingMade ==
  ASSUME TypeInv, WarmInv, NEW c \in ClaimNames, ClaimStep(c),
         clw'[c].pc = "status", clw'[c].sb # clw'[c].o.sb, clw[c].pc # "status"
  PROVE  \/ clw'[c].sb \in WarmNames
         \/ clw'[c].sb = c /\ controllerOwnerUID(sandboxes'[c]) = clw'[c].o.uid
<1>0. /\ clw \in [ClaimNames -> ClThread] /\ clw[c] \in ClThread
      /\ sandboxes \in [SbNames -> Sandbox \cup {NoObject}] /\ c \in SbNames
  BY DEF TypeInv, ClwT, StoreT, SbNames
<1>g. ASSUME NEW pc, ClGoto(c, pc)
      PROVE  clw'[c].pc = pc
  BY <1>g, GoesOn
<1>s. ASSUME NEW sb, NEW ready, NEW finished, ClStatus(c, sb, ready, finished)
      PROVE  clw'[c].o = clw[c].o /\ clw'[c].sb = sb
  BY <1>s, ToStatus
<1>m. ASSUME NEW sb, Mirror(c, sb)
      PROVE  clw'[c].o = clw[c].o /\ clw'[c].sb = sb
  BY <1>m, <1>s DEF Mirror
<1>r. ~claimNotReady(c)
  BY <1>s DEF claimNotReady
<1>1. CASE ClRetain(c) \/ ClRetainDelete(c) \/ ClResolve(c)
  BY <1>1, <1>g, <1>r DEF ClRetain, ClRetainDelete, ClResolve
<1>2. CASE ClBind(c)
  BY <1>2, <1>g, <1>m DEF ClBind
<1>3. CASE ClAdopt(c)
  <2>1. clw[c].pick \in WarmNames
    BY <1>3 DEF ClAdopt, At, WarmInv
  <2>2. ASSUME clw' = [clw EXCEPT ![c].tries = @ + 1,
                         ![c].pc = IF RetryAgain(clw[c].tries) THEN "pick" ELSE "create"]
        PROVE  FALSE
    BY <1>0, <2>2 DEF ClThread
  <2>3. Mirror(c, clw[c].pick)
    BY <1>3, <1>g, <2>2 DEF ClAdopt
  <2>4. QED
    BY <1>m, <2>1, <2>3
<1>4. CASE ClCreate(c)
  <2>1. sandboxes[c] = NoObject
    BY <1>4, <1>g DEF ClCreate
  <2>2. clw'[c].o = clw[c].o /\ clw'[c].sb = c
    BY <1>4, <1>s, <2>1 DEF ClCreate
  <2>3. PICK o : o.owner = claimRef(clw[c].o, c) /\ sandboxes' = [sandboxes EXCEPT ![c] = o]
    BY <1>4, <2>1 DEF ClCreate, PutSandbox
  <2>4. claimRef(clw[c].o, c) # NoOwner /\ claimRef(clw[c].o, c).uid = clw[c].o.uid
    BY DEF claimRef, NoOwner
  <2>5. sandboxes'[c].owner = claimRef(clw[c].o, c)
    BY <1>0, <2>3
  <2>6. QED
    BY <2>2, <2>4, <2>5 DEF controllerOwnerUID
<1>5. CASE ClGot(c)
  <2>1. ours(c, sandboxes[c]) /\ Mirror(c, c) /\ UNCHANGED sandboxes
    BY <1>5, <1>r DEF ClGot
  <2>2. QED
    BY <1>m, <2>1 DEF ours
<1>6. CASE ClGet(c) \/ ClDelete(c) \/ writeClaimStatus(c)
  <2>1. clw'[c] = clw[c] \/ clw'[c].pc \in {"resolve", "delete", "retain"} \/ clw'[c] = IdleClaim
    BY <1>6, WorkerEnds
  <2>2. QED
    BY <2>1 DEF IdleClaim
<1>7. CASE ClList(c) \/ ClPick(c)
  <2>1. ASSUME NEW n, clw' = [clw EXCEPT ![c].pc = "pick", ![c].pick = n, ![c].tries = 0]
        PROVE  FALSE
    BY <1>0, <2>1 DEF ClThread
  <2>2. QED
    <3>1. ~ClGoto(c, "create") /\ ~ClGoto(c, "adopt")
      BY <1>g
    <3>2. QED
      BY <1>7, <2>1, <3>1, Zenon DEF ClList, ClPick
<1>8. QED
  BY <1>1, <1>2, <1>3, <1>4, <1>5, <1>6, <1>7 DEF ClaimStep

\* No step of any thread turns a binding that is about to be recorded into
\* one to a sandbox of another owner.
LEMMA NextNewBinding ==
  ASSUME TypeInv, WarmInv, NEW c \in ClaimNames, NewBinding(c), [Next]_vars
  PROVE  NewBinding(c)'
<1> SUFFICES ASSUME clw'[c].pc = "status", clw'[c].sb # clw'[c].o.sb, clw'[c].sb \notin WarmNames
             PROVE  /\ clw'[c].sb = c
                    /\ sandboxes'[c] # NoObject /\ sandboxes'[c].owner # NoOwner =>
                         sandboxes'[c].owner.uid = clw'[c].o.uid
  BY DEF NewBinding
<1>1. CASE ClaimStep(c) /\ clw[c].pc # "status"
  BY <1>1, BindingMade DEF controllerOwnerUID
<1>2. CASE ClaimStep(c) /\ clw[c].pc = "status"
  <2>1. writeClaimStatus(c)
    BY <1>2
    DEF ClaimStep, ClGet, Take, ClDelete, ClRetain, ClRetainDelete, ClResolve, ClBind, ClList,
        ClPick, ClAdopt, ClCreate, ClGot, At
  <2>2. QED
    BY <2>1, WorkerEnds DEF IdleClaim
<1>3. CASE ~ClaimStep(c) /\ clw'[c] = clw[c]
  <2>1. /\ clw[c].sb = c
        /\ sandboxes[c] # NoObject /\ sandboxes[c].owner # NoOwner =>
             sandboxes[c].owner.uid = clw[c].o.uid
    BY <1>3 DEF NewBinding
  <2>2. ASSUME sandboxes'[c] # NoObject, sandboxes'[c].owner # NoOwner
        PROVE  sandboxes'[c].owner.uid = clw[c].o.uid
    <3>1. sandboxes[c] # NoObject /\ sandboxes'[c].owner = sandboxes[c].owner
      BY <1>3, <2>2, SandboxOfName
    <3>2. QED
      BY <2>1, <2>2, <3>1
  <2>3. QED
    BY <1>3, <2>1, <2>2
<1>4. CASE Crash
  BY <1>4 DEF Crash, Idle, IdleClaim
<1>5. QED
  BY <1>1, <1>2, <1>3, <1>4, ClaimEffect

\* While a claim is reconciled, the binding of the incarnation that was read
\* stays what it was.
LEMMA NextCopiedBinding ==
  ASSUME TypeInv, UidsGiven, NEW c \in ClaimNames, CopiedBinding(c), [Next]_vars
  PROVE  CopiedBinding(c)'
<1>0. /\ claims[c] \in Claim \cup {NoObject} /\ claims'[c] \in Claim \cup {NoObject}
      /\ clw[c].pc # "idle" => clw[c].o.uid \in Nat /\ clw[c].o.uid <= lastUID
      /\ lastUID \in Nat
  BY NextType DEF TypeInv, StoreT, ClwT, ClWell, Claim, UidsGiven
<1>z. \A o \in Claim : o.uid # NoObject.uid
  BY DEF Claim, NoObject
<1> SUFFICES ASSUME clw'[c].pc # "idle", claims'[c] # NoObject, claims'[c].uid = clw'[c].o.uid
             PROVE  claims'[c].sb = clw'[c].o.sb
  BY DEF CopiedBinding
<1>1. CASE ClaimStep(c)
  <2>1. CASE ClGet(c)
    BY <2>1, WorkerEnds DEF CopiedBinding
  <2>2. CASE ClDelete(c) \/ writeClaimStatus(c)
    BY <2>2, WorkerEnds DEF IdleClaim
  <2>3. CASE clw'[c].o = clw[c].o /\ clw[c].pc # "idle" /\ UNCHANGED claims
    BY <2>3 DEF CopiedBinding
  <2>4. QED
    BY <1>1, <2>1, <2>2, <2>3, WorkerCopy
<1>2. CASE clw'[c] = clw[c] /\ ClaimKept(c)
  <2>1. claims[c] # NoObject
    BY <1>0, <1>2, <1>z DEF ClaimKept
  <2>2. QED
    BY <1>2, <2>1 DEF ClaimKept, CopiedBinding
<1>3. CASE clw'[c] = clw[c] /\ ClaimMade(c)
  BY <1>0, <1>3 DEF ClaimMade
<1>4. CASE Crash
  BY <1>4 DEF Crash, Idle, IdleClaim
<1>5. QED
  BY <1>1, <1>2, <1>3, <1>4, ClaimEffect

----------------------------------------------------------------------------
(* The theorems.                                                           *)

\* what BindingIsOwn says of one claim, for the names that no pool generates
OwnBinding(c) ==
  LET o == claims[c]  q == claims'[c]  read == clw[c].o
  IN  o # NoObject /\ q # NoObject /\ q.sb # o.sb /\ (q.uid = read.uid \/ q.sb # read.sb) =>
        \A n \in Stored \ WarmNames : n = q.sb /\ sandboxes[n].owner # NoOwner
                                        => sandboxes[n].owner.uid = read.uid

\* A new binding is written by the worker that made it.
LEMMA BindingWritten ==
  ASSUME TypeInv, BindInv, [Next]_vars, NEW c \in ClaimNames
  PROVE  OwnBinding(c)
<1> SUFFICES ASSUME claims[c] # NoObject, claims'[c] # NoObject, claims'[c].sb # claims[c].sb,
                    claims'[c].uid = clw[c].o.uid \/ claims'[c].sb # clw[c].o.sb,
                    NEW n \in Stored \ WarmNames,
                    n = claims'[c].sb, sandboxes[n].owner # NoOwner
             PROVE  sandboxes[n].owner.uid = clw[c].o.uid
  BY DEF OwnBinding
<1>1. writeClaimStatus(c)
  <2>1. ClGet(c) => UNCHANGED claims
    BY WorkerEnds
  <2>2. ClDelete(c) => claims'[c] = NoObject
    BY WorkerEnds
  <2>3. Crash => UNCHANGED claims
    BY DEF Crash
  <2>4. ~ClaimKept(c) /\ ~ClaimMade(c)
    BY DEF ClaimKept, ClaimMade
  <2>5. QED
    BY <2>1, <2>2, <2>3, <2>4, ClaimEffect, WorkerCopy
<1>2. clw[c].pc = "status" /\ claims'[c].uid = claims[c].uid /\ claims'[c].sb = clw[c].sb
  BY <1>1, WorkerEnds
<1>3. clw[c].sb # clw[c].o.sb
  BY <1>2 DEF BindInv, CopiedBinding
<1>4. n = c /\ sandboxes[c] # NoObject
  BY <1>2, <1>3 DEF BindInv, NewBinding, Stored
<1>5. QED
  BY <1>2, <1>3, <1>4 DEF BindInv, NewBinding

\* For every instance: a status write that changes a claim's binding, to a name
\* that no pool generates, names a sandbox of the incarnation that the reconcile
\* has read, or one that a user has made or that is gone (getOrCreateSandbox's
\* look at the owner, writeClaimStatus without a precondition), whatever is
\* deleted and created between the two; also when the write reaches a later
\* incarnation, unless it only carries over the binding that was read.
THEOREM BindingsAreOwn == Spec => [][\A c \in ClaimNames : OwnBinding(c)]_vars
<1> DEFINE Inv == TypeInv /\ UidsGiven /\ UidsApart /\ WarmInv /\ BindInv
<1>1. Init => Inv
  <2> SUFFICES ASSUME Init PROVE Inv
    OBVIOUS
  <2>1. TypeInv
    BY InitType
  <2>2. Stored = {} /\ \A c \in ClaimNames : claims[c] = NoObject /\ clw[c] = IdleClaim
    BY DEF Init, Stored
  <2>3. UidsGiven /\ UidsApart
    BY <2>1, <2>2
    DEF UidsGiven, UidsApart, Incarnations, NoObject, IdleClaim, TypeInv, StoreT
  <2>4. WarmInv /\ BindInv
    BY <2>2 DEF WarmInv, BindInv, NewBinding, CopiedBinding, IdleClaim
  <2>5. QED
    BY <2>1, <2>3, <2>4
<1>2. Inv /\ [Next]_vars => Inv'
  <2> SUFFICES ASSUME Inv, [Next]_vars PROVE WarmInv' /\ BindInv'
    BY NextType, NextUids
  <2>1. WarmInv'
    BY NextMembers, NextPick DEF WarmInv
  <2>2. BindInv'
    BY NextNewBinding, NextCopiedBinding DEF BindInv
  <2>3. QED
    BY <2>1, <2>2
<1>3. Inv /\ [Next]_vars => \A c \in ClaimNames : OwnBinding(c)
  BY BindingWritten
<1>4. QED
  BY <1>1, <1>2, <1>3, PTL DEF Spec

\* Without warm pools' names, where every sandbox of a claim is made by a cold
\* start, that is the property the run checks.
THEOREM ColdBindingsAreOwn == ASSUME WarmNames = {} PROVE Spec => BindingIsOwn
<1>1. (\A c \in ClaimNames : OwnBinding(c)) =>
      \A c \in ClaimNames :
        LET o == claims[c]  q == claims'[c]  read == clw[c].o
        IN  o # NoObject /\ q # NoObject /\ q.sb # o.sb
              /\ (q.uid = read.uid \/ q.sb # read.sb) =>
              \A n \in Stored : n = q.sb /\ sandboxes[n].owner # NoOwner
                                 => sandboxes[n].owner.uid = read.uid
  BY DEF OwnBinding
<1>2. QED
  BY <1>1, BindingsAreOwn, PTL DEF BindingIsOwn
=============================================================================

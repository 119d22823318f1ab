------------------------- MODULE SandboxController -------------------------
(***************************************************************************)
(* The Sandbox controller (reconciler/sandbox.go): from a queued key to a  *)
(* container and a status.  sbw[n] is the reconcile of sandbox n: the copy *)
(* `o' it read first, the status `st' it will write and the container `id' *)
(* it is working on, `vols' the PVCs it has yet to look at and `pv' the    *)
(* one it found.  Reads without an effect are merged with the step that    *)
(* uses them: the image check and the probe with the inspection, the       *)
(* pod-name annotation with the status write.                              *)
(***************************************************************************)
EXTENDS Cluster

IdleSandbox == [pc |-> "idle", o |-> NoObject, st |-> NoConditions, id |-> 0,
                vols |-> {}, pv |-> NoName]
SbPcs == {"idle", "owner", "delete", "vct", "pvc", "ensure", "inspect", "prepare", "chown",
          "create", "start", "status", "suspend", "susremove", "expire", "expremove"}
SbThread == [pc : SbPcs, o : Sandbox \cup {NoObject}, st : Conditions, id : Nat,
             vols : SUBSET PVCNames, pv : PVCNames \cup {NoName}]

\* what the sandbox controller never writes
SbFrame == <<claims, pools, template, clw, plw, pvw, outside>>

SbGoto(n, pc, st) == sbw' = [sbw EXCEPT ![n].pc = pc, ![n].st = st]
SbDone(n) == sbw' = [sbw EXCEPT ![n] = IdleSandbox]
\* the reconcile ends with an error or RequeueAfter
SbRequeue(n) == SbDone(n) /\ dirty' = dirty \cup {<<"sandbox", n>>}

\* a slip: an owner that was deleted and created again under its name is taken
\* for the same one
orphanedByName(o) ==
  /\ o.owner # NoOwner
  /\ IF o.owner.kind = "claim" THEN claims[o.owner.name] = NoObject
     ELSE pools[o.owner.name] = NoObject

\* the controller owner is gone, or another incarnation has its name
orphaned(o) ==
  /\ o.owner # NoOwner
  /\ IF o.owner.kind = "claim" THEN claims[o.owner.name].uid # o.owner.uid
     ELSE pools[o.owner.name].uid # o.owner.uid

SbGet(n) ==
  /\ Take(<<"sandbox", n>>, sbw[n].pc)
  /\ sbw' = IF sandboxes[n] = NoObject THEN sbw
            ELSE [sbw EXCEPT ![n] = [IdleSandbox EXCEPT !.pc = "owner", !.o = sandboxes[n]]]
  /\ UNCHANGED <<SbFrame, sandboxes, containers, pvcs, volumes, fresh, hook, lastUID,
                 faults>>

\* the loops over templates and PVCs: on to the PVCs `left', or past them
EachTemplate(n, left) ==
  IF left # {} THEN sbw' = [sbw EXCEPT ![n].pc = "vct", ![n].vols = left]
  ELSE sbw' = [sbw EXCEPT ![n].vols = Mounts(n),
                 ![n].pc = IF Mounts(n) = {} THEN "inspect" ELSE "pvc"]

SbOwner(n) ==
  LET o == sbw[n].o
  IN  /\ sbw[n].pc = "owner"
      /\ CASE orphaned(o) -> SbGoto(n, "delete", o.st)
           [] ~orphaned(o) /\ o.due -> SbGoto(n, "expire", o.st)
           [] ~orphaned(o) /\ ~o.due /\ o.mode = "Suspended" -> SbGoto(n, "suspend", o.st)
           [] OTHER -> EachTemplate(n, TemplatePVCs[n])
      /\ UNCHANGED <<SbFrame, sandboxes, containers, pvcs, volumes, dirty, fresh, hook,
                     lastUID, faults>>

\* Store.Delete by name; its hook runs in this worker
SbDelete(n) ==
  /\ sbw[n].pc = "delete"
  /\ DeleteSandbox(<<"sandbox", n>>, n, {})
  /\ SbDone(n)
  /\ UNCHANGED <<SbFrame, containers, pvcs, volumes, lastUID, faults>>

----------------------------------------------------------------------------
(* reconcileRunning.                                                       *)

failReady(st) == [st EXCEPT !.ready = FALSE]

\* the conditions for a container in the given state; no condition says
\* Suspended, and Finished goes away only for a running container (the one of
\* prepareVolumePermissions, which never serves, included)
Observed(st, state) ==
  CASE state = "exited" -> [ready |-> FALSE, finished |-> TRUE, suspended |-> FALSE]
    [] state = "created" -> [st EXCEPT !.ready = FALSE, !.suspended = FALSE]
    [] OTHER -> [ready |-> state = "serving", finished |-> FALSE, suspended |-> FALSE]

\* ensureVCTPVCObject: create the PVC of one template, unless one has the name
ensureVCTPVCObject(n) ==
  /\ sbw[n].pc = "vct"
  /\ \E v \in sbw[n].vols :
       /\ EachTemplate(n, sbw[n].vols \ {v})
       /\ IF pvcs[v] # NoObject THEN UNCHANGED <<pvcs, lastUID, dirty>>
          ELSE /\ pvcs' = [pvcs EXCEPT ![v] = [uid |-> lastUID + 1, owner |-> sbw[n].o.uid,
                                              phase |-> "none"]]
               /\ lastUID' = lastUID + 1
               /\ dirty' = dirty \cup {<<"pvc", v>>}
  /\ UNCHANGED <<SbFrame, sandboxes, containers, volumes, fresh, hook, faults>>

\* a slip: a PVC that does not exist is left to Docker
SbAnyPVC(n) ==
  /\ sbw[n].pc = "pvc"
  /\ \E v \in sbw[n].vols :
       sbw' = [sbw EXCEPT ![n].pc = "ensure", ![n].vols = @ \ {v}, ![n].pv = v]
  /\ UNCHANGED <<SbFrame, sandboxes, containers, pvcs, volumes, dirty, fresh, hook, lastUID,
                 faults>>

\* a slip: a PVC that does not exist ends the reconcile
SbPVCGiveUp(n) ==
  /\ sbw[n].pc = "pvc"
  /\ \E v \in sbw[n].vols :
       IF pvcs[v] = NoObject THEN SbDone(n)
       ELSE sbw' = [sbw EXCEPT ![n].pc = "ensure", ![n].vols = @ \ {v}, ![n].pv = v]
  /\ UNCHANGED <<SbFrame, sandboxes, containers, pvcs, volumes, dirty, fresh, hook, lastUID,
                 faults>>

\* Get one PVC of the pod: without it the sandbox is not ready
SbPVC(n) ==
  /\ sbw[n].pc = "pvc"
  /\ \E v \in sbw[n].vols :
       IF pvcs[v] = NoObject THEN SbGoto(n, "status", failReady(sbw[n].o.st))
       ELSE sbw' = [sbw EXCEPT ![n].pc = "ensure", ![n].vols = @ \ {v}, ![n].pv = v]
  /\ UNCHANGED <<SbFrame, sandboxes, containers, pvcs, volumes, dirty, fresh, hook, lastUID,
                 faults>>

\* ... and back it by its volume
SbEnsure(n) ==
  /\ sbw[n].pc = "ensure"
  /\ \/ /\ EnsureVolume(sbw[n].pv)
        /\ sbw' = [sbw EXCEPT ![n].pv = NoName,
                     ![n].pc = IF sbw[n].vols = {} THEN "inspect" ELSE "pvc"]
        /\ UNCHANGED <<dirty, faults>>
     \/ Fail /\ SbRequeue(n) /\ UNCHANGED volumes
  /\ UNCHANGED <<SbFrame, sandboxes, containers, pvcs, fresh, hook, lastUID>>

SbInspect(n) ==
  LET o == sbw[n].o
  IN  /\ sbw[n].pc = "inspect"
      /\ \/ /\ InspectSandbox(n) = {}
            /\ SbGoto(n, IF n \in NonRoot /\ Mounts(n) # {} THEN "prepare" ELSE "create", o.st)
            /\ UNCHANGED <<dirty, faults>>
         \/ /\ \E c \in InspectSandbox(n) : SbGoto(n, "status", Observed(o.st, c.state))
            /\ UNCHANGED <<dirty, faults>>
         \/ Fail /\ SbGoto(n, "status", failReady(o.st)) /\ UNCHANGED dirty  \* ensureImage
         \/ Fail /\ SbRequeue(n)                                             \* InspectSandbox
      /\ UNCHANGED <<SbFrame, sandboxes, containers, pvcs, volumes, fresh, hook, lastUID>>

\* ContainerCreate: Docker makes the volumes that do not exist
ContainerCreate(n, uid, state, pc) ==
  /\ containers' = containers \cup
       {[id |-> lastUID + 1, name |-> n, uid |-> uid, state |-> state]}
  /\ volumes' = [v \in PVCNames |-> IF v \in Mounts(n) /\ volumes[v] = "none" THEN "bare"
                                    ELSE volumes[v]]
  /\ lastUID' = lastUID + 1
  /\ sbw' = [sbw EXCEPT ![n].pc = pc, ![n].id = lastUID + 1]
  /\ dirty' = dirty \cup Notify({n})

\* prepareVolumePermissions: a container with the sandbox's labels changes the
\* owner of the volumes; its errors are dropped
SbPrepare(n) ==
  /\ sbw[n].pc = "prepare"
  /\ \/ ContainerCreate(n, 0, "running", "chown") /\ UNCHANGED faults
     \/ Fail /\ SbGoto(n, "create", sbw[n].st)
        /\ UNCHANGED <<containers, volumes, lastUID, dirty>>
  /\ UNCHANGED <<SbFrame, sandboxes, pvcs, fresh, hook>>

\* ... ContainerWait, and the deferred ContainerRemove
SbChown(n) ==
  /\ sbw[n].pc = "chown"
  /\ \A c \in containers : c.id = sbw[n].id => c.state = "exited"
  /\ RemoveQuietly(sbw[n].id)
  /\ SbGoto(n, "create", sbw[n].st)
  /\ UNCHANGED <<SbFrame, sandboxes, pvcs, volumes, fresh, hook, lastUID>>

\* CreateSandboxContainer: ContainerCreate, labelled with the copy's UID
SbCreate(n) ==
  /\ sbw[n].pc = "create"
  /\ \/ ContainerCreate(n, sbw[n].o.uid, "created", "start") /\ UNCHANGED faults
     \/ Fail /\ SbRequeue(n) /\ UNCHANGED <<containers, volumes, lastUID>>
  /\ UNCHANGED <<SbFrame, sandboxes, pvcs, fresh, hook>>

\* ... and ContainerStart, after which it is inspected and probed: the runtime
\* may answer already.  When the start fails the container is removed again, or
\* stays when that fails too; when the inspection fails it runs.
SbStart(n) ==
  LET mine == {c \in containers : c.id = sbw[n].id}
  IN  /\ sbw[n].pc = "start"
      /\ \/ \E c \in mine, state \in {"running", "serving"} :
              /\ containers' = Replace(c, state)
              /\ SbGoto(n, "status", Observed(sbw[n].o.st, state))
              /\ dirty' = dirty \cup Notify({n})
              /\ UNCHANGED faults
         \/ mine = {} /\ SbRequeue(n) /\ UNCHANGED <<containers, faults>>
         \/ /\ mine # {} /\ Fail /\ SbRequeue(n)
            /\ \/ containers' = containers \ mine
               \/ UNCHANGED containers
               \/ \E c \in mine : containers' = Replace(c, "running")
      /\ UNCHANGED <<SbFrame, sandboxes, pvcs, volumes, fresh, hook, lastUID>>

\* a slip: a status that is up to date is not written, as writePVCStatus does
writeChangedStatus(n) ==
  /\ sbw[n].pc = "status"
  /\ SbDone(n)
  /\ sandboxes[n] # NoObject
  /\ IF sandboxes[n].st = sbw[n].st
     THEN /\ dirty' = IF sbw[n].st.ready \/ sbw[n].st.finished \/ sbw[n].st.suspended THEN dirty
                      ELSE dirty \cup {<<"sandbox", n>>}
          /\ UNCHANGED <<sandboxes, fresh>>
     ELSE PutSandbox(n, [sandboxes[n] EXCEPT !.st = sbw[n].st])
  /\ UNCHANGED <<SbFrame, containers, pvcs, volumes, hook, lastUID, faults>>

\* no precondition: whatever sandbox has the name gets the status
writeSandboxStatus(n) ==
  /\ sbw[n].pc = "status"
  /\ \/ /\ sandboxes[n] # NoObject
        /\ PutSandbox(n, [sandboxes[n] EXCEPT !.st = sbw[n].st])
        /\ SbDone(n)
     \/ /\ sandboxes[n] = NoObject
        /\ SbRequeue(n)
        /\ UNCHANGED <<sandboxes, fresh>>
  /\ UNCHANGED <<SbFrame, containers, pvcs, volumes, hook, lastUID, faults>>

----------------------------------------------------------------------------
(* reconcileSuspended and handleSandboxExpiry.                             *)

SuspendedStatus(gone) == [ready |-> FALSE, finished |-> FALSE, suspended |-> gone]

\* a slip: a container that exists is reported gone and left to Docker
SbSuspendKeep(n) ==
  /\ sbw[n].pc = "suspend"
  /\ SbGoto(n, "status", SuspendedStatus(TRUE))
  /\ UNCHANGED <<SbFrame, sandboxes, containers, pvcs, volumes, dirty, fresh, hook,
                 lastUID, faults>>

\* a slip: a sandbox that is Suspended already is not inspected again
SbSuspendOnce(n) ==
  LET known == sbw[n].o.st.suspended
  IN  /\ sbw[n].pc = "suspend"
      /\ \/ /\ known \/ InspectSandbox(n) = {}
            /\ SbGoto(n, "status", SuspendedStatus(TRUE))
         \/ \E c \in InspectSandbox(n) :
              ~known /\ sbw' = [sbw EXCEPT ![n].pc = "susremove", ![n].id = c.id]
      /\ UNCHANGED <<SbFrame, sandboxes, containers, pvcs, volumes, dirty, fresh, hook,
                     lastUID, faults>>

SbSuspend(n) ==
  /\ sbw[n].pc = "suspend"
  /\ \/ InspectSandbox(n) = {} /\ SbGoto(n, "status", SuspendedStatus(TRUE)) /\ UNCHANGED faults
     \/ /\ \E c \in InspectSandbox(n) :
             sbw' = [sbw EXCEPT ![n].pc = "susremove", ![n].id = c.id]
        /\ UNCHANGED faults
     \/ Fail /\ SbGoto(n, "status", SuspendedStatus(FALSE))
  /\ UNCHANGED <<SbFrame, sandboxes, containers, pvcs, volumes, dirty, fresh, hook,
                 lastUID>>

SbSuspendRemove(n) ==
  /\ sbw[n].pc = "susremove"
  /\ RemoveQuietly(sbw[n].id)
  /\ SbGoto(n, "status", SuspendedStatus(TRUE))
  /\ UNCHANGED <<SbFrame, sandboxes, pvcs, volumes, fresh, hook, lastUID>>

\* what follows the removal: Delete the sandbox, or Retain it
AfterExpiry(o) == IF o.shutdown = "Delete" THEN "delete" ELSE "status"

SbExpire(n) ==
  LET o == sbw[n].o
  IN  /\ sbw[n].pc = "expire"
      /\ \/ InspectSandbox(n) = {} /\ SbGoto(n, AfterExpiry(o), failReady(o.st))
            /\ UNCHANGED faults
         \/ /\ \E c \in InspectSandbox(n) :
                 sbw' = [sbw EXCEPT ![n].pc = "expremove", ![n].id = c.id]
            /\ UNCHANGED faults
         \/ Fail /\ SbGoto(n, AfterExpiry(o), failReady(o.st))
      /\ UNCHANGED <<SbFrame, sandboxes, containers, pvcs, volumes, dirty, fresh, hook,
                 lastUID>>

SbExpireRemove(n) ==
  /\ sbw[n].pc = "expremove"
  /\ RemoveQuietly(sbw[n].id)
  /\ SbGoto(n, AfterExpiry(sbw[n].o), failReady(sbw[n].o.st))
  /\ UNCHANGED <<SbFrame, sandboxes, pvcs, volumes, fresh, hook, lastUID>>

----------------------------------------------------------------------------
\* reconcileSandbox, one step of it
SandboxStep(n) ==
  \/ SbGet(n) \/ SbOwner(n) \/ SbDelete(n)
  \/ ensureVCTPVCObject(n) \/ SbPVC(n) \/ SbEnsure(n)
  \/ SbInspect(n) \/ SbPrepare(n) \/ SbChown(n) \/ SbCreate(n) \/ SbStart(n) \/ writeSandboxStatus(n)
  \/ SbSuspend(n) \/ SbSuspendRemove(n) \/ SbExpire(n) \/ SbExpireRemove(n)
=============================================================================

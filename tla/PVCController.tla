--------------------------- MODULE PVCController ---------------------------
(***************************************************************************)
(* The PersistentVolumeClaim controller (reconciler/pvc.go): a PVC is      *)
(* backed by the Docker volume of its name and becomes Bound.  pvw[v] is   *)
(* the reconcile of PVC v: the phase in the copy it read and the phase it  *)
(* will write.                                                             *)
(***************************************************************************)
EXTENDS Cluster

Phases == {"none", "Pending", "Bound"}
IdlePVC == [pc |-> "idle", was |-> "none", phase |-> "none"]
PvThread == [pc : {"idle", "ensure", "status"}, was : Phases, phase : Phases]

\* what the PVC controller never writes
PvFrame == <<claims, pools, template, sandboxes, containers, fresh, sbw, clw, plw, hook,
             lastUID, outside>>

\* a slip: the PVC of a template is left to the sandbox controller
PvGetUsers(v) ==
  /\ Take(<<"pvc", v>>, pvw[v].pc)
  /\ pvw' = IF pvcs[v] = NoObject \/ pvcs[v].owner # 0 THEN pvw
            ELSE [pvw EXCEPT ![v] = [IdlePVC EXCEPT !.pc = "ensure", !.was = pvcs[v].phase]]
  /\ UNCHANGED <<PvFrame, pvcs, volumes, faults>>

PvGet(v) ==
  /\ Take(<<"pvc", v>>, pvw[v].pc)
  /\ pvw' = IF pvcs[v] = NoObject THEN pvw
            ELSE [pvw EXCEPT ![v] = [IdlePVC EXCEPT !.pc = "ensure", !.was = pvcs[v].phase]]
  /\ UNCHANGED <<PvFrame, pvcs, volumes, faults>>

\* the error of EnsureVolume is returned, so that the key is tried again
PvEnsure(v) ==
  /\ pvw[v].pc = "ensure"
  /\ \/ /\ EnsureVolume(v)
        /\ pvw' = [pvw EXCEPT ![v].pc = "status", ![v].phase = "Bound"]
        /\ UNCHANGED <<dirty, faults>>
     \/ /\ Fail
        /\ pvw' = [pvw EXCEPT ![v].pc = "status", ![v].phase = "Pending"]
        /\ dirty' = dirty \cup {<<"pvc", v>>}
        /\ UNCHANGED volumes
  /\ UNCHANGED <<PvFrame, pvcs>>

\* skipped if the copy has the phase; no precondition, NotFound is tried again
writePVCStatus(v) ==
  /\ pvw[v].pc = "status"
  /\ pvw' = [pvw EXCEPT ![v] = IdlePVC]
  /\ IF pvw[v].phase = pvw[v].was THEN UNCHANGED <<pvcs, dirty>>
     ELSE /\ pvcs' = IF pvcs[v] = NoObject THEN pvcs
                     ELSE [pvcs EXCEPT ![v].phase = pvw[v].phase]
          /\ dirty' = dirty \cup {<<"pvc", v>>}
  /\ UNCHANGED <<PvFrame, volumes, faults>>

\* reconcilePVC, one step of it
PVCStep(v) == PvGet(v) \/ PvEnsure(v) \/ writePVCStatus(v)
=============================================================================

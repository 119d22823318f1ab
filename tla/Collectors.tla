----------------------------- MODULE Collectors -----------------------------
(***************************************************************************)
(* What goes over all managed containers and volumes beside the            *)
(* controllers: bootAdoption at the start of the process, `lasd gc' and    *)
(* `lasd purge', which is also the teardown of an ephemeral instance.      *)
(* Each lists once and then works through its list while the controllers   *)
(* run.  The model has one at a time.                                      *)
(***************************************************************************)
EXTENDS Cluster

\* the containers listed and not yet looked at, the one to be removed, and the
\* volumes listed
NoSweep == [mode |-> "none", todo |-> {}, rm |-> 0, vols |-> {}]
Sweep == [mode : {"none", "boot", "gc", "purge", "volumes"}, todo : SUBSET Nat, rm : Nat,
          vols : SUBSET PVCNames]

\* ListManaged
Listed(mode) == [NoSweep EXCEPT !.mode = mode, !.todo = {c.id : c \in containers}]

SweepTo(s) ==
  sweep' = IF s.todo = {} /\ s.rm = 0 /\ s.vols = {} /\ s.mode # "purge" THEN NoSweep ELSE s

SweepFrame == <<claims, pools, template, sandboxes, pvcs, events, fresh, sbw, clw, plw, pvw,
                hook, lastUID, ops, crashes>>

\* a slip: bootAdoption keeps every container it finds
BootKeep ==
  /\ sweep.mode = "boot" /\ sweep.rm = 0
  /\ \E id \in sweep.todo : SweepTo([sweep EXCEPT !.todo = @ \ {id}])
  /\ UNCHANGED <<SweepFrame, containers, volumes, dirty, faults>>

\* bootAdoption: a container without a Sandbox object is to be removed
BootLook ==
  /\ sweep.mode = "boot" /\ sweep.rm = 0
  /\ \E id \in sweep.todo :
       SweepTo([sweep EXCEPT !.todo = @ \ {id},
                  !.rm = IF \E c \in containers : c.id = id /\ sandboxes[c.name] = NoObject
                         THEN id ELSE 0])
  /\ UNCHANGED <<SweepFrame, containers, volumes, dirty, faults>>

\* gc: so is one whose lookup through the API fails for any reason
GcLook ==
  /\ sweep.mode = "gc" /\ sweep.rm = 0
  /\ \E id \in sweep.todo :
       \/ /\ SweepTo([sweep EXCEPT !.todo = @ \ {id},
                        !.rm = IF \E c \in containers : c.id = id
                                                       /\ sandboxes[c.name] = NoObject
                               THEN id ELSE 0])
          /\ UNCHANGED faults
       \/ Fail /\ SweepTo([sweep EXCEPT !.todo = @ \ {id}, !.rm = id])
  /\ UNCHANGED <<SweepFrame, containers, volumes, dirty>>

SweepRemove ==
  /\ sweep.rm # 0
  /\ RemoveQuietly(sweep.rm)
  /\ SweepTo([sweep EXCEPT !.rm = 0])
  /\ UNCHANGED <<SweepFrame, volumes>>

\* purge, teardownAll: every container, then the labelled volumes
PurgeContainer ==
  /\ sweep.mode = "purge"
  /\ \E id \in sweep.todo : RemoveQuietly(id) /\ sweep' = [sweep EXCEPT !.todo = @ \ {id}]
  /\ UNCHANGED <<SweepFrame, volumes>>

ListManagedVolumes ==
  /\ sweep.mode = "purge" /\ sweep.todo = {}
  /\ SweepTo([NoSweep EXCEPT !.mode = "volumes",
                !.vols = {v \in PVCNames : volumes[v] = "labelled"}])
  /\ UNCHANGED <<SweepFrame, containers, volumes, dirty, faults>>

PurgeVolume ==
  /\ sweep.mode = "volumes"
  /\ \E v \in sweep.vols : RemoveVolume(v) /\ SweepTo([sweep EXCEPT !.vols = @ \ {v}])
  /\ UNCHANGED <<SweepFrame, containers, dirty>>

SweepStep ==
  \/ BootLook \/ GcLook \/ SweepRemove
  \/ PurgeContainer \/ ListManagedVolumes \/ PurgeVolume
=============================================================================

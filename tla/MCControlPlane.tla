-------------------------- MODULE MCControlPlane ---------------------------
(***************************************************************************)
(* Small instances of ControlPlane for TLC.                                *)
(***************************************************************************)
EXTENDS ControlPlane, TLC

CONSTANTS c1, c2, p1, w1, w2, b1, x1, v1, v2

\* which reconciles an instance schedules
AllKeys == Keys
NoPoolKeys == {k \in Keys : k[1] # "pool"}
PoolKeys == {k \in Keys : k[1] # "sandbox"}
VolumeKeys == {k \in Keys : k # <<"pvc", v2>>}

\* the PVCs of a sandbox: none, v1 by a template, v2 by its pod
NoPVCs == [n \in SbNames |-> {}]
TemplateV1 == [n \in SbNames |-> {v1}]
PodV2 == [n \in SbNames |-> {v2}]

\* claims are interchangeable
Symmetry == Permutations(ClaimNames)
=============================================================================

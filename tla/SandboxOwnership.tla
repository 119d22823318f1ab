------------------------- MODULE SandboxOwnership --------------------------
(***************************************************************************)
(* What the controllers promise about who a sandbox belongs to, whatever   *)
(* their threads do: a sandbox is provisioned for one owner under a UID    *)
(* that was never used, a member of a warm pool may be handed to a claim   *)
(* once, and nothing else happens to it until it is destroyed for good.    *)
(***************************************************************************)
EXTENDS Integers

VARIABLES live,   \* the sandboxes there are: [uid, kind of owner, UID of owner]
          top     \* the largest UID handed out

Init == live = {} /\ top \in Nat

Provision ==
  \E x \in live' \ live :
    /\ x.uid \in (top + 1)..top'
    /\ live' = live \cup {x}

Adopt ==
  \E x \in live, y \in live' \ live :
    /\ y.uid = x.uid
    /\ x.kind = "pool" /\ y.kind = "claim"
    /\ live' = (live \ {x}) \cup {y}

Destroy == \E x \in live : live' = live \ {x}

Next == top' >= top /\ (Provision \/ Adopt \/ Destroy \/ UNCHANGED live)

Spec == Init /\ [][Next]_<<live, top>>
=============================================================================

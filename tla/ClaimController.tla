-------------------------- MODULE ClaimController --------------------------
(***************************************************************************)
(* The SandboxClaim controller (reconciler/claim.go): a claim is bound to  *)
(* the sandbox it is bound to already, else to a warm one it adopts, else  *)
(* to one it creates under its own name.  clw[c] is the reconcile of claim *)
(* c: the copy `o' it read first, the warm sandbox it picked, the number   *)
(* of attempts to adopt it, and the status it will write.  Two reads that  *)
(* only ask whether something exists (pool, then template) are one step;   *)
(* the sandbox-name annotation, which nothing reads, is part of the        *)
(* adoption.                                                               *)
(***************************************************************************)
EXTENDS Cluster

IdleClaim == [pc |-> "idle", o |-> NoObject, pick |-> NoName, tries |-> 0,
              sb |-> NoName, ready |-> FALSE, finished |-> FALSE]
ClPcs == {"idle", "delete", "retain", "rdelete", "resolve", "bind", "list", "pick",
          "adopt", "create", "got", "status"}
ClThread == [pc : ClPcs, o : Claim \cup {NoObject}, pick : SbNames \cup {NoName},
             tries : 0..MaxAttempts, sb : SbNames \cup {NoName}, ready : BOOLEAN,
             finished : BOOLEAN]

\* what the claim controller never writes
ClFrame == <<pools, template, containers, sbw, plw, storage, faults, outside>>

ClGoto(c, pc) == clw' = [clw EXCEPT ![c].pc = pc]
ClStatus(c, sb, ready, finished) ==
  clw' = [clw EXCEPT ![c].pc = "status", ![c].sb = sb, ![c].ready = ready,
                     ![c].finished = finished]
\* mirror the conditions of the sandbox n it is bound to
Mirror(c, n) == ClStatus(c, n, sandboxes[n].st.ready, sandboxes[n].st.finished)
\* claimNotReady keeps the binding and the other conditions of the copy
claimNotReady(c) == ClStatus(c, clw[c].o.sb, FALSE, clw[c].o.finished)
\* the worker goes on once the hooks of its own Delete have returned
At(c, pc) == clw[c].pc = pc /\ hook[<<"claim", c>>].pc = "none"

claimRef(o, c) == [kind |-> "claim", name |-> c, uid |-> o.uid]
ours(c, o) == o # NoObject /\ controllerOwnerUID(o) = clw[c].o.uid

\* a slip: only the shutdownTime counts
shutdownPassed(o) == o.due

\* past the shutdownTime, or past ttlSecondsAfterFinished since the condition
claimExpired(o) == o.due \/ (o.ttl = "passed" /\ o.finished)

ClGet(c) ==
  /\ Take(<<"claim", c>>, clw[c].pc)
  /\ clw' = IF claims[c] = NoObject THEN clw
            ELSE [clw EXCEPT ![c] = [IdleClaim EXCEPT !.o = claims[c],
                    !.pc = CASE ~claimExpired(claims[c]) -> "resolve"
                             [] claimExpired(claims[c])
                                /\ claims[c].shutdown \in {"Delete", "DeleteForeground"} -> "delete"
                             [] OTHER -> "retain"]]
  /\ UNCHANGED <<ClFrame, claims, sandboxes, fresh, hook, lastUID>>

----------------------------------------------------------------------------
(* handleClaimExpiry.                                                      *)

\* Delete and DeleteForeground alike: the claim goes, its hook cascades
ClDelete(c) ==
  /\ At(c, "delete")
  /\ DeleteClaim(<<"claim", c>>, c)
  /\ clw' = [clw EXCEPT ![c] = IdleClaim]
  /\ UNCHANGED <<ClFrame, sandboxes, fresh, lastUID>>

\* a slip: the claim is marked expired and its sandbox kept
ClRetainKeep(c) ==
  /\ At(c, "retain")
  /\ claimNotReady(c)
  /\ UNCHANGED <<ClFrame, claims, sandboxes, dirty, fresh, hook, lastUID>>

\* Retain: is the bound sandbox there, and ours?
ClRetain(c) ==
  LET o == clw[c].o
  IN  /\ At(c, "retain")
      /\ IF o.sb # NoName /\ ours(c, sandboxes[o.sb])
         THEN ClGoto(c, "rdelete") ELSE claimNotReady(c)
      /\ UNCHANGED <<ClFrame, claims, sandboxes, dirty, fresh, hook, lastUID>>

ClRetainDelete(c) ==
  /\ At(c, "rdelete")
  /\ DeleteSandbox(<<"claim", c>>, clw[c].o.sb, {})
  /\ claimNotReady(c)
  /\ UNCHANGED <<ClFrame, claims, lastUID>>

----------------------------------------------------------------------------
(* reconcileClaim, getOrCreateSandbox and adoptWarmSandbox.                *)

ClResolve(c) ==
  /\ At(c, "resolve")
  /\ IF pools[clw[c].o.pool] = NoObject \/ ~template
     THEN claimNotReady(c) ELSE ClGoto(c, "bind")
  /\ UNCHANGED <<ClFrame, claims, sandboxes, dirty, fresh, hook, lastUID>>

\* a slip: the binding recorded in the status is not looked at
ClBindNew(c) ==
  /\ At(c, "bind")
  /\ ClGoto(c, IF clw[c].o.cold THEN "create" ELSE "list")
  /\ UNCHANGED <<ClFrame, claims, sandboxes, dirty, fresh, hook, lastUID>>

\* the existing binding, if it is to a sandbox of this incarnation
ClBind(c) ==
  LET o == clw[c].o
  IN  /\ At(c, "bind")
      /\ CASE o.sb # NoName /\ ours(c, sandboxes[o.sb]) ->
                Mirror(c, o.sb)
           [] OTHER -> ClGoto(c, IF o.cold THEN "create" ELSE "list")
      /\ UNCHANGED <<ClFrame, claims, sandboxes, dirty, fresh, hook, lastUID>>

\* candidates, the ready ones first
ClList(c) ==
  LET all == Members(clw[c].o.pool)
      isReady == {n \in all : sandboxes[n].st.ready}
  IN  /\ At(c, "list")
      /\ \/ all = {} /\ ClGoto(c, "create")
         \/ \E n \in IF isReady = {} THEN all ELSE isReady :
              clw' = [clw EXCEPT ![c].pc = "pick", ![c].pick = n, ![c].tries = 0]
      /\ UNCHANGED <<ClFrame, claims, sandboxes, dirty, fresh, hook, lastUID>>

\* a fresh read for each attempt
ClPick(c) ==
  /\ At(c, "pick")
  /\ IF ownedBy(sandboxes[clw[c].pick], "pool", clw[c].o.pool)
     THEN ClGoto(c, "adopt") /\ fresh' = fresh \cup {c}
     ELSE ClGoto(c, "create") /\ UNCHANGED fresh
  /\ UNCHANGED <<ClFrame, claims, sandboxes, dirty, hook, lastUID>>

\* a slip: the resourceVersion is cleared, as the status writes do
UpdateAnyVersion(c, n) == sandboxes[n] # NoObject

\* Store.Update accepts the rewritten copy: it has the stored resourceVersion
UpdateAccepts(c, n) == sandboxes[n] # NoObject /\ c \in fresh

RetryAgain(tries) == tries + 1 < MaxAttempts

\* the Update of the ownerReference: done, 409 and another attempt, or given up
ClAdopt(c) ==
  LET n == clw[c].pick
  IN  /\ At(c, "adopt")
      /\ \/ /\ UpdateAccepts(c, n)
            /\ PutSandbox(n, [sandboxes[n] EXCEPT !.owner = claimRef(clw[c].o, c)])
            /\ Mirror(c, n)
         \/ /\ ~UpdateAccepts(c, n) /\ sandboxes[n] # NoObject
            /\ clw' = [clw EXCEPT ![c].tries = @ + 1,
                         ![c].pc = IF RetryAgain(clw[c].tries) THEN "pick" ELSE "create"]
            /\ UNCHANGED <<sandboxes, dirty, fresh>>
         \/ /\ sandboxes[n] = NoObject
            /\ ClGoto(c, "create")
            /\ UNCHANGED <<sandboxes, dirty, fresh>>
      /\ UNCHANGED <<ClFrame, claims, hook, lastUID>>

\* cold start: a sandbox named like the claim
ClCreate(c) ==
  /\ At(c, "create")
  /\ \/ /\ sandboxes[c] = NoObject
        /\ PutSandbox(c, [uid |-> lastUID + 1, owner |-> claimRef(clw[c].o, c),
                          mode |-> "Running", shutdown |-> "none", due |-> FALSE,
                          st |-> NoConditions])
        /\ lastUID' = lastUID + 1
        /\ ClStatus(c, c, FALSE, FALSE)
     \/ /\ sandboxes[c] # NoObject
        /\ ClGoto(c, "got")
        /\ UNCHANGED <<sandboxes, dirty, fresh, lastUID>>
  /\ UNCHANGED <<ClFrame, claims, hook>>

\* a slip: a sandbox that has the claim's name is taken without a look at its owner
ClGotAny(c) ==
  /\ At(c, "got")
  /\ IF sandboxes[c] # NoObject THEN Mirror(c, c)
     ELSE claimNotReady(c)
  /\ UNCHANGED <<ClFrame, claims, sandboxes, dirty, fresh, hook, lastUID>>

\* AlreadyExists: bind to it only if it is ours
ClGot(c) ==
  /\ At(c, "got")
  /\ IF ours(c, sandboxes[c]) THEN Mirror(c, c)
     ELSE claimNotReady(c)
  /\ UNCHANGED <<ClFrame, claims, sandboxes, dirty, fresh, hook, lastUID>>

\* no precondition; NotFound, like a claim that is not ready, is tried again
writeClaimStatus(c) ==
  /\ At(c, "status")
  /\ claims' = IF claims[c] = NoObject THEN claims
               ELSE [claims EXCEPT ![c].sb = clw[c].sb, ![c].ready = clw[c].ready,
                       ![c].finished = clw[c].finished,
                       ![c].ttl = IF @ = "passed" /\ ~clw[c].finished THEN "set" ELSE @]
  /\ dirty' = dirty \cup {<<"claim", c>>}
  /\ clw' = [clw EXCEPT ![c] = IdleClaim]
  /\ UNCHANGED <<ClFrame, sandboxes, fresh, hook, lastUID>>

----------------------------------------------------------------------------
\* reconcileClaim, one step of it
ClaimStep(c) ==
  \/ ClGet(c) \/ ClDelete(c) \/ ClRetain(c) \/ ClRetainDelete(c)
  \/ ClResolve(c) \/ ClBind(c) \/ ClList(c) \/ ClPick(c) \/ ClAdopt(c)
  \/ ClCreate(c) \/ ClGot(c) \/ writeClaimStatus(c)
=============================================================================

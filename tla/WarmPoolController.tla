------------------------ MODULE WarmPoolController -------------------------
(***************************************************************************)
(* The SandboxWarmPool controller (reconciler/warmpool.go): it keeps       *)
(* spec.replicas sandboxes that the pool owns.  plw[p] is the reconcile of *)
(* pool p: the copy `o' it read first and how many members it has left to  *)
(* create.  The counts of the pool's status are not kept; the write that   *)
(* queues the pool again is.                                               *)
(***************************************************************************)
EXTENDS Cluster

IdlePool == [pc |-> "idle", o |-> NoObject, left |-> 0]
PlThread == [pc : {"idle", "list", "create", "status"}, o : Pool \cup {NoObject}, left : Nat]

\* what the warm pool controller never writes
PlFrame == <<claims, pools, template, containers, sbw, clw, storage, faults, outside>>

PlGet(p) ==
  /\ Take(<<"pool", p>>, plw[p].pc)
  /\ plw' = IF pools[p] = NoObject THEN plw
            ELSE [plw EXCEPT ![p] = [IdlePool EXCEPT !.pc = "list", !.o = pools[p]]]
  /\ UNCHANGED <<PlFrame, sandboxes, fresh, hook, lastUID>>

\* The members to delete: unready first.  Creation times have one second, so
\* "newest" does not order the members of one batch.
Excess(mine, count) ==
  {s \in SUBSET mine :
     /\ Cardinality(s) = count
     /\ \A n \in s, m \in mine \ s : sandboxes[n].st.ready => sandboxes[m].st.ready}

\* a slip: only ready members count
ReadyMembers(p) == {n \in Members(p) : sandboxes[n].st.ready}

Mine(p) == Members(p)

\* List, and the decision: create what lacks, delete what is too much
PlList(p) ==
  LET mine == Mine(p)
      have == Cardinality(mine)
      want == plw[p].o.replicas
  IN  /\ plw[p].pc = "list"
      /\ \/ /\ template /\ have < want
            /\ plw' = [plw EXCEPT ![p].pc = "create", ![p].left = want - have]
            /\ UNCHANGED hook
         \/ /\ have > want
            /\ plw' = [plw EXCEPT ![p].pc = "status"]
            /\ \E s \in Excess(mine, have - want) :
                 hook' = [hook EXCEPT ![<<"pool", p>>] =
                            [NoHook EXCEPT !.pc = "pdelete", !.todo = s]]
         \/ /\ have = want \/ (have < want /\ ~template)
            /\ plw' = [plw EXCEPT ![p].pc = "status"]
            /\ UNCHANGED hook
      /\ UNCHANGED <<PlFrame, sandboxes, dirty, fresh, lastUID>>

\* a slip: the loop runs once too often
LastInclusive(left) == left = 0

Last(left) == left = 1

\* one Create, with a generated name that is free
PlCreate(p) ==
  /\ plw[p].pc = "create"
  /\ \E n \in WarmNames :
       /\ sandboxes[n] = NoObject
       /\ PutSandbox(n, [uid |-> lastUID + 1,
                         owner |-> [kind |-> "pool", name |-> p, uid |-> plw[p].o.uid],
                         mode |-> "Running", shutdown |-> "none", due |-> FALSE,
                         st |-> NoConditions])
  /\ lastUID' = lastUID + 1
  /\ plw' = [plw EXCEPT ![p].left = @ - 1,
                        ![p].pc = IF Last(plw[p].left) THEN "status" ELSE "create"]
  /\ UNCHANGED <<PlFrame, hook>>

\* no precondition; NotFound is an error and the key is queued again
writeWarmPoolStatus(p) ==
  /\ plw[p].pc = "status" /\ hook[<<"pool", p>>].pc = "none"
  /\ plw' = [plw EXCEPT ![p] = IdlePool]
  /\ dirty' = dirty \cup {<<"pool", p>>}
  /\ UNCHANGED <<PlFrame, sandboxes, fresh, hook, lastUID>>

----------------------------------------------------------------------------
\* reconcileWarmPool, one step of it
PoolStep(p) == PlGet(p) \/ PlList(p) \/ PlCreate(p) \/ writeWarmPoolStatus(p)
=============================================================================

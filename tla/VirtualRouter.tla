--------------------------- MODULE VirtualRouter ---------------------------
(***************************************************************************)
(* The virtual router: the inert Pod, Service and EndpointSlice by which   *)
(* clients find the router, and the goroutine of startVirtualRouter that   *)
(* makes them in every namespace it hears of.  The facade stores a         *)
(* Namespace after each create.  The watch is the store's (ObjectStore):   *)
(* a snapshot, then a bounded channel that is cut when it is full.         *)
(***************************************************************************)
EXTENDS Naturals, Sequences

CONSTANTS
  Namespaces,   \* names of namespaces
  Default,      \* the namespace "default"
  System,       \* SystemNamespace
  NsChan        \* capacity of the subscription's channel

ASSUME NamespaceAssumption ==
  Default \in Namespaces /\ System \in Namespaces /\ NsChan \in Nat \ {0}

VARIABLES
  used,         \* namespaces in which a client has created an object
  naming,       \* ... whose create has yet to store the Namespace
  namespaces,   \* stored Namespace objects
  virtual,      \* the router's objects in each namespace
  nsWatch,      \* the subscription to Namespace events
  vr            \* the goroutine

vrVars == <<used, naming, namespaces, virtual, nsWatch, vr>>

\* in the order in which EnsureNamespace makes them
Virtual == <<"pod", "service", "slice">>
Everything == {Virtual[i] : i \in DOMAIN Virtual}

\* what startVirtualRouter does next, when ns is ensured
Stage == {"default", "system", "range"}
VrThread == [pc : {"get", "create", "watch", "receive", "ended"}, stage : Stage,
             ns : Namespaces, at : DOMAIN Virtual]
NsWatch == [st : {"none", "open", "cut"}, first : SUBSET Namespaces, ch : Seq(Namespaces)]

VrTypeOK ==
  /\ used \subseteq Namespaces /\ naming \subseteq Namespaces /\ namespaces \subseteq Namespaces
  /\ virtual \in [Namespaces -> SUBSET Everything]
  /\ nsWatch \in NsWatch /\ Len(nsWatch.ch) <= NsChan
  /\ vr \in VrThread

Ensuring(stage, ns) == [pc |-> "get", stage |-> stage, ns |-> ns, at |-> 1]

VrInit ==
  /\ used = {} /\ naming = {} /\ namespaces = {}
  /\ virtual = [ns \in Namespaces |-> {}]
  /\ nsWatch = [st |-> "none", first |-> {}, ch |-> <<>>]
  /\ vr = Ensuring("default", Default)

----------------------------------------------------------------------------
(* The facade.                                                             *)

\* slip: the capacity is not looked at
EmitUnbounded(ns) ==
  nsWatch' = IF nsWatch.st = "open" THEN [nsWatch EXCEPT !.ch = Append(@, ns)] ELSE nsWatch
\* emitLocked, for the one subscription: a full channel is closed
Emit(ns) ==
  nsWatch' = CASE nsWatch.st # "open" -> nsWatch
               [] nsWatch.st = "open" /\ Len(nsWatch.ch) = NsChan -> [nsWatch EXCEPT !.st = "cut"]
               [] OTHER -> [nsWatch EXCEPT !.ch = Append(@, ns)]

\* create has stored an object in ns
CreateIn(ns) ==
  /\ used' = used \cup {ns}
  /\ naming' = naming \cup {ns}
  /\ UNCHANGED <<namespaces, virtual, nsWatch, vr>>

\* ... and ensureNamespace follows
ensureNamespace(ns) ==
  /\ ns \in naming
  /\ naming' = naming \ {ns}
  /\ IF ns \in namespaces THEN UNCHANGED <<namespaces, nsWatch>>
     ELSE namespaces' = namespaces \cup {ns} /\ Emit(ns)
  /\ UNCHANGED <<used, virtual, vr>>

\* a user deletes a Namespace; what is in it stays
DeleteNamespace(ns) ==
  /\ ns \in namespaces
  /\ namespaces' = namespaces \ {ns}
  /\ Emit(ns)
  /\ UNCHANGED <<used, naming, virtual, vr>>

----------------------------------------------------------------------------
(* startVirtualRouter.                                                     *)

\* ensurePod, ensureService or ensureEndpointSlice is done
Ensured ==
  CASE vr.at < Len(Virtual)  -> [vr EXCEPT !.pc = "get", !.at = @ + 1]
    [] vr.at = Len(Virtual) /\ vr.stage = "default" -> Ensuring("system", System)
    [] vr.at = Len(Virtual) /\ vr.stage = "system"  -> [vr EXCEPT !.pc = "watch"]
    [] OTHER -> [vr EXCEPT !.pc = "receive"]

VrGet ==
  /\ vr.pc = "get"
  /\ vr' = IF Virtual[vr.at] \in virtual[vr.ns] THEN Ensured ELSE [vr EXCEPT !.pc = "create"]
  /\ UNCHANGED <<used, naming, namespaces, virtual, nsWatch>>

\* an AlreadyExists is dropped
VrCreate ==
  /\ vr.pc = "create"
  /\ virtual' = [virtual EXCEPT ![vr.ns] = @ \cup {Virtual[vr.at]}]
  /\ vr' = Ensured
  /\ UNCHANGED <<used, naming, namespaces, nsWatch>>

\* slip: the watch begins with the next event
WatchLive(stored) == [st |-> "open", first |-> {}, ch |-> <<>>]
\* the snapshot is taken with the registration
WatchAll(stored) == [st |-> "open", first |-> stored, ch |-> <<>>]

VrWatch ==
  /\ vr.pc = "watch"
  /\ nsWatch' = WatchAll(namespaces)
  /\ vr' = [vr EXCEPT !.pc = "receive"]
  /\ UNCHANGED <<used, naming, namespaces, virtual>>

\* any event, a DELETED one too, ensures the namespace; a channel that was cut
\* is drained and the goroutine ends
VrReceive ==
  /\ vr.pc = "receive"
  /\ \/ \E ns \in nsWatch.first :
          /\ nsWatch' = [nsWatch EXCEPT !.first = @ \ {ns}]
          /\ vr' = Ensuring("range", ns)
     \/ /\ nsWatch.first = {} /\ nsWatch.ch # <<>>
        /\ nsWatch' = [nsWatch EXCEPT !.ch = Tail(@)]
        /\ vr' = Ensuring("range", Head(nsWatch.ch))
     \/ /\ nsWatch.first = {} /\ nsWatch.ch = <<>> /\ nsWatch.st = "cut"
        /\ vr' = [vr EXCEPT !.pc = "ended"]
        /\ UNCHANGED nsWatch
  /\ UNCHANGED <<used, naming, namespaces, virtual>>

VrStep == VrGet \/ VrCreate \/ VrWatch \/ VrReceive
=============================================================================

----------------------------- MODULE DataPlane -----------------------------
(***************************************************************************)
(* The data plane of lasd: clients find the virtual router in their        *)
(* namespace, tunnel to it or call it directly, and reach the containers   *)
(* of their sandboxes.  The control plane (module ControlPlane) appears    *)
(* only by what it does to sandboxes and containers.                       *)
(***************************************************************************)
EXTENDS VirtualRouter, PortForward

CONSTANTS
  ClientNs,     \* the namespace of the tunnel's client
  Headers,      \* the headers that each of its streams may have
  Extra,        \* streams beside a request's pair, in behaviours without changes
  Published,    \* the container ports that each sandbox's pod publishes
  MaxOps,       \* bound on operations in namespaces
  MaxChanges    \* bound on changes of sandboxes and containers

ASSUME DataPlaneAssumption ==
  /\ ClientNs \in Namespaces /\ Headers \in [Streams -> SUBSET Header]
  /\ \A s \in Streams : (\E h \in Headers[s] : h.type = "data") => s \in Exchanges
  /\ Published \in [SandboxKeys -> SUBSET Int]
  /\ MaxOps \in Nat /\ MaxChanges \in 0..MaxOps

VARIABLE ops

vars == <<vrVars, rtVars, pfVars, ops>>

Op(max) == ops < max /\ ops' = ops + 1

----------------------------------------------------------------------------
(* Sandboxes and containers, as the controllers and Docker change them.    *)

Change == conn # "none" /\ Op(MaxChanges) /\ UNCHANGED <<vrVars, pfVars, ex>>

\* a sandbox is created, or deleted
ToggleSandbox(k) ==
  /\ Change
  /\ ready' = [ready EXCEPT ![k] = IF @ = "none" THEN "unready" ELSE "none"]
  /\ UNCHANGED <<boxes, lastBox>>

\* its container is started, on host ports that no running container has
StartBox(k) ==
  LET taken == UNION {{b.ports[p] : p \in DOMAIN b.ports} : b \in {c \in boxes : c.state # "exited"}}
  IN  /\ Change
      /\ ready[k] # "none" /\ Labelled(k) = {}
      /\ \E f \in [Published[k] -> HostPorts \ taken] :
           /\ \A p, q \in Published[k] : f[p] = f[q] => p = q
           /\ boxes' = boxes \cup {[id |-> lastBox + 1, key |-> k, state |-> "running", ports |-> f]}
      /\ lastBox' = lastBox + 1
      /\ UNCHANGED ready

\* it ends, or is removed
StopBox(b) ==
  /\ Change
  /\ \/ b.state # "exited" /\ boxes' = (boxes \ {b}) \cup {[b EXCEPT !.state = "exited"]}
     \/ boxes' = boxes \ {b}
  /\ UNCHANGED <<ready, lastBox>>

Quiet == UNCHANGED <<vrVars, pfVars, ex, ops>>

\* the runtime listens
ServeBox(b) ==
  /\ b.state = "running"
  /\ boxes' = (boxes \ {b}) \cup {[b EXCEPT !.state = "serving"]}
  /\ UNCHANGED <<ready, lastBox>> /\ Quiet

\* the sandbox controller writes the Ready condition
ReportReady(k) ==
  /\ ready[k] # "none"
  /\ ready' = [ready EXCEPT ![k] = IF \E b \in Labelled(k) : b.state = "serving" THEN "ready"
                                   ELSE "unready"]
  /\ ready' # ready
  /\ UNCHANGED <<boxes, lastBox>> /\ Quiet

----------------------------------------------------------------------------
(* Clients.                                                                *)

\* An operation in a namespace.  The tunnel needs of the virtual router only the
\* EndpointSlice it begins with, so an instance does not mix the two: either
\* users work in namespaces, or a tunnel is opened and sandboxes change.
UserOp(A) == conn = "none" /\ Op(MaxOps) /\ A /\ UNCHANGED <<rtVars, pfVars>>

\* the SDK, or kubectl, looks for the router in a namespace
Discover == ops = 0 /\ "slice" \in virtual[ClientNs] /\ Connect

Rest == UNCHANGED <<vrVars, ops>>

User ==
  \/ \E ns \in Namespaces : UserOp(CreateIn(ns))
  \/ \E ns \in Namespaces : UserOp(DeleteNamespace(ns))
  \/ Discover /\ Rest
  \/ \E s \in Streams : \E h \in Headers[s] :
       /\ OpenStream(s, h) /\ UNCHANGED vrVars
       /\ IF s \in Extra THEN ops = 0 /\ ops' = MaxChanges ELSE UNCHANGED ops
  \/ \E s \in Exchanges : (Write(s) \/ EndStream(s)) /\ Rest
  \/ EndConnection /\ Rest

Naming == \E ns \in Namespaces : ensureNamespace(ns) /\ UNCHANGED <<rtVars, pfVars, ops>>
VRouter == VrStep /\ UNCHANGED <<rtVars, pfVars, ops>>

Handler(e) == (ServeHTTP(e) \/ Inspect(e) \/ Dial(e) \/ Cancel(e) \/ HttpClose(e))
              /\ UNCHANGED pfVars /\ Rest
Upstreams == \E e \in Exchanges : (Upstream(e) \/ HttpHangUp(e)) /\ UNCHANGED pfVars /\ Rest
Forward(s) == Bridge(s) /\ Rest
Run == (RunStream \/ RunReturn \/ \E s \in Streams : Offer(s)) /\ Rest

ControlPlane ==
  \/ \E k \in SandboxKeys : ToggleSandbox(k) \/ StartBox(k) \/ ReportReady(k)
  \/ \E b \in boxes : StopBox(b) \/ ServeBox(b)

Init == VrInit /\ RtInit /\ PfInit /\ ops = 0

Next ==
  \/ Naming \/ VRouter \/ Run \/ Upstreams \/ User \/ ControlPlane
  \/ \E e \in Exchanges : Handler(e) \/ Forward(e)

\* Every goroutine of lasd runs; clients and containers need not do anything.
Fairness ==
  /\ WF_vars(Naming) /\ WF_vars(VRouter) /\ WF_vars(Run)
  /\ \A e \in Exchanges : WF_vars(Handler(e)) /\ WF_vars(Forward(e))
Spec == Init /\ [][Next]_vars /\ Fairness

----------------------------------------------------------------------------
(* Properties.                                                             *)

TypeOK == VrTypeOK /\ RtTypeOK /\ PfTypeOK /\ ops \in 0..MaxOps

\* A request reaches no container but its sandbox's, although the host port
\* that Resolve read is dialled later, as long as the container it read it from
\* still runs (Resolve, InspectSandbox's label filters).
NoCrossTalk ==
  \A e \in Exchanges : ex[e].pc = "upstream" =>
    \/ \A b \in boxes : b.id = ex[e].at => b.key = Key(ex[e].req)
    \/ \A b \in boxes : b.id = ex[e].found => b.state = "exited"

\* A request with an X-Sandbox-Timeout is answered whatever its container does,
\* and in a tunnel the answer arrives, also when the client ends its side early
\* (ServeHTTP's context, the copying goroutines).
TimedRequestsAnswered ==
  \A s \in Exchanges : fw[s].pc = "copy" /\ st[s].wrote /\ ex[s].req.timeout ~>
                       st[s].got \/ conn = "closed"

\* A forward ends after its client has ended the stream or the connection, in
\* whatever state its request is (forward waits for both goroutines, and the one
\* that reads from the router ends only because of the other's CloseWrite).
ForwardsEnd ==
  \A s \in Exchanges :
    fw[s].pc \in {"dial", "copy"} /\ (st[s].eof \/ conn = "closed") ~> fw[s].pc = "ended"

\* the error streams that the client has opened for the request of d
Partners(d) == {s \in Streams : /\ st[s].s # "none"
                               /\ st[s].head = [rid |-> st[d].head.rid, type |-> "error"]}

\* The streams of a request find each other, and no stream of another request,
\* in whatever order they, a stream of another request or a stray one arrive,
\* unless the client repeats one of them (onStream's map of pairs, streamChan).
PairsForwarded ==
  \A d \in Exchanges :
    st[d].head.type = "data" /\ st[d].head.rid # "" /\ Cardinality(Partners(d)) = 1 ~>
      fw[d].error \in Partners(d) \/ conn = "closed" \/ Cardinality(Partners(d)) > 1

\* A Namespace gets the router's Pod, Service and EndpointSlice, also one that
\* is stored while startVirtualRouter is about to watch, or is deleted and made
\* again, unless the watch was cut (EnsureNamespace, ensureNamespace).
RouterEverywhere ==
  \A ns \in Namespaces :
    ns \in used ~> virtual[ns] = Everything \/ (ns \notin naming \cup namespaces) \/ nsWatch.st = "cut"
=============================================================================

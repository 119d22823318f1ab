------------------------------- MODULE Router ------------------------------
(***************************************************************************)
(* The data-plane router.  An exchange is one HTTP connection to it with   *)
(* one request: the handler resolves the sandbox in the store and the port *)
(* at Docker, dials the published host port, and passes the answer back.   *)
(* Between those calls containers come and go and host ports are given out *)
(* again.                                                                  *)
(***************************************************************************)
EXTENDS Integers, FiniteSets

CONSTANTS
  Exchanges,    \* connections to the router
  Requests,     \* the requests clients send
  SandboxKeys,  \* pairs of a namespace and a sandbox name
  Survivors,    \* the sandboxes whose containers run at the start
  DefaultNs,    \* the namespace of a request that names none
  HostPorts     \* what Docker publishes ports on

VARIABLES
  ready,        \* what the store says of each sandbox
  boxes,        \* the containers
  lastBox,      \* number of containers so far
  ex            \* the exchanges

rtVars == <<ready, boxes, lastBox, ex>>

ServerPort == 8888

\* A request: the headers, the port as the number it parses to (0 when it is
\* absent or no number), and whether it has a valid X-Sandbox-Timeout.
Request == [health : BOOLEAN, label : BOOLEAN, ns : STRING, name : STRING, port : Int,
            timeout : BOOLEAN]
ASSUME RequestAssumption == Requests \subseteq Request

\* containers that run have host ports of their own
ASSUME SurvivorAssumption ==
  /\ Survivors \subseteq SandboxKeys /\ IsFiniteSet(Survivors)
  /\ \E g \in [Survivors -> HostPorts] : \A k, l \in Survivors : g[k] = g[l] => k = l

\* ports: the published container ports and their host ports
Box(b) == /\ b.id \in 1..lastBox /\ b.key \in SandboxKeys
          /\ b.state \in {"running", "serving", "exited"}
          /\ DOMAIN b.ports \subseteq Int /\ \A p \in DOMAIN b.ports : b.ports[p] \in HostPorts

NoRequest == [health |-> TRUE, label |-> FALSE, ns |-> "", name |-> "", port |-> 0,
              timeout |-> FALSE]
\* eof: the client has ended its side; found: the container that InspectSandbox
\* returned; from: the container that answered, 0 for the router itself
NoExchange == [pc |-> "idle", req |-> NoRequest, eof |-> FALSE, found |-> 0, target |-> 0,
               at |-> 0, code |-> 0, from |-> 0]
InFlight == {"inspect", "dial", "upstream"}

RtTypeOK ==
  /\ ready \in [SandboxKeys -> {"none", "unready", "ready"}]
  /\ \A b \in boxes : Box(b)
  /\ \A e \in Exchanges :
       /\ ex[e].pc \in {"idle", "sent", "answered", "closed"} \cup InFlight
       /\ ex[e].code \in {0, 200, 400, 502, 503}
       /\ (ex[e].pc = "answered") => ex[e].code # 0

\* lasd has started again: sandboxes are stored, and some of their containers
\* survived
RtInit ==
  LET n == Cardinality(Survivors)
      i == CHOOSE g \in [Survivors -> 1..n] : \A k, l \in Survivors : g[k] = g[l] => k = l
      f == CHOOSE g \in [Survivors -> HostPorts] : \A k, l \in Survivors : g[k] = g[l] => k = l
  IN  /\ ready = [k \in SandboxKeys |-> IF k \in Survivors THEN "ready" ELSE "unready"]
      /\ boxes = {[id |-> i[k], key |-> k, state |-> "serving",
                   ports |-> [p \in {ServerPort} |-> f[k]]] : k \in Survivors}
      /\ lastBox = n
      /\ ex = [e \in Exchanges |-> NoExchange]

----------------------------------------------------------------------------
(* The handler.                                                            *)

\* X-Sandbox-Namespace and X-Sandbox-Port have defaults
Key(r) == <<IF r.ns = "" THEN DefaultNs ELSE r.ns, r.name>>
Port(r) == IF r.port > 0 /\ r.port <= 65535 THEN r.port ELSE ServerPort

Answer(e, code, from) ==
  ex' = [ex EXCEPT ![e] = [@ EXCEPT !.pc = "answered", !.code = code, !.from = from]]

\* the first half of Resolve: what the store says of the sandbox
ServeHTTP(e) ==
  LET r == ex[e].req
  IN  /\ ex[e].pc = "sent"
      /\ CASE r.health -> Answer(e, 200, 0)
           [] ~r.health /\ ~r.label -> Answer(e, 400, 0)
           [] ~r.health /\ r.label /\ ready[Key(r)] = "none" -> Answer(e, 502, 0)
           [] ~r.health /\ r.label /\ ready[Key(r)] = "unready" -> Answer(e, 503, 0)
           [] OTHER -> ex' = [ex EXCEPT ![e].pc = "inspect"]
      /\ UNCHANGED <<ready, boxes, lastBox>>

\* slip: InspectSandbox lists by the sandbox's name alone
LabelledName(k) == {b \in boxes : b.key[2] = k[2]}
\* the containers with both labels
Labelled(k) == {b \in boxes : b.key = k}
\* ... and the newest of them, which the list has first
Newest(bs) == CHOOSE b \in bs : \A c \in bs : c.id <= b.id

\* the second half of Resolve: InspectSandbox and its port map
Inspect(e) ==
  LET r == ex[e].req
      bs == Labelled(Key(r))
      b == Newest(bs)
  IN  /\ ex[e].pc = "inspect"
      /\ CASE bs = {} \/ (bs # {} /\ b.state = "exited") -> Answer(e, 503, 0)
           [] bs # {} /\ b.state # "exited" /\ Port(r) \notin DOMAIN b.ports -> Answer(e, 502, 0)
           [] OTHER -> ex' = [ex EXCEPT ![e].pc = "dial", ![e].found = b.id,
                                        ![e].target = b.ports[Port(r)]]
      /\ UNCHANGED <<ready, boxes, lastBox>>

Publishes(b, h) == b.state # "exited" /\ \E p \in DOMAIN b.ports : b.ports[p] = h

\* The proxy dials whoever has the host port now.  Docker accepts for a
\* container whose process does not listen yet, and then the request fails.
Dial(e) ==
  LET on == {b \in boxes : Publishes(b, ex[e].target)}
  IN  /\ ex[e].pc = "dial"
      /\ \/ \E b \in on : b.state = "serving" /\ ex' = [ex EXCEPT ![e].pc = "upstream", ![e].at = b.id]
         \/ (\A b \in on : b.state # "serving") /\ Answer(e, 502, 0)
      /\ UNCHANGED <<ready, boxes, lastBox>>

\* the container answers, or is gone; upgraded connections are left out
Upstream(e) ==
  LET up == {b \in boxes : b.id = ex[e].at /\ b.state = "serving"}
  IN  /\ ex[e].pc = "upstream"
      /\ IF up = {} THEN Answer(e, 502, 0) ELSE Answer(e, 200, ex[e].at)
      /\ UNCHANGED <<ready, boxes, lastBox>>

\* slip: the deadline is not handed on to the proxy
CancelResolve(e) ==
  /\ ex[e].pc = "inspect" /\ (ex[e].req.timeout \/ ex[e].eof)
  /\ Answer(e, 503, 0)
  /\ UNCHANGED <<ready, boxes, lastBox>>
\* The deadline of X-Sandbox-Timeout passes, or the HTTP server sees the
\* client's side end and cancels the request's context: InspectSandbox or the
\* proxy fails.
Cancel(e) ==
  /\ ex[e].pc \in InFlight /\ (ex[e].req.timeout \/ ex[e].eof)
  /\ Answer(e, IF ex[e].pc = "inspect" THEN 503 ELSE 502, 0)
  /\ UNCHANGED <<ready, boxes, lastBox>>

\* the HTTP server hangs up after an answer (Connection: close, HTTP/1.0)
HttpHangUp(e) ==
  /\ ex[e].pc = "answered"
  /\ ex' = [ex EXCEPT ![e].pc = "closed"]
  /\ UNCHANGED <<ready, boxes, lastBox>>

\* ... and closes a connection whose client has ended its side
HttpClose(e) ==
  /\ ex[e].pc \in {"idle", "answered"} /\ ex[e].eof
  /\ ex' = [ex EXCEPT ![e].pc = "closed"]
  /\ UNCHANGED <<ready, boxes, lastBox>>
=============================================================================

--------------------------- MODULE DataPlaneProofs --------------------------
(***************************************************************************)
(* DataPlane for every instance: its types, and that a request reaches no  *)
(* container but its sandbox's while the container it found runs.          *)
(***************************************************************************)
EXTENDS DataPlane, FiniteSetTheorems, FunctionTheorems, TLAPS

----------------------------------------------------------------------------
(* The inductive invariant of the types.                                   *)

Ports == UNION {[P -> HostPorts] : P \in SUBSET Int}
BoxRecord == [id : Nat, key : SandboxKeys, state : {"running", "serving", "exited"},
              ports : Ports]
ExPcs == {"idle", "sent", "answered", "closed"} \cup InFlight
Codes == {0, 200, 400, 502, 503}
Asked == Requests \cup {NoRequest}
Targets == HostPorts \cup {0}
Exchange == [pc : ExPcs, req : Asked, eof : BOOLEAN, found : Nat, target : Targets, at : Nat,
             code : Codes, from : Nat]
\* an id is one container's, and a sandbox has one container
UniqueBoxes == \A b, c \in boxes : b.id = c.id \/ b.key = c.key => b = c
RtT ==
  /\ ready \in [SandboxKeys -> {"none", "unready", "ready"}]
  /\ lastBox \in Nat
  /\ boxes \subseteq BoxRecord
  /\ \A b \in boxes : b.id \in 1..lastBox
  /\ UniqueBoxes
ExT ==
  /\ ex \in [Exchanges -> Exchange]
  /\ \A e \in Exchanges : ex[e].pc = "answered" => ex[e].code # 0
\* a stream has one of the headers it may have; only data streams are bridged
PfT ==
  /\ PfTypeOK
  /\ \A s \in Streams : st[s].head \in Headers[s] \cup {NoHeader}
TypeInv == VrTypeOK /\ RtT /\ ExT /\ PfT /\ ops \in 0..MaxOps

----------------------------------------------------------------------------
(* The virtual router.                                                     *)

\* Emit appends to a channel that has room, or cuts it.
LEMMA EmitType ==
  ASSUME VrTypeOK, NEW ns \in Namespaces, Emit(ns)
  PROVE  nsWatch' \in NsWatch /\ Len(nsWatch'.ch) <= NsChan
<1>0. nsWatch \in NsWatch /\ Len(nsWatch.ch) <= NsChan /\ nsWatch.ch \in Seq(Namespaces)
      /\ NsChan \in Nat
  BY NamespaceAssumption DEF VrTypeOK, NsWatch
<1>1. CASE nsWatch' = nsWatch
  BY <1>0, <1>1
<1>2. CASE nsWatch' = [nsWatch EXCEPT !.st = "cut"]
  BY <1>0, <1>2 DEF NsWatch
<1>3. CASE nsWatch.st = "open" /\ Len(nsWatch.ch) # NsChan
           /\ nsWatch' = [nsWatch EXCEPT !.ch = Append(@, ns)]
  <2>1. Append(nsWatch.ch, ns) \in Seq(Namespaces)
        /\ Len(Append(nsWatch.ch, ns)) = Len(nsWatch.ch) + 1 /\ Len(nsWatch.ch) \in Nat
    BY <1>0
  <2>2. nsWatch'.ch = Append(nsWatch.ch, ns) /\ nsWatch' \in NsWatch
    BY <1>0, <1>3, <2>1 DEF NsWatch
  <2>3. QED
    BY <1>0, <1>3, <2>1, <2>2
<1>4. QED
  BY <1>1, <1>2, <1>3 DEF Emit

\* EnsureNamespace goes on with the next object or the next namespace.
LEMMA EnsuredType ==
  ASSUME VrTypeOK
  PROVE  Ensured \in VrThread /\ \A stage \in Stage, ns \in Namespaces : Ensuring(stage, ns) \in VrThread
<1>1. \A stage \in Stage, ns \in Namespaces : Ensuring(stage, ns) \in VrThread
  BY DEF Ensuring, VrThread, Virtual
<1>2. vr \in VrThread /\ vr.at \in 1..3 /\ Len(Virtual) = 3 /\ DOMAIN Virtual = 1..3
  BY DEF VrTypeOK, VrThread, Virtual
<1>3. CASE vr.at < 3
  <2>1. Ensured = [vr EXCEPT !.pc = "get", !.at = @ + 1]
    BY <1>2, <1>3 DEF Ensured
  <2>2. vr.at + 1 \in DOMAIN Virtual
    BY <1>2, <1>3
  <2>3. QED
    BY <1>1, <1>2, <2>1, <2>2 DEF VrThread
<1>4. CASE vr.at = 3
  <2>1. Ensured \in {Ensuring("system", System), [vr EXCEPT !.pc = "watch"],
                     [vr EXCEPT !.pc = "receive"]}
    BY <1>2, <1>4 DEF Ensured
  <2>2. Ensuring("system", System) \in VrThread
    BY <1>1, NamespaceAssumption DEF Stage
  <2>3. [vr EXCEPT !.pc = "watch"] \in VrThread /\ [vr EXCEPT !.pc = "receive"] \in VrThread
    BY <1>2 DEF VrThread
  <2>4. QED
    BY <1>1, <2>1, <2>2, <2>3
<1>5. QED
  BY <1>2, <1>3, <1>4

\* Every step keeps the types of the virtual router.
LEMMA NextVr ==
  ASSUME VrTypeOK, [Next]_vars
  PROVE  VrTypeOK'
<1>0. /\ used \subseteq Namespaces /\ naming \subseteq Namespaces /\ namespaces \subseteq Namespaces
      /\ virtual \in [Namespaces -> SUBSET Everything]
      /\ nsWatch \in NsWatch /\ Len(nsWatch.ch) <= NsChan
      /\ vr \in VrThread
  BY DEF VrTypeOK
<1>1. CASE UNCHANGED vrVars
  BY <1>1 DEF VrTypeOK, vrVars
<1>2. ASSUME NEW ns \in Namespaces, CreateIn(ns)
      PROVE  VrTypeOK'
  BY <1>0, <1>2 DEF CreateIn, VrTypeOK
<1>3. ASSUME NEW ns \in Namespaces, DeleteNamespace(ns)
      PROVE  VrTypeOK'
  BY <1>0, <1>3, EmitType DEF DeleteNamespace, VrTypeOK
<1>4. ASSUME NEW ns \in Namespaces, ensureNamespace(ns)
      PROVE  VrTypeOK'
  <2>1. nsWatch' \in NsWatch /\ Len(nsWatch'.ch) <= NsChan
    BY <1>0, <1>4, EmitType DEF ensureNamespace
  <2>2. namespaces' \subseteq Namespaces /\ naming' \subseteq Namespaces
    BY <1>0, <1>4 DEF ensureNamespace
  <2>3. QED
    BY <1>0, <1>4, <2>1, <2>2 DEF ensureNamespace, VrTypeOK
<1>5. CASE VrGet
  <2>1. [vr EXCEPT !.pc = "create"] \in VrThread
    BY <1>0 DEF VrThread
  <2>2. QED
    BY <1>0, <1>5, <2>1, EnsuredType DEF VrGet, VrTypeOK
<1>6. CASE VrCreate
  <2>1. vr.ns \in Namespaces /\ Virtual[vr.at] \in Everything
    BY <1>0 DEF VrThread, Everything
  <2>2. virtual' \in [Namespaces -> SUBSET Everything]
    BY <1>0, <1>6, <2>1 DEF VrCreate
  <2>3. QED
    BY <1>0, <1>6, <2>2, EnsuredType DEF VrCreate, VrTypeOK
<1>7. CASE VrWatch
  <2>1. [vr EXCEPT !.pc = "receive"] \in VrThread
    BY <1>0 DEF VrThread
  <2>2. nsWatch' = [st |-> "open", first |-> namespaces, ch |-> <<>>]
    BY <1>7 DEF VrWatch, WatchAll
  <2>3. nsWatch' \in NsWatch /\ Len(nsWatch'.ch) <= NsChan
    BY <1>0, <2>2, NamespaceAssumption DEF NsWatch
  <2>4. QED
    BY <1>0, <1>7, <2>1, <2>3 DEF VrWatch, VrTypeOK
<1>8. CASE VrReceive
  <2>0. nsWatch.first \subseteq Namespaces /\ nsWatch.ch \in Seq(Namespaces) /\ NsChan \in Nat
    BY <1>0, NamespaceAssumption DEF NsWatch
  <2>1. ASSUME NEW ns \in nsWatch.first, nsWatch' = [nsWatch EXCEPT !.first = @ \ {ns}],
               vr' = Ensuring("range", ns)
        PROVE  nsWatch' \in NsWatch /\ Len(nsWatch'.ch) <= NsChan /\ vr' \in VrThread
    BY <1>0, <2>0, <2>1, EnsuredType DEF NsWatch, Stage
  <2>2. ASSUME nsWatch.ch # <<>>, nsWatch' = [nsWatch EXCEPT !.ch = Tail(@)],
               vr' = Ensuring("range", Head(nsWatch.ch))
        PROVE  nsWatch' \in NsWatch /\ Len(nsWatch'.ch) <= NsChan /\ vr' \in VrThread
    <3>1. /\ Head(nsWatch.ch) \in Namespaces /\ Tail(nsWatch.ch) \in Seq(Namespaces)
          /\ Len(Tail(nsWatch.ch)) = Len(nsWatch.ch) - 1 /\ Len(nsWatch.ch) \in Nat
      BY <2>0, <2>2
    <3>2. nsWatch'.ch = Tail(nsWatch.ch) /\ nsWatch' \in NsWatch
      BY <1>0, <2>2, <3>1 DEF NsWatch
    <3>3. vr' \in VrThread
      BY <2>2, <3>1, EnsuredType DEF Stage
    <3>4. QED
      BY <1>0, <2>0, <3>1, <3>2, <3>3
  <2>3. ASSUME vr' = [vr EXCEPT !.pc = "ended"], UNCHANGED nsWatch
        PROVE  nsWatch' \in NsWatch /\ Len(nsWatch'.ch) <= NsChan /\ vr' \in VrThread
    BY <1>0, <2>3 DEF VrThread
  <2>4. nsWatch' \in NsWatch /\ Len(nsWatch'.ch) <= NsChan /\ vr' \in VrThread
    BY <1>8, <2>1, <2>2, <2>3 DEF VrReceive
  <2>5. QED
    BY <1>0, <1>8, <2>4 DEF VrReceive, VrTypeOK
<1>9. QED
  BY <1>1, <1>2, <1>3, <1>4, <1>5, <1>6, <1>7, <1>8
  DEF Next, vars, Naming, VRouter, VrStep, Run, Upstreams, User, ControlPlane, Handler, Forward,
      Rest, UserOp, Change, Quiet, ToggleSandbox, StartBox, StopBox, ServeBox, ReportReady

----------------------------------------------------------------------------
(* Sandboxes and containers.                                               *)

\* A container that changes its state keeps the rest.
LEMMA BoxState ==
  ASSUME NEW b \in BoxRecord, NEW state \in {"running", "serving", "exited"}
  PROVE  LET c == [b EXCEPT !.state = state]
         IN  /\ c \in BoxRecord /\ c.state = state
             /\ c.id = b.id /\ c.key = b.key /\ c.ports = b.ports
  BY DEF BoxRecord

\* the container that StartBox makes
NewBox(k, f) == [id |-> lastBox + 1, key |-> k, state |-> "running", ports |-> f]
Taken == UNION {{b.ports[p] : p \in DOMAIN b.ports} : b \in {c \in boxes : c.state # "exited"}}

\* StartBox makes one container, on host ports that no running one has.
LEMMA StartEffect ==
  ASSUME RtT, NEW k \in SandboxKeys, StartBox(k)
  PROVE  /\ \E f \in [Published[k] -> HostPorts \ Taken] :
              NewBox(k, f) \in BoxRecord /\ boxes' = boxes \cup {NewBox(k, f)}
         /\ lastBox' = lastBox + 1 /\ UNCHANGED <<ready, ex>> /\ Labelled(k) = {}
<1>1. PICK f \in [Published[k] -> HostPorts \ Taken] : boxes' = boxes \cup {NewBox(k, f)}
  BY DEF StartBox, Taken, NewBox
<1>2. f \in Ports
  <2>1. Published[k] \in SUBSET Int /\ f \in [Published[k] -> HostPorts]
    BY DataPlaneAssumption
  <2>2. QED
    BY <2>1 DEF Ports
<1>3. NewBox(k, f) \in BoxRecord
  BY <1>2 DEF RtT, NewBox, BoxRecord
<1>4. QED
  BY <1>1, <1>3 DEF StartBox, Change

\* what a step that starts no container does to those there are
BoxKept ==
  /\ lastBox' = lastBox
  /\ \A b \in boxes' : \E c \in boxes :
       /\ c.id = b.id /\ c.key = b.key /\ c.ports = b.ports
       /\ c.state = "exited" => b.state = "exited"
  /\ UniqueBoxes => UniqueBoxes'

\* Containers that stay as they are, or are removed, are kept.
LEMMA FewerBoxes ==
  ASSUME lastBox' = lastBox, boxes' \subseteq boxes
  PROVE  BoxKept
  BY DEF BoxKept, UniqueBoxes

\* ... and so are those of which one changes its state.
LEMMA StateBoxes ==
  ASSUME RtT, lastBox' = lastBox, NEW b \in boxes, b.state # "exited",
         NEW state \in {"running", "serving", "exited"},
         boxes' = (boxes \ {b}) \cup {[b EXCEPT !.state = state]}
  PROVE  BoxKept /\ boxes' \subseteq BoxRecord
<1> DEFINE c == [b EXCEPT !.state = state]
<1>1. b \in BoxRecord /\ boxes \subseteq BoxRecord
  BY DEF RtT
<1>2. c \in BoxRecord /\ c.id = b.id /\ c.key = b.key /\ c.ports = b.ports
  BY <1>1, BoxState
<1>3. boxes' = (boxes \ {b}) \cup {c}
  OBVIOUS
<1> HIDE DEF c
<1>4. QED
  BY <1>1, <1>2, <1>3 DEF BoxKept, UniqueBoxes

\* Only the control plane changes sandboxes and containers.
LEMMA OtherSteps ==
  ASSUME [Next]_vars, ~ControlPlane
  PROVE  UNCHANGED <<ready, boxes, lastBox>>
<1>1. CASE Naming \/ VRouter \/ Run \/ UNCHANGED vars
  BY <1>1 DEF vars, rtVars, Naming, VRouter, Run, RunStream, RunReturn, Offer
<1>2. CASE User
  BY <1>2 DEF rtVars, User, UserOp, Discover, Connect, OpenStream, Write, EndStream, EndConnection
<1>3. ASSUME NEW e \in Exchanges, Handler(e) \/ Upstream(e) \/ HttpHangUp(e)
      PROVE  UNCHANGED <<ready, boxes, lastBox>>
  BY <1>3 DEF Upstream, HttpHangUp, Handler, ServeHTTP, Inspect, Dial, Cancel, HttpClose
<1>4. ASSUME NEW e \in Exchanges, Forward(e)
      PROVE  UNCHANGED <<ready, boxes, lastBox>>
  BY <1>4 DEF rtVars, Forward, Bridge, DialRouter, CopyUp, CopyDown, Finish
<1>5. QED
  BY <1>1, <1>2, <1>3, <1>4 DEF Next, Upstreams

\* Every step starts a container or keeps them.
LEMMA BoxEffect ==
  ASSUME RtT, [Next]_vars
  PROVE  (BoxKept /\ boxes' \subseteq BoxRecord) \/ \E k \in SandboxKeys : StartBox(k)
<1>0. boxes \subseteq BoxRecord
  BY DEF RtT
<1>1. CASE UNCHANGED <<boxes, lastBox>>
  BY <1>0, <1>1, FewerBoxes
<1>2. ASSUME NEW b \in boxes, StopBox(b)
      PROVE  BoxKept /\ boxes' \subseteq BoxRecord
  <2>1. CASE b.state # "exited" /\ boxes' = (boxes \ {b}) \cup {[b EXCEPT !.state = "exited"]}
    BY <1>2, <2>1, StateBoxes DEF StopBox
  <2>2. CASE boxes' = boxes \ {b}
    BY <1>0, <1>2, <2>2, FewerBoxes DEF StopBox
  <2>3. QED
    BY <1>2, <2>1, <2>2 DEF StopBox
<1>3. ASSUME NEW b \in boxes, ServeBox(b)
      PROVE  BoxKept /\ boxes' \subseteq BoxRecord
  <2>1. /\ b.state # "exited" /\ lastBox' = lastBox
        /\ boxes' = (boxes \ {b}) \cup {[b EXCEPT !.state = "serving"]}
    BY <1>3 DEF ServeBox
  <2>2. QED
    BY <2>1, StateBoxes
<1>4. CASE ControlPlane
  BY <1>1, <1>2, <1>3, <1>4 DEF ControlPlane, ToggleSandbox, ReportReady
<1>5. CASE ~ControlPlane
  BY <1>1, <1>5, OtherSteps
<1>6. QED
  BY <1>4, <1>5

\* Every step keeps the types of sandboxes and containers.
LEMMA NextRt ==
  ASSUME RtT, [Next]_vars
  PROVE  RtT'
<1>0. boxes \subseteq BoxRecord /\ lastBox \in Nat /\ (\A b \in boxes : b.id \in 1..lastBox)
      /\ ready \in [SandboxKeys -> {"none", "unready", "ready"}]
  BY DEF RtT
<1>1. ready' \in [SandboxKeys -> {"none", "unready", "ready"}]
  <2>1. CASE ControlPlane
    BY <1>0, <2>1 DEF ControlPlane, ToggleSandbox, StartBox, ReportReady, StopBox, ServeBox
  <2>2. CASE ~ControlPlane
    BY <1>0, <2>2, OtherSteps
  <2>3. QED
    BY <2>1, <2>2
<1>2. CASE BoxKept /\ boxes' \subseteq BoxRecord
  BY <1>0, <1>1, <1>2 DEF BoxKept, RtT
<1>3. ASSUME NEW k \in SandboxKeys, StartBox(k)
      PROVE  RtT'
  <2>1. PICK f : NewBox(k, f) \in BoxRecord /\ boxes' = boxes \cup {NewBox(k, f)}
    BY <1>3, StartEffect
  <2>2. NewBox(k, f).id = lastBox + 1 /\ NewBox(k, f).key = k /\ lastBox' = lastBox + 1
    BY <1>3, StartEffect DEF NewBox
  <2>3. UniqueBoxes'
    <3>1. \A b \in boxes : b.key # k /\ b.id # lastBox + 1
      BY <1>0, <1>3, StartEffect DEF Labelled
    <3>2. UniqueBoxes
      BY DEF RtT
    <3>3. QED
      BY <2>1, <2>2, <3>1, <3>2 DEF UniqueBoxes
  <2>4. QED
    BY <1>0, <1>1, <2>1, <2>2, <2>3 DEF RtT
<1>4. QED
  BY <1>2, <1>3, BoxEffect

----------------------------------------------------------------------------
(* Exchanges.                                                              *)

\* The newest of a sandbox's containers is one of them.
LEMMA NewestFound ==
  ASSUME RtT, NEW k, Labelled(k) # {}
  PROVE  Newest(Labelled(k)) \in Labelled(k)
<1>1. PICK b \in Labelled(k) : TRUE
  OBVIOUS
<1>2. \A c \in Labelled(k) : c = b
  BY <1>1 DEF Labelled, RtT, UniqueBoxes
<1>3. b.id \in Nat
  BY <1>1 DEF Labelled, RtT, BoxRecord
<1>4. b \in Labelled(k) /\ \A c \in Labelled(k) : c.id <= b.id
  BY <1>1, <1>2, <1>3
<1>5. QED
  BY <1>4 DEF Newest

\* One exchange goes on with a well-typed state.
LEMMA ExSet ==
  ASSUME ExT, NEW e \in Exchanges, NEW x \in Exchange, x.pc = "answered" => x.code # 0,
         ex' = [ex EXCEPT ![e] = x]
  PROVE  ExT'
  BY DEF ExT

\* An answer ends the handler's work.
LEMMA AnswerType ==
  ASSUME ExT, NEW e \in Exchanges, NEW code \in {200, 400, 502, 503}, NEW from \in Nat,
         Answer(e, code, from)
  PROVE  ExT' /\ ex'[e].pc = "answered" /\ \A d \in Exchanges \ {e} : ex'[d] = ex[d]
<1> DEFINE x == [ex[e] EXCEPT !.pc = "answered", !.code = code, !.from = from]
<1>1. x \in Exchange /\ x.code # 0 /\ x.pc = "answered"
  <2>1. ex[e] \in Exchange /\ "answered" \in ExPcs /\ code \in Codes /\ code # 0
    BY DEF ExT, ExPcs, Codes
  <2>2. x \in Exchange
    BY <2>1, ZenonT(40) DEF Exchange
  <2>3. x.code = code /\ x.pc = "answered"
    BY <2>1 DEF Exchange
  <2>4. QED
    BY <2>1, <2>2, <2>3
<1>2. ex' = [ex EXCEPT ![e] = x]
  BY DEF Answer
<1>3. \A d \in Exchanges \ {e} : ex'[d] = ex[d]
  BY <1>2 DEF ExT
<1>4. ex'[e] = x
  BY <1>2 DEF ExT
<1> HIDE DEF x
<1>5. QED
  BY <1>1, <1>2, <1>3, <1>4, ExSet, ZenonT(40)

\* what the rest of the program does to an exchange that the handler works on
ExKept(e) ==
  /\ ex'[e].pc = ex[e].pc /\ ex'[e].req = ex[e].req /\ ex'[e].found = ex[e].found
  /\ ex'[e].target = ex[e].target /\ ex'[e].at = ex[e].at
ExAway(e) == ex'[e].pc \notin {"dial", "upstream"}
ExMove(e) == ExKept(e) \/ ExAway(e) \/ (Inspect(e) /\ ex'[e].pc = "dial")
             \/ (Dial(e) /\ ex'[e].pc = "upstream")

\* One step of the handler keeps the types, and gets to "dial" and "upstream"
\* only by Inspect and Dial.
LEMMA HandlerEffect ==
  ASSUME RtT, ExT, NEW e \in Exchanges,
         ServeHTTP(e) \/ Inspect(e) \/ Dial(e) \/ Cancel(e) \/ HttpClose(e)
         \/ Upstream(e) \/ HttpHangUp(e)
  PROVE  ExT' /\ ExMove(e) /\ \A d \in Exchanges \ {e} : ex'[d] = ex[d]
<1>0. ex \in [Exchanges -> Exchange] /\ ex[e] \in Exchange
      /\ {"inspect", "closed", "dial", "upstream"} \subseteq ExPcs
  BY DEF ExT, ExPcs, InFlight
<1>a. ASSUME NEW code \in {200, 400, 502, 503}, NEW from \in Nat, Answer(e, code, from)
      PROVE  ExT' /\ ExMove(e) /\ \A d \in Exchanges \ {e} : ex'[d] = ex[d]
  BY <1>a, AnswerType DEF ExMove, ExAway
<1>p. ASSUME NEW pc \in {"inspect", "closed"}, ex' = [ex EXCEPT ![e].pc = pc]
      PROVE  ExT' /\ ExMove(e) /\ \A d \in Exchanges \ {e} : ex'[d] = ex[d]
  <2> DEFINE x == [ex[e] EXCEPT !.pc = pc]
  <2>1. x \in Exchange /\ x.pc = pc
    BY <1>0 DEF Exchange
  <2>2. ex' = [ex EXCEPT ![e] = x]
    BY <1>p
  <2>3. ex'[e] = x /\ \A d \in Exchanges \ {e} : ex'[d] = ex[d]
    BY <1>0, <2>2
  <2> HIDE DEF x
  <2>4. QED
    BY <2>1, <2>2, <2>3, ExSet DEF ExMove, ExAway
<1>1. CASE ServeHTTP(e)
  BY <1>a, <1>p, <1>1 DEF ServeHTTP
<1>2. CASE Inspect(e)
  <2> DEFINE r == ex[e].req
             bs == Labelled(Key(r))
             b == Newest(bs)
  <2>1. CASE Answer(e, 503, 0) \/ Answer(e, 502, 0)
    BY <1>a, <2>1
  <2>2. CASE ~(Answer(e, 503, 0) \/ Answer(e, 502, 0))
    <3>1. /\ bs # {} /\ b.state # "exited" /\ Port(r) \in DOMAIN b.ports
          /\ ex' = [ex EXCEPT ![e].pc = "dial", ![e].found = b.id, ![e].target = b.ports[Port(r)]]
      BY <1>2, <2>2 DEF Inspect
    <3>2. b \in BoxRecord
      BY <3>1, NewestFound DEF Labelled, RtT
    <3>3. b.ports[Port(r)] \in HostPorts
      <4>1. b.ports \in Ports
        BY <3>2 DEF BoxRecord
      <4>2. PICK P \in SUBSET Int : b.ports \in [P -> HostPorts]
        BY <4>1 DEF Ports
      <4>3. QED
        BY <3>1, <4>2
    <3>4. b.id \in Nat
      BY <3>2 DEF BoxRecord
    <3>5. PICK id \in Nat, h \in Targets : id = b.id /\ h = b.ports[Port(r)]
      BY <3>3, <3>4 DEF Targets
    <3> DEFINE x == [ex[e] EXCEPT !.pc = "dial", !.found = id, !.target = h]
    <3>6. x \in Exchange /\ x.pc = "dial"
      BY <1>0, <3>5 DEF Exchange
    <3>7. ex' = [ex EXCEPT ![e] = x]
      BY <3>1, <3>5
    <3>8. ex'[e] = x /\ \A d \in Exchanges \ {e} : ex'[d] = ex[d]
      BY <1>0, <3>7
    <3> HIDE DEF x, b, bs, r
    <3>9. QED
      BY <1>2, <3>6, <3>7, <3>8, ExSet DEF ExMove
  <2>3. QED
    BY <2>1, <2>2
<1>3. CASE Dial(e)
  <2>1. CASE Answer(e, 502, 0)
    BY <1>a, <2>1
  <2>2. CASE ~Answer(e, 502, 0)
    <3>1. PICK b \in boxes : ex' = [ex EXCEPT ![e].pc = "upstream", ![e].at = b.id]
      BY <1>3, <2>2 DEF Dial
    <3>2. b.id \in Nat
      BY <3>1 DEF RtT, BoxRecord
    <3> DEFINE x == [ex[e] EXCEPT !.pc = "upstream", !.at = b.id]
    <3>3. x \in Exchange /\ x.pc = "upstream"
      BY <1>0, <3>2 DEF Exchange
    <3>4. ex' = [ex EXCEPT ![e] = x]
      BY <3>1
    <3>5. ex'[e] = x /\ \A d \in Exchanges \ {e} : ex'[d] = ex[d]
      BY <1>0, <3>4
    <3> HIDE DEF x
    <3>6. QED
      BY <1>3, <3>3, <3>4, <3>5, ExSet DEF ExMove
  <2>3. QED
    BY <2>1, <2>2
<1>4. CASE Cancel(e)
  BY <1>a, <1>4 DEF Cancel
<1>5. CASE Upstream(e)
  <2>1. ex[e].at \in Nat
    BY <1>0 DEF Exchange
  <2>2. QED
    BY <1>a, <1>5, <2>1 DEF Upstream
<1>6. CASE HttpClose(e) \/ HttpHangUp(e)
  BY <1>p, <1>6 DEF HttpClose, HttpHangUp
<1>7. QED
  BY <1>1, <1>2, <1>3, <1>4, <1>5, <1>6

\* Every step keeps the types of the exchanges, and gets one to "dial" and
\* "upstream" only by Inspect and Dial.
LEMMA NextEx ==
  ASSUME RtT, ExT, [Next]_vars
  PROVE  ExT' /\ \A e \in Exchanges : ExMove(e)
<1>0. ex \in [Exchanges -> Exchange]
  BY DEF ExT
<1>u. CASE UNCHANGED ex
  BY <1>u DEF ExT, ExMove, ExKept
<1>1. ASSUME NEW e \in Exchanges,
             ServeHTTP(e) \/ Inspect(e) \/ Dial(e) \/ Cancel(e) \/ HttpClose(e)
             \/ Upstream(e) \/ HttpHangUp(e)
      PROVE  ExT' /\ \A d \in Exchanges : ExMove(d)
  BY <1>1, HandlerEffect DEF ExMove, ExKept
<1>2. ASSUME NEW s \in Exchanges, Write(s)
      PROVE  ExT' /\ \A d \in Exchanges : ExMove(d)
  <2>1. PICK r \in Asked : ex' = [ex EXCEPT ![s].req = r]
    BY <1>2 DEF Write, Asked
  <2> DEFINE x == [ex[s] EXCEPT !.req = r]
  <2>2. x \in Exchange /\ x.pc = ex[s].pc /\ x.code = ex[s].code
    BY <1>0 DEF Exchange
  <2>3. ex' = [ex EXCEPT ![s] = x] /\ ex[s].pc = "idle"
    BY <1>2, <2>1 DEF Write
  <2>4. ex'[s] = x /\ \A d \in Exchanges \ {s} : ex'[d] = ex[d]
    BY <1>0, <2>3
  <2> HIDE DEF x
  <2>5. ExMove(s)
    BY <2>2, <2>3, <2>4 DEF ExMove, ExAway
  <2>6. QED
    BY <2>2, <2>3, <2>4, <2>5, ExSet DEF ExMove, ExKept
<1>e. ASSUME NEW s \in Exchanges, ex' = [ex EXCEPT ![s].eof = TRUE]
      PROVE  ExT' /\ \A d \in Exchanges : ExMove(d)
  <2> DEFINE x == [ex[s] EXCEPT !.eof = TRUE]
  <2>2. /\ x \in Exchange /\ x.pc = ex[s].pc /\ x.code = ex[s].code /\ x.req = ex[s].req
        /\ x.found = ex[s].found /\ x.target = ex[s].target /\ x.at = ex[s].at
    BY <1>0 DEF Exchange
  <2>3. ex' = [ex EXCEPT ![s] = x]
    BY <1>e
  <2>4. ex'[s] = x /\ \A d \in Exchanges \ {s} : ex'[d] = ex[d]
    BY <1>0, <2>3
  <2>5. ex[s].pc = "answered" => ex[s].code # 0
    BY DEF ExT
  <2> HIDE DEF x
  <2>6. QED
    BY <2>2, <2>3, <2>4, <2>5, ExSet DEF ExMove, ExKept
<1>3. ASSUME NEW s \in Exchanges, CopyUp(s)
      PROVE  ExT' /\ \A d \in Exchanges : ExMove(d)
  <2>1. CASE ex' = [ex EXCEPT ![s].pc = IF @ = "idle" THEN "sent" ELSE @]
    <3> DEFINE x == [ex[s] EXCEPT !.pc = IF @ = "idle" THEN "sent" ELSE @]
    <3>0. "sent" \in ExPcs
      BY DEF ExPcs
    <3>1. /\ x \in Exchange /\ x.pc = (IF ex[s].pc = "idle" THEN "sent" ELSE ex[s].pc)
          /\ x.code = ex[s].code /\ x.req = ex[s].req
          /\ x.found = ex[s].found /\ x.target = ex[s].target /\ x.at = ex[s].at
      BY <1>0, <3>0 DEF Exchange
    <3>2. ex' = [ex EXCEPT ![s] = x]
      BY <2>1
    <3>3. ex'[s] = x /\ \A d \in Exchanges \ {s} : ex'[d] = ex[d]
      BY <1>0, <3>2
    <3>4. ex[s].pc = "answered" => ex[s].code # 0
      BY DEF ExT
    <3> HIDE DEF x
    <3>5. QED
      BY <3>1, <3>2, <3>3, <3>4, ExSet DEF ExMove, ExKept, ExAway
  <2>2. CASE ex' = [ex EXCEPT ![s] = CloseWrite(@)]
    BY <1>e, <2>2 DEF CloseWrite
  <2>3. QED
    BY <1>3, <2>1, <2>2 DEF CopyUp
<1>4. ASSUME NEW s \in Exchanges, Forward(s)
      PROVE  ExT' /\ \A d \in Exchanges : ExMove(d)
  BY <1>u, <1>e, <1>3, <1>4 DEF Forward, Bridge, DialRouter, CopyDown, Finish, rtVars
<1>5. CASE User
  BY <1>u, <1>2, <1>5 DEF rtVars, User, UserOp, Discover, Connect, OpenStream, EndStream, EndConnection
<1>6. CASE Naming \/ VRouter \/ Run \/ ControlPlane \/ UNCHANGED vars
  BY <1>u, <1>6
  DEF vars, rtVars, Naming, VRouter, Run, RunStream, RunReturn, Offer, ControlPlane, ToggleSandbox,
      StartBox, StopBox, ServeBox, ReportReady, Change, Quiet
<1>7. QED
  BY <1>1, <1>4, <1>5, <1>6 DEF Next, Handler, Upstreams

----------------------------------------------------------------------------
(* Port forwarding.                                                        *)

StreamRecord == [s : {"none", "sent", "queued", "held", "reset", "closed"}, head : Header,
                 eof : BOOLEAN, wrote : BOOLEAN, told : BOOLEAN, got : BOOLEAN]
ForwardRecord == [pc : {"none", "dial", "copy", "ended"}, error : Streams \cup {None},
                  up : BOOLEAN, down : BOOLEAN]
Pair == [data : Exchanges \cup {None}, error : Streams \cup {None}]
StT == st \in [Streams -> StreamRecord] /\ \A s \in Streams : st[s].head \in Headers[s] \cup {NoHeader}
FwT == fw \in [Exchanges -> ForwardRecord]
PairsT == pairs \in [RequestIDs -> Pair]
ConnT ==
  /\ conn \in {"none", "open", "closed"} /\ running \in BOOLEAN
  /\ streamChan \in Seq(Streams) /\ Len(streamChan) <= ChanCap
  /\ dialFails \in 0..MaxDialFails

\* The parts of PfT.
LEMMA PfParts == PfT <=> StT /\ FwT /\ PairsT /\ ConnT
  BY DEF PfT, PfTypeOK, StT, FwT, PairsT, ConnT, StreamRecord, ForwardRecord, Pair

\* One stream changes but for its header.
LEMMA StSet ==
  ASSUME StT, NEW s \in Streams, NEW x \in StreamRecord, x.head \in Headers[s] \cup {NoHeader},
         st' = [st EXCEPT ![s] = x]
  PROVE  StT'
  BY DEF StT

\* Every step keeps what the streams are.
LEMMA NextStreams ==
  ASSUME PfT, [Next]_vars
  PROVE  StT'
<1>0. StT /\ st \in [Streams -> StreamRecord] /\ Exchanges \subseteq Streams
  BY PfParts, StreamAssumption DEF StT
<1>h. \A s \in Streams : st[s].head \in Headers[s] \cup {NoHeader}
  BY PfParts DEF StT
<1>u. CASE UNCHANGED st
  BY <1>0, <1>u DEF StT
<1>s. ASSUME NEW s \in Streams, NEW v \in {"queued", "held", "reset"}, st' = [st EXCEPT ![s].s = v]
      PROVE  StT'
  <2> DEFINE x == [st[s] EXCEPT !.s = v]
  <2>1. x \in StreamRecord /\ x.head = st[s].head
    BY <1>0 DEF StreamRecord
  <2>2. st' = [st EXCEPT ![s] = x]
    BY <1>s
  <2> HIDE DEF x
  <2>3. QED
    BY <1>0, <1>h, <2>1, <2>2, StSet
<1>b. ASSUME NEW s \in Streams, NEW v \in BOOLEAN,
             \/ st' = [st EXCEPT ![s].wrote = v] \/ st' = [st EXCEPT ![s].eof = v]
             \/ st' = [st EXCEPT ![s].got = v]
      PROVE  StT'
  <2>1. ASSUME NEW x \in StreamRecord, x.head = st[s].head, st' = [st EXCEPT ![s] = x]
        PROVE  StT'
    BY <1>0, <1>h, <2>1, StSet
  <2>2. CASE st' = [st EXCEPT ![s].wrote = v]
    <3>1. [st[s] EXCEPT !.wrote = v] \in StreamRecord /\ [st[s] EXCEPT !.wrote = v].head = st[s].head
      BY <1>0 DEF StreamRecord
    <3>2. QED
      BY <2>1, <2>2, <3>1
  <2>3. CASE st' = [st EXCEPT ![s].eof = v]
    <3>1. [st[s] EXCEPT !.eof = v] \in StreamRecord /\ [st[s] EXCEPT !.eof = v].head = st[s].head
      BY <1>0 DEF StreamRecord
    <3>2. QED
      BY <2>1, <2>3, <3>1
  <2>4. CASE st' = [st EXCEPT ![s].got = v]
    <3>1. [st[s] EXCEPT !.got = v] \in StreamRecord /\ [st[s] EXCEPT !.got = v].head = st[s].head
      BY <1>0 DEF StreamRecord
    <3>2. QED
      BY <2>1, <2>4, <3>1
  <2>5. QED
    BY <1>b, <2>2, <2>3, <2>4
<1>e. ASSUME NEW s \in Exchanges, NEW told \in BOOLEAN, Ended(s, told)
      PROVE  StT'
  <2> DEFINE F(q) == CASE q = s -> [st[q] EXCEPT !.s = "closed"]
                       [] q = fw[s].error -> [st[q] EXCEPT !.s = "closed", !.told = told]
                       [] OTHER -> st[q]
  <2>1. ASSUME NEW q \in Streams
        PROVE  F(q) \in StreamRecord /\ F(q).head = st[q].head
    <3>1. st[q] \in StreamRecord
      BY <1>0
    <3>2. /\ [st[q] EXCEPT !.s = "closed"] \in StreamRecord
          /\ [st[q] EXCEPT !.s = "closed"].head = st[q].head
      BY <3>1 DEF StreamRecord
    <3>3. /\ [st[q] EXCEPT !.s = "closed", !.told = told] \in StreamRecord
          /\ [st[q] EXCEPT !.s = "closed", !.told = told].head = st[q].head
      BY <3>1 DEF StreamRecord
    <3>4. F(q) \in {[st[q] EXCEPT !.s = "closed"], st[q],
                    [st[q] EXCEPT !.s = "closed", !.told = told]}
      OBVIOUS
    <3> HIDE DEF F
    <3>5. QED
      BY <3>1, <3>2, <3>3, <3>4
  <2>2. st' = [q \in Streams |-> F(q)]
    BY <1>e DEF Ended
  <2> HIDE DEF F
  <2>3. st' \in [Streams -> StreamRecord] /\ \A q \in Streams : st'[q].head = st[q].head
    BY <2>1, <2>2
  <2>4. QED
    BY <1>h, <2>3 DEF StT
<1>1. ASSUME NEW s \in Streams, NEW h \in Headers[s], OpenStream(s, h)
      PROVE  StT'
  <2>1. h \in Header
    BY DataPlaneAssumption
  <2> DEFINE x == [st[s] EXCEPT !.s = "sent", !.head = h]
  <2>2. x \in StreamRecord /\ x.head = h
    BY <1>0, <2>1 DEF StreamRecord
  <2>3. st' = [st EXCEPT ![s] = x]
    BY <1>0, <1>1 DEF OpenStream, StreamRecord
  <2> HIDE DEF x
  <2>4. QED
    BY <1>0, <2>2, <2>3, StSet
<1>2. ASSUME NEW s \in Exchanges, Write(s) \/ EndStream(s)
      PROVE  StT'
  BY <1>0, <1>b, <1>2 DEF Write, EndStream
<1>3. CASE User
  BY <1>u, <1>1, <1>2, <1>3 DEF pfVars, User, UserOp, Discover, Connect, EndConnection
<1>4. CASE Run
  <2>1. ASSUME NEW s \in Streams, Offer(s)
        PROVE  StT'
    BY <1>s, <2>1 DEF Offer
  <2>2. CASE RunStream
    <3>1. Head(streamChan) \in Streams
      BY <2>2, PfParts DEF RunStream, ConnT
    <3>2. \E v \in {"held", "reset"} : st' = [st EXCEPT ![Head(streamChan)].s = v]
      BY <2>2 DEF RunStream, onStream
    <3>3. QED
      BY <1>s, <3>1, <3>2
  <2>3. QED
    BY <1>u, <1>4, <2>1, <2>2 DEF Run, RunReturn
<1>5. ASSUME NEW s \in Exchanges, Forward(s)
      PROVE  StT'
  <2>1. CASE DialRouter(s)
    BY <1>u, <1>e, <2>1 DEF DialRouter
  <2>2. CASE CopyUp(s) \/ CopyDown(s)
    BY <1>0, <1>u, <1>b, <2>2 DEF CopyUp, CopyDown
  <2>3. CASE Finish(s)
    BY <1>e, <2>3 DEF Finish
  <2>4. QED
    BY <1>5, <2>1, <2>2, <2>3 DEF Forward, Bridge
<1>6. CASE Naming \/ VRouter \/ ControlPlane \/ Upstreams \/ UNCHANGED vars
           \/ \E e \in Exchanges : Handler(e)
  BY <1>u, <1>6
  DEF vars, pfVars, Naming, VRouter, Upstreams, Handler, ControlPlane, ToggleSandbox, StartBox,
      StopBox, ServeBox, ReportReady, Change, Quiet
<1>7. QED
  BY <1>3, <1>4, <1>5, <1>6 DEF Next

\* onStream completes no pair but with a data stream that may be one.
LEMMA OnStreamType ==
  ASSUME PfT, NEW s \in Streams, onStream(s)
  PROVE  FwT' /\ PairsT'
<1>0. /\ st[s] \in StreamRecord /\ st[s].head \in Headers[s] \cup {NoHeader}
      /\ fw \in [Exchanges -> ForwardRecord] /\ pairs \in [RequestIDs -> Pair]
  BY PfParts DEF StT, FwT, PairsT
<1>1. CASE UNCHANGED <<pairs, fw>>
  BY <1>0, <1>1 DEF FwT, PairsT
<1> DEFINE h == st[s].head
           p == IF h.type = "error" THEN [PairOf(h.rid) EXCEPT !.error = s]
                                    ELSE [PairOf(h.rid) EXCEPT !.data = s]
           complete == p.data # None /\ p.error # None
<1>2. CASE h.rid # "" /\ h.type # "other"
  <2>1. h \in Header /\ h.rid \in RequestIDs /\ h.type \in {"data", "error"}
    BY <1>0, <1>2 DEF StreamRecord, Header
  <2>2. h.type = "data" => s \in Exchanges
    <3>1. NoHeader.type = "other"
      BY DEF NoHeader
    <3>2. QED
      BY <1>0, <1>2, <3>1, DataPlaneAssumption
  <2>3. PairOf(h.rid) \in Pair
    BY <1>0, <2>1 DEF PairOf
  <2>4. p \in Pair
    <3>1. CASE h.type = "error"
      <4>1. [PairOf(h.rid) EXCEPT !.error = s] \in Pair
        BY <2>3 DEF Pair
      <4>2. QED
        BY <3>1, <4>1
    <3>2. CASE h.type = "data"
      <4>1. [PairOf(h.rid) EXCEPT !.data = s] \in Pair
        BY <2>2, <2>3, <3>2 DEF Pair
      <4>2. QED
        BY <3>2, <4>1
    <3>3. QED
      BY <2>1, <3>1, <3>2
  <2>5. /\ pairs' = [pairs EXCEPT ![h.rid] = IF complete THEN NoPair ELSE p]
        /\ fw' = IF complete THEN [fw EXCEPT ![p.data] = [NoForward EXCEPT !.pc = "dial", !.error = p.error]]
                             ELSE fw
    BY <1>2 DEF onStream
  <2>6. NoPair \in Pair
    BY DEF NoPair, Pair
  <2> HIDE DEF p
  <2>7. PairsT'
    BY <1>0, <2>1, <2>4, <2>5, <2>6 DEF PairsT
  <2>8. FwT'
    <3>1. CASE complete
      <4>1. p.data \in Exchanges /\ p.error \in Streams
        BY <2>4, <3>1 DEF Pair
      <4>2. [NoForward EXCEPT !.pc = "dial", !.error = p.error] \in ForwardRecord
        BY <4>1 DEF NoForward, ForwardRecord
      <4>3. QED
        BY <1>0, <2>5, <3>1, <4>1, <4>2 DEF FwT
    <3>2. CASE ~complete
      BY <1>0, <2>5, <3>2 DEF FwT
    <3>3. QED
      BY <3>1, <3>2
  <2>9. QED
    BY <2>7, <2>8
<1>3. QED
  BY <1>1, <1>2 DEF onStream

\* Every step keeps what the forwards and the pairs are.
LEMMA NextForwards ==
  ASSUME PfT, [Next]_vars
  PROVE  FwT' /\ PairsT'
<1>0. FwT /\ PairsT /\ fw \in [Exchanges -> ForwardRecord]
  BY PfParts DEF FwT
<1>u. CASE UNCHANGED <<pairs, fw>>
  BY <1>0, <1>u DEF FwT, PairsT
<1>1. CASE RunStream
  <2>1. Head(streamChan) \in Streams
    BY <1>1, PfParts DEF RunStream, ConnT
  <2>2. QED
    BY <1>1, <2>1, OnStreamType DEF RunStream
<1>f. ASSUME NEW s \in Exchanges, NEW x \in ForwardRecord, fw' = [fw EXCEPT ![s] = x], UNCHANGED pairs
      PROVE  FwT' /\ PairsT'
  BY <1>0, <1>f DEF FwT, PairsT
<1>2. ASSUME NEW s \in Exchanges, Forward(s)
      PROVE  FwT' /\ PairsT'
  <2>0. fw[s] \in ForwardRecord /\ UNCHANGED pairs
    BY <1>0, <1>2 DEF Forward, Bridge, DialRouter, CopyUp, CopyDown, Finish
  <2>1. CASE fw' = [fw EXCEPT ![s].pc = "ended"]
    <3>1. [fw[s] EXCEPT !.pc = "ended"] \in ForwardRecord
      BY <2>0 DEF ForwardRecord
    <3>2. QED
      BY <1>f, <2>0, <2>1, <3>1
  <2>2. CASE fw' = [fw EXCEPT ![s].pc = "copy", ![s].up = TRUE, ![s].down = TRUE]
    <3>1. [fw[s] EXCEPT !.pc = "copy", !.up = TRUE, !.down = TRUE] \in ForwardRecord
      BY <2>0 DEF ForwardRecord
    <3>2. fw' = [fw EXCEPT ![s] = [fw[s] EXCEPT !.pc = "copy", !.up = TRUE, !.down = TRUE]]
      BY <1>0, <2>0, <2>2 DEF ForwardRecord
    <3>3. QED
      BY <1>f, <2>0, <3>1, <3>2
  <2>3. CASE fw' = [fw EXCEPT ![s].up = FALSE]
    <3>1. [fw[s] EXCEPT !.up = FALSE] \in ForwardRecord
      BY <2>0 DEF ForwardRecord
    <3>2. QED
      BY <1>f, <2>0, <2>3, <3>1
  <2>4. CASE fw' = [fw EXCEPT ![s].down = FALSE]
    <3>1. [fw[s] EXCEPT !.down = FALSE] \in ForwardRecord
      BY <2>0 DEF ForwardRecord
    <3>2. QED
      BY <1>f, <2>0, <2>4, <3>1
  <2>5. QED
    BY <1>u, <1>2, <2>0, <2>1, <2>2, <2>3, <2>4
    DEF Forward, Bridge, DialRouter, CopyUp, CopyDown, Finish, Ended
<1>3. CASE User
  BY <1>u, <1>3 DEF pfVars, User, UserOp, Discover, Connect, OpenStream, Write, EndStream, EndConnection
<1>4. CASE Run
  BY <1>u, <1>1, <1>4 DEF Run, RunReturn, Offer
<1>5. CASE Naming \/ VRouter \/ ControlPlane \/ Upstreams \/ UNCHANGED vars
           \/ \E e \in Exchanges : Handler(e)
  BY <1>u, <1>5
  DEF vars, pfVars, Naming, VRouter, Upstreams, Handler, ControlPlane, ToggleSandbox, StartBox,
      StopBox, ServeBox, ReportReady, Change, Quiet
<1>6. QED
  BY <1>2, <1>3, <1>4, <1>5 DEF Next

\* Every step keeps the connection and its channel, and the bound on changes.
LEMMA NextConn ==
  ASSUME PfT, ops \in 0..MaxOps, [Next]_vars
  PROVE  ConnT' /\ ops' \in 0..MaxOps
<1>0. /\ ConnT /\ ops \in 0..MaxOps /\ MaxOps \in Nat /\ MaxChanges \in 0..MaxOps
      /\ MaxDialFails \in Nat
  BY PfParts, DataPlaneAssumption, StreamAssumption
<1>c. /\ conn \in {"none", "open", "closed"} /\ running \in BOOLEAN
      /\ streamChan \in Seq(Streams) /\ Len(streamChan) <= 1
      /\ dialFails \in 0..MaxDialFails
  BY <1>0 DEF ConnT, ChanCap
<1>o. ASSUME NEW m \in 0..MaxOps, Op(m)
      PROVE  ops' \in 0..MaxOps
  BY <1>0, <1>o DEF Op
<1>1. ops' \in 0..MaxOps
  <2>1. CASE User
    <3>1. CASE \E ns \in Namespaces : UserOp(CreateIn(ns)) \/ UserOp(DeleteNamespace(ns))
      BY <1>0, <1>o, <3>1 DEF UserOp
    <3>2. CASE UNCHANGED ops
      BY <1>0, <3>2
    <3>3. CASE ops' = MaxChanges
      BY <1>0, <3>3
    <3>4. QED
      BY <2>1, <3>1, <3>2, <3>3 DEF User, Rest
  <2>2. CASE ControlPlane
    BY <1>0, <1>o, <2>2
    DEF ControlPlane, ToggleSandbox, StartBox, StopBox, ServeBox, ReportReady, Change, Quiet
  <2>3. CASE UNCHANGED ops
    BY <1>0, <2>3
  <2>4. QED
    BY <2>1, <2>2, <2>3 DEF Next, vars, Naming, VRouter, Run, Upstreams, Handler, Forward, Rest
<1>2. ConnT'
  <2>u. CASE UNCHANGED <<conn, running, streamChan, dialFails>>
    BY <1>0, <2>u DEF ConnT
  <2>1. ASSUME NEW s \in Streams, Offer(s)
        PROVE  ConnT'
    <3>1. streamChan' = Append(streamChan, s) /\ Len(streamChan) < 1
      BY <2>1 DEF Offer, ChanCap
    <3>2. streamChan' \in Seq(Streams) /\ Len(streamChan') <= 1
      BY <1>c, <3>1
    <3>3. QED
      BY <1>c, <2>1, <3>2 DEF Offer, ConnT, ChanCap
  <2>2. CASE RunStream
    <3>1. streamChan' = Tail(streamChan) /\ streamChan # <<>>
      BY <2>2 DEF RunStream
    <3>2. streamChan' \in Seq(Streams) /\ Len(streamChan') <= 1
      BY <1>c, <3>1
    <3>3. QED
      BY <1>c, <2>2, <3>2 DEF RunStream, ConnT, ChanCap
  <2>3. CASE RunReturn
    BY <1>c, <2>3 DEF RunReturn, ConnT, ChanCap
  <2>4. CASE User
    <3>1. CASE Connect
      BY <1>c, <3>1 DEF Connect, ConnT, ChanCap
    <3>2. CASE EndConnection
      BY <1>c, <3>2 DEF EndConnection, ConnT, ChanCap
    <3>3. QED
      BY <2>u, <2>4, <3>1, <3>2 DEF pfVars, User, UserOp, Discover, OpenStream, Write, EndStream
  <2>5. ASSUME NEW s \in Exchanges, Forward(s)
        PROVE  ConnT'
    <3>1. CASE dialFails < MaxDialFails /\ dialFails' = dialFails + 1
               /\ UNCHANGED <<conn, running, streamChan>>
      BY <1>0, <1>c, <3>1 DEF ConnT, ChanCap
    <3>2. QED
      BY <2>u, <2>5, <3>1 DEF Forward, Bridge, DialRouter, CopyUp, CopyDown, Finish
  <2>6. CASE Naming \/ VRouter \/ ControlPlane \/ Upstreams \/ UNCHANGED vars
             \/ \E e \in Exchanges : Handler(e)
    BY <2>u, <2>6
    DEF vars, pfVars, Naming, VRouter, Upstreams, Handler, ControlPlane, ToggleSandbox, StartBox,
        StopBox, ServeBox, ReportReady, Change, Quiet
  <2>7. QED
    BY <2>1, <2>2, <2>3, <2>4, <2>5, <2>6 DEF Next, Run
<1>3. QED
  BY <1>1, <1>2

----------------------------------------------------------------------------
(* The beginning.                                                          *)

\* the choices of RtInit
IdOf == CHOOSE g \in [Survivors -> 1..Cardinality(Survivors)] :
          \A k, l \in Survivors : g[k] = g[l] => k = l
HostOf == CHOOSE g \in [Survivors -> HostPorts] : \A k, l \in Survivors : g[k] = g[l] => k = l

\* The containers that survived have ids and host ports of their own.
LEMMA Chosen ==
  /\ IdOf \in [Survivors -> 1..Cardinality(Survivors)]
  /\ HostOf \in [Survivors -> HostPorts]
  /\ \A k, l \in Survivors : IdOf[k] = IdOf[l] \/ HostOf[k] = HostOf[l] => k = l
  /\ Cardinality(Survivors) \in Nat
<1> DEFINE n == Cardinality(Survivors)
<1>1. IsFiniteSet(Survivors)
  BY SurvivorAssumption
<1>2. n \in Nat /\ ExistsBijection(1..n, Survivors)
  BY <1>1, FS_CardinalityType
<1>3. PICK g : g \in Bijection(Survivors, 1..n)
  <2>1. ExistsBijection(Survivors, 1..n)
    BY <1>2, Fun_ExistsBijSymmetric
  <2>2. QED
    BY <2>1 DEF ExistsBijection
<1>4. g \in [Survivors -> 1..n] /\ \A k, l \in Survivors : g[k] = g[l] => k = l
  BY <1>3 DEF Bijection, Injection, Surjection, IsInjective
<1>5. IdOf \in [Survivors -> 1..n] /\ \A k, l \in Survivors : IdOf[k] = IdOf[l] => k = l
  BY <1>4 DEF IdOf
<1>6. HostOf \in [Survivors -> HostPorts] /\ \A k, l \in Survivors : HostOf[k] = HostOf[l] => k = l
  BY SurvivorAssumption DEF HostOf
<1>7. QED
  BY <1>2, <1>5, <1>6

\* a container that survived
OldBox(k) == [id |-> IdOf[k], key |-> k, state |-> "serving",
              ports |-> [p \in {ServerPort} |-> HostOf[k]]]

\* The types hold at the beginning.
LEMMA InitType ==
  ASSUME Init
  PROVE  TypeInv /\ boxes = {OldBox(k) : k \in Survivors} /\ \A e \in Exchanges : ex[e].pc = "idle"
<1>1. VrTypeOK
  <2>1. Ensuring("default", Default) \in VrThread
    BY NamespaceAssumption DEF Ensuring, VrThread, Stage, Virtual
  <2>2. nsWatch = [st |-> "none", first |-> {}, ch |-> <<>>]
    BY DEF Init, VrInit
  <2>3. nsWatch \in NsWatch /\ Len(nsWatch.ch) <= NsChan
    BY <2>2, NamespaceAssumption DEF NsWatch
  <2>4. QED
    BY <2>1, <2>3 DEF Init, VrInit, VrTypeOK
<1>2. boxes = {OldBox(k) : k \in Survivors}
  BY DEF Init, RtInit, OldBox, IdOf, HostOf
<1>3. RtT
  <2>1. \A k \in Survivors : OldBox(k) \in BoxRecord /\ OldBox(k).id \in 1..Cardinality(Survivors)
    <3> SUFFICES ASSUME NEW k \in Survivors
                 PROVE  OldBox(k) \in BoxRecord /\ OldBox(k).id \in 1..Cardinality(Survivors)
      OBVIOUS
    <3>1. IdOf[k] \in 1..Cardinality(Survivors) /\ IdOf[k] \in Nat /\ HostOf[k] \in HostPorts
          /\ k \in SandboxKeys
      BY Chosen, SurvivorAssumption
    <3>2. [p \in {ServerPort} |-> HostOf[k]] \in Ports
      <4>1. {ServerPort} \in SUBSET Int
        BY DEF ServerPort
      <4>2. [p \in {ServerPort} |-> HostOf[k]] \in [{ServerPort} -> HostPorts]
        BY <3>1
      <4>3. QED
        BY <4>1, <4>2 DEF Ports
    <3>3. QED
      BY <3>1, <3>2 DEF OldBox, BoxRecord
  <2>2. UniqueBoxes
    <3>1. \A k, l \in Survivors : OldBox(k).id = OldBox(l).id \/ OldBox(k).key = OldBox(l).key => k = l
      BY Chosen DEF OldBox
    <3>2. QED
      BY <1>2, <3>1 DEF UniqueBoxes
  <2>3. lastBox = Cardinality(Survivors)
        /\ ready = [k \in SandboxKeys |-> IF k \in Survivors THEN "ready" ELSE "unready"]
    BY DEF Init, RtInit
  <2>4. QED
    BY <1>2, <2>1, <2>2, <2>3, Chosen DEF RtT
<1>4. ExT /\ \A e \in Exchanges : ex[e].pc = "idle"
  <2>1. NoExchange \in Exchange /\ NoExchange.pc = "idle"
    BY DEF NoExchange, Exchange, ExPcs, Asked, Targets, Codes
  <2>2. ex = [e \in Exchanges |-> NoExchange]
    BY DEF Init, RtInit
  <2>3. QED
    BY <2>1, <2>2 DEF ExT
<1>5. PfT
  <2>1. NoStream \in StreamRecord /\ NoStream.head = NoHeader
    BY DEF NoStream, StreamRecord, NoHeader, Header
  <2>2. NoForward \in ForwardRecord /\ NoPair \in Pair
    BY DEF NoForward, ForwardRecord, NoPair, Pair
  <2>3. StT /\ FwT /\ PairsT
    BY <2>1, <2>2 DEF Init, PfInit, StT, FwT, PairsT
  <2>4. ConnT
    <3>1. conn = "none" /\ running = FALSE /\ streamChan = <<>> /\ dialFails = 0 /\ MaxDialFails \in Nat
      BY StreamAssumption DEF Init, PfInit
    <3>2. <<>> \in Seq(Streams) /\ Len(<<>>) <= 1
      OBVIOUS
    <3>3. dialFails \in 0..MaxDialFails
      BY <3>1
    <3>6. running \in BOOLEAN
      BY <3>1, Zenon
    <3>4. streamChan \in Seq(Streams) /\ Len(streamChan) <= 1
      BY <3>1, <3>2
    <3>5. conn \in {"none", "open", "closed"}
      BY <3>1
    <3>7. QED
      BY <3>3, <3>4, <3>5, <3>6 DEF ConnT, ChanCap
  <2>5. QED
    BY <2>3, <2>4, PfParts
<1>6. ops \in 0..MaxOps
  BY DataPlaneAssumption DEF Init
<1>7. QED
  BY <1>1, <1>2, <1>3, <1>4, <1>5, <1>6 DEF TypeInv

\* Every step keeps the types.
LEMMA NextType ==
  ASSUME TypeInv, [Next]_vars
  PROVE  TypeInv'
<1>1. VrTypeOK /\ RtT /\ ExT /\ PfT /\ ops \in 0..MaxOps
  BY DEF TypeInv
<1>2. VrTypeOK' /\ RtT' /\ ExT'
  BY <1>1, NextVr, NextRt, NextEx
<1>3. PfT'
  <2>1. StT' /\ FwT' /\ PairsT' /\ ConnT'
    BY <1>1, NextStreams, NextForwards, NextConn
  <2>2. QED
    BY <2>1 DEF PfT, PfTypeOK, StT, FwT, PairsT, ConnT, StreamRecord, ForwardRecord, Pair
<1>4. QED
  BY <1>1, <1>2, <1>3, NextConn DEF TypeInv

\* The types of the data plane hold in every state: a container's host ports,
\* the codes of answers, channels within their capacities, and forwards that
\* are bridged to a data stream only (Resolve, connHandler, startVirtualRouter).
THEOREM DataPlaneTypeCorrect == Spec => []TypeOK
<1>1. Init => TypeInv
  BY InitType
<1>2. TypeInv /\ [Next]_vars => TypeInv'
  BY NextType
<1>3. TypeInv => TypeOK
  <2> SUFFICES ASSUME TypeInv
               PROVE  TypeOK
    OBVIOUS
  <2>1. ASSUME NEW b \in boxes
        PROVE  Box(b)
    <3>1. b \in BoxRecord /\ b.id \in 1..lastBox
      BY DEF TypeInv, RtT
    <3>2. b.ports \in Ports
      BY <3>1 DEF BoxRecord
    <3>3. PICK P \in SUBSET Int : b.ports \in [P -> HostPorts]
      BY <3>2 DEF Ports
    <3>4. DOMAIN b.ports \subseteq Int /\ \A p \in DOMAIN b.ports : b.ports[p] \in HostPorts
      BY <3>3
    <3>5. QED
      BY <3>1, <3>4 DEF Box, BoxRecord
  <2>2. ASSUME NEW e \in Exchanges
        PROVE  /\ ex[e].pc \in ExPcs /\ ex[e].code \in Codes
               /\ ex[e].pc = "answered" => ex[e].code # 0
    BY DEF TypeInv, ExT, Exchange
  <2>3. RtTypeOK
    BY <2>1, <2>2 DEF TypeInv, RtT, RtTypeOK, ExPcs, Codes
  <2>4. QED
    BY <2>3 DEF TypeInv, PfT, TypeOK
<1>4. QED
  BY <1>1, <1>2, <1>3, PTL DEF Spec

----------------------------------------------------------------------------
(* Requests and the containers they reach.                                 *)

\* running containers share no host port
PortsApart ==
  \A a, b \in boxes : \A p \in DOMAIN a.ports, q \in DOMAIN b.ports :
    a.state # "exited" /\ b.state # "exited" /\ a.ports[p] = b.ports[q] => a = b

\* until it is dialled, the host port is that of the container that was found
FoundInv(e) ==
  ex[e].pc = "dial" =>
    /\ ex[e].found <= lastBox
    /\ \A b \in boxes : b.id = ex[e].found =>
         b.key = Key(ex[e].req) /\ (b.state # "exited" => Publishes(b, ex[e].target))

\* ... and then the container that was dialled is the right one, or the one
\* that was found has ended; a later container has a later id
ReachedInv(e) ==
  ex[e].pc = "upstream" =>
    /\ ex[e].found <= lastBox /\ ex[e].at <= lastBox
    /\ \/ \A b \in boxes : b.id = ex[e].at => b.key = Key(ex[e].req)
       \/ \A b \in boxes : b.id = ex[e].found => b.state = "exited"

RouteInv == PortsApart /\ \A e \in Exchanges : FoundInv(e) /\ ReachedInv(e)

\* No step gives a running container's host port to another one.
LEMMA NextPortsApart ==
  ASSUME RtT, PortsApart, [Next]_vars
  PROVE  PortsApart'
<1>0. UniqueBoxes' /\ UniqueBoxes /\ boxes \subseteq BoxRecord
  BY NextRt DEF RtT
<1>1. CASE BoxKept
  <2> SUFFICES ASSUME NEW a \in boxes', NEW b \in boxes', NEW p \in DOMAIN a.ports,
                      NEW q \in DOMAIN b.ports, a.state # "exited", b.state # "exited",
                      a.ports[p] = b.ports[q]
               PROVE  a = b
    BY DEF PortsApart
  <2>1. PICK c \in boxes : c.id = a.id /\ c.ports = a.ports /\ c.state # "exited"
    BY <1>1 DEF BoxKept
  <2>2. PICK d \in boxes : d.id = b.id /\ d.ports = b.ports /\ d.state # "exited"
    BY <1>1 DEF BoxKept
  <2>3. c = d
    BY <2>1, <2>2 DEF PortsApart
  <2>4. QED
    BY <1>0, <2>1, <2>2, <2>3 DEF UniqueBoxes
<1>2. ASSUME NEW k \in SandboxKeys, StartBox(k)
      PROVE  PortsApart'
  <2>1. PICK f \in [Published[k] -> HostPorts \ Taken] :
          NewBox(k, f) \in BoxRecord /\ boxes' = boxes \cup {NewBox(k, f)}
    BY <1>2, StartEffect
  <2> DEFINE n == NewBox(k, f)
  <2>2. n.ports = f /\ \A p \in DOMAIN n.ports : n.ports[p] \notin Taken
    BY <2>1 DEF NewBox
  <2>3. \A b \in boxes : b.state # "exited" => \A q \in DOMAIN b.ports : b.ports[q] \in Taken
    BY DEF Taken
  <2>4. boxes' = boxes \cup {n}
    BY <2>1
  <2> HIDE DEF n
  <2>5. QED
    BY <2>2, <2>3, <2>4 DEF PortsApart
<1>3. QED
  BY <1>1, <1>2, BoxEffect

\* A step that leaves an exchange alone keeps its part of the invariant,
\* whatever it does to containers.
LEMMA KeptRoute ==
  ASSUME RtT, NEW e \in Exchanges, FoundInv(e), ReachedInv(e), ExKept(e), ex[e] \in Exchange,
         BoxKept \/ \E k \in SandboxKeys : StartBox(k)
  PROVE  FoundInv(e)' /\ ReachedInv(e)'
<1>0. lastBox \in Nat /\ ex[e].found \in Nat /\ ex[e].at \in Nat
  BY DEF RtT, Exchange
<1>k. ex'[e].pc = ex[e].pc /\ ex'[e].req = ex[e].req /\ ex'[e].found = ex[e].found
      /\ ex'[e].target = ex[e].target /\ ex'[e].at = ex[e].at
  BY DEF ExKept
<1>1. ASSUME BoxKept
      PROVE  FoundInv(e)' /\ ReachedInv(e)'
  <2>1. lastBox' = lastBox
    BY <1>1 DEF BoxKept
  <2>2. FoundInv(e)'
    <3> SUFFICES ASSUME ex[e].pc = "dial"
                 PROVE  /\ ex[e].found <= lastBox
                        /\ \A b \in boxes' : b.id = ex[e].found =>
                             b.key = Key(ex[e].req) /\ (b.state # "exited" => Publishes(b, ex[e].target))
      BY <1>k, <2>1 DEF FoundInv, Publishes
    <3>1. ASSUME NEW b \in boxes', b.id = ex[e].found
          PROVE  b.key = Key(ex[e].req) /\ (b.state # "exited" => Publishes(b, ex[e].target))
      <4>1. PICK c \in boxes : /\ c.id = b.id /\ c.key = b.key /\ c.ports = b.ports
                               /\ c.state = "exited" => b.state = "exited"
        BY <1>1 DEF BoxKept
      <4>2. c.key = Key(ex[e].req) /\ (c.state # "exited" => Publishes(c, ex[e].target))
        BY <3>1, <4>1 DEF FoundInv
      <4>3. QED
        BY <4>1, <4>2 DEF Publishes
    <3>2. QED
      BY <3>1 DEF FoundInv
  <2>3. ReachedInv(e)'
    <3> SUFFICES ASSUME ex[e].pc = "upstream"
                 PROVE  \/ \A b \in boxes' : b.id = ex[e].at => b.key = Key(ex[e].req)
                        \/ \A b \in boxes' : b.id = ex[e].found => b.state = "exited"
      BY <1>k, <2>1 DEF ReachedInv
    <3>1. CASE \A b \in boxes : b.id = ex[e].at => b.key = Key(ex[e].req)
      BY <1>1, <3>1 DEF BoxKept
    <3>2. CASE \A b \in boxes : b.id = ex[e].found => b.state = "exited"
      BY <1>1, <3>2 DEF BoxKept
    <3>3. QED
      BY <3>1, <3>2 DEF ReachedInv
  <2>4. QED
    BY <2>2, <2>3
<1>2. ASSUME NEW k \in SandboxKeys, StartBox(k)
      PROVE  FoundInv(e)' /\ ReachedInv(e)'
  <2>1. PICK f : boxes' = boxes \cup {NewBox(k, f)}
    BY <1>2, StartEffect
  <2>2. NewBox(k, f).id = lastBox + 1 /\ lastBox' = lastBox + 1
    BY <1>2, StartEffect DEF NewBox
  <2>3. ASSUME NEW i \in Nat, i <= lastBox, NEW b \in boxes', b.id = i
        PROVE  b \in boxes
    BY <1>0, <2>1, <2>2, <2>3
  <2>4. FoundInv(e)'
    BY <1>0, <1>k, <2>2, <2>3 DEF FoundInv, Publishes
  <2>5. ReachedInv(e)'
    BY <1>0, <1>k, <2>2, <2>3 DEF ReachedInv
  <2>6. QED
    BY <2>4, <2>5
<1>3. QED
  BY <1>1, <1>2

\* Inspect reads the host port from a container of the request's sandbox.
LEMMA InspectRoute ==
  ASSUME RtT, ExT, NEW e \in Exchanges, Inspect(e), ex'[e].pc = "dial"
  PROVE  FoundInv(e)' /\ ReachedInv(e)'
<1> DEFINE r == ex[e].req
           bs == Labelled(Key(r))
           b == Newest(bs)
<1>0. ex \in [Exchanges -> Exchange] /\ ex[e] \in Exchange /\ UNCHANGED <<boxes, lastBox>>
  BY DEF ExT, Inspect
<1>1. /\ bs # {} /\ b.state # "exited" /\ Port(r) \in DOMAIN b.ports
      /\ ex' = [ex EXCEPT ![e].pc = "dial", ![e].found = b.id, ![e].target = b.ports[Port(r)]]
  <2>1. ~Answer(e, 503, 0) /\ ~Answer(e, 502, 0)
    BY AnswerType
  <2>2. QED
    BY <2>1 DEF Inspect
<1>2. b \in boxes /\ b.key = Key(r)
  <2>1. b \in bs
    BY <1>1, NewestFound
  <2>2. QED
    BY <2>1 DEF Labelled
<1>3. b.id \in 1..lastBox /\ lastBox \in Nat
  BY <1>2 DEF RtT
<1>4. ex'[e].req = r /\ ex'[e].found = b.id /\ ex'[e].target = b.ports[Port(r)]
  BY <1>0, <1>1 DEF Exchange
<1>5. Publishes(b, b.ports[Port(r)])
  BY <1>1 DEF Publishes
<1>6. \A c \in boxes : c.id = b.id => c = b
  BY <1>2 DEF RtT, UniqueBoxes
<1> HIDE DEF b, bs, r
<1>7. ASSUME NEW c \in boxes', c.id = ex'[e].found
      PROVE  c.key = Key(ex'[e].req) /\ (c.state # "exited" => Publishes(c, ex'[e].target))
  BY <1>0, <1>2, <1>4, <1>5, <1>6, <1>7
<1>8. ex'[e].found <= lastBox'
  BY <1>0, <1>3, <1>4
<1>9. FoundInv(e)'
  BY <1>7, <1>8 DEF FoundInv, Publishes
<1>10. ReachedInv(e)'
  BY DEF ReachedInv
<1>11. QED
  BY <1>9, <1>10

\* Dial reaches the container that was found, as long as that one runs.
LEMMA DialRoute ==
  ASSUME RtT, ExT, PortsApart, NEW e \in Exchanges, FoundInv(e), Dial(e), ex'[e].pc = "upstream"
  PROVE  FoundInv(e)' /\ ReachedInv(e)'
<1>0. ex \in [Exchanges -> Exchange] /\ ex[e] \in Exchange /\ UNCHANGED <<boxes, lastBox>>
      /\ ex[e].pc = "dial"
  BY DEF ExT, Dial
<1>1. PICK b \in boxes : /\ Publishes(b, ex[e].target)
                         /\ ex' = [ex EXCEPT ![e].pc = "upstream", ![e].at = b.id]
  <2>1. ~Answer(e, 502, 0)
    BY AnswerType
  <2>2. QED
    BY <2>1 DEF Dial
<1>2. ex'[e].req = ex[e].req /\ ex'[e].found = ex[e].found /\ ex'[e].at = b.id
  BY <1>0, <1>1 DEF Exchange
<1>3. b.id \in 1..lastBox /\ lastBox \in Nat /\ ex[e].found <= lastBox
  BY <1>0, <1>1 DEF RtT, FoundInv
<1>4. ASSUME NEW c \in boxes, c.id = ex[e].found, c.state # "exited"
      PROVE  b.key = Key(ex[e].req)
  <2>1. c.key = Key(ex[e].req) /\ Publishes(c, ex[e].target)
    BY <1>0, <1>4 DEF FoundInv
  <2>2. c = b
    BY <1>1, <2>1 DEF Publishes, PortsApart
  <2>3. QED
    BY <2>1, <2>2
<1>5. \A c \in boxes : c.id = b.id => c = b
  BY <1>1 DEF RtT, UniqueBoxes
<1>6. ex'[e].found <= lastBox' /\ ex'[e].at <= lastBox'
  BY <1>0, <1>2, <1>3
<1>7. \/ \A c \in boxes' : c.id = ex'[e].at => c.key = Key(ex'[e].req)
      \/ \A c \in boxes' : c.id = ex'[e].found => c.state = "exited"
  BY <1>0, <1>2, <1>4, <1>5
<1>8. ReachedInv(e)'
  BY <1>6, <1>7 DEF ReachedInv
<1>9. FoundInv(e)'
  BY DEF FoundInv
<1>10. QED
  BY <1>8, <1>9

\* Every step keeps the invariant of the routes.
LEMMA NextRoute ==
  ASSUME RtT, ExT, RouteInv, [Next]_vars
  PROVE  RouteInv'
<1>1. PortsApart'
  BY NextPortsApart DEF RouteInv
<1>2. BoxKept \/ \E k \in SandboxKeys : StartBox(k)
  BY BoxEffect
<1>3. ASSUME NEW e \in Exchanges
      PROVE  FoundInv(e)' /\ ReachedInv(e)'
  <2>0. FoundInv(e) /\ ReachedInv(e) /\ PortsApart /\ ex[e] \in Exchange
    BY DEF RouteInv, ExT
  <2>1. CASE ExKept(e)
    BY <1>2, <2>0, <2>1, KeptRoute
  <2>2. CASE ExAway(e)
    BY <2>2 DEF ExAway, FoundInv, ReachedInv
  <2>3. CASE Inspect(e) /\ ex'[e].pc = "dial"
    BY <2>3, InspectRoute
  <2>4. CASE Dial(e) /\ ex'[e].pc = "upstream"
    BY <2>0, <2>4, DialRoute
  <2>5. QED
    BY <2>1, <2>2, <2>3, <2>4, NextEx DEF ExMove
<1>4. QED
  BY <1>1, <1>3 DEF RouteInv

\* The routes at the beginning: the containers that survived share no port.
LEMMA InitRoute ==
  ASSUME Init
  PROVE  RouteInv
<1>1. boxes = {OldBox(k) : k \in Survivors} /\ \A e \in Exchanges : ex[e].pc = "idle"
  BY InitType
<1>2. ASSUME NEW k \in Survivors, NEW l \in Survivors, NEW p \in DOMAIN OldBox(k).ports,
             NEW q \in DOMAIN OldBox(l).ports, OldBox(k).ports[p] = OldBox(l).ports[q]
      PROVE  OldBox(k) = OldBox(l)
  <2>1. OldBox(k).ports[p] = HostOf[k] /\ OldBox(l).ports[q] = HostOf[l]
    BY <1>2 DEF OldBox
  <2>2. k = l
    BY <1>2, <2>1, Chosen
  <2>3. QED
    BY <2>2
<1>3. PortsApart
  BY <1>1, <1>2 DEF PortsApart
<1>4. QED
  BY <1>1, <1>3 DEF RouteInv, FoundInv, ReachedInv

\* A request reaches no container but its sandbox's, although containers end
\* and host ports are given out again between InspectSandbox and the dial, as
\* long as the container that InspectSandbox returned still runs; for any
\* number of sandboxes, requests and ports (Resolve, InspectSandbox, ServeHTTP).
THEOREM RequestsReachTheirSandbox == Spec => []NoCrossTalk
<1>1. Init => TypeInv /\ RouteInv
  BY InitType, InitRoute
<1>2. TypeInv /\ RouteInv /\ [Next]_vars => (TypeInv /\ RouteInv)'
  BY NextType, NextRoute DEF TypeInv
<1>3. RouteInv => NoCrossTalk
  BY DEF RouteInv, ReachedInv, NoCrossTalk
<1>4. QED
  BY <1>1, <1>2, <1>3, PTL DEF Spec
=============================================================================

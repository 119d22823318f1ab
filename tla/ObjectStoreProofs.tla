------------------------- MODULE ObjectStoreProofs -------------------------
(***************************************************************************)
(* Theorems about ObjectStore, for every number of types, names, writers   *)
(* and watchers, every history and channel capacity, and every sequence of *)
(* writes and faults.                                                      *)
(***************************************************************************)
EXTENDS ObjectStore, FiniteSetTheorems, TLAPS

----------------------------------------------------------------------------
(* Types of what the store's helpers return.                               *)

\* nextRV stamps an object: it stays an object.
LEMMA StampType ==
  ASSUME NEW o \in Object, NEW r \in Nat
  PROVE  [o EXCEPT !.rv = r] \in Object
  BY DEF Object

\* What a writer makes of the copy it holds is an object.
LEMMA EditsType ==
  ASSUME NEW o \in Object, NEW x \in Edits(o)
  PROVE  x \in Object
  BY DEF Object, Edits

\* mergeForUpdate of two objects is an object.
LEMMA MergeType ==
  ASSUME NEW old \in Object, NEW incoming \in Object, NEW isStatus \in BOOLEAN
  PROVE  mergeForUpdate(old, incoming, isStatus) \in Object
<1>1. [old EXCEPT !.status = incoming.status] \in Object
  BY DEF Object
<1>2. ASSUME NEW k \in Nat
      PROVE  [incoming EXCEPT !.uid = old.uid, !.status = old.status, !.gen = k] \in Object
  BY DEF Object
<1>3. (IF old.spec = incoming.spec THEN old.gen ELSE old.gen + 1) \in Nat
  BY DEF Object
<1>4. QED
  BY <1>1, <1>2, <1>3 DEF mergeForUpdate

\* The trimmed history is a sequence of events.
LEMMA TrimType ==
  ASSUME NEW h \in Seq(Event)
  PROVE  Trim(h) \in Seq(Event)
  BY StoreAssumption DEF Trim

\* A subscriber that was sent an event, or dropped, is a subscription.
LEMMA FanType ==
  ASSUME NEW s \in Subscription, NEW e \in Event
  PROVE  Fan(s, e) \in Subscription
<1>1. [s EXCEPT !.ch = Append(@, e)] \in Subscription
  <2>1. Append(s.ch, e) \in Seq(Event)
    BY DEF Subscription
  <2> DEFINE c == Append(s.ch, e)
  <2>2. c \in Seq(Event)
    BY <2>1
  <2> HIDE DEF c
  <2>3. [s EXCEPT !.ch = c] \in Subscription
    BY <2>2 DEF Subscription
  <2>4. QED
    BY <2>3 DEF c
<1>2. DropSub(s) \in Subscription
  BY DEF Subscription, DropSub
<1>3. QED
  BY <1>1, <1>2 DEF Fan

\* emitLocked keeps the history and the subscriptions well typed.
LEMMA EmitType ==
  ASSUME TypeOK, NEW e \in Event, emitLocked(e)
  PROVE  history' \in Seq(Event) /\ subs' \in [Watchers -> Subscription]
<1>1. history' \in Seq(Event)
  <2>1. Append(history, e) \in Seq(Event)
    BY DEF TypeOK
  <2>2. QED
    BY <2>1, TrimType DEF emitLocked
<1>2. subs' \in [Watchers -> Subscription]
  <2>1. \A w \in Watchers : subs[w] \in Subscription /\ Fan(subs[w], e) \in Subscription
    BY FanType DEF TypeOK
  <2>2. QED
    BY <2>1 DEF emitLocked
<1>3. QED
  BY <1>1, <1>2

\* A write keeps data, counter, history and subscriptions well typed.
LEMMA CommitType ==
  ASSUME TypeOK, NEW g \in GVRs, NEW n \in Names,
         NEW type \in {"ADDED", "MODIFIED", "DELETED"}, NEW obj \in Object,
         NEW stored \in BOOLEAN, Commit(g, n, type, obj, stored)
  PROVE  /\ data' \in [GVRs -> View]
         /\ rv' \in 0..MaxRV
         /\ history' \in Seq(Event)
         /\ subs' \in [Watchers -> Subscription]
<1> DEFINE stamped == [obj EXCEPT !.rv = rv + 1]
           e == [type |-> type, gvr |-> g, name |-> n, obj |-> stamped, rv |-> rv + 1]
<1>0. rv \in Nat /\ rv + 1 \in Nat /\ MaxRV \in Nat
  BY StoreAssumption DEF TypeOK
<1>1. stamped \in Object
  BY <1>0, StampType
<1>2. e \in Event
  BY <1>0, <1>1 DEF Event
<1>3. emitLocked(e)
  BY DEF Commit
<1>4. data' \in [GVRs -> View]
  BY <1>1 DEF Commit, TypeOK, View
<1>5. rv' \in 0..MaxRV
  BY <1>0 DEF Commit
<1>6. QED
  BY <1>2, <1>3, <1>4, <1>5, EmitType

\* The retained events that a watch replays are finitely many.
LEMMA HistoryAfterType ==
  ASSUME TypeOK, NEW g \in GVRs, NEW r \in Nat
  PROVE  IsFiniteSet(HistoryAfter(g, r)) /\ HistoryAfter(g, r) \subseteq Event
<1> DEFINE I == {k \in DOMAIN history : history[k].rv > r /\ history[k].gvr = g}
           f == [i \in I |-> history[i]]
<1>1. Len(history) \in Nat /\ DOMAIN history = 1..Len(history)
      /\ \A i \in DOMAIN history : history[i] \in Event
  BY DEF TypeOK
<1>2. IsFiniteSet(I)
  <2>1. IsFiniteSet(1..Len(history))
    BY <1>1, FS_Interval
  <2>2. I \in SUBSET (1..Len(history))
    BY <1>1
  <2>3. QED
    BY <2>1, <2>2, FS_Subset
<1>3. f \in Surjection(I, HistoryAfter(g, r))
  <2>1. f \in [I -> HistoryAfter(g, r)]
    BY DEF HistoryAfter
  <2>2. \A e \in HistoryAfter(g, r) : \E i \in I : f[i] = e
    BY DEF HistoryAfter
  <2>3. QED
    BY <2>1, <2>2 DEF Surjection
<1>4. IsFiniteSet(HistoryAfter(g, r))
  BY <1>2, <1>3, FS_Surjection
<1>5. QED
  BY <1>1, <1>4 DEF HistoryAfter

\* ... and so are the snapshots it begins with otherwise.
LEMMA SnapshotsType ==
  ASSUME TypeOK, NEW g \in GVRs, NEW r \in Nat
  PROVE  IsFiniteSet(Snapshots(g, r)) /\ Snapshots(g, r) \subseteq Event
<1> DEFINE I == {m \in Names : data[g][m] # Absent /\ data[g][m].rv > r}
           f == [n \in I |-> [type |-> "ADDED", gvr |-> g, name |-> n,
                              obj |-> data[g][n], rv |-> data[g][n].rv]]
<1>1. IsFiniteSet(I)
  BY StoreAssumption, FS_Subset
<1>2. f \in Surjection(I, Snapshots(g, r))
  BY DEF Surjection, Snapshots
<1>3. IsFiniteSet(Snapshots(g, r))
  BY <1>1, <1>2, FS_Surjection
<1>4. \A n \in I : data[g][n] \in Object
  BY DEF TypeOK, View
<1>5. \A n \in I : f[n] \in Event
  BY <1>4 DEF Event, Object
<1>6. QED
  BY <1>3, <1>5 DEF Snapshots

\* What Watch replays before live events is a sequence of events.
LEMMA BootstrapType ==
  ASSUME TypeOK, NEW g \in GVRs, NEW r \in Nat, NEW b \in Bootstraps(g, r)
  PROVE  b \in Seq(Event)
<1>1. ASSUME NEW S, IsFiniteSet(S), S \subseteq Event, b \in SetToSeqs(S)
      PROVE  b \in Seq(Event)
  <2>1. Cardinality(S) \in Nat
    BY <1>1, FS_CardinalityType
  <2>2. b \in [1..Cardinality(S) -> S]
    BY <1>1 DEF SetToSeqs
  <2>3. QED
    BY <1>1, <2>1, <2>2
<1>2. QED
  BY <1>1, HistoryAfterType, SnapshotsType DEF Bootstraps

\* The record a watch starts from is a subscription and a client state.
LEMMA WatchType ==
  ASSUME TypeOK, NEW w \in Watchers, NEW r \in Nat, NEW v \in View,
         NEW x \in BOOLEAN, Watch(w, r, v, x)
  PROVE  subs' \in [Watchers -> Subscription] /\ cli' \in [Watchers -> ClientState]
<1>1. PICK b \in Bootstraps(WatchGVR[w], r) :
        /\ subs' = [subs EXCEPT ![w] = [state |-> "open", boot |-> b, ch |-> <<>>,
                                        currentRV |-> rv]]
        /\ cli' = [cli EXCEPT ![w] =
                     [phase |-> "watching", view |-> v, lastRV |-> r,
                      exact |-> /\ Origin(r, x) = "complete"
                                /\ replayFromHistory(r) \/ b = <<>>,
                      origin |-> Origin(r, x)]]
  BY DEF Watch
<1>2. b \in Seq(Event)
  <2>1. WatchGVR[w] \in GVRs
    BY StoreAssumption
  <2>2. QED
    BY <2>1, BootstrapType
<1>3. subs' \in [Watchers -> Subscription]
  <2>1. rv \in Nat
    BY StoreAssumption DEF TypeOK
  <2>2. [state |-> "open", boot |-> b, ch |-> <<>>, currentRV |-> rv] \in Subscription
    BY <1>2, <2>1 DEF Subscription
  <2>3. QED
    BY <1>1, <2>2 DEF TypeOK
<1>4. cli' \in [Watchers -> ClientState]
  <2> DEFINE e == Origin(r, x) = "complete" /\ (replayFromHistory(r) \/ b = <<>>)
  <2>1. Origin(r, x) \in {"none", "unknown", "complete", "retained", "trimmed", "restarted"}
    BY DEF Origin
  <2>2. e \in BOOLEAN
    OBVIOUS
  <2> HIDE DEF e
  <2>3. [phase |-> "watching", view |-> v, lastRV |-> r, exact |-> e,
         origin |-> Origin(r, x)] \in ClientState
    BY <2>1, <2>2 DEF ClientState
  <2>4. QED
    BY <1>1, <2>3 DEF TypeOK, e
<1>5. QED
  BY <1>3, <1>4

\* A delivered event leaves the client's record well typed.
LEMMA DeliverType ==
  ASSUME TypeOK, NEW w \in Watchers, NEW e \in Event, NEW x \in BOOLEAN,
         Deliver(w, e, x)
  PROVE  cli' \in [Watchers -> ClientState]
<1>1. cli[w] \in ClientState
  BY DEF TypeOK
<1>2. [cli[w] EXCEPT !.exact = x] \in ClientState
  BY <1>1 DEF ClientState
<1>3. Applied(e) \in Object \cup {Absent}
  BY DEF Applied, Event
<1>4. [cli[w] EXCEPT !.view[e.name] = Applied(e), !.lastRV = e.rv, !.exact = x]
        \in ClientState
  BY <1>1, <1>3 DEF ClientState, View, Event
<1>5. QED
  BY <1>2, <1>4 DEF Deliver, TypeOK

\* No subscription is a subscription record.
LEMMA NoSubType ==
  NoSub \in Subscription
<1>1. <<>> \in Seq(Event)
  OBVIOUS
<1>2. QED
  BY <1>1 DEF NoSub, Subscription

\* A boot from well-typed contents leaves every variable it sets well typed.
LEMMA BootType ==
  ASSUME TypeOK, NEW d \in [GVRs -> View], NEW r \in 0..MaxRV, Boot(d, r)
  PROVE  /\ data' \in [GVRs -> View]
         /\ rv' \in 0..MaxRV
         /\ history' \in Seq(Event)
         /\ subs' \in [Watchers -> Subscription]
         /\ cli' \in [Watchers -> ClientState]
         /\ uids' \in Nat
         /\ held' \in [Clients -> Copy \cup {NoCopy}]
<1>1. subs' \in [Watchers -> Subscription]
  BY NoSubType DEF Boot
<1>2. cli' \in [Watchers -> ClientState]
  <2>1. ASSUME NEW w \in Watchers
        PROVE  [cli[w] EXCEPT !.phase = IF @ = "watching" THEN "closed" ELSE @,
                              !.exact = @ /\ r = rv] \in ClientState
    <3>1. cli[w] \in ClientState
      BY DEF TypeOK
    <3>2. QED
      BY <3>1 DEF ClientState
  <2>2. QED
    BY <2>1 DEF Boot
<1>3. data' \in [GVRs -> View] /\ rv' \in 0..MaxRV
  BY DEF Boot
<1>4. history' \in Seq(Event)
  <2>1. history' = <<>>
    BY DEF Boot
  <2>2. QED
    BY <2>1
<1>5. uids' \in Nat /\ held' \in [Clients -> Copy \cup {NoCopy}]
  BY DEF Boot, TypeOK
<1>6. QED
  BY <1>1, <1>2, <1>3, <1>4, <1>5

----------------------------------------------------------------------------
(* Type correctness.                                                       *)

\* The empty store is well typed.
LEMMA InitType ==
  Init => TypeOK
<1> SUFFICES ASSUME Init PROVE TypeOK
  OBVIOUS
<1> USE StoreAssumption
<1>1. data \in [GVRs -> View] /\ flushed \in [data : [GVRs -> View], rv : 0..MaxRV]
  BY DEF Init, View
<1>2. rv \in 0..MaxRV /\ history \in Seq(Event) /\ uids \in Nat /\ faults \in 0..MaxFaults
  BY DEF Init
<1>3. subs \in [Watchers -> Subscription]
  BY NoSubType DEF Init
<1>4. held \in [Clients -> Copy \cup {NoCopy}]
  BY DEF Init
<1>5. cli \in [Watchers -> ClientState]
  BY DEF Init, ClientState, EmptyView, View
<1>6. QED
  BY <1>1, <1>2, <1>3, <1>4, <1>5 DEF TypeOK

\* Every write of the API keeps the store well typed.
LEMMA WriteType ==
  TypeOK /\ Write => TypeOK'
<1> SUFFICES ASSUME TypeOK, Write PROVE TypeOK'
  OBVIOUS
<1>1. ASSUME NEW g \in GVRs, NEW n \in Names, NEW s \in Specs, NEW l \in Labels,
             Create(g, n, s, l)
      PROVE  TypeOK'
  <2> DEFINE o == [uid |-> uids + 1, rv |-> 0, gen |-> 1, spec |-> s,
                   status |-> NoStatus, label |-> l]
  <2>1. o \in Object
    BY StoreAssumption DEF TypeOK, Object
  <2>2. Commit(g, n, "ADDED", o, TRUE)
    BY <1>1 DEF Create
  <2>3. uids' \in Nat
    BY <1>1 DEF Create, TypeOK
  <2> HIDE DEF o
  <2>4. /\ data' \in [GVRs -> View] /\ rv' \in 0..MaxRV
        /\ history' \in Seq(Event) /\ subs' \in [Watchers -> Subscription]
    BY <2>1, <2>2, CommitType
  <2>5. UNCHANGED <<flushed, held, cli, faults>>
    BY <1>1 DEF Create
  <2>6. QED
    BY <2>3, <2>4, <2>5 DEF TypeOK
<1>2. ASSUME NEW g \in GVRs, NEW n \in Names, NEW isStatus \in BOOLEAN,
             Patch(g, n, isStatus)
      PROVE  TypeOK'
  <2>1. data[g][n] \in Object
    BY <1>2 DEF Patch, TypeOK, View
  <2>2. PICK p \in Edits(data[g][n]) :
          Commit(g, n, "MODIFIED", mergeForUpdate(data[g][n], p, isStatus), TRUE)
    BY <1>2 DEF Patch
  <2>3. mergeForUpdate(data[g][n], p, isStatus) \in Object
    BY <2>1, EditsType, MergeType
  <2>4. QED
    BY <1>2, <2>2, <2>3, CommitType DEF Patch, TypeOK
<1>3. ASSUME NEW g \in GVRs, NEW n \in Names, Delete(g, n)
      PROVE  TypeOK'
  <2>1. data[g][n] \in Object
    BY <1>3 DEF Delete, TypeOK, View
  <2>2. QED
    BY <1>3, <2>1, CommitType DEF Delete, TypeOK
<1>4. ASSUME NEW g \in GVRs, NEW n \in Names, NEW c \in Clients, Get(c, g, n)
      PROVE  TypeOK'
  <2>1. data[g][n] \in Object
    BY <1>4 DEF Get, TypeOK, View
  <2>2. held' \in [Clients -> Copy \cup {NoCopy}]
    BY <1>4, <2>1 DEF Get, TypeOK, Copy
  <2>3. QED
    BY <1>4, <2>2 DEF Get, TypeOK
<1>5. ASSUME NEW c \in Clients, NEW isStatus \in BOOLEAN, NEW conditional \in BOOLEAN,
             Update(c, isStatus, conditional)
      PROVE  TypeOK'
  <2> DEFINE g == held[c].gvr
             n == held[c].name
  <2>1. held[c] \in Copy
    BY <1>5 DEF Update, TypeOK
  <2>2. g \in GVRs /\ n \in Names /\ held[c].obj \in Object
    BY <2>1 DEF Copy
  <2>3. data[g][n] \in Object
    BY <1>5, <2>2 DEF Update, TypeOK, View
  <2>4. PICK i \in Edits(held[c].obj) :
          Commit(g, n, "MODIFIED", mergeForUpdate(data[g][n], i, isStatus), TRUE)
    BY <1>5 DEF Update
  <2>5. mergeForUpdate(data[g][n], i, isStatus) \in Object
    BY <2>2, <2>3, EditsType, MergeType
  <2>6. held' \in [Clients -> Copy \cup {NoCopy}]
    BY <1>5 DEF Update, TypeOK
  <2> HIDE DEF g, n
  <2>7. QED
    BY <1>5, <2>2, <2>4, <2>5, <2>6, CommitType DEF Update, TypeOK
<1>6. QED
  BY <1>1, <1>2, <1>3, <1>4, <1>5 DEF Write

\* A step of a pump goroutine keeps the store well typed.
LEMMA PumpType ==
  ASSUME TypeOK, NEW w \in Watchers, Pump(w)
  PROVE  TypeOK'
<1>0. subs[w] \in Subscription /\ cli[w] \in ClientState
  BY DEF TypeOK
<1>1. CASE PumpBootstrap(w)
  <2>1. Head(subs[w].boot) \in Event /\ Tail(subs[w].boot) \in Seq(Event)
    BY <1>0, <1>1 DEF PumpBootstrap, Subscription
  <2>2. cli' \in [Watchers -> ClientState]
    <3> DEFINE x == cli[w].exact \/ (Len(subs[w].boot) = 1 /\ cli[w].origin = "complete")
    <3>1. x \in BOOLEAN /\ Deliver(w, Head(subs[w].boot), x)
      BY <1>0, <1>1 DEF PumpBootstrap, ClientState
    <3> HIDE DEF x
    <3>2. QED
      BY <2>1, <3>1, DeliverType
  <2>3. subs' \in [Watchers -> Subscription]
    BY <1>0, <1>1, <2>1 DEF PumpBootstrap, TypeOK, Subscription
  <2>4. QED
    BY <1>1, <2>2, <2>3 DEF PumpBootstrap, TypeOK
<1>2. CASE PumpLive(w)
  <2>1. Head(subs[w].ch) \in Event /\ Tail(subs[w].ch) \in Seq(Event)
    BY <1>0, <1>2 DEF PumpLive, Subscription
  <2>2. cli' \in [Watchers -> ClientState]
    <3>1. cli[w].exact \in BOOLEAN
      BY <1>0 DEF ClientState
    <3>2. CASE Deliver(w, Head(subs[w].ch), cli[w].exact)
      BY <2>1, <3>1, <3>2, DeliverType
    <3>3. CASE UNCHANGED cli
      BY <3>3 DEF TypeOK
    <3>4. QED
      BY <1>2, <3>2, <3>3 DEF PumpLive
  <2>3. subs' \in [Watchers -> Subscription]
    BY <1>0, <1>2, <2>1 DEF PumpLive, TypeOK, Subscription
  <2>4. QED
    BY <1>2, <2>2, <2>3 DEF PumpLive, TypeOK
<1>3. CASE StreamEnd(w)
  <2>1. [cli[w] EXCEPT !.phase = "closed"] \in ClientState
    BY <1>0 DEF ClientState
  <2>2. QED
    BY <1>3, <2>1, NoSubType DEF StreamEnd, TypeOK
<1>4. QED
  BY <1>1, <1>2, <1>3 DEF Pump

\* Opening a stream keeps the store well typed.
LEMMA OpenType ==
  ASSUME TypeOK, NEW w \in Watchers, Open(w)
  PROVE  TypeOK'
<1>0. cli[w] \in ClientState
  BY DEF TypeOK
<1>1. CASE List(w)
  <2>1. WatchGVR[w] \in GVRs
    BY StoreAssumption
  <2>2. Truth(w) \in View
    BY <2>1 DEF Truth, TypeOK, View
  <2>3. [phase |-> "listed", view |-> Truth(w), lastRV |-> rv, exact |-> TRUE,
         origin |-> "none"] \in ClientState
    BY <2>2, StoreAssumption DEF ClientState, TypeOK
  <2>4. QED
    BY <1>1, <2>3 DEF List, TypeOK
<1>2. ASSUME NEW r \in Nat, NEW v \in View, NEW x \in BOOLEAN, Watch(w, r, v, x)
      PROVE  TypeOK'
  <2>1. subs' \in [Watchers -> Subscription] /\ cli' \in [Watchers -> ClientState]
    BY <1>2, WatchType
  <2>2. QED
    BY <1>2, <2>1 DEF Watch, TypeOK
<1>3. CASE WatchNow(w)
  <2>1. EmptyView \in View
    BY DEF EmptyView, View
  <2>2. QED
    BY <1>2, <1>3, <2>1 DEF WatchNow
<1>4. CASE WatchListed(w) \/ Resume(w)
  <2>1. cli[w].lastRV \in Nat /\ cli[w].view \in View /\ cli[w].exact \in BOOLEAN
    BY <1>0 DEF ClientState
  <2>2. QED
    BY <1>2, <1>4, <2>1 DEF WatchListed, Resume
<1>5. QED
  BY <1>1, <1>3, <1>4 DEF Open

\* Every fault the store handles leaves it well typed.
LEMMA FaultType ==
  ASSUME TypeOK, Restart \/ Sync \/ PowerLoss \/ \E w \in Watchers : Disconnect(w)
  PROVE  TypeOK'
<1>0. \A k : Fault(k) => faults' \in 0..MaxFaults
  BY StoreAssumption DEF Fault, TypeOK
<1>1. CASE Restart
  BY <1>0, <1>1, BootType DEF Restart, TypeOK
<1>2. CASE Sync
  BY <1>2 DEF Sync, TypeOK
<1>3. CASE PowerLoss
  BY <1>0, <1>3, BootType DEF PowerLoss, TypeOK
<1>4. ASSUME NEW w \in Watchers, Disconnect(w)
      PROVE  TypeOK'
  <2>1. cli[w] \in ClientState
    BY DEF TypeOK
  <2>2. [cli[w] EXCEPT !.phase = "closed"] \in ClientState
    BY <2>1 DEF ClientState
  <2>3. QED
    BY <1>0, <1>4, <2>2, NoSubType DEF Disconnect, TypeOK
<1>5. QED
  BY <1>1, <1>2, <1>3, <1>4

\* Every step of the store keeps it well typed.
LEMMA NextType ==
  TypeOK /\ [Next]_vars => TypeOK'
<1> SUFFICES ASSUME TypeOK, [Next]_vars PROVE TypeOK'
  OBVIOUS
<1>1. CASE UNCHANGED vars
  BY <1>1 DEF vars, TypeOK
<1>2. CASE Next
  BY <1>2, WriteType, PumpType, OpenType, FaultType DEF Next
<1>3. QED
  BY <1>1, <1>2

\* The store is well typed in every reachable state: no operation, pump step
\* or fault of internal/store produces a malformed object, event, channel or
\* client record.
THEOREM StoreTypeCorrect ==
  Spec => []TypeOK
  BY InitType, NextType, PTL DEF Spec

----------------------------------------------------------------------------
(* The window of retained events.                                          *)

\* h is a run of consecutive resourceVersions that ends at r.
Window(h, r) ==
  /\ h # <<>> => h[Len(h)].rv = r
  /\ \A i \in 1..(Len(h) - 1) : h[i + 1].rv = h[i].rv + 1

\* Appending the event of the next resourceVersion extends the run.
LEMMA AppendWindow ==
  ASSUME NEW h \in Seq(Event), NEW r \in Nat, Window(h, r),
         NEW e \in Event, e.rv = r + 1
  PROVE  Window(Append(h, e), r + 1)
<1> DEFINE k == Append(h, e)
<1>1. Len(h) \in Nat /\ Len(k) = Len(h) + 1 /\ k[Len(k)] = e
  OBVIOUS
<1>2. \A i \in 1..Len(h) : k[i] = h[i]
  OBVIOUS
<1>3. ASSUME NEW i \in 1..(Len(k) - 1)
      PROVE  k[i + 1].rv = k[i].rv + 1
  <2>1. CASE i < Len(h)
    <3>1. i \in 1..(Len(h) - 1) /\ i \in 1..Len(h) /\ i + 1 \in 1..Len(h)
      BY <1>1, <2>1
    <3>2. k[i] = h[i] /\ k[i + 1] = h[i + 1]
      BY <1>2, <3>1
    <3>3. QED
      BY <3>1, <3>2 DEF Window
  <2>2. CASE i = Len(h)
    <3>1. h # <<>> /\ i \in 1..Len(h) /\ i + 1 = Len(k)
      BY <1>1, <2>2
    <3>2. k[i] = h[Len(h)] /\ k[i + 1] = e
      BY <1>1, <1>2, <2>2, <3>1
    <3>3. QED
      BY <3>1, <3>2 DEF Window
  <2>3. QED
    BY <1>1, <2>1, <2>2
<1>4. QED
  BY <1>1, <1>3 DEF Window

\* Dropping the oldest events leaves a run that ends at the same place and
\* fits the capacity.
LEMMA TrimWindow ==
  ASSUME NEW h \in Seq(Event), NEW r \in Nat, Window(h, r)
  PROVE  Window(Trim(h), r) /\ Len(Trim(h)) <= HistCap
<1>0. HistCap \in Nat /\ HistCap > 0 /\ Len(h) \in Nat
  BY StoreAssumption
<1>1. CASE Len(h) <= HistCap
  <2>1. Trim(h) = h
    BY <1>0, <1>1 DEF Trim
  <2>2. QED
    BY <1>1, <2>1
<1>2. CASE Len(h) > HistCap
  <2> DEFINE off == Len(h) - HistCap
             t == SubSeq(h, off + 1, Len(h))
  <2>1. off \in Nat /\ off + HistCap = Len(h)
    BY <1>0, <1>2
  <2>2. Trim(h) = t
    BY <1>2 DEF Trim
  <2>3. Len(t) = HistCap /\ \A i \in 1..HistCap : t[i] = h[off + i]
    BY <1>0, <1>2, <2>1
  <2> HIDE DEF off, t
  <2>4. t[Len(t)].rv = r
    <3>1. h # <<>>
      BY <1>0, <1>2
    <3>2. HistCap \in 1..HistCap
      BY <1>0
    <3>3. QED
      BY <2>1, <2>3, <3>1, <3>2 DEF Window
  <2>5. ASSUME NEW i \in 1..(Len(t) - 1)
        PROVE  t[i + 1].rv = t[i].rv + 1
    <3>1. i \in 1..HistCap /\ i + 1 \in 1..HistCap
      BY <1>0, <2>3
    <3>2. off + i \in 1..(Len(h) - 1) /\ off + (i + 1) = (off + i) + 1
      BY <1>0, <2>1, <2>3
    <3>3. QED
      BY <2>3, <3>1, <3>2 DEF Window
  <2>6. QED
    BY <1>0, <2>2, <2>3, <2>4, <2>5 DEF Window
<1>3. QED
  BY <1>0, <1>1, <1>2

\* Stamping one object with the next resourceVersion, or removing it, leaves
\* every stored object with a version of its own.
LEMMA StampVersioned ==
  ASSUME NEW d \in [GVRs -> View], NEW r \in Nat, Versioned(d, r),
         NEW g \in GVRs, NEW n \in Names, NEW o \in Object \cup {Absent},
         o # Absent => o.rv = r + 1
  PROVE  Versioned([d EXCEPT ![g][n] = o], r + 1)
<1> DEFINE q == [d EXCEPT ![g][n] = o]
<1>1. \A h \in GVRs, m \in Names : q[h][m] = IF h = g /\ m = n THEN o ELSE d[h][m]
  BY DEF View
<1>2. \A h \in GVRs, m \in Names : d[h][m] # Absent => d[h][m].rv \in 1..r
  BY DEF Versioned
<1>3. \A h, k \in GVRs, m, l \in Names :
        d[h][m] # Absent /\ d[k][l] # Absent /\ d[k][l].rv = d[h][m].rv => h = k /\ m = l
  BY DEF Versioned
<1> HIDE DEF q
<1>4. ASSUME NEW h \in GVRs, NEW m \in Names, q[h][m] # Absent
      PROVE  q[h][m].rv \in 1..(r + 1)
  BY <1>1, <1>2, <1>4
<1>5. ASSUME NEW h \in GVRs, NEW k \in GVRs, NEW m \in Names, NEW l \in Names,
             q[h][m] # Absent, q[k][l] # Absent, q[k][l].rv = q[h][m].rv
      PROVE  h = k /\ m = l
  <2>1. CASE (h = g /\ m = n) /\ ~(k = g /\ l = n)
    <3>1. q[h][m].rv = r + 1 /\ q[k][l].rv \in 1..r
      BY <1>1, <1>2, <1>5, <2>1
    <3>2. QED
      BY <1>5, <3>1
  <2>2. CASE ~(h = g /\ m = n) /\ (k = g /\ l = n)
    <3>1. q[k][l].rv = r + 1 /\ q[h][m].rv \in 1..r
      BY <1>1, <1>2, <1>5, <2>2
    <3>2. QED
      BY <1>5, <3>1
  <2>3. CASE ~(h = g /\ m = n) /\ ~(k = g /\ l = n)
    BY <1>1, <1>3, <1>5, <2>3
  <2>4. QED
    BY <2>1, <2>2, <2>3
<1>6. QED
  BY <1>4, <1>5 DEF Versioned, q

\* A write extends the window and stamps one object.
LEMMA CommitWindow ==
  ASSUME TypeOK, HistoryWindow, NEW g \in GVRs, NEW n \in Names,
         NEW type \in {"ADDED", "MODIFIED", "DELETED"}, NEW obj \in Object,
         NEW stored \in BOOLEAN, Commit(g, n, type, obj, stored), UNCHANGED flushed
  PROVE  HistoryWindow'
<1> DEFINE stamped == [obj EXCEPT !.rv = rv + 1]
           e == [type |-> type, gvr |-> g, name |-> n, obj |-> stamped, rv |-> rv + 1]
           new == IF stored THEN stamped ELSE Absent
<1>0. rv \in Nat /\ rv + 1 \in Nat /\ rv' = rv + 1
  BY StoreAssumption DEF TypeOK, Commit
<1>1. stamped \in Object /\ stamped.rv = rv + 1
  BY <1>0, StampType DEF Object
<1>2. e \in Event /\ e.rv = rv + 1
  BY <1>0, <1>1 DEF Event
<1>3. history' = Trim(Append(history, e)) /\ data' = [data EXCEPT ![g][n] = new]
  BY DEF Commit, emitLocked
<1> HIDE DEF e, stamped
<1>4. Window(history', rv') /\ Len(history') <= HistCap
  <2>1. history \in Seq(Event) /\ Append(history, e) \in Seq(Event)
    BY <1>2 DEF TypeOK
  <2>2. Window(history, rv)
    BY DEF HistoryWindow, Window
  <2>3. Window(Append(history, e), rv + 1)
    BY <1>0, <1>2, <2>1, <2>2, AppendWindow
  <2>4. QED
    BY <1>0, <1>3, <2>1, <2>3, TrimWindow
<1>5. Versioned(data', rv')
  <2>1. new \in Object \cup {Absent} /\ (new # Absent => new.rv = rv + 1)
    BY <1>1
  <2>2. data \in [GVRs -> View] /\ Versioned(data, rv)
    BY DEF TypeOK, HistoryWindow
  <2> HIDE DEF new
  <2>3. QED
    BY <1>0, <1>3, <2>1, <2>2, StampVersioned
<1>6. QED
  BY <1>4, <1>5 DEF HistoryWindow, Window, Versioned

\* Every step keeps the window: writes extend it, a boot empties it and takes
\* data and counter from one transaction, and nothing else touches it.
LEMMA NextWindow ==
  TypeOK /\ HistoryWindow /\ [Next]_vars => HistoryWindow'
<1> SUFFICES ASSUME TypeOK, HistoryWindow, [Next]_vars PROVE HistoryWindow'
  OBVIOUS
<1>0. ASSUME UNCHANGED <<data, rv, history, flushed>>
      PROVE  HistoryWindow'
  BY <1>0 DEF HistoryWindow, Versioned
<1>1. ASSUME NEW g \in GVRs, NEW n \in Names, NEW s \in Specs, NEW l \in Labels,
             Create(g, n, s, l)
      PROVE  HistoryWindow'
  <2> DEFINE o == [uid |-> uids + 1, rv |-> 0, gen |-> 1, spec |-> s,
                   status |-> NoStatus, label |-> l]
  <2>1. o \in Object
    BY StoreAssumption DEF TypeOK, Object
  <2>2. Commit(g, n, "ADDED", o, TRUE) /\ UNCHANGED flushed
    BY <1>1 DEF Create
  <2> HIDE DEF o
  <2>3. QED
    BY <2>1, <2>2, CommitWindow
<1>2. ASSUME NEW g \in GVRs, NEW n \in Names, NEW isStatus \in BOOLEAN,
             Patch(g, n, isStatus)
      PROVE  HistoryWindow'
  <2>1. data[g][n] \in Object
    BY <1>2 DEF Patch, TypeOK, View
  <2>2. PICK p \in Edits(data[g][n]) :
          Commit(g, n, "MODIFIED", mergeForUpdate(data[g][n], p, isStatus), TRUE)
    BY <1>2 DEF Patch
  <2>3. mergeForUpdate(data[g][n], p, isStatus) \in Object /\ UNCHANGED flushed
    BY <1>2, <2>1, EditsType, MergeType DEF Patch
  <2>4. QED
    BY <2>2, <2>3, CommitWindow
<1>3. ASSUME NEW g \in GVRs, NEW n \in Names, Delete(g, n)
      PROVE  HistoryWindow'
  <2>1. data[g][n] \in Object
    BY <1>3 DEF Delete, TypeOK, View
  <2>2. QED
    BY <1>3, <2>1, CommitWindow DEF Delete
<1>4. ASSUME NEW c \in Clients, NEW isStatus \in BOOLEAN, NEW conditional \in BOOLEAN,
             Update(c, isStatus, conditional)
      PROVE  HistoryWindow'
  <2> DEFINE g == held[c].gvr
             n == held[c].name
  <2>1. held[c] \in Copy
    BY <1>4 DEF Update, TypeOK
  <2>2. g \in GVRs /\ n \in Names /\ held[c].obj \in Object
    BY <2>1 DEF Copy
  <2>3. data[g][n] \in Object
    BY <1>4, <2>2 DEF Update, TypeOK, View
  <2>4. PICK i \in Edits(held[c].obj) :
          Commit(g, n, "MODIFIED", mergeForUpdate(data[g][n], i, isStatus), TRUE)
    BY <1>4 DEF Update
  <2>5. mergeForUpdate(data[g][n], i, isStatus) \in Object /\ UNCHANGED flushed
    BY <1>4, <2>2, <2>3, EditsType, MergeType DEF Update
  <2> HIDE DEF g, n
  <2>6. QED
    BY <2>2, <2>4, <2>5, CommitWindow
<1>5. CASE \E c \in Clients, g \in GVRs, n \in Names : Get(c, g, n)
  BY <1>0, <1>5 DEF Get
<1>6. CASE \E w \in Watchers : Pump(w) \/ Open(w) \/ Disconnect(w)
  BY <1>0, <1>6 DEF Pump, PumpBootstrap, PumpLive, StreamEnd, Open, List, WatchNow,
                    WatchListed, Resume, Watch, Disconnect
<1>7. ASSUME NEW d, NEW r, Boot(d, r), Versioned(d, r), UNCHANGED flushed
      PROVE  HistoryWindow'
  <2>1. data' = d /\ rv' = r /\ history' = <<>>
    BY <1>7 DEF Boot
  <2>2. Len(history') = 0 /\ 0 <= HistCap
    BY <2>1, StoreAssumption
  <2>3. QED
    BY <1>7, <2>1, <2>2 DEF HistoryWindow, Versioned
<1>8. CASE Restart \/ PowerLoss
  BY <1>7, <1>8 DEF Restart, PowerLoss, HistoryWindow
<1>9. CASE Sync
  BY <1>9 DEF Sync, HistoryWindow, Versioned
<1>10. CASE UNCHANGED vars
  BY <1>0, <1>10 DEF vars
<1>11. QED
  BY <1>1, <1>2, <1>3, <1>4, <1>5, <1>6, <1>8, <1>9, <1>10 DEF Next, Write

\* In every reachable state the retained events are a gapless run that ends at
\* the counter and fits the capacity, and every stored or flushed object has a
\* resourceVersion of its own within the counter (nextRV, emitLocked, the boot
\* from bolt), whatever the capacity and however often the process dies.
THEOREM WindowHolds ==
  Spec => []HistoryWindow
<1>1. Init => HistoryWindow
  <2> SUFFICES ASSUME Init PROVE HistoryWindow
    OBVIOUS
  <2>1. \A g \in GVRs, n \in Names : data[g][n] = Absent /\ flushed.data[g][n] = Absent
    BY DEF Init
  <2>2. Len(history) = 0 /\ history = <<>> /\ 0 <= HistCap
    BY StoreAssumption DEF Init
  <2>3. QED
    BY <2>1, <2>2 DEF HistoryWindow, Versioned
<1>2. QED
  BY <1>1, InitType, NextType, NextWindow, PTL DEF Spec

----------------------------------------------------------------------------
(* The two halves of an object.                                            *)

\* What a step may do to one stored object.
HalfStep(o, q) ==
  o # Absent /\ q # Absent /\ o.uid = q.uid =>
    /\ o.spec = q.spec \/ o.status = q.status
    /\ q.gen = o.gen + (IF o.spec = q.spec THEN 0 ELSE 1)

\* mergeForUpdate changes one half, and counts a change of spec, however old
\* the incoming copy is.
LEMMA MergeHalves ==
  ASSUME NEW old \in Object, NEW incoming \in Object, NEW isStatus \in BOOLEAN,
         NEW r \in Nat
  PROVE  HalfStep(old, [mergeForUpdate(old, incoming, isStatus) EXCEPT !.rv = r])
<1>1. CASE isStatus
  <2>1. mergeForUpdate(old, incoming, isStatus) = [old EXCEPT !.status = incoming.status]
    BY <1>1 DEF mergeForUpdate
  <2>2. QED
    BY <2>1 DEF HalfStep, Object
<1>2. CASE ~isStatus
  <2>1. mergeForUpdate(old, incoming, isStatus) =
          [incoming EXCEPT !.uid = old.uid, !.status = old.status,
             !.gen = IF old.spec = incoming.spec THEN old.gen ELSE old.gen + 1]
    BY <1>2 DEF mergeForUpdate
  <2>2. QED
    BY <2>1 DEF HalfStep, Object
<1>3. QED
  BY <1>1, <1>2

\* A write whose object keeps to one half leaves every other object alone.
LEMMA CommitHalves ==
  ASSUME TypeOK, NEW g \in GVRs, NEW n \in Names, NEW type, NEW obj, NEW stored \in BOOLEAN,
         Commit(g, n, type, obj, stored),
         stored => HalfStep(data[g][n], [obj EXCEPT !.rv = rv + 1]),
         NEW h \in GVRs, NEW m \in Names
  PROVE  HalfStep(data[h][m], data'[h][m])
<1>1. CASE h = g /\ m = n /\ stored
  <2>1. data'[h][m] = [obj EXCEPT !.rv = rv + 1]
    BY <1>1 DEF Commit, TypeOK, View
  <2>2. QED
    BY <1>1, <2>1
<1>2. CASE h = g /\ m = n /\ ~stored
  <2>1. data'[h][m] = Absent
    BY <1>2 DEF Commit, TypeOK, View
  <2>2. QED
    BY <2>1 DEF HalfStep
<1>3. CASE ~(h = g /\ m = n)
  <2>1. data'[h][m] = data[h][m] /\ data[h][m] \in Object \cup {Absent}
    BY <1>3 DEF Commit, TypeOK, View
  <2>2. QED
    BY <2>1 DEF HalfStep, Object
<1>4. QED
  BY <1>1, <1>2, <1>3

\* Unless a power loss takes writes back, every step keeps to one half of each
\* object.
LEMMA NextHalves ==
  ASSUME "powerloss" \notin FaultKinds, TypeOK, [Next]_vars,
         NEW h \in GVRs, NEW m \in Names
  PROVE  HalfStep(data[h][m], data'[h][m])
<1>0. ASSUME UNCHANGED data
      PROVE  HalfStep(data[h][m], data'[h][m])
  <2>1. data[h][m] \in Object \cup {Absent}
    BY DEF TypeOK, View
  <2>2. QED
    BY <1>0, <2>1 DEF HalfStep, Object
<1>1. ASSUME NEW g \in GVRs, NEW n \in Names, NEW s \in Specs, NEW l \in Labels,
             Create(g, n, s, l)
      PROVE  HalfStep(data[h][m], data'[h][m])
  <2>1. \A q : HalfStep(data[g][n], q)
    BY <1>1 DEF Create, HalfStep
  <2>2. QED
    BY <1>1, <2>1, CommitHalves DEF Create
<1>2. ASSUME NEW g \in GVRs, NEW n \in Names, NEW isStatus \in BOOLEAN,
             Patch(g, n, isStatus)
      PROVE  HalfStep(data[h][m], data'[h][m])
  <2>1. data[g][n] \in Object /\ rv + 1 \in Nat
    BY <1>2, StoreAssumption DEF Patch, TypeOK, View
  <2>2. PICK p \in Edits(data[g][n]) :
          Commit(g, n, "MODIFIED", mergeForUpdate(data[g][n], p, isStatus), TRUE)
    BY <1>2 DEF Patch
  <2>3. p \in Object
    BY <2>1, EditsType
  <2>4. QED
    BY <2>1, <2>2, <2>3, MergeHalves, CommitHalves
<1>3. ASSUME NEW g \in GVRs, NEW n \in Names, Delete(g, n)
      PROVE  HalfStep(data[h][m], data'[h][m])
  BY <1>3, CommitHalves DEF Delete
<1>4. ASSUME NEW c \in Clients, NEW isStatus \in BOOLEAN, NEW conditional \in BOOLEAN,
             Update(c, isStatus, conditional)
      PROVE  HalfStep(data[h][m], data'[h][m])
  <2> DEFINE g == held[c].gvr
             n == held[c].name
  <2>1. held[c] \in Copy
    BY <1>4 DEF Update, TypeOK
  <2>2. g \in GVRs /\ n \in Names /\ held[c].obj \in Object /\ rv + 1 \in Nat
    BY <2>1, StoreAssumption DEF Copy, TypeOK
  <2>3. data[g][n] \in Object
    BY <1>4, <2>2 DEF Update, TypeOK, View
  <2>4. PICK i \in Edits(held[c].obj) :
          Commit(g, n, "MODIFIED", mergeForUpdate(data[g][n], i, isStatus), TRUE)
    BY <1>4 DEF Update
  <2>5. i \in Object
    BY <2>2, EditsType
  <2> HIDE DEF g, n
  <2>6. QED
    BY <2>2, <2>3, <2>4, <2>5, MergeHalves, CommitHalves
<1>5. CASE \E c \in Clients, g \in GVRs, n \in Names : Get(c, g, n)
  BY <1>0, <1>5 DEF Get
<1>6. CASE \E w \in Watchers : Pump(w) \/ Open(w) \/ Disconnect(w)
  BY <1>0, <1>6 DEF Pump, PumpBootstrap, PumpLive, StreamEnd, Open, List, WatchNow,
                    WatchListed, Resume, Watch, Disconnect
<1>7. CASE Restart
  BY <1>0, <1>7 DEF Restart, Boot
<1>8. CASE Sync
  BY <1>0, <1>8 DEF Sync
<1>9. CASE PowerLoss
  BY <1>9 DEF PowerLoss, Fault
<1>10. CASE UNCHANGED vars
  BY <1>0, <1>10 DEF vars
<1>11. QED
  BY <1>1, <1>2, <1>3, <1>4, <1>5, <1>6, <1>7, <1>8, <1>9, <1>10 DEF Next, Write

\* Where no power loss takes writes back, spec and status of one incarnation
\* never change in the same step and the generation counts spec changes, for
\* any number of writers with arbitrarily stale copies (mergeForUpdate).
THEOREM HalvesStaySeparate ==
  ASSUME "powerloss" \notin FaultKinds
  PROVE  Spec => HalvesSeparate
<1>1. TypeOK /\ [Next]_vars =>
        [\A g \in GVRs, n \in Names :
           LET o == data[g][n]  q == data'[g][n]
           IN  o # Absent /\ q # Absent /\ o.uid = q.uid =>
                 /\ o.spec = q.spec \/ o.status = q.status
                 /\ q.gen = o.gen + (IF o.spec = q.spec THEN 0 ELSE 1)]_vars
  BY NextHalves DEF HalfStep
<1>2. QED
  BY <1>1, StoreTypeCorrect, PTL DEF Spec, HalvesSeparate
=============================================================================

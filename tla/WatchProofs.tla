---------------------------- MODULE WatchProofs ----------------------------
(***************************************************************************)
(* What the copies and the streams of ObjectStore are worth: a             *)
(* resourceVersion names one version of an object for ever, and a watch    *)
(* brings its client every event once, in order, and so the store's        *)
(* contents.                                                               *)
(***************************************************************************)
EXTENDS ObjectStoreProofs, SequenceTheorems, WellFoundedInduction

----------------------------------------------------------------------------
(* Copies of objects, and the events that bring them.                      *)

\* copy o of object n of g is not from the future, and is the stored version
\* if it has its resourceVersion; d and r are the store's contents and counter
Ver(d, r, g, n, o) ==
  /\ o.rv <= r
  /\ d[g][n] # Absent /\ o.rv = d[g][n].rv => o = d[g][n]

EvVer(d, r, e) == Ver(d, r, e.gvr, e.name, e.obj)

HeldInv == \A c \in Clients : held[c] # NoCopy =>
             Ver(data, rv, held[c].gvr, held[c].name, held[c].obj)
ViewInv == \A w \in Watchers, n \in Names : cli[w].view[n] # Absent =>
             Ver(data, rv, WatchGVR[w], n, cli[w].view[n])
HistInv == \A i \in DOMAIN history : EvVer(data, rv, history[i])
BootInv == \A w \in Watchers : \A i \in DOMAIN subs[w].boot :
             EvVer(data, rv, subs[w].boot[i]) /\ subs[w].boot[i].gvr = WatchGVR[w]
ChanInv == \A w \in Watchers : \A i \in DOMAIN subs[w].ch :
             EvVer(data, rv, subs[w].ch[i]) /\ subs[w].ch[i].gvr = WatchGVR[w]
CopyInv == HeldInv /\ ViewInv /\ HistInv /\ BootInv /\ ChanInv

\* what a step does to the stored objects: it keeps, removes or stamps them
VersionStep ==
  /\ rv <= rv'
  /\ \A g \in GVRs, n \in Names :
       data'[g][n] = data[g][n] \/ data'[g][n] = Absent \/ data'[g][n].rv > rv

\* A copy stays one of a known version.
LEMMA VerKept ==
  ASSUME TypeOK, TypeOK', VersionStep, NEW g \in GVRs, NEW n \in Names, NEW o \in Object,
         Ver(data, rv, g, n, o)
  PROVE  Ver(data', rv', g, n, o)
<1>1. rv \in Nat /\ rv' \in Nat /\ o.rv \in Nat
  BY StoreAssumption DEF TypeOK, Object
<1>2. data'[g][n] # Absent => data'[g][n].rv \in Nat
  BY DEF TypeOK, View, Object
<1>3. QED
  BY <1>1, <1>2 DEF VersionStep, Ver

\* ... and so does the copy that an event carries.
LEMMA EvVerKept ==
  ASSUME TypeOK, TypeOK', VersionStep, NEW e \in Event, EvVer(data, rv, e)
  PROVE  EvVer(data', rv', e)
<1>1. e.gvr \in GVRs /\ e.name \in Names /\ e.obj \in Object
  BY DEF Event
<1>2. QED
  BY <1>1, VerKept DEF EvVer

\* The stored objects, and the events that announce them, are known versions.
LEMMA StoredVer ==
  ASSUME TypeOK, HistoryWindow, NEW g \in GVRs, NEW n \in Names, data[g][n] # Absent
  PROVE  Ver(data, rv, g, n, data[g][n])
<1>1. data[g][n].rv \in 1..rv /\ rv \in Nat
  BY StoreAssumption DEF HistoryWindow, Versioned, TypeOK
<1>2. QED
  BY <1>1 DEF Ver

\* A write is a VersionStep, and the event it emits carries a known version.
LEMMA CommitVersions ==
  ASSUME TypeOK, TypeOK', NEW g \in GVRs, NEW n \in Names,
         NEW type \in {"ADDED", "MODIFIED", "DELETED"}, NEW obj \in Object,
         NEW stored \in BOOLEAN, Commit(g, n, type, obj, stored)
  PROVE  /\ VersionStep
         /\ \E e \in Event : e.gvr = g /\ emitLocked(e) /\ EvVer(data', rv', e)
<1> DEFINE s == [obj EXCEPT !.rv = rv + 1]
           e == [type |-> type, gvr |-> g, name |-> n, obj |-> s, rv |-> rv + 1]
<1>0. rv \in Nat /\ rv + 1 \in Nat /\ rv' = rv + 1
  BY StoreAssumption DEF TypeOK, Commit
<1>1. s \in Object /\ s.rv = rv + 1
  BY <1>0, StampType DEF Object
<1>2. e \in Event /\ e.gvr = g /\ e.name = n /\ e.obj = s
  BY <1>0, <1>1 DEF Event
<1>3. emitLocked(e) /\ data' = [data EXCEPT ![g][n] = IF stored THEN s ELSE Absent]
  BY DEF Commit
<1> HIDE DEF s, e
<1>4. \A h \in GVRs, m \in Names :
        data'[h][m] = IF h = g /\ m = n THEN (IF stored THEN s ELSE Absent) ELSE data[h][m]
  BY <1>3 DEF TypeOK, View
<1>5. VersionStep
  BY <1>0, <1>1, <1>4 DEF VersionStep
<1>6. EvVer(data', rv', e)
  BY <1>0, <1>1, <1>2, <1>4 DEF EvVer, Ver
<1>7. QED
  BY <1>2, <1>3, <1>5, <1>6

\* emitLocked hands on the events there were and the new one.
LEMMA EmitCopies ==
  ASSUME TypeOK, TypeOK', HistInv, BootInv, ChanInv, VersionStep,
         NEW e \in Event, emitLocked(e), EvVer(data', rv', e)
  PROVE  HistInv' /\ BootInv' /\ ChanInv'
<1>0. history \in Seq(Event) /\ HistCap \in Nat /\ Append(history, e) \in Seq(Event)
      /\ subs \in [Watchers -> Subscription]
  BY StoreAssumption DEF TypeOK
<1>1. HistInv'
  <2> DEFINE a == Append(history, e)
  <2>1. \A i \in 1..Len(a) : EvVer(data', rv', a[i])
    <3> SUFFICES ASSUME NEW i \in 1..Len(a)
                 PROVE  EvVer(data', rv', a[i])
      OBVIOUS
    <3>1. CASE i = Len(history) + 1
      BY <1>0, <3>1
    <3>2. CASE i \in 1..Len(history)
      <4>1. a[i] = history[i] /\ history[i] \in Event /\ EvVer(data, rv, history[i])
        BY <1>0, <3>2 DEF HistInv
      <4>2. QED
        BY <4>1, EvVerKept
    <3>3. QED
      BY <1>0, <3>1, <3>2
  <2>2. a \in Seq(Event) /\ history' = Trim(a)
    BY <1>0 DEF emitLocked
  <2> HIDE DEF a
  <2>3. ASSUME NEW i \in DOMAIN Trim(a)
        PROVE  \E j \in 1..Len(a) : Trim(a)[i] = a[j]
    <3>1. CASE Len(a) > HistCap
      <4> DEFINE off == Len(a) - HistCap
      <4>1. off \in Nat /\ off + HistCap = Len(a) /\ Trim(a) = SubSeq(a, off + 1, Len(a))
        BY <1>0, <2>2, <3>1 DEF Trim
      <4> HIDE DEF off
      <4>2. Len(Trim(a)) = HistCap /\ \A k \in 1..HistCap : Trim(a)[k] = a[off + k]
        BY <1>0, <2>2, <4>1
      <4>3. DOMAIN Trim(a) = 1..HistCap
        BY <1>0, <2>2, <4>1, <4>2
      <4>4. QED
        BY <1>0, <2>3, <4>1, <4>2, <4>3
    <3>2. CASE ~(Len(a) > HistCap)
      BY <2>2, <2>3, <3>2 DEF Trim
    <3>3. QED
      BY <3>1, <3>2
  <2>4. QED
    BY <2>1, <2>2, <2>3 DEF HistInv
<1>2. ASSUME NEW w \in Watchers
      PROVE  /\ subs'[w].boot = subs[w].boot
             /\ \A i \in DOMAIN subs'[w].ch :
                  \/ i \in DOMAIN subs[w].ch /\ subs'[w].ch[i] = subs[w].ch[i]
                  \/ subs'[w].ch[i] = e /\ e.gvr = WatchGVR[w]
  <2>1. subs[w] \in Subscription
    BY <1>0
  <2>2. subs'[w] = IF subs[w].state = "open" /\ WatchGVR[w] = e.gvr THEN Fan(subs[w], e) ELSE subs[w]
    BY DEF emitLocked
  <2>3. CASE subs'[w] = [subs[w] EXCEPT !.ch = Append(@, e)] /\ WatchGVR[w] = e.gvr
    <3>1. subs'[w].boot = subs[w].boot /\ subs'[w].ch = Append(subs[w].ch, e) /\ subs[w].ch \in Seq(Event)
      BY <2>1, <2>3 DEF Subscription
    <3>2. QED
      BY <2>3, <3>1
  <2>4. CASE subs'[w] = [subs[w] EXCEPT !.state = "closed"] \/ subs'[w] = subs[w]
    <3>1. subs'[w].boot = subs[w].boot /\ subs'[w].ch = subs[w].ch
      BY <2>1, <2>4 DEF Subscription
    <3>2. QED
      BY <3>1
  <2>5. QED
    BY <2>2, <2>3, <2>4 DEF Fan, DropSub
<1>3. ASSUME NEW w \in Watchers
      PROVE  /\ \A i \in DOMAIN subs[w].boot : subs[w].boot[i] \in Event
             /\ \A i \in DOMAIN subs[w].ch : subs[w].ch[i] \in Event
  BY <1>0 DEF Subscription
<1>4. BootInv'
  BY <1>2, <1>3, EvVerKept DEF BootInv
<1>5. ChanInv'
  <2> SUFFICES ASSUME NEW w \in Watchers, NEW i \in DOMAIN subs'[w].ch
               PROVE  EvVer(data', rv', subs'[w].ch[i]) /\ subs'[w].ch[i].gvr = WatchGVR[w]
    BY DEF ChanInv
  <2>1. CASE subs'[w].ch[i] = e /\ e.gvr = WatchGVR[w]
    BY <2>1
  <2>2. CASE i \in DOMAIN subs[w].ch /\ subs'[w].ch[i] = subs[w].ch[i]
    <3>1. EvVer(data, rv, subs[w].ch[i]) /\ subs[w].ch[i].gvr = WatchGVR[w] /\ subs[w].ch[i] \in Event
      BY <1>3, <2>2 DEF ChanInv
    <3>2. QED
      BY <2>2, <3>1, EvVerKept
  <2>3. QED
    BY <1>2, <2>1, <2>2
<1>6. QED
  BY <1>1, <1>4, <1>5

\* The copies that clients hold and the views stay known versions while they
\* do not change.
LEMMA HoldersKept ==
  ASSUME TypeOK, TypeOK', VersionStep, HeldInv, ViewInv
  PROVE  /\ (\A c \in Clients : held'[c] \in {held[c], NoCopy}) => HeldInv'
         /\ (\A w \in Watchers : cli'[w].view = cli[w].view) => ViewInv'
<1>1. ASSUME \A c \in Clients : held'[c] \in {held[c], NoCopy}
      PROVE  HeldInv'
  <2> SUFFICES ASSUME NEW c \in Clients, held'[c] # NoCopy
               PROVE  Ver(data', rv', held'[c].gvr, held'[c].name, held'[c].obj)
    BY DEF HeldInv
  <2>1. held'[c] = held[c] /\ held[c] \in Copy /\ Ver(data, rv, held[c].gvr, held[c].name, held[c].obj)
    BY <1>1 DEF HeldInv, TypeOK
  <2>2. held[c].gvr \in GVRs /\ held[c].name \in Names /\ held[c].obj \in Object
    BY <2>1 DEF Copy
  <2>3. QED
    BY <2>1, <2>2, VerKept
<1>2. ASSUME \A w \in Watchers : cli'[w].view = cli[w].view
      PROVE  ViewInv'
  <2> SUFFICES ASSUME NEW w \in Watchers, NEW n \in Names, cli'[w].view[n] # Absent
               PROVE  Ver(data', rv', WatchGVR[w], n, cli'[w].view[n])
    BY DEF ViewInv
  <2>1. cli'[w].view[n] = cli[w].view[n] /\ Ver(data, rv, WatchGVR[w], n, cli[w].view[n])
    BY <1>2 DEF ViewInv
  <2>2. WatchGVR[w] \in GVRs /\ cli[w].view[n] \in Object
    BY <2>1, StoreAssumption DEF TypeOK, ClientState, View
  <2>3. QED
    BY <2>1, <2>2, VerKept
<1>3. QED
  BY <1>1, <1>2

\* A write keeps every copy a known version.
LEMMA CommitCopies ==
  ASSUME TypeOK, TypeOK', CopyInv, NEW g \in GVRs, NEW n \in Names,
         NEW type \in {"ADDED", "MODIFIED", "DELETED"}, NEW obj \in Object,
         NEW stored \in BOOLEAN, Commit(g, n, type, obj, stored),
         UNCHANGED cli, \A c \in Clients : held'[c] \in {held[c], NoCopy}
  PROVE  CopyInv'
<1>1. PICK e \in Event : emitLocked(e) /\ EvVer(data', rv', e)
  BY CommitVersions
<1>2. VersionStep
  BY CommitVersions
<1>3. HistInv' /\ BootInv' /\ ChanInv'
  BY <1>1, <1>2, EmitCopies DEF CopyInv
<1>4. HeldInv' /\ ViewInv'
  BY <1>2, HoldersKept DEF CopyInv
<1>5. QED
  BY <1>3, <1>4 DEF CopyInv

\* A bootstrap consists of retained events or of snapshots.
LEMMA BootstrapEvents ==
  ASSUME TypeOK, NEW g \in GVRs, NEW r \in Nat, NEW b \in Bootstraps(g, r), NEW i \in DOMAIN b
  PROVE  /\ replayFromHistory(r) => b[i] \in HistoryAfter(g, r)
         /\ ~replayFromHistory(r) => b[i] \in Snapshots(g, r)
<1>1. ASSUME NEW S, b \in SetToSeqs(S)
      PROVE  b[i] \in S
  BY <1>1 DEF SetToSeqs
<1>2. QED
  BY <1>1 DEF Bootstraps

\* Watch registers a bootstrap of known versions.
LEMMA WatchCopies ==
  ASSUME TypeOK, TypeOK', HistoryWindow, CopyInv, NEW w \in Watchers, NEW r \in Nat, NEW v \in View,
         NEW x, Watch(w, r, v, x),
         \A n \in Names : v[n] # Absent => Ver(data, rv, WatchGVR[w], n, v[n])
  PROVE  CopyInv'
<1>g. WatchGVR[w] \in GVRs
  BY StoreAssumption
<1>1. PICK b \in Bootstraps(WatchGVR[w], r) :
        /\ subs' = [subs EXCEPT ![w] = [state |-> "open", boot |-> b, ch |-> <<>>, currentRV |-> rv]]
        /\ \E y : cli' = [cli EXCEPT ![w] = [phase |-> "watching", view |-> v, lastRV |-> r,
                                             exact |-> y, origin |-> Origin(r, x)]]
  BY DEF Watch
<1>2. UNCHANGED <<data, rv, history, held>>
  BY DEF Watch
<1>3. \A u \in Watchers : cli'[u].view = IF u = w THEN v ELSE cli[u].view
  BY <1>1 DEF TypeOK
<1>4. \A u \in Watchers : /\ subs'[u].boot = IF u = w THEN b ELSE subs[u].boot
                          /\ subs'[u].ch = IF u = w THEN <<>> ELSE subs[u].ch
  BY <1>1 DEF TypeOK
<1>5. ASSUME NEW i \in DOMAIN b
      PROVE  EvVer(data, rv, b[i]) /\ b[i].gvr = WatchGVR[w]
  <2>1. CASE b[i] \in HistoryAfter(WatchGVR[w], r)
    BY <2>1 DEF HistoryAfter, CopyInv, HistInv
  <2>2. CASE b[i] \in Snapshots(WatchGVR[w], r)
    <3>1. PICK n \in Names :
            /\ data[WatchGVR[w]][n] # Absent
            /\ b[i] = [type |-> "ADDED", gvr |-> WatchGVR[w], name |-> n,
                       obj |-> data[WatchGVR[w]][n], rv |-> data[WatchGVR[w]][n].rv]
      BY <2>2 DEF Snapshots
    <3>2. b[i].gvr = WatchGVR[w] /\ b[i].name = n /\ b[i].obj = data[WatchGVR[w]][n]
      BY <3>1
    <3>3. QED
      BY <1>g, <3>1, <3>2, StoredVer DEF EvVer
  <2>3. QED
    BY <1>g, <2>1, <2>2, BootstrapEvents
<1>6. ViewInv'
  BY <1>2, <1>3 DEF CopyInv, ViewInv
<1>7. BootInv'
  BY <1>2, <1>4, <1>5 DEF CopyInv, BootInv
<1>8. ChanInv'
  <2>1. DOMAIN <<>> = {}
    OBVIOUS
  <2>2. QED
    BY <1>2, <1>4, <2>1 DEF CopyInv, ChanInv
<1>9. QED
  BY <1>2, <1>6, <1>7, <1>8 DEF CopyInv, HeldInv, HistInv

\* A delivered event is a known version in the view.
LEMMA DeliverCopies ==
  ASSUME TypeOK, ViewInv, NEW w \in Watchers, NEW e \in Event, NEW x \in BOOLEAN, Deliver(w, e, x),
         EvVer(data, rv, e), e.gvr = WatchGVR[w], UNCHANGED <<data, rv>>
  PROVE  ViewInv'
<1>1. cli[w] \in ClientState /\ e.name \in Names
  BY DEF TypeOK, Event
<1>2. \A u \in Watchers \ {w} : cli'[u] = cli[u]
  BY DEF Deliver, TypeOK
<1>3. cli'[w].view \in {cli[w].view, [cli[w].view EXCEPT ![e.name] = Applied(e)]}
  <2>1. cli'[w] \in {[cli[w] EXCEPT !.exact = x],
                     [cli[w] EXCEPT !.view[e.name] = Applied(e), !.lastRV = e.rv, !.exact = x]}
    BY DEF Deliver, TypeOK
  <2>2. QED
    BY <1>1, <2>1 DEF ClientState
<1>4. \A n \in Names : cli'[w].view[n] = cli[w].view[n] \/ (n = e.name /\ cli'[w].view[n] \in {Absent, e.obj})
  BY <1>1, <1>3 DEF Applied, ClientState, View
<1>5. QED
  BY <1>2, <1>4 DEF ViewInv, EvVer

\* A step of a pump goroutine keeps every copy a known version.
LEMMA PumpCopies ==
  ASSUME TypeOK, CopyInv, NEW w \in Watchers, Pump(w)
  PROVE  CopyInv'
<1>0. subs[w] \in Subscription /\ cli[w] \in ClientState
      /\ subs[w].boot \in Seq(Event) /\ subs[w].ch \in Seq(Event)
  BY DEF TypeOK, Subscription
<1>u. UNCHANGED <<data, rv, history, held>>
  BY DEF Pump, PumpBootstrap, PumpLive, StreamEnd
<1>t. ASSUME NEW s \in Seq(Event), s # <<>>
      PROVE  /\ Head(s) = s[1] /\ 1 \in DOMAIN s /\ s[1] \in Event
             /\ \A i \in DOMAIN Tail(s) : i + 1 \in DOMAIN s /\ Tail(s)[i] = s[i + 1]
  BY <1>t
<1>1. CASE PumpBootstrap(w)
  <2>1. /\ subs[w].boot # <<>>
        /\ subs' = [subs EXCEPT ![w].boot = Tail(@)]
    BY <1>1 DEF PumpBootstrap
  <2>2. \A u \in Watchers : /\ subs'[u].boot = IF u = w THEN Tail(subs[w].boot) ELSE subs[u].boot
                            /\ subs'[u].ch = subs[u].ch
    BY <1>0, <2>1 DEF TypeOK, Subscription
  <2>3. ViewInv'
    <3> DEFINE x == cli[w].exact \/ (Len(subs[w].boot) = 1 /\ cli[w].origin = "complete")
    <3>1. x \in BOOLEAN /\ Deliver(w, Head(subs[w].boot), x)
      BY <1>0, <1>1 DEF PumpBootstrap, ClientState
    <3> HIDE DEF x
    <3>2. EvVer(data, rv, Head(subs[w].boot)) /\ Head(subs[w].boot).gvr = WatchGVR[w]
          /\ Head(subs[w].boot) \in Event
      BY <1>0, <1>t, <2>1 DEF CopyInv, BootInv
    <3>3. QED
      BY <1>u, <3>1, <3>2, DeliverCopies DEF CopyInv
  <2>4. BootInv' /\ ChanInv'
    BY <1>0, <1>u, <1>t, <2>1, <2>2 DEF CopyInv, BootInv, ChanInv
  <2>5. QED
    BY <1>u, <2>3, <2>4 DEF CopyInv, HeldInv, HistInv
<1>2. CASE PumpLive(w)
  <2>1. /\ subs[w].ch # <<>>
        /\ subs' = [subs EXCEPT ![w].ch = Tail(@)]
    BY <1>2 DEF PumpLive
  <2>2. \A u \in Watchers : /\ subs'[u].ch = IF u = w THEN Tail(subs[w].ch) ELSE subs[u].ch
                            /\ subs'[u].boot = subs[u].boot
    BY <1>0, <2>1 DEF TypeOK, Subscription
  <2>3. ViewInv'
    <3>1. CASE UNCHANGED cli
      BY <1>u, <3>1 DEF CopyInv, ViewInv
    <3>2. CASE Deliver(w, Head(subs[w].ch), cli[w].exact)
      <4>1. EvVer(data, rv, Head(subs[w].ch)) /\ Head(subs[w].ch).gvr = WatchGVR[w]
            /\ Head(subs[w].ch) \in Event /\ cli[w].exact \in BOOLEAN
        BY <1>0, <1>t, <2>1 DEF CopyInv, ChanInv, ClientState
      <4>2. QED
        BY <1>u, <3>2, <4>1, DeliverCopies DEF CopyInv
    <3>3. QED
      BY <1>2, <3>1, <3>2 DEF PumpLive
  <2>4. BootInv' /\ ChanInv'
    BY <1>0, <1>u, <1>t, <2>1, <2>2 DEF CopyInv, BootInv, ChanInv
  <2>5. QED
    BY <1>u, <2>3, <2>4 DEF CopyInv, HeldInv, HistInv
<1>3. CASE StreamEnd(w)
  <2>1. \A u \in Watchers : subs'[u] = IF u = w THEN NoSub ELSE subs[u]
    BY <1>3 DEF StreamEnd, TypeOK
  <2>2. DOMAIN NoSub.boot = {} /\ DOMAIN NoSub.ch = {}
    BY DEF NoSub
  <2>3. \A u \in Watchers : cli'[u].view = cli[u].view
    BY <1>0, <1>3 DEF StreamEnd, TypeOK, ClientState
  <2>4. QED
    BY <1>u, <2>1, <2>2, <2>3 DEF CopyInv, HeldInv, ViewInv, HistInv, BootInv, ChanInv
<1>4. QED
  BY <1>1, <1>2, <1>3 DEF Pump

\* Opening a stream, or listing, keeps every copy a known version.
LEMMA OpenCopies ==
  ASSUME TypeOK, TypeOK', HistoryWindow, CopyInv, NEW w \in Watchers, Open(w)
  PROVE  CopyInv'
<1>0. cli[w] \in ClientState /\ cli[w].view \in View /\ cli[w].lastRV \in Nat /\ WatchGVR[w] \in GVRs
  BY StoreAssumption DEF TypeOK, ClientState
<1>1. CASE List(w)
  <2>1. \A u \in Watchers : cli'[u].view = IF u = w THEN Truth(w) ELSE cli[u].view
    BY <1>1 DEF List, TypeOK
  <2>2. \A n \in Names : Truth(w)[n] # Absent => Ver(data, rv, WatchGVR[w], n, Truth(w)[n])
    BY <1>0, StoredVer DEF Truth
  <2>3. UNCHANGED <<data, rv, history, subs, held>>
    BY <1>1 DEF List
  <2>4. ViewInv'
    BY <2>1, <2>2, <2>3 DEF CopyInv, ViewInv
  <2>5. QED
    BY <2>3, <2>4 DEF CopyInv, HeldInv, HistInv, BootInv, ChanInv
<1>2. CASE WatchNow(w)
  <2>1. EmptyView \in View /\ \A n \in Names : EmptyView[n] = Absent
    BY DEF EmptyView, View
  <2>2. QED
    BY <1>2, <2>1, WatchCopies DEF WatchNow
<1>3. CASE WatchListed(w) \/ Resume(w)
  <2>1. Watch(w, cli[w].lastRV, cli[w].view, cli[w].exact)
    BY <1>3 DEF WatchListed, Resume
  <2>2. \A n \in Names : cli[w].view[n] # Absent => Ver(data, rv, WatchGVR[w], n, cli[w].view[n])
    BY DEF CopyInv, ViewInv
  <2>3. QED
    BY <1>0, <2>1, <2>2, WatchCopies
<1>4. QED
  BY <1>1, <1>2, <1>3 DEF Open

\* Every step keeps every copy a known version, unless a power loss hands out
\* resourceVersions again.
LEMMA NextCopies ==
  ASSUME "powerloss" \notin FaultKinds, TypeOK, TypeOK', HistoryWindow, CopyInv, [Next]_vars
  PROVE  CopyInv'
<1>0. ASSUME UNCHANGED <<data, rv, history, subs, held, cli>>
      PROVE  CopyInv'
  BY <1>0 DEF CopyInv, HeldInv, ViewInv, HistInv, BootInv, ChanInv
<1>1. ASSUME NEW g \in GVRs, NEW n \in Names, NEW s \in Specs, NEW l \in Labels,
             Create(g, n, s, l)
      PROVE  CopyInv'
  <2> DEFINE o == [uid |-> uids + 1, rv |-> 0, gen |-> 1, spec |-> s,
                   status |-> NoStatus, label |-> l]
  <2>1. o \in Object
    BY StoreAssumption DEF TypeOK, Object
  <2>2. Commit(g, n, "ADDED", o, TRUE) /\ UNCHANGED <<held, cli>>
    BY <1>1 DEF Create
  <2> HIDE DEF o
  <2>3. QED
    BY <2>1, <2>2, CommitCopies
<1>2. ASSUME NEW g \in GVRs, NEW n \in Names, NEW isStatus \in BOOLEAN,
             Patch(g, n, isStatus)
      PROVE  CopyInv'
  <2>1. data[g][n] \in Object
    BY <1>2 DEF Patch, TypeOK, View
  <2>2. PICK p \in Edits(data[g][n]) :
          Commit(g, n, "MODIFIED", mergeForUpdate(data[g][n], p, isStatus), TRUE)
    BY <1>2 DEF Patch
  <2>3. mergeForUpdate(data[g][n], p, isStatus) \in Object /\ UNCHANGED <<held, cli>>
    BY <1>2, <2>1, EditsType, MergeType DEF Patch
  <2>4. QED
    BY <2>2, <2>3, CommitCopies
<1>3. ASSUME NEW g \in GVRs, NEW n \in Names, Delete(g, n)
      PROVE  CopyInv'
  <2>1. data[g][n] \in Object
    BY <1>3 DEF Delete, TypeOK, View
  <2>2. QED
    BY <1>3, <2>1, CommitCopies DEF Delete
<1>4. ASSUME NEW c \in Clients, NEW isStatus \in BOOLEAN, NEW conditional \in BOOLEAN,
             Update(c, isStatus, conditional)
      PROVE  CopyInv'
  <2> DEFINE g == held[c].gvr
             n == held[c].name
  <2>1. held[c] \in Copy
    BY <1>4 DEF Update, TypeOK
  <2>2. g \in GVRs /\ n \in Names /\ held[c].obj \in Object
    BY <2>1 DEF Copy
  <2>3. data[g][n] \in Object
    BY <1>4, <2>2 DEF Update, TypeOK, View
  <2>4. PICK i \in Edits(held[c].obj) :
          Commit(g, n, "MODIFIED", mergeForUpdate(data[g][n], i, isStatus), TRUE)
    BY <1>4 DEF Update
  <2>5. mergeForUpdate(data[g][n], i, isStatus) \in Object
    BY <2>2, <2>3, EditsType, MergeType
  <2>6. UNCHANGED cli /\ \A k \in Clients : held'[k] \in {held[k], NoCopy}
    BY <1>4 DEF Update, TypeOK
  <2> HIDE DEF g, n
  <2>7. QED
    BY <2>2, <2>4, <2>5, <2>6, CommitCopies
<1>5. ASSUME NEW c \in Clients, NEW g \in GVRs, NEW n \in Names, Get(c, g, n)
      PROVE  CopyInv'
  <2>1. Ver(data, rv, g, n, data[g][n])
    BY <1>5, StoredVer DEF Get
  <2>2. \A k \in Clients : held'[k] = IF k = c THEN [gvr |-> g, name |-> n, obj |-> data[g][n]]
                                               ELSE held[k]
    BY <1>5 DEF Get, TypeOK
  <2>3. UNCHANGED <<data, rv, history, subs, cli>>
    BY <1>5 DEF Get
  <2>4. HeldInv'
    BY <2>1, <2>2, <2>3 DEF CopyInv, HeldInv
  <2>5. QED
    BY <2>3, <2>4 DEF CopyInv, ViewInv, HistInv, BootInv, ChanInv
<1>6. ASSUME NEW w \in Watchers, Disconnect(w)
      PROVE  CopyInv'
  <2>1. UNCHANGED <<data, rv, history, held>> /\ \A u \in Watchers : subs'[u] \in {NoSub, subs[u]}
    BY <1>6 DEF Disconnect, TypeOK
  <2>2. DOMAIN NoSub.boot = {} /\ DOMAIN NoSub.ch = {}
    BY DEF NoSub
  <2>3. \A u \in Watchers : cli'[u].view = cli[u].view
    BY <1>6 DEF Disconnect, TypeOK, ClientState
  <2>4. QED
    BY <2>1, <2>2, <2>3 DEF CopyInv, HeldInv, ViewInv, HistInv, BootInv, ChanInv
<1>7. CASE Restart
  <2>1. UNCHANGED <<data, rv, held>> /\ history' = <<>> /\ \A u \in Watchers : subs'[u] = NoSub
    BY <1>7 DEF Restart, Boot
  <2>2. DOMAIN NoSub.boot = {} /\ DOMAIN NoSub.ch = {} /\ DOMAIN history' = {}
    BY <2>1 DEF NoSub
  <2>3. ASSUME NEW u \in Watchers
        PROVE  cli'[u].view = cli[u].view
    <3>1. cli'[u] = [cli[u] EXCEPT !.phase = IF @ = "watching" THEN "closed" ELSE @, !.exact = @ /\ rv = rv]
      BY <1>7 DEF Restart, Boot
    <3>2. cli[u] \in ClientState
      BY DEF TypeOK
    <3>3. QED
      BY <3>1, <3>2 DEF ClientState
  <2>4. QED
    BY <2>1, <2>2, <2>3 DEF CopyInv, HeldInv, ViewInv, HistInv, BootInv, ChanInv
<1>8. CASE Sync \/ UNCHANGED vars
  BY <1>0, <1>8 DEF Sync, vars
<1>9. CASE PowerLoss
  BY <1>9 DEF PowerLoss, Fault
<1>10. QED
  BY <1>1, <1>2, <1>3, <1>4, <1>5, <1>6, <1>7, <1>8, <1>9, PumpCopies, OpenCopies DEF Next, Write

\* Where no power loss takes writes back, a resourceVersion identifies one
\* version of an object for ever: whatever copy a client, a view or the history
\* has, if its resourceVersion is the stored object's it is the stored object,
\* across deletion, re-creation and restart (the precondition of Update and
\* Patch, nextRV, LoadFrom).
THEOREM VersionsAreUnique ==
  ASSUME "powerloss" \notin FaultKinds
  PROVE  Spec => []RVIdentifiesVersion
<1>1. Init => CopyInv
  <2> SUFFICES ASSUME Init PROVE CopyInv
    OBVIOUS
  <2>1. DOMAIN NoSub.boot = {} /\ DOMAIN NoSub.ch = {} /\ DOMAIN history = {}
    BY DEF NoSub, Init
  <2>2. \A c \in Clients : held[c] = NoCopy
    BY DEF Init
  <2>3. \A w \in Watchers : subs[w] = NoSub /\ \A n \in Names : cli[w].view[n] = Absent
    <3>1. \A n \in Names : EmptyView[n] = Absent
      BY DEF EmptyView
    <3>2. QED
      BY <3>1 DEF Init
  <2>4. QED
    BY <2>1, <2>2, <2>3 DEF CopyInv, HeldInv, ViewInv, HistInv, BootInv, ChanInv
<1>2. TypeOK /\ TypeOK' /\ HistoryWindow /\ CopyInv /\ [Next]_vars => CopyInv'
  BY NextCopies
<1>3. TypeOK /\ CopyInv => RVIdentifiesVersion
  <2> SUFFICES ASSUME CopyInv, NEW g \in GVRs, NEW n \in Names, data[g][n] # Absent,
                      NEW o \in CopiesOf(g, n) \ {Absent}, o.rv = data[g][n].rv
               PROVE  o = data[g][n]
    BY DEF RVIdentifiesVersion
  <2>1. CASE \E c \in Clients : held[c] # NoCopy /\ held[c].gvr = g /\ held[c].name = n /\ o = held[c].obj
    BY <2>1 DEF CopyInv, HeldInv, Ver
  <2>2. CASE \E w \in Watchers : WatchGVR[w] = g /\ o = cli[w].view[n]
    BY <2>2 DEF CopyInv, ViewInv, Ver
  <2>3. CASE \E i \in DOMAIN history : history[i].gvr = g /\ history[i].name = n /\ o = history[i].obj
    BY <2>3 DEF CopyInv, HistInv, EvVer, Ver
  <2>4. QED
    BY <2>1, <2>2, <2>3 DEF CopiesOf
<1>4. QED
  BY <1>1, <1>2, <1>3, StoreTypeCorrect, WindowHolds, PTL DEF Spec

----------------------------------------------------------------------------
(* What the store's history is worth.  Upto is the one notion that the     *)
(* rest is about: o is what the store has for object n of g, or the event  *)
(* that changed it is newer than r.  Of an object that is gone that event  *)
(* is in the history h, unless the history no longer reaches back to r.    *)

Gone(h, c, g, n, r) ==
  \/ r < c /\ (h = <<>> \/ r < h[1].rv)
  \/ \E i \in DOMAIN h : h[i].gvr = g /\ h[i].name = n /\ h[i].rv > r
Upto(d, h, c, g, n, r, o) ==
  /\ d[g][n] # Absent => o = d[g][n] \/ d[g][n].rv > r
  /\ d[g][n] = Absent => o = Absent \/ Gone(h, c, g, n, r)

\* the window, by position
HistPos == \A i \in DOMAIN history : history[i].rv = rv - Len(history) + i
\* an event tells the truth up to itself
HistTells ==
  \A i \in DOMAIN history :
    Upto(data, history, rv, history[i].gvr, history[i].name, history[i].rv, Applied(history[i]))
\* what was written within the window has its event
HistHas ==
  \A g \in GVRs, n \in Names :
    data[g][n] # Absent /\ history # <<>> /\ data[g][n].rv >= history[1].rv =>
      \E i \in DOMAIN history : history[i].gvr = g /\ history[i].name = n
                                /\ history[i].rv = data[g][n].rv
\* the disk is behind, or the same
DiskBehind == flushed.rv <= rv /\ (flushed.rv = rv => flushed.data = data)
StoreInv == HistPos /\ HistTells /\ HistHas /\ DiskBehind

\* the effect of a write, with the event it emits
Wrote(g, n, e) ==
  /\ e.gvr = g /\ e.name = n /\ e.rv = rv + 1 /\ e.obj.rv = rv + 1
  /\ rv' = rv + 1 /\ emitLocked(e)
  /\ data'[g][n] = Applied(e)
  /\ \A h \in GVRs, m \in Names : ~(h = g /\ m = n) => data'[h][m] = data[h][m]
Writes == UNCHANGED <<flushed, cli>> /\ \E g \in GVRs, n \in Names, e \in Event : Wrote(g, n, e)

\* Commit is a write.
LEMMA CommitWrote ==
  ASSUME TypeOK, NEW g \in GVRs, NEW n \in Names,
         NEW type \in {"ADDED", "MODIFIED", "DELETED"}, NEW obj \in Object,
         Commit(g, n, type, obj, type # "DELETED"), UNCHANGED <<flushed, cli>>
  PROVE  Writes
<1> DEFINE s == [obj EXCEPT !.rv = rv + 1]
           e == [type |-> type, gvr |-> g, name |-> n, obj |-> s, rv |-> rv + 1]
<1>0. rv \in Nat /\ rv + 1 \in Nat /\ rv' = rv + 1
  BY StoreAssumption DEF TypeOK, Commit
<1>1. s \in Object /\ s.rv = rv + 1
  BY <1>0, StampType DEF Object
<1>2. e \in Event /\ e.gvr = g /\ e.name = n /\ e.obj = s /\ e.rv = rv + 1 /\ e.type = type
  BY <1>0, <1>1 DEF Event
<1>3. emitLocked(e) /\ data' = [data EXCEPT ![g][n] = IF type # "DELETED" THEN s ELSE Absent]
  BY DEF Commit
<1> HIDE DEF s, e
<1>4. \A h \in GVRs, m \in Names :
        data'[h][m] = IF h = g /\ m = n THEN (IF type # "DELETED" THEN s ELSE Absent) ELSE data[h][m]
  BY <1>3 DEF TypeOK, View
<1>5. data'[g][n] = Applied(e)
  BY <1>2, <1>4 DEF Applied
<1>6. Wrote(g, n, e)
  BY <1>0, <1>1, <1>2, <1>3, <1>4, <1>5 DEF Wrote
<1>7. QED
  BY <1>2, <1>6 DEF Writes

\* A step writes, serves a watcher, boots, or leaves data and streams alone.
LEMMA StoreSteps ==
  ASSUME TypeOK, [Next]_vars
  PROVE  \/ Writes
         \/ UNCHANGED <<data, rv, history, flushed>>
            /\ \E w \in Watchers : Pump(w) \/ Open(w) \/ Disconnect(w)
         \/ (Boot(data, rv) \/ Boot(flushed.data, flushed.rv)) /\ UNCHANGED flushed
         \/ Sync \/ UNCHANGED <<data, rv, history, subs, flushed, cli>>
<1>1. ASSUME NEW g \in GVRs, NEW n \in Names, NEW s \in Specs, NEW l \in Labels,
             Create(g, n, s, l)
      PROVE  Writes
  <2> DEFINE o == [uid |-> uids + 1, rv |-> 0, gen |-> 1, spec |-> s,
                   status |-> NoStatus, label |-> l]
  <2>1. o \in Object
    BY StoreAssumption DEF TypeOK, Object
  <2>2. Commit(g, n, "ADDED", o, "ADDED" # "DELETED") /\ UNCHANGED <<flushed, cli>>
    <3>1. Commit(g, n, "ADDED", o, TRUE) /\ UNCHANGED <<flushed, cli>> /\ ("ADDED" # "DELETED") = TRUE
      BY <1>1 DEF Create
    <3>2. QED
      BY <3>1
  <2> HIDE DEF o
  <2>3. QED
    BY <2>1, <2>2, CommitWrote
<1>m. ASSUME NEW g \in GVRs, NEW n \in Names, NEW o \in Object, Commit(g, n, "MODIFIED", o, TRUE),
             UNCHANGED <<flushed, cli>>
      PROVE  Writes
  <2>1. Commit(g, n, "MODIFIED", o, "MODIFIED" # "DELETED")
    <3>1. ("MODIFIED" # "DELETED") = TRUE
      OBVIOUS
    <3>2. QED
      BY <1>m, <3>1
  <2>2. QED
    BY <1>m, <2>1, CommitWrote
<1>2. ASSUME NEW g \in GVRs, NEW n \in Names, NEW isStatus \in BOOLEAN,
             Patch(g, n, isStatus)
      PROVE  Writes
  <2>1. data[g][n] \in Object
    BY <1>2 DEF Patch, TypeOK, View
  <2>2. PICK p \in Edits(data[g][n]) :
          Commit(g, n, "MODIFIED", mergeForUpdate(data[g][n], p, isStatus), TRUE)
    BY <1>2 DEF Patch
  <2>3. mergeForUpdate(data[g][n], p, isStatus) \in Object /\ UNCHANGED <<flushed, cli>>
    BY <1>2, <2>1, EditsType, MergeType DEF Patch
  <2>4. QED
    BY <1>m, <2>2, <2>3
<1>3. ASSUME NEW g \in GVRs, NEW n \in Names, Delete(g, n)
      PROVE  Writes
  <2>1. data[g][n] \in Object /\ UNCHANGED <<flushed, cli>>
    BY <1>3 DEF Delete, TypeOK, View
  <2>2. Commit(g, n, "DELETED", data[g][n], FALSE) /\ ("DELETED" # "DELETED") = FALSE
    BY <1>3 DEF Delete
  <2>3. Commit(g, n, "DELETED", data[g][n], "DELETED" # "DELETED")
    BY <2>2
  <2>4. QED
    BY <2>1, <2>3, CommitWrote
<1>4. ASSUME NEW c \in Clients, NEW isStatus \in BOOLEAN, NEW conditional \in BOOLEAN,
             Update(c, isStatus, conditional)
      PROVE  Writes
  <2> DEFINE g == held[c].gvr
             n == held[c].name
  <2>1. held[c] \in Copy
    BY <1>4 DEF Update, TypeOK
  <2>2. g \in GVRs /\ n \in Names /\ held[c].obj \in Object
    BY <2>1 DEF Copy
  <2>3. data[g][n] \in Object
    BY <1>4, <2>2 DEF Update, TypeOK, View
  <2>4. PICK i \in Edits(held[c].obj) :
          Commit(g, n, "MODIFIED", mergeForUpdate(data[g][n], i, isStatus), TRUE)
    BY <1>4 DEF Update
  <2>5. mergeForUpdate(data[g][n], i, isStatus) \in Object /\ UNCHANGED <<flushed, cli>>
    BY <1>4, <2>2, <2>3, EditsType, MergeType DEF Update
  <2> HIDE DEF g, n
  <2>6. QED
    BY <1>m, <2>2, <2>4, <2>5
<1>5. CASE \E c \in Clients, g \in GVRs, n \in Names : Get(c, g, n)
  BY <1>5 DEF Get
<1>6. CASE \E w \in Watchers : Pump(w) \/ Open(w) \/ Disconnect(w)
  BY <1>6, ZenonT(40) DEF Pump, PumpBootstrap, PumpLive, StreamEnd, Open, List, WatchNow,
                    WatchListed, Resume, Watch, Disconnect
<1>7. CASE Restart \/ PowerLoss
  BY <1>7 DEF Restart, PowerLoss
<1>8. CASE UNCHANGED vars
  BY <1>8 DEF vars
<1>9. QED
  BY <1>1, <1>2, <1>3, <1>4, <1>5, <1>6, <1>7, <1>8 DEF Next, Write

\* What emitLocked makes of the history.
LEMMA EmitHistory ==
  ASSUME TypeOK, TypeOK', HistPos, NEW e \in Event, emitLocked(e), e.rv = rv + 1, rv' = rv + 1
  PROVE  /\ HistPos' /\ history' # <<>>
         /\ \E i \in DOMAIN history' : history'[i] = e
         /\ \A i \in DOMAIN history' : history'[i] = e \/ \E k \in DOMAIN history : history'[i] = history[k]
         /\ \A k \in DOMAIN history : \/ history[k].rv < history'[1].rv
                                      \/ \E i \in DOMAIN history' : history'[i] = history[k]
         /\ history # <<>> => history[1].rv <= history'[1].rv
         /\ history = <<>> => history'[1].rv = rv + 1
<1> DEFINE a == Append(history, e)
<1>0. /\ history \in Seq(Event) /\ Len(history) \in Nat /\ HistCap \in Nat /\ HistCap > 0 /\ rv \in Nat
      /\ DOMAIN history = 1..Len(history) /\ history' \in Seq(Event) /\ history' = Trim(a)
  BY StoreAssumption DEF TypeOK, emitLocked
<1>1. /\ a \in Seq(Event) /\ Len(a) = Len(history) + 1 /\ a[Len(history) + 1] = e
      /\ \A i \in 1..Len(history) : a[i] = history[i]
  BY <1>0
<1> HIDE DEF a
<1>2. PICK off \in 0..Len(history) : /\ Len(history') = Len(history) + 1 - off
                                     /\ \A i \in 1..(Len(history) + 1 - off) : history'[i] = a[off + i]
  <2>1. CASE Len(a) > HistCap
    <3> DEFINE o == Len(a) - HistCap
    <3>0. history' = SubSeq(a, o + 1, Len(a))
      BY <1>0, <2>1 DEF Trim
    <3>1. o \in 0..Len(history) /\ o + HistCap = Len(a) /\ history' = SubSeq(a, o + 1, Len(a))
      BY <1>0, <1>1, <2>1, <3>0
    <3> HIDE DEF o
    <3>2. Len(history') = HistCap /\ \A k \in 1..HistCap : history'[k] = a[o + k]
      BY <1>0, <1>1, <3>1
    <3>3. QED
      BY <1>0, <1>1, <3>1, <3>2
  <2>2. CASE ~(Len(a) > HistCap)
    <3>1. history' = a
      BY <1>0, <2>2 DEF Trim
    <3>2. QED
      BY <1>0, <1>1, <3>1
  <2>3. QED
    BY <2>1, <2>2
<1>3. DOMAIN history' = 1..(Len(history) + 1 - off) /\ off \in Nat
  BY <1>0, <1>2
<1>4. ASSUME NEW i \in 1..(Len(history) + 1 - off)
      PROVE  /\ i < Len(history) + 1 - off => off + i \in 1..Len(history) /\ history'[i] = history[off + i]
             /\ i = Len(history) + 1 - off => history'[i] = e
  BY <1>0, <1>1, <1>2
<1>5. HistPos'
  <2> SUFFICES ASSUME NEW i \in 1..(Len(history) + 1 - off)
               PROVE  history'[i].rv = rv' - Len(history') + i
    BY <1>3 DEF HistPos
  <2>1. CASE i < Len(history) + 1 - off
    <3>1. history'[i].rv = rv - Len(history) + (off + i)
      BY <1>0, <1>4, <2>1 DEF HistPos
    <3>2. QED
      BY <1>0, <1>2, <3>1
  <2>2. CASE i = Len(history) + 1 - off
    BY <1>0, <1>2, <1>4, <2>2
  <2>3. QED
    BY <1>0, <2>1, <2>2
<1>6. Len(history) + 1 - off \in 1..(Len(history) + 1 - off) /\ 1 \in 1..(Len(history) + 1 - off)
  BY <1>0, <1>2
<1>7. history' # <<>> /\ \E i \in DOMAIN history' : history'[i] = e
  BY <1>3, <1>4, <1>6
<1>8. \A i \in DOMAIN history' : history'[i] = e \/ \E k \in DOMAIN history : history'[i] = history[k]
  <2> SUFFICES ASSUME NEW i \in 1..(Len(history) + 1 - off)
               PROVE  history'[i] = e \/ \E k \in 1..Len(history) : history'[i] = history[k]
    BY <1>0, <1>3
  <2>1. i < Len(history) + 1 - off \/ i = Len(history) + 1 - off
    BY <1>0, <1>3
  <2>2. QED
    BY <1>4, <2>1
<1>9. history'[1].rv = rv + 1 - (Len(history) + 1 - off) + 1
  <2>1. history'[1].rv = rv' - Len(history') + 1
    BY <1>3, <1>5, <1>6 DEF HistPos
  <2>2. Len(history') = Len(history) + 1 - off /\ rv' = rv + 1
    BY <1>2
  <2>3. QED
    BY <1>0, <1>3, <2>1, <2>2
<1>10. ASSUME NEW k \in DOMAIN history
       PROVE  \/ history[k].rv < history'[1].rv
              \/ \E i \in DOMAIN history' : history'[i] = history[k]
  <2>1. CASE k <= off
    <3>1. history[k].rv = rv - Len(history) + k
      BY DEF HistPos
    <3>2. QED
      BY <1>0, <1>9, <2>1, <3>1
  <2>2. CASE k > off
    <3>1. k - off \in 1..(Len(history) + 1 - off) /\ k - off < Len(history) + 1 - off /\ off + (k - off) = k
      BY <1>0, <1>3, <2>2
    <3>2. history'[k - off] = history[k]
      BY <1>4, <3>1
    <3>3. QED
      BY <1>3, <3>1, <3>2
  <2>3. QED
    BY <1>0, <1>3, <2>1, <2>2
<1>11. history # <<>> => history[1].rv <= history'[1].rv
  <2> SUFFICES ASSUME history # <<>>
               PROVE  history[1].rv <= history'[1].rv
    OBVIOUS
  <2>1. 1 \in DOMAIN history
    BY <1>0
  <2>2. history[1].rv = rv - Len(history) + 1
    BY <2>1 DEF HistPos
  <2>3. QED
    BY <1>0, <1>3, <1>9, <2>2
<1>12. history = <<>> => history'[1].rv = rv + 1
  <2> SUFFICES ASSUME history = <<>>
               PROVE  history'[1].rv = rv + 1
    OBVIOUS
  <2>1. Len(history) = 0
    OBVIOUS
  <2>2. QED
    BY <1>0, <1>2, <1>9, <2>1
<1>13. QED
  BY <1>5, <1>7, <1>8, <1>10, <1>11, <1>12

\* The types of the events of a sequence.
LEMMA EventsOf ==
  ASSUME NEW h \in Seq(Event)
  PROVE  /\ Len(h) \in Nat /\ DOMAIN h = 1..Len(h)
         /\ h # <<>> => 1 \in DOMAIN h
         /\ h = <<>> => DOMAIN h = {}
         /\ \A i \in DOMAIN h : /\ h[i] \in Event /\ h[i].gvr \in GVRs /\ h[i].name \in Names
                                /\ h[i].rv \in Nat /\ h[i].obj \in Object
<1>1. Len(h) \in Nat /\ DOMAIN h = 1..Len(h) /\ \A i \in DOMAIN h : h[i] \in Event
  OBVIOUS
<1>2. h # <<>> => 1 \in DOMAIN h
  BY <1>1
<1>3. h = <<>> => DOMAIN h = {}
  OBVIOUS
<1>4. \A i \in DOMAIN h : /\ h[i] \in Event /\ h[i].gvr \in GVRs /\ h[i].name \in Names
                         /\ h[i].rv \in Nat /\ h[i].obj \in Object
  BY <1>1 DEF Event
<1>5. QED
  BY <1>1, <1>2, <1>3, <1>4

\* What is right up to r is right up to anything before it.
LEMMA UptoMono ==
  ASSUME TypeOK, NEW g \in GVRs, NEW n \in Names, NEW r \in Nat, NEW q \in Nat, q <= r, NEW o,
         Upto(data, history, rv, g, n, r, o)
  PROVE  Upto(data, history, rv, g, n, q, o)
<1>1. /\ rv \in Nat /\ \A i \in DOMAIN history : history[i].rv \in Nat
      /\ history # <<>> => 1 \in DOMAIN history
      /\ data[g][n] # Absent => data[g][n].rv \in Nat
  <2>1. rv \in Nat /\ history \in Seq(Event) /\ data[g][n] \in Object \cup {Absent}
    BY StoreAssumption DEF TypeOK, View
  <2>2. data[g][n] # Absent => data[g][n].rv \in Nat
    BY <2>1 DEF Object
  <2>3. QED
    BY <2>1, <2>2, EventsOf
<1>2. QED
  BY <1>1 DEF Upto, Gone

\* What is right up to the counter is right.
LEMMA UptoNow ==
  ASSUME TypeOK, HistoryWindow, HistPos, NEW g \in GVRs, NEW n \in Names, NEW o,
         Upto(data, history, rv, g, n, rv, o)
  PROVE  o = data[g][n]
<1>1. rv \in Nat /\ Len(history) \in Nat /\ DOMAIN history = 1..Len(history)
  BY StoreAssumption DEF TypeOK
<1>2. data[g][n] # Absent => data[g][n].rv \in 1..rv
  BY DEF HistoryWindow, Versioned
<1>3. \A i \in DOMAIN history : ~(history[i].rv > rv)
  BY <1>1 DEF HistPos
<1>4. ~Gone(history, rv, g, n, rv)
  BY <1>1, <1>3 DEF Gone
<1>5. data[g][n] # Absent => ~(data[g][n].rv > rv)
  BY <1>1, <1>2
<1>6. QED
  BY <1>4, <1>5 DEF Upto

\* About an object that is being written, anything was right up to before.
LEMMA UptoWritten ==
  ASSUME TypeOK, TypeOK', HistPos, NEW g0 \in GVRs, NEW n0 \in Names, NEW e \in Event, Wrote(g0, n0, e),
         NEW r \in Nat, r <= rv, NEW o
  PROVE  Upto(data', history', rv', g0, n0, r, o)
<1>0. /\ e.gvr = g0 /\ e.name = n0 /\ e.rv = rv + 1 /\ e.obj.rv = rv + 1 /\ rv' = rv + 1
      /\ data'[g0][n0] = Applied(e) /\ emitLocked(e) /\ rv \in Nat
  BY StoreAssumption DEF Wrote, TypeOK
<1>1. \E i \in DOMAIN history' : history'[i] = e
  BY <1>0, EmitHistory
<1>2. data'[g0][n0] # Absent => data'[g0][n0].rv > r
  BY <1>0 DEF Applied
<1>3. Gone(history', rv', g0, n0, r)
  BY <1>0, <1>1 DEF Gone
<1>4. QED
  BY <1>2, <1>3 DEF Upto

\* A write leaves right what was right up to some point before it.
LEMMA UptoWrote ==
  ASSUME TypeOK, TypeOK', HistPos, NEW g0 \in GVRs, NEW n0 \in Names, NEW e \in Event, Wrote(g0, n0, e),
         NEW g \in GVRs, NEW n \in Names, NEW r \in Nat, r <= rv, NEW o,
         Upto(data, history, rv, g, n, r, o)
  PROVE  Upto(data', history', rv', g, n, r, o)
<1>0. /\ e.gvr = g0 /\ e.name = n0 /\ e.rv = rv + 1 /\ e.obj.rv = rv + 1 /\ rv' = rv + 1
      /\ data'[g0][n0] = Applied(e) /\ emitLocked(e) /\ rv \in Nat
  BY StoreAssumption DEF Wrote, TypeOK
<1>h. /\ history' # <<>> /\ \E i \in DOMAIN history' : history'[i] = e
      /\ \A k \in DOMAIN history : \/ history[k].rv < history'[1].rv
                                   \/ \E i \in DOMAIN history' : history'[i] = history[k]
      /\ history # <<>> => history[1].rv <= history'[1].rv
      /\ history = <<>> => history'[1].rv = rv + 1
  BY <1>0, EmitHistory
<1>1. CASE g = g0 /\ n = n0
  BY <1>1, UptoWritten
<1>2. CASE ~(g = g0 /\ n = n0)
  <2>1. data'[g][n] = data[g][n]
    BY <1>2 DEF Wrote
  <2>t. /\ \A i \in DOMAIN history : history[i].rv \in Nat
        /\ history # <<>> => 1 \in DOMAIN history
        /\ history'[1].rv \in Nat
    <3>1. history \in Seq(Event) /\ history' \in Seq(Event)
      BY DEF TypeOK
    <3>2. QED
      BY <1>h, <3>1, EventsOf
  <2>2. Gone(history, rv, g, n, r) => Gone(history', rv', g, n, r)
    <3>1. CASE r < rv /\ (history = <<>> \/ r < history[1].rv)
      BY <1>0, <1>h, <2>t, <3>1 DEF Gone
    <3>2. CASE \E k \in DOMAIN history : history[k].gvr = g /\ history[k].name = n /\ history[k].rv > r
      <4>1. PICK k \in DOMAIN history : history[k].gvr = g /\ history[k].name = n /\ history[k].rv > r
        BY <3>2
      <4>2. CASE history[k].rv < history'[1].rv
        BY <1>0, <2>t, <4>1, <4>2 DEF Gone
      <4>3. CASE \E i \in DOMAIN history' : history'[i] = history[k]
        BY <4>1, <4>3 DEF Gone
      <4>4. QED
        BY <1>h, <4>2, <4>3
    <3>3. QED
      BY <3>1, <3>2 DEF Gone
  <2>3. QED
    BY <2>1, <2>2 DEF Upto
<1>3. QED
  BY <1>1, <1>2

\* ... and so does a boot that loses nothing.
LEMMA UptoBoot ==
  ASSUME TypeOK, HistPos, UNCHANGED <<data, rv>>, history' = <<>>,
         NEW g \in GVRs, NEW n \in Names, NEW r \in Nat, NEW o, Upto(data, history, rv, g, n, r, o)
  PROVE  Upto(data', history', rv', g, n, r, o)
<1>1. rv \in Nat /\ Len(history) \in Nat /\ DOMAIN history = 1..Len(history)
  BY StoreAssumption DEF TypeOK
<1>2. \A i \in DOMAIN history : history[i].rv <= rv /\ history[i].rv \in Int
  BY <1>1 DEF HistPos
<1>3. Gone(history, rv, g, n, r) => Gone(history', rv', g, n, r)
  BY <1>1, <1>2 DEF Gone
<1>4. QED
  BY <1>3 DEF Upto

\* Every step keeps what the history and the disk are worth.
LEMMA NextStore ==
  ASSUME TypeOK, TypeOK', HistoryWindow, StoreInv, [Next]_vars
  PROVE  StoreInv'
<1>0. HistPos /\ HistTells /\ HistHas /\ DiskBehind /\ rv \in Nat /\ flushed.rv \in Nat
  BY StoreAssumption DEF StoreInv, TypeOK
<1>u. CASE UNCHANGED <<data, rv, history, flushed>>
  BY <1>u DEF StoreInv, HistPos, HistTells, HistHas, DiskBehind
<1>1. CASE Writes
  <2>1. PICK g \in GVRs, n \in Names, e \in Event : Wrote(g, n, e)
    BY <1>1 DEF Writes
  <2>0. /\ e.gvr = g /\ e.name = n /\ e.rv = rv + 1 /\ e.obj.rv = rv + 1 /\ rv' = rv + 1
        /\ data'[g][n] = Applied(e) /\ emitLocked(e)
        /\ \A h \in GVRs, m \in Names : ~(h = g /\ m = n) => data'[h][m] = data[h][m]
    BY <2>1 DEF Wrote
  <2>h. /\ HistPos' /\ history' # <<>>
        /\ \E i \in DOMAIN history' : history'[i] = e
        /\ \A i \in DOMAIN history' : history'[i] = e \/ \E k \in DOMAIN history : history'[i] = history[k]
        /\ \A k \in DOMAIN history : \/ history[k].rv < history'[1].rv
                                     \/ \E i \in DOMAIN history' : history'[i] = history[k]
        /\ history # <<>> => history[1].rv <= history'[1].rv
        /\ history = <<>> => history'[1].rv = rv + 1
    BY <1>0, <2>0, EmitHistory
  <2>t. history \in Seq(Event) /\ history' \in Seq(Event)
    BY DEF TypeOK
  <2>2. HistTells'
    <3> SUFFICES ASSUME NEW i \in DOMAIN history'
                 PROVE  Upto(data', history', rv', history'[i].gvr, history'[i].name, history'[i].rv,
                             Applied(history'[i]))
      BY DEF HistTells
    <3>1. CASE history'[i] = e
      BY <2>0, <3>1 DEF Upto
    <3>2. ASSUME NEW k \in DOMAIN history, history'[i] = history[k]
          PROVE  Upto(data', history', rv', history'[i].gvr, history'[i].name, history'[i].rv,
                      Applied(history'[i]))
      <4>1. Upto(data, history, rv, history[k].gvr, history[k].name, history[k].rv, Applied(history[k]))
        BY <1>0 DEF HistTells
      <4>2. history[k] \in Event /\ history[k].rv <= rv
        BY <1>0 DEF TypeOK, HistPos
      <4>3. history[k].gvr \in GVRs /\ history[k].name \in Names /\ history[k].rv \in Nat
        BY <4>2 DEF Event
      <4>4. Upto(data', history', rv', history[k].gvr, history[k].name, history[k].rv, Applied(history[k]))
        BY <1>0, <2>1, <4>1, <4>2, <4>3, UptoWrote
      <4>5. QED
        BY <3>2, <4>4
    <3>3. QED
      BY <2>h, <3>1, <3>2
  <2>3. HistHas'
    <3> SUFFICES ASSUME NEW h \in GVRs, NEW m \in Names, data'[h][m] # Absent,
                        data'[h][m].rv >= history'[1].rv
                 PROVE  \E i \in DOMAIN history' : history'[i].gvr = h /\ history'[i].name = m
                                                   /\ history'[i].rv = data'[h][m].rv
      BY DEF HistHas
    <3>1. CASE h = g /\ m = n
      <4>1. data'[h][m].rv = e.rv
        BY <2>0, <3>1 DEF Applied
      <4>2. QED
        BY <2>0, <2>h, <3>1, <4>1
    <3>2. CASE ~(h = g /\ m = n)
      <4>1. data'[h][m] = data[h][m] /\ data[h][m].rv \in 1..rv
        BY <2>0, <3>2 DEF HistoryWindow, Versioned
      <4>2. history # <<>>
        BY <1>0, <2>h, <4>1
      <4>3. data[h][m].rv >= history[1].rv
        <5>1. history[1].rv \in Nat /\ history'[1].rv \in Nat
          BY <2>h, <2>t, <4>2, EventsOf
        <5>2. QED
          BY <2>h, <4>1, <4>2, <5>1
      <4>4. PICK k \in DOMAIN history : history[k].gvr = h /\ history[k].name = m
                                        /\ history[k].rv = data[h][m].rv
        BY <1>0, <4>1, <4>2, <4>3 DEF HistHas
      <4>5. ~(history[k].rv < history'[1].rv)
        <5>1. history'[1].rv \in Nat
          BY <2>h, <2>t, EventsOf
        <5>2. QED
          BY <1>0, <4>1, <4>4, <5>1
      <4>6. QED
        BY <2>h, <4>1, <4>4, <4>5
    <3>3. QED
      BY <3>1, <3>2
  <2>4. DiskBehind'
    BY <1>0, <1>1, <2>0 DEF DiskBehind, Writes
  <2>5. QED
    BY <2>h, <2>2, <2>3, <2>4 DEF StoreInv
<1>2. CASE (Boot(data, rv) \/ Boot(flushed.data, flushed.rv)) /\ UNCHANGED flushed
  <2>1. history' = <<>> /\ UNCHANGED flushed
        /\ \/ data' = data /\ rv' = rv
           \/ data' = flushed.data /\ rv' = flushed.rv
    BY <1>2 DEF Boot
  <2>t. DOMAIN history' = {}
    BY <2>1, EventsOf DEF TypeOK
  <2>2. DiskBehind'
    BY <1>0, <2>1 DEF DiskBehind
  <2>3. HistPos' /\ HistTells' /\ HistHas'
    BY <2>1, <2>t DEF HistPos, HistTells, HistHas
  <2>4. QED
    BY <2>2, <2>3 DEF StoreInv
<1>3. CASE Sync
  BY <1>0, <1>3 DEF Sync, StoreInv, HistPos, HistTells, HistHas, DiskBehind
<1>4. QED
  BY <1>u, <1>1, <1>2, <1>3, StoreSteps

----------------------------------------------------------------------------
(* Streams: what a client will have seen after the events on their way.    *)

\* A list of a finite set has all of it, and nothing else.
LEMMA ListsAll ==
  ASSUME NEW S, IsFiniteSet(S), NEW b \in SetToSeqs(S)
  PROVE  /\ \A x \in S : \E i \in DOMAIN b : b[i] = x
         /\ \A i \in DOMAIN b : b[i] \in S
         /\ Len(b) \in Nat /\ DOMAIN b = 1..Len(b) /\ b \in Seq(S)
<1> DEFINE k == Cardinality(S)
<1>1. k \in Nat
  BY FS_CardinalityType
<1>2. b \in [1..k -> S] /\ \A i, j \in 1..k : i # j => b[i] # b[j]
  BY DEF SetToSeqs
<1> HIDE DEF k
<1>3. b \in Injection(1..k, S)
  BY <1>2 DEF Injection, IsInjective
<1>4. Cardinality(1..k) = k
  <2>1. Cardinality(1..k) = IF 1 > k THEN 0 ELSE k - 1 + 1
    BY <1>1, FS_Interval
  <2>2. QED
    BY <1>1, <2>1
<1>5. b \in Surjection(1..k, S)
  BY <1>3, <1>4, FS_Injection DEF k
<1>6. \A x \in S : \E i \in 1..k : b[i] = x
  BY <1>5 DEF Surjection
<1>7. b \in Seq(S) /\ DOMAIN b = 1..k /\ Len(b) = k
  BY <1>1, <1>2
<1>8. QED
  BY <1>1, <1>2, <1>6, <1>7

\* A non-empty set of positions has a last one.
LEMMA LastPosition ==
  ASSUME NEW k \in Nat, NEW S \in SUBSET (1..k), S # {}
  PROVE  \E i \in S : \A j \in S : j <= i
<1> DEFINE T == {k - i : i \in S}
<1>1. T \subseteq Nat /\ T # {}
  <2>1. \A i \in S : i \in 1..k /\ k - i \in Nat
    OBVIOUS
  <2>2. PICK i \in S : TRUE
    OBVIOUS
  <2>3. T \subseteq Nat
    BY <2>1
  <2>4. k - i \in T
    OBVIOUS
  <2>5. QED
    BY <2>3, <2>4
<1>2. IsWellFoundedOn(OpToRel(<, Nat), Nat)
  BY NatLessThanWellFounded
<1>3. PICK x \in T : \A y \in T : ~(<<y, x>> \in OpToRel(<, Nat))
  BY <1>1, <1>2, WFMin
<1>4. \A y \in T : ~(y < x)
  BY <1>1, <1>3 DEF OpToRel
<1>5. PICK i \in S : x = k - i
  OBVIOUS
<1>6. \A j \in S : k - j \in T
  OBVIOUS
<1>7. \A j \in S : j <= i
  BY <1>4, <1>5, <1>6
<1>8. QED
  BY <1>7

\* Once the first j events of q are applied to view v, what w watches is right
\* up to r: each object that none of them names, and the last word on each that
\* one does.  d, h and c are the store's contents, history and counter.
Knows(d, h, c, w, v, q, j, r) ==
  /\ \A n \in Names :
       (WatchSel[w] = Labels \/ Matches(w, d[WatchGVR[w]][n])) /\ (\A i \in 1..j : q[i].name # n)
       => Upto(d, h, c, WatchGVR[w], n, r, v[n])
  /\ \A i \in 1..j :
       (\A k \in 1..j : k > i => q[k].name # q[i].name)
       => Upto(d, h, c, WatchGVR[w], q[i].name, r, Applied(q[i]))

\* the events on their way, and what the client holds after the next of them
Ahead(s) == s.boot \o s.ch
After(w, v, e) == IF Matches(w, e.obj) THEN [v EXCEPT ![e.name] = Applied(e)] ELSE v

\* Nothing to apply: the queue does not matter.
LEMMA KnowsNone ==
  ASSUME NEW d, NEW h, NEW c, NEW w, NEW v, NEW q, NEW p, NEW r,
         Knows(d, h, c, w, v, q, 0, r)
  PROVE  Knows(d, h, c, w, v, p, 0, r)
<1>1. 1..0 = {}
  OBVIOUS
<1>2. QED
  BY <1>1 DEF Knows

\* A longer queue does not matter either.
LEMMA KnowsPrefix ==
  ASSUME NEW d, NEW h, NEW c, NEW w, NEW v, NEW q \in Seq(Event), NEW p \in Seq(Event),
         NEW j \in 0..Len(q), \A i \in 1..Len(q) : p[i] = q[i], NEW r,
         Knows(d, h, c, w, v, q, j, r)
  PROVE  Knows(d, h, c, w, v, p, j, r)
<1>1. \A i \in 1..j : p[i] = q[i]
  OBVIOUS
<1>2. QED
  BY <1>1 DEF Knows

\* Right up to r is right up to anything before.
LEMMA KnowsMono ==
  ASSUME TypeOK, NEW w \in Watchers, NEW v, NEW q \in Seq(Event), NEW j \in 0..Len(q),
         NEW r \in Nat, NEW p \in Nat, p <= r, Knows(data, history, rv, w, v, q, j, r)
  PROVE  Knows(data, history, rv, w, v, q, j, p)
<1>1. WatchGVR[w] \in GVRs
  BY StoreAssumption
<1>2. \A n \in Names : \A o : Upto(data, history, rv, WatchGVR[w], n, r, o) =>
                          Upto(data, history, rv, WatchGVR[w], n, p, o)
  BY <1>1, UptoMono
<1>3. \A i \in 1..j : q[i].name \in Names
  <2>1. \A i \in 1..j : i \in DOMAIN q
    OBVIOUS
  <2>2. QED
    BY <2>1, EventsOf
<1>4. QED
  BY <1>2, <1>3 DEF Knows

\* Right up to the counter is right.
LEMMA KnowsNow ==
  ASSUME TypeOK, HistoryWindow, HistPos, NEW w \in Watchers, NEW v, NEW q \in Seq(Event),
         NEW j \in 0..Len(q)
  PROVE  Knows(data, history, rv, w, v, q, j, rv) =>
         /\ \A n \in Names :
              (WatchSel[w] = Labels \/ Matches(w, data[WatchGVR[w]][n])) /\ (\A i \in 1..j : q[i].name # n)
              => v[n] = data[WatchGVR[w]][n]
         /\ \A i \in 1..j :
              (\A k \in 1..j : k > i => q[k].name # q[i].name)
              => Applied(q[i]) = data[WatchGVR[w]][q[i].name]
<1> SUFFICES ASSUME Knows(data, history, rv, w, v, q, j, rv)
             PROVE  /\ \A n \in Names :
                         (WatchSel[w] = Labels \/ Matches(w, data[WatchGVR[w]][n]))
                         /\ (\A i \in 1..j : q[i].name # n)
                         => v[n] = data[WatchGVR[w]][n]
                    /\ \A i \in 1..j :
                         (\A k \in 1..j : k > i => q[k].name # q[i].name)
                         => Applied(q[i]) = data[WatchGVR[w]][q[i].name]
  OBVIOUS
<1>1. WatchGVR[w] \in GVRs
  BY StoreAssumption
<1>2. \A n \in Names : \A o : Upto(data, history, rv, WatchGVR[w], n, rv, o) => o = data[WatchGVR[w]][n]
  BY <1>1, UptoNow
<1>3. \A i \in 1..j : q[i].name \in Names
  <2>1. \A i \in 1..j : i \in DOMAIN q
    OBVIOUS
  <2>2. QED
    BY <2>1, EventsOf
<1>4. QED
  BY <1>2, <1>3 DEF Knows

\* What is right is right up to anything.
LEMMA RightKnows ==
  ASSUME NEW d, NEW h, NEW c, NEW w, NEW v, NEW q, NEW j, NEW r,
         \A n \in Names :
           (WatchSel[w] = Labels \/ Matches(w, d[WatchGVR[w]][n])) /\ (\A i \in 1..j : q[i].name # n)
           => v[n] = d[WatchGVR[w]][n],
         \A i \in 1..j :
           (\A k \in 1..j : k > i => q[k].name # q[i].name)
           => Applied(q[i]) = d[WatchGVR[w]][q[i].name]
  PROVE  Knows(d, h, c, w, v, q, j, r)
  BY DEF Knows, Upto

\* Applying the first event leaves one fewer to apply.
LEMMA KnowsPump ==
  ASSUME NEW d \in [GVRs -> View], NEW h, NEW c, NEW w \in Watchers, NEW v \in View,
         NEW q \in Seq(Event), NEW j \in 1..Len(q), NEW r, Knows(d, h, c, w, v, q, j, r)
  PROVE  Knows(d, h, c, w, After(w, v, q[1]), Tail(q), j - 1, r)
<1> DEFINE e == q[1]
           g == WatchGVR[w]
           t == Tail(q)
           u == After(w, v, e)
<1>0. /\ Len(q) \in Nat /\ 1 \in 1..j /\ j \in Nat /\ j - 1 \in Nat
      /\ \A i \in 1..(j - 1) : i + 1 \in 1..j /\ t[i] = q[i + 1]
      /\ \A i \in 1..j : i \in DOMAIN q
      /\ \A i \in 1..j : i = 1 \/ (i - 1 \in 1..(j - 1) /\ t[i - 1] = q[i])
  OBVIOUS
<1>e. e.name \in Names /\ e.obj \in Object /\ e \in Event /\ g \in GVRs
  BY <1>0, EventsOf, StoreAssumption
<1>1. \A n \in Names : u[n] = IF n = e.name /\ Matches(w, e.obj) THEN Applied(e) ELSE v[n]
  BY <1>e DEF After, View
<1>a. Absent \notin Object
  BY DEF Absent, Object
<1>2. ASSUME NEW n \in Names, WatchSel[w] = Labels \/ Matches(w, d[g][n]), \A i \in 1..(j - 1) : t[i].name # n
      PROVE  Upto(d, h, c, g, n, r, u[n])
  <2>1. \A i \in 1..j : i > 1 => q[i].name # n
    BY <1>0, <1>2
  <2>2. CASE n = e.name
    <3>1. Upto(d, h, c, g, n, r, Applied(e))
      BY <1>0, <2>1, <2>2 DEF Knows
    <3>2. CASE Matches(w, e.obj)
      BY <1>1, <2>2, <3>1, <3>2
    <3>3. CASE ~Matches(w, e.obj)
      <4>1. WatchSel[w] # Labels
        BY <1>e, <1>a, <3>3 DEF Matches, Object
      <4>2. Matches(w, d[g][n]) /\ d[g][n] # Absent
        BY <1>2, <4>1 DEF Matches
      <4>3. Applied(e) # d[g][n]
        BY <3>3, <4>2 DEF Applied
      <4>4. d[g][n].rv > r
        BY <3>1, <4>2, <4>3 DEF Upto
      <4>5. QED
        BY <4>2, <4>4 DEF Upto
    <3>4. QED
      BY <3>2, <3>3
  <2>3. CASE n # e.name
    <3>1. \A i \in 1..j : q[i].name # n
      BY <1>0, <2>1, <2>3
    <3>2. Upto(d, h, c, g, n, r, v[n])
      BY <1>2, <3>1 DEF Knows
    <3>3. QED
      BY <1>1, <2>3, <3>2
  <2>4. QED
    BY <2>2, <2>3
<1>3. ASSUME NEW i \in 1..(j - 1), \A k \in 1..(j - 1) : k > i => t[k].name # t[i].name
      PROVE  Upto(d, h, c, g, t[i].name, r, Applied(t[i]))
  <2>1. i + 1 \in 1..j /\ t[i] = q[i + 1]
    BY <1>0
  <2>2. ASSUME NEW k \in 1..j, k > i + 1
        PROVE  q[k].name # q[i + 1].name
    <3>1. k - 1 \in 1..(j - 1) /\ t[k - 1] = q[k] /\ k - 1 > i
      BY <1>0, <2>2
    <3>2. QED
      BY <1>3, <2>1, <3>1
  <2>3. QED
    BY <2>1, <2>2 DEF Knows
<1>4. QED
  BY <1>2, <1>3 DEF Knows

\* A write takes nothing from what a client will know up to before it.
LEMMA KnowsWrote ==
  ASSUME TypeOK, TypeOK', HistPos, NEW g0 \in GVRs, NEW n0 \in Names, NEW e \in Event, Wrote(g0, n0, e),
         NEW w \in Watchers, NEW v, NEW q \in Seq(Event), NEW j \in 0..Len(q), NEW r \in Nat, r <= rv,
         Knows(data, history, rv, w, v, q, j, r)
  PROVE  Knows(data', history', rv', w, v, q, j, r)
<1> DEFINE g == WatchGVR[w]
<1>1. g \in GVRs
  BY StoreAssumption
<1>2. \A n \in Names : \A o : Upto(data, history, rv, g, n, r, o) => Upto(data', history', rv', g, n, r, o)
  BY <1>1, UptoWrote
<1>3. \A i \in 1..j : q[i].name \in Names
  <2>1. \A i \in 1..j : i \in DOMAIN q
    OBVIOUS
  <2>2. QED
    BY <2>1, EventsOf
<1>4. ASSUME NEW n \in Names, WatchSel[w] = Labels \/ Matches(w, data'[g][n]), \A i \in 1..j : q[i].name # n
      PROVE  Upto(data', history', rv', g, n, r, v[n])
  <2>1. CASE g = g0 /\ n = n0
    BY <2>1, UptoWritten
  <2>2. CASE ~(g = g0 /\ n = n0)
    <3>1. data'[g][n] = data[g][n]
      BY <1>1, <2>2 DEF Wrote
    <3>2. Upto(data, history, rv, g, n, r, v[n])
      BY <1>4, <3>1 DEF Knows
    <3>3. QED
      BY <1>2, <3>2
  <2>3. QED
    BY <2>1, <2>2
<1>5. \A i \in 1..j : (\A k \in 1..j : k > i => q[k].name # q[i].name)
                      => Upto(data', history', rv', g, q[i].name, r, Applied(q[i]))
  BY <1>2, <1>3 DEF Knows
<1>6. QED
  BY <1>4, <1>5 DEF Knows

\* A write to another type leaves a client right that was right ...
LEMMA KnowsOther ==
  ASSUME TypeOK, TypeOK', HistoryWindow, HistPos, NEW g0 \in GVRs, NEW n0 \in Names, NEW e \in Event,
         Wrote(g0, n0, e), NEW w \in Watchers, WatchGVR[w] # g0, NEW v, NEW q \in Seq(Event),
         NEW j \in 0..Len(q), Knows(data, history, rv, w, v, q, j, rv)
  PROVE  Knows(data', history', rv', w, v, q, j, rv')
<1> DEFINE g == WatchGVR[w]
<1>1. \A n \in Names : data'[g][n] = data[g][n]
  BY StoreAssumption DEF Wrote
<1>2. \A i \in 1..j : q[i].name \in Names
  <2>1. \A i \in 1..j : i \in DOMAIN q
    OBVIOUS
  <2>2. QED
    BY <2>1, EventsOf
<1>3. /\ \A n \in Names :
           (WatchSel[w] = Labels \/ Matches(w, data[g][n])) /\ (\A i \in 1..j : q[i].name # n)
           => v[n] = data[g][n]
      /\ \A i \in 1..j :
           (\A k \in 1..j : k > i => q[k].name # q[i].name) => Applied(q[i]) = data[g][q[i].name]
  BY KnowsNow
<1>4. /\ \A n \in Names :
           (WatchSel[w] = Labels \/ Matches(w, data'[g][n])) /\ (\A i \in 1..j : q[i].name # n)
           => v[n] = data'[g][n]
      /\ \A i \in 1..j :
           (\A k \in 1..j : k > i => q[k].name # q[i].name) => Applied(q[i]) = data'[g][q[i].name]
  BY <1>1, <1>2, <1>3
<1>5. QED
  BY <1>4, RightKnows

\* ... and one to the watched type does, with its event in the queue.
LEMMA KnowsSent ==
  ASSUME TypeOK, TypeOK', HistoryWindow, HistPos, NEW w \in Watchers, NEW n0 \in Names, NEW e \in Event,
         Wrote(WatchGVR[w], n0, e), NEW v, NEW q \in Seq(Event),
         Knows(data, history, rv, w, v, q, Len(q), rv)
  PROVE  Knows(data', history', rv', w, v, Append(q, e), Len(q) + 1, rv')
<1> DEFINE g == WatchGVR[w]
           p == Append(q, e)
           m == Len(q)
<1>0. /\ g \in GVRs /\ m \in Nat /\ p[m + 1] = e /\ \A i \in 1..m : p[i] = q[i] /\ i \in DOMAIN q
      /\ m \in 0..Len(q)
  BY StoreAssumption
<1>1. /\ data'[g][n0] = Applied(e) /\ e.name = n0
      /\ \A n \in Names : n # n0 => data'[g][n] = data[g][n]
  BY <1>0 DEF Wrote
<1>2. \A i \in 1..m : q[i].name \in Names
  BY <1>0, EventsOf
<1>3. /\ \A n \in Names :
           (WatchSel[w] = Labels \/ Matches(w, data[g][n])) /\ (\A i \in 1..m : q[i].name # n)
           => v[n] = data[g][n]
      /\ \A i \in 1..m :
           (\A k \in 1..m : k > i => q[k].name # q[i].name) => Applied(q[i]) = data[g][q[i].name]
  BY <1>0, KnowsNow
<1>i. \A i : i \in 1..(m + 1) <=> i \in 1..m \/ i = m + 1
  BY <1>0
<1> HIDE DEF p, m
<1>4. ASSUME NEW n \in Names, WatchSel[w] = Labels \/ Matches(w, data'[g][n]),
             \A i \in 1..(m + 1) : p[i].name # n
      PROVE  v[n] = data'[g][n]
  <2>1. n # n0 /\ \A i \in 1..m : q[i].name # n
    BY <1>0, <1>1, <1>i, <1>4
  <2>2. QED
    BY <1>1, <1>3, <1>4, <2>1
<1>5. ASSUME NEW i \in 1..(m + 1), \A k \in 1..(m + 1) : k > i => p[k].name # p[i].name
      PROVE  Applied(p[i]) = data'[g][p[i].name]
  <2>1. CASE i = m + 1
    BY <1>0, <1>1, <2>1
  <2>2. CASE i \in 1..m
    <3>1. p[i] = q[i] /\ q[i].name # n0
      BY <1>0, <1>1, <1>5, <1>i, <2>2
    <3>2. \A k \in 1..m : k > i => q[k].name # q[i].name
      BY <1>0, <1>5, <1>i, <3>1
    <3>3. Applied(q[i]) = data[g][q[i].name]
      BY <1>3, <2>2, <3>2
    <3>4. QED
      BY <1>1, <1>2, <2>2, <3>1, <3>3
  <2>3. QED
    BY <1>i, <2>1, <2>2
<1>6. Knows(data', history', rv', w, v, p, m + 1, rv')
  BY <1>4, <1>5, RightKnows
<1>7. QED
  BY <1>6 DEF p, m

\* The inductive invariant of a watch: s is its subscription, k its client.
\* Bootstrap events are no newer than the registration, live ones newer.
StreamSound(c, s, k) ==
  /\ s.state = "none" <=> k.phase # "watching"
  /\ s.currentRV <= c
  /\ k.lastRV = 0 => \A n \in Names : k.view[n] = Absent
  /\ \A i \in DOMAIN s.boot : s.boot[i].rv \in 1..s.currentRV
  /\ \A i \in DOMAIN s.ch : s.ch[i].rv \in (s.currentRV + 1)..c
  /\ \A i, j \in DOMAIN s.ch : i < j => s.ch[i].rv < s.ch[j].rv

\* An exact client is right up to its lastRV, and each event on its way makes
\* it right up to that event.
StreamExact(d, h, c, w, s, k) ==
  k.exact =>
    /\ k.lastRV <= c
    /\ Knows(d, h, c, w, k.view, Ahead(s), 0, k.lastRV)
    /\ k.phase = "watching" =>
         /\ k.origin = "complete"
         /\ \A i \in DOMAIN Ahead(s) : Ahead(s)[i].rv > k.lastRV
         /\ \A i, j \in DOMAIN Ahead(s) : i < j => Ahead(s)[i].rv < Ahead(s)[j].rv
         /\ \A j \in DOMAIN Ahead(s) : Knows(d, h, c, w, k.view, Ahead(s), j, Ahead(s)[j].rv)

\* One that is being sent the stored objects in any order will be right up to
\* the registration once it has them all.
StreamBooting(d, h, c, w, s, k) ==
  k.phase = "watching" /\ k.origin = "complete" /\ ~k.exact =>
    /\ s.boot # <<>> /\ k.lastRV <= s.currentRV
    /\ Knows(d, h, c, w, k.view, Ahead(s), Len(s.boot), s.currentRV)
    /\ \A j \in DOMAIN Ahead(s) :
         j > Len(s.boot) => Knows(d, h, c, w, k.view, Ahead(s), j, Ahead(s)[j].rv)

\* All that is on its way makes the client of an open stream right.
StreamOpen(d, h, c, w, s, k) ==
  s.state = "open" /\ k.origin = "complete" =>
    Knows(d, h, c, w, k.view, Ahead(s), Len(Ahead(s)), c)

Stream(d, h, c, w, s, k) ==
  /\ StreamSound(c, s, k) /\ StreamExact(d, h, c, w, s, k)
  /\ StreamBooting(d, h, c, w, s, k) /\ StreamOpen(d, h, c, w, s, k)

\* Concatenation, by position.
LEMMA ConcatOf ==
  ASSUME NEW a \in Seq(Event), NEW b \in Seq(Event)
  PROVE  /\ a \o b \in Seq(Event) /\ Len(a) \in Nat /\ Len(b) \in Nat
         /\ Len(a \o b) = Len(a) + Len(b) /\ DOMAIN (a \o b) = 1..(Len(a) + Len(b))
         /\ \A i \in 1..Len(a) : (a \o b)[i] = a[i]
         /\ \A i \in 1..(Len(a) + Len(b)) : i > Len(a) =>
              i - Len(a) \in 1..Len(b) /\ (a \o b)[i] = b[i - Len(a)]
<1>1. Len(a) \in Nat /\ Len(b) \in Nat
  OBVIOUS
<1>2. /\ a \o b \in Seq(Event) /\ Len(a \o b) = Len(a) + Len(b)
      /\ \A i \in 1..(Len(a) + Len(b)) :
           (a \o b)[i] = IF i <= Len(a) THEN a[i] ELSE b[i - Len(a)]
  BY ConcatProperties
<1>3. DOMAIN (a \o b) = 1..(Len(a) + Len(b))
  BY <1>2
<1>4. QED
  BY <1>1, <1>2, <1>3

\* Appending to a queue, and taking its head.
LEMMA ConcatEnds ==
  ASSUME NEW a \in Seq(Event), NEW b \in Seq(Event), NEW e \in Event
  PROVE  /\ a \o Append(b, e) = Append(a \o b, e)
         /\ a # <<>> => Tail(a) \o b = Tail(a \o b) /\ (a \o b)[1] = Head(a) /\ a \o b # <<>>
         /\ a = <<>> => a \o b = b
<1>1. a \o Append(b, e) = Append(a \o b, e)
  <2>1. <<e>> \in Seq(Event) /\ a \o b \in Seq(Event)
    BY ConcatOf
  <2>2. Append(b, e) = b \o <<e>> /\ Append(a \o b, e) = (a \o b) \o <<e>>
    BY <2>1, AppendIsConcat
  <2>3. QED
    BY <2>1, <2>2, ConcatAssociative
<1>2. ASSUME a # <<>>
      PROVE  Tail(a) \o b = Tail(a \o b) /\ (a \o b)[1] = Head(a) /\ a \o b # <<>>
  <2> DEFINE c == a \o b
             t == Tail(a)
  <2>0. PICK m \in Nat, l \in Nat : m = Len(a) /\ l = Len(b)
    OBVIOUS
  <2>1. /\ c \in Seq(Event) /\ Len(c) = m + l
        /\ \A i \in 1..m : c[i] = a[i]
        /\ \A i \in 1..(m + l) : i > m => c[i] = b[i - m]
    BY <2>0, ConcatOf
  <2>2. /\ t \in Seq(Event) /\ Len(t) = m - 1 /\ m > 0 /\ Head(a) = a[1] /\ m - 1 \in Nat
        /\ \A i \in 1..(m - 1) : t[i] = a[i + 1]
    BY <1>2, <2>0
  <2> HIDE DEF c, t
  <2>3. /\ t \o b \in Seq(Event) /\ Len(t \o b) = (m - 1) + l
        /\ \A i \in 1..(m - 1) : (t \o b)[i] = t[i]
        /\ \A i \in 1..((m - 1) + l) : i > m - 1 => (t \o b)[i] = b[i - (m - 1)]
    <3>1. /\ t \o b \in Seq(Event) /\ Len(t \o b) = Len(t) + Len(b)
          /\ \A i \in 1..Len(t) : (t \o b)[i] = t[i]
          /\ \A i \in 1..(Len(t) + Len(b)) : i > Len(t) => (t \o b)[i] = b[i - Len(t)]
      BY <2>2, ConcatOf
    <3>2. Len(t) = m - 1 /\ Len(b) = l
      BY <2>0, <2>2
    <3>3. QED
      BY <3>1, <3>2
  <2>4. /\ c # <<>> /\ Tail(c) \in Seq(Event) /\ Len(Tail(c)) = m + l - 1
        /\ \A i \in 1..(m + l - 1) : Tail(c)[i] = c[i + 1]
    <3>1. c # <<>>
      BY <2>1, <2>2
    <3>2. Len(c) - 1 = m + l - 1
      BY <2>1
    <3>3. /\ Tail(c) \in Seq(Event) /\ Len(Tail(c)) = Len(c) - 1
          /\ \A i \in 1..Len(Tail(c)) : Tail(c)[i] = c[i + 1]
      BY <2>1, <3>1, HeadTailProperties
    <3>4. QED
      BY <3>1, <3>2, <3>3
  <2>5. \A i \in 1..(m + l - 1) : (t \o b)[i] = Tail(c)[i]
    <3> TAKE i \in 1..(m + l - 1)
    <3>0. i \in 1..((m - 1) + l) /\ i + 1 \in 1..(m + l) /\ i \in Nat
      OBVIOUS
    <3>1. CASE i <= m - 1
      <4>1. i \in 1..(m - 1) /\ i + 1 \in 1..m
        BY <3>0, <3>1
      <4>2. QED
        BY <2>1, <2>2, <2>3, <2>4, <4>1
    <3>2. CASE i > m - 1
      <4>1. i + 1 > m /\ (i + 1) - m = i - (m - 1)
        BY <3>0, <3>2
      <4>2. QED
        BY <2>1, <2>3, <2>4, <3>0, <3>2, <4>1
    <3>3. i <= m - 1 \/ i > m - 1
      BY <3>0
    <3>4. QED
      BY <3>1, <3>2, <3>3
  <2>6. t \o b = Tail(c)
    <3>1. Len(t \o b) = Len(Tail(c)) /\ Len(t \o b) = m + l - 1
      BY <2>3, <2>4
    <3>2. QED
      BY <2>3, <2>4, <2>5, <3>1, SeqEqual
  <2>7. QED
    BY <2>1, <2>2, <2>4, <2>6, SMTT(20) DEF c, t
<1>3. a = <<>> => a \o b = b
  BY ConcatEmptySeq
<1>4. QED
  BY <1>1, <1>2, <1>3

\* What is on its way, by position.
LEMMA AheadOf ==
  ASSUME NEW s \in Subscription
  PROVE  /\ s.boot \in Seq(Event) /\ s.ch \in Seq(Event) /\ s.currentRV \in Nat
         /\ Ahead(s) \in Seq(Event) /\ Len(Ahead(s)) = Len(s.boot) + Len(s.ch)
         /\ Len(s.boot) \in Nat /\ Len(s.ch) \in Nat /\ Len(Ahead(s)) \in Nat
         /\ DOMAIN Ahead(s) = 1..Len(Ahead(s))
         /\ DOMAIN s.boot = 1..Len(s.boot) /\ DOMAIN s.ch = 1..Len(s.ch)
         /\ \A i \in 1..Len(s.boot) : Ahead(s)[i] = s.boot[i]
         /\ \A i \in DOMAIN Ahead(s) : i > Len(s.boot) =>
              i - Len(s.boot) \in DOMAIN s.ch /\ Ahead(s)[i] = s.ch[i - Len(s.boot)]
         /\ \A i \in DOMAIN Ahead(s) : Ahead(s)[i] \in Event /\ Ahead(s)[i].rv \in Nat
<1>1. s.boot \in Seq(Event) /\ s.ch \in Seq(Event) /\ s.currentRV \in Nat
  BY DEF Subscription
<1>2. /\ Ahead(s) \in Seq(Event) /\ Len(Ahead(s)) = Len(s.boot) + Len(s.ch)
      /\ Len(s.boot) \in Nat /\ Len(s.ch) \in Nat /\ Len(Ahead(s)) \in Nat
      /\ DOMAIN Ahead(s) = 1..Len(Ahead(s))
  <2>1. /\ Ahead(s) \in Seq(Event) /\ Len(Ahead(s)) = Len(s.boot) + Len(s.ch)
        /\ Len(s.boot) \in Nat /\ Len(s.ch) \in Nat
    BY <1>1, ConcatOf DEF Ahead
  <2>2. \A q \in Seq(Event) : Len(q) \in Nat /\ DOMAIN q = 1..Len(q)
    OBVIOUS
  <2>3. QED
    BY <2>1, <2>2
<1>d. DOMAIN s.boot = 1..Len(s.boot) /\ DOMAIN s.ch = 1..Len(s.ch)
  BY <1>1
<1>3. \A i \in 1..Len(s.boot) : Ahead(s)[i] = s.boot[i]
  BY <1>1, ConcatOf DEF Ahead
<1>4. \A i \in DOMAIN Ahead(s) : i > Len(s.boot) =>
        i - Len(s.boot) \in DOMAIN s.ch /\ Ahead(s)[i] = s.ch[i - Len(s.boot)]
  BY <1>1, <1>2, <1>d, ConcatOf DEF Ahead
<1>5. \A i \in DOMAIN Ahead(s) : Ahead(s)[i] \in Event /\ Ahead(s)[i].rv \in Nat
  BY <1>2, EventsOf
<1>6. QED
  BY <1>1, <1>2, <1>d, <1>3, <1>4, <1>5

\* No event on its way is newer than the counter.
LEMMA AheadKnown ==
  ASSUME NEW s \in Subscription, NEW k, NEW c \in Nat, StreamSound(c, s, k)
  PROVE  \A i \in DOMAIN Ahead(s) : Ahead(s)[i].rv \in 1..c
<1> SUFFICES ASSUME NEW i \in DOMAIN Ahead(s) PROVE Ahead(s)[i].rv \in 1..c
  OBVIOUS
<1>0. /\ s.currentRV \in Nat /\ Len(s.boot) \in Nat /\ Len(Ahead(s)) \in Nat
      /\ DOMAIN s.boot = 1..Len(s.boot) /\ i \in 1..Len(Ahead(s))
      /\ \A j \in 1..Len(s.boot) : Ahead(s)[j] = s.boot[j]
  BY AheadOf
<1>1. CASE i <= Len(s.boot)
  <2>1. i \in DOMAIN s.boot /\ Ahead(s)[i] = s.boot[i]
    BY <1>0, <1>1
  <2>2. QED
    BY <1>0, <2>1 DEF StreamSound
<1>2. CASE i > Len(s.boot)
  <2>1. i - Len(s.boot) \in DOMAIN s.ch /\ Ahead(s)[i] = s.ch[i - Len(s.boot)]
    BY <1>2, AheadOf
  <2>2. QED
    BY <1>0, <2>1 DEF StreamSound
<1>3. QED
  BY <1>0, <1>1, <1>2

\* A write: the subscription is left alone, dropped, or sent the event.
LEMMA StreamWrote ==
  ASSUME TypeOK, TypeOK', HistoryWindow, HistPos, NEW g0 \in GVRs, NEW n0 \in Names, NEW e \in Event,
         Wrote(g0, n0, e), NEW w \in Watchers, NEW k \in ClientState, NEW s \in Subscription,
         Stream(data, history, rv, w, s, k),
         NEW t \in Subscription,
         t = IF s.state = "open" /\ WatchGVR[w] = e.gvr THEN Fan(s, e) ELSE s
  PROVE  Stream(data', history', rv', w, t, k)
<1>0. /\ rv \in Nat /\ rv' = rv + 1 /\ e.rv = rv + 1 /\ e.gvr = g0 /\ k.lastRV \in Nat
      /\ s.currentRV \in Nat /\ s.currentRV <= rv
      /\ Ahead(s) \in Seq(Event) /\ Len(Ahead(s)) \in Nat /\ DOMAIN Ahead(s) = 1..Len(Ahead(s))
      /\ Len(s.boot) \in 0..Len(Ahead(s))
      /\ StreamSound(rv, s, k) /\ StreamExact(data, history, rv, w, s, k)
      /\ StreamBooting(data, history, rv, w, s, k) /\ StreamOpen(data, history, rv, w, s, k)
  <2>1. rv \in Nat /\ rv' = rv + 1 /\ e.rv = rv + 1 /\ e.gvr = g0
    BY StoreAssumption DEF TypeOK, Wrote
  <2>2. k.lastRV \in Nat
    BY DEF ClientState
  <2>3. /\ s.currentRV \in Nat /\ Ahead(s) \in Seq(Event) /\ Len(Ahead(s)) \in Nat
        /\ DOMAIN Ahead(s) = 1..Len(Ahead(s))
        /\ Len(Ahead(s)) = Len(s.boot) + Len(s.ch) /\ Len(s.boot) \in Nat /\ Len(s.ch) \in Nat
    BY AheadOf
  <2>4. Len(s.boot) \in 0..Len(Ahead(s))
    <3>1. \A x, y, z \in Nat : z = x + y => x \in 0..z
      OBVIOUS
    <3>2. QED
      BY <2>3, <3>1
  <2>5. /\ StreamSound(rv, s, k) /\ StreamExact(data, history, rv, w, s, k)
        /\ StreamBooting(data, history, rv, w, s, k) /\ StreamOpen(data, history, rv, w, s, k)
    BY DEF Stream
  <2>6. s.currentRV <= rv
    BY <2>5 DEF StreamSound
  <2>7. QED
    BY <2>1, <2>2, <2>3, <2>4, <2>5, <2>6
<1>a. \A i \in DOMAIN Ahead(s) : Ahead(s)[i].rv \in 1..rv
  BY <1>0, AheadKnown
<1>k. \A j \in 0..Len(Ahead(s)), r \in Nat :
        r <= rv /\ Knows(data, history, rv, w, k.view, Ahead(s), j, r)
        => Knows(data', history', rv', w, k.view, Ahead(s), j, r)
  BY <1>0, KnowsWrote
<1>1. CASE /\ t.boot = s.boot /\ t.ch = s.ch /\ t.currentRV = s.currentRV
           /\ \/ t.state = s.state /\ (s.state = "open" => WatchGVR[w] # g0)
              \/ t.state = "closed" /\ s.state = "open"
  <2>1. Ahead(t) = Ahead(s)
    BY <1>1 DEF Ahead
  <2>2. StreamSound(rv', t, k)
    <3>1. \A i \in DOMAIN t.ch : t.ch[i].rv \in (t.currentRV + 1)..(rv + 1)
      BY <1>0, <1>1 DEF StreamSound
    <3>2. t.state = "none" <=> s.state = "none"
      BY <1>1
    <3>3. QED
      BY <1>0, <1>1, <3>1, <3>2 DEF StreamSound
  <2>3. StreamExact(data', history', rv', w, t, k)
    <3> SUFFICES ASSUME k.exact PROVE StreamExact(data', history', rv', w, t, k)
      BY DEF StreamExact
    <3>1. k.lastRV <= rv /\ Knows(data', history', rv', w, k.view, Ahead(t), 0, k.lastRV)
      BY <1>0, <1>k, <2>1 DEF StreamExact
    <3>2. ASSUME k.phase = "watching", NEW j \in DOMAIN Ahead(s)
          PROVE  Knows(data', history', rv', w, k.view, Ahead(s), j, Ahead(s)[j].rv)
      <4>1. Knows(data, history, rv, w, k.view, Ahead(s), j, Ahead(s)[j].rv)
        BY <1>0, <3>2 DEF StreamExact
      <4>2. Ahead(s)[j].rv \in 1..rv /\ j \in 1..Len(Ahead(s))
        BY <1>0, <1>a
      <4>3. Ahead(s)[j].rv \in Nat /\ Ahead(s)[j].rv <= rv /\ j \in 0..Len(Ahead(s))
        BY <1>0, <4>2
      <4>4. QED
        BY <1>k, <4>1, <4>3
    <3>3. k.lastRV <= rv'
      BY <1>0, <3>1
    <3>4. k.phase = "watching" =>
            /\ k.origin = "complete"
            /\ \A i \in DOMAIN Ahead(s) : Ahead(s)[i].rv > k.lastRV
            /\ \A i, j \in DOMAIN Ahead(s) : i < j => Ahead(s)[i].rv < Ahead(s)[j].rv
      BY <1>0 DEF StreamExact
    <3>5. QED
      BY <2>1, <3>1, <3>2, <3>3, <3>4 DEF StreamExact
  <2>4. StreamBooting(data', history', rv', w, t, k)
    <3> SUFFICES ASSUME k.phase = "watching", k.origin = "complete", ~k.exact
                 PROVE  StreamBooting(data', history', rv', w, t, k)
      BY DEF StreamBooting
    <3>1. Knows(data', history', rv', w, k.view, Ahead(t), Len(t.boot), t.currentRV)
      BY <1>0, <1>1, <1>k, <2>1 DEF StreamBooting
    <3>2. \A j \in DOMAIN Ahead(t) : j > Len(t.boot) =>
            Knows(data', history', rv', w, k.view, Ahead(t), j, Ahead(t)[j].rv)
      BY <1>0, <1>1, <1>a, <1>k, <2>1, SMTT(20) DEF StreamBooting
    <3>3. QED
      BY <1>0, <1>1, <3>1, <3>2 DEF StreamBooting
  <2>5. StreamOpen(data', history', rv', w, t, k)
    <3> SUFFICES ASSUME t.state = "open", k.origin = "complete"
                 PROVE  Knows(data', history', rv', w, k.view, Ahead(t), Len(Ahead(t)), rv')
      BY DEF StreamOpen
    <3>1. s.state = "open" /\ WatchGVR[w] # g0
      BY <1>1
    <3>2. Knows(data, history, rv, w, k.view, Ahead(s), Len(Ahead(s)), rv)
      BY <1>0, <3>1 DEF StreamOpen
    <3>3. Len(Ahead(s)) \in 0..Len(Ahead(s))
      BY <1>0
    <3>4. QED
      BY <1>0, <2>1, <3>1, <3>2, <3>3, KnowsOther
  <2>6. QED
    BY <2>2, <2>3, <2>4, <2>5 DEF Stream
<1>2. CASE /\ t.boot = s.boot /\ t.ch = Append(s.ch, e) /\ t.currentRV = s.currentRV
           /\ t.state = s.state /\ s.state = "open" /\ WatchGVR[w] = g0
  <2> DEFINE m == Len(Ahead(s))
  <2>0. /\ s.boot \in Seq(Event) /\ s.ch \in Seq(Event) /\ Len(s.ch) \in Nat /\ DOMAIN s.ch = 1..Len(s.ch)
        /\ Ahead(t) \in Seq(Event) /\ DOMAIN Ahead(t) = 1..Len(Ahead(t))
    BY AheadOf
  <2>1. Ahead(t) = Append(Ahead(s), e)
    <3>1. s.boot \o Append(s.ch, e) = Append(s.boot \o s.ch, e)
      BY <2>0, ConcatEnds
    <3>2. Ahead(t) = s.boot \o Append(s.ch, e) /\ Ahead(s) = s.boot \o s.ch
      BY <1>2 DEF Ahead
    <3>3. QED
      BY <3>1, <3>2
  <2>p. /\ Len(Ahead(t)) = m + 1 /\ Ahead(t)[m + 1] = e /\ \A i \in 1..m : Ahead(t)[i] = Ahead(s)[i]
        /\ \A i : i \in DOMAIN Ahead(t) <=> i \in 1..m \/ i = m + 1
    <3>1. \A x \in Seq(Event), y \in Event :
            /\ Len(Append(x, y)) = Len(x) + 1 /\ Append(x, y)[Len(x) + 1] = y
            /\ \A i \in 1..Len(x) : Append(x, y)[i] = x[i]
      OBVIOUS
    <3>2. Len(Ahead(t)) = m + 1 /\ Ahead(t)[m + 1] = e /\ \A i \in 1..m : Ahead(t)[i] = Ahead(s)[i]
      BY <1>0, <2>1, <3>1
    <3>3. DOMAIN Ahead(t) = 1..(m + 1) /\ m \in Nat
      BY <1>0, <2>0, <3>2
    <3> HIDE DEF m
    <3>4. \A i : i \in 1..(m + 1) <=> i \in 1..m \/ i = m + 1
      BY <3>3
    <3>5. QED
      BY <3>2, <3>3, <3>4
  <2>k. \A j \in 0..m, r \in Nat :
          r <= rv /\ Knows(data, history, rv, w, k.view, Ahead(s), j, r)
          => Knows(data', history', rv', w, k.view, Ahead(t), j, r)
    BY <1>0, <1>k, <2>0, <2>p, KnowsPrefix
  <2>n. k.origin = "complete" => Knows(data', history', rv', w, k.view, Ahead(t), m + 1, rv + 1)
    <3> SUFFICES ASSUME k.origin = "complete"
                 PROVE  Knows(data', history', rv', w, k.view, Ahead(t), m + 1, rv + 1)
      OBVIOUS
    <3>1. Knows(data, history, rv, w, k.view, Ahead(s), Len(Ahead(s)), rv)
      BY <1>0, <1>2 DEF StreamOpen
    <3>2. QED
      BY <1>0, <1>2, <2>1, <3>1, KnowsSent
  <2> HIDE DEF m
  <2>2. StreamSound(rv', t, k)
    <3>1. /\ DOMAIN t.ch = 1..(Len(s.ch) + 1) /\ t.ch[Len(s.ch) + 1] = e
          /\ \A i \in 1..Len(s.ch) : t.ch[i] = s.ch[i] /\ s.ch[i].rv \in (s.currentRV + 1)..rv
      <4>1. /\ DOMAIN t.ch = 1..(Len(s.ch) + 1) /\ t.ch[Len(s.ch) + 1] = e
            /\ \A i \in 1..Len(s.ch) : t.ch[i] = s.ch[i]
        BY <1>2, <2>0
      <4>2. \A i \in 1..Len(s.ch) : s.ch[i].rv \in (s.currentRV + 1)..rv
        BY <1>0, <2>0 DEF StreamSound
      <4>3. QED
        BY <4>1, <4>2
    <3>2. \A i \in DOMAIN t.ch : t.ch[i].rv \in (t.currentRV + 1)..(rv + 1)
      <4> SUFFICES ASSUME NEW i \in 1..(Len(s.ch) + 1) PROVE t.ch[i].rv \in (t.currentRV + 1)..(rv + 1)
        BY <3>1
      <4>1. i \in 1..Len(s.ch) \/ i = Len(s.ch) + 1
        BY <2>0
      <4>2. CASE i \in 1..Len(s.ch)
        <5>1. t.ch[i] = s.ch[i] /\ s.ch[i].rv \in (s.currentRV + 1)..rv
          BY <3>1, <4>2
        <5>2. QED
          BY <1>0, <1>2, <5>1, SMTT(20)
      <4>3. CASE i = Len(s.ch) + 1
        <5>1. t.ch[i].rv = rv + 1
          BY <1>0, <3>1, <4>3
        <5>2. QED
          BY <1>0, <1>2, <5>1, SMTT(20)
      <4>4. QED
        BY <4>1, <4>2, <4>3
    <3>3. \A i, j \in DOMAIN t.ch : i < j => t.ch[i].rv < t.ch[j].rv
      <4> SUFFICES ASSUME NEW i \in 1..(Len(s.ch) + 1), NEW j \in 1..(Len(s.ch) + 1), i < j
                   PROVE  t.ch[i].rv < t.ch[j].rv
        BY <3>1
      <4>1. i \in 1..Len(s.ch) /\ (j \in 1..Len(s.ch) \/ j = Len(s.ch) + 1)
        BY <2>0, SMTT(20)
      <4>2. CASE j \in 1..Len(s.ch)
        <5>1. s.ch[i].rv < s.ch[j].rv
          BY <1>0, <2>0, <4>1, <4>2 DEF StreamSound
        <5>2. QED
          BY <3>1, <4>1, <4>2, <5>1
      <4>3. CASE j = Len(s.ch) + 1
        <5>1. t.ch[j].rv = rv + 1 /\ t.ch[i] = s.ch[i] /\ s.ch[i].rv \in (s.currentRV + 1)..rv
          BY <1>0, <3>1, <4>1, <4>3
        <5>2. QED
          BY <1>0, <5>1, SMTT(20)
      <4>4. QED
        BY <4>1, <4>2, <4>3
    <3>4. QED
      BY <1>0, <1>2, <3>2, <3>3 DEF StreamSound
  <2>3. StreamExact(data', history', rv', w, t, k)
    <3> SUFFICES ASSUME k.exact PROVE StreamExact(data', history', rv', w, t, k)
      BY DEF StreamExact
    <3>0. 0 \in 0..m /\ m \in Nat /\ m = Len(Ahead(s))
      BY <1>0 DEF m
    <3>1. k.lastRV <= rv /\ Knows(data', history', rv', w, k.view, Ahead(t), 0, k.lastRV)
      BY <1>0, <2>k, <3>0 DEF StreamExact
    <3>2. ASSUME k.phase = "watching"
          PROVE  /\ k.origin = "complete"
                 /\ \A i \in DOMAIN Ahead(t) : Ahead(t)[i].rv > k.lastRV
                 /\ \A i, j \in DOMAIN Ahead(t) : i < j => Ahead(t)[i].rv < Ahead(t)[j].rv
                 /\ \A j \in DOMAIN Ahead(t) :
                      Knows(data', history', rv', w, k.view, Ahead(t), j, Ahead(t)[j].rv)
      <4>0. /\ k.origin = "complete"
            /\ \A i \in 1..m : Ahead(s)[i].rv > k.lastRV
            /\ \A i, j \in 1..m : i < j => Ahead(s)[i].rv < Ahead(s)[j].rv
            /\ \A j \in 1..m : Knows(data, history, rv, w, k.view, Ahead(s), j, Ahead(s)[j].rv)
            /\ \A i \in 1..m : Ahead(s)[i].rv \in 1..rv
        BY <1>0, <1>a, <3>0, <3>2 DEF StreamExact
      <4>1. \A i \in DOMAIN Ahead(t) : Ahead(t)[i].rv > k.lastRV
        BY <1>0, <2>p, <3>1, <4>0
      <4>2. ASSUME NEW i \in DOMAIN Ahead(t), NEW j \in DOMAIN Ahead(t), i < j
            PROVE  Ahead(t)[i].rv < Ahead(t)[j].rv
        <5>1. i \in 1..m /\ (j \in 1..m \/ j = m + 1)
          BY <2>p, <3>0, <4>2
        <5>2. QED
          BY <1>0, <2>p, <4>0, <4>2, <5>1
      <4>3. ASSUME NEW j \in DOMAIN Ahead(t)
            PROVE  Knows(data', history', rv', w, k.view, Ahead(t), j, Ahead(t)[j].rv)
        <5>1. CASE j \in 1..m
          <6>1. j \in 0..m /\ Ahead(s)[j].rv \in Nat /\ Ahead(s)[j].rv <= rv
            BY <3>0, <4>0, <5>1
          <6>2. QED
            BY <2>k, <2>p, <4>0, <5>1, <6>1
        <5>2. CASE j = m + 1
          BY <1>0, <2>n, <2>p, <4>0, <5>2
        <5>3. QED
          BY <2>p, <5>1, <5>2
      <4>4. QED
        BY <4>0, <4>1, <4>2, <4>3
    <3>3. QED
      BY <1>0, <3>1, <3>2 DEF StreamExact
  <2>4. StreamBooting(data', history', rv', w, t, k)
    <3> SUFFICES ASSUME k.phase = "watching", k.origin = "complete", ~k.exact
                 PROVE  StreamBooting(data', history', rv', w, t, k)
      BY DEF StreamBooting
    <3>0. m \in Nat /\ m = Len(Ahead(s)) /\ Len(s.boot) \in 0..m
      BY <1>0 DEF m
    <3>1. Knows(data', history', rv', w, k.view, Ahead(t), Len(t.boot), t.currentRV)
      BY <1>0, <1>2, <2>k, <3>0 DEF StreamBooting
    <3>2. ASSUME NEW j \in DOMAIN Ahead(t), j > Len(t.boot)
          PROVE  Knows(data', history', rv', w, k.view, Ahead(t), j, Ahead(t)[j].rv)
      <4>1. CASE j \in 1..m
        <5>1. j \in 0..m /\ Ahead(s)[j].rv \in Nat /\ Ahead(s)[j].rv <= rv /\ j \in DOMAIN Ahead(s)
          BY <1>0, <1>a, <3>0, <4>1
        <5>2. Knows(data, history, rv, w, k.view, Ahead(s), j, Ahead(s)[j].rv)
          BY <1>0, <1>2, <3>2, <5>1 DEF StreamBooting
        <5>3. QED
          BY <2>k, <2>p, <4>1, <5>1, <5>2
      <4>2. CASE j = m + 1
        BY <1>0, <2>n, <2>p, <4>2
      <4>3. QED
        BY <2>p, <4>1, <4>2
    <3>3. QED
      BY <1>0, <1>2, <3>1, <3>2 DEF StreamBooting
  <2>5. StreamOpen(data', history', rv', w, t, k)
    BY <1>0, <2>n, <2>p DEF StreamOpen
  <2>6. QED
    BY <2>2, <2>3, <2>4, <2>5 DEF Stream
<1>3. CASE s.state = "open" /\ WatchGVR[w] = e.gvr /\ Len(s.ch) < ChanCap
  <2>1. t = [s EXCEPT !.ch = Append(@, e)]
    BY <1>3 DEF Fan
  <2>2. QED
    BY <1>0, <1>2, <1>3, <2>1 DEF Subscription
<1>4. CASE s.state = "open" /\ WatchGVR[w] = e.gvr /\ ~(Len(s.ch) < ChanCap)
  <2>1. t = [s EXCEPT !.state = "closed"]
    BY <1>4 DEF Fan, DropSub
  <2>2. QED
    BY <1>1, <1>4, <2>1 DEF Subscription
<1>5. CASE ~(s.state = "open" /\ WatchGVR[w] = e.gvr)
  <2>1. t = s
    BY <1>5
  <2>2. s.state = "open" => WatchGVR[w] # g0
    BY <1>0, <1>5
  <2>3. t.boot = s.boot /\ t.ch = s.ch /\ t.currentRV = s.currentRV /\ t.state = s.state
    BY <2>1
  <2>4. QED
    BY <1>1, <2>2, <2>3
<1>6. QED
  BY <1>3, <1>4, <1>5

\* The pump hands over the next event: from the bootstrap, or when that is
\* empty from the channel.
Handed(w, s, k, t, l) ==
  /\ t.state = s.state /\ t.currentRV = s.currentRV /\ s.state # "none"
  /\ \/ /\ s.boot # <<>> /\ t.boot = Tail(s.boot) /\ t.ch = s.ch
        /\ l.exact = (k.exact \/ (Len(s.boot) = 1 /\ k.origin = "complete"))
     \/ /\ s.boot = <<>> /\ s.ch # <<>> /\ t.boot = <<>> /\ t.ch = Tail(s.ch)
        /\ l.exact = k.exact
  /\ l.phase = k.phase /\ l.origin = k.origin
  /\ l.view = After(w, k.view, Ahead(s)[1])
  /\ l.lastRV = IF Matches(w, Ahead(s)[1].obj) THEN Ahead(s)[1].rv ELSE k.lastRV

\* The next event leaves the queue.
LEMMA HandedAhead ==
  ASSUME NEW w, NEW k, NEW l, NEW s \in Subscription, NEW t \in Subscription, Handed(w, s, k, t, l)
  PROVE  /\ Ahead(s) # <<>> /\ Ahead(t) = Tail(Ahead(s)) /\ 1 \in DOMAIN Ahead(s)
         /\ Len(Ahead(t)) = Len(Ahead(s)) - 1
         /\ \A i \in DOMAIN Ahead(t) : i + 1 \in DOMAIN Ahead(s) /\ Ahead(t)[i] = Ahead(s)[i + 1]
<1>0. s.boot \in Seq(Event) /\ s.ch \in Seq(Event) /\ Ahead(s) \in Seq(Event) /\ Ahead(t) \in Seq(Event)
  BY AheadOf
<1>1. Ahead(s) # <<>> /\ Ahead(t) = Tail(Ahead(s))
  <2>1. CASE s.boot # <<>>
    <3>1. Head(s.boot) \in Event
      BY <1>0, <2>1
    <3>2. Tail(s.boot) \o s.ch = Tail(s.boot \o s.ch) /\ s.boot \o s.ch # <<>>
      BY <1>0, <2>1, <3>1, ConcatEnds
    <3>3. QED
      BY <2>1, <3>2 DEF Handed, Ahead
  <2>2. CASE s.boot = <<>>
    <3>1. s.ch # <<>> /\ t.boot = <<>> /\ t.ch = Tail(s.ch)
      BY <2>2 DEF Handed
    <3>2. <<>> \in Seq(Event) /\ Tail(s.ch) \in Seq(Event) /\ Head(s.ch) \in Event
      BY <1>0, <3>1
    <3>3. Ahead(s) = s.ch /\ Ahead(t) = Tail(s.ch)
      BY <1>0, <2>2, <3>1, <3>2, ConcatEnds DEF Ahead
    <3>4. QED
      BY <3>1, <3>3
  <2>3. QED
    BY <2>1, <2>2
<1>2. /\ Len(Ahead(t)) = Len(Ahead(s)) - 1 /\ Len(Ahead(s)) \in Nat
      /\ \A i \in 1..Len(Ahead(t)) : Ahead(t)[i] = Ahead(s)[i + 1]
  BY <1>0, <1>1, HeadTailProperties
<1>3. DOMAIN Ahead(s) = 1..Len(Ahead(s)) /\ DOMAIN Ahead(t) = 1..Len(Ahead(t))
  BY <1>0
<1>4. 1 \in DOMAIN Ahead(s)
  BY <1>0, <1>1
<1>5. QED
  BY <1>1, <1>2, <1>3, <1>4

\* Handing over keeps the shape of a stream.
LEMMA HandedSound ==
  ASSUME NEW w \in Watchers, NEW k \in ClientState, NEW s \in Subscription,
         NEW t \in Subscription, NEW l \in ClientState, NEW c \in Nat, Handed(w, s, k, t, l),
         StreamSound(c, s, k)
  PROVE  StreamSound(c, t, l)
<1>0. /\ s.boot \in Seq(Event) /\ s.ch \in Seq(Event) /\ t.currentRV = s.currentRV /\ t.state = s.state
      /\ l.phase = k.phase
  BY AheadOf DEF Handed
<1>1. \A q \in Seq(Event) : q # <<>> =>
        \A i \in DOMAIN Tail(q) : i + 1 \in DOMAIN q /\ Tail(q)[i] = q[i + 1] /\ i \in Nat
  <2> SUFFICES ASSUME NEW q \in Seq(Event), q # <<>>, NEW i \in DOMAIN Tail(q)
               PROVE  i + 1 \in DOMAIN q /\ Tail(q)[i] = q[i + 1] /\ i \in Nat
    OBVIOUS
  <2>1. /\ Tail(q) \in Seq(Event) /\ Len(Tail(q)) = Len(q) - 1 /\ Len(q) \in Nat
        /\ \A j \in 1..Len(Tail(q)) : Tail(q)[j] = q[j + 1]
    BY HeadTailProperties
  <2>2. DOMAIN q = 1..Len(q) /\ DOMAIN Tail(q) = 1..Len(Tail(q))
    BY <2>1
  <2>3. QED
    BY <2>1, <2>2
<1>2. \A i \in DOMAIN t.boot : t.boot[i].rv \in 1..t.currentRV
  <2>1. CASE s.boot # <<>>
    <3>1. t.boot = Tail(s.boot)
      BY <2>1 DEF Handed
    <3>2. \A i \in DOMAIN t.boot : i + 1 \in DOMAIN s.boot /\ t.boot[i] = s.boot[i + 1]
      BY <1>0, <1>1, <2>1, <3>1
    <3>3. QED
      BY <1>0, <3>2 DEF StreamSound
  <2>2. CASE s.boot = <<>>
    <3>1. t.boot = s.boot
      BY <2>2 DEF Handed
    <3>2. QED
      BY <1>0, <3>1 DEF StreamSound
  <2>3. QED
    BY <2>1, <2>2
<1>3. /\ \A i \in DOMAIN t.ch : t.ch[i].rv \in (t.currentRV + 1)..c
      /\ \A i, j \in DOMAIN t.ch : i < j => t.ch[i].rv < t.ch[j].rv
  <2>1. CASE s.boot # <<>>
    BY <1>0, <2>1 DEF StreamSound, Handed
  <2>2. CASE s.boot = <<>>
    <3>1. s.ch # <<>> /\ t.ch = Tail(s.ch)
      BY <2>2 DEF Handed
    <3>2. \A i \in DOMAIN t.ch : i + 1 \in DOMAIN s.ch /\ t.ch[i] = s.ch[i + 1] /\ i \in Nat
      BY <1>0, <1>1, <3>1
    <3>3. \A i \in DOMAIN t.ch : t.ch[i].rv \in (t.currentRV + 1)..c
      BY <1>0, <3>2 DEF StreamSound
    <3>4. ASSUME NEW i \in DOMAIN t.ch, NEW j \in DOMAIN t.ch, i < j
          PROVE  t.ch[i].rv < t.ch[j].rv
      <4>1. i + 1 < j + 1
        BY <3>2, <3>4
      <4>2. s.ch[i + 1].rv < s.ch[j + 1].rv
        BY <3>2, <4>1 DEF StreamSound
      <4>3. QED
        BY <3>2, <4>2
    <3>5. QED
      BY <3>3, <3>4
  <2>3. QED
    BY <2>1, <2>2
<1>4. ASSUME l.lastRV = 0
      PROVE  \A n \in Names : l.view[n] = Absent
  <2>1. 1 \in DOMAIN Ahead(s)
    BY HandedAhead
  <2>2. Ahead(s)[1].rv \in 1..c
    BY <2>1, AheadKnown
  <2>3. ~Matches(w, Ahead(s)[1].obj)
    BY <1>4, <2>2 DEF Handed
  <2>4. l.lastRV = k.lastRV /\ l.view = k.view
    BY <2>3 DEF Handed, After
  <2>5. QED
    BY <1>4, <2>4 DEF StreamSound
<1>5. QED
  BY <1>0, <1>2, <1>3, <1>4 DEF StreamSound

\* Handing over keeps the invariant of a stream.
LEMMA StreamHanded ==
  ASSUME TypeOK, NEW w \in Watchers, NEW k \in ClientState, NEW s \in Subscription,
         NEW t \in Subscription, NEW l \in ClientState, Handed(w, s, k, t, l),
         Stream(data, history, rv, w, s, k)
  PROVE  Stream(data, history, rv, w, t, l)
<1> DEFINE q == Ahead(s)
           e == Ahead(s)[1]
<1>0. /\ rv \in Nat /\ data \in [GVRs -> View] /\ k.view \in View
      /\ k.lastRV \in Nat /\ l.lastRV \in Nat
      /\ t.currentRV = s.currentRV /\ t.state = s.state /\ l.phase = k.phase /\ l.origin = k.origin
      /\ l.view = After(w, k.view, e)
      /\ l.lastRV = IF Matches(w, e.obj) THEN e.rv ELSE k.lastRV
  BY StoreAssumption DEF TypeOK, ClientState, Handed
<1>s. /\ StreamSound(rv, s, k) /\ StreamExact(data, history, rv, w, s, k)
      /\ StreamBooting(data, history, rv, w, s, k) /\ StreamOpen(data, history, rv, w, s, k)
  BY DEF Stream
<1>b. /\ s.boot \in Seq(Event) /\ s.ch \in Seq(Event) /\ s.currentRV \in Nat
      /\ Len(s.boot) \in Nat /\ Len(s.ch) \in Nat /\ s.currentRV <= rv
      /\ DOMAIN s.boot = 1..Len(s.boot) /\ DOMAIN s.ch = 1..Len(s.ch)
  BY <1>s, AheadOf DEF StreamSound
<1>p. PICK m \in Nat \ {0} :
        /\ m = Len(q) /\ q \in Seq(Event) /\ Ahead(t) = Tail(q) /\ Ahead(t) \in Seq(Event)
        /\ DOMAIN q = 1..m /\ DOMAIN Ahead(t) = 1..(m - 1) /\ Len(Ahead(t)) = m - 1
        /\ \A i \in 1..(m - 1) : i + 1 \in 1..m /\ Ahead(t)[i] = q[i + 1]
        /\ \A i \in 1..m : q[i].rv \in 1..rv
        /\ m = Len(s.boot) + Len(s.ch)
  <2>1. /\ q \in Seq(Event) /\ Len(q) \in Nat /\ DOMAIN q = 1..Len(q)
        /\ Ahead(t) \in Seq(Event) /\ DOMAIN Ahead(t) = 1..Len(Ahead(t))
        /\ Len(q) = Len(s.boot) + Len(s.ch)
    BY AheadOf
  <2>2. /\ q # <<>> /\ Ahead(t) = Tail(q) /\ 1 \in DOMAIN q /\ Len(Ahead(t)) = Len(q) - 1
        /\ \A i \in DOMAIN Ahead(t) : i + 1 \in DOMAIN q /\ Ahead(t)[i] = q[i + 1]
    <3>1. /\ Ahead(s) # <<>> /\ Ahead(t) = Tail(Ahead(s)) /\ 1 \in DOMAIN Ahead(s)
          /\ Len(Ahead(t)) = Len(Ahead(s)) - 1
          /\ \A i \in DOMAIN Ahead(t) : i + 1 \in DOMAIN Ahead(s) /\ Ahead(t)[i] = Ahead(s)[i + 1]
      <4> HIDE DEF q, e
      <4>1. QED
        BY HandedAhead
    <3>2. QED
      BY <3>1
  <2>3. \A i \in DOMAIN q : q[i].rv \in 1..rv
    BY <1>0, <1>s, AheadKnown
  <2> HIDE DEF q
  <2>4. Len(q) \in Nat \ {0}
    <3>1. Len(q) \in Nat /\ 1 \in 1..Len(q)
      BY <2>1, <2>2
    <3>2. QED
      BY <3>1
  <2>5. QED
    BY <2>1, <2>2, <2>3, <2>4
<1>k. \A j \in 1..m : \A r : Knows(data, history, rv, w, k.view, q, j, r) =>
                             Knows(data, history, rv, w, l.view, Ahead(t), j - 1, r)
  BY <1>0, <1>p, KnowsPump
<1>z. 0 \in 0..Len(Ahead(t))
  BY <1>p
<1>m. \A r, p \in Nat : p <= r /\ Knows(data, history, rv, w, l.view, Ahead(t), 0, r) =>
                        Knows(data, history, rv, w, l.view, Ahead(t), 0, p)
  BY <1>p, <1>z, KnowsMono
<1>n. /\ \A i \in 1..(m - 1) : i \in Nat /\ (i + 1) - 1 = i /\ i + 1 \in 1..m /\ 1 < i + 1
      /\ 1 \in 1..m /\ 1 - 1 = 0 /\ m \in 1..m
  OBVIOUS
<1>p1. DOMAIN Ahead(t) = 1..(m - 1)
  BY <1>p
<1>p2. \A i \in 1..(m - 1) : Ahead(t)[i] = q[i + 1]
  BY <1>p
<1>p3. \A i \in 1..m : q[i].rv \in 1..rv
  BY <1>p
<1>e. q[1] = e
  OBVIOUS
<1> HIDE DEF q, e
<1>1. StreamSound(rv, t, l)
  BY <1>0, <1>s, HandedSound
<1>2. StreamOpen(data, history, rv, w, t, l)
  <2> SUFFICES ASSUME t.state = "open", l.origin = "complete"
               PROVE  Knows(data, history, rv, w, l.view, Ahead(t), m - 1, rv)
    BY <1>p DEF StreamOpen
  <2>1. Knows(data, history, rv, w, k.view, q, m, rv)
    BY <1>0, <1>s, <1>p DEF StreamOpen, q
  <2>2. QED
    BY <1>k, <1>n, <2>1
<1>3. CASE k.exact
  <2>1. l.exact
    BY <1>3 DEF Handed
  <2>2. /\ k.lastRV <= rv
        /\ k.phase = "watching" =>
             /\ k.origin = "complete"
             /\ \A i \in 1..m : q[i].rv > k.lastRV
             /\ \A i, j \in 1..m : i < j => q[i].rv < q[j].rv
             /\ \A j \in 1..m : Knows(data, history, rv, w, k.view, q, j, q[j].rv)
    BY <1>3, <1>s, <1>p DEF StreamExact, q
  <2>w. k.phase = "watching"
    BY <1>s DEF StreamSound, Handed
  <2>3. l.lastRV <= q[1].rv /\ l.lastRV <= rv /\ q[1].rv \in 1..rv
    <3>1. q[1].rv \in 1..rv /\ q[1].rv > k.lastRV
      BY <1>n, <1>p3, <2>2, <2>w
    <3>2. QED
      BY <1>0, <1>e, <3>1
  <2>4. Knows(data, history, rv, w, l.view, Ahead(t), 0, l.lastRV)
    <3>1. Knows(data, history, rv, w, l.view, Ahead(t), 0, q[1].rv)
      BY <1>k, <1>n, <2>2, <2>w
    <3>2. QED
      BY <1>0, <1>m, <2>3, <3>1
  <2>5. \A i \in 1..(m - 1) : Ahead(t)[i].rv > l.lastRV
    <3> TAKE i \in 1..(m - 1)
    <3>1. i + 1 \in 1..m /\ 1 < i + 1 /\ 1 \in 1..m
      BY <1>n
    <3>2. q[1].rv < q[i + 1].rv /\ q[i + 1].rv \in 1..rv
      BY <1>p3, <2>2, <2>w, <3>1
    <3>3. Ahead(t)[i] = q[i + 1]
      BY <1>p2
    <3>4. QED
      BY <1>0, <2>3, <3>2, <3>3
  <2>6. ASSUME NEW i \in 1..(m - 1), NEW j \in 1..(m - 1), i < j
        PROVE  Ahead(t)[i].rv < Ahead(t)[j].rv
    <3>1. i + 1 < j + 1
      BY <1>n, <2>6
    <3>2. QED
      BY <1>p, <2>2, <2>w, <3>1
  <2>7. \A j \in 1..(m - 1) : Knows(data, history, rv, w, l.view, Ahead(t), j, Ahead(t)[j].rv)
    <3> TAKE j \in 1..(m - 1)
    <3>1. Knows(data, history, rv, w, k.view, q, j + 1, q[j + 1].rv) /\ j + 1 \in 1..m
      BY <1>p, <2>2, <2>w
    <3>2. Knows(data, history, rv, w, l.view, Ahead(t), (j + 1) - 1, q[j + 1].rv)
      BY <1>k, <3>1
    <3>3. QED
      BY <1>p, <1>n, <3>2
  <2>8. StreamExact(data, history, rv, w, t, l)
    BY <1>0, <1>p, <2>2, <2>w, <2>3, <2>4, <2>5, <2>6, <2>7 DEF StreamExact
  <2>9. StreamBooting(data, history, rv, w, t, l)
    BY <2>1 DEF StreamBooting
  <2>10. QED
    BY <1>1, <1>2, <2>8, <2>9 DEF Stream
<1>4. CASE ~k.exact /\ k.origin # "complete"
  <2>1. ~l.exact /\ l.origin # "complete"
    BY <1>4 DEF Handed
  <2>2. QED
    BY <1>1, <1>2, <2>1 DEF Stream, StreamExact, StreamBooting
<1>5. CASE ~k.exact /\ k.origin = "complete"
  <2>w. k.phase = "watching"
    BY <1>s DEF StreamSound, Handed
  <2>0. /\ s.boot # <<>> /\ k.lastRV <= s.currentRV
        /\ Knows(data, history, rv, w, k.view, q, Len(s.boot), s.currentRV)
        /\ \A j \in 1..m : j > Len(s.boot) => Knows(data, history, rv, w, k.view, q, j, q[j].rv)
    BY <1>5, <1>s, <1>p, <2>w DEF StreamBooting, q
  <2>1. /\ t.boot = Tail(s.boot) /\ t.ch = s.ch
        /\ Len(s.boot) = 1 => l.exact
        /\ Len(s.boot) # 1 => ~l.exact
    BY <1>5, <2>0 DEF Handed
  <2>2. PICK b \in Nat : b + 1 = Len(s.boot) /\ b + 1 \in 1..m /\ Len(t.boot) = b
    <3>1. Len(s.boot) > 0 /\ Len(Tail(s.boot)) = Len(s.boot) - 1
      BY <1>b, <2>0
    <3>2. Len(s.boot) - 1 \in Nat /\ (Len(s.boot) - 1) + 1 = Len(s.boot) /\ Len(s.boot) \in 1..m
      <4>1. m = Len(s.boot) + Len(s.ch)
        BY <1>p
      <4>2. \A x, y, z \in Nat : z = x + y /\ x > 0 => x - 1 \in Nat /\ (x - 1) + 1 = x /\ x \in 1..z
        OBVIOUS
      <4>3. QED
        BY <1>b, <3>1, <4>1, <4>2
    <3>3. QED
      BY <2>1, <3>1, <3>2
  <2>3. l.lastRV <= s.currentRV
    <3>1. q[1].rv \in 1..s.currentRV
      <4>1. 1 \in DOMAIN s.boot /\ 1 \in 1..Len(s.boot)
        BY <1>b, <2>2
      <4>2. q[1] = s.boot[1]
        BY <4>1, AheadOf DEF q
      <4>3. QED
        BY <1>s, <4>1, <4>2 DEF StreamSound
    <3>2. QED
      BY <1>0, <1>b, <1>e, <2>0, <3>1
  <2>4. Knows(data, history, rv, w, l.view, Ahead(t), b, s.currentRV)
    <3>1. Knows(data, history, rv, w, l.view, Ahead(t), (b + 1) - 1, s.currentRV)
      BY <1>k, <2>0, <2>2
    <3>2. (b + 1) - 1 = b
      OBVIOUS
    <3>3. QED
      BY <3>1, <3>2
  <2>5. ASSUME NEW j \in 1..(m - 1), j > b
        PROVE  Knows(data, history, rv, w, l.view, Ahead(t), j, Ahead(t)[j].rv)
    <3>1. j + 1 \in 1..m /\ j + 1 > b + 1
      BY <2>5
    <3>2. Knows(data, history, rv, w, k.view, q, j + 1, q[j + 1].rv)
      BY <2>0, <2>2, <3>1
    <3>3. Knows(data, history, rv, w, l.view, Ahead(t), (j + 1) - 1, q[j + 1].rv)
      BY <1>k, <3>1, <3>2
    <3>4. QED
      BY <1>p2, <1>n, <3>3
  <2>6. CASE b = 0
    <3>0. Len(s.boot) = 1
      BY <2>2, <2>6
    <3>1. l.exact
      BY <2>1, <3>0
    <3>2. t.boot \in Seq(Event) /\ t.boot = <<>> /\ t.ch \in Seq(Event)
      <4>1. t.boot \in Seq(Event) /\ t.ch \in Seq(Event)
        BY AheadOf
      <4>2. Len(t.boot) = 0
        BY <2>2, <2>6
      <4>3. QED
        BY <4>1, <4>2
    <3>3. Ahead(t) = s.ch
      BY <2>1, <3>2, ConcatEmptySeq DEF Ahead
    <3>4. Knows(data, history, rv, w, l.view, Ahead(t), 0, l.lastRV) /\ l.lastRV <= rv
      BY <1>0, <1>b, <1>m, <2>3, <2>4, <2>6
    <3>5. \A i \in DOMAIN Ahead(t) : Ahead(t)[i].rv > l.lastRV
      <4> TAKE i \in DOMAIN Ahead(t)
      <4>1. Ahead(t)[i].rv \in (s.currentRV + 1)..rv
        BY <1>s, <3>3 DEF StreamSound
      <4>2. QED
        BY <1>0, <1>b, <2>3, <4>1
    <3>6. \A i, j \in DOMAIN Ahead(t) : i < j => Ahead(t)[i].rv < Ahead(t)[j].rv
      BY <1>s, <3>3 DEF StreamSound
    <3>7. \A j \in DOMAIN Ahead(t) : Knows(data, history, rv, w, l.view, Ahead(t), j, Ahead(t)[j].rv)
      <4> TAKE j \in DOMAIN Ahead(t)
      <4>1. j \in 1..(m - 1) /\ j > b
        <5>1. j \in 1..(m - 1)
          BY <1>p1
        <5>2. QED
          BY <2>6, <5>1
      <4>2. QED
        BY <2>5, <4>1
    <3>8. StreamExact(data, history, rv, w, t, l)
      BY <1>0, <1>5, <3>4, <3>5, <3>6, <3>7 DEF StreamExact
    <3>9. StreamBooting(data, history, rv, w, t, l)
      BY <3>1 DEF StreamBooting
    <3>10. QED
      BY <1>1, <1>2, <3>8, <3>9 DEF Stream
  <2>7. CASE b # 0
    <3>0. Len(s.boot) # 1
      BY <2>2, <2>7, SMTT(30)
    <3>1. ~l.exact
      BY <2>1, <3>0
    <3>2. t.boot # <<>>
      BY <2>2, <2>7
    <3>3. StreamBooting(data, history, rv, w, t, l)
      <4>1. l.lastRV <= t.currentRV
        BY <1>0, <2>3
      <4>2. Knows(data, history, rv, w, l.view, Ahead(t), Len(t.boot), t.currentRV)
        BY <1>0, <2>2, <2>4
      <4>3. \A j \in DOMAIN Ahead(t) : j > Len(t.boot) =>
              Knows(data, history, rv, w, l.view, Ahead(t), j, Ahead(t)[j].rv)
        BY <1>p, <2>2, <2>5
      <4>4. QED
        BY <3>2, <4>1, <4>2, <4>3 DEF StreamBooting
    <3>4. StreamExact(data, history, rv, w, t, l)
      BY <3>1 DEF StreamExact
    <3>5. QED
      BY <1>1, <1>2, <3>3, <3>4 DEF Stream
  <2>8. QED
    BY <2>6, <2>7
<1>6. QED
  BY <1>3, <1>4, <1>5

\* What is right up to a is right up to p if the history has a's successors and
\* none of those that concern the object is p or older.
LEMMA UptoSkip ==
  ASSUME TypeOK, HistoryWindow, HistHas, NEW g \in GVRs, NEW n \in Names, NEW a \in Nat, NEW p \in Nat,
         NEW o, Upto(data, history, rv, g, n, a, o),
         a = rv \/ (history # <<>> /\ a >= history[1].rv), a <= rv, p <= rv,
         \A i \in DOMAIN history :
           history[i].gvr = g /\ history[i].name = n /\ history[i].rv > a => history[i].rv > p
  PROVE  Upto(data, history, rv, g, n, p, o)
<1>0. /\ rv \in Nat /\ \A i \in DOMAIN history : history[i].rv \in Nat
      /\ history # <<>> => 1 \in DOMAIN history /\ history[1].rv \in Nat
  <2>1. rv \in Nat /\ history \in Seq(Event)
    BY StoreAssumption DEF TypeOK
  <2>2. QED
    BY <2>1, EventsOf
<1>1. CASE data[g][n] # Absent /\ o # data[g][n]
  <2>1. data[g][n].rv > a /\ data[g][n].rv \in 1..rv
    BY <1>1 DEF Upto, HistoryWindow, Versioned
  <2>2. history # <<>> /\ data[g][n].rv >= history[1].rv
    BY <1>0, <2>1
  <2>3. PICK i \in DOMAIN history : history[i].gvr = g /\ history[i].name = n
                                    /\ history[i].rv = data[g][n].rv
    BY <1>1, <2>2 DEF HistHas
  <2>4. data[g][n].rv > p
    BY <2>1, <2>3
  <2>5. QED
    BY <1>1, <2>4 DEF Upto
<1>2. CASE data[g][n] = Absent /\ o # Absent
  <2>1. Gone(history, rv, g, n, a)
    BY <1>2 DEF Upto
  <2>2. ~(a < rv /\ (history = <<>> \/ a < history[1].rv))
    BY <1>0
  <2>3. PICK i \in DOMAIN history : history[i].gvr = g /\ history[i].name = n /\ history[i].rv > a
    BY <2>1, <2>2 DEF Gone
  <2>4. history[i].rv > p
    BY <2>3
  <2>5. Gone(history, rv, g, n, p)
    BY <2>3, <2>4 DEF Gone
  <2>6. QED
    BY <1>2, <2>5 DEF Upto
<1>3. CASE o = data[g][n]
  BY <1>3 DEF Upto
<1>4. QED
  BY <1>1, <1>2, <1>3

\* A replayed history makes a client right that was right up to its start: up
\* to any p that the first j events do not exceed and the others do.
LEMMA KnowsReplay ==
  ASSUME TypeOK, HistoryWindow, StoreInv, NEW w \in Watchers, NEW v, NEW r \in Nat, r <= rv,
         Knows(data, history, rv, w, v, <<>>, 0, r),
         r = rv \/ (history # <<>> /\ r >= history[1].rv),
         NEW b \in SetToSeqs(HistoryAfter(WatchGVR[w], r)), InOrder(b),
         NEW j \in 0..Len(b), NEW p \in Nat, p <= rv, r <= p,
         \A i \in 1..j : b[i].rv <= p, \A i \in 1..Len(b) : i > j => b[i].rv > p
  PROVE  Knows(data, history, rv, w, v, b, j, p)
<1> DEFINE g == WatchGVR[w]
<1>0. /\ HistPos /\ HistTells /\ HistHas /\ rv \in Nat /\ g \in GVRs /\ history \in Seq(Event)
      /\ Len(history) \in Nat /\ DOMAIN history = 1..Len(history)
  BY StoreAssumption DEF StoreInv, TypeOK
<1>b. /\ \A x \in HistoryAfter(g, r) : \E i \in DOMAIN b : b[i] = x
      /\ \A i \in DOMAIN b : b[i] \in HistoryAfter(g, r)
      /\ Len(b) \in Nat /\ DOMAIN b = 1..Len(b)
  BY <1>0, HistoryAfterType, ListsAll
<1>1. \A m \in DOMAIN history : history[m].gvr = g /\ history[m].rv > r =>
        \E i \in 1..Len(b) : b[i] = history[m]
  <2> TAKE m \in DOMAIN history
  <2> HAVE history[m].gvr = g /\ history[m].rv > r
  <2>1. history[m] \in HistoryAfter(g, r)
    BY DEF HistoryAfter
  <2>2. QED
    BY <1>b, <2>1
<1>2. \A i \in 1..Len(b) : \E m \in DOMAIN history : b[i] = history[m] /\ history[m].gvr = g /\ history[m].rv > r
  BY <1>b DEF HistoryAfter
<1>3. ASSUME NEW n \in Names, WatchSel[w] = Labels \/ Matches(w, data[g][n]), \A i \in 1..j : b[i].name # n
      PROVE  Upto(data, history, rv, g, n, p, v[n])
  <2>1. Upto(data, history, rv, g, n, r, v[n])
    <3>1. \A i \in 1..0 : <<>>[i].name # n
      OBVIOUS
    <3>2. QED
      BY <1>3, <3>1 DEF Knows
  <2>2. ASSUME NEW m \in DOMAIN history, history[m].gvr = g, history[m].name = n, history[m].rv > r
        PROVE  history[m].rv > p
    <3>1. PICK i \in 1..Len(b) : b[i] = history[m]
      BY <1>1, <2>2
    <3>2. ~(i \in 1..j)
      BY <1>3, <2>2, <3>1
    <3>3. i > j
      BY <1>b, <3>2
    <3>4. QED
      BY <3>1, <3>3
  <2>3. QED
    BY <1>0, <2>1, <2>2, UptoSkip
<1>4. ASSUME NEW i \in 1..j, \A k \in 1..j : k > i => b[k].name # b[i].name
      PROVE  Upto(data, history, rv, g, b[i].name, p, Applied(b[i]))
  <2>0. i \in 1..Len(b) /\ i \in Nat /\ Len(b) \in Nat
    BY <1>b
  <2>1. PICK m \in DOMAIN history : b[i] = history[m] /\ history[m].gvr = g /\ history[m].rv > r
    BY <1>2, <2>0
  <2>2. Upto(data, history, rv, g, b[i].name, b[i].rv, Applied(b[i]))
    BY <1>0, <2>1 DEF HistTells
  <2>3. b[i].name \in Names /\ b[i].rv \in Nat
    BY <1>0, <2>1, EventsOf
  <2>4. b[i].rv <= rv /\ history # <<>> /\ b[i].rv >= history[1].rv
    <3>1. history[m].rv = rv - Len(history) + m /\ m \in 1..Len(history)
      BY <1>0 DEF HistPos
    <3>2. history # <<>> /\ 1 \in DOMAIN history
      BY <1>0, <3>1
    <3>3. history[1].rv = rv - Len(history) + 1
      BY <1>0, <3>2 DEF HistPos
    <3>4. QED
      BY <1>0, <2>1, <3>1, <3>2, <3>3
  <2>5. ASSUME NEW x \in DOMAIN history, history[x].gvr = g, history[x].name = b[i].name,
               history[x].rv > b[i].rv
        PROVE  history[x].rv > p
    <3>1. history[x].rv \in Nat
      BY <1>0, EventsOf
    <3>2. history[x].rv > r
      BY <2>1, <2>3, <2>5, <3>1
    <3>3. PICK k \in 1..Len(b) : b[k] = history[x]
      BY <1>1, <2>5, <3>2
    <3>4. ~(k < i) /\ k # i
      <4>1. b[k].rv > b[i].rv /\ b[k].rv \in Nat
        BY <2>5, <3>1, <3>3
      <4>2. k \in DOMAIN b /\ i \in DOMAIN b
        BY <1>b, <2>0
      <4>3. k < i => b[k].rv < b[i].rv
        BY <4>2 DEF InOrder
      <4>4. QED
        BY <2>3, <4>1, <4>3
    <3>5. k > j
      <4>1. k \in Nat /\ k > i
        BY <1>b, <2>0, <3>4
      <4>2. ~(k \in 1..j)
        BY <1>4, <2>5, <3>3, <4>1
      <4>3. QED
        BY <1>b, <4>1, <4>2
    <3>6. QED
      BY <3>3, <3>5
  <2>6. QED
    BY <1>0, <2>2, <2>3, <2>4, <2>5, UptoSkip
<1>5. QED
  BY <1>3, <1>4 DEF Knows

\* The stored objects, in any order, make a client right that had nothing.
LEMMA KnowsSnapshots ==
  ASSUME TypeOK, HistoryWindow, NEW w \in Watchers, NEW v, \A n \in Names : v[n] = Absent,
         NEW b \in SetToSeqs(Snapshots(WatchGVR[w], 0))
  PROVE  Knows(data, history, rv, w, v, b, Len(b), rv)
<1> DEFINE g == WatchGVR[w]
<1>0. g \in GVRs /\ 0 \in Nat /\ rv \in Nat
  BY StoreAssumption DEF TypeOK
<1>b. /\ \A x \in Snapshots(g, 0) : \E i \in DOMAIN b : b[i] = x
      /\ \A i \in DOMAIN b : b[i] \in Snapshots(g, 0)
      /\ Len(b) \in Nat /\ DOMAIN b = 1..Len(b)
  BY <1>0, SnapshotsType, ListsAll
<1>1. ASSUME NEW n \in Names, \A i \in 1..Len(b) : b[i].name # n
      PROVE  v[n] = data[g][n]
  <2> SUFFICES ASSUME data[g][n] # Absent PROVE FALSE
    OBVIOUS
  <2> DEFINE x == [type |-> "ADDED", gvr |-> g, name |-> n, obj |-> data[g][n], rv |-> data[g][n].rv]
  <2>1. data[g][n].rv > 0
    BY <1>0 DEF HistoryWindow, Versioned
  <2>2. x \in Snapshots(g, 0)
    BY <2>1 DEF Snapshots
  <2>3. x.name = n
    OBVIOUS
  <2> HIDE DEF x
  <2>4. QED
    BY <1>1, <1>b, <2>2, <2>3
<1>2. ASSUME NEW i \in 1..Len(b)
      PROVE  Applied(b[i]) = data[g][b[i].name]
  <2>1. b[i] \in Snapshots(g, 0)
    BY <1>b
  <2>2. PICK n \in Names : b[i] = [type |-> "ADDED", gvr |-> g, name |-> n, obj |-> data[g][n],
                                   rv |-> data[g][n].rv]
    BY <2>1 DEF Snapshots
  <2>3. QED
    BY <2>2 DEF Applied
<1>3. QED
  BY <1>1, <1>2, RightKnows

\* A new watch satisfies the invariant if its client is what it claims to be.
LEMMA StreamWatch ==
  ASSUME TypeOK, HistoryWindow, StoreInv, NEW w \in Watchers, NEW r \in Nat, NEW v \in View,
         NEW x \in BOOLEAN, x => r <= rv /\ Knows(data, history, rv, w, v, <<>>, 0, r),
         r = 0 => \A n \in Names : v[n] = Absent,
         NEW b \in Bootstraps(WatchGVR[w], r),
         NEW s \in Subscription, s.state = "open", s.boot = b, s.ch = <<>>, s.currentRV = rv,
         NEW k \in ClientState, k.phase = "watching", k.view = v, k.lastRV = r,
         k.origin = Origin(r, x),
         k.exact = (Origin(r, x) = "complete" /\ (replayFromHistory(r) \/ b = <<>>))
  PROVE  Stream(data, history, rv, w, s, k)
<1> DEFINE g == WatchGVR[w]
<1>0. /\ HistPos /\ HistTells /\ HistHas /\ rv \in Nat /\ g \in GVRs /\ history \in Seq(Event)
      /\ Len(history) \in Nat /\ DOMAIN history = 1..Len(history)
      /\ history # <<>> => 1 \in DOMAIN history
  <2>1. rv \in Nat /\ g \in GVRs /\ history \in Seq(Event) /\ HistPos /\ HistTells /\ HistHas
    BY StoreAssumption DEF StoreInv, TypeOK
  <2>2. QED
    BY <2>1, EventsOf
<1>h. \A i \in DOMAIN history : history[i].rv \in Nat /\ history[i].rv <= rv
  <2> TAKE i \in DOMAIN history
  <2>1. history[i].rv = rv - Len(history) + i /\ i \in 1..Len(history)
    BY <1>0 DEF HistPos
  <2>2. history[i].rv \in Nat
    BY <1>0, EventsOf
  <2>3. QED
    BY <1>0, <2>1, <2>2
<1>q. /\ Ahead(s) = b /\ b \in Seq(Event) /\ Len(b) \in Nat /\ DOMAIN b = 1..Len(b)
      /\ s.ch \in Seq(Event) /\ DOMAIN s.ch = {}
  <2>1. s.boot \in Seq(Event) /\ s.ch \in Seq(Event)
    BY AheadOf
  <2>2. Ahead(s) = s.boot
    BY <2>1, ConcatEmptySeq DEF Ahead
  <2>3. QED
    BY <2>1, <2>2, EventsOf
<1>r. CASE replayFromHistory(r)
  <2>1. b \in SetToSeqs(HistoryAfter(g, r)) /\ InOrder(b)
    BY <1>r DEF Bootstraps
  <2>2. \A i \in DOMAIN b : b[i].rv \in 1..rv /\ b[i].rv > r
    <3> TAKE i \in DOMAIN b
    <3>1. b[i] \in HistoryAfter(g, r)
      BY <1>0, <2>1, HistoryAfterType, ListsAll
    <3>2. PICK m \in DOMAIN history : b[i] = history[m] /\ history[m].rv > r
      BY <3>1 DEF HistoryAfter
    <3>3. QED
      BY <1>0, <1>h, <3>2
  <2>3. StreamSound(rv, s, k)
    BY <1>0, <1>q, <2>2 DEF StreamSound
  <2>4. CASE Origin(r, x) = "complete"
    <3>1. x /\ (r \in {0, rv} \/ (history # <<>> /\ r >= oldestHistoryRV))
      BY <2>4 DEF Origin
    <3>2. r <= rv /\ Knows(data, history, rv, w, v, <<>>, 0, r)
      BY <3>1
    <3>3. r = rv \/ (history # <<>> /\ r >= history[1].rv)
      BY <1>r, <3>1 DEF replayFromHistory, oldestHistoryRV
    <3>4. ASSUME NEW j \in 0..Len(b), NEW p \in Nat, p <= rv, r <= p,
                 \A i \in 1..j : b[i].rv <= p, \A i \in 1..Len(b) : i > j => b[i].rv > p
          PROVE  Knows(data, history, rv, w, v, b, j, p)
      BY <2>1, <3>2, <3>3, <3>4, KnowsReplay
    <3>5. \A j \in DOMAIN b : Knows(data, history, rv, w, v, b, j, b[j].rv)
      <4> TAKE j \in DOMAIN b
      <4>0. j \in 1..Len(b) /\ b[j].rv \in 1..rv /\ b[j].rv > r
        BY <1>q, <2>2
      <4>1. \A i \in 1..j : b[i].rv <= b[j].rv
        <5> TAKE i \in 1..j
        <5>1. i \in DOMAIN b /\ b[i].rv \in 1..rv /\ (i < j \/ i = j)
          BY <1>q, <2>2, <4>0
        <5>2. i < j => b[i].rv < b[j].rv
          BY <2>1, <5>1 DEF InOrder
        <5>3. QED
          BY <1>0, <4>0, <5>1, <5>2
      <4>2. \A i \in 1..Len(b) : i > j => b[i].rv > b[j].rv
        <5> TAKE i \in 1..Len(b)
        <5> HAVE i > j
        <5>1. i \in DOMAIN b /\ j < i /\ b[i].rv \in 1..rv
          BY <1>q, <2>2, <4>0
        <5>2. b[j].rv < b[i].rv
          BY <2>1, <5>1 DEF InOrder
        <5>3. QED
          BY <1>0, <4>0, <5>1, <5>2
      <4>3. j \in 0..Len(b) /\ b[j].rv \in Nat /\ b[j].rv <= rv /\ r <= b[j].rv
        BY <1>0, <1>q, <4>0
      <4>4. QED
        BY <3>4, <4>1, <4>2, <4>3
    <3>6. Knows(data, history, rv, w, v, b, Len(b), rv)
      <4>1. Len(b) \in 0..Len(b) /\ (\A i \in 1..Len(b) : i \in DOMAIN b /\ ~(i > Len(b)))
        BY <1>q
      <4>2. \A i \in 1..Len(b) : b[i].rv <= rv
        BY <1>0, <2>2, <4>1
      <4>3. rv <= rv
        BY <1>0
      <4>4. QED
        BY <1>0, <3>2, <3>4, <4>1, <4>2, <4>3
    <3>7. Knows(data, history, rv, w, v, b, 0, r)
      BY <3>2, KnowsNone
    <3>8. StreamExact(data, history, rv, w, s, k)
      BY <1>q, <2>1, <2>2, <2>4, <3>2, <3>5, <3>7 DEF StreamExact, InOrder
    <3>9. StreamBooting(data, history, rv, w, s, k) /\ StreamOpen(data, history, rv, w, s, k)
      BY <1>r, <1>q, <2>4, <3>6 DEF StreamBooting, StreamOpen
    <3>10. QED
      BY <2>3, <3>8, <3>9 DEF Stream
  <2>5. CASE Origin(r, x) # "complete"
    BY <2>3, <2>5 DEF Stream, StreamExact, StreamBooting, StreamOpen
  <2>6. QED
    BY <2>4, <2>5
<1>s. CASE ~replayFromHistory(r)
  <2>1. b \in SetToSeqs(Snapshots(g, r))
    BY <1>s DEF Bootstraps
  <2>2. \A i \in DOMAIN b : b[i].rv \in 1..rv
    <3> TAKE i \in DOMAIN b
    <3>1. b[i] \in Snapshots(g, r)
      BY <1>0, <2>1, SnapshotsType, ListsAll
    <3>2. PICK n \in Names : data[g][n] # Absent /\ b[i].rv = data[g][n].rv
      BY <3>1 DEF Snapshots
    <3>3. QED
      BY <1>0, <3>2 DEF HistoryWindow, Versioned
  <2>3. StreamSound(rv, s, k)
    BY <1>0, <1>q, <2>2 DEF StreamSound
  <2>4. CASE Origin(r, x) = "complete"
    <3>1. x /\ (r \in {0, rv} \/ (history # <<>> /\ r >= oldestHistoryRV))
      BY <2>4 DEF Origin
    <3>2. r <= rv /\ Knows(data, history, rv, w, v, <<>>, 0, r)
      BY <3>1
    <3>3. r = 0
      <4> SUFFICES ASSUME r > 0 PROVE FALSE
        OBVIOUS
      <4>1. history # <<>> /\ ~(r >= history[1].rv)
        BY <1>s DEF replayFromHistory, oldestHistoryRV
      <4>2. r = rv
        BY <3>1, <4>1 DEF oldestHistoryRV
      <4>3. history[1].rv \in Nat /\ history[1].rv <= rv
        BY <1>0, <1>h, <4>1
      <4>4. QED
        BY <1>0, <4>1, <4>2, <4>3
    <3>4. Knows(data, history, rv, w, v, b, Len(b), rv)
      BY <2>1, <3>3, KnowsSnapshots
    <3>5. StreamOpen(data, history, rv, w, s, k)
      BY <1>q, <3>4 DEF StreamOpen
    <3>6. CASE b = <<>>
      <4>1. DOMAIN b = {} /\ k.exact
        BY <1>q, <2>4, <3>6, EventsOf
      <4>2. Knows(data, history, rv, w, v, b, 0, r)
        BY <3>2, KnowsNone
      <4>3. StreamExact(data, history, rv, w, s, k) /\ StreamBooting(data, history, rv, w, s, k)
        BY <1>q, <2>4, <3>2, <4>1, <4>2 DEF StreamExact, StreamBooting
      <4>4. QED
        BY <2>3, <3>5, <4>3 DEF Stream
    <3>7. CASE b # <<>>
      <4>1. ~k.exact
        BY <1>s, <3>7
      <4>2. \A j \in DOMAIN b : ~(j > Len(b))
        BY <1>q
      <4>3. StreamExact(data, history, rv, w, s, k) /\ StreamBooting(data, history, rv, w, s, k)
        BY <1>0, <1>q, <3>2, <3>4, <3>7, <4>1, <4>2 DEF StreamExact, StreamBooting
      <4>4. QED
        BY <2>3, <3>5, <4>3 DEF Stream
    <3>8. QED
      BY <3>6, <3>7
  <2>5. CASE Origin(r, x) # "complete"
    BY <2>3, <2>5 DEF Stream, StreamExact, StreamBooting, StreamOpen
  <2>6. QED
    BY <2>4, <2>5
<1>1. QED
  BY <1>r, <1>s

StreamsInv == \A w \in Watchers : Stream(data, history, rv, w, subs[w], cli[w])

\* Emptied channels: a stream that ended, by itself or with the process.
LEMMA StreamOver ==
  ASSUME TypeOK', NEW w \in Watchers, subs'[w] = NoSub, cli'[w].phase # "watching",
         cli'[w].lastRV = 0 => \A n \in Names : cli'[w].view[n] = Absent,
         cli'[w].exact => /\ cli'[w].lastRV <= rv'
                          /\ Knows(data', history', rv', w, cli'[w].view, <<>>, 0, cli'[w].lastRV)
  PROVE  Stream(data', history', rv', w, subs'[w], cli'[w])
<1>0. rv' \in Nat
  BY StoreAssumption DEF TypeOK
<1>1. /\ NoSub.state = "none" /\ NoSub.currentRV = 0 /\ DOMAIN NoSub.boot = {} /\ DOMAIN NoSub.ch = {}
  <2>1. <<>> \in Seq(Event)
    OBVIOUS
  <2>2. QED
    BY <2>1, EventsOf DEF NoSub
<1>2. StreamSound(rv', subs'[w], cli'[w])
  BY <1>0, <1>1 DEF StreamSound
<1>3. StreamExact(data', history', rv', w, subs'[w], cli'[w])
  BY KnowsNone DEF StreamExact
<1>4. StreamBooting(data', history', rv', w, subs'[w], cli'[w])
      /\ StreamOpen(data', history', rv', w, subs'[w], cli'[w])
  BY <1>1 DEF StreamBooting, StreamOpen
<1>5. QED
  BY <1>2, <1>3, <1>4 DEF Stream

\* A boot that loses nothing leaves a client what it knows.
LEMMA KnowsBoot ==
  ASSUME TypeOK, HistPos, UNCHANGED <<data, rv>>, history' = <<>>, NEW w \in Watchers, NEW v,
         NEW r \in Nat, NEW q, Knows(data, history, rv, w, v, q, 0, r)
  PROVE  Knows(data', history', rv', w, v, q, 0, r)
<1>1. WatchGVR[w] \in GVRs /\ 1..0 = {}
  BY StoreAssumption
<1>2. \A n \in Names : \A o : Upto(data, history, rv, WatchGVR[w], n, r, o) =>
                              Upto(data', history', rv', WatchGVR[w], n, r, o)
  BY <1>1, UptoBoot
<1>3. \A n \in Names : data'[WatchGVR[w]][n] = data[WatchGVR[w]][n]
  OBVIOUS
<1>4. ASSUME NEW n \in Names, WatchSel[w] = Labels \/ Matches(w, data'[WatchGVR[w]][n])
      PROVE  Upto(data', history', rv', WatchGVR[w], n, r, v[n])
  <2>1. Matches(w, data'[WatchGVR[w]][n]) => Matches(w, data[WatchGVR[w]][n])
    BY <1>3
  <2>2. Upto(data, history, rv, WatchGVR[w], n, r, v[n])
    BY <1>1, <1>4, <2>1 DEF Knows
  <2>3. QED
    BY <1>2, <2>2
<1>5. QED
  BY <1>1, <1>4 DEF Knows

\* A boot keeps the invariant.
LEMMA BootStreams ==
  ASSUME TypeOK, TypeOK', StoreInv, StreamsInv,
         Boot(data, rv) \/ Boot(flushed.data, flushed.rv)
  PROVE  StreamsInv'
<1> SUFFICES ASSUME NEW w \in Watchers
             PROVE  Stream(data', history', rv', w, subs'[w], cli'[w])
  BY DEF StreamsInv
<1>0. cli[w] \in ClientState /\ rv \in Nat /\ HistPos /\ DiskBehind
      /\ Stream(data, history, rv, w, subs[w], cli[w])
  BY StoreAssumption DEF TypeOK, StoreInv, StreamsInv
<1>1. PICK d, r : /\ Boot(d, r) /\ (r = rv => d = data)
  BY <1>0 DEF DiskBehind
<1>2. /\ data' = d /\ rv' = r /\ history' = <<>> /\ subs'[w] = NoSub
      /\ cli'[w] = [cli[w] EXCEPT !.phase = IF @ = "watching" THEN "closed" ELSE @,
                                  !.exact = @ /\ r = rv]
  BY <1>1 DEF Boot
<1>3. /\ cli'[w].phase # "watching" /\ cli'[w].lastRV = cli[w].lastRV /\ cli'[w].view = cli[w].view
      /\ cli'[w].exact => cli[w].exact /\ r = rv
      /\ cli[w].lastRV \in Nat
  BY <1>0, <1>2 DEF ClientState
<1>4. cli[w].lastRV = 0 => \A n \in Names : cli[w].view[n] = Absent
  BY <1>0 DEF Stream, StreamSound
<1>5. ASSUME cli'[w].exact
      PROVE  /\ cli'[w].lastRV <= rv'
             /\ Knows(data', history', rv', w, cli'[w].view, <<>>, 0, cli'[w].lastRV)
  <2>1. cli[w].exact /\ UNCHANGED <<data, rv>>
    BY <1>1, <1>2, <1>3, <1>5
  <2>2. cli[w].lastRV <= rv /\ Knows(data, history, rv, w, cli[w].view, Ahead(subs[w]), 0, cli[w].lastRV)
    BY <1>0, <2>1 DEF Stream, StreamExact
  <2>3. Knows(data, history, rv, w, cli[w].view, <<>>, 0, cli[w].lastRV)
    BY <2>2, KnowsNone
  <2>4. Knows(data', history', rv', w, cli[w].view, <<>>, 0, cli[w].lastRV)
    BY <1>0, <1>2, <1>3, <2>1, <2>3, KnowsBoot
  <2>5. QED
    BY <1>3, <2>1, <2>2, <2>4
<1>6. QED
  BY <1>2, <1>3, <1>4, <1>5, StreamOver

\* Delivery, as the next event handed over.
LEMMA PumpHands ==
  ASSUME TypeOK, TypeOK', StreamsInv, NEW w \in Watchers, PumpBootstrap(w) \/ PumpLive(w)
  PROVE  Handed(w, subs[w], cli[w], subs'[w], cli'[w])
<1> DEFINE s == subs[w]
           k == cli[w]
<1>0. /\ s \in Subscription /\ k \in ClientState /\ subs'[w] \in Subscription /\ cli'[w] \in ClientState
      /\ s.boot \in Seq(Event) /\ s.ch \in Seq(Event) /\ StreamSound(rv, s, k) /\ rv \in Nat
      /\ s.currentRV \in Nat
  <2>1. /\ s \in Subscription /\ k \in ClientState /\ subs'[w] \in Subscription
        /\ cli'[w] \in ClientState /\ rv \in Nat
    BY StoreAssumption DEF TypeOK
  <2>2. StreamSound(rv, s, k)
    BY DEF StreamsInv, Stream
  <2> HIDE DEF s, k
  <2>3. s.boot \in Seq(Event) /\ s.ch \in Seq(Event) /\ s.currentRV \in Nat
    BY <2>1, AheadOf
  <2>4. QED
    BY <2>1, <2>2, <2>3
<1>d. ASSUME NEW e \in Event, NEW x, Deliver(w, e, x)
      PROVE  /\ cli'[w].phase = k.phase /\ cli'[w].origin = k.origin /\ cli'[w].exact = x
             /\ cli'[w].view = After(w, k.view, e)
             /\ cli'[w].lastRV = IF Matches(w, e.obj) THEN e.rv ELSE k.lastRV
  <2>1. CASE Matches(w, e.obj)
    <3>1. cli'[w] = [k EXCEPT !.view[e.name] = Applied(e), !.lastRV = e.rv, !.exact = x]
      BY <1>d, <2>1 DEF Deliver, TypeOK
    <3>2. QED
      BY <1>0, <2>1, <3>1 DEF ClientState, After
  <2>2. CASE ~Matches(w, e.obj)
    <3>1. cli'[w] = [k EXCEPT !.exact = x]
      BY <1>d, <2>2 DEF Deliver, TypeOK
    <3>2. QED
      BY <1>0, <2>2, <3>1 DEF ClientState, After
  <2>3. QED
    BY <2>1, <2>2
<1>1. CASE PumpBootstrap(w)
  <2>1. /\ s.state # "none" /\ s.boot # <<>>
        /\ subs' = [subs EXCEPT ![w].boot = Tail(@)]
        /\ Deliver(w, Head(s.boot), k.exact \/ (Len(s.boot) = 1 /\ k.origin = "complete"))
    BY <1>1 DEF PumpBootstrap
  <2>2. subs'[w] = [s EXCEPT !.boot = Tail(@)]
    BY <2>1 DEF TypeOK
  <2>3. /\ subs'[w].boot = Tail(s.boot) /\ subs'[w].ch = s.ch /\ subs'[w].state = s.state
        /\ subs'[w].currentRV = s.currentRV
    BY <1>0, <2>2 DEF Subscription
  <2>4. Head(s.boot) \in Event
    BY <1>0, <2>1
  <2>5. Ahead(s)[1] = Head(s.boot)
    BY <1>0, <2>1, <2>4, ConcatEnds DEF Ahead
  <2> HIDE DEF s, k
  <2>6. QED
    BY <1>d, <2>1, <2>3, <2>4, <2>5 DEF Handed, s, k
<1>2. CASE PumpLive(w)
  <2>1. /\ s.state # "none" /\ s.boot = <<>> /\ s.ch # <<>>
        /\ subs' = [subs EXCEPT ![w].ch = Tail(@)]
        /\ Head(s.ch).rv > s.currentRV => Deliver(w, Head(s.ch), k.exact)
    BY <1>2 DEF PumpLive
  <2>2. subs'[w] = [s EXCEPT !.ch = Tail(@)]
    BY <2>1 DEF TypeOK
  <2>3. /\ subs'[w].ch = Tail(s.ch) /\ subs'[w].boot = s.boot /\ subs'[w].state = s.state
        /\ subs'[w].currentRV = s.currentRV
    BY <1>0, <2>2 DEF Subscription
  <2>4. Head(s.ch) \in Event /\ Head(s.ch) = s.ch[1] /\ 1 \in DOMAIN s.ch
    BY <1>0, <2>1
  <2>5. Ahead(s)[1] = Head(s.ch)
    BY <1>0, <2>1, <2>4, ConcatEnds DEF Ahead
  <2>6. Head(s.ch).rv > s.currentRV
    <3>1. s.ch[1].rv \in (s.currentRV + 1)..rv
      BY <1>0, <2>4 DEF StreamSound
    <3>2. QED
      BY <1>0, <2>4, <3>1
  <2> HIDE DEF s, k
  <2>7. Deliver(w, Head(s.ch), k.exact)
    BY <2>1, <2>6
  <2>8. QED
    BY <1>d, <2>1, <2>3, <2>4, <2>5, <2>7 DEF Handed, s, k
<1>3. QED
  BY <1>1, <1>2

\* A watch that opens.
LEMMA WatchStream ==
  ASSUME TypeOK, TypeOK', HistoryWindow, StoreInv, NEW w \in Watchers, NEW r \in Nat, NEW v \in View,
         NEW x \in BOOLEAN, x => r <= rv /\ Knows(data, history, rv, w, v, <<>>, 0, r),
         r = 0 => \A n \in Names : v[n] = Absent, Watch(w, r, v, x)
  PROVE  Stream(data, history, rv, w, subs'[w], cli'[w])
<1>1. PICK b \in Bootstraps(WatchGVR[w], r) :
        /\ subs' = [subs EXCEPT ![w] = [state |-> "open", boot |-> b, ch |-> <<>>, currentRV |-> rv]]
        /\ cli' = [cli EXCEPT ![w] =
                     [phase |-> "watching", view |-> v, lastRV |-> r,
                      exact |-> (Origin(r, x) = "complete" /\ (replayFromHistory(r) \/ b = <<>>)),
                      origin |-> Origin(r, x)]]
  BY DEF Watch
<1>2. /\ subs'[w] \in Subscription /\ cli'[w] \in ClientState
      /\ subs'[w] = [state |-> "open", boot |-> b, ch |-> <<>>, currentRV |-> rv]
      /\ cli'[w] = [phase |-> "watching", view |-> v, lastRV |-> r,
                    exact |-> (Origin(r, x) = "complete" /\ (replayFromHistory(r) \/ b = <<>>)),
                    origin |-> Origin(r, x)]
  BY <1>1 DEF TypeOK
<1>3. /\ subs'[w].state = "open" /\ subs'[w].boot = b /\ subs'[w].ch = <<>> /\ subs'[w].currentRV = rv
      /\ cli'[w].phase = "watching" /\ cli'[w].view = v /\ cli'[w].lastRV = r
      /\ cli'[w].origin = Origin(r, x)
      /\ cli'[w].exact = (Origin(r, x) = "complete" /\ (replayFromHistory(r) \/ b = <<>>))
  BY <1>2
<1>4. ASSUME NEW s \in Subscription, s.state = "open", s.boot = b, s.ch = <<>>, s.currentRV = rv,
             NEW k \in ClientState, k.phase = "watching", k.view = v, k.lastRV = r,
             k.origin = Origin(r, x),
             k.exact = (Origin(r, x) = "complete" /\ (replayFromHistory(r) \/ b = <<>>))
      PROVE  Stream(data, history, rv, w, s, k)
  BY <1>4, StreamWatch, ZenonT(40)
<1>5. QED
  BY <1>2, <1>3, <1>4

\* A watcher that lists or opens a stream keeps the invariant.
LEMMA OpenStream ==
  ASSUME TypeOK, TypeOK', HistoryWindow, StoreInv, StreamsInv, NEW w \in Watchers, Open(w)
  PROVE  Stream(data, history, rv, w, subs'[w], cli'[w])
<1>0. /\ rv \in Nat /\ WatchGVR[w] \in GVRs /\ cli[w] \in ClientState /\ subs[w] \in Subscription
      /\ Stream(data, history, rv, w, subs[w], cli[w])
      /\ Versioned(data, rv)
  BY StoreAssumption DEF TypeOK, StreamsInv, HistoryWindow
<1>1. /\ cli[w].view \in View /\ cli[w].lastRV \in Nat /\ cli[w].exact \in BOOLEAN
      /\ cli[w].lastRV = 0 => \A n \in Names : cli[w].view[n] = Absent
  BY <1>0 DEF ClientState, Stream, StreamSound
<1>2. cli[w].exact => /\ cli[w].lastRV <= rv
                      /\ Knows(data, history, rv, w, cli[w].view, <<>>, 0, cli[w].lastRV)
  BY <1>0, KnowsNone DEF Stream, StreamExact
<1>3. CASE List(w)
  <2>1. /\ cli'[w] = [phase |-> "listed", view |-> Truth(w), lastRV |-> rv, exact |-> TRUE,
                      origin |-> "none"]
        /\ subs' = subs /\ cli[w].phase # "watching"
    BY <1>3 DEF List, TypeOK
  <2>2. /\ cli'[w].phase = "listed" /\ cli'[w].view = Truth(w) /\ cli'[w].lastRV = rv
        /\ cli'[w].exact
    BY <2>1
  <2>3. \A n \in Names : Truth(w)[n] = IF Matches(w, data[WatchGVR[w]][n])
                                       THEN data[WatchGVR[w]][n] ELSE Absent
    BY DEF Truth
  <2>4. subs'[w] = subs[w] /\ subs[w].state = "none"
    BY <1>0, <2>1 DEF Stream, StreamSound
  <2>5. rv = 0 => \A n \in Names : Truth(w)[n] = Absent
    BY <1>0, <2>3 DEF Versioned
  <2>6. StreamSound(rv, subs'[w], cli'[w])
    BY <1>0, <2>2, <2>4, <2>5 DEF Stream, StreamSound
  <2>7. Knows(data, history, rv, w, Truth(w), Ahead(subs'[w]), 0, rv)
    <3>1. ASSUME NEW n \in Names, WatchSel[w] = Labels \/ Matches(w, data[WatchGVR[w]][n])
          PROVE  Truth(w)[n] = data[WatchGVR[w]][n]
      <4>1. data[WatchGVR[w]][n] \in Object \cup {Absent}
        BY <1>0 DEF TypeOK, View
      <4>2. data[WatchGVR[w]][n] # Absent => Matches(w, data[WatchGVR[w]][n])
        BY <3>1, <4>1 DEF Matches, Object
      <4>3. QED
        BY <2>3, <4>2
    <3>2. 1..0 = {}
      OBVIOUS
    <3>3. QED
      BY <3>1, <3>2, RightKnows
  <2>8. rv <= rv
    BY <1>0
  <2>9. QED
    BY <2>2, <2>4, <2>6, <2>7, <2>8 DEF Stream, StreamExact, StreamBooting, StreamOpen
<1>4. CASE WatchNow(w)
  <2>1. Watch(w, 0, EmptyView, TRUE)
    BY <1>4 DEF WatchNow
  <2>2. EmptyView \in View /\ \A n \in Names : EmptyView[n] = Absent
    BY DEF EmptyView, View
  <2>3. Knows(data, history, rv, w, EmptyView, <<>>, 0, 0)
    <3>1. ASSUME NEW n \in Names
          PROVE  Upto(data, history, rv, WatchGVR[w], n, 0, EmptyView[n])
      <4>1. data[WatchGVR[w]][n] # Absent => data[WatchGVR[w]][n].rv > 0
        BY <1>0 DEF Versioned
      <4>2. QED
        BY <2>2, <4>1 DEF Upto
    <3>2. 1..0 = {}
      OBVIOUS
    <3>3. QED
      BY <3>1, <3>2 DEF Knows
  <2>4. 0 \in Nat /\ 0 <= rv /\ TRUE \in BOOLEAN
    BY <1>0
  <2>5. QED
    BY <2>1, <2>2, <2>3, <2>4, WatchStream
<1>5. CASE WatchListed(w) \/ Resume(w)
  <2>1. Watch(w, cli[w].lastRV, cli[w].view, cli[w].exact)
    BY <1>5 DEF WatchListed, Resume
  <2>2. QED
    BY <1>1, <1>2, <2>1, WatchStream
<1>6. QED
  BY <1>3, <1>4, <1>5 DEF Open

\* A stream that ended by itself or was cut off keeps the invariant.
LEMMA EndStream ==
  ASSUME TypeOK, TypeOK', StreamsInv, UNCHANGED <<data, rv, history>>, NEW w \in Watchers,
         StreamEnd(w) \/ Disconnect(w)
  PROVE  Stream(data', history', rv', w, subs'[w], cli'[w])
<1>0. cli[w] \in ClientState /\ Stream(data, history, rv, w, subs[w], cli[w])
  BY DEF TypeOK, StreamsInv
<1>1. /\ subs'[w] = NoSub /\ cli'[w] = [cli[w] EXCEPT !.phase = "closed"]
  BY DEF StreamEnd, Disconnect, TypeOK
<1>2. /\ cli'[w].phase # "watching" /\ cli'[w].view = cli[w].view /\ cli'[w].lastRV = cli[w].lastRV
      /\ cli'[w].exact = cli[w].exact
  BY <1>0, <1>1 DEF ClientState
<1>3. cli[w].lastRV = 0 => \A n \in Names : cli[w].view[n] = Absent
  BY <1>0 DEF Stream, StreamSound
<1>4. cli[w].exact => /\ cli[w].lastRV <= rv
                      /\ Knows(data, history, rv, w, cli[w].view, <<>>, 0, cli[w].lastRV)
  BY <1>0, KnowsNone DEF Stream, StreamExact
<1>5. cli'[w].exact => /\ cli'[w].lastRV <= rv'
                       /\ Knows(data', history', rv', w, cli'[w].view, <<>>, 0, cli'[w].lastRV)
  BY <1>2, <1>4
<1>6. QED
  BY <1>1, <1>2, <1>3, <1>5, StreamOver

\* Every step keeps the invariant of every stream.
LEMMA NextStreams ==
  ASSUME TypeOK, TypeOK', HistoryWindow, StoreInv, StreamsInv, [Next]_vars
  PROVE  StreamsInv'
<1>1. CASE Writes
  <2> SUFFICES ASSUME NEW w \in Watchers
               PROVE  Stream(data', history', rv', w, subs'[w], cli'[w])
    BY DEF StreamsInv
  <2>1. PICK g \in GVRs, n \in Names, e \in Event : Wrote(g, n, e)
    BY <1>1 DEF Writes
  <2>2. /\ cli'[w] = cli[w]
        /\ subs'[w] = IF subs[w].state = "open" /\ WatchGVR[w] = e.gvr
                      THEN Fan(subs[w], e) ELSE subs[w]
    BY <1>1, <2>1 DEF Writes, Wrote, emitLocked
  <2>3. /\ cli[w] \in ClientState /\ subs[w] \in Subscription /\ subs'[w] \in Subscription
        /\ Stream(data, history, rv, w, subs[w], cli[w]) /\ HistPos
    BY DEF TypeOK, StreamsInv, StoreInv
  <2>4. Stream(data', history', rv', w, subs'[w], cli[w])
    BY <2>1, <2>2, <2>3, StreamWrote
  <2>5. QED
    BY <2>2, <2>4
<1>2. CASE UNCHANGED <<data, rv, history, flushed>>
           /\ \E w \in Watchers : Pump(w) \/ Open(w) \/ Disconnect(w)
  <2>1. PICK w \in Watchers : Pump(w) \/ Open(w) \/ Disconnect(w)
    BY <1>2
  <2>2. \A u \in Watchers : u # w => subs'[u] = subs[u] /\ cli'[u] = cli[u]
    BY <2>1 DEF Pump, PumpBootstrap, PumpLive, StreamEnd, Open, List, WatchNow, WatchListed,
                Resume, Watch, Disconnect, Deliver, TypeOK
  <2>3. /\ cli[w] \in ClientState /\ subs[w] \in Subscription
        /\ subs'[w] \in Subscription /\ cli'[w] \in ClientState
        /\ Stream(data, history, rv, w, subs[w], cli[w])
    BY DEF TypeOK, StreamsInv
  <2>4. Stream(data', history', rv', w, subs'[w], cli'[w])
    <3>1. CASE PumpBootstrap(w) \/ PumpLive(w)
      <4>1. Handed(w, subs[w], cli[w], subs'[w], cli'[w])
        BY <3>1, PumpHands
      <4>2. Stream(data, history, rv, w, subs'[w], cli'[w])
        BY <2>3, <4>1, StreamHanded
      <4>3. QED
        BY <1>2, <4>2
    <3>2. CASE StreamEnd(w) \/ Disconnect(w)
      BY <1>2, <3>2, EndStream
    <3>3. CASE Open(w)
      <4>1. Stream(data, history, rv, w, subs'[w], cli'[w])
        BY <3>3, OpenStream
      <4>2. QED
        BY <1>2, <4>1
    <3>4. QED
      BY <2>1, <3>1, <3>2, <3>3 DEF Pump
  <2>5. ASSUME NEW u \in Watchers, u # w
        PROVE  Stream(data', history', rv', u, subs'[u], cli'[u])
    BY <1>2, <2>2, <2>5 DEF StreamsInv
  <2>6. QED
    BY <2>4, <2>5 DEF StreamsInv
<1>3. CASE Boot(data, rv) \/ Boot(flushed.data, flushed.rv)
  BY <1>3, BootStreams
<1>4. CASE Sync \/ UNCHANGED <<data, rv, history, subs, flushed, cli>>
  BY <1>4 DEF Sync, StreamsInv
<1>5. QED
  BY <1>1, <1>2, <1>3, <1>4, StoreSteps

\* At the start there is nothing to know.
LEMMA InitStreams ==
  Init => StoreInv /\ StreamsInv
<1> SUFFICES ASSUME Init PROVE StoreInv /\ StreamsInv
  OBVIOUS
<1>1. history = <<>> /\ DOMAIN history = {} /\ rv = 0 /\ flushed = [data |-> data, rv |-> 0]
  <2>1. history = <<>> /\ history \in Seq(Event) /\ rv = 0 /\ flushed = [data |-> data, rv |-> 0]
    BY InitType DEF Init, TypeOK
  <2>2. QED
    BY <2>1, EventsOf
<1>2. StoreInv
  BY <1>1 DEF StoreInv, HistPos, HistTells, HistHas, DiskBehind
<1>3. ASSUME NEW w \in Watchers
      PROVE  Stream(data, history, rv, w, subs[w], cli[w])
  <2>1. /\ subs[w] = NoSub
        /\ cli[w] = [phase |-> "idle", view |-> EmptyView, lastRV |-> 0, exact |-> FALSE,
                     origin |-> "none"]
    BY DEF Init
  <2>2. /\ NoSub.state = "none" /\ NoSub.currentRV = 0 /\ DOMAIN NoSub.boot = {} /\ DOMAIN NoSub.ch = {}
    <3>1. <<>> \in Seq(Event)
      OBVIOUS
    <3>2. QED
      BY <3>1, EventsOf DEF NoSub
  <2>3. /\ cli[w].phase = "idle" /\ ~cli[w].exact /\ \A n \in Names : cli[w].view[n] = Absent
    BY <2>1 DEF EmptyView
  <2>4. StreamSound(rv, subs[w], cli[w])
    BY <1>1, <2>1, <2>2, <2>3 DEF StreamSound
  <2>5. QED
    BY <2>1, <2>2, <2>3, <2>4 DEF Stream, StreamExact, StreamBooting, StreamOpen
<1>4. QED
  BY <1>2, <1>3 DEF StreamsInv

\* The history, the disk and the streams keep their invariants.
LEMMA StreamsHold ==
  Spec => [](TypeOK /\ HistoryWindow /\ StoreInv /\ StreamsInv)
<1>1. TypeOK /\ TypeOK' /\ HistoryWindow /\ StoreInv /\ StreamsInv /\ [Next]_vars
        => StoreInv' /\ StreamsInv'
  BY NextStore, NextStreams
<1>2. QED
  BY <1>1, InitStreams, StoreTypeCorrect, WindowHolds, PTL DEF Spec

\* No event is delivered twice or out of order (store/watch.go: the replay
\* condition of Watch and the currentRV check of pump): what a watch still has
\* to bring after a complete bootstrap is newer than all it brought and in
\* increasing resourceVersion, across slow-consumer drops, disconnects,
\* restarts and power losses.
THEOREM DeliveryIsOrdered ==
  Spec => []OrderedDelivery
<1>1. TypeOK /\ StreamsInv => OrderedDelivery
  <2> SUFFICES ASSUME TypeOK, StreamsInv, NEW w \in Watchers, cli[w].phase = "watching",
                      cli[w].exact, NEW i \in Pending(w)
               PROVE  /\ Queue(w)[i].rv > cli[w].lastRV
                      /\ \A j \in Pending(w) : j < i => Queue(w)[j].rv < Queue(w)[i].rv
    BY DEF OrderedDelivery
  <2>1. Ahead(subs[w]) = Queue(w)
    BY DEF Ahead, Queue
  <2>2. i \in DOMAIN Queue(w) /\ \A j \in Pending(w) : j \in DOMAIN Queue(w)
    BY DEF Pending
  <2>3. QED
    BY <2>1, <2>2 DEF StreamsInv, Stream, StreamExact
<1>2. QED
  BY <1>1, StreamsHold, PTL

\* No event is missed across the handoff from a list, the history or the stored
\* objects to live events (Watch, emitLocked, pump): a stream that was opened
\* where the store could still send everything brings its client to exactly the
\* store's contents, whatever was written between the list, the registration
\* and the delivery, as long as the slow-consumer rule has not closed it.
THEOREM StreamsConverge ==
  Spec => []ViewsConverge
<1>1. TypeOK /\ HistoryWindow /\ StoreInv /\ StreamsInv => ViewsConverge
  <2> SUFFICES ASSUME TypeOK, HistoryWindow, StoreInv, StreamsInv, NEW w \in Watchers,
                      subs[w].state = "open", cli[w].origin = "complete", NEW n \in Names
               PROVE  /\ Truth(w)[n] # Absent => FinalView(w)[n] = Truth(w)[n]
                      /\ WatchSel[w] = Labels /\ Truth(w)[n] = Absent => FinalView(w)[n] = Absent
    BY DEF ViewsConverge, Converges
  <2> DEFINE q == Queue(w)
             o == data[WatchGVR[w]][n]
             mine == {i \in Pending(w) : q[i].name = n}
  <2>0. /\ subs[w] \in Subscription /\ rv \in Nat /\ WatchGVR[w] \in GVRs /\ HistPos
        /\ Stream(data, history, rv, w, subs[w], cli[w]) /\ o \in Object \cup {Absent}
    BY StoreAssumption DEF TypeOK, View, StreamsInv, StoreInv
  <2>q. /\ q = Ahead(subs[w]) /\ q \in Seq(Event) /\ Len(q) \in Nat /\ DOMAIN q = 1..Len(q)
        /\ Len(q) \in 0..Len(q) /\ Len(subs[w].boot) \in Nat
        /\ \A i \in DOMAIN q : q[i].obj \in Object
    <3>1. q = Ahead(subs[w])
      BY DEF Ahead, Queue
    <3>2. q \in Seq(Event) /\ Len(subs[w].boot) \in Nat
      BY <2>0, <3>1, AheadOf
    <3> HIDE DEF q
    <3>3. Len(q) \in Nat /\ Len(q) \in 0..Len(q) /\ DOMAIN q = 1..Len(q)
      BY <3>2
    <3>4. QED
      BY <3>1, <3>2, <3>3, EventsOf
  <2>t. /\ Truth(w)[n] = IF Matches(w, o) THEN o ELSE Absent
        /\ FinalView(w)[n] = IF mine = {} THEN cli[w].view[n]
                             ELSE Applied(q[CHOOSE i \in mine : \A j \in mine : j <= i])
    BY DEF Truth, FinalView
  <2>m. \A x \in Object : WatchSel[w] = Labels => Matches(w, x)
    BY DEF Matches, Object, Absent
  <2>p. \A i \in DOMAIN q : i \in Pending(w) <=> Matches(w, q[i].obj)
    <3> SUFFICES ASSUME NEW i \in DOMAIN q, i > Len(subs[w].boot)
                 PROVE  q[i].rv > subs[w].currentRV
      BY DEF Pending
    <3>1. /\ i - Len(subs[w].boot) \in DOMAIN subs[w].ch /\ q[i] = subs[w].ch[i - Len(subs[w].boot)]
          /\ subs[w].currentRV \in Nat
      BY <2>0, <2>q, AheadOf
    <3>2. q[i].rv \in (subs[w].currentRV + 1)..rv
      BY <2>0, <3>1 DEF Stream, StreamSound
    <3>3. QED
      BY <2>0, <3>1, <3>2
  <2>s. Pending(w) \subseteq DOMAIN q
    BY DEF Pending
  <2>1. Knows(data, history, rv, w, cli[w].view, q, Len(q), rv)
    BY <2>0, <2>q DEF Stream, StreamOpen
  <2>2. /\ (WatchSel[w] = Labels \/ Matches(w, o)) /\ (\A i \in 1..Len(q) : q[i].name # n)
           => cli[w].view[n] = o
        /\ \A i \in 1..Len(q) :
             (\A k \in 1..Len(q) : k > i => q[k].name # q[i].name)
             => Applied(q[i]) = data[WatchGVR[w]][q[i].name]
    BY <2>0, <2>q, <2>1, KnowsNow
  <2> HIDE DEF q, o, mine
  <2>3. CASE \A i \in 1..Len(q) : q[i].name # n
    <3>1. mine = {}
      BY <2>q, <2>s, <2>3 DEF mine
    <3>2. QED
      BY <2>0, <2>t, <2>m, <2>2, <2>3, <3>1
  <2>4. CASE \E i \in 1..Len(q) : q[i].name = n
    <3> DEFINE all == {i \in 1..Len(q) : q[i].name = n}
    <3>1. PICK z \in all : \A j \in all : j <= z
      <4>1. all \in SUBSET (1..Len(q)) /\ all # {}
        BY <2>4
      <4>2. QED
        BY <2>q, <4>1, LastPosition
    <3>2. \A k \in 1..Len(q) : k > z => q[k].name # q[z].name
      <4>1. \A k \in all : ~(k > z)
        BY <2>q, <3>1
      <4>2. QED
        BY <3>1, <4>1
    <3>3. Applied(q[z]) = o
      BY <2>2, <3>1, <3>2 DEF o
    <3>4. ASSUME Matches(w, q[z].obj)
          PROVE  FinalView(w)[n] = o
      <4>1. z \in mine /\ mine \subseteq all
        BY <2>q, <2>p, <2>s, <3>1, <3>4 DEF mine
      <4>2. \A j \in mine : j <= z
        BY <3>1, <4>1
      <4>3. \A y \in mine : (\A j \in mine : j <= y) => y = z
        BY <2>q, <4>1, <4>2
      <4>4. (CHOOSE i \in mine : \A j \in mine : j <= i) = z
        BY <4>1, <4>2, <4>3
      <4>5. QED
        BY <2>t, <3>3, <4>1, <4>4
    <3>5. q[z].obj \in Object
      BY <2>q, <3>1
    <3>6. Matches(w, o) => Matches(w, q[z].obj)
      BY <3>3 DEF Applied, Matches
    <3>7. QED
      BY <2>0, <2>t, <2>m, <3>4, <3>5, <3>6 DEF Matches
  <2>5. QED
    BY <2>3, <2>4
<1>2. QED
  BY <1>1, StreamsHold, PTL
=============================================================================

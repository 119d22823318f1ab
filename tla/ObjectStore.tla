---------------------------- MODULE ObjectStore ----------------------------
(***************************************************************************)
(* The object store of lasd (internal/store): typed objects kept in memory *)
(* under one lock, one global resourceVersion counter, optimistic          *)
(* concurrency, a bounded event history, watch subscriptions with bounded  *)
(* channels, and the bolt persister behind it.                             *)
(*                                                                         *)
(* Every method of Store holds Store.mu for its whole body, so each is one *)
(* action.  A watch is two parties that run concurrently with the writers: *)
(* the pump goroutine that moves events from the subscription's channel to *)
(* the stream, and the client that reads the stream.  Calls that fail      *)
(* (NotFound, AlreadyExists, Conflict) change nothing and are stuttering   *)
(* steps.  Namespaces are part of a name: a key is "namespace/name".       *)
(***************************************************************************)
EXTENDS Integers, Sequences, FiniteSets, SequencesExt

CONSTANTS
  GVRs,        \* registered resource types
  Names,       \* object keys
  Specs,       \* values of .spec
  Statuses,    \* values of .status
  NoStatus,    \* an object without .status
  Labels,      \* values of metadata.labels
  Clients,     \* writers that read, modify and write back
  Watchers,    \* clients that keep a view by List and Watch
  WatchGVR,    \* [Watchers -> GVRs]: what each watches
  WatchSel,    \* [Watchers -> SUBSET Labels]: its label selector
  Modes,       \* what watchers do to get a stream: subset of
               \* {"list", "resume", "now"}
  HistCap,     \* Options.HistoryCap (8192)
  ChanCap,     \* capacity of subscription.ch (512)
  FaultKinds,  \* subset of {"disconnect", "restart", "powerloss"}
  MaxRV,       \* bound: number of writes
  MaxFaults    \* bound: number of faults

ASSUME StoreAssumption ==
  /\ NoStatus \in Statuses
  /\ IsFiniteSet(Names)
  /\ WatchGVR \in [Watchers -> GVRs]
  /\ WatchSel \in [Watchers -> SUBSET Labels]
  /\ Modes \subseteq {"list", "resume", "now"}
  /\ HistCap \in Nat \ {0}
  /\ ChanCap \in Nat \ {0}
  /\ MaxRV \in Nat /\ MaxFaults \in Nat

VARIABLES
  data,     \* Store.data: [GVRs -> [Names -> object or Absent]]
  rv,       \* Store.rv
  history,  \* Store.history
  subs,     \* per watcher: its subscription, pump and bootstrap
  flushed,  \* what the last Sync put on disk: [data, rv]
  uids,     \* number of UIDs handed out by newUID
  held,     \* per client: the copy its last Get returned
  cli,      \* per watcher: the view the client built from the stream
  faults    \* faults so far

vars == <<data, rv, history, subs, flushed, uids, held, cli, faults>>

Absent == [uid |-> 0]
Object == [uid : Nat \ {0}, rv : Nat, gen : Nat,
           spec : Specs, status : Statuses, label : Labels]
Event == [type : {"ADDED", "MODIFIED", "DELETED"},
          gvr : GVRs, name : Names, obj : Object, rv : Nat]
NoCopy == [gvr |-> "none"]
Copy == [gvr : GVRs, name : Names, obj : Object]

View == [Names -> Object \cup {Absent}]
Subscription == [state : {"none", "open", "closed"}, boot : Seq(Event), ch : Seq(Event),
                 currentRV : Nat]
ClientState == [phase : {"idle", "listed", "watching", "closed"}, view : View,
                lastRV : Nat, exact : BOOLEAN,
                origin : {"none", "unknown", "complete", "retained", "trimmed", "restarted"}]

NoSub == [state |-> "none", boot |-> <<>>, ch |-> <<>>, currentRV |-> 0]
EmptyView == [n \in Names |-> Absent]

----------------------------------------------------------------------------
(* What the store does under its lock.                                     *)

\* a slip: the subscriber is forgotten but its channel never closed
DropSubQuiet(s) == [s EXCEPT !.state = "wedged"]

\* close(sub.ch); delete(s.subs, id): the pump still drains what is buffered
DropSub(s) == [s EXCEPT !.state = "closed"]

\* a slip: the event is skipped and the slow subscriber kept
FanSkip(s, e) ==
  IF Len(s.ch) < ChanCap THEN [s EXCEPT !.ch = Append(@, e)] ELSE s

\* the select of emitLocked: send, or drop the subscriber whose buffer is full
Fan(s, e) ==
  IF Len(s.ch) < ChanCap THEN [s EXCEPT !.ch = Append(@, e)] ELSE DropSub(s)

\* a slip: the window is cut at its new end
TrimNewest(h) == IF Len(h) > HistCap THEN SubSeq(h, 1, HistCap) ELSE h

\* history = append(history, ev), keeping the most recent histCap events
Trim(h) == IF Len(h) > HistCap THEN SubSeq(h, Len(h) - HistCap + 1, Len(h)) ELSE h

emitLocked(e) ==
  /\ history' = Trim(Append(history, e))
  /\ subs' = [w \in Watchers |->
                IF subs[w].state = "open" /\ WatchGVR[w] = e.gvr
                THEN Fan(subs[w], e) ELSE subs[w]]

\* a write: nextRV, putLocked (memory and page cache), emitLocked
Commit(g, n, type, obj, stored) ==
  LET stamped == [obj EXCEPT !.rv = rv + 1]
  IN  /\ rv < MaxRV
      /\ rv' = rv + 1
      /\ data' = [data EXCEPT ![g][n] = IF stored THEN stamped ELSE Absent]
      /\ emitLocked([type |-> type, gvr |-> g, name |-> n, obj |-> stamped,
                     rv |-> rv + 1])

\* a slip: a write of the main resource brings its copy's status along
mergeWholeObject(old, incoming, isStatus) ==
  IF isStatus THEN [old EXCEPT !.status = incoming.status]
  ELSE [incoming EXCEPT !.uid = old.uid,
          !.gen = IF old.spec = incoming.spec THEN old.gen ELSE old.gen + 1]

mergeForUpdate(old, incoming, isStatus) ==
  IF isStatus THEN [old EXCEPT !.status = incoming.status]
  ELSE [incoming EXCEPT !.uid = old.uid, !.status = old.status,
          !.gen = IF old.spec = incoming.spec THEN old.gen ELSE old.gen + 1]

Create(g, n, spec, label) ==
  /\ data[g][n] = Absent
  /\ uids' = uids + 1
  /\ Commit(g, n, "ADDED",
            [uid |-> uids + 1, rv |-> 0, gen |-> 1, spec |-> spec,
             status |-> NoStatus, label |-> label], TRUE)
  /\ UNCHANGED <<flushed, held, cli, faults>>

Get(c, g, n) ==
  /\ data[g][n] # Absent
  /\ held' = [held EXCEPT ![c] = [gvr |-> g, name |-> n, obj |-> data[g][n]]]
  /\ UNCHANGED <<data, rv, history, subs, flushed, uids, cli, faults>>

\* what a client changes in the copy it holds before it writes it back
Edits(o) == {[o EXCEPT !.spec = s] : s \in Specs}
            \cup {[o EXCEPT !.label = l] : l \in Labels}
            \cup {[o EXCEPT !.status = s] : s \in Statuses}

\* PUT of an edited copy: with its resourceVersion as a precondition, or with
\* the resourceVersion cleared, as the reconcilers' status writes do.  Sending
\* a copy back spends it.
Update(c, isStatus, conditional) ==
  /\ held[c] # NoCopy
  /\ LET g == held[c].gvr  n == held[c].name  old == data[g][n]
     IN  /\ old # Absent
         /\ conditional => held[c].obj.rv = old.rv
         /\ \E incoming \in Edits(held[c].obj) :
              Commit(g, n, "MODIFIED", mergeForUpdate(old, incoming, isStatus), TRUE)
  /\ held' = [held EXCEPT ![c] = NoCopy]
  /\ UNCHANGED <<flushed, uids, cli, faults>>

\* the patch is applied to the stored object inside the lock
Patch(g, n, isStatus) ==
  /\ data[g][n] # Absent
  /\ \E patched \in Edits(data[g][n]) :
       Commit(g, n, "MODIFIED", mergeForUpdate(data[g][n], patched, isStatus), TRUE)
  /\ UNCHANGED <<flushed, uids, held, cli, faults>>

\* DELETED carries the last object, stamped with the RV of the deletion
Delete(g, n) ==
  /\ data[g][n] # Absent
  /\ Commit(g, n, "DELETED", data[g][n], FALSE)
  /\ UNCHANGED <<flushed, uids, held, cli, faults>>

----------------------------------------------------------------------------
(* List and Watch.                                                         *)

Matches(w, o) == o # Absent /\ o.label \in WatchSel[w]

\* The objects a list or an informer of w should hold now.
Truth(w) == [n \in Names |-> IF Matches(w, data[WatchGVR[w]][n])
                             THEN data[WatchGVR[w]][n] ELSE Absent]

\* Store.List, and the client replacing its view and its RV by the result
List(w) ==
  /\ "list" \in Modes
  /\ cli[w].phase \in {"idle", "closed"}
  /\ cli' = [cli EXCEPT ![w] = [phase |-> "listed", view |-> Truth(w),
                                lastRV |-> rv, exact |-> TRUE, origin |-> "none"]]
  /\ UNCHANGED <<data, rv, history, subs, flushed, uids, held, faults>>

oldestHistoryRV == IF history = <<>> THEN 0 ELSE history[1].rv

\* a slip: a watch without a resourceVersion is replayed as well
replayAlways(startRV) == startRV >= oldestHistoryRV \/ history = <<>>

replayFromHistory(startRV) ==
  startRV > 0 /\ (startRV >= oldestHistoryRV \/ history = <<>>)

\* a slip: the event the client has already seen is sent again
HistoryFrom(g, startRV) ==
  {history[i] : i \in {k \in DOMAIN history : history[k].rv >= startRV /\ history[k].gvr = g}}

\* the retained events newer than startRV
HistoryAfter(g, startRV) ==
  {history[i] : i \in {k \in DOMAIN history : history[k].rv > startRV /\ history[k].gvr = g}}

\* ADDED for each stored object newer than startRV
Snapshots(g, startRV) ==
  {[type |-> "ADDED", gvr |-> g, name |-> n, obj |-> data[g][n], rv |-> data[g][n].rv] :
     n \in {m \in Names : data[g][m] # Absent /\ data[g][m].rv > startRV}}

InOrder(b) == \A i, j \in DOMAIN b : i < j => b[i].rv < b[j].rv

\* the history in its order, or the objects in the map's random order
Bootstraps(g, startRV) ==
  IF replayFromHistory(startRV)
  THEN {b \in SetToSeqs(HistoryAfter(g, startRV)) : InOrder(b)}
  ELSE SetToSeqs(Snapshots(g, startRV))

\* History variables of a watch, kept with the client.  exact: its view plus
\* the events after lastRV give the truth.  origin: how much of what followed
\* startRV the store could still send when the watch was opened.
Origin(startRV, exact) ==
  CASE ~exact -> "unknown"
    [] exact /\ (startRV \in {0, rv} \/ (history # <<>> /\ startRV >= oldestHistoryRV))
       -> "complete"
    [] exact /\ history # <<>> /\ startRV \in 1..(oldestHistoryRV - 1) /\ startRV # rv
       -> IF startRV = oldestHistoryRV - 1 THEN "retained" ELSE "trimmed"
    [] OTHER -> "restarted"

\* Store.Watch: bootstrap and registration under one lock.  startRV = 0 stands
\* for no resourceVersion.
Watch(w, startRV, view, exact) ==
  \E b \in Bootstraps(WatchGVR[w], startRV) :
    /\ subs' = [subs EXCEPT ![w] = [state |-> "open", boot |-> b, ch |-> <<>>,
                                    currentRV |-> rv]]
    /\ cli' = [cli EXCEPT ![w] =
                 [phase |-> "watching", view |-> view, lastRV |-> startRV,
                  exact |-> /\ Origin(startRV, exact) = "complete"
                            /\ replayFromHistory(startRV) \/ b = <<>>,
                  origin |-> Origin(startRV, exact)]]
    /\ UNCHANGED <<data, rv, history, flushed, uids, held, faults>>

\* no resourceVersion, as manager.startWatch does: the view starts empty
WatchNow(w) ==
  /\ "now" \in Modes
  /\ cli[w].phase \in {"idle", "closed"}
  /\ Watch(w, 0, EmptyView, TRUE)

\* List, then Watch(RV of the list)
WatchListed(w) ==
  /\ cli[w].phase = "listed"
  /\ Watch(w, cli[w].lastRV, cli[w].view, cli[w].exact)

\* the stream ended: watch again from the last resourceVersion seen
Resume(w) ==
  /\ "resume" \in Modes
  /\ cli[w].phase = "closed"
  /\ Watch(w, cli[w].lastRV, cli[w].view, cli[w].exact)

----------------------------------------------------------------------------
(* The pump goroutine and the client at the other end of the stream.       *)

Applied(e) == IF e.type = "DELETED" THEN Absent ELSE e.obj

\* out <- ev for a matching event; the client applies it
Deliver(w, e, exact) ==
  cli' = [cli EXCEPT ![w] =
            IF Matches(w, e.obj)
            THEN [@ EXCEPT !.view[e.name] = Applied(e), !.lastRV = e.rv, !.exact = exact]
            ELSE [@ EXCEPT !.exact = exact]]

PumpBootstrap(w) ==
  LET s == subs[w]
  IN  /\ s.state \in {"open", "closed"}
      /\ s.boot # <<>>
      /\ Deliver(w, Head(s.boot),
                 cli[w].exact \/ (Len(s.boot) = 1 /\ cli[w].origin = "complete"))
      /\ subs' = [subs EXCEPT ![w].boot = Tail(@)]
      /\ UNCHANGED <<data, rv, history, flushed, uids, held, faults>>

PumpLive(w) ==
  LET s == subs[w]
  IN  /\ s.state \in {"open", "closed"}
      /\ s.boot = <<>> /\ s.ch # <<>>
      /\ IF Head(s.ch).rv > s.currentRV
         THEN Deliver(w, Head(s.ch), cli[w].exact)
         ELSE UNCHANGED cli
      /\ subs' = [subs EXCEPT ![w].ch = Tail(@)]
      /\ UNCHANGED <<data, rv, history, flushed, uids, held, faults>>

\* the pump finds the channel closed and ends the stream
StreamEnd(w) ==
  /\ subs[w].state = "closed" /\ subs[w].boot = <<>> /\ subs[w].ch = <<>>
  /\ subs' = [subs EXCEPT ![w] = NoSub]
  /\ cli' = [cli EXCEPT ![w].phase = "closed"]
  /\ UNCHANGED <<data, rv, history, flushed, uids, held, faults>>

----------------------------------------------------------------------------
(* Faults.                                                                 *)

Fault(kind) ==
  /\ kind \in FaultKinds
  /\ faults < MaxFaults
  /\ faults' = faults + 1

\* ctx.Done: timeoutSeconds, a client that left, a write deadline.  removeSub.
Disconnect(w) ==
  /\ Fault("disconnect")
  /\ subs[w].state \in {"open", "closed"}
  /\ subs' = [subs EXCEPT ![w] = NoSub]
  /\ cli' = [cli EXCEPT ![w].phase = "closed"]
  /\ UNCHANGED <<data, rv, history, flushed, uids, held>>

\* a slip: the counter restarts from the newest stored object
BootNewest(d, startRV) ==
  LET stored == {d[g][n] : g \in GVRs, n \in Names} \ {Absent}
  IN  /\ data' = d
      /\ rv' = CHOOSE r \in 0..startRV :
                 /\ \A o \in stored : o.rv <= r
                 /\ r = 0 \/ \E o \in stored : o.rv = r
      /\ history' = <<>>
      /\ subs' = [w \in Watchers |-> NoSub]
      /\ cli' = [w \in Watchers |->
                   [cli[w] EXCEPT !.phase = IF @ = "watching" THEN "closed" ELSE @]]
      /\ UNCHANGED <<uids, held>>

\* A new process: Load, New(StartRV), LoadFrom.  History and subscriptions are
\* not persisted.
Boot(d, startRV) ==
  /\ data' = d
  /\ rv' = startRV
  /\ history' = <<>>
  /\ subs' = [w \in Watchers |-> NoSub]
  /\ cli' = [w \in Watchers |->
               [cli[w] EXCEPT !.phase = IF @ = "watching" THEN "closed" ELSE @,
                              !.exact = @ /\ startRV = rv]]
  /\ UNCHANGED <<uids, held>>

\* the process dies; every committed transaction is in the page cache or on disk
Restart ==
  /\ Fault("restart")
  /\ Boot(data, rv)
  /\ UNCHANGED flushed

\* flushLoop: db.Sync once a second (only where a power loss can tell)
Sync ==
  /\ "powerloss" \in FaultKinds
  /\ flushed # [data |-> data, rv |-> rv]
  /\ flushed' = [data |-> data, rv |-> rv]
  /\ UNCHANGED <<data, rv, history, subs, uids, held, cli, faults>>

\* the machine dies: transactions after the last Sync are lost
PowerLoss ==
  /\ Fault("powerloss")
  /\ Boot(flushed.data, flushed.rv)
  /\ UNCHANGED flushed

----------------------------------------------------------------------------
Init ==
  /\ data = [g \in GVRs |-> [n \in Names |-> Absent]]
  /\ rv = 0
  /\ history = <<>>
  /\ subs = [w \in Watchers |-> NoSub]
  /\ flushed = [data |-> data, rv |-> 0]
  /\ uids = 0
  /\ held = [c \in Clients |-> NoCopy]
  /\ cli = [w \in Watchers |-> [phase |-> "idle", view |-> EmptyView, lastRV |-> 0,
                                exact |-> FALSE, origin |-> "none"]]
  /\ faults = 0

Write ==
  \/ \E g \in GVRs, n \in Names :
       \/ \E s \in Specs, l \in Labels : Create(g, n, s, l)
       \/ \E isStatus \in BOOLEAN : Patch(g, n, isStatus)
       \/ Delete(g, n)
       \/ \E c \in Clients : Get(c, g, n)
  \/ \E c \in Clients, isStatus, conditional \in BOOLEAN :
       Update(c, isStatus, conditional)

Pump(w) == PumpBootstrap(w) \/ PumpLive(w) \/ StreamEnd(w)
Open(w) == List(w) \/ WatchNow(w) \/ WatchListed(w) \/ Resume(w)

Next ==
  \/ Write
  \/ \E w \in Watchers : Pump(w) \/ Open(w) \/ Disconnect(w)
  \/ Restart \/ Sync \/ PowerLoss

Spec == Init /\ [][Next]_vars

\* The pump goroutines run; a client that has a stream to open opens it.
Fairness == \A w \in Watchers : WF_vars(Pump(w)) /\ WF_vars(Open(w))
FairSpec == Spec /\ Fairness

----------------------------------------------------------------------------
(* Properties.                                                             *)

TypeOK ==
  /\ data \in [GVRs -> View]
  /\ rv \in 0..MaxRV
  /\ history \in Seq(Event)
  /\ subs \in [Watchers -> Subscription]
  /\ flushed \in [data : [GVRs -> View], rv : 0..MaxRV]
  /\ uids \in Nat
  /\ held \in [Clients -> Copy \cup {NoCopy}]
  /\ cli \in [Watchers -> ClientState]
  /\ faults \in 0..MaxFaults

\* The events on their way to a client: the bootstrap, then the channel.
Queue(w) == subs[w].boot \o subs[w].ch

\* The positions in it of those that the stream still has to bring.
Pending(w) ==
  {i \in DOMAIN Queue(w) :
     /\ Matches(w, Queue(w)[i].obj)
     /\ i > Len(subs[w].boot) => Queue(w)[i].rv > subs[w].currentRV}

\* The view the client will have when all of them are applied.
FinalView(w) ==
  [n \in Names |->
     LET mine == {i \in Pending(w) : Queue(w)[i].name = n}
     IN  IF mine = {} THEN cli[w].view[n]
         ELSE Applied(Queue(w)[CHOOSE i \in mine : \A j \in mine : j <= i])]

\* All that matches is, or will be, in the view at its current version; with
\* no selector nothing else is.
Converges(w) ==
  \A n \in Names :
    /\ Truth(w)[n] # Absent => FinalView(w)[n] = Truth(w)[n]
    /\ WatchSel[w] = Labels /\ Truth(w)[n] = Absent => FinalView(w)[n] = Absent

\* No event is missed across the handoff from List or history to live events
\* (Watch, emitLocked, pump): a stream that was opened where the store could
\* still send everything brings its client to exactly the store's contents,
\* whatever was written between the list, the registration and the delivery,
\* as long as the slow-consumer rule has not closed it.
ViewsConverge ==
  \A w \in Watchers : subs[w].state = "open" /\ cli[w].origin = "complete" => Converges(w)

\* No event is delivered twice or out of order (Watch's replay condition and
\* pump's currentRV check): what a watch still has to bring after a complete
\* bootstrap is newer than all it brought, in increasing resourceVersion.
OrderedDelivery ==
  \A w \in Watchers :
    cli[w].phase = "watching" /\ cli[w].origin = "complete" /\ cli[w].exact =>
      \A i \in Pending(w) :
        /\ Queue(w)[i].rv > cli[w].lastRV
        /\ \A j \in Pending(w) : j < i => Queue(w)[j].rv < Queue(w)[i].rv

\* The copies of an object that are around outside the map.
CopiesOf(g, n) ==
  {held[c].obj : c \in {k \in Clients : held[k] # NoCopy /\ held[k].gvr = g
                                       /\ held[k].name = n}}
  \cup {cli[w].view[n] : w \in {v \in Watchers : WatchGVR[v] = g}}
  \cup {history[i].obj : i \in {k \in DOMAIN history : history[k].gvr = g
                                                     /\ history[k].name = n}}

\* An RV identifies one version of an object for ever, across deletion,
\* re-creation and restart: this is what makes the precondition of Update and
\* Patch (409 on a different RV) protect a read-modify-write.
RVIdentifiesVersion ==
  \A g \in GVRs, n \in Names :
    data[g][n] # Absent =>
      \A o \in CopiesOf(g, n) \ {Absent} : o.rv = data[g][n].rv => o = data[g][n]

\* Each object of d was last written under an RV of its own, at most r.
Versioned(d, r) ==
  \A g, h \in GVRs, n, m \in Names :
    d[g][n] # Absent =>
      /\ d[g][n].rv \in 1..r
      /\ d[h][m] # Absent /\ d[h][m].rv = d[g][n].rv => g = h /\ n = m

\* The window of retained events has no gap and ends at the counter, which no
\* stored object exceeds; two objects never share an RV (nextRV, emitLocked).
\* The same goes for what a power loss would leave on disk (SaveObject, putRV).
HistoryWindow ==
  /\ Len(history) <= HistCap
  /\ history # <<>> => history[Len(history)].rv = rv
  /\ \A i \in 1..(Len(history) - 1) : history[i + 1].rv = history[i].rv + 1
  /\ Versioned(data, rv)
  /\ Versioned(flushed.data, flushed.rv)

\* A write through one half of an object leaves the other half alone however
\* stale the written copy is (mergeForUpdate): spec and status of one
\* incarnation never change in the same step, and the generation counts spec
\* changes.
HalvesSeparate ==
  [][\A g \in GVRs, n \in Names :
       LET o == data[g][n]  q == data'[g][n]
       IN  o # Absent /\ q # Absent /\ o.uid = q.uid =>
             /\ o.spec = q.spec \/ o.status = q.status
             /\ q.gen = o.gen + (IF o.spec = q.spec THEN 0 ELSE 1)]_vars

\* A client that watches without an RV whenever its stream ends, as the
\* reconcilers' manager does, ends up with the store's contents once writing
\* stops, even if it was dropped as a slow consumer (emitLocked closes the
\* channel, pump ends the stream), disconnected or cut off by a restart.
EventuallyConsistent ==
  <>[](\A w \in Watchers : WatchSel[w] = Labels => cli[w].view = Truth(w))

----------------------------------------------------------------------------
(* What comments and plans say and the code does not do.                   *)

\* watch.go says no event is missed across the handoff: it holds for a client
\* whose events after its resourceVersion are all in the history.
RetainedEventsReplayed ==
  \A w \in Watchers :
    subs[w].state = "open" /\ cli[w].origin \in {"complete", "retained"} => Converges(w)
=============================================================================

---------------------------- MODULE PortForward ----------------------------
(***************************************************************************)
(* The port-forward server on one SPDY connection: streams are paired by   *)
(* their request ID and each pair is bridged to a TCP connection of the    *)
(* router by two copying goroutines.  Exchanges are the streams that may  *)
(* be data streams: each is bridged to the exchange of its name.           *)
(***************************************************************************)
EXTENDS Router, Sequences

CONSTANTS
  Streams,      \* streams the client may open
  RequestIDs,   \* values of the requestID header
  MaxDialFails  \* bound on dials of the router that fail

ASSUME StreamAssumption == Exchanges \subseteq Streams /\ MaxDialFails \in Nat

VARIABLES
  conn,         \* the SPDY connection
  running,      \* run has not returned
  streamChan,   \* streams on their way to run
  pairs,        \* the streams that each request ID has so far
  st,           \* the streams
  fw,           \* the forward of each data stream
  dialFails     \* failed dials so far

pfVars == <<conn, running, streamChan, pairs, st, fw, dialFails>>

None == "none"
Header == [rid : RequestIDs \cup {""}, type : {"data", "error", "other"}]
NoHeader == [rid |-> "", type |-> "other"]
NoPair == [data |-> None, error |-> None]
\* eof: the client has ended its side; wrote: its request is in the stream's
\* buffer; told: an error message was written; got: the answer came
NoStream == [s |-> "none", head |-> NoHeader, eof |-> FALSE, wrote |-> FALSE, told |-> FALSE,
             got |-> FALSE]
\* up, down: the copying goroutines that still run
NoForward == [pc |-> "none", error |-> None, up |-> FALSE, down |-> FALSE]
ChanCap == 1

PfTypeOK ==
  /\ conn \in {"none", "open", "closed"} /\ running \in BOOLEAN
  /\ streamChan \in Seq(Streams) /\ Len(streamChan) <= ChanCap
  /\ pairs \in [RequestIDs -> [data : Exchanges \cup {None}, error : Streams \cup {None}]]
  /\ st \in [Streams -> [s : {"none", "sent", "queued", "held", "reset", "closed"}, head : Header,
                         eof : BOOLEAN, wrote : BOOLEAN, told : BOOLEAN, got : BOOLEAN]]
  /\ fw \in [Exchanges -> [pc : {"none", "dial", "copy", "ended"}, error : Streams \cup {None},
                         up : BOOLEAN, down : BOOLEAN]]
  /\ dialFails \in 0..MaxDialFails

PfInit ==
  /\ conn = "none" /\ running = FALSE
  /\ streamChan = <<>>
  /\ pairs = [i \in RequestIDs |-> NoPair]
  /\ st = [s \in Streams |-> NoStream]
  /\ fw = [s \in Exchanges |-> NoForward]
  /\ dialFails = 0

----------------------------------------------------------------------------
(* The client.                                                             *)

\* ServeHTTP: the upgrade succeeds and run begins
Connect ==
  /\ conn = "none"
  /\ conn' = "open" /\ running' = TRUE
  /\ UNCHANGED <<streamChan, pairs, st, fw, dialFails, rtVars>>

OpenStream(s, h) ==
  /\ conn = "open" /\ st[s].s = "none"
  /\ st' = [st EXCEPT ![s].s = "sent", ![s].head = h]
  /\ UNCHANGED <<conn, running, streamChan, pairs, fw, dialFails, rtVars>>

Write(s) ==
  /\ conn = "open" /\ st[s].s \in {"sent", "queued", "held"} /\ st[s].head.type = "data"
  /\ ~st[s].eof /\ ~st[s].wrote /\ ex[s].pc = "idle" /\ ex[s].req = NoRequest
  /\ \E r \in Requests : ex' = [ex EXCEPT ![s].req = r]
  /\ st' = [st EXCEPT ![s].wrote = TRUE]
  /\ UNCHANGED <<conn, running, streamChan, pairs, fw, dialFails, ready, boxes, lastBox>>

\* the client ends its side of a data stream (of an error stream, which it does
\* at once, the server does not notice)
EndStream(s) ==
  /\ conn = "open" /\ st[s].s \in {"sent", "queued", "held"} /\ ~st[s].eof
  /\ st[s].head.type = "data"
  /\ st' = [st EXCEPT ![s].eof = TRUE]
  /\ UNCHANGED <<conn, running, streamChan, pairs, fw, dialFails, rtVars>>

\* the connection ends: by the client, or after idleTimeout
EndConnection ==
  /\ conn = "open" /\ conn' = "closed"
  /\ UNCHANGED <<running, streamChan, pairs, st, fw, dialFails, rtVars>>

----------------------------------------------------------------------------
(* connHandler.                                                            *)

\* the stream handler of the upgrade, which blocks while streamChan is full
Offer(s) ==
  /\ st[s].s = "sent" /\ Len(streamChan) < ChanCap
  /\ streamChan' = Append(streamChan, s)
  /\ st' = [st EXCEPT ![s].s = "queued"]
  /\ UNCHANGED <<conn, running, pairs, fw, dialFails, rtVars>>

\* slip: one pair at a time, whatever the request ID
PairShared(i) == LET half == {j \in RequestIDs : pairs[j] # NoPair}
                 IN  IF half = {} THEN NoPair ELSE pairs[CHOOSE j \in half : TRUE]
\* the pair that a request ID has
PairOf(i) == pairs[i]

\* a stream that repeats a type takes the place of the earlier one; one of an
\* unknown type leaves an empty pair behind, which is the same as none
onStream(s) ==
  LET h == st[s].head
      p == IF h.type = "error" THEN [PairOf(h.rid) EXCEPT !.error = s]
                               ELSE [PairOf(h.rid) EXCEPT !.data = s]
      complete == p.data # None /\ p.error # None
  IN  \/ /\ h.rid = "" \/ h.type = "other"
         /\ st' = [st EXCEPT ![s].s = "reset"]
         /\ UNCHANGED <<pairs, fw>>
      \/ /\ h.rid # "" /\ h.type # "other"
         /\ st' = [st EXCEPT ![s].s = "held"]
         /\ pairs' = [pairs EXCEPT ![h.rid] = IF complete THEN NoPair ELSE p]
         /\ fw' = IF complete THEN [fw EXCEPT ![p.data] = [NoForward EXCEPT !.pc = "dial", !.error = p.error]]
                              ELSE fw

\* the select of run takes either branch when both are ready
RunStream ==
  /\ running /\ streamChan # <<>>
  /\ streamChan' = Tail(streamChan)
  /\ onStream(Head(streamChan))
  /\ UNCHANGED <<conn, running, dialFails, rtVars>>
RunReturn ==
  /\ running /\ conn = "closed"
  /\ running' = FALSE
  /\ UNCHANGED <<conn, streamChan, pairs, st, fw, dialFails, rtVars>>

----------------------------------------------------------------------------
(* forward.                                                                *)

\* the deferred closes of both streams
Ended(s, told) ==
  /\ fw' = [fw EXCEPT ![s].pc = "ended"]
  /\ st' = [q \in Streams |->
              CASE q = s -> [st[q] EXCEPT !.s = "closed"]
                [] q = fw[s].error -> [st[q] EXCEPT !.s = "closed", !.told = told]
                [] OTHER -> st[q]]

DialRouter(s) ==
  /\ fw[s].pc = "dial"
  /\ \/ /\ fw' = [fw EXCEPT ![s].pc = "copy", ![s].up = TRUE, ![s].down = TRUE]
        /\ UNCHANGED <<st, dialFails>>
     \/ /\ dialFails < MaxDialFails /\ dialFails' = dialFails + 1
        /\ Ended(s, conn = "open")
  /\ UNCHANGED <<conn, running, streamChan, pairs, rtVars>>

\* slip: the client's end is not handed on
NoCloseWrite(x) == x
\* CloseWrite: the router's server reads the end of the connection
CloseWrite(x) == [x EXCEPT !.eof = TRUE]

\* client -> router: the request is copied, then the end; a connection that
\* ends takes what is buffered with it or not
CopyUp(s) ==
  /\ fw[s].up
  /\ \/ /\ st[s].wrote
        /\ st' = [st EXCEPT ![s].wrote = FALSE]
        /\ ex' = [ex EXCEPT ![s].pc = IF @ = "idle" THEN "sent" ELSE @]
        /\ UNCHANGED fw
     \/ /\ conn = "closed" \/ (st[s].eof /\ ~st[s].wrote)
        /\ fw' = [fw EXCEPT ![s].up = FALSE]
        /\ ex' = [ex EXCEPT ![s] = CloseWrite(@)]
        /\ UNCHANGED st
  /\ UNCHANGED <<conn, running, streamChan, pairs, dialFails, ready, boxes, lastBox>>

\* router -> client: the answer is copied, or cannot be; then the end
CopyDown(s) ==
  /\ fw[s].down
  /\ \/ /\ ex[s].pc \in {"answered", "closed"} /\ ex[s].code # 0 /\ ~st[s].got /\ conn = "open"
        /\ st' = [st EXCEPT ![s].got = TRUE]
        /\ UNCHANGED fw
     \/ /\ \/ ex[s].pc = "closed" /\ (st[s].got \/ ex[s].code = 0)
           \/ ex[s].pc \in {"answered", "closed"} /\ ex[s].code # 0 /\ ~st[s].got /\ conn = "closed"
        /\ fw' = [fw EXCEPT ![s].down = FALSE]
        /\ UNCHANGED st
  /\ UNCHANGED <<conn, running, streamChan, pairs, dialFails, rtVars>>

\* both are done: the TCP connection and both streams are closed
Finish(s) ==
  /\ fw[s].pc = "copy" /\ ~fw[s].up /\ ~fw[s].down
  /\ Ended(s, FALSE)
  /\ ex' = [ex EXCEPT ![s].eof = TRUE]
  /\ UNCHANGED <<conn, running, streamChan, pairs, dialFails, ready, boxes, lastBox>>

Bridge(s) == DialRouter(s) \/ CopyUp(s) \/ CopyDown(s) \/ Finish(s)
=============================================================================

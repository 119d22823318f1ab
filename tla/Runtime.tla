------------------------------ MODULE Runtime ------------------------------
(***************************************************************************)
(* The runtime in a sandbox's container: splitArgs and safePath, and the   *)
(* file handlers, each the goroutine of one request.  A file is a sequence *)
(* of chunks; a handler writes or reads one chunk at a time at an offset   *)
(* of its own.                                                             *)
(***************************************************************************)
EXTENDS Integers, Sequences, SequencesExt

CONSTANTS
  Clients,      \* concurrent requests
  Paths,        \* paths as clients send them: sequences of components
  Uploads       \* contents that clients upload

ASSUME RequestAssumption == Paths \subseteq Seq(STRING) \ {<<>>} /\ Uploads \subseteq Seq(STRING)

VARIABLES
  files,        \* the files under the root, by their resolved path
  rq,           \* the requests
  settled       \* of each file, what the last upload left if it was alone

fileVars == <<files, rq, settled>>

----------------------------------------------------------------------------
(* split.go                                                                *)

Start == [args |-> <<>>, cur |-> <<>>, has |-> FALSE, q |-> "none", esc |-> FALSE]

\* slip: quotes alone make no token
QuoteQuiet(a, q) == [a EXCEPT !.q = q]
Quote(a, q) == [a EXCEPT !.q = q, !.has = TRUE]

Add(a, c) == [a EXCEPT !.cur = Append(@, c), !.esc = FALSE]
Token(a, c) == [Add(a, c) EXCEPT !.has = TRUE]
Flush(a) == IF a.has THEN [a EXCEPT !.args = Append(@, a.cur), !.cur = <<>>, !.has = FALSE] ELSE a

\* what a backslash escapes in double quotes
Escapable == {"\"", "\\", "$", "backquote"}

\* one character; esc: the one before was a backslash that looks ahead; ' ' stands
\* for all whitespace
Char(a, c) ==
  CASE a.q = "single" -> IF c = "'" THEN [a EXCEPT !.q = "none"] ELSE Add(a, c)
    [] a.q = "double" /\ a.esc /\ c \in Escapable -> Add(a, c)
    [] a.q = "double" /\ a.esc /\ c \notin Escapable -> Add(Add(a, "\\"), c)
    [] a.q = "double" /\ ~a.esc -> CASE c = "\"" -> [a EXCEPT !.q = "none"]
                                      [] c = "\\" -> [a EXCEPT !.esc = TRUE]
                                      [] OTHER -> Add(a, c)
    [] a.q = "none" /\ a.esc -> Token(a, c)
    [] OTHER -> CASE c = "'" -> Quote(a, "single")
                  [] c = "\"" -> Quote(a, "double")
                  [] c = "\\" -> [a EXCEPT !.esc = TRUE]
                  [] c = " " -> Flush(a)
                  [] OTHER -> Token(a, c)

splitArgs(s) ==
  LET a == FoldLeft(Char, Start, s)
  IN  [ok |-> a.q = "none", args |-> Flush(a).args]

----------------------------------------------------------------------------
(* server.go                                                               *)

Root == <<"app">>
\* filepath.Join: empty components and "." go, ".." takes one away
Clean(p) ==
  FoldLeft(LAMBDA acc, x : CASE x \in {"", "."} -> acc
                             [] x = ".." -> IF acc = <<>> THEN acc ELSE SubSeq(acc, 1, Len(acc) - 1)
                             [] OTHER -> Append(acc, x), Root, p)
\* inside the root, or it itself
Safe(p) == IsPrefix(Root, Clean(p))

Resolved == {Clean(p) : p \in {q \in Paths : Safe(q)}} \ {Root}
Absent == <<"absent">>
NoReq == [pc |-> "idle", kind |-> "none", path |-> Root, data |-> <<>>, pos |-> 0, code |-> 0,
          seen |-> <<>>, expect |-> Absent]

\* settled: a content, or one of these
Unknown == <<"unknown">>
Writing == <<"writing">>

RuntimeInit ==
  /\ files = [f \in Resolved |-> Absent]
  /\ rq = [c \in Clients |-> NoReq]
  /\ settled = [f \in Resolved |-> Absent]

Reply(c, code) == rq' = [rq EXCEPT ![c].pc = "replied", ![c].code = code]
Uploading(f) == {c \in Clients : rq[c].pc = "copy" /\ rq[c].kind = "upload" /\ rq[c].path = f}

\* slip: the file keeps what it had beyond the new content
OpenKeep(content) == IF content = Absent THEN <<>> ELSE content
\* os.Create
Truncate(content) == <<>>

\* upload up to os.Create, for the base name, which is what the multipart form
\* yields of the file's name: an escape is refused, and where the file system is
\* read-only, or the path is the root itself, the file cannot be made
UploadBegin(c, name, data, writable) ==
  LET p == <<name[Len(name)]>>
      f == Clean(p)
      alone == Uploading(f) = {}
      began == [NoReq EXCEPT !.kind = "upload", !.path = f, !.data = data]
      Refuse(code) == rq' = [rq EXCEPT ![c] = [began EXCEPT !.pc = "replied", !.code = code]]
  IN  /\ rq[c].pc = "idle"
      /\ \/ ~Safe(p) /\ Refuse(403) /\ UNCHANGED <<files, settled>>
         \/ Safe(p) /\ (f = Root \/ ~writable) /\ Refuse(500) /\ UNCHANGED <<files, settled>>
         \/ /\ Safe(p) /\ f # Root /\ writable
            /\ files' = [files EXCEPT ![f] = Truncate(@)]
            /\ settled' = [settled EXCEPT ![f] = IF alone THEN Writing ELSE Unknown]
            /\ rq' = [d \in Clients |->
                        CASE d = c -> [began EXCEPT !.pc = "copy"]
                          [] d # c /\ rq[d].pc = "copy" /\ rq[d].path = f -> [rq[d] EXCEPT !.expect = Unknown]
                          [] OTHER -> rq[d]]

\* a write beyond the end leaves zeros
WriteAt(content, i, chunk) ==
  [j \in 1..(IF i > Len(content) THEN i ELSE Len(content)) |->
     IF j = i THEN chunk ELSE IF j <= Len(content) THEN content[j] ELSE "zero"]

\* io.Copy to the file: a chunk, an error, or the end
UploadCopy(c) ==
  LET r == rq[c]  f == r.path
  IN  /\ r.pc = "copy" /\ r.kind = "upload"
      /\ \/ /\ r.pos < Len(r.data)
            /\ files' = [files EXCEPT ![f] = WriteAt(@, r.pos + 1, r.data[r.pos + 1])]
            /\ rq' = [rq EXCEPT ![c].pos = @ + 1]
            /\ UNCHANGED settled
         \/ /\ r.pos < Len(r.data)
            /\ settled' = [settled EXCEPT ![f] = Unknown]
            /\ Reply(c, 500)
            /\ UNCHANGED files
         \/ /\ r.pos = Len(r.data)
            /\ settled' = [settled EXCEPT ![f] = IF @ = Writing THEN r.data ELSE @]
            /\ Reply(c, 200)
            /\ UNCHANGED files

\* download up to os.Open, list and exists
Read(c, p, kind) ==
  LET f == Clean(p)
      there == f # Root /\ f \in Resolved /\ files[f] # Absent
      began == [NoReq EXCEPT !.kind = kind, !.path = f]
      Tell(code, what) ==
        rq' = [rq EXCEPT ![c] = [began EXCEPT !.pc = "replied", !.code = code, !.seen = what]]
  IN  /\ rq[c].pc = "idle"
      /\ CASE ~Safe(p) -> Tell(403, <<>>)
           [] Safe(p) /\ kind = "exists" -> Tell(200, IF f = Root \/ there THEN <<"yes">> ELSE <<"no">>)
           [] Safe(p) /\ kind = "list" -> Tell(IF f = Root THEN 200 ELSE 404, <<>>)
           [] Safe(p) /\ kind = "download" /\ ~there -> Tell(404, <<>>)
           [] OTHER -> rq' = [rq EXCEPT ![c] = [began EXCEPT !.pc = "copy", !.expect =
                                IF Uploading(f) = {} THEN settled[f] ELSE Unknown]]
      /\ UNCHANGED <<files, settled>>

\* io.Copy from the file, which ends where the file ends by then
DownloadCopy(c) ==
  LET r == rq[c]  content == files[r.path]
  IN  /\ r.pc = "copy" /\ r.kind = "download"
      /\ IF r.pos < Len(content)
         THEN rq' = [rq EXCEPT ![c].pos = @ + 1, ![c].seen = Append(@, content[r.pos + 1])]
         ELSE Reply(c, 200)
      /\ UNCHANGED <<files, settled>>

\* the client goes on to another request
NextRequest(c) ==
  /\ rq[c].pc = "replied"
  /\ rq' = [rq EXCEPT ![c] = NoReq]
  /\ UNCHANGED <<files, settled>>
=============================================================================

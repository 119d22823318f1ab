-------------------------- MODULE SandboxPodProofs -------------------------
(***************************************************************************)
(* What holds of SandboxPod for every template, claim, command line, file  *)
(* and number of clients.                                                  *)
(***************************************************************************)
EXTENDS SandboxPod, TLAPS

\* strings, with the ones that the model names
Text == STRING \cup {"absent", "unknown", "writing", "yes", "no", "zero", "\\", "\"", "'", " "}

\* a sequence over a set is one over any larger set
LEMMA WiderSeq ==
  ASSUME NEW S, NEW T, S \subseteq T, NEW s \in Seq(S)
  PROVE  s \in Seq(T)
<1>1. Len(s) \in Nat /\ \A i \in 1..Len(s) : s[i] \in T
  OBVIOUS
<1>2. s = [i \in 1..Len(s) |-> s[i]]
  OBVIOUS
<1> QED
  BY <1>1, <1>2

\* a sequence of strings is a sequence of text
LEMMA Strings == Seq(STRING) \subseteq Seq(Text)
BY WiderSeq, STRING \subseteq Text DEF Text

(***************************************************************************)
(* Files.                                                                  *)
(***************************************************************************)
Places == {Clean(p) : p \in Paths} \cup {Clean(<<p[Len(p)]>>) : p \in Paths} \cup {Root}
Requests == [pc : {"idle", "copy", "replied"}, kind : {"none", "upload", "download", "list", "exists"},
             path : Places, data : Seq(Text), pos : Nat, code : Nat,
             seen : Seq(Text), expect : Seq(Text)]

FileTypes ==
  /\ files \in [Resolved -> Seq(Text)]
  /\ settled \in [Resolved -> Seq(Text)]
  /\ rq \in [Clients -> Requests]

Unsure == {Unknown, Writing}
Up(c) == rq[c].pc = "copy" /\ rq[c].kind = "upload"
Down(c) == rq[c].pc = "copy" /\ rq[c].kind = "download"

\* s is the first n chunks of t
FirstChunks(s, t, n) == Len(s) = n /\ n <= Len(t) /\ \A j \in 1..n : s[j] = t[j]

\* a settled file is nobody's upload; one that is being written has one writer,
\* and holds what that one has written
FileInv ==
  \A f \in Resolved :
    /\ settled[f] \notin Unsure => Uploading(f) = {} /\ files[f] = settled[f]
    /\ settled[f] = Writing => \A c \in Uploading(f) :
         Uploading(f) = {c} /\ FirstChunks(files[f], rq[c].data, rq[c].pos)

DownloadInv ==
  \A c \in Clients :
    /\ Up(c) => rq[c].pos <= Len(rq[c].data)
    /\ Down(c) => rq[c].path \in Resolved
    /\ Down(c) /\ rq[c].expect \notin Unsure =>
         settled[rq[c].path] = rq[c].expect /\ FirstChunks(rq[c].seen, rq[c].expect, rq[c].pos)

RuntimeInv == FileTypes /\ FileInv /\ DownloadInv /\ FileReadsBack

\* the marks that settled and expect use beside contents are text, and differ
LEMMA Sentinels ==
  /\ Unknown \in Seq(Text) /\ Writing \in Seq(Text) /\ Absent \in Seq(Text)
  /\ <<"yes">> \in Seq(Text) /\ <<"no">> \in Seq(Text)
  /\ Unknown # Writing /\ Absent \notin Unsure
BY DEF Unknown, Writing, Absent, Unsure, Text

\* a request that has not begun is one
LEMMA NoReqTyped == NoReq \in Requests
BY Sentinels DEF NoReq, Requests, Places

\* opening a file for an upload: whoever was reading it is told, and a second
\* writer makes it unknown
LEMMA UploadBeginKeeps ==
  ASSUME RuntimeInv, NEW c \in Clients, NEW name \in Paths, NEW data \in Uploads, NEW w,
         UploadBegin(c, name, data, w)
  PROVE  RuntimeInv'
<1> USE DEF RuntimeInv
<1> DEFINE f == Clean(<<name[Len(name)]>>)
           began == [NoReq EXCEPT !.kind = "upload", !.path = f, !.data = data]
<1>1. f \in Places /\ data \in Seq(Text)
  BY RequestAssumption, Strings DEF Places
<1> HIDE DEF f
<1>2. /\ began \in Requests /\ began.kind = "upload" /\ began.path = f /\ began.data = data
      /\ began.pos = 0 /\ began.expect = Absent
  BY <1>1, NoReqTyped DEF Requests, NoReq
<1> HIDE DEF began
<1>3. rq[c].pc = "idle" /\ rq[c] \in Requests
  BY DEF UploadBegin, FileTypes
<1>4. ASSUME NEW code \in Nat, rq' = [rq EXCEPT ![c] = [began EXCEPT !.pc = "replied", !.code = code]],
             UNCHANGED <<files, settled>>
      PROVE  RuntimeInv'
  <2> DEFINE told == [began EXCEPT !.pc = "replied", !.code = code]
  <2>0. told \in Requests /\ told.pc = "replied" /\ told.kind = "upload"
    BY <1>2 DEF Requests
  <2> HIDE DEF told
  <2>1. /\ rq' \in [Clients -> Requests]
        /\ rq'[c].pc = "replied" /\ rq'[c].kind = "upload"
        /\ \A d \in Clients : d # c => rq'[d] = rq[d]
    BY <1>4, <2>0 DEF FileTypes, told
  <2>2. FileTypes'
    BY <1>4, <2>1 DEF FileTypes
  <2>3. \A g : Uploading(g)' = Uploading(g)
    BY <1>3, <2>1 DEF Uploading
  <2>4. FileInv'
    BY <1>3, <1>4, <2>1, <2>3 DEF FileInv, Uploading
  <2>5. DownloadInv'
    BY <1>4, <2>1 DEF DownloadInv, Up, Down
  <2>6. FileReadsBack'
    BY <2>1 DEF FileReadsBack
  <2> QED
    BY <2>2, <2>4, <2>5, <2>6
<1>5. ASSUME files' = [files EXCEPT ![f] = Truncate(@)],
             settled' = [settled EXCEPT ![f] = IF Uploading(f) = {} THEN Writing ELSE Unknown],
             rq' = [d \in Clients |->
                        CASE d = c -> [began EXCEPT !.pc = "copy"]
                          [] d # c /\ rq[d].pc = "copy" /\ rq[d].path = f -> [rq[d] EXCEPT !.expect = Unknown]
                          [] OTHER -> rq[d]]
      PROVE  RuntimeInv'
  <2>1. rq'[c] = [began EXCEPT !.pc = "copy"]
    BY <1>5
  <2>2. ASSUME NEW d \in Clients, d # c
        PROVE  rq'[d] = IF rq[d].pc = "copy" /\ rq[d].path = f THEN [rq[d] EXCEPT !.expect = Unknown] ELSE rq[d]
    BY <1>5, <2>2
  <2>3. /\ rq'[c] \in Requests /\ Up(c)' /\ ~Down(c)' /\ rq'[c].path = f /\ rq'[c].pos = 0 /\ rq'[c].data = data
    BY <1>2, <2>1 DEF Requests, Up, Down
  <2>4. ASSUME NEW d \in Clients, d # c
        PROVE  /\ rq'[d] \in Requests /\ rq'[d].pc = rq[d].pc /\ rq'[d].kind = rq[d].kind
               /\ rq'[d].path = rq[d].path /\ rq'[d].data = rq[d].data /\ rq'[d].pos = rq[d].pos
               /\ rq'[d].code = rq[d].code /\ rq'[d].seen = rq[d].seen
               /\ rq'[d].expect = IF rq[d].pc = "copy" /\ rq[d].path = f THEN Unknown ELSE rq[d].expect
    <3>1. rq[d] \in Requests /\ Unknown \in Seq(Text)
      BY Sentinels DEF FileTypes
    <3> QED
      BY <2>2, <2>4, <3>1 DEF Requests
  <2>5. FileTypes'
    <3>1. rq' \in [Clients -> Requests]
      BY <1>5, <2>3, <2>4
    <3>2. files' \in [Resolved -> Seq(Text)]
      BY <1>5, <<>> \in Seq(Text) DEF FileTypes, Truncate
    <3>3. settled' \in [Resolved -> Seq(Text)]
      BY <1>5, Sentinels DEF FileTypes
    <3> QED
      BY <3>1, <3>2, <3>3 DEF FileTypes
  <2>6. ASSUME NEW g PROVE Uploading(g)' = Uploading(g) \cup (IF g = f THEN {c} ELSE {})
    BY <1>3, <2>3, <2>4 DEF Uploading, Up
  <2>7. FileInv'
    <3> SUFFICES ASSUME NEW g \in Resolved
                 PROVE  /\ settled'[g] \notin Unsure => Uploading(g)' = {} /\ files'[g] = settled'[g]
                        /\ settled'[g] = Writing => \A d \in Uploading(g)' :
                             Uploading(g)' = {d} /\ FirstChunks(files'[g], rq'[d].data, rq'[d].pos)
      BY DEF FileInv, Unsure, Unknown, Writing, FirstChunks
    <3>1. CASE g = f
      <4>1. /\ files'[g] = <<>>
            /\ settled'[g] = IF Uploading(f) = {} THEN Writing ELSE Unknown
        BY <1>5, <3>1 DEF FileTypes, Truncate
      <4>2. Writing # Unknown
        BY DEF Writing, Unknown
      <4>3. Uploading(f) = {} => Uploading(g)' = {c}
        BY <2>6, <3>1
      <4>4. FirstChunks(files'[g], rq'[c].data, rq'[c].pos)
        BY <1>1, <2>3, <4>1 DEF FirstChunks
      <4> QED
        BY <4>1, <4>2, <4>3, <4>4 DEF Unsure
    <3>2. CASE g # f
      <4>1. files'[g] = files[g] /\ settled'[g] = settled[g] /\ Uploading(g)' = Uploading(g)
        BY <1>5, <2>6, <3>2 DEF FileTypes
      <4>2. \A d \in Uploading(g) : d \in Clients /\ d # c
        BY <1>3 DEF Uploading
      <4>3. \A d \in Uploading(g) : rq'[d].data = rq[d].data /\ rq'[d].pos = rq[d].pos
        BY <2>4, <4>2
      <4> QED
        BY <4>1, <4>3 DEF FileInv
    <3> QED
      BY <3>1, <3>2
  <2>8. DownloadInv'
    <3> SUFFICES ASSUME NEW d \in Clients
                 PROVE  /\ Up(d)' => rq'[d].pos <= Len(rq'[d].data)
                        /\ Down(d)' => rq'[d].path \in Resolved
                        /\ Down(d)' /\ rq'[d].expect \notin Unsure =>
                             /\ settled'[rq'[d].path] = rq'[d].expect
                             /\ FirstChunks(rq'[d].seen, rq'[d].expect, rq'[d].pos)
      BY DEF DownloadInv, Unsure, Unknown, Writing, FirstChunks, Resolved
    <3>1. CASE d = c
      BY <1>1, <2>3, <3>1
    <3>2. CASE d # c
      <4>1. (Up(d)' <=> Up(d)) /\ (Down(d)' <=> Down(d))
        BY <2>4, <3>2 DEF Up, Down
      <4>2. CASE rq[d].pc = "copy" /\ rq[d].path = f
        BY <2>4, <3>2, <4>1, <4>2 DEF DownloadInv, Unsure
      <4>3. CASE ~(rq[d].pc = "copy" /\ rq[d].path = f)
        <5>1. Down(d) => rq[d].path \in Resolved /\ settled'[rq[d].path] = settled[rq[d].path]
          BY <1>5, <4>3 DEF DownloadInv, Down, FileTypes
        <5> QED
          BY <2>4, <3>2, <4>1, <4>3, <5>1 DEF DownloadInv
      <4> QED
        BY <4>2, <4>3
    <3> QED
      BY <3>1, <3>2
  <2>9. FileReadsBack'
    BY <2>3, <2>4 DEF FileReadsBack, Up, Unknown, Writing
  <2> QED
    BY <2>5, <2>7, <2>8, <2>9
<1>6. CASE ~Safe(<<name[Len(name)]>>)
  <2> DEFINE code == 403
  <2>1. /\ rq' = [rq EXCEPT ![c] = [began EXCEPT !.pc = "replied", !.code = code]]
        /\ UNCHANGED <<files, settled>> /\ code \in Nat
    BY <1>6 DEF UploadBegin, f, began
  <2> HIDE DEF code
  <2> QED
    BY <1>4, <2>1
<1>7. CASE Safe(<<name[Len(name)]>>) /\ (f = Root \/ ~w)
  <2> DEFINE code == 500
  <2>1. /\ rq' = [rq EXCEPT ![c] = [began EXCEPT !.pc = "replied", !.code = code]]
        /\ UNCHANGED <<files, settled>> /\ code \in Nat
    BY <1>7 DEF UploadBegin, f, began
  <2> HIDE DEF code
  <2> QED
    BY <1>4, <2>1
<1>8. CASE Safe(<<name[Len(name)]>>) /\ f # Root /\ w
  BY <1>5, <1>8 DEF UploadBegin, f, began
<1> QED
  BY <1>6, <1>7, <1>8

\* a request that ends, or that begins to read, disturbs no other one
LEMMA OneRequest ==
  ASSUME RuntimeInv, NEW c \in Clients, NEW r \in Requests, rq' = [rq EXCEPT ![c] = r],
         ~Up(c), r.pc = "copy" => r.kind # "upload", UNCHANGED <<files, settled>>,
         r.pc = "copy" /\ r.kind = "download" =>
           /\ r.path \in Resolved
           /\ r.expect \notin Unsure =>
                settled[r.path] = r.expect /\ FirstChunks(r.seen, r.expect, r.pos),
         r.pc = "replied" /\ r.kind = "download" /\ r.code = 200 /\ r.expect \notin Unsure
           => r.seen = r.expect
  PROVE  RuntimeInv'
<1>1. rq'[c] = r /\ \A d \in Clients : d # c => rq'[d] = rq[d]
  BY DEF RuntimeInv, FileTypes
<1>2. FileTypes'
  BY DEF RuntimeInv, FileTypes
<1>3. \A g : Uploading(g)' = Uploading(g) /\ c \notin Uploading(g)
  BY <1>1 DEF Uploading, Up
<1>4. FileInv'
  <2>1. \A g : \A d \in Uploading(g) : d \in Clients /\ rq'[d] = rq[d]
    BY <1>1, <1>3 DEF Uploading
  <2> QED
    BY <1>3, <2>1 DEF RuntimeInv, FileInv
<1>5. DownloadInv'
  BY <1>1 DEF RuntimeInv, DownloadInv, Up, Down
<1>6. FileReadsBack'
  BY <1>1 DEF RuntimeInv, FileReadsBack, Unsure, Unknown, Writing
<1> QED
  BY <1>2, <1>4, <1>5, <1>6 DEF RuntimeInv

\* download up to os.Open, list and exists: a download begins with what is settled
LEMMA ReadKeeps ==
  ASSUME RuntimeInv, NEW c \in Clients, NEW p \in Paths, NEW kind \in {"download", "list", "exists"},
         Read(c, p, kind)
  PROVE  RuntimeInv'
<1> DEFINE f == Clean(p)
           began == [NoReq EXCEPT !.kind = kind, !.path = f]
           there == f # Root /\ f \in Resolved /\ files[f] # Absent
<1>1. f \in Places
  BY DEF Places
<1> HIDE DEF f
<1>2. /\ began \in Requests /\ began.kind = kind /\ began.path = f /\ began.pos = 0
      /\ began.expect = Absent /\ began.seen = <<>>
  BY <1>1, NoReqTyped DEF Requests, NoReq
<1>3. ~Up(c) /\ UNCHANGED <<files, settled>>
  BY DEF Read, Up
<1> HIDE DEF began
<1>4. ASSUME NEW code \in Nat, NEW what \in Seq(Text),
             code = 200 => kind # "download",
             rq' = [rq EXCEPT ![c] = [began EXCEPT !.pc = "replied", !.code = code, !.seen = what]]
      PROVE  RuntimeInv'
  <2> DEFINE r == [began EXCEPT !.pc = "replied", !.code = code, !.seen = what]
  <2>2. r \in Requests /\ r.pc = "replied" /\ r.kind = kind /\ r.code = code
    BY <1>2 DEF Requests
  <2> HIDE DEF r
  <2>3. rq' = [rq EXCEPT ![c] = r]
    BY <1>4 DEF r
  <2> QED
    BY <1>3, <1>4, <2>2, <2>3, OneRequest
<1>5. ASSUME kind = "download", there,
             rq' = [rq EXCEPT ![c] = [began EXCEPT !.pc = "copy",
                                        !.expect = IF Uploading(f) = {} THEN settled[f] ELSE Unknown]]
      PROVE  RuntimeInv'
  <2> DEFINE e == IF Uploading(f) = {} THEN settled[f] ELSE Unknown
             r == [began EXCEPT !.pc = "copy", !.expect = e]
  <2>1. f \in Resolved /\ e \in Seq(Text)
    BY <1>5, Sentinels DEF RuntimeInv, FileTypes
  <2>2. e \notin Unsure => settled[f] = e
    BY DEF Unsure
  <2> HIDE DEF e
  <2>3. /\ r \in Requests /\ r.pc = "copy" /\ r.kind = kind /\ r.path = f /\ r.expect = e
        /\ r.seen = <<>> /\ r.pos = 0
    BY <1>2, <2>1 DEF Requests
  <2>4. FirstChunks(r.seen, r.expect, r.pos)
    BY <2>1, <2>3 DEF FirstChunks
  <2> HIDE DEF r
  <2>5. rq' = [rq EXCEPT ![c] = r]
    BY <1>5 DEF r, e
  <2> QED
    BY <1>3, <1>5, <2>1, <2>2, <2>3, <2>4, <2>5, OneRequest
<1> DEFINE Tell(code, what) ==
             rq' = [rq EXCEPT ![c] = [began EXCEPT !.pc = "replied", !.code = code, !.seen = what]]
<1>6. CASE ~Safe(p)
  <2> DEFINE code == 403
             what == <<>>
  <2>1. Tell(code, what) /\ code \in Nat /\ code # 200 /\ what \in Seq(Text)
    BY <1>6 DEF Read, f, began
  <2> HIDE DEF code, what
  <2> QED
    BY <1>4, <2>1
<1>7. CASE Safe(p) /\ kind = "exists"
  <2> DEFINE code == 200
             what == IF f = Root \/ there THEN <<"yes">> ELSE <<"no">>
  <2>1. Tell(code, what) /\ code \in Nat
    BY <1>7 DEF Read, f, began
  <2>2. what \in Seq(Text)
    BY Sentinels
  <2> HIDE DEF code, what
  <2> QED
    BY <1>4, <1>7, <2>1, <2>2
<1>8. CASE Safe(p) /\ kind = "list"
  <2> DEFINE code == IF f = Root THEN 200 ELSE 404
             what == <<>>
  <2>1. Tell(code, what) /\ what \in Seq(Text)
    BY <1>8 DEF Read, f, began
  <2>2. code \in Nat
    OBVIOUS
  <2> HIDE DEF code, what
  <2> QED
    BY <1>4, <1>8, <2>1, <2>2
<1>9. CASE Safe(p) /\ kind = "download" /\ ~there
  <2> DEFINE code == 404
             what == <<>>
  <2>1. Tell(code, what) /\ code \in Nat /\ code # 200 /\ what \in Seq(Text)
    BY <1>9 DEF Read, f, began
  <2> HIDE DEF code, what
  <2> QED
    BY <1>4, <2>1
<1>10. CASE Safe(p) /\ kind = "download" /\ there
  <2>1. rq' = [rq EXCEPT ![c] = [began EXCEPT !.pc = "copy",
                                   !.expect = IF Uploading(f) = {} THEN settled[f] ELSE Unknown]]
    BY <1>10 DEF Read, f, began
  <2> QED
    BY <1>5, <1>10, <2>1
<1> QED
  BY <1>6, <1>7, <1>8, <1>9, <1>10

\* a client that goes on to another request
LEMMA NextRequestKeeps ==
  ASSUME RuntimeInv, NEW c \in Clients, NextRequest(c)
  PROVE  RuntimeInv'
<1>1. ~Up(c) /\ rq' = [rq EXCEPT ![c] = NoReq] /\ UNCHANGED <<files, settled>> /\ NoReq.pc = "idle"
  BY DEF NextRequest, Up, NoReq
<1> QED
  BY <1>1, NoReqTyped, OneRequest

\* a download reads the next chunk of a file that has not changed since it began,
\* or ends where the file ends
LEMMA DownloadCopyKeeps ==
  ASSUME RuntimeInv, NEW c \in Clients, DownloadCopy(c)
  PROVE  RuntimeInv'
<1> DEFINE old == rq[c]
<1>1. /\ ~Up(c) /\ Down(c) /\ UNCHANGED <<files, settled>> /\ old \in Requests
      /\ old.path \in Resolved /\ files[old.path] \in Seq(Text)
  BY DEF DownloadCopy, Up, Down, RuntimeInv, DownloadInv, FileTypes
<1>2. ASSUME old.expect \notin Unsure
      PROVE  /\ files[old.path] = old.expect /\ settled[old.path] = old.expect
             /\ FirstChunks(old.seen, old.expect, old.pos)
  BY <1>1, <1>2 DEF RuntimeInv, DownloadInv, FileInv
<1>3. CASE old.pos < Len(files[old.path])
  <2> DEFINE r == [old EXCEPT !.pos = @ + 1, !.seen = Append(@, files[old.path][old.pos + 1])]
  <2>1. old.pos + 1 \in 1..Len(files[old.path]) /\ old.pos \in Nat /\ old.seen \in Seq(Text)
    BY <1>1, <1>3 DEF Requests
  <2>2. files[old.path][old.pos + 1] \in Text
    BY <1>1, <2>1
  <2>3. /\ r \in Requests /\ r.pc = old.pc /\ r.kind = old.kind /\ r.path = old.path
        /\ r.expect = old.expect /\ r.pos = old.pos + 1
        /\ r.seen = Append(old.seen, files[old.path][old.pos + 1])
    <3> DEFINE n == old.pos + 1
               more == Append(old.seen, files[old.path][old.pos + 1])
    <3>1. n \in Nat /\ more \in Seq(Text) /\ r = [old EXCEPT !.pos = n, !.seen = more]
      BY <1>1, <2>1, <2>2 DEF Requests
    <3> HIDE DEF n, more, r, old
    <3>2. /\ r \in Requests /\ r.pc = old.pc /\ r.kind = old.kind /\ r.path = old.path
          /\ r.expect = old.expect /\ r.pos = n /\ r.seen = more
      BY <1>1, <3>1 DEF Requests
    <3> QED
      BY <3>2 DEF n, more
  <2>4. rq' = [rq EXCEPT ![c] = r]
    BY <1>3 DEF DownloadCopy, RuntimeInv, FileTypes
  <2> HIDE DEF r
  <2>5. ASSUME r.expect \notin Unsure
        PROVE  settled[r.path] = r.expect /\ FirstChunks(r.seen, r.expect, r.pos)
    BY <1>2, <2>1, <2>2, <2>3, <2>5 DEF FirstChunks
  <2> QED
    BY <1>1, <2>3, <2>4, <2>5, OneRequest DEF Down
<1>4. CASE ~(old.pos < Len(files[old.path]))
  <2> DEFINE r == [old EXCEPT !.pc = "replied", !.code = 200]
  <2>1. /\ r \in Requests /\ r.pc = "replied" /\ r.kind = old.kind /\ r.path = old.path
        /\ r.expect = old.expect /\ r.pos = old.pos /\ r.seen = old.seen
    <3> DEFINE code == 200
    <3>1. code \in Nat /\ r = [old EXCEPT !.pc = "replied", !.code = code]
      OBVIOUS
    <3> HIDE DEF code, r, old
    <3> QED
      BY <1>1, <3>1 DEF Requests
  <2>2. rq' = [rq EXCEPT ![c] = r]
    BY <1>4 DEF DownloadCopy, Reply, RuntimeInv, FileTypes
  <2> HIDE DEF r
  <2>3. ASSUME r.expect \notin Unsure PROVE r.seen = r.expect
    <3>1. FirstChunks(r.seen, r.expect, Len(r.expect)) /\ r.seen \in Seq(Text) /\ r.expect \in Seq(Text)
      BY <1>1, <1>2, <1>4, <2>1, <2>3 DEF FirstChunks, Requests
    <3> QED
      BY <3>1 DEF FirstChunks
  <2> QED
    BY <1>1, <2>1, <2>2, <2>3, OneRequest
<1> QED
  BY <1>3, <1>4

\* a write at an offset: at the end of the file it appends
LEMMA WriteAtAppends ==
  ASSUME NEW content \in Seq(Text), NEW i \in Nat \ {0}, NEW chunk \in Text
  PROVE  /\ WriteAt(content, i, chunk) \in Seq(Text)
         /\ i = Len(content) + 1 => WriteAt(content, i, chunk) = Append(content, chunk)
<1> DEFINE n == IF i > Len(content) THEN i ELSE Len(content)
<1>1. n \in Nat
  OBVIOUS
<1>0. "zero" \in Text
  BY DEF Text
<1>2. \A j \in 1..n : (IF j = i THEN chunk ELSE IF j <= Len(content) THEN content[j] ELSE "zero") \in Text
  BY <1>0, <1>1
<1> HIDE DEF n
<1>3. [j \in 1..n |-> IF j = i THEN chunk ELSE IF j <= Len(content) THEN content[j] ELSE "zero"] \in Seq(Text)
  BY <1>1, <1>2
<1>4. WriteAt(content, i, chunk) \in Seq(Text)
  BY <1>3 DEF WriteAt, n
<1>5. ASSUME i = Len(content) + 1 PROVE WriteAt(content, i, chunk) = Append(content, chunk)
  <2>1. n = Len(content) + 1
    BY <1>5 DEF n
  <2>2. WriteAt(content, i, chunk) =
          [j \in 1..(Len(content) + 1) |-> IF j = i THEN chunk ELSE IF j <= Len(content) THEN content[j] ELSE "zero"]
    BY <2>1 DEF WriteAt, n
  <2> QED
    BY <1>5, <2>2
<1> QED
  BY <1>4, <1>5

\* an upload writes its next chunk, fails or ends: alone on its file it leaves
\* there what it was given, and nobody reads a file that is being written and
\* takes it for a settled one
LEMMA UploadCopyKeeps ==
  ASSUME RuntimeInv, NEW c \in Clients, UploadCopy(c)
  PROVE  RuntimeInv'
<1> USE DEF RuntimeInv
<1> DEFINE old == rq[c]
           f == old.path
<1>1. /\ Up(c) /\ ~Down(c) /\ old \in Requests /\ old.data \in Seq(Text) /\ old.pos \in Nat
      /\ old.pos <= Len(old.data)
  BY DEF UploadCopy, Up, Down, DownloadInv, FileTypes, Requests
<1>2. \A g : (c \in Uploading(g) <=> g = f)
  BY <1>1 DEF Uploading, Up
<1>3. f \in Resolved => settled[f] \in Unsure
  BY <1>2 DEF FileInv
<1>4. \A d \in Clients : Down(d) /\ rq[d].expect \notin Unsure => rq[d].path # f
  BY <1>3 DEF DownloadInv
<1>5. CASE /\ old.pos < Len(old.data)
           /\ files' = [files EXCEPT ![f] = WriteAt(@, old.pos + 1, old.data[old.pos + 1])]
           /\ rq' = [rq EXCEPT ![c].pos = @ + 1]
           /\ UNCHANGED settled
  <2> DEFINE r == [old EXCEPT !.pos = @ + 1]
             chunk == old.data[old.pos + 1]
  <2>1. /\ r.pc = old.pc /\ r.kind = old.kind /\ r.path = f /\ r.data = old.data /\ r.pos = old.pos + 1
    BY <1>1 DEF Requests
  <2>2. r \in Requests
    <3> DEFINE n == old.pos + 1
    <3>1. n \in Nat /\ r = [old EXCEPT !.pos = n]
      BY <1>1 DEF Requests
    <3> HIDE DEF n, r, old
    <3> QED
      BY <1>1, <3>1 DEF Requests
  <2>3. rq'[c] = r /\ rq' \in [Clients -> Requests] /\ \A d \in Clients : d # c => rq'[d] = rq[d]
    BY <1>5, <2>2 DEF FileTypes
  <2>4. chunk \in Text /\ old.pos + 1 \in Nat \ {0}
    BY <1>1, <1>5
  <2> HIDE DEF r
  <2>5. ASSUME NEW g \in Resolved
        PROVE  files'[g] = IF g = f THEN WriteAt(files[g], old.pos + 1, chunk) ELSE files[g]
    BY <1>5 DEF FileTypes
  <2>6. FileTypes'
    <3>1. ASSUME NEW g \in Resolved PROVE files'[g] \in Seq(Text)
      <4>1. files[g] \in Seq(Text)
        BY DEF FileTypes
      <4> DEFINE k == old.pos + 1
      <4>2. k \in Nat \ {0} /\ files'[g] = IF g = f THEN WriteAt(files[g], k, chunk) ELSE files[g]
        BY <2>4, <2>5
      <4> HIDE DEF k, chunk
      <4>3. WriteAt(files[g], k, chunk) \in Seq(Text)
        BY <2>4, <4>1, <4>2, WriteAtAppends
      <4> QED
        BY <4>1, <4>2, <4>3
    <3>2. files' \in [Resolved -> Seq(Text)]
      BY <1>5, <3>1 DEF FileTypes
    <3> QED
      BY <1>5, <2>3, <3>2 DEF FileTypes
  <2>7. \A g : Uploading(g)' = Uploading(g)
    BY <2>1, <2>3 DEF Uploading
  <2>8. FileInv'
    <3> SUFFICES ASSUME NEW g \in Resolved
                 PROVE  /\ settled[g] \notin Unsure => Uploading(g) = {} /\ files'[g] = settled[g]
                        /\ settled[g] = Writing => \A d \in Uploading(g) :
                             Uploading(g) = {d} /\ FirstChunks(files'[g], rq'[d].data, rq'[d].pos)
      BY <1>5, <2>7 DEF FileInv
    <3>1. CASE g = f
      <4>1. ASSUME settled[g] = Writing, NEW d \in Uploading(g)
            PROVE  Uploading(g) = {d} /\ FirstChunks(files'[g], rq'[d].data, rq'[d].pos)
        <5>1. Uploading(g) = {d} /\ d = c /\ FirstChunks(files[g], old.data, old.pos)
          BY <1>2, <3>1, <4>1 DEF FileInv
        <5>2. files[g] \in Seq(Text) /\ Len(files[g]) = old.pos
          BY <5>1 DEF FirstChunks, FileTypes
        <5>3. files'[g] = Append(files[g], chunk)
          BY <2>4, <2>5, <3>1, <5>2, WriteAtAppends
        <5>4. FirstChunks(files'[g], old.data, old.pos + 1)
          BY <1>1, <1>5, <2>4, <5>1, <5>2, <5>3 DEF FirstChunks
        <5> QED
          BY <2>1, <2>3, <5>1, <5>4
      <4> QED
        BY <1>3, <3>1, <4>1
    <3>2. CASE g # f
      <4>1. \A d \in Uploading(g) : d \in Clients /\ rq'[d] = rq[d]
        BY <1>2, <2>3, <3>2 DEF Uploading
      <4> QED
        BY <2>5, <3>2, <4>1 DEF FileInv
    <3> QED
      BY <3>1, <3>2
  <2>9. DownloadInv'
    BY <1>1, <1>5, <2>1, <2>3 DEF DownloadInv, Up, Down
  <2>10. FileReadsBack'
    BY <1>1, <2>1, <2>3 DEF FileReadsBack, Up
  <2> QED
    BY <2>6, <2>8, <2>9, <2>10
<1>6. ASSUME NEW code \in Nat, NEW s \in Seq(Text),
             settled' = [settled EXCEPT ![f] = s], UNCHANGED files,
             rq' = [rq EXCEPT ![c].pc = "replied", ![c].code = code],
             f \in Resolved => s \in Unsure \/ (settled[f] = Writing /\ s = old.data /\ old.pos = Len(old.data)),
             f \in Resolved /\ s = Writing => settled[f] = Writing
      PROVE  RuntimeInv'
  <2> DEFINE r == [old EXCEPT !.pc = "replied", !.code = code]
  <2>1. /\ r \in Requests /\ r.pc = "replied" /\ r.kind = "upload"
    BY <1>1 DEF Requests, Up
  <2>2. rq'[c] = r /\ rq' \in [Clients -> Requests] /\ \A d \in Clients : d # c => rq'[d] = rq[d]
    BY <1>6, <2>1 DEF FileTypes
  <2> HIDE DEF r
  <2>3. FileTypes'
    BY <1>6, <2>2 DEF FileTypes
  <2>4. \A g : Uploading(g)' = Uploading(g) \ {c}
    BY <2>1, <2>2 DEF Uploading
  <2>5. \A g \in Resolved : settled'[g] = IF g = f THEN s ELSE settled[g]
    BY <1>6 DEF FileTypes
  <2>6. FileInv'
    <3> SUFFICES ASSUME NEW g \in Resolved
                 PROVE  /\ settled'[g] \notin Unsure => Uploading(g)' = {} /\ files[g] = settled'[g]
                        /\ settled'[g] = Writing => \A d \in Uploading(g)' :
                             Uploading(g)' = {d} /\ FirstChunks(files[g], rq'[d].data, rq'[d].pos)
      BY <1>6 DEF FileInv
    <3>1. CASE g = f
      <4>1. settled[g] = Writing => Uploading(g) = {c} /\ FirstChunks(files[g], old.data, old.pos)
        BY <1>2, <3>1 DEF FileInv
      <4>2. ASSUME s \notin Unsure PROVE Uploading(g)' = {} /\ files[g] = s
        <5>1. Uploading(g) = {c} /\ FirstChunks(files[g], s, Len(s)) /\ s \in Seq(Text) /\ files[g] \in Seq(Text)
          BY <1>6, <3>1, <4>1, <4>2 DEF FileTypes
        <5>2. files[g] = s
          BY <5>1 DEF FirstChunks
        <5> QED
          BY <2>4, <5>1, <5>2
      <4>3. ASSUME s = Writing PROVE Uploading(g)' = {}
        BY <1>6, <2>4, <3>1, <4>1, <4>3
      <4> QED
        BY <2>5, <3>1, <4>2, <4>3
    <3>2. CASE g # f
      <4>1. Uploading(g)' = Uploading(g) /\ \A d \in Uploading(g) : d \in Clients /\ rq'[d] = rq[d]
        BY <1>2, <2>2, <2>4, <3>2 DEF Uploading
      <4> QED
        BY <2>5, <3>2, <4>1 DEF FileInv
    <3> QED
      BY <3>1, <3>2
  <2>7. DownloadInv'
    <3> SUFFICES ASSUME NEW d \in Clients
                 PROVE  /\ Up(d)' => rq'[d].pos <= Len(rq'[d].data)
                        /\ Down(d)' => rq'[d].path \in Resolved
                        /\ Down(d)' /\ rq'[d].expect \notin Unsure =>
                             /\ settled'[rq'[d].path] = rq'[d].expect
                             /\ FirstChunks(rq'[d].seen, rq'[d].expect, rq'[d].pos)
      BY DEF DownloadInv, Unsure, Unknown, Writing, FirstChunks, Resolved
    <3>1. CASE d = c
      BY <2>1, <2>2, <3>1 DEF Up, Down
    <3>2. CASE d # c
      BY <1>4, <2>2, <2>5, <3>2 DEF DownloadInv, Up, Down
    <3> QED
      BY <3>1, <3>2
  <2>8. FileReadsBack'
    BY <2>1, <2>2 DEF FileReadsBack, Unknown, Writing
  <2> QED
    BY <2>3, <2>6, <2>7, <2>8
<1>7. CASE /\ old.pos < Len(old.data) /\ settled' = [settled EXCEPT ![f] = Unknown]
           /\ Reply(c, 500) /\ UNCHANGED files
  <2> DEFINE code == 500
  <2>1. code \in Nat /\ rq' = [rq EXCEPT ![c].pc = "replied", ![c].code = code]
    BY <1>7 DEF Reply
  <2>2. Unknown \in Unsure /\ Unknown # Writing /\ Unknown \in Seq(Text)
    BY Sentinels DEF Unsure
  <2> HIDE DEF code
  <2> QED
    BY <1>6, <1>7, <2>1, <2>2
<1>8. CASE /\ old.pos = Len(old.data)
           /\ settled' = [settled EXCEPT ![f] = IF @ = Writing THEN old.data ELSE @]
           /\ Reply(c, 200) /\ UNCHANGED files
  <2> DEFINE code == 200
             s == IF f \in Resolved /\ settled[f] # Writing THEN settled[f] ELSE old.data
  <2>1. code \in Nat /\ rq' = [rq EXCEPT ![c].pc = "replied", ![c].code = code]
    BY <1>8 DEF Reply
  <2>2. s \in Seq(Text)
    BY <1>1 DEF FileTypes
  <2>3. settled' = [settled EXCEPT ![f] = s]
    BY <1>8 DEF FileTypes
  <2>4. /\ f \in Resolved => s \in Unsure \/ (settled[f] = Writing /\ s = old.data)
        /\ f \in Resolved /\ s = Writing => settled[f] = Writing
    BY <1>3
  <2> HIDE DEF code, s
  <2> QED
    BY <1>6, <1>8, <2>1, <2>2, <2>3, <2>4
<1> QED
  BY <1>5, <1>7, <1>8 DEF UploadCopy

\* the invariant holds of an empty root
LEMMA RuntimeStart == RuntimeInit => RuntimeInv
<1> SUFFICES ASSUME RuntimeInit PROVE RuntimeInv
  OBVIOUS
<1>1. FileTypes
  BY NoReqTyped, Sentinels DEF RuntimeInit, FileTypes
<1>2. \A c \in Clients : rq[c].pc = "idle"
  BY DEF RuntimeInit, NoReq
<1>3. \A g : Uploading(g) = {}
  BY <1>2 DEF Uploading
<1>4. FileInv
  BY <1>3 DEF FileInv, RuntimeInit
<1> QED
  BY <1>1, <1>2, <1>4 DEF RuntimeInv, DownloadInv, FileReadsBack, Up, Down

\* a step of something else leaves the files alone
LEMMA RuntimeUnchanged == RuntimeInv /\ UNCHANGED fileVars => RuntimeInv'
BY DEF RuntimeInv, fileVars, FileTypes, FileInv, DownloadInv, FileReadsBack, Uploading, Up, Down

\* and every step keeps it; only the file handlers touch files
LEMMA NextRuntime == RuntimeInv /\ [Next]_vars => RuntimeInv'
<1> SUFFICES ASSUME RuntimeInv, [Next]_vars PROVE RuntimeInv'
  OBVIOUS
<1>1. CASE UNCHANGED fileVars
  BY <1>1, RuntimeUnchanged
<1>2. ASSUME NEW c \in Clients, FileRequest(c) PROVE RuntimeInv'
  BY <1>2, UploadBeginKeeps, ReadKeeps DEF FileRequest
<1>3. ASSUME NEW c \in Clients, FileStep(c) PROVE RuntimeInv'
  BY <1>3, UploadCopyKeeps, DownloadCopyKeeps, NextRequestKeeps DEF FileStep
<1> QED
  BY <1>1, <1>2, <1>3 DEF Next, Build, CreateContainer, Execute, vars, fileVars

\* Whatever clients upload and download at once: a download that no upload of the
\* file disturbs returns what the last upload sent (upload, download).
THEOREM FilesReadBack == Spec => []FileReadsBack
<1>1. Init => RuntimeInv
  BY RuntimeStart DEF Init
<1>2. RuntimeInv /\ [Next]_vars => RuntimeInv'
  BY NextRuntime
<1>3. RuntimeInv => FileReadsBack
  BY DEF RuntimeInv
<1> QED
  BY <1>1, <1>2, <1>3, PTL DEF Spec

(***************************************************************************)
(* Command lines.  Each fold of the model is an instance of Folding.       *)
(***************************************************************************)
CharStep(p, a, c) == Char(a, c)
QuoteStep(p, s, c) == IF c = "'" THEN s \o <<"'", "\\", "'", "'">> ELSE Append(s, c)
EscapeStep(chars, s, c) == IF c \in chars THEN s \o <<"\\", c>> ELSE Append(s, c)
CommandStep(style, s, w) == s \o QuoteWord(w, style) \o <<" ">>

Scanning == INSTANCE Folding WITH Op <- CharStep
Quoting == INSTANCE Folding WITH Op <- QuoteStep
Escaping == INSTANCE Folding WITH Op <- EscapeStep
Joining == INSTANCE Folding WITH Op <- CommandStep

Scan(a, s) == FoldLeft(Char, a, s)
Quoted(word) ==
  FoldLeft(LAMBDA s, c : IF c = "'" THEN s \o <<"'", "\\", "'", "'">> ELSE Append(s, c), <<>>, word)

\* splitArgs's loop is a fold of Char
LEMMA ScanFold == ASSUME NEW a, NEW s PROVE Scan(a, s) = Scanning!Fold(0, a, s)
BY DEF Scan, FoldLeft, MapThenFoldSet, Max, CharStep,
       Scanning!Fold, Scanning!MapThenFoldSet, Scanning!Top

\* quoting a word with single quotes is one
LEMMA QuotedFold == ASSUME NEW s PROVE Quoted(s) = Quoting!Fold(0, <<>>, s)
BY DEF Quoted, FoldLeft, MapThenFoldSet, Max, QuoteStep,
       Quoting!Fold, Quoting!MapThenFoldSet, Quoting!Top

\* escaping a word is one
LEMMA EscapedFold == ASSUME NEW s, NEW chars PROVE Escaped(s, chars) = Escaping!Fold(chars, <<>>, s)
BY DEF Escaped, FoldLeft, MapThenFoldSet, Max, EscapeStep,
       Escaping!Fold, Escaping!MapThenFoldSet, Escaping!Top

\* and joining the quoted words is one
LEMMA CommandFold == ASSUME NEW s, NEW style PROVE Command(s, style) = Joining!Fold(style, <<>>, s)
BY DEF Command, FoldLeft, MapThenFoldSet, Max, CommandStep,
       Joining!Fold, Joining!MapThenFoldSet, Joining!Top

\* the loop over no characters, one, two pieces and one more
LEMMA ScanParts ==
  /\ \A a : Scan(a, <<>>) = a
  /\ \A a, c : Scan(a, <<c>>) = Char(a, c)
  /\ \A a : \A s, t \in Seq(Text) : Scan(a, s \o t) = Scan(Scan(a, s), t)
  /\ \A a : \A s \in Seq(Text), c \in Text : Scan(a, Append(s, c)) = Char(Scan(a, s), c)
<1>1. ASSUME NEW a PROVE Scan(a, <<>>) = a
  BY ScanFold, Scanning!FoldEmpty
<1>2. ASSUME NEW a, NEW c PROVE Scan(a, <<c>>) = Char(a, c)
  BY ScanFold, Scanning!FoldOne DEF CharStep
<1>3. ASSUME NEW a, NEW s \in Seq(Text), NEW t \in Seq(Text) PROVE Scan(a, s \o t) = Scan(Scan(a, s), t)
  BY ScanFold, Scanning!FoldConcat
<1>4. ASSUME NEW a, NEW s \in Seq(Text), NEW c \in Text PROVE Scan(a, Append(s, c)) = Char(Scan(a, s), c)
  BY ScanFold, Scanning!FoldAppend DEF CharStep
<1> QED
  BY <1>1, <1>2, <1>3, <1>4

\* single quotes around one character more
LEMMA QuotedParts ==
  /\ Quoted(<<>>) = <<>>
  /\ \A s \in Seq(Text), c \in Text : Quoted(Append(s, c)) = QuoteStep(0, Quoted(s), c)
<1> DEFINE nil == <<>>
<1>1. ASSUME NEW s PROVE Quoted(s) = Quoting!Fold(0, nil, s)
  BY QuotedFold
<1> HIDE DEF nil
<1>2. Quoted(nil) = nil
  BY QuotedFold, Quoting!FoldEmpty DEF nil
<1>3. ASSUME NEW s \in Seq(Text), NEW c \in Text PROVE Quoted(Append(s, c)) = QuoteStep(0, Quoted(s), c)
  BY <1>1, Quoting!FoldAppend
<1> QED
  BY <1>2, <1>3 DEF nil

\* escapes in one character more
LEMMA EscapedParts ==
  ASSUME NEW chars
  PROVE  /\ Escaped(<<>>, chars) = <<>>
         /\ \A s \in Seq(Text), c \in Text : Escaped(Append(s, c), chars) = EscapeStep(chars, Escaped(s, chars), c)
<1> DEFINE nil == <<>>
<1>1. ASSUME NEW s PROVE Escaped(s, chars) = Escaping!Fold(chars, nil, s)
  BY EscapedFold
<1> HIDE DEF nil
<1>2. Escaped(nil, chars) = nil
  BY EscapedFold, Escaping!FoldEmpty DEF nil
<1>3. ASSUME NEW s \in Seq(Text), NEW c \in Text
      PROVE  Escaped(Append(s, c), chars) = EscapeStep(chars, Escaped(s, chars), c)
  BY <1>1, Escaping!FoldAppend
<1> QED
  BY <1>2, <1>3 DEF nil

\* a command line with one argument more
LEMMA CommandParts ==
  ASSUME NEW style
  PROVE  /\ Command(<<>>, style) = <<>>
         /\ \A s \in Seq(Seq(Text)), w \in Seq(Text) :
              Command(Append(s, w), style) = Command(s, style) \o QuoteWord(w, style) \o <<" ">>
<1> DEFINE nil == <<>>
           Words == Seq(Text)
<1>1. ASSUME NEW s PROVE Command(s, style) = Joining!Fold(style, nil, s)
  BY CommandFold
<1> HIDE DEF nil, Words
<1>2. Command(nil, style) = nil
  BY CommandFold, Joining!FoldEmpty DEF nil
<1>3. ASSUME NEW s \in Seq(Words), NEW w \in Words
      PROVE  Command(Append(s, w), style) = CommandStep(style, Command(s, style), w)
  BY <1>1, Joining!FoldAppend
<1> QED
  BY <1>2, <1>3 DEF nil, Words, CommandStep

\* where splitArgs can be: between two tokens, in one, within quotes, and there
\* or there after a backslash
At(args, cur, has, q, esc) == [args |-> args, cur |-> cur, has |-> has, q |-> q, esc |-> esc]
Between(args) == At(args, <<>>, FALSE, "none", FALSE)
BetweenEsc(args) == At(args, <<>>, FALSE, "none", TRUE)
InWord(args, cur) == At(args, cur, TRUE, "none", FALSE)
InWordEsc(args, cur) == At(args, cur, TRUE, "none", TRUE)
InSingle(args, cur) == At(args, cur, TRUE, "single", FALSE)
InDouble(args, cur) == At(args, cur, TRUE, "double", FALSE)
InDoubleEsc(args, cur) == At(args, cur, TRUE, "double", TRUE)

\* the characters that mean something to it
Apos == "'"
Dbl == "\""
Back == "\\"
Space == " "
Bare == Escapable \cup {"'", " "}

\* the characters that splitArgs knows are text
LEMMA Marks == Apos \in Text /\ Dbl \in Text /\ Back \in Text /\ Space \in Text
BY DEF Text, Apos, Dbl, Back, Space

\* what a character does between two tokens
LEMMA CharBetween ==
  ASSUME NEW args, NEW c
  PROVE  /\ Char(Between(args), Apos) = InSingle(args, <<>>)
         /\ Char(Between(args), Dbl) = InDouble(args, <<>>)
         /\ Char(Between(args), Back) = BetweenEsc(args)
         /\ c \notin Bare => Char(Between(args), c) = InWord(args, Append(<<>>, c))
         /\ Char(BetweenEsc(args), c) = InWord(args, Append(<<>>, c))
<1> USE DEF Between, BetweenEsc, InWord, InSingle, InDouble, At, Apos, Dbl, Back
<1>1. /\ Char(Between(args), Apos) = InSingle(args, <<>>)
      /\ Char(Between(args), Dbl) = InDouble(args, <<>>)
      /\ Char(Between(args), Back) = BetweenEsc(args)
  BY DEF Char, Quote
<1>2. c \notin Bare => Char(Between(args), c) = InWord(args, Append(<<>>, c))
  BY DEF Char, Token, Add, Bare, Escapable
<1>3. Char(BetweenEsc(args), c) = InWord(args, Append(<<>>, c))
  BY DEF Char, Token, Add
<1> QED
  BY <1>1, <1>2, <1>3

\* what it does in a token that is not quoted
LEMMA CharInWord ==
  ASSUME NEW args, NEW cur, NEW c
  PROVE  /\ Char(InWord(args, cur), Apos) = InSingle(args, cur)
         /\ Char(InWord(args, cur), Back) = InWordEsc(args, cur)
         /\ Char(InWord(args, cur), Space) = Between(Append(args, cur))
         /\ c \notin Bare => Char(InWord(args, cur), c) = InWord(args, Append(cur, c))
         /\ Char(InWordEsc(args, cur), c) = InWord(args, Append(cur, c))
<1> USE DEF Between, InWord, InWordEsc, InSingle, At, Apos, Back, Space
<1>1. /\ Char(InWord(args, cur), Apos) = InSingle(args, cur)
      /\ Char(InWord(args, cur), Back) = InWordEsc(args, cur)
  BY DEF Char, Quote
<1>2. Char(InWord(args, cur), Space) = Between(Append(args, cur))
  BY DEF Char, Flush
<1>3. c \notin Bare => Char(InWord(args, cur), c) = InWord(args, Append(cur, c))
  BY DEF Char, Token, Add, Bare, Escapable
<1>4. Char(InWordEsc(args, cur), c) = InWord(args, Append(cur, c))
  BY DEF Char, Token, Add
<1> QED
  BY <1>1, <1>2, <1>3, <1>4

\* what it does in quotes
LEMMA CharInQuotes ==
  ASSUME NEW args, NEW cur, NEW c
  PROVE  /\ Char(InSingle(args, cur), Apos) = InWord(args, cur)
         /\ c # Apos => Char(InSingle(args, cur), c) = InSingle(args, Append(cur, c))
         /\ Char(InDouble(args, cur), Dbl) = InWord(args, cur)
         /\ Char(InDouble(args, cur), Back) = InDoubleEsc(args, cur)
         /\ c \notin Escapable => Char(InDouble(args, cur), c) = InDouble(args, Append(cur, c))
         /\ c \in Escapable => Char(InDoubleEsc(args, cur), c) = InDouble(args, Append(cur, c))
<1> USE DEF InWord, InSingle, InDouble, InDoubleEsc, At, Apos, Dbl, Back
<1>1. /\ Char(InSingle(args, cur), Apos) = InWord(args, cur)
      /\ c # Apos => Char(InSingle(args, cur), c) = InSingle(args, Append(cur, c))
  BY DEF Char, Add
<1>2. /\ Char(InDouble(args, cur), Dbl) = InWord(args, cur)
      /\ Char(InDouble(args, cur), Back) = InDoubleEsc(args, cur)
  BY DEF Char
<1>3. c \notin Escapable => Char(InDouble(args, cur), c) = InDouble(args, Append(cur, c))
  BY DEF Char, Add, Escapable
<1>4. c \in Escapable => Char(InDoubleEsc(args, cur), c) = InDouble(args, Append(cur, c))
  BY DEF Char, Add
<1> QED
  BY <1>1, <1>2, <1>3, <1>4

\* what quoting and escaping add for one character
LEMMA Steps ==
  ASSUME NEW s \in Seq(Text), NEW c \in Text, NEW chars
  PROVE  /\ c # Apos => QuoteStep(0, s, c) = Append(s, c)
         /\ QuoteStep(0, s, Apos) = Append(Append(Append(Append(s, Apos), Back), Apos), Apos)
         /\ c \notin chars => EscapeStep(chars, s, c) = Append(s, c)
         /\ c \in chars => EscapeStep(chars, s, c) = Append(Append(s, Back), c)
<1>1. c # Apos => QuoteStep(0, s, c) = Append(s, c)
  BY DEF QuoteStep, Apos
<1>2. QuoteStep(0, s, Apos) = s \o <<Apos, Back, Apos, Apos>>
  BY DEF QuoteStep, Apos, Back
<1>3. s \o <<Apos, Back, Apos, Apos>> = Append(Append(Append(Append(s, Apos), Back), Apos), Apos)
  OBVIOUS
<1>4. c \notin chars => EscapeStep(chars, s, c) = Append(s, c)
  BY DEF EscapeStep
<1>5. c \in chars => EscapeStep(chars, s, c) = s \o <<Back, c>>
  BY DEF EscapeStep, Back
<1>6. s \o <<Back, c>> = Append(Append(s, Back), c)
  OBVIOUS
<1> QED
  BY <1>1, <1>2, <1>3, <1>4, <1>5, <1>6

\* one character more, as a witness
LEMMA OneMore ==
  ASSUME NEW a, NEW s \in Seq(Text), NEW c \in Text
  PROVE  \E t \in Seq(Text) : t = Append(s, c) /\ Scan(a, t) = Char(Scan(a, s), c)
<1>1. Append(s, c) \in Seq(Text)
  OBVIOUS
<1>2. Scan(a, Append(s, c)) = Char(Scan(a, s), c)
  BY ScanParts
<1> QED
  BY <1>1, <1>2, Zenon

\* what single quotes hold is read back, the quotes that end and begin again too
LEMMA QuotedScans ==
  ASSUME NEW args, NEW word \in Seq(Text)
  PROVE  /\ Quoted(word) \in Seq(Text)
         /\ Scan(InSingle(args, <<>>), Quoted(word)) = InSingle(args, word)
<1> DEFINE a == InSingle(args, <<>>)
           G == {w \in Seq(Text) : Quoted(w) \in Seq(Text) /\ Scan(a, Quoted(w)) = InSingle(args, w)}
<1>1. <<>> \in G
  BY QuotedParts, ScanParts, <<>> \in Seq(Text)
<1> HIDE DEF a
<1>2. ASSUME NEW u \in Seq(Text), NEW c \in Text, u \in G PROVE Append(u, c) \in G
  <2> DEFINE q == Quoted(u)
  <2>1. /\ q \in Seq(Text) /\ Scan(a, q) = InSingle(args, u)
        /\ Quoted(Append(u, c)) = QuoteStep(0, q, c)
    BY <1>2, QuotedParts
  <2>2. Append(u, c) \in Seq(Text)
    OBVIOUS
  <2> HIDE DEF q
  <2> SUFFICES QuoteStep(0, q, c) \in Seq(Text) /\ Scan(a, QuoteStep(0, q, c)) = InSingle(args, Append(u, c))
    BY <2>1, <2>2
  <2>3. CASE c # Apos
    <3>1. QuoteStep(0, q, c) = Append(q, c)
      BY <2>1, <2>3, Steps
    <3>2. Scan(a, Append(q, c)) = Char(Scan(a, q), c)
      BY <2>1, ScanParts
    <3>3. Char(InSingle(args, u), c) = InSingle(args, Append(u, c))
      BY <2>3, CharInQuotes
    <3>4. Append(q, c) \in Seq(Text)
      BY <2>1
    <3> QED
      BY <2>1, <3>1, <3>2, <3>3, <3>4, Zenon
  <2>4. CASE c = Apos
    <3>1. PICK q1 \in Seq(Text) : q1 = Append(q, Apos) /\ Scan(a, q1) = Char(Scan(a, q), Apos)
      BY <2>1, Marks, OneMore
    <3>2. PICK q2 \in Seq(Text) : q2 = Append(q1, Back) /\ Scan(a, q2) = Char(Scan(a, q1), Back)
      BY <3>1, Marks, OneMore
    <3>3. PICK q3 \in Seq(Text) : q3 = Append(q2, Apos) /\ Scan(a, q3) = Char(Scan(a, q2), Apos)
      BY <3>2, Marks, OneMore
    <3>4. PICK q4 \in Seq(Text) : q4 = Append(q3, Apos) /\ Scan(a, q4) = Char(Scan(a, q3), Apos)
      BY <3>3, Marks, OneMore
    <3>5. QuoteStep(0, q, c) = q4
      BY <2>1, <2>4, <3>1, <3>2, <3>3, <3>4, Steps, Zenon
    <3>6. Scan(a, q1) = InWord(args, u)
      BY <2>1, <3>1, CharInQuotes
    <3>7. Scan(a, q2) = InWordEsc(args, u)
      BY <3>2, <3>6, CharInWord
    <3>8. Scan(a, q3) = InWord(args, Append(u, Apos))
      BY <3>3, <3>7, CharInWord, Zenon
    <3>9. Scan(a, q4) = InSingle(args, Append(u, Apos))
      BY <3>4, <3>8, CharInWord, Zenon
    <3> QED
      BY <2>4, <3>4, <3>5, <3>9, Zenon
  <2> QED
    BY <2>3, <2>4
<1>3. Seq(Text) \subseteq G
  <2> HIDE DEF G
  <2> QED
    BY <1>1, <1>2, Scanning!SeqSet
<1> QED
  BY <1>3 DEF a

\* and what double quotes hold, with its escapes
LEMMA DoubleScans ==
  ASSUME NEW args, NEW word \in Seq(Text)
  PROVE  /\ Escaped(word, Escapable) \in Seq(Text)
         /\ Scan(InDouble(args, <<>>), Escaped(word, Escapable)) = InDouble(args, word)
<1> DEFINE a == InDouble(args, <<>>)
           G == {w \in Seq(Text) : /\ Escaped(w, Escapable) \in Seq(Text)
                                   /\ Scan(a, Escaped(w, Escapable)) = InDouble(args, w)}
<1>1. <<>> \in G
  BY EscapedParts, ScanParts, <<>> \in Seq(Text)
<1> HIDE DEF a
<1>2. ASSUME NEW u \in Seq(Text), NEW c \in Text, u \in G PROVE Append(u, c) \in G
  <2> DEFINE q == Escaped(u, Escapable)
  <2>1. /\ q \in Seq(Text) /\ Scan(a, q) = InDouble(args, u)
        /\ Escaped(Append(u, c), Escapable) = EscapeStep(Escapable, q, c)
    BY <1>2, EscapedParts
  <2>2. Append(u, c) \in Seq(Text)
    OBVIOUS
  <2> HIDE DEF q
  <2> SUFFICES /\ EscapeStep(Escapable, q, c) \in Seq(Text)
               /\ Scan(a, EscapeStep(Escapable, q, c)) = InDouble(args, Append(u, c))
    BY <2>1, <2>2
  <2>3. CASE c \notin Escapable
    <3>1. PICK q1 \in Seq(Text) : q1 = Append(q, c) /\ Scan(a, q1) = Char(Scan(a, q), c)
      BY <2>1, OneMore
    <3>2. EscapeStep(Escapable, q, c) = q1
      BY <2>1, <2>3, <3>1, Steps, Zenon
    <3>3. Char(InDouble(args, u), c) = InDouble(args, Append(u, c))
      BY <2>3, CharInQuotes
    <3> QED
      BY <2>1, <3>1, <3>2, <3>3, Zenon
  <2>4. CASE c \in Escapable
    <3>1. PICK q1 \in Seq(Text) : q1 = Append(q, Back) /\ Scan(a, q1) = Char(Scan(a, q), Back)
      BY <2>1, Marks, OneMore
    <3>2. PICK q2 \in Seq(Text) : q2 = Append(q1, c) /\ Scan(a, q2) = Char(Scan(a, q1), c)
      BY <3>1, OneMore
    <3>3. EscapeStep(Escapable, q, c) = q2
      BY <2>1, <2>4, <3>1, <3>2, Steps, ZenonT(40)
    <3>4. Scan(a, q1) = InDoubleEsc(args, u)
      BY <2>1, <3>1, CharInQuotes
    <3>5. Char(InDoubleEsc(args, u), c) = InDouble(args, Append(u, c))
      BY <2>4, CharInQuotes
    <3> QED
      BY <3>2, <3>3, <3>4, <3>5, Zenon
  <2> QED
    BY <2>3, <2>4
<1>3. Seq(Text) \subseteq G
  <2> HIDE DEF G
  <2> QED
    BY <1>1, <1>2, Scanning!SeqSet
<1> QED
  BY <1>3 DEF a

\* where that leads
Got(args, word) == IF word = <<>> THEN Between(args) ELSE InWord(args, word)

\* what is escaped without quotes is read back, if there is anything
LEMMA BareScans ==
  ASSUME NEW args, NEW word \in Seq(Text)
  PROVE  /\ Escaped(word, Bare) \in Seq(Text)
         /\ Scan(Between(args), Escaped(word, Bare)) = Got(args, word)
<1> DEFINE a == Between(args)
           G == {w \in Seq(Text) : Escaped(w, Bare) \in Seq(Text) /\ Scan(a, Escaped(w, Bare)) = Got(args, w)}
<1>1. <<>> \in G
  BY EscapedParts, ScanParts, <<>> \in Seq(Text) DEF Got
<1>2. ASSUME NEW u \in Seq(Text), NEW c \in Text, u \in G PROVE Append(u, c) \in G
  <2> DEFINE q == Escaped(u, Bare)
  <2>1. /\ q \in Seq(Text) /\ Scan(a, q) = Got(args, u)
        /\ Escaped(Append(u, c), Bare) = EscapeStep(Bare, q, c)
    BY <1>2, EscapedParts
  <2>2. Append(u, c) \in Seq(Text) /\ Append(u, c) # <<>>
    OBVIOUS
  <2>3. Got(args, Append(u, c)) = InWord(args, Append(u, c))
    BY <2>2 DEF Got
  <2> HIDE DEF q, a
  <2> SUFFICES /\ EscapeStep(Bare, q, c) \in Seq(Text)
               /\ Scan(a, EscapeStep(Bare, q, c)) = InWord(args, Append(u, c))
    BY <2>1, <2>2, <2>3
  <2>4. CASE c \notin Bare
    <3>1. PICK q1 \in Seq(Text) : q1 = Append(q, c) /\ Scan(a, q1) = Char(Scan(a, q), c)
      BY <2>1, OneMore
    <3>2. EscapeStep(Bare, q, c) = q1
      BY <2>1, <2>4, <3>1, Steps, Zenon
    <3>3. Char(Got(args, u), c) = InWord(args, Append(u, c))
      <4>1. CASE u = <<>>
        BY <2>4, <4>1, CharBetween DEF Got
      <4>2. CASE u # <<>>
        BY <2>4, <4>2, CharInWord DEF Got
      <4> QED
        BY <4>1, <4>2
    <3> QED
      BY <2>1, <3>1, <3>2, <3>3, Zenon
  <2>5. CASE c \in Bare
    <3>1. PICK q1 \in Seq(Text) : q1 = Append(q, Back) /\ Scan(a, q1) = Char(Scan(a, q), Back)
      BY <2>1, Marks, OneMore
    <3>2. PICK q2 \in Seq(Text) : q2 = Append(q1, c) /\ Scan(a, q2) = Char(Scan(a, q1), c)
      BY <3>1, OneMore
    <3>3. EscapeStep(Bare, q, c) = q2
      BY <2>1, <2>5, <3>1, <3>2, Steps, ZenonT(40)
    <3>4. Char(Char(Got(args, u), Back), c) = InWord(args, Append(u, c))
      <4>1. CASE u = <<>>
        <5>1. Char(Between(args), Back) = BetweenEsc(args)
          BY CharBetween
        <5>2. Char(BetweenEsc(args), c) = InWord(args, Append(<<>>, c))
          BY CharBetween
        <5>3. Got(args, u) = Between(args)
          BY <4>1 DEF Got
        <5> QED
          BY <4>1, <5>1, <5>2, <5>3, Zenon
      <4>2. CASE u # <<>>
        <5>1. Char(InWord(args, u), Back) = InWordEsc(args, u)
          BY CharInWord
        <5>2. Char(InWordEsc(args, u), c) = InWord(args, Append(u, c))
          BY CharInWord
        <5>3. Got(args, u) = InWord(args, u)
          BY <4>2 DEF Got
        <5> QED
          BY <5>1, <5>2, <5>3, Zenon
      <4> QED
        BY <4>1, <4>2
    <3> QED
      BY <2>1, <3>1, <3>2, <3>3, <3>4, Zenon
  <2> QED
    BY <2>4, <2>5
<1>3. Seq(Text) \subseteq G
  <2> HIDE DEF G
  <2> QED
    BY <1>1, <1>2, Scanning!SeqSet
<1> QED
  BY <1>3 DEF a

\* a sequence with one element more
LEMMA Longer == ASSUME NEW S, NEW s \in Seq(S), NEW c \in S PROVE Append(s, c) \in Seq(S)
OBVIOUS

\* two pieces, one after the other, as a witness
LEMMA ScanTwo ==
  ASSUME NEW a, NEW s \in Seq(Text), NEW t \in Seq(Text)
  PROVE  \E u \in Seq(Text) : u = s \o t /\ Scan(a, u) = Scan(Scan(a, s), t)
<1>1. s \o t \in Seq(Text)
  OBVIOUS
<1>2. Scan(a, s \o t) = Scan(Scan(a, s), t)
  BY ScanParts
<1> QED
  BY <1>1, <1>2, Zenon

\* one character on its own, as a witness
LEMMA OneChar ==
  ASSUME NEW c \in Text
  PROVE  \E s \in Seq(Text) : s = <<c>> /\ \A x : Scan(x, s) = Char(x, c)
<1>1. <<c>> \in Seq(Text)
  OBVIOUS
<1>2. \A x : Scan(x, <<c>>) = Char(x, c)
  BY ScanParts, Zenon
<1> QED
  BY <1>1, <1>2, Zenon

\* something in quotes of one kind
LEMMA InQuotes ==
  ASSUME NEW o \in Text, NEW q \in Seq(Text), NEW a, NEW b, NEW c, NEW d,
         Char(a, o) = b, Scan(b, q) = c, Char(c, o) = d
  PROVE  (<<o>> \o q) \o <<o>> \in Seq(Text) /\ Scan(a, (<<o>> \o q) \o <<o>>) = d
<1>1. PICK s \in Seq(Text) : s = <<o>> /\ \A x : Scan(x, s) = Char(x, o)
  BY OneChar
<1>2. PICK t \in Seq(Text) : t = s \o q /\ Scan(a, t) = Scan(Scan(a, s), q)
  BY ScanTwo
<1>3. PICK u \in Seq(Text) : u = t \o s /\ Scan(a, u) = Scan(Scan(a, t), s)
  BY ScanTwo
<1>4. Scan(a, u) = d
  BY <1>1, <1>2, <1>3, Zenon
<1>5. u = (<<o>> \o q) \o <<o>>
  BY <1>1, <1>2, <1>3, Zenon
<1> QED
  BY <1>4, <1>5, Zenon

\* one argument, however it is quoted, is one token
LEMMA WordScans ==
  ASSUME NEW args, NEW word \in Seq(Text), NEW style
  PROVE  QuoteWord(word, style) \in Seq(Text) /\ Scan(Between(args), QuoteWord(word, style)) = InWord(args, word)
<1>1. QuoteSingle(word) \in Seq(Text) /\ Scan(Between(args), QuoteSingle(word)) = InWord(args, word)
  <2>1. QuoteSingle(word) = (<<Apos>> \o Quoted(word)) \o <<Apos>>
    BY DEF QuoteSingle, Quoted, Apos
  <2>2. /\ Char(Between(args), Apos) = InSingle(args, <<>>)
        /\ Scan(InSingle(args, <<>>), Quoted(word)) = InSingle(args, word)
        /\ Char(InSingle(args, word), Apos) = InWord(args, word)
        /\ Quoted(word) \in Seq(Text) /\ Apos \in Text
    BY CharBetween, CharInQuotes, QuotedScans, Marks
  <2>3. /\ (<<Apos>> \o Quoted(word)) \o <<Apos>> \in Seq(Text)
        /\ Scan(Between(args), (<<Apos>> \o Quoted(word)) \o <<Apos>>) = InWord(args, word)
    BY <2>2, InQuotes
  <2> QED
    BY <2>1, <2>3, Zenon
<1>2. CASE style = "double"
  <2>1. QuoteWord(word, style) = (<<Dbl>> \o Escaped(word, Escapable)) \o <<Dbl>>
    BY <1>2 DEF QuoteWord, Dbl
  <2>2. /\ Char(Between(args), Dbl) = InDouble(args, <<>>)
        /\ Scan(InDouble(args, <<>>), Escaped(word, Escapable)) = InDouble(args, word)
        /\ Char(InDouble(args, word), Dbl) = InWord(args, word)
        /\ Escaped(word, Escapable) \in Seq(Text) /\ Dbl \in Text
    BY CharBetween, CharInQuotes, DoubleScans, Marks
  <2>3. /\ (<<Dbl>> \o Escaped(word, Escapable)) \o <<Dbl>> \in Seq(Text)
        /\ Scan(Between(args), (<<Dbl>> \o Escaped(word, Escapable)) \o <<Dbl>>) = InWord(args, word)
    BY <2>2, InQuotes
  <2> QED
    BY <2>1, <2>3, Zenon
<1>3. CASE style = "escape" /\ word # <<>>
  <2>1. QuoteWord(word, style) = Escaped(word, Bare)
    BY <1>3 DEF QuoteWord, Bare
  <2>2. Got(args, word) = InWord(args, word)
    BY <1>3 DEF Got
  <2> QED
    BY <2>1, <2>2, BareScans
<1>4. CASE style # "double" /\ ~(style = "escape" /\ word # <<>>)
  <2>1. QuoteWord(word, style) = QuoteSingle(word)
    BY <1>4 DEF QuoteWord
  <2> QED
    BY <1>1, <2>1
<1> QED
  BY <1>2, <1>3, <1>4

\* a whole command line
LEMMA CommandScans ==
  ASSUME NEW args \in Seq(Seq(Text)), NEW style
  PROVE  Scan(Start, Command(args, style)) = Between(args)
<1> DEFINE Words == Seq(Text)
           G == {as \in Seq(Words) : /\ Command(as, style) \in Seq(Text)
                                     /\ Scan(Start, Command(as, style)) = Between(as)}
<1>1. <<>> \in G
  <2>1. Start = Between(<<>>)
    BY DEF Start, Between, At
  <2>2. Command(<<>>, style) = <<>>
    BY CommandParts, Zenon
  <2>5. <<>> \in Seq(Text)
    OBVIOUS
  <2>4. \A a : Scan(a, <<>>) = a
    BY ScanParts, Zenon
  <2>3. <<>> \in Seq(Words)
    OBVIOUS
  <2> HIDE DEF Words
  <2> QED
    BY <2>1, <2>2, <2>3, <2>4, <2>5, Zenon
<1>2. ASSUME NEW as \in Seq(Words), NEW w \in Words, as \in G PROVE Append(as, w) \in G
  <2>1. Command(as, style) \in Seq(Text) /\ Scan(Start, Command(as, style)) = Between(as)
    BY <1>2
  <2>2. QuoteWord(w, style) \in Seq(Text) /\ Scan(Between(as), QuoteWord(w, style)) = InWord(as, w)
    BY WordScans
  <2>3. PICK sp \in Seq(Text) : sp = <<Space>> /\ \A x : Scan(x, sp) = Char(x, Space)
    BY Marks, OneChar
  <2>4. PICK t \in Seq(Text) : /\ t = Command(as, style) \o QuoteWord(w, style)
                               /\ Scan(Start, t) = Scan(Scan(Start, Command(as, style)), QuoteWord(w, style))
    BY <2>1, <2>2, ScanTwo, Zenon
  <2>5. PICK u \in Seq(Text) : u = t \o sp /\ Scan(Start, u) = Scan(Scan(Start, t), sp)
    BY ScanTwo
  <2>6. Char(InWord(as, w), Space) = Between(Append(as, w))
    BY CharInWord, Zenon
  <2>7. Scan(Start, u) = Between(Append(as, w))
    BY <2>1, <2>2, <2>3, <2>4, <2>5, <2>6, Zenon
  <2>8. Command(Append(as, w), style) = u
    <3>1. Command(Append(as, w), style) = Command(as, style) \o QuoteWord(w, style) \o <<Space>>
      BY CommandParts DEF Space
    <3> QED
      BY <2>3, <2>4, <2>5, <3>1, Zenon
  <2> HIDE DEF Words
  <2>9. Append(as, w) \in Seq(Words)
    BY Longer
  <2> QED
    BY <2>5, <2>7, <2>8, <2>9, Zenon
<1>3. Seq(Words) \subseteq G
  <2> HIDE DEF G, Words
  <2> QED
    BY <1>1, <1>2, Scanning!SeqSet
<1> QED
  BY <1>3

\* what splitArgs makes of a command line is the arguments it was made of
LEMMA SplitCommand ==
  ASSUME NEW args \in Seq(Seq(Text)), NEW style
  PROVE  splitArgs(Command(args, style)) = [ok |-> TRUE, args |-> args]
<1>1. FoldLeft(Char, Start, Command(args, style)) = Between(args)
  BY CommandScans DEF Scan
<1>2. splitArgs(Command(args, style)) = [ok |-> Between(args).q = "none", args |-> Flush(Between(args)).args]
  BY <1>1 DEF splitArgs
<1>3. Between(args).q = "none" /\ Flush(Between(args)).args = args
  BY DEF Between, At, Flush
<1> QED
  BY <1>2, <1>3

ArgvInv == input \in Inputs /\ ArgvAsQuoted

\* the arguments that a client means are words
LEMMA InputArgs == ASSUME NEW i \in Inputs PROVE i.args \in Seq(Seq(Text))
<1>1. i.args \in Seq(Seq(STRING))
  BY InputAssumption
<1> QED
  BY <1>1, Strings, WiderSeq

\* Whatever a client quotes, and whichever way: the arguments that the command is
\* run with are the ones that were meant (splitArgs, execute).
THEOREM ArgumentsArrive == Spec => []ArgvAsQuoted
<1>1. Init => ArgvInv
  BY DEF Init, ArgvInv, ArgvAsQuoted
<1>2. ArgvInv /\ [Next]_vars => ArgvInv'
  <2> SUFFICES ASSUME ArgvInv, [Next]_vars PROVE ArgvInv'
    OBVIOUS
  <2>1. CASE UNCHANGED <<input, ran>>
    BY <2>1 DEF ArgvInv, ArgvAsQuoted
  <2>2. CASE Execute
    <3>1. splitArgs(Command(input.args, input.style)) = [ok |-> TRUE, args |-> input.args]
      BY InputArgs, SplitCommand DEF ArgvInv
    <3>2. ran' = IF input.args # <<>> THEN [r |-> "run", argv |-> input.args] ELSE [r |-> "refused"]
      BY <2>2, <3>1 DEF Execute
    <3> QED
      BY <2>2, <3>2 DEF Execute, ArgvInv, ArgvAsQuoted
  <2> QED
    BY <2>1, <2>2 DEF Next, Build, CreateContainer, FileRequest, FileStep, vars
<1>3. ArgvInv => ArgvAsQuoted
  BY DEF ArgvInv
<1> QED
  BY <1>1, <1>2, <1>3, PTL DEF Spec

(***************************************************************************)
(* A container's env.                                                      *)
(***************************************************************************)
\* FirstNamed is the first index of the name, or 0 where nothing has it
LEMMA FirstIs ==
  ASSUME NEW S, NEW seq \in Seq(S), NEW n
  PROVE  \/ FirstNamed(seq, n) = 0 /\ \A i \in 1..Len(seq) : seq[i].name # n
         \/ /\ FirstNamed(seq, n) \in 1..Len(seq) /\ seq[FirstNamed(seq, n)].name = n
            /\ \A i \in 1..Len(seq) : seq[i].name = n => FirstNamed(seq, n) <= i
<1> DEFINE I == {i \in 1..Len(seq) : seq[i].name = n}
<1>1. FirstNamed(seq, n) = IF I # {} THEN Min(I) ELSE 0
  BY DEF FirstNamed, SelectInSeq
<1>2. CASE I = {}
  BY <1>1, <1>2
<1>3. CASE I # {}
  <2>1. I \in SUBSET (1..Len(seq)) /\ Len(seq) \in Nat
    OBVIOUS
  <2>2. \E x \in I : \A y \in I : x <= y
    <3> HIDE DEF I
    <3> QED
      BY <1>3, <2>1, Scanning!Smallest
  <2>3. Min(I) \in I /\ \A y \in I : Min(I) <= y
    <3> HIDE DEF I
    <3> QED
      BY <2>2 DEF Min
  <2> QED
    BY <1>1, <1>3, <2>3
<1> QED
  BY <1>2, <1>3

\* LastNamed is the last one
LEMMA LastIs ==
  ASSUME NEW S, NEW seq \in Seq(S), NEW n
  PROVE  \/ LastNamed(seq, n) = 0 /\ \A i \in 1..Len(seq) : seq[i].name # n
         \/ /\ LastNamed(seq, n) \in 1..Len(seq) /\ seq[LastNamed(seq, n)].name = n
            /\ \A i \in 1..Len(seq) : seq[i].name = n => i <= LastNamed(seq, n)
<1> DEFINE I == {i \in 1..Len(seq) : seq[i].name = n}
<1>1. LastNamed(seq, n) = IF I # {} THEN Max(I) ELSE 0
  BY DEF LastNamed, SelectLastInSeq
<1>2. CASE I = {}
  BY <1>1, <1>2
<1>3. CASE I # {}
  <2>1. I \in SUBSET (1..Len(seq)) /\ Len(seq) \in Nat
    OBVIOUS
  <2>2. \E x \in I : \A y \in I : x >= y
    <3> HIDE DEF I
    <3> QED
      BY <1>3, <2>1, Scanning!Largest
  <2>3. Max(I) \in I /\ \A y \in I : y <= Max(I)
    <3> HIDE DEF I
    <3> QED
      BY <2>1, <2>2 DEF Max
  <2> QED
    BY <1>1, <1>3, <2>3
<1> QED
  BY <1>2, <1>3

\* a sequence with one element replaced
LEMMA SetAt ==
  ASSUME NEW S, NEW seq \in Seq(S), NEW k \in 1..Len(seq), NEW e \in S
  PROVE  /\ [seq EXCEPT ![k] = e] \in Seq(S) /\ Len([seq EXCEPT ![k] = e]) = Len(seq)
         /\ [seq EXCEPT ![k] = e][k] = e
         /\ \A l \in 1..Len(seq) : l # k => [seq EXCEPT ![k] = e][l] = seq[l]
OBVIOUS

\* the pod with another env in one container
WithEnv(pod, k, new) == [pod EXCEPT !.containers[k].env = new]

\* a pod with the env of one container replaced
LEMMA SetEnv ==
  ASSUME NEW pod \in Pod, NEW k \in 1..Len(pod.containers), NEW new \in Seq(EnvVar), NEW q,
         q = WithEnv(pod, k, new)
  PROVE  /\ q \in Pod /\ q.volumes = pod.volumes /\ q.dns = pod.dns
         /\ q.containers \in Seq(Container) /\ Len(q.containers) = Len(pod.containers)
         /\ q.containers[k] = [pod.containers[k] EXCEPT !.env = new]
         /\ \A l \in 1..Len(pod.containers) : l # k => q.containers[l] = pod.containers[l]
<1> DEFINE cs == pod.containers
           d == [cs[k] EXCEPT !.env = new]
           ds == [cs EXCEPT ![k] = d]
<1>1. cs \in Seq(Container)
  BY DEF Pod
<1>2. cs[k] \in Container
  BY <1>1
<1>3. d \in Container
  BY <1>2 DEF Container
<1>4. /\ ds \in Seq(Container) /\ Len(ds) = Len(cs) /\ ds[k] = d
      /\ \A l \in 1..Len(cs) : l # k => ds[l] = cs[l]
  <2> HIDE DEF cs, d
  <2>1. k \in 1..Len(cs)
    BY DEF cs
  <2> QED
    BY <1>1, <1>3, <2>1, SetAt
<1>5. q = [pod EXCEPT !.containers = ds]
  BY DEF Pod, WithEnv
<1> HIDE DEF d, ds, cs
<1>6. q \in Pod /\ q.volumes = pod.volumes /\ q.dns = pod.dns /\ q.containers = ds
  BY <1>4, <1>5 DEF Pod
<1> QED
  BY <1>4, <1>6 DEF cs, d

\* what E, a container's env after the claim's env vars u of the indexes I, has
\* of F, its env before
NamesStay(F, E) == Len(F) <= Len(E) /\ \A k \in 1..Len(F) : E[k].name = F[k].name
NewOnce(F, E) == \A k, l \in 1..Len(E) : k > Len(F) /\ E[l].name = E[k].name => l = k
Holds(x, e) == x.name = e.name /\ x.value = e.value /\ x.from = FALSE
LastOf(I, u, i) == \A j \in I : j > i => u[j].name # u[i].name
Given(I, u, E) == \A i \in I : LastOf(I, u, i) => \E k \in 1..Len(E) : Holds(E[k], u[i])
Known(I, u, F, E) ==
  \A k \in 1..Len(E) : \/ k <= Len(F) /\ E[k] = F[k]
                       \/ \E i \in I : u[i].name = E[k].name
Untouched(F, E) == \A k \in 1..Len(F) : E[k] = F[k]

Carries(I, u, policy, F, E) ==
  /\ Len(F) \in Nat /\ Len(E) \in Nat
  /\ NamesStay(F, E) /\ NewOnce(F, E) /\ Given(I, u, E) /\ Known(I, u, F, E)
  /\ policy = "Overrides" \/ Untouched(F, E)

\* v of the indexes J is u of I and one more at the end, e
OneMoreFor(I, u, J, v, e) ==
  \E m \in Nat : /\ J = I \cup {m} /\ v[m] = e
                 /\ \A i \in I : i \in Nat /\ i < m /\ v[i] = u[i]

\* an env var of a new name
LEMMA CarriesNew ==
  ASSUME NEW I, NEW u, NEW J, NEW v, NEW e, OneMoreFor(I, u, J, v, e),
         NEW policy, NEW F, NEW E, NEW D, NEW x, Carries(I, u, policy, F, E),
         Len(D) = Len(E) + 1, D[Len(E) + 1] = x, \A k \in 1..Len(E) : D[k] = E[k], Holds(x, e),
         \A k \in 1..Len(E) : E[k].name # e.name
  PROVE  Carries(J, v, policy, F, D)
<1>0. PICK m \in Nat : /\ J = I \cup {m} /\ v[m] = e
                       /\ \A i \in I : i \in Nat /\ i < m /\ v[i] = u[i]
  BY DEF OneMoreFor
<1>1. Len(F) \in Nat /\ Len(E) \in Nat /\ Len(D) \in Nat /\ Len(F) <= Len(E)
  BY DEF Carries, NamesStay
<1>2. NamesStay(F, D)
  BY <1>1 DEF Carries, NamesStay
<1>3. NewOnce(F, D)
  <2> SUFFICES ASSUME NEW k \in 1..Len(D), NEW l \in 1..Len(D), k > Len(F), D[l].name = D[k].name
               PROVE  l = k
    BY DEF NewOnce
  <2>1. CASE k \in 1..Len(E) /\ l \in 1..Len(E)
    BY <2>1 DEF Carries, NewOnce
  <2>2. CASE k = Len(E) + 1 /\ l \in 1..Len(E)
    BY <2>2 DEF Holds
  <2>3. CASE l = Len(E) + 1 /\ k \in 1..Len(E)
    BY <2>3 DEF Holds
  <2> QED
    BY <1>1, <2>1, <2>2, <2>3
<1>4. Given(J, v, D)
  <2> SUFFICES ASSUME NEW i \in J, LastOf(J, v, i) PROVE \E k \in 1..Len(D) : Holds(D[k], v[i])
    BY DEF Given
  <2>1. CASE i = m
    <3>1. Len(E) + 1 \in 1..Len(D) /\ Holds(D[Len(E) + 1], v[i])
      BY <1>0, <1>1, <2>1
    <3> QED
      BY <3>1
  <2>2. CASE i \in I
    <3>1. LastOf(I, u, i)
      BY <1>0, <2>2 DEF LastOf
    <3>2. PICK k \in 1..Len(E) : Holds(E[k], u[i])
      BY <2>2, <3>1 DEF Carries, Given
    <3>3. k \in 1..Len(D) /\ D[k] = E[k] /\ v[i] = u[i]
      BY <1>0, <1>1, <2>2
    <3> QED
      BY <3>2, <3>3
  <2> QED
    BY <1>0, <2>1, <2>2
<1>5. Known(J, v, F, D)
  <2> SUFFICES ASSUME NEW k \in 1..Len(D)
               PROVE  (k <= Len(F) /\ D[k] = F[k]) \/ \E i \in J : v[i].name = D[k].name
    BY DEF Known
  <2>1. CASE k = Len(E) + 1
    <3>1. m \in J /\ v[m].name = D[k].name
      BY <1>0, <2>1 DEF Holds
    <3> QED
      BY <3>1
  <2>2. CASE k \in 1..Len(E)
    <3>1. D[k] = E[k]
      BY <2>2
    <3>2. (k <= Len(F) /\ E[k] = F[k]) \/ \E i \in I : u[i].name = E[k].name
      BY <2>2 DEF Carries, Known
    <3> QED
      BY <1>0, <3>1, <3>2
  <2> QED
    BY <1>1, <2>1, <2>2
<1>6. policy = "Overrides" \/ Untouched(F, D)
  BY <1>1 DEF Carries, Untouched
<1> QED
  BY <1>1, <1>2, <1>3, <1>4, <1>5, <1>6 DEF Carries

\* an env var of a name that is there
LEMMA CarriesOverride ==
  ASSUME NEW I, NEW u, NEW J, NEW v, NEW e, OneMoreFor(I, u, J, v, e),
         NEW F, NEW E, NEW D, NEW at \in 1..Len(E), NEW policy, policy = "Overrides",
         Carries(I, u, policy, F, E),
         Len(D) = Len(E), \A k \in 1..Len(E) : k # at => D[k] = E[k], Holds(D[at], e),
         E[at].name = e.name
  PROVE  Carries(J, v, policy, F, D)
<1>0. PICK m \in Nat : /\ J = I \cup {m} /\ v[m] = e
                       /\ \A i \in I : i \in Nat /\ i < m /\ v[i] = u[i]
  BY DEF OneMoreFor
<1>1. Len(F) \in Nat /\ Len(E) \in Nat /\ Len(F) <= Len(E) /\ \A k \in 1..Len(E) : D[k].name = E[k].name
  BY DEF Carries, NamesStay, Holds
<1>2. NamesStay(F, D)
  BY <1>1 DEF Carries, NamesStay
<1>3. NewOnce(F, D)
  BY <1>1 DEF Carries, NewOnce
<1>4. Given(J, v, D)
  <2> SUFFICES ASSUME NEW i \in J, LastOf(J, v, i) PROVE \E k \in 1..Len(D) : Holds(D[k], v[i])
    BY DEF Given
  <2>1. CASE i = m
    BY <1>0, <2>1
  <2>2. CASE i \in I
    <3>1. LastOf(I, u, i) /\ u[i].name # e.name /\ v[i] = u[i]
      BY <1>0, <2>2 DEF LastOf
    <3>2. PICK k \in 1..Len(E) : Holds(E[k], u[i])
      BY <2>2, <3>1 DEF Carries, Given
    <3>3. k # at
      BY <3>1, <3>2 DEF Holds
    <3>4. D[k] = E[k] /\ k \in 1..Len(D)
      BY <3>3
    <3> QED
      BY <3>1, <3>2, <3>4
  <2> QED
    BY <1>0, <2>1, <2>2
<1>5. Known(J, v, F, D)
  <2> SUFFICES ASSUME NEW k \in 1..Len(D)
               PROVE  (k <= Len(F) /\ D[k] = F[k]) \/ \E i \in J : v[i].name = D[k].name
    BY DEF Known
  <2>1. CASE k = at
    BY <1>0, <2>1 DEF Holds
  <2>2. CASE k # at
    <3>1. D[k] = E[k] /\ k \in 1..Len(E)
      BY <2>2
    <3>2. (k <= Len(F) /\ E[k] = F[k]) \/ \E i \in I : u[i].name = E[k].name
      BY <3>1 DEF Carries, Known
    <3> QED
      BY <1>0, <3>1, <3>2
  <2> QED
    BY <2>1, <2>2
<1> QED
  BY <1>1, <1>2, <1>3, <1>4, <1>5 DEF Carries

\* an env var for another container
LEMMA CarriesOther ==
  ASSUME NEW I, NEW u, NEW v, \A i \in I : v[i] = u[i], NEW policy, NEW F, NEW E, Carries(I, u, policy, F, E)
  PROVE  Carries(I, v, policy, F, E)
<1>1. \A i \in I : LastOf(I, v, i) => LastOf(I, u, i)
  BY DEF LastOf
<1>2. Given(I, v, E) /\ Known(I, v, F, E)
  BY <1>1 DEF Carries, Given, Known
<1> QED
  BY <1>2 DEF Carries

\* the claim's env vars u that are for the container
IsFor(c, name) == c \in {"", name}
For(u, name) == {i \in 1..Len(u) : IsFor(u[i].container, name)}

\* one more of the claim's env vars is for the container, or is not
LEMMA ForMore ==
  ASSUME NEW S, NEW u \in Seq(S), NEW e \in S, NEW name
  PROVE  /\ IsFor(e.container, name) => OneMoreFor(For(u, name), u, For(Append(u, e), name), Append(u, e), e)
         /\ ~IsFor(e.container, name) => /\ For(Append(u, e), name) = For(u, name)
                                             /\ \A i \in For(u, name) : Append(u, e)[i] = u[i]
<1> DEFINE v == Append(u, e)
           me(x) == IsFor(x.container, name)
           I == {i \in 1..Len(u) : me(u[i])}
           J == {i \in 1..Len(v) : me(v[i])}
<1>1. /\ Len(v) = Len(u) + 1 /\ Len(u) \in Nat
      /\ v[Len(u) + 1] = e /\ \A i \in 1..Len(u) : v[i] = u[i]
  OBVIOUS
<1>2. I = For(u, name) /\ J = For(v, name)
  BY DEF For
<1> HIDE DEF v, me
<1>3. me(e) => J = I \cup {Len(u) + 1}
  BY <1>1
<1>4. ~me(e) => J = I
  BY <1>1
<1>5. \A i \in I : i \in Nat /\ i < Len(u) + 1 /\ v[i] = u[i]
  BY <1>1
<1>6. Len(u) + 1 \in Nat
  BY <1>1
<1>7. me(e) <=> IsFor(e.container, name)
  BY DEF me
<1> HIDE DEF I, J
<1>8. me(e) => OneMoreFor(I, u, J, v, e)
  BY <1>1, <1>3, <1>5, <1>6 DEF OneMoreFor
<1> QED
  BY <1>2, <1>4, <1>5, <1>7, <1>8 DEF v

InjectStep(policy, acc, e) == InjectOne(acc, e, policy)
Setting == INSTANCE Folding WITH Op <- InjectStep

Injected(pod, u, policy) == FoldLeft(LAMBDA acc, e : InjectOne(acc, e, policy), Done(pod), u)

\* injectEnv's loop is a fold: over no env vars, and over one more
LEMMA InjectedParts ==
  ASSUME NEW pod, NEW policy
  PROVE  /\ Injected(pod, <<>>, policy) = Done(pod)
         /\ \A S : \A u \in Seq(S), e \in S :
              Injected(pod, Append(u, e), policy) = InjectOne(Injected(pod, u, policy), e, policy)
<1> DEFINE b == Done(pod)
<1>1. ASSUME NEW u PROVE Injected(pod, u, policy) = Setting!Fold(policy, b, u)
  BY DEF Injected, FoldLeft, MapThenFoldSet, Max, InjectStep,
         Setting!Fold, Setting!MapThenFoldSet, Setting!Top
<1> HIDE DEF b
<1>2. Injected(pod, <<>>, policy) = b
  BY <1>1, Setting!FoldEmpty
<1>3. ASSUME NEW S, NEW u \in Seq(S), NEW e \in S
      PROVE  Injected(pod, Append(u, e), policy) = InjectOne(Injected(pod, u, policy), e, policy)
  <2>1. Setting!Fold(policy, b, Append(u, e)) = InjectStep(policy, Setting!Fold(policy, b, u), e)
    BY Setting!FoldAppend
  <2> QED
    BY <1>1, <2>1 DEF InjectStep
<1> QED
  BY <1>2, <1>3 DEF b

\* what an env var of the claim does to the env it is for
Changed(env, e, policy, new) ==
  \/ /\ \A k \in 1..Len(env) : env[k].name # e.name
     /\ new = Append(env, [name |-> e.name, value |-> e.value, from |-> FALSE])
  \/ /\ policy = "Overrides"
     /\ \E at \in 1..Len(env) : env[at].name = e.name /\ new = [env EXCEPT ![at] = Override(env[at], e.value)]

\* the container that a claim's env var is for
IndexFor(cs, c) == IF c = "" THEN 1 ELSE FirstNamed(cs, c)

\* no container, the first of a pod that has none, or one of the pod's: the
\* first exactly for the env vars that are for it
LEMMA ContainerFor ==
  ASSUME NEW S, NEW cs \in Seq(S), NEW c, NEW idx, idx = IndexFor(cs, c)
  PROVE  \/ idx = 0
         \/ idx = 1 /\ Len(cs) = 0
         \/ idx \in 1..Len(cs) /\ (idx = 1 <=> IsFor(c, cs[1].name))
<1>0. Len(cs) \in Nat
  OBVIOUS
<1>1. CASE c = ""
  <2>1. idx = 1
    BY <1>1 DEF IndexFor
  <2>2. IsFor(c, cs[1].name)
    BY <1>1 DEF IsFor
  <2> QED
    BY <1>0, <2>1, <2>2
<1>2. CASE c # ""
  <2>1. idx = FirstNamed(cs, c)
    BY <1>2 DEF IndexFor
  <2>2. \/ idx = 0
        \/ idx \in 1..Len(cs) /\ cs[idx].name = c /\ \A i \in 1..Len(cs) : cs[i].name = c => idx <= i
    BY <2>1, FirstIs
  <2>3. CASE idx \in 1..Len(cs) /\ cs[idx].name = c /\ \A i \in 1..Len(cs) : cs[i].name = c => idx <= i
    <3>1. 1 \in 1..Len(cs) /\ idx \in Nat /\ idx >= 1
      BY <1>0, <2>3
    <3>2. cs[1].name = c => idx = 1
      BY <2>3, <3>1
    <3> QED
      BY <1>2, <2>3, <3>2 DEF IsFor
  <2> QED
    BY <2>2, <2>3
<1> QED
  BY <1>1, <1>2

\* one env var of the claim: an error, a panic for a pod without containers, or a
\* change of one container's env
LEMMA InjectOneIs ==
  ASSUME NEW pod \in Pod, NEW e \in ClaimEnvVar, NEW policy, NEW res, res = InjectOne(Done(pod), e, policy)
  PROVE  \/ res.r = "error"
         \/ res.r = "panic" /\ pod.containers = <<>>
         \/ \E idx \in 1..Len(pod.containers) : \E new :
              /\ res = Done(WithEnv(pod, idx, new))
              /\ idx = 1 <=> IsFor(e.container, pod.containers[1].name)
              /\ Changed(pod.containers[idx].env, e, policy, new)
<1> DEFINE cs == pod.containers
           idx == IndexFor(cs, e.container)
           env == cs[idx].env
           at == FirstNamed(env, e.name)
           x == [name |-> e.name, value |-> e.value, from |-> FALSE]
           app == Append(env, x)
           ovr == [env EXCEPT ![at] = Override(env[at], e.value)]
           Set(new) == Done(WithEnv(pod, idx, new))
<1>1. cs \in Seq(Container) /\ Len(cs) \in Nat
  BY DEF Pod
<1>2. \/ idx = 0
      \/ idx = 1 /\ Len(cs) = 0
      \/ idx \in 1..Len(cs) /\ (idx = 1 <=> IsFor(e.container, cs[1].name))
  <2> HIDE DEF cs
  <2> QED
    BY <1>1, ContainerFor
<1>3. idx \in 1..Len(cs) => (idx = 1 <=> IsFor(e.container, cs[1].name))
  BY <1>1, <1>2
<1>4. idx \in 1..Len(cs) => /\ env \in Seq(EnvVar)
                            /\ \/ at = 0 /\ \A k \in 1..Len(env) : env[k].name # e.name
                               \/ at \in 1..Len(env) /\ env[at].name = e.name
  <2> SUFFICES ASSUME idx \in 1..Len(cs)
               PROVE  /\ env \in Seq(EnvVar)
                      /\ \/ at = 0 /\ \A k \in 1..Len(env) : env[k].name # e.name
                         \/ at \in 1..Len(env) /\ env[at].name = e.name
    OBVIOUS
  <2> HIDE DEF idx, cs
  <2>1. cs[idx] \in Container
    BY <1>1
  <2>2. env \in Seq(EnvVar)
    BY <2>1 DEF Container
  <2> HIDE DEF env
  <2> QED
    BY <2>2, FirstIs
<1>5. res = IF idx = 0 THEN Failed("error", pod)
            ELSE IF idx > Len(cs) THEN Failed("panic", pod)
            ELSE IF at = 0 THEN Set(app)
            ELSE IF policy = "Overrides" THEN Set(ovr)
            ELSE Failed("error", pod)
  <2> DEFINE r5 == Set([env EXCEPT ![at] = Override(@, e.value)])
  <2>1. r5 = Set(ovr)
    BY DEF Override
  <2>2. Done(pod).r = "done" /\ Done(pod).v = pod
    BY DEF Done
  <2>3. InjectOne(Done(pod), e, policy) =
          CASE Done(pod).r # "done" -> Done(pod)
            [] Done(pod).r = "done" /\ idx = 0 -> Failed("error", pod)
            [] Done(pod).r = "done" /\ idx > Len(cs) -> Failed("panic", pod)
            [] OTHER -> CASE at = 0 -> Set(app)
                          [] at # 0 /\ policy = "Overrides" -> r5
                          [] OTHER -> Failed("error", pod)
    BY <2>2 DEF InjectOne, IndexFor, WithEnv
  <2> HIDE DEF r5, Set, app, ovr, env, at, idx, cs
  <2> QED
    BY <1>1, <1>2, <2>1, <2>2, <2>3
<1>6. Failed("error", pod).r = "error" /\ Failed("panic", pod).r = "panic"
  BY DEF Failed
<1>7. idx > Len(cs) /\ idx # 0 => cs = <<>>
  <2> HIDE DEF idx, cs
  <2> QED
    BY <1>1, <1>2
<1>8. ASSUME idx \in 1..Len(cs), NEW new, res = Set(new), Changed(env, e, policy, new)
      PROVE  \E j \in 1..Len(cs) : \E w :
              /\ res = Done(WithEnv(pod, j, w))
              /\ j = 1 <=> IsFor(e.container, cs[1].name)
              /\ Changed(cs[j].env, e, policy, w)
  <2> HIDE DEF idx
  <2> WITNESS idx \in 1..Len(cs)
  <2> WITNESS new
  <2> QED
    BY <1>3, <1>8
<1>9. at = 0 /\ idx \in 1..Len(cs) => Changed(env, e, policy, app)
  BY <1>4 DEF Changed
<1>10. at # 0 /\ idx \in 1..Len(cs) /\ policy = "Overrides" => Changed(env, e, policy, ovr)
  <2> SUFFICES ASSUME at # 0, idx \in 1..Len(cs), policy = "Overrides" PROVE Changed(env, e, policy, ovr)
    OBVIOUS
  <2>1. at \in 1..Len(env) /\ env[at].name = e.name
    BY <1>4
  <2> HIDE DEF env, at
  <2> QED
    BY <2>1 DEF Changed
<1> HIDE DEF Set, app, ovr, env, at, idx
<1>11. idx = 0 \/ (idx > Len(cs) /\ idx # 0) \/ idx \in 1..Len(cs)
  BY <1>1, <1>2
<1>12. CASE idx = 0
  BY <1>5, <1>6, <1>12
<1>13. CASE idx > Len(cs) /\ idx # 0
  BY <1>5, <1>6, <1>7, <1>13
<1>14. CASE idx \in 1..Len(cs)
  <2>1. idx # 0 /\ ~(idx > Len(cs))
    BY <1>1, <1>14
  <2>2. CASE at = 0
    BY <1>5, <1>8, <1>9, <1>14, <2>1, <2>2
  <2>3. CASE at # 0 /\ policy = "Overrides"
    BY <1>5, <1>8, <1>10, <1>14, <2>1, <2>3
  <2>4. CASE at # 0 /\ policy # "Overrides"
    BY <1>5, <1>6, <2>1, <2>4
  <2> QED
    BY <2>2, <2>3, <2>4
<1> QED
  BY <1>11, <1>12, <1>13, <1>14

\* q is the pod but for its env and what nobody here reads
SamePod(pod, q) ==
  /\ q \in Pod /\ q.volumes = pod.volumes /\ Len(q.containers) = Len(pod.containers)
  /\ \A k \in 1..Len(pod.containers) : /\ q.containers[k].name = pod.containers[k].name
                                       /\ q.containers[k].mounts = pod.containers[k].mounts

EnvOf(pod) == pod.containers[1].env
NameOf(pod) == pod.containers[1].name
\* what injectEnv's loop has made of the pod after the env vars u
Injects(pod, u, policy, acc) ==
  \/ acc.r = "error"
  \/ acc.r = "panic" /\ pod.containers = <<>>
  \/ \E q \in Pod : /\ acc = Done(q) /\ SamePod(pod, q)
                    /\ Len(pod.containers) > 0 =>
                         Carries(For(u, NameOf(pod)), u, policy, EnvOf(pod), EnvOf(q))

\* one more of the claim's env vars, for a container's env
LEMMA ChangeCarries ==
  ASSUME NEW u \in Seq(ClaimEnvVar), NEW e \in ClaimEnvVar, NEW name, NEW policy,
         IsFor(e.container, name), NEW F, NEW E \in Seq(EnvVar), NEW new, Changed(E, e, policy, new),
         Carries(For(u, name), u, policy, F, E)
  PROVE  /\ new \in Seq(EnvVar)
         /\ Carries(For(Append(u, e), name), Append(u, e), policy, F, new)
<1> DEFINE I == For(u, name)
           v == Append(u, e)
           J == For(v, name)
<1>1. OneMoreFor(I, u, J, v, e)
  BY ForMore
<1> HIDE DEF I, J, v
<1>2. CASE /\ \A k \in 1..Len(E) : E[k].name # e.name
           /\ new = Append(E, [name |-> e.name, value |-> e.value, from |-> FALSE])
  <2> DEFINE x == [name |-> e.name, value |-> e.value, from |-> FALSE]
  <2>1. x \in EnvVar /\ Holds(x, e)
    BY DEF EnvVar, ClaimEnvVar, Holds
  <2>2. new = Append(E, x)
    BY <1>2
  <2> HIDE DEF x
  <2> DEFINE R == EnvVar
  <2>3. E \in Seq(R) /\ x \in R
    BY <2>1
  <2> HIDE DEF R
  <2>4. new \in Seq(R) /\ Len(new) = Len(E) + 1 /\ new[Len(E) + 1] = x /\ \A k \in 1..Len(E) : new[k] = E[k]
    BY <2>2, <2>3
  <2>5. Carries(J, v, policy, F, new)
    <3>1. Carries(I, u, policy, F, E) /\ \A k \in 1..Len(E) : E[k].name # e.name
      BY <1>2 DEF I
    <3> QED
      BY <1>1, <2>1, <2>4, <3>1, CarriesNew
  <2> QED
    BY <2>4, <2>5 DEF R, J, v
<1>3. CASE /\ policy = "Overrides"
           /\ \E at \in 1..Len(E) : E[at].name = e.name /\ new = [E EXCEPT ![at] = Override(E[at], e.value)]
  <2>1. PICK at \in 1..Len(E) : E[at].name = e.name /\ new = [E EXCEPT ![at] = Override(E[at], e.value)]
    BY <1>3
  <2> DEFINE x == Override(E[at], e.value)
  <2>2. x \in EnvVar /\ Holds(x, e)
    <3>1. E[at] \in EnvVar /\ e.value \in STRING
      BY DEF ClaimEnvVar
    <3> QED
      BY <2>1, <3>1 DEF EnvVar, Override, Holds
  <2> HIDE DEF x
  <2>3. new = [E EXCEPT ![at] = x]
    BY <2>1 DEF x
  <2>4. new \in Seq(EnvVar) /\ Len(new) = Len(E) /\ new[at] = x /\ \A k \in 1..Len(E) : k # at => new[k] = E[k]
    BY <2>2, <2>3, SetAt
  <2>5. Holds(new[at], e) /\ Carries(I, u, policy, F, E)
    BY <2>2, <2>4 DEF I
  <2>6. Carries(J, v, policy, F, new)
    <3>1. policy = "Overrides" /\ E[at].name = e.name
      BY <1>3, <2>1
    <3> QED
      BY <1>1, <2>4, <2>5, <3>1, CarriesOverride
  <2> QED
    BY <2>4, <2>6 DEF J, v
<1> QED
  BY <1>2, <1>3 DEF Changed

\* and the loop's invariant goes on to hold after it
LEMMA InjectKeeps ==
  ASSUME NEW pod \in Pod, NEW u \in Seq(ClaimEnvVar), NEW e \in ClaimEnvVar, NEW policy, NEW acc,
         Injects(pod, u, policy, acc)
  PROVE  Injects(pod, Append(u, e), policy, InjectOne(acc, e, policy))
<1>1. CASE acc.r # "done"
  <2>1. InjectOne(acc, e, policy) = acc
    BY <1>1 DEF InjectOne
  <2>2. acc.r = "error" \/ (acc.r = "panic" /\ pod.containers = <<>>)
    BY <1>1 DEF Injects, Done
  <2> QED
    BY <2>1, <2>2 DEF Injects
<1>2. CASE acc.r = "done"
  <2> DEFINE v == Append(u, e)
             res == InjectOne(acc, e, policy)
             name == NameOf(pod)
  <2>1. PICK q \in Pod : /\ acc = Done(q) /\ SamePod(pod, q)
                         /\ Len(pod.containers) > 0 =>
                              Carries(For(u, name), u, policy, EnvOf(pod), EnvOf(q))
    BY <1>2 DEF Injects
  <2> HIDE DEF res, v
  <2>2. \/ res.r = "error"
        \/ res.r = "panic" /\ q.containers = <<>>
        \/ \E idx \in 1..Len(q.containers) : \E new :
              /\ res = Done(WithEnv(q, idx, new))
              /\ idx = 1 <=> IsFor(e.container, q.containers[1].name)
              /\ Changed(q.containers[idx].env, e, policy, new)
    BY <2>1, InjectOneIs DEF res
  <2>3. pod.containers \in Seq(Container) /\ q.containers \in Seq(Container) /\ Len(q.containers) = Len(pod.containers)
    BY <2>1 DEF Pod, SamePod
  <2>4. CASE res.r = "error"
    BY <2>4 DEF Injects, res
  <2>5. CASE res.r = "panic" /\ q.containers = <<>>
    <3>1. pod.containers = <<>>
      BY <2>3, <2>5
    <3> QED
      BY <2>5, <3>1 DEF Injects, res
  <2>6. ASSUME NEW idx \in 1..Len(q.containers), NEW new,
               res = Done(WithEnv(q, idx, new)),
               idx = 1 <=> IsFor(e.container, q.containers[1].name),
               Changed(q.containers[idx].env, e, policy, new)
        PROVE  Injects(pod, v, policy, res)
    <3> DEFINE E == q.containers[idx].env
               w == WithEnv(q, idx, new)
    <3>1. q.containers[idx] \in Container /\ Len(pod.containers) > 0 /\ 1 \in 1..Len(pod.containers)
      BY <2>3
    <3>2. E \in Seq(EnvVar)
      BY <3>1 DEF Container
    <3>3. q.containers[1].name = name
      BY <2>1, <3>1 DEF SamePod, NameOf
    <3>4. new \in Seq(EnvVar)
      <4>0. E \in Seq(EnvVar) /\ Changed(E, e, policy, new)
        BY <2>6, <3>2
      <4> HIDE DEF E
      <4>1. CASE new = Append(E, [name |-> e.name, value |-> e.value, from |-> FALSE])
        <5>1. [name |-> e.name, value |-> e.value, from |-> FALSE] \in EnvVar
          BY DEF EnvVar, ClaimEnvVar
        <5> DEFINE R == EnvVar
                   x == [name |-> e.name, value |-> e.value, from |-> FALSE]
        <5>2. E \in Seq(R) /\ x \in R /\ new = Append(E, x)
          BY <4>0, <4>1, <5>1
        <5> HIDE DEF R, x
        <5>3. new \in Seq(R)
          BY <5>2, Longer
        <5> QED
          BY <5>3 DEF R
      <4>2. ASSUME NEW at \in 1..Len(E), new = [E EXCEPT ![at] = Override(E[at], e.value)]
            PROVE  new \in Seq(EnvVar)
        <5>1. E[at] \in EnvVar /\ e.value \in STRING
          BY <4>0 DEF ClaimEnvVar
        <5>2. Override(E[at], e.value) \in EnvVar
          BY <5>1 DEF EnvVar, Override
        <5> QED
          BY <4>0, <4>2, <5>2, SetAt
      <4> QED
        BY <4>0, <4>1, <4>2 DEF Changed
    <3> HIDE DEF w
    <3>5. /\ w \in Pod /\ w.volumes = q.volumes
          /\ w.containers \in Seq(Container) /\ Len(w.containers) = Len(q.containers)
          /\ w.containers[idx] = [q.containers[idx] EXCEPT !.env = new]
          /\ \A l \in 1..Len(q.containers) : l # idx => w.containers[l] = q.containers[l]
      <4>1. w = WithEnv(q, idx, new)
        BY DEF w
      <4> QED
        BY <3>4, <4>1, SetEnv
    <3>6. /\ w.containers[idx].name = q.containers[idx].name /\ w.containers[idx].env = new
          /\ w.containers[idx].mounts = q.containers[idx].mounts
      BY <3>1, <3>4, <3>5 DEF Container
    <3>7. SamePod(pod, w)
      BY <2>1, <2>3, <3>5, <3>6 DEF SamePod
    <3>8. Carries(For(v, name), v, policy, EnvOf(pod), EnvOf(w))
      <4>1. Carries(For(u, name), u, policy, EnvOf(pod), EnvOf(q))
        BY <2>1, <3>1
      <4>2. CASE idx = 1
        <5>1. IsFor(e.container, name) /\ EnvOf(q) = E /\ EnvOf(w) = new
          BY <2>6, <3>3, <3>6, <4>2 DEF EnvOf
        <5> QED
          BY <2>6, <3>2, <4>1, <5>1, ChangeCarries DEF v
      <4>3. CASE idx # 1
        <5>1. ~IsFor(e.container, name) /\ EnvOf(w) = EnvOf(q)
          BY <2>3, <2>6, <3>1, <3>3, <3>5, <4>3 DEF EnvOf
        <5>2. For(v, name) = For(u, name) /\ \A i \in For(u, name) : v[i] = u[i]
          BY <5>1, ForMore DEF v
        <5> QED
          BY <4>1, <5>1, <5>2, CarriesOther
      <4> QED
        BY <4>2, <4>3
    <3>9. res = Done(w)
      BY <2>6 DEF w
    <3> QED
      BY <3>5, <3>7, <3>8, <3>9 DEF Injects
  <2> QED
    BY <2>2, <2>4, <2>5, <2>6 DEF res, v
<1> QED
  BY <1>1, <1>2

\* the template's env before the claim's env vars
LEMMA CarriesAll ==
  ASSUME NEW F, Len(F) \in Nat, NEW policy, NEW u
  PROVE  Carries({}, u, policy, F, F)
BY DEF Carries, NamesStay, NewOnce, Given, Known, Untouched

\* without env vars none is for the container
LEMMA ForNone == ASSUME NEW name PROVE For(<<>>, name) = {}
BY DEF For

\* what injectEnv's loop makes of a pod
LEMMA InjectedHolds ==
  ASSUME NEW pod \in Pod, NEW policy, NEW env \in Seq(ClaimEnvVar)
  PROVE  Injects(pod, env, policy, Injected(pod, env, policy))
<1> DEFINE S == ClaimEnvVar
           G == {u \in Seq(S) : Injects(pod, u, policy, Injected(pod, u, policy))}
<1>1. <<>> \in G
  <2> DEFINE nil == <<>>
             name == NameOf(pod)
  <2>1. Injected(pod, nil, policy) = Done(pod) /\ nil \in Seq(S) /\ For(nil, name) = {}
    BY InjectedParts, ForNone
  <2>2. SamePod(pod, pod)
    BY DEF SamePod
  <2>3. Len(pod.containers) > 0 => Len(EnvOf(pod)) \in Nat
    <3> SUFFICES ASSUME Len(pod.containers) > 0 PROVE Len(EnvOf(pod)) \in Nat
      OBVIOUS
    <3>1. pod.containers \in Seq(Container)
      BY DEF Pod
    <3>2. pod.containers[1] \in Container
      BY <3>1
    <3>3. EnvOf(pod) \in Seq(EnvVar)
      BY <3>2 DEF Container, EnvOf
    <3> QED
      BY <3>3
  <2> HIDE DEF nil
  <2>4. Len(pod.containers) > 0 => Carries(For(nil, name), nil, policy, EnvOf(pod), EnvOf(pod))
    BY <2>1, <2>3, CarriesAll
  <2>5. Injects(pod, nil, policy, Done(pod))
    BY <2>2, <2>4 DEF Injects
  <2> QED
    BY <2>1, <2>5 DEF nil
<1>2. ASSUME NEW u \in Seq(S), NEW e \in S, u \in G PROVE Append(u, e) \in G
  <2>1. Injects(pod, Append(u, e), policy, InjectOne(Injected(pod, u, policy), e, policy))
    BY <1>2, InjectKeeps
  <2> HIDE DEF S
  <2>2. Injected(pod, Append(u, e), policy) = InjectOne(Injected(pod, u, policy), e, policy) /\ Append(u, e) \in Seq(S)
    BY InjectedParts, Longer
  <2> QED
    BY <2>1, <2>2, Zenon
<1>3. Seq(S) \subseteq G
  <2> HIDE DEF G, S
  <2> QED
    BY <1>1, <1>2, Scanning!SeqSet
<1> QED
  BY <1>3

\* MapPodSpec's map takes each value from an env var of the name, and has the
\* name of every plain one
MapOf(env, map) ==
  /\ \A n \in DOMAIN map : \E k \in 1..Len(env) : env[k].name = n /\ map[n] = env[k].value
  /\ \A k \in 1..Len(env) : env[k].from = FALSE => env[k].name \in DOMAIN map

\* MapPodSpec's map of an env is such a map
LEMMA EnvMapIs ==
  ASSUME NEW env, Len(env) \in Nat, DOMAIN env = 1..Len(env), \A k \in 1..Len(env) : env[k].from \in BOOLEAN
  PROVE  MapOf(env, EnvMap(env))
<1> DEFINE plain == {i \in 1..Len(env) : ~env[i].from}
           named(n) == {i \in plain : env[i].name = n}
           D == {env[i].name : i \in plain}
           V(n) == env[Max(named(n))].value
<1>1. EnvMap(env) = [n \in D |-> V(n)]
  BY DEF EnvMap
<1>2. ASSUME NEW n \in D PROVE \E k \in 1..Len(env) : env[k].name = n /\ V(n) = env[k].value
  <2>1. named(n) \in SUBSET (1..Len(env)) /\ named(n) # {}
    OBVIOUS
  <2>2. Max(named(n)) \in named(n)
    <3> HIDE DEF named
    <3> QED
      BY <2>1, Scanning!TopOf DEF Max, Scanning!Top
  <2> QED
    BY <2>2
<1>3. ASSUME NEW k \in 1..Len(env), env[k].from = FALSE PROVE env[k].name \in D
  BY <1>3
<1> HIDE DEF D, V
<1>4. DOMAIN EnvMap(env) = D /\ \A n \in D : EnvMap(env)[n] = V(n)
  BY <1>1
<1>5. ASSUME NEW n \in DOMAIN EnvMap(env)
      PROVE  \E k \in 1..Len(env) : env[k].name = n /\ EnvMap(env)[n] = env[k].value
  BY <1>2, <1>4
<1>6. ASSUME NEW k \in 1..Len(env), env[k].from = FALSE PROVE env[k].name \in DOMAIN EnvMap(env)
  BY <1>3, <1>4, <1>6
<1> QED
  BY <1>5, <1>6 DEF MapOf

DeclaredIn(F, n) == {k \in 1..Len(F) : F[k].name = n}

\* what the process sees of an env that carries the claim's
Seen(I, u, policy, F, map) ==
  /\ \A i \in I : LastOf(I, u, i) /\ (\A k, l \in DeclaredIn(F, u[i].name) : k = l) =>
       u[i].name \in DOMAIN map /\ map[u[i].name] = u[i].value
  /\ \A n \in DOMAIN map : \/ \E i \in I : u[i].name = n
                           \/ \E k \in DeclaredIn(F, n) : map[n] = F[k].value
  /\ \A k \in 1..Len(F) : DeclaredIn(F, F[k].name) = {k} /\ F[k].from = FALSE /\ policy # "Overrides" =>
       map[F[k].name] = F[k].value

\* MapPodSpec's map of an env that carries the claim's shows that to the process
LEMMA CarriesSeen ==
  ASSUME NEW I, NEW u, NEW policy, NEW F, NEW E, Carries(I, u, policy, F, E),
         DOMAIN E = 1..Len(E), \A k \in 1..Len(E) : E[k].from \in BOOLEAN,
         NEW map, map = EnvMap(E)
  PROVE  Seen(I, u, policy, F, map)
<1>1. Len(F) \in Nat /\ Len(E) \in Nat /\ Len(F) <= Len(E)
  BY DEF Carries, NamesStay
<1>2. /\ \A n \in DOMAIN map : \E k \in 1..Len(E) : E[k].name = n /\ map[n] = E[k].value
      /\ \A k \in 1..Len(E) : E[k].from = FALSE => E[k].name \in DOMAIN map
  <2>1. MapOf(E, map)
    BY <1>1, EnvMapIs
  <2> QED
    BY <2>1 DEF MapOf
<1>3. ASSUME NEW n, \A k, l \in DeclaredIn(F, n) : k = l,
             NEW k \in 1..Len(E), NEW l \in 1..Len(E), E[k].name = n, E[l].name = n
      PROVE  k = l
  <2>1. CASE k > Len(F) \/ l > Len(F)
    BY <1>3, <2>1 DEF Carries, NewOnce
  <2>2. CASE k \in 1..Len(F) /\ l \in 1..Len(F)
    <3>1. F[k].name = n /\ F[l].name = n
      BY <1>3, <2>2 DEF Carries, NamesStay
    <3> QED
      BY <1>3, <2>2, <3>1 DEF DeclaredIn
  <2> QED
    BY <1>1, <2>1, <2>2
<1>4. ASSUME NEW k \in 1..Len(E), E[k].from = FALSE, \A x, y \in DeclaredIn(F, E[k].name) : x = y
      PROVE  E[k].name \in DOMAIN map /\ map[E[k].name] = E[k].value
  <2>1. E[k].name \in DOMAIN map
    BY <1>2, <1>4
  <2>2. PICK l \in 1..Len(E) : E[l].name = E[k].name /\ map[E[k].name] = E[l].value
    BY <1>2, <2>1
  <2>3. k = l
    BY <1>3, <1>4, <2>2
  <2> QED
    BY <2>1, <2>2, <2>3
<1>5. ASSUME NEW i \in I, LastOf(I, u, i), \A k, l \in DeclaredIn(F, u[i].name) : k = l
      PROVE  u[i].name \in DOMAIN map /\ map[u[i].name] = u[i].value
  <2>1. PICK k \in 1..Len(E) : Holds(E[k], u[i])
    BY <1>5 DEF Carries, Given
  <2>2. E[k].name = u[i].name /\ E[k].value = u[i].value /\ E[k].from = FALSE
    BY <2>1 DEF Holds
  <2>3. \A x, y \in DeclaredIn(F, E[k].name) : x = y
    BY <1>5, <2>2
  <2> QED
    BY <1>4, <2>2, <2>3
<1>6. ASSUME NEW n \in DOMAIN map
      PROVE  (\E i \in I : u[i].name = n) \/ \E k \in DeclaredIn(F, n) : map[n] = F[k].value
  <2>1. PICK k \in 1..Len(E) : E[k].name = n /\ map[n] = E[k].value
    BY <1>2
  <2>2. CASE k <= Len(F) /\ E[k] = F[k]
    BY <1>1, <2>1, <2>2 DEF DeclaredIn
  <2>3. CASE \E i \in I : u[i].name = E[k].name
    BY <2>1, <2>3
  <2> QED
    BY <2>2, <2>3 DEF Carries, Known
<1>7. ASSUME NEW k \in 1..Len(F), DeclaredIn(F, F[k].name) = {k}, F[k].from = FALSE, policy # "Overrides"
      PROVE  map[F[k].name] = F[k].value
  <2>1. E[k] = F[k] /\ k \in 1..Len(E)
    BY <1>1, <1>7 DEF Carries, Untouched
  <2>2. \A x, y \in DeclaredIn(F, E[k].name) : x = y
    BY <1>7, <2>1
  <2> QED
    BY <1>4, <1>7, <2>1, <2>2
<1> QED
  BY <1>5, <1>6, <1>7 DEF Seen

(***************************************************************************)
(* volumeClaimTemplates, volumes and mounts.                               *)
(***************************************************************************)
\* what a sequence has, and the names it has
Among(x, s) == \E j \in 1..Len(s) : s[j] = x
NameAmong(n, s) == \E j \in 1..Len(s) : s[j].name = n

\* what is in a sequence with one element more
LEMMA AmongMore ==
  ASSUME NEW S, NEW s \in Seq(S), NEW e \in S
  PROVE  /\ Append(s, e) \in Seq(S) /\ Len(Append(s, e)) = Len(s) + 1 /\ Len(s) \in Nat
         /\ Append(s, e)[Len(s) + 1] = e /\ \A k \in 1..Len(s) : Append(s, e)[k] = s[k]
         /\ \A x : Among(x, Append(s, e)) <=> Among(x, s) \/ x = e
         /\ \A n : NameAmong(n, Append(s, e)) <=> NameAmong(n, s) \/ n = e.name
<1> DEFINE t == Append(s, e)
<1>1. /\ t \in Seq(S) /\ Len(t) = Len(s) + 1 /\ Len(s) \in Nat
      /\ t[Len(s) + 1] = e /\ \A k \in 1..Len(s) : t[k] = s[k]
  OBVIOUS
<1> HIDE DEF t
<1>2. ASSUME NEW x PROVE Among(x, t) <=> Among(x, s) \/ x = e
  <2>1. ASSUME NEW j \in 1..Len(t), t[j] = x PROVE Among(x, s) \/ x = e
    <3>1. j \in 1..Len(s) \/ j = Len(s) + 1
      BY <1>1
    <3> QED
      BY <1>1, <2>1, <3>1 DEF Among
  <2>2. ASSUME NEW j \in 1..Len(s), s[j] = x PROVE Among(x, t)
    <3>1. j \in 1..Len(t) /\ t[j] = x
      BY <1>1, <2>2
    <3> QED
      BY <3>1 DEF Among
  <2>3. Among(e, t)
    <3>1. Len(s) + 1 \in 1..Len(t) /\ t[Len(s) + 1] = e
      BY <1>1
    <3> QED
      BY <3>1 DEF Among
  <2> QED
    BY <2>1, <2>2, <2>3 DEF Among
<1>3. ASSUME NEW n PROVE NameAmong(n, t) <=> NameAmong(n, s) \/ n = e.name
  <2>1. ASSUME NEW j \in 1..Len(t), t[j].name = n PROVE NameAmong(n, s) \/ n = e.name
    <3>1. j \in 1..Len(s) \/ j = Len(s) + 1
      BY <1>1
    <3> QED
      BY <1>1, <2>1, <3>1 DEF NameAmong
  <2>2. ASSUME NEW j \in 1..Len(s), s[j].name = n PROVE NameAmong(n, t)
    <3>1. j \in 1..Len(t) /\ t[j].name = n
      BY <1>1, <2>2
    <3> QED
      BY <3>1 DEF NameAmong
  <2>3. NameAmong(e.name, t)
    <3>1. Len(s) + 1 \in 1..Len(t) /\ t[Len(s) + 1].name = e.name
      BY <1>1
    <3> QED
      BY <3>1 DEF NameAmong
  <2> QED
    BY <2>1, <2>2, <2>3 DEF NameAmong
<1> QED
  BY <1>1, <1>2, <1>3 DEF t

\* nothing is in the empty sequence
LEMMA AmongNone == (\A x : ~Among(x, <<>>)) /\ \A n : ~NameAmong(n, <<>>)
BY DEF Among, NameAmong

MergeStep(policy, acc, v) == MergeOne(acc, v, policy)
Merging == INSTANCE Folding WITH Op <- MergeStep
Merged(base, u, policy) == FoldLeft(LAMBDA acc, v : MergeOne(acc, v, policy), Done(base), u)

\* mergeVCT's loop is a fold: over no volumeClaimTemplates, and over one more
LEMMA MergedParts ==
  ASSUME NEW base, NEW policy
  PROVE  /\ Merged(base, <<>>, policy) = Done(base)
         /\ \A S : \A u \in Seq(S), e \in S :
              Merged(base, Append(u, e), policy) = MergeOne(Merged(base, u, policy), e, policy)
<1> DEFINE b == Done(base)
<1>1. ASSUME NEW u PROVE Merged(base, u, policy) = Merging!Fold(policy, b, u)
  BY DEF Merged, FoldLeft, MapThenFoldSet, Max, MergeStep,
         Merging!Fold, Merging!MapThenFoldSet, Merging!Top
<1> HIDE DEF b
<1>2. Merged(base, <<>>, policy) = b
  BY <1>1, Merging!FoldEmpty
<1>3. ASSUME NEW S, NEW u \in Seq(S), NEW e \in S
      PROVE  Merged(base, Append(u, e), policy) = MergeOne(Merged(base, u, policy), e, policy)
  <2>1. Merging!Fold(policy, b, Append(u, e)) = MergeStep(policy, Merging!Fold(policy, b, u), e)
    BY Merging!FoldAppend
  <2> QED
    BY <1>1, <2>1 DEF MergeStep
<1> QED
  BY <1>2, <1>3 DEF b

\* w has the names of base and of u, and nothing that neither has
Union(base, u, w) ==
  /\ \A k \in 1..Len(w) : Among(w[k], base) \/ Among(w[k], u)
  /\ \A n : NameAmong(n, base) \/ NameAmong(n, u) => NameAmong(n, w)
\* what mergeVCT's loop has made of base after the volumeClaimTemplates u
Merges(S, base, u, acc) ==
  \/ acc.r = "rejected"
  \/ \E w \in Seq(S) : acc = Done(w) /\ Union(base, u, w)

\* one more of the claim's volumeClaimTemplates is added, replaces the one of its
\* name, or is rejected
LEMMA MergeKeeps ==
  ASSUME NEW S, NEW base, NEW u \in Seq(S), NEW e \in S, NEW policy, NEW acc, Merges(S, base, u, acc)
  PROVE  Merges(S, base, Append(u, e), MergeOne(acc, e, policy))
<1> DEFINE v == Append(u, e)
<1>0. /\ \A x : Among(x, v) <=> Among(x, u) \/ x = e
      /\ \A n : NameAmong(n, v) <=> NameAmong(n, u) \/ n = e.name
  BY AmongMore
<1> HIDE DEF v
<1>1. CASE acc.r # "done"
  <2>1. MergeOne(acc, e, policy) = acc
    BY <1>1 DEF MergeOne
  <2>2. acc.r = "rejected"
    BY <1>1 DEF Merges, Done
  <2> QED
    BY <2>1, <2>2 DEF Merges
<1>2. CASE acc.r = "done"
  <2>1. PICK w \in Seq(S) : acc = Done(w) /\ Union(base, u, w)
    BY <1>2 DEF Merges
  <2> DEFINE at == LastNamed(w, e.name)
  <2>2. \/ at = 0
        \/ at \in 1..Len(w) /\ w[at].name = e.name
    BY LastIs
  <2>3. acc.v = w
    BY <2>1 DEF Done
  <2>4. MergeOne(acc, e, policy) = IF at = 0 THEN Done(Append(w, e))
                                   ELSE IF policy = "Overrides" THEN Done([w EXCEPT ![at] = e])
                                   ELSE Failed("rejected", w)
    <3>1. MergeOne(acc, e, policy) =
            CASE acc.r # "done" -> acc
              [] acc.r = "done" /\ at = 0 -> Done(Append(w, e))
              [] acc.r = "done" /\ at # 0 /\ policy = "Overrides" -> Done([w EXCEPT ![at] = e])
              [] OTHER -> Failed("rejected", w)
      BY <2>3 DEF MergeOne
    <3> HIDE DEF at
    <3> QED
      BY <1>2, <3>1
  <2> HIDE DEF at
  <2>5. CASE at = 0
    <3> DEFINE x == Append(w, e)
    <3>1. /\ x \in Seq(S) /\ Len(x) = Len(w) + 1 /\ Len(w) \in Nat
          /\ x[Len(w) + 1] = e /\ \A k \in 1..Len(w) : x[k] = w[k]
          /\ \A n : NameAmong(n, x) <=> NameAmong(n, w) \/ n = e.name
      BY AmongMore
    <3>2. MergeOne(acc, e, policy) = Done(x)
      BY <2>4, <2>5
    <3> HIDE DEF x
    <3>3. ASSUME NEW k \in 1..Len(x) PROVE Among(x[k], base) \/ Among(x[k], v)
      <4>1. k \in 1..Len(w) \/ k = Len(w) + 1
        BY <3>1
      <4> QED
        BY <1>0, <2>1, <3>1, <4>1 DEF Union
    <3>4. \A n : NameAmong(n, base) \/ NameAmong(n, v) => NameAmong(n, x)
      BY <1>0, <2>1, <3>1 DEF Union
    <3>5. Union(base, v, x)
      BY <3>3, <3>4 DEF Union
    <3> QED
      BY <3>1, <3>2, <3>5 DEF Merges, v
  <2>6. CASE at # 0 /\ policy = "Overrides"
    <3> DEFINE x == [w EXCEPT ![at] = e]
    <3>0. at \in 1..Len(w) /\ w[at].name = e.name
      BY <2>2, <2>6
    <3>1. x \in Seq(S) /\ Len(x) = Len(w) /\ x[at] = e /\ \A k \in 1..Len(w) : k # at => x[k] = w[k]
      BY <3>0, SetAt
    <3>2. MergeOne(acc, e, policy) = Done(x)
      BY <2>4, <2>6
    <3> HIDE DEF x
    <3>3. ASSUME NEW k \in 1..Len(x) PROVE Among(x[k], base) \/ Among(x[k], v)
      <4>1. CASE k = at
        BY <1>0, <3>1, <4>1
      <4>2. CASE k # at
        <5>1. x[k] = w[k] /\ k \in 1..Len(w)
          BY <3>1, <4>2
        <5> QED
          BY <1>0, <2>1, <5>1 DEF Union
      <4> QED
        BY <4>1, <4>2
    <3>4. ASSUME NEW n, NameAmong(n, w) PROVE NameAmong(n, x)
      <4>1. \A k \in 1..Len(w) : x[k].name = w[k].name
        BY <3>0, <3>1
      <4> QED
        BY <3>1, <3>4, <4>1 DEF NameAmong
    <3>5. NameAmong(e.name, x)
      BY <3>0, <3>1 DEF NameAmong
    <3>6. Union(base, v, x)
      BY <1>0, <2>1, <3>3, <3>4, <3>5 DEF Union
    <3> QED
      BY <3>1, <3>2, <3>6 DEF Merges, v
  <2>7. CASE at # 0 /\ policy # "Overrides"
    BY <2>4, <2>7 DEF Failed, Merges
  <2> QED
    BY <2>5, <2>6, <2>7
<1> QED
  BY <1>1, <1>2

\* mergeVCT's loop
LEMMA MergedHolds ==
  ASSUME NEW S, NEW base \in Seq(S), NEW policy, NEW vct \in Seq(S)
  PROVE  Merges(S, base, vct, Merged(base, vct, policy))
<1> DEFINE G == {u \in Seq(S) : Merges(S, base, u, Merged(base, u, policy))}
<1>1. <<>> \in G
  <2> DEFINE nil == <<>>
  <2>1. Merged(base, nil, policy) = Done(base) /\ nil \in Seq(S) /\ \A n : ~NameAmong(n, nil)
    BY MergedParts, AmongNone
  <2> HIDE DEF nil
  <2>2. Union(base, nil, base)
    BY <2>1 DEF Union, Among
  <2>3. Merges(S, base, nil, Done(base))
    BY <2>2 DEF Merges
  <2> QED
    BY <2>1, <2>3 DEF nil
<1>2. ASSUME NEW u \in Seq(S), NEW e \in S, u \in G PROVE Append(u, e) \in G
  <2>1. Merges(S, base, Append(u, e), MergeOne(Merged(base, u, policy), e, policy))
    BY <1>2, MergeKeeps
  <2>2. Merged(base, Append(u, e), policy) = MergeOne(Merged(base, u, policy), e, policy) /\ Append(u, e) \in Seq(S)
    BY MergedParts, Longer
  <2> QED
    BY <2>1, <2>2, Zenon
<1>3. Seq(S) \subseteq G
  <2> HIDE DEF G
  <2> QED
    BY <1>1, <1>2, Scanning!SeqSet
<1> QED
  BY <1>3

VolumeStep(sandbox, vs, t) == injectPodVolume(vs, t.name, PVCName(t, sandbox))
Attaching == INSTANCE Folding WITH Op <- VolumeStep
Attached(vs, u, sandbox) == FoldLeft(LAMBDA a, t : injectPodVolume(a, t.name, PVCName(t, sandbox)), vs, u)

\* reconcileRunning's loop over the volumeClaimTemplates is a fold
LEMMA AttachedFold == ASSUME NEW vs, NEW sandbox, NEW u PROVE Attached(vs, u, sandbox) = Attaching!Fold(sandbox, vs, u)
BY DEF Attached, FoldLeft, MapThenFoldSet, Max, VolumeStep,
       Attaching!Fold, Attaching!MapThenFoldSet, Attaching!Top

\* without volumeClaimTemplates the volumes stay
LEMMA AttachedNone == ASSUME NEW vs, NEW sandbox PROVE Attached(vs, <<>>, sandbox) = vs
BY AttachedFold, Attaching!FoldEmpty

\* and one more is one injectPodVolume more
LEMMA AttachedMore ==
  ASSUME NEW vs, NEW sandbox, NEW S, NEW u \in Seq(S), NEW t \in S
  PROVE  Attached(vs, Append(u, t), sandbox) = VolumeStep(sandbox, Attached(vs, u, sandbox), t)
<1>1. Attaching!Fold(sandbox, vs, Append(u, t)) = VolumeStep(sandbox, Attaching!Fold(sandbox, vs, u), t)
  BY Attaching!FoldAppend
<1> QED
  BY <1>1, AttachedFold

\* the volume that a volumeClaimTemplate of the name stands for
Own(n, sandbox) == PVCVolume(n, n \o "-" \o sandbox)

\* that volume has the name, and is what injectPodVolume is called with
LEMMA OwnIs ==
  ASSUME NEW n, NEW sandbox
  PROVE  Own(n, sandbox).name = n /\ \A t : t.name = n => PVCVolume(t.name, PVCName(t, sandbox)) = Own(n, sandbox)
BY DEF Own, PVCVolume, PVCName

\* ws, a pod's volumes after the volumeClaimTemplates u, against vs, those before
Attaches(vs, u, sandbox, ws) ==
  /\ Len(vs) \in Nat /\ Len(ws) \in Nat /\ NamesStay(vs, ws) /\ NewOnce(vs, ws)
  /\ \A k \in 1..Len(ws) : \/ k <= Len(vs) /\ ws[k] = vs[k]
                           \/ \E n : NameAmong(n, u) /\ ws[k] = Own(n, sandbox)
  /\ \A n : NameAmong(n, u) => Among(Own(n, sandbox), ws)

\* injectPodVolume of a new name
LEMMA AttachNew ==
  ASSUME NEW vs, NEW u, NEW v, NEW n, NEW sandbox, NEW ws, NEW xs, Attaches(vs, u, sandbox, ws),
         \A m : NameAmong(m, v) <=> NameAmong(m, u) \/ m = n,
         Len(xs) = Len(ws) + 1, xs[Len(ws) + 1] = Own(n, sandbox), \A k \in 1..Len(ws) : xs[k] = ws[k],
         \A k \in 1..Len(ws) : ws[k].name # n
  PROVE  Attaches(vs, v, sandbox, xs)
<1>1. Len(vs) \in Nat /\ Len(ws) \in Nat /\ Len(xs) \in Nat /\ Len(vs) <= Len(ws)
  BY DEF Attaches, NamesStay
<1>2. NamesStay(vs, xs)
  BY <1>1 DEF Attaches, NamesStay
<1>3. NewOnce(vs, xs)
  <2> SUFFICES ASSUME NEW k \in 1..Len(xs), NEW l \in 1..Len(xs), k > Len(vs), xs[l].name = xs[k].name
               PROVE  l = k
    BY DEF NewOnce
  <2>0. xs[Len(ws) + 1].name = n
    BY OwnIs
  <2>1. CASE k \in 1..Len(ws) /\ l \in 1..Len(ws)
    BY <2>1 DEF Attaches, NewOnce
  <2>2. CASE k = Len(ws) + 1 /\ l \in 1..Len(ws)
    BY <2>0, <2>2
  <2>3. CASE l = Len(ws) + 1 /\ k \in 1..Len(ws)
    BY <2>0, <2>3
  <2> QED
    BY <1>1, <2>1, <2>2, <2>3
<1>4. ASSUME NEW k \in 1..Len(xs)
      PROVE  \/ k <= Len(vs) /\ xs[k] = vs[k]
             \/ \E m : NameAmong(m, v) /\ xs[k] = Own(m, sandbox)
  <2>1. CASE k = Len(ws) + 1
    BY <2>1
  <2>2. CASE k \in 1..Len(ws)
    <3>1. \/ k <= Len(vs) /\ ws[k] = vs[k]
          \/ \E m : NameAmong(m, u) /\ ws[k] = Own(m, sandbox)
      BY <2>2 DEF Attaches
    <3>2. xs[k] = ws[k]
      BY <2>2
    <3> QED
      BY <3>1, <3>2
  <2> QED
    BY <1>1, <2>1, <2>2
<1>5. ASSUME NEW m, NameAmong(m, v) PROVE Among(Own(m, sandbox), xs)
  <2>1. CASE m = n
    <3>1. Len(ws) + 1 \in 1..Len(xs) /\ xs[Len(ws) + 1] = Own(m, sandbox)
      BY <1>1, <2>1
    <3> QED
      BY <3>1 DEF Among
  <2>2. CASE NameAmong(m, u)
    <3>1. PICK k \in 1..Len(ws) : ws[k] = Own(m, sandbox)
      BY <2>2 DEF Attaches, Among
    <3>2. k \in 1..Len(xs) /\ xs[k] = Own(m, sandbox)
      BY <1>1, <3>1
    <3> QED
      BY <3>2 DEF Among
  <2> QED
    BY <1>5, <2>1, <2>2
<1> QED
  BY <1>1, <1>2, <1>3, <1>4, <1>5 DEF Attaches

\* injectPodVolume of a name that is there
LEMMA AttachAt ==
  ASSUME NEW vs, NEW u, NEW v, NEW n, NEW sandbox, NEW ws, NEW xs, Attaches(vs, u, sandbox, ws),
         \A m : NameAmong(m, v) <=> NameAmong(m, u) \/ m = n,
         NEW at \in 1..Len(ws), ws[at].name = n,
         Len(xs) = Len(ws), xs[at] = Own(n, sandbox), \A k \in 1..Len(ws) : k # at => xs[k] = ws[k]
  PROVE  Attaches(vs, v, sandbox, xs)
<1>1. /\ Len(vs) \in Nat /\ Len(ws) \in Nat /\ Len(vs) <= Len(ws)
      /\ \A k \in 1..Len(ws) : xs[k].name = ws[k].name
  BY OwnIs DEF Attaches, NamesStay
<1>2. NamesStay(vs, xs)
  BY <1>1 DEF Attaches, NamesStay
<1>3. NewOnce(vs, xs)
  BY <1>1 DEF Attaches, NewOnce
<1>4. ASSUME NEW k \in 1..Len(xs)
      PROVE  \/ k <= Len(vs) /\ xs[k] = vs[k]
             \/ \E m : NameAmong(m, v) /\ xs[k] = Own(m, sandbox)
  <2>1. CASE k = at
    BY <2>1
  <2>2. CASE k # at
    <3>1. \/ k <= Len(vs) /\ ws[k] = vs[k]
          \/ \E m : NameAmong(m, u) /\ ws[k] = Own(m, sandbox)
      BY <2>2 DEF Attaches
    <3>2. xs[k] = ws[k]
      BY <2>2
    <3> QED
      BY <3>1, <3>2
  <2> QED
    BY <2>1, <2>2
<1>5. ASSUME NEW m, NameAmong(m, v) PROVE Among(Own(m, sandbox), xs)
  <2>1. CASE m = n
    BY <2>1 DEF Among
  <2>2. CASE m # n
    <3>1. PICK k \in 1..Len(ws) : ws[k] = Own(m, sandbox)
      BY <1>5, <2>2 DEF Attaches, Among
    <3>2. k # at
      BY <2>2, <3>1, OwnIs
    <3>3. k \in 1..Len(xs) /\ xs[k] = Own(m, sandbox)
      BY <1>1, <3>1, <3>2
    <3> QED
      BY <3>3 DEF Among
  <2> QED
    BY <2>1, <2>2
<1> QED
  BY <1>1, <1>2, <1>3, <1>4, <1>5 DEF Attaches

\* reconcileRunning's loop over the volumeClaimTemplates
LEMMA AttachedHolds ==
  ASSUME NEW V, NEW vs \in Seq(V), NEW S, NEW vct \in Seq(S), NEW sandbox,
         \A t \in S : Own(t.name, sandbox) \in V
  PROVE  Attached(vs, vct, sandbox) \in Seq(V) /\ Attaches(vs, vct, sandbox, Attached(vs, vct, sandbox))
<1> DEFINE ok(u, ws) == ws \in Seq(V) /\ Attaches(vs, u, sandbox, ws)
           G == {u \in Seq(S) : ok(u, Attached(vs, u, sandbox))}
<1>1. <<>> \in G
  <2> DEFINE nil == <<>>
  <2>1. Attached(vs, nil, sandbox) = vs /\ nil \in Seq(S) /\ (\A n : ~NameAmong(n, nil)) /\ Len(vs) \in Nat
    BY AttachedNone, AmongNone
  <2> HIDE DEF nil
  <2>2. Attaches(vs, nil, sandbox, vs)
    BY <2>1 DEF Attaches, NamesStay, NewOnce
  <2> QED
    BY <2>1, <2>2 DEF nil
<1>2. ASSUME NEW u \in Seq(S), NEW t \in S, u \in G PROVE Append(u, t) \in G
  <2> DEFINE ws == Attached(vs, u, sandbox)
             v == Append(u, t)
             n == t.name
             xs == VolumeStep(sandbox, ws, t)
             at == FirstNamed(ws, n)
  <2>1. ws \in Seq(V) /\ Attaches(vs, u, sandbox, ws)
    BY <1>2
  <2>2. v \in Seq(S) /\ \A m : NameAmong(m, v) <=> NameAmong(m, u) \/ m = n
    BY AmongMore
  <2>3. Attached(vs, v, sandbox) = xs
    BY AttachedMore
  <2> HIDE DEF ws, v, n
  <2>4. \/ at = 0 /\ \A k \in 1..Len(ws) : ws[k].name # n
        \/ at \in 1..Len(ws) /\ ws[at].name = n
    BY <2>1, FirstIs
  <2>5. xs = IF at = 0 THEN Append(ws, Own(n, sandbox)) ELSE [ws EXCEPT ![at] = Own(n, sandbox)]
    BY OwnIs DEF VolumeStep, injectPodVolume, n
  <2> HIDE DEF xs, at
  <2>6. ok(v, xs)
    <3> DEFINE o == Own(n, sandbox)
    <3>0. o \in V
      BY DEF n
    <3>1. CASE at = 0
      <4>1. xs = Append(ws, o)
        BY <2>5, <3>1
      <4> HIDE DEF o
      <4>2. /\ xs \in Seq(V) /\ Len(xs) = Len(ws) + 1 /\ xs[Len(ws) + 1] = o
            /\ \A k \in 1..Len(ws) : xs[k] = ws[k]
        BY <2>1, <3>0, <4>1, AmongMore
      <4>3. \A k \in 1..Len(ws) : ws[k].name # n
        <5>1. 0 \notin 1..Len(ws)
          OBVIOUS
        <5> QED
          BY <2>4, <3>1, <5>1
      <4>4. xs[Len(ws) + 1] = Own(n, sandbox)
        BY <4>2 DEF o
      <4>5. Attaches(vs, v, sandbox, xs)
        BY <2>1, <2>2, <4>2, <4>3, <4>4, AttachNew
      <4> QED
        BY <4>2, <4>5
    <3>2. CASE at # 0
      <4>0. at \in 1..Len(ws) /\ ws[at].name = n
        BY <2>4, <3>2
      <4>1. xs = [ws EXCEPT ![at] = o]
        BY <2>5, <3>2
      <4> HIDE DEF o
      <4>2. xs \in Seq(V) /\ Len(xs) = Len(ws) /\ xs[at] = o /\ \A k \in 1..Len(ws) : k # at => xs[k] = ws[k]
        BY <2>1, <3>0, <4>0, <4>1, SetAt
      <4>3. xs[at] = Own(n, sandbox)
        BY <4>2 DEF o
      <4>4. Attaches(vs, v, sandbox, xs)
        BY <2>1, <2>2, <4>0, <4>2, <4>3, AttachAt
      <4> QED
        BY <4>2, <4>4
    <3> QED
      BY <3>1, <3>2
  <2> QED
    BY <2>2, <2>3, <2>6 DEF v
<1>3. Seq(S) \subseteq G
  <2> HIDE DEF G
  <2> QED
    BY <1>1, <1>2, Scanning!SeqSet
<1> QED
  BY <1>3

MountStep(volumes, ms, m) == AddMount(ms, m, volumes)
Mounting == INSTANCE Folding WITH Op <- MountStep
Mounted(u, volumes) == FoldLeft(LAMBDA ms, m : AddMount(ms, m, volumes), <<>>, u)

\* MapPodSpec's loop over the volume mounts is a fold
LEMMA MountedParts ==
  ASSUME NEW volumes
  PROVE  /\ Mounted(<<>>, volumes) = <<>>
         /\ \A S : \A u \in Seq(S), m \in S :
              Mounted(Append(u, m), volumes) = AddMount(Mounted(u, volumes), m, volumes)
<1> DEFINE nil == <<>>
<1>1. ASSUME NEW u PROVE Mounted(u, volumes) = Mounting!Fold(volumes, nil, u)
  BY DEF Mounted, FoldLeft, MapThenFoldSet, Max, MountStep,
         Mounting!Fold, Mounting!MapThenFoldSet, Mounting!Top
<1> HIDE DEF nil
<1>2. Mounted(nil, volumes) = nil
  BY <1>1, Mounting!FoldEmpty DEF nil
<1>3. ASSUME NEW S, NEW u \in Seq(S), NEW m \in S
      PROVE  Mounted(Append(u, m), volumes) = AddMount(Mounted(u, volumes), m, volumes)
  <2>1. Mounting!Fold(volumes, nil, Append(u, m)) = MountStep(volumes, Mounting!Fold(volumes, nil, u), m)
    BY Mounting!FoldAppend
  <2> QED
    BY <1>1, <2>1 DEF MountStep
<1> QED
  BY <1>2, <1>3 DEF nil

\* ms has the mount of every mount of u that there is one for, and no other
Mounts(u, volumes, ms) ==
  /\ \A m : Among(m, u) /\ Mappable(m, volumes) => Among(Mount(m, volumes), ms)
  /\ \A x : Among(x, ms) => \E m : Among(m, u) /\ Mappable(m, volumes) /\ x = Mount(m, volumes)

\* and makes a mount of each volume mount that there is a volume for
LEMMA MountedHolds ==
  ASSUME NEW S, NEW mounts \in Seq(S), NEW volumes
  PROVE  /\ Mounted(mounts, volumes) \in Seq({Mount(m, volumes) : m \in S})
         /\ Mounts(mounts, volumes, Mounted(mounts, volumes))
<1> DEFINE R == {Mount(m, volumes) : m \in S}
           ok(u, ms) == ms \in Seq(R) /\ Mounts(u, volumes, ms)
           G == {u \in Seq(S) : ok(u, Mounted(u, volumes))}
<1>0. \A m \in S : Mount(m, volumes) \in R
  OBVIOUS
<1> HIDE DEF R
<1>1. <<>> \in G
  <2> DEFINE nil == <<>>
  <2>1. Mounted(nil, volumes) = nil /\ nil \in Seq(S) /\ nil \in Seq(R) /\ \A x : ~Among(x, nil)
    BY MountedParts, AmongNone
  <2> HIDE DEF nil
  <2>2. Mounts(nil, volumes, nil)
    BY <2>1 DEF Mounts
  <2> QED
    BY <2>1, <2>2 DEF nil
<1>2. ASSUME NEW u \in Seq(S), NEW m \in S, u \in G PROVE Append(u, m) \in G
  <2> DEFINE v == Append(u, m)
             ms == Mounted(u, volumes)
             x == Mount(m, volumes)
  <2>1. ms \in Seq(R) /\ Mounts(u, volumes, ms)
    BY <1>2
  <2>2. v \in Seq(S) /\ \A y : Among(y, v) <=> Among(y, u) \/ y = m
    BY AmongMore
  <2>3. Mounted(v, volumes) = AddMount(ms, m, volumes)
    BY MountedParts
  <2>4. x \in R
    BY <1>0
  <2> HIDE DEF ms, v, x
  <2>5. CASE Mappable(m, volumes)
    <3> DEFINE xs == Append(ms, x)
    <3>1. xs \in Seq(R) /\ \A y : Among(y, xs) <=> Among(y, ms) \/ y = x
      BY <2>1, <2>4, AmongMore
    <3>2. Mounted(v, volumes) = xs
      BY <2>3, <2>5 DEF AddMount, x
    <3> HIDE DEF xs
    <3>3. Mounts(v, volumes, xs)
      BY <2>1, <2>2, <2>5, <3>1 DEF Mounts, x
    <3> QED
      BY <2>2, <3>1, <3>2, <3>3 DEF v
  <2>6. CASE ~Mappable(m, volumes)
    <3>1. Mounted(v, volumes) = ms
      BY <2>3, <2>6 DEF AddMount
    <3>2. Mounts(v, volumes, ms)
      BY <2>1, <2>2, <2>6 DEF Mounts
    <3> QED
      BY <2>1, <2>2, <3>1, <3>2 DEF v
  <2> QED
    BY <2>5, <2>6
<1>3. Seq(S) \subseteq G
  <2> HIDE DEF G
  <2> QED
    BY <1>1, <1>2, Scanning!SeqSet
<1> QED
  BY <1>3 DEF R

(***************************************************************************)
(* From the claim to the container.                                        *)
(***************************************************************************)
\* what a sandbox's spec has of the template and the claim
Carried(i, q) ==
  /\ SamePod(i.tmpl.pod, q)
  /\ Len(i.tmpl.pod.containers) > 0 =>
       Carries(For(i.claim.env, NameOf(i.tmpl.pod)), i.claim.env, i.tmpl.envPolicy, EnvOf(i.tmpl.pod), EnvOf(q))
BuiltFrom(i, s) ==
  \E q \in Pod, w \in Seq(VolumeClaimTemplate) :
    /\ Carried(i, q) /\ Union(i.tmpl.vct, i.claim.vct, w)
    /\ s = [pod |-> applySecureDefaults(q, i.tmpl.managed, i.tmpl.custom), vct |-> w]

\* what a template and a claim are made of
LEMMA InputIs ==
  ASSUME NEW i \in Inputs
  PROVE  /\ i.tmpl.pod \in Pod /\ i.claim.env \in Seq(ClaimEnvVar)
         /\ i.tmpl.vct \in Seq(VolumeClaimTemplate) /\ i.claim.vct \in Seq(VolumeClaimTemplate)
<1>1. i.tmpl \in Template /\ i.claim \in Claim
  BY InputAssumption
<1>2. i.tmpl.pod \in Pod /\ i.tmpl.vct \in Seq(VolumeClaimTemplate)
  BY <1>1 DEF Template
<1>3. i.claim.env \in Seq(ClaimEnvVar) /\ i.claim.vct \in Seq(VolumeClaimTemplate)
  BY <1>1 DEF Claim
<1> QED
  BY <1>2, <1>3

\* injectEnv rejects the claim's env vars or does what its loop does
LEMMA InjectEnvIs ==
  ASSUME NEW pod \in Pod, NEW policy, NEW env \in Seq(ClaimEnvVar), NEW res, res = injectEnv(pod, env, policy)
  PROVE  res.r = "rejected" \/ Injects(pod, env, policy, res)
<1>1. Injects(pod, env, policy, Injected(pod, env, policy))
  BY InjectedHolds
<1>2. env = <<>> => Injected(pod, env, policy) = Done(pod)
  BY InjectedParts
<1>3. res = IF env = <<>> THEN Done(pod) ELSE IF ~Injecting(policy) THEN Failed("rejected", pod)
            ELSE Injected(pod, env, policy)
  BY Zenon DEF injectEnv, Injected
<1>4. Failed("rejected", pod).r = "rejected"
  BY DEF Failed
<1> QED
  BY <1>1, <1>2, <1>3, <1>4

\* so does mergeVCT with its volumeClaimTemplates, if it has any
LEMMA MergeVCTIs ==
  ASSUME NEW S, NEW base \in Seq(S), NEW policy, NEW vct \in Seq(S), NEW res,
         res = IF vct = <<>> THEN Done(base) ELSE mergeVCT(base, vct, policy)
  PROVE  Merges(S, base, vct, res)
<1>1. Merges(S, base, vct, Merged(base, vct, policy))
  BY MergedHolds
<1>2. vct = <<>> => Merged(base, vct, policy) = Done(base)
  BY MergedParts
<1>3. res = IF vct = <<>> THEN Done(base) ELSE IF ~Injecting(policy) THEN Failed("rejected", base)
            ELSE Merged(base, vct, policy)
  BY Zenon DEF mergeVCT, Merged
<1>4. Failed("rejected", base).r = "rejected"
  BY DEF Failed
<1> QED
  BY <1>1, <1>2, <1>3, <1>4 DEF Merges

\* buildSandbox
LEMMA BuildIs ==
  ASSUME NEW i \in Inputs, NEW b, b = buildSandbox(i.tmpl, i.claim)
  PROVE  \/ b.r \in {"error", "rejected"}
         \/ b.r = "panic" /\ i.tmpl.pod.containers = <<>>
         \/ b.r = "done" /\ BuiltFrom(i, b.v)
<1> DEFINE t == i.tmpl
           c == i.claim
           p == injectEnv(t.pod, c.env, t.envPolicy)
           m == IF c.vct = <<>> THEN Done(t.vct) ELSE mergeVCT(t.vct, c.vct, t.vctPolicy)
           x == [pod |-> applySecureDefaults(p.v, t.managed, t.custom), vct |-> m.v]
<1>1. p.r = "rejected" \/ Injects(t.pod, c.env, t.envPolicy, p)
  BY InputIs, InjectEnvIs
<1>2. Merges(VolumeClaimTemplate, t.vct, c.vct, m)
  BY InputIs, MergeVCTIs
<1>3. b = IF p.r # "done" THEN p ELSE IF m.r # "done" THEN m ELSE Done(x)
  <2>1. b = CASE p.r # "done" -> p
              [] p.r = "done" /\ m.r # "done" -> m
              [] OTHER -> Done(x)
    BY DEF buildSandbox
  <2> HIDE DEF p, m, x
  <2> QED
    BY <2>1
<1> HIDE DEF p, m
<1>4. CASE p.r # "done"
  <2>1. p.r = "rejected" \/ p.r = "error" \/ (p.r = "panic" /\ t.pod.containers = <<>>)
    BY <1>1, <1>4 DEF Injects, Done
  <2> QED
    BY <1>3, <1>4, <2>1
<1>5. CASE p.r = "done" /\ m.r # "done"
  <2>1. m.r = "rejected"
    BY <1>2, <1>5 DEF Merges, Done
  <2> QED
    BY <1>3, <1>5, <2>1
<1>6. CASE p.r = "done" /\ m.r = "done"
  <2>1. PICK q \in Pod : /\ p = Done(q) /\ SamePod(t.pod, q)
                         /\ Len(t.pod.containers) > 0 =>
                              Carries(For(c.env, NameOf(t.pod)), c.env, t.envPolicy, EnvOf(t.pod), EnvOf(q))
    BY <1>1, <1>6 DEF Injects
  <2>2. PICK w \in Seq(VolumeClaimTemplate) : m = Done(w) /\ Union(t.vct, c.vct, w)
    BY <1>2, <1>6 DEF Merges
  <2>3. p.v = q /\ m.v = w
    BY <2>1, <2>2 DEF Done
  <2>4. x = [pod |-> applySecureDefaults(q, t.managed, t.custom), vct |-> w]
    BY <2>3
  <2>5. Carried(i, q)
    BY <2>1 DEF Carried
  <2> HIDE DEF x
  <2>6. BuiltFrom(i, x)
    BY <2>2, <2>4, <2>5 DEF BuiltFrom
  <2>7. b.r = "done" /\ b.v = x
    BY <1>3, <1>6 DEF Done
  <2> QED
    BY <2>6, <2>7
<1> QED
  BY <1>4, <1>5, <1>6

\* the container of such a spec
Contained(i, made) ==
  \E q \in Pod, w \in Seq(VolumeClaimTemplate) :
    /\ Carried(i, q) /\ Union(i.tmpl.vct, i.claim.vct, w) /\ Len(i.tmpl.pod.containers) > 0
    /\ made.env = EnvMap(EnvOf(q))
    /\ made.mounts = Mounted(i.tmpl.pod.containers[1].mounts, Attached(i.tmpl.pod.volumes, w, SandboxName))

\* reconcileRunning makes such a container of what buildSandbox built
LEMMA ContainerIs ==
  ASSUME NEW i \in Inputs, NEW s, BuiltFrom(i, s), s.pod.containers # <<>>, NEW port,
         NEW m, m = MapPodSpec(withVCTs(s, SandboxName), port), m.r = "done"
  PROVE  Contained(i, m.v)
<1>1. PICK q \in Pod, w \in Seq(VolumeClaimTemplate) :
        /\ Carried(i, q) /\ Union(i.tmpl.vct, i.claim.vct, w)
        /\ s = [pod |-> applySecureDefaults(q, i.tmpl.managed, i.tmpl.custom), vct |-> w]
  BY DEF BuiltFrom
<1> DEFINE sp == applySecureDefaults(q, i.tmpl.managed, i.tmpl.custom)
           PodLike == [containers : Seq(Container), volumes : Seq(Volume), user : STRING,
                       dns : Seq(STRING) \cup {PublicDNS}]
           vs == Attached(q.volumes, w, SandboxName)
           p == withVCTs(s, SandboxName)
<1>2. sp \in PodLike /\ sp.containers = q.containers /\ sp.volumes = q.volumes
  <2>1. q \in PodLike
    BY DEF Pod
  <2> HIDE DEF PodLike
  <2>2. [q EXCEPT !.dns = PublicDNS] \in PodLike
    BY <2>1 DEF PodLike
  <2>3. [q EXCEPT !.dns = PublicDNS].containers = q.containers /\ [q EXCEPT !.dns = PublicDNS].volumes = q.volumes
    BY DEF Pod
  <2> QED
    BY <2>1, <2>2, <2>3 DEF applySecureDefaults
<1>3. s.pod = sp /\ s.vct = w
  BY <1>1
<1> HIDE DEF sp
<1>4. p = [sp EXCEPT !.volumes = vs]
  BY <1>2, <1>3, Zenon DEF withVCTs, Attached
<1> HIDE DEF vs, p
<1>5. p.containers = q.containers /\ p.volumes = vs
  BY <1>2, <1>4
<1> DEFINE c == p.containers[1]
<1>6. q.containers \in Seq(Container) /\ q.containers # <<>> /\ Len(q.containers) = Len(i.tmpl.pod.containers)
  BY <1>1, <1>2, <1>3 DEF Carried, SamePod, Pod
<1>7. Len(i.tmpl.pod.containers) > 0 /\ 1 \in 1..Len(i.tmpl.pod.containers)
  BY <1>6
<1>8. m = Done([env |-> EnvMap(c.env),
                serverPort |-> port,
                ports |-> {port} \cup {c.ports[j] : j \in {l \in DOMAIN c.ports : c.ports[l] > 0}},
                mounts |-> Mounted(c.mounts, p.volumes),
                user |-> IF c.user # "" THEN c.user ELSE p.user,
                roRoot |-> c.roRoot,
                dns |-> p.dns])
  <2>1. Failed("error", p).r = "error"
    BY DEF Failed
  <2>2. p.containers # <<>> /\ ~c.privileged
    BY <1>5, <1>6, <2>1, Zenon DEF MapPodSpec, p
  <2> QED
    BY <2>2, Zenon DEF MapPodSpec, Mounted, p
<1>9. m.v.env = EnvMap(c.env) /\ m.v.mounts = Mounted(c.mounts, p.volumes)
  <2> DEFINE e == EnvMap(c.env)
             ms == Mounted(c.mounts, p.volumes)
             ps == {port} \cup {c.ports[j] : j \in {l \in DOMAIN c.ports : c.ports[l] > 0}}
             us == IF c.user # "" THEN c.user ELSE p.user
  <2>1. m = Done([env |-> e, serverPort |-> port, ports |-> ps, mounts |-> ms, user |-> us,
                  roRoot |-> c.roRoot, dns |-> p.dns])
    BY <1>8, Zenon
  <2> HIDE DEF e, ms, ps, us
  <2>2. m.v.env = e /\ m.v.mounts = ms
    BY <2>1 DEF Done
  <2> QED
    BY <2>2 DEF e, ms
<1>10. c.env = EnvOf(q) /\ c.mounts = i.tmpl.pod.containers[1].mounts /\ q.volumes = i.tmpl.pod.volumes
  BY <1>1, <1>5, <1>7 DEF Carried, SamePod, EnvOf
<1> QED
  BY <1>1, <1>5, <1>7, <1>9, <1>10 DEF Contained, vs

\* what each step from the claim to the container has kept
PodInv ==
  /\ input \in Inputs
  /\ pc = "panic" => input.tmpl.pod.containers = <<>>
  /\ pc = "built" => BuiltFrom(input, spec)
  /\ pc = "running" => Contained(input, box)

\* on the way from the claim to the container nothing is lost
LEMMA PodKept == Spec => []PodInv
<1>1. Init => PodInv
  BY DEF Init, PodInv
<1>2. PodInv /\ [Next]_vars => PodInv'
  <2> SUFFICES ASSUME PodInv, [Next]_vars PROVE PodInv'
    OBVIOUS
  <2>1. CASE UNCHANGED <<input, pc, spec, box>>
    BY <2>1 DEF PodInv
  <2>2. CASE Build
    <3> DEFINE b == buildSandbox(input.tmpl, input.claim)
    <3>1. input \in Inputs
      BY DEF PodInv
    <3>2. \/ b.r \in {"error", "rejected"}
          \/ b.r = "panic" /\ input.tmpl.pod.containers = <<>>
          \/ b.r = "done" /\ BuiltFrom(input, b.v)
      BY <3>1, BuildIs
    <3>3. /\ input' = input /\ pc' = (IF b.r = "done" THEN "built" ELSE b.r)
          /\ spec' = IF b.r = "done" THEN b.v ELSE spec
      BY <2>2 DEF Build
    <3> HIDE DEF b
    <3> QED
      BY <3>1, <3>2, <3>3 DEF PodInv
  <2>3. CASE CreateContainer
    <3> DEFINE pod == withVCTs(spec, SandboxName)
               m == MapPodSpec(pod, podServerPort(pod, DefaultPort))
               ok == spec.pod.containers # <<>> /\ m.r = "done"
    <3>1. input \in Inputs /\ BuiltFrom(input, spec)
      BY <2>3 DEF PodInv, CreateContainer
    <3>2. ok => Contained(input, m.v)
      BY <3>1, ContainerIs
    <3>3. input' = input /\ pc' = (IF ok THEN "running" ELSE "failed") /\ box' = IF ok THEN m.v ELSE box
      BY <2>3 DEF CreateContainer
    <3> HIDE DEF ok, m
    <3> QED
      BY <3>1, <3>2, <3>3 DEF PodInv
  <2> QED
    BY <2>1, <2>2, <2>3 DEF Next, Execute, FileRequest, FileStep, vars
<1> QED
  BY <1>1, <1>2, PTL DEF Spec

\* and then the env is as asked
LEMMA PodEnv == PodInv => EnvAsAsked
<1> SUFFICES ASSUME PodInv PROVE EnvAsAsked
  OBVIOUS
<1>1. pc = "panic" => input.tmpl.pod.containers = <<>>
  BY DEF PodInv
<1> DEFINE u == input.claim.env
           F == First.env
           policy == input.tmpl.envPolicy
<1>2. ASSUME pc = "running"
      PROVE  /\ \A i \in Mine :
                  LET e == input.claim.env[i]
                  IN  (\A j \in Mine : j > i => input.claim.env[j].name # e.name)
                        /\ (\A k, l \in Declared(e.name) : k = l)
                      => e.name \in DOMAIN box.env /\ box.env[e.name] = e.value
             /\ \A n \in DOMAIN box.env : Claimed(n) \/ \E k \in Declared(n) : box.env[n] = First.env[k].value
             /\ \A k \in DOMAIN First.env :
                  LET e == First.env[k]
                  IN  Declared(e.name) = {k} /\ ~e.from /\ input.tmpl.envPolicy # "Overrides"
                      => box.env[e.name] = e.value
  <2>0. input \in Inputs /\ Contained(input, box)
    BY <1>2 DEF PodInv
  <2>1. PICK q \in Pod : /\ Carried(input, q) /\ Len(input.tmpl.pod.containers) > 0
                         /\ box.env = EnvMap(EnvOf(q))
    BY <2>0 DEF Contained
  <2> DEFINE E == EnvOf(q)
             map == box.env
  <2>2. /\ u \in Seq(ClaimEnvVar) /\ input.tmpl.pod \in Pod
        /\ input.tmpl.pod.containers \in Seq(Container) /\ q.containers \in Seq(Container)
        /\ Len(q.containers) = Len(input.tmpl.pod.containers)
    BY <2>0, <2>1, InputIs DEF Carried, SamePod, Pod
  <2>3. input.tmpl.pod.containers[1] \in Container /\ q.containers[1] \in Container
    BY <2>1, <2>2
  <2>4. F \in Seq(EnvVar) /\ E \in Seq(EnvVar)
    BY <2>3 DEF Container, First, EnvOf
  <2>5. Mine = For(u, NameOf(input.tmpl.pod)) /\ EnvOf(input.tmpl.pod) = F
    <3>1. DOMAIN u = 1..Len(u)
      BY <2>2
    <3> QED
      BY <3>1 DEF Mine, For, IsFor, First, NameOf, EnvOf
  <2>6. Carries(Mine, u, policy, F, E)
    BY <2>1, <2>5 DEF Carried
  <2>7. /\ DOMAIN E = 1..Len(E) /\ DOMAIN F = 1..Len(F)
        /\ (\A k \in 1..Len(E) : E[k].from \in BOOLEAN) /\ \A k \in 1..Len(F) : F[k].from \in BOOLEAN
    <3>1. \A x \in EnvVar : x.from \in BOOLEAN
      BY DEF EnvVar
    <3> HIDE DEF E, F
    <3> QED
      BY <2>4, <3>1
  <2>8. \A n : Declared(n) = DeclaredIn(F, n)
    BY <2>7 DEF Declared, DeclaredIn
  <2>9. map = EnvMap(E)
    BY <2>1
  <2> HIDE DEF E, F, u, map, policy
  <2>10. Seen(Mine, u, policy, F, map)
    BY <2>6, <2>7, <2>9, CarriesSeen
  <2>11. ASSUME NEW i \in Mine, \A j \in Mine : j > i => u[j].name # u[i].name,
                \A k, l \in Declared(u[i].name) : k = l
         PROVE  u[i].name \in DOMAIN map /\ map[u[i].name] = u[i].value
    BY <2>8, <2>10, <2>11 DEF LastOf, Seen
  <2>12. ASSUME NEW n \in DOMAIN map PROVE Claimed(n) \/ \E k \in Declared(n) : map[n] = F[k].value
    BY <2>8, <2>10 DEF Claimed, u, Seen
  <2>13. ASSUME NEW k \in DOMAIN F, Declared(F[k].name) = {k}, ~F[k].from, policy # "Overrides"
         PROVE  map[F[k].name] = F[k].value
    BY <2>7, <2>8, <2>10, <2>13 DEF Seen
  <2> QED
    BY <2>11, <2>12, <2>13 DEF u, F, map, policy
<1> QED
  BY <1>1, <1>2 DEF EnvAsAsked

\* Whatever the template and the claim: the process sees the env vars that were
\* asked for, and building panics only for a template without containers
\* (injectEnv, MapPodSpec).
THEOREM EnvArrives == Spec => []EnvAsAsked
BY PodKept, PodEnv, PTL

\* the volume that a volume mount of the name gets
LEMMA VolumeFor ==
  ASSUME NEW V, NEW vs, NEW u, NEW sandbox, NEW ws \in Seq(V), Attaches(vs, u, sandbox, ws),
         NEW n, NEW at, at = LastNamed(ws, n)
  PROVE  /\ NameAmong(n, u) /\ (\A x, y \in DeclaredIn(vs, n) : x = y) => at # 0 /\ ws[at] = Own(n, sandbox)
         /\ ~NameAmong(n, u) /\ at # 0 => at \in DeclaredIn(vs, n) /\ ws[at] = vs[at]
<1>1. Len(vs) \in Nat /\ Len(ws) \in Nat /\ Len(vs) <= Len(ws)
  BY DEF Attaches, NamesStay
<1>2. \/ at = 0 /\ \A i \in 1..Len(ws) : ws[i].name # n
      \/ at \in 1..Len(ws) /\ ws[at].name = n
  BY LastIs
<1>3. ASSUME NameAmong(n, u), \A x, y \in DeclaredIn(vs, n) : x = y PROVE at # 0 /\ ws[at] = Own(n, sandbox)
  <2>1. PICK k \in 1..Len(ws) : ws[k] = Own(n, sandbox)
    BY <1>3 DEF Attaches, Among
  <2>2. ws[k].name = n
    BY <2>1, OwnIs
  <2>3. at \in 1..Len(ws) /\ ws[at].name = n
    BY <1>2, <2>2
  <2>4. at = k
    <3>1. CASE k > Len(vs) \/ at > Len(vs)
      BY <2>2, <2>3, <3>1 DEF Attaches, NewOnce
    <3>2. CASE k \in 1..Len(vs) /\ at \in 1..Len(vs)
      <4>1. vs[k].name = n /\ vs[at].name = n
        BY <2>2, <2>3, <3>2 DEF Attaches, NamesStay
      <4> QED
        BY <1>3, <3>2, <4>1 DEF DeclaredIn
    <3> QED
      BY <1>1, <2>3, <3>1, <3>2
  <2> QED
    BY <1>1, <2>1, <2>3, <2>4
<1>4. ASSUME ~NameAmong(n, u), at # 0 PROVE at \in DeclaredIn(vs, n) /\ ws[at] = vs[at]
  <2>1. at \in 1..Len(ws) /\ ws[at].name = n
    BY <1>2, <1>4
  <2>2. ~\E m : NameAmong(m, u) /\ ws[at] = Own(m, sandbox)
    BY <1>4, <2>1, OwnIs
  <2>3. at <= Len(vs) /\ ws[at] = vs[at]
    BY <2>1, <2>2 DEF Attaches
  <2> QED
    BY <1>1, <2>1, <2>3 DEF DeclaredIn
<1> QED
  BY <1>3, <1>4

\* the mount of a volume mount whose volume is the sandbox's own PVC
LEMMA OwnMount ==
  ASSUME NEW m \in VolumeMount, NEW ws, LastNamed(ws, m.vol) # 0, NEW sandbox,
         ws[LastNamed(ws, m.vol)] = Own(m.vol, sandbox)
  PROVE  /\ m.vol \o "-" \o sandbox # "" => Mappable(m, ws)
         /\ Mount(m, ws) = [src |-> m.vol \o "-" \o sandbox, path |-> m.path, ro |-> m.ro]
<1> DEFINE v == ws[LastNamed(ws, m.vol)]
           cl == m.vol \o "-" \o sandbox
<1>1. v.kind = "pvc" /\ v.claim = cl /\ v.ro = FALSE
  BY DEF Own, PVCVolume
<1>2. cl # "" => Mappable(m, ws)
  BY <1>1 DEF Mappable
<1>3. Mount(m, ws) = [src |-> v.claim, path |-> m.path, ro |-> m.ro \/ v.ro]
  BY <1>1 DEF Mount
<1>4. (m.ro \/ v.ro) = m.ro
  <2>1. m.ro \in BOOLEAN
    BY DEF VolumeMount
  <2> QED
    BY <1>1, <2>1
<1> HIDE DEF v, cl
<1>5. Mount(m, ws) = [src |-> cl, path |-> m.path, ro |-> m.ro]
  BY <1>1, <1>3, <1>4, Zenon
<1> QED
  BY <1>2, <1>5 DEF cl

\* a mount goes where the volume mount says, from what its volume says
LEMMA MountIs ==
  ASSUME NEW m, NEW ws
  PROVE  Mount(m, ws).path = m.path /\ Mount(m, ws).src = SourceOf(ws[LastNamed(ws, m.vol)])
BY DEF Mount, SourceOf

\* mergeVCT has the names of the template and of the claim, each with a PVC
LEMMA VCTNames ==
  ASSUME NEW i \in Inputs, NEW w, Union(i.tmpl.vct, i.claim.vct, w), NEW n
  PROVE  /\ NameAmong(n, w) <=> NameAmong(n, i.tmpl.vct) \/ NameAmong(n, i.claim.vct)
         /\ NameAmong(n, w) => n \o "-" \o SandboxName # ""
<1> DEFINE a == i.tmpl.vct
           b == i.claim.vct
<1>1. DOMAIN a = 1..Len(a) /\ DOMAIN b = 1..Len(b)
  BY InputIs
<1>2. ASSUME NEW k \in 1..Len(w), w[k].name = n
      PROVE  (NameAmong(n, a) \/ NameAmong(n, b)) /\ n \o "-" \o SandboxName # ""
  <2>0. PVCName(w[k], SandboxName) = n \o "-" \o SandboxName
    BY <1>2 DEF PVCName
  <2>1. CASE Among(w[k], a)
    <3>1. PICK j \in 1..Len(a) : a[j] = w[k]
      BY <2>1 DEF Among
    <3>2. PVCName(a[j], SandboxName) # ""
      BY <1>1, PVCNameAssumption
    <3> QED
      BY <1>2, <2>0, <3>1, <3>2 DEF NameAmong
  <2>2. CASE Among(w[k], b)
    <3>1. PICK j \in 1..Len(b) : b[j] = w[k]
      BY <2>2 DEF Among
    <3>2. PVCName(b[j], SandboxName) # ""
      BY <1>1, PVCNameAssumption
    <3> QED
      BY <1>2, <2>0, <3>1, <3>2 DEF NameAmong
  <2> QED
    BY <2>1, <2>2 DEF Union
<1>3. NameAmong(n, a) \/ NameAmong(n, b) => NameAmong(n, w)
  BY DEF Union
<1>4. NameAmong(n, w) => (NameAmong(n, a) \/ NameAmong(n, b)) /\ n \o "-" \o SandboxName # ""
  BY <1>2 DEF NameAmong
<1> QED
  BY <1>3, <1>4

\* and then the mounts are as asked
LEMMA PodMounts == PodInv => MountsAsAsked
<1> SUFFICES ASSUME PodInv, pc = "running" PROVE MountsAsAsked
  BY DEF MountsAsAsked
<1>0. input \in Inputs /\ Contained(input, box)
  BY DEF PodInv
<1> DEFINE vs == input.tmpl.pod.volumes
           mounts == First.mounts
           ms == box.mounts
<1>1. PICK w \in Seq(VolumeClaimTemplate) :
        /\ Union(input.tmpl.vct, input.claim.vct, w) /\ Len(input.tmpl.pod.containers) > 0
        /\ ms = Mounted(mounts, Attached(vs, w, SandboxName))
  BY <1>0 DEF Contained, First
<1>2. vs \in Seq(Volume) /\ input.tmpl.pod.containers \in Seq(Container)
  BY <1>0, InputIs DEF Pod
<1>3. input.tmpl.pod.containers[1] \in Container
  BY <1>1, <1>2
<1>4. mounts \in Seq(VolumeMount)
  BY <1>3 DEF Container, First
<1> DEFINE ws == Attached(vs, w, SandboxName)
           V == Volume \cup {Own(t.name, SandboxName) : t \in VolumeClaimTemplate}
<1>5. vs \in Seq(V) /\ \A t \in VolumeClaimTemplate : Own(t.name, SandboxName) \in V
  BY <1>2, WiderSeq, Volume \subseteq V
<1> HIDE DEF V, ws
<1>6. ws \in Seq(V) /\ Attaches(vs, w, SandboxName, ws)
  BY <1>5, AttachedHolds DEF ws
<1>7. ms \in Seq({Mount(m, ws) : m \in VolumeMount}) /\ Mounts(mounts, ws, ms)
  <2>1. ms = Mounted(mounts, ws)
    BY <1>1 DEF ws
  <2> HIDE DEF mounts, ms
  <2>2. /\ Mounted(mounts, ws) \in Seq({Mount(m, ws) : m \in VolumeMount})
        /\ Mounts(mounts, ws, Mounted(mounts, ws))
    BY <1>4, MountedHolds
  <2> QED
    BY <2>1, <2>2, Zenon
<1>8. DOMAIN ms = 1..Len(ms)
  BY <1>7
<1>9. DOMAIN mounts = 1..Len(mounts) /\ \A k \in 1..Len(mounts) : mounts[k] \in VolumeMount
  BY <1>4
<1>10. ASSUME NEW n
       PROVE  /\ n \in VCTs <=> NameAmong(n, w)
              /\ n \in VCTs => n \o "-" \o SandboxName # ""
              /\ PodVolumes(n) = DeclaredIn(vs, n)
              /\ ~Ambiguous(n) => \A x, y \in DeclaredIn(vs, n) : x = y
  <2>1. /\ DOMAIN vs = 1..Len(vs) /\ DOMAIN input.tmpl.vct = 1..Len(input.tmpl.vct)
        /\ DOMAIN input.claim.vct = 1..Len(input.claim.vct)
    BY <1>0, <1>2, InputIs
  <2>2. n \in VCTs <=> NameAmong(n, input.tmpl.vct) \/ NameAmong(n, input.claim.vct)
    BY <2>1 DEF VCTs, NameAmong
  <2>3. PodVolumes(n) = DeclaredIn(vs, n)
    BY <2>1 DEF PodVolumes, DeclaredIn
  <2>4. ~Ambiguous(n) => \A x, y \in DeclaredIn(vs, n) : x = y
    BY <2>3 DEF Ambiguous
  <2>5. /\ NameAmong(n, w) <=> NameAmong(n, input.tmpl.vct) \/ NameAmong(n, input.claim.vct)
        /\ NameAmong(n, w) => n \o "-" \o SandboxName # ""
    BY <1>0, <1>1, VCTNames
  <2> QED
    BY <2>2, <2>3, <2>4, <2>5
<1> HIDE DEF vs, mounts, ms
<1>11. ASSUME NEW m \in VolumeMount, m.vol \in VCTs, ~Ambiguous(m.vol)
       PROVE  Mappable(m, ws) /\ Mount(m, ws) = [src |-> m.vol \o "-" \o SandboxName, path |-> m.path, ro |-> m.ro]
  <2>1. LastNamed(ws, m.vol) # 0 /\ ws[LastNamed(ws, m.vol)] = Own(m.vol, SandboxName)
    <3> DEFINE n == m.vol
               at == LastNamed(ws, n)
    <3>1. NameAmong(n, w) /\ \A x, y \in DeclaredIn(vs, n) : x = y
      BY <1>10, <1>11
    <3> HIDE DEF n
    <3>2. at # 0 /\ ws[at] = Own(n, SandboxName)
      <4>1. at = LastNamed(ws, n)
        OBVIOUS
      <4> HIDE DEF at
      <4> QED
        BY <1>6, <3>1, <4>1, VolumeFor
    <3> QED
      BY <3>2 DEF n
  <2> QED
    BY <1>10, <1>11, <2>1, OwnMount
<1>12. ASSUME NEW k \in DOMAIN mounts, mounts[k].vol \in VCTs, ~Ambiguous(mounts[k].vol)
       PROVE  \E i \in DOMAIN ms : ms[i] =
                [src |-> mounts[k].vol \o "-" \o SandboxName, path |-> mounts[k].path, ro |-> mounts[k].ro]
  <2> DEFINE m == mounts[k]
  <2>1. m \in VolumeMount /\ Among(m, mounts)
    BY <1>9 DEF Among
  <2> HIDE DEF m
  <2>2. Mappable(m, ws) /\ Mount(m, ws) = [src |-> m.vol \o "-" \o SandboxName, path |-> m.path, ro |-> m.ro]
    BY <1>11, <1>12, <2>1 DEF m
  <2>3. PICK i \in 1..Len(ms) : ms[i] = Mount(m, ws)
    BY <1>7, <2>1, <2>2 DEF Mounts, Among
  <2> QED
    BY <1>8, <2>2, <2>3 DEF m
<1>13. ASSUME NEW i \in DOMAIN ms
       PROVE  \E k \in DOMAIN mounts : /\ ms[i].path = mounts[k].path
                                       /\ Ambiguous(mounts[k].vol) \/ ms[i].src \in Sources(mounts[k].vol)
  <2>1. Among(ms[i], ms)
    BY <1>8 DEF Among
  <2>2. PICK m : Among(m, mounts) /\ Mappable(m, ws) /\ ms[i] = Mount(m, ws)
    BY <1>7, <2>1 DEF Mounts
  <2>3. PICK k \in DOMAIN mounts : mounts[k] = m
    BY <1>9, <2>2 DEF Among
  <2>4. m \in VolumeMount
    BY <1>9, <2>3
  <2> DEFINE at == LastNamed(ws, m.vol)
  <2>5. ms[i].path = m.path /\ ms[i].src = SourceOf(ws[at])
    BY <2>2, MountIs
  <2>6. ASSUME ~Ambiguous(m.vol) PROVE ms[i].src \in Sources(m.vol)
    <3>1. CASE m.vol \in VCTs
      <4>1. ms[i].src = m.vol \o "-" \o SandboxName
        BY <1>11, <2>2, <2>4, <2>6, <3>1
      <4> QED
        BY <3>1, <4>1 DEF Sources
    <3>2. CASE m.vol \notin VCTs
      <4>1. at # 0
        BY <2>2 DEF Mappable
      <4>2. at \in DeclaredIn(vs, m.vol) /\ ws[at] = vs[at]
        <5> DEFINE n == m.vol
        <5>1. ~NameAmong(n, w) /\ at = LastNamed(ws, n)
          BY <1>10, <3>2
        <5> HIDE DEF n, at
        <5>2. at \in DeclaredIn(vs, n) /\ ws[at] = vs[at]
          BY <1>6, <4>1, <5>1, VolumeFor
        <5> QED
          BY <5>2 DEF n
      <4>3. at \in PodVolumes(m.vol) /\ ms[i].src = SourceOf(vs[at])
        BY <1>10, <2>5, <4>2
      <4> QED
        BY <3>2, <4>3 DEF Sources, vs
    <3> QED
      BY <3>1, <3>2
  <2> QED
    BY <2>3, <2>5, <2>6
<1> QED
  BY <1>12, <1>13 DEF MountsAsAsked, mounts, ms

\* Whatever the template and the claim: a volumeClaimTemplate's volume mounts get
\* the sandbox's own PVC, and nothing is mounted that was not asked for (mergeVCT,
\* injectPodVolume, MapPodSpec).
THEOREM MountsArrive == Spec => []MountsAsAsked
BY PodKept, PodMounts, PTL
=============================================================================

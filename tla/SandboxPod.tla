----------------------------- MODULE SandboxPod ----------------------------
(***************************************************************************)
(* What a user asks for and what the process in the container gets: a      *)
(* claim on a template becomes a sandbox's spec, the spec a container, and *)
(* the runtime in the container executes a command and serves files.       *)
(***************************************************************************)
EXTENDS PodBlueprint, Runtime

CONSTANTS
  Inputs,       \* [tmpl, claim, args, style, requests]: a template, a claim on
                \* it, the command to execute as a list of arguments and how the
                \* client quotes them, and a bound on the file requests
  SandboxName,
  DefaultPort   \* the configuration's server port

ASSUME InputAssumption ==
  Inputs \subseteq [tmpl : Template, claim : Claim, args : Seq(Seq(STRING)),
                   style : {"single", "double", "escape"}, requests : Nat]

\* a PVC's name has a dash in it, so it is not empty
ASSUME PVCNameAssumption ==
  \A i \in Inputs : \A vct \in {i.tmpl.vct, i.claim.vct} :
    \A k \in DOMAIN vct : PVCName(vct[k], SandboxName) # ""

VARIABLES
  input,        \* what was asked
  pc,           \* how far it has come
  spec,         \* the sandbox's spec
  box,          \* the container
  ran,          \* the command that was executed
  sent          \* file requests so far

vars == <<input, pc, spec, box, ran, sent, fileVars>>

----------------------------------------------------------------------------
(* How clients quote.                                                      *)

Escaped(word, chars) ==
  FoldLeft(LAMBDA s, c : IF c \in chars THEN s \o <<"\\", c>> ELSE Append(s, c), <<>>, word)
QuoteSingle(word) ==
  <<"'">> \o FoldLeft(LAMBDA s, c : IF c = "'" THEN s \o <<"'", "\\", "'", "'">> ELSE Append(s, c),
                      <<>>, word) \o <<"'">>
QuoteWord(word, style) ==
  CASE style = "double" -> <<"\"">> \o Escaped(word, Escapable) \o <<"\"">>
    [] style = "escape" /\ word # <<>> -> Escaped(word, Escapable \cup {"'", " "})
    [] OTHER -> QuoteSingle(word)
Command(args, style) ==
  FoldLeft(LAMBDA s, w : s \o QuoteWord(w, style) \o <<" ">>, <<>>, args)

----------------------------------------------------------------------------
Nothing == [r |-> "none"]

Init ==
  /\ input \in Inputs
  /\ pc = "claimed" /\ spec = Nothing /\ box = Nothing /\ ran = Nothing /\ sent = 0
  /\ RuntimeInit

\* getOrCreateSandbox creates the sandbox, or the claim's status says why not
Build ==
  LET b == buildSandbox(input.tmpl, input.claim)
  IN  /\ pc = "claimed"
      /\ pc' = IF b.r = "done" THEN "built" ELSE b.r
      /\ spec' = IF b.r = "done" THEN b.v ELSE spec
      /\ UNCHANGED <<input, box, ran, sent, fileVars>>

\* reconcileRunning creates the container, or failReady says why not
CreateContainer ==
  LET pod == withVCTs(spec, SandboxName)
      m == MapPodSpec(pod, podServerPort(pod, DefaultPort))
      ok == spec.pod.containers # <<>> /\ m.r = "done"
  IN  /\ pc = "built"
      /\ pc' = IF ok THEN "running" ELSE "failed"
      /\ box' = IF ok THEN m.v ELSE box
      /\ UNCHANGED <<input, spec, ran, sent, fileVars>>

\* execute: what cannot be split, or is empty, is not run
Execute ==
  LET s == splitArgs(Command(input.args, input.style))
  IN  /\ pc = "running" /\ ran = Nothing
      /\ ran' = IF s.ok /\ s.args # <<>> THEN [r |-> "run", argv |-> s.args] ELSE [r |-> "refused"]
      /\ UNCHANGED <<input, pc, spec, box, sent, fileVars>>

\* whether files under the root can be made: a mount on it decides, or else
\* the container's root file system
Writable ==
  LET on == SelectLastInSeq(box.mounts, LAMBDA m : m.path = "/app")
  IN  IF on = 0 THEN ~box.roRoot ELSE ~box.mounts[on].ro

FileRequest(c) ==
  /\ pc = "running" /\ sent < input.requests
  /\ sent' = sent + 1
  /\ \E p \in Paths : \/ \E data \in Uploads : UploadBegin(c, p, data, Writable)
                      \/ \E kind \in {"download", "list", "exists"} : Read(c, p, kind)
  /\ UNCHANGED <<input, pc, spec, box, ran>>

FileStep(c) ==
  /\ UploadCopy(c) \/ DownloadCopy(c) \/ NextRequest(c)
  /\ UNCHANGED <<input, pc, spec, box, ran, sent>>

Next == Build \/ CreateContainer \/ Execute \/ \E c \in Clients : FileRequest(c) \/ FileStep(c)

Spec == Init /\ [][Next]_vars

----------------------------------------------------------------------------
(* Properties.                                                             *)

First == input.tmpl.pod.containers[1]
\* the claim's env vars that are for the container that runs
Mine == {i \in DOMAIN input.claim.env : input.claim.env[i].container \in {"", First.name}}
Claimed(n) == \E i \in Mine : input.claim.env[i].name = n
Declared(n) == {k \in DOMAIN First.env : First.env[k].name = n}

\* The process sees the claim's env vars where the policy lets it have them, the
\* template's where not, and none from anywhere else; a name that the template
\* declares twice is left out (the override changes the first, the last counts).
\* Building panics only for a template without containers (injectEnv,
\* MapPodSpec's map).
EnvAsAsked ==
  /\ pc = "panic" => input.tmpl.pod.containers = <<>>
  /\ pc = "running" =>
       /\ \A i \in Mine :
            LET e == input.claim.env[i]
            IN  (\A j \in Mine : j > i => input.claim.env[j].name # e.name)
                  /\ (\A k, l \in Declared(e.name) : k = l)
                => e.name \in DOMAIN box.env /\ box.env[e.name] = e.value
       /\ \A n \in DOMAIN box.env : Claimed(n) \/ \E k \in Declared(n) : box.env[n] = First.env[k].value
       /\ \A k \in DOMAIN First.env :
            LET e == First.env[k]
            IN  Declared(e.name) = {k} /\ ~e.from /\ input.tmpl.envPolicy # "Overrides"
                => box.env[e.name] = e.value

VCTs == {input.tmpl.vct[i].name : i \in DOMAIN input.tmpl.vct}
        \cup {input.claim.vct[i].name : i \in DOMAIN input.claim.vct}
PodVolumes(n) == {v \in DOMAIN input.tmpl.pod.volumes : input.tmpl.pod.volumes[v].name = n}
\* the pod has the name twice
Ambiguous(n) == \E v, w \in PodVolumes(n) : v # w
SourceOf(volume) == IF volume.kind = "pvc" THEN volume.claim ELSE "tmpfs"
\* what a volume mount of the name may get
Sources(n) ==
  IF n \in VCTs THEN {n \o "-" \o SandboxName}
  ELSE {SourceOf(input.tmpl.pod.volumes[v]) : v \in PodVolumes(n)}

\* A volume mount whose name a volumeClaimTemplate has, of the template or of the
\* claim, gets the sandbox's own PVC, whatever volume of that name the pod
\* brings; the others get the pod's PVC or a tmpfs, or none, and nothing else is
\* mounted.  A name that the pod has twice is left out: the PVC goes to the
\* first, the last counts (mergeVCT, injectPodVolume, MapPodSpec).
MountsAsAsked ==
  pc = "running" =>
    /\ \A k \in DOMAIN First.mounts :
         LET m == First.mounts[k]
         IN  m.vol \in VCTs /\ ~Ambiguous(m.vol) =>
               \E i \in DOMAIN box.mounts : box.mounts[i] =
                 [src |-> m.vol \o "-" \o SandboxName, path |-> m.path, ro |-> m.ro]
    /\ \A i \in DOMAIN box.mounts : \E k \in DOMAIN First.mounts :
         LET m == First.mounts[k]
         IN  /\ box.mounts[i].path = m.path
             /\ Ambiguous(m.vol) \/ box.mounts[i].src \in Sources(m.vol)

\* The arguments arrive as they were meant, whichever way the client quoted
\* them, empty ones too (splitArgs).
ArgvAsQuoted ==
  ran # Nothing =>
    IF input.args = <<>> THEN ran.r = "refused" ELSE ran = [r |-> "run", argv |-> input.args]

\* A download that no upload of the file disturbs returns what the last upload
\* sent, all of it and no more, if that upload was alone and acknowledged
\* (upload, download).
FileReadsBack ==
  \A c \in Clients :
    rq[c].pc = "replied" /\ rq[c].kind = "download" /\ rq[c].code = 200
      /\ rq[c].expect \notin {Unknown, Writing} => rq[c].seen = rq[c].expect
=============================================================================

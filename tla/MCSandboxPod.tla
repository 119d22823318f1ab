---------------------------- MODULE MCSandboxPod ---------------------------
(***************************************************************************)
(* Inputs of SandboxPod for TLC: four families, each of which varies one   *)
(* side of what can be asked for.                                          *)
(***************************************************************************)
EXTENDS SandboxPod

Var(n, v, from) == [name |-> n, value |-> v, from |-> from]
Main == [name |-> "main", env |-> <<>>, ports |-> <<>>, mounts |-> <<>>, privileged |-> FALSE,
         user |-> "", roRoot |-> FALSE]
Side == [Main EXCEPT !.name = "side"]
Tmpl == [pod |-> [containers |-> <<Main>>, volumes |-> <<>>, user |-> "", dns |-> <<>>],
         vct |-> <<>>, envPolicy |-> "", vctPolicy |-> "", managed |-> TRUE, custom |-> FALSE]
Plain == [tmpl |-> Tmpl, claim |-> [env |-> <<>>, vct |-> <<>>], args |-> <<>>, style |-> "single",
          requests |-> 0]

\* env vars of templates and claims
MainEnvs == {<<>>, <<Var("E", "t", FALSE)>>, <<Var("E", "", TRUE)>>,
             <<Var("E", "t", FALSE), Var("E", "", TRUE)>>,
             <<Var("E", "t", FALSE), Var("E", "u", FALSE)>>, <<Var("G", "t", FALSE)>>}
Ask(n, v, c) == [name |-> n, value |-> v, container |-> c]
ClaimEnvs == {<<>>, <<Ask("E", "c", "")>>, <<Ask("E", "c", "side")>>, <<Ask("E", "c", "main")>>,
              <<Ask("E", "c", ""), Ask("E", "d", "main")>>, <<Ask("F", "c", "")>>,
              <<Ask("E", "c", "nowhere")>>}
EnvInputs ==
  {[Plain EXCEPT !.tmpl.pod.containers = cs, !.tmpl.envPolicy = p, !.claim.env = e] :
     cs \in {<<>>} \cup {<<[Main EXCEPT !.env = m]>> : m \in MainEnvs}
                   \cup {<<[Main EXCEPT !.env = m], Side>> : m \in MainEnvs},
     p \in Policies, e \in ClaimEnvs}

\* volumes, mounts and volumeClaimTemplates
Vol(kind, claim) == <<[name |-> "v", kind |-> kind, claim |-> claim, ro |-> FALSE]>>
T(n, s) == [name |-> n, size |-> s]
Mounting(ro) == [Main EXCEPT !.mounts = <<[vol |-> "v", path |-> "/app", ro |-> ro],
                                          [vol |-> "w", path |-> "/data", ro |-> FALSE]>>]
VolumeInputs ==
  {[Plain EXCEPT !.tmpl.pod.containers = <<Mounting(ro)>>, !.tmpl.pod.volumes = vs,
                 !.tmpl.vct = t, !.tmpl.vctPolicy = p, !.claim.vct = c] :
     ro \in BOOLEAN,
     vs \in {<<>>, Vol("pvc", "u"), Vol("pvc", ""), Vol("emptyDir", ""), Vol("other", ""),
            Vol("emptyDir", "") \o Vol("pvc", "u")},
     t \in {<<>>, <<T("v", 1)>>, <<T("w", 1)>>, <<T("v", 1), T("v", 4)>>}, p \in Policies,
     c \in {<<>>, <<T("v", 2)>>, <<T("w", 2)>>, <<T("v", 2), T("v", 3)>>}}

\* where files go, with a privileged container among them
FileInputs ==
  {[Plain EXCEPT !.tmpl.pod.containers = <<[Mounting(ro) EXCEPT !.roRoot = root, !.privileged = priv]>>,
                 !.tmpl.pod.volumes = vs, !.requests = 3] :
     ro \in BOOLEAN, root \in BOOLEAN, priv \in BOOLEAN, vs \in {<<>>, Vol("pvc", "u"), Vol("emptyDir", "")}}

\* commands
Letters == {"a", " ", "'", "\"", "\\", "$", "backquote"}
Words == {<<>>} \cup {<<x>> : x \in Letters} \cup {<<x, y>> : x, y \in Letters}
CommandInputs ==
  {[Plain EXCEPT !.args = a, !.style = s] :
     a \in {<<>>} \cup {<<v>> : v \in Words} \cup {<<v, w>> : v, w \in Words},
     s \in {"single", "double", "escape"}}

AllInputs == EnvInputs \cup VolumeInputs \cup FileInputs \cup CommandInputs

\* a file, a path that leaves the root and comes back, one that leaves it, the root
SomePaths == {<<"f">>, <<"..", "app", "", "f">>, <<"..">>, <<".">>}
SomeUploads == {<<"x">>, <<"y", "z">>}
=============================================================================

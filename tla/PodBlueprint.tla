---------------------------- MODULE PodBlueprint ---------------------------
(***************************************************************************)
(* From a template and a claim to the pod of a sandbox, and from the pod   *)
(* to the container Docker is asked for: injectEnv, mergeVCT,              *)
(* applySecureDefaults, buildSandbox, injectPodVolume and MapPodSpec.      *)
(*                                                                         *)
(* User "" is an unset one, container "" of a claim's env var the first.   *)
(***************************************************************************)
EXTENDS Integers, Sequences, SequencesExt

Policies == {"", "Disallowed", "Allowed", "Overrides"}

\* from: the value is a valueFrom
EnvVar == [name : STRING, value : STRING, from : BOOLEAN]
VolumeMount == [vol : STRING, path : STRING, ro : BOOLEAN]
Container == [name : STRING, env : Seq(EnvVar), ports : Seq(Int), mounts : Seq(VolumeMount),
              privileged : BOOLEAN, user : STRING, roRoot : BOOLEAN]
Volume == [name : STRING, kind : {"pvc", "emptyDir", "other"}, claim : STRING, ro : BOOLEAN]
Pod == [containers : Seq(Container), volumes : Seq(Volume), user : STRING, dns : Seq(STRING)]
VolumeClaimTemplate == [name : STRING, size : Int]
Template == [pod : Pod, vct : Seq(VolumeClaimTemplate), envPolicy : Policies, vctPolicy : Policies,
             managed : BOOLEAN, custom : BOOLEAN]
ClaimEnvVar == [name : STRING, value : STRING, container : STRING]
Claim == [env : Seq(ClaimEnvVar), vct : Seq(VolumeClaimTemplate)]

\* the first of a name, which a loop breaks at, and the last, which a map keeps
FirstNamed(seq, name) == SelectInSeq(seq, LAMBDA x : x.name = name)
LastNamed(seq, name) == SelectLastInSeq(seq, LAMBDA x : x.name = name)

\* what a step yields that can fail: a value, a rejection, an error or a panic
Done(v) == [r |-> "done", v |-> v]
Failed(how, v) == [r |-> how, v |-> v]

----------------------------------------------------------------------------
(* build.go                                                                *)

Injecting(policy) == policy \in {"Allowed", "Overrides"}

\* slip: an override leaves the template's valueFrom in place
SetValue(var, value) == [var EXCEPT !.value = value]
Override(var, value) == [var EXCEPT !.value = value, !.from = FALSE]

\* one env var of the claim
InjectOne(acc, e, policy) ==
  LET pod == acc.v
      idx == IF e.container = "" THEN 1
             ELSE FirstNamed(pod.containers, e.container)
      env == pod.containers[idx].env
      at == FirstNamed(env, e.name)
      Set(new) == Done([pod EXCEPT !.containers[idx].env = new])
  IN  CASE acc.r # "done" -> acc
        [] acc.r = "done" /\ idx = 0 -> Failed("error", pod)
        [] acc.r = "done" /\ idx > Len(pod.containers) -> Failed("panic", pod)
        [] OTHER -> CASE at = 0 -> Set(Append(env, [name |-> e.name, value |-> e.value, from |-> FALSE]))
                      [] at # 0 /\ policy = "Overrides" -> Set([env EXCEPT ![at] = Override(@, e.value)])
                      [] OTHER -> Failed("error", pod)

injectEnv(pod, env, policy) ==
  IF env = <<>> THEN Done(pod)
  ELSE IF ~Injecting(policy) THEN Failed("rejected", pod)
  ELSE FoldLeft(LAMBDA acc, e : InjectOne(acc, e, policy), Done(pod), env)

\* one volumeClaimTemplate of the claim
MergeOne(acc, v, policy) ==
  LET at == LastNamed(acc.v, v.name)
  IN  CASE acc.r # "done" -> acc
        [] acc.r = "done" /\ at = 0 -> Done(Append(acc.v, v))
        [] acc.r = "done" /\ at # 0 /\ policy = "Overrides" -> Done([acc.v EXCEPT ![at] = v])
        [] OTHER -> Failed("rejected", acc.v)

mergeVCT(base, extra, policy) ==
  IF ~Injecting(policy) THEN Failed("rejected", base)
  ELSE FoldLeft(LAMBDA acc, v : MergeOne(acc, v, policy), Done(base), extra)

PublicDNS == <<"8.8.8.8", "1.1.1.1">>
applySecureDefaults(pod, managed, custom) ==
  IF managed /\ ~custom /\ pod.dns = <<>> THEN [pod EXCEPT !.dns = PublicDNS] ELSE pod

\* the sandbox's spec, or why there is none
buildSandbox(tmpl, claim) ==
  LET pod == injectEnv(tmpl.pod, claim.env, tmpl.envPolicy)
      vct == IF claim.vct = <<>> THEN Done(tmpl.vct)
             ELSE mergeVCT(tmpl.vct, claim.vct, tmpl.vctPolicy)
  IN  CASE pod.r # "done" -> pod
        [] pod.r = "done" /\ vct.r # "done" -> vct
        [] OTHER -> Done([pod |-> applySecureDefaults(pod.v, tmpl.managed, tmpl.custom),
                          vct |-> vct.v])

----------------------------------------------------------------------------
(* sandbox.go                                                              *)

PVCVolume(name, claim) == [name |-> name, kind |-> "pvc", claim |-> claim, ro |-> FALSE]

\* slip: a pod volume with the name stays as it is
injectMissingVolume(volumes, name, claim) ==
  IF \E i \in DOMAIN volumes : volumes[i].name = name THEN volumes
  ELSE Append(volumes, PVCVolume(name, claim))
injectPodVolume(volumes, name, claim) ==
  LET at == FirstNamed(volumes, name)
  IN  IF at = 0 THEN Append(volumes, PVCVolume(name, claim))
      ELSE [volumes EXCEPT ![at] = PVCVolume(name, claim)]

\* the PVC of a volumeClaimTemplate
PVCName(vct, sandbox) == vct.name \o "-" \o sandbox

\* reconcileRunning's loop over the volumeClaimTemplates
withVCTs(spec, sandbox) ==
  [spec.pod EXCEPT !.volumes =
     FoldLeft(LAMBDA vs, t : injectPodVolume(vs, t.name, PVCName(t, sandbox)), @, spec.vct)]

podServerPort(pod, def) ==
  LET i == SelectInSeq(pod.containers[1].ports, LAMBDA p : p > 0)
  IN  IF i = 0 THEN def ELSE pod.containers[1].ports[i]

----------------------------------------------------------------------------
(* mapping.go, and what CreateSandboxContainer makes of a mount            *)

\* plain values, the last one of a name
EnvMap(env) ==
  LET plain == {i \in DOMAIN env : ~env[i].from}
  IN  [n \in {env[i].name : i \in plain} |-> env[Max({i \in plain : env[i].name = n})].value]

\* a volume mount that becomes a mount; a tmpfs is never read-only
Mount(m, volumes) ==
  LET v == volumes[LastNamed(volumes, m.vol)]
  IN  IF v.kind = "pvc" THEN [src |-> v.claim, path |-> m.path, ro |-> m.ro \/ v.ro]
                        ELSE [src |-> "tmpfs", path |-> m.path, ro |-> FALSE]
Mappable(m, volumes) ==
  LET at == LastNamed(volumes, m.vol)
  IN  at # 0 /\ \/ volumes[at].kind = "pvc" /\ volumes[at].claim # ""
                \/ volumes[at].kind = "emptyDir"

AddMount(mounts, m, volumes) ==
  IF Mappable(m, volumes) THEN Append(mounts, Mount(m, volumes)) ELSE mounts

MapPodSpec(pod, port) ==
  LET c == pod.containers[1]
  IN  IF pod.containers = <<>> THEN Failed("error", pod)
      ELSE IF c.privileged THEN Failed("error", pod)
      ELSE Done([env |-> EnvMap(c.env),
                 serverPort |-> port,
                 ports |-> {port} \cup {c.ports[i] : i \in {j \in DOMAIN c.ports : c.ports[j] > 0}},
                 mounts |-> FoldLeft(LAMBDA ms, m : AddMount(ms, m, pod.volumes), <<>>, c.mounts),
                 user |-> IF c.user # "" THEN c.user ELSE pod.user,
                 roRoot |-> c.roRoot,
                 dns |-> pod.dns])
=============================================================================

---------------------------- MODULE MCDataPlane ----------------------------
(***************************************************************************)
(* Small instances of DataPlane for TLC.                                   *)
(***************************************************************************)
EXTENDS DataPlane

Req(ns, port, timeout) == [health |-> FALSE, label |-> TRUE, ns |-> ns, name |-> "a",
                           port |-> port, timeout |-> timeout]
\* ports beyond 65535 and absent namespaces take the defaults; one name is no label
SomeRequests == {Req("", 65536, TRUE), Req("team", 8888, FALSE),
                 [Req("", 0, TRUE) EXCEPT !.label = FALSE]}
\* two sandboxes with the same name
TwoKeys == {<<"default", "a">>, <<"team", "a">>}
OneSurvivor == {<<"default", "a">>}
OnePort == [k \in TwoKeys |-> {8888}]
\* the pair of one request, and the error stream of another, a repeated or a stray one
SomeHeaders == [s \in Streams |->
  CASE s = "s1" -> {[rid |-> "1", type |-> "data"]}
    [] s = "s2" -> {[rid |-> "1", type |-> "error"]}
    [] OTHER -> {[rid |-> "2", type |-> "error"], [rid |-> "1", type |-> "error"],
                 [rid |-> "", type |-> "other"]}]
=============================================================================

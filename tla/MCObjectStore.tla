--------------------------- MODULE MCObjectStore ---------------------------
(***************************************************************************)
(* Small instances of ObjectStore for TLC.                                 *)
(***************************************************************************)
EXTENDS ObjectStore

CONSTANTS g1, g2, n1, n2, w1, w2, c1

\* every watcher watches g1
WatchOne == [w \in Watchers |-> g1]
\* no selector; or one watcher without, one with a selector
SelAll == [w \in Watchers |-> Labels]
SelMixed == [w \in Watchers |-> IF w = w1 THEN Labels ELSE {"red"}]
=============================================================================

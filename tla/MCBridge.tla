------------------------------ MODULE MCBridge ------------------------------
(***************************************************************************)
(* One task, one controller, and one from outside with one grant or another. *)
(***************************************************************************)
EXTENDS Bridge, TLC

CONSTANTS p1, outsider, t1, codex, claude

Controllers == {p1}
Outsiders == {outsider}
Everyone == Controllers \cup Outsiders
OneTask == {t1}
ByCodex == [t \in OneTask |-> codex]
UnderLib == [t \in OneTask |-> {<<"src", "lib">>}]
OutsideGrants ==
  {[role |-> "reviewer", provider |-> claude, scope |-> {<<>>}],
   [role |-> "builder", provider |-> codex, scope |-> {<<"src">>}],
   [role |-> "builder", provider |-> codex, scope |-> {<<"src", "app">>}]}
=============================================================================

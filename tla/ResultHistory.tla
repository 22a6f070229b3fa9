---------------------------- MODULE ResultHistory ----------------------------
(***************************************************************************)
(* The abstract history of a conversation: the results of its tasks, each  *)
(* completion adding the next one in a single step.  docs/api.md speaks of *)
(* result versions in this sense.                                          *)
(***************************************************************************)
EXTENDS Sequences

CONSTANTS Tasks, Sessions, SessionOf

VARIABLE history   (* history[s][v]: the task whose result is version v.   *)

Init == history = [s \in Sessions |-> << >>]

AddVersion(t) ==
  history' = [history EXCEPT ![SessionOf[t]] = Append(@, t)]

Next == \E t \in Tasks : AddVersion(t)

Spec == Init /\ [][Next]_history

=============================================================================

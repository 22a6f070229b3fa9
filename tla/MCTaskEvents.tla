---------------------------- MODULE MCTaskEvents ----------------------------
(***************************************************************************)
(* Instances of TaskEventsSpec for TLC: tasks of one conversation.         *)
(***************************************************************************)
EXTENDS TaskEventsSpec

CONSTANT s1
OneSession == [t \in Tasks |-> s1]

=============================================================================

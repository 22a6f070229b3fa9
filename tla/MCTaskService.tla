--------------------------- MODULE MCTaskService ---------------------------
(***************************************************************************)
(* Instances of TaskService for TLC.                                       *)
(***************************************************************************)
EXTENDS TaskProperties

\* All tasks are turns of one conversation.
CONSTANT s1
OneSession == [t \in Tasks |-> s1]

=============================================================================

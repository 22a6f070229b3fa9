------------------------------ MODULE TaskTypes ------------------------------
(***************************************************************************)
(* What the components of the task pipeline have in common: the tasks and  *)
(* the kinds of event a task's stream is made of.                          *)
(***************************************************************************)
CONSTANT Tasks   (* The tasks that may ever be created.                    *)

\* isTerminalStatus; the same names are the last part of the event types.
Terminal == {"completed", "failed", "cancelled"}

\* TaskStreamEvent without task.stage.changed and task.result.created, which
\* carry no text and change no field of a task.
EventType == {"accepted", "delta"} \cup Terminal

=============================================================================

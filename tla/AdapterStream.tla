---------------------------- MODULE AdapterStream ----------------------------
(***************************************************************************)
(* The OpenClaw Adapter as the API meets it: an execute request starts a   *)
(* run at the Gateway, the run's events are published to the Adapter's     *)
(* broker in order, and a cancel request aborts a run.  The API reads the  *)
(* broker by position: event i of stream[t] is the server-sent event with  *)
(* id i.  The Adapter's own connection handling is not in this module.     *)
(***************************************************************************)
EXTENDS Integers, Sequences, TaskTypes

CONSTANT
  MaxStream   (* Bound: no delta is produced on a stream this long.        *)

ASSUME MaxStreamAssumption == MaxStream \in Nat

VARIABLES
  stream,   (* stream[t]: events the broker has published for t, in order. *)
  runs      (* runs[t]: runs of t the Adapter follows that have not ended. *)

adapterVars == <<stream, runs>>

AdapterTypeOK ==
  /\ stream \in [Tasks -> Seq(EventType)]
  /\ runs   \in [Tasks -> Nat]

AdapterInit ==
  /\ stream = [t \in Tasks |-> << >>]
  /\ runs   = [t \in Tasks |-> 0]

\* TaskEventBroker.publish: ids count up from 1 and never repeat.
Publish(t, type) == stream' = [stream EXCEPT ![t] = Append(@, type)]

\* POST /gateway/tasks/execute reached the Gateway and the run was accepted.
\* A repeated request starts a second run, or, from a Gateway that honours its
\* idempotencyKey, is answered with the run there is.
AcceptRun(t) ==
  /\ Publish(t, "accepted")
  /\ \/ runs' = [runs EXCEPT ![t] = @ + 1]
     \/ runs[t] > 0 /\ UNCHANGED runs

\* The Adapter answers a cancel request with 404: it follows no run of t, or t
\* was executed twice.  A second run takes the first one's place in
\* activeByTask and the first of the two to end clears it.
MayBeUnknown(t) ==
  \/ runs[t] = 0
  \/ \E i, j \in DOMAIN stream[t] :
       i # j /\ stream[t][i] = "accepted" /\ stream[t][j] = "accepted"

\* Mutated form: activeByTask is not looked up.
AbortRunUnchecked(t) ==
  /\ Publish(t, "cancelled")
  /\ runs' = [runs EXCEPT ![t] = @ - 1]

\* POST /gateway/tasks/:id/cancel on an active task.
AbortRun(t) ==
  /\ runs[t] > 0
  /\ Publish(t, "cancelled")
  /\ runs' = [runs EXCEPT ![t] = @ - 1]

\* The Gateway produces text.
ProduceDelta(t) ==
  /\ runs[t] > 0
  /\ Len(stream[t]) < MaxStream
  /\ Publish(t, "delta")
  /\ UNCHANGED runs

\* The run ends by itself: chat.final, chat.error, a lost Gateway connection
\* or the Adapter's own timer.
EndRun(t) ==
  /\ runs[t] > 0
  /\ \E type \in {"completed", "failed"} : Publish(t, type)
  /\ runs' = [runs EXCEPT ![t] = @ - 1]

=============================================================================

------------------------------ MODULE TaskQueue ------------------------------
(***************************************************************************)
(* The BullMQ execution queue as apps/mobile-api uses it through           *)
(* TaskQueueService: one job per task, because the job id is the task id.  *)
(* The queue lives in Redis and survives a crash of the API process.       *)
(***************************************************************************)
EXTENDS Naturals, TaskTypes

CONSTANT
  Attempts   (* TASK_QUEUE_ATTEMPTS: tries before BullMQ gives a job up.   *)

ASSUME AttemptsAssumption == Attempts \in Nat \ {0}

VARIABLES
  job,    (* job[t]: state of the job of task t, "none" if there is none.  *)
  tries   (* tries[t]: attemptsMade of that job.                           *)

queueVars == <<job, tries>>

\* "waiting" stands for BullMQ's waiting, delayed, paused and prioritized:
\* TaskQueueService.cancel treats the four alike.
JobState == {"none", "waiting", "active", "completed", "failed"}

QueueTypeOK ==
  /\ job   \in [Tasks -> JobState]
  /\ tries \in [Tasks -> 0 .. Attempts]

QueueInit ==
  /\ job   = [t \in Tasks |-> "none"]
  /\ tries = [t \in Tasks |-> 0]

SetJob(t, state, count) ==
  /\ job'   = [job   EXCEPT ![t] = state]
  /\ tries' = [tries EXCEPT ![t] = count]

-----------------------------------------------------------------------------
(* Operations of TaskQueueService.                                         *)

\* enqueue(t): adding a job whose id exists changes nothing.
QueueAdd(t) ==
  IF job[t] = "none" THEN SetJob(t, "waiting", 0) ELSE UNCHANGED queueVars

\* Mutated form: a failed job is not removed, so adding it again does nothing.
QueueReconcileKeepsFailed(t) ==
  IF job[t] \in {"none", "completed"}
    THEN SetJob(t, "waiting", 0)
    ELSE UNCHANGED queueVars

\* enqueue(t, true): a finished job of that id is removed first.
QueueReconcile(t) ==
  IF job[t] \in {"none", "completed", "failed"}
    THEN SetJob(t, "waiting", 0)
    ELSE UNCHANGED queueVars

\* cancel(t) on a job that has not been picked up.
QueueRemove(t) ==
  /\ job[t] = "waiting"
  /\ SetJob(t, "none", 0)

-----------------------------------------------------------------------------
(* What the BullMQ worker does with a job around the processor call.       *)

QueuePick(t) ==
  /\ job[t] = "waiting"
  /\ SetJob(t, "active", tries[t])

QueueComplete(t) == SetJob(t, "completed", tries[t])

\* The processor threw on the last allowed attempt.
LastAttempt(t) == tries[t] + 1 >= Attempts

\* The processor threw: back to waiting (after a backoff) or failed for good.
QueueThrow(t) ==
  SetJob(t, IF LastAttempt(t) THEN "failed" ELSE "waiting", tries[t] + 1)

\* A job whose worker died is stalled and goes back to waiting.
QueueStalled ==
  /\ job' = [t \in Tasks |-> IF job[t] = "active" THEN "waiting" ELSE job[t]]
  /\ UNCHANGED tries

=============================================================================

----------------------------- MODULE TaskService -----------------------------
(***************************************************************************)
(* TasksService of apps/mobile-api: the life of the tasks of one user, in  *)
(* one API process over PostgreSQL (TaskEvents), the BullMQ queue          *)
(* (TaskQueue) and the OpenClaw Adapter (AdapterStream).                   *)
(*                                                                         *)
(* JavaScript runs one handler at a time up to its next await, so a step   *)
(* of this model is what happens between two awaits, together with the     *)
(* effect of the awaited call; other handlers run in between.              *)
(***************************************************************************)
EXTENDS TaskEvents, TaskQueue, AdapterStream, SequencesExt

CONSTANTS
  Limit,        (* USER_CONCURRENT_TASK_LIMIT.                             *)
  Cancellable,  (* Bound: the tasks the user may ask to cancel.            *)
  FaultKinds,   (* The kinds of fault that may happen.                     *)
  MaxFaults,    (* Bound: faults and timeouts in a behaviour.              *)
  CrashCost     (* Bound: the faults a crash counts for.                   *)

ASSUME LimitAssumption  == Limit \in Nat \ {0}
ASSUME CancellableAssumption == Cancellable \subseteq Tasks
ASSUME FaultsAssumption == MaxFaults \in Nat /\ CrashCost \in Nat

\* "crash": the API process dies.           "queue": Redis refuses a job.
\* "execute": an execute request fails.     "reply": its reply is lost.
\* "adapter": a cancel request to the adapter fails.
\* "stream": the stream of a task cannot be opened or breaks.
\* "save": an event of a relay cannot be stored.
\* "store": the other handlers' transactions fail.
\* "session": the session cannot be marked running.
\* "timer": a task's time is up.
FaultKind == {"crash", "queue", "execute", "reply", "adapter", "stream",
              "save", "store", "session", "timer"}

ASSUME KindsAssumption == FaultKinds \subseteq FaultKind

VARIABLES
  api,         (* Phase of the API process.                                *)
  todo,        (* Tasks onModuleInit still has to go through.              *)
  createLock,  (* Holder of the advisory lock tasks:<user>.                *)
  enq,         (* enq[t]: where enqueueTask is that creates t.             *)
  work,        (* work[t]: where the worker is that processes the job of t.*)
  can,         (* can[t]: where cancelTask(t) is.                          *)
  relay,       (* relay[t]: relayAdapterEvents(t) and its AbortController. *)
  faults       (* Faults and timeouts so far.                              *)

processVars == <<api, todo, createLock, enq, work, can, relay>>
vars == <<dbVars, sessionLock, call, queueVars, adapterVars, processVars, faults>>

\* "down": no process.  "requeue", "resume": inside onModuleInit, the worker
\* runs and HTTP does not.  "up": serving.
ApiPhase == {"down", "requeue", "resume", "up"}
EnqStep  == {"idle", "insert", "add", "link", "failing"}
WorkStep == {"idle", "process", "execute", "claim", "undo", "session"}
CanStep  == {"idle", "queue", "gateway", "persist"}

\* "open": reading the last stored id and connecting.  "reading": awaiting
\* reader.read().  "saving": awaiting persistTaskEvent of event pos + 1, from
\* a chunk that ends with event chunk.  "giveUp": awaiting the cancellation
\* after a timeout.  "failing": awaiting failTask.
RelayStep   == {"off", "open", "reading", "saving", "giveUp", "failing"}
RelayRecord == [at : RelayStep, aborted : BOOLEAN, timedOut : BOOLEAN,
                pos : Nat, chunk : Nat]

RelayOff == [at |-> "off", aborted |-> FALSE, timedOut |-> FALSE,
             pos |-> 0, chunk |-> 0]

ProcessTypeOK ==
  /\ api        \in ApiPhase
  /\ todo       \in SUBSET Tasks
  /\ createLock \in Tasks \cup {NoTask}
  /\ enq        \in [Tasks -> EnqStep]
  /\ work       \in [Tasks -> WorkStep]
  /\ can        \in [Tasks -> CanStep]
  /\ relay      \in [Tasks -> RelayRecord]
  /\ faults     \in 0 .. MaxFaults

TypeOK == EventsTypeOK /\ QueueTypeOK /\ AdapterTypeOK /\ ProcessTypeOK

Init ==
  /\ EventsInit
  /\ QueueInit
  /\ AdapterInit
  /\ api        = "up"
  /\ todo       = {}
  /\ createLock = NoTask
  /\ enq        = [t \in Tasks |-> "idle"]
  /\ work       = [t \in Tasks |-> "idle"]
  /\ can        = [t \in Tasks |-> "idle"]
  /\ relay      = [t \in Tasks |-> RelayOff]
  /\ faults     = 0

-----------------------------------------------------------------------------
Cost(kind) == IF kind = "crash" THEN CrashCost ELSE 1

CountFault(cost) == faults + cost <= MaxFaults /\ faults' = faults + cost

Fault(kind) == kind \in FaultKinds /\ CountFault(Cost(kind))

Go(pc, t, step) == [pc EXCEPT ![t] = step]

SetRelay(t, record) == relay' = [relay EXCEPT ![t] = record]

\* requestGatewayCancellation(t).catch(() => undefined)
CancelBestEffort(t) ==
  \/ AbortRun(t) /\ UNCHANGED faults
  \/ MayBeUnknown(t) /\ UNCHANGED <<adapterVars, faults>>
  \/ runs[t] > 0 /\ Fault("adapter") /\ UNCHANGED adapterVars

ActiveTasks == {t \in Tasks : status[t] \in Active}

-----------------------------------------------------------------------------
(* enqueueTask.                                                            *)

\* Mutated form: the count is not made under the lock.
CountActiveUnlocked(t) ==
  /\ api = "up"
  /\ enq[t] = "idle"
  /\ status[t] = "none"
  /\ Cardinality(ActiveTasks) < Limit
  /\ enq' = Go(enq, t, "insert")
  /\ UNCHANGED <<dbVars, sessionLock, call, queueVars, adapterVars,
                 api, todo, createLock, work, can, relay, faults>>

\* The transaction takes the lock and counts; at the limit it throws, which
\* leaves no trace here.
CountActive(t) ==
  /\ api = "up"
  /\ enq[t] = "idle"
  /\ status[t] = "none"
  /\ createLock = NoTask
  /\ Cardinality(ActiveTasks) < Limit
  /\ createLock' = t
  /\ enq' = Go(enq, t, "insert")
  /\ UNCHANGED <<dbVars, sessionLock, call, queueVars, adapterVars,
                 api, todo, work, can, relay, faults>>

InsertTask(t) ==
  /\ enq[t] = "insert"
  /\ status' = [status EXCEPT ![t] = "queued"]
  /\ session' = [session EXCEPT ![SessionOf[t]] =
                   [status |-> "queued", current |-> t]]
  /\ createLock' = NoTask
  /\ enq' = Go(enq, t, "add")
  /\ UNCHANGED <<hasUrl, log, results, sessionLock, call, queueVars,
                 adapterVars, api, todo, work, can, relay, faults>>

\* The transaction fails; its lock goes with it.
CreateFails(t) ==
  /\ enq[t] = "insert"
  /\ Fault("store")
  /\ createLock' = NoTask
  /\ enq' = Go(enq, t, "idle")
  /\ UNCHANGED <<dbVars, sessionLock, call, queueVars, adapterVars,
                 api, todo, work, can, relay>>

AddJob(t) ==
  /\ enq[t] = "add"
  /\ QueueAdd(t)
  /\ enq' = Go(enq, t, "link")
  /\ UNCHANGED <<dbVars, sessionLock, call, adapterVars,
                 api, todo, createLock, work, can, relay, faults>>

\* The queueJobId is stored; nothing reads it.
LinkJob(t) ==
  /\ enq[t] = "link"
  /\ enq' = Go(enq, t, "idle")
  /\ UNCHANGED <<dbVars, sessionLock, call, queueVars, adapterVars,
                 api, todo, createLock, work, can, relay, faults>>

\* Redis refuses the job, or the queueJobId cannot be stored.
EnqueueFails(t) ==
  /\ enq[t] \in {"add", "link"}
  /\ Fault("queue")
  /\ SetCall(t, "enqueue", FailCall)
  /\ enq' = Go(enq, t, "failing")
  /\ UNCHANGED <<dbVars, sessionLock, queueVars, adapterVars,
                 api, todo, createLock, work, can, relay>>

EnqueueReturns(t) ==
  /\ enq[t] = "failing"
  /\ Resume(t, "enqueue")
  /\ enq' = Go(enq, t, "idle")
  /\ UNCHANGED <<dbVars, sessionLock, queueVars, adapterVars,
                 api, todo, createLock, work, can, relay, faults>>

-----------------------------------------------------------------------------
(* The worker: processQueuedTask and dispatchTask.                         *)

PickJob(t) ==
  /\ api # "down"
  /\ QueuePick(t)
  /\ work' = Go(work, t, "process")
  /\ UNCHANGED <<dbVars, sessionLock, call, adapterVars,
                 api, todo, createLock, enq, can, relay, faults>>

ProcessJob(t) ==
  /\ work[t] = "process"
  /\ IF status[t] = "queued"
       THEN work' = Go(work, t, "execute") /\ UNCHANGED queueVars
       ELSE work' = Go(work, t, "idle") /\ QueueComplete(t)
  /\ UNCHANGED <<dbVars, sessionLock, call, adapterVars,
                 api, todo, createLock, enq, can, relay, faults>>

\* The adapter starts the run and its 202 reply arrives.
ExecuteAccepted(t) ==
  /\ work[t] = "execute"
  /\ AcceptRun(t)
  /\ work' = Go(work, t, "claim")
  /\ UNCHANGED <<dbVars, sessionLock, call, queueVars,
                 api, todo, createLock, enq, can, relay, faults>>

\* Mutated form: nobody listens for the last failure.
JobThrowsUnheard(t) ==
  /\ work' = Go(work, t, "idle")
  /\ QueueThrow(t)
  /\ UNCHANGED call

\* The job throws; after the last attempt the "failed" listener calls failTask.
JobThrows(t) ==
  /\ work' = Go(work, t, "idle")
  /\ QueueThrow(t)
  /\ IF LastAttempt(t) THEN SetCall(t, "worker", FailCall) ELSE UNCHANGED call

\* No run was started: the adapter refused or was not reached, or a file of
\* the task failed its integrity check.
ExecuteRefused(t) ==
  /\ work[t] = "execute"
  /\ Fault("execute")
  /\ JobThrows(t)
  /\ UNCHANGED <<dbVars, sessionLock, adapterVars,
                 api, todo, createLock, enq, can, relay>>

\* The run was started but the reply took more than 15 seconds or was lost.
ExecuteReplyLost(t) ==
  /\ work[t] = "execute"
  /\ Fault("reply")
  /\ AcceptRun(t)
  /\ JobThrows(t)
  /\ UNCHANGED <<dbVars, sessionLock,
                 api, todo, createLock, enq, can, relay>>

\* Mutated form: a plain update by id.
ClaimTaskUnguarded(t) ==
  /\ work[t] = "claim"
  /\ status' = [status EXCEPT ![t] = "running"]
  /\ hasUrl' = [hasUrl EXCEPT ![t] = TRUE]
  /\ work'   = Go(work, t, "session")
  /\ UNCHANGED <<log, session, results, sessionLock, call, queueVars,
                 adapterVars, api, todo, createLock, enq, can, relay, faults>>

\* Mutated form: the stream URL is kept in memory only.
ClaimTaskNoUrl(t) ==
  /\ work[t] = "claim"
  /\ IF status[t] = "queued"
       THEN /\ status' = [status EXCEPT ![t] = "running"]
            /\ work'   = Go(work, t, "session")
       ELSE /\ work'   = Go(work, t, "undo")
            /\ UNCHANGED status
  /\ UNCHANGED <<hasUrl, log, session, results, sessionLock, call, queueVars,
                 adapterVars, api, todo, createLock, enq, can, relay, faults>>

\* updateMany({ where: { id, status: "queued" } })
ClaimTask(t) ==
  /\ work[t] = "claim"
  /\ IF status[t] = "queued"
       THEN /\ status' = [status EXCEPT ![t] = "running"]
            /\ hasUrl' = [hasUrl EXCEPT ![t] = TRUE]
            /\ work'   = Go(work, t, "session")
       ELSE /\ work'   = Go(work, t, "undo")
            /\ UNCHANGED <<status, hasUrl>>
  /\ UNCHANGED <<log, session, results, sessionLock, call, queueVars,
                 adapterVars, api, todo, createLock, enq, can, relay, faults>>

UndoRun(t) ==
  /\ work[t] = "undo"
  /\ CancelBestEffort(t)
  /\ QueueComplete(t)
  /\ work' = Go(work, t, "idle")
  /\ UNCHANGED <<dbVars, sessionLock, call,
                 api, todo, createLock, enq, can, relay>>

\* startAdapterRelay: nothing if the task has a relay.
StartRelay(t) ==
  IF relay[t].at = "off"
    THEN SetRelay(t, [RelayOff EXCEPT !.at = "open"])
    ELSE UNCHANGED relay

\* The session is marked running, in a transaction of its own, and the relay
\* starts; then the job is complete.
MarkSession(t) ==
  /\ work[t] = "session"
  /\ session' = [session EXCEPT ![SessionOf[t]].status = "running"]
  /\ StartRelay(t)
  /\ QueueComplete(t)
  /\ work' = Go(work, t, "idle")
  /\ UNCHANGED <<status, hasUrl, log, results, sessionLock, call, adapterVars,
                 api, todo, createLock, enq, can, faults>>

\* That update fails: the job throws although the task is running.
MarkSessionFails(t) ==
  /\ work[t] = "session"
  /\ Fault("session")
  /\ JobThrows(t)
  /\ UNCHANGED <<dbVars, sessionLock, adapterVars,
                 api, todo, createLock, enq, can, relay>>

\* The failTask of the "failed" listener is over.
FinalFailureReturns(t) ==
  /\ Resume(t, "worker")
  /\ UNCHANGED <<dbVars, sessionLock, queueVars, adapterVars,
                 processVars, faults>>

-----------------------------------------------------------------------------
(* relayAdapterEvents.                                                     *)

\* Mutated form: the id to come instead of the last one seen.
LastSourceNext(t) ==
  LET last == SelectLastInSeq(log[t], LAMBDA e : e.src > 0)
  IN  IF last = 0 THEN 0 ELSE log[t][last].src + 1

\* sourceEventId of the last stored event that came from the adapter.
LastSource(t) ==
  LET last == SelectLastInSeq(log[t], LAMBDA e : e.src > 0)
  IN  IF last = 0 THEN 0 ELSE log[t][last].src

OpenStream(t) ==
  /\ relay[t].at = "open"
  /\ SetRelay(t, [relay[t] EXCEPT !.at = "reading", !.pos = LastSource(t)])
  /\ UNCHANGED <<dbVars, sessionLock, call, queueVars, adapterVars,
                 api, todo, createLock, enq, work, can, faults>>

\* A chunk arrives with the events up to some published one, and the first
\* is handed to persistTaskEvent.
ReceiveChunk(t) ==
  /\ relay[t].at = "reading"
  /\ LET pos == relay[t].pos
     IN  \E last \in (pos + 1) .. Len(stream[t]) :
           /\ SetRelay(t, [relay[t] EXCEPT !.at = "saving", !.chunk = last])
           /\ SetCall(t, "relay", PersistCall(stream[t][pos + 1], pos + 1))
  /\ UNCHANGED <<dbVars, sessionLock, queueVars, adapterVars,
                 api, todo, createLock, enq, work, can, faults>>

\* persistTaskEvent returned for event pos + 1.  A terminal event ends the
\* relay.  The rest of the chunk is stored without looking at the abort
\* signal; after the chunk an aborted relay ends and reports nothing.
SavedEvent(t) ==
  LET r    == relay[t]
      next == r.pos + 1
  IN  /\ r.at = "saving"
      /\ call[t]["relay"].at = "done"
      /\ IF call[t]["relay"].type \in Terminal
           THEN SetRelay(t, RelayOff) /\ SetCall(t, "relay", IdleCall)
         ELSE IF next < r.chunk
           THEN /\ SetRelay(t, [r EXCEPT !.pos = next])
                /\ SetCall(t, "relay", PersistCall(stream[t][next + 1], next + 1))
         ELSE /\ SetRelay(t, IF r.aborted THEN RelayOff
                             ELSE [r EXCEPT !.at = "reading", !.pos = next])
              /\ SetCall(t, "relay", IdleCall)
      /\ UNCHANGED <<dbVars, sessionLock, queueVars, adapterVars,
                     api, todo, createLock, enq, work, can, faults>>

\* Mutated form: a stream that ends early ends the relay and nothing else.
StreamBreaksQuietly(t) ==
  /\ relay[t].at \in {"open", "reading"}
  /\ Fault("stream")
  /\ SetRelay(t, RelayOff)
  /\ UNCHANGED <<dbVars, sessionLock, call, queueVars, adapterVars,
                 api, todo, createLock, enq, work, can>>

\* The stream cannot be opened, breaks or is closed early.
StreamBreaks(t) ==
  /\ relay[t].at \in {"open", "reading"}
  /\ Fault("stream")
  /\ SetRelay(t, [relay[t] EXCEPT !.at = "failing"])
  /\ SetCall(t, "relay", FailCall)
  /\ UNCHANGED <<dbVars, sessionLock, queueVars, adapterVars,
                 api, todo, createLock, enq, work, can>>

\* persistTaskEvent throws and its transaction is rolled back.
SaveFails(t) ==
  /\ relay[t].at = "saving"
  /\ Fault("save")
  /\ Rollback(t, "relay")
  /\ CASE relay[t].timedOut ->
            /\ SetRelay(t, [relay[t] EXCEPT !.at = "giveUp"])
            /\ SetCall(t, "relay", IdleCall)
       [] ~relay[t].timedOut /\ relay[t].aborted ->
            SetRelay(t, RelayOff) /\ SetCall(t, "relay", IdleCall)
       [] OTHER ->
            /\ SetRelay(t, [relay[t] EXCEPT !.at = "failing"])
            /\ SetCall(t, "relay", FailCall)
  /\ UNCHANGED <<queueVars, adapterVars,
                 api, todo, createLock, enq, work, can>>

\* The task's time is up.  The abort makes a pending fetch or read throw;
\* while an event is being stored it only sets the signal.
TimerFires(t) ==
  /\ ~relay[t].timedOut
  /\ relay[t].at \in {"open", "reading", "saving"}
  /\ Fault("timer")
  /\ SetRelay(t, [relay[t] EXCEPT
       !.at = IF @ = "saving" THEN "saving" ELSE "giveUp",
       !.aborted = TRUE, !.timedOut = TRUE])
  /\ UNCHANGED <<dbVars, sessionLock, call, queueVars, adapterVars,
                 api, todo, createLock, enq, work, can>>

GiveUp(t) ==
  /\ relay[t].at = "giveUp"
  /\ CancelBestEffort(t)
  /\ SetRelay(t, [relay[t] EXCEPT !.at = "failing"])
  /\ SetCall(t, "relay", FailCall)
  /\ UNCHANGED <<dbVars, sessionLock, queueVars,
                 api, todo, createLock, enq, work, can>>

RelayFailed(t) ==
  /\ relay[t].at = "failing"
  /\ Resume(t, "relay")
  /\ SetRelay(t, RelayOff)
  /\ UNCHANGED <<dbVars, sessionLock, queueVars, adapterVars,
                 api, todo, createLock, enq, work, can, faults>>

-----------------------------------------------------------------------------
(* cancelTask.                                                             *)

CancelRead(t) ==
  /\ t \in Cancellable
  /\ api = "up"
  /\ can[t] = "idle"
  /\ \/ status[t] = "queued"  /\ can' = Go(can, t, "queue")
     \/ status[t] = "running" /\ can' = Go(can, t, "gateway")
  /\ UNCHANGED <<dbVars, sessionLock, call, queueVars, adapterVars,
                 api, todo, createLock, enq, work, relay, faults>>

\* activeRelays.get(t)?.abort(), then persistTaskEvent(task.cancelled).  An
\* abort ends a relay that is waiting; one that is storing goes on for now.
StoreCancelled(t) ==
  /\ relay' = [relay EXCEPT ![t] =
       CASE @.at \in {"open", "reading"} -> RelayOff
         [] @.at = "saving"              -> [@ EXCEPT !.aborted = TRUE]
         [] OTHER                        -> @]
  /\ SetCall(t, "cancel", PersistCall("cancelled", 0))
  /\ can' = Go(can, t, "persist")

\* taskQueue.cancel removes a job that is not picked up yet.  If the job is
\* picked up between getState and remove, remove throws and nothing happens.
CancelQueued(t) ==
  /\ can[t] = "queue"
  /\ \/ QueueRemove(t) /\ StoreCancelled(t)
     \/ job[t] # "waiting" /\ StoreCancelled(t) /\ UNCHANGED queueVars
     \/ /\ job[t] = "active"
        /\ can' = Go(can, t, "idle")
        /\ UNCHANGED <<queueVars, call, relay>>
  /\ UNCHANGED <<dbVars, sessionLock, adapterVars,
                 api, todo, createLock, enq, work, faults>>

\* requestGatewayCancellation: an answer other than 2xx, or none, is a
\* conflict and the task is left as it is.
CancelRunning(t) ==
  /\ can[t] = "gateway"
  /\ \/ AbortRun(t) /\ StoreCancelled(t) /\ UNCHANGED faults
     \/ /\ \/ MayBeUnknown(t) /\ UNCHANGED <<adapterVars, faults>>
           \/ Fault("adapter") /\ (AbortRun(t) \/ UNCHANGED adapterVars)
        /\ can' = Go(can, t, "idle")
        /\ UNCHANGED <<call, relay>>
  /\ UNCHANGED <<dbVars, sessionLock, queueVars,
                 api, todo, createLock, enq, work>>

CancelReturns(t) ==
  /\ can[t] = "persist"
  /\ Resume(t, "cancel")
  /\ can' = Go(can, t, "idle")
  /\ UNCHANGED <<dbVars, sessionLock, queueVars, adapterVars,
                 api, todo, createLock, enq, work, relay, faults>>

-----------------------------------------------------------------------------
(* Crash and restart.                                                      *)

\* The process dies: what it was doing is gone, its transactions roll back
\* and their locks with them.  An exception in onModuleInit ends the process
\* too, and so does one in the failTask of a relay, which nobody catches.
Crash ==
  /\ api # "down"
  /\ Fault("crash")
  /\ api'         = "down"
  /\ todo'        = {}
  /\ createLock'  = NoTask
  /\ enq'         = [t \in Tasks |-> "idle"]
  /\ work'        = [t \in Tasks |-> "idle"]
  /\ can'         = [t \in Tasks |-> "idle"]
  /\ relay'       = [t \in Tasks |-> RelayOff]
  /\ call'        = [t \in Tasks |-> [c \in Caller |-> IdleCall]]
  /\ sessionLock' = [s \in Sessions |-> NoTask]
  /\ QueueStalled
  /\ UNCHANGED <<dbVars, adapterVars>>

\* onModuleInit: the worker starts, and the queued tasks are read.
BootStart ==
  /\ api = "down"
  /\ api' = "requeue"
  /\ todo' = {t \in Tasks : status[t] = "queued"}
  /\ UNCHANGED <<dbVars, sessionLock, call, queueVars, adapterVars,
                 createLock, enq, work, can, relay, faults>>

BootRequeue(t) ==
  /\ api = "requeue"
  /\ t \in todo
  /\ QueueReconcile(t)
  /\ todo' = todo \ {t}
  /\ UNCHANGED <<dbVars, sessionLock, call, adapterVars,
                 api, createLock, enq, work, can, relay, faults>>

\* Then the running tasks that have a stream to resume are read.
BootScan ==
  /\ api = "requeue"
  /\ todo = {}
  /\ api' = "resume"
  /\ todo' = {t \in Tasks : status[t] = "running" /\ hasUrl[t]}
  /\ UNCHANGED <<dbVars, sessionLock, call, queueVars, adapterVars,
                 createLock, enq, work, can, relay, faults>>

\* The loop has come to t: it is not awaiting anything for another task.
BootAt(t) ==
  /\ api = "resume"
  /\ t \in todo
  /\ \A u \in Tasks : call[u]["boot"].at = "idle"

BootResume(t) ==
  /\ BootAt(t)
  /\ StartRelay(t)
  /\ todo' = todo \ {t}
  /\ UNCHANGED <<dbVars, sessionLock, call, queueVars, adapterVars,
                 api, createLock, enq, work, can, faults>>

\* The task's time ran out while the process was down.
BootExpire(t) ==
  /\ BootAt(t)
  /\ CancelBestEffort(t)
  /\ SetCall(t, "boot", FailCall)
  /\ UNCHANGED <<dbVars, sessionLock, queueVars, processVars>>

BootExpired(t) ==
  /\ Resume(t, "boot")
  /\ todo' = todo \ {t}
  /\ UNCHANGED <<dbVars, sessionLock, queueVars, adapterVars,
                 api, createLock, enq, work, can, relay, faults>>

BootDone ==
  /\ api = "resume"
  /\ todo = {}
  /\ api' = "up"
  /\ UNCHANGED <<dbVars, sessionLock, call, queueVars, adapterVars,
                 todo, createLock, enq, work, can, relay, faults>>

-----------------------------------------------------------------------------
\* persistTaskEvent and failTask, run by any caller.
StoreStep(t) ==
  /\ \E c \in Caller : CallStepOf(t, c)
  /\ UNCHANGED <<queueVars, adapterVars, processVars, faults>>

\* The transaction of failTask or persistTaskEvent fails for a caller other
\* than a relay.  createTask and cancelTask pass the exception on, the
\* "failed" listener logs it.
StoreFails(t) ==
  /\ Fault("store")
  /\ \E c \in {"enqueue", "worker", "cancel"} :
       /\ Rollback(t, c)
       /\ SetCall(t, c, IdleCall)
       /\ enq' = IF c = "enqueue" THEN Go(enq, t, "idle") ELSE enq
       /\ can' = IF c = "cancel" THEN Go(can, t, "idle") ELSE can
  /\ UNCHANGED <<queueVars, adapterVars, api, todo, createLock, work, relay>>

\* The Gateway goes on by itself.
AdapterStep(t) ==
  /\ ProduceDelta(t) \/ EndRun(t)
  /\ UNCHANGED <<dbVars, sessionLock, call, queueVars, processVars, faults>>

EnqueueStep(t) ==
  \/ InsertTask(t) \/ AddJob(t) \/ LinkJob(t) \/ EnqueueReturns(t)

WorkerStep(t) ==
  \/ PickJob(t) \/ ProcessJob(t) \/ ExecuteAccepted(t) \/ ClaimTask(t)
  \/ UndoRun(t) \/ MarkSession(t) \/ FinalFailureReturns(t)

RelayWorks(t) ==
  \/ OpenStream(t) \/ ReceiveChunk(t) \/ SavedEvent(t)
  \/ GiveUp(t) \/ RelayFailed(t)

CancelStep(t) ==
  \/ CancelQueued(t) \/ CancelRunning(t) \/ CancelReturns(t)

BootStep ==
  \/ BootStart \/ BootScan \/ BootDone
  \/ \E t \in Tasks : BootRequeue(t) \/ BootResume(t) \/ BootExpire(t) \/ BootExpired(t)

FaultStep(t) ==
  \/ CreateFails(t) \/ EnqueueFails(t) \/ ExecuteRefused(t) \/ ExecuteReplyLost(t)
  \/ MarkSessionFails(t) \/ StreamBreaks(t) \/ SaveFails(t) \/ StoreFails(t)
  \/ TimerFires(t)

Next ==
  \/ \E t \in Tasks :
       \/ CountActive(t) \/ EnqueueStep(t)
       \/ WorkerStep(t)
       \/ RelayWorks(t)
       \/ CancelRead(t) \/ CancelStep(t)
       \/ StoreStep(t)
       \/ AdapterStep(t)
       \/ FaultStep(t)
  \/ BootStep
  \/ Crash

Spec == Init /\ [][Next]_vars

\* Node runs every ready continuation, BullMQ hands out every waiting job, and
\* a process that died is started again (restart: unless-stopped).  Nothing is
\* assumed of users, of the Gateway, or of faults and timeouts.
Fairness ==
  /\ \A t \in Tasks :
       /\ WF_vars(EnqueueStep(t))
       /\ WF_vars(WorkerStep(t))
       /\ WF_vars(RelayWorks(t))
       /\ WF_vars(CancelStep(t))
       /\ \A c \in Caller :
            WF_vars(CallStepOf(t, c)
                    /\ UNCHANGED <<queueVars, adapterVars, processVars, faults>>)
  /\ WF_vars(BootStep)

FairSpec == Spec /\ Fairness

=============================================================================

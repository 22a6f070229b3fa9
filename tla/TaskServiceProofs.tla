-------------------------- MODULE TaskServiceProofs --------------------------
(***************************************************************************)
(* Theorems of TaskService, for any tasks, sessions, limits and numbers of *)
(* faults.  ServiceInv is the inductive invariant; each of its parts is    *)
(* shown to be preserved in a lemma with one case per kind of action.      *)
(***************************************************************************)
EXTENDS TaskProperties, TaskEventsLemmas, WellFoundedInduction

\* A job that may still be tried has a try left.
QueueInv ==
  /\ QueueTypeOK
  /\ \A t \in Tasks : job[t] \in {"waiting", "active"} => tries[t] < Attempts

\* A step that leaves the queue alone keeps what is known of it.
LEMMA QueueUnchanged == QueueInv /\ UNCHANGED queueVars => QueueInv'
BY DEF QueueInv, QueueTypeOK, queueVars

\* A job may be set to any state its tries allow.
LEMMA SetJobInv ==
  ASSUME QueueInv, NEW t \in Tasks, NEW state \in JobState, NEW count \in 0 .. Attempts,
         state \in {"waiting", "active"} => count < Attempts,
         SetJob(t, state, count)
  PROVE  QueueInv'
BY DEF QueueInv, QueueTypeOK, SetJob

\* A job that is added starts with all its tries.
LEMMA QueueAddInv ==
  ASSUME QueueInv, NEW t \in Tasks, QueueAdd(t) \/ QueueReconcile(t)
  PROVE  QueueInv'
<1>1. CASE SetJob(t, "waiting", 0)
  BY <1>1, SetJobInv, AttemptsAssumption DEF JobState
<1>2. CASE UNCHANGED queueVars
  BY <1>2, QueueUnchanged
<1> QED
  BY <1>1, <1>2 DEF QueueAdd, QueueReconcile

\* A throw counts a try, and the last one fails the job.
LEMMA QueueThrowInv ==
  ASSUME QueueInv, NEW t \in Tasks, job[t] = "active", QueueThrow(t)
  PROVE  QueueInv'
<1> DEFINE state == IF LastAttempt(t) THEN "failed" ELSE "waiting"
<1>1. state \in JobState
  BY DEF JobState
<1>2. tries[t] + 1 \in 0 .. Attempts
  BY AttemptsAssumption DEF QueueInv, QueueTypeOK
<1>3. state \in {"waiting", "active"} => tries[t] + 1 < Attempts
  BY AttemptsAssumption DEF LastAttempt, QueueInv, QueueTypeOK
<1>4. SetJob(t, state, tries[t] + 1)
  BY DEF QueueThrow
<1> HIDE DEF state
<1> QED
  BY <1>1, <1>2, <1>3, <1>4, SetJobInv

\* Removing, picking and completing a job count no try.
LEMMA QueueMoveInv ==
  ASSUME QueueInv, NEW t \in Tasks, QueueRemove(t) \/ QueuePick(t) \/ QueueComplete(t)
  PROVE  QueueInv'
<1>1. CASE QueueRemove(t)
  BY <1>1, SetJobInv, AttemptsAssumption DEF QueueRemove, JobState
<1>2. CASE QueuePick(t)
  BY <1>2, SetJobInv, AttemptsAssumption DEF QueuePick, JobState, QueueInv, QueueTypeOK
<1>3. CASE QueueComplete(t)
  BY <1>3, SetJobInv, AttemptsAssumption DEF QueueComplete, JobState, QueueInv, QueueTypeOK
<1> QED
  BY <1>1, <1>2, <1>3

\* A stalled job waits with the tries it had.
LEMMA QueueStalledInv == QueueInv /\ QueueStalled => QueueInv'
BY DEF QueueInv, QueueTypeOK, QueueStalled, JobState
-----------------------------------------------------------------------------
(* The inductive invariant.                                                *)

\* A worker holds the job it works on, so that throwing counts a try that
\* the job had left.
JobIsHeld == \A t \in Tasks : work[t] # "idle" => job[t] = "active"

\* Events are stored of tasks that exist; a task is inserted once.
RowsExist ==
  \A t \in Tasks :
    /\ enq[t] = "insert" => status[t] = "none"
    /\ \A c \in Caller : call[t][c].at \in {"lock", "commit"} => status[t] # "none"

\* A relay goes through a chunk of events that were published.
ChunkIsPublished ==
  \A t \in Tasks : relay[t].at = "saving" => relay[t].chunk <= Len(stream[t])

\* Whoever makes a task running, or relays for it, comes after the dispatch
\* that stored the stream URL.
UrlInv ==
  \A t \in Tasks :
    \/ hasUrl[t]
    \/ /\ status[t] # "running"
       /\ work[t] # "session"
       /\ relay[t].at = "off"
       /\ \A c \in Caller : call[t][c].type # "accepted"
       /\ api = "resume" => t \notin todo

ServiceInv ==
  /\ EventsInv
  /\ ExplainInv
  /\ QueueInv
  /\ AdapterTypeOK
  /\ ProcessTypeOK
  /\ JobIsHeld
  /\ RowsExist
  /\ ChunkIsPublished
  /\ UrlInv

\* A relay that is off, or has just started, has the type of a relay.
LEMMA RelayTypes ==
  /\ RelayOff \in RelayRecord
  /\ [RelayOff EXCEPT !.at = "open"] \in RelayRecord
  /\ RelayOff.at = "off"
BY DEF RelayOff, RelayRecord, RelayStep

\* The initial states.
LEMMA ServiceInit == Init => ServiceInv
<1> SUFFICES ASSUME Init PROVE ServiceInv
  OBVIOUS
<1>1. EventsInv /\ ExplainInv
  BY EventsInitInv DEF Init
<1>2. QueueInv
  BY AttemptsAssumption DEF Init, QueueInit, QueueInv, QueueTypeOK, JobState
<1>3. AdapterTypeOK
  BY DEF Init, AdapterInit, AdapterTypeOK
<1>4. ProcessTypeOK
  BY RelayTypes, FaultsAssumption
     DEF Init, ProcessTypeOK, ApiPhase, EnqStep, WorkStep, CanStep
<1>5. JobIsHeld /\ ChunkIsPublished
  BY DEF Init, JobIsHeld, ChunkIsPublished, RelayOff
<1>6. RowsExist /\ UrlInv
  BY DEF Init, EventsInit, IdleCall, RelayOff, RowsExist, UrlInv
<1> QED
  BY <1>1, <1>2, <1>3, <1>4, <1>5, <1>6 DEF ServiceInv

-----------------------------------------------------------------------------
(* The tables.                                                             *)

\* A step that only starts or ends a call keeps what is known of the tables.
LEMMA CallOnly ==
  ASSUME EventsInv, ExplainInv, NEW t \in Tasks, NEW c \in Caller, NEW r \in CallRecord,
         SetCall(t, c, r), r.at # "commit",
         c # "relay" => r.type \in {"failed", "cancelled"} /\ r.src = 0,
         UNCHANGED <<dbVars, sessionLock>>
  PROVE  EventsInv' /\ ExplainInv'
BY SetCallInv, ExplainUnchanged DEF dbVars

\* A step that only starts failTask, or ends any call.
LEMMA FailOnly ==
  ASSUME EventsInv, ExplainInv, NEW t \in Tasks, NEW c \in Caller,
         \/ SetCall(t, c, FailCall)
         \/ SetCall(t, c, IdleCall)
         \/ UNCHANGED call,
         UNCHANGED <<dbVars, sessionLock>>
  PROVE  EventsInv' /\ ExplainInv'
<1>1. CASE SetCall(t, c, FailCall)
  BY <1>1, CallTypes, CallOnly DEF FailCall
<1>2. CASE SetCall(t, c, IdleCall)
  BY <1>2, CallTypes, CallOnly DEF IdleCall
<1>3. CASE UNCHANGED call
  BY <1>3, EventsUnchanged, ExplainUnchanged DEF dbVars
<1> QED
  BY <1>1, <1>2, <1>3

\* The event a relay hands on was published.
LEMMA RelayedCall ==
  ASSUME AdapterTypeOK, NEW t \in Tasks, NEW i \in Nat, i < Len(stream[t])
  PROVE  /\ PersistCall(stream[t][i + 1], i + 1) \in CallRecord
         /\ PersistCall(stream[t][i + 1], i + 1).at = "read"
<1>1. stream[t] \in Seq(EventType) /\ i + 1 \in 1 .. Len(stream[t])
  BY DEF AdapterTypeOK
<1>2. stream[t][i + 1] \in EventType
  BY <1>1
<1> QED
  BY <1>2, CallTypes DEF PersistCall

\* The steps that store nothing and call nothing.
LEMMA QuietSteps ==
  ASSUME ServiceInv, NEW t \in Tasks,
         \/ CountActive(t) \/ CreateFails(t) \/ AddJob(t) \/ LinkJob(t)
         \/ PickJob(t) \/ ProcessJob(t) \/ ExecuteAccepted(t) \/ UndoRun(t)
         \/ OpenStream(t) \/ TimerFires(t) \/ CancelRead(t) \/ AdapterStep(t)
         \/ BootStart \/ BootRequeue(t) \/ BootScan \/ BootResume(t) \/ BootDone
  PROVE  UNCHANGED <<dbVars, sessionLock, call>>
BY DEF CountActive, CreateFails, AddJob, LinkJob, PickJob, ProcessJob, ExecuteAccepted, UndoRun,
       OpenStream, TimerFires, CancelRead, AdapterStep,
       BootStart, BootRequeue, BootScan, BootResume, BootDone

\* The steps that fail a task, or resume after it.
LEMMA FailingSteps ==
  ASSUME ServiceInv, NEW t \in Tasks,
         \/ EnqueueFails(t) \/ EnqueueReturns(t)
         \/ ExecuteRefused(t) \/ ExecuteReplyLost(t) \/ MarkSessionFails(t)
         \/ FinalFailureReturns(t)
         \/ StreamBreaks(t) \/ GiveUp(t) \/ RelayFailed(t)
         \/ CancelReturns(t) \/ BootExpire(t) \/ BootExpired(t)
  PROVE  EventsInv' /\ ExplainInv'
<1>1. UNCHANGED <<dbVars, sessionLock>>
  BY DEF EnqueueFails, EnqueueReturns, ExecuteRefused, ExecuteReplyLost, MarkSessionFails,
         FinalFailureReturns, StreamBreaks, GiveUp, RelayFailed, CancelReturns,
         BootExpire, BootExpired
<1>2. \E c \in Caller : \/ SetCall(t, c, FailCall)
                        \/ SetCall(t, c, IdleCall)
                        \/ UNCHANGED call
  BY DEF EnqueueFails, EnqueueReturns, ExecuteRefused, ExecuteReplyLost, MarkSessionFails,
         JobThrows, FinalFailureReturns, StreamBreaks, GiveUp, RelayFailed, CancelReturns,
         BootExpire, BootExpired, Resume, Caller
<1> QED
  BY <1>1, <1>2, FailOnly DEF ServiceInv

\* cancelTask hands task.cancelled to persistTaskEvent.
LEMMA CancellingSteps ==
  ASSUME ServiceInv, NEW t \in Tasks, CancelQueued(t) \/ CancelRunning(t)
  PROVE  EventsInv' /\ ExplainInv'
<1>1. UNCHANGED <<dbVars, sessionLock>>
  BY DEF CancelQueued, CancelRunning
<1>2. SetCall(t, "cancel", PersistCall("cancelled", 0)) \/ UNCHANGED call
  BY DEF CancelQueued, CancelRunning, StoreCancelled
<1>3. /\ PersistCall("cancelled", 0) \in CallRecord
      /\ PersistCall("cancelled", 0).at # "commit"
      /\ PersistCall("cancelled", 0).type = "cancelled"
      /\ PersistCall("cancelled", 0).src = 0
  BY CallTypes DEF PersistCall, EventType, Terminal
<1>4. CASE SetCall(t, "cancel", PersistCall("cancelled", 0))
  BY <1>1, <1>3, <1>4, CallOnly DEF ServiceInv, Caller
<1>5. CASE UNCHANGED call
  BY <1>1, <1>5, FailOnly DEF ServiceInv, Caller
<1> QED
  BY <1>2, <1>4, <1>5

\* The relay hands the next event of the stream to persistTaskEvent.
LEMMA RelayingSteps ==
  ASSUME ServiceInv, NEW t \in Tasks, ReceiveChunk(t) \/ SavedEvent(t)
  PROVE  EventsInv' /\ ExplainInv'
<1>1. UNCHANGED <<dbVars, sessionLock>>
  BY DEF ReceiveChunk, SavedEvent
<1>2. relay[t].pos \in Nat /\ relay[t].chunk \in Nat /\ Len(stream[t]) \in Nat
  BY DEF ServiceInv, ProcessTypeOK, RelayRecord, AdapterTypeOK
<1>3. \/ SetCall(t, "relay", IdleCall)
      \/ \E i \in Nat : /\ i < Len(stream[t])
                        /\ SetCall(t, "relay", PersistCall(stream[t][i + 1], i + 1))
  <2>1. CASE ReceiveChunk(t)
    <3>a. PICK last \in (relay[t].pos + 1) .. Len(stream[t]) : TRUE
      BY <2>1 DEF ReceiveChunk
    <3>1. relay[t].pos < Len(stream[t])
      BY <1>2, <3>a
    <3>2. SetCall(t, "relay", PersistCall(stream[t][relay[t].pos + 1], relay[t].pos + 1))
      BY <2>1 DEF ReceiveChunk
    <3> QED
      BY <1>2, <3>1, <3>2
  <2>2. CASE SavedEvent(t) /\ ~SetCall(t, "relay", IdleCall)
    <3> DEFINE next == relay[t].pos + 1
    <3>1. /\ next < relay[t].chunk
          /\ relay[t].at = "saving"
          /\ SetCall(t, "relay", PersistCall(stream[t][next + 1], next + 1))
      BY <2>2 DEF SavedEvent
    <3>2. next < Len(stream[t]) /\ next \in Nat
      <4>1. relay[t].chunk <= Len(stream[t])
        BY <3>1 DEF ServiceInv, ChunkIsPublished
      <4> QED
        BY <1>2, <3>1, <4>1
    <3> HIDE DEF next
    <3> QED
      BY <3>1, <3>2
  <2> QED
    BY <2>1, <2>2
<1>4. CASE SetCall(t, "relay", IdleCall)
  BY <1>1, <1>4, FailOnly DEF ServiceInv, Caller
<1>5. ASSUME NEW i \in Nat, i < Len(stream[t]),
             SetCall(t, "relay", PersistCall(stream[t][i + 1], i + 1))
      PROVE  EventsInv' /\ ExplainInv'
  BY <1>1, <1>5, RelayedCall, CallOnly DEF ServiceInv, Caller
<1> QED
  BY <1>3, <1>4, <1>5

\* The steps that write the task and session rows outside the procedures.
LEMMA InsertTaskTables ==
  ASSUME ServiceInv, NEW t \in Tasks, InsertTask(t)
  PROVE  EventsInv' /\ ExplainInv'
<1>1. [status |-> "queued", current |-> t] \in SessionRecord
  BY DEF SessionRecord, TaskStatus, Active
<1>2. session' \in [Sessions -> SessionRecord]
  BY <1>1, SessionAssumption DEF InsertTask, ServiceInv, EventsInv, EventsTypeOK
<1>3. status' \in [Tasks -> TaskStatus]
  BY DEF InsertTask, ServiceInv, EventsInv, EventsTypeOK, TaskStatus, Active
<1>4. EventsInv'
  BY <1>2, <1>3, RowsInv DEF InsertTask, ServiceInv, EventsInv, EventsTypeOK
<1>5. status[t] = "none"
  BY DEF InsertTask, ServiceInv, RowsExist
<1>6. ExplainInv'
  BY <1>5, QuietUpdate DEF InsertTask, ServiceInv, EventsInv
<1> QED
  BY <1>4, <1>6

\* dispatchTask claims a task that is queued, or changes nothing.
LEMMA ClaimTaskTables ==
  ASSUME ServiceInv, NEW t \in Tasks, ClaimTask(t)
  PROVE  EventsInv' /\ ExplainInv'
<1>1. CASE status[t] = "queued"
  <2>1. /\ status' = [status EXCEPT ![t] = "running"]
        /\ hasUrl' = [hasUrl EXCEPT ![t] = TRUE]
        /\ UNCHANGED <<log, session, results, sessionLock, call>>
    BY <1>1 DEF ClaimTask
  <2>2. /\ status' \in [Tasks -> TaskStatus]
        /\ hasUrl' \in [Tasks -> BOOLEAN]
        /\ session' \in [Sessions -> SessionRecord]
    BY <2>1 DEF ServiceInv, EventsInv, EventsTypeOK, TaskStatus, Active
  <2>3. EventsInv'
    BY <2>1, <2>2, RowsInv DEF ServiceInv
  <2>4. ExplainInv'
    BY <1>1, <2>1, QuietUpdate DEF ServiceInv, EventsInv
  <2> QED
    BY <2>3, <2>4
<1>2. CASE status[t] # "queued"
  BY <1>2, EventsUnchanged, ExplainUnchanged DEF ClaimTask, ServiceInv, dbVars
<1> QED
  BY <1>1, <1>2

\* dispatchTask marks the session, a write of its own.
LEMMA MarkSessionTables ==
  ASSUME ServiceInv, NEW t \in Tasks, MarkSession(t)
  PROVE  EventsInv' /\ ExplainInv'
<1> DEFINE s == SessionOf[t]
           row == [session[s] EXCEPT !.status = "running"]
<1>1. s \in Sessions /\ session \in [Sessions -> SessionRecord]
  BY SessionAssumption DEF ServiceInv, EventsInv, EventsTypeOK
<1>2. row \in SessionRecord
  BY <1>1 DEF SessionRecord, TaskStatus, Active
<1>3. session' = [session EXCEPT ![s] = row]
  BY DEF MarkSession
<1> HIDE DEF row
<1>4. session' \in [Sessions -> SessionRecord]
  BY <1>1, <1>2, <1>3
<1>5. UNCHANGED <<status, hasUrl, log, results, sessionLock, call>>
  BY DEF MarkSession
<1>6. status' \in [Tasks -> TaskStatus] /\ hasUrl' \in [Tasks -> BOOLEAN]
  BY <1>5 DEF ServiceInv, EventsInv, EventsTypeOK
<1>7. EventsInv'
  BY <1>4, <1>5, <1>6, RowsInv DEF ServiceInv
<1> QED
  BY <1>5, <1>7, ExplainUnchanged DEF ServiceInv

\* A transaction of the relay that is rolled back.
LEMMA SaveFailsTables ==
  ASSUME ServiceInv, NEW t \in Tasks, SaveFails(t)
  PROVE  EventsInv' /\ ExplainInv'
<1>1. Rollback(t, "relay") /\ UNCHANGED dbVars
  BY DEF SaveFails, Rollback
<1>2. SetCall(t, "relay", IdleCall) \/ SetCall(t, "relay", FailCall)
  BY DEF SaveFails
<1>3. EventsInv'
  BY <1>1, <1>2, RollbackInv, CallTypes DEF ServiceInv, IdleCall, FailCall, Caller
<1> QED
  BY <1>1, <1>3, ExplainUnchanged DEF ServiceInv, dbVars

\* A transaction of another handler that is rolled back.
LEMMA StoreFailsTables ==
  ASSUME ServiceInv, NEW t \in Tasks, StoreFails(t)
  PROVE  EventsInv' /\ ExplainInv'
<1>1. PICK c \in Caller : Rollback(t, c) /\ SetCall(t, c, IdleCall)
  BY DEF StoreFails, Caller
<1>2. UNCHANGED dbVars
  BY <1>1 DEF Rollback
<1>3. EventsInv'
  BY <1>1, RollbackInv, CallTypes DEF ServiceInv, IdleCall
<1> QED
  BY <1>2, <1>3, ExplainUnchanged DEF ServiceInv, dbVars

\* A crash ends every call and frees every lock; the rows stay.
LEMMA CrashTables == ServiceInv /\ Crash => EventsInv' /\ ExplainInv'
<1> SUFFICES ASSUME ServiceInv, Crash PROVE EventsInv' /\ ExplainInv'
  OBVIOUS
<1>1. /\ UNCHANGED dbVars
      /\ call' = [t \in Tasks |-> [c \in Caller |-> IdleCall]]
      /\ sessionLock' = [s \in Sessions |-> NoTask]
  BY DEF Crash
<1>2. EventsTypeOK'
  BY <1>1, CallTypes DEF ServiceInv, EventsInv, EventsTypeOK, dbVars
<1>3. VersionsContiguous'
  BY <1>1 DEF ServiceInv, EventsInv, VersionsContiguous, dbVars
<1>4. LockInv' /\ CallersInv'
  BY <1>1 DEF LockInv, CallersInv, IdleCall
<1>5. ExplainInv'
  BY <1>1, ExplainUnchanged DEF ServiceInv, dbVars
<1> QED
  BY <1>2, <1>3, <1>4, <1>5 DEF EventsInv

-----------------------------------------------------------------------------
(* The queue.                                                              *)

\* A worker that goes on holds the job it held.
LEMMA HeldUnchanged ==
  ASSUME ServiceInv, UNCHANGED queueVars,
         \A u \in Tasks : work'[u] # "idle" => work[u] # "idle"
  PROVE  QueueInv' /\ JobIsHeld'
BY QueueUnchanged DEF ServiceInv, JobIsHeld, queueVars

\* A worker that lets go of its job does something else with it.
LEMMA HeldReleased ==
  ASSUME ServiceInv, NEW t \in Tasks, work[t] # "idle", work' = Go(work, t, "idle"),
         QueueComplete(t) \/ QueueThrow(t)
  PROVE  QueueInv' /\ JobIsHeld'
<1>1. QueueInv'
  BY QueueMoveInv, QueueThrowInv DEF ServiceInv, JobIsHeld
<1>2. \A u \in Tasks : u # t => job'[u] = job[u]
  BY DEF QueueComplete, QueueThrow, SetJob, ServiceInv, QueueInv, QueueTypeOK
<1>3. \A u \in Tasks : work'[u] # "idle" => u # t /\ work[u] # "idle"
  BY DEF Go, ServiceInv, ProcessTypeOK
<1> QED
  BY <1>1, <1>2, <1>3 DEF ServiceInv, JobIsHeld

\* A job that is added, removed or picked is held by no worker before.
LEMMA QueueSteps ==
  ASSUME ServiceInv, NEW t \in Tasks,
         AddJob(t) \/ BootRequeue(t) \/ CancelQueued(t) \/ PickJob(t)
  PROVE  QueueInv' /\ JobIsHeld'
<1>1. CASE AddJob(t) \/ BootRequeue(t)
  <2>1. QueueInv' /\ work' = work
    BY <1>1, QueueAddInv DEF AddJob, BootRequeue, ServiceInv
  <2>2. \A u \in Tasks : job[u] = "active" => job'[u] = "active"
    BY <1>1 DEF AddJob, BootRequeue, QueueAdd, QueueReconcile, SetJob, queueVars,
                ServiceInv, QueueInv, QueueTypeOK
  <2> QED
    BY <2>1, <2>2 DEF ServiceInv, JobIsHeld
<1>2. CASE CancelQueued(t)
  <2>1. QueueInv' /\ work' = work
    BY <1>2, QueueMoveInv, QueueUnchanged DEF CancelQueued, ServiceInv
  <2>2. \A u \in Tasks : job[u] = "active" => job'[u] = "active"
    BY <1>2 DEF CancelQueued, QueueRemove, SetJob, queueVars,
                ServiceInv, QueueInv, QueueTypeOK
  <2> QED
    BY <2>1, <2>2 DEF ServiceInv, JobIsHeld
<1>3. CASE PickJob(t)
  <2>1. QueueInv' /\ work' = Go(work, t, "process")
    BY <1>3, QueueMoveInv DEF PickJob, ServiceInv
  <2>2. job'[t] = "active" /\ \A u \in Tasks : u # t => job'[u] = job[u]
    BY <1>3 DEF PickJob, QueuePick, SetJob, ServiceInv, QueueInv, QueueTypeOK
  <2>3. \A u \in Tasks : u # t => work'[u] = work[u]
    BY <2>1 DEF Go, ServiceInv, ProcessTypeOK
  <2> QED
    BY <2>1, <2>2, <2>3 DEF ServiceInv, JobIsHeld
<1> QED
  BY <1>1, <1>2, <1>3

\* The steps of a worker keep its job or let go of it.
LEMMA WorkerQueueSteps ==
  ASSUME ServiceInv, NEW t \in Tasks,
         \/ ProcessJob(t) \/ ExecuteAccepted(t) \/ ExecuteRefused(t) \/ ExecuteReplyLost(t)
         \/ ClaimTask(t) \/ UndoRun(t) \/ MarkSession(t) \/ MarkSessionFails(t)
  PROVE  QueueInv' /\ JobIsHeld'
<1>1. work[t] # "idle"
  BY DEF ProcessJob, ExecuteAccepted, ExecuteRefused, ExecuteReplyLost,
         ClaimTask, UndoRun, MarkSession, MarkSessionFails
<1>2. \/ work' = Go(work, t, "idle") /\ (QueueComplete(t) \/ QueueThrow(t))
      \/ /\ UNCHANGED queueVars
         /\ \E step \in WorkStep : work' = Go(work, t, step)
  BY DEF ProcessJob, ExecuteAccepted, ExecuteRefused, ExecuteReplyLost, JobThrows,
         ClaimTask, UndoRun, MarkSession, MarkSessionFails, WorkStep
<1>3. CASE work' = Go(work, t, "idle") /\ (QueueComplete(t) \/ QueueThrow(t))
  BY <1>1, <1>3, HeldReleased
<1>4. ASSUME UNCHANGED queueVars, NEW step \in WorkStep, work' = Go(work, t, step)
      PROVE  QueueInv' /\ JobIsHeld'
  <2>1. \A u \in Tasks : work'[u] # "idle" => work[u] # "idle"
    BY <1>1, <1>4 DEF Go, ServiceInv, ProcessTypeOK
  <2> QED
    BY <1>4, <2>1, HeldUnchanged
<1> QED
  BY <1>2, <1>3, <1>4

\* The other steps touch neither the queue nor a worker.
LEMMA OtherQueueSteps ==
  ASSUME ServiceInv, NEW t \in Tasks,
         \/ CountActive(t) \/ InsertTask(t) \/ CreateFails(t) \/ StoreFails(t)
         \/ LinkJob(t) \/ EnqueueFails(t) \/ EnqueueReturns(t)
         \/ FinalFailureReturns(t)
         \/ OpenStream(t) \/ ReceiveChunk(t) \/ SavedEvent(t) \/ StreamBreaks(t) \/ SaveFails(t)
         \/ TimerFires(t) \/ GiveUp(t) \/ RelayFailed(t)
         \/ CancelRead(t) \/ CancelRunning(t) \/ CancelReturns(t)
         \/ StoreStep(t) \/ AdapterStep(t)
         \/ BootStart \/ BootScan \/ BootResume(t) \/ BootExpire(t) \/ BootExpired(t) \/ BootDone
  PROVE  QueueInv' /\ JobIsHeld'
<1>1. UNCHANGED <<queueVars, work>>
  BY DEF CountActive, InsertTask, CreateFails, StoreFails, LinkJob, EnqueueFails,
         EnqueueReturns, FinalFailureReturns, OpenStream, ReceiveChunk, SavedEvent, StreamBreaks,
         SaveFails, TimerFires, GiveUp, RelayFailed, CancelRead, CancelRunning,
         CancelReturns, StoreStep, AdapterStep, BootStart, BootScan, BootResume,
         BootExpire, BootExpired, BootDone, processVars, queueVars
<1> QED
  BY <1>1, HeldUnchanged

\* After a crash no worker holds a job.
LEMMA CrashQueue == ServiceInv /\ Crash => QueueInv' /\ JobIsHeld'
<1> SUFFICES ASSUME ServiceInv, Crash PROVE QueueInv' /\ JobIsHeld'
  OBVIOUS
<1>1. QueueInv'
  BY QueueStalledInv DEF Crash, ServiceInv
<1>2. JobIsHeld'
  BY DEF Crash, JobIsHeld
<1> QED
  BY <1>1, <1>2

-----------------------------------------------------------------------------
(* The relays.                                                             *)

\* A set of positions that is not empty has a last one.
LEMMA LastPosition ==
  ASSUME NEW n \in Nat, NEW S, S \subseteq 1 .. n, S # {}
  PROVE  Max(S) \in S /\ \A k \in S : Max(S) >= k
<1> DEFINE R == {ss \in Nat \X Nat : ss[1] < ss[2]}
           T == {n - i : i \in S}
<1>1. IsWellFoundedOn(R, Nat)
  BY NatLessThanWellFounded DEF OpToRel
<1>2. T \subseteq Nat /\ T # {}
  <2>1. \A i \in S : n - i \in Nat
    OBVIOUS
  <2> QED
    BY <2>1
<1>3. PICK x \in T : \A y \in T : <<y, x>> \notin R
  <2> HIDE DEF R, T
  <2> QED
    BY <1>1, <1>2, WFMin, Zenon
<1>4. PICK m \in S : x = n - m
  BY <1>3
<1>5. \A k \in S : m >= k
  <2> SUFFICES ASSUME NEW k \in S PROVE m >= k
    OBVIOUS
  <2>1. n - k \in T /\ n - k \in Nat /\ x \in Nat
    BY <1>2, <1>3
  <2>2. ~(n - k < x)
    BY <1>3, <2>1
  <2> QED
    BY <1>4, <2>2
<1> QED
  BY <1>5 DEF Max

\* A relay starts after the last event that was stored of the stream.
LEMMA LastSourceType ==
  ASSUME EventsTypeOK, NEW t \in Tasks
  PROVE  LastSource(t) \in Nat
<1> DEFINE rows == {i \in 1 .. Len(log[t]) : log[t][i].src > 0}
           last == SelectLastInSeq(log[t], LAMBDA e : e.src > 0)
<1>1. log[t] \in Seq(EventRecord) /\ Len(log[t]) \in Nat
  BY DEF EventsTypeOK
<1>2. last = IF rows # {} THEN Max(rows) ELSE 0
  BY DEF SelectLastInSeq
<1>3. rows # {} => Max(rows) \in rows
  BY <1>1, LastPosition
<1>4. last = 0 \/ last \in 1 .. Len(log[t])
  BY <1>2, <1>3
<1>5. LastSource(t) = IF last = 0 THEN 0 ELSE log[t][last].src
  BY DEF LastSource
<1> HIDE DEF last, rows
<1>6. CASE last = 0
  BY <1>5, <1>6
<1>7. CASE last \in 1 .. Len(log[t])
  <2>1. log[t][last] \in EventRecord
    BY <1>1, <1>7
  <2> QED
    BY <1>5, <1>7, <2>1 DEF EventRecord
<1> QED
  BY <1>4, <1>6, <1>7

\* The adapter only adds to its streams.
StreamsGrow ==
  /\ AdapterTypeOK'
  /\ \A u \in Tasks : Len(stream'[u]) \in Nat /\ Len(stream[u]) <= Len(stream'[u])

\* Publishing adds one event to one stream.
LEMMA PublishGrows ==
  ASSUME AdapterTypeOK, NEW t \in Tasks, NEW type \in EventType, Publish(t, type),
         runs' \in [Tasks -> Nat]
  PROVE  StreamsGrow
<1>1. stream \in [Tasks -> Seq(EventType)]
  BY DEF AdapterTypeOK
<1>2. Append(stream[t], type) \in Seq(EventType)
  BY <1>1
<1>3. stream' = [stream EXCEPT ![t] = Append(stream[t], type)]
  BY DEF Publish
<1>4. stream' \in [Tasks -> Seq(EventType)]
  BY <1>1, <1>2, <1>3
<1>5. ASSUME NEW u \in Tasks
      PROVE  Len(stream'[u]) \in Nat /\ Len(stream[u]) <= Len(stream'[u])
  <2>1. stream[u] \in Seq(EventType) /\ Len(stream[u]) \in Nat
    BY <1>1
  <2>2. CASE u = t
    BY <1>1, <1>3, <2>1, <2>2
  <2>3. CASE u # t
    BY <1>1, <1>3, <2>1, <2>3
  <2> QED
    BY <2>2, <2>3
<1> QED
  BY <1>4, <1>5 DEF StreamsGrow, AdapterTypeOK

\* So does every operation of the adapter, or nothing.
LEMMA AdapterGrows ==
  ASSUME AdapterTypeOK, NEW t \in Tasks,
         \/ AcceptRun(t) \/ AbortRun(t) \/ ProduceDelta(t) \/ EndRun(t)
         \/ UNCHANGED adapterVars
  PROVE  StreamsGrow
<1> USE DEF EventType, Terminal
<1>1. CASE AcceptRun(t)
  <2>1. Publish(t, "accepted") /\ runs' \in [Tasks -> Nat]
    BY <1>1 DEF AcceptRun, AdapterTypeOK
  <2> QED
    BY <2>1, PublishGrows
<1>2. CASE AbortRun(t)
  <2>1. Publish(t, "cancelled") /\ runs' \in [Tasks -> Nat]
    BY <1>2 DEF AbortRun, AdapterTypeOK
  <2> QED
    BY <2>1, PublishGrows
<1>3. CASE ProduceDelta(t)
  <2>1. Publish(t, "delta") /\ runs' \in [Tasks -> Nat]
    BY <1>3 DEF ProduceDelta, AdapterTypeOK
  <2> QED
    BY <2>1, PublishGrows
<1>4. CASE EndRun(t)
  <2>1. runs' \in [Tasks -> Nat]
    BY <1>4 DEF EndRun, AdapterTypeOK
  <2>2. PICK type \in {"completed", "failed"} : Publish(t, type)
    BY <1>4 DEF EndRun
  <2> QED
    BY <2>1, <2>2, PublishGrows
<1>5. CASE UNCHANGED adapterVars
  <2>1. stream' = stream /\ runs' = runs
    BY <1>5 DEF adapterVars
  <2>2. \A u \in Tasks : stream[u] \in Seq(EventType) /\ Len(stream[u]) \in Nat
    BY DEF AdapterTypeOK
  <2> QED
    BY <2>1, <2>2 DEF StreamsGrow, AdapterTypeOK
<1> QED
  BY <1>1, <1>2, <1>3, <1>4, <1>5

RelayTypeOK == relay \in [Tasks -> RelayRecord]

\* A relay that is left alone, or set to what the streams bear out.
LEMMA RelayKept ==
  ASSUME ServiceInv, StreamsGrow, UNCHANGED relay
  PROVE  RelayTypeOK' /\ ChunkIsPublished'
<1>1. ASSUME NEW u \in Tasks, relay'[u].at = "saving"
      PROVE  relay'[u].chunk <= Len(stream'[u])
  <2>1. relay[u].chunk \in Nat /\ relay[u].chunk <= Len(stream[u])
    BY <1>1 DEF ServiceInv, ProcessTypeOK, RelayRecord, ChunkIsPublished
  <2>2. Len(stream[u]) \in Nat
    BY DEF ServiceInv, AdapterTypeOK
  <2> QED
    BY <2>1, <2>2 DEF StreamsGrow
<1> QED
  BY <1>1 DEF ServiceInv, ProcessTypeOK, RelayTypeOK, ChunkIsPublished

\* Setting a relay to a record its stream bears out.
LEMMA RelaySet ==
  ASSUME ServiceInv, StreamsGrow, NEW t \in Tasks, NEW r \in RelayRecord, SetRelay(t, r),
         r.at = "saving" => r.chunk <= Len(stream[t])
  PROVE  RelayTypeOK' /\ ChunkIsPublished'
<1>1. relay' \in [Tasks -> RelayRecord]
  BY DEF SetRelay, ServiceInv, ProcessTypeOK
<1>2. \A u \in Tasks : relay'[u] = IF u = t THEN r ELSE relay[u]
  BY DEF SetRelay, ServiceInv, ProcessTypeOK
<1>3. ASSUME NEW u \in Tasks, relay'[u].at = "saving"
      PROVE  relay'[u].chunk <= Len(stream'[u])
  <2>1. relay'[u].chunk \in Nat /\ relay'[u].chunk <= Len(stream[u])
    BY <1>1, <1>2, <1>3 DEF RelayRecord, ServiceInv, ChunkIsPublished
  <2>2. Len(stream[u]) \in Nat
    BY DEF ServiceInv, AdapterTypeOK
  <2> QED
    BY <2>1, <2>2 DEF StreamsGrow
<1> QED
  BY <1>1, <1>3 DEF RelayTypeOK, ChunkIsPublished

\* The record a relay may be set to.
SoundRelay(t, r) ==
  /\ r \in RelayRecord
  /\ r.at = "saving" => r.chunk <= Len(stream[t])

\* Changing where a relay is, or its flags, keeps the chunk it has.
LEMMA SoundChanges ==
  ASSUME ServiceInv, NEW t \in Tasks
  PROVE  /\ SoundRelay(t, relay[t])
         /\ SoundRelay(t, RelayOff)
         /\ SoundRelay(t, [RelayOff EXCEPT !.at = "open"])
         /\ \A step \in RelayStep \ {"saving"} : SoundRelay(t, [relay[t] EXCEPT !.at = step])
         /\ \A step \in RelayStep \ {"saving"}, pos \in Nat :
              SoundRelay(t, [relay[t] EXCEPT !.at = step, !.pos = pos])
         /\ \A pos \in Nat : SoundRelay(t, [relay[t] EXCEPT !.pos = pos])
         /\ SoundRelay(t, [relay[t] EXCEPT !.aborted = TRUE])
         /\ relay[t].at # "saving" =>
              SoundRelay(t, [relay[t] EXCEPT !.at = "giveUp", !.aborted = TRUE, !.timedOut = TRUE])
         /\ relay[t].at = "saving" =>
              SoundRelay(t, [relay[t] EXCEPT !.at = "saving", !.aborted = TRUE, !.timedOut = TRUE])
         /\ \A last \in 1 .. Len(stream[t]) :
              SoundRelay(t, [relay[t] EXCEPT !.at = "saving", !.chunk = last])
<1> DEFINE r == relay[t]
<1>1. r \in RelayRecord /\ (r.at = "saving" => r.chunk <= Len(stream[t]))
  BY DEF ServiceInv, ProcessTypeOK, ChunkIsPublished
<1>2. /\ r = [at |-> r.at, aborted |-> r.aborted, timedOut |-> r.timedOut,
              pos |-> r.pos, chunk |-> r.chunk]
      /\ r.at \in RelayStep /\ r.aborted \in BOOLEAN /\ r.timedOut \in BOOLEAN
      /\ r.pos \in Nat /\ r.chunk \in Nat
  BY <1>1 DEF RelayRecord
<1>3. Len(stream[t]) \in Nat
  BY DEF ServiceInv, AdapterTypeOK
<1> HIDE DEF r
<1>4. SoundRelay(t, r)
  BY <1>1 DEF SoundRelay
<1>5. SoundRelay(t, RelayOff) /\ SoundRelay(t, [RelayOff EXCEPT !.at = "open"])
  BY RelayTypes DEF SoundRelay, RelayOff
<1>6. \A step \in RelayStep \ {"saving"} : SoundRelay(t, [r EXCEPT !.at = step])
  BY <1>1, <1>2 DEF SoundRelay, RelayRecord
<1>7. \A step \in RelayStep \ {"saving"}, pos \in Nat :
        SoundRelay(t, [r EXCEPT !.at = step, !.pos = pos])
  BY <1>1, <1>2 DEF SoundRelay, RelayRecord
<1>8. /\ \A pos \in Nat : SoundRelay(t, [r EXCEPT !.pos = pos])
      /\ SoundRelay(t, [r EXCEPT !.aborted = TRUE])
  BY <1>1, <1>2 DEF SoundRelay, RelayRecord
<1>9. /\ SoundRelay(t, [r EXCEPT !.at = "giveUp", !.aborted = TRUE, !.timedOut = TRUE])
      /\ r.at = "saving" =>
           SoundRelay(t, [r EXCEPT !.at = "saving", !.aborted = TRUE, !.timedOut = TRUE])
  BY <1>1, <1>2 DEF SoundRelay, RelayRecord, RelayStep
<1>10. \A last \in 1 .. Len(stream[t]) :
         SoundRelay(t, [r EXCEPT !.at = "saving", !.chunk = last])
  <2> SUFFICES ASSUME NEW last \in 1 .. Len(stream[t])
               PROVE  SoundRelay(t, [r EXCEPT !.at = "saving", !.chunk = last])
    OBVIOUS
  <2> DEFINE q == [r EXCEPT !.at = "saving", !.chunk = last]
  <2>1. last \in Nat /\ last <= Len(stream[t])
    BY <1>3
  <2>2. q \in RelayRecord
    BY <1>2, <2>1 DEF RelayRecord, RelayStep
  <2>3. q.chunk = last
    BY <1>2
  <2> QED
    BY <2>1, <2>2, <2>3 DEF SoundRelay
<1> QED
  BY <1>4, <1>5, <1>6, <1>7, <1>8, <1>9, <1>10 DEF r

\* Every step of a relay, or on one, sets it to a sound record.
RelayActions(t) ==
  \/ MarkSession(t) \/ BootResume(t)
  \/ OpenStream(t) \/ ReceiveChunk(t) \/ SavedEvent(t) \/ StreamBreaks(t) \/ SaveFails(t)
  \/ TimerFires(t) \/ GiveUp(t) \/ RelayFailed(t)
  \/ CancelQueued(t) \/ CancelRunning(t)

\* By case on who sets the relay, and where it is.
LEMMA RelayIsSound ==
  ASSUME ServiceInv, NEW t \in Tasks, RelayActions(t)
  PROVE  UNCHANGED relay \/ \E r : SoundRelay(t, r) /\ SetRelay(t, r)
<1>1. CASE MarkSession(t) \/ BootResume(t)
  BY <1>1, SoundChanges DEF MarkSession, BootResume, StartRelay
<1>2. CASE OpenStream(t)
  <2>1. LastSource(t) \in Nat
    BY LastSourceType DEF ServiceInv, EventsInv
  <2>2. SetRelay(t, [relay[t] EXCEPT !.at = "reading", !.pos = LastSource(t)])
    BY <1>2 DEF OpenStream
  <2> QED
    BY <2>1, <2>2, SoundChanges DEF RelayStep
<1>3. CASE ReceiveChunk(t)
  <2>1. PICK last \in (relay[t].pos + 1) .. Len(stream[t]) :
          SetRelay(t, [relay[t] EXCEPT !.at = "saving", !.chunk = last])
    BY <1>3 DEF ReceiveChunk
  <2>2. relay[t].pos \in Nat /\ Len(stream[t]) \in Nat
    BY DEF ServiceInv, ProcessTypeOK, RelayRecord, AdapterTypeOK
  <2>3. last \in 1 .. Len(stream[t])
    BY <2>1, <2>2
  <2> QED
    BY <2>1, <2>3, SoundChanges
<1>4. CASE SavedEvent(t)
  <2> DEFINE next == relay[t].pos + 1
  <2>1. next \in Nat
    BY DEF ServiceInv, ProcessTypeOK, RelayRecord
  <2>2. \/ SetRelay(t, RelayOff)
        \/ SetRelay(t, [relay[t] EXCEPT !.pos = next])
        \/ SetRelay(t, [relay[t] EXCEPT !.at = "reading", !.pos = next])
    BY <1>4 DEF SavedEvent
  <2> HIDE DEF next
  <2>3. CASE SetRelay(t, RelayOff)
    BY <2>3, SoundChanges
  <2>4. CASE SetRelay(t, [relay[t] EXCEPT !.pos = next])
    BY <2>1, <2>4, SoundChanges
  <2>5. CASE SetRelay(t, [relay[t] EXCEPT !.at = "reading", !.pos = next])
    BY <2>1, <2>5, SoundChanges DEF RelayStep
  <2> QED
    BY <2>2, <2>3, <2>4, <2>5
<1>5. CASE StreamBreaks(t) \/ SaveFails(t) \/ GiveUp(t) \/ RelayFailed(t)
  <2>1. \/ SetRelay(t, RelayOff)
        \/ SetRelay(t, [relay[t] EXCEPT !.at = "failing"])
        \/ SetRelay(t, [relay[t] EXCEPT !.at = "giveUp"])
    BY <1>5 DEF StreamBreaks, SaveFails, GiveUp, RelayFailed
  <2> QED
    BY <2>1, SoundChanges DEF RelayStep
<1>6. CASE TimerFires(t)
  <2>1. CASE relay[t].at = "saving"
    <3>1. SetRelay(t, [relay[t] EXCEPT !.at = "saving", !.aborted = TRUE, !.timedOut = TRUE])
      BY <1>6, <2>1 DEF TimerFires, SetRelay
    <3> QED
      BY <2>1, <3>1, SoundChanges
  <2>2. CASE relay[t].at # "saving"
    <3>1. SetRelay(t, [relay[t] EXCEPT !.at = "giveUp", !.aborted = TRUE, !.timedOut = TRUE])
      BY <1>6, <2>2 DEF TimerFires, SetRelay
    <3> QED
      BY <2>2, <3>1, SoundChanges
  <2> QED
    BY <2>1, <2>2
<1>7. CASE CancelQueued(t) \/ CancelRunning(t)
  <2>1. \/ UNCHANGED relay
        \/ SetRelay(t, RelayOff)
        \/ SetRelay(t, [relay[t] EXCEPT !.aborted = TRUE])
        \/ SetRelay(t, relay[t])
    BY <1>7 DEF CancelQueued, CancelRunning, StoreCancelled, SetRelay
  <2> QED
    BY <2>1, SoundChanges
<1> QED
  BY <1>1, <1>2, <1>3, <1>4, <1>5, <1>6, <1>7 DEF RelayActions

-----------------------------------------------------------------------------
(* The phases of the process, and the rows its handlers rely on.           *)

PhaseTypeOK ==
  /\ api        \in ApiPhase
  /\ todo       \in SUBSET Tasks
  /\ createLock \in Tasks \cup {NoTask}
  /\ enq        \in [Tasks -> EnqStep]
  /\ work       \in [Tasks -> WorkStep]
  /\ can        \in [Tasks -> CanStep]
  /\ faults     \in 0 .. MaxFaults

\* What a fault adds to the count.
CountedFault == CountFault(1) \/ CountFault(CrashCost)

\* A step of one handler, which moves that handler alone.
LEMMA PhaseKept ==
  ASSUME ServiceInv, NEW t \in Tasks,
         UNCHANGED <<api, todo, createLock>>,
         UNCHANGED enq  \/ \E step \in EnqStep  : enq'  = Go(enq, t, step),
         UNCHANGED work \/ \E step \in WorkStep : work' = Go(work, t, step),
         UNCHANGED can  \/ \E step \in CanStep  : can'  = Go(can, t, step),
         UNCHANGED faults \/ CountedFault
  PROVE  PhaseTypeOK'
<1>1. enq' \in [Tasks -> EnqStep]
  BY DEF ServiceInv, ProcessTypeOK, Go
<1>2. work' \in [Tasks -> WorkStep]
  BY DEF ServiceInv, ProcessTypeOK, Go
<1>3. can' \in [Tasks -> CanStep]
  BY DEF ServiceInv, ProcessTypeOK, Go
<1>4. faults' \in 0 .. MaxFaults
  BY FaultsAssumption DEF ServiceInv, ProcessTypeOK, CountedFault, CountFault
<1> QED
  BY <1>1, <1>2, <1>3, <1>4 DEF ServiceInv, ProcessTypeOK, PhaseTypeOK

\* The steps of enqueueTask.
LEMMA EnqueuePhases ==
  ASSUME ServiceInv, NEW t \in Tasks,
         CountActive(t) \/ EnqueueStep(t) \/ CreateFails(t) \/ EnqueueFails(t)
  PROVE  PhaseTypeOK'
<1>1. api' = api /\ todo' = todo /\ work' = work /\ can' = can
  BY DEF CountActive, EnqueueStep, InsertTask, CreateFails, AddJob, LinkJob, EnqueueReturns, EnqueueFails
<1>2. createLock' \in Tasks \cup {NoTask}
  BY DEF CountActive, EnqueueStep, InsertTask, CreateFails, AddJob, LinkJob, EnqueueReturns, EnqueueFails,
         ServiceInv, ProcessTypeOK
<1>3. UNCHANGED faults \/ CountedFault
  BY DEF CountActive, EnqueueStep, InsertTask, CreateFails, AddJob, LinkJob, EnqueueReturns, EnqueueFails,
         Fault, Cost, CountedFault
<1>4. \E step \in EnqStep : enq' = Go(enq, t, step)
  BY DEF CountActive, EnqueueStep, InsertTask, CreateFails, AddJob, LinkJob, EnqueueReturns, EnqueueFails,
         EnqStep
<1>5. enq' \in [Tasks -> EnqStep] /\ faults' \in 0 .. MaxFaults
  BY <1>3, <1>4, FaultsAssumption DEF ServiceInv, ProcessTypeOK, Go, CountedFault, CountFault
<1> QED
  BY <1>1, <1>2, <1>5 DEF ServiceInv, ProcessTypeOK, PhaseTypeOK

\* The steps of processQueuedTask and dispatchTask.
LEMMA WorkerPhases ==
  ASSUME ServiceInv, NEW t \in Tasks,
         \/ WorkerStep(t)
         \/ ExecuteRefused(t) \/ ExecuteReplyLost(t) \/ MarkSessionFails(t)
  PROVE  PhaseTypeOK'
<1>1. UNCHANGED <<api, todo, createLock, enq, can>>
  BY DEF WorkerStep, PickJob, ProcessJob, ExecuteAccepted, ClaimTask, UndoRun, MarkSession,
         FinalFailureReturns, ExecuteRefused, ExecuteReplyLost, MarkSessionFails, processVars
<1>2. UNCHANGED work \/ \E step \in WorkStep : work' = Go(work, t, step)
  BY DEF WorkerStep, PickJob, ProcessJob, ExecuteAccepted, ClaimTask, UndoRun, MarkSession,
         FinalFailureReturns, ExecuteRefused, ExecuteReplyLost, MarkSessionFails, processVars,
         JobThrows, WorkStep
<1>3. UNCHANGED faults \/ CountedFault
  BY DEF WorkerStep, PickJob, ProcessJob, ExecuteAccepted, ClaimTask, UndoRun, MarkSession,
         FinalFailureReturns, ExecuteRefused, ExecuteReplyLost, MarkSessionFails, CancelBestEffort,
         Fault, Cost, CountedFault
<1> QED
  BY <1>1, <1>2, <1>3, PhaseKept

\* The steps of relays, of the procedures and of the adapter.
LEMMA RelayPhases ==
  ASSUME ServiceInv, NEW t \in Tasks,
         \/ RelayWorks(t) \/ StreamBreaks(t) \/ SaveFails(t) \/ TimerFires(t)
         \/ StoreStep(t) \/ AdapterStep(t)
  PROVE  PhaseTypeOK'
<1>1. UNCHANGED <<api, todo, createLock, enq, work, can>>
  BY DEF RelayWorks, OpenStream, ReceiveChunk, SavedEvent, GiveUp, RelayFailed, StreamBreaks,
         SaveFails, TimerFires, StoreStep, AdapterStep, processVars
<1>2. UNCHANGED faults \/ CountedFault
  BY DEF RelayWorks, OpenStream, ReceiveChunk, SavedEvent, GiveUp, RelayFailed, StreamBreaks,
         SaveFails, TimerFires, StoreStep, AdapterStep, CancelBestEffort, Fault, Cost, CountedFault
<1> QED
  BY <1>1, <1>2, PhaseKept

\* The steps of cancelTask.
LEMMA CancelPhases ==
  ASSUME ServiceInv, NEW t \in Tasks, CancelRead(t) \/ CancelStep(t)
  PROVE  PhaseTypeOK'
<1>1. UNCHANGED <<api, todo, createLock, enq, work>>
  BY DEF CancelRead, CancelStep, CancelQueued, CancelRunning, CancelReturns
<1>2. UNCHANGED can \/ \E step \in CanStep : can' = Go(can, t, step)
  BY DEF CancelRead, CancelStep, CancelQueued, CancelRunning, CancelReturns, StoreCancelled,
         CanStep
<1>3. UNCHANGED faults \/ CountedFault
  BY DEF CancelRead, CancelStep, CancelQueued, CancelRunning, CancelReturns, Fault, Cost, CountedFault
<1> QED
  BY <1>1, <1>2, <1>3, PhaseKept

\* A failed call of persistTaskEvent ends its handler.
LEMMA StoreFailsPhases ==
  ASSUME ServiceInv, NEW t \in Tasks, StoreFails(t)
  PROVE  PhaseTypeOK'
<1>1. UNCHANGED <<api, todo, createLock, work>>
  BY DEF StoreFails
<1>2. /\ UNCHANGED enq \/ \E step \in EnqStep : enq' = Go(enq, t, step)
      /\ UNCHANGED can \/ \E step \in CanStep : can' = Go(can, t, step)
  BY DEF StoreFails, EnqStep, CanStep
<1>3. CountedFault
  BY DEF StoreFails, Fault, Cost, CountedFault
<1> QED
  BY <1>1, <1>2, <1>3, PhaseKept

\* The steps of onModuleInit, and a crash.
LEMMA BootPhases ==
  ASSUME ServiceInv, BootStep \/ Crash
  PROVE  PhaseTypeOK'
<1>1. CASE BootStart \/ BootScan \/ BootDone
  BY <1>1 DEF BootStart, BootScan, BootDone, ServiceInv, ProcessTypeOK, PhaseTypeOK, ApiPhase
<1>2. ASSUME NEW t \in Tasks,
             BootRequeue(t) \/ BootResume(t) \/ BootExpire(t) \/ BootExpired(t)
      PROVE  PhaseTypeOK'
  <2>1. /\ UNCHANGED <<api, createLock, enq, work, can>>
        /\ todo' = todo \/ todo' = todo \ {t}
        /\ UNCHANGED faults \/ CountedFault
    BY <1>2 DEF BootRequeue, BootResume, BootExpire, BootExpired, CancelBestEffort, processVars,
                Fault, Cost, CountedFault
  <2> QED
    BY <2>1, FaultsAssumption DEF CountedFault, CountFault, ServiceInv, ProcessTypeOK, PhaseTypeOK
<1>3. CASE Crash
  BY <1>3, FaultsAssumption
     DEF Crash, Fault, Cost, CountFault, ServiceInv, ProcessTypeOK, PhaseTypeOK, ApiPhase, EnqStep, WorkStep, CanStep
<1> QED
  BY <1>1, <1>2, <1>3 DEF BootStep

\* A call that a step changes has not looked at the row yet, and only a relay
\* at work hands on task.accepted.
CallsFresh ==
  \A u \in Tasks, c \in Caller :
    \/ call'[u][c] = call[u][c]
    \/ /\ call'[u][c].at \notin {"lock", "commit"}
       /\ call'[u][c].type = "accepted" => relay[u].at # "off"

\* Setting one call to one that has not looked at the row.
LEMMA SetCallFresh ==
  ASSUME ServiceInv, NEW t \in Tasks, NEW c \in Caller, NEW r, SetCall(t, c, r),
         r.at \notin {"lock", "commit"},
         r.type = "accepted" => relay[t].at # "off"
  PROVE  CallsFresh
<1>1. \A u \in Tasks, d \in Caller :
        call'[u][d] = IF u = t /\ d = c THEN r ELSE call[u][d]
  BY DEF SetCall, ServiceInv, EventsInv, EventsTypeOK
<1> QED
  BY <1>1 DEF CallsFresh

\* Failing, cancelling and returning start no task.accepted.
LEMMA SimpleCallFresh ==
  ASSUME ServiceInv, NEW t \in Tasks,
         \/ UNCHANGED call
         \/ \E c \in Caller : \/ SetCall(t, c, FailCall)
                              \/ SetCall(t, c, IdleCall)
                              \/ SetCall(t, c, PersistCall("cancelled", 0))
  PROVE  CallsFresh
<1>1. CASE UNCHANGED call
  BY <1>1 DEF CallsFresh
<1>2. ASSUME NEW c \in Caller, SetCall(t, c, FailCall)
      PROVE  CallsFresh
  BY <1>2, SetCallFresh DEF FailCall
<1>3. ASSUME NEW c \in Caller, SetCall(t, c, IdleCall)
      PROVE  CallsFresh
  BY <1>3, SetCallFresh DEF IdleCall
<1>4. ASSUME NEW c \in Caller, SetCall(t, c, PersistCall("cancelled", 0))
      PROVE  CallsFresh
  BY <1>4, SetCallFresh DEF PersistCall
<1> QED
  BY <1>1, <1>2, <1>3, <1>4

\* Every step but those of the procedures themselves.
LEMMA HandlerCallsFresh ==
  ASSUME ServiceInv, NEW t \in Tasks,
         \/ CountActive(t) \/ EnqueueStep(t) \/ WorkerStep(t) \/ RelayWorks(t)
         \/ CancelRead(t) \/ CancelStep(t) \/ AdapterStep(t) \/ FaultStep(t)
  PROVE  CallsFresh
<1>1. CASE CountActive(t) \/ EnqueueStep(t) \/ WorkerStep(t) \/ CancelRead(t)
           \/ AdapterStep(t) \/ FaultStep(t)
  <2>1. \/ UNCHANGED call
        \/ \E c \in Caller : SetCall(t, c, FailCall) \/ SetCall(t, c, IdleCall)
    BY <1>1
       DEF CountActive, EnqueueStep, InsertTask, AddJob, LinkJob, EnqueueReturns,
           WorkerStep, PickJob, ProcessJob, ExecuteAccepted, ClaimTask, UndoRun,
           MarkSession, FinalFailureReturns, CancelRead, AdapterStep,
           FaultStep, CreateFails, EnqueueFails, ExecuteRefused, ExecuteReplyLost,
           MarkSessionFails, StreamBreaks, SaveFails, StoreFails, TimerFires, JobThrows, Resume, Caller
  <2> QED
    BY <2>1, SimpleCallFresh
<1>2. CASE CancelStep(t)
  <2>1. \/ UNCHANGED call
        \/ SetCall(t, "cancel", PersistCall("cancelled", 0))
        \/ SetCall(t, "cancel", IdleCall)
    BY <1>2 DEF CancelStep, CancelQueued, CancelRunning, CancelReturns, StoreCancelled, Resume
  <2> QED
    BY <2>1, SimpleCallFresh DEF Caller
<1>3. CASE RelayWorks(t)
  <2>1. \/ UNCHANGED call
        \/ SetCall(t, "relay", IdleCall)
        \/ SetCall(t, "relay", FailCall)
        \/ /\ relay[t].at # "off"
           /\ \E type, src : SetCall(t, "relay", PersistCall(type, src))
    BY <1>3 DEF RelayWorks, OpenStream, ReceiveChunk, SavedEvent, GiveUp, RelayFailed, Resume
  <2>2. ASSUME relay[t].at # "off",
               NEW type, NEW src, SetCall(t, "relay", PersistCall(type, src))
        PROVE  CallsFresh
    <3>1. PersistCall(type, src).at = "read"
      BY DEF PersistCall
    <3> HIDE DEF PersistCall
    <3> QED
      BY <2>2, <3>1, SetCallFresh DEF Caller
  <2> QED
    BY <2>1, <2>2, SimpleCallFresh DEF Caller
<1> QED
  BY <1>1, <1>2, <1>3

\* Neither does the boot, nor a crash.
LEMMA BootCallsFresh ==
  ASSUME ServiceInv, BootStep \/ Crash
  PROVE  CallsFresh
<1>1. CASE BootStart \/ BootScan \/ BootDone
  BY <1>1 DEF BootStart, BootScan, BootDone, CallsFresh
<1>2. ASSUME NEW t \in Tasks,
             BootRequeue(t) \/ BootResume(t) \/ BootExpire(t) \/ BootExpired(t)
      PROVE  CallsFresh
  <2>1. \/ UNCHANGED call
        \/ SetCall(t, "boot", FailCall)
        \/ SetCall(t, "boot", IdleCall)
    BY <1>2 DEF BootRequeue, BootResume, BootExpire, BootExpired, Resume
  <2> QED
    BY <2>1, SimpleCallFresh DEF Caller
<1>3. CASE Crash
  BY <1>3 DEF Crash, IdleCall, CallsFresh
<1> QED
  BY <1>1, <1>2, <1>3 DEF BootStep

\* The rows stay as they are, or move on: no step takes a row away.
LEMMA RowsKept ==
  ASSUME ServiceInv, CallsFresh,
         \A u \in Tasks :
           /\ status[u] # "none" => status'[u] # "none"
           /\ enq'[u] = "insert" => status'[u] = "none"
  PROVE  RowsExist'
BY DEF CallsFresh, RowsExist, ServiceInv

\* The handlers insert a row once and take none away.
LEMMA HandlerRows ==
  ASSUME ServiceInv, NEW t \in Tasks,
         \/ CountActive(t) \/ EnqueueStep(t) \/ WorkerStep(t) \/ RelayWorks(t)
         \/ CancelRead(t) \/ CancelStep(t) \/ AdapterStep(t) \/ FaultStep(t)
  PROVE  RowsExist'
<1>1. CallsFresh
  BY HandlerCallsFresh
<1>2. CASE CountActive(t)
  BY <1>1, <1>2, RowsKept
     DEF CountActive, Go, dbVars, ServiceInv, RowsExist, ProcessTypeOK
<1>3. CASE InsertTask(t)
  BY <1>1, <1>3, RowsKept
     DEF InsertTask, Go, ServiceInv, RowsExist, ProcessTypeOK, EventsInv, EventsTypeOK
<1>4. CASE ClaimTask(t)
  BY <1>1, <1>4, RowsKept
     DEF ClaimTask, ServiceInv, RowsExist, EventsInv, EventsTypeOK
<1>5. CASE \/ AddJob(t) \/ LinkJob(t) \/ EnqueueReturns(t) \/ CreateFails(t) \/ EnqueueFails(t)
           \/ StoreFails(t)
  <2>1. /\ status' = status
        /\ enq' = enq \/ \E step \in EnqStep \ {"insert"} : enq' = Go(enq, t, step)
    BY <1>5 DEF AddJob, LinkJob, EnqueueReturns, CreateFails, EnqueueFails, StoreFails,
                Rollback, EnqStep, dbVars
  <2> QED
    BY <1>1, <2>1, RowsKept DEF Go, ServiceInv, RowsExist, ProcessTypeOK
<1>6. CASE \/ PickJob(t) \/ ProcessJob(t) \/ ExecuteAccepted(t) \/ UndoRun(t) \/ MarkSession(t)
           \/ FinalFailureReturns(t) \/ RelayWorks(t) \/ CancelRead(t) \/ CancelStep(t)
           \/ AdapterStep(t) \/ ExecuteRefused(t) \/ ExecuteReplyLost(t)
           \/ MarkSessionFails(t) \/ StreamBreaks(t) \/ SaveFails(t) \/ TimerFires(t)
  <2>1. status' = status /\ enq' = enq
    BY <1>6
       DEF PickJob, ProcessJob, ExecuteAccepted, UndoRun, MarkSession, FinalFailureReturns,
           RelayWorks, OpenStream, ReceiveChunk, SavedEvent, GiveUp, RelayFailed,
           CancelRead, CancelStep, CancelQueued, CancelRunning, CancelReturns,
           AdapterStep, ExecuteRefused, ExecuteReplyLost, MarkSessionFails,
           StreamBreaks, SaveFails, Rollback, TimerFires, dbVars, processVars
  <2> QED
    BY <1>1, <2>1, RowsKept DEF ServiceInv, RowsExist
<1> QED
  BY <1>2, <1>3, <1>4, <1>5, <1>6 DEF EnqueueStep, WorkerStep, FaultStep

\* The boot and a crash leave the rows alone.
LEMMA BootRows ==
  ASSUME ServiceInv, BootStep \/ Crash
  PROVE  RowsExist'
<1>1. CallsFresh
  BY BootCallsFresh
<1>2. status' = status /\ \A u \in Tasks : enq'[u] = enq[u] \/ enq'[u] = "idle"
  BY DEF BootStep, BootStart, BootScan, BootDone, BootRequeue, BootResume, BootExpire,
         BootExpired, Crash, dbVars, processVars
<1> QED
  BY <1>1, <1>2, RowsKept DEF ServiceInv, RowsExist

\* The procedures look at the row before they go on, and keep it.
LEMMA StoreRows ==
  ASSUME ServiceInv, NEW t \in Tasks, StoreStep(t)
  PROVE  RowsExist'
<1>1. PICK c \in Caller : CallStepOf(t, c)
  BY DEF StoreStep
<1>2. enq' = enq
  BY DEF StoreStep, processVars
<1>3. ASSUME NEW r, SetCall(t, c, r)
      PROVE  \A u \in Tasks, d \in Caller :
               call'[u][d] = IF u = t /\ d = c THEN r ELSE call[u][d]
  BY <1>3 DEF SetCall, ServiceInv, EventsInv, EventsTypeOK
<1>4. call[t][c] \in CallRecord
  BY DEF ServiceInv, EventsInv, EventsTypeOK
<1>5. CASE FailCheck(t, c)
  <2>1. PICK r : SetCall(t, c, r) /\ r.at \in {"done", "read"}
    BY <1>4, <1>5 DEF FailCheck, CallRecord, PersistCall
  <2>2. status' = status
    BY <1>5 DEF FailCheck, dbVars
  <2> QED
    BY <1>2, <1>3, <2>1, <2>2 DEF ServiceInv, RowsExist
<1>6. CASE PersistRead(t, c)
  <2>1. PICK step \in CallStep :
          /\ SetCall(t, c, [call[t][c] EXCEPT !.at = step])
          /\ step \in {"lock", "commit"} => status[t] # "none"
    BY <1>6 DEF PersistRead, CallStep
  <2> DEFINE r == [call[t][c] EXCEPT !.at = step]
  <2>2. r.at = step /\ SetCall(t, c, r)
    BY <1>4, <2>1 DEF CallRecord
  <2>3. status' = status
    BY <1>6 DEF PersistRead, dbVars
  <2> HIDE DEF r
  <2> QED
    BY <1>2, <1>3, <2>1, <2>2, <2>3 DEF ServiceInv, RowsExist
<1>7. CASE PersistLock(t, c) \/ PersistCommit(t, c)
  <2>1. PICK r : SetCall(t, c, r)
    BY <1>7 DEF PersistLock, PersistCommit
  <2>2. status[t] # "none"
    BY <1>7 DEF PersistLock, PersistCommit, ServiceInv, RowsExist
  <2>3. /\ status'[t] # "none"
        /\ \A u \in Tasks : u # t => status'[u] = status[u]
    BY <1>7, <2>2
       DEF PersistLock, PersistCommit, dbVars, Terminal, ServiceInv, EventsInv, EventsTypeOK
  <2> QED
    BY <1>2, <1>3, <2>1, <2>2, <2>3 DEF ServiceInv, RowsExist
<1> QED
  BY <1>1, <1>5, <1>6, <1>7 DEF CallStepOf

-----------------------------------------------------------------------------
(* The stream URL.                                                         *)

\* A step that, for a task without a URL, makes nothing running, starts no
\* relay and puts the task on no list of tasks to resume.
UrlFrame ==
  /\ CallsFresh
  /\ \A u \in Tasks :
       /\ hasUrl[u] => hasUrl'[u]
       /\ \/ hasUrl'[u]
          \/ /\ status'[u] = "running" => status[u] = "running"
             /\ work'[u] = "session" => work[u] = "session"
             /\ relay'[u].at # "off" =>
                  \/ relay[u].at # "off"
                  \/ work[u] = "session"
                  \/ api = "resume" /\ u \in todo
             /\ api' = "resume" /\ u \in todo' => api = "resume" /\ u \in todo

\* Such a step keeps the invariant of the stream URL.
LEMMA UrlKept == ServiceInv /\ UrlFrame => UrlInv'
BY DEF ServiceInv, UrlInv, UrlFrame, CallsFresh

\* The claim stores the URL with the status; the relay starts after it.
LEMMA WorkerUrl ==
  ASSUME ServiceInv, NEW t \in Tasks,
         \/ WorkerStep(t)
         \/ ExecuteRefused(t) \/ ExecuteReplyLost(t) \/ MarkSessionFails(t)
  PROVE  UrlInv'
<1>1. CallsFresh
  BY HandlerCallsFresh DEF FaultStep
<1>2. CASE ClaimTask(t)
  <2>1. \A u \in Tasks :
          /\ hasUrl[u] => hasUrl'[u]
          /\ \/ hasUrl'[u]
             \/ /\ status'[u] = status[u]
                /\ work'[u] = "session" => work[u] = "session"
    BY <1>2 DEF ClaimTask, Go, ServiceInv, EventsInv, EventsTypeOK, ProcessTypeOK
  <2>2. UNCHANGED <<relay, api, todo>>
    BY <1>2 DEF ClaimTask
  <2> QED
    BY <1>1, <2>1, <2>2, UrlKept DEF UrlFrame
<1>3. CASE MarkSession(t)
  <2>1. UNCHANGED <<status, hasUrl, api, todo>>
    BY <1>3 DEF MarkSession
  <2>2. \A u \in Tasks :
          /\ work'[u] = "session" => work[u] = "session"
          /\ relay'[u].at # "off" => relay[u].at # "off" \/ work[u] = "session"
    BY <1>3 DEF MarkSession, StartRelay, SetRelay, Go, ServiceInv, ProcessTypeOK
  <2> QED
    BY <1>1, <2>1, <2>2, UrlKept DEF UrlFrame
<1>4. CASE \/ PickJob(t) \/ ProcessJob(t) \/ ExecuteAccepted(t) \/ UndoRun(t)
           \/ FinalFailureReturns(t)
           \/ ExecuteRefused(t) \/ ExecuteReplyLost(t) \/ MarkSessionFails(t)
  <2>1. UNCHANGED <<status, hasUrl, relay, api, todo>>
    BY <1>4 DEF PickJob, ProcessJob, ExecuteAccepted, UndoRun, FinalFailureReturns,
                ExecuteRefused, ExecuteReplyLost, MarkSessionFails, dbVars, processVars
  <2>2. UNCHANGED work \/ \E step \in WorkStep \ {"session"} : work' = Go(work, t, step)
    BY <1>4 DEF PickJob, ProcessJob, ExecuteAccepted, UndoRun, FinalFailureReturns,
                ExecuteRefused, ExecuteReplyLost, MarkSessionFails, JobThrows, WorkStep,
                processVars
  <2>3. \A u \in Tasks : work'[u] = "session" => work[u] = "session"
    BY <2>2 DEF Go, ServiceInv, ProcessTypeOK
  <2> QED
    BY <1>1, <2>1, <2>3, UrlKept DEF UrlFrame
<1> QED
  BY <1>2, <1>3, <1>4 DEF WorkerStep

\* The other handlers make nothing running and start no relay.
LEMMA HandlerUrl ==
  ASSUME ServiceInv, NEW t \in Tasks,
         \/ CountActive(t) \/ EnqueueStep(t) \/ CancelRead(t) \/ CancelStep(t)
         \/ RelayWorks(t) \/ AdapterStep(t)
         \/ CreateFails(t) \/ EnqueueFails(t) \/ StreamBreaks(t) \/ SaveFails(t)
         \/ StoreFails(t) \/ TimerFires(t)
  PROVE  UrlInv'
<1>1. CallsFresh
  BY HandlerCallsFresh DEF FaultStep
<1>2. UNCHANGED <<hasUrl, work, api, todo>>
  BY DEF CountActive, EnqueueStep, InsertTask, AddJob, LinkJob, EnqueueReturns, EnqueueFails,
         CreateFails, StoreFails,
         CancelRead, CancelStep, CancelQueued, CancelRunning, CancelReturns,
         RelayWorks, OpenStream, ReceiveChunk, SavedEvent, GiveUp, RelayFailed, AdapterStep,
         StreamBreaks, SaveFails, Rollback, TimerFires, dbVars, processVars
<1>3. \A u \in Tasks : status'[u] = "running" => status[u] = "running"
  BY DEF CountActive, EnqueueStep, InsertTask, AddJob, LinkJob, EnqueueReturns, EnqueueFails,
         CreateFails, StoreFails,
         CancelRead, CancelStep, CancelQueued, CancelRunning, CancelReturns,
         RelayWorks, OpenStream, ReceiveChunk, SavedEvent, GiveUp, RelayFailed, AdapterStep,
         StreamBreaks, SaveFails, Rollback, TimerFires, dbVars, processVars,
         ServiceInv, EventsInv, EventsTypeOK
<1>4. \A u \in Tasks : relay'[u].at # "off" => relay[u].at # "off"
  <2>1. \/ UNCHANGED relay
        \/ \E r : SetRelay(t, r) /\ (r.at # "off" => relay[t].at # "off")
    <3>1. CASE UNCHANGED relay
      BY <3>1
    <3>2. CASE RelayWorks(t) \/ StreamBreaks(t) \/ SaveFails(t) \/ TimerFires(t)
      <4>1. \/ UNCHANGED relay
            \/ relay[t].at # "off" /\ \E r : SetRelay(t, r)
        BY <3>2 DEF RelayWorks, OpenStream, ReceiveChunk, SavedEvent, GiveUp, RelayFailed,
                    StreamBreaks, SaveFails, TimerFires
      <4> QED
        BY <4>1
    <3>3. CASE CancelStep(t) /\ relay' # relay
      <4>1. relay[t].at # "off" \/ relay' = [relay EXCEPT ![t] = relay[t]]
        BY <3>3 DEF CancelStep, CancelQueued, CancelRunning, CancelReturns, StoreCancelled
      <4>2. relay' = relay \/ \E r : SetRelay(t, r)
        BY <3>3 DEF CancelStep, CancelQueued, CancelRunning, CancelReturns, StoreCancelled,
                    SetRelay
      <4> QED
        BY <3>3, <4>1, <4>2 DEF SetRelay
    <3>4. CASE \/ CountActive(t) \/ EnqueueStep(t) \/ CancelRead(t) \/ AdapterStep(t)
               \/ CreateFails(t) \/ EnqueueFails(t) \/ StoreFails(t)
      BY <3>4 DEF CountActive, EnqueueStep, InsertTask, AddJob, LinkJob, EnqueueReturns,
                  CreateFails, EnqueueFails, StoreFails, CancelRead, AdapterStep, processVars
    <3> QED
      BY <3>1, <3>2, <3>3, <3>4
  <2> QED
    BY <2>1 DEF SetRelay, ServiceInv, ProcessTypeOK
<1> QED
  BY <1>1, <1>2, <1>3, <1>4, UrlKept DEF UrlFrame

\* The boot resumes tasks that have a URL only.
LEMMA BootUrl ==
  ASSUME ServiceInv, BootStep \/ Crash
  PROVE  UrlInv'
<1>1. CallsFresh
  BY BootCallsFresh
<1>2. UNCHANGED <<status, hasUrl>>
  BY DEF BootStep, BootStart, BootScan, BootDone, BootRequeue, BootResume, BootExpire,
         BootExpired, Crash, dbVars
<1>3. CASE BootStart \/ BootScan \/ BootDone
  <2>1. UNCHANGED <<work, relay>>
    BY <1>3 DEF BootStart, BootScan, BootDone
  <2>2. \A u \in Tasks : api' = "resume" /\ u \in todo' => hasUrl[u]
    BY <1>3 DEF BootStart, BootScan, BootDone
  <2> QED
    BY <1>1, <1>2, <2>1, <2>2, UrlKept DEF UrlFrame
<1>4. ASSUME NEW t \in Tasks,
             BootRequeue(t) \/ BootResume(t) \/ BootExpire(t) \/ BootExpired(t)
      PROVE  UrlInv'
  <2>1. UNCHANGED <<work, api>> /\ todo' \subseteq todo
    BY <1>4 DEF BootRequeue, BootResume, BootExpire, BootExpired, processVars
  <2>2. \A u \in Tasks :
          relay'[u].at # "off" => relay[u].at # "off" \/ (api = "resume" /\ u \in todo)
    BY <1>4 DEF BootRequeue, BootResume, BootAt, BootExpire, BootExpired, StartRelay, SetRelay,
                processVars, ServiceInv, ProcessTypeOK
  <2> QED
    BY <1>1, <1>2, <2>1, <2>2, UrlKept DEF UrlFrame
<1>5. CASE Crash
  <2>1. \A u \in Tasks : work'[u] = "idle" /\ relay'[u].at = "off"
    BY <1>5, RelayTypes DEF Crash
  <2>2. api' = "down"
    BY <1>5 DEF Crash
  <2> QED
    BY <1>1, <1>2, <2>1, <2>2, UrlKept DEF UrlFrame
<1> QED
  BY <1>3, <1>4, <1>5 DEF BootStep

\* The procedures make a task running for task.accepted only, which a relay
\* handed on.
LEMMA StoreUrl ==
  ASSUME ServiceInv, NEW t \in Tasks, StoreStep(t)
  PROVE  UrlInv'
<1>1. PICK c \in Caller : CallStepOf(t, c)
  BY DEF StoreStep
<1>2. UNCHANGED <<hasUrl, work, relay, api, todo>>
  BY <1>1 DEF StoreStep, processVars, CallStepOf, FailCheck, PersistRead, PersistLock,
              PersistCommit, dbVars
<1>3. call[t][c] \in CallRecord
  BY DEF ServiceInv, EventsInv, EventsTypeOK
<1>4. PICK r : SetCall(t, c, r) /\ (r.type = "accepted" => call[t][c].type = "accepted")
  <2>1. CASE FailCheck(t, c)
    BY <1>3, <2>1 DEF FailCheck, CallRecord, PersistCall
  <2>2. CASE PersistRead(t, c)
    <3>1. PICK step : SetCall(t, c, [call[t][c] EXCEPT !.at = step])
      BY <2>2 DEF PersistRead
    <3>2. [call[t][c] EXCEPT !.at = step].type = call[t][c].type
      BY <1>3 DEF CallRecord
    <3> QED
      BY <3>1, <3>2
  <2>3. CASE PersistLock(t, c)
    <3>1. PICK version : SetCall(t, c, [call[t][c] EXCEPT !.at = "commit", !.version = version])
      BY <2>3 DEF PersistLock
    <3>2. [call[t][c] EXCEPT !.at = "commit", !.version = version].type = call[t][c].type
      BY <1>3 DEF CallRecord
    <3> QED
      BY <3>1, <3>2
  <2>4. CASE PersistCommit(t, c)
    <3>1. SetCall(t, c, [call[t][c] EXCEPT !.at = "done"])
      BY <2>4 DEF PersistCommit
    <3>2. [call[t][c] EXCEPT !.at = "done"].type = call[t][c].type
      BY <1>3 DEF CallRecord
    <3> QED
      BY <3>1, <3>2
  <2> QED
    BY <1>1, <2>1, <2>2, <2>3, <2>4 DEF CallStepOf
<1>5. \A u \in Tasks, d \in Caller :
        call'[u][d] = IF u = t /\ d = c THEN r ELSE call[u][d]
  BY <1>4 DEF SetCall, ServiceInv, EventsInv, EventsTypeOK
<1>6. \A u \in Tasks : status'[u] = "running" =>
        status[u] = "running" \/ (u = t /\ call[t][c].type = "accepted")
  BY <1>1 DEF CallStepOf, FailCheck, PersistRead, PersistLock, PersistCommit, dbVars, Terminal,
              ServiceInv, EventsInv, EventsTypeOK
<1> QED
  BY <1>2, <1>4, <1>5, <1>6 DEF ServiceInv, UrlInv

-----------------------------------------------------------------------------
(* Every step preserves the invariant.                                     *)

\* The steps of the procedures.
LEMMA StoreStepInv ==
  ASSUME ServiceInv, NEW t \in Tasks, StoreStep(t)
  PROVE  ServiceInv'
<1>1. EventsInv' /\ ExplainInv'
  BY CallStepInv DEF StoreStep, ServiceInv
<1>2. QueueInv' /\ JobIsHeld'
  BY OtherQueueSteps
<1>3. StreamsGrow /\ relay' = relay
  BY AdapterGrows DEF StoreStep, ServiceInv, processVars
<1>4. RelayTypeOK' /\ ChunkIsPublished'
  BY <1>3, RelayKept
<1>5. PhaseTypeOK' /\ RowsExist' /\ UrlInv'
  BY RelayPhases, StoreRows, StoreUrl
<1> QED
  BY <1>1, <1>2, <1>3, <1>4, <1>5
     DEF ServiceInv, StreamsGrow, ProcessTypeOK, PhaseTypeOK, RelayTypeOK

\* The handlers, on the tables.
LEMMA HandlerTables ==
  ASSUME ServiceInv, NEW t \in Tasks,
         \/ CountActive(t) \/ EnqueueStep(t) \/ WorkerStep(t) \/ RelayWorks(t)
         \/ CancelRead(t) \/ CancelStep(t) \/ AdapterStep(t) \/ FaultStep(t)
  PROVE  EventsInv' /\ ExplainInv'
<1>1. CASE \/ CountActive(t) \/ CreateFails(t) \/ AddJob(t) \/ LinkJob(t)
           \/ PickJob(t) \/ ProcessJob(t) \/ ExecuteAccepted(t) \/ UndoRun(t)
           \/ OpenStream(t) \/ TimerFires(t) \/ CancelRead(t) \/ AdapterStep(t)
  <2>1. UNCHANGED <<dbVars, sessionLock, call>>
    BY <1>1, QuietSteps
  <2> QED
    BY <2>1, EventsUnchanged, ExplainUnchanged DEF ServiceInv, dbVars
<1>2. CASE \/ EnqueueFails(t) \/ EnqueueReturns(t)
           \/ ExecuteRefused(t) \/ ExecuteReplyLost(t) \/ MarkSessionFails(t)
           \/ FinalFailureReturns(t)
           \/ StreamBreaks(t) \/ GiveUp(t) \/ RelayFailed(t) \/ CancelReturns(t)
  BY <1>2, FailingSteps
<1>3. CASE CancelQueued(t) \/ CancelRunning(t) \/ ReceiveChunk(t) \/ SavedEvent(t)
  BY <1>3, CancellingSteps, RelayingSteps
<1>4. CASE InsertTask(t) \/ ClaimTask(t) \/ MarkSession(t) \/ SaveFails(t) \/ StoreFails(t)
  BY <1>4, InsertTaskTables, ClaimTaskTables, MarkSessionTables, SaveFailsTables,
     StoreFailsTables
<1> QED
  BY <1>1, <1>2, <1>3, <1>4 DEF EnqueueStep, WorkerStep, RelayWorks, CancelStep, FaultStep

\* The handlers, on the queue.
LEMMA HandlerQueue ==
  ASSUME ServiceInv, NEW t \in Tasks,
         \/ CountActive(t) \/ EnqueueStep(t) \/ WorkerStep(t) \/ RelayWorks(t)
         \/ CancelRead(t) \/ CancelStep(t) \/ AdapterStep(t) \/ FaultStep(t)
  PROVE  QueueInv' /\ JobIsHeld'
BY QueueSteps, WorkerQueueSteps, OtherQueueSteps
   DEF EnqueueStep, WorkerStep, RelayWorks, CancelStep, FaultStep

\* The handlers, on the adapter and the relays.
LEMMA HandlerRelays ==
  ASSUME ServiceInv, NEW t \in Tasks,
         \/ CountActive(t) \/ EnqueueStep(t) \/ WorkerStep(t) \/ RelayWorks(t)
         \/ CancelRead(t) \/ CancelStep(t) \/ AdapterStep(t) \/ FaultStep(t)
  PROVE  AdapterTypeOK' /\ RelayTypeOK' /\ ChunkIsPublished'
<1>1. \/ AcceptRun(t) \/ AbortRun(t) \/ ProduceDelta(t) \/ EndRun(t)
      \/ UNCHANGED adapterVars
  BY DEF CountActive, EnqueueStep, InsertTask, AddJob, LinkJob, EnqueueReturns,
         WorkerStep, PickJob, ProcessJob, ExecuteAccepted, ClaimTask, UndoRun, MarkSession,
         FinalFailureReturns, RelayWorks, OpenStream, ReceiveChunk, SavedEvent, GiveUp,
         RelayFailed, CancelRead, CancelStep, CancelQueued, CancelRunning, CancelReturns,
         AdapterStep, FaultStep, CreateFails, EnqueueFails, StoreFails,
         ExecuteRefused, ExecuteReplyLost, MarkSessionFails, StreamBreaks, SaveFails, TimerFires, CancelBestEffort
<1>2. StreamsGrow
  BY <1>1, AdapterGrows DEF ServiceInv
<1>3. UNCHANGED relay \/ \E r : SoundRelay(t, r) /\ SetRelay(t, r)
  <2>1. CASE RelayActions(t)
    BY <2>1, RelayIsSound
  <2>2. CASE ~RelayActions(t)
    BY <2>2
       DEF RelayActions, CountActive, EnqueueStep, InsertTask, AddJob, LinkJob, EnqueueReturns,
           WorkerStep, PickJob, ProcessJob, ExecuteAccepted, ClaimTask, UndoRun,
           FinalFailureReturns, RelayWorks, CancelRead, CancelStep, CancelReturns,
           AdapterStep, FaultStep, CreateFails, EnqueueFails, StoreFails,
           ExecuteRefused, ExecuteReplyLost,
           MarkSessionFails, processVars
  <2> QED
    BY <2>1, <2>2
<1>4. RelayTypeOK' /\ ChunkIsPublished'
  BY <1>2, <1>3, RelayKept, RelaySet DEF SoundRelay
<1> QED
  BY <1>2, <1>4 DEF StreamsGrow

\* The steps of the handlers.
LEMMA HandlerInv ==
  ASSUME ServiceInv, NEW t \in Tasks,
         \/ CountActive(t) \/ EnqueueStep(t) \/ WorkerStep(t) \/ RelayWorks(t)
         \/ CancelRead(t) \/ CancelStep(t) \/ AdapterStep(t) \/ FaultStep(t)
  PROVE  ServiceInv'
<1>1. EventsInv' /\ ExplainInv'
  BY HandlerTables
<1>2. QueueInv' /\ JobIsHeld'
  BY HandlerQueue
<1>3. AdapterTypeOK' /\ RelayTypeOK' /\ ChunkIsPublished'
  BY HandlerRelays
<1>4. PhaseTypeOK'
  BY EnqueuePhases, WorkerPhases, RelayPhases, CancelPhases, StoreFailsPhases DEF FaultStep
<1>5. RowsExist'
  BY HandlerRows
<1>6. UrlInv'
  BY WorkerUrl, HandlerUrl DEF FaultStep
<1> QED
  BY <1>1, <1>2, <1>3, <1>4, <1>5, <1>6
     DEF ServiceInv, ProcessTypeOK, PhaseTypeOK, RelayTypeOK

\* The boot, on the tables.
LEMMA BootTables ==
  ASSUME ServiceInv, BootStep
  PROVE  EventsInv' /\ ExplainInv'
<1>1. ASSUME NEW t \in Tasks, BootExpire(t) \/ BootExpired(t)
      PROVE  EventsInv' /\ ExplainInv'
  BY <1>1, FailingSteps
<1>2. CASE UNCHANGED <<dbVars, sessionLock, call>>
  BY <1>2, EventsUnchanged, ExplainUnchanged DEF ServiceInv, dbVars
<1>3. \/ UNCHANGED <<dbVars, sessionLock, call>>
      \/ \E t \in Tasks : BootExpire(t) \/ BootExpired(t)
  BY DEF BootStep, BootStart, BootScan, BootDone, BootRequeue, BootResume
<1> QED
  BY <1>1, <1>2, <1>3

\* The boot, on the queue.
LEMMA BootQueue ==
  ASSUME ServiceInv, BootStep
  PROVE  QueueInv' /\ JobIsHeld'
<1>1. ASSUME NEW t \in Tasks, BootRequeue(t)
      PROVE  QueueInv' /\ JobIsHeld'
  BY <1>1, QueueSteps
<1>2. ASSUME NEW t \in Tasks, BootResume(t) \/ BootExpire(t) \/ BootExpired(t)
      PROVE  QueueInv' /\ JobIsHeld'
  BY <1>2, OtherQueueSteps
<1>3. CASE BootStart \/ BootScan \/ BootDone
  BY <1>3, HeldUnchanged DEF BootStart, BootScan, BootDone
<1> QED
  BY <1>1, <1>2, <1>3 DEF BootStep

\* The boot and a crash, on the adapter and the relays.
LEMMA BootRelays ==
  ASSUME ServiceInv, BootStep \/ Crash
  PROVE  AdapterTypeOK' /\ RelayTypeOK' /\ ChunkIsPublished'
<1>1. CASE BootStep
  <2>1. ASSUME NEW t \in Tasks, BootResume(t)
        PROVE  AdapterTypeOK' /\ RelayTypeOK' /\ ChunkIsPublished'
    <3>1. StreamsGrow
      BY <2>1, AdapterGrows DEF BootResume, ServiceInv
    <3>2. UNCHANGED relay \/ \E r : SoundRelay(t, r) /\ SetRelay(t, r)
      BY <2>1, RelayIsSound DEF RelayActions
    <3> QED
      BY <3>1, <3>2, RelayKept, RelaySet DEF SoundRelay, StreamsGrow
  <2>2. ASSUME NEW t \in Tasks, BootRequeue(t) \/ BootExpire(t) \/ BootExpired(t)
        PROVE  AdapterTypeOK' /\ RelayTypeOK' /\ ChunkIsPublished'
    <3>1. UNCHANGED relay /\ (AbortRun(t) \/ UNCHANGED adapterVars)
      BY <2>2 DEF BootRequeue, BootExpire, BootExpired, CancelBestEffort, processVars
    <3>2. StreamsGrow
      BY <3>1, AdapterGrows DEF ServiceInv
    <3> QED
      BY <3>1, <3>2, RelayKept DEF StreamsGrow
  <2>3. CASE BootStart \/ BootScan \/ BootDone
    <3>1. UNCHANGED <<relay, adapterVars>>
      BY <2>3 DEF BootStart, BootScan, BootDone
    <3> QED
      BY <3>1 DEF ServiceInv, ProcessTypeOK, AdapterTypeOK, RelayTypeOK, ChunkIsPublished,
                  adapterVars
  <2> QED
    BY <1>1, <2>1, <2>2, <2>3 DEF BootStep
<1>2. CASE Crash
  BY <1>2, RelayTypes DEF Crash, ServiceInv, AdapterTypeOK, RelayTypeOK, ChunkIsPublished, adapterVars
<1> QED
  BY <1>1, <1>2

\* The steps of the boot, and a crash.
LEMMA BootInv ==
  ASSUME ServiceInv, BootStep \/ Crash
  PROVE  ServiceInv'
<1>1. EventsInv' /\ ExplainInv'
  BY BootTables, CrashTables
<1>2. QueueInv' /\ JobIsHeld'
  BY BootQueue, CrashQueue
<1>3. AdapterTypeOK' /\ RelayTypeOK' /\ ChunkIsPublished'
  BY BootRelays
<1>4. PhaseTypeOK' /\ RowsExist' /\ UrlInv'
  BY BootPhases, BootRows, BootUrl
<1> QED
  BY <1>1, <1>2, <1>3, <1>4 DEF ServiceInv, ProcessTypeOK, PhaseTypeOK, RelayTypeOK

\* A step that changes nothing.
LEMMA StutterInv == ServiceInv /\ UNCHANGED vars => ServiceInv'
<1> SUFFICES ASSUME ServiceInv, UNCHANGED vars PROVE ServiceInv'
  OBVIOUS
<1> USE DEF vars, processVars
<1>1. EventsInv' /\ ExplainInv'
  BY EventsUnchanged, ExplainUnchanged DEF ServiceInv, dbVars
<1>2. QueueInv' /\ JobIsHeld'
  BY HeldUnchanged
<1>3. AdapterTypeOK' /\ ProcessTypeOK' /\ ChunkIsPublished'
  BY DEF ServiceInv, AdapterTypeOK, ProcessTypeOK, ChunkIsPublished, adapterVars
<1>4. RowsExist' /\ UrlInv'
  BY DEF ServiceInv, RowsExist, UrlInv, dbVars
<1> QED
  BY <1>1, <1>2, <1>3, <1>4 DEF ServiceInv

\* The invariant holds in every state of every behaviour.
LEMMA ServiceAlwaysInv == Spec => []ServiceInv
<1>1. ASSUME ServiceInv, [Next]_vars PROVE ServiceInv'
  BY <1>1, HandlerInv, StoreStepInv, BootInv, StutterInv DEF Next
<1> QED
  BY <1>1, ServiceInit, PTL DEF Spec

-----------------------------------------------------------------------------
(* What follows.                                                           *)

\* Every variable keeps its type: in particular no job is tried more often
\* than Attempts and no relay reads past what the adapter published.
THEOREM TypeCorrect == Spec => []TypeOK
<1>1. ServiceInv => TypeOK
  BY DEF ServiceInv, EventsInv, QueueInv, TypeOK
<1> QED
  BY <1>1, ServiceAlwaysInv, PTL

\* A running task always has a stream to resume: onModuleInit finds every
\* task a crash left running, however dispatch, relay, cancellation and
\* restarts interleave.
THEOREM RunningIsResumable == Spec => []RunningHasStreamUrl
<1>1. ServiceInv => RunningHasStreamUrl
  BY DEF ServiceInv, UrlInv, RunningHasStreamUrl
<1> QED
  BY <1>1, ServiceAlwaysInv, PTL

\* The rows and the events of a task agree in the whole service: dispatch
\* claims queued tasks only, and everything else goes through persistTaskEvent.
THEOREM ServiceLogExplainsStatus == Spec => []LogExplainsStatus
<1>1. ServiceInv => LogExplainsStatus
  BY DEF ServiceInv, ExplainInv
<1> QED
  BY <1>1, ServiceAlwaysInv, PTL

\* And the result versions of a conversation stay contiguous in it.
THEOREM ServiceVersionsAreContiguous == Spec => []VersionsContiguous
<1>1. ServiceInv => VersionsContiguous
  BY DEF ServiceInv, EventsInv
<1> QED
  BY <1>1, ServiceAlwaysInv, PTL

=============================================================================

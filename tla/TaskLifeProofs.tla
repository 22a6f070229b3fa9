---------------------------- MODULE TaskLifeProofs ----------------------------
(***************************************************************************)
(* Theorems about the life of a task that need more than ServiceInv: its   *)
(* one result, the limit on active tasks, the order and the text of what   *)
(* is stored of its stream, and that a queued task is scheduled and a      *)
(* running one attended to.  Each rests on an invariant of its own that is *)
(* inductive given ServiceInv and those before it.                         *)
(***************************************************************************)
EXTENDS TaskServiceProofs, FiniteSetTheorems

-----------------------------------------------------------------------------
(* What a step may do to the rows and the calls.                           *)

SameRows == UNCHANGED <<status, hasUrl, log, results>>

\* A call starts or ends; the rows stay.
CallSet(t) ==
  /\ SameRows
  /\ \E c \in Caller : \E r : SetCall(t, c, r) /\ r.at \in {"idle", "check", "read"}

StepShape ==
  \/ SameRows /\ UNCHANGED call
  \/ \E t \in Tasks :
       \/ InsertTask(t)
       \/ ClaimTask(t)
       \/ CallSet(t)
       \/ \E c \in Caller : CallStepOf(t, c)
  \/ Crash

\* The records that calls are started and ended with.
LEMMA CallPhases ==
  /\ IdleCall.at = "idle"
  /\ FailCall.at = "check"
  /\ \A type, src : PersistCall(type, src).at = "read"
BY DEF IdleCall, FailCall, PersistCall

\* Starting or ending a call, with the rows left alone.
LEMMA CallIsSet ==
  ASSUME NEW t \in Tasks, NEW c \in Caller, UNCHANGED dbVars,
         \/ SetCall(t, c, IdleCall)
         \/ SetCall(t, c, FailCall)
         \/ \E type, src : SetCall(t, c, PersistCall(type, src))
         \/ UNCHANGED call
  PROVE  StepShape
<1>1. SameRows
  BY DEF dbVars, SameRows
<1>2. CASE SetCall(t, c, IdleCall)
  BY <1>1, <1>2, CallPhases DEF StepShape, CallSet
<1>3. CASE SetCall(t, c, FailCall)
  BY <1>1, <1>3, CallPhases DEF StepShape, CallSet
<1>4. ASSUME NEW type, NEW src, SetCall(t, c, PersistCall(type, src))
      PROVE  StepShape
  BY <1>1, <1>4, CallPhases DEF StepShape, CallSet
<1>5. CASE UNCHANGED call
  BY <1>1, <1>5 DEF StepShape
<1> QED
  BY <1>2, <1>3, <1>4, <1>5

\* The handlers change the rows by InsertTask, ClaimTask and the procedures.
LEMMA HandlerShapes ==
  ASSUME ServiceInv, NEW t \in Tasks,
         \/ CountActive(t) \/ EnqueueStep(t) \/ WorkerStep(t) \/ RelayWorks(t)
         \/ CancelRead(t) \/ CancelStep(t) \/ AdapterStep(t) \/ FaultStep(t)
  PROVE  StepShape
<1>1. CASE \/ CountActive(t) \/ CreateFails(t) \/ AddJob(t) \/ LinkJob(t)
           \/ PickJob(t) \/ ProcessJob(t) \/ ExecuteAccepted(t) \/ UndoRun(t)
           \/ OpenStream(t) \/ TimerFires(t) \/ CancelRead(t) \/ AdapterStep(t)
  BY <1>1, QuietSteps DEF StepShape, SameRows, dbVars
<1>2. CASE EnqueueFails(t) \/ EnqueueReturns(t)
  BY <1>2, CallIsSet DEF EnqueueFails, EnqueueReturns, Resume, Caller
<1>3. CASE \/ ExecuteRefused(t) \/ ExecuteReplyLost(t) \/ MarkSessionFails(t)
           \/ FinalFailureReturns(t)
  BY <1>3, CallIsSet
     DEF ExecuteRefused, ExecuteReplyLost, MarkSessionFails, JobThrows, FinalFailureReturns,
         Resume, Caller
<1>4. CASE StreamBreaks(t) \/ GiveUp(t) \/ RelayFailed(t) \/ SaveFails(t) \/ ReceiveChunk(t)
  <2>1. /\ UNCHANGED dbVars
        /\ \/ SetCall(t, "relay", IdleCall)
           \/ SetCall(t, "relay", FailCall)
           \/ \E type, src : SetCall(t, "relay", PersistCall(type, src))
    BY <1>4 DEF StreamBreaks, GiveUp, RelayFailed, SaveFails, ReceiveChunk, Resume, Rollback
  <2> QED
    BY <2>1, CallIsSet DEF Caller
<1>5. CASE SavedEvent(t)
  <2>1. /\ UNCHANGED dbVars
        /\ \/ SetCall(t, "relay", IdleCall)
           \/ \E type, src : SetCall(t, "relay", PersistCall(type, src))
    BY <1>5 DEF SavedEvent
  <2> QED
    BY <2>1, CallIsSet DEF Caller
<1>6. CASE CancelStep(t)
  <2>1. /\ UNCHANGED dbVars
        /\ \/ SetCall(t, "cancel", IdleCall)
           \/ SetCall(t, "cancel", PersistCall("cancelled", 0))
           \/ UNCHANGED call
    BY <1>6 DEF CancelStep, CancelQueued, CancelRunning, CancelReturns, StoreCancelled, Resume
  <2> QED
    BY <2>1, CallIsSet DEF Caller
<1>7. CASE StoreFails(t)
  <2>1. PICK c \in Caller : Rollback(t, c) /\ SetCall(t, c, IdleCall)
    BY <1>7 DEF StoreFails, Caller
  <2> QED
    BY <2>1, CallIsSet DEF Rollback
<1>8. CASE MarkSession(t)
  BY <1>8 DEF MarkSession, StepShape, SameRows
<1>9. CASE InsertTask(t) \/ ClaimTask(t)
  BY <1>9 DEF StepShape
<1> QED
  BY <1>1, <1>2, <1>3, <1>4, <1>5, <1>6, <1>7, <1>8, <1>9
     DEF EnqueueStep, WorkerStep, RelayWorks, FaultStep

\* The boot writes no row.
LEMMA BootShapes ==
  ASSUME ServiceInv, BootStep
  PROVE  StepShape
<1>1. ASSUME NEW t \in Tasks, BootExpire(t) \/ BootExpired(t)
      PROVE  StepShape
  BY <1>1, CallIsSet DEF BootExpire, BootExpired, Resume, Caller
<1>2. CASE UNCHANGED <<dbVars, sessionLock, call>>
  BY <1>2 DEF StepShape, SameRows, dbVars
<1> QED
  BY <1>1, <1>2 DEF BootStep, BootStart, BootScan, BootDone, BootRequeue, BootResume

\* Every step has one of the shapes.
LEMMA StepShapes == ServiceInv /\ [Next]_vars => StepShape
<1> SUFFICES ASSUME ServiceInv, [Next]_vars PROVE StepShape
  OBVIOUS
<1>1. CASE BootStep \/ Crash
  BY <1>1, BootShapes DEF StepShape
<1>2. ASSUME NEW t \in Tasks, StoreStep(t) PROVE StepShape
  BY <1>2 DEF StoreStep, StepShape
<1>3. CASE UNCHANGED vars
  BY <1>3 DEF vars, dbVars, StepShape, SameRows
<1> QED
  BY <1>1, <1>2, <1>3, HandlerShapes DEF Next

-----------------------------------------------------------------------------
(* A completed task has one result.                                        *)

Completions(t) == {i \in DOMAIN log[t] : log[t][i].type = "completed"}

Rows(t) == {i \in DOMAIN results[SessionOf[t]] : results[SessionOf[t]][i].task = t}

\* The task has ended and its relay is not past the reads of persistTaskEvent,
\* so that it can bring nothing of the task back.
Settled(t) ==
  /\ status[t] \in Terminal
  /\ call[t]["relay"].at \notin {"lock", "commit"}

Single(S) == \E x \in S : S = {x}

OneResultOf(t) ==
  /\ status[t] = "completed" => Completions(t) # {}
  /\ Completions(t) # {} => Settled(t)
  /\ \/ Completions(t) = {} /\ Rows(t) = {}
     \/ Single(Completions(t)) /\ Single(Rows(t))

OneResult == \A t \in Tasks : OneResultOf(t)

\* What a procedure that does not commit does to the calls.
LEMMA UncommittedStep ==
  ASSUME ServiceInv, NEW t \in Tasks, NEW c \in Caller,
         FailCheck(t, c) \/ PersistRead(t, c) \/ PersistLock(t, c)
  PROVE  /\ SameRows
         /\ \A u \in Tasks : Settled(u) => Settled(u)'
<1>1. SameRows
  BY DEF FailCheck, PersistRead, PersistLock, dbVars, SameRows
<1>2. PICK r : /\ SetCall(t, c, r)
               /\ r.at \in {"lock", "commit"} =>
                    call[t][c].at = "lock" \/ status[t] \notin Terminal
  <2>0. call[t][c] \in CallRecord
    BY DEF ServiceInv, EventsInv, EventsTypeOK
  <2>1. CASE FailCheck(t, c)
    BY <2>0, <2>1, CallPhases DEF FailCheck, CallRecord
  <2>2. CASE PersistRead(t, c)
    BY <2>0, <2>2 DEF PersistRead, CallRecord
  <2>3. CASE PersistLock(t, c)
    BY <2>3 DEF PersistLock
  <2> QED
    BY <2>1, <2>2, <2>3
<1>3. \A u \in Tasks, d \in Caller :
        call'[u][d] = IF u = t /\ d = c THEN r ELSE call[u][d]
  BY <1>2 DEF SetCall, ServiceInv, EventsInv, EventsTypeOK
<1>4. ASSUME NEW u \in Tasks, Settled(u) PROVE Settled(u)'
  <2>1. status'[u] \in Terminal /\ "relay" \in Caller
    BY <1>1, <1>4 DEF SameRows, Settled, Caller
  <2>2. call'[u]["relay"].at \notin {"lock", "commit"}
    BY <1>2, <1>3, <1>4, <2>1 DEF Settled
  <2> QED
    BY <2>1, <2>2 DEF Settled
<1> QED
  BY <1>1, <1>4

\* The rows stay and what is settled stays so.
LEMMA OneResultKept ==
  ASSUME OneResult, UNCHANGED <<log, results>>,
         \A u \in Tasks : status'[u] = "completed" => status[u] = "completed",
         \A u \in Tasks : Settled(u) => Settled(u)'
  PROVE  OneResult'
BY DEF OneResult, OneResultOf, Completions, Rows

\* What a commit does: one more row for its task, and what the row means.
Committed(t, c) ==
  /\ call[t][c] \in CallRecord /\ call[t][c].at = "commit"
  /\ log[t] \in Seq(EventRecord)
  /\ log'[t] = Append(log[t], [type |-> call[t][c].type, src |-> call[t][c].src])
  /\ \A u \in Tasks : u # t => log'[u] = log[u] /\ status'[u] = status[u]
  /\ call[t][c].type = "accepted" => status'[t] = "running"
  /\ call[t][c].type \in Terminal => status'[t] = call[t][c].type
  /\ call[t][c].type = "delta" => status'[t] = status[t]
  /\ \A u \in Tasks, d \in Caller :
       call'[u][d] = IF u = t /\ d = c THEN [call[t][c] EXCEPT !.at = "done"]
                     ELSE call[u][d]
  /\ c # "relay" => call[t][c].type \in {"failed", "cancelled"} /\ call[t][c].src = 0

\* What a commit of the model does, as stated above.
LEMMA CommitRows ==
  ASSUME ServiceInv, NEW t \in Tasks, NEW c \in Caller, PersistCommit(t, c)
  PROVE  Committed(t, c)
<1>1. call[t][c] \in CallRecord /\ call[t][c].at = "commit" /\ log[t] \in Seq(EventRecord)
  BY DEF ServiceInv, EventsInv, EventsTypeOK, PersistCommit
<1>2. /\ log'[t] = Append(log[t], [type |-> call[t][c].type, src |-> call[t][c].src])
      /\ \A u \in Tasks : u # t => log'[u] = log[u]
  BY <1>1, AppendEvent DEF ServiceInv, EventsInv, PersistCommit
<1>3. /\ \A u \in Tasks : u # t => status'[u] = status[u]
      /\ call[t][c].type = "accepted" => status'[t] = "running"
      /\ call[t][c].type \in Terminal => status'[t] = call[t][c].type
      /\ call[t][c].type = "delta" => status'[t] = status[t]
  BY DEF PersistCommit, ServiceInv, EventsInv, EventsTypeOK, Terminal
<1>4. \A u \in Tasks, d \in Caller :
        call'[u][d] = IF u = t /\ d = c THEN [call[t][c] EXCEPT !.at = "done"]
                      ELSE call[u][d]
  BY DEF PersistCommit, SetCall, ServiceInv, EventsInv, EventsTypeOK
<1>5. c # "relay" => call[t][c].type \in {"failed", "cancelled"} /\ call[t][c].src = 0
  BY DEF ServiceInv, EventsInv, CallersInv
<1> QED
  BY <1>1, <1>2, <1>3, <1>4, <1>5 DEF Committed

\* What was settled before a commit is settled after it: a relay that commits
\* has not settled its task.
LEMMA CommitSettled ==
  ASSUME ServiceInv, NEW t \in Tasks, NEW c \in Caller, PersistCommit(t, c)
  PROVE  \A u \in Tasks : Settled(u) => Settled(u)'
<1> SUFFICES ASSUME NEW u \in Tasks, Settled(u) PROVE Settled(u)'
  OBVIOUS
<1>c. Committed(t, c)
  BY CommitRows
<1>1. u = t => c # "relay"
  BY <1>c DEF Settled, Committed
<1>2. status'[u] \in Terminal
  BY <1>1, <1>c DEF Settled, Terminal, Committed
<1>3. call'[u]["relay"] = call[u]["relay"]
  BY <1>1, <1>c DEF Caller, Committed
<1> QED
  BY <1>2, <1>3 DEF Settled

\* The rows of an append that adds one, or none, of the kind looked for.
LEMMA AppendSelects ==
  ASSUME NEW R, NEW s \in Seq(R), NEW row, NEW P,
         P = {i \in DOMAIN s : TRUE}
  PROVE  /\ DOMAIN Append(s, row) = P \cup {Len(s) + 1}
         /\ Len(s) + 1 \notin P
         /\ \A i \in P : Append(s, row)[i] = s[i]
         /\ Append(s, row)[Len(s) + 1] = row
<1>1. Len(s) \in Nat /\ P = 1 .. Len(s)
  OBVIOUS
<1>2. DOMAIN Append(s, row) = 1 .. (Len(s) + 1)
  BY <1>1
<1>3. 1 .. (Len(s) + 1) = P \cup {Len(s) + 1} /\ Len(s) + 1 \notin P
  BY <1>1
<1>4. \A i \in P : Append(s, row)[i] = s[i]
  BY <1>1
<1>5. Append(s, row)[Len(s) + 1] = row
  BY <1>1
<1> QED
  BY <1>2, <1>3, <1>4, <1>5

\* A commit of another event than a completion changes no completion.
LEMMA CommitOther ==
  ASSUME ServiceInv, OneResult, NEW t \in Tasks, NEW c \in Caller, PersistCommit(t, c),
         call[t][c].type # "completed"
  PROVE  OneResult'
<1> SUFFICES ASSUME NEW u \in Tasks PROVE OneResultOf(u)'
  BY DEF OneResult
<1>c. Committed(t, c)
  BY CommitRows
<1>1. results' = results
  BY DEF PersistCommit
<1>2. Completions(u)' = Completions(u)
  <2>1. CASE u = t
    <3> DEFINE row == [type |-> call[t][c].type, src |-> call[t][c].src]
    <3>1. log'[t] = Append(log[t], row) /\ log[t] \in Seq(EventRecord) /\ row.type # "completed"
      BY <1>c DEF Committed
    <3> HIDE DEF row
    <3>2. /\ DOMAIN log'[t] = DOMAIN log[t] \cup {Len(log[t]) + 1}
          /\ \A i \in DOMAIN log[t] : log'[t][i] = log[t][i]
          /\ log'[t][Len(log[t]) + 1] = row
          /\ Len(log[t]) + 1 \notin DOMAIN log[t]
      BY <3>1, AppendSelects
    <3> QED
      BY <2>1, <3>1, <3>2 DEF Completions
  <2>2. CASE u # t
    BY <2>2, <1>c DEF Completions, Committed
  <2> QED
    BY <2>1, <2>2
<1>3. Rows(u)' = Rows(u)
  BY <1>1 DEF Rows
<1>4. status'[u] = "completed" => status[u] = "completed"
  BY <1>c DEF CallRecord, EventType, Terminal, Committed
<1>5. Settled(u) => Settled(u)'
  BY CommitSettled
<1> QED
  BY <1>2, <1>3, <1>4, <1>5 DEF OneResult, OneResultOf, Single

\* The commit of a completion is the first one of its task.
LEMMA CommitCompletion ==
  ASSUME ServiceInv, OneResult, NEW t \in Tasks, NEW c \in Caller, PersistCommit(t, c),
         call[t][c].type = "completed"
  PROVE  OneResult'
<1> DEFINE s   == SessionOf[t]
           row == [task |-> t, version |-> call[t][c].version, text |-> OutputText(log[t])]
<1>c. Committed(t, c)
  BY CommitRows
<1>0. c = "relay" /\ "relay" \in Caller
  BY <1>c DEF Caller, Committed
<1>1. Completions(t) = {} /\ Rows(t) = {}
  BY <1>0, <1>c DEF OneResult, OneResultOf, Settled, Single, Committed
<1>2. /\ s \in Sessions /\ results \in [Sessions -> Seq(ResultRecord)]
      /\ results' = [results EXCEPT ![s] = Append(results[s], row)]
      /\ row.task = t
  BY SessionAssumption DEF PersistCommit, StoreResult, ServiceInv, EventsInv, EventsTypeOK
<1> HIDE DEF row
<1>3. /\ results'[s] = Append(results[s], row) /\ results[s] \in Seq(ResultRecord)
      /\ \A z \in Sessions : z # s => results'[z] = results[z]
  BY <1>2
<1>4. /\ DOMAIN results'[s] = DOMAIN results[s] \cup {Len(results[s]) + 1}
      /\ \A i \in DOMAIN results[s] : results'[s][i] = results[s][i]
      /\ results'[s][Len(results[s]) + 1] = row
      /\ Len(results[s]) + 1 \notin DOMAIN results[s]
  BY <1>3, AppendSelects
<1>5. Rows(t)' = {Len(results[s]) + 1}
  BY <1>1, <1>2, <1>4 DEF Rows
<1>6. Completions(t)' = {Len(log[t]) + 1}
  <2> DEFINE event == [type |-> call[t][c].type, src |-> call[t][c].src]
  <2>1. log'[t] = Append(log[t], event) /\ log[t] \in Seq(EventRecord) /\ event.type = "completed"
    BY <1>c DEF Committed
  <2> HIDE DEF event
  <2>2. /\ DOMAIN log'[t] = DOMAIN log[t] \cup {Len(log[t]) + 1}
        /\ \A i \in DOMAIN log[t] : log'[t][i] = log[t][i]
        /\ log'[t][Len(log[t]) + 1] = event
        /\ Len(log[t]) + 1 \notin DOMAIN log[t]
    BY <2>1, AppendSelects
  <2> QED
    BY <1>1, <2>1, <2>2 DEF Completions
<1>7. Settled(t)'
  <2>1. status'[t] = "completed"
    BY <1>c DEF Terminal, Committed
  <2>2. call'[t]["relay"] = [call[t][c] EXCEPT !.at = "done"] /\ call[t][c] \in CallRecord
    BY <1>0, <1>c DEF Committed
  <2>3. call'[t]["relay"].at = "done"
    BY <2>2 DEF CallRecord
  <2> QED
    BY <2>1, <2>3 DEF Settled, Terminal
<1>8. ASSUME NEW u \in Tasks, u # t
      PROVE  OneResultOf(u)'
  <2>1. Completions(u)' = Completions(u) /\ status'[u] = status[u]
    BY <1>8, <1>c DEF Completions, Committed
  <2>2. Rows(u)' = Rows(u)
    <3>1. SessionOf[u] \in Sessions
      BY SessionAssumption
    <3>2. CASE SessionOf[u] = s
      BY <1>2, <1>4, <1>8, <3>2 DEF Rows
    <3>3. CASE SessionOf[u] # s
      BY <1>3, <3>1, <3>3 DEF Rows
    <3> QED
      BY <3>2, <3>3
  <2>3. Settled(u) => Settled(u)'
    BY CommitSettled
  <2> QED
    BY <2>1, <2>2, <2>3 DEF OneResult, OneResultOf, Single
<1>9. OneResultOf(t)'
  BY <1>5, <1>6, <1>7 DEF OneResultOf, Single
<1> QED
  BY <1>8, <1>9 DEF OneResult

\* Steps that write no event keep what is settled.
LEMMA SettledStays ==
  ASSUME ServiceInv, StepShape
  PROVE  \A u \in Tasks : Settled(u) => Settled(u)'
<1>1. CASE SameRows /\ UNCHANGED call
  BY <1>1 DEF SameRows, Settled
<1>2. ASSUME NEW t \in Tasks, InsertTask(t)
      PROVE  \A u \in Tasks : Settled(u) => Settled(u)'
  BY <1>2 DEF InsertTask, Settled, Terminal, ServiceInv, RowsExist, EventsInv, EventsTypeOK
<1>3. ASSUME NEW t \in Tasks, ClaimTask(t)
      PROVE  \A u \in Tasks : Settled(u) => Settled(u)'
  BY <1>3 DEF ClaimTask, Settled, Terminal, ServiceInv, EventsInv, EventsTypeOK
<1>4. ASSUME NEW t \in Tasks, CallSet(t)
      PROVE  \A u \in Tasks : Settled(u) => Settled(u)'
  <2>1. PICK c \in Caller : \E r : SetCall(t, c, r) /\ r.at \in {"idle", "check", "read"}
    BY <1>4 DEF CallSet
  <2>2. PICK r : SetCall(t, c, r) /\ r.at \in {"idle", "check", "read"}
    BY <2>1
  <2>3. \A u \in Tasks, d \in Caller : call'[u][d] = IF u = t /\ d = c THEN r ELSE call[u][d]
    BY <2>2 DEF SetCall, ServiceInv, EventsInv, EventsTypeOK
  <2>4. "relay" \in Caller /\ status' = status
    BY <1>4 DEF Caller, CallSet, SameRows
  <2> QED
    BY <2>2, <2>3, <2>4 DEF Settled
<1>5. ASSUME NEW t \in Tasks, NEW c \in Caller, CallStepOf(t, c)
      PROVE  \A u \in Tasks : Settled(u) => Settled(u)'
  BY <1>5, UncommittedStep, CommitSettled DEF CallStepOf
<1>6. CASE Crash
  BY <1>6, CallPhases DEF Crash, Settled, dbVars, Caller
<1> QED
  BY <1>1, <1>2, <1>3, <1>4, <1>5, <1>6 DEF StepShape

\* Every step keeps one result per completion.
LEMMA OneResultStep ==
  ASSUME ServiceInv, OneResult, StepShape
  PROVE  OneResult'
<1>1. \A u \in Tasks : Settled(u) => Settled(u)'
  BY SettledStays
<1>2. CASE SameRows \/ \E t \in Tasks : CallSet(t)
  BY <1>1, <1>2, OneResultKept DEF SameRows, CallSet
<1>3. ASSUME NEW t \in Tasks, InsertTask(t) \/ ClaimTask(t)
      PROVE  OneResult'
  <2>1. /\ UNCHANGED <<log, results>>
        /\ \A u \in Tasks : status'[u] = "completed" => status[u] = "completed"
    BY <1>3 DEF InsertTask, ClaimTask, ServiceInv, EventsInv, EventsTypeOK
  <2> QED
    BY <1>1, <2>1, OneResultKept
<1>4. ASSUME NEW t \in Tasks, NEW c \in Caller, CallStepOf(t, c)
      PROVE  OneResult'
  <2>1. CASE PersistCommit(t, c)
    BY <2>1, CommitOther, CommitCompletion
  <2>2. CASE ~PersistCommit(t, c)
    <3>1. SameRows
      BY <1>4, <2>2, UncommittedStep DEF CallStepOf
    <3> QED
      BY <1>1, <3>1, OneResultKept DEF SameRows
  <2> QED
    BY <2>1, <2>2
<1>5. CASE Crash
  BY <1>1, <1>5, OneResultKept DEF Crash, dbVars
<1> QED
  BY <1>2, <1>3, <1>4, <1>5 DEF StepShape

\* No task has ended in the initial states.
LEMMA OneResultInit == Init => OneResult
<1> SUFFICES ASSUME Init, NEW t \in Tasks PROVE OneResultOf(t)
  BY DEF OneResult
<1>1. status[t] = "none" /\ log[t] = << >> /\ results[SessionOf[t]] = << >>
  BY SessionAssumption DEF Init, EventsInit
<1>2. Completions(t) = {} /\ Rows(t) = {}
  BY <1>1 DEF Completions, Rows
<1> QED
  BY <1>1, <1>2 DEF OneResultOf

\* The invariant of every behaviour, with ServiceInv.
LEMMA AlwaysOneResult == Spec => [](ServiceInv /\ OneResult)
<1>1. ServiceInv /\ OneResult /\ [Next]_vars => OneResult'
  BY StepShapes, OneResultStep
<1> QED
  BY <1>1, OneResultInit, ServiceAlwaysInv, PTL DEF Spec

\* A completed task has its result, and no task has two of them, in every
\* interleaving of relays, cancellations, failures and crashes: a completion
\* is stored by the relay only, and settles its task.
THEOREM CompletedTaskHasOneResult == Spec => []CompletedHasOneResult
<1>1. ServiceInv /\ OneResult => CompletedHasOneResult
  <2> SUFFICES ASSUME OneResult, NEW t \in Tasks
               PROVE  /\ status[t] = "completed" => Rows(t) # {}
                      /\ Cardinality(Rows(t)) = Cardinality(Completions(t))
                      /\ Cardinality(Rows(t)) <= 1
    BY DEF CompletedHasOneResult, Rows, Completions
  <2>1. CASE Completions(t) = {} /\ Rows(t) = {}
    BY <2>1, FS_EmptySet DEF OneResult, OneResultOf
  <2>2. CASE Single(Completions(t)) /\ Single(Rows(t))
    <3>1. Cardinality(Rows(t)) = 1 /\ Cardinality(Completions(t)) = 1
      BY <2>2, FS_Singleton DEF Single
    <3> QED
      BY <2>2, <3>1 DEF Single
  <2> QED
    BY <2>1, <2>2 DEF OneResult, OneResultOf
<1> QED
  BY <1>1, AlwaysOneResult, PTL

-----------------------------------------------------------------------------
(* The limit on active tasks.                                              *)

Unended == {t \in ActiveTasks : NeverEnded(t)}

\* A task that has ended has an event that says so: if task.accepted makes it
\* running again, it is still one that has ended.
EndingsStored == \A t \in Tasks : status[t] \in Terminal => ~NeverEnded(t)

\* One request at a time is between its count and its insertion, and what it
\* counted is still below the limit.
CountInv ==
  /\ IsFiniteSet(ActiveTasks)
  /\ Cardinality(Unended) <= Limit
  /\ \A t \in Tasks : enq[t] = "insert" => createLock = t /\ Cardinality(Unended) < Limit

LimitInv == EndingsStored /\ CountInv

\* No task becomes active without InsertTask, except one that has ended.
NoneAdded ==
  /\ EndingsStored'
  /\ IsFiniteSet(ActiveTasks')
  /\ Unended' \subseteq Unended

\* A step that writes neither status nor events.
LEMMA RowsNoneAdded ==
  ASSUME LimitInv, UNCHANGED <<status, log>>
  PROVE  NoneAdded
<1>1. ActiveTasks' = ActiveTasks /\ Unended' = Unended /\ EndingsStored'
  BY DEF ActiveTasks, Unended, NeverEnded, LimitInv, EndingsStored
<1> QED
  BY <1>1 DEF NoneAdded, LimitInv, CountInv

\* An event that is added to the log of a task ends it or changes nothing.
LEMMA CommitEnds ==
  ASSUME NEW events \in Seq(EventRecord), NEW row
  PROVE  LET after == Append(events, row)
         IN  (\A i \in DOMAIN after : after[i].type \notin Terminal)
             <=> /\ \A i \in DOMAIN events : events[i].type \notin Terminal
                 /\ row.type \notin Terminal
<1> DEFINE after == Append(events, row)
<1>1. /\ DOMAIN after = DOMAIN events \cup {Len(events) + 1}
      /\ \A i \in DOMAIN events : after[i] = events[i]
      /\ after[Len(events) + 1] = row
  BY AppendSelects
<1> HIDE DEF after
<1>2. (\A i \in DOMAIN after : after[i].type \notin Terminal)
      <=> /\ \A i \in DOMAIN events : events[i].type \notin Terminal
          /\ row.type \notin Terminal
  BY <1>1
<1> QED
  BY <1>2 DEF after

\* A commit makes no task active that has never ended and was not before.
LEMMA CommitNoneAdded ==
  ASSUME ServiceInv, LimitInv, NEW t \in Tasks, NEW c \in Caller, PersistCommit(t, c)
  PROVE  NoneAdded
<1> DEFINE row == [type |-> call[t][c].type, src |-> call[t][c].src]
<1>c. Committed(t, c)
  BY CommitRows
<1>1. \A u \in Tasks : u # t => NeverEnded(u)' = NeverEnded(u) /\ status'[u] = status[u]
  BY <1>c DEF Committed, NeverEnded
<1>2. NeverEnded(t)' <=> NeverEnded(t) /\ call[t][c].type \notin Terminal
  <2>1. log'[t] = Append(log[t], row) /\ log[t] \in Seq(EventRecord)
        /\ row.type = call[t][c].type
    BY <1>c DEF Committed
  <2> HIDE DEF row
  <2>2. (\A i \in DOMAIN log'[t] : log'[t][i].type \notin Terminal)
        <=> /\ \A i \in DOMAIN log[t] : log[t][i].type \notin Terminal
            /\ row.type \notin Terminal
    BY <2>1, CommitEnds
  <2> QED
    BY <2>1, <2>2 DEF NeverEnded
<1>3. status[t] \in TaskStatus /\ status[t] # "none" /\ status'[t] \in TaskStatus
  <2>1. status[t] \in TaskStatus /\ status[t] # "none"
    BY <1>c DEF Committed, ServiceInv, RowsExist, EventsInv, EventsTypeOK
  <2> QED
    BY <1>c, <2>1 DEF Committed, CallRecord, EventType, TaskStatus, Active
<1>4. call[t][c].type \in EventType
  BY <1>c DEF Committed, CallRecord
<1>5. EndingsStored'
  <2> SUFFICES ASSUME NEW u \in Tasks, status'[u] \in Terminal PROVE ~NeverEnded(u)'
    BY DEF EndingsStored
  <2>1. CASE u # t
    BY <1>1, <2>1 DEF LimitInv, EndingsStored
  <2>2. CASE u = t
    BY <1>c, <1>2, <1>4, <2>2 DEF Committed, EventType, Terminal, LimitInv, EndingsStored
  <2> QED
    BY <2>1, <2>2
<1>6. ActiveTasks' \subseteq ActiveTasks \cup {t}
  BY <1>1 DEF ActiveTasks
<1>7. IsFiniteSet(ActiveTasks')
  <2>1. IsFiniteSet(ActiveTasks \cup {t})
    BY FS_AddElement DEF LimitInv, CountInv
  <2> QED
    BY <1>6, <2>1, FS_Subset
<1>8. Unended' \subseteq Unended
  <2> SUFFICES ASSUME NEW u \in Tasks, status'[u] \in Active, NeverEnded(u)'
               PROVE  status[u] \in Active /\ NeverEnded(u)
    BY DEF Unended, ActiveTasks
  <2>1. CASE u # t
    BY <1>1, <2>1
  <2>2. CASE u = t
    <3>1. NeverEnded(t)
      BY <1>2, <2>2
    <3> QED
      BY <1>3, <2>2, <3>1 DEF LimitInv, EndingsStored, TaskStatus
  <2> QED
    BY <2>1, <2>2
<1> QED
  BY <1>5, <1>7, <1>8 DEF NoneAdded

\* Of the shapes of a step only an insertion adds an active task.
LEMMA ShapeNoneAdded ==
  ASSUME ServiceInv, LimitInv, StepShape, ~\E t \in Tasks : InsertTask(t)
  PROVE  NoneAdded
<1>1. CASE SameRows \/ \E t \in Tasks : CallSet(t)
  BY <1>1, RowsNoneAdded DEF SameRows, CallSet
<1>2. ASSUME NEW t \in Tasks, ClaimTask(t) PROVE NoneAdded
  <2>1. UNCHANGED log
    BY <1>2 DEF ClaimTask
  <2>2. \A u \in Tasks : /\ status'[u] \in Active => status[u] \in Active
                         /\ status'[u] \in Terminal => status[u] \in Terminal
    BY <1>2 DEF ClaimTask, Active, Terminal, ServiceInv, EventsInv, EventsTypeOK
  <2>3. ActiveTasks' \subseteq ActiveTasks
    BY <2>2 DEF ActiveTasks
  <2>4. IsFiniteSet(ActiveTasks')
    BY <2>3, FS_Subset DEF LimitInv, CountInv
  <2>5. EndingsStored' /\ Unended' \subseteq Unended
    BY <2>1, <2>2 DEF EndingsStored, NeverEnded, LimitInv, Unended, ActiveTasks
  <2> QED
    BY <2>4, <2>5 DEF NoneAdded
<1>3. ASSUME NEW t \in Tasks, NEW c \in Caller, CallStepOf(t, c) PROVE NoneAdded
  BY <1>3, UncommittedStep, CommitNoneAdded, RowsNoneAdded DEF CallStepOf, SameRows
<1>4. CASE Crash
  BY <1>4, RowsNoneAdded DEF Crash, dbVars
<1> QED
  BY <1>1, <1>2, <1>3, <1>4 DEF StepShape

\* Who holds the lock tasks:<user> keeps it until its task is inserted.
LockKept ==
  \A u \in Tasks : enq'[u] = "insert" => enq[u] = "insert" /\ createLock' = createLock

\* The lock of enqueueTask while the handlers work.
LEMMA HandlerLock ==
  ASSUME ServiceInv, LimitInv, NEW t \in Tasks,
         \/ EnqueueStep(t) /\ ~InsertTask(t)
         \/ WorkerStep(t) \/ RelayWorks(t) \/ CancelRead(t) \/ CancelStep(t)
         \/ AdapterStep(t) \/ FaultStep(t)
  PROVE  LockKept
<1>1. CASE CreateFails(t)
  <2>1. \A u \in Tasks : enq'[u] = IF u = t THEN "idle" ELSE enq[u]
    BY <1>1 DEF CreateFails, Go, ServiceInv, ProcessTypeOK
  <2>2. \A u \in Tasks : enq[u] = "insert" => u = t
    BY <1>1 DEF CreateFails, LimitInv, CountInv
  <2> QED
    BY <2>1, <2>2 DEF LockKept
<1>2. CASE AddJob(t) \/ LinkJob(t) \/ EnqueueReturns(t) \/ EnqueueFails(t) \/ StoreFails(t)
  <2>1. \/ enq' = enq
        \/ \E step \in {"idle", "link", "failing"} : enq' = Go(enq, t, step)
    BY <1>2 DEF AddJob, LinkJob, EnqueueReturns, EnqueueFails, StoreFails
  <2>2. createLock' = createLock
    BY <1>2 DEF AddJob, LinkJob, EnqueueReturns, EnqueueFails, StoreFails
  <2> QED
    BY <2>1, <2>2 DEF Go, LockKept, ServiceInv, ProcessTypeOK
<1>3. CASE UNCHANGED <<enq, createLock>>
  BY <1>3 DEF LockKept
<1>4. CASE WorkerStep(t)
  BY <1>3, <1>4 DEF WorkerStep, PickJob, ProcessJob, ExecuteAccepted, ClaimTask, UndoRun,
                    MarkSession, FinalFailureReturns, processVars
<1>5. CASE RelayWorks(t)
  BY <1>3, <1>5 DEF RelayWorks, OpenStream, ReceiveChunk, SavedEvent, GiveUp, RelayFailed
<1>6. CASE CancelRead(t) \/ CancelStep(t) \/ AdapterStep(t)
  BY <1>3, <1>6 DEF CancelRead, CancelStep, CancelQueued, CancelRunning, CancelReturns,
                    AdapterStep, processVars
<1>7. CASE FaultStep(t) /\ ~CreateFails(t) /\ ~EnqueueFails(t) /\ ~StoreFails(t)
  BY <1>3, <1>7 DEF FaultStep, ExecuteRefused, ExecuteReplyLost, MarkSessionFails,
                    StreamBreaks, SaveFails, TimerFires
<1> QED
  BY <1>1, <1>2, <1>4, <1>5, <1>6, <1>7 DEF EnqueueStep, FaultStep

\* It is kept by the procedures and the boot too, and a crash frees it.
LEMMA OtherLock ==
  ASSUME ServiceInv, BootStep \/ Crash \/ UNCHANGED vars \/ \E t \in Tasks : StoreStep(t)
  PROVE  LockKept
<1>1. CASE UNCHANGED <<enq, createLock>>
  BY <1>1 DEF LockKept
<1>2. CASE BootStep
  BY <1>1, <1>2 DEF BootStep, BootStart, BootScan, BootDone, BootRequeue, BootResume,
                    BootExpire, BootExpired, processVars
<1>3. CASE Crash
  BY <1>3 DEF Crash, LockKept
<1>4. CASE UNCHANGED vars \/ \E t \in Tasks : StoreStep(t)
  BY <1>1, <1>4 DEF vars, StoreStep, processVars
<1> QED
  BY <1>2, <1>3, <1>4

\* A smaller set of unended tasks is still within the limit.
LEMMA CountKept ==
  ASSUME LimitInv, NoneAdded
  PROVE  /\ Cardinality(Unended') \in Nat /\ Cardinality(Unended) \in Nat
         /\ Cardinality(Unended') <= Cardinality(Unended)
<1>1. IsFiniteSet(Unended)
  BY FS_Subset DEF LimitInv, CountInv, Unended
<1>2. IsFiniteSet(Unended') /\ Cardinality(Unended') <= Cardinality(Unended)
  BY <1>1, FS_Subset DEF NoneAdded
<1> QED
  BY <1>1, <1>2, FS_CardinalityType

\* The invariant of the limit is inductive.
LEMMA LimitStep ==
  ASSUME ServiceInv, LimitInv, [Next]_vars
  PROVE  LimitInv'
<1> USE LimitAssumption
<1>1. ASSUME NEW t \in Tasks, CountActive(t)
      PROVE  LimitInv'
  <2>1. NoneAdded
    BY <1>1, RowsNoneAdded DEF CountActive, dbVars
  <2>2. IsFiniteSet(ActiveTasks) /\ Unended \subseteq ActiveTasks
    BY DEF LimitInv, CountInv, Unended
  <2>3. Cardinality(Unended) <= Cardinality(ActiveTasks) /\ Cardinality(ActiveTasks) \in Nat
    BY <2>2, FS_Subset, FS_CardinalityType
  <2>4. Cardinality(Unended') < Limit
    BY <1>1, <2>1, <2>3, CountKept DEF CountActive
  <2>5. \A u \in Tasks : enq[u] # "insert"
    BY <1>1, NoTaskAssumption DEF CountActive, LimitInv, CountInv
  <2>6. createLock' = t /\ \A u \in Tasks : u # t => enq'[u] = enq[u]
    BY <1>1 DEF CountActive, Go, ServiceInv, ProcessTypeOK
  <2> QED
    BY <2>1, <2>4, <2>5, <2>6, CountKept DEF NoneAdded, LimitInv, CountInv
<1>2. ASSUME NEW t \in Tasks, InsertTask(t)
      PROVE  LimitInv'
  <2>1. \A u \in Tasks : enq[u] = "insert" => u = t
    BY <1>2 DEF InsertTask, LimitInv, CountInv
  <2>2. \A u \in Tasks : enq'[u] # "insert"
    BY <1>2, <2>1 DEF InsertTask, Go, ServiceInv, ProcessTypeOK
  <2>3. UNCHANGED log /\ \A u \in Tasks : status'[u] = IF u = t THEN "queued" ELSE status[u]
    BY <1>2 DEF InsertTask, ServiceInv, EventsInv, EventsTypeOK
  <2>4. ActiveTasks' \subseteq ActiveTasks \cup {t} /\ Unended' \subseteq Unended \cup {t}
    BY <2>3 DEF ActiveTasks, Unended, NeverEnded
  <2>5. EndingsStored'
    BY <2>3 DEF LimitInv, EndingsStored, NeverEnded, Terminal
  <2>6. IsFiniteSet(ActiveTasks') /\ IsFiniteSet(Unended)
    <3>1. IsFiniteSet(ActiveTasks \cup {t})
      BY FS_AddElement DEF LimitInv, CountInv
    <3>2. IsFiniteSet(ActiveTasks')
      BY <2>4, <3>1, FS_Subset
    <3>3. Unended \subseteq ActiveTasks
      BY DEF Unended
    <3> QED
      BY <3>2, <3>3, FS_Subset DEF LimitInv, CountInv
  <2>7. Cardinality(Unended') <= Limit
    <3>1. /\ IsFiniteSet(Unended \cup {t})
          /\ Cardinality(Unended \cup {t}) <= Cardinality(Unended) + 1
          /\ Cardinality(Unended) \in Nat
      <4>1. Cardinality(Unended) \in Nat
        BY <2>6, FS_CardinalityType
      <4>2. /\ IsFiniteSet(Unended \cup {t})
            /\ Cardinality(Unended \cup {t}) =
                 IF t \in Unended THEN Cardinality(Unended) ELSE Cardinality(Unended) + 1
        BY <2>6, FS_AddElement
      <4> QED
        BY <4>1, <4>2
    <3>2. Cardinality(Unended') <= Cardinality(Unended \cup {t}) /\ IsFiniteSet(Unended')
      BY <2>4, <3>1, FS_Subset
    <3>3. Cardinality(Unended') \in Nat /\ Cardinality(Unended \cup {t}) \in Nat
      BY <3>1, <3>2, FS_CardinalityType
    <3>4. Cardinality(Unended) < Limit
      BY <1>2 DEF InsertTask, LimitInv, CountInv
    <3> QED
      BY <3>1, <3>2, <3>3, <3>4
  <2> QED
    BY <2>2, <2>5, <2>6, <2>7 DEF LimitInv, CountInv
<1>3. CASE ~\E t \in Tasks : CountActive(t) \/ InsertTask(t)
  <2>1. NoneAdded
    BY <1>3, StepShapes, ShapeNoneAdded
  <2>2. LockKept
    BY <1>3, HandlerLock, OtherLock DEF Next
  <2>3. /\ Cardinality(Unended') \in Nat /\ Cardinality(Unended) \in Nat
        /\ Cardinality(Unended') <= Cardinality(Unended)
    BY <2>1, CountKept
  <2> QED
    BY <2>1, <2>2, <2>3 DEF NoneAdded, LockKept, LimitInv, CountInv
<1> QED
  BY <1>1, <1>2, <1>3

\* At first no task is active.
LEMMA LimitInit == Init => LimitInv
<1> SUFFICES ASSUME Init PROVE LimitInv
  OBVIOUS
<1>1. ActiveTasks = {} /\ Unended = {} /\ EndingsStored
  BY DEF Init, EventsInit, ActiveTasks, Active, Unended, EndingsStored, Terminal
<1>2. \A t \in Tasks : enq[t] # "insert"
  BY DEF Init
<1> QED
  BY <1>1, <1>2, FS_EmptySet, LimitAssumption DEF LimitInv, CountInv

\* However many requests create tasks at once, at most Limit tasks that have
\* never ended are active: enqueueTask counts under the user's lock and keeps
\* it until its row is there, and no other step adds to what was counted.
THEOREM LimitIsKept == Spec => []UnendedWithinLimit
<1>1. ServiceInv /\ LimitInv /\ [Next]_vars => LimitInv'
  BY LimitStep
<1>2. LimitInv => UnendedWithinLimit
  BY DEF LimitInv, CountInv, Unended, UnendedWithinLimit
<1> QED
  BY <1>1, <1>2, LimitInit, ServiceAlwaysInv, PTL DEF Spec

-----------------------------------------------------------------------------
(* The relayed events are the published ones, in order.                    *)

\* How many events of the adapter are stored.
Stored(t) == Cardinality(Relayed(t))

\* The nth relayed row is the nth published event, and none is missing.
PrefixOf(t) ==
  /\ IsFiniteSet(Relayed(t))
  /\ Stored(t) <= Len(stream[t])
  /\ \A i \in Relayed(t) :
       /\ log[t][i].src = Cardinality({j \in Relayed(t) : j <= i})
       /\ log[t][i].src \in 1 .. Stored(t)
       /\ log[t][i].type = stream[t][log[t][i].src]
  /\ \A i, j \in Relayed(t) : i < j => log[t][i].src < log[t][j].src
  /\ \A id \in 1 .. Stored(t) : \E i \in Relayed(t) : log[t][i].src = id

\* Where a relay is and what its call is go together.
CallOfRelay(t) ==
  LET r == relay[t]
      e == call[t]["relay"]
  IN  /\ r.at \in {"off", "open", "reading", "giveUp"} => e.at = "idle"
      /\ r.at = "failing" => e.at # "idle" /\ e.type = "failed" /\ e.src = 0
      /\ r.at = "saving" => /\ e.at \in {"read", "lock", "commit", "done"}
                            /\ e.src = r.pos + 1
                            /\ r.pos < r.chunk
                            /\ e.type = stream[t][r.pos + 1]

\* Unless the task is settled, the relay's position is what is stored: nothing
\* but the relay stores events of the stream, and it drops none.
PositionOf(t) ==
  LET r == relay[t]
      e == call[t]["relay"]
  IN  ~Settled(t) =>
        /\ r.at = "reading" => r.pos = Stored(t)
        /\ r.at = "saving"  => r.pos = IF e.at = "done" THEN Stored(t) - 1 ELSE Stored(t)

\* A dispatched task exists.
UrlOfTask(t) == hasUrl[t] => status[t] # "none"

RelayOK(t) == PrefixOf(t) /\ CallOfRelay(t) /\ PositionOf(t) /\ UrlOfTask(t)

RelayInv == \A t \in Tasks : RelayOK(t)

\* Streams are only added to.
StreamKept(t) ==
  /\ Len(stream[t]) \in Nat /\ Len(stream'[t]) \in Nat
  /\ Len(stream[t]) <= Len(stream'[t])
  /\ \A id \in 1 .. Len(stream[t]) : stream'[t][id] = stream[t][id]

\* Publishing keeps what was published.
LEMMA PublishKeeps ==
  ASSUME AdapterTypeOK, NEW t \in Tasks, NEW type, Publish(t, type)
  PROVE  \A u \in Tasks : StreamKept(u)
<1> SUFFICES ASSUME NEW u \in Tasks PROVE StreamKept(u)
  OBVIOUS
<1>1. stream \in [Tasks -> Seq(EventType)] /\ stream[u] \in Seq(EventType)
  BY DEF AdapterTypeOK
<1>2. stream'[u] = IF u = t THEN Append(stream[u], type) ELSE stream[u]
  BY <1>1 DEF Publish
<1>3. /\ Len(stream[u]) \in Nat
      /\ Len(Append(stream[u], type)) = Len(stream[u]) + 1
      /\ \A id \in 1 .. Len(stream[u]) : Append(stream[u], type)[id] = stream[u][id]
  BY <1>1
<1> QED
  BY <1>2, <1>3 DEF StreamKept

\* Every step publishes one event, or none.
LEMMA StepPublishes ==
  ASSUME ServiceInv, [Next]_vars
  PROVE  UNCHANGED stream \/ \E t \in Tasks, type \in EventType : Publish(t, type)
<1> USE DEF adapterVars
<1>1. ASSUME NEW t \in Tasks, AcceptRun(t) \/ AbortRun(t) \/ ProduceDelta(t) \/ EndRun(t)
      PROVE  \E type \in EventType : Publish(t, type)
  BY <1>1 DEF AcceptRun, AbortRun, ProduceDelta, EndRun, EventType, Terminal
<1>2. ASSUME NEW t \in Tasks, CancelBestEffort(t)
      PROVE  UNCHANGED stream \/ AbortRun(t)
  BY <1>2 DEF CancelBestEffort
<1>3. ASSUME NEW t \in Tasks,
             CountActive(t) \/ EnqueueStep(t) \/ WorkerStep(t) \/ RelayWorks(t)
      PROVE  UNCHANGED stream \/ AcceptRun(t) \/ AbortRun(t)
  BY <1>2, <1>3
     DEF CountActive, EnqueueStep, InsertTask, AddJob, LinkJob, EnqueueReturns,
         WorkerStep, PickJob, ProcessJob, ExecuteAccepted, ClaimTask, UndoRun, MarkSession,
         FinalFailureReturns, RelayWorks, OpenStream, ReceiveChunk, SavedEvent, GiveUp,
         RelayFailed
<1>4. ASSUME NEW t \in Tasks,
             CancelRead(t) \/ CancelStep(t) \/ StoreStep(t) \/ FaultStep(t)
      PROVE  UNCHANGED stream \/ AcceptRun(t) \/ AbortRun(t)
  BY <1>4
     DEF CancelRead, CancelStep, CancelQueued, CancelRunning, CancelReturns, StoreStep,
         FaultStep, CreateFails, EnqueueFails, StoreFails, ExecuteRefused, ExecuteReplyLost,
         MarkSessionFails, StreamBreaks, SaveFails, TimerFires
<1>5. CASE BootStep
  <2>1. ASSUME NEW t \in Tasks, BootExpire(t)
        PROVE  UNCHANGED stream \/ AbortRun(t)
    BY <1>2, <2>1 DEF BootExpire
  <2>2. ASSUME NEW t \in Tasks, BootRequeue(t) \/ BootResume(t) \/ BootExpired(t)
        PROVE  UNCHANGED stream
    BY <2>2 DEF BootRequeue, BootResume, BootExpired
  <2>3. CASE BootStart \/ BootScan \/ BootDone
    BY <2>3 DEF BootStart, BootScan, BootDone
  <2> QED
    BY <1>1, <1>5, <2>1, <2>2, <2>3 DEF BootStep
<1>6. CASE Crash \/ UNCHANGED vars
  BY <1>6 DEF Crash, vars
<1> QED
  BY <1>1, <1>3, <1>4, <1>5, <1>6 DEF Next, AdapterStep

\* Every step keeps what was published.
LEMMA StreamsKept ==
  ASSUME ServiceInv, [Next]_vars
  PROVE  \A u \in Tasks : StreamKept(u)
<1>1. CASE UNCHANGED stream
  BY <1>1 DEF StreamKept, ServiceInv, AdapterTypeOK
<1>2. ASSUME NEW t \in Tasks, NEW type \in EventType, Publish(t, type)
      PROVE  \A u \in Tasks : StreamKept(u)
  BY <1>2, PublishKeeps DEF ServiceInv
<1> QED
  BY <1>1, <1>2, StepPublishes

\* The log as its relayed rows see it: nothing, or a row of the API's own.
LogKept(t) ==
  /\ Relayed(t)' = Relayed(t)
  /\ \A i \in Relayed(t) : log'[t][i] = log[t][i]

\* The relayed rows and the stream they are a prefix of, when no relayed row is added.
LEMMA PrefixKept ==
  ASSUME NEW t \in Tasks, PrefixOf(t), StreamKept(t), LogKept(t)
  PROVE  PrefixOf(t)' /\ Stored(t)' = Stored(t)
<1>1. Relayed(t)' = Relayed(t) /\ Stored(t)' = Stored(t)
  BY DEF LogKept, Stored
<1>2. Stored(t) \in Nat /\ Stored(t) <= Len(stream'[t])
  BY FS_CardinalityType DEF PrefixOf, Stored, StreamKept
<1>3. \A i \in Relayed(t) : log'[t][i] = log[t][i]
  BY DEF LogKept
<1>4. \A id \in 1 .. Stored(t) : stream'[t][id] = stream[t][id]
  BY <1>2 DEF PrefixOf, StreamKept
<1>5. ASSUME NEW i \in Relayed(t)
      PROVE  /\ log'[t][i].src = Cardinality({j \in Relayed(t) : j <= i})
             /\ log'[t][i].src \in 1 .. Stored(t)
             /\ log'[t][i].type = stream'[t][log'[t][i].src]
  <2>1. log'[t][i] = log[t][i]
    BY <1>3
  <2>2. log[t][i].src \in 1 .. Stored(t) /\ log[t][i].type = stream[t][log[t][i].src]
    BY DEF PrefixOf
  <2>3. stream'[t][log[t][i].src] = stream[t][log[t][i].src]
    BY <1>4, <2>2
  <2> QED
    BY <2>1, <2>2, <2>3 DEF PrefixOf
<1>6. /\ \A i, j \in Relayed(t) : i < j => log'[t][i].src < log'[t][j].src
      /\ \A id \in 1 .. Stored(t) : \E i \in Relayed(t) : log'[t][i].src = id
  BY <1>3 DEF PrefixOf
<1>7. IsFiniteSet(Relayed(t))
  BY DEF PrefixOf
<1> HIDE DEF LogKept
<1> QED
  BY <1>1, <1>2, <1>5, <1>6, <1>7 DEF PrefixOf

\* A log that stays, or gets a row of the API's own, keeps its relayed rows.
LEMMA LogIsKept ==
  ASSUME NEW t \in Tasks, NEW row, log[t] \in Seq(EventRecord),
         \/ log'[t] = log[t]
         \/ log'[t] = Append(log[t], row) /\ row.src = 0
  PROVE  LogKept(t)
<1>1. CASE log'[t] = log[t]
  BY <1>1 DEF LogKept, Relayed
<1>2. CASE log'[t] = Append(log[t], row) /\ row.src = 0
  <2>1. /\ DOMAIN log'[t] = DOMAIN log[t] \cup {Len(log[t]) + 1}
        /\ \A i \in DOMAIN log[t] : log'[t][i] = log[t][i]
        /\ log'[t][Len(log[t]) + 1] = row
        /\ Len(log[t]) + 1 \notin DOMAIN log[t]
    BY <1>2, AppendSelects
  <2>2. ~(row.src > 0)
    BY <1>2
  <2>3. \A i \in DOMAIN log[t] : log'[t][i].src = log[t][i].src
    BY <2>1
  <2>4. Relayed(t)' = {i \in DOMAIN log'[t] : log'[t][i].src > 0}
    BY DEF Relayed
  <2>5. Relayed(t)' = Relayed(t)
    BY <2>1, <2>2, <2>3, <2>4 DEF Relayed
  <2> QED
    BY <2>1, <2>5 DEF LogKept, Relayed
<1> QED
  BY <1>1, <1>2

\* Storing the next published event.
LEMMA PrefixGrows ==
  ASSUME NEW t \in Tasks, PrefixOf(t), StreamKept(t), log[t] \in Seq(EventRecord), NEW row,
         log'[t] = Append(log[t], row), row.src = Stored(t) + 1,
         Stored(t) < Len(stream[t]), row.type = stream[t][Stored(t) + 1]
  PROVE  PrefixOf(t)' /\ Stored(t)' = Stored(t) + 1
<1> DEFINE last == Len(log[t]) + 1
           N    == Stored(t)
           R    == Relayed(t)
<1>0. N \in Nat /\ last \in Nat /\ IsFiniteSet(R)
  BY FS_CardinalityType DEF PrefixOf, Stored
<1>1. /\ DOMAIN log'[t] = DOMAIN log[t] \cup {last}
      /\ \A i \in DOMAIN log[t] : log'[t][i] = log[t][i]
      /\ log'[t][last] = row
      /\ last \notin DOMAIN log[t]
  BY AppendSelects
<1>2. R \subseteq 1 .. Len(log[t]) /\ Len(log[t]) \in Nat
  BY DEF Relayed
<1>3. Relayed(t)' = R \cup {last}
  <2>1. row.src > 0
    BY <1>0
  <2>2. \A i \in DOMAIN log[t] : log'[t][i].src = log[t][i].src
    BY <1>1
  <2>3. Relayed(t)' = {i \in DOMAIN log'[t] : log'[t][i].src > 0}
    BY DEF Relayed
  <2> QED
    BY <1>1, <2>1, <2>2, <2>3 DEF Relayed
<1>4. \A i \in R : i < last /\ i \in Nat /\ log'[t][i] = log[t][i]
  BY <1>1, <1>2
<1>5. last \notin R
  BY <1>4, <1>0
<1>6. Stored(t)' = N + 1 /\ IsFiniteSet(Relayed(t)')
  <2>1. IsFiniteSet(R \cup {last}) /\ Cardinality(R \cup {last}) = Cardinality(R) + 1
    BY <1>0, <1>5, FS_AddElement
  <2>2. N = Cardinality(R) /\ Stored(t)' = Cardinality(Relayed(t)')
    BY DEF Stored
  <2> QED
    BY <1>3, <2>1, <2>2
<1>7. /\ \A i \in R : {j \in R \cup {last} : j <= i} = {j \in R : j <= i}
      /\ {j \in R \cup {last} : j <= last} = R \cup {last}
  BY <1>0, <1>4
<1>8. /\ Len(stream'[t]) \in Nat /\ N + 1 <= Len(stream'[t])
      /\ \A id \in 1 .. N + 1 : stream'[t][id] = stream[t][id]
  BY <1>0 DEF StreamKept
<1>9. \A i \in R : /\ log'[t][i].src = Cardinality({j \in R : j <= i})
                   /\ log'[t][i].src \in 1 .. N
                   /\ log'[t][i].type = stream[t][log'[t][i].src]
  BY <1>4 DEF PrefixOf
<1>10. /\ log'[t][last].src = N + 1
       /\ log'[t][last].type = stream[t][N + 1]
       /\ Cardinality(R \cup {last}) = N + 1
  BY <1>1, <1>3, <1>6 DEF Stored
<1>11. \A i, j \in R : i < j => log'[t][i].src < log'[t][j].src
  BY <1>4 DEF PrefixOf
<1>12. \A id \in 1 .. N : \E i \in R : log'[t][i].src = id
  BY <1>4 DEF PrefixOf
<1> HIDE DEF N, R, last
<1>13. \A i \in R \cup {last} :
         /\ log'[t][i].src = Cardinality({j \in R \cup {last} : j <= i})
         /\ log'[t][i].src \in 1 .. N + 1
         /\ log'[t][i].type = stream'[t][log'[t][i].src]
  <2>1. ASSUME NEW i \in R
        PROVE  /\ log'[t][i].src = Cardinality({j \in R \cup {last} : j <= i})
               /\ log'[t][i].src \in 1 .. N + 1
               /\ log'[t][i].type = stream'[t][log'[t][i].src]
    <3> DEFINE src == log'[t][i].src
    <3>1. src \in 1 .. N /\ log'[t][i].type = stream[t][src]
      BY <1>9
    <3>2. src = Cardinality({j \in R \cup {last} : j <= i})
      BY <1>7, <1>9
    <3> HIDE DEF src
    <3>3. src \in 1 .. N + 1
      BY <1>0, <3>1
    <3>4. stream'[t][src] = stream[t][src]
      BY <1>8, <3>3
    <3> QED
      BY <3>1, <3>2, <3>3, <3>4 DEF src
  <2>2. /\ log'[t][last].src = Cardinality({j \in R \cup {last} : j <= last})
        /\ log'[t][last].src \in 1 .. N + 1
        /\ log'[t][last].type = stream'[t][log'[t][last].src]
    <3>1. N + 1 \in 1 .. N + 1
      BY <1>0
    <3>2. stream'[t][N + 1] = stream[t][N + 1]
      BY <1>8, <3>1
    <3>3. Cardinality({j \in R \cup {last} : j <= last}) = N + 1
      BY <1>7, <1>10
    <3> QED
      BY <1>10, <3>1, <3>2, <3>3
  <2> QED
    BY <2>1, <2>2
<1>14. \A i, j \in R \cup {last} : i < j => log'[t][i].src < log'[t][j].src
  <2> SUFFICES ASSUME NEW i \in R \cup {last}, NEW j \in R \cup {last}, i < j
               PROVE  log'[t][i].src < log'[t][j].src
    OBVIOUS
  <2>1. i \in R
    BY <1>0, <1>4
  <2>2. CASE j \in R
    BY <1>11, <2>1, <2>2
  <2>3. CASE j = last
    <3> DEFINE src == log'[t][i].src
    <3>1. src \in 1 .. N
      BY <1>9, <2>1
    <3> HIDE DEF src
    <3>2. src < N + 1
      BY <1>0, <3>1
    <3> QED
      BY <1>10, <2>3, <3>2 DEF src
  <2> QED
    BY <2>2, <2>3
<1>15. \A id \in 1 .. N + 1 : \E i \in R \cup {last} : log'[t][i].src = id
  <2> SUFFICES ASSUME NEW id \in 1 .. N + 1
               PROVE  \E i \in R \cup {last} : log'[t][i].src = id
    OBVIOUS
  <2>1. id = N + 1 \/ id \in 1 .. N
    BY <1>0
  <2> QED
    BY <1>10, <1>12, <2>1
<1>16. PrefixOf(t)'
  <2> DEFINE M == N + 1
             Q == R \cup {last}
  <2>1. Relayed(t)' = Q /\ Stored(t)' = M /\ IsFiniteSet(Q)
    BY <1>3, <1>6
  <2>2. M <= Len(stream'[t])
    BY <1>8
  <2>3. /\ \A i \in Q : /\ log'[t][i].src = Cardinality({j \in Q : j <= i})
                        /\ log'[t][i].src \in 1 .. M
                        /\ log'[t][i].type = stream'[t][log'[t][i].src]
        /\ \A i, j \in Q : i < j => log'[t][i].src < log'[t][j].src
        /\ \A id \in 1 .. M : \E i \in Q : log'[t][i].src = id
    BY <1>13, <1>14, <1>15
  <2> HIDE DEF M, Q
  <2> QED
    BY ONLY <2>1, <2>2, <2>3 DEF PrefixOf
<1> QED
  BY <1>6, <1>16 DEF N

\* A relay that connects asks for what comes after the stored events.
LEMMA LastSourceIsStored ==
  ASSUME ServiceInv, NEW t \in Tasks, PrefixOf(t)
  PROVE  LastSource(t) = Stored(t)
<1> DEFINE last == SelectLastInSeq(log[t], LAMBDA e : e.src > 0)
           R    == Relayed(t)
<1>1. log[t] \in Seq(EventRecord) /\ Len(log[t]) \in Nat
  BY DEF ServiceInv, EventsInv, EventsTypeOK
<1>2. R = {i \in 1 .. Len(log[t]) : log[t][i].src > 0}
  BY <1>1 DEF Relayed
<1>3. last = IF R # {} THEN Max(R) ELSE 0
  BY <1>2 DEF SelectLastInSeq
<1>4. LastSource(t) = IF last = 0 THEN 0 ELSE log[t][last].src
  BY DEF LastSource
<1> HIDE DEF last
<1>5. CASE R = {}
  BY <1>3, <1>4, <1>5, FS_EmptySet DEF Stored
<1>6. CASE R # {}
  <2>1. last \in R
    BY <1>1, <1>2, <1>3, <1>6, LastPosition
  <2>2. last # 0 /\ last \in Nat
    BY <1>2, <2>1
  <2>3. LastSource(t) = log[t][last].src
    BY <1>4, <2>2
  <2>4. \A i \in R : log[t][i].src <= log[t][last].src
    <3> SUFFICES ASSUME NEW i \in R PROVE log[t][i].src <= log[t][last].src
      OBVIOUS
    <3>0. /\ Stored(t) \in Nat
          /\ log[t][i].src \in 1 .. Stored(t)
          /\ log[t][last].src \in 1 .. Stored(t)
      BY <2>1, FS_CardinalityType DEF PrefixOf, Stored
    <3>1. i \in Nat /\ log[t][i].src \in Nat /\ log[t][last].src \in Nat
      BY <1>2, <3>0
    <3>2. ~(last < i)
      <4>1. R \subseteq 1 .. Len(log[t])
        BY <1>2
      <4>2. \A k \in R : last >= k
        BY <1>1, <1>3, <1>6, <4>1, LastPosition
      <4> QED
        BY <2>2, <3>1, <4>2
    <3>3. i = last \/ i < last
      BY <2>2, <3>1, <3>2
    <3> QED
      BY <2>1, <3>1, <3>3 DEF PrefixOf
  <2>5. Stored(t) \in Nat /\ log[t][last].src \in 1 .. Stored(t)
    BY <2>1, FS_CardinalityType DEF PrefixOf, Stored
  <2>6. PICK i \in R : log[t][i].src = Stored(t)
    <3>1. Stored(t) \in 1 .. Stored(t)
      BY <2>5
    <3> QED
      BY <3>1 DEF PrefixOf
  <2> QED
    BY <2>3, <2>4, <2>5, <2>6
<1> QED
  BY <1>5, <1>6

\* A step that leaves a relay where it is, with its call.
SameRelay(t) ==
  /\ relay'[t].at = relay[t].at
  /\ relay'[t].pos = relay[t].pos
  /\ relay'[t].chunk = relay[t].chunk
  /\ call'[t]["relay"] = call[t]["relay"]

\* Where a step may take a relay, and its call with it.
RelayMoved(t) ==
  LET r == relay'[t]
      e == call'[t]["relay"]
  IN  \/ r.at \in {"off", "open", "giveUp"} /\ e.at = "idle"
      \/ r.at = "failing" /\ e.at # "idle" /\ e.type = "failed" /\ e.src = 0
      \/ /\ r.at = "reading" /\ e.at = "idle"
         /\ ~Settled(t) => r.pos = Stored(t)
      \/ /\ r.at = "saving" /\ e.at = "read" /\ e.src = r.pos + 1
         /\ r.pos + 1 \in 1 .. Len(stream[t]) /\ r.pos < r.chunk
         /\ e.type = stream[t][r.pos + 1]
         /\ ~Settled(t) => r.pos = Stored(t)

\* The invariant after a step that stores nothing of the adapter.
LEMMA RelayKeeps ==
  ASSUME ServiceInv, NEW t \in Tasks, RelayOK(t), StreamKept(t), LogKept(t), UrlOfTask(t)',
         Settled(t) => Settled(t)',
         SameRelay(t) \/ RelayMoved(t)
  PROVE  RelayOK(t)'
<1>1. PrefixOf(t)' /\ Stored(t)' = Stored(t)
  BY PrefixKept DEF RelayOK
<1>2. CASE SameRelay(t)
  <2>1. relay[t].at = "saving" => stream'[t][relay[t].pos + 1] = stream[t][relay[t].pos + 1]
    <3>1. relay[t].pos \in Nat /\ relay[t].chunk \in Nat
      BY DEF ServiceInv, ProcessTypeOK, RelayRecord
    <3>2. relay[t].at = "saving" => relay[t].pos + 1 \in 1 .. Len(stream[t])
      BY <3>1 DEF ServiceInv, ChunkIsPublished, RelayOK, CallOfRelay, StreamKept
    <3> QED
      BY <3>2 DEF StreamKept
  <2>2. CallOfRelay(t)'
    BY <1>2, <2>1 DEF SameRelay, RelayOK, CallOfRelay
  <2>3. PositionOf(t)'
    BY <1>1, <1>2 DEF SameRelay, RelayOK, PositionOf
  <2> QED
    BY <1>1, <2>2, <2>3 DEF RelayOK
<1>3. CASE RelayMoved(t)
  <2> DEFINE r == relay'[t]
             e == call'[t]["relay"]
  <2>1. r.at = "saving" => stream'[t][r.pos + 1] = stream[t][r.pos + 1]
    BY <1>3 DEF RelayMoved, StreamKept
  <2>2. CallOfRelay(t)'
    BY <1>3, <2>1 DEF RelayMoved, CallOfRelay
  <2>3. PositionOf(t)'
    BY <1>1, <1>3 DEF RelayMoved, PositionOf
  <2> QED
    BY <1>1, <2>2, <2>3 DEF RelayOK
<1> QED
  BY <1>2, <1>3

\* Setting a relay, or its call.
LEMMA RelayIsSet ==
  ASSUME ServiceInv, NEW t \in Tasks
  PROVE  /\ \A r : SetRelay(t, r) =>
              relay'[t] = r /\ \A u \in Tasks : u # t => relay'[u] = relay[u]
         /\ \A c \in Caller : \A e : SetCall(t, c, e) =>
              \A u \in Tasks, d \in Caller :
                call'[u][d] = IF u = t /\ d = c THEN e ELSE call[u][d]
BY DEF SetRelay, SetCall, ServiceInv, ProcessTypeOK, EventsInv, EventsTypeOK

\* The fields of relay and call records that are written.
LEMMA RelayFields ==
  ASSUME NEW r \in RelayRecord
  PROVE  /\ RelayOff.at = "off"
         /\ [RelayOff EXCEPT !.at = "open"].at = "open"
         /\ \A at : [r EXCEPT !.at = at].at = at
         /\ \A at, pos : /\ [r EXCEPT !.at = at, !.pos = pos].at = at
                         /\ [r EXCEPT !.at = at, !.pos = pos].pos = pos
         /\ \A at, chunk : /\ [r EXCEPT !.at = at, !.chunk = chunk].at = at
                           /\ [r EXCEPT !.at = at, !.chunk = chunk].pos = r.pos
                           /\ [r EXCEPT !.at = at, !.chunk = chunk].chunk = chunk
         /\ \A pos : /\ [r EXCEPT !.pos = pos].at = r.at
                     /\ [r EXCEPT !.pos = pos].pos = pos
                     /\ [r EXCEPT !.pos = pos].chunk = r.chunk
BY DEF RelayRecord, RelayOff

\* The fields of the calls that are started and ended.
LEMMA CallFields ==
  /\ IdleCall.at = "idle"
  /\ FailCall.at = "check" /\ FailCall.type = "failed" /\ FailCall.src = 0
  /\ \A type, src : /\ PersistCall(type, src).at = "read"
                    /\ PersistCall(type, src).type = type
                    /\ PersistCall(type, src).src = src
BY DEF IdleCall, FailCall, PersistCall

\* A relay starts, or is left as it is.
LEMMA StartMoves ==
  ASSUME ServiceInv, NEW t \in Tasks, RelayOK(t), MarkSession(t) \/ BootResume(t)
  PROVE  SameRelay(t) \/ RelayMoved(t)
<1>1. UNCHANGED call /\ StartRelay(t)
  BY DEF MarkSession, BootResume
<1>2. CASE relay[t].at = "off"
  <2>1. relay'[t] = [RelayOff EXCEPT !.at = "open"]
    BY <1>1, <1>2, RelayIsSet DEF StartRelay
  <2>2. call[t]["relay"].at = "idle"
    BY <1>2 DEF RelayOK, CallOfRelay
  <2>3. relay'[t].at = "open"
    BY <2>1 DEF RelayOff
  <2> QED
    BY <1>1, <2>2, <2>3 DEF RelayMoved
<1>3. CASE relay[t].at # "off"
  BY <1>1, <1>3 DEF StartRelay, SameRelay
<1> QED
  BY <1>2, <1>3

\* A relay connects, and reads a chunk.
LEMMA ReadMoves ==
  ASSUME ServiceInv, NEW t \in Tasks, RelayOK(t), OpenStream(t) \/ ReceiveChunk(t)
  PROVE  RelayMoved(t)
<1>0. relay[t] \in RelayRecord /\ relay[t].pos \in Nat /\ Len(stream[t]) \in Nat
  BY DEF ServiceInv, ProcessTypeOK, RelayRecord, AdapterTypeOK
<1>1. CASE OpenStream(t)
  <2>1. relay[t].at = "open" /\ UNCHANGED call
        /\ relay'[t] = [relay[t] EXCEPT !.at = "reading", !.pos = LastSource(t)]
    BY <1>1, RelayIsSet DEF OpenStream
  <2>2. relay'[t].at = "reading" /\ relay'[t].pos = LastSource(t)
    BY <1>0, <2>1, RelayFields
  <2>3. LastSource(t) = Stored(t)
    BY LastSourceIsStored DEF RelayOK
  <2> QED
    BY <2>1, <2>2, <2>3 DEF RelayMoved, RelayOK, CallOfRelay
<1>2. CASE ReceiveChunk(t)
  <2> DEFINE next == relay[t].pos + 1
  <2>1. PICK last \in next .. Len(stream[t]) :
          SetRelay(t, [relay[t] EXCEPT !.at = "saving", !.chunk = last])
    BY <1>2 DEF ReceiveChunk
  <2>2. relay[t].at = "reading" /\ SetCall(t, "relay", PersistCall(stream[t][next], next))
    BY <1>2 DEF ReceiveChunk
  <2>3. relay'[t] = [relay[t] EXCEPT !.at = "saving", !.chunk = last]
    BY <2>1, RelayIsSet
  <2>4. /\ relay'[t].at = "saving" /\ relay'[t].pos = relay[t].pos /\ relay'[t].chunk = last
    BY <1>0, <2>3, RelayFields
  <2>5. call'[t]["relay"] = PersistCall(stream[t][next], next)
    BY <2>2, RelayIsSet DEF Caller
  <2>6. relay[t].pos + 1 \in 1 .. Len(stream[t]) /\ relay[t].pos < last
    BY <1>0, <2>1
  <2>7. ~Settled(t) => relay[t].pos = Stored(t)
    BY <2>2 DEF RelayOK, PositionOf
  <2> QED
    BY <2>4, <2>5, <2>6, <2>7, CallFields DEF RelayMoved
<1> QED
  BY <1>1, <1>2

\* A relay goes on with its chunk, or ends, or reads again.
LEMMA SavedMoves ==
  ASSUME ServiceInv, NEW t \in Tasks, RelayOK(t), SavedEvent(t)
  PROVE  RelayMoved(t)
<1> DEFINE next == relay[t].pos + 1
<1>0. /\ relay[t] \in RelayRecord /\ relay[t].pos \in Nat /\ relay[t].chunk \in Nat
      /\ Len(stream[t]) \in Nat
  BY DEF ServiceInv, ProcessTypeOK, RelayRecord, AdapterTypeOK
<1>1. relay[t].at = "saving" /\ call[t]["relay"].at = "done"
  BY DEF SavedEvent
<1>2. ~Settled(t) => next = Stored(t)
  <2>1. ~Settled(t) => relay[t].pos = Stored(t) - 1
    BY <1>1 DEF RelayOK, PositionOf
  <2>2. Stored(t) \in Nat
    BY FS_CardinalityType DEF RelayOK, PrefixOf, Stored
  <2> QED
    BY <1>0, <2>1, <2>2
<1>3. CASE SetRelay(t, RelayOff) /\ SetCall(t, "relay", IdleCall)
  <2>1. relay'[t] = RelayOff /\ call'[t]["relay"] = IdleCall
    BY <1>3, RelayIsSet DEF Caller
  <2> QED
    BY <2>1, CallFields, RelayTypes DEF RelayMoved
<1>4. CASE /\ next < relay[t].chunk
           /\ SetRelay(t, [relay[t] EXCEPT !.pos = next])
           /\ SetCall(t, "relay", PersistCall(stream[t][next + 1], next + 1))
  <2>1. /\ relay'[t] = [relay[t] EXCEPT !.pos = next]
        /\ call'[t]["relay"] = PersistCall(stream[t][next + 1], next + 1)
    BY <1>4, RelayIsSet DEF Caller
  <2>2. relay'[t].at = "saving" /\ relay'[t].pos = next /\ relay'[t].chunk = relay[t].chunk
    BY <1>0, <1>1, <2>1, RelayFields
  <2>3. next + 1 \in 1 .. Len(stream[t])
    <3>1. relay[t].chunk <= Len(stream[t])
      BY <1>1 DEF ServiceInv, ChunkIsPublished
    <3>2. next < relay[t].chunk
      BY <1>4
    <3> QED
      BY <1>0, <3>1, <3>2
  <2> HIDE DEF next
  <2> QED
    BY <1>2, <1>4, <2>1, <2>2, <2>3, CallFields DEF RelayMoved
<1>5. CASE /\ SetRelay(t, [relay[t] EXCEPT !.at = "reading", !.pos = next])
           /\ SetCall(t, "relay", IdleCall)
  <2>1. /\ relay'[t] = [relay[t] EXCEPT !.at = "reading", !.pos = next]
        /\ call'[t]["relay"] = IdleCall
    BY <1>5, RelayIsSet DEF Caller
  <2>2. relay'[t].at = "reading" /\ relay'[t].pos = next
    BY <1>0, <2>1, RelayFields
  <2> QED
    BY <1>2, <2>1, <2>2, CallFields DEF RelayMoved
<1> QED
  BY <1>3, <1>4, <1>5 DEF SavedEvent

\* A relay fails or gives up, and ends.
LEMMA FailMoves ==
  ASSUME ServiceInv, NEW t \in Tasks, RelayOK(t),
         StreamBreaks(t) \/ SaveFails(t) \/ GiveUp(t) \/ RelayFailed(t)
  PROVE  RelayMoved(t)
<1>0. relay[t] \in RelayRecord
  BY DEF ServiceInv, ProcessTypeOK
<1>1. \/ SetRelay(t, RelayOff) /\ SetCall(t, "relay", IdleCall)
      \/ SetRelay(t, [relay[t] EXCEPT !.at = "giveUp"]) /\ SetCall(t, "relay", IdleCall)
      \/ SetRelay(t, [relay[t] EXCEPT !.at = "failing"]) /\ SetCall(t, "relay", FailCall)
  BY DEF StreamBreaks, SaveFails, GiveUp, RelayFailed, Resume
<1>2. \/ relay'[t] = RelayOff /\ call'[t]["relay"] = IdleCall
      \/ relay'[t] = [relay[t] EXCEPT !.at = "giveUp"] /\ call'[t]["relay"] = IdleCall
      \/ relay'[t] = [relay[t] EXCEPT !.at = "failing"] /\ call'[t]["relay"] = FailCall
  BY <1>1, RelayIsSet DEF Caller
<1>3. \/ relay'[t].at = "off" /\ call'[t]["relay"] = IdleCall
      \/ relay'[t].at = "giveUp" /\ call'[t]["relay"] = IdleCall
      \/ relay'[t].at = "failing" /\ call'[t]["relay"] = FailCall
  <2>1. /\ [relay[t] EXCEPT !.at = "giveUp"].at = "giveUp"
        /\ [relay[t] EXCEPT !.at = "failing"].at = "failing"
    BY <1>0 DEF RelayRecord
  <2> QED
    BY <1>2, <2>1, RelayTypes
<1> QED
  BY <1>3, CallFields DEF RelayMoved

\* The abort of a timer or a cancellation.
LEMMA AbortMoves ==
  ASSUME ServiceInv, NEW t \in Tasks, RelayOK(t),
         TimerFires(t) \/ CancelQueued(t) \/ CancelRunning(t)
  PROVE  SameRelay(t) \/ RelayMoved(t)
<1>0. relay[t] \in RelayRecord
  BY DEF ServiceInv, ProcessTypeOK
<1>1. CASE TimerFires(t)
  <2>1. /\ relay[t].at \in {"open", "reading", "saving"} /\ UNCHANGED call
        /\ SetRelay(t, [relay[t] EXCEPT
             !.at = IF @ = "saving" THEN "saving" ELSE "giveUp",
             !.aborted = TRUE, !.timedOut = TRUE])
    BY <1>1 DEF TimerFires
  <2>2. relay'[t] = [relay[t] EXCEPT
             !.at = IF @ = "saving" THEN "saving" ELSE "giveUp",
             !.aborted = TRUE, !.timedOut = TRUE]
    BY <2>1, RelayIsSet
  <2>3. /\ relay'[t].at = (IF relay[t].at = "saving" THEN "saving" ELSE "giveUp")
        /\ relay'[t].pos = relay[t].pos /\ relay'[t].chunk = relay[t].chunk
    BY <1>0, <2>2 DEF RelayRecord
  <2> QED
    BY <2>1, <2>3 DEF SameRelay, RelayMoved, RelayOK, CallOfRelay
<1>2. CASE UNCHANGED relay /\ UNCHANGED call
  BY <1>2 DEF SameRelay
<1>3. CASE StoreCancelled(t)
  <2>1. call'[t]["relay"] = call[t]["relay"]
    BY <1>3, RelayIsSet DEF StoreCancelled, Caller
  <2>2. relay'[t] = CASE relay[t].at \in {"open", "reading"} -> RelayOff
                      [] relay[t].at = "saving" -> [relay[t] EXCEPT !.aborted = TRUE]
                      [] OTHER -> relay[t]
    BY <1>3 DEF StoreCancelled, ServiceInv, ProcessTypeOK
  <2>3. CASE relay[t].at \in {"open", "reading"}
    BY <2>1, <2>2, <2>3, RelayTypes DEF RelayMoved, RelayOK, CallOfRelay
  <2>4. CASE relay[t].at = "saving"
    <3>1. relay'[t] = [relay[t] EXCEPT !.aborted = TRUE]
      BY <2>2, <2>4
    <3>2. /\ relay'[t].at = relay[t].at /\ relay'[t].pos = relay[t].pos
          /\ relay'[t].chunk = relay[t].chunk
      BY <1>0, <3>1 DEF RelayRecord
    <3> QED
      BY <2>1, <3>2 DEF SameRelay
  <2>5. CASE relay[t].at \notin {"open", "reading", "saving"}
    BY <2>1, <2>2, <2>5 DEF SameRelay
  <2> QED
    BY <2>3, <2>4, <2>5
<1> QED
  BY <1>1, <1>2, <1>3 DEF CancelQueued, CancelRunning

\* A step of one relay, or on one.
LEMMA RelayActsMove ==
  ASSUME ServiceInv, NEW t \in Tasks, RelayOK(t), RelayActions(t)
  PROVE  SameRelay(t) \/ RelayMoved(t)
BY StartMoves, ReadMoves, SavedMoves, FailMoves, AbortMoves DEF RelayActions

\* It leaves the rows and the other relays alone.
LEMMA RelayActsFrame ==
  ASSUME ServiceInv, NEW t \in Tasks, RelayActions(t)
  PROVE  SameRows /\ \A u \in Tasks : u # t => SameRelay(u)
<1>1. SameRows
  BY DEF RelayActions, MarkSession, BootResume, OpenStream, ReceiveChunk, SavedEvent,
         StreamBreaks, SaveFails, Rollback, TimerFires, GiveUp, RelayFailed, CancelQueued,
         CancelRunning, SameRows, dbVars
<1>2. UNCHANGED relay \/ \E r : SetRelay(t, r)
  BY RelayIsSound
<1>3. UNCHANGED call \/ \E c \in Caller : \E e : SetCall(t, c, e)
  <2>1. CASE MarkSession(t) \/ BootResume(t) \/ OpenStream(t) \/ TimerFires(t)
    BY <2>1 DEF MarkSession, BootResume, OpenStream, TimerFires
  <2>2. CASE ReceiveChunk(t) \/ StreamBreaks(t) \/ GiveUp(t) \/ RelayFailed(t)
    BY <2>2 DEF ReceiveChunk, StreamBreaks, GiveUp, RelayFailed, Resume, Caller
  <2>3. CASE SavedEvent(t)
    BY <2>3 DEF SavedEvent, Caller
  <2>4. CASE SaveFails(t)
    BY <2>4 DEF SaveFails, Caller
  <2>5. CASE CancelQueued(t) \/ CancelRunning(t)
    BY <2>5 DEF CancelQueued, CancelRunning, StoreCancelled, Caller
  <2> QED
    BY <2>1, <2>2, <2>3, <2>4, <2>5 DEF RelayActions
<1>4. ASSUME NEW u \in Tasks, u # t PROVE relay'[u] = relay[u] /\ call'[u]["relay"] = call[u]["relay"]
  BY <1>2, <1>3, <1>4, RelayIsSet DEF Caller
<1> QED
  BY <1>1, <1>4 DEF SameRelay

\* The other handlers touch neither a relay nor its call.
LEMMA HandlersNotRelays ==
  ASSUME ServiceInv, NEW t \in Tasks, ~RelayActions(t),
         \/ CountActive(t) \/ EnqueueStep(t) \/ WorkerStep(t) \/ RelayWorks(t)
         \/ CancelRead(t) \/ CancelStep(t) \/ AdapterStep(t) \/ FaultStep(t)
  PROVE  \A u \in Tasks : SameRelay(u)
<1>1. UNCHANGED relay
  BY DEF RelayActions, CountActive, EnqueueStep, InsertTask, AddJob, LinkJob, EnqueueReturns,
         WorkerStep, PickJob, ProcessJob, ExecuteAccepted, ClaimTask, UndoRun,
         FinalFailureReturns, RelayWorks, CancelRead, CancelStep, CancelReturns,
         AdapterStep, FaultStep, CreateFails, EnqueueFails, StoreFails,
         ExecuteRefused, ExecuteReplyLost, MarkSessionFails, processVars
<1>2. UNCHANGED call \/ \E c \in Caller \ {"relay"} : \E e : SetCall(t, c, e)
  <2>1. CASE \/ CountActive(t) \/ CreateFails(t) \/ AddJob(t) \/ LinkJob(t) \/ InsertTask(t)
             \/ PickJob(t) \/ ProcessJob(t) \/ ExecuteAccepted(t) \/ UndoRun(t) \/ ClaimTask(t)
             \/ CancelRead(t) \/ AdapterStep(t)
    BY <2>1 DEF CountActive, CreateFails, AddJob, LinkJob, InsertTask, PickJob, ProcessJob,
                ExecuteAccepted, UndoRun, ClaimTask, CancelRead, AdapterStep
  <2>2. CASE EnqueueReturns(t) \/ FinalFailureReturns(t) \/ CancelReturns(t) \/ EnqueueFails(t)
    BY <2>2 DEF EnqueueReturns, FinalFailureReturns, CancelReturns, EnqueueFails, Resume, Caller
  <2>3. CASE ExecuteRefused(t) \/ ExecuteReplyLost(t) \/ MarkSessionFails(t)
    BY <2>3 DEF ExecuteRefused, ExecuteReplyLost, MarkSessionFails, JobThrows, Caller
  <2>4. CASE StoreFails(t)
    BY <2>4 DEF StoreFails, Caller
  <2> QED
    BY <2>1, <2>2, <2>3, <2>4
       DEF EnqueueStep, WorkerStep, RelayWorks, CancelStep, FaultStep, RelayActions
<1>3. \A u \in Tasks : call'[u]["relay"] = call[u]["relay"]
  BY <1>2, RelayIsSet DEF Caller
<1> QED
  BY <1>1, <1>3 DEF SameRelay

\* Nor does the boot, but for the relays it starts.
LEMMA BootNotRelays ==
  ASSUME ServiceInv, BootStep, ~\E t \in Tasks : RelayActions(t)
  PROVE  \A u \in Tasks : SameRelay(u)
<1>1. ASSUME NEW t \in Tasks, BootExpire(t) \/ BootExpired(t)
      PROVE  \A u \in Tasks : SameRelay(u)
  <2>1. UNCHANGED relay /\ \E e : SetCall(t, "boot", e)
    BY <1>1 DEF BootExpire, BootExpired, Resume, processVars
  <2>2. \A u \in Tasks : call'[u]["relay"] = call[u]["relay"]
    BY <2>1, RelayIsSet DEF Caller
  <2> QED
    BY <2>1, <2>2 DEF SameRelay
<1>2. CASE UNCHANGED <<relay, call>>
  BY <1>2 DEF SameRelay
<1> QED
  BY <1>1, <1>2 DEF BootStep, BootStart, BootScan, BootDone, BootRequeue, RelayActions

\* A step of the procedures for a caller that is not a relay.
LEMMA OthersCallStep ==
  ASSUME ServiceInv, NEW t \in Tasks, NEW c \in Caller \ {"relay"}, CallStepOf(t, c),
         UNCHANGED relay
  PROVE  \A u \in Tasks : SameRelay(u) /\ LogKept(u)
<1>1. \E e : SetCall(t, c, e)
  BY DEF CallStepOf, FailCheck, PersistRead, PersistLock, PersistCommit
<1>2. \A u \in Tasks : SameRelay(u)
  BY <1>1, RelayIsSet DEF Caller, SameRelay
<1>3. ASSUME NEW u \in Tasks PROVE LogKept(u)
  <2>0. log[u] \in Seq(EventRecord)
    BY DEF ServiceInv, EventsInv, EventsTypeOK
  <2>1. CASE PersistCommit(t, c)
    <3>1. Committed(t, c)
      BY <2>1, CommitRows
    <3>2. CASE u = t
      <4> DEFINE row == [type |-> call[t][c].type, src |-> call[t][c].src]
      <4>1. log'[t] = Append(log[t], row) /\ row.src = 0
        BY <3>1 DEF Committed
      <4> HIDE DEF row
      <4> QED
        BY <2>0, <3>2, <4>1, LogIsKept
    <3>3. CASE u # t
      BY <2>0, <3>1, <3>3, LogIsKept DEF Committed
    <3> QED
      BY <3>2, <3>3
  <2>2. CASE ~PersistCommit(t, c)
    BY <2>0, <2>2, UncommittedStep, LogIsKept DEF CallStepOf, SameRows
  <2> QED
    BY <2>1, <2>2
<1> QED
  BY <1>2, <1>3

\* The steps of the procedures for a relay that do not commit.
LEMMA RelayCallReads ==
  ASSUME ServiceInv, NEW t \in Tasks, RelayOK(t), UNCHANGED relay, StreamKept(t), LogKept(t),
         FailCheck(t, "relay") \/ PersistRead(t, "relay") \/ PersistLock(t, "relay")
  PROVE  CallOfRelay(t)' /\ PositionOf(t)'
<1> DEFINE r == relay[t]
           e == call[t]["relay"]
           f == call'[t]["relay"]
<1>0. e \in CallRecord /\ r.pos \in Nat /\ r.chunk \in Nat /\ "relay" \in Caller
  BY DEF ServiceInv, EventsInv, EventsTypeOK, ProcessTypeOK, RelayRecord, Caller
<1>1. Settled(t) => Settled(t)'
  BY <1>0, UncommittedStep
<1>2. PrefixOf(t)' /\ Stored(t)' = Stored(t)
  BY PrefixKept DEF RelayOK
<1>3. r.at = "saving" => stream'[t][r.pos + 1] = stream[t][r.pos + 1]
  <2>1. r.at = "saving" => r.pos + 1 \in 1 .. Len(stream[t])
    BY <1>0 DEF ServiceInv, ChunkIsPublished, RelayOK, CallOfRelay, StreamKept
  <2> QED
    BY <2>1 DEF StreamKept
<1>4. CASE FailCheck(t, "relay")
  <2>1. e.at = "check" /\ (f = [e EXCEPT !.at = "done"] \/ f = PersistCall("failed", 0))
    BY <1>0, <1>4, RelayIsSet DEF FailCheck
  <2>2. r.at = "failing"
    BY <2>1 DEF RelayOK, CallOfRelay, ServiceInv, ProcessTypeOK, RelayRecord, RelayStep
  <2>3. f.at # "idle" /\ f.type = "failed" /\ f.src = 0
    BY <1>0, <2>1, <2>2, CallFields DEF CallRecord, RelayOK, CallOfRelay
  <2> QED
    BY <2>2, <2>3 DEF CallOfRelay, PositionOf
<1>5. CASE PersistRead(t, "relay")
  <2> DEFINE dropped == \/ status[t] \in Terminal \cup {"none"}
                        \/ e.src > 0 /\ Persisted(t, e.src)
  <2>1. e.at = "read" /\ status' = status
        /\ f = [e EXCEPT !.at = IF dropped THEN "done"
                                ELSE IF e.type = "completed" THEN "lock" ELSE "commit"]
    BY <1>0, <1>5, RelayIsSet DEF PersistRead, dbVars
  <2>2. /\ f.type = e.type /\ f.src = e.src
        /\ f.at \in {"done", "lock", "commit"}
        /\ f.at = "done" => dropped
    BY <1>0, <2>1 DEF CallRecord
  <2>3. CallOfRelay(t)'
    BY <1>3, <2>1, <2>2 DEF RelayOK, CallOfRelay
  <2>4. ASSUME ~Settled(t)', r.at = "saving" PROVE r.pos = Stored(t) /\ f.at # "done"
    <3>1. r.pos = Stored(t) /\ e.src = r.pos + 1
      BY <1>1, <2>1, <2>4 DEF RelayOK, PositionOf, CallOfRelay
    <3>2. status[t] # "none"
      BY <2>4 DEF ServiceInv, UrlInv, RelayOK, UrlOfTask
    <3>3. f.at = "done" => status[t] \notin Terminal
      BY <2>1, <2>4 DEF Settled
    <3>4. ~Persisted(t, e.src)
      <4> SUFFICES ASSUME NEW i \in DOMAIN log[t], log[t][i].src = e.src PROVE FALSE
        BY DEF Persisted
      <4>1. i \in Relayed(t)
        BY <1>0, <3>1 DEF Relayed
      <4>2. Stored(t) \in Nat /\ log[t][i].src \in 1 .. Stored(t)
        BY <4>1, FS_CardinalityType DEF RelayOK, PrefixOf, Stored
      <4> QED
        BY <3>1, <4>2
    <3> QED
      BY <2>2, <3>1, <3>2, <3>3, <3>4
  <2>5. PositionOf(t)'
    <3>1. r.at = "reading" => e.at = "idle"
      BY DEF RelayOK, CallOfRelay
    <3> QED
      BY <1>2, <2>1, <2>4, <3>1 DEF PositionOf
  <2> QED
    BY <2>3, <2>5
<1>6. CASE PersistLock(t, "relay")
  <2>0. PICK version : SetCall(t, "relay", [e EXCEPT !.at = "commit", !.version = version])
    BY <1>6 DEF PersistLock
  <2>1. e.at = "lock" /\ f = [e EXCEPT !.at = "commit", !.version = version]
    BY <1>0, <1>6, <2>0, RelayIsSet DEF PersistLock
  <2>2. f.at = "commit" /\ f.type = e.type /\ f.src = e.src
    BY <1>0, <2>1 DEF CallRecord
  <2>3. CallOfRelay(t)'
    BY <1>3, <2>1, <2>2 DEF RelayOK, CallOfRelay
  <2>4. PositionOf(t)'
    BY <1>1, <1>2, <2>1, <2>2 DEF RelayOK, CallOfRelay, PositionOf
  <2> QED
    BY <2>3, <2>4
<1> QED
  BY <1>4, <1>5, <1>6

\* A relay commits the next published event, or the failure of its task.
LEMMA RelayCommits ==
  ASSUME ServiceInv, NEW t \in Tasks, RelayOK(t), UNCHANGED relay, StreamKept(t),
         PersistCommit(t, "relay")
  PROVE  PrefixOf(t)' /\ CallOfRelay(t)' /\ PositionOf(t)'
<1> DEFINE r == relay[t]
           e == call[t]["relay"]
           f == call'[t]["relay"]
           row == [type |-> e.type, src |-> e.src]
<1>0. r.pos \in Nat /\ r.chunk \in Nat /\ "relay" \in Caller
  BY DEF ServiceInv, ProcessTypeOK, RelayRecord, Caller
<1>1. Committed(t, "relay")
  BY <1>0, CommitRows
<1>2. /\ e \in CallRecord /\ e.at = "commit" /\ log[t] \in Seq(EventRecord)
      /\ log'[t] = Append(log[t], row)
      /\ f = [e EXCEPT !.at = "done"]
  BY <1>0, <1>1 DEF Committed
<1>3. f.at = "done" /\ f.type = e.type /\ f.src = e.src
  BY <1>2 DEF CallRecord
<1>4. r.at \in {"saving", "failing"} /\ ~Settled(t)
  BY <1>2 DEF Settled, RelayOK, CallOfRelay, ServiceInv, ProcessTypeOK, RelayRecord, RelayStep
<1>5. row.type = e.type /\ row.src = e.src
  OBVIOUS
<1> HIDE DEF row
<1>6. CASE r.at = "failing"
  <2>1. LogKept(t)
    BY <1>2, <1>5, <1>6, LogIsKept DEF RelayOK, CallOfRelay
  <2>2. PrefixOf(t)'
    BY <2>1, PrefixKept DEF RelayOK
  <2> QED
    BY <1>3, <1>6, <2>2 DEF RelayOK, CallOfRelay, PositionOf
<1>7. CASE r.at = "saving"
  <2>1. /\ r.pos = Stored(t) /\ e.src = r.pos + 1 /\ r.pos < r.chunk
        /\ e.type = stream[t][r.pos + 1]
    BY <1>2, <1>4, <1>7 DEF RelayOK, CallOfRelay, PositionOf
  <2>2. Stored(t) < Len(stream[t])
    BY <1>0, <1>7, <2>1 DEF ServiceInv, ChunkIsPublished, StreamKept
  <2>3. PrefixOf(t)' /\ Stored(t)' = Stored(t) + 1
    BY <1>2, <1>5, <2>1, <2>2, PrefixGrows DEF RelayOK
  <2>4. stream'[t][r.pos + 1] = stream[t][r.pos + 1]
    BY <1>0, <2>1, <2>2 DEF StreamKept
  <2>5. CallOfRelay(t)'
    BY <1>3, <1>7, <2>1, <2>4 DEF CallOfRelay
  <2>6. PositionOf(t)'
    BY <1>0, <1>3, <1>7, <2>1, <2>3 DEF PositionOf
  <2> QED
    BY <2>3, <2>5, <2>6
<1> QED
  BY <1>4, <1>6, <1>7

\* Only the procedures write events.
LEMMA LogUnchanged ==
  ASSUME ServiceInv, [Next]_vars, ~\E t \in Tasks : StoreStep(t)
  PROVE  UNCHANGED log
<1>1. ASSUME NEW t \in Tasks,
             \/ CountActive(t) \/ EnqueueStep(t) \/ WorkerStep(t) \/ RelayWorks(t)
             \/ CancelRead(t) \/ CancelStep(t) \/ AdapterStep(t) \/ FaultStep(t)
      PROVE  UNCHANGED log
  <2>1. CASE CountActive(t) \/ EnqueueStep(t) \/ WorkerStep(t)
    BY <2>1 DEF CountActive, EnqueueStep, InsertTask, AddJob, LinkJob, EnqueueReturns,
                WorkerStep, PickJob, ProcessJob, ExecuteAccepted, ClaimTask, UndoRun,
                MarkSession, FinalFailureReturns, dbVars
  <2>2. CASE RelayWorks(t) \/ CancelRead(t) \/ CancelStep(t) \/ AdapterStep(t)
    BY <2>2 DEF RelayWorks, OpenStream, ReceiveChunk, SavedEvent, GiveUp, RelayFailed,
                CancelRead, CancelStep, CancelQueued, CancelRunning, CancelReturns,
                AdapterStep, dbVars
  <2>3. CASE FaultStep(t)
    BY <2>3 DEF FaultStep, CreateFails, EnqueueFails, ExecuteRefused, ExecuteReplyLost,
                MarkSessionFails, StreamBreaks, SaveFails, StoreFails, Rollback, TimerFires,
                dbVars
  <2> QED
    BY <1>1, <2>1, <2>2, <2>3
<1>2. CASE BootStep \/ Crash
  BY <1>2 DEF BootStep, BootStart, BootScan, BootDone, BootRequeue, BootResume, BootExpire,
              BootExpired, Crash, dbVars
<1> QED
  BY <1>1, <1>2 DEF Next, vars, dbVars

\* A row that exists stays, and a URL comes with one.
LEMMA UrlKeeps ==
  ASSUME ServiceInv, RelayInv, StepShape
  PROVE  \A u \in Tasks : UrlOfTask(u)'
<1>0. \A u \in Tasks : UrlOfTask(u)
  BY DEF RelayInv, RelayOK
<1>1. CASE SameRows \/ Crash \/ \E t \in Tasks : CallSet(t)
  BY <1>0, <1>1 DEF SameRows, CallSet, Crash, dbVars, UrlOfTask
<1>2. ASSUME NEW t \in Tasks, InsertTask(t) \/ ClaimTask(t)
      PROVE  \A u \in Tasks : UrlOfTask(u)'
  BY <1>0, <1>2 DEF InsertTask, ClaimTask, UrlOfTask, ServiceInv, EventsInv, EventsTypeOK
<1>3. ASSUME NEW t \in Tasks, NEW c \in Caller, CallStepOf(t, c)
      PROVE  \A u \in Tasks : UrlOfTask(u)'
  <2>1. CASE PersistCommit(t, c)
    <3>1. Committed(t, c) /\ hasUrl' = hasUrl
      BY <2>1, CommitRows DEF PersistCommit
    <3>2. \A u \in Tasks : status[u] # "none" => status'[u] # "none"
      BY <3>1 DEF Committed, CallRecord, EventType, Terminal
    <3> QED
      BY <1>0, <3>1, <3>2 DEF UrlOfTask
  <2>2. CASE ~PersistCommit(t, c)
    <3>1. SameRows
      BY <1>3, <2>2, UncommittedStep DEF CallStepOf
    <3> QED
      BY <1>1, <3>1
  <2> QED
    BY <2>1, <2>2
<1> QED
  BY <1>1, <1>2, <1>3 DEF StepShape

\* What every step keeps.
KeptBy(t) ==
  /\ StreamKept(t)
  /\ UrlOfTask(t)'
  /\ Settled(t) => Settled(t)'

\* Every step keeps that much of every task.
LEMMA StepKeeps ==
  ASSUME ServiceInv, RelayInv, [Next]_vars
  PROVE  \A u \in Tasks : KeptBy(u)
BY StreamsKept, StepShapes, UrlKeeps, SettledStays DEF KeptBy

\* A relay on which nothing of the step bears.
LEMMA OthersKeep ==
  ASSUME ServiceInv, RelayInv, NEW u \in Tasks, KeptBy(u), LogKept(u),
         SameRelay(u) \/ RelayMoved(u)
  PROVE  RelayOK(u)'
BY RelayKeeps DEF RelayInv, KeptBy

\* A step that writes no event keeps the relayed rows.
LEMMA SameLog ==
  ASSUME ServiceInv, UNCHANGED log
  PROVE  \A u \in Tasks : LogKept(u)
BY DEF LogKept, Relayed

\* The steps of persistTaskEvent and failTask keep the invariant of the relays.
LEMMA StoreRelays ==
  ASSUME ServiceInv, RelayInv, NEW t \in Tasks, StoreStep(t), \A u \in Tasks : KeptBy(u)
  PROVE  RelayInv'
<1>1. PICK c \in Caller : CallStepOf(t, c)
  BY DEF StoreStep
<1>2. UNCHANGED relay
  BY DEF StoreStep, processVars
<1>3. CASE c # "relay"
  <2>1. \A u \in Tasks : SameRelay(u) /\ LogKept(u)
    BY <1>1, <1>2, <1>3, OthersCallStep
  <2> QED
    BY <2>1, OthersKeep DEF RelayInv
<1>4. CASE c = "relay"
  <2>1. ASSUME NEW u \in Tasks, u # t PROVE RelayOK(u)'
    <3>1. \E e : SetCall(t, "relay", e)
      BY <1>1, <1>4 DEF CallStepOf, FailCheck, PersistRead, PersistLock, PersistCommit
    <3>2. SameRelay(u)
      BY <1>2, <2>1, <3>1, RelayIsSet DEF Caller, SameRelay
    <3>3. log'[u] = log[u]
      <4>1. CASE PersistCommit(t, c)
        <5>1. Committed(t, c)
          BY <4>1, CommitRows
        <5> QED
          BY <2>1, <5>1 DEF Committed
      <4>2. CASE ~PersistCommit(t, c)
        BY <1>1, <4>2, UncommittedStep DEF CallStepOf, SameRows
      <4> QED
        BY <4>1, <4>2
    <3>4. LogKept(u)
      BY <3>3 DEF LogKept, Relayed
    <3> QED
      BY <3>2, <3>4, OthersKeep
  <2>2. RelayOK(t) /\ KeptBy(t)
    BY DEF RelayInv
  <2>3. CASE PersistCommit(t, "relay")
    <3>1. RelayOK(t)'
      BY <1>2, <2>2, <2>3, RelayCommits DEF KeptBy, RelayOK
    <3> QED
      BY <2>1, <3>1 DEF RelayInv
  <2>4. CASE ~PersistCommit(t, "relay")
    <3>1. FailCheck(t, "relay") \/ PersistRead(t, "relay") \/ PersistLock(t, "relay")
      BY <1>1, <1>4, <2>4 DEF CallStepOf
    <3>2. SameRows
      BY <1>1, <1>4, <3>1, UncommittedStep
    <3>3. LogKept(t)
      BY <3>2, SameLog DEF SameRows
    <3>4. PrefixOf(t)'
      BY <2>2, <3>3, PrefixKept DEF RelayOK, KeptBy
    <3>5. RelayOK(t)'
      BY <1>2, <2>2, <3>1, <3>3, <3>4, RelayCallReads DEF KeptBy, RelayOK
    <3> QED
      BY <2>1, <3>5 DEF RelayInv
  <2> QED
    BY <2>3, <2>4
<1> QED
  BY <1>3, <1>4

\* The invariant of the relays is inductive.
LEMMA RelayInvStep ==
  ASSUME ServiceInv, RelayInv, [Next]_vars
  PROVE  RelayInv'
<1>0. \A u \in Tasks : KeptBy(u)
  BY StepKeeps
<1>1. ASSUME NEW t \in Tasks, StoreStep(t) PROVE RelayInv'
  BY <1>0, <1>1, StoreRelays
<1>2. ASSUME ~\E t \in Tasks : StoreStep(t),
             \A u \in Tasks : SameRelay(u) \/ RelayMoved(u)
      PROVE  RelayInv'
  <2>1. \A u \in Tasks : LogKept(u)
    BY <1>2, LogUnchanged, SameLog
  <2> QED
    BY <1>0, <1>2, <2>1, OthersKeep DEF RelayInv
<1>3. ASSUME NEW t \in Tasks, RelayActions(t)
      PROVE  \A u \in Tasks : SameRelay(u) \/ RelayMoved(u)
  BY <1>3, RelayActsMove, RelayActsFrame DEF RelayInv
<1>4. CASE Crash
  <2> SUFFICES ASSUME NEW u \in Tasks PROVE RelayMoved(u)
    BY <1>1, <1>2
  <2>1. relay'[u] = RelayOff /\ call'[u]["relay"] = IdleCall
    BY <1>4 DEF Crash, Caller
  <2> QED
    BY <2>1, CallFields, RelayTypes DEF RelayMoved
<1>5. CASE UNCHANGED vars
  BY <1>1, <1>2, <1>5 DEF vars, processVars, SameRelay
<1> QED
  BY <1>1, <1>2, <1>3, <1>4, <1>5, HandlersNotRelays, BootNotRelays DEF Next

\* At first nothing is published, stored or relayed.
LEMMA RelayInvInit == Init => RelayInv
<1> SUFFICES ASSUME Init, NEW t \in Tasks PROVE RelayOK(t)
  BY DEF RelayInv
<1>1. /\ log[t] = << >> /\ stream[t] = << >> /\ hasUrl[t] = FALSE
      /\ relay[t].at = "off" /\ call[t]["relay"].at = "idle"
  BY RelayTypes, CallFields DEF Init, EventsInit, AdapterInit, Caller
<1>2. Relayed(t) = {} /\ Stored(t) = 0 /\ IsFiniteSet(Relayed(t))
  BY <1>1, FS_EmptySet DEF Relayed, Stored
<1>3. PrefixOf(t)
  BY <1>1, <1>2 DEF PrefixOf
<1> QED
  BY <1>1, <1>3 DEF RelayOK, CallOfRelay, PositionOf, UrlOfTask

\* It holds in every reachable state.
LEMMA AlwaysRelayInv == Spec => [](ServiceInv /\ RelayInv)
<1>1. ServiceInv /\ RelayInv /\ [Next]_vars => RelayInv'
  BY RelayInvStep
<1> QED
  BY <1>1, RelayInvInit, ServiceAlwaysInv, PTL DEF Spec

\* What is stored of a task's stream is a prefix of what was published, in
\* order and each event once, whatever timeouts, aborts, failed transactions
\* and restarts the relays go through: a relay that is not overtaken by the
\* end of its task is always where the stored events are.
THEOREM StoredIsPrefixOfStream == Spec => []RelayedInOrder
<1>1. ServiceInv /\ RelayInv => RelayedInOrder
  <2> SUFFICES ASSUME ServiceInv, RelayInv, NEW t \in Tasks, NEW i \in Relayed(t)
               PROVE  LET nth == Cardinality({j \in Relayed(t) : j <= i})
                      IN  /\ nth <= Len(stream[t])
                          /\ log[t][i] = [type |-> stream[t][nth], src |-> nth]
    BY DEF RelayedInOrder
  <2>1. PrefixOf(t) /\ log[t] \in Seq(EventRecord) /\ i \in DOMAIN log[t]
    BY DEF RelayInv, RelayOK, ServiceInv, EventsInv, EventsTypeOK, Relayed
  <2>2. log[t][i] \in EventRecord
    BY <2>1
  <2>3. log[t][i] = [type |-> log[t][i].type, src |-> log[t][i].src]
    BY <2>2 DEF EventRecord
  <2>4. /\ log[t][i].src = Cardinality({j \in Relayed(t) : j <= i})
        /\ log[t][i].type = stream[t][log[t][i].src]
        /\ log[t][i].src \in 1 .. Stored(t) /\ Stored(t) <= Len(stream[t])
    BY <2>1 DEF PrefixOf
  <2>5. Stored(t) \in Nat /\ Len(stream[t]) \in Nat
    BY <2>1, FS_CardinalityType DEF PrefixOf, Stored, ServiceInv, AdapterTypeOK
  <2>6. log[t][i].src <= Len(stream[t])
    BY <2>4, <2>5
  <2> QED
    BY <2>3, <2>4, <2>6
<1> QED
  BY <1>1, AlwaysRelayInv, PTL

-----------------------------------------------------------------------------
(* A result is the text that was published.                                *)

\* A text, as ids of deltas, is what a stream has up to a completion.
WholeText(events, text) ==
  \E last \in DOMAIN events :
    /\ events[last] = "completed"
    /\ {text[j] : j \in Adding(text)} = {id \in 1 .. last : events[id] = "delta"}
    /\ \A j, k \in Adding(text) : j < k => text[j] < text[k]

TextInv ==
  \A s \in Sessions : \A i \in DOMAIN results[s] :
    WholeText(stream[results[s][i].task], results[s][i].text)

\* What is published later changes no earlier text.
LEMMA TextKept ==
  ASSUME ServiceInv, AdapterTypeOK', NEW t \in Tasks, NEW text, StreamKept(t),
         WholeText(stream[t], text)
  PROVE  WholeText(stream'[t], text)
<1>1. PICK last \in DOMAIN stream[t] :
        /\ stream[t][last] = "completed"
        /\ {text[j] : j \in Adding(text)} = {id \in 1 .. last : stream[t][id] = "delta"}
        /\ \A j, k \in Adding(text) : j < k => text[j] < text[k]
  BY DEF WholeText
<1>2. /\ DOMAIN stream[t] = 1 .. Len(stream[t]) /\ Len(stream[t]) \in Nat
      /\ DOMAIN stream'[t] = 1 .. Len(stream'[t]) /\ Len(stream'[t]) \in Nat
  BY DEF ServiceInv, AdapterTypeOK
<1>3. /\ last \in DOMAIN stream'[t]
      /\ \A id \in 1 .. last : id \in 1 .. Len(stream[t])
  BY <1>1, <1>2 DEF StreamKept
<1>4. \A id \in 1 .. last : stream'[t][id] = stream[t][id]
  BY <1>3 DEF StreamKept
<1>5. {id \in 1 .. last : stream'[t][id] = "delta"} = {id \in 1 .. last : stream[t][id] = "delta"}
  BY <1>4
<1>6. stream'[t][last] = "completed"
  BY <1>1, <1>2 DEF StreamKept
<1> QED
  BY <1>1, <1>3, <1>5, <1>6 DEF WholeText

\* The text of a completion is made of the deltas that are stored.
LEMMA CompletionText ==
  ASSUME ServiceInv, NEW t \in Tasks, RelayOK(t),
         call[t]["relay"].at = "commit", call[t]["relay"].type = "completed"
  PROVE  WholeText(stream[t], OutputText(log[t]))
<1> DEFINE text == OutputText(log[t])
           N    == Stored(t)
           last == N + 1
<1>1. relay[t].at = "saving"
  BY DEF RelayOK, CallOfRelay, ServiceInv, ProcessTypeOK, RelayRecord, RelayStep
<1>2. /\ relay[t].pos = N /\ relay[t].pos < relay[t].chunk
      /\ stream[t][relay[t].pos + 1] = "completed"
  BY <1>1 DEF RelayOK, CallOfRelay, PositionOf, Settled
<1>3. /\ N \in Nat /\ relay[t].chunk \in Nat /\ relay[t].chunk <= Len(stream[t])
      /\ DOMAIN stream[t] = 1 .. Len(stream[t]) /\ Len(stream[t]) \in Nat
  BY <1>1, FS_CardinalityType
     DEF RelayOK, PrefixOf, Stored, ServiceInv, ChunkIsPublished, ProcessTypeOK, RelayRecord,
         AdapterTypeOK
<1>4. last \in DOMAIN stream[t] /\ stream[t][last] = "completed"
  BY <1>2, <1>3
<1>5. /\ DOMAIN text = DOMAIN log[t]
      /\ \A i \in DOMAIN log[t] :
           text[i] = IF log[t][i].type = "delta" THEN log[t][i].src ELSE 0
  BY DEF OutputText
<1> HIDE DEF text, N
<1>6. \A i \in Adding(text) :
        /\ i \in Relayed(t) /\ text[i] = log[t][i].src /\ log[t][i].type = "delta"
  BY <1>5 DEF Adding, Relayed
<1>7. \A i \in Relayed(t) : log[t][i].type = "delta" => i \in Adding(text) /\ text[i] = log[t][i].src
  BY <1>5 DEF Adding, Relayed
<1>8. \A i \in Relayed(t) : log[t][i].src \in 1 .. N /\ log[t][i].type = stream[t][log[t][i].src]
  BY DEF RelayOK, PrefixOf, N
<1>9. \A id \in 1 .. N : \E i \in Relayed(t) : log[t][i].src = id
  BY DEF RelayOK, PrefixOf, N
<1>10. 1 .. last = 1 .. N \cup {last}
  BY <1>3
<1>11. {text[j] : j \in Adding(text)} = {id \in 1 .. last : stream[t][id] = "delta"}
  <2> DEFINE deltas == {id \in 1 .. last : stream[t][id] = "delta"}
  <2>1. ASSUME NEW j \in Adding(text) PROVE text[j] \in deltas
    BY <1>6, <1>8, <1>10, <2>1
  <2>2. ASSUME NEW id \in deltas PROVE \E j \in Adding(text) : text[j] = id
    <3>1. id \in 1 .. N /\ stream[t][id] = "delta"
      BY <1>4, <1>10, <2>2
    <3>2. PICK i \in Relayed(t) : log[t][i].src = id
      BY <1>9, <3>1
    <3> QED
      BY <1>7, <1>8, <3>1, <3>2
  <2> QED
    BY <2>1, <2>2
<1>12. \A j, k \in Adding(text) : j < k => text[j] < text[k]
  BY <1>6 DEF RelayOK, PrefixOf
<1> HIDE DEF last
<1> QED
  BY <1>4, <1>11, <1>12 DEF WholeText, text

\* Results are written by the commits of completions alone.
LEMMA ResultSteps ==
  ASSUME ServiceInv, [Next]_vars
  PROVE  \/ UNCHANGED results
         \/ \E t \in Tasks, c \in Caller :
              PersistCommit(t, c) /\ call[t][c].type = "completed"
<1>1. CASE SameRows \/ Crash \/ \E t \in Tasks : CallSet(t)
  BY <1>1 DEF SameRows, CallSet, Crash, dbVars
<1>2. ASSUME NEW t \in Tasks, InsertTask(t) \/ ClaimTask(t)
      PROVE  UNCHANGED results
  BY <1>2 DEF InsertTask, ClaimTask
<1>3. ASSUME NEW t \in Tasks, NEW c \in Caller, CallStepOf(t, c)
      PROVE  UNCHANGED results \/ (PersistCommit(t, c) /\ call[t][c].type = "completed")
  <2>1. CASE PersistCommit(t, c)
    BY <2>1 DEF PersistCommit
  <2>2. CASE ~PersistCommit(t, c)
    BY <1>3, <2>2, UncommittedStep DEF CallStepOf, SameRows
  <2> QED
    BY <2>1, <2>2
<1> QED
  BY <1>1, <1>2, <1>3, StepShapes DEF StepShape

\* The texts that were stored stay whole.
LEMMA TextsKept ==
  ASSUME ServiceInv, AdapterTypeOK', TextInv, \A u \in Tasks : KeptBy(u),
         NEW s \in Sessions, NEW i \in DOMAIN results[s]
  PROVE  WholeText(stream'[results[s][i].task], results[s][i].text)
<1>1. results[s] \in Seq(ResultRecord)
  BY DEF ServiceInv, EventsInv, EventsTypeOK
<1>2. results[s][i].task \in Tasks
  <2>1. results[s][i] \in ResultRecord
    BY <1>1
  <2> QED
    BY <2>1 DEF ResultRecord
<1>3. StreamKept(results[s][i].task)
  BY <1>2 DEF KeptBy
<1>4. WholeText(stream[results[s][i].task], results[s][i].text)
  BY DEF TextInv
<1> QED
  BY <1>2, <1>3, <1>4, TextKept

\* The invariant of the result texts is inductive.
LEMMA TextStep ==
  ASSUME ServiceInv, AdapterTypeOK', RelayInv, TextInv, [Next]_vars
  PROVE  TextInv'
<1>k. \A u \in Tasks : KeptBy(u)
  BY StepKeeps
<1>1. CASE UNCHANGED results
  <2> SUFFICES ASSUME NEW s \in Sessions, NEW i \in DOMAIN results[s]
               PROVE  WholeText(stream'[results[s][i].task], results[s][i].text)
    BY <1>1 DEF TextInv
  <2> QED
    BY <1>k, TextsKept
<1>2. ASSUME NEW t \in Tasks, NEW c \in Caller, PersistCommit(t, c),
             call[t][c].type = "completed"
      PROVE  TextInv'
  <2> DEFINE text == OutputText(log[t])
             row  == [task |-> t, version |-> call[t][c].version, text |-> text]
             z    == SessionOf[t]
  <2>1. Committed(t, c)
    BY <1>2, CommitRows
  <2>2. c = "relay"
    BY <1>2, <2>1 DEF Committed
  <2>3. WholeText(stream[t], text)
    <3>1. call[t]["relay"].at = "commit" /\ RelayOK(t)
      BY <1>2, <2>1, <2>2 DEF Committed, RelayInv
    <3> QED
      BY <1>2, <2>2, <3>1, CompletionText
  <2>4. /\ z \in Sessions /\ results \in [Sessions -> Seq(ResultRecord)]
        /\ results' = [results EXCEPT ![z] = Append(results[z], row)]
        /\ row.task = t /\ row.text = text
    BY <1>2, SessionAssumption DEF PersistCommit, StoreResult, ServiceInv, EventsInv, EventsTypeOK
  <2> HIDE DEF text, row
  <2>5. WholeText(stream'[t], text)
    BY <1>k, <2>3, TextKept DEF KeptBy
  <2>6. /\ results'[z] = Append(results[z], row) /\ results[z] \in Seq(ResultRecord)
        /\ \A s \in Sessions : s # z => results'[s] = results[s]
    BY <2>4
  <2>7. /\ DOMAIN results'[z] = DOMAIN results[z] \cup {Len(results[z]) + 1}
        /\ \A i \in DOMAIN results[z] : results'[z][i] = results[z][i]
        /\ results'[z][Len(results[z]) + 1] = row
    BY <2>6, AppendSelects
  <2> SUFFICES ASSUME NEW s \in Sessions, NEW i \in DOMAIN results'[s]
               PROVE  WholeText(stream'[results'[s][i].task], results'[s][i].text)
    BY DEF TextInv
  <2>8. CASE s = z /\ i = Len(results[z]) + 1
    BY <2>4, <2>5, <2>7, <2>8
  <2>9. CASE i \in DOMAIN results[s] /\ results'[s][i] = results[s][i]
    BY <1>k, <2>9, TextsKept
  <2> QED
    BY <2>6, <2>7, <2>8, <2>9
<1> QED
  BY <1>1, <1>2, ResultSteps

\* At first there is no result.
LEMMA TextInit == Init => TextInv
BY DEF Init, EventsInit, TextInv

\* The text of a result is the whole text the adapter published before the
\* completion, in order: deltas come through the relay, which has them all
\* stored when the completion comes.
THEOREM ResultsAreWhole == Spec => []ResultIsWholeText
<1>1. ServiceInv /\ ServiceInv' /\ RelayInv /\ TextInv /\ [Next]_vars => TextInv'
  BY TextStep DEF ServiceInv
<1>2. TextInv => ResultIsWholeText
  BY DEF TextInv, WholeText, ResultIsWholeText, DeltasUpTo
<1> QED
  BY <1>1, <1>2, TextInit, AlwaysRelayInv, PTL DEF Spec

-----------------------------------------------------------------------------
(* A queued task is scheduled and a running one attended to.               *)

\* Nothing of a task changes.
SameTask(t) ==
  /\ status'[t] = status[t] /\ log'[t] = log[t] /\ job'[t] = job[t]
  /\ enq'[t] = enq[t] /\ work'[t] = work[t] /\ can'[t] = can[t]
  /\ relay'[t] = relay[t] /\ call'[t] = call[t]

Handler(t) ==
  \/ CountActive(t) \/ EnqueueStep(t) \/ WorkerStep(t) \/ RelayWorks(t)
  \/ CancelRead(t) \/ CancelStep(t) \/ AdapterStep(t) \/ FaultStep(t)

BootOf(t) == BootRequeue(t) \/ BootResume(t) \/ BootExpire(t) \/ BootExpired(t)

\* The calls and the queue are functions of the tasks.
LEMMA PhaseTypes ==
  ASSUME ServiceInv
  PROVE  /\ status \in [Tasks -> TaskStatus] /\ log \in [Tasks -> Seq(EventRecord)]
         /\ call \in [Tasks -> [Caller -> CallRecord]]
         /\ job \in [Tasks -> JobState] /\ tries \in [Tasks -> 0 .. Attempts]
         /\ enq \in [Tasks -> EnqStep] /\ work \in [Tasks -> WorkStep]
         /\ can \in [Tasks -> CanStep] /\ relay \in [Tasks -> RelayRecord]
BY DEF ServiceInv, EventsInv, EventsTypeOK, QueueInv, QueueTypeOK, ProcessTypeOK

\* A step on one function of the tasks, or none.
Touches(f, g, t) == g = f \/ \E x : g = [f EXCEPT ![t] = x]

\* It leaves the others as they were.
LEMMA TouchesOne ==
  ASSUME NEW V, NEW f \in [Tasks -> V], NEW g, NEW t \in Tasks, Touches(f, g, t)
  PROVE  \A u \in Tasks : u # t => g[u] = f[u]
BY DEF Touches

\* Setting a call, or any number of them, of one task.
LEMMA SetCallTouches ==
  ASSUME NEW t \in Tasks, NEW c, NEW r, SetCall(t, c, r)
  PROVE  Touches(call, call', t)
BY DEF SetCall, Touches

\* The same of setting a job.
LEMMA SetJobTouches ==
  ASSUME NEW t \in Tasks, NEW state, NEW count, SetJob(t, state, count)
  PROVE  Touches(job, job', t)
BY DEF SetJob, Touches

\* A handler moves the job of its own task only.
LEMMA HandlerQueueFrame ==
  ASSUME NEW t \in Tasks, Handler(t) \/ StoreStep(t) \/ BootOf(t)
  PROVE  Touches(job, job', t)
<1>1. UNCHANGED job \/ \E state, count : SetJob(t, state, count)
  <2>1. CASE CountActive(t) \/ EnqueueStep(t)
    BY <2>1 DEF CountActive, EnqueueStep, InsertTask, AddJob, LinkJob, EnqueueReturns,
                QueueAdd, queueVars
  <2>2. CASE WorkerStep(t)
    BY <2>2 DEF WorkerStep, PickJob, ProcessJob, ExecuteAccepted, ClaimTask, UndoRun, MarkSession,
                FinalFailureReturns, QueuePick, QueueComplete, queueVars
  <2>3. CASE RelayWorks(t) \/ CancelRead(t) \/ CancelStep(t) \/ AdapterStep(t) \/ StoreStep(t)
    BY <2>3 DEF RelayWorks, OpenStream, ReceiveChunk, SavedEvent, GiveUp, RelayFailed,
                CancelRead, CancelStep, CancelQueued, CancelRunning, CancelReturns, QueueRemove,
                AdapterStep, StoreStep, queueVars
  <2>4. CASE FaultStep(t)
    BY <2>4 DEF FaultStep, CreateFails, EnqueueFails, ExecuteRefused, ExecuteReplyLost,
                MarkSessionFails, JobThrows, QueueThrow, StreamBreaks, SaveFails, StoreFails,
                TimerFires, queueVars
  <2>5. CASE BootOf(t)
    BY <2>5 DEF BootOf, BootRequeue, BootResume, BootExpire, BootExpired, QueueReconcile, queueVars
  <2> QED
    BY <2>1, <2>2, <2>3, <2>4, <2>5 DEF Handler
<1> QED
  BY <1>1, SetJobTouches DEF Touches

\* It moves its own task's requests and worker, and not the phase of the process.
LEMMA HandlerPhaseFrame ==
  ASSUME NEW t \in Tasks, Handler(t) \/ StoreStep(t) \/ BootOf(t)
  PROVE  /\ Touches(enq, enq', t) /\ Touches(work, work', t) /\ Touches(can, can', t)
         /\ UNCHANGED api
<1> USE DEF Touches, Go
<1>1. CASE CountActive(t) \/ EnqueueStep(t)
  BY <1>1 DEF CountActive, EnqueueStep, InsertTask, AddJob, LinkJob, EnqueueReturns
<1>2. CASE WorkerStep(t)
  BY <1>2 DEF WorkerStep, PickJob, ProcessJob, ExecuteAccepted, ClaimTask, UndoRun, MarkSession,
              FinalFailureReturns, processVars
<1>3. CASE RelayWorks(t)
  BY <1>3 DEF RelayWorks, OpenStream, ReceiveChunk, SavedEvent, GiveUp, RelayFailed
<1>4. CASE CancelRead(t) \/ CancelStep(t) \/ AdapterStep(t) \/ StoreStep(t)
  BY <1>4 DEF CancelRead, CancelStep, CancelQueued, CancelRunning, CancelReturns, StoreCancelled,
              AdapterStep, StoreStep, processVars
<1>5. CASE FaultStep(t)
  <2>1. CASE CreateFails(t) \/ EnqueueFails(t) \/ StoreFails(t)
    BY <2>1 DEF CreateFails, EnqueueFails, StoreFails
  <2>2. CASE ExecuteRefused(t) \/ ExecuteReplyLost(t) \/ MarkSessionFails(t)
    BY <2>2 DEF ExecuteRefused, ExecuteReplyLost, MarkSessionFails, JobThrows
  <2>3. CASE StreamBreaks(t) \/ SaveFails(t) \/ TimerFires(t)
    BY <2>3 DEF StreamBreaks, SaveFails, TimerFires
  <2> QED
    BY <1>5, <2>1, <2>2, <2>3 DEF FaultStep
<1>6. CASE BootOf(t)
  BY <1>6 DEF BootOf, BootRequeue, BootResume, BootExpire, BootExpired, processVars
<1> QED
  BY <1>1, <1>2, <1>3, <1>4, <1>5, <1>6 DEF Handler

\* It starts and ends calls for its own task.
LEMMA HandlerCallFrame ==
  ASSUME NEW t \in Tasks, Handler(t) \/ StoreStep(t) \/ BootOf(t)
  PROVE  Touches(call, call', t)
<1>1. UNCHANGED call \/ \E c, r : SetCall(t, c, r)
  <2>1. CASE CountActive(t) \/ EnqueueStep(t)
    BY <2>1 DEF CountActive, EnqueueStep, InsertTask, AddJob, LinkJob, EnqueueReturns, Resume
  <2>2. CASE WorkerStep(t)
    BY <2>2 DEF WorkerStep, PickJob, ProcessJob, ExecuteAccepted, ClaimTask, UndoRun, MarkSession,
                FinalFailureReturns, Resume
  <2>3. CASE RelayWorks(t)
    BY <2>3 DEF RelayWorks, OpenStream, ReceiveChunk, SavedEvent, GiveUp, RelayFailed, Resume
  <2>4. CASE CancelRead(t) \/ CancelStep(t) \/ AdapterStep(t)
    BY <2>4 DEF CancelRead, CancelStep, CancelQueued, CancelRunning, CancelReturns,
                StoreCancelled, AdapterStep, Resume
  <2>5. CASE StoreStep(t)
    BY <2>5 DEF StoreStep, CallStepOf, FailCheck, PersistRead, PersistLock, PersistCommit
  <2>6. CASE FaultStep(t)
    BY <2>6 DEF FaultStep, CreateFails, EnqueueFails, ExecuteRefused, ExecuteReplyLost,
                MarkSessionFails, JobThrows, StreamBreaks, SaveFails, StoreFails, TimerFires
  <2>7. CASE BootOf(t)
    BY <2>7 DEF BootOf, BootRequeue, BootResume, BootExpire, BootExpired, Resume
  <2> QED
    BY <2>1, <2>2, <2>3, <2>4, <2>5, <2>6, <2>7 DEF Handler
<1> QED
  BY <1>1, SetCallTouches DEF Touches

\* The relays are set by the steps of RelayActions alone.
LEMMA RelayUntouched ==
  ASSUME NEW t \in Tasks, Handler(t) \/ StoreStep(t) \/ BootOf(t), ~RelayActions(t)
  PROVE  UNCHANGED relay
BY DEF Handler, BootOf, BootRequeue, BootExpire, BootExpired, StoreStep,
       RelayActions, CountActive, EnqueueStep, InsertTask, AddJob, LinkJob, EnqueueReturns,
       WorkerStep, PickJob, ProcessJob, ExecuteAccepted, ClaimTask, UndoRun,
       FinalFailureReturns, RelayWorks, CancelRead, CancelStep, CancelReturns,
       AdapterStep, FaultStep, CreateFails, EnqueueFails, StoreFails,
       ExecuteRefused, ExecuteReplyLost, MarkSessionFails, processVars

\* So a handler sets the relay of its own task.
LEMMA HandlerRelayFrame ==
  ASSUME ServiceInv, NEW t \in Tasks, Handler(t) \/ StoreStep(t) \/ BootOf(t)
  PROVE  Touches(relay, relay', t)
BY RelayUntouched, RelayIsSound DEF SetRelay, Touches

\* The tables: the rows of one task.
LEMMA HandlerRowFrame ==
  ASSUME ServiceInv, NEW t \in Tasks, Handler(t) \/ StoreStep(t) \/ BootOf(t)
  PROVE  Touches(status, status', t) /\ Touches(log, log', t)
<1> USE DEF Touches
<1>1. CASE CountActive(t) \/ EnqueueStep(t) \/ WorkerStep(t)
  BY <1>1 DEF CountActive, EnqueueStep, InsertTask, AddJob, LinkJob, EnqueueReturns,
              WorkerStep, PickJob, ProcessJob, ExecuteAccepted, ClaimTask, UndoRun,
              MarkSession, FinalFailureReturns, dbVars
<1>2. CASE RelayWorks(t) \/ CancelRead(t) \/ CancelStep(t) \/ AdapterStep(t)
  BY <1>2 DEF RelayWorks, OpenStream, ReceiveChunk, SavedEvent, GiveUp, RelayFailed,
              CancelRead, CancelStep, CancelQueued, CancelRunning, CancelReturns,
              AdapterStep, dbVars
<1>3. CASE FaultStep(t)
  BY <1>3 DEF FaultStep, CreateFails, EnqueueFails, ExecuteRefused, ExecuteReplyLost,
              MarkSessionFails, StreamBreaks, SaveFails, StoreFails, Rollback, TimerFires,
              dbVars
<1>4. CASE BootOf(t)
  BY <1>4 DEF BootOf, BootRequeue, BootResume, BootExpire, BootExpired, dbVars
<1>5. CASE StoreStep(t)
  <2>1. PICK c \in Caller : CallStepOf(t, c)
    BY <1>5 DEF StoreStep
  <2>2. CASE PersistCommit(t, c)
    BY <2>2 DEF PersistCommit
  <2>3. CASE ~PersistCommit(t, c)
    BY <2>1, <2>3, UncommittedStep DEF CallStepOf, SameRows
  <2> QED
    BY <2>2, <2>3
<1> QED
  BY <1>1, <1>2, <1>3, <1>4, <1>5 DEF Handler

\* A handler works on its own task.
LEMMA OthersSame ==
  ASSUME ServiceInv, NEW t \in Tasks, Handler(t) \/ StoreStep(t) \/ BootOf(t),
         NEW u \in Tasks, u # t
  PROVE  SameTask(u) /\ api' = api
<1> HIDE DEF Handler, BootOf
<1>1. status'[u] = status[u] /\ log'[u] = log[u]
  BY HandlerRowFrame, PhaseTypes, TouchesOne
<1>2. job'[u] = job[u]
  BY HandlerQueueFrame, PhaseTypes, TouchesOne
<1>3. enq'[u] = enq[u] /\ work'[u] = work[u] /\ can'[u] = can[u] /\ api' = api
  <2>1. Touches(enq, enq', t) /\ Touches(work, work', t) /\ Touches(can, can', t) /\ api' = api
    BY HandlerPhaseFrame
  <2>2. enq \in [Tasks -> EnqStep] /\ work \in [Tasks -> WorkStep] /\ can \in [Tasks -> CanStep]
    BY PhaseTypes
  <2>3. enq'[u] = enq[u]
    BY <2>1, <2>2, TouchesOne
  <2>4. work'[u] = work[u]
    BY <2>1, <2>2, TouchesOne
  <2>5. can'[u] = can[u]
    BY <2>1, <2>2, TouchesOne
  <2> QED
    BY <2>1, <2>3, <2>4, <2>5
<1>4. relay'[u] = relay[u] /\ call'[u] = call[u]
  BY HandlerRelayFrame, HandlerCallFrame, PhaseTypes, TouchesOne
<1> QED
  BY <1>1, <1>2, <1>3, <1>4 DEF SameTask

\* Nor does it touch what the boot has to do for the others.
LEMMA TodoSame ==
  ASSUME NEW t \in Tasks, Handler(t) \/ StoreStep(t) \/ BootOf(t)
  PROVE  \A u \in Tasks : u # t => (u \in todo' <=> u \in todo)
<1>1. UNCHANGED todo \/ todo' = todo \ {t}
  <2>1. CASE CountActive(t) \/ EnqueueStep(t) \/ WorkerStep(t)
    BY <2>1 DEF CountActive, EnqueueStep, InsertTask, AddJob, LinkJob, EnqueueReturns,
                WorkerStep, PickJob, ProcessJob, ExecuteAccepted, ClaimTask, UndoRun,
                MarkSession, FinalFailureReturns, processVars
  <2>2. CASE RelayWorks(t) \/ CancelRead(t) \/ CancelStep(t) \/ AdapterStep(t) \/ StoreStep(t)
    BY <2>2 DEF RelayWorks, OpenStream, ReceiveChunk, SavedEvent, GiveUp, RelayFailed,
                CancelRead, CancelStep, CancelQueued, CancelRunning, CancelReturns,
                AdapterStep, StoreStep, processVars
  <2>3. CASE FaultStep(t)
    BY <2>3 DEF FaultStep, CreateFails, EnqueueFails, ExecuteRefused, ExecuteReplyLost,
                MarkSessionFails, StreamBreaks, SaveFails, StoreFails, TimerFires
  <2>4. CASE BootOf(t)
    BY <2>4 DEF BootOf, BootRequeue, BootResume, BootExpire, BootExpired, processVars
  <2> QED
    BY <2>1, <2>2, <2>3, <2>4 DEF Handler
<1> QED
  BY <1>1

\* A task without a row: nobody but enqueueTask knows of it.
Fresh(t) ==
  status[t] = "none" =>
    /\ job[t] = "none" /\ enq[t] \in {"idle", "insert"} /\ can[t] = "idle" /\ t \notin todo
    /\ \A c \in Caller : call[t][c].at = "idle"

\* When a call that ends a task is over, the task has ended, whether the call
\* stored the end or found it stored.
DoneEnds(t) ==
  \A c \in Caller :
    call[t][c].at = "done" /\ call[t][c].type \in Terminal => ~NeverEnded(t)

\* Until its job is added a task has none: a boot finds no request at work.
Creating(t) ==
  /\ enq[t] \in {"insert", "add"} => job[t] = "none"
  /\ enq[t] # "idle" => api = "up"

\* After its claim a task is not queued.
Claimed(t) == work[t] \in {"undo", "session"} => status[t] # "queued"

\* A task that waits for its dispatch has not ended.
Unstarted(t) == status[t] \in {"none", "queued"} => NeverEnded(t)

\* The boot awaits the end of a task it has come to, and goes on after that.
Booting(t) == call[t]["boot"].at # "idle" => api = "resume" /\ t \in todo

LifeOK(t) ==
  Fresh(t) /\ DoneEnds(t) /\ Creating(t) /\ Claimed(t) /\ Unstarted(t) /\ Booting(t)

LifeInv ==
  /\ ServiceInv
  /\ LimitInv
  /\ RelayInv
  /\ \A t \in Tasks : LifeOK(t)

\* What may be done with a task that has no row.
LEMMA FreshSteps ==
  ASSUME LifeInv, NEW t \in Tasks, status[t] = "none", Handler(t) \/ StoreStep(t) \/ BootOf(t)
  PROVE  CountActive(t) \/ InsertTask(t) \/ CreateFails(t) \/ AdapterStep(t)
<1>1. /\ job[t] = "none" /\ enq[t] \in {"idle", "insert"} /\ can[t] = "idle" /\ t \notin todo
      /\ \A c \in Caller : call[t][c].at = "idle"
  BY DEF LifeInv, LifeOK, Fresh
<1>2. work[t] = "idle"
  BY <1>1 DEF LifeInv, ServiceInv, JobIsHeld
<1>3. relay[t].at = "off"
  BY DEF LifeInv, RelayInv, RelayOK, UrlOfTask, ServiceInv, UrlInv
<1>4. ~(AddJob(t) \/ LinkJob(t) \/ EnqueueReturns(t) \/ EnqueueFails(t))
  BY <1>1 DEF AddJob, LinkJob, EnqueueReturns, EnqueueFails
<1>5. ~(WorkerStep(t) \/ ExecuteRefused(t) \/ ExecuteReplyLost(t) \/ MarkSessionFails(t))
  BY <1>1, <1>2 DEF WorkerStep, PickJob, QueuePick, ProcessJob, ExecuteAccepted, ClaimTask,
       UndoRun, MarkSession, FinalFailureReturns, Resume, ExecuteRefused, ExecuteReplyLost,
       MarkSessionFails, Caller
<1>6. ~(RelayWorks(t) \/ StreamBreaks(t) \/ SaveFails(t) \/ TimerFires(t))
  BY <1>3 DEF RelayWorks, OpenStream, ReceiveChunk, SavedEvent, GiveUp, RelayFailed,
              StreamBreaks, SaveFails, TimerFires
<1>7. ~(CancelRead(t) \/ CancelStep(t))
  BY <1>1 DEF CancelRead, CancelStep, CancelQueued, CancelRunning, CancelReturns
<1>8. ~(StoreStep(t) \/ StoreFails(t))
  BY <1>1 DEF StoreStep, CallStepOf, FailCheck, PersistRead, PersistLock, PersistCommit,
              StoreFails, Rollback, Caller
<1>9. ~BootOf(t)
  BY <1>1 DEF BootOf, BootRequeue, BootResume, BootExpire, BootExpired, BootAt, Resume, Caller
<1> QED
  BY <1>4, <1>5, <1>6, <1>7, <1>8, <1>9 DEF Handler, EnqueueStep, FaultStep

\* A row stays, and a task is queued when it is inserted only.
LEMMA RowStays ==
  ASSUME ServiceInv, StepShape, NEW t \in Tasks
  PROVE  /\ status'[t] = "none" => status[t] = "none"
         /\ status'[t] = "queued" => status[t] = "queued" \/ InsertTask(t)
<1>1. CASE SameRows \/ Crash \/ \E u \in Tasks : CallSet(u)
  BY <1>1 DEF SameRows, CallSet, Crash, dbVars
<1>2. ASSUME NEW u \in Tasks, InsertTask(u) \/ ClaimTask(u)
      PROVE  /\ status'[t] = "none" => status[t] = "none"
             /\ status'[t] = "queued" => status[t] = "queued" \/ InsertTask(t)
  BY <1>2, PhaseTypes DEF InsertTask, ClaimTask
<1>3. ASSUME NEW u \in Tasks, NEW c \in Caller, CallStepOf(u, c)
      PROVE  /\ status'[t] = "none" => status[t] = "none"
             /\ status'[t] = "queued" => status[t] = "queued"
  <2>1. CASE PersistCommit(u, c)
    <3>1. Committed(u, c)
      BY <2>1, CommitRows
    <3> QED
      BY <3>1 DEF Committed, CallRecord, EventType, Terminal
  <2>2. CASE ~PersistCommit(u, c)
    BY <1>3, <2>2, UncommittedStep DEF CallStepOf, SameRows
  <2> QED
    BY <2>1, <2>2
<1> QED
  BY <1>1, <1>2, <1>3 DEF StepShape

\* The step of a task keeps what is known of a task without a row.
LEMMA FreshStep ==
  ASSUME LifeInv, NEW t \in Tasks, Handler(t) \/ StoreStep(t) \/ BootOf(t), StepShape
  PROVE  Fresh(t)'
<1> SUFFICES ASSUME status'[t] = "none"
             PROVE  /\ job'[t] = "none" /\ enq'[t] \in {"idle", "insert"} /\ can'[t] = "idle"
                    /\ t \notin todo'
                    /\ \A c \in Caller : call'[t][c].at = "idle"
  BY DEF Fresh
<1>1. status[t] = "none"
  BY RowStays DEF LifeInv
<1>2. CountActive(t) \/ InsertTask(t) \/ CreateFails(t) \/ AdapterStep(t)
  BY <1>1, FreshSteps
<1>3. /\ job[t] = "none" /\ enq[t] \in {"idle", "insert"} /\ can[t] = "idle" /\ t \notin todo
      /\ \A c \in Caller : call[t][c].at = "idle"
  BY <1>1 DEF LifeInv, LifeOK, Fresh
<1>4. ~InsertTask(t)
  BY PhaseTypes DEF InsertTask, LifeInv
<1>5. UNCHANGED <<job, can, todo, call>>
  BY <1>2, <1>4 DEF CountActive, CreateFails, AdapterStep, queueVars, processVars
<1>6. enq'[t] \in {"idle", "insert"}
  BY <1>2, <1>3, <1>4, PhaseTypes DEF CountActive, CreateFails, AdapterStep, Go, processVars, LifeInv
<1> QED
  BY <1>3, <1>5, <1>6

\* What has ended stays so.
LEMMA EndedStays ==
  ASSUME ServiceInv, [Next]_vars, NEW t \in Tasks, ~NeverEnded(t)
  PROVE  ~NeverEnded(t)'
<1>1. CASE UNCHANGED log
  BY <1>1 DEF NeverEnded
<1>2. ASSUME NEW u \in Tasks, NEW c \in Caller, CallStepOf(u, c)
      PROVE  ~NeverEnded(t)'
  <2>1. CASE PersistCommit(u, c)
    <3>1. Committed(u, c)
      BY <2>1, CommitRows
    <3>2. CASE t = u
      <4> DEFINE row == [type |-> call[t][c].type, src |-> call[t][c].src]
      <4>1. log'[t] = Append(log[t], row) /\ log[t] \in Seq(EventRecord)
        BY <3>1, <3>2 DEF Committed
      <4> HIDE DEF row
      <4>2. (\A i \in DOMAIN log'[t] : log'[t][i].type \notin Terminal)
            <=> /\ \A i \in DOMAIN log[t] : log[t][i].type \notin Terminal
                /\ row.type \notin Terminal
        BY <4>1, CommitEnds
      <4> QED
        BY <4>2 DEF NeverEnded
    <3>3. CASE t # u
      BY <3>1, <3>3 DEF Committed, NeverEnded
    <3> QED
      BY <3>2, <3>3
  <2>2. CASE ~PersistCommit(u, c)
    BY <1>1, <1>2, <2>2, UncommittedStep DEF CallStepOf, SameRows
  <2> QED
    BY <2>1, <2>2
<1> QED
  BY <1>1, <1>2, LogUnchanged DEF StoreStep

\* A procedure that is over stored the end of the task or found one stored.
LEMMA DoneReads ==
  ASSUME LifeInv, NEW t \in Tasks, NEW c \in Caller, FailCheck(t, c) \/ PersistRead(t, c),
         call'[t][c].at = "done", call'[t][c].type \in Terminal
  PROVE  ~NeverEnded(t)
<1> DEFINE e == call[t][c]
<1>0. e \in CallRecord /\ e.at # "idle" /\ ServiceInv /\ RelayOK(t) /\ "relay" \in Caller
  BY DEF LifeInv, ServiceInv, EventsInv, EventsTypeOK, RelayInv, FailCheck, PersistRead, Caller
<1>1. status[t] # "none"
  BY <1>0 DEF LifeInv, LifeOK, Fresh
<1>2. CASE status[t] \in Terminal
  BY <1>2 DEF LifeInv, LimitInv, EndingsStored
<1>3. CASE status[t] \notin Terminal
  <2>1. PersistRead(t, c)
    <3>1. ~FailCheck(t, c)
      <4> SUFFICES ASSUME FailCheck(t, c) PROVE FALSE
        OBVIOUS
      <4>1. SetCall(t, c, PersistCall("failed", 0))
        BY <1>1, <1>3 DEF FailCheck
      <4>2. call'[t][c] = PersistCall("failed", 0)
        BY <1>0, <4>1, RelayIsSet
      <4> QED
        BY <4>2, CallFields
    <3> QED
      BY <3>1
  <2>2. e.at = "read" /\ \E at : SetCall(t, c, [e EXCEPT !.at = at])
    BY <2>1 DEF PersistRead
  <2>3. call'[t][c].type = e.type /\ (call'[t][c].at = "done" => e.src > 0 /\ Persisted(t, e.src))
    <3> DEFINE dropped == \/ status[t] \in Terminal \cup {"none"}
                          \/ e.src > 0 /\ Persisted(t, e.src)
               at == IF dropped THEN "done" ELSE IF e.type = "completed" THEN "lock" ELSE "commit"
    <3>1. SetCall(t, c, [e EXCEPT !.at = at])
      BY <2>1 DEF PersistRead
    <3>2. call'[t][c] = [e EXCEPT !.at = at]
      BY <1>0, <3>1, RelayIsSet
    <3>3. [e EXCEPT !.at = at].type = e.type /\ [e EXCEPT !.at = at].at = at
      BY <1>0 DEF CallRecord
    <3>4. at = "done" => dropped
      OBVIOUS
    <3> QED
      BY <1>1, <1>3, <3>2, <3>3, <3>4
  <2>4. e.src > 0 /\ Persisted(t, e.src) /\ e.type \in Terminal
    BY <2>3
  <2>5. c = "relay"
    BY <1>0, <2>4 DEF ServiceInv, EventsInv, CallersInv
  <2>6. relay[t].at = "saving"
    <3>1. relay[t].at \in RelayStep
      BY <1>0 DEF ServiceInv, ProcessTypeOK, RelayRecord
    <3> QED
      BY <1>0, <2>2, <2>4, <2>5, <3>1 DEF RelayOK, CallOfRelay, RelayStep
  <2>7. e.src = relay[t].pos + 1 /\ e.type = stream[t][e.src]
    BY <1>0, <2>5, <2>6 DEF RelayOK, CallOfRelay
  <2>8. PICK i \in DOMAIN log[t] : log[t][i].src = e.src
    BY <2>4 DEF Persisted
  <2>9. i \in Relayed(t)
    BY <2>4, <2>8 DEF Relayed
  <2>10. log[t][i].type = e.type
    BY <1>0, <2>7, <2>8, <2>9 DEF RelayOK, PrefixOf
  <2> QED
    BY <2>4, <2>8, <2>10 DEF NeverEnded
<1> QED
  BY <1>2, <1>3

\* Every step keeps DoneEnds: a call comes to done by the procedures alone.
LEMMA DoneEndsStep ==
  ASSUME LifeInv, StepShape, [Next]_vars, NEW t \in Tasks
  PROVE  DoneEnds(t)'
<1> SUFFICES ASSUME NEW c \in Caller, call'[t][c].at = "done", call'[t][c].type \in Terminal
             PROVE  ~NeverEnded(t)'
  BY DEF DoneEnds
<1>0. ServiceInv
  BY DEF LifeInv
<1>1. CASE call'[t][c] = call[t][c]
  BY <1>0, <1>1, EndedStays DEF LifeInv, LifeOK, DoneEnds
<1>2. CASE call'[t][c] # call[t][c]
  <2>1. ~Crash
    BY CallFields DEF Crash
  <2>2. ~\E u \in Tasks : InsertTask(u) \/ ClaimTask(u)
    BY <1>2 DEF InsertTask, ClaimTask
  <2>3. ASSUME NEW u \in Tasks, CallSet(u) PROVE FALSE
    <3>0. PICK d \in Caller : \E r : SetCall(u, d, r) /\ r.at \in {"idle", "check", "read"}
      BY <2>3 DEF CallSet
    <3>1. PICK r : SetCall(u, d, r) /\ r.at \in {"idle", "check", "read"}
      BY <3>0
    <3>2. call'[t][c] = IF t = u /\ c = d THEN r ELSE call[t][c]
      BY <1>0, <3>1, RelayIsSet
    <3> QED
      BY <1>2, <3>1, <3>2
  <2>4. PICK u \in Tasks, d \in Caller : CallStepOf(u, d)
    BY <1>2, <2>1, <2>2, <2>3 DEF StepShape
  <2>5. \E e : SetCall(u, d, e)
    BY <2>4 DEF CallStepOf, FailCheck, PersistRead, PersistLock, PersistCommit
  <2>6. t = u /\ c = d
    BY <1>0, <1>2, <2>5, RelayIsSet
  <2>7. ~PersistLock(t, c)
    <3> SUFFICES ASSUME PersistLock(t, c) PROVE FALSE
      OBVIOUS
    <3>1. SetCall(t, c, [call[t][c] EXCEPT !.at = "commit",
                                           !.version = LatestVersion(SessionOf[t]) + 1])
      BY DEF PersistLock
    <3>2. call[t][c] \in CallRecord
      BY <1>0 DEF ServiceInv, EventsInv, EventsTypeOK
    <3>3. call'[t][c] = [call[t][c] EXCEPT !.at = "commit",
                                           !.version = LatestVersion(SessionOf[t]) + 1]
      BY <1>0, <3>1, RelayIsSet
    <3> QED
      BY <3>2, <3>3 DEF CallRecord
  <2>8. CASE FailCheck(t, c) \/ PersistRead(t, c)
    BY <1>0, <2>8, DoneReads, EndedStays
  <2>9. CASE PersistCommit(t, c)
    <3>1. Committed(t, c)
      BY <1>0, <2>9, CommitRows
    <3> DEFINE row == [type |-> call[t][c].type, src |-> call[t][c].src]
    <3>2. log'[t] = Append(log[t], row) /\ log[t] \in Seq(EventRecord) /\ row.type \in Terminal
      <4>1. call'[t][c] = [call[t][c] EXCEPT !.at = "done"] /\ call[t][c] \in CallRecord
        BY <3>1 DEF Committed
      <4>2. call'[t][c].type = call[t][c].type
        BY <4>1 DEF CallRecord
      <4> QED
        BY <3>1, <4>2 DEF Committed
    <3> HIDE DEF row
    <3>3. (\A i \in DOMAIN log'[t] : log'[t][i].type \notin Terminal)
          <=> /\ \A i \in DOMAIN log[t] : log[t][i].type \notin Terminal
              /\ row.type \notin Terminal
      BY <3>2, CommitEnds
    <3> QED
      BY <3>2, <3>3 DEF NeverEnded
  <2> QED
    BY <2>4, <2>6, <2>7, <2>8, <2>9 DEF CallStepOf
<1> QED
  BY <1>1, <1>2

\* What a step leaves a worker or a request at.
LEMMA PhaseMoves ==
  ASSUME ServiceInv, NEW t \in Tasks, Handler(t) \/ StoreStep(t) \/ BootOf(t)
  PROVE  /\ work'[t] \in {"undo", "session"} => work'[t] = work[t] \/ ClaimTask(t)
         /\ enq'[t] = "insert" => enq[t] = "insert" \/ CountActive(t)
         /\ enq'[t] = "add" => enq[t] = "add" \/ InsertTask(t)
         /\ enq'[t] # "idle" => enq[t] # "idle" \/ CountActive(t)
         /\ can'[t] = "persist" => can[t] = "persist" \/ StoreCancelled(t)
<1> USE PhaseTypes DEF Go
<1>1. CASE CountActive(t) \/ EnqueueStep(t)
  BY <1>1 DEF CountActive, EnqueueStep, InsertTask, AddJob, LinkJob, EnqueueReturns
<1>2. CASE WorkerStep(t)
  BY <1>2 DEF WorkerStep, PickJob, ProcessJob, ExecuteAccepted, ClaimTask, UndoRun, MarkSession,
              FinalFailureReturns, processVars
<1>3. CASE RelayWorks(t)
  BY <1>3 DEF RelayWorks, OpenStream, ReceiveChunk, SavedEvent, GiveUp, RelayFailed
<1>4. CASE CancelRead(t) \/ CancelStep(t) \/ AdapterStep(t) \/ StoreStep(t)
  BY <1>4 DEF CancelRead, CancelStep, CancelQueued, CancelRunning, CancelReturns,
              AdapterStep, StoreStep, processVars
<1>5. CASE FaultStep(t)
  <2>1. CASE CreateFails(t) \/ EnqueueFails(t) \/ StoreFails(t)
    BY <2>1 DEF CreateFails, EnqueueFails, StoreFails
  <2>2. CASE ExecuteRefused(t) \/ ExecuteReplyLost(t) \/ MarkSessionFails(t)
    BY <2>2 DEF ExecuteRefused, ExecuteReplyLost, MarkSessionFails, JobThrows
  <2>3. CASE StreamBreaks(t) \/ SaveFails(t) \/ TimerFires(t)
    BY <2>3 DEF StreamBreaks, SaveFails, TimerFires
  <2> QED
    BY <1>5, <2>1, <2>2, <2>3 DEF FaultStep
<1>6. CASE BootOf(t)
  BY <1>6 DEF BootOf, BootRequeue, BootResume, BootExpire, BootExpired, processVars
<1> QED
  BY <1>1, <1>2, <1>3, <1>4, <1>5, <1>6 DEF Handler

\* Who moves the job of a task, and from where.
LEMMA JobMoves ==
  ASSUME ServiceInv, NEW t \in Tasks, Handler(t) \/ StoreStep(t) \/ BootOf(t), job[t] = "none"
  PROVE  job'[t] = "none" \/ AddJob(t) \/ api = "requeue"
<1>0. work[t] = "idle"
  BY DEF ServiceInv, JobIsHeld
<1>1. CASE CountActive(t) \/ EnqueueStep(t)
  BY <1>1 DEF CountActive, EnqueueStep, InsertTask, LinkJob, EnqueueReturns, queueVars
<1>2. CASE WorkerStep(t)
  BY <1>0, <1>2 DEF WorkerStep, PickJob, QueuePick, ProcessJob, ExecuteAccepted, ClaimTask, UndoRun,
                    MarkSession, FinalFailureReturns, queueVars
<1>3. CASE RelayWorks(t) \/ CancelRead(t) \/ CancelStep(t) \/ AdapterStep(t) \/ StoreStep(t)
  BY <1>3 DEF RelayWorks, OpenStream, ReceiveChunk, SavedEvent, GiveUp, RelayFailed,
              CancelRead, CancelStep, CancelQueued, CancelRunning, CancelReturns, QueueRemove,
              AdapterStep, StoreStep, queueVars
<1>4. CASE FaultStep(t)
  BY <1>0, <1>4 DEF FaultStep, CreateFails, EnqueueFails, ExecuteRefused, ExecuteReplyLost,
              MarkSessionFails, StreamBreaks, SaveFails, StoreFails, TimerFires, queueVars
<1>5. CASE BootOf(t)
  BY <1>5 DEF BootOf, BootRequeue, BootResume, BootExpire, BootExpired, queueVars
<1> QED
  BY <1>1, <1>2, <1>3, <1>4, <1>5 DEF Handler

\* The step of a task keeps Creating.
LEMMA CreatingStep ==
  ASSUME LifeInv, NEW t \in Tasks, Handler(t) \/ StoreStep(t) \/ BootOf(t)
  PROVE  Creating(t)'
<1> HIDE DEF Handler, BootOf
<1>0. ServiceInv /\ Creating(t) /\ Fresh(t) /\ api' = api
  BY HandlerPhaseFrame DEF LifeInv, LifeOK
<1>1. enq'[t] # "idle" => api' = "up"
  BY <1>0, PhaseMoves DEF Creating, CountActive
<1>2. ASSUME enq'[t] \in {"insert", "add"} PROVE job'[t] = "none"
  <2>1. enq[t] \in {"insert", "add"} \/ CountActive(t)
    BY <1>0, <1>2, PhaseMoves DEF InsertTask
  <2>2. job[t] = "none"
    BY <1>0, <2>1 DEF Creating, Fresh, CountActive
  <2>3. api # "requeue"
    BY <1>0, <1>1, <1>2
  <2>4. ~AddJob(t)
    BY <1>0, <1>2, PhaseTypes DEF AddJob, Go
  <2> QED
    BY <1>0, <2>2, <2>3, <2>4, JobMoves
<1> QED
  BY <1>1, <1>2 DEF Creating

\* The step of a task keeps Claimed: only InsertTask makes it queued.
LEMMA ClaimedStep ==
  ASSUME LifeInv, StepShape, NEW t \in Tasks, Handler(t) \/ StoreStep(t) \/ BootOf(t)
  PROVE  Claimed(t)'
<1> HIDE DEF Handler, BootOf
<1>0. ServiceInv /\ Claimed(t) /\ Fresh(t)
  BY DEF LifeInv, LifeOK
<1> SUFFICES ASSUME work'[t] \in {"undo", "session"}, status'[t] = "queued" PROVE FALSE
  BY DEF Claimed
<1>1. ~ClaimTask(t)
  BY <1>0, PhaseTypes DEF ClaimTask, Go
<1>2. work[t] \in {"undo", "session"}
  BY <1>0, <1>1, PhaseMoves
<1>3. status[t] # "queued"
  BY <1>0, <1>2 DEF Claimed
<1>4. InsertTask(t)
  BY <1>0, <1>3, RowStays
<1>5. status[t] = "none"
  BY <1>0, <1>4 DEF InsertTask, ServiceInv, RowsExist
<1> QED
  BY <1>0, <1>2, <1>5 DEF Fresh, ServiceInv, JobIsHeld

\* A step of the whole process: a crash, or onModuleInit going on.
BootPhase == BootStart \/ BootScan \/ BootDone

\* Every step is one of a task, one of the whole process, or none.
LEMMA StepsOfTasks ==
  ASSUME [Next]_vars
  PROVE  \/ \E t \in Tasks : Handler(t) \/ StoreStep(t) \/ BootOf(t)
         \/ BootPhase \/ Crash \/ UNCHANGED vars
BY DEF Next, Handler, BootOf, BootStep, BootPhase

\* A task that a step does not touch.
LEMMA LifeOfOthers ==
  ASSUME ServiceInv, NEW u \in Tasks, LifeOK(u), SameTask(u), api' = api,
         u \in todo' <=> u \in todo
  PROVE  LifeOK(u)'
BY DEF SameTask, LifeOK, Fresh, DoneEnds, Creating, Claimed, Unstarted, Booting, NeverEnded

\* A task ends by a commit that makes its status terminal.
LEMMA UnstartedStep ==
  ASSUME LifeInv, StepShape, NEW t \in Tasks, Handler(t) \/ StoreStep(t) \/ BootOf(t), [Next]_vars
  PROVE  Unstarted(t)'
<1> HIDE DEF Handler, BootOf
<1>0. ServiceInv /\ Unstarted(t)
  BY DEF LifeInv, LifeOK
<1> SUFFICES ASSUME status'[t] \in {"none", "queued"} PROVE NeverEnded(t)'
  BY DEF Unstarted
<1>1. status[t] \in {"none", "queued"}
  BY <1>0, RowStays DEF InsertTask, ServiceInv, RowsExist
<1>2. NeverEnded(t)
  BY <1>0, <1>1 DEF Unstarted
<1>3. CASE UNCHANGED log
  BY <1>2, <1>3 DEF NeverEnded
<1>4. ASSUME NEW u \in Tasks, NEW c \in Caller, PersistCommit(u, c) PROVE NeverEnded(t)'
  <2>1. Committed(u, c)
    BY <1>0, <1>4, CommitRows
  <2>2. CASE u # t
    BY <1>2, <2>1, <2>2 DEF Committed, NeverEnded
  <2>3. CASE u = t
    <3> DEFINE row == [type |-> call[t][c].type, src |-> call[t][c].src]
    <3>1. log'[t] = Append(log[t], row) /\ log[t] \in Seq(EventRecord) /\ row.type \notin Terminal
      BY <2>1, <2>3 DEF Committed, Terminal
    <3> HIDE DEF row
    <3>2. (\A i \in DOMAIN log'[t] : log'[t][i].type \notin Terminal)
          <=> /\ \A i \in DOMAIN log[t] : log[t][i].type \notin Terminal
              /\ row.type \notin Terminal
      BY <3>1, CommitEnds
    <3> QED
      BY <1>2, <3>1, <3>2 DEF NeverEnded
  <2> QED
    BY <2>2, <2>3
<1>5. ASSUME NEW u \in Tasks, NEW c \in Caller, CallStepOf(u, c), ~PersistCommit(u, c)
      PROVE  NeverEnded(t)'
  BY <1>0, <1>3, <1>5, UncommittedStep DEF CallStepOf, SameRows
<1> QED
  BY <1>0, <1>3, <1>4, <1>5, LogUnchanged DEF StoreStep

\* Who ends the call of the boot, and who takes a task off its list.
LEMMA BootMoves ==
  ASSUME ServiceInv, NEW t \in Tasks, Handler(t) \/ StoreStep(t) \/ BootOf(t)
  PROVE  /\ call'[t]["boot"].at # "idle" => call[t]["boot"].at # "idle" \/ BootExpire(t)
         /\ t \in todo => t \in todo' \/ BootRequeue(t) \/ BootResume(t) \/ BootExpired(t)
<1>1. CASE Handler(t)
  <2>1. UNCHANGED call \/ \E c \in Caller \ {"boot"} : \E r : SetCall(t, c, r)
    <3>1. CASE CountActive(t) \/ EnqueueStep(t)
      BY <3>1 DEF CountActive, EnqueueStep, InsertTask, AddJob, LinkJob, EnqueueReturns, Resume, Caller
    <3>2. CASE WorkerStep(t)
      BY <3>2 DEF WorkerStep, PickJob, ProcessJob, ExecuteAccepted, ClaimTask, UndoRun, MarkSession,
                  FinalFailureReturns, Resume, Caller
    <3>3. CASE RelayWorks(t)
      BY <3>3 DEF RelayWorks, OpenStream, ReceiveChunk, SavedEvent, GiveUp, RelayFailed, Resume, Caller
    <3>4. CASE CancelRead(t) \/ CancelStep(t) \/ AdapterStep(t)
      BY <3>4 DEF CancelRead, CancelStep, CancelQueued, CancelRunning, CancelReturns,
                  StoreCancelled, AdapterStep, Resume, Caller
    <3>5. CASE FaultStep(t)
      BY <3>5 DEF FaultStep, CreateFails, EnqueueFails, ExecuteRefused, ExecuteReplyLost,
                  MarkSessionFails, JobThrows, StreamBreaks, SaveFails, StoreFails, TimerFires, Caller
    <3> QED
      BY <1>1, <3>1, <3>2, <3>3, <3>4, <3>5 DEF Handler
  <2>2. call'[t]["boot"] = call[t]["boot"]
    BY <2>1, RelayIsSet DEF Caller
  <2>3. UNCHANGED todo
    <3>1. CASE CountActive(t) \/ EnqueueStep(t) \/ WorkerStep(t)
      BY <3>1 DEF CountActive, EnqueueStep, InsertTask, AddJob, LinkJob, EnqueueReturns,
                  WorkerStep, PickJob, ProcessJob, ExecuteAccepted, ClaimTask, UndoRun,
                  MarkSession, FinalFailureReturns, processVars
    <3>2. CASE RelayWorks(t) \/ CancelRead(t) \/ CancelStep(t) \/ AdapterStep(t)
      BY <3>2 DEF RelayWorks, OpenStream, ReceiveChunk, SavedEvent, GiveUp, RelayFailed,
                  CancelRead, CancelStep, CancelQueued, CancelRunning, CancelReturns,
                  AdapterStep, processVars
    <3>3. CASE FaultStep(t)
      BY <3>3 DEF FaultStep, CreateFails, EnqueueFails, ExecuteRefused, ExecuteReplyLost,
                  MarkSessionFails, StreamBreaks, SaveFails, StoreFails, TimerFires
    <3> QED
      BY <1>1, <3>1, <3>2, <3>3 DEF Handler
  <2> QED
    BY <2>2, <2>3
<1>2. CASE StoreStep(t)
  <2>1. PICK c \in Caller : CallStepOf(t, c)
    BY <1>2 DEF StoreStep
  <2>2. call[t][c].at # "idle" /\ \E r : SetCall(t, c, r)
    BY <2>1 DEF CallStepOf, FailCheck, PersistRead, PersistLock, PersistCommit
  <2>3. call'[t]["boot"] = call[t]["boot"] \/ c = "boot"
    BY <2>2, RelayIsSet DEF Caller
  <2> QED
    BY <1>2, <2>2, <2>3 DEF StoreStep, processVars
<1>3. CASE BootOf(t)
  <2>1. CASE BootRequeue(t) \/ BootResume(t)
    BY <2>1 DEF BootRequeue, BootResume
  <2>2. CASE BootExpire(t)
    BY <2>2 DEF BootExpire, processVars
  <2>3. CASE BootExpired(t)
    BY <2>3 DEF BootExpired, Resume
  <2> QED
    BY <1>3, <2>1, <2>2, <2>3 DEF BootOf
<1> QED
  BY <1>1, <1>2, <1>3

\* The boot keeps the task whose end it awaits on its list.
LEMMA BootingStep ==
  ASSUME LifeInv, NEW t \in Tasks, Handler(t) \/ StoreStep(t) \/ BootOf(t)
  PROVE  Booting(t)'
<1> HIDE DEF Handler, BootOf
<1>0. ServiceInv /\ Booting(t) /\ api' = api /\ "boot" \in Caller
  BY HandlerPhaseFrame DEF LifeInv, LifeOK, Caller
<1> SUFFICES ASSUME call'[t]["boot"].at # "idle" PROVE api = "resume" /\ t \in todo'
  BY <1>0 DEF Booting
<1>1. CASE BootExpire(t)
  BY <1>1 DEF BootExpire, BootAt, processVars
<1>2. CASE ~BootExpire(t)
  <2>1. call[t]["boot"].at # "idle" /\ api = "resume" /\ t \in todo
    BY <1>0, <1>2, BootMoves DEF Booting
  <2>2. ~BootRequeue(t) /\ ~BootResume(t)
    BY <2>1 DEF BootRequeue, BootResume, BootAt
  <2>3. ~BootExpired(t)
    <3> SUFFICES ASSUME BootExpired(t) PROVE FALSE
      OBVIOUS
    <3>1. SetCall(t, "boot", IdleCall)
      BY DEF BootExpired, Resume
    <3>2. call'[t]["boot"] = IdleCall
      BY <1>0, <3>1, RelayIsSet
    <3> QED
      BY <3>2, CallFields
  <2> QED
    BY <1>0, <2>1, <2>2, <2>3, BootMoves
<1> QED
  BY <1>1, <1>2

\* The invariant of the life of a task is inductive.
LEMMA LifeStep ==
  ASSUME LifeInv, [Next]_vars
  PROVE  \A u \in Tasks : LifeOK(u)'
<1> HIDE DEF Handler, BootOf
<1>0. ServiceInv /\ StepShape
  BY StepShapes DEF LifeInv
<1>1. ASSUME NEW t \in Tasks, Handler(t) \/ StoreStep(t) \/ BootOf(t), NEW u \in Tasks
      PROVE  LifeOK(u)'
  <2>1. CASE u = t
    BY <1>0, <1>1, <2>1, FreshStep, DoneEndsStep, CreatingStep, ClaimedStep, UnstartedStep,
       BootingStep DEF LifeOK
  <2>2. CASE u # t
    BY <1>0, <1>1, <2>2, OthersSame, TodoSame, LifeOfOthers DEF LifeInv
  <2> QED
    BY <2>1, <2>2
<1>2. ASSUME NEW u \in Tasks, BootPhase
      PROVE  LifeOK(u)'
  <2>1. SameTask(u)
    BY <1>2 DEF BootPhase, BootStart, BootScan, BootDone, SameTask, dbVars, queueVars
  <2>2. DoneEnds(u)' /\ Claimed(u)' /\ Unstarted(u)'
    BY <2>1 DEF SameTask, DoneEnds, Claimed, Unstarted, NeverEnded, LifeInv, LifeOK
  <2>3. enq[u] = "idle"
    BY <1>2 DEF BootPhase, BootStart, BootScan, BootDone, LifeInv, LifeOK, Creating
  <2>4. Creating(u)'
    BY <2>1, <2>3 DEF SameTask, Creating
  <2>5. status[u] = "none" => u \notin todo'
    BY <1>2 DEF BootPhase, BootStart, BootScan, BootDone
  <2>6. Fresh(u)'
    BY <2>1, <2>5 DEF SameTask, Fresh, LifeInv, LifeOK
  <2>7. Booting(u)'
    BY <1>2, <2>1 DEF SameTask, BootPhase, BootStart, BootScan, BootDone, Booting, LifeInv, LifeOK
  <2> QED
    BY <2>2, <2>4, <2>6, <2>7 DEF LifeOK
<1>3. ASSUME NEW u \in Tasks, Crash
      PROVE  LifeOK(u)'
  <2>1. /\ todo' = {} /\ enq'[u] = "idle" /\ work'[u] = "idle" /\ can'[u] = "idle"
        /\ \A c \in Caller : call'[u][c] = IdleCall
        /\ status' = status /\ (job[u] = "none" => job'[u] = "none")
    BY <1>3 DEF Crash, dbVars, QueueStalled
  <2>2. Fresh(u)'
    BY <2>1, CallFields DEF Fresh, LifeInv, LifeOK
  <2>3. Unstarted(u)'
    BY <1>3, <2>1 DEF Crash, dbVars, Unstarted, NeverEnded, LifeInv, LifeOK
  <2>4. Booting(u)'
    BY <2>1, CallFields DEF Booting, Caller
  <2> QED
    BY <2>1, <2>2, <2>3, <2>4, CallFields DEF LifeOK, DoneEnds, Creating, Claimed
<1>4. ASSUME NEW u \in Tasks, UNCHANGED vars
      PROVE  LifeOK(u)'
  <2>1. SameTask(u) /\ api' = api /\ todo' = todo
    BY <1>4 DEF vars, SameTask, dbVars, queueVars, processVars
  <2> QED
    BY <1>0, <2>1, LifeOfOthers DEF LifeInv
<1> QED
  BY <1>1, <1>2, <1>3, <1>4, StepsOfTasks

\* It holds at first.
LEMMA LifeInit == Init => \A t \in Tasks : LifeOK(t)
<1> SUFFICES ASSUME Init, NEW t \in Tasks PROVE LifeOK(t)
  OBVIOUS
<1>1. /\ job[t] = "none" /\ enq[t] = "idle" /\ work[t] = "idle" /\ can[t] = "idle" /\ todo = {}
      /\ \A c \in Caller : call[t][c].at = "idle"
  BY CallFields DEF Init, QueueInit, EventsInit
<1>2. Unstarted(t)
  BY DEF Init, EventsInit, Unstarted, NeverEnded
<1> QED
  BY <1>1, <1>2 DEF LifeOK, Fresh, DoneEnds, Creating, Claimed, Booting, Caller

\* It holds in every reachable state.
LEMMA AlwaysLifeInv == Spec => []LifeInv
<1>1. LifeInv /\ [Next]_vars => \A t \in Tasks : LifeOK(t)'
  BY LifeStep
<1>2. ServiceInv /\ LimitInv /\ [Next]_vars => LimitInv'
  BY LimitStep
<1> DEFINE L == \A t \in Tasks : LifeOK(t)
<1>3. LifeInv <=> ServiceInv /\ LimitInv /\ RelayInv /\ L
  BY DEF LifeInv
<1>4. LifeInv /\ [Next]_vars => L'
  BY <1>1
<1>5. Init => L
  BY LifeInit
<1> HIDE DEF L
<1>6. ServiceInv /\ RelayInv /\ [Next]_vars => RelayInv'
  BY RelayInvStep
<1>7. ServiceInv' /\ LimitInv' /\ RelayInv' /\ L' => LifeInv'
  BY <1>3 DEF L, LifeInv
<1> QED
  BY <1>2, <1>3, <1>4, <1>5, <1>6, <1>7, LimitInit, RelayInvInit, ServiceAlwaysInv, PTL DEF Spec

\* A call that is under way is still so after the step.
CallKept(t, c) == call[t][c].at # "idle" => call'[t][c].at # "idle"

\* A step of the procedures ends no call: its caller does, when it resumes.
LEMMA StepKeepsCalls ==
  ASSUME ServiceInv, NEW t \in Tasks, StoreStep(t)
  PROVE  \A c \in Caller : CallKept(t, c)
<1>1. PICK d \in Caller : CallStepOf(t, d)
  BY DEF StoreStep
<1>2. call[t][d] \in CallRecord
  BY DEF ServiceInv, EventsInv, EventsTypeOK
<1>3. PICK e : SetCall(t, d, e) /\ e.at # "idle"
  <2>1. CASE FailCheck(t, d)
    <3>1. [call[t][d] EXCEPT !.at = "done"].at = "done"
      BY <1>2 DEF CallRecord
    <3> QED
      BY <2>1, <3>1, CallFields DEF FailCheck
  <2>2. CASE PersistRead(t, d)
    <3>1. \A at : [call[t][d] EXCEPT !.at = at].at = at
      BY <1>2 DEF CallRecord
    <3> QED
      BY <2>2, <3>1 DEF PersistRead
  <2>3. CASE PersistLock(t, d)
    <3>1. \A v : [call[t][d] EXCEPT !.at = "commit", !.version = v].at = "commit"
      BY <1>2 DEF CallRecord
    <3> QED
      BY <2>3, <3>1 DEF PersistLock
  <2>4. CASE PersistCommit(t, d)
    <3>1. [call[t][d] EXCEPT !.at = "done"].at = "done"
      BY <1>2 DEF CallRecord
    <3> QED
      BY <2>4, <3>1 DEF PersistCommit
  <2> QED
    BY <1>1, <2>1, <2>2, <2>3, <2>4 DEF CallStepOf
<1>4. \A c \in Caller : call'[t][c] = IF c = d THEN e ELSE call[t][c]
  BY <1>3, RelayIsSet
<1> QED
  BY <1>3, <1>4 DEF CallKept

\* The "failed" listener is heard until its failTask is over.
LEMMA WorkerCallKept ==
  ASSUME ServiceInv, NEW t \in Tasks, Handler(t) \/ StoreStep(t) \/ BootOf(t), ~StoreFails(t)
  PROVE  CallKept(t, "worker") \/ FinalFailureReturns(t)
<1>0. "worker" \in Caller
  BY DEF Caller
<1>1. CASE Handler(t) \/ BootOf(t)
  <2>1. \/ UNCHANGED call
        \/ \E c \in Caller \ {"worker"} : \E r : SetCall(t, c, r)
        \/ SetCall(t, "worker", FailCall)
        \/ FinalFailureReturns(t)
    <3>1. CASE CountActive(t) \/ EnqueueStep(t)
      BY <3>1 DEF CountActive, EnqueueStep, InsertTask, AddJob, LinkJob, EnqueueReturns, Resume, Caller
    <3>2. CASE WorkerStep(t)
      BY <3>2 DEF WorkerStep, PickJob, ProcessJob, ExecuteAccepted, ClaimTask, UndoRun, MarkSession
    <3>3. CASE RelayWorks(t)
      BY <3>3 DEF RelayWorks, OpenStream, ReceiveChunk, SavedEvent, GiveUp, RelayFailed, Resume, Caller
    <3>4. CASE CancelRead(t) \/ CancelStep(t) \/ AdapterStep(t)
      BY <3>4 DEF CancelRead, CancelStep, CancelQueued, CancelRunning, CancelReturns,
                  StoreCancelled, AdapterStep, Resume, Caller
    <3>5. CASE FaultStep(t)
      BY <3>5 DEF FaultStep, CreateFails, EnqueueFails, ExecuteRefused, ExecuteReplyLost,
                  MarkSessionFails, JobThrows, StreamBreaks, SaveFails, TimerFires, Caller
    <3>6. CASE BootOf(t)
      BY <3>6 DEF BootOf, BootRequeue, BootResume, BootExpire, BootExpired, Resume, Caller
    <3> QED
      BY <1>1, <3>1, <3>2, <3>3, <3>4, <3>5, <3>6 DEF Handler
  <2>2. CASE UNCHANGED call
    BY <2>2 DEF CallKept
  <2>3. ASSUME NEW c \in Caller \ {"worker"}, NEW r, SetCall(t, c, r) PROVE CallKept(t, "worker")
    <3>1. call'[t]["worker"] = call[t]["worker"]
      BY <1>0, <2>3, RelayIsSet
    <3> QED
      BY <3>1 DEF CallKept
  <2>4. CASE SetCall(t, "worker", FailCall)
    <3>1. call'[t]["worker"] = FailCall
      BY <1>0, <2>4, RelayIsSet
    <3> QED
      BY <3>1, CallFields DEF CallKept
  <2> QED
    BY <2>1, <2>2, <2>3, <2>4
<1>2. CASE StoreStep(t)
  BY <1>0, <1>2, StepKeepsCalls
<1> QED
  BY <1>1, <1>2

\* A job that is to be processed stays so until it is, or until somebody who
\* ends the task knows.
LEMMA JobStays ==
  ASSUME ServiceInv, NEW t \in Tasks, Handler(t) \/ StoreStep(t) \/ BootOf(t),
         job[t] \in {"waiting", "active"}, status[t] = "queued",
         work[t] \notin {"undo", "session"}
  PROVE  \/ job'[t] \in {"waiting", "active"}
         \/ SetCall(t, "worker", FailCall)
         \/ StoreCancelled(t)
<1>1. CASE CountActive(t) \/ EnqueueStep(t)
  BY <1>1 DEF CountActive, EnqueueStep, InsertTask, AddJob, LinkJob, EnqueueReturns, QueueAdd, queueVars
<1>2. CASE WorkerStep(t)
  BY <1>2, PhaseTypes DEF WorkerStep, PickJob, QueuePick, SetJob, ProcessJob, ExecuteAccepted, ClaimTask,
       UndoRun, MarkSession, FinalFailureReturns, queueVars
<1>3. CASE RelayWorks(t) \/ CancelRead(t) \/ CancelStep(t) \/ AdapterStep(t) \/ StoreStep(t)
  BY <1>3 DEF RelayWorks, OpenStream, ReceiveChunk, SavedEvent, GiveUp, RelayFailed,
              CancelRead, CancelStep, CancelQueued, CancelRunning, CancelReturns,
              AdapterStep, StoreStep, queueVars
<1>4. CASE FaultStep(t)
  <2>1. JobThrows(t) => job'[t] \in {"waiting", "active"} \/ SetCall(t, "worker", FailCall)
    BY PhaseTypes DEF JobThrows, QueueThrow, SetJob
  <2> QED
    BY <1>4, <2>1 DEF FaultStep, CreateFails, EnqueueFails, ExecuteRefused, ExecuteReplyLost,
              MarkSessionFails, StreamBreaks, SaveFails, StoreFails, TimerFires, queueVars
<1>5. CASE BootOf(t)
  BY <1>5 DEF BootOf, BootRequeue, BootResume, BootExpire, BootExpired, QueueReconcile, queueVars
<1> QED
  BY <1>1, <1>2, <1>3, <1>4, <1>5 DEF Handler

\* A request that is to queue its task, or to end it, and a cancellation.
LEMMA RequestsStay ==
  ASSUME ServiceInv, NEW t \in Tasks, Handler(t) \/ StoreStep(t) \/ BootOf(t), ~StoreFails(t)
  PROVE  /\ enq[t] \in {"add", "failing"} =>
              enq'[t] \in {"add", "failing"} \/ AddJob(t) \/ EnqueueReturns(t)
         /\ can[t] = "persist" => can'[t] = "persist" \/ CancelReturns(t)
<1> USE PhaseTypes DEF Go
<1>1. CASE CountActive(t) \/ EnqueueStep(t)
  <2>1. UNCHANGED can
    BY <1>1 DEF CountActive, EnqueueStep, InsertTask, AddJob, LinkJob, EnqueueReturns
  <2> QED
    BY <1>1, <2>1 DEF CountActive, EnqueueStep, InsertTask, LinkJob
<1>2. CASE WorkerStep(t)
  BY <1>2 DEF WorkerStep, PickJob, ProcessJob, ExecuteAccepted, ClaimTask, UndoRun, MarkSession,
              FinalFailureReturns, processVars
<1>3. CASE RelayWorks(t)
  BY <1>3 DEF RelayWorks, OpenStream, ReceiveChunk, SavedEvent, GiveUp, RelayFailed
<1>4. CASE CancelRead(t) \/ CancelStep(t) \/ AdapterStep(t) \/ StoreStep(t)
  <2>1. UNCHANGED enq
    BY <1>4 DEF CancelRead, CancelStep, CancelQueued, CancelRunning, CancelReturns,
                AdapterStep, StoreStep, processVars
  <2> QED
    BY <1>4, <2>1 DEF CancelRead, CancelStep, CancelQueued, CancelRunning, StoreCancelled,
                AdapterStep, StoreStep, processVars
<1>5. CASE FaultStep(t)
  <2>1. CASE CreateFails(t) \/ EnqueueFails(t)
    BY <2>1 DEF CreateFails, EnqueueFails
  <2>2. CASE ExecuteRefused(t) \/ ExecuteReplyLost(t) \/ MarkSessionFails(t)
    BY <2>2 DEF ExecuteRefused, ExecuteReplyLost, MarkSessionFails, JobThrows
  <2>3. CASE StreamBreaks(t) \/ SaveFails(t) \/ TimerFires(t)
    BY <2>3 DEF StreamBreaks, SaveFails, TimerFires
  <2> QED
    BY <1>5, <2>1, <2>2, <2>3 DEF FaultStep
<1>6. CASE BootOf(t)
  BY <1>6 DEF BootOf, BootRequeue, BootResume, BootExpire, BootExpired, processVars
<1> QED
  BY <1>1, <1>2, <1>3, <1>4, <1>5, <1>6 DEF Handler

\* A caller that is not a relay resumes when its task has ended: what it
\* waited for stored the end or found it stored.
LEMMA ReturnsEnded ==
  ASSUME LifeInv, NEW t \in Tasks, NEW c \in Caller \ {"relay"}, Resume(t, c)
  PROVE  ~NeverEnded(t)
<1>1. call[t][c].at = "done"
  BY DEF Resume
<1>2. call[t][c].type \in {"failed", "cancelled"}
  BY DEF LifeInv, ServiceInv, EventsInv, CallersInv
<1> QED
  BY <1>1, <1>2 DEF LifeInv, LifeOK, DoneEnds, Terminal

\* A queued task is scheduled, or the boot will schedule it.
Pending(t) ==
  status[t] = "queued" =>
    \/ Scheduled(t)
    \/ api = "down"
    \/ api = "requeue" /\ t \in todo

\* The step of a queued task, unless the transactions that end it fail.
LEMMA PendingStep ==
  ASSUME "store" \notin FaultKinds, LifeInv, LifeInv', StepShape, NEW t \in Tasks,
         Pending(t), Handler(t) \/ StoreStep(t) \/ BootOf(t), [Next]_vars
  PROVE  Pending(t)'
<1> HIDE DEF Handler, BootOf
<1> SUFFICES ASSUME status'[t] = "queued"
             PROVE  Scheduled(t)' \/ api' = "down" \/ (api' = "requeue" /\ t \in todo')
  BY DEF Pending
<1>0. ServiceInv /\ LifeOK(t) /\ api' = api /\ ~StoreFails(t) /\ "worker" \in Caller
  BY HandlerPhaseFrame DEF LifeInv, StoreFails, Fault, Caller
<1>1. CASE InsertTask(t)
  BY <1>0, <1>1, PhaseTypes DEF InsertTask, Go, Scheduled
<1>2. CASE ~InsertTask(t)
  <2>1. status[t] = "queued"
    BY <1>0, <1>2, RowStays
  <2>2. NeverEnded(t)'
    BY DEF LifeInv, LifeOK, Unstarted
  <2>3. NeverEnded(t)
    BY <1>0, <2>2, EndedStays
  <2>4. ~FinalFailureReturns(t) /\ ~EnqueueReturns(t) /\ ~CancelReturns(t) /\ ~BootExpired(t)
    BY <2>3, ReturnsEnded DEF FinalFailureReturns, EnqueueReturns, CancelReturns, BootExpired, Caller
  <2>5. CASE job[t] \in {"waiting", "active"}
    <3>1. work[t] \notin {"undo", "session"}
      BY <1>0, <2>1 DEF LifeOK, Claimed
    <3>2. CASE SetCall(t, "worker", FailCall)
      <4>1. call'[t]["worker"] = FailCall
        BY <1>0, <3>2, RelayIsSet
      <4> QED
        BY <4>1, CallFields DEF Scheduled
    <3>3. CASE StoreCancelled(t)
      BY <1>0, <3>3, PhaseTypes DEF StoreCancelled, Go, Scheduled
    <3>4. CASE job'[t] \in {"waiting", "active"}
      BY <3>4 DEF Scheduled
    <3> QED
      BY <1>0, <2>1, <2>5, <3>1, <3>2, <3>3, <3>4, JobStays
  <2>6. CASE enq[t] \in {"add", "failing"}
    <3>1. CASE AddJob(t)
      <4>1. job[t] = "none"
        BY <1>0, <3>1 DEF AddJob, LifeOK, Creating
      <4> QED
        BY <1>0, <3>1, <4>1, PhaseTypes DEF AddJob, QueueAdd, SetJob, Scheduled
    <3>2. CASE ~AddJob(t)
      BY <1>0, <2>4, <2>6, <3>2, RequestsStay DEF Scheduled
    <3> QED
      BY <3>1, <3>2
  <2>7. CASE call[t]["worker"].at # "idle"
    BY <1>0, <2>4, <2>7, WorkerCallKept DEF CallKept, Scheduled
  <2>8. CASE can[t] = "persist"
    BY <1>0, <2>4, <2>8, RequestsStay DEF Scheduled
  <2>9. CASE api = "down"
    BY <1>0, <2>9
  <2>10. CASE api = "requeue" /\ t \in todo
    <3>1. CASE BootRequeue(t)
      <4>1. job'[t] \in {"waiting", "active"}
        BY <1>0, <3>1, PhaseTypes DEF BootRequeue, QueueReconcile, SetJob, queueVars, JobState
      <4> QED
        BY <4>1 DEF Scheduled
    <3>2. CASE ~BootRequeue(t)
      <4>1. ~BootResume(t)
        BY <2>10 DEF BootResume, BootAt
      <4> QED
        BY <1>0, <2>4, <2>10, <3>2, <4>1, BootMoves
    <3> QED
      BY <3>1, <3>2
  <2> QED
    BY <2>1, <2>5, <2>6, <2>7, <2>8, <2>9, <2>10 DEF Pending, Scheduled
<1> QED
  BY <1>1, <1>2

\* Every step keeps every queued task pending.
LEMMA PendingKept ==
  ASSUME "store" \notin FaultKinds, LifeInv, LifeInv', [Next]_vars,
         \A t \in Tasks : Pending(t)
  PROVE  \A t \in Tasks : Pending(t)'
<1> HIDE DEF Handler, BootOf
<1>0. ServiceInv /\ StepShape
  BY StepShapes DEF LifeInv
<1>1. ASSUME NEW t \in Tasks, Handler(t) \/ StoreStep(t) \/ BootOf(t), NEW u \in Tasks
      PROVE  Pending(u)'
  <2>1. CASE u = t
    BY <1>0, <1>1, <2>1, PendingStep
  <2>2. CASE u # t
    <3>1. SameTask(u) /\ api' = api /\ (u \in todo' <=> u \in todo)
      BY <1>0, <1>1, <2>2, OthersSame, TodoSame
    <3> QED
      BY <3>1 DEF SameTask, Pending, Scheduled
  <2> QED
    BY <2>1, <2>2
<1>2. ASSUME NEW u \in Tasks, BootPhase
      PROVE  Pending(u)'
  <2>1. SameTask(u)
    BY <1>2 DEF BootPhase, BootStart, BootScan, BootDone, SameTask, dbVars, queueVars
  <2>2. CASE BootStart
    BY <2>1, <2>2 DEF BootStart, SameTask, Pending, dbVars
  <2>3. CASE BootScan \/ BootDone
    BY <2>1, <2>3 DEF BootScan, BootDone, SameTask, Pending, Scheduled
  <2> QED
    BY <1>2, <2>2, <2>3 DEF BootPhase
<1>3. ASSUME NEW u \in Tasks, Crash
      PROVE  Pending(u)'
  BY <1>3 DEF Crash, Pending
<1>4. ASSUME NEW u \in Tasks, UNCHANGED vars
      PROVE  Pending(u)'
  BY <1>4 DEF vars, dbVars, queueVars, processVars, Pending, Scheduled
<1> QED
  BY <1>1, <1>2, <1>3, <1>4, StepsOfTasks

\* While the API serves, a queued task is never forgotten, in all runs in
\* which the transactions that end a task succeed: it has a job, or somebody
\* is at work who adds one or ends it.  enqueueTask writes the row before it
\* adds the job; what a crash leaves behind is added again by onModuleInit.
THEOREM QueuedTaskIsScheduled ==
  ASSUME "store" \notin FaultKinds
  PROVE  Spec => []QueuedIsScheduled
<1> DEFINE P == \A t \in Tasks : Pending(t)
<1>1. Init => P
  BY DEF Init, EventsInit, Pending
<1>2. P /\ LifeInv /\ LifeInv' /\ [Next]_vars => P'
  BY PendingKept
<1>3. P => QueuedIsScheduled
  BY DEF Pending, QueuedIsScheduled
<1> HIDE DEF P
<1> QED
  BY <1>1, <1>2, <1>3, AlwaysLifeInv, PTL DEF Spec

\* A running task is attended to, or the boot will start a relay for it; and a
\* relay that is to end belongs to a task that ends or has ended.
Attending(t) ==
  /\ status[t] = "running" /\ NeverEnded(t) =>
       \/ relay[t].at # "off"
       \/ work[t] = "session"
       \/ can[t] = "persist"
       \/ api \in {"down", "requeue"}
       \/ api = "resume" /\ t \in todo
  /\ relay[t].aborted => can[t] = "persist" \/ ~NeverEnded(t)

\* The flags of the records a relay is set to.
LEMMA RelayFlags ==
  ASSUME NEW r \in RelayRecord
  PROVE  /\ ~RelayOff.aborted
         /\ [RelayOff EXCEPT !.at = "open"].at = "open"
         /\ ~[RelayOff EXCEPT !.at = "open"].aborted
         /\ \A at : [r EXCEPT !.at = at].aborted = r.aborted
         /\ \A at, pos : [r EXCEPT !.at = at, !.pos = pos].aborted = r.aborted
         /\ \A at, chunk : [r EXCEPT !.at = at, !.chunk = chunk].aborted = r.aborted
         /\ \A pos : [r EXCEPT !.pos = pos].aborted = r.aborted
         /\ [r EXCEPT !.aborted = TRUE].at = r.at
BY DEF RelayRecord, RelayOff

\* A relay that stops, or is told to.
LEMMA RelayStops ==
  ASSUME LifeInv, NEW t \in Tasks, RelayActions(t), ~TimerFires(t), ~StoreCancelled(t)
  PROVE  /\ relay'[t].aborted => relay[t].aborted
         /\ relay[t].at # "off" => relay'[t].at # "off" \/ relay[t].aborted \/ ~NeverEnded(t)
<1> DEFINE r == relay[t]
<1>0. ServiceInv /\ r \in RelayRecord /\ LifeOK(t) /\ RelayOK(t) /\ "relay" \in Caller
  BY DEF LifeInv, ServiceInv, ProcessTypeOK, RelayInv, Caller
<1>1. CASE MarkSession(t) \/ BootResume(t)
  <2>1. UNCHANGED relay \/ SetRelay(t, [RelayOff EXCEPT !.at = "open"])
    BY <1>1 DEF MarkSession, BootResume, StartRelay
  <2>2. ASSUME SetRelay(t, [RelayOff EXCEPT !.at = "open"])
        PROVE  relay'[t] = [RelayOff EXCEPT !.at = "open"]
    BY <1>0, <2>2, RelayIsSet
  <2> QED
    BY <2>1, <2>2, RelayFlags, <1>0
<1>2. CASE OpenStream(t)
  <2>1. SetRelay(t, [r EXCEPT !.at = "reading", !.pos = LastSource(t)])
    BY <1>2 DEF OpenStream
  <2>2. relay'[t] = [r EXCEPT !.at = "reading", !.pos = LastSource(t)]
    BY <1>0, <2>1, RelayIsSet
  <2> QED
    BY <1>0, <2>2, RelayFlags, RelayFields
<1>3. CASE ReceiveChunk(t)
  <2>1. PICK last : SetRelay(t, [r EXCEPT !.at = "saving", !.chunk = last])
    BY <1>3 DEF ReceiveChunk
  <2>2. relay'[t] = [r EXCEPT !.at = "saving", !.chunk = last]
    BY <1>0, <2>1, RelayIsSet
  <2> QED
    BY <1>0, <2>2, RelayFlags, RelayFields
<1>4. CASE SavedEvent(t)
  <2>1. r.at = "saving" /\ call[t]["relay"].at = "done"
    BY <1>4 DEF SavedEvent
  <2>2. CASE call[t]["relay"].type \in Terminal
    <3>1. ~NeverEnded(t)
      BY <1>0, <2>1, <2>2 DEF LifeOK, DoneEnds
    <3>2. SetRelay(t, RelayOff)
      BY <1>4, <2>2 DEF SavedEvent
    <3>3. relay'[t] = RelayOff
      BY <1>0, <3>2, RelayIsSet
    <3> QED
      BY <1>0, <3>1, <3>3, RelayFlags
  <2>3. CASE call[t]["relay"].type \notin Terminal /\ r.pos + 1 < r.chunk
    <3>1. SetRelay(t, [r EXCEPT !.pos = r.pos + 1])
      BY <1>4, <2>3 DEF SavedEvent
    <3>2. relay'[t] = [r EXCEPT !.pos = r.pos + 1]
      BY <1>0, <3>1, RelayIsSet
    <3> QED
      BY <1>0, <2>1, <3>2, RelayFlags, RelayFields
  <2>4. CASE call[t]["relay"].type \notin Terminal /\ ~(r.pos + 1 < r.chunk)
    <3>1. SetRelay(t, IF r.aborted THEN RelayOff
                      ELSE [r EXCEPT !.at = "reading", !.pos = r.pos + 1])
      BY <1>4, <2>4 DEF SavedEvent
    <3>2. relay'[t] = IF r.aborted THEN RelayOff
                      ELSE [r EXCEPT !.at = "reading", !.pos = r.pos + 1]
      BY <1>0, <3>1, RelayIsSet
    <3> QED
      BY <1>0, <3>2, RelayFlags, RelayFields
  <2> QED
    BY <2>2, <2>3, <2>4
<1>5. CASE StreamBreaks(t) \/ GiveUp(t)
  <2>1. SetRelay(t, [r EXCEPT !.at = "failing"])
    BY <1>5 DEF StreamBreaks, GiveUp
  <2>2. relay'[t] = [r EXCEPT !.at = "failing"]
    BY <1>0, <2>1, RelayIsSet
  <2> QED
    BY <1>0, <2>2, RelayFlags, RelayFields
<1>6. CASE SaveFails(t)
  <2>1. \/ SetRelay(t, [r EXCEPT !.at = "giveUp"])
        \/ r.aborted /\ SetRelay(t, RelayOff)
        \/ SetRelay(t, [r EXCEPT !.at = "failing"])
    BY <1>6 DEF SaveFails
  <2>2. \/ relay'[t] = [r EXCEPT !.at = "giveUp"]
        \/ r.aborted /\ relay'[t] = RelayOff
        \/ relay'[t] = [r EXCEPT !.at = "failing"]
    BY <1>0, <2>1, RelayIsSet
  <2>3. CASE r.aborted /\ relay'[t] = RelayOff
    BY <2>3, <1>0, RelayFlags
  <2>4. CASE relay'[t] = [r EXCEPT !.at = "giveUp"]
    BY <1>0, <2>4, RelayFlags, RelayFields
  <2>5. CASE relay'[t] = [r EXCEPT !.at = "failing"]
    BY <1>0, <2>5, RelayFlags, RelayFields
  <2> QED
    BY <2>2, <2>3, <2>4, <2>5
<1>7. CASE RelayFailed(t)
  <2>1. SetRelay(t, RelayOff) /\ r.at = "failing" /\ call[t]["relay"].at = "done"
    BY <1>7 DEF RelayFailed, Resume
  <2>2. relay'[t] = RelayOff
    BY <1>0, <2>1, RelayIsSet
  <2>3. call[t]["relay"].type \in Terminal
    BY <1>0, <2>1 DEF RelayOK, CallOfRelay, Terminal
  <2>4. ~NeverEnded(t)
    BY <1>0, <2>1, <2>3 DEF LifeOK, DoneEnds
  <2> QED
    BY <1>0, <2>2, <2>4, RelayFlags
<1>8. CASE CancelQueued(t) \/ CancelRunning(t)
  BY <1>8 DEF CancelQueued, CancelRunning
<1> QED
  BY <1>1, <1>2, <1>3, <1>4, <1>5, <1>6, <1>7, <1>8 DEF RelayActions

\* A task starts to run by its dispatch, or by an event of its relay.
LEMMA RunningStarts ==
  ASSUME LifeInv, StepShape, NEW t \in Tasks, status'[t] = "running", status[t] # "running",
         Handler(t) \/ StoreStep(t) \/ BootOf(t)
  PROVE  ClaimTask(t) \/ (relay[t].at = "saving" /\ UNCHANGED relay)
<1> HIDE DEF Handler, BootOf
<1>0. ServiceInv /\ RelayOK(t)
  BY DEF LifeInv, RelayInv
<1>1. CASE SameRows \/ Crash \/ \E u \in Tasks : CallSet(u)
  BY <1>1 DEF SameRows, CallSet, Crash, dbVars
<1>2. ASSUME NEW u \in Tasks, InsertTask(u) \/ ClaimTask(u) PROVE ClaimTask(t)
  BY <1>0, <1>2, PhaseTypes DEF InsertTask, ClaimTask
<1>3. ASSUME NEW u \in Tasks, NEW c \in Caller, CallStepOf(u, c)
      PROVE  relay[t].at = "saving"
  <2>1. PersistCommit(u, c)
    BY <1>0, <1>3, UncommittedStep DEF CallStepOf, SameRows
  <2>2. Committed(u, c)
    BY <1>0, <2>1, CommitRows
  <2>3. u = t /\ call[t][c].type = "accepted" /\ call[t][c].at = "commit"
    BY <2>2 DEF Committed, CallRecord, EventType, Terminal
  <2>4. c = "relay"
    BY <2>2, <2>3 DEF Committed
  <2>5. relay[t].at \in RelayStep
    BY <1>0 DEF ServiceInv, ProcessTypeOK, RelayRecord
  <2> QED
    BY <1>0, <2>3, <2>4, <2>5 DEF RelayOK, CallOfRelay, RelayStep
<1>4. UNCHANGED relay
  <2>1. CASE RelayActions(t)
    BY <1>0, <2>1, RelayActsFrame DEF SameRows
  <2>2. CASE ~RelayActions(t)
    BY <2>2, RelayUntouched
  <2> QED
    BY <2>1, <2>2
<1> QED
  BY <1>1, <1>2, <1>3, <1>4 DEF StepShape

\* A relay that is to start does, or there is one.
LEMMA StartsRelay ==
  ASSUME ServiceInv, NEW t \in Tasks, MarkSession(t) \/ BootResume(t)
  PROVE  relay'[t].at # "off"
<1>1. StartRelay(t)
  BY DEF MarkSession, BootResume
<1>2. SetRelay(t, [RelayOff EXCEPT !.at = "open"]) => relay'[t] = [RelayOff EXCEPT !.at = "open"]
  BY RelayIsSet
<1> QED
  BY <1>1, <1>2, RelayTypes DEF StartRelay, RelayOff

\* A worker that dispatched a task marks its session next.
LEMMA SessionStays ==
  ASSUME ServiceInv, NEW t \in Tasks, Handler(t) \/ StoreStep(t) \/ BootOf(t),
         work[t] = "session", ~MarkSession(t), ~MarkSessionFails(t)
  PROVE  work'[t] = "session"
<1>0. job[t] = "active"
  BY DEF ServiceInv, JobIsHeld
<1>1. CASE CountActive(t) \/ EnqueueStep(t)
  BY <1>1 DEF CountActive, EnqueueStep, InsertTask, AddJob, LinkJob, EnqueueReturns
<1>2. CASE WorkerStep(t)
  BY <1>0, <1>2 DEF WorkerStep, PickJob, QueuePick, ProcessJob, ExecuteAccepted, ClaimTask, UndoRun,
              FinalFailureReturns, processVars
<1>3. CASE RelayWorks(t)
  BY <1>3 DEF RelayWorks, OpenStream, ReceiveChunk, SavedEvent, GiveUp, RelayFailed
<1>4. CASE CancelRead(t) \/ CancelStep(t) \/ AdapterStep(t) \/ StoreStep(t)
  BY <1>4 DEF CancelRead, CancelStep, CancelQueued, CancelRunning, CancelReturns,
              AdapterStep, StoreStep, processVars
<1>5. CASE FaultStep(t)
  BY <1>5 DEF FaultStep, CreateFails, EnqueueFails, ExecuteRefused, ExecuteReplyLost,
              StreamBreaks, SaveFails, StoreFails, TimerFires
<1>6. CASE BootOf(t)
  BY <1>6 DEF BootOf, BootRequeue, BootResume, BootExpire, BootExpired, processVars
<1> QED
  BY <1>1, <1>2, <1>3, <1>4, <1>5, <1>6 DEF Handler

\* The step of a running task, unless a transaction that ends it or the update
\* of its session fails, or its timer fires.
LEMMA AttendingStep ==
  ASSUME {"store", "session", "timer"} \cap FaultKinds = {},
         LifeInv, LifeInv', StepShape, NEW t \in Tasks,
         Attending(t), Handler(t) \/ StoreStep(t) \/ BootOf(t), [Next]_vars
  PROVE  Attending(t)'
<1> HIDE DEF Handler, BootOf
<1>0. /\ ServiceInv /\ LifeOK(t) /\ api' = api /\ "worker" \in Caller
      /\ ~StoreFails(t) /\ ~MarkSessionFails(t) /\ ~TimerFires(t)
  BY HandlerPhaseFrame DEF LifeInv, StoreFails, MarkSessionFails, TimerFires, Fault, Caller
<1>1. CASE StoreCancelled(t)
  BY <1>0, <1>1, PhaseTypes DEF StoreCancelled, Go, Attending
<1>2. CASE ~StoreCancelled(t)
  <2>1. /\ relay'[t].aborted => relay[t].aborted
        /\ relay[t].at # "off" => relay'[t].at # "off" \/ relay[t].aborted \/ ~NeverEnded(t)
    BY <1>0, <1>2, RelayStops, RelayUntouched
  <2>2. ASSUME can[t] = "persist", NeverEnded(t) PROVE can'[t] = "persist"
    BY <1>0, <2>2, RequestsStay, ReturnsEnded DEF CancelReturns, Caller
  <2>3. ~NeverEnded(t) => ~NeverEnded(t)'
    BY <1>0, EndedStays
  <2>4. relay'[t].aborted => can'[t] = "persist" \/ ~NeverEnded(t)'
    BY <2>1, <2>2, <2>3 DEF Attending
  <2>5. ASSUME status'[t] = "running", NeverEnded(t)'
        PROVE  \/ relay'[t].at # "off" \/ work'[t] = "session" \/ can'[t] = "persist"
               \/ api' \in {"down", "requeue"} \/ (api' = "resume" /\ t \in todo')
    <3>1. NeverEnded(t)
      BY <2>3, <2>5
    <3>2. CASE status[t] # "running"
      <4>1. ClaimTask(t) => work'[t] = "session"
        BY <1>0, <2>5, <3>2, PhaseTypes DEF ClaimTask, Go
      <4> QED
        BY <2>5, <3>2, <4>1, RunningStarts
    <3>3. CASE status[t] = "running"
      <4>1. CASE relay[t].at # "off"
        BY <2>1, <2>4, <2>5, <3>1, <4>1, <2>2 DEF Attending
      <4>2. CASE work[t] = "session"
        <5>1. MarkSession(t) => relay'[t].at # "off"
          BY <1>0, StartsRelay
        <5>2. ~MarkSession(t) => work'[t] = "session"
          BY <1>0, <4>2, SessionStays
        <5> QED
          BY <5>1, <5>2
      <4>3. CASE can[t] = "persist"
        BY <2>2, <3>1, <4>3
      <4>4. CASE api \in {"down", "requeue"}
        BY <1>0, <4>4
      <4>5. CASE api = "resume" /\ t \in todo
        <5>1. ~BootRequeue(t) /\ ~BootExpired(t)
          BY <3>1, <4>5, ReturnsEnded DEF BootRequeue, BootExpired, Caller
        <5>2. BootResume(t) => relay'[t].at # "off"
          BY <1>0, StartsRelay
        <5> QED
          BY <1>0, <4>5, <5>1, <5>2, BootMoves
      <4> QED
        BY <3>1, <3>3, <4>1, <4>2, <4>3, <4>4, <4>5 DEF Attending
    <3> QED
      BY <3>2, <3>3
  <2> QED
    BY <2>4, <2>5 DEF Attending
<1> QED
  BY <1>1, <1>2

\* Every step keeps every running task attended to.
LEMMA AttendingKept ==
  ASSUME {"store", "session", "timer"} \cap FaultKinds = {}, LifeInv, LifeInv', [Next]_vars,
         \A t \in Tasks : Attending(t)
  PROVE  \A t \in Tasks : Attending(t)'
<1> HIDE DEF Handler, BootOf
<1>0. ServiceInv /\ StepShape
  BY StepShapes DEF LifeInv
<1>1. ASSUME NEW t \in Tasks, Handler(t) \/ StoreStep(t) \/ BootOf(t), NEW u \in Tasks
      PROVE  Attending(u)'
  <2>1. CASE u = t
    BY <1>0, <1>1, <2>1, AttendingStep
  <2>2. CASE u # t
    <3>1. SameTask(u) /\ api' = api /\ (u \in todo' <=> u \in todo)
      BY <1>0, <1>1, <2>2, OthersSame, TodoSame
    <3> QED
      BY <3>1 DEF SameTask, Attending, NeverEnded
  <2> QED
    BY <2>1, <2>2
<1>2. ASSUME NEW u \in Tasks, BootPhase
      PROVE  Attending(u)'
  <2>1. SameTask(u) /\ NeverEnded(u)' = NeverEnded(u)
    BY <1>2 DEF BootPhase, BootStart, BootScan, BootDone, SameTask, dbVars, queueVars, NeverEnded
  <2>2. CASE BootStart
    BY <2>1, <2>2 DEF BootStart, SameTask, Attending
  <2>3. CASE BootScan
    <3>1. status[u] = "running" => hasUrl[u]
      BY <1>0 DEF ServiceInv, UrlInv
    <3> QED
      BY <2>1, <2>3, <3>1 DEF BootScan, SameTask, Attending
  <2>4. CASE BootDone
    BY <2>1, <2>4 DEF BootDone, SameTask, Attending
  <2> QED
    BY <1>2, <2>2, <2>3, <2>4 DEF BootPhase
<1>3. ASSUME NEW u \in Tasks, Crash
      PROVE  Attending(u)'
  BY <1>3, RelayTypes DEF Crash, Attending, RelayOff
<1>4. ASSUME NEW u \in Tasks, UNCHANGED vars
      PROVE  Attending(u)'
  BY <1>4 DEF vars, dbVars, processVars, Attending, NeverEnded
<1> QED
  BY <1>1, <1>2, <1>3, <1>4, StepsOfTasks

\* While the API serves, a running task that has not ended is attended to: a
\* relay reads its events, or a handler is about to start one or to end the
\* task.  It holds of all runs in which no transaction that ends a task and no
\* update of a session fails, and no timer fires; each of those faults alone
\* can leave a running task without a relay until the next restart.
THEOREM RunningTaskIsAttended ==
  ASSUME {"store", "session", "timer"} \cap FaultKinds = {}
  PROVE  Spec => []RunningIsAttended
<1> DEFINE A == \A t \in Tasks : Attending(t)
<1>1. Init => A
  <2> SUFFICES ASSUME Init, NEW t \in Tasks PROVE Attending(t)
    OBVIOUS
  <2>1. status[t] = "none" /\ relay[t] = RelayOff
    BY DEF Init, EventsInit
  <2> QED
    BY <2>1 DEF Attending, RelayOff
<1>2. A /\ LifeInv /\ LifeInv' /\ [Next]_vars => A'
  BY AttendingKept
<1>3. A => RunningIsAttended
  BY DEF Attending, RunningIsAttended
<1> HIDE DEF A
<1> QED
  BY <1>1, <1>2, <1>3, AlwaysLifeInv, PTL DEF Spec

=============================================================================

----------------------------- MODULE TaskEvents -----------------------------
(***************************************************************************)
(* The PostgreSQL tables that hold the life of a task, and the two         *)
(* procedures of TasksService through which a task ends: persistTaskEvent  *)
(* and failTask.  Several callers run them for the same task at the same   *)
(* time.  Their transaction runs at READ COMMITTED: it reads the task row, *)
(* decides, and writes later, so its read and its commit are separate      *)
(* steps and other transactions may commit in between.                     *)
(***************************************************************************)
EXTENDS Integers, Sequences, TaskTypes

CONSTANTS
  Sessions,     (* Conversations; all of one user.                         *)
  SessionOf,    (* The conversation a task belongs to.                     *)
  NoTask        (* Null for references to tasks and for locks.             *)

ASSUME SessionAssumption == SessionOf \in [Tasks -> Sessions]
ASSUME NoTaskAssumption  == NoTask \notin Tasks

VARIABLES
  status,       (* Task.status; "none" while the row does not exist.       *)
  hasUrl,       (* Task.adapterStreamUrl is not null.                      *)
  log,          (* TaskEvent rows of a task, in commit order.              *)
  session,      (* AppSession.status and currentTaskId.                    *)
  results,      (* TaskResult rows of a session, in insertion order.       *)
  sessionLock,  (* Holder of the advisory lock on a session.               *)
  call          (* call[t][c]: where caller c of the procedures is for t.  *)

dbVars == <<status, hasUrl, log, session, results>>

Active     == {"queued", "running"}
TaskStatus == {"none"} \cup Active \cup Terminal

\* The pieces of code that call persistTaskEvent or failTask.
Caller == {"enqueue", "worker", "boot", "cancel", "relay"}

\* "check": failTask reads the row.    "read": the transaction reads the row.
\* "lock": waiting for the session.    "commit": about to commit.
\* "done": committed or dropped, the caller has not resumed yet.
CallStep == {"idle", "check", "read", "lock", "commit", "done"}

CallRecord == [at : CallStep, type : EventType, src : Nat, version : Nat]

IdleCall == [at |-> "idle", type |-> "failed", src |-> 0, version |-> 0]

\* failTask(t, ...).  src 0: the event was made by the API itself.
FailCall == [at |-> "check", type |-> "failed", src |-> 0, version |-> 0]

\* persistTaskEvent(event, sourceEventId).
PersistCall(type, src) ==
  [at |-> "read", type |-> type, src |-> src, version |-> 0]

EventRecord   == [type : EventType, src : Nat]
ResultRecord  == [task : Tasks, version : Nat, text : Seq(Nat)]
SessionRecord == [status : TaskStatus, current : Tasks \cup {NoTask}]

EventsTypeOK ==
  /\ status      \in [Tasks -> TaskStatus]
  /\ hasUrl      \in [Tasks -> BOOLEAN]
  /\ log         \in [Tasks -> Seq(EventRecord)]
  /\ session     \in [Sessions -> SessionRecord]
  /\ results     \in [Sessions -> Seq(ResultRecord)]
  /\ sessionLock \in [Sessions -> Tasks \cup {NoTask}]
  /\ call        \in [Tasks -> [Caller -> CallRecord]]

EventsInit ==
  /\ status      = [t \in Tasks |-> "none"]
  /\ hasUrl      = [t \in Tasks |-> FALSE]
  /\ log         = [t \in Tasks |-> << >>]
  /\ session     = [s \in Sessions |-> [status |-> "none", current |-> NoTask]]
  /\ results     = [s \in Sessions |-> << >>]
  /\ sessionLock = [s \in Sessions |-> NoTask]
  /\ call        = [t \in Tasks |-> [c \in Caller |-> IdleCall]]

-----------------------------------------------------------------------------
SetCall(t, c, record) == call' = [call EXCEPT ![t][c] = record]

Persisted(t, src) == \E i \in DOMAIN log[t] : log[t][i].src = src

\* taskResult.findFirst({ orderBy: { versionNo: "desc" } })?.versionNo ?? 0
LatestVersion(s) ==
  IF results[s] = << >> THEN 0
  ELSE LET versions == {results[s][i].version : i \in DOMAIN results[s]}
       IN  CHOOSE v \in versions : \A w \in versions : w <= v

\* Mutated form: the events are not filtered by type.
OutputTextOfAll(events) == [i \in DOMAIN events |-> events[i].src]

\* The task's deltas joined in the order of their ids, as what each row adds
\* to outputText: the id of its source event, or 0 for a row that adds nothing.
OutputText(events) ==
  [i \in DOMAIN events |-> IF events[i].type = "delta" THEN events[i].src ELSE 0]

-----------------------------------------------------------------------------
(* failTask: a task that has already ended is left alone.                  *)
FailCheck(t, c) ==
  /\ call[t][c].at = "check"
  /\ SetCall(t, c, IF status[t] \in Terminal \cup {"none"}
                     THEN [call[t][c] EXCEPT !.at = "done"]
                     ELSE PersistCall("failed", 0))
  /\ UNCHANGED <<dbVars, sessionLock>>

(* persistTaskEvent, its reads: an event of a task that has ended, or one  *)
(* whose sourceEventId is already stored, is dropped.                      *)
PersistRead(t, c) ==
  /\ call[t][c].at = "read"
  /\ LET e == call[t][c]
         dropped == \/ status[t] \in Terminal \cup {"none"}
                    \/ e.src > 0 /\ Persisted(t, e.src)
     IN  SetCall(t, c, [e EXCEPT !.at =
           IF dropped THEN "done"
           ELSE IF e.type = "completed" THEN "lock" ELSE "commit"])
  /\ UNCHANGED <<dbVars, sessionLock>>

\* Mutated form: no lock on the session.
PersistLockUnguarded(t, c) ==
  /\ call[t][c].at = "lock"
  /\ SetCall(t, c, [call[t][c] EXCEPT !.at = "commit",
                       !.version = LatestVersion(SessionOf[t]) + 1])
  /\ UNCHANGED <<dbVars, sessionLock>>

(* task.completed: pg_advisory_xact_lock on the session, then the latest   *)
(* version is read.                                                        *)
PersistLock(t, c) ==
  /\ call[t][c].at = "lock"
  /\ LET s == SessionOf[t]
     IN  /\ sessionLock[s] = NoTask
         /\ sessionLock' = [sessionLock EXCEPT ![s] = t]
         /\ SetCall(t, c, [call[t][c] EXCEPT !.at = "commit",
                                             !.version = LatestVersion(s) + 1])
  /\ UNCHANGED dbVars

\* Mutated form: an empty text is not stored as a result.
StoreResultIfAny(t, version) ==
  LET text == OutputText(log[t])
  IN  IF \A i \in DOMAIN text : text[i] = 0 THEN UNCHANGED results
      ELSE results' = [results EXCEPT ![SessionOf[t]] =
             Append(@, [task |-> t, version |-> version, text |-> text])]

(* taskResult.create                                                       *)
StoreResult(t, version) ==
  results' = [results EXCEPT ![SessionOf[t]] =
    Append(@, [task |-> t, version |-> version, text |-> OutputText(log[t])])]

(* persistTaskEvent, its commit: the event row and what it means for the   *)
(* task, its session and its result.  The row is written whatever its      *)
(* status has become since it was read.                                    *)
PersistCommit(t, c) ==
  /\ call[t][c].at = "commit"
  /\ LET e == call[t][c]
         s == SessionOf[t]
     IN  /\ log' = [log EXCEPT ![t] = Append(@, [type |-> e.type, src |-> e.src])]
         /\ status' = [status EXCEPT ![t] =
              CASE e.type = "accepted"   -> "running"
                [] e.type \in Terminal   -> e.type
                [] OTHER                 -> @]
         /\ session' = [session EXCEPT ![s] =
              CASE e.type = "completed"             -> [status |-> "completed", current |-> t]
                [] e.type \in {"failed", "cancelled"} -> [@ EXCEPT !.status = e.type]
                [] OTHER                            -> @]
         /\ IF e.type = "completed"
              THEN /\ StoreResult(t, e.version)
                   /\ sessionLock' = [sessionLock EXCEPT ![s] = NoTask]
              ELSE UNCHANGED <<results, sessionLock>>
  /\ SetCall(t, c, [call[t][c] EXCEPT !.at = "done"])
  /\ UNCHANGED hasUrl

\* Mutated form: the lock is a session-level one and stays.
RollbackKeepsLock(t, c) ==
  /\ call[t][c].at \in {"check", "read", "lock", "commit"}
  /\ UNCHANGED <<dbVars, sessionLock>>

(* persistTaskEvent or failTask throws: the transaction is rolled back,    *)
(* which frees the lock it may hold.                                       *)
Rollback(t, c) ==
  /\ call[t][c].at \in {"check", "read", "lock", "commit"}
  /\ sessionLock' =
       IF call[t][c].at = "commit" /\ call[t][c].type = "completed"
         THEN [sessionLock EXCEPT ![SessionOf[t]] = NoTask]
         ELSE sessionLock
  /\ UNCHANGED dbVars

CallStepOf(t, c) ==
  FailCheck(t, c) \/ PersistRead(t, c) \/ PersistLock(t, c) \/ PersistCommit(t, c)

\* A caller resumes after the procedure it awaited.
Resume(t, c) ==
  /\ call[t][c].at = "done"
  /\ SetCall(t, c, IdleCall)

-----------------------------------------------------------------------------
(* Properties.                                                             *)

\* The stored events of a task explain its status: the last of them that
\* bears on the status agrees with the row.  It fails if a write outside
\* persistTaskEvent, like the claim of dispatchTask, overtakes a stored event.
StatusEvents == {"accepted"} \cup Terminal
StatusOf(type) == IF type = "accepted" THEN "running" ELSE type

LogExplainsStatus ==
  \A t \in Tasks : \A i \in DOMAIN log[t] :
    /\ log[t][i].type \in StatusEvents
    /\ \A j \in DOMAIN log[t] : j > i => log[t][j].type \notin StatusEvents
    => status[t] = StatusOf(log[t][i].type)

\* The result versions of a session are 1, 2, 3 ... in the order they were
\* stored: tasks of a session that complete together do not get the same
\* version, which would make the unique key fail one of them.
VersionsContiguous ==
  \A s \in Sessions : \A i \in DOMAIN results[s] : results[s][i].version = i

=============================================================================

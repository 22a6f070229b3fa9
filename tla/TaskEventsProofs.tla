-------------------------- MODULE TaskEventsProofs --------------------------
(***************************************************************************)
(* Theorems of TaskEventsSpec: whoever calls persistTaskEvent and failTask *)
(* in whatever order, the rows of a session's results are numbered without *)
(* gaps or repetitions and the stored events explain the status of a task. *)
(***************************************************************************)
EXTENDS TaskEventsSpec, TaskEventsLemmas

\* A new row is queued, and so is its session.
LEMMA CreateRowInv ==
  ASSUME EventsInv, ExplainInv, NEW t \in Tasks, CreateRow(t)
  PROVE  EventsInv' /\ ExplainInv'
<1>1. [status |-> "queued", current |-> t] \in SessionRecord
  BY DEF SessionRecord, TaskStatus, Active
<1>2. session' \in [Sessions -> SessionRecord]
  BY <1>1, SessionAssumption DEF CreateRow, EventsInv, EventsTypeOK
<1>3. status' \in [Tasks -> TaskStatus]
  BY DEF CreateRow, EventsInv, EventsTypeOK, TaskStatus, Active
<1>4. EventsInv'
  BY <1>2, <1>3, RowsInv DEF CreateRow, EventsInv, EventsTypeOK
<1>5. ExplainInv'
  BY QuietUpdate DEF CreateRow, EventsInv
<1> QED
  BY <1>4, <1>5

\* The claim makes a queued row running, of which nothing is stored yet.
LEMMA ClaimRowInv ==
  ASSUME EventsInv, ExplainInv, NEW t \in Tasks, ClaimRow(t)
  PROVE  EventsInv' /\ ExplainInv'
<1>1. status' \in [Tasks -> TaskStatus] /\ hasUrl' \in [Tasks -> BOOLEAN]
  BY DEF ClaimRow, EventsInv, EventsTypeOK, TaskStatus, Active
<1>2. EventsInv'
  BY <1>1, RowsInv DEF ClaimRow, EventsInv, EventsTypeOK
<1>3. ExplainInv'
  BY QuietUpdate DEF ClaimRow, EventsInv
<1> QED
  BY <1>2, <1>3

\* Whatever a caller asks for, its call starts before any commit.
LEMMA AskInv ==
  ASSUME EventsInv, ExplainInv, NEW t \in Tasks, NEW c \in Caller, Ask(t, c)
  PROVE  EventsInv' /\ ExplainInv'
<1>1. PICK r : /\ r \in CASE c = "relay"  -> {PersistCall(type, src) : type \in EventType, src \in 1 .. MaxSrc}
                                              \cup {FailCall}
                         [] c = "cancel" -> {PersistCall("cancelled", 0)}
                         [] OTHER        -> {FailCall}
              /\ SetCall(t, c, r)
  BY DEF Ask
<1>2. r \in CallRecord /\ r.at # "commit"
  <2>1. CASE c = "relay"
    BY <1>1, <2>1, CallTypes, MaxSrcAssumption DEF PersistCall, FailCall
  <2>2. CASE c = "cancel"
    BY <1>1, <2>2, CallTypes DEF PersistCall, EventType, Terminal
  <2>3. CASE c \notin {"relay", "cancel"}
    BY <1>1, <2>3, CallTypes DEF FailCall
  <2> QED
    BY <2>1, <2>2, <2>3
<1>3. c # "relay" => r.type \in {"failed", "cancelled"} /\ r.src = 0
  BY <1>1 DEF PersistCall, FailCall
<1>4. EventsInv'
  BY <1>1, <1>2, <1>3, SetCallInv DEF Ask
<1>5. ExplainInv'
  BY ExplainUnchanged DEF Ask, dbVars
<1> QED
  BY <1>4, <1>5

\* Every step of TaskEventsSpec preserves the invariant.
LEMMA EventsNextInv ==
  ASSUME EventsInv, ExplainInv, [EventsNext]_eventVars
  PROVE  EventsInv' /\ ExplainInv'
<1>1. ASSUME NEW t \in Tasks, CreateRow(t) \/ ClaimRow(t)
      PROVE  EventsInv' /\ ExplainInv'
  BY <1>1, CreateRowInv, ClaimRowInv
<1>2. ASSUME NEW t \in Tasks, NEW c \in Callers, Ask(t, c)
      PROVE  EventsInv' /\ ExplainInv'
  BY <1>2, AskInv, CallersAssumption
<1>3. ASSUME NEW t \in Tasks, NEW c \in Callers, CallStepOf(t, c)
      PROVE  EventsInv' /\ ExplainInv'
  BY <1>3, CallStepInv, CallersAssumption
<1>4. ASSUME NEW t \in Tasks, NEW c \in Callers, Return(t, c)
      PROVE  EventsInv' /\ ExplainInv'
  BY <1>4, ResumeInv, ExplainUnchanged, CallersAssumption DEF Return, dbVars
<1>5. ASSUME NEW t \in Tasks, NEW c \in Callers, Throw(t, c)
      PROVE  EventsInv' /\ ExplainInv'
  BY <1>5, RollbackInv, ExplainUnchanged, CallTypes, CallersAssumption
     DEF Throw, Rollback, IdleCall, dbVars
<1>6. CASE UNCHANGED eventVars
  BY <1>6, EventsUnchanged, ExplainUnchanged DEF eventVars, dbVars
<1> QED
  BY <1>1, <1>2, <1>3, <1>4, <1>5, <1>6 DEF EventsNext

\* The invariant holds in every state of every behaviour.
LEMMA EventsAlwaysInv == EventsSpec => [](EventsInv /\ ExplainInv)
<1>1. EventsInit => EventsInv /\ ExplainInv
  BY EventsInitInv
<1>2. EventsInv /\ ExplainInv /\ [EventsNext]_eventVars => EventsInv' /\ ExplainInv'
  BY EventsNextInv
<1> QED
  BY <1>1, <1>2, PTL DEF EventsSpec

\* The versions of a session are 1, 2, 3 ... whatever the callers do: the
\* advisory lock makes the read of the latest version and the insert of the
\* next one a single step of the session.
THEOREM VersionsAreContiguous == EventsSpec => []VersionsContiguous
<1>1. EventsInv => VersionsContiguous
  BY DEF EventsInv
<1> QED
  BY <1>1, EventsAlwaysInv, PTL

\* The stored events of a task explain its status although persistTaskEvent
\* writes after the row it read may have changed.
THEOREM EventsExplainStatus == EventsSpec => []LogExplainsStatus
<1>1. ExplainInv => LogExplainsStatus
  BY DEF ExplainInv
<1> QED
  BY <1>1, EventsAlwaysInv, PTL

-----------------------------------------------------------------------------
(* The lock of a session.                                                  *)

\* The converse of LockInv: a lock that is held is held by a completion that
\* is about to commit, which only the relay of its task brings about.
Committing(t, c) == call[t][c].at = "commit" /\ call[t][c].type = "completed"

LockHeld ==
  \A s \in Sessions : sessionLock[s] # NoTask =>
    /\ SessionOf[sessionLock[s]] = s
    /\ Committing(sessionLock[s], "relay")

OnlyCompletionsLock ==
  \A t \in Tasks : \A c \in Caller :
    call[t][c].at = "lock" => call[t][c].type = "completed"

\* Steps that leave the locks and the completions about to commit alone.
LEMMA LockKept ==
  ASSUME EventsTypeOK, LockHeld, UNCHANGED sessionLock,
         \A u \in Tasks : Committing(u, "relay") => call'[u]["relay"] = call[u]["relay"]
  PROVE  LockHeld'
BY DEF EventsTypeOK, LockHeld, Committing

\* A call that is not a completion about to commit may become any other.
LEMMA LockKeptBySetCall ==
  ASSUME EventsTypeOK, LockHeld, UNCHANGED sessionLock,
         NEW t \in Tasks, NEW c \in Caller, NEW r, SetCall(t, c, r),
         ~Committing(t, c)
  PROVE  LockHeld'
<1>1. "relay" \in Caller
  BY DEF Caller
<1>2. \A u \in Tasks : Committing(u, "relay") => call'[u]["relay"] = call[u]["relay"]
  BY <1>1 DEF EventsTypeOK, SetCall, Committing
<1> QED
  BY <1>2, LockKept

\* The completion that commits or is rolled back is the only one of its
\* session, and frees its lock.
LEMMA LockFreed ==
  ASSUME EventsInv, LockHeld, NEW t \in Tasks, NEW c \in Caller, NEW r,
         SetCall(t, c, r), Committing(t, c),
         sessionLock' = [sessionLock EXCEPT ![SessionOf[t]] = NoTask]
  PROVE  LockHeld'
<1>1. sessionLock \in [Sessions -> Tasks \cup {NoTask}] /\ SessionOf[t] \in Sessions
  BY SessionAssumption DEF EventsInv, EventsTypeOK
<1>2. \A u \in Tasks \ {t} : call'[u] = call[u]
  BY DEF EventsInv, EventsTypeOK, SetCall
<1> SUFFICES ASSUME NEW s \in Sessions, sessionLock'[s] # NoTask
             PROVE  /\ SessionOf[sessionLock'[s]] = s
                    /\ call'[sessionLock'[s]]["relay"].at = "commit"
                    /\ call'[sessionLock'[s]]["relay"].type = "completed"
  BY DEF LockHeld, Committing
<1>3. s # SessionOf[t] /\ sessionLock'[s] = sessionLock[s]
  BY <1>1
<1>4. /\ sessionLock[s] \in Tasks /\ SessionOf[sessionLock[s]] = s
      /\ Committing(sessionLock[s], "relay")
  BY <1>1, <1>3 DEF LockHeld
<1>5. sessionLock[s] \in Tasks \ {t}
  BY <1>3, <1>4
<1> QED
  BY <1>2, <1>3, <1>4, <1>5 DEF Committing

\* The relay takes the lock and is about to commit.
LEMMA LockTaken ==
  ASSUME EventsInv, LockHeld, NEW t \in Tasks, NEW c \in Caller,
         call[t][c].type = "completed", PersistLock(t, c)
  PROVE  LockHeld'
<1> DEFINE version == LatestVersion(SessionOf[t]) + 1
           r == [call[t][c] EXCEPT !.at = "commit", !.version = version]
<1>1. c = "relay"
  BY DEF EventsInv, CallersInv
<1>2. sessionLock \in [Sessions -> Tasks \cup {NoTask}] /\ SessionOf[t] \in Sessions
  BY SessionAssumption DEF EventsInv, EventsTypeOK
<1>3. /\ sessionLock[SessionOf[t]] = NoTask
      /\ sessionLock' = [sessionLock EXCEPT ![SessionOf[t]] = t]
      /\ call[t][c].at = "lock"
      /\ SetCall(t, c, r)
  BY DEF PersistLock
<1> HIDE DEF version
<1>4. r.at = "commit" /\ r.type = "completed"
  BY DEF EventsInv, EventsTypeOK, CallRecord
<1> HIDE DEF r
<1>5. \A u \in Tasks : call'[u]["relay"] = IF u = t THEN r ELSE call[u]["relay"]
  BY <1>1, <1>3 DEF EventsInv, EventsTypeOK, SetCall
<1> SUFFICES ASSUME NEW s \in Sessions, sessionLock'[s] # NoTask
             PROVE  /\ SessionOf[sessionLock'[s]] = s
                    /\ call'[sessionLock'[s]]["relay"].at = "commit"
                    /\ call'[sessionLock'[s]]["relay"].type = "completed"
  BY DEF LockHeld, Committing
<1>6. CASE s = SessionOf[t]
  BY <1>2, <1>3, <1>4, <1>5, <1>6 DEF Committing
<1>7. CASE s # SessionOf[t]
  <2>1. sessionLock'[s] = sessionLock[s] /\ sessionLock[s] \in Tasks
    BY <1>2, <1>3, <1>7
  <2>2. SessionOf[sessionLock[s]] = s /\ Committing(sessionLock[s], "relay")
    BY <2>1 DEF LockHeld
  <2> QED
    BY <1>5, <1>7, <2>1, <2>2 DEF Committing
<1> QED
  BY <1>6, <1>7

\* A call that does not wait for the lock may become any other that does not.
LEMMA NoLockAsked ==
  ASSUME EventsTypeOK, OnlyCompletionsLock, NEW t \in Tasks, NEW c \in Caller, NEW r,
         SetCall(t, c, r), r.at = "lock" => r.type = "completed"
  PROVE  OnlyCompletionsLock'
<1>1. \A u \in Tasks, d \in Caller :
        call'[u][d] = IF u = t /\ d = c THEN r ELSE call[u][d]
  BY DEF EventsTypeOK, SetCall
<1> QED
  BY <1>1 DEF OnlyCompletionsLock

\* Every step of a procedure.
LEMMA CallStepLock ==
  ASSUME EventsInv, LockHeld, OnlyCompletionsLock,
         NEW t \in Tasks, NEW c \in Caller, CallStepOf(t, c)
  PROVE  LockHeld' /\ OnlyCompletionsLock'
<1> DEFINE e == call[t][c]
<1>0. e \in CallRecord /\ EventsTypeOK
  BY DEF EventsInv, EventsTypeOK
<1>1. CASE FailCheck(t, c)
  <2> DEFINE r == IF status[t] \in Terminal \cup {"none"}
                    THEN [e EXCEPT !.at = "done"] ELSE PersistCall("failed", 0)
  <2>1. SetCall(t, c, r) /\ UNCHANGED sessionLock /\ ~Committing(t, c)
    BY <1>1 DEF FailCheck, Committing
  <2>2. r.at # "lock"
    BY <1>0 DEF CallRecord, PersistCall
  <2> HIDE DEF r
  <2> QED
    BY <1>0, <2>1, <2>2, LockKeptBySetCall, NoLockAsked
<1>2. CASE PersistRead(t, c)
  <2> DEFINE dropped == \/ status[t] \in Terminal \cup {"none"}
                        \/ e.src > 0 /\ Persisted(t, e.src)
             step == IF dropped THEN "done"
                     ELSE IF e.type = "completed" THEN "lock" ELSE "commit"
             r == [e EXCEPT !.at = step]
  <2>1. SetCall(t, c, r) /\ UNCHANGED sessionLock /\ ~Committing(t, c)
    BY <1>2 DEF PersistRead, Committing
  <2>2. step = "lock" => e.type = "completed"
    OBVIOUS
  <2> HIDE DEF step
  <2>3. r.at = "lock" => r.type = "completed"
    BY <1>0, <2>2 DEF CallRecord
  <2> HIDE DEF r
  <2> QED
    BY <1>0, <2>1, <2>3, LockKeptBySetCall, NoLockAsked
<1>3. CASE PersistLock(t, c)
  <2> DEFINE version == LatestVersion(SessionOf[t]) + 1
             r == [e EXCEPT !.at = "commit", !.version = version]
  <2>1. e.type = "completed" /\ SetCall(t, c, r)
    BY <1>3 DEF PersistLock, OnlyCompletionsLock
  <2> HIDE DEF version
  <2>2. r.at = "commit"
    BY <1>0 DEF CallRecord
  <2> HIDE DEF r
  <2> QED
    BY <1>0, <1>3, <2>1, <2>2, LockTaken, NoLockAsked
<1>4. CASE PersistCommit(t, c)
  <2> DEFINE r == [e EXCEPT !.at = "done"]
  <2>1. SetCall(t, c, r) /\ r.at = "done" /\ e.at = "commit"
    BY <1>0, <1>4 DEF PersistCommit, CallRecord
  <2> HIDE DEF r
  <2>2. CASE e.type = "completed"
    <3>1. sessionLock' = [sessionLock EXCEPT ![SessionOf[t]] = NoTask]
      BY <1>4, <2>2 DEF PersistCommit
    <3> QED
      BY <1>0, <2>1, <2>2, <3>1, LockFreed, NoLockAsked DEF Committing
  <2>3. CASE e.type # "completed"
    <3>1. UNCHANGED sessionLock
      BY <1>4, <2>3 DEF PersistCommit
    <3> QED
      BY <1>0, <2>1, <2>3, <3>1, LockKeptBySetCall, NoLockAsked DEF Committing
  <2> QED
    BY <2>2, <2>3
<1> QED
  BY <1>1, <1>2, <1>3, <1>4 DEF CallStepOf

\* Every step of TaskEventsSpec.
LEMMA EventsNextLock ==
  ASSUME EventsInv, LockHeld, OnlyCompletionsLock, [EventsNext]_eventVars
  PROVE  LockHeld' /\ OnlyCompletionsLock'
<1>0. EventsTypeOK
  BY DEF EventsInv
<1>1. ASSUME UNCHANGED <<sessionLock, call>>
      PROVE  LockHeld' /\ OnlyCompletionsLock'
  BY <1>1 DEF LockHeld, OnlyCompletionsLock, Committing
<1>2. ASSUME NEW t \in Tasks, CreateRow(t) \/ ClaimRow(t)
      PROVE  LockHeld' /\ OnlyCompletionsLock'
  BY <1>1, <1>2 DEF CreateRow, ClaimRow
<1>3. ASSUME NEW t \in Tasks, NEW c \in Callers, Ask(t, c)
      PROVE  LockHeld' /\ OnlyCompletionsLock'
  <2>1. PICK r : r.at # "lock" /\ SetCall(t, c, r)
    BY <1>3 DEF Ask, PersistCall, FailCall
  <2>2. UNCHANGED sessionLock /\ ~Committing(t, c)
    BY <1>3 DEF Ask, Committing
  <2> QED
    BY <1>0, <2>1, <2>2, LockKeptBySetCall, NoLockAsked, CallersAssumption
<1>4. ASSUME NEW t \in Tasks, NEW c \in Callers, CallStepOf(t, c)
      PROVE  LockHeld' /\ OnlyCompletionsLock'
  BY <1>4, CallStepLock, CallersAssumption
<1>5. ASSUME NEW t \in Tasks, NEW c \in Callers, Return(t, c)
      PROVE  LockHeld' /\ OnlyCompletionsLock'
  <2>1. SetCall(t, c, IdleCall) /\ UNCHANGED sessionLock /\ ~Committing(t, c)
    BY <1>5 DEF Return, Resume, Committing
  <2>2. IdleCall.at # "lock"
    BY DEF IdleCall
  <2> QED
    BY <1>0, <2>1, <2>2, LockKeptBySetCall, NoLockAsked, CallersAssumption
<1>6. ASSUME NEW t \in Tasks, NEW c \in Callers, Throw(t, c)
      PROVE  LockHeld' /\ OnlyCompletionsLock'
  <2>1. SetCall(t, c, IdleCall) /\ Rollback(t, c)
    BY <1>6 DEF Throw
  <2>2. IdleCall.at # "lock"
    BY DEF IdleCall
  <2>3. c \in Caller
    BY CallersAssumption
  <2>4. CASE Committing(t, c)
    <3>1. sessionLock' = [sessionLock EXCEPT ![SessionOf[t]] = NoTask]
      BY <2>1, <2>4 DEF Rollback, Committing
    <3> QED
      BY <1>0, <2>1, <2>2, <2>3, <2>4, <3>1, LockFreed, NoLockAsked
  <2>5. CASE ~Committing(t, c)
    <3>1. UNCHANGED sessionLock
      BY <2>1, <2>5 DEF Rollback, Committing
    <3> QED
      BY <1>0, <2>1, <2>2, <2>3, <2>5, <3>1, LockKeptBySetCall, NoLockAsked
  <2> QED
    BY <2>4, <2>5
<1>7. CASE UNCHANGED eventVars
  BY <1>1, <1>7 DEF eventVars
<1> QED
  BY <1>2, <1>3, <1>4, <1>5, <1>6, <1>7 DEF EventsNext

\* The advisory lock of a session is held exactly while one of its completions
\* is about to commit, and by no two of them: persistTaskEvent leaves it behind
\* on no path, whether it commits, drops the event or throws.
THEOREM LocksAreOwned == EventsSpec => []LockIsOwned
<1>1. EventsInit => LockHeld /\ OnlyCompletionsLock
  BY DEF EventsInit, LockHeld, OnlyCompletionsLock, IdleCall
<1>2. ASSUME EventsInv, LockHeld PROVE LockIsOwned
  <2> SUFFICES ASSUME NEW s \in Sessions
               PROVE  LET owners == {o \in Tasks \X Caller :
                                       /\ SessionOf[o[1]] = s
                                       /\ call[o[1]][o[2]].at = "commit"
                                       /\ call[o[1]][o[2]].type = "completed"}
                      IN  /\ sessionLock[s] # NoTask <=> owners # {}
                          /\ \A o, p \in owners : o = p
    BY DEF LockIsOwned
  <2> DEFINE owners == {o \in Tasks \X Caller :
                          /\ SessionOf[o[1]] = s
                          /\ call[o[1]][o[2]].at = "commit"
                          /\ call[o[1]][o[2]].type = "completed"}
  <2>1. sessionLock[s] \in Tasks \cup {NoTask} /\ "relay" \in Caller
    BY <1>2 DEF EventsInv, EventsTypeOK, Caller
  <2>2. ASSUME NEW o \in owners
        PROVE  o = <<sessionLock[s], "relay">> /\ sessionLock[s] # NoTask
    <3>1. o[1] \in Tasks /\ o[2] \in Caller /\ o = <<o[1], o[2]>>
      OBVIOUS
    <3>2. sessionLock[s] = o[1]
      BY <1>2, <3>1 DEF EventsInv, LockInv
    <3>3. o[2] = "relay"
      BY <1>2, <3>1 DEF EventsInv, CallersInv
    <3> QED
      BY <3>1, <3>2, <3>3, NoTaskAssumption
  <2>3. ASSUME sessionLock[s] # NoTask
        PROVE  <<sessionLock[s], "relay">> \in owners
    BY <1>2, <2>1, <2>3 DEF LockHeld, Committing
  <2> QED
    BY <2>2, <2>3
<1>3. LockHeld /\ OnlyCompletionsLock /\ EventsInv /\ [EventsNext]_eventVars
        => LockHeld' /\ OnlyCompletionsLock'
  BY EventsNextLock
<1>4. EventsInv /\ LockHeld => LockIsOwned
  BY <1>2
<1> QED
  BY <1>1, <1>3, <1>4, EventsAlwaysInv, PTL DEF EventsSpec

-----------------------------------------------------------------------------
(* The rows of a session implement ResultHistory.                          *)

\* Rows numbered 1, 2, 3 ... are the list of their tasks.
LEMMA ContiguousTable ==
  ASSUME NEW rows \in Seq(ResultRecord),
         \A i \in DOMAIN rows : rows[i].version = i
  PROVE  VersionTable(rows) = [i \in 1 .. Len(rows) |-> rows[i].task]
<1> DEFINE last(v) == CHOOSE i \in DOMAIN rows :
                        /\ rows[i].version = v
                        /\ \A j \in DOMAIN rows : rows[j].version = v => j <= i
<1>1. DOMAIN rows = 1 .. Len(rows) /\ Len(rows) \in Nat
  OBVIOUS
<1>2. {rows[i].version : i \in DOMAIN rows} = 1 .. Len(rows)
  BY <1>1
<1>3. \A v \in 1 .. Len(rows) : last(v) = v
  <2> SUFFICES ASSUME NEW v \in 1 .. Len(rows) PROVE last(v) = v
    OBVIOUS
  <2>1. \A i \in DOMAIN rows :
          (/\ rows[i].version = v
           /\ \A j \in DOMAIN rows : rows[j].version = v => j <= i) <=> i = v
    BY <1>1
  <2> QED
    BY <1>1, <2>1
<1>4. VersionTable(rows) = [v \in {rows[i].version : i \in DOMAIN rows} |-> rows[last(v)].task]
  BY DEF VersionTable
<1> HIDE DEF last
<1> QED
  BY <1>2, <1>3, <1>4

\* A row with the next version appends its task.
LEMMA TableGrows ==
  ASSUME NEW rows \in Seq(ResultRecord), NEW row \in ResultRecord,
         \A i \in DOMAIN rows : rows[i].version = i,
         row.version = Len(rows) + 1
  PROVE  VersionTable(Append(rows, row)) = Append(VersionTable(rows), row.task)
<1> DEFINE longer == Append(rows, row)
           tasks  == [i \in 1 .. Len(rows) |-> rows[i].task]
<1>1. /\ longer \in Seq(ResultRecord)
      /\ Len(longer) = Len(rows) + 1 /\ Len(rows) \in Nat
      /\ DOMAIN rows = 1 .. Len(rows) /\ DOMAIN longer = 1 .. Len(rows) + 1
      /\ \A i \in 1 .. Len(rows) : longer[i] = rows[i]
      /\ longer[Len(rows) + 1] = row
  OBVIOUS
<1> HIDE DEF longer
<1>2. \A i \in DOMAIN longer : longer[i].version = i
  BY <1>1
<1>3. /\ VersionTable(rows) = tasks
      /\ VersionTable(longer) = [i \in 1 .. Len(rows) + 1 |-> longer[i].task]
  BY <1>1, <1>2, ContiguousTable
<1>4. \A i \in 1 .. Len(rows) : rows[i].task \in Tasks
  <2>1. \A i \in 1 .. Len(rows) : rows[i] \in ResultRecord
    BY <1>1
  <2> QED
    BY <2>1 DEF ResultRecord
<1>5. row.task \in Tasks
  BY DEF ResultRecord
<1>6. tasks \in Seq(Tasks) /\ Len(tasks) = Len(rows)
  <2>1. tasks \in [1 .. Len(rows) -> Tasks]
    BY <1>4
  <2> QED
    BY <1>1, <2>1, SeqDef
<1>7. [i \in 1 .. Len(rows) + 1 |-> longer[i].task] = Append(tasks, row.task)
  <2> DEFINE new == [i \in 1 .. Len(rows) + 1 |-> longer[i].task]
  <2>1. new \in [1 .. Len(rows) + 1 -> Tasks]
    BY <1>1, <1>4, <1>5
  <2>2. new \in Seq(Tasks) /\ Len(new) = Len(rows) + 1
    BY <1>1, <2>1, SeqDef
  <2>3. /\ Append(tasks, row.task) \in Seq(Tasks)
        /\ Len(Append(tasks, row.task)) = Len(rows) + 1
    BY <1>5, <1>6
  <2>4. ASSUME NEW i \in 1 .. Len(rows) + 1 PROVE new[i] = Append(tasks, row.task)[i]
    <3>1. CASE i = Len(rows) + 1
      <4>1. Append(tasks, row.task)[i] = row.task
        BY <1>6, <3>1
      <4> QED
        BY <1>1, <3>1, <4>1
    <3>2. CASE i # Len(rows) + 1
      <4>1. i \in 1 .. Len(rows)
        BY <1>1, <3>2
      <4>2. Append(tasks, row.task)[i] = tasks[i]
        BY <1>6, <4>1
      <4> QED
        BY <1>1, <4>1, <4>2
    <3> QED
      BY <3>1, <3>2
  <2> HIDE DEF new
  <2> QED
    BY <1>1, <2>2, <2>3, <2>4, SeqEqual
<1> QED
  BY <1>3, <1>7 DEF longer

\* The commit of a completion is AddVersion, any other step a stutter.
LEMMA StepAddsVersion ==
  ASSUME EventsInv, [EventsNext]_eventVars
  PROVE  \/ UNCHANGED results
         \/ \E t \in Tasks : StoreResult(t, Len(results[SessionOf[t]]) + 1)
<1>1. ASSUME NEW t \in Tasks, NEW c \in Callers, CallStepOf(t, c)
      PROVE  \/ UNCHANGED results
             \/ StoreResult(t, Len(results[SessionOf[t]]) + 1)
  <2>1. CASE FailCheck(t, c) \/ PersistRead(t, c) \/ PersistLock(t, c)
    BY <2>1 DEF FailCheck, PersistRead, PersistLock, dbVars
  <2>2. CASE PersistCommit(t, c)
    <3>1. CASE call[t][c].type = "completed"
      <4>1. StoreResult(t, call[t][c].version) /\ call[t][c].at = "commit"
        BY <2>2, <3>1 DEF PersistCommit
      <4>2. call[t][c].version = Len(results[SessionOf[t]]) + 1
        BY <3>1, <4>1, CallersAssumption DEF EventsInv, LockInv
      <4> QED
        BY <4>1, <4>2
    <3>2. CASE call[t][c].type # "completed"
      BY <2>2, <3>2 DEF PersistCommit
    <3> QED
      BY <3>1, <3>2
  <2> QED
    BY <1>1, <2>1, <2>2 DEF CallStepOf
<1>2. ASSUME NEW t \in Tasks, NEW c \in Callers, Ask(t, c) \/ Return(t, c) \/ Throw(t, c)
      PROVE  UNCHANGED results
  BY <1>2 DEF Ask, Return, Throw, Rollback, dbVars
<1>3. ASSUME NEW t \in Tasks, CreateRow(t) \/ ClaimRow(t)
      PROVE  UNCHANGED results
  BY <1>3 DEF CreateRow, ClaimRow
<1>4. CASE UNCHANGED eventVars
  BY <1>4 DEF eventVars, dbVars
<1> QED
  BY <1>1, <1>2, <1>3, <1>4 DEF EventsNext

\* What a step of the rows is to ResultHistory.
LEMMA StepRefines ==
  ASSUME EventsInv, [EventsNext]_eventVars
  PROVE  [History!Next]_[s \in Sessions |-> VersionTable(results[s])]
<1> DEFINE history == [s \in Sessions |-> VersionTable(results[s])]
           later   == [s \in Sessions |-> VersionTable(results'[s])]
<1>1. CASE UNCHANGED results
  BY <1>1
<1>2. ASSUME NEW t \in Tasks, StoreResult(t, Len(results[SessionOf[t]]) + 1)
      PROVE  History!Next
  <2> DEFINE s == SessionOf[t]
             row == [task |-> t, version |-> Len(results[s]) + 1, text |-> OutputText(log[t])]
  <2>1. s \in Sessions /\ results \in [Sessions -> Seq(ResultRecord)]
    BY SessionAssumption DEF EventsInv, EventsTypeOK
  <2>2. results[s] \in Seq(ResultRecord) /\ Len(results[s]) + 1 \in Nat
    BY <2>1
  <2>3. row \in ResultRecord /\ row.version = Len(results[s]) + 1 /\ row.task = t
    BY <2>2, OutputTextType DEF EventsInv, EventsTypeOK, ResultRecord
  <2>4. results' = [results EXCEPT ![s] = Append(results[s], row)]
    BY <1>2 DEF StoreResult
  <2>5. \A i \in DOMAIN results[s] : results[s][i].version = i
    BY <2>1 DEF EventsInv, VersionsContiguous
  <2> HIDE DEF row
  <2>6. VersionTable(Append(results[s], row)) = Append(VersionTable(results[s]), t)
    BY <2>2, <2>3, <2>5, TableGrows
  <2>7. later = [history EXCEPT ![s] = Append(history[s], t)]
    <3>1. \A u \in Sessions :
            later[u] = IF u = s THEN Append(history[u], t) ELSE history[u]
      BY <2>1, <2>4, <2>6
    <3> HIDE DEF s
    <3> QED
      BY <3>1, <2>1
  <2>8. History!AddVersion(t)
    BY <2>7 DEF History!AddVersion
  <2> QED
    BY <2>8 DEF History!Next
<1> QED
  BY <1>1, <1>2, StepAddsVersion

\* To a reader of a session's results, the read of the latest version, the
\* insert of the next one and everything that happens in between are a single
\* atomic append: the procedures of TaskEvents implement ResultHistory.
THEOREM ResultsAreAppended == EventsSpec => ImplementsHistory
<1>1. EventsInit => History!Init
  <2> SUFFICES ASSUME EventsInit PROVE History!Init
    OBVIOUS
  <2>1. \A s \in Sessions : VersionTable(results[s]) = << >>
    <3> SUFFICES ASSUME NEW s \in Sessions PROVE VersionTable(results[s]) = << >>
      OBVIOUS
    <3>1. results[s] = << >>
      BY DEF EventsInit
    <3>2. results[s] \in Seq(ResultRecord) /\ \A i \in DOMAIN results[s] : results[s][i].version = i
      BY <3>1
    <3>3. VersionTable(results[s]) = [i \in 1 .. 0 |-> results[s][i].task]
      BY <3>1, <3>2, ContiguousTable
    <3> QED
      BY <3>3
  <2> QED
    BY <2>1 DEF History!Init
<1>2. EventsInv /\ [EventsNext]_eventVars
        => [History!Next]_[s \in Sessions |-> VersionTable(results[s])]
  BY StepRefines
<1> QED
  BY <1>1, <1>2, EventsAlwaysInv, PTL DEF EventsSpec, ImplementsHistory, History!Spec

=============================================================================

-------------------------- MODULE TaskEventsLemmas --------------------------
(***************************************************************************)
(* What the steps of TaskEvents preserve, whoever takes them: the types,   *)
(* the versions of the results, and the agreement of a task's status with  *)
(* its stored events.                                                      *)
(***************************************************************************)
EXTENDS TaskEvents, SequenceTheorems, TLAPS

\* A completion about to commit holds the lock of its session, and the version
\* it read is still the next one.
LockInv ==
  \A t \in Tasks : \A c \in Caller :
    /\ call[t][c].at = "commit" /\ call[t][c].type = "completed"
    => /\ sessionLock[SessionOf[t]] = t
       /\ call[t][c].version = Len(results[SessionOf[t]]) + 1

\* Only the relay stores completions; the API's own events have no source id.
CallersInv ==
  \A t \in Tasks : \A c \in Caller \ {"relay"} :
    call[t][c].type \in {"failed", "cancelled"} /\ call[t][c].src = 0

EventsInv ==
  /\ EventsTypeOK
  /\ VersionsContiguous
  /\ LockInv
  /\ CallersInv

\* A task that has not been dispatched has no event that bears on its status:
\* with LogExplainsStatus this is what lets dispatchTask claim a queued task.
UndispatchedIsQuiet ==
  \A t \in Tasks : status[t] \in {"none", "queued"} =>
    \A i \in DOMAIN log[t] : log[t][i].type \notin StatusEvents

ExplainInv ==
  /\ LogExplainsStatus
  /\ UndispatchedIsQuiet

\* IdleCall, FailCall and PersistCall are call records.
LEMMA CallTypes ==
  /\ IdleCall \in CallRecord
  /\ FailCall \in CallRecord
  /\ \A type \in EventType, src \in Nat : PersistCall(type, src) \in CallRecord
BY DEF IdleCall, FailCall, PersistCall, CallRecord, CallStep, EventType, Terminal

\* The state in which the tables start.
LEMMA EventsInitInv == EventsInit => EventsInv /\ ExplainInv
<1> SUFFICES ASSUME EventsInit PROVE EventsInv /\ ExplainInv
  OBVIOUS
<1>1. EventsTypeOK
  BY CallTypes DEF EventsInit, EventsTypeOK, TaskStatus, SessionRecord
<1>2. VersionsContiguous /\ ExplainInv
  BY DEF EventsInit, VersionsContiguous, ExplainInv, LogExplainsStatus, UndispatchedIsQuiet
<1>3. LockInv /\ CallersInv
  BY DEF EventsInit, LockInv, CallersInv, IdleCall
<1> QED
  BY <1>1, <1>2, <1>3 DEF EventsInv

\* Steps that leave the tables and the calls alone.
LEMMA EventsUnchanged ==
  ASSUME EventsInv, UNCHANGED <<dbVars, sessionLock, call>>
  PROVE  EventsInv'
BY DEF EventsInv, EventsTypeOK, VersionsContiguous, LockInv, CallersInv, dbVars

\* Writes to the task and session rows alone.
LEMMA RowsInv ==
  ASSUME EventsInv,
         status' \in [Tasks -> TaskStatus],
         hasUrl' \in [Tasks -> BOOLEAN],
         session' \in [Sessions -> SessionRecord],
         UNCHANGED <<log, results, sessionLock, call>>
  PROVE  EventsInv'
BY DEF EventsInv, EventsTypeOK, VersionsContiguous, LockInv, CallersInv

\* A caller starts a call, or resumes after one, the tables untouched.
LEMMA SetCallInv ==
  ASSUME EventsInv, NEW t \in Tasks, NEW c \in Caller, NEW r \in CallRecord,
         SetCall(t, c, r),
         r.at # "commit",
         c # "relay" => r.type \in {"failed", "cancelled"} /\ r.src = 0,
         UNCHANGED <<dbVars, sessionLock>>
  PROVE  EventsInv'
<1>1. EventsTypeOK'
  BY DEF EventsInv, EventsTypeOK, SetCall, dbVars
<1>2. VersionsContiguous'
  BY DEF EventsInv, VersionsContiguous, dbVars
<1>3. \A u \in Tasks, d \in Caller :
        call'[u][d] = IF u = t /\ d = c THEN r ELSE call[u][d]
  BY DEF EventsInv, EventsTypeOK, SetCall
<1>4. LockInv'
  BY <1>3 DEF EventsInv, LockInv, dbVars
<1>5. CallersInv'
  BY <1>3 DEF EventsInv, CallersInv
<1> QED
  BY <1>1, <1>2, <1>4, <1>5 DEF EventsInv

\* Under contiguous versions the latest one is the number of rows.
LEMMA LatestVersionIsLen ==
  ASSUME EventsTypeOK, VersionsContiguous, NEW s \in Sessions
  PROVE  LatestVersion(s) = Len(results[s])
<1> DEFINE versions == {results[s][i].version : i \in DOMAIN results[s]}
<1>1. results[s] \in Seq(ResultRecord)
  BY DEF EventsTypeOK
<1>2. DOMAIN results[s] = 1 .. Len(results[s]) /\ Len(results[s]) \in Nat
  BY <1>1
<1>3. versions = 1 .. Len(results[s])
  BY <1>2 DEF VersionsContiguous
<1>4. CASE results[s] = << >>
  BY <1>4 DEF LatestVersion
<1>5. CASE results[s] # << >>
  <2>0. LatestVersion(s) = CHOOSE v \in versions : \A w \in versions : w <= v
    BY <1>5 DEF LatestVersion
  <2> HIDE DEF versions
  <2>1. Len(results[s]) >= 1
    BY <1>1, <1>5
  <2>2. Len(results[s]) \in versions /\ \A w \in versions : w <= Len(results[s])
    BY <1>2, <1>3, <2>1
  <2>3. \A v \in versions : (\A w \in versions : w <= v) => v = Len(results[s])
    BY <1>2, <1>3, <2>2
  <2> QED
    BY <2>0, <2>2, <2>3
<1> QED
  BY <1>4, <1>5

-----------------------------------------------------------------------------
\* failTask decides on a row and sends the call on, away from any commit.
LEMMA FailCheckInv ==
  ASSUME EventsInv, NEW t \in Tasks, NEW c \in Caller, FailCheck(t, c)
  PROVE  EventsInv'
<1> DEFINE r == IF status[t] \in Terminal \cup {"none"}
                  THEN [call[t][c] EXCEPT !.at = "done"] ELSE PersistCall("failed", 0)
<1>1. r \in CallRecord
  <2>1. call[t][c] \in CallRecord
    BY DEF EventsInv, EventsTypeOK
  <2>2. [call[t][c] EXCEPT !.at = "done"] \in CallRecord
    BY <2>1 DEF CallRecord, CallStep
  <2>3. PersistCall("failed", 0) \in CallRecord
    BY CallTypes DEF EventType, Terminal
  <2> QED
    BY <2>2, <2>3
<1>2. r.at # "commit"
  BY DEF EventsInv, EventsTypeOK, CallRecord, PersistCall
<1>3. c # "relay" => r.type \in {"failed", "cancelled"} /\ r.src = 0
  BY DEF EventsInv, EventsTypeOK, CallRecord, PersistCall, CallersInv
<1>4. SetCall(t, c, r) /\ UNCHANGED <<dbVars, sessionLock>>
  BY DEF FailCheck
<1> HIDE DEF r
<1> QED
  BY <1>1, <1>2, <1>3, <1>4, SetCallInv

\* A caller that resumes leaves an idle call behind.
LEMMA ResumeInv ==
  ASSUME EventsInv, NEW t \in Tasks, NEW c \in Caller, Resume(t, c),
         UNCHANGED <<dbVars, sessionLock>>
  PROVE  EventsInv'
BY CallTypes, SetCallInv DEF Resume, IdleCall

\* The reads of persistTaskEvent may send a completion to the lock but no
\* completion to its commit.
LEMMA PersistReadInv ==
  ASSUME EventsInv, NEW t \in Tasks, NEW c \in Caller, PersistRead(t, c)
  PROVE  EventsInv'
<1> DEFINE e == call[t][c]
           dropped == \/ status[t] \in Terminal \cup {"none"}
                      \/ e.src > 0 /\ Persisted(t, e.src)
           step == IF dropped THEN "done"
                   ELSE IF e.type = "completed" THEN "lock" ELSE "commit"
<1>1. SetCall(t, c, [e EXCEPT !.at = step]) /\ UNCHANGED <<dbVars, sessionLock>>
  BY DEF PersistRead
<1>2. step \in CallStep /\ (e.type = "completed" => step # "commit")
  BY DEF CallStep
<1> HIDE DEF step
<1>3. e \in CallRecord
  BY DEF EventsInv, EventsTypeOK
<1>4. /\ [e EXCEPT !.at = step] \in CallRecord
      /\ [e EXCEPT !.at = step].type = e.type
      /\ [e EXCEPT !.at = step].src = e.src
      /\ [e EXCEPT !.at = step].at = step
  BY <1>2, <1>3 DEF CallRecord
<1> DEFINE r == [e EXCEPT !.at = step]
<1>a. r.type = e.type /\ r.src = e.src /\ r.at = step
  BY <1>4
<1> HIDE DEF r
<1>5. \A u \in Tasks, d \in Caller :
        call'[u][d] = IF u = t /\ d = c THEN r ELSE call[u][d]
  BY <1>1 DEF EventsInv, EventsTypeOK, SetCall, r
<1>6. EventsTypeOK'
  BY <1>1, <1>4 DEF EventsInv, EventsTypeOK, SetCall, dbVars
<1>7. VersionsContiguous'
  BY <1>1 DEF EventsInv, VersionsContiguous, dbVars
<1>8. LockInv'
  BY <1>1, <1>2, <1>a, <1>5 DEF EventsInv, LockInv, dbVars
<1>9. CallersInv'
  BY <1>a, <1>5 DEF EventsInv, CallersInv
<1> QED
  BY <1>6, <1>7, <1>8, <1>9 DEF EventsInv

\* The lock is free, so no other completion of the session is about to commit.
LEMMA PersistLockInv ==
  ASSUME EventsInv, NEW t \in Tasks, NEW c \in Caller, PersistLock(t, c)
  PROVE  EventsInv'
<1> DEFINE s == SessionOf[t]
           version == LatestVersion(s) + 1
           r == [call[t][c] EXCEPT !.at = "commit", !.version = version]
<1>1. s \in Sessions
  BY SessionAssumption
<1>2. version = Len(results[s]) + 1 /\ version \in Nat
  BY <1>1, LatestVersionIsLen DEF EventsInv, EventsTypeOK
<1>3. /\ call[t][c].at = "lock"
      /\ sessionLock[s] = NoTask
      /\ sessionLock' = [sessionLock EXCEPT ![s] = t]
      /\ SetCall(t, c, r)
      /\ UNCHANGED dbVars
  BY DEF PersistLock
<1> HIDE DEF version
<1>4. call[t][c] \in CallRecord
  BY DEF EventsInv, EventsTypeOK
<1>5. /\ r \in CallRecord
      /\ r.type = call[t][c].type /\ r.src = call[t][c].src /\ r.version = version
  BY <1>2, <1>4 DEF CallRecord, CallStep
<1> HIDE DEF r
<1>6. \A u \in Tasks, d \in Caller :
        call'[u][d] = IF u = t /\ d = c THEN r ELSE call[u][d]
  BY <1>3 DEF EventsInv, EventsTypeOK, SetCall
<1>7. EventsTypeOK'
  BY <1>1, <1>3, <1>5 DEF EventsInv, EventsTypeOK, SetCall, dbVars
<1>8. VersionsContiguous'
  BY <1>3 DEF EventsInv, VersionsContiguous, dbVars
<1>9. LockInv'
  <2> SUFFICES ASSUME NEW u \in Tasks, NEW d \in Caller,
                      call'[u][d].at = "commit", call'[u][d].type = "completed"
               PROVE  /\ sessionLock'[SessionOf[u]] = u
                      /\ call'[u][d].version = Len(results'[SessionOf[u]]) + 1
    BY DEF LockInv
  <2>1. results' = results
    BY <1>3 DEF dbVars
  <2>2. CASE u = t /\ d = c
    BY <1>1, <1>2, <1>3, <1>5, <1>6, <2>1, <2>2 DEF EventsInv, EventsTypeOK
  <2>3. CASE ~(u = t /\ d = c)
    <3>1. /\ sessionLock[SessionOf[u]] = u
          /\ call[u][d].version = Len(results[SessionOf[u]]) + 1
      BY <1>6, <2>3 DEF EventsInv, LockInv
    <3>2. SessionOf[u] # s
      BY <1>3, <3>1, NoTaskAssumption
    <3> QED
      BY <1>3, <1>6, <2>1, <2>3, <3>1, <3>2, SessionAssumption DEF EventsInv, EventsTypeOK
  <2> QED
    BY <2>2, <2>3
<1>10. CallersInv'
  BY <1>5, <1>6 DEF EventsInv, CallersInv
<1> QED
  BY <1>7, <1>8, <1>9, <1>10 DEF EventsInv

\* A transaction that is given up frees the lock it holds; the caller's call
\* becomes any call that is not about to commit.
LEMMA RollbackInv ==
  ASSUME EventsInv, NEW t \in Tasks, NEW c \in Caller, Rollback(t, c),
         NEW r \in CallRecord, SetCall(t, c, r), r.at # "commit",
         c # "relay" => r.type \in {"failed", "cancelled"} /\ r.src = 0
  PROVE  EventsInv'
<1>1. \A u \in Tasks, d \in Caller :
        call'[u][d] = IF u = t /\ d = c THEN r ELSE call[u][d]
  BY DEF EventsInv, EventsTypeOK, SetCall
<1>2. EventsTypeOK'
  BY SessionAssumption DEF EventsInv, EventsTypeOK, SetCall, Rollback, dbVars
<1>3. VersionsContiguous'
  BY DEF EventsInv, VersionsContiguous, Rollback, dbVars
<1>4. LockInv'
  <2> SUFFICES ASSUME NEW u \in Tasks, NEW d \in Caller,
                      call'[u][d].at = "commit", call'[u][d].type = "completed"
               PROVE  /\ sessionLock'[SessionOf[u]] = u
                      /\ call'[u][d].version = Len(results'[SessionOf[u]]) + 1
    BY DEF LockInv
  <2>1. results' = results /\ call'[u][d] = call[u][d] /\ ~(u = t /\ d = c)
    BY <1>1 DEF Rollback, dbVars
  <2>2. /\ sessionLock[SessionOf[u]] = u
        /\ call[u][d].version = Len(results[SessionOf[u]]) + 1
    BY <2>1 DEF EventsInv, LockInv
  <2>3. CASE call[t][c].at = "commit" /\ call[t][c].type = "completed"
    <3>1. sessionLock[SessionOf[t]] = t
      BY <2>3 DEF EventsInv, LockInv
    <3>2. u # t
      BY <2>1, <2>3 DEF EventsInv, CallersInv
    <3>3. SessionOf[u] # SessionOf[t]
      BY <2>2, <3>1, <3>2
    <3> QED
      BY <2>1, <2>2, <2>3, <3>3, SessionAssumption DEF Rollback, EventsInv, EventsTypeOK
  <2>4. CASE ~(call[t][c].at = "commit" /\ call[t][c].type = "completed")
    BY <2>1, <2>2, <2>4 DEF Rollback
  <2> QED
    BY <2>3, <2>4
<1>5. CallersInv'
  BY <1>1 DEF EventsInv, CallersInv
<1> QED
  BY <1>2, <1>3, <1>4, <1>5 DEF EventsInv


\* outputText lists the ids of source events.
LEMMA OutputTextType ==
  ASSUME NEW events \in Seq(EventRecord)
  PROVE  OutputText(events) \in Seq(Nat)
<1>1. Len(events) \in Nat /\ DOMAIN events = 1 .. Len(events)
  OBVIOUS
<1>2. \A i \in 1 .. Len(events) : events[i] \in EventRecord
  BY <1>1
<1>3. \A i \in 1 .. Len(events) : events[i].src \in Nat
  BY <1>2 DEF EventRecord
<1>4. OutputText(events) \in [1 .. Len(events) -> Nat]
  BY <1>1, <1>3 DEF OutputText
<1> QED
  BY <1>1, <1>4, SeqDef

\* The rows after the commit of a completion: the version that was read is
\* the number of the new row.
LEMMA StoreResultInv ==
  ASSUME EventsTypeOK, VersionsContiguous, NEW t \in Tasks, NEW version \in Nat,
         version = Len(results[SessionOf[t]]) + 1, StoreResult(t, version)
  PROVE  /\ results' \in [Sessions -> Seq(ResultRecord)]
         /\ VersionsContiguous'
         /\ \A s \in Sessions : s # SessionOf[t] => results'[s] = results[s]
<1> DEFINE s == SessionOf[t]
           row == [task |-> t, version |-> version, text |-> OutputText(log[t])]
<1>1. s \in Sessions /\ results \in [Sessions -> Seq(ResultRecord)]
  BY SessionAssumption DEF EventsTypeOK
<1>2. row \in ResultRecord /\ row.version = version
  BY OutputTextType DEF EventsTypeOK, ResultRecord
<1>3. results' = [results EXCEPT ![s] = Append(@, row)]
  BY DEF StoreResult
<1> HIDE DEF row, s
<1>4. /\ results[s] \in Seq(ResultRecord)
      /\ results'[s] = Append(results[s], row)
      /\ \A u \in Sessions : u # s => results'[u] = results[u]
  BY <1>1, <1>3
<1>5. Append(results[s], row) \in Seq(ResultRecord)
  BY <1>2, <1>4
<1>6. results' \in [Sessions -> Seq(ResultRecord)]
  BY <1>1, <1>3, <1>5
<1>7. \A i \in DOMAIN results'[s] : results'[s][i].version = i
  <2>1. \A i \in DOMAIN results[s] : results[s][i].version = i
    BY <1>1 DEF VersionsContiguous
  <2>2. version = Len(results[s]) + 1
    BY DEF s
  <2> QED
    BY <1>2, <1>4, <2>1, <2>2
<1>8. VersionsContiguous'
  BY <1>4, <1>7 DEF VersionsContiguous
<1> QED
  BY <1>4, <1>6, <1>8 DEF s

\* The event row of a commit.
LEMMA AppendEvent ==
  ASSUME EventsTypeOK, NEW t \in Tasks, NEW e \in CallRecord,
         log' = [log EXCEPT ![t] = Append(@, [type |-> e.type, src |-> e.src])]
  PROVE  /\ log' \in [Tasks -> Seq(EventRecord)]
         /\ log'[t] = Append(log[t], [type |-> e.type, src |-> e.src])
         /\ \A u \in Tasks : u # t => log'[u] = log[u]
<1> DEFINE row == [type |-> e.type, src |-> e.src]
<1>1. row \in EventRecord
  BY DEF CallRecord, EventRecord
<1>2. log \in [Tasks -> Seq(EventRecord)] /\ log[t] \in Seq(EventRecord)
  BY DEF EventsTypeOK
<1> HIDE DEF row
<1>3. Append(log[t], row) \in Seq(EventRecord)
  BY <1>1, <1>2
<1> QED
  BY <1>2, <1>3 DEF row

\* The commit of a completion frees the lock only it held; any other event
\* leaves the results and the locks alone.
LEMMA PersistCommitInv ==
  ASSUME EventsInv, NEW t \in Tasks, NEW c \in Caller, PersistCommit(t, c)
  PROVE  EventsInv'
<1> DEFINE e == call[t][c]
           s == SessionOf[t]
           r == [e EXCEPT !.at = "done"]
<1>1. e \in CallRecord /\ e.at = "commit" /\ s \in Sessions
  BY SessionAssumption DEF EventsInv, EventsTypeOK, PersistCommit
<1>2. /\ r \in CallRecord /\ SetCall(t, c, r)
      /\ r.at = "done" /\ r.type = e.type /\ r.src = e.src
  BY <1>1 DEF CallRecord, CallStep, PersistCommit
<1> HIDE DEF r
<1>3. \A u \in Tasks, d \in Caller :
        call'[u][d] = IF u = t /\ d = c THEN r ELSE call[u][d]
  BY <1>2 DEF EventsInv, EventsTypeOK, SetCall
<1>4. CallersInv'
  BY <1>2, <1>3 DEF EventsInv, CallersInv
<1>5. log' \in [Tasks -> Seq(EventRecord)]
  BY <1>1, AppendEvent DEF EventsInv, PersistCommit
<1>6. status' \in [Tasks -> TaskStatus]
  <2> DEFINE new == CASE e.type = "accepted" -> "running"
                      [] e.type \in Terminal -> e.type
                      [] OTHER                -> status[t]
  <2>1. status' = [status EXCEPT ![t] = new] /\ status \in [Tasks -> TaskStatus]
    BY DEF PersistCommit, EventsInv, EventsTypeOK
  <2>2. new \in TaskStatus
    <3>1. CASE e.type = "accepted"
      BY <3>1 DEF TaskStatus, Active, Terminal
    <3>2. CASE e.type \in Terminal
      BY <3>2 DEF TaskStatus, Terminal
    <3>3. CASE e.type # "accepted" /\ e.type \notin Terminal
      BY <2>1, <3>3
    <3> QED
      BY <3>1, <3>2, <3>3
  <2> HIDE DEF new
  <2> QED
    BY <2>1, <2>2
<1>7. session' \in [Sessions -> SessionRecord]
  <2> DEFINE new == CASE e.type = "completed" -> [status |-> "completed", current |-> t]
                      [] e.type \in {"failed", "cancelled"} -> [session[s] EXCEPT !.status = e.type]
                      [] OTHER -> session[s]
  <2>1. session' = [session EXCEPT ![s] = new] /\ session \in [Sessions -> SessionRecord]
    BY DEF PersistCommit, EventsInv, EventsTypeOK
  <2>2. session[s] \in SessionRecord
    BY <1>1, <2>1
  <2>3. new \in SessionRecord
    <3>1. CASE e.type = "completed"
      BY <3>1 DEF SessionRecord, TaskStatus, Terminal
    <3>2. CASE e.type \in {"failed", "cancelled"}
      <4>1. e.type \in TaskStatus
        BY <3>2 DEF TaskStatus, Terminal
      <4>2. [session[s] EXCEPT !.status = e.type] \in SessionRecord
        BY <2>2, <4>1 DEF SessionRecord
      <4> QED
        BY <3>2, <4>2
    <3>3. CASE e.type \notin {"completed", "failed", "cancelled"}
      BY <2>2, <3>3
    <3> QED
      BY <3>1, <3>2, <3>3
  <2> HIDE DEF new
  <2> QED
    BY <2>1, <2>3
<1>8. call' \in [Tasks -> [Caller -> CallRecord]] /\ hasUrl' \in [Tasks -> BOOLEAN]
  <2>1. call' \in [Tasks -> [Caller -> CallRecord]]
    BY <1>2 DEF SetCall, EventsInv, EventsTypeOK
  <2>2. hasUrl' = hasUrl
    BY DEF PersistCommit
  <2> QED
    BY <2>1, <2>2 DEF EventsInv, EventsTypeOK
<1>9. CASE e.type = "completed"
  <2>1. /\ StoreResult(t, e.version)
        /\ sessionLock' = [sessionLock EXCEPT ![s] = NoTask]
        /\ sessionLock[s] = t
        /\ e.version = Len(results[s]) + 1 /\ e.version \in Nat
    BY <1>1, <1>9 DEF PersistCommit, EventsInv, LockInv, CallRecord
  <2>2. /\ results' \in [Sessions -> Seq(ResultRecord)]
        /\ VersionsContiguous'
        /\ \A u \in Sessions : u # s => results'[u] = results[u]
    BY <2>1, StoreResultInv DEF EventsInv
  <2>3. EventsTypeOK'
    BY <1>5, <1>6, <1>7, <1>8, <2>1, <2>2 DEF EventsInv, EventsTypeOK
  <2>4. LockInv'
    <3> SUFFICES ASSUME NEW u \in Tasks, NEW d \in Caller,
                        call'[u][d].at = "commit", call'[u][d].type = "completed"
                 PROVE  /\ sessionLock'[SessionOf[u]] = u
                        /\ call'[u][d].version = Len(results'[SessionOf[u]]) + 1
      BY DEF LockInv
    <3>1. call'[u][d] = call[u][d] /\ ~(u = t /\ d = c)
      BY <1>2, <1>3
    <3>2. /\ sessionLock[SessionOf[u]] = u
          /\ call[u][d].version = Len(results[SessionOf[u]]) + 1
      BY <3>1 DEF EventsInv, LockInv
    <3>3. u # t
      BY <1>9, <3>1 DEF EventsInv, CallersInv
    <3>4. SessionOf[u] # s /\ SessionOf[u] \in Sessions
      BY <2>1, <3>2, <3>3, SessionAssumption
    <3> QED
      BY <2>1, <2>2, <3>1, <3>2, <3>4 DEF EventsInv, EventsTypeOK
  <2> QED
    BY <1>4, <2>2, <2>3, <2>4 DEF EventsInv
<1>10. CASE e.type # "completed"
  <2>1. UNCHANGED <<results, sessionLock>>
    BY <1>10 DEF PersistCommit
  <2>2. EventsTypeOK' /\ VersionsContiguous'
    BY <1>5, <1>6, <1>7, <1>8, <2>1
       DEF EventsInv, EventsTypeOK, VersionsContiguous
  <2>3. LockInv'
    BY <1>2, <1>3, <2>1 DEF EventsInv, LockInv
  <2> QED
    BY <1>4, <2>2, <2>3 DEF EventsInv
<1> QED
  BY <1>9, <1>10

\* The row and its status are written in one transaction.
LEMMA PersistCommitExplains ==
  ASSUME EventsInv, ExplainInv, NEW t \in Tasks, NEW c \in Caller,
         PersistCommit(t, c)
  PROVE  ExplainInv'
<1> DEFINE e == call[t][c]
           row == [type |-> e.type, src |-> e.src]
<1>1. e \in CallRecord /\ log[t] \in Seq(EventRecord)
  BY DEF EventsInv, EventsTypeOK
<1>2. /\ log'[t] = Append(log[t], row)
      /\ \A u \in Tasks : u # t => log'[u] = log[u]
  BY <1>1, AppendEvent DEF EventsInv, PersistCommit
<1>3. \A u \in Tasks : u # t => status'[u] = status[u]
  BY DEF PersistCommit, EventsInv, EventsTypeOK
<1>4. e.type \in StatusEvents => status'[t] = StatusOf(e.type)
  BY DEF PersistCommit, EventsInv, EventsTypeOK, StatusEvents, StatusOf, Terminal
<1>5. e.type \notin StatusEvents => status'[t] = status[t]
  BY DEF PersistCommit, EventsInv, EventsTypeOK, StatusEvents
<1>6. row.type = e.type
  OBVIOUS
<1>7. e.type \in EventType
  BY <1>1 DEF CallRecord
<1> HIDE DEF row, e
<1>8. /\ Len(log[t]) \in Nat /\ DOMAIN log[t] = 1 .. Len(log[t])
      /\ DOMAIN log'[t] = 1 .. Len(log[t]) + 1
      /\ log'[t][Len(log[t]) + 1] = row
      /\ \A j \in 1 .. Len(log[t]) : log'[t][j] = log[t][j]
  BY <1>1, <1>2
<1>9. LogExplainsStatus'
  <2> SUFFICES ASSUME NEW u \in Tasks, NEW i \in DOMAIN log'[u],
                      log'[u][i].type \in StatusEvents,
                      \A j \in DOMAIN log'[u] : j > i => log'[u][j].type \notin StatusEvents
               PROVE  status'[u] = StatusOf(log'[u][i].type)
    BY DEF LogExplainsStatus
  <2>1. CASE u # t
    BY <1>2, <1>3, <2>1 DEF ExplainInv, LogExplainsStatus
  <2>2. CASE u = t /\ i = Len(log[t]) + 1
    BY <1>4, <1>6, <1>8, <2>2
  <2>3. CASE u = t /\ i # Len(log[t]) + 1
    <3>1. i \in DOMAIN log[t] /\ log'[t][i] = log[t][i]
      BY <1>8, <2>3
    <3>2. e.type \notin StatusEvents
      BY <1>6, <1>8, <2>3, <3>1
    <3>3. \A j \in DOMAIN log[t] : j > i => log[t][j].type \notin StatusEvents
      BY <1>8, <2>3
    <3>4. status[t] = StatusOf(log[t][i].type)
      BY <2>3, <3>1, <3>3 DEF ExplainInv, LogExplainsStatus
    <3> QED
      BY <1>5, <2>3, <3>1, <3>2, <3>4
  <2> QED
    BY <2>1, <2>2, <2>3
<1>10. UndispatchedIsQuiet'
  <2> SUFFICES ASSUME NEW u \in Tasks, status'[u] \in {"none", "queued"},
                      NEW i \in DOMAIN log'[u]
               PROVE  log'[u][i].type \notin StatusEvents
    BY DEF UndispatchedIsQuiet
  <2>1. CASE u # t
    BY <1>2, <1>3, <2>1 DEF ExplainInv, UndispatchedIsQuiet
  <2>2. CASE u = t
    <3>1. e.type \notin StatusEvents
      BY <1>4, <2>2 DEF StatusOf, StatusEvents, Terminal
    <3>2. \A j \in DOMAIN log[t] : log[t][j].type \notin StatusEvents
      BY <1>5, <2>2, <3>1 DEF ExplainInv, UndispatchedIsQuiet
    <3> QED
      BY <1>6, <1>8, <2>2, <3>1, <3>2, SMTT(20)
  <2> QED
    BY <2>1, <2>2
<1> QED
  BY <1>9, <1>10 DEF ExplainInv

\* Steps that leave the status and the events alone.
LEMMA ExplainUnchanged ==
  ASSUME ExplainInv, UNCHANGED <<status, log>>
  PROVE  ExplainInv'
BY DEF ExplainInv, LogExplainsStatus, UndispatchedIsQuiet

\* A row is created or claimed: the events say nothing of its status yet.
LEMMA QuietUpdate ==
  ASSUME EventsTypeOK, ExplainInv, NEW t \in Tasks, NEW new \in {"queued", "running"},
         status[t] \in {"none", "queued"},
         status' = [status EXCEPT ![t] = new], UNCHANGED log
  PROVE  ExplainInv'
BY DEF EventsTypeOK, ExplainInv, LogExplainsStatus, UndispatchedIsQuiet

\* Every step of the procedures.
LEMMA CallStepInv ==
  ASSUME EventsInv, NEW t \in Tasks, NEW c \in Caller, CallStepOf(t, c)
  PROVE  EventsInv' /\ (ExplainInv => ExplainInv')
<1>1. CASE FailCheck(t, c)
  BY <1>1, FailCheckInv, ExplainUnchanged DEF FailCheck, dbVars
<1>2. CASE PersistRead(t, c)
  BY <1>2, PersistReadInv, ExplainUnchanged DEF PersistRead, dbVars
<1>3. CASE PersistLock(t, c)
  BY <1>3, PersistLockInv, ExplainUnchanged DEF PersistLock, dbVars
<1>4. CASE PersistCommit(t, c)
  BY <1>4, PersistCommitInv, PersistCommitExplains
<1> QED
  BY <1>1, <1>2, <1>3, <1>4 DEF CallStepOf

=============================================================================

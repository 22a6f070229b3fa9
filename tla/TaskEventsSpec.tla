--------------------------- MODULE TaskEventsSpec ---------------------------
(***************************************************************************)
(* TaskEvents on its own: the storing procedures under callers that may    *)
(* ask for anything at any time, of which TasksService is one case.  What  *)
(* holds here does not depend on who calls.                                *)
(***************************************************************************)
EXTENDS TaskEvents

CONSTANTS
  Callers,   (* The callers that are at work.                              *)
  MaxSrc,    (* Bound: highest source event id.                            *)
  MaxLog     (* Bound: stored events of a task.                            *)

ASSUME CallersAssumption == Callers \subseteq Caller
ASSUME MaxSrcAssumption  == MaxSrc \in Nat
ASSUME MaxLogAssumption  == MaxLog \in Nat

eventVars == <<dbVars, sessionLock, call>>

\* enqueueTask and dispatchTask, as far as they touch the rows.
CreateRow(t) ==
  /\ status[t] = "none"
  /\ status' = [status EXCEPT ![t] = "queued"]
  /\ session' = [session EXCEPT ![SessionOf[t]] =
                   [status |-> "queued", current |-> t]]
  /\ UNCHANGED <<hasUrl, log, results, sessionLock, call>>

ClaimRow(t) ==
  /\ status[t] = "queued"
  /\ status' = [status EXCEPT ![t] = "running"]
  /\ hasUrl' = [hasUrl EXCEPT ![t] = TRUE]
  /\ UNCHANGED <<log, session, results, sessionLock, call>>

\* The relay passes on any event of the adapter or fails the task, cancelTask
\* stores task.cancelled, the other callers fail the task.
Ask(t, c) ==
  /\ call[t][c].at = "idle"
  /\ status[t] # "none"
  /\ Len(log[t]) < MaxLog
  /\ \E e \in CASE c = "relay"  -> {PersistCall(type, src) : type \in EventType, src \in 1 .. MaxSrc}
                                    \cup {FailCall}
                [] c = "cancel" -> {PersistCall("cancelled", 0)}
                [] OTHER        -> {FailCall} :
       SetCall(t, c, e)
  /\ UNCHANGED <<dbVars, sessionLock>>

Return(t, c) ==
  /\ Resume(t, c)
  /\ UNCHANGED <<dbVars, sessionLock>>

Throw(t, c) ==
  /\ Rollback(t, c)
  /\ SetCall(t, c, IdleCall)

EventsNext ==
  \E t \in Tasks :
    \/ CreateRow(t)
    \/ ClaimRow(t)
    \/ \E c \in Callers : Ask(t, c) \/ CallStepOf(t, c) \/ Return(t, c) \/ Throw(t, c)

EventsSpec == EventsInit /\ [][EventsNext]_eventVars

\* PostgreSQL runs every statement it was sent and Node resumes its caller.
\* Requests for a lock are granted in the order in which they came, so a
\* transaction is not passed over forever: hence the strong fairness.
EventsFairness ==
  \A t \in Tasks : \A c \in Callers :
    /\ WF_eventVars(CallStepOf(t, c))
    /\ SF_eventVars(PersistLock(t, c))
    /\ WF_eventVars(Return(t, c))

EventsFairSpec == EventsSpec /\ EventsFairness

-----------------------------------------------------------------------------
\* The advisory lock of a session is held by a transaction about to commit,
\* and by one only: no path of the transaction leaves it behind.
LockIsOwned ==
  \A s \in Sessions :
    LET owners == {o \in Tasks \X Caller :
                     /\ SessionOf[o[1]] = s
                     /\ call[o[1]][o[2]].at = "commit"
                     /\ call[o[1]][o[2]].type = "completed"}
    IN  /\ sessionLock[s] # NoTask <=> owners # {}
        /\ \A o, p \in owners : o = p

\* A completion that waits for the session gets it: completions of other
\* tasks of the conversation, stored or rolled back, let it through.
LockIsGranted ==
  \A t \in Tasks : \A c \in Callers :
    (call[t][c].at = "lock") ~> (call[t][c].at # "lock")

\* The result rows of a session as a function of the version, the later row
\* if two share one.
VersionTable(rows) ==
  [v \in {rows[i].version : i \in DOMAIN rows} |->
     LET last == CHOOSE i \in DOMAIN rows :
                   /\ rows[i].version = v
                   /\ \A j \in DOMAIN rows : rows[j].version = v => j <= i
     IN  rows[last].task]

History == INSTANCE ResultHistory
             WITH history <- [s \in Sessions |-> VersionTable(results[s])]

\* Reading the latest version and inserting the next, two steps of a long
\* transaction, look to readers of the results like one atomic append.
ImplementsHistory == History!Spec

=============================================================================

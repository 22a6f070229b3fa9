------------------------- MODULE GatewayClientProofs -------------------------
(***************************************************************************)
(* The safety of the adapter's Gateway client for any tasks, sessions,     *)
(* calls and sockets: what GatewayClient.tla checks on a small instance.   *)
(*                                                                         *)
(* Timers, frames and rejections find a task's entry by the task or by the *)
(* run and may find another call's.  What keeps that harmless is that an   *)
(* entry, wherever it was looked up, belongs to a call of the same task    *)
(* (Entries), and that a call for a task of its own is never at two places *)
(* at once (Alone).                                                        *)
(***************************************************************************)
EXTENDS GatewayClient, TLAPS

\* A call has a task from its first step on.
CallsHaveTasks ==
  \A e \in Execs : IF exec[e].at = "idle" THEN TaskOf(e) = None /\ ~exec[e].timer
                                      ELSE TaskOf(e) \in Tasks

\* An entry of activeByTask is of a call for that task, which waits for the end
\* of its run on the shared socket, with its timer armed.
ActiveIsOwn ==
  \A t \in Tasks : LET e == activeByTask[t]
                   IN  e # None => /\ TaskOf(e) = t /\ exec[e].at \in {"sent", "running"}
                                   /\ exec[e].timer

\* An entry of fallbackByTask is of a call for that task on a connection of its own.
FallbackIsOwn ==
  \A t \in Tasks : LET e == fallbackByTask[t]
                   IN  e # None => /\ TaskOf(e) = t
                                   /\ exec[e].at \in {"fallback", "fbRunning", "http", "mute"}

\* A run that was asked for is a call's, and is known by a call of its task only.
RunsHaveTasks ==
  \A r \in Execs :
    /\ run[r] # "none" => exec[r].at # "idle"
    /\ LET e == taskByRun[r]
       IN  e # None => /\ exec[r].at # "idle" /\ TaskOf(e) = TaskOf(r)
                       /\ exec[e].at \in {"running", "over"}

Entries == CallsHaveTasks /\ ActiveIsOwn /\ FallbackIsOwn /\ RunsHaveTasks

\* With one call for its task, a run is known only as long as its call is active.
RunIsActive ==
  \A r \in Execs : LET e == taskByRun[r]
                   IN  e # None => \/ Repeated(TaskOf(e))
                                   \/ e = r /\ IsActive(e) /\ exec[e].run = r

\* Nothing was published for a task that no call is for.
StreamHasCall ==
  \A t \in Tasks : stream[t] # <<>> => \E e \in Execs : TaskOf(e) = t

EventsInSession ==
  \A t \in Tasks : \A i \in DOMAIN stream[t] :
    LET r == stream[t][i].run
    IN  r # None => exec[r].at # "idle" /\ SessionOf[TaskOf(r)] = SessionOf[t]

Accepted(s) == \E i \in DOMAIN s : s[i].type = "accepted"
Ended(s)    == \E i \in DOMAIN s : s[i].type \in Ends

\* A task's only call has published no acceptance before it is accepted.
NotYetAccepted ==
  \A e \in Execs :
    exec[e].at \in {"connecting", "sent", "falling", "fallback", "http"}
      => Repeated(TaskOf(e)) \/ ~Accepted(stream[TaskOf(e)])

\* After the end of a task, nothing is left that could publish for it.
Quiet(t) ==
  /\ activeByTask[t] = None /\ fallbackByTask[t] = None
  /\ \A e \in Execs : TaskOf(e) = t => exec[e].at \in {"over", "hung"}

EndedIsQuiet ==
  \A t \in Tasks :
    Repeated(t) \/ CancelledEarly(t) \/ (Ended(stream[t]) => Quiet(t))

Alone == RunIsActive /\ StreamHasCall /\ NotYetAccepted /\ EndedIsQuiet

Inv == TypeOK /\ Entries /\ ActiveIsConnected /\ EventsInSession /\ Alone /\ EndIsLast

-----------------------------------------------------------------------------
(* Types.                                                                    *)

LEMMA InitType == Init => TypeOK
<1> SUFFICES ASSUME Init PROVE TypeOK
  OBVIOUS
<1>1. exec \in [Execs -> Exec]
  BY DEF Init, Exec, At
<1>2. stream \in [Tasks -> Seq(Event)]
  BY DEF Init
<1>3. faults \in 0 .. MaxFaults
  BY BoundsAssumption DEF Init
<1> QED
  BY <1>1, <1>2, <1>3 DEF Init, TypeOK, RunState, SockState

LEMMA FaultType == ASSUME TypeOK, Fault \/ UNCHANGED faults PROVE faults' \in 0 .. MaxFaults
BY BoundsAssumption DEF TypeOK, Fault

LEMMA PublishType ==
  ASSUME TypeOK, NEW t \in Tasks, NEW type \in EventType, NEW r \in Execs \cup {None},
         Publish(t, type, r)
  PROVE  stream' \in [Tasks -> Seq(Event)]
<1>1. [type |-> type, run |-> r] \in Event
  BY DEF Event
<1> QED
  BY <1>1 DEF TypeOK, Publish

LEMMA RemoveTaskType ==
  ASSUME TypeOK, NEW e \in Execs, RemoveTask(e)
  PROVE  activeByTask' \in [Tasks -> Execs \cup {None}] /\ taskByRun' \in [Execs -> Execs \cup {None}]
BY DEF TypeOK, RemoveTask

LEMMA UpdateTypes ==
  ASSUME NEW x \in Exec
  PROVE  /\ \A at \in At : [x EXCEPT !.at = at] \in Exec
         /\ \A r \in Execs \cup {None} : [x EXCEPT !.run = r] \in Exec
         /\ \A t \in Tasks : [x EXCEPT !.task = t] \in Exec
         /\ \A armed \in BOOLEAN : [x EXCEPT !.timer = armed] \in Exec
         /\ \A reply \in {"no", "accepted", "failed"} : [x EXCEPT !.reply = reply] \in Exec
BY DEF Exec

\* What the handlers do to a call keeps it a call.
LEMMA CallTypes ==
  ASSUME TypeOK, NEW e \in Execs
  PROVE  /\ Dropped(e) \in Exec
         /\ \A t \in Tasks \cup {None} : Sent(e, t) \in Exec
BY DEF TypeOK, Dropped, Sent, Exec, At

LEMMA RejectedType == TypeOK => RejectedCalls \in [Execs -> Exec]
<1>1. ASSUME TypeOK, NEW e \in Execs
      PROVE  exec[e] \in Exec /\ [exec[e] EXCEPT !.at = "falling"] \in Exec
  BY <1>1 DEF TypeOK, Exec, At
<1> QED
  BY <1>1 DEF RejectedCalls

\* A call goes on, or starts for a task without the shared socket.
LEMMA GoType ==
  ASSUME TypeOK, NEW e \in Execs, NEW at \in At
  PROVE  /\ [exec EXCEPT ![e].at = at] \in [Execs -> Exec]
         /\ \A t \in Tasks : [exec EXCEPT ![e].task = t, ![e].at = at] \in [Execs -> Exec]
<1>1. [exec[e] EXCEPT !.at = at] \in Exec
  BY DEF TypeOK, Exec
<1>2. [exec EXCEPT ![e].at = at] \in [Execs -> Exec]
  BY <1>1 DEF TypeOK
<1>3. ASSUME NEW t \in Tasks
      PROVE  [exec EXCEPT ![e].task = t, ![e].at = at] \in [Execs -> Exec]
  <2>1. [[exec[e] EXCEPT !.task = t] EXCEPT !.at = at] \in Exec
    BY DEF TypeOK, Exec
  <2>2. [exec EXCEPT ![e].task = t, ![e].at = at]
          = [exec EXCEPT ![e] = [[exec[e] EXCEPT !.task = t] EXCEPT !.at = at]]
    BY DEF TypeOK
  <2> QED
    BY <2>1, <2>2 DEF TypeOK
<1> QED
  BY <1>2, <1>3

LEMMA OpenSocketType ==
  ASSUME TypeOK, EnsureConnected
  PROVE  /\ sock' \in [Sockets -> SockState] /\ socket' \in Sockets \cup {None}
         /\ connected' \in BOOLEAN /\ pending' \in BOOLEAN
<1>1. CASE pending
  BY <1>1 DEF EnsureConnected, TypeOK
<1>2. CASE ~pending
  <2> DEFINE k == CHOOSE k \in Sockets : sock[k] = "closed"
  <2>1. k \in Sockets
    BY <1>2 DEF EnsureConnected, OpenSocket
  <2> QED
    BY <1>2, <2>1 DEF EnsureConnected, OpenSocket, TypeOK, SockState
<1> QED
  BY <1>1, <1>2

LEMMA StartType ==
  ASSUME TypeOK, NEW e \in Execs, NEW t \in TasksOf[e],
         Execute(e, t) \/ ExecuteConnects(e, t) \/ PrepareFails(e, t)
  PROVE  TypeOK'
<1>0. t \in Tasks
  BY TasksOfAssumption
<1>1. CASE Execute(e, t)
  <2>1. exec' \in [Execs -> Exec]
    BY <1>0, <1>1, CallTypes DEF Execute, TypeOK
  <2>2. run' \in [Execs -> RunState] /\ link' \in [Execs -> Sockets \cup {None}]
    BY <1>1 DEF Execute, ChatSend, runVars, TypeOK, RunState, IsOpen
  <2> QED
    BY <1>0, <1>1, <2>1, <2>2 DEF Execute, TypeOK, linkVars
<1>2. CASE ExecuteConnects(e, t)
  <2>1. exec' \in [Execs -> Exec]
    BY <1>0, <1>2, GoType DEF ExecuteConnects, At
  <2> QED
    BY <1>2, <2>1, OpenSocketType DEF ExecuteConnects, TypeOK, clientVars, runVars
<1>3. CASE PrepareFails(e, t)
  <2>1. exec' \in [Execs -> Exec]
    BY <1>0, <1>3, GoType DEF PrepareFails, At
  <2> QED
    BY <1>3, <2>1, FaultType DEF PrepareFails, TypeOK, clientVars, linkVars, runVars
<1> QED
  BY <1>1, <1>2, <1>3

LEMMA ConnectOkType ==
  ASSUME TypeOK, NEW k \in Sockets, ConnectOk(k)
  PROVE  TypeOK'
<1>1. exec' \in [Execs -> Exec]
  BY CallTypes DEF ConnectOk, TypeOK, TaskOf, Exec
<1>2. activeByTask' \in [Tasks -> Execs \cup {None}]
  BY DEF ConnectOk
<1>3. run' \in [Execs -> RunState] /\ link' \in [Execs -> Sockets \cup {None}]
  BY DEF ConnectOk, ChatSend, TypeOK, RunState
<1> QED
  BY <1>1, <1>2, <1>3 DEF ConnectOk, TypeOK, SockState

LEMMA SocketClosesType ==
  ASSUME TypeOK, NEW k \in Sockets, SocketCloses(k)
  PROVE  TypeOK'
<1>1. exec' \in [Execs -> Exec]
  BY CallTypes, RejectedType DEF SocketCloses, Disconnect
<1>2. stream' \in [Tasks -> Seq(Event)]
  <2>1. [type |-> "failed", run |-> None] \in Event
    BY DEF Event, EventType, Ends
  <2> QED
    BY <2>1 DEF SocketCloses, Disconnect, FailedStream, TypeOK
<1>3. run' \in [Execs -> RunState] /\ link' \in [Execs -> Sockets \cup {None}]
  BY DEF SocketCloses, LoseRuns, TypeOK, RunState
<1>4. faults' \in 0 .. MaxFaults
  BY FaultType DEF SocketCloses
<1> QED
  BY <1>1, <1>2, <1>3, <1>4 DEF SocketCloses, Disconnect, TypeOK, SockState

LEMMA LinkStepType == ASSUME TypeOK, LinkStep PROVE TypeOK'
<1>1. ASSUME NEW k \in Sockets, ConnectOk(k) PROVE TypeOK'
  BY <1>1, ConnectOkType
<1>2. ASSUME NEW k \in Sockets, ConnectRefused(k) PROVE TypeOK'
  <2>1. exec' \in [Execs -> Exec]
    BY <1>2, RejectedType DEF ConnectRefused
  <2> QED
    BY <1>2, <2>1, FaultType DEF ConnectRefused, TypeOK, SockState, clientVars, runVars
<1>3. ASSUME NEW k \in Sockets, SocketCloses(k) PROVE TypeOK'
  BY <1>3, SocketClosesType
<1>4. ASSUME NEW k \in Sockets, LinkDies(k) PROVE TypeOK'
  BY <1>4, FaultType DEF LinkDies, TypeOK, SockState, clientVars, runVars
<1>5. CASE ConnectTimesOut
  <2>1. exec' \in [Execs -> Exec]
    BY <1>5, RejectedType DEF ConnectTimesOut
  <2> QED
    BY <1>5, <2>1 DEF ConnectTimesOut, TypeOK, SockState, clientVars, runVars
<1>6. CASE HeartbeatFails
  BY <1>6 DEF HeartbeatFails, TypeOK, SockState, clientVars, runVars
<1>7. CASE ReconnectFires
  BY <1>7, OpenSocketType DEF ReconnectFires, TypeOK, clientVars, runVars
<1> QED
  BY <1>1, <1>2, <1>3, <1>4, <1>5, <1>6, <1>7 DEF LinkStep

LEMMA EntryType ==
  ASSUME TypeOK, Entries, NEW e \in Execs, exec[e].at # "idle"
  PROVE  /\ TaskOf(e) \in Tasks
         /\ activeByTask[TaskOf(e)] \in Execs \cup {None}
         /\ fallbackByTask[TaskOf(e)] \in Execs \cup {None}
BY DEF TypeOK, Entries, CallsHaveTasks

LEMMA ActiveAt ==
  ASSUME TypeOK, Entries, NEW e \in Execs, IsActive(e)
  PROVE  TaskOf(e) \in Tasks /\ exec[e].at \in {"sent", "running"} /\ exec[e].timer
<1>1. TaskOf(e) \in Tasks
  BY DEF IsActive, Entries, CallsHaveTasks
<1> QED
  BY <1>1, NoneAssumption DEF IsActive, Entries, ActiveIsOwn

LEMMA FindActiveType ==
  ASSUME TypeOK, Entries, NEW r \in Execs, NEW e \in FindActive(r), run[r] # "none"
  PROVE  /\ e \in Execs /\ exec[e].at # "idle" /\ TaskOf(e) \in Tasks
         /\ SessionOf[TaskOf(e)] = SessionOf[TaskOf(r)]
         /\ taskByRun[r] = e \/ IsActive(e)
<1>1. CASE taskByRun[r] # None
  BY <1>1 DEF FindActive, TypeOK, Entries, CallsHaveTasks, RunsHaveTasks
<1>2. CASE taskByRun[r] = None
  <2>1. e \in Execs /\ IsActive(e) /\ SessionOf[TaskOf(e)] = SessionOf[TaskOf(r)]
    BY <1>2 DEF FindActive
  <2>2. exec[e].at # "idle"
    BY <2>1 DEF IsActive, Entries, CallsHaveTasks
  <2> QED
    BY <2>1, <2>2 DEF Entries, CallsHaveTasks
<1> QED
  BY <1>1, <1>2

LEMMA RunOverType ==
  ASSUME TypeOK, NEW r \in Execs, RunOver(r)
  PROVE  run' \in [Execs -> RunState] /\ link' \in [Execs -> Sockets \cup {None}]
BY DEF TypeOK, RunOver, RunState

LEMMA RunAcceptedType ==
  ASSUME TypeOK, Entries, NEW r \in Execs, RunAccepted(r)
  PROVE  TypeOK'
<1> DEFINE e == activeByTask[TaskOf(r)]
<1>1. TaskOf(r) \in Tasks /\ e \in Execs \cup {None}
  BY EntryType DEF RunAccepted, Entries, RunsHaveTasks
<1>2. run' \in [Execs -> RunState]
  BY DEF RunAccepted, TypeOK, RunState
<1>3. CASE e = None
  BY <1>2, <1>3 DEF RunAccepted, TypeOK, linkVars
<1>4. CASE e # None
  <2>1. exec' = [exec EXCEPT ![e].at = "running", ![e].run = r, ![e].reply = "accepted"]
    BY <1>4 DEF RunAccepted
  <2>2. [[[exec[e] EXCEPT !.at = "running"] EXCEPT !.run = r] EXCEPT !.reply = "accepted"] \in Exec
    <3>1. exec[e] \in Exec /\ "running" \in At
      BY <1>1, <1>4 DEF TypeOK, At
    <3>2. [exec[e] EXCEPT !.at = "running"] \in Exec
      BY <3>1, UpdateTypes
    <3>3. [[exec[e] EXCEPT !.at = "running"] EXCEPT !.run = r] \in Exec
      BY <3>2, UpdateTypes
    <3> QED
      BY <3>3, UpdateTypes
  <2>3. exec' = [exec EXCEPT ![e] =
          [[[exec[e] EXCEPT !.at = "running"] EXCEPT !.run = r] EXCEPT !.reply = "accepted"]]
    BY <1>1, <1>4, <2>1 DEF TypeOK
  <2>4. exec' \in [Execs -> Exec]
    BY <2>2, <2>3 DEF TypeOK
  <2>5. stream' \in [Tasks -> Seq(Event)]
    BY <1>1, <1>4, PublishType DEF RunAccepted, EventType
  <2>6. taskByRun' \in [Execs -> Execs \cup {None}]
    BY <1>1, <1>4 DEF RunAccepted, TypeOK
  <2> QED
    BY <1>2, <2>4, <2>5, <2>6 DEF RunAccepted, TypeOK, linkVars
<1> QED
  BY <1>3, <1>4

LEMMA DropType ==
  ASSUME TypeOK, NEW e \in Execs, exec' = [exec EXCEPT ![e] = Dropped(e)]
  PROVE  exec' \in [Execs -> Exec]
BY CallTypes DEF TypeOK

LEMMA RunRefusedType ==
  ASSUME TypeOK, Entries, NEW r \in Execs, RunRefused(r)
  PROVE  TypeOK'
<1> DEFINE e == activeByTask[TaskOf(r)]
<1>1. e \in Execs \cup {None}
  BY EntryType DEF RunRefused, Entries, RunsHaveTasks
<1>2. run' \in [Execs -> RunState] /\ link' \in [Execs -> Sockets \cup {None}]
  BY RunOverType DEF RunRefused
<1>3. faults' \in 0 .. MaxFaults
  BY FaultType DEF RunRefused
<1>4. CASE e = None
  BY <1>2, <1>3, <1>4 DEF RunRefused, TypeOK, linkVars
<1>5. CASE e # None
  <2>1. exec' \in [Execs -> Exec]
    BY <1>1, <1>5, DropType DEF RunRefused
  <2>2. activeByTask' \in [Tasks -> Execs \cup {None}] /\ taskByRun' \in [Execs -> Execs \cup {None}]
    BY <1>1, <1>5, RemoveTaskType DEF RunRefused
  <2> QED
    BY <1>2, <1>3, <2>1, <2>2 DEF RunRefused, TypeOK, linkVars
<1> QED
  BY <1>4, <1>5

LEMMA RunDeltaType ==
  ASSUME TypeOK, Entries, NEW r \in Execs, RunDelta(r)
  PROVE  TypeOK'
<1>1. PICK e \in FindActive(r) : Publish(TaskOf(e), "delta", r)
  BY DEF RunDelta
<1>2. TaskOf(e) \in Tasks
  BY FindActiveType DEF RunDelta
<1>3. stream' \in [Tasks -> Seq(Event)]
  BY <1>1, <1>2, PublishType DEF EventType
<1> QED
  BY <1>3 DEF RunDelta, TypeOK, clientVars, linkVars, runVars

LEMMA RunEndsType ==
  ASSUME TypeOK, Entries, NEW r \in Execs, NEW state, RunEnds(r, state)
  PROVE  TypeOK'
<1>1. run' \in [Execs -> RunState] /\ link' \in [Execs -> Sockets \cup {None}]
  BY RunOverType DEF RunEnds
<1>2. CASE FindActive(r) = {}
  BY <1>1, <1>2 DEF RunEnds, TypeOK, linkVars
<1>3. CASE FindActive(r) # {}
  <2>1. PICK e \in FindActive(r) :
          /\ Publish(TaskOf(e), EndType(state), r)
          /\ exec' = [exec EXCEPT ![e].timer = FALSE, ![e].run = None,
                        ![e].at = IF @ = "sent" THEN "hung" ELSE "over"]
          /\ RemoveTask(e)
    BY <1>3 DEF RunEnds
  <2>2. e \in Execs /\ TaskOf(e) \in Tasks
    BY FindActiveType DEF RunEnds
  <2>3. EndType(state) \in EventType
    BY DEF EndType, EventType, Ends
  <2>4. stream' \in [Tasks -> Seq(Event)]
    BY <2>1, <2>2, <2>3, PublishType
  <2>5. \A at \in At : [[[exec[e] EXCEPT !.timer = FALSE] EXCEPT !.run = None] EXCEPT !.at = at] \in Exec
    BY <2>2 DEF TypeOK, Exec
  <2>6. (IF exec[e].at = "sent" THEN "hung" ELSE "over") \in At
    BY DEF At
  <2>7. exec' = [exec EXCEPT ![e] =
          [[[exec[e] EXCEPT !.timer = FALSE] EXCEPT !.run = None]
             EXCEPT !.at = IF exec[e].at = "sent" THEN "hung" ELSE "over"]]
    BY <2>1, <2>2 DEF TypeOK, Exec
  <2>8. exec' \in [Execs -> Exec]
    BY <2>5, <2>6, <2>7 DEF TypeOK
  <2> QED
    BY <1>1, <2>1, <2>2, <2>4, <2>8, RemoveTaskType DEF RunEnds, TypeOK, linkVars
<1> QED
  BY <1>2, <1>3

LEMMA TaskTimesOutType ==
  ASSUME TypeOK, Entries, NEW e \in Execs, TaskTimesOut(e)
  PROVE  TypeOK'
<1> DEFINE held == activeByTask[TaskOf(e)]
<1>1. TaskOf(e) \in Tasks /\ held \in Execs \cup {None}
  BY EntryType DEF TaskTimesOut, Entries, CallsHaveTasks
<1>2. [exec EXCEPT ![e].timer = FALSE] \in [Execs -> Exec]
  <2>1. [exec[e] EXCEPT !.timer = FALSE] \in Exec
    BY UpdateTypes DEF TypeOK
  <2> QED
    BY <2>1 DEF TypeOK
<1>3. CASE held = None
  BY <1>2, <1>3 DEF TaskTimesOut, TypeOK, linkVars, runVars
<1>4. CASE held # None
  <2>1. held \in Execs /\ Dropped(held) \in Exec
    BY <1>1, <1>4, CallTypes
  <2>2. exec' = [[exec EXCEPT ![e].timer = FALSE] EXCEPT ![held] = Dropped(held)]
    BY <1>4 DEF TaskTimesOut
  <2>3. exec' \in [Execs -> Exec]
    BY <1>2, <2>1, <2>2
  <2>4. stream' \in [Tasks -> Seq(Event)]
    <3>1. CASE exec[held].at = "sent"
      BY <1>4, <3>1 DEF TaskTimesOut, TypeOK
    <3>2. CASE exec[held].at # "sent"
      BY <1>1, <1>4, <3>2, PublishType DEF TaskTimesOut, EventType, Ends
    <3> QED
      BY <3>1, <3>2
  <2>5. activeByTask' \in [Tasks -> Execs \cup {None}] /\ taskByRun' \in [Execs -> Execs \cup {None}]
    BY <1>4, <2>1, RemoveTaskType DEF TaskTimesOut
  <2> QED
    BY <2>3, <2>4, <2>5 DEF TaskTimesOut, TypeOK, linkVars, runVars
<1> QED
  BY <1>3, <1>4

LEMMA RunStepType == ASSUME TypeOK, Entries, RunStep PROVE TypeOK'
BY StartType, RunAcceptedType, RunRefusedType, RunDeltaType, RunEndsType, TaskTimesOutType
   DEF RunStep

LEMMA ForgetType ==
  ASSUME TypeOK, NEW e \in Execs, Forget(e)
  PROVE  fallbackByTask' \in [Tasks -> Execs \cup {None}]
BY DEF TypeOK, Forget

LEMMA SettleType ==
  ASSUME TypeOK, NEW e \in Execs, NEW at \in At, NEW reply \in {"accepted", "failed"},
         Settle(e, at, reply)
  PROVE  exec' \in [Execs -> Exec]
<1>1. [exec[e] EXCEPT !.at = at] \in Exec
  BY UpdateTypes DEF TypeOK
<1>2. [[exec[e] EXCEPT !.at = at] EXCEPT !.reply = reply] \in Exec
  BY <1>1, UpdateTypes
<1>3. exec' = [exec EXCEPT ![e] = [[exec[e] EXCEPT !.at = at] EXCEPT !.reply = reply]]
  BY DEF Settle, TypeOK
<1> QED
  BY <1>2, <1>3 DEF TypeOK

LEMMA FallbackStepType == ASSUME TypeOK, Entries, FallbackStep PROVE TypeOK'
<1> PICK e \in Execs :
    \/ FallbackStarts(e) \/ FallbackToHttp(e) \/ FallbackAccepted(e)
    \/ FallbackRefused(e) \/ HttpAnswers(e) \/ HttpFails(e) \/ FallbackDelta(e)
    \/ FallbackClosedNormally(e)
    \/ \E type \in {"completed", "failed"} : FallbackEnds(e, type)
  BY DEF FallbackStep
<1>1. exec[e].at # "idle" => TaskOf(e) \in Tasks
  BY EntryType
<1>2. CASE FallbackStarts(e)
  <2>1. exec' \in [Execs -> Exec]
    BY <1>2, GoType DEF FallbackStarts, Go, At
  <2> QED
    BY <1>2, <2>1 DEF FallbackStarts, TypeOK, linkVars, runVars
<1>3. CASE FallbackToHttp(e)
  <2>1. exec' \in [Execs -> Exec]
    BY <1>3, GoType DEF FallbackToHttp, Go, At
  <2> QED
    BY <1>3, <2>1 DEF FallbackToHttp, TypeOK, clientVars, linkVars, runVars
<1>4. CASE FallbackAccepted(e)
  <2>1. exec' \in [Execs -> Exec]
    BY <1>4, SettleType DEF FallbackAccepted, At
  <2>2. stream' \in [Tasks -> Seq(Event)]
    BY <1>1, <1>4, PublishType DEF FallbackAccepted, EventType
  <2> QED
    BY <1>4, <2>1, <2>2 DEF FallbackAccepted, TypeOK, clientVars, linkVars, runVars
<1>5. CASE FallbackRefused(e)
  <2>1. exec' \in [Execs -> Exec]
    BY <1>5, SettleType DEF FallbackRefused, At
  <2> QED
    BY <1>5, <2>1, ForgetType, FaultType DEF FallbackRefused, TypeOK, linkVars, runVars
<1>6. CASE HttpAnswers(e)
  <2>1. exec' \in [Execs -> Exec]
    BY <1>6, SettleType DEF HttpAnswers, At
  <2>2. stream' \in [Tasks -> Seq(Event)]
    <3>1. /\ [type |-> "accepted", run |-> e] \in Event
          /\ [type |-> "delta", run |-> e] \in Event
          /\ [type |-> "completed", run |-> e] \in Event
      BY DEF Event, EventType, Ends
    <3>2. <<[type |-> "accepted", run |-> e], [type |-> "delta", run |-> e],
            [type |-> "completed", run |-> e]>> \in Seq(Event)
      BY <3>1
    <3> QED
      BY <1>1, <1>6, <3>2 DEF HttpAnswers, TypeOK
  <2> QED
    BY <1>6, <2>1, <2>2, ForgetType DEF HttpAnswers, TypeOK, linkVars, runVars
<1>7. CASE HttpFails(e)
  <2>1. exec' \in [Execs -> Exec]
    BY <1>7, SettleType DEF HttpFails, At
  <2> QED
    BY <1>7, <2>1, ForgetType DEF HttpFails, TypeOK, linkVars, runVars
<1>8. CASE FallbackDelta(e)
  <2>1. stream' \in [Tasks -> Seq(Event)]
    BY <1>1, <1>8, PublishType DEF FallbackDelta, EventType
  <2> QED
    BY <1>8, <2>1 DEF FallbackDelta, TypeOK, clientVars, linkVars, runVars
<1>9. CASE FallbackClosedNormally(e)
  <2>1. exec' \in [Execs -> Exec]
    BY <1>9, GoType DEF FallbackClosedNormally, Go, At
  <2> QED
    BY <1>9, <2>1, FaultType DEF FallbackClosedNormally, TypeOK, clientVars, linkVars, runVars
<1>10. ASSUME NEW type \in {"completed", "failed"}, FallbackEnds(e, type) PROVE TypeOK'
  <2>1. exec' \in [Execs -> Exec]
    BY <1>10, GoType DEF FallbackEnds, Go, At
  <2>2. stream' \in [Tasks -> Seq(Event)]
    BY <1>1, <1>10, PublishType DEF FallbackEnds, EventType, Ends
  <2> QED
    BY <1>10, <2>1, <2>2, ForgetType DEF FallbackEnds, TypeOK, linkVars, runVars
<1> QED
  BY <1>2, <1>3, <1>4, <1>5, <1>6, <1>7, <1>8, <1>9, <1>10

LEMMA CancelType == ASSUME TypeOK, NEW t \in Tasks, Cancel(t) PROVE TypeOK'
<1>0. "cancelled" \in EventType
  BY DEF EventType, Ends
<1>1. CASE CancelActive(t)
  <2>1. activeByTask[t] \in Execs
    BY <1>1 DEF CancelActive, TypeOK
  <2>2. run' \in [Execs -> RunState]
    BY <1>1 DEF CancelActive, TypeOK, RunState
  <2> QED
    BY <1>0, <1>1, <2>1, <2>2, DropType, PublishType, RemoveTaskType DEF CancelActive, TypeOK, linkVars
<1>2. CASE CancelFallback(t)
  <2>1. fallbackByTask[t] \in Execs
    BY <1>2 DEF CancelFallback, TypeOK
  <2>2. exec' \in [Execs -> Exec]
    <3> DEFINE e == fallbackByTask[t]
    <3>1. PICK at \in At : Go(e, at)
      BY <1>2 DEF CancelFallback, At
    <3> QED
      BY <2>1, <3>1, GoType DEF Go
  <2> QED
    BY <1>0, <1>2, <2>1, <2>2, PublishType, ForgetType DEF CancelFallback, TypeOK, linkVars, runVars
<1> QED
  BY <1>1, <1>2 DEF Cancel

LEMMA StepType == ASSUME TypeOK, Entries, [Next]_vars PROVE TypeOK'
<1>1. CASE UNCHANGED vars
  BY <1>1 DEF TypeOK, vars, clientVars, linkVars, runVars
<1> QED
  BY <1>1, RunStepType, LinkStepType, FallbackStepType, CancelType, CancellableAssumption DEF Next

-----------------------------------------------------------------------------
(* Entries.                                                                  *)

LEMMA ExecuteEntries ==
  ASSUME TypeOK, Entries, NEW e \in Execs, NEW t \in TasksOf[e], Execute(e, t)
  PROVE  Entries'
<1>0. t \in Tasks
  BY TasksOfAssumption
<1>1. CallsHaveTasks'
  BY <1>0, NoneAssumption DEF Execute, Sent, ChatSend, TaskOf, clientVars, linkVars, runVars, TypeOK, Entries, CallsHaveTasks, ActiveIsOwn, FallbackIsOwn, RunsHaveTasks
<1>2. ActiveIsOwn'
  BY <1>0, NoneAssumption DEF Execute, Sent, ChatSend, TaskOf, clientVars, linkVars, runVars, TypeOK, Entries, CallsHaveTasks, ActiveIsOwn, FallbackIsOwn, RunsHaveTasks
<1>3. FallbackIsOwn'
  BY <1>0, NoneAssumption DEF Execute, Sent, ChatSend, TaskOf, clientVars, linkVars, runVars, TypeOK, Entries, CallsHaveTasks, ActiveIsOwn, FallbackIsOwn, RunsHaveTasks
<1>4. RunsHaveTasks'
  BY <1>0, NoneAssumption DEF Execute, Sent, ChatSend, TaskOf, clientVars, linkVars, runVars, TypeOK, Entries, CallsHaveTasks, ActiveIsOwn, FallbackIsOwn, RunsHaveTasks
<1> QED
  BY <1>1, <1>2, <1>3, <1>4 DEF Entries

LEMMA ExecuteConnectsEntries ==
  ASSUME TypeOK, Entries, NEW e \in Execs, NEW t \in TasksOf[e], ExecuteConnects(e, t)
  PROVE  Entries'
<1>0. t \in Tasks
  BY TasksOfAssumption
<1>1. CallsHaveTasks'
  BY <1>0, NoneAssumption DEF ExecuteConnects, Exec, TaskOf, clientVars, linkVars, runVars, TypeOK, Entries, CallsHaveTasks, ActiveIsOwn, FallbackIsOwn, RunsHaveTasks
<1>2. ActiveIsOwn'
  BY <1>0, NoneAssumption DEF ExecuteConnects, Exec, TaskOf, clientVars, linkVars, runVars, TypeOK, Entries, CallsHaveTasks, ActiveIsOwn, FallbackIsOwn, RunsHaveTasks
<1>3. FallbackIsOwn'
  BY <1>0, NoneAssumption DEF ExecuteConnects, Exec, TaskOf, clientVars, linkVars, runVars, TypeOK, Entries, CallsHaveTasks, ActiveIsOwn, FallbackIsOwn, RunsHaveTasks
<1>4. RunsHaveTasks'
  BY <1>0, NoneAssumption DEF ExecuteConnects, Exec, TaskOf, clientVars, linkVars, runVars, TypeOK, Entries, CallsHaveTasks, ActiveIsOwn, FallbackIsOwn, RunsHaveTasks
<1> QED
  BY <1>1, <1>2, <1>3, <1>4 DEF Entries

LEMMA PrepareFailsEntries ==
  ASSUME TypeOK, Entries, NEW e \in Execs, NEW t \in TasksOf[e], PrepareFails(e, t)
  PROVE  Entries'
<1>0. t \in Tasks
  BY TasksOfAssumption
<1>1. CallsHaveTasks'
  BY <1>0, NoneAssumption DEF PrepareFails, Exec, TaskOf, clientVars, linkVars, runVars, TypeOK, Entries, CallsHaveTasks, ActiveIsOwn, FallbackIsOwn, RunsHaveTasks
<1>2. ActiveIsOwn'
  BY <1>0, NoneAssumption DEF PrepareFails, Exec, TaskOf, clientVars, linkVars, runVars, TypeOK, Entries, CallsHaveTasks, ActiveIsOwn, FallbackIsOwn, RunsHaveTasks
<1>3. FallbackIsOwn'
  BY <1>0, NoneAssumption DEF PrepareFails, Exec, TaskOf, clientVars, linkVars, runVars, TypeOK, Entries, CallsHaveTasks, ActiveIsOwn, FallbackIsOwn, RunsHaveTasks
<1>4. RunsHaveTasks'
  BY <1>0, NoneAssumption DEF PrepareFails, Exec, TaskOf, clientVars, linkVars, runVars, TypeOK, Entries, CallsHaveTasks, ActiveIsOwn, FallbackIsOwn, RunsHaveTasks
<1> QED
  BY <1>1, <1>2, <1>3, <1>4 DEF Entries

LEMMA RejectedEntries ==
  ASSUME TypeOK, Entries, exec' = RejectedCalls, UNCHANGED <<clientVars, run>>
  PROVE  Entries'
<1>1. CallsHaveTasks'
  BY NoneAssumption DEF RejectedCalls, Exec, TaskOf, clientVars, linkVars, runVars, TypeOK, Entries, CallsHaveTasks, ActiveIsOwn, FallbackIsOwn, RunsHaveTasks
<1>2. ActiveIsOwn'
  BY NoneAssumption DEF RejectedCalls, Exec, TaskOf, clientVars, linkVars, runVars, TypeOK, Entries, CallsHaveTasks, ActiveIsOwn, FallbackIsOwn, RunsHaveTasks
<1>3. FallbackIsOwn'
  BY NoneAssumption DEF RejectedCalls, Exec, TaskOf, clientVars, linkVars, runVars, TypeOK, Entries, CallsHaveTasks, ActiveIsOwn, FallbackIsOwn, RunsHaveTasks
<1>4. RunsHaveTasks'
  BY NoneAssumption DEF RejectedCalls, Exec, TaskOf, clientVars, linkVars, runVars, TypeOK, Entries, CallsHaveTasks, ActiveIsOwn, FallbackIsOwn, RunsHaveTasks
<1> QED
  BY <1>1, <1>2, <1>3, <1>4 DEF Entries

\* What a step leaves of a call that it is not about.
Keeps(e) ==
  exec'[e].task = exec[e].task /\ exec'[e].at = exec[e].at /\ exec'[e].run = exec[e].run

\* A call leaves the shared socket and its task's entry is removed.
Cut(e) ==
  /\ exec[e].at \in {"sent", "running", "over"}
  /\ exec'[e].task = exec[e].task /\ exec'[e].run = None /\ ~exec'[e].timer
  /\ IF exec[e].at = "sent" THEN exec'[e].at \in {"falling", "hung"} ELSE exec'[e].at = "over"
  /\ \A x \in Execs \ {e} : Keeps(x) /\ (exec'[x].timer = exec[x].timer
                                          \/ (~exec'[x].timer /\ TaskOf(x) = TaskOf(e)))
  /\ RemoveTask(e) /\ UNCHANGED fallbackByTask
  /\ \A r \in Execs : run'[r] # "none" => run[r] # "none"

OwnConnection == {"fallback", "fbRunning", "http", "mute"}

\* A call that has left the shared socket goes on by itself.
Move(e) ==
  /\ exec[e].at \in OwnConnection \cup {"falling"}
  /\ exec'[e].task = exec[e].task /\ exec'[e].run = exec[e].run /\ exec'[e].timer = exec[e].timer
  /\ \A x \in Execs \ {e} : exec'[x] = exec[x]
  /\ \/ /\ exec[e].at = "falling" /\ exec'[e].at = "fallback"
        /\ fallbackByTask' = [fallbackByTask EXCEPT ![TaskOf(e)] = e]
     \/ /\ exec[e].at # "falling" /\ UNCHANGED fallbackByTask
        /\ exec'[e].at \in {"fbRunning", "mute"} \/ (exec[e].at = "fallback" /\ exec'[e].at = "http")
     \/ Forget(e) /\ (exec'[e].at \in {"over", "hung"} \/ (exec[e].at = "http" /\ exec'[e].at = "http"))
  /\ UNCHANGED <<activeByTask, taskByRun, run>>

LEMMA CutEntries ==
  ASSUME TypeOK, Entries, NEW e \in Execs, Cut(e)
  PROVE  Entries'
<1>1. CallsHaveTasks'
  BY NoneAssumption DEF Cut, Keeps, RemoveTask, TaskOf, TypeOK, Entries, CallsHaveTasks, ActiveIsOwn, FallbackIsOwn, RunsHaveTasks
<1>2. ActiveIsOwn'
  <2> SUFFICES ASSUME NEW t \in Tasks, activeByTask'[t] # None
               PROVE  LET x == activeByTask'[t]
                      IN  /\ exec'[x].task = t /\ exec'[x].at \in {"sent", "running"}
                          /\ exec'[x].timer
    BY DEF ActiveIsOwn, TaskOf, OwnConnection
  <2> DEFINE x == activeByTask'[t]
  <2>0. (activeByTask[t] = x /\ x # None) => /\ x \in Execs /\ exec[x].task = t /\ exec[x].at \in {"sent", "running"}
                                     /\ exec[x].timer
    BY DEF TypeOK, Entries, ActiveIsOwn, TaskOf, OwnConnection
  <2>1. activeByTask' = [activeByTask EXCEPT ![TaskOf(e)] = None]
    BY DEF Cut, RemoveTask
  <2>2. t # TaskOf(e) /\ activeByTask[t] = x
    BY <2>1 DEF TypeOK
  <2>3. x \in Execs \ {e} /\ TaskOf(x) # TaskOf(e)
    BY <2>0, <2>2 DEF TaskOf
  <2> QED
    BY <2>0, <2>2, <2>3 DEF Cut, Keeps
<1>3. FallbackIsOwn'
  <2> SUFFICES ASSUME NEW t \in Tasks, fallbackByTask'[t] # None
               PROVE  /\ exec'[fallbackByTask'[t]].task = t
                      /\ exec'[fallbackByTask'[t]].at \in {"fallback", "fbRunning", "http", "mute"}
    BY DEF FallbackIsOwn, TaskOf
  <2> DEFINE x == fallbackByTask[t]
  <2>1. fallbackByTask'[t] = x
    BY DEF Cut
  <2>2. x \in Execs /\ x # None
    BY <2>1 DEF TypeOK
  <2>3. exec[x].task = t /\ exec[x].at \in {"fallback", "fbRunning", "http", "mute"}
    BY <2>2 DEF Entries, FallbackIsOwn, TaskOf
  <2>4. x # e
    BY <2>3 DEF Cut
  <2>5. Keeps(x)
    BY <2>2, <2>4 DEF Cut
  <2> QED
    BY <2>1, <2>3, <2>5 DEF Keeps
<1>4. RunsHaveTasks'
  <2>1. ASSUME NEW r \in Execs, taskByRun'[r] # None
        PROVE  taskByRun'[r] = taskByRun[r] /\ taskByRun[r] \in Execs
    BY <2>1 DEF Cut, RemoveTask, TypeOK
  <2>2. \A x \in Execs : exec'[x].task = exec[x].task /\ (exec'[x].at = "idle" <=> exec[x].at = "idle")
    BY DEF Cut, Keeps
  <2>3. \A x \in Execs : exec[x].at \in {"running", "over"} => exec'[x].at \in {"running", "over"}
    BY DEF Cut, Keeps
  <2>4. \A r \in Execs : run'[r] # "none" => run[r] # "none"
    BY DEF Cut
  <2> QED
    BY <2>1, <2>2, <2>3, <2>4 DEF Entries, RunsHaveTasks, TaskOf
<1> QED
  BY <1>1, <1>2, <1>3, <1>4 DEF Entries

LEMMA MoveEntries ==
  ASSUME TypeOK, Entries, NEW e \in Execs, Move(e)
  PROVE  Entries'
<1>1. CallsHaveTasks'
  <2>1. \A x \in Execs : /\ exec'[x].task = exec[x].task /\ exec'[x].timer = exec[x].timer
                         /\ (exec'[x].at = "idle" <=> exec[x].at = "idle")
    BY DEF Move, OwnConnection
  <2> QED
    BY <2>1 DEF Entries, CallsHaveTasks, TaskOf
<1>2. ActiveIsOwn'
  <2> SUFFICES ASSUME NEW t \in Tasks, activeByTask'[t] # None
               PROVE  LET x == activeByTask'[t]
                      IN  /\ exec'[x].task = t /\ exec'[x].at \in {"sent", "running"}
                          /\ exec'[x].timer
    BY DEF ActiveIsOwn, TaskOf, OwnConnection
  <2> DEFINE x == activeByTask'[t]
  <2>0. (activeByTask[t] = x /\ x # None) => /\ x \in Execs /\ exec[x].task = t /\ exec[x].at \in {"sent", "running"}
                                     /\ exec[x].timer
    BY DEF TypeOK, Entries, ActiveIsOwn, TaskOf, OwnConnection
  <2>1. activeByTask' = activeByTask /\ exec[e].at \notin {"sent", "running"}
    BY DEF Move, OwnConnection
  <2>2. x \in Execs \ {e}
    BY <2>0, <2>1
  <2> QED
    BY <2>0, <2>1, <2>2 DEF Move
<1>3. FallbackIsOwn'
  <2> SUFFICES ASSUME NEW t \in Tasks, fallbackByTask'[t] # None
               PROVE  LET x == fallbackByTask'[t]
                      IN  /\ exec'[x].task = t /\ exec'[x].at \in OwnConnection

    BY DEF FallbackIsOwn, TaskOf, OwnConnection
  <2> DEFINE x == fallbackByTask'[t]
  <2>0. (fallbackByTask[t] = x /\ x # None) => /\ x \in Execs /\ exec[x].task = t /\ exec[x].at \in OwnConnection

    BY DEF TypeOK, Entries, FallbackIsOwn, TaskOf, OwnConnection
  <2>1. TaskOf(e) \in Tasks /\ exec'[e].task = exec[e].task
    BY DEF Move, OwnConnection, Entries, CallsHaveTasks
  <2>2. CASE fallbackByTask' = fallbackByTask /\ exec'[e].at \in OwnConnection
    BY <2>0, <2>1, <2>2 DEF Move
  <2>3. CASE fallbackByTask' = [fallbackByTask EXCEPT ![TaskOf(e)] = e] /\ exec'[e].at = "fallback"
    <3>1. x = e \/ (x = fallbackByTask[t] /\ t # TaskOf(e))
      BY <2>1, <2>3 DEF TypeOK
    <3>2. CASE x = e /\ t = TaskOf(e)
      BY <2>1, <2>3, <3>2 DEF TaskOf, OwnConnection
    <3>3. CASE t # TaskOf(e)
      <4>1. x = fallbackByTask[t]
        BY <2>1, <2>3, <3>3 DEF TypeOK
      <4> QED
        BY <2>0, <3>3, <4>1 DEF Move, TaskOf
    <3> QED
      BY <2>1, <2>3, <3>2, <3>3 DEF TypeOK
  <2>4. CASE Forget(e)
    <3>1. t # TaskOf(e) /\ x = fallbackByTask[t]
      BY <2>1, <2>4 DEF TypeOK, Forget
    <3> QED
      BY <2>0, <3>1 DEF Move, TaskOf
  <2> QED
    BY <2>2, <2>3, <2>4 DEF Move, OwnConnection
<1>4. RunsHaveTasks'
  <2>1. \A x \in Execs : /\ exec'[x].task = exec[x].task
                         /\ (exec'[x].at = "idle" <=> exec[x].at = "idle")
    BY DEF Move, OwnConnection
  <2>2. \A x \in Execs : exec[x].at \in {"running", "over"} => exec'[x].at = exec[x].at
    BY DEF Move, OwnConnection
  <2>3. run' = run /\ taskByRun' = taskByRun
    BY DEF Move
  <2> QED
    BY <2>1, <2>2, <2>3 DEF TypeOK, Entries, RunsHaveTasks, TaskOf
<1> QED
  BY <1>1, <1>2, <1>3, <1>4 DEF Entries

LEMMA ConnectOkCalls ==
  ASSUME TypeOK, Entries, NEW k \in Sockets, ConnectOk(k)
  PROVE  /\ \A e \in Execs : /\ exec'[e].task = exec[e].task /\ exec'[e].run = exec[e].run
                             /\ \/ exec'[e] = exec[e]
                                \/ exec[e].at = "connecting" /\ exec'[e].at = "sent" /\ exec'[e].timer
         /\ \A t \in Tasks : \/ activeByTask'[t] = activeByTask[t]
                             \/ /\ activeByTask'[t] \in Execs
                                /\ exec[activeByTask'[t]].at = "connecting"
                                /\ exec'[activeByTask'[t]].at = "sent"
                                /\ TaskOf(activeByTask'[t]) = t
         /\ \A e \in Execs : run'[e] # "none" => run[e] # "none" \/ exec[e].at = "connecting"
<1> DEFINE waiting == {e \in Execs : pending /\ exec[e].at = "connecting"}
<1>1. \A e \in Execs : exec'[e] = IF e \in waiting THEN Sent(e, TaskOf(e)) ELSE exec[e]
  BY DEF ConnectOk
<1>2. ASSUME NEW e \in waiting
      PROVE  /\ exec'[e].task = exec[e].task /\ exec'[e].run = exec[e].run
             /\ exec'[e].at = "sent" /\ exec'[e].timer
  BY <1>1, <1>2 DEF Sent, TaskOf, TypeOK, Exec
<1>3. PICK last \in [Tasks -> Execs \cup {None}] :
        /\ \A t \in Tasks : LET mine == {e \in waiting : TaskOf(e) = t}
                            IN  last[t] \in IF mine = {} THEN {activeByTask[t]} ELSE mine
        /\ activeByTask' = last
  BY DEF ConnectOk
<1>4. ASSUME NEW t \in Tasks
      PROVE  activeByTask'[t] = activeByTask[t] \/ (activeByTask'[t] \in waiting /\ TaskOf(activeByTask'[t]) = t)
  BY <1>3
<1>5. \A e \in Execs : run'[e] # "none" => run[e] # "none" \/ e \in waiting
  BY DEF ConnectOk, ChatSend
<1>6. \A e \in Execs \ waiting : exec'[e] = exec[e]
  BY <1>1
<1> QED
  BY <1>2, <1>4, <1>5, <1>6

LEMMA ConnectOkEntries ==
  ASSUME TypeOK, Entries, NEW k \in Sockets, ConnectOk(k)
  PROVE  Entries'
<1>0. UNCHANGED <<taskByRun, fallbackByTask>>
  BY DEF ConnectOk
<1>1. CallsHaveTasks'
  BY <1>0, NoneAssumption, ConnectOkCalls DEF TaskOf, TypeOK, Entries, CallsHaveTasks, ActiveIsOwn, FallbackIsOwn, RunsHaveTasks
<1>2. ActiveIsOwn'
  <2> SUFFICES ASSUME NEW t \in Tasks, activeByTask'[t] # None
               PROVE  LET x == activeByTask'[t]
                      IN  /\ exec'[x].task = t /\ exec'[x].at \in {"sent", "running"}
                          /\ exec'[x].timer
    BY DEF ActiveIsOwn, TaskOf, OwnConnection
  <2> DEFINE x == activeByTask'[t]
  <2>0. (activeByTask[t] = x /\ x # None) => /\ x \in Execs /\ exec[x].task = t /\ exec[x].at \in {"sent", "running"}
                                     /\ exec[x].timer
    BY DEF TypeOK, Entries, ActiveIsOwn, TaskOf, OwnConnection
  <2>1. CASE activeByTask[t] = x
    BY <2>0, <2>1, ConnectOkCalls
  <2>2. CASE activeByTask[t] # x
    BY <2>2, ConnectOkCalls DEF TaskOf
  <2> QED
    BY <2>1, <2>2
<1>3. FallbackIsOwn'
  <2> SUFFICES ASSUME NEW t \in Tasks, fallbackByTask'[t] # None
               PROVE  LET x == fallbackByTask'[t]
                      IN  /\ exec'[x].task = t /\ exec'[x].at \in OwnConnection

    BY DEF FallbackIsOwn, TaskOf, OwnConnection
  <2> DEFINE x == fallbackByTask'[t]
  <2>0. (fallbackByTask[t] = x /\ x # None) => /\ x \in Execs /\ exec[x].task = t /\ exec[x].at \in OwnConnection

    BY DEF TypeOK, Entries, FallbackIsOwn, TaskOf, OwnConnection
  <2> QED
    BY <1>0, <2>0, ConnectOkCalls DEF OwnConnection
<1>4. RunsHaveTasks'
  <2>1. \A x \in Execs : /\ exec'[x].task = exec[x].task
                         /\ exec[x].at \in {"running", "over"} => exec'[x].at = exec[x].at
                         /\ exec[x].at # "idle" => exec'[x].at # "idle"
    BY ConnectOkCalls
  <2>2. \A r \in Execs : run'[r] # "none" => run[r] # "none" \/ exec'[r].at # "idle"
    BY ConnectOkCalls
  <2> QED
    BY <1>0, <2>1, <2>2 DEF TypeOK, Entries, RunsHaveTasks, TaskOf
<1> QED
  BY <1>1, <1>2, <1>3, <1>4 DEF Entries
LEMMA SocketClosesCalls ==
  ASSUME TypeOK, Entries, NEW k \in Sockets, SocketCloses(k)
  PROVE  \A e \in Execs :
           /\ exec'[e].task = exec[e].task
           /\ IF connected /\ IsActive(e)
              THEN /\ exec[e].at = "sent" => exec'[e].at = "falling"
                   /\ exec[e].at = "running" => exec'[e].at = "over"
              ELSE \/ exec'[e] = exec[e]
                   \/ /\ exec[e].at = "connecting" /\ exec'[e].at = "falling"
                      /\ exec'[e].timer = exec[e].timer /\ exec'[e].run = exec[e].run
<1> SUFFICES ASSUME NEW e \in Execs
             PROVE  /\ exec'[e].task = exec[e].task
                    /\ IF connected /\ IsActive(e)
                       THEN /\ exec[e].at = "sent" => exec'[e].at = "falling"
                            /\ exec[e].at = "running" => exec'[e].at = "over"
                       ELSE \/ exec'[e] = exec[e]
                            \/ /\ exec[e].at = "connecting" /\ exec'[e].at = "falling"
                               /\ exec'[e].timer = exec[e].timer /\ exec'[e].run = exec[e].run
  OBVIOUS
<1>1. exec[e] \in Exec
  BY DEF TypeOK
<1>2. CASE connected /\ IsActive(e)
  <2>1. exec'[e] = Dropped(e)
    BY <1>2 DEF SocketCloses, Disconnect
  <2> QED
    BY <1>1, <1>2, <2>1 DEF Dropped, Exec
<1>3. CASE ~(connected /\ IsActive(e))
  <2>1. exec'[e] = RejectedCalls[e]
    BY <1>3 DEF SocketCloses, Disconnect
  <2> QED
    BY <1>1, <1>3, <2>1 DEF RejectedCalls, Exec
<1> QED
  BY <1>2, <1>3

LEMMA SocketClosesEntries ==
  ASSUME TypeOK, Entries, NEW k \in Sockets, SocketCloses(k)
  PROVE  Entries'
<1>0. /\ fallbackByTask' = fallbackByTask
      /\ activeByTask' = [t \in Tasks |-> IF connected THEN None ELSE activeByTask[t]]
      /\ taskByRun' = [r \in Execs |-> IF connected THEN None ELSE taskByRun[r]]
      /\ \A r \in Execs : run'[r] # "none" => run[r] # "none"
  BY DEF SocketCloses, Disconnect, LoseRuns
<1>5. \A x \in Execs : IsActive(x) => exec[x].at \in {"sent", "running"}
  BY ActiveAt
<1>1. CallsHaveTasks'
  <2>1. \A x \in Execs : IF exec[x].at = "idle" THEN exec'[x] = exec[x]
                         ELSE exec'[x].task = exec[x].task /\ exec'[x].at # "idle"
    BY <1>5, SocketClosesCalls
  <2> QED
    BY <2>1 DEF Entries, CallsHaveTasks, TaskOf
<1>2. ActiveIsOwn'
  <2> SUFFICES ASSUME NEW t \in Tasks, activeByTask'[t] # None
               PROVE  LET x == activeByTask'[t]
                      IN  /\ exec'[x].task = t /\ exec'[x].at \in {"sent", "running"}
                          /\ exec'[x].timer
    BY DEF ActiveIsOwn, TaskOf, OwnConnection
  <2> DEFINE x == activeByTask'[t]
  <2>0. (activeByTask[t] = x /\ x # None) => /\ x \in Execs /\ exec[x].task = t /\ exec[x].at \in {"sent", "running"}
                                     /\ exec[x].timer
    BY DEF TypeOK, Entries, ActiveIsOwn, TaskOf, OwnConnection
  <2>1. ~connected /\ activeByTask[t] = x
    BY <1>0
  <2> QED
    BY <2>0, <2>1, SocketClosesCalls
<1>3. FallbackIsOwn'
  <2> SUFFICES ASSUME NEW t \in Tasks, fallbackByTask'[t] # None
               PROVE  LET x == fallbackByTask'[t]
                      IN  /\ exec'[x].task = t /\ exec'[x].at \in OwnConnection

    BY DEF FallbackIsOwn, TaskOf, OwnConnection
  <2> DEFINE x == fallbackByTask'[t]
  <2>0. (fallbackByTask[t] = x /\ x # None) => /\ x \in Execs /\ exec[x].task = t /\ exec[x].at \in OwnConnection

    BY DEF TypeOK, Entries, FallbackIsOwn, TaskOf, OwnConnection
  <2>1. x \in Execs /\ exec[x].at \in OwnConnection /\ ~IsActive(x)
    BY <1>0, <1>5, <2>0 DEF OwnConnection
  <2> QED
    BY <1>0, <2>0, <2>1, SocketClosesCalls DEF OwnConnection
<1>4. RunsHaveTasks'
  <2>1. \A x \in Execs : /\ exec'[x].task = exec[x].task
                         /\ exec[x].at # "idle" => exec'[x].at # "idle"
    BY <1>5, SocketClosesCalls
  <2>2. \A x \in Execs : exec[x].at \in {"running", "over"} => exec'[x].at \in {"running", "over"}
    BY <1>5, SocketClosesCalls
  <2>3. \A r \in Execs : taskByRun'[r] # None => taskByRun'[r] = taskByRun[r] /\ taskByRun[r] \in Execs
    BY <1>0 DEF TypeOK
  <2> QED
    BY <1>0, <2>1, <2>2, <2>3 DEF Entries, RunsHaveTasks, TaskOf
<1> QED
  BY <1>1, <1>2, <1>3, <1>4 DEF Entries

LEMMA DroppedFields ==
  ASSUME TypeOK, NEW e \in Execs
  PROVE  /\ Dropped(e).task = exec[e].task /\ Dropped(e).run = None /\ Dropped(e).timer = FALSE
         /\ Dropped(e).at = IF exec[e].at = "sent" THEN "falling" ELSE "over"
BY DEF TypeOK, Exec, Dropped

\* The shapes of the other steps of a run.
LEMMA DropIsCut ==
  ASSUME TypeOK, NEW e \in Execs, exec[e].at \in {"sent", "running", "over"},
         exec' = [exec EXCEPT ![e] = Dropped(e)], RemoveTask(e), UNCHANGED fallbackByTask,
         \A r \in Execs : run'[r] # "none" => run[r] # "none"
  PROVE  Cut(e)
<1>1. exec[e] \in Exec /\ exec'[e] = Dropped(e)
  BY DEF TypeOK
<1>2. \A x \in Execs \ {e} : exec'[x] = exec[x]
  BY DEF TypeOK
<1>3. exec'[e].task = exec[e].task /\ exec'[e].run = None /\ exec'[e].timer = FALSE
      /\ exec'[e].at = IF exec[e].at = "sent" THEN "falling" ELSE "over"
  BY <1>1, DroppedFields
<1> QED
  BY <1>2, <1>3 DEF Cut, Keeps

LEMMA RunRefusedShape ==
  ASSUME TypeOK, Entries, NEW r \in Execs, RunRefused(r)
  PROVE  \/ UNCHANGED <<exec, clientVars>>
         \/ Cut(activeByTask[TaskOf(r)]) /\ activeByTask[TaskOf(r)] \in Execs
<1> DEFINE e == activeByTask[TaskOf(r)]
<1>1. TaskOf(r) \in Tasks /\ e \in Execs \cup {None}
  BY EntryType DEF RunRefused, Entries, RunsHaveTasks
<1>2. \A x \in Execs : run'[x] # "none" => run[x] # "none"
  BY DEF RunRefused, RunOver, TypeOK
<1>3. CASE e = None
  BY <1>3 DEF RunRefused, clientVars
<1>4. CASE e # None
  <2>1. exec[e].at \in {"sent", "running"}
    BY <1>1, <1>4 DEF Entries, ActiveIsOwn
  <2> QED
    BY <1>1, <1>2, <1>4, <2>1, DropIsCut DEF RunRefused
<1> QED
  BY <1>3, <1>4

LEMMA RunEndsShape ==
  ASSUME TypeOK, Entries, NEW r \in Execs, NEW state, RunEnds(r, state)
  PROVE  \/ UNCHANGED <<exec, clientVars, stream>>
         \/ \E e \in FindActive(r) : e \in Execs /\ Cut(e) /\ Publish(TaskOf(e), EndType(state), r)
                                     /\ (exec[e].at = "sent" => exec'[e].at = "hung")
<1>1. CASE FindActive(r) = {}
  BY <1>1 DEF RunEnds, clientVars
<1>2. CASE FindActive(r) # {}
  <2>1. PICK e \in FindActive(r) :
          /\ Publish(TaskOf(e), EndType(state), r)
          /\ exec' = [exec EXCEPT ![e].timer = FALSE, ![e].run = None,
                        ![e].at = IF @ = "sent" THEN "hung" ELSE "over"]
          /\ RemoveTask(e)
    BY <1>2 DEF RunEnds
  <2>2. e \in Execs /\ (taskByRun[r] = e \/ IsActive(e)) /\ TaskOf(e) \in Tasks
    BY FindActiveType DEF RunEnds
  <2>3. exec[e].at \in {"sent", "running", "over"}
    BY <2>2, NoneAssumption, ActiveAt DEF Entries, RunsHaveTasks
  <2>4. /\ exec'[e].task = exec[e].task /\ exec'[e].run = None /\ exec'[e].timer = FALSE
        /\ exec'[e].at = IF exec[e].at = "sent" THEN "hung" ELSE "over"
    BY <2>1, <2>2 DEF TypeOK, Exec
  <2>5. \A x \in Execs \ {e} : exec'[x] = exec[x]
    BY <2>1, <2>2 DEF TypeOK
  <2>6. \A x \in Execs : run'[x] # "none" => run[x] # "none"
    BY DEF RunEnds, RunOver, TypeOK
  <2>7. fallbackByTask' = fallbackByTask
    BY DEF RunEnds
  <2>8. Cut(e)
    BY <2>1, <2>3, <2>4, <2>5, <2>6, <2>7 DEF Cut, Keeps
  <2> QED
    BY <2>1, <2>2, <2>4, <2>8
<1> QED
  BY <1>1, <1>2

LEMMA TaskTimesOutShape ==
  ASSUME TypeOK, Entries, NEW e \in Execs, TaskTimesOut(e)
  PROVE  LET held == activeByTask[TaskOf(e)]
         IN  /\ TaskOf(e) \in Tasks
             /\ IF held = None
                THEN UNCHANGED <<clientVars, run, stream>> /\ exec' = [exec EXCEPT ![e].timer = FALSE]
                ELSE held \in Execs /\ Cut(held) /\ (exec[held].at = "sent" => exec'[held].at = "falling")
<1> DEFINE held == activeByTask[TaskOf(e)]
<1>1. TaskOf(e) \in Tasks /\ held \in Execs \cup {None}
  BY EntryType DEF TaskTimesOut, Entries, CallsHaveTasks
<1>2. CASE held = None
  BY <1>1, <1>2 DEF TaskTimesOut, clientVars, runVars
<1>3. CASE held # None
  <2>1. held \in Execs /\ exec[held].at \in {"sent", "running"} /\ TaskOf(held) = TaskOf(e)
    BY <1>1, <1>3 DEF Entries, ActiveIsOwn
  <2>2. exec' = [[exec EXCEPT ![e].timer = FALSE] EXCEPT ![held] = Dropped(held)]
    BY <1>3 DEF TaskTimesOut
  <2>3. exec'[held] = Dropped(held) /\ exec[held] \in Exec
    BY <2>1, <2>2 DEF TypeOK
  <2>4. /\ exec'[held].task = exec[held].task /\ exec'[held].run = None
        /\ exec'[held].timer = FALSE
        /\ exec'[held].at = IF exec[held].at = "sent" THEN "falling" ELSE "over"
    BY <2>3 DEF Dropped, Exec
  <2>5. \A x \in Execs \ {held, e} : exec'[x] = exec[x]
    BY <2>1, <2>2 DEF TypeOK
  <2>6. e # held => exec'[e] = [exec[e] EXCEPT !.timer = FALSE]
    BY <2>1, <2>2 DEF TypeOK
  <2>7. e # held => Keeps(e) /\ exec'[e].timer = FALSE
    BY <2>6 DEF TypeOK, Exec, Keeps
  <2>8. /\ run' = run /\ fallbackByTask' = fallbackByTask /\ RemoveTask(held)
    BY <1>3 DEF TaskTimesOut, runVars
  <2>9. Cut(held)
    BY <2>1, <2>4, <2>5, <2>7, <2>8 DEF Cut, Keeps
  <2> QED
    BY <1>1, <1>3, <2>1, <2>4, <2>9
<1> QED
  BY <1>2, <1>3

LEMMA CancelShape ==
  ASSUME TypeOK, Entries, NEW t \in Tasks, Cancel(t)
  PROVE  \/ activeByTask[t] \in Execs /\ Cut(activeByTask[t])
         \/ fallbackByTask[t] \in Execs /\ Move(fallbackByTask[t])
<1>1. CASE CancelActive(t)
  <2> DEFINE e == activeByTask[t]
  <2>1. e \in Execs /\ exec[e].at \in {"sent", "running"}
    BY <1>1 DEF CancelActive, TypeOK, Entries, ActiveIsOwn
  <2>2. \A r \in Execs : run'[r] # "none" => run[r] # "none"
    BY <1>1 DEF CancelActive
  <2> QED
    BY <1>1, <2>1, <2>2, DropIsCut DEF CancelActive
<1>2. CASE CancelFallback(t)
  <2> DEFINE e == fallbackByTask[t]
             at == CASE exec[e].at = "fallback" -> "hung"
                     [] exec[e].at = "http"     -> "http"
                     [] OTHER                   -> "over"
  <2>1. e \in Execs /\ exec[e].at \in OwnConnection
    BY <1>2 DEF CancelFallback, TypeOK, Entries, FallbackIsOwn, OwnConnection
  <2>2. exec' = [exec EXCEPT ![e].at = at]
    BY <1>2 DEF CancelFallback, Go
  <2>3. \A x \in Execs \ {e} : exec'[x] = exec[x]
    BY <2>2 DEF TypeOK
  <2>4. /\ exec'[e].task = exec[e].task /\ exec'[e].run = exec[e].run
        /\ exec'[e].timer = exec[e].timer /\ exec'[e].at = at
    BY <2>1, <2>2 DEF TypeOK, Exec
  <2>5. at \in {"over", "hung"} \/ (exec[e].at = "http" /\ at = "http")
    OBVIOUS
  <2>6. Forget(e) /\ UNCHANGED <<activeByTask, taskByRun, run>>
    BY <1>2 DEF CancelFallback, runVars
  <2> QED
    BY <2>1, <2>3, <2>4, <2>5, <2>6 DEF Move
<1> QED
  BY <1>1, <1>2 DEF Cancel
LEMMA GoFields ==
  ASSUME TypeOK, NEW e \in Execs, NEW at,
         Go(e, at) \/ (\E reply \in {"accepted", "failed"} : Settle(e, at, reply))
  PROVE  /\ exec'[e].task = exec[e].task /\ exec'[e].run = exec[e].run
         /\ exec'[e].timer = exec[e].timer /\ exec'[e].at = at
         /\ \A x \in Execs \ {e} : exec'[x] = exec[x]
<1>1. CASE Go(e, at)
  BY <1>1 DEF Go, TypeOK, Exec
<1>2. ASSUME NEW reply \in {"accepted", "failed"}, Settle(e, at, reply)
      PROVE  /\ exec'[e].task = exec[e].task /\ exec'[e].run = exec[e].run
             /\ exec'[e].timer = exec[e].timer /\ exec'[e].at = at
             /\ \A x \in Execs \ {e} : exec'[x] = exec[x]
  BY <1>2 DEF Settle, TypeOK, Exec
<1> QED
  BY <1>1, <1>2

LEMMA FallbackShape ==
  ASSUME TypeOK, NEW e \in Execs,
         \/ FallbackStarts(e) \/ FallbackToHttp(e) \/ FallbackAccepted(e)
         \/ FallbackRefused(e) \/ HttpAnswers(e) \/ HttpFails(e) \/ FallbackDelta(e)
         \/ FallbackClosedNormally(e)
         \/ \E type \in {"completed", "failed"} : FallbackEnds(e, type)
  PROVE  Move(e) \/ (UNCHANGED <<exec, clientVars, run>> /\ FallbackDelta(e))
<1> USE DEF Move, OwnConnection, clientVars, runVars
<1>1. CASE FallbackStarts(e)
  BY <1>1, GoFields DEF FallbackStarts
<1>2. CASE FallbackToHttp(e)
  BY <1>2, GoFields DEF FallbackToHttp
<1>3. CASE FallbackAccepted(e)
  BY <1>3, GoFields DEF FallbackAccepted
<1>4. CASE FallbackRefused(e)
  BY <1>4, GoFields DEF FallbackRefused
<1>5. CASE HttpAnswers(e)
  BY <1>5, GoFields DEF HttpAnswers
<1>6. CASE HttpFails(e)
  BY <1>6, GoFields DEF HttpFails
<1>7. CASE FallbackDelta(e)
  BY <1>7 DEF FallbackDelta
<1>8. CASE FallbackClosedNormally(e)
  BY <1>8, GoFields DEF FallbackClosedNormally
<1>9. ASSUME NEW type \in {"completed", "failed"}, FallbackEnds(e, type) PROVE Move(e)
  BY <1>9, GoFields DEF FallbackEnds
<1> QED
  BY <1>1, <1>2, <1>3, <1>4, <1>5, <1>6, <1>7, <1>8, <1>9

LEMMA RunAcceptedShape ==
  ASSUME TypeOK, Entries, NEW r \in Execs, RunAccepted(r)
  PROVE  LET e == activeByTask[TaskOf(r)]
         IN  /\ UNCHANGED <<activeByTask, fallbackByTask>> /\ TaskOf(r) \in Tasks
             /\ \A x \in Execs : run'[x] # "none" => run[x] # "none"
             /\ IF e = None THEN UNCHANGED <<exec, taskByRun, stream>>
                ELSE /\ e \in Execs /\ TaskOf(e) = TaskOf(r) /\ exec[e].at \in {"sent", "running"}
                     /\ exec'[e].task = exec[e].task /\ exec'[e].timer = exec[e].timer
                     /\ exec'[e].at = "running" /\ exec'[e].run = r
                     /\ \A x \in Execs \ {e} : exec'[x] = exec[x]
                     /\ taskByRun' = [taskByRun EXCEPT ![r] = e]
                     /\ Publish(TaskOf(r), "accepted", r)
<1> DEFINE e == activeByTask[TaskOf(r)]
<1>1. TaskOf(r) \in Tasks /\ e \in Execs \cup {None}
  BY EntryType DEF RunAccepted, Entries, RunsHaveTasks
<1>2. \A x \in Execs : run'[x] # "none" => run[x] # "none"
  BY DEF RunAccepted, TypeOK
<1>3. CASE e = None
  BY <1>1, <1>2, <1>3 DEF RunAccepted
<1>4. CASE e # None
  <2>1. e \in Execs /\ TaskOf(e) = TaskOf(r) /\ exec[e].at \in {"sent", "running"}
    BY <1>1, <1>4 DEF Entries, ActiveIsOwn
  <2>2. exec' = [exec EXCEPT ![e].at = "running", ![e].run = r, ![e].reply = "accepted"]
    BY <1>4 DEF RunAccepted
  <2>3. /\ exec'[e].task = exec[e].task /\ exec'[e].timer = exec[e].timer
        /\ exec'[e].at = "running" /\ exec'[e].run = r
    BY <2>1, <2>2 DEF TypeOK, Exec
  <2>4. \A x \in Execs \ {e} : exec'[x] = exec[x]
    BY <2>1, <2>2 DEF TypeOK
  <2> QED
    BY <1>1, <1>2, <1>4, <2>1, <2>3, <2>4 DEF RunAccepted
<1> QED
  BY <1>3, <1>4

LEMMA RunAcceptedEntries ==
  ASSUME TypeOK, Entries, NEW r \in Execs, RunAccepted(r)
  PROVE  Entries'
<1> DEFINE e == activeByTask[TaskOf(r)]
<1>0. CASE e = None
  BY <1>0, RunAcceptedShape DEF Entries, CallsHaveTasks, ActiveIsOwn, FallbackIsOwn, RunsHaveTasks, TaskOf
<1>5. CASE e # None
  <2>0. \A x \in Execs : exec'[x].task = exec[x].task /\ exec'[x].timer = exec[x].timer
                         /\ exec'[x].at = (IF x = e THEN "running" ELSE exec[x].at)
    BY <1>5, RunAcceptedShape
  <2>1. CallsHaveTasks'
    BY <1>5, <2>0, RunAcceptedShape DEF Entries, CallsHaveTasks, TaskOf
  <2>2. ActiveIsOwn'
    BY <2>0, RunAcceptedShape DEF TypeOK, Entries, ActiveIsOwn, TaskOf
  <2>3. FallbackIsOwn'
    <3>1. fallbackByTask' = fallbackByTask /\ exec[e].at \in {"sent", "running"}
      BY <1>5, RunAcceptedShape
    <3>2. \A t \in Tasks : fallbackByTask[t] # None => fallbackByTask[t] \in Execs \ {e}
      BY <3>1 DEF TypeOK, Entries, FallbackIsOwn
    <3> QED
      BY <2>0, <3>1, <3>2 DEF Entries, FallbackIsOwn, TaskOf
  <2>4. RunsHaveTasks'
    <3>1. \A x \in Execs : exec'[x].at = "idle" <=> exec[x].at = "idle"
      BY <1>5, <2>0, RunAcceptedShape
    <3>2. exec[r].at # "idle"
      BY DEF RunAccepted, Entries, RunsHaveTasks
    <3>3. \A x \in Execs : taskByRun'[x] = IF x = r THEN e ELSE taskByRun[x]
      BY <1>5, RunAcceptedShape DEF TypeOK
    <3> QED
      BY <1>5, <2>0, <3>1, <3>2, <3>3, RunAcceptedShape DEF TypeOK, Entries, RunsHaveTasks, TaskOf
  <2> QED
    BY <2>1, <2>2, <2>3, <2>4 DEF Entries
<1> QED
  BY <1>0, <1>5

LEMMA SameEntries ==
  ASSUME Entries, UNCHANGED <<exec, clientVars>>,
         \A r \in Execs : run'[r] # "none" => run[r] # "none"
  PROVE  Entries'
BY DEF Entries, CallsHaveTasks, ActiveIsOwn, FallbackIsOwn, RunsHaveTasks, TaskOf, clientVars

LEMMA TaskTimesOutEntries ==
  ASSUME TypeOK, Entries, NEW e \in Execs, TaskTimesOut(e)
  PROVE  Entries'
<1>1. CASE activeByTask[TaskOf(e)] # None
  BY <1>1, TaskTimesOutShape, CutEntries
<1>2. CASE activeByTask[TaskOf(e)] = None
  <2>1. UNCHANGED <<clientVars, run>> /\ exec' = [exec EXCEPT ![e].timer = FALSE]
    BY <1>2, TaskTimesOutShape
  <2>2. \A x \in Execs : /\ exec'[x].task = exec[x].task /\ exec'[x].at = exec[x].at
                         /\ exec'[x].timer = IF x = e THEN FALSE ELSE exec[x].timer
    BY <2>1 DEF TypeOK, Exec
  <2>3. CallsHaveTasks' /\ FallbackIsOwn' /\ RunsHaveTasks'
    BY <2>1, <2>2 DEF TypeOK, Entries, CallsHaveTasks, FallbackIsOwn, RunsHaveTasks, TaskOf, clientVars
  <2>4. ActiveIsOwn'
    BY <1>2, <2>1, <2>2 DEF TypeOK, Entries, ActiveIsOwn, TaskOf, clientVars
  <2> QED
    BY <2>3, <2>4 DEF Entries
<1> QED
  BY <1>1, <1>2

LEMMA StepEntries == ASSUME TypeOK, Entries, [Next]_vars PROVE Entries'
<1>1. CASE UNCHANGED vars
  BY <1>1, SameEntries DEF vars, runVars
<1>2. CASE RunStep
  <2>1. ASSUME NEW e \in Execs, NEW t \in TasksOf[e],
               Execute(e, t) \/ ExecuteConnects(e, t) \/ PrepareFails(e, t)
        PROVE  Entries'
    BY <2>1, ExecuteEntries, ExecuteConnectsEntries, PrepareFailsEntries
  <2>2. ASSUME NEW r \in Execs, RunRefused(r) PROVE Entries'
    <3>1. \A x \in Execs : run'[x] # "none" => run[x] # "none"
      BY <2>2 DEF RunRefused, RunOver, TypeOK
    <3> QED
      BY <2>2, <3>1, RunRefusedShape, CutEntries, SameEntries
  <2>3. ASSUME NEW r \in Execs, NEW state, RunEnds(r, state) PROVE Entries'
    <3>1. \A x \in Execs : run'[x] # "none" => run[x] # "none"
      BY <2>3 DEF RunEnds, RunOver, TypeOK
    <3> QED
      BY <2>3, <3>1, RunEndsShape, CutEntries, SameEntries
  <2>4. ASSUME NEW r \in Execs, RunDelta(r) PROVE Entries'
    BY <2>4, SameEntries DEF RunDelta, runVars
  <2> QED
    BY <1>2, <2>1, <2>2, <2>3, <2>4, RunAcceptedEntries, TaskTimesOutEntries DEF RunStep
<1>3. CASE LinkStep
  <2>1. ASSUME NEW k \in Sockets, ConnectRefused(k) PROVE Entries'
    BY <2>1, RejectedEntries DEF ConnectRefused, runVars
  <2>2. ASSUME NEW k \in Sockets, LinkDies(k) PROVE Entries'
    BY <2>2, SameEntries DEF LinkDies, runVars
  <2>3. CASE ConnectTimesOut
    BY <2>3, RejectedEntries DEF ConnectTimesOut, runVars
  <2>4. CASE HeartbeatFails \/ ReconnectFires
    BY <2>4, SameEntries DEF HeartbeatFails, ReconnectFires, runVars
  <2> QED
    BY <1>3, <2>1, <2>2, <2>3, <2>4, ConnectOkEntries, SocketClosesEntries DEF LinkStep
<1>4. CASE FallbackStep
  BY <1>4, FallbackShape, MoveEntries, SameEntries DEF FallbackStep
<1>5. ASSUME NEW t \in Tasks, Cancel(t) PROVE Entries'
  BY <1>5, CancelShape, CutEntries, MoveEntries
<1> QED
  BY <1>1, <1>2, <1>3, <1>4, <1>5, CancellableAssumption DEF Next

\* Only a connection that was made lets entries in, and its loss removes them all.
LEMMA StepConnected ==
  ASSUME TypeOK, Entries, ActiveIsConnected, [Next]_vars
  PROVE  ActiveIsConnected'
<1>1. ASSUME NEW e \in Execs, NEW t \in TasksOf[e], Execute(e, t)
      PROVE  ActiveIsConnected'
  BY <1>1 DEF Execute, ActiveIsConnected, linkVars
<1>2. ASSUME NEW k \in Sockets, ConnectOk(k) PROVE ActiveIsConnected'
  BY <1>2 DEF ConnectOk, ActiveIsConnected
<1>3. ASSUME NEW k \in Sockets, SocketCloses(k) PROVE ActiveIsConnected'
  BY <1>3 DEF SocketCloses, Disconnect, ActiveIsConnected
<1>4. ASSUME connected' = connected,
             \A t \in Tasks : activeByTask'[t] # None => activeByTask'[t] = activeByTask[t]
      PROVE  ActiveIsConnected'
  BY <1>4 DEF ActiveIsConnected
<1>5. ASSUME NEW e \in Execs, RemoveTask(e)
      PROVE  \A t \in Tasks : activeByTask'[t] # None => activeByTask'[t] = activeByTask[t]
  BY <1>5 DEF RemoveTask, TypeOK
<1>6. CASE UNCHANGED vars
  BY <1>4, <1>6 DEF vars, clientVars, linkVars
<1>7. CASE RunStep
  <2>1. ASSUME NEW e \in Execs, NEW t \in TasksOf[e], ExecuteConnects(e, t) \/ PrepareFails(e, t)
        PROVE  ActiveIsConnected'
    BY <1>4, <2>1 DEF ExecuteConnects, EnsureConnected, OpenSocket, PrepareFails, clientVars, linkVars
  <2>2. ASSUME NEW r \in Execs, RunAccepted(r) \/ RunDelta(r) PROVE ActiveIsConnected'
    BY <1>4, <2>2 DEF RunAccepted, RunDelta, clientVars, linkVars
  <2>3. ASSUME NEW r \in Execs, RunRefused(r) PROVE ActiveIsConnected'
    BY <1>4, <1>5, <2>3, RunRefusedShape DEF RunRefused, Cut, clientVars, linkVars
  <2>4. ASSUME NEW r \in Execs, NEW state, RunEnds(r, state) PROVE ActiveIsConnected'
    BY <1>4, <1>5, <2>4, RunEndsShape DEF RunEnds, Cut, clientVars, linkVars
  <2>5. ASSUME NEW r \in Execs, TaskTimesOut(r) PROVE ActiveIsConnected'
    BY <1>4, <1>5, <2>5, TaskTimesOutShape DEF TaskTimesOut, Cut, clientVars, linkVars
  <2> QED
    BY <1>1, <1>7, <2>1, <2>2, <2>3, <2>4, <2>5 DEF RunStep
<1>8. CASE LinkStep
  <2>1. ASSUME NEW k \in Sockets, ConnectRefused(k) \/ LinkDies(k) PROVE ActiveIsConnected'
    BY <1>4, <2>1 DEF ConnectRefused, LinkDies, clientVars
  <2>2. CASE ConnectTimesOut \/ HeartbeatFails \/ ReconnectFires
    BY <1>4, <2>2 DEF ConnectTimesOut, HeartbeatFails, ReconnectFires, EnsureConnected, OpenSocket, clientVars
  <2> QED
    BY <1>2, <1>3, <1>8, <2>1, <2>2 DEF LinkStep
<1>9. CASE FallbackStep
  <2>1. connected' = connected
    BY <1>9 DEF FallbackStep, FallbackStarts, FallbackToHttp, FallbackAccepted, FallbackRefused,
                HttpAnswers, HttpFails, FallbackDelta, FallbackClosedNormally, FallbackEnds, linkVars
  <2>2. activeByTask' = activeByTask
    BY <1>9, FallbackShape DEF FallbackStep, Move, clientVars
  <2> QED
    BY <1>4, <2>1, <2>2
<1>10. ASSUME NEW t \in Tasks, Cancel(t) PROVE ActiveIsConnected'
  <2>1. connected' = connected
    BY <1>10 DEF Cancel, CancelActive, CancelFallback, linkVars
  <2> QED
    BY <1>4, <1>5, <1>10, <2>1, CancelShape DEF Cut, Move
<1> QED
  BY <1>6, <1>7, <1>8, <1>9, <1>10, CancellableAssumption DEF Next
-----------------------------------------------------------------------------
(* What a step may do to a call and to the entries of a task.                *)

Early == {"connecting", "sent", "falling", "fallback", "http"}

\* A call keeps its task, does not come back from its end, and is never again
\* where it was before its acceptance.
CallStep(e) ==
  IF exec[e].at = "idle" THEN exec'[e].at = "idle" \/ exec'[e].at \in Early
  ELSE /\ exec'[e].task = exec[e].task /\ exec'[e].at # "idle"
       /\ exec'[e].at \in Early => exec[e].at \in Early
       /\ exec[e].at \in {"over", "hung"} => exec'[e].at = exec[e].at

\* An entry is new only of a call that has just started or was on its way.
NewEntry(t, before, after, at) ==
  \/ after \in {None, before}
  \/ after \in Execs /\ exec[after].at = "idle" /\ exec'[after].task = t
  \/ after \in Execs /\ exec[after].at = at /\ exec[after].task = t

Progress ==
  /\ \A e \in Execs : CallStep(e)
  /\ \A t \in Tasks : /\ NewEntry(t, activeByTask[t], activeByTask'[t], "connecting")
                      /\ NewEntry(t, fallbackByTask[t], fallbackByTask'[t], "falling")

LEMMA CutProgress ==
  ASSUME TypeOK, NEW e \in Execs, Cut(e)
  PROVE  Progress
<1>1. ASSUME NEW x \in Execs PROVE CallStep(x)
  <2>1. CASE x = e
    BY <2>1 DEF Cut, CallStep, Early
  <2>2. CASE x # e
    BY <2>2 DEF Cut, Keeps, CallStep
  <2> QED
    BY <2>1, <2>2
<1>2. \A t \in Tasks : activeByTask'[t] \in {None, activeByTask[t]} /\ fallbackByTask'[t] = fallbackByTask[t]
  BY DEF Cut, RemoveTask, TypeOK
<1> QED
  BY <1>1, <1>2 DEF Progress, NewEntry

LEMMA MoveProgress ==
  ASSUME TypeOK, Entries, NEW e \in Execs, Move(e)
  PROVE  Progress
<1>1. ASSUME NEW x \in Execs PROVE CallStep(x)
  <2>1. x # e => exec'[x] = exec[x]
    BY DEF Move
  <2> QED
    <3>1. CASE x = e
      BY <3>1 DEF Move, OwnConnection, CallStep, Early
    <3>2. CASE x # e
      BY <2>1, <3>2 DEF CallStep
    <3> QED
      BY <3>1, <3>2
<1>2. activeByTask' = activeByTask
  BY DEF Move
<1>3. ASSUME NEW t \in Tasks PROVE NewEntry(t, fallbackByTask[t], fallbackByTask'[t], "falling")
  <2>1. CASE fallbackByTask' = fallbackByTask
    BY <2>1 DEF NewEntry
  <2>2. CASE exec[e].at = "falling" /\ fallbackByTask' = [fallbackByTask EXCEPT ![TaskOf(e)] = e]
    <3>1. t = TaskOf(e) => fallbackByTask'[t] = e
      BY <2>2 DEF TypeOK
    <3>2. t # TaskOf(e) => fallbackByTask'[t] = fallbackByTask[t]
      BY <2>2 DEF TypeOK
    <3> QED
      BY <2>2, <3>1, <3>2 DEF NewEntry, TaskOf
  <2>3. CASE Forget(e)
    BY <2>3 DEF Forget, TypeOK, NewEntry
  <2> QED
    BY <2>1, <2>2, <2>3 DEF Move
<1> QED
  BY <1>1, <1>2, <1>3 DEF Progress, NewEntry

\* A step that changes no entry.
LEMMA CallsProgress ==
  ASSUME UNCHANGED <<activeByTask, fallbackByTask>>, \A e \in Execs : CallStep(e)
  PROVE  Progress
BY DEF Progress, NewEntry

LEMMA SameProgress ==
  ASSUME Entries, UNCHANGED <<exec, clientVars>>
  PROVE  Progress
<1>1. \A e \in Execs : CallStep(e)
  BY DEF CallStep, Entries, CallsHaveTasks
<1> QED
  BY <1>1, CallsProgress DEF clientVars

LEMMA RejectedProgress ==
  ASSUME TypeOK, Entries, exec' = RejectedCalls, UNCHANGED clientVars
  PROVE  Progress
<1>1. ASSUME NEW e \in Execs PROVE CallStep(e)
  BY DEF RejectedCalls, CallStep, TypeOK, Exec, Early
<1> QED
  BY <1>1, CallsProgress DEF clientVars

LEMMA StartProgress ==
  ASSUME TypeOK, Entries, NEW e \in Execs, NEW t \in TasksOf[e],
         Execute(e, t) \/ ExecuteConnects(e, t) \/ PrepareFails(e, t)
  PROVE  Progress
<1>0. t \in Tasks /\ exec[e].at = "idle"
  BY TasksOfAssumption DEF Execute, ExecuteConnects, PrepareFails
<1>1. exec'[e].at \in Early /\ exec'[e].task = t
  <2>1. CASE Execute(e, t)
    BY <2>1 DEF Execute, Sent, TypeOK, Exec, Early
  <2>2. CASE ExecuteConnects(e, t) \/ PrepareFails(e, t)
    BY <2>2 DEF ExecuteConnects, PrepareFails, TypeOK, Exec, Early
  <2> QED
    BY <2>1, <2>2
<1>2. \A x \in Execs \ {e} : exec'[x] = exec[x]
  BY DEF Execute, ExecuteConnects, PrepareFails, TypeOK
<1>3. \A x \in Execs : CallStep(x)
  BY <1>0, <1>1, <1>2 DEF CallStep
<1>4. fallbackByTask' = fallbackByTask
  BY DEF Execute, ExecuteConnects, PrepareFails, clientVars
<1>5. \A u \in Tasks : activeByTask'[u] = activeByTask[u] \/ (u = t /\ activeByTask'[u] = e)
  BY <1>0 DEF Execute, ExecuteConnects, PrepareFails, clientVars, TypeOK
<1> QED
  <2>1. \A u \in Tasks : NewEntry(u, activeByTask[u], activeByTask'[u], "connecting")
    <3> TAKE u \in Tasks
    <3>1. CASE activeByTask'[u] = activeByTask[u]
      BY <3>1 DEF NewEntry
    <3>2. CASE u = t /\ activeByTask'[u] = e
      BY <1>0, <1>1, <3>2 DEF NewEntry
    <3> QED
      BY <1>5, <3>1, <3>2
  <2> QED
    BY <1>3, <1>4, <2>1 DEF Progress, NewEntry

LEMMA ConnectOkProgress ==
  ASSUME TypeOK, Entries, NEW k \in Sockets, ConnectOk(k)
  PROVE  Progress
<1>1. \A x \in Execs : CallStep(x)
  BY ConnectOkCalls DEF CallStep, Early
<1>2. fallbackByTask' = fallbackByTask
  BY DEF ConnectOk
<1> QED
  BY <1>1, <1>2, ConnectOkCalls DEF Progress, NewEntry, TaskOf

LEMMA SocketClosesProgress ==
  ASSUME TypeOK, Entries, NEW k \in Sockets, SocketCloses(k)
  PROVE  Progress
<1>1. ASSUME NEW x \in Execs PROVE CallStep(x)
  <2>1. CASE connected /\ IsActive(x)
    BY <2>1, ActiveAt, SocketClosesCalls DEF CallStep, Early
  <2>2. CASE ~(connected /\ IsActive(x))
    BY <2>2, SocketClosesCalls DEF CallStep, Early
  <2> QED
    BY <2>1, <2>2
<1>2. fallbackByTask' = fallbackByTask /\ \A t \in Tasks : activeByTask'[t] \in {None, activeByTask[t]}
  BY DEF SocketCloses, Disconnect
<1> QED
  BY <1>1, <1>2 DEF Progress, NewEntry

LEMMA RunAcceptedProgress ==
  ASSUME TypeOK, Entries, NEW r \in Execs, RunAccepted(r)
  PROVE  Progress
<1>1. ASSUME NEW x \in Execs PROVE CallStep(x)
  BY RunAcceptedShape DEF CallStep, Early
<1> QED
  BY <1>1, RunAcceptedShape, CallsProgress

LEMMA TaskTimesOutProgress ==
  ASSUME TypeOK, Entries, NEW e \in Execs, TaskTimesOut(e)
  PROVE  Progress
<1>1. CASE activeByTask[TaskOf(e)] # None
  BY <1>1, TaskTimesOutShape, CutProgress
<1>2. CASE activeByTask[TaskOf(e)] = None
  <2>1. UNCHANGED clientVars /\ exec' = [exec EXCEPT ![e].timer = FALSE] /\ exec[e].timer
    BY <1>2, TaskTimesOutShape DEF TaskTimesOut
  <2>2. \A x \in Execs : exec'[x].task = exec[x].task /\ exec'[x].at = exec[x].at
    BY <2>1 DEF TypeOK, Exec
  <2>3. \A x \in Execs : exec[x].at = "idle" => exec'[x] = exec[x]
    BY <2>1 DEF TypeOK, Entries, CallsHaveTasks
  <2>4. \A x \in Execs : CallStep(x)
    BY <2>2, <2>3 DEF CallStep
  <2> QED
    BY <2>1, <2>4, CallsProgress DEF clientVars
<1> QED
  BY <1>1, <1>2

LEMMA StepProgress == ASSUME TypeOK, Entries, [Next]_vars PROVE Progress
<1>1. CASE UNCHANGED vars
  BY <1>1, SameProgress DEF vars
<1>2. CASE RunStep
  <2>1. ASSUME NEW r \in Execs, RunDelta(r) PROVE Progress
    BY <2>1, SameProgress DEF RunDelta
  <2>2. ASSUME NEW r \in Execs, RunRefused(r) PROVE Progress
    BY <2>2, RunRefusedShape, CutProgress, SameProgress
  <2>3. ASSUME NEW r \in Execs, NEW state, RunEnds(r, state) PROVE Progress
    BY <2>3, RunEndsShape, CutProgress, SameProgress
  <2> QED
    BY <1>2, <2>1, <2>2, <2>3, StartProgress, RunAcceptedProgress, TaskTimesOutProgress DEF RunStep
<1>3. CASE LinkStep
  <2>1. ASSUME NEW k \in Sockets, ConnectRefused(k) PROVE Progress
    BY <2>1, RejectedProgress DEF ConnectRefused
  <2>2. ASSUME NEW k \in Sockets, LinkDies(k) PROVE Progress
    BY <2>2, SameProgress DEF LinkDies
  <2>3. CASE ConnectTimesOut
    BY <2>3, RejectedProgress DEF ConnectTimesOut
  <2>4. CASE HeartbeatFails \/ ReconnectFires
    BY <2>4, SameProgress DEF HeartbeatFails, ReconnectFires
  <2> QED
    BY <1>3, <2>1, <2>2, <2>3, <2>4, ConnectOkProgress, SocketClosesProgress DEF LinkStep
<1>4. CASE FallbackStep
  BY <1>4, FallbackShape, MoveProgress, SameProgress DEF FallbackStep
<1>5. ASSUME NEW t \in Tasks, Cancel(t) PROVE Progress
  BY <1>5, CancelShape, CutProgress, MoveProgress
<1> QED
  BY <1>1, <1>2, <1>3, <1>4, <1>5, CancellableAssumption DEF Next

LEMMA RepeatedStays ==
  ASSUME Progress, Entries, NEW t \in Tasks, Repeated(t)
  PROVE  Repeated(t)'
<1>1. PICK e \in Execs, f \in Execs : e # f /\ TaskOf(e) = t /\ TaskOf(f) = t
  BY DEF Repeated
<1>2. exec[e].at # "idle" /\ exec[f].at # "idle"
  BY <1>1, NoneAssumption DEF Entries, CallsHaveTasks
<1>3. exec'[e].task = t /\ exec'[f].task = t
  BY <1>1, <1>2 DEF Progress, CallStep, TaskOf
<1> QED
  BY <1>1, <1>3 DEF Repeated, TaskOf

\* A task that is over for good stays so, unless another call for it starts.
LEMMA QuietStays ==
  ASSUME TypeOK, Entries, Progress, NEW t \in Tasks, Quiet(t)
  PROVE  Quiet(t)' \/ \E e \in Execs : exec[e].at = "idle" /\ exec'[e].task = t
<1> SUFFICES ASSUME \A e \in Execs : exec[e].at = "idle" => exec'[e].task # t
             PROVE  Quiet(t)'
  OBVIOUS
<1>1. activeByTask[t] = None /\ fallbackByTask[t] = None
      /\ \A e \in Execs : exec[e].task = t => exec[e].at \in {"over", "hung"}
  BY DEF Quiet, TaskOf
<1>2. activeByTask'[t] = None /\ fallbackByTask'[t] = None
  BY <1>1 DEF Progress, NewEntry
<1>3. ASSUME NEW e \in Execs, exec'[e].task = t PROVE exec'[e].at \in {"over", "hung"}
  BY <1>1, <1>3 DEF Progress, CallStep
<1> QED
  BY <1>2, <1>3 DEF Quiet, TaskOf
-----------------------------------------------------------------------------
(* With one call for a task, its run is known only while it is active.       *)

LEMMA RunsNext ==
  ASSUME TypeOK', Entries',
         \A r, f \in Execs : \A t \in Tasks :
           taskByRun'[r] = f /\ exec'[f].task = t /\ ~Repeated(t)'
             => f = r /\ activeByTask'[t] = f /\ exec'[f].run = r
  PROVE  RunIsActive'
<1>1. ASSUME NEW r \in Execs, taskByRun'[r] # None
      PROVE  taskByRun'[r] \in Execs /\ exec'[taskByRun'[r]].task \in Tasks
  BY <1>1 DEF TypeOK, Entries, RunsHaveTasks, CallsHaveTasks, TaskOf
<1> QED
  BY <1>1, NoneAssumption DEF RunIsActive, IsActive, TaskOf

\* What a run that is known tells in the state before.
LEMMA KnownRun ==
  ASSUME TypeOK, Entries, RunIsActive, NEW r \in Execs, NEW f \in Execs, taskByRun[r] = f
  PROVE  /\ TaskOf(f) \in Tasks /\ exec[f].at \in {"running", "over"}
         /\ Repeated(TaskOf(f)) \/ (f = r /\ activeByTask[TaskOf(f)] = f /\ exec[f].run = r)
<1>1. f # None
  BY NoneAssumption
<1>2. TaskOf(f) \in Tasks /\ exec[f].at \in {"running", "over"}
  BY <1>1 DEF Entries, RunsHaveTasks, CallsHaveTasks
<1> QED
  BY <1>1, <1>2 DEF RunIsActive, IsActive

LEMMA CutRuns ==
  ASSUME TypeOK, Entries, RunIsActive, TypeOK', Entries', NEW e \in Execs, Cut(e)
  PROVE  RunIsActive'
<1>1. ASSUME NEW r \in Execs, NEW f \in Execs, NEW t \in Tasks,
             taskByRun'[r] = f, exec'[f].task = t, ~Repeated(t)'
      PROVE  f = r /\ activeByTask'[t] = f /\ exec'[f].run = r
  <2>1. taskByRun[r] = f /\ r # exec[e].run
    BY <1>1, NoneAssumption DEF Cut, RemoveTask, TypeOK
  <2>2. \A x \in Execs : exec'[x].task = exec[x].task
    BY DEF Cut, Keeps
  <2>3. TaskOf(f) = t /\ ~Repeated(t)
    BY <1>1, <2>2 DEF Repeated, TaskOf
  <2>4. f = r /\ activeByTask[t] = f /\ exec[f].run = r
    BY <2>1, <2>3, KnownRun
  <2>5. f # e /\ TaskOf(f) # TaskOf(e)
    BY <2>1, <2>3, <2>4 DEF Repeated
  <2>6. activeByTask'[t] = f
    BY <2>3, <2>4, <2>5 DEF Cut, RemoveTask, TypeOK
  <2> QED
    BY <2>4, <2>5, <2>6 DEF Cut, Keeps
<1> QED
  BY <1>1, RunsNext

\* A step after which every known run was known, with its call where it was.
LEMMA SameRuns ==
  ASSUME TypeOK, Entries, RunIsActive, Progress, TypeOK', Entries',
         \A r, f \in Execs : taskByRun'[r] = f =>
            /\ taskByRun[r] = f /\ exec'[f].run = exec[f].run
            /\ \A t \in Tasks : TaskOf(f) = t => Repeated(t)' \/ activeByTask'[t] = activeByTask[t]
  PROVE  RunIsActive'
<1>1. ASSUME NEW r \in Execs, NEW f \in Execs, NEW t \in Tasks,
             taskByRun'[r] = f, exec'[f].task = t, ~Repeated(t)'
      PROVE  f = r /\ activeByTask'[t] = f /\ exec'[f].run = r
  <2>1. taskByRun[r] = f /\ exec'[f].run = exec[f].run
    BY <1>1
  <2>2. TaskOf(f) \in Tasks /\ exec[f].at \in {"running", "over"}
    BY <2>1, KnownRun
  <2>3. TaskOf(f) = t
    BY <1>1, <2>2 DEF Progress, CallStep, TaskOf
  <2>4. ~Repeated(t)
    BY <1>1, RepeatedStays
  <2>5. f = r /\ activeByTask[t] = f /\ exec[f].run = r
    BY <2>1, <2>3, <2>4, KnownRun
  <2> QED
    BY <1>1, <2>1, <2>3, <2>5
<1> QED
  BY <1>1, RunsNext

LEMMA StartRuns ==
  ASSUME TypeOK, Entries, RunIsActive, Progress, TypeOK', Entries', NEW e \in Execs, NEW t \in TasksOf[e],
         Execute(e, t) \/ ExecuteConnects(e, t) \/ PrepareFails(e, t)
  PROVE  RunIsActive'
<1>0. t \in Tasks /\ exec[e].at = "idle"
  BY TasksOfAssumption DEF Execute, ExecuteConnects, PrepareFails
<1>1. ASSUME NEW r \in Execs, NEW f \in Execs, taskByRun'[r] = f
      PROVE  /\ taskByRun[r] = f /\ exec'[f].run = exec[f].run
             /\ \A u \in Tasks : TaskOf(f) = u => Repeated(u)' \/ activeByTask'[u] = activeByTask[u]
  <2>1. taskByRun[r] = f
    BY <1>1 DEF Execute, ExecuteConnects, PrepareFails, clientVars
  <2>2. f # e
    BY <1>0, <2>1, KnownRun
  <2>3. exec'[f] = exec[f] /\ exec'[e].task = t
    <3>1. CASE Execute(e, t)
      BY <2>2, <3>1 DEF Execute, Sent, TypeOK, Exec
    <3>2. CASE ExecuteConnects(e, t) \/ PrepareFails(e, t)
      BY <2>2, <3>2 DEF ExecuteConnects, PrepareFails, TypeOK, Exec
    <3> QED
      BY <3>1, <3>2
  <2>4. ASSUME NEW u \in Tasks, TaskOf(f) = u PROVE Repeated(u)' \/ activeByTask'[u] = activeByTask[u]
    <3>1. CASE u = t
      BY <2>2, <2>3, <2>4, <3>1 DEF Repeated, TaskOf
    <3>2. CASE u # t
      BY <3>2 DEF Execute, ExecuteConnects, PrepareFails, clientVars, TypeOK
    <3> QED
      BY <3>1, <3>2
  <2> QED
    BY <2>1, <2>3, <2>4
<1> QED
  BY <1>1, SameRuns

LEMMA ConnectOkRuns ==
  ASSUME TypeOK, Entries, RunIsActive, Progress, TypeOK', Entries', NEW k \in Sockets, ConnectOk(k)
  PROVE  RunIsActive'
<1>1. ASSUME NEW r \in Execs, NEW f \in Execs, taskByRun'[r] = f
      PROVE  /\ taskByRun[r] = f /\ exec'[f].run = exec[f].run
             /\ \A u \in Tasks : TaskOf(f) = u => Repeated(u)' \/ activeByTask'[u] = activeByTask[u]
  <2>1. taskByRun[r] = f
    BY <1>1 DEF ConnectOk
  <2>2. exec[f].at \in {"running", "over"}
    BY <2>1, KnownRun
  <2>3. exec'[f] = exec[f]
    BY <2>2, ConnectOkCalls
  <2>4. ASSUME NEW u \in Tasks, TaskOf(f) = u, activeByTask'[u] # activeByTask[u] PROVE Repeated(u)'
    <3> DEFINE x == activeByTask'[u]
    <3>1. x \in Execs /\ exec[x].at = "connecting" /\ TaskOf(x) = u
      BY <2>4, ConnectOkCalls
    <3>2. x # f /\ exec'[x].task = exec[x].task
      BY <2>2, <3>1, ConnectOkCalls
    <3> QED
      BY <2>3, <2>4, <3>1, <3>2 DEF Repeated, TaskOf
  <2> QED
    BY <2>1, <2>3, <2>4
<1> QED
  BY <1>1, SameRuns

LEMMA SocketClosesRuns ==
  ASSUME TypeOK, Entries, RunIsActive, Progress, TypeOK', Entries', NEW k \in Sockets, SocketCloses(k)
  PROVE  RunIsActive'
<1>1. CASE connected
  <2>1. \A r \in Execs : taskByRun'[r] = None
    BY <1>1 DEF SocketCloses, Disconnect
  <2> QED
    BY <2>1 DEF RunIsActive
<1>2. CASE ~connected
  <2>1. taskByRun' = taskByRun /\ \A t \in Tasks : activeByTask'[t] = activeByTask[t]
    BY <1>2 DEF SocketCloses, Disconnect, TypeOK
  <2>2. \A e \in Execs : exec'[e].run = exec[e].run
    BY <1>2, SocketClosesCalls
  <2> QED
    BY <2>1, <2>2, SameRuns
<1> QED
  BY <1>1, <1>2

LEMMA RunAcceptedRuns ==
  ASSUME TypeOK, Entries, RunIsActive, Progress, TypeOK', Entries', NEW r \in Execs, RunAccepted(r)
  PROVE  RunIsActive'
<1> DEFINE e == activeByTask[TaskOf(r)]
<1>1. CASE e = None
  BY <1>1, RunAcceptedShape, SameRuns
<1>2. CASE e # None
  <2>1. /\ e \in Execs /\ TaskOf(e) = TaskOf(r) /\ TaskOf(r) \in Tasks /\ activeByTask' = activeByTask
        /\ taskByRun' = [taskByRun EXCEPT ![r] = e] /\ exec'[e].run = r
        /\ \A x \in Execs : exec'[x].task = exec[x].task
        /\ \A x \in Execs \ {e} : exec'[x] = exec[x]
    BY <1>2, RunAcceptedShape
  <2>2. ASSUME NEW x \in Execs, NEW f \in Execs, NEW t \in Tasks,
               taskByRun'[x] = f, exec'[f].task = t, ~Repeated(t)'
        PROVE  f = x /\ activeByTask'[t] = f /\ exec'[f].run = x
    <3>1. TaskOf(f) = t /\ ~Repeated(t)
      BY <2>1, <2>2 DEF Repeated, TaskOf
    <3>2. CASE x = r
      <4>1. f = e
        BY <2>1, <2>2, <3>2 DEF TypeOK
      <4>2. e = r
        BY <2>1, <3>1, <4>1 DEF Repeated
      <4> QED
        BY <2>1, <3>1, <3>2, <4>1, <4>2
    <3>3. CASE x # r
      <4>1. taskByRun[x] = f
        BY <2>1, <2>2, <3>3 DEF TypeOK
      <4>2. f = x /\ activeByTask[t] = f /\ exec[f].run = x
        BY <3>1, <4>1, KnownRun
      <4>3. f # e
        BY <2>1, <3>1, <3>3, <4>2 DEF Repeated
      <4> QED
        BY <2>1, <4>2, <4>3
    <3> QED
      BY <3>2, <3>3
  <2> QED
    BY <2>2, RunsNext
<1> QED
  BY <1>1, <1>2

LEMMA StepRuns ==
  ASSUME TypeOK, Entries, RunIsActive, Progress, TypeOK', Entries', [Next]_vars
  PROVE  RunIsActive'
<1>0. ASSUME UNCHANGED <<activeByTask, taskByRun>>, \A x \in Execs : exec'[x].run = exec[x].run
      PROVE  RunIsActive'
  BY <1>0, SameRuns
<1>1. CASE UNCHANGED vars
  BY <1>0, <1>1 DEF vars, clientVars
<1>2. CASE RunStep
  <2>1. ASSUME NEW r \in Execs, RunDelta(r) PROVE RunIsActive'
    BY <1>0, <2>1 DEF RunDelta, clientVars
  <2>2. ASSUME NEW r \in Execs, RunRefused(r) PROVE RunIsActive'
    BY <1>0, <2>2, RunRefusedShape, CutRuns DEF clientVars
  <2>3. ASSUME NEW r \in Execs, NEW state, RunEnds(r, state) PROVE RunIsActive'
    BY <1>0, <2>3, RunEndsShape, CutRuns DEF clientVars
  <2>4. ASSUME NEW e \in Execs, TaskTimesOut(e) PROVE RunIsActive'
    <3>1. CASE activeByTask[TaskOf(e)] # None
      BY <2>4, <3>1, TaskTimesOutShape, CutRuns
    <3>2. CASE activeByTask[TaskOf(e)] = None
      <4>1. UNCHANGED clientVars /\ exec' = [exec EXCEPT ![e].timer = FALSE]
        BY <2>4, <3>2, TaskTimesOutShape
      <4>2. \A x \in Execs : exec'[x].run = exec[x].run
        BY <4>1 DEF TypeOK, Exec
      <4> QED
        BY <1>0, <4>1, <4>2 DEF clientVars
    <3> QED
      BY <3>1, <3>2
  <2> QED
    BY <1>2, <2>1, <2>2, <2>3, <2>4, StartRuns, RunAcceptedRuns DEF RunStep
<1>3. CASE LinkStep
  <2>1. ASSUME exec' = RejectedCalls, UNCHANGED clientVars PROVE RunIsActive'
    <3>1. \A x \in Execs : exec'[x].run = exec[x].run
      BY <2>1 DEF RejectedCalls, TypeOK, Exec
    <3> QED
      BY <1>0, <2>1, <3>1 DEF clientVars
  <2>2. ASSUME NEW k \in Sockets, ConnectRefused(k) \/ LinkDies(k) PROVE RunIsActive'
    BY <1>0, <2>1, <2>2 DEF ConnectRefused, LinkDies, clientVars
  <2>3. CASE ConnectTimesOut \/ HeartbeatFails \/ ReconnectFires
    BY <1>0, <2>1, <2>3 DEF ConnectTimesOut, HeartbeatFails, ReconnectFires, clientVars
  <2> QED
    BY <1>3, <2>2, <2>3, ConnectOkRuns, SocketClosesRuns DEF LinkStep
<1>4. ASSUME NEW e \in Execs, Move(e) PROVE RunIsActive'
  <2>1. \A x \in Execs : exec'[x].run = exec[x].run
    BY <1>4 DEF Move
  <2> QED
    BY <1>0, <1>4, <2>1 DEF Move
<1>5. CASE FallbackStep
  BY <1>0, <1>4, <1>5, FallbackShape DEF FallbackStep, clientVars
<1>6. ASSUME NEW t \in Tasks, Cancel(t) PROVE RunIsActive'
  BY <1>4, <1>6, CancelShape, CutRuns
<1> QED
  BY <1>1, <1>2, <1>3, <1>5, <1>6, CancellableAssumption DEF Next
-----------------------------------------------------------------------------
(* What a step may publish.                                                  *)

InSession(t, r) == r # None => exec[r].at # "idle" /\ SessionOf[TaskOf(r)] = SessionOf[t]

NoneEarly(t) == \A e \in Execs : TaskOf(e) = t => exec[e].at \notin Early

\* What may be added to the stream of a task: nothing after its end, events of
\* its session, an acceptance when its call is accepted, and an end when there is
\* nothing left to publish, or when the task is cancelled before any acceptance.
May(t, s) ==
  /\ s # <<>> => (Repeated(t) \/ ~Quiet(t)) /\ \E e \in Execs : TaskOf(e) = t
  /\ \A i \in DOMAIN s : InSession(t, s[i].run)
  /\ Accepted(s) => Repeated(t) \/ NoneEarly(t)'
  /\ \A i \in DOMAIN s : s[i].type \in Ends =>
       /\ i = Len(s)
       /\ \/ Repeated(t) \/ Quiet(t)'
          \/ s[i].type = "cancelled" /\ Len(s) = 1 /\ ~Accepted(stream[t])

Speaks(t) == \E s \in Seq(Event) : stream'[t] = stream[t] \o s /\ May(t, s)

LEMMA SilentSpeaks ==
  ASSUME TypeOK, NEW t \in Tasks, stream'[t] = stream[t]
  PROVE  Speaks(t)
<1> DEFINE s == <<>>
<1>1. s \in Seq(Event) /\ DOMAIN s = {}
  OBVIOUS
<1>2. stream[t] \in Seq(Event)
  BY DEF TypeOK
<1>3. stream'[t] = stream[t] \o s
  BY <1>2
<1>4. May(t, s)
  BY <1>1 DEF May, Accepted
<1> QED
  BY <1>1, <1>3, <1>4 DEF Speaks

\* One event that may be published.
MayOne(t, type, r) ==
  /\ Repeated(t) \/ ~Quiet(t)
  /\ \E e \in Execs : TaskOf(e) = t
  /\ InSession(t, r)
  /\ type = "accepted" => Repeated(t) \/ NoneEarly(t)'
  /\ type \in Ends => \/ Repeated(t) \/ Quiet(t)' \/ (type = "cancelled" /\ ~Accepted(stream[t]))

LEMMA OneSpeaks ==
  ASSUME TypeOK, NEW t \in Tasks, NEW type \in EventType, NEW r \in Execs \cup {None},
         stream'[t] = Append(stream[t], [type |-> type, run |-> r]), MayOne(t, type, r)
  PROVE  Speaks(t)
<1> DEFINE ev == [type |-> type, run |-> r]
           s == <<ev>>
<1>1. ev \in Event /\ ev.type = type /\ ev.run = r
  BY DEF Event
<1>2. s \in Seq(Event) /\ Len(s) = 1 /\ DOMAIN s = {1} /\ s[1] = ev
  BY <1>1
<1>3. stream'[t] = stream[t] \o s
  BY <1>1 DEF TypeOK
<1>4. May(t, s)
  BY <1>1, <1>2 DEF May, MayOne, Accepted
<1> QED
  BY <1>2, <1>3, <1>4 DEF Speaks

LEMMA PublishSpeaks ==
  ASSUME TypeOK, NEW t \in Tasks, NEW type \in EventType, NEW r \in Execs \cup {None},
         Publish(t, type, r), MayOne(t, type, r)
  PROVE  \A u \in Tasks : Speaks(u)
<1>1. stream'[t] = Append(stream[t], [type |-> type, run |-> r])
  BY DEF Publish, TypeOK
<1>2. \A u \in Tasks \ {t} : stream'[u] = stream[u]
  BY DEF Publish, TypeOK
<1> QED
  BY <1>1, <1>2, OneSpeaks, SilentSpeaks

\* A task with one call has an end when that call is over and has no entry.
LEMMA LastCallQuiet ==
  ASSUME TypeOK, Entries, Entries', Progress, NEW t \in Tasks, NEW e \in Execs, TaskOf(e) = t,
         exec'[e].at \in {"over", "hung"}, \A x \in Execs : exec'[x].task = exec[x].task
  PROVE  Repeated(t) \/ Quiet(t)'
<1> SUFFICES ASSUME ~Repeated(t) PROVE Quiet(t)'
  OBVIOUS
<1>1. \A x \in Execs : exec'[x].task = t => x = e
  BY DEF Repeated, TaskOf
<1>2. activeByTask'[t] \in Execs \cup {None} /\ fallbackByTask'[t] \in Execs \cup {None}
  BY DEF Progress, NewEntry, TypeOK
<1>3. activeByTask'[t] = None /\ fallbackByTask'[t] = None
  BY <1>1, <1>2 DEF Entries, ActiveIsOwn, FallbackIsOwn, TaskOf
<1> QED
  BY <1>1, <1>3 DEF Quiet, TaskOf
\* A call that is not over may publish for its task, and its run with it.
LEMMA OwnCall ==
  ASSUME TypeOK, Entries, NEW e \in Execs, exec[e].at \notin {"idle", "over", "hung"}
  PROVE  /\ TaskOf(e) \in Tasks /\ ~Quiet(TaskOf(e)) /\ InSession(TaskOf(e), e)
BY DEF Entries, CallsHaveTasks, Quiet, InSession

\* So may a frame for the call it finds.
LEMMA FoundMay ==
  ASSUME TypeOK, Entries, RunIsActive, NEW r \in Execs, run[r] # "none", NEW e \in FindActive(r)
  PROVE  /\ e \in Execs /\ TaskOf(e) \in Tasks
         /\ (Repeated(TaskOf(e)) \/ ~Quiet(TaskOf(e))) /\ InSession(TaskOf(e), r)
<1>1. e \in Execs /\ TaskOf(e) \in Tasks /\ (taskByRun[r] = e \/ IsActive(e))
      /\ SessionOf[TaskOf(e)] = SessionOf[TaskOf(r)]
  BY FindActiveType
<1>2. Repeated(TaskOf(e)) \/ activeByTask[TaskOf(e)] = e
  BY <1>1, KnownRun DEF IsActive
<1>3. InSession(TaskOf(e), r)
  BY <1>1 DEF InSession, Entries, RunsHaveTasks
<1> QED
  BY <1>1, <1>2, <1>3, NoneAssumption DEF Quiet

LEMMA RunAcceptedSpeaks ==
  ASSUME TypeOK, Entries, NEW r \in Execs, RunAccepted(r)
  PROVE  \A t \in Tasks : Speaks(t)
<1> DEFINE e == activeByTask[TaskOf(r)]
           t == TaskOf(r)
<1>1. CASE e = None
  BY <1>1, RunAcceptedShape, SilentSpeaks
<1>2. CASE e # None
  <2>1. /\ e \in Execs /\ TaskOf(e) = t /\ t \in Tasks /\ exec'[e].at = "running"
        /\ exec[e].at \in {"sent", "running"}
        /\ \A x \in Execs : exec'[x].task = exec[x].task
        /\ Publish(t, "accepted", r)
    BY <1>2, RunAcceptedShape
  <2>2. InSession(t, r)
    BY DEF RunAccepted, InSession, Entries, RunsHaveTasks
  <2>3. Repeated(t) \/ NoneEarly(t)'
    BY <2>1 DEF Repeated, NoneEarly, Early, TaskOf
  <2>4. ~Quiet(t)
    BY <2>1, OwnCall
  <2>5. MayOne(t, "accepted", r)
    BY <2>1, <2>2, <2>3, <2>4 DEF MayOne, Ends
  <2>6. "accepted" \in EventType
    BY DEF EventType
  <2> QED
    BY <2>1, <2>5, <2>6, PublishSpeaks
<1> QED
  BY <1>1, <1>2

LEMMA RunDeltaSpeaks ==
  ASSUME TypeOK, Entries, RunIsActive, NEW r \in Execs, RunDelta(r)
  PROVE  \A t \in Tasks : Speaks(t)
<1>1. PICK e \in FindActive(r) : Publish(TaskOf(e), "delta", r)
  BY DEF RunDelta
<1>2. run[r] # "none"
  BY DEF RunDelta
<1>3. MayOne(TaskOf(e), "delta", r)
  BY <1>2, FoundMay DEF MayOne, Ends
<1>4. "delta" \in EventType
  BY DEF EventType
<1> QED
  BY <1>1, <1>2, <1>3, <1>4, FoundMay, PublishSpeaks

\* A call that ends on the shared socket publishes an end.
LEMMA CutSpeaks ==
  ASSUME TypeOK, Entries, Entries', Progress, NEW e \in Execs, Cut(e), TaskOf(e) \in Tasks,
         exec'[e].at \in {"over", "hung"}, NEW type \in {"completed", "failed"},
         NEW r \in Execs \cup {None}, Publish(TaskOf(e), type, r), InSession(TaskOf(e), r),
         Repeated(TaskOf(e)) \/ ~Quiet(TaskOf(e))
  PROVE  \A t \in Tasks : Speaks(t)
<1>1. \A x \in Execs : exec'[x].task = exec[x].task
  BY DEF Cut, Keeps
<1>2. ASSUME NEW t \in Tasks, TaskOf(e) = t PROVE Repeated(t) \/ Quiet(t)'
  BY <1>1, <1>2, LastCallQuiet
<1>3. ASSUME NEW t \in Tasks, TaskOf(e) = t PROVE \A u \in Tasks : Speaks(u)
  <2>1. Publish(t, type, r) /\ InSession(t, r) /\ (Repeated(t) \/ ~Quiet(t))
    BY <1>3
  <2>2. MayOne(t, type, r)
    BY <1>2, <1>3, <2>1 DEF MayOne
  <2>3. type \in EventType
    BY DEF EventType, Ends
  <2> QED
    BY <2>1, <2>2, <2>3, PublishSpeaks
<1> QED
  BY <1>3

LEMMA RunEndsSpeaks ==
  ASSUME TypeOK, Entries, Entries', Progress, RunIsActive, NEW r \in Execs, NEW state,
         RunEnds(r, state)
  PROVE  \A t \in Tasks : Speaks(t)
<1>1. CASE UNCHANGED stream
  BY <1>1, SilentSpeaks
<1>2. CASE \E e \in FindActive(r) : e \in Execs /\ Cut(e) /\ Publish(TaskOf(e), EndType(state), r)
                                    /\ (exec[e].at = "sent" => exec'[e].at = "hung")
  <2>1. PICK e \in FindActive(r) : e \in Execs /\ Cut(e) /\ Publish(TaskOf(e), EndType(state), r)
                                    /\ (exec[e].at = "sent" => exec'[e].at = "hung")
    BY <1>2
  <2>2. exec'[e].at \in {"over", "hung"}
    BY <2>1 DEF Cut
  <2>3. EndType(state) \in {"completed", "failed"}
    BY DEF EndType
  <2>4. run[r] # "none"
    BY DEF RunEnds
  <2> QED
    BY <2>1, <2>2, <2>3, <2>4, FoundMay, CutSpeaks
<1> QED
  BY <1>1, <1>2, RunEndsShape

LEMMA TaskTimesOutSpeaks ==
  ASSUME TypeOK, Entries, Entries', Progress, NEW e \in Execs, TaskTimesOut(e)
  PROVE  \A t \in Tasks : Speaks(t)
<1> DEFINE held == activeByTask[TaskOf(e)]
<1>1. CASE held = None \/ exec[held].at = "sent"
  <2>1. UNCHANGED stream
    BY <1>1 DEF TaskTimesOut
  <2> QED
    BY <2>1, SilentSpeaks
<1>2. CASE held # None /\ exec[held].at # "sent"
  <2>1. held \in Execs /\ Cut(held) /\ TaskOf(e) \in Tasks
    BY <1>2, TaskTimesOutShape
  <2>2. TaskOf(held) = TaskOf(e) /\ exec[held].at = "running"
    BY <1>2, <2>1 DEF Entries, ActiveIsOwn
  <2>3. Publish(TaskOf(held), "failed", None)
    BY <1>2, <2>2 DEF TaskTimesOut
  <2>4. exec'[held].at = "over"
    BY <2>1, <2>2 DEF Cut
  <2>5. ~Quiet(TaskOf(held))
    BY <2>1, <2>2, OwnCall
  <2>6. InSession(TaskOf(held), None)
    BY DEF InSession
  <2> QED
    BY <2>1, <2>2, <2>3, <2>4, <2>5, <2>6, CutSpeaks
<1> QED
  BY <1>1, <1>2

LEMMA SocketClosesSpeaks ==
  ASSUME TypeOK, Entries, Entries', Progress, NEW k \in Sockets, SocketCloses(k)
  PROVE  \A t \in Tasks : Speaks(t)
<1> SUFFICES ASSUME NEW t \in Tasks PROVE Speaks(t)
  OBVIOUS
<1> DEFINE e == activeByTask[t]
<1>1. CASE connected /\ e # None /\ exec[e].at = "running"
  <2>1. stream'[t] = Append(stream[t], [type |-> "failed", run |-> None])
    BY <1>1 DEF SocketCloses, Disconnect, FailedStream
  <2>2. e \in Execs /\ TaskOf(e) = t
    BY <1>1 DEF TypeOK, Entries, ActiveIsOwn
  <2>3. IsActive(e)
    BY <2>2, NoneAssumption DEF IsActive
  <2>4. exec'[e].at = "over" /\ \A x \in Execs : exec'[x].task = exec[x].task
    BY <1>1, <2>2, <2>3, SocketClosesCalls
  <2>5. Repeated(t) \/ Quiet(t)'
    BY <2>2, <2>4, LastCallQuiet
  <2>6. ~Quiet(t)
    BY <1>1 DEF Quiet
  <2>7. MayOne(t, "failed", None)
    BY <2>2, <2>5, <2>6 DEF MayOne, InSession
  <2>8. "failed" \in EventType
    BY DEF EventType, Ends
  <2> QED
    BY <2>1, <2>7, <2>8, OneSpeaks
<1>2. CASE ~(connected /\ e # None /\ exec[e].at = "running")
  <2>1. stream'[t] = stream[t]
    BY <1>2 DEF SocketCloses, Disconnect, FailedStream
  <2> QED
    BY <2>1, SilentSpeaks
<1> QED
  BY <1>1, <1>2

LEMMA FallbackAcceptedSpeaks ==
  ASSUME TypeOK, Entries, NEW e \in Execs, FallbackAccepted(e)
  PROVE  \A t \in Tasks : Speaks(t)
<1>1. /\ exec[e].at = "fallback" /\ exec'[e].at = "fbRunning"
      /\ \A x \in Execs : exec'[x].task = exec[x].task
  BY GoFields DEF FallbackAccepted
<1>2. ASSUME NEW t \in Tasks, TaskOf(e) = t PROVE Repeated(t) \/ NoneEarly(t)'
  BY <1>1, <1>2 DEF Repeated, NoneEarly, Early, TaskOf
<1>3. TaskOf(e) \in Tasks /\ ~Quiet(TaskOf(e)) /\ InSession(TaskOf(e), e)
  BY <1>1, OwnCall
<1>4. ASSUME NEW t \in Tasks, TaskOf(e) = t PROVE \A u \in Tasks : Speaks(u)
  <2>1. MayOne(t, "accepted", e)
    BY <1>2, <1>3, <1>4 DEF MayOne, Ends
  <2>2. Publish(t, "accepted", e) /\ "accepted" \in EventType
    BY <1>4 DEF FallbackAccepted, EventType
  <2> QED
    BY <2>1, <2>2, PublishSpeaks
<1> QED
  BY <1>3, <1>4

LEMMA FallbackDeltaSpeaks ==
  ASSUME TypeOK, Entries, NEW e \in Execs, FallbackDelta(e)
  PROVE  \A t \in Tasks : Speaks(t)
<1>1. TaskOf(e) \in Tasks /\ ~Quiet(TaskOf(e)) /\ InSession(TaskOf(e), e)
  BY OwnCall DEF FallbackDelta
<1>2. MayOne(TaskOf(e), "delta", e)
  BY <1>1 DEF MayOne, Ends
<1>3. Publish(TaskOf(e), "delta", e) /\ "delta" \in EventType
  BY DEF FallbackDelta, EventType
<1> QED
  BY <1>1, <1>2, <1>3, PublishSpeaks

LEMMA FallbackEndsSpeaks ==
  ASSUME TypeOK, Entries, Entries', Progress, NEW e \in Execs, NEW type, FallbackEnds(e, type)
  PROVE  \A t \in Tasks : Speaks(t)
<1>1. /\ exec[e].at = "fbRunning" /\ exec'[e].at = "over"
      /\ \A x \in Execs : exec'[x].task = exec[x].task
  BY GoFields DEF FallbackEnds
<1>2. ASSUME NEW t \in Tasks, TaskOf(e) = t PROVE Repeated(t) \/ Quiet(t)'
  BY <1>1, <1>2, LastCallQuiet
<1>3. TaskOf(e) \in Tasks /\ ~Quiet(TaskOf(e)) /\ InSession(TaskOf(e), e)
  BY <1>1, OwnCall
<1>4. ASSUME NEW t \in Tasks, TaskOf(e) = t PROVE \A u \in Tasks : Speaks(u)
  <2>1. MayOne(t, type, e)
    BY <1>2, <1>3, <1>4 DEF MayOne, FallbackEnds
  <2>2. Publish(t, type, e) /\ type \in EventType
    BY <1>4 DEF FallbackEnds, EventType, Ends
  <2> QED
    BY <2>1, <2>2, PublishSpeaks
<1> QED
  BY <1>3, <1>4

LEMMA HttpAnswersSpeaks ==
  ASSUME TypeOK, Entries, Entries', Progress, NEW e \in Execs, HttpAnswers(e)
  PROVE  \A t \in Tasks : Speaks(t)
<1> SUFFICES ASSUME NEW t \in Tasks PROVE Speaks(t)
  OBVIOUS
<1>1. /\ exec[e].at = "http" /\ exec'[e].at = "over"
      /\ \A x \in Execs : exec'[x].task = exec[x].task
  BY GoFields DEF HttpAnswers
<1>2. CASE t # TaskOf(e)
  <2>1. stream'[t] = stream[t]
    BY <1>2 DEF HttpAnswers, TypeOK
  <2> QED
    BY <2>1, SilentSpeaks
<1>3. CASE t = TaskOf(e)
  <2> DEFINE ev(type) == [type |-> type, run |-> e]
             s == <<ev("accepted"), ev("delta"), ev("completed")>>
  <2>1. Repeated(t) \/ Quiet(t)'
    BY <1>1, <1>3, LastCallQuiet
  <2>2. ~Quiet(t) /\ InSession(t, e)
    BY <1>1, <1>3, OwnCall
  <2>3. Repeated(t) \/ NoneEarly(t)'
    BY <1>1, <1>3 DEF Repeated, NoneEarly, Early, TaskOf
  <2>4. ev("accepted") \in Event /\ ev("delta") \in Event /\ ev("completed") \in Event
    BY DEF Event, EventType, Ends
  <2>5. s \in Seq(Event) /\ Len(s) = 3 /\ DOMAIN s = 1 .. 3
    BY <2>4
  <2>6. \A i \in DOMAIN s : s[i].run = e /\ (s[i].type \in Ends => i = 3)
    BY <2>5 DEF Ends
  <2>7. stream'[t] = stream[t] \o s
    BY <1>3 DEF HttpAnswers, TypeOK
  <2>8. May(t, s)
    BY <1>3, <2>1, <2>2, <2>3, <2>5, <2>6 DEF May
  <2> QED
    BY <2>5, <2>7, <2>8 DEF Speaks
<1> QED
  BY <1>2, <1>3

LEMMA CancelSpeaks ==
  ASSUME TypeOK, Entries, Entries', Progress, NotYetAccepted, NEW t \in Tasks, Cancel(t)
  PROVE  \A u \in Tasks : Speaks(u)
<1>0. "cancelled" \in EventType
  BY DEF EventType, Ends
<1>1. ASSUME NEW e \in Execs, TaskOf(e) = t, exec[e].at \in Early
      PROVE  Repeated(t) \/ ~Accepted(stream[t])
  BY <1>1 DEF NotYetAccepted, Early
<1>2. ASSUME NEW e \in Execs, TaskOf(e) = t, ~Quiet(t), Publish(t, "cancelled", None),
             exec'[e].at \in {"over", "hung"} \/ exec[e].at \in Early,
             \A x \in Execs : exec'[x].task = exec[x].task
      PROVE  \A u \in Tasks : Speaks(u)
  <2>1. Repeated(t) \/ Quiet(t)' \/ ~Accepted(stream[t])
    BY <1>1, <1>2, LastCallQuiet
  <2>2. MayOne(t, "cancelled", None)
    BY <1>2, <2>1 DEF MayOne, InSession
  <2> QED
    BY <1>0, <1>2, <2>2, PublishSpeaks
<1>3. CASE CancelActive(t)
  <2> DEFINE e == activeByTask[t]
  <2>1. e \in Execs /\ TaskOf(e) = t /\ exec[e].at \in {"sent", "running"}
    BY <1>3 DEF CancelActive, TypeOK, Entries, ActiveIsOwn
  <2>2. exec'[e] = Dropped(e) /\ \A x \in Execs \ {e} : exec'[x] = exec[x]
    BY <1>3, <2>1 DEF CancelActive, TypeOK
  <2>3. exec'[e].at \in {"over", "hung"} \/ exec[e].at \in Early
    BY <2>1, <2>2, DroppedFields DEF Early
  <2>4. \A x \in Execs : exec'[x].task = exec[x].task
    BY <2>1, <2>2, DroppedFields
  <2>5. ~Quiet(t) /\ Publish(t, "cancelled", None)
    BY <1>3 DEF CancelActive, Quiet
  <2> QED
    BY <1>2, <2>1, <2>3, <2>4, <2>5
<1>4. CASE CancelFallback(t)
  <2> DEFINE e == fallbackByTask[t]
             at == CASE exec[e].at = "fallback" -> "hung"
                     [] exec[e].at = "http"     -> "http"
                     [] OTHER                   -> "over"
  <2>1. e \in Execs /\ TaskOf(e) = t /\ exec[e].at \in OwnConnection
    BY <1>4 DEF CancelFallback, TypeOK, Entries, FallbackIsOwn, OwnConnection
  <2>2. exec'[e].at = at /\ \A x \in Execs : exec'[x].task = exec[x].task
    BY <1>4, <2>1, GoFields DEF CancelFallback
  <2>3. exec'[e].at \in {"over", "hung"} \/ exec[e].at \in Early
    BY <2>2 DEF Early
  <2>4. ~Quiet(t) /\ Publish(t, "cancelled", None)
    BY <1>4 DEF CancelFallback, Quiet
  <2> QED
    BY <1>2, <2>1, <2>2, <2>3, <2>4
<1> QED
  BY <1>3, <1>4 DEF Cancel
LEMMA StepSpeaks ==
  ASSUME TypeOK, Entries, Entries', Progress, RunIsActive, NotYetAccepted, [Next]_vars
  PROVE  \A t \in Tasks : Speaks(t)
<1>1. CASE UNCHANGED stream
  BY <1>1, SilentSpeaks
<1>2. CASE UNCHANGED vars
  BY <1>1, <1>2 DEF vars
<1>3. CASE RunStep
  <2>1. ASSUME NEW e \in Execs, NEW t \in TasksOf[e],
               Execute(e, t) \/ ExecuteConnects(e, t) \/ PrepareFails(e, t)
        PROVE  UNCHANGED stream
    BY <2>1 DEF Execute, ExecuteConnects, PrepareFails
  <2>2. ASSUME NEW r \in Execs, RunRefused(r) PROVE UNCHANGED stream
    BY <2>2 DEF RunRefused
  <2> QED
    BY <1>1, <1>3, <2>1, <2>2, RunAcceptedSpeaks, RunDeltaSpeaks, TaskTimesOutSpeaks, RunEndsSpeaks
       DEF RunStep
<1>4. CASE LinkStep
  <2>1. ASSUME NEW k \in Sockets, ConnectOk(k) \/ ConnectRefused(k) \/ LinkDies(k)
        PROVE  UNCHANGED stream
    BY <2>1 DEF ConnectOk, ConnectRefused, LinkDies
  <2>2. CASE ConnectTimesOut \/ HeartbeatFails \/ ReconnectFires
    BY <1>1, <2>2 DEF ConnectTimesOut, HeartbeatFails, ReconnectFires
  <2> QED
    BY <1>1, <1>4, <2>1, <2>2, SocketClosesSpeaks DEF LinkStep
<1>5. CASE FallbackStep
  <2>1. ASSUME NEW e \in Execs,
               \/ FallbackStarts(e) \/ FallbackToHttp(e) \/ FallbackRefused(e) \/ HttpFails(e)
               \/ FallbackClosedNormally(e)
        PROVE  UNCHANGED stream
    BY <2>1 DEF FallbackStarts, FallbackToHttp, FallbackRefused, HttpFails, FallbackClosedNormally
  <2> QED
    BY <1>1, <1>5, <2>1, FallbackAcceptedSpeaks, FallbackDeltaSpeaks, FallbackEndsSpeaks, HttpAnswersSpeaks
       DEF FallbackStep
<1>6. ASSUME NEW t \in Tasks, Cancel(t) PROVE \A u \in Tasks : Speaks(u)
  BY <1>6, CancelSpeaks
<1> QED
  BY <1>2, <1>3, <1>4, <1>5, <1>6, CancellableAssumption DEF Next

-----------------------------------------------------------------------------
(* The streams.                                                              *)

\* What a longer stream has of what it was made of.
LEMMA Longer ==
  ASSUME NEW old \in Seq(Event), NEW s \in Seq(Event), NEW new, new = old \o s
  PROVE  /\ Len(new) = Len(old) + Len(s) /\ DOMAIN new = 1 .. Len(new)
         /\ Len(old) \in Nat /\ Len(s) \in Nat /\ DOMAIN s = 1 .. Len(s)
         /\ DOMAIN old = 1 .. Len(old)
         /\ \A i \in 1 .. Len(old) : new[i] = old[i]
         /\ \A i \in 1 .. Len(s) : new[Len(old) + i] = s[i]
         /\ \A i \in DOMAIN new : i \in DOMAIN old \/ (i - Len(old) \in DOMAIN s /\ new[i] = s[i - Len(old)])
OBVIOUS

LEMMA StepSession ==
  ASSUME TypeOK, EventsInSession, Progress, \A t \in Tasks : Speaks(t)
  PROVE  EventsInSession'
<1> SUFFICES ASSUME NEW t \in Tasks, NEW i \in DOMAIN stream'[t], NEW r, r = stream'[t][i].run, r # None
             PROVE  exec'[r].at # "idle" /\ SessionOf[exec'[r].task] = SessionOf[t]
  BY DEF EventsInSession, TaskOf
<1>0. ASSUME InSession(t, r), r \in Execs
      PROVE  exec'[r].at # "idle" /\ SessionOf[exec'[r].task] = SessionOf[t]
  BY <1>0 DEF InSession, Progress, CallStep, TaskOf
<1>1. PICK s \in Seq(Event) : stream'[t] = stream[t] \o s /\ May(t, s)
  BY DEF Speaks
<1>2. stream[t] \in Seq(Event) /\ \A ev \in Event : ev.run \in Execs \cup {None}
  BY DEF TypeOK, Event
<1>3. CASE i \in DOMAIN stream[t]
  <2>1. stream'[t][i] = stream[t][i] /\ stream[t][i] \in Event
    BY <1>1, <1>2, <1>3, Longer
  <2>2. InSession(t, r)
    BY <1>3, <2>1 DEF EventsInSession, InSession
  <2> QED
    BY <1>0, <1>2, <2>1, <2>2
<1>4. CASE i - Len(stream[t]) \in DOMAIN s /\ stream'[t][i] = s[i - Len(stream[t])]
  <2>1. InSession(t, r)
    BY <1>1, <1>4 DEF May
  <2>2. stream'[t][i] \in Event
    BY <1>4
  <2> QED
    BY <1>0, <1>2, <2>1, <2>2
<1> QED
  BY <1>1, <1>2, <1>3, <1>4, Longer

LEMMA StepHasCall ==
  ASSUME TypeOK, Entries, StreamHasCall, Progress, \A t \in Tasks : Speaks(t)
  PROVE  StreamHasCall'
<1> SUFFICES ASSUME NEW t \in Tasks, stream'[t] # <<>>
             PROVE  \E e \in Execs : exec'[e].task = t
  BY DEF StreamHasCall, TaskOf
<1>1. PICK s \in Seq(Event) : stream'[t] = stream[t] \o s /\ May(t, s)
  BY DEF Speaks
<1>2. stream[t] \in Seq(Event) /\ (stream[t] # <<>> \/ s # <<>>)
  BY <1>1 DEF TypeOK
<1>3. PICK e \in Execs : TaskOf(e) = t
  BY <1>1, <1>2 DEF StreamHasCall, May
<1>4. exec[e].at # "idle"
  BY <1>3, NoneAssumption DEF Entries, CallsHaveTasks
<1> QED
  BY <1>3, <1>4 DEF Progress, CallStep, TaskOf

\* A call that starts for a task that had one before makes it repeated.
LEMMA SecondCall ==
  ASSUME Entries, Progress, NEW t \in Tasks, NEW e \in Execs, exec[e].at = "idle",
         exec'[e].task = t, NEW f \in Execs, TaskOf(f) = t
  PROVE  Repeated(t)'
<1>1. exec[f].at # "idle"
  BY NoneAssumption DEF Entries, CallsHaveTasks
<1>2. f # e /\ exec'[f].task = t
  BY <1>1 DEF Progress, CallStep, TaskOf
<1> QED
  BY <1>2 DEF Repeated, TaskOf

LEMMA StepNotYet ==
  ASSUME TypeOK, Entries, Entries', StreamHasCall, NotYetAccepted, Progress,
         \A t \in Tasks : Speaks(t)
  PROVE  NotYetAccepted'
<1> SUFFICES ASSUME NEW e \in Execs, exec'[e].at \in Early, NEW t \in Tasks, exec'[e].task = t,
                    ~Repeated(t)'
             PROVE  ~Accepted(stream'[t])
  <2>1. \A e \in Execs : exec'[e].at \in Early => exec'[e].task \in Tasks
    BY DEF Entries, CallsHaveTasks, Early, TaskOf
  <2> QED
    BY <2>1 DEF NotYetAccepted, Early, TaskOf, Accepted, Repeated
<1>1. PICK s \in Seq(Event) : stream'[t] = stream[t] \o s /\ May(t, s)
  BY DEF Speaks
<1>2. stream[t] \in Seq(Event) /\ ~Repeated(t)
  BY RepeatedStays DEF TypeOK
<1>3. CASE exec[e].at = "idle"
  <2>1. \A f \in Execs : TaskOf(f) # t
    BY <1>3, SecondCall
  <2>2. stream[t] = <<>> /\ s = <<>>
    BY <1>1, <2>1 DEF StreamHasCall, May
  <2> QED
    BY <1>1, <2>2 DEF Accepted
<1>4. CASE exec[e].at # "idle"
  <2>1. exec[e].at \in Early /\ TaskOf(e) = t
    BY <1>4 DEF Progress, CallStep, TaskOf
  <2>2. ~Accepted(stream[t])
    BY <1>2, <2>1 DEF NotYetAccepted, Early
  <2>3. ~NoneEarly(t)'
    BY DEF NoneEarly, TaskOf
  <2>4. ~Accepted(s)
    BY <1>1, <1>2, <2>3 DEF May
  <2> QED
    BY <1>1, <1>2, <2>2, <2>4, Longer DEF Accepted
<1> QED
  BY <1>3, <1>4

LEMMA CancelledEarlyStays ==
  ASSUME TypeOK, NEW t \in Tasks, NEW s \in Seq(Event), stream'[t] = stream[t] \o s
  PROVE  /\ CancelledEarly(t) => CancelledEarly(t)'
         /\ Len(s) = 1 /\ s[1].type = "cancelled" /\ ~Accepted(stream[t]) => CancelledEarly(t)'
<1>1. stream[t] \in Seq(Event)
  BY DEF TypeOK
<1>2. ASSUME CancelledEarly(t) PROVE CancelledEarly(t)'
  <2>1. PICK i \in DOMAIN stream[t] : /\ stream[t][i].type = "cancelled"
                                      /\ \A j \in 1 .. i : stream[t][j].type # "accepted"
    BY <1>2 DEF CancelledEarly
  <2>2. i \in DOMAIN stream'[t] /\ \A j \in 1 .. i : stream'[t][j] = stream[t][j]
    BY <1>1, Longer
  <2> QED
    BY <1>1, <2>1, <2>2 DEF CancelledEarly
<1>3. ASSUME Len(s) = 1, s[1].type = "cancelled", ~Accepted(stream[t]) PROVE CancelledEarly(t)'
  <2> DEFINE n == Len(stream[t]) + 1
  <2>0. /\ 1 \in 1 .. Len(s) /\ Len(stream[t]) \in Nat /\ DOMAIN stream[t] = 1 .. Len(stream[t])
        /\ Len(stream'[t]) = Len(stream[t]) + Len(s) /\ DOMAIN stream'[t] = 1 .. Len(stream'[t])
        /\ \A j \in 1 .. Len(stream[t]) : stream'[t][j] = stream[t][j]
    <3>1. 1 \in 1 .. Len(s)
      BY <1>3
    <3> QED
      BY <1>1, <3>1, Longer
  <2>1. n \in DOMAIN stream'[t] /\ stream'[t][n] = s[1]
    <3>1. stream'[t][Len(stream[t]) + 1] = s[1]
      BY <1>1, <2>0, Longer
    <3> QED
      BY <1>3, <2>0, <3>1
  <2>2. \A j \in 1 .. n : stream'[t][j].type # "accepted"
    <3> TAKE j \in 1 .. n
    <3>1. CASE j \in 1 .. Len(stream[t])
      BY <1>3, <2>0, <3>1 DEF Accepted
    <3>2. CASE j = n
      BY <1>3, <2>1, <3>2
    <3> QED
      BY <2>0, <3>1, <3>2
  <2> QED
    BY <1>3, <2>1, <2>2 DEF CancelledEarly
<1> QED
  BY <1>2, <1>3

LEMMA StepEnds ==
  ASSUME TypeOK, Entries, StreamHasCall, EndedIsQuiet, EndIsLast, Progress,
         \A t \in Tasks : Speaks(t)
  PROVE  EndedIsQuiet' /\ EndIsLast'
<1> SUFFICES ASSUME NEW t \in Tasks, ~Repeated(t)', ~CancelledEarly(t)', Ended(stream'[t])
             PROVE  /\ Quiet(t)'
                    /\ \A i \in DOMAIN stream'[t] : stream'[t][i].type \in Ends => i = Len(stream'[t])
  BY DEF EndedIsQuiet, EndIsLast, Ended
<1>1. PICK s \in Seq(Event) : stream'[t] = stream[t] \o s /\ May(t, s)
  BY DEF Speaks
<1>2. stream[t] \in Seq(Event) /\ ~Repeated(t) /\ ~CancelledEarly(t)
  BY <1>1, RepeatedStays, CancelledEarlyStays DEF TypeOK
<1>3. CASE Ended(stream[t])
  <2>1. Quiet(t) /\ stream[t] # <<>>
    BY <1>2, <1>3 DEF EndedIsQuiet, Ended
  <2>2. s = <<>>
    BY <1>1, <1>2, <2>1 DEF May
  <2>3. Quiet(t)'
    BY <2>1, QuietStays, SecondCall DEF StreamHasCall
  <2> QED
    BY <1>1, <1>2, <2>2, <2>3 DEF EndIsLast
<1>4. CASE ~Ended(stream[t])
  <2>1. ASSUME NEW i \in DOMAIN stream'[t], stream'[t][i].type \in Ends
        PROVE  i = Len(stream'[t]) /\ Quiet(t)'
    <3> DEFINE j == i - Len(stream[t])
    <3>1. j \in DOMAIN s /\ s[j].type \in Ends
      BY <1>1, <1>2, <1>4, <2>1, Longer DEF Ended
    <3>2. j = Len(s)
      BY <1>1, <3>1 DEF May
    <3>3. Quiet(t)' \/ (s[j].type = "cancelled" /\ Len(s) = 1 /\ ~Accepted(stream[t]))
      BY <1>1, <1>2, <3>1 DEF May
    <3>4. Quiet(t)'
      BY <1>1, <3>2, <3>3, CancelledEarlyStays
    <3> QED
      BY <1>1, <1>2, <2>1, <3>2, <3>4, Longer
  <2> QED
    BY <2>1 DEF Ended
<1> QED
  BY <1>3, <1>4

-----------------------------------------------------------------------------
(* The invariant.                                                            *)

LEMMA InitInv == Init => Inv
<1> SUFFICES ASSUME Init PROVE Inv
  OBVIOUS
<1>1. TypeOK
  BY InitType
<1>2. Entries
  BY DEF Init, Entries, CallsHaveTasks, ActiveIsOwn, FallbackIsOwn, RunsHaveTasks, TaskOf
<1>3. ActiveIsConnected /\ EventsInSession /\ EndIsLast
  BY DEF Init, ActiveIsConnected, EventsInSession, EndIsLast
<1>4. RunIsActive /\ StreamHasCall /\ EndedIsQuiet
  BY DEF Init, RunIsActive, StreamHasCall, EndedIsQuiet, Ended
<1>5. NotYetAccepted
  BY DEF Init, NotYetAccepted
<1> QED
  BY <1>1, <1>2, <1>3, <1>4, <1>5 DEF Inv, Alone

LEMMA StepInv == Inv /\ [Next]_vars => Inv'
<1> SUFFICES ASSUME Inv, [Next]_vars PROVE Inv'
  OBVIOUS
<1> USE DEF Inv, Alone
<1>1. TypeOK' /\ Entries' /\ ActiveIsConnected'
  BY StepType, StepEntries, StepConnected
<1>2. Progress
  BY StepProgress
<1>3. \A t \in Tasks : Speaks(t)
  BY <1>1, <1>2, StepSpeaks
<1>4. RunIsActive'
  BY <1>1, <1>2, StepRuns
<1>5. EventsInSession' /\ StreamHasCall' /\ NotYetAccepted'
  BY <1>1, <1>2, <1>3, StepSession, StepHasCall, StepNotYet
<1>6. EndedIsQuiet' /\ EndIsLast'
  BY <1>2, <1>3, StepEnds
<1> QED
  BY <1>1, <1>4, <1>5, <1>6

LEMMA AlwaysInv == Spec => []Inv
BY InitInv, StepInv, PTL DEF Spec

\* The client's tables and the Gateway's answers keep their types, for any calls,
\* tasks and sockets.
THEOREM GatewayTypeCorrect == Spec => []TypeOK
<1>1. Inv => TypeOK
  BY DEF Inv
<1> QED
  BY <1>1, AlwaysInv, PTL

\* Every entry of activeByTask has a timer of its own still to fire: whoever
\* overwrites, times out, fails or cancels, an entry and its call's timer go together.
THEOREM EntriesHaveTimers == Spec => []ActiveHasTimer
<1>1. Inv => ActiveHasTimer
  BY DEF Inv, Entries, ActiveIsOwn, ActiveHasTimer
<1> QED
  BY <1>1, AlwaysInv, PTL

\* No entry is left from a connection that is gone.
THEOREM EntriesAreConnected == Spec => []ActiveIsConnected
<1>1. Inv => ActiveIsConnected
  BY DEF Inv
<1> QED
  BY <1>1, AlwaysInv, PTL

\* Frames with an unknown run stay in the session they came for.
THEOREM FramesStayInSession == Spec => []EventsStayInSession
<1>1. Inv => EventsStayInSession
  BY DEF Inv, EventsInSession, EventsStayInSession
<1> QED
  BY <1>1, AlwaysInv, PTL

\* The end of a task executed once is the last event of its stream, whichever of
\* the shared socket, the fallback and HTTP published it.
THEOREM EndsAreLast == Spec => []EndIsLast
<1>1. Inv => EndIsLast
  BY DEF Inv
<1> QED
  BY <1>1, AlwaysInv, PTL
=============================================================================

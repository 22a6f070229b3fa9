---------------------------- MODULE GatewayClient ----------------------------
(***************************************************************************)
(* The adapter's side of the Gateway: PersistentGatewayClient with its one *)
(* socket for all tasks, and executeGatewayTask, the connection of its own *)
(* that a task falls back to, with the HTTP request behind it.  A handler  *)
(* of a frame, a timer or a socket event is one step.                      *)
(***************************************************************************)
EXTENDS Integers, Sequences

CONSTANTS
  Tasks,
  Sessions,
  SessionOf,   (* The session of a task; the Gateway sees its session key.   *)
  Execs,       (* Calls of execute; two of them may be for the same task.    *)
  TasksOf,     (* The tasks a call may be for.                               *)
  Sockets,     (* Connections of the persistent client, reused once closed.  *)
  None,
  Cancellable, (* Tasks that may be cancelled.                               *)
  MaxFaults,   (* Bound: refusals and broken links in a behaviour.           *)
  MaxEvents    (* Bound: no delta is published on a stream this long.        *)

ASSUME NoneAssumption     == None \notin Execs \cup Tasks \cup Sockets
ASSUME SessionsAssumption == SessionOf \in [Tasks -> Sessions]
ASSUME TasksOfAssumption  == TasksOf \in [Execs -> SUBSET Tasks]
ASSUME BoundsAssumption   == MaxFaults \in Nat /\ MaxEvents \in Nat
ASSUME CancellableAssumption == Cancellable \subseteq Tasks

VARIABLES
  exec,       (* The calls of execute; a call is also the id of its run.     *)
  activeByTask,
  taskByRun,
  fallbackByTask,
  sock,       (* The state of each connection.                               *)
  socket,     (* this.socket: the connection made last.                      *)
  connected,
  pending,    (* connectionPromise, and the connect timer that ends it.      *)
  reconnect,  (* The reconnect timer is armed.                               *)
  run,        (* The Gateway's state of the run each call asked for ...      *)
  link,       (* ... and the connection it answers on.                       *)
  stream,     (* What each task's onEvent was given.                         *)
  faults

clientVars == <<activeByTask, taskByRun, fallbackByTask>>
linkVars   == <<sock, socket, connected, pending, reconnect>>
runVars    == <<run, link>>
vars == <<exec, clientVars, linkVars, runVars, stream, faults>>

Ends      == {"completed", "failed", "cancelled"}
EventType == {"accepted", "delta"} \cup Ends
Event     == [type : EventType, run : Execs \cup {None}]

\* "connecting", "sent" and "running" are executePersistent; "falling" is the
\* catch block of execute; what follows is executeGatewayTask.  A call that is
\* "hung" will neither settle nor publish, one that is "mute" has settled and
\* will not publish its end.
At == {"idle", "connecting", "sent", "running", "falling", "fallback",
       "fbRunning", "http", "over", "hung", "mute"}
Exec == [task : Tasks \cup {None}, at : At, run : Execs \cup {None},
         timer : BOOLEAN, reply : {"no", "accepted", "failed"}]
RunState  == {"none", "asked", "running", "aborting", "ended"}
SockState == {"closed", "opening", "open", "dead", "closing"}

TypeOK ==
  /\ exec           \in [Execs -> Exec]
  /\ activeByTask   \in [Tasks -> Execs \cup {None}]
  /\ taskByRun      \in [Execs -> Execs \cup {None}]
  /\ fallbackByTask \in [Tasks -> Execs \cup {None}]
  /\ sock      \in [Sockets -> SockState]
  /\ socket    \in Sockets \cup {None}
  /\ connected \in BOOLEAN
  /\ pending   \in BOOLEAN
  /\ reconnect \in BOOLEAN
  /\ run       \in [Execs -> RunState]
  /\ link      \in [Execs -> Sockets \cup {None}]
  /\ stream    \in [Tasks -> Seq(Event)]
  /\ faults    \in 0 .. MaxFaults

Init ==
  /\ exec = [e \in Execs |-> [task |-> None, at |-> "idle", run |-> None,
                              timer |-> FALSE, reply |-> "no"]]
  /\ activeByTask   = [t \in Tasks |-> None]
  /\ taskByRun      = [r \in Execs |-> None]
  /\ fallbackByTask = [t \in Tasks |-> None]
  /\ sock   = [k \in Sockets |-> "closed"]
  /\ socket = None
  /\ connected = FALSE /\ pending = FALSE /\ reconnect = FALSE
  /\ run  = [r \in Execs |-> "none"]
  /\ link = [r \in Execs |-> None]
  /\ stream = [t \in Tasks |-> <<>>]
  /\ faults = 0

-----------------------------------------------------------------------------
Fault == faults < MaxFaults /\ faults' = faults + 1

TaskOf(e) == exec[e].task
Go(e, at) == exec' = [exec EXCEPT ![e].at = at]

Publish(t, type, r) ==
  stream' = [stream EXCEPT ![t] = Append(@, [type |-> type, run |-> r])]

IsOpen(k) == k # None /\ sock[k] \in {"open", "dead"}

\* The entry of a call is in activeByTask.
IsActive(e) == TaskOf(e) # None /\ activeByTask[TaskOf(e)] = e

\* What happens to a call whose entry is removed before and after its promise
\* was settled.
Dropped(e) == [exec[e] EXCEPT !.timer = FALSE,
                 !.run = None, !.at = IF exec[e].at = "sent" THEN "falling" ELSE "over"]

\* Mutant: the entry of a finished task stays in activeByTask.
RemoveTaskKeepsEntry(e) ==
  /\ UNCHANGED activeByTask
  /\ taskByRun' = [r \in Execs |-> IF r = exec[e].run THEN None ELSE taskByRun[r]]

RemoveTask(e) ==
  /\ activeByTask' = [activeByTask EXCEPT ![TaskOf(e)] = None]
  /\ taskByRun' = [r \in Execs |-> IF r = exec[e].run THEN None ELSE taskByRun[r]]

\* A new promise, a new socket and a new connect timer.
OpenSocket ==
  LET k == CHOOSE k \in Sockets : sock[k] = "closed"
  IN  /\ \E free \in Sockets : sock[free] = "closed"
      /\ sock' = [sock EXCEPT ![k] = "opening"]
      /\ socket' = k
      /\ pending' = TRUE
      /\ UNCHANGED connected

\* ensureConnected, when the connection is not usable as it is.
EnsureConnected == IF pending THEN UNCHANGED <<sock, socket, connected, pending>>
                              ELSE OpenSocket

\* The chat.send of executePersistent, with its entry and its timer.
Sent(e, t) ==
  [exec[e] EXCEPT !.task = t, !.at = "sent", !.timer = TRUE]

\* The Gateway is asked for the runs of some calls, and answers on k.
ChatSend(calls, k) ==
  /\ run'  = [e \in Execs |-> IF e \in calls THEN "asked" ELSE run[e]]
  /\ link' = [e \in Execs |-> IF e \in calls THEN k ELSE link[e]]

-----------------------------------------------------------------------------
(* execute and its first attempt.                                          *)

Execute(e, t) ==
  /\ exec[e].at = "idle"
  /\ connected /\ IsOpen(socket)
  /\ exec' = [exec EXCEPT ![e] = Sent(e, t)]
  /\ activeByTask' = [activeByTask EXCEPT ![t] = e]
  /\ IF sock[socket] = "open" THEN ChatSend({e}, socket) ELSE UNCHANGED runVars
  /\ UNCHANGED <<taskByRun, fallbackByTask, linkVars, stream, faults>>

ExecuteConnects(e, t) ==
  /\ exec[e].at = "idle"
  /\ ~(connected /\ IsOpen(socket))
  /\ exec' = [exec EXCEPT ![e].task = t, ![e].at = "connecting"]
  /\ EnsureConnected
  /\ UNCHANGED <<clientVars, reconnect, runVars, stream, faults>>

\* The files of the task cannot be prepared.
PrepareFails(e, t) ==
  /\ exec[e].at = "idle"
  /\ Fault
  /\ exec' = [exec EXCEPT ![e].task = t, ![e].at = "falling"]
  /\ UNCHANGED <<clientVars, linkVars, runVars, stream>>

\* The calls that wait for the connection send their request, each in turn.
ConnectOk(k) ==
  /\ sock[k] = "opening" /\ k = socket
  /\ LET waiting == {e \in Execs : pending /\ exec[e].at = "connecting"}
     IN  /\ exec' = [e \in Execs |->
               IF e \in waiting THEN Sent(e, TaskOf(e)) ELSE exec[e]]
         /\ ChatSend(waiting, k)
         /\ \E last \in [Tasks -> Execs \cup {None}] :
              /\ \A t \in Tasks :
                   LET mine == {e \in waiting : TaskOf(e) = t}
                   IN  last[t] \in IF mine = {} THEN {activeByTask[t]} ELSE mine
              /\ activeByTask' = last
  /\ sock' = [sock EXCEPT ![k] = "open"]
  /\ connected' = TRUE
  /\ pending' = FALSE
  /\ UNCHANGED <<taskByRun, fallbackByTask, socket, reconnect, stream, faults>>

\* Mutant: the promise is dropped and nobody who waits for it is told.
RejectedCallsForgotten == exec

\* rejectCurrentConnection: who waits for the connection falls back.
RejectedCalls ==
  [e \in Execs |-> IF pending /\ exec[e].at = "connecting"
                   THEN [exec[e] EXCEPT !.at = "falling"] ELSE exec[e]]

ConnectRefused(k) ==
  /\ sock[k] = "opening" /\ k = socket
  /\ Fault
  /\ sock' = [sock EXCEPT ![k] = "closing"]
  /\ exec' = RejectedCalls
  /\ pending' = FALSE
  /\ UNCHANGED <<clientVars, socket, connected, reconnect, runVars, stream>>

ConnectTimesOut ==
  /\ pending
  /\ sock' = [sock EXCEPT ![socket] = "closing"]
  /\ exec' = RejectedCalls
  /\ pending' = FALSE
  /\ UNCHANGED <<clientVars, socket, connected, reconnect, runVars, stream, faults>>

\* handleDisconnect with failAll: every entry is rejected or failed.
FailedStream ==
  [t \in Tasks |->
     LET e == activeByTask[t]
     IN  IF connected /\ e # None /\ exec[e].at = "running"
         THEN Append(stream[t], [type |-> "failed", run |-> None])
         ELSE stream[t]]

\* Mutant: connected is cleared before it is looked at, so failAll never runs.
DisconnectForgetsTasks ==
  /\ exec' = RejectedCalls
  /\ connected' = FALSE /\ pending' = FALSE /\ reconnect' = TRUE
  /\ UNCHANGED <<activeByTask, taskByRun, fallbackByTask, socket, stream>>

Disconnect ==
  /\ exec' = [e \in Execs |-> IF connected /\ IsActive(e) THEN Dropped(e)
                                                          ELSE RejectedCalls[e]]
  /\ stream' = FailedStream
  /\ activeByTask' = [t \in Tasks |-> IF connected THEN None ELSE activeByTask[t]]
  /\ taskByRun'    = [r \in Execs |-> IF connected THEN None ELSE taskByRun[r]]
  /\ connected' = FALSE
  /\ pending' = FALSE
  /\ reconnect' = TRUE
  /\ UNCHANGED <<fallbackByTask, socket>>

\* A run answers only on the connection it was asked on.
LoseRuns(k) ==
  /\ run'  = [r \in Execs |-> IF link[r] = k /\ run[r] # "none" THEN "ended" ELSE run[r]]
  /\ link' = [r \in Execs |-> IF link[r] = k THEN None ELSE link[r]]

\* The close event of any connection, this.socket or an older one.  A frame
\* that is not JSON has the same effect: the handler terminates the socket.
SocketCloses(k) ==
  /\ sock[k] # "closed"
  /\ IF sock[k] \in {"closing", "dead"} THEN UNCHANGED faults ELSE Fault
  /\ sock' = [sock EXCEPT ![k] = "closed"]
  /\ Disconnect
  /\ LoseRuns(k)

\* The peer is gone without a close.
LinkDies(k) ==
  /\ sock[k] = "open"
  /\ Fault
  /\ sock' = [sock EXCEPT ![k] = "dead"]
  /\ UNCHANGED <<exec, clientVars, socket, connected, pending, reconnect, runVars, stream>>

\* Two ticks of the heartbeat without a pong between them.
HeartbeatFails ==
  /\ connected /\ socket # None /\ sock[socket] = "dead"
  /\ sock' = [sock EXCEPT ![socket] = "closing"]
  /\ UNCHANGED <<exec, clientVars, socket, connected, pending, reconnect, runVars, stream,
                 faults>>

ReconnectFires ==
  /\ reconnect
  /\ reconnect' = FALSE
  /\ IF connected /\ IsOpen(socket)
     THEN UNCHANGED <<sock, socket, connected, pending>>
     ELSE EnsureConnected
  /\ UNCHANGED <<exec, clientVars, runVars, stream, faults>>

LinkStep ==
  \/ \E k \in Sockets : ConnectOk(k) \/ ConnectRefused(k) \/ SocketCloses(k) \/ LinkDies(k)
  \/ ConnectTimesOut
  \/ HeartbeatFails
  \/ ReconnectFires

-----------------------------------------------------------------------------
(* Frames of a run on the persistent connection.                           *)

RunOver(r) ==
  /\ run'  = [run  EXCEPT ![r] = "ended"]
  /\ link' = [link EXCEPT ![r] = None]

Heard(r) == link[r] # None /\ sock[link[r]] = "open"

\* The response to chat.send carries the task's id, and finds the task's entry.
RunAccepted(r) ==
  LET t == TaskOf(r)
      e == activeByTask[t]
  IN  /\ Heard(r) /\ run[r] = "asked"
      /\ run' = [run EXCEPT ![r] = "running"]
      /\ IF e = None
         THEN UNCHANGED <<exec, taskByRun, stream>>
         ELSE /\ exec' = [exec EXCEPT ![e].at = "running", ![e].run = r,
                                      ![e].reply = "accepted"]
              /\ taskByRun' = [taskByRun EXCEPT ![r] = e]
              /\ Publish(t, "accepted", r)
      /\ UNCHANGED <<activeByTask, fallbackByTask, linkVars, link, faults>>

RunRefused(r) ==
  LET e == activeByTask[TaskOf(r)]
  IN  /\ Heard(r) /\ run[r] = "asked"
      /\ Fault
      /\ RunOver(r)
      /\ IF e = None
         THEN UNCHANGED <<exec, activeByTask, taskByRun>>
         ELSE exec' = [exec EXCEPT ![e] = Dropped(e)] /\ RemoveTask(e)
      /\ UNCHANGED <<fallbackByTask, linkVars, stream>>

\* Mutant: a frame of an unknown run goes to any task there is.
FindActiveAny(r) ==
  IF taskByRun[r] # None THEN {taskByRun[r]} ELSE {e \in Execs : IsActive(e)}

\* findActive: by run, else an entry with the session key of the frame.
FindActive(r) ==
  IF taskByRun[r] # None THEN {taskByRun[r]}
  ELSE {e \in Execs : IsActive(e) /\ SessionOf[TaskOf(e)] = SessionOf[TaskOf(r)]}

RunDelta(r) ==
  /\ Heard(r) /\ run[r] = "running"
  /\ \E e \in FindActive(r) :
       /\ Len(stream[TaskOf(e)]) < MaxEvents
       /\ Publish(TaskOf(e), "delta", r)
  /\ UNCHANGED <<exec, clientVars, linkVars, runVars, faults>>

\* Mutant: an aborted run is published under the Gateway's word for it.
EndTypeRaw(state) == CASE state = "final" -> "completed" [] state = "error" -> "failed"
                       [] OTHER -> state

\* The type of the event that a final, error or aborted frame becomes.
EndType(state) == IF state = "final" THEN "completed" ELSE "failed"

\* Mutant: the end is published and the task stays active, timer and all.
RunEndsKeepsTask(r, state) ==
  /\ Heard(r)
  /\ run[r] = "running" /\ state \in {"final", "error"}
  /\ RunOver(r)
  /\ IF FindActive(r) = {} THEN UNCHANGED stream
     ELSE \E e \in FindActive(r) : Publish(TaskOf(e), EndType(state), r)
  /\ UNCHANGED <<exec, clientVars, linkVars, faults>>

\* The last frame of a run.  A call whose promise is not settled yet loses its
\* entry and its timer, and is never settled.
RunEnds(r, state) ==
  /\ Heard(r)
  /\ \/ run[r] = "running"  /\ state \in {"final", "error"}
     \/ run[r] = "aborting" /\ state = "aborted"
  /\ RunOver(r)
  /\ IF FindActive(r) = {}
     THEN UNCHANGED <<exec, activeByTask, taskByRun, stream>>
     ELSE \E e \in FindActive(r) :
            /\ Publish(TaskOf(e), EndType(state), r)
            /\ exec' = [exec EXCEPT ![e].timer = FALSE, ![e].run = None,
                          ![e].at = IF @ = "sent" THEN "hung" ELSE "over"]
            /\ RemoveTask(e)
  /\ UNCHANGED <<fallbackByTask, linkVars, faults>>

\* Mutant: a timer that fires after acceptance publishes nothing.
TaskTimesOutQuietly(e) ==
  LET held == activeByTask[TaskOf(e)]
  IN  /\ exec[e].timer
      /\ held # None
      /\ exec' = [exec EXCEPT ![e].timer = FALSE, ![held] = Dropped(held)]
      /\ RemoveTask(held)
      /\ UNCHANGED <<fallbackByTask, linkVars, runVars, stream, faults>>

\* The timer of a call ends whichever call holds the task's entry.
TaskTimesOut(e) ==
  LET held == activeByTask[TaskOf(e)]
  IN  /\ exec[e].timer
      /\ IF held = None
         THEN /\ exec' = [exec EXCEPT ![e].timer = FALSE]
              /\ UNCHANGED <<activeByTask, taskByRun, stream>>
         ELSE /\ exec' = [exec EXCEPT ![e].timer = FALSE, ![held] = Dropped(held)]
              /\ IF exec[held].at = "sent" THEN UNCHANGED stream
                 ELSE Publish(TaskOf(e), "failed", None)
              /\ RemoveTask(held)
      /\ UNCHANGED <<fallbackByTask, linkVars, runVars, faults>>

RunStep ==
  \/ \E e \in Execs : \E t \in TasksOf[e] :
       Execute(e, t) \/ ExecuteConnects(e, t) \/ PrepareFails(e, t)
  \/ \E r \in Execs : \/ RunAccepted(r) \/ RunRefused(r) \/ RunDelta(r) \/ TaskTimesOut(r)
                      \/ \E state \in {"final", "error", "aborted"} : RunEnds(r, state)

-----------------------------------------------------------------------------
(* executeGatewayTask: the same task on a connection of its own.           *)

Forget(e) == fallbackByTask' = [fallbackByTask EXCEPT ![TaskOf(e)] = None]

\* The outcome of a call whose fallback is decided.
Settle(e, at, reply) == exec' = [exec EXCEPT ![e].at = at, ![e].reply = reply]

FallbackStarts(e) ==
  /\ exec[e].at = "falling"
  /\ Go(e, "fallback")
  /\ fallbackByTask' = [fallbackByTask EXCEPT ![TaskOf(e)] = e]
  /\ UNCHANGED <<activeByTask, taskByRun, linkVars, runVars, stream, faults>>

\* failBeforeAccepted: refused, broken, closed or timed out.
FallbackToHttp(e) ==
  /\ exec[e].at = "fallback"
  /\ Go(e, "http")
  /\ UNCHANGED <<clientVars, linkVars, runVars, stream, faults>>

FallbackAccepted(e) ==
  /\ exec[e].at = "fallback"
  /\ Settle(e, "fbRunning", "accepted")
  /\ Publish(TaskOf(e), "accepted", e)
  /\ UNCHANGED <<clientVars, linkVars, runVars, faults>>

\* The input cannot be prepared, or the request is refused.
FallbackRefused(e) ==
  /\ exec[e].at \in {"falling", "fallback"}
  /\ Fault
  /\ Settle(e, "over", "failed")
  /\ Forget(e)
  /\ UNCHANGED <<activeByTask, taskByRun, linkVars, runVars, stream>>

HttpFails(e) ==
  /\ exec[e].at = "http"
  /\ Settle(e, "over", "failed")
  /\ Forget(e)
  /\ UNCHANGED <<activeByTask, taskByRun, linkVars, runVars, stream, faults>>

HttpAnswers(e) ==
  LET event(type) == [type |-> type, run |-> e]
  IN  /\ exec[e].at = "http"
      /\ Settle(e, "over", "accepted")
      /\ stream' = [stream EXCEPT ![TaskOf(e)] =
                      @ \o <<event("accepted"), event("delta"), event("completed")>>]
      /\ Forget(e)
      /\ UNCHANGED <<activeByTask, taskByRun, linkVars, runVars, faults>>

FallbackDelta(e) ==
  /\ exec[e].at = "fbRunning"
  /\ Len(stream[TaskOf(e)]) < MaxEvents
  /\ Publish(TaskOf(e), "delta", e)
  /\ UNCHANGED <<exec, clientVars, linkVars, runVars, faults>>

\* A final, error or aborted frame, an error or a close of the connection.
FallbackEnds(e, type) ==
  /\ exec[e].at = "fbRunning"
  /\ type \in {"completed", "failed"}
  /\ Go(e, "over")
  /\ Publish(TaskOf(e), type, e)
  /\ Forget(e)
  /\ UNCHANGED <<activeByTask, taskByRun, linkVars, runVars, faults>>

\* A close with code 1000 after acceptance is taken for a normal end.
FallbackClosedNormally(e) ==
  /\ exec[e].at = "fbRunning"
  /\ Fault
  /\ Go(e, "mute")
  /\ UNCHANGED <<clientVars, linkVars, runVars, stream>>

FallbackStep ==
  \E e \in Execs :
    \/ FallbackStarts(e) \/ FallbackToHttp(e) \/ FallbackAccepted(e)
    \/ FallbackRefused(e) \/ HttpAnswers(e) \/ HttpFails(e) \/ FallbackDelta(e)
    \/ FallbackClosedNormally(e)
    \/ \E type \in {"completed", "failed"} : FallbackEnds(e, type)

-----------------------------------------------------------------------------
(* cancel.                                                                 *)

\* Bound: a task is cancelled once.
NotCancelled(t) == \A i \in DOMAIN stream[t] : stream[t][i].type # "cancelled"

\* chat.abort goes out on the current socket; a promise not settled is rejected.
CancelActive(t) ==
  LET e == activeByTask[t]
  IN  /\ e # None /\ IsOpen(socket) /\ NotCancelled(t)
      /\ run' = [r \in Execs |-> IF /\ r = exec[e].run /\ run[r] = "running"
                                    /\ sock[socket] = "open"
                                 THEN "aborting" ELSE run[r]]
      /\ Publish(t, "cancelled", None)
      /\ exec' = [exec EXCEPT ![e] = Dropped(e)]
      /\ RemoveTask(e)
      /\ UNCHANGED <<fallbackByTask, linkVars, link, faults>>

\* The fallback's cancel: its listeners are removed, its promise is left as it is.
CancelFallback(t) ==
  LET e == fallbackByTask[t]
  IN  /\ activeByTask[t] = None /\ e # None /\ NotCancelled(t)
      /\ Publish(t, "cancelled", None)
      /\ Go(e, CASE exec[e].at = "fallback" -> "hung"
                 [] exec[e].at = "http"     -> "http"
                 [] OTHER                   -> "over")
      /\ Forget(e)
      /\ UNCHANGED <<activeByTask, taskByRun, linkVars, runVars, faults>>

\* The adapter's cancel request; without an entry it is answered 404.
Cancel(t) == CancelActive(t) \/ CancelFallback(t)

Next ==
  \/ RunStep
  \/ LinkStep
  \/ FallbackStep
  \/ \E t \in Cancellable : Cancel(t)

Spec == Init /\ [][Next]_vars

\* Timers fire, the event loop runs, and a request over HTTP ends one way or
\* the other; nothing is asked of the Gateway or of the links.
Fairness ==
  /\ WF_vars(ConnectTimesOut) /\ WF_vars(HeartbeatFails) /\ WF_vars(ReconnectFires)
  /\ \A e \in Execs :
       /\ WF_vars(TaskTimesOut(e))
       /\ WF_vars(FallbackStarts(e) \/ FallbackToHttp(e) \/ HttpAnswers(e) \/ HttpFails(e))

FairSpec == Spec /\ Fairness

-----------------------------------------------------------------------------
(* Properties.                                                             *)

Repeated(t) == \E e, f \in Execs : e # f /\ TaskOf(e) = t /\ TaskOf(f) = t

\* A cancellation before any acceptance: the call it rejects goes on by itself.
CancelledEarly(t) ==
  \E i \in DOMAIN stream[t] :
    /\ stream[t][i].type = "cancelled"
    /\ \A j \in 1 .. i : stream[t][j].type # "accepted"

\* Every entry of activeByTask has a timer of its own still to fire, whoever
\* has overwritten, removed or failed entries before.
ActiveHasTimer ==
  \A t \in Tasks : activeByTask[t] # None => exec[activeByTask[t]].timer

\* No entry outlives the connection it was made on unnoticed: failAll runs
\* whenever connected goes false.
ActiveIsConnected ==
  \A t \in Tasks : activeByTask[t] # None => connected

\* findActive never hands the events of a run to a task of another session.
EventsStayInSession ==
  \A t \in Tasks : \A i \in DOMAIN stream[t] :
    LET r == stream[t][i].run
    IN  r # None => SessionOf[TaskOf(r)] = SessionOf[t]

\* A relay stops at the first end it reads, so the end of a task executed once
\* must be its last event, whichever of the two connections published it.
EndIsLast ==
  \A t \in Tasks :
    Repeated(t) \/ CancelledEarly(t) \/
      \A i \in DOMAIN stream[t] : stream[t][i].type \in Ends => i = Len(stream[t])

\* A call that its task's cancellation or another call has cut off.
CutOff(e) == exec[e].at = "hung" \/ (exec[e].at = "sent" /\ ~IsActive(e))

Unanswered == {e \in Execs : exec[e].at # "idle" /\ exec[e].reply = "no" /\ ~CutOff(e)}

\* The adapter answers every execute request that was not cut off: again and
\* again there is none left to answer.
ExecuteIsAnswered == []<>(Unanswered = {})

Unended ==
  {e \in Execs : /\ exec[e].reply = "accepted" /\ exec[e].at \notin {"fbRunning", "mute"}
                 /\ ~Repeated(TaskOf(e))
                 /\ \A i \in DOMAIN stream[TaskOf(e)] :
                      stream[TaskOf(e)][i].type \notin Ends}

\* A run accepted over the persistent connection comes to an end in the stream
\* of its task, even if neither the Gateway nor the link says anything more.
AcceptedIsEnded == []<>(Unended = {})
=============================================================================

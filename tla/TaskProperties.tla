--------------------------- MODULE TaskProperties ---------------------------
(***************************************************************************)
(* What the task pipeline promises, stated of TaskService.                 *)
(***************************************************************************)
EXTENDS TaskService

\* Every running task has the adapter's stream URL on record, so that
\* onModuleInit can resume its relay after a crash: the URL is stored by the
\* dispatch, but task.accepted also makes a task running.
RunningHasStreamUrl == \A t \in Tasks : status[t] = "running" => hasUrl[t]

\* While the API serves, a queued task is never forgotten: it has a job that
\* will be processed, or a handler is at work that queues or ends it.  Redis
\* and PostgreSQL are written separately, with crashes in between.
Scheduled(t) ==
  \/ job[t] \in {"waiting", "active"}
  \/ enq[t] \in {"add", "failing"}
  \/ call[t]["worker"].at # "idle"
  \/ can[t] = "persist"

QueuedIsScheduled ==
  \A t \in Tasks : api = "up" /\ status[t] = "queued" => Scheduled(t)

\* While the API serves, a running task is attended to: a relay reads its
\* events, or a handler is about to start one or to end the task.  A task that
\* a late task.accepted brought back (TerminalIsFinal) is not meant.  Without a
\* relay nothing would end the task, not even its timer.
NeverEnded(t) == \A i \in DOMAIN log[t] : log[t][i].type \notin Terminal

RunningIsAttended ==
  \A t \in Tasks :
    api = "up" /\ status[t] = "running" /\ NeverEnded(t) =>
      relay[t].at # "off" \/ work[t] = "session" \/ can[t] = "persist"

\* What the relay stored of a task is a prefix of what the adapter published,
\* in order, with no event missing or repeated, across relays that time out,
\* fail, are aborted, or resume after a crash from the last stored id.
Relayed(t) == {i \in DOMAIN log[t] : log[t][i].src > 0}

RelayedInOrder ==
  \A t \in Tasks : \A i \in Relayed(t) :
    LET nth == Cardinality({j \in Relayed(t) : j <= i})
    IN  nth <= Len(stream[t]) /\ log[t][i] = [type |-> stream[t][nth], src |-> nth]

\* The text of a result is the text the adapter published up to the
\* completion that made the result: all of it, in order and nothing twice.
Adding(text) == {j \in DOMAIN text : text[j] > 0}

DeltasUpTo(t, last) == {id \in 1 .. last : stream[t][id] = "delta"}

ResultIsWholeText ==
  \A s \in Sessions : \A i \in DOMAIN results[s] :
    LET r == results[s][i]
    IN  \E last \in DOMAIN stream[r.task] :
          /\ stream[r.task][last] = "completed"
          /\ {r.text[j] : j \in Adding(r.text)} = DeltasUpTo(r.task, last)
          /\ \A j, k \in Adding(r.text) : j < k => r.text[j] < r.text[k]

\* A task is completed only with its result stored, and one of them: the row,
\* its event and its result agree however many callers end the task at once.
CompletedHasOneResult ==
  \A t \in Tasks :
    LET rows == {i \in DOMAIN results[SessionOf[t]] : results[SessionOf[t]][i].task = t}
    IN  /\ status[t] = "completed" => rows # {}
        /\ Cardinality(rows) =
             Cardinality({i \in DOMAIN log[t] : log[t][i].type = "completed"})
        /\ Cardinality(rows) <= 1

\* Of the tasks that have never ended, at most Limit are active: concurrent
\* requests cannot pass the count of enqueueTask together.
UnendedWithinLimit ==
  Cardinality({t \in ActiveTasks : NeverEnded(t)}) <= Limit

\* A task leaves the queue: it is dispatched or it ends, through crashes, lost
\* jobs, and a last attempt whose failure handler dies with the process.
QueuedIsResolved ==
  \A t \in Tasks : (status[t] = "queued") ~> (status[t] # "queued")

\* docs/api.md calls completed, failed and cancelled terminal: a task does
\* not leave one of them.
TerminalIsFinal ==
  [][\A t \in Tasks : status[t] \in Terminal => status'[t] = status[t]]_vars

\* docs/api.md: cancel is "Cancel queued or running work".  Once the cancelled
\* task has no handler at work on it any more, the Gateway works on it no more.
CancelStopsRun ==
  \A t \in Tasks :
    /\ status[t] = "cancelled"
    /\ work[t] = "idle"
    /\ can[t] = "idle"
    /\ relay[t].at = "off"
    /\ faults = 0
    => runs[t] = 0

=============================================================================

----------------------------- MODULE ClientStream -----------------------------
(***************************************************************************)
(* How a conversation reaches the screen: stored events are published to   *)
(* the hub, TaskStreamController replays them and goes live, the app's     *)
(* stream client reconnects with the last id, taskStore applies what comes *)
(* and the effect of ConversationScreen opens and closes subscriptions.    *)
(*                                                                         *)
(* An event's id is allocated when its row is inserted, before the commit. *)
(* React 19 runs the effect before the next callback, so every change of   *)
(* the store takes its effect with it.  One API instance, without Redis.   *)
(***************************************************************************)
EXTENDS Integers, Sequences, FiniteSets, SequencesExt

CONSTANTS
  N,           (* The tasks are 1 .. N, in the order of the user's requests. *)
  MaxLog,      (* Bound: events of the first task.                           *)
  MaxLater,    (* Bound: events of a later task.                             *)
  RetryLimit,  (* Reconnections without an event before the client gives up. *)
  MaxFaults,   (* Bound: crashes of the API, lost connections, failed calls. *)
  CrashCost,   (* What a crash counts for, to keep instances small.          *)
  MaxActs,     (* Bound: what the user does.                                 *)
  Acts         (* The kinds of user action a run has.                        *)

ASSUME BoundsAssumption ==
  /\ N \in Nat \ {0} /\ MaxLog \in Nat \ {0} /\ MaxLater \in 1 .. MaxLog /\ RetryLimit \in Nat
  /\ MaxFaults \in Nat /\ CrashCost \in Nat \ {0} /\ MaxActs \in Nat

Tasks   == 1 .. N
NoTask  == 0
Ends    == {"completed", "failed", "cancelled"}
Active  == {"queued", "running"}
Ids     == 1 .. MaxLog
LogBound(t) == IF t = 1 THEN MaxLog ELSE MaxLater

VARIABLES
  created,  (* Tasks in the order their rows were created.                   *)
  root,     (* The first task of the session of each task.                   *)
  current,  (* currentTaskId of the session with that first task.            *)
  log,      (* The events of a task by id; "void" was rolled back.           *)
  posting,  (* Events on their way: inserted, committed, not yet published.  *)
  conn,     (* The connection of the newest subscription, at the API.        *)
  sub,      (* The screen's subscription.                                    *)
  seen,     (* The ids the newest subscription has handed to the store.      *)
  store,    (* currentTaskId, currentStatus and how often the screen shows   *)
            (* each event's text.                                            *)
  mounted,  (* ConversationScreen is shown.                                  *)
  asks,     (* Requests for a task under way.                                *)
  news,     (* The answer to the app's read of tasks or history, on its way. *)
  cancels,  (* For each task, whether a cancel request is under way.         *)
  asked,    (* How many tasks the user has asked for.                        *)
  faults, acts

apiVars    == <<created, root, current, log, posting>>
screenVars == <<conn, sub, seen, store, mounted>>
askVars    == <<asks, news, cancels, asked>>
vars == <<apiVars, screenVars, askVars, faults, acts>>

EventType == {"accepted", "delta", "void"} \cup Ends
Post == [id : Ids, stored : BOOLEAN, by : {"relay", "other"}]
Conn ==
  [at : {"none", "reading", "read", "live", "done"},
   task : Tasks \cup {NoTask}, snapshot : SUBSET Ids, queue : SUBSET Ids,
   sent : 0 .. MaxLog, listens : BOOLEAN, wire : Seq(Ids)]
Sub    == [task : Tasks \cup {NoTask}, waits : BOOLEAN, lastId : 0 .. MaxLog, retries : 0 .. RetryLimit]
Text   == [Tasks -> [Ids -> Nat]]
Shown  == Active \cup Ends \cup {"none"}
Store  == [task : Tasks \cup {NoTask}, status : Shown, text : Text]
News   == [kind : {"none", "active", "detail"}, task : Tasks \cup {NoTask}, status : Shown, text : Text]
Ask    == [task : Tasks, parent : Tasks \cup {NoTask}, at : {"asked", "created", "lost"}]

NoConn == [at |-> "none", task |-> NoTask, snapshot |-> {}, queue |-> {}, sent |-> 0,
           listens |-> FALSE, wire |-> <<>>]
SeenOf(t) == [task |-> t, ids |-> <<>>]
NoSub  == [task |-> NoTask, waits |-> FALSE, lastId |-> 0, retries |-> 0]
NoText == [t \in Tasks |-> [i \in Ids |-> 0]]
NoNews == [kind |-> "none", task |-> NoTask, status |-> "none", text |-> NoText]
EmptyStore == [task |-> NoTask, status |-> "none", text |-> NoText]

TypeOK ==
  /\ created \in Seq(Tasks) /\ root \in [Tasks -> Tasks \cup {NoTask}]
  /\ current \in [Tasks -> Tasks \cup {NoTask}]
  /\ log \in [Tasks -> Seq(EventType)] /\ \A t \in Tasks : Len(log[t]) <= MaxLog
  /\ posting \in [Tasks -> SUBSET Post]
  /\ conn \in Conn /\ sub \in Sub
  /\ seen \in [task : Tasks \cup {NoTask}, ids : Seq(Ids)]
  /\ store \in Store /\ mounted \in BOOLEAN
  /\ asks \subseteq Ask /\ asked \in 0 .. N
  /\ cancels \in [Tasks -> {"none", "asked", "lost"}]
  /\ news \in News
  /\ conn # NoConn => conn.task = sub.task

Init ==
  /\ created = <<>> /\ root = [t \in Tasks |-> NoTask] /\ current = [t \in Tasks |-> NoTask]
  /\ log = [t \in Tasks |-> <<>>] /\ posting = [t \in Tasks |-> {}]
  /\ conn = NoConn /\ sub = NoSub /\ seen = SeenOf(NoTask)
  /\ store = EmptyStore /\ mounted = FALSE
  /\ asks = {} /\ news = NoNews /\ cancels = [t \in Tasks |-> "none"] /\ asked = 0
  /\ faults = 0 /\ acts = 0

-----------------------------------------------------------------------------
(* What the API's tables say.                                              *)

IsCreated(t) == t \in ToSet(created)
Committed(t) ==
  {i \in DOMAIN log[t] :
     log[t][i] # "void" /\ \A p \in posting[t] : p.id = i => p.stored}
EndIds(t)  == {i \in Committed(t) : log[t][i] \in Ends}
HasEnd(t)  == EndIds(t) # {}
DeltaIds(t) == {i \in Committed(t) : log[t][i] = "delta"}

Status(t) ==
  IF HasEnd(t) THEN log[t][CHOOSE i \in EndIds(t) : TRUE]
  ELSE IF \E i \in Committed(t) : log[t][i] = "accepted" THEN "running" ELSE "queued"

\* The places of a session's tasks in created.
TurnsOf(t) == {i \in DOMAIN created : root[created[i]] = root[t]}

\* The latest of some tasks, given by their places in created.
Latest(places) == created[Max(places)]

\* getHistoryTask: the session's current task, the status of its latest task,
\* and the results of those that completed.
Detail(t) ==
  LET done == {u \in Tasks : root[u] = root[t] /\ Status(u) = "completed"}
  IN  [kind |-> "detail", task |-> current[root[t]], status |-> Status(Latest(TurnsOf(t))),
       text |-> [u \in Tasks |-> [i \in Ids |-> IF u \in done /\ i \in DeltaIds(u) THEN 1 ELSE 0]]]

\* listActiveTasks, newest first, of which the app takes the first.
NewestActive ==
  LET up == {i \in DOMAIN created : Status(created[i]) \in Active}
  IN  IF up = {} THEN [NoNews EXCEPT !.kind = "active"]
      ELSE [NoNews EXCEPT !.kind = "active", !.task = Latest(up), !.status = Status(Latest(up))]

-----------------------------------------------------------------------------
(* The screen.                                                             *)

\* TaskEventHub.subscribe: the hub has the controller's listener.
Subscribe(c) == [c EXCEPT !.listens = TRUE]

\* The stream is asked for after an id, and the controller subscribes first.
AskFor(t, after) ==
  Subscribe([NoConn EXCEPT !.at = "reading", !.task = t, !.sent = after])

\* Mutant: a screen that is left keeps its connection.
RenderedLeaks(st, mo, su, co, se) ==
  LET moved == mo /\ (~mounted \/ <<st.task, st.status>> # <<store.task, store.status>>)
      opens == moved /\ st.task # NoTask /\ st.status \in Active
  IN  /\ store' = st /\ mounted' = mo
      /\ sub'  = IF opens THEN [NoSub EXCEPT !.task = st.task]
                 ELSE IF moved \/ ~mo THEN NoSub ELSE su
      /\ conn' = IF opens THEN AskFor(st.task, 0) ELSE IF moved THEN NoConn ELSE co
      /\ seen' = IF opens THEN SeenOf(st.task)
                 ELSE IF (moved \/ ~mo) /\ se = seen THEN SeenOf(NoTask) ELSE se

\* The store becomes st and the conversation is shown or not, and the effect
\* runs if it changed the task or its status: its cleanup closes the subscription,
\* and an active task gets a new one, which knows no event id.  Otherwise what
\* the handler made of subscription, connection and seen stands.
Rendered(st, mo, su, co, se) ==
  LET moved == mo /\ (~mounted \/ <<st.task, st.status>> # <<store.task, store.status>>)
      opens == moved /\ st.task # NoTask /\ st.status \in Active
  IN  /\ store' = st /\ mounted' = mo
      /\ sub'  = IF opens THEN [NoSub EXCEPT !.task = st.task]
                 ELSE IF moved \/ ~mo THEN NoSub ELSE su
      /\ conn' = IF opens THEN AskFor(st.task, 0) ELSE IF moved \/ ~mo THEN NoConn ELSE co
      /\ seen' = IF opens THEN SeenOf(st.task)
                 ELSE IF (moved \/ ~mo) /\ se = seen THEN SeenOf(NoTask) ELSE se

Shows(st, mo) == Rendered(st, mo, sub, conn, seen)

\* What a message of the assistant grows by; it does not look at event ids.
AppendAssistantDelta(text, t, ids) ==
  LET times(i) == Cardinality({j \in DOMAIN ids : ids[j] = i /\ log[t][i] = "delta"})
  IN  [text EXCEPT ![t] = [i \in Ids |-> text[t][i] + times(i)]]

\* applyStreamEvent, of the events of a batch one after the other.
Apply(st, t, ids) ==
  LET e == log[t][Last(ids)]
  IN  [task |-> t, status |-> IF e \in Ends THEN e ELSE "running",
       text |-> AppendAssistantDelta(st.text, t, ids)]

-----------------------------------------------------------------------------
(* Events are stored and published.                                        *)

Inserts(t, by, e) ==
  /\ IsCreated(t) /\ ~HasEnd(t) /\ Len(log[t]) < LogBound(t)
  /\ \A p \in posting[t] : p.by # by
  /\ log' = [log EXCEPT ![t] = Append(@, e)]
  /\ posting' = [posting EXCEPT ![t] =
       @ \cup {[id |-> Len(log[t]) + 1, stored |-> by = "relay", by |-> by]}]
  /\ UNCHANGED <<created, root, screenVars, askVars, faults, acts>>

\* The relay stores and publishes the adapter's events one after the other; its
\* transactions are one step here, for only the other's insert and commit have
\* to be apart.  The last id of a bounded log is left to an end.
RelayStores(t) ==
  \E e \in {"accepted", "delta", "completed"} :
    /\ e = "accepted" <=> \A i \in DOMAIN log[t] : log[t][i] # "accepted"
    /\ e = "completed" => \A i \in DOMAIN log[t] : log[t][i] \notin Ends
    /\ e # "completed" => Len(log[t]) < LogBound(t) - 1
    /\ Inserts(t, "relay", e)
    /\ current' = IF e = "completed" THEN [current EXCEPT ![root[t]] = t] ELSE current

\* A cancel request or a failed handler ends the task beside the relay.  Two ends
\* at once are TaskEvents' subject.
OtherInserts(t) ==
  \E e \in {"failed", "cancelled"} :
    /\ e = "cancelled" => cancels[t] = "asked"
    /\ \A i \in DOMAIN log[t] : log[t][i] \notin Ends
    /\ Inserts(t, "other", e)
    /\ UNCHANGED current

OtherCommits(t, p) ==
  /\ p \in posting[t] /\ ~p.stored
  /\ posting' = [posting EXCEPT ![t] = (@ \ {p}) \cup {[p EXCEPT !.stored = TRUE]}]
  /\ UNCHANGED <<created, root, current, log, screenVars, askVars, faults, acts>>

\* Some events in the order of their ids.
InOrder(ids) ==
  {s \in [1 .. Cardinality(ids) -> ids] : \A i, j \in DOMAIN s : i < j => s[i] < s[j]}

\* The connection once it has sent these, which ends it if there is an end among them.
Sent(c, ids) ==
  LET ended == \E i \in ids : log[c.task][i] \in Ends
  IN  {[c EXCEPT !.wire = @ \o sends, !.sent = IF sends = <<>> THEN @ ELSE Last(sends),
                 !.at = IF ended THEN "done" ELSE @, !.listens = @ /\ ~ended] :
         sends \in InOrder(ids)}

\* Of some events, those before the first end and the end.
UpToEnd(t, ids) == {i \in ids : \A j \in ids : j < i => log[t][j] \notin Ends}

\* Mutant: emit does not look at the ids it has sent.
EmitAll(c, ids) == Sent(c, UpToEnd(c.task, ids))

\* emit, of some events in the order of their ids: what is not beyond the last
\* id sent is dropped, and the stream is completed with the first end.
Emit(c, ids) == Sent(c, UpToEnd(c.task, {i \in ids : i > c.sent}))

\* publish and deliver: the listener queues or emits, and the hub forgets the
\* task's listeners with a completed or failed task, but not a cancelled one.
Publish(t, p) ==
  /\ p \in posting[t] /\ p.stored
  /\ posting' = [posting EXCEPT ![t] = @ \ {p}]
  /\ IF ~conn.listens \/ conn.task # t THEN UNCHANGED conn
     ELSE \E told \in IF conn.at = "live" THEN Emit(conn, {p.id})
                                          ELSE {[conn EXCEPT !.queue = @ \cup {p.id}]} :
            conn' = [told EXCEPT !.listens = @ /\ log[t][p.id] \notin {"completed", "failed"}]
  /\ UNCHANGED <<created, root, current, log, sub, seen, store, mounted, askVars, faults, acts>>

-----------------------------------------------------------------------------
(* The stream of a subscription.                                           *)

ListEvents ==
  /\ conn.at = "reading"
  /\ conn' = [conn EXCEPT !.at = "read", !.snapshot = {i \in Committed(conn.task) : i > conn.sent}]
  /\ UNCHANGED <<apiVars, sub, seen, store, mounted, askVars, faults, acts>>

\* Mutant: live events that came during the replay are forgotten.
ReplayOnly ==
  /\ conn.at = "read"
  /\ conn' \in Emit([conn EXCEPT !.at = "live", !.snapshot = {}, !.queue = {}], conn.snapshot)
  /\ UNCHANGED <<apiVars, sub, seen, store, mounted, askVars, faults, acts>>

\* The replay and the queued live events, and from then on live events.
Replay ==
  /\ conn.at = "read"
  /\ conn' \in Emit([conn EXCEPT !.at = "live", !.snapshot = {}, !.queue = {}],
                   conn.snapshot \cup conn.queue)
  /\ UNCHANGED <<apiVars, sub, seen, store, mounted, askVars, faults, acts>>

\* flush: the events that have come, up to the first end.
Flush(k) ==
  LET ids == SubSeq(conn.wire, 1, k)
  IN  /\ \A i \in 1 .. k - 1 : log[sub.task][conn.wire[i]] \notin Ends
      /\ Rendered(Apply(store, sub.task, ids), mounted,
                  [sub EXCEPT !.lastId = Last(ids), !.retries = 0],
                  [conn EXCEPT !.wire = SubSeq(@, k + 1, Len(@))],
                  [seen EXCEPT !.ids = @ \o ids])
      /\ UNCHANGED <<apiVars, askVars, faults, acts>>

SetTaskError == [store EXCEPT !.status = "failed"]

\* Mutant: a client that gives up says nothing.
LostQuietly ==
  IF sub.retries < RetryLimit
  THEN /\ sub' = [sub EXCEPT !.waits = TRUE, !.retries = @ + 1]
       /\ conn' = NoConn
       /\ UNCHANGED <<seen, store, mounted>>
  ELSE sub' = NoSub /\ conn' = NoConn /\ UNCHANGED <<seen, store, mounted>>

\* retry: a timer, or after enough attempts without an event, onError.
Lost ==
  IF sub.retries < RetryLimit
  THEN /\ sub' = [sub EXCEPT !.waits = TRUE, !.retries = @ + 1]
       /\ conn' = NoConn
       /\ UNCHANGED <<seen, store, mounted>>
  ELSE Rendered(SetTaskError, mounted, NoSub, NoConn, seen)

\* The connection breaks, the token has expired, or the events cannot be read.
ConnectionLost ==
  /\ conn.at # "none" /\ faults < MaxFaults
  /\ faults' = faults + 1
  /\ Lost
  /\ UNCHANGED <<apiVars, askVars, acts>>

\* Mutant: the client asks for what follows the event after its last one.
ReconnectBeyond ==
  /\ sub.waits
  /\ sub' = [sub EXCEPT !.waits = FALSE]
  /\ conn' = AskFor(sub.task, sub.lastId + 1)
  /\ UNCHANGED <<apiVars, seen, store, mounted, askVars, faults, acts>>

Reconnect ==
  /\ sub.waits
  /\ sub' = [sub EXCEPT !.waits = FALSE]
  /\ conn' = AskFor(sub.task, sub.lastId)
  /\ UNCHANGED <<apiVars, seen, store, mounted, askVars, faults, acts>>

\* The API restarts: open transactions are rolled back, events that were not
\* yet published never are, connections and requests break.
Crash ==
  /\ faults' = faults + CrashCost /\ faults' <= MaxFaults
  /\ log' = [t \in Tasks |-> [i \in DOMAIN log[t] |->
               IF \E p \in posting[t] : p.id = i /\ ~p.stored THEN "void" ELSE log[t][i]]]
  /\ posting' = [t \in Tasks |-> {}]
  /\ asks' = {[a EXCEPT !.at = "lost"] : a \in asks}
  /\ cancels' = [t \in Tasks |-> IF cancels[t] = "asked" THEN "lost" ELSE cancels[t]]
  /\ IF conn.at = "none" THEN UNCHANGED screenVars ELSE Lost
  /\ UNCHANGED <<created, root, current, news, asked, acts>>

-----------------------------------------------------------------------------
(* What the user does, and the answers.                                    *)

UserActs(kind) == kind \in Acts /\ acts < MaxActs /\ acts' = acts + 1

AsksFor(parent) ==
  /\ asked < N /\ asked' = asked + 1
  /\ asks' = asks \cup {[task |-> asked + 1, parent |-> parent, at |-> "asked"]}
  /\ UNCHANGED <<apiVars, news, cancels, faults>>

\* beginConversation, on the home screen.
Start ==
  /\ UserActs("start") /\ ~mounted
  /\ AsksFor(NoTask)
  /\ Shows([EmptyStore EXCEPT !.status = "queued"], TRUE)

\* Until the answer comes, what is shown has no task.
AppendFollowUp == [store EXCEPT !.task = NoTask, !.status = "queued"]

\* sendMessage: a follow-up of the task shown, or a task of its own.
SendMessage ==
  /\ UserActs("send") /\ mounted
  /\ AsksFor(store.task)
  /\ Shows(AppendFollowUp, TRUE)

\* retryTask: the failed task stays the current one until the answer comes.
RetryTask ==
  /\ UserActs("retry") /\ mounted /\ store.status = "failed" /\ store.task # NoTask
  /\ AsksFor(store.task)
  /\ Shows([store EXCEPT !.status = "queued"], TRUE)

CancelCurrentTask ==
  /\ UserActs("cancel") /\ mounted /\ store.status \in Active /\ store.task # NoTask
  /\ cancels' = [cancels EXCEPT ![store.task] = "asked"]
  /\ UNCHANGED <<apiVars, screenVars, asks, news, asked, faults>>

Leave ==
  /\ UserActs("leave") /\ mounted
  /\ Shows(store, FALSE)
  /\ UNCHANGED <<apiVars, askVars, faults>>

\* The app comes to the foreground; a conversation is opened from the history
\* or from a notification.
Foreground ==
  /\ UserActs("foreground") /\ news = NoNews
  /\ news' = NewestActive
  /\ UNCHANGED <<apiVars, screenVars, asks, cancels, asked, faults>>

OpenConversation ==
  /\ UserActs("open") /\ news = NoNews
  /\ \E t \in ToSet(created) : news' = Detail(t)
  /\ UNCHANGED <<apiVars, screenVars, asks, cancels, asked, faults>>

\* The access token goes: reset, and the login screen.
SignOut ==
  /\ UserActs("signout")
  /\ Shows(EmptyStore, FALSE)
  /\ news' = NoNews
  /\ UNCHANGED <<apiVars, asks, cancels, asked, faults>>

Create(a) ==
  /\ a \in asks /\ a.at = "asked"
  /\ created' = Append(created, a.task)
  /\ root' = [root EXCEPT ![a.task] = IF a.parent = NoTask THEN a.task ELSE root[a.parent]]
  /\ current' = [current EXCEPT ![root'[a.task]] = a.task]
  /\ asks' = (asks \ {a}) \cup {[a EXCEPT !.at = "created"]}
  /\ UNCHANGED <<log, posting, screenVars, news, cancels, asked, faults, acts>>

\* Mutant: setExecutionMeta leaves the status of what was shown.
AnsweredKeepsStatus(a) ==
  /\ a \in asks /\ a.at = "created"
  /\ asks' = asks \ {a}
  /\ Shows([store EXCEPT !.task = a.task], mounted)
  /\ UNCHANGED <<apiVars, news, cancels, asked, faults, acts>>

\* setExecutionMeta, whatever is shown by then; failed when it was not enqueued.
TaskAnswered(a) ==
  /\ a \in asks /\ a.at = "created"
  /\ asks' = asks \ {a}
  /\ \E st \in {"queued"} \cup ({Status(a.task)} \cap {"failed"}) :
       Shows([store EXCEPT !.task = a.task, !.status = st], mounted)
  /\ UNCHANGED <<apiVars, news, cancels, asked, faults, acts>>

TaskRefused(a) ==
  /\ a \in asks
  /\ faults' = IF a.at = "lost" THEN faults ELSE faults + 1
  /\ faults' <= MaxFaults
  /\ asks' = asks \ {a}
  /\ Shows(SetTaskError, mounted)
  /\ UNCHANGED <<apiVars, news, cancels, asked, acts>>

\* The screen closes its subscription and marks what it shows as cancelled.
CancelAnswered(t) ==
  /\ cancels[t] = "asked" /\ HasEnd(t)
  /\ cancels' = [cancels EXCEPT ![t] = "none"]
  /\ Rendered([store EXCEPT !.status = "cancelled"], mounted, NoSub, NoConn, seen)
  /\ UNCHANGED <<apiVars, asks, news, asked, faults, acts>>

CancelRefused(t) ==
  /\ cancels[t] = "lost"
  /\ cancels' = [cancels EXCEPT ![t] = "none"]
  /\ Shows(SetTaskError, mounted)
  /\ UNCHANGED <<apiVars, asks, news, asked, faults, acts>>

\* taskStore.recoverActiveTask: the task is shown from its beginning, unless it is
\* the current one already.
RecoverActiveTask(t, status) ==
  IF t = store.task THEN store ELSE [task |-> t, status |-> status, text |-> NoText]

\* An active task is shown; without one, the history of the current task is read.
NewsOfActive ==
  /\ news.kind = "active"
  /\ \/ /\ news.task # NoTask
        /\ news' = NoNews
        /\ Shows(RecoverActiveTask(news.task, news.status), TRUE)
     \/ /\ news.task = NoTask
        /\ news' = IF store.task = NoTask THEN NoNews ELSE Detail(store.task)
        /\ UNCHANGED screenVars
  /\ UNCHANGED <<apiVars, asks, cancels, asked, faults, acts>>

\* hydrateServerConversation.
NewsOfDetail ==
  /\ news.kind = "detail"
  /\ news' = NoNews
  /\ Shows([task |-> news.task, status |-> news.status, text |-> news.text], TRUE)
  /\ UNCHANGED <<apiVars, asks, cancels, asked, faults, acts>>

-----------------------------------------------------------------------------
EventStep ==
  \/ \E t \in Tasks : RelayStores(t) \/ OtherInserts(t)
  \/ \E t \in Tasks : \E p \in posting[t] : OtherCommits(t, p) \/ Publish(t, p)
StreamStep ==
  \/ ListEvents \/ Replay
  \/ \E k \in 1 .. Len(conn.wire) : Flush(k)
  \/ Reconnect
FaultStep == ConnectionLost \/ Crash
UserStep ==
  \/ Start \/ SendMessage \/ RetryTask \/ CancelCurrentTask
  \/ Leave \/ Foreground \/ OpenConversation \/ SignOut
AnswerStep ==
  \/ \E a \in asks : Create(a) \/ TaskAnswered(a) \/ TaskRefused(a)
  \/ \E t \in Tasks : CancelAnswered(t) \/ CancelRefused(t)
  \/ NewsOfActive \/ NewsOfDetail

Next == EventStep \/ StreamStep \/ FaultStep \/ UserStep \/ AnswerStep
Spec == Init /\ [][Next]_vars

\* Transactions end and are published, and the two ends of a connection go on
\* with what has come; nobody has to use the app.
Progress ==
  \/ \E t \in Tasks : \E p \in posting[t] : OtherCommits(t, p) \/ Publish(t, p)
  \/ StreamStep

FairSpec == Spec /\ WF_vars(Progress)

-----------------------------------------------------------------------------
\* Within a subscription the store is given every event at most once and in the
\* order of the ids, over reconnections and from the replay to the live events.
SeenInOrder ==
  \A i, j \in DOMAIN seen.ids : i < j => seen.ids[i] < seen.ids[j]

\* A stream that ends with task.completed has left nothing out: replay, live
\* events and reconnections fit together, through crashes.  An end stored beside
\* the relay may overtake the relay's last event; nothing else is skipped.
Skipped ==
  {i \in Committed(seen.task) : i < Last(seen.ids) /\ i \notin ToSet(seen.ids)}

NothingSkipped ==
  seen.ids # <<>> =>
    \/ Skipped = {}
    \/ /\ log[seen.task][Last(seen.ids)] \in {"failed", "cancelled"}
       /\ Skipped = {Last(seen.ids) - 1}
    \/ \E i \in Skipped : log[seen.task][i] \in {"failed", "cancelled"}

\* A task that the screen shows at work is followed: there is one subscription,
\* to that task, connected or about to reconnect.
LiveTaskIsFollowed ==
  mounted /\ store.task # NoTask /\ store.status \in Active =>
    sub.task = store.task /\ (sub.waits \/ conn.at # "none")

\* The screen says that a task is completed only if a turn of its conversation is,
\* also when what it shows comes from a read that has long been overtaken.
CompletedIsStored ==
  store.task # NoTask /\ store.status = "completed" =>
    \E u \in Tasks : root[u] = root[store.task] /\ Status(u) = "completed"

\* A subscription to a task that has ended comes to its end, or to giving up:
\* nobody waits for a terminal event that was sent before.  An end that a later
\* id of the relay overtakes (hazard: the stream drops it) is not meant.
Overtaken(t) == \E i \in EndIds(t) : i < Len(log[t])

Waiting == sub.task # NoTask /\ HasEnd(sub.task) /\ ~Overtaken(sub.task)

FollowedEnds == []<>~Waiting

\* docs/api.md: a client that reconnects sends Last-Event-ID and the "replay
\* continues after that ID": what the conversation shows has no text twice.
TextShownOnce ==
  \A t \in Tasks, i \in Ids : store.text[t][i] <= 1

=============================================================================

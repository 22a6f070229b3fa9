------------------------------ MODULE FileStore ------------------------------
(***************************************************************************)
(* The files of one user: uploads from the app's pending attachments, the  *)
(* rows and the stored objects, the tasks that refer to files, the results *)
(* archived for tasks, the deletions that the user, the cleanup timer and  *)
(* the deletion of a conversation run concurrently, and the user's storage *)
(* quota.  A step is one statement or transaction of the database, or one  *)
(* call to the object store; reads that nothing can come between go with   *)
(* the step that follows.                                                  *)
(***************************************************************************)
EXTENDS Integers, FiniteSets

CONSTANTS
  MaxFiles,         (* Bound: uploads the user starts.                       *)
  MaxTasks,         (* Bound: tasks the user asks for.                       *)
  MaxArtifacts,     (* Bound: results the relay archives.                    *)
  StorageLimit,     (* USER_STORAGE_BYTES; every item has size 1.            *)
  ConcurrentLimit,  (* USER_CONCURRENT_TASK_LIMIT                            *)
  MaxEvents         (* Bound: requests of the user, failed calls and crashes *)
                    (* of the API in a behaviour, together.                  *)

ASSUME LimitsAssumption ==
  StorageLimit \in Nat /\ ConcurrentLimit \in Nat
ASSUME BoundsAssumption ==
  MaxFiles \in Nat /\ MaxTasks \in Nat /\ MaxArtifacts \in Nat /\ MaxEvents \in Nat

VARIABLES
  file,     (* The status of the File rows.                                  *)
  object,   (* What the object store holds for an item.                      *)
  upload,   (* How far the upload of a file has come.                        *)
  pending,  (* The app's pendingAttachments; each shows how its upload is.   *)
  task,     (* The task rows with their TaskFile rows, and enqueueTask.      *)
  art,      (* The ResultArtifact rows and the archiving of results.         *)
  job,      (* The deletions under way.                                      *)
  struck,   (* Items whose object a deletion has removed.                    *)
  stray,    (* Objects the API has lost sight of.                            *)
  events    (* Requests and faults so far.                                   *)

vars == <<file, object, upload, pending, task, art, job, struck, stray, events>>

\* Uploads, tasks and archived results are numbered in the order they begin.
None      == 0
Files     == 1 .. MaxFiles
Artifacts == MaxFiles + 1 .. MaxFiles + MaxArtifacts
Tasks     == 1 .. MaxTasks
Items     == Files \cup Artifacts
Jobs     == {"user", "timer", "history"}
TimerStages == {"files", "artifacts", "unreferenced"}
Active   == {"queued", "running"}
Ended    == {"completed", "failed"}  \* A cancelled task counts as failed.
HasRow   == Active \cup Ended
Kept     == {"row", "linked"}

FileStates   == {"none", "uploading", "uploaded", "failed", "deleted"}
UploadStates == {"idle", "put", "complete", "uploaded", "failed"}
TaskStates   == {"none", "create", "refused", "deleted"} \cup HasRow
ArtStates    == {"none", "put", "undo", "lost", "deleted"} \cup Kept
Stages       == {"idle", "session"} \cup TimerStages

TaskRows ==
  [st : TaskStates, session : Tasks,
   asked  : SUBSET Files,   (* The files of the request.      *)
   files  : SUBSET Files,   (* Its TaskFile rows.             *)
   doomed : SUBSET Files]   (* Those already being deleted.   *)
ArtRows   == [st : ArtStates, task : Tasks \cup {None}]
Deletions == [stage : Stages, todo : SUBSET Items, item : Items \cup {None},
              session : Tasks \cup {None}]

TypeOK ==
  /\ file    \in [Files -> FileStates]
  /\ object  \in [Items -> {"none", "good", "bad"}]
  /\ upload  \in [Files -> UploadStates]
  /\ pending \in SUBSET Files
  /\ task    \in [Tasks -> TaskRows]
  /\ art     \in [Artifacts -> ArtRows]
  /\ job     \in [Jobs -> Deletions]
  /\ struck  \in SUBSET Items
  /\ stray   \in SUBSET Items
  /\ events  \in 0 .. MaxEvents

Idle == [stage |-> "idle", todo |-> {}, item |-> None, session |-> None]

Init ==
  /\ file    = [f \in Files |-> "none"]
  /\ object  = [i \in Items |-> "none"]
  /\ upload  = [f \in Files |-> "idle"]
  /\ pending = {}
  /\ task    = [t \in Tasks |-> [st |-> "none", session |-> t, asked |-> {}, files |-> {},
                                 doomed |-> {}]]
  /\ art     = [a \in Artifacts |-> [st |-> "none", task |-> None]]
  /\ job     = [j \in Jobs |-> Idle]
  /\ struck = {} /\ stray = {} /\ events = 0

Event == events < MaxEvents /\ events' = events + 1

\* The user asks for something.
Request == Event

\* A call fails, or the API stops.
Fault == Event

-----------------------------------------------------------------------------
(* What the queries of the API select.                                       *)

Counted == {f \in Files : file[f] \in {"uploading", "uploaded"}}
Archived == {a \in Artifacts : art[a].st \in Kept}

\* Mutant: the sum leaves the archived results out.
UsedBytesOfFiles == Cardinality(Counted)

\* The bytes that count against the quota: the files that have not failed and
\* the archived results.
UsedBytes == Cardinality(Counted) + Cardinality(Archived)

Referenced(f) == \E t \in Tasks : task[t].st \in HasRow /\ f \in task[t].files

\* The lists that deletions read.  How old a row is is not modelled: the lists
\* are of those that may have outlived their retention, 24 hours for an upload
\* that did not complete and for a result, a week for an uploaded file.  No call
\* and no upload URL lasts as long.
InUpload(f) == upload[f] \in {"put", "complete"}

\* Mutant: an upload that was refused is not given up.
UploadingFiles == {f \in Files : file[f] = "uploading" /\ ~InUpload(f) /\ ~Referenced(f)}

\* Uploads that never completed.
StaleFiles ==
  {f \in Files : file[f] \in {"uploading", "failed"} /\ ~InUpload(f) /\ ~Referenced(f)}

\* Mutant: a file that a task refers to is taken too.
UnreferencedFilesAll == {f \in Files : file[f] = "uploaded"}

\* Uploaded files that no task refers to.
UnreferencedFiles == {f \in Files : file[f] = "uploaded" /\ ~Referenced(f)}

\* Results archived for tasks that then failed or were cancelled.
AbandonedArtifacts ==
  {a \in Artifacts : art[a].st = "row" /\ task[art[a].task].st = "failed"}

ActiveTasks == {t \in Tasks : task[t].st \in Active}
InSession(s) == {t \in Tasks : task[t].st \in HasRow /\ task[t].session = s}

-----------------------------------------------------------------------------
(* An upload.                                                                *)

BeginPending(f)  == pending' = pending \cup {f}
RemovePending(f) == pending' = pending \ {f}

\* The app's attachment shows how its upload ended.
SettlePending(f, st) == upload' = [upload EXCEPT ![f] = st]

\* inspectObject finds the object that was announced.
Inspected(f) == object[f] = "good"

\* createUploadUrl, for a file the user picks: the app shows it as uploading;
\* under the storage lock there is a row for it, or a refusal.
Attach(f) ==
  /\ Request
  /\ upload[f] = "idle" /\ \A g \in Files : g < f => upload[g] # "idle"
  /\ BeginPending(f)
  /\ IF UsedBytes + 1 > StorageLimit
       THEN SettlePending(f, "failed") /\ UNCHANGED file
       ELSE /\ file'   = [file EXCEPT ![f] = "uploading"]
            /\ upload' = [upload EXCEPT ![f] = "put"]
  /\ UNCHANGED <<object, task, art, job, struck, stray>>

\* Signing the URL fails: the reservation is given back.
SignFails(f) ==
  /\ upload[f] = "put" /\ Fault
  /\ file'   = [file EXCEPT ![f] = "failed"]
  /\ upload' = [upload EXCEPT ![f] = "failed"]
  /\ UNCHANGED <<object, pending, task, art, job, struck, stray>>

\* The app puts the file.
PutObject(f) ==
  /\ upload[f] = "put"
  /\ object' = [object EXCEPT ![f] = "good"]
  /\ upload' = [upload EXCEPT ![f] = "complete"]
  /\ UNCHANGED <<file, pending, task, art, job, struck, stray, events>>

\* What the app puts is not what it announced.
PutAnother(f) ==
  /\ upload[f] = "put" /\ Fault
  /\ object' = [object EXCEPT ![f] = "bad"]
  /\ upload' = [upload EXCEPT ![f] = "complete"]
  /\ UNCHANGED <<file, pending, task, art, job, struck, stray>>

\* The put fails at the app, whether or not the object was stored.
PutFails(f) ==
  /\ upload[f] = "put" /\ Fault
  /\ \E o \in {"none", "good"} : object' = [object EXCEPT ![f] = o]
  /\ SettlePending(f, "failed")
  /\ UNCHANGED <<file, pending, task, art, job, struck, stray>>

\* Mutant: the object's metadata is not compared.
CompleteUnchecked(f) ==
  /\ upload[f] = "complete"
  /\ file'   = [file EXCEPT ![f] = "uploaded"]
  /\ upload' = [upload EXCEPT ![f] = "uploaded"]
  /\ UNCHANGED <<object, pending, task, art, job, struck, stray, events>>

\* Mutant: a refused file is answered like any other.
CompleteAnyway(f) ==
  /\ upload[f] = "complete"
  /\ file'   = [file EXCEPT ![f] = IF Inspected(f) THEN "uploaded" ELSE "failed"]
  /\ upload' = [upload EXCEPT ![f] = "uploaded"]
  /\ UNCHANGED <<object, pending, task, art, job, struck, stray, events>>

\* completeUpload: the object is inspected and the row marked uploaded, or failed
\* when the object is not the one announced.  Nobody else changes the row of an
\* upload under way.
CompleteUpload(f) ==
  LET st == IF Inspected(f) THEN "uploaded" ELSE "failed"
  IN  /\ upload[f] = "complete"
      /\ file' = [file EXCEPT ![f] = st]
      /\ SettlePending(f, st)
      /\ UNCHANGED <<object, pending, task, art, job, struck, stray, events>>

\* The call fails at the app, before or after the row is marked.
CompleteFails(f) ==
  /\ upload[f] = "complete" /\ Fault
  /\ \E st \in {file[f], IF Inspected(f) THEN "uploaded" ELSE "failed"} :
       file' = [file EXCEPT ![f] = st]
  /\ SettlePending(f, "failed")
  /\ UNCHANGED <<object, pending, task, art, job, struck, stray>>

\* deleteFile: a file that no task refers to.  Its object and row follow.
DeleteFile(f) ==
  /\ job["user"] = Idle
  /\ file[f] # "deleted" /\ ~Referenced(f)
  /\ job' = [job EXCEPT !["user"].stage = "files", !["user"].todo = {f}]

\* The user removes an attachment; the conversation screen also deletes a file
\* whose upload has completed, the home screen never does.
RemoveAttachment(f, deletes) ==
  /\ Request
  /\ f \in pending
  /\ RemovePending(f)
  /\ IF deletes THEN upload[f] = "uploaded" /\ DeleteFile(f) ELSE UNCHANGED job
  /\ UNCHANGED <<file, object, upload, task, art, struck, stray>>

-----------------------------------------------------------------------------
(* A task of the user's, as far as files go.                                 *)

Unused(t) == task[t].st = "none" /\ \A u \in Tasks : u < t => task[u].st # "none"

\* A request or a task that is over: what it asked for no longer matters.
Over(t, st) == [task[t] EXCEPT !.st = st, !.asked = {}, !.doomed = {}]

\* createFollowUp: there is a task to follow in the session.
HasParent(session) == InSession(session) # {}

\* What a message carries: the files of the attachments that show as uploaded.
Ready == {f \in pending : upload[f] = "uploaded"}

\* Mutant: only a follow-up is given a session.
SendWithoutSession(t, session) ==
  /\ Request
  /\ Unused(t)
  /\ session = t \/ HasParent(session)
  /\ task' = [task EXCEPT ![t].st = "create", ![t].asked = Ready,
                          ![t].session = IF session = t THEN None ELSE session]
  /\ pending' = {}
  /\ UNCHANGED <<file, object, upload, art, job, struck, stray>>

\* The app sends a message, or asks for a follow-up in the session of an
\* earlier task; it forgets the attachments.  enqueueTask reads the files.
Send(t, session) ==
  /\ Request
  /\ Unused(t)
  /\ session = t \/ HasParent(session)
  /\ task' = [task EXCEPT ![t] =
       IF \A f \in Ready : file[f] = "uploaded"
         THEN [task[t] EXCEPT !.session = session, !.asked = Ready, !.st = "create"]
         ELSE Over(t, "refused")]
  /\ pending' = {}
  /\ UNCHANGED <<file, object, upload, art, job, struck, stray>>

\* regenerate asks with the files of the task it repeats.
Regenerate(t, source) ==
  /\ Request
  /\ Unused(t) /\ task[source].st \in HasRow
  /\ task' = [task EXCEPT ![t].session = task[source].session, ![t].asked = task[source].files,
                          ![t].st = "create"]
  /\ UNCHANGED <<file, object, upload, pending, art, job, struck, stray>>

\* The files that a deletion has chosen by now, or has taken the object of.
BeingDeleted == struck \cup UNION {job[j].todo : j \in Jobs}

\* The transaction that creates a task refuses it at the concurrent limit, when
\* its session is gone, and when the row of one of its files is gone.
CanCreate(t) ==
  /\ Cardinality(ActiveTasks) < ConcurrentLimit
  /\ task[t].session = t \/ InSession(task[t].session) # {}
  /\ \A f \in task[t].asked : file[f] = "uploaded"

CreateTask(t) ==
  /\ task[t].st = "create"
  /\ IF CanCreate(t)
       THEN task' = [task EXCEPT ![t].st = "queued", ![t].files = task[t].asked,
                                 ![t].doomed = task[t].asked \cap BeingDeleted]
       ELSE task' = [task EXCEPT ![t] = Over(t, "refused")]
  /\ UNCHANGED <<file, object, upload, pending, art, job, struck, stray, events>>

\* processQueuedTask: every file of the task has the object that was completed.
Start(t) ==
  /\ task[t].st = "queued"
  /\ \A f \in task[t].files : Inspected(f)
  /\ task' = [task EXCEPT ![t].st = "running"]
  /\ UNCHANGED <<file, object, upload, pending, art, job, struck, stray, events>>

\* The task fails (its files' integrity, the gateway, the timeout) or the user
\* cancels it.
Fail(t) ==
  /\ task[t].st \in Active
  /\ task' = [task EXCEPT ![t] = Over(t, "failed")]
  /\ UNCHANGED <<file, object, upload, pending, art, job, struck, stray, events>>

Archiving(t) == \E a \in Artifacts : art[a].task = t /\ art[a].st \in {"put", "undo"}

\* task.completed: the results archived for the task become part of it.  The
\* relay stores one event at a time, the completion after the results.
Complete(t) ==
  /\ task[t].st = "running" /\ ~Archiving(t)
  /\ task' = [task EXCEPT ![t] = Over(t, "completed")]
  /\ art'  = [a \in Artifacts |-> IF art[a].task = t /\ art[a].st = "row"
                                    THEN [art[a] EXCEPT !.st = "linked"] ELSE art[a]]
  /\ UNCHANGED <<file, object, upload, pending, job, struck, stray, events>>

-----------------------------------------------------------------------------
(* Archiving a result.                                                       *)

NextArtifact(a) ==
  art[a].st = "none" /\ \A b \in Artifacts : b < a => art[b].st # "none"

\* The relay receives a result and puts its object.
ArchivePut(a, t) ==
  /\ NextArtifact(a) /\ task[t].st = "running" /\ ~Archiving(t)
  /\ art'    = [art EXCEPT ![a].st = "put", ![a].task = t]
  /\ object' = [object EXCEPT ![a] = "good"]
  /\ UNCHANGED <<file, upload, pending, task, job, struck, stray, events>>

\* The put fails at the API although the object was stored: nobody knows of it.
ArchivePutLost(a, t) ==
  /\ NextArtifact(a) /\ task[t].st = "running" /\ ~Archiving(t) /\ Fault
  /\ art'    = [art EXCEPT ![a].st = "lost", ![a].task = t]
  /\ object' = [object EXCEPT ![a] = "good"]
  /\ stray'  = stray \cup {a}
  /\ UNCHANGED <<file, upload, pending, task, job, struck>>

\* Under the storage lock: the row, unless the quota is used up or the task's
\* row is gone.
ArchiveCommit(a) ==
  /\ art[a].st = "put"
  /\ art' = [art EXCEPT ![a].st =
       IF UsedBytes + 1 <= StorageLimit /\ task[art[a].task].st \in HasRow
         THEN "row" ELSE "undo"]
  /\ UNCHANGED <<file, object, upload, pending, task, job, struck, stray, events>>

\* The object of a result that was not recorded is deleted.
ArchiveUndo(a) ==
  /\ art[a].st = "undo"
  /\ art'    = [art EXCEPT ![a].st = "deleted"]
  /\ object' = [object EXCEPT ![a] = "none"]
  /\ UNCHANGED <<file, upload, pending, task, job, struck, stray, events>>

\* ... or that deletion fails, which is ignored.
ArchiveUndoFails(a) ==
  /\ art[a].st = "undo" /\ Fault
  /\ art'   = [art EXCEPT ![a].st = "lost"]
  /\ stray' = stray \cup {a}
  /\ UNCHANGED <<file, object, upload, pending, task, job, struck>>

-----------------------------------------------------------------------------
(* Deletions: each reads its list, then takes the items one at a time, the   *)
(* object first and the row after it.                                        *)

\* deleteHistoryTask: the session has no active task; its results are listed.
DeleteHistory(s) ==
  /\ Request
  /\ job["history"] = Idle
  /\ InSession(s) # {} /\ InSession(s) \cap ActiveTasks = {}
  /\ job' = [job EXCEPT !["history"] =
       [stage |-> "artifacts", item |-> None, session |-> s,
        todo  |-> {a \in Archived : task[art[a].task].session = s}]]
  /\ UNCHANGED <<file, object, upload, pending, task, art, struck, stray>>

\* Mutant: the row goes first, the object after it.
DeleteObjectLast(j) ==
  /\ job[j].item = None
  /\ \E i \in job[j].todo \cap Files :
       /\ job'  = [job EXCEPT ![j].item = i]
       /\ file' = [file EXCEPT ![i] = "deleted"]
  /\ UNCHANGED <<object, upload, pending, task, art, struck, stray, events>>

\* The object of the next item is deleted.
DeleteObject(j) ==
  /\ job[j].item = None
  /\ \E i \in job[j].todo :
       /\ job'    = [job EXCEPT ![j].item = i]
       /\ object' = [object EXCEPT ![i] = "none"]
       /\ struck' = struck \cup {i}
  /\ UNCHANGED <<file, upload, pending, task, art, stray, events>>

\* Its deletion fails: the whole deletion is given up.
DeleteObjectFails(j) ==
  /\ job[j].item = None /\ job[j].todo # {} /\ Fault
  /\ job' = [job EXCEPT ![j] = Idle]
  /\ UNCHANGED <<file, object, upload, pending, task, art, struck, stray>>

\* The row follows, with the TaskFile rows that refer to it.  The deletion of a
\* conversation leaves the rows of its results to the session's.  A row that is
\* gone makes the whole deletion fail.
DeleteRow(j) ==
  LET i == job[j].item
      present == \/ i \in Files /\ file[i] # "deleted"
                 \/ i \in Artifacts /\ art[i].st \in Kept
      next == [job EXCEPT ![j].item = None, ![j].todo = @ \ {i}]
  IN  /\ i # None
      /\ IF job[j].stage = "artifacts" /\ j = "history"
           THEN job' = next /\ UNCHANGED <<file, task, art, struck>>
           ELSE IF ~present
           THEN job' = [job EXCEPT ![j] = Idle] /\ UNCHANGED <<file, task, art, struck>>
           ELSE /\ job'  = next
                /\ struck' = struck \ {i}
                /\ file' = [f \in Files |-> IF f = i THEN "deleted" ELSE file[f]]
                /\ task' = [t \in Tasks |-> [task[t] EXCEPT !.files = @ \ {i}]]
                /\ art'  = [a \in Artifacts |-> IF a = i THEN [art[a] EXCEPT !.st = "deleted"]
                                                         ELSE art[a]]
      /\ UNCHANGED <<object, upload, pending, stray, events>>

GoOn(j, stage, todo) ==
  job' = [job EXCEPT ![j] = [Idle EXCEPT !.stage = stage, !.todo = todo,
                                         !.session = job[j].session]]

\* A deletion has taken every item of the list it read last.
Listed(j) == job[j].stage # "idle" /\ job[j].todo = {} /\ job[j].item = None

\* The lists of the cleanup timer, in the order it reads them.
TimerList(stage) ==
  CASE stage = "files" -> StaleFiles
    [] stage = "artifacts" -> AbandonedArtifacts
    [] stage = "unreferenced" -> UnreferencedFiles

Later == [idle |-> TimerStages, files |-> {"artifacts", "unreferenced"},
          artifacts |-> {"unreferenced"}, unreferenced |-> {}]

\* cleanupStaleFiles: the timer has fired or is done with a list, and finds
\* something to delete in one of the lists that follow.
TimerTakes(stage, old) ==
  /\ job["timer"] = Idle \/ Listed("timer")
  /\ stage \in Later[job["timer"].stage]
  /\ old \subseteq TimerList(stage) /\ old # {}
  /\ GoOn("timer", stage, old)
  /\ UNCHANGED <<file, object, upload, pending, task, art, struck, stray, events>>

\* The deletion of a conversation ends with the unreferenced files.
HistoryTakes(old) ==
  /\ job["history"].stage = "session"
  /\ old \subseteq UnreferencedFiles /\ old # {}
  /\ GoOn("history", "unreferenced", old)
  /\ UNCHANGED <<file, object, upload, pending, task, art, struck, stray, events>>

\* A deletion is done.
JobEnds(j) ==
  /\ Listed(j) /\ (j = "history" => job[j].stage # "artifacts")
  /\ job' = [job EXCEPT ![j] = Idle]
  /\ UNCHANGED <<file, object, upload, pending, task, art, struck, stray, events>>

\* The objects of its results are gone: the session's row is deleted, and with
\* it its tasks, their TaskFile rows and the rows of their results.  The object
\* of a result recorded since the list was read is lost sight of.
DeleteSession ==
  LET gone == InSession(job["history"].session)
      results == {a \in Archived : art[a].task \in gone}
  IN  /\ Listed("history") /\ job["history"].stage = "artifacts"
      /\ task'  = [t \in Tasks |-> IF t \in gone
                     THEN [Over(t, "deleted") EXCEPT !.files = {}] ELSE task[t]]
      /\ art'   = [a \in Artifacts |-> IF a \in results
                     THEN [art[a] EXCEPT !.st = "deleted"] ELSE art[a]]
      /\ stray' = stray \cup {a \in results : object[a] # "none"}
      /\ GoOn("history", "session", {})
      /\ UNCHANGED <<file, object, upload, pending, struck, events>>

-----------------------------------------------------------------------------
\* The API stops and starts: the calls of an upload that it has not answered and
\* the request for a task end in an error at the app, the deletions stop where
\* they are, and a result being archived is forgotten.
Crash ==
  LET open == {a \in Artifacts : art[a].st \in {"put", "undo"}}
  IN  /\ Fault
      /\ \E cut \in SUBSET {f \in Files : InUpload(f)} :
           upload' = [f \in Files |-> IF f \in cut THEN "failed" ELSE upload[f]]
      /\ task'   = [t \in Tasks |-> IF task[t].st = "create"
                                       THEN Over(t, "refused") ELSE task[t]]
      /\ art'    = [a \in Artifacts |-> IF a \in open THEN [art[a] EXCEPT !.st = "lost"]
                                                      ELSE art[a]]
      /\ stray'  = stray \cup open
      /\ job'    = [j \in Jobs |-> Idle]
      /\ UNCHANGED <<file, object, pending, struck>>

-----------------------------------------------------------------------------
UploadSteps(f) ==
  \/ SignFails(f) \/ PutObject(f) \/ PutAnother(f) \/ PutFails(f)
  \/ CompleteUpload(f) \/ CompleteFails(f)

TaskSteps(t) ==
  \/ CreateTask(t) \/ Start(t) \/ Complete(t) \/ Fail(t)

ArchiveSteps(a) ==
  \/ \E t \in Tasks : ArchivePut(a, t) \/ ArchivePutLost(a, t)
  \/ ArchiveCommit(a) \/ ArchiveUndo(a) \/ ArchiveUndoFails(a)

JobSteps(j) == DeleteObject(j) \/ DeleteObjectFails(j) \/ DeleteRow(j) \/ JobEnds(j)

UserSteps ==
  \/ \E f \in Files : Attach(f) \/ \E d \in BOOLEAN : RemoveAttachment(f, d)
  \/ \E t, s \in Tasks : Send(t, s) \/ Regenerate(t, s)
  \/ \E s \in Tasks : DeleteHistory(s)

Next ==
  \/ UserSteps
  \/ \E f \in Files : UploadSteps(f)
  \/ \E t \in Tasks : TaskSteps(t)
  \/ \E a \in Artifacts : ArchiveSteps(a)
  \/ \E j \in Jobs : JobSteps(j)
  \/ \E old \in SUBSET Items : HistoryTakes(old) \/ \E st \in TimerStages : TimerTakes(st, old)
  \/ DeleteSession \/ Crash

Spec == Init /\ [][Next]_vars

\* What goes on by itself: the calls of an upload, and the timer, which fires again
\* and again, so that what is there to be deleted is old enough at some time.  The
\* user need do nothing, no other deletion need get on, and nothing need fail.
FairSpec ==
  /\ Spec
  /\ WF_vars(\E f \in Files : UploadSteps(f))
  /\ WF_vars(JobSteps("timer"))
  /\ SF_vars(TimerTakes("files", StaleFiles))
  /\ SF_vars(TimerTakes("artifacts", AbandonedArtifacts))

-----------------------------------------------------------------------------
(* The user's files and results never use more than the storage quota,       *)
(* whatever uploads and archivings run at once and whatever fails: both sum  *)
(* under the same lock (createUploadUrl, archiveResultArtifact).             *)
WithinQuota ==
  LET held == {f \in Files : file[f] \in {"uploading", "uploaded"}} \cup Archived
  IN  Cardinality(held) <= StorageLimit

Uploaded == {f \in Files : file[f] = "uploaded"}

(* A file that can be attached and a result that can be downloaded have the  *)
(* object that was checked, unless a deletion has taken it: no order of      *)
(* completion, failure and cleanup leaves a usable row without one.          *)
RowHasObject == \A i \in (Uploaded \cup Archived) \ struck : object[i] = "good"

(* An object is never left behind without a row that leads to it, except     *)
(* those of results that were cut off while being archived, whose put or     *)
(* whose removal failed, or which were recorded while their conversation was *)
(* being deleted.  The object of an upload never is, crashes included.       *)
ObjectHasRow ==
  /\ \A f \in Files : object[f] # "none" => file[f] \notin {"none", "deleted"}
  /\ \A a \in Artifacts \ stray : object[a] # "none" => art[a].st \in Kept \cup {"put", "undo"}

(* A task that is waiting or running still has the files it was created      *)
(* with, rows and objects, unless a deletion had already chosen the file     *)
(* when the task was created (deleteFile and the cleanups read the           *)
(* references first and delete afterwards, without a lock).                  *)
AttachedIsKept ==
  \A t \in ActiveTasks : \A f \in task[t].asked \ task[t].doomed :
    f \in task[t].files /\ file[f] = "uploaded" /\ object[f] = "good"

(* What the app shows as uploaded, and will send with the next message, is   *)
(* a file the API accepts, until the retention has passed.                   *)
PendingIsUsable ==
  \A f \in Ready : file[f] \in {"uploaded", "deleted"}

(* What an upload that never completed and a result of a task that failed    *)
(* or was cancelled hold of the quota is given back in the end: the cleanup  *)
(* timer removes them (cleanupStaleFiles), whatever deletion runs beside it  *)
(* and wherever a crash or a failing object store stops one.                 *)
AbandonedIsRemoved ==
  /\ \A f \in Files : file[f] \in {"uploading", "failed"}
                        ~> file[f] \in {"uploaded", "deleted"}
  /\ \A a \in Artifacts :
       (art[a].st = "row" /\ task[art[a].task].st = "failed")
         ~> art[a].st = "deleted"
=============================================================================

--------------------------- MODULE FileStoreProofs ---------------------------
(***************************************************************************)
(* The user's storage quota for every number of files, tasks, results and  *)
(* events and for every limit: what FileStore.tla checks on a small        *)
(* instance as WithinQuota.                                                *)
(*                                                                         *)
(* The sum is compared with the limit only where it grows, when a row is   *)
(* reserved for an upload and when a result is recorded.  That it grows    *)
(* nowhere else is what the invariant is for: the end of an upload writes  *)
(* its row without looking at it, so the row of an upload under way must   *)
(* still be the reservation, and no deletion may have taken it.            *)
(***************************************************************************)
EXTENDS FileStore, FiniteSetTheorems, TLAPS

\* The row of an upload under way is its reservation; one that was not started
\* has no row.
ReservationKept ==
  \A f \in Files :
    /\ InUpload(f) => file[f] = "uploading"
    /\ upload[f] = "idle" => file[f] = "none"

\* A deletion takes only files whose upload is over.
DeletesSettled ==
  \A j \in Jobs : \A f \in Files :
    f \in job[j].todo \/ job[j].item = f => upload[f] \in {"uploaded", "failed"}

QuotaInv == UsedBytes <= StorageLimit

\* An upload that ended well has a row that may be attached, until it is deleted.
UploadedIsUsable ==
  \A f \in Files : upload[f] = "uploaded" => file[f] \in {"uploaded", "deleted"}

\* A deletion takes only results that were recorded; none is recorded before its
\* object is there.
Recorded == Kept \cup {"deleted"}
DeletesRecorded ==
  \A j \in Jobs : \A a \in Artifacts :
    a \in job[j].todo \/ job[j].item = a => art[a].st \in Recorded
PutHasObject == \A a \in Artifacts : art[a].st = "put" => object[a] = "good"

\* The item that a deletion is at is still on its list, and has no object.
ItemIsListed == \A j \in Jobs : job[j].item # None => job[j].item \in job[j].todo
ItemIsGone   == \A j \in Jobs, i \in Items : job[j].item = i => object[i] = "none"

\* The files of a task that no deletion had chosen are chosen by none.
AttachedIsSafe ==
  \A t \in ActiveTasks : \A f \in task[t].asked \ task[t].doomed :
    f \in task[t].files /\ file[f] = "uploaded" /\ f \notin BeingDeleted

Inv ==
  /\ TypeOK /\ ReservationKept /\ DeletesSettled /\ QuotaInv
  /\ UploadedIsUsable /\ DeletesRecorded /\ PutHasObject /\ RowHasObject
  /\ ItemIsListed /\ ItemIsGone /\ ObjectHasRow /\ AttachedIsSafe

-----------------------------------------------------------------------------
(* Types.                                                                    *)

LEMMA NumbersApart ==
  /\ Files \subseteq Nat \ {None} /\ Artifacts \subseteq Nat \ {None}
  /\ None \notin Items /\ Files \cap Artifacts = {} /\ Files \subseteq Items /\ Artifacts \subseteq Items
BY BoundsAssumption DEF Files, Artifacts, Items, None

\* What one field of a row may become.
LEMMA TaskRowType ==
  ASSUME NEW r \in TaskRows
  PROVE  /\ \A st \in TaskStates : [r EXCEPT !.st = st] \in TaskRows
         /\ \A s \in Tasks : [r EXCEPT !.session = s] \in TaskRows
         /\ \A F \in SUBSET Files : /\ [r EXCEPT !.asked  = F] \in TaskRows
                                   /\ [r EXCEPT !.files  = F] \in TaskRows
                                   /\ [r EXCEPT !.doomed = F] \in TaskRows
BY DEF TaskRows

LEMMA ArtRowType ==
  ASSUME NEW r \in ArtRows
  PROVE  /\ \A st \in ArtStates : [r EXCEPT !.st = st] \in ArtRows
         /\ \A t \in Tasks : [r EXCEPT !.task = t] \in ArtRows
BY DEF ArtRows

LEMMA DeletionType ==
  ASSUME NEW d \in Deletions
  PROVE  /\ \A st \in Stages : [d EXCEPT !.stage = st] \in Deletions
         /\ \A S \in SUBSET Items : [d EXCEPT !.todo = S] \in Deletions
         /\ \A i \in Items \cup {None} : [d EXCEPT !.item = i] \in Deletions
         /\ \A s \in Tasks \cup {None} : [d EXCEPT !.session = s] \in Deletions
BY DEF Deletions

\* Nothing is being deleted, and a deletion has a list.
LEMMA IdleType ==
  /\ Idle \in Deletions
  /\ \A stage \in Stages, S \in SUBSET Items, s \in Tasks \cup {None} :
       [stage |-> stage, item |-> None, session |-> s, todo |-> S] \in Deletions
BY DEF Deletions, Idle, Stages

LEMMA InitType == Init => TypeOK
<1> SUFFICES ASSUME Init
             PROVE  TypeOK
  OBVIOUS
<1>1. file \in [Files -> FileStates] /\ upload \in [Files -> UploadStates]
  BY DEF Init, FileStates, UploadStates
<1>2. task \in [Tasks -> TaskRows]
  BY DEF Init, TaskRows, TaskStates
<1>3. art \in [Artifacts -> ArtRows]
  BY DEF Init, ArtRows, ArtStates
<1>4. job \in [Jobs -> Deletions]
  BY IdleType DEF Init
<1> QED
  BY <1>1, <1>2, <1>3, <1>4, BoundsAssumption DEF Init, TypeOK

\* A request and a fault are counted up to the bound.
LEMMA EventType ==
  ASSUME TypeOK, Request \/ Fault
  PROVE  events' \in 0 .. MaxEvents
BY BoundsAssumption DEF TypeOK, Request, Fault, Event

\* A step of an upload keeps the types.
LEMMA UploadType ==
  ASSUME TypeOK, NEW f \in Files, Attach(f) \/ UploadSteps(f)
  PROVE  TypeOK'
<1> USE DEF FileStates, UploadStates
<1>0. f \in Items
  BY NumbersApart
<1>1. CASE Attach(f)
  BY <1>1, EventType DEF TypeOK, Attach, BeginPending, SettlePending
<1>2. CASE SignFails(f)
  BY <1>2, EventType DEF TypeOK, SignFails
<1>3. CASE PutObject(f) \/ PutAnother(f) \/ PutFails(f)
  BY <1>0, <1>3, EventType DEF TypeOK, PutObject, PutAnother, PutFails, SettlePending
<1>4. CASE CompleteUpload(f)
  BY <1>4 DEF TypeOK, CompleteUpload, SettlePending
<1>5. CASE CompleteFails(f)
  BY <1>5, EventType DEF TypeOK, CompleteFails, SettlePending
<1> QED
  BY <1>1, <1>2, <1>3, <1>4, <1>5 DEF UploadSteps

\* So does the removal of an attachment, and of its file.
LEMMA RemoveType ==
  ASSUME TypeOK, NEW f \in Files, NEW deletes \in BOOLEAN, RemoveAttachment(f, deletes)
  PROVE  TypeOK'
<1>1. job' \in [Jobs -> Deletions]
  <2>1. CASE DeleteFile(f)
    <3>1. [[Idle EXCEPT !.stage = "files"] EXCEPT !.todo = {f}] \in Deletions
      BY IdleType, DeletionType, NumbersApart DEF Stages, TimerStages
    <3>2. job' = [job EXCEPT !["user"] = [[Idle EXCEPT !.stage = "files"] EXCEPT !.todo = {f}]]
      BY <2>1 DEF TypeOK, DeleteFile, Jobs
    <3> QED
      BY <3>1, <3>2 DEF TypeOK
  <2>2. CASE UNCHANGED job
    BY <2>2 DEF TypeOK
  <2> QED
    BY <2>1, <2>2 DEF RemoveAttachment
<1> QED
  BY <1>1, EventType DEF TypeOK, RemoveAttachment, RemovePending

\* A request or a task that is over keeps its session and files.
LEMMA OverType ==
  ASSUME TypeOK, NEW t \in Tasks, NEW st \in TaskStates
  PROVE  Over(t, st) \in TaskRows
<1>1. task[t] \in TaskRows
  BY DEF TypeOK
<1>2. [task[t] EXCEPT !.st = st] \in TaskRows
  BY <1>1, TaskRowType
<1>3. [[task[t] EXCEPT !.st = st] EXCEPT !.asked = {}] \in TaskRows
  BY <1>2, TaskRowType
<1> QED
  BY <1>3, TaskRowType DEF Over

\* One task's row is set.
LEMMA SetTaskType ==
  ASSUME TypeOK, NEW t \in Tasks, NEW r \in TaskRows
  PROVE  [task EXCEPT ![t] = r] \in [Tasks -> TaskRows]
BY DEF TypeOK

LEMMA AskType ==
  ASSUME TypeOK, NEW t \in Tasks, NEW s \in Tasks, Send(t, s) \/ Regenerate(t, s)
  PROVE  TypeOK'
<1>0. task[t] \in TaskRows /\ task[s] \in TaskRows
  BY DEF TypeOK
<1>1. {"create", "refused"} \subseteq TaskStates
  BY DEF TaskStates
<1>2. CASE Send(t, s)
  <2>1. Ready \in SUBSET Files
    BY DEF TypeOK, Ready
  <2>2. [[[task[t] EXCEPT !.session = s] EXCEPT !.asked = Ready] EXCEPT !.st = "create"]
          \in TaskRows
    BY <1>0, <1>1, <2>1 DEF TaskRows
  <2>3. Over(t, "refused") \in TaskRows
    BY <1>1, OverType
  <2>4. task' \in [Tasks -> TaskRows]
    BY <1>2, <2>2, <2>3, SetTaskType DEF Send
  <2> QED
    BY <1>2, <2>4, EventType DEF TypeOK, Send
<1>3. CASE Regenerate(t, s)
  <2>1. [[[task[t] EXCEPT !.session = task[s].session] EXCEPT !.asked = task[s].files]
           EXCEPT !.st = "create"] \in TaskRows
    BY <1>0, <1>1 DEF TaskRows
  <2>2. task' = [task EXCEPT ![t] =
          [[[task[t] EXCEPT !.session = task[s].session] EXCEPT !.asked = task[s].files]
             EXCEPT !.st = "create"]]
    BY <1>3 DEF Regenerate, TypeOK
  <2> QED
    BY <1>3, <2>1, <2>2, SetTaskType, EventType DEF TypeOK, Regenerate
<1> QED
  BY <1>2, <1>3

LEMMA TaskType ==
  ASSUME TypeOK, NEW t \in Tasks, TaskSteps(t)
  PROVE  TypeOK'
<1>0. task[t] \in TaskRows
  BY DEF TypeOK
<1>1. {"queued", "running", "completed", "failed", "refused"} \subseteq TaskStates
  BY DEF TaskStates, HasRow, Active, Ended
<1>2. CASE CreateTask(t)
  <2>1. [[[task[t] EXCEPT !.st = "queued"] EXCEPT !.files = task[t].asked]
           EXCEPT !.doomed = task[t].asked \cap BeingDeleted] \in TaskRows
    BY <1>0, <1>1 DEF TaskRows
  <2>2. task' \in [Tasks -> TaskRows]
    <3>1. CASE CanCreate(t)
      <4>1. task' = [task EXCEPT ![t] =
              [[[task[t] EXCEPT !.st = "queued"] EXCEPT !.files = task[t].asked]
                 EXCEPT !.doomed = task[t].asked \cap BeingDeleted]]
        BY <1>2, <3>1 DEF CreateTask, TypeOK
      <4> QED
        BY <2>1, <4>1, SetTaskType
    <3>2. CASE ~CanCreate(t)
      BY <1>1, <1>2, <3>2, OverType, SetTaskType DEF CreateTask
    <3> QED
      BY <3>1, <3>2
  <2> QED
    BY <1>2, <2>2 DEF TypeOK, CreateTask
<1>3. CASE Start(t)
  <2>1. [task[t] EXCEPT !.st = "running"] \in TaskRows
    BY <1>0, <1>1, TaskRowType
  <2> QED
    BY <1>3, <2>1, SetTaskType DEF TypeOK, Start
<1>4. CASE Fail(t)
  <2>1. task' \in [Tasks -> TaskRows]
    BY <1>1, <1>4, OverType, SetTaskType DEF Fail
  <2> QED
    BY <1>4, <2>1 DEF TypeOK, Fail
<1>5. CASE Complete(t)
  <2>1. task' \in [Tasks -> TaskRows]
    BY <1>1, <1>5, OverType, SetTaskType DEF Complete
  <2>2. "linked" \in ArtStates
    BY DEF ArtStates, Kept
  <2>3. \A a \in Artifacts : [art[a] EXCEPT !.st = "linked"] \in ArtRows
    BY <2>2, ArtRowType DEF TypeOK
  <2>4. art' \in [Artifacts -> ArtRows]
    BY <1>5, <2>3 DEF TypeOK, Complete
  <2> QED
    BY <1>5, <2>1, <2>4 DEF TypeOK, Complete
<1> QED
  BY <1>2, <1>3, <1>4, <1>5 DEF TaskSteps

\* The row of one result is set.
LEMMA SetArtType ==
  ASSUME TypeOK, NEW a \in Artifacts, NEW r \in ArtRows
  PROVE  [art EXCEPT ![a] = r] \in [Artifacts -> ArtRows]
BY DEF TypeOK

LEMMA ArchiveType ==
  ASSUME TypeOK, NEW a \in Artifacts, ArchiveSteps(a)
  PROVE  TypeOK'
<1>0. a \in Items
  BY NumbersApart
<1>1. art[a] \in ArtRows
  BY DEF TypeOK
<1>2. {"put", "lost", "row", "undo", "deleted"} \subseteq ArtStates
  BY DEF ArtStates, Kept
<1>3. \A t \in Tasks, st \in ArtStates :
        [[art[a] EXCEPT !.st = st] EXCEPT !.task = t] \in ArtRows
  BY <1>1 DEF ArtRows
<1>4. \A st \in ArtStates : [art EXCEPT ![a].st = st] \in [Artifacts -> ArtRows]
  BY <1>1, ArtRowType, SetArtType
<1>5. ASSUME NEW t \in Tasks, NEW st \in ArtStates,
             art' = [art EXCEPT ![a].st = st, ![a].task = t]
      PROVE  art' \in [Artifacts -> ArtRows]
  <2>1. art' = [art EXCEPT ![a] = [[art[a] EXCEPT !.st = st] EXCEPT !.task = t]]
    BY <1>5 DEF TypeOK
  <2> QED
    BY <1>3, <2>1, SetArtType
<1>6. CASE \E t \in Tasks : ArchivePut(a, t)
  <2>1. art' \in [Artifacts -> ArtRows]
    BY <1>2, <1>5, <1>6 DEF ArchivePut
  <2> QED
    BY <1>0, <1>6, <2>1 DEF TypeOK, ArchivePut
<1>7. CASE \E t \in Tasks : ArchivePutLost(a, t)
  <2>1. art' \in [Artifacts -> ArtRows]
    BY <1>2, <1>5, <1>7 DEF ArchivePutLost
  <2> QED
    BY <1>0, <1>7, <2>1, EventType DEF TypeOK, ArchivePutLost
<1>8. CASE ArchiveCommit(a)
  <2>1. art' \in [Artifacts -> ArtRows]
    BY <1>2, <1>4, <1>8 DEF ArchiveCommit
  <2> QED
    BY <1>8, <2>1 DEF TypeOK, ArchiveCommit
<1>9. CASE ArchiveUndo(a) \/ ArchiveUndoFails(a)
  <2>1. art' \in [Artifacts -> ArtRows]
    BY <1>2, <1>4, <1>9 DEF ArchiveUndo, ArchiveUndoFails
  <2> QED
    BY <1>0, <1>9, <2>1, EventType DEF TypeOK, ArchiveUndo, ArchiveUndoFails
<1> QED
  BY <1>6, <1>7, <1>8, <1>9 DEF ArchiveSteps

\* A deletion is set.
LEMMA SetJobType ==
  ASSUME TypeOK, NEW j \in Jobs, NEW d \in Deletions
  PROVE  [job EXCEPT ![j] = d] \in [Jobs -> Deletions]
BY DEF TypeOK

LEMMA JobType ==
  ASSUME TypeOK, NEW j \in Jobs, JobSteps(j)
  PROVE  TypeOK'
<1>0. job[j] \in Deletions
  BY DEF TypeOK
<1>1. CASE DeleteObject(j)
  <2>1. PICK i \in job[j].todo :
          /\ job'    = [job EXCEPT ![j].item = i]
          /\ object' = [object EXCEPT ![i] = "none"]
          /\ struck' = struck \cup {i}
    BY <1>1 DEF DeleteObject
  <2>2. i \in Items
    BY <1>0 DEF Deletions
  <2>3. job' \in [Jobs -> Deletions]
    BY <1>0, <2>1, <2>2, DeletionType, SetJobType
  <2> QED
    BY <1>1, <2>1, <2>2, <2>3 DEF TypeOK, DeleteObject
<1>2. CASE DeleteObjectFails(j) \/ JobEnds(j)
  <2>1. job' \in [Jobs -> Deletions]
    BY <1>2, IdleType, SetJobType DEF DeleteObjectFails, JobEnds
  <2> QED
    BY <1>2, <2>1, EventType DEF TypeOK, DeleteObjectFails, JobEnds
<1>3. CASE DeleteRow(j)
  <2> DEFINE i == job[j].item
             rest == [[job[j] EXCEPT !.item = None] EXCEPT !.todo = job[j].todo \ {i}]
  <2>1. rest \in Deletions
    BY <1>0 DEF Deletions
  <2>2. job' = [job EXCEPT ![j] = Idle] \/ job' = [job EXCEPT ![j] = rest]
    BY <1>3 DEF DeleteRow, TypeOK
  <2>3. job' \in [Jobs -> Deletions]
    BY <2>1, <2>2, IdleType, SetJobType
  <2>4. \A t \in Tasks : [task[t] EXCEPT !.files = @ \ {i}] \in TaskRows
    BY DEF TypeOK, TaskRows
  <2>5. task' \in [Tasks -> TaskRows]
    BY <1>3, <2>4 DEF TypeOK, DeleteRow
  <2>6. "deleted" \in ArtStates
    BY DEF ArtStates
  <2>7. \A a \in Artifacts : [art[a] EXCEPT !.st = "deleted"] \in ArtRows
    BY <2>6, ArtRowType DEF TypeOK
  <2>8. art' \in [Artifacts -> ArtRows]
    BY <1>3, <2>7 DEF TypeOK, DeleteRow
  <2>9. file' \in [Files -> FileStates] /\ struck' \in SUBSET Items
    BY <1>3 DEF TypeOK, DeleteRow, FileStates
  <2> QED
    BY <1>3, <2>3, <2>5, <2>8, <2>9 DEF TypeOK, DeleteRow
<1> QED
  BY <1>1, <1>2, <1>3 DEF JobSteps

\* A deletion begins, or goes on with its next list.
LEMMA GoOnType ==
  ASSUME TypeOK, NEW j \in Jobs, NEW stage \in Stages, NEW todo \in SUBSET Items,
         GoOn(j, stage, todo)
  PROVE  job' \in [Jobs -> Deletions]
<1>1. job[j].session \in Tasks \cup {None}
  BY DEF TypeOK, Deletions
<1>2. [[[Idle EXCEPT !.stage = stage] EXCEPT !.todo = todo] EXCEPT !.session = job[j].session]
        \in Deletions
  BY <1>1, IdleType DEF Deletions
<1> QED
  BY <1>2, SetJobType DEF GoOn

LEMMA HistoryType ==
  ASSUME TypeOK, NEW s \in Tasks, DeleteHistory(s)
  PROVE  TypeOK'
<1> DEFINE results == {a \in Archived : task[art[a].task].session = s}
<1>1. results \in SUBSET Items /\ "artifacts" \in Stages
  BY NumbersApart DEF Archived, Stages, TimerStages
<1>2. [stage |-> "artifacts", item |-> None, session |-> s, todo |-> results] \in Deletions
  BY <1>1, IdleType
<1>3. job' = [job EXCEPT !["history"] =
        [stage |-> "artifacts", item |-> None, session |-> s, todo |-> results]]
  BY DEF DeleteHistory
<1>4. job' \in [Jobs -> Deletions]
  BY <1>2, <1>3, SetJobType DEF Jobs
<1> QED
  BY <1>4, EventType DEF TypeOK, DeleteHistory

LEMMA ListType ==
  ASSUME TypeOK, NEW old \in SUBSET Items,
         HistoryTakes(old) \/ \E stage \in TimerStages : TimerTakes(stage, old)
  PROVE  TypeOK'
<1>1. job' \in [Jobs -> Deletions]
  BY GoOnType DEF HistoryTakes, TimerTakes, Stages, TimerStages, Jobs
<1> QED
  BY <1>1 DEF TypeOK, HistoryTakes, TimerTakes

LEMMA SessionType ==
  ASSUME TypeOK, DeleteSession
  PROVE  TypeOK'
<1>1. \A t \in Tasks : [Over(t, "deleted") EXCEPT !.files = {}] \in TaskRows
  BY OverType, TaskRowType DEF TaskStates
<1>2. task' \in [Tasks -> TaskRows]
  BY <1>1 DEF TypeOK, DeleteSession
<1>3. \A a \in Artifacts : [art[a] EXCEPT !.st = "deleted"] \in ArtRows
  BY ArtRowType DEF TypeOK, ArtStates
<1>4. art' \in [Artifacts -> ArtRows]
  BY <1>3 DEF TypeOK, DeleteSession
<1>5. stray' \in SUBSET Items
  BY NumbersApart DEF TypeOK, DeleteSession, Archived
<1>6. job' \in [Jobs -> Deletions]
  BY GoOnType, SMTT(20) DEF DeleteSession, Stages, Jobs
<1> QED
  BY <1>2, <1>4, <1>5, <1>6 DEF TypeOK, DeleteSession

LEMMA CrashType ==
  ASSUME TypeOK, Crash
  PROVE  TypeOK'
<1>1. \A t \in Tasks : Over(t, "refused") \in TaskRows
  BY OverType DEF TaskStates
<1>2. task' \in [Tasks -> TaskRows]
  BY <1>1 DEF TypeOK, Crash
<1>3. \A a \in Artifacts : [art[a] EXCEPT !.st = "lost"] \in ArtRows
  BY ArtRowType DEF TypeOK, ArtStates
<1>4. art' \in [Artifacts -> ArtRows]
  BY <1>3 DEF TypeOK, Crash
<1>5. stray' \in SUBSET Items
  BY NumbersApart DEF TypeOK, Crash
<1>6. job' \in [Jobs -> Deletions]
  BY IdleType DEF Crash
<1>7. upload' \in [Files -> UploadStates]
  BY DEF TypeOK, Crash, UploadStates
<1> QED
  BY <1>2, <1>4, <1>5, <1>6, <1>7, EventType DEF TypeOK, Crash

LEMMA NextType == TypeOK /\ [Next]_vars => TypeOK'
<1> SUFFICES ASSUME TypeOK, [Next]_vars
             PROVE  TypeOK'
  OBVIOUS
<1>1. CASE UNCHANGED vars
  BY <1>1 DEF TypeOK, vars
<1>2. CASE UserSteps
  BY <1>2, UploadType, RemoveType, AskType, HistoryType DEF UserSteps
<1>3. CASE Next /\ ~UserSteps
  BY <1>3, UploadType, TaskType, ArchiveType, JobType, ListType, SessionType, CrashType DEF Next
<1> QED
  BY <1>1, <1>2, <1>3

(* Every variable of the file store keeps its type, for any bounds and       *)
(* limits.                                                                   *)
THEOREM FilesTypeCorrect == Spec => []TypeOK
BY InitType, NextType, PTL DEF Spec

-----------------------------------------------------------------------------
(* Uploads under way and deletions keep out of each other's way.             *)

\* A row is written by the steps of its upload and by a deletion only.
LEMMA WhoWritesRows ==
  ASSUME [Next]_vars
  PROVE  \/ \E f \in Files : Attach(f) \/ UploadSteps(f)
         \/ \E j \in Jobs : DeleteRow(j)
         \/ Crash
         \/ UNCHANGED <<file, upload>>
<1>1. CASE UserSteps
  BY <1>1 DEF UserSteps, RemoveAttachment, Send, Regenerate, DeleteHistory
<1>2. ASSUME NEW t \in Tasks, TaskSteps(t)
      PROVE  UNCHANGED <<file, upload>>
  BY <1>2 DEF TaskSteps, CreateTask, Start, Fail, Complete
<1>3. ASSUME NEW a \in Artifacts, ArchiveSteps(a)
      PROVE  UNCHANGED <<file, upload>>
  BY <1>3 DEF ArchiveSteps, ArchivePut, ArchivePutLost, ArchiveCommit, ArchiveUndo,
              ArchiveUndoFails
<1>4. ASSUME NEW j \in Jobs, JobSteps(j)
      PROVE  DeleteRow(j) \/ UNCHANGED <<file, upload>>
  BY <1>4 DEF JobSteps, DeleteObject, DeleteObjectFails, JobEnds
<1>5. ASSUME NEW old, HistoryTakes(old) \/ (\E stage \in TimerStages : TimerTakes(stage, old))
             \/ DeleteSession
      PROVE  UNCHANGED <<file, upload>>
  BY <1>5 DEF HistoryTakes, TimerTakes, DeleteSession
<1> QED
  BY <1>1, <1>2, <1>3, <1>4, <1>5 DEF Next, vars

\* An upload that is over stays as it ended.
LEMMA UploadOver ==
  ASSUME TypeOK, [Next]_vars, NEW f \in Files, upload[f] \in {"uploaded", "failed"}
  PROVE  upload'[f] = upload[f]
<1>1. ASSUME NEW g \in Files, Attach(g) \/ UploadSteps(g)
      PROVE  upload'[f] = upload[f]
  BY <1>1 DEF TypeOK, Attach, UploadSteps, SignFails, PutObject, PutAnother, PutFails,
              CompleteUpload, CompleteFails, SettlePending
<1>2. CASE Crash
  BY <1>2 DEF TypeOK, Crash, InUpload
<1> QED
  BY <1>1, <1>2, WhoWritesRows DEF DeleteRow

\* A deletion takes no row of an upload under way.
LEMMA DeleteRowSpares ==
  ASSUME TypeOK, DeletesSettled, NEW j \in Jobs, DeleteRow(j), NEW f \in Files
  PROVE  \/ file'[f] = file[f]
         \/ file'[f] = "deleted" /\ upload[f] \in {"uploaded", "failed"}
BY DEF TypeOK, DeletesSettled, DeleteRow

LEMMA ReservationStep ==
  ASSUME TypeOK, ReservationKept, DeletesSettled, [Next]_vars
  PROVE  ReservationKept'
<1>1. ASSUME NEW f \in Files, Attach(f) \/ UploadSteps(f)
      PROVE  ReservationKept'
  BY <1>1 DEF TypeOK, ReservationKept, InUpload, Attach, UploadSteps, SignFails, PutObject,
              PutAnother, PutFails, CompleteUpload, CompleteFails, SettlePending
<1>2. ASSUME NEW j \in Jobs, DeleteRow(j)
      PROVE  ReservationKept'
  <2>1. UNCHANGED upload
    BY <1>2 DEF DeleteRow
  <2> QED
    BY <1>2, <2>1, DeleteRowSpares DEF ReservationKept, InUpload
<1>3. CASE Crash
  BY <1>3 DEF TypeOK, ReservationKept, InUpload, Crash
<1>4. CASE UNCHANGED <<file, upload>>
  BY <1>4 DEF ReservationKept, InUpload
<1> QED
  BY <1>1, <1>2, <1>3, <1>4, WhoWritesRows

LEMMA UsableStep ==
  ASSUME TypeOK, ReservationKept, DeletesSettled, UploadedIsUsable, [Next]_vars
  PROVE  UploadedIsUsable'
<1>1. ASSUME NEW f \in Files, Attach(f) \/ UploadSteps(f)
      PROVE  UploadedIsUsable'
  BY <1>1 DEF TypeOK, UploadedIsUsable, Attach, UploadSteps, SignFails, PutObject,
              PutAnother, PutFails, CompleteUpload, CompleteFails, SettlePending
<1>2. ASSUME NEW j \in Jobs, DeleteRow(j)
      PROVE  UploadedIsUsable'
  <2>1. UNCHANGED upload
    BY <1>2 DEF DeleteRow
  <2> QED
    BY <1>2, <2>1, DeleteRowSpares DEF UploadedIsUsable
<1>3. CASE Crash
  BY <1>3 DEF TypeOK, UploadedIsUsable, Crash
<1>4. CASE UNCHANGED <<file, upload>>
  BY <1>4 DEF UploadedIsUsable
<1> QED
  BY <1>1, <1>2, <1>3, <1>4, WhoWritesRows

\* What a deletion has yet to take is chosen when its list is read; every list
\* leaves out the uploads under way and those that have no row yet.
LEMMA ListsSettled ==
  ASSUME TypeOK, ReservationKept
  PROVE  \A f \in StaleFiles \cup UnreferencedFiles : upload[f] \in {"uploaded", "failed"}
BY DEF TypeOK, UploadStates, ReservationKept, InUpload, StaleFiles, UnreferencedFiles

\* A step that takes of the list no more than is on it.
OnlyListed(j) ==
  \A i \in Items : i \in job'[j].todo \/ job'[j].item = i
                     => i \in job[j].todo \/ job[j].item = i

\* A step that begins a deletion, gives it its next list or ends it.
Chooses(j) ==
  /\ job'[j].item = None
  /\ \A f \in job'[j].todo \cap Files :
       upload[f] \in {"uploaded", "failed"} /\ ~Referenced(f)
  /\ \A a \in job'[j].todo \cap Artifacts : art[a].st \in Kept

\* A deletion that goes on has nothing but its new list.
LEMMA GoOnSets ==
  ASSUME TypeOK, NEW j \in Jobs, NEW k \in Jobs, NEW stage, NEW todo, GoOn(k, stage, todo)
  PROVE  job'[j] = job[j] \/ (job'[j].item = None /\ job'[j].todo = todo)
<1>1. CASE j = k
  <2>1. job'[j] = [[[Idle EXCEPT !.stage = stage] EXCEPT !.todo = todo]
                     EXCEPT !.session = job[j].session]
    BY <1>1 DEF TypeOK, GoOn
  <2> QED
    BY <2>1 DEF Idle
<1>2. CASE j # k
  <2>1. PICK d : job' = [job EXCEPT ![k] = d]
    BY DEF GoOn
  <2>2. job'[j] = job[j]
    BY <1>2, <2>1 DEF TypeOK
  <2> QED
    BY <2>2
<1> QED
  BY <1>1, <1>2

LEMMA TakesListed ==
  ASSUME TypeOK, NEW j \in Jobs, DeleteObject(j) \/ DeleteRow(j)
  PROVE  OnlyListed(j)
<1>1. CASE DeleteObject(j)
  BY <1>1 DEF TypeOK, Deletions, DeleteObject, OnlyListed
<1>2. CASE DeleteRow(j)
  BY <1>2, NumbersApart DEF TypeOK, Deletions, DeleteRow, OnlyListed, Idle
<1> QED
  BY <1>1, <1>2

LEMMA EveryChoice ==
  ASSUME TypeOK, ReservationKept, [Next]_vars, NEW j \in Jobs
  PROVE  job'[j] = job[j] \/ DeleteObject(j) \/ DeleteRow(j) \/ Chooses(j)
<1>1. CASE UNCHANGED job
  BY <1>1
<1>2. ASSUME NEW f \in Files, NEW deletes \in BOOLEAN, RemoveAttachment(f, deletes)
      PROVE  job'[j] = job[j] \/ Chooses(j)
  BY <1>2, NumbersApart DEF TypeOK, Deletions, RemoveAttachment, DeleteFile, Idle, Chooses
<1>3. ASSUME NEW s \in Tasks, DeleteHistory(s)
      PROVE  job'[j] = job[j] \/ Chooses(j)
  BY <1>3, NumbersApart DEF TypeOK, DeleteHistory, Archived, Chooses
<1>4. ASSUME NEW k \in Jobs, DeleteObject(k)
      PROVE  job'[j] = job[j] \/ DeleteObject(j)
  <2>1. PICK i : job' = [job EXCEPT ![k].item = i]
    BY <1>4 DEF DeleteObject
  <2> QED
    BY <1>4, <2>1 DEF TypeOK
<1>5. ASSUME NEW k \in Jobs, DeleteObjectFails(k) \/ JobEnds(k)
      PROVE  job'[j] = job[j] \/ Chooses(j)
  BY <1>5 DEF TypeOK, DeleteObjectFails, JobEnds, Idle, Chooses
<1>6. ASSUME NEW k \in Jobs, DeleteRow(k)
      PROVE  job'[j] = job[j] \/ DeleteRow(j)
  <2>1. CASE k = j
    BY <1>6, <2>1
  <2>2. CASE k # j
    BY <1>6, <2>2 DEF TypeOK, DeleteRow
  <2> QED
    BY <2>1, <2>2
<1>7. ASSUME NEW old \in SUBSET Items,
             HistoryTakes(old) \/ \E stage \in TimerStages : TimerTakes(stage, old)
      PROVE  job'[j] = job[j] \/ Chooses(j)
  <2>1. /\ \A f \in old \cap Files : upload[f] \in {"uploaded", "failed"} /\ ~Referenced(f)
        /\ \A a \in old \cap Artifacts : art[a].st \in Kept
    BY <1>7, ListsSettled, NumbersApart
       DEF HistoryTakes, TimerTakes, TimerStages, TimerList, StaleFiles, UnreferencedFiles,
           AbandonedArtifacts, Kept
  <2>2. job'[j] = job[j] \/ (job'[j].item = None /\ job'[j].todo = old)
    BY <1>7, GoOnSets DEF HistoryTakes, TimerTakes, Jobs
  <2> QED
    BY <2>1, <2>2 DEF Chooses
<1>8. CASE DeleteSession
  <2>1. job'[j] = job[j] \/ (job'[j].item = None /\ job'[j].todo = {})
    BY <1>8, GoOnSets DEF DeleteSession, Jobs
  <2> QED
    BY <2>1 DEF Chooses
<1>9. CASE Crash
  BY <1>9 DEF Crash, Idle, Chooses
<1>10. ASSUME NEW f \in Files, Attach(f) \/ UploadSteps(f)
       PROVE  UNCHANGED job
  BY <1>10 DEF Attach, UploadSteps, SignFails, PutObject, PutAnother, PutFails,
               CompleteUpload, CompleteFails
<1>11. ASSUME NEW t \in Tasks, TaskSteps(t) \/ \E s \in Tasks : Send(t, s) \/ Regenerate(t, s)
       PROVE  UNCHANGED job
  BY <1>11 DEF TaskSteps, CreateTask, Start, Fail, Complete, Send, Regenerate
<1>12. ASSUME NEW a \in Artifacts, ArchiveSteps(a)
       PROVE  UNCHANGED job
  BY <1>12 DEF ArchiveSteps, ArchivePut, ArchivePutLost, ArchiveCommit, ArchiveUndo,
               ArchiveUndoFails
<1> QED
  BY <1>1, <1>2, <1>3, <1>4, <1>5, <1>6, <1>7, <1>8, <1>9, <1>10, <1>11, <1>12
     DEF Next, UserSteps, JobSteps, vars

LEMMA SettledStep ==
  ASSUME TypeOK, ReservationKept, DeletesSettled, [Next]_vars
  PROVE  DeletesSettled'
<1> SUFFICES ASSUME NEW j \in Jobs, NEW f \in Files,
                    f \in job'[j].todo \/ job'[j].item = f
             PROVE  upload'[f] \in {"uploaded", "failed"}
  BY DEF DeletesSettled
<1>1. upload[f] \in {"uploaded", "failed"}
  BY EveryChoice, TakesListed, NumbersApart DEF DeletesSettled, OnlyListed, Chooses
<1> QED
  BY <1>1, UploadOver

-----------------------------------------------------------------------------
(* The sum.                                                                  *)

LEMMA SetsFinite ==
  /\ IsFiniteSet(Files) /\ IsFiniteSet(Artifacts)
  /\ \A S \in SUBSET Files : IsFiniteSet(S) /\ Cardinality(S) \in Nat
  /\ \A S \in SUBSET Artifacts : IsFiniteSet(S) /\ Cardinality(S) \in Nat
<1>1. IsFiniteSet(Files) /\ IsFiniteSet(Artifacts)
  BY FS_Interval, BoundsAssumption DEF Files, Artifacts
<1>2. \A S \in SUBSET Files : IsFiniteSet(S)
  BY <1>1, FS_Subset
<1>3. \A S \in SUBSET Artifacts : IsFiniteSet(S)
  BY <1>1, FS_Subset
<1> QED
  BY <1>1, <1>2, <1>3, FS_CardinalityType

LEMMA UsedType == UsedBytes \in Nat
<1>1. Counted \subseteq Files /\ Archived \subseteq Artifacts
  BY DEF Counted, Archived
<1> QED
  BY <1>1, SetsFinite DEF UsedBytes

\* A step that reserves nothing and records nothing uses no more.
LEMMA SumShrinks ==
  ASSUME QuotaInv, Counted' \subseteq Counted, Archived' \subseteq Archived
  PROVE  QuotaInv'
<1>1. Counted \subseteq Files /\ Archived \subseteq Artifacts
  BY DEF Counted, Archived
<1>2. Cardinality(Counted') <= Cardinality(Counted)
  BY <1>1, SetsFinite, FS_Subset
<1>3. Cardinality(Archived') <= Cardinality(Archived)
  BY <1>1, SetsFinite, FS_Subset
<1>4. /\ Cardinality(Counted) \in Nat /\ Cardinality(Archived) \in Nat
      /\ Cardinality(Counted') \in Nat /\ Cardinality(Archived') \in Nat
  BY <1>1, SetsFinite
<1> QED
  BY <1>2, <1>3, <1>4, LimitsAssumption DEF QuotaInv, UsedBytes

\* A step that adds one item to the sum adds one to it at most.
LEMMA SumGrows ==
  ASSUME UsedBytes + 1 <= StorageLimit,
         \/ \E f \in Files : Counted' \subseteq Counted \cup {f} /\ Archived' = Archived
         \/ \E a \in Artifacts : Archived' \subseteq Archived \cup {a} /\ Counted' = Counted
  PROVE  QuotaInv'
<1>1. Counted \subseteq Files /\ Archived \subseteq Artifacts
  BY DEF Counted, Archived
<1>2. Cardinality(Counted) \in Nat /\ Cardinality(Archived) \in Nat
  BY <1>1, SetsFinite
<1>3. ASSUME NEW f \in Files, Counted' \subseteq Counted \cup {f}, Archived' = Archived
      PROVE  QuotaInv'
  <2>0. IsFiniteSet(Counted)
    BY <1>1, SetsFinite
  <2>1. /\ IsFiniteSet(Counted \cup {f})
        /\ Cardinality(Counted \cup {f}) <= Cardinality(Counted) + 1
    <3>1. /\ IsFiniteSet(Counted \cup {f})
          /\ Cardinality(Counted \cup {f})
               = IF f \in Counted THEN Cardinality(Counted) ELSE Cardinality(Counted) + 1
      BY <2>0, FS_AddElement
    <3> QED
      BY <1>2, <3>1
  <2>2. Counted' \in SUBSET Files
    BY <1>1, <1>3
  <2>3. Cardinality(Counted') \in Nat /\ Cardinality(Counted \cup {f}) \in Nat
    BY <1>1, <2>2, SetsFinite
  <2>4. Cardinality(Counted') <= Cardinality(Counted \cup {f})
    BY <1>3, <2>1, FS_Subset
  <2> QED
    BY <1>2, <1>3, <2>1, <2>3, <2>4, LimitsAssumption DEF QuotaInv, UsedBytes
<1>4. ASSUME NEW a \in Artifacts, Archived' \subseteq Archived \cup {a}, Counted' = Counted
      PROVE  QuotaInv'
  <2>0. IsFiniteSet(Archived)
    BY <1>1, SetsFinite
  <2>1. /\ IsFiniteSet(Archived \cup {a})
        /\ Cardinality(Archived \cup {a}) <= Cardinality(Archived) + 1
    <3>1. /\ IsFiniteSet(Archived \cup {a})
          /\ Cardinality(Archived \cup {a})
               = IF a \in Archived THEN Cardinality(Archived) ELSE Cardinality(Archived) + 1
      BY <2>0, FS_AddElement
    <3> QED
      BY <1>2, <3>1
  <2>2. Archived' \in SUBSET Artifacts
    BY <1>1, <1>4
  <2>3. Cardinality(Archived') \in Nat /\ Cardinality(Archived \cup {a}) \in Nat
    BY <1>1, <2>2, SetsFinite
  <2>4. Cardinality(Archived') <= Cardinality(Archived \cup {a})
    BY <1>4, <2>1, FS_Subset
  <2> QED
    BY <1>2, <1>4, <2>1, <2>3, <2>4, LimitsAssumption DEF QuotaInv, UsedBytes
<1> QED
  BY <1>3, <1>4

\* Who adds to the sum has compared it with the limit.
LEMMA QuotaStep ==
  ASSUME TypeOK, ReservationKept, DeletesSettled, QuotaInv, [Next]_vars
  PROVE  QuotaInv'
<1> USE DEF Kept
<1>1. ASSUME NEW f \in Files, Attach(f)
      PROVE  QuotaInv'
  <2>1. Archived' = Archived
    BY <1>1 DEF Archived, Attach
  <2>2. CASE UsedBytes + 1 > StorageLimit
    <3>1. Counted' = Counted
      BY <1>1, <2>2 DEF Counted, Attach
    <3> QED
      BY <2>1, <3>1, SumShrinks
  <2>3. CASE ~(UsedBytes + 1 > StorageLimit)
    <3>1. Counted' \subseteq Counted \cup {f}
      BY <1>1, <2>3 DEF TypeOK, Counted, Attach
    <3>2. UsedBytes + 1 <= StorageLimit
      BY <2>3, UsedType, LimitsAssumption
    <3> QED
      BY <2>1, <3>1, <3>2, SumGrows
  <2> QED
    BY <2>2, <2>3
<1>2. ASSUME NEW f \in Files, UploadSteps(f)
      PROVE  QuotaInv'
  <2>1. Archived' = Archived
    BY <1>2 DEF Archived, UploadSteps, SignFails, PutObject, PutAnother, PutFails,
                CompleteUpload, CompleteFails
  <2>2. InUpload(f)
    BY <1>2 DEF InUpload, UploadSteps, SignFails, PutObject, PutAnother, PutFails,
                CompleteUpload, CompleteFails
  <2>3. f \in Counted
    BY <2>2 DEF ReservationKept, Counted
  <2>4. \A g \in Files \ {f} : file'[g] = file[g]
    BY <1>2 DEF TypeOK, UploadSteps, SignFails, PutObject, PutAnother, PutFails,
                CompleteUpload, CompleteFails
  <2>5. Counted' \subseteq Counted
    BY <2>3, <2>4 DEF Counted
  <2> QED
    BY <2>1, <2>5, SumShrinks
<1>3. ASSUME NEW a \in Artifacts, ArchiveCommit(a)
      PROVE  QuotaInv'
  <2>1. Counted' = Counted
    BY <1>3 DEF Counted, ArchiveCommit
  <2>2. CASE UsedBytes + 1 <= StorageLimit
    <3>1. Archived' \subseteq Archived \cup {a}
      BY <1>3 DEF TypeOK, Archived, ArchiveCommit
    <3> QED
      BY <2>1, <2>2, <3>1, SumGrows
  <2>3. CASE ~(UsedBytes + 1 <= StorageLimit)
    <3>1. Archived' \subseteq Archived
      BY <1>3, <2>3 DEF TypeOK, ArtRows, Archived, ArchiveCommit
    <3> QED
      BY <2>1, <3>1, SumShrinks
  <2> QED
    BY <2>2, <2>3
<1>4. ASSUME NEW a \in Artifacts, ArchiveSteps(a), ~ArchiveCommit(a)
      PROVE  QuotaInv'
  <2>1. Counted' = Counted
    BY <1>4 DEF Counted, ArchiveSteps, ArchivePut, ArchivePutLost, ArchiveUndo,
                ArchiveUndoFails
  <2>2. Archived' \subseteq Archived
    BY <1>4 DEF TypeOK, ArtRows, Archived, ArchiveSteps, ArchivePut, ArchivePutLost,
                ArchiveUndo, ArchiveUndoFails
  <2> QED
    BY <2>1, <2>2, SumShrinks
<1>5. ASSUME NEW t \in Tasks, Complete(t)
      PROVE  QuotaInv'
  <2>1. Counted' = Counted
    BY <1>5 DEF Counted, Complete
  <2>2. Archived' \subseteq Archived
    BY <1>5 DEF TypeOK, ArtRows, Archived, Complete
  <2> QED
    BY <2>1, <2>2, SumShrinks
<1>6. ASSUME NEW j \in Jobs, DeleteRow(j)
      PROVE  QuotaInv'
  <2>1. Counted' \subseteq Counted
    BY <1>6, DeleteRowSpares DEF Counted
  <2>2. Archived' \subseteq Archived
    BY <1>6 DEF TypeOK, ArtRows, Archived, DeleteRow
  <2> QED
    BY <2>1, <2>2, SumShrinks
<1>7. CASE DeleteSession \/ Crash
  <2>1. Counted' = Counted
    BY <1>7 DEF Counted, DeleteSession, Crash
  <2>2. Archived' \subseteq Archived
    BY <1>7 DEF TypeOK, ArtRows, Archived, DeleteSession, Crash
  <2> QED
    BY <2>1, <2>2, SumShrinks
<1>8. CASE UNCHANGED <<file, art>>
  BY <1>8, SumShrinks DEF Counted, Archived
<1>9. ASSUME UserSteps, ~\E f \in Files : Attach(f)
      PROVE  UNCHANGED <<file, art>>
  BY <1>9 DEF UserSteps, RemoveAttachment, Send, Regenerate, DeleteHistory
<1>10. ASSUME NEW t \in Tasks, TaskSteps(t), ~Complete(t)
       PROVE  UNCHANGED <<file, art>>
  BY <1>10 DEF TaskSteps, CreateTask, Start, Fail
<1>11. ASSUME NEW j \in Jobs, JobSteps(j), ~DeleteRow(j)
       PROVE  UNCHANGED <<file, art>>
  BY <1>11 DEF JobSteps, DeleteObject, DeleteObjectFails, JobEnds
<1>12. ASSUME NEW old, HistoryTakes(old) \/ \E stage \in TimerStages : TimerTakes(stage, old)
       PROVE  UNCHANGED <<file, art>>
  BY <1>12 DEF HistoryTakes, TimerTakes
<1> HIDE DEF Kept
<1> QED
  BY <1>1, <1>2, <1>3, <1>4, <1>5, <1>6, <1>7, <1>8, <1>9, <1>10, <1>11, <1>12 DEF Next, vars

-----------------------------------------------------------------------------
(* Rows and objects.                                                         *)

\* A result is written by its archiving, by the end of its task, by a deletion
\* and by a crash only.
LEMMA WhoWritesResults ==
  ASSUME [Next]_vars
  PROVE  \/ \E a \in Artifacts : ArchiveSteps(a)
         \/ \E t \in Tasks : Complete(t)
         \/ \E j \in Jobs : DeleteRow(j)
         \/ DeleteSession \/ Crash
         \/ UNCHANGED art
<1>1. ASSUME NEW f \in Files, UploadSteps(f)
      PROVE  UNCHANGED art
  BY <1>1 DEF UploadSteps, SignFails, PutObject, PutAnother, PutFails, CompleteUpload,
              CompleteFails
<1>2. CASE UserSteps
  BY <1>2 DEF UserSteps, Attach, RemoveAttachment, Send, Regenerate, DeleteHistory
<1>3. ASSUME NEW t \in Tasks, TaskSteps(t), ~Complete(t)
      PROVE  UNCHANGED art
  BY <1>3 DEF TaskSteps, CreateTask, Start, Fail
<1>4. ASSUME NEW j \in Jobs, JobSteps(j), ~DeleteRow(j)
      PROVE  UNCHANGED art
  BY <1>4 DEF JobSteps, DeleteObject, DeleteObjectFails, JobEnds
<1>5. ASSUME NEW old, HistoryTakes(old) \/ \E stage \in TimerStages : TimerTakes(stage, old)
      PROVE  UNCHANGED art
  BY <1>5 DEF HistoryTakes, TimerTakes
<1> QED
  BY <1>1, <1>2, <1>3, <1>4, <1>5 DEF Next, vars

\* What was recorded stays so, or is deleted.
LEMMA RecordedOnce ==
  ASSUME TypeOK, [Next]_vars, NEW a \in Artifacts, art[a].st \in Recorded
  PROVE  art'[a].st \in Recorded
<1> USE DEF Recorded, Kept
<1>1. ASSUME NEW b \in Artifacts, ArchiveSteps(b)
      PROVE  art'[a].st \in Recorded
  BY <1>1 DEF TypeOK, ArtRows, ArchiveSteps, ArchivePut, ArchivePutLost, NextArtifact,
              ArchiveCommit, ArchiveUndo, ArchiveUndoFails
<1>2. ASSUME NEW t \in Tasks, Complete(t)
      PROVE  art'[a].st \in Recorded
  BY <1>2 DEF TypeOK, ArtRows, Complete
<1>3. ASSUME NEW j \in Jobs, DeleteRow(j)
      PROVE  art'[a].st \in Recorded
  BY <1>3 DEF TypeOK, ArtRows, DeleteRow
<1>4. CASE DeleteSession \/ Crash
  BY <1>4 DEF TypeOK, ArtRows, DeleteSession, Crash
<1> QED
  BY <1>1, <1>2, <1>3, <1>4, WhoWritesResults

LEMMA RecordedStep ==
  ASSUME TypeOK, ReservationKept, DeletesRecorded, [Next]_vars
  PROVE  DeletesRecorded'
<1> SUFFICES ASSUME NEW j \in Jobs, NEW a \in Artifacts,
                    a \in job'[j].todo \/ job'[j].item = a
             PROVE  art'[a].st \in Recorded
  BY DEF DeletesRecorded, Recorded
<1>1. art[a].st \in Recorded
  BY EveryChoice, TakesListed, NumbersApart
     DEF DeletesRecorded, OnlyListed, Chooses, Recorded
<1> QED
  BY <1>1, RecordedOnce

\* The object of an item is written by its upload or its archiving, and removed
\* by a deletion.
LEMMA WhoWritesObjects ==
  ASSUME [Next]_vars
  PROVE  \/ \E f \in Files : UploadSteps(f)
         \/ \E a \in Artifacts : ArchiveSteps(a)
         \/ \E j \in Jobs : DeleteObject(j)
         \/ UNCHANGED object
<1>1. CASE UserSteps
  BY <1>1 DEF UserSteps, Attach, RemoveAttachment, Send, Regenerate, DeleteHistory
<1>2. ASSUME NEW t \in Tasks, TaskSteps(t)
      PROVE  UNCHANGED object
  BY <1>2 DEF TaskSteps, CreateTask, Start, Fail, Complete
<1>3. ASSUME NEW j \in Jobs, JobSteps(j), ~DeleteObject(j)
      PROVE  UNCHANGED object
  BY <1>3 DEF JobSteps, DeleteRow, DeleteObjectFails, JobEnds
<1>4. ASSUME NEW old, HistoryTakes(old) \/ (\E stage \in TimerStages : TimerTakes(stage, old))
             \/ DeleteSession \/ Crash
      PROVE  UNCHANGED object
  BY <1>4 DEF HistoryTakes, TimerTakes, DeleteSession, Crash
<1> QED
  BY <1>1, <1>2, <1>3, <1>4 DEF Next, vars

\* An object is removed by a deletion that has it marked, and only then.
LEMMA DeleteObjectMarks ==
  ASSUME TypeOK, NEW j \in Jobs, DeleteObject(j), NEW i \in Items
  PROVE  /\ object'[i] = object[i] \/ (i \in struck' /\ i \in job[j].todo)
         /\ struck \subseteq struck'
         /\ UNCHANGED <<file, upload, art>>
BY DEF TypeOK, DeleteObject

LEMMA PutStep ==
  ASSUME TypeOK, DeletesRecorded, PutHasObject, [Next]_vars
  PROVE  PutHasObject'
<1>1. ASSUME NEW a \in Artifacts, ArchiveSteps(a)
      PROVE  PutHasObject'
  BY <1>1, NumbersApart
     DEF TypeOK, ArtRows, PutHasObject, ArchiveSteps, ArchivePut, ArchivePutLost,
         ArchiveCommit, ArchiveUndo, ArchiveUndoFails
<1>2. ASSUME ~\E b \in Artifacts : ArchiveSteps(b), NEW a \in Artifacts, art'[a].st = "put"
      PROVE  art[a].st = "put"
  <2>1. ASSUME NEW t \in Tasks, Complete(t)
        PROVE  art[a].st = "put"
    BY <1>2, <2>1 DEF TypeOK, ArtRows, Complete
  <2>2. ASSUME NEW j \in Jobs, DeleteRow(j)
        PROVE  art[a].st = "put"
    BY <1>2, <2>2 DEF TypeOK, ArtRows, DeleteRow
  <2>3. CASE DeleteSession \/ Crash
    BY <1>2, <2>3 DEF TypeOK, ArtRows, DeleteSession, Crash
  <2> QED
    BY <1>2, <2>1, <2>2, <2>3, WhoWritesResults
<1>3. ASSUME ~\E b \in Artifacts : ArchiveSteps(b), NEW a \in Artifacts, art[a].st = "put"
      PROVE  object'[a] = object[a]
  <2>1. ASSUME NEW f \in Files, UploadSteps(f)
        PROVE  object'[a] = object[a]
    BY <2>1, NumbersApart DEF TypeOK, UploadSteps, SignFails, PutObject, PutAnother,
                              PutFails, CompleteUpload, CompleteFails
  <2>2. ASSUME NEW j \in Jobs, DeleteObject(j)
        PROVE  object'[a] = object[a]
    BY <1>3, <2>2, DeleteObjectMarks, NumbersApart DEF DeletesRecorded, Recorded, Kept
  <2> QED
    BY <1>3, <2>1, <2>2, WhoWritesObjects
<1> QED
  BY <1>1, <1>2, <1>3 DEF PutHasObject

LEMMA RowHasObjectStep ==
  ASSUME TypeOK, ReservationKept, PutHasObject, RowHasObject, [Next]_vars
  PROVE  RowHasObject'
<1>1. ASSUME NEW f \in Files, Attach(f) \/ UploadSteps(f)
      PROVE  RowHasObject'
  <2>1. UNCHANGED <<art, struck>>
    BY <1>1 DEF Attach, UploadSteps, SignFails, PutObject, PutAnother, PutFails,
                CompleteUpload, CompleteFails
  <2>2. \A i \in Items \ {f} : object'[i] = object[i] /\ (i \in Files => file'[i] = file[i])
    BY <1>1 DEF TypeOK, Attach, UploadSteps, SignFails, PutObject, PutAnother, PutFails,
                CompleteUpload, CompleteFails
  <2>3. file[f] # "uploaded"
    BY <1>1 DEF ReservationKept, InUpload, Attach, UploadSteps, SignFails, PutObject,
                PutAnother, PutFails, CompleteUpload, CompleteFails
  <2>4. file'[f] = "uploaded" => object'[f] = "good"
    BY <1>1, <2>3 DEF TypeOK, Attach, UploadSteps, SignFails, PutObject, PutAnother,
                      PutFails, CompleteUpload, CompleteFails, Inspected
  <2>5. \A i \in Archived : i \in Items \ {f}
    BY NumbersApart DEF Archived
  <2>6. Archived' = Archived
    BY <2>1 DEF Archived
  <2> QED
    BY <2>1, <2>2, <2>4, <2>5, <2>6, NumbersApart DEF RowHasObject, Uploaded
<1>2. ASSUME NEW a \in Artifacts, ArchiveSteps(a)
      PROVE  RowHasObject'
  <2>1. UNCHANGED <<file, struck>>
    BY <1>2 DEF ArchiveSteps, ArchivePut, ArchivePutLost, ArchiveCommit, ArchiveUndo,
                ArchiveUndoFails
  <2>2. \A i \in Items \ {a} : object'[i] = object[i] /\ (i \in Artifacts => art'[i] = art[i])
    BY <1>2 DEF TypeOK, ArchiveSteps, ArchivePut, ArchivePutLost, ArchiveCommit,
                ArchiveUndo, ArchiveUndoFails
  <2>3. a \in Archived' => object'[a] = "good"
    BY <1>2 DEF TypeOK, ArtRows, Archived, Kept, PutHasObject, ArchiveSteps, ArchivePut,
                ArchivePutLost, ArchiveCommit, ArchiveUndo, ArchiveUndoFails
  <2>4. \A i \in Archived' : i # a => i \in Archived
    BY <2>2, NumbersApart DEF Archived
  <2>5. \A i \in Uploaded : i \in Items \ {a}
    BY NumbersApart DEF Uploaded
  <2>6. Uploaded' = Uploaded
    BY <2>1 DEF Uploaded
  <2>7. Archived' \subseteq Items
    BY NumbersApart DEF Archived
  <2> QED
    BY <2>1, <2>2, <2>3, <2>4, <2>5, <2>6, <2>7 DEF RowHasObject
<1>3. ASSUME NEW j \in Jobs, DeleteObject(j)
      PROVE  RowHasObject'
  <2>1. Uploaded' = Uploaded /\ Archived' = Archived
    BY <1>3, DeleteObjectMarks DEF Uploaded, Archived, DeleteObject
  <2>2. Uploaded \cup Archived \subseteq Items
    BY NumbersApart DEF Uploaded, Archived
  <2> QED
    BY <1>3, <2>1, <2>2, DeleteObjectMarks DEF RowHasObject
<1>4. ASSUME NEW j \in Jobs, DeleteRow(j)
      PROVE  RowHasObject'
  <2>1. UNCHANGED object
    BY <1>4 DEF DeleteRow
  <2>2. Uploaded' \subseteq Uploaded /\ Archived' \subseteq Archived
    BY <1>4 DEF TypeOK, ArtRows, Uploaded, Archived, Kept, DeleteRow
  <2>3. \A i \in struck \ struck' : i \notin Uploaded' /\ i \notin Archived'
    BY <1>4 DEF TypeOK, ArtRows, Uploaded, Archived, Kept, DeleteRow
  <2> QED
    BY <2>1, <2>2, <2>3 DEF RowHasObject
<1>5. CASE DeleteSession \/ Crash \/ \E t \in Tasks : Complete(t)
  <2>1. UNCHANGED <<file, object, struck>>
    BY <1>5 DEF DeleteSession, Crash, Complete
  <2>2. Archived' \subseteq Archived
    BY <1>5 DEF TypeOK, ArtRows, Archived, Kept, DeleteSession, Crash, Complete
  <2> QED
    BY <2>1, <2>2 DEF RowHasObject, Uploaded
<1>6. CASE UNCHANGED <<file, object, art, struck>>
  BY <1>6 DEF RowHasObject, Uploaded, Archived
<1>7. ASSUME UserSteps, ~\E f \in Files : Attach(f)
      PROVE  UNCHANGED <<file, object, art, struck>>
  BY <1>7 DEF UserSteps, RemoveAttachment, Send, Regenerate, DeleteHistory
<1>8. ASSUME NEW t \in Tasks, TaskSteps(t), ~Complete(t)
      PROVE  UNCHANGED <<file, object, art, struck>>
  BY <1>8 DEF TaskSteps, CreateTask, Start, Fail
<1>9. ASSUME NEW j \in Jobs, DeleteObjectFails(j) \/ JobEnds(j)
      PROVE  UNCHANGED <<file, object, art, struck>>
  BY <1>9 DEF DeleteObjectFails, JobEnds
<1>10. ASSUME NEW old, HistoryTakes(old) \/ \E stage \in TimerStages : TimerTakes(stage, old)
       PROVE  UNCHANGED <<file, object, art, struck>>
  BY <1>10 DEF HistoryTakes, TimerTakes
<1> QED
  BY <1>1, <1>2, <1>3, <1>4, <1>5, <1>6, <1>7, <1>8, <1>9, <1>10 DEF Next, JobSteps, vars

\* An object is stored for an item only before any deletion is at it.
LEMMA WhoStoresObjects ==
  ASSUME TypeOK, [Next]_vars, NEW i \in Items, object[i] = "none", object'[i] # "none"
  PROVE  \/ \E f \in Files : i = f /\ UploadSteps(f) /\ upload[f] = "put"
         \/ \E a \in Artifacts : i = a /\ art[a].st = "none" /\ ArchiveSteps(a)
<1>1. ASSUME NEW f \in Files, UploadSteps(f)
      PROVE  i = f /\ upload[f] = "put"
  BY <1>1 DEF TypeOK, UploadSteps, SignFails, PutObject, PutAnother, PutFails,
              CompleteUpload, CompleteFails
<1>2. ASSUME NEW a \in Artifacts, ArchiveSteps(a)
      PROVE  i = a /\ art[a].st = "none"
  BY <1>2 DEF TypeOK, ArchiveSteps, ArchivePut, ArchivePutLost, NextArtifact,
              ArchiveCommit, ArchiveUndo, ArchiveUndoFails
<1>3. ASSUME NEW j \in Jobs, DeleteObject(j)
      PROVE  object'[i] = object[i]
  BY <1>3 DEF TypeOK, DeleteObject
<1> QED
  BY <1>1, <1>2, <1>3, WhoWritesObjects

LEMMA ListedStep ==
  ASSUME TypeOK, ReservationKept, ItemIsListed, [Next]_vars
  PROVE  ItemIsListed'
<1> SUFFICES ASSUME NEW j \in Jobs
             PROVE  job'[j].item # None => job'[j].item \in job'[j].todo
  BY DEF ItemIsListed
<1>1. CASE job'[j] = job[j]
  BY <1>1 DEF ItemIsListed
<1>2. CASE DeleteObject(j)
  BY <1>2 DEF TypeOK, Deletions, DeleteObject
<1>3. CASE DeleteRow(j)
  BY <1>3 DEF TypeOK, Deletions, DeleteRow, Idle
<1>4. CASE Chooses(j)
  BY <1>4 DEF Chooses
<1> QED
  BY <1>1, <1>2, <1>3, <1>4, EveryChoice

LEMMA GoneStep ==
  ASSUME TypeOK, ReservationKept, DeletesSettled, DeletesRecorded, ItemIsGone, [Next]_vars
  PROVE  ItemIsGone'
<1> SUFFICES ASSUME NEW j \in Jobs, NEW i \in Items, job'[j].item = i
             PROVE  object'[i] = "none"
  BY DEF ItemIsGone
<1>1. CASE job[j].item = i
  <2>1. object[i] = "none"
    BY <1>1 DEF ItemIsGone
  <2>2. \A f \in Files : i = f => upload[f] # "put"
    BY <1>1 DEF DeletesSettled
  <2>3. \A a \in Artifacts : i = a => art[a].st # "none"
    BY <1>1 DEF DeletesRecorded, Recorded, Kept
  <2> QED
    BY <2>1, <2>2, <2>3, WhoStoresObjects
<1>2. CASE job[j].item # i
  <2>1. CASE DeleteObject(j)
    BY <1>2, <2>1 DEF TypeOK, Deletions, DeleteObject
  <2>2. CASE DeleteRow(j)
    BY <1>2, <2>2, NumbersApart DEF TypeOK, Deletions, DeleteRow, Idle
  <2>3. CASE Chooses(j)
    BY <2>3, NumbersApart DEF Chooses
  <2> QED
    BY <1>2, <2>1, <2>2, <2>3, EveryChoice
<1> QED
  BY <1>1, <1>2

LEMMA ObjectHasRowStep ==
  ASSUME TypeOK, ReservationKept, ItemIsGone, ObjectHasRow, [Next]_vars
  PROVE  ObjectHasRow'
<1> USE DEF Kept
<1>1. ASSUME NEW f \in Files, Attach(f) \/ UploadSteps(f)
      PROVE  ObjectHasRow'
  <2>1. UNCHANGED <<art, stray>>
    BY <1>1 DEF Attach, UploadSteps, SignFails, PutObject, PutAnother, PutFails,
                CompleteUpload, CompleteFails
  <2>2. \A i \in Items \ {f} : object'[i] = object[i] /\ (i \in Files => file'[i] = file[i])
    BY <1>1 DEF TypeOK, Attach, UploadSteps, SignFails, PutObject, PutAnother, PutFails,
                CompleteUpload, CompleteFails
  <2>3. object'[f] = object[f] \/ file'[f] = "uploading"
    BY <1>1 DEF TypeOK, ReservationKept, InUpload, Attach, UploadSteps, SignFails,
                PutObject, PutAnother, PutFails, CompleteUpload, CompleteFails
  <2>4. file'[f] = file[f] \/ file'[f] \in {"uploading", "uploaded", "failed"}
    BY <1>1 DEF TypeOK, Attach, UploadSteps, SignFails, PutObject, PutAnother, PutFails,
                CompleteUpload, CompleteFails
  <2> QED
    BY <2>1, <2>2, <2>3, <2>4, NumbersApart DEF ObjectHasRow
<1>2. ASSUME NEW a \in Artifacts, ArchiveSteps(a)
      PROVE  ObjectHasRow'
  <2>1. UNCHANGED file
    BY <1>2 DEF ArchiveSteps, ArchivePut, ArchivePutLost, ArchiveCommit, ArchiveUndo,
                ArchiveUndoFails
  <2>2. \A i \in Items \ {a} : object'[i] = object[i] /\ (i \in Artifacts => art'[i] = art[i])
    BY <1>2 DEF TypeOK, ArchiveSteps, ArchivePut, ArchivePutLost, ArchiveCommit,
                ArchiveUndo, ArchiveUndoFails
  <2>3. stray \subseteq stray'
    BY <1>2 DEF ArchiveSteps, ArchivePut, ArchivePutLost, ArchiveCommit, ArchiveUndo,
                ArchiveUndoFails
  <2>4. a \in stray' \/ object'[a] = "none" \/ art'[a].st \in Kept \cup {"put", "undo"}
    BY <1>2, NumbersApart
       DEF TypeOK, ArtRows, ArchiveSteps, ArchivePut, ArchivePutLost, ArchiveCommit,
           ArchiveUndo, ArchiveUndoFails
  <2> QED
    BY <2>1, <2>2, <2>3, <2>4, NumbersApart DEF ObjectHasRow
<1>3. ASSUME NEW j \in Jobs, DeleteObject(j)
      PROVE  ObjectHasRow'
  <2>1. UNCHANGED <<file, art, stray>>
    BY <1>3 DEF DeleteObject
  <2>2. \A i \in Items : object'[i] = object[i] \/ object'[i] = "none"
    BY <1>3 DEF TypeOK, DeleteObject
  <2> QED
    BY <2>1, <2>2, NumbersApart DEF ObjectHasRow
<1>4. ASSUME NEW j \in Jobs, DeleteRow(j)
      PROVE  ObjectHasRow'
  <2>1. UNCHANGED <<object, stray>>
    BY <1>4 DEF DeleteRow
  <2>2. \A f \in Files : file'[f] = file[f] \/ object[f] = "none"
    BY <1>4, NumbersApart DEF TypeOK, ItemIsGone, DeleteRow
  <2>3. \A a \in Artifacts : art'[a].st = art[a].st \/ object[a] = "none"
    BY <1>4, NumbersApart DEF TypeOK, ItemIsGone, DeleteRow
  <2> QED
    BY <2>1, <2>2, <2>3 DEF ObjectHasRow
<1>5. CASE DeleteSession \/ Crash \/ \E t \in Tasks : Complete(t)
  <2>1. UNCHANGED <<file, object>>
    BY <1>5 DEF DeleteSession, Crash, Complete
  <2>2. stray \subseteq stray'
    BY <1>5 DEF DeleteSession, Crash, Complete
  <2>3. \A a \in Artifacts : \/ a \in stray' \/ object[a] = "none" \/ art'[a] = art[a]
                           \/ art'[a].st \in Kept
    <3>1. CASE DeleteSession
      BY <3>1 DEF TypeOK, DeleteSession
    <3>2. CASE Crash
      BY <3>2 DEF TypeOK, Crash
    <3>3. ASSUME NEW t \in Tasks, Complete(t), NEW a \in Artifacts
          PROVE  art'[a] = art[a] \/ art'[a].st \in Kept
      BY <3>3 DEF TypeOK, ArtRows, Complete
    <3> QED
      BY <1>5, <3>1, <3>2, <3>3
  <2> QED
    BY <2>1, <2>2, <2>3 DEF ObjectHasRow
<1>6. CASE UNCHANGED <<file, object, art, stray>>
  BY <1>6 DEF ObjectHasRow
<1>7. ASSUME UserSteps, ~\E f \in Files : Attach(f)
      PROVE  UNCHANGED <<file, object, art, stray>>
  BY <1>7 DEF UserSteps, RemoveAttachment, Send, Regenerate, DeleteHistory
<1>8. ASSUME NEW t \in Tasks, TaskSteps(t), ~Complete(t)
      PROVE  UNCHANGED <<file, object, art, stray>>
  BY <1>8 DEF TaskSteps, CreateTask, Start, Fail
<1>9. ASSUME NEW j \in Jobs, DeleteObjectFails(j) \/ JobEnds(j)
      PROVE  UNCHANGED <<file, object, art, stray>>
  BY <1>9 DEF DeleteObjectFails, JobEnds
<1>10. ASSUME NEW old, HistoryTakes(old) \/ \E stage \in TimerStages : TimerTakes(stage, old)
       PROVE  UNCHANGED <<file, object, art, stray>>
  BY <1>10 DEF HistoryTakes, TimerTakes
<1> HIDE DEF Kept
<1> QED
  BY <1>1, <1>2, <1>3, <1>4, <1>5, <1>6, <1>7, <1>8, <1>9, <1>10 DEF Next, JobSteps, vars

-----------------------------------------------------------------------------
(* The files of a task.                                                      *)

\* A step that leaves the task rows that are active, but for rows it ends.
Spared(t) ==
  /\ t \in ActiveTasks
  /\ task'[t].asked = task[t].asked /\ task'[t].doomed = task[t].doomed

LEMMA OverFields ==
  ASSUME TypeOK, NEW t \in Tasks, NEW st
  PROVE  Over(t, st).st = st
<1>1. task[t] \in TaskRows
  BY DEF TypeOK
<1> QED
  BY <1>1 DEF Over, TaskRows

\* A task is active because it was, or because it has just been created; its
\* TaskFile rows are removed with their file only.
LEMMA ActiveStays ==
  ASSUME TypeOK, [Next]_vars, NEW t \in Tasks, task'[t].st \in Active
  PROVE  \/ /\ Spared(t)
            /\ \/ task'[t].files = task[t].files
               \/ \E j \in Jobs : /\ DeleteRow(j)
                                  /\ task'[t].files = task[t].files \ {job[j].item}
         \/ CreateTask(t) /\ CanCreate(t)
<1> USE DEF Active, Spared, ActiveTasks
<1>1. CASE UNCHANGED task
  BY <1>1
<1>2. ASSUME NEW u \in Tasks, NEW s \in Tasks, Send(u, s) \/ Regenerate(u, s)
      PROVE  task'[t] = task[t]
  <2>1. CASE u = t
    <3>0. task[t] \in TaskRows
      BY DEF TypeOK
    <3>1. task'[t].st \in {"create", "refused"}
      <4>1. CASE Send(t, s)
        <5>1. [[[task[t] EXCEPT !.session = s] EXCEPT !.asked = Ready] EXCEPT !.st = "create"].st
                = "create"
          BY <3>0 DEF TaskRows
        <5> QED
          BY <4>1, <5>1, OverFields DEF TypeOK, Send
      <4>2. CASE Regenerate(t, s)
        BY <3>0, <4>2 DEF TypeOK, TaskRows, Regenerate
      <4> QED
        BY <1>2, <2>1, <4>1, <4>2
    <3> QED
      BY <3>1
  <2>2. CASE u # t
    BY <1>2, <2>2 DEF TypeOK, Send, Regenerate
  <2> QED
    BY <2>1, <2>2
<1>3. ASSUME NEW u \in Tasks, CreateTask(u)
      PROVE  task'[t] = task[t] \/ (u = t /\ CanCreate(t))
  <2>1. CASE u = t /\ ~CanCreate(t)
    BY <1>3, <2>1, OverFields DEF TypeOK, CreateTask
  <2>2. CASE u # t
    BY <1>3, <2>2 DEF TypeOK, CreateTask
  <2> QED
    BY <2>1, <2>2
<1>4. ASSUME NEW u \in Tasks, Start(u)
      PROVE  Spared(t) /\ task'[t].files = task[t].files
  BY <1>4 DEF TypeOK, TaskRows, Start
<1>5. ASSUME NEW u \in Tasks, Fail(u) \/ Complete(u)
      PROVE  task'[t] = task[t]
  BY <1>5, OverFields DEF TypeOK, Fail, Complete
<1>6. ASSUME NEW j \in Jobs, DeleteRow(j)
      PROVE  /\ Spared(t)
             /\ \/ task'[t].files = task[t].files
                \/ task'[t].files = task[t].files \ {job[j].item}
  BY <1>6 DEF TypeOK, TaskRows, DeleteRow
<1>7. CASE DeleteSession
  <2>1. [Over(t, "deleted") EXCEPT !.files = {}].st = "deleted"
    BY OverType, OverFields DEF TaskRows, TaskStates
  <2>2. task'[t] = task[t]
    BY <1>7, <2>1 DEF TypeOK, DeleteSession
  <2> QED
    BY <2>2
<1>8. CASE Crash
  <2>1. task'[t] = task[t]
    BY <1>8, OverFields DEF TypeOK, Crash
  <2> QED
    BY <2>1
<1>9. ASSUME NEW f \in Files,
             Attach(f) \/ UploadSteps(f) \/ \E d \in BOOLEAN : RemoveAttachment(f, d)
      PROVE  UNCHANGED task
  BY <1>9 DEF Attach, RemoveAttachment, UploadSteps, SignFails, PutObject, PutAnother,
              PutFails, CompleteUpload, CompleteFails
<1>10. ASSUME NEW a \in Artifacts, ArchiveSteps(a)
       PROVE  UNCHANGED task
  BY <1>10 DEF ArchiveSteps, ArchivePut, ArchivePutLost, ArchiveCommit, ArchiveUndo,
               ArchiveUndoFails
<1>11. ASSUME NEW j \in Jobs, JobSteps(j), ~DeleteRow(j)
       PROVE  UNCHANGED task
  BY <1>11 DEF JobSteps, DeleteObject, DeleteObjectFails, JobEnds
<1>12. ASSUME NEW old, HistoryTakes(old) \/ \E stage \in TimerStages : TimerTakes(stage, old)
       PROVE  UNCHANGED task
  BY <1>12 DEF HistoryTakes, TimerTakes
<1>13. ASSUME NEW s \in Tasks, DeleteHistory(s)
       PROVE  UNCHANGED task
  BY <1>13 DEF DeleteHistory
<1>14. task'[t] = task[t] => Spared(t) /\ task'[t].files = task[t].files
  BY DEF Spared
<1> HIDE DEF Active, Spared, ActiveTasks
<1>15. CASE UserSteps
  BY <1>1, <1>2, <1>9, <1>13, <1>14, <1>15 DEF UserSteps
<1>16. ASSUME NEW u \in Tasks, TaskSteps(u)
       PROVE  \/ Spared(t) /\ task'[t].files = task[t].files
              \/ CreateTask(t) /\ CanCreate(t)
  BY <1>3, <1>4, <1>5, <1>14, <1>16 DEF TaskSteps
<1> QED
  BY <1>1, <1>6, <1>7, <1>8, <1>9, <1>10, <1>11, <1>12, <1>15, <1>16 DEF Next, vars

\* An item is marked by the deletion that removes its object only.
LEMMA WhoStrikes ==
  ASSUME [Next]_vars
  PROVE  struck' \subseteq struck \/ \E j \in Jobs : DeleteObject(j)
<1>1. CASE UserSteps
  BY <1>1 DEF UserSteps, Attach, RemoveAttachment, Send, Regenerate, DeleteHistory
<1>2. ASSUME NEW f \in Files, UploadSteps(f)
      PROVE  UNCHANGED struck
  BY <1>2 DEF UploadSteps, SignFails, PutObject, PutAnother, PutFails, CompleteUpload,
              CompleteFails
<1>3. ASSUME NEW t \in Tasks, TaskSteps(t)
      PROVE  UNCHANGED struck
  BY <1>3 DEF TaskSteps, CreateTask, Start, Fail, Complete
<1>4. ASSUME NEW a \in Artifacts, ArchiveSteps(a)
      PROVE  UNCHANGED struck
  BY <1>4 DEF ArchiveSteps, ArchivePut, ArchivePutLost, ArchiveCommit, ArchiveUndo,
              ArchiveUndoFails
<1>5. ASSUME NEW j \in Jobs, JobSteps(j), ~DeleteObject(j)
      PROVE  struck' \subseteq struck
  BY <1>5 DEF JobSteps, DeleteRow, DeleteObjectFails, JobEnds
<1>6. ASSUME NEW old, HistoryTakes(old) \/ (\E stage \in TimerStages : TimerTakes(stage, old))
             \/ DeleteSession \/ Crash
      PROVE  UNCHANGED struck
  BY <1>6 DEF HistoryTakes, TimerTakes, DeleteSession, Crash
<1> QED
  BY <1>1, <1>2, <1>3, <1>4, <1>5, <1>6 DEF Next, vars

\* A file that a task refers to, and no deletion has chosen, is chosen by none.
LEMMA ReferencedIsSpared ==
  ASSUME TypeOK, ReservationKept, ItemIsListed, [Next]_vars,
         NEW f \in Files, Referenced(f), f \notin BeingDeleted
  PROVE  f \notin BeingDeleted'
<1>1. ASSUME NEW j \in Jobs
      PROVE  f \notin job'[j].todo
  <2>1. f \notin job[j].todo /\ job[j].item # f
    BY NumbersApart DEF BeingDeleted, ItemIsListed
  <2> QED
    BY <2>1, EveryChoice, TakesListed, NumbersApart DEF OnlyListed, Chooses
<1>2. ASSUME NEW j \in Jobs, DeleteObject(j)
      PROVE  f \notin struck'
  BY <1>2 DEF BeingDeleted, DeleteObject
<1>3. struck' \subseteq struck \/ \E j \in Jobs : DeleteObject(j)
  BY WhoStrikes
<1> QED
  BY <1>1, <1>2, <1>3 DEF BeingDeleted

\* A file that is uploaded stays so until its row is deleted.
LEMMA UploadedStays ==
  ASSUME TypeOK, ReservationKept, [Next]_vars, NEW f \in Files, file[f] = "uploaded",
         \A j \in Jobs : job[j].item # f
  PROVE  file'[f] = "uploaded"
<1>1. ASSUME NEW g \in Files, Attach(g) \/ UploadSteps(g)
      PROVE  file'[f] = file[f]
  <2>1. g # f
    BY <1>1 DEF ReservationKept, InUpload, Attach, UploadSteps, SignFails, PutObject,
                PutAnother, PutFails, CompleteUpload, CompleteFails
  <2> QED
    BY <1>1, <2>1 DEF TypeOK, Attach, UploadSteps, SignFails, PutObject, PutAnother,
                      PutFails, CompleteUpload, CompleteFails
<1>2. ASSUME NEW j \in Jobs, DeleteRow(j)
      PROVE  file'[f] = file[f]
  BY <1>2 DEF TypeOK, DeleteRow
<1>3. CASE Crash
  BY <1>3 DEF Crash
<1> QED
  BY <1>1, <1>2, <1>3, WhoWritesRows

LEMMA AttachedStep ==
  ASSUME TypeOK, ReservationKept, ItemIsListed, AttachedIsSafe, [Next]_vars
  PROVE  AttachedIsSafe'
<1> SUFFICES ASSUME NEW t \in Tasks, task'[t].st \in Active,
                    NEW f \in task'[t].asked \ task'[t].doomed
             PROVE  f \in task'[t].files /\ file'[f] = "uploaded" /\ f \notin BeingDeleted'
  BY DEF AttachedIsSafe, ActiveTasks
<1>0. f \in Files
  BY NextType DEF TypeOK, TaskRows
<1>1. CASE Spared(t)
  <2>1. t \in ActiveTasks /\ f \in task[t].asked \ task[t].doomed
    BY <1>1 DEF Spared
  <2>2. f \in task[t].files /\ file[f] = "uploaded" /\ f \notin BeingDeleted
    BY <2>1 DEF AttachedIsSafe
  <2>3. \A j \in Jobs : job[j].item # f
    BY <1>0, <2>2, NumbersApart DEF BeingDeleted, ItemIsListed
  <2>4. Referenced(f)
    BY <2>1, <2>2 DEF Referenced, ActiveTasks, HasRow
  <2>5. f \in task'[t].files \/ (CreateTask(t) /\ CanCreate(t))
    BY <2>2, <2>3, ActiveStays
  <2>6. ~CreateTask(t)
    BY <2>1 DEF CreateTask, ActiveTasks, Active
  <2> QED
    BY <1>0, <2>2, <2>3, <2>4, <2>5, <2>6, ReferencedIsSpared, UploadedStays
<1>2. CASE CreateTask(t) /\ CanCreate(t)
  <2>1. task'[t].asked = task[t].asked /\ task'[t].files = task[t].asked
        /\ task'[t].doomed = task[t].asked \cap BeingDeleted
    BY <1>2 DEF TypeOK, TaskRows, CreateTask
  <2>2. UNCHANGED <<file, job, struck>>
    BY <1>2 DEF CreateTask
  <2>3. file[f] = "uploaded" /\ f \notin BeingDeleted
    BY <1>2, <2>1 DEF CanCreate
  <2> QED
    BY <2>1, <2>2, <2>3 DEF BeingDeleted
<1> QED
  BY <1>1, <1>2, ActiveStays

-----------------------------------------------------------------------------
(* The invariant and what follows from it.                                   *)

LEMMA InitInv == Init => Inv
<1> SUFFICES ASSUME Init
             PROVE  Inv
  OBVIOUS
<1>1. ReservationKept
  BY DEF Init, ReservationKept, InUpload
<1>2. DeletesSettled
  BY NumbersApart DEF Init, DeletesSettled, Idle
<1>3. Counted = {} /\ Archived = {}
  BY DEF Init, Counted, Archived, Kept
<1>4. QuotaInv
  BY <1>3, FS_EmptySet, LimitsAssumption DEF QuotaInv, UsedBytes
<1>5. UploadedIsUsable
  BY DEF Init, UploadedIsUsable
<1>6. DeletesRecorded
  BY NumbersApart DEF Init, DeletesRecorded, Idle
<1>7. PutHasObject
  BY DEF Init, PutHasObject
<1>8. RowHasObject
  BY <1>3 DEF Init, RowHasObject, Uploaded
<1>9. ItemIsListed /\ ItemIsGone
  BY NumbersApart DEF Init, ItemIsListed, ItemIsGone, Idle
<1>10. ObjectHasRow
  BY NumbersApart DEF Init, ObjectHasRow
<1>11. AttachedIsSafe
  BY DEF Init, AttachedIsSafe, ActiveTasks, Active
<1> QED
  BY <1>1, <1>2, <1>4, <1>5, <1>6, <1>7, <1>8, <1>9, <1>10, <1>11, InitType DEF Inv

LEMMA NextInv == Inv /\ [Next]_vars => Inv'
BY NextType, ReservationStep, SettledStep, QuotaStep, UsableStep, RecordedStep, PutStep,
   RowHasObjectStep, ListedStep, GoneStep, ObjectHasRowStep, AttachedStep DEF Inv

\* Files and results are different items: their number is the sum.
LEMMA InvImpliesWithinQuota == Inv => WithinQuota
<1> SUFFICES ASSUME Inv
             PROVE  Cardinality(Counted \cup Archived) <= StorageLimit
  BY DEF WithinQuota, Counted
<1>1. Counted \subseteq Files /\ Archived \subseteq Artifacts
  BY DEF Counted, Archived
<1>2. Counted \cap Archived = {}
  BY <1>1, NumbersApart
<1>3. /\ IsFiniteSet(Counted) /\ IsFiniteSet(Archived)
      /\ Cardinality(Counted) \in Nat /\ Cardinality(Archived) \in Nat
  BY <1>1, SetsFinite
<1>4. Cardinality(Counted \cup Archived)
        = Cardinality(Counted) + Cardinality(Archived) - Cardinality(Counted \cap Archived)
  BY <1>3, FS_Union
<1>5. Cardinality(Counted \cap Archived) = 0
  BY <1>2, FS_EmptySet
<1> QED
  BY <1>3, <1>4, <1>5 DEF Inv, QuotaInv, UsedBytes

(* The files and results of the user never use more than the storage quota,  *)
(* for any limit and any number of uploads, archivings, deletions and        *)
(* faults: createUploadUrl and archiveResultArtifact compare under the same  *)
(* lock, and nothing else adds to the sum.                                   *)
THEOREM StorageWithinQuota == Spec => []WithinQuota
BY InitInv, NextInv, InvImpliesWithinQuota, PTL DEF Spec

(* A row that can be attached or downloaded has the object that was checked, *)
(* unless a deletion has taken it, for any interleaving of uploads,          *)
(* archivings, deletions, failing calls and crashes.                         *)
THEOREM RowsHaveObjects == Spec => []RowHasObject
<1>1. Inv => RowHasObject
  BY DEF Inv
<1> QED
  BY <1>1, InitInv, NextInv, PTL DEF Spec

(* No object is left behind without a row, except those the API has lost     *)
(* sight of: a deletion removes the object before the row, and no object is  *)
(* stored for an item that a deletion is at.                                 *)
THEOREM ObjectsHaveRows == Spec => []ObjectHasRow
<1>1. Inv => ObjectHasRow
  BY DEF Inv
<1> QED
  BY <1>1, InitInv, NextInv, PTL DEF Spec

(* A waiting or running task keeps its files, rows and objects, unless a     *)
(* deletion had chosen the file before the task was created: the lists leave *)
(* out what a task refers to, and a list that was read is never added to.    *)
THEOREM AttachedFilesAreKept == Spec => []AttachedIsKept
<1>1. Inv => AttachedIsKept
  <2> SUFFICES ASSUME Inv, NEW t \in ActiveTasks,
                      NEW f \in task[t].asked \ task[t].doomed
               PROVE  f \in task[t].files /\ file[f] = "uploaded" /\ object[f] = "good"
    BY DEF AttachedIsKept
  <2>1. f \in task[t].files /\ file[f] = "uploaded" /\ f \notin BeingDeleted
    BY DEF Inv, AttachedIsSafe
  <2>2. f \in Files
    BY DEF Inv, TypeOK, TaskRows, ActiveTasks
  <2>3. f \in Uploaded \ struck
    BY <2>1, <2>2 DEF Uploaded, BeingDeleted
  <2> QED
    BY <2>1, <2>3 DEF Inv, RowHasObject
<1> QED
  BY <1>1, InitInv, NextInv, PTL DEF Spec

(* What the app shows as uploaded is a file the API accepts, until it is     *)
(* deleted: no failed or repeated completion and no cleanup sets it back.    *)
THEOREM PendingStaysUsable == Spec => []PendingIsUsable
<1>1. Inv => PendingIsUsable
  BY DEF Inv, TypeOK, UploadedIsUsable, PendingIsUsable, Ready
<1> QED
  BY <1>1, InitInv, NextInv, PTL DEF Spec

(* The row of an upload under way is its reservation until the upload ends:  *)
(* neither the cleanups nor a deletion by the user or with a conversation    *)
(* takes it, and so completeUpload finds the row it was asked to complete.   *)
THEOREM UploadKeepsReservation == Spec => []ReservationKept
<1>1. Inv => ReservationKept
  BY DEF Inv
<1> QED
  BY <1>1, InitInv, NextInv, PTL DEF Spec
=============================================================================

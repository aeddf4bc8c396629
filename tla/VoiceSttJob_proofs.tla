--------------------------- MODULE VoiceSttJob_proofs ---------------------------
(***************************************************************************)
(* Theorems about VoiceSttJob, for any number of uploads, processes and    *)
(* stops.  The safety properties are not inductive by themselves: what a   *)
(* step may do to an upload's rows and object depends on how far its task  *)
(* is (Early, Worked) and on which deletions are under way (Purged), so    *)
(* IInv records that, upload by upload.                                    *)
(***************************************************************************)
EXTENDS VoiceSttJob, TLAPS

EarlyPcs == {"idle", "createJob"}
UnfinishedPcs == {"cleanup", "find", "transcribe", "toSummary", "summarize", "finish"}

\* Before its transaction an upload has no rows and nobody deletes it.
Early(u) ==
    task[u].pc \in EarlyPcs =>
        /\ u \notin media /\ u \notin records /\ u \notin purging
        /\ job[u] = "none"
        /\ erasing # None => u \notin erasing.keys

\* Until the last transaction there is no record; a failure after it is a lost answer.
Worked(u) ==
    /\ task[u].pc \in UnfinishedPcs => u \notin records
    /\ task[u].pc = "markFailed" /\ u \in records => u \in ackLost
    /\ task[u].pc = "cleanup" /\ u \in media => u \in ackLost

\* Rows go before objects.
Purged(u) == u \in purging => u \notin media
Stored(u) == u \in media /\ u \notin ackLost => u \in stored
Accounted(u) == u \in stored =>
    u \in media \/ u \in purging \/ task[u].pc \in RequestPcs \/ u \in leaked
Completed(u) ==
    /\ job[u] = "COMPLETED" => u \in records
    /\ u \in records => job[u] = "COMPLETED" \/ (u \in ackLost /\ job[u] = "FAILED")
Uploaded(u) == task[u].pc = "createJob" => u \in stored

\* The work takes its job forward: the summary comes after the transcript.
Progressed(u) ==
    /\ task[u].pc \in {"find", "transcribe", "toSummary"} => job[u] # "SUMMARY_PROCESSING"
    /\ task[u].pc \in {"summarize", "finish"} => job[u] # "STT_PROCESSING"

UploadInv(u) == /\ Early(u) /\ Worked(u) /\ Purged(u) /\ Stored(u)
                /\ Accounted(u) /\ Completed(u) /\ Uploaded(u) /\ Progressed(u)
IInv == TypeOK /\ \A u \in Uploads : UploadInv(u)

-----------------------------------------------------------------------------
USE NamesAssumption

\* Every step keeps the types.
LEMMA TypeStep ==
    ASSUME TypeOK, [Next]_vars
    PROVE  TypeOK'
<1> USE DEF TypeOK, rows, Others, ghosts, Background, Pcs, RequestPcs, BackgroundPcs, Statuses,
            ProcessingStatuses
<1>1. ASSUME NEW u \in Uploads, Step(u) PROVE TypeOK'
  <2>1. CASE CreateJob(u) BY <2>1 DEF CreateJob, Goto, SetStatus, At
  <2>2. CASE Cleanup(u) BY <2>2 DEF Cleanup, Goto, At
  <2>3. CASE Find(u) BY <2>3 DEF Find, Goto, At
  <2>4. CASE Transcribe(u) BY <2>4 DEF Transcribe, Call, Goto, At
  <2>5. CASE ToSummary(u) BY <2>5 DEF ToSummary, Goto, SetStatus, At
  <2>6. CASE Summarize(u) BY <2>6 DEF Summarize, Call, Goto, At
  <2>7. CASE Finish(u) BY <2>7 DEF Finish, Goto, SetStatus, At
  <2>8. CASE MarkFailed(u) BY <2>8 DEF MarkFailed, Goto, SetStatus, At
  <2>9. CASE Purge(u) BY <2>9 DEF Purge
  <2> QED BY <1>1, <2>1, <2>2, <2>3, <2>4, <2>5, <2>6, <2>7, <2>8, <2>9 DEF Step
<1>2. ASSUME NEW u \in Uploads, DeleteRecord(u) PROVE TypeOK'
  BY <1>2 DEF DeleteRecord, SetStatus, WithoutMedia
<1>3. ASSUME NEW u \in Uploads, NEW p \in Processes, Upload(u, p) PROVE TypeOK'
  BY <1>3 DEF Upload, Goto
<1>4. ASSUME NEW p \in Processes, Boot(p) PROVE TypeOK'
  BY <1>4 DEF Boot, SweptStatus
<1>5. ASSUME NEW p \in Processes, Crash(p) PROVE TypeOK'
  BY <1>5 DEF Crash
<1>6. CASE EraseRead BY <1>6 DEF EraseRead
<1>7. CASE EraseCommit BY <1>7 DEF EraseCommit
<1>8. CASE UNCHANGED vars BY <1>8 DEF vars
<1> QED BY <1>1, <1>2, <1>3, <1>4, <1>5, <1>6, <1>7, <1>8 DEF Next

\* What a step of one task leaves of the others, and where it puts its own.
LEMMA GotoFacts ==
    ASSUME TypeOK, NEW u \in Uploads, NEW pc \in Pcs, Goto(u, pc)
    PROVE  /\ task'[u].pc = pc
           /\ \A v \in Uploads : v # u => task'[v] = task[v]
BY DEF Goto, TypeOK

LEMMA StatusFacts ==
    ASSUME TypeOK, NEW u \in Uploads, NEW s, SetStatus(u, s)
    PROVE  /\ job'[u] = s
           /\ \A v \in Uploads : v # u => job'[v] = job[v]
BY DEF SetStatus, TypeOK

\* The rows, the objects and the work of an upload that a step does not concern.
Untouched(v) ==
    /\ task'[v].pc = task[v].pc /\ job'[v] = job[v]
    /\ v \in stored' <=> v \in stored
    /\ v \in media' <=> v \in media
    /\ v \in records' <=> v \in records
    /\ v \in purging' <=> v \in purging
    /\ v \in ackLost' <=> v \in ackLost
    /\ v \in leaked => v \in leaked'
    /\ erasing' # None /\ v \notin media => v \notin erasing'.keys \/ (erasing # None /\ v \in erasing.keys)

LEMMA UntouchedKept ==
    ASSUME NEW v \in Uploads, UploadInv(v), Untouched(v)
    PROVE  UploadInv(v)'
BY DEF UploadInv, Untouched, Early, Worked, Purged, Stored, Accounted, Completed, Uploaded, Progressed

\* A step of one task, and a deletion of its rows or object.
LEMMA UploadStep ==
    ASSUME IInv, NEW u \in Uploads,
           Step(u) \/ DeleteRecord(u) \/ \E p \in Processes : Upload(u, p)
    PROVE  \A v \in Uploads : UploadInv(v)'
<1> USE DEF rows, Others, ghosts, Background
<1>0. TypeOK /\ \A v \in Uploads : UploadInv(v)
  BY DEF IInv
<1>1. ASSUME NEW v \in Uploads, v # u PROVE UploadInv(v)'
  <2>1. CASE CreateJob(u)
    BY <1>0, <1>1, <2>1, UntouchedKept, GotoFacts, StatusFacts
       DEF CreateJob, Untouched, Pcs, RequestPcs, BackgroundPcs
  <2>2. CASE Cleanup(u)
    BY <1>0, <1>1, <2>2, UntouchedKept, GotoFacts DEF Cleanup, Untouched, Pcs
  <2>3. CASE Find(u)
    BY <1>0, <1>1, <2>3, UntouchedKept, GotoFacts DEF Find, Untouched, Pcs, BackgroundPcs
  <2>4. CASE Transcribe(u)
    BY <1>0, <1>1, <2>4, UntouchedKept, GotoFacts
       DEF Transcribe, Call, Untouched, Pcs, BackgroundPcs
  <2>5. CASE ToSummary(u)
    BY <1>0, <1>1, <2>5, UntouchedKept, GotoFacts, StatusFacts
       DEF ToSummary, Untouched, Pcs, BackgroundPcs
  <2>6. CASE Summarize(u)
    BY <1>0, <1>1, <2>6, UntouchedKept, GotoFacts
       DEF Summarize, Call, Untouched, Pcs, BackgroundPcs
  <2>7. CASE Finish(u)
    BY <1>0, <1>1, <2>7, UntouchedKept, GotoFacts, StatusFacts
       DEF Finish, Untouched, Pcs, BackgroundPcs
  <2>8. CASE MarkFailed(u)
    BY <1>0, <1>1, <2>8, UntouchedKept, GotoFacts, StatusFacts DEF MarkFailed, Untouched, Pcs
  <2>9. CASE Purge(u)
    BY <1>0, <1>1, <2>9, UntouchedKept DEF Purge, Untouched
  <2>10. CASE DeleteRecord(u)
    BY <1>0, <1>1, <2>10, UntouchedKept, StatusFacts DEF DeleteRecord, WithoutMedia, Untouched
  <2>11. ASSUME NEW p \in Processes, Upload(u, p) PROVE UploadInv(v)'
    BY <1>0, <1>1, <2>11, UntouchedKept, GotoFacts DEF Upload, Untouched, TypeOK, Pcs
  <2> QED BY <2>1, <2>2, <2>3, <2>4, <2>5, <2>6, <2>7, <2>8, <2>9, <2>10, <2>11 DEF Step
<1>2. UploadInv(u)'
  <2> USE DEF UploadInv, Early, Worked, Purged, Stored, Accounted, Completed, Uploaded, Progressed,
              EarlyPcs, UnfinishedPcs, RequestPcs, At
  <2>1. CASE CreateJob(u)
    BY <1>0, <2>1, GotoFacts, StatusFacts DEF CreateJob, Pcs, BackgroundPcs
  <2>2. CASE Cleanup(u) BY <1>0, <2>2, GotoFacts DEF Cleanup, Pcs
  <2>3. CASE Find(u) BY <1>0, <2>3, GotoFacts DEF Find, Pcs, BackgroundPcs
  <2>4. CASE Transcribe(u) BY <1>0, <2>4, GotoFacts DEF Transcribe, Call, Pcs, BackgroundPcs
  <2>5. CASE ToSummary(u)
    BY <1>0, <2>5, GotoFacts, StatusFacts DEF ToSummary, Pcs, BackgroundPcs
  <2>6. CASE Summarize(u) BY <1>0, <2>6, GotoFacts DEF Summarize, Call, Pcs, BackgroundPcs
  <2>7. CASE Finish(u) BY <1>0, <2>7, GotoFacts, StatusFacts DEF Finish, Pcs, BackgroundPcs
  <2>8. CASE MarkFailed(u) BY <1>0, <2>8, GotoFacts, StatusFacts DEF MarkFailed, Pcs
  <2>9. CASE Purge(u) BY <1>0, <2>9 DEF Purge
  <2>10. CASE DeleteRecord(u) BY <1>0, <2>10, StatusFacts DEF DeleteRecord, WithoutMedia
  <2>11. ASSUME NEW p \in Processes, Upload(u, p) PROVE UploadInv(u)'
    BY <1>0, <2>11, GotoFacts DEF Upload, TypeOK, Pcs, BackgroundPcs
  <2> QED BY <2>1, <2>2, <2>3, <2>4, <2>5, <2>6, <2>7, <2>8, <2>9, <2>10, <2>11 DEF Step
<1> QED BY <1>1, <1>2

\* A boot, a stop, or a deletion of the account.
LEMMA SharedStep ==
    ASSUME IInv,
           \/ \E p \in Processes : Boot(p) \/ Crash(p)
           \/ EraseRead \/ EraseCommit \/ UNCHANGED vars
    PROVE  \A v \in Uploads : UploadInv(v)'
<1> USE DEF rows, Others, ghosts
<1>0. TypeOK /\ \A v \in Uploads : UploadInv(v)
  BY DEF IInv
<1> SUFFICES ASSUME NEW v \in Uploads PROVE UploadInv(v)'
  OBVIOUS
<1> USE DEF UploadInv, Early, Worked, Purged, Stored, Accounted, Completed, Uploaded, Progressed,
            EarlyPcs, UnfinishedPcs, RequestPcs
<1>1. ASSUME NEW p \in Processes, Boot(p) PROVE UploadInv(v)'
  BY <1>0, <1>1 DEF Boot, Swept, SweptStatus, ProcessingStatuses, TypeOK
<1>2. ASSUME NEW p \in Processes, Crash(p) PROVE UploadInv(v)'
  BY <1>0, <1>2 DEF Crash, TypeOK
<1>3. CASE EraseRead
  BY <1>0, <1>3 DEF EraseRead
<1>4. CASE EraseCommit
  BY <1>0, <1>4 DEF EraseCommit, TypeOK
<1>5. CASE UNCHANGED vars
  BY <1>0, <1>5 DEF vars
<1> QED BY <1>1, <1>2, <1>3, <1>4, <1>5

LEMMA InitInv == Init => IInv
BY DEF Init, IInv, TypeOK, UploadInv, Early, Worked, Purged, Stored, Accounted, Completed, Uploaded, Progressed,
       EarlyPcs, UnfinishedPcs, RequestPcs, BackgroundPcs, Pcs, Statuses, ProcessingStatuses

LEMMA NextInv == IInv /\ [Next]_vars => IInv'
<1> SUFFICES ASSUME IInv, [Next]_vars PROVE IInv'
  OBVIOUS
<1>1. TypeOK'
  BY TypeStep DEF IInv
<1>2. \A v \in Uploads : UploadInv(v)'
  BY UploadStep, SharedStep DEF Next
<1> QED BY <1>1, <1>2 DEF IInv

-----------------------------------------------------------------------------
\* The rows, objects and tasks of voice-stt-job.service.ts satisfy IInv for ever.
THEOREM Invariance == Spec => []IInv
<1>1. Init => IInv
  BY InitInv
<1>2. IInv /\ [Next]_vars => IInv'
  BY NextInv
<1> QED BY <1>1, <1>2, PTL DEF Spec

\* Every row, object set and task keeps its type.
THEOREM TypeCorrect == Spec => []TypeOK
<1>1. IInv => TypeOK
  BY DEF IInv
<1> QED BY <1>1, Invariance, PTL

\* A media_files row names an existing object, whatever uploads, deletions and
\* compensations overlap (createAndStart, deleteRecord, deleteAccount).
THEOREM RowsHaveObjects == Spec => []RowHasObject
<1>1. IInv => RowHasObject
  BY DEF IInv, UploadInv, Stored, RowHasObject, TypeOK
<1> QED BY <1>1, Invariance, PTL

\* A record exists exactly while its job is COMPLETED (process, markFailed, the boot
\* sweep and the deletions).
THEOREM RecordsMatchJobs == Spec => []RecordIffCompleted
<1>1. IInv => RecordIffCompleted
  BY DEF IInv, UploadInv, Completed, RecordIffCompleted
<1> QED BY <1>1, Invariance, PTL

\* An object without a row still has code that will delete it, or was left by a throwing
\* upload, a stop, a failed S3 deletion or the erasure of the account (ghost `leaked`).
THEOREM ObjectsAccounted == Spec => []NoUnaccountedObject
<1>1. IInv => NoUnaccountedObject
  BY DEF IInv, UploadInv, Accounted, NoUnaccountedObject, TypeOK
<1> QED BY <1>1, Invariance, PTL

-----------------------------------------------------------------------------
(* VoiceSttJob implements SttJobLife                                       *)

Working == {u \in Uploads : task[u].pc \in BackgroundPcs}

\* How a step of one upload looks to the clients: the others see nothing of it.
LEMMA OneUpload ==
    ASSUME IInv, NEW u \in Uploads,
           Step(u) \/ DeleteRecord(u) \/ \E p \in Processes : Upload(u, p)
    PROVE  /\ \A v \in Uploads \ {u} : task'[v].pc = task[v].pc /\ job'[v] = job[v]
           /\ Polled' = [Polled EXCEPT ![u] = Polled'[u]]
           /\ Working' = IF task'[u].pc \in BackgroundPcs THEN Working \cup {u} ELSE Working \ {u}
           /\ Working = IF task[u].pc \in BackgroundPcs THEN Working \cup {u} ELSE Working \ {u}
<1>1. TypeOK
  BY DEF IInv
<1>2. \A v \in Uploads \ {u} : task'[v].pc = task[v].pc /\ job'[v] = job[v]
  <2> USE DEF Pcs, RequestPcs, BackgroundPcs, rows
  <2>1. CASE CreateJob(u) BY <1>1, <2>1, GotoFacts, StatusFacts DEF CreateJob
  <2>2. CASE Cleanup(u) BY <1>1, <2>2, GotoFacts DEF Cleanup
  <2>3. CASE Find(u) BY <1>1, <2>3, GotoFacts DEF Find
  <2>4. CASE Transcribe(u) \/ Summarize(u)
    BY <1>1, <2>4, GotoFacts DEF Transcribe, Summarize, Call
  <2>5. CASE ToSummary(u) BY <1>1, <2>5, GotoFacts, StatusFacts DEF ToSummary
  <2>6. CASE Finish(u) BY <1>1, <2>6, GotoFacts, StatusFacts DEF Finish
  <2>7. CASE MarkFailed(u) BY <1>1, <2>7, GotoFacts, StatusFacts DEF MarkFailed
  <2>8. CASE Purge(u) BY <2>8 DEF Purge
  <2>9. CASE DeleteRecord(u) BY <1>1, <2>9, StatusFacts DEF DeleteRecord
  <2>10. CASE \E p \in Processes : Upload(u, p) BY <1>1, <2>10, GotoFacts DEF Upload, TypeOK
  <2> QED BY <2>1, <2>2, <2>3, <2>4, <2>5, <2>6, <2>7, <2>8, <2>9, <2>10 DEF Step
<1>3. Polled' = [Polled EXCEPT ![u] = Polled'[u]]
  BY <1>2 DEF Polled
<1>4. Working' = IF task'[u].pc \in BackgroundPcs THEN Working \cup {u} ELSE Working \ {u}
  BY <1>2 DEF Working
<1> QED BY <1>2, <1>3, <1>4 DEF Working

\* What a client sees of an upload.
LEMMA Seen ==
    ASSUME NEW u \in Uploads
    PROVE  Polled[u] = IF job[u] # "none" THEN job[u]
                       ELSE IF task[u].pc \in EarlyPcs THEN "new" ELSE "gone"
BY DEF Polled, EarlyPcs

LEMMA SeenNext ==
    ASSUME NEW u \in Uploads
    PROVE  Polled'[u] = IF job'[u] # "none" THEN job'[u]
                        ELSE IF task'[u].pc \in EarlyPcs THEN "new" ELSE "gone"
BY DEF Polled, EarlyPcs

\* Steps that only move a task, or end it.
LEMMA Unseen ==
    ASSUME IInv, NEW u \in Uploads,
           Step(u) \/ DeleteRecord(u) \/ \E p \in Processes : Upload(u, p),
           job'[u] = job[u], UNCHANGED <<userExists, records>>,
           task'[u].pc \in EarlyPcs <=> task[u].pc \in EarlyPcs,
           task'[u].pc \in BackgroundPcs => task[u].pc \in BackgroundPcs
    PROVE  Life!Next \/ UNCHANGED Life!lifeVars
<1>0. \A v \in Uploads : job'[v] = job[v] /\ (task'[v].pc \in EarlyPcs <=> task[v].pc \in EarlyPcs)
  BY OneUpload
<1>1. Polled' = Polled
  BY <1>0 DEF Polled, EarlyPcs
<1>2. Working' = Working \/ Working' = Working \ {u}
  BY OneUpload
<1>3. CASE Working' = Working
  BY <1>1, <1>3 DEF Life!lifeVars, Working
<1>4. CASE Working' = Working \ {u}
  <2>1. Polled' = [v \in Uploads |-> IF v \in {u} /\ Polled[v] = "new" THEN "gone" ELSE Polled[v]]
        \/ Polled[u] = "new"
    BY <1>1 DEF Polled
  <2>2. Polled[u] = "new" => Working' = Working
    <3>1. job[u] # "new"
      BY DEF IInv, TypeOK, Statuses, ProcessingStatuses
    <3>2. Polled[u] = "new" => u \notin Working
      BY <3>1, Seen DEF Working, EarlyPcs, BackgroundPcs
    <3> QED BY <1>4, <3>2
  <2>3. CASE Polled[u] # "new"
    <3>1. Life!Abandon({u})
      BY <1>4, <2>1, <2>3 DEF Life!Abandon, Working
    <3> QED BY <3>1 DEF Life!Next
  <2> QED BY <1>1, <1>3, <2>2, <2>3
<1> QED BY <1>2, <1>3, <1>4

\* A request that ends before it has a job.
LEMMA RefusedLife ==
    ASSUME IInv, NEW u \in Uploads, CreateJob(u) \/ \E p \in Processes : Upload(u, p),
           Polled[u] = "new", job'[u] = "none", task'[u].pc \in {"cleanup", "ended"},
           UNCHANGED <<userExists, records>>
    PROVE  Life!Next
<1>0. /\ Step(u) \/ DeleteRecord(u) \/ \E p \in Processes : Upload(u, p)
      /\ task'[u].pc \notin BackgroundPcs
  BY DEF Step, BackgroundPcs
<1>1. Polled' = [Polled EXCEPT ![u] = Polled'[u]] /\ Working' = Working \ {u}
  BY <1>0, OneUpload
<1>2. Polled'[u] = "gone"
  BY SeenNext DEF EarlyPcs
<1>3. Polled' = [v \in Uploads |-> IF v \in {u} /\ Polled[v] = "new" THEN "gone" ELSE Polled[v]]
  <2>1. Polled = [v \in Uploads |-> Polled[v]]
    BY DEF Polled
  <2> QED BY <1>1, <1>2, <2>1
<1>4. Life!Abandon({u})
  BY <1>1, <1>3 DEF Life!Abandon, Working
<1> QED BY <1>4 DEF Life!Next

LEMMA CreateJobLife ==
    ASSUME IInv, NEW u \in Uploads, CreateJob(u) PROVE Life!Next \/ UNCHANGED Life!lifeVars
<1>1. /\ Polled' = [Polled EXCEPT ![u] = Polled'[u]]
      /\ Working' = IF task'[u].pc \in BackgroundPcs THEN Working \cup {u} ELSE Working \ {u}
      /\ Working = Working \ {u}
  BY OneUpload DEF Step, CreateJob, At, BackgroundPcs
<1>2. TypeOK /\ job[u] = "none" /\ Polled[u] = "new"
  BY Seen DEF IInv, UploadInv, Early, EarlyPcs, CreateJob, At
<1>3. CASE userExists /\ SetStatus(u, "STT_PROCESSING")
  <2>1. /\ Polled'[u] = "STT_PROCESSING" /\ Working' \in {Working, Working \cup {u}}
        /\ UNCHANGED <<userExists, records>>
    BY <1>1, <1>2, <1>3, SeenNext, StatusFacts DEF CreateJob
  <2>2. Life!Accept(u)
    BY <1>1, <1>2, <1>3, <2>1 DEF Life!Accept, Life!Become, Working
  <2> QED BY <2>2 DEF Life!Next
<1>4. CASE Goto(u, "cleanup") /\ UNCHANGED <<media, job, ackLost, stranded>>
  <2>1. task'[u].pc = "cleanup"
    BY <1>2, <1>4, GotoFacts DEF Pcs, RequestPcs
  <2> QED BY <1>2, <1>4, <2>1, RefusedLife DEF CreateJob
<1> QED BY <1>3, <1>4 DEF CreateJob

LEMMA ToSummaryLife ==
    ASSUME IInv, NEW u \in Uploads, ToSummary(u) PROVE Life!Next \/ UNCHANGED Life!lifeVars
<1>1. TypeOK /\ task[u].pc = "toSummary" /\ u \in Working /\ UNCHANGED <<userExists, records>>
  BY DEF IInv, ToSummary, At, Working, BackgroundPcs, Background
<1>2. CASE job[u] # "none" /\ SetStatus(u, "SUMMARY_PROCESSING") /\ (Goto(u, "summarize") \/ Goto(u, "markFailed"))
  <2>1. task'[u].pc \in {"summarize", "markFailed"} /\ job'[u] = "SUMMARY_PROCESSING"
    BY <1>1, <1>2, GotoFacts, StatusFacts DEF Pcs, BackgroundPcs
  <2>2. u \notin records /\ Polled[u] \in {"STT_PROCESSING", "FAILED"}
    BY <1>1, <1>2, Seen DEF IInv, UploadInv, Worked, Completed, Progressed, UnfinishedPcs, TypeOK, Statuses,
                            ProcessingStatuses
  <2>3. Polled' = [Polled EXCEPT ![u] = "SUMMARY_PROCESSING"] /\ Working' = Working
    BY <1>1, <2>1, OneUpload, SeenNext DEF Step, BackgroundPcs
  <2>4. Life!Summarise(u)
    BY <1>1, <2>2, <2>3 DEF Life!Summarise, Life!Become, Working
  <2> QED BY <2>4 DEF Life!Next
<1>3. CASE Goto(u, "markFailed") /\ UNCHANGED job
  BY <1>1, <1>3, GotoFacts, Unseen DEF Step, Pcs, BackgroundPcs, EarlyPcs
<1> QED BY <1>2, <1>3 DEF ToSummary

LEMMA FinishLife ==
    ASSUME IInv, NEW u \in Uploads, Finish(u) PROVE Life!Next \/ UNCHANGED Life!lifeVars
<1>1. TypeOK /\ task[u].pc = "finish" /\ u \in Working /\ UNCHANGED userExists
  BY DEF IInv, Finish, At, Working, BackgroundPcs
<1>2. CASE job[u] # "none" /\ records' = records \cup {u} /\ SetStatus(u, "COMPLETED")
  <2>1. job'[u] = "COMPLETED"
    BY <1>1, <1>2, StatusFacts
  <2>2. u \notin records /\ Polled[u] \in {"SUMMARY_PROCESSING", "FAILED"}
    BY <1>1, <1>2, Seen DEF IInv, UploadInv, Worked, Completed, Progressed, UnfinishedPcs, TypeOK, Statuses,
                            ProcessingStatuses
  <2>3. Polled' = [Polled EXCEPT ![u] = "COMPLETED"] /\ Working' \in {Working, Working \ {u}}
    BY <1>1, <2>1, OneUpload, SeenNext DEF Step
  <2>4. Life!Complete(u)
    BY <1>1, <1>2, <2>2, <2>3 DEF Life!Complete, Life!Become, Working
  <2> QED BY <2>4 DEF Life!Next
<1>3. CASE Goto(u, "markFailed") /\ UNCHANGED <<records, job, ackLost>>
  BY <1>1, <1>3, GotoFacts, Unseen DEF Step, Pcs, BackgroundPcs, EarlyPcs
<1> QED BY <1>2, <1>3 DEF Finish

LEMMA MarkFailedLife ==
    ASSUME IInv, NEW u \in Uploads, MarkFailed(u) PROVE Life!Next \/ UNCHANGED Life!lifeVars
<1>1. /\ TypeOK /\ task[u].pc = "markFailed" /\ u \in Working /\ task'[u].pc = "ended"
      /\ UNCHANGED <<userExists, records>>
  BY GotoFacts DEF IInv, MarkFailed, At, Working, BackgroundPcs, Background, Pcs
<1>2. CASE job[u] # "none" /\ SetStatus(u, "FAILED")
  <2>1. job'[u] = "FAILED" /\ Polled[u] # "gone"
    BY <1>1, <1>2, Seen, StatusFacts DEF TypeOK, Statuses, ProcessingStatuses
  <2>2. Polled' = [Polled EXCEPT ![u] = "FAILED"] /\ Working' = Working \ {u}
    BY <1>1, <2>1, OneUpload, SeenNext DEF Step, BackgroundPcs
  <2>3. Life!Fail(u)
    BY <1>1, <2>1, <2>2 DEF Life!Fail, Life!Become, Working
  <2> QED BY <2>3 DEF Life!Next
<1>3. CASE UNCHANGED job
  BY <1>1, <1>3, Unseen DEF Step, BackgroundPcs, EarlyPcs
<1> QED BY <1>2, <1>3 DEF MarkFailed

\* A step of one upload is a step of its life, or stutters.
LEMMA UploadLife ==
    ASSUME IInv, NEW u \in Uploads,
           Step(u) \/ DeleteRecord(u) \/ \E p \in Processes : Upload(u, p)
    PROVE  Life!Next \/ UNCHANGED Life!lifeVars
<1>1. TypeOK /\ UploadInv(u)
  BY DEF IInv
<1>2. CASE Cleanup(u) \/ Find(u) \/ Transcribe(u) \/ Summarize(u)
  <2>1. UNCHANGED <<userExists, records, job>> /\ task[u].pc \notin EarlyPcs /\ task'[u].pc \notin EarlyPcs
    <3> USE DEF At, Pcs, BackgroundPcs, EarlyPcs
    <3>1. CASE Cleanup(u) BY <1>1, <3>1, GotoFacts DEF Cleanup, rows
    <3>2. CASE Find(u) BY <1>1, <3>2, GotoFacts DEF Find, Background
    <3>3. CASE Transcribe(u) BY <1>1, <3>3, GotoFacts DEF Transcribe, Call, Background
    <3>4. CASE Summarize(u) BY <1>1, <3>4, GotoFacts DEF Summarize, Call, Background
    <3> QED BY <1>2, <3>1, <3>2, <3>3, <3>4
  <2>2. task'[u].pc \in BackgroundPcs => task[u].pc \in BackgroundPcs
    BY <1>1, <1>2, GotoFacts DEF Cleanup, Find, Transcribe, Summarize, Call, At, Pcs, BackgroundPcs
  <2> QED BY <1>2, <2>1, <2>2, Unseen DEF Step
<1>3. CASE Purge(u)
  BY <1>3, Unseen DEF Purge, Step, rows
<1>4. CASE \E p \in Processes : Upload(u, p)
  <2>1. /\ task[u].pc = "idle" /\ task'[u].pc \in {"createJob", "ended"}
        /\ UNCHANGED <<userExists, records, job>>
    BY <1>1, <1>4, GotoFacts DEF Upload, At, rows, TypeOK, Pcs
  <2>2. CASE task'[u].pc = "createJob"
    BY <1>4, <2>1, <2>2, Unseen DEF EarlyPcs, BackgroundPcs
  <2>3. CASE task'[u].pc = "ended"
    <3>1. job[u] = "none" /\ Polled[u] = "new"
      BY <1>1, <2>1, Seen DEF UploadInv, Early, EarlyPcs
    <3> QED BY <1>4, <2>1, <2>3, <3>1, RefusedLife
  <2> QED BY <2>1, <2>2, <2>3
<1>5. CASE DeleteRecord(u)
  <2>1. job'[u] = "none" /\ UNCHANGED <<userExists, task>> /\ u \in records /\ records' = records \ {u}
    BY <1>1, <1>5, StatusFacts DEF DeleteRecord
  <2>2. task[u].pc \notin EarlyPcs
    BY <1>1, <2>1 DEF UploadInv, Early
  <2>3. Polled' = [Polled EXCEPT ![u] = "gone"] /\ Working' = Working
    BY <1>5, <2>1, <2>2, OneUpload, SeenNext
  <2>4. Life!DeleteRecord(u)
    BY <2>1, <2>3 DEF Life!DeleteRecord, Life!Become, Working
  <2> QED BY <2>4 DEF Life!Next
<1> QED BY <1>2, <1>3, <1>4, <1>5, CreateJobLife, ToSummaryLife, FinishLife, MarkFailedLife DEF Step

\* A boot is a sweep, a stop abandons what the process worked on, and the account goes.
LEMMA SharedLife ==
    ASSUME IInv,
           \/ \E p \in Processes : Boot(p) \/ Crash(p)
           \/ EraseRead \/ EraseCommit \/ UNCHANGED vars
    PROVE  Life!Next \/ UNCHANGED Life!lifeVars
<1>1. TypeOK /\ \A v \in Uploads : UploadInv(v)
  BY DEF IInv
<1>2. ASSUME NEW p \in Processes, Boot(p) PROVE Life!Next
  <2>1. /\ \A v \in Uploads : job'[v] = IF job[v] \in ProcessingStatuses THEN "FAILED" ELSE job[v]
        /\ UNCHANGED <<userExists, records, task>>
    BY <1>1, <1>2 DEF Boot, Swept, SweptStatus, TypeOK
  <2>2. Polled' = [v \in Uploads |-> IF Polled[v] \in Life!Running THEN "FAILED" ELSE Polled[v]]
    BY <2>1 DEF Polled, Life!Running, ProcessingStatuses
  <2>3. Life!Sweep
    BY <2>1, <2>2 DEF Life!Sweep
  <2> QED BY <2>3 DEF Life!Next
<1>3. ASSUME NEW p \in Processes, Crash(p) PROVE Life!Next
  <2> PICK dying : dying = {u \in Uploads : task[u].proc = p}
    OBVIOUS
  <2>1. /\ dying \subseteq Uploads /\ UNCHANGED <<userExists, records, job>>
        /\ \A v \in Uploads : task'[v] = IF v \in dying THEN [pc |-> "dead", proc |-> None] ELSE task[v]
    BY <1>3 DEF Crash, rows
  <2>2. Polled' = [v \in Uploads |-> IF v \in dying /\ Polled[v] = "new" THEN "gone" ELSE Polled[v]]
    BY <1>1, <2>1 DEF Polled, TypeOK, Statuses, ProcessingStatuses
  <2>3. Working' = Working \ dying
    BY <2>1 DEF Working, BackgroundPcs
  <2>4. Life!Abandon(dying)
    BY <2>1, <2>2, <2>3 DEF Life!Abandon, Working
  <2> QED BY <2>1, <2>4 DEF Life!Next
<1>4. CASE EraseRead
  BY <1>4 DEF EraseRead, rows, Life!lifeVars, Polled
<1>5. CASE EraseCommit
  <2>1. Polled' = [v \in Uploads |-> IF Polled[v] = "new" THEN "new" ELSE "gone"]
    BY <1>1, <1>5 DEF EraseCommit, Polled, TypeOK, Statuses, ProcessingStatuses, UploadInv, Early, EarlyPcs
  <2>2. Life!DeleteAccount
    BY <1>5, <2>1 DEF EraseCommit, Life!DeleteAccount
  <2> QED BY <2>2 DEF Life!Next
<1>6. CASE UNCHANGED vars
  BY <1>6 DEF vars, rows, Life!lifeVars, Polled
<1> QED BY <1>2, <1>3, <1>4, <1>5, <1>6

LEMMA LifeStep == IInv /\ [Next]_vars => [Life!Next]_Life!lifeVars
BY UploadLife, SharedLife DEF Next

LEMMA LifeInit == Init => Life!Init
BY DEF Init, Life!Init, Polled, BackgroundPcs

\* A polling client sees SttJobLife: jobs go forward by their own work, records come with
\* COMPLETED, and nothing deleted comes back (process, markFailed, the boot sweep and
\* both deletions, for any number of uploads, processes and stops).
THEOREM Refinement == Spec => ImplementsJobLife
BY LifeInit, LifeStep, Invariance, PTL DEF Spec, ImplementsJobLife, Life!Spec

-----------------------------------------------------------------------------
(* What follows for the rows                                               *)

\* A job that is settled, and that nobody works on, is changed by a deletion only: no
\* sweep, boot or late answer reopens what a client has seen the end of.
SettledStays ==
    [][\A u \in Uploads :
          job[u] \in {"COMPLETED", "FAILED"} /\ task[u].pc \notin BackgroundPcs
              => job'[u] \in {job[u], "none"}]_vars

\* A job that was deleted, or never made, does not appear any more.
GoneStays ==
    [][\A u \in Uploads :
          job[u] = "none" /\ task[u].pc \notin EarlyPcs
              => job'[u] = "none" /\ task'[u].pc \notin EarlyPcs]_vars

LEMMA PolledStays ==
    ASSUME IInv, Life!Next \/ UNCHANGED Life!lifeVars, NEW u \in Uploads
    PROVE  /\ Polled[u] = "gone" => Polled'[u] = "gone"
           /\ Polled[u] \in {"COMPLETED", "FAILED"} /\ u \notin Working
                 => Polled'[u] \in {Polled[u], "gone"}
<1> USE DEF Life!Become, Working
<1>1. Polled = [v \in Uploads |-> Polled[v]]
  BY DEF Polled
<1>2. ASSUME NEW v \in Uploads, Life!Accept(v) \/ Life!Summarise(v) \/ Life!Complete(v) \/ Life!Fail(v)
                                \/ Life!DeleteRecord(v)
      PROVE  /\ Polled[u] = "gone" => Polled'[u] = "gone"
             /\ Polled[u] \in {"COMPLETED", "FAILED"} /\ u \notin Working
                   => Polled'[u] \in {Polled[u], "gone"}
  <2>1. \E s : Polled' = [Polled EXCEPT ![v] = s]
    BY <1>2 DEF Life!Accept, Life!Summarise, Life!Complete, Life!Fail, Life!DeleteRecord
  <2>2. CASE u # v
    BY <1>1, <2>1, <2>2
  <2>3. CASE u = v
    BY <1>1, <1>2, <2>3 DEF Life!Accept, Life!Summarise, Life!Complete, Life!Fail, Life!DeleteRecord
  <2> QED BY <2>2, <2>3
<1>3. CASE (\E us \in SUBSET Uploads : Life!Abandon(us)) \/ Life!Sweep \/ Life!DeleteAccount
  BY <1>3 DEF Life!Abandon, Life!Sweep, Life!DeleteAccount, Life!Running
<1>4. CASE UNCHANGED Life!lifeVars
  BY <1>4 DEF Life!lifeVars
<1> QED BY <1>2, <1>3, <1>4 DEF Life!Next

\* The same of every behaviour.
THEOREM SettledForGood == Spec => SettledStays /\ GoneStays
<1>1. ASSUME IInv, [Next]_vars, NEW u \in Uploads
      PROVE  /\ job[u] \in {"COMPLETED", "FAILED"} /\ task[u].pc \notin BackgroundPcs
                    => job'[u] \in {job[u], "none"}
             /\ job[u] = "none" /\ task[u].pc \notin EarlyPcs
                    => job'[u] = "none" /\ task'[u].pc \notin EarlyPcs
  <2>1. /\ Polled[u] = "gone" => Polled'[u] = "gone"
        /\ Polled[u] \in {"COMPLETED", "FAILED"} /\ u \notin Working
              => Polled'[u] \in {Polled[u], "gone"}
    BY <1>1, UploadLife, SharedLife, PolledStays DEF Next
  <2>2. TypeOK /\ TypeOK'
    BY <1>1, NextInv DEF IInv
  <2> QED BY <2>1, <2>2, Seen, SeenNext DEF TypeOK, Statuses, ProcessingStatuses, Working
<1>2. IInv /\ [Next]_vars
      => /\ [\A u \in Uploads :
               job[u] \in {"COMPLETED", "FAILED"} /\ task[u].pc \notin BackgroundPcs
                   => job'[u] \in {job[u], "none"}]_vars
         /\ [\A u \in Uploads :
               job[u] = "none" /\ task[u].pc \notin EarlyPcs
                   => job'[u] = "none" /\ task'[u].pc \notin EarlyPcs]_vars
  BY <1>1
<1> QED BY <1>2, Invariance, PTL DEF Spec, SettledStays, GoneStays

-----------------------------------------------------------------------------
(* No job is forgotten                                                     *)

\* A job in PROCESSING is being worked on, or no process runs and the next one to boot
\* fails it, or the code itself lost it: the process stopped beside another, or the
\* answer or the error that would have settled it was lost.
Attended(u) == Processing(u) => u \in Working \/ up = {} \/ u \in stranded

LEMMA AttendedStep ==
    ASSUME IInv, NEW v \in Uploads, Attended(v), [Next]_vars
    PROVE  Attended(v)'
<1> USE DEF Attended, Processing, Working, ProcessingStatuses, rows, Others, ghosts, Background
<1>0. TypeOK /\ UploadInv(v)
  BY DEF IInv
<1>1. ASSUME NEW u \in Uploads,
             Step(u) \/ DeleteRecord(u) \/ \E p \in Processes : Upload(u, p), u # v
      PROVE  Attended(v)'
  <2>1. task'[v].pc = task[v].pc /\ job'[v] = job[v]
    BY <1>1, OneUpload
  <2>2. UNCHANGED up /\ stranded \subseteq stranded'
    BY <1>1 DEF Step, CreateJob, Cleanup, Find, Transcribe, Summarize, Call, ToSummary, Finish,
                MarkFailed, Purge, DeleteRecord, Upload
  <2> QED BY <2>1, <2>2
<1>2. ASSUME Step(v) \/ DeleteRecord(v) \/ \E p \in Processes : Upload(v, p)
      PROVE  Attended(v)'
  <2> USE <1>0 DEF At, Pcs, RequestPcs, BackgroundPcs
  <2>1. CASE CreateJob(v) BY <2>1, GotoFacts, StatusFacts DEF CreateJob, UploadInv, Early, EarlyPcs
  <2>2. CASE Cleanup(v) BY <2>2, GotoFacts DEF Cleanup
  <2>3. CASE Find(v) BY <2>3, GotoFacts DEF Find
  <2>4. CASE Transcribe(v) \/ Summarize(v)
    BY <2>4, GotoFacts DEF Transcribe, Summarize, Call
  <2>5. CASE ToSummary(v) BY <2>5, GotoFacts, StatusFacts DEF ToSummary
  <2>6. CASE Finish(v) BY <2>6, GotoFacts, StatusFacts DEF Finish
  <2>7. CASE MarkFailed(v) BY <2>7, GotoFacts, StatusFacts DEF MarkFailed
  <2>8. CASE Purge(v) BY <2>8 DEF Purge
  <2>9. CASE DeleteRecord(v) BY <2>9, StatusFacts DEF DeleteRecord
  <2>10. CASE \E p \in Processes : Upload(v, p)
    BY <2>10 DEF Upload, UploadInv, Early, EarlyPcs
  <2> QED BY <1>2, <2>1, <2>2, <2>3, <2>4, <2>5, <2>6, <2>7, <2>8, <2>9, <2>10 DEF Step
<1>3. ASSUME NEW p \in Processes, Boot(p) PROVE Attended(v)'
  BY <1>0, <1>3 DEF Boot, Swept, SweptStatus
<1>4. ASSUME NEW p \in Processes, Crash(p) PROVE Attended(v)'
  BY <1>0, <1>4 DEF Crash, TypeOK
<1>5. CASE EraseRead
  BY <1>5 DEF EraseRead
<1>6. CASE EraseCommit
  BY <1>6 DEF EraseCommit
<1>7. CASE UNCHANGED vars
  BY <1>7 DEF vars
<1> QED BY <1>1, <1>2, <1>3, <1>4, <1>5, <1>6, <1>7 DEF Next

\* Whatever way process, markFailed, a stop or a boot end the work on a job, somebody is
\* left to settle it, or the cause why nobody is was recorded.
THEOREM NoJobIsForgotten == Spec => [](\A u \in Uploads : Attended(u))
<1>1. Init => \A u \in Uploads : Attended(u)
  BY DEF Init, Attended, Processing, ProcessingStatuses
<1>2. IInv /\ (\A u \in Uploads : Attended(u)) /\ [Next]_vars => (\A u \in Uploads : Attended(u))'
  BY AttendedStep
<1> QED BY <1>1, <1>2, Invariance, PTL DEF Spec

-----------------------------------------------------------------------------
(* Nothing of a deleted account comes back                                 *)

\* After deleteAccount no upload has a row, although requests and background work of
\* the account go on in any process.
ErasedAccountIsEmpty ==
    ~userExists => media = {} /\ records = {} /\ \A u \in Uploads : job[u] = "none"

LEMMA ErasedStep ==
    ASSUME IInv, ErasedAccountIsEmpty, [Next]_vars
    PROVE  ErasedAccountIsEmpty'
<1> USE DEF ErasedAccountIsEmpty, rows, Others, ghosts, Background, Pcs, RequestPcs, BackgroundPcs
<1>0. TypeOK
  BY DEF IInv
<1> SUFFICES ASSUME ~userExists' PROVE media' = {} /\ records' = {} /\ \A v \in Uploads : job'[v] = "none"
  OBVIOUS
<1>1. CASE EraseCommit
  BY <1>1 DEF EraseCommit
<1>2. CASE ~EraseCommit
  <2>1. ~userExists
    BY <1>2 DEF Next, Step, CreateJob, Cleanup, Find, Transcribe, Summarize, Call, ToSummary, Finish,
                MarkFailed, Purge, DeleteRecord, Upload, Boot, Crash, EraseRead, vars
  <2>2. media = {} /\ records = {} /\ \A v \in Uploads : job[v] = "none"
    BY <2>1
  <2>3. ASSUME NEW u \in Uploads,
               Step(u) \/ DeleteRecord(u) \/ \E p \in Processes : Upload(u, p)
        PROVE  media' = {} /\ records' = {} /\ job'[u] = "none"
    <3>1. CASE CreateJob(u) \/ Cleanup(u) \/ Find(u)
      BY <2>1, <2>2, <3>1 DEF CreateJob, Cleanup, Find
    <3>2. CASE Transcribe(u) \/ Summarize(u) \/ ToSummary(u)
      BY <2>2, <3>2 DEF Transcribe, Summarize, Call, ToSummary
    <3>3. CASE Finish(u) \/ MarkFailed(u) \/ Purge(u)
      BY <2>1, <2>2, <3>3 DEF Finish, MarkFailed, Purge
    <3>4. CASE DeleteRecord(u) \/ \E p \in Processes : Upload(u, p)
      BY <2>2, <3>4 DEF DeleteRecord, Upload
    <3> QED BY <2>3, <3>1, <3>2, <3>3, <3>4 DEF Step
  <2>4. ASSUME NEW u \in Uploads,
               Step(u) \/ DeleteRecord(u) \/ \E p \in Processes : Upload(u, p)
        PROVE  \A v \in Uploads : job'[v] = "none"
    BY <2>2, <2>3, <2>4, OneUpload
  <2>5. CASE (\E p \in Processes : Boot(p) \/ Crash(p)) \/ EraseRead \/ UNCHANGED vars
    BY <2>2, <2>5 DEF Boot, Crash, EraseRead, vars, Swept, ProcessingStatuses
  <2> QED BY <1>2, <2>3, <2>4, <2>5 DEF Next
<1> QED BY <1>1, <1>2

\* deleteAccount is final for the rows: a transaction that needs the users row fails
\* after it, and an update by id brings no row back.
THEOREM ErasedForGood == Spec => []ErasedAccountIsEmpty
<1>1. Init => ErasedAccountIsEmpty
  BY DEF Init, ErasedAccountIsEmpty
<1>2. IInv /\ ErasedAccountIsEmpty /\ [Next]_vars => ErasedAccountIsEmpty'
  BY ErasedStep
<1> QED BY <1>1, <1>2, Invariance, PTL DEF Spec
=============================================================================

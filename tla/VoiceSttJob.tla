------------------------------ MODULE VoiceSttJob ------------------------------
(***************************************************************************)
(* Voice uploads of ONE user: voice-stt-job.service.ts (upload, job row,   *)
(* background transcription and summary, sweep at boot), deleteRecord of   *)
(* record.service.ts and the rows and S3 objects deleteAccount removes.    *)
(*                                                                         *)
(* An upload stands for everything it creates: its S3 object, its          *)
(* media_files row, its voice_stt_jobs row and its record.  The rows live  *)
(* in PostgreSQL, the object in S3, and the background work only in the    *)
(* memory of the process that took the upload: each await is a step, any   *)
(* of them may throw, and processes stop and start (ECS replaces a task by *)
(* a rolling deployment, so the old and the new one overlap).              *)
(***************************************************************************)
EXTENDS Naturals, FiniteSets

CONSTANTS
    Uploads,        \* POST /record/voice/stt requests
    Processes,      \* server processes
    None,           \* no process
    MaxCrashes      \* bound: processes that stop

ASSUME NamesAssumption == None \notin Processes /\ MaxCrashes \in Nat

VARIABLES
    userExists,     \* the users row
    stored,         \* uploads whose object is in S3
    media,          \* uploads with a media_files row
    job,            \* voice_stt_jobs.status, or "none"
    records,        \* uploads with a records row
    task,           \* where the request or its background work is, and in which process
    up,             \* processes that have booted
    purging,        \* uploads whose rows were deleted and whose S3 deletion is under way
    erasing,        \* deleteAccount: the keys its findMany returned, once it ran
    crashes,        \* bounded counter
    ackLost,        \* ghost: a commit of theirs was reported as an error
    stranded,       \* ghost: no code is left that would settle the job
    leaked          \* ghost: no code is left that would delete the object

rows == <<userExists, media, job, records>>
ghosts == <<ackLost, stranded, leaked>>
vars == <<rows, stored, task, up, purging, erasing, crashes, ghosts>>

-----------------------------------------------------------------------------
ProcessingStatuses == {"STT_PROCESSING", "SUMMARY_PROCESSING"}
Statuses == ProcessingStatuses \cup {"none", "COMPLETED", "FAILED"}
RequestPcs == {"createJob", "cleanup"}
BackgroundPcs == {"find", "transcribe", "toSummary", "summarize", "finish", "markFailed"}
Pcs == {"idle", "ended", "dead"} \cup RequestPcs \cup BackgroundPcs

\* Type invariant: the rows, the objects and the tasks keep their types.
TypeOK ==
    /\ userExists \in BOOLEAN
    /\ stored \subseteq Uploads /\ media \subseteq Uploads /\ records \subseteq Uploads
    /\ job \in [Uploads -> Statuses]
    /\ task \in [Uploads -> [pc : Pcs, proc : Processes \cup {None}]]
    /\ up \subseteq Processes
    /\ purging \subseteq Uploads
    /\ erasing \in [keys : SUBSET Uploads] \cup {None}
    /\ crashes \in 0..MaxCrashes
    /\ ackLost \subseteq Uploads /\ stranded \subseteq Uploads /\ leaked \subseteq Uploads

Init ==
    /\ userExists = TRUE
    /\ stored = {} /\ media = {} /\ records = {}
    /\ job = [u \in Uploads |-> "none"]
    /\ task = [u \in Uploads |-> [pc |-> "idle", proc |-> None]]
    /\ up = {} /\ purging = {} /\ erasing = None /\ crashes = 0
    /\ ackLost = {} /\ stranded = {} /\ leaked = {}

Processing(u) == job[u] \in ProcessingStatuses
At(u, pc) == task[u].pc = pc
Goto(u, pc) ==
    task' = [task EXCEPT ![u] = [pc |-> pc, proc |-> IF pc = "ended" THEN None ELSE @.proc]]
SetStatus(u, status) == job' = [job EXCEPT ![u] = status]
Others == <<up, purging, erasing, crashes>>

-----------------------------------------------------------------------------
(* createAndStart                                                          *)

\* uploadFile, which stands before the try: it answers, and the object exists with no
\* row yet; or it throws (or p stops during the PUT), and S3 may have kept the object.
Upload(u, p) ==
    /\ At(u, "idle") /\ p \in up
    /\ \/ /\ stored' = stored \cup {u} /\ UNCHANGED leaked
          /\ task' = [task EXCEPT ![u] = [pc |-> "createJob", proc |-> p]]
       \/ /\ Goto(u, "ended")
          /\ \/ UNCHANGED <<stored, leaked>>
             \/ stored' = stored \cup {u} /\ leaked' = leaked \cup {u}
    /\ UNCHANGED <<rows, Others, ackLost, stranded>>

\* One transaction for the media_files row and the job; both need the users row.  A
\* commit whose answer is lost throws here although the rows are there.
CreateJob(u) ==
    /\ At(u, "createJob")
    /\ \/ /\ userExists
          /\ media' = media \cup {u} /\ SetStatus(u, "STT_PROCESSING")
          /\ \/ Goto(u, "find") /\ UNCHANGED <<ackLost, stranded>>
             \/ /\ Goto(u, "cleanup")
                /\ ackLost' = ackLost \cup {u} /\ stranded' = stranded \cup {u}
       \/ Goto(u, "cleanup") /\ UNCHANGED <<media, job, ackLost, stranded>>
    /\ UNCHANGED <<userExists, stored, records, leaked, Others>>

NoCleanup(u) ==                 \* mutant of Cleanup: the error is rethrown at once
    /\ At(u, "cleanup") /\ Goto(u, "ended")
    /\ UNCHANGED <<rows, stored, Others, ghosts>>

\* The compensation: deleteFiles, best effort, then the error goes to the client.
Cleanup(u) ==
    /\ At(u, "cleanup") /\ Goto(u, "ended")
    /\ \/ stored' = stored \ {u} /\ UNCHANGED leaked
       \/ leaked' = leaked \cup {u} /\ UNCHANGED stored
    /\ UNCHANGED <<rows, Others, ackLost, stranded>>

-----------------------------------------------------------------------------
(* process: the background work, detached from the request                 *)

Background == <<userExists, stored, media, ackLost, leaked, Others>>

\* findUnique: a missing row ends the work, and so does an error (it is only logged,
\* the job stays as it is).
Find(u) ==
    /\ At(u, "find")
    /\ \/ job[u] # "none" /\ Goto(u, "transcribe") /\ UNCHANGED stranded
       \/ job[u] = "none" /\ Goto(u, "ended") /\ UNCHANGED stranded
       \/ Goto(u, "ended") /\ stranded' = stranded \cup {u}
    /\ UNCHANGED <<Background, job, records>>

\* downsample and transcribe, then summarize: an answer, or an exception.
Call(u, pc, next) ==
    /\ At(u, pc)
    /\ Goto(u, next) \/ Goto(u, "markFailed")
    /\ UNCHANGED <<Background, job, records, stranded>>
Transcribe(u) == Call(u, "transcribe", "toSummary")
Summarize(u) == Call(u, "summarize", "finish")

UpsertSummary(u) ==            \* mutant of ToSummary: an upsert brings a deleted job back
    /\ At(u, "toSummary") /\ SetStatus(u, "SUMMARY_PROCESSING") /\ Goto(u, "summarize")
    /\ UNCHANGED <<Background, records, stranded>>

\* update { where: { id } }: whatever status the row has; a deleted row throws, and so
\* does an update whose answer is lost.
ToSummary(u) ==
    /\ At(u, "toSummary")
    /\ \/ /\ job[u] # "none" /\ SetStatus(u, "SUMMARY_PROCESSING")
          /\ Goto(u, "summarize") \/ Goto(u, "markFailed")
       \/ Goto(u, "markFailed") /\ UNCHANGED job
    /\ UNCHANGED <<Background, records, stranded>>

\* One transaction: record, keywords, memo, and the job COMPLETED.  A deleted job
\* rolls the record back; a commit whose answer is lost goes to markFailed.
Finish(u) ==
    /\ At(u, "finish")
    /\ \/ /\ userExists /\ job[u] # "none"
          /\ records' = records \cup {u} /\ SetStatus(u, "COMPLETED")
          /\ \/ Goto(u, "ended") /\ UNCHANGED ackLost
             \/ Goto(u, "markFailed") /\ ackLost' = ackLost \cup {u}
       \/ Goto(u, "markFailed") /\ UNCHANGED <<records, job, ackLost>>
    /\ UNCHANGED <<userExists, stored, media, leaked, stranded, Others>>

\* The update, or an error that is only logged.
MarkFailed(u) ==
    /\ At(u, "markFailed") /\ Goto(u, "ended")
    /\ \/ job[u] # "none" /\ SetStatus(u, "FAILED") /\ UNCHANGED stranded
       \/ job[u] = "none" /\ UNCHANGED <<job, stranded>>
       \/ stranded' = stranded \cup {u} /\ UNCHANGED job
    /\ UNCHANGED <<Background, records>>

-----------------------------------------------------------------------------
(* Processes                                                               *)

EveryJob == Statuses \ {"none"} \* mutant of Swept: the status condition is dropped
SttOnly == {"STT_PROCESSING"}   \* mutant of Swept: jobs in their summary are forgotten
Swept == ProcessingStatuses

CodeAsStatus == "SERVER_RESTARTED"  \* mutant of SweptStatus: the error code in its place
SweptStatus == "FAILED"

\* onModuleInit fails every job in PROCESSING, then the process serves requests.
Boot(p) ==
    /\ p \notin up /\ up' = up \cup {p}
    /\ job' = [u \in Uploads |-> IF job[u] \in Swept THEN SweptStatus ELSE job[u]]
    /\ UNCHANGED <<userExists, media, records, stored, task, purging, erasing, crashes, ghosts>>

\* A process stops with all its work.  The job of a task that dies beside a running
\* process waits for a boot that nobody promises.
Crash(p) ==
    LET dying == {u \in Uploads : task[u].proc = p}
    IN  /\ p \in up /\ crashes < MaxCrashes /\ crashes' = crashes + 1
        /\ up' = up \ {p}
        /\ task' = [u \in Uploads |-> IF u \in dying THEN [pc |-> "dead", proc |-> None]
                                      ELSE task[u]]
        /\ leaked' = leaked \cup {u \in dying : task[u].pc \in RequestPcs}
        /\ stranded' = IF up' = {} THEN stranded ELSE stranded \cup dying
        /\ erasing' = IF up' = {} THEN None ELSE erasing
        /\ UNCHANGED <<rows, stored, purging, ackLost>>

-----------------------------------------------------------------------------
(* Deletions                                                               *)

RecordRowOnly(u) == media       \* mutant of WithoutMedia: deleteRecord forgets the file row
WithoutMedia(u) == media \ {u}

\* deleteRecord: the file row (the job goes with it, ON DELETE CASCADE), the record,
\* and after the commit the object.
DeleteRecord(u) ==
    /\ u \in records
    /\ records' = records \ {u}
    /\ media' = WithoutMedia(u)
    /\ SetStatus(u, "none")
    /\ purging' = purging \cup {u}
    /\ UNCHANGED <<userExists, stored, task, up, erasing, crashes, ghosts>>

\* deleteFiles after a deletion: done, or it fails (or its process dies) for good.
Purge(u) ==
    /\ u \in purging /\ purging' = purging \ {u}
    /\ \/ stored' = stored \ {u} /\ UNCHANGED leaked
       \/ leaked' = leaked \cup {u} /\ UNCHANGED stored
    /\ UNCHANGED <<rows, task, up, erasing, crashes, ackLost, stranded>>

\* deleteAccount reads the keys of the media rows ...
EraseRead ==
    /\ userExists /\ erasing = None /\ up # {}
    /\ erasing' = [keys |-> media]
    /\ UNCHANGED <<rows, stored, task, up, purging, crashes, ghosts>>

\* ... and deletes the users row with all its rows: the object of a file that was
\* committed in between is in no list.
EraseCommit ==
    /\ userExists /\ erasing # None
    /\ userExists' = FALSE /\ media' = {} /\ records' = {}
    /\ job' = [u \in Uploads |-> "none"]
    /\ purging' = purging \cup erasing.keys
    /\ leaked' = leaked \cup (media \ erasing.keys)
    /\ erasing' = None
    /\ UNCHANGED <<stored, task, up, crashes, ackLost, stranded>>

-----------------------------------------------------------------------------
Step(u) ==
    \/ CreateJob(u) \/ Cleanup(u) \/ Find(u) \/ Transcribe(u) \/ ToSummary(u)
    \/ Summarize(u) \/ Finish(u) \/ MarkFailed(u) \/ Purge(u)

Next ==
    \/ \E u \in Uploads : Step(u) \/ DeleteRecord(u) \/ \E p \in Processes : Upload(u, p)
    \/ \E p \in Processes : Boot(p) \/ Crash(p)
    \/ EraseRead \/ EraseCommit

Spec == Init /\ [][Next]_vars

\* Awaits return, and ECS starts a task when none is running.  A second task comes
\* with a deployment only.
Fairness ==
    /\ \A u \in Uploads : WF_vars(Step(u))
    /\ WF_vars(up = {} /\ \E p \in Processes : Boot(p))
FairSpec == Spec /\ Fairness

-----------------------------------------------------------------------------
(* Properties                                                              *)

\* A media_files row names an object that exists: every deletion takes the row first
\* (unless the upload's own commit was reported as an error and compensated).
RowHasObject == media \ ackLost \subseteq stored

\* A record appears with its COMPLETED job and never without: a client that polls the
\* job finds it, whatever sweeps, overlapping processes and deletions interleave.
RecordIffCompleted ==
    \A u \in Uploads :
        /\ job[u] = "COMPLETED" => u \in records
        /\ u \in records => job[u] = "COMPLETED" \/ (u \in ackLost /\ job[u] = "FAILED")

\* An object without a row has somebody who will delete it (the request it belongs to, a
\* deletion under way), or was left by one of the steps nothing in the code makes up for:
\* an upload S3 kept whose call threw, a process that stopped in the request, an S3
\* deletion that failed, a file committed while the account is erased.
NoUnaccountedObject ==
    \A u \in stored :
        u \in media \/ u \in purging \/ task[u].pc \in RequestPcs \/ u \in leaked

\* The boot sweep fails abandoned jobs only (the comment of onModuleInit).
BootFailsOnlyOrphans ==
    [][\A u \in Uploads :
          up' # up /\ Processing(u) /\ job'[u] = "FAILED"
              => task[u].pc \notin BackgroundPcs]_vars

\* What a polling client sees follows SttJobLife: forward by its own work only, settled
\* for good once that is over, and never back after a deletion, whatever processes,
\* sweeps, lost answers and deletions interleave.
Polled ==
    [u \in Uploads |->
        IF job[u] # "none" THEN job[u]
        ELSE IF task[u].pc \in {"idle", "createJob"} THEN "new" ELSE "gone"]
Life == INSTANCE SttJobLife WITH
    open <- userExists, status <- Polled, work <- {u \in Uploads : task[u].pc \in BackgroundPcs}
ImplementsJobLife == Life!Spec

\* A job the client polls does not stay in PROCESSING: it ends, its row goes, or the
\* error that would have ended it was itself lost.
JobSettles == \A u \in Uploads : Processing(u) ~> (~Processing(u) \/ u \in stranded)
=============================================================================

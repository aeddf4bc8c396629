--------------------------- MODULE NotificationQueue ---------------------------
(***************************************************************************)
(* The notification jobs of ONE user with one schedule and one person:     *)
(* the minute worker (notification-worker.service.ts), the FCM call and    *)
(* the push tokens it uses, and the API handlers that arm and cancel jobs  *)
(* (schedule.service.ts, people.service.ts).  A job row is unique per      *)
(* dedupeKey: the schedule has one, a birthday has one per year.           *)
(*                                                                         *)
(* Each await of the worker is a step; an API handler is one step, because *)
(* its transaction first locks the row of its schedule or person and the   *)
(* job statements after it commute with the worker's single-row updates.   *)
(* Time is a counter: a year is YearLength ticks.                          *)
(***************************************************************************)
EXTENDS Integers, FiniteSets

CONSTANTS
    Processes,      \* server processes (a rolling deployment runs two)
    Batches,        \* runs of the cron handler that may be under way
    Devices,        \* FCM tokens the user's devices registered
    ScheduleKey,    \* the dedupeKey schedule:<id>; birthday:<id>:<year> is the year
    None,           \* null
    YearLength,     \* bound: ticks in a year
    Phases,         \* bound: the ticks of the year a birthday can fall on
    Offsets,        \* bound: birthdayNotificationOffsetMinutes, in ticks, less than a year
    ScheduleTimes,  \* bound: scheduleTime minus reminderOffsetMinutes
    Unreadable,     \* owners whose stored text may fail to decrypt
    BatchSize,      \* NOTIFICATION_JOB_BATCH_SIZE
    MaxNow, MaxEdits, MaxCrashes    \* bounds: time, API calls, crashes

ASSUME TimesAssumption ==
    /\ {YearLength, BatchSize} \subseteq Nat \ {0} /\ {MaxNow, MaxEdits, MaxCrashes} \subseteq Nat
    /\ Phases \subseteq Nat /\ Offsets \subseteq Nat /\ ScheduleTimes \subseteq Nat
    /\ \A p \in Phases \cup Offsets : p < YearLength
ASSUME KeysAssumption == ScheduleKey \notin Nat /\ None \notin Nat

Years == 0..(MaxNow \div YearLength) + 2
Keys == Years \cup {ScheduleKey}
Owners == {"schedule", "person"}
OwnerOf(k) == IF k = ScheduleKey THEN "schedule" ELSE "person"

VARIABLES
    now,            \* the clock
    schedule,       \* schedules row: when it notifies, notificationEnabled, title readable
    person,         \* people row: birthday, birthdayNotification*, name readable
    jobs,           \* notification_jobs rows by dedupeKey: status and scheduledAt
    inbox,          \* keys whose job has a notifications row
    tokens,         \* push_tokens rows with revokedAt null
    isProcessing,   \* NotificationWorkerService.isProcessing of each process
    batch,          \* the local variables of each run of the cron handler
    credit,         \* ghost: armings of a key minus pushes delivered for it
    contested,      \* ghost: owners last written while a batch held a job of theirs
    edits, crashes  \* bounded counters

vars == <<now, schedule, person, jobs, inbox, tokens, isProcessing, batch, credit,
          contested, edits, crashes>>

-----------------------------------------------------------------------------
Statuses == {"none", "PENDING", "SENT", "FAILED", "CANCELED"}
RowStates == {"none", "live", "deleted"}

Schedules == [state : RowStates, at : ScheduleTimes, enabled : BOOLEAN, unreadable : BOOLEAN]
People == [state : RowStates, birthday : Phases \cup {None}, enabled : BOOLEAN,
           offset : Offsets, unreadable : BOOLEAN]

\* A job as the batch's findMany returned it, with the owner's columns it selects.
Snapshots == [key : Keys, at : Int, birthday : Phases \cup {None}, offset : Offsets,
              unreadable : BOOLEAN]
ASSUME NoneAssumption == None \notin Snapshots

BatchRecords == [pc : {"idle", "take", "send", "revoke", "mark", "next"},
                 proc : Processes \cup {None}, todo : SUBSET Snapshots,
                 job : Snapshots \cup {None}, ok : BOOLEAN, invalid : SUBSET Devices]

\* Type invariant: every row, flag and local variable keeps its type.
TypeOK ==
    /\ now \in 0..MaxNow
    /\ schedule \in Schedules /\ person \in People
    /\ jobs \in [Keys -> [status : Statuses, at : Int]]
    /\ inbox \subseteq Keys /\ tokens \subseteq Devices
    /\ isProcessing \in [Processes -> BOOLEAN]
    /\ batch \in [Batches -> BatchRecords]
    /\ credit \in [Keys -> Int] /\ contested \subseteq Owners
    /\ edits \in 0..MaxEdits /\ crashes \in 0..MaxCrashes

NoJob == [status |-> "none", at |-> 0]
Idle == [pc |-> "idle", proc |-> None, todo |-> {}, job |-> None, ok |-> FALSE, invalid |-> {}]

\* A new user whose devices are registered.
Init ==
    /\ now = 0
    /\ schedule \in {s \in Schedules : s.state = "none" /\ ~s.enabled /\ ~s.unreadable}
    /\ person \in {p \in People : p.state = "none" /\ p.birthday = None
                                  /\ ~p.enabled /\ ~p.unreadable}
    /\ jobs = [k \in Keys |-> NoJob]
    /\ inbox = {} /\ tokens = Devices
    /\ isProcessing = [p \in Processes |-> FALSE]
    /\ batch = [b \in Batches |-> Idle]
    /\ credit = [k \in Keys |-> 0]
    /\ contested = {} /\ edits = 0 /\ crashes = 0

-----------------------------------------------------------------------------
(* Job rows.                                                               *)

Pending(k) == jobs[k].status = "PENDING"
PendingYears == {y \in Years : Pending(y)}
Due == {k \in Keys : Pending(k) /\ jobs[k].at <= now}

\* toBirthdayNotificationAt and toBirthdayScheduledAt.
BirthdayAt(phase, y) == y * YearLength + phase
NotifyAt(phase, y, offset) == BirthdayAt(phase, y) - offset

Untimed(at) == [status |-> "PENDING", at |-> None]  \* mutant of PendingJob
\* The row after an upsert: created, or reset whatever its status was.
PendingJob(at) == [status |-> "PENDING", at |-> at]
CreditFor(k) == IF Pending(k) THEN credit[k] ELSE credit[k] + 1

\* updateMany { status: PENDING, key in ks } -> CANCELED.
Canceled(ks) == [k \in Keys |-> IF k \in ks /\ Pending(k)
                                THEN [jobs[k] EXCEPT !.status = "CANCELED"] ELSE jobs[k]]

-----------------------------------------------------------------------------
(* The worker: processDueScheduleNotifications                             *)

Goto(b, rec) == batch' = [batch EXCEPT ![b] = rec]
At(b, pc) == batch[b].pc = pc
Back(b) == [batch[b] EXCEPT !.pc = "take", !.job = None, !.ok = FALSE, !.invalid = {}]
Rows == <<schedule, person, jobs, inbox, tokens>>
Context == <<now, contested, edits, crashes>>

FlagKept(b) == Goto(b, Idle) /\ UNCHANGED isProcessing     \* mutant of EndBatch: no finally
\* The cron handler returns or throws: finally { isProcessing = false }.
EndBatch(b) ==
    /\ Goto(b, Idle)
    /\ isProcessing' = [isProcessing EXCEPT ![batch[b].proc] = FALSE]

\* An exception in one job leaves the for loop: the rest of the batch is dropped.
Abort(b) == EndBatch(b) /\ UNCHANGED <<Rows, credit>>

\* The BatchSize earliest due jobs.
FetchSets == {ks \in SUBSET Due :
                 /\ Cardinality(ks) = BatchSize \/ (ks = Due /\ Cardinality(Due) < BatchSize)
                 /\ \A k \in ks, l \in Due \ ks : jobs[k].at <= jobs[l].at}

SnapshotOf(k) ==
    [key |-> k, at |-> jobs[k].at,
     birthday |-> IF k = ScheduleKey THEN None ELSE person.birthday,
     offset |-> person.offset,
     unreadable |-> IF k = ScheduleKey THEN schedule.unreadable ELSE person.unreadable]

AlwaysFree(p) == TRUE           \* mutant of Free: two cron ticks overlap
Free(p) == ~isProcessing[p]

\* A call of the handler takes any free slot of the model.
Cron(b, p) ==
    /\ At(b, "idle") /\ Free(p) /\ Due # {}
    /\ b = CHOOSE c \in Batches : At(c, "idle")
    /\ isProcessing' = [isProcessing EXCEPT ![p] = TRUE]
    /\ \E ks \in FetchSets :
          Goto(b, [Idle EXCEPT !.pc = "take", !.proc = p, !.todo = {SnapshotOf(k) : k \in ks}])
    /\ UNCHANGED <<Rows, credit, Context>>

\* The loop reaches its next job, or its end.  A birthday that was removed is a
\* failure without a push; a text that cannot be decrypted throws.
Take(b) ==
    /\ At(b, "take")
    /\ \/ batch[b].todo = {} /\ Abort(b)
       \/ \E j \in batch[b].todo :
             /\ \A i \in batch[b].todo : j.at <= i.at
             /\ LET rest == [batch[b] EXCEPT !.todo = @ \ {j}, !.job = j]
                IN  \/ /\ j.key # ScheduleKey /\ j.birthday = None
                       /\ Goto(b, [rest EXCEPT !.pc = "mark"])
                       /\ UNCHANGED <<isProcessing, Rows, credit>>
                    \/ /\ j.key = ScheduleKey \/ j.birthday # None
                       /\ ~j.unreadable
                       /\ Goto(b, [rest EXCEPT !.pc = "send"])
                       /\ UNCHANGED <<isProcessing, Rows, credit>>
                    \/ /\ j.key = ScheduleKey \/ j.birthday # None
                       /\ j.unreadable
                       /\ Abort(b)
    /\ UNCHANGED Context

\* sendEachForMulticast to the tokens findMany returned: some devices get the push,
\* some tokens turn out invalid.  The answer may be lost after a delivery, which
\* counts as a failure, as an empty token list does.
Send(b) ==
    /\ At(b, "send")
    /\ \E delivered \in SUBSET tokens, ok \in BOOLEAN :
          /\ ok => delivered # {}
          /\ \E invalid \in SUBSET (tokens \ delivered) :
                Goto(b, [batch[b] EXCEPT !.pc = IF invalid = {} THEN "mark" ELSE "revoke",
                                         !.ok = ok, !.invalid = invalid])
          /\ credit' = IF delivered = {} THEN credit
                       ELSE [credit EXCEPT ![batch[b].job.key] = @ - 1]
    /\ UNCHANGED <<isProcessing, Rows, Context>>

\* Revoking the invalid tokens, by id: when an update throws, the whole send is
\* reported as failed, deliveries included.
RevokeTokens(b) ==
    /\ At(b, "revoke")
    /\ \E revoked \in SUBSET batch[b].invalid :
          /\ tokens' = tokens \ revoked
          /\ Goto(b, [batch[b] EXCEPT !.pc = "mark", !.ok = @ /\ revoked = batch[b].invalid])
    /\ UNCHANGED <<isProcessing, schedule, person, jobs, inbox, credit, Context>>

\* update { where: { id } }: whatever status the row has meanwhile.
Marked(b, status) == [jobs EXCEPT ![batch[b].job.key].status = status]

InboxForgotten(b) == inbox      \* mutant of InboxWith: no row in the user's inbox
InboxWith(b) == inbox \cup {batch[b].job.key}

ChainDropped(b) == Back(b)      \* mutant of AfterSent: a birthday is not rearmed
AfterSent(b) == IF batch[b].job.key = ScheduleKey THEN Back(b)
                ELSE [batch[b] EXCEPT !.pc = "next"]

\* The job row was deleted with its schedule or person: update (or the foreign key
\* of notification.create) throws, whether or not a push went out.
RowGone(b) ==
    /\ At(b, "mark") /\ jobs[batch[b].job.key].status = "none"
    /\ Abort(b) /\ UNCHANGED Context

\* markJobSentAndCreateNotification, one transaction.
MarkSent(b) ==
    /\ At(b, "mark") /\ batch[b].ok /\ jobs[batch[b].job.key].status # "none"
    /\ jobs' = Marked(b, "SENT")
    /\ inbox' = InboxWith(b)
    /\ Goto(b, AfterSent(b))
    /\ UNCHANGED <<isProcessing, schedule, person, tokens, credit, Context>>

\* markJobFailed: no retry, and no job for the next year.
MarkFailed(b) ==
    /\ At(b, "mark") /\ ~batch[b].ok /\ jobs[batch[b].job.key].status # "none"
    /\ jobs' = Marked(b, "FAILED")
    /\ Goto(b, Back(b))
    /\ UNCHANGED <<isProcessing, schedule, person, inbox, tokens, credit, Context>>

\* scheduleNextBirthdayNotificationJob: from the snapshot, not from the people row.
\* The foreign key throws when the person was deleted.
ScheduleNext(b) ==
    /\ At(b, "next")
    /\ LET j == batch[b].job
           y == j.key + 1
       IN  \/ /\ person.state = "live"
              /\ jobs' = [jobs EXCEPT ![y] = PendingJob(NotifyAt(j.birthday, y, j.offset))]
              /\ credit' = [credit EXCEPT ![y] = CreditFor(y)]
              /\ Goto(b, Back(b))
              /\ UNCHANGED <<isProcessing, schedule, person, inbox, tokens>>
           \/ person.state # "live" /\ Abort(b)
    /\ UNCHANGED Context

WorkerStep(b) ==
    \/ Take(b) \/ Send(b) \/ RevokeTokens(b)
    \/ RowGone(b) \/ MarkSent(b) \/ MarkFailed(b) \/ ScheduleNext(b)

-----------------------------------------------------------------------------
(* The API handlers that write jobs.                                       *)

\* Jobs a run of the worker has read and not finished with.
HeldBy(b) == {j.key : j \in batch[b].todo} \cup
             (IF batch[b].job = None THEN {} ELSE {batch[b].job.key})
Held == UNION {HeldBy(b) : b \in Batches}
HeldOwners == {OwnerOf(k) : k \in Held}

Edit(owner) ==
    /\ edits < MaxEdits /\ edits' = edits + 1
    /\ contested' = IF owner \in HeldOwners THEN contested \cup {owner} ELSE contested \ {owner}
    /\ UNCHANGED <<now, isProcessing, batch, crashes>>

KeepPending == jobs             \* mutant of ScheduleCanceled: disabling leaves the job
ScheduleCanceled == Canceled({ScheduleKey})

\* syncScheduleNotificationJob.
SyncSchedule(s) ==
    IF s.enabled
    THEN /\ jobs' = [jobs EXCEPT ![ScheduleKey] = PendingJob(s.at)]
         /\ credit' = [credit EXCEPT ![ScheduleKey] = CreditFor(ScheduleKey)]
    ELSE jobs' = ScheduleCanceled /\ UNCHANGED credit

MayBeUnreadable(owner) == IF owner \in Unreadable THEN BOOLEAN ELSE {FALSE}

\* createSchedule: a job only when notificationEnabled (same effect as the sync).
CreateSchedule ==
    /\ schedule.state = "none"
    /\ \E s \in Schedules :
          /\ s.state = "live" /\ s.unreadable \in MayBeUnreadable("schedule")
          /\ schedule' = s /\ SyncSchedule(s)
    /\ Edit("schedule") /\ UNCHANGED <<person, inbox, tokens>>

\* updateSchedule with a scheduleTime, a reminder offset or notificationEnabled ...
RescheduleSchedule ==
    /\ schedule.state = "live"
    /\ \E at \in ScheduleTimes, enabled \in BOOLEAN :
          LET s == [schedule EXCEPT !.at = at, !.enabled = enabled]
          IN  schedule' = s /\ SyncSchedule(s)
    /\ Edit("schedule") /\ UNCHANGED <<person, inbox, tokens>>

\* ... and without: the job is not touched (shouldSyncScheduleNotificationJob).
RetitleSchedule ==
    /\ schedule.state = "live" /\ edits < MaxEdits /\ edits' = edits + 1
    /\ \E u \in MayBeUnreadable("schedule") : schedule' = [schedule EXCEPT !.unreadable = u]
    /\ UNCHANGED <<now, person, jobs, inbox, tokens, isProcessing, batch, credit, contested,
                   crashes>>

\* deleteSchedule: deleteMany jobs, then the row; notifications.scheduleId := null.
DeleteSchedule ==
    /\ schedule.state = "live"
    /\ schedule' = [schedule EXCEPT !.state = "deleted"]
    /\ jobs' = [jobs EXCEPT ![ScheduleKey] = NoJob]
    /\ Edit("schedule") /\ UNCHANGED <<person, inbox, tokens, credit>>

\* toNextBirthdayNotificationSchedule: the year is chosen by the birthday itself,
\* not by the moment of its notification.
TargetYear(phase) ==
    LET y == now \div YearLength IN IF BirthdayAt(phase, y) <= now THEN y + 1 ELSE y

OthersKept(y) == jobs           \* mutant of OthersCanceled: the former year stays armed
OthersCanceled(y) == Canceled(Years \ {y})

\* syncBirthdayNotificationJob.
SyncBirthday(p) ==
    IF p.enabled /\ p.birthday # None
    THEN LET y == TargetYear(p.birthday)
         IN  /\ jobs' = [OthersCanceled(y) EXCEPT
                            ![y] = PendingJob(NotifyAt(p.birthday, y, p.offset))]
             /\ credit' = [credit EXCEPT ![y] = CreditFor(y)]
    ELSE jobs' = Canceled(Years) /\ UNCHANGED credit

\* createPerson and updatePerson: both sync, whatever fields the request changes.
SavePerson ==
    /\ person.state \in {"none", "live"}
    /\ \E p \in People :
          /\ p.state = "live" /\ p.unreadable \in MayBeUnreadable("person")
          /\ person' = p /\ SyncBirthday(p)
    /\ Edit("person") /\ UNCHANGED <<schedule, inbox, tokens>>

\* deletePerson: the jobs go with the row (ON DELETE CASCADE).
DeletePerson ==
    /\ person.state = "live"
    /\ person' = [person EXCEPT !.state = "deleted"]
    /\ jobs' = [k \in Keys |-> IF k \in Years THEN NoJob ELSE jobs[k]]
    /\ Edit("person") /\ UNCHANGED <<schedule, inbox, tokens, credit>>

\* registerPushToken: upsert by token, revokedAt := null.
RegisterToken(d) ==
    /\ edits < MaxEdits /\ edits' = edits + 1
    /\ tokens' = tokens \cup {d}
    /\ UNCHANGED <<now, schedule, person, jobs, inbox, isProcessing, batch, credit, contested,
                   crashes>>

-----------------------------------------------------------------------------
(* The environment.                                                        *)

Tick == now < MaxNow /\ now' = now + 1
        /\ UNCHANGED <<Rows, isProcessing, batch, credit, contested, edits, crashes>>

\* A process stops: its batch dies and its flag with it.  A database error thrown out
\* of the handler has the same effect on the rows, and is counted here as well.
Crash(p) ==
    /\ crashes < MaxCrashes /\ crashes' = crashes + 1
    /\ \E b \in Batches : batch[b].proc = p
    /\ batch' = [b \in Batches |-> IF batch[b].proc = p THEN Idle ELSE batch[b]]
    /\ isProcessing' = [isProcessing EXCEPT ![p] = FALSE]
    /\ UNCHANGED <<now, Rows, credit, contested, edits>>

Next ==
    \/ \E b \in Batches : WorkerStep(b) \/ \E p \in Processes : Cron(b, p)
    \/ CreateSchedule \/ RescheduleSchedule \/ RetitleSchedule \/ DeleteSchedule
    \/ SavePerson \/ DeletePerson \/ \E d \in Devices : RegisterToken(d)
    \/ Tick \/ \E p \in Processes : Crash(p)

Spec == Init /\ [][Next]_vars

\* @Cron(EVERY_MINUTE) fires for ever and the awaits of a batch return.
Fairness ==
    /\ \A b \in Batches : WF_vars(WorkerStep(b))
    /\ WF_vars(\E b \in Batches, p \in Processes : Cron(b, p))
FairSpec == Spec /\ Fairness

-----------------------------------------------------------------------------
(* Safety.                                                                 *)

\* However cron ticks, edits and failures interleave, every push was armed by a
\* request of its own; a crash costs at most one repetition of a push.
EveryPushWasArmed == \A k \in Keys : credit[k] >= -crashes

\* A job is never SENT without its entry in the user's inbox: the status and the
\* notifications row are one transaction.
SentIsInInbox == \A k \in Keys : jobs[k].status = "SENT" => k \in inbox

\* What a pending job will do is what its owner says now: it is armed only for an
\* enabled owner and at the owner's time, unless the owner was last edited while the
\* worker held one of its jobs.
PendingIsCurrent ==
    /\ Pending(ScheduleKey) /\ "schedule" \notin contested
          => schedule.enabled /\ jobs[ScheduleKey].at = schedule.at
    /\ \A y \in PendingYears : "person" \notin contested
          => /\ person.enabled /\ person.birthday # None
             /\ jobs[y].at = NotifyAt(person.birthday, y, person.offset)

\* One birthday at a time is armed, under the same condition.
OneBirthdayArmed == "person" \notin contested => Cardinality(PendingYears) <= 1

\* The yearly chain does not break: an enabled birthday has its next job, or the
\* worker is about to write it, or a job at its present settings failed (only a crash
\* loses it).
ChainUnbroken ==
    /\ person.state = "live" /\ person.enabled /\ person.birthday # None
    /\ "person" \notin contested /\ crashes = 0
    => \/ PendingYears # {}
       \/ \E b \in Batches : At(b, "next")
       \/ \E y \in Years : /\ jobs[y].status = "FAILED"
                           /\ jobs[y].at = NotifyAt(person.birthday, y, person.offset)

\* A birthday is announced once: no push for a key that is in the inbox already.
BirthdayAnnouncedOnce ==
    [][\A y \in Years : credit'[y] < credit[y] => y \notin inbox]_vars

-----------------------------------------------------------------------------
(* Liveness, under Fairness.                                               *)

\* Every due job is eventually tried, as long as the text of every job can be read:
\* neither deletions under the worker's feet nor crashes leave the queue stuck.
QueueDrains ==
    \A k \in Keys :
        k \in Due ~> (k \notin Due \/ schedule.unreadable \/ person.unreadable)
=============================================================================

------------------------ MODULE NotificationQueue_proofs ------------------------
(***************************************************************************)
(* Theorems about NotificationQueue, for any set of devices, any batch     *)
(* size and any number of edits and crashes.  That every push was armed    *)
(* needs one server process: with two, both may fetch the same job.  Its   *)
(* inductive form counts, for every key, the push the queue still owes.    *)
(* That the armed jobs are what their owners' rows say, one birthday at a  *)
(* time and without a gap, relates the snapshots a run holds to the rows.  *)
(***************************************************************************)
EXTENDS NotificationQueue, FiniteSetTheorems, TLAPS

Busy(b) == batch[b].pc # "idle"
HasJob(b) == batch[b].pc \in {"send", "revoke", "mark", "next"}

\* A job that a birthday was removed from is never announced as sent.
Announceable(j) == j.key = ScheduleKey \/ j.birthday # None

\* The local variables of a run of the handler.
BatchInv(b) ==
    /\ ~Busy(b) => batch[b].todo = {}
    /\ Busy(b) => batch[b].proc \in Processes /\ isProcessing[batch[b].proc]
    /\ At(b, "take") => ~batch[b].ok
    /\ HasJob(b) => batch[b].job \in Snapshots
    /\ HasJob(b) /\ (~At(b, "mark") \/ batch[b].ok) => Announceable(batch[b].job)
    /\ At(b, "next") => batch[b].job.key # ScheduleKey
    /\ \A i, j \in batch[b].todo : i.key = j.key => i = j
    /\ HasJob(b) => \A i \in batch[b].todo : i.key # batch[b].job.key

\* isProcessing admits one run of the handler per process.
OneBatchPerProcess ==
    \A b, c \in Batches : b # c /\ Busy(b) /\ Busy(c) => batch[b].proc # batch[c].proc

\* A push for k is still to come, or has been tried and not recorded yet.
Awaits(b, k) == \/ \E j \in batch[b].todo : j.key = k
                \/ At(b, "send") /\ batch[b].job.key = k
Tried(b, k) == batch[b].pc \in {"revoke", "mark"} /\ batch[b].job.key = k
Awaited(k) == \E b \in Batches : Awaits(b, k)
BeingRecorded(k) == \E b \in Batches : Tried(b, k)

\* The armings of k cover the pushes made and the one that may still be made.
Owed(k) == Awaited(k) \/ (Pending(k) /\ ~BeingRecorded(k))
CreditInv(k) == credit[k] + crashes >= (IF Owed(k) THEN 1 ELSE 0)

OneProcess == \A p, q \in Processes : p = q

LocalsInv == (\A b \in Batches : BatchInv(b)) /\ OneBatchPerProcess
IInv == TypeOK /\ SentIsInInbox /\ LocalsInv
PushInv == \A k \in Keys : CreditInv(k)

-----------------------------------------------------------------------------
USE TimesAssumption, KeysAssumption

\* A job is armed for a whole tick.
LEMMA NotifyAtInt ==
    ASSUME NEW phase \in Phases, NEW y \in Nat, NEW o \in Offsets
    PROVE  NotifyAt(phase, y, o) \in Int
<1>1. y * YearLength \in Nat /\ phase \in Nat /\ o \in Nat
  OBVIOUS
<1> QED BY <1>1 DEF NotifyAt, BirthdayAt

LEMMA KeyTypes == Years \subseteq Nat /\ ScheduleKey \in Keys /\ Years \subseteq Keys
                  /\ ScheduleKey \notin Years /\ \A k \in Keys : k # ScheduleKey => k \in Years
BY DEF Years, Keys

LEMMA TargetYearNat == ASSUME TypeOK, NEW phase PROVE TargetYear(phase) \in Nat
<1>1. now \in Nat /\ YearLength \in Nat \ {0}
  BY DEF TypeOK
<1>2. now \div YearLength \in Nat
  BY <1>1
<1> QED BY <1>2 DEF TargetYear

\* What arming k does to the rows, whether or not k is in the model's range of years.
LEMMA ArmType ==
    ASSUME TypeOK, NEW k, NEW at \in Int
    PROVE  /\ [jobs EXCEPT ![k] = PendingJob(at)] \in [Keys -> [status : Statuses, at : Int]]
           /\ [credit EXCEPT ![k] = CreditFor(k)] \in [Keys -> Int]
<1>1. PendingJob(at) \in [status : Statuses, at : Int]
  BY DEF PendingJob, Statuses
<1>2. k \in Keys => CreditFor(k) \in Int
  BY DEF CreditFor, TypeOK
<1> QED BY <1>1, <1>2 DEF TypeOK

LEMMA CanceledType ==
    ASSUME TypeOK, NEW ks PROVE Canceled(ks) \in [Keys -> [status : Statuses, at : Int]]
BY DEF TypeOK, Canceled, Statuses

LEMMA SyncScheduleType ==
    ASSUME TypeOK, NEW s \in Schedules, SyncSchedule(s)
    PROVE  jobs' \in [Keys -> [status : Statuses, at : Int]] /\ credit' \in [Keys -> Int]
<1>1. s.at \in Int
  <2>1. s.at \in Nat
    BY DEF Schedules
  <2> QED BY <2>1
<1>2. CASE s.enabled
  <2> DEFINE at == s.at
  <2>1. /\ [jobs EXCEPT ![ScheduleKey] = PendingJob(at)] \in [Keys -> [status : Statuses, at : Int]]
        /\ [credit EXCEPT ![ScheduleKey] = CreditFor(ScheduleKey)] \in [Keys -> Int]
    BY <1>1, ArmType
  <2> QED BY <1>2, <2>1 DEF SyncSchedule
<1>3. CASE ~s.enabled
  BY <1>3, CanceledType DEF SyncSchedule, ScheduleCanceled, TypeOK
<1> QED BY <1>2, <1>3

LEMMA SyncBirthdayType ==
    ASSUME TypeOK, NEW p \in People, SyncBirthday(p)
    PROVE  jobs' \in [Keys -> [status : Statuses, at : Int]] /\ credit' \in [Keys -> Int]
<1>1. CASE p.enabled /\ p.birthday # None
  <2> DEFINE y == TargetYear(p.birthday)
             at == NotifyAt(p.birthday, y, p.offset)
  <2>1. at \in Int
    BY <1>1, TargetYearNat, NotifyAtInt DEF People
  <2>2. PendingJob(at) \in [status : Statuses, at : Int]
    BY <2>1 DEF PendingJob, Statuses
  <2>3. jobs' = [OthersCanceled(y) EXCEPT ![y] = PendingJob(at)]
        /\ credit' = [credit EXCEPT ![y] = CreditFor(y)]
    BY <1>1 DEF SyncBirthday
  <2> HIDE DEF at, y
  <2>4. y \in Keys => CreditFor(y) \in Int
    BY DEF CreditFor, TypeOK
  <2> QED BY <2>2, <2>3, <2>4, CanceledType DEF OthersCanceled, TypeOK
<1>2. CASE ~(p.enabled /\ p.birthday # None)
  BY <1>2, CanceledType DEF SyncBirthday, TypeOK
<1> QED BY <1>1, <1>2

-----------------------------------------------------------------------------
(* The worker's steps.                                                     *)

\* A step of one batch puts a record in its place and leaves the others.
LEMMA GotoFacts ==
    ASSUME TypeOK, NEW b \in Batches, NEW rec \in BatchRecords, Goto(b, rec)
    PROVE  /\ batch' \in [Batches -> BatchRecords]
           /\ batch'[b] = rec
           /\ \A c \in Batches : c # b => batch'[c] = batch[c]
BY DEF Goto, TypeOK

LEMMA IdleType == Idle \in BatchRecords
BY DEF Idle, BatchRecords

LEMMA IdleFacts == /\ Idle.pc = "idle" /\ Idle.proc = None /\ Idle.todo = {} /\ ~Idle.ok
BY DEF Idle

LEMMA BackFacts ==
    ASSUME TypeOK, NEW b \in Batches
    PROVE  /\ Back(b) \in BatchRecords
           /\ Back(b).pc = "take" /\ Back(b).todo = batch[b].todo
           /\ Back(b).proc = batch[b].proc /\ ~Back(b).ok
BY DEF TypeOK, Back, BatchRecords

\* What Abort does: the run ends, and the rows are what they were.
LEMMA AbortFacts ==
    ASSUME TypeOK, NEW b \in Batches, Abort(b)
    PROVE  /\ batch' \in [Batches -> BatchRecords]
           /\ batch'[b] = Idle
           /\ \A c \in Batches : c # b => batch'[c] = batch[c]
           /\ isProcessing' = [isProcessing EXCEPT ![batch[b].proc] = FALSE]
           /\ UNCHANGED <<Rows, credit>>
BY IdleType, GotoFacts DEF Abort, EndBatch

LEMMA SnapshotType ==
    ASSUME TypeOK, NEW k \in Keys PROVE SnapshotOf(k) \in Snapshots
BY DEF TypeOK, SnapshotOf, Snapshots, People, Schedules

LEMMA WorkerType ==
    ASSUME TypeOK, NEW b \in Batches, BatchInv(b), WorkerStep(b)
    PROVE  TypeOK'
<1>1. /\ batch \in [Batches -> BatchRecords] /\ batch[b] \in BatchRecords
      /\ batch[b].todo \subseteq Snapshots
  BY DEF TypeOK, BatchRecords
<1>2. ASSUME Abort(b), UNCHANGED Context PROVE TypeOK'
  BY <1>2, AbortFacts DEF TypeOK, Rows, Context
<1>3. CASE Take(b)
  <2>1. ASSUME NEW j \in batch[b].todo, NEW pc \in {"mark", "send"},
               Goto(b, [[batch[b] EXCEPT !.todo = @ \ {j}, !.job = j] EXCEPT !.pc = pc]),
               UNCHANGED <<isProcessing, Rows, credit>>, UNCHANGED Context
        PROVE  TypeOK'
    <3> DEFINE rec == [[batch[b] EXCEPT !.todo = @ \ {j}, !.job = j] EXCEPT !.pc = pc]
    <3>1. rec \in BatchRecords
      BY <1>1, <2>1 DEF BatchRecords
    <3> HIDE DEF rec
    <3>2. batch' \in [Batches -> BatchRecords]
      BY <2>1, <3>1, GotoFacts DEF rec
    <3> QED BY <2>1, <3>2 DEF TypeOK, Rows, Context
  <2> QED BY <1>2, <1>3, <2>1 DEF Take
<1>4. CASE Send(b)
  <2>1. PICK ok \in BOOLEAN, invalid \in SUBSET tokens :
            Goto(b, [batch[b] EXCEPT !.pc = IF invalid = {} THEN "mark" ELSE "revoke",
                                     !.ok = ok, !.invalid = invalid])
    BY <1>4 DEF Send
  <2> DEFINE rec == [batch[b] EXCEPT !.pc = IF invalid = {} THEN "mark" ELSE "revoke",
                                     !.ok = ok, !.invalid = invalid]
  <2>2. rec \in BatchRecords
    BY <1>1, <2>1 DEF BatchRecords, TypeOK
  <2> HIDE DEF rec
  <2>3. batch' \in [Batches -> BatchRecords]
    BY <2>1, <2>2, GotoFacts DEF rec
  <2>4. credit' \in [Keys -> Int]
    <3>1. credit \in [Keys -> Int]
      BY DEF TypeOK
    <3>2. \/ credit' = credit
          \/ credit' = [credit EXCEPT ![batch[b].job.key] = credit[batch[b].job.key] - 1]
      BY <1>4 DEF Send
    <3> DEFINE k == batch[b].job.key
    <3>3. k \in Keys
      BY <1>4 DEF Send, BatchInv, HasJob, At, Snapshots
    <3> HIDE DEF k
    <3>4. [credit EXCEPT ![k] = credit[k] - 1] \in [Keys -> Int]
      BY <3>1, <3>3
    <3> QED BY <3>1, <3>2, <3>4 DEF k
  <2> QED BY <1>4, <2>3, <2>4 DEF Send, TypeOK, Rows, Context
<1>5. CASE RevokeTokens(b)
  <2>1. PICK revoked \in SUBSET batch[b].invalid :
            /\ tokens' = tokens \ revoked
            /\ Goto(b, [batch[b] EXCEPT !.pc = "mark", !.ok = @ /\ revoked = batch[b].invalid])
    BY <1>5 DEF RevokeTokens
  <2> DEFINE rec == [batch[b] EXCEPT !.pc = "mark", !.ok = @ /\ revoked = batch[b].invalid]
  <2>2. rec \in BatchRecords
    BY <1>1 DEF BatchRecords
  <2> HIDE DEF rec
  <2>3. batch' \in [Batches -> BatchRecords]
    BY <2>1, <2>2, GotoFacts DEF rec
  <2> QED BY <1>5, <2>1, <2>3 DEF RevokeTokens, TypeOK, Context
<1>6. CASE RowGone(b)
  BY <1>2, <1>6 DEF RowGone
<1>7. CASE MarkSent(b)
  <2>1. AfterSent(b) \in BatchRecords
    BY <1>1, BackFacts DEF AfterSent, BatchRecords
  <2>2. batch' \in [Batches -> BatchRecords]
    BY <1>7, <2>1, GotoFacts DEF MarkSent
  <2>3. jobs' \in [Keys -> [status : Statuses, at : Int]]
    BY <1>7 DEF MarkSent, Marked, TypeOK, Statuses
  <2>4. inbox' \subseteq Keys
    BY <1>7, <1>1 DEF MarkSent, InboxWith, BatchInv, HasJob, At, TypeOK, Snapshots
  <2> QED BY <1>7, <2>2, <2>3, <2>4 DEF MarkSent, TypeOK, Context
<1>8. CASE MarkFailed(b)
  <2>1. batch' \in [Batches -> BatchRecords]
    BY <1>8, BackFacts, GotoFacts DEF MarkFailed
  <2>2. jobs' \in [Keys -> [status : Statuses, at : Int]]
    BY <1>8 DEF MarkFailed, Marked, TypeOK, Statuses
  <2> QED BY <1>8, <2>1, <2>2 DEF MarkFailed, TypeOK, Context
<1>9. CASE ScheduleNext(b)
  <2> DEFINE j == batch[b].job
             y == j.key + 1
             at == NotifyAt(j.birthday, y, j.offset)
  <2>1. at \in Int
    <3>1. j \in Snapshots /\ j.key # ScheduleKey /\ j.birthday # None
      BY <1>9 DEF ScheduleNext, At, BatchInv, HasJob, Announceable
    <3>2. j.key \in Nat /\ j.birthday \in Phases /\ j.offset \in Offsets
      BY <3>1, KeyTypes DEF Snapshots
    <3>3. y \in Nat
      BY <3>2
    <3> QED BY <3>2, <3>3, NotifyAtInt
  <2>2. /\ [jobs EXCEPT ![y] = PendingJob(at)] \in [Keys -> [status : Statuses, at : Int]]
        /\ [credit EXCEPT ![y] = CreditFor(y)] \in [Keys -> Int]
    BY <2>1, ArmType
  <2>3. CASE /\ jobs' = [jobs EXCEPT ![y] = PendingJob(at)]
             /\ credit' = [credit EXCEPT ![y] = CreditFor(y)]
             /\ Goto(b, Back(b))
             /\ UNCHANGED <<isProcessing, schedule, person, inbox, tokens>>
    <3>1. batch' \in [Batches -> BatchRecords]
      BY <2>3, BackFacts, GotoFacts
    <3> HIDE DEF y, at
    <3> QED BY <1>9, <2>2, <2>3, <3>1 DEF ScheduleNext, TypeOK, Context
  <2> QED BY <1>2, <1>9, <2>3 DEF ScheduleNext
<1> QED BY <1>3, <1>4, <1>5, <1>6, <1>7, <1>8, <1>9 DEF WorkerStep

LEMMA CronType ==
    ASSUME TypeOK, NEW b \in Batches, NEW p \in Processes, Cron(b, p)
    PROVE  TypeOK'
<1>1. PICK ks \in FetchSets :
          Goto(b, [Idle EXCEPT !.pc = "take", !.proc = p, !.todo = {SnapshotOf(k) : k \in ks}])
  BY DEF Cron
<1> DEFINE rec == [Idle EXCEPT !.pc = "take", !.proc = p, !.todo = {SnapshotOf(k) : k \in ks}]
<1>2. {SnapshotOf(k) : k \in ks} \subseteq Snapshots
  BY SnapshotType DEF FetchSets, Due
<1>3. rec \in BatchRecords
  BY <1>2 DEF Idle, BatchRecords
<1> HIDE DEF rec
<1>4. batch' \in [Batches -> BatchRecords]
  BY <1>1, <1>3, GotoFacts DEF rec
<1> QED BY <1>4 DEF Cron, TypeOK, Rows, Context

\* Cancelling and arming is all an API handler does to the jobs; no handler touches a batch.
LEMMA ApiType ==
    ASSUME TypeOK,
           \/ CreateSchedule \/ RescheduleSchedule \/ RetitleSchedule \/ DeleteSchedule
           \/ SavePerson \/ DeletePerson \/ \E d \in Devices : RegisterToken(d)
    PROVE  TypeOK' /\ UNCHANGED <<isProcessing, batch, crashes>>
<1>1. ASSUME NEW owner, owner \in Owners, Edit(owner)
      PROVE  /\ edits' \in 0..MaxEdits /\ contested' \subseteq Owners
             /\ UNCHANGED <<now, isProcessing, batch, crashes>>
  BY <1>1 DEF Edit, TypeOK
<1>2. "schedule" \in Owners /\ "person" \in Owners
  BY DEF Owners
<1>3. CASE CreateSchedule
  <2>1. PICK s \in Schedules : schedule' = s /\ SyncSchedule(s)
    BY <1>3 DEF CreateSchedule
  <2> QED BY <1>1, <1>2, <1>3, <2>1, SyncScheduleType DEF CreateSchedule, TypeOK
<1>4. CASE RescheduleSchedule
  <2>1. PICK at \in ScheduleTimes, enabled \in BOOLEAN :
            /\ schedule' = [schedule EXCEPT !.at = at, !.enabled = enabled]
            /\ SyncSchedule([schedule EXCEPT !.at = at, !.enabled = enabled])
    BY <1>4 DEF RescheduleSchedule
  <2> DEFINE s == [schedule EXCEPT !.at = at, !.enabled = enabled]
  <2>2. s \in Schedules
    BY DEF TypeOK, Schedules
  <2> HIDE DEF s
  <2>3. schedule' = s /\ SyncSchedule(s)
    BY <2>1 DEF s
  <2> QED BY <1>1, <1>2, <1>4, <2>2, <2>3, SyncScheduleType DEF RescheduleSchedule, TypeOK
<1>5. CASE RetitleSchedule
  <2>1. PICK u \in BOOLEAN : schedule' = [schedule EXCEPT !.unreadable = u]
    BY <1>5 DEF RetitleSchedule, MayBeUnreadable
  <2>2. schedule' \in Schedules
    BY <2>1 DEF TypeOK, Schedules
  <2>3. edits' \in 0..MaxEdits
    BY <1>5 DEF RetitleSchedule, TypeOK
  <2> QED BY <1>5, <2>2, <2>3 DEF RetitleSchedule, TypeOK
<1>6. CASE DeleteSchedule
  <2>1. jobs' \in [Keys -> [status : Statuses, at : Int]]
    <3>1. NoJob \in [status : Statuses, at : Int]
      BY DEF NoJob, Statuses
    <3>2. jobs' = [jobs EXCEPT ![ScheduleKey] = NoJob]
      BY <1>6 DEF DeleteSchedule
    <3> QED BY <3>1, <3>2 DEF TypeOK
  <2>2. schedule' \in Schedules
    BY <1>6 DEF DeleteSchedule, TypeOK, Schedules, RowStates
  <2> QED BY <1>1, <1>2, <1>6, <2>1, <2>2 DEF DeleteSchedule, TypeOK
<1>7. CASE SavePerson
  <2>1. PICK p \in People : person' = p /\ SyncBirthday(p)
    BY <1>7 DEF SavePerson
  <2> QED BY <1>1, <1>2, <1>7, <2>1, SyncBirthdayType DEF SavePerson, TypeOK
<1>8. CASE DeletePerson
  <2>1. jobs' \in [Keys -> [status : Statuses, at : Int]]
    BY <1>8 DEF DeletePerson, NoJob, TypeOK, Statuses
  <2>2. person' \in People
    BY <1>8 DEF DeletePerson, TypeOK, People, RowStates
  <2> QED BY <1>1, <1>2, <1>8, <2>1, <2>2 DEF DeletePerson, TypeOK
<1>9. CASE \E d \in Devices : RegisterToken(d)
  BY <1>9 DEF RegisterToken, TypeOK
<1> QED BY <1>3, <1>4, <1>5, <1>6, <1>7, <1>8, <1>9

LEMMA CrashType ==
    ASSUME TypeOK, NEW p \in Processes, Crash(p)
    PROVE  TypeOK'
BY IdleType DEF Crash, TypeOK, Rows

LEMMA TickType == TypeOK /\ Tick => TypeOK'
BY DEF Tick, TypeOK, Rows

-----------------------------------------------------------------------------
(* The local variables of the batches.                                     *)

\* A batch that a step does not move keeps its invariant, while its flag is up.
LEMMA BatchKept ==
    ASSUME NEW c \in Batches, BatchInv(c), batch'[c] = batch[c],
           Busy(c) => isProcessing'[batch[c].proc]
    PROVE  BatchInv(c)'
BY DEF BatchInv, Busy, HasJob, At, Announceable

\* A run that moves on keeps its process and its flag.
LEMMA MoveLocals ==
    ASSUME LocalsInv, NEW b \in Batches, Busy(b), BatchInv(b)',
           batch'[b].proc = batch[b].proc,
           \A c \in Batches : c # b => batch'[c] = batch[c],
           UNCHANGED isProcessing
    PROVE  LocalsInv'
<1>1. ASSUME NEW c \in Batches PROVE BatchInv(c)'
  BY <1>1, BatchKept DEF LocalsInv, BatchInv
<1>2. OneBatchPerProcess'
  BY DEF LocalsInv, OneBatchPerProcess, Busy
<1> QED BY <1>1, <1>2 DEF LocalsInv

LEMMA AbortLocals ==
    ASSUME TypeOK, LocalsInv, NEW b \in Batches, Busy(b), Abort(b)
    PROVE  LocalsInv'
<1>1. ASSUME NEW c \in Batches, c # b, Busy(c)
      PROVE  isProcessing'[batch[c].proc]
  <2>1. batch[c].proc # batch[b].proc /\ batch[c].proc \in Processes /\ isProcessing[batch[c].proc]
    BY <1>1 DEF LocalsInv, BatchInv, OneBatchPerProcess
  <2> QED BY <2>1, AbortFacts DEF TypeOK
<1>2. ASSUME NEW c \in Batches, c # b PROVE BatchInv(c)'
  BY <1>1, <1>2, AbortFacts, BatchKept DEF LocalsInv
<1>3. BatchInv(b)'
  <2>1. batch'[b] = Idle
    BY AbortFacts
  <2> QED BY <2>1, IdleFacts DEF BatchInv, Busy, HasJob, At
<1>4. OneBatchPerProcess'
  BY AbortFacts, IdleFacts DEF LocalsInv, OneBatchPerProcess, Busy
<1> QED BY <1>2, <1>3, <1>4 DEF LocalsInv

LEMMA WorkerLocals ==
    ASSUME TypeOK, LocalsInv, NEW b \in Batches, WorkerStep(b)
    PROVE  LocalsInv'
<1> USE DEF HasJob, Busy, At, Announceable
<1>1. BatchInv(b) /\ batch[b] \in BatchRecords
  BY DEF LocalsInv, TypeOK
<1>2. CASE Take(b)
  <2>1. ASSUME NEW j \in batch[b].todo, NEW pc \in {"mark", "send"},
               pc = "send" => Announceable(j),
               Goto(b, [[batch[b] EXCEPT !.todo = @ \ {j}, !.job = j] EXCEPT !.pc = pc]),
               UNCHANGED isProcessing
        PROVE  LocalsInv'
    <3> DEFINE rec == [[batch[b] EXCEPT !.todo = @ \ {j}, !.job = j] EXCEPT !.pc = pc]
    <3>1. /\ rec \in BatchRecords /\ rec.todo = batch[b].todo \ {j} /\ rec.job = j
          /\ rec.pc = pc /\ rec.proc = batch[b].proc /\ rec.ok = batch[b].ok
          /\ j \in Snapshots
      BY <1>1, <2>1 DEF BatchRecords
    <3> HIDE DEF rec
    <3>2. batch'[b] = rec /\ \A c \in Batches : c # b => batch'[c] = batch[c]
      BY <2>1, <3>1, GotoFacts DEF rec
    <3>3. BatchInv(b)'
      BY <1>1, <1>2, <2>1, <3>1, <3>2 DEF BatchInv, Take
    <3> QED BY <1>2, <2>1, <3>1, <3>2, <3>3, MoveLocals DEF Take
  <2>2. CASE Abort(b)
    BY <1>2, <2>2, AbortLocals DEF Take
  <2> QED BY <1>2, <2>1, <2>2 DEF Take
<1>3. CASE Send(b)
  <2>1. PICK ok \in BOOLEAN, invalid \in SUBSET tokens :
            Goto(b, [batch[b] EXCEPT !.pc = IF invalid = {} THEN "mark" ELSE "revoke",
                                     !.ok = ok, !.invalid = invalid])
    BY <1>3 DEF Send
  <2> DEFINE rec == [batch[b] EXCEPT !.pc = IF invalid = {} THEN "mark" ELSE "revoke",
                                     !.ok = ok, !.invalid = invalid]
  <2>2. /\ rec \in BatchRecords /\ rec.todo = batch[b].todo /\ rec.job = batch[b].job
        /\ rec.pc \in {"mark", "revoke"} /\ rec.proc = batch[b].proc
    BY <1>1, <2>1 DEF BatchRecords, TypeOK
  <2> HIDE DEF rec
  <2>3. batch'[b] = rec /\ \A c \in Batches : c # b => batch'[c] = batch[c]
    BY <2>1, <2>2, GotoFacts DEF rec
  <2>4. BatchInv(b)'
    BY <1>1, <1>3, <2>2, <2>3 DEF BatchInv, Send
  <2> QED BY <1>3, <2>2, <2>3, <2>4, MoveLocals DEF Send
<1>4. CASE RevokeTokens(b)
  <2>1. PICK revoked \in SUBSET batch[b].invalid :
            Goto(b, [batch[b] EXCEPT !.pc = "mark", !.ok = @ /\ revoked = batch[b].invalid])
    BY <1>4 DEF RevokeTokens
  <2> DEFINE rec == [batch[b] EXCEPT !.pc = "mark", !.ok = @ /\ revoked = batch[b].invalid]
  <2>2. /\ rec \in BatchRecords /\ rec.todo = batch[b].todo /\ rec.job = batch[b].job
        /\ rec.pc = "mark" /\ rec.proc = batch[b].proc
    BY <1>1 DEF BatchRecords
  <2> HIDE DEF rec
  <2>3. batch'[b] = rec /\ \A c \in Batches : c # b => batch'[c] = batch[c]
    BY <2>1, <2>2, GotoFacts DEF rec
  <2>4. BatchInv(b)'
    BY <1>1, <1>4, <2>2, <2>3 DEF BatchInv, RevokeTokens
  <2> QED BY <1>4, <2>2, <2>3, <2>4, MoveLocals DEF RevokeTokens
<1>5. CASE RowGone(b)
  BY <1>5, AbortLocals DEF RowGone
<1>6. ASSUME At(b, "mark") \/ At(b, "next"), Goto(b, Back(b)), UNCHANGED isProcessing
      PROVE  LocalsInv'
  <2>1. batch'[b] = Back(b) /\ \A c \in Batches : c # b => batch'[c] = batch[c]
    BY <1>6, BackFacts, GotoFacts
  <2>2. BatchInv(b)'
    BY <1>1, <1>6, <2>1, BackFacts DEF BatchInv
  <2> QED BY <1>6, <2>1, <2>2, BackFacts, MoveLocals
<1>7. CASE MarkSent(b)
  <2>1. CASE batch[b].job.key = ScheduleKey
    BY <1>6, <1>7, <2>1 DEF MarkSent, AfterSent
  <2>2. CASE batch[b].job.key # ScheduleKey
    <3> DEFINE rec == [batch[b] EXCEPT !.pc = "next"]
    <3>1. /\ rec \in BatchRecords /\ rec.todo = batch[b].todo /\ rec.job = batch[b].job
          /\ rec.pc = "next" /\ rec.proc = batch[b].proc
      BY <1>1 DEF BatchRecords
    <3>2. Goto(b, rec)
      BY <1>7, <2>2 DEF MarkSent, AfterSent
    <3> HIDE DEF rec
    <3>3. batch'[b] = rec /\ \A c \in Batches : c # b => batch'[c] = batch[c]
      BY <3>1, <3>2, GotoFacts
    <3>4. BatchInv(b)'
      BY <1>1, <1>7, <2>2, <3>1, <3>3 DEF BatchInv, MarkSent
    <3> QED BY <1>7, <3>1, <3>3, <3>4, MoveLocals DEF MarkSent
  <2> QED BY <2>1, <2>2
<1>8. CASE MarkFailed(b)
  BY <1>6, <1>8 DEF MarkFailed
<1>9. CASE ScheduleNext(b)
  BY <1>6, <1>9, AbortLocals DEF ScheduleNext
<1> QED BY <1>2, <1>3, <1>4, <1>5, <1>7, <1>8, <1>9 DEF WorkerStep

\* What a new run of the handler has read: due jobs, each once.
LEMMA CronFacts ==
    ASSUME TypeOK, NEW b \in Batches, NEW p \in Processes, Cron(b, p)
    PROVE  \E ks \in SUBSET Due :
              /\ batch'[b].pc = "take" /\ batch'[b].proc = p /\ ~batch'[b].ok
              /\ batch'[b].todo = {SnapshotOf(k) : k \in ks}
              /\ \A c \in Batches : c # b => batch'[c] = batch[c]
<1>1. PICK ks \in FetchSets :
          Goto(b, [Idle EXCEPT !.pc = "take", !.proc = p, !.todo = {SnapshotOf(k) : k \in ks}])
  BY DEF Cron
<1> DEFINE todo == {SnapshotOf(k) : k \in ks}
           rec == [Idle EXCEPT !.pc = "take", !.proc = p, !.todo = todo]
<1>2. todo \subseteq Snapshots
  BY SnapshotType DEF FetchSets, Due
<1> HIDE DEF todo
<1>3. rec \in BatchRecords /\ rec.pc = "take" /\ rec.proc = p /\ rec.todo = todo /\ ~rec.ok
  BY <1>2 DEF Idle, BatchRecords
<1> HIDE DEF rec
<1>4. batch'[b] = rec /\ \A c \in Batches : c # b => batch'[c] = batch[c]
  BY <1>1, <1>3, GotoFacts DEF rec, todo
<1>5. ks \in SUBSET Due
  BY DEF FetchSets
<1> QED BY <1>3, <1>4, <1>5 DEF todo

LEMMA CronLocals ==
    ASSUME TypeOK, LocalsInv, NEW b \in Batches, NEW p \in Processes, Cron(b, p)
    PROVE  LocalsInv'
<1>1. PICK ks \in SUBSET Due :
          /\ batch'[b].pc = "take" /\ batch'[b].proc = p /\ ~batch'[b].ok
          /\ batch'[b].todo = {SnapshotOf(k) : k \in ks}
          /\ \A c \in Batches : c # b => batch'[c] = batch[c]
  BY CronFacts
<1>2. /\ ~isProcessing[p] /\ isProcessing' = [isProcessing EXCEPT ![p] = TRUE]
      /\ isProcessing \in [Processes -> BOOLEAN]
  BY DEF Cron, Free, TypeOK
<1>3. BatchInv(b)'
  <2>1. \A i, j \in batch'[b].todo : i.key = j.key => i = j
    BY <1>1 DEF SnapshotOf
  <2> QED BY <1>1, <1>2, <2>1 DEF BatchInv, Busy, HasJob, At
<1>4. ASSUME NEW c \in Batches, c # b PROVE BatchInv(c)'
  BY <1>1, <1>2, <1>4, BatchKept DEF LocalsInv, BatchInv
<1>5. OneBatchPerProcess'
  BY <1>1, <1>2 DEF LocalsInv, BatchInv, OneBatchPerProcess, Busy
<1> QED BY <1>3, <1>4, <1>5 DEF LocalsInv

LEMMA CrashLocals ==
    ASSUME TypeOK, LocalsInv, NEW p \in Processes, Crash(p)
    PROVE  LocalsInv'
<1>1. \A c \in Batches : batch'[c] = IF batch[c].proc = p THEN Idle ELSE batch[c]
  BY DEF Crash
<1>2. ASSUME NEW c \in Batches, batch[c].proc = p PROVE BatchInv(c)'
  BY <1>1, <1>2, IdleFacts DEF BatchInv, Busy, HasJob, At
<1>3. ASSUME NEW c \in Batches, batch[c].proc # p PROVE BatchInv(c)'
  <2>1. Busy(c) => isProcessing'[batch[c].proc]
    BY <1>3 DEF Crash, LocalsInv, BatchInv, TypeOK
  <2> QED BY <1>1, <1>3, <2>1, BatchKept DEF LocalsInv
<1>4. OneBatchPerProcess'
  BY <1>1, IdleFacts DEF LocalsInv, OneBatchPerProcess, Busy
<1> QED BY <1>2, <1>3, <1>4 DEF LocalsInv

LEMMA FrameLocals ==
    ASSUME LocalsInv, UNCHANGED <<batch, isProcessing>> PROVE LocalsInv'
BY DEF LocalsInv, BatchInv, OneBatchPerProcess, Busy, HasJob, At, Announceable

-----------------------------------------------------------------------------
(* Armings, pushes and the inbox.                                          *)

\* A row turns PENDING with an arming of its own, and SENT only by the worker.
ArmedHonestly ==
    \A k \in Keys : /\ credit'[k] \in Int /\ credit'[k] >= credit[k]
                    /\ Pending(k)' => Pending(k) \/ credit'[k] >= credit[k] + 1
                    /\ jobs'[k].status = "SENT" => jobs[k].status = "SENT"

LEMMA ArmFacts ==
    ASSUME TypeOK, NEW k, NEW at, NEW f,
           f \in [Keys -> [status : Statuses, at : Int]],
           \A l \in Keys : f[l] = jobs[l] \/ f[l].status \notin {"PENDING", "SENT"},
           jobs' = [f EXCEPT ![k] = PendingJob(at)],
           credit' = [credit EXCEPT ![k] = CreditFor(k)]
    PROVE  ArmedHonestly
<1>1. credit \in [Keys -> Int] /\ PendingJob(at).status = "PENDING"
  BY DEF TypeOK, PendingJob
<1>2. ASSUME NEW l \in Keys, l # k
      PROVE  credit'[l] = credit[l] /\ jobs'[l] = f[l]
  BY <1>1, <1>2
<1>3. k \in Keys => /\ credit'[k] = CreditFor(k) /\ CreditFor(k) \in Int
                    /\ jobs'[k].status = "PENDING"
                    /\ credit'[k] >= credit[k]
                    /\ Pending(k) \/ credit'[k] >= credit[k] + 1
  BY <1>1 DEF CreditFor
<1> QED BY <1>1, <1>2, <1>3 DEF ArmedHonestly, Pending

LEMMA CanceledFacts ==
    ASSUME TypeOK, NEW ks
    PROVE  /\ Canceled(ks) \in [Keys -> [status : Statuses, at : Int]]
           /\ \A l \in Keys : \/ Canceled(ks)[l] = jobs[l]
                             \/ Canceled(ks)[l].status \notin {"PENDING", "SENT"}
BY DEF TypeOK, Canceled, Statuses

LEMMA DroppedHonestly ==
    ASSUME TypeOK, UNCHANGED credit,
           \A l \in Keys : jobs'[l] = jobs[l] \/ jobs'[l].status \notin {"PENDING", "SENT"}
    PROVE  ArmedHonestly
BY DEF TypeOK, ArmedHonestly, Pending

LEMMA SyncScheduleHonest ==
    ASSUME TypeOK, NEW s, SyncSchedule(s) PROVE ArmedHonestly
<1>1. CASE s.enabled
  <2>1. /\ jobs' = [jobs EXCEPT ![ScheduleKey] = PendingJob(s.at)]
        /\ credit' = [credit EXCEPT ![ScheduleKey] = CreditFor(ScheduleKey)]
    BY <1>1 DEF SyncSchedule
  <2>2. jobs \in [Keys -> [status : Statuses, at : Int]]
    BY DEF TypeOK
  <2> QED BY <2>1, <2>2, ArmFacts
<1>2. CASE ~s.enabled
  BY <1>2, CanceledFacts, DroppedHonestly DEF SyncSchedule, ScheduleCanceled
<1> QED BY <1>1, <1>2

LEMMA SyncBirthdayHonest ==
    ASSUME TypeOK, NEW p, SyncBirthday(p) PROVE ArmedHonestly
<1>1. CASE p.enabled /\ p.birthday # None
  <2> DEFINE y == TargetYear(p.birthday)
             at == NotifyAt(p.birthday, y, p.offset)
             f == OthersCanceled(y)
  <2>1. jobs' = [f EXCEPT ![y] = PendingJob(at)] /\ credit' = [credit EXCEPT ![y] = CreditFor(y)]
    BY <1>1 DEF SyncBirthday
  <2>2. /\ f \in [Keys -> [status : Statuses, at : Int]]
        /\ \A l \in Keys : f[l] = jobs[l] \/ f[l].status \notin {"PENDING", "SENT"}
    BY CanceledFacts DEF OthersCanceled
  <2> HIDE DEF y, at, f
  <2> QED BY <2>1, <2>2, ArmFacts
<1>2. CASE ~(p.enabled /\ p.birthday # None)
  BY <1>2, CanceledFacts, DroppedHonestly DEF SyncBirthday
<1> QED BY <1>1, <1>2

LEMMA ApiHonest ==
    ASSUME TypeOK,
           \/ CreateSchedule \/ RescheduleSchedule \/ RetitleSchedule \/ DeleteSchedule
           \/ SavePerson \/ DeletePerson \/ \E d \in Devices : RegisterToken(d)
    PROVE  ArmedHonestly /\ UNCHANGED inbox
<1>1. CASE CreateSchedule
  BY <1>1, SyncScheduleHonest DEF CreateSchedule
<1>2. CASE RescheduleSchedule
  BY <1>2, SyncScheduleHonest DEF RescheduleSchedule
<1>3. CASE RetitleSchedule
  BY <1>3, DroppedHonestly DEF RetitleSchedule
<1>4. CASE DeleteSchedule
  <2>1. \A l \in Keys : jobs'[l] = jobs[l] \/ jobs'[l].status \notin {"PENDING", "SENT"}
    BY <1>4 DEF DeleteSchedule, NoJob, TypeOK
  <2> QED BY <1>4, <2>1, DroppedHonestly DEF DeleteSchedule
<1>5. CASE SavePerson
  BY <1>5, SyncBirthdayHonest DEF SavePerson
<1>6. CASE DeletePerson
  <2>1. \A l \in Keys : jobs'[l] = jobs[l] \/ jobs'[l].status \notin {"PENDING", "SENT"}
    BY <1>6 DEF DeletePerson, NoJob, TypeOK
  <2> QED BY <1>6, <2>1, DroppedHonestly DEF DeletePerson
<1>7. CASE \E d \in Devices : RegisterToken(d)
  BY <1>7, DroppedHonestly DEF RegisterToken
<1> QED BY <1>1, <1>2, <1>3, <1>4, <1>5, <1>6, <1>7

\* A key owes no more than before, or a new arming pays for it.
LEMMA CreditKept ==
    ASSUME TypeOK, TypeOK', NEW k \in Keys, CreditInv(k),
           credit'[k] + crashes' >= credit[k] + crashes,
           Owed(k)' => Owed(k) \/ credit'[k] + crashes' >= credit[k] + crashes + 1
    PROVE  CreditInv(k)'
<1>1. /\ credit[k] \in Int /\ credit'[k] \in Int /\ crashes \in Int /\ crashes' \in Int
  BY DEF TypeOK
<1> QED BY <1>1 DEF CreditInv

LEMMA ApiCredit ==
    ASSUME TypeOK, TypeOK', PushInv, ArmedHonestly, UNCHANGED <<batch, crashes>>
    PROVE  PushInv'
<1>1. ASSUME NEW k \in Keys PROVE CreditInv(k)'
  <2>1. (Awaited(k)' <=> Awaited(k)) /\ (BeingRecorded(k)' <=> BeingRecorded(k))
    BY DEF Awaited, BeingRecorded, Awaits, Tried, At
  <2>2. /\ credit[k] \in Int /\ credit'[k] \in Int /\ crashes \in Int /\ crashes' = crashes
    BY DEF TypeOK
  <2>3. /\ credit'[k] >= credit[k]
        /\ Pending(k)' => Pending(k) \/ credit'[k] >= credit[k] + 1
    BY DEF ArmedHonestly
  <2>4. credit'[k] + crashes' >= credit[k] + crashes
    BY <2>2, <2>3
  <2>5. Owed(k)' => Owed(k) \/ credit'[k] + crashes' >= credit[k] + crashes + 1
    BY <2>1, <2>2, <2>3 DEF Owed
  <2> QED BY <2>4, <2>5, CreditKept DEF PushInv
<1> QED BY <1>1 DEF PushInv

\* With one process, only the run that is under way awaits or records anything.
LEMMA Alone ==
    ASSUME OneProcess, LocalsInv, NEW b \in Batches, Busy(b)
    PROVE  \A c \in Batches : c # b => /\ batch[c].pc = "idle" /\ batch[c].todo = {}
BY DEF OneProcess, LocalsInv, BatchInv, OneBatchPerProcess, Busy

LEMMA AloneFacts ==
    ASSUME NEW b \in Batches, NEW k,
           \A c \in Batches : c # b => batch[c].pc = "idle" /\ batch[c].todo = {}
    PROVE  (Awaited(k) <=> Awaits(b, k)) /\ (BeingRecorded(k) <=> Tried(b, k))
BY DEF Awaited, BeingRecorded, Awaits, Tried, At

LEMMA AloneAfter ==
    ASSUME NEW b \in Batches, NEW k,
           \A c \in Batches : c # b => batch[c].pc = "idle" /\ batch[c].todo = {},
           \A c \in Batches : c # b => batch'[c] = batch[c]
    PROVE  (Awaited(k)' <=> Awaits(b, k)') /\ (BeingRecorded(k)' <=> Tried(b, k)')
BY DEF Awaited, BeingRecorded, Awaits, Tried, At

\* The owed push of one key, in terms of the run that is under way.
LEMMA OwedFacts ==
    ASSUME OneProcess, LocalsInv, NEW b \in Batches, Busy(b), NEW k,
           \A c \in Batches : c # b => batch'[c] = batch[c]
    PROVE  /\ Owed(k) <=> Awaits(b, k) \/ (Pending(k) /\ ~Tried(b, k))
           /\ Owed(k)' <=> Awaits(b, k)' \/ (Pending(k)' /\ ~Tried(b, k)')
BY Alone, AloneFacts, AloneAfter DEF Owed

\* An aborted run owes nothing more; the row it was recording must not be pending.
LEMMA AbortCredit ==
    ASSUME TypeOK, TypeOK', OneProcess, LocalsInv, PushInv, NEW b \in Batches, Busy(b), Abort(b),
           UNCHANGED crashes, \A k \in Keys : Tried(b, k) => ~Pending(k)
    PROVE  PushInv'
<1>1. ASSUME NEW k \in Keys PROVE CreditInv(k)'
  <2>1. /\ batch'[b] = Idle /\ UNCHANGED <<jobs, credit>>
        /\ \A c \in Batches : c # b => batch'[c] = batch[c]
    BY AbortFacts DEF Rows
  <2>2. ~Awaits(b, k)' /\ ~Tried(b, k)'
    BY <2>1, IdleFacts DEF Awaits, Tried, At
  <2>3. Owed(k)' => Owed(k)
    BY <2>1, <2>2, OwedFacts DEF Pending
  <2>4. credit'[k] + crashes' >= credit[k] + crashes
    BY <2>1 DEF TypeOK
  <2> QED BY <2>3, <2>4, CreditKept DEF PushInv
<1> QED BY <1>1 DEF PushInv

LEMMA WorkerCredit ==
    ASSUME TypeOK, TypeOK', OneProcess, LocalsInv, PushInv, NEW b \in Batches, WorkerStep(b)
    PROVE  PushInv'
<1>1. BatchInv(b) /\ batch[b] \in BatchRecords /\ batch[b].todo \subseteq Snapshots
  BY DEF LocalsInv, TypeOK, BatchRecords
<1>2. CASE Take(b)
  <2>1. UNCHANGED crashes /\ Busy(b) /\ \A k : ~Tried(b, k)
    BY <1>2 DEF Take, Context, Busy, At, Tried
  <2>2. CASE Abort(b)
    BY <2>1, <2>2, AbortCredit
  <2>3. ASSUME NEW j \in batch[b].todo, NEW pc \in {"mark", "send"},
               Goto(b, [[batch[b] EXCEPT !.todo = @ \ {j}, !.job = j] EXCEPT !.pc = pc]),
               UNCHANGED <<isProcessing, Rows, credit>>
        PROVE  PushInv'
    <3> DEFINE rec == [[batch[b] EXCEPT !.todo = @ \ {j}, !.job = j] EXCEPT !.pc = pc]
    <3>1. rec \in BatchRecords /\ rec.todo \subseteq batch[b].todo /\ rec.job = j
      BY <1>1, <2>3 DEF BatchRecords
    <3> HIDE DEF rec
    <3>2. batch'[b] = rec /\ \A c \in Batches : c # b => batch'[c] = batch[c]
      BY <2>3, <3>1, GotoFacts DEF rec
    <3>3. ASSUME NEW k \in Keys PROVE CreditInv(k)'
      <4>1. Awaits(b, k)' => Awaits(b, k)
        BY <3>1, <3>2, <2>3 DEF Awaits
      <4>2. Pending(k)' <=> Pending(k)
        BY <2>3 DEF Rows, Pending
      <4>3. Owed(k)' => Owed(k)
        BY <4>1, <4>2, <3>2, <2>1, OwedFacts
      <4>4. credit'[k] + crashes' >= credit[k] + crashes
        BY <2>1, <2>3 DEF TypeOK
      <4> QED BY <4>3, <4>4, CreditKept DEF PushInv
    <3> QED BY <3>3 DEF PushInv
  <2> QED BY <1>2, <2>2, <2>3 DEF Take
<1>3. CASE Send(b)
  <2>1. PICK ok \in BOOLEAN, invalid \in SUBSET tokens :
            Goto(b, [batch[b] EXCEPT !.pc = IF invalid = {} THEN "mark" ELSE "revoke",
                                     !.ok = ok, !.invalid = invalid])
    BY <1>3 DEF Send
  <2> DEFINE rec == [batch[b] EXCEPT !.pc = IF invalid = {} THEN "mark" ELSE "revoke",
                                     !.ok = ok, !.invalid = invalid]
  <2>2. /\ rec \in BatchRecords /\ rec.todo = batch[b].todo /\ rec.job = batch[b].job
        /\ rec.pc \in {"mark", "revoke"}
    BY <1>1, <2>1 DEF BatchRecords, TypeOK
  <2> HIDE DEF rec
  <2>3. batch'[b] = rec /\ \A c \in Batches : c # b => batch'[c] = batch[c]
    BY <2>1, <2>2, GotoFacts DEF rec
  <2>4. PICK k0 \in Keys :
            /\ k0 = batch[b].job.key
            /\ \A i \in batch[b].todo : i.key # k0
            /\ Busy(b) /\ At(b, "send") /\ UNCHANGED <<jobs, crashes>>
            /\ credit' = credit \/ credit' = [credit EXCEPT ![k0] = credit[k0] - 1]
    BY <1>1, <1>3 DEF Send, Busy, At, BatchInv, HasJob, Snapshots, Rows, Context
  <2>5. CreditInv(k0)'
    <3>1. Awaits(b, k0) /\ ~Awaits(b, k0)' /\ Tried(b, k0)'
      BY <2>2, <2>3, <2>4 DEF Awaits, Tried, At
    <3>2. Owed(k0) /\ ~Owed(k0)'
      BY <3>1, <2>3, <2>4, OwedFacts
    <3>3. credit[k0] + crashes >= 1 /\ credit[k0] \in Int /\ crashes \in Int
      BY <2>4, <3>2 DEF PushInv, CreditInv, TypeOK
    <3>4. credit'[k0] = credit[k0] \/ credit'[k0] = credit[k0] - 1
      BY <2>4 DEF TypeOK
    <3>5. credit'[k0] + crashes' >= 0
      BY <2>4, <3>3, <3>4
    <3> QED BY <3>2, <3>5 DEF CreditInv
  <2>6. ASSUME NEW k \in Keys, k # k0 PROVE CreditInv(k)'
    <3>1. (Awaits(b, k)' => Awaits(b, k)) /\ ~Tried(b, k)
      BY <2>2, <2>3, <2>4, <2>6 DEF Awaits, Tried, At
    <3>2. Owed(k)' => Owed(k)
      BY <3>1, <2>3, <2>4, OwedFacts DEF Pending
    <3>3. credit'[k] = credit[k]
      BY <2>4, <2>6 DEF TypeOK
    <3>4. credit'[k] + crashes' >= credit[k] + crashes
      BY <2>4, <3>3 DEF TypeOK
    <3> QED BY <3>2, <3>4, CreditKept DEF PushInv
  <2> QED BY <2>5, <2>6 DEF PushInv
<1>4. CASE RevokeTokens(b)
  <2>1. PICK revoked \in SUBSET batch[b].invalid :
            Goto(b, [batch[b] EXCEPT !.pc = "mark", !.ok = @ /\ revoked = batch[b].invalid])
    BY <1>4 DEF RevokeTokens
  <2> DEFINE rec == [batch[b] EXCEPT !.pc = "mark", !.ok = @ /\ revoked = batch[b].invalid]
  <2>2. /\ rec \in BatchRecords /\ rec.todo = batch[b].todo /\ rec.job = batch[b].job
        /\ rec.pc = "mark"
    BY <1>1 DEF BatchRecords
  <2> HIDE DEF rec
  <2>3. batch'[b] = rec /\ \A c \in Batches : c # b => batch'[c] = batch[c]
    BY <2>1, <2>2, GotoFacts DEF rec
  <2>4. Busy(b) /\ UNCHANGED <<jobs, credit, crashes>> /\ At(b, "revoke")
    BY <1>4 DEF RevokeTokens, Busy, At, Context
  <2>5. ASSUME NEW k \in Keys PROVE CreditInv(k)'
    <3>1. (Awaits(b, k)' => Awaits(b, k)) /\ (Tried(b, k) => Tried(b, k)')
      BY <2>2, <2>3, <2>4 DEF Awaits, Tried, At
    <3>2. Owed(k)' => Owed(k)
      BY <3>1, <2>3, <2>4, OwedFacts DEF Pending
    <3>3. credit'[k] + crashes' >= credit[k] + crashes
      BY <2>4 DEF TypeOK
    <3> QED BY <3>2, <3>3, CreditKept DEF PushInv
  <2> QED BY <2>5 DEF PushInv
<1>5. CASE RowGone(b)
  BY <1>5, AbortCredit DEF RowGone, Busy, At, Tried, Pending, Context
<1>6. ASSUME NEW status \in {"SENT", "FAILED"}, At(b, "mark"), jobs' = Marked(b, status),
             UNCHANGED <<credit, crashes>>, batch'[b].todo = batch[b].todo,
             batch'[b].pc \in {"take", "next"},
             \A c \in Batches : c # b => batch'[c] = batch[c]
      PROVE  PushInv'
  <2>1. Busy(b)
    BY <1>6 DEF Busy, At
  <2>2. ASSUME NEW k \in Keys PROVE CreditInv(k)'
    <3>1. Awaits(b, k)' => Awaits(b, k)
      BY <1>6 DEF Awaits, At
    <3>2. Pending(k)' => Pending(k) /\ ~Tried(b, k)
      <4>1. jobs'[k] = IF k = batch[b].job.key THEN [jobs[k] EXCEPT !.status = status] ELSE jobs[k]
        BY <1>6, <2>2 DEF Marked, TypeOK
      <4>2. CASE k = batch[b].job.key
        <5>1. [jobs[k] EXCEPT !.status = status].status = status
          BY <2>2 DEF TypeOK
        <5> QED BY <4>1, <4>2, <5>1 DEF Pending
      <4> QED BY <4>1, <4>2 DEF Pending, Tried
    <3>3. Owed(k)' => Owed(k)
      BY <3>1, <3>2, <1>6, <2>1, OwedFacts
    <3>4. credit'[k] + crashes' >= credit[k] + crashes
      BY <1>6 DEF TypeOK
    <3> QED BY <3>3, <3>4, CreditKept DEF PushInv
  <2> QED BY <2>2 DEF PushInv
<1>7. CASE MarkSent(b)
  <2>1. AfterSent(b) \in BatchRecords /\ AfterSent(b).todo = batch[b].todo
        /\ AfterSent(b).pc \in {"take", "next"}
    BY <1>1, BackFacts DEF AfterSent, BatchRecords
  <2>2. batch'[b] = AfterSent(b) /\ \A c \in Batches : c # b => batch'[c] = batch[c]
    BY <1>7, <2>1, GotoFacts DEF MarkSent
  <2> QED BY <1>6, <1>7, <2>1, <2>2 DEF MarkSent, Context
<1>8. CASE MarkFailed(b)
  <2>1. batch'[b] = Back(b) /\ \A c \in Batches : c # b => batch'[c] = batch[c]
    BY <1>8, BackFacts, GotoFacts DEF MarkFailed
  <2> QED BY <1>6, <1>8, <2>1, BackFacts DEF MarkFailed, Context
<1>9. CASE ScheduleNext(b)
  <2>1. Busy(b) /\ At(b, "next") /\ UNCHANGED crashes /\ \A k : ~Tried(b, k)
    BY <1>9 DEF ScheduleNext, Busy, At, Context, Tried
  <2>2. CASE Abort(b)
    BY <2>1, <2>2, AbortCredit
  <2> DEFINE y == batch[b].job.key + 1
             at == NotifyAt(batch[b].job.birthday, y, batch[b].job.offset)
  <2>3. CASE /\ jobs' = [jobs EXCEPT ![y] = PendingJob(at)]
             /\ credit' = [credit EXCEPT ![y] = CreditFor(y)]
             /\ Goto(b, Back(b))
    <3> HIDE DEF y, at
    <3>1. ArmedHonestly
      <4>1. jobs \in [Keys -> [status : Statuses, at : Int]]
        BY DEF TypeOK
      <4> QED BY <2>3, <4>1, ArmFacts
    <3>2. batch'[b] = Back(b) /\ \A c \in Batches : c # b => batch'[c] = batch[c]
      BY <2>3, BackFacts, GotoFacts
    <3>3. ASSUME NEW k \in Keys PROVE CreditInv(k)'
      <4>1. Awaits(b, k)' => Awaits(b, k)
        BY <3>2, BackFacts DEF Awaits, At
      <4>2. /\ credit[k] \in Int /\ credit'[k] \in Int /\ crashes \in Int /\ crashes' = crashes
        BY <2>1 DEF TypeOK
      <4>3. /\ credit'[k] >= credit[k]
            /\ Pending(k)' => Pending(k) \/ credit'[k] >= credit[k] + 1
        BY <3>1 DEF ArmedHonestly
      <4>4. credit'[k] + crashes' >= credit[k] + crashes
        BY <4>2, <4>3
      <4>5. Owed(k)' => Owed(k) \/ credit'[k] + crashes' >= credit[k] + crashes + 1
        BY <4>1, <4>2, <4>3, <3>2, <2>1, OwedFacts
      <4> QED BY <4>4, <4>5, CreditKept DEF PushInv
    <3> QED BY <3>3 DEF PushInv
  <2> QED BY <1>9, <2>2, <2>3 DEF ScheduleNext
<1> QED BY <1>2, <1>3, <1>4, <1>5, <1>7, <1>8, <1>9 DEF WorkerStep

LEMMA CronCredit ==
    ASSUME TypeOK, TypeOK', OneProcess, LocalsInv, PushInv, NEW b \in Batches, NEW p \in Processes,
           Cron(b, p)
    PROVE  PushInv'
<1>1. PICK ks \in SUBSET Due :
          /\ batch'[b].pc = "take" /\ batch'[b].proc = p /\ ~batch'[b].ok
          /\ batch'[b].todo = {SnapshotOf(k) : k \in ks}
          /\ \A c \in Batches : c # b => batch'[c] = batch[c]
  BY CronFacts
<1>2. \A c \in Batches : batch[c].pc = "idle" /\ batch[c].todo = {}
  BY DEF Cron, Free, OneProcess, LocalsInv, BatchInv, Busy
<1>3. UNCHANGED <<jobs, credit, crashes>>
  BY DEF Cron, Rows, Context
<1>4. ASSUME NEW k \in Keys PROVE CreditInv(k)'
  <2>1. ~Awaited(k) /\ ~BeingRecorded(k)
    BY <1>2 DEF Awaited, BeingRecorded, Awaits, Tried, At
  <2>2. Awaits(b, k)' => Pending(k)
    BY <1>1 DEF Awaits, At, SnapshotOf, Due
  <2>3. Owed(k)' => Owed(k)
    BY <1>1, <1>2, <1>3, <2>1, <2>2, AloneAfter DEF Owed, Pending
  <2>4. credit'[k] + crashes' >= credit[k] + crashes
    BY <1>3 DEF TypeOK
  <2> QED BY <2>3, <2>4, CreditKept DEF PushInv
<1> QED BY <1>4 DEF PushInv

\* A push that was tried and not recorded may be repeated: the crash pays for it.
LEMMA CrashCredit ==
    ASSUME TypeOK, TypeOK', PushInv, NEW p \in Processes, Crash(p)
    PROVE  PushInv'
<1>1. ASSUME NEW k \in Keys PROVE CreditInv(k)'
  <2>1. /\ credit[k] \in Int /\ crashes \in Int /\ crashes' = crashes + 1
        /\ credit'[k] = credit[k]
    BY DEF Crash, Rows, TypeOK
  <2>2. credit[k] + crashes >= 0
    BY <2>1 DEF PushInv, CreditInv
  <2> QED BY <2>1, <2>2 DEF CreditInv
<1> QED BY <1>1 DEF PushInv

LEMMA InboxStep ==
    ASSUME TypeOK, LocalsInv, SentIsInInbox, [Next]_vars
    PROVE  SentIsInInbox'
<1>1. ASSUME ArmedHonestly, UNCHANGED inbox PROVE SentIsInInbox'
  BY <1>1 DEF ArmedHonestly, SentIsInInbox
<1>2. ASSUME UNCHANGED <<jobs, inbox>> PROVE SentIsInInbox'
  BY <1>2 DEF SentIsInInbox
<1>3. ASSUME NEW b \in Batches, WorkerStep(b) PROVE SentIsInInbox'
  <2>1. ASSUME Abort(b) PROVE SentIsInInbox'
    BY <1>2, <2>1 DEF Abort, Rows
  <2>2. CASE Take(b)
    BY <1>2, <2>1, <2>2 DEF Take, Rows
  <2>3. CASE Send(b)
    BY <1>2, <2>3 DEF Send, Rows
  <2>4. CASE RevokeTokens(b)
    BY <1>2, <2>4 DEF RevokeTokens
  <2>5. CASE RowGone(b)
    BY <2>1, <2>5 DEF RowGone
  <2>6. CASE MarkSent(b)
    BY <2>6 DEF MarkSent, Marked, InboxWith, SentIsInInbox, TypeOK
  <2>7. CASE MarkFailed(b)
    <3>1. ASSUME NEW k \in Keys, jobs'[k].status = "SENT" PROVE jobs[k].status = "SENT"
      <4>1. jobs'[k] = IF k = batch[b].job.key THEN [jobs[k] EXCEPT !.status = "FAILED"] ELSE jobs[k]
        BY <2>7, <3>1 DEF MarkFailed, Marked, TypeOK
      <4>2. [jobs[k] EXCEPT !.status = "FAILED"].status = "FAILED"
        BY <3>1 DEF TypeOK
      <4> QED BY <3>1, <4>1, <4>2
    <3> QED BY <2>7, <3>1 DEF MarkFailed, SentIsInInbox
  <2>8. CASE ScheduleNext(b)
    <3> DEFINE y == batch[b].job.key + 1
               at == NotifyAt(batch[b].job.birthday, y, batch[b].job.offset)
    <3>1. CASE /\ jobs' = [jobs EXCEPT ![y] = PendingJob(at)]
               /\ credit' = [credit EXCEPT ![y] = CreditFor(y)]
               /\ UNCHANGED inbox
      <4> HIDE DEF y, at
      <4>1. jobs \in [Keys -> [status : Statuses, at : Int]]
        BY DEF TypeOK
      <4>2. ArmedHonestly
        BY <3>1, <4>1, ArmFacts
      <4> QED BY <1>1, <3>1, <4>2
    <3> QED BY <2>1, <2>8, <3>1 DEF ScheduleNext
  <2> QED BY <1>3, <2>2, <2>3, <2>4, <2>5, <2>6, <2>7, <2>8 DEF WorkerStep
<1>4. ASSUME NEW b \in Batches, NEW p \in Processes, Cron(b, p) PROVE SentIsInInbox'
  BY <1>2, <1>4 DEF Cron, Rows
<1>5. ASSUME NEW p \in Processes, Crash(p) PROVE SentIsInInbox'
  BY <1>2, <1>5 DEF Crash, Rows
<1>6. CASE Tick
  BY <1>2, <1>6 DEF Tick, Rows
<1>7. CASE UNCHANGED vars
  BY <1>2, <1>7 DEF vars
<1> QED BY <1>1, <1>3, <1>4, <1>5, <1>6, <1>7, ApiHonest DEF Next

-----------------------------------------------------------------------------
(* The invariants.                                                         *)

LEMMA InitInv == Init => IInv /\ PushInv
<1> SUFFICES ASSUME Init PROVE IInv /\ PushInv
  OBVIOUS
<1>1. schedule \in Schedules /\ person \in People
  BY DEF Init
<1>2. jobs \in [Keys -> [status : Statuses, at : Int]] /\ credit \in [Keys -> Int]
  BY DEF Init, NoJob, Statuses
<1>3. batch \in [Batches -> BatchRecords] /\ isProcessing \in [Processes -> BOOLEAN]
  BY IdleType DEF Init
<1>4. \A b \in Batches : batch[b].pc = "idle" /\ batch[b].todo = {}
  BY IdleFacts DEF Init
<1>5. TypeOK
  BY <1>1, <1>2, <1>3 DEF Init, TypeOK
<1>6. LocalsInv
  BY <1>4 DEF LocalsInv, BatchInv, OneBatchPerProcess, Busy, HasJob, At
<1>7. \A k \in Keys : ~Pending(k) /\ jobs[k].status # "SENT" /\ credit[k] = 0 /\ crashes = 0
  BY DEF Init, NoJob, Pending
<1>8. \A k \in Keys : ~Owed(k)
  BY <1>4, <1>7 DEF Owed, Awaited, Awaits, At
<1>9. PushInv
  BY <1>7, <1>8 DEF PushInv, CreditInv
<1> QED BY <1>5, <1>6, <1>7, <1>9 DEF IInv, SentIsInInbox

LEMMA NextInv == IInv /\ [Next]_vars => IInv'
<1> SUFFICES ASSUME IInv, [Next]_vars PROVE IInv'
  OBVIOUS
<1>1. TypeOK /\ LocalsInv /\ SentIsInInbox
  BY DEF IInv
<1>2. SentIsInInbox'
  BY <1>1, InboxStep
<1>3. ASSUME NEW b \in Batches, WorkerStep(b) PROVE TypeOK' /\ LocalsInv'
  BY <1>1, <1>3, WorkerType, WorkerLocals DEF LocalsInv
<1>4. ASSUME NEW b \in Batches, NEW p \in Processes, Cron(b, p) PROVE TypeOK' /\ LocalsInv'
  BY <1>1, <1>4, CronType, CronLocals
<1>5. ASSUME NEW p \in Processes, Crash(p) PROVE TypeOK' /\ LocalsInv'
  BY <1>1, <1>5, CrashType, CrashLocals
<1>6. ASSUME Tick PROVE TypeOK' /\ LocalsInv'
  BY <1>1, <1>6, TickType, FrameLocals DEF Tick
<1>7. ASSUME UNCHANGED vars PROVE TypeOK' /\ LocalsInv'
  BY <1>1, <1>7, FrameLocals DEF vars, TypeOK
<1>8. ASSUME \/ CreateSchedule \/ RescheduleSchedule \/ RetitleSchedule \/ DeleteSchedule
             \/ SavePerson \/ DeletePerson \/ \E d \in Devices : RegisterToken(d)
      PROVE  TypeOK' /\ LocalsInv'
  BY <1>1, <1>8, ApiType, FrameLocals
<1>9. TypeOK' /\ LocalsInv'
  BY <1>3, <1>4, <1>5, <1>6, <1>7, <1>8 DEF Next
<1> QED BY <1>2, <1>9 DEF IInv

LEMMA NextPush == OneProcess /\ IInv /\ IInv' /\ PushInv /\ [Next]_vars => PushInv'
<1> SUFFICES ASSUME OneProcess, IInv, IInv', PushInv, [Next]_vars PROVE PushInv'
  OBVIOUS
<1>1. TypeOK /\ TypeOK' /\ LocalsInv
  BY DEF IInv
<1>2. ASSUME NEW b \in Batches, WorkerStep(b) PROVE PushInv'
  BY <1>1, <1>2, WorkerCredit
<1>3. ASSUME NEW b \in Batches, NEW p \in Processes, Cron(b, p) PROVE PushInv'
  BY <1>1, <1>3, CronCredit
<1>4. ASSUME NEW p \in Processes, Crash(p) PROVE PushInv'
  BY <1>1, <1>4, CrashCredit
<1>5. ASSUME UNCHANGED <<jobs, credit, batch, crashes>> PROVE PushInv'
  BY <1>1, <1>5, ApiCredit, DroppedHonestly
<1>6. CASE Tick
  BY <1>5, <1>6 DEF Tick, Rows
<1>7. CASE UNCHANGED vars
  BY <1>5, <1>7 DEF vars
<1>8. CASE \/ CreateSchedule \/ RescheduleSchedule \/ RetitleSchedule \/ DeleteSchedule
           \/ SavePerson \/ DeletePerson \/ \E d \in Devices : RegisterToken(d)
  BY <1>1, <1>8, ApiType, ApiHonest, ApiCredit
<1> QED BY <1>2, <1>3, <1>4, <1>6, <1>7, <1>8 DEF Next

\* The inductive invariant holds, for any number of processes.
THEOREM Invariance == Spec => []IInv
<1> QED BY InitInv, NextInv, PTL DEF Spec

\* Type correctness: rows, flags and locals keep their types, the yearly rearming and
\* the two sync functions included.
THEOREM TypeCorrect == Spec => []TypeOK
<1>1. IInv => TypeOK
  BY DEF IInv
<1> QED BY <1>1, Invariance, PTL

\* markJobSentAndCreateNotification: SENT and the inbox entry come together, whatever
\* upserts, cancellations and deletions happen to the row before and after.
THEOREM SentJobsAreInInbox == Spec => []SentIsInInbox
<1>1. IInv => SentIsInInbox
  BY DEF IInv
<1> QED BY <1>1, Invariance, PTL

\* isProcessing is set before the first await and lowered in finally, so a process
\* never has two runs of the cron handler under way, whatever throws.
THEOREM OneBatch == Spec => []OneBatchPerProcess
<1>1. IInv => OneBatchPerProcess
  BY DEF IInv, LocalsInv
<1> QED BY <1>1, Invariance, PTL

\* isProcessing never stays set: while it is, a batch of that process is under way that
\* will lower it, so the next cron tick finds it free as soon as no batch runs.
FlagHasBatch ==
    \A p \in Processes : isProcessing[p] => \E b \in Batches : Busy(b) /\ batch[b].proc = p

LEMMA FlagStep ==
    ASSUME IInv, FlagHasBatch, [Next]_vars
    PROVE  FlagHasBatch'
<1>0. TypeOK /\ LocalsInv
  BY DEF IInv
<1>1. ASSUME UNCHANGED isProcessing,
             \A b \in Batches : Busy(b) => Busy(b)' /\ batch'[b].proc = batch[b].proc
      PROVE  FlagHasBatch'
  BY <1>1 DEF FlagHasBatch
<1>2. ASSUME NEW b \in Batches, Busy(b), Abort(b) PROVE FlagHasBatch'
  <2>1. /\ isProcessing' = [isProcessing EXCEPT ![batch[b].proc] = FALSE]
        /\ \A c \in Batches : c # b => batch'[c] = batch[c]
    BY <1>0, <1>2, AbortFacts DEF Abort, EndBatch
  <2>2. ASSUME NEW p \in Processes, isProcessing'[p]
        PROVE  \E c \in Batches : Busy(c)' /\ batch'[c].proc = p
    <3>1. p # batch[b].proc /\ isProcessing[p]
      BY <1>0, <2>1, <2>2 DEF TypeOK
    <3>2. PICK c \in Batches : Busy(c) /\ batch[c].proc = p
      BY <3>1 DEF FlagHasBatch
    <3> QED BY <2>1, <3>1, <3>2 DEF Busy
  <2> QED BY <2>2 DEF FlagHasBatch
<1>3. ASSUME NEW b \in Batches, NEW rec, Busy(b), Goto(b, rec), UNCHANGED isProcessing,
             rec.pc # "idle", rec.proc = batch[b].proc
      PROVE  FlagHasBatch'
  <2>1. batch'[b] = rec /\ \A c \in Batches : c # b => batch'[c] = batch[c]
    BY <1>0, <1>3 DEF Goto, TypeOK
  <2> QED BY <1>1, <1>3, <2>1 DEF Busy
<1>4. ASSUME NEW b \in Batches, WorkerStep(b) PROVE FlagHasBatch'
  <2>0. batch[b] \in BatchRecords
    BY <1>0 DEF TypeOK
  <2> USE DEF At, Busy
  <2>1. CASE Take(b)
    <3>1. CASE Abort(b)
      BY <1>2, <2>1, <3>1 DEF Take
    <3>2. CASE ~Abort(b)
      <4>1. PICK j \in batch[b].todo, pc \in {"mark", "send"} :
               /\ Goto(b, [[batch[b] EXCEPT !.todo = @ \ {j}, !.job = j] EXCEPT !.pc = pc])
               /\ UNCHANGED isProcessing
        BY <2>1, <3>2 DEF Take
      <4> DEFINE rec == [[batch[b] EXCEPT !.todo = @ \ {j}, !.job = j] EXCEPT !.pc = pc]
      <4>2. rec.pc # "idle" /\ rec.proc = batch[b].proc
        BY <2>0 DEF BatchRecords
      <4> HIDE DEF rec
      <4> QED BY <1>3, <2>1, <4>1, <4>2 DEF Take, rec
    <3> QED BY <3>1, <3>2
  <2>2. CASE Send(b)
    <3>1. PICK pc \in {"mark", "revoke"}, ok \in BOOLEAN, invalid \in SUBSET tokens :
             Goto(b, [batch[b] EXCEPT !.pc = pc, !.ok = ok, !.invalid = invalid])
      BY <2>2 DEF Send
    <3> DEFINE rec == [batch[b] EXCEPT !.pc = pc, !.ok = ok, !.invalid = invalid]
    <3>2. rec.pc # "idle" /\ rec.proc = batch[b].proc
      BY <2>0 DEF BatchRecords
    <3> HIDE DEF rec
    <3> QED BY <1>3, <2>2, <3>1, <3>2 DEF Send, rec
  <2>3. CASE RevokeTokens(b)
    <3>1. PICK ok : Goto(b, [batch[b] EXCEPT !.pc = "mark", !.ok = ok])
      BY <2>3 DEF RevokeTokens
    <3> DEFINE rec == [batch[b] EXCEPT !.pc = "mark", !.ok = ok]
    <3>2. rec.pc # "idle" /\ rec.proc = batch[b].proc
      BY <2>0 DEF BatchRecords
    <3> HIDE DEF rec
    <3> QED BY <1>3, <2>3, <3>1, <3>2 DEF RevokeTokens, rec
  <2>4. CASE RowGone(b)
    BY <1>2, <2>4 DEF RowGone
  <2>5. Back(b).pc # "idle" /\ Back(b).proc = batch[b].proc
    BY <2>0 DEF Back, BatchRecords
  <2>6. AfterSent(b).pc # "idle" /\ AfterSent(b).proc = batch[b].proc
    BY <2>0, <2>5 DEF AfterSent, BatchRecords
  <2>7. CASE MarkSent(b)
    BY <1>3, <2>6, <2>7 DEF MarkSent
  <2>8. CASE MarkFailed(b)
    BY <1>3, <2>5, <2>8 DEF MarkFailed
  <2>9. CASE ScheduleNext(b)
    <3>1. Busy(b) /\ (Abort(b) \/ (Goto(b, Back(b)) /\ UNCHANGED isProcessing))
      BY <2>9 DEF ScheduleNext
    <3> QED BY <1>2, <1>3, <2>5, <3>1
  <2> QED BY <1>4, <2>1, <2>2, <2>3, <2>4, <2>7, <2>8, <2>9 DEF WorkerStep
<1>5. ASSUME NEW b \in Batches, NEW p \in Processes, Cron(b, p) PROVE FlagHasBatch'
  <2>1. /\ ~Busy(b) /\ isProcessing' = [isProcessing EXCEPT ![p] = TRUE]
        /\ Busy(b)' /\ batch'[b].proc = p
        /\ \A c \in Batches : c # b => batch'[c] = batch[c]
    BY <1>0, <1>5, CronFacts DEF Cron, Busy, At
  <2>2. ASSUME NEW q \in Processes, isProcessing'[q]
        PROVE  \E c \in Batches : Busy(c)' /\ batch'[c].proc = q
    <3>1. CASE q = p
      BY <2>1, <3>1
    <3>2. CASE q # p
      <4>1. PICK c \in Batches : Busy(c) /\ batch[c].proc = q
        BY <1>0, <2>1, <2>2, <3>2 DEF FlagHasBatch, TypeOK
      <4> QED BY <2>1, <4>1 DEF Busy
    <3> QED BY <3>1, <3>2
  <2> QED BY <2>2 DEF FlagHasBatch
<1>6. ASSUME NEW p \in Processes, Crash(p) PROVE FlagHasBatch'
  <2>1. ASSUME NEW q \in Processes, isProcessing'[q]
        PROVE  \E c \in Batches : Busy(c)' /\ batch'[c].proc = q
    <3>1. q # p /\ isProcessing[q]
      BY <1>0, <1>6, <2>1 DEF Crash, TypeOK
    <3>2. PICK c \in Batches : Busy(c) /\ batch[c].proc = q
      BY <3>1 DEF FlagHasBatch
    <3>3. batch'[c] = batch[c]
      BY <1>6, <3>1, <3>2 DEF Crash
    <3> QED BY <3>2, <3>3 DEF Busy
  <2> QED BY <2>1 DEF FlagHasBatch
<1>7. CASE UNCHANGED <<batch, isProcessing>>
  BY <1>1, <1>7 DEF Busy
<1> QED BY <1>4, <1>5, <1>6, <1>7
     DEF Next, vars, Edit, CreateSchedule, RescheduleSchedule, RetitleSchedule, DeleteSchedule,
         SavePerson, DeletePerson, RegisterToken, Tick

\* The flag of a process is set only while its batch runs: each way out of the handler,
\* the exceptions of a job included, passes its finally, and a stop takes the flag along.
THEOREM FlagHasItsBatch == Spec => []FlagHasBatch
<1>1. Init => FlagHasBatch
  BY DEF Init, FlagHasBatch
<1>2. IInv /\ FlagHasBatch /\ [Next]_vars => FlagHasBatch'
  BY FlagStep
<1> QED BY <1>1, <1>2, Invariance, PTL DEF Spec

\* With one server process no push goes out that a request or the yearly chain did not
\* arm, however API calls, lost answers and deletions interleave with a batch.
THEOREM PushesWereArmed == OneProcess => (Spec => []EveryPushWasArmed)
<1> SUFFICES ASSUME OneProcess PROVE Spec => []EveryPushWasArmed
  OBVIOUS
<1>1. IInv /\ PushInv => EveryPushWasArmed
  <2> SUFFICES ASSUME TypeOK, PushInv, NEW k \in Keys PROVE credit[k] >= -crashes
    BY DEF IInv, EveryPushWasArmed
  <2>1. credit[k] \in Int /\ crashes \in Int /\ credit[k] + crashes >= 0
    BY DEF TypeOK, PushInv, CreditInv
  <2> QED BY <2>1
<1>2. IInv /\ IInv' /\ PushInv /\ [Next]_vars => PushInv'
  BY NextPush
<1> QED BY <1>1, <1>2, InitInv, Invariance, PTL DEF Spec

-----------------------------------------------------------------------------
(* Armed jobs, the rows they come from and the snapshots of them.          *)

\* The snapshots a run still works on.
Carried(b) == batch[b].todo \cup (IF HasJob(b) THEN {batch[b].job} ELSE {})

\* A pending birthday job, and the snapshot of one, agree with the people row.
ArmedAsSaved(y) == /\ person.enabled /\ person.birthday # None
                   /\ jobs[y].at = NotifyAt(person.birthday, y, person.offset)
ReadAsSaved(j) == /\ person.enabled /\ person.birthday # None
                  /\ j.birthday = person.birthday /\ j.offset = person.offset
                  /\ j.at = NotifyAt(person.birthday, j.key, person.offset) /\ j.at <= now

\* The birthday job a run works on is the pending one until it is marked, and none is
\* pending from there until the next year is armed.
RunInv(b) ==
    /\ \A j \in Carried(b) : j.key # ScheduleKey => ReadAsSaved(j)
    /\ \A j \in batch[b].todo : j.key # ScheduleKey => Pending(j.key)
    /\ batch[b].pc \in {"send", "revoke", "mark"} /\ batch[b].job.key # ScheduleKey
          => Pending(batch[b].job.key)
    /\ At(b, "next") => \A y \in Years : ~Pending(y)

RowsInv == /\ \A y, z \in Years : Pending(y) /\ Pending(z) => y = z
           /\ \A y \in Years : Pending(y) => ArmedAsSaved(y)

BirthdayInv == "person" \notin contested => RowsInv /\ \A b \in Batches : RunInv(b)
ScheduleInv == Pending(ScheduleKey) /\ "schedule" \notin contested
                  => schedule.enabled /\ jobs[ScheduleKey].at = schedule.at
ArmedInv == ScheduleInv /\ BirthdayInv /\ ChainUnbroken

YearsKept == \A y \in Years : jobs'[y] = jobs[y]

\* The years of the model reach the successor of every birthday job that is due ...
LEMMA NextYearInRange ==
    ASSUME NEW k \in Nat, NEW phase \in Phases, NEW o \in Offsets, now \in 0..MaxNow,
           NotifyAt(phase, k, o) <= now
    PROVE  k + 1 \in Years
<1> DEFINE q == MaxNow \div YearLength
<1>1. YearLength \in Nat \ {0} /\ MaxNow \in Nat /\ phase \in Nat /\ o \in Nat /\ o < YearLength
      /\ now \in Int /\ now <= MaxNow
  OBVIOUS
<1>2. q \in Nat /\ MaxNow < q * YearLength + YearLength
  BY <1>1
<1> HIDE DEF q
<1>3. k * YearLength < q * YearLength + YearLength + YearLength
  BY <1>1, <1>2 DEF NotifyAt, BirthdayAt
<1>4. ASSUME k >= q + 2 PROVE FALSE
  <2> DEFINE d == k - (q + 2)
  <2>1. d \in Nat /\ k = d + q + 2
    BY <1>2, <1>4
  <2> HIDE DEF d
  <2>2. k * YearLength = d * YearLength + q * YearLength + 2 * YearLength
    BY <1>1, <1>2, <2>1
  <2>3. d * YearLength \in Nat /\ q * YearLength \in Nat
    BY <1>1, <1>2, <2>1
  <2> QED BY <1>1, <1>3, <2>2, <2>3
<1> QED BY <1>2, <1>4 DEF Years, q

\* ... and the year a save of the person arms.
LEMMA TargetYearInRange ==
    ASSUME TypeOK, NEW phase PROVE TargetYear(phase) \in Years
<1> DEFINE q == MaxNow \div YearLength
           r == now \div YearLength
<1>1. YearLength \in Nat \ {0} /\ MaxNow \in Nat /\ now \in Nat /\ now <= MaxNow
  BY DEF TypeOK
<1>2. q \in Nat /\ MaxNow < q * YearLength + YearLength
  BY <1>1
<1>3. r \in Nat /\ r * YearLength <= now
  BY <1>1
<1>4. TargetYear(phase) \in {r, r + 1}
  BY DEF TargetYear
<1>5. Years = 0..(q + 2)
  BY DEF Years
<1> HIDE DEF q, r
<1>6. ASSUME r >= q + 1 PROVE FALSE
  <2> DEFINE d == r - (q + 1)
  <2>1. d \in Nat /\ r = d + q + 1
    BY <1>2, <1>3, <1>6
  <2> HIDE DEF d
  <2>2. r * YearLength = d * YearLength + q * YearLength + YearLength
    BY <1>1, <1>2, <2>1
  <2>3. d * YearLength \in Nat /\ q * YearLength \in Nat
    BY <1>1, <1>2, <2>1
  <2> QED BY <1>1, <1>2, <1>3, <2>2, <2>3
<1>7. r + 1 <= q + 2
  BY <1>2, <1>3, <1>6
<1> QED BY <1>2, <1>3, <1>4, <1>5, <1>7

\* What a run carries.
LEMMA CarriedType ==
    ASSUME TypeOK, LocalsInv, NEW b \in Batches
    PROVE  Carried(b) \subseteq Snapshots
BY DEF TypeOK, BatchRecords, LocalsInv, BatchInv, Carried

LEMMA CarriedKey ==
    ASSUME TypeOK, LocalsInv, NEW b \in Batches, NEW j \in Carried(b), j.key # ScheduleKey
    PROVE  j.key \in Years /\ j.at \in Int
BY CarriedType, KeyTypes DEF Snapshots

LEMMA IdleRun ==
    ASSUME NEW b \in Batches, batch'[b].pc = "idle", batch'[b].todo = {}
    PROVE  RunInv(b)'
BY DEF RunInv, Carried, HasJob, At

LEMMA RowsKept ==
    ASSUME RowsInv, YearsKept, UNCHANGED person
    PROVE  RowsInv'
BY DEF RowsInv, YearsKept, Pending, ArmedAsSaved

\* A run that reads and writes no row, and takes up nothing it did not carry.
LEMMA RunKept ==
    ASSUME TypeOK, TypeOK', LocalsInv, NEW b \in Batches, RunInv(b), YearsKept, UNCHANGED person,
           now' >= now, batch'[b].todo \subseteq batch[b].todo, Carried(b)' \subseteq Carried(b),
           batch'[b].pc \in {"send", "revoke", "mark"}
              => \/ batch'[b].job \in batch[b].todo
                 \/ batch[b].pc \in {"send", "revoke", "mark"} /\ batch'[b].job = batch[b].job,
           At(b, "next")' => At(b, "next")
    PROVE  RunInv(b)'
<1>1. now \in Int /\ now' \in Int
  BY DEF TypeOK
<1>2. \A j \in batch[b].todo : j \in Carried(b)
  BY DEF Carried
<1>3. batch[b].pc \in {"send", "revoke", "mark"} => batch[b].job \in Carried(b)
  BY DEF Carried, HasJob
<1>4. ASSUME NEW j \in Carried(b), j.key # ScheduleKey, ReadAsSaved(j) PROVE ReadAsSaved(j)'
  BY <1>1, <1>4, CarriedKey DEF ReadAsSaved
<1>5. \A j \in Carried(b) : j.key # ScheduleKey => jobs'[j.key] = jobs[j.key]
  BY CarriedKey DEF YearsKept
<1>6. \A j \in Carried(b)' : j.key # ScheduleKey => ReadAsSaved(j)'
  BY <1>4 DEF RunInv
<1>7. \A j \in batch'[b].todo : j.key # ScheduleKey => Pending(j.key)'
  BY <1>2, <1>5 DEF RunInv, Pending
<1>8. batch'[b].pc \in {"send", "revoke", "mark"} /\ batch'[b].job.key # ScheduleKey
        => jobs'[batch'[b].job.key].status = "PENDING"
  BY <1>2, <1>3, <1>5 DEF RunInv, Pending
<1>9. At(b, "next")' => \A y \in Years : ~Pending(y)'
  BY DEF RunInv, YearsKept, Pending
<1> QED BY <1>6, <1>7, <1>8, <1>9 DEF RunInv, Pending

\* What every step of a run leaves alone.
LEMMA WorkerFrame ==
    ASSUME TypeOK, LocalsInv, NEW b \in Batches, WorkerStep(b)
    PROVE  /\ Busy(b) /\ UNCHANGED <<schedule, person, now, contested, crashes>>
           /\ \A c \in Batches : c # b => batch'[c] = batch[c]
<1>1. Busy(b)
  BY DEF WorkerStep, Take, Send, RevokeTokens, RowGone, MarkSent, MarkFailed, ScheduleNext,
         Busy, At
<1>2. UNCHANGED <<schedule, person, now, contested, crashes>>
  BY DEF WorkerStep, Take, Send, RevokeTokens, RowGone, MarkSent, MarkFailed, ScheduleNext,
         Abort, Rows, Context
<1>3. \E rec : Goto(b, rec)
  BY DEF WorkerStep, Take, Send, RevokeTokens, RowGone, MarkSent, MarkFailed, ScheduleNext,
         Abort, EndBatch
<1>4. \A c \in Batches : c # b => batch'[c] = batch[c]
  BY <1>3 DEF Goto, TypeOK
<1> QED BY <1>1, <1>2, <1>4

\* The steps of a run that write no job: they end it or go on with what it carries.
LEMMA SilentStep ==
    ASSUME TypeOK, LocalsInv, NEW b \in Batches,
           Take(b) \/ Send(b) \/ RevokeTokens(b) \/ RowGone(b) \/ Abort(b)
    PROVE  /\ UNCHANGED jobs
           /\ \/ batch'[b].pc = "idle" /\ batch'[b].todo = {}
              \/ /\ batch'[b].todo \subseteq batch[b].todo /\ Carried(b)' \subseteq Carried(b)
                 /\ batch'[b].pc \in {"send", "revoke", "mark"}
                 /\ \/ batch'[b].job \in batch[b].todo
                    \/ /\ batch[b].pc \in {"send", "revoke", "mark"}
                       /\ batch'[b].job = batch[b].job
<1>1. batch \in [Batches -> BatchRecords] /\ batch[b] \in BatchRecords
  BY DEF TypeOK
<1>2. CASE Abort(b)
  BY <1>2, AbortFacts, IdleFacts DEF Rows
<1>3. CASE Take(b) /\ ~Abort(b)
  <2>1. PICK j \in batch[b].todo, pc \in {"mark", "send"} :
            /\ Goto(b, [[batch[b] EXCEPT !.todo = @ \ {j}, !.job = j] EXCEPT !.pc = pc])
            /\ UNCHANGED Rows
    BY <1>3 DEF Take
  <2> DEFINE rec == [[batch[b] EXCEPT !.todo = @ \ {j}, !.job = j] EXCEPT !.pc = pc]
  <2>2. rec.todo = batch[b].todo \ {j} /\ rec.job = j /\ rec.pc = pc
    BY <1>1 DEF BatchRecords
  <2>3. batch'[b] = rec
    BY <1>1, <2>1 DEF Goto
  <2> HIDE DEF rec
  <2> QED BY <2>1, <2>2, <2>3 DEF Carried, HasJob, Rows
<1>4. CASE Send(b)
  <2>1. PICK ok \in BOOLEAN, invalid \in SUBSET tokens :
            Goto(b, [batch[b] EXCEPT !.pc = IF invalid = {} THEN "mark" ELSE "revoke",
                                     !.ok = ok, !.invalid = invalid])
    BY <1>4 DEF Send
  <2> DEFINE rec == [batch[b] EXCEPT !.pc = IF invalid = {} THEN "mark" ELSE "revoke",
                                     !.ok = ok, !.invalid = invalid]
  <2>2. rec.todo = batch[b].todo /\ rec.job = batch[b].job /\ rec.pc \in {"mark", "revoke"}
    BY <1>1 DEF BatchRecords
  <2>3. batch'[b] = rec
    BY <1>1, <2>1 DEF Goto
  <2> HIDE DEF rec
  <2> QED BY <1>4, <2>2, <2>3 DEF Carried, HasJob, Rows, Send, At
<1>5. CASE RevokeTokens(b)
  <2>1. PICK revoked \in SUBSET batch[b].invalid :
            Goto(b, [batch[b] EXCEPT !.pc = "mark", !.ok = @ /\ revoked = batch[b].invalid])
    BY <1>5 DEF RevokeTokens
  <2> DEFINE rec == [batch[b] EXCEPT !.pc = "mark", !.ok = @ /\ revoked = batch[b].invalid]
  <2>2. rec.todo = batch[b].todo /\ rec.job = batch[b].job /\ rec.pc = "mark"
    BY <1>1 DEF BatchRecords
  <2>3. batch'[b] = rec
    BY <1>1, <2>1 DEF Goto
  <2> HIDE DEF rec
  <2> QED BY <1>5, <2>2, <2>3 DEF Carried, HasJob, RevokeTokens, At
<1>6. CASE RowGone(b)
  BY <1>2, <1>6 DEF RowGone
<1> QED BY <1>2, <1>3, <1>4, <1>5, <1>6

\* MarkSent and MarkFailed: one row, and the run goes on to its next job or next year.
LEMMA MarkFacts ==
    ASSUME TypeOK, LocalsInv, NEW b \in Batches, MarkSent(b) \/ MarkFailed(b)
    PROVE  \E k \in Keys, status \in {"SENT", "FAILED"} :
              /\ At(b, "mark") /\ k = batch[b].job.key /\ batch[b].job \in Carried(b)
              /\ batch'[b].todo = batch[b].todo
              /\ jobs'[k].status = status /\ jobs'[k].at = jobs[k].at
              /\ \A l \in Keys : l # k => jobs'[l] = jobs[l]
              /\ \/ batch'[b].pc = "take" /\ (status = "FAILED" \/ k = ScheduleKey)
                 \/ batch'[b].pc = "next" /\ batch'[b].job = batch[b].job
<1>1. BatchInv(b) /\ batch[b] \in BatchRecords /\ batch \in [Batches -> BatchRecords]
  BY DEF LocalsInv, TypeOK
<1> DEFINE k == batch[b].job.key
<1>2. At(b, "mark") /\ batch[b].job \in Snapshots /\ k \in Keys /\ batch[b].job \in Carried(b)
  BY <1>1 DEF MarkSent, MarkFailed, BatchInv, HasJob, At, Snapshots, Carried
<1> HIDE DEF k
<1>3. ASSUME NEW status, jobs' = Marked(b, status)
      PROVE  /\ jobs'[k].status = status /\ jobs'[k].at = jobs[k].at
             /\ \A l \in Keys : l # k => jobs'[l] = jobs[l]
  <2>1. jobs' = [jobs EXCEPT ![k] = [jobs[k] EXCEPT !.status = status]]
    BY <1>3 DEF Marked, k
  <2>2. jobs[k] \in [status : Statuses, at : Int]
    BY <1>2 DEF TypeOK
  <2> QED BY <1>2, <2>1, <2>2 DEF TypeOK
<1>4. CASE MarkSent(b)
  <2>1. jobs' = Marked(b, "SENT") /\ batch'[b] = AfterSent(b)
    BY <1>1, <1>4 DEF MarkSent, Goto
  <2>2. /\ AfterSent(b).todo = batch[b].todo
        /\ \/ AfterSent(b).pc = "take" /\ k = ScheduleKey
           \/ AfterSent(b).pc = "next" /\ AfterSent(b).job = batch[b].job
    BY <1>1, BackFacts DEF AfterSent, BatchRecords, k
  <2> QED BY <1>2, <1>3, <2>1, <2>2 DEF k
<1>5. CASE MarkFailed(b)
  <2>1. jobs' = Marked(b, "FAILED") /\ batch'[b] = Back(b)
    BY <1>1, <1>5 DEF MarkFailed, Goto
  <2> QED BY <1>2, <1>3, <2>1, BackFacts DEF k
<1> QED BY <1>4, <1>5

\* scheduleNextBirthdayNotificationJob: one more year, from the snapshot.
LEMMA NextFacts ==
    ASSUME TypeOK, LocalsInv, NEW b \in Batches, ScheduleNext(b), ~Abort(b)
    PROVE  \E j \in Carried(b), y \in Nat :
              /\ At(b, "next") /\ j = batch[b].job /\ j.key \in Nat /\ y = j.key + 1
              /\ j.birthday \in Phases /\ j.offset \in Offsets
              /\ batch'[b].todo = batch[b].todo /\ batch'[b].pc = "take"
              /\ y \in Years => /\ jobs'[y].status = "PENDING"
                                /\ jobs'[y].at = NotifyAt(j.birthday, y, j.offset)
              /\ \A l \in Keys : l # y => jobs'[l] = jobs[l]
<1> DEFINE j == batch[b].job
           y == j.key + 1
           at == NotifyAt(j.birthday, y, j.offset)
<1>1. j \in Snapshots /\ j.key # ScheduleKey /\ j.birthday # None /\ j \in Carried(b)
  BY DEF ScheduleNext, At, BatchInv, HasJob, Announceable, LocalsInv, Carried
<1>2. j.key \in Nat /\ j.birthday \in Phases /\ j.offset \in Offsets
  BY <1>1, KeyTypes DEF Snapshots
<1>3. /\ At(b, "next") /\ jobs' = [jobs EXCEPT ![y] = PendingJob(at)] /\ batch'[b] = Back(b)
  BY DEF ScheduleNext, Goto, TypeOK
<1>4. y \in Nat
  BY <1>2
<1> HIDE DEF at, y
<1>5. jobs \in [Keys -> [status : Statuses, at : Int]]
  BY DEF TypeOK
<1>6. y \in Years => jobs'[y].status = "PENDING" /\ jobs'[y].at = at
  BY <1>3, <1>5, KeyTypes DEF PendingJob
<1>7. \A l \in Keys : l # y => jobs'[l] = jobs[l]
  BY <1>3, <1>5
<1> QED BY <1>1, <1>2, <1>3, <1>4, <1>6, <1>7, BackFacts DEF y, at

\* The pending birthday job is marked: no birthday is pending, and the run carries none
\* but, after a success, the one whose successor it is about to arm.
LEMMA MarkedBirthday ==
    ASSUME TypeOK, TypeOK', LocalsInv, NEW b \in Batches, MarkSent(b) \/ MarkFailed(b),
           batch[b].job.key # ScheduleKey, RowsInv, RunInv(b), UNCHANGED <<person, now>>
    PROVE  RowsInv' /\ RunInv(b)'
<1>1. PICK k \in Keys, status \in {"SENT", "FAILED"} :
          /\ At(b, "mark") /\ k = batch[b].job.key /\ batch[b].job \in Carried(b)
          /\ batch'[b].todo = batch[b].todo /\ jobs'[k].status = status
          /\ \A l \in Keys : l # k => jobs'[l] = jobs[l]
          /\ \/ batch'[b].pc = "take"
             \/ batch'[b].pc = "next" /\ batch'[b].job = batch[b].job
  BY MarkFacts
<1>2. k \in Years /\ Pending(k) /\ \A y \in Years : Pending(y) => y = k
  BY <1>1, KeyTypes DEF RunInv, At, RowsInv
<1>3. \A y \in Years : ~Pending(y)'
  BY <1>1, <1>2, KeyTypes DEF Pending
<1>4. \A j \in batch[b].todo : j.key = ScheduleKey
  <2> SUFFICES ASSUME NEW j \in batch[b].todo, j.key # ScheduleKey PROVE FALSE
    OBVIOUS
  <2>1. j.key \in Years /\ Pending(j.key)
    BY CarriedKey DEF Carried, RunInv
  <2>2. j.key # k
    BY <1>1 DEF LocalsInv, BatchInv, HasJob, At
  <2> QED BY <1>2, <2>1, <2>2
<1>5. \A j \in Carried(b)' : j.key # ScheduleKey => j = batch[b].job /\ j \in Carried(b)
  BY <1>1, <1>4 DEF Carried, HasJob
<1>6. \A j \in Carried(b)' : j.key # ScheduleKey => ReadAsSaved(j)'
  BY <1>5 DEF RunInv, ReadAsSaved
<1>7. RunInv(b)'
  BY <1>1, <1>3, <1>4, <1>6 DEF RunInv, At
<1> QED BY <1>3, <1>7 DEF RowsInv

\* The next year is armed as the people row says.
LEMMA NextBirthday ==
    ASSUME TypeOK, TypeOK', LocalsInv, NEW b \in Batches, ScheduleNext(b), ~Abort(b), RowsInv,
           RunInv(b), UNCHANGED <<person, now>>
    PROVE  RowsInv' /\ RunInv(b)'
<1>1. PICK j \in Carried(b), y \in Nat :
          /\ At(b, "next") /\ j.key \in Nat
          /\ batch'[b].todo = batch[b].todo /\ batch'[b].pc = "take"
          /\ y \in Years => jobs'[y].at = NotifyAt(j.birthday, y, j.offset)
          /\ \A l \in Keys : l # y => jobs'[l] = jobs[l]
  BY NextFacts
<1>2. \A z \in Years : ~Pending(z)
  BY <1>1 DEF RunInv
<1>3. \A z \in Years : Pending(z)' => z = y
  BY <1>1, <1>2, KeyTypes DEF Pending
<1>4. ReadAsSaved(j)
  BY <1>1 DEF RunInv
<1>5. y \in Years => ArmedAsSaved(y)'
  BY <1>1, <1>4 DEF ReadAsSaved, ArmedAsSaved
<1>6. \A i \in batch[b].todo : i.key = ScheduleKey
  BY <1>2, CarriedKey DEF RunInv, Carried
<1>7. RunInv(b)'
  BY <1>1, <1>6 DEF RunInv, At, Carried, HasJob
<1>8. RowsInv'
  <2>1. \A z \in Years : Pending(z)' => ArmedAsSaved(z)'
    BY <1>3, <1>5 DEF Pending
  <2> QED BY <1>3, <2>1 DEF RowsInv
<1> QED BY <1>7, <1>8

LEMMA WorkerBirthday ==
    ASSUME TypeOK, TypeOK', OneProcess, LocalsInv, BirthdayInv, NEW b \in Batches, WorkerStep(b)
    PROVE  BirthdayInv'
<1>1. /\ Busy(b) /\ UNCHANGED <<schedule, person, now, contested, crashes>>
      /\ \A c \in Batches : c # b => batch'[c] = batch[c]
  BY WorkerFrame
<1> SUFFICES ASSUME RowsInv, RunInv(b) PROVE RowsInv' /\ RunInv(b)'
  <2>1. \A c \in Batches : c # b => batch'[c].pc = "idle" /\ batch'[c].todo = {}
    BY <1>1, Alone
  <2>2. \A c \in Batches : c # b => RunInv(c)'
    BY <2>1, IdleRun
  <2> QED BY <1>1, <2>2 DEF BirthdayInv
<1>2. now \in Int /\ now' = now
  BY <1>1 DEF TypeOK
<1>3. CASE Take(b) \/ Send(b) \/ RevokeTokens(b) \/ RowGone(b) \/ Abort(b)
  <2>1. YearsKept
    BY <1>3, SilentStep DEF YearsKept
  <2>2. RowsInv'
    BY <1>1, <2>1, RowsKept
  <2>3. RunInv(b)'
    BY <1>1, <1>2, <1>3, <2>1, SilentStep, IdleRun, RunKept DEF At
  <2> QED BY <2>2, <2>3
<1>4. CASE (MarkSent(b) \/ MarkFailed(b)) /\ batch[b].job.key # ScheduleKey
  BY <1>1, <1>4, MarkedBirthday
<1>5. CASE (MarkSent(b) \/ MarkFailed(b)) /\ batch[b].job.key = ScheduleKey
  <2>1. /\ batch'[b].todo = batch[b].todo /\ batch'[b].pc = "take"
        /\ YearsKept
    <3>1. PICK k \in Keys, status \in {"SENT", "FAILED"} :
              /\ k = batch[b].job.key /\ batch'[b].todo = batch[b].todo
              /\ \A l \in Keys : l # k => jobs'[l] = jobs[l]
      BY <1>5, MarkFacts
    <3>2. batch'[b].pc = "take"
      BY <1>5, BackFacts DEF MarkSent, MarkFailed, AfterSent, Goto, TypeOK
    <3> QED BY <1>5, <3>1, <3>2, KeyTypes DEF YearsKept
  <2>2. Carried(b)' \subseteq Carried(b)
    BY <2>1 DEF Carried, HasJob
  <2>3. RunInv(b)'
    BY <1>1, <1>2, <2>1, <2>2, RunKept DEF At
  <2> QED BY <1>1, <2>1, <2>3, RowsKept
<1>6. CASE ScheduleNext(b)
  BY <1>1, <1>3, <1>6, NextBirthday
<1> QED BY <1>3, <1>4, <1>5, <1>6 DEF WorkerStep

\* The chain does not depend on anything but the birthday rows and the runs.
LEMMA ChainKept ==
    ASSUME ChainUnbroken, YearsKept, UNCHANGED <<person, contested, crashes>>,
           \A b \in Batches : At(b, "next") => At(b, "next")'
    PROVE  ChainUnbroken'
BY DEF ChainUnbroken, YearsKept, PendingYears, Pending

LEMMA WorkerChain ==
    ASSUME TypeOK, OneProcess, LocalsInv, BirthdayInv, ChainUnbroken, NEW b \in Batches,
           WorkerStep(b)
    PROVE  ChainUnbroken'
<1>1. /\ Busy(b) /\ UNCHANGED <<schedule, person, now, contested, crashes>>
      /\ \A c \in Batches : c # b => batch'[c] = batch[c]
  BY WorkerFrame
<1>2. ASSUME ~At(b, "next"), YearsKept PROVE ChainUnbroken'
  <2>1. \A c \in Batches : ~At(c, "next")
    BY <1>1, <1>2, Alone DEF At
  <2> QED BY <1>1, <1>2, <2>1, ChainKept
<1>3. CASE Take(b) \/ Send(b) \/ RevokeTokens(b) \/ RowGone(b)
  <2>1. ~At(b, "next")
    BY <1>3 DEF Take, Send, RevokeTokens, RowGone, At
  <2> QED BY <1>2, <1>3, <2>1, SilentStep DEF YearsKept
<1>4. CASE MarkSent(b) \/ MarkFailed(b)
  <2>1. PICK k \in Keys, status \in {"SENT", "FAILED"} :
            /\ At(b, "mark") /\ k = batch[b].job.key
            /\ jobs'[k].status = status /\ jobs'[k].at = jobs[k].at
            /\ \A l \in Keys : l # k => jobs'[l] = jobs[l]
            /\ batch'[b].pc = "next" \/ status = "FAILED" \/ k = ScheduleKey
    BY <1>4, MarkFacts
  <2>2. CASE k = ScheduleKey
    BY <1>2, <2>1, <2>2, KeyTypes DEF At, YearsKept
  <2>3. CASE k # ScheduleKey
    <3> SUFFICES ASSUME "person" \notin contested PROVE ChainUnbroken'
      BY <1>1 DEF ChainUnbroken
    <3>1. k \in Years /\ Pending(k) /\ RowsInv
      BY <2>1, <2>3, KeyTypes DEF BirthdayInv, RunInv, At
    <3>2. jobs[k].at = NotifyAt(person.birthday, k, person.offset)
      BY <3>1 DEF RowsInv, ArmedAsSaved
    <3> QED BY <1>1, <2>1, <2>3, <3>1, <3>2 DEF ChainUnbroken, At
  <2> QED BY <2>2, <2>3
<1>5. CASE ScheduleNext(b) /\ Abort(b)
  <2>1. person.state # "live"
    <3>1. batch'[b].pc = "idle" /\ batch[b].pc = "next"
      BY <1>5, AbortFacts, IdleFacts DEF ScheduleNext, At
    <3>2. Goto(b, Back(b)) => batch'[b].pc = "take"
      BY BackFacts DEF Goto, TypeOK
    <3> QED BY <1>5, <3>1, <3>2 DEF ScheduleNext
  <2> QED BY <1>1, <2>1 DEF ChainUnbroken
<1>6. CASE ScheduleNext(b) /\ ~Abort(b)
  <2> SUFFICES ASSUME "person" \notin contested PROVE ChainUnbroken'
    BY <1>1 DEF ChainUnbroken
  <2>1. PICK j \in Carried(b), y \in Nat :
            /\ j.key \in Nat /\ y = j.key + 1 /\ j.birthday \in Phases /\ j.offset \in Offsets
            /\ y \in Years => jobs'[y].status = "PENDING"
    BY <1>6, NextFacts
  <2>2. ReadAsSaved(j)
    BY <2>1 DEF BirthdayInv, RunInv
  <2>3. now \in 0..MaxNow /\ NotifyAt(j.birthday, j.key, j.offset) <= now
    BY <2>2 DEF ReadAsSaved, TypeOK
  <2>4. y \in Years
    BY <2>1, <2>3, NextYearInRange
  <2> QED BY <2>1, <2>4 DEF ChainUnbroken, PendingYears, Pending
<1> QED BY <1>3, <1>4, <1>5, <1>6 DEF WorkerStep

LEMMA WorkerSchedule ==
    ASSUME TypeOK, LocalsInv, ScheduleInv, NEW b \in Batches, WorkerStep(b)
    PROVE  ScheduleInv'
<1>1. UNCHANGED <<schedule, contested>>
  BY WorkerFrame
<1>2. Pending(ScheduleKey)' => jobs'[ScheduleKey] = jobs[ScheduleKey]
  <2>1. CASE Take(b) \/ Send(b) \/ RevokeTokens(b) \/ RowGone(b) \/ Abort(b)
    BY <2>1, SilentStep
  <2>2. CASE MarkSent(b) \/ MarkFailed(b)
    <3>1. PICK k \in Keys, status \in {"SENT", "FAILED"} :
              /\ jobs'[k].status = status
              /\ \A l \in Keys : l # k => jobs'[l] = jobs[l]
      BY <2>2, MarkFacts
    <3> QED BY <3>1, KeyTypes DEF Pending
  <2>3. CASE ScheduleNext(b) /\ ~Abort(b)
    <3>1. PICK y \in Nat : \A l \in Keys : l # y => jobs'[l] = jobs[l]
      BY <2>3, NextFacts
    <3> QED BY <3>1, KeyTypes
  <2> QED BY <2>1, <2>2, <2>3 DEF WorkerStep
<1> QED BY <1>1, <1>2 DEF ScheduleInv, Pending

\* A new run reads pending rows together with the owner's row, in one statement.
LEMMA CronArmed ==
    ASSUME TypeOK, TypeOK', OneProcess, LocalsInv, ArmedInv, NEW b \in Batches,
           NEW p \in Processes, Cron(b, p)
    PROVE  ArmedInv'
<1>1. PICK ks \in SUBSET Due :
          /\ batch'[b].pc = "take" /\ batch'[b].todo = {SnapshotOf(k) : k \in ks}
          /\ \A c \in Batches : c # b => batch'[c] = batch[c]
  BY CronFacts
<1>2. \A c \in Batches : batch[c].pc = "idle" /\ batch[c].todo = {}
  BY DEF Cron, Free, OneProcess, LocalsInv, BatchInv, Busy
<1>3. UNCHANGED <<now, schedule, person, jobs, contested, crashes>>
  BY DEF Cron, Rows, Context
<1>4. YearsKept
  BY <1>3 DEF YearsKept
<1>5. ScheduleInv'
  BY <1>3 DEF ArmedInv, ScheduleInv, Pending
<1>6. ChainUnbroken'
  BY <1>2, <1>3, <1>4, ChainKept DEF ArmedInv, At
<1>7. BirthdayInv'
  <2> SUFFICES ASSUME RowsInv PROVE RowsInv' /\ RunInv(b)'
    <3>1. \A c \in Batches : c # b => RunInv(c)'
      BY <1>1, <1>2, IdleRun
    <3> QED BY <1>3, <3>1 DEF ArmedInv, BirthdayInv
  <2>1. ASSUME NEW k \in ks, k # ScheduleKey
        PROVE  Pending(k) /\ ReadAsSaved(SnapshotOf(k))
    <3>1. k \in Years /\ Pending(k) /\ jobs[k].at <= now
      BY <2>1, KeyTypes DEF Due
    <3>2. ArmedAsSaved(k)
      BY <3>1 DEF RowsInv
    <3> QED BY <2>1, <3>1, <3>2 DEF SnapshotOf, ReadAsSaved, ArmedAsSaved
  <2>2. \A j \in batch'[b].todo : j.key # ScheduleKey
           => /\ jobs[j.key].status = "PENDING" /\ ReadAsSaved(j)
    BY <1>1, <2>1 DEF SnapshotOf, Pending
  <2>3. Carried(b)' = batch'[b].todo
    BY <1>1 DEF Carried, HasJob
  <2>4. \A j \in batch'[b].todo : j.key # ScheduleKey => ReadAsSaved(j)'
    BY <1>3, <2>2 DEF ReadAsSaved
  <2>5. RunInv(b)'
    BY <1>1, <1>3, <2>2, <2>3, <2>4 DEF RunInv, At, Pending
  <2> QED BY <1>3, <1>4, <2>5, RowsKept
<1> QED BY <1>5, <1>6, <1>7 DEF ArmedInv

LEMMA CrashArmed ==
    ASSUME TypeOK, TypeOK', LocalsInv, ArmedInv, NEW p \in Processes, Crash(p)
    PROVE  ArmedInv'
<1>1. \A c \in Batches : batch'[c] = IF batch[c].proc = p THEN Idle ELSE batch[c]
  BY DEF Crash
<1>2. UNCHANGED <<now, schedule, person, jobs, contested>> /\ crashes' = crashes + 1
  BY DEF Crash, Rows
<1>3. YearsKept /\ now \in Int /\ now' = now
  BY <1>2 DEF YearsKept, TypeOK
<1>4. ScheduleInv'
  BY <1>2 DEF ArmedInv, ScheduleInv, Pending
<1>5. ChainUnbroken'
  <2>1. crashes' # 0
    BY <1>2 DEF TypeOK
  <2> QED BY <2>1 DEF ChainUnbroken
<1>6. ASSUME NEW c \in Batches, RunInv(c) PROVE RunInv(c)'
  <2>1. CASE batch[c].proc = p
    BY <1>1, <2>1, IdleFacts, IdleRun
  <2>2. CASE batch[c].proc # p
    <3>1. batch'[c] = batch[c]
      BY <1>1, <2>2
    <3>2. Carried(c)' = Carried(c)
      BY <3>1 DEF Carried, HasJob
    <3> QED BY <1>2, <1>3, <1>6, <3>1, <3>2, RunKept DEF At
  <2> QED BY <2>1, <2>2
<1>7. BirthdayInv'
  BY <1>2, <1>3, <1>6, RowsKept DEF ArmedInv, BirthdayInv
<1> QED BY <1>4, <1>5, <1>7 DEF ArmedInv

\* A step outside the runs that leaves the birthday rows alone.
LEMMA BirthdayKept ==
    ASSUME TypeOK, TypeOK', LocalsInv, BirthdayInv, YearsKept, UNCHANGED <<person, batch>>,
           now' >= now, "person" \in contested => "person" \in contested'
    PROVE  BirthdayInv'
<1>1. ASSUME NEW c \in Batches, RunInv(c) PROVE RunInv(c)'
  <2>1. Carried(c)' = Carried(c)
    BY DEF Carried, HasJob
  <2> QED BY <1>1, <2>1, RunKept DEF At
<1> QED BY <1>1, RowsKept DEF BirthdayInv

LEMMA TickArmed ==
    ASSUME TypeOK, TypeOK', LocalsInv, ArmedInv, Tick PROVE ArmedInv'
<1>1. /\ UNCHANGED <<schedule, person, jobs, batch, contested, crashes>>
      /\ now' >= now
  BY DEF Tick, Rows, TypeOK
<1>2. YearsKept
  BY <1>1 DEF YearsKept
<1>3. ScheduleInv'
  BY <1>1 DEF ArmedInv, ScheduleInv, Pending
<1>4. ChainUnbroken'
  BY <1>1, <1>2, ChainKept DEF ArmedInv, At
<1> QED BY <1>1, <1>2, <1>3, <1>4, BirthdayKept DEF ArmedInv

\* The handlers of schedules and tokens leave the birthdays alone, and the schedule's
\* job is pending only at the time the row has.
LEMMA ScheduleApi ==
    ASSUME TypeOK, ArmedInv,
           \/ CreateSchedule \/ RescheduleSchedule \/ RetitleSchedule \/ DeleteSchedule
           \/ \E d \in Devices : RegisterToken(d)
    PROVE  /\ ScheduleInv' /\ YearsKept /\ UNCHANGED <<person, batch, now, crashes>>
           /\ "person" \in contested' <=> "person" \in contested
<1>1. jobs \in [Keys -> [status : Statuses, at : Int]]
  BY DEF TypeOK
<1>2. ASSUME Edit("schedule")
      PROVE  /\ UNCHANGED <<batch, now, crashes>>
             /\ "person" \in contested' <=> "person" \in contested
  BY <1>2 DEF Edit
<1>3. ASSUME NEW s, SyncSchedule(s), schedule' = s
      PROVE  ScheduleInv' /\ YearsKept
  <2>1. CASE s.enabled
    BY <1>1, <1>3, <2>1, KeyTypes DEF SyncSchedule, PendingJob, ScheduleInv, Pending, YearsKept
  <2>2. CASE ~s.enabled
    <3>1. jobs' = [k \in Keys |-> IF k \in {ScheduleKey} /\ Pending(k)
                                  THEN [jobs[k] EXCEPT !.status = "CANCELED"] ELSE jobs[k]]
      BY <1>3, <2>2 DEF SyncSchedule, ScheduleCanceled, Canceled
    <3>2. jobs'[ScheduleKey].status # "PENDING"
      BY <1>1, <3>1, KeyTypes DEF Pending
    <3>3. YearsKept
      BY <3>1, KeyTypes DEF YearsKept
    <3> QED BY <3>2, <3>3 DEF ScheduleInv, Pending
  <2> QED BY <2>1, <2>2
<1>4. CASE CreateSchedule
  BY <1>2, <1>3, <1>4 DEF CreateSchedule
<1>5. CASE RescheduleSchedule
  BY <1>2, <1>3, <1>5 DEF RescheduleSchedule
<1>6. CASE RetitleSchedule
  <2>1. schedule'.at = schedule.at /\ schedule'.enabled = schedule.enabled
    BY <1>6 DEF RetitleSchedule, TypeOK, Schedules
  <2> QED BY <1>6, <2>1 DEF RetitleSchedule, ArmedInv, ScheduleInv, Pending, YearsKept
<1>7. CASE DeleteSchedule
  <2>1. jobs' = [jobs EXCEPT ![ScheduleKey] = NoJob]
    BY <1>7 DEF DeleteSchedule
  <2>2. jobs'[ScheduleKey].status # "PENDING" /\ YearsKept
    BY <1>1, <2>1, KeyTypes DEF NoJob, YearsKept
  <2> QED BY <1>2, <1>7, <2>2 DEF DeleteSchedule, ScheduleInv, Pending
<1>8. CASE \E d \in Devices : RegisterToken(d)
  BY <1>8 DEF RegisterToken, ArmedInv, ScheduleInv, Pending, YearsKept
<1> QED BY <1>4, <1>5, <1>6, <1>7, <1>8

\* What syncBirthdayNotificationJob leaves behind: one pending year at most, as saved.
LEMMA SyncBirthdayFacts ==
    ASSUME TypeOK, TypeOK', NEW p \in People, SyncBirthday(p), person' = p
    PROVE  /\ RowsInv' /\ jobs'[ScheduleKey] = jobs[ScheduleKey]
           /\ p.enabled /\ p.birthday # None => \E y \in Years : Pending(y)'
<1>1. jobs \in [Keys -> [status : Statuses, at : Int]]
  BY DEF TypeOK
<1>2. ASSUME NEW ks \in SUBSET Years
      PROVE  /\ \A k \in ks : Canceled(ks)[k].status # "PENDING"
             /\ Canceled(ks)[ScheduleKey] = jobs[ScheduleKey]
             /\ Canceled(ks) \in [Keys -> [status : Statuses, at : Int]]
  <2>1. \A k \in Keys : Canceled(ks)[k] = IF k \in ks /\ Pending(k)
             THEN [jobs[k] EXCEPT !.status = "CANCELED"] ELSE jobs[k]
    BY DEF Canceled
  <2>2. \A k \in ks : Canceled(ks)[k].status # "PENDING"
    <3> SUFFICES ASSUME NEW k \in ks PROVE Canceled(ks)[k].status # "PENDING"
      OBVIOUS
    <3>1. k \in Keys
      BY KeyTypes
    <3>2. CASE Pending(k)
      <4>1. [jobs[k] EXCEPT !.status = "CANCELED"].status = "CANCELED"
        BY <1>1, <3>1
      <4> QED BY <2>1, <3>1, <3>2, <4>1
    <3>3. CASE ~Pending(k)
      BY <2>1, <3>1, <3>3 DEF Pending
    <3> QED BY <3>2, <3>3
  <2> QED BY <2>1, <2>2, KeyTypes, CanceledType
<1>3. CASE p.enabled /\ p.birthday # None
  <2>1. PICK y \in Years : y = TargetYear(p.birthday)
    BY TargetYearInRange
  <2> DEFINE at == NotifyAt(p.birthday, y, p.offset)
             f == Canceled(Years \ {y})
  <2>2. jobs' = [f EXCEPT ![y] = PendingJob(at)]
    BY <1>3, <2>1 DEF SyncBirthday, OthersCanceled
  <2>3. /\ \A k \in Years \ {y} : f[k].status # "PENDING"
        /\ f[ScheduleKey] = jobs[ScheduleKey]
        /\ f \in [Keys -> [status : Statuses, at : Int]]
    BY <1>2
  <2> HIDE DEF f
  <2>4. \A k \in Years : jobs'[k].status = "PENDING" => k = y
    BY <2>2, <2>3, KeyTypes
  <2>5. jobs'[y].status = "PENDING" /\ jobs'[y].at = at
    BY <2>2, <2>3, KeyTypes DEF PendingJob
  <2>6. ArmedAsSaved(y)'
    BY <1>3, <2>5 DEF ArmedAsSaved
  <2>7. RowsInv'
    BY <2>4, <2>5, <2>6 DEF RowsInv, Pending, ArmedAsSaved
  <2>8. jobs'[ScheduleKey] = jobs[ScheduleKey]
    BY <2>2, <2>3, KeyTypes
  <2> QED BY <2>5, <2>7, <2>8 DEF Pending
<1>4. CASE ~(p.enabled /\ p.birthday # None)
  <2>1. jobs' = Canceled(Years)
    BY <1>4 DEF SyncBirthday
  <2>2. /\ \A k \in Years : jobs'[k].status # "PENDING"
        /\ jobs'[ScheduleKey] = jobs[ScheduleKey]
    BY <1>2, <2>1
  <2> QED BY <1>4, <2>2 DEF RowsInv, Pending
<1> QED BY <1>3, <1>4

\* The people handlers: either the worker holds a job of the person, which contests the
\* owner, or no run carries a birthday and the rows are what the sync makes them.
LEMMA PersonApi ==
    ASSUME TypeOK, TypeOK', LocalsInv, ArmedInv, SavePerson \/ DeletePerson
    PROVE  ArmedInv'
<1>1. /\ UNCHANGED <<now, batch, crashes, schedule>>
      /\ "person" \notin contested' => "person" \notin HeldOwners
      /\ "schedule" \in contested' <=> "schedule" \in contested
  BY DEF SavePerson, DeletePerson, Edit
<1>2. /\ jobs'[ScheduleKey] = jobs[ScheduleKey] /\ RowsInv'
      /\ person'.state = "live" /\ person'.enabled /\ person'.birthday # None
            => \E y \in Years : Pending(y)'
  <2>1. CASE SavePerson
    <3>1. PICK p \in People : person' = p /\ SyncBirthday(p)
      BY <2>1 DEF SavePerson
    <3> QED BY <3>1, SyncBirthdayFacts
  <2>2. CASE DeletePerson
    <3>1. jobs'[ScheduleKey] = jobs[ScheduleKey] /\ \A y \in Years : jobs'[y].status # "PENDING"
      BY <2>2, KeyTypes DEF DeletePerson, NoJob
    <3>2. person'.state = "deleted"
      BY <2>2 DEF DeletePerson, TypeOK, People
    <3> QED BY <3>1, <3>2 DEF RowsInv, Pending
  <2> QED BY <2>1, <2>2
<1>3. ScheduleInv'
  BY <1>1, <1>2 DEF ArmedInv, ScheduleInv, Pending
<1>4. ChainUnbroken'
  BY <1>2 DEF ChainUnbroken, PendingYears, Pending
<1>5. ASSUME "person" \notin HeldOwners, NEW b \in Batches PROVE RunInv(b)'
  <2>1. \A j \in Carried(b) : j.key = ScheduleKey
    <3> SUFFICES ASSUME NEW j \in Carried(b) PROVE j.key = ScheduleKey
      OBVIOUS
    <3>1. j.key \in HeldBy(b)
      BY CarriedType, NoneAssumption DEF HeldBy, Carried
    <3>2. OwnerOf(j.key) \in HeldOwners
      BY <3>1 DEF Held, HeldOwners
    <3> QED BY <1>5, <3>2 DEF OwnerOf
  <2>2. \A j \in batch[b].todo : j.key = ScheduleKey
    BY <2>1 DEF Carried
  <2>3. HasJob(b) => batch[b].job.key = ScheduleKey
    BY <2>1 DEF Carried
  <2>4. ~At(b, "next")
    BY <2>3 DEF LocalsInv, BatchInv, HasJob, At
  <2>5. Carried(b)' = Carried(b) /\ batch'[b] = batch[b]
    BY <1>1 DEF Carried, HasJob
  <2> QED BY <2>1, <2>2, <2>3, <2>4, <2>5 DEF RunInv, At, HasJob
<1>6. BirthdayInv'
  BY <1>1, <1>2, <1>5 DEF BirthdayInv
<1> QED BY <1>3, <1>4, <1>6 DEF ArmedInv

LEMMA InitArmed == Init => ArmedInv
<1> SUFFICES ASSUME Init PROVE ArmedInv
  OBVIOUS
<1>1. \A k \in Keys : ~Pending(k)
  BY DEF Init, NoJob, Pending
<1>2. \A b \in Batches : batch[b].pc = "idle" /\ batch[b].todo = {}
  BY IdleFacts DEF Init
<1>3. \A b \in Batches : RunInv(b)
  BY <1>2 DEF RunInv, Carried, HasJob, At
<1>4. ChainUnbroken
  BY DEF Init, ChainUnbroken
<1> QED BY <1>1, <1>3, <1>4, KeyTypes DEF ArmedInv, ScheduleInv, BirthdayInv, RowsInv

LEMMA NextArmed == OneProcess /\ IInv /\ IInv' /\ ArmedInv /\ [Next]_vars => ArmedInv'
<1> SUFFICES ASSUME OneProcess, IInv, IInv', ArmedInv, [Next]_vars PROVE ArmedInv'
  OBVIOUS
<1>1. TypeOK /\ TypeOK' /\ LocalsInv
  BY DEF IInv
<1>2. ASSUME NEW b \in Batches, WorkerStep(b) PROVE ArmedInv'
  BY <1>1, <1>2, WorkerBirthday, WorkerChain, WorkerSchedule DEF ArmedInv
<1>3. ASSUME NEW b \in Batches, NEW p \in Processes, Cron(b, p) PROVE ArmedInv'
  BY <1>1, <1>3, CronArmed
<1>4. ASSUME NEW p \in Processes, Crash(p) PROVE ArmedInv'
  BY <1>1, <1>4, CrashArmed
<1>5. CASE Tick
  BY <1>1, <1>5, TickArmed
<1>6. CASE \/ CreateSchedule \/ RescheduleSchedule \/ RetitleSchedule \/ DeleteSchedule
           \/ \E d \in Devices : RegisterToken(d)
  <2>1. /\ ScheduleInv' /\ YearsKept /\ UNCHANGED <<person, batch, now, crashes>>
        /\ "person" \in contested' <=> "person" \in contested
    BY <1>1, <1>6, ScheduleApi
  <2>2. now' >= now
    BY <1>1, <2>1 DEF TypeOK
  <2>3. BirthdayInv'
    BY <1>1, <2>1, <2>2, BirthdayKept DEF ArmedInv
  <2>4. ChainUnbroken'
    BY <2>1 DEF ArmedInv, ChainUnbroken, YearsKept, PendingYears, Pending, At
  <2> QED BY <2>1, <2>3, <2>4 DEF ArmedInv
<1>7. CASE SavePerson \/ DeletePerson
  BY <1>1, <1>7, PersonApi
<1>8. CASE UNCHANGED vars
  <2>1. YearsKept /\ UNCHANGED <<now, schedule, person, jobs, batch, contested, crashes>>
        /\ now' >= now
    BY <1>1, <1>8 DEF vars, YearsKept, TypeOK
  <2>2. ScheduleInv' /\ ChainUnbroken'
    BY <2>1, ChainKept DEF ArmedInv, ScheduleInv, Pending, At
  <2> QED BY <1>1, <2>1, <2>2, BirthdayKept DEF ArmedInv
<1> QED BY <1>2, <1>3, <1>4, <1>5, <1>6, <1>7, <1>8 DEF Next

\* The invariant behind the next three theorems.
LEMMA Armed == OneProcess => (Spec => []ArmedInv)
<1> SUFFICES ASSUME OneProcess PROVE Spec => []ArmedInv
  OBVIOUS
<1>1. IInv /\ IInv' /\ ArmedInv /\ [Next]_vars => ArmedInv'
  BY NextArmed
<1> QED BY <1>1, InitArmed, Invariance, PTL DEF Spec

\* With one server process, what a pending job will do is what its schedule or person
\* says, except after an edit that met a run holding one of the owner's jobs.
THEOREM ArmedJobsAreCurrent == OneProcess => (Spec => []PendingIsCurrent)
<1> SUFFICES ASSUME OneProcess PROVE Spec => []PendingIsCurrent
  OBVIOUS
<1>1. ArmedInv => PendingIsCurrent
  BY DEF ArmedInv, ScheduleInv, BirthdayInv, RowsInv, ArmedAsSaved, PendingIsCurrent, PendingYears
<1> QED BY <1>1, Armed, PTL

\* Under the same condition a person has one birthday job armed at a time: neither the
\* yearly rearming nor a save leaves a former year behind.
THEOREM OneBirthday == OneProcess => (Spec => []OneBirthdayArmed)
<1> SUFFICES ASSUME OneProcess PROVE Spec => []OneBirthdayArmed
  OBVIOUS
<1>1. ArmedInv => OneBirthdayArmed
  <2> SUFFICES ASSUME ArmedInv, "person" \notin contested PROVE Cardinality(PendingYears) <= 1
    BY DEF OneBirthdayArmed
  <2>1. \A y, z \in PendingYears : y = z
    BY DEF ArmedInv, BirthdayInv, RowsInv, PendingYears
  <2>2. CASE PendingYears = {}
    <3>1. Cardinality(PendingYears) = 0
      BY <2>2, FS_EmptySet
    <3> QED BY <3>1
  <2>3. CASE PendingYears # {}
    <3>1. PICK y : PendingYears = {y}
      BY <2>1, <2>3
    <3>2. Cardinality(PendingYears) = 1
      BY <3>1, FS_Singleton
    <3> QED BY <3>2
  <2> QED BY <2>2, <2>3
<1> QED BY <1>1, Armed, PTL

\* Under the same condition an enabled birthday keeps its next job through failures,
\* saves and deletions of other things, unless a process stopped or a push failed.
THEOREM ChainNeverBreaks == OneProcess => (Spec => []ChainUnbroken)
<1> SUFFICES ASSUME OneProcess PROVE Spec => []ChainUnbroken
  OBVIOUS
<1>1. ArmedInv => ChainUnbroken
  BY DEF ArmedInv
<1> QED BY <1>1, Armed, PTL
=============================================================================

# Formal models of the SWYP backend

TLA+ models of the parts of `src/backend` whose correctness depends on order,
concurrency and failure: the login session, the notification queue, the voice
transcription jobs, the address book (people, records, schedules and their files),
the encryption backfill, consents and plans. TLC checks the models on small
instances; TLAPS proves the main invariants for every instance. The code is the
reference: each definition translates the lines `PROJECT.json` names under `map`.

## 1. Inventory

The backend is a NestJS application (Node.js, one event loop per process) over
PostgreSQL through Prisma (READ COMMITTED, no explicit locks), Redis (one key per
user), S3, Firebase and OpenAI. CI deploys it by an ECS rolling deployment
(`.github/workflows/ci.yml:75`), so two processes overlap for a while.

| Component | State | Operations that change it | Interacts with |
|---|---|---|---|
| Login session (`auth.service`, `session.service`, `jwt.strategy`) | `users.activeRefreshFamilyId`, `refresh_tokens`, Redis `auth:active-session:<user>` | login, refresh, logout, delete account, the guard's re-cache | Redis client, Google |
| Redis client (`redis.service`) | `ready` | connection events | every session check |
| Notification worker | `notification_jobs`, `notifications`, `isProcessing` | the minute cron handler | FCM sender, rows of schedules and people |
| FCM sender, push tokens | `push_tokens` | send, revoke, register | Firebase |
| Schedules | `schedules`, links to people and records, the schedule's job | create, update, delete | worker through the job row |
| People | `people`, contacts, cards, categories, `media_files`, birthday jobs | create, import, update, image, delete | worker, S3, records |
| Records | `records`, keywords, memo, links | create, update, delete | people, schedules, S3 |
| Voice STT | `voice_stt_jobs`, `media_files`, in-memory work | upload, background pipeline, boot sweep | S3, OpenAI, records |
| S3 | objects | upload, delete | no transaction with the database |
| Agreements | documents, consents, events | agree, update consent, guard | login |
| Billing, plans | `users.plan` | `syncUserPlan` (no caller yet) | |
| PII encryption, backfill script | encrypted columns, hashes, birthday parts | encrypt, decrypt, one-off backfill | every service that stores text |
| Users, home, inbox, HTTP layer, logging | | reads, single-row updates, formatting | |

Where it is hard, and what makes each part correct:

* **Session.** Two stores without a common transaction, requests of two devices, a
  Redis that comes and goes, a compare-and-delete in two commands. Correct when one
  refresh token is exchanged once, `active` can always be refreshed, a provisional
  login never shadows the old one for long, and Redis agrees with the database when
  nothing is in flight.
* **Notifications.** A batch is a snapshot; API calls, deletions, crashes and the
  next tick run against it. Correct when no push goes out that was not armed, the
  armed jobs say what their owners say, the yearly chain does not break and the
  queue drains.
* **Voice STT.** The work lives in memory, its effects in two stores; processes
  overlap. Correct when a row names an existing object, a record appears exactly
  with its COMPLETED job, no object is lost without a cause and a job settles.
* **People, records, schedules.** A request reads and checks, uploads, commits, then
  deletes objects; other requests commit in between. Correct when no answer links to a
  file that is gone, every row and object has an owner, a voice record keeps its
  recording, and a check or a deletion plan is carried out as made unless exactly what
  it read has moved.
* **Backfill.** A script rewrites rows from a snapshot while the API writes them, and is
  started again after it died. Correct when nothing is encrypted twice, no plaintext is
  left in a table it has passed, lookup columns match the values beside them, and it
  changes no text.
* **Agreements.** Documents, consents and guard checks are read at different times.
  Correct when who passes the guard has agreed, only a new version locks a user out, and
  the event log says what the consents are.
* **Plans.** Correct when `users.plan` is the best plan in force once syncs have caught up.

`PROJECT.json` lists the hazards line by line, with the properties that catch them. A
hazard without a property is one the code does not guard against: it happens, no document
promises otherwise, and its note says so, with the property that excuses it where there is
one. A hazard whose properties excuse part of it says which part.

## 2. Modules

| Module | Models | Size of a step |
|---|---|---|
| `AuthSession` | `auth.service.ts`, `session.service.ts`, the guard, `redis.service.ts` | one `await`; a transaction that starts with an `updateMany` is two steps |
| `SingleSession` | what the database rows promise, abstractly | one change of the session |
| `MCAuthSession` | the symmetry set for TLC | |
| `AuthSession_proofs` | invariants of `AuthSession` | |
| `AuthSession_refinement` | `AuthSession` implements `SingleSession` | |
| `NotificationQueue` | worker, FCM sender, push tokens, job writes of schedules and people | one `await` of the worker, one API transaction |
| `NotificationQueue_proofs` | theorems about `NotificationQueue` | |
| `VoiceSttJob` | `voice-stt-job.service.ts`, `deleteRecord`, row and object deletion of `deleteAccount` | one `await`, a boot, a stop |
| `SttJobLife` | what a client that polls a voice job may rely on, abstractly | one change a client can see |
| `VoiceSttJob_proofs` | theorems about `VoiceSttJob`, among them that it implements `SttJobLife` | |
| `Contacts` | `people.service.ts`, `record.service.ts`, `schedule.service.ts`, their S3 objects | the reads of a request, one upload, one transaction, the deletions after it |
| `MCContacts` | symmetry sets for TLC | |
| `Contacts_proofs` | types, and what each transaction does to rows and requests | |
| `Contacts_safety` | theorems about rows, files and objects, and about checks and deletion plans | |
| `PiiBackfill` | `pii-crypto.service.ts`, `backfill-pii-encryption.ts`, the API writes of encrypted columns | one API write, one row or one table of the script |
| `PiiBackfill_proofs` | theorems about `PiiBackfill` | |
| `Agreements` | `agreements.service.ts`, the required-agreements guard | one query or transaction |
| `PlanResolution` | `plan-resolution.service.ts`, `plan-order.ts` | the read and the write of a sync |
| `UserData_proofs` | theorems about `Agreements` and `PlanResolution` | |
| `MCUserData` | runs `PiiBackfill`, `Agreements` and `PlanResolution` side by side | |

### AuthSession

One user: every statement of the two services is scoped to a `userId`. `userExists`,
`active` and `tokens` are the rows, `redis` and `redisReady` the key and the client's
flag, `req` the local variables of every request (its program counter is the await it
is at). A login's family and token are named after the request that makes them, which
models `randomUUID()` and a fresh token. `LoginSnapshot`/`LoginCommit` and
`RevokeSnapshot`/`RevokeCommit` split the transactions whose `updateMany` reaches
only the rows its snapshot saw; `Revoked` re-evaluates the condition on them, as
READ COMMITTED does. `SetActiveSession` covers the two failures of a Redis write: not
ready (503), and a connection that drops after the command ran.

A database error has three forms, all under `"dberror"`. `QueryFails` is a query or a
transaction that throws and is rolled back: outside `activateLoginSession` nothing
catches it and the request ends in `failed`. `Committed` is a transaction the database
kept and whose answer is lost: the handler throws in front of its Redis statement and ends
in `lost`, which for a logout, a reuse detection and an account deletion means that the
key is never deleted although the row is cleared. `LoginCommit` and `LoginRollback` have
the same two inside the `try` of a login, whose `catch` cleans up.

Simplifications: `ready` is one flag although each process has its own client;
commands ioredis would resend after a reconnect are not modelled.

### NotificationQueue

One user with one schedule and one person. A job is identified by its `dedupeKey`:
one for the schedule, one per year for the birthday. `batch` holds the locals of each
run of the cron handler with the snapshot `findMany` returned; `Abort` is an exception
that leaves the `for` loop through `finally`. `SyncSchedule` and `SyncBirthday` are the
two sync functions; both choose and reset rows exactly as the upserts do. API
transactions are one step: they lock the owner's row first, and their job statements
commute with the worker's updates of single rows. Ghosts: `credit` counts armings (a
key turning PENDING) minus deliveries; `contested` marks an owner whose row was last
written while a batch held one of its jobs, the window in which the unconditional
`update` by id overwrites what the user asked for.

### VoiceSttJob

An upload names everything it creates. Every await may throw, the call of `uploadFile`
included, which stands in front of the `try` and may have stored its object (`Upload`); a
commit may be reported as an error, a process may stop at any step and another may boot beside it.
Ghosts record the three ways the code gives up: `ackLost` (a commit reported as an
error), `stranded` (nobody is left to settle the job), `leaked` (nobody is left to
delete the object: an upload that threw, a stop, a failed S3 deletion, the erasure of the
account). The properties hold outside those, and the ghosts say precisely
which events lead there.

`SttJobLife` is the job as the app that polls it sees it: a status, a record, and somebody
who still works on it. A status moves by that work alone, apart from the boot sweep;
COMPLETED and the record come together; once the work is over the status changes no
more; a deleted job does not return. The mapping `Polled` shows a row's status, "new"
before the transaction of the upload and "gone" when there will be no row any more, and
`work` is the uploads whose background work runs in some process. Tasks that move
between two awaits, objects and file rows are stutters.

### Contacts

One user, as every query is scoped to a `userId`. `person`, `record` and `schedule` are
the rows with their links and cards, `media` the `media_files` rows, `objects` the keys in
S3; a row is named after the request that inserts it, a file after its owner and usage
(the code draws UUIDs). A request goes `idle` → `upload` → `commit` → `clean` → `done`:

* `Start` actions are the reads and checks in front of the transaction. What they read and
  use later (the old image, the deletion plan, the number, the record to link) stays in
  `req[q]` while others commit. `Upload` is one `uploadFile` call; the order of the files
  is arbitrary, and a call that throws may have stored its object under a key the `catch`
  does not know.
* `Commit…` actions are the transactions, `StatementsSucceed` what makes one throw:
  `update`/`delete` of a missing row, `updateMany` with `count !== 1`, a foreign key.
  `Rollback` is any of these or a database error, followed by the compensation.
  `Committed` also allows a commit whose answer is lost, where the `catch` deletes
  objects the committed rows name (ghost `ackLost`).
* `Clean` deletes each key once, whichever fail; `Crash` stops the request anywhere.
* Operations whose transaction repeats every check it needs (text records, updates and
  deletions of records and schedules, imports) are one step: whatever a request reads
  before it is read again or enforced by a foreign key in the transaction.

Reads (`PeopleList`, `PersonDetail`, …) are views of one state, although Prisma loads
relations by separate queries; a reader between two of them is not modelled.

Ghosts: `late[q]` (in `req`) marks a phone number, a record's people or a record's
schedule that another request changed after `q` read it, `leaked` an object no code will
delete any more, `stray` an image that was attached to a person after their deletion was
planned. The properties hold outside those windows, and the marks are exact: they name
the one row that moved. Inside them the model shows what no document rules out: two
people of a record deleted at once leave it with nobody, a deletion takes a record
along that got a second person meanwhile, an image added between plan and commit
keeps its row and its object after the person, two creations take one number, and
a second `createSchedule` moves a record.

### PiiBackfill

A value is a word and its layers of encryption; a hash or a date computed from a
ciphertext is `Garbage`. `IsEncrypted` is the code's test of the first three characters,
so a plaintext starting with `v1:` (`Prefixed`) counts as encrypted. API actions
insert and update through `Encrypt`, `Hash` and `Parts`; an update writes the columns of
the request only. The script takes a snapshot per table and updates row by row from it
(`SealRow`), aborts on a missing row, and may stop and run again. Users and people are
tables of their own; the five tables whose loops are the same (encrypt what is plain,
no lookup columns) are `Texts`.

Seen while modelling, excused by name in the properties: `hashPhoneNumber` and
`hashEmail` of the script hash what they are given, so a row of which the API has
already encrypted the key gets the hash of a ciphertext (`halfSealed`); an API write
between snapshot and update is lost (`edited`); one row deleted meanwhile ends the whole
run; a text that starts with `v1:` is stored as it is and throws when it is
read (`pii-crypto.service.ts:28`); and the voice job creates its record without a title
(`voice-stt-job.service.ts:198`), so the database stores its default `제목 없음`
(`schema.prisma:610`) in plaintext, also in a table the script has passed, until the title
is saved or the script runs again (`CreateVoiceRecord`, `Untitled`; `PassedTablesSealed`
excuses that title and no other column).

### Agreements, PlanResolution

`Agreements` has documents that take effect and retire by hand (external), the latest of
each type active; `Agree` and `UpdateConsent` read the active documents, `Commit` writes
consents and events some time later, and the guard reads documents and then
consents. `PlanResolution` has subscriptions that the store changes, a clock, and
`syncUserPlan` as a read and a write; nothing calls it yet, so the model lets any
number of the callers its comment names overlap. Overlapping syncs may write the older
read last (ghost `overlapped`); a sync may fail after its read, and the old plan stays
until the next one (`due`).

`MCUserData` extends the three and composes them without interaction: they share no row,
a behaviour runs one of them and leaves the others as they began, so that TLC explores
the sum of their states and checks the components' own properties.

## 3. Runs

| Run | Instance | Shows |
|---|---|---|
| `auth_concurrent` | 3 concurrent requests, outages, evictions, database errors, account deletion | type, single rotation, the active family stays refreshable, only committed families get the long TTL; the rows implement `SingleSession` |
| `auth_sequential` | 3 requests one after another, crashes, eviction, expiry, database errors, deletion | the single-device policy in the rows and in Redis, agreement when quiet up to the families of abandoned handlers, a logged-out family is dead |
| `auth_progress` | 2 requests, crashes, database errors, outages, fair | every request ends; a login that never committed stops shadowing the old session |
| `auth_stale_delete` (violation) | 2 requests | a DEL removes the key a new login wrote after the GET |
| `auth_older_device` (violation) | 2 requests | a refresh of the older device promotes itself over a finished login |
| `notify_one_worker` | 1 process, batch of 1, 3 API calls, 1 crash, 2 years of 2 ticks | armings and pushes, inbox, armed jobs follow their owners, the chain |
| `notify_progress` | 1 process, 3 API calls, 1 crash, fair | every due job is tried |
| `notify_announced_twice` (violation) | 2 saves of one person, no crash | the second save rearms a birthday already announced |
| `voice_jobs` | 2 uploads, 2 processes, 2 stops, fair | objects, rows, jobs and records; what clients poll implements `SttJobLife`; every job settles |
| `contacts_shared` | 2 requests of any kind; 2 people with one number, one of them with picture, card and a schedule; 1 record of either type with any people and schedule; 2 phone numbers, all faults | no dead link, every row and object owned, recordings kept, deletion plans, phone numbers and schedule links |
| `user_data` | backfill: 4 rows, 3 words, 2 API writes, 2 runs of the script; agreements: 4 documents of 2 types, 3 calls; plans: 2 subscriptions, 2 syncs, 2 ticks | encryption, lookups and texts; guard, lock-outs and event log; the plan |
| `voice_rolling_deploy` (violation) | 1 upload, 2 processes | the boot sweep fails the job of a process that is still working |

**Why the bounds are enough.** Two requests are the smallest conflict in the session
code and three let a conflict run into a third party (a login between another login
and a refresh); the steps of requests are pairwise conflicts on one key and a few
rows. In the queue a batch of one already puts a due job behind another; two years
are an arming, its successor and the target of a sync after the birthday
(`notify_progress` has the push fall into the year before its birthday, and
`notify_one_worker` also passes with both days of the year, in four minutes); three API
calls create both owners and change one, or create one and change it twice. One crash
is enough to reach every crash point; the theorems below lift the bounds for the
invariants that are proved. Two uploads meet in the boot sweep and in account
deletion only, and two processes are what a rolling deployment runs.

In `contacts_shared` two overlapping requests are the smallest conflict: one reads, the
other commits, the first commits. `MCInit` picks the address books where requests can
meet: a number two people have, a record that may be text or voice, of nobody, one or
both, with or without the schedule, and one person who owns every kind of file (209 259
states). All eight properties are proved for any number of everything.
In `user_data` two API writes put one before a table's snapshot and one between snapshot
and row update, and two runs of the script are a stop and a rerun; three calls are a
consent, a withdrawal and a guard check across two versions of a document; two syncs
overlap or fail while two subscriptions and the clock change (353 734 states, the sum of
three components that do not interact). The runs of the session have 309 796
(`auth_concurrent`), 105 240 (`auth_sequential`) and 24 686 states (`auth_progress`),
`voice_jobs` 189 076.

**Concurrency and the sequential run.** `OnlyActiveFamilyLive`, `SupersededNotCached`,
`QuietAgreement` and `RevokedFamilyIsDead` are checked with one request in flight, so they say nothing of what concurrent requests do: at
READ COMMITTED two concurrent logins miss each other's token, and a rotation that
commits between the snapshot and the commit of a revocation escapes it. `SingleSession`
states what concurrency leaves: families open once, dead families stay dead, `active`
never goes back.

**Fairness.** Session and voice: weak fairness of each request's or task's steps (the
event loop resumes an await that returned; Redis calls fail fast when the client is
not ready) and of the pending TTL. Nothing is assumed about clients, about Redis
coming back, or about eviction. Voice boots: ECS starts a task when none is running;
a second one comes only with a deployment, so its boot is not fair. Queue: the cron
decorator fires every minute and the awaits of a batch return.

## 4. Findings

1. `DeletesOnlyItsOwnKey`: `deleteActiveSessionIfMatches` compares and deletes in two
   commands, so a delete can take the key of a login that came between.
2. `OlderDeviceTurnedAway`: a refresh that passed its check before a login promotes the
   older family after it; Redis then admits the older device and rejects the new one.
3. `BirthdayAnnouncedOnce`: saving a person between the early birthday push and the
   birthday sends the push again.
4. `BootFailsOnlyOrphans`: the boot sweep relies on a single task, the deployment runs
   two for a while.

## 5. Proofs

TLC checks small instances; the theorems below hold for every value of the constants
that satisfies the assumptions named in the modules, which TLC evaluates in the runs: names
and tables are distinct, `None` is none of them and no value of a column, bounds are
naturals, people are finitely many, a birthday's offset is shorter than a year,
subscription statuses are those of the enum.

| Theorem | Says |
|---|---|
| `AuthSession_proofs!TypeCorrect` | every row, key and local variable keeps its type |
| `AuthSession_proofs!RotatesOnce` | a refresh token has one successor at most |
| `AuthSession_proofs!ActiveFamilyCanRefresh` | `active` names a family with an unrevoked token |
| `AuthSession_proofs!PromotionFollowsCommit` | the long TTL follows a committed login |
| `AuthSession_refinement!Refinement` | the rows implement `SingleSession` |
| `AuthSession_refinement!SingleDevice` | one request at a time, only the active family has live tokens |
| `AuthSession_refinement!CacheFollowsLogin` | one request at a time, the key names no superseded family |
| `AuthSession_refinement!QuietStoresAgree` | one request at a time, a key that disagrees with the users row when quiet names the family of an abandoned handler |
| `AuthSession_refinement!LogoutIsFinal` | one request at a time, a logged-out family stays dead |
| `NotificationQueue_proofs!TypeCorrect` | rows, flags and locals keep their types |
| `NotificationQueue_proofs!OneBatch` | a process runs one batch at a time |
| `NotificationQueue_proofs!FlagHasItsBatch` | `isProcessing` is set only while a batch of the process runs |
| `NotificationQueue_proofs!SentJobsAreInInbox` | SENT comes with its inbox entry |
| `NotificationQueue_proofs!PushesWereArmed` | with one process, a push per arming, and at most one more per crash |
| `NotificationQueue_proofs!ArmedJobsAreCurrent` | with one process, what is armed is what the owner's row says |
| `NotificationQueue_proofs!OneBirthday` | with one process, one birthday job per person |
| `NotificationQueue_proofs!ChainNeverBreaks` | with one process, an enabled birthday keeps its next job |
| `VoiceSttJob_proofs!TypeCorrect` | rows, objects and tasks keep their types |
| `VoiceSttJob_proofs!RowsHaveObjects` | a `media_files` row names an existing object |
| `VoiceSttJob_proofs!RecordsMatchJobs` | a record exists exactly with its COMPLETED job |
| `VoiceSttJob_proofs!ObjectsAccounted` | an object without a row has code that will delete it or one of four recorded causes |
| `VoiceSttJob_proofs!Refinement` | what clients poll implements `SttJobLife` |
| `VoiceSttJob_proofs!SettledForGood` | a settled job whose work is over keeps its status, a deleted one stays away |
| `VoiceSttJob_proofs!NoJobIsForgotten` | a job in PROCESSING has work that goes on, a boot to come, or a recorded reason to have neither |
| `VoiceSttJob_proofs!ErasedForGood` | a deleted account has no upload, job or record row, ever again |
| `Contacts_proofs!TypeCorrect` | rows, objects and requests keep their types, every foreign key names a row |
| `Contacts_safety!NoDeadLinkHolds` | no answer links to a file that is gone |
| `Contacts_safety!ObjectsAccountedHolds` | every object has a row, a request that will delete it, or a recorded cause |
| `Contacts_safety!MediaOwnedHolds` | every file row has an owner, images attached behind a deletion's back excepted |
| `Contacts_safety!RecordingKeptHolds` | a voice record keeps its recording |
| `Contacts_safety!DeletesExactlyOrphansHolds` | a deletion takes along exactly the records nobody else is in |
| `Contacts_safety!PhoneTakenOnceHolds` | no second person gets a number that was checked to be free |
| `Contacts_safety!RecordKeepsItsScheduleHolds` | creating a schedule takes no record from another |
| `UserData_proofs!AdmittedHasAgreedHolds` | who passed the guard has agreed to what it asked about |
| `UserData_proofs!LockedOutHolds` | only a change of documents locks a user out |
| `UserData_proofs!EventTrailHolds` | the last event of a document is its consent |
| `UserData_proofs!ResolvesTheBest` | `ResolvePlan` picks the best plan among the valid subscriptions, Basic without one, however many there are |
| `UserData_proofs!PlanFollowsHolds` | after a sync nobody overlapped the plan is the one the subscriptions give |
| `PiiBackfill_proofs!NeverSealedTwice` | no column is encrypted twice (the type invariant) |
| `PiiBackfill_proofs!PassedStaySealed` | tables the script has passed hold no plaintext but the default title of a voice record created since (`PassedTablesSealed`) |
| `PiiBackfill_proofs!LookupsAlwaysMatch` | hashes and birthday parts match (`LookupsMatch`) |
| `PiiBackfill_proofs!TextsAreKept` | the script changes no text (`ScriptKeepsTexts`) |
| `PiiBackfill_proofs!RerunsChangeNothing` | the script writes only rows with something to do, and one update leaves nothing to do |

None of the properties is inductive by itself. What each invariant adds:

* **AuthSession.** `IInv` says what a request waiting at an await may still believe
  (`RequestInv`): a refresh past `find` holds a stored token and that token's family,
  a login that has not committed has no row, a request about to give the long TTL
  names a family with rows. `ErasedInv` and `ParentInv` relate the rows: nothing usable
  outlives the user, and a parent is always spent. `RotatedOnce` follows because a
  live token has no successor and only live tokens are rotated;
  `ActiveFamilyHasLiveToken` because a rotation replaces the token it spends, a login's
  own token is created with `active`, and a revocation that kills tokens of the active
  family also clears `active`. Expiry does not count as revocation here, as in the code.
* **Refinement.** The mapping computes a family's state from its rows. `LineageInv` adds
  that a family's founder is stored before any of its other tokens, so a login opens an
  unborn family, and that a revocation under way names a family that exists. Then
  `LoginCommit` is `Open`, `RevokeCommit` is `Revoke`, `Erase` is `Erase`, and every
  other step, rotations and expiries included, stutters.
* **AuthSession, one request at a time.** The four theorems assume `OneAtATime`: at most
  one request in flight, as in `auth_sequential`, and no Redis outage, since an outage
  makes the code leave a key behind on purpose. `SoloInv` says, await by await, what the
  one request being served may rely on (`Turn`): from the first SET of a login to its
  commit or its compensating delete the key is the login's own or missing, past the
  database fallback the key is missing and the family active, and the snapshot of a
  revocation covers every live token of its family. `Agree`, the key missing or equal to
  the users row, or naming the family of a handler that stopped or whose kept commit threw
  (`Left`), holds whenever nobody is served, and so
  at every arrival. `GoneInv`, that rows vanish with their user only, is what makes a
  logout that finds its token gone as final as one that revokes it.
* **NotificationQueue.** `BatchInv` describes the snapshot a run works through (each key
  once, the current job no longer in the list) and `OneBatchPerProcess` what
  `isProcessing` is for. `CreditInv` counts: a key that some batch will still push, or
  that is PENDING and not being recorded, has an arming left to pay for it; between the
  push and the row update the debt is nil, and a crash in that gap is what `crashes`
  pays. The count needs `OneProcess`: `isProcessing` is a field of one process, so nothing keeps
  two processes of a rolling deployment from fetching one job, and the theorem is silent
  about them.
* **VoiceSttJob.** `UploadInv` says, upload by upload, what the position of its task
  implies for its rows: no rows before its transaction (`Early`), no record before the
  last one unless an answer was lost (`Worked`), rows deleted before objects (`Purged`),
  and the three properties in that form. A step touches one upload, or sweeps several
  in the same way, so the proof is one lemma per kind of step and a frame lemma.
* **NotificationQueue, armed jobs.** `ArmedInv` adds, for an owner that is not `contested`,
  what the runs carry: every birthday snapshot a run still works on agrees with the
  people row (`ReadAsSaved`), the job it works on is the one pending birthday until it is
  marked, and between the mark and the next year none is pending (`RunInv`). So
  `ScheduleNext`, which arms from its snapshot, arms what the row says, and a year the
  model has (`NextYearInRange`). An edit that meets such a run contests the owner; one that
  meets none leaves the rows as the sync makes them. With two processes both could arm a year from
  one job, hence `OneProcess`.
* **Contacts, rows and files.** `Typed` (in `Contacts_proofs`) has the foreign keys. `Safe`
  adds four parts: a row or file named after a request exists only when its transaction
  is over (`Names`), what the rows name is in `media_files` (`Shown`), a file row has its
  object and its owner, and an object a row or a request that holds its key (`Files`), and
  what a request read for its later deletions, the old picture and the deletion plan, is
  what its transaction will find unless that was marked (`Plans`). Each transaction is
  one lemma about the rows it moves, shared by the four theorems.
* **Contacts, checks.** `Checked` says of every request between its reads and its
  transaction that each check still holds or its mark is set. Every transaction marks
  what it `Moves` for the others, and a request leaves `commit` by its own transaction,
  a rollback or a crash only; the three action theorems are what a transaction does when
  its mark is not set.
* **Agreements.** `Consistent` says that a call withdraws optional consents only, that a
  guard check asks for documents that were required and active, and that a consent to a
  required document, once given, stays: no step withdraws it.
* **Plans.** `resolvePlan` sorts by tier and expiry and takes the first row; the model says
  it with CHOOSE, so the proof has to know that a first row exists and which plan it
  has. `LeastNatural`, from the well-foundedness of the order of the naturals, gives any
  set of weights a least one and so any non-empty set of rows a first one
  (`FirstExists`); `BestIsUnique` says two best plans are equal. `PlanInv` then says of a
  sync that has read, and of `plan` once it has written, that it is the best plan at
  `resolvedAt`, as long as no row changed since, no sync failed and no two overlapped.
* **Voice, as polled.** `Progressed` adds that the position of the work bounds the
  status. Each action that a client sees is one action of `SttJobLife` (`CreateJobLife`,
  `ToSummaryLife`, `FinishLife`, `MarkFailedLife`, and `SharedLife` for boots, stops and
  the account); `Unseen` shows of all others that they stutter or end a piece of work.
  `SettledForGood` is read off the abstract specification: nothing but the work moves a
  settled job.
* **PiiBackfill.** Nothing is assumed about which plaintexts look encrypted. `BackfillInv`
  says of a row that a birth date never looks encrypted (so decrypting it gives its
  date), of a row the script still has to do that it is as the snapshot has it unless the
  API wrote it, and of every other row of a table begun or passed that it is hidden
  already (`SealedBut` adds the voice records created since the snapshot). The rest is what `Encrypt` does: it keeps the text, and encrypting twice is
  encrypting once.
* **What is left behind.** Four theorems have no run of their own; they are the safety half
  of what the runs check as liveness, or what an operator relies on. `NoJobIsForgotten`:
  every way a voice task ends settles its job or is recorded in `stranded`.
  `ErasedForGood`: a transaction that needs the users row fails after `deleteAccount`, and
  no update by id brings a row back. `FlagHasItsBatch`: the `finally` of the cron handler
  lowers `isProcessing` on every way out, for any number of processes, so no process skips
  its ticks for a batch that is no more. `RerunsChangeNothing`: what a run has to do was
  unsealed in its snapshot and sealed by one update, so a run after an abort writes only
  what is left.

Only model-checked is liveness under fairness (`EveryRequestEnds`,
`UncommittedKeyGoesAway`, `QueueDrains`, `JobSettles`), which the proof system does not
reach. The theorems about pushes and armed jobs are silent about several processes;
what they do to each other is a listed hazard.

## 6. Not modelled

* Controllers, DTO validation, entities, logging, metrics: they pass values through.
* Users, home, the list of plans and inbox reads: one query or one statement each.
* Within the modelled services: category names and a person's extra contacts (children
  written with the person and read with it), columns that are only stored, sorting and
  paging of lists, the contents of texts, tokens, audio and summaries, and which provider
  row a Google profile resolves to.
* A reader between two queries of one Prisma call (see `Contacts` above).
* Birthday offsets of a year or more, which the DTO accepts: outside the bounds of
  `NotificationQueue` (see the `numeric_edge` hazard).
* Two server processes in `NotificationQueue`: `isProcessing` is no lock between them, and
  the duplicate pushes of a deployment are listed as a hazard.

What could follow: a bound on the duplicate pushes of overlapping deployments, which needs
a count of armings and pushes apart from each other, and the two phases of a Redis
client (one flag per process).

------------------------------ MODULE Contacts ------------------------------
(***************************************************************************)
(* The address book of ONE user: people.service.ts, record.service.ts and  *)
(* schedule.service.ts, with the rows they share (people, cards, records,  *)
(* schedules, links, media_files) and the S3 objects those rows name.      *)
(*                                                                         *)
(* A request reads and checks, uploads its files one by one, commits one   *)
(* transaction and then deletes S3 objects: the ones it replaced, or, when *)
(* anything failed, the ones it uploaded.  Between these steps any other   *)
(* request may commit.  A row is named after the request that inserts it,  *)
(* a media_files row and its S3 object after its owner and its usage.      *)
(* Operations whose transaction repeats every check (a missing row or a    *)
(* foreign key makes it throw) are one step; a refused request is none.    *)
(***************************************************************************)
EXTENDS Naturals, FiniteSets

CONSTANTS
    Requests,       \* API calls, each of which runs one operation
    SeedPeople,     \* rows that exist at the start
    SeedRecords,
    SeedSchedules,
    Phones,         \* phone number hashes
    None,           \* SQL NULL, or no row
    Faults          \* what may go wrong: "s3", "dberror", "ackLost", "crash"

People == SeedPeople \cup Requests
Records == SeedRecords \cup Requests
Schedules == SeedSchedules \cup Requests

CreateFiles == {"profile", "front", "back"}
Usages == CreateFiles \cup {"voice"}
Media == (People \cup SeedRecords) \X Usages

PersonRows == [phone : Phones, image : Media \cup {None}, cards : SUBSET Media]
RecordRows == [type : {"TEXT", "VOICE"}, people : SUBSET People,
               voice : Media \cup {None}, schedule : Schedules \cup {None}]

ASSUME ContactsAssumption ==
    /\ SeedPeople \cap (Requests \cup SeedRecords) = {}
    /\ SeedRecords \cap Requests = {} /\ SeedSchedules \cap Requests = {}
    /\ IsFiniteSet(People)
    /\ None \notin People \cup Records \cup Schedules \cup Phones \cup Media
    /\ None \notin PersonRows /\ None \notin RecordRows
    /\ \A S \in SUBSET People : S # None

VARIABLES
    person,         \* people and their business cards
    record,         \* records and their record_people
    schedule,       \* schedules: the set of their schedule_people
    media,          \* media_files
    objects,        \* the objects in S3
    req,            \* the requests
    leaked,         \* ghost: no code is left that would delete the object
    stray,          \* ghost: attached to a person after their deletion was planned
    ackLost         \* ghost: their commit was reported as an error

rows == <<person, record, schedule, media>>
ghosts == <<leaked, stray, ackLost>>
vars == <<rows, objects, req, ghosts>>

Ops == {"createPerson", "updatePerson", "addImage", "replaceImage", "deleteImage",
        "deletePerson", "createSchedule"}
Pcs == {"idle", "upload", "commit", "clean", "done"}

\* What a request may learn too late: a record's people or schedule, or a phone
\* number, was changed by another request after it read.
Marks == ({"people", "schedule"} \X Records) \cup ({"phone"} \X Phones)

\* `on` is the row the request works on, `people` the ones it wants linked, `doomed`
\* and `orphans` what it read for deletion, `keys` the objects it has to delete if it
\* ends now (uploadedFileKeys, and after the commit s3KeysToDelete).
RequestStates ==
    [pc : Pcs, op : Ops \cup {None}, on : People \cup Records \cup {None},
     phone : Phones \cup {None}, people : SUBSET People, todo : SUBSET Media,
     keys : SUBSET Media, doomed : SUBSET Media, orphans : SUBSET Records,
     late : SUBSET Marks]

Live == {p \in People : person[p] # None}
Recorded == {r \in Records : record[r] # None}
Scheduled == {s \in Schedules : schedule[s] # None}

Face(p) == IF p \in Live THEN {person[p].image} \ {None} ELSE {}
Cards(p) == IF p \in Live THEN person[p].cards ELSE {}
Voice(r) == IF r \in Recorded THEN {record[r].voice} \ {None} ELSE {}
RecordsOf(p) == {r \in Recorded : p \in record[r].people}
LinkedRecords(s) == {r \in Recorded : record[r].schedule = s}
HasPicture(p) == Face(p) # {}

\* assertPeopleExist: the people a request may link.
Linkable == SUBSET Live

Fresh(op, on) ==
    [pc |-> "commit", op |-> op, on |-> on, phone |-> None, people |-> {}, todo |-> {},
     keys |-> {}, doomed |-> {}, orphans |-> {}, late |-> {}]
Ended(keys) ==
    [Fresh(None, None) EXCEPT !.pc = IF keys = {} THEN "done" ELSE "clean", !.keys = keys]

\* Type invariant: rows, requests and objects keep their types, and foreign keys name
\* rows that exist.
TypeOK ==
    /\ person \in [People -> PersonRows \cup {None}]
    /\ record \in [Records -> RecordRows \cup {None}]
    /\ schedule \in [Schedules -> (SUBSET People) \cup {None}]
    /\ req \in [Requests -> RequestStates]
    /\ media \subseteq Media /\ objects \subseteq Media
    /\ leaked \subseteq Media /\ stray \subseteq Media /\ ackLost \subseteq Media
    /\ \A r \in Recorded : record[r].people \subseteq Live
    /\ \A r \in Recorded : record[r].schedule \in Scheduled \cup {None}
    /\ \A s \in Scheduled : schedule[s] \subseteq Live

InitPerson(phone, pictured, carded) ==
    person = [p \in People |->
        IF p \notin SeedPeople THEN None
        ELSE [phone |-> phone[p],
              image |-> IF p \in pictured THEN <<p, "profile">> ELSE None,
              cards |-> IF p \in carded THEN {<<p, "front">>} ELSE {}]]
InitRecord(people, voiced, planned) ==
    record = [r \in Records |->
        IF r \notin SeedRecords THEN None
        ELSE [type |-> IF r \in voiced THEN "VOICE" ELSE "TEXT", people |-> people[r],
              voice |-> IF r \in voiced THEN <<r, "voice">> ELSE None,
              schedule |-> planned[r]]]

\* Any rows a user may have: people with or without a picture and a card, records of
\* either kind with any people and schedule.
Init ==
    /\ \E phone \in [SeedPeople -> Phones], pictured, carded \in SUBSET SeedPeople :
          InitPerson(phone, pictured, carded)
    /\ \E people \in [SeedRecords -> SUBSET SeedPeople], voiced \in SUBSET SeedRecords,
          planned \in [SeedRecords -> SeedSchedules \cup {None}] :
          InitRecord(people, voiced, planned)
    /\ \E people \in [SeedSchedules -> SUBSET SeedPeople] :
          schedule = [s \in Schedules |-> IF s \in SeedSchedules THEN people[s] ELSE None]
    /\ media = (UNION {Face(p) \cup Cards(p) : p \in People}) \cup UNION {Voice(r) : r \in Records}
    /\ objects = media
    /\ req = [q \in Requests |-> [Fresh(None, None) EXCEPT !.pc = "idle"]]
    /\ leaked = {} /\ stray = {} /\ ackLost = {}

-----------------------------------------------------------------------------
(* Reads and checks                                                        *)

PhoneChecked(a, except) == TRUE     \* mutant of PhoneIsFree: no check
\* assertPhoneNumberIsAvailable; `except` is excludePersonId.
PhoneIsFree(a, except) == \A p \in Live : person[p].phone = a => p \in except

RecordExists(r) == r \in Recorded   \* mutant of RecordCanBeLinked: an old link is ignored
\* assertRecordCanBeLinked.
RecordCanBeLinked(r) == r = None \/ (r \in Recorded /\ record[r].schedule = None)

OrphansToo(p) == {r \in RecordsOf(p) : Cardinality(record[r].people) <= 2} \* mutant of Orphans: one too many
\* toPersonDeletionPlan: the records nobody else is in ...
Orphans(p) == {r \in RecordsOf(p) : Cardinality(record[r].people) <= 1}

AllRecordings(p) ==                 \* mutant of PlannedMedia: shared recordings too
    Face(p) \cup Cards(p) \cup UNION {Voice(r) : r \in RecordsOf(p)}
OnlyFace(p) == Face(p)              \* mutant of PlannedMedia: cards and recordings forgotten
\* ... and the files that go: picture, cards and the recordings of the orphans.
PlannedMedia(p) == Face(p) \cup Cards(p) \cup UNION {Voice(r) : r \in Orphans(p)}

\* The reads are done: the request uploads its files, or goes to its transaction.
Begin(q, state) ==
    /\ req[q].pc = "idle"
    /\ req' = [req EXCEPT ![q] = [state EXCEPT !.pc = IF state.todo = {} THEN "commit" ELSE "upload"]]
    /\ UNCHANGED <<rows, objects, ghosts>>

CreatePerson(q) ==
    \E a \in Phones, files \in SUBSET CreateFiles :
        /\ PhoneIsFree(a, {})
        /\ Begin(q, [Fresh("createPerson", q) EXCEPT !.phone = a, !.todo = {q} \X files])

\* The number is looked up only when its hash differs from the stored one.
UpdatePerson(q) ==
    \E p \in Live, a \in Phones :
        /\ person[p].phone # a => PhoneIsFree(a, {p})
        /\ Begin(q, [Fresh("updatePerson", p) EXCEPT !.phone = a])

AddProfileImage(q) ==
    \E p \in Live :
        /\ ~HasPicture(p)
        /\ Begin(q, [Fresh("addImage", p) EXCEPT !.todo = {<<q, "profile">>}])

\* The existing image is read now and deleted by its id and key later.
ReplaceProfileImage(q) ==
    \E p \in Live :
        /\ HasPicture(p)
        /\ Begin(q, [Fresh("replaceImage", p) EXCEPT !.todo = {<<q, "profile">>}, !.doomed = Face(p)])

DeleteProfileImage(q) ==
    \E p \in Live :
        /\ HasPicture(p)
        /\ Begin(q, [Fresh("deleteImage", p) EXCEPT !.doomed = Face(p)])

\* findFirst of the deletion: the plan is made from what it sees, without a lock.
DeletePerson(q) ==
    \E p \in Live :
        Begin(q, [Fresh("deletePerson", p) EXCEPT !.doomed = PlannedMedia(p), !.orphans = Orphans(p)])

CreateSchedule(q) ==
    \E wanted \in Linkable, r \in Records \cup {None} :
        /\ RecordCanBeLinked(r)
        /\ Begin(q, [Fresh("createSchedule", r) EXCEPT !.people = wanted])

-----------------------------------------------------------------------------
(* Uploads                                                                 *)

AbandonAll(q) ==                    \* mutant of Abandon: what it would have replaced goes too
    req' = [req EXCEPT ![q] = Ended(req[q].keys \cup req[q].doomed)]
\* The catch: what was uploaded is deleted and the error goes to the client.
Abandon(q) == req' = [req EXCEPT ![q] = Ended(req[q].keys)]

\* uploadFile: the key is remembered when the call comes back.  A call that throws may
\* have stored the object all the same, under a key nobody remembers.
Upload(q) ==
    /\ req[q].pc = "upload"
    /\ \E f \in req[q].todo :
        \/ /\ objects' = objects \cup {f} /\ UNCHANGED leaked
           /\ req' = [req EXCEPT ![q].keys = @ \cup {f}, ![q].todo = @ \ {f},
                                 ![q].pc = IF req[q].todo = {f} THEN "commit" ELSE "upload"]
        \/ /\ "s3" \in Faults /\ Abandon(q)
           /\ \/ UNCHANGED <<objects, leaked>>
              \/ objects' = objects \cup {f} /\ leaked' = leaked \cup {f}
    /\ UNCHANGED <<rows, stray, ackLost>>

-----------------------------------------------------------------------------
(* Transactions                                                            *)

\* The request ends with `keys` to delete; the others still under way are late.
Settle(q, keys, marks) ==
    req' = [o \in Requests |->
        IF o = q THEN Ended(keys)
        ELSE IF req[o].pc \in {"upload", "commit"} THEN [req[o] EXCEPT !.late = @ \cup marks]
        ELSE req[o]]

\* COMMIT, and its answer: either it arrives and the objects of the deleted rows go, or
\* it is lost, the catch deletes what was uploaded and nothing deletes the rest.
Committed(q, attached, detached, marks) ==
    \/ Settle(q, detached, marks) /\ UNCHANGED <<leaked, ackLost>>
    \/ /\ "ackLost" \in Faults /\ Settle(q, attached, marks)
       /\ ackLost' = ackLost \cup attached /\ leaked' = leaked \cup detached

AnyOwner(q) == TRUE                 \* mutant of ImageIsFree: where: { id, userId } alone
\* updateMany { id, userId, profileImageFileId: null } reaches one row.
ImageIsFree(q) == person[req[q].on].image = None

RowsMayBeGone(q) == TRUE            \* mutant of ImageRowExists: deleteMany instead of delete
\* mediaFile.delete by the id read before: the row is still there.
ImageRowExists(q) == req[q].doomed \subseteq media

\* What the statements of the transaction need in order not to throw.
StatementsSucceed(q) ==
    LET me == req[q]
    IN  /\ me.op \in {"updatePerson", "addImage", "replaceImage", "deleteImage"} => me.on \in Live
        /\ me.op = "addImage" => ImageIsFree(q)
        /\ me.op \in {"replaceImage", "deleteImage"} => ImageRowExists(q)
        /\ me.op = "createSchedule" => me.people \subseteq Live /\ me.on \in Recorded \cup {None}

Commits(q, op) == req[q].pc = "commit" /\ req[q].op = op /\ StatementsSucceed(q)

\* A statement throws, or the database does: nothing is written, the uploads go.
Rollback(q) ==
    /\ req[q].pc = "commit"
    /\ ~StatementsSucceed(q) \/ "dberror" \in Faults
    /\ Abandon(q)
    /\ UNCHANGED <<rows, objects, ghosts>>

SetPerson(p, row) == person' = [person EXCEPT ![p] = row]

CommitCreatePerson(q) ==
    LET picture == req[q].keys \cap {<<q, "profile">>}
    IN  /\ Commits(q, "createPerson")
        /\ SetPerson(q, [phone |-> req[q].phone,
                         image |-> IF picture = {} THEN None ELSE <<q, "profile">>,
                         cards |-> req[q].keys \ picture])
        /\ media' = media \cup req[q].keys
        /\ Committed(q, req[q].keys, {}, {<<"phone", req[q].phone>>})
        /\ UNCHANGED <<record, schedule, objects, stray>>

\* createManyAndReturn, without a check of the number.
ImportPeople(q) ==
    /\ req[q].pc = "idle"
    /\ \E a \in Phones : /\ SetPerson(q, [phone |-> a, image |-> None, cards |-> {}])
                         /\ Settle(q, {}, {<<"phone", a>>})
    /\ UNCHANGED <<record, schedule, media, objects, ghosts>>

CommitUpdatePerson(q) ==
    LET me == req[q]
    IN  /\ Commits(q, "updatePerson")
        /\ SetPerson(me.on, [person[me.on] EXCEPT !.phone = me.phone])
        /\ Committed(q, {}, {}, {<<"phone", me.phone>>, <<"phone", person[me.on].phone>>})
        /\ UNCHANGED <<record, schedule, media, objects, stray>>

CommitAddImage(q) ==
    LET me == req[q]
    IN  /\ Commits(q, "addImage")
        /\ SetPerson(me.on, [person[me.on] EXCEPT !.image = <<q, "profile">>])
        /\ media' = media \cup me.keys
        /\ Committed(q, me.keys, {}, {})
        /\ UNCHANGED <<record, schedule, objects, stray>>

CommitReplaceImage(q) ==
    LET me == req[q]
    IN  /\ Commits(q, "replaceImage")
        /\ SetPerson(me.on, [person[me.on] EXCEPT !.image = <<q, "profile">>])
        /\ media' = (media \cup me.keys) \ me.doomed
        /\ Committed(q, me.keys, me.doomed, {})
        /\ UNCHANGED <<record, schedule, objects, stray>>

CommitDeleteImage(q) ==
    LET me == req[q]
    IN  /\ Commits(q, "deleteImage")
        /\ SetPerson(me.on, [person[me.on] EXCEPT !.image = None])
        /\ media' = media \ me.doomed
        /\ Committed(q, {}, me.doomed, {})
        /\ UNCHANGED <<record, schedule, objects, stray>>

\* The rows of the plan, then the person with every link and card (ON DELETE CASCADE).
\* Nothing compares the plan with what the rows are now.
CommitDeletePerson(q) ==
    LET me == req[q]
        p == me.on
    IN  /\ Commits(q, "deletePerson")
        /\ person' = [x \in People |->
              IF x = p \/ person[x] = None THEN None
              ELSE [person[x] EXCEPT !.image = IF @ \in me.doomed THEN None ELSE @,
                                     !.cards = @ \ me.doomed]]
        /\ record' = [r \in Records |->
              IF record[r] = None \/ r \in me.orphans THEN None
              ELSE [record[r] EXCEPT !.people = @ \ {p},
                                     !.voice = IF @ \in me.doomed THEN None ELSE @]]
        /\ schedule' = [s \in Schedules |-> IF schedule[s] = None THEN None ELSE schedule[s] \ {p}]
        /\ media' = media \ me.doomed
        /\ stray' = stray \cup ((Face(p) \cup Cards(p)) \ me.doomed)
        /\ Committed(q, {}, me.doomed,
                     {"people", "schedule"} \X (me.orphans \cup RecordsOf(p)))
        /\ UNCHANGED objects

\* The record gets the new schedule whatever it has now.
CommitCreateSchedule(q) ==
    LET me == req[q]
    IN  /\ Commits(q, "createSchedule")
        /\ schedule' = [schedule EXCEPT ![q] = me.people]
        /\ record' = [r \in Records |->
              IF r = me.on THEN [record[r] EXCEPT !.schedule = q] ELSE record[r]]
        /\ Committed(q, {}, {}, {"schedule"} \X ({me.on} \cap Records))
        /\ UNCHANGED <<person, media, objects, stray>>

-----------------------------------------------------------------------------
(* Operations whose transaction repeats their checks                       *)

OneStep(q, marks) == req[q].pc = "idle" /\ Settle(q, {}, marks)

CreateTextRecord(q) ==
    /\ \E wanted \in Linkable :
          record' = [record EXCEPT ![q] = [type |-> "TEXT", people |-> wanted,
                                           voice |-> None, schedule |-> None]]
    /\ OneStep(q, {<<"people", q>>})
    /\ UNCHANGED <<person, schedule, media, objects, ghosts>>

\* updateTextRecord and updateVoiceRecord: the people of a record of that type are
\* deleted and inserted again.
UpdateRecord(q, type) ==
    \E r \in Recorded, wanted \in Linkable :
        /\ record[r].type = type
        /\ record' = [record EXCEPT ![r].people = wanted]
        /\ OneStep(q, {<<"people", r>>})
        /\ UNCHANGED <<person, schedule, media, objects, ghosts>>
UpdateTextRecord(q) == UpdateRecord(q, "TEXT")
UpdateVoiceRecord(q) == UpdateRecord(q, "VOICE")

\* The file row of a VOICE record, the record with its links, and then the object.
DeleteRecord(q) ==
    /\ req[q].pc = "idle"
    /\ \E r \in Recorded :
        LET files == IF record[r].type = "VOICE" THEN Voice(r) ELSE {}
        IN  /\ record' = [record EXCEPT ![r] = None]
            /\ media' = media \ files
            /\ Committed(q, {}, files, {"people", "schedule"} \X {r})
    /\ UNCHANGED <<person, schedule, objects, stray>>

UpdateSchedule(q) ==
    \E s \in Scheduled, wanted \in Linkable :
        /\ schedule' = [schedule EXCEPT ![s] = wanted]
        /\ OneStep(q, {})
        /\ UNCHANGED <<person, record, media, objects, ghosts>>

NoneUnlinked(s) == {}               \* mutant of Unlinked: the records keep the link
Unlinked(s) == LinkedRecords(s)

DeleteSchedule(q) ==
    \E s \in Scheduled :
        /\ schedule' = [schedule EXCEPT ![s] = None]
        /\ record' = [r \in Records |->
              IF r \in Unlinked(s) THEN [record[r] EXCEPT !.schedule = None] ELSE record[r]]
        /\ OneStep(q, {"schedule"} \X LinkedRecords(s))
        /\ UNCHANGED <<person, media, objects, ghosts>>

-----------------------------------------------------------------------------
(* After the transaction                                                   *)

NoDeletion(q) ==                    \* mutant of Clean: the keys are forgotten
    /\ req[q].pc = "clean" /\ req' = [req EXCEPT ![q] = Ended({})]
    /\ UNCHANGED <<rows, objects, ghosts>>

\* deleteFiles and deleteUploadedFiles try every key once, whichever of them fail.
Clean(q) ==
    /\ req[q].pc = "clean"
    /\ \E failed \in SUBSET req[q].keys :
        /\ failed # {} => "s3" \in Faults
        /\ objects' = objects \ (req[q].keys \ failed)
        /\ leaked' = leaked \cup failed
    /\ req' = [req EXCEPT ![q] = Ended({})]
    /\ UNCHANGED <<rows, stray, ackLost>>

\* The process stops: what the request would still have deleted stays.
Crash(q) ==
    /\ "crash" \in Faults /\ req[q].pc \in {"upload", "commit", "clean"}
    /\ req' = [req EXCEPT ![q] = Ended({})]
    /\ leaked' = leaked \cup req[q].keys
    /\ UNCHANGED <<rows, objects, stray, ackLost>>

-----------------------------------------------------------------------------
Start(q) ==
    \/ CreatePerson(q) \/ UpdatePerson(q) \/ AddProfileImage(q) \/ ReplaceProfileImage(q)
    \/ DeleteProfileImage(q) \/ DeletePerson(q) \/ CreateSchedule(q)

Commit(q) ==
    \/ CommitCreatePerson(q) \/ CommitUpdatePerson(q) \/ CommitAddImage(q)
    \/ CommitReplaceImage(q) \/ CommitDeleteImage(q) \/ CommitDeletePerson(q)
    \/ CommitCreateSchedule(q) \/ Rollback(q)

Short(q) ==
    \/ ImportPeople(q) \/ CreateTextRecord(q) \/ UpdateTextRecord(q) \/ UpdateVoiceRecord(q)
    \/ DeleteRecord(q) \/ UpdateSchedule(q) \/ DeleteSchedule(q)

Next == \E q \in Requests : Start(q) \/ Upload(q) \/ Commit(q) \/ Short(q) \/ Clean(q) \/ Crash(q)

Spec == Init /\ [][Next]_vars

-----------------------------------------------------------------------------
(* What the reads show: the files whose signed URLs are in the answer      *)

PeopleList == UNION {Face(p) : p \in Live}
PersonDetail(p) == Face(p) \cup Cards(p)
ScheduleDetail(s) == UNION {Face(p) : p \in schedule[s]}
SchedulesList == UNION {ScheduleDetail(s) : s \in Scheduled}
TextRecordDetail(r) ==
    (UNION {Face(p) : p \in record[r].people})
        \cup (IF record[r].schedule = None THEN {} ELSE ScheduleDetail(record[r].schedule))
VoiceRecordDetail(r) == Voice(r) \cup TextRecordDetail(r)

-----------------------------------------------------------------------------
(* Properties                                                              *)

\* No answer links to a file that is gone: rows go before their objects, and objects
\* come before their rows.  Excused: the compensation after a commit that was reported
\* as an error.
NoDeadLink ==
    /\ PeopleList \cup SchedulesList \subseteq objects \cup ackLost
    /\ \A p \in Live : PersonDetail(p) \subseteq objects \cup ackLost
    /\ \A r \in Recorded : VoiceRecordDetail(r) \subseteq objects \cup ackLost

\* Every object has a row or a request that will still delete it; the rest was lost to
\* a crash, a failing S3 or the lost answer of a commit.
ObjectsAccounted ==
    objects \subseteq media \cup leaked \cup UNION {req[q].keys : q \in Requests}

\* Every media_files row belongs to somebody, however image changes and deletions of a
\* person overlap.  Excused: an image that the plan of deletePerson did not know.
MediaOwned ==
    media \subseteq (UNION {Face(p) \cup Cards(p) : p \in Live})
                        \cup (UNION {Voice(r) : r \in Recorded}) \cup stray

\* A voice record has its recording as long as it is there, whoever else of it goes.
RecordingKept == \A r \in Recorded : record[r].type = "VOICE" => Voice(r) # {} /\ Voice(r) \subseteq media

\* deletePerson deletes exactly the records nobody else is in ("deletes only orphan
\* records"), unless a record's people changed after the plan was made.
DeletesExactlyOrphans ==
    [][\A q \in Requests :
          LET me == req[q]
          IN  me.op = "deletePerson" /\ me.pc = "commit" /\ me.on \in Live /\ person'[me.on] = None
                  /\ req'[q].pc # "commit"
              => \A r \in Recorded :
                     <<"people", r>> \notin me.late
                         => (record'[r] = None <=> record[r].people = {me.on})]_vars

\* Creating or updating a person gives nobody a number another one has, unless that
\* number moved after the check (imports do not check).
PhoneTakenOnce ==
    [][\A q \in Requests :
          LET me == req[q]
          IN  me.op \in {"createPerson", "updatePerson"} /\ me.pc = "commit" /\ person' # person
                  /\ req'[q].pc # "commit" /\ <<"phone", me.phone>> \notin me.late
              => \A p, o \in People :
                     p # o /\ person'[p] # None /\ person'[o] # None
                           /\ person'[p].phone = person'[o].phone
                         => p \in Live /\ o \in Live /\ person[p].phone = person[o].phone]_vars

\* createSchedule takes no record away from the schedule it has, unless the link changed
\* after the check.
RecordKeepsItsSchedule ==
    [][\A q \in Requests :
          LET me == req[q]
          IN  me.op = "createSchedule" /\ record' # record /\ req'[q].pc # "commit"
                  /\ me.pc = "commit" /\ <<"schedule", me.on>> \notin me.late
              => \A r \in Recorded : record'[r] = record[r] \/ record[r].schedule = None]_vars
=============================================================================

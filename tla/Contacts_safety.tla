--------------------------- MODULE Contacts_safety ---------------------------
(***************************************************************************)
(* Theorems about the files of Contacts: no answer links to a missing one, *)
(* every row and every object has an owner, a voice record keeps its       *)
(* recording.  All four follow from one inductive invariant, Safe.         *)
(*                                                                         *)
(* Then theorems about its checks and plans: what a request checked or     *)
(* planned still holds in its transaction, unless another request moved    *)
(* exactly that in between (the invariant Checked).                        *)
(***************************************************************************)
EXTENDS Contacts_proofs

-----------------------------------------------------------------------------
(* Files: the invariant                                                    *)

\* A file that is named anywhere outside of its own upload belongs to a row that was
\* there from the start or to a request that is over.
Used(S) == \A x \in Requests, u \in Usages : <<x, u>> \in S => Over(x)

Names ==
    /\ \A x \in Requests : person[x] # None \/ record[x] # None => Over(x)
    /\ Used(media)

\* What the rows name is in media_files, and no two people share a picture.
Shown ==
    /\ \A p \in Live : person[p].image # None =>
          person[p].image \in media /\ person[p].image \in People \X {"profile"}
    /\ \A p \in Live : person[p].cards \subseteq media
                       /\ person[p].cards \subseteq People \X {"front", "back"}
    /\ \A r \in Recorded :
          IF record[r].type = "VOICE"
          THEN record[r].voice = <<r, "voice">> /\ <<r, "voice">> \in media
          ELSE record[r].voice = None
    /\ \A p, o \in Live : person[p].image # None /\ person[p].image = person[o].image => p = o

Owned(f) ==
    \/ \E p \in Live : person[p].image = f \/ f \in person[p].cards
    \/ \E r \in Recorded : record[r].voice = f
    \/ f \in stray
Held(f) == f \in media \/ f \in leaked \/ \E q \in Requests : f \in req[q].keys

Files ==
    /\ media \subseteq objects \cup ackLost
    /\ \A f \in media : Owned(f)
    /\ \A f \in objects : Held(f)

\* What a request carries from step to step.
Plan(q) ==
    /\ req[q].pc = "idle" => req[q].keys = {}
    /\ Busy(q) =>
          /\ req[q].todo \cup req[q].keys \subseteq {q} \X CreateFiles
          /\ req[q].keys \subseteq objects
          /\ req[q].op \in {"addImage", "replaceImage"} =>
                req[q].todo \cup req[q].keys = {<<q, "profile">>}
          /\ req[q].op \notin {"createPerson", "addImage", "replaceImage"} =>
                req[q].todo \cup req[q].keys = {}
          /\ req[q].pc = "commit" => req[q].todo = {}
          /\ Used(req[q].doomed)
          /\ req[q].op # "createPerson" /\ req[q].on \in Requests => Over(req[q].on)
          /\ \A r \in req[q].orphans : r \in Requests => Over(r)
    /\ req[q].pc = "clean" => Used(req[q].keys) /\ req[q].keys \cap media \subseteq ackLost

\* The picture read before a replacement or deletion is still that person's, or its row
\* is gone and the transaction will fail.
OldPicture(q) ==
    Busy(q) /\ req[q].op \in {"replaceImage", "deleteImage"} =>
        \E x \in People :
            /\ req[q].doomed = {<<x, "profile">>}
            /\ <<x, "profile">> \in media /\ req[q].on \in Live
                 => person[req[q].on].image = <<x, "profile">>

\* The plan of deletePerson takes a recording exactly when it takes the record.
DeletionPlan(q) ==
    Busy(q) /\ req[q].op = "deletePerson" =>
        \A r \in Records :
            /\ <<r, "voice">> \in req[q].doomed => r \in req[q].orphans
            /\ r \in req[q].orphans /\ r \in Recorded /\ record[r].voice # None
                 => record[r].voice \in req[q].doomed

Plans == \A q \in Requests : Plan(q) /\ OldPicture(q) /\ DeletionPlan(q)
Safe == Typed /\ Names /\ Shown /\ Files /\ Plans

-----------------------------------------------------------------------------
(* Steps that leave the rows alone                                         *)

Quiet(q) ==
    /\ ReqType' /\ \A o \in Requests \ {q} : req'[o] = req[o]
    /\ UNCHANGED <<person, record, schedule, media, stray, ackLost>>

LEMMA QuietOver ==
    ASSUME NEW q \in Requests, Quiet(q), Over(q) => Over(q)'
    PROVE  /\ \A x \in Requests : Over(x) => Over(x)'
           /\ \A S : Used(S) => Used(S)'
<1>1. \A x \in Requests : Over(x) => Over(x)' BY DEF Quiet, Over
<1> QED BY <1>1 DEF Used

LEMMA QuietRows ==
    ASSUME NEW q \in Requests, Quiet(q), Over(q) => Over(q)', Names, Shown
    PROVE  Names' /\ Shown'
<1>1. Live' = Live /\ Recorded' = Recorded BY DEF Quiet, Live, Recorded
<1>2. Shown' BY <1>1 DEF Quiet, Shown
<1>3. Used(media)' BY QuietOver DEF Names, Quiet, Used
<1>4. \A x \in Requests : person'[x] # None \/ record'[x] # None => Over(x)'
  BY QuietOver DEF Names, Quiet
<1> QED BY <1>2, <1>3, <1>4 DEF Names

\* The other requests' plans: only used files may leave S3.
LEMMA QuietPlans ==
    ASSUME Safe, NEW q \in Requests, Quiet(q), Over(q) => Over(q)',
           NEW gone, Used(gone), objects \ gone \subseteq objects',
           NEW o \in Requests \ {q}
    PROVE  Plan(o)' /\ OldPicture(o)' /\ DeletionPlan(o)'
<1>1. req'[o] = req[o] /\ (Busy(o)' <=> Busy(o)) BY DEF Quiet, Busy
<1>2. Live' = Live /\ Recorded' = Recorded BY DEF Quiet, Live, Recorded
<1>3. Plan(o) /\ OldPicture(o) /\ DeletionPlan(o) BY DEF Safe, Plans
<1>4. OldPicture(o)' BY <1>1, <1>2, <1>3 DEF OldPicture, Quiet
<1>5. DeletionPlan(o)' BY <1>1, <1>2, <1>3 DEF DeletionPlan, Quiet
<1>6. ASSUME Busy(o) PROVE req[o].keys \subseteq objects'
  <2>1. req[o].keys \subseteq {o} \X CreateFiles /\ req[o].keys \subseteq objects
    BY <1>3, <1>6 DEF Plan
  <2>2. \A u \in CreateFiles : <<o, u>> \notin gone BY <1>6 DEF Used, Usages, Over, Busy
  <2> QED BY <2>1, <2>2
<1>7. Used(req[o].doomed) => Used(req[o].doomed)' BY <1>1, QuietOver DEF Used
<1>8. Used(req[o].keys) => Used(req[o].keys)' BY <1>1, QuietOver DEF Used
<1>9. \A x \in Requests : Over(x) => Over(x)' BY QuietOver
<1>10. media' = media /\ ackLost' = ackLost BY DEF Quiet
<1>11. Plan(o)' BY <1>1, <1>3, <1>6, <1>7, <1>8, <1>9, <1>10 DEF Plan
<1> QED BY <1>4, <1>5, <1>11

LEMMA QuietHeld ==
    ASSUME NEW q \in Requests, Quiet(q), NEW f, Held(f),
           f \in req[q].keys => f \in req'[q].keys \/ f \in leaked', leaked \subseteq leaked'
    PROVE  Held(f)'
BY DEF Quiet, Held

LEMMA QuietOwned ==
    ASSUME NEW q \in Requests, Quiet(q), Files
    PROVE  \A f \in media' : Owned(f)'
<1>1. Live' = Live /\ Recorded' = Recorded BY DEF Quiet, Live, Recorded
<1> QED BY <1>1 DEF Quiet, Files, Owned

\* A request that ended before its transaction: its uploads are nobody's.
LEMMA EndedOver ==
    ASSUME NEW q \in Requests, NEW K \in SUBSET Media, req'[q] = Ended(K)
    PROVE  Over(q)' /\ ~Busy(q)' /\ req'[q].keys = K /\ (req'[q].pc = "clean" => K # {})
           /\ req'[q].pc # "idle"
BY EndedFields DEF Over, Busy

LEMMA EndedEmpty ==
    ASSUME NEW q \in Requests, req'[q] = Ended({})
    PROVE  Plan(q)' /\ OldPicture(q)' /\ DeletionPlan(q)'
<1>1. {} \in SUBSET Media OBVIOUS
<1>2. Over(q)' /\ ~Busy(q)' /\ req'[q].pc = "done" BY <1>1, EndedFields DEF Over, Busy
<1> QED BY <1>2 DEF Plan, OldPicture, DeletionPlan

LEMMA EndedUploads ==
    ASSUME Safe, NEW q \in Requests, Busy(q), req'[q] = Ended(req[q].keys), media' = media
    PROVE  Plan(q)' /\ OldPicture(q)' /\ DeletionPlan(q)'
<1>1. req[q].keys \in SUBSET Media BY RequestSets DEF Safe
<1>2. Over(q)' /\ ~Busy(q)' /\ req'[q].keys = req[q].keys /\ req'[q].pc # "idle"
  BY <1>1, EndedOver
<1>3. req[q].keys \subseteq {q} \X CreateFiles BY DEF Safe, Plans, Plan
<1>4. Used(req[q].keys)' BY <1>2, <1>3 DEF Used
<1>5. req[q].keys \cap media = {}
  <2>1. ~Over(q) BY DEF Over, Busy
  <2>2. \A u \in CreateFiles : <<q, u>> \notin media BY <2>1 DEF Safe, Names, Used, Usages
  <2> QED BY <1>3, <2>2
<1> QED BY <1>2, <1>4, <1>5 DEF Plan, OldPicture, DeletionPlan

-----------------------------------------------------------------------------
LEMMA SafeUpload ==
    ASSUME Safe, NEW q \in Requests, Upload(q)
    PROVE  Safe'
<1>1. ReqType BY DEF Safe, Typed, TypeOK, ReqType
<1>2. /\ req[q].pc = "upload" /\ Quiet(q)
      /\ \E f \in req[q].todo : f \in Media /\ (Stored(q, f) \/ NotStored(q, f))
  BY <1>1, UploadFacts DEF Quiet
<1>3. PICK f \in req[q].todo : f \in Media /\ (Stored(q, f) \/ NotStored(q, f)) BY <1>2
<1>4. Typed' BY UploadType DEF Safe
<1>5. ~Over(q) /\ Busy(q) BY <1>2 DEF Over, Busy
<1>6. Names' /\ Shown' BY <1>2, <1>5, QuietRows DEF Safe
<1>7. Plan(q) /\ OldPicture(q) /\ DeletionPlan(q) BY DEF Safe, Plans
<1>8. objects \subseteq objects' /\ leaked \subseteq leaked' BY <1>3 DEF Stored, NotStored
<1>9. Used({}) BY DEF Used
<1>10. \A o \in Requests \ {q} : Plan(o)' /\ OldPicture(o)' /\ DeletionPlan(o)'
  BY <1>2, <1>5, <1>8, <1>9, QuietPlans
<1>11. req[q].keys \in SUBSET Media BY RequestSets DEF Safe
<1>12. req[q].keys \subseteq req'[q].keys
  BY <1>3, <1>11, EndedFields DEF Stored, NotStored
<1>13. Files'
  <2>1. \A g \in objects' : Held(g)'
    <3> SUFFICES ASSUME NEW g \in objects' PROVE Held(g)' OBVIOUS
    <3>1. CASE g \in objects
      <4>1. Held(g) BY <3>1 DEF Safe, Files
      <4> QED BY <1>2, <1>8, <1>12, <4>1, QuietHeld
    <3>2. CASE g \notin objects
      <4>1. CASE Stored(q, f)
        <5>1. g = f /\ g \in req'[q].keys BY <3>2, <4>1 DEF Stored
        <5> QED BY <5>1 DEF Held
      <4>2. CASE NotStored(q, f)
        <5>1. g \in leaked' BY <3>2, <4>2 DEF NotStored
        <5> QED BY <5>1 DEF Held
      <4> QED BY <1>3, <4>1, <4>2
    <3> QED BY <3>1, <3>2
  <2>2. \A g \in media' : Owned(g)' BY <1>2, QuietOwned DEF Safe
  <2> QED BY <1>2, <1>8, <2>1, <2>2 DEF Files, Safe, Quiet
<1>14. CASE Stored(q, f)
  <2>1. Busy(q)' /\ ~Over(q)' BY <1>14 DEF Stored, Busy, Over
  <2>2. Used(req[q].doomed)'
    <3>1. Used(req[q].doomed) BY <1>5, <1>7 DEF Plan
    <3> QED BY <3>1, <1>2, <1>5, <1>14, QuietOver DEF Used, Stored
  <2>3. \A x \in Requests : Over(x) => Over(x)' BY <1>2, <1>5, QuietOver
  <2>4. req'[q].todo \cup req'[q].keys = req[q].todo \cup req[q].keys BY <1>3, <1>14 DEF Stored
  <2>5. req'[q].keys \subseteq objects' BY <1>5, <1>7, <1>14 DEF Stored, Plan
  <2>6. req'[q].pc = "commit" => req'[q].todo = {} BY <1>14 DEF Stored
  <2>7. Plan(q)'
    BY <1>5, <1>7, <1>14, <2>1, <2>2, <2>3, <2>4, <2>5, <2>6 DEF Plan, Stored, Busy, Over
  <2>8. Live' = Live /\ Recorded' = Recorded BY <1>2 DEF Quiet, Live, Recorded
  <2>9. OldPicture(q)' /\ DeletionPlan(q)'
    BY <1>2, <1>5, <1>7, <1>14, <2>8 DEF OldPicture, DeletionPlan, Stored, Quiet
  <2> QED BY <1>4, <1>6, <1>10, <1>13, <2>7, <2>9 DEF Safe, Plans
<1>15. CASE NotStored(q, f)
  <2>1. Plan(q)' /\ OldPicture(q)' /\ DeletionPlan(q)'
    <3>1. req'[q] = Ended(req[q].keys) BY <1>15 DEF NotStored
    <3> QED BY <1>2, <1>5, <1>11, <3>1, EndedUploads DEF Safe, Quiet
  <2> QED BY <1>4, <1>6, <1>10, <1>13, <2>1 DEF Safe, Plans
<1> QED BY <1>3, <1>14, <1>15

LEMMA SafeRollback ==
    ASSUME Safe, NEW q \in Requests, Rollback(q)
    PROVE  Safe'
<1>1. ReqType BY DEF Safe, Typed, TypeOK, ReqType
<1>2. /\ req[q].pc = "commit" /\ Quiet(q) /\ req'[q] = Ended(req[q].keys)
      /\ objects' = objects /\ leaked' = leaked
  BY <1>1, RollbackFacts DEF Quiet, Ends
<1>3. Typed' BY RollbackType DEF Safe
<1>4. ~Over(q) /\ Busy(q) BY <1>2 DEF Over, Busy
<1>5. Names' /\ Shown' BY <1>2, <1>4, QuietRows DEF Safe
<1>6. Used({}) BY DEF Used
<1>7. \A o \in Requests \ {q} : Plan(o)' /\ OldPicture(o)' /\ DeletionPlan(o)'
  BY <1>2, <1>4, <1>6, QuietPlans
<1>8. req[q].keys \in SUBSET Media BY RequestSets DEF Safe
<1>9. req'[q].keys = req[q].keys BY <1>2, <1>8, EndedFields
<1>10. Files'
  <2>1. \A g \in objects' : Held(g)' BY <1>2, <1>9, QuietHeld DEF Safe, Files
  <2>2. \A g \in media' : Owned(g)' BY <1>2, QuietOwned DEF Safe
  <2> QED BY <1>2, <2>1, <2>2 DEF Files, Safe, Quiet
<1>11. Plan(q)' /\ OldPicture(q)' /\ DeletionPlan(q)'
  BY <1>2, <1>4, <1>8, EndedUploads DEF Safe, Quiet
<1> QED BY <1>3, <1>5, <1>7, <1>10, <1>11 DEF Safe, Plans

LEMMA SafeClean ==
    ASSUME Safe, NEW q \in Requests, Clean(q)
    PROVE  Safe'
<1>1. ReqType BY DEF Safe, Typed, TypeOK, ReqType
<1>2. req[q].pc = "clean" /\ Quiet(q) /\ req'[q] = Ended({})
  BY <1>1, CleanFacts DEF Quiet, Ends
<1>3. PICK failed \in SUBSET req[q].keys :
        objects' = objects \ (req[q].keys \ failed) /\ leaked' = leaked \cup failed
  BY <1>1, CleanFacts
<1>4. Typed' BY CleanType DEF Safe
<1>5. Over(q)' BY <1>2, EndedOver
<1>6. Names' /\ Shown' BY <1>2, <1>5, QuietRows DEF Safe
<1>7. Used(req[q].keys) /\ req[q].keys \cap media \subseteq ackLost BY <1>2 DEF Safe, Plans, Plan
<1>8. objects \ req[q].keys \subseteq objects' BY <1>3
<1>9. \A o \in Requests \ {q} : Plan(o)' /\ OldPicture(o)' /\ DeletionPlan(o)'
  BY <1>2, <1>5, <1>7, <1>8, QuietPlans
<1>10. Files'
  <2>1. ASSUME NEW g \in objects' PROVE Held(g)'
    <3>1. g \in objects /\ (g \in req[q].keys => g \in leaked') BY <1>3
    <3>2. Held(g) BY <3>1 DEF Safe, Files
    <3> QED BY <1>2, <1>3, <3>1, <3>2, QuietHeld
  <2>2. \A g \in media' : Owned(g)' BY <1>2, QuietOwned DEF Safe
  <2>3. media' \subseteq objects' \cup ackLost' BY <1>2, <1>7, <1>8 DEF Files, Safe, Quiet
  <2> QED BY <2>1, <2>2, <2>3 DEF Files
<1>11. Plan(q)' /\ OldPicture(q)' /\ DeletionPlan(q)' BY <1>2, EndedEmpty
<1> QED BY <1>4, <1>6, <1>9, <1>10, <1>11 DEF Safe, Plans

LEMMA SafeCrash ==
    ASSUME Safe, NEW q \in Requests, Crash(q)
    PROVE  Safe'
<1>1. ReqType BY DEF Safe, Typed, TypeOK, ReqType
<1>2. /\ Quiet(q) /\ req'[q] = Ended({})
      /\ objects' = objects /\ leaked' = leaked \cup req[q].keys
  BY <1>1, CrashFacts DEF Quiet, Ends
<1>3. Typed' BY CrashType DEF Safe
<1>4. Over(q)' BY <1>2, EndedOver
<1>5. Names' /\ Shown' BY <1>2, <1>4, QuietRows DEF Safe
<1>6. Used({}) BY DEF Used
<1>7. \A o \in Requests \ {q} : Plan(o)' /\ OldPicture(o)' /\ DeletionPlan(o)'
  BY <1>2, <1>4, <1>6, QuietPlans
<1>8. Files'
  <2>1. \A g \in objects' : Held(g)' BY <1>2, QuietHeld DEF Safe, Files
  <2>2. \A g \in media' : Owned(g)' BY <1>2, QuietOwned DEF Safe
  <2> QED BY <1>2, <2>1, <2>2 DEF Files, Safe, Quiet
<1>9. Plan(q)' /\ OldPicture(q)' /\ DeletionPlan(q)' BY <1>2, EndedEmpty
<1> QED BY <1>3, <1>5, <1>7, <1>8, <1>9 DEF Safe, Plans

\* A request reads, and makes its plan.
LEMMA BeganPlan ==
    ASSUME Safe, NEW q \in Requests, Began(q), HasRead(q)
    PROVE  Plan(q)' /\ OldPicture(q)' /\ DeletionPlan(q)'
<1>1. Busy(q)' /\ req'[q].keys = {} /\ req'[q].pc \notin {"idle", "clean"}
  BY DEF Began, Busy
<1>2. Quiet(q) /\ ~Over(q) BY DEF Began, Quiet, Over
<1>3. \A x \in Requests : Over(x) => Over(x)' BY <1>2, QuietOver
<1>4. Live' = Live /\ Recorded' = Recorded BY DEF Began, Live, Recorded
<1>5. \A S : Used(S) => Used(S)' BY <1>2, QuietOver
<1>6. Names /\ Shown BY DEF Safe
<1>7. TypeOK BY DEF Safe, Typed
<1>8. \A p \in Live : Face(p) \subseteq media /\ Cards(p) \subseteq media
  BY <1>6 DEF Shown, Face, Cards
<1>9. \A r \in Recorded : Voice(r) \subseteq media BY <1>6 DEF Shown, Voice
<1>10. \A p \in Live : PlannedMedia(p) \subseteq media
  <2>1. \A p : Orphans(p) \subseteq Recorded BY DEF Orphans, RecordsOf
  <2> QED BY <1>8, <1>9, <2>1 DEF PlannedMedia
<1>11. req'[q].doomed \subseteq media BY <1>8, <1>10 DEF HasRead
<1>12. Used(req[q].doomed)' BY <1>3, <1>6, <1>11 DEF Names, Used
<1>13. req'[q].op # "createPerson" /\ req'[q].on \in Requests => Over(req[q].on)'
  <2>1. req'[q].op # "createPerson" =>
           req'[q].on \in Live \/ req'[q].on \in Recorded \/ req'[q].on = None
    BY DEF HasRead, RecordCanBeLinked
  <2>2. \A x \in Live \cup Recorded : x \in Requests => Over(x)' BY <1>3, <1>6 DEF Names, Live, Recorded
  <2>3. None \notin Requests BY ContactsAssumption DEF People
  <2> QED BY <2>1, <2>2, <2>3 DEF Over
<1>14. \A r \in req'[q].orphans : r \in Recorded
  BY DEF HasRead, Orphans, RecordsOf
<1>15. \A r \in req'[q].orphans : r \in Requests => Over(r)'
  BY <1>3, <1>6, <1>14 DEF Names, Recorded
<1>16. Plan(q)'
  <2>1. req'[q].todo \subseteq {q} \X CreateFiles BY DEF HasRead, CreateFiles
  <2>2. req'[q].op \in {"addImage", "replaceImage"} => req'[q].todo = {<<q, "profile">>}
    BY DEF HasRead
  <2>3. req'[q].op \notin {"createPerson", "addImage", "replaceImage"} => req'[q].todo = {}
    BY DEF HasRead
  <2>4. req'[q].pc = "commit" => req'[q].todo = {} BY DEF Began
  <2>5. req'[q].todo \cup req'[q].keys = req'[q].todo BY <1>1
  <2> QED BY <1>1, <1>12, <1>13, <1>15, <2>1, <2>2, <2>3, <2>4, <2>5 DEF Plan
<1>17. OldPicture(q)'
  <2> SUFFICES ASSUME req'[q].op \in {"replaceImage", "deleteImage"}
               PROVE  \E x \in People :
                         /\ req'[q].doomed = {<<x, "profile">>}
                         /\ <<x, "profile">> \in media' /\ req'[q].on \in Live'
                              => person'[req'[q].on].image = <<x, "profile">>
    BY DEF OldPicture
  <2> DEFINE on == req'[q].on
  <2>1. on \in Live /\ req'[q].doomed = Face(on) /\ Face(on) # {} BY DEF HasRead
  <2>2. person[on].image # None /\ Face(on) = {person[on].image} BY <2>1 DEF Face
  <2>3. person[on].image \in People \X {"profile"} BY <1>6, <2>1, <2>2 DEF Shown
  <2>4. PICK x \in People : person[on].image = <<x, "profile">> BY <2>3
  <2>5. person' = person BY DEF Began
  <2> QED BY <2>1, <2>2, <2>4, <2>5
<1>18. DeletionPlan(q)'
  <2> SUFFICES ASSUME req'[q].op = "deletePerson", NEW r \in Records
               PROVE  /\ <<r, "voice">> \in req'[q].doomed => r \in req'[q].orphans
                      /\ r \in req'[q].orphans /\ r \in Recorded' /\ record'[r].voice # None
                            => record'[r].voice \in req'[q].doomed
    BY DEF DeletionPlan
  <2> DEFINE on == req'[q].on
  <2>1. /\ on \in Live /\ req'[q].doomed = PlannedMedia(on) /\ req'[q].orphans = Orphans(on)
    BY DEF HasRead
  <2> HIDE DEF on
  <2>2. Face(on) \subseteq People \X {"profile"} /\ Cards(on) \subseteq People \X {"front", "back"}
    BY <1>6, <2>1 DEF Shown, Face, Cards
  <2>3. <<r, "voice">> \notin Face(on) /\ <<r, "voice">> \notin Cards(on) BY <2>2
  <2>4. \A x \in Recorded : Voice(x) \subseteq {<<x, "voice">>} BY <1>6 DEF Shown, Voice
  <2>5. ASSUME <<r, "voice">> \in PlannedMedia(on) PROVE r \in Orphans(on)
    <3>1. PICK x \in Orphans(on) : <<r, "voice">> \in Voice(x) BY <2>3, <2>5 DEF PlannedMedia
    <3>2. x \in Recorded BY DEF Orphans, RecordsOf
    <3>3. <<r, "voice">> = <<x, "voice">> BY <2>4, <3>1, <3>2
    <3> QED BY <3>3
  <2>6. ASSUME r \in Orphans(on), r \in Recorded, record[r].voice # None
        PROVE  record[r].voice \in PlannedMedia(on)
    BY <2>6 DEF PlannedMedia, Voice
  <2>7. record' = record BY DEF Began
  <2> QED BY <1>4, <2>1, <2>5, <2>6, <2>7
<1> QED BY <1>16, <1>17, <1>18

LEMMA SafeStart ==
    ASSUME Safe, NEW q \in Requests, Start(q)
    PROVE  Safe'
<1>1. Began(q) /\ HasRead(q) BY StartFacts DEF Safe, Typed
<1>2. Quiet(q) /\ ~Over(q) /\ objects' = objects /\ leaked' = leaked /\ req[q].pc = "idle"
  BY <1>1 DEF Began, Quiet, Over
<1>3. Typed' BY <1>1, BeganType DEF Safe
<1>4. Names' /\ Shown' BY <1>2, QuietRows DEF Safe
<1>5. Used({}) BY DEF Used
<1>6. \A o \in Requests \ {q} : Plan(o)' /\ OldPicture(o)' /\ DeletionPlan(o)'
  BY <1>2, <1>5, QuietPlans
<1>7. req[q].keys = {} BY <1>2 DEF Safe, Plans, Plan
<1>8. Files'
  <2>1. \A g \in objects' : Held(g)' BY <1>2, <1>7, QuietHeld DEF Safe, Files
  <2>2. \A g \in media' : Owned(g)' BY <1>2, QuietOwned DEF Safe
  <2> QED BY <1>2, <2>1, <2>2 DEF Files, Safe, Quiet
<1> QED BY <1>1, <1>3, <1>4, <1>6, <1>8, BeganPlan DEF Safe, Plans

-----------------------------------------------------------------------------
(* Steps that write rows                                                   *)

\* What a transaction that attaches the uploads `a` and detaches the files `d` leaves to
\* the plans of the others.
Writes(q, a, d) ==
    /\ ~Over(q)
    /\ a \subseteq {q} \X CreateFiles /\ a \subseteq objects /\ Used(d)
    /\ media' = (media \cup a) \ d /\ req[q].keys \subseteq media'
    /\ Live' \subseteq Live \cup {q} /\ Recorded' \subseteq Recorded \cup {q}
    /\ \A p \in Live' : p = q \/ /\ p \in Live
                                 /\ \/ person[p].image = None \/ person[p].image \notin media'
                                    \/ person'[p].image = person[p].image
    /\ \A r \in Recorded' : r = q \/ (r \in Recorded /\ record'[r].voice \in {record[r].voice, None})

LEMMA WroteOver ==
    ASSUME NEW q \in Requests, NEW M, NEW a \in SUBSET Media, NEW d \in SUBSET Media,
           Wrote(q, M, a, d)
    PROVE  /\ Over(q)' /\ ~Busy(q)' /\ req'[q].pc # "idle"
           /\ \/ req'[q].keys = d /\ leaked' = leaked /\ ackLost' = ackLost
              \/ req'[q].keys = a /\ leaked' = leaked \cup d /\ ackLost' = ackLost \cup a
           /\ \A o \in Requests \ {q} : Marked(o, M) /\ (Busy(o)' <=> Busy(o))
           /\ \A x \in Requests : Over(x) => Over(x)'
<1>1. Over(q)' /\ ~Busy(q)' /\ req'[q].pc # "idle" BY EndedOver DEF Wrote, Outcome
<1>2. \/ req'[q].keys = d /\ leaked' = leaked /\ ackLost' = ackLost
      \/ req'[q].keys = a /\ leaked' = leaked \cup d /\ ackLost' = ackLost \cup a
  BY EndedFields DEF Wrote, Outcome
<1>3. \A o \in Requests \ {q} : Marked(o, M) BY DEF Wrote
<1>4. \A o \in Requests \ {q} : Busy(o)' <=> Busy(o) BY <1>3 DEF Marked, Busy
<1>5. \A x \in Requests : Over(x) => Over(x)' BY <1>1, <1>3 DEF Marked, Over
<1> QED BY <1>1, <1>2, <1>3, <1>4, <1>5

LEMMA WrotePlan ==
    ASSUME Safe, NEW q \in Requests, NEW M, NEW a \in SUBSET Media, NEW d \in SUBSET Media,
           Wrote(q, M, a, d), Writes(q, a, d), NEW o \in Requests
    PROVE  Plan(o)'
<1>1. \A S : Used(S) => \A x \in Requests, u \in Usages : <<x, u>> \in S => Over(x)'
  BY WroteOver DEF Used
<1>2. media' \subseteq media \cup a /\ d \cap media' = {} BY DEF Writes
<1>5. Over(q)' /\ ~Busy(q)' /\ req'[q].pc # "idle" BY WroteOver
<1>6. \/ req'[q].keys = d /\ leaked' = leaked /\ ackLost' = ackLost
      \/ req'[q].keys = a /\ leaked' = leaked \cup d /\ ackLost' = ackLost \cup a
  BY WroteOver
<1>3. CASE o = q
  <2>1. CASE req'[q].keys = d
    <3>1. Used(req[q].keys)' BY <1>1, <2>1 DEF Writes, Used
    <3> QED BY <1>2, <1>3, <1>5, <2>1, <3>1 DEF Plan
  <2>2. CASE req'[q].keys = a /\ ackLost' = ackLost \cup a
    <3>1. Used(req[q].keys)' BY <1>5, <2>2 DEF Writes, Used
    <3> QED BY <1>3, <1>5, <2>2, <3>1 DEF Plan
  <2> QED BY <1>6, <2>1, <2>2
<1>4. CASE o # q
  <2>1. Marked(o, M) /\ (Busy(o)' <=> Busy(o)) BY <1>4, WroteOver
  <2>2. Plan(o) BY DEF Safe, Plans
  <2>3. ackLost \subseteq ackLost' BY WroteOver
  <2>4. Used(req[o].doomed) => Used(req[o].doomed)' BY <1>1, <2>1 DEF Marked, Used
  <2>5. Used(req[o].keys) => Used(req[o].keys)' BY <1>1, <2>1 DEF Marked, Used
  <2>6. Used(req[o].keys) => req[o].keys \cap a = {} BY DEF Used, Writes, Usages
  <2>7. objects' = objects BY DEF Wrote
  <2>8. \A x \in Requests : Over(x) => Over(x)' BY WroteOver
  <2>9. req'[o].on \in Requests /\ Over(req[o].on) => Over(req[o].on)'
    <3>1. req'[o].on = req[o].on BY <2>1 DEF Marked
    <3> QED BY <2>8, <3>1 DEF Over
  <2>10. /\ req'[o].pc = req[o].pc /\ req'[o].op = req[o].op /\ req'[o].on = req[o].on
         /\ req'[o].todo = req[o].todo /\ req'[o].keys = req[o].keys
         /\ req'[o].doomed = req[o].doomed /\ req'[o].orphans = req[o].orphans
    BY <2>1 DEF Marked
  <2>11. req'[o].pc = "clean" => Used(req[o].keys)' /\ req'[o].keys \cap media' \subseteq ackLost'
    BY <1>2, <2>2, <2>3, <2>5, <2>6, <2>10 DEF Plan
  <2>12. Busy(o)' => Used(req[o].doomed)' /\ \A r \in req'[o].orphans : r \in Requests => Over(r)'
    BY <2>1, <2>2, <2>4, <2>8, <2>10 DEF Plan
  <2>13. Busy(o)' => (req'[o].op # "createPerson" /\ req'[o].on \in Requests => Over(req[o].on)')
    BY <2>1, <2>2, <2>9, <2>10 DEF Plan
  <2> QED BY <2>1, <2>2, <2>7, <2>10, <2>11, <2>12, <2>13 DEF Plan
<1> QED BY <1>3, <1>4

LEMMA WroteOldPicture ==
    ASSUME Safe, NEW q \in Requests, NEW M, NEW a \in SUBSET Media, NEW d \in SUBSET Media,
           Wrote(q, M, a, d), Writes(q, a, d), NEW o \in Requests
    PROVE  OldPicture(o)'
<1>1. CASE o = q BY <1>1, WroteOver DEF OldPicture
<1>2. CASE o # q
  <2> SUFFICES ASSUME Busy(o)', req'[o].op \in {"replaceImage", "deleteImage"}
               PROVE  \E x \in People :
                         /\ req'[o].doomed = {<<x, "profile">>}
                         /\ <<x, "profile">> \in media' /\ req'[o].on \in Live'
                              => person'[req'[o].on].image = <<x, "profile">>
    BY DEF OldPicture
  <2>1. Busy(o) /\ Marked(o, M) BY <1>2, WroteOver
  <2>2. /\ req'[o].op = req[o].op /\ req'[o].on = req[o].on /\ req'[o].doomed = req[o].doomed
    BY <2>1 DEF Marked
  <2>3. Plan(o) /\ OldPicture(o) BY DEF Safe, Plans
  <2>4. PICK x \in People :
          /\ req[o].doomed = {<<x, "profile">>}
          /\ <<x, "profile">> \in media /\ req[o].on \in Live
               => person[req[o].on].image = <<x, "profile">>
    BY <2>1, <2>2, <2>3 DEF OldPicture
  <2>5. ASSUME <<x, "profile">> \in media', req[o].on \in Live'
        PROVE  person'[req[o].on].image = <<x, "profile">>
    <3>1. Used(req[o].doomed) /\ (req[o].on \in Requests => Over(req[o].on))
      BY <2>1, <2>2, <2>3 DEF Plan
    <3>2. <<x, "profile">> \notin a BY <2>4, <3>1 DEF Used, Writes, Usages, CreateFiles
    <3>3. <<x, "profile">> \in media BY <2>5, <3>2 DEF Writes
    <3>4. req[o].on # q BY <3>1 DEF Writes
    <3>5. /\ req[o].on \in Live
          /\ \/ person[req[o].on].image = None \/ person[req[o].on].image \notin media'
             \/ person'[req[o].on].image = person[req[o].on].image
      BY <2>5, <3>4 DEF Writes
    <3>6. person[req[o].on].image = <<x, "profile">> BY <2>4, <3>3, <3>5
    <3>7. <<x, "profile">> # None BY ContactsAssumption DEF Media, Usages, CreateFiles
    <3> QED BY <2>5, <3>5, <3>6, <3>7
  <2> QED BY <2>2, <2>4, <2>5
<1> QED BY <1>1, <1>2

LEMMA WroteDeletionPlan ==
    ASSUME Safe, NEW q \in Requests, NEW M, NEW a \in SUBSET Media, NEW d \in SUBSET Media,
           Wrote(q, M, a, d), Writes(q, a, d), NEW o \in Requests
    PROVE  DeletionPlan(o)'
<1>1. CASE o = q BY <1>1, WroteOver DEF DeletionPlan
<1>2. CASE o # q
  <2> SUFFICES ASSUME Busy(o)', req'[o].op = "deletePerson", NEW r \in Records
               PROVE  /\ <<r, "voice">> \in req'[o].doomed => r \in req'[o].orphans
                      /\ r \in req'[o].orphans /\ r \in Recorded' /\ record'[r].voice # None
                            => record'[r].voice \in req'[o].doomed
    BY DEF DeletionPlan
  <2>1. Busy(o) /\ Marked(o, M) BY <1>2, WroteOver
  <2>2. /\ req'[o].op = req[o].op /\ req'[o].doomed = req[o].doomed /\ req'[o].orphans = req[o].orphans
    BY <2>1 DEF Marked
  <2>3. Plan(o) /\ DeletionPlan(o) BY DEF Safe, Plans
  <2>4. /\ <<r, "voice">> \in req[o].doomed => r \in req[o].orphans
        /\ r \in req[o].orphans /\ r \in Recorded /\ record[r].voice # None
              => record[r].voice \in req[o].doomed
    BY <2>1, <2>2, <2>3 DEF DeletionPlan
  <2>5. r \in req[o].orphans => r # q BY <2>1, <2>3 DEF Plan, Writes
  <2>6. r \in Recorded' /\ r # q => r \in Recorded /\ record'[r].voice \in {record[r].voice, None}
    BY DEF Writes
  <2> QED BY <2>2, <2>4, <2>5, <2>6
<1> QED BY <1>1, <1>2

LEMMA WroteSafe ==
    ASSUME Safe, NEW q \in Requests, NEW M, NEW a \in SUBSET Media, NEW d \in SUBSET Media,
           Wrote(q, M, a, d), Writes(q, a, d), Typed', Shown', \A f \in media' : Owned(f)'
    PROVE  Safe'
<1>1. Plans' BY WrotePlan, WroteOldPicture, WroteDeletionPlan DEF Plans
<1>2. Names'
  <2>1. \A x \in Requests : person'[x] # None \/ record'[x] # None => Over(x)'
    <3> SUFFICES ASSUME NEW x \in Requests, person'[x] # None \/ record'[x] # None PROVE Over(x)'
      OBVIOUS
    <3>1. x \in People /\ x \in Records BY DEF People, Records
    <3>2. x = q \/ x \in Live \/ x \in Recorded BY <3>1 DEF Live, Recorded, Writes
    <3>3. x # q => Over(x) BY <3>2 DEF Safe, Names, Live, Recorded
    <3> QED BY <3>3, WroteOver
  <2>2. Used(media)'
    <3> SUFFICES ASSUME NEW x \in Requests, NEW u \in Usages, <<x, u>> \in media' PROVE Over(x)'
      BY DEF Used
    <3>1. <<x, u>> \in media \/ <<x, u>> \in a BY DEF Writes
    <3>2. x = q \/ Over(x) BY <3>1 DEF Writes, Safe, Names, Used
    <3> QED BY <3>2, WroteOver
  <2> QED BY <2>1, <2>2 DEF Names
<1>3. media' \subseteq objects' \cup ackLost'
  <2>1. ackLost \subseteq ackLost' /\ objects' = objects BY WroteOver DEF Wrote
  <2> QED BY <2>1 DEF Safe, Files, Writes
<1>5. \/ req'[q].keys = d /\ leaked' = leaked /\ ackLost' = ackLost
      \/ req'[q].keys = a /\ leaked' = leaked \cup d /\ ackLost' = ackLost \cup a
  BY WroteOver
<1>4. ASSUME NEW f \in objects' PROVE Held(f)'
  <2>1. f \in objects /\ Held(f) BY <1>4 DEF Wrote, Safe, Files
  <2>2. leaked \subseteq leaked' BY WroteOver
  <2>3. CASE f \in media'  BY <2>3 DEF Held
  <2>4. CASE f \in d
    <3>1. f \in leaked' \/ f \in req'[q].keys BY <1>5, <2>4
    <3> QED BY <3>1 DEF Held
  <2>5. CASE f \in leaked BY <2>2, <2>5 DEF Held
  <2>6. CASE \E o \in Requests : f \in req[o].keys
    <3>1. PICK o \in Requests : f \in req[o].keys BY <2>6
    <3>2. CASE o = q
      <4>1. f \in media' BY <3>1, <3>2 DEF Writes
      <4> QED BY <4>1 DEF Held
    <3>3. CASE o # q
      <4>1. f \in req'[o].keys BY <3>1, <3>3, WroteOver DEF Marked
      <4> QED BY <4>1 DEF Held
    <3> QED BY <3>2, <3>3
  <2>7. f \in media => f \in media' \/ f \in d BY DEF Writes
  <2> QED BY <2>1, <2>3, <2>4, <2>5, <2>6, <2>7 DEF Held
<1> QED BY <1>1, <1>2, <1>3, <1>4 DEF Safe, Files

LEMMA Ready ==
    ASSUME Safe, NEW q \in Requests, req[q].pc \in {"idle", "commit"}
    PROVE  /\ ~Over(q) /\ person[q] = None /\ record[q] = None
           /\ req[q].keys \in SUBSET Media
           /\ req[q].keys \subseteq {q} \X CreateFiles /\ req[q].keys \subseteq objects
           /\ \A u \in Usages : <<q, u>> \notin media
           /\ q \in People /\ q \in Records
           /\ \/ req[q].pc = "idle" /\ req[q].keys = {}
              \/ req[q].pc = "commit" /\ Busy(q) /\ Plan(q) /\ OldPicture(q) /\ DeletionPlan(q)
<1>1. ~Over(q) BY DEF Over
<1>2. Plan(q) /\ OldPicture(q) /\ DeletionPlan(q) /\ Names BY DEF Safe, Plans
<1>3. req[q].keys \in SUBSET Media BY RequestSets DEF Safe
<1>4. \/ req[q].pc = "idle" /\ req[q].keys = {}
      \/ req[q].pc = "commit" /\ Busy(q) /\ Plan(q) /\ OldPicture(q) /\ DeletionPlan(q)
  BY <1>2 DEF Plan, Busy
<1>5. req[q].keys \subseteq {q} \X CreateFiles /\ req[q].keys \subseteq objects
  BY <1>4 DEF Plan
<1>6. q \in People /\ q \in Records BY DEF People, Records
<1> QED BY <1>1, <1>2, <1>3, <1>4, <1>5, <1>6 DEF Names, Used

\* One row of people is written: p's picture may give way to an upload or to nothing.
LEMMA PersonStep ==
    ASSUME Safe, NEW q \in Requests, NEW M, NEW d \in SUBSET Media,
           Wrote(q, M, req[q].keys, d), req[q].pc \in {"idle", "commit"}, Used(d),
           RowsTyped', Typed', NEW p \in People, NEW row \in PersonRows,
           person' = [person EXCEPT ![p] = row], UNCHANGED <<record, schedule, stray>>,
           media' = (media \cup req[q].keys) \ d,
           p = q \/ p \in Live,
           p \in Live => row.cards = person[p].cards,
           p \in Live => person[p].image \in d \cup {None} \/ row.image = person[p].image,
           \A f \in d : p \in Live /\ person[p].image = f,
           row.image # None => \/ row.image = <<q, "profile">> /\ <<q, "profile">> \in req[q].keys
                               \/ p \in Live /\ row.image = person[p].image /\ d = {},
           p \notin Live => row.cards \subseteq req[q].keys /\ row.cards \subseteq People \X {"front", "back"},
           req[q].keys \subseteq row.cards \cup {row.image}
    PROVE  Safe'
<1> DEFINE a == req[q].keys
<1>1. /\ ~Over(q) /\ a \in SUBSET Media /\ a \subseteq {q} \X CreateFiles /\ a \subseteq objects
      /\ q \in People /\ person[q] = None
      /\ \A u \in Usages : <<q, u>> \notin media
  BY Ready
<1>2. RowsTyped /\ Shown /\ Files /\ Names BY RowsOfType DEF Safe, Typed
<1>3. media' \subseteq Media BY DEF RowsTyped
<1>4. Live' = Live \cup {p} /\ person'[p] = row /\ \A x \in People \ {p} : person'[x] = person[x]
  BY <1>2, <1>3, PersonWritten
<1>5. Recorded' = Recorded BY DEF Recorded
<1>6. \A x \in Live : x \in People BY DEF Live
<1>7. \A f \in a : f \notin media BY <1>1 DEF Usages
<1>8. a \cap d = {}
  <2>1. \A f \in d : f # None BY ContactsAssumption
  <2>2. \A f \in d : f \in media BY <1>2, <2>1 DEF Shown
  <2> QED BY <1>7, <2>2
<1>9. media' = (media \ d) \cup a BY <1>8
<1> HIDE DEF a
<1>10. \A f \in d : f # None BY ContactsAssumption
<1>11. \A x \in Live : x # p /\ person[x].image # None => person[x].image \notin d
  BY <1>2 DEF Shown
<1>12. \A x \in Live : x # p => x \in Live' /\ person'[x] = person[x] BY <1>4, <1>6
<1>13. \A f \in d : f \in People \X {"profile"} BY <1>2, <1>10 DEF Shown
<1>14. Shown'
  <2>1. ASSUME NEW x \in Live', person'[x].image # None
        PROVE  person'[x].image \in media' /\ person'[x].image \in People \X {"profile"}
    <3>1. CASE x # p BY <1>2, <1>4, <1>9, <1>11, <1>12, <2>1, <3>1 DEF Shown
    <3>2. CASE x = p
      <4>1. row.image # None BY <1>4, <2>1, <3>2
      <4>2. CASE row.image = <<q, "profile">> /\ <<q, "profile">> \in a
        BY <1>1, <1>4, <1>9, <3>2, <4>2
      <4>3. CASE p \in Live /\ row.image = person[p].image /\ d = {}
        BY <1>2, <1>4, <1>9, <3>2, <4>1, <4>3 DEF Shown
      <4> QED BY <4>1, <4>2, <4>3 DEF a
    <3> QED BY <3>1, <3>2
  <2>2. ASSUME NEW x \in Live'
        PROVE  person'[x].cards \subseteq media' /\ person'[x].cards \subseteq People \X {"front", "back"}
    <3>1. CASE x \in Live
      <4>1. person'[x].cards = person[x].cards
        <5>1. CASE x = p BY <1>4, <3>1, <5>1
        <5>2. CASE x # p BY <1>12, <3>1, <5>2
        <5> QED BY <5>1, <5>2
      <4>2. person[x].cards \subseteq media /\ person[x].cards \subseteq People \X {"front", "back"}
        BY <1>2, <3>1 DEF Shown
      <4>3. \A f \in person[x].cards : f \notin d BY <1>13, <4>2
      <4> QED BY <1>9, <4>1, <4>2, <4>3
    <3>2. CASE x \notin Live
      <4>1. x = p BY <1>4, <3>2
      <4> QED BY <1>4, <1>9, <3>2, <4>1 DEF a
    <3> QED BY <3>1, <3>2
  <2>3. ASSUME NEW r \in Recorded'
        PROVE  IF record'[r].type = "VOICE"
               THEN record'[r].voice = <<r, "voice">> /\ <<r, "voice">> \in media'
               ELSE record'[r].voice = None
    <3>1. <<r, "voice">> \notin d BY <1>13
    <3> QED BY <1>2, <1>5, <1>9, <3>1 DEF Shown
  <2>4. ASSUME NEW x \in Live', NEW y \in Live', person'[x].image # None, person'[x].image = person'[y].image
        PROVE  x = y
    <3>1. ASSUME NEW z \in Live, z # p, row.image # None PROVE person[z].image # row.image
      <4>1. CASE row.image = <<q, "profile">> /\ <<q, "profile">> \in a
        <5>1. <<q, "profile">> \notin media BY <1>7, <4>1
        <5> QED BY <1>2, <3>1, <4>1, <5>1 DEF Shown
      <4>2. CASE p \in Live /\ row.image = person[p].image /\ d = {}
        BY <1>2, <3>1, <4>2 DEF Shown
      <4> QED BY <3>1, <4>1, <4>2 DEF a
    <3>2. CASE x = p \/ y = p BY <1>4, <1>12, <2>4, <3>1, <3>2
    <3>3. CASE x # p /\ y # p BY <1>2, <1>4, <1>12, <2>4, <3>3 DEF Shown
    <3> QED BY <3>2, <3>3
  <2> QED BY <2>1, <2>2, <2>3, <2>4 DEF Shown
<1>15. ASSUME NEW f \in media' PROVE Owned(f)'
  <2>1. p \in Live' BY <1>4
  <2>2. CASE f \in a
    <3>1. f = row.image \/ f \in row.cards BY <2>2 DEF a
    <3> QED BY <1>4, <2>1, <3>1 DEF Owned
  <2>3. CASE f \in media /\ f \notin d
    <3>1. Owned(f) /\ f # None BY <1>2, <2>3, ContactsAssumption DEF Files, RowsTyped
    <3>2. CASE \E x \in Live : person[x].image = f \/ f \in person[x].cards
      <4>1. PICK x \in Live : person[x].image = f \/ f \in person[x].cards BY <3>2
      <4>2. x \in Live' /\ (person'[x].image = f \/ f \in person'[x].cards)
        <5>1. CASE x = p
          <6>1. row.cards = person[p].cards /\ (person[p].image \in d \cup {None} \/ row.image = person[p].image)
            BY <4>1, <5>1
          <6> QED BY <1>4, <2>3, <3>1, <4>1, <5>1, <6>1
        <5>2. CASE x # p BY <1>12, <4>1, <5>2
        <5> QED BY <5>1, <5>2
      <4> QED BY <4>2 DEF Owned
    <3>3. CASE (\E r \in Recorded : record[r].voice = f) \/ f \in stray
      BY <1>5, <3>3 DEF Owned
    <3> QED BY <3>1, <3>2, <3>3 DEF Owned
  <2> QED BY <1>9, <2>2, <2>3
<1>16. Writes(q, a, d)
  <2>1. ASSUME NEW x \in Live'
        PROVE  x = q \/ /\ x \in Live
                        /\ \/ person[x].image = None \/ person[x].image \notin media'
                           \/ person'[x].image = person[x].image
    <3>1. CASE x = q BY <3>1
    <3>2. CASE x # p /\ x # q
      <4>1. x \in Live BY <1>4, <3>2
      <4> QED BY <1>12, <3>2, <4>1
    <3>3. CASE x = p /\ x # q
      <4>1. p \in Live BY <3>3
      <4>2. person[p].image \in d \cup {None} \/ row.image = person[p].image BY <4>1
      <4>3. d \cap media' = {} BY <1>8, <1>9
      <4> QED BY <1>4, <3>3, <4>1, <4>2, <4>3
    <3> QED BY <3>1, <3>2, <3>3
  <2>2. Live' \subseteq Live \cup {q} BY <1>4
  <2>3. a \subseteq media' BY <1>9
  <2>4. \A r \in Recorded' : r = q \/ (r \in Recorded /\ record'[r].voice \in {record[r].voice, None})
    BY <1>5
  <2> QED BY <1>1, <1>5, <2>1, <2>2, <2>3, <2>4 DEF Writes, a
<1>17. Wrote(q, M, a, d) BY DEF a
<1> QED BY <1>1, <1>14, <1>15, <1>16, <1>17, WroteSafe

\* Records are written, and nothing of people; `d` are the recordings that go.
LEMMA RecordStep ==
    ASSUME Safe, NEW q \in Requests, NEW M, NEW d \in SUBSET Media,
           Wrote(q, M, {}, d), req[q].pc \in {"idle", "commit"}, req[q].keys = {},
           Typed', UNCHANGED <<person, stray>>, media' = media \ d,
           d \subseteq Records \X {"voice"}, d \subseteq media,
           \A r \in Recorded' :
              \/ r = q /\ record'[r].type = "TEXT" /\ record'[r].voice = None
              \/ /\ r \in Recorded /\ <<r, "voice">> \notin d
                 /\ record'[r].type = record[r].type /\ record'[r].voice = record[r].voice,
           \A r \in Recorded : r \in Recorded' \/ record[r].voice \in d \cup {None}
    PROVE  Safe'
<1>1. ~Over(q) /\ record[q] = None BY Ready
<1>2. Shown /\ Files /\ Names /\ Live' = Live BY DEF Safe, Live
<1>3. q \notin Recorded BY <1>1 DEF Recorded
<1>4. \A r \in Recorded : r \in Recorded' => record'[r].type = record[r].type /\ record'[r].voice = record[r].voice
  BY <1>3
<1>5. \A x \in People : <<x, "profile">> \notin d /\ <<x, "front">> \notin d /\ <<x, "back">> \notin d
  OBVIOUS
<1>6. Shown'
  <2>1. \A p \in Live : person[p].image # None =>
           person[p].image \in media' /\ person[p].image \in People \X {"profile"}
    BY <1>2, <1>5 DEF Shown
  <2>2. \A p \in Live : person[p].cards \subseteq media' /\ person[p].cards \subseteq People \X {"front", "back"}
    BY <1>2, <1>5 DEF Shown
  <2>3. ASSUME NEW r \in Recorded'
        PROVE  IF record'[r].type = "VOICE"
               THEN record'[r].voice = <<r, "voice">> /\ <<r, "voice">> \in media'
               ELSE record'[r].voice = None
    BY <1>2, <2>3 DEF Shown
  <2> QED BY <1>2, <2>1, <2>2, <2>3 DEF Shown
<1>7. ASSUME NEW f \in media' PROVE Owned(f)'
  <2>1. f \in media /\ f \notin d /\ f \in Media BY DEF Safe, Typed, TypeOK
  <2>2. Owned(f) /\ f # None BY <1>2, <2>1, ContactsAssumption DEF Files
  <2>3. CASE \E r \in Recorded : record[r].voice = f
    <3>1. PICK r \in Recorded : record[r].voice = f BY <2>3
    <3>2. r \in Recorded' /\ record'[r].voice = f BY <1>4, <2>1, <2>2, <3>1
    <3> QED BY <3>2 DEF Owned
  <2>4. CASE (\E p \in Live : person[p].image = f \/ f \in person[p].cards) \/ f \in stray
    BY <1>2, <2>4 DEF Owned
  <2> QED BY <2>2, <2>3, <2>4 DEF Owned
<1>8. Used(d) BY <1>2 DEF Names, Used
<1>9. Writes(q, {}, d) BY <1>1, <1>2, <1>8 DEF Writes
<1>10. {} \in SUBSET Media OBVIOUS
<1> QED BY <1>6, <1>7, <1>9, <1>10, WroteSafe

-----------------------------------------------------------------------------
(* The operations                                                          *)

LEMMA NothingUsed == Used({}) /\ {} \in SUBSET Media
BY DEF Used

\* The common cases in which no file loses its row.
LEMMA PersonStepKept ==
    ASSUME Safe, NEW q \in Requests, NEW M,
           Wrote(q, M, req[q].keys, {}), req[q].pc \in {"idle", "commit"},
           RowsTyped', Typed', NEW p \in People, NEW row \in PersonRows,
           person' = [person EXCEPT ![p] = row], UNCHANGED <<record, schedule, stray>>,
           media' = media \cup req[q].keys,
           p = q \/ p \in Live,
           p \in Live => row.cards = person[p].cards,
           p \in Live => person[p].image = None \/ row.image = person[p].image,
           row.image # None => \/ row.image = <<q, "profile">> /\ <<q, "profile">> \in req[q].keys
                               \/ p \in Live /\ row.image = person[p].image,
           p \notin Live => row.cards \subseteq req[q].keys /\ row.cards \subseteq People \X {"front", "back"},
           req[q].keys \subseteq row.cards \cup {row.image}
    PROVE  Safe'
<1> DEFINE d == {}
<1>1. /\ d \in SUBSET Media /\ Wrote(q, M, req[q].keys, d) /\ Used(d)
      /\ media' = (media \cup req[q].keys) \ d /\ \A f \in d : p \in Live /\ person[p].image = f
      /\ d = {}
  BY DEF Used
<1> HIDE DEF d
<1>2. p \in Live => person[p].image \in d \cup {None} \/ row.image = person[p].image OBVIOUS
<1>3. row.image # None => \/ row.image = <<q, "profile">> /\ <<q, "profile">> \in req[q].keys
                          \/ p \in Live /\ row.image = person[p].image /\ d = {}
  BY <1>1
<1> QED BY <1>1, <1>2, <1>3, PersonStep

RecordsKept(q) ==
    /\ Recorded \subseteq Recorded'
    /\ \A r \in Recorded' :
          \/ r = q /\ record'[r].type = "TEXT" /\ record'[r].voice = None
          \/ /\ r \in Recorded
             /\ record'[r].type = record[r].type /\ record'[r].voice = record[r].voice

LEMMA RecordStepKept ==
    ASSUME Safe, NEW q \in Requests, NEW M, Wrote(q, M, {}, {}),
           req[q].pc = "idle" \/ (req[q].pc = "commit" /\ req[q].op = "createSchedule"),
           Typed', UNCHANGED <<person, media, stray>>, RecordsKept(q)
    PROVE  Safe'
<1> DEFINE d == {}
<1>1. /\ d \in SUBSET Media /\ Wrote(q, M, {}, d) /\ media' = media \ d
      /\ d \subseteq Records \X {"voice"} /\ d \subseteq media /\ \A r : <<r, "voice">> \notin d
  OBVIOUS
<1> HIDE DEF d
<1>2. req[q].keys = {}
  <2>1. Plan(q) BY DEF Safe, Plans
  <2> QED BY <2>1 DEF Plan, Busy
<1>3. \A r \in Recorded' :
         \/ r = q /\ record'[r].type = "TEXT" /\ record'[r].voice = None
         \/ /\ r \in Recorded /\ <<r, "voice">> \notin d
            /\ record'[r].type = record[r].type /\ record'[r].voice = record[r].voice
  BY <1>1 DEF RecordsKept
<1>4. \A r \in Recorded : r \in Recorded' \/ record[r].voice \in d \cup {None} BY DEF RecordsKept
<1>5. req[q].pc \in {"idle", "commit"} OBVIOUS
<1> QED BY <1>1, <1>2, <1>3, <1>4, <1>5, RecordStep

LEMMA SafeCreatePerson ==
    ASSUME Safe, NEW q \in Requests, CommitCreatePerson(q)
    PROVE  Safe'
<1>1. /\ req[q].pc = "commit" /\ req[q].keys \in SUBSET Media
      /\ Wrote(q, {<<"phone", req[q].phone>>}, req[q].keys, {})
      /\ CreatedRow(q) \in PersonRows /\ person' = [person EXCEPT ![q] = CreatedRow(q)]
      /\ media' = media \cup req[q].keys /\ UNCHANGED <<record, schedule, stray>>
      /\ RowsTyped' /\ Typed'
  BY CreatePersonFacts DEF Safe
<1>2. q \in People /\ person[q] = None /\ req[q].keys \subseteq {q} \X CreateFiles BY <1>1, Ready
<1>3. q \notin Live BY <1>2 DEF Live
<1> DEFINE row == CreatedRow(q)
<1>4. row.image # None => row.image = <<q, "profile">> /\ <<q, "profile">> \in req[q].keys
  BY DEF CreatedRow
<1>5. row.cards = req[q].keys \ {<<q, "profile">>} BY DEF CreatedRow
<1>6. row.cards \subseteq req[q].keys /\ row.cards \subseteq People \X {"front", "back"}
  BY <1>2, <1>5 DEF CreateFiles
<1>7. req[q].keys \subseteq row.cards \cup {row.image}
  <2>1. <<q, "profile">> \in req[q].keys => row.image = <<q, "profile">> BY DEF CreatedRow
  <2> QED BY <1>5, <2>1
<1>8. row \in PersonRows /\ person' = [person EXCEPT ![q] = row] BY <1>1
<1> HIDE DEF row
<1> QED BY <1>1, <1>2, <1>3, <1>4, <1>6, <1>7, <1>8, PersonStepKept

LEMMA SafeImport ==
    ASSUME Safe, NEW q \in Requests, ImportPeople(q)
    PROVE  Safe'
<1>1. /\ req[q].pc = "idle" /\ UNCHANGED <<record, schedule, media, stray>> /\ RowsTyped' /\ Typed'
      /\ \E a \in Phones :
            LET row == [phone |-> a, image |-> None, cards |-> {}]
            IN  /\ row \in PersonRows /\ person' = [person EXCEPT ![q] = row]
                /\ Wrote(q, {<<"phone", a>>}, {}, {})
  BY ImportFacts DEF Safe
<1>2. PICK a \in Phones :
        LET row == [phone |-> a, image |-> None, cards |-> {}]
        IN  /\ row \in PersonRows /\ person' = [person EXCEPT ![q] = row]
            /\ Wrote(q, {<<"phone", a>>}, {}, {})
  BY <1>1
<1> DEFINE row == [phone |-> a, image |-> None, cards |-> {}]
<1>3. q \in People /\ person[q] = None /\ req[q].keys = {} BY <1>1, Ready
<1>4. q \notin Live BY <1>3 DEF Live
<1>5. row.image = None /\ row.cards = {} OBVIOUS
<1>6. /\ row \in PersonRows /\ person' = [person EXCEPT ![q] = row]
      /\ Wrote(q, {<<"phone", a>>}, req[q].keys, {})
  BY <1>2, <1>3
<1>7. media' = media \cup req[q].keys BY <1>1, <1>3
<1> HIDE DEF row
<1>8. row.cards \subseteq req[q].keys /\ row.cards \subseteq People \X {"front", "back"}
      /\ req[q].keys \subseteq row.cards \cup {row.image}
  BY <1>3, <1>5
<1> QED BY <1>1, <1>3, <1>4, <1>5, <1>6, <1>7, <1>8, PersonStepKept

LEMMA SafeUpdatePerson ==
    ASSUME Safe, NEW q \in Requests, CommitUpdatePerson(q)
    PROVE  Safe'
<1> DEFINE p == req[q].on
           a == req[q].phone
           row == [person[p] EXCEPT !.phone = a]
           M == {<<"phone", a>>, <<"phone", person[p].phone>>}
<1>1. /\ req[q].pc = "commit" /\ req[q].op = "updatePerson"
      /\ p \in Live /\ a \in Phones /\ person[p] \in PersonRows
      /\ row \in PersonRows /\ person' = [person EXCEPT ![p] = row]
      /\ Wrote(q, M, {}, {})
      /\ UNCHANGED <<record, schedule, media, stray>>
      /\ RowsTyped' /\ Typed'
  BY UpdatePersonFacts DEF Safe
<1>2. Plan(q) /\ Busy(q) BY <1>1, Ready
<1>3. req[q].keys = {} BY <1>1, <1>2 DEF Plan
<1>4. row.image = person[p].image /\ row.cards = person[p].cards BY <1>1 DEF PersonRows
<1>5. media' = media \cup req[q].keys BY <1>1, <1>3
<1>6. p \in People BY <1>1 DEF Live
<1> HIDE DEF row, M, p
<1>7. req[q].keys \subseteq row.cards \cup {row.image} BY <1>3
<1>8. Wrote(q, M, req[q].keys, {}) BY <1>1, <1>3
<1> QED BY <1>1, <1>4, <1>5, <1>6, <1>7, <1>8, PersonStepKept

LEMMA SafeImage ==
    ASSUME Safe, NEW q \in Requests, NEW p, NEW i \in {None, <<q, "profile">>}, NEW d,
           ImageStep(q, p, i, req[q].keys, d), req[q].pc = "commit", Used(d),
           person[p].image \in d \cup {None}, \A f \in d : person[p].image = f,
           i # None => i \in req[q].keys, req[q].keys \subseteq {i}
    PROVE  Safe'
<1> DEFINE row == [person[p] EXCEPT !.image = i]
<1>1. /\ Wrote(q, {}, req[q].keys, d) /\ RowsTyped' /\ Typed'
      /\ p \in Live /\ person[p] \in PersonRows /\ row \in PersonRows
      /\ person' = [person EXCEPT ![p] = row]
      /\ media' = (media \cup req[q].keys) \ d /\ d \in SUBSET Media
      /\ UNCHANGED <<record, schedule, stray>>
  BY DEF ImageStep
<1>2. p \in People BY <1>1 DEF Live
<1>3. row.image = i /\ row.cards = person[p].cards BY <1>1 DEF PersonRows
<1> HIDE DEF row
<1>4. \A f \in d : p \in Live /\ person[p].image = f BY <1>1
<1>5. req[q].keys \subseteq row.cards \cup {row.image} BY <1>3
<1>6. row.image # None => row.image = <<q, "profile">> /\ <<q, "profile">> \in req[q].keys BY <1>3
<1> QED BY <1>1, <1>2, <1>3, <1>4, <1>5, <1>6, PersonStep

LEMMA SafeAddImage ==
    ASSUME Safe, NEW q \in Requests, CommitAddImage(q)
    PROVE  Safe'
<1>1. /\ req[q].pc = "commit" /\ req[q].op = "addImage" /\ person[req[q].on].image = None
      /\ ImageStep(q, req[q].on, <<q, "profile">>, req[q].keys, {})
  BY AddImageFacts DEF Safe
<1>2. Plan(q) /\ Busy(q) BY <1>1, Ready
<1>3. req[q].keys = {<<q, "profile">>} BY <1>1, <1>2 DEF Plan
<1> DEFINE d == {}
<1>4. /\ ImageStep(q, req[q].on, <<q, "profile">>, req[q].keys, d) /\ Used(d)
      /\ \A f \in d : person[req[q].on].image = f
  BY <1>1, NothingUsed
<1> HIDE DEF d
<1> QED BY <1>1, <1>3, <1>4, SafeImage

\* A picture that is still in media_files is the person's own.
LEMMA OwnPicture ==
    ASSUME Safe, NEW q \in Requests, req[q].pc = "commit", req[q].op \in {"replaceImage", "deleteImage"},
           req[q].on \in Live, req[q].doomed \subseteq media
    PROVE  Used(req[q].doomed) /\ req[q].doomed = {person[req[q].on].image}
<1>1. Plan(q) /\ OldPicture(q) /\ Busy(q) BY Ready
<1> QED BY <1>1 DEF Plan, OldPicture

LEMMA SafeReplaceImage ==
    ASSUME Safe, NEW q \in Requests, CommitReplaceImage(q)
    PROVE  Safe'
<1>1. /\ req[q].pc = "commit" /\ req[q].op = "replaceImage" /\ req[q].doomed \subseteq media
      /\ ImageStep(q, req[q].on, <<q, "profile">>, req[q].keys, req[q].doomed)
  BY ReplaceImageFacts DEF Safe
<1>2. Plan(q) /\ Busy(q) BY <1>1, Ready
<1>3. req[q].keys = {<<q, "profile">>} BY <1>1, <1>2 DEF Plan
<1>4. Used(req[q].doomed) /\ req[q].doomed = {person[req[q].on].image}
  BY <1>1, OwnPicture DEF ImageStep
<1> QED BY <1>1, <1>3, <1>4, SafeImage

LEMMA SafeDeleteImage ==
    ASSUME Safe, NEW q \in Requests, CommitDeleteImage(q)
    PROVE  Safe'
<1>1. /\ req[q].pc = "commit" /\ req[q].op = "deleteImage" /\ req[q].doomed \subseteq media
      /\ ImageStep(q, req[q].on, None, {}, req[q].doomed)
  BY DeleteImageFacts DEF Safe
<1>2. Plan(q) /\ Busy(q) BY <1>1, Ready
<1>3. req[q].keys = {} BY <1>1, <1>2 DEF Plan
<1>4. Used(req[q].doomed) /\ req[q].doomed = {person[req[q].on].image}
  BY <1>1, OwnPicture DEF ImageStep
<1> QED BY <1>1, <1>3, <1>4, SafeImage

LEMMA SafeCreateTextRecord ==
    ASSUME Safe, NEW q \in Requests, CreateTextRecord(q)
    PROVE  Safe'
<1>1. /\ req[q].pc = "idle" /\ UNCHANGED <<person, media, stray>>
      /\ Wrote(q, {<<"people", q>>}, {}, {}) /\ Typed'
      /\ \E row \in RecordRows :
            /\ row.type = "TEXT" /\ row.voice = None /\ row.schedule = None
            /\ record' = [record EXCEPT ![q] = row]
  BY CreateTextRecordFacts DEF Safe
<1>2. PICK row \in RecordRows :
        /\ row.type = "TEXT" /\ row.voice = None /\ row.schedule = None
        /\ record' = [record EXCEPT ![q] = row]
  BY <1>1
<1>3. RowsTyped /\ q \in Records /\ row # None BY RowsOfType, ContactsAssumption DEF Safe, Typed, Records
<1>4. record'[q] = row /\ \A x \in Records \ {q} : record'[x] = record[x]
  BY <1>2, <1>3 DEF RowsTyped
<1>5. Recorded' = Recorded \cup {q} BY <1>3, <1>4 DEF Recorded
<1>6. RecordsKept(q) BY <1>2, <1>4, <1>5 DEF Recorded, RecordsKept
<1> DEFINE M == {<<"people", q>>}
<1>7. Wrote(q, M, {}, {}) BY <1>1
<1> HIDE DEF M
<1>8. req[q].pc = "idle" /\ UNCHANGED <<person, media, stray>> /\ Typed' BY <1>1
<1> QED BY <1>6, <1>7, <1>8, RecordStepKept

LEMMA SafeUpdateRecord ==
    ASSUME Safe, NEW q \in Requests, NEW type, UpdateRecord(q, type)
    PROVE  Safe'
<1>1. /\ req[q].pc = "idle" /\ UNCHANGED <<person, media, stray>> /\ Typed'
      /\ \E r \in Recorded, wanted \in SUBSET People :
            /\ record[r] \in RecordRows /\ [record[r] EXCEPT !.people = wanted] \in RecordRows
            /\ record' = [record EXCEPT ![r] = [record[r] EXCEPT !.people = wanted]]
            /\ Wrote(q, {<<"people", r>>}, {}, {})
  BY UpdateRecordFacts DEF Safe
<1>2. PICK r \in Recorded, wanted \in SUBSET People :
        /\ record[r] \in RecordRows /\ [record[r] EXCEPT !.people = wanted] \in RecordRows
        /\ record' = [record EXCEPT ![r] = [record[r] EXCEPT !.people = wanted]]
        /\ Wrote(q, {<<"people", r>>}, {}, {})
  BY <1>1
<1> DEFINE row == [record[r] EXCEPT !.people = wanted]
<1>3. row \in RecordRows /\ row.type = record[r].type /\ row.voice = record[r].voice
  BY <1>2 DEF RecordRows
<1>4. record' = [record EXCEPT ![r] = row] BY <1>2
<1> HIDE DEF row
<1>5. RowsTyped /\ r \in Records /\ row # None
  BY <1>3, RowsOfType, ContactsAssumption DEF Safe, Typed, Recorded
<1>6. record'[r] = row /\ \A x \in Records \ {r} : record'[x] = record[x]
  BY <1>4, <1>5 DEF RowsTyped
<1>7. Recorded' = Recorded BY <1>5, <1>6 DEF Recorded
<1>8. RecordsKept(q) BY <1>3, <1>6, <1>7 DEF Recorded, RecordsKept
<1> DEFINE M == {<<"people", r>>}
<1>9. Wrote(q, M, {}, {}) BY <1>2
<1> HIDE DEF M
<1>10. req[q].pc = "idle" /\ UNCHANGED <<person, media, stray>> /\ Typed' BY <1>1
<1> QED BY <1>8, <1>9, <1>10, RecordStepKept

LEMMA SafeDeleteRecord ==
    ASSUME Safe, NEW q \in Requests, DeleteRecord(q)
    PROVE  Safe'
<1>1. /\ req[q].pc = "idle" /\ UNCHANGED <<person, stray>> /\ Typed'
      /\ \E r \in Recorded :
            LET files == IF record[r].type = "VOICE" THEN Voice(r) ELSE {}
            IN  /\ files \in SUBSET Media
                /\ record' = [record EXCEPT ![r] = None]
                /\ media' = media \ files
                /\ Wrote(q, {"people", "schedule"} \X {r}, {}, files)
  BY DeleteRecordFacts DEF Safe
<1>2. PICK r \in Recorded :
        LET files == IF record[r].type = "VOICE" THEN Voice(r) ELSE {}
        IN  /\ files \in SUBSET Media
            /\ record' = [record EXCEPT ![r] = None]
            /\ media' = media \ files
            /\ Wrote(q, {"people", "schedule"} \X {r}, {}, files)
  BY <1>1
<1> DEFINE files == IF record[r].type = "VOICE" THEN Voice(r) ELSE {}
<1>3. RowsTyped /\ r \in Records /\ Shown BY RowsOfType DEF Safe, Typed, Recorded
<1>4. files \subseteq {<<r, "voice">>} /\ files \subseteq media /\ record[r].voice \in files \cup {None}
  BY <1>3 DEF Shown, Voice
<1>5. /\ files \in SUBSET Media /\ media' = media \ files
      /\ Wrote(q, {"people", "schedule"} \X {r}, {}, files)
  BY <1>2
<1> HIDE DEF files
<1>6. record'[r] = None /\ \A x \in Records \ {r} : record'[x] = record[x]
  BY <1>2, <1>3 DEF RowsTyped
<1>7. Recorded' = Recorded \ {r} BY <1>6 DEF Recorded
<1>8. \A x \in Recorded' :
         \/ x = q /\ record'[x].type = "TEXT" /\ record'[x].voice = None
         \/ /\ x \in Recorded /\ <<x, "voice">> \notin files
            /\ record'[x].type = record[x].type /\ record'[x].voice = record[x].voice
  BY <1>4, <1>6, <1>7 DEF Recorded
<1>9. files \subseteq Records \X {"voice"} BY <1>3, <1>4
<1>10. \A x \in Recorded : x \in Recorded' \/ record[x].voice \in files \cup {None} BY <1>4, <1>7
<1> QED BY <1>1, <1>4, <1>5, <1>8, <1>9, <1>10, Ready, RecordStep

LEMMA SafeRelink ==
    ASSUME Safe, NEW q \in Requests, NEW M, NEW S \in SUBSET Recorded, NEW v \in Schedules \cup {None},
           record' = Relinked(S, v), UNCHANGED <<person, media, stray>>,
           Wrote(q, M, {}, {}), Typed',
           req[q].pc = "idle" \/ (req[q].pc = "commit" /\ req[q].op = "createSchedule")
    PROVE  Safe'
<1>1. RowsTyped BY RowsOfType DEF Safe, Typed
<1>2. /\ Recorded' = Recorded
      /\ \A r \in Recorded : record'[r].type = record[r].type /\ record'[r].voice = record[r].voice
  BY <1>1, RecordRelinked
<1>3. RecordsKept(q) BY <1>2 DEF RecordsKept
<1> QED BY <1>2, <1>3, RecordStepKept

LEMMA SafeCreateSchedule ==
    ASSUME Safe, NEW q \in Requests, CommitCreateSchedule(q)
    PROVE  Safe'
<1> DEFINE S == {req[q].on} \cap Recorded
           M == {"schedule"} \X ({req[q].on} \cap Records)
<1>1. /\ req[q].pc = "commit" /\ req[q].op = "createSchedule"
      /\ record' = Relinked(S, q) /\ UNCHANGED <<person, media, stray>>
      /\ Wrote(q, M, {}, {}) /\ Typed'
  BY CreateScheduleFacts DEF Safe
<1>2. S \in SUBSET Recorded /\ q \in Schedules BY DEF Schedules
<1> HIDE DEF S, M
<1> QED BY <1>1, <1>2, SafeRelink

LEMMA SafeDeleteSchedule ==
    ASSUME Safe, NEW q \in Requests, DeleteSchedule(q)
    PROVE  Safe'
<1>1. /\ req[q].pc = "idle" /\ UNCHANGED <<person, media, stray>> /\ Typed'
      /\ \E S \in SUBSET Recorded : record' = Relinked(S, None) /\ Wrote(q, {"schedule"} \X S, {}, {})
  BY DeleteScheduleFacts DEF Safe
<1>2. PICK S \in SUBSET Recorded : record' = Relinked(S, None) /\ Wrote(q, {"schedule"} \X S, {}, {})
  BY <1>1
<1> DEFINE M == {"schedule"} \X S
           v == None
<1>3. Wrote(q, M, {}, {}) /\ v \in Schedules \cup {None} /\ record' = Relinked(S, v) BY <1>2
<1> HIDE DEF M, v
<1>4. req[q].pc = "idle" /\ UNCHANGED <<person, media, stray>> /\ Typed' BY <1>1
<1> QED BY <1>3, <1>4, SafeRelink

LEMMA SafeUpdateSchedule ==
    ASSUME Safe, NEW q \in Requests, UpdateSchedule(q)
    PROVE  Safe'
<1>1. /\ req[q].pc = "idle" /\ Wrote(q, {}, {}, {}) /\ UNCHANGED <<person, record, media, stray>> /\ Typed'
  BY UpdateScheduleFacts DEF Safe
<1>2. Recorded' = Recorded BY <1>1 DEF Recorded
<1>3. RecordsKept(q) BY <1>1, <1>2 DEF RecordsKept
<1> DEFINE M == {}
<1>4. Wrote(q, M, {}, {}) BY <1>1
<1> HIDE DEF M
<1>5. req[q].pc = "idle" /\ UNCHANGED <<person, media, stray>> /\ Typed' BY <1>1
<1> QED BY <1>3, <1>4, <1>5, RecordStepKept

LEMMA EveryPersonDeleted ==
    ASSUME RowsTyped, NEW p, NEW D, person' = DeletedPerson(p, D)
    PROVE  \A x \in People :
              /\ x \in Live' <=> (x \in Live /\ x # p)
              /\ x \in Live' =>
                    /\ person'[x].image = IF person[x].image \in D THEN None ELSE person[x].image
                    /\ person'[x].cards = person[x].cards \ D
<1> TAKE x \in People
<1>1. x \in Live' <=> (x \in Live /\ x # p) BY PersonDeleted
<1>2. ASSUME x \in Live'
      PROVE  /\ person'[x].image = IF person[x].image \in D THEN None ELSE person[x].image
             /\ person'[x].cards = person[x].cards \ D
  <2> DEFINE i == IF person[x].image \in D THEN None ELSE person[x].image
             row == [person[x] EXCEPT !.image = i, !.cards = person[x].cards \ D]
  <2>1. x \in Live /\ x # p BY <1>1, <1>2
  <2>2. person[x] \in PersonRows /\ person[x] # None BY <2>1 DEF RowsTyped, Live
  <2>3. person'[x] = row BY <2>1, <2>2 DEF DeletedPerson
  <2>4. row.image = i /\ row.cards = person[x].cards \ D BY <2>2 DEF PersonRows
  <2> QED BY <2>3, <2>4
<1> QED BY <1>1, <1>2

LEMMA SafeDeletePerson ==
    ASSUME Safe, NEW q \in Requests, CommitDeletePerson(q)
    PROVE  Safe'
<1> DEFINE p == req[q].on
           D == req[q].doomed
           O == req[q].orphans
           M == {"people", "schedule"} \X (O \cup RecordsOf(p))
<1>1. /\ req[q].pc = "commit" /\ req[q].op = "deletePerson"
      /\ D \in SUBSET Media /\ O \in SUBSET Records
      /\ person' = DeletedPerson(p, D) /\ record' = DeletedRecords(p, D, O)
      /\ media' = media \ D /\ stray' = stray \cup ((Face(p) \cup Cards(p)) \ D)
      /\ Wrote(q, M, {}, D) /\ RowsTyped' /\ Typed'
  BY DeletePersonFacts DEF Safe
<1>2. /\ Busy(q) /\ Plan(q) /\ DeletionPlan(q) /\ ~Over(q) BY <1>1, Ready
<1>3. RowsTyped /\ Shown /\ Files BY RowsOfType DEF Safe, Typed
<1>4. req[q].keys = {} /\ Used(D) BY <1>1, <1>2 DEF Plan
<1>5. \A r \in Records :
         /\ <<r, "voice">> \in D => r \in O
         /\ r \in O /\ r \in Recorded /\ record[r].voice # None => record[r].voice \in D
  BY <1>1, <1>2 DEF DeletionPlan
<1> HIDE DEF p, D, O, M
<1>20. person' = DeletedPerson(p, D) BY <1>1
<1>6. \A x \in People :
         /\ x \in Live' <=> (x \in Live /\ x # p)
         /\ x \in Live' =>
              /\ person'[x].image = IF person[x].image \in D THEN None ELSE person[x].image
              /\ person'[x].cards = person[x].cards \ D
  BY <1>3, <1>20, EveryPersonDeleted
<1>7. \A r \in Records :
         /\ r \in Recorded' <=> r \in Recorded /\ r \notin O
         /\ r \in Recorded' =>
              /\ record'[r].type = record[r].type
              /\ record'[r].voice = IF record[r].voice \in D THEN None ELSE record[r].voice
  BY <1>1, <1>3, RecordKept
<1>8. Live' \subseteq People /\ Recorded' \subseteq Records /\ Live \subseteq People /\ Recorded \subseteq Records
  BY DEF Live, Recorded
<1>9. Shown'
  <2>1. ASSUME NEW x \in Live', person'[x].image # None
        PROVE  /\ person'[x].image = person[x].image /\ x \in Live
               /\ person'[x].image \in media' /\ person'[x].image \in People \X {"profile"}
    <3>1. x \in Live /\ person'[x].image = person[x].image /\ person[x].image \notin D
      BY <1>6, <1>8, <2>1
    <3> QED BY <1>1, <1>3, <2>1, <3>1 DEF Shown
  <2>2. ASSUME NEW x \in Live'
        PROVE  person'[x].cards \subseteq media' /\ person'[x].cards \subseteq People \X {"front", "back"}
    <3>1. x \in Live /\ person'[x].cards = person[x].cards \ D BY <1>6, <1>8
    <3> QED BY <1>1, <1>3, <3>1 DEF Shown
  <2>3. ASSUME NEW r \in Recorded'
        PROVE  IF record'[r].type = "VOICE"
               THEN record'[r].voice = <<r, "voice">> /\ <<r, "voice">> \in media'
               ELSE record'[r].voice = None
    <3>1. /\ r \in Records /\ r \in Recorded /\ r \notin O /\ record'[r].type = record[r].type
          /\ record'[r].voice = IF record[r].voice \in D THEN None ELSE record[r].voice
      BY <1>7, <1>8
    <3>2. <<r, "voice">> \notin D BY <1>5, <3>1
    <3> QED BY <1>1, <1>3, <3>1, <3>2 DEF Shown
  <2>4. ASSUME NEW x \in Live', NEW y \in Live', person'[x].image # None, person'[x].image = person'[y].image
        PROVE  x = y
    <3>1. /\ x \in Live /\ person'[x].image = person[x].image
          /\ y \in Live /\ person'[y].image = person[y].image
      BY <2>1, <2>4
    <3> QED BY <1>3, <2>4, <3>1 DEF Shown
  <2> QED BY <2>1, <2>2, <2>3, <2>4 DEF Shown
<1>10. ASSUME NEW f \in media' PROVE Owned(f)'
  <2>1. f \in media /\ f \notin D /\ f # None BY <1>1, <1>3, ContactsAssumption DEF RowsTyped
  <2>2. Owned(f) BY <1>3, <2>1 DEF Files
  <2>3. CASE \E x \in Live : person[x].image = f \/ f \in person[x].cards
    <3>1. PICK x \in Live : person[x].image = f \/ f \in person[x].cards BY <2>3
    <3>2. CASE x = p
      <4>1. f \in Face(p) \cup Cards(p) BY <2>1, <3>1, <3>2 DEF Face, Cards
      <4> QED BY <1>1, <2>1, <4>1 DEF Owned
    <3>3. CASE x # p
      <4>1. x \in Live' /\ (person'[x].image = f \/ f \in person'[x].cards)
        BY <1>6, <1>8, <2>1, <3>1, <3>3
      <4> QED BY <4>1 DEF Owned
    <3> QED BY <3>2, <3>3
  <2>4. CASE \E r \in Recorded : record[r].voice = f
    <3>1. PICK r \in Recorded : record[r].voice = f BY <2>4
    <3>2. r \notin O BY <1>5, <1>8, <2>1, <3>1
    <3>3. r \in Recorded' /\ record'[r].voice = f BY <1>7, <1>8, <2>1, <3>1, <3>2
    <3> QED BY <3>3 DEF Owned
  <2>5. CASE f \in stray BY <1>1, <2>5 DEF Owned
  <2> QED BY <2>2, <2>3, <2>4, <2>5 DEF Owned
<1>11. Writes(q, {}, D)
  <2>1. \A x \in Live' : x \in Live /\ (\/ person[x].image = None \/ person[x].image \notin media'
                                         \/ person'[x].image = person[x].image)
    BY <1>1, <1>6, <1>8
  <2>2. \A r \in Recorded' : r \in Recorded /\ record'[r].voice \in {record[r].voice, None}
    BY <1>7, <1>8
  <2> QED BY <1>1, <1>2, <1>4, <2>1, <2>2 DEF Writes
<1> QED BY <1>1, <1>9, <1>10, <1>11, NothingUsed, WroteSafe

-----------------------------------------------------------------------------
LEMMA SafeInit == Init => Safe
<1> SUFFICES ASSUME Init PROVE Safe OBVIOUS
<1>1. Typed BY TypedInit
<1>2. PICK phone \in [SeedPeople -> Phones], pictured \in SUBSET SeedPeople, carded \in SUBSET SeedPeople :
        InitPerson(phone, pictured, carded)
  BY DEF Init
<1>3. PICK people \in [SeedRecords -> SUBSET SeedPeople], voiced \in SUBSET SeedRecords,
        planned \in [SeedRecords -> SeedSchedules \cup {None}] : InitRecord(people, voiced, planned)
  BY DEF Init
<1>4. /\ media = (UNION {Face(p) \cup Cards(p) : p \in People}) \cup UNION {Voice(r) : r \in Records}
      /\ objects = media
  BY DEF Init
<1>5. \A p \in Live : /\ p \in SeedPeople /\ p \in People
                     /\ person[p].image \in {None, <<p, "profile">>}
                     /\ person[p].cards \subseteq {<<p, "front">>}
  BY <1>2 DEF InitPerson, Live, People
<1>6. \A r \in Recorded : /\ r \in SeedRecords /\ r \in Records
                         /\ record[r].voice = IF record[r].type = "VOICE" THEN <<r, "voice">> ELSE None
  BY <1>3 DEF InitRecord, Recorded, Records
<1>7. \A f \in media : Owned(f)
  <2>1. ASSUME NEW f \in media
        PROVE  (\E p \in People : f \in Face(p) \cup Cards(p)) \/ (\E r \in Records : f \in Voice(r))
    BY <1>4
  <2> QED BY <2>1 DEF Owned, Face, Cards, Voice
<1>8. \A p \in Live : Face(p) \subseteq media /\ Cards(p) \subseteq media BY <1>4, <1>5
<1>9. \A r \in Recorded : Voice(r) \subseteq media BY <1>4, <1>6
<1>10. Shown
  <2>1. ASSUME NEW p \in Live, person[p].image # None
        PROVE  person[p].image \in media /\ person[p].image = <<p, "profile">>
    BY <1>5, <1>8, <2>1 DEF Face
  <2>2. ASSUME NEW p \in Live
        PROVE  person[p].cards \subseteq media /\ person[p].cards \subseteq People \X {"front", "back"}
    BY <1>5, <1>8 DEF Cards
  <2>3. ASSUME NEW r \in Recorded
        PROVE  IF record[r].type = "VOICE"
               THEN record[r].voice = <<r, "voice">> /\ <<r, "voice">> \in media
               ELSE record[r].voice = None
    <3>1. <<r, "voice">> # None BY <1>6, ContactsAssumption DEF Media, Usages
    <3> QED BY <1>6, <1>9, <3>1 DEF Voice
  <2>4. ASSUME NEW p \in Live, NEW o \in Live, person[p].image # None, person[p].image = person[o].image
        PROVE  p = o
    BY <1>5, <2>4
  <2>5. \A p \in Live : person[p].image # None =>
           person[p].image \in media /\ person[p].image \in People \X {"profile"}
    BY <1>5, <2>1
  <2> QED BY <2>2, <2>3, <2>4, <2>5 DEF Shown
<1>11. Names
  <2>1. \A x \in Requests : x \notin Live /\ x \notin Recorded BY <1>5, <1>6, ContactsAssumption
  <2>2. \A x \in Requests : person[x] = None /\ record[x] = None
    BY <2>1 DEF Live, Recorded, People, Records
  <2>3. Used(media)
    <3> SUFFICES ASSUME NEW x \in Requests, NEW u \in Usages, <<x, u>> \in media PROVE FALSE
      BY DEF Used
    <3>1. Owned(<<x, u>>) BY <1>7
    <3>2. stray = {} BY DEF Init
    <3>3. CASE \E p \in Live : person[p].image = <<x, u>> \/ <<x, u>> \in person[p].cards
      <4>1. PICK p \in Live : person[p].image = <<x, u>> \/ <<x, u>> \in person[p].cards BY <3>3
      <4>2. <<x, u>> # None BY <1>1, ContactsAssumption DEF Typed, TypeOK
      <4>3. x = p BY <1>5, <4>1, <4>2
      <4> QED BY <1>5, <4>3, ContactsAssumption
    <3>4. CASE \E r \in Recorded : record[r].voice = <<x, u>>
      <4>1. PICK r \in Recorded : record[r].voice = <<x, u>> BY <3>4
      <4>2. <<x, u>> # None BY <1>1, ContactsAssumption DEF Typed, TypeOK
      <4>3. <<x, u>> = <<r, "voice">> BY <1>6, <4>1, <4>2
      <4>4. x = r BY <4>3
      <4> QED BY <1>6, <4>4, ContactsAssumption
    <3> QED BY <3>1, <3>2, <3>3, <3>4 DEF Owned
  <2> QED BY <2>2, <2>3 DEF Names
<1>12. \A q \in Requests : req[q].pc = "idle" /\ req[q].keys = {}
  <2> DEFINE st == [Fresh(None, None) EXCEPT !.pc = "idle"]
  <2>1. st.pc = "idle" /\ st.keys = {} BY DEF Fresh
  <2>2. req = [q \in Requests |-> st] BY DEF Init
  <2> HIDE DEF st
  <2> QED BY <2>1, <2>2
<1>13. Plans BY <1>12 DEF Plans, Plan, OldPicture, DeletionPlan, Busy
<1>14. Files BY <1>4, <1>7 DEF Files, Held
<1> QED BY <1>1, <1>10, <1>11, <1>13, <1>14 DEF Safe

LEMMA SafeNext == Safe /\ [Next]_vars => Safe'
<1> SUFFICES ASSUME Safe, [Next]_vars PROVE Safe' OBVIOUS
<1>0. CASE UNCHANGED vars
  <2>1. Typed' BY <1>0, TypedNext DEF Safe
  <2>2. UNCHANGED <<person, record, media, objects, req, leaked, stray, ackLost>>
    BY <1>0 DEF vars, rows, ghosts
  <2>3. Live' = Live /\ Recorded' = Recorded BY <2>2 DEF Live, Recorded
  <2>4. Names' /\ Shown' BY <2>2, <2>3 DEF Safe, Names, Shown, Used, Over
  <2>5. Files' BY <2>2, <2>3 DEF Safe, Files, Owned, Held
  <2>6. \A q \in Requests : Plan(q)' BY <2>2 DEF Safe, Plans, Plan, Used, Over, Busy
  <2>7. \A q \in Requests : OldPicture(q)' BY <2>2, <2>3 DEF Safe, Plans, OldPicture, Busy
  <2>8. \A q \in Requests : DeletionPlan(q)' BY <2>2, <2>3 DEF Safe, Plans, DeletionPlan, Busy
  <2> QED BY <2>1, <2>4, <2>5, <2>6, <2>7, <2>8 DEF Safe, Plans
<1>1. CASE Next
  <2>1. PICK q \in Requests :
          Start(q) \/ Upload(q) \/ Commit(q) \/ Short(q) \/ Clean(q) \/ Crash(q)
    BY <1>1 DEF Next
  <2>2. CASE Start(q) BY <2>2, SafeStart
  <2>3. CASE Upload(q) BY <2>3, SafeUpload
  <2>4. CASE Commit(q)
    BY <2>4, SafeCreatePerson, SafeUpdatePerson, SafeAddImage, SafeReplaceImage, SafeDeleteImage,
       SafeDeletePerson, SafeCreateSchedule, SafeRollback DEF Commit
  <2>5. CASE Short(q)
    BY <2>5, SafeImport, SafeCreateTextRecord, SafeUpdateRecord, SafeDeleteRecord,
       SafeUpdateSchedule, SafeDeleteSchedule DEF Short, UpdateTextRecord, UpdateVoiceRecord
  <2>6. CASE Clean(q) BY <2>6, SafeClean
  <2>7. CASE Crash(q) BY <2>7, SafeCrash
  <2> QED BY <2>1, <2>2, <2>3, <2>4, <2>5, <2>6, <2>7
<1> QED BY <1>0, <1>1

LEMMA SafeAlways == Spec => []Safe
BY SafeInit, SafeNext, PTL DEF Spec

\* No answer of any read links to a file that is gone (except after a commit reported as
\* an error): rows go before their objects and objects come before their rows.
THEOREM NoDeadLinkHolds == Spec => []NoDeadLink
<1>1. ASSUME Safe PROVE NoDeadLink
  <2>1. Shown /\ Files /\ RowsTyped BY <1>1, RowsOfType DEF Safe, Typed
  <2>2. \A p \in Live : Face(p) \subseteq media /\ Cards(p) \subseteq media
    BY <2>1 DEF Shown, Face, Cards
  <2>3. \A r \in Recorded : Voice(r) \subseteq media BY <2>1 DEF Shown, Voice
  <2>4. \A s \in Scheduled : ScheduleDetail(s) \subseteq media
    BY <2>1, <2>2 DEF ScheduleDetail, RowsTyped
  <2>5. PeopleList \cup SchedulesList \subseteq media
    BY <2>2, <2>4 DEF PeopleList, SchedulesList
  <2>6. ASSUME NEW r \in Recorded PROVE VoiceRecordDetail(r) \subseteq media
    <3>1. record[r].people \subseteq Live /\ record[r].schedule \in Scheduled \cup {None}
      BY <2>1 DEF RowsTyped
    <3>2. UNION {Face(p) : p \in record[r].people} \subseteq media BY <2>2, <3>1
    <3>3. (IF record[r].schedule = None THEN {} ELSE ScheduleDetail(record[r].schedule)) \subseteq media
      BY <2>4, <3>1
    <3> QED BY <2>3, <3>2, <3>3 DEF VoiceRecordDetail, TextRecordDetail
  <2>7. media \subseteq objects \cup ackLost BY <2>1 DEF Files
  <2> QED BY <2>2, <2>5, <2>6, <2>7 DEF NoDeadLink, PersonDetail
<1> QED BY <1>1, SafeAlways, PTL

\* Every S3 object has a row, or a request that will still delete it, or was lost to a
\* failing S3, a lost answer or a crash.
THEOREM ObjectsAccountedHolds == Spec => []ObjectsAccounted
<1>1. ASSUME Safe PROVE ObjectsAccounted
  <2>1. \A f \in objects : Held(f) BY <1>1 DEF Safe, Files
  <2> QED BY <2>1 DEF ObjectsAccounted, Held
<1> QED BY <1>1, SafeAlways, PTL

\* Every media_files row belongs to a person or a record, however image changes and
\* deletions overlap; only images a deletion's plan did not know are left over.
THEOREM MediaOwnedHolds == Spec => []MediaOwned
<1>1. ASSUME Safe PROVE MediaOwned
  <2>1. ASSUME NEW f \in media
        PROVE  \/ \E p \in Live : f \in Face(p) \cup Cards(p)
               \/ \E r \in Recorded : f \in Voice(r)
               \/ f \in stray
    <3>1. Owned(f) BY <1>1 DEF Safe, Files
    <3>2. f # None BY <1>1, ContactsAssumption DEF Safe, Typed, TypeOK
    <3> QED BY <3>1, <3>2 DEF Owned, Face, Cards, Voice
  <2> QED BY <2>1 DEF MediaOwned
<1> QED BY <1>1, SafeAlways, PTL

\* A voice record keeps the row of its recording as long as it exists, whichever people
\* of it are deleted.
THEOREM RecordingKeptHolds == Spec => []RecordingKept
<1>1. ASSUME Safe PROVE RecordingKept
  <2>1. Shown BY <1>1 DEF Safe
  <2>2. \A f \in media : f # None BY <1>1, ContactsAssumption DEF Safe, Typed, TypeOK
  <2> QED BY <2>1, <2>2 DEF RecordingKept, Shown, Voice
<1> QED BY <1>1, SafeAlways, PTL

-----------------------------------------------------------------------------
(* Checks and plans: the invariant                                         *)

PhoneStillFree(q) ==
    Busy(q) /\ <<"phone", req[q].phone>> \notin req[q].late =>
        /\ req[q].op = "createPerson" => PhoneIsFree(req[q].phone, {})
        /\ req[q].op = "updatePerson" /\ req[q].on \in Live =>
              \/ person[req[q].on].phone = req[q].phone
              \/ PhoneIsFree(req[q].phone, {req[q].on})

StillUnlinked(q) ==
    Busy(q) /\ req[q].op = "createSchedule" /\ req[q].on \in Recorded
            /\ <<"schedule", req[q].on>> \notin req[q].late
        => record[req[q].on].schedule = None

StillOrphans(q) ==
    Busy(q) /\ req[q].op = "deletePerson" /\ req[q].on \in Live =>
        \A r \in Recorded : <<"people", r>> \notin req[q].late
            => (r \in req[q].orphans <=> record[r].people = {req[q].on})

Checks(q) == PhoneStillFree(q) /\ StillUnlinked(q) /\ StillOrphans(q)
Checked == Safe /\ \A q \in Requests : Checks(q)

\* What a transaction with these marks may change.
Moves(q, M) ==
    /\ ~Over(q) /\ Live' \subseteq Live \cup {q}
    /\ \A p \in Live' : \/ <<"phone", person'[p].phone>> \in M
                        \/ p \in Live /\ person'[p].phone = person[p].phone
    /\ \A p \in Live : \/ p \notin Live' \/ person'[p].phone = person[p].phone
                       \/ <<"phone", person[p].phone>> \in M
    /\ \A r \in Recorded' : \/ record'[r].schedule = None \/ <<"schedule", r>> \in M
                            \/ r \in Recorded /\ record'[r].schedule = record[r].schedule
    /\ \A r \in Recorded' : \/ <<"people", r>> \in M
                            \/ r \in Recorded /\ record'[r].people = record[r].people

LEMMA MovesChecks ==
    ASSUME Checked, NEW q \in Requests, NEW M, NEW a \in SUBSET Media, NEW d \in SUBSET Media,
           Wrote(q, M, a, d), Moves(q, M), NEW o \in Requests
    PROVE  Checks(o)'
<1>1. CASE o = q
  <2>1. ~Busy(q)' BY WroteOver
  <2> QED BY <1>1, <2>1 DEF Checks, PhoneStillFree, StillUnlinked, StillOrphans
<1>2. CASE o # q
  <2>1. Marked(o, M) /\ (Busy(o)' <=> Busy(o)) BY <1>2, WroteOver
  <2>2. Checks(o) /\ Plan(o) BY DEF Checked, Safe, Plans
  <2> SUFFICES ASSUME Busy(o)' PROVE Checks(o)'
    BY DEF Checks, PhoneStillFree, StillUnlinked, StillOrphans
  <2>3. /\ Busy(o) /\ req'[o].op = req[o].op /\ req'[o].on = req[o].on /\ req'[o].phone = req[o].phone
        /\ req'[o].orphans = req[o].orphans /\ req'[o].late = req[o].late \cup M
    BY <2>1 DEF Marked
  <2>4. req[o].op # "createPerson" => req[o].on # q BY <2>2, <2>3 DEF Plan, Moves
  <2>5. PhoneStillFree(o)'
    <3> SUFFICES ASSUME <<"phone", req[o].phone>> \notin req'[o].late
                 PROVE  /\ req[o].op = "createPerson" =>
                              \A p \in Live' : person'[p].phone # req[o].phone
                        /\ req[o].op = "updatePerson" /\ req[o].on \in Live' =>
                              \/ person'[req[o].on].phone = req[o].phone
                              \/ \A p \in Live' : person'[p].phone = req[o].phone => p = req[o].on
      BY <2>3 DEF PhoneStillFree, PhoneIsFree
    <3>1. <<"phone", req[o].phone>> \notin req[o].late /\ <<"phone", req[o].phone>> \notin M BY <2>3
    <3>2. \A p \in Live' : person'[p].phone = req[o].phone => p \in Live /\ person[p].phone = req[o].phone
      BY <3>1 DEF Moves
    <3>3. ASSUME req[o].op = "createPerson"
          PROVE  \A p \in Live' : person'[p].phone # req[o].phone
      <4>1. \A p \in Live : person[p].phone # req[o].phone
        BY <2>2, <2>3, <3>1, <3>3 DEF Checks, PhoneStillFree, PhoneIsFree
      <4> QED BY <3>2, <4>1
    <3>4. ASSUME req[o].op = "updatePerson", req[o].on \in Live'
          PROVE  \/ person'[req[o].on].phone = req[o].phone
                 \/ \A p \in Live' : person'[p].phone = req[o].phone => p = req[o].on
      <4>1. req[o].on \in Live BY <2>4, <3>4 DEF Moves
      <4>2. \/ person[req[o].on].phone = req[o].phone
            \/ \A p \in Live : person[p].phone = req[o].phone => p = req[o].on
        BY <2>2, <2>3, <3>1, <3>4, <4>1 DEF Checks, PhoneStillFree, PhoneIsFree
      <4>3. person[req[o].on].phone = req[o].phone => person'[req[o].on].phone = req[o].phone
        BY <3>1, <3>4, <4>1 DEF Moves
      <4> QED BY <3>2, <4>2, <4>3
    <3> QED BY <3>3, <3>4
  <2>6. StillUnlinked(o)'
    <3> SUFFICES ASSUME req[o].op = "createSchedule", req[o].on \in Recorded',
                        <<"schedule", req[o].on>> \notin req'[o].late
                 PROVE  record'[req[o].on].schedule = None
      BY <2>3 DEF StillUnlinked
    <3>1. <<"schedule", req[o].on>> \notin req[o].late /\ <<"schedule", req[o].on>> \notin M BY <2>3
    <3> QED BY <2>2, <2>3, <3>1 DEF Checks, StillUnlinked, Moves
  <2>7. StillOrphans(o)'
    <3> SUFFICES ASSUME req[o].op = "deletePerson", req[o].on \in Live', NEW r \in Recorded',
                        <<"people", r>> \notin req'[o].late
                 PROVE  r \in req[o].orphans <=> record'[r].people = {req[o].on}
      BY <2>3 DEF StillOrphans
    <3>1. <<"people", r>> \notin req[o].late /\ <<"people", r>> \notin M BY <2>3
    <3>2. r \in Recorded /\ record'[r].people = record[r].people BY <3>1 DEF Moves
    <3>3. req[o].on \in Live BY <2>4 DEF Moves
    <3> QED BY <2>2, <2>3, <3>1, <3>2, <3>3 DEF Checks, StillOrphans
  <2> QED BY <2>5, <2>6, <2>7 DEF Checks
<1> QED BY <1>1, <1>2

-----------------------------------------------------------------------------
(* Steps that leave the rows alone                                         *)

LEMMA QuietChecks ==
    ASSUME Checked, NEW q \in Requests, Quiet(q), Checks(q)', NEW o \in Requests
    PROVE  Checks(o)'
<1>1. CASE o = q BY <1>1
<1>2. CASE o # q
  <2>1. req'[o] = req[o] /\ person' = person /\ record' = record BY <1>2 DEF Quiet
  <2>2. Live' = Live /\ Recorded' = Recorded BY <2>1 DEF Live, Recorded
  <2>3. Checks(o) BY DEF Checked
  <2> QED BY <2>1, <2>2, <2>3
     DEF Checks, PhoneStillFree, StillUnlinked, StillOrphans, Busy, PhoneIsFree
<1> QED BY <1>1, <1>2

LEMMA EndedChecks ==
    ASSUME NEW q \in Requests, NEW K \in SUBSET Media, req'[q] = Ended(K)
    PROVE  Checks(q)'
<1>1. ~Busy(q)' BY EndedOver
<1> QED BY <1>1 DEF Checks, PhoneStillFree, StillUnlinked, StillOrphans

\* toPersonDeletionPlan compares a count: at most one person, and this one is in.
LEMMA OnlyOne ==
    ASSUME NEW S \in SUBSET People, NEW p \in S
    PROVE  Cardinality(S) <= 1 <=> S = {p}
<1>1. IsFiniteSet(S) BY ContactsAssumption, FS_Subset
<1>2. Cardinality({p}) = 1 BY FS_Singleton
<1>3. ASSUME NEW x \in S, x # p PROVE Cardinality(S) > 1
  <2>1. IsFiniteSet({p}) BY FS_Singleton
  <2>2. Cardinality({p} \cup {x}) = 2 BY <1>2, <1>3, <2>1, FS_AddElement
  <2>3. Cardinality({p} \cup {x}) <= Cardinality(S) BY <1>1, FS_Subset
  <2>4. Cardinality(S) \in Nat BY <1>1, FS_CardinalityType
  <2> QED BY <2>2, <2>3, <2>4
<1>4. Cardinality(S) \in Nat BY <1>1, FS_CardinalityType
<1> QED BY <1>2, <1>3, <1>4

LEMMA BeganChecks ==
    ASSUME Checked, NEW q \in Requests, Began(q), HasRead(q)
    PROVE  Checks(q)'
<1>1. person' = person /\ record' = record /\ Live' = Live /\ Recorded' = Recorded
  BY DEF Began, Live, Recorded
<1>2. PhoneStillFree(q)'
  BY <1>1 DEF PhoneStillFree, PhoneIsFree, HasRead
<1>3. StillUnlinked(q)'
  <2>1. None \notin Recorded BY ContactsAssumption DEF Recorded
  <2> QED BY <1>1, <2>1 DEF StillUnlinked, HasRead, RecordCanBeLinked
<1>4. StillOrphans(q)'
  <2> SUFFICES ASSUME req'[q].op = "deletePerson", NEW r \in Recorded
               PROVE  r \in req'[q].orphans <=> record[r].people = {req'[q].on}
    BY <1>1 DEF StillOrphans
  <2> DEFINE p == req'[q].on
  <2>1. req'[q].orphans = Orphans(p) BY DEF HasRead
  <2>2. record[r].people \in SUBSET People
    <3>1. record[r].people \subseteq Live BY RowsOfType DEF RowsTyped, Checked, Safe, Typed
    <3> QED BY <3>1 DEF Live
  <2> HIDE DEF p
  <2>3. CASE p \in record[r].people
    <3>1. Cardinality(record[r].people) <= 1 <=> record[r].people = {p} BY <2>2, <2>3, OnlyOne
    <3> QED BY <2>1, <2>3, <3>1 DEF Orphans, RecordsOf, p
  <2>4. CASE p \notin record[r].people
    BY <2>1, <2>4 DEF Orphans, RecordsOf, p
  <2> QED BY <2>3, <2>4
<1> QED BY <1>2, <1>3, <1>4 DEF Checks

LEMMA UploadChecks ==
    ASSUME Checked, NEW q \in Requests, Upload(q)
    PROVE  Checks(q)'
<1>1. ReqType BY DEF Checked, Safe, Typed, TypeOK, ReqType
<1>2. PICK f \in req[q].todo : Stored(q, f) \/ NotStored(q, f) BY <1>1, UploadFacts
<1>3. Busy(q) /\ person' = person /\ record' = record BY <1>1, UploadFacts DEF Busy
<1>4. Live' = Live /\ Recorded' = Recorded /\ Checks(q) BY <1>3 DEF Live, Recorded, Checked
<1>5. CASE Stored(q, f)
  BY <1>3, <1>4, <1>5
     DEF Stored, Checks, PhoneStillFree, StillUnlinked, StillOrphans, Busy, PhoneIsFree
<1>6. CASE NotStored(q, f)
  BY <1>6, RequestSets, EndedChecks DEF NotStored, Checked, Safe
<1> QED BY <1>2, <1>5, <1>6

-----------------------------------------------------------------------------
(* The transactions mark what they move                                    *)

LEMMA PersonMoves ==
    ASSUME Safe, NEW q \in Requests, req[q].pc \in {"idle", "commit"}, NEW M,
           NEW p \in People, NEW row \in PersonRows, person' = [person EXCEPT ![p] = row],
           UNCHANGED <<record, schedule>>, RowsTyped', p = q \/ p \in Live,
           <<"phone", row.phone>> \in M \/ (p \in Live /\ row.phone = person[p].phone),
           p \in Live => <<"phone", person[p].phone>> \in M \/ row.phone = person[p].phone
    PROVE  Moves(q, M)
<1>1. ~Over(q) BY Ready
<1>2. RowsTyped /\ media' \subseteq Media BY RowsOfType DEF Safe, Typed, RowsTyped
<1>3. /\ Live' = Live \cup {p} /\ person'[p] = row
      /\ \A x \in People \ {p} : person'[x] = person[x]
  BY <1>2, PersonWritten
<1>4. Live \subseteq People /\ Recorded' = Recorded BY DEF Live, Recorded
<1>5. ASSUME NEW x \in Live'
      PROVE  \/ <<"phone", person'[x].phone>> \in M
             \/ x \in Live /\ person'[x].phone = person[x].phone
  BY <1>3, <1>4
<1>6. ASSUME NEW x \in Live
      PROVE  person'[x].phone = person[x].phone \/ <<"phone", person[x].phone>> \in M
  BY <1>3, <1>4
<1> QED BY <1>1, <1>3, <1>4, <1>5, <1>6 DEF Moves

LEMMA RecordsMove ==
    ASSUME Safe, NEW q \in Requests, req[q].pc \in {"idle", "commit"}, NEW M, person' = person,
           \A r \in Recorded' :
              /\ \/ record'[r].schedule = None \/ <<"schedule", r>> \in M
                 \/ r \in Recorded /\ record'[r].schedule = record[r].schedule
              /\ \/ <<"people", r>> \in M
                 \/ r \in Recorded /\ record'[r].people = record[r].people
    PROVE  Moves(q, M)
<1>1. ~Over(q) BY Ready
<1>2. Live' = Live BY DEF Live
<1> QED BY <1>1, <1>2 DEF Moves

LEMMA CreatePersonChecks ==
    ASSUME Checked, NEW q \in Requests, CommitCreatePerson(q), NEW o \in Requests
    PROVE  Checks(o)'
<1> DEFINE M == {<<"phone", req[q].phone>>}
           d == {}
<1>1. /\ req[q].pc = "commit" /\ req[q].keys \in SUBSET Media
      /\ Wrote(q, M, req[q].keys, d) /\ RowsTyped'
      /\ CreatedRow(q) \in PersonRows /\ person' = [person EXCEPT ![q] = CreatedRow(q)]
      /\ UNCHANGED <<record, schedule>>
  BY CreatePersonFacts DEF Checked, Safe
<1>2. CreatedRow(q).phone = req[q].phone /\ q \in People BY DEF CreatedRow, People
<1>3. q \notin Live /\ <<"phone", req[q].phone>> \in M BY <1>1, Ready DEF Checked, Live
<1>4. d \in SUBSET Media OBVIOUS
<1> HIDE DEF M, d
<1>5. Moves(q, M) BY <1>1, <1>2, <1>3, PersonMoves DEF Checked
<1> QED BY <1>1, <1>4, <1>5, MovesChecks

LEMMA ImportChecks ==
    ASSUME Checked, NEW q \in Requests, ImportPeople(q), NEW o \in Requests
    PROVE  Checks(o)'
<1> DEFINE e == {}
<1>1. req[q].pc = "idle" /\ UNCHANGED <<record, schedule>> /\ RowsTyped'
  BY ImportFacts DEF Checked, Safe
<1>2. PICK a \in Phones :
        LET row == [phone |-> a, image |-> None, cards |-> {}]
        IN  /\ row \in PersonRows /\ person' = [person EXCEPT ![q] = row]
            /\ Wrote(q, {<<"phone", a>>}, e, e)
  BY ImportFacts DEF Checked, Safe
<1> DEFINE row == [phone |-> a, image |-> None, cards |-> {}]
           M == {<<"phone", a>>}
<1>3. /\ row \in PersonRows /\ person' = [person EXCEPT ![q] = row] /\ Wrote(q, M, e, e)
      /\ row.phone = a /\ <<"phone", a>> \in M
  BY <1>2
<1>4. q \notin Live /\ q \in People BY <1>1, Ready DEF Checked, Live
<1>5. e \in SUBSET Media OBVIOUS
<1> HIDE DEF M, e, row
<1>6. Moves(q, M) BY <1>1, <1>3, <1>4, PersonMoves DEF Checked
<1> QED BY <1>3, <1>5, <1>6, MovesChecks

LEMMA UpdatePersonChecks ==
    ASSUME Checked, NEW q \in Requests, CommitUpdatePerson(q), NEW o \in Requests
    PROVE  Checks(o)'
<1> DEFINE p == req[q].on
           row == [person[p] EXCEPT !.phone = req[q].phone]
           M == {<<"phone", req[q].phone>>, <<"phone", person[p].phone>>}
           e == {}
<1>1. /\ req[q].pc = "commit" /\ p \in Live /\ req[q].phone \in Phones /\ person[p] \in PersonRows
      /\ row \in PersonRows /\ person' = [person EXCEPT ![p] = row]
      /\ Wrote(q, M, e, e) /\ UNCHANGED <<record, schedule>> /\ RowsTyped'
  BY UpdatePersonFacts DEF Checked, Safe
<1>2. row.phone = req[q].phone BY <1>1 DEF PersonRows
<1>3. <<"phone", row.phone>> \in M /\ <<"phone", person[p].phone>> \in M BY <1>2
<1>4. e \in SUBSET Media /\ p \in People BY <1>1 DEF Live
<1> HIDE DEF M, e, row, p
<1>5. Moves(q, M) BY <1>1, <1>3, <1>4, PersonMoves DEF Checked
<1> QED BY <1>1, <1>4, <1>5, MovesChecks

LEMMA ImageChecks ==
    ASSUME Checked, NEW q \in Requests, NEW p, NEW i, NEW a, NEW d,
           ImageStep(q, p, i, a, d), req[q].pc = "commit", NEW o \in Requests
    PROVE  Checks(o)'
<1> DEFINE row == [person[p] EXCEPT !.image = i]
           M == {}
<1>1. /\ Wrote(q, M, a, d) /\ RowsTyped' /\ p \in Live /\ person[p] \in PersonRows
      /\ row \in PersonRows /\ person' = [person EXCEPT ![p] = row]
      /\ a \in SUBSET Media /\ d \in SUBSET Media /\ UNCHANGED <<record>>
  BY DEF ImageStep
<1>2. row.phone = person[p].phone BY <1>1 DEF PersonRows
<1>3. p \in People BY <1>1 DEF Live
<1>4. UNCHANGED schedule BY DEF ImageStep
<1> HIDE DEF M, row
<1>5. Moves(q, M) BY <1>1, <1>2, <1>3, <1>4, PersonMoves DEF Checked
<1> QED BY <1>1, <1>5, MovesChecks

LEMMA PhonesKept ==
    ASSUME RowsTyped, NEW p, NEW D, person' = DeletedPerson(p, D)
    PROVE  \A x \in People : /\ x \in Live' <=> (x \in Live /\ x # p)
                             /\ x \in Live' => person'[x].phone = person[x].phone
<1> TAKE x \in People
<1>1. x \in Live' <=> (x \in Live /\ x # p) BY PersonDeleted
<1>2. ASSUME x \in Live' PROVE person'[x].phone = person[x].phone
  <2> DEFINE i == IF person[x].image \in D THEN None ELSE person[x].image
             row == [person[x] EXCEPT !.image = i, !.cards = person[x].cards \ D]
  <2>1. x \in Live /\ x # p BY <1>1, <1>2
  <2>2. person[x] \in PersonRows /\ person[x] # None BY <2>1 DEF RowsTyped, Live
  <2>3. person'[x] = row BY <2>1, <2>2 DEF DeletedPerson
  <2>4. row.phone = person[x].phone BY <2>2 DEF PersonRows
  <2> QED BY <2>3, <2>4
<1> QED BY <1>1, <1>2

LEMMA DeletePersonChecks ==
    ASSUME Checked, NEW q \in Requests, CommitDeletePerson(q), NEW o \in Requests
    PROVE  Checks(o)'
<1> DEFINE p == req[q].on
           D == req[q].doomed
           O == req[q].orphans
           M == {"people", "schedule"} \X (O \cup RecordsOf(p))
           e == {}
<1>1. /\ req[q].pc = "commit" /\ D \in SUBSET Media
      /\ person' = DeletedPerson(p, D) /\ record' = DeletedRecords(p, D, O)
      /\ Wrote(q, M, e, D)
  BY DeletePersonFacts DEF Checked, Safe
<1>2. \A r \in RecordsOf(p) : <<"people", r>> \in M OBVIOUS
<1>3. ~Over(q) BY <1>1, Ready DEF Checked
<1>4. RowsTyped BY RowsOfType DEF Checked, Safe, Typed
<1>5. e \in SUBSET Media OBVIOUS
<1> HIDE DEF p, D, O, M, e
<1>6. \A x \in People : /\ x \in Live' <=> (x \in Live /\ x # p)
                        /\ x \in Live' => person'[x].phone = person[x].phone
  <2>1. person' = DeletedPerson(p, D) BY <1>1
  <2> QED BY <1>4, <2>1, PhonesKept
<1>7. \A r \in Records :
         /\ r \in Recorded' <=> r \in Recorded /\ r \notin O
         /\ r \in Recorded' => /\ record'[r].people = record[r].people \ {p}
                               /\ record'[r].schedule = record[r].schedule
  BY <1>1, <1>4, RecordKept
<1>8. Live' \subseteq People /\ Live \subseteq People /\ Recorded' \subseteq Records BY DEF Live, Recorded
<1>9. \A r \in Recorded' : /\ r \in Recorded /\ record'[r].schedule = record[r].schedule
                           /\ <<"people", r>> \in M \/ record'[r].people = record[r].people
  BY <1>2, <1>7, <1>8 DEF RecordsOf
<1>10. ASSUME NEW x \in Live' PROVE x \in Live /\ person'[x].phone = person[x].phone
  <2>1. x \in People BY <1>8
  <2> QED BY <1>6, <2>1
<1>11. Moves(q, M) BY <1>3, <1>9, <1>10 DEF Moves
<1> QED BY <1>1, <1>5, <1>11, MovesChecks

\* Transactions that leave the people alone and delete no file, or a recording.
LEMMA RecordChecks ==
    ASSUME Checked, NEW q \in Requests, req[q].pc \in {"idle", "commit"},
           NEW M, NEW d \in SUBSET Media, NEW e, e = {}, Wrote(q, M, e, d), person' = person,
           \A r \in Recorded' :
              /\ \/ record'[r].schedule = None \/ <<"schedule", r>> \in M
                 \/ r \in Recorded /\ record'[r].schedule = record[r].schedule
              /\ \/ <<"people", r>> \in M
                 \/ r \in Recorded /\ record'[r].people = record[r].people,
           NEW o \in Requests
    PROVE  Checks(o)'
<1>1. Moves(q, M) BY RecordsMove DEF Checked
<1>2. e \in SUBSET Media OBVIOUS
<1> QED BY <1>1, <1>2, MovesChecks

LEMMA CreateTextRecordChecks ==
    ASSUME Checked, NEW q \in Requests, CreateTextRecord(q), NEW o \in Requests
    PROVE  Checks(o)'
<1> DEFINE M == {<<"people", q>>}
           e == {}
<1>1. req[q].pc = "idle" /\ UNCHANGED <<person, schedule, media>> /\ Wrote(q, M, e, e)
  <2>1. UNCHANGED schedule BY DEF CreateTextRecord
  <2> QED BY <2>1, CreateTextRecordFacts DEF Checked, Safe
<1>2. PICK row \in RecordRows : row.schedule = None /\ record' = [record EXCEPT ![q] = row]
  BY CreateTextRecordFacts DEF Checked, Safe
<1>3. RowsTyped BY RowsOfType DEF Checked, Safe, Typed
<1>4. q \in Records BY DEF Records
<1>5. record'[q] = row /\ \A r \in Records \ {q} : record'[r] = record[r]
  BY <1>2, <1>3, <1>4 DEF RowsTyped
<1>6. <<"people", q>> \in M /\ e \in SUBSET Media /\ e = {} OBVIOUS
<1> HIDE DEF M, e
<1>7. ASSUME NEW r \in Recorded'
      PROVE  /\ \/ record'[r].schedule = None \/ <<"schedule", r>> \in M
                \/ r \in Recorded /\ record'[r].schedule = record[r].schedule
             /\ \/ <<"people", r>> \in M
                \/ r \in Recorded /\ record'[r].people = record[r].people
  <2>1. CASE r = q BY <1>2, <1>5, <1>6, <2>1
  <2>2. CASE r # q
    <3>1. r \in Records /\ record'[r] # None BY DEF Recorded
    <3>2. record'[r] = record[r] /\ r \in Recorded BY <1>5, <2>2, <3>1 DEF Recorded
    <3> QED BY <3>2
  <2> QED BY <2>1, <2>2
<1> QED BY <1>1, <1>6, <1>7, RecordChecks

LEMMA UpdateRecordChecks ==
    ASSUME Checked, NEW q \in Requests, NEW type, UpdateRecord(q, type), NEW o \in Requests
    PROVE  Checks(o)'
<1> DEFINE e == {}
<1>1. req[q].pc = "idle" /\ UNCHANGED person BY UpdateRecordFacts DEF Checked, Safe
<1>2. PICK r \in Recorded, wanted \in SUBSET People :
         /\ record[r] \in RecordRows
         /\ record' = [record EXCEPT ![r] = [record[r] EXCEPT !.people = wanted]]
         /\ Wrote(q, {<<"people", r>>}, e, e)
  BY UpdateRecordFacts DEF Checked, Safe
<1> DEFINE M == {<<"people", r>>}
           row == [record[r] EXCEPT !.people = wanted]
<1>3. RowsTyped BY RowsOfType DEF Checked, Safe, Typed
<1>4. row.schedule = record[r].schedule BY <1>2 DEF RecordRows
<1>5. <<"people", r>> \in M /\ e \in SUBSET Media /\ e = {} /\ Wrote(q, M, e, e)
      /\ record' = [record EXCEPT ![r] = row]
  BY <1>2
<1> HIDE DEF M, e, row
<1>6. record'[r] = row /\ \A x \in Records \ {r} : record'[x] = record[x]
  BY <1>3, <1>5 DEF RowsTyped, Recorded
<1>7. ASSUME NEW x \in Recorded'
      PROVE  /\ \/ record'[x].schedule = None \/ <<"schedule", x>> \in M
                \/ x \in Recorded /\ record'[x].schedule = record[x].schedule
             /\ \/ <<"people", x>> \in M
                \/ x \in Recorded /\ record'[x].people = record[x].people
  <2>1. CASE x = r BY <1>4, <1>5, <1>6, <2>1
  <2>2. CASE x # r
    <3>1. x \in Records /\ record'[x] # None BY DEF Recorded
    <3>2. record'[x] = record[x] /\ x \in Recorded BY <1>6, <2>2, <3>1 DEF Recorded
    <3> QED BY <3>2
  <2> QED BY <2>1, <2>2
<1> QED BY <1>1, <1>5, <1>7, RecordChecks

LEMMA DeleteRecordChecks ==
    ASSUME Checked, NEW q \in Requests, DeleteRecord(q), NEW o \in Requests
    PROVE  Checks(o)'
<1> DEFINE e == {}
<1>1. req[q].pc = "idle" /\ UNCHANGED person BY DeleteRecordFacts DEF Checked, Safe
<1>2. PICK r \in Recorded :
        LET files == IF record[r].type = "VOICE" THEN Voice(r) ELSE {}
        IN  /\ files \in SUBSET Media /\ record' = [record EXCEPT ![r] = None]
            /\ Wrote(q, {"people", "schedule"} \X {r}, e, files)
  BY DeleteRecordFacts DEF Checked, Safe
<1> DEFINE M == {"people", "schedule"} \X {r}
           d == IF record[r].type = "VOICE" THEN Voice(r) ELSE {}
<1>3. d \in SUBSET Media /\ Wrote(q, M, e, d) /\ e = {} /\ record' = [record EXCEPT ![r] = None]
  BY <1>2
<1>4. RowsTyped BY RowsOfType DEF Checked, Safe, Typed
<1> HIDE DEF M, d, e
<1>5. record'[r] = None /\ \A x \in Records \ {r} : record'[x] = record[x]
  BY <1>3, <1>4 DEF RowsTyped, Recorded
<1>6. \A x \in Recorded' : x \in Recorded /\ record'[x] = record[x] BY <1>5 DEF Recorded
<1> QED BY <1>1, <1>3, <1>6, RecordChecks

LEMMA RelinkChecks ==
    ASSUME Checked, NEW q \in Requests, req[q].pc \in {"idle", "commit"},
           NEW S \in SUBSET Recorded, NEW v \in Schedules \cup {None}, record' = Relinked(S, v),
           NEW e, e = {}, NEW M, Wrote(q, M, e, e), UNCHANGED person,
           \A r \in S : v = None \/ <<"schedule", r>> \in M, NEW o \in Requests
    PROVE  Checks(o)'
<1>1. RowsTyped BY RowsOfType DEF Checked, Safe, Typed
<1>2. /\ Recorded' = Recorded
      /\ \A r \in Recorded : /\ record'[r].people = record[r].people
                             /\ record'[r].schedule = IF r \in S THEN v ELSE record[r].schedule
  <2>1. record' = Relinked(S, v) /\ S \in SUBSET Recorded /\ v \in Schedules \cup {None} OBVIOUS
  <2> QED BY <1>1, <2>1, RecordRelinked
<1>3. \A r \in Recorded' :
         /\ \/ record'[r].schedule = None \/ <<"schedule", r>> \in M
            \/ r \in Recorded /\ record'[r].schedule = record[r].schedule
         /\ \/ <<"people", r>> \in M
            \/ r \in Recorded /\ record'[r].people = record[r].people
  BY <1>2
<1> QED BY <1>3, RecordChecks

LEMMA CreateScheduleChecks ==
    ASSUME Checked, NEW q \in Requests, CommitCreateSchedule(q), NEW o \in Requests
    PROVE  Checks(o)'
<1> DEFINE r == req[q].on
           M == {"schedule"} \X ({r} \cap Records)
           e == {}
           S == {r} \cap Recorded
<1>1. /\ req[q].pc = "commit" /\ record' = Relinked(S, q) /\ UNCHANGED person /\ Wrote(q, M, e, e)
  BY CreateScheduleFacts DEF Checked, Safe
<1>2. \A x \in S : <<"schedule", x>> \in M BY DEF Recorded
<1>3. S \in SUBSET Recorded /\ q \in Schedules \cup {None} /\ e = {} BY DEF Schedules
<1> HIDE DEF S, M, e, r
<1> QED BY <1>1, <1>2, <1>3, RelinkChecks

LEMMA DeleteScheduleChecks ==
    ASSUME Checked, NEW q \in Requests, DeleteSchedule(q), NEW o \in Requests
    PROVE  Checks(o)'
<1> DEFINE e == {}
<1>1. req[q].pc = "idle" /\ UNCHANGED person BY DeleteScheduleFacts DEF Checked, Safe
<1>2. PICK S \in SUBSET Recorded :
        record' = Relinked(S, None) /\ Wrote(q, {"schedule"} \X S, e, e)
  BY DeleteScheduleFacts DEF Checked, Safe
<1> DEFINE M == {"schedule"} \X S
<1>3. Wrote(q, M, e, e) /\ e = {} BY <1>2
<1> HIDE DEF M, e
<1> QED BY <1>1, <1>2, <1>3, RelinkChecks

LEMMA UpdateScheduleChecks ==
    ASSUME Checked, NEW q \in Requests, UpdateSchedule(q), NEW o \in Requests
    PROVE  Checks(o)'
<1> DEFINE e == {}
<1>1. req[q].pc = "idle" /\ UNCHANGED <<person, record>> /\ Wrote(q, e, e, e)
  BY UpdateScheduleFacts DEF Checked, Safe
<1>2. e = {} /\ e \in SUBSET Media OBVIOUS
<1> HIDE DEF e
<1>3. Recorded' = Recorded BY <1>1 DEF Recorded
<1> QED BY <1>1, <1>2, <1>3, RecordChecks

-----------------------------------------------------------------------------
LEMMA CheckedInit == Init => Checked
<1> SUFFICES ASSUME Init PROVE Checked OBVIOUS
<1>1. Safe BY SafeInit
<1>2. \A q \in Requests : req[q].pc = "idle"
  <2> DEFINE st == [Fresh(None, None) EXCEPT !.pc = "idle"]
  <2>1. st.pc = "idle" BY DEF Fresh
  <2>2. req = [q \in Requests |-> st] BY DEF Init
  <2> HIDE DEF st
  <2> QED BY <2>1, <2>2
<1>3. \A q \in Requests : Checks(q)
  BY <1>2 DEF Checks, PhoneStillFree, StillUnlinked, StillOrphans, Busy
<1> QED BY <1>1, <1>3 DEF Checked

LEMMA StartChecks ==
    ASSUME Checked, NEW q \in Requests, Start(q) \/ Upload(q), NEW o \in Requests
    PROVE  Checks(o)'
<1>1. TypeOK /\ ReqType BY DEF Checked, Safe, Typed, TypeOK, ReqType
<1>2. CASE Start(q)
  <2>1. Began(q) /\ HasRead(q) BY <1>1, <1>2, StartFacts
  <2>2. Quiet(q) BY <2>1 DEF Began, Quiet
  <2>3. Checks(q)' BY <2>1, BeganChecks
  <2> QED BY <2>2, <2>3, QuietChecks
<1>3. CASE Upload(q)
  <2>1. Quiet(q) BY <1>1, <1>3, UploadFacts DEF Quiet
  <2>2. Checks(q)' BY <1>3, UploadChecks
  <2> QED BY <2>1, <2>2, QuietChecks
<1> QED BY <1>2, <1>3

LEMMA EndingChecks ==
    ASSUME Checked, NEW q \in Requests, Rollback(q) \/ Clean(q) \/ Crash(q), NEW o \in Requests
    PROVE  Checks(o)'
<1>1. ReqType /\ req[q].keys \in SUBSET Media
  BY RequestSets DEF Checked, Safe, Typed, TypeOK, ReqType
<1>2. Ends(q) /\ (req'[q] = Ended(req[q].keys) \/ req'[q] = Ended({}))
  BY <1>1, RollbackFacts, CleanFacts, CrashFacts
<1>3. Quiet(q) BY <1>2 DEF Ends, Quiet
<1>4. Checks(q)'
  <2>1. CASE req'[q] = Ended(req[q].keys) BY <1>1, <2>1, EndedChecks
  <2>2. CASE req'[q] = Ended({})
    <3>1. ~Busy(q)' BY <2>2, EndedOver
    <3> QED BY <3>1 DEF Checks, PhoneStillFree, StillUnlinked, StillOrphans
  <2> QED BY <1>2, <2>1, <2>2
<1> QED BY <1>3, <1>4, QuietChecks

LEMMA CommitChecks ==
    ASSUME Checked, NEW q \in Requests, Commit(q), NEW o \in Requests
    PROVE  Checks(o)'
<1>1. CASE CommitAddImage(q)
  <2>1. req[q].pc = "commit" /\ ImageStep(q, req[q].on, <<q, "profile">>, req[q].keys, {})
    BY <1>1, AddImageFacts DEF Checked, Safe
  <2> QED BY <2>1, ImageChecks
<1>2. CASE CommitReplaceImage(q)
  <2>1. /\ req[q].pc = "commit"
        /\ ImageStep(q, req[q].on, <<q, "profile">>, req[q].keys, req[q].doomed)
    BY <1>2, ReplaceImageFacts DEF Checked, Safe
  <2> QED BY <2>1, ImageChecks
<1>3. CASE CommitDeleteImage(q)
  <2>1. req[q].pc = "commit" /\ ImageStep(q, req[q].on, None, {}, req[q].doomed)
    BY <1>3, DeleteImageFacts DEF Checked, Safe
  <2> QED BY <2>1, ImageChecks
<1> QED BY <1>1, <1>2, <1>3, CreatePersonChecks, UpdatePersonChecks, DeletePersonChecks,
           CreateScheduleChecks, EndingChecks DEF Commit

LEMMA CheckedNext == Checked /\ [Next]_vars => Checked'
<1> SUFFICES ASSUME Checked, [Next]_vars PROVE Checked' OBVIOUS
<1>1. Safe' BY SafeNext DEF Checked
<1>2. ASSUME NEW o \in Requests PROVE Checks(o)'
  <2>1. CASE UNCHANGED vars
    <3>1. UNCHANGED <<person, record, req>> BY <2>1 DEF vars, rows
    <3>2. Live' = Live /\ Recorded' = Recorded BY <3>1 DEF Live, Recorded
    <3>3. Checks(o) BY DEF Checked
    <3> QED BY <3>1, <3>2, <3>3
       DEF Checks, PhoneStillFree, StillUnlinked, StillOrphans, Busy, PhoneIsFree
  <2>2. CASE Next
    <3>1. PICK q \in Requests :
            Start(q) \/ Upload(q) \/ Commit(q) \/ Short(q) \/ Clean(q) \/ Crash(q)
      BY <2>2 DEF Next
    <3>2. CASE Start(q) \/ Upload(q) BY <3>2, StartChecks
    <3>3. CASE Commit(q) BY <3>3, CommitChecks
    <3>4. CASE Short(q)
      BY <3>4, ImportChecks, CreateTextRecordChecks, UpdateRecordChecks, DeleteRecordChecks,
         UpdateScheduleChecks, DeleteScheduleChecks DEF Short, UpdateTextRecord, UpdateVoiceRecord
    <3>5. CASE Clean(q) \/ Crash(q) BY <3>5, EndingChecks
    <3> QED BY <3>1, <3>2, <3>3, <3>4, <3>5
  <2> QED BY <2>1, <2>2
<1> QED BY <1>1, <1>2 DEF Checked

LEMMA CheckedAlways == Spec => []Checked
BY CheckedInit, CheckedNext, PTL DEF Spec

-----------------------------------------------------------------------------
(* Whose transaction it was                                                *)

\* Another request's step leaves q's program counter alone.
LEMMA WroteOthers ==
    ASSUME NEW o \in Requests, NEW q \in Requests \ {o}, NEW M, NEW a, NEW d, Wrote(o, M, a, d)
    PROVE  req'[q].pc = req[q].pc
BY DEF Wrote, Marked

LEMMA CommitOthers ==
    ASSUME Safe, NEW o \in Requests, NEW q \in Requests \ {o}, Commit(o)
    PROVE  req'[q].pc = req[q].pc
<1>1. Typed /\ ReqType BY DEF Safe, Typed, TypeOK, ReqType
<1>2. CASE CommitCreatePerson(o)
  <2>1. Wrote(o, {<<"phone", req[o].phone>>}, req[o].keys, {}) BY <1>1, <1>2, CreatePersonFacts
  <2> QED BY <2>1, WroteOthers
<1>3. CASE CommitUpdatePerson(o)
  <2>1. \E M, e : Wrote(o, M, e, e) BY <1>1, <1>3, UpdatePersonFacts
  <2> QED BY <2>1, WroteOthers
<1>4. CASE CommitAddImage(o) \/ CommitReplaceImage(o) \/ CommitDeleteImage(o)
  <2>1. \E M, a, d : Wrote(o, M, a, d)
    BY <1>1, <1>4, AddImageFacts, ReplaceImageFacts, DeleteImageFacts DEF ImageStep
  <2> QED BY <2>1, WroteOthers
<1>5. CASE CommitDeletePerson(o)
  <2>1. \E M, a, d : Wrote(o, M, a, d) BY <1>1, <1>5, DeletePersonFacts
  <2> QED BY <2>1, WroteOthers
<1>6. CASE CommitCreateSchedule(o)
  <2>1. \E M, a, d : Wrote(o, M, a, d) BY <1>1, <1>6, CreateScheduleFacts
  <2> QED BY <2>1, WroteOthers
<1>7. CASE Rollback(o) BY <1>1, <1>7, RollbackFacts DEF Ends
<1> QED BY <1>2, <1>3, <1>4, <1>5, <1>6, <1>7 DEF Commit

LEMMA ShortOthers ==
    ASSUME Safe, NEW o \in Requests, NEW q \in Requests \ {o}, Short(o)
    PROVE  req'[q].pc = req[q].pc
<1>1. Typed BY DEF Safe
<1>2. CASE ImportPeople(o)
  <2>1. \E M, a, d : Wrote(o, M, a, d) BY <1>1, <1>2, ImportFacts
  <2> QED BY <2>1, WroteOthers
<1>3. CASE CreateTextRecord(o)
  <2>1. \E M, a, d : Wrote(o, M, a, d) BY <1>1, <1>3, CreateTextRecordFacts
  <2> QED BY <2>1, WroteOthers
<1>4. CASE UpdateTextRecord(o) \/ UpdateVoiceRecord(o)
  <2>1. \E M, a, d : Wrote(o, M, a, d)
    BY <1>1, <1>4, UpdateRecordFacts DEF UpdateTextRecord, UpdateVoiceRecord
  <2> QED BY <2>1, WroteOthers
<1>5. CASE DeleteRecord(o)
  <2>1. \E M, a, d : Wrote(o, M, a, d) BY <1>1, <1>5, DeleteRecordFacts
  <2> QED BY <2>1, WroteOthers
<1>6. CASE UpdateSchedule(o)
  <2>1. Wrote(o, {}, {}, {}) BY <1>1, <1>6, UpdateScheduleFacts
  <2> QED BY <2>1, WroteOthers
<1>7. CASE DeleteSchedule(o)
  <2>1. \E M, a, d : Wrote(o, M, a, d) BY <1>1, <1>7, DeleteScheduleFacts
  <2> QED BY <2>1, WroteOthers
<1> QED BY <1>2, <1>3, <1>4, <1>5, <1>6, <1>7 DEF Short

\* A request leaves "commit" by its own transaction, or in a crash.
LEMMA OwnCommit ==
    ASSUME Safe, NEW q \in Requests, [Next]_vars, req[q].pc = "commit", req'[q].pc # "commit"
    PROVE  Commit(q) \/ Crash(q)
<1>1. TypeOK /\ ReqType BY DEF Safe, Typed, TypeOK, ReqType
<1>2. Next BY DEF vars
<1>3. PICK o \in Requests :
        Start(o) \/ Upload(o) \/ Commit(o) \/ Short(o) \/ Clean(o) \/ Crash(o)
  BY <1>2 DEF Next
<1>4. CASE Start(o)
  <2>1. Began(o) BY <1>1, <1>4, StartFacts
  <2> QED BY <2>1 DEF Began
<1>5. CASE Upload(o) BY <1>1, <1>5, UploadFacts
<1>6. CASE Commit(o) BY <1>6, CommitOthers
<1>7. CASE Short(o)
  <2>1. req[o].pc = "idle"
    BY <1>7 DEF Short, ImportPeople, CreateTextRecord, UpdateTextRecord, UpdateVoiceRecord,
       UpdateRecord, DeleteRecord, UpdateSchedule, DeleteSchedule, OneStep
  <2> QED BY <1>7, <2>1, ShortOthers
<1>8. CASE Clean(o) BY <1>1, <1>8, CleanFacts DEF Ends
<1>9. CASE Crash(o) BY <1>1, <1>9, CrashFacts DEF Ends
<1> QED BY <1>3, <1>4, <1>5, <1>6, <1>7, <1>8, <1>9

LEMMA OwnWrite ==
    ASSUME Safe, NEW q \in Requests, [Next]_vars, req[q].pc = "commit", req'[q].pc # "commit",
           person' # person \/ record' # record
    PROVE  /\ req[q].op = "createPerson" => CommitCreatePerson(q)
           /\ req[q].op = "updatePerson" => CommitUpdatePerson(q)
           /\ req[q].op = "deletePerson" => CommitDeletePerson(q)
           /\ req[q].op = "createSchedule" => CommitCreateSchedule(q)
<1>1. ReqType BY DEF Safe, Typed, TypeOK, ReqType
<1>2. Commit(q) \/ Crash(q) BY OwnCommit
<1>3. ~Crash(q) BY <1>1, CrashFacts DEF Ends
<1>4. ~Rollback(q) BY <1>1, RollbackFacts DEF Ends
<1> QED BY <1>2, <1>3, <1>4
   DEF Commit, Commits, CommitCreatePerson, CommitUpdatePerson, CommitAddImage, CommitReplaceImage,
       CommitDeleteImage, CommitDeletePerson, CommitCreateSchedule

-----------------------------------------------------------------------------
\* deletePerson deletes exactly the records nobody else is in, among those whose people
\* did not change between its plan and its transaction.
THEOREM DeletesExactlyOrphansHolds == Spec => DeletesExactlyOrphans
<1>1. ASSUME Checked, [Next]_vars, NEW q \in Requests, req[q].op = "deletePerson",
             req[q].pc = "commit", req[q].on \in Live, person'[req[q].on] = None,
             req'[q].pc # "commit", NEW r \in Recorded, <<"people", r>> \notin req[q].late
      PROVE  record'[r] = None <=> record[r].people = {req[q].on}
  <2> DEFINE p == req[q].on
             D == req[q].doomed
             O == req[q].orphans
  <2>1. Safe BY <1>1 DEF Checked
  <2>2. person' # person BY <1>1 DEF Live
  <2>3. CommitDeletePerson(q) BY <1>1, <2>1, <2>2, OwnWrite
  <2>4. record' = DeletedRecords(p, D, O) BY <2>1, <2>3, DeletePersonFacts DEF Safe
  <2>5. r \in O <=> record[r].people = {p}
    BY <1>1 DEF Checked, Checks, StillOrphans, Busy
  <2>6. RowsTyped BY <2>1, RowsOfType DEF Safe, Typed
  <2> HIDE DEF p, D, O
  <2>7. \A x \in Records : x \in Recorded' <=> (x \in Recorded /\ x \notin O)
    BY <2>4, <2>6, RecordKept
  <2>8. r \in Records /\ (r \in Recorded' <=> record'[r] # None) BY DEF Recorded
  <2>9. record'[r] = None <=> r \in O BY <2>7, <2>8
  <2> QED BY <2>5, <2>9 DEF p
<1>2. Checked /\ [Next]_vars =>
        \A q \in Requests :
           LET me == req[q]
           IN  me.op = "deletePerson" /\ me.pc = "commit" /\ me.on \in Live /\ person'[me.on] = None
                   /\ req'[q].pc # "commit"
               => \A r \in Recorded :
                      <<"people", r>> \notin me.late
                          => (record'[r] = None <=> record[r].people = {me.on})
  BY <1>1
<1> QED BY <1>2, CheckedAlways, PTL DEF Spec, DeletesExactlyOrphans

\* Writing one row of people with a number that is free, or that it has, shares no number anew.
LEMMA SharedPhones ==
    ASSUME RowsTyped, NEW p \in People, NEW row \in PersonRows, person' = [person EXCEPT ![p] = row],
           \/ p \in Live /\ row.phone = person[p].phone
           \/ \A x \in Live : person[x].phone = row.phone => x = p,
           NEW x \in People, NEW y \in People, x # y, person'[x] # None, person'[y] # None,
           person'[x].phone = person'[y].phone
    PROVE  x \in Live /\ y \in Live /\ person[x].phone = person[y].phone
<1>1. person'[p] = row /\ \A z \in People \ {p} : person'[z] = person[z] BY DEF RowsTyped
<1>2. CASE x = p
  <2>1. y \in Live /\ person[y].phone = row.phone /\ y # p BY <1>1, <1>2 DEF Live
  <2> QED BY <1>2, <2>1
<1>3. CASE y = p
  <2>1. x \in Live /\ person[x].phone = row.phone /\ x # p BY <1>1, <1>3 DEF Live
  <2> QED BY <1>3, <2>1
<1>4. CASE x # p /\ y # p BY <1>1, <1>4 DEF Live
<1> QED BY <1>2, <1>3, <1>4

\* Creating or updating a person makes no two people share a number, unless that number
\* moved between the check and the transaction.
THEOREM PhoneTakenOnceHolds == Spec => PhoneTakenOnce
<1>1. ASSUME Checked, [Next]_vars, NEW q \in Requests, req[q].op \in {"createPerson", "updatePerson"},
             req[q].pc = "commit", person' # person, req'[q].pc # "commit",
             <<"phone", req[q].phone>> \notin req[q].late,
             NEW x \in People, NEW y \in People, x # y, person'[x] # None, person'[y] # None,
             person'[x].phone = person'[y].phone
      PROVE  x \in Live /\ y \in Live /\ person[x].phone = person[y].phone
  <2>1. Safe BY <1>1 DEF Checked
  <2>2. RowsTyped BY <2>1, RowsOfType DEF Safe, Typed
  <2>3. PhoneStillFree(q) /\ Busy(q) BY <1>1 DEF Checked, Checks, Busy
  <2>4. CASE req[q].op = "createPerson"
    <3>1. CommitCreatePerson(q) BY <1>1, <2>1, <2>4, OwnWrite
    <3>2. CreatedRow(q) \in PersonRows /\ person' = [person EXCEPT ![q] = CreatedRow(q)]
      BY <2>1, <3>1, CreatePersonFacts DEF Safe
    <3>3. CreatedRow(q).phone = req[q].phone /\ q \in People BY DEF CreatedRow, People
    <3>4. \A z \in Live : person[z].phone # req[q].phone
      BY <1>1, <2>3, <2>4 DEF PhoneStillFree, PhoneIsFree
    <3> QED BY <1>1, <2>2, <3>2, <3>3, <3>4, SharedPhones
  <2>5. CASE req[q].op = "updatePerson"
    <3> DEFINE p == req[q].on
               row == [person[p] EXCEPT !.phone = req[q].phone]
    <3>1. CommitUpdatePerson(q) BY <1>1, <2>1, <2>5, OwnWrite
    <3>2. /\ p \in Live /\ person[p] \in PersonRows /\ row \in PersonRows
          /\ person' = [person EXCEPT ![p] = row]
      BY <2>1, <3>1, UpdatePersonFacts DEF Safe
    <3>3. row.phone = req[q].phone /\ p \in People BY <3>2 DEF PersonRows, Live
    <3>4. \/ person[p].phone = req[q].phone
          \/ \A z \in Live : person[z].phone = req[q].phone => z = p
      BY <1>1, <2>3, <2>5, <3>2 DEF PhoneStillFree, PhoneIsFree
    <3> HIDE DEF row, p
    <3> QED BY <1>1, <2>2, <3>2, <3>3, <3>4, SharedPhones
  <2> QED BY <1>1, <2>4, <2>5
<1>2. Checked /\ [Next]_vars =>
        \A q \in Requests :
           LET me == req[q]
           IN  me.op \in {"createPerson", "updatePerson"} /\ me.pc = "commit" /\ person' # person
                   /\ req'[q].pc # "commit" /\ <<"phone", me.phone>> \notin me.late
               => \A p, o \in People :
                      p # o /\ person'[p] # None /\ person'[o] # None
                            /\ person'[p].phone = person'[o].phone
                          => p \in Live /\ o \in Live /\ person[p].phone = person[o].phone
  BY <1>1
<1> QED BY <1>2, CheckedAlways, PTL DEF Spec, PhoneTakenOnce

\* createSchedule takes no record away from the schedule it has, unless the link changed
\* between the check and the transaction.
THEOREM RecordKeepsItsScheduleHolds == Spec => RecordKeepsItsSchedule
<1>1. ASSUME Checked, [Next]_vars, NEW q \in Requests, req[q].op = "createSchedule",
             record' # record, req'[q].pc # "commit", req[q].pc = "commit",
             <<"schedule", req[q].on>> \notin req[q].late, NEW r \in Recorded
      PROVE  record'[r] = record[r] \/ record[r].schedule = None
  <2>1. Safe BY <1>1 DEF Checked
  <2>2. CommitCreateSchedule(q) BY <1>1, <2>1, OwnWrite
  <2>3. record' = Relinked({req[q].on} \cap Recorded, q) BY <2>1, <2>2, CreateScheduleFacts DEF Safe
  <2>4. CASE r = req[q].on
    BY <1>1, <2>4 DEF Checked, Checks, StillUnlinked, Busy
  <2>5. CASE r # req[q].on BY <2>3, <2>5 DEF Relinked, Recorded
  <2> QED BY <2>4, <2>5
<1>2. Checked /\ [Next]_vars =>
        \A q \in Requests :
           LET me == req[q]
           IN  me.op = "createSchedule" /\ record' # record /\ req'[q].pc # "commit"
                   /\ me.pc = "commit" /\ <<"schedule", me.on>> \notin me.late
               => \A r \in Recorded : record'[r] = record[r] \/ record[r].schedule = None
  BY <1>1
<1> QED BY <1>2, CheckedAlways, PTL DEF Spec, RecordKeepsItsSchedule
=============================================================================

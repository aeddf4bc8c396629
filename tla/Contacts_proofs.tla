-------------------------- MODULE Contacts_proofs --------------------------
(***************************************************************************)
(* Theorems about Contacts: for any number of requests and any faults.     *)
(* The invariant is proved in layers; each layer uses the ones before it.  *)
(***************************************************************************)
EXTENDS Contacts, FiniteSetTheorems, TLAPS

Over(q) == req[q].pc \in {"clean", "done"}
Busy(q) == req[q].pc \in {"upload", "commit"}

-----------------------------------------------------------------------------
(* What the helper actions do to the requests                              *)

ReqType == req \in [Requests -> RequestStates]

LEMMA EndedFields ==
    ASSUME NEW K \in SUBSET Media
    PROVE  /\ Ended(K) \in RequestStates
           /\ Ended(K).pc = IF K = {} THEN "done" ELSE "clean"
           /\ Ended(K).keys = K
BY DEF Ended, Fresh, RequestStates, Pcs

\* A request that another one's transaction only marks.
Marked(q, marks) ==
    /\ req'[q].pc = req[q].pc /\ req'[q].op = req[q].op /\ req'[q].on = req[q].on
    /\ req'[q].phone = req[q].phone /\ req'[q].people = req[q].people
    /\ req'[q].todo = req[q].todo /\ req'[q].keys = req[q].keys
    /\ req'[q].doomed = req[q].doomed /\ req'[q].orphans = req[q].orphans
    /\ req'[q].late = IF Busy(q) THEN req[q].late \cup marks ELSE req[q].late

LEMMA SettleFacts ==
    ASSUME ReqType, NEW q \in Requests, NEW K \in SUBSET Media, NEW M \in SUBSET Marks,
           Settle(q, K, M)
    PROVE  /\ ReqType'
           /\ req'[q] = Ended(K)
           /\ \A o \in Requests \ {q} : Marked(o, M)
<1>1. req'[q] = Ended(K) BY DEF Settle
<1>2. Ended(K) \in RequestStates BY EndedFields
<1>3. ASSUME NEW o \in Requests \ {q}
      PROVE  req'[o] \in RequestStates /\ Marked(o, M)
  <2>1. req[o] \in RequestStates BY DEF ReqType
  <2>2. req'[o] = IF Busy(o) THEN [req[o] EXCEPT !.late = @ \cup M] ELSE req[o]
    BY <1>3 DEF Settle, Busy
  <2>3. CASE Busy(o)
    <3> DEFINE r == [req[o] EXCEPT !.late = @ \cup M]
    <3>1. r \in RequestStates BY <2>1 DEF RequestStates
    <3>2. req'[o] = r BY <2>2, <2>3
    <3>3. /\ r.pc = req[o].pc /\ r.op = req[o].op /\ r.on = req[o].on /\ r.phone = req[o].phone
          /\ r.people = req[o].people /\ r.todo = req[o].todo /\ r.keys = req[o].keys
          /\ r.doomed = req[o].doomed /\ r.orphans = req[o].orphans
          /\ r.late = req[o].late \cup M
      BY <2>1 DEF RequestStates
    <3> QED BY <3>1, <3>2, <3>3, <2>3 DEF Marked
  <2>4. CASE ~Busy(o) BY <2>1, <2>2, <2>4 DEF Marked
  <2> QED BY <2>3, <2>4
<1>4. req' = [o \in Requests |-> req'[o]] BY DEF Settle
<1> QED BY <1>1, <1>2, <1>3, <1>4 DEF ReqType

LEMMA CommittedFacts ==
    ASSUME ReqType, leaked \subseteq Media, ackLost \subseteq Media, NEW q \in Requests,
           NEW attached \in SUBSET Media, NEW detached \in SUBSET Media, NEW M \in SUBSET Marks,
           Committed(q, attached, detached, M)
    PROVE  /\ ReqType'
           /\ leaked' \subseteq Media /\ ackLost' \subseteq Media
           /\ \A o \in Requests \ {q} : Marked(o, M)
           /\ \/ req'[q] = Ended(detached) /\ leaked' = leaked /\ ackLost' = ackLost
              \/ /\ req'[q] = Ended(attached)
                 /\ leaked' = leaked \cup detached /\ ackLost' = ackLost \cup attached
BY SettleFacts DEF Committed

LEMMA BeginFacts ==
    ASSUME ReqType, NEW q \in Requests, NEW state \in RequestStates, Begin(q, state)
    PROVE  /\ ReqType'
           /\ req[q].pc = "idle"
           /\ req'[q].pc = (IF state.todo = {} THEN "commit" ELSE "upload")
           /\ req'[q].op = state.op /\ req'[q].on = state.on /\ req'[q].phone = state.phone
           /\ req'[q].people = state.people /\ req'[q].todo = state.todo
           /\ req'[q].keys = state.keys /\ req'[q].doomed = state.doomed
           /\ req'[q].orphans = state.orphans /\ req'[q].late = state.late
           /\ \A o \in Requests \ {q} : req'[o] = req[o]
           /\ UNCHANGED <<person, record, schedule, media, objects, leaked, stray, ackLost>>
<1> DEFINE pc == IF state.todo = {} THEN "commit" ELSE "upload"
<1> DEFINE st == [state EXCEPT !.pc = pc]
<1>1. req' = [req EXCEPT ![q] = st] BY DEF Begin
<1>2. /\ st \in RequestStates
      /\ st.pc = pc /\ st.op = state.op /\ st.on = state.on /\ st.phone = state.phone
      /\ st.people = state.people /\ st.todo = state.todo /\ st.keys = state.keys
      /\ st.doomed = state.doomed /\ st.orphans = state.orphans /\ st.late = state.late
  BY DEF RequestStates, Pcs
<1> HIDE DEF st
<1>3. req'[q] = st /\ ReqType' /\ \A o \in Requests \ {q} : req'[o] = req[o]
  BY <1>1, <1>2 DEF ReqType
<1> QED BY <1>2, <1>3 DEF Begin, rows, ghosts

LEMMA AbandonFacts ==
    ASSUME ReqType, NEW q \in Requests, Abandon(q)
    PROVE  /\ ReqType'
           /\ req'[q] = Ended(req[q].keys)
           /\ \A o \in Requests \ {q} : req'[o] = req[o]
<1>1. req[q].keys \in SUBSET Media BY DEF ReqType, RequestStates
<1>2. Ended(req[q].keys) \in RequestStates BY <1>1, EndedFields
<1> HIDE DEF Ended
<1> QED BY <1>2 DEF Abandon, ReqType

\* A request has read, and everything else is as before.
Began(q) ==
    /\ req[q].pc = "idle" /\ req'[q].pc = (IF req'[q].todo = {} THEN "commit" ELSE "upload")
    /\ req'[q].keys = {} /\ req'[q].late = {}
    /\ ReqType' /\ \A o \in Requests \ {q} : req'[o] = req[o]
    /\ UNCHANGED <<person, record, schedule, media, objects, leaked, stray, ackLost>>

\* What it has read, by operation.
HasRead(q) ==
    LET me == req'[q]
    IN  \/ /\ me.op = "createPerson" /\ me.on = q /\ me.todo \subseteq {q} \X CreateFiles
           /\ me.doomed = {} /\ me.orphans = {}
           /\ me.phone \in Phones /\ PhoneIsFree(me.phone, {})
        \/ /\ me.op = "updatePerson" /\ me.on \in Live /\ me.todo = {}
           /\ me.doomed = {} /\ me.orphans = {}
           /\ me.phone \in Phones
           /\ person[me.on].phone # me.phone => PhoneIsFree(me.phone, {me.on})
        \/ /\ me.op = "addImage" /\ me.on \in Live /\ me.todo = {<<q, "profile">>}
           /\ me.doomed = {} /\ me.orphans = {}
        \/ /\ me.op = "replaceImage" /\ me.on \in Live /\ me.todo = {<<q, "profile">>}
           /\ me.doomed = Face(me.on) /\ Face(me.on) # {} /\ me.orphans = {}
        \/ /\ me.op = "deleteImage" /\ me.on \in Live /\ me.todo = {}
           /\ me.doomed = Face(me.on) /\ Face(me.on) # {} /\ me.orphans = {}
        \/ /\ me.op = "deletePerson" /\ me.on \in Live /\ me.todo = {}
           /\ me.doomed = PlannedMedia(me.on) /\ me.orphans = Orphans(me.on)
        \/ /\ me.op = "createSchedule" /\ me.on \in Records \cup {None} /\ me.todo = {}
           /\ me.doomed = {} /\ me.orphans = {}
           /\ RecordCanBeLinked(me.on)

LEMMA FreshFields ==
    ASSUME NEW op \in Ops, NEW on \in People \cup Records \cup {None}
    PROVE  Fresh(op, on) \in RequestStates
BY DEF Fresh, RequestStates, Pcs

LEMMA MediaSets ==
    ASSUME TypeOK, NEW p \in Live
    PROVE  /\ Face(p) \in SUBSET Media /\ Cards(p) \in SUBSET Media
           /\ PlannedMedia(p) \in SUBSET Media /\ Orphans(p) \in SUBSET Records
<1>1. Face(p) \in SUBSET Media /\ Cards(p) \in SUBSET Media
  BY DEF TypeOK, Face, Cards, Live, PersonRows
<1>2. \A r \in Records : Voice(r) \in SUBSET Media
  BY DEF TypeOK, Voice, Recorded, RecordRows
<1>3. Orphans(p) \in SUBSET Records
  BY DEF Orphans, RecordsOf, Recorded
<1> QED BY <1>1, <1>2, <1>3 DEF PlannedMedia

LEMMA StartFacts ==
    ASSUME TypeOK, NEW q \in Requests, Start(q)
    PROVE  Began(q) /\ HasRead(q)
<1> USE DEF TypeOK
<1>0. ReqType /\ q \in People BY DEF ReqType, People
<1>1. CASE CreatePerson(q)
  <2>1. PICK a \in Phones, files \in SUBSET CreateFiles :
          /\ PhoneIsFree(a, {})
          /\ Begin(q, [Fresh("createPerson", q) EXCEPT !.phone = a, !.todo = {q} \X files])
    BY <1>1 DEF CreatePerson
  <2> DEFINE st == [Fresh("createPerson", q) EXCEPT !.phone = a, !.todo = {q} \X files]
  <2>2. {q} \X files \in SUBSET Media /\ {q} \X files \subseteq {q} \X CreateFiles
    BY <1>0 DEF Media, Usages
  <2>3. /\ st \in RequestStates /\ st.op = "createPerson" /\ st.on = q /\ st.phone = a
        /\ st.todo = {q} \X files /\ st.keys = {} /\ st.doomed = {} /\ st.orphans = {} /\ st.late = {}
    BY <2>2, <1>0 DEF Fresh, RequestStates, Pcs, Ops
  <2> HIDE DEF st
  <2>4. Begin(q, st) BY <2>1 DEF st
  <2>5. Began(q) /\ req'[q].phone = a BY <1>0, <2>3, <2>4, BeginFacts DEF Began
  <2>6. PhoneIsFree(req'[q].phone, {}) BY <2>1, <2>5 DEF PhoneIsFree
  <2> QED BY <1>0, <2>2, <2>3, <2>4, <2>5, <2>6, BeginFacts DEF HasRead
<1>2. CASE UpdatePerson(q)
  <2>1. PICK p \in Live, a \in Phones :
          /\ person[p].phone # a => PhoneIsFree(a, {p})
          /\ Begin(q, [Fresh("updatePerson", p) EXCEPT !.phone = a])
    BY <1>2 DEF UpdatePerson
  <2> DEFINE st == [Fresh("updatePerson", p) EXCEPT !.phone = a]
  <2>3. /\ st \in RequestStates /\ st.op = "updatePerson" /\ st.on = p /\ st.phone = a
        /\ st.todo = {} /\ st.keys = {} /\ st.doomed = {} /\ st.orphans = {} /\ st.late = {}
    BY DEF Fresh, RequestStates, Pcs, Ops, Live
  <2> HIDE DEF st
  <2>4. Begin(q, st) BY <2>1 DEF st
  <2>5. Began(q) /\ req'[q].phone = a /\ req'[q].on = p BY <1>0, <2>3, <2>4, BeginFacts DEF Began
  <2>6. person[req'[q].on].phone # req'[q].phone => PhoneIsFree(req'[q].phone, {req'[q].on})
    <3>1. \A x \in Live : person[x].phone = a => person[p].phone = a \/ x = p
      BY <2>1 DEF PhoneIsFree
    <3> QED BY <2>5, <3>1 DEF PhoneIsFree
  <2> QED BY <1>0, <2>3, <2>4, <2>5, <2>6, BeginFacts DEF HasRead
<1>3. CASE AddProfileImage(q)
  <2>1. PICK p \in Live : Begin(q, [Fresh("addImage", p) EXCEPT !.todo = {<<q, "profile">>}])
    BY <1>3 DEF AddProfileImage
  <2> DEFINE st == [Fresh("addImage", p) EXCEPT !.todo = {<<q, "profile">>}]
  <2>3. /\ st \in RequestStates /\ st.op = "addImage" /\ st.on = p
        /\ st.todo = {<<q, "profile">>} /\ st.keys = {} /\ st.doomed = {} /\ st.orphans = {} /\ st.late = {}
    BY <1>0 DEF Fresh, RequestStates, Pcs, Ops, Live, Media, Usages, CreateFiles
  <2> HIDE DEF st
  <2>4. Begin(q, st) BY <2>1 DEF st
  <2> QED BY <1>0, <2>1, <2>3, <2>4, BeginFacts DEF Began, HasRead
<1>4. CASE ReplaceProfileImage(q)
  <2>1. PICK p \in Live : /\ HasPicture(p)
                          /\ Begin(q, [Fresh("replaceImage", p) EXCEPT !.todo = {<<q, "profile">>}, !.doomed = Face(p)])
    BY <1>4 DEF ReplaceProfileImage
  <2> DEFINE st == [Fresh("replaceImage", p) EXCEPT !.todo = {<<q, "profile">>}, !.doomed = Face(p)]
  <2>2. Face(p) \in SUBSET Media /\ {<<q, "profile">>} \in SUBSET Media
    BY <1>0, MediaSets DEF Media, Usages, CreateFiles
  <2>3. /\ st \in RequestStates /\ st.op = "replaceImage" /\ st.on = p
        /\ st.todo = {<<q, "profile">>} /\ st.keys = {} /\ st.doomed = Face(p) /\ st.orphans = {} /\ st.late = {}
    BY <1>0, <2>2 DEF Fresh, RequestStates, Pcs, Ops, Live
  <2> HIDE DEF st
  <2>4. Begin(q, st) BY <2>1 DEF st
  <2> QED BY <1>0, <2>1, <2>3, <2>4, BeginFacts DEF Began, HasRead, HasPicture
<1>5. CASE DeleteProfileImage(q)
  <2>1. PICK p \in Live : HasPicture(p) /\ Begin(q, [Fresh("deleteImage", p) EXCEPT !.doomed = Face(p)])
    BY <1>5 DEF DeleteProfileImage
  <2> DEFINE st == [Fresh("deleteImage", p) EXCEPT !.doomed = Face(p)]
  <2>2. Face(p) \in SUBSET Media BY MediaSets
  <2>3. /\ st \in RequestStates /\ st.op = "deleteImage" /\ st.on = p
        /\ st.todo = {} /\ st.keys = {} /\ st.doomed = Face(p) /\ st.orphans = {} /\ st.late = {}
    BY <1>0, <2>2 DEF Fresh, RequestStates, Pcs, Ops, Live
  <2> HIDE DEF st
  <2>4. Begin(q, st) BY <2>1 DEF st
  <2> QED BY <1>0, <2>1, <2>3, <2>4, BeginFacts DEF Began, HasRead, HasPicture
<1>6. CASE DeletePerson(q)
  <2>1. PICK p \in Live :
          Begin(q, [Fresh("deletePerson", p) EXCEPT !.doomed = PlannedMedia(p), !.orphans = Orphans(p)])
    BY <1>6 DEF DeletePerson
  <2> DEFINE st == [Fresh("deletePerson", p) EXCEPT !.doomed = PlannedMedia(p), !.orphans = Orphans(p)]
  <2>2. PlannedMedia(p) \in SUBSET Media /\ Orphans(p) \in SUBSET Records BY MediaSets
  <2>3. /\ st \in RequestStates /\ st.op = "deletePerson" /\ st.on = p
        /\ st.todo = {} /\ st.keys = {} /\ st.doomed = PlannedMedia(p) /\ st.orphans = Orphans(p)
        /\ st.late = {}
    BY <1>0, <2>2 DEF Fresh, RequestStates, Pcs, Ops, Live
  <2> HIDE DEF st
  <2>4. Begin(q, st) BY <2>1 DEF st
  <2> QED BY <1>0, <2>1, <2>3, <2>4, BeginFacts DEF Began, HasRead
<1>7. CASE CreateSchedule(q)
  <2>1. PICK wanted \in Linkable, r \in Records \cup {None} :
          RecordCanBeLinked(r) /\ Begin(q, [Fresh("createSchedule", r) EXCEPT !.people = wanted])
    BY <1>7 DEF CreateSchedule
  <2> DEFINE st == [Fresh("createSchedule", r) EXCEPT !.people = wanted]
  <2>3. /\ st \in RequestStates /\ st.op = "createSchedule" /\ st.on = r
        /\ st.todo = {} /\ st.keys = {} /\ st.doomed = {} /\ st.orphans = {} /\ st.late = {}
    BY DEF Fresh, RequestStates, Pcs, Ops, Live, Linkable
  <2> HIDE DEF st
  <2>4. Begin(q, st) BY <2>1 DEF st
  <2> QED BY <1>0, <2>1, <2>3, <2>4, BeginFacts DEF Began, HasRead
<1> QED BY <1>1, <1>2, <1>3, <1>4, <1>5, <1>6, <1>7 DEF Start

\* A file is stored, or the upload fails.
Stored(q, f) ==
    /\ objects' = objects \cup {f} /\ leaked' = leaked
    /\ req'[q].pc = (IF req[q].todo = {f} THEN "commit" ELSE "upload")
    /\ req'[q].keys = req[q].keys \cup {f} /\ req'[q].todo = req[q].todo \ {f}
    /\ req'[q].op = req[q].op /\ req'[q].on = req[q].on /\ req'[q].phone = req[q].phone
    /\ req'[q].people = req[q].people /\ req'[q].doomed = req[q].doomed
    /\ req'[q].orphans = req[q].orphans /\ req'[q].late = req[q].late
NotStored(q, f) ==
    /\ req'[q] = Ended(req[q].keys)
    /\ \/ objects' = objects /\ leaked' = leaked
       \/ objects' = objects \cup {f} /\ leaked' = leaked \cup {f}

LEMMA UploadFacts ==
    ASSUME ReqType, NEW q \in Requests, Upload(q)
    PROVE  /\ req[q].pc = "upload" /\ ReqType'
           /\ \A o \in Requests \ {q} : req'[o] = req[o]
           /\ \E f \in req[q].todo : f \in Media /\ (Stored(q, f) \/ NotStored(q, f))
           /\ UNCHANGED <<person, record, schedule, media, stray, ackLost>>
<1>0. req[q] \in RequestStates /\ req[q].keys \in SUBSET Media BY DEF ReqType, RequestStates
<1>1. PICK f \in req[q].todo :
        \/ /\ objects' = objects \cup {f} /\ UNCHANGED leaked
           /\ req' = [req EXCEPT ![q].keys = @ \cup {f}, ![q].todo = @ \ {f},
                                 ![q].pc = IF req[q].todo = {f} THEN "commit" ELSE "upload"]
        \/ /\ "s3" \in Faults /\ Abandon(q)
           /\ \/ UNCHANGED <<objects, leaked>>
              \/ objects' = objects \cup {f} /\ leaked' = leaked \cup {f}
  BY DEF Upload
<1>2. f \in Media BY <1>0 DEF RequestStates
<1>3. CASE /\ objects' = objects \cup {f} /\ UNCHANGED leaked
           /\ req' = [req EXCEPT ![q].keys = @ \cup {f}, ![q].todo = @ \ {f},
                                 ![q].pc = IF req[q].todo = {f} THEN "commit" ELSE "upload"]
  <2> DEFINE pc == IF req[q].todo = {f} THEN "commit" ELSE "upload"
             st == [req[q] EXCEPT !.keys = @ \cup {f}, !.todo = @ \ {f}, !.pc = pc]
  <2>1. req' = [req EXCEPT ![q] = st] BY <1>3 DEF ReqType
  <2>2. /\ st \in RequestStates /\ st.pc = pc /\ st.keys = req[q].keys \cup {f}
        /\ st.todo = req[q].todo \ {f} /\ st.op = req[q].op /\ st.on = req[q].on
        /\ st.phone = req[q].phone /\ st.people = req[q].people /\ st.doomed = req[q].doomed
        /\ st.orphans = req[q].orphans /\ st.late = req[q].late
    BY <1>0, <1>2 DEF RequestStates, Pcs
  <2> HIDE DEF st
  <2>3. req'[q] = st /\ ReqType' /\ \A o \in Requests \ {q} : req'[o] = req[o]
    BY <2>1, <2>2 DEF ReqType
  <2> QED BY <1>2, <1>3, <2>2, <2>3 DEF Upload, Stored, rows
<1>4. CASE /\ "s3" \in Faults /\ Abandon(q)
           /\ \/ UNCHANGED <<objects, leaked>>
              \/ objects' = objects \cup {f} /\ leaked' = leaked \cup {f}
  BY <1>2, <1>4, AbandonFacts DEF Upload, NotStored, rows
<1> QED BY <1>1, <1>3, <1>4

\* Rollback, cleaning and a crash end a request and leave the rows alone.
Ends(q) ==
    /\ ReqType' /\ \A o \in Requests \ {q} : req'[o] = req[o]
    /\ UNCHANGED <<person, record, schedule, media, stray, ackLost>>

LEMMA RollbackFacts ==
    ASSUME ReqType, NEW q \in Requests, Rollback(q)
    PROVE  /\ Ends(q) /\ req[q].pc = "commit" /\ req'[q] = Ended(req[q].keys)
           /\ objects' = objects /\ leaked' = leaked
BY AbandonFacts DEF Rollback, Ends, rows, ghosts

LEMMA EndFacts ==
    ASSUME ReqType, NEW q \in Requests, req' = [req EXCEPT ![q] = Ended({})]
    PROVE  ReqType' /\ req'[q] = Ended({}) /\ \A o \in Requests \ {q} : req'[o] = req[o]
<1>1. Ended({}) \in RequestStates BY EndedFields
<1> HIDE DEF Ended
<1> QED BY <1>1 DEF ReqType

LEMMA CleanFacts ==
    ASSUME ReqType, NEW q \in Requests, Clean(q)
    PROVE  /\ Ends(q) /\ req[q].pc = "clean" /\ req'[q] = Ended({})
           /\ \E failed \in SUBSET req[q].keys :
                 objects' = objects \ (req[q].keys \ failed) /\ leaked' = leaked \cup failed
BY EndFacts DEF Clean, Ends, rows

LEMMA CrashFacts ==
    ASSUME ReqType, NEW q \in Requests, Crash(q)
    PROVE  /\ Ends(q) /\ req[q].pc \in {"upload", "commit", "clean"} /\ req'[q] = Ended({})
           /\ objects' = objects /\ leaked' = leaked \cup req[q].keys
BY EndFacts DEF Crash, Ends, rows

\* How a transaction ends: `attached` are the uploads it gave rows to, `detached` the
\* files whose rows it deleted.
Outcome(q, attached, detached) ==
    \/ req'[q] = Ended(detached) /\ leaked' = leaked /\ ackLost' = ackLost
    \/ /\ req'[q] = Ended(attached)
       /\ leaked' = leaked \cup detached /\ ackLost' = ackLost \cup attached
Wrote(q, marks, attached, detached) ==
    /\ ReqType' /\ leaked' \subseteq Media /\ ackLost' \subseteq Media
    /\ \A o \in Requests \ {q} : Marked(o, marks)
    /\ Outcome(q, attached, detached)
    /\ objects' = objects

LEMMA CommittedWrote ==
    ASSUME TypeOK, NEW q \in Requests, objects' = objects,
           NEW attached \in SUBSET Media, NEW detached \in SUBSET Media, NEW M \in SUBSET Marks,
           Committed(q, attached, detached, M)
    PROVE  Wrote(q, M, attached, detached)
<1>1. ReqType /\ leaked \subseteq Media /\ ackLost \subseteq Media BY DEF TypeOK, ReqType
<1> QED BY <1>1, CommittedFacts DEF Wrote, Outcome

LEMMA SettledWrote ==
    ASSUME TypeOK, NEW q \in Requests, NEW M \in SUBSET Marks, Settle(q, {}, M),
           UNCHANGED <<objects, ghosts>>
    PROVE  Wrote(q, M, {}, {}) /\ stray' = stray
<1>1. ReqType /\ leaked \subseteq Media /\ ackLost \subseteq Media BY DEF TypeOK, ReqType
<1>2. {} \in SUBSET Media OBVIOUS
<1>3. UNCHANGED <<objects, leaked, ackLost, stray>> BY DEF ghosts
<1> QED BY <1>1, <1>2, <1>3, SettleFacts DEF Wrote, Outcome

-----------------------------------------------------------------------------
(* Types                                                                   *)

RowsTyped ==
    /\ person \in [People -> PersonRows \cup {None}]
    /\ record \in [Records -> RecordRows \cup {None}]
    /\ schedule \in [Schedules -> (SUBSET People) \cup {None}]
    /\ media \subseteq Media
    /\ \A r \in Recorded : record[r].people \subseteq Live
    /\ \A r \in Recorded : record[r].schedule \in Scheduled \cup {None}
    /\ \A s \in Scheduled : schedule[s] \subseteq Live

\* createPerson and updatePerson hold a number.
HoldsPhone(q) ==
    Busy(q) /\ req[q].op \in {"createPerson", "updatePerson"} => req[q].phone \in Phones
Typed == TypeOK /\ \A q \in Requests : HoldsPhone(q)

LEMMA RowsOfType == TypeOK => RowsTyped
BY DEF TypeOK, RowsTyped

LEMMA WroteType ==
    ASSUME Typed, NEW q \in Requests, NEW M \in SUBSET Marks,
           NEW a \in SUBSET Media, NEW d \in SUBSET Media, Wrote(q, M, a, d),
           RowsTyped', stray' \subseteq Media
    PROVE  Typed'
<1>1. TypeOK' BY DEF Wrote, ReqType, Typed, TypeOK, RowsTyped
<1>2. ASSUME NEW o \in Requests PROVE HoldsPhone(o)'
  <2>1. CASE o = q
    BY <2>1, EndedFields DEF Wrote, Outcome, HoldsPhone, Busy
  <2>2. CASE o # q
    BY <2>2 DEF Wrote, Marked, Typed, HoldsPhone, Busy
  <2> QED BY <2>1, <2>2
<1> QED BY <1>1, <1>2 DEF Typed

\* A transaction that writes one row of people.
LEMMA PersonWritten ==
    ASSUME RowsTyped, NEW p \in People, NEW row \in PersonRows,
           person' = [person EXCEPT ![p] = row], UNCHANGED <<record, schedule>>,
           media' \subseteq Media
    PROVE  RowsTyped' /\ Live' = Live \cup {p} /\ person'[p] = row
           /\ \A x \in People \ {p} : person'[x] = person[x]
<1>1. row # None BY ContactsAssumption
<1>2. person' \in [People -> PersonRows \cup {None}] BY DEF RowsTyped
<1>3. person'[p] = row /\ \A x \in People \ {p} : person'[x] = person[x] BY DEF RowsTyped
<1>4. Live' = Live \cup {p} BY <1>1, <1>3 DEF Live
<1>5. Recorded' = Recorded /\ Scheduled' = Scheduled BY DEF Recorded, Scheduled
<1> QED BY <1>2, <1>3, <1>4, <1>5 DEF RowsTyped

LEMMA PhoneMarks ==
    ASSUME NEW a \in Phones, NEW b \in Phones
    PROVE  {<<"phone", a>>} \in SUBSET Marks /\ {<<"phone", a>>, <<"phone", b>>} \in SUBSET Marks
BY DEF Marks

LEMMA RecordMarks ==
    ASSUME NEW S \in SUBSET Records
    PROVE  {"people", "schedule"} \X S \in SUBSET Marks /\ {"schedule"} \X S \in SUBSET Marks
           /\ \A r \in Records : {<<"people", r>>} \in SUBSET Marks
BY DEF Marks

LEMMA LiveRow ==
    ASSUME RowsTyped, NEW p \in Live
    PROVE  /\ p \in People /\ person[p] \in PersonRows
           /\ person[p].phone \in Phones /\ person[p].image \in Media \cup {None}
           /\ person[p].cards \in SUBSET Media
BY DEF RowsTyped, Live, PersonRows

\* createPerson inserts the person with the files it has uploaded.
CreatedRow(q) ==
    [phone |-> req[q].phone,
     image |-> IF req[q].keys \cap {<<q, "profile">>} = {} THEN None ELSE <<q, "profile">>,
     cards |-> req[q].keys \ (req[q].keys \cap {<<q, "profile">>})]

LEMMA CreatePersonFacts ==
    ASSUME Typed, NEW q \in Requests, CommitCreatePerson(q)
    PROVE  /\ req[q].pc = "commit" /\ req[q].op = "createPerson"
           /\ req[q].keys \in SUBSET Media /\ req[q].phone \in Phones
           /\ Wrote(q, {<<"phone", req[q].phone>>}, req[q].keys, {})
           /\ CreatedRow(q) \in PersonRows
           /\ person' = [person EXCEPT ![q] = CreatedRow(q)]
           /\ media' = media \cup req[q].keys
           /\ UNCHANGED <<record, schedule, stray>>
           /\ RowsTyped' /\ Typed'
<1>1. req[q].pc = "commit" /\ req[q].op = "createPerson" BY DEF CommitCreatePerson, Commits
<1>2. req[q] \in RequestStates BY DEF Typed, TypeOK
<1>3. req[q].keys \in SUBSET Media /\ {} \in SUBSET Media BY <1>2 DEF RequestStates
<1>4. req[q].phone \in Phones BY <1>1 DEF Typed, HoldsPhone, Busy
<1>5. {<<"phone", req[q].phone>>} \in SUBSET Marks BY <1>4, PhoneMarks
<1>6. Wrote(q, {<<"phone", req[q].phone>>}, req[q].keys, {})
  BY <1>3, <1>5, CommittedWrote DEF CommitCreatePerson, Typed
<1>7. q \in People /\ <<q, "profile">> \in Media BY DEF People, Media, Usages, CreateFiles
<1>8. CreatedRow(q) \in PersonRows BY <1>3, <1>4, <1>7 DEF CreatedRow, PersonRows
<1>9. /\ person' = [person EXCEPT ![q] = CreatedRow(q)]
      /\ media' = media \cup req[q].keys /\ UNCHANGED <<record, schedule, stray>>
  BY DEF CommitCreatePerson, SetPerson, CreatedRow
<1>10. RowsTyped /\ media' \subseteq Media /\ stray' \subseteq Media
  BY <1>3, <1>9, RowsOfType DEF Typed, TypeOK
<1>11. RowsTyped' BY <1>7, <1>8, <1>9, <1>10, PersonWritten
<1>12. Typed' BY <1>3, <1>5, <1>6, <1>10, <1>11, WroteType
<1> QED BY <1>1, <1>3, <1>4, <1>6, <1>8, <1>9, <1>11, <1>12

LEMMA ImportFacts ==
    ASSUME Typed, NEW q \in Requests, ImportPeople(q)
    PROVE  /\ req[q].pc = "idle"
           /\ \E a \in Phones :
                LET row == [phone |-> a, image |-> None, cards |-> {}]
                IN  /\ row \in PersonRows /\ person' = [person EXCEPT ![q] = row]
                    /\ Wrote(q, {<<"phone", a>>}, {}, {})
           /\ UNCHANGED <<record, schedule, media, stray>>
           /\ RowsTyped' /\ Typed'
<1>1. PICK a \in Phones : /\ SetPerson(q, [phone |-> a, image |-> None, cards |-> {}])
                          /\ Settle(q, {}, {<<"phone", a>>})
  BY DEF ImportPeople
<1> DEFINE row == [phone |-> a, image |-> None, cards |-> {}]
<1>2. row \in PersonRows /\ q \in People BY DEF PersonRows, People
<1>3. person' = [person EXCEPT ![q] = row] BY <1>1 DEF SetPerson
<1>4. {<<"phone", a>>} \in SUBSET Marks /\ {} \in SUBSET Media BY PhoneMarks
<1>5. Wrote(q, {<<"phone", a>>}, {}, {}) BY <1>1, <1>4, SettledWrote DEF Typed, ImportPeople
<1>6. UNCHANGED <<record, schedule, media, stray>> BY DEF ImportPeople, ghosts
<1>7. RowsTyped /\ media' \subseteq Media /\ stray' \subseteq Media
  BY <1>6, RowsOfType DEF Typed, TypeOK
<1> HIDE DEF row
<1>8. RowsTyped' BY <1>2, <1>3, <1>6, <1>7, PersonWritten
<1>9. Typed' BY <1>4, <1>5, <1>7, <1>8, WroteType
<1> QED BY <1>2, <1>3, <1>5, <1>6, <1>8, <1>9 DEF row, ImportPeople

LEMMA UpdatePersonFacts ==
    ASSUME Typed, NEW q \in Requests, CommitUpdatePerson(q)
    PROVE  LET p == req[q].on
               a == req[q].phone
               row == [person[p] EXCEPT !.phone = a]
           IN  /\ req[q].pc = "commit" /\ req[q].op = "updatePerson"
               /\ p \in Live /\ a \in Phones /\ person[p] \in PersonRows
               /\ row \in PersonRows /\ person' = [person EXCEPT ![p] = row]
               /\ Wrote(q, {<<"phone", a>>, <<"phone", person[p].phone>>}, {}, {})
               /\ UNCHANGED <<record, schedule, media, stray>>
               /\ RowsTyped' /\ Typed'
<1> DEFINE p == req[q].on
           a == req[q].phone
           row == [person[p] EXCEPT !.phone = a]
           M == {<<"phone", a>>, <<"phone", person[p].phone>>}
<1>1. req[q].pc = "commit" /\ req[q].op = "updatePerson" /\ p \in Live
  BY DEF CommitUpdatePerson, Commits, StatementsSucceed
<1>2. a \in Phones BY <1>1 DEF Typed, HoldsPhone, Busy
<1>3. RowsTyped BY RowsOfType DEF Typed
<1>4. p \in People /\ person[p] \in PersonRows /\ person[p].phone \in Phones BY <1>1, <1>3, LiveRow
<1>5. row \in PersonRows BY <1>2, <1>4 DEF PersonRows
<1>6. person' = [person EXCEPT ![p] = row] /\ UNCHANGED <<record, schedule, media, objects, stray>>
  BY DEF CommitUpdatePerson, SetPerson
<1>7. M \in SUBSET Marks /\ {} \in SUBSET Media BY <1>2, <1>4, PhoneMarks
<1>8. Committed(q, {}, {}, M) BY DEF CommitUpdatePerson
<1> HIDE DEF M, row
<1>9. Wrote(q, M, {}, {}) BY <1>6, <1>7, <1>8, CommittedWrote DEF Typed
<1>10. media' \subseteq Media /\ stray' \subseteq Media BY <1>6 DEF Typed, TypeOK
<1>11. RowsTyped' BY <1>3, <1>4, <1>5, <1>6, <1>10, PersonWritten
<1>12. Typed' BY <1>7, <1>9, <1>10, <1>11, WroteType
<1> QED BY <1>1, <1>2, <1>4, <1>5, <1>6, <1>9, <1>11, <1>12 DEF M, row

LEMMA ImageWritten ==
    ASSUME Typed, NEW q \in Requests, NEW p \in Live, NEW i \in Media \cup {None},
           NEW a \in SUBSET Media, NEW d \in SUBSET Media,
           person' = [person EXCEPT ![p] = [person[p] EXCEPT !.image = i]],
           media' = (media \cup a) \ d, UNCHANGED <<record, schedule, objects, stray>>,
           Committed(q, a, d, {})
    PROVE  /\ Wrote(q, {}, a, d) /\ RowsTyped' /\ Typed'
           /\ person[p] \in PersonRows /\ [person[p] EXCEPT !.image = i] \in PersonRows
<1> DEFINE row == [person[p] EXCEPT !.image = i]
<1>1. RowsTyped BY RowsOfType DEF Typed
<1>2. p \in People /\ person[p] \in PersonRows BY <1>1, LiveRow
<1>3. row \in PersonRows BY <1>2 DEF PersonRows
<1>4. {} \in SUBSET Marks OBVIOUS
<1>5. Wrote(q, {}, a, d) BY <1>4, CommittedWrote DEF Typed
<1>6. media' \subseteq Media /\ stray' \subseteq Media BY DEF Typed, TypeOK
<1> HIDE DEF row
<1>7. person' = [person EXCEPT ![p] = row] BY DEF row
<1>8. RowsTyped' BY <1>1, <1>2, <1>3, <1>6, <1>7, PersonWritten
<1>9. Typed' BY <1>4, <1>5, <1>6, <1>8, WroteType
<1> QED BY <1>2, <1>3, <1>5, <1>8, <1>9 DEF row

\* The three image operations, `attached` the new picture and `detached` the old.
ImageStep(q, p, i, attached, detached) ==
    /\ Wrote(q, {}, attached, detached) /\ RowsTyped' /\ Typed'
    /\ p \in Live /\ person[p] \in PersonRows /\ [person[p] EXCEPT !.image = i] \in PersonRows
    /\ person' = [person EXCEPT ![p] = [person[p] EXCEPT !.image = i]]
    /\ media' = (media \cup attached) \ detached
    /\ attached \in SUBSET Media /\ detached \in SUBSET Media
    /\ UNCHANGED <<record, schedule, stray>>

LEMMA RequestSets ==
    ASSUME Typed, NEW q \in Requests
    PROVE  /\ req[q] \in RequestStates /\ req[q].keys \in SUBSET Media
           /\ req[q].doomed \in SUBSET Media /\ req[q].orphans \in SUBSET Records
           /\ req[q].people \in SUBSET People
           /\ q \in People /\ <<q, "profile">> \in Media
<1>1. req[q] \in RequestStates BY DEF Typed, TypeOK
<1>2. q \in People /\ <<q, "profile">> \in Media BY DEF People, Media, Usages, CreateFiles
<1> QED BY <1>1, <1>2 DEF RequestStates

LEMMA AddImageFacts ==
    ASSUME Typed, NEW q \in Requests, CommitAddImage(q)
    PROVE  /\ req[q].pc = "commit" /\ req[q].op = "addImage"
           /\ person[req[q].on].image = None
           /\ ImageStep(q, req[q].on, <<q, "profile">>, req[q].keys, {})
<1>1. /\ req[q].pc = "commit" /\ req[q].op = "addImage" /\ req[q].on \in Live
      /\ person[req[q].on].image = None
  BY DEF CommitAddImage, Commits, StatementsSucceed, ImageIsFree
<1>2. /\ person' = [person EXCEPT ![req[q].on] = [person[req[q].on] EXCEPT !.image = <<q, "profile">>]]
      /\ media' = (media \cup req[q].keys) \ {}
      /\ Committed(q, req[q].keys, {}, {})
      /\ UNCHANGED <<record, schedule, objects, stray>>
  BY DEF CommitAddImage, SetPerson
<1>3. {} \in SUBSET Media OBVIOUS
<1> QED BY <1>1, <1>2, <1>3, RequestSets, ImageWritten DEF ImageStep

LEMMA ReplaceImageFacts ==
    ASSUME Typed, NEW q \in Requests, CommitReplaceImage(q)
    PROVE  /\ req[q].pc = "commit" /\ req[q].op = "replaceImage"
           /\ req[q].doomed \subseteq media
           /\ ImageStep(q, req[q].on, <<q, "profile">>, req[q].keys, req[q].doomed)
<1>1. /\ req[q].pc = "commit" /\ req[q].op = "replaceImage" /\ req[q].on \in Live
      /\ req[q].doomed \subseteq media
  BY DEF CommitReplaceImage, Commits, StatementsSucceed, ImageRowExists
<1>2. /\ person' = [person EXCEPT ![req[q].on] = [person[req[q].on] EXCEPT !.image = <<q, "profile">>]]
      /\ media' = (media \cup req[q].keys) \ req[q].doomed
      /\ Committed(q, req[q].keys, req[q].doomed, {})
      /\ UNCHANGED <<record, schedule, objects, stray>>
  BY DEF CommitReplaceImage, SetPerson
<1> QED BY <1>1, <1>2, RequestSets, ImageWritten DEF ImageStep

LEMMA DeleteImageFacts ==
    ASSUME Typed, NEW q \in Requests, CommitDeleteImage(q)
    PROVE  /\ req[q].pc = "commit" /\ req[q].op = "deleteImage"
           /\ req[q].doomed \subseteq media
           /\ ImageStep(q, req[q].on, None, {}, req[q].doomed)
<1>1. /\ req[q].pc = "commit" /\ req[q].op = "deleteImage" /\ req[q].on \in Live
      /\ req[q].doomed \subseteq media
  BY DEF CommitDeleteImage, Commits, StatementsSucceed, ImageRowExists
<1>2. /\ person' = [person EXCEPT ![req[q].on] = [person[req[q].on] EXCEPT !.image = None]]
      /\ media' = (media \cup {}) \ req[q].doomed
      /\ Committed(q, {}, req[q].doomed, {})
      /\ UNCHANGED <<record, schedule, objects, stray>>
  BY DEF CommitDeleteImage, SetPerson
<1>3. {} \in SUBSET Media OBVIOUS
<1> QED BY <1>1, <1>2, <1>3, RequestSets, ImageWritten DEF ImageStep

\* deletePerson's transaction, row by row.
DeletedPerson(p, doomed) ==
    [x \in People |->
        IF x = p \/ person[x] = None THEN None
        ELSE [person[x] EXCEPT !.image = IF @ \in doomed THEN None ELSE @, !.cards = @ \ doomed]]
DeletedRecords(p, doomed, orphans) ==
    [r \in Records |->
        IF record[r] = None \/ r \in orphans THEN None
        ELSE [record[r] EXCEPT !.people = @ \ {p}, !.voice = IF @ \in doomed THEN None ELSE @]]

LEMMA PersonDeleted ==
    ASSUME RowsTyped, NEW p, NEW D, NEW x \in People,
           person' = DeletedPerson(p, D)
    PROVE  /\ x \in Live' <=> x \in Live /\ x # p
           /\ x \in Live' => /\ person'[x] \in PersonRows
                             /\ person'[x].phone = person[x].phone
                             /\ person'[x].image = IF person[x].image \in D THEN None ELSE person[x].image
                             /\ person'[x].cards = person[x].cards \ D
           /\ person'[x] \in PersonRows \cup {None}
<1>1. CASE x = p \/ person[x] = None
  BY <1>1 DEF DeletedPerson, Live
<1>2. CASE ~(x = p \/ person[x] = None)
  <2> DEFINE i == IF person[x].image \in D THEN None ELSE person[x].image
             row == [person[x] EXCEPT !.image = i, !.cards = person[x].cards \ D]
  <2>1. person[x] \in PersonRows BY <1>2 DEF RowsTyped
  <2>2. person'[x] = row BY <1>2 DEF DeletedPerson
  <2>3. /\ row \in PersonRows /\ row.phone = person[x].phone /\ row.image = i
        /\ row.cards = person[x].cards \ D
    BY <2>1 DEF PersonRows
  <2>4. row # None BY <2>3, ContactsAssumption
  <2> HIDE DEF row
  <2> QED BY <1>2, <2>2, <2>3, <2>4 DEF Live
<1> QED BY <1>1, <1>2

LEMMA RecordKept ==
    ASSUME RowsTyped, NEW p, NEW D, NEW O, record' = DeletedRecords(p, D, O)
    PROVE  \A r \in Records :
              /\ r \in Recorded' <=> r \in Recorded /\ r \notin O
              /\ r \in Recorded' => /\ record'[r] \in RecordRows
                                    /\ record'[r].type = record[r].type
                                    /\ record'[r].people = record[r].people \ {p}
                                    /\ record'[r].voice = IF record[r].voice \in D THEN None ELSE record[r].voice
                                    /\ record'[r].schedule = record[r].schedule
              /\ record'[r] \in RecordRows \cup {None}
<1> TAKE r \in Records
<1>1. CASE record[r] = None \/ r \in O
  BY <1>1 DEF DeletedRecords, Recorded
<1>2. CASE ~(record[r] = None \/ r \in O)
  <2> DEFINE v == IF record[r].voice \in D THEN None ELSE record[r].voice
             row == [record[r] EXCEPT !.people = record[r].people \ {p}, !.voice = v]
  <2>1. record[r] \in RecordRows BY <1>2 DEF RowsTyped
  <2>2. record'[r] = row BY <1>2 DEF DeletedRecords
  <2>3. /\ row \in RecordRows /\ row.type = record[r].type /\ row.people = record[r].people \ {p}
        /\ row.voice = v /\ row.schedule = record[r].schedule
    BY <2>1 DEF RecordRows
  <2>4. row # None BY <2>3, ContactsAssumption
  <2> HIDE DEF row
  <2> QED BY <1>2, <2>2, <2>3, <2>4 DEF Recorded
<1> QED BY <1>1, <1>2

LEMMA ScheduleFreed ==
    ASSUME RowsTyped, NEW p,
           schedule' = [s \in Schedules |-> IF schedule[s] = None THEN None ELSE schedule[s] \ {p}]
    PROVE  /\ schedule' \in [Schedules -> (SUBSET People) \cup {None}]
           /\ Scheduled' = Scheduled
           /\ \A s \in Scheduled : schedule'[s] = schedule[s] \ {p}
<1>1. \A s \in Schedules : schedule[s] # None => schedule[s] \ {p} \in SUBSET People
  BY DEF RowsTyped
<1>2. \A s \in Schedules : schedule[s] # None => schedule[s] \ {p} # None
  BY <1>1, ContactsAssumption
<1> QED BY <1>1, <1>2 DEF Scheduled

LEMMA DeletePersonFacts ==
    ASSUME Typed, NEW q \in Requests, CommitDeletePerson(q)
    PROVE  LET p == req[q].on
               D == req[q].doomed
               O == req[q].orphans
               M == {"people", "schedule"} \X (O \cup RecordsOf(p))
           IN  /\ req[q].pc = "commit" /\ req[q].op = "deletePerson"
               /\ D \in SUBSET Media /\ O \in SUBSET Records
               /\ person' = DeletedPerson(p, D)
               /\ record' = DeletedRecords(p, D, O)
               /\ media' = media \ D
               /\ stray' = stray \cup ((Face(p) \cup Cards(p)) \ D)
               /\ M \in SUBSET Marks /\ Wrote(q, M, {}, D)
               /\ RowsTyped' /\ Typed'
<1> DEFINE p == req[q].on
           D == req[q].doomed
           O == req[q].orphans
           M == {"people", "schedule"} \X (O \cup RecordsOf(p))
<1>1. req[q].pc = "commit" /\ req[q].op = "deletePerson" BY DEF CommitDeletePerson, Commits
<1>2. D \in SUBSET Media /\ O \in SUBSET Records /\ {} \in SUBSET Media BY RequestSets
<1>3. /\ person' = DeletedPerson(p, D) /\ record' = DeletedRecords(p, D, O)
      /\ schedule' = [s \in Schedules |-> IF schedule[s] = None THEN None ELSE schedule[s] \ {p}]
      /\ media' = media \ D /\ stray' = stray \cup ((Face(p) \cup Cards(p)) \ D)
      /\ objects' = objects
  BY DEF CommitDeletePerson, DeletedPerson, DeletedRecords
<1>4. O \cup RecordsOf(p) \in SUBSET Records BY <1>2 DEF RecordsOf, Recorded
<1>5. M \in SUBSET Marks BY <1>4, RecordMarks
<1>6. Committed(q, {}, D, M) BY DEF CommitDeletePerson
<1> HIDE DEF p, D, O, M
<1>7. Wrote(q, M, {}, D) BY <1>2, <1>3, <1>5, <1>6, CommittedWrote DEF Typed
<1>8. RowsTyped BY RowsOfType DEF Typed
<1>20. \A r \in Records :
          /\ r \in Recorded' => /\ r \in Recorded /\ record'[r].people = record[r].people \ {p}
                                /\ record'[r].schedule = record[r].schedule
          /\ record'[r] \in RecordRows \cup {None}
  <2>1. record' = DeletedRecords(p, D, O) BY <1>3
  <2> QED BY <1>8, <2>1, RecordKept
<1>9. media' \subseteq Media /\ stray' \subseteq Media
  <2>1. Face(p) \subseteq Media /\ Cards(p) \subseteq Media
    BY <1>8, LiveRow DEF Face, Cards
  <2> QED BY <1>3, <2>1 DEF Typed, TypeOK
<1>10. person' \in [People -> PersonRows \cup {None}]
  <2>1. person' = [x \in People |-> person'[x]] BY <1>3 DEF DeletedPerson
  <2>2. \A x \in People : person'[x] \in PersonRows \cup {None} BY <1>3, <1>8, PersonDeleted
  <2> QED BY <2>1, <2>2
<1>11. record' \in [Records -> RecordRows \cup {None}]
  <2>1. record' = [x \in Records |-> record'[x]] BY <1>3 DEF DeletedRecords
  <2>2. \A x \in Records : record'[x] \in RecordRows \cup {None} BY <1>20
  <2> QED BY <2>1, <2>2
<1>12. \A x \in People : x \in Live' <=> x \in Live /\ x # p BY <1>3, <1>8, PersonDeleted
<1>13. ASSUME NEW r \in Recorded'
       PROVE  record'[r].people \subseteq Live' /\ record'[r].schedule \in Scheduled' \cup {None}
  <2>1. r \in Records BY DEF Recorded
  <2>2. r \in Recorded /\ record'[r].people = record[r].people \ {p}
        /\ record'[r].schedule = record[r].schedule
    BY <2>1, <1>20
  <2>3. record[r].people \subseteq Live /\ record[r].schedule \in Scheduled \cup {None}
    BY <2>2, <1>8 DEF RowsTyped
  <2>4. Live \subseteq People BY DEF Live
  <2>5. Scheduled' = Scheduled BY <1>3, <1>8, ScheduleFreed
  <2>6. \A x \in record'[r].people : x \in People /\ x \in Live' BY <2>2, <2>3, <2>4, <1>12
  <2> QED BY <2>2, <2>3, <2>5, <2>6
<1>14. ASSUME NEW s \in Scheduled' PROVE schedule'[s] \subseteq Live'
  <2>1. s \in Scheduled /\ schedule'[s] = schedule[s] \ {p} BY <1>3, <1>8, ScheduleFreed
  <2>2. schedule[s] \subseteq Live /\ Live \subseteq People BY <2>1, <1>8 DEF RowsTyped, Live
  <2>3. \A x \in schedule'[s] : x \in People /\ x \in Live' BY <2>1, <2>2, <1>12
  <2> QED BY <2>3
<1>15. schedule' \in [Schedules -> (SUBSET People) \cup {None}] BY <1>3, <1>8, ScheduleFreed
<1>16. RowsTyped' BY <1>9, <1>10, <1>11, <1>13, <1>14, <1>15 DEF RowsTyped
<1>17. Typed' BY <1>2, <1>5, <1>7, <1>9, <1>16, WroteType
<1> QED BY <1>1, <1>2, <1>3, <1>5, <1>7, <1>16, <1>17 DEF p, D, O, M

\* Records that change their schedule.
Relinked(S, v) ==
    [r \in Records |-> IF r \in S THEN [record[r] EXCEPT !.schedule = v] ELSE record[r]]

LEMMA RecordRelinked ==
    ASSUME RowsTyped, NEW S \in SUBSET Recorded, NEW v \in Schedules \cup {None},
           record' = Relinked(S, v)
    PROVE  /\ record' \in [Records -> RecordRows \cup {None}] /\ Recorded' = Recorded
           /\ \A r \in Recorded :
                 /\ record'[r].type = record[r].type /\ record'[r].people = record[r].people
                 /\ record'[r].voice = record[r].voice
                 /\ record'[r].schedule = IF r \in S THEN v ELSE record[r].schedule
                 /\ r \notin S => record'[r] = record[r]
<1>1. ASSUME NEW r \in Recorded
      PROVE  /\ record'[r] \in RecordRows
             /\ record'[r].type = record[r].type /\ record'[r].people = record[r].people
             /\ record'[r].voice = record[r].voice
             /\ record'[r].schedule = IF r \in S THEN v ELSE record[r].schedule
             /\ r \notin S => record'[r] = record[r]
  <2>1. record[r] \in RecordRows /\ r \in Records BY DEF RowsTyped, Recorded
  <2> DEFINE row == [record[r] EXCEPT !.schedule = v]
  <2>2. record'[r] = IF r \in S THEN row ELSE record[r] BY <2>1 DEF Relinked
  <2>3. /\ row \in RecordRows /\ row.type = record[r].type /\ row.people = record[r].people
        /\ row.voice = record[r].voice /\ row.schedule = v
    BY <2>1 DEF RecordRows
  <2> HIDE DEF row
  <2> QED BY <2>1, <2>2, <2>3
<1>2. \A r \in Records \ Recorded : record'[r] = None BY DEF Relinked, Recorded
<1>3. record' = [r \in Records |-> record'[r]] BY DEF Relinked
<1>4. \A r \in Recorded : r \in Records BY DEF Recorded
<1>5. \A r \in Records : record'[r] \in RecordRows \cup {None} BY <1>1, <1>2
<1>6. record' \in [Records -> RecordRows \cup {None}] BY <1>3, <1>5
<1>7. \A r \in Recorded : record'[r] # None BY <1>1, ContactsAssumption
<1>8. Recorded' = Recorded BY <1>2, <1>4, <1>7 DEF Recorded
<1> QED BY <1>1, <1>6, <1>8

LEMMA ScheduleWritten ==
    ASSUME RowsTyped, NEW s \in Schedules, NEW S \in SUBSET Live, schedule' = [schedule EXCEPT ![s] = S],
           person' = person
    PROVE  /\ schedule' \in [Schedules -> (SUBSET People) \cup {None}]
           /\ Scheduled' = Scheduled \cup {s}
           /\ \A x \in Scheduled' : schedule'[x] \subseteq Live'
<1>1. Live' = Live /\ Live \subseteq People BY DEF Live
<1>2. S # None BY <1>1, ContactsAssumption
<1>3. schedule' \in [Schedules -> (SUBSET People) \cup {None}] BY <1>1 DEF RowsTyped
<1>4. schedule'[s] = S /\ \A x \in Schedules \ {s} : schedule'[x] = schedule[x] BY DEF RowsTyped
<1>5. Scheduled' = Scheduled \cup {s} BY <1>2, <1>4 DEF Scheduled
<1>6. \A x \in Scheduled : x \in Schedules /\ schedule[x] \subseteq Live BY DEF RowsTyped, Scheduled
<1> QED BY <1>1, <1>3, <1>4, <1>5, <1>6

LEMMA CreateScheduleFacts ==
    ASSUME Typed, NEW q \in Requests, CommitCreateSchedule(q)
    PROVE  LET r == req[q].on
               M == {"schedule"} \X ({r} \cap Records)
           IN  /\ req[q].pc = "commit" /\ req[q].op = "createSchedule"
               /\ r \in Recorded \cup {None}
               /\ record' = Relinked({r} \cap Recorded, q)
               /\ UNCHANGED <<person, media, stray>>
               /\ M \in SUBSET Marks /\ Wrote(q, M, {}, {})
               /\ RowsTyped' /\ Typed'
<1> DEFINE r == req[q].on
           M == {"schedule"} \X ({r} \cap Records)
           S == {r} \cap Recorded
<1>1. /\ req[q].pc = "commit" /\ req[q].op = "createSchedule" /\ r \in Recorded \cup {None}
      /\ req[q].people \subseteq Live
  BY DEF CommitCreateSchedule, Commits, StatementsSucceed
<1>2. /\ schedule' = [schedule EXCEPT ![q] = req[q].people]
      /\ record' = [x \in Records |-> IF x = r THEN [record[x] EXCEPT !.schedule = q] ELSE record[x]]
      /\ Committed(q, {}, {}, M) /\ UNCHANGED <<person, media, objects, stray>>
  BY DEF CommitCreateSchedule
<1>3. q \in Schedules BY DEF Schedules
<1>4. None \notin Records /\ Recorded \subseteq Records BY ContactsAssumption DEF Recorded
<1>5. \A x \in Records : x = r <=> x \in S BY <1>1, <1>4
<1>6. record' = Relinked(S, q) BY <1>2, <1>5 DEF Relinked
<1>7. M \in SUBSET Marks /\ {} \in SUBSET Media BY DEF Marks
<1> HIDE DEF M
<1>8. Wrote(q, M, {}, {}) BY <1>2, <1>7, CommittedWrote DEF Typed
<1>9. RowsTyped BY RowsOfType DEF Typed
<1>10. S \in SUBSET Recorded OBVIOUS
<1> HIDE DEF S
<1>11. /\ record' \in [Records -> RecordRows \cup {None}] /\ Recorded' = Recorded
       /\ \A x \in Recorded :
             /\ record'[x].people = record[x].people
             /\ record'[x].schedule = IF x \in S THEN q ELSE record[x].schedule
  BY <1>3, <1>6, <1>9, <1>10, RecordRelinked
<1>12. /\ schedule' \in [Schedules -> (SUBSET People) \cup {None}]
       /\ Scheduled' = Scheduled \cup {q}
       /\ \A x \in Scheduled' : schedule'[x] \subseteq Live'
  BY <1>1, <1>2, <1>3, <1>9, ScheduleWritten
<1>13. Live' = Live BY <1>2 DEF Live
<1>14. RowsTyped' BY <1>2, <1>9, <1>11, <1>12, <1>13 DEF RowsTyped
<1>15. Typed' BY <1>2, <1>7, <1>8, <1>14, WroteType DEF Typed, TypeOK
<1> QED BY <1>1, <1>2, <1>6, <1>7, <1>8, <1>14, <1>15 DEF M, S

\* One record is written.
LEMMA RecordWritten ==
    ASSUME RowsTyped, NEW r \in Records, NEW row \in RecordRows, row.people \subseteq Live,
           row.schedule \in Scheduled \cup {None},
           record' = [record EXCEPT ![r] = row], UNCHANGED <<person, schedule, media>>
    PROVE  RowsTyped' /\ Recorded' = Recorded \cup {r} /\ record'[r] = row
           /\ \A x \in Records \ {r} : record'[x] = record[x]
<1>1. row # None BY ContactsAssumption
<1>2. record' \in [Records -> RecordRows \cup {None}] BY DEF RowsTyped
<1>3. record'[r] = row /\ \A x \in Records \ {r} : record'[x] = record[x] BY DEF RowsTyped
<1>4. Recorded' = Recorded \cup {r} BY <1>1, <1>3 DEF Recorded
<1>5. Live' = Live /\ Scheduled' = Scheduled BY DEF Live, Scheduled
<1>6. \A x \in Recorded : x \in Records BY DEF Recorded
<1> QED BY <1>2, <1>3, <1>4, <1>5, <1>6 DEF RowsTyped

LEMMA CreateTextRecordFacts ==
    ASSUME Typed, NEW q \in Requests, CreateTextRecord(q)
    PROVE  /\ req[q].pc = "idle"
           /\ \E row \in RecordRows :
                 /\ row.type = "TEXT" /\ row.voice = None /\ row.schedule = None
                 /\ record' = [record EXCEPT ![q] = row]
           /\ UNCHANGED <<person, media, stray>>
           /\ Wrote(q, {<<"people", q>>}, {}, {}) /\ RowsTyped' /\ Typed'
<1>1. PICK wanted \in Linkable :
        record' = [record EXCEPT ![q] = [type |-> "TEXT", people |-> wanted, voice |-> None, schedule |-> None]]
  BY DEF CreateTextRecord
<1> DEFINE row == [type |-> "TEXT", people |-> wanted, voice |-> None, schedule |-> None]
<1>2. wanted \subseteq Live /\ Live \subseteq People BY DEF Linkable, Live
<1>3. /\ row \in RecordRows /\ row.people \subseteq Live /\ row.schedule \in Scheduled \cup {None}
      /\ row.type = "TEXT" /\ row.voice = None /\ row.schedule = None
  BY <1>2 DEF RecordRows
<1>4. q \in Records BY DEF Records
<1>5. {<<"people", q>>} \in SUBSET Marks /\ {} \in SUBSET Media BY <1>4, RecordMarks
<1>6. UNCHANGED <<person, schedule, media, objects, stray>> BY DEF CreateTextRecord, ghosts
<1>7. Wrote(q, {<<"people", q>>}, {}, {})
  BY <1>5, SettledWrote DEF CreateTextRecord, OneStep, Typed
<1> HIDE DEF row
<1>8. record' = [record EXCEPT ![q] = row] BY <1>1 DEF row
<1>9. RowsTyped' BY <1>3, <1>4, <1>6, <1>8, RecordWritten, RowsOfType DEF Typed
<1>10. Typed' BY <1>5, <1>6, <1>7, <1>9, WroteType DEF Typed, TypeOK
<1> QED BY <1>3, <1>6, <1>7, <1>8, <1>9, <1>10 DEF CreateTextRecord, OneStep

LEMMA UpdateRecordFacts ==
    ASSUME Typed, NEW q \in Requests, NEW type, UpdateRecord(q, type)
    PROVE  /\ req[q].pc = "idle"
           /\ \E r \in Recorded, wanted \in SUBSET People :
                 /\ record[r] \in RecordRows /\ [record[r] EXCEPT !.people = wanted] \in RecordRows
                 /\ record' = [record EXCEPT ![r] = [record[r] EXCEPT !.people = wanted]]
                 /\ Wrote(q, {<<"people", r>>}, {}, {})
           /\ UNCHANGED <<person, media, stray>>
           /\ RowsTyped' /\ Typed'
<1>1. PICK r \in Recorded, wanted \in Linkable :
        /\ record' = [record EXCEPT ![r].people = wanted]
        /\ OneStep(q, {<<"people", r>>})
        /\ UNCHANGED <<person, schedule, media, objects, ghosts>>
  BY DEF UpdateRecord
<1> DEFINE row == [record[r] EXCEPT !.people = wanted]
<1>2. wanted \subseteq Live /\ Live \subseteq People BY DEF Linkable, Live
<1>3. RowsTyped BY RowsOfType DEF Typed
<1>4. r \in Records /\ record[r] \in RecordRows /\ record[r].schedule \in Scheduled \cup {None}
  BY <1>3 DEF Recorded, RowsTyped
<1>5. row \in RecordRows /\ row.people \subseteq Live /\ row.schedule \in Scheduled \cup {None}
  BY <1>2, <1>4 DEF RecordRows
<1>6. {<<"people", r>>} \in SUBSET Marks /\ {} \in SUBSET Media BY <1>4, RecordMarks
<1>7. UNCHANGED <<person, schedule, media, objects, stray>> BY <1>1 DEF ghosts
<1>8. Wrote(q, {<<"people", r>>}, {}, {}) BY <1>1, <1>6, SettledWrote DEF OneStep, Typed
<1> HIDE DEF row
<1>9. record' = [record EXCEPT ![r] = row] BY <1>1 DEF row
<1>10. RowsTyped' BY <1>3, <1>4, <1>5, <1>7, <1>9, RecordWritten
<1>11. Typed' BY <1>6, <1>7, <1>8, <1>10, WroteType DEF Typed, TypeOK
<1>12. wanted \in SUBSET People BY <1>2
<1> QED BY <1>1, <1>4, <1>5, <1>7, <1>8, <1>9, <1>10, <1>11, <1>12 DEF row, OneStep

LEMMA DeleteRecordFacts ==
    ASSUME Typed, NEW q \in Requests, DeleteRecord(q)
    PROVE  /\ req[q].pc = "idle"
           /\ \E r \in Recorded :
                 LET files == IF record[r].type = "VOICE" THEN Voice(r) ELSE {}
                 IN  /\ files \in SUBSET Media
                     /\ record' = [record EXCEPT ![r] = None]
                     /\ media' = media \ files
                     /\ Wrote(q, {"people", "schedule"} \X {r}, {}, files)
           /\ UNCHANGED <<person, stray>>
           /\ RowsTyped' /\ Typed'
<1>1. PICK r \in Recorded :
        LET files == IF record[r].type = "VOICE" THEN Voice(r) ELSE {}
        IN  /\ record' = [record EXCEPT ![r] = None]
            /\ media' = media \ files
            /\ Committed(q, {}, files, {"people", "schedule"} \X {r})
  BY DEF DeleteRecord
<1> DEFINE files == IF record[r].type = "VOICE" THEN Voice(r) ELSE {}
           M == {"people", "schedule"} \X {r}
<1>2. RowsTyped BY RowsOfType DEF Typed
<1>3. r \in Records /\ record[r] \in RecordRows BY <1>2 DEF Recorded, RowsTyped
<1>4. files \in SUBSET Media /\ {} \in SUBSET Media BY <1>3 DEF Voice, RecordRows
<1>5. M \in SUBSET Marks BY <1>3, RecordMarks
<1> HIDE DEF files, M
<1>6. media' = media \ files /\ Committed(q, {}, files, M) BY <1>1 DEF files, M
<1>7. UNCHANGED <<person, schedule, objects, stray>> BY DEF DeleteRecord
<1>8. Wrote(q, M, {}, files) BY <1>4, <1>5, <1>6, <1>7, CommittedWrote DEF Typed
<1>9. RowsTyped'
  <2>1. record' \in [Records -> RecordRows \cup {None}] BY <1>1, <1>2 DEF RowsTyped
  <2>2. record'[r] = None /\ \A x \in Records \ {r} : record'[x] = record[x] BY <1>1, <1>2, <1>3 DEF RowsTyped
  <2>3. Recorded' = Recorded \ {r} BY <2>2 DEF Recorded
  <2>4. Live' = Live /\ Scheduled' = Scheduled BY <1>7 DEF Live, Scheduled
  <2>5. \A x \in Recorded : x \in Records BY DEF Recorded
  <2> QED BY <1>2, <1>6, <1>7, <2>1, <2>2, <2>3, <2>4, <2>5 DEF RowsTyped
<1>10. Typed' BY <1>4, <1>5, <1>7, <1>8, <1>9, WroteType DEF Typed, TypeOK
<1> QED BY <1>1, <1>4, <1>6, <1>7, <1>8, <1>9, <1>10 DEF files, M, DeleteRecord

LEMMA UpdateScheduleFacts ==
    ASSUME Typed, NEW q \in Requests, UpdateSchedule(q)
    PROVE  /\ req[q].pc = "idle" /\ Wrote(q, {}, {}, {})
           /\ UNCHANGED <<person, record, media, stray>>
           /\ RowsTyped' /\ Typed'
<1>1. PICK s \in Scheduled, wanted \in Linkable :
        /\ schedule' = [schedule EXCEPT ![s] = wanted] /\ OneStep(q, {})
        /\ UNCHANGED <<person, record, media, objects, ghosts>>
  BY DEF UpdateSchedule
<1>2. s \in Schedules /\ wanted \in SUBSET Live BY DEF Scheduled, Linkable
<1>3. {} \in SUBSET Marks /\ {} \in SUBSET Media OBVIOUS
<1>4. UNCHANGED <<person, record, media, objects, stray>> BY <1>1 DEF ghosts
<1>5. Wrote(q, {}, {}, {}) BY <1>1, <1>3, SettledWrote DEF OneStep, Typed
<1>6. RowsTyped BY RowsOfType DEF Typed
<1>7. /\ schedule' \in [Schedules -> (SUBSET People) \cup {None}]
      /\ Scheduled' = Scheduled \cup {s} /\ \A x \in Scheduled' : schedule'[x] \subseteq Live'
  BY <1>1, <1>2, <1>4, <1>6, ScheduleWritten
<1>8. Live' = Live /\ Recorded' = Recorded BY <1>4 DEF Live, Recorded
<1>9. RowsTyped' BY <1>4, <1>6, <1>7, <1>8 DEF RowsTyped
<1>10. Typed' BY <1>3, <1>4, <1>5, <1>9, WroteType DEF Typed, TypeOK
<1> QED BY <1>1, <1>4, <1>5, <1>9, <1>10 DEF OneStep

LEMMA DeleteScheduleFacts ==
    ASSUME Typed, NEW q \in Requests, DeleteSchedule(q)
    PROVE  /\ req[q].pc = "idle"
           /\ \E S \in SUBSET Recorded :
                 /\ record' = Relinked(S, None)
                 /\ {"schedule"} \X S \in SUBSET Marks /\ Wrote(q, {"schedule"} \X S, {}, {})
           /\ UNCHANGED <<person, media, stray>>
           /\ RowsTyped' /\ Typed'
<1>1. PICK s \in Scheduled :
        /\ schedule' = [schedule EXCEPT ![s] = None]
        /\ record' = [r \in Records |->
              IF r \in Unlinked(s) THEN [record[r] EXCEPT !.schedule = None] ELSE record[r]]
        /\ OneStep(q, {"schedule"} \X LinkedRecords(s))
        /\ UNCHANGED <<person, media, objects, ghosts>>
  BY DEF DeleteSchedule
<1> DEFINE S == LinkedRecords(s)
<1>2. record' = Relinked(S, None) BY <1>1 DEF Relinked, Unlinked
<1>3. S \in SUBSET Recorded /\ Recorded \subseteq Records BY DEF LinkedRecords, Recorded
<1>4. {"schedule"} \X S \in SUBSET Marks /\ {} \in SUBSET Media BY <1>3, RecordMarks
<1>5. UNCHANGED <<person, media, objects, stray>> BY <1>1 DEF ghosts
<1>6. Wrote(q, {"schedule"} \X S, {}, {}) BY <1>1, <1>4, SettledWrote DEF OneStep, Typed
<1>7. RowsTyped BY RowsOfType DEF Typed
<1>8. \A x \in Recorded : x \notin S => record[x].schedule # s BY DEF LinkedRecords
<1> HIDE DEF S
<1>9. /\ record' \in [Records -> RecordRows \cup {None}] /\ Recorded' = Recorded
      /\ \A x \in Recorded :
             /\ record'[x].people = record[x].people
             /\ record'[x].schedule = IF x \in S THEN None ELSE record[x].schedule
  BY <1>2, <1>3, <1>7, RecordRelinked
<1>10. RowsTyped'
  <2>1. schedule' \in [Schedules -> (SUBSET People) \cup {None}] BY <1>1, <1>7 DEF RowsTyped
  <2>2. s \in Schedules /\ schedule'[s] = None /\ \A x \in Schedules \ {s} : schedule'[x] = schedule[x]
    BY <1>1, <1>7 DEF RowsTyped, Scheduled
  <2>3. Scheduled' = Scheduled \ {s} BY <2>2 DEF Scheduled
  <2>4. Live' = Live BY <1>5 DEF Live
  <2>5. \A x \in Scheduled : x \in Schedules BY DEF Scheduled
  <2>6. \A r \in Recorded : record'[r].people \subseteq Live' BY <1>7, <1>9, <2>4 DEF RowsTyped
  <2>7. \A r \in Recorded : record'[r].schedule \in Scheduled' \cup {None}
    BY <1>7, <1>8, <1>9, <2>3 DEF RowsTyped
  <2>8. \A x \in Scheduled' : schedule'[x] \subseteq Live' BY <1>7, <2>2, <2>3, <2>4, <2>5 DEF RowsTyped
  <2> QED BY <1>5, <1>7, <1>9, <2>1, <2>6, <2>7, <2>8 DEF RowsTyped
<1>11. Typed' BY <1>4, <1>5, <1>6, <1>10, WroteType DEF Typed, TypeOK
<1> QED BY <1>1, <1>2, <1>3, <1>4, <1>5, <1>6, <1>10, <1>11 DEF OneStep

LEMMA BeganType ==
    ASSUME Typed, NEW q \in Requests, Began(q), HasRead(q)
    PROVE  Typed'
<1>1. TypeOK'
  BY DEF Began, Typed, TypeOK, ReqType, Live, Recorded, Scheduled
<1>2. ASSUME NEW o \in Requests PROVE HoldsPhone(o)'
  <2>1. CASE o = q BY <2>1 DEF HasRead, HoldsPhone
  <2>2. CASE o # q BY <2>2 DEF Began, Typed, HoldsPhone, Busy
  <2> QED BY <2>1, <2>2
<1> QED BY <1>1, <1>2 DEF Typed

\* Steps that leave the rows alone.
LEMMA QuietType ==
    ASSUME Typed, NEW q \in Requests, ReqType', \A o \in Requests \ {q} : req'[o] = req[o],
           UNCHANGED <<person, record, schedule, media, stray, ackLost>>,
           objects' \subseteq Media, leaked' \subseteq Media, HoldsPhone(q)'
    PROVE  Typed'
<1>1. TypeOK' BY DEF Typed, TypeOK, ReqType, Live, Recorded, Scheduled
<1>2. ASSUME NEW o \in Requests PROVE HoldsPhone(o)'
  BY DEF Typed, HoldsPhone, Busy
<1> QED BY <1>1, <1>2 DEF Typed

LEMMA EndedPhone ==
    ASSUME NEW q \in Requests, NEW K \in SUBSET Media, req'[q] = Ended(K)
    PROVE  HoldsPhone(q)'
BY EndedFields DEF HoldsPhone, Busy

LEMMA UploadType ==
    ASSUME Typed, NEW q \in Requests, Upload(q)
    PROVE  Typed'
<1>1. ReqType BY DEF Typed, TypeOK, ReqType
<1>2. PICK f \in Media : Stored(q, f) \/ NotStored(q, f) BY <1>1, UploadFacts
<1>3. objects' \subseteq Media /\ leaked' \subseteq Media
  BY <1>2 DEF Stored, NotStored, Typed, TypeOK
<1>4. HoldsPhone(q)'
  <2>1. CASE Stored(q, f) BY <1>1, <2>1, UploadFacts DEF Stored, Typed, HoldsPhone, Busy
  <2>2. CASE NotStored(q, f) BY <2>2, EndedPhone, RequestSets DEF NotStored
  <2> QED BY <1>2, <2>1, <2>2
<1> QED BY <1>1, <1>3, <1>4, UploadFacts, QuietType

LEMMA RollbackType ==
    ASSUME Typed, NEW q \in Requests, Rollback(q)
    PROVE  Typed'
<1>1. ReqType BY DEF Typed, TypeOK, ReqType
<1>2. /\ Ends(q) /\ req'[q] = Ended(req[q].keys) /\ objects' = objects /\ leaked' = leaked
  BY <1>1, RollbackFacts
<1>3. HoldsPhone(q)' BY <1>2, RequestSets, EndedPhone
<1> QED BY <1>2, <1>3, QuietType DEF Ends, Typed, TypeOK

LEMMA CleanType ==
    ASSUME Typed, NEW q \in Requests, Clean(q)
    PROVE  Typed'
<1>1. ReqType BY DEF Typed, TypeOK, ReqType
<1>2. Ends(q) /\ req'[q] = Ended({}) BY <1>1, CleanFacts
<1>3. PICK failed \in SUBSET req[q].keys :
        objects' = objects \ (req[q].keys \ failed) /\ leaked' = leaked \cup failed
  BY <1>1, CleanFacts
<1>4. objects' \subseteq Media /\ leaked' \subseteq Media
  BY <1>3, RequestSets DEF Typed, TypeOK
<1>5. {} \in SUBSET Media OBVIOUS
<1>6. HoldsPhone(q)' BY <1>2, <1>5, EndedPhone
<1> QED BY <1>2, <1>4, <1>6, QuietType DEF Ends

LEMMA CrashType ==
    ASSUME Typed, NEW q \in Requests, Crash(q)
    PROVE  Typed'
<1>1. ReqType BY DEF Typed, TypeOK, ReqType
<1>2. /\ Ends(q) /\ req'[q] = Ended({}) /\ objects' = objects
      /\ leaked' = leaked \cup req[q].keys
  BY <1>1, CrashFacts
<1>3. {} \in SUBSET Media OBVIOUS
<1>4. HoldsPhone(q)' BY <1>2, <1>3, EndedPhone
<1>5. objects' \subseteq Media /\ leaked' \subseteq Media
  BY <1>2, RequestSets DEF Typed, TypeOK
<1> QED BY <1>2, <1>4, <1>5, QuietType DEF Ends

LEMMA TypedInit == Init => Typed
<1> SUFFICES ASSUME Init PROVE Typed OBVIOUS
<1>1. PICK phone \in [SeedPeople -> Phones], pictured \in SUBSET SeedPeople, carded \in SUBSET SeedPeople :
        InitPerson(phone, pictured, carded)
  BY DEF Init
<1>2. PICK people \in [SeedRecords -> SUBSET SeedPeople], voiced \in SUBSET SeedRecords,
        planned \in [SeedRecords -> SeedSchedules \cup {None}] : InitRecord(people, voiced, planned)
  BY DEF Init
<1>3. PICK there \in [SeedSchedules -> SUBSET SeedPeople] :
        schedule = [s \in Schedules |-> IF s \in SeedSchedules THEN there[s] ELSE None]
  BY DEF Init
<1>4. ASSUME NEW p \in People
      PROVE  person[p] \in PersonRows \cup {None} /\ (p \in SeedPeople => person[p] \in PersonRows)
  <2>1. CASE p \notin SeedPeople BY <1>1, <2>1 DEF InitPerson
  <2>2. CASE p \in SeedPeople
    <3>1. <<p, "profile">> \in Media /\ <<p, "front">> \in Media BY DEF Media, Usages, CreateFiles
    <3>2. /\ phone[p] \in Phones
          /\ (IF p \in pictured THEN <<p, "profile">> ELSE None) \in Media \cup {None}
          /\ (IF p \in carded THEN {<<p, "front">>} ELSE {}) \in SUBSET Media
      BY <2>2, <3>1
    <3> QED BY <1>1, <2>2, <3>2 DEF InitPerson, PersonRows
  <2> QED BY <2>1, <2>2
<1>5. ASSUME NEW r \in Records
      PROVE  /\ record[r] \in RecordRows \cup {None}
             /\ record[r] # None => /\ r \in SeedRecords /\ record[r] \in RecordRows
                                    /\ record[r].people \subseteq SeedPeople
                                    /\ record[r].schedule \in SeedSchedules \cup {None}
  <2>1. CASE r \notin SeedRecords BY <1>2, <2>1 DEF InitRecord
  <2>2. CASE r \in SeedRecords
    <3>1. <<r, "voice">> \in Media BY <2>2 DEF Media, Usages
    <3>2. /\ people[r] \in SUBSET SeedPeople /\ planned[r] \in SeedSchedules \cup {None}
          /\ (IF r \in voiced THEN <<r, "voice">> ELSE None) \in Media \cup {None}
          /\ (IF r \in voiced THEN "VOICE" ELSE "TEXT") \in {"TEXT", "VOICE"}
      BY <2>2, <3>1
    <3>3. people[r] \in SUBSET People /\ planned[r] \in Schedules \cup {None}
      BY <3>2 DEF People, Schedules
    <3> QED BY <1>2, <2>2, <3>2, <3>3 DEF InitRecord, RecordRows
  <2> QED BY <2>1, <2>2
<1>6. SeedPeople \subseteq Live
  <2>1. SeedPeople \subseteq People BY DEF People
  <2> QED BY <1>4, <2>1, ContactsAssumption DEF Live
<1>7. SeedSchedules \subseteq Scheduled
  <2>1. \A s \in SeedSchedules : s \in Schedules /\ schedule[s] \in SUBSET People
    BY <1>3 DEF Schedules, People
  <2> QED BY <2>1, ContactsAssumption DEF Scheduled
<1>8. person \in [People -> PersonRows \cup {None}] BY <1>1, <1>4 DEF InitPerson
<1>9. record \in [Records -> RecordRows \cup {None}] BY <1>2, <1>5 DEF InitRecord
<1>10. schedule \in [Schedules -> (SUBSET People) \cup {None}] BY <1>3 DEF People
<1>11. /\ \A r \in Recorded : record[r].people \subseteq Live
       /\ \A r \in Recorded : record[r].schedule \in Scheduled \cup {None}
  BY <1>5, <1>6, <1>7 DEF Recorded
<1>12. \A s \in Scheduled : schedule[s] \subseteq Live BY <1>3, <1>6 DEF Scheduled
<1>13. media \subseteq Media
  <2>1. \A p \in People : Face(p) \subseteq Media /\ Cards(p) \subseteq Media
    BY <1>8 DEF Face, Cards, Live, PersonRows
  <2>2. \A r \in Records : Voice(r) \subseteq Media
    BY <1>9 DEF Voice, Recorded, RecordRows
  <2> QED BY <2>1, <2>2 DEF Init
<1>14. \A q \in Requests : req[q] \in RequestStates /\ req[q].pc = "idle" /\ req[q].keys = {}
  <2> DEFINE st == [Fresh(None, None) EXCEPT !.pc = "idle"]
  <2>1. st \in RequestStates /\ st.pc = "idle" /\ st.keys = {} BY DEF Fresh, RequestStates, Pcs
  <2>2. req = [q \in Requests |-> st] BY DEF Init
  <2> HIDE DEF st
  <2> QED BY <2>1, <2>2
<1>15. req \in [Requests -> RequestStates] BY <1>14 DEF Init
<1>16. TypeOK
  BY <1>8, <1>9, <1>10, <1>11, <1>12, <1>13, <1>15 DEF TypeOK, Init
<1> QED BY <1>14, <1>16 DEF Typed, HoldsPhone, Busy

LEMMA TypedNext == Typed /\ [Next]_vars => Typed'
<1> SUFFICES ASSUME Typed, [Next]_vars PROVE Typed' OBVIOUS
<1>0. CASE UNCHANGED vars
  BY <1>0 DEF vars, rows, ghosts, Typed, TypeOK, HoldsPhone, Busy, Live, Recorded, Scheduled
<1>1. CASE Next
  <2>1. PICK q \in Requests :
          Start(q) \/ Upload(q) \/ Commit(q) \/ Short(q) \/ Clean(q) \/ Crash(q)
    BY <1>1 DEF Next
  <2>2. CASE Start(q) BY <2>2, StartFacts, BeganType DEF Typed
  <2>3. CASE Upload(q) BY <2>3, UploadType
  <2>4. CASE Commit(q)
    <3>1. CASE CommitCreatePerson(q) BY <3>1, CreatePersonFacts
    <3>2. CASE CommitUpdatePerson(q) BY <3>2, UpdatePersonFacts
    <3>3. CASE CommitAddImage(q) BY <3>3, AddImageFacts DEF ImageStep
    <3>4. CASE CommitReplaceImage(q) BY <3>4, ReplaceImageFacts DEF ImageStep
    <3>5. CASE CommitDeleteImage(q) BY <3>5, DeleteImageFacts DEF ImageStep
    <3>6. CASE CommitDeletePerson(q) BY <3>6, DeletePersonFacts
    <3>7. CASE CommitCreateSchedule(q) BY <3>7, CreateScheduleFacts
    <3>8. CASE Rollback(q) BY <3>8, RollbackType
    <3> QED BY <2>4, <3>1, <3>2, <3>3, <3>4, <3>5, <3>6, <3>7, <3>8 DEF Commit
  <2>5. CASE Short(q)
    <3>1. CASE ImportPeople(q) BY <3>1, ImportFacts
    <3>2. CASE CreateTextRecord(q) BY <3>2, CreateTextRecordFacts
    <3>3. CASE UpdateTextRecord(q) BY <3>3, UpdateRecordFacts DEF UpdateTextRecord
    <3>4. CASE UpdateVoiceRecord(q) BY <3>4, UpdateRecordFacts DEF UpdateVoiceRecord
    <3>5. CASE DeleteRecord(q) BY <3>5, DeleteRecordFacts
    <3>6. CASE UpdateSchedule(q) BY <3>6, UpdateScheduleFacts
    <3>7. CASE DeleteSchedule(q) BY <3>7, DeleteScheduleFacts
    <3> QED BY <2>5, <3>1, <3>2, <3>3, <3>4, <3>5, <3>6, <3>7 DEF Short
  <2>6. CASE Clean(q) BY <2>6, CleanType
  <2>7. CASE Crash(q) BY <2>7, CrashType
  <2> QED BY <2>1, <2>2, <2>3, <2>4, <2>5, <2>6, <2>7
<1> QED BY <1>0, <1>1

\* Rows, objects and requests keep their types and every foreign key names a row, for
\* any number of overlapping requests and any faults.
THEOREM TypeCorrect == Spec => []TypeOK
<1>1. Typed => TypeOK BY DEF Typed
<1> QED BY TypedInit, TypedNext, <1>1, PTL DEF Spec
=============================================================================

---------------------------- MODULE PiiBackfill ----------------------------
(***************************************************************************)
(* Encryption of personal data: encrypt, decrypt and hash of               *)
(* pii-crypto.service.ts, the writes of the API that use them, and the     *)
(* script backfill-pii-encryption.ts, which seals the rows of the time     *)
(* before encryption while the server runs.                                *)
(*                                                                         *)
(* The script takes a snapshot of a table, then updates its rows one by    *)
(* one from that snapshot; it stops when a row is gone or when its process *)
(* does, and may be started again.                                         *)
(***************************************************************************)
EXTENDS Naturals, Sequences

CONSTANTS
    Users,          \* users rows: an email and its hash
    People,         \* people rows: name, phone number with its hash, birth date with its parts
    Texts,          \* rows of the other tables: title and content, or content alone
    Words,          \* plaintexts
    Prefixed,       \* plaintexts that start with "v1:" (only names, titles and contents can)
    Untitled,       \* the title the database gives a record that is created without one
    None,           \* SQL NULL, or no row
    Garbage,        \* a hash, or a date, computed from a ciphertext
    MaxEdits,       \* bound: API writes
    MaxRuns         \* bound: runs of the script

VARIABLES
    rows,           \* the rows: `main` is name or title, `key` is phone or email, `extra`
                    \* is birth date or content; `hash` and `parts` are for lookups
    script,         \* the table the script is at, its snapshot and the rows still to do
    runs, edits,    \* bounded counters
    sealedTables,   \* ghost: tables the current run has passed
    edited,         \* ghost: rows the API wrote since their snapshot
    halfSealed      \* ghost: rows the script wrote although their key was encrypted already

backfillVars == <<rows, script, runs, edits, sealedTables, edited, halfSealed>>

-----------------------------------------------------------------------------
(* pii-crypto.service.ts                                                   *)

Plain(word) == [word |-> word, seals |-> 0]

\* isEncrypted looks at the first three characters only.
IsEncrypted(v) == v.seals > 0 \/ v.word \in Prefixed

AlwaysSeal(v) == IF v = None THEN None ELSE [v EXCEPT !.seals = @ + 1] \* mutant of Encrypt: not idempotent
Encrypt(v) == IF v = None \/ IsEncrypted(v) THEN v ELSE [v EXCEPT !.seals = 1]

\* decrypt takes one layer off; a plaintext with the prefix throws.
Decrypt(v) ==
    IF v = None \/ ~IsEncrypted(v) THEN v
    ELSE IF v.seals = 0 THEN Garbage ELSE [v EXCEPT !.seals = @ - 1]

\* The hash of what it is given.
Hash(v) == IF v.seals = 0 THEN v.word ELSE Garbage

\* toBirthDatePartData and toBirthDateParts: month and day of the date it is given.
Parts(v) == IF v = None THEN None ELSE IF v.seals = 0 THEN v.word ELSE Garbage

-----------------------------------------------------------------------------
Tables == <<"users", "people", "texts">>
Rows == Users \cup People \cup Texts
TableOf(x) == IF x \in Users THEN 1 ELSE IF x \in People THEN 2 ELSE 3
Present == {x \in Rows : rows[x] # None}

Values == [word : Words, seals : 0..1] \cup {None}
RowType == [main : Values, key : Values, extra : Values,
            hash : Words \cup {None, Garbage}, parts : Words \cup {None, Garbage}]

\* The tables are apart, and SQL NULL is none of the values a row or a column holds.
ASSUME NullIsNoValue ==
    /\ Users \cap People = {} /\ Users \cap Texts = {} /\ People \cap Texts = {}
    /\ None \notin Words \cup {Garbage} \cup [word : Words, seals : 0..1] \cup RowType
    /\ MaxEdits \in Nat /\ MaxRuns \in Nat

\* The default title is a plaintext and does not look encrypted.
ASSUME UntitledIsPlain == Untitled \in Words \ Prefixed

\* Type invariant: nothing is ever encrypted twice, and the script keeps its place.
BackfillTypeOK ==
    /\ rows \in [Rows -> RowType \cup {None}]
    /\ script \in [at : 0..3, todo : SUBSET Rows, snap : [Rows -> RowType \cup {None}]]
    /\ runs \in 0..MaxRuns /\ edits \in 0..MaxEdits
    /\ sealedTables \subseteq 1..3
    /\ edited \subseteq Rows /\ halfSealed \subseteq Rows

\* What a request of the API creates: everything encrypted, the lookup columns from the
\* plaintext.
Stored(x, main, key, extra) ==
    [main |-> Encrypt(main), key |-> Encrypt(key), extra |-> Encrypt(extra),
     hash |-> IF key = None THEN None ELSE Hash(key),
     parts |-> IF x \in People THEN Parts(extra) ELSE None]

\* A row written before encryption was introduced.
Legacy(main, key, extra) ==
    [main |-> main, key |-> key, extra |-> extra, hash |-> None, parts |-> None]

Mains(x) == IF x \in Users THEN {None} ELSE {Plain(w) : w \in Words}
Keys(x) == IF x \in Texts THEN {None} ELSE {Plain(w) : w \in Words \ Prefixed}
Extras(x) ==
    IF x \in Users THEN {None}
    ELSE {None} \cup {Plain(w) : w \in IF x \in People THEN Words \ Prefixed ELSE Words}

ScriptIdle == [at |-> 0, todo |-> {}, snap |-> [x \in Rows |-> None]]

\* Nothing is encrypted yet.
BackfillInit ==
    /\ rows \in [Rows -> RowType \cup {None}]
    /\ \A x \in Present : \E m \in Mains(x), k \in Keys(x), e \in Extras(x) :
          rows[x] = Legacy(m, k, e)
    /\ script = ScriptIdle
    /\ runs = 0 /\ edits = 0
    /\ sealedTables = {} /\ edited = {} /\ halfSealed = {}

-----------------------------------------------------------------------------
(* The API                                                                 *)

Write(x, row) ==
    /\ edits < MaxEdits /\ edits' = edits + 1
    /\ rows' = [rows EXCEPT ![x] = row]
    /\ edited' = edited \cup {x}
    /\ UNCHANGED <<script, runs, sealedTables, halfSealed>>

\* findOrCreateGoogleUser, createPerson, importPeople, createExtraContacts,
\* createSchedule, createTextRecord and the inbox entry of a notification.
Insert ==
    \E x \in Rows \ Present : \E m \in Mains(x), k \in Keys(x), e \in Extras(x) :
        Write(x, Stored(x, m, k, e))

\* The record of a voice job: the summary is encrypted, the title is left to the database,
\* whose default is plaintext.
CreateVoiceRecord ==
    \E x \in Texts \ Present : \E e \in Extras(x) \ {None} :
        Write(x, [Stored(x, None, None, e) EXCEPT !.main = Plain(Untitled)])

HashForgotten(row, key) == [row EXCEPT !.key = Encrypt(key)] \* mutant of WithKey: the hash stays
WithKey(row, key) == [row EXCEPT !.key = Encrypt(key), !.hash = Hash(key)]

\* An update touches only the columns of the request (toPersonUpdateData and the update
\* data of records and schedules): the rest of a legacy row stays as it was.
SaveMain == \E x \in Present \ Users, m \in UNION {Mains(y) : y \in Rows \ Users} :
    Write(x, [rows[x] EXCEPT !.main = Encrypt(m)])
SaveKey == \E x \in Present \cap People : \E k \in Keys(x) : Write(x, WithKey(rows[x], k))
SaveExtra == \E x \in Present \ Users : \E e \in Extras(x) :
    Write(x, [rows[x] EXCEPT !.extra = Encrypt(e), !.parts = IF x \in People THEN Parts(e) ELSE None])

Delete == \E x \in Present : Write(x, None)

-----------------------------------------------------------------------------
(* The script                                                              *)

MainOnly(row) == row.main # None /\ ~IsEncrypted(row.main) \* mutant of NeedsUpdate: title alone
\* needsUpdate: a value that is not encrypted, or a lookup column that is missing.
NeedsUpdate(row) ==
    \/ \E v \in {row.main, row.key, row.extra} \ {None} : ~IsEncrypted(v)
    \/ row.key # None /\ row.hash = None

PartsMissing(x, row) == x \in People /\ row.extra # None /\ row.parts = None

PartsOfCipher(row) == Parts(row.extra)  \* mutant of PartsOf: no decrypt
\* toBirthDateParts decrypts first ...
PartsOf(row) == Parts(Decrypt(row.extra))

\* ... hashPhoneNumber and hashEmail do not.
HashOf(row) == IF row.key = None THEN None ELSE Hash(row.key)

\* The update data: every column, from the snapshot.
Sealed(x, row) ==
    [main |-> Encrypt(row.main), key |-> Encrypt(row.key), extra |-> Encrypt(row.extra),
     hash |-> HashOf(row), parts |-> IF x \in People THEN PartsOf(row) ELSE None]

\* findMany of table `at`, and the rows the loop will not skip.
Snapshot(at) ==
    script' = [at |-> at, snap |-> [x \in Rows |-> IF TableOf(x) = at THEN rows[x] ELSE None],
               todo |-> {x \in Present : TableOf(x) = at
                                           /\ (NeedsUpdate(rows[x]) \/ PartsMissing(x, rows[x]))}]

StartRun ==
    /\ script.at = 0 /\ runs < MaxRuns /\ runs' = runs + 1
    /\ Snapshot(1)
    /\ edited' = {} /\ sealedTables' = {}
    /\ UNCHANGED <<rows, edits, halfSealed>>

\* One update; a row that is gone makes it throw, which ends the run.
SealRow ==
    \E x \in script.todo :
        /\ IF rows[x] = None
           THEN script' = ScriptIdle /\ UNCHANGED <<rows, halfSealed>>
           ELSE /\ rows' = [rows EXCEPT ![x] = Sealed(x, script.snap[x])]
                /\ script' = [script EXCEPT !.todo = @ \ {x}]
                /\ halfSealed' = IF script.snap[x].key # None /\ script.snap[x].key.seals > 0
                                 THEN halfSealed \cup {x} ELSE halfSealed
        /\ UNCHANGED <<runs, edits, sealedTables, edited>>

NextTable ==
    /\ script.at > 0 /\ script.todo = {}
    /\ sealedTables' = sealedTables \cup {script.at}
    /\ IF script.at < Len(Tables) THEN Snapshot(script.at + 1) /\ edited' = {}
       ELSE script' = ScriptIdle /\ UNCHANGED edited
    /\ UNCHANGED <<rows, runs, edits, halfSealed>>

ScriptStops ==
    /\ script.at > 0 /\ script' = ScriptIdle
    /\ UNCHANGED <<rows, runs, edits, sealedTables, edited, halfSealed>>

BackfillNext ==
    \/ Insert \/ CreateVoiceRecord \/ SaveMain \/ SaveKey \/ SaveExtra \/ Delete
    \/ StartRun \/ SealRow \/ NextTable \/ ScriptStops

BackfillSpec == BackfillInit /\ [][BackfillNext]_backfillVars

-----------------------------------------------------------------------------
(* Properties                                                              *)

Hidden(row) ==
    /\ \A v \in {row.main, row.key, row.extra} \ {None} : IsEncrypted(v)
    /\ row.key # None => row.hash # None

\* The default title of a voice record is the only plaintext in the row.
DefaultTitled(row) == row.main = Plain(Untitled) /\ Hidden([row EXCEPT !.main = None])

\* A table the script has passed holds no plaintext and no row without its hash, also in
\* rows the API changed or created between the snapshot and the updates or later.
\* Excused: a voice record created since the snapshot, whose default title, and nothing
\* else of it, stays plaintext until the title is saved or the script runs again.
PassedTablesSealed ==
    \A x \in Present : TableOf(x) \in sealedTables =>
        Hidden(rows[x]) \/ (x \in Texts \cap edited /\ DefaultTitled(rows[x]))

\* Lookup columns say what the encrypted columns hold: the hash that finds a person by
\* number or a user by email, month and day of the birthday.  Excused: a row whose key
\* was encrypted when the script hashed it, because the API had updated it before.
LookupsMatch ==
    \A x \in Present :
        /\ rows[x].hash # None /\ x \notin halfSealed => rows[x].hash = rows[x].key.word
        /\ rows[x].parts # None => rows[x].extra # None /\ rows[x].parts = rows[x].extra.word

ReadBack(row) == IF row = None THEN None ELSE <<Decrypt(row.main), Decrypt(row.key), Decrypt(row.extra)>>

\* The script changes no text a user would read: what it overwrites is what it read,
\* unless the API wrote the row in between (that update is lost).
ScriptKeepsTexts ==
    [][\A x \in Rows \ edited : edits' = edits => ReadBack(rows'[x]) = ReadBack(rows[x])]_backfillVars
=============================================================================

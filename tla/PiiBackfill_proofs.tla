-------------------------- MODULE PiiBackfill_proofs --------------------------
(***************************************************************************)
(* Theorems about PiiBackfill, for any rows and plaintexts and any number  *)
(* of API writes and of runs of the script: what the script has passed     *)
(* stays encrypted, lookup columns match, and no text changes.             *)
(***************************************************************************)
EXTENDS PiiBackfill, TLAPS

-----------------------------------------------------------------------------
(* What encryption does to a column and to a row                           *)

\* Encrypt is idempotent, keeps the text and hides it.
LEMMA EncryptFacts ==
    ASSUME NEW v \in Values
    PROVE  /\ Encrypt(v) \in Values
           /\ Encrypt(v) = None <=> v = None
           /\ Encrypt(v) # None => Encrypt(v).word = v.word /\ IsEncrypted(Encrypt(v))
           /\ Decrypt(Encrypt(v)) = Decrypt(v)
<1>1. CASE v = None
  BY <1>1 DEF Encrypt, Decrypt
<1>2. CASE v # None /\ IsEncrypted(v)
  BY <1>2 DEF Encrypt, Decrypt
<1>3. CASE v # None /\ ~IsEncrypted(v)
  <2>1. v \in [word : Words, seals : 0..1] /\ v.word \notin Prefixed /\ v.seals = 0
    BY <1>3 DEF Values, IsEncrypted
  <2> DEFINE e == [v EXCEPT !.seals = 1]
  <2>2. Encrypt(v) = e
    BY <1>3 DEF Encrypt
  <2>3. e \in [word : Words, seals : 0..1] /\ e.word = v.word /\ e.seals = 1
    BY <2>1
  <2>4. Decrypt(v) = v
    BY <1>3 DEF Decrypt
  <2>5. e # None
    BY <2>3, NullIsNoValue
  <2>6. [e EXCEPT !.seals = 0] = v
    BY <2>1
  <2> HIDE DEF e
  <2>7. e.seals - 1 = 0
    BY <2>3
  <2>8. Decrypt(e) = [e EXCEPT !.seals = e.seals - 1]
    BY <2>3, <2>5 DEF Decrypt, IsEncrypted
  <2>9. Decrypt(e) = v
    BY <2>6, <2>7, <2>8
  <2> QED BY <1>3, <2>2, <2>3, <2>4, <2>5, <2>9 DEF Values, IsEncrypted
<1> QED BY <1>1, <1>2, <1>3

\* A plaintext as the API receives it.
LEMMA PlainFacts ==
    ASSUME NEW w \in Words
    PROVE  /\ Plain(w) \in Values /\ Plain(w) # None /\ Plain(w).word = w
           /\ Hash(Plain(w)) = w /\ Parts(Plain(w)) = w
<1>1. Plain(w) \in [word : Words, seals : 0..1] /\ Plain(w).word = w /\ Plain(w).seals = 0
  BY DEF Plain
<1>2. Plain(w) # None
  BY <1>1, NullIsNoValue
<1> QED BY <1>1, <1>2 DEF Values, Hash, Parts

\* A row whose columns are of their types; birth dates never look encrypted.
Sound(x, row) ==
    /\ row \in RowType
    /\ x \in People /\ row.extra # None => row.extra.word \notin Prefixed

\* Month and day belong to the birth date.
PartsMatch(row) ==
    row.parts # None => row.extra # None /\ row.parts = row.extra.word
HashMatches(row) == row.hash # None => row.hash = row.key.word

\* What an update of the script leaves in the row.
LEMMA SealedFacts ==
    ASSUME NEW x \in Rows, NEW row, Sound(x, row)
    PROVE  /\ Sound(x, Sealed(x, row)) /\ Hidden(Sealed(x, row)) /\ PartsMatch(Sealed(x, row))
           /\ row.key = None \/ row.key.seals = 0 => HashMatches(Sealed(x, row))
           /\ ReadBack(Sealed(x, row)) = ReadBack(row)
<1>1. row.main \in Values /\ row.key \in Values /\ row.extra \in Values /\ row # None
  BY NullIsNoValue DEF Sound, RowType
<1> PICK m, k, e : m = Encrypt(row.main) /\ k = Encrypt(row.key) /\ e = Encrypt(row.extra)
  OBVIOUS
<1>2. /\ m \in Values /\ k \in Values /\ e \in Values
      /\ m # None => IsEncrypted(m)
      /\ k # None => IsEncrypted(k) /\ k.word = row.key.word
      /\ e # None => IsEncrypted(e) /\ e.word = row.extra.word
      /\ (k = None <=> row.key = None) /\ (e = None <=> row.extra = None)
      /\ Decrypt(m) = Decrypt(row.main) /\ Decrypt(k) = Decrypt(row.key)
      /\ Decrypt(e) = Decrypt(row.extra)
  BY <1>1, EncryptFacts
<1> PICK h : h = HashOf(row)
  OBVIOUS
<1>3. /\ h \in Words \cup {None, Garbage} /\ (h = None <=> row.key = None)
      /\ row.key # None /\ row.key.seals = 0 => h = row.key.word
  BY <1>1, NullIsNoValue DEF HashOf, Hash, Values
<1> PICK p : p = IF x \in People THEN PartsOf(row) ELSE None
  OBVIOUS
<1>4. p \in Words \cup {None, Garbage} /\ (p # None => row.extra # None /\ p = row.extra.word)
  <2>1. CASE x \notin People \/ row.extra = None
    BY <2>1 DEF PartsOf, Parts, Decrypt
  <2>2. CASE x \in People /\ row.extra # None
    <3>1. row.extra \in [word : Words, seals : 0..1] /\ row.extra.word \notin Prefixed
      BY <1>1, <2>2 DEF Values, Sound
    <3>2. Decrypt(row.extra) \in [word : Words, seals : 0..1]
          /\ Decrypt(row.extra).word = row.extra.word /\ Decrypt(row.extra).seals = 0
      BY <2>2, <3>1 DEF Decrypt, IsEncrypted
    <3>3. Decrypt(row.extra) # None
      BY <3>2, NullIsNoValue
    <3>4. p = row.extra.word
      BY <2>2, <3>2, <3>3 DEF PartsOf, Parts
    <3> QED BY <2>2, <3>1, <3>4
  <2> QED BY <2>1, <2>2
<1>5. Sealed(x, row) = [main |-> m, key |-> k, extra |-> e, hash |-> h, parts |-> p]
  BY DEF Sealed
<1> PICK s : s = Sealed(x, row)
  OBVIOUS
<1>6. s.main = m /\ s.key = k /\ s.extra = e /\ s.hash = h /\ s.parts = p /\ s \in RowType
  BY <1>2, <1>3, <1>4, <1>5 DEF RowType
<1>7. Sound(x, s) /\ Hidden(s) /\ PartsMatch(s)
  BY <1>2, <1>3, <1>4, <1>6 DEF Sound, Hidden, PartsMatch
<1>8. row.key = None \/ row.key.seals = 0 => HashMatches(s)
  BY <1>2, <1>3, <1>6 DEF HashMatches
<1>9. ReadBack(s) = ReadBack(row)
  BY <1>1, <1>2, <1>6, NullIsNoValue DEF ReadBack
<1> QED BY <1>7, <1>8, <1>9

\* What a request of the API may carry for row x.
LEMMA InputFacts ==
    ASSUME NEW x \in Rows
    PROVE  /\ \A m \in Mains(x) : m \in Values
           /\ \A k \in Keys(x) : k \in Values /\ (k # None => Hash(k) = k.word /\ k.word \in Words)
           /\ x \in People => None \notin Keys(x)
           /\ \A e \in Extras(x) :
                 /\ e \in Values /\ (x \in People /\ e # None => e.word \notin Prefixed)
                 /\ Parts(e) = IF e = None THEN None ELSE e.word
                 /\ e # None => e.word \in Words
<1>1. ASSUME NEW m \in Mains(x) PROVE m \in Values
  BY <1>1, PlainFacts DEF Mains, Values
<1>2. ASSUME NEW k \in Keys(x)
      PROVE  k \in Values /\ (k # None => Hash(k) = k.word /\ k.word \in Words)
  BY <1>2, PlainFacts DEF Keys, Values
<1>3. x \in People => None \notin Keys(x)
  BY PlainFacts, NullIsNoValue DEF Keys
<1>4. ASSUME NEW e \in Extras(x)
      PROVE  /\ e \in Values /\ (x \in People /\ e # None => e.word \notin Prefixed)
             /\ Parts(e) = IF e = None THEN None ELSE e.word
             /\ e # None => e.word \in Words
  <2>1. CASE e = None
    BY <2>1 DEF Values, Parts
  <2>2. CASE e # None
    <3>1. PICK w \in Words : e = Plain(w) /\ (x \in People => w \notin Prefixed)
      BY <1>4, <2>2 DEF Extras
    <3> QED BY <2>2, <3>1, PlainFacts
  <2> QED BY <2>1, <2>2
<1> QED BY <1>1, <1>2, <1>3, <1>4

\* What the API stores is encrypted and its lookup columns are right; the default title
\* may stay.
Kept(x, old, new) ==
    /\ Sound(x, new) /\ PartsMatch(new)
    /\ HashMatches(old) => HashMatches(new)
    /\ Hidden(old) => Hidden(new)
    /\ DefaultTitled(old) => DefaultTitled(new) \/ Hidden(new)

\* The default title is the only plaintext, spelled out.
LEMMA DefaultTitledFacts ==
    ASSUME NEW row \in RowType
    PROVE  DefaultTitled(row)
              <=> /\ row.main = Plain(Untitled)
                  /\ \A v \in {row.key, row.extra} \ {None} : IsEncrypted(v)
                  /\ row.key # None => row.hash # None
<1> PICK s : s = [row EXCEPT !.main = None]
  OBVIOUS
<1>1. s.main = None /\ s.key = row.key /\ s.extra = row.extra /\ s.hash = row.hash
  BY DEF RowType
<1> QED BY <1>1 DEF DefaultTitled, Hidden

LEMMA StoredFacts ==
    ASSUME NEW x \in Rows, NEW m \in Mains(x), NEW k \in Keys(x), NEW e \in Extras(x)
    PROVE  /\ Sound(x, Stored(x, m, k, e)) /\ PartsMatch(Stored(x, m, k, e))
           /\ HashMatches(Stored(x, m, k, e)) /\ Hidden(Stored(x, m, k, e))
<1> PICK n, l, f : n = Encrypt(m) /\ l = Encrypt(k) /\ f = Encrypt(e)
  OBVIOUS
<1>1. /\ n \in Values /\ l \in Values /\ f \in Values
      /\ n # None => IsEncrypted(n)
      /\ l # None => IsEncrypted(l) /\ l.word = k.word
      /\ f # None => IsEncrypted(f) /\ f.word = e.word
      /\ (l = None <=> k = None) /\ (f = None <=> e = None)
  BY InputFacts, EncryptFacts
<1> PICK h : h = IF k = None THEN None ELSE Hash(k)
  OBVIOUS
<1>2. h \in Words \cup {None} /\ (h = None <=> k = None) /\ (h # None => h = l.word)
  BY <1>1, InputFacts, NullIsNoValue
<1> PICK p : p = IF x \in People THEN Parts(e) ELSE None
  OBVIOUS
<1>3. p \in Words \cup {None} /\ (p # None => e # None /\ p = e.word)
  BY InputFacts
<1> PICK s : s = Stored(x, m, k, e)
  OBVIOUS
<1>4. s = [main |-> n, key |-> l, extra |-> f, hash |-> h, parts |-> p]
  BY DEF Stored
<1>5. s.main = n /\ s.key = l /\ s.extra = f /\ s.hash = h /\ s.parts = p /\ s \in RowType
  BY <1>1, <1>2, <1>3, <1>4 DEF RowType
<1>6. x \in People /\ e # None => e.word \notin Prefixed
  BY InputFacts
<1> QED BY <1>1, <1>2, <1>3, <1>5, <1>6 DEF Sound, PartsMatch, HashMatches, Hidden

LEMMA SavedFacts ==
    ASSUME NEW x \in Rows, NEW row, Sound(x, row), PartsMatch(row)
    PROVE  /\ \A y \in Rows : \A m \in Mains(y) : Kept(x, row, [row EXCEPT !.main = Encrypt(m)])
           /\ x \in People => \A k \in Keys(x) :
                 Kept(x, row, WithKey(row, k)) /\ HashMatches(WithKey(row, k))
           /\ \A e \in Extras(x) :
                 Kept(x, row, [row EXCEPT !.extra = Encrypt(e),
                                          !.parts = IF x \in People THEN Parts(e) ELSE None])
<1>1. row \in RowType /\ (x \in People /\ row.extra # None => row.extra.word \notin Prefixed)
  BY DEF Sound
<1>2. ASSUME NEW y \in Rows, NEW m \in Mains(y)
      PROVE  Kept(x, row, [row EXCEPT !.main = Encrypt(m)])
  <2> PICK n : n = Encrypt(m)
    OBVIOUS
  <2>1. n \in Values /\ (n # None => IsEncrypted(n))
    BY <1>2, InputFacts, EncryptFacts
  <2> PICK s : s = [row EXCEPT !.main = n]
    OBVIOUS
  <2>2. /\ s \in RowType /\ s.main = n /\ s.key = row.key /\ s.extra = row.extra
        /\ s.hash = row.hash /\ s.parts = row.parts
    BY <1>1, <2>1 DEF RowType
  <2>3. DefaultTitled(row) => Hidden(s)
    BY <1>1, <2>1, <2>2, DefaultTitledFacts DEF Hidden
  <2> QED BY <1>1, <2>1, <2>2, <2>3 DEF Kept, Sound, PartsMatch, HashMatches, Hidden
<1>3. ASSUME x \in People, NEW k \in Keys(x)
      PROVE  Kept(x, row, WithKey(row, k)) /\ HashMatches(WithKey(row, k))
  <2> PICK l, h : l = Encrypt(k) /\ h = Hash(k)
    OBVIOUS
  <2>1. k # None /\ l \in Values /\ l # None /\ IsEncrypted(l) /\ h = l.word /\ h \in Words
    BY <1>3, InputFacts, EncryptFacts
  <2> PICK s : s = WithKey(row, k)
    OBVIOUS
  <2>2. s = [row EXCEPT !.key = l, !.hash = h]
    BY DEF WithKey
  <2>3. /\ s \in RowType /\ s.main = row.main /\ s.key = l /\ s.extra = row.extra
        /\ s.hash = h /\ s.parts = row.parts
    BY <1>1, <2>1, <2>2 DEF RowType
  <2>4. h # None
    BY <2>1, NullIsNoValue
  <2>5. DefaultTitled(row) => DefaultTitled(s)
    BY <1>1, <2>1, <2>3, <2>4, DefaultTitledFacts
  <2> QED BY <1>1, <2>1, <2>3, <2>4, <2>5 DEF Kept, Sound, PartsMatch, HashMatches, Hidden
<1>4. ASSUME NEW e \in Extras(x)
      PROVE  Kept(x, row, [row EXCEPT !.extra = Encrypt(e),
                                      !.parts = IF x \in People THEN Parts(e) ELSE None])
  <2> PICK f, p : f = Encrypt(e) /\ p = IF x \in People THEN Parts(e) ELSE None
    OBVIOUS
  <2>1. /\ f \in Values /\ (f # None => IsEncrypted(f) /\ f.word = e.word) /\ (f = None <=> e = None)
        /\ p \in Words \cup {None} /\ (p # None => e # None /\ p = e.word)
        /\ x \in People /\ e # None => e.word \notin Prefixed
    BY <1>4, InputFacts, EncryptFacts
  <2> PICK s : s = [row EXCEPT !.extra = f, !.parts = p]
    OBVIOUS
  <2>2. /\ s \in RowType /\ s.main = row.main /\ s.key = row.key /\ s.extra = f
        /\ s.hash = row.hash /\ s.parts = p
    BY <1>1, <2>1 DEF RowType
  <2>3. DefaultTitled(row) => DefaultTitled(s)
    BY <1>1, <2>1, <2>2, DefaultTitledFacts
  <2>4. Kept(x, row, s)
    BY <1>1, <2>1, <2>2, <2>3 DEF Kept, Sound, PartsMatch, HashMatches, Hidden
  <2> QED BY <2>4
<1> QED BY <1>2, <1>3, <1>4

\* The record of a voice job.
LEMMA VoiceRecordFacts ==
    ASSUME NEW x \in Texts, NEW e \in Extras(x)
    PROVE  LET row == [Stored(x, None, None, e) EXCEPT !.main = Plain(Untitled)]
           IN  Sound(x, row) /\ PartsMatch(row) /\ HashMatches(row) /\ DefaultTitled(row)
<1> PICK f, u : f = Encrypt(e) /\ u = Plain(Untitled)
  OBVIOUS
<1>1. x \in Rows /\ x \notin People
  BY NullIsNoValue DEF Rows
<1>2. f \in Values /\ (f # None => IsEncrypted(f))
  BY <1>1, InputFacts, EncryptFacts
<1>3. u \in Values /\ None \in Values
  BY UntitledIsPlain, PlainFacts DEF Values
<1> PICK r : r = [main |-> u, key |-> None, extra |-> f, hash |-> None, parts |-> None]
  OBVIOUS
<1>4. /\ r \in RowType /\ r.main = u /\ r.key = None /\ r.extra = f
      /\ r.hash = None /\ r.parts = None
  BY <1>2, <1>3 DEF RowType
<1>5. DefaultTitled(r)
  BY <1>2, <1>4, DefaultTitledFacts
<1>6. Sound(x, r) /\ PartsMatch(r) /\ HashMatches(r)
  BY <1>1, <1>4 DEF Sound, PartsMatch, HashMatches
<1>7. [Stored(x, None, None, e) EXCEPT !.main = u] = r
  <2>1. Encrypt(None) = None
    BY DEF Encrypt
  <2>2. Stored(x, None, None, e)
           = [main |-> None, key |-> None, extra |-> f, hash |-> None, parts |-> None]
    BY <1>1, <2>1 DEF Stored
  <2> QED BY <2>2
<1> QED BY <1>5, <1>6, <1>7

-----------------------------------------------------------------------------
(* The inductive invariant                                                 *)

\* What is in a row.
RowInv(x) ==
    /\ Sound(x, rows[x]) /\ PartsMatch(rows[x])
    /\ x \notin halfSealed => HashMatches(rows[x])

\* The tables the script has passed, and the rows of the current one it need not touch.
Passed(x) == TableOf(x) \in sealedTables \/ (TableOf(x) = script.at /\ x \notin script.todo)

\* Nothing of the row is plaintext, the default title of a voice record created since the
\* snapshot excused.
SealedBut(x) == Hidden(rows[x]) \/ (x \in Texts \cap edited /\ DefaultTitled(rows[x]))

\* What the script still has to do is of its table, and as it was read unless the API
\* wrote it in between.
TodoInv(x) ==
    /\ TableOf(x) = script.at /\ Sound(x, script.snap[x])
    /\ x \notin edited => rows[x] = script.snap[x]

BackfillInv ==
    /\ BackfillTypeOK
    /\ \A x \in Present : RowInv(x) /\ (Passed(x) => SealedBut(x))
    /\ \A x \in script.todo : TodoInv(x)
    /\ \A t \in sealedTables : script.at > 0 => t < script.at

LEMMA IdleFacts ==
    /\ ScriptIdle.at = 0 /\ ScriptIdle.todo = {}
    /\ ScriptIdle \in [at : 0..3, todo : SUBSET Rows, snap : [Rows -> RowType \cup {None}]]
BY DEF ScriptIdle

LEMMA BackfillInitInv == BackfillInit => BackfillInv
<1> SUFFICES ASSUME BackfillInit PROVE BackfillInv
  OBVIOUS
<1>1. BackfillTypeOK /\ script.at = 0 /\ script.todo = {}
  BY IdleFacts, NullIsNoValue DEF BackfillInit, BackfillTypeOK
<1>2. ASSUME NEW x \in Present PROVE RowInv(x) /\ ~Passed(x)
  <2>1. PICK m \in Mains(x), k \in Keys(x), e \in Extras(x) : rows[x] = Legacy(m, k, e)
    BY DEF BackfillInit
  <2>2. rows[x] \in RowType /\ rows[x].extra = e /\ rows[x].hash = None /\ rows[x].parts = None
    BY <2>1 DEF Present, BackfillInit, Legacy
  <2>3. x \in Rows
    BY DEF Present
  <2>4. RowInv(x)
    BY <2>2, <2>3, InputFacts DEF RowInv, Sound, PartsMatch, HashMatches
  <2>5. ~Passed(x)
    BY <1>1 DEF Passed, BackfillInit, TableOf
  <2> QED BY <2>4, <2>5
<1> QED BY <1>1, <1>2 DEF BackfillInv, BackfillInit

-----------------------------------------------------------------------------
(* The API                                                                 *)

\* One row is written: what it holds is sound, and hidden if what it replaces was.
LEMMA WriteInv ==
    ASSUME BackfillInv, NEW x \in Rows, NEW row, Write(x, row),
           \/ row = None
           \/ /\ Sound(x, row) /\ PartsMatch(row)
              /\ x \notin halfSealed => HashMatches(row)
              /\ \/ Hidden(row)
                 \/ x \in Texts /\ DefaultTitled(row)
                 \/ /\ x \in Present /\ (Hidden(rows[x]) => Hidden(row))
                    /\ DefaultTitled(rows[x]) => DefaultTitled(row) \/ Hidden(row)
    PROVE  BackfillInv'
<1>1. /\ rows \in [Rows -> RowType \cup {None}] /\ rows' = [rows EXCEPT ![x] = row]
      /\ edited' = edited \cup {x} /\ edits' = edits + 1 /\ edits < MaxEdits
      /\ UNCHANGED <<script, runs, sealedTables, halfSealed>>
  BY DEF Write, BackfillInv, BackfillTypeOK
<1>2. rows'[x] = row /\ \A y \in Rows \ {x} : rows'[y] = rows[y]
  BY <1>1
<1>3. BackfillTypeOK'
  BY <1>1, NullIsNoValue DEF BackfillInv, BackfillTypeOK, Sound
<1>4. ASSUME NEW y \in Present' PROVE RowInv(y)' /\ (Passed(y)' => SealedBut(y)')
  <2>1. y \in Rows /\ rows'[y] # None /\ (Passed(y)' <=> Passed(y))
    BY <1>1, <1>4 DEF Present, Passed
  <2>2. CASE y = x
    <3>1. x \in Present /\ Passed(x) => SealedBut(x)
      BY DEF BackfillInv
    <3>2. RowInv(y)'
      BY <1>1, <1>2, <2>1, <2>2 DEF RowInv
    <3>3. Passed(x) => Hidden(row) \/ (x \in Texts /\ DefaultTitled(row))
      BY <1>2, <2>1, <2>2, <3>1 DEF SealedBut
    <3> QED BY <1>1, <1>2, <2>1, <2>2, <3>2, <3>3 DEF SealedBut
  <2>3. CASE y # x
    <3>1. y \in Present /\ rows'[y] = rows[y]
      BY <1>2, <2>1, <2>3 DEF Present
    <3>2. RowInv(y) /\ (Passed(y) => SealedBut(y))
      BY <3>1 DEF BackfillInv
    <3> QED BY <1>1, <2>1, <3>1, <3>2 DEF RowInv, SealedBut
  <2> QED BY <2>2, <2>3
<1>5. ASSUME NEW y \in script.todo PROVE TodoInv(y)'
  <2>1. y \in Rows /\ TodoInv(y)
    BY DEF BackfillInv, BackfillTypeOK
  <2> QED BY <1>1, <1>2, <2>1 DEF TodoInv
<1> QED BY <1>1, <1>3, <1>4, <1>5 DEF BackfillInv

LEMMA ApiInv ==
    ASSUME BackfillInv, Insert \/ CreateVoiceRecord \/ SaveMain \/ SaveKey \/ SaveExtra \/ Delete
    PROVE  BackfillInv'
<1>1. \A x \in Present : x \in Rows /\ RowInv(x)
  BY DEF BackfillInv, Present
<1>2. CASE Insert
  <2>1. PICK x \in Rows \ Present : \E m \in Mains(x), k \in Keys(x), e \in Extras(x) :
            Write(x, Stored(x, m, k, e))
    BY <1>2 DEF Insert
  <2>2. PICK m \in Mains(x), k \in Keys(x), e \in Extras(x) : Write(x, Stored(x, m, k, e))
    BY <2>1
  <2> QED BY <2>2, StoredFacts, WriteInv
<1>3. CASE SaveMain
  <2>1. PICK x \in Present \ Users, m \in UNION {Mains(z) : z \in Rows \ Users} :
            Write(x, [rows[x] EXCEPT !.main = Encrypt(m)])
    BY <1>3 DEF SaveMain
  <2> PICK y \in Rows : m \in Mains(y)
    OBVIOUS
  <2> PICK row : row = [rows[x] EXCEPT !.main = Encrypt(m)]
    OBVIOUS
  <2>2. Kept(x, rows[x], row)
    BY <1>1, <2>1, SavedFacts DEF RowInv
  <2> QED BY <1>1, <2>1, <2>2, WriteInv DEF Kept, RowInv
<1>4. CASE SaveKey
  <2>1. PICK x \in Present \cap People : \E k \in Keys(x) : Write(x, WithKey(rows[x], k))
    BY <1>4 DEF SaveKey
  <2> PICK k \in Keys(x) : Write(x, WithKey(rows[x], k))
    BY <2>1
  <2>2. Kept(x, rows[x], WithKey(rows[x], k)) /\ HashMatches(WithKey(rows[x], k))
    BY <1>1, <2>1, SavedFacts DEF RowInv
  <2> QED BY <1>1, <2>1, <2>2, WriteInv DEF Kept, RowInv
<1>5. CASE SaveExtra
  <2>1. PICK x \in Present \ Users : \E e \in Extras(x) :
            Write(x, [rows[x] EXCEPT !.extra = Encrypt(e),
                                     !.parts = IF x \in People THEN Parts(e) ELSE None])
    BY <1>5 DEF SaveExtra
  <2> PICK e \in Extras(x) :
            Write(x, [rows[x] EXCEPT !.extra = Encrypt(e),
                                     !.parts = IF x \in People THEN Parts(e) ELSE None])
    BY <2>1
  <2> PICK row : row = [rows[x] EXCEPT !.extra = Encrypt(e),
                                       !.parts = IF x \in People THEN Parts(e) ELSE None]
    OBVIOUS
  <2>2. Kept(x, rows[x], row)
    BY <1>1, <2>1, SavedFacts DEF RowInv
  <2> QED BY <1>1, <2>1, <2>2, WriteInv DEF Kept, RowInv
<1>6. CASE Delete
  BY <1>1, <1>6, WriteInv DEF Delete
<1>7. CASE CreateVoiceRecord
  <2>1. PICK x \in Texts \ Present : \E e \in Extras(x) \ {None} :
            Write(x, [Stored(x, None, None, e) EXCEPT !.main = Plain(Untitled)])
    BY <1>7 DEF CreateVoiceRecord
  <2> PICK e \in Extras(x) :
            Write(x, [Stored(x, None, None, e) EXCEPT !.main = Plain(Untitled)])
    BY <2>1
  <2> PICK row : row = [Stored(x, None, None, e) EXCEPT !.main = Plain(Untitled)]
    OBVIOUS
  <2>2. x \in Rows /\ Write(x, row)
    BY DEF Rows
  <2>3. Sound(x, row) /\ PartsMatch(row) /\ HashMatches(row) /\ DefaultTitled(row)
    BY VoiceRecordFacts
  <2> QED BY <2>2, <2>3, WriteInv
<1> QED BY <1>2, <1>3, <1>4, <1>5, <1>6, <1>7

-----------------------------------------------------------------------------
(* The script                                                              *)

\* A snapshot leaves out only rows with nothing to hide.
LEMMA SnapshotInv ==
    ASSUME BackfillInv, NEW at \in 1..3, Snapshot(at), edited' = {},
           UNCHANGED <<rows, edits, halfSealed>>, runs' \in 0..MaxRuns,
           \A t \in sealedTables' : t \in 1..3 /\ t < at,
           \A x \in Present : TableOf(x) \in sealedTables' => Hidden(rows[x])
    PROVE  BackfillInv'
<1>1. /\ script'.at = at
      /\ script'.snap = [x \in Rows |-> IF TableOf(x) = at THEN rows[x] ELSE None]
      /\ script'.todo = {x \in Present : /\ TableOf(x) = at
                                         /\ NeedsUpdate(rows[x]) \/ PartsMissing(x, rows[x])}
  BY DEF Snapshot
<1>2. BackfillTypeOK'
  <2> DEFINE snap == [x \in Rows |-> IF TableOf(x) = at THEN rows[x] ELSE None]
             todo == {x \in Present : /\ TableOf(x) = at
                                      /\ NeedsUpdate(rows[x]) \/ PartsMissing(x, rows[x])}
  <2>1. snap \in [Rows -> RowType \cup {None}] /\ todo \in SUBSET Rows
    BY DEF BackfillInv, BackfillTypeOK, Present
  <2>2. script' = [at |-> at, snap |-> snap, todo |-> todo]
    BY DEF Snapshot
  <2> HIDE DEF snap, todo
  <2>3. script' \in [at : 0..3, todo : SUBSET Rows, snap : [Rows -> RowType \cup {None}]]
    BY <2>1, <2>2
  <2> QED BY <2>3 DEF BackfillInv, BackfillTypeOK
<1>3. Present' = Present
  BY DEF Present
<1>4. ASSUME NEW x \in Present PROVE RowInv(x)' /\ (Passed(x)' => SealedBut(x)')
  <2>1. RowInv(x)
    BY DEF BackfillInv
  <2>2. ~NeedsUpdate(rows[x]) => Hidden(rows[x])
    BY DEF NeedsUpdate, Hidden
  <2> QED BY <1>1, <2>1, <2>2 DEF RowInv, Passed, SealedBut
<1>5. ASSUME NEW x \in script'.todo PROVE TodoInv(x)'
  <2>1. x \in Present /\ TableOf(x) = at /\ x \in Rows
    BY <1>1, <1>5 DEF Present
  <2>2. script'.snap[x] = rows[x] /\ RowInv(x)
    BY <1>1, <2>1 DEF BackfillInv
  <2> QED BY <1>1, <2>1, <2>2 DEF TodoInv, RowInv
<1> QED BY <1>1, <1>2, <1>3, <1>4, <1>5 DEF BackfillInv

\* The script stops, at its end or before.
LEMMA StopInv ==
    ASSUME BackfillInv, script' = ScriptIdle, UNCHANGED <<rows, runs, edits, halfSealed>>,
           edited' = edited, sealedTables' \subseteq 1..3,
           \A x \in Present : TableOf(x) \in sealedTables' => SealedBut(x)
    PROVE  BackfillInv'
<1>1. script'.at = 0 /\ script'.todo = {}
      /\ script' \in [at : 0..3, todo : SUBSET Rows, snap : [Rows -> RowType \cup {None}]]
  BY IdleFacts
<1>2. BackfillTypeOK' /\ Present' = Present
  BY <1>1 DEF BackfillInv, BackfillTypeOK, Present
<1>3. ASSUME NEW x \in Present PROVE RowInv(x)' /\ (Passed(x)' => SealedBut(x)')
  BY <1>1 DEF BackfillInv, RowInv, Passed, TableOf, SealedBut
<1> QED BY <1>1, <1>2, <1>3 DEF BackfillInv

LEMMA SealRowFacts ==
    ASSUME BackfillInv, NEW x \in script.todo, rows[x] # None,
           rows' = [rows EXCEPT ![x] = Sealed(x, script.snap[x])]
    PROVE  /\ x \in Rows /\ x \in Present /\ TodoInv(x)
           /\ \A y \in Rows \ {x} : rows'[y] = rows[y]
           /\ rows'[x] = Sealed(x, script.snap[x])
           /\ Sound(x, rows'[x]) /\ Hidden(rows'[x]) /\ PartsMatch(rows'[x])
           /\ script.snap[x].key = None \/ script.snap[x].key.seals = 0 => HashMatches(rows'[x])
           /\ ReadBack(rows'[x]) = ReadBack(script.snap[x])
<1>1. x \in Rows /\ TodoInv(x) /\ rows \in [Rows -> RowType \cup {None}]
  BY DEF BackfillInv, BackfillTypeOK
<1> QED BY <1>1, SealedFacts DEF TodoInv, Present

LEMMA SealRowInv ==
    ASSUME BackfillInv, SealRow PROVE BackfillInv'
<1>1. PICK x \in script.todo :
         IF rows[x] = None
         THEN script' = ScriptIdle /\ UNCHANGED <<rows, halfSealed>>
         ELSE /\ rows' = [rows EXCEPT ![x] = Sealed(x, script.snap[x])]
              /\ script' = [script EXCEPT !.todo = @ \ {x}]
              /\ halfSealed' = IF script.snap[x].key # None /\ script.snap[x].key.seals > 0
                               THEN halfSealed \cup {x} ELSE halfSealed
  BY DEF SealRow
<1>2. UNCHANGED <<runs, edits, sealedTables, edited>>
  BY DEF SealRow
<1>3. CASE rows[x] = None
  BY <1>1, <1>2, <1>3, StopInv DEF BackfillInv, BackfillTypeOK, Passed
<1>4. CASE rows[x] # None
  <2>1. /\ x \in Rows /\ x \in Present /\ TodoInv(x)
        /\ \A y \in Rows \ {x} : rows'[y] = rows[y]
        /\ Sound(x, rows'[x]) /\ Hidden(rows'[x]) /\ PartsMatch(rows'[x])
        /\ script.snap[x].key = None \/ script.snap[x].key.seals = 0 => HashMatches(rows'[x])
    BY <1>1, <1>4, SealRowFacts
  <2>2. script'.at = script.at /\ script'.snap = script.snap /\ script'.todo = script.todo \ {x}
    BY <1>1, <1>4 DEF BackfillInv, BackfillTypeOK
  <2>3. x \notin halfSealed' => HashMatches(rows'[x])
    <3>1. script.snap[x].key = None \/ script.snap[x].key.seals \in 0..1
      BY <2>1 DEF TodoInv, Sound, RowType, Values
    <3> QED BY <1>1, <1>4, <2>1, <3>1
  <2>4. BackfillTypeOK' /\ halfSealed \subseteq halfSealed'
    BY <1>1, <1>2, <1>4, <2>1, <2>2 DEF BackfillInv, BackfillTypeOK, Sound
  <2>5. ASSUME NEW y \in Present' PROVE RowInv(y)' /\ (Passed(y)' => SealedBut(y)')
    <3>1. CASE y = x
      BY <2>1, <2>3, <3>1 DEF RowInv, SealedBut
    <3>2. CASE y # x
      <4>1. y \in Present /\ rows'[y] = rows[y] /\ (Passed(y)' => Passed(y))
        BY <1>2, <2>1, <2>2, <2>5, <3>2 DEF Present, Passed
      <4>2. RowInv(y) /\ (Passed(y) => SealedBut(y))
        BY <4>1 DEF BackfillInv
      <4> QED BY <1>2, <2>4, <4>1, <4>2 DEF RowInv, SealedBut
    <3> QED BY <3>1, <3>2
  <2>6. ASSUME NEW y \in script'.todo PROVE TodoInv(y)'
    <3>1. y \in Rows \ {x} /\ TodoInv(y)
      BY <2>2, <2>6 DEF BackfillInv, BackfillTypeOK
    <3> QED BY <1>2, <2>1, <2>2, <3>1 DEF TodoInv
  <2> QED BY <1>2, <2>2, <2>4, <2>5, <2>6 DEF BackfillInv
<1> QED BY <1>3, <1>4

LEMMA ScriptInv ==
    ASSUME BackfillInv, StartRun \/ SealRow \/ NextTable \/ ScriptStops
    PROVE  BackfillInv'
<1>1. CASE StartRun
  BY <1>1, SnapshotInv, NullIsNoValue DEF StartRun, BackfillInv, BackfillTypeOK
<1>2. CASE NextTable
  <2>1. /\ script.at \in 1..3 /\ script.todo = {} /\ sealedTables' = sealedTables \cup {script.at}
        /\ UNCHANGED <<rows, runs, edits, halfSealed>>
    BY <1>2 DEF NextTable, BackfillInv, BackfillTypeOK
  <2>2. \A x \in Present : TableOf(x) \in sealedTables' => SealedBut(x)
    BY <2>1 DEF BackfillInv, Passed
  <2>3. \A t \in sealedTables' : t \in 1..3 /\ t < script.at + 1
    BY <2>1 DEF BackfillInv, BackfillTypeOK
  <2>4. CASE script.at < 3
    <3>1. Snapshot(script.at + 1) /\ edited' = {} /\ script.at + 1 \in 1..3
      BY <1>2, <2>1, <2>4 DEF NextTable, Tables
    <3>2. \A x \in Present : TableOf(x) \in sealedTables' => Hidden(rows[x])
      BY <2>1, <2>2, <2>3, <2>4, NullIsNoValue DEF SealedBut, TableOf
    <3> QED BY <2>1, <2>3, <3>1, <3>2, SnapshotInv DEF BackfillInv, BackfillTypeOK
  <2>5. CASE ~(script.at < 3)
    <3>1. script' = ScriptIdle /\ UNCHANGED edited
      BY <1>2, <2>5 DEF NextTable, Tables
    <3> QED BY <2>1, <2>2, <2>3, <3>1, StopInv DEF BackfillInv, BackfillTypeOK
  <2> QED BY <2>4, <2>5
<1>3. CASE ScriptStops
  BY <1>3, StopInv DEF ScriptStops, BackfillInv, BackfillTypeOK, Passed
<1> QED BY <1>1, <1>2, <1>3, SealRowInv

LEMMA BackfillNextInv == BackfillInv /\ [BackfillNext]_backfillVars => BackfillInv'
<1> SUFFICES ASSUME BackfillInv, [BackfillNext]_backfillVars PROVE BackfillInv'
  OBVIOUS
<1>1. CASE UNCHANGED backfillVars
  BY <1>1 DEF backfillVars, BackfillInv, BackfillTypeOK, Present, RowInv, Passed, SealedBut, TodoInv
<1> QED BY <1>1, ApiInv, ScriptInv DEF BackfillNext

LEMMA BackfillInvariance == BackfillSpec => []BackfillInv
<1>1. BackfillInit => BackfillInv
  BY BackfillInitInv
<1>2. BackfillInv /\ [BackfillNext]_backfillVars => BackfillInv'
  BY BackfillNextInv
<1> QED BY <1>1, <1>2, PTL DEF BackfillSpec

-----------------------------------------------------------------------------
(* The theorems                                                            *)

\* No column is ever encrypted twice, by the API, by the script or by a second run.
THEOREM NeverSealedTwice == BackfillSpec => []BackfillTypeOK
<1>1. BackfillInv => BackfillTypeOK
  BY DEF BackfillInv
<1> QED BY BackfillInvariance, <1>1, PTL

\* A table the script has passed holds no plaintext and no row without its hash, though
\* the API wrote between the snapshot and the updates and the script stopped and reran;
\* only the default title of a voice record created since the snapshot remains.
THEOREM PassedStaySealed == BackfillSpec => []PassedTablesSealed
<1>1. BackfillInv => PassedTablesSealed
  BY DEF BackfillInv, PassedTablesSealed, Passed, SealedBut
<1> QED BY BackfillInvariance, <1>1, PTL

\* The hash that finds a row and the parts of a birthday belong to what is encrypted
\* beside them, rows excused whose key was encrypted before the script hashed it.
THEOREM LookupsAlwaysMatch == BackfillSpec => []LookupsMatch
<1>1. BackfillInv => LookupsMatch
  BY DEF BackfillInv, LookupsMatch, RowInv, PartsMatch, HashMatches
<1> QED BY BackfillInvariance, <1>1, PTL

\* The script changes no text a user would read, unless the API wrote the row between
\* its snapshot and its update.
LEMMA TextsKeptStep ==
    ASSUME BackfillInv, [BackfillNext]_backfillVars
    PROVE  [\A x \in Rows \ edited : edits' = edits => ReadBack(rows'[x]) = ReadBack(rows[x])]_backfillVars
<1> SUFFICES ASSUME BackfillNext, NEW x \in Rows \ edited, edits' = edits
             PROVE  ReadBack(rows'[x]) = ReadBack(rows[x])
  BY DEF backfillVars
<1>1. ~(Insert \/ CreateVoiceRecord \/ SaveMain \/ SaveKey \/ SaveExtra \/ Delete)
  <2>1. edits' # edits + 1
    BY NullIsNoValue DEF BackfillInv, BackfillTypeOK
  <2> QED BY <2>1 DEF Insert, CreateVoiceRecord, SaveMain, SaveKey, SaveExtra, Delete, Write
<1>2. CASE StartRun \/ NextTable \/ ScriptStops
  BY <1>2 DEF StartRun, NextTable, ScriptStops
<1>3. CASE SealRow
  <2>1. PICK y \in script.todo :
           UNCHANGED rows \/ (rows[y] # None
                              /\ rows' = [rows EXCEPT ![y] = Sealed(y, script.snap[y])])
    BY <1>3 DEF SealRow
  <2>2. CASE UNCHANGED rows
    BY <2>2
  <2>3. CASE rows[y] # None /\ rows' = [rows EXCEPT ![y] = Sealed(y, script.snap[y])]
    <3>1. /\ TodoInv(y) /\ (x # y => rows'[x] = rows[x])
          /\ ReadBack(rows'[y]) = ReadBack(script.snap[y])
      BY <2>3, SealRowFacts
    <3> QED BY <3>1 DEF TodoInv
  <2> QED BY <2>1, <2>2, <2>3
<1> QED BY <1>1, <1>2, <1>3 DEF BackfillNext

\* The same of every behaviour.
THEOREM TextsAreKept == BackfillSpec => ScriptKeepsTexts
<1>1. BackfillInv /\ [BackfillNext]_backfillVars
      => [\A x \in Rows \ edited : edits' = edits => ReadBack(rows'[x]) = ReadBack(rows[x])]_backfillVars
  BY TextsKeptStep
<1> QED BY <1>1, BackfillInvariance, PTL DEF BackfillSpec, ScriptKeepsTexts

-----------------------------------------------------------------------------
(* Running the script again                                                *)

\* What is still to do was read with something to do about it.
Unsealed(x, row) == NeedsUpdate(row) \/ PartsMissing(x, row)
TodoIsUnsealed == \A x \in script.todo : Unsealed(x, script.snap[x])

LEMMA TodoIsUnsealedStep ==
    ASSUME BackfillInv, TodoIsUnsealed, [BackfillNext]_backfillVars
    PROVE  TodoIsUnsealed'
<1>1. ASSUME NEW at, Snapshot(at) PROVE TodoIsUnsealed'
  <2>1. ASSUME NEW x \in script'.todo PROVE Unsealed(x, script'.snap[x])
    <3>1. x \in Rows /\ TableOf(x) = at /\ Unsealed(x, rows[x])
      BY <1>1, <2>1 DEF Snapshot, Present, Unsealed
    <3>2. script'.snap[x] = rows[x]
      BY <1>1, <3>1 DEF Snapshot
    <3> QED BY <3>1, <3>2
  <2> QED BY <2>1 DEF TodoIsUnsealed
<1>2. CASE script'.todo = {}
  BY <1>2 DEF TodoIsUnsealed
<1>3. CASE UNCHANGED script
  BY <1>3 DEF TodoIsUnsealed
<1>4. CASE SealRow
  <2>1. script' = ScriptIdle \/ \E x \in script.todo : script' = [script EXCEPT !.todo = @ \ {x}]
    BY <1>4 DEF SealRow
  <2>2. CASE script' = ScriptIdle
    BY <1>2, <2>2, IdleFacts
  <2>3. ASSUME NEW x \in script.todo, script' = [script EXCEPT !.todo = @ \ {x}]
        PROVE  TodoIsUnsealed'
    <3>1. script'.todo \subseteq script.todo /\ script'.snap = script.snap
      BY <2>3 DEF BackfillInv, BackfillTypeOK
    <3> QED BY <3>1 DEF TodoIsUnsealed
  <2> QED BY <2>1, <2>2, <2>3
<1>5. CASE StartRun \/ NextTable \/ ScriptStops
  BY <1>1, <1>2, <1>5, IdleFacts DEF StartRun, NextTable, ScriptStops
<1> QED BY <1>3, <1>4, <1>5
     DEF BackfillNext, backfillVars, Insert, CreateVoiceRecord, SaveMain, SaveKey, SaveExtra, Delete, Write

\* An update of the script leaves nothing for a later one to do, month and day included.
LEMMA SealedIsComplete ==
    ASSUME NEW x \in Rows, NEW row, Sound(x, row)
    PROVE  ~Unsealed(x, Sealed(x, row))
<1>1. ~NeedsUpdate(Sealed(x, row))
  BY SealedFacts DEF NeedsUpdate, Hidden
<1>2. ASSUME x \in People, Sealed(x, row).extra # None PROVE Sealed(x, row).parts # None
  <2>1. row.extra \in Values /\ Sealed(x, row).extra = Encrypt(row.extra)
    BY DEF Sound, RowType, Sealed
  <2>2. /\ row.extra # None
        /\ row.extra \in [word : Words, seals : 0..1] /\ row.extra.word \notin Prefixed
    BY <1>2, <2>1, EncryptFacts DEF Values, Sound
  <2>3. Decrypt(row.extra) \in [word : Words, seals : 0..1] /\ Decrypt(row.extra).seals = 0
    BY <2>2 DEF Decrypt, IsEncrypted
  <2>4. PartsOf(row) \in Words /\ Sealed(x, row).parts = PartsOf(row)
    BY <1>2, <2>3, NullIsNoValue DEF PartsOf, Parts, Sealed
  <2> QED BY <2>4, NullIsNoValue
<1> QED BY <1>1, <1>2 DEF Unsealed, PartsMissing

\* The script writes a row once: what it writes leaves nothing to do, and it writes only
\* where there was something to do, unless the API wrote the row behind its snapshot.
WritesEachRowOnce ==
    [][\A x \in Present :
          edits' = edits /\ rows'[x] # rows[x]
              => ~Unsealed(x, rows'[x]) /\ (x \notin edited => Unsealed(x, rows[x]))]_backfillVars

LEMMA WritesOnceStep ==
    ASSUME BackfillInv, TodoIsUnsealed, [BackfillNext]_backfillVars, NEW x \in Present,
           edits' = edits, rows'[x] # rows[x]
    PROVE  ~Unsealed(x, rows'[x]) /\ (x \notin edited => Unsealed(x, rows[x]))
<1>1. ~(Insert \/ CreateVoiceRecord \/ SaveMain \/ SaveKey \/ SaveExtra \/ Delete)
  <2>1. edits' # edits + 1
    BY NullIsNoValue DEF BackfillInv, BackfillTypeOK
  <2> QED BY <2>1 DEF Insert, CreateVoiceRecord, SaveMain, SaveKey, SaveExtra, Delete, Write
<1>2. ~(StartRun \/ NextTable \/ ScriptStops \/ UNCHANGED backfillVars)
  BY DEF StartRun, NextTable, ScriptStops, backfillVars
<1>3. SealRow
  BY <1>1, <1>2 DEF BackfillNext
<1>4. PICK y \in script.todo :
         UNCHANGED rows \/ (rows[y] # None
                            /\ rows' = [rows EXCEPT ![y] = Sealed(y, script.snap[y])])
  BY <1>3 DEF SealRow
<1>5. rows[y] # None /\ rows' = [rows EXCEPT ![y] = Sealed(y, script.snap[y])]
  BY <1>4
<1>6. x = y
  BY <1>5, SealRowFacts DEF Present
<1>7. x \in Rows /\ TodoInv(x) /\ rows'[x] = Sealed(x, script.snap[x])
  BY <1>5, <1>6, SealRowFacts
<1>8. Unsealed(x, script.snap[x])
  BY <1>6 DEF TodoIsUnsealed
<1> QED BY <1>7, <1>8, SealedIsComplete DEF TodoInv

\* A second run, or a run after an abort, writes only the rows that are left to do
\* (needsUpdate and the skip in each loop of backfill-pii-encryption.ts).
THEOREM RerunsChangeNothing == BackfillSpec => WritesEachRowOnce
<1>1. BackfillInit => TodoIsUnsealed
  BY IdleFacts DEF BackfillInit, TodoIsUnsealed
<1>2. BackfillInv /\ TodoIsUnsealed /\ [BackfillNext]_backfillVars => TodoIsUnsealed'
  BY TodoIsUnsealedStep
<1>3. BackfillInv /\ TodoIsUnsealed /\ [BackfillNext]_backfillVars
      => [\A x \in Present :
             edits' = edits /\ rows'[x] # rows[x]
                 => ~Unsealed(x, rows'[x]) /\ (x \notin edited => Unsealed(x, rows[x]))]_backfillVars
  BY WritesOnceStep
<1> QED BY <1>1, <1>2, <1>3, BackfillInvariance, PTL DEF BackfillSpec, WritesEachRowOnce
=============================================================================

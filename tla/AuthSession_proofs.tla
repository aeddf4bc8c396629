--------------------------- MODULE AuthSession_proofs ---------------------------
(***************************************************************************)
(* Proofs about AuthSession, for any set of requests, any number of them   *)
(* in flight and any set of faults.  The inductive invariant IInv ties the *)
(* local variables of every request to the rows it has read or written.    *)
(***************************************************************************)
EXTENDS AuthSession, TLAPS

-----------------------------------------------------------------------------
(* The inductive invariant.                                                *)

Creators == {"promote", "get", "del"} \cup Ended   \* after the INSERT, if any
Admitting == {"assert", "dbUser", "dbToken", "recache"}

Stored(t) == tokens[t].state # "absent"

\* What the awaits of request r remember is still true of the database.
RequestInv(r) ==
    /\ Stored(r) => req[r].pc \in Creators
    /\ req[r].pc = "promote" \/ (req[r].pc = "done" /\ req[r].op \in {"login", "refresh"})
          => Stored(r)
    /\ req[r].pc \in Admitting => req[r].op \in {"refresh", "access", "delete"}
    /\ req[r].pc = "rotate" => req[r].op = "refresh"
    /\ req[r].pc \in {"erase", "wipe"} => req[r].op = "delete"
    /\ req[r].pc = "find" => /\ req[r].op \in {"refresh", "logout"}
                             /\ req[r].tok \in Tokens /\ Stored(req[r].tok)
    /\ req[r].op = "refresh" /\ req[r].pc \in Admitting \cup {"rotate"}
          => /\ req[r].tok \in Tokens /\ Stored(req[r].tok)
             /\ req[r].fam = tokens[req[r].tok].fam
    /\ req[r].pc \in {"pending", "loginTx", "loginCommit"}
          => req[r].op = "login" /\ req[r].fam = r
    /\ req[r].pc \in {"promote", "recache"} => FamilyTokens(req[r].fam) # {}

\* A deleted account leaves no usable row behind.
ErasedInv == ~userExists => active = None /\ LiveTokens = {}

\* A token that replaced another one is the successor of a spent token.
ParentInv == \A t \in Tokens :
                tokens[t].parent # None =>
                    Stored(t) /\ tokens[tokens[t].parent].state \in {"revoked", "gone"}

DatabaseInv == ErasedInv /\ ParentInv /\ RotatedOnce /\ ActiveFamilyHasLiveToken

IInv == /\ TypeOK
        /\ DatabaseInv
        /\ Stored(Genesis)
        /\ \A r \in Requests : RequestInv(r)
        /\ PromotedWasCommitted

-----------------------------------------------------------------------------
(* Lemmas about the helpers.                                               *)

\* Goto moves one request and keeps what its later steps read.
LEMMA LocalsType ==
    ASSUME NEW op \in Operations \cup {None}, NEW pc \in Waiting \cup Ended \cup {"idle"},
           NEW f \in Families \cup {None}, NEW t \in Tokens \cup {None}
    PROVE  Locals(op, pc, f, t) \in RequestRecords
BY DEF Locals, RequestRecords

LEMMA GotoFacts ==
    ASSUME TypeOK, NEW r \in Requests, NEW pc \in Waiting \cup Ended, Goto(r, pc)
    PROVE  /\ req' \in [Requests -> RequestRecords]
           /\ req'[r].pc = pc /\ req'[r].op = req[r].op /\ req'[r].fam = req[r].fam
           /\ pc \in Waiting => req'[r].tok = req[r].tok
           /\ \A q \in Requests \ {r} : req'[q] = req[q]
<1>1. req \in [Requests -> RequestRecords]
  BY DEF TypeOK
<1>2. CASE pc \in Ended
  <2> DEFINE rec == Locals(req[r].op, pc, req[r].fam, None)
  <2>1. req' = [req EXCEPT ![r] = rec]
    BY <1>2 DEF Goto
  <2>2. rec.pc = pc /\ rec.op = req[r].op /\ rec.fam = req[r].fam
    BY DEF Locals
  <2>3. rec \in RequestRecords
    <3>1. req[r].op \in Operations \cup {None} /\ req[r].fam \in Families \cup {None}
      BY <1>1 DEF RequestRecords
    <3> QED
      BY <3>1, LocalsType
  <2>4. pc \notin Waiting
    BY <1>2 DEF Ended, Waiting
  <2> HIDE DEF rec
  <2> QED
    BY <1>1, <2>1, <2>2, <2>3, <2>4
<1>3. CASE pc \notin Ended
  <2> DEFINE rec == [req[r] EXCEPT !.pc = pc]
  <2>1. req' = [req EXCEPT ![r] = rec]
    BY <1>3 DEF Goto
  <2>2. rec \in RequestRecords /\ rec.pc = pc /\ rec.op = req[r].op /\ rec.fam = req[r].fam
           /\ rec.tok = req[r].tok
    BY <1>1 DEF RequestRecords
  <2> HIDE DEF rec
  <2> QED
    BY <1>1, <2>1, <2>2
<1> QED
  BY <1>2, <1>3

\* Arrive fills the locals of a request that was idle.
LEMMA ArriveFacts ==
    ASSUME TypeOK, NEW r \in Requests, NEW op \in Operations, NEW pc \in Waiting,
           NEW f \in Families \cup {None}, NEW t \in Tokens \cup {None}, Arrive(r, op, pc, f, t)
    PROVE  /\ req' \in [Requests -> RequestRecords]
           /\ req'[r].pc = pc /\ req'[r].op = op /\ req'[r].fam = f /\ req'[r].tok = t
           /\ \A q \in Requests \ {r} : req'[q] = req[q]
           /\ req[r].pc = "idle"
           /\ UNCHANGED <<userExists, active, tokens, redis, redisReady>>
<1> DEFINE rec == Locals(op, pc, f, t)
<1>1. rec.op = op /\ rec.pc = pc /\ rec.fam = f /\ rec.tok = t
  BY DEF Locals
<1>2. rec \in RequestRecords
  BY LocalsType
<1>3. req \in [Requests -> RequestRecords] /\ req' = [req EXCEPT ![r] = rec]
  BY DEF TypeOK, Arrive
<1>4. req[r].pc = "idle" /\ UNCHANGED <<userExists, active, tokens, redis, redisReady>>
  BY DEF Arrive, At, Database, Cache
<1> HIDE DEF rec
<1> QED
  BY <1>1, <1>2, <1>3, <1>4

\* Rows are only added, and a row keeps its family.
RowsKept == \A t \in Tokens : Stored(t) => Stored(t)' /\ tokens'[t].fam = tokens[t].fam

\* A family that has rows keeps them.
LEMMA FamilyKept == RowsKept => \A f : FamilyTokens(f) # {} => FamilyTokens(f)' # {}
BY DEF RowsKept, FamilyTokens, Stored

\* A request that does not move is not disturbed by rows that other requests add.
LEMMA OthersKept ==
    ASSUME RowsKept, NEW q \in Requests, RequestInv(q), req'[q] = req[q],
           Stored(q)' => Stored(q)
    PROVE  RequestInv(q)'
<1>1. ASSUME NEW t \in Tokens, Stored(t)
      PROVE  Stored(t)' /\ tokens'[t].fam = tokens[t].fam
  BY <1>1 DEF RowsKept
<1>2. (req[q].pc \in {"promote", "recache"} => FamilyTokens(req[q].fam) # {})'
  BY FamilyKept DEF FamilyTokens, RequestInv
<1>3. (/\ Stored(q) => req[q].pc \in Creators
       /\ req[q].pc = "promote" \/ (req[q].pc = "done" /\ req[q].op \in {"login", "refresh"})
             => Stored(q))'
  BY <1>1 DEF RequestInv, Tokens
<1>4. (req[q].pc = "find" => /\ req[q].op \in {"refresh", "logout"}
                             /\ req[q].tok \in Tokens /\ Stored(req[q].tok))'
  BY <1>1 DEF RequestInv, Stored
<1>5. (req[q].op = "refresh" /\ req[q].pc \in Admitting \cup {"rotate"}
          => /\ req[q].tok \in Tokens /\ Stored(req[q].tok)
             /\ req[q].fam = tokens[req[q].tok].fam)'
  BY <1>1 DEF RequestInv, Stored
<1> QED
  BY <1>2, <1>3, <1>4, <1>5 DEF RequestInv

\* The rows being what they were, the database part of IInv is what it was.
LEMMA DatabaseKept ==
    ASSUME DatabaseInv, UNCHANGED Database
    PROVE  DatabaseInv' /\ RowsKept /\ \A t \in Tokens : Stored(t)' = Stored(t)
BY DEF DatabaseInv, ErasedInv, ParentInv, RotatedOnce, ActiveFamilyHasLiveToken, Database,
       LiveTokens, Live, Stored, RowsKept

LEMMA InitInv == Init => IInv
<1> SUFFICES ASSUME Init PROVE IInv
  OBVIOUS
<1> USE DEF Init
<1>1. TypeOK
  BY DEF TypeOK, Tokens, Families, TokenRecords, RequestRecords, NewToken, NoToken, Locals
<1>2. DatabaseInv
  BY NamesAssumption DEF DatabaseInv, ErasedInv, ParentInv, RotatedOnce, ActiveFamilyHasLiveToken, LiveTokens,
     Live, Stored, Tokens, NewToken, NoToken
<1>3. Stored(Genesis)
  BY DEF Stored, Tokens, NewToken
<1>4. \A r \in Requests : RequestInv(r)
  BY NamesAssumption DEF RequestInv, Stored, Tokens, NoToken, Locals, Admitting, Creators, Ended
<1>5. PromotedWasCommitted
  BY DEF PromotedWasCommitted, FamilyTokens, Tokens, NewToken
<1> QED
  BY <1>1, <1>2, <1>3, <1>4, <1>5 DEF IInv

-----------------------------------------------------------------------------
(* Steps that leave the database alone: one request moves, Redis may change. *)

CacheTypeOK == /\ redis \in [fam : Families, ttl : {"pending", "full"}] \cup {None}
               /\ redisReady \in BOOLEAN

LEMMA QuietStep ==
    ASSUME IInv, NEW r \in Requests, UNCHANGED Database,
           req' \in [Requests -> RequestRecords],
           \A q \in Requests \ {r} : req'[q] = req[q],
           RequestInv(r)', CacheTypeOK', PromotedWasCommitted'
    PROVE  IInv'
<1>1. DatabaseInv' /\ RowsKept /\ \A t \in Tokens : Stored(t)' = Stored(t)
  BY DatabaseKept DEF IInv
<1>2. \A q \in Requests \ {r} : RequestInv(q)'
  <2> SUFFICES ASSUME NEW q \in Requests \ {r} PROVE RequestInv(q)'
    OBVIOUS
  <2>1. RequestInv(q) /\ req'[q] = req[q]
    BY DEF IInv
  <2>2. Stored(q)' => Stored(q)
    BY <1>1 DEF Tokens
  <2> QED
    BY <1>1, <2>1, <2>2, OthersKept
<1>3. TypeOK'
  BY DEF IInv, TypeOK, CacheTypeOK, Database
<1>4. Stored(Genesis)'
  BY <1>1 DEF IInv, Tokens
<1> QED
  BY <1>1, <1>2, <1>3, <1>4 DEF IInv

\* A step that leaves the key, or removes it, cannot promote a family.
LEMMA CacheKept ==
    ASSUME IInv, UNCHANGED Database, redis' = redis \/ redis' = None, redisReady' \in BOOLEAN
    PROVE  CacheTypeOK' /\ PromotedWasCommitted'
BY NamesAssumption DEF IInv, TypeOK, CacheTypeOK, PromotedWasCommitted, FamilyTokens, Database, Tokens, Families

\* A SET is sound for a family of ours, and with the long TTL only if it has rows.
LEMMA SetFacts ==
    ASSUME IInv, NEW r \in Requests, NEW ttl \in {"pending", "full"},
           NEW next \in Waiting \cup Ended, SetActiveSession(r, ttl, next), UNCHANGED Database,
           req[r].fam \in Families,
           ttl = "full" => FamilyTokens(req[r].fam) # {}
    PROVE  /\ CacheTypeOK' /\ PromotedWasCommitted'
           /\ Goto(r, next) \/ Goto(r, "failed")
<1>1. CASE redisReady /\ redis' = [fam |-> req[r].fam, ttl |-> ttl]
  <2>1. CacheTypeOK'
    BY <1>1 DEF SetActiveSession, CacheTypeOK, IInv, TypeOK, Cache
  <2>2. PromotedWasCommitted'
    BY <1>1 DEF PromotedWasCommitted, FamilyTokens, Database
  <2> QED
    BY <1>1, <2>1, <2>2 DEF SetActiveSession, Cache
<1>2. CASE ~redisReady /\ UNCHANGED Cache
  BY <1>2, CacheKept DEF SetActiveSession, Cache, IInv, TypeOK
<1> QED
  BY <1>1, <1>2 DEF SetActiveSession

\* A request that fails has nothing left to be right about, but what it stored.
LEMMA FailedInv ==
    ASSUME IInv, NEW r \in Requests, Goto(r, "failed"), UNCHANGED Database
    PROVE  RequestInv(r)'
<1>1. req'[r].pc = "failed"
  BY GotoFacts DEF IInv, Ended
<1> QED
  BY <1>1 DEF RequestInv, Creators, Ended, Admitting

\* A request that moves without touching either store: what it must still satisfy.
LEMMA MoveStep ==
    ASSUME IInv, NEW r \in Requests, NEW pc \in Waiting \cup Ended, Goto(r, pc),
           UNCHANGED Database, redis' = redis \/ redis' = None, redisReady' \in BOOLEAN,
           RequestInv(r)'
    PROVE  IInv'
BY GotoFacts, CacheKept, QuietStep DEF IInv

\* Requests arrive idle, with the token or the family of a token some client holds.
LEMMA IssuedStored == IInv => \A t \in Issued : t \in Tokens /\ Stored(t)
BY DEF IInv, Issued, RequestInv, Tokens

LEMMA ArriveStep ==
    ASSUME IInv, NEW r \in Requests,
           Login(r) \/ Access(r) \/ Refresh(r) \/ Logout(r) \/ DeleteAccount(r)
    PROVE  IInv'
<1>1. ASSUME NEW op \in Operations, NEW pc \in Waiting, NEW f \in Families \cup {None},
             NEW t \in Tokens \cup {None}, Arrive(r, op, pc, f, t),
             \/ op = "login" /\ pc = "pending" /\ f = r
             \/ op \in {"access", "delete"} /\ pc = "assert"
             \/ op \in {"refresh", "logout"} /\ pc = "find" /\ t \in Tokens /\ Stored(t)
      PROVE  IInv'
  <2>1. /\ req' \in [Requests -> RequestRecords]
        /\ req'[r].pc = pc /\ req'[r].op = op /\ req'[r].fam = f /\ req'[r].tok = t
        /\ \A q \in Requests \ {r} : req'[q] = req[q]
        /\ req[r].pc = "idle"
        /\ UNCHANGED <<userExists, active, tokens, redis, redisReady>>
    BY <1>1, ArriveFacts DEF IInv
  <2>2. ~Stored(r)
    BY <2>1 DEF IInv, RequestInv, Creators, Ended
  <2>3. RequestInv(r)'
    BY <1>1, <2>1, <2>2 DEF RequestInv, Stored, Admitting
  <2>4. CacheTypeOK' /\ PromotedWasCommitted' /\ UNCHANGED Database
    BY <2>1, CacheKept DEF Database, IInv, TypeOK
  <2> QED
    BY <2>1, <2>3, <2>4, QuietStep
<1>2. CASE Login(r)
  BY <1>1, <1>2 DEF Login, Operations, Waiting, Tokens, Families
<1>3. ASSUME NEW t \in Tokens PROVE tokens[t].fam \in Families
  BY DEF IInv, TypeOK, TokenRecords
<1>4. CASE Access(r)
  BY <1>1, <1>3, <1>4, IssuedStored DEF Access, Operations, Waiting
<1>5. CASE Refresh(r)
  BY <1>1, <1>5, IssuedStored DEF Refresh, Operations, Waiting
<1>6. CASE Logout(r)
  BY <1>1, <1>6, IssuedStored DEF Logout, Operations, Waiting
<1>7. CASE DeleteAccount(r)
  BY <1>1, <1>3, <1>7, IssuedStored DEF DeleteAccount, Operations, Waiting
<1> QED
  BY <1>2, <1>4, <1>5, <1>6, <1>7

\* The request the guard lets through goes on with what it knows.
LEMMA AdmittedStep ==
    ASSUME IInv, NEW r \in Requests, req[r].pc \in Admitting
    PROVE  /\ Admitted(r) \in Waiting \cup Ended
           /\ Goto(r, Admitted(r)) /\ UNCHANGED Database => RequestInv(r)'
<1>1. /\ ~Stored(r) /\ req[r].op \in {"refresh", "access", "delete"} /\ TypeOK
      /\ req[r].op = "refresh" => /\ req[r].tok \in Tokens /\ Stored(req[r].tok)
                                  /\ req[r].fam = tokens[req[r].tok].fam
  BY DEF IInv, RequestInv, Admitting, Creators, Ended
<1>2. Admitted(r) \in Waiting \cup Ended
  BY DEF Admitted, Waiting, Ended
<1>3. ASSUME Goto(r, Admitted(r)), UNCHANGED Database PROVE RequestInv(r)'
  <2>1. /\ req'[r].pc = Admitted(r) /\ req'[r].op = req[r].op /\ req'[r].fam = req[r].fam
        /\ Admitted(r) \in Waiting => req'[r].tok = req[r].tok
    BY <1>1, <1>2, <1>3, GotoFacts
  <2>2. CASE req[r].op = "refresh"
    <3>1. req'[r].pc = "rotate" /\ req'[r].tok = req[r].tok
      BY <2>1, <2>2 DEF Admitted, Waiting
    <3> QED
      BY <1>1, <1>3, <2>1, <2>2, <3>1 DEF RequestInv, Stored, Database, Admitting
  <2>3. CASE req[r].op = "delete"
    <3>1. req'[r].pc = "erase"
      BY <2>1, <2>3 DEF Admitted
    <3> QED
      BY <1>1, <1>3, <2>1, <2>3, <3>1 DEF RequestInv, Stored, Database, Admitting
  <2>4. CASE req[r].op = "access"
    <3>1. req'[r].pc = "done"
      BY <2>1, <2>4 DEF Admitted
    <3> QED
      BY <1>1, <1>3, <2>1, <2>4, <3>1 DEF RequestInv, Stored, Database, Admitting
  <2> QED
    BY <1>1, <2>2, <2>3, <2>4
<1> QED
  BY <1>2, <1>3

LEMMA SetStep ==
    ASSUME IInv, NEW r \in Requests, SetPending(r) \/ Promote(r) \/ Recache(r)
    PROVE  IInv'
<1>1. ASSUME NEW ttl \in {"pending", "full"}, NEW next \in Waiting \cup Ended,
             SetActiveSession(r, ttl, next), UNCHANGED Database, req[r].fam \in Families,
             ttl = "full" => FamilyTokens(req[r].fam) # {},
             Goto(r, next) => RequestInv(r)'
      PROVE  IInv'
  <2>1. CacheTypeOK' /\ PromotedWasCommitted' /\ (Goto(r, next) \/ Goto(r, "failed"))
    BY <1>1, SetFacts
  <2>2. CASE Goto(r, next)
    BY <1>1, <2>1, <2>2, GotoFacts, QuietStep DEF IInv
  <2>3. CASE Goto(r, "failed")
    <3>1. RequestInv(r)'
      BY <1>1, <2>3, FailedInv
    <3> QED
      BY <1>1, <2>1, <2>3, <3>1, GotoFacts, QuietStep DEF IInv, Ended
  <2> QED
    BY <2>1, <2>2, <2>3
<1>2. ASSUME NEW f, FamilyTokens(f) # {} PROVE f \in Families
  BY <1>2 DEF FamilyTokens, IInv, TypeOK, TokenRecords
<1>3. RequestInv(r) /\ TypeOK
  BY DEF IInv
<1>4. CASE SetPending(r)
  <2>1. req[r].fam \in Families /\ req[r].fam = r /\ ~Stored(r) /\ req[r].op = "login"
    BY <1>3, <1>4 DEF SetPending, At, RequestInv, Creators, Ended, Families, Tokens
  <2>2. ASSUME Goto(r, "loginTx"), UNCHANGED Database PROVE RequestInv(r)'
    <3>1. req'[r].pc = "loginTx" /\ req'[r].op = req[r].op /\ req'[r].fam = req[r].fam
      BY <1>3, <2>2, GotoFacts DEF Waiting
    <3> QED
      BY <2>1, <2>2, <3>1 DEF RequestInv, Stored, Database, Admitting
  <2> QED
    BY <1>1, <1>4, <2>1, <2>2 DEF SetPending, PendingTtl, Waiting
<1>5. CASE Promote(r)
  <2>1. FamilyTokens(req[r].fam) # {} /\ Stored(r) /\ req[r].fam \in Families
    BY <1>2, <1>3, <1>5 DEF Promote, At, RequestInv
  <2>2. ASSUME Goto(r, "done"), UNCHANGED Database PROVE RequestInv(r)'
    <3>1. req'[r].pc = "done"
      BY <1>3, <2>2, GotoFacts DEF Ended
    <3> QED
      BY <2>1, <2>2, <3>1 DEF RequestInv, Stored, Database, Admitting, Creators, Ended
  <2> QED
    BY <1>1, <1>5, <2>1, <2>2 DEF Promote, Ended
<1>6. CASE Recache(r)
  <2>1. FamilyTokens(req[r].fam) # {} /\ req[r].fam \in Families /\ ~Stored(r)
    BY <1>2, <1>3, <1>6 DEF Recache, At, RequestInv, Creators, Ended
  <2>2. /\ Admitted(r) \in Waiting \cup Ended
        /\ Goto(r, Admitted(r)) /\ UNCHANGED Database => RequestInv(r)'
    BY <1>6, AdmittedStep DEF Recache, At, Admitting
  <2> QED
    BY <1>1, <1>6, <2>1, <2>2 DEF Recache
<1> QED
  BY <1>4, <1>5, <1>6

LEMMA GuardStep ==
    ASSUME IInv, NEW r \in Requests, AssertFromRedis(r) \/ AssertUser(r) \/ AssertToken(r)
    PROVE  IInv'
<1>1. /\ TypeOK /\ UNCHANGED Database /\ UNCHANGED Cache /\ req[r].pc \in Admitting
      /\ redisReady' \in BOOLEAN
  BY DEF IInv, TypeOK, AssertFromRedis, AssertUser, AssertToken, At, Admitting, Cache
<1>2. CASE Goto(r, "failed")
  BY <1>1, <1>2, FailedInv, MoveStep DEF Cache, Ended
<1>3. CASE Goto(r, Admitted(r))
  BY <1>1, <1>3, AdmittedStep, MoveStep DEF Cache
<1>4. ASSUME NEW pc \in {"dbUser", "dbToken", "recache"}, Goto(r, pc),
             pc = "recache" => FamilyTokens(req[r].fam) # {}
      PROVE  IInv'
  <2>1. RequestInv(r) /\ pc \in Waiting
    BY DEF IInv, Waiting
  <2>2. /\ req'[r].pc = pc /\ req'[r].op = req[r].op /\ req'[r].fam = req[r].fam
        /\ req'[r].tok = req[r].tok
    BY <1>1, <1>4, <2>1, GotoFacts
  <2>3. FamilyTokens(req[r].fam)' = FamilyTokens(req[r].fam)
    BY <1>1, <2>2 DEF FamilyTokens, Database
  <2>4. RequestInv(r)'
    BY <1>1, <1>4, <2>1, <2>2, <2>3 DEF RequestInv, Stored, Database, Admitting, Creators, Ended
  <2> QED
    BY <1>1, <1>4, <2>1, <2>4, MoveStep DEF Cache
<1>5. CASE AssertFromRedis(r)
  BY <1>2, <1>3, <1>4, <1>5 DEF AssertFromRedis
<1>6. CASE AssertUser(r)
  BY <1>2, <1>4, <1>6 DEF AssertUser
<1>7. CASE AssertToken(r)
  <2>1. CASE \E t \in LiveTokens : tokens[t].fam = req[r].fam /\ ~tokens[t].expired
    <3>1. FamilyTokens(req[r].fam) # {}
      BY <2>1 DEF FamilyTokens, LiveTokens, Live
    <3> QED
      BY <1>4, <1>7, <2>1, <3>1 DEF AssertToken
  <2>2. CASE ~\E t \in LiveTokens : tokens[t].fam = req[r].fam /\ ~tokens[t].expired
    BY <1>2, <1>7, <2>2 DEF AssertToken
  <2> QED
    BY <2>1, <2>2
<1> QED
  BY <1>5, <1>6, <1>7

\* Awaits that compute nothing the invariant speaks of.
LEMMA PlainStep ==
    ASSUME IInv, NEW r \in Requests,
           \/ LoginSnapshot(r) \/ LoginRollback(r) \/ Find(r) \/ RevokeSnapshot(r)
           \/ CompareGet(r) \/ CompareDel(r) \/ Wipe(r) \/ Crash(r) \/ QueryFails(r)
    PROVE  IInv'
<1>1. TypeOK /\ RequestInv(r) /\ req \in [Requests -> RequestRecords]
  BY DEF IInv, TypeOK
<1>2. ASSUME NEW pc \in {"get", "del", "done", "failed", "crashed"}, Goto(r, pc), UNCHANGED Database,
             pc = "done" => req[r].op \notin {"login", "refresh"},
             redis' = redis \/ redis' = None, UNCHANGED redisReady
      PROVE  IInv'
  <2>1. req'[r].pc = pc /\ req'[r].op = req[r].op /\ pc \in Waiting \cup Ended
    BY <1>1, <1>2, GotoFacts DEF Waiting, Ended
  <2>2. RequestInv(r)'
    BY <1>1, <1>2, <2>1 DEF RequestInv, Creators, Ended, Admitting
  <2>3. redisReady' \in BOOLEAN
    BY <1>1, <1>2 DEF TypeOK
  <2> QED
    BY <1>2, <2>1, <2>2, <2>3, MoveStep
<1>3. AfterDelete(r) \in {"done", "failed"} /\ (AfterDelete(r) = "done" => req[r].op = "logout")
  BY DEF AfterDelete
<1>4. CASE LoginRollback(r)
  BY <1>2, <1>4 DEF LoginRollback, Cache
<1>5. CASE Crash(r)
  BY <1>2, <1>5 DEF Crash, Cache
<1>13. CASE QueryFails(r)
  BY <1>2, <1>13 DEF QueryFails, Cache
<1>6. CASE CompareGet(r)
  BY <1>2, <1>3, <1>6 DEF CompareGet, Cache
<1>7. CASE Wipe(r)
  BY <1>1, <1>2, <1>7 DEF Wipe, At, RequestInv
<1>8. ASSUME UNCHANGED Database, redis' = redis \/ redis' = None, UNCHANGED redisReady,
             req' \in [Requests -> RequestRecords],
             \A q \in Requests \ {r} : req'[q] = req[q], RequestInv(r)'
      PROVE  IInv'
  BY <1>1, <1>8, CacheKept, QuietStep DEF TypeOK
<1>9. CASE CompareDel(r)
  <2>1. CASE Goto(r, AfterDelete(r))
    BY <1>2, <1>3, <1>9, <2>1 DEF CompareDel
  <2>2. CASE req[r].attempt < RetryCount
             /\ req' = [req EXCEPT ![r].pc = "get", ![r].attempt = req[r].attempt + 1]
    <3>1. req[r].attempt + 1 \in 1..2
      BY <1>1, <2>2 DEF RetryCount, RequestRecords
    <3>2. req' \in [Requests -> RequestRecords] /\ req'[r].pc = "get"
      BY <1>1, <2>2, <3>1 DEF RequestRecords, Waiting
    <3>3. RequestInv(r)'
      BY <1>1, <3>2 DEF RequestInv, Creators, Ended, Admitting
    <3> QED
      BY <1>8, <1>9, <2>2, <3>2, <3>3 DEF CompareDel
  <2> QED
    BY <1>9, <2>1, <2>2 DEF CompareDel
<1>10. CASE LoginSnapshot(r)
  <2>3. LoginVictims(r) \in SUBSET Tokens
    BY DEF LoginVictims, LiveTokens
  <2>1. /\ req' \in [Requests -> RequestRecords] /\ req'[r].pc = "loginCommit"
        /\ req'[r].op = req[r].op /\ req'[r].fam = req[r].fam
    <3> DEFINE V == LoginVictims(r)
               rec == [req[r] EXCEPT !.pc = "loginCommit", !.victims = V]
    <3>1. req' = [req EXCEPT ![r] = rec]
      BY <1>10 DEF LoginSnapshot
    <3> HIDE DEF V
    <3>2. /\ rec \in RequestRecords /\ rec.pc = "loginCommit"
          /\ rec.op = req[r].op /\ rec.fam = req[r].fam
      BY <1>1, <2>3 DEF RequestRecords, Waiting, V
    <3> HIDE DEF rec
    <3> QED
      BY <1>1, <3>1, <3>2
  <2>2. RequestInv(r)'
    BY <1>1, <1>10, <2>1 DEF LoginSnapshot, At, RequestInv, Stored, Database, Creators, Ended, Admitting
  <2> QED
    BY <1>8, <1>10, <2>1, <2>2 DEF LoginSnapshot, Cache
<1>11. CASE RevokeSnapshot(r)
  <2>3. FamilyVictims(r) \in SUBSET Tokens
    BY DEF FamilyVictims, LiveTokens
  <2>1. req' \in [Requests -> RequestRecords] /\ req'[r].pc = "revokeCommit"
    <3> DEFINE V == FamilyVictims(r)
               rec == [req[r] EXCEPT !.pc = "revokeCommit", !.victims = V]
    <3>1. req' = [req EXCEPT ![r] = rec]
      BY <1>11 DEF RevokeSnapshot
    <3> HIDE DEF V
    <3>2. rec \in RequestRecords /\ rec.pc = "revokeCommit"
      BY <1>1, <2>3 DEF RequestRecords, Waiting, V
    <3> HIDE DEF rec
    <3> QED
      BY <1>1, <3>1, <3>2
  <2>2. RequestInv(r)'
    BY <1>1, <1>11, <2>1 DEF RevokeSnapshot, At, RequestInv, Stored, Database, Creators, Ended, Admitting
  <2> QED
    BY <1>8, <1>11, <2>1, <2>2 DEF RevokeSnapshot, Cache
<1>12. CASE Find(r)
  <2> DEFINE t == tokens[req[r].tok]
             next == CASE t.state = "gone" -> IF req[r].op = "logout" THEN "done" ELSE "failed"
                       [] t.state # "gone" /\ (req[r].op = "logout" \/ t.state = "revoked")
                                           -> "revokeTx"
                       [] OTHER            -> IF t.expired THEN "failed" ELSE "assert"
  <2>1. /\ req[r].tok \in Tokens /\ Stored(req[r].tok) /\ req[r].op \in {"refresh", "logout"}
        /\ req' = [req EXCEPT ![r].pc = next, ![r].fam = t.fam] /\ ~Stored(r)
        /\ UNCHANGED Database /\ UNCHANGED Cache
    BY <1>1, <1>12 DEF Find, At, RequestInv, Creators, Ended
  <2>2. /\ next \in {"done", "failed", "revokeTx", "assert"}
        /\ next = "done" => req[r].op = "logout"
        /\ next = "assert" => req[r].op = "refresh"
    BY <2>1
  <2>3. t.fam \in Families
    BY <1>1, <2>1 DEF TypeOK, TokenRecords
  <2> HIDE DEF next
  <2>4. /\ req' \in [Requests -> RequestRecords]
        /\ req'[r].pc = next /\ req'[r].fam = t.fam /\ req'[r].op = req[r].op
        /\ req'[r].tok = req[r].tok /\ \A q \in Requests \ {r} : req'[q] = req[q]
    <3> DEFINE f == t.fam
               rec == [req[r] EXCEPT !.pc = next, !.fam = f]
    <3>1. req' = [req EXCEPT ![r] = rec]
      BY <2>1
    <3>2. next \in Waiting \cup Ended
      BY <2>2 DEF Waiting, Ended
    <3>3. f \in Families
      BY <2>3
    <3> HIDE DEF t, f
    <3>4. /\ rec \in RequestRecords /\ rec.pc = next /\ rec.fam = f
          /\ rec.op = req[r].op /\ rec.tok = req[r].tok
      BY <1>1, <3>2, <3>3 DEF RequestRecords
    <3> HIDE DEF rec
    <3> QED
      BY <1>1, <3>1, <3>4 DEF f
  <2>5. RequestInv(r)'
    BY <2>1, <2>2, <2>4 DEF RequestInv, Stored, Database, Creators, Ended, Admitting
  <2> QED
    BY <1>8, <2>1, <2>4, <2>5 DEF Cache
<1> QED
  BY <1>4, <1>5, <1>6, <1>7, <1>9, <1>10, <1>11, <1>12, <1>13

-----------------------------------------------------------------------------
(* Steps that change the database.                                         *)

\* Such a step keeps IInv when the rows, and the request that took it, are right.
LEMMA RowStep ==
    ASSUME IInv, NEW r \in Requests \cup {Genesis}, TypeOK', DatabaseInv', RowsKept,
           \A q \in Requests \ {r} : req'[q] = req[q] /\ (Stored(q)' => Stored(q)),
           r \in Requests => RequestInv(r)',
           UNCHANGED Cache
    PROVE  IInv'
<1>1. ASSUME NEW q \in Requests \ {r} PROVE RequestInv(q)'
  BY OthersKept DEF IInv
<1>2. Stored(Genesis)'
  BY DEF IInv, RowsKept, Tokens
<1>3. PromotedWasCommitted'
  BY FamilyKept DEF IInv, PromotedWasCommitted, Cache, FamilyTokens
<1> QED
  BY <1>1, <1>2, <1>3 DEF IInv

LEMMA LoginCommitStep ==
    ASSUME IInv, NEW r \in Requests, LoginCommit(r)
    PROVE  IInv'
<1> DEFINE V == req[r].victims
<1>1. /\ TypeOK /\ DatabaseInv /\ RequestInv(r) /\ userExists
      /\ ~Stored(r) /\ req[r].fam = r /\ req[r].op = "login" /\ r \in Tokens /\ r # None
      /\ active' = r /\ UNCHANGED <<userExists, redis, redisReady>>
  BY NamesAssumption DEF IInv, LoginCommit, At, RequestInv, Creators, Ended, Tokens, Cache
<1>2. tokens' = [t \in Tokens |-> IF t = r THEN NewToken(r, None)
                                  ELSE IF t \in V /\ Live(t)
                                       THEN [tokens[t] EXCEPT !.state = "revoked"] ELSE tokens[t]]
  BY <1>1 DEF LoginCommit, Revoked
<1>3. PICK pc \in {"promote", "get"} : Goto(r, pc)
  BY DEF LoginCommit
<1>4. /\ req' \in [Requests -> RequestRecords] /\ req'[r].pc = pc /\ req'[r].op = req[r].op
      /\ req'[r].fam = r /\ \A q \in Requests \ {r} : req'[q] = req[q]
  BY <1>1, <1>3, GotoFacts DEF Waiting
<1>5. tokens \in [Tokens -> TokenRecords]
  BY <1>1 DEF TypeOK
<1>6. \A t \in Tokens : /\ tokens'[t] \in TokenRecords
                        /\ t = r => tokens'[t] = NewToken(r, None)
                        /\ t # r => /\ tokens'[t].fam = tokens[t].fam
                                    /\ tokens'[t].parent = tokens[t].parent
                                    /\ tokens'[t].state \in {tokens[t].state, "revoked"}
                                    /\ tokens'[t].state = "absent" <=> tokens[t].state = "absent"
                                    /\ tokens[t].state \in {"revoked", "gone"} => tokens'[t].state = tokens[t].state
  <2> SUFFICES ASSUME NEW t \in Tokens
               PROVE  /\ tokens'[t] \in TokenRecords
                      /\ t = r => tokens'[t] = NewToken(r, None)
                      /\ t # r => /\ tokens'[t].fam = tokens[t].fam
                                  /\ tokens'[t].parent = tokens[t].parent
                                  /\ tokens'[t].state \in {tokens[t].state, "revoked"}
                                  /\ tokens'[t].state = "absent" <=> tokens[t].state = "absent"
                                  /\ tokens[t].state \in {"revoked", "gone"} => tokens'[t].state = tokens[t].state
    OBVIOUS
  <2>1. CASE t = r
    BY <1>1, <1>2, <2>1 DEF NewToken, TokenRecords, Families
  <2>2. CASE t # r
    BY <1>2, <1>5, <2>2 DEF TokenRecords, Live
  <2> QED
    BY <2>1, <2>2
<1>7. /\ NewToken(r, None).state = "live" /\ NewToken(r, None).fam = r
      /\ NewToken(r, None).parent = None
  BY DEF NewToken
<1>8. TypeOK'
  BY <1>1, <1>2, <1>4, <1>6 DEF TypeOK, Families
<1>9. RowsKept
  BY <1>1, <1>6 DEF RowsKept, Stored
<1>10. DatabaseInv'
  <2>1. ErasedInv'
    BY <1>1 DEF ErasedInv
  <2>2. ParentInv'
    <3> SUFFICES ASSUME NEW t \in Tokens, tokens'[t].parent # None
                 PROVE  Stored(t)' /\ tokens'[tokens'[t].parent].state \in {"revoked", "gone"}
      BY DEF ParentInv
    <3>1. t # r
      BY <1>6, <1>7
    <3>2. /\ tokens[t].parent # None /\ tokens'[t].parent = tokens[t].parent
          /\ tokens[t].parent \in Tokens
      BY <1>5, <1>6, <3>1 DEF TokenRecords
    <3>3. Stored(t) /\ tokens[tokens[t].parent].state \in {"revoked", "gone"}
      BY <1>1, <3>2 DEF DatabaseInv, ParentInv
    <3>4. tokens[t].parent # r
      BY <1>1, <3>3 DEF Stored
    <3> QED
      BY <1>6, <3>1, <3>2, <3>3, <3>4 DEF Stored
  <2>3. RotatedOnce'
    BY <1>1, <1>6, <1>7 DEF DatabaseInv, RotatedOnce
  <2>4. ActiveFamilyHasLiveToken'
    BY <1>1, <1>6, <1>7 DEF ActiveFamilyHasLiveToken, LiveTokens, Live
  <2> QED
    BY <2>1, <2>2, <2>3, <2>4 DEF DatabaseInv
<1>11. RequestInv(r)'
  <2>1. Stored(r)' /\ r \in FamilyTokens(req[r].fam)'
    BY <1>1, <1>4, <1>6, <1>7 DEF Stored, FamilyTokens
  <2> QED
    BY <1>1, <1>4, <2>1 DEF RequestInv, Creators, Ended, Admitting
<1>12. \A q \in Requests \ {r} : req'[q] = req[q] /\ (Stored(q)' => Stored(q))
  BY <1>4, <1>6 DEF Tokens, Stored
<1> QED
  BY <1>1, <1>8, <1>9, <1>10, <1>11, <1>12, RowStep DEF Cache

LEMMA RotateStep ==
    ASSUME IInv, NEW r \in Requests, Rotate(r)
    PROVE  IInv'
<1> DEFINE p == req[r].tok
           f == req[r].fam
<1>1. /\ TypeOK /\ DatabaseInv /\ RequestInv(r) /\ ~Stored(r) /\ r \in Tokens
      /\ p \in Tokens /\ Stored(p) /\ p # r /\ f = tokens[p].fam /\ req[r].op = "refresh"
      /\ UNCHANGED <<userExists, active, redis, redisReady>>
  BY DEF IInv, Rotate, At, RequestInv, Creators, Ended, Tokens, Cache
<1>2. CASE ~Live(p)
  <2>1. Goto(r, "failed") /\ UNCHANGED Database /\ UNCHANGED Cache
    BY <1>2 DEF Rotate, NotYetRotated, Database
  <2>2. redisReady' \in BOOLEAN /\ "failed" \in Ended
    BY <1>1 DEF TypeOK, Ended
  <2> QED
    BY <2>1, <2>2, FailedInv, MoveStep DEF Cache
<1>3. CASE Live(p)
  <2>1. PICK pc \in {"promote", "lost"} : Goto(r, pc)
    BY <1>3 DEF Rotate, NotYetRotated, Committed
  <2>2. /\ req' \in [Requests -> RequestRecords] /\ req'[r].pc = pc
        /\ req'[r].op = req[r].op /\ req'[r].fam = f
        /\ \A q \in Requests \ {r} : req'[q] = req[q]
    BY <1>1, <2>1, GotoFacts DEF Waiting, Ended
  <2>3. tokens \in [Tokens -> TokenRecords] /\ f \in Families
    BY <1>1 DEF TypeOK, TokenRecords
  <2>4. tokens' = [tokens EXCEPT ![p].state = "revoked", ![r] = NewToken(f, p)]
    BY <1>3 DEF Rotate, NotYetRotated
  <2>5. /\ tokens' \in [Tokens -> TokenRecords]
        /\ tokens'[r] = NewToken(f, p)
        /\ tokens'[p].state = "revoked" /\ tokens'[p].fam = f
        /\ tokens'[p].parent = tokens[p].parent
        /\ \A t \in Tokens \ {r, p} : tokens'[t] = tokens[t]
    <3>1. NewToken(f, p) \in TokenRecords
      BY <1>1, <2>3 DEF NewToken, TokenRecords, Families
    <3> QED
      BY <1>1, <2>3, <2>4, <3>1 DEF TokenRecords
  <2>6. /\ NewToken(f, p).state = "live" /\ NewToken(f, p).fam = f
        /\ NewToken(f, p).parent = p
    BY DEF NewToken
  <2>7. TypeOK'
    BY <1>1, <2>2, <2>5 DEF TypeOK
  <2>8. RowsKept
    BY <1>1, <2>5 DEF RowsKept, Stored
  <2>9. DatabaseInv'
    <3>1. ErasedInv'
      BY <1>1, <1>3 DEF DatabaseInv, ErasedInv, LiveTokens
    <3>2. ParentInv'
      <4> SUFFICES ASSUME NEW t \in Tokens, tokens'[t].parent # None
                   PROVE  Stored(t)' /\ tokens'[tokens'[t].parent].state \in {"revoked", "gone"}
        BY DEF ParentInv
      <4>1. CASE t = r
        BY <1>1, <2>5, <2>6, <4>1 DEF Stored
      <4>2. CASE t # r
        <5>1. tokens'[t].parent = tokens[t].parent /\ tokens[t].parent \in Tokens
          BY <2>3, <2>5, <4>2 DEF TokenRecords
        <5>2. Stored(t) /\ tokens[tokens[t].parent].state \in {"revoked", "gone"}
          BY <1>1, <5>1 DEF DatabaseInv, ParentInv
        <5>3. tokens[t].parent # r
          BY <1>1, <5>2 DEF Stored
        <5> QED
          BY <2>5, <4>2, <5>1, <5>2, <5>3 DEF Stored
      <4> QED
        BY <4>1, <4>2
    <3>3. RotatedOnce'
      <4>1. \A t \in Tokens : tokens[t].parent # p
        BY <1>1, <1>3, NamesAssumption DEF DatabaseInv, ParentInv, Live, Tokens
      <4>2. \A t \in Tokens \ {r} : tokens'[t].parent = tokens[t].parent
        BY <2>5
      <4> QED
        BY <1>1, <2>5, <2>6, <4>1, <4>2 DEF DatabaseInv, RotatedOnce
    <3>4. ActiveFamilyHasLiveToken'
      <4> SUFFICES ASSUME active # None
                   PROVE  \E t \in Tokens : tokens'[t].state = "live" /\ tokens'[t].fam = active
        BY <1>1 DEF ActiveFamilyHasLiveToken, LiveTokens, Live
      <4>1. PICK t \in Tokens : tokens[t].state = "live" /\ tokens[t].fam = active
        BY <1>1 DEF DatabaseInv, ActiveFamilyHasLiveToken, LiveTokens, Live
      <4>2. CASE t = p
        BY <1>1, <2>5, <2>6, <4>1, <4>2
      <4>3. CASE t # p
        BY <1>1, <2>5, <4>1, <4>3 DEF Stored
      <4> QED
        BY <4>2, <4>3
    <3> QED
      BY <3>1, <3>2, <3>3, <3>4 DEF DatabaseInv
  <2>10. RequestInv(r)'
    <3>1. Stored(r)' /\ r \in FamilyTokens(req[r].fam)'
      BY <1>1, <2>2, <2>5, <2>6 DEF Stored, FamilyTokens
    <3> QED
      BY <1>1, <2>2, <3>1 DEF RequestInv, Creators, Ended, Admitting
  <2>11. \A q \in Requests \ {r} : req'[q] = req[q] /\ (Stored(q)' => Stored(q))
    BY <2>2, <2>5, <1>1 DEF Tokens, Stored
  <2> QED
    BY <1>1, <2>7, <2>8, <2>9, <2>10, <2>11, RowStep DEF Cache
<1> QED
  BY <1>2, <1>3

\* Rows that are only revoked, erased or expired: the token lineage is kept.
RowsSpent ==
    /\ tokens' \in [Tokens -> TokenRecords]
    /\ \A t \in Tokens :
          /\ tokens'[t].fam = tokens[t].fam /\ tokens'[t].parent = tokens[t].parent
          /\ tokens'[t].state \in {tokens[t].state, "revoked", "gone"}
          /\ tokens[t].state = "absent" => tokens'[t].state = "absent"
          /\ tokens[t].state \in {"revoked", "gone"} => tokens'[t].state \in {"revoked", "gone"}

LEMMA SpentStep ==
    ASSUME IInv, RowsSpent
    PROVE  /\ RowsKept /\ ParentInv' /\ RotatedOnce'
           /\ \A t \in Tokens : Stored(t)' => Stored(t)
<1>1. RowsKept /\ \A t \in Tokens : Stored(t)' => Stored(t)
  BY DEF RowsSpent, RowsKept, Stored
<1>2. tokens \in [Tokens -> TokenRecords] /\ ParentInv /\ RotatedOnce
  BY DEF IInv, TypeOK, DatabaseInv
<1>3. ParentInv'
  <2> SUFFICES ASSUME NEW t \in Tokens, tokens'[t].parent # None
               PROVE  Stored(t)' /\ tokens'[tokens'[t].parent].state \in {"revoked", "gone"}
    BY DEF ParentInv
  <2>1. tokens'[t].parent = tokens[t].parent /\ tokens[t].parent \in Tokens
    BY <1>2 DEF RowsSpent, TokenRecords
  <2>2. Stored(t) /\ tokens[tokens[t].parent].state \in {"revoked", "gone"}
    BY <1>2, <2>1 DEF ParentInv
  <2> QED
    BY <2>1, <2>2 DEF RowsSpent, Stored
<1>4. RotatedOnce'
  BY <1>2 DEF RowsSpent, RotatedOnce
<1> QED
  BY <1>1, <1>3, <1>4

LEMMA RevokeCommitStep ==
    ASSUME IInv, NEW r \in Requests, RevokeCommit(r)
    PROVE  IInv'
<1> DEFINE V == req[r].victims \cap FamilyTokens(req[r].fam)
<1>1. /\ TypeOK /\ DatabaseInv /\ RequestInv(r) /\ ~Stored(r) /\ r \in Tokens
      /\ UNCHANGED <<userExists, redis, redisReady>> /\ Committed(r, "get")
      /\ active' = IF active = req[r].fam THEN None ELSE active
  BY DEF IInv, RevokeCommit, ActiveAfterRevoke, At, RequestInv, Creators, Ended, Tokens, Cache
<1>2. tokens' = [t \in Tokens |-> IF t \in V /\ Live(t)
                                  THEN [tokens[t] EXCEPT !.state = "revoked"] ELSE tokens[t]]
  BY DEF RevokeCommit, Revoked
<1>3. /\ req' \in [Requests -> RequestRecords] /\ req'[r].pc \in {"get", "lost"}
      /\ \A q \in Requests \ {r} : req'[q] = req[q]
  BY <1>1, GotoFacts DEF Committed, Waiting, Ended
<1>4. tokens \in [Tokens -> TokenRecords] /\ \A t \in V : tokens[t].fam = req[r].fam
  BY <1>1 DEF TypeOK, FamilyTokens
<1> HIDE DEF V
<1>5. RowsSpent /\ \A t \in Tokens \ V : tokens'[t] = tokens[t]
  BY <1>2, <1>4 DEF RowsSpent, TokenRecords, Live
<1>6. RowsKept /\ ParentInv' /\ RotatedOnce' /\ \A t \in Tokens : Stored(t)' => Stored(t)
  BY <1>5, SpentStep
<1>7. TypeOK'
  BY <1>1, <1>3, <1>5 DEF TypeOK, RowsSpent
<1>8. ErasedInv'
  BY <1>1, <1>5 DEF DatabaseInv, ErasedInv, RowsSpent, LiveTokens, Live
<1>9. ActiveFamilyHasLiveToken'
  <2> SUFFICES ASSUME active # None, active # req[r].fam
               PROVE  \E t \in Tokens : tokens'[t].state = "live" /\ tokens'[t].fam = active
    BY <1>1 DEF ActiveFamilyHasLiveToken, LiveTokens, Live
  <2>1. PICK t \in Tokens : tokens[t].state = "live" /\ tokens[t].fam = active
    BY <1>1 DEF DatabaseInv, ActiveFamilyHasLiveToken, LiveTokens, Live
  <2> QED
    BY <1>4, <1>5, <2>1
<1>10. RequestInv(r)'
  BY <1>1, <1>3 DEF RequestInv, Creators, Ended, Admitting
<1>11. DatabaseInv'
  BY <1>6, <1>8, <1>9 DEF DatabaseInv
<1>12. \A q \in Requests \ {r} : req'[q] = req[q] /\ (Stored(q)' => Stored(q))
  BY <1>3, <1>6 DEF Tokens
<1> QED
  BY <1>1, <1>6, <1>7, <1>10, <1>11, <1>12, RowStep DEF Cache

LEMMA EraseStep ==
    ASSUME IInv, NEW r \in Requests, Erase(r)
    PROVE  IInv'
<1>1. /\ TypeOK /\ DatabaseInv /\ RequestInv(r) /\ ~Stored(r) /\ r \in Tokens
      /\ req[r].op = "delete" /\ ~userExists' /\ active' = None
      /\ UNCHANGED <<redis, redisReady>>
  BY DEF IInv, Erase, At, RequestInv, Creators, Ended, Tokens, Cache
<1>2. tokens \in [Tokens -> TokenRecords]
  BY <1>1 DEF TypeOK
<1>3. PICK pc \in {"wipe", "failed", "lost"} : Goto(r, pc)
  BY DEF Erase, Committed
<1>4. /\ req' \in [Requests -> RequestRecords] /\ req'[r].pc = pc /\ req'[r].op = "delete"
      /\ \A q \in Requests \ {r} : req'[q] = req[q]
  BY <1>1, <1>3, GotoFacts DEF Waiting, Ended
<1>5. RowsSpent /\ LiveTokens' = {}
  <2>1. CASE userExists
    <3>1. tokens' = [t \in Tokens |-> IF tokens[t].state = "absent" THEN tokens[t]
                                      ELSE [tokens[t] EXCEPT !.state = "gone"]]
      BY <2>1 DEF Erase
    <3> QED
      BY <1>2, <3>1 DEF RowsSpent, TokenRecords, LiveTokens, Live
  <2>2. CASE ~userExists
    <3>1. tokens' = tokens /\ LiveTokens = {}
      BY <1>1, <2>2 DEF Erase, DatabaseInv, ErasedInv
    <3> QED
      BY <1>2, <3>1 DEF RowsSpent, LiveTokens, Live
  <2> QED
    BY <2>1, <2>2
<1>6. RowsKept /\ ParentInv' /\ RotatedOnce' /\ \A t \in Tokens : Stored(t)' => Stored(t)
  BY <1>5, SpentStep
<1>7. TypeOK'
  BY <1>1, <1>4, <1>5 DEF TypeOK, RowsSpent, Erase
<1>8. DatabaseInv'
  BY <1>1, <1>5, <1>6 DEF DatabaseInv, ErasedInv, ActiveFamilyHasLiveToken
<1>9. RequestInv(r)'
  BY <1>1, <1>4, <1>6 DEF RequestInv, Creators, Ended, Admitting
<1>10. \A q \in Requests \ {r} : req'[q] = req[q] /\ (Stored(q)' => Stored(q))
  BY <1>4, <1>6 DEF Tokens
<1> QED
  BY <1>1, <1>6, <1>7, <1>8, <1>9, <1>10, RowStep DEF Cache

LEMMA TokenExpiresStep ==
    ASSUME IInv, NEW x \in Tokens, TokenExpires(x)
    PROVE  IInv'
<1>1. TypeOK /\ DatabaseInv /\ tokens \in [Tokens -> TokenRecords]
  BY DEF IInv, TypeOK
<1>2. tokens' = [tokens EXCEPT ![x].expired = TRUE]
      /\ UNCHANGED <<userExists, active, redis, redisReady, req>>
  BY DEF TokenExpires, Cache
<1>3. RowsSpent /\ \A t \in Tokens : tokens'[t].state = tokens[t].state
  BY <1>1, <1>2 DEF RowsSpent, TokenRecords
<1>4. RowsKept /\ ParentInv' /\ RotatedOnce' /\ \A t \in Tokens : Stored(t)' => Stored(t)
  BY <1>3, SpentStep
<1>5. TypeOK'
  BY <1>1, <1>2, <1>3 DEF TypeOK, RowsSpent
<1>6. DatabaseInv'
  BY <1>1, <1>2, <1>3, <1>4
  DEF DatabaseInv, ErasedInv, ActiveFamilyHasLiveToken, LiveTokens, Live, RowsSpent
<1>7. \A q \in Requests : req'[q] = req[q] /\ (Stored(q)' => Stored(q))
  BY <1>2, <1>4 DEF Tokens
<1> QED
  BY <1>2, <1>4, <1>5, <1>6, <1>7, NamesAssumption, RowStep DEF Cache

\* Redis, its client and its TTLs: no request moves and no row changes.
LEMMA RedisStep ==
    ASSUME IInv,
           RedisOutage \/ RedisBack \/ PendingExpires \/ KeyEvicted \/ UNCHANGED vars
    PROVE  IInv'
<1>1. /\ UNCHANGED Database /\ UNCHANGED req
      /\ redis' = redis \/ redis' = None
      /\ redisReady' \in BOOLEAN
  BY DEF RedisOutage, RedisBack, PendingExpires, KeyEvicted, vars, Database, IInv, TypeOK
<1>2. CacheTypeOK' /\ PromotedWasCommitted'
  BY <1>1, CacheKept
<1>3. DatabaseInv' /\ RowsKept /\ \A t \in Tokens : Stored(t)' = Stored(t)
  BY <1>1, DatabaseKept DEF IInv
<1>4. ASSUME NEW q \in Requests PROVE RequestInv(q)'
  BY <1>1, <1>3, OthersKept DEF IInv, Tokens
<1>5. TypeOK' /\ Stored(Genesis)'
  BY <1>1, <1>2, <1>3 DEF IInv, TypeOK, CacheTypeOK, Database, Tokens
<1> QED
  BY <1>2, <1>3, <1>4, <1>5 DEF IInv

-----------------------------------------------------------------------------
(* The theorems.                                                           *)

LEMMA NextInv == IInv /\ [Next]_vars => IInv'
<1> SUFFICES ASSUME IInv, [Next]_vars PROVE IInv'
  OBVIOUS
<1>1. ASSUME NEW r \in Requests,
             Login(r) \/ Access(r) \/ Refresh(r) \/ Logout(r) \/ DeleteAccount(r)
      PROVE  IInv'
  BY <1>1, ArriveStep
<1>2. ASSUME NEW r \in Requests, Handle(r) PROVE IInv'
  BY <1>2, SetStep, GuardStep, PlainStep, LoginCommitStep, RotateStep, RevokeCommitStep, EraseStep
  DEF Handle
<1>3. ASSUME NEW r \in Requests, Crash(r) PROVE IInv'
  BY <1>3, PlainStep
<1>4. CASE RedisOutage \/ RedisBack \/ PendingExpires \/ KeyEvicted
  BY <1>4, RedisStep
<1>5. ASSUME NEW t \in Tokens, TokenExpires(t) PROVE IInv'
  BY <1>5, TokenExpiresStep
<1>6. CASE UNCHANGED vars
  BY <1>6, RedisStep
<1> QED
  BY <1>1, <1>2, <1>3, <1>4, <1>5, <1>6 DEF Next

THEOREM Invariance == Spec => []IInv
BY InitInv, NextInv, PTL DEF Spec

\* Every column, key and local variable stays within its type, whatever the requests do.
THEOREM TypeCorrect == Spec => []TypeOK
BY Invariance, PTL DEF IInv

\* However many requests present the same refresh token at once, rotateRefreshToken
\* exchanges it for one successor at most.
THEOREM RotatesOnce == Spec => []RotatedOnce
<1>1. IInv => RotatedOnce
  BY DEF IInv, DatabaseInv
<1> QED
  BY Invariance, <1>1, PTL

\* No interleaving of logins, rotations, revocations and an account deletion leaves
\* users.activeRefreshFamilyId naming a family without an unrevoked token.
THEOREM ActiveFamilyCanRefresh == Spec => []ActiveFamilyHasLiveToken
<1>1. IInv => ActiveFamilyHasLiveToken
  BY DEF IInv, DatabaseInv
<1> QED
  BY Invariance, <1>1, PTL

\* Redis holds the long TTL only for a family that a committed login put in the database.
THEOREM PromotionFollowsCommit == Spec => []PromotedWasCommitted
<1>1. IInv => PromotedWasCommitted
  BY DEF IInv
<1> QED
  BY Invariance, <1>1, PTL
=============================================================================

------------------------------ MODULE AuthSession ------------------------------
(***************************************************************************)
(* The login session of ONE user: auth.service.ts and session.service.ts   *)
(* over their two stores, the PostgreSQL rows (users.activeRefreshFamilyId *)
(* and refresh_tokens) and the Redis key auth:active-session:<userId>.     *)
(* Every statement of the two services is scoped to one userId, so one     *)
(* user is the whole story.                                                *)
(*                                                                         *)
(* A request is an in-flight HTTP call; each of its awaits is a step, and  *)
(* the steps of all requests interleave (several Node processes serve the  *)
(* same user during a rolling deployment).  Prisma runs at PostgreSQL's    *)
(* READ COMMITTED, so a transaction whose first statement is an updateMany *)
(* is two steps: the statement's snapshot fixes the rows it can reach, the *)
(* commit re-evaluates the WHERE clause on those rows only.                *)
(*                                                                         *)
(* randomUUID() and createRefreshToken() are the identity of the request   *)
(* that called them: a request makes at most one family and one token.     *)
(***************************************************************************)
EXTENDS Naturals, FiniteSets

CONSTANTS
    Requests,       \* the HTTP requests of the run
    Genesis,        \* the login that opened the session the run starts from
    None,           \* "no value": null, or a missing Redis key
    MaxInFlight,    \* bound: requests being served at the same time
    Faults          \* which faults of the environment are switched on

FaultKinds == {"crash", "outage", "evict", "expiry", "dberror", "erase"}

ASSUME NamesAssumption == Genesis \notin Requests /\ None \notin Requests \cup {Genesis}
ASSUME FaultsAssumption == Faults \subseteq FaultKinds /\ MaxInFlight \in Nat

Tokens == Requests \cup {Genesis}
Families == Tokens      \* a family is named after the login that created it

VARIABLES
    userExists,   \* the users row is there
    active,       \* users.activeRefreshFamilyId
    tokens,       \* refresh_tokens: state, family, expiry and (ghost) the token it replaced
    redis,        \* the active-session key: the family and its kind of TTL, or None
    redisReady,   \* RedisService.ready
    req           \* the local variables of every request

vars == <<userExists, active, tokens, redis, redisReady, req>>

-----------------------------------------------------------------------------
Operations == {"login", "refresh", "access", "logout", "delete"}

\* A request that has not arrived, the awaits it can be at, and its ends: it answers,
\* it throws, its process stops, or ("lost") it throws because the answer to a COMMIT
\* the database kept never came.
Waiting == {"pending", "loginTx", "loginCommit", "promote", "find", "assert", "dbUser",
            "dbToken", "recache", "rotate", "revokeTx", "revokeCommit", "get", "del",
            "erase", "wipe"}
Ended == {"done", "failed", "crashed", "lost"}

TokenRecords == [state : {"absent", "live", "revoked", "gone"},
                 fam : Families, expired : BOOLEAN, parent : Tokens \cup {None}]

RequestRecords == [op : Operations \cup {None}, pc : Waiting \cup Ended \cup {"idle"},
                   fam : Families \cup {None}, tok : Tokens \cup {None},
                   victims : SUBSET Tokens, attempt : 1..2]

\* Type invariant: every variable ranges over the states its column or field can hold.
TypeOK ==
    /\ userExists \in BOOLEAN
    /\ active \in Families \cup {None}
    /\ tokens \in [Tokens -> TokenRecords]
    /\ redis \in [fam : Families, ttl : {"pending", "full"}] \cup {None}
    /\ redisReady \in BOOLEAN
    /\ req \in [Requests -> RequestRecords]

Live(t) == tokens[t].state = "live"
LiveTokens == {t \in Tokens : Live(t)}
FamilyTokens(f) == {t \in Tokens : tokens[t].fam = f /\ tokens[t].state # "absent"}
InFlight == {r \in Requests : req[r].pc \in Waiting}

\* Refresh tokens some client was handed in a response.
Issued == {Genesis} \cup
          {r \in Requests : req[r].op \in {"login", "refresh"} /\ req[r].pc = "done"}

\* The locals of a request that has just reached an await.
Locals(op, pc, f, t) == [op |-> op, pc |-> pc, fam |-> f, tok |-> t,
                         victims |-> {}, attempt |-> 1]

NoToken(t) == [state |-> "absent", fam |-> t, expired |-> FALSE, parent |-> None]
NewToken(f, p) == [state |-> "live", fam |-> f, expired |-> FALSE, parent |-> p]

\* One device is logged in and Redis agrees with the database.
Init ==
    /\ userExists = TRUE
    /\ active = Genesis
    /\ tokens = [t \in Tokens |-> IF t = Genesis THEN NewToken(Genesis, None) ELSE NoToken(t)]
    /\ redis = [fam |-> Genesis, ttl |-> "full"]
    /\ redisReady = TRUE
    /\ req = [r \in Requests |-> Locals(None, "idle", None, None)]

-----------------------------------------------------------------------------
(* Helpers shared by the handlers.                                         *)

At(r, pc) == req[r].pc = pc
\* The next await of a request, or its end: its other locals die with it.
Goto(r, pc) ==
    req' = [req EXCEPT ![r] = IF pc \in Ended THEN Locals(@.op, pc, @.fam, None)
                              ELSE [@ EXCEPT !.pc = pc]]
Database == <<userExists, active, tokens>>
Cache == <<redis, redisReady>>

\* After a COMMIT: its acknowledgement may be lost, and the handler throws there.
Committed(r, next) == Goto(r, next) \/ ("dberror" \in Faults /\ Goto(r, "lost"))

\* Outside activateLoginSession nothing catches a failing query: the transaction is
\* rolled back and the request ends.
AtQuery == {"find", "dbUser", "dbToken", "rotate", "revokeTx", "revokeCommit", "erase"}
QueryFails(r) ==
    /\ "dberror" \in Faults /\ req[r].pc \in AtQuery
    /\ Goto(r, "failed")
    /\ UNCHANGED <<Database, Cache>>

Arrive(r, op, pc, f, t) ==
    /\ At(r, "idle")
    /\ Cardinality(InFlight) < MaxInFlight
    /\ req' = [req EXCEPT ![r] = Locals(op, pc, f, t)]
    /\ UNCHANGED <<Database, Cache>>

\* setActiveSession: SET key family EX ttl, or 503 when the client is not ready.
\* The connection may also drop after Redis ran the command and before its reply.
SetActiveSession(r, ttl, next) ==
    \/ /\ redisReady
       /\ redis' = [fam |-> req[r].fam, ttl |-> ttl]
       /\ \/ UNCHANGED redisReady /\ Goto(r, next)
          \/ "outage" \in Faults /\ redisReady' = FALSE /\ Goto(r, "failed")
    \/ /\ ~redisReady
       /\ UNCHANGED Cache
       /\ Goto(r, "failed")

-----------------------------------------------------------------------------
(* loginWithGoogle                                                         *)

\* verifyIdToken and resolveGoogleUser found this user; the family is fresh.
Login(r) == userExists /\ Arrive(r, "login", "pending", r, None)

PendingTtlFull == "full"        \* mutant of PendingTtl: the provisional key is not short-lived
PendingTtl == "pending"

PendingSkipped(r) ==            \* mutant of SetPending: Redis is written after the commit only
    /\ At(r, "pending")
    /\ Goto(r, "loginTx")
    /\ UNCHANGED <<Database, Cache>>

SetPending(r) ==
    /\ At(r, "pending")
    /\ SetActiveSession(r, PendingTtl, "loginTx")
    /\ UNCHANGED Database

\* updateMany { userId, revokedAt: null }: the rows its snapshot reaches.
NoVictims(r) == {}              \* mutant of LoginVictims: a login revokes nothing
LoginVictims(r) == LiveTokens

LoginSnapshot(r) ==
    /\ At(r, "loginTx")
    /\ req' = [req EXCEPT ![r].pc = "loginCommit", ![r].victims = LoginVictims(r)]
    /\ UNCHANGED <<Database, Cache>>

\* The rows of `victims` that still satisfy `where` when their lock is granted.
Revoked(victims, where) ==
    [t \in Tokens |-> IF t \in victims /\ Live(t) /\ t \in where
                      THEN [tokens[t] EXCEPT !.state = "revoked"] ELSE tokens[t]]

\* create needs the users row (foreign key).  A commit whose acknowledgement is
\* lost throws in the process although the database kept it.
LoginCommit(r) ==
    /\ At(r, "loginCommit")
    /\ userExists
    /\ tokens' = [Revoked(req[r].victims, Tokens) EXCEPT ![r] = NewToken(r, None)]
    /\ active' = r
    /\ \/ Goto(r, "promote")
       \/ "dberror" \in Faults /\ Goto(r, "get")
    /\ UNCHANGED <<userExists, Cache>>

\* The transaction is rolled back: compensate the pending Redis key, then rethrow.
LoginRollback(r) ==
    /\ req[r].pc \in {"loginTx", "loginCommit"}
    /\ ~userExists \/ "dberror" \in Faults
    /\ Goto(r, "get")
    /\ UNCHANGED <<Database, Cache>>

\* promoteActiveSession of a login and of a refresh, then the response.
Promote(r) ==
    /\ At(r, "promote")
    /\ SetActiveSession(r, "full", "done")
    /\ UNCHANGED Database

-----------------------------------------------------------------------------
(* assertActiveSession: the guard of every protected endpoint (JwtStrategy *)
(* .validate) and the middle of refresh.                                   *)

Admitted(r) == CASE req[r].op = "refresh" -> "rotate"
                 [] req[r].op = "delete"  -> "erase"
                 [] OTHER                 -> "done"

\* An access token names the family of the login or refresh it came with.
Access(r) == \E t \in Issued : Arrive(r, "access", "assert", tokens[t].fam, None)

\* Redis hit: compare and do not look at the database.  Miss: ask the database.
AssertFromRedis(r) ==
    /\ At(r, "assert")
    /\ Goto(r, IF ~redisReady THEN "failed"
               ELSE IF redis = None THEN "dbUser"
               ELSE IF redis.fam = req[r].fam THEN Admitted(r) ELSE "failed")
    /\ UNCHANGED <<Database, Cache>>

AssertUser(r) ==
    /\ At(r, "dbUser")
    /\ Goto(r, IF active = req[r].fam THEN "dbToken" ELSE "failed")
    /\ UNCHANGED <<Database, Cache>>

AssertToken(r) ==
    /\ At(r, "dbToken")
    /\ Goto(r, IF \E t \in LiveTokens : tokens[t].fam = req[r].fam /\ ~tokens[t].expired
               THEN "recache" ELSE "failed")
    /\ UNCHANGED <<Database, Cache>>

Recache(r) ==
    /\ At(r, "recache")
    /\ SetActiveSession(r, "full", Admitted(r))
    /\ UNCHANGED Database

-----------------------------------------------------------------------------
(* refresh, logout, and the reuse detection they share                     *)

\* A client presents any refresh token it was ever handed, spent ones included.
Refresh(r) == \E t \in Issued : Arrive(r, "refresh", "find", None, t)
Logout(r) == \E t \in Issued : Arrive(r, "logout", "find", None, t)

\* findUnique by hash.  refresh: unknown or expired -> 401, revoked -> revoke the
\* family, live -> assert.  logout: known -> revoke the family.
Find(r) ==
    /\ At(r, "find")
    /\ LET t == tokens[req[r].tok]
           next == CASE t.state = "gone" -> IF req[r].op = "logout" THEN "done" ELSE "failed"
                     [] t.state # "gone" /\ (req[r].op = "logout" \/ t.state = "revoked")
                                         -> "revokeTx"
                     [] OTHER            -> IF t.expired THEN "failed" ELSE "assert"
       IN  req' = [req EXCEPT ![r].pc = next, ![r].fam = t.fam]
    /\ UNCHANGED <<Database, Cache>>

\* updateMany { id, revokedAt: null } must have hit its row, or 401.
StillThere(r) == tokens[req[r].tok].state # "gone"   \* mutant: no revokedAt condition
NotYetRotated(r) == Live(req[r].tok)

Rotate(r) ==
    /\ At(r, "rotate")
    /\ IF NotYetRotated(r)
       THEN /\ tokens' = [tokens EXCEPT ![req[r].tok].state = "revoked",
                                        ![r] = NewToken(req[r].fam, req[r].tok)]
            /\ Committed(r, "promote")
       ELSE UNCHANGED tokens /\ Goto(r, "failed")
    /\ UNCHANGED <<userExists, active, Cache>>

OnlyPresented(r) == LiveTokens \cap {req[r].tok}   \* mutant: not the family, the token
FamilyVictims(r) == LiveTokens \cap FamilyTokens(req[r].fam)

RevokeSnapshot(r) ==
    /\ At(r, "revokeTx")
    /\ req' = [req EXCEPT ![r].pc = "revokeCommit", ![r].victims = FamilyVictims(r)]
    /\ UNCHANGED <<Database, Cache>>

\* activeRefreshFamilyId := null where it equals the revoked family.
ActiveKept(f) == active         \* mutant: the users row is not touched
ActiveAfterRevoke(f) == IF active = f THEN None ELSE active

RevokeCommit(r) ==
    /\ At(r, "revokeCommit")
    /\ tokens' = Revoked(req[r].victims, FamilyTokens(req[r].fam))
    /\ active' = ActiveAfterRevoke(req[r].fam)
    /\ Committed(r, "get")
    /\ UNCHANGED <<userExists, Cache>>

-----------------------------------------------------------------------------
(* deleteActiveSessionIfMatches: after revokeRefreshTokenFamily, and as    *)
(* the compensation of a login.  GET and DEL are two commands.             *)

AfterDelete(r) == IF req[r].op = "logout" THEN "done" ELSE "failed"

NoDelete(r) ==          \* mutant of CompareGet: the key is left to its TTL
    /\ At(r, "get")
    /\ Goto(r, AfterDelete(r))
    /\ UNCHANGED <<Database, Cache>>

\* Not ready: the second attempt follows without an await, so both fail at once.
CompareGet(r) ==
    /\ At(r, "get")
    /\ Goto(r, IF redisReady /\ redis # None /\ redis.fam = req[r].fam
               THEN "del" ELSE AfterDelete(r))
    /\ UNCHANGED <<Database, Cache>>

ThreeAttempts == 3      \* mutant of RetryCount: one attempt too many
RetryCount == 2

DelWhenReady(r) ==      \* mutant of CompareDel: waits for Redis instead of giving up
    /\ At(r, "del")
    /\ redisReady /\ redis' = None /\ Goto(r, AfterDelete(r))
    /\ UNCHANGED <<Database, redisReady>>

CompareDel(r) ==
    /\ At(r, "del")
    /\ \/ redisReady /\ redis' = None /\ Goto(r, AfterDelete(r))
       \/ /\ ~redisReady
          /\ UNCHANGED redis
          /\ IF req[r].attempt < RetryCount
             THEN req' = [req EXCEPT ![r].pc = "get", ![r].attempt = req[r].attempt + 1]
             ELSE Goto(r, AfterDelete(r))
    /\ UNCHANGED <<Database, redisReady>>

-----------------------------------------------------------------------------
(* deleteAccount: behind the JWT guard, then the Google account must still *)
(* exist; the users row and its cascade go first, the Redis key last.      *)

DeleteAccount(r) ==
    "erase" \in Faults /\ \E t \in Issued : Arrive(r, "delete", "assert", tokens[t].fam, None)

Erase(r) ==
    /\ At(r, "erase")
    /\ userExists' = FALSE
    /\ active' = None
    /\ IF userExists
       THEN /\ tokens' = [t \in Tokens |-> IF tokens[t].state = "absent" THEN tokens[t]
                                           ELSE [tokens[t] EXCEPT !.state = "gone"]]
            /\ Committed(r, "wipe")
       ELSE UNCHANGED tokens /\ Goto(r, "failed")
    /\ UNCHANGED Cache

\* deleteActiveSession: best effort, whatever family the key holds.
Wipe(r) ==
    /\ At(r, "wipe")
    /\ redis' = IF redisReady THEN None ELSE redis
    /\ Goto(r, "done")
    /\ UNCHANGED <<Database, redisReady>>

-----------------------------------------------------------------------------
(* The environment.                                                        *)

\* The process serving the request stops: deployment, kill, unhandled throw.
Crash(r) ==
    /\ "crash" \in Faults /\ req[r].pc \in Waiting
    /\ Goto(r, "crashed")
    /\ UNCHANGED <<Database, Cache>>

\* 'close' and 'reconnecting' clear `ready`, 'ready' sets it.
RedisOutage == "outage" \in Faults /\ redisReady /\ redisReady' = FALSE
               /\ UNCHANGED <<Database, redis, req>>
RedisBack == ~redisReady /\ redisReady' = TRUE /\ UNCHANGED <<Database, redis, req>>

\* The 60 second TTL of a pending key runs out.
PendingExpires ==
    /\ redis # None /\ redis.ttl = "pending"
    /\ redis' = None
    /\ UNCHANGED <<Database, redisReady, req>>

\* Eviction, or the TTL of a promoted key.
KeyEvicted == "evict" \in Faults /\ redis # None /\ redis' = None
              /\ UNCHANGED <<Database, redisReady, req>>

TokenExpires(t) ==
    /\ "expiry" \in Faults /\ Live(t) /\ ~tokens[t].expired
    /\ tokens' = [tokens EXCEPT ![t].expired = TRUE]
    /\ UNCHANGED <<userExists, active, Cache, req>>

-----------------------------------------------------------------------------
Handle(r) ==
    \/ SetPending(r) \/ LoginSnapshot(r) \/ LoginCommit(r) \/ LoginRollback(r) \/ Promote(r)
    \/ AssertFromRedis(r) \/ AssertUser(r) \/ AssertToken(r) \/ Recache(r)
    \/ Find(r) \/ Rotate(r) \/ RevokeSnapshot(r) \/ RevokeCommit(r)
    \/ CompareGet(r) \/ CompareDel(r) \/ Erase(r) \/ Wipe(r) \/ QueryFails(r)

Next ==
    \/ \E r \in Requests :
          \/ Login(r) \/ Access(r) \/ Refresh(r) \/ Logout(r) \/ DeleteAccount(r)
          \/ Handle(r) \/ Crash(r)
    \/ RedisOutage \/ RedisBack \/ PendingExpires \/ KeyEvicted
    \/ \E t \in Tokens : TokenExpires(t)

Spec == Init /\ [][Next]_vars

\* The event loop resumes every await; TTLs run out.  Nobody promises that a
\* client calls, that Redis comes back, or that a promoted key is evicted.
Fairness == (\A r \in Requests : WF_vars(Handle(r))) /\ WF_vars(PendingExpires)
FairSpec == Spec /\ Fairness

-----------------------------------------------------------------------------
(* What the database keeps under every interleaving.                       *)

\* A refresh token is exchanged for at most one successor, however many requests
\* present it at once (rotateRefreshToken's revokedAt condition).
RotatedOnce ==
    \A s, t \in Tokens : tokens[s].parent # None /\ tokens[s].parent = tokens[t].parent => s = t

\* The family the users row calls active can still be refreshed: no interleaving of
\* logins, rotations and revocations strips it of its last unrevoked token.
ActiveFamilyHasLiveToken ==
    active # None => \E t \in LiveTokens : tokens[t].fam = active

\* The key has the long TTL only for a family some login committed: a provisional
\* key is never promoted on the strength of Redis alone (Redis-first login).
PromotedWasCommitted ==
    redis # None /\ redis.ttl = "full" => FamilyTokens(redis.fam) # {}

\* The two DB facts and the promotion rule refine the abstract session.
FamilyState(f) == CASE FamilyTokens(f) = {} -> "unborn"
                    [] \E t \in LiveTokens : tokens[t].fam = f -> "alive"
                    [] OTHER -> "dead"

Session == INSTANCE SingleSession WITH First <- Genesis,
               family <- [f \in Families |-> FamilyState(f)]

\* The rows of the two tables behave as one session per user: a family is opened
\* once, a dead family stays dead, and `active` never returns to an earlier family.
ImplementsSingleSession == Session!Spec

-----------------------------------------------------------------------------
(* What one request at a time keeps, and interleavings break.              *)

\* The single-device policy of activateLoginSession: after a login every other
\* family's refresh tokens are revoked.
OnlyActiveFamilyLive == \A t \in LiveTokens : tokens[t].fam = active

\* Redis names no family that a completed login has superseded.
SupersededNotCached ==
    active # None /\ redis # None /\ FamilyTokens(redis.fam) # {} => redis.fam = active

\* The same, seen by a client: once a login has answered, the request of an older
\* device is turned away (README: the earlier session is invalidated at once).
OlderDeviceTurnedAway ==
    \A r \in Requests :
        req[r].op = "login" /\ req[r].pc = "done" /\ active = r /\ redis # None
            => redis.fam = r \/ FamilyTokens(redis.fam) = {}

\* A handler that never reached its last statement: the process stopped, or a COMMIT
\* threw although the database kept it (revokeRefreshTokenFamily and deleteAccount
\* delete the Redis key only after the transaction has answered).
Abandoned(r) == req[r].pc \in {"crashed", "lost"}

\* When nobody is being served, the key is missing or agrees with the users row, or
\* else it names the very family some abandoned handler was dealing with: a handler
\* that answers or fails in any other way cleans up, and an abandoned one leaves no
\* disagreement about another family than its own.
QuietAgreement ==
    InFlight = {} /\ redis # None /\ redis.fam # active
        => \E r \in Requests : Abandoned(r) /\ req[r].fam = redis.fam

\* A refresh token of a family is worthless once the family was revoked.
RevokedFamilyIsDead ==
    \A r \in Requests :
        req[r].op = "logout" /\ req[r].pc = "done" /\ req[r].fam # None
            => \A t \in LiveTokens : tokens[t].fam # req[r].fam

\* deleteActiveSessionIfMatches deletes its own family's key and no other.
DeletesOnlyItsOwnKey ==
    [][\A r \in Requests :
          req[r].pc = "del" /\ req'[r].pc \in Ended /\ redis # None /\ redis' = None
              => redis.fam = req[r].fam]_vars

-----------------------------------------------------------------------------
(* Liveness, under Fairness.                                               *)

\* No request hangs on Redis or on the database, an outage included.
EveryRequestEnds == \A r \in Requests : req[r].pc \in Waiting ~> req[r].pc \in Ended

\* A login that never committed locks the earlier device out for a while only.
UncommittedKeyGoesAway ==
    (redis # None /\ FamilyTokens(redis.fam) = {})
        ~> (redis = None \/ FamilyTokens(redis.fam) # {})
=============================================================================

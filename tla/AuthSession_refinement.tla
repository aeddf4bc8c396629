------------------------- MODULE AuthSession_refinement -------------------------
(***************************************************************************)
(* AuthSession implements SingleSession: every step of a request or of the *)
(* environment is a step of the abstract session or leaves it alone.  Two  *)
(* facts are needed beyond IInv: a family's founder is stored before any   *)
(* of its other tokens (so a login opens an unborn family), and a          *)
(* revocation under way names a family that exists.                        *)
(*                                                                         *)
(* The second half is about a user whose requests are served one at a time *)
(* over a Redis that stays connected: the families the rows revoke and the *)
(* family the key names then agree whenever nobody is being served.        *)
(***************************************************************************)
EXTENDS AuthSession_proofs, FiniteSetTheorems

\* A family is born with the token of the login it is named after.
FounderInv == \A t \in Tokens : Stored(t) => Stored(tokens[t].fam)

Revoking == {"revokeTx", "revokeCommit"}

\* What a family is in terms of its rows.
Alive(f) == \E t \in Tokens : Live(t) /\ tokens[t].fam = f
Known(f) == \E t \in Tokens : Stored(t) /\ tokens[t].fam = f

\* Reuse detection and logout revoke a family they found in the database.
RevokingInv(r) == req[r].pc \in Revoking => req[r].fam \in Families /\ Known(req[r].fam)

LineageInv == FounderInv /\ \A r \in Requests : RevokingInv(r)

-----------------------------------------------------------------------------
(* What the steps that write rows do to them.                              *)

\* The step of r leaves the locals of the others alone.
OnlyMoves(r) == \A q \in Requests \ {r} : req'[q] = req[q]

\* No token is added; families keep their tokens, which do not come back to life.
NoneAdded == \A t \in Tokens : /\ tokens'[t].fam = tokens[t].fam
                               /\ Stored(t)' <=> Stored(t)
                               /\ Live(t)' => Live(t)

LEMMA LoginRows ==
    ASSUME IInv, NEW r \in Requests, LoginCommit(r)
    PROVE  /\ r \in Tokens /\ ~Stored(r) /\ active' = r
           /\ Live(r)' /\ tokens'[r].fam = r
           /\ \A t \in Tokens \ {r} : /\ tokens'[t].fam = tokens[t].fam
                                      /\ Stored(t)' <=> Stored(t)
                                      /\ Live(t)' => Live(t)
           /\ OnlyMoves(r) /\ req'[r].pc \notin Revoking
<1> DEFINE V == req[r].victims
<1>1. /\ TypeOK /\ RequestInv(r) /\ ~Stored(r) /\ r \in Tokens /\ active' = r
  BY DEF IInv, LoginCommit, At, RequestInv, Creators, Ended, Tokens
<1>2. tokens' = [t \in Tokens |-> IF t = r THEN NewToken(r, None)
                                  ELSE IF t \in V /\ Live(t)
                                       THEN [tokens[t] EXCEPT !.state = "revoked"] ELSE tokens[t]]
  BY <1>1 DEF LoginCommit, Revoked
<1>3. PICK pc \in {"promote", "get"} : Goto(r, pc)
  BY DEF LoginCommit
<1>4. OnlyMoves(r) /\ req'[r].pc \notin Revoking
  BY <1>1, <1>3, GotoFacts DEF Waiting, OnlyMoves, Revoking
<1>5. tokens'[r].state = "live" /\ tokens'[r].fam = r
  BY <1>1, <1>2 DEF NewToken
<1>6. ASSUME NEW t \in Tokens \ {r}
      PROVE  /\ tokens'[t].fam = tokens[t].fam
             /\ tokens'[t].state = tokens[t].state \/ (Live(t) /\ tokens'[t].state = "revoked")
  <2>1. tokens[t] \in TokenRecords /\ tokens'[t] \in {tokens[t], [tokens[t] EXCEPT !.state = "revoked"]}
        /\ (~Live(t) => tokens'[t] = tokens[t])
    BY <1>1, <1>2 DEF TypeOK
  <2> QED BY <2>1 DEF TokenRecords
<1> HIDE DEF V
<1> QED BY <1>1, <1>4, <1>5, <1>6 DEF Live, Stored

LEMMA RotateRows ==
    ASSUME IInv, NEW r \in Requests, Rotate(r)
    PROVE  /\ OnlyMoves(r) /\ req'[r].pc \notin Revoking /\ UNCHANGED active
           /\ \/ UNCHANGED tokens
              \/ \E p \in Tokens :
                    /\ r \in Tokens /\ ~Stored(r) /\ Live(p) /\ p # r
                    /\ Live(r)' /\ tokens'[r].fam = tokens[p].fam
                    /\ Stored(p)' /\ tokens'[p].fam = tokens[p].fam
                    /\ \A t \in Tokens \ {r, p} : tokens'[t] = tokens[t]
<1> DEFINE p == req[r].tok
           f == req[r].fam
<1>1. /\ TypeOK /\ ~Stored(r) /\ r \in Tokens /\ UNCHANGED active
      /\ p \in Tokens /\ Stored(p) /\ p # r /\ f = tokens[p].fam
  BY DEF IInv, Rotate, At, RequestInv, Creators, Ended, Tokens
<1>2. PICK pc \in {"promote", "failed", "lost"} : Goto(r, pc)
  BY DEF Rotate, Committed
<1>3. OnlyMoves(r) /\ req'[r].pc \notin Revoking
  BY <1>1, <1>2, GotoFacts DEF Waiting, Ended, OnlyMoves, Revoking
<1>4. CASE ~Live(p)
  BY <1>1, <1>3, <1>4 DEF Rotate, NotYetRotated
<1>5. CASE Live(p)
  <2>1. tokens' = [tokens EXCEPT ![p].state = "revoked", ![r] = NewToken(f, p)]
    BY <1>5 DEF Rotate, NotYetRotated
  <2>2. tokens \in [Tokens -> TokenRecords]
    BY <1>1 DEF TypeOK
  <2>3. /\ tokens'[r] = NewToken(f, p) /\ tokens'[p] = [tokens[p] EXCEPT !.state = "revoked"]
        /\ \A t \in Tokens \ {r, p} : tokens'[t] = tokens[t]
    BY <1>1, <2>1, <2>2
  <2>4. tokens'[p].state = "revoked" /\ tokens'[p].fam = tokens[p].fam
    BY <1>1, <2>2, <2>3 DEF TokenRecords
  <2>5. tokens'[r].state = "live" /\ tokens'[r].fam = tokens[p].fam
    BY <1>1, <2>3 DEF NewToken
  <2> HIDE DEF p, f
  <2> QED BY <1>1, <1>3, <1>5, <2>3, <2>4, <2>5 DEF Live, Stored
<1> QED BY <1>4, <1>5

LEMMA RevokeRows ==
    ASSUME IInv, NEW r \in Requests, RevokeCommit(r)
    PROVE  /\ OnlyMoves(r) /\ req'[r].pc \notin Revoking
           /\ active' = IF active = req[r].fam THEN None ELSE active
           /\ NoneAdded
           /\ \A t \in Tokens : Live(t) /\ tokens[t].fam # req[r].fam => Live(t)'
<1> DEFINE V == req[r].victims \cap FamilyTokens(req[r].fam)
<1>1. TypeOK /\ Committed(r, "get") /\ active' = IF active = req[r].fam THEN None ELSE active
  BY DEF IInv, RevokeCommit, ActiveAfterRevoke
<1>2. tokens' = [t \in Tokens |-> IF t \in V /\ Live(t)
                                  THEN [tokens[t] EXCEPT !.state = "revoked"] ELSE tokens[t]]
  BY DEF RevokeCommit, Revoked
<1>3. OnlyMoves(r) /\ req'[r].pc \notin Revoking
  BY <1>1, GotoFacts DEF Committed, Waiting, Ended, OnlyMoves, Revoking
<1>4. \A t \in V : tokens[t].fam = req[r].fam
  BY DEF FamilyTokens
<1> HIDE DEF V
<1>5. ASSUME NEW t \in Tokens
      PROVE  /\ tokens'[t].fam = tokens[t].fam
             /\ \/ tokens'[t].state = tokens[t].state
                \/ t \in V /\ Live(t) /\ tokens'[t].state = "revoked"
  <2>1. /\ tokens[t] \in TokenRecords
        /\ tokens'[t] = tokens[t] \/ (t \in V /\ Live(t) /\ tokens'[t] = [tokens[t] EXCEPT !.state = "revoked"])
    BY <1>1, <1>2 DEF TypeOK
  <2> QED BY <2>1 DEF TokenRecords
<1> QED BY <1>1, <1>3, <1>4, <1>5 DEF NoneAdded, Live, Stored

LEMMA EraseRows ==
    ASSUME IInv, NEW r \in Requests, Erase(r)
    PROVE  /\ OnlyMoves(r) /\ req'[r].pc \notin Revoking /\ active' = None
           /\ NoneAdded /\ \A t \in Tokens : ~Live(t)'
<1>1. TypeOK /\ ErasedInv /\ active' = None
  BY DEF IInv, DatabaseInv, Erase
<1>2. PICK pc \in {"wipe", "failed", "lost"} : Goto(r, pc)
  BY DEF Erase, Committed
<1>3. OnlyMoves(r) /\ req'[r].pc \notin Revoking
  BY <1>1, <1>2, GotoFacts DEF Waiting, Ended, OnlyMoves, Revoking
<1>4. CASE userExists
  <2>1. tokens' = [t \in Tokens |-> IF tokens[t].state = "absent" THEN tokens[t]
                                    ELSE [tokens[t] EXCEPT !.state = "gone"]]
    BY <1>4 DEF Erase
  <2>2. ASSUME NEW t \in Tokens
        PROVE  /\ tokens'[t].fam = tokens[t].fam
               /\ \/ tokens[t].state = "absent" /\ tokens'[t].state = "absent"
                  \/ tokens[t].state # "absent" /\ tokens'[t].state = "gone"
    <3>1. tokens[t] \in TokenRecords
      BY <1>1 DEF TypeOK
    <3> QED BY <2>1, <3>1 DEF TokenRecords
  <2> QED BY <1>1, <1>3, <2>2 DEF NoneAdded, Live, Stored
<1>5. CASE ~userExists
  BY <1>1, <1>3, <1>5 DEF Erase, ErasedInv, LiveTokens, NoneAdded, Live, Stored
<1> QED BY <1>4, <1>5

LEMMA ExpireRows ==
    ASSUME IInv, NEW x \in Tokens, TokenExpires(x)
    PROVE  NoneAdded /\ (\A t \in Tokens : Live(t) => Live(t)') /\ UNCHANGED <<active, req>>
<1>1. tokens \in [Tokens -> TokenRecords] /\ UNCHANGED <<active, req>>
      /\ tokens' = [tokens EXCEPT ![x].expired = TRUE]
  BY DEF IInv, TypeOK, TokenExpires
<1>2. \A t \in Tokens : tokens'[t].fam = tokens[t].fam /\ tokens'[t].state = tokens[t].state
  BY <1>1 DEF TokenRecords
<1> QED BY <1>1, <1>2 DEF NoneAdded, Live, Stored

-----------------------------------------------------------------------------
(* The lineage is inductive.                                               *)

LEMMA LineageInit == Init => LineageInv
BY DEF Init, LineageInv, FounderInv, RevokingInv, Revoking, Known, Stored, NewToken, NoToken, Tokens,
       Locals

\* A request that does not move is not disturbed while the founders stay.
LEMMA RevokingKept ==
    ASSUME LineageInv, NEW q \in Requests, req'[q] = req[q], RowsKept
    PROVE  RevokingInv(q)'
BY DEF LineageInv, RevokingInv, RowsKept, Known

\* One request moves and is not revoking, and no token loses its founder.
LEMMA LineageStep ==
    ASSUME LineageInv, NEW r \in Requests, OnlyMoves(r), RevokingInv(r)',
           RowsKept, FounderInv'
    PROVE  LineageInv'
<1>1. ASSUME NEW q \in Requests, q # r PROVE RevokingInv(q)'
  BY <1>1, RevokingKept DEF OnlyMoves
<1> QED BY <1>1 DEF LineageInv

LEMMA FoundersKept ==
    ASSUME TypeOK, FounderInv, NoneAdded PROVE FounderInv'
BY DEF FounderInv, NoneAdded, TypeOK, TokenRecords, Families

\* The steps of a request that leave the database alone.
Reads(r) ==
    \/ Login(r) \/ Access(r) \/ Refresh(r) \/ Logout(r) \/ DeleteAccount(r)
    \/ SetPending(r) \/ LoginSnapshot(r) \/ LoginRollback(r) \/ Promote(r)
    \/ AssertFromRedis(r) \/ AssertUser(r) \/ AssertToken(r) \/ Recache(r)
    \/ Find(r) \/ RevokeSnapshot(r) \/ CompareGet(r) \/ CompareDel(r) \/ Wipe(r) \/ Crash(r)
    \/ QueryFails(r)

\* It only reads, and a revocation it starts is of a stored family.
ReadOnly(r) == UNCHANGED Database /\ OnlyMoves(r) /\ RevokingInv(r)'

LEMMA GotoReads ==
    ASSUME IInv, NEW r \in Requests, NEW pc \in (Waiting \cup Ended) \ Revoking, Goto(r, pc),
           UNCHANGED Database
    PROVE  ReadOnly(r)
BY GotoFacts DEF IInv, ReadOnly, OnlyMoves, RevokingInv

LEMMA SetReads ==
    ASSUME IInv, NEW r \in Requests, NEW ttl, NEW next \in (Waiting \cup Ended) \ Revoking,
           SetActiveSession(r, ttl, next), UNCHANGED Database
    PROVE  ReadOnly(r)
<1>1. "failed" \in (Waiting \cup Ended) \ Revoking
  BY DEF Ended, Revoking
<1> QED BY <1>1, GotoReads DEF SetActiveSession

LEMMA ReadStep ==
    ASSUME IInv, LineageInv, NEW r \in Requests, Reads(r)
    PROVE  ReadOnly(r)
<1> DEFINE Pcs == (Waiting \cup Ended) \ Revoking
<1>1. {"pending", "loginTx", "promote", "find", "assert", "dbUser", "dbToken", "recache",
       "rotate", "get", "del", "erase", "wipe", "done", "failed", "crashed"} \subseteq Pcs
  BY DEF Waiting, Ended, Revoking
<1>2. AfterDelete(r) \in Pcs /\ Admitted(r) \in Pcs
  BY <1>1 DEF AfterDelete, Admitted
<1>3. TypeOK /\ req[r] \in RequestRecords /\ req \in [Requests -> RequestRecords]
  BY DEF IInv, TypeOK
<1>4. ASSUME NEW op \in Operations, NEW pc \in {"pending", "find", "assert"},
             NEW f \in Families \cup {None}, NEW t \in Tokens \cup {None}, Arrive(r, op, pc, f, t)
      PROVE  ReadOnly(r)
  BY <1>3, <1>4, ArriveFacts DEF Waiting, ReadOnly, OnlyMoves, RevokingInv, Revoking, Database
<1>5. CASE Login(r) \/ Access(r) \/ Refresh(r) \/ Logout(r) \/ DeleteAccount(r)
  <2>1. \A t \in Issued : t \in Tokens /\ tokens[t].fam \in Families
    BY <1>3, IssuedStored DEF TypeOK, TokenRecords
  <2> QED BY <1>4, <1>5, <2>1
          DEF Login, Access, Refresh, Logout, DeleteAccount, Operations, Families, Tokens
<1>6. CASE SetPending(r) \/ Promote(r) \/ Recache(r)
  BY <1>1, <1>2, <1>6, SetReads DEF SetPending, Promote, Recache
<1>7. CASE LoginRollback(r) \/ CompareGet(r) \/ Wipe(r) \/ Crash(r) \/ QueryFails(r)
  BY <1>1, <1>2, <1>7, GotoReads DEF LoginRollback, CompareGet, Wipe, Crash, QueryFails, Database
<1>8. CASE AssertFromRedis(r) \/ AssertUser(r) \/ AssertToken(r)
  BY <1>1, <1>2, <1>8, GotoReads DEF AssertFromRedis, AssertUser, AssertToken
<1>9. CASE CompareDel(r)
  <2>1. CASE Goto(r, AfterDelete(r))
    BY <1>2, <1>9, <2>1, GotoReads DEF CompareDel
  <2>2. CASE req' = [req EXCEPT ![r].pc = "get", ![r].attempt = req[r].attempt + 1]
    <3>1. req'[r].pc = "get" /\ OnlyMoves(r)
      BY <1>3, <2>2 DEF RequestRecords, OnlyMoves
    <3> QED BY <1>9, <3>1 DEF CompareDel, ReadOnly, RevokingInv, Revoking
  <2> QED BY <1>9, <2>1, <2>2 DEF CompareDel
<1>10. CASE LoginSnapshot(r)
  <2>1. req'[r].pc = "loginCommit" /\ OnlyMoves(r)
    BY <1>3, <1>10 DEF LoginSnapshot, RequestRecords, OnlyMoves
  <2> QED BY <1>10, <2>1 DEF LoginSnapshot, ReadOnly, RevokingInv, Revoking
<1>11. CASE Find(r)
  <2> DEFINE t == req[r].tok
  <2>1. t \in Tokens /\ Stored(t)
    BY <1>11 DEF Find, At, IInv, RequestInv
  <2>2. tokens[t].fam \in Families /\ Known(tokens[t].fam)
    BY <1>3, <2>1 DEF Known, TypeOK, TokenRecords
  <2>3. req'[r].fam = tokens[t].fam /\ OnlyMoves(r)
    BY <1>3, <1>11 DEF Find, RequestRecords, OnlyMoves
  <2>4. UNCHANGED Database
    BY <1>11 DEF Find
  <2> QED BY <2>2, <2>3, <2>4 DEF ReadOnly, RevokingInv, Known, Stored, Database
<1>12. CASE RevokeSnapshot(r)
  <2>1. req'[r].fam = req[r].fam /\ OnlyMoves(r)
    BY <1>3, <1>12 DEF RevokeSnapshot, RequestRecords, OnlyMoves
  <2>2. req[r].fam \in Families /\ Known(req[r].fam)
    BY <1>12 DEF RevokeSnapshot, At, LineageInv, RevokingInv, Revoking
  <2>3. UNCHANGED Database
    BY <1>12 DEF RevokeSnapshot
  <2> QED BY <2>1, <2>2, <2>3 DEF ReadOnly, RevokingInv, Known, Stored, Database
<1> QED BY <1>5, <1>6, <1>7, <1>8, <1>9, <1>10, <1>11, <1>12 DEF Reads

Writes(r) == LoginCommit(r) \/ Rotate(r) \/ RevokeCommit(r) \/ Erase(r)
Elsewhere == RedisOutage \/ RedisBack \/ PendingExpires \/ KeyEvicted \/ UNCHANGED vars

\* Every step is one of four kinds.
LEMMA Steps ==
    [Next]_vars <=> \/ \E r \in Requests : Reads(r) \/ Writes(r)
                    \/ Elsewhere \/ \E t \in Tokens : TokenExpires(t)
BY DEF Next, Handle, Reads, Writes, Elsewhere

LEMMA ElsewhereFacts == Elsewhere => UNCHANGED Database /\ UNCHANGED req
BY DEF Elsewhere, RedisOutage, RedisBack, PendingExpires, KeyEvicted, vars, Database

LEMMA LineageNext == IInv /\ LineageInv /\ [Next]_vars => LineageInv'
<1> SUFFICES ASSUME IInv, LineageInv, [Next]_vars PROVE LineageInv'
  OBVIOUS
<1>1. TypeOK /\ FounderInv
  BY DEF IInv, LineageInv
<1>2. ASSUME NEW r \in Requests, OnlyMoves(r), req'[r].pc \notin Revoking, NoneAdded
      PROVE  LineageInv'
  <2>1. RevokingInv(r)' /\ RowsKept
    BY <1>2 DEF RevokingInv, NoneAdded, RowsKept
  <2> QED BY <1>1, <1>2, <2>1, FoundersKept, LineageStep
<1>3. ASSUME NEW r \in Requests, Reads(r) PROVE LineageInv'
  <2>1. ReadOnly(r)
    BY <1>3, ReadStep
  <2>2. FounderInv' /\ RowsKept
    BY <1>1, <2>1 DEF ReadOnly, Database, FounderInv, Stored, RowsKept
  <2> QED BY <2>1, <2>2, LineageStep DEF ReadOnly
<1>4. ASSUME NEW r \in Requests, LoginCommit(r) PROVE LineageInv'
  <2>1. FounderInv' /\ RevokingInv(r)' /\ RowsKept
    BY <1>1, <1>4, LoginRows
    DEF FounderInv, RevokingInv, RowsKept, Live, Stored, TypeOK, TokenRecords, Families
  <2> QED BY <1>4, <2>1, LoginRows, LineageStep
<1>5. ASSUME NEW r \in Requests, Rotate(r) PROVE LineageInv'
  <2>1. RowsKept
    BY <1>5, RotateRows DEF RowsKept, Live, Stored
  <2>2. ASSUME NEW t \in Tokens, Stored(t)' PROVE \E s \in Tokens : Stored(s) /\ tokens'[t].fam = tokens[s].fam
    BY <1>5, <2>2, RotateRows DEF Live, Stored
  <2>3. FounderInv'
    BY <1>1, <2>1, <2>2 DEF FounderInv, RowsKept, TypeOK, TokenRecords, Families
  <2>4. RevokingInv(r)' /\ OnlyMoves(r)
    BY <1>5, RotateRows DEF RevokingInv
  <2> QED BY <2>1, <2>3, <2>4, LineageStep
<1>6. ASSUME NEW r \in Requests, RevokeCommit(r) PROVE LineageInv'
  BY <1>2, <1>6, RevokeRows
<1>7. ASSUME NEW r \in Requests, Erase(r) PROVE LineageInv'
  BY <1>2, <1>7, EraseRows
<1>8. CASE Elsewhere
  BY <1>8, ElsewhereFacts DEF LineageInv, FounderInv, RevokingInv, Known, Stored, Database
<1>9. ASSUME NEW x \in Tokens, TokenExpires(x) PROVE LineageInv'
  <2>1. NoneAdded /\ UNCHANGED req
    BY <1>9, ExpireRows
  <2>2. \A q \in Requests : RevokingInv(q)'
    BY <2>1, RevokingKept DEF NoneAdded, RowsKept
  <2> QED BY <1>1, <2>1, <2>2, FoundersKept DEF LineageInv
<1> QED BY <1>3, <1>4, <1>5, <1>6, <1>7, <1>8, <1>9, Steps DEF Writes

-----------------------------------------------------------------------------
(* The mapping of the rows to the state of a family.                       *)

LEMMA FamilyStateIs ==
    ASSUME NEW f
    PROVE  /\ FamilyState(f) = IF Alive(f) THEN "alive" ELSE IF Known(f) THEN "dead" ELSE "unborn"
           /\ Alive(f) => Known(f)
<1>1. FamilyTokens(f) = {} <=> ~Known(f)
  BY DEF FamilyTokens, Known, Stored
<1>2. (\E t \in LiveTokens : tokens[t].fam = f) <=> Alive(f)
  BY DEF LiveTokens, Alive
<1>3. Alive(f) => Known(f)
  BY DEF Alive, Known, Live, Stored
<1> QED BY <1>1, <1>2, <1>3 DEF FamilyState

LEMMA FamilyStateIsAfter ==
    ASSUME NEW f
    PROVE  /\ FamilyState(f)' = IF Alive(f)' THEN "alive" ELSE IF Known(f)' THEN "dead" ELSE "unborn"
           /\ Alive(f)' => Known(f)'
<1>1. FamilyTokens(f)' = {} <=> ~Known(f)'
  BY DEF FamilyTokens, Known, Stored
<1>2. (\E t \in LiveTokens' : tokens'[t].fam = f) <=> Alive(f)'
  BY DEF LiveTokens, Alive
<1>3. Alive(f)' => Known(f)'
  BY DEF Alive, Known, Live, Stored
<1> QED BY <1>1, <1>2, <1>3 DEF FamilyState

\* Rows that are only spent: families stay known, and the dead stay dead.
LEMMA SpentFamilies ==
    ASSUME NoneAdded, NEW f
    PROVE  (Known(f)' <=> Known(f)) /\ (Alive(f)' => Alive(f))
BY DEF NoneAdded, Known, Alive

-----------------------------------------------------------------------------
(* Steps map to steps.                                                     *)

LEMMA InitRefines == Init => Session!Init
<1> SUFFICES ASSUME Init PROVE Session!Init
  OBVIOUS
<1>1. /\ tokens[Genesis].state = "live" /\ tokens[Genesis].fam = Genesis /\ Genesis \in Tokens
      /\ \A t \in Tokens : t # Genesis => tokens[t].state = "absent" /\ tokens[t].fam = t
  BY DEF Init, Tokens, NewToken, NoToken
<1>2. ASSUME NEW f \in Families
      PROVE  FamilyState(f) = IF f = Genesis THEN "alive" ELSE "unborn"
  BY <1>1, FamilyStateIs DEF Alive, Known, Live, Stored
<1> QED BY <1>2 DEF Session!Init, Init

LEMMA StutterRefines ==
    ASSUME UNCHANGED active, \A f \in Families : FamilyState(f)' = FamilyState(f)
    PROVE  UNCHANGED Session!sessionVars
BY DEF Session!sessionVars

\* A committed login opens a family nobody has used.
LEMMA LoginRefines ==
    ASSUME IInv, LineageInv, NEW r \in Requests, LoginCommit(r)
    PROVE  Session!Open(r)
<1>1. /\ r \in Families /\ ~Stored(r) /\ active' = r /\ Live(r)' /\ tokens'[r].fam = r
      /\ \A t \in Tokens \ {r} : /\ tokens'[t].fam = tokens[t].fam
                                 /\ Stored(t)' <=> Stored(t)
                                 /\ Live(t)' => Live(t)
  BY LoginRows DEF Families
<1>2. FamilyState(r) = "unborn"
  <2>1. ~Known(r)
    BY <1>1 DEF LineageInv, FounderInv, Known
  <2> QED BY <2>1, FamilyStateIs
<1>3. FamilyState(r)' = "alive"
  <2>1. Alive(r)'
    BY <1>1 DEF Alive, Families
  <2> QED BY <2>1, FamilyStateIsAfter
<1>4. ASSUME NEW g \in Families \ {r}
      PROVE  \/ FamilyState(g)' = FamilyState(g)
             \/ FamilyState(g) # "unborn" /\ FamilyState(g)' = "dead"
  <2>1. (Known(g)' <=> Known(g)) /\ (Alive(g)' => Alive(g))
    BY <1>1, <1>4 DEF Known, Alive
  <2> QED BY <2>1, FamilyStateIs, FamilyStateIsAfter
<1>5. \A g \in Families : FamilyState(g)' \in {"unborn", "alive", "dead"}
  BY FamilyStateIsAfter
<1> QED BY <1>1, <1>2, <1>3, <1>4, <1>5
        DEF Session!Open, Session!Born, Session!FamilyStates

\* A rotation hands the life of a family to its successor token.
LEMMA RotateRefines ==
    ASSUME IInv, LineageInv, NEW r \in Requests, Rotate(r)
    PROVE  UNCHANGED Session!sessionVars
<1>1. UNCHANGED active
  BY RotateRows
<1>2. CASE UNCHANGED tokens
  <2>1. \A f \in Families : FamilyState(f)' = FamilyState(f)
    BY <1>2, FamilyStateIs, FamilyStateIsAfter DEF Alive, Known, Live, Stored
  <2> QED BY <1>1, <2>1, StutterRefines
<1>3. ASSUME NEW p \in Tokens,
             /\ r \in Tokens /\ ~Stored(r) /\ Live(p) /\ p # r
             /\ Live(r)' /\ tokens'[r].fam = tokens[p].fam
             /\ Stored(p)' /\ tokens'[p].fam = tokens[p].fam,
             \A t \in Tokens \ {r, p} : tokens'[t] = tokens[t]
      PROVE  UNCHANGED Session!sessionVars
  <2>1. ASSUME NEW f \in Families
        PROVE  (Known(f)' <=> Known(f)) /\ (Alive(f)' <=> Alive(f))
    BY <1>3 DEF Known, Alive, Live, Stored
  <2>2. \A f \in Families : FamilyState(f)' = FamilyState(f)
    BY <2>1, FamilyStateIs, FamilyStateIsAfter
  <2> QED BY <1>1, <2>2, StutterRefines
<1> QED BY <1>2, <1>3, RotateRows

\* A revocation deactivates a born family and ends it, unless a rotation escaped it.
LEMMA RevokeRefines ==
    ASSUME IInv, LineageInv, NEW r \in Requests, RevokeCommit(r)
    PROVE  Session!Revoke(req[r].fam)
<1>1. PICK f \in Families : f = req[r].fam /\ Known(f)
  BY DEF LineageInv, RevokingInv, Revoking, RevokeCommit, At
<1>2. /\ active' = IF active = f THEN None ELSE active
      /\ NoneAdded
      /\ \A t \in Tokens : Live(t) /\ tokens[t].fam # f => Live(t)'
  BY <1>1, RevokeRows
<1>3. ASSUME NEW g \in Families
      PROVE  (Known(g)' <=> Known(g)) /\ (Alive(g)' => Alive(g)) /\ (g # f => (Alive(g) => Alive(g)'))
  BY <1>2, SpentFamilies DEF Alive, NoneAdded
<1>4. \A g \in Families : g # f => FamilyState(g)' = FamilyState(g)
  BY <1>3, FamilyStateIs, FamilyStateIsAfter
<1>5. FamilyState(f)' = FamilyState(f) \/ FamilyState(f)' = "dead"
  BY <1>1, <1>3, FamilyStateIs, FamilyStateIsAfter
<1>6. FamilyState(f) # "unborn"
  BY <1>1, FamilyStateIs
<1>7. Session!Revoke(f)
  BY <1>2, <1>4, <1>5, <1>6 DEF Session!Revoke, Session!Born
<1> QED BY <1>1, <1>7

\* A deleted account has no live family.
LEMMA EraseRefines ==
    ASSUME IInv, NEW r \in Requests, Erase(r)
    PROVE  Session!Erase
<1>1. active' = None /\ NoneAdded /\ \A t \in Tokens : ~Live(t)'
  BY EraseRows
<1>2. ASSUME NEW f \in Families
      PROVE  FamilyState(f)' = IF FamilyState(f) = "unborn" THEN "unborn" ELSE "dead"
  <2>1. ~Alive(f)' /\ (Known(f)' <=> Known(f))
    BY <1>1, SpentFamilies DEF Alive
  <2> QED BY <2>1, FamilyStateIs, FamilyStateIsAfter
<1> QED BY <1>1, <1>2 DEF Session!Erase, Session!Born

LEMMA NextRefines == IInv /\ LineageInv /\ [Next]_vars => [Session!Next]_(Session!sessionVars)
<1> SUFFICES ASSUME IInv, LineageInv, [Next]_vars
             PROVE  Session!Next \/ UNCHANGED Session!sessionVars
  OBVIOUS
<1>1. ASSUME UNCHANGED Database PROVE UNCHANGED Session!sessionVars
  <2>1. \A f \in Families : FamilyState(f)' = FamilyState(f)
    BY <1>1, FamilyStateIs, FamilyStateIsAfter DEF Database, Alive, Known, Live, Stored
  <2> QED BY <1>1, <2>1, StutterRefines DEF Database
<1>2. ASSUME NEW r \in Requests, Reads(r) PROVE UNCHANGED Session!sessionVars
  BY <1>1, <1>2, ReadStep DEF ReadOnly
<1>3. ASSUME NEW r \in Requests, LoginCommit(r) PROVE Session!Next
  BY <1>3, LoginRefines DEF Session!Next, Families, Tokens
<1>4. ASSUME NEW r \in Requests, Rotate(r) PROVE UNCHANGED Session!sessionVars
  BY <1>4, RotateRefines
<1>5. ASSUME NEW r \in Requests, RevokeCommit(r) PROVE Session!Next
  <2>1. req[r].fam \in Families
    BY <1>5 DEF LineageInv, RevokingInv, Revoking, RevokeCommit, At
  <2> QED BY <1>5, <2>1, RevokeRefines DEF Session!Next
<1>6. ASSUME NEW r \in Requests, Erase(r) PROVE Session!Next
  BY <1>6, EraseRefines DEF Session!Next
<1>7. CASE Elsewhere
  BY <1>1, <1>7, ElsewhereFacts
<1>8. ASSUME NEW x \in Tokens, TokenExpires(x) PROVE UNCHANGED Session!sessionVars
  <2>1. \A f \in Families : FamilyState(f)' = FamilyState(f)
    BY <1>8, ExpireRows, FamilyStateIs, FamilyStateIsAfter DEF NoneAdded, Alive, Known
  <2> QED BY <1>8, <2>1, ExpireRows, StutterRefines
<1> QED BY <1>2, <1>3, <1>4, <1>5, <1>6, <1>7, <1>8, Steps DEF Writes

THEOREM LineageInvariance == Spec => []LineageInv
BY LineageInit, LineageNext, Invariance, PTL DEF Spec

\* The rows of auth.service.ts behave as one session per user for any number of
\* concurrent requests and any faults: a family is opened once, a dead one stays dead.
THEOREM Refinement == Spec => ImplementsSingleSession
<1>1. Spec => [](IInv /\ LineageInv)
  BY Invariance, LineageInvariance, PTL
<1> QED BY <1>1, InitRefines, NextRefines, PTL DEF Spec, ImplementsSingleSession, Session!Spec

-----------------------------------------------------------------------------
(* One request at a time, and a Redis that stays connected.                *)

OneAtATime == MaxInFlight <= 1 /\ "outage" \notin Faults

\* The key is missing, or names the active family or one an abandoned handler left.
Left(f) == \E q \in Requests : Abandoned(q) /\ req[q].fam = f
CachedOnly(f) == redis # None => redis.fam = f
Agree == CachedOnly(active) \/ Left(redis.fam)

Calm == {"pending", "find", "assert", "dbUser", "dbToken", "recache", "rotate", "revokeTx",
         "revokeCommit", "erase"}

\* What the request being served may rely on at each of its awaits.
Turn(r) ==
    /\ req[r].pc \in Calm => Agree
    /\ req[r].pc \in {"dbUser", "dbToken", "recache"} => redis = None
    /\ req[r].pc \in {"dbToken", "recache", "promote"} => active = req[r].fam
    /\ req[r].pc = "promote" => req[r].op # "logout"
    /\ req[r].pc \in {"rotate", "promote", "loginTx", "loginCommit", "del", "erase", "wipe"}
          => CachedOnly(req[r].fam)
    /\ req[r].pc = "get" => Agree \/ CachedOnly(req[r].fam)
    /\ req[r].pc = "loginCommit" => LiveTokens \subseteq req[r].victims
    /\ req[r].pc = "revokeCommit"
          => \A t \in LiveTokens : tokens[t].fam = req[r].fam => t \in req[r].victims

\* The family a logout has revoked is known and dead.
LogoutInv(r) ==
    req[r].op = "logout" /\ req[r].pc \in {"get", "del", "done"} /\ req[r].fam # None
        => Known(req[r].fam) /\ ~Alive(req[r].fam)

GoneInv == \A t \in Tokens : tokens[t].state = "gone" => ~userExists
OneServed == \A q, r \in InFlight : q = r
RowsAgree == GoneInv /\ OnlyActiveFamilyLive /\ SupersededNotCached

SoloInv ==
    /\ redisReady /\ OneServed /\ RowsAgree
    /\ InFlight = {} => Agree
    /\ \A r \in InFlight : Turn(r)
    /\ \A r \in Requests : LogoutInv(r)

LEMMA SoloInit == Init => SoloInv
<1> SUFFICES ASSUME Init PROVE SoloInv
  OBVIOUS
<1>1. \A r \in Requests : req[r].pc = "idle" /\ req[r].op = None
  BY DEF Init, Locals
<1>2. InFlight = {} /\ \A r \in Requests : req[r].op # "logout" \/ req[r].pc = "idle"
  BY <1>1 DEF InFlight, Waiting
<1>3. \A r \in Requests : LogoutInv(r)
  BY <1>1 DEF LogoutInv
<1>4. RowsAgree
  BY DEF Init, RowsAgree, GoneInv, OnlyActiveFamilyLive, SupersededNotCached, LiveTokens, Live,
         NewToken, NoToken
<1>5. Agree
  BY DEF Init, Agree, CachedOnly
<1> QED BY <1>2, <1>3, <1>4, <1>5 DEF Init, SoloInv, OneServed

\* A request that arrives finds nobody else being served.
LEMMA Admission ==
    ASSUME OneAtATime, OneServed, Cardinality(InFlight) < MaxInFlight
    PROVE  InFlight = {}
<1> SUFFICES ASSUME InFlight # {} PROVE FALSE
  OBVIOUS
<1>1. PICK r : InFlight = {r}
  BY DEF OneServed
<1>2. Cardinality(InFlight) = 1
  BY <1>1, FS_Singleton
<1> QED BY <1>2, FaultsAssumption DEF OneAtATime

\* A step of the only request that is being served.
LEMMA SoloStep ==
    ASSUME SoloInv, NEW r \in Requests, InFlight \subseteq {r}, OnlyMoves(r),
           redisReady', RowsAgree', LogoutInv(r)',
           \A f : Known(f) /\ ~Alive(f) => Known(f)' /\ ~Alive(f)',
           req'[r].pc \in Waiting => Turn(r)',
           req'[r].pc \notin Waiting => Agree'
    PROVE  SoloInv'
<1>1. InFlight' = IF req'[r].pc \in Waiting THEN {r} ELSE {}
  BY DEF InFlight, OnlyMoves
<1>2. OneServed'
  BY <1>1 DEF OneServed
<1>3. ASSUME NEW q \in Requests PROVE LogoutInv(q)'
  <2>1. CASE q = r
    BY <2>1
  <2>2. CASE q # r
    <3>1. req'[q] = req[q] /\ LogoutInv(q)
      BY <2>2 DEF OnlyMoves, SoloInv
    <3>2. CASE ~(req[q].op = "logout" /\ req[q].pc \in {"get", "del", "done"} /\ req[q].fam # None)
      BY <3>1, <3>2 DEF LogoutInv
    <3>3. CASE req[q].op = "logout" /\ req[q].pc \in {"get", "del", "done"} /\ req[q].fam # None
      <4> DEFINE f == req[q].fam
      <4>1. Known(f) /\ ~Alive(f)
        BY <3>1, <3>3 DEF LogoutInv
      <4>2. (\E t \in Tokens : Stored(t)' /\ tokens'[t].fam = f)
            /\ ~(\E t \in Tokens : Live(t)' /\ tokens'[t].fam = f)
        <5> HIDE DEF f
        <5>1. PICK g : g = f
          OBVIOUS
        <5>2. Known(g)' /\ ~Alive(g)'
          BY <4>1, <5>1
        <5> QED BY <5>1, <5>2 DEF Known, Alive
      <4> QED BY <3>1, <4>2 DEF LogoutInv, Known, Alive
    <3> QED BY <3>2, <3>3
  <2> QED BY <2>1, <2>2
<1> QED BY <1>1, <1>2, <1>3 DEF SoloInv

\* The families that are dead stay dead when no token is added.
LEMMA DeadKept ==
    ASSUME NoneAdded, NEW f, Known(f), ~Alive(f) PROVE Known(f)' /\ ~Alive(f)'
BY DEF NoneAdded, Known, Alive

\* A step that leaves the rows alone, and may put a harmless family in the key.
LEMMA SoloRead ==
    ASSUME SoloInv, NEW r \in Requests, InFlight \subseteq {r}, ReadOnly(r), redisReady',
           redis' \in {None, redis} \/ redis'.fam = active \/ FamilyTokens(redis'.fam) = {},
           LogoutInv(r)',
           req'[r].pc \in Waiting => Turn(r)',
           req'[r].pc \notin Waiting => Agree'
    PROVE  SoloInv'
<1>1. UNCHANGED <<userExists, active, tokens>> /\ OnlyMoves(r)
  BY DEF ReadOnly, Database
<1>2. GoneInv' /\ OnlyActiveFamilyLive'
  BY <1>1 DEF SoloInv, RowsAgree, GoneInv, OnlyActiveFamilyLive, LiveTokens, Live
<1>3. SupersededNotCached'
  BY <1>1 DEF SoloInv, RowsAgree, SupersededNotCached, FamilyTokens
<1>4. \A f : Known(f) /\ ~Alive(f) => Known(f)' /\ ~Alive(f)'
  BY <1>1 DEF Known, Alive, Stored, Live
<1> QED BY <1>1, <1>2, <1>3, <1>4, SoloStep DEF RowsAgree

\* The request being served is alone, and it has not been abandoned.
LEMMA Served ==
    ASSUME SoloInv, NEW r \in Requests, req[r].pc \in Waiting
    PROVE  InFlight \subseteq {r} /\ Turn(r) /\ redisReady /\ LogoutInv(r)
           /\ ~Abandoned(r)
<1>1. r \in InFlight
  BY DEF InFlight
<1>2. ~Abandoned(r)
  BY DEF Waiting, Abandoned
<1> QED BY <1>1, <1>2 DEF SoloInv, OneServed

\* What an abandoned handler left stays excused, and agreement survives the loss of the key.
LEMMA LeftKept ==
    ASSUME NEW r \in Requests, OnlyMoves(r), ~Abandoned(r), NEW f, Left(f)
    PROVE  \E q \in Requests : Abandoned(q)' /\ req'[q].fam = f
BY DEF Left, Abandoned, OnlyMoves

LEMMA AgreeKept ==
    ASSUME NEW r \in Requests, OnlyMoves(r), ~Abandoned(r),
           redis' \in {None, redis}, UNCHANGED active, Agree
    PROVE  Agree'
<1>1. CASE redis' = None
  BY <1>1 DEF Agree, CachedOnly
<1>2. CASE redis' = redis
  <2>1. CASE CachedOnly(active)
    BY <1>2, <2>1 DEF Agree, CachedOnly
  <2>2. CASE Left(redis.fam)
    <3>1. PICK f : f = redis.fam
      OBVIOUS
    <3>2. \E q \in Requests : Abandoned(q)' /\ req'[q].fam = f
      BY <2>2, <3>1, LeftKept
    <3> QED BY <1>2, <3>1, <3>2 DEF Agree, Left, Abandoned
  <2> QED BY <2>1, <2>2 DEF Agree
<1> QED BY <1>1, <1>2

LEMMA AgreeAfterDelete == redis' = None => Agree'
BY DEF Agree, CachedOnly

\* A handler abandoned with its own family in the key is what the agreement excuses.
LEMMA AgreeAbandoned ==
    ASSUME NEW r \in Requests, redis' = None \/ redis'.fam = req'[r].fam, Abandoned(r)'
    PROVE  Agree'
BY DEF Agree, CachedOnly, Left, Abandoned

\* The request being served goes on, or ends, without touching the rows.
LEMMA SoloMove ==
    ASSUME IInv, SoloInv, NEW r \in Requests, req[r].pc \in Waiting,
           NEW pc \in (Waiting \cup Ended) \ {"loginCommit", "revokeCommit", "promote"},
           Goto(r, pc), ReadOnly(r), redisReady',
           redis' \in {None, redis} \/ redis'.fam = active \/ FamilyTokens(redis'.fam) = {},
           pc \in Calm \cup Ended => Agree',
           pc \in {"dbUser", "dbToken", "recache"} => redis' = None,
           pc \in {"dbToken", "recache"} => active = req[r].fam,
           pc \in {"rotate", "loginTx", "del", "erase", "wipe"}
              => redis' = None \/ redis'.fam = req[r].fam,
           pc = "get" => Agree' \/ redis' = None \/ redis'.fam = req[r].fam,
           req[r].op = "logout" /\ pc \in {"get", "del", "done"} /\ req[r].fam # None
              => Known(req[r].fam) /\ ~Alive(req[r].fam)
    PROVE  SoloInv'
<1> PICK f : f = req[r].fam
  OBVIOUS
<1>1. req'[r].pc = pc /\ req'[r].op = req[r].op /\ req'[r].fam = f
  BY GotoFacts DEF IInv
<1>2. InFlight \subseteq {r}
  BY Served
<1>3. UNCHANGED <<userExists, active, tokens>>
  BY DEF ReadOnly, Database
<1>4. Turn(r)'
  BY <1>1, <1>3 DEF Turn, CachedOnly
<1>5. LogoutInv(r)'
  <2>1. Known(f)' <=> Known(f)
    BY <1>3 DEF Known, Stored
  <2>2. Alive(f)' <=> Alive(f)
    BY <1>3 DEF Alive, Live
  <2>3. (\E t \in Tokens : Stored(t)' /\ tokens'[t].fam = f) <=> Known(f)
    BY <2>1 DEF Known
  <2>4. (\E t \in Tokens : Live(t)' /\ tokens'[t].fam = f) <=> Alive(f)
    BY <2>2 DEF Alive
  <2>5. CASE req[r].op = "logout" /\ pc \in {"get", "del", "done"} /\ f # None
    <3>1. Known(f) /\ ~Alive(f)
      BY <2>5
    <3> QED BY <1>1, <2>3, <2>4, <3>1 DEF LogoutInv, Known, Alive
  <2>6. CASE ~(req[r].op = "logout" /\ pc \in {"get", "del", "done"} /\ f # None)
    BY <1>1, <2>6 DEF LogoutInv
  <2> QED BY <2>5, <2>6
<1>6. req'[r].pc \notin Waiting => Agree'
  BY <1>1
<1> QED BY <1>2, <1>4, <1>5, <1>6, SoloRead

\* With the client connected and staying so, a SET succeeds.
LEMMA SetSucceeds ==
    ASSUME OneAtATime, redisReady, NEW r, NEW ttl, NEW next, SetActiveSession(r, ttl, next)
    PROVE  redis' = [fam |-> req[r].fam, ttl |-> ttl] /\ redisReady' /\ Goto(r, next)
BY DEF OneAtATime, SetActiveSession

\* A request that arrives finds the stores in agreement.
LEMMA SoloArrive ==
    ASSUME OneAtATime, IInv, LineageInv, SoloInv, NEW r \in Requests,
           Login(r) \/ Access(r) \/ Refresh(r) \/ Logout(r) \/ DeleteAccount(r)
    PROVE  SoloInv'
<1>1. ReadOnly(r)
  BY ReadStep DEF Reads
<1>2. ASSUME NEW op \in Operations, NEW pc \in {"pending", "find", "assert"},
             NEW f \in Families \cup {None}, NEW t \in Tokens \cup {None}, Arrive(r, op, pc, f, t)
      PROVE  SoloInv'
  <2>1. /\ req'[r].pc = pc /\ req[r].pc = "idle"
        /\ UNCHANGED <<userExists, active, tokens, redis, redisReady>>
    <3>1. TypeOK /\ pc \in Waiting
      BY DEF IInv, Waiting
    <3> QED BY <1>2, <3>1, ArriveFacts
  <2>2. InFlight = {} /\ Agree
    BY <1>2, Admission DEF Arrive, SoloInv
  <2>3. Agree'
    BY <1>1, <2>1, <2>2, AgreeKept DEF ReadOnly, Abandoned
  <2>4. Turn(r)' /\ LogoutInv(r)' /\ redisReady'
    BY <2>1, <2>3 DEF Turn, LogoutInv, SoloInv
  <2> QED BY <1>1, <2>1, <2>2, <2>3, <2>4, SoloRead
<1>3. \A t \in Issued : t \in Tokens /\ tokens[t].fam \in Families
  BY IssuedStored DEF IInv, TypeOK, TokenRecords
<1> QED BY <1>2, <1>3 DEF Login, Access, Refresh, Logout, DeleteAccount, Operations, Families, Tokens

\* loginWithGoogle writes the key first: its family has no rows yet.
LEMMA SoloLogin ==
    ASSUME OneAtATime, IInv, LineageInv, SoloInv, NEW r \in Requests,
           SetPending(r) \/ LoginSnapshot(r) \/ LoginRollback(r)
    PROVE  SoloInv'
<1>1. ReadOnly(r) /\ UNCHANGED Database
  BY ReadStep DEF Reads, ReadOnly
<1>2. req[r].pc \in {"pending", "loginTx", "loginCommit"}
  BY DEF SetPending, LoginSnapshot, LoginRollback, At
<1>3. req[r].fam = r /\ req[r].op = "login" /\ ~Stored(r) /\ r \in Tokens /\ req[r].pc \in Waiting
  BY <1>2 DEF IInv, RequestInv, Creators, Ended, Waiting, Tokens
<1>4. InFlight \subseteq {r} /\ Turn(r) /\ redisReady
  BY <1>3, Served
<1>5. CASE SetPending(r)
  <2>1. redis' = [fam |-> r, ttl |-> PendingTtl] /\ redisReady' /\ Goto(r, "loginTx")
    BY <1>3, <1>4, <1>5, SetSucceeds DEF SetPending
  <2>2. redis'.fam = r
    BY <2>1
  <2>3. FamilyTokens(r) = {}
    BY <1>3 DEF LineageInv, FounderInv, FamilyTokens, Stored
  <2>4. "loginTx" \in (Waiting \cup Ended) \ {"loginCommit", "revokeCommit", "promote"}
        /\ "loginTx" \notin Calm \cup Ended
    BY DEF Waiting, Calm, Ended
  <2> QED BY <1>1, <1>3, <2>1, <2>2, <2>3, <2>4, SoloMove
<1>6. CASE LoginSnapshot(r)
  <2>1. req' = [req EXCEPT ![r].pc = "loginCommit", ![r].victims = LiveTokens]
        /\ UNCHANGED <<userExists, active, tokens, redis, redisReady>>
    BY <1>6 DEF LoginSnapshot, LoginVictims, Database, Cache
  <2>2. req'[r].pc = "loginCommit" /\ req'[r].victims = LiveTokens /\ req'[r].op = "login"
        /\ req'[r].fam = req[r].fam
    BY <1>3, <2>1 DEF IInv, TypeOK, RequestRecords
  <2>3. CachedOnly(req[r].fam)
    BY <1>4, <1>6 DEF Turn, LoginSnapshot, At
  <2>4. Turn(r)'
    BY <2>1, <2>2, <2>3 DEF Turn, Calm, CachedOnly, LiveTokens, Live
  <2>5. LogoutInv(r)' /\ req'[r].pc \in Waiting
    BY <2>2 DEF LogoutInv, Waiting
  <2> QED BY <1>1, <1>4, <2>1, <2>4, <2>5, SoloRead
<1>7. CASE LoginRollback(r)
  <2>1. Goto(r, "get") /\ UNCHANGED <<redis, redisReady>>
    BY <1>7 DEF LoginRollback, Cache
  <2>2. redis = None \/ redis.fam = req[r].fam
    BY <1>4, <1>7 DEF Turn, CachedOnly, LoginRollback
  <2>3. "get" \in (Waiting \cup Ended) \ {"loginCommit", "revokeCommit", "promote"}
        /\ "get" \notin Calm \cup Ended
    BY DEF Waiting, Calm, Ended
  <2> QED BY <1>1, <1>3, <1>4, <2>1, <2>2, <2>3, SoloMove
<1> QED BY <1>5, <1>6, <1>7

\* The promotion, or the re-cache of an older one, names the active family.
LEMMA SoloPromote ==
    ASSUME OneAtATime, IInv, LineageInv, SoloInv, NEW r \in Requests, Promote(r) \/ Recache(r)
    PROVE  SoloInv'
<1>1. ReadOnly(r)
  BY ReadStep DEF Reads
<1>2. req[r].pc \in {"promote", "recache"} /\ req[r].pc \in Waiting
  BY DEF Promote, Recache, At, Waiting
<1>3. Turn(r) /\ redisReady
  BY <1>2, Served
<1>4. active = req[r].fam
  BY <1>2, <1>3 DEF Turn
<1>5. redis' = [fam |-> req[r].fam, ttl |-> "full"] /\ redisReady'
      /\ Goto(r, IF req[r].pc = "promote" THEN "done" ELSE Admitted(r))
  BY <1>3, SetSucceeds DEF Promote, Recache, At
<1>6. redis'.fam = active
  BY <1>4, <1>5
<1>7. Agree'
  BY <1>1, <1>6 DEF ReadOnly, Database, Agree, CachedOnly
<1>8. CASE req[r].pc = "promote"
  <2>1. Goto(r, "done") /\ req[r].op # "logout"
    BY <1>3, <1>5, <1>8 DEF Turn
  <2>2. "done" \in (Waiting \cup Ended) \ {"loginCommit", "revokeCommit", "promote"}
    BY DEF Waiting, Ended
  <2> QED BY <1>1, <1>2, <1>5, <1>6, <1>7, <2>1, <2>2, SoloMove
<1>9. CASE req[r].pc = "recache"
  <2>1. Goto(r, Admitted(r)) /\ req[r].op # "logout"
    BY <1>5, <1>9 DEF IInv, RequestInv, Admitting
  <2>2. Admitted(r) \in {"rotate", "erase", "done"}
    BY DEF Admitted
  <2>3. Admitted(r) \in (Waiting \cup Ended) \ {"loginCommit", "revokeCommit", "promote"}
    BY <2>2 DEF Waiting, Ended
  <2>4. redis'.fam = req[r].fam
    BY <1>4, <1>6
  <2> QED BY <1>1, <1>2, <1>5, <1>6, <1>7, <2>1, <2>2, <2>3, <2>4, SoloMove
<1> QED BY <1>2, <1>8, <1>9

\* assertActiveSession lets a family through that the key or the users row names.
LEMMA SoloGuard ==
    ASSUME OneAtATime, IInv, LineageInv, SoloInv, NEW r \in Requests,
           AssertFromRedis(r) \/ AssertUser(r) \/ AssertToken(r)
    PROVE  SoloInv'
<1>1. ReadOnly(r) /\ UNCHANGED <<redis, redisReady>>
  BY ReadStep DEF Reads, AssertFromRedis, AssertUser, AssertToken, Cache
<1>2. req[r].pc \in {"assert", "dbUser", "dbToken"}
  BY DEF AssertFromRedis, AssertUser, AssertToken, At
<1>3. req[r].pc \in Waiting /\ req[r].op # "logout"
  BY <1>2 DEF Waiting, IInv, RequestInv, Admitting
<1>4. Turn(r) /\ redisReady /\ ~Abandoned(r)
  BY <1>3, Served
<1>5. Agree'
  <2>1. Agree
    BY <1>2, <1>4 DEF Turn, Calm
  <2> QED BY <1>1, <1>4, <2>1, AgreeKept DEF ReadOnly, Database
<1>6. PICK pc \in {"failed", "dbUser", "dbToken", "recache", "rotate", "erase", "done"} :
         /\ Goto(r, pc)
         /\ pc \in {"dbUser", "dbToken", "recache"} => redis = None
         /\ pc \in {"dbToken", "recache"} => active = req[r].fam
         /\ pc \in {"rotate", "erase"} => redis.fam = req[r].fam
  <2>1. CASE AssertFromRedis(r)
    <3>1. Admitted(r) \in {"rotate", "erase", "done"}
      BY DEF Admitted
    <3> QED BY <1>4, <2>1, <3>1 DEF AssertFromRedis
  <2>2. CASE AssertUser(r)
    <3>1. redis = None
      BY <1>4, <2>2 DEF Turn, AssertUser, At
    <3> QED BY <2>2, <3>1 DEF AssertUser
  <2>3. CASE AssertToken(r)
    <3>1. redis = None /\ active = req[r].fam
      BY <1>4, <2>3 DEF Turn, AssertToken, At
    <3> QED BY <2>3, <3>1 DEF AssertToken
  <2> QED BY <2>1, <2>2, <2>3
<1>7. pc \in (Waiting \cup Ended) \ {"loginCommit", "revokeCommit", "promote"}
  BY DEF Waiting, Ended
<1> QED BY <1>1, <1>3, <1>4, <1>5, <1>6, <1>7, SoloMove

\* A token that is gone went with the account, and no family is alive without it.
LEMMA GoneIsDead ==
    ASSUME IInv, SoloInv, NEW t \in Tokens, Stored(t), tokens[t].state = "gone"
    PROVE  Known(tokens[t].fam) /\ ~Alive(tokens[t].fam)
<1>1. LiveTokens = {}
  BY DEF SoloInv, RowsAgree, GoneInv, IInv, DatabaseInv, ErasedInv
<1> QED BY <1>1 DEF Known, Alive, LiveTokens

\* findUnique and the snapshot of a revocation.
LEMMA SoloFind ==
    ASSUME OneAtATime, IInv, LineageInv, SoloInv, NEW r \in Requests, Find(r) \/ RevokeSnapshot(r)
    PROVE  SoloInv'
<1>1. ReadOnly(r) /\ UNCHANGED <<userExists, active, tokens, redis, redisReady>>
  BY ReadStep DEF Reads, Find, RevokeSnapshot, Cache, Database
<1>2. req[r].pc \in {"find", "revokeTx"} /\ req[r].pc \in Waiting
  BY DEF Find, RevokeSnapshot, At, Waiting
<1>3. InFlight \subseteq {r} /\ Turn(r) /\ redisReady /\ ~Abandoned(r)
  BY <1>2, Served
<1>4. Agree'
  <2>1. Agree
    BY <1>2, <1>3 DEF Turn, Calm
  <2> QED BY <1>1, <1>3, <2>1, AgreeKept DEF ReadOnly
<1>5. CASE Find(r)
  <2> PICK t : t = req[r].tok
    OBVIOUS
  <2>1. t \in Tokens /\ Stored(t)
    BY <1>5 DEF Find, At, IInv, RequestInv
  <2>2. PICK pc \in {"done", "failed", "revokeTx", "assert"} :
           /\ req' = [req EXCEPT ![r].pc = pc, ![r].fam = tokens[t].fam]
           /\ req[r].op = "logout" /\ pc = "done" => tokens[t].state = "gone"
    BY <1>5 DEF Find
  <2>3. req'[r].pc = pc /\ req'[r].fam = tokens[t].fam /\ req'[r].op = req[r].op
    BY <2>2 DEF IInv, TypeOK, RequestRecords
  <2>4. Turn(r)'
    BY <1>4, <2>3 DEF Turn
  <2>5. LogoutInv(r)'
    <3>1. CASE req[r].op = "logout" /\ pc = "done"
      <4> PICK g : g = tokens[t].fam
        OBVIOUS
      <4>1. Known(g) /\ ~Alive(g)
        BY <2>1, <2>2, <3>1, GoneIsDead
      <4>2. (\E s \in Tokens : Stored(s)' /\ tokens'[s].fam = g)
            /\ ~(\E s \in Tokens : Live(s)' /\ tokens'[s].fam = g)
        BY <1>1, <4>1 DEF Known, Alive, Stored, Live
      <4> QED BY <2>3, <4>2 DEF LogoutInv, Known, Alive
    <3>2. CASE ~(req[r].op = "logout" /\ pc = "done")
      BY <2>3, <3>2 DEF LogoutInv
    <3> QED BY <3>1, <3>2
  <2> QED BY <1>1, <1>3, <1>4, <2>4, <2>5, SoloRead
<1>6. CASE RevokeSnapshot(r)
  <2>1. /\ req'[r].pc = "revokeCommit" /\ req'[r].fam = req[r].fam
        /\ req'[r].victims = FamilyVictims(r)
    BY <1>6 DEF RevokeSnapshot, IInv, TypeOK, RequestRecords
  <2>2. \A t \in LiveTokens : tokens[t].fam = req[r].fam => t \in FamilyVictims(r)
    BY DEF FamilyVictims, FamilyTokens, LiveTokens, Live
  <2>3. Turn(r)'
    BY <1>1, <1>4, <2>1, <2>2 DEF Turn, LiveTokens, Live
  <2>4. LogoutInv(r)' /\ req'[r].pc \in Waiting
    BY <2>1 DEF LogoutInv, Waiting
  <2> QED BY <1>1, <1>3, <2>3, <2>4, SoloRead
<1> QED BY <1>5, <1>6

\* GET and DEL: what is left is no key, or the key of the active family.
LEMMA SoloDelete ==
    ASSUME OneAtATime, IInv, LineageInv, SoloInv, NEW r \in Requests,
           CompareGet(r) \/ CompareDel(r) \/ Wipe(r) \/ Crash(r) \/ QueryFails(r)
    PROVE  SoloInv'
<1>1. ReadOnly(r) /\ UNCHANGED <<userExists, active, tokens>>
  BY ReadStep DEF Reads, ReadOnly, Database
<1>2. req[r].pc \in Waiting
  BY DEF CompareGet, CompareDel, Wipe, Crash, QueryFails, AtQuery, At, Waiting
<1>3. InFlight \subseteq {r} /\ Turn(r) /\ redisReady /\ LogoutInv(r) /\ ~Abandoned(r)
  BY <1>2, Served
<1>4. AfterDelete(r) \in Ended /\ AfterDelete(r) \in {"done", "failed"}
  BY DEF AfterDelete, Ended
<1>5. {"del", "done", "failed", "crashed"}
         \subseteq (Waiting \cup Ended) \ {"loginCommit", "revokeCommit", "promote"}
      /\ "del" \notin Calm \cup Ended
  BY DEF Waiting, Ended, Calm
<1>6. req[r].op = "logout" /\ req[r].pc \in {"get", "del"} /\ req[r].fam # None
         => Known(req[r].fam) /\ ~Alive(req[r].fam)
  BY <1>3 DEF LogoutInv
<1>7. CASE CompareGet(r)
  <2>1. req[r].pc = "get" /\ UNCHANGED <<redis, redisReady>>
    BY <1>7 DEF CompareGet, At, Cache
  <2>2. CASE redis # None /\ redis.fam = req[r].fam
    <3>1. Goto(r, "del")
      BY <1>3, <1>7, <2>2 DEF CompareGet
    <3> QED BY <1>1, <1>2, <1>3, <1>5, <1>6, <2>1, <2>2, <3>1, SoloMove
  <2>3. CASE redis = None \/ redis.fam # req[r].fam
    <3>1. Goto(r, AfterDelete(r))
      BY <1>7, <2>3 DEF CompareGet
    <3>2. Agree'
      <4>1. Agree
        BY <1>3, <2>1, <2>3 DEF Turn, CachedOnly, Agree
      <4> QED BY <1>1, <1>3, <2>1, <4>1, AgreeKept DEF ReadOnly
    <3> QED BY <1>1, <1>2, <1>3, <1>4, <1>5, <1>6, <2>1, <3>1, <3>2, SoloMove DEF Ended
  <2> QED BY <2>2, <2>3
<1>8. CASE CompareDel(r)
  <2>1. redis' = None /\ redisReady' /\ Goto(r, AfterDelete(r)) /\ req[r].pc = "del"
    BY <1>3, <1>8 DEF CompareDel, At
  <2>2. Agree'
    BY <2>1, AgreeAfterDelete
  <2> QED BY <1>1, <1>2, <1>4, <1>5, <1>6, <2>1, <2>2, SoloMove DEF Ended
<1>9. CASE Wipe(r)
  <2>1. redis' = None /\ redisReady' /\ Goto(r, "done") /\ req[r].pc = "wipe"
    BY <1>3, <1>9 DEF Wipe, At
  <2>2. Agree' /\ req[r].op # "logout"
    BY <2>1, AgreeAfterDelete DEF IInv, RequestInv
  <2> QED BY <1>1, <1>2, <1>5, <2>1, <2>2, SoloMove DEF Ended
<1>10. CASE Crash(r)
  <2>1. Goto(r, "crashed") /\ UNCHANGED <<redis, redisReady>>
    BY <1>10 DEF Crash, Cache
  <2>2. Abandoned(r)' /\ req'[r].fam = req[r].fam
    BY <2>1, GotoFacts DEF IInv, Ended, Abandoned
  <2>3. Agree \/ redis = None \/ redis.fam = req[r].fam
    BY <1>2, <1>3 DEF Turn, CachedOnly, Calm, Waiting
  <2>4. Agree'
    <3>1. CASE Agree
      BY <1>1, <1>3, <2>1, <3>1, AgreeKept DEF ReadOnly
    <3>2. CASE redis = None \/ redis.fam = req[r].fam
      BY <2>1, <2>2, <3>2, AgreeAbandoned
    <3> QED BY <2>3, <3>1, <3>2
  <2> QED BY <1>1, <1>2, <1>3, <1>5, <2>1, <2>4, SoloMove DEF Ended
<1>11. CASE QueryFails(r)
  <2>1. Goto(r, "failed") /\ UNCHANGED <<redis, redisReady>> /\ req[r].pc \in AtQuery
    BY <1>11 DEF QueryFails, Cache
  <2>2. Agree
    BY <1>3, <2>1 DEF Turn, Calm, AtQuery
  <2>3. Agree'
    BY <1>1, <1>3, <2>1, <2>2, AgreeKept DEF ReadOnly
  <2> QED BY <1>1, <1>2, <1>3, <1>5, <2>1, <2>3, SoloMove DEF Ended
<1> QED BY <1>7, <1>8, <1>9, <1>10, <1>11

LEMMA SoloReads ==
    ASSUME OneAtATime, IInv, LineageInv, SoloInv, NEW r \in Requests, Reads(r)
    PROVE  SoloInv'
BY SoloArrive, SoloLogin, SoloPromote, SoloGuard, SoloFind, SoloDelete DEF Reads

\* The snapshot of a login alone on the rows reaches every live token.
LEMMA SoloLoginCommit ==
    ASSUME IInv, LineageInv, SoloInv, NEW r \in Requests, LoginCommit(r)
    PROVE  SoloInv'
<1>1. /\ req[r].pc = "loginCommit" /\ req[r].pc \in Waiting
      /\ UNCHANGED <<userExists, redis, redisReady>> /\ userExists
  BY DEF LoginCommit, At, Waiting, Cache
<1>2. InFlight \subseteq {r} /\ Turn(r) /\ redisReady /\ req[r].fam = r /\ req[r].op = "login"
  BY <1>1, Served DEF IInv, RequestInv
<1>3. /\ r \in Tokens /\ ~Stored(r) /\ active' = r /\ OnlyMoves(r)
      /\ Live(r)' /\ tokens'[r].fam = r
      /\ \A t \in Tokens \ {r} : tokens'[t].fam = tokens[t].fam /\ (Stored(t)' <=> Stored(t))
  BY LoginRows
<1>4. \A t \in Tokens \ {r} : ~Live(t)' /\ (tokens'[t].state = "gone" => tokens[t].state = "gone")
  <2> SUFFICES ASSUME NEW t \in Tokens \ {r}
               PROVE  ~Live(t)' /\ (tokens'[t].state = "gone" => tokens[t].state = "gone")
    OBVIOUS
  <2>1. tokens'[t] = IF t \in req[r].victims /\ Live(t)
                     THEN [tokens[t] EXCEPT !.state = "revoked"] ELSE tokens[t]
    BY DEF LoginCommit, Revoked
  <2>2. Live(t) => t \in req[r].victims
    BY <1>1, <1>2 DEF Turn, LiveTokens
  <2>3. tokens[t] \in TokenRecords
    BY DEF IInv, TypeOK
  <2> QED BY <2>1, <2>2, <2>3 DEF TokenRecords, Live
<1>5. PICK pc \in {"promote", "get"} : Goto(r, pc)
  BY DEF LoginCommit
<1>6. req'[r].pc = pc /\ req'[r].op = "login" /\ req'[r].fam = r /\ pc \in Waiting
  BY <1>2, <1>5, GotoFacts DEF IInv, Waiting
<1>7. redis # None => redis.fam = r
  BY <1>1, <1>2 DEF Turn, CachedOnly
<1>8. Turn(r)' /\ LogoutInv(r)'
  BY <1>1, <1>3, <1>6, <1>7 DEF Turn, LogoutInv, CachedOnly, Calm
<1>9. RowsAgree'
  <2>1. GoneInv'
    BY <1>1, <1>3, <1>4 DEF SoloInv, RowsAgree, GoneInv, Live
  <2>2. OnlyActiveFamilyLive'
    BY <1>3, <1>4 DEF OnlyActiveFamilyLive, LiveTokens
  <2>3. SupersededNotCached'
    BY <1>1, <1>3, <1>7 DEF SupersededNotCached
  <2> QED BY <2>1, <2>2, <2>3 DEF RowsAgree
<1>10. ASSUME NEW f, Known(f), ~Alive(f) PROVE Known(f)' /\ ~Alive(f)'
  <2>1. f # r
    BY <1>3, <1>10 DEF LineageInv, FounderInv, Known
  <2>2. Known(f)'
    BY <1>3, <1>10 DEF Known
  <2>3. ~Alive(f)'
    BY <1>3, <1>4, <2>1 DEF Alive
  <2> QED BY <2>2, <2>3
<1> QED BY <1>1, <1>2, <1>3, <1>6, <1>8, <1>9, <1>10, SoloStep

\* The rotated token was alive, so its family is the active one.
LEMMA SoloRotate ==
    ASSUME IInv, LineageInv, SoloInv, NEW r \in Requests, Rotate(r)
    PROVE  SoloInv'
<1> PICK p : p = req[r].tok
  OBVIOUS
<1>1. /\ req[r].pc = "rotate" /\ req[r].pc \in Waiting
      /\ UNCHANGED <<userExists, active, redis, redisReady>>
  BY DEF Rotate, At, Waiting, Cache
<1>2. InFlight \subseteq {r} /\ Turn(r) /\ redisReady /\ ~Abandoned(r)
  BY <1>1, Served
<1>3. req[r].op = "refresh" /\ p \in Tokens /\ Stored(p) /\ req[r].fam = tokens[p].fam
      /\ ~Stored(r) /\ r \in Tokens /\ p # r
  BY <1>1 DEF IInv, RequestInv, Creators, Ended, Tokens
<1>4. redis = None \/ redis.fam = req[r].fam
  BY <1>1, <1>2 DEF Turn, CachedOnly
<1>5. CASE ~Live(p)
  <2>1. Goto(r, "failed") /\ UNCHANGED Database
    BY <1>1, <1>5 DEF Rotate, NotYetRotated, Database
  <2>2. "failed" \in (Waiting \cup Ended) \ {"loginCommit", "revokeCommit", "promote"}
        /\ "failed" \in (Waiting \cup Ended) \ Revoking
    BY DEF Waiting, Ended, Revoking
  <2>3. ReadOnly(r)
    BY <2>1, <2>2, GotoReads
  <2>4. Agree'
    <3>1. Agree
      BY <1>1, <1>2 DEF Turn, Calm
    <3> QED BY <1>1, <1>2, <2>3, <3>1, AgreeKept DEF ReadOnly
  <2> QED BY <1>1, <1>2, <2>1, <2>2, <2>3, <2>4, SoloMove
<1>6. CASE Live(p)
  <2> PICK f : f = tokens[p].fam
    OBVIOUS
  <2>1. tokens' = [tokens EXCEPT ![p].state = "revoked", ![r] = NewToken(f, p)]
        /\ Committed(r, "promote")
    BY <1>3, <1>6 DEF Rotate, NotYetRotated
  <2>2. f = active
    BY <1>3, <1>6 DEF SoloInv, RowsAgree, OnlyActiveFamilyLive, LiveTokens
  <2>3. tokens \in [Tokens -> TokenRecords]
    BY DEF IInv, TypeOK
  <2>4. /\ tokens'[r].state = "live" /\ tokens'[r].fam = f
        /\ tokens'[p].state = "revoked" /\ tokens'[p].fam = f
        /\ \A t \in Tokens \ {r, p} : tokens'[t] = tokens[t]
    BY <1>3, <2>1, <2>3 DEF TokenRecords, NewToken
  <2>5. req'[r].pc \in {"promote", "lost"} /\ req'[r].op = "refresh" /\ req'[r].fam = f
        /\ OnlyMoves(r)
    BY <1>3, <2>1, GotoFacts DEF Committed, IInv, Waiting, Ended, OnlyMoves
  <2>6. Turn(r)' /\ LogoutInv(r)' /\ Agree'
    BY <1>1, <1>3, <1>4, <2>2, <2>5 DEF Turn, LogoutInv, CachedOnly, Calm, Agree
  <2>7. RowsAgree'
    <3>1. GoneInv'
      BY <1>1, <2>4 DEF SoloInv, RowsAgree, GoneInv
    <3>2. OnlyActiveFamilyLive'
      BY <1>1, <2>2, <2>4 DEF SoloInv, RowsAgree, OnlyActiveFamilyLive, LiveTokens, Live
    <3>3. SupersededNotCached'
      BY <1>1, <1>3, <1>4, <2>2 DEF SupersededNotCached
    <3> QED BY <3>1, <3>2, <3>3 DEF RowsAgree
  <2>8. ASSUME NEW g, Known(g), ~Alive(g) PROVE Known(g)' /\ ~Alive(g)'
    <3>1. g # f
      BY <1>3, <1>6, <2>8 DEF Alive
    <3> QED BY <1>3, <2>4, <2>8, <3>1 DEF Known, Alive, Stored, Live
  <2> QED BY <1>1, <1>2, <2>5, <2>6, <2>7, <2>8, SoloStep
<1> QED BY <1>5, <1>6

\* The snapshot of a revocation alone on the rows reaches the whole family.
LEMMA SoloRevoke ==
    ASSUME IInv, LineageInv, SoloInv, NEW r \in Requests, RevokeCommit(r)
    PROVE  SoloInv'
<1> PICK f : f = req[r].fam
  OBVIOUS
<1>1. /\ req[r].pc = "revokeCommit" /\ req[r].pc \in Waiting
      /\ UNCHANGED <<userExists, redis, redisReady>> /\ Committed(r, "get")
  BY DEF RevokeCommit, At, Waiting, Cache
<1>2. InFlight \subseteq {r} /\ Turn(r) /\ redisReady /\ ~Abandoned(r)
  BY <1>1, Served
<1>3. Known(f)
  BY <1>1 DEF LineageInv, RevokingInv, Revoking
<1>4. OnlyMoves(r) /\ active' = (IF active = f THEN None ELSE active) /\ NoneAdded
  BY RevokeRows
<1>5. \A t \in Tokens : /\ Live(t)' => tokens[t].fam # f
                        /\ tokens'[t].state = "gone" => tokens[t].state = "gone"
  <2> SUFFICES ASSUME NEW t \in Tokens
               PROVE  /\ Live(t)' => tokens[t].fam # f
                      /\ tokens'[t].state = "gone" => tokens[t].state = "gone"
    OBVIOUS
  <2>1. tokens'[t] = IF t \in req[r].victims /\ Live(t) /\ t \in FamilyTokens(f)
                     THEN [tokens[t] EXCEPT !.state = "revoked"] ELSE tokens[t]
    BY DEF RevokeCommit, Revoked
  <2>2. Live(t) /\ tokens[t].fam = f => t \in req[r].victims /\ t \in FamilyTokens(f)
    BY <1>1, <1>2 DEF Turn, LiveTokens, Live, FamilyTokens
  <2>3. tokens[t] \in TokenRecords
    BY DEF IInv, TypeOK
  <2> QED BY <2>1, <2>2, <2>3 DEF TokenRecords, Live
<1>6. req'[r].pc \in {"get", "lost"} /\ req'[r].fam = f
  BY <1>1, GotoFacts DEF Committed, IInv, Waiting, Ended
<1>7. Agree' \/ redis' = None \/ redis'.fam = f
  <2>1. Agree
    BY <1>1, <1>2 DEF Turn, Calm
  <2>2. CASE active = f /\ CachedOnly(active)
    BY <1>1, <2>2 DEF CachedOnly
  <2>3. CASE Left(redis.fam)
    <3>1. PICK g : g = redis.fam
      OBVIOUS
    <3>2. \E q \in Requests : Abandoned(q)' /\ req'[q].fam = g
      BY <1>2, <1>4, <2>3, <3>1, LeftKept
    <3> QED BY <1>1, <3>1, <3>2 DEF Agree, Left, Abandoned
  <2>4. CASE active # f
    BY <1>1, <1>2, <1>4, <2>1, <2>4, AgreeKept
  <2> QED BY <2>1, <2>2, <2>3, <2>4 DEF Agree
<1>11. req'[r].pc \in Waiting => Turn(r)'
  BY <1>6, <1>7 DEF Turn, Calm, CachedOnly, Waiting
<1>12. req'[r].pc \notin Waiting => Agree'
  <2>1. req'[r].pc = "lost" => Abandoned(r)'
    BY DEF Abandoned
  <2> QED BY <1>6, <1>7, <2>1, AgreeAbandoned DEF Waiting
<1>8. LogoutInv(r)'
  <2>1. (\E t \in Tokens : Stored(t)' /\ tokens'[t].fam = f)
        /\ ~(\E t \in Tokens : Live(t)' /\ tokens'[t].fam = f)
    BY <1>3, <1>4, <1>5 DEF NoneAdded, Known
  <2> QED BY <1>6, <2>1 DEF LogoutInv, Known, Alive
<1>9. RowsAgree'
  <2>1. GoneInv'
    BY <1>1, <1>5 DEF SoloInv, RowsAgree, GoneInv
  <2>2. OnlyActiveFamilyLive'
    <3> SUFFICES ASSUME NEW t \in Tokens, Live(t)' PROVE tokens'[t].fam = active'
      BY DEF OnlyActiveFamilyLive, LiveTokens
    <3>1. Live(t) /\ tokens'[t].fam = tokens[t].fam /\ tokens[t].fam # f
      BY <1>4, <1>5 DEF NoneAdded
    <3>2. tokens[t].fam = active
      BY <3>1 DEF SoloInv, RowsAgree, OnlyActiveFamilyLive, LiveTokens
    <3> QED BY <1>4, <3>1, <3>2
  <2>3. SupersededNotCached'
    BY <1>1, <1>4 DEF SoloInv, RowsAgree, SupersededNotCached, FamilyTokens, NoneAdded, Stored
  <2> QED BY <2>1, <2>2, <2>3 DEF RowsAgree
<1>10. \A g : Known(g) /\ ~Alive(g) => Known(g)' /\ ~Alive(g)'
  BY <1>4, DeadKept
<1> QED BY <1>1, <1>2, <1>4, <1>8, <1>9, <1>10, <1>11, <1>12, SoloStep

LEMMA SoloErase ==
    ASSUME IInv, LineageInv, SoloInv, NEW r \in Requests, Erase(r)
    PROVE  SoloInv'
<1>1. /\ req[r].pc = "erase" /\ req[r].pc \in Waiting
      /\ UNCHANGED <<redis, redisReady>> /\ ~userExists' /\ active' = None
  BY DEF Erase, At, Waiting, Cache
<1>2. InFlight \subseteq {r} /\ Turn(r) /\ redisReady /\ ~Abandoned(r)
      /\ req[r].op = "delete"
  BY <1>1, Served DEF IInv, RequestInv
<1>3. CASE userExists
  <2>1. Committed(r, "wipe")
    BY <1>3 DEF Erase
  <2>2. req'[r].pc \in {"wipe", "lost"} /\ req'[r].op = "delete" /\ req'[r].fam = req[r].fam
    BY <1>2, <2>1, GotoFacts DEF Committed, IInv, Waiting, Ended
  <2>3. OnlyMoves(r) /\ NoneAdded /\ \A t \in Tokens : ~Live(t)'
    BY EraseRows
  <2>4. redis' = None \/ redis'.fam = req[r].fam
    BY <1>1, <1>2 DEF Turn, CachedOnly
  <2>7. Turn(r)' /\ LogoutInv(r)'
    BY <2>2, <2>4 DEF Turn, LogoutInv, Calm, CachedOnly
  <2>8. req'[r].pc \notin Waiting => Agree'
    <3>1. req'[r].pc = "lost" => Abandoned(r)'
      BY DEF Abandoned
    <3> QED BY <2>2, <2>4, <3>1, AgreeAbandoned DEF Waiting
  <2>5. RowsAgree'
    BY <1>1, <2>3
    DEF RowsAgree, GoneInv, OnlyActiveFamilyLive, LiveTokens, SupersededNotCached
  <2>6. \A g : Known(g) /\ ~Alive(g) => Known(g)' /\ ~Alive(g)'
    BY <2>3, DeadKept
  <2> QED BY <1>1, <1>2, <2>3, <2>5, <2>6, <2>7, <2>8, SoloStep
<1>4. CASE ~userExists
  <2>1. Goto(r, "failed") /\ UNCHANGED Database
    BY <1>1, <1>4 DEF Erase, Database, IInv, TypeOK, DatabaseInv, ErasedInv
  <2>2. "failed" \in (Waiting \cup Ended) \ {"loginCommit", "revokeCommit", "promote"}
        /\ "failed" \in (Waiting \cup Ended) \ Revoking
    BY DEF Waiting, Ended, Revoking
  <2>3. ReadOnly(r)
    BY <2>1, <2>2, GotoReads
  <2>4. Agree'
    <3>1. Agree
      BY <1>1, <1>2 DEF Turn, Calm
    <3> QED BY <1>1, <1>2, <2>1, <2>3, <3>1, AgreeKept DEF ReadOnly, Database
  <2> QED BY <1>1, <1>2, <2>1, <2>2, <2>3, <2>4, SoloMove
<1> QED BY <1>3, <1>4

\* Redis and the clock, while no request moves.
LEMMA SoloQuiet ==
    ASSUME SoloInv, UNCHANGED <<active, req>>, NoneAdded, GoneInv', redisReady',
           redis' \in {None, redis}
    PROVE  SoloInv'
<1>1. OnlyActiveFamilyLive'
  BY DEF SoloInv, RowsAgree, OnlyActiveFamilyLive, LiveTokens, NoneAdded
<1>2. SupersededNotCached'
  BY DEF SoloInv, RowsAgree, SupersededNotCached, FamilyTokens, NoneAdded, Stored
<1>3. Agree => Agree'
  BY DEF Agree, Left, Abandoned, CachedOnly
<1>4. InFlight' = InFlight /\ LiveTokens' \subseteq LiveTokens
  BY DEF InFlight, LiveTokens, NoneAdded
<1>5. ASSUME NEW r \in Requests, Turn(r) PROVE Turn(r)'
  BY <1>3, <1>4, <1>5 DEF Turn, CachedOnly, NoneAdded, LiveTokens
<1>6. ASSUME NEW r \in Requests, LogoutInv(r) PROVE LogoutInv(r)'
  BY <1>6 DEF LogoutInv, Known, Alive, NoneAdded
<1>7. OneServed'
  BY <1>4 DEF SoloInv, OneServed
<1>8. InFlight \subseteq Requests
  BY DEF InFlight
<1> QED BY <1>1, <1>2, <1>3, <1>4, <1>5, <1>6, <1>7, <1>8 DEF SoloInv, RowsAgree

LEMMA SoloNext == OneAtATime /\ IInv /\ LineageInv /\ SoloInv /\ [Next]_vars => SoloInv'
<1> SUFFICES ASSUME OneAtATime, IInv, LineageInv, SoloInv, [Next]_vars PROVE SoloInv'
  OBVIOUS
<1>1. CASE \E r \in Requests : Reads(r) \/ Writes(r)
  BY <1>1, SoloReads, SoloLoginCommit, SoloRotate, SoloRevoke, SoloErase DEF Writes
<1>2. CASE Elsewhere
  <2>1. UNCHANGED Database /\ UNCHANGED req
    BY <1>2, ElsewhereFacts
  <2>2. redis' \in {None, redis} /\ redisReady'
    BY <1>2 DEF SoloInv, OneAtATime, Elsewhere, RedisOutage, RedisBack, PendingExpires,
                KeyEvicted, vars
  <2>3. NoneAdded /\ GoneInv'
    BY <2>1 DEF Database, NoneAdded, SoloInv, RowsAgree, GoneInv, Stored, Live
  <2> QED BY <2>1, <2>2, <2>3, SoloQuiet DEF Database
<1>3. ASSUME NEW x \in Tokens, TokenExpires(x) PROVE SoloInv'
  <2>1. NoneAdded /\ UNCHANGED <<active, req>>
    BY <1>3, ExpireRows
  <2>2. UNCHANGED <<userExists, redis, redisReady>>
    BY <1>3 DEF TokenExpires, Cache
  <2>3. \A t \in Tokens : tokens'[t].state = tokens[t].state
    BY <1>3 DEF TokenExpires, IInv, TypeOK, TokenRecords
  <2>4. GoneInv' /\ redisReady'
    BY <2>2, <2>3 DEF SoloInv, RowsAgree, GoneInv
  <2> QED BY <2>1, <2>2, <2>4, SoloQuiet
<1> QED BY <1>1, <1>2, <1>3, Steps

LEMMA SoloInvariance == OneAtATime => (Spec => []SoloInv)
<1>1. CASE OneAtATime
  <2>1. IInv /\ LineageInv /\ SoloInv /\ [Next]_vars => SoloInv'
    BY <1>1, SoloNext
  <2> QED BY <2>1, SoloInit, Invariance, LineageInvariance, PTL DEF Spec
<1> QED BY <1>1

\* Served one request at a time, every login revokes the refresh tokens of all other
\* families (activateLoginSession), whatever crashes and database errors came before.
THEOREM SingleDevice == OneAtATime => (Spec => []OnlyActiveFamilyLive)
<1>1. SoloInv => OnlyActiveFamilyLive
  BY DEF SoloInv, RowsAgree
<1> QED BY SoloInvariance, <1>1, PTL

\* Served one request at a time, Redis never names a family a completed login superseded.
THEOREM CacheFollowsLogin == OneAtATime => (Spec => []SupersededNotCached)
<1>1. SoloInv => SupersededNotCached
  BY DEF SoloInv, RowsAgree
<1> QED BY SoloInvariance, <1>1, PTL

\* Served one request at a time, a disagreement between the active-session key and
\* users.activeRefreshFamilyId that outlives the request names a family that an abandoned
\* handler (process stopped, or a kept COMMIT that threw) was dealing with.
THEOREM QuietStoresAgree == OneAtATime => (Spec => []QuietAgreement)
<1>1. SoloInv => QuietAgreement
  BY DEF SoloInv, QuietAgreement, Agree, Left, CachedOnly
<1> QED BY SoloInvariance, <1>1, PTL

\* Served one request at a time, a logout that has answered leaves no live token of its
\* family, and no later login or rotation brings one back.
THEOREM LogoutIsFinal == OneAtATime => (Spec => []RevokedFamilyIsDead)
<1>1. SoloInv => RevokedFamilyIsDead
  BY DEF SoloInv, LogoutInv, RevokedFamilyIsDead, Alive, LiveTokens
<1> QED BY SoloInvariance, <1>1, PTL
=============================================================================

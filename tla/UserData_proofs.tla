--------------------------- MODULE UserData_proofs ---------------------------
(***************************************************************************)
(* Theorems about Agreements, for any documents, versions, consents and    *)
(* any number of overlapping calls and guard checks; and about             *)
(* PlanResolution, for any subscriptions and any number of syncs.          *)
(***************************************************************************)
EXTENDS Agreements, PlanResolution, WellFoundedInduction, TLAPS

-----------------------------------------------------------------------------
(* Agreements                                                              *)

CallStates ==
    [pc : {"idle", "commit", "done", "guard", "admitted", "refused"},
     docs : SUBSET Documents, agreed : BOOLEAN]

Typed ==
    /\ effective \subseteq Documents
    /\ consent \in [Documents -> Consents]
    /\ call \in [Calls -> CallStates]

\* What a call may withdraw, and what the guard asks about.
WithdrawsOptional(c) ==
    call[c].pc = "commit" /\ ~call[c].agreed => call[c].docs \cap Required = {}
AsksRequired(c) == call[c].pc \in {"guard", "admitted"} => call[c].docs \subseteq Required

\* The invariant: a required document is never withdrawn, so a consent the guard has
\* seen cannot go while the call it admitted is under way.
Consistent ==
    /\ Typed
    /\ \A c \in Calls : WithdrawsOptional(c) /\ AsksRequired(c)
    /\ AdmittedHasAgreed

LEMMA ConsistentInit == AgreementsInit => Consistent
<1> SUFFICES ASSUME AgreementsInit PROVE Consistent OBVIOUS
<1>1. Typed BY DEF AgreementsInit, Typed, Consents, CallStates, CallIdle
<1>2. \A c \in Calls : call[c].pc = "idle" BY DEF AgreementsInit, CallIdle
<1> QED BY <1>1, <1>2 DEF Consistent, WithdrawsOptional, AsksRequired, AdmittedHasAgreed

LEMMA GotoFacts ==
    ASSUME Typed, NEW c \in Calls, NEW pc, NEW docs, NEW agreed, Goto(c, pc, docs, agreed)
    PROVE  /\ call'[c].pc = pc /\ call'[c].docs = docs /\ call'[c].agreed = agreed
           /\ \A o \in Calls \ {c} : call'[o] = call[o]
           /\ [pc |-> pc, docs |-> docs, agreed |-> agreed] \in CallStates
                => call' \in [Calls -> CallStates]
BY DEF Typed, Goto

LEMMA ActiveDocuments == Typed => Active \subseteq Documents
BY DEF Typed, Active

\* A step of one call that writes no consent.
LEMMA ConsistentCall ==
    ASSUME Consistent, NEW c \in Calls, UNCHANGED <<consent, effective>>,
           call' \in [Calls -> CallStates], \A o \in Calls \ {c} : call'[o] = call[o],
           WithdrawsOptional(c)', AsksRequired(c)',
           call'[c].pc = "admitted" => \A d \in call'[c].docs : consent[d] = "agreed"
    PROVE  Consistent'
<1>1. Typed' BY DEF Consistent, Typed
<1>2. ASSUME NEW o \in Calls PROVE WithdrawsOptional(o)' /\ AsksRequired(o)'
  <2>1. CASE o = c BY <2>1
  <2>2. CASE o # c BY <2>2 DEF Consistent, WithdrawsOptional, AsksRequired
  <2> QED BY <2>1, <2>2
<1>3. AdmittedHasAgreed'
  <2> SUFFICES ASSUME NEW o \in Calls, call'[o].pc = "admitted", NEW d \in call'[o].docs
               PROVE  consent[d] = "agreed"
    BY DEF AdmittedHasAgreed
  <2>1. CASE o = c BY <2>1
  <2>2. CASE o # c BY <2>2 DEF Consistent, AdmittedHasAgreed
  <2> QED BY <2>1, <2>2
<1> QED BY <1>1, <1>2, <1>3 DEF Consistent

\* What a transaction does to a consent: a required document can only become agreed.
LEMMA CommitFacts ==
    ASSUME Consistent, NEW c \in Calls, Commit(c)
    PROVE  /\ consent' \in [Documents -> Consents]
           /\ \A d \in Documents \cap Required : consent[d] = "agreed" => consent'[d] = "agreed"
           /\ UNCHANGED <<effective, retired>>
           /\ call' \in [Calls -> CallStates] /\ call'[c].pc = "done"
           /\ \A o \in Calls \ {c} : call'[o] = call[o]
<1>1. Typed /\ WithdrawsOptional(c) /\ call[c].pc = "commit" BY DEF Consistent, Commit
<1>2. Goto(c, "done", {}, TRUE) /\ UNCHANGED <<effective, retired>> BY DEF Commit, Published
<1>3. [pc |-> "done", docs |-> {}, agreed |-> TRUE] \in CallStates BY DEF CallStates
<1>4. /\ call' \in [Calls -> CallStates] /\ call'[c].pc = "done"
      /\ \A o \in Calls \ {c} : call'[o] = call[o]
  BY <1>1, <1>2, <1>3, GotoFacts
<1>5. CASE UNCHANGED ConsentRows
  BY <1>1, <1>2, <1>4, <1>5 DEF ConsentRows, Typed
<1>6. CASE consent' = [d \in Documents |->
                IF d \notin call[c].docs THEN consent[d]
                ELSE IF call[c].agreed THEN "agreed" ELSE "withdrawn"]
  <2>1. consent' \in [Documents -> Consents] BY <1>1, <1>6 DEF Typed, Consents
  <2>2. \A d \in Documents \cap Required : consent[d] = "agreed" => consent'[d] = "agreed"
    BY <1>1, <1>6 DEF WithdrawsOptional
  <2> QED BY <1>2, <1>4, <2>1, <2>2
<1> QED BY <1>5, <1>6 DEF Commit

LEMMA ConsistentCommit ==
    ASSUME Consistent, NEW c \in Calls, Commit(c)
    PROVE  Consistent'
<1>1. Typed' BY CommitFacts DEF Consistent, Typed
<1>2. ASSUME NEW o \in Calls PROVE WithdrawsOptional(o)' /\ AsksRequired(o)'
  <2>1. CASE o = c BY <2>1, CommitFacts DEF WithdrawsOptional, AsksRequired
  <2>2. CASE o # c
    <3>1. call'[o] = call[o] BY <2>2, CommitFacts
    <3> QED BY <3>1 DEF Consistent, WithdrawsOptional, AsksRequired
  <2> QED BY <2>1, <2>2
<1>3. AdmittedHasAgreed'
  <2> SUFFICES ASSUME NEW o \in Calls, call'[o].pc = "admitted", NEW d \in call'[o].docs
               PROVE  consent'[d] = "agreed"
    BY DEF AdmittedHasAgreed
  <2>1. o # c BY CommitFacts
  <2>2. call'[o] = call[o] BY <2>1, CommitFacts
  <2>3. d \in Documents \cap Required /\ consent[d] = "agreed"
    BY <2>2 DEF Consistent, Typed, CallStates, AsksRequired, AdmittedHasAgreed
  <2> QED BY <2>3, CommitFacts
<1> QED BY <1>1, <1>2, <1>3 DEF Consistent

LEMMA ConsistentNext == Consistent /\ [AgreementsNext]_agreementsVars => Consistent'
<1> SUFFICES ASSUME Consistent, [AgreementsNext]_agreementsVars PROVE Consistent' OBVIOUS
<1>0. Typed /\ Active \subseteq Documents BY ActiveDocuments DEF Consistent
<1>1. CASE UNCHANGED agreementsVars
  BY <1>1 DEF agreementsVars, Consistent, Typed, WithdrawsOptional, AsksRequired, AdmittedHasAgreed
<1>2. ASSUME NEW c \in Calls, Agree(c) PROVE Consistent'
  <2>1. PICK docs \in SUBSET Active : Goto(c, "commit", docs, TRUE) BY <1>2 DEF Agree
  <2>2. [pc |-> "commit", docs |-> docs, agreed |-> TRUE] \in CallStates BY <1>0, <2>1 DEF CallStates
  <2>3. UNCHANGED <<consent, effective>> BY <1>2 DEF Agree, ConsentRows, Published
  <2>4. WithdrawsOptional(c)' /\ AsksRequired(c)' /\ call'[c].pc # "admitted"
    <3>1. call'[c].pc = "commit" /\ call'[c].agreed = TRUE BY <1>0, <2>1, GotoFacts
    <3> QED BY <3>1 DEF WithdrawsOptional, AsksRequired
  <2> QED BY <1>0, <2>1, <2>2, <2>3, <2>4, GotoFacts, ConsistentCall
<1>3. ASSUME NEW c \in Calls, UpdateConsent(c) PROVE Consistent'
  <2>1. PICK d \in Updatable, agreed \in BOOLEAN : Goto(c, "commit", {d}, agreed)
    BY <1>3 DEF UpdateConsent
  <2>2. d \in Documents /\ d \notin Required BY <1>0, <2>1 DEF Updatable
  <2>3. [pc |-> "commit", docs |-> {d}, agreed |-> agreed] \in CallStates
    BY <2>1, <2>2 DEF CallStates
  <2>4. UNCHANGED <<consent, effective>> BY <1>3 DEF UpdateConsent, ConsentRows, Published
  <2>5. WithdrawsOptional(c)' /\ AsksRequired(c)' /\ call'[c].pc # "admitted"
    <3>1. call'[c].pc = "commit" /\ call'[c].docs = {d} BY <1>0, <2>1, GotoFacts
    <3> QED BY <2>2, <3>1 DEF WithdrawsOptional, AsksRequired
  <2> QED BY <1>0, <2>1, <2>3, <2>4, <2>5, GotoFacts, ConsistentCall
<1>4. ASSUME NEW c \in Calls, GuardReadsDocuments(c) PROVE Consistent'
  <2> DEFINE docs == Active \cap Required
             pc == IF docs = {} THEN "admitted" ELSE "guard"
  <2>1. Goto(c, pc, docs, TRUE) BY <1>4 DEF GuardReadsDocuments
  <2>2. [pc |-> pc, docs |-> docs, agreed |-> TRUE] \in CallStates BY <1>0 DEF CallStates
  <2>3. UNCHANGED <<consent, effective>> BY <1>4 DEF GuardReadsDocuments, ConsentRows, Published
  <2>4. /\ pc \in {"admitted", "guard"} /\ docs \subseteq Required
        /\ pc = "admitted" => docs = {}
    OBVIOUS
  <2> HIDE DEF pc, docs
  <2>5. call'[c].pc = pc /\ call'[c].docs = docs BY <1>0, <2>1, GotoFacts
  <2>6. WithdrawsOptional(c)' /\ AsksRequired(c)' BY <2>4, <2>5 DEF WithdrawsOptional, AsksRequired
  <2>7. call'[c].pc = "admitted" => \A d \in call'[c].docs : consent[d] = "agreed" BY <2>4, <2>5
  <2> QED BY <1>0, <2>1, <2>2, <2>3, <2>6, <2>7, GotoFacts, ConsistentCall
<1>5. ASSUME NEW c \in Calls, GuardReadsConsents(c) PROVE Consistent'
  <2> DEFINE docs == call[c].docs
             pc == IF AllAgreed(c) THEN "admitted" ELSE "refused"
  <2>1. Goto(c, pc, docs, TRUE) /\ call[c].pc = "guard" BY <1>5 DEF GuardReadsConsents
  <2>2. [pc |-> pc, docs |-> docs, agreed |-> TRUE] \in CallStates BY <1>0 DEF CallStates, Typed
  <2>3. UNCHANGED <<consent, effective>> BY <1>5 DEF GuardReadsConsents, ConsentRows, Published
  <2>4. /\ pc \in {"admitted", "refused"} /\ docs \subseteq Required
        /\ pc = "admitted" => \A d \in docs : consent[d] = "agreed"
    BY <2>1 DEF Consistent, AsksRequired, AllAgreed
  <2> HIDE DEF pc, docs
  <2>5. call'[c].pc = pc /\ call'[c].docs = docs BY <1>0, <2>1, GotoFacts
  <2>6. WithdrawsOptional(c)' /\ AsksRequired(c)' BY <2>4, <2>5 DEF WithdrawsOptional, AsksRequired
  <2>7. call'[c].pc = "admitted" => \A d \in call'[c].docs : consent[d] = "agreed" BY <2>4, <2>5
  <2> QED BY <1>0, <2>1, <2>2, <2>3, <2>6, <2>7, GotoFacts, ConsistentCall
<1>6. ASSUME NEW d \in Documents, TakeEffect(d) \/ Retire(d) PROVE Consistent'
  <2>1. UNCHANGED <<consent, call>> /\ effective' \subseteq Documents
    BY <1>0, <1>6 DEF TakeEffect, Retire, ConsentRows, Typed
  <2> QED BY <2>1 DEF Consistent, Typed, WithdrawsOptional, AsksRequired, AdmittedHasAgreed
<1> QED BY <1>1, <1>2, <1>3, <1>4, <1>5, <1>6, ConsistentCommit DEF AgreementsNext

LEMMA ConsistentAlways == AgreementsSpec => []Consistent
BY ConsistentInit, ConsistentNext, PTL DEF AgreementsSpec

\* Whoever passed the guard has agreed to every document it asked about, and still has
\* when the call goes on, although documents and consents were read at different times.
THEOREM AdmittedHasAgreedHolds == AgreementsSpec => []AdmittedHasAgreed
<1>1. Consistent => AdmittedHasAgreed BY DEF Consistent
<1> QED BY <1>1, ConsistentAlways, PTL

\* A user who has accepted everything required loses access only when the active
\* documents change: no call of updateAgreementConsent takes it away.
THEOREM LockedOutHolds == AgreementsSpec => LockedOutOnlyByNewVersion
<1>1. ASSUME Consistent, [AgreementsNext]_agreementsVars, Accepted, Active' = Active PROVE Accepted'
  <2> SUFFICES ASSUME NEW d \in Active \cap Required PROVE consent'[d] = "agreed"
    BY <1>1 DEF Accepted
  <2>1. d \in Documents /\ consent[d] = "agreed"
    BY <1>1, ActiveDocuments DEF Consistent, Accepted
  <2>2. CASE \E c \in Calls : Commit(c) BY <1>1, <2>1, <2>2, CommitFacts
  <2>3. CASE UNCHANGED consent BY <2>1, <2>3
  <2>4. (\E c \in Calls : Commit(c)) \/ UNCHANGED consent
    BY <1>1 DEF agreementsVars, AgreementsNext, Agree, UpdateConsent, GuardReadsDocuments, GuardReadsConsents,
                TakeEffect, Retire, ConsentRows
  <2> QED BY <2>2, <2>3, <2>4
<1>2. Consistent /\ [AgreementsNext]_agreementsVars => (Accepted /\ ~Accepted' => Active' # Active) BY <1>1
<1> QED BY <1>2, ConsistentAlways, PTL DEF AgreementsSpec, LockedOutOnlyByNewVersion

\* The last event of a document is the state of its consent, for any overlap of calls.
THEOREM EventTrailHolds == AgreementsSpec => []EventTrail
<1>1. AgreementsInit => EventTrail BY DEF AgreementsInit, EventTrail
<1>2. ASSUME EventTrail, [AgreementsNext]_agreementsVars PROVE EventTrail'
  <2>1. CASE UNCHANGED <<consent, lastEvent>> BY <1>2, <2>1 DEF EventTrail
  <2>2. ASSUME NEW c \in Calls, Commit(c) PROVE EventTrail'
    BY <1>2, <2>2 DEF Commit, EventTrail, EventAction, ConsentRows
  <2>3. (\E c \in Calls : Commit(c)) \/ UNCHANGED <<consent, lastEvent>>
    BY <1>2 DEF agreementsVars, AgreementsNext, Agree, UpdateConsent, GuardReadsDocuments, GuardReadsConsents,
                TakeEffect, Retire, ConsentRows
  <2> QED BY <2>1, <2>2, <2>3
<1> QED BY <1>1, <1>2, PTL DEF AgreementsSpec

-----------------------------------------------------------------------------
(* The order of the subscriptions                                          *)

\* A set of natural numbers has a least one.
LEMMA LeastNatural ==
    ASSUME NEW T, T \subseteq Nat, T # {}
    PROVE  \E m \in T : \A k \in T : m <= k
<1>1. PICK R : R = OpToRel(<, Nat)
  OBVIOUS
<1>2. IsWellFoundedOn(R, Nat)
  BY <1>1, NatLessThanWellFounded
<1>3. \A x, y \in Nat : y < x => <<y, x>> \in R
  BY <1>1 DEF OpToRel
<1>4. PICK m \in T : \A k \in T : ~ (<<k, m>> \in R)
  BY <1>2, WFMin
<1>5. ASSUME NEW k \in T PROVE m <= k
  <2>1. ~(k < m) /\ k \in Nat /\ m \in Nat
    BY <1>3, <1>4
  <2> QED BY <2>1
<1> QED BY <1>4, <1>5

\* The place of a row in the order of the sort: smaller is earlier.
Weight(s) ==
    (CASE s.plan = "Premium" -> 0 [] s.plan = "Pro" -> MaxTime + 1 [] OTHER -> MaxTime + 1 + MaxTime + 1)
    + (IF s.expiresAt = Never THEN 0 ELSE MaxTime + 1 - s.expiresAt)

LEMMA WeightFacts ==
    ASSUME NEW a \in SubscriptionRows, NEW b \in SubscriptionRows
    PROVE  Weight(a) \in Nat /\ (Weight(a) <= Weight(b) => Precedes(a, b))
<1>1. /\ a.plan \in Plans /\ a.expiresAt \in (1..MaxTime) \cup {Never}
      /\ b.plan \in Plans /\ b.expiresAt \in (1..MaxTime) \cup {Never}
  BY DEF SubscriptionRows
<1>2. MaxTime \in Nat /\ Never \notin 1..MaxTime
  BY PlanAssumption
<1> PICK wa, wb : /\ wa = IF a.expiresAt = Never THEN 0 ELSE MaxTime + 1 - a.expiresAt
                  /\ wb = IF b.expiresAt = Never THEN 0 ELSE MaxTime + 1 - b.expiresAt
  OBVIOUS
<1>3. wa \in 0..MaxTime /\ wb \in 0..MaxTime
  BY <1>1, <1>2
<1>4. wa <= wb => a.expiresAt = Never \/ (b.expiresAt # Never /\ a.expiresAt >= b.expiresAt)
  BY <1>1, <1>2
<1>5. Weight(a) = wa + (CASE a.plan = "Premium" -> 0 [] a.plan = "Pro" -> MaxTime + 1
                        [] OTHER -> MaxTime + 1 + MaxTime + 1)
  BY <1>2, <1>3 DEF Weight
<1>6. Weight(b) = wb + (CASE b.plan = "Premium" -> 0 [] b.plan = "Pro" -> MaxTime + 1
                        [] OTHER -> MaxTime + 1 + MaxTime + 1)
  BY <1>2, <1>3 DEF Weight
<1> QED BY <1>1, <1>2, <1>3, <1>4, <1>5, <1>6 DEF Precedes, PlanRank, Plans

\* Among any rows one comes first.
LEMMA FirstExists ==
    ASSUME NEW E, E \subseteq SubscriptionRows, E # {}
    PROVE  \E s \in E : \A o \in E : Precedes(s, o)
<1> DEFINE T == {Weight(s) : s \in E}
<1>1. T \subseteq Nat /\ T # {}
  BY WeightFacts
<1>2. PICK m \in T : \A k \in T : m <= k
  BY <1>1, LeastNatural
<1>3. PICK s \in E : Weight(s) = m
  OBVIOUS
<1>4. ASSUME NEW o \in E PROVE Precedes(s, o)
  <2>1. Weight(s) <= Weight(o)
    BY <1>2, <1>3
  <2> QED BY <2>1, WeightFacts
<1> QED BY <1>4

-----------------------------------------------------------------------------
(* What resolvePlan returns                                                *)

\* What BestGranted chooses.
Best(p, t) ==
    /\ p = "Basic" \/ \E s \in CurrentRows : Grants(s, t) /\ s.plan = p
    /\ \A s \in CurrentRows : Grants(s, t) => PlanRank[s.plan] <= PlanRank[p]

LEMMA RankInjective ==
    \A p, q \in Plans : /\ PlanRank[p] \in 0..2 /\ (PlanRank[p] = 0 <=> p = "Basic")
                        /\ PlanRank[p] = PlanRank[q] => p = q
BY DEF Plans, PlanRank

\* There is one best plan.
LEMMA BestIsUnique ==
    ASSUME subs \in [Subscriptions -> SubscriptionRows], NEW t, NEW p \in Plans, Best(p, t)
    PROVE  BestGranted(t) = p
<1>1. BestGranted(t) \in Plans /\ Best(BestGranted(t), t)
  BY DEF BestGranted, Best
<1>2. \A s \in CurrentRows : s.plan \in Plans
  BY DEF CurrentRows, SubscriptionRows
<1> PICK q \in Plans : q = BestGranted(t) /\ Best(q, t)
  BY <1>1
<1>3. PlanRank[q] <= PlanRank[p] /\ PlanRank[p] <= PlanRank[q]
  BY <1>2, RankInjective DEF Best
<1> QED BY <1>3, RankInjective

\* The first of the sort is a best one: a status is entitled exactly when it is not blocked.
LEMMA ResolvedIsBest ==
    ASSUME subs \in [Subscriptions -> SubscriptionRows], NEW t
    PROVE  ResolvePlan(CurrentRows, t) \in Plans /\ Best(ResolvePlan(CurrentRows, t), t)
<1>1. CurrentRows \subseteq SubscriptionRows
  BY DEF CurrentRows
<1>2. \A s \in CurrentRows : s \in Entitled(CurrentRows, t) <=> Grants(s, t)
  BY <1>1, PlanAssumption DEF Entitled, Grants, EntitledStatuses, Blocked, SubscriptionRows, GoogleSubscriptionStatus
<1> PICK E : E = Entitled(CurrentRows, t)
  OBVIOUS
<1>3. E \subseteq CurrentRows /\ \A s \in CurrentRows : s \in E <=> Grants(s, t)
  BY <1>2 DEF Entitled
<1>4. CASE E = {}
  BY <1>3, <1>4 DEF Best, Plans, ResolvePlan
<1>5. CASE E # {}
  <2>1. \E s \in E : \A o \in E : Precedes(s, o)
    BY <1>1, <1>3, <1>5, FirstExists
  <2> PICK s : s = CHOOSE x \in E : \A o \in E : Precedes(x, o)
    OBVIOUS
  <2>2. s \in E /\ \A o \in E : Precedes(s, o)
    BY <2>1
  <2>3. s.plan \in Plans /\ \A o \in E : o.plan \in Plans
    BY <1>1, <1>3, <2>2 DEF SubscriptionRows
  <2>4. \A o \in E : PlanRank[o.plan] <= PlanRank[s.plan]
    BY <2>2, <2>3, RankInjective DEF Precedes
  <2>5. Best(s.plan, t)
    BY <1>3, <2>2, <2>4 DEF Best
  <2>6. ResolvePlan(CurrentRows, t) = s.plan
    BY <1>5 DEF ResolvePlan
  <2> QED BY <2>3, <2>5, <2>6
<1> QED BY <1>4, <1>5

\* The plan of the first entitled row of resolvePlan's sort is the best plan the
\* subscriptions grant, for any subscriptions, at any time and however rows tie.
THEOREM ResolvesTheBest ==
    ASSUME subs \in [Subscriptions -> SubscriptionRows], NEW t
    PROVE  ResolvePlan(CurrentRows, t) = BestGranted(t)
BY ResolvedIsBest, BestIsUnique

-----------------------------------------------------------------------------
(* users.plan and the overlapping syncs                                    *)

SyncStates == [pc : {"idle", "write"}, resolved : Plans]

\* The invariant: unless syncs overlapped there is at most one, and with no change since
\* it read, what it is about to write, or has written, is the best plan of that moment.
PlanInv ==
    /\ subs \in [Subscriptions -> SubscriptionRows]
    /\ sync \in [Syncs -> SyncStates] /\ plan \in Plans
    /\ ~overlapped => \A c, d \in Running : c = d
    /\ ~due /\ ~overlapped =>
          /\ \A c \in Running : Best(sync[c].resolved, resolvedAt)
          /\ Running = {} => Best(plan, resolvedAt)

LEMMA PlanInitInv == PlanInit => PlanInv
BY DEF PlanInit, PlanInv, SyncStates, SyncIdle, Plans, Running

LEMMA ChangeOrTickInv ==
    ASSUME PlanInv, Tick \/ \E x \in Subscriptions : Change(x) PROVE PlanInv'
<1>1. subs' \in [Subscriptions -> SubscriptionRows]
  BY DEF PlanInv, Change, Tick
<1>2. UNCHANGED <<plan, sync, overlapped, resolvedAt>> /\ (due' = TRUE \/ UNCHANGED <<due, subs>>)
  BY DEF Change, Tick
<1>3. Running' = Running
  BY <1>2 DEF Running
<1> QED BY <1>1, <1>2, <1>3 DEF PlanInv, Best, CurrentRows

LEMMA SyncReadInv ==
    ASSUME PlanInv, NEW c \in Syncs, SyncRead(c) PROVE PlanInv'
<1> PICK p : p = ResolvePlan(CurrentRows, now)
  OBVIOUS
<1>1. /\ subs' = subs /\ plan' = plan /\ resolvedAt' = now /\ overlapped' = (Running # {})
      /\ sync' = [sync EXCEPT ![c] = [pc |-> "write", resolved |-> p]]
  BY DEF SyncRead
<1>2. p \in Plans /\ Best(p, now)
  BY ResolvedIsBest DEF PlanInv
<1>3. /\ sync' \in [Syncs -> SyncStates] /\ sync'[c].pc = "write" /\ sync'[c].resolved = p
      /\ \A d \in Syncs \ {c} : sync'[d] = sync[d]
  BY <1>1, <1>2 DEF PlanInv, SyncStates
<1>4. Running' = Running \cup {c}
  BY <1>3 DEF Running
<1>5. Best(p, resolvedAt)'
  BY <1>1, <1>2 DEF Best, CurrentRows
<1> QED BY <1>1, <1>2, <1>3, <1>4, <1>5 DEF PlanInv

LEMMA SyncWriteInv ==
    ASSUME PlanInv, NEW c \in Syncs, SyncWrite(c) PROVE PlanInv'
<1>1. /\ UNCHANGED <<subs, overlapped, resolvedAt>> /\ c \in Running
      /\ sync' = [sync EXCEPT ![c] = SyncIdle]
      /\ (plan' = sync[c].resolved /\ due' = due) \/ (plan' = plan /\ due' = TRUE)
  BY DEF SyncWrite, NextPlan, Running
<1>2. /\ sync' \in [Syncs -> SyncStates] /\ sync'[c].pc = "idle" /\ plan' \in Plans
      /\ \A d \in Syncs \ {c} : sync'[d] = sync[d]
  BY <1>1 DEF PlanInv, SyncStates, SyncIdle, Plans
<1>3. Running' = Running \ {c}
  BY <1>2 DEF Running
<1>4. ~due' /\ ~overlapped => ~due /\ Best(plan', resolvedAt) /\ Running' = {}
  BY <1>1, <1>3 DEF PlanInv
<1> QED BY <1>1, <1>2, <1>3, <1>4 DEF PlanInv, Best, CurrentRows

LEMMA PlanNextInv == PlanInv /\ [PlanNext]_planVars => PlanInv'
<1> SUFFICES ASSUME PlanInv, [PlanNext]_planVars PROVE PlanInv'
  OBVIOUS
<1>1. CASE UNCHANGED planVars
  BY <1>1 DEF planVars, PlanInv, Best, CurrentRows, Running
<1> QED BY <1>1, ChangeOrTickInv, SyncReadInv, SyncWriteInv DEF PlanNext

\* users.plan is the best plan the subscriptions granted at the last sync, for any
\* number of subscriptions, changes and syncs, unless something changed since or two
\* syncs overlapped.
THEOREM PlanFollowsHolds == PlanSpec => []PlanFollowsSubscriptions
<1>1. PlanInv => PlanFollowsSubscriptions
  BY BestIsUnique DEF PlanInv, PlanFollowsSubscriptions
<1> QED BY <1>1, PlanInitInv, PlanNextInv, PTL DEF PlanSpec
=============================================================================

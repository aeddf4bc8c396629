----------------------------- MODULE Agreements -----------------------------
(***************************************************************************)
(* Terms and consents of ONE user: agreements.service.ts and the guard     *)
(* that keeps a user out until every required agreement is given.  Each    *)
(* call reads the active documents first and uses them later; documents    *)
(* are published and retired by hand, outside the code.                    *)
(***************************************************************************)
EXTENDS Naturals

CONSTANTS
    Documents,      \* agreement_documents, published or not yet
    DocType,        \* document -> its type
    Required,       \* the required documents
    EffectiveAt,    \* document -> when it takes effect, distinct within a type
    Calls           \* API calls and guard checks

VARIABLES
    effective,      \* documents with effectiveAt <= now
    retired,        \* documents with a retiredAt
    consent,        \* user_agreements: "none", "agreed", or "withdrawn" (withdrawnAt set)
    lastEvent,      \* the action of the latest user_agreement_events row
    call            \* where each call is and what it has read

agreementsVars == <<effective, retired, consent, lastEvent, call>>

Consents == {"none", "agreed", "withdrawn"}
CallIdle == [pc |-> "idle", docs |-> {}, agreed |-> TRUE]

AgreementsInit ==
    /\ effective \in SUBSET Documents /\ retired = {}
    /\ consent = [d \in Documents |-> "none"]
    /\ lastEvent = consent
    /\ call = [c \in Calls |-> CallIdle]

-----------------------------------------------------------------------------
OldestFirst == {d \in effective \ retired : \A e \in effective \ retired :
    DocType[e] = DocType[d] => EffectiveAt[d] <= EffectiveAt[e]} \* mutant of Active: asc for desc
\* findActiveAgreementDocuments: the latest of every type.
Active == {d \in effective \ retired : \A e \in effective \ retired :
    DocType[e] = DocType[d] => EffectiveAt[e] <= EffectiveAt[d]}

Goto(c, pc, docs, agreed) == call' = [call EXCEPT ![c] = [pc |-> pc, docs |-> docs, agreed |-> agreed]]
ConsentRows == <<consent, lastEvent>>
Published == <<effective, retired>>

\* agreeAgreements: any active documents; others are refused (AGREEMENTS_CHANGED).
Agree(c) ==
    /\ call[c].pc = "idle"
    /\ \E docs \in SUBSET Active \ {{}} : Goto(c, "commit", docs, TRUE)
    /\ UNCHANGED <<ConsentRows, Published>>

AnyActive == Active             \* mutant of Updatable: required ones too
\* updateAgreementConsent refuses required documents.
Updatable == Active \ Required

UpdateConsent(c) ==
    /\ call[c].pc = "idle"
    /\ \E d \in Updatable, agreed \in BOOLEAN : Goto(c, "commit", {d}, agreed)
    /\ UNCHANGED <<ConsentRows, Published>>

AlwaysAgreed(c) == "agreed"     \* mutant of EventAction: AGREED whatever was asked
EventAction(c) == IF call[c].agreed THEN "agreed" ELSE "withdrawn"

\* One transaction: for every document an upsert and an event; or an error, and neither.
Commit(c) ==
    /\ call[c].pc = "commit" /\ Goto(c, "done", {}, TRUE)
    /\ \/ /\ consent' = [d \in Documents |->
                IF d \notin call[c].docs THEN consent[d]
                ELSE IF call[c].agreed THEN "agreed" ELSE "withdrawn"]
          /\ lastEvent' = [d \in Documents |-> IF d \in call[c].docs THEN EventAction(c) ELSE lastEvent[d]]
       \/ UNCHANGED ConsentRows
    /\ UNCHANGED Published

\* The guard: hasAgreedAllRequiredAgreements reads the documents ...
GuardReadsDocuments(c) ==
    /\ call[c].pc = "idle"
    /\ Goto(c, IF Active \cap Required = {} THEN "admitted" ELSE "guard", Active \cap Required, TRUE)
    /\ UNCHANGED <<ConsentRows, Published>>

SomeAgreed(c) == \E d \in call[c].docs : consent[d] = "agreed" \* mutant of AllAgreed: some for every
AllAgreed(c) == \A d \in call[c].docs : consent[d] = "agreed"

\* ... and then the consents.
GuardReadsConsents(c) ==
    /\ call[c].pc = "guard"
    /\ Goto(c, IF AllAgreed(c) THEN "admitted" ELSE "refused", call[c].docs, TRUE)
    /\ UNCHANGED <<ConsentRows, Published>>

TakeEffect(d) ==
    /\ d \notin effective /\ effective' = effective \cup {d}
    /\ UNCHANGED <<retired, ConsentRows, call>>

Retire(d) ==
    /\ d \in effective \ retired /\ retired' = retired \cup {d}
    /\ UNCHANGED <<effective, ConsentRows, call>>

AgreementsNext ==
    \/ \E c \in Calls : Agree(c) \/ UpdateConsent(c) \/ Commit(c)
                        \/ GuardReadsDocuments(c) \/ GuardReadsConsents(c)
    \/ \E d \in Documents : TakeEffect(d) \/ Retire(d)

AgreementsSpec == AgreementsInit /\ [][AgreementsNext]_agreementsVars

-----------------------------------------------------------------------------
(* Properties                                                              *)

Accepted == \A d \in Active \cap Required : consent[d] = "agreed"

\* A user who has accepted everything required is locked out by a new version only,
\* never by what they or another call of theirs do.
LockedOutOnlyByNewVersion == [][Accepted /\ ~Accepted' => Active' # Active]_agreementsVars

\* Who passed the guard had agreed to every document that was required when it looked,
\* and still has, though it read documents and consents at different times.
AdmittedHasAgreed ==
    \A c \in Calls : call[c].pc = "admitted" => \A d \in call[c].docs : consent[d] = "agreed"

\* The event log agrees with the consents: its last entry for a document is the state
\* of the consent, across failed transactions and calls that overtake each other.
EventTrail == lastEvent = consent
=============================================================================

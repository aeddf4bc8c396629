----------------------------- MODULE MCUserData -----------------------------
(***************************************************************************)
(* Three components that share no row, checked side by side: a behaviour   *)
(* runs one of them (`part`) while the other two stay as they began, so    *)
(* that TLC explores the sum of their states instead of the product.  The  *)
(* properties are the components' own.                                     *)
(***************************************************************************)
EXTENDS PiiBackfill, Agreements, PlanResolution, TLC

VARIABLE part

\* Two versions of required terms, and of a marketing consent that is required from its
\* second version on.
TwoTypes == [d \in Documents |-> IF d \in {"terms1", "terms2"} THEN "terms" ELSE "marketing"]
TwoVersions == [d \in Documents |-> IF d \in {"terms1", "marketing1"} THEN 1 ELSE 2]

\* The rows of the time before encryption: a date or none, texts with and without the
\* prefix.
LegacyRows ==
    {[x \in Rows |->
        IF x \in Users THEN Legacy(None, Plain("a"), None)
        ELSE IF x \in People THEN Legacy(Plain(name), Plain("a"), birth)
        ELSE Legacy(Plain("a"), None, Plain(name))] :
        name \in {"a", "v1:c"}, birth \in {None, Plain("b")}}

\* A component that is not running: no rows, no documents, nothing bought.
NoRows == rows = [x \in Rows |-> None] /\ BackfillInit
NoDocuments == effective = {} /\ AgreementsInit
NothingBought ==
    subs = [x \in Subscriptions |-> [status |-> "ON_HOLD", expiresAt |-> Never, plan |-> "Pro"]] /\ PlanInit

Init ==
    \/ part = "backfill" /\ rows \in LegacyRows /\ BackfillInit /\ NoDocuments /\ NothingBought
    \/ part = "agreements" /\ NoRows /\ AgreementsInit /\ NothingBought
    \/ part = "plan" /\ NoRows /\ NoDocuments /\ PlanInit

Next ==
    \/ part = "backfill" /\ BackfillNext /\ UNCHANGED <<part, agreementsVars, planVars>>
    \/ part = "agreements" /\ AgreementsNext /\ UNCHANGED <<part, backfillVars, planVars>>
    \/ part = "plan" /\ PlanNext /\ UNCHANGED <<part, backfillVars, agreementsVars>>

Spec == Init /\ [][Next]_<<part, backfillVars, agreementsVars, planVars>>

Symmetry == Permutations(Calls) \cup Permutations(Syncs) \cup Permutations(Subscriptions)
=============================================================================

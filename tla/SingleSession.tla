----------------------------- MODULE SingleSession -----------------------------
(***************************************************************************)
(* What the database promises about one user's login: at most one family   *)
(* of refresh tokens is the active one, it can be refreshed, a family is   *)
(* opened once, and neither a dead family nor an earlier `active` comes    *)
(* back.  auth.service.ts is shown to implement it by AuthSession.         *)
(***************************************************************************)
CONSTANTS Families, None, First
VARIABLES active, family

sessionVars == <<active, family>>
FamilyStates == {"unborn", "alive", "dead"}
Born == {f \in Families : family[f] # "unborn"}

Init ==
    /\ active = First
    /\ family = [f \in Families |-> IF f = First THEN "alive" ELSE "unborn"]

\* A login opens a new family, makes it the active one and ends some older ones.
\* (The single-device policy would end all of them.)
Open(f) ==
    /\ family[f] = "unborn"
    /\ active' = f
    /\ family'[f] = "alive"
    /\ \A g \in Families \ {f} : family'[g] = family[g] \/ (g \in Born /\ family'[g] = "dead")
    /\ family' \in [Families -> FamilyStates]

\* A revocation deactivates the family, and ends it unless a rotation escaped.
Revoke(f) ==
    /\ f \in Born
    /\ active' = IF active = f THEN None ELSE active
    /\ family' \in {family, [family EXCEPT ![f] = "dead"]}

\* The account is deleted, and every family with it.
Erase ==
    /\ active' = None
    /\ family' = [f \in Families |-> IF f \in Born THEN "dead" ELSE "unborn"]

Next == (\E f \in Families : Open(f) \/ Revoke(f)) \/ Erase

Spec == Init /\ [][Next]_sessionVars

ActiveIsAlive == active # None => family[active] = "alive"
=============================================================================

----------------------------- MODULE MCContacts -----------------------------
(***************************************************************************)
(* Contacts on a small address book, for TLC.                              *)
(***************************************************************************)
EXTENDS Contacts, TLC

CONSTANTS p1, p2, r1, s1

\* Requests are interchangeable; rows named after them follow.
Symmetry == Permutations(Requests)

\* Initial address books: one of the two has a picture and a card, both have the same
\* number (they were imported), one record with any people, either type, with or
\* without the schedule.
MCInit ==
    /\ Init
    /\ person[p1].image # None /\ person[p1].cards # {} /\ person[p2].image = None
    /\ person[p2].cards = {} /\ \A p \in SeedPeople : person[p].phone = CHOOSE a \in Phones : TRUE
    /\ schedule[s1] = {p1}
MCSpec == MCInit /\ [][Next]_vars
=============================================================================

----------------------------- MODULE MCAuthSession -----------------------------
(* Small instances of AuthSession.  Requests are interchangeable.          *)
EXTENDS AuthSession, TLC

RequestSymmetry == Permutations(Requests)
=============================================================================

--------------------------- MODULE MCAuthSessions ---------------------------
(***************************************************************************)
(* Instances of AuthSessions for TLC.                                      *)
(***************************************************************************)
EXTENDS AuthSessions, FiniteSets, TLC

Symmetry == Permutations(Phones) \cup Permutations(Requests)

\* Accounts share no rows: a student or a member of staff, one in a behaviour.
OneAccount == Cardinality(accounts) <= 1

============================================================================

----------------------------- MODULE MCVoteLedger -----------------------------
(* An instance of VoteLedger for TLC. *)
EXTENDS VoteLedger

\* TLC starts from an empty ledger; Init allows any votes of an earlier life.
Fresh == votes = {} /\ Init

MCSpec == Fresh /\ [][Next]_vars
=============================================================================

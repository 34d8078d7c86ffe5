------------------------------ MODULE MCOutbox ------------------------------
(* Small instances of Outbox for TLC.                                      *)
EXTENDS Outbox, TLC

\* Ids are interchangeable: nothing compares them but equality.
Symmetry == Permutations(Posts)
=============================================================================

------------------------------ MODULE MCSpool ------------------------------
(* Model-checking instance of the durable spool. *)
EXTENDS Spool, TLC

\* Payloads are interchangeable in every action and every property.
Symmetry == Permutations(Payloads)
=============================================================================

------------------------------ MODULE MCTopics ------------------------------
(***************************************************************************)
(* Topics for TLC: the clients of an instance are interchangeable.         *)
(***************************************************************************)
EXTENDS Topics, TLC

ClientSymmetry == Permutations(Clients)

=============================================================================

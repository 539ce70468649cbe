------------------------------ MODULE MCGuards ------------------------------
(* Two clients of one prefix, two queries at a time.                       *)
EXTENDS Guards, TLC

CONSTANT prefix

OnePrefix == [c \in Clients |-> prefix]
Symmetry == Permutations(Clients) \cup Permutations(Queries)
=============================================================================

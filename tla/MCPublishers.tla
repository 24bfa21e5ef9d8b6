----------------------------- MODULE MCPublishers -----------------------------
(* Publishers.tla on small instances.                                      *)
EXTENDS Publishers, TLC

Symmetry == Permutations(Requests) \cup Permutations(Urls)
              \cup Permutations(Ids) \cup Permutations(Alts)
=============================================================================

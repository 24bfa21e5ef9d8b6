------------------------------ MODULE MCSoftware ------------------------------
(* Software.tla on small instances.                                        *)
EXTENDS Software, TLC

Symmetry == Permutations(Requests) \cup Permutations(Urls)
              \cup Permutations(Ids) \cup Permutations(Namespaces)
=============================================================================

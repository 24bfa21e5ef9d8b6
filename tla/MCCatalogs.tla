------------------------------ MODULE MCCatalogs ------------------------------
(* Catalogs.tla on small instances.                                        *)
EXTENDS Catalogs, TLC

Symmetry == Permutations(Requests) \cup Permutations(Urls)
              \cup Permutations(Ids)
=============================================================================

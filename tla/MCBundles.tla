------------------------------ MODULE MCBundles ------------------------------
(* Bundles.tla, and Software.tla in it, on small instances.                *)
EXTENDS Bundles, TLC

Symmetry == Permutations(Requests) \cup Permutations(Urls)
              \cup Permutations(Ids) \cup Permutations(Namespaces)
=============================================================================

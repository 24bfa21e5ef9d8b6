------------------------------ MODULE MCWebhooks ------------------------------
(* Webhooks.tla, and Publishers.tla in it, on small instances.             *)
EXTENDS Webhooks, TLC

Symmetry == Permutations(Requests) \cup Permutations(Urls)
              \cup Permutations(Ids) \cup Permutations(Alts)
=============================================================================

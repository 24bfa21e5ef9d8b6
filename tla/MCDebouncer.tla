----------------------------- MODULE MCDebouncer -----------------------------
(* Debouncer.tla on small instances: model values for the keys.            *)
EXTENDS Debouncer
=============================================================================

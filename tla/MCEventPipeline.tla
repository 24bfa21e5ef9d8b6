--------------------------- MODULE MCEventPipeline ---------------------------
(* EventPipeline.tla on small instances: model values for the sets.        *)
EXTENDS EventPipeline
=============================================================================

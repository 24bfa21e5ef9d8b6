------------------------------- MODULE MCTrail -------------------------------
(* EventPipeline.tla and EventFeed.tla side by side.  They share no state:  *)
(* in each initial state one of the two has gone away for good and cannot  *)
(* move, so every behaviour is one of the other.                           *)
EXTENDS EventPipeline, EventFeed

PipelineGone == Start("exited", MaxRestarts) /\ ~ debounced
FeedGone == FeedStart("down", MaxDowns) /\ ~ retention

TrailInit == \/ Init /\ FeedGone
             \/ FeedInit /\ PipelineGone

TrailNext == \/ Next /\ UNCHANGED feedVars
             \/ FeedNext /\ UNCHANGED vars

TrailSpec == /\ TrailInit
             /\ [][TrailNext]_<<vars, feedVars>>
             /\ Fairness
             /\ FeedFairness

\* The type invariants of both modules.
TrailTypeOK == TypeOK /\ FeedTypeOK
=============================================================================

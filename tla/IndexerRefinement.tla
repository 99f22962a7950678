------------------------- MODULE IndexerRefinement -------------------------
(***************************************************************************)
(* The indexer implements IndexService.  A caller that gives up on a full  *)
(* channel, a job in the channel and a job the worker has received but not *)
(* claimed are all "waiting"; a claimed job is "running" until the worker  *)
(* has recorded its outcome.                                               *)
(***************************************************************************)
EXTENDS Indexer

IsRunning == worker.pc \in {"build", "ready", "failed"}
RunningJob == IF IsRunning THEN worker.job ELSE NoJob

Waiting == {k \in Keys : Queued(k)} \ {RunningJob}
Indexed == {k \in Keys : Ready(k)}
Failed  == {k \in Keys : commits[k].state = "Failed"}

Service == INSTANCE IndexService WITH
             waiting <- Waiting, running <- RunningJob, indexed <- Indexed,
             failed <- Failed, Nothing <- NoJob

\* The tools see nothing but the promised service, whatever the interleaving of
\* callers, worker and retention: a commit is taken on once, indexed while nobody
\* else's build runs under its name, and never leaves a repository without index.
ImplementsService == Service!ServiceSpec
=============================================================================

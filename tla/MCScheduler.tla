---------------------------- MODULE MCScheduler ----------------------------
(* Pipelines for TLC: a chain base_ -> lib -> test that also waits for a    *)
(* lint, and the same with lint forked off the base and an independent docs. *)
EXTENDS Scheduler

CONSTANTS base_, lib, test, lint, docs

ChainBuildsIn == {<<base_, lib>>, <<lib, test>>}
ChainDependsOn == {<<lint, test>>}

ForkBuildsIn == {<<base_, lib>>, <<base_, lint>>, <<lib, test>>}
ForkDependsOn == {<<docs, test>>}

=============================================================================

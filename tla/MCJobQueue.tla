----------------------------- MODULE MCJobQueue -----------------------------
(* JobQueue on small instances. *)
EXTENDS JobQueue, TLC

CONSTANTS w1, w2, c1, c2

OneClient  == {c1}
TwoClients == {c1, c2}
MCWorkers  == {w1, w2}
OneJob     == {1}
TwoJobs    == {1, 2}

\* One stage stands for the three that enrichment reports; AllStages has all.
OneStage  == <<"Summarizing">>
AllStages == <<"Diarizing", "Summarizing", "Saving">>

\* Workers are interchangeable, and so are clients; jobs are ordered.
Symmetry == Permutations(MCWorkers) \cup Permutations({c1, c2})
=============================================================================

------------------------ MODULE MCGarbageCollector ------------------------
EXTENDS GarbageCollector, TLC

CONSTANTS r1, r2

Symmetry == Permutations(Runs)

\* What follows after a live run was robbed is not explored: the run and its
\* records are no longer about the same machine.
UntilRobbed == robbed = {}

\* At most two of the three processes are in the middle of something.
TwoAtWork ==
  Cardinality({p \in Procs : proc[p].at \in Busy \cup {"list", "destroy"}}) <= 2

\* Runs meet through the names of their machines; where each machine has an
\* id of its own, and with firewall rules per run, one run shows all there is.
\* Two runs meet in their first attempts.
OneRunUnlessNamed ==
  \/ provider \in ByName /\ ~restrict /\ \A r \in Runs : proc[r].att <= 1
  \/ Cardinality({r \in Runs : proc[r].at # "idle"}) <= 1
=============================================================================

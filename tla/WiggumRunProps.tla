---------------------------- MODULE WiggumRunProps ----------------------------
(* What the loops of a Wiggum run promise.                                  *)
EXTENDS WiggumRun

\* The variables hold what the row, the table and the loops can hold.
TypeOK ==
    /\ status \in {"none", "pending", "running", "paused", "stopped",
                   "completed", "failed", "gone"}
    /\ current \in Nat /\ log \subseteq Iterations /\ startedAt \in Nat
    /\ deploys \in BOOLEAN /\ shows \in BOOLEAN
    /\ active \in {0} \cup Loops
    /\ stage \in [Loops -> {"idle", "over", "lost"} \cup Working]
    /\ at \in [Loops -> {0} \cup Iterations]
    /\ mine \in [Loops -> SUBSET Iterations]
    /\ aborted \in [Loops -> BOOLEAN]
    /\ restarts \in Nat
    /\ tried \subseteq Iterations /\ cut \subseteq {0} \cup Iterations
    /\ solo \in BOOLEAN

\* A row that says running, in the server that started it, has a loop at
\* work, also when the loops of several starts overlap and end in any order:
\* so it does not stay running for good.
RunningIsDriven ==
    status = "running" /\ startedAt = restarts => \E l \in Loops : stage[l] \in Working

\* A completed run has dispatched each of its iterations, however often it
\* was paused and resumed; without overlapping starts, its row lists every
\* one that a pause, a stop or a restart has not cut short.
CompletedCoversAll ==
    status = "completed" =>
        /\ Iterations \subseteq tried
        /\ solo => Iterations \subseteq log \cup cut
=============================================================================

------------------------------- MODULE WiggumRun -------------------------------
(***************************************************************************)
(* One Wiggum run (wiggum-controller.ts, routes/wiggum.ts): a row, and the   *)
(* loops that work on it, iteration by iteration.  A loop dispatches a       *)
(* harness session, polls its row, deploys, waits and takes a screenshot.    *)
(*                                                                         *)
(* Pause and stop write the row and abort the loop that activeRuns names,    *)
(* and a loop hears the abort only in its two sleeps, after a dispatch and   *)
(* between iterations.  A resume does not wait for the loop before it, so    *)
(* several may be at work on the row; the table names one of them at most.   *)
(***************************************************************************)
EXTENDS Naturals

CONSTANTS
    MaxIterations, \* the run's maxIterations
    MaxLoops,      \* bound on the starts of the run
    MaxRestarts    \* bound on the restarts of the main server

ASSUME BoundAssumption ==
    MaxIterations \in Nat /\ MaxLoops \in Nat /\ MaxRestarts \in Nat

Iterations == 1..MaxIterations
Loops == 1..MaxLoops

VARIABLES
    status,    \* the row's status; "none" before it is created, "gone" after
    current,   \* its currentIteration
    log,       \* its iterations, as the set of their numbers
    startedAt, \* its startedAt, as the number of restarts before it
    deploys,   \* has it a deployCommand?
    shows,     \* has it a widgetSessionId?
    active,    \* the loop activeRuns names, or 0
    stage,     \* stage[l]: what loop l awaits
    at,        \* at[l]: its iteration
    mine,      \* mine[l]: its copy of the iterations
    aborted,   \* aborted[l]: its AbortController's signal
    restarts,
    tried,     \* iterations dispatched so far (history)
    cut,       \* iterations a loop left unfinished (history)
    solo       \* no loop was ever started beside another (history)

row     == <<status, current, log, startedAt>>
plan    == <<deploys, shows>>
loopVars == <<active, stage, at, mine, aborted>>
history == <<tried, cut, solo>>
vars == <<row, plan, loopVars, restarts, history>>

Sleeping == {"poll", "delay"}
Working  == {"dispatch", "deploy", "shoot"} \cup Sleeping

Init ==
    /\ status = "none" /\ current = 0 /\ log = {} /\ startedAt = 0
    /\ deploys \in BOOLEAN /\ shows \in BOOLEAN
    /\ active = 0 /\ stage = [l \in Loops |-> "idle"]
    /\ at = [l \in Loops |-> 0] /\ mine = [l \in Loops |-> {}]
    /\ aborted = [l \in Loops |-> FALSE]
    /\ restarts = 0 /\ tried = {} /\ cut = {} /\ solo = TRUE

\* updateRun: nothing is updated when the row has been deleted.
Row(s) == IF status = "gone" THEN "gone" ELSE s

\* finally: the entry goes, whichever loop it names.
End(l) == active' = 0 /\ stage' = [stage EXCEPT ![l] = "over"]

(*************************** The loop of one start *************************)

EndIteration(l) ==
    /\ mine' = [mine EXCEPT ![l] = @ \cup {at[l]}]
    /\ log' = IF status = "gone" THEN log ELSE mine[l] \cup {at[l]}

\* Mutant: one iteration too many.
HeadOneMore(l, i, st, a) ==
    \/ /\ i > MaxIterations + 1
       /\ status' = IF st = "running" THEN "completed" ELSE st
       /\ End(l)
       /\ UNCHANGED <<current, at, tried>>
    \/ /\ i <= MaxIterations + 1 /\ aborted[l]
       /\ status' = IF st \in {"stopped", "gone"} THEN st ELSE "paused"
       /\ End(l)
       /\ UNCHANGED <<current, at, tried>>
    \/ /\ i <= MaxIterations + 1 /\ ~aborted[l]
       /\ current' = IF st = "gone" THEN current ELSE i
       /\ at' = [at EXCEPT ![l] = i]
       /\ tried' = tried \cup {i}
       /\ stage' = [stage EXCEPT ![l] = "dispatch"]
       /\ active' = a /\ status' = st

\* The head of the loop, and what follows it when the loop is left there; st
\* is the row's status by then, a the table's entry.
Head(l, i, st, a) ==
    \/ /\ i > MaxIterations
       /\ status' = IF st = "running" THEN "completed" ELSE st
       /\ End(l)
       /\ UNCHANGED <<current, at, tried>>
    \/ /\ i <= MaxIterations /\ aborted[l]
       /\ status' = IF st \in {"stopped", "gone"} THEN st ELSE "paused"
       /\ End(l)
       /\ UNCHANGED <<current, at, tried>>
    \/ /\ i <= MaxIterations /\ ~aborted[l]
       /\ current' = IF st = "gone" THEN current ELSE i
       /\ at' = [at EXCEPT ![l] = i]
       /\ tried' = tried \cup {i}
       /\ stage' = [stage EXCEPT ![l] = "dispatch"]
       /\ active' = a /\ status' = st

\* The catch block after an abort, and after any other error.
Caught(l) ==
    /\ status' = IF status \in {"stopped", "paused"} THEN status ELSE Row("paused")
    /\ End(l)
    /\ cut' = cut \cup {at[l]}

\* The launcher confirms the session; the poll looks at the signal first.
Dispatched(l) ==
    /\ stage[l] = "dispatch"
    /\ \/ /\ aborted[l]
          /\ Caught(l)
       \/ /\ ~aborted[l]
          /\ stage' = [stage EXCEPT ![l] = "poll"]
          /\ UNCHANGED <<status, active, cut>>
    /\ UNCHANGED <<current, log, startedAt, plan, at, mine, aborted, restarts, tried, solo>>

\* Mutant: an error ends the loop and leaves the row as it is.
FailUnrecorded(l) ==
    /\ stage[l] \in {"dispatch", "poll", "deploy"}
    /\ End(l)
    /\ cut' = cut \cup {at[l]}
    /\ UNCHANGED <<row, plan, at, mine, aborted, restarts, tried, solo>>

\* A launch, a poll that runs into its deadline (a killed session never ends
\* it) or misses its row, a deployment: each may throw.
Fail(l) ==
    /\ stage[l] \in {"dispatch", "poll", "deploy"}
    /\ status' = Row("failed")
    /\ End(l)
    /\ cut' = cut \cup {at[l]}
    /\ UNCHANGED <<current, log, startedAt, plan, at, mine, aborted, restarts, tried, solo>>

\* What the iteration awaits once s is over.
Following(s) ==
    CASE s = "poll" /\ deploys -> "deploy"
      [] s \in {"poll", "deploy"} /\ shows /\ (s = "deploy" \/ ~deploys) -> "delay"
      [] s = "delay" -> "shoot"
      [] OTHER -> "none"

\* The session has ended, the deployment is over, the delay has passed.
Proceed(l) ==
    /\ stage[l] \in Working \ {"dispatch"}
    /\ Following(stage[l]) # "none"
    /\ stage' = [stage EXCEPT ![l] = Following(stage[l])]
    /\ UNCHANGED <<row, plan, active, at, mine, aborted, restarts, history>>

\* The iteration is over: it is recorded and the loop goes round.
GoRound(l) ==
    /\ stage[l] \in Working \ {"dispatch"}
    /\ Following(stage[l]) = "none"
    /\ EndIteration(l)
    /\ Head(l, at[l] + 1, status, active)
    /\ UNCHANGED <<startedAt, plan, aborted, restarts, cut, solo>>

(************************** Requests of the operator ***********************)

\* Mutant: a resumed loop begins with an empty list of iterations.
StartFresh(l) ==
    /\ stage[l] = "idle" /\ \A k \in 1..(l - 1) : stage[k] # "idle"
    /\ startedAt' = restarts
    /\ mine' = [mine EXCEPT ![l] = {}]
    /\ Head(l, current + 1, "running", l)
    /\ solo' = (solo /\ \A k \in Loops : stage[k] \notin Working)
    /\ UNCHANGED <<log, plan, aborted, restarts, cut>>

\* startWiggumRun up to its first await.
Start(l) ==
    /\ stage[l] = "idle" /\ \A k \in 1..(l - 1) : stage[k] # "idle"
    /\ startedAt' = restarts
    /\ mine' = [mine EXCEPT ![l] = log]
    /\ Head(l, current + 1, "running", l)
    /\ solo' = (solo /\ \A k \in Loops : stage[k] \notin Working)
    /\ UNCHANGED <<log, plan, aborted, restarts, cut>>

Create == \E l \in Loops : status = "none" /\ Start(l)

\* The harness or its launcher is not there: the row stays as it was created.
CreateRefused ==
    /\ status = "none"
    /\ status' = "pending"
    /\ UNCHANGED <<current, log, startedAt, plan, loopVars, restarts, history>>

Resume == \E l \in Loops : status = "paused" /\ Start(l)

\* abort(): a loop that sleeps wakes, finds the row the caller has written
\* and returns.
Abort ==
    \/ /\ active = 0
       /\ UNCHANGED <<active, stage, aborted, cut>>
    \/ /\ active # 0
       /\ aborted' = [aborted EXCEPT ![active] = TRUE]
       /\ \/ /\ stage[active] \in Sleeping /\ ~aborted[active]
             /\ End(active)
             /\ cut' = cut \cup {at[active]}
          \/ /\ stage[active] \notin Sleeping \/ aborted[active]
             /\ UNCHANGED <<active, stage, cut>>

\* The batch route asks for no status.
Pause ==
    /\ active # 0
    /\ status' = Row("paused")
    /\ Abort
    /\ UNCHANGED <<current, log, startedAt, plan, at, mine, restarts, tried, solo>>

Stop ==
    /\ status # "none"
    /\ status' = Row("stopped")
    /\ Abort
    /\ UNCHANGED <<current, log, startedAt, plan, at, mine, restarts, tried, solo>>

\* A run is stopped before it is deleted if its row says that it is active.
Delete ==
    /\ status \notin {"none", "gone"}
    /\ status' = "gone"
    /\ \/ status \in {"running", "paused"} /\ Abort
       \/ status \notin {"running", "paused"} /\ UNCHANGED <<active, stage, aborted, cut>>
    /\ UNCHANGED <<current, log, startedAt, plan, at, mine, restarts, tried, solo>>

\* The loops and the table are gone; nothing looks at the rows again.
Restart ==
    /\ restarts < MaxRestarts
    /\ restarts' = restarts + 1
    /\ active' = 0
    /\ stage' = [l \in Loops |-> IF stage[l] \in Working THEN "lost" ELSE stage[l]]
    /\ cut' = cut \cup {at[l] : l \in {k \in Loops : stage[k] \in Working}}
    /\ UNCHANGED <<row, plan, at, mine, aborted, tried, solo>>

LoopNext(l) == Dispatched(l) \/ Fail(l) \/ Proceed(l) \/ GoRound(l)
Next ==
    \/ \E l \in Loops : LoopNext(l)
    \/ Create \/ CreateRefused \/ Resume \/ Pause \/ Stop \/ Delete \/ Restart

Spec == Init /\ [][Next]_vars
=============================================================================

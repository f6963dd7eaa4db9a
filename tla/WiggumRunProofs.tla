---------------------------- MODULE WiggumRunProofs ----------------------------
(***************************************************************************)
(* RunningIsDriven and CompletedCoversAll, for any number of iterations,     *)
(* starts and restarts.  The first follows from the way a loop ends: each of *)
(* the five exits leaves a row that does not say running.  The second needs  *)
(* that every number up to the row's and up to any loop's iteration has been *)
(* dispatched, and, of a run whose starts never overlapped, that its one     *)
(* loop holds the row's list and the row's iteration.                        *)
(***************************************************************************)
EXTENDS WiggumRunProps, TLAPS

AtWork(l) == stage[l] \in Working

\* Iterations are taken one after another.
TriedPrefix ==
    /\ \A j \in Iterations : j <= current => j \in tried
    /\ \A l \in Loops : \A j \in Iterations : AtWork(l) /\ j <= at[l] => j \in tried

AtStarted == \A l \in Loops : AtWork(l) => at[l] \in Iterations

\* A run with one loop at a time, as long as its row exists.
SoleLoop ==
    solo /\ status # "gone" =>
        /\ \A k, l \in Loops : AtWork(k) /\ AtWork(l) => k = l
        /\ \A l \in Loops : AtWork(l) => mine[l] = log /\ at[l] = current
        /\ \A j \in Iterations : j < current => j \in log \cup cut
        /\ (\A l \in Loops : ~AtWork(l)) =>
               \A j \in Iterations : j <= current => j \in log \cup cut

IInv == /\ TypeOK
        /\ startedAt <= restarts
        /\ AtStarted
        /\ TriedPrefix
        /\ SoleLoop
        /\ RunningIsDriven
        /\ CompletedCoversAll

\* What an exit of loop l does to the loops: l is no longer at work.
LEMMA EndStops ==
    ASSUME TypeOK, NEW l \in Loops, End(l)
    PROVE  /\ active' = 0
           /\ stage' \in [Loops -> {"idle", "over", "lost"} \cup Working]
           /\ ~AtWork(l)'
           /\ \A k \in Loops : k # l => stage'[k] = stage[k]
BY DEF TypeOK, End, AtWork, Working, Sleeping, Loops

LEMMA Initially == Init => IInv
BY BoundAssumption DEF Init, IInv, TypeOK, AtStarted, TriedPrefix, SoleLoop,
    RunningIsDriven, CompletedCoversAll, AtWork, Working, Sleeping, Iterations, Loops

\* A loop that leaves its iteration unfinished disturbs nothing else.
LEMMA Leaving ==
    ASSUME IInv, NEW l \in Loops, AtWork(l), End(l), cut' = cut \cup {at[l]},
           status = "gone" => status' = "gone",
           UNCHANGED <<current, log, startedAt, at, mine, restarts, tried, solo>>
    PROVE  AtStarted' /\ TriedPrefix' /\ (startedAt <= restarts)' /\ SoleLoop'
<1>1. \A k \in Loops : AtWork(k)' => AtWork(k) /\ k # l
  BY EndStops DEF AtWork, IInv
<1>2. AtStarted' /\ TriedPrefix' /\ (startedAt <= restarts)'
  BY <1>1 DEF IInv, AtStarted, TriedPrefix
<1>3. SoleLoop'
  <2> SUFFICES ASSUME solo', status' # "gone" PROVE SoleLoop!2'
    BY DEF SoleLoop
  <2>1. solo /\ status # "gone"
    OBVIOUS
  <2>2. at[l] = current /\ \A k \in Loops : ~AtWork(k)'
    BY <1>1, <2>1 DEF IInv, SoleLoop
  <2>3. \A j \in Iterations : j < current => j \in log \cup cut
    BY <2>1 DEF IInv, SoleLoop
  <2>4. \A j \in Iterations : j <= current => j < current \/ j = current
    BY BoundAssumption DEF Iterations, IInv, TypeOK
  <2> QED BY <2>2, <2>3, <2>4
<1> QED BY <1>2, <1>3

LEMMA DispatchedKeeps ==
    ASSUME IInv, NEW l \in Loops, Dispatched(l) PROVE IInv'
<1> USE BoundAssumption DEF Iterations, Loops
<1>1. CASE aborted[l] /\ Caught(l)
  <2>1. /\ End(l) /\ cut' = cut \cup {at[l]}
        /\ status' \in {"stopped", "paused", "gone"}
        /\ status = "gone" => status' = "gone"
        /\ UNCHANGED <<current, log, startedAt, plan, at, mine, aborted, restarts, tried, solo>>
    BY <1>1 DEF Caught, Dispatched, Row, IInv, TypeOK
  <2>2. AtWork(l)
    BY DEF Dispatched, AtWork, Working
  <2>3. TypeOK'
    BY <2>1, EndStops DEF IInv, TypeOK, plan
  <2>4. AtStarted' /\ TriedPrefix' /\ (startedAt <= restarts)' /\ SoleLoop'
    BY <2>1, <2>2, Leaving
  <2>6. RunningIsDriven' /\ CompletedCoversAll'
    BY <2>1 DEF RunningIsDriven, CompletedCoversAll
  <2> QED BY <2>3, <2>4, <2>6 DEF IInv
<1>2. CASE stage' = [stage EXCEPT ![l] = "poll"] /\ UNCHANGED <<status, active, cut>>
  <2>1. UNCHANGED <<status, active, cut, current, log, startedAt, plan, at, mine,
                    aborted, restarts, tried, solo>>
    BY <1>2 DEF Dispatched
  <2>2. \A k \in Loops : AtWork(k)' <=> AtWork(k)
    BY <1>2 DEF Dispatched, AtWork, Working, Sleeping, IInv, TypeOK
  <2>3. TypeOK'
    BY <1>2, <2>1 DEF IInv, TypeOK, plan, Working, Sleeping
  <2> QED BY <2>1, <2>2, <2>3 DEF IInv, AtStarted, TriedPrefix, SoleLoop,
             RunningIsDriven, CompletedCoversAll, AtWork
<1> QED BY <1>1, <1>2 DEF Dispatched

LEMMA FailKeeps ==
    ASSUME IInv, NEW l \in Loops, Fail(l) PROVE IInv'
<1> USE BoundAssumption DEF Iterations, Loops
<1>1. /\ End(l) /\ cut' = cut \cup {at[l]}
      /\ status' \in {"failed", "gone"}
      /\ status = "gone" => status' = "gone"
      /\ UNCHANGED <<current, log, startedAt, plan, at, mine, aborted, restarts, tried, solo>>
  BY DEF Fail, Row
<1>2. AtWork(l)
  BY DEF Fail, AtWork, Working, Sleeping
<1>3. TypeOK'
  BY <1>1, EndStops DEF IInv, TypeOK, plan
<1>4. AtStarted' /\ TriedPrefix' /\ (startedAt <= restarts)' /\ SoleLoop'
  BY <1>1, <1>2, Leaving
<1>6. RunningIsDriven' /\ CompletedCoversAll'
  BY <1>1 DEF RunningIsDriven, CompletedCoversAll
<1> QED BY <1>1, <1>3, <1>4, <1>6 DEF IInv

LEMMA ProceedKeeps ==
    ASSUME IInv, NEW l \in Loops, Proceed(l) PROVE IInv'
<1> DEFINE s == Following(stage[l])
<1>1. s \in {"deploy", "delay", "shoot", "none"} /\ s # "none"
  BY DEF Proceed, Following
<1>2. AtWork(l) /\ stage' = [stage EXCEPT ![l] = s]
  BY DEF Proceed, AtWork
<1>3. UNCHANGED <<row, plan, active, at, mine, aborted, restarts, history>>
  BY DEF Proceed
<1> HIDE DEF s
<1>4. s \in Working
  BY <1>1 DEF Working, Sleeping
<1>5. \A k \in Loops : AtWork(k)' <=> AtWork(k)
  BY <1>2, <1>4 DEF AtWork, IInv, TypeOK
<1>6. TypeOK'
  BY <1>2, <1>3, <1>4 DEF IInv, TypeOK, row, plan, history
<1> QED BY <1>3, <1>5, <1>6 DEF IInv, AtStarted, TriedPrefix, SoleLoop,
           RunningIsDriven, CompletedCoversAll, AtWork, row, plan, history

LEMMA GoRoundKeeps ==
    ASSUME IInv, NEW l \in Loops, GoRound(l) PROVE IInv'
<1> USE BoundAssumption DEF Iterations, Loops
<1> DEFINE i == at[l] + 1
<1>1. /\ AtWork(l) /\ EndIteration(l) /\ Head(l, i, status, active)
      /\ UNCHANGED <<startedAt, plan, aborted, restarts, cut, solo>>
  BY DEF GoRound, AtWork
<1>2. at[l] \in Iterations /\ \A j \in Iterations : j <= at[l] => j \in tried
  BY <1>1 DEF IInv, AtStarted, TriedPrefix
<1>3. mine' \in [Loops -> SUBSET Iterations] /\ log' \subseteq Iterations
  BY <1>1, <1>2 DEF EndIteration, IInv, TypeOK
<1>4. ASSUME solo, status # "gone"
      PROVE  /\ log' = log \cup {at[l]} /\ mine'[l] = log' /\ at[l] = current
             /\ \A k \in Loops : AtWork(k) => k = l
             /\ \A j \in Iterations : j <= current => j \in log' \cup cut
  <2>1. mine[l] = log /\ at[l] = current /\ \A k \in Loops : AtWork(k) => k = l
    BY <1>1, <1>4 DEF IInv, SoleLoop
  <2>2. log' = log \cup {at[l]} /\ mine'[l] = log'
    BY <1>1, <1>4, <2>1 DEF EndIteration, IInv, TypeOK
  <2>3. \A j \in Iterations : j < current => j \in log \cup cut
    BY <1>4 DEF IInv, SoleLoop
  <2>4. \A j \in Iterations : j <= current => j < current \/ j = current
    BY DEF IInv, TypeOK
  <2> QED BY <2>1, <2>2, <2>3, <2>4
<1>5. ASSUME End(l), UNCHANGED <<current, at, tried>>,
             status' = IF i > MaxIterations
                         THEN IF status = "running" THEN "completed" ELSE status
                         ELSE IF status \in {"stopped", "gone"} THEN status ELSE "paused"
      PROVE  IInv'
  <2>1. TypeOK'
    BY <1>1, <1>3, <1>5, EndStops DEF IInv, TypeOK, plan
  <2>2. AtStarted' /\ TriedPrefix' /\ (startedAt <= restarts)'
    BY <1>1, <1>5, EndStops DEF IInv, AtStarted, TriedPrefix, AtWork
  <2>3. SoleLoop'
    <3> SUFFICES ASSUME solo', status' # "gone" PROVE SoleLoop!2'
      BY DEF SoleLoop
    <3>1. solo /\ status # "gone" /\ cut' = cut /\ current' = current
      BY <1>1, <1>5
    <3>2. \A k \in Loops : ~AtWork(k)'
      BY <1>4, <1>5, <3>1, EndStops DEF AtWork, IInv
    <3>3. \A j \in Iterations : j < current => j <= current
      BY DEF IInv, TypeOK
    <3> QED BY <1>4, <3>1, <3>2, <3>3
  <2>4. RunningIsDriven'
    BY <1>5 DEF RunningIsDriven
  <2>5. CompletedCoversAll'
    <3> SUFFICES ASSUME status' = "completed"
                 PROVE  Iterations \subseteq tried /\ (solo => Iterations \subseteq log' \cup cut)
      BY <1>1, <1>5 DEF CompletedCoversAll
    <3>1. i > MaxIterations /\ status # "gone"
      BY <1>5
    <3>2. \A j \in Iterations : j <= at[l]
      BY <1>2, <3>1
    <3> QED BY <1>2, <1>4, <3>1, <3>2
  <2> QED BY <2>1, <2>2, <2>3, <2>4, <2>5 DEF IInv
<1>6. ASSUME i <= MaxIterations,
             current' = IF status = "gone" THEN current ELSE i,
             at' = [at EXCEPT ![l] = i], tried' = tried \cup {i},
             stage' = [stage EXCEPT ![l] = "dispatch"], active' = active, status' = status
      PROVE  IInv'
  <2>1. i \in Iterations /\ i \in Nat
    BY <1>2, <1>6
  <2>2. \A k \in Loops : AtWork(k)' <=> AtWork(k)
    BY <1>1, <1>6 DEF AtWork, Working, IInv, TypeOK
  <2>3. TypeOK'
    BY <1>1, <1>3, <1>6, <2>1 DEF IInv, TypeOK, plan, Working
  <2>4. AtStarted' /\ (startedAt <= restarts)'
    BY <1>1, <1>6, <2>1, <2>2 DEF IInv, AtStarted, TypeOK
  <2>5. \A j \in Iterations : j <= i => j <= at[l] \/ j = i
    BY <1>2
  <2>6. TriedPrefix'
    <3>1. \A j \in Iterations : j <= i => j \in tried'
      BY <1>2, <1>6, <2>5
    <3> QED BY <1>6, <2>2, <3>1 DEF IInv, TriedPrefix, TypeOK
  <2>7. SoleLoop'
    <3> SUFFICES ASSUME solo', status' # "gone" PROVE SoleLoop!2'
      BY DEF SoleLoop
    <3>1. solo /\ status # "gone" /\ cut' = cut /\ current' = i /\ at'[l] = i
      BY <1>1, <1>6 DEF IInv, TypeOK
    <3>2. \A j \in Iterations : j < i => j <= current
      BY <1>2, <1>4, <3>1
    <3> QED BY <1>1, <1>4, <2>2, <3>1, <3>2
  <2>8. RunningIsDriven'
    BY <1>1, <2>2 DEF RunningIsDriven, AtWork
  <2>9. CompletedCoversAll'
    BY <1>1, <1>4, <1>6 DEF IInv, CompletedCoversAll
  <2> QED BY <2>3, <2>4, <2>6, <2>7, <2>8, <2>9 DEF IInv
<1>7. i \in Nat
  BY <1>2
<1> HIDE DEF i
<1>8. CASE i > MaxIterations
  BY <1>1, <1>5, <1>7, <1>8 DEF Head
<1>9. CASE i <= MaxIterations
  BY <1>1, <1>5, <1>6, <1>7, <1>9 DEF Head
<1> QED BY <1>7, <1>8, <1>9

LEMMA StartKeeps ==
    ASSUME IInv, NEW l \in Loops, status \in {"none", "paused"}, Start(l) PROVE IInv'
<1> USE BoundAssumption DEF Iterations, Loops
<1> DEFINE i == current + 1
<1>1. /\ stage[l] = "idle" /\ startedAt' = restarts
      /\ mine' = [mine EXCEPT ![l] = log]
      /\ Head(l, i, "running", l)
      /\ solo' = (solo /\ \A k \in Loops : stage[k] \notin Working)
      /\ UNCHANGED <<log, plan, aborted, restarts, cut>>
  BY DEF Start
<1>2. i \in Nat \ {0} /\ \A j \in Iterations : j < i => j \in tried
  BY DEF IInv, TypeOK, TriedPrefix
<1>3. ASSUME solo'
      PROVE  /\ solo /\ \A k \in Loops : ~AtWork(k)
             /\ \A j \in Iterations : j < i => j \in log \cup cut
  <2>1. solo /\ \A k \in Loops : ~AtWork(k)
    BY <1>1, <1>3 DEF AtWork
  <2>2. \A j \in Iterations : j <= current => j \in log \cup cut
    BY <2>1 DEF IInv, SoleLoop
  <2>3. \A j \in Iterations : j < i => j <= current
    BY DEF IInv, TypeOK
  <2> QED BY <2>1, <2>2, <2>3
<1>4. mine' \in [Loops -> SUBSET Iterations] /\ mine'[l] = log /\ solo' \in BOOLEAN
  BY <1>1 DEF IInv, TypeOK
<1>5. ASSUME End(l), UNCHANGED <<current, at, tried>>,
             status' = IF i > MaxIterations THEN "completed" ELSE "paused"
      PROVE  IInv'
  <2>1. TypeOK'
    BY <1>1, <1>4, <1>5, EndStops DEF IInv, TypeOK, plan
  <2>2. AtStarted' /\ TriedPrefix' /\ (startedAt <= restarts)'
    <3>1. (startedAt <= restarts)'
      BY <1>1 DEF IInv, TypeOK
    <3> QED BY <1>5, <3>1, EndStops DEF IInv, AtStarted, TriedPrefix, AtWork
  <2>3. SoleLoop'
    <3> SUFFICES ASSUME solo' PROVE SoleLoop!2'
      BY DEF SoleLoop
    <3>1. \A k \in Loops : ~AtWork(k)'
      BY <1>3, <1>5, EndStops DEF AtWork, IInv
    <3>2. \A j \in Iterations : j < current \/ j <= current => j < i
      BY DEF IInv, TypeOK
    <3> QED BY <1>1, <1>3, <1>5, <3>1, <3>2
  <2>4. RunningIsDriven'
    BY <1>5 DEF RunningIsDriven
  <2>5. CompletedCoversAll'
    <3> SUFFICES ASSUME status' = "completed"
                 PROVE  Iterations \subseteq tried /\ (solo' => Iterations \subseteq log \cup cut)
      BY <1>1, <1>5 DEF CompletedCoversAll
    <3>1. i > MaxIterations
      BY <1>5
    <3>2. \A j \in Iterations : j < i
      BY <1>2, <3>1
    <3> QED BY <1>2, <1>3, <3>2
  <2> QED BY <2>1, <2>2, <2>3, <2>4, <2>5 DEF IInv
<1>6. ASSUME i <= MaxIterations, current' = i,
             at' = [at EXCEPT ![l] = i], tried' = tried \cup {i},
             stage' = [stage EXCEPT ![l] = "dispatch"], active' = l, status' = "running"
      PROVE  IInv'
  <2>1. i \in Iterations
    BY <1>2, <1>6
  <2>2. AtWork(l)' /\ \A k \in Loops : k # l => (AtWork(k)' <=> AtWork(k)) /\ at'[k] = at[k]
    BY <1>1, <1>6 DEF AtWork, Working, IInv, TypeOK
  <2>3. at'[l] = i
    BY <1>6 DEF IInv, TypeOK
  <2>4. TypeOK'
    BY <1>1, <1>4, <1>6, <2>1 DEF IInv, TypeOK, plan, Working
  <2>5. AtStarted' /\ (startedAt <= restarts)'
    BY <1>1, <2>1, <2>2, <2>3 DEF IInv, AtStarted, TypeOK
  <2>6. TriedPrefix'
    <3>1. \A j \in Iterations : j <= i => j < i \/ j = i
      BY <1>2
    <3> QED BY <1>2, <1>6, <2>2, <2>3, <3>1 DEF IInv, TriedPrefix
  <2>7. SoleLoop'
    <3> SUFFICES ASSUME solo' PROVE SoleLoop!2'
      BY DEF SoleLoop
    <3> QED BY <1>1, <1>3, <1>4, <1>6, <2>2, <2>3
  <2>8. RunningIsDriven' /\ CompletedCoversAll'
    BY <1>6, <2>2 DEF RunningIsDriven, CompletedCoversAll, AtWork
  <2> QED BY <2>4, <2>5, <2>6, <2>7, <2>8 DEF IInv
<1> HIDE DEF i
<1>7. CASE i > MaxIterations
  BY <1>1, <1>2, <1>5, <1>7 DEF Head
<1>8. CASE i <= MaxIterations
  BY <1>1, <1>2, <1>5, <1>6, <1>8 DEF Head
<1> QED BY <1>2, <1>7, <1>8

\* Pause, stop and delete: the row no longer says running, and at most one
\* loop leaves its iteration.
LEMMA RequestKeeps ==
    ASSUME IInv, Abort \/ UNCHANGED <<active, stage, aborted, cut>>,
           status' \in {"paused", "stopped", "gone"}, status = "gone" => status' = "gone",
           UNCHANGED <<current, log, startedAt, plan, at, mine, restarts, tried, solo>>
    PROVE  IInv'
<1>1. RunningIsDriven' /\ CompletedCoversAll'
  BY DEF RunningIsDriven, CompletedCoversAll
<1>2. ASSUME UNCHANGED <<active, stage, cut>>, aborted' \in [Loops -> BOOLEAN] PROVE IInv'
  <2>1. TypeOK'
    BY <1>2 DEF IInv, TypeOK, plan
  <2> QED BY <1>1, <1>2, <2>1 DEF IInv, AtStarted, TriedPrefix, SoleLoop, AtWork
<1>3. ASSUME active # 0, aborted' = [aborted EXCEPT ![active] = TRUE],
             stage[active] \in Sleeping, End(active), cut' = cut \cup {at[active]}
      PROVE  IInv'
  <2>1. active \in Loops /\ AtWork(active)
    BY <1>3 DEF IInv, TypeOK, AtWork, Working
  <2>2. TypeOK'
    BY <1>3, <2>1, EndStops DEF IInv, TypeOK, plan
  <2> QED BY <1>1, <1>3, <2>1, <2>2, Leaving DEF IInv
<1>4. aborted \in [Loops -> BOOLEAN] /\ [aborted EXCEPT ![active] = TRUE] \in [Loops -> BOOLEAN]
  BY DEF IInv, TypeOK
<1> QED BY <1>2, <1>3, <1>4 DEF Abort

LEMMA RestartKeeps == IInv /\ Restart => IInv'
<1> SUFFICES ASSUME IInv, Restart PROVE IInv'
  OBVIOUS
<1> USE BoundAssumption DEF Iterations, Loops
<1>1. \A k \in Loops : ~AtWork(k)'
  BY DEF Restart, AtWork, Working, Sleeping, IInv, TypeOK
<1>2. UNCHANGED <<row, plan, at, mine, aborted, tried, solo>> /\ restarts' = restarts + 1
  BY DEF Restart
<1>3. \A l \in Loops : AtWork(l) => at[l] \in cut'
  BY DEF Restart, AtWork
<1>4. cut \subseteq cut' /\ cut' \subseteq {0} \cup Iterations
  BY DEF Restart, IInv, TypeOK
<1>5. TypeOK'
  BY <1>2, <1>4 DEF Restart, IInv, TypeOK, row, plan
<1>6. AtStarted' /\ TriedPrefix' /\ (startedAt <= restarts)'
  BY <1>1, <1>2 DEF IInv, AtStarted, TriedPrefix, row, TypeOK
<1>7. SoleLoop'
  <2> SUFFICES ASSUME solo, status # "gone" PROVE SoleLoop!2'
    BY <1>2 DEF SoleLoop, row
  <2>1. \A j \in Iterations : j < current => j \in log \cup cut'
    BY <1>4 DEF IInv, SoleLoop
  <2>2. \A j \in Iterations : j <= current => j \in log \cup cut'
    <3>1. CASE \A l \in Loops : ~AtWork(l)
      BY <1>4, <3>1 DEF IInv, SoleLoop
    <3>2. ASSUME NEW l \in Loops, AtWork(l)
          PROVE  \A j \in Iterations : j <= current => j \in log \cup cut'
      <4>1. at[l] = current
        BY <3>2 DEF IInv, SoleLoop
      <4>2. \A j \in Iterations : j <= current => j < current \/ j = current
        BY DEF IInv, TypeOK
      <4> QED BY <1>3, <2>1, <3>2, <4>1, <4>2
    <3> QED BY <3>1, <3>2
  <2> QED BY <1>1, <1>2, <2>1, <2>2 DEF row
<1>8. RunningIsDriven' /\ CompletedCoversAll'
  BY <1>2, <1>4 DEF IInv, RunningIsDriven, CompletedCoversAll, row, TypeOK
<1> QED BY <1>5, <1>6, <1>7, <1>8 DEF IInv

LEMMA StepKeeps == IInv /\ [Next]_vars => IInv'
<1> SUFFICES ASSUME IInv, [Next]_vars PROVE IInv'
  OBVIOUS
<1>1. CASE \E l \in Loops : LoopNext(l)
  BY <1>1, DispatchedKeeps, FailKeeps, ProceedKeeps, GoRoundKeeps DEF LoopNext
<1>2. CASE Create \/ Resume
  BY <1>2, StartKeeps DEF Create, Resume
<1>3. CASE CreateRefused
  BY <1>3 DEF CreateRefused, IInv, TypeOK, AtStarted, TriedPrefix, SoleLoop, AtWork,
      RunningIsDriven, CompletedCoversAll, plan, loopVars, history
<1>4. CASE Pause
  BY <1>4, RequestKeeps DEF Pause, Row
<1>5. CASE Stop
  BY <1>5, RequestKeeps DEF Stop, Row
<1>6. CASE Delete
  BY <1>6, RequestKeeps DEF Delete
<1>7. CASE Restart
  BY <1>7, RestartKeeps
<1>8. CASE UNCHANGED vars
  BY <1>8 DEF vars, row, plan, loopVars, history, IInv, TypeOK, AtStarted, TriedPrefix,
      SoleLoop, AtWork, RunningIsDriven, CompletedCoversAll
<1> QED BY <1>1, <1>2, <1>3, <1>4, <1>5, <1>6, <1>7, <1>8 DEF Next

LEMMA Inductive == Spec => []IInv
BY Initially, StepKeeps, PTL DEF Spec

\* The rows, the table of active runs and the loops hold what they can hold.
THEOREM RunTypes == Spec => []TypeOK
BY Inductive, PTL DEF IInv

\* A row that says running has a loop of this server at work on it: whichever
\* exit of wiggum-controller.ts:132-207 a loop takes, alone or beside others.
THEOREM Driven == Spec => []RunningIsDriven
BY Inductive, PTL DEF IInv

\* A completed run has dispatched every iteration, and lists all that were
\* not cut short if its starts never overlapped.
THEOREM Covered == Spec => []CompletedCoversAll
BY Inductive, PTL DEF IInv
=============================================================================

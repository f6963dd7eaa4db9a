----------------------- MODULE SessionLifecycleProofs -----------------------
(***************************************************************************)
(* Theorems about SessionLifecycle, for any set of sessions and any bounds: *)
(* its inductive invariant, the safety properties it implies, and the      *)
(* refinement of AgentRun.  Each lemma shows that one part of the          *)
(* invariant is preserved, with one step per action that can disturb it;   *)
(* the first step covers the actions that leave its variables alone.       *)
(***************************************************************************)
EXTENDS SessionLifecycleProps, TLAPS

\* The program starts with no row, no process and the sweep armed.
LEMMA InitEstablishes == Init => IInv
<1> SUFFICES ASSUME Init PROVE IInv
  OBVIOUS
<1> USE DEF Init
<1>1. TypeOK
  BY SwitchAssumption DEF TypeOK, Armed, Unswept, RowStatus, Live, Terminal, KillKind
<1>2. OwnershipSound /\ SpawnAccounted /\ SpawnFresh
  BY DEF OwnershipSound, SpawnAccounted, SpawnFresh
<1>3. SweepListSettled /\ SweepSparesLive
  BY DEF SweepListSettled, SweepSparesLive, Armed, Unswept
<1>4. QED
  BY <1>1, <1>2, <1>3 DEF IInv

\* Every step keeps the variables in their types.
LEMMA TypeStep ==
    TypeOK /\ [Next]_vars
      => TypeOK'
<1> SUFFICES ASSUME TypeOK, [Next]_vars PROVE TypeOK'
  OBVIOUS
<1> USE DEF TypeOK, RowStatus, Live, Terminal, ExitStatus, KillKind
<1>1. CASE UNCHANGED vars
  BY <1>1 DEF vars, runVars, svcVars, env, mainVars, asks
<1>2. ASSUME NEW s \in Sessions, Dispatch(s)
      PROVE TypeOK'
  BY <1>2 DEF Dispatch, Asks, runVars, svcVars, env, mainVars, asks
<1>3. ASSUME NEW s \in Sessions, Provision(s)
      PROVE TypeOK'
  BY <1>3 DEF Provision, runVars, svcVars, env, mainVars, asks
<1>4. ASSUME NEW s \in Sessions, Respawn(s)
      PROVE TypeOK'
  BY <1>4 DEF Respawn, Asks, Written, runVars, svcVars, env, mainVars, asks
<1>5. ASSUME NEW s \in Sessions, Follow(s)
      PROVE TypeOK'
  BY <1>5 DEF Follow, Written, runVars, svcVars, env, mainVars, asks
<1>6. ASSUME NEW s \in Sessions, TurnDone(s)
      PROVE TypeOK'
  BY <1>6 DEF TurnDone, Written, runVars, svcVars, env, mainVars, asks
<1>7. ASSUME NEW s \in Sessions, SpawnReply(s)
      PROVE TypeOK'
  BY <1>7 DEF SpawnReply, Written, runVars, svcVars, env, mainVars, asks
<1>8. ASSUME NEW s \in Sessions, SpawnFailed(s)
      PROVE TypeOK'
  BY <1>8 DEF SpawnFailed, Written, runVars, svcVars, env, mainVars, asks
<1>9. ASSUME NEW s \in Sessions, NEW kind \in KillKind, KillStart(s, kind)
      PROVE TypeOK'
  BY <1>9 DEF KillStart, runVars, svcVars, env, mainVars, asks
<1>10. ASSUME NEW s \in Sessions, KillDone(s)
      PROVE TypeOK'
  BY <1>10 DEF KillDone, Written, runVars, svcVars, env, mainVars, asks
<1>11. ASSUME NEW s \in Sessions, ArchiveEnded(s)
      PROVE TypeOK'
  BY <1>11 DEF ArchiveEnded, runVars, svcVars, env, mainVars, asks
<1>12. CASE SweepRead
  BY <1>12 DEF SweepRead, Unswept, runVars, svcVars, env, mainVars, asks
<1>13. CASE SweepNoAnswer
  BY <1>13 DEF SweepNoAnswer, Unswept, runVars, svcVars, env, mainVars, asks
<1>14. CASE SweepApply
  BY <1>14 DEF SweepApply, Unswept, Written, runVars, svcVars, env, mainVars,
    asks
<1>15. ASSUME NEW ok \in BOOLEAN, NEW listed \in BOOLEAN,
             SweepAnswer(ok, listed)
      PROVE TypeOK'
  BY <1>15 DEF SweepAnswer, Told, Unswept, TmuxProbe, runVars, svcVars, env,
    mainVars, asks
<1>16. CASE MainRestart
  <2>1. sweep' \in [phase : {"off", "armed", "asked", "told"},
                   rows : SUBSET Sessions, dead : SUBSET Sessions, blind : BOOLEAN]
    BY <1>16 DEF MainRestart, Armed, Unswept
  <2>2. /\ unheard' \subseteq Sessions /\ faults' \in Nat /\ turn' \subseteq Sessions
        /\ mainSpawn' \in [Sessions -> {"idle", "waiting", "err"}]
        /\ mainKill' \in [Sessions -> KillKind \cup {"idle"}]
    BY <1>16 DEF MainRestart
  <2>3. UNCHANGED <<row, agent, proc, viaTmux, aged, parked, svcUp, tmuxSeen, flaky,
                    spawnQ, killQ, launches, chatted>>
    BY <1>16 DEF MainRestart, runVars
  <2>4. QED
    BY <2>1, <2>2, <2>3
<1>17. ASSUME NEW s \in Sessions, NEW ok \in BOOLEAN, SpawnRun(s, ok)
      PROVE TypeOK'
  BY <1>17 DEF SpawnRun, Starts, TmuxProbe, Written, runVars, svcVars, env,
    mainVars, asks
<1>18. ASSUME NEW s \in Sessions, NEW ok \in BOOLEAN, SpawnThrow(s, ok)
      PROVE TypeOK'
  <2>1. PICK where \in SUBSET {"tmux", "pty"} :
           agent' = agent \/ agent' = [agent EXCEPT ![s] = where]
    <3>1. /\ agent[s] \ {"tmux"} \in SUBSET {"tmux", "pty"}
          /\ \A x \in {"tmux", "pty"} : agent[s] \cup {x} \in SUBSET {"tmux", "pty"}
      OBVIOUS
    <3>2. \/ agent' = agent
          \/ agent' = [agent EXCEPT ![s] = @ \ {"tmux"}]
          \/ \E x \in {"tmux", "pty"} : agent' = [agent EXCEPT ![s] = @ \cup {x}]
      BY <1>18 DEF SpawnThrow, Starts, runVars
    <3>3. QED
      BY <3>1, <3>2
  <2>2. proc' = proc \/ proc' = [proc EXCEPT ![s] = "deaf"]
    BY <1>18 DEF SpawnThrow, runVars
  <2>3. /\ agent' \in [Sessions -> SUBSET {"tmux", "pty"}]
        /\ proc' \in [Sessions -> {"none", "live", "hungup", "deaf"}]
    BY <2>1, <2>2
  <2>4. /\ viaTmux' \subseteq Sessions /\ aged' \subseteq Sessions /\ parked' = parked
        /\ tmuxSeen' \in BOOLEAN
    BY <1>18 DEF SpawnThrow, Starts, InTmux, TmuxProbe, runVars
  <2>5. /\ spawnQ' \subseteq Sessions
        /\ mainSpawn' \in [Sessions -> {"idle", "waiting", "err"}]
    BY <1>18 DEF SpawnThrow
  <2>6. UNCHANGED <<row, svcUp, flaky, faults, killQ, mainKill, turn, sweep,
                    launches, chatted, unheard>>
    BY <1>18 DEF SpawnThrow, env, asks
  <2>7. QED
    BY <2>3, <2>4, <2>5, <2>6
<1>19. ASSUME NEW s \in Sessions, NEW status \in ExitStatus, OnExit(s, status)
      PROVE TypeOK'
  BY <1>19 DEF OnExit, Written, runVars, svcVars, env, mainVars, asks
<1>20. ASSUME NEW s \in Sessions, NEW ok \in BOOLEAN, KillHandle(s, ok)
      PROVE TypeOK'
  BY <1>20 DEF KillHandle, KillProcess, EndsPty, KillsTmux, TmuxProbe, Sees,
    InTmux, Written, runVars, svcVars, env, mainVars, asks
<1>21. ASSUME NEW s \in Sessions, NEW ok \in BOOLEAN, ServiceKill(s, ok)
      PROVE TypeOK'
  BY <1>21 DEF ServiceKill, KillProcess, EndsPty, KillsTmux, Written, runVars,
    svcVars, env, mainVars, asks
<1>22. ASSUME NEW s \in Sessions, NEW ok \in BOOLEAN, NEW fits \in BOOLEAN,
             NEW found \in BOOLEAN, Attach(s, ok, fits, found)
      PROVE TypeOK'
  BY <1>22 DEF Attach, TmuxProbe, Sees, InTmux, runVars, svcVars, env,
    mainVars, asks
<1>23. ASSUME NEW s \in Sessions, RetryRecovery(s)
      PROVE TypeOK'
  BY <1>23 DEF RetryRecovery, TmuxProbe, InTmux, runVars, svcVars, env,
    mainVars, asks
<1>24. ASSUME NEW s \in Sessions, LeaveParking(s)
      PROVE TypeOK'
  BY <1>24 DEF LeaveParking, runVars, svcVars, env, mainVars, asks
<1>25. ASSUME NEW s \in Sessions, NEW ok \in BOOLEAN, Reap(s, ok)
      PROVE TypeOK'
  BY <1>25 DEF Reap, Reapable, InTmux, KillsTmux, TmuxProbe, runVars, svcVars,
    env, mainVars, asks
<1>26. CASE SvcCrash
  <2>1. /\ agent' = [s \in Sessions |-> agent[s] \ {"pty"}]
        /\ \A s \in Sessions : agent[s] \ {"pty"} \in SUBSET {"tmux", "pty"}
    BY <1>26 DEF SvcCrash
  <2>2. /\ proc' \in [Sessions -> {"none", "live", "hungup", "deaf"}]
        /\ mainSpawn' \in [Sessions -> {"idle", "waiting", "err"}]
    BY <1>26 DEF SvcCrash
  <2>3. agent' \in [Sessions -> SUBSET {"tmux", "pty"}]
    BY <2>1
  <2>4. faults' \in Nat
    BY <1>26 DEF SvcCrash
  <2>5. /\ viaTmux' = {} /\ parked' = {} /\ spawnQ' = {} /\ killQ' = {}
        /\ svcUp' \in BOOLEAN /\ tmuxSeen' \in BOOLEAN
    BY <1>26 DEF SvcCrash
  <2>6. UNCHANGED <<row, aged, flaky, mainKill, turn, sweep, launches, chatted, unheard>>
    BY <1>26 DEF SvcCrash, asks
  <2>7. QED
    BY <2>2, <2>3, <2>4, <2>5, <2>6
<1>27. ASSUME NEW ok \in BOOLEAN, NEW seen \in SUBSET Sessions,
             NEW lost \in SUBSET Sessions, NEW missed \in SUBSET Sessions,
             SvcStart(ok, seen, lost, missed)
      PROVE TypeOK'
  BY <1>27 DEF SvcStart, TmuxProbe, InTmux, runVars, svcVars, env, mainVars,
    asks
<1>28. ASSUME NEW s \in Sessions, NEW where \in {"tmux", "pty"},
             AgentExit(s, where)
      PROVE TypeOK'
  BY <1>28 DEF AgentExit, runVars, svcVars, env, mainVars, asks
<1>29. ASSUME NEW s \in Sessions, ClientExit(s)
      PROVE TypeOK'
  BY <1>29 DEF ClientExit, runVars, svcVars, env, mainVars, asks
<1>30. ASSUME NEW s \in Sessions, GrowOld(s)
      PROVE TypeOK'
  BY <1>30 DEF GrowOld, InTmux, runVars, svcVars, env, mainVars, asks
<1>31. CASE TmuxHeals
  BY <1>31 DEF TmuxHeals, runVars, svcVars, env, mainVars, asks
<1> HIDE DEF TypeOK, RowStatus, Live, Terminal, ExitStatus, KillKind
<1>32. QED
  BY <1>1, <1>2, <1>3, <1>4, <1>5, <1>6, <1>7, <1>8, <1>9, <1>10, <1>11,
     <1>12, <1>13, <1>14, <1>15, <1>16, <1>17, <1>18, <1>19, <1>20, <1>21,
     <1>22, <1>23, <1>24, <1>25, <1>26, <1>27, <1>28, <1>29, <1>30, <1>31
     DEF Next, MainNext, ServiceNext, AgentNext, Starting, vars, runVars,
         svcVars, env, mainVars, asks

\* The service's entries stay true to the processes: crashes, client exits, kills
\* that fail and spawns that throw are the cases.
LEMMA OwnershipStep ==
    TypeOK /\ OwnershipSound /\ [Next]_vars
      => OwnershipSound'
<1> SUFFICES ASSUME TypeOK, OwnershipSound, [Next]_vars
             PROVE OwnershipSound'
  OBVIOUS
<1> USE DEF TypeOK, OwnershipSound
<1>1. CASE UNCHANGED <<agent, proc, viaTmux, svcUp>>
  BY <1>1
<1>2. ASSUME NEW s \in Sessions, NEW ok \in BOOLEAN, SpawnRun(s, ok)
      PROVE OwnershipSound'
  BY <1>2 DEF SpawnRun, Starts, TmuxProbe, Written, runVars, svcVars, env,
    mainVars, asks
<1>3. ASSUME NEW s \in Sessions, NEW ok \in BOOLEAN, SpawnThrow(s, ok)
      PROVE OwnershipSound'
  BY <1>3 DEF SpawnThrow, Starts, InTmux, TmuxProbe, runVars, svcVars, env,
    mainVars, asks
<1>4. ASSUME NEW s \in Sessions, NEW status \in ExitStatus, OnExit(s, status)
      PROVE OwnershipSound'
  BY <1>4 DEF OnExit, Written, runVars, svcVars, env, mainVars, asks
<1>5. ASSUME NEW s \in Sessions, NEW ok \in BOOLEAN, KillHandle(s, ok)
      PROVE OwnershipSound'
  BY <1>5 DEF KillHandle, KillProcess, EndsPty, KillsTmux, TmuxProbe, Sees,
    InTmux, Written, runVars, svcVars, env, mainVars, asks
<1>6. ASSUME NEW s \in Sessions, NEW ok \in BOOLEAN, ServiceKill(s, ok)
      PROVE OwnershipSound'
  BY <1>6 DEF ServiceKill, KillProcess, EndsPty, KillsTmux, Written, runVars,
    svcVars, env, mainVars, asks
<1>7. ASSUME NEW s \in Sessions, NEW ok \in BOOLEAN, NEW fits \in BOOLEAN,
             NEW found \in BOOLEAN, Attach(s, ok, fits, found)
      PROVE OwnershipSound'
  BY <1>7 DEF Attach, TmuxProbe, Sees, InTmux, runVars, svcVars, env,
    mainVars, asks
<1>8. ASSUME NEW s \in Sessions, RetryRecovery(s)
      PROVE OwnershipSound'
  BY <1>8 DEF RetryRecovery, TmuxProbe, InTmux, runVars, svcVars, env,
    mainVars, asks
<1>9. ASSUME NEW s \in Sessions, NEW ok \in BOOLEAN, Reap(s, ok)
      PROVE OwnershipSound'
  BY <1>9 DEF Reap, Reapable, InTmux, KillsTmux, TmuxProbe, runVars, svcVars,
    env, mainVars, asks
<1>10. CASE SvcCrash
  BY <1>10 DEF SvcCrash, runVars, svcVars, env, mainVars, asks
<1>11. ASSUME NEW ok \in BOOLEAN, NEW seen \in SUBSET Sessions,
             NEW lost \in SUBSET Sessions, NEW missed \in SUBSET Sessions,
             SvcStart(ok, seen, lost, missed)
      PROVE OwnershipSound'
  BY <1>11 DEF SvcStart, TmuxProbe, InTmux, runVars, svcVars, env, mainVars,
    asks
<1>12. ASSUME NEW s \in Sessions, NEW where \in {"tmux", "pty"},
             AgentExit(s, where)
      PROVE OwnershipSound'
  BY <1>12 DEF AgentExit, runVars, svcVars, env, mainVars, asks
<1>13. ASSUME NEW s \in Sessions, ClientExit(s)
      PROVE OwnershipSound'
  BY <1>13 DEF ClientExit, runVars, svcVars, env, mainVars, asks
<1> HIDE DEF TypeOK, OwnershipSound
<1>14. QED
  BY <1>1, <1>2, <1>3, <1>4, <1>5, <1>6, <1>7, <1>8, <1>9, <1>10, <1>11,
     <1>12, <1>13
     DEF Next, MainNext, ServiceNext, AgentNext, Starting, vars, runVars,
         svcVars, env, mainVars, asks, Dispatch, Provision, Respawn, Follow,
         TurnDone, SpawnReply, SpawnFailed, KillStart, KillDone, ArchiveEnded,
         SweepRead, SweepNoAnswer, SweepApply, SweepAnswer, MainRestart,
         LeaveParking, GrowOld, TmuxHeals

\* A pending row has its request, or the caller has the failure, or no caller is
\* left; and a queued request of a session that is not the chief of staff's finds
\* no process.  The two need each other: a dispatch asks only for a fresh row.
LEMMA AccountedStep ==
    TypeOK /\ OwnershipSound /\ SpawnAccounted /\ SpawnFresh /\
    [Next]_vars
      => (SpawnAccounted /\ SpawnFresh)'
<1> SUFFICES ASSUME TypeOK, OwnershipSound, SpawnAccounted, SpawnFresh,
                    [Next]_vars
             PROVE (SpawnAccounted /\ SpawnFresh)'
  OBVIOUS
<1> USE DEF TypeOK, RowStatus, Live, Terminal, ExitStatus, KillKind,
    SpawnAccounted, SpawnFresh
<1>1. CASE UNCHANGED <<row, agent, proc, spawnQ, mainSpawn, turn, parked, launches, chatted, unheard>>
  BY <1>1
<1>2. ASSUME NEW s \in Sessions, Dispatch(s)
      PROVE (SpawnAccounted /\ SpawnFresh)'
  BY <1>2 DEF Dispatch, Asks, runVars, svcVars, env, mainVars, asks
<1>3. ASSUME NEW s \in Sessions, Provision(s)
      PROVE (SpawnAccounted /\ SpawnFresh)'
  BY <1>3 DEF Provision, runVars, svcVars, env, mainVars, asks
<1>4. ASSUME NEW s \in Sessions, Respawn(s)
      PROVE (SpawnAccounted /\ SpawnFresh)'
  BY <1>4 DEF Respawn, Asks, Written, runVars, svcVars, env, mainVars, asks
<1>5. ASSUME NEW s \in Sessions, Follow(s)
      PROVE (SpawnAccounted /\ SpawnFresh)'
  BY <1>5 DEF Follow, Written, runVars, svcVars, env, mainVars, asks
<1>6. ASSUME NEW s \in Sessions, TurnDone(s)
      PROVE (SpawnAccounted /\ SpawnFresh)'
  BY <1>6 DEF TurnDone, Written, runVars, svcVars, env, mainVars, asks
<1>7. ASSUME NEW s \in Sessions, SpawnReply(s)
      PROVE (SpawnAccounted /\ SpawnFresh)'
  BY <1>7 DEF SpawnReply, Written, runVars, svcVars, env, mainVars, asks
<1>8. ASSUME NEW s \in Sessions, SpawnFailed(s)
      PROVE (SpawnAccounted /\ SpawnFresh)'
  BY <1>8 DEF SpawnFailed, Written, runVars, svcVars, env, mainVars, asks
<1>9. ASSUME NEW s \in Sessions, KillDone(s)
      PROVE (SpawnAccounted /\ SpawnFresh)'
  BY <1>9 DEF KillDone, Written, runVars, svcVars, env, mainVars, asks
<1>10. ASSUME NEW s \in Sessions, ArchiveEnded(s)
      PROVE (SpawnAccounted /\ SpawnFresh)'
  BY <1>10 DEF ArchiveEnded, runVars, svcVars, env, mainVars, asks
<1>11. CASE SweepApply
  BY <1>11 DEF SweepApply, Unswept, Written, runVars, svcVars, env, mainVars,
    asks
<1>12. CASE MainRestart
  BY <1>12 DEF MainRestart, Armed, Unswept, runVars, svcVars, env, mainVars,
    asks
<1>13. ASSUME NEW s \in Sessions, NEW ok \in BOOLEAN, SpawnRun(s, ok)
      PROVE (SpawnAccounted /\ SpawnFresh)'
  BY <1>13 DEF SpawnRun, Starts, TmuxProbe, Written, runVars, svcVars, env,
    mainVars, asks
<1>14. ASSUME NEW s \in Sessions, NEW ok \in BOOLEAN, SpawnThrow(s, ok)
      PROVE (SpawnAccounted /\ SpawnFresh)'
  BY <1>14 DEF SpawnThrow, Starts, InTmux, TmuxProbe, runVars, svcVars, env,
    mainVars, asks
<1>15. ASSUME NEW s \in Sessions, NEW status \in ExitStatus, OnExit(s, status)
      PROVE (SpawnAccounted /\ SpawnFresh)'
  BY <1>15 DEF OnExit, Written, runVars, svcVars, env, mainVars, asks
<1>16. ASSUME NEW s \in Sessions, NEW ok \in BOOLEAN, KillHandle(s, ok)
      PROVE (SpawnAccounted /\ SpawnFresh)'
  BY <1>16 DEF KillHandle, KillProcess, EndsPty, KillsTmux, TmuxProbe, Sees,
    InTmux, Written, runVars, svcVars, env, mainVars, asks
<1>17. ASSUME NEW s \in Sessions, NEW ok \in BOOLEAN, ServiceKill(s, ok)
      PROVE (SpawnAccounted /\ SpawnFresh)'
  BY <1>17 DEF ServiceKill, KillProcess, EndsPty, KillsTmux, Written, runVars,
    svcVars, env, mainVars, asks
<1>18. ASSUME NEW s \in Sessions, NEW ok \in BOOLEAN, NEW fits \in BOOLEAN,
             NEW found \in BOOLEAN, Attach(s, ok, fits, found)
      PROVE (SpawnAccounted /\ SpawnFresh)'
  BY <1>18 DEF Attach, TmuxProbe, Sees, InTmux, runVars, svcVars, env,
    mainVars, asks
<1>19. ASSUME NEW s \in Sessions, RetryRecovery(s)
      PROVE (SpawnAccounted /\ SpawnFresh)'
  BY <1>19 DEF RetryRecovery, TmuxProbe, InTmux, runVars, svcVars, env,
    mainVars, asks
<1>20. ASSUME NEW s \in Sessions, LeaveParking(s)
      PROVE (SpawnAccounted /\ SpawnFresh)'
  BY <1>20 DEF LeaveParking, runVars, svcVars, env, mainVars, asks
<1>21. ASSUME NEW s \in Sessions, NEW ok \in BOOLEAN, Reap(s, ok)
      PROVE (SpawnAccounted /\ SpawnFresh)'
  BY <1>21 DEF Reap, Reapable, InTmux, KillsTmux, TmuxProbe, runVars, svcVars,
    env, mainVars, asks
<1>22. CASE SvcCrash
  BY <1>22 DEF SvcCrash, runVars, svcVars, env, mainVars, asks
<1>23. ASSUME NEW ok \in BOOLEAN, NEW seen \in SUBSET Sessions,
             NEW lost \in SUBSET Sessions, NEW missed \in SUBSET Sessions,
             SvcStart(ok, seen, lost, missed)
      PROVE (SpawnAccounted /\ SpawnFresh)'
  BY <1>23 DEF SvcStart, TmuxProbe, InTmux, runVars, svcVars, env, mainVars,
    asks
<1>24. ASSUME NEW s \in Sessions, NEW where \in {"tmux", "pty"},
             AgentExit(s, where)
      PROVE (SpawnAccounted /\ SpawnFresh)'
  BY <1>24 DEF AgentExit, runVars, svcVars, env, mainVars, asks
<1>25. ASSUME NEW s \in Sessions, ClientExit(s)
      PROVE (SpawnAccounted /\ SpawnFresh)'
  BY <1>25 DEF ClientExit, runVars, svcVars, env, mainVars, asks
<1> HIDE DEF TypeOK, RowStatus, Live, Terminal, ExitStatus, KillKind,
    SpawnAccounted, SpawnFresh
<1>26. QED
  BY <1>1, <1>2, <1>3, <1>4, <1>5, <1>6, <1>7, <1>8, <1>9, <1>10, <1>11,
     <1>12, <1>13, <1>14, <1>15, <1>16, <1>17, <1>18, <1>19, <1>20, <1>21,
     <1>22, <1>23, <1>24, <1>25
     DEF Next, MainNext, ServiceNext, AgentNext, Starting, vars, runVars,
         svcVars, env, mainVars, asks, KillStart, SweepRead, SweepNoAnswer,
         SweepAnswer, GrowOld, TmuxHeals

\* The sweep's verdicts stay true after the answer: what it lists was running
\* once, so no queued dispatch can revive it.
LEMMA SweepStep ==
    TypeOK /\ OwnershipSound /\ SpawnAccounted /\ SpawnFresh /\
    SweepListSettled /\ SweepSparesLive /\ [Next]_vars
      => (SweepListSettled /\ SweepSparesLive)'
<1> SUFFICES ASSUME TypeOK, OwnershipSound, SpawnAccounted, SpawnFresh,
                    SweepListSettled, SweepSparesLive, [Next]_vars
             PROVE (SweepListSettled /\ SweepSparesLive)'
  OBVIOUS
<1> USE DEF TypeOK, RowStatus, Live, Terminal, ExitStatus, KillKind,
    SpawnAccounted, SpawnFresh, SweepListSettled, SweepSparesLive
<1>1. CASE UNCHANGED <<sweep, row, spawnQ, agent, chatted>>
  BY <1>1
<1>2. ASSUME NEW s \in Sessions, Dispatch(s)
      PROVE (SweepListSettled /\ SweepSparesLive)'
  BY <1>2 DEF Dispatch, Asks, runVars, svcVars, env, mainVars, asks
<1>3. ASSUME NEW s \in Sessions, Provision(s)
      PROVE (SweepListSettled /\ SweepSparesLive)'
  BY <1>3 DEF Provision, runVars, svcVars, env, mainVars, asks
<1>4. ASSUME NEW s \in Sessions, Respawn(s)
      PROVE (SweepListSettled /\ SweepSparesLive)'
  BY <1>4 DEF Respawn, Asks, Written, runVars, svcVars, env, mainVars, asks
<1>5. ASSUME NEW s \in Sessions, Follow(s)
      PROVE (SweepListSettled /\ SweepSparesLive)'
  BY <1>5 DEF Follow, Written, runVars, svcVars, env, mainVars, asks
<1>6. ASSUME NEW s \in Sessions, TurnDone(s)
      PROVE (SweepListSettled /\ SweepSparesLive)'
  BY <1>6 DEF TurnDone, Written, runVars, svcVars, env, mainVars, asks
<1>7. ASSUME NEW s \in Sessions, SpawnReply(s)
      PROVE (SweepListSettled /\ SweepSparesLive)'
  BY <1>7 DEF SpawnReply, Written, runVars, svcVars, env, mainVars, asks
<1>8. ASSUME NEW s \in Sessions, SpawnFailed(s)
      PROVE (SweepListSettled /\ SweepSparesLive)'
  BY <1>8 DEF SpawnFailed, Written, runVars, svcVars, env, mainVars, asks
<1>9. ASSUME NEW s \in Sessions, KillDone(s)
      PROVE (SweepListSettled /\ SweepSparesLive)'
  BY <1>9 DEF KillDone, Written, runVars, svcVars, env, mainVars, asks
<1>10. ASSUME NEW s \in Sessions, ArchiveEnded(s)
      PROVE (SweepListSettled /\ SweepSparesLive)'
  BY <1>10 DEF ArchiveEnded, runVars, svcVars, env, mainVars, asks
<1>11. CASE SweepRead
  BY <1>11 DEF SweepRead, Unswept, runVars, svcVars, env, mainVars, asks
<1>12. CASE SweepNoAnswer
  BY <1>12 DEF SweepNoAnswer, Unswept, runVars, svcVars, env, mainVars, asks
<1>13. CASE SweepApply
  BY <1>13 DEF SweepApply, Unswept, Written, runVars, svcVars, env, mainVars,
    asks
<1>14. ASSUME NEW ok \in BOOLEAN, NEW listed \in BOOLEAN,
             SweepAnswer(ok, listed)
      PROVE (SweepListSettled /\ SweepSparesLive)'
  <2>1. UNCHANGED <<row, agent, proc, spawnQ, chatted>>
    BY <1>14 DEF SweepAnswer, runVars, asks
  <2>2. sweep'.rows = {}
    BY <1>14 DEF SweepAnswer, Told, Unswept
  <2>3. /\ sweep'.dead \subseteq sweep.rows
        /\ ~sweep'.blind => \A s \in sweep'.dead : proc[s] = "none" /\ "tmux" \notin agent[s]
    <3> DEFINE dead == {s \in sweep.rows :
                          ok /\ proc[s] = "none" /\ ~(listed /\ InTmux(s))}
    <3>1. sweep' = Told(dead, listed)
      BY <1>14 DEF SweepAnswer
    <3>2. sweep'.dead = dead /\ (dead # {} => sweep'.blind = ~listed)
      BY <3>1 DEF Told, Unswept
    <3>3. QED
      BY <3>2 DEF InTmux
  <2>4. \A s \in Sessions : proc[s] = "none" => "pty" \notin agent[s]
    BY DEF OwnershipSound
  <2>5. SweepListSettled'
    BY <2>1, <2>2, <2>3
  <2>6. SweepSparesLive'
    <3> SUFFICES ASSUME ~sweep'.blind, NEW s \in sweep'.dead \ chatted
                 PROVE agent[s] = {} /\ s \notin spawnQ
      BY <2>1
    <3>1. s \in Sessions /\ agent[s] \in SUBSET {"tmux", "pty"}
      BY <2>3
    <3>2. QED
      BY <2>3, <2>4, <3>1
  <2>7. QED
    BY <2>5, <2>6
<1>15. CASE MainRestart
  BY <1>15 DEF MainRestart, Armed, Unswept, runVars, svcVars, env, mainVars,
    asks
<1>16. ASSUME NEW s \in Sessions, NEW ok \in BOOLEAN, SpawnRun(s, ok)
      PROVE (SweepListSettled /\ SweepSparesLive)'
  BY <1>16 DEF SpawnRun, Starts, TmuxProbe, Written, runVars, svcVars, env,
    mainVars, asks
<1>17. ASSUME NEW s \in Sessions, NEW ok \in BOOLEAN, SpawnThrow(s, ok)
      PROVE (SweepListSettled /\ SweepSparesLive)'
  BY <1>17 DEF SpawnThrow, Starts, InTmux, TmuxProbe, runVars, svcVars, env,
    mainVars, asks
<1>18. ASSUME NEW s \in Sessions, NEW status \in ExitStatus, OnExit(s, status)
      PROVE (SweepListSettled /\ SweepSparesLive)'
  BY <1>18 DEF OnExit, Written, runVars, svcVars, env, mainVars, asks
<1>19. ASSUME NEW s \in Sessions, NEW ok \in BOOLEAN, KillHandle(s, ok)
      PROVE (SweepListSettled /\ SweepSparesLive)'
  BY <1>19 DEF KillHandle, KillProcess, EndsPty, KillsTmux, TmuxProbe, Sees,
    InTmux, Written, runVars, svcVars, env, mainVars, asks
<1>20. ASSUME NEW s \in Sessions, NEW ok \in BOOLEAN, ServiceKill(s, ok)
      PROVE (SweepListSettled /\ SweepSparesLive)'
  BY <1>20 DEF ServiceKill, KillProcess, EndsPty, KillsTmux, Written, runVars,
    svcVars, env, mainVars, asks
<1>21. ASSUME NEW s \in Sessions, NEW ok \in BOOLEAN, NEW fits \in BOOLEAN,
             NEW found \in BOOLEAN, Attach(s, ok, fits, found)
      PROVE (SweepListSettled /\ SweepSparesLive)'
  BY <1>21 DEF Attach, TmuxProbe, Sees, InTmux, runVars, svcVars, env,
    mainVars, asks
<1>22. ASSUME NEW s \in Sessions, NEW ok \in BOOLEAN, Reap(s, ok)
      PROVE (SweepListSettled /\ SweepSparesLive)'
  BY <1>22 DEF Reap, Reapable, InTmux, KillsTmux, TmuxProbe, runVars, svcVars,
    env, mainVars, asks
<1>23. CASE SvcCrash
  BY <1>23 DEF SvcCrash, runVars, svcVars, env, mainVars, asks
<1>24. ASSUME NEW ok \in BOOLEAN, NEW seen \in SUBSET Sessions,
             NEW lost \in SUBSET Sessions, NEW missed \in SUBSET Sessions,
             SvcStart(ok, seen, lost, missed)
      PROVE (SweepListSettled /\ SweepSparesLive)'
  BY <1>24 DEF SvcStart, TmuxProbe, InTmux, runVars, svcVars, env, mainVars,
    asks
<1>25. ASSUME NEW s \in Sessions, NEW where \in {"tmux", "pty"},
             AgentExit(s, where)
      PROVE (SweepListSettled /\ SweepSparesLive)'
  BY <1>25 DEF AgentExit, runVars, svcVars, env, mainVars, asks
<1> HIDE DEF TypeOK, RowStatus, Live, Terminal, ExitStatus, KillKind,
    SpawnAccounted, SpawnFresh, SweepListSettled, SweepSparesLive
<1>26. QED
  BY <1>1, <1>2, <1>3, <1>4, <1>5, <1>6, <1>7, <1>8, <1>9, <1>10, <1>11,
     <1>12, <1>13, <1>14, <1>15, <1>16, <1>17, <1>18, <1>19, <1>20, <1>21,
     <1>22, <1>23, <1>24, <1>25
     DEF Next, MainNext, ServiceNext, AgentNext, Starting, vars, runVars,
         svcVars, env, mainVars, asks, KillStart, RetryRecovery, LeaveParking,
         ClientExit, GrowOld, TmuxHeals

\* The invariant is inductive.
THEOREM Invariance == Spec => []IInv
<1>1. IInv /\ [Next]_vars => IInv'
  BY TypeStep, OwnershipStep, AccountedStep, SweepStep DEF IInv
<1>2. QED
  BY InitEstablishes, <1>1, PTL DEF Spec

\* Type correctness.
THEOREM TypeCorrect == Spec => []TypeOK
<1>1. IInv => TypeOK
  BY DEF IInv
<1>2. QED
  BY Invariance, <1>1, PTL

\* The service never believes in a process that is not there, and hosts every
\* agent that runs outside tmux.
THEOREM Ownership == Spec => []OwnershipSound
<1>1. IInv => OwnershipSound
  BY DEF IInv
<1>2. QED
  BY Invariance, <1>1, PTL

\* An agent behind a pending row is about to be reported by its caller, unless
\* the caller was restarted; a row that was never launched has none.
THEOREM PendingReported == Spec => []PendingAgentReported
<1>1. IInv => PendingAgentReported
  BY DEF IInv, TypeOK, SpawnAccounted, PendingAgentReported
<1>2. QED
  BY Invariance, <1>1, PTL

\* A queued spawn of a session that only a dispatch has launched meets no process.
THEOREM QueuedSpawnFresh == Spec => []SpawnFresh
<1>1. IInv => SpawnFresh
  BY DEF IInv
<1>2. QED
  BY Invariance, <1>1, PTL

\* The boot-time sweep, told what tmux holds, never condemns a dispatched session
\* that has or can get an agent.
THEOREM SweepSafe == Spec => []SweepSparesLive
<1>1. IInv => SweepSparesLive
  BY DEF IInv
<1>2. QED
  BY Invariance, <1>1, PTL

\* Of the actions that end an agent in tmux, only its own exit, the kills and a
\* later launch of the id can meet one whose row is running.
LEMMA SparedStep ==
    TypeOK /\ SpawnFresh /\ [Next]_vars
      => Spared
<1> SUFFICES ASSUME TypeOK, SpawnFresh, [Next]_vars
             PROVE Spared
  OBVIOUS
<1> USE DEF TypeOK, SpawnFresh, InTmux, Spared, Terminal
<1>1. CASE UNCHANGED agent
  BY <1>1
<1>2. ASSUME NEW s \in Sessions, NEW ok \in BOOLEAN, SpawnRun(s, ok)
      PROVE Spared
  BY <1>2 DEF SpawnRun, Starts, TmuxProbe, Written, runVars, svcVars, env,
    mainVars, asks
<1>3. ASSUME NEW s \in Sessions, NEW ok \in BOOLEAN, SpawnThrow(s, ok)
      PROVE Spared
  BY <1>3 DEF SpawnThrow, Starts, TmuxProbe, runVars, svcVars, env, mainVars,
    asks
<1>4. ASSUME NEW s \in Sessions, NEW ok \in BOOLEAN, KillHandle(s, ok)
      PROVE Spared
  BY <1>4 DEF KillHandle, KillProcess, EndsPty, KillsTmux, TmuxProbe, Sees,
    Written, runVars, svcVars, env, mainVars, asks
<1>5. ASSUME NEW s \in Sessions, NEW ok \in BOOLEAN, ServiceKill(s, ok)
      PROVE Spared
  BY <1>5 DEF ServiceKill, KillProcess, EndsPty, KillsTmux, Written, runVars,
    svcVars, env, mainVars, asks
<1>6. ASSUME NEW s \in Sessions, NEW ok \in BOOLEAN, Reap(s, ok)
      PROVE Spared
  BY <1>6 DEF Reap, Reapable, KillsTmux, TmuxProbe, runVars, svcVars, env,
    mainVars, asks
<1>7. CASE SvcCrash
  BY <1>7 DEF SvcCrash, runVars, svcVars, env, mainVars, asks
<1>8. ASSUME NEW s \in Sessions, NEW where \in {"tmux", "pty"},
             AgentExit(s, where)
      PROVE Spared
  <2>1. \A x \in Sessions :
           "tmux" \in agent[x] /\ "tmux" \notin agent'[x] => x = s /\ where = "tmux"
    BY <1>8 DEF AgentExit
  <2>2. QED
    BY <1>8, <2>1
<1> HIDE DEF TypeOK, SpawnFresh, InTmux, Spared, Terminal
\* Every other step leaves the agents alone.
<1>9. ASSUME NEW s \in Sessions,
             \/ Dispatch(s) \/ Provision(s) \/ Respawn(s) \/ Follow(s) \/ TurnDone(s)
             \/ SpawnReply(s) \/ SpawnFailed(s)
             \/ \E kind \in KillKind : KillStart(s, kind)
             \/ KillDone(s) \/ ArchiveEnded(s)
      PROVE Spared
  <2>1. UNCHANGED agent
    BY <1>9 DEF Dispatch, Provision, Respawn, Follow, TurnDone, SpawnReply, SpawnFailed,
      KillStart, KillDone, ArchiveEnded, runVars
  <2>2. QED
    BY <1>1, <2>1
<1>10. ASSUME \/ SweepRead \/ SweepNoAnswer \/ SweepApply \/ MainRestart \/ TmuxHeals
              \/ \E ok, listed \in BOOLEAN : SweepAnswer(ok, listed)
       PROVE Spared
  <2>1. UNCHANGED agent
    BY <1>10 DEF SweepRead, SweepNoAnswer, SweepApply, SweepAnswer, MainRestart, TmuxHeals,
      runVars
  <2>2. QED
    BY <1>1, <2>1
<1>11. ASSUME NEW s \in Sessions,
              \/ \E status \in ExitStatus : OnExit(s, status)
              \/ \E ok, fits, found \in BOOLEAN : Attach(s, ok, fits, found)
              \/ RetryRecovery(s) \/ LeaveParking(s) \/ ClientExit(s) \/ GrowOld(s)
       PROVE Spared
  <2>1. UNCHANGED agent
    BY <1>11 DEF OnExit, Attach, RetryRecovery, LeaveParking, ClientExit, GrowOld, runVars
  <2>2. QED
    BY <1>1, <2>1
<1>12. ASSUME Starting
       PROVE Spared
  <2>1. UNCHANGED agent
    BY <1>12 DEF Starting, SvcStart
  <2>2. QED
    BY <1>1, <2>1
<1>13. QED
  <2>1. CASE MainNext
    BY <2>1, <1>9, <1>10 DEF MainNext
  <2>2. CASE ServiceNext
    BY <2>2, <1>2, <1>3, <1>4, <1>5, <1>6, <1>7, <1>11, <1>12 DEF ServiceNext
  <2>3. CASE AgentNext
    BY <2>3, <1>8, <1>10, <1>11 DEF AgentNext
  <2>4. CASE UNCHANGED vars
    BY <2>4, <1>1 DEF vars, runVars
  <2>5. QED
    BY <2>1, <2>2, <2>3, <2>4 DEF Next

\* Nor does such a row end but by a kill, the exit of its client, a launch that
\* failed or a tmux command that did.
LEMMA CondemnedStep ==
    TypeOK /\ OwnershipSound /\ SweepSparesLive /\ [Next]_vars
      => Condemned
<1> SUFFICES ASSUME TypeOK, OwnershipSound, SweepSparesLive, [Next]_vars
             PROVE Condemned
  OBVIOUS
<1> USE DEF TypeOK, RowStatus, Live, Terminal, ExitStatus, KillKind, InTmux,
    SweepSparesLive, Condemned
<1>1. CASE UNCHANGED row
  BY <1>1
<1>2. ASSUME NEW s \in Sessions, Dispatch(s)
      PROVE Condemned
  BY <1>2 DEF Dispatch, Asks, runVars, svcVars, env, mainVars, asks
<1>3. ASSUME NEW s \in Sessions, Provision(s)
      PROVE Condemned
  BY <1>3 DEF Provision, runVars, svcVars, env, mainVars, asks
<1>4. ASSUME NEW s \in Sessions, Respawn(s)
      PROVE Condemned
  BY <1>4 DEF Respawn, Asks, Written, runVars, svcVars, env, mainVars, asks
<1>5. ASSUME NEW s \in Sessions, Follow(s)
      PROVE Condemned
  BY <1>5 DEF Follow, Written, runVars, svcVars, env, mainVars, asks
<1>6. ASSUME NEW s \in Sessions, TurnDone(s)
      PROVE Condemned
  BY <1>6 DEF TurnDone, Written, runVars, svcVars, env, mainVars, asks
<1>7. ASSUME NEW s \in Sessions, SpawnReply(s)
      PROVE Condemned
  BY <1>7 DEF SpawnReply, Written, runVars, svcVars, env, mainVars, asks
<1>8. ASSUME NEW s \in Sessions, SpawnFailed(s)
      PROVE Condemned
  <2>1. /\ \A x \in Sessions : x # s => row'[x] = row[x]
        /\ mainSpawn[s] = "err" /\ mainSpawn'[s] = "idle"
    BY <1>8 DEF SpawnFailed
  <2>2. QED
    BY <2>1
<1>9. ASSUME NEW s \in Sessions, KillDone(s)
      PROVE Condemned
  <2>1. /\ \A x \in Sessions : x # s => row'[x] = row[x]
        /\ mainKill[s] # "idle" /\ mainKill'[s] = "idle"
    BY <1>9 DEF KillDone
  <2>2. QED
    BY <2>1
<1>10. ASSUME NEW s \in Sessions, ArchiveEnded(s)
      PROVE Condemned
  BY <1>10 DEF ArchiveEnded, runVars, svcVars, env, mainVars, asks
<1>11. CASE SweepApply
  BY <1>11 DEF SweepApply, Unswept, Written, runVars, svcVars, env, mainVars,
    asks
<1>12. ASSUME NEW s \in Sessions, NEW ok \in BOOLEAN, SpawnRun(s, ok)
      PROVE Condemned
  BY <1>12 DEF SpawnRun, Starts, TmuxProbe, Written, runVars, svcVars, env,
    mainVars, asks
<1>13. ASSUME NEW s \in Sessions, NEW status \in ExitStatus, OnExit(s, status)
      PROVE Condemned
  BY <1>13 DEF OnExit, Written, runVars, svcVars, env, mainVars, asks
<1>14. ASSUME NEW s \in Sessions, NEW ok \in BOOLEAN, KillHandle(s, ok)
      PROVE Condemned
  <2>1. /\ \A x \in Sessions : x # s => row'[x] = row[x]
        /\ row' = row \/ (proc[s] # "none" /\ proc'[s] = "none")
    BY <1>14 DEF KillHandle, KillProcess
  <2>2. QED
    BY <2>1
<1>15. ASSUME NEW s \in Sessions, NEW ok \in BOOLEAN, ServiceKill(s, ok)
      PROVE Condemned
  BY <1>15 DEF ServiceKill, KillProcess, EndsPty, KillsTmux, Written, runVars,
    svcVars, env, mainVars, asks
<1>16. ASSUME NEW s \in Sessions, NEW ok \in BOOLEAN, NEW fits \in BOOLEAN,
             NEW found \in BOOLEAN, Attach(s, ok, fits, found)
      PROVE Condemned
  BY <1>16 DEF Attach, TmuxProbe, Sees, runVars, svcVars, env, mainVars, asks
<1>17. ASSUME NEW ok \in BOOLEAN, NEW seen \in SUBSET Sessions,
             NEW lost \in SUBSET Sessions, NEW missed \in SUBSET Sessions,
             SvcStart(ok, seen, lost, missed)
      PROVE Condemned
  <2>1. \A s \in Sessions :
           InTmux(s) /\ row[s] = "running" /\ row'[s] # "running" => s \in missed
    BY <1>17 DEF SvcStart
  <2>2. QED
    BY <1>17, <2>1
<1> HIDE DEF TypeOK, RowStatus, Live, Terminal, ExitStatus, KillKind, InTmux,
    SweepSparesLive, Condemned
\* Every other step leaves the rows alone.
<1>18. ASSUME NEW s \in Sessions,
              \/ \E kind \in KillKind : KillStart(s, kind)
              \/ \E ok \in BOOLEAN : SpawnThrow(s, ok) \/ Reap(s, ok)
              \/ \E where \in {"tmux", "pty"} : AgentExit(s, where)
              \/ RetryRecovery(s) \/ LeaveParking(s) \/ ClientExit(s) \/ GrowOld(s)
       PROVE Condemned
  <2>1. UNCHANGED row
    BY <1>18 DEF KillStart, SpawnThrow, Reap, AgentExit, RetryRecovery, LeaveParking,
      ClientExit, GrowOld
  <2>2. QED
    BY <1>1, <2>1
<1>19. ASSUME \/ SweepRead \/ SweepNoAnswer \/ MainRestart \/ SvcCrash \/ TmuxHeals
              \/ \E ok, listed \in BOOLEAN : SweepAnswer(ok, listed)
       PROVE Condemned
  <2>1. UNCHANGED row
    BY <1>19 DEF SweepRead, SweepNoAnswer, SweepAnswer, MainRestart, SvcCrash, TmuxHeals
  <2>2. QED
    BY <1>1, <2>1
<1>20. QED
  <2>1. CASE MainNext
    BY <2>1, <1>2, <1>3, <1>4, <1>5, <1>6, <1>7, <1>8, <1>9, <1>10, <1>11, <1>12, <1>18,
       <1>19 DEF MainNext
  <2>2. CASE ServiceNext
    BY <2>2, <1>12, <1>13, <1>14, <1>15, <1>16, <1>17, <1>18, <1>19
       DEF ServiceNext, Starting
  <2>3. CASE AgentNext
    BY <2>3, <1>18, <1>19 DEF AgentNext
  <2>4. CASE UNCHANGED vars
    BY <2>4, <1>1 DEF vars
  <2>5. QED
    BY <2>1, <2>2, <2>3, <2>4 DEF Next

\* A running session's agent is destroyed by its own exit, a kill or a later
\* launch of its id, and its row is taken from it only by a kill or by a failure:
\* never by a restart, a recovery or a sweep that tmux has answered.
THEOREM RunningSpared == Spec => RunningAgentSpared
<1>1. IInv /\ [Next]_vars => [Spared /\ Condemned]_vars
  BY SparedStep, CondemnedStep DEF IInv
<1>2. QED
  BY Invariance, <1>1, PTL DEF Spec, RunningAgentSpared

\* A launch is one request; it is served once, by one process.  A crash ends the
\* processes of many sessions at once.
LEMMA RunStep ==
    TypeOK /\ OwnershipSound /\ [Next]_vars
      => Runs!Next
<1> SUFFICES ASSUME TypeOK, OwnershipSound, [Next]_vars
             PROVE Runs!Next
  OBVIOUS
<1> USE DEF TypeOK, procsOf, Runs!Next, Runs!Ask, Runs!Start, Runs!Wane
<1>1. CASE UNCHANGED <<agent, spawnQ, launches>>
  BY <1>1
<1>2. ASSUME NEW s \in Sessions, Dispatch(s)
      PROVE Runs!Next
  BY <1>2 DEF Dispatch, Asks, runVars, svcVars, env, mainVars, asks
<1>3. ASSUME NEW s \in Sessions, Respawn(s)
      PROVE Runs!Next
  BY <1>3 DEF Respawn, Asks, Written, runVars, svcVars, env, mainVars, asks
<1>4. ASSUME NEW s \in Sessions, NEW ok \in BOOLEAN, SpawnRun(s, ok)
      PROVE Runs!Next
  BY <1>4 DEF SpawnRun, Starts, TmuxProbe, Written, runVars, svcVars, env,
    mainVars, asks
<1>5. ASSUME NEW s \in Sessions, NEW ok \in BOOLEAN, SpawnThrow(s, ok)
      PROVE Runs!Next
  BY <1>5 DEF SpawnThrow, Starts, InTmux, TmuxProbe, runVars, svcVars, env,
    mainVars, asks
<1>6. ASSUME NEW s \in Sessions, NEW status \in ExitStatus, OnExit(s, status)
      PROVE Runs!Next
  BY <1>6 DEF OnExit, Written, runVars, svcVars, env, mainVars, asks
<1>7. ASSUME NEW s \in Sessions, NEW ok \in BOOLEAN, KillHandle(s, ok)
      PROVE Runs!Next
  BY <1>7 DEF KillHandle, KillProcess, EndsPty, KillsTmux, TmuxProbe, Sees,
    InTmux, Written, runVars, svcVars, env, mainVars, asks
<1>8. ASSUME NEW s \in Sessions, NEW ok \in BOOLEAN, ServiceKill(s, ok)
      PROVE Runs!Next
  BY <1>8 DEF ServiceKill, KillProcess, EndsPty, KillsTmux, Written, runVars,
    svcVars, env, mainVars, asks
<1>9. ASSUME NEW s \in Sessions, NEW ok \in BOOLEAN, NEW fits \in BOOLEAN,
             NEW found \in BOOLEAN, Attach(s, ok, fits, found)
      PROVE Runs!Next
  BY <1>9 DEF Attach, TmuxProbe, Sees, InTmux, runVars, svcVars, env,
    mainVars, asks
<1>10. ASSUME NEW s \in Sessions, RetryRecovery(s)
      PROVE Runs!Next
  BY <1>10 DEF RetryRecovery, TmuxProbe, InTmux, runVars, svcVars, env,
    mainVars, asks
<1>11. ASSUME NEW s \in Sessions, NEW ok \in BOOLEAN, Reap(s, ok)
      PROVE Runs!Next
  BY <1>11 DEF Reap, Reapable, InTmux, KillsTmux, TmuxProbe, runVars, svcVars,
    env, mainVars, asks
<1>12. CASE SvcCrash
  BY <1>12 DEF SvcCrash, runVars, svcVars, env, mainVars, asks
<1>13. ASSUME NEW ok \in BOOLEAN, NEW seen \in SUBSET Sessions,
             NEW lost \in SUBSET Sessions, NEW missed \in SUBSET Sessions,
             SvcStart(ok, seen, lost, missed)
      PROVE Runs!Next
  BY <1>13 DEF SvcStart, TmuxProbe, InTmux, runVars, svcVars, env, mainVars,
    asks
<1>14. ASSUME NEW s \in Sessions, NEW where \in {"tmux", "pty"},
             AgentExit(s, where)
      PROVE Runs!Next
  BY <1>14 DEF AgentExit, runVars, svcVars, env, mainVars, asks
<1>15. ASSUME NEW s \in Sessions, ClientExit(s)
      PROVE Runs!Next
  BY <1>15 DEF ClientExit, runVars, svcVars, env, mainVars, asks
<1> HIDE DEF TypeOK, procsOf, Runs!Next, Runs!Ask, Runs!Start, Runs!Wane
<1>16. QED
  BY <1>1, <1>2, <1>3, <1>4, <1>5, <1>6, <1>7, <1>8, <1>9, <1>10, <1>11,
     <1>12, <1>13, <1>14, <1>15
     DEF Next, MainNext, ServiceNext, AgentNext, Starting, vars, runVars,
         svcVars, env, mainVars, asks, Provision, Follow, TurnDone,
         SpawnReply, SpawnFailed, KillStart, KillDone, ArchiveEnded,
         SweepRead, SweepNoAnswer, SweepApply, SweepAnswer, MainRestart,
         LeaveParking, GrowOld, TmuxHeals

\* Whatever the order of spawns, crashes, recoveries, kills and respawns, every
\* process answers one launch: SessionLifecycle implements AgentRun.
THEOREM ProcessPerLaunch == Spec => AgentPerLaunch
<1>1. Init => Runs!Init
  BY DEF Init, Runs!Init, procsOf
<1>2. IInv /\ [Next]_vars => [Runs!Next]_<<launches, spawnQ, procsOf>>
  BY RunStep DEF IInv
<1>3. QED
  BY Invariance, <1>1, <1>2, PTL DEF Spec, AgentPerLaunch, Runs!Spec

=============================================================================

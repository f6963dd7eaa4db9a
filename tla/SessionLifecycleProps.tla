------------------------ MODULE SessionLifecycleProps ------------------------
(* What SessionLifecycle must satisfy; see the README for the hazards.      *)
EXTENDS SessionLifecycle

TypeOK ==
    /\ row \in [Sessions -> RowStatus]
    /\ agent \in [Sessions -> SUBSET {"tmux", "pty"}]
    /\ proc \in [Sessions -> {"none", "live", "hungup", "deaf"}]
    /\ viaTmux \subseteq Sessions /\ aged \subseteq Sessions /\ parked \subseteq Sessions
    /\ svcUp \in BOOLEAN /\ tmuxSeen \in BOOLEAN /\ flaky \in BOOLEAN
    /\ spawnQ \subseteq Sessions /\ killQ \subseteq Sessions
    /\ mainSpawn \in [Sessions -> {"idle", "waiting", "err"}]
    /\ mainKill \in [Sessions -> KillKind \cup {"idle"}]
    /\ turn \subseteq Sessions
    /\ sweep \in [phase : {"off", "armed", "asked", "told"},
                  rows : SUBSET Sessions, dead : SUBSET Sessions, blind : BOOLEAN]
    /\ launches \in [Sessions -> Nat]
    /\ chatted \subseteq Sessions /\ unheard \subseteq Sessions
    /\ faults \in Nat

\* The service's picture of its processes is the truth about them, whatever
\* respawns, failed kills and reattaches came before: a PTY it believes live
\* has its agent behind it, an agent outside tmux is always held by an entry
\* that knows it is not tmux's, and nothing is held while the service is down.
\* (An entry whose spawn threw before it was wired vouches for nothing.)
OwnershipSound ==
    \A s \in Sessions :
        /\ proc[s] = "live" => (IF s \in viaTmux THEN "tmux" ELSE "pty") \in agent[s]
        /\ "pty" \in agent[s] => proc[s] \in {"live", "deaf"} /\ s \notin viaTmux
        /\ s \in viaTmux => proc[s] # "none"
        /\ proc[s] # "none" => svcUp

\* An agent runs behind a row that says its launch is still to come only where
\* the spawn threw after it had started the agent, and then the main server is
\* about to mark the row failed (and the reaper to take the agent): a pending
\* row hides an agent for good only if the main server was restarted under the
\* launch.  A row that was never launched has none.
PendingAgentReported ==
    \A s \in Sessions :
        /\ agent[s] # {} => row[s] \notin {"none", "idle"}
        /\ agent[s] # {} /\ row[s] = "pending" => mainSpawn[s] = "err" \/ s \in unheard

\* The pending row of a launch that has its caller: the request is queued and
\* nothing has run, or it failed and the caller knows.  A row that is not there
\* has no process, no request and no caller.
SpawnAccounted ==
    \A s \in Sessions :
        /\ row[s] = "pending" /\ s \notin unheard =>
              \/ mainSpawn[s] = "waiting" /\ s \in spawnQ /\ agent[s] = {} /\ proc[s] = "none"
              \/ mainSpawn[s] = "err"
        /\ row[s] \in {"none", "idle"} =>
              /\ agent[s] = {} /\ proc[s] = "none" /\ s \notin spawnQ \cup chatted \cup turn
              /\ mainSpawn[s] = "idle"
        /\ row[s] = "none" => launches[s] = 0
        /\ s \in parked => row[s] \notin {"none", "idle", "pending"}

\* A session that only a dispatch has launched: a request that is still queued,
\* whatever kills, restarts and sweeps came meanwhile, belongs to a session that
\* has never had a process.
SpawnFresh ==
    \A s \in Sessions \ chatted :
        s \in spawnQ => /\ agent[s] = {} /\ proc[s] = "none"
                        /\ row[s] # "running" /\ s \notin turn

\* Orphan cleanup condemns only the dead: although it reads the rows before an
\* await and the service's answer is stale when it is used, no session on its
\* list has an agent, or can still get one.  The answer is taken at its word: a
\* list-sessions that failed reads as no sessions at all, and condemns every
\* agent the service has not reattached; and a chat turn may launch a thread's
\* session again while it is being condemned.
SweepSparesLive ==
    ~sweep.blind =>
        \A s \in sweep.dead \ chatted : agent[s] = {} /\ s \notin spawnQ

\* What the sweep remembers was once running, so it is past its spawn.
SweepListSettled ==
    \A s \in sweep.rows \cup sweep.dead :
        /\ row[s] \notin {"none", "idle"}
        /\ s \in chatted \/ s \notin spawnQ

\* The inductive invariant behind the theorems.
IInv ==
    /\ TypeOK
    /\ OwnershipSound
    /\ SpawnAccounted /\ SpawnFresh
    /\ SweepListSettled /\ SweepSparesLive

\* An agent in tmux whose row says running is destroyed only by its own exit,
\* by a kill of that session, or by a later launch of the same id, which kills
\* what lingers before it starts the replacement.
Spared ==
    \A s \in Sessions :
        InTmux(s) /\ row[s] = "running" /\ "tmux" \notin agent'[s]
           => \/ AgentExit(s, "tmux")
              \/ s \in killQ \ killQ'
              \/ row'[s] = "killed" /\ proc[s] # "none"
              \/ s \in spawnQ \ spawnQ' /\ s \in chatted

\* Nor does it lose its row, and with it the reaper's protection, but to such a
\* kill that has failed, to the exit of its client, to a launch whose answer
\* was an error, or to a look at tmux that failed and so saw no session: when
\* tmux answers, no restart, no attach and no sweep takes an agent for dead.
Condemned ==
    \A s \in Sessions :
        InTmux(s) /\ row[s] = "running" /\ row'[s] \in Terminal \cup {"gone"}
           => \/ mainKill[s] # "idle" /\ mainKill'[s] = "idle"
              \/ proc[s] # "none" /\ proc'[s] = "none"
              \/ mainSpawn[s] = "err" /\ mainSpawn'[s] = "idle"
              \/ \E ok, fits \in BOOLEAN : Attach(s, ok, fits, FALSE)
              \/ \E ok \in BOOLEAN, seen, lost, missed \in SUBSET Sessions :
                    s \in missed /\ SvcStart(ok, seen, lost, missed)
              \/ s \in sweep.dead /\ (sweep.blind \/ s \in chatted)
RunningAgentSpared == [][Spared /\ Condemned]_vars

\* A process is started only in answer to a launch, one for each, whatever the
\* order of spawn requests, crashes, recoveries, kills and respawns; a session
\* that is dispatched, and so asked for once, never has a second.
procsOf == [s \in Sessions |-> IF agent[s] = {} THEN 0
                               ELSE IF agent[s] = {"tmux", "pty"} THEN 2 ELSE 1]
Runs == INSTANCE AgentRun WITH asked <- launches, open <- spawnQ, procs <- procsOf
AgentPerLaunch == Runs!Spec

-----------------------------------------------------------------------------
\* A row does not keep saying running once the service has lost the agent: the
\* exit handler ends it, or the recovery when the service is next started.  (An
\* agent that dies while nothing drives it is found only at the next look: see
\* the hazards.)  While tmux itself fails, nothing is concluded.
StaleRunningResolved ==
    \A s \in Sessions :
        (/\ row[s] = "running" /\ agent[s] = {}
         /\ proc[s] = "hungup" \/ ~svcUp)
            ~> row[s] # "running" \/ agent[s] # {} \/ flaky


\* A dispatched session does not stay pending: it starts or it fails, unless
\* the main server, which alone holds the outcome, was restarted under it.
PendingResolves ==
    \A s \in Sessions : row[s] = "pending" ~> (row[s] # "pending" \/ s \in unheard)

-----------------------------------------------------------------------------
\* session-service.ts:1299: "so a kill or delete never leaves a process behind".
\* (A chat turn that launches a deleted session's id again is another matter.)
DeleteLeavesNoProcess ==
    \A s \in Sessions :
        (row[s] = "gone" /\ agent[s] # {}) ~> (agent[s] = {} \/ s \in chatted)
=============================================================================

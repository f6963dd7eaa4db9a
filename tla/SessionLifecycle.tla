-------------------------- MODULE SessionLifecycle --------------------------
(***************************************************************************)
(* The life of a locally hosted agent session, as three parties drive it:  *)
(*                                                                         *)
(*   - the main server (dispatch.ts, agent-sessions.ts), which inserts the *)
(*     row, asks for the spawn, asks for kills and sweeps orphans; and its *)
(*     chief of staff (chief-of-staff.ts), which launches the session of a *)
(*     thread again, under the same id, whenever it is found not to live;  *)
(*   - the session service (session-service.ts, tmux-reaper.ts), another   *)
(*     process, which owns the PTY clients, writes the row when an agent   *)
(*     starts or ends, recovers sessions after a restart and reaps tmux;   *)
(*   - the tmux server, where the agents live and survive both.            *)
(*                                                                         *)
(* The two processes share one SQLite row per session, and each statement  *)
(* `UPDATE ... WHERE id` overwrites the status unconditionally; HTTP calls *)
(* between them are split where the caller awaits.                         *)
(***************************************************************************)
EXTENDS Naturals

CONSTANTS
    Sessions,      \* session ids
    FlakyTmux,     \* may a tmux command or a statement fail, until all is well?
    FlakyAttach,   \* may an attach (fork of the tmux client) fail?
    MaxLaunches,   \* bound on the launches asked for one session
    MaxFaults      \* bound on ends of the session service's process and
                   \* restarts of the main server

ASSUME SwitchAssumption == FlakyTmux \in BOOLEAN /\ FlakyAttach \in BOOLEAN
ASSUME BoundAssumption == MaxLaunches \in Nat /\ MaxFaults \in Nat

VARIABLES
    row,        \* row[s]: agent_sessions.status, "none" before the insert and
                \* "gone" after a hard delete
    agent,      \* agent[s]: where agent processes of s run, in tmux or as a
                \* child of the service ("pty")
    proc,       \* proc[s]: the service's activeSessions entry; "hungup" when
                \* its PTY has exited and onExit has not run yet, "deaf" when
                \* the spawn threw before its handlers were wired
    viaTmux,    \* entries whose PTY is a tmux client (tmuxSessionName)
    aged,       \* tmux sessions older than TMUX_REAP_MIN_AGE_MS
    parked,     \* sessions with viewers parked until a late recovery
    svcUp,      \* is the session service running?
    tmuxSeen,   \* has this service process seen tmux answer? (cached for good)
    spawnQ,     \* POST /spawn accepted, still awaiting sessionAgentEnv
    mainSpawn,  \* mainSpawn[s]: the main server's await on that POST
    turn,       \* threads with a chat turn in progress (its consumer)
    killQ,      \* POST /kill delivered and not yet handled
    mainKill,   \* mainKill[s]: what the main server does once /kill answers
    sweep,      \* cleanupOrphanedSessions: [phase, rows, dead], and blind: did
                \* the answer miss the tmux sessions? (history)
    launches,   \* launches[s]: launches asked for so far
    chatted,    \* sessions the chief of staff has launched (history)
    unheard,    \* sessions whose launch lost its caller to a restart (history)
    flaky,      \* may tmux fail now?
    faults      \* crashes and restarts so far

env      == <<flaky, faults>>
svcVars  == <<svcUp, tmuxSeen, env>>
asks     == <<launches, chatted, unheard>>
mainVars == <<mainSpawn, mainKill, turn, sweep, asks>>
runVars  == <<agent, proc, viaTmux, aged, parked>>
vars == <<row, runVars, svcVars, spawnQ, killQ, mainVars>>

Live       == {"pending", "running"}
ExitStatus == {"completed", "failed"}
Terminal == {"completed", "failed", "killed", "deleted"}
RowStatus == {"none", "idle", "gone"} \cup Live \cup Terminal

KillKind == {"kill", "archive", "delete"}
Unswept  == [phase |-> "off", rows |-> {}, dead |-> {}, blind |-> FALSE]
Armed    == [Unswept EXCEPT !.phase = "armed"]

\* An UPDATE ... WHERE id: nothing happens to a row that was deleted.
Written(s, status) == IF row[s] = "gone" THEN "gone" ELSE status

\* isTmuxAvailable: a positive probe is cached for the service's lifetime.
TmuxProbe(ok) ==
    /\ tmuxSeen => ok
    /\ ~flaky => ok
    /\ tmuxSeen' = (tmuxSeen \/ ok)

InTmux(s) == "tmux" \in agent[s]

\* has-session, or list-sessions: a command that fails reads as "no session".
Sees(s, found) ==
    /\ found => InTmux(s)
    /\ ~flaky => found = InTmux(s)

Init ==
    /\ row = [s \in Sessions |-> "none"]
    /\ agent = [s \in Sessions |-> {}] /\ viaTmux = {}
    /\ proc = [s \in Sessions |-> "none"]
    /\ aged = {} /\ parked = {}
    /\ svcUp = TRUE /\ tmuxSeen = FALSE
    /\ spawnQ = {} /\ mainSpawn = [s \in Sessions |-> "idle"]
    /\ killQ = {} /\ mainKill = [s \in Sessions |-> "idle"]
    /\ sweep = Armed /\ turn = {}
    /\ launches = [s \in Sessions |-> 0] /\ chatted = {} /\ unheard = {}
    /\ flaky = FlakyTmux
    /\ faults = 0

-----------------------------------------------------------------------------
(* The main server: dispatch.                                              *)

\* POST /spawn: accepted, or refused while the service is down.
Asks(s) ==
    /\ IF svcUp
       THEN /\ spawnQ' = spawnQ \cup {s}
            /\ mainSpawn' = [mainSpawn EXCEPT ![s] = "waiting"]
       ELSE /\ mainSpawn' = [mainSpawn EXCEPT ![s] = "err"]
            /\ UNCHANGED spawnQ
    /\ launches' = [launches EXCEPT ![s] = @ + 1]
    /\ UNCHANGED unheard

\* dispatchAgentSession inserts the pending row and fires spawnLocal without
\* awaiting it.
Dispatch(s) ==
    /\ row[s] = "none" /\ launches[s] < MaxLaunches
    /\ row' = [row EXCEPT ![s] = "pending"]
    /\ Asks(s)
    /\ UNCHANGED <<runVars, svcVars, killQ, mainKill, turn, sweep, chatted>>

\* A new thread of the chief of staff is given the session it will keep.
Provision(s) ==
    /\ row[s] = "none"
    /\ row' = [row EXCEPT ![s] = "idle"]
    /\ UNCHANGED <<runVars, svcVars, spawnQ, killQ, mainVars>>

\* A chat turn that was told the thread's session does not live, or could not
\* be told (both may be wrong by now): the row is set running, whatever it
\* holds, and the same id launched again.  One launch of an id at a time.
Respawn(s) ==
    /\ row[s] # "none" /\ launches[s] < MaxLaunches
    /\ mainSpawn[s] = "idle" /\ s \notin spawnQ
    /\ row' = [row EXCEPT ![s] = Written(s, "running")]
    /\ Asks(s)
    /\ chatted' = chatted \cup {s}
    /\ UNCHANGED <<runVars, svcVars, killQ, mainKill, turn, sweep>>

\* A chat turn on a session that lives: it is told over stdin.
Follow(s) ==
    /\ svcUp /\ proc[s] # "none"
    /\ row' = [row EXCEPT ![s] = Written(s, "running")]
    /\ turn' = turn \cup {s}
    /\ UNCHANGED <<runVars, svcVars, spawnQ, killQ, mainSpawn, mainKill, sweep, asks>>

\* The turn's reply is stored, and with it, once more, the status.
TurnDone(s) ==
    /\ s \in turn
    /\ row' = [row EXCEPT ![s] = Written(s, "running")]
    /\ turn' = turn \ {s}
    /\ UNCHANGED <<runVars, svcVars, spawnQ, killQ, mainSpawn, mainKill, sweep, asks>>

\* The POST answered 200.  spawnLocal has nothing left to do; the chief of
\* staff waits 800 ms, sets the row running again and starts the turn.
SpawnReply(s) ==
    /\ mainSpawn[s] = "waiting" /\ s \notin spawnQ
    /\ mainSpawn' = [mainSpawn EXCEPT ![s] = "idle"]
    /\ IF s \in chatted
       THEN /\ row' = [row EXCEPT ![s] = Written(s, "running")]
            /\ turn' = turn \cup {s}
       ELSE UNCHANGED <<row, turn>>
    /\ UNCHANGED <<runVars, svcVars, spawnQ, killQ, mainKill, sweep, asks>>

\* Mutant: the catch retries the POST it cannot know was never served.
SpawnFailedRetries(s) ==
    /\ mainSpawn[s] = "err"
    /\ mainSpawn' = [mainSpawn EXCEPT ![s] = "waiting"]
    /\ spawnQ' = spawnQ \cup {s}
    /\ UNCHANGED <<row, runVars, svcVars, killQ, mainKill, turn, sweep, asks>>

\* Mutant: the catch logs and leaves the row as it is.
SpawnFailedSilent(s) ==
    /\ mainSpawn[s] = "err"
    /\ mainSpawn' = [mainSpawn EXCEPT ![s] = "idle"]
    /\ UNCHANGED <<row, runVars, svcVars, spawnQ, killQ, mainKill, turn, sweep, asks>>

\* The catch, of spawnLocal and of the chief of staff: the row is marked
\* failed whatever it holds by now.
SpawnFailed(s) ==
    /\ mainSpawn[s] = "err"
    /\ row' = [row EXCEPT ![s] = Written(s, "failed")]
    /\ mainSpawn' = [mainSpawn EXCEPT ![s] = "idle"]
    /\ UNCHANGED <<runVars, svcVars, spawnQ, killQ, mainKill, turn, sweep, asks>>

-----------------------------------------------------------------------------
(* The main server: kill, archive, delete.                                 *)

\* killSession (and the routes that archive or delete through it) read the
\* row, then await POST /kill.  A delete of an ended row asks for it too.
KillStart(s, kind) ==
    /\ mainKill[s] = "idle"
    /\ \/ row[s] \in Live
       \/ row[s] \in Terminal \cup {"idle"} /\ kind = "delete"
    /\ mainKill' = [mainKill EXCEPT ![s] = kind]
    /\ killQ' = IF svcUp THEN killQ \cup {s} ELSE killQ
    /\ UNCHANGED <<row, runVars, svcVars, spawnQ, mainSpawn, turn, sweep, asks>>

\* Mutant: the archive writes a status no other part of the code knows.
KillDoneArchived(s) ==
    /\ mainKill[s] # "idle"
    /\ row' = [row EXCEPT ![s] = IF mainKill[s] = "archive"
                                       THEN "archived" ELSE Written(s, "killed")]
    /\ mainKill' = [mainKill EXCEPT ![s] = "idle"]
    /\ UNCHANGED <<runVars, svcVars, spawnQ, killQ, mainSpawn, turn, sweep, asks>>

\* The await ends (answer, refusal, or the 5 s timeout with the request still
\* queued) and the "safety net" write happens whatever the row holds by now.
KillDone(s) ==
    /\ mainKill[s] # "idle"
    /\ row' = [row EXCEPT ![s] =
                  CASE mainKill[s] = "kill"    -> Written(s, "killed")
                    [] mainKill[s] = "archive" -> Written(s, "deleted")
                    [] OTHER                   -> "gone"]
    /\ mainKill' = [mainKill EXCEPT ![s] = "idle"]
    /\ UNCHANGED <<runVars, svcVars, spawnQ, killQ, mainSpawn, turn, sweep, asks>>

\* Archiving a session that has already ended only relabels the row.
ArchiveEnded(s) ==
    /\ row[s] \in (Terminal \cup {"idle"}) \ {"deleted"} /\ mainKill[s] = "idle"
    /\ row' = [row EXCEPT ![s] = "deleted"]
    /\ UNCHANGED <<runVars, svcVars, spawnQ, killQ, mainVars>>

-----------------------------------------------------------------------------
(* The main server: orphan cleanup, once per boot.                         *)

\* cleanupOrphanedSessions reads the running rows, then awaits /health.
SweepRead ==
    /\ sweep.phase = "armed"
    /\ LET running == {s \in Sessions : row[s] = "running"}
       IN sweep' = IF running = {} THEN Unswept
                   ELSE [Unswept EXCEPT !.phase = "asked", !.rows = running]
    /\ UNCHANGED <<row, runVars, svcVars, spawnQ, killQ, mainSpawn, mainKill, turn, asks>>

\* The verdicts are on their way; without any, the sweep is over.
Told(dead, listed) ==
    IF dead = {} THEN Unswept
    ELSE [Unswept EXCEPT !.phase = "told", !.dead = dead, !.blind = ~listed]

\* Mutant: only the active sessions count as alive (a failed probe too).
SweepAnswerActiveOnly(ok, listed) ==
    /\ sweep.phase = "asked" /\ svcUp
    /\ TmuxProbe(ok) /\ (~flaky => listed)
    /\ sweep' = Told({s \in sweep.rows : proc[s] = "none"}, listed)
    /\ UNCHANGED <<row, runVars, svcUp, env, spawnQ, killQ, mainSpawn, mainKill, turn, asks>>

\* /health lists the active sessions and the tmux sessions, none of them if
\* list-sessions fails; with tmux unavailable isSessionAliveNow concludes
\* nothing.
SweepAnswer(ok, listed) ==
    /\ sweep.phase = "asked" /\ svcUp
    /\ TmuxProbe(ok) /\ (~flaky => listed)
    /\ sweep' = Told({s \in sweep.rows :
                          ok /\ proc[s] = "none" /\ ~(listed /\ InTmux(s))}, listed)
    /\ UNCHANGED <<row, runVars, svcUp, env, spawnQ, killQ, mainSpawn, mainKill, turn, asks>>

\* The service is unreachable: every verdict is inconclusive.
SweepNoAnswer ==
    /\ sweep.phase = "asked" /\ ~svcUp
    /\ sweep' = Unswept
    /\ UNCHANGED <<row, runVars, svcVars, spawnQ, killQ, mainSpawn, mainKill, turn, asks>>

SweepApply ==
    /\ sweep.phase = "told"
    /\ row' = [s \in Sessions |->
                 IF s \in sweep.dead THEN Written(s, "failed") ELSE row[s]]
    /\ sweep' = Unswept
    /\ UNCHANGED <<runVars, svcVars, spawnQ, killQ, mainSpawn, mainKill, turn, asks>>

\* The main server restarts: its awaits are gone, requests it already sent
\* are not, and the orphan sweep is armed again.
MainRestart ==
    /\ faults < MaxFaults
    /\ faults' = faults + 1
    /\ unheard' = unheard \cup {s \in Sessions : mainSpawn[s] # "idle"}
    /\ mainSpawn' = [s \in Sessions |-> "idle"]
    /\ mainKill' = [s \in Sessions |-> "idle"]
    /\ turn' = {}
    /\ sweep' = Armed
    /\ UNCHANGED <<row, runVars, svcUp, tmuxSeen, flaky, spawnQ, killQ, launches, chatted>>

-----------------------------------------------------------------------------
(* The session service: spawn, exit, kill.                                 *)

\* The agent process is there, and the PTY the entry will hold.
Starts(s, ok) ==
    /\ agent' = [agent EXCEPT ![s] = @ \cup {IF ok THEN "tmux" ELSE "pty"}]
    /\ viaTmux' = IF ok THEN viaTmux \cup {s} ELSE viaTmux
    /\ aged' = IF ok THEN aged \ {s} ELSE aged

\* Mutant: the service leaves it to the main server to write "running".
SpawnRunUnrecorded(s, ok) ==
    /\ svcUp /\ s \in spawnQ /\ proc[s] = "none"
    /\ TmuxProbe(ok)
    /\ Starts(s, ok)
    /\ proc' = [proc EXCEPT ![s] = "live"]
    /\ spawnQ' = spawnQ \ {s}
    /\ UNCHANGED <<row, parked, svcUp, env, killQ, mainVars>>

\* spawnSession, once the environment is built.  It looks at activeSessions,
\* never at the row: whatever status the row has becomes "running".  In tmux,
\* a session of that name that lingers is killed first and replaced.
SpawnRun(s, ok) ==
    /\ svcUp /\ s \in spawnQ /\ proc[s] = "none"
    /\ TmuxProbe(ok)
    /\ Starts(s, ok)
    /\ proc' = [proc EXCEPT ![s] = "live"]
    /\ row' = [row EXCEPT ![s] = Written(s, "running")]
    /\ spawnQ' = spawnQ \ {s}
    /\ UNCHANGED <<parked, svcUp, env, killQ, mainVars>>

\* spawnSession throws, and POST /spawn answers 400:
SpawnThrow(s, ok) ==
    /\ svcUp /\ s \in spawnQ
    /\ spawnQ' = spawnQ \ {s}
    /\ mainSpawn' = [mainSpawn EXCEPT ![s] = IF @ = "waiting" THEN "err" ELSE @]
    /\ \/ \* ... at once: already active, no such runtime, duplicate session
          UNCHANGED <<runVars, tmuxSeen>>
       \/ \* ... when new-session fails, the lingering session being killed
          /\ proc[s] = "none" /\ InTmux(s) /\ TmuxProbe(TRUE)
          /\ agent' = [agent EXCEPT ![s] = @ \ {"tmux"}]
          /\ aged' = aged \ {s}
          /\ UNCHANGED <<proc, viaTmux, parked>>
       \/ \* ... when the attach to the new tmux session, or the read of the
          \* row, fails: the agent is there and no entry holds it
          /\ proc[s] = "none" /\ (FlakyAttach \/ flaky) /\ TmuxProbe(TRUE)
          /\ agent' = [agent EXCEPT ![s] = @ \cup {"tmux"}]
          /\ aged' = aged \ {s}
          /\ UNCHANGED <<proc, viaTmux, parked>>
       \/ \* ... when the row cannot be written: the entry is there, unwired
          /\ proc[s] = "none" /\ flaky /\ TmuxProbe(ok)
          /\ Starts(s, ok)
          /\ proc' = [proc EXCEPT ![s] = "deaf"]
          /\ UNCHANGED parked
    /\ UNCHANGED <<row, svcUp, env, killQ, mainKill, turn, sweep, asks>>

\* An agent process ends by itself; tmux closes its session, and the service's
\* PTY, if it has one on it, exits with it.
AgentExit(s, where) ==
    /\ where \in agent[s]
    /\ agent' = [agent EXCEPT ![s] = @ \ {where}]
    /\ proc' = [proc EXCEPT ![s] =
                  IF @ = "live" /\ (where = "tmux" <=> s \in viaTmux) THEN "hungup" ELSE @]
    /\ aged' = IF where = "tmux" THEN aged \ {s} ELSE aged
    /\ UNCHANGED <<row, viaTmux, parked, svcVars, spawnQ, killQ, mainVars>>

\* The attach client alone exits (the tmux prefix key is not unbound, so the
\* detach command works from the pane; or the client process dies).
ClientExit(s) ==
    /\ s \in viaTmux /\ proc[s] = "live"
    /\ proc' = [proc EXCEPT ![s] = "hungup"]
    /\ UNCHANGED <<row, agent, viaTmux, aged, parked, svcVars, spawnQ, killQ, mainVars>>

\* wireOnExit: the PTY's exit is taken for the agent's.
OnExit(s, status) ==
    /\ svcUp /\ proc[s] = "hungup"
    /\ row' = [row EXCEPT ![s] = Written(s, status)]
    /\ proc' = [proc EXCEPT ![s] = "none"]
    /\ viaTmux' = viaTmux \ {s}
    /\ UNCHANGED <<agent, aged, parked, svcVars, spawnQ, killQ, mainVars>>

\* killTmuxSession: `tmux kill-session` may fail and leave the agent there.
KillsTmux(s, ok) ==
    /\ ~flaky => ok
    /\ agent' = IF ok THEN [agent EXCEPT ![s] = @ \ {"tmux"}] ELSE agent
    /\ aged' = IF ok THEN aged \ {s} ELSE aged

\* The PTY is ended and, if it was a tmux client, the tmux session.
EndsPty(s, ok) ==
    IF s \in viaTmux THEN KillsTmux(s, ok)
    ELSE agent' = [agent EXCEPT ![s] = @ \ {"pty"}] /\ UNCHANGED aged

\* Mutant: the entry stays in activeSessions after the kill.
KillProcessKeepsEntry(s, ok) ==
    /\ proc[s] # "none"
    /\ EndsPty(s, ok)
    /\ row' = [row EXCEPT ![s] = Written(s, "killed")]
    /\ UNCHANGED <<proc, viaTmux>>

\* killSessionProcess: end the PTY and the tmux session, write the row.
KillProcess(s, ok) ==
    /\ proc[s] # "none"
    /\ EndsPty(s, ok)
    /\ proc' = [proc EXCEPT ![s] = "none"]
    /\ viaTmux' = viaTmux \ {s}
    /\ row' = [row EXCEPT ![s] = Written(s, "killed")]

\* POST /kill/:id: the active process, or a tmux session nothing drives, or 404.
KillHandle(s, ok) ==
    /\ svcUp /\ s \in killQ
    /\ killQ' = killQ \ {s}
    /\ \/ KillProcess(s, ok) /\ UNCHANGED tmuxSeen
       \/ /\ proc[s] = "none"
          /\ \E avail, found \in BOOLEAN :
                /\ TmuxProbe(avail) /\ Sees(s, found)
                /\ IF avail /\ found THEN KillsTmux(s, ok)
                   ELSE UNCHANGED <<agent, aged>>
          /\ UNCHANGED <<row, proc, viaTmux>>
    /\ UNCHANGED <<parked, svcUp, env, spawnQ, mainVars>>

\* A viewer's own kill message, or the startup health check 45 s after a
\* spawn finding no meaningful output: killSessionProcess without a request.
ServiceKill(s, ok) ==
    /\ svcUp /\ KillProcess(s, ok)
    /\ UNCHANGED <<parked, svcVars, spawnQ, killQ, mainVars>>

-----------------------------------------------------------------------------
(* The session service: crash, recovery, reaper.                           *)

\* The service process ends.  Its attach clients go with it, agents it hosts
\* without tmux die, requests it had accepted are reset.
SvcCrash ==
    /\ svcUp /\ faults < MaxFaults
    /\ faults' = faults + 1
    /\ svcUp' = FALSE /\ tmuxSeen' = FALSE
    /\ agent' = [s \in Sessions |-> agent[s] \ {"pty"}]
    /\ proc' = [s \in Sessions |-> "none"] /\ viaTmux' = {}
    /\ parked' = {}
    /\ spawnQ' = {} /\ killQ' = {}
    /\ mainSpawn' = [s \in Sessions |->
                       IF mainSpawn[s] = "waiting" THEN "err" ELSE mainSpawn[s]]
    /\ UNCHANGED <<row, aged, flaky, mainKill, turn, sweep, asks>>

\* Mutant: a session whose tmux session is gone is left for somebody else.
SvcStartNoVerdict(ok, seen, lost, missed) ==
    /\ ~svcUp
    /\ svcUp' = TRUE
    /\ TmuxProbe(ok)
    /\ seen \subseteq {s \in Sessions : row[s] = "running"}
    /\ lost = {} /\ missed = {}
    /\ LET found == {s \in seen : ok /\ InTmux(s)} IN
       /\ proc' = [s \in Sessions |-> IF s \in found THEN "live" ELSE "none"]
       /\ viaTmux' = found
    /\ UNCHANGED <<row, agent, aged, parked, env, spawnQ, killQ, mainVars>>

\* Start: recoverSessions visits the running rows before the port is bound.
\* `seen` is short of all of them when a statement throws half way (the
\* startup guard continues); `lost` are those whose reattach fails though
\* has-session then sees them, `missed` those it does not see.
SvcStart(ok, seen, lost, missed) ==
    /\ ~svcUp
    /\ svcUp' = TRUE
    /\ TmuxProbe(ok)
    /\ seen \subseteq {s \in Sessions : row[s] = "running"}
    /\ lost \subseteq {s \in seen : InTmux(s)} /\ missed \subseteq {s \in seen : InTmux(s)}
    /\ ~flaky => missed = {} /\ seen = {s \in Sessions : row[s] = "running"}
    /\ ~FlakyAttach /\ ~flaky => lost = {}
    /\ LET found == {s \in seen \ (lost \cup missed) : ok /\ InTmux(s)} IN
       /\ proc' = [s \in Sessions |-> IF s \in found THEN "live" ELSE "none"]
       /\ viaTmux' = found
    /\ row' = [s \in Sessions |->
                 IF ok /\ s \in seen /\ (s \in missed \/ ~InTmux(s)) THEN "failed" ELSE row[s]]
    /\ UNCHANGED <<agent, aged, parked, env, spawnQ, killQ, mainVars>>

\* attachAdminSocket (and /status, which only reattaches) on a row that runs
\* while nothing drives it: reattach; or park the viewer while tmux cannot be
\* asked or still has the session; or mark the row stale.
Attach(s, ok, fits, found) ==
    /\ svcUp /\ row[s] = "running" /\ proc[s] = "none"
    /\ TmuxProbe(ok) /\ Sees(s, found)
    /\ ~FlakyAttach /\ ~flaky => fits
    /\ \/ /\ ok /\ found /\ fits
          /\ proc' = [proc EXCEPT ![s] = "live"]
          /\ viaTmux' = viaTmux \cup {s}
          /\ UNCHANGED <<row, parked>>
       \/ /\ ~ok \/ (found /\ ~fits)
          /\ parked' = parked \cup {s}
          /\ UNCHANGED <<row, proc, viaTmux>>
       \/ /\ ok /\ ~found
          /\ row' = [row EXCEPT ![s] = "failed"]
          /\ UNCHANGED <<proc, viaTmux, parked>>
    /\ UNCHANGED <<agent, aged, svcUp, env, spawnQ, killQ, mainVars>>

\* A retry (timer or keystroke) finds the session live or makes it live, and
\* hands the parked viewers over.
RetryRecovery(s) ==
    /\ svcUp /\ s \in parked
    /\ \/ proc[s] # "none" /\ UNCHANGED <<proc, viaTmux, tmuxSeen>>
       \/ /\ proc[s] = "none" /\ row[s] = "running" /\ InTmux(s)
          /\ TmuxProbe(TRUE)
          /\ proc' = [proc EXCEPT ![s] = "live"]
          /\ viaTmux' = viaTmux \cup {s}
    /\ parked' = parked \ {s}
    /\ UNCHANGED <<row, agent, aged, svcUp, env, spawnQ, killQ, mainVars>>

\* The last parked viewer closes its socket.
LeaveParking(s) ==
    /\ s \in parked
    /\ parked' = parked \ {s}
    /\ UNCHANGED <<row, agent, proc, viaTmux, aged, svcVars, spawnQ, killQ, mainVars>>

\* A tmux session passes TMUX_REAP_MIN_AGE_MS.
GrowOld(s) ==
    /\ InTmux(s) /\ s \notin aged
    /\ aged' = aged \cup {s}
    /\ UNCHANGED <<row, agent, proc, viaTmux, parked, svcVars, spawnQ, killQ, mainVars>>

\* Mutants: the row is not consulted; a missing row is not a verdict.
ReapableAnyRow(s) == InTmux(s) /\ s \in aged /\ proc[s] = "none"

\* planTmuxReap: an old tmux session nothing drives or is parked for, its row
\* ended or missing.
Reapable(s) ==
    /\ InTmux(s) /\ s \in aged
    /\ proc[s] = "none" /\ s \notin parked
    /\ row[s] \in Terminal \cup {"gone"}

\* reapOrphanedTmuxSessions, per candidate.
Reap(s, ok) ==
    /\ svcUp /\ TmuxProbe(TRUE)
    /\ Reapable(s)
    /\ KillsTmux(s, ok)
    /\ UNCHANGED <<row, proc, viaTmux, parked, svcUp, env, spawnQ, killQ, mainVars>>

-----------------------------------------------------------------------------
MainNext ==
    \/ \E s \in Sessions :
          \/ Dispatch(s) \/ Provision(s) \/ Respawn(s) \/ Follow(s) \/ TurnDone(s)
          \/ SpawnReply(s) \/ SpawnFailed(s)
          \/ \E kind \in KillKind : KillStart(s, kind)
          \/ KillDone(s) \/ ArchiveEnded(s)
    \/ SweepRead \/ SweepNoAnswer \/ SweepApply
    \/ \E ok, listed \in BOOLEAN : SweepAnswer(ok, listed)
    \/ MainRestart

Starting ==
    /\ ~svcUp
    /\ \E ok \in BOOLEAN, seen, lost, missed \in SUBSET Sessions :
          SvcStart(ok, seen, lost, missed)

ServiceNext ==
    \/ \E s \in Sessions :
          \/ \E ok \in BOOLEAN : SpawnRun(s, ok) \/ SpawnThrow(s, ok)
          \/ \E status \in ExitStatus : OnExit(s, status)
          \/ \E ok \in BOOLEAN : KillHandle(s, ok)
          \/ \E ok \in BOOLEAN : ServiceKill(s, ok)
          \/ \E ok, fits, found \in BOOLEAN : Attach(s, ok, fits, found)
          \/ RetryRecovery(s) \/ LeaveParking(s)
          \/ \E ok \in BOOLEAN : Reap(s, ok)
    \/ SvcCrash
    \/ Starting

\* From here on tmux answers whenever it is asked.
TmuxHeals ==
    /\ flaky /\ flaky' = FALSE
    /\ UNCHANGED <<row, runVars, svcUp, tmuxSeen, faults, spawnQ, killQ, mainVars>>

AgentNext ==
    \/ \E s \in Sessions :
          \/ \E where \in {"tmux", "pty"} : AgentExit(s, where)
          \/ ClientExit(s) \/ GrowOld(s)
    \/ TmuxHeals

Next == MainNext \/ ServiceNext \/ AgentNext

Spec == Init /\ [][Next]_vars

\* What the two event loops, their timers and systemd's restart of the service
\* guarantee.  Nothing is assumed of users, agents, crashes or tmux.
Fairness ==
    /\ \A s \in Sessions :
          /\ WF_vars(SpawnFailed(s))
          /\ WF_vars(\E ok \in BOOLEAN : SpawnRun(s, ok) \/ SpawnThrow(s, ok))
          /\ WF_vars(\E status \in ExitStatus : OnExit(s, status))
          /\ WF_vars(GrowOld(s))
          /\ WF_vars(\E ok \in BOOLEAN : Reap(s, ok))
    /\ WF_vars(Starting)

\* A kill that was asked for is handled and its caller goes on.
KillFairness ==
    \A s \in Sessions : /\ WF_vars(KillDone(s))
                       /\ WF_vars(\E ok \in BOOLEAN : KillHandle(s, ok))

FairSpec == Spec /\ Fairness
FairKillSpec == FairSpec /\ KillFairness
=============================================================================

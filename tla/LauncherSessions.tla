--------------------------- MODULE LauncherSessions ---------------------------
(***************************************************************************)
(* Sessions that run on other machines.  A launcher daemon keeps a WebSocket *)
(* to the main server, registers, is told to launch and to kill, and reports *)
(* what started and what ended.  It drops what it has to say while it is     *)
(* disconnected and reconnects under the same id; the server keeps a registry *)
(* (launcher-registry.ts) of the connection each launcher has now.           *)
(*                                                                         *)
(* Every connection is a pair of channels.  Each end sees it close at a time *)
(* of its own: the server may still read from a connection that the daemon   *)
(* has left, after it has read from the daemon's next one.                   *)
(***************************************************************************)
EXTENDS Naturals, Sequences, Functions

CONSTANTS
    Sessions,     \* session ids
    Launchers,    \* launcher ids, all of one machine
    MaxConns,     \* MaxConns[l]: bound on the connections l ever makes
    MaxRestarts   \* bound on the restarts of the main server

ASSUME BoundAssumption == MaxConns \in [Launchers -> Nat] /\ MaxRestarts \in Nat

Conns == UNION {{l} \X (1..MaxConns[l]) : l \in Launchers}
None  == <<>>

VARIABLES
    row,       \* row[s]: agent_sessions.status, "none" before the insert
    kind,      \* kind[s]: "pinned" (the pin of its owner chose the launcher),
               \* "plain" (any other dispatch: no pin, or the caller named the
               \* launcher), "harness", "resume"
    handed,    \* sessions for which a connected launcher was found (history)
    target,    \* target[s]: launcher_id, or None
    stage,     \* stage[s]: what the dispatch still waits for
    via,       \* via[s]: the connection a dispatch took before it waited
    local,     \* sessions whose agent runs on this server
    reg,       \* reg[l]: the registry's connection of l, or None
    known,     \* connections that have registered
    srv,       \* srv[c]: the server's end of a connection
    machine,   \* machines.status
    link,      \* link[l]: the daemon's connection, or None
    up, down,  \* up[c], down[c]: what is on its way to the server, to the daemon
    agents,    \* agents[l]: the daemon's session map
    dying,     \* sessions whose pty the daemon has killed
    blind,     \* rows ended without their launcher (a history variable)
    boots      \* restarts of the main server so far

sessionVars == <<row, kind, handed, target, stage, via, local, blind>>
serverVars  == <<reg, known, srv, machine>>
daemonVars  == <<link, agents, dying>>
vars == <<sessionVars, serverVars, daemonVars, up, down, boots>>

Active == {"pending", "running"}
Ended  == {"completed", "failed", "killed"}

IsOpen(c)   == c # None /\ srv[c] = "open"
Readable(c) == srv[c] \in {"open", "closing"}

\* ws.send on a socket that is not open drops the message without an error.
SrvSend(c, m) ==
    down' = IF IsOpen(c) /\ link[c[1]] = c THEN [down EXCEPT ![c] = Append(@, m)] ELSE down

\* sendToServer: nothing is kept for the next connection.
DaemonSend(l, m) ==
    up' = IF link[l] # None /\ Readable(link[l])
          THEN [up EXCEPT ![link[l]] = Append(@, m)] ELSE up

Init ==
    /\ row = [s \in Sessions |-> "none"] /\ kind = [s \in Sessions |-> "plain"] /\ handed = {}
    /\ target = [s \in Sessions |-> None] /\ stage = [s \in Sessions |-> "idle"]
    /\ via = [s \in Sessions |-> None] /\ local = {} /\ blind = {}
    /\ reg = [l \in Launchers |-> None] /\ known = {}
    /\ srv = [c \in Conns |-> "new"] /\ machine = "offline"
    /\ link = [l \in Launchers |-> None]
    /\ up = [c \in Conns |-> <<>>] /\ down = [c \in Conns |-> <<>>]
    /\ agents = [l \in Launchers |-> {}] /\ dying = {}
    /\ boots = 0

-----------------------------------------------------------------------------
(* Connections.                                                             *)

\* connect, up to the register message sent on open.
Connect(l) ==
    /\ link[l] = None
    /\ \E k \in 1..MaxConns[l] :
          LET c == <<l, k>> IN
          /\ srv[c] = "new" /\ \A j \in 1..(k - 1) : srv[<<l, j>>] # "new"
          /\ srv' = [srv EXCEPT ![c] = "open"]
          /\ link' = [link EXCEPT ![l] = c]
          /\ up' = [up EXCEPT ![c] = <<[type |-> "register"]>>]
    /\ UNCHANGED <<sessionVars, reg, known, machine, agents, dying, down, boots>>

\* The daemon sees its connection close.
Lose(l) ==
    /\ link[l] # None
    /\ link' = [link EXCEPT ![l] = None]
    /\ down' = [down EXCEPT ![link[l]] = <<>>]
    /\ UNCHANGED <<sessionVars, serverVars, agents, dying, up, boots>>

\* registerLauncher: a new connection replaces the old.
Register(c) ==
    /\ Readable(c) /\ up[c] # <<>> /\ Head(up[c]).type = "register"
    /\ up' = [up EXCEPT ![c] = Tail(@)]
    /\ known' = known \cup {c}
    /\ srv' = [d \in Conns |->
                 IF d = reg[c[1]] /\ d # c /\ srv[d] = "open" THEN "closing" ELSE srv[d]]
    /\ reg' = [reg EXCEPT ![c[1]] = c]
    /\ machine' = "online"
    /\ UNCHANGED <<sessionVars, daemonVars, down, boots>>

\* Mutant: another launcher of the machine is not looked for.
UnregisterAlone(l) ==
    /\ reg' = [reg EXCEPT ![l] = None]
    /\ machine' = "offline"

\* unregisterLauncher.
Unregister(l) ==
    /\ reg' = [reg EXCEPT ![l] = None]
    /\ machine' = IF \A m \in Launchers \ {l} : reg[m] = None THEN "offline" ELSE machine

\* Mutant: whatever connection closes takes the launcher with it.
SrvCloseAny(c) ==
    /\ Readable(c)
    /\ srv' = [srv EXCEPT ![c] = "closed"]
    /\ up' = [up EXCEPT ![c] = <<>>]
    /\ IF c \in known /\ reg[c[1]] # None THEN Unregister(c[1]) ELSE UNCHANGED <<reg, machine>>
    /\ UNCHANGED <<sessionVars, known, daemonVars, down, boots>>

\* The close event at the server: only the registry's own connection counts.
SrvClose(c) ==
    /\ Readable(c)
    /\ srv' = [srv EXCEPT ![c] = "closed"]
    /\ up' = [up EXCEPT ![c] = <<>>]
    /\ IF c \in known /\ reg[c[1]] = c THEN Unregister(c[1]) ELSE UNCHANGED <<reg, machine>>
    /\ UNCHANGED <<sessionVars, known, daemonVars, down, boots>>

\* pruneStaleLaunchers.  Heartbeats themselves are left out: an entry is stale
\* if the daemon has left the connection or its messages are held up.
Prune(l) ==
    /\ reg[l] # None
    /\ link[l] # reg[l] \/ up[reg[l]] # <<>>
    /\ srv' = [srv EXCEPT ![reg[l]] = IF @ = "open" THEN "closing" ELSE @]
    /\ reg' = [reg EXCEPT ![l] = None]
    /\ UNCHANGED <<sessionVars, known, machine, daemonVars, up, down, boots>>

\* The main server restarts: registry, sockets and waiting dispatches are gone,
\* and the machines start as offline.
Restart ==
    /\ boots < MaxRestarts
    /\ boots' = boots + 1
    /\ reg' = [l \in Launchers |-> None] /\ machine' = "offline"
    /\ srv' = [c \in Conns |-> IF srv[c] = "new" THEN "new" ELSE "closed"]
    /\ up' = [c \in Conns |-> <<>>]
    /\ stage' = [s \in Sessions |-> IF stage[s] = "spawn" THEN "spawn" ELSE "idle"]
    /\ via' = [s \in Sessions |-> None]
    /\ UNCHANGED <<row, kind, handed, target, local, blind, known, daemonVars, down>>

-----------------------------------------------------------------------------
(* Dispatch (dispatchAgentSession, dispatchHarnessSession) and resume.       *)

\* The row, and the launcher found in the registry, connected or not.
Insert(s, l, k) ==
    /\ row[s] = "none"
    /\ row' = [row EXCEPT ![s] = "pending"]
    /\ kind' = [kind EXCEPT ![s] = k]
    /\ target' = [target EXCEPT ![s] = IF reg[l] = None THEN None ELSE <<l>>]
    /\ handed' = IF IsOpen(reg[l]) THEN handed \cup {s} ELSE handed
    /\ UNCHANGED <<local, blind, serverVars, daemonVars, up, boots>>

\* A session whose launcher comes from its owner's pin is refused unless that
\* launcher is connected, as is a harness; any other falls back to this server,
\* as a local run under the launcher's id if the registry still has an entry.
Dispatch(s, l, k) ==
    /\ k \in {"pinned", "harness"} => IsOpen(reg[l])
    /\ Insert(s, l, k)
    /\ stage' = [stage EXCEPT ![s] = IF IsOpen(reg[l]) THEN "sync" ELSE "spawn"]
    /\ via' = [via EXCEPT ![s] = IF IsOpen(reg[l]) /\ k # "harness" THEN reg[l] ELSE None]
    /\ UNCHANGED down

\* resumeAgentSession, of anybody's session: no pin is looked at.  The launch
\* goes out with the row, or the session is run on this server.
Resume(s, l) ==
    /\ Insert(s, l, "resume")
    /\ IF IsOpen(reg[l])
       THEN SrvSend(reg[l], [type |-> "launch", sid |-> s]) /\ UNCHANGED stage
       ELSE stage' = [stage EXCEPT ![s] = "spawn"] /\ UNCHANGED down
    /\ UNCHANGED via

\* Mutant: a launch that cannot be sent falls back to this server.
SendLaunchOrSpawn(s) ==
    /\ stage[s] = "sync" /\ kind[s] # "harness"
    /\ stage' = [stage EXCEPT ![s] = IF IsOpen(via[s]) THEN "idle" ELSE "spawn"]
    /\ SrvSend(via[s], [type |-> "launch", sid |-> s])
    /\ via' = [via EXCEPT ![s] = None]
    /\ UNCHANGED <<row, kind, handed, target, local, blind, serverVars, daemonVars, up, boots>>

\* The codebase and the attachments are on the launcher, or their transfer
\* failed: the launch goes to the connection taken at the dispatch.
SendLaunch(s) ==
    /\ stage[s] = "sync" /\ kind[s] # "harness"
    /\ stage' = [stage EXCEPT ![s] = "idle"]
    /\ SrvSend(via[s], [type |-> "launch", sid |-> s])
    /\ via' = [via EXCEPT ![s] = None]
    /\ UNCHANGED <<row, kind, handed, target, local, blind, serverVars, daemonVars, up, boots>>

\* The same of a harness: sendAndWait looks the launcher up again, fails the
\* row if it is away, and waits for the answer.
SendHarness(s) ==
    LET c == reg[target[s][1]] IN
    /\ stage[s] = "sync" /\ kind[s] = "harness"
    /\ stage' = [stage EXCEPT ![s] = IF IsOpen(c) THEN "reply" ELSE "idle"]
    /\ row' = IF IsOpen(c) THEN row ELSE [row EXCEPT ![s] = "failed"]
    /\ SrvSend(c, [type |-> "launch", sid |-> s])
    /\ UNCHANGED <<kind, handed, target, via, local, blind, serverVars, daemonVars, up, boots>>

\* Mutant: the timer is not armed for a launcher that has gone.
HarnessTimeoutConnected(s) ==
    /\ stage[s] = "reply" /\ reg[target[s][1]] # None
    /\ stage' = [stage EXCEPT ![s] = "idle"]
    /\ row' = [row EXCEPT ![s] = "failed"]
    /\ blind' = blind \cup {s}
    /\ UNCHANGED <<kind, handed, target, via, local, serverVars, daemonVars, up, down, boots>>

\* Mutant: a launch that is not answered is tried again.
HarnessTimeoutRetry(s) ==
    /\ stage[s] = "reply"
    /\ stage' = [stage EXCEPT ![s] = "sync"]
    /\ UNCHANGED <<row, blind, kind, handed, target, via, local, serverVars, daemonVars, up, down, boots>>

\* sendAndWait's timer: the row fails, whatever the launcher made of the launch.
HarnessTimeout(s) ==
    /\ stage[s] = "reply"
    /\ stage' = [stage EXCEPT ![s] = "idle"]
    /\ row' = [row EXCEPT ![s] = "failed"]
    /\ blind' = blind \cup {s}
    /\ UNCHANGED <<kind, handed, target, via, local, serverVars, daemonVars, up, down, boots>>

\* killSession: an open launcher is told, and that is all; otherwise the local
\* path ends the row at once, wherever its agent runs.  A second order is not
\* sent while one is on its way: the daemon ignores it.
Kill(s) ==
    LET c == IF target[s] = None THEN None ELSE reg[target[s][1]] IN
    /\ row[s] \in Active
    /\ IF IsOpen(c)
       THEN /\ [type |-> "kill", sid |-> s] \notin Range(down[c])
            /\ SrvSend(c, [type |-> "kill", sid |-> s])
            /\ UNCHANGED <<row, local, blind>>
       ELSE /\ row' = [row EXCEPT ![s] = "killed"]
            /\ local' = local \ {s}
            /\ blind' = blind \cup {s}
            /\ UNCHANGED down
    /\ UNCHANGED <<kind, handed, target, stage, via, serverVars, daemonVars, up, boots>>

\* The local run, in outline (SessionLifecycle has it in full).
LocalStart(s) ==
    /\ stage[s] = "spawn"
    /\ stage' = [stage EXCEPT ![s] = "idle"]
    /\ row' = [row EXCEPT ![s] = "running"]
    /\ local' = local \cup {s}
    /\ UNCHANGED <<kind, handed, target, via, blind, serverVars, daemonVars, up, down, boots>>

LocalExit(s) ==
    /\ s \in local
    /\ local' = local \ {s}
    /\ row' = [row EXCEPT ![s] = "completed"]
    /\ UNCHANGED <<kind, handed, target, stage, via, blind, serverVars, daemonVars, up, down, boots>>

-----------------------------------------------------------------------------
(* The daemon's reports.                                                    *)

\* Mutant: what is written is the message's own word.
StartedVerbatim(c) ==
    /\ Readable(c) /\ up[c] # <<>> /\ Head(up[c]).type = "started"
    /\ row' = [row EXCEPT ![Head(up[c]).sid] = Head(up[c]).type]
    /\ stage' = [stage EXCEPT ![Head(up[c]).sid] = IF @ = "reply" THEN "idle" ELSE @]
    /\ up' = [up EXCEPT ![c] = Tail(@)]
    /\ UNCHANGED <<kind, handed, target, via, local, blind, serverVars, daemonVars, down, boots>>

\* launcher_session_started: the answer a harness dispatch waits for, or, for
\* any other row, what sets it running, whatever it held.
Started(c) ==
    /\ Readable(c) /\ up[c] # <<>> /\ Head(up[c]).type = "started"
    /\ LET s == Head(up[c]).sid IN
       /\ row' = [row EXCEPT ![s] = "running"]
       /\ stage' = [stage EXCEPT ![s] = IF @ = "reply" THEN "idle" ELSE @]
    /\ up' = [up EXCEPT ![c] = Tail(@)]
    /\ UNCHANGED <<kind, handed, target, via, local, blind, serverVars, daemonVars, down, boots>>

\* launcher_session_ended: whatever the row held, it ends as reported.
EndedReport(c) ==
    /\ Readable(c) /\ up[c] # <<>> /\ Head(up[c]).type = "ended"
    /\ row' = [row EXCEPT ![Head(up[c]).sid] = Head(up[c]).status]
    /\ up' = [up EXCEPT ![c] = Tail(@)]
    /\ UNCHANGED <<kind, handed, target, stage, via, local, blind, serverVars, daemonVars, down, boots>>

Arrived(l, type) == link[l] # None /\ down[link[l]] # <<>> /\ Head(down[link[l]]).type = type
Taken(l) == down' = [down EXCEPT ![link[l]] = Tail(@)]

\* launch_session and launch_harness_session: a spawn that throws is reported
\* as a failed end by the one, and by the other not at all.
Launch(l) ==
    LET s == Head(down[link[l]]).sid IN
    /\ Arrived(l, "launch") /\ Taken(l)
    /\ \/ s \in agents[l] /\ UNCHANGED <<agents, up>>
       \/ /\ s \notin agents[l]
          /\ agents' = [agents EXCEPT ![l] = @ \cup {s}]
          /\ DaemonSend(l, [type |-> "started", sid |-> s])
       \/ /\ s \notin agents[l] /\ UNCHANGED agents
          /\ IF kind[s] = "harness" THEN UNCHANGED up
             ELSE DaemonSend(l, [type |-> "ended", sid |-> s, status |-> "failed"])
    /\ UNCHANGED <<sessionVars, serverVars, link, dying, boots>>

\* Mutant: the end is reported with the kill, before the process is gone.
KillOrderReported(l) ==
    LET s == Head(down[link[l]]).sid IN
    /\ Arrived(l, "kill") /\ Taken(l)
    /\ dying' = IF s \in agents[l] THEN dying \cup {s} ELSE dying
    /\ IF s \in agents[l] THEN DaemonSend(l, [type |-> "ended", sid |-> s, status |-> "killed"])
       ELSE UNCHANGED up
    /\ UNCHANGED <<sessionVars, serverVars, link, agents, boots>>

\* Mutant: the entry is looked up under the wrong key and never found.
KillOrderMissed(l) ==
    /\ Arrived(l, "kill") /\ Taken(l)
    /\ UNCHANGED <<sessionVars, serverVars, link, agents, dying, up, boots>>

\* kill_session: ignored if the session is not there (yet).
KillOrder(l) ==
    LET s == Head(down[link[l]]).sid IN
    /\ Arrived(l, "kill") /\ Taken(l)
    /\ dying' = IF s \in agents[l] THEN dying \cup {s} ELSE dying
    /\ UNCHANGED <<sessionVars, serverVars, link, agents, up, boots>>

\* onExit: the exit code alone decides what is reported, of a killed agent too.
Exit(l, s) ==
    /\ s \in agents[l]
    /\ agents' = [agents EXCEPT ![l] = @ \ {s}]
    /\ dying' = dying \ {s}
    /\ \E status \in {"completed", "failed"} :
          DaemonSend(l, [type |-> "ended", sid |-> s, status |-> status])
    /\ UNCHANGED <<sessionVars, serverVars, link, down, boots>>

\* The daemon is stopped, or dies, and its agents with it: nothing is reported.
DaemonStop(l) ==
    /\ agents' = [agents EXCEPT ![l] = {}] /\ dying' = dying \ agents[l]
    /\ link' = [link EXCEPT ![l] = None]
    /\ down' = IF link[l] = None THEN down ELSE [down EXCEPT ![link[l]] = <<>>]
    /\ link[l] # None \/ agents[l] # {}
    /\ UNCHANGED <<sessionVars, serverVars, up, boots>>

-----------------------------------------------------------------------------
NextConnection ==
    \/ \E l \in Launchers : Connect(l) \/ Lose(l) \/ Prune(l) \/ DaemonStop(l)
    \/ \E c \in Conns : Register(c) \/ SrvClose(c)
    \/ Restart

NextServer ==
    \/ \E s \in Sessions, l \in Launchers, k \in {"plain", "pinned", "harness"} : Dispatch(s, l, k)
    \/ \E s \in Sessions, l \in Launchers : Resume(s, l)
    \/ \E s \in Sessions : \/ SendLaunch(s) \/ SendHarness(s) \/ HarnessTimeout(s)
                           \/ Kill(s) \/ LocalStart(s) \/ LocalExit(s)
    \/ \E c \in Conns : Started(c) \/ EndedReport(c)

NextDaemon ==
    \E l \in Launchers : Launch(l) \/ KillOrder(l) \/ \E s \in Sessions : Exit(l, s)

Next == NextConnection \/ NextServer \/ NextDaemon

Spec == Init /\ [][Next]_vars

\* A killed process dies, a timer fires, a socket that stays up delivers.
FairSpec ==
    /\ Spec
    /\ \A s \in Sessions : WF_vars(HarnessTimeout(s)) /\ WF_vars(SendHarness(s))
    /\ \A l \in Launchers : /\ WF_vars(Launch(l)) /\ WF_vars(KillOrder(l))
                            /\ \A s \in Sessions : WF_vars(s \in dying /\ Exit(l, s))
=============================================================================

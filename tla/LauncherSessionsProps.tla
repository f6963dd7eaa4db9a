------------------------- MODULE LauncherSessionsProps -------------------------
(* What the registry and the remote dispatch promise.                       *)
EXTENDS LauncherSessions

Messages ==
    [type : {"register"}] \cup [type : {"started", "launch", "kill"}, sid : Sessions]
    \cup [type : {"ended"}, sid : Sessions, status : Ended]

\* The variables hold what the columns, maps and sockets can hold.
TypeOK ==
    /\ row \in [Sessions -> {"none"} \cup Active \cup Ended]
    /\ kind \in [Sessions -> {"plain", "pinned", "harness", "resume"}]
    /\ target \in [Sessions -> {None} \cup {<<l>> : l \in Launchers}]
    /\ stage \in [Sessions -> {"idle", "sync", "reply", "spawn"}]
    /\ via \in [Sessions -> {None} \cup Conns]
    /\ local \subseteq Sessions /\ blind \subseteq Sessions
    /\ dying \subseteq Sessions /\ handed \subseteq Sessions
    /\ reg \in [Launchers -> {None} \cup Conns] /\ link \in [Launchers -> {None} \cup Conns]
    /\ known \subseteq Conns
    /\ srv \in [Conns -> {"new", "open", "closing", "closed"}]
    /\ machine \in {"online", "offline"}
    /\ up \in [Conns -> Seq(Messages)] /\ down \in [Conns -> Seq(Messages)]
    /\ agents \in [Launchers -> SUBSET Sessions]
    /\ boots \in 0..MaxRestarts

\* An open connection that has registered is the one the registry holds,
\* however the close of the old and the register of the new connection
\* interleave (registerLauncher, the close handler's guard, the prune timer).
RegistryCurrent ==
    \A c \in known : srv[c] = "open" => reg[c[1]] = c

\* A machine is not shown offline while a launcher of it is registered, also
\* when another of its launchers has just gone (unregisterLauncher).
MachineOffline ==
    machine = "offline" => \A l \in Launchers : reg[l] = None

\* What was to run on a launcher does not come to run on this server, with its
\* credentials, whatever happens to the connection before the launch is sent:
\* neither a session whose launcher its owner's pin has chosen, nor any other
\* for which a connected launcher was found.  (A resume, and a dispatch that
\* names the launcher, look at no pin: away from their launcher, those of a
\* pinned owner do run here.)
PinnedStaysRemote ==
    \A s \in local : kind[s] # "pinned" /\ s \notin handed

\* A row that has ended has no agent on a launcher, unless it was ended without
\* asking it: a kill while it was away, or a harness launch that timed out.
EndedAgentGone ==
    \A s \in Sessions \ blind : row[s] \in Ended => \A l \in Launchers : s \notin agents[l]

\* A launch of the session is on its way to a daemon, or the session has its
\* agent there.
Launching(s) == \E c \in Conns : [type |-> "launch", sid |-> s] \in Range(down[c])
Aboard(s)    == \E l \in Launchers : s \in agents[l]

\* A row is one request; it is open while the dispatch waits for its transfer,
\* its turn here or its message.
askedOf == [s \in Sessions |-> IF row[s] = "none" THEN 0 ELSE 1]
openOf  == {s \in Sessions : /\ row[s] # "none" /\ ~Aboard(s) /\ s \notin local
                             /\ stage[s] \in {"sync", "spawn"} \/ Launching(s)}
procsOf == [s \in Sessions |-> IF Aboard(s) \/ s \in local THEN 1 ELSE 0]
Runs == INSTANCE AgentRun WITH asked <- askedOf, open <- openOf, procs <- procsOf

\* The agent is in one place: on this server or on one launcher.
OneHome ==
    \A s \in Sessions :
        /\ Aboard(s) => s \notin local
        /\ \A l, m \in Launchers : s \in agents[l] /\ s \in agents[m] => l = m

\* A dispatched or resumed session is given at most one agent process, over this
\* server and all launchers: whichever connections are lost, replaced or restarted under a
\* launch, a launch is never repeated and never made up for elsewhere.
OneAgentAnywhere == Runs!Spec /\ []OneHome

\* A harness dispatch does not wait for ever, whether the launcher answers,
\* cannot spawn, or goes away; only a restart of the server leaves it behind.
HarnessResolves ==
    \A s \in Sessions : stage[s] \in {"sync", "reply"} /\ kind[s] = "harness"
                        ~> row[s] # "pending" \/ boots > 0

\* A kill on its way to a daemon that runs the session ends the agent, unless
\* the connection is lost first.
KillDelivered ==
    \A c \in Conns, s \in Sessions :
        (link[c[1]] = c /\ s \in agents[c[1]] /\ \E i \in DOMAIN down[c] : down[c][i] = [type |-> "kill", sid |-> s])
        ~> (s \notin agents[c[1]] \/ link[c[1]] # c)
=============================================================================

------------------------ MODULE LauncherSessionsProofs ------------------------
(***************************************************************************)
(* The registry's safety for any number of launchers, connections, sessions  *)
(* and restarts.  RegistryCurrent holds because a registered connection that *)
(* the registry does not hold is closed or closing (ConnsFresh says that a   *)
(* new connection has not registered).  PinnedStaysRemote rests on Waiting:  *)
(* no session of a pin or with a connected launcher waits for a local spawn, *)
(* and none whose row is still to be inserted runs.  EndedAgentGone and the refinement of AgentRun rest on  *)
(* the launch being a token: it waits, or is in one channel, or has become   *)
(* one agent (OneLaunch, OneAgent, OneMessage, Fresh).                       *)
(***************************************************************************)
EXTENDS LauncherSessionsProps, TLAPS

ConnsFresh ==
    /\ \A c \in known : srv[c] # "new"
    /\ \A l \in Launchers : reg[l] # None => reg[l][1] = l /\ reg[l] \in Conns

Waiting ==
    \A s \in Sessions :
        /\ stage[s] = "spawn" => kind[s] # "pinned" /\ s \notin handed /\ row[s] # "none"
        /\ s \in local => row[s] # "none" /\ stage[s] # "spawn"
        /\ s \in handed => row[s] # "none"

IInv == TypeOK /\ ConnsFresh /\ RegistryCurrent /\ MachineOffline /\ Waiting /\ PinnedStaysRemote

LEMMA ConnIsPair == \A c \in Conns : c[1] \in Launchers
BY DEF Conns

\* What leaves a channel, and what is put on one.
LEMMA SeqSteps ==
    ASSUME NEW q \in Seq(Messages), NEW m \in Messages
    PROVE  Append(q, m) \in Seq(Messages) /\ (q # <<>> => Tail(q) \in Seq(Messages) /\ Head(q) \in Messages)
OBVIOUS

LEMMA MessageKinds ==
    ASSUME NEW m \in Messages
    PROVE  /\ m.type \in {"started", "launch", "kill", "ended"} => m.sid \in Sessions
           /\ m.type = "ended" => m.status \in Ended
BY DEF Messages

LEMMA MessagesMade ==
    /\ [type |-> "register"] \in Messages
    /\ \A s \in Sessions : \A t \in {"started", "launch", "kill"} : [type |-> t, sid |-> s] \in Messages
    /\ \A s \in Sessions, e \in Ended : [type |-> "ended", sid |-> s, status |-> e] \in Messages
BY DEF Messages

LEMMA SrvSendTypes ==
    ASSUME TypeOK, NEW c, NEW m \in Messages, SrvSend(c, m)
    PROVE  down' \in [Conns -> Seq(Messages)]
BY SeqSteps DEF SrvSend, TypeOK

LEMMA DaemonSendTypes ==
    ASSUME TypeOK, NEW l \in Launchers, NEW m \in Messages, DaemonSend(l, m)
    PROVE  up' \in [Conns -> Seq(Messages)]
BY SeqSteps DEF DaemonSend, TypeOK

LEMMA Initially == Init => IInv
<1> SUFFICES ASSUME Init PROVE IInv
  OBVIOUS
<1>1. TypeOK
  BY BoundAssumption DEF Init, TypeOK, None
<1> QED BY <1>1 DEF Init, IInv, ConnsFresh, RegistryCurrent, MachineOffline, Waiting, PinnedStaysRemote

\* A step that leaves the registry and its sockets alone.
LEMMA RegistryStutters ==
    ASSUME IInv, UNCHANGED serverVars
    PROVE  ConnsFresh' /\ RegistryCurrent' /\ MachineOffline'
BY DEF IInv, ConnsFresh, RegistryCurrent, MachineOffline, serverVars

\* A step that leaves the sessions alone.
LEMMA SessionsStutter ==
    ASSUME IInv, UNCHANGED sessionVars
    PROVE  Waiting' /\ PinnedStaysRemote'
BY DEF IInv, Waiting, PinnedStaysRemote, sessionVars

(******************************** Connections ******************************)

LEMMA ConnectKeeps == \A l \in Launchers : IInv /\ Connect(l) => IInv'
<1> SUFFICES ASSUME NEW l \in Launchers, IInv, Connect(l) PROVE IInv'
  OBVIOUS
<1>1. PICK k \in 1..MaxConns[l] :
        /\ srv[<<l, k>>] = "new"
        /\ srv' = [srv EXCEPT ![<<l, k>>] = "open"]
        /\ link' = [link EXCEPT ![l] = <<l, k>>]
        /\ up' = [up EXCEPT ![<<l, k>>] = <<[type |-> "register"]>>]
  BY DEF Connect
<1> DEFINE c == <<l, k>>
<1>2. c \in Conns
  BY DEF Conns
<1>3. UNCHANGED <<sessionVars, reg, known, machine, agents, dying, down, boots>>
  BY DEF Connect
<1>4. <<[type |-> "register"]>> \in Seq(Messages)
  BY MessagesMade
<1> HIDE DEF c
<1>5. TypeOK'
  BY <1>1, <1>2, <1>3, <1>4 DEF c, IInv, TypeOK, sessionVars
<1>6. c \notin known /\ \A d \in Conns : d # c => srv'[d] = srv[d]
  BY <1>1, <1>2 DEF c, IInv, ConnsFresh, TypeOK
<1>7. ConnsFresh' /\ RegistryCurrent' /\ MachineOffline'
  BY <1>3, <1>6 DEF IInv, TypeOK, ConnsFresh, RegistryCurrent, MachineOffline
<1> QED BY <1>3, <1>5, <1>7, SessionsStutter DEF IInv

LEMMA RegisterKeeps == \A c \in Conns : IInv /\ Register(c) => IInv'
<1> SUFFICES ASSUME NEW c \in Conns, IInv, Register(c) PROVE IInv'
  OBVIOUS
<1>1. c[1] \in Launchers
  BY ConnIsPair
<1>2. TypeOK'
  BY <1>1, SeqSteps DEF Register, IInv, TypeOK, sessionVars, daemonVars
<1>3. /\ srv' = [d \in Conns |-> IF d = reg[c[1]] /\ d # c /\ srv[d] = "open" THEN "closing" ELSE srv[d]]
      /\ reg' = [reg EXCEPT ![c[1]] = c] /\ known' = known \cup {c} /\ machine' = "online"
  BY DEF Register
<1>4. ConnsFresh'
  BY <1>1, <1>3 DEF Register, Readable, IInv, TypeOK, ConnsFresh
<1>5. RegistryCurrent'
  <2> SUFFICES ASSUME NEW d \in known', srv'[d] = "open" PROVE reg'[d[1]] = d
    BY DEF RegistryCurrent
  <2>1. d \in Conns /\ d[1] \in Launchers
    BY <1>3, ConnIsPair DEF IInv, TypeOK
  <2>2. CASE d = c
    BY <1>1, <1>3, <2>2 DEF IInv, TypeOK
  <2>3. CASE d # c
    <3>1. d \in known /\ srv[d] = "open" /\ d # reg[c[1]]
      BY <1>3, <2>1, <2>3
    <3>2. reg[d[1]] = d
      BY <3>1 DEF IInv, RegistryCurrent
    <3>3. d[1] # c[1]
      BY <3>1, <3>2
    <3> QED BY <1>3, <2>1, <3>2, <3>3 DEF IInv, TypeOK
  <2> QED BY <2>2, <2>3
<1>6. MachineOffline'
  BY <1>3 DEF MachineOffline
<1>7. UNCHANGED sessionVars
  BY DEF Register
<1> QED BY <1>2, <1>4, <1>5, <1>6, <1>7, SessionsStutter DEF IInv

LEMMA SrvCloseKeeps == \A c \in Conns : IInv /\ SrvClose(c) => IInv'
<1> SUFFICES ASSUME NEW c \in Conns, IInv, SrvClose(c) PROVE IInv'
  OBVIOUS
<1>1. c[1] \in Launchers
  BY ConnIsPair
<1>2. /\ srv' = [srv EXCEPT ![c] = "closed"] /\ up' = [up EXCEPT ![c] = <<>>]
      /\ UNCHANGED <<sessionVars, known, daemonVars, down, boots>>
  BY DEF SrvClose
<1>3. srv'[c] = "closed" /\ \A d \in Conns : d # c => srv'[d] = srv[d]
  BY <1>2 DEF IInv, TypeOK
<1>4. CASE c \in known /\ reg[c[1]] = c
  <2>1. /\ reg' = [reg EXCEPT ![c[1]] = None]
        /\ machine' = IF \A m \in Launchers \ {c[1]} : reg[m] = None THEN "offline" ELSE machine
    BY <1>4 DEF SrvClose, Unregister
  <2>2. TypeOK'
    BY <1>1, <1>2, <2>1 DEF IInv, TypeOK, sessionVars, daemonVars
  <2>3. ConnsFresh'
    BY <1>1, <1>2, <1>3, <2>1 DEF IInv, TypeOK, ConnsFresh
  <2>4. RegistryCurrent'
    <3> SUFFICES ASSUME NEW d \in known, srv'[d] = "open" PROVE reg'[d[1]] = d
      BY <1>2 DEF RegistryCurrent
    <3>1. d \in Conns /\ d # c /\ srv[d] = "open"
      BY <1>3 DEF IInv, TypeOK
    <3>2. reg[d[1]] = d
      BY <3>1 DEF IInv, RegistryCurrent
    <3>3. d[1] # c[1]
      BY <1>4, <3>1, <3>2
    <3> QED BY <2>1, <3>1, <3>2, <3>3, ConnIsPair DEF IInv, TypeOK
  <2>5. MachineOffline'
    BY <1>1, <2>1 DEF IInv, TypeOK, MachineOffline
  <2> QED BY <1>2, <2>2, <2>3, <2>4, <2>5, SessionsStutter DEF IInv
<1>5. CASE ~(c \in known /\ reg[c[1]] = c)
  <2>1. UNCHANGED <<reg, machine>>
    BY <1>5 DEF SrvClose
  <2>2. TypeOK'
    BY <1>2, <2>1 DEF IInv, TypeOK, sessionVars, daemonVars
  <2>3. ConnsFresh' /\ RegistryCurrent' /\ MachineOffline'
    BY <1>2, <1>3, <2>1 DEF IInv, TypeOK, ConnsFresh, RegistryCurrent, MachineOffline
  <2> QED BY <1>2, <2>2, <2>3, SessionsStutter DEF IInv
<1> QED BY <1>4, <1>5

LEMMA PruneKeeps == \A l \in Launchers : IInv /\ Prune(l) => IInv'
<1> SUFFICES ASSUME NEW l \in Launchers, IInv, Prune(l) PROVE IInv'
  OBVIOUS
<1>1. reg[l] \in Conns
  BY DEF Prune, IInv, TypeOK
<1>2. /\ srv' = [srv EXCEPT ![reg[l]] = IF @ = "open" THEN "closing" ELSE @]
      /\ reg' = [reg EXCEPT ![l] = None]
      /\ UNCHANGED <<sessionVars, known, machine, daemonVars, up, down, boots>>
  BY DEF Prune
<1>3. srv'[reg[l]] # "open" /\ (srv[reg[l]] # "new" => srv'[reg[l]] # "new")
      /\ \A d \in Conns : d # reg[l] => srv'[d] = srv[d]
  BY <1>1, <1>2 DEF IInv, TypeOK
<1>4. TypeOK'
  BY <1>1, <1>2 DEF IInv, TypeOK, sessionVars, daemonVars
<1>5. ConnsFresh'
  BY <1>1, <1>2, <1>3 DEF IInv, TypeOK, ConnsFresh
<1>6. RegistryCurrent'
  <2> SUFFICES ASSUME NEW d \in known, srv'[d] = "open" PROVE reg'[d[1]] = d
    BY <1>2 DEF RegistryCurrent
  <2>1. d \in Conns /\ d # reg[l] /\ srv[d] = "open"
    BY <1>3 DEF IInv, TypeOK
  <2>2. reg[d[1]] = d
    BY <2>1 DEF IInv, RegistryCurrent
  <2>3. d[1] # l
    BY <2>1, <2>2
  <2> QED BY <1>2, <2>1, <2>2, <2>3, ConnIsPair DEF IInv, TypeOK
<1>7. MachineOffline'
  BY <1>2 DEF IInv, TypeOK, MachineOffline
<1> QED BY <1>2, <1>4, <1>5, <1>6, <1>7, SessionsStutter DEF IInv

LEMMA RestartKeeps == IInv /\ Restart => IInv'
<1> SUFFICES ASSUME IInv, Restart PROVE IInv'
  OBVIOUS
<1>1. TypeOK'
  BY BoundAssumption DEF Restart, IInv, TypeOK, daemonVars
<1>2. ConnsFresh' /\ RegistryCurrent' /\ MachineOffline'
  BY DEF Restart, IInv, TypeOK, ConnsFresh, RegistryCurrent, MachineOffline
<1>3. Waiting' /\ PinnedStaysRemote'
  BY DEF Restart, IInv, TypeOK, Waiting, PinnedStaysRemote
<1> QED BY <1>1, <1>2, <1>3 DEF IInv

LEMMA LeaveKeeps == \A l \in Launchers : IInv /\ (Lose(l) \/ DaemonStop(l)) => IInv'
<1> SUFFICES ASSUME NEW l \in Launchers, IInv, Lose(l) \/ DaemonStop(l) PROVE IInv'
  OBVIOUS
<1>1. TypeOK'
  <2>1. CASE Lose(l)
    BY <2>1 DEF Lose, IInv, TypeOK, sessionVars, serverVars
  <2>2. CASE DaemonStop(l)
    BY <2>2 DEF DaemonStop, IInv, TypeOK, sessionVars, serverVars
  <2> QED BY <2>1, <2>2
<1>2. UNCHANGED <<sessionVars, serverVars>>
  BY DEF Lose, DaemonStop
<1> QED BY <1>1, <1>2, RegistryStutters, SessionsStutter DEF IInv

(***************************** Dispatch and kill ***************************)

LEMMA InsertKeeps ==
    ASSUME IInv, NEW s \in Sessions, NEW l \in Launchers,
           NEW k \in {"plain", "pinned", "harness", "resume"}, Insert(s, l, k)
    PROVE  /\ row' \in [Sessions -> {"none"} \cup Active \cup Ended]
           /\ kind' \in [Sessions -> {"plain", "pinned", "harness", "resume"}]
           /\ target' \in [Sessions -> {None} \cup {<<i>> : i \in Launchers}]
           /\ handed' \subseteq Sessions
           /\ UNCHANGED <<local, blind, serverVars, daemonVars, up, boots>>
<1>1. row' \in [Sessions -> {"none"} \cup Active \cup Ended]
  BY DEF Insert, IInv, TypeOK, Active
<1>2. kind' \in [Sessions -> {"plain", "pinned", "harness", "resume"}]
  BY DEF Insert, IInv, TypeOK
<1>3. target' \in [Sessions -> {None} \cup {<<i>> : i \in Launchers}]
  BY DEF Insert, IInv, TypeOK
<1>4. handed' \subseteq Sessions
  BY DEF Insert, IInv, TypeOK
<1>5. UNCHANGED <<local, blind, serverVars, daemonVars, up, boots>>
  BY DEF Insert
<1> QED BY <1>1, <1>2, <1>3, <1>4, <1>5

LEMMA DispatchKeeps ==
    \A s \in Sessions, l \in Launchers, k \in {"plain", "pinned", "harness"} :
        IInv /\ Dispatch(s, l, k) => IInv'
<1> SUFFICES ASSUME NEW s \in Sessions, NEW l \in Launchers,
                    NEW k \in {"plain", "pinned", "harness"}, IInv, Dispatch(s, l, k)
             PROVE  IInv'
  OBVIOUS
<1>1. TypeOK'
  <2>1. stage' \in [Sessions -> {"idle", "sync", "reply", "spawn"}]
    BY DEF Dispatch, IInv, TypeOK
  <2>2. via' \in [Sessions -> {None} \cup Conns] /\ down' = down
    BY DEF Dispatch, IInv, TypeOK
  <2> QED BY <2>1, <2>2, InsertKeeps DEF Dispatch, IInv, TypeOK, serverVars, daemonVars
<1>2. Waiting'
  BY DEF Dispatch, Insert, IInv, TypeOK, Waiting
<1>3. PinnedStaysRemote'
  BY DEF Dispatch, Insert, IInv, TypeOK, Waiting, PinnedStaysRemote
<1>4. UNCHANGED serverVars
  BY DEF Dispatch, Insert
<1> QED BY <1>1, <1>2, <1>3, <1>4, RegistryStutters DEF IInv

LEMMA ResumeKeeps ==
    \A s \in Sessions, l \in Launchers : IInv /\ Resume(s, l) => IInv'
<1> SUFFICES ASSUME NEW s \in Sessions, NEW l \in Launchers, IInv, Resume(s, l)
             PROVE  IInv'
  OBVIOUS
<1>1. TypeOK'
  <2>1. stage' \in [Sessions -> {"idle", "sync", "reply", "spawn"}] /\ via' = via
    BY DEF Resume, IInv, TypeOK
  <2>2. down' \in [Conns -> Seq(Messages)]
    BY MessagesMade, SrvSendTypes DEF Resume, IInv, TypeOK
  <2>3. Insert(s, l, "resume")
    BY DEF Resume
  <2> QED BY <2>1, <2>2, <2>3, InsertKeeps DEF IInv, TypeOK, serverVars, daemonVars
<1>2. Waiting'
  BY DEF Resume, Insert, IInv, TypeOK, Waiting
<1>3. PinnedStaysRemote'
  BY DEF Resume, Insert, IInv, TypeOK, Waiting, PinnedStaysRemote
<1>4. UNCHANGED serverVars
  BY DEF Resume, Insert
<1> QED BY <1>1, <1>2, <1>3, <1>4, RegistryStutters DEF IInv

LEMMA SendKeeps ==
    \A s \in Sessions : IInv /\ (SendLaunch(s) \/ SendHarness(s)) => IInv'
<1> SUFFICES ASSUME NEW s \in Sessions, IInv, SendLaunch(s) \/ SendHarness(s) PROVE IInv'
  OBVIOUS
<1>1. down' \in [Conns -> Seq(Messages)]
  BY MessagesMade, SrvSendTypes DEF SendLaunch, SendHarness, IInv
<1>2. UNCHANGED <<serverVars, daemonVars, up, boots, kind, handed, target, local, blind>>
  BY DEF SendLaunch, SendHarness
<1>3. TypeOK'
  <2>1. CASE SendLaunch(s)
    <3>1. via' = [via EXCEPT ![s] = None] /\ stage' = [stage EXCEPT ![s] = "idle"] /\ row' = row
      BY <2>1 DEF SendLaunch
    <3>2. stage' \in [Sessions -> {"idle", "sync", "reply", "spawn"}]
      BY <3>1 DEF IInv, TypeOK
    <3>3. via' \in [Sessions -> {None} \cup Conns]
      BY <3>1 DEF IInv, TypeOK
    <3> QED BY <1>1, <1>2, <3>1, <3>2, <3>3 DEF IInv, TypeOK, serverVars, daemonVars
  <2>2. CASE SendHarness(s)
    <3>1. row' \in [Sessions -> {"none"} \cup Active \cup Ended]
      BY <2>2 DEF SendHarness, IInv, TypeOK, Ended
    <3>2. stage' \in [Sessions -> {"idle", "sync", "reply", "spawn"}] /\ via' = via
      BY <2>2 DEF SendHarness, IInv, TypeOK
    <3> QED BY <1>1, <1>2, <3>1, <3>2 DEF IInv, TypeOK, serverVars, daemonVars
  <2> QED BY <2>1, <2>2
<1>4. Waiting' /\ PinnedStaysRemote'
  BY <1>2 DEF SendLaunch, SendHarness, IInv, TypeOK, Waiting, PinnedStaysRemote
<1> QED BY <1>2, <1>3, <1>4, RegistryStutters DEF IInv

LEMMA TimeoutKeeps == \A s \in Sessions : IInv /\ HarnessTimeout(s) => IInv'
<1> SUFFICES ASSUME NEW s \in Sessions, IInv, HarnessTimeout(s) PROVE IInv'
  OBVIOUS
<1>1. TypeOK'
  BY DEF HarnessTimeout, IInv, TypeOK, serverVars, daemonVars, Ended
<1>2. Waiting' /\ PinnedStaysRemote' /\ UNCHANGED serverVars
  BY DEF HarnessTimeout, IInv, TypeOK, Waiting, PinnedStaysRemote
<1> QED BY <1>1, <1>2, RegistryStutters DEF IInv

LEMMA KillKeeps == \A s \in Sessions : IInv /\ Kill(s) => IInv'
<1> SUFFICES ASSUME NEW s \in Sessions, IInv, Kill(s) PROVE IInv'
  OBVIOUS
<1> DEFINE c == IF target[s] = None THEN None ELSE reg[target[s][1]]
<1>1. UNCHANGED <<kind, handed, target, stage, via, serverVars, daemonVars, up, boots>>
  BY DEF Kill
<1>2. \/ UNCHANGED <<row, local, blind>> /\ down' \in [Conns -> Seq(Messages)]
      \/ /\ row' = [row EXCEPT ![s] = "killed"] /\ local' = local \ {s}
         /\ blind' = blind \cup {s} /\ UNCHANGED down
  <2>1. CASE IsOpen(c)
    BY <2>1, MessagesMade, SrvSendTypes DEF Kill, IInv
  <2>2. CASE ~IsOpen(c)
    BY <2>2 DEF Kill
  <2> QED BY <2>1, <2>2
<1>3. TypeOK'
  BY <1>1, <1>2 DEF IInv, TypeOK, serverVars, daemonVars, Ended
<1>4. Waiting' /\ PinnedStaysRemote'
  BY <1>1, <1>2 DEF IInv, TypeOK, Waiting, PinnedStaysRemote
<1> QED BY <1>1, <1>3, <1>4, RegistryStutters DEF IInv

LEMMA LocalKeeps == \A s \in Sessions : IInv /\ (LocalStart(s) \/ LocalExit(s)) => IInv'
<1> SUFFICES ASSUME NEW s \in Sessions, IInv, LocalStart(s) \/ LocalExit(s) PROVE IInv'
  OBVIOUS
<1>1. TypeOK'
  <2>1. row' \in [Sessions -> {"none"} \cup Active \cup Ended]
    BY DEF LocalStart, LocalExit, IInv, TypeOK, Active, Ended
  <2>2. stage' \in [Sessions -> {"idle", "sync", "reply", "spawn"}] /\ local' \subseteq Sessions
    <3>1. stage' = [stage EXCEPT ![s] = "idle"] \/ stage' = stage
      BY DEF LocalStart, LocalExit
    <3>2. stage \in [Sessions -> {"idle", "sync", "reply", "spawn"}]
      BY DEF IInv, TypeOK
    <3>3. local' \subseteq Sessions
      BY DEF LocalStart, LocalExit, IInv, TypeOK
    <3> QED BY <3>1, <3>2, <3>3
  <2>3. UNCHANGED <<kind, handed, target, via, blind, serverVars, daemonVars, up, down, boots>>
    BY DEF LocalStart, LocalExit
  <2> QED BY <2>1, <2>2, <2>3 DEF IInv, TypeOK, serverVars, daemonVars
<1>2. Waiting' /\ PinnedStaysRemote' /\ UNCHANGED serverVars
  BY DEF LocalStart, LocalExit, IInv, TypeOK, Waiting, PinnedStaysRemote
<1> QED BY <1>1, <1>2, RegistryStutters DEF IInv

(********************************** Reports ********************************)

LEMMA ReportKeeps == \A c \in Conns : IInv /\ (Started(c) \/ EndedReport(c)) => IInv'
<1> SUFFICES ASSUME NEW c \in Conns, IInv, Started(c) \/ EndedReport(c) PROVE IInv'
  OBVIOUS
<1> DEFINE m == Head(up[c])
<1>1. m \in Messages /\ Tail(up[c]) \in Seq(Messages) /\ m.type \in {"started", "ended"}
  BY SeqSteps DEF Started, EndedReport, IInv, TypeOK
<1>2. m.sid \in Sessions /\ (m.type = "ended" => m.status \in Ended)
  BY <1>1, MessageKinds
<1>3. /\ \E v \in {"running"} \cup Ended : row' = [row EXCEPT ![m.sid] = v]
      /\ stage' = [stage EXCEPT ![m.sid] = IF @ = "reply" THEN "idle" ELSE @] \/ UNCHANGED stage
      /\ up' = [up EXCEPT ![c] = Tail(@)]
      /\ UNCHANGED <<kind, handed, target, via, local, blind, serverVars, daemonVars, down, boots>>
  BY <1>2 DEF Started, EndedReport
<1> HIDE DEF m
<1>4. TypeOK'
  <2>1. row' \in [Sessions -> {"none"} \cup Active \cup Ended]
    BY <1>2, <1>3 DEF IInv, TypeOK, Active, Ended
  <2>2. stage' \in [Sessions -> {"idle", "sync", "reply", "spawn"}]
    <3>1. stage \in [Sessions -> {"idle", "sync", "reply", "spawn"}]
      BY DEF IInv, TypeOK
    <3>2. CASE UNCHANGED stage
      BY <3>1, <3>2
    <3>3. CASE stage' = [stage EXCEPT ![m.sid] = IF @ = "reply" THEN "idle" ELSE @]
      <4>1. (IF stage[m.sid] = "reply" THEN "idle" ELSE stage[m.sid]) \in {"idle", "sync", "reply", "spawn"}
        BY <1>2, <3>1
      <4> QED BY <1>2, <3>1, <3>3, <4>1
    <3> QED BY <1>3, <3>2, <3>3
  <2>3. up' \in [Conns -> Seq(Messages)]
    BY <1>1, <1>3 DEF IInv, TypeOK
  <2> QED BY <1>3, <2>1, <2>2, <2>3 DEF IInv, TypeOK, serverVars, daemonVars
<1>5. Waiting' /\ PinnedStaysRemote'
  BY <1>2, <1>3 DEF IInv, TypeOK, Waiting, PinnedStaysRemote, Ended
<1> QED BY <1>3, <1>4, <1>5, RegistryStutters DEF IInv

LEMMA DaemonKeeps ==
    \A l \in Launchers :
        IInv /\ (Launch(l) \/ KillOrder(l) \/ \E s \in Sessions : Exit(l, s)) => IInv'
<1> SUFFICES ASSUME NEW l \in Launchers, IInv,
                    Launch(l) \/ KillOrder(l) \/ \E s \in Sessions : Exit(l, s)
             PROVE  IInv'
  OBVIOUS
<1>1. UNCHANGED <<sessionVars, serverVars, link, boots>>
  BY DEF Launch, KillOrder, Exit
<1>2. ASSUME NEW t \in {"launch", "kill"}, Arrived(l, t), Taken(l)
      PROVE  Head(down[link[l]]).sid \in Sessions /\ down' \in [Conns -> Seq(Messages)]
  <2>1. link[l] \in Conns
    BY <1>2 DEF Arrived, IInv, TypeOK
  <2>2. Head(down[link[l]]) \in Messages /\ Tail(down[link[l]]) \in Seq(Messages)
    BY <1>2, <2>1, SeqSteps DEF Arrived, IInv, TypeOK
  <2> QED BY <1>2, <2>1, <2>2, MessageKinds DEF Arrived, Taken, IInv, TypeOK
<1>3. CASE Launch(l)
  <2> DEFINE s == Head(down[link[l]]).sid
  <2>1. s \in Sessions /\ down' \in [Conns -> Seq(Messages)]
    BY <1>2, <1>3 DEF Launch
  <2>2. /\ agents' = agents \/ agents' = [agents EXCEPT ![l] = @ \cup {s}]
        /\ up' = up \/ \E m \in Messages : DaemonSend(l, m)
    BY <1>3, <2>1, MessagesMade DEF Launch, Ended
  <2>3. up' \in [Conns -> Seq(Messages)]
    BY <2>2, DaemonSendTypes DEF IInv, TypeOK
  <2> HIDE DEF s
  <2>4. TypeOK'
    <3>1. agents' \in [Launchers -> SUBSET Sessions]
      <4>1. agents \in [Launchers -> SUBSET Sessions]
        BY DEF IInv, TypeOK
      <4>2. CASE agents' = agents
        BY <4>1, <4>2
      <4>3. CASE agents' = [agents EXCEPT ![l] = @ \cup {s}]
        BY <2>1, <4>1, <4>3
      <4> QED BY <2>2, <4>2, <4>3
    <3>2. dying' = dying
      BY <1>3 DEF Launch
    <3> QED BY <1>1, <2>1, <2>3, <3>1, <3>2 DEF IInv, TypeOK, sessionVars, serverVars
  <2> QED BY <1>1, <2>4, RegistryStutters, SessionsStutter DEF IInv
<1>4. CASE KillOrder(l)
  <2>1. Head(down[link[l]]).sid \in Sessions /\ down' \in [Conns -> Seq(Messages)]
    BY <1>2, <1>4 DEF KillOrder
  <2>2. TypeOK'
    BY <1>1, <1>4, <2>1 DEF KillOrder, IInv, TypeOK, sessionVars, serverVars
  <2> QED BY <1>1, <2>2, RegistryStutters, SessionsStutter DEF IInv
<1>5. ASSUME NEW s \in Sessions, Exit(l, s) PROVE IInv'
  <2>1. \E m \in Messages : DaemonSend(l, m)
    BY <1>5, MessagesMade DEF Exit, Ended
  <2>2. up' \in [Conns -> Seq(Messages)]
    BY <2>1, DaemonSendTypes DEF IInv
  <2>3. TypeOK'
    BY <1>1, <1>5, <2>2 DEF Exit, IInv, TypeOK, sessionVars, serverVars
  <2> QED BY <1>1, <2>3, RegistryStutters, SessionsStutter DEF IInv
<1> QED BY <1>3, <1>4, <1>5

LEMMA StepKeeps == IInv /\ [Next]_vars => IInv'
<1> SUFFICES ASSUME IInv, [Next]_vars PROVE IInv'
  OBVIOUS
<1>1. CASE NextConnection
  BY <1>1, ConnectKeeps, LeaveKeeps, PruneKeeps, RegisterKeeps, SrvCloseKeeps, RestartKeeps
     DEF NextConnection
<1>2. CASE NextServer
  BY <1>2, DispatchKeeps, ResumeKeeps, SendKeeps, TimeoutKeeps, KillKeeps, LocalKeeps, ReportKeeps
     DEF NextServer
<1>3. CASE NextDaemon
  BY <1>3, DaemonKeeps DEF NextDaemon
<1>4. CASE UNCHANGED vars
  <2>1. TypeOK'
    BY <1>4 DEF vars, sessionVars, serverVars, daemonVars, IInv, TypeOK
  <2> QED BY <1>4, <2>1, RegistryStutters, SessionsStutter DEF vars, IInv
<1> QED BY <1>1, <1>2, <1>3, <1>4 DEF Next

LEMMA Inductive == Spec => []IInv
BY Initially, StepKeeps, PTL DEF Spec

\* The rows, the registry, the sockets and the channels hold what they can.
THEOREM LauncherTypes == Spec => []TypeOK
BY Inductive, PTL DEF IInv

\* An open, registered connection is the one that launches and kills are sent
\* on, however registers and closes of a launcher's connections interleave.
THEOREM RegistryIsCurrent == Spec => []RegistryCurrent
BY Inductive, PTL DEF IInv

\* An offline machine has no launcher in the registry.
THEOREM OfflineMeansNone == Spec => []MachineOffline
BY Inductive, PTL DEF IInv

\* A session whose launcher its owner's pin chose, or that was given a connected
\* launcher, is never run by this server (Dispatch, Resume, SendLaunch).
THEOREM PinnedRemote == Spec => []PinnedStaysRemote
BY Inductive, PTL DEF IInv

-----------------------------------------------------------------------------
(***************************************************************************)
(* EndedAgentGone, for any number of launchers, connections and sessions.    *)
(* A session is launched at most once: it waits for its transfer (sync), or   *)
(* one launch is on its way (Sent), or one daemon has its agent (Aboard),     *)
(* never two of them (OneLaunch); and when its end has been said, or its row  *)
(* ended by other means than a blind kill, none of them is left (Over).       *)
(***************************************************************************)
LaunchAt(s, c, i) == i \in 1..Len(down[c]) /\ down[c][i].type = "launch" /\ down[c][i].sid = s
EndAt(s, c, i)    == i \in 1..Len(up[c]) /\ up[c][i].type = "ended" /\ up[c][i].sid = s

Sent(s)    == \E c \in Conns : \E i \in Nat : LaunchAt(s, c, i)
EndSaid(s) == \E c \in Conns : \E i \in Nat : EndAt(s, c, i)

Over(s) == \/ EndSaid(s) \/ s \in local \/ stage[s] = "spawn" \/ row[s] = "none"
           \/ row[s] \in Ended /\ s \notin blind

OneLaunch ==
    /\ \A s \in Sessions : stage[s] = "sync" => ~Sent(s) /\ ~Aboard(s) /\ ~Over(s)
    /\ \A s \in Sessions : Sent(s) => ~Aboard(s) /\ ~Over(s)
    /\ \A s \in Sessions : Aboard(s) => ~Over(s)

OneAgent ==
    \A s \in Sessions, l, m \in Launchers : s \in agents[l] /\ s \in agents[m] => l = m

OneMessage ==
    \A s \in Sessions, c, d \in Conns, i, j \in Nat :
        LaunchAt(s, c, i) /\ LaunchAt(s, d, j) => c = d /\ i = j

Fresh == \A s \in Sessions : row[s] = "none" => ~EndSaid(s) /\ s \notin local /\ stage[s] = "idle"

TInv == OneLaunch /\ OneAgent /\ OneMessage /\ Fresh

LEMMA TInitially == Init => TInv
<1> SUFFICES ASSUME Init PROVE TInv
  OBVIOUS
<1>1. \A s \in Sessions : ~Sent(s) /\ ~EndSaid(s) /\ ~Aboard(s)
  BY DEF Init, Sent, EndSaid, Aboard, LaunchAt, EndAt
<1>2. OneMessage
  BY DEF Init, OneMessage, LaunchAt
<1> QED BY <1>1, <1>2 DEF Init, TInv, OneLaunch, OneAgent, Fresh, Aboard

\* The channels towards the daemons only lose messages.
DownShrinks ==
    \A c \in Conns : \/ down'[c] = down[c] \/ down'[c] = <<>>
                     \/ down[c] # <<>> /\ down'[c] = Tail(down[c])

LEMMA LaunchesShrink ==
    ASSUME TypeOK, OneMessage, DownShrinks
    PROVE  OneMessage' /\ \A s \in Sessions : Sent(s)' => Sent(s)
<1>1. \A c \in Conns : \E k \in {0, 1} : \A s \in Sessions, i \in Nat :
          LaunchAt(s, c, i)' => LaunchAt(s, c, i + k)
  <2> TAKE c \in Conns
  <2>1. down[c] \in Seq(Messages)
    BY DEF TypeOK
  <2>2. CASE down'[c] = down[c]
    BY <2>2 DEF LaunchAt
  <2>3. CASE down'[c] = <<>>
    BY <2>3 DEF LaunchAt
  <2>4. CASE down[c] # <<>> /\ down'[c] = Tail(down[c])
    <3>1. \A i \in 1..Len(Tail(down[c])) : Tail(down[c])[i] = down[c][i + 1] /\ i + 1 \in 1..Len(down[c])
      BY <2>1, <2>4
    <3>2. \A s \in Sessions, i \in Nat : LaunchAt(s, c, i)' => LaunchAt(s, c, i + 1)
      BY <2>4, <3>1 DEF LaunchAt
    <3> QED BY <3>2
  <2> QED BY <2>2, <2>3, <2>4 DEF DownShrinks
<1>2. ASSUME NEW s \in Sessions, NEW c \in Conns, NEW d \in Conns, NEW i \in Nat, NEW j \in Nat,
             LaunchAt(s, c, i)', LaunchAt(s, d, j)'
      PROVE  c = d /\ i = j
  <2>1. PICK k \in {0, 1} : \A t \in Sessions, n \in Nat : LaunchAt(t, c, n)' => LaunchAt(t, c, n + k)
    BY <1>1
  <2>2. PICK h \in {0, 1} : \A t \in Sessions, n \in Nat : LaunchAt(t, d, n)' => LaunchAt(t, d, n + h)
    BY <1>1
  <2>3. i + k \in Nat /\ j + h \in Nat /\ j + k \in Nat
    OBVIOUS
  <2>4. LaunchAt(s, c, i + k) /\ LaunchAt(s, d, j + h)
    BY <1>2, <2>1, <2>2
  <2>5. c = d
    BY <2>3, <2>4 DEF OneMessage
  <2>6. LaunchAt(s, c, j + k)
    BY <1>2, <2>1, <2>5
  <2>7. i + k = j + k
    BY <2>3, <2>4, <2>6 DEF OneMessage
  <2> QED BY <2>5, <2>7
<1>3. ASSUME NEW s \in Sessions, Sent(s)' PROVE Sent(s)
  <2>1. PICK c \in Conns, i \in Nat : LaunchAt(s, c, i)'
    BY <1>3 DEF Sent
  <2>2. PICK k \in {0, 1} : \A t \in Sessions, n \in Nat : LaunchAt(t, c, n)' => LaunchAt(t, c, n + k)
    BY <1>1
  <2>3. i + k \in Nat /\ LaunchAt(s, c, i + k)
    BY <2>1, <2>2
  <2> QED BY <2>3 DEF Sent
<1> QED BY <1>2, <1>3 DEF OneMessage

\* A channel towards the server loses messages or carries one more, which is
\* the end of a session of X if it is one at all.
UpStep(X) ==
    \A c \in Conns :
        \/ up'[c] = up[c] \/ up'[c] = <<>>
        \/ up[c] # <<>> /\ up'[c] = Tail(up[c])
        \/ \E m \in Messages : /\ m.type = "ended" => m.sid \in X
                               /\ up'[c] = Append(up[c], m) \/ up'[c] = <<m>>

LEMMA EndsSaid ==
    ASSUME TypeOK, NEW X, UpStep(X)
    PROVE  \A s \in Sessions : EndSaid(s)' => EndSaid(s) \/ s \in X
<1> SUFFICES ASSUME NEW s \in Sessions, NEW c \in Conns, NEW i \in Nat, EndAt(s, c, i)', s \notin X
             PROVE  \E j \in Nat : EndAt(s, c, j)
  BY DEF EndSaid
<1>1. up[c] \in Seq(Messages)
  BY DEF TypeOK
<1>2. CASE up'[c] = up[c]
  BY <1>2 DEF EndAt
<1>3. CASE up'[c] = <<>>
  BY <1>3 DEF EndAt
<1>4. CASE up[c] # <<>> /\ up'[c] = Tail(up[c])
  <2>1. \A j \in 1..Len(Tail(up[c])) : Tail(up[c])[j] = up[c][j + 1] /\ j + 1 \in 1..Len(up[c])
    BY <1>1, <1>4
  <2>2. EndAt(s, c, i + 1)
    BY <1>4, <2>1 DEF EndAt
  <2> QED BY <2>2
<1>5. ASSUME NEW m \in Messages, m.type = "ended" => m.sid \in X, up'[c] = Append(up[c], m)
      PROVE  EndAt(s, c, i)
  <2>1. i \in 1..Len(up[c]) \/ i = Len(up[c]) + 1
    BY <1>1, <1>5 DEF EndAt
  <2>2. i # Len(up[c]) + 1
    BY <1>1, <1>5 DEF EndAt
  <2> QED BY <1>1, <1>5, <2>1, <2>2 DEF EndAt
<1>6. ASSUME NEW m \in Messages, m.type = "ended" => m.sid \in X, up'[c] = <<m>> PROVE FALSE
  BY <1>6 DEF EndAt
<1> QED BY <1>2, <1>3, <1>4, <1>5, <1>6 DEF UpStep

LEMMA SendUp ==
    ASSUME TypeOK, NEW l, NEW m \in Messages, NEW X, m.type = "ended" => m.sid \in X,
           DaemonSend(l, m)
    PROVE  UpStep(X)
<1>1. up' = up \/ up' = [up EXCEPT ![link[l]] = Append(@, m)]
  BY DEF DaemonSend
<1>2. \A c \in Conns : up'[c] = up[c] \/ up'[c] = Append(up[c], m)
  BY <1>1 DEF TypeOK
<1> QED BY <1>2 DEF UpStep

\* A step that launches nothing, and says or writes the end of a session only
\* when no launch of it is left.
LEMMA Quiet ==
    ASSUME TInv, OneMessage', Fresh',
           \A s \in Sessions : stage'[s] = "sync" => stage[s] = "sync",
           \A s \in Sessions : Sent(s)' => Sent(s),
           \A l \in Launchers : agents'[l] \subseteq agents[l],
           \A s \in Sessions : Over(s)' =>
               Over(s) \/ (stage'[s] # "sync" /\ ~Sent(s)' /\ ~Aboard(s)')
    PROVE  TInv'
<1>1. \A s \in Sessions : Aboard(s)' => Aboard(s)
  BY DEF Aboard
<1>2. OneAgent'
  BY DEF TInv, OneAgent
<1>3. OneLaunch'
  BY <1>1 DEF TInv, OneLaunch
<1> QED BY <1>2, <1>3 DEF TInv

\* The same of a step that leaves the sessions alone.
LEMMA ChannelsOnly ==
    ASSUME IInv, TInv, UNCHANGED sessionVars, DownShrinks, UpStep({}),
           \A l \in Launchers : agents'[l] \subseteq agents[l]
    PROVE  TInv'
<1>1. OneMessage' /\ \A s \in Sessions : Sent(s)' => Sent(s)
  BY LaunchesShrink DEF IInv, TInv
<1>2. \A s \in Sessions : EndSaid(s)' => EndSaid(s)
  BY EndsSaid DEF IInv
<1>3. Fresh'
  BY <1>2 DEF TInv, Fresh, sessionVars
<1>4. \A s \in Sessions : Over(s)' => Over(s)
  BY <1>2 DEF Over, sessionVars
<1> QED BY <1>1, <1>3, <1>4, Quiet DEF sessionVars

LEMMA ConnectionSteps == IInv /\ TInv /\ NextConnection => TInv'
<1> SUFFICES ASSUME IInv, TInv, NextConnection PROVE TInv'
  OBVIOUS
<1>1. up \in [Conns -> Seq(Messages)] /\ down \in [Conns -> Seq(Messages)]
  BY DEF IInv, TypeOK
<1>2. ASSUME NEW l \in Launchers, Connect(l) PROVE TInv'
  <2>1. UNCHANGED sessionVars /\ DownShrinks /\ \A m \in Launchers : agents'[m] \subseteq agents[m]
    BY <1>2 DEF Connect, DownShrinks
  <2>2. PICK k \in 1..MaxConns[l] : up' = [up EXCEPT ![<<l, k>>] = <<[type |-> "register"]>>]
    BY <1>2 DEF Connect
  <2>3. UpStep({})
    BY <1>1, <2>2, MessagesMade DEF UpStep
  <2> QED BY <2>1, <2>3, ChannelsOnly
<1>3. ASSUME NEW l \in Launchers, Lose(l) \/ Prune(l) \/ DaemonStop(l) PROVE TInv'
  <2>1. UNCHANGED sessionVars /\ UpStep({})
    BY <1>3 DEF Lose, Prune, DaemonStop, UpStep
  <2>2. DownShrinks
    BY <1>1, <1>3 DEF Lose, Prune, DaemonStop, DownShrinks
  <2>3. \A m \in Launchers : agents'[m] \subseteq agents[m]
    BY <1>3 DEF Lose, Prune, DaemonStop, daemonVars, IInv, TypeOK
  <2> QED BY <2>1, <2>2, <2>3, ChannelsOnly
<1>4. ASSUME NEW c \in Conns, Register(c) \/ SrvClose(c) PROVE TInv'
  <2>1. UNCHANGED sessionVars /\ DownShrinks /\ \A m \in Launchers : agents'[m] \subseteq agents[m]
    BY <1>4 DEF Register, SrvClose, DownShrinks, daemonVars
  <2>2. UpStep({})
    BY <1>1, <1>4 DEF Register, SrvClose, UpStep
  <2> QED BY <2>1, <2>2, ChannelsOnly
<1>5. CASE Restart
  <2>1. UNCHANGED <<row, local, blind, agents, down>> /\ up' = [c \in Conns |-> <<>>]
    BY <1>5 DEF Restart, daemonVars
  <2>2. \A s \in Sessions : stage'[s] = IF stage[s] = "spawn" THEN "spawn" ELSE "idle"
    BY <1>5 DEF Restart
  <2>3. DownShrinks /\ UpStep({})
    BY <2>1 DEF DownShrinks, UpStep
  <2>4. OneMessage' /\ \A s \in Sessions : Sent(s)' => Sent(s)
    BY <2>3, LaunchesShrink DEF IInv, TInv
  <2>5. \A s \in Sessions : EndSaid(s)' => EndSaid(s)
    BY <2>3, EndsSaid DEF IInv
  <2>6. Fresh' /\ \A s \in Sessions : Over(s)' => Over(s)
    BY <2>1, <2>2, <2>5 DEF TInv, Fresh, Over
  <2> QED BY <2>1, <2>2, <2>4, <2>6, Quiet
<1> QED BY <1>2, <1>3, <1>4, <1>5 DEF NextConnection

(***************************** Dispatch and kill ***************************)

LEMMA DispatchStep ==
    ASSUME IInv, TInv, NEW s \in Sessions, NEW l \in Launchers,
           NEW k \in {"plain", "pinned", "harness"}, Dispatch(s, l, k)
    PROVE  TInv'
<1>1. /\ row[s] = "none" /\ UNCHANGED <<up, down, agents, local, blind>>
      /\ row' = [row EXCEPT ![s] = "pending"]
      /\ \E v \in {"sync", "spawn"} : stage' = [stage EXCEPT ![s] = v]
  BY DEF Dispatch, Insert, daemonVars
<1>2. ~Sent(s) /\ ~Aboard(s) /\ ~EndSaid(s) /\ s \notin local
  BY <1>1 DEF TInv, OneLaunch, Fresh, Over
<1>3. \A x \in Sessions : (Sent(x)' <=> Sent(x)) /\ (Aboard(x)' <=> Aboard(x)) /\ (EndSaid(x)' <=> EndSaid(x))
  BY <1>1 DEF Sent, Aboard, EndSaid, LaunchAt, EndAt
<1>4. OneAgent' /\ OneMessage'
  BY <1>1 DEF TInv, OneAgent, OneMessage, LaunchAt
<1>5. \A x \in Sessions : x # s => row'[x] = row[x] /\ stage'[x] = stage[x]
  BY <1>1 DEF IInv, TypeOK
<1>6. row'[s] = "pending" /\ stage'[s] \in {"sync", "spawn"}
  BY <1>1 DEF IInv, TypeOK
<1>7. \A x \in Sessions : x # s => (Over(x)' <=> Over(x))
  BY <1>1, <1>3, <1>5 DEF Over
<1>8. Over(s)' => stage'[s] = "spawn"
  BY <1>1, <1>2, <1>3, <1>6 DEF Over, Ended
<1>9. OneLaunch'
  BY <1>2, <1>3, <1>5, <1>6, <1>7, <1>8 DEF TInv, OneLaunch
<1>10. Fresh'
  BY <1>1, <1>3, <1>5, <1>6 DEF TInv, Fresh
<1> QED BY <1>4, <1>9, <1>10 DEF TInv

LEMMA AppendDown ==
    ASSUME TypeOK, NEW c \in Conns, NEW m \in Messages, down' = [down EXCEPT ![c] = Append(@, m)],
           NEW s \in Sessions, NEW d \in Conns, NEW i \in Nat, LaunchAt(s, d, i)'
    PROVE  \/ LaunchAt(s, d, i)
           \/ d = c /\ i = Len(down[c]) + 1 /\ m.type = "launch" /\ m.sid = s
<1>1. down[c] \in Seq(Messages)
  BY DEF TypeOK
<1>2. CASE d # c
  BY <1>2 DEF LaunchAt, TypeOK
<1>3. CASE d = c
  <2>1. down'[c] = Append(down[c], m)
    BY DEF TypeOK
  <2>2. i \in 1..Len(down[c]) \/ i = Len(down[c]) + 1
    BY <1>1, <1>3, <2>1 DEF LaunchAt
  <2> QED BY <1>1, <1>3, <2>1, <2>2 DEF LaunchAt
<1> QED BY <1>2, <1>3

LEMMA LaunchAppended ==
    ASSUME TypeOK, NEW c \in Conns, NEW m \in Messages, down' = [down EXCEPT ![c] = Append(@, m)]
    PROVE  \A x \in Sessions, d \in Conns, i \in Nat :
              LaunchAt(x, d, i)' => LaunchAt(x, d, i) \/ (x = m.sid /\ d = c /\ i = Len(down[c]) + 1)
BY AppendDown

\* The launch of a session that nothing else has launched or ended.
LEMMA LaunchSent ==
    ASSUME IInv, TInv, NEW s \in Sessions, ~Sent(s), ~Aboard(s), ~EndSaid(s), s \notin local,
           NEW c, SrvSend(c, [type |-> "launch", sid |-> s]),
           stage'[s] \in {"idle", "reply"}, row'[s] # "none",
           IsOpen(c) => row'[s] \notin Ended \/ s \in blind,
           \A x \in Sessions \ {s} : row'[x] = row[x] /\ stage'[x] = stage[x],
           UNCHANGED <<up, agents, local, blind>>
    PROVE  TInv'
<1>3. \A x \in Sessions : (Aboard(x)' <=> Aboard(x)) /\ (EndSaid(x)' <=> EndSaid(x))
  BY DEF Aboard, EndSaid, EndAt
<1>5. Fresh'
  BY <1>3 DEF TInv, Fresh
<1>6. \A x \in Sessions : x # s => (Over(x)' => Over(x))
  BY <1>3 DEF Over
<1>7. CASE down' = down
  <2>1. OneMessage' /\ \A x \in Sessions : Sent(x)' <=> Sent(x)
    BY <1>7 DEF TInv, OneMessage, Sent, LaunchAt
  <2> QED BY <1>3, <1>5, <1>6, <2>1, Quiet
<1>8. CASE down' # down
  <2> DEFINE m == [type |-> "launch", sid |-> s]
  <2>1. IsOpen(c) /\ down' = [down EXCEPT ![c] = Append(@, m)]
    BY <1>8 DEF SrvSend
  <2>2. m \in Messages /\ m.sid = s
    BY MessagesMade
  <2> HIDE DEF m
  <2>10. c \in Conns
    <3>1. ASSUME c \notin Conns PROVE [down EXCEPT ![c] = Append(@, m)] = down
      BY <3>1 DEF IInv, TypeOK
    <3> QED BY <1>8, <2>1, <3>1
  <2>3. \A x \in Sessions, d \in Conns, i \in Nat :
            LaunchAt(x, d, i)' => LaunchAt(x, d, i) \/ (x = s /\ d = c /\ i = Len(down[c]) + 1)
    <3>1. TypeOK
      BY DEF IInv
    <3>2. \A x \in Sessions, d \in Conns, i \in Nat :
              LaunchAt(x, d, i)' => LaunchAt(x, d, i) \/ (x = m.sid /\ d = c /\ i = Len(down[c]) + 1)
      BY <3>1, <2>1, <2>2, <2>10, LaunchAppended, Zenon
    <3> QED BY <2>2, <3>2
  <2>4. \A x \in Sessions : x # s => (Sent(x)' => Sent(x))
    BY <2>3 DEF Sent
  <2>5. \A d \in Conns, i \in Nat : ~LaunchAt(s, d, i)
    BY DEF Sent
  <2>6. OneMessage'
    BY <2>3, <2>5 DEF TInv, OneMessage
  <2>7. ~Over(s)'
    BY <1>3, <2>1 DEF Over
  <2>8. OneLaunch'
    BY <1>3, <1>6, <2>4, <2>7 DEF TInv, OneLaunch
  <2>9. OneAgent'
    BY DEF TInv, OneAgent
  <2> QED BY <1>5, <2>6, <2>8, <2>9 DEF TInv
<1> QED BY <1>7, <1>8

LEMMA SendStep ==
    ASSUME IInv, TInv, NEW s \in Sessions, SendLaunch(s) \/ SendHarness(s)
    PROVE  TInv'
<1>1. stage[s] = "sync" /\ UNCHANGED <<up, agents, local, blind>>
  BY DEF SendLaunch, SendHarness, daemonVars
<1>2. ~Sent(s) /\ ~Aboard(s) /\ ~Over(s)
  BY <1>1 DEF TInv, OneLaunch
<1>3. ~EndSaid(s) /\ s \notin local /\ row[s] # "none" /\ (row[s] \notin Ended \/ s \in blind)
  BY <1>2 DEF Over
<1>4. PICK c : /\ SrvSend(c, [type |-> "launch", sid |-> s])
               /\ row' = row \/ (~IsOpen(c) /\ row' = [row EXCEPT ![s] = "failed"])
               /\ \E v \in {"idle", "reply"} : stage' = [stage EXCEPT ![s] = v]
  BY DEF SendLaunch, SendHarness
<1>5. /\ stage'[s] \in {"idle", "reply"} /\ row'[s] \in {row[s], "failed"}
      /\ IsOpen(c) => row'[s] = row[s]
      /\ \A x \in Sessions \ {s} : row'[x] = row[x] /\ stage'[x] = stage[x]
  BY <1>4 DEF IInv, TypeOK
<1>6. row'[s] # "none" /\ (IsOpen(c) => row'[s] \notin Ended \/ s \in blind)
  BY <1>3, <1>5
<1> QED BY <1>1, <1>2, <1>3, <1>4, <1>5, <1>6, LaunchSent

LEMMA ResumeStep ==
    ASSUME IInv, TInv, NEW s \in Sessions, NEW l \in Launchers, Resume(s, l) PROVE TInv'
<1>1. /\ row[s] = "none" /\ UNCHANGED <<up, agents, local, blind>>
      /\ row' = [row EXCEPT ![s] = "pending"]
  BY DEF Resume, Insert, daemonVars
<1>2. ~Sent(s) /\ ~Aboard(s) /\ ~EndSaid(s) /\ s \notin local /\ stage[s] = "idle"
  BY <1>1 DEF TInv, OneLaunch, Fresh, Over
<1>3. row'[s] = "pending" /\ \A x \in Sessions \ {s} : row'[x] = row[x]
  BY <1>1 DEF IInv, TypeOK
<1>4. CASE IsOpen(reg[l])
  <2>1. SrvSend(reg[l], [type |-> "launch", sid |-> s]) /\ stage' = stage
    BY <1>4 DEF Resume
  <2>2. row'[s] # "none" /\ row'[s] \notin Ended
    BY <1>3 DEF Ended
  <2> QED BY <1>1, <1>2, <1>3, <2>1, <2>2, LaunchSent
<1>5. CASE ~IsOpen(reg[l])
  <2>1. stage' = [stage EXCEPT ![s] = "spawn"] /\ down' = down
    BY <1>5 DEF Resume
  <2>2. stage'[s] = "spawn" /\ \A x \in Sessions \ {s} : stage'[x] = stage[x]
    BY <2>1 DEF IInv, TypeOK
  <2>3. OneMessage' /\ \A x \in Sessions : (Sent(x)' <=> Sent(x)) /\ (EndSaid(x)' <=> EndSaid(x))
    BY <1>1, <2>1 DEF TInv, OneMessage, Sent, EndSaid, LaunchAt, EndAt
  <2>4. Fresh'
    BY <1>3, <2>2, <2>3, <1>1 DEF TInv, Fresh
  <2>5. \A x \in Sessions \ {s} : Over(x)' => Over(x)
    BY <1>1, <1>3, <2>2, <2>3 DEF Over
  <2>6. ~Sent(s)' /\ ~Aboard(s)' /\ stage'[s] # "sync" /\ \A m \in Launchers : agents'[m] = agents[m]
    BY <1>1, <1>2, <2>2, <2>3 DEF Aboard
  <2> QED BY <2>2, <2>3, <2>4, <2>5, <2>6, Quiet
<1> QED BY <1>4, <1>5

LEMMA TimeoutStep ==
    ASSUME IInv, TInv, NEW s \in Sessions, HarnessTimeout(s) PROVE TInv'
<1>1. /\ stage[s] = "reply" /\ stage' = [stage EXCEPT ![s] = "idle"]
      /\ row' = [row EXCEPT ![s] = "failed"] /\ blind' = blind \cup {s}
      /\ UNCHANGED <<up, down, agents, local>>
  BY DEF HarnessTimeout, daemonVars
<1>2. OneMessage' /\ \A x \in Sessions : (Sent(x)' <=> Sent(x)) /\ (EndSaid(x)' <=> EndSaid(x))
  BY <1>1 DEF TInv, OneMessage, Sent, EndSaid, LaunchAt, EndAt
<1>3. row'[s] = "failed" /\ stage'[s] = "idle" /\ s \in blind'
      /\ \A x \in Sessions : x # s => row'[x] = row[x] /\ stage'[x] = stage[x]
  BY <1>1 DEF IInv, TypeOK
<1>4. Fresh'
  BY <1>1, <1>2, <1>3 DEF TInv, Fresh
<1>5. \A x \in Sessions : Over(x)' => Over(x)
  BY <1>1, <1>2, <1>3 DEF Over
<1>6. \A x \in Sessions : stage'[x] = "sync" => stage[x] = "sync"
  BY <1>3
<1> QED BY <1>1, <1>2, <1>4, <1>5, <1>6, Quiet

LEMMA KillStep ==
    ASSUME IInv, TInv, NEW s \in Sessions, Kill(s) PROVE TInv'
<1> DEFINE c == IF target[s] = None THEN None ELSE reg[target[s][1]]
           m == [type |-> "kill", sid |-> s]
<1>1. /\ row[s] \in Active /\ UNCHANGED <<stage, up, agents>>
      /\ \/ SrvSend(c, m) /\ UNCHANGED <<row, local, blind>>
         \/ /\ row' = [row EXCEPT ![s] = "killed"] /\ local' = local \ {s}
            /\ blind' = blind \cup {s} /\ UNCHANGED down
  BY DEF Kill, daemonVars
<1>2. m \in Messages /\ m.type # "launch"
  BY MessagesMade
<1> HIDE DEF c, m
<1>3. \A x \in Sessions, d \in Conns, i \in Nat : LaunchAt(x, d, i)' => LaunchAt(x, d, i)
  <2>1. CASE down' = down
    BY <2>1 DEF LaunchAt
  <2>2. CASE down' = [down EXCEPT ![c] = Append(@, m)] /\ c \in Conns
    BY <1>2, <2>2, AppendDown DEF IInv
  <2>3. CASE down' = [down EXCEPT ![c] = Append(@, m)] /\ c \notin Conns
    <3>1. down' = down
      BY <2>3 DEF IInv, TypeOK
    <3> QED BY <3>1 DEF LaunchAt
  <2> QED BY <1>1, <2>1, <2>2, <2>3 DEF SrvSend
<1>4. OneMessage' /\ \A x \in Sessions : Sent(x)' => Sent(x)
  BY <1>3 DEF TInv, OneMessage, Sent
<1>5. \A x \in Sessions : EndSaid(x)' <=> EndSaid(x)
  BY <1>1 DEF EndSaid, EndAt
<1>6. Fresh' /\ \A x \in Sessions : Over(x)' => Over(x)
  <2>1. CASE UNCHANGED <<row, local, blind>>
    BY <1>1, <1>5, <2>1 DEF TInv, Fresh, Over
  <2>2. CASE /\ row' = [row EXCEPT ![s] = "killed"] /\ local' = local \ {s}
             /\ blind' = blind \cup {s}
    <3>1. row'[s] = "killed" /\ \A x \in Sessions : x # s => row'[x] = row[x]
      BY <2>2 DEF IInv, TypeOK
    <3>2. Fresh'
      BY <1>1, <1>5, <2>2, <3>1 DEF TInv, Fresh
    <3>3. \A x \in Sessions : Over(x)' => Over(x)
      BY <1>1, <1>5, <2>2, <3>1 DEF Over
    <3> QED BY <3>2, <3>3
  <2> QED BY <1>1, <2>1, <2>2
<1> QED BY <1>1, <1>4, <1>6, Quiet

LEMMA LocalStep ==
    ASSUME IInv, TInv, NEW s \in Sessions, LocalStart(s) \/ LocalExit(s) PROVE TInv'
<1>1. UNCHANGED <<up, down, agents, blind>>
  BY DEF LocalStart, LocalExit, daemonVars
<1>2. OneMessage' /\ \A x \in Sessions : (Sent(x)' <=> Sent(x)) /\ (EndSaid(x)' <=> EndSaid(x))
  BY <1>1 DEF TInv, OneMessage, Sent, EndSaid, LaunchAt, EndAt
<1>3. /\ row'[s] \in {"running", "completed"} /\ Over(s)
      /\ \A x \in Sessions \ {s} : row'[x] = row[x] /\ stage'[x] = stage[x] /\ (x \in local' <=> x \in local)
      /\ stage'[s] = "sync" => stage[s] = "sync"
  BY DEF LocalStart, LocalExit, IInv, TypeOK, Over
<1>4. Fresh'
  BY <1>2, <1>3 DEF TInv, Fresh
<1>5. \A x \in Sessions : Over(x)' => Over(x)
  BY <1>1, <1>2, <1>3 DEF Over
<1> QED BY <1>1, <1>2, <1>3, <1>4, <1>5, Quiet

(********************************** Reports ********************************)

LEMMA ReportStep ==
    ASSUME IInv, TInv, NEW c \in Conns, Started(c) \/ EndedReport(c) PROVE TInv'
<1> DEFINE s == Head(up[c]).sid
<1>1. up[c] \in Seq(Messages) /\ up[c] # <<>> /\ Head(up[c]) \in Messages
      /\ Head(up[c]).type \in {"started", "ended"} /\ up' = [up EXCEPT ![c] = Tail(@)]
  BY DEF Started, EndedReport, IInv, TypeOK
<1>2. s \in Sessions /\ (Head(up[c]).type = "ended" => Head(up[c]).status \in Ended)
  BY <1>1, MessageKinds
<1>3. UpStep({}) /\ UNCHANGED <<down, agents, local, blind>>
  BY <1>1 DEF UpStep, Started, EndedReport, IInv, TypeOK, daemonVars
<1>4. \A x \in Sessions : EndSaid(x)' => EndSaid(x)
  BY <1>3, EndsSaid DEF IInv
<1>5. OneMessage' /\ \A x \in Sessions : Sent(x)' <=> Sent(x)
  BY <1>3 DEF TInv, OneMessage, Sent, LaunchAt
<1>6. /\ \A x \in Sessions : x # s => row'[x] = row[x] /\ stage'[x] = stage[x]
      /\ stage'[s] \in {"idle", stage[s]}
      /\ row'[s] = "running" \/ (row'[s] \in Ended /\ Head(up[c]).type = "ended")
  BY <1>2 DEF Started, EndedReport, IInv, TypeOK
<1>7. Head(up[c]).type = "ended" => EndSaid(s)
  <2>1. Head(up[c]) = up[c][1] /\ 1 \in 1..Len(up[c])
    BY <1>1
  <2> QED BY <2>1 DEF EndSaid, EndAt
<1> HIDE DEF s
<1>8. Fresh'
  BY <1>3, <1>4, <1>6 DEF TInv, Fresh, Ended
<1>9. \A x \in Sessions : Over(x)' => Over(x)
  BY <1>2, <1>3, <1>4, <1>6, <1>7 DEF Over, Ended
<1>10. \A x \in Sessions : stage'[x] = "sync" => stage[x] = "sync"
  BY <1>6
<1> QED BY <1>3, <1>5, <1>8, <1>9, <1>10, Quiet

\* The daemon takes the first message of its connection.
LEMMA Takes ==
    ASSUME IInv, TInv, NEW l \in Launchers, NEW type \in {"launch", "kill"},
           Arrived(l, type), Taken(l)
    PROVE  /\ DownShrinks
           /\ \E s \in Sessions : /\ s = Head(down[link[l]]).sid
                                  /\ type = "launch" => Sent(s) /\ ~Sent(s)'
<1>1. PICK c \in Conns : c = link[l] /\ down[c] \in Seq(Messages) /\ down[c] # <<>>
  BY DEF Arrived, IInv, TypeOK
<1>2. PICK s \in Sessions : /\ s = Head(down[c]).sid
                           /\ Head(down[c]) \in Messages /\ Head(down[c]).type = type
  BY <1>1, MessageKinds DEF Arrived
<1>3. down' = [down EXCEPT ![c] = Tail(@)]
  BY <1>1 DEF Taken
<1>4. DownShrinks
  BY <1>1, <1>3 DEF DownShrinks, IInv, TypeOK
<1>5. ASSUME type = "launch" PROVE Sent(s) /\ ~Sent(s)'
  <2>1. LaunchAt(s, c, 1)
    BY <1>1, <1>2, <1>5 DEF LaunchAt
  <2>2. ASSUME NEW d \in Conns, NEW i \in Nat, LaunchAt(s, d, i)' PROVE FALSE
    <3>1. CASE d # c
      <4>1. LaunchAt(s, d, i)
        <5>1. down'[d] = down[d]
          BY <1>3, <3>1 DEF IInv, TypeOK
        <5> QED BY <2>2, <5>1 DEF LaunchAt
      <4> QED BY <1>1, <1>2, <2>1, <3>1, <4>1 DEF TInv, OneMessage
    <3>2. CASE d = c
      <4>1. down'[c] = Tail(down[c])
        BY <1>1, <1>3 DEF IInv, TypeOK
      <4>2. i \in 1..Len(Tail(down[c])) /\ Tail(down[c])[i] = down[c][i + 1] /\ i + 1 \in 1..Len(down[c])
        BY <1>1, <2>2, <3>2, <4>1 DEF LaunchAt
      <4>3. down[c][i + 1] = down'[c][i] /\ i + 1 # 1 /\ i + 1 \in Nat
        BY <4>1, <4>2
      <4>4. LaunchAt(s, c, i + 1)
        BY <2>2, <3>2, <4>2, <4>3 DEF LaunchAt
      <4> QED BY <1>1, <1>2, <2>1, <4>3, <4>4 DEF TInv, OneMessage
    <3> QED BY <3>1, <3>2
  <2> QED BY <1>1, <2>1, <2>2 DEF Sent
<1> QED BY <1>1, <1>2, <1>4, <1>5

LEMMA LaunchStep ==
    ASSUME IInv, TInv, NEW l \in Launchers, Launch(l) PROVE TInv'
<1>0. DownShrinks
  BY Takes DEF Launch
<1>1. PICK s \in Sessions : s = Head(down[link[l]]).sid /\ Sent(s) /\ ~Sent(s)'
  BY Takes DEF Launch
<1>2. stage[s] # "sync" /\ ~Aboard(s) /\ ~Over(s)
  BY <1>1 DEF TInv, OneLaunch
<1>3. UNCHANGED sessionVars
  BY DEF Launch
<1>4. \/ /\ agents' = [agents EXCEPT ![l] = @ \cup {s}]
         /\ DaemonSend(l, [type |-> "started", sid |-> s])
      \/ /\ UNCHANGED agents
         /\ up' = up \/ DaemonSend(l, [type |-> "ended", sid |-> s, status |-> "failed"])
  BY <1>1, <1>2 DEF Launch, Aboard
<1>5. OneMessage' /\ \A x \in Sessions : Sent(x)' => Sent(x)
  BY <1>0, LaunchesShrink DEF IInv, TInv
<1>6. CASE /\ agents' = [agents EXCEPT ![l] = @ \cup {s}]
           /\ DaemonSend(l, [type |-> "started", sid |-> s])
  <2>1. UpStep({})
    BY <1>1, <1>6, MessagesMade DEF DaemonSend, UpStep, IInv, TypeOK
  <2>2. \A x \in Sessions : EndSaid(x)' => EndSaid(x)
    BY <2>1, EndsSaid DEF IInv
  <2>3. Fresh' /\ \A x \in Sessions : Over(x)' => Over(x)
    BY <1>3, <2>2 DEF TInv, Fresh, Over, sessionVars
  <2>4. \A x \in Sessions, k \in Launchers : x \in agents'[k] => x \in agents[k] \/ (x = s /\ k = l)
    BY <1>6 DEF IInv, TypeOK
  <2>5. \A x \in Sessions : Aboard(x)' => Aboard(x) \/ x = s
    BY <2>4 DEF Aboard
  <2>6. OneAgent'
    BY <1>2, <2>4 DEF TInv, OneAgent, Aboard
  <2>7. OneLaunch'
    <3>1. stage' = stage
      BY <1>3 DEF sessionVars
    <3>2. ~Over(s)'
      BY <1>1, <1>2, <2>3
    <3>3. OneLaunch
      BY DEF TInv
    <3> QED BY <1>1, <1>2, <1>5, <2>3, <2>5, <3>1, <3>2, <3>3 DEF OneLaunch
  <2> QED BY <1>5, <2>3, <2>6, <2>7 DEF TInv
<1>7. CASE /\ UNCHANGED agents
           /\ up' = up \/ DaemonSend(l, [type |-> "ended", sid |-> s, status |-> "failed"])
  <2>1. UpStep({s})
    <3> DEFINE m == [type |-> "ended", sid |-> s, status |-> "failed"]
    <3>1. m \in Messages /\ m.sid \in {s}
      BY <1>1, MessagesMade DEF Ended
    <3>2. CASE up' = up
      BY <3>2 DEF UpStep
    <3>3. CASE DaemonSend(l, m)
      BY <3>1, <3>3, SendUp DEF IInv
    <3> QED BY <1>7, <3>2, <3>3
  <2>2. \A x \in Sessions : EndSaid(x)' => EndSaid(x) \/ x = s
    BY <2>1, EndsSaid DEF IInv
  <2>3. Fresh'
    BY <1>2, <1>3, <2>2 DEF TInv, Fresh, sessionVars, Over
  <2>4. \A x \in Sessions : Over(x)' => Over(x) \/ x = s
    BY <1>3, <2>2 DEF Over, sessionVars
  <2>5. agents' = agents /\ stage' = stage
    BY <1>3, <1>7 DEF sessionVars
  <2>6. ~Aboard(s)'
    BY <1>2, <2>5 DEF Aboard
  <2> QED BY <1>1, <1>2, <1>5, <2>3, <2>4, <2>5, <2>6, Quiet
<1> QED BY <1>4, <1>6, <1>7

LEMMA ExitStep ==
    ASSUME IInv, TInv, NEW l \in Launchers, NEW s \in Sessions, Exit(l, s) PROVE TInv'
<1>1. /\ s \in agents[l] /\ agents' = [agents EXCEPT ![l] = @ \ {s}]
      /\ UNCHANGED <<sessionVars, down>>
      /\ \E e \in {"completed", "failed"} : DaemonSend(l, [type |-> "ended", sid |-> s, status |-> e])
  BY DEF Exit
<1>2. Aboard(s) /\ stage[s] # "sync" /\ ~Sent(s) /\ ~Over(s)
  BY <1>1 DEF Aboard, TInv, OneLaunch
<1>3. ~Aboard(s)' /\ \A k \in Launchers : agents'[k] \subseteq agents[k]
  BY <1>1 DEF Aboard, TInv, OneAgent, IInv, TypeOK
<1>4. OneMessage' /\ \A x \in Sessions : Sent(x)' <=> Sent(x)
  BY <1>1 DEF TInv, OneMessage, Sent, LaunchAt
<1>5. UpStep({s})
  <2>1. PICK e \in {"completed", "failed"} :
            DaemonSend(l, [type |-> "ended", sid |-> s, status |-> e])
    BY <1>1
  <2> DEFINE m == [type |-> "ended", sid |-> s, status |-> e]
  <2>2. m \in Messages /\ m.sid \in {s}
    BY MessagesMade DEF Ended
  <2> QED BY <2>1, <2>2, SendUp DEF IInv
<1>6. \A x \in Sessions : EndSaid(x)' => EndSaid(x) \/ x = s
  BY <1>5, EndsSaid DEF IInv
<1>7. Fresh'
  BY <1>1, <1>2, <1>6 DEF TInv, Fresh, sessionVars, Over
<1>8. stage' = stage /\ \A x \in Sessions : Over(x)' => Over(x) \/ x = s
  BY <1>1, <1>6 DEF Over, sessionVars
<1> QED BY <1>2, <1>3, <1>4, <1>7, <1>8, Quiet

LEMMA KillOrderStep ==
    ASSUME IInv, TInv, NEW l \in Launchers, KillOrder(l) PROVE TInv'
<1>1. DownShrinks
  BY Takes DEF KillOrder
<1>2. UNCHANGED <<sessionVars, agents, up>>
  BY DEF KillOrder
<1>3. UpStep({})
  BY <1>2 DEF UpStep
<1> QED BY <1>1, <1>2, <1>3, ChannelsOnly

LEMMA TokenStep == IInv /\ TInv /\ [Next]_vars => TInv'
<1> SUFFICES ASSUME IInv, TInv, [Next]_vars PROVE TInv'
  OBVIOUS
<1>1. CASE NextConnection
  BY <1>1, ConnectionSteps
<1>2. CASE NextServer
  BY <1>2, DispatchStep, ResumeStep, SendStep, TimeoutStep, KillStep, LocalStep, ReportStep DEF NextServer
<1>3. CASE NextDaemon
  BY <1>3, LaunchStep, KillOrderStep, ExitStep DEF NextDaemon
<1>4. CASE UNCHANGED vars
  BY <1>4, ChannelsOnly DEF vars, daemonVars, DownShrinks, UpStep
<1> QED BY <1>1, <1>2, <1>3, <1>4 DEF Next

LEMMA TokensGiveGone == TInv => EndedAgentGone
BY DEF TInv, OneLaunch, Over, Aboard, EndedAgentGone

\* A row that has ended, and was not ended without its launcher, has no agent
\* on any launcher, however reports, reconnections and restarts interleave.
THEOREM EndedGone == Spec => []EndedAgentGone
BY Inductive, TInitially, TokenStep, TokensGiveGone, PTL DEF Spec
-----------------------------------------------------------------------------
(***************************************************************************)
(* OneAgentAnywhere: LauncherSessions implements AgentRun.  A step starts an  *)
(* agent only for a session whose launch had not been used up (Onward), and a *)
(* launch is used up before its agent runs (OneLaunch, Waiting).             *)
(***************************************************************************)
LEMMA LaunchingIsSent ==
    ASSUME NEW D \in [Conns -> Seq(Messages)], NEW s \in Sessions
    PROVE  (\E c \in Conns : [type |-> "launch", sid |-> s] \in Range(D[c]))
           <=> \E c \in Conns : \E i \in Nat : /\ i \in 1..Len(D[c])
                                              /\ D[c][i].type = "launch" /\ D[c][i].sid = s
<1>1. \A m \in Messages : m.type = "launch" /\ m.sid = s <=> m = [type |-> "launch", sid |-> s]
  BY DEF Messages
<1>2. ASSUME NEW c \in Conns
      PROVE  [type |-> "launch", sid |-> s] \in Range(D[c])
             <=> \E i \in Nat : i \in 1..Len(D[c]) /\ D[c][i].type = "launch" /\ D[c][i].sid = s
  <2>1. D[c] \in Seq(Messages)
    OBVIOUS
  <2>2. DOMAIN D[c] = 1..Len(D[c]) /\ \A i \in 1..Len(D[c]) : i \in Nat /\ D[c][i] \in Messages
    BY <2>1
  <2> QED BY <1>1, <2>2 DEF Range
<1> QED BY <1>2

\* What one step may do to a session's launch.
RowOnward(s) ==
    /\ s \in local' => s \in local \/ stage[s] = "spawn"
    /\ stage'[s] \in {"sync", "spawn"} => stage'[s] = stage[s] \/ row[s] = "none"
    /\ row'[s] = "none" => row[s] = "none"

LEMMA RowSteps ==
    ASSUME IInv, [Next]_vars, NEW s \in Sessions PROVE RowOnward(s)
<1>1. row \in [Sessions -> {"none"} \cup Active \cup Ended]
      /\ stage \in [Sessions -> {"idle", "sync", "reply", "spawn"}]
  BY DEF IInv, TypeOK
<1>2. CASE UNCHANGED sessionVars
  BY <1>2 DEF RowOnward, sessionVars
<1>3. CASE Restart
  BY <1>1, <1>3 DEF RowOnward, Restart
<1>4. ASSUME NEW x \in Sessions, NEW l \in Launchers, NEW k, Dispatch(x, l, k) PROVE RowOnward(s)
  BY <1>1, <1>4 DEF RowOnward, Dispatch, Insert
<1>9. ASSUME NEW x \in Sessions, NEW l \in Launchers, Resume(x, l) PROVE RowOnward(s)
  BY <1>1, <1>9 DEF RowOnward, Resume, Insert
<1>5. ASSUME NEW x \in Sessions, SendLaunch(x) \/ SendHarness(x) \/ HarnessTimeout(x) PROVE RowOnward(s)
  BY <1>1, <1>5 DEF RowOnward, SendLaunch, SendHarness, HarnessTimeout
<1>6. ASSUME NEW x \in Sessions, Kill(x) PROVE RowOnward(s)
  BY <1>1, <1>6 DEF RowOnward, Kill
<1>7. ASSUME NEW x \in Sessions, LocalStart(x) \/ LocalExit(x) PROVE RowOnward(s)
  BY <1>1, <1>7 DEF RowOnward, LocalStart, LocalExit
<1>8. ASSUME NEW c \in Conns, Started(c) \/ EndedReport(c) PROVE RowOnward(s)
  <2>1. up[c] \in Seq(Messages) /\ up[c] # <<>>
    BY <1>8 DEF Started, EndedReport, IInv, TypeOK
  <2>2. Head(up[c]) \in Messages
    BY <2>1
  <2>3. Head(up[c]).type = "ended" => Head(up[c]).status # "none"
    BY <2>2, MessageKinds DEF Ended
  <2> QED BY <1>1, <1>8, <2>3 DEF RowOnward, Started, EndedReport
<1> QED BY <1>2, <1>3, <1>4, <1>5, <1>6, <1>7, <1>8, <1>9
        DEF Next, NextConnection, NextServer, NextDaemon, vars, Connect, Lose, Prune, DaemonStop,
            Register, SrvClose, Launch, KillOrder, Exit

LEMMA SrvSendMoves ==
    ASSUME TypeOK, NEW c, NEW m \in Messages, SrvSend(c, m), NEW s \in Sessions, Sent(s)'
    PROVE  Sent(s) \/ (m.type = "launch" /\ m.sid = s)
<1>1. PICK d \in Conns, i \in Nat : LaunchAt(s, d, i)'
  BY DEF Sent
<1>2. CASE down' = down
  BY <1>1, <1>2 DEF LaunchAt, Sent
<1>3. CASE down' = [down EXCEPT ![c] = Append(@, m)] /\ c \in Conns
  <2>1. LaunchAt(s, d, i) \/ (m.type = "launch" /\ m.sid = s)
    BY <1>1, <1>3, AppendDown
  <2> QED BY <2>1 DEF Sent
<1>4. CASE down' = [down EXCEPT ![c] = Append(@, m)] /\ c \notin Conns
  <2>1. down' = down
    BY <1>4 DEF TypeOK
  <2> QED BY <1>1, <2>1 DEF LaunchAt, Sent
<1> QED BY <1>2, <1>3, <1>4 DEF SrvSend

LEMMA SentSteps ==
    ASSUME IInv, TInv, [Next]_vars, NEW s \in Sessions, Sent(s)'
    PROVE  Sent(s) \/ stage[s] = "sync" \/ row[s] = "none"
<1>1. CASE DownShrinks
  BY <1>1, LaunchesShrink DEF IInv, TInv
<1>2. ASSUME UNCHANGED down PROVE Sent(s)
  BY <1>2 DEF Sent, LaunchAt
<1>3. ASSUME NEW x \in Sessions, SendLaunch(x) \/ SendHarness(x) PROVE Sent(s) \/ stage[s] = "sync"
  <2> DEFINE m == [type |-> "launch", sid |-> x]
  <2>1. m \in Messages /\ m.sid = x /\ stage[x] = "sync" /\ \E c : SrvSend(c, m)
    BY <1>3, MessagesMade DEF SendLaunch, SendHarness
  <2> HIDE DEF m
  <2> QED BY <2>1, SrvSendMoves DEF IInv
<1>4. ASSUME NEW x \in Sessions, Kill(x) PROVE Sent(s) \/ stage[s] = "sync"
  <2> DEFINE m == [type |-> "kill", sid |-> x]
  <2>1. m \in Messages /\ m.type # "launch" /\ (down' = down \/ \E c : SrvSend(c, m))
    BY <1>4, MessagesMade DEF Kill
  <2> HIDE DEF m
  <2> QED BY <1>2, <2>1, SrvSendMoves DEF IInv
<1>7. ASSUME NEW x \in Sessions, NEW l \in Launchers, Resume(x, l) PROVE Sent(s) \/ row[s] = "none"
  <2> DEFINE m == [type |-> "launch", sid |-> x]
  <2>1. m \in Messages /\ m.sid = x /\ row[x] = "none" /\ (down' = down \/ \E c : SrvSend(c, m))
    BY <1>7, MessagesMade DEF Resume, Insert
  <2> HIDE DEF m
  <2> QED BY <1>2, <2>1, SrvSendMoves DEF IInv
<1>5. ASSUME NEW l \in Launchers, Lose(l) \/ DaemonStop(l) PROVE DownShrinks
  BY <1>5 DEF Lose, DaemonStop, DownShrinks, IInv, TypeOK
<1>6. ASSUME NEW l \in Launchers, Launch(l) \/ KillOrder(l) PROVE DownShrinks
  BY <1>6, Takes DEF Launch, KillOrder
<1> QED BY <1>1, <1>2, <1>3, <1>4, <1>5, <1>6, <1>7
        DEF Next, NextConnection, NextServer, NextDaemon, vars, Connect, Prune, Register, SrvClose,
            Restart, Dispatch, HarnessTimeout, LocalStart, LocalExit, Started, EndedReport, Exit

LEMMA AboardSteps ==
    ASSUME IInv, TInv, [Next]_vars, NEW s \in Sessions, Aboard(s)'
    PROVE  Aboard(s) \/ Sent(s)
<1>1. CASE \A l \in Launchers : agents'[l] \subseteq agents[l]
  BY <1>1 DEF Aboard
<1>2. CASE UNCHANGED agents
  BY <1>2 DEF Aboard
<1>3. ASSUME NEW l \in Launchers, Launch(l) PROVE Aboard(s) \/ Sent(s)
  <2>1. PICK x \in Sessions : x = Head(down[link[l]]).sid /\ Sent(x)
    BY <1>3, Takes DEF Launch
  <2>2. agents' = agents \/ agents' = [agents EXCEPT ![l] = @ \cup {x}]
    BY <1>3, <2>1 DEF Launch
  <2>3. \A k \in Launchers : agents'[k] \subseteq agents[k] \cup {x}
    BY <2>2 DEF IInv, TypeOK
  <2> QED BY <2>1, <2>3 DEF Aboard
<1>4. ASSUME NEW l \in Launchers, DaemonStop(l) PROVE \A k \in Launchers : agents'[k] \subseteq agents[k]
  BY <1>4 DEF DaemonStop, IInv, TypeOK
<1>5. ASSUME NEW l \in Launchers, NEW x \in Sessions, Exit(l, x)
      PROVE  \A k \in Launchers : agents'[k] \subseteq agents[k]
  BY <1>5 DEF Exit, IInv, TypeOK
<1> QED BY <1>1, <1>2, <1>3, <1>4, <1>5
        DEF Next, NextConnection, NextServer, NextDaemon, vars, daemonVars, Connect, Lose, Prune,
            Register, SrvClose, Restart, Insert, Dispatch, Resume, SendLaunch, SendHarness,
            HarnessTimeout, Kill, LocalStart, LocalExit, Started, EndedReport, KillOrder

LEMMA RunStep ==
    ASSUME IInv, TInv, IInv', TInv', [Next]_vars PROVE Runs!Next
<1>1. \A s \in Sessions : (Launching(s) <=> Sent(s)) /\ (Launching(s)' <=> Sent(s)')
  <2> TAKE s \in Sessions
  <2>1. down \in [Conns -> Seq(Messages)] /\ down' \in [Conns -> Seq(Messages)]
    BY DEF IInv, TypeOK
  <2>2. (\E c \in Conns : [type |-> "launch", sid |-> s] \in Range(down[c]))
        <=> \E c \in Conns : \E i \in Nat : LaunchAt(s, c, i)
    BY <2>1, LaunchingIsSent DEF LaunchAt
  <2>3. (\E c \in Conns : [type |-> "launch", sid |-> s] \in Range(down'[c]))
        <=> \E c \in Conns : \E i \in Nat : LaunchAt(s, c, i)'
    BY <2>1, LaunchingIsSent DEF LaunchAt
  <2> QED BY <2>2, <2>3 DEF Launching, Sent
<1>2. /\ askedOf' \in [Sessions -> Nat] /\ procsOf' \in [Sessions -> Nat]
      /\ openOf' \subseteq Sessions
  BY DEF askedOf, procsOf, openOf
<1>3. ASSUME NEW s \in Sessions PROVE Runs!Ask(s) \/ Runs!Start(s) \/ Runs!Wane(s)
  <2> DEFINE alive == Aboard(s) \/ s \in local
             open  == row[s] # "none" /\ ~alive /\ (stage[s] \in {"sync", "spawn"} \/ Sent(s))
  <2>1. /\ askedOf[s] = IF row[s] = "none" THEN 0 ELSE 1
        /\ askedOf'[s] = IF row'[s] = "none" THEN 0 ELSE 1
        /\ procsOf[s] = IF alive THEN 1 ELSE 0
        /\ procsOf'[s] = IF alive' THEN 1 ELSE 0
        /\ s \in openOf <=> open
        /\ s \in openOf' <=> open'
    <3>1. /\ s \in openOf <=> open
          /\ s \in openOf' <=> open'
      BY <1>1 DEF openOf
    <3> QED BY <3>1 DEF askedOf, procsOf
  <2>2. row'[s] = "none" => row[s] = "none"
    BY RowSteps DEF RowOnward
  <2>3. row[s] = "none" => ~alive /\ ~alive' /\ ~open
    <3> SUFFICES ASSUME row[s] = "none" PROVE ~alive /\ ~alive'
      OBVIOUS
    <3>1. ~Aboard(s) /\ ~Sent(s) /\ s \notin local /\ stage[s] # "spawn"
      BY DEF TInv, OneLaunch, Over, Fresh
    <3> QED BY <3>1, AboardSteps, RowSteps DEF RowOnward
  <2>4. row'[s] = "none" => ~open'
    OBVIOUS
  <2>5. row[s] # "none" /\ alive' /\ ~alive => open /\ ~open'
    BY AboardSteps, RowSteps DEF RowOnward
  <2>6. row[s] # "none" /\ open' => alive \/ open
    BY SentSteps, RowSteps DEF RowOnward
  <2>7. row[s] # "none" /\ alive => ~open'
    <3> SUFFICES ASSUME row[s] # "none", alive, open' PROVE FALSE
      OBVIOUS
    <3>1. stage[s] \in {"sync", "spawn"} \/ Sent(s)
      BY SentSteps, RowSteps DEF RowOnward
    <3>2. Aboard(s) => ~Over(s) /\ stage[s] # "sync" /\ ~Sent(s)
      BY DEF TInv, OneLaunch
    <3>3. s \in local => Over(s) /\ stage[s] # "sync" /\ ~Sent(s) /\ stage[s] # "spawn"
      BY DEF TInv, OneLaunch, Over, IInv, Waiting
    <3> QED BY <3>1, <3>2, <3>3 DEF Over
  <2> HIDE DEF alive, open
  <2>8. CASE row[s] = "none" /\ row'[s] # "none"
    BY <2>1, <2>3, <2>8 DEF Runs!Ask
  <2>9. CASE row[s] = "none" /\ row'[s] = "none"
    BY <2>1, <2>3, <2>4, <2>9 DEF Runs!Wane
  <2>10. CASE row[s] # "none" /\ alive' /\ ~alive
    BY <2>1, <2>2, <2>5, <2>10 DEF Runs!Start
  <2>11. CASE row[s] # "none" /\ ~(alive' /\ ~alive)
    BY <2>1, <2>2, <2>6, <2>7, <2>11 DEF Runs!Wane
  <2> QED BY <2>8, <2>9, <2>10, <2>11
<1> QED BY <1>2, <1>3 DEF Runs!Next

\* A session id is given at most one agent process, over this server and every
\* launcher, and it is in one place: a launch that a lost connection, a restart
\* or a time-out has left undecided is never repeated (SendLaunch, SendHarness,
\* HarnessTimeout, LocalStart).
THEOREM OneAgentEverywhere == Spec => OneAgentAnywhere
<1>1. Init => Runs!Init
  BY DEF Init, Runs!Init, askedOf, openOf, procsOf, Aboard
<1>2. IInv /\ TInv => OneHome
  BY DEF TInv, OneLaunch, OneAgent, Over, OneHome
<1>3. IInv /\ TInv /\ IInv' /\ TInv' /\ [Next]_vars => Runs!Next
  BY RunStep
<1>4. Spec => [](IInv /\ TInv)
  BY Inductive, TInitially, TokenStep, PTL DEF Spec
<1> QED BY <1>1, <1>2, <1>3, <1>4, PTL DEF Spec, OneAgentAnywhere, Runs!Spec
=============================================================================

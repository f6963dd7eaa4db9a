---------------------------- MODULE ViewerAttach ----------------------------
(***************************************************************************)
(* The viewers (browser sockets) of one locally hosted session, inside the *)
(* session service: session-service.ts and session-recovery.ts.            *)
(*                                                                         *)
(* A socket waits in `pending` until the agent is spawned, in `parked`     *)
(* while the session runs in tmux but could not be reattached, and in      *)
(* `admins` while it is fed by the live PTY.  The parking lot retries the  *)
(* reattach on a timer and on keystrokes.  The row, the agent and the      *)
(* spawn request are what SessionLifecycle says of one session, reduced to *)
(* what a viewer can tell apart.                                           *)
(***************************************************************************)
EXTENDS Naturals, Sequences, SequencesExt, Subsequences

CONSTANTS
    Viewers,       \* sockets
    MaxAttempts,   \* createRecoveryParking's maxAttempts
    MaxRestarts    \* bound on restarts of the session service

ASSUME AttemptsAssumption == MaxAttempts \in Nat \ {0} /\ MaxRestarts \in Nat

VARIABLES
    row,       \* the status in the database
    agent,     \* is there a tmux session with the agent in it?
    spawning,  \* POST /spawn is in the service, awaiting the environment
    proc,      \* is the session in activeSessions?
    open,      \* sockets that are connected
    exitTold,  \* sockets that were sent an exit message
    admins,    \* proc.adminSockets
    pending,   \* pendingConnections
    parked,    \* recoveryParking's waiting sockets
    tries,     \* automatic retries made; MaxAttempts when no timer is set
    recent,    \* what attempted recovery less than minGapMs ago, if anything
    sizes,     \* proc.clientSizes: viewers, the latest resize request last
    pty,       \* whose size the PTY has: a viewer, "default", or "route"
    restarts

sessVars == <<row, agent, spawning, proc>>
lists    == <<admins, pending, parked>>
timers   == <<tries, recent>>
ptyVars  == <<sizes, pty>>
vars == <<sessVars, open, exitTold, lists, timers, ptyVars, restarts>>

Init ==
    /\ row = "pending" /\ agent = FALSE /\ spawning = TRUE /\ proc = FALSE
    /\ open = {} /\ exitTold = {}
    /\ admins = {} /\ pending = {} /\ parked = {}
    /\ tries = MaxAttempts /\ recent = "none"
    /\ sizes = <<>> /\ pty = "default"
    /\ restarts = 0

\* A PTY client just created: nobody has asked for a size.
FreshPty == sizes' = <<>> /\ pty' = "default"

\* promote and forget: the parking lot empties into the live session.
Promote(fed) ==
    /\ admins' = fed \cup parked
    /\ parked' = {}
    /\ tries' = MaxAttempts /\ recent' = "none"

-----------------------------------------------------------------------------
(* The session under the viewers.                                          *)

\* spawnSession: the sockets that arrived before the PTY are attached to it.
Spawn ==
    /\ spawning /\ ~proc
    /\ spawning' = FALSE /\ agent' = TRUE /\ proc' = TRUE
    /\ row' = IF row = "gone" THEN row ELSE "running"
    /\ admins' = pending /\ pending' = {}
    /\ FreshPty
    /\ UNCHANGED <<open, exitTold, parked, timers, restarts>>

\* Mutant: the sockets that wait for a spawn that throws are not told.
SpawnThrowSilent ==
    /\ spawning
    /\ spawning' = FALSE
    /\ UNCHANGED <<row, agent, proc, open, exitTold, lists, timers, ptyVars, restarts>>

\* The spawn throws, and the sockets waiting for it are told the session ended.
\* tmux may have started the agent by then; if only the row could not be
\* written, the entry is there and the sockets are attached to it already.
SpawnThrow ==
    /\ spawning
    /\ spawning' = FALSE /\ pending' = {}
    /\ \/ /\ agent' \in IF proc THEN {agent} ELSE BOOLEAN
          /\ exitTold' = exitTold \cup pending
          /\ UNCHANGED <<proc, admins, ptyVars>>
       \/ /\ ~proc /\ proc' = TRUE /\ agent' = TRUE
          /\ admins' = pending
          /\ FreshPty
          /\ UNCHANGED exitTold
    /\ UNCHANGED <<row, open, parked, timers, restarts>>

\* wireOnExit or killSessionProcess.  The agent outlives its attach client
\* when only the client ended or tmux kill-session failed.
End(survives) ==
    /\ proc
    /\ proc' = FALSE /\ agent' = survives
    /\ row' = IF row = "gone" THEN row ELSE "ended"
    /\ exitTold' = exitTold \cup admins /\ admins' = {}
    /\ FreshPty
    /\ UNCHANGED <<spawning, open, pending, parked, timers, restarts>>

\* The main server ends or deletes the row by itself (a kill it could not
\* deliver, a failed spawn, orphan cleanup); the service is not told.
MainEnds(status) ==
    /\ row \in {"pending", "running"}
    /\ row' = status
    /\ UNCHANGED <<agent, spawning, proc, open, exitTold, lists, timers, ptyVars, restarts>>

\* The agent ends while the service does not drive it.
AgentDies ==
    /\ agent /\ ~proc
    /\ agent' = FALSE
    /\ UNCHANGED <<row, spawning, proc, open, exitTold, lists, timers, ptyVars, restarts>>

\* The service ends, its sockets with it, and recovers at start, before it
\* accepts any socket; the reattach may fail, and a tmux query that fails reads
\* as "no such session".
SvcRestart(fits) ==
    /\ restarts < MaxRestarts /\ restarts' = restarts + 1
    /\ spawning' = FALSE
    /\ proc' = (row = "running" /\ agent /\ fits)
    /\ row' \in IF row = "running" /\ ~proc' THEN {"running", "ended"} ELSE {row}
    /\ open' = {} /\ exitTold' = {}
    /\ admins' = {} /\ pending' = {} /\ parked' = {}
    /\ tries' = MaxAttempts /\ recent' = "none"
    /\ FreshPty
    /\ UNCHANGED agent

-----------------------------------------------------------------------------
(* Sockets.                                                                *)

\* Mutant: history is sent and the socket kept, but nothing waits for it.
ParkSilently(v) == UNCHANGED <<parked, tries>>

\* recoveryParking.park: schedule() starts counting again when no timer runs.
Park(v) ==
    /\ parked' = parked \cup {v}
    /\ tries' = IF tries < MaxAttempts THEN tries ELSE 0

\* attachAdminSocket.  A row that is gone is refused before it gets here.  ok is
\* what the tmux probe says, found what has-session says of the session.
Connect(v, ok, found, fits) ==
    /\ v \notin open /\ row # "gone"
    /\ found => agent
    /\ open' = open \cup {v}
    /\ \/ /\ proc
          /\ admins' = admins \cup {v}
          /\ UNCHANGED <<row, proc, exitTold, pending, parked, tries, ptyVars>>
       \/ /\ ~proc /\ row = "pending"
          /\ pending' = pending \cup {v}
          /\ UNCHANGED <<row, proc, exitTold, admins, parked, tries, ptyVars>>
       \/ /\ ~proc /\ row = "running" /\ ok /\ found /\ fits
          /\ proc' = TRUE /\ admins' = {v}
          /\ FreshPty
          /\ UNCHANGED <<row, exitTold, pending, parked, tries>>
       \/ /\ ~proc /\ row = "running" /\ (~ok \/ (found /\ ~fits))
          /\ Park(v)
          /\ UNCHANGED <<row, proc, exitTold, admins, pending, ptyVars>>
       \/ /\ ~proc /\ \/ row = "running" /\ ok /\ ~found
                      \/ row = "ended"
          /\ row' = "ended" /\ exitTold' = exitTold \cup {v}
          /\ UNCHANGED <<proc, lists, tries, ptyVars>>
    /\ UNCHANGED <<agent, spawning, recent, restarts>>

\* ViewerSizes.delete.
Without(requests, v) == Kept(requests, Viewers \ {v})

\* The PTY takes the most recent request of the viewers still attached.
Rederive(left) ==
    LET attached == Kept(left, admins') IN
    IF left = <<>> THEN sizes' = left /\ UNCHANGED pty
    ELSE /\ sizes' = attached
         /\ pty' = IF attached = <<>> THEN pty ELSE Last(attached)

\* Mutant: the PTY keeps the size of the viewer that left.
CloseKeepsSize(v) ==
    /\ v \in open
    /\ open' = open \ {v} /\ exitTold' = exitTold \ {v}
    /\ admins' = admins \ {v} /\ pending' = pending \ {v} /\ parked' = parked \ {v}
    /\ sizes' = Without(sizes, v)
    /\ UNCHANGED <<sessVars, timers, pty, restarts>>

\* Mutant: the parking lot is not told that the socket closed.
CloseStaysParked(v) ==
    /\ v \in open
    /\ open' = open \ {v} /\ exitTold' = exitTold \ {v}
    /\ admins' = admins \ {v} /\ pending' = pending \ {v}
    /\ UNCHANGED <<sessVars, parked, timers, sizes, pty, restarts>>

\* detachAdminSocket, and recoveryParking.release.
Close(v) ==
    /\ v \in open
    /\ open' = open \ {v} /\ exitTold' = exitTold \ {v}
    /\ admins' = admins \ {v} /\ pending' = pending \ {v}
    /\ parked' = parked \ {v}
    /\ IF v \in parked /\ parked' = {}
       THEN tries' = MaxAttempts /\ recent' = "none"
       ELSE UNCHANGED timers
    /\ IF Contains(sizes, v) THEN Rederive(Without(sizes, v))
       ELSE UNCHANGED <<sizes, pty>>
    /\ UNCHANGED <<sessVars, restarts>>

-----------------------------------------------------------------------------
(* The parking lot.                                                        *)

\* attemptRecovery can answer yes: live already, or reattachable now.
Recoverable == proc \/ (row = "running" /\ agent)

\* Attempt, and hand the waiting sockets over when it succeeds.
Recover ==
    /\ Recoverable
    /\ proc' = TRUE
    /\ Promote(admins)

\* Mutant: the timer only retries sessions that nobody else has revived.
RetryUnlessLive(fits) ==
    /\ tries < MaxAttempts /\ recent # "timer"
    /\ \/ /\ recent = "none" /\ fits /\ ~proc /\ Recover /\ FreshPty
       \/ /\ recent = "key" \/ ~fits \/ proc \/ ~Recoverable
          /\ tries' = tries + 1
          /\ recent' = "timer"
          /\ UNCHANGED <<proc, admins, parked, ptyVars>>
    /\ UNCHANGED <<row, agent, spawning, open, exitTold, pending, restarts>>

\* The retry timer fires (retryMs is longer than minGapMs, so never right after
\* itself); after the last failure no timer is set again.
Retry(fits) ==
    /\ tries < MaxAttempts /\ recent # "timer"
    /\ \/ /\ recent = "none" /\ (proc \/ fits) /\ Recover
          /\ IF proc THEN UNCHANGED ptyVars ELSE FreshPty
       \/ /\ recent = "key" \/ ~(proc \/ fits) \/ ~Recoverable
          /\ tries' = tries + 1
          /\ recent' = "timer"
          /\ UNCHANGED <<proc, admins, parked, ptyVars>>
    /\ UNCHANGED <<row, agent, spawning, open, exitTold, pending, restarts>>

\* minGapMs passes.
GapPasses ==
    /\ recent # "none"
    /\ recent' = "none"
    /\ UNCHANGED <<sessVars, open, exitTold, lists, tries, ptyVars, restarts>>

\* What an input message does once there is a PTY: typing is written to it, a
\* resize is recorded as the latest request and applied.
Apply(v, kind, oldSizes, oldPty) ==
    IF kind = "key"
    THEN sizes' = oldSizes /\ pty' = oldPty
    ELSE sizes' = Append(Without(oldSizes, v), v) /\ pty' = v

\* sequenced_input: retry the reattach first when viewers are parked and the
\* session is not live; without a PTY the input is dropped.
Input(v, kind, fits) ==
    /\ v \in open
    /\ \/ /\ proc
          /\ Apply(v, kind, sizes, pty)
          /\ UNCHANGED <<proc, admins, parked, timers>>
       \/ /\ ~proc /\ parked # {} /\ recent = "none" /\ fits
          /\ Recover
          /\ Apply(v, kind, <<>>, "default")
       \/ /\ ~proc /\ parked # {} /\ recent = "none" /\ ~(fits /\ Recoverable)
          /\ recent' = "key"
          /\ UNCHANGED <<proc, admins, parked, tries, ptyVars>>
    /\ UNCHANGED <<row, agent, spawning, open, exitTold, pending, restarts>>

\* POST /resize/:id is applied and not remembered.
ResizeRoute ==
    /\ proc
    /\ pty' = "route"
    /\ UNCHANGED <<sessVars, open, exitTold, lists, timers, sizes, restarts>>

-----------------------------------------------------------------------------
Next ==
    \/ Spawn \/ SpawnThrow \/ AgentDies \/ GapPasses \/ ResizeRoute
    \/ \E survives \in BOOLEAN : End(survives)
    \/ \E status \in {"ended", "gone"} : MainEnds(status)
    \/ \E fits \in BOOLEAN : SvcRestart(fits) \/ Retry(fits)
    \/ \E v \in Viewers :
          \/ \E ok, found, fits \in BOOLEAN : Connect(v, ok, found, fits)
          \/ Close(v)
          \/ \E kind \in {"key", "resize"}, fits \in BOOLEAN : Input(v, kind, fits)

Spec == Init /\ [][Next]_vars

\* The service's event loop: an accepted spawn is finished, timers fire.
Fairness ==
    /\ WF_vars(Spawn \/ SpawnThrow)
    /\ WF_vars(GapPasses)
    /\ WF_vars(\E fits \in BOOLEAN : Retry(fits))

FairSpec == Spec /\ Fairness
-----------------------------------------------------------------------------
TypeOK ==
    /\ row \in {"pending", "running", "ended", "gone"}
    /\ agent \in BOOLEAN /\ spawning \in BOOLEAN /\ proc \in BOOLEAN
    /\ open \subseteq Viewers /\ exitTold \subseteq open
    /\ admins \subseteq open /\ pending \subseteq open /\ parked \subseteq open
    /\ tries \in 0..MaxAttempts /\ recent \in {"none", "timer", "key"}
    /\ sizes \in Seq(Viewers) /\ IsInjective(sizes)
    /\ pty \in Viewers \cup {"default", "route"}
    /\ restarts \in 0..MaxRestarts

\* Each list fits what the service knows: viewers are fed only by an entry of
\* activeSessions, and nobody waits for a spawn that has happened.
ListsMatchSession ==
    /\ admins # {} => proc
    /\ pending # {} => ~proc
    /\ tries < MaxAttempts => parked # {}

\* A connected viewer that was not told of an end is on exactly one list, the
\* one that fits the session's state, however attaches, spawns, recoveries,
\* exits and closes interleave (attachAdminSocket, detachAdminSocket, the parking
\* lot).  Whether somebody still serves that list is the next two's question.
OnOneList ==
    /\ open = admins \cup pending \cup parked \cup exitTold
    /\ admins \cap pending = {} /\ admins \cap parked = {} /\ pending \cap parked = {}
    /\ exitTold \cap (admins \cup pending \cup parked) = {}
    /\ ListsMatchSession

\* A viewer that waits for a spawn the service is working on is attached, or
\* told of the failure (POST /spawn).  One that comes when the spawn has already
\* thrown, while the row is still pending, is put on the same list, and no code
\* empties it again.
PendingServed ==
    \A v \in Viewers : (v \in pending /\ spawning) ~> v \notin pending

\* The PTY has the size most recently asked for among the requests it still
\* remembers, whoever comes, goes, or asked before being attached; only the
\* HTTP route, which is not remembered, may have come after them.
PtyFollowsLatest == sizes # <<>> => pty \in {Last(sizes), "route"}

\* While automatic retries remain, a session that comes back (whoever revived
\* it) reaches the viewers parked for it.  Two must remain: a keystroke's
\* attempt can be too recent for the next one.
ParkedServed ==
    \A v \in Viewers :
        (v \in parked /\ proc /\ tries + 1 < MaxAttempts) ~> (v \notin parked \/ ~proc)

=============================================================================

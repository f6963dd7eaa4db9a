------------------------------- MODULE CosTurns -------------------------------
(***************************************************************************)
(* The turns of one Chief-of-Staff thread (chief-of-staff.ts POST /chat,     *)
(* cos-turn-consumer.ts, cos-locks.ts).  The thread owns one persistent      *)
(* agent session in the session service.  A chat request makes sure that it  *)
(* runs, notes the session's output sequence, puts the turn on the thread    *)
(* row and leaves a consumer behind: a WebSocket client that asks for the    *)
(* output since that number and takes the first `result` line, or the exit,  *)
(* for the end of its turn.                                                 *)
(*                                                                         *)
(* The handler awaits the service four times; other requests, interrupts and *)
(* the agent's output come in between, and the main server may restart.      *)
(***************************************************************************)
EXTENDS Naturals, Sequences, Functions, Subsequences

CONSTANTS
    MaxTurns,     \* bound on the messages sent to the thread
    MaxRestarts,  \* bound on the restarts of the main server
    Unreachable   \* may the service fail to answer a status request?

ASSUME BoundAssumption == MaxTurns \in Nat /\ MaxRestarts \in Nat
ASSUME SwitchAssumption == Unreachable \in BOOLEAN

Turns == 1..MaxTurns

VARIABLES
    stage,     \* stage[t]: where the turn's handler or its consumer is
    start,     \* start[t]: its startSeq
    reply,     \* reply[t]: the turns whose text its assistant row holds
    inbox,     \* inbox[t]: what the service has sent to its consumer
    current,   \* cos_threads.turnRequestId and turnStartSeq, or 0
    active,    \* activeSessions of cos-locks.ts
    noted,     \* turns with the key in their lockKeys
    lock,      \* the key's owner, or 0 (one key)
    recovery,  \* recoverInFlightTurns: "due", "asked", "off"
    interrupt, \* an interrupt has killed and not yet cleared the thread row
    live,      \* does the agent run?
    queue,     \* the turns it has been given and has not answered
    seq,       \* the session's outputSeq
    buffer,    \* its messages in the service's MessageBuffer
    subs,      \* consumers in its adminSockets
    alone,     \* turns no other turn or interrupt has touched (history)
    clean,     \* turns that found no later message in the buffer (history)
    late,      \* owners that took the lock while not in `active` (history)
    restarts

turnVars  == <<stage, start, reply, inbox>>
lockVars  == <<active, noted, lock, late>>
mainVars  == <<current, recovery, interrupt, restarts>>
agentVars == <<live, queue, seq, buffer, subs>>
vars == <<turnVars, lockVars, mainVars, agentVars, alone, clean>>

Consuming == {"input", "dial", "replay", "listen"}
Settled   == {"done", "failed", "refused", "lost"}

Init ==
    /\ stage = [t \in Turns |-> "new"] /\ start = [t \in Turns |-> 0]
    /\ reply = [t \in Turns |-> {}]
    /\ inbox = [t \in Turns |-> <<>>]
    /\ active = {} /\ noted = {} /\ lock = 0 /\ late = {}
    /\ current = 0 /\ recovery = "off" /\ interrupt = FALSE /\ restarts = 0
    /\ live = FALSE /\ queue = <<>> /\ seq = 0
    /\ buffer = <<>> /\ subs = {}
    /\ alone = {} /\ clean = {}

\* What a status request may come to: FALSE is no answer.
Answers == IF Unreachable THEN BOOLEAN ELSE {TRUE}

At(t, st) == stage' = [stage EXCEPT ![t] = st]

-----------------------------------------------------------------------------
(* POST /chat.  Its four awaits: status, spawn and the 800 ms after it,     *)
(* status again.                                                           *)

\* The request.  The operator sends it when the last one has been answered,
\* which is when its consumer has been left behind, not when that has ended.
Chat(t) ==
    /\ stage[t] = "new" /\ recovery = "off"
    /\ \A u \in Turns : u < t => stage[u] \in Consuming \cup Settled
    /\ At(t, "asking")
    /\ active' = active \cup {t}
    /\ UNCHANGED <<start, reply, inbox, noted, lock, late, mainVars, agentVars, alone, clean>>

\* The first status: a session that runs will be written to, any other, or one
\* that cannot be asked, is spawned.
FirstStatus(t, ok) ==
    /\ stage[t] = "asking"
    /\ At(t, IF ok /\ live THEN "snap" ELSE "spawn")
    /\ noted' = IF ok /\ live THEN noted \ {t} ELSE noted
    /\ UNCHANGED <<start, reply, inbox, active, lock, late, mainVars, agentVars, alone, clean>>

\* spawnSession: refused if the session runs after all.  The sequence starts
\* anew; the buffer of the previous run stays.
Spawn(t) ==
    /\ stage[t] = "spawn"
    /\ At(t, "wait")
    /\ ~live
    /\ live' = TRUE /\ queue' = <<t>> /\ seq' = 0 /\ subs' = {}
    /\ alone' = {u \in alone : stage[u] \notin Consuming}
    /\ UNCHANGED <<start, reply, inbox, buffer, lockVars, mainVars, clean>>

\* ... or the service cannot be reached, or the runtime is missing.
SpawnRefused(t) ==
    /\ stage[t] = "spawn"
    /\ At(t, "refused")
    /\ active' = active \ {t}
    /\ UNCHANGED <<start, reply, inbox, noted, lock, late, mainVars, agentVars, alone, clean>>

\* 800 ms later: activeSessions is set again, with no lock keys.
Waited(t) ==
    /\ stage[t] = "wait"
    /\ At(t, "snapNew")
    /\ noted' = noted \ {t}
    /\ UNCHANGED <<start, reply, inbox, active, lock, late, mainVars, agentVars, alone, clean>>

\* Mutant: only a turn that is written to stdin is put on the thread row.
SnapshotUnmarked(t, ok) ==
    /\ stage[t] \in {"snap", "snapNew"}
    /\ start' = [start EXCEPT ![t] = IF ok THEN seq ELSE 0]
    /\ current' = IF stage[t] = "snap" THEN t ELSE current
    /\ At(t, IF stage[t] = "snap" THEN "input" ELSE "dial")
    /\ LET others == {u \in Turns \ {t} : stage[u] \in Consuming}
       IN alone' = IF others = {} /\ Range(queue) \subseteq {t}
                   THEN alone \cup {t} ELSE alone \ others
    /\ clean' = IF \A i \in DOMAIN buffer : buffer[i].seq <= start'[t]
                THEN clean \cup {t} ELSE clean
    /\ UNCHANGED <<reply, inbox, lockVars, recovery, interrupt, restarts, agentVars>>

\* The second status gives startSeq (0 if it cannot be had); the turn goes on
\* the thread row and its consumer starts.
Snapshot(t, ok) ==
    /\ stage[t] \in {"snap", "snapNew"}
    /\ start' = [start EXCEPT ![t] = IF ok THEN seq ELSE 0]
    /\ current' = t
    /\ At(t, IF stage[t] = "snap" THEN "input" ELSE "dial")
    /\ LET others == {u \in Turns \ {t} : stage[u] \in Consuming}
       IN alone' = IF others = {} /\ Range(queue) \subseteq {t}
                   THEN alone \cup {t} ELSE alone \ others
    /\ clean' = IF \A i \in DOMAIN buffer : buffer[i].seq <= start'[t]
                THEN clean \cup {t} ELSE clean
    /\ UNCHANGED <<reply, inbox, lockVars, recovery, interrupt, restarts, agentVars>>

-----------------------------------------------------------------------------
(* runCosTurnConsumer.                                                      *)

\* Mutant: only the keys in lockKeys are given back.
ReleaseNoted(t) == lock' = IF lock = t /\ t \in noted THEN 0 ELSE lock

\* releaseAllLocks: the keys in lockKeys, then all the turn still owns.
ReleaseAllLocks(t) == lock' = IF lock = t THEN 0 ELSE lock

\* onDone, and the end of the consumer.  A recovered consumer has no entry in
\* activeSessions and leaves the locks alone.  The turn on the thread row is
\* cleared, whichever it is.
OnDone(t) ==
    /\ IF t \in active THEN ReleaseAllLocks(t) ELSE UNCHANGED lock
    /\ active' = active \ {t} /\ noted' = noted \ {t}
    /\ current' = 0
    /\ subs' = subs \ {t}
    /\ inbox' = [inbox EXCEPT ![t] = <<>>]
    /\ start' = [start EXCEPT ![t] = 0]
    /\ UNCHANGED <<late, recovery, interrupt, restarts, live, queue, seq, buffer>>

\* finish: the assistant row is stored, whatever has been gathered.
Finish(t, text) ==
    /\ At(t, "done")
    /\ reply' = [reply EXCEPT ![t] = text]
    /\ OnDone(t)
    /\ UNCHANGED <<alone, clean>>

\* Mutant: the turn is left in a state of its own that nobody reads.
FailUnread(t) ==
    /\ stage[t] \in Consuming
    /\ At(t, "error")
    /\ OnDone(t)
    /\ UNCHANGED <<reply, alone, clean>>

\* fail: nothing is stored.
Fail(t) ==
    /\ stage[t] \in Consuming
    /\ At(t, "failed")
    /\ OnDone(t)
    /\ UNCHANGED <<reply, alone, clean>>

\* POST /input: an agent that has gone meanwhile does not get it, and the
\* service answers as if it had.
Input(t) ==
    /\ stage[t] = "input"
    /\ At(t, "dial")
    /\ queue' = IF live THEN Append(queue, t) ELSE queue
    /\ alone' = {u \in alone : u = t \/ stage[u] \notin Consuming}
    /\ UNCHANGED <<start, reply, inbox, lockVars, mainVars, live, seq, buffer, subs, clean>>

\* The socket is attached: to the agent's output if it runs, else to nothing
\* (the exit that it is shown then has no kind, and is not read).
Attach(t) ==
    /\ stage[t] = "dial"
    /\ At(t, "replay")
    /\ subs' = IF live THEN subs \cup {t} ELSE subs
    /\ UNCHANGED <<start, reply, inbox, lockVars, mainVars, live, queue, seq, buffer, alone, clean>>

\* replay_request: all the buffer holds from startSeq + 1 on, of any run.  The
\* first `gone` messages have expired (MESSAGE_TTL_MS) or been displaced
\* (MAX_PENDING_MESSAGES).
Replay(t, gone) ==
    /\ stage[t] = "replay"
    /\ At(t, "listen")
    /\ inbox' = [inbox EXCEPT ![t] = @ \o Kept(SubSeq(buffer, gone + 1, Len(buffer)),
                                              {m \in Range(buffer) : m.seq > start[t]})]
    /\ UNCHANGED <<start, reply, lockVars, mainVars, agentVars, alone, clean>>

\* Mutant: the exit is shown and does not end the turn.
HearNoExit(t) ==
    LET m == Head(inbox[t]) IN
    /\ stage[t] \in {"replay", "listen"} /\ inbox[t] # <<>>
    /\ IF m.kind = "result" THEN Finish(t, {m.turn})
       ELSE /\ inbox' = [inbox EXCEPT ![t] = Tail(@)]
            /\ UNCHANGED <<stage, start, reply, lockVars, mainVars, agentVars, alone, clean>>

\* The message handler: the first result, whosever it is, or an exit ends the
\* turn.  (The result line has the text; what was gathered before is left out.)
Hear(t) ==
    LET m == Head(inbox[t]) IN
    /\ stage[t] \in {"replay", "listen"} /\ inbox[t] # <<>>
    /\ Finish(t, IF m.kind = "result" THEN {m.turn} ELSE {})

\* The socket closes: an empty row is stored.
WsClose(t) ==
    /\ stage[t] \in {"replay", "listen"}
    /\ Finish(t, {})

-----------------------------------------------------------------------------
(* Interrupts and restarts.                                                 *)

\* A message of the agent, to the buffer and to every attached socket.
Emit(m) ==
    /\ seq' = seq + 1
    /\ buffer' = Append(buffer, [m EXCEPT !.seq = seq + 1])
    /\ inbox' = [t \in Turns |->
                   IF t \in subs THEN Append(inbox[t], [m EXCEPT !.seq = seq + 1]) ELSE inbox[t]]

Die ==
    /\ live
    /\ Emit([seq |-> 0, kind |-> "exit", turn |-> 0])
    /\ live' = FALSE /\ queue' = <<>> /\ subs' = {}
    /\ UNCHANGED <<stage, start, reply, lockVars, alone, clean>>

\* POST /threads/:id/interrupt: kill the session, then clear the thread row.
Interrupt ==
    /\ ~interrupt /\ interrupt' = TRUE
    /\ Die
    /\ UNCHANGED <<current, recovery, restarts>>

\* The recovery that has not read the row yet will not find the turn.
InterruptDone ==
    /\ interrupt /\ interrupt' = FALSE
    /\ current' = 0
    /\ stage' = [t \in Turns |->
                   IF stage[t] = "orphan" /\ recovery = "due" THEN "lost" ELSE stage[t]]
    /\ alone' = {t \in alone : stage[t] \notin Consuming \cup {"orphan"}}
    /\ UNCHANGED <<start, reply, inbox, lockVars, recovery, restarts, agentVars, clean>>

\* The main server restarts: handlers, consumers and locks are gone.
Restart ==
    /\ restarts < MaxRestarts /\ restarts' = restarts + 1
    /\ stage' = [t \in Turns |->
                   IF stage[t] \in Settled \cup {"new"} THEN stage[t]
                   ELSE IF stage[t] \in Consuming \cup {"orphan"} /\ current = t
                        THEN "orphan" ELSE "lost"]
    /\ inbox' = [t \in Turns |-> <<>>]
    /\ active' = {} /\ noted' = {} /\ lock' = 0 /\ late' = {}
    /\ recovery' = "due" /\ interrupt' = FALSE
    /\ subs' = {}
    /\ UNCHANGED <<start, reply, current, live, queue, seq, buffer, alone, clean>>

\* recoverInFlightTurns, 1.5 s after the start (the turns sent before it are
\* left out): the thread row ...
RecoverRead ==
    /\ recovery = "due"
    /\ recovery' = IF current = 0 THEN "off" ELSE "asked"
    /\ UNCHANGED <<turnVars, lockVars, current, interrupt, restarts, agentVars, alone, clean>>

\* Mutant: the replay starts from the beginning.
RecoverFromZero(ok) ==
    /\ recovery = "asked" /\ recovery' = "off"
    /\ \E t \in Turns :
          /\ stage[t] = "orphan"
          /\ start' = [start EXCEPT ![t] = 0]
          /\ IF ok /\ live
             THEN At(t, "dial") /\ UNCHANGED current
             ELSE At(t, "lost") /\ current' = 0
    /\ UNCHANGED <<reply, inbox, lockVars, interrupt, restarts, agentVars, alone, clean>>

\* ... then the session's status: a new consumer if it runs, else, or if it
\* cannot be asked, the turn is given up.
RecoverAnswer(ok) ==
    /\ recovery = "asked" /\ recovery' = "off"
    /\ \E t \in Turns :
          /\ stage[t] = "orphan"
          /\ IF ok /\ live
             THEN At(t, "dial") /\ UNCHANGED current
             ELSE At(t, "lost") /\ current' = 0
    /\ UNCHANGED <<start, reply, inbox, lockVars, interrupt, restarts, agentVars, alone, clean>>

-----------------------------------------------------------------------------
(* The agent and the service's buffer.                                      *)

\* The result line of the turn at hand.
AgentResult ==
    /\ live /\ queue # <<>>
    /\ queue' = Tail(queue)
    /\ Emit([seq |-> 0, kind |-> "result", turn |-> Head(queue)])
    /\ UNCHANGED <<stage, start, reply, lockVars, mainVars, live, subs, alone, clean>>

AgentDie == Die /\ UNCHANGED mainVars

\* POST /chief-of-staff/lock, by the turn at hand: any request id is served.
TakeLock ==
    LET t == Head(queue) IN
    /\ live /\ queue # <<>> /\ lock = 0
    /\ lock' = t
    /\ IF t \in active THEN noted' = noted \cup {t} /\ UNCHANGED late
       ELSE late' = late \cup {t} /\ UNCHANGED noted
    /\ UNCHANGED <<turnVars, active, mainVars, agentVars, alone, clean>>

\* DELETE /chief-of-staff/lock/:requestId/:key.
GiveLock ==
    /\ live /\ queue # <<>> /\ lock = Head(queue)
    /\ lock' = 0 /\ noted' = noted \ {lock} /\ late' = late \ {lock}
    /\ UNCHANGED <<turnVars, active, mainVars, agentVars, alone, clean>>

-----------------------------------------------------------------------------
NextTurn ==
    \E t \in Turns :
       \/ Chat(t) \/ Spawn(t) \/ SpawnRefused(t) \/ Waited(t)
       \/ \E ok \in Answers : FirstStatus(t, ok) \/ Snapshot(t, ok)
       \/ Fail(t) \/ Input(t) \/ Attach(t) \/ Hear(t) \/ WsClose(t)
       \/ \E gone \in 0..Len(buffer) : Replay(t, gone)

NextMain ==
    \/ Interrupt \/ InterruptDone \/ Restart
    \/ RecoverRead \/ \E ok \in Answers : RecoverAnswer(ok)

NextAgent == AgentResult \/ AgentDie \/ TakeLock \/ GiveLock

Next == NextTurn \/ NextMain \/ NextAgent

Spec == Init /\ [][Next]_vars

\* A turn that the agent has been given is answered or the agent dies; a
\* message that was delivered is read.
FairSpec ==
    /\ Spec
    /\ WF_vars(AgentResult \/ AgentDie)
    /\ \A t \in Turns : WF_vars(Hear(t))
=============================================================================

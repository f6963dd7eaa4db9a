---------------------------- MODULE OutputStream ----------------------------
(***************************************************************************)
(* The sequenced output protocol of one agent session, between the session *)
(* service (session-service.ts, message-buffer.ts) and the browser panes   *)
(* that show it (AgentTerminal.tsx), bridged by the main server.           *)
(*                                                                         *)
(* The agent prints chunks 1, 2, ...; the tmux pane always holds them all. *)
(* The service numbers each chunk and the final exit with a sequence       *)
(* number, buffers them until some viewer acknowledges them, and answers a *)
(* viewer that (re)connects with a snapshot and, on request, a replay.     *)
(***************************************************************************)
EXTENDS Naturals, Sequences, SequencesExt, Subsequences

CONSTANTS
    Viewers,      \* browser panes
    MaxOut,       \* bound on the chunks the agent prints
    Cap,          \* MAX_PENDING_MESSAGES
    MaxDrops,     \* bound on disconnections
    MayCrash,     \* can the service end without its shutdown handler?
    MaxRestarts,  \* bound on restarts of the session service
    Stream        \* is the session's profile a stream (needsWideStreamPty)?

ASSUME SizeAssumption == /\ MaxOut \in Nat \ {0} /\ Cap \in Nat \ {0}
                         /\ MaxDrops \in Nat /\ MaxRestarts \in Nat
ASSUME SwitchAssumption == MayCrash \in BOOLEAN /\ Stream \in BOOLEAN

VARIABLES
    out,      \* chunks printed so far
    live,     \* has the session not ended?
    seq,      \* proc.outputSeq
    saved,    \* the row's snapshot: [seq |-> lastOutputSeq, out |-> outputLog]
    redraw,   \* is tmux to repaint the screen for a client just attached?
    buffer,   \* messageBuffer: the unacknowledged messages, oldest first
    fed,      \* proc.adminSockets
    down, up, \* messages on their way to, and from, each connected viewer
    conn,     \* viewers with an open socket
    last,     \* last[v]: the pane's lastOutputSeq
    screen,   \* screen[v]: the chunks the pane shows, in order
    exited,   \* panes that have shown the exit (hasExited): they never reconnect
    drops, restarts

svcVars    == <<out, live, seq, saved, redraw, buffer, fed>>
clientVars == <<last, screen, exited>>
vars == <<svcVars, down, up, conn, clientVars, drops, restarts>>

History(n)     == [type |-> "history", upto |-> n]
Sequenced(n, c) == [type |-> "sequenced_output", seq |-> n, chunk |-> c]
ExitChunk      == 0        \* the content of the sequenced exit message
LegacyExit     == [type |-> "exit"]
OutputAck(n)   == [type |-> "output_ack", seq |-> n]
Replay(n)      == [type |-> "replay_request", seq |-> n]

Init ==
    /\ out = 0 /\ live = TRUE /\ seq = 0 /\ saved = [seq |-> 0, out |-> 0] /\ redraw = FALSE
    /\ buffer = <<>> /\ fed = {} /\ conn = {} /\ exited = {}
    /\ down = [v \in Viewers |-> <<>>] /\ up = [v \in Viewers |-> <<>>]
    /\ last = [v \in Viewers |-> 0] /\ screen = [v \in Viewers |-> <<>>]
    /\ drops = 0 /\ restarts = 0

-----------------------------------------------------------------------------
(* The session service.                                                    *)

\* Mutant: the limit is tested with > instead of >=.
BufferedOffByOne(m) == Append(IF Len(buffer) > Cap THEN Tail(buffer) ELSE buffer, m)

\* MessageBuffer.append: at capacity the oldest message is dropped.
Buffered(m) == Append(IF Len(buffer) >= Cap THEN Tail(buffer) ELSE buffer, m)

\* sendSequenced: number, buffer, and send to every attached socket.
SendSequenced(chunk) ==
    LET m == Sequenced(seq + 1, chunk) IN
    /\ seq' = seq + 1
    /\ buffer' = Buffered(m)
    /\ down' = [v \in Viewers |-> IF v \in fed THEN Append(down[v], m) ELSE down[v]]

\* wireOnData: the agent prints.
Output ==
    /\ live /\ out < MaxOut
    /\ out' = out + 1
    /\ SendSequenced(out + 1)
    /\ UNCHANGED <<live, saved, redraw, fed, up, conn, clientVars, drops, restarts>>

\* tmux repaints the screen of a client just attached: its last lines are
\* numbered and sent like any output.  A blank screen has nothing to show.
Redraw ==
    /\ live /\ redraw /\ redraw' = FALSE
    /\ IF out = 0 THEN UNCHANGED <<seq, buffer, down>> ELSE SendSequenced(out)
    /\ UNCHANGED <<out, live, saved, fed, up, conn, clientVars, drops, restarts>>

\* flushOutput, every FLUSH_INTERVAL.
Flush ==
    /\ live /\ saved # [seq |-> seq, out |-> out]
    /\ saved' = [seq |-> seq, out |-> out]
    /\ UNCHANGED <<out, live, seq, redraw, buffer, fed, down, up, conn, clientVars, drops, restarts>>

\* Mutant: the entry leaves activeSessions before the exit is sent.
ExitUnsent ==
    /\ live
    /\ live' = FALSE /\ fed' = {}
    /\ saved' = [seq |-> seq, out |-> out]
    /\ UNCHANGED <<out, seq, redraw, buffer, down, up, conn, clientVars, drops, restarts>>

\* wireOnExit or killSessionProcess: the exit is sequenced like output, the row
\* gets the whole log, and the sockets are dropped with the entry.
Exit ==
    /\ live
    /\ SendSequenced(ExitChunk)
    /\ live' = FALSE /\ fed' = {}
    /\ saved' = [seq |-> seq', out |-> out]
    /\ UNCHANGED <<out, redraw, up, conn, clientVars, drops, restarts>>

\* Messages outlive MESSAGE_TTL_MS, oldest first.
Expire ==
    /\ buffer # <<>>
    /\ buffer' = Tail(buffer)
    /\ UNCHANGED <<out, live, seq, saved, redraw, fed, down, up, conn, clientVars, drops, restarts>>

\* A viewer's message: an acknowledgement releases the buffer for everyone; a
\* replay request is answered whether or not the session still lives.
Handle(v) ==
    /\ up[v] # <<>>
    /\ up' = [up EXCEPT ![v] = Tail(@)]
    /\ LET m == Head(up[v]) IN
       \/ /\ m.type = "output_ack"
          /\ buffer' = Kept(buffer, {e \in Range(buffer) : e.seq > m.seq})
          /\ UNCHANGED down
       \/ /\ m.type = "replay_request"
          /\ down' = [down EXCEPT ![v] =
                        @ \o Kept(buffer, {e \in Range(buffer) : e.seq >= m.seq})]
          /\ UNCHANGED buffer
    /\ UNCHANGED <<out, live, seq, saved, redraw, fed, conn, clientVars, drops, restarts>>

\* Mutant: recovery numbers its messages from the beginning again.
SvcRestartFromZero(flushed, missed, dies) ==
    /\ live /\ restarts < MaxRestarts /\ flushed /\ ~dies
    /\ restarts' = restarts + 1
    /\ out' = IF missed /\ out < MaxOut THEN out + 1 ELSE out
    /\ saved' = [seq |-> seq, out |-> out] /\ seq' = 0
    /\ fed' = {} /\ conn' = {}
    /\ down' = [v \in Viewers |-> <<>>] /\ up' = [v \in Viewers |-> <<>>]
    /\ redraw' = TRUE
    /\ UNCHANGED <<live, buffer, clientVars, drops>>

\* loadFromDb: ORDER BY seq_num.
BySeq(sq) ==
    LET n == Len(sq)
        p == CHOOSE p \in Bijection(1..n, 1..n) :
                \A i, j \in 1..n : i < j => sq[p[i]].seq <= sq[p[j]].seq
    IN [i \in 1..n |-> sq[p[i]]]

\* The service stops (shutdown() flushes the row first; a crash does not) and
\* recovers the session from tmux: the pane is intact, with what was printed
\* meanwhile, tmux repaints it for the new client, the sequence number is the
\* row's, and the buffer is reloaded from its mirror.  If the agent died, the row ends with its log as last saved.
SvcRestart(flushed, missed, dies) ==
    /\ live /\ restarts < MaxRestarts
    /\ flushed \/ MayCrash
    /\ restarts' = restarts + 1
    /\ out' = IF missed /\ out < MaxOut THEN out + 1 ELSE out
    /\ live' = ~dies
    /\ saved' = IF flushed THEN [seq |-> seq, out |-> out] ELSE saved
    /\ seq' = saved'.seq
    /\ redraw' = live'
    /\ buffer' = BySeq(buffer)
    /\ fed' = {} /\ conn' = {}
    /\ down' = [v \in Viewers |-> <<>>] /\ up' = [v \in Viewers |-> <<>>]
    /\ UNCHANGED <<clientVars, drops>>

-----------------------------------------------------------------------------
(* The panes.                                                              *)

\* Mutant: a reattached viewer is trusted to catch up by replay alone.
ConnectNoSnapshot(v, bridged) ==
    /\ v \notin conn /\ v \notin exited
    /\ conn' = conn \cup {v}
    /\ fed' = IF live THEN fed \cup {v} ELSE fed
    /\ down' = [down EXCEPT ![v] = IF live THEN <<>> ELSE <<LegacyExit>>]
    /\ up' = [up EXCEPT ![v] = IF last[v] > 0 THEN <<Replay(last[v])>> ELSE <<>>]
    /\ UNCHANGED <<out, live, seq, saved, redraw, buffer, clientVars, drops, restarts>>

\* A pane opens its socket: it gets a snapshot (of the live buffer, or of the
\* row with the exit) and asks for a replay from where it was.  A live pane is
\* repainted too, unless its profile is a stream.  The main server
\* answers for an ended row itself, unbridged, or the service does.
Connect(v, bridged) ==
    /\ v \notin conn /\ v \notin exited
    /\ live => bridged
    /\ conn' = conn \cup {v}
    /\ IF live
       THEN /\ fed' = fed \cup {v}
            /\ redraw' = (redraw \/ ~Stream)
            /\ down' = [down EXCEPT ![v] = <<History(out)>>]
       ELSE /\ down' = [down EXCEPT ![v] = <<History(saved.out), LegacyExit>>]
            /\ UNCHANGED <<fed, redraw>>
    /\ up' = [up EXCEPT ![v] =
                IF last[v] > 0 /\ bridged THEN <<Replay(last[v])>> ELSE <<>>]
    /\ UNCHANGED <<out, live, seq, saved, buffer, clientVars, drops, restarts>>

\* The socket is lost with whatever it carried (sleep, network, sendOrDrop).
Drop(v) ==
    /\ v \in conn /\ drops < MaxDrops
    /\ drops' = drops + 1
    /\ conn' = conn \ {v} /\ fed' = fed \ {v}
    /\ down' = [down EXCEPT ![v] = <<>>] /\ up' = [up EXCEPT ![v] = <<>>]
    /\ UNCHANGED <<out, live, seq, saved, redraw, buffer, clientVars, restarts>>

\* A snapshot that is not empty replaces the screen.
Snapshot(v, n) ==
    /\ screen' = [screen EXCEPT ![v] = IF n = 0 THEN @ ELSE [i \in 1..n |-> i]]
    /\ UNCHANGED <<last, exited, up>>

\* A sequenced message is dropped as a duplicate unless it is past the last
\* one; otherwise it is shown (or ends the pane) and acknowledged.
TakeSequenced(v, m) ==
    IF m.seq <= last[v]
    THEN UNCHANGED <<clientVars, up>>
    ELSE /\ last' = [last EXCEPT ![v] = m.seq]
         /\ IF m.chunk = ExitChunk
            THEN exited' = exited \cup {v} /\ UNCHANGED screen
            ELSE /\ screen' = [screen EXCEPT ![v] = Append(@, m.chunk)]
                 /\ UNCHANGED exited
         /\ up' = [up EXCEPT ![v] = Append(@, OutputAck(m.seq))]

\* ws.onmessage.
Receive(v) ==
    /\ down[v] # <<>>
    /\ down' = [down EXCEPT ![v] = Tail(@)]
    /\ LET m == Head(down[v]) IN
       \/ m.type = "history" /\ Snapshot(v, m.upto)
       \/ m.type = "sequenced_output" /\ TakeSequenced(v, m)
       \/ m.type = "exit" /\ exited' = exited \cup {v} /\ UNCHANGED <<last, screen, up>>
    /\ UNCHANGED <<svcVars, conn, drops, restarts>>

-----------------------------------------------------------------------------
Next ==
    \/ Output \/ Redraw \/ Flush \/ Exit \/ Expire
    \/ \E flushed, missed, dies \in BOOLEAN : SvcRestart(flushed, missed, dies)
    \/ \E v \in Viewers :
          \/ Handle(v) \/ Receive(v) \/ Drop(v)
          \/ \E bridged \in BOOLEAN : Connect(v, bridged)

Spec == Init /\ [][Next]_vars

\* Both ends keep reading, and a pane that is not connected retries (backoff,
\* then once a minute); nothing makes the agent end or a timer fire.
Fairness ==
    \A v \in Viewers :
        /\ WF_vars(Receive(v)) /\ WF_vars(Handle(v))
        /\ WF_vars(\E bridged \in BOOLEAN : Connect(v, bridged))

FairSpec == Spec /\ Fairness
-----------------------------------------------------------------------------
Numbered == [type : {"sequenced_output"}, seq : Nat, chunk : 0..MaxOut]

Down == [type : {"history"}, upto : 0..MaxOut] \cup Numbered \cup {LegacyExit}
Up   == [type : {"output_ack", "replay_request"}, seq : Nat]

\* The service's state, the buffer within its limit, the two channels and the
\* panes hold what the protocol's messages carry.
TypeOK ==
    /\ out \in 0..MaxOut /\ live \in BOOLEAN /\ seq \in Nat /\ redraw \in BOOLEAN
    /\ saved \in [seq : Nat, out : 0..MaxOut]
    /\ buffer \in Seq(Numbered) /\ Len(buffer) <= Cap
    /\ down \in [Viewers -> Seq(Down)] /\ up \in [Viewers -> Seq(Up)]
    /\ fed \subseteq conn /\ conn \subseteq Viewers /\ exited \subseteq Viewers
    /\ last \in [Viewers -> Nat]
    /\ screen \in [Viewers -> Seq(1..MaxOut)]
    /\ drops \in 0..MaxDrops /\ restarts \in 0..MaxRestarts

\* A pane that is attached and has read everything sent to it shows all the
\* agent printed, the newest last once tmux has repainted what it was asked to:
\* reconnecting, a replay that overlaps the snapshot, an acknowledgement by
\* another viewer that emptied the buffer, or a buffer at its limit never
\* leaves a hole or stale text at the bottom.
OutputComplete ==
    \A v \in fed :
        down[v] = <<>> =>
            /\ \A c \in 1..out : Contains(screen[v], c)
            /\ out > 0 /\ ~redraw => Last(screen[v]) = out

\* A pane that shows the exit shows all that the row's log holds.
EndComplete ==
    \A v \in exited :
        down[v] = <<>> => \A c \in 1..saved.out : Contains(screen[v], c)

\* Every pane learns that the session ended.
ExitShown == \A v \in Viewers : ~live ~> v \in exited
=============================================================================

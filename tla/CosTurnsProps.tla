----------------------------- MODULE CosTurnsProps -----------------------------
(* What the turns of a Chief-of-Staff thread promise.                       *)
EXTENDS CosTurns

\* A result line is of a turn, an exit of none.
Messages == [seq : Nat, kind : {"result"}, turn : Turns]
                \cup [seq : Nat, kind : {"exit"}, turn : {0}]

\* The variables hold what the handler, the rows and the buffers can hold.
TypeOK ==
    /\ stage \in [Turns -> {"new", "asking", "spawn", "wait", "snap", "snapNew", "orphan"}
                             \cup Consuming \cup Settled]
    /\ start \in [Turns -> Nat]
    /\ reply \in [Turns -> SUBSET Turns]
    /\ inbox \in [Turns -> Seq(Messages)]
    /\ active \subseteq Turns /\ noted \subseteq Turns /\ lock \in {0} \cup Turns
    /\ current \in {0} \cup Turns
    /\ recovery \in {"off", "due", "asked"} /\ interrupt \in BOOLEAN
    /\ live \in BOOLEAN /\ queue \in Seq(Turns)
    /\ seq \in Nat /\ buffer \in Seq(Messages) /\ subs \subseteq Turns
    /\ alone \subseteq Turns /\ clean \subseteq Turns /\ late \subseteq Turns
    /\ restarts \in Nat

\* A turn that had the session to itself, and whose startSeq was the end of
\* the buffer, stores no text but its own, also when the main server restarts
\* in mid-turn and a new consumer replays it.
OwnReplyOnly ==
    \A t \in alone \cap clean : reply[t] \subseteq {t}

\* A turn that had the session to itself stays on the thread row as long as
\* its consumer, or a restart, still has to end it: so a viewer that comes
\* back is not told it is over, and a restart finds it.
TurnOnRow ==
    \A t \in alone : stage[t] \in Consuming \cup {"orphan"} => current = t

\* A key is held by a turn in progress, unless it was granted to a request
\* that had already ended, or that a restart had left without its entry.
HolderActive ==
    lock # 0 /\ lock \notin late => lock \in active

\* A consumer that listens to the agent before it has answered ends its turn.
ListenerSettles ==
    \A t \in Turns :
        stage[t] \in {"replay", "listen"} /\ t \in subs /\ t \in Range(queue)
            ~> stage[t] \notin {"replay", "listen"}

\* cos-turn-consumer.ts:62: "everything > startSeq is 'this turn'", of turns
\* that nothing else has touched.
ReplayIsThisTurn ==
    \A t \in alone : reply[t] \subseteq {t}
=============================================================================

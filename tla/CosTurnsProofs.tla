---------------------------- MODULE CosTurnsProofs ----------------------------
(***************************************************************************)
(* HolderActive and TurnOnRow, for any number of turns and restarts.  The    *)
(* holder of a lock has been given to the agent, and so is past the one exit *)
(* of the chat handler that drops its entry without a look at the locks      *)
(* (Given).  A turn alone is the only one consumed (Apart); a turn that a    *)
(* restart has left is the only one there is until the recovery has dealt    *)
(* with it, and the row names it until then or an interrupt (Recovering).    *)
(* The types follow, and then OwnReplyOnly: all that the agent has to do,    *)
(* that the buffer would replay and that is on its way to a turn alone is    *)
(* the turn's own (Sole).                                                    *)
(***************************************************************************)
EXTENDS CosTurnsProps, SubsequenceFacts

Handling == {"asking", "spawn", "wait", "snap", "snapNew"}
Stages   == {"new", "orphan"} \cup Handling \cup Consuming \cup Settled

Types ==
    /\ stage \in [Turns -> Stages]
    /\ queue \in Seq(Turns) /\ lock \in {0} \cup Turns
    /\ active \subseteq Turns /\ alone \subseteq Turns

Unsent == {"new", "asking", "spawn"}

Given ==
    /\ \A i \in DOMAIN queue : stage[queue[i]] \notin Unsent
    /\ lock # 0 => stage[lock] \notin Unsent

Apart ==
    \A t \in alone :
        /\ stage[t] \notin {"new"} \cup Handling
        /\ stage[t] \in Consuming => \A u \in Turns : stage[u] \in Consuming => u = t

Recovering ==
    /\ recovery # "off" => \A t \in Turns : stage[t] \notin Handling \cup Consuming
    /\ \A t \in Turns : stage[t] = "orphan" => recovery # "off"
    /\ recovery = "due" => \A t \in Turns : stage[t] = "orphan" => current = t
    /\ \A t, u \in Turns : stage[t] = "orphan" /\ stage[u] = "orphan" => t = u

IInv == Types /\ Given /\ Apart /\ Recovering /\ HolderActive /\ TurnOnRow

LEMMA Initially == Init => IInv
BY DEF Init, IInv, Types, Stages, Given, Apart, Recovering, HolderActive, TurnOnRow,
   Handling, Consuming, Settled, Turns

\* The queue's head is one of its turns; what is left of it and what it gains.
LEMMA QueueFacts ==
    ASSUME queue \in Seq(Turns)
    PROVE  /\ queue # <<>> => /\ Head(queue) = queue[1] /\ 1 \in DOMAIN queue
                              /\ Head(queue) \in Turns /\ Tail(queue) \in Seq(Turns)
                              /\ \A i \in DOMAIN Tail(queue) :
                                     i + 1 \in DOMAIN queue /\ Tail(queue)[i] = queue[i + 1]
           /\ \A t \in Turns :
                  /\ Append(queue, t) \in Seq(Turns)
                  /\ \A i \in DOMAIN Append(queue, t) :
                         \/ i \in DOMAIN queue /\ Append(queue, t)[i] = queue[i]
                         \/ Append(queue, t)[i] = t
OBVIOUS

\* The handler before its consumer is left behind: it moves one turn on.
LEMMA HandlerKeeps ==
    ASSUME IInv, NEW t \in Turns, NEW st \in Handling, At(t, st),
           stage[t] \in {"new", "asking", "wait"}, stage[t] = "new" => recovery = "off",
           st \in Unsent => stage[t] \in Unsent,
           active' \in {active, active \cup {t}},
           UNCHANGED <<queue, lock, late, alone, current, recovery>>
    PROVE  IInv'
<1>1. stage[t] \notin Consuming \cup {"orphan"} /\ recovery = "off"
  BY DEF IInv, Recovering, Handling, Consuming
<1>2. stage'[t] = st /\ \A u \in Turns : u # t => stage'[u] = stage[u]
  BY DEF At, IInv, Types
<1>3. Types'
  BY DEF At, IInv, Types, Stages
<1>4. Given'
  BY <1>2 DEF IInv, Given, Types
<1>5. t \notin alone
  BY DEF IInv, Apart, Handling
<1>6. st \notin Consuming \cup {"orphan"}
  BY DEF Handling, Consuming
<1>7. Apart' /\ Recovering' /\ HolderActive' /\ TurnOnRow'
  BY <1>1, <1>2, <1>5, <1>6 DEF IInv, Types, Apart, Recovering, HolderActive, TurnOnRow
<1> QED BY <1>3, <1>4, <1>7 DEF IInv

LEMMA ChatSteps ==
    ASSUME IInv, NEW t \in Turns, NEW ok \in BOOLEAN,
           Chat(t) \/ FirstStatus(t, ok) \/ Waited(t)
    PROVE  IInv'
<1>1. UNCHANGED <<queue, lock, late, alone, current, recovery>>
  BY DEF Chat, FirstStatus, Waited, agentVars, mainVars
<1>2. CASE Chat(t)
  BY <1>1, <1>2, HandlerKeeps DEF Chat, Handling, Unsent
<1>3. CASE FirstStatus(t, ok)
  BY <1>1, <1>3, HandlerKeeps DEF FirstStatus, Handling, Unsent
<1>4. CASE Waited(t)
  BY <1>1, <1>4, HandlerKeeps DEF Waited, Handling, Unsent
<1> QED BY <1>2, <1>3, <1>4

LEMMA SpawnKeeps == ASSUME IInv, NEW t \in Turns, Spawn(t) PROVE IInv'
<1>1. /\ stage[t] = "spawn" /\ queue' = <<t>> /\ At(t, "wait")
      /\ alone' = {u \in alone : stage[u] \notin Consuming}
      /\ UNCHANGED <<lock, late, active, current, recovery>>
  BY DEF Spawn, lockVars, mainVars
<1>2. stage'[t] = "wait" /\ \A u \in Turns : u # t => stage'[u] = stage[u]
  BY <1>1 DEF At, IInv, Types
<1>3. Types'
  BY <1>1 DEF At, IInv, Types, Stages, Handling
<1>4. Given'
  BY <1>1, <1>2 DEF IInv, Given, Types, Unsent
<1>5. t \notin alone
  BY <1>1 DEF IInv, Apart, Handling
<1>6. Apart' /\ Recovering' /\ HolderActive' /\ TurnOnRow'
  BY <1>1, <1>2, <1>5 DEF IInv, Types, Apart, Recovering, HolderActive, TurnOnRow,
     Handling, Consuming
<1> QED BY <1>3, <1>4, <1>6 DEF IInv

LEMMA SpawnRefusedKeeps == ASSUME IInv, NEW t \in Turns, SpawnRefused(t) PROVE IInv'
<1>1. /\ stage[t] = "spawn" /\ At(t, "refused") /\ active' = active \ {t}
      /\ UNCHANGED <<queue, lock, late, alone, current, recovery>>
  BY DEF SpawnRefused, mainVars, agentVars
<1>2. stage'[t] = "refused" /\ \A u \in Turns : u # t => stage'[u] = stage[u]
  BY <1>1 DEF At, IInv, Types
<1>3. Types'
  BY <1>1 DEF At, IInv, Types, Stages, Settled
<1>4. Given'
  BY <1>1, <1>2 DEF IInv, Given, Types, Unsent
<1>5. t \notin alone /\ lock # t
  BY <1>1 DEF IInv, Apart, Given, Handling, Unsent, Turns
<1>6. Apart' /\ Recovering' /\ HolderActive' /\ TurnOnRow'
  BY <1>1, <1>2, <1>5 DEF IInv, Types, Apart, Recovering, HolderActive, TurnOnRow,
     Handling, Consuming
<1> QED BY <1>3, <1>4, <1>6 DEF IInv

\* The turn goes on the row: no other is consumed by a turn still alone, and
\* none waits for a recovery.
LEMMA SnapshotKeeps ==
    ASSUME IInv, NEW t \in Turns, NEW ok \in BOOLEAN, Snapshot(t, ok) PROVE IInv'
<1> DEFINE others == {u \in Turns \ {t} : stage[u] \in Consuming}
<1>1. /\ stage[t] \in {"snap", "snapNew"} /\ current' = t
      /\ \E st \in {"input", "dial"} : At(t, st)
      /\ alone' = (IF others = {} /\ Range(queue) \subseteq {t} THEN alone \cup {t} ELSE alone \ others)
      /\ UNCHANGED <<queue, lock, late, active, recovery>>
  BY DEF Snapshot, lockVars, agentVars
<1>2. stage'[t] \in {"input", "dial"} /\ \A u \in Turns : u # t => stage'[u] = stage[u]
  BY <1>1 DEF At, IInv, Types
<1>3. Types'
  BY <1>1 DEF At, IInv, Types, Stages, Consuming
<1>4. Given'
  BY <1>1, <1>2 DEF IInv, Given, Types, Unsent
<1>5. t \notin alone /\ recovery = "off"
  BY <1>1 DEF IInv, Apart, Recovering, Handling
<1>6. \A u \in alone' : u = t \/ (u \in alone /\ stage[u] \notin Consuming)
  BY <1>1 DEF IInv, Types
<1>7. t \in alone' => \A u \in Turns : u # t => stage[u] \notin Consuming
  BY <1>1, <1>5
<1> HIDE DEF others
<1>8. Apart'
  BY <1>2, <1>3, <1>6, <1>7 DEF IInv, Types, Apart, Handling, Consuming
<1>9. Recovering'
  BY <1>1, <1>2, <1>5 DEF IInv, Recovering
<1>10. TurnOnRow'
  BY <1>1, <1>2, <1>3, <1>5, <1>6 DEF IInv, Types, TurnOnRow, Recovering
<1>11. HolderActive'
  BY <1>1 DEF IInv, HolderActive
<1> QED BY <1>3, <1>4, <1>8, <1>9, <1>10, <1>11 DEF IInv

\* The end of a consumer clears the row: no other turn alone is on it.
LEMMA DoneKeeps ==
    ASSUME IInv, NEW t \in Turns, stage[t] \in Consuming, NEW st \in {"done", "failed"},
           At(t, st), OnDone(t), UNCHANGED alone
    PROVE  IInv'
<1>1. /\ active' = active \ {t} /\ current' = 0 /\ UNCHANGED <<late, recovery, queue>>
      /\ lock' = IF t \in active /\ lock = t THEN 0 ELSE lock
  BY DEF OnDone, ReleaseAllLocks
<1>2. stage'[t] = st /\ \A u \in Turns : u # t => stage'[u] = stage[u]
  BY DEF At, IInv, Types
<1>3. st \notin Unsent \cup Consuming \cup Handling \cup {"new", "orphan"} /\ st \in Stages
  BY DEF Unsent, Consuming, Handling, Stages, Settled
<1>4. Types'
  BY <1>1, <1>3 DEF At, IInv, Types
<1>5. Given'
  BY <1>1, <1>2, <1>3 DEF IInv, Given, Types
<1>6. recovery = "off"
  BY DEF IInv, Recovering
<1>7. \A u \in alone : u # t => stage[u] \notin Consuming \cup {"orphan"}
  BY <1>6 DEF IInv, Types, Apart, Recovering
<1>8. Apart' /\ TurnOnRow'
  BY <1>2, <1>3, <1>7 DEF IInv, Types, Apart, TurnOnRow
<1>9. Recovering'
  BY <1>1, <1>2, <1>3, <1>6 DEF IInv, Recovering
<1>10. HolderActive'
  BY <1>1 DEF IInv, HolderActive
<1> QED BY <1>4, <1>5, <1>8, <1>9, <1>10 DEF IInv

LEMMA ConsumerEnds ==
    ASSUME IInv, NEW t \in Turns, Fail(t) \/ Hear(t) \/ WsClose(t) PROVE IInv'
<1>1. stage[t] \in Consuming /\ OnDone(t) /\ UNCHANGED alone
  BY DEF Fail, Hear, WsClose, Finish, Consuming
<1>2. \E st \in {"done", "failed"} : At(t, st)
  BY DEF Fail, Hear, WsClose, Finish
<1> QED BY <1>1, <1>2, DoneKeeps

LEMMA ConsumerMoves ==
    ASSUME IInv, NEW t \in Turns, NEW gone \in Nat, Input(t) \/ Attach(t) \/ Replay(t, gone)
    PROVE  IInv'
<1>1. /\ stage[t] \in Consuming /\ \E st \in {"dial", "replay", "listen"} : At(t, st)
      /\ queue' = queue \/ queue' = Append(queue, t)
      /\ alone' \subseteq alone
      /\ UNCHANGED <<lock, late, active, current, recovery>>
  BY DEF Input, Attach, Replay, Consuming, lockVars, mainVars, agentVars
<1>2. stage'[t] \in {"dial", "replay", "listen"} /\ \A u \in Turns : u # t => stage'[u] = stage[u]
  BY <1>1 DEF At, IInv, Types
<1>3. Types'
  BY <1>1, QueueFacts DEF At, IInv, Types, Stages, Consuming
<1>4. Given'
  BY <1>1, <1>2, QueueFacts DEF IInv, Given, Types, Unsent
<1>5. \A u \in Turns : /\ stage'[u] \in Consuming <=> stage[u] \in Consuming
                       /\ stage'[u] = "orphan" <=> stage[u] = "orphan"
                       /\ stage'[u] \in {"new"} \cup Handling <=> stage[u] \in {"new"} \cup Handling
                       /\ stage'[u] \in Handling <=> stage[u] \in Handling
  BY <1>1, <1>2 DEF Consuming, Handling
<1>6. Apart' /\ Recovering' /\ TurnOnRow' /\ HolderActive'
  BY <1>1, <1>5 DEF IInv, Types, Apart, Recovering, TurnOnRow, HolderActive
<1> QED BY <1>3, <1>4, <1>6 DEF IInv

(************************* The main server, the agent **********************)

\* A step that leaves the turns, the row and the recovery alone; the queue
\* keeps what it had, or loses it, or loses its head.
LEMMA AgentKeeps ==
    ASSUME IInv, UNCHANGED <<stage, alone, current, recovery>>,
           queue' \in {queue, <<>>} \/ (queue # <<>> /\ queue' = Tail(queue)),
           active' = active,
           \/ UNCHANGED <<lock, late>>
           \/ lock' = 0
           \/ /\ queue # <<>> /\ lock' = Head(queue)
              /\ lock' \in active \/ late' = late \cup {lock'}
    PROVE  IInv'
<1>1. lock' = lock \/ lock' = 0 \/ (queue # <<>> /\ lock' = queue[1] /\ 1 \in DOMAIN queue)
  BY QueueFacts DEF IInv, Types
<1>2. Types'
  <2>1. queue \in Seq(Turns) /\ lock \in {0} \cup Turns
    BY DEF IInv, Types
  <2>2. queue' \in Seq(Turns)
    <3>1. CASE queue' = queue
      BY <2>1, <3>1
    <3>2. CASE queue' = <<>>
      BY <3>2
    <3>3. CASE queue # <<>> /\ queue' = Tail(queue)
      BY <2>1, <3>3, QueueFacts
    <3> QED BY <3>1, <3>2, <3>3
  <2>3. queue # <<>> => Head(queue) \in Turns /\ Head(queue) = queue[1]
    BY <2>1, QueueFacts
  <2>4. lock' \in {0} \cup Turns
    BY <1>1, <2>1, <2>3
  <2> QED BY <2>2, <2>4 DEF IInv, Types
<1>3. Given'
  <2>1. \A i \in DOMAIN queue' : \E j \in DOMAIN queue : queue'[i] = queue[j]
    <3>1. CASE queue' = queue
      BY <3>1
    <3>2. CASE queue' = <<>>
      BY <3>2
    <3>3. CASE queue # <<>> /\ queue' = Tail(queue)
      BY <3>3, QueueFacts DEF IInv, Types
    <3> QED BY <3>1, <3>2, <3>3
  <2> QED BY <1>1, <2>1 DEF IInv, Given
<1>4. HolderActive'
  BY DEF IInv, HolderActive
<1>5. Apart' /\ Recovering' /\ TurnOnRow'
  BY DEF IInv, Apart, Recovering, TurnOnRow
<1> QED BY <1>2, <1>3, <1>4, <1>5 DEF IInv

LEMMA AgentSteps == ASSUME IInv, NextAgent \/ Interrupt PROVE IInv'
<1>1. CASE AgentResult
  BY <1>1, AgentKeeps DEF AgentResult, lockVars, mainVars
<1>2. CASE AgentDie \/ Interrupt
  BY <1>2, AgentKeeps DEF AgentDie, Interrupt, Die, lockVars, mainVars
<1>3. CASE TakeLock
  BY <1>3, AgentKeeps DEF TakeLock, turnVars, mainVars, agentVars
<1>4. CASE GiveLock
  BY <1>4, AgentKeeps DEF GiveLock, turnVars, mainVars, agentVars
<1> QED BY <1>1, <1>2, <1>3, <1>4 DEF NextAgent

LEMMA InterruptDoneKeeps == ASSUME IInv, InterruptDone PROVE IInv'
<1>1. /\ current' = 0 /\ UNCHANGED <<queue, lock, late, active, recovery>>
      /\ alone' = {t \in alone : stage[t] \notin Consuming \cup {"orphan"}}
  BY DEF InterruptDone, lockVars, agentVars
<1>2. \A t \in Turns :
          stage'[t] = IF stage[t] = "orphan" /\ recovery = "due" THEN "lost" ELSE stage[t]
  BY DEF InterruptDone
<1>3. Types'
  BY <1>1 DEF InterruptDone, IInv, Types, Stages, Settled
<1>4. Given'
  BY <1>1, <1>2 DEF IInv, Given, Types, Unsent
<1>5. Apart' /\ TurnOnRow'
  BY <1>1, <1>2 DEF IInv, Types, Apart, TurnOnRow, Consuming, Handling
<1>6. Recovering'
  BY <1>1, <1>2 DEF IInv, Recovering, Consuming, Handling
<1>7. HolderActive'
  BY <1>1 DEF IInv, HolderActive
<1> QED BY <1>3, <1>4, <1>5, <1>6, <1>7 DEF IInv

LEMMA RestartKeeps == ASSUME IInv, Restart PROVE IInv'
<1>1. /\ active' = {} /\ lock' = 0 /\ recovery' = "due"
      /\ UNCHANGED <<current, queue, alone>>
  BY DEF Restart
<1>2. \A t \in Turns : stage'[t] =
          IF stage[t] \in Settled \cup {"new"} THEN stage[t]
          ELSE IF stage[t] \in Consuming \cup {"orphan"} /\ current = t THEN "orphan" ELSE "lost"
  BY DEF Restart
<1>3. Types'
  BY <1>1 DEF Restart, IInv, Types, Stages, Settled
<1>4. Given'
  BY <1>1, <1>2 DEF IInv, Given, Types, Unsent
<1>5. \A t \in Turns : stage'[t] \in {"new", "orphan"} \cup Settled
  BY <1>2 DEF Settled
<1>6. \A t \in Turns : stage'[t] \notin Handling \cup Consuming
  BY <1>5 DEF Handling, Consuming, Settled
<1>7. \A t \in Turns : stage'[t] = "orphan" => current = t
  BY <1>2 DEF Settled
<1>8. \A t \in Turns : stage'[t] = "new" => stage[t] = "new"
  BY <1>2 DEF Settled
<1>9. Apart' /\ TurnOnRow'
  BY <1>1, <1>3, <1>6, <1>7, <1>8 DEF IInv, Types, Apart, TurnOnRow
<1>10. Recovering' /\ HolderActive'
  BY <1>1, <1>6, <1>7 DEF Recovering, HolderActive
<1> QED BY <1>3, <1>4, <1>9, <1>10 DEF IInv

LEMMA RecoverReadKeeps == ASSUME IInv, RecoverRead PROVE IInv'
<1>1. /\ recovery = "due" /\ recovery' = (IF current = 0 THEN "off" ELSE "asked")
      /\ UNCHANGED <<stage, lock, late, active, queue, alone, current>>
  BY DEF RecoverRead, turnVars, lockVars, agentVars
<1>2. current = 0 => \A t \in Turns : stage[t] # "orphan"
  BY <1>1 DEF IInv, Recovering, Turns
<1>3. Recovering'
  BY <1>1, <1>2 DEF IInv, Recovering
<1> QED BY <1>1, <1>3 DEF IInv, Types, Given, Apart, HolderActive, TurnOnRow

\* The turn a restart has left is the only one, and still on the row if it was
\* alone: it is taken up again, or given up.
LEMMA RecoverAnswerKeeps ==
    ASSUME IInv, NEW ok \in BOOLEAN, RecoverAnswer(ok) PROVE IInv'
<1>1. PICK t \in Turns :
        /\ stage[t] = "orphan"
        /\ \/ At(t, "dial") /\ UNCHANGED current
           \/ At(t, "lost") /\ current' = 0
  BY DEF RecoverAnswer
<1>2. /\ recovery = "asked" /\ recovery' = "off"
      /\ UNCHANGED <<lock, late, active, queue, alone>>
  BY DEF RecoverAnswer, lockVars, agentVars
<1>3. stage'[t] \in {"dial", "lost"} /\ \A u \in Turns : u # t => stage'[u] = stage[u]
  BY <1>1 DEF At, IInv, Types
<1>4. \A u \in Turns : u # t => stage[u] \notin Handling \cup Consuming \cup {"orphan"}
  BY <1>1, <1>2 DEF IInv, Recovering
<1>5. Types'
  BY <1>1, <1>2 DEF At, IInv, Types, Stages, Consuming, Settled
<1>6. Given'
  BY <1>2, <1>3 DEF IInv, Given, Types, Unsent
<1>7. Apart' /\ Recovering'
  <2>1. \A u \in Turns : u # t => stage'[u] \notin Handling \cup Consuming \cup {"orphan"}
    BY <1>3, <1>4
  <2>2. stage'[t] \notin Handling \cup {"new", "orphan"}
    BY <1>3 DEF Handling
  <2>3. \A u \in alone : u # t => stage'[u] # "new"
    BY <1>3 DEF IInv, Types, Apart
  <2>4. Apart'
    BY <1>2, <2>1, <2>2, <2>3 DEF IInv, Types, Apart
  <2>5. Recovering'
    BY <1>2, <2>1, <2>2 DEF Recovering
  <2> QED BY <2>4, <2>5
<1>8. TurnOnRow'
  <2>1. stage'[t] = "dial" => current' = current
    BY <1>1 DEF At, IInv, Types
  <2> QED BY <1>1, <1>2, <1>3, <1>4, <2>1 DEF IInv, Types, TurnOnRow, Consuming
<1>9. HolderActive'
  BY <1>2 DEF IInv, HolderActive
<1> QED BY <1>5, <1>6, <1>7, <1>8, <1>9 DEF IInv

LEMMA StepKeeps == IInv /\ [Next]_vars => IInv'
<1> SUFFICES ASSUME IInv, [Next]_vars PROVE IInv'
  OBVIOUS
<1>1. CASE NextTurn
  <2>1. PICK t \in Turns :
          \/ Chat(t) \/ Spawn(t) \/ SpawnRefused(t) \/ Waited(t)
          \/ \E ok \in Answers : FirstStatus(t, ok) \/ Snapshot(t, ok)
          \/ Fail(t) \/ Input(t) \/ Attach(t) \/ Hear(t) \/ WsClose(t)
          \/ \E gone \in 0..Len(buffer) : Replay(t, gone)
    BY <1>1 DEF NextTurn
  <2>2. \A ok \in Answers : ok \in BOOLEAN
    BY DEF Answers
  <2>3. \A gone \in 0..Len(buffer) : gone \in Nat
    OBVIOUS
  <2>4. CASE Chat(t) \/ Waited(t) \/ \E ok \in Answers : FirstStatus(t, ok)
    BY <2>2, <2>4, ChatSteps
  <2>5. CASE Spawn(t) \/ SpawnRefused(t)
    BY <2>5, SpawnKeeps, SpawnRefusedKeeps
  <2>6. CASE \E ok \in Answers : Snapshot(t, ok)
    BY <2>2, <2>6, SnapshotKeeps
  <2>7. CASE Fail(t) \/ Hear(t) \/ WsClose(t)
    BY <2>7, ConsumerEnds
  <2>8. CASE Input(t) \/ Attach(t) \/ \E gone \in 0..Len(buffer) : Replay(t, gone)
    BY <2>3, <2>8, ConsumerMoves
  <2> QED BY <2>1, <2>4, <2>5, <2>6, <2>7, <2>8
<1>2. CASE NextMain
  <2>1. \A ok \in Answers : ok \in BOOLEAN
    BY DEF Answers
  <2> QED BY <1>2, <2>1, AgentSteps, InterruptDoneKeeps, RestartKeeps, RecoverReadKeeps,
             RecoverAnswerKeeps DEF NextMain
<1>3. CASE NextAgent
  BY <1>3, AgentSteps
<1>4. CASE UNCHANGED vars
  BY <1>4 DEF vars, turnVars, lockVars, mainVars, agentVars, IInv, Types, Given, Apart,
      Recovering, HolderActive, TurnOnRow
<1> QED BY <1>1, <1>2, <1>3, <1>4 DEF Next

LEMMA Inductive == Spec => []IInv
BY Initially, StepKeeps, PTL DEF Spec

\* A lock that was granted to a turn in progress is held by a turn in progress:
\* every way a turn ends gives back what it owns (cos-locks.ts releaseAllLocks).
THEOREM LocksHeldByActive == Spec => []HolderActive
BY Inductive, PTL DEF IInv

\* The thread row names a turn alone until its consumer, or a recovery, has
\* ended it, through any number of restarts.
THEOREM AloneOnRow == Spec => []TurnOnRow
BY Inductive, PTL DEF IInv

(********************************** Types **********************************)

\* A message gets its number and goes where it is heard.
LEMMA EmitFacts ==
    ASSUME TypeOK, NEW m \in Messages, Emit(m)
    PROVE  \E e \in Messages :
              /\ e.kind = m.kind /\ e.turn = m.turn /\ e.seq = seq + 1
              /\ seq' = seq + 1 /\ buffer' = Append(buffer, e)
              /\ \A t \in Turns : inbox'[t] = IF t \in subs THEN Append(inbox[t], e) ELSE inbox[t]
              /\ buffer' \in Seq(Messages) /\ inbox' \in [Turns -> Seq(Messages)]
<1> DEFINE e == [m EXCEPT !.seq = seq + 1]
<1>1. seq \in Nat /\ buffer \in Seq(Messages) /\ inbox \in [Turns -> Seq(Messages)]
  BY DEF TypeOK
<1>2. e \in Messages /\ e.kind = m.kind /\ e.turn = m.turn /\ e.seq = seq + 1
  <2>1. seq + 1 \in Nat
    BY <1>1
  <2>2. CASE m \in [seq : Nat, kind : {"result"}, turn : Turns]
    <3>1. e \in [seq : Nat, kind : {"result"}, turn : Turns]
      BY <2>1, <2>2
    <3>2. e.kind = m.kind /\ e.turn = m.turn /\ e.seq = seq + 1
      BY <2>2
    <3> QED BY <3>1, <3>2 DEF Messages
  <2>3. CASE m \in [seq : Nat, kind : {"exit"}, turn : {0}]
    <3>1. e \in [seq : Nat, kind : {"exit"}, turn : {0}]
      BY <2>1, <2>3
    <3>2. e.kind = m.kind /\ e.turn = m.turn /\ e.seq = seq + 1
      BY <2>3
    <3> QED BY <3>1, <3>2 DEF Messages
  <2> QED BY <2>2, <2>3 DEF Messages
<1>3. /\ seq' = seq + 1 /\ buffer' = Append(buffer, e)
      /\ inbox' = [t \in Turns |-> IF t \in subs THEN Append(inbox[t], e) ELSE inbox[t]]
  BY DEF Emit
<1> HIDE DEF e
<1>4. \A t \in Turns : inbox[t] \in Seq(Messages) /\ Append(inbox[t], e) \in Seq(Messages)
  BY <1>1, <1>2
<1>5. inbox' \in [Turns -> Seq(Messages)] /\ buffer' \in Seq(Messages)
  BY <1>1, <1>2, <1>3, <1>4
<1> QED BY <1>2, <1>3, <1>5

\* The handler of a chat request keeps the types, ...
LEMMA HandlerTypes ==
    ASSUME TypeOK, NEW t \in Turns, NEW ok \in BOOLEAN,
           \/ Chat(t) \/ FirstStatus(t, ok) \/ Spawn(t) \/ SpawnRefused(t) \/ Waited(t)
           \/ Snapshot(t, ok)
    PROVE  TypeOK'
<1> USE DEF TypeOK
<1>1. CASE Chat(t) \/ FirstStatus(t, ok) \/ SpawnRefused(t) \/ Waited(t)
  <2>1. \E st \in {"asking", "spawn", "snap", "refused", "snapNew"} : At(t, st)
    BY <1>1 DEF Chat, FirstStatus, SpawnRefused, Waited
  <2>2. stage' \in [Turns -> {"new", "asking", "spawn", "wait", "snap", "snapNew", "orphan"}
                               \cup Consuming \cup Settled]
    BY <2>1 DEF At, Settled
  <2>3. active' \in SUBSET Turns /\ noted' \in SUBSET Turns
    BY <1>1 DEF Chat, FirstStatus, SpawnRefused, Waited
  <2> QED BY <1>1, <2>2, <2>3 DEF Chat, FirstStatus, SpawnRefused, Waited, mainVars, agentVars
<1>2. CASE Spawn(t)
  <2>1. stage' \in [Turns -> {"new", "asking", "spawn", "wait", "snap", "snapNew", "orphan"}
                               \cup Consuming \cup Settled]
    BY <1>2 DEF Spawn, At
  <2>2. queue' \in Seq(Turns) /\ alone' \subseteq Turns
    BY <1>2 DEF Spawn
  <2> QED BY <1>2, <2>1, <2>2 DEF Spawn, lockVars, mainVars
<1>3. CASE Snapshot(t, ok)
  <2>1. \E st \in {"input", "dial"} : At(t, st)
    BY <1>3 DEF Snapshot
  <2>2. stage' \in [Turns -> {"new", "asking", "spawn", "wait", "snap", "snapNew", "orphan"}
                               \cup Consuming \cup Settled]
    BY <2>1 DEF At, Consuming
  <2>3. start' \in [Turns -> Nat]
    BY <1>3 DEF Snapshot
  <2>4. alone' \subseteq Turns /\ clean' \subseteq Turns /\ current' \in Turns
    BY <1>3 DEF Snapshot
  <2> QED BY <1>3, <2>2, <2>3, <2>4 DEF Snapshot, lockVars, agentVars
<1> QED BY <1>1, <1>2, <1>3

\* ... so does the end of a consumer ...
LEMMA DoneTypes ==
    ASSUME TypeOK, NEW t \in Turns, NEW st \in {"done", "failed"}, At(t, st), OnDone(t),
           UNCHANGED <<alone, clean>>, reply' \in [Turns -> SUBSET Turns]
    PROVE  TypeOK'
<1> USE DEF TypeOK
<1>1. stage' \in [Turns -> {"new", "asking", "spawn", "wait", "snap", "snapNew", "orphan"}
                             \cup Consuming \cup Settled]
  BY DEF At, Settled
<1>2. /\ active' \subseteq Turns /\ noted' \subseteq Turns /\ subs' \subseteq Turns
      /\ current' \in {0} \cup Turns
  BY DEF OnDone
<1>3. lock' \in {0} \cup Turns
  BY DEF OnDone, ReleaseAllLocks
<1>4. inbox' \in [Turns -> Seq(Messages)] /\ start' \in [Turns -> Nat]
  BY DEF OnDone
<1> QED BY <1>1, <1>2, <1>3, <1>4 DEF OnDone

\* What is heard is a result of a turn, or the exit.
LEMMA HeadOfInbox ==
    ASSUME TypeOK, NEW t \in Turns, inbox[t] # <<>>
    PROVE  /\ Head(inbox[t]) \in Messages
           /\ 1 \in DOMAIN inbox[t] /\ Head(inbox[t]) = inbox[t][1]
<1>1. inbox[t] \in Seq(Messages)
  BY DEF TypeOK
<1> QED BY <1>1

LEMMA MessageFacts ==
    /\ \A m \in Messages : m.seq \in Nat /\ m.kind \in {"result", "exit"}
    /\ \A m \in Messages : m.kind = "result" => m.turn \in Turns
    /\ [seq |-> 0, kind |-> "exit", turn |-> 0] \in Messages
    /\ \A t \in Turns : [seq |-> 0, kind |-> "result", turn |-> t] \in Messages
BY DEF Messages

LEMMA ConsumerEndTypes ==
    ASSUME TypeOK, NEW t \in Turns, Fail(t) \/ Hear(t) \/ WsClose(t) PROVE TypeOK'
<1>1. OnDone(t) /\ UNCHANGED <<alone, clean>> /\ \E st \in {"done", "failed"} : At(t, st)
  BY DEF Fail, Hear, WsClose, Finish
<1>2. reply \in [Turns -> SUBSET Turns]
  BY DEF TypeOK
<1>3. reply' \in [Turns -> SUBSET Turns]
  <2>1. CASE Fail(t)
    BY <1>2, <2>1 DEF Fail
  <2>2. CASE WsClose(t)
    BY <1>2, <2>2 DEF WsClose, Finish
  <2>3. CASE Hear(t)
    <3> DEFINE m == Head(inbox[t])
    <3>1. m.kind = "result" => m.turn \in Turns
      BY <2>3, HeadOfInbox, MessageFacts DEF Hear
    <3>2. reply' = [reply EXCEPT ![t] = IF m.kind = "result" THEN {m.turn} ELSE {}]
      BY <2>3 DEF Hear, Finish
    <3> HIDE DEF m
    <3> QED BY <1>2, <3>1, <3>2
  <2> QED BY <2>1, <2>2, <2>3
<1> QED BY <1>1, <1>3, DoneTypes

\* ... and what a consumer is sent from the buffer.
LEMMA ReplayFacts ==
    ASSUME TypeOK, NEW t \in Turns, NEW gone \in 0..Len(buffer), Replay(t, gone)
    PROVE  /\ inbox' \in [Turns -> Seq(Messages)]
           /\ \A u \in Turns : u # t => inbox'[u] = inbox[u]
           /\ \A i \in DOMAIN inbox'[t] :
                  \/ i \in DOMAIN inbox[t] /\ inbox'[t][i] = inbox[t][i]
                  \/ \E k \in DOMAIN buffer :
                         inbox'[t][i] = buffer[k] /\ buffer[k].seq > start[t]
<1> DEFINE T == {m \in Range(buffer) : m.seq > start[t]}
           rest == SubSeq(buffer, gone + 1, Len(buffer))
           sent == Kept(rest, T)
<1>1. buffer \in Seq(Messages) /\ inbox \in [Turns -> Seq(Messages)] /\ inbox[t] \in Seq(Messages)
  BY DEF TypeOK
<1>2. /\ rest \in Seq(Messages)
      /\ \A k \in 1..Len(rest) : gone + k \in DOMAIN buffer /\ rest[k] = buffer[gone + k]
  BY <1>1
<1>3. inbox' = [inbox EXCEPT ![t] = @ \o sent]
  BY DEF Replay
<1>4. \A m \in T : m.seq > start[t]
  OBVIOUS
<1> HIDE DEF T, rest
<1>5. /\ sent \in Seq(Messages)
      /\ \A i \in 1..Len(sent) : sent[i] \in T /\ \E k \in 1..Len(rest) : sent[i] = rest[k]
  BY <1>2, KeptElements
<1> HIDE DEF sent
<1>6. inbox[t] \o sent \in Seq(Messages)
  BY <1>1, <1>5
<1>7. \A i \in DOMAIN (inbox[t] \o sent) :
          \/ i \in DOMAIN inbox[t] /\ (inbox[t] \o sent)[i] = inbox[t][i]
          \/ i - Len(inbox[t]) \in 1..Len(sent) /\ (inbox[t] \o sent)[i] = sent[i - Len(inbox[t])]
  BY <1>1, <1>5
<1>8. inbox' \in [Turns -> Seq(Messages)] /\ inbox'[t] = inbox[t] \o sent
  BY <1>1, <1>3, <1>6
<1>9. \A u \in Turns : u # t => inbox'[u] = inbox[u]
  BY <1>1, <1>3
<1>10. \A i \in 1..Len(sent) : \E k \in DOMAIN buffer : sent[i] = buffer[k] /\ buffer[k].seq > start[t]
  <2> TAKE i \in 1..Len(sent)
  <2>1. PICK k \in 1..Len(rest) : sent[i] = rest[k]
    BY <1>5
  <2>2. gone + k \in DOMAIN buffer /\ sent[i] = buffer[gone + k]
    BY <1>2, <2>1
  <2>3. sent[i].seq > start[t]
    BY <1>4, <1>5
  <2> QED BY <2>2, <2>3
<1> QED BY <1>7, <1>8, <1>9, <1>10

LEMMA ConsumerTypes ==
    ASSUME TypeOK, NEW t \in Turns, NEW gone \in 0..Len(buffer),
           Input(t) \/ Attach(t) \/ Replay(t, gone)
    PROVE  TypeOK'
<1>1. \E st \in {"dial", "replay", "listen"} : At(t, st)
  BY DEF Input, Attach, Replay
<1>2. stage' \in [Turns -> {"new", "asking", "spawn", "wait", "snap", "snapNew", "orphan"}
                             \cup Consuming \cup Settled]
  BY <1>1 DEF At, Consuming, TypeOK
<1>3. CASE Input(t)
  <2>1. queue' \in Seq(Turns) /\ alone' \subseteq Turns
    BY <1>3 DEF Input, TypeOK
  <2> QED BY <1>2, <1>3, <2>1 DEF Input, TypeOK, lockVars, mainVars
<1>4. CASE Attach(t)
  BY <1>2, <1>4 DEF Attach, TypeOK, lockVars, mainVars
<1>5. CASE Replay(t, gone)
  <2>1. inbox' \in [Turns -> Seq(Messages)]
    BY <1>5, ReplayFacts
  <2> QED BY <1>2, <1>5, <2>1 DEF Replay, TypeOK, lockVars, mainVars, agentVars
<1> QED BY <1>3, <1>4, <1>5

LEMMA AgentTypes == ASSUME TypeOK, NextAgent \/ Interrupt PROVE TypeOK'
<1>1. queue # <<>> => Head(queue) \in Turns /\ Tail(queue) \in Seq(Turns)
  BY QueueFacts DEF TypeOK
<1>2. CASE AgentResult
  <2> DEFINE m == [seq |-> 0, kind |-> "result", turn |-> Head(queue)]
  <2>1. m \in Messages /\ Emit(m)
    BY <1>1, <1>2, MessageFacts DEF AgentResult
  <2> HIDE DEF m
  <2>2. seq' = seq + 1 /\ buffer' \in Seq(Messages) /\ inbox' \in [Turns -> Seq(Messages)]
    BY <2>1, EmitFacts
  <2>3. queue' \in Seq(Turns) /\ UNCHANGED <<stage, start, reply, lockVars, mainVars, live, subs, alone, clean>>
    BY <1>1, <1>2 DEF AgentResult
  <2> QED BY <2>2, <2>3 DEF TypeOK, lockVars, mainVars
<1>3. CASE AgentDie \/ Interrupt
  <2> DEFINE m == [seq |-> 0, kind |-> "exit", turn |-> 0]
  <2>1. m \in Messages /\ Emit(m)
    BY <1>3, MessageFacts DEF AgentDie, Interrupt, Die
  <2> HIDE DEF m
  <2>2. seq' = seq + 1 /\ buffer' \in Seq(Messages) /\ inbox' \in [Turns -> Seq(Messages)]
    BY <2>1, EmitFacts
  <2>3. /\ live' = FALSE /\ queue' = <<>> /\ subs' = {} /\ interrupt' \in BOOLEAN
        /\ UNCHANGED <<stage, start, reply, lockVars, alone, clean, current, recovery, restarts>>
    BY <1>3 DEF AgentDie, Interrupt, Die, mainVars, TypeOK
  <2>4. queue' \in Seq(Turns) /\ subs' \subseteq Turns /\ seq' \in Nat
    BY <2>2, <2>3 DEF TypeOK
  <2> QED BY <2>2, <2>3, <2>4 DEF TypeOK, lockVars
<1>4. CASE TakeLock
  <2>1. lock' \in Turns /\ noted' \subseteq Turns /\ late' \subseteq Turns
    BY <1>1, <1>4 DEF TakeLock, TypeOK
  <2> QED BY <1>4, <2>1 DEF TakeLock, TypeOK, turnVars, mainVars, agentVars
<1>5. CASE GiveLock
  BY <1>5 DEF GiveLock, TypeOK, turnVars, mainVars, agentVars
<1> QED BY <1>2, <1>3, <1>4, <1>5 DEF NextAgent

LEMMA MainTypes ==
    ASSUME TypeOK, NEW ok \in BOOLEAN,
           InterruptDone \/ Restart \/ RecoverRead \/ RecoverAnswer(ok)
    PROVE  TypeOK'
<1> DEFINE AllStages == {"new", "asking", "spawn", "wait", "snap", "snapNew", "orphan"}
                             \cup Consuming \cup Settled
<1>1. stage' \in [Turns -> AllStages]
  <2>1. "lost" \in AllStages /\ "dial" \in AllStages /\ "orphan" \in AllStages
    BY DEF Settled, Consuming
  <2>2. stage \in [Turns -> AllStages]
    BY DEF TypeOK
  <2> HIDE DEF AllStages
  <2>3. CASE InterruptDone
    BY <2>1, <2>2, <2>3 DEF InterruptDone
  <2>4. CASE Restart
    BY <2>1, <2>2, <2>4 DEF Restart
  <2>5. CASE RecoverRead
    BY <2>2, <2>5 DEF RecoverRead, turnVars
  <2>6. CASE RecoverAnswer(ok)
    BY <2>1, <2>2, <2>6 DEF RecoverAnswer, At
  <2> QED BY <2>3, <2>4, <2>5, <2>6
<1>2. CASE InterruptDone
  BY <1>1, <1>2 DEF InterruptDone, TypeOK, lockVars, agentVars
<1>3. CASE Restart
  <2>1. inbox' \in [Turns -> Seq(Messages)]
    <3>1. <<>> \in Seq(Messages)
      OBVIOUS
    <3> QED BY <1>3, <3>1 DEF Restart
  <2>2. /\ active' \subseteq Turns /\ noted' \subseteq Turns /\ lock' \in {0} \cup Turns
        /\ late' \subseteq Turns /\ subs' \subseteq Turns /\ restarts' \in Nat
        /\ recovery' \in {"off", "due", "asked"} /\ interrupt' \in BOOLEAN
    <3>1. active' = {} /\ noted' = {} /\ lock' = 0 /\ late' = {} /\ subs' = {}
      BY <1>3 DEF Restart
    <3>2. restarts' \in Nat /\ recovery' = "due"
      BY <1>3 DEF Restart, TypeOK
    <3>3. interrupt' \in BOOLEAN
      BY <1>3 DEF Restart
    <3> QED BY <3>1, <3>2, <3>3
  <2>3. UNCHANGED <<start, reply, current, live, queue, seq, buffer, alone, clean>>
    BY <1>3 DEF Restart
  <2> QED BY <1>1, <2>1, <2>2, <2>3 DEF TypeOK
<1>4. CASE RecoverRead
  BY <1>4 DEF RecoverRead, TypeOK, turnVars, lockVars, agentVars
<1>5. CASE RecoverAnswer(ok)
  <2>1. current' \in {0} \cup Turns
    BY <1>5 DEF RecoverAnswer, TypeOK
  <2> QED BY <1>1, <1>5, <2>1 DEF RecoverAnswer, TypeOK, lockVars, agentVars
<1> QED BY <1>2, <1>3, <1>4, <1>5

LEMMA TurnTypes == ASSUME TypeOK, NextTurn PROVE TypeOK'
<1>1. PICK t \in Turns :
        \/ Chat(t) \/ Spawn(t) \/ SpawnRefused(t) \/ Waited(t)
        \/ \E ok \in Answers : FirstStatus(t, ok) \/ Snapshot(t, ok)
        \/ Fail(t) \/ Input(t) \/ Attach(t) \/ Hear(t) \/ WsClose(t)
        \/ \E gone \in 0..Len(buffer) : Replay(t, gone)
  BY DEF NextTurn
<1>2. \A ok \in Answers : ok \in BOOLEAN
  BY DEF Answers
<1>3. CASE \/ Chat(t) \/ Spawn(t) \/ SpawnRefused(t) \/ Waited(t)
           \/ \E ok \in Answers : FirstStatus(t, ok) \/ Snapshot(t, ok)
  BY <1>2, <1>3, HandlerTypes
<1>4. CASE Fail(t) \/ Hear(t) \/ WsClose(t)
  BY <1>4, ConsumerEndTypes
<1>5. CASE Input(t) \/ Attach(t) \/ \E gone \in 0..Len(buffer) : Replay(t, gone)
  <2>1. 0 \in 0..Len(buffer)
    BY DEF TypeOK
  <2> QED BY <1>5, <2>1, ConsumerTypes
<1> QED BY <1>1, <1>3, <1>4, <1>5

\* The lists, rows and numbers of a thread are what the handler, the service
\* and the recovery put there, in any number of turns and restarts: a stored
\* reply is a turn's, whatever the replay holds, and what is left of the queue
\* and the buffer after a death is of their kind.
THEOREM CosTypes == Spec => []TypeOK
<1>1. Init => TypeOK
  <2> SUFFICES ASSUME Init PROVE TypeOK
    OBVIOUS
  <2>1. \A S : <<>> \in Seq(S)
    OBVIOUS
  <2>2. inbox \in [Turns -> Seq(Messages)] /\ buffer \in Seq(Messages) /\ queue \in Seq(Turns)
    BY <2>1 DEF Init
  <2>3. interrupt \in BOOLEAN /\ live \in BOOLEAN
    BY DEF Init
  <2> QED BY <2>2, <2>3 DEF Init, TypeOK
<1>2. TypeOK /\ [Next]_vars => TypeOK'
  <2> SUFFICES ASSUME TypeOK, [Next]_vars PROVE TypeOK'
    OBVIOUS
  <2>1. CASE NextTurn
    BY <2>1, TurnTypes
  <2>2. CASE NextMain
    <3>1. \A ok \in Answers : ok \in BOOLEAN
      BY DEF Answers
    <3>2. TRUE \in BOOLEAN
      OBVIOUS
    <3> QED BY <2>2, <3>1, <3>2, AgentTypes, MainTypes DEF NextMain
  <2>3. CASE NextAgent
    BY <2>3, AgentTypes
  <2>4. CASE UNCHANGED vars
    BY <2>4 DEF vars, turnVars, lockVars, mainVars, agentVars, TypeOK
  <2> QED BY <2>1, <2>2, <2>3, <2>4 DEF Next
<1> QED BY <1>1, <1>2, PTL DEF Spec

(******************************** The replies ******************************)

\* A message that a turn may take for its own.
Mine(m, t) == m.kind = "exit" \/ m.turn = t

\* All that the agent has to do, that a replay will send and that has been
\* sent is the turn's.
Sole(t) ==
    /\ \A i \in DOMAIN queue : queue[i] = t
    /\ \A i \in DOMAIN buffer : buffer[i].seq > start[t] => Mine(buffer[i], t)
    /\ \A i \in DOMAIN inbox[t] : Mine(inbox[t][i], t)

Own == \A t \in alone \cap clean : stage[t] \in Consuming \cup {"orphan"} => Sole(t)

\* Only a consumer that reads is sent anything, a row is written at the end,
\* and what the buffer held is looked at when the turn starts.
Reading ==
    /\ \A t \in Turns : t \in subs \/ inbox[t] # <<>> => stage[t] \in {"replay", "listen"}
    /\ \A t \in Turns : stage[t] # "done" => reply[t] = {}
    /\ \A t \in clean : stage[t] \notin {"new"} \cup Handling

RInv == TypeOK /\ IInv /\ Reading /\ Own /\ OwnReplyOnly

\* A step before the turn starts.
LEMMA HandlerReplies ==
    ASSUME RInv, NEW t \in Turns, NEW ok \in BOOLEAN,
           Chat(t) \/ FirstStatus(t, ok) \/ SpawnRefused(t) \/ Waited(t)
    PROVE  Reading' /\ Own' /\ OwnReplyOnly'
<1>1. /\ stage[t] \in {"new"} \cup Handling
      /\ \E st \in Handling \cup {"refused"} : At(t, st)
      /\ UNCHANGED <<start, reply, inbox, queue, buffer, subs, alone, clean>>
  BY DEF Chat, FirstStatus, SpawnRefused, Waited, agentVars, Handling
<1>2. /\ stage'[t] \in Handling \cup {"refused"}
      /\ \A u \in Turns : u # t => stage'[u] = stage[u]
  BY <1>1 DEF At, RInv, TypeOK
<1>3. stage'[t] \notin Consuming \cup {"orphan", "done"} /\ stage[t] \notin {"replay", "listen", "done"}
  BY <1>1, <1>2 DEF Handling, Consuming
<1>4. alone \subseteq Turns /\ clean \subseteq Turns
  BY DEF RInv, TypeOK
<1>5. Reading'
  BY <1>1, <1>2, <1>3, <1>4 DEF RInv, Reading
<1>6. Own'
  BY <1>1, <1>2, <1>3, <1>4 DEF RInv, Own, Sole
<1>7. OwnReplyOnly'
  BY <1>1 DEF RInv, OwnReplyOnly
<1> QED BY <1>5, <1>6, <1>7

\* A turn that is started finds no other that was alone: such a one is
\* consumed no more, or waits for a recovery, and then none is started.
LEMMA StartReplies ==
    ASSUME RInv, NEW t \in Turns, NEW ok \in BOOLEAN, Spawn(t) \/ Snapshot(t, ok)
    PROVE  Reading' /\ Own' /\ OwnReplyOnly'
<1> DEFINE others == {u \in Turns \ {t} : stage[u] \in Consuming}
<1>1. alone \subseteq Turns /\ clean \subseteq Turns /\ start \in [Turns -> Nat]
  BY DEF RInv, TypeOK
<1>2. stage[t] \in Handling /\ stage[t] \notin {"replay", "listen", "done"}
  BY DEF Spawn, Snapshot, Handling
<1>3. \A u \in Turns : stage[u] # "orphan"
  BY <1>2 DEF RInv, IInv, Recovering
<1>4. t \notin alone /\ t \notin clean /\ reply[t] = {} /\ inbox[t] = <<>> /\ t \notin subs
  BY <1>2 DEF RInv, IInv, Apart, Reading
<1>5. \E st \in {"wait", "input", "dial"} : At(t, st)
  BY DEF Spawn, Snapshot
<1>6. stage'[t] \in {"wait", "input", "dial"} /\ \A u \in Turns : u # t => stage'[u] = stage[u]
  BY <1>5 DEF At, RInv, TypeOK
<1>7. /\ UNCHANGED <<reply, inbox, buffer>> /\ subs' \subseteq subs
      /\ clean' \subseteq clean \cup {t}
  BY DEF Spawn, Snapshot, agentVars
<1>8. \A u \in alone' : u = t \/ (u \in alone /\ stage[u] \notin Consuming)
  BY <1>1 DEF Spawn, Snapshot
<1>9. CASE Spawn(t)
  <2>1. /\ alone' \subseteq alone /\ clean' = clean /\ stage'[t] = "wait"
    BY <1>9 DEF Spawn, At, RInv, TypeOK
  <2>2. Reading'
    BY <1>1, <1>2, <1>4, <1>6, <1>7, <2>1 DEF RInv, Reading, Handling
  <2>3. Own'
    BY <1>1, <1>3, <1>4, <1>6, <1>8, <2>1 DEF RInv, Own
  <2>4. OwnReplyOnly'
    BY <1>7, <2>1 DEF RInv, OwnReplyOnly
  <2> QED BY <2>2, <2>3, <2>4
<1>10. CASE Snapshot(t, ok)
  <2>1. stage'[t] \in {"input", "dial"} /\ UNCHANGED queue
    BY <1>10 DEF Snapshot, At, RInv, TypeOK, agentVars
  <2>2. Reading'
    BY <1>1, <1>2, <1>4, <1>6, <1>7, <2>1 DEF RInv, Reading, Handling
  <2>3. t \in alone' => Range(queue) \subseteq {t}
    BY <1>4, <1>10 DEF Snapshot
  <2>4. t \in clean' => \A i \in DOMAIN buffer : buffer[i].seq <= start'[t]
    BY <1>4, <1>10 DEF Snapshot
  <2>5. t \in alone' => \A i \in DOMAIN queue : queue[i] = t
    BY <2>3 DEF Range
  <2>6. start'[t] \in Nat /\ \A i \in DOMAIN buffer : buffer[i].seq \in Nat
    <3>1. buffer \in Seq(Messages) /\ seq \in Nat /\ start' = [start EXCEPT ![t] = IF ok THEN seq ELSE 0]
      BY <1>10 DEF RInv, TypeOK, Snapshot
    <3> QED BY <1>1, <3>1, MessageFacts
  <2>7. t \in alone' \cap clean' => Sole(t)'
    BY <1>4, <1>7, <2>1, <2>4, <2>5, <2>6 DEF Sole
  <2>8. Own'
    BY <1>1, <1>3, <1>6, <1>8, <2>7 DEF RInv, Own
  <2>9. OwnReplyOnly'
    BY <1>4, <1>7, <1>8 DEF RInv, OwnReplyOnly
  <2> QED BY <2>2, <2>8, <2>9
<1> QED BY <1>9, <1>10

\* The end of a consumer: what it heard was its own.
LEMMA EndReplies ==
    ASSUME RInv, NEW t \in Turns, Fail(t) \/ Hear(t) \/ WsClose(t)
    PROVE  Reading' /\ Own' /\ OwnReplyOnly'
<1>1. alone \subseteq Turns /\ clean \subseteq Turns /\ stage[t] \in Consuming
  BY DEF RInv, TypeOK, Fail, Hear, WsClose, Consuming
<1>2. \E st \in {"done", "failed"} : At(t, st) /\ (st = "failed" => reply' = reply)
  BY DEF Fail, Hear, WsClose, Finish
<1>3. /\ stage'[t] \in {"done", "failed"} /\ (stage'[t] = "failed" => reply' = reply)
      /\ \A u \in Turns : u # t => stage'[u] = stage[u]
  BY <1>2 DEF At, RInv, TypeOK
<1>4. OnDone(t) /\ UNCHANGED <<alone, clean>>
  BY DEF Fail, Hear, WsClose, Finish
<1>5. /\ subs' = subs \ {t} /\ UNCHANGED <<queue, buffer>> /\ inbox'[t] = <<>>
      /\ \A u \in Turns : u # t => inbox'[u] = inbox[u] /\ start'[u] = start[u]
  BY <1>4 DEF OnDone, RInv, TypeOK
<1>6. \A u \in Turns : u # t => reply'[u] = reply[u]
  BY DEF Fail, Hear, WsClose, Finish, RInv, TypeOK
<1>7. t \in alone \cap clean => reply'[t] \subseteq {t}
  <2>1. CASE Fail(t)
    BY <2>1 DEF Fail, RInv, OwnReplyOnly
  <2>2. CASE WsClose(t)
    BY <2>2 DEF WsClose, Finish, RInv, TypeOK
  <2>3. CASE Hear(t)
    <3> DEFINE m == Head(inbox[t])
    <3>1. 1 \in DOMAIN inbox[t] /\ m = inbox[t][1]
      BY <2>3, HeadOfInbox DEF Hear, RInv
    <3>2. reply' = [reply EXCEPT ![t] = IF m.kind = "result" THEN {m.turn} ELSE {}]
      BY <2>3 DEF Hear, Finish
    <3> HIDE DEF m
    <3>3. t \in alone \cap clean => Mine(m, t)
      BY <1>1, <3>1 DEF RInv, Own, Sole
    <3>4. reply'[t] = IF m.kind = "result" THEN {m.turn} ELSE {}
      BY <3>2 DEF RInv, TypeOK
    <3> QED BY <3>3, <3>4 DEF Mine
  <2> QED BY <2>1, <2>2, <2>3
<1>8. Reading'
  <2>1. stage'[t] = "failed" => reply'[t] = {}
    BY <1>1, <1>3 DEF RInv, Reading, Consuming
  <2>2. stage'[t] \notin {"new"} \cup Handling
    BY <1>3 DEF Handling
  <2> QED BY <1>1, <1>3, <1>4, <1>5, <1>6, <2>1, <2>2 DEF RInv, Reading
<1>9. Own'
  <2>1. \A u \in Turns : u # t => (Sole(u) => Sole(u)')
    BY <1>5 DEF Sole
  <2>2. stage'[t] \notin Consuming \cup {"orphan"}
    BY <1>3 DEF Consuming
  <2> QED BY <1>1, <1>3, <1>4, <2>1, <2>2 DEF RInv, Own
<1>10. OwnReplyOnly'
  BY <1>1, <1>4, <1>6, <1>7 DEF RInv, OwnReplyOnly
<1> QED BY <1>8, <1>9, <1>10

\* A consumer on its way: the turn is given to the agent, its socket attached
\* and the buffer replayed.
LEMMA ConsumerReplies ==
    ASSUME RInv, NEW t \in Turns, NEW gone \in 0..Len(buffer),
           Input(t) \/ Attach(t) \/ Replay(t, gone)
    PROVE  Reading' /\ Own' /\ OwnReplyOnly'
<1>1. alone \subseteq Turns /\ clean \subseteq Turns /\ stage[t] \in Consuming
  BY DEF RInv, TypeOK, Input, Attach, Replay, Consuming
<1>2. \E st \in {"dial", "replay", "listen"} : At(t, st)
  BY DEF Input, Attach, Replay
<1>3. /\ stage'[t] \in {"dial", "replay", "listen"}
      /\ \A u \in Turns : u # t => stage'[u] = stage[u]
  BY <1>2 DEF At, RInv, TypeOK
<1>4. stage'[t] \notin {"new", "orphan", "done"} \cup Handling /\ stage[t] # "done"
  BY <1>1, <1>3 DEF Handling, Consuming
<1>5. UNCHANGED <<start, reply, clean, buffer>> /\ alone' \subseteq alone
  BY DEF Input, Attach, Replay, agentVars
<1>6. OwnReplyOnly'
  BY <1>5 DEF RInv, OwnReplyOnly
<1>7. \A u \in Turns : stage[u] # "orphan"
  BY <1>1 DEF RInv, IInv, Recovering
<1>8. CASE Input(t)
  <2>1. /\ stage[t] = "input" /\ UNCHANGED <<subs, inbox>> /\ queue' \in {queue, Append(queue, t)}
        /\ alone' = {u \in alone : u = t \/ stage[u] \notin Consuming}
    BY <1>8 DEF Input
  <2>2. Reading'
    BY <1>1, <1>3, <1>4, <1>5, <2>1 DEF RInv, Reading
  <2>3. Sole(t) => Sole(t)'
    <3>1. \A i \in DOMAIN queue' : queue'[i] = t \/ (i \in DOMAIN queue /\ queue'[i] = queue[i])
      BY <2>1, QueueFacts DEF RInv, TypeOK
    <3> QED BY <1>5, <2>1, <3>1 DEF Sole
  <2>4. \A u \in alone' : u # t => stage'[u] \notin Consuming \cup {"orphan"}
    BY <1>1, <1>3, <1>7, <2>1
  <2>5. Own'
    BY <1>1, <1>5, <2>3, <2>4 DEF RInv, Own
  <2> QED BY <1>6, <2>2, <2>5
<1>9. CASE Attach(t)
  <2>1. /\ stage'[t] = "replay" /\ UNCHANGED <<inbox, queue, alone>> /\ subs' \subseteq subs \cup {t}
    BY <1>9 DEF Attach, At, RInv, TypeOK
  <2>2. Reading'
    BY <1>1, <1>3, <1>4, <1>5, <2>1 DEF RInv, Reading
  <2>3. Own'
    BY <1>1, <1>3, <1>5, <2>1 DEF RInv, Own, Sole
  <2> QED BY <1>6, <2>2, <2>3
<1>10. CASE Replay(t, gone)
  <2>1. /\ stage'[t] = "listen" /\ UNCHANGED <<subs, queue, alone>>
    BY <1>10 DEF Replay, At, RInv, TypeOK, agentVars
  <2>2. /\ \A u \in Turns : u # t => inbox'[u] = inbox[u]
        /\ \A i \in DOMAIN inbox'[t] :
               \/ i \in DOMAIN inbox[t] /\ inbox'[t][i] = inbox[t][i]
               \/ \E k \in DOMAIN buffer :
                      inbox'[t][i] = buffer[k] /\ buffer[k].seq > start[t]
    BY <1>10, ReplayFacts DEF RInv
  <2>3. Reading'
    BY <1>1, <1>3, <1>4, <1>5, <2>1, <2>2 DEF RInv, Reading
  <2>4. Sole(t) => Sole(t)'
    BY <1>5, <2>1, <2>2 DEF Sole
  <2>5. \A u \in Turns : u # t => (Sole(u) => Sole(u)')
    BY <1>5, <2>1, <2>2 DEF Sole
  <2>6. Own'
    BY <1>1, <1>3, <1>5, <2>1, <2>4, <2>5 DEF RInv, Own
  <2> QED BY <1>6, <2>3, <2>6
<1> QED BY <1>8, <1>9, <1>10

\* The agent's messages: the result of the turn at hand, or its exit.
LEMMA AgentReplies ==
    ASSUME RInv, NextAgent \/ Interrupt PROVE Reading' /\ Own' /\ OwnReplyOnly'
<1>1. alone \subseteq Turns /\ clean \subseteq Turns
  BY DEF RInv, TypeOK
<1>2. UNCHANGED <<stage, start, reply, alone, clean>>
  BY DEF NextAgent, AgentResult, AgentDie, Interrupt, Die, TakeLock, GiveLock, turnVars
<1>3. OwnReplyOnly'
  BY <1>2 DEF RInv, OwnReplyOnly
<1>4. CASE AgentResult \/ AgentDie \/ Interrupt
  <2> DEFINE r == [seq |-> 0, kind |-> "result", turn |-> Head(queue)]
             x == [seq |-> 0, kind |-> "exit", turn |-> 0]
  <2>1. AgentResult => queue # <<>> /\ Head(queue) \in Turns /\ 1 \in DOMAIN queue
                       /\ Head(queue) = queue[1]
    BY QueueFacts DEF RInv, TypeOK, AgentResult
  <2>2. \E m \in Messages :
           /\ Emit(m)
           /\ \A t \in alone \cap clean :
                  stage[t] \in Consuming \cup {"orphan"} => Mine(m, t)
    <3>1. CASE AgentResult
      <4>1. r \in Messages /\ Emit(r)
        BY <2>1, <3>1, MessageFacts DEF AgentResult
      <4>2. \A t \in alone \cap clean : stage[t] \in Consuming \cup {"orphan"} => r.turn = t
        BY <2>1, <3>1 DEF RInv, Own, Sole
      <4> HIDE DEF r
      <4> QED BY <4>1, <4>2 DEF Mine
    <3>2. CASE AgentDie \/ Interrupt
      <4>1. x \in Messages /\ Emit(x) /\ x.kind = "exit"
        BY <3>2, MessageFacts DEF AgentDie, Interrupt, Die
      <4> HIDE DEF x
      <4> QED BY <4>1 DEF Mine
    <3> QED BY <1>4, <3>1, <3>2
  <2> HIDE DEF r, x
  <2>3. PICK m \in Messages :
           /\ Emit(m)
           /\ \A t \in alone \cap clean :
                  stage[t] \in Consuming \cup {"orphan"} => Mine(m, t)
    BY <2>2
  <2>4. PICK e \in Messages :
           /\ e.kind = m.kind /\ e.turn = m.turn
           /\ buffer' = Append(buffer, e)
           /\ \A t \in Turns : inbox'[t] = IF t \in subs THEN Append(inbox[t], e) ELSE inbox[t]
    BY <2>3, EmitFacts DEF RInv
  <2>5. subs' \subseteq subs
    BY <1>4 DEF AgentResult, AgentDie, Interrupt, Die
  <2>6. \A i \in DOMAIN queue' : \E j \in DOMAIN queue : queue'[i] = queue[j]
    <3>1. CASE AgentResult
      <4>1. queue # <<>> /\ queue' = Tail(queue) /\ queue \in Seq(Turns)
        BY <3>1 DEF AgentResult, RInv, TypeOK
      <4>2. \A i \in DOMAIN Tail(queue) : i + 1 \in DOMAIN queue /\ Tail(queue)[i] = queue[i + 1]
        BY <4>1, QueueFacts
      <4> QED BY <4>1, <4>2
    <3>2. CASE AgentDie \/ Interrupt
      <4>1. queue' = <<>>
        BY <3>2 DEF AgentDie, Interrupt, Die
      <4> QED BY <4>1
    <3> QED BY <1>4, <3>1, <3>2
  <2>7. Reading'
    BY <1>1, <1>2, <2>4, <2>5 DEF RInv, Reading
  <2>8. buffer \in Seq(Messages) /\ \A t \in Turns : inbox[t] \in Seq(Messages)
    BY DEF RInv, TypeOK
  <2>9. \A t \in Turns : Sole(t) /\ Mine(m, t) => Sole(t)'
    <3> SUFFICES ASSUME NEW t \in Turns, Sole(t), Mine(m, t) PROVE Sole(t)'
      OBVIOUS
    <3>1. Mine(e, t)
      BY <2>4 DEF Mine
    <3>2. \A i \in DOMAIN queue' : queue'[i] = t
      BY <2>6 DEF Sole
    <3>3. \A i \in DOMAIN buffer' : (i \in DOMAIN buffer /\ buffer'[i] = buffer[i]) \/ buffer'[i] = e
      BY <2>4, <2>8
    <3>4. \A i \in DOMAIN inbox'[t] :
              (i \in DOMAIN inbox[t] /\ inbox'[t][i] = inbox[t][i]) \/ inbox'[t][i] = e
      <4>1. CASE t \notin subs
        BY <2>4, <4>1
      <4>2. CASE t \in subs
        <5>1. inbox'[t] = Append(inbox[t], e) /\ inbox[t] \in Seq(Messages)
          BY <2>4, <2>8, <4>2
        <5> QED BY <5>1
      <4> QED BY <4>1, <4>2
    <3> QED BY <1>2, <3>1, <3>2, <3>3, <3>4 DEF Sole
  <2>10. Own'
    BY <1>1, <1>2, <2>3, <2>9 DEF RInv, Own
  <2> QED BY <1>3, <2>7, <2>10
<1>5. CASE TakeLock \/ GiveLock
  <2>1. UNCHANGED <<inbox, queue, buffer, subs>>
    BY <1>5 DEF TakeLock, GiveLock, turnVars, agentVars
  <2> QED BY <1>1, <1>2, <1>3, <2>1 DEF RInv, Reading, Own, Sole
<1> QED BY <1>4, <1>5 DEF NextAgent

\* A restart leaves its turn what it had, and a recovery replays it from there.
LEMMA MainReplies ==
    ASSUME RInv, NEW ok \in BOOLEAN,
           InterruptDone \/ Restart \/ RecoverRead \/ RecoverAnswer(ok)
    PROVE  Reading' /\ Own' /\ OwnReplyOnly'
<1>1. alone \subseteq Turns /\ clean \subseteq Turns
  BY DEF RInv, TypeOK
<1>2. UNCHANGED <<start, reply, queue, buffer, clean>> /\ alone' \subseteq alone
  BY DEF InterruptDone, Restart, RecoverRead, RecoverAnswer, turnVars, agentVars
<1>3. OwnReplyOnly'
  BY <1>2 DEF RInv, OwnReplyOnly
<1>4. CASE InterruptDone
  <2>1. /\ UNCHANGED <<inbox, subs>>
        /\ alone' = {t \in alone : stage[t] \notin Consuming \cup {"orphan"}}
        /\ \A t \in Turns :
             stage'[t] = IF stage[t] = "orphan" /\ recovery = "due" THEN "lost" ELSE stage[t]
    BY <1>4 DEF InterruptDone, agentVars
  <2>2. Reading'
    BY <1>1, <1>2, <2>1 DEF RInv, Reading, Handling
  <2>3. Own'
    BY <1>1, <2>1 DEF Own, Consuming
  <2> QED BY <1>3, <2>2, <2>3
<1>5. CASE Restart
  <2>1. /\ subs' = {} /\ \A t \in Turns : inbox'[t] = <<>>
        /\ \A t \in Turns : stage'[t] =
               IF stage[t] \in Settled \cup {"new"} THEN stage[t]
               ELSE IF stage[t] \in Consuming \cup {"orphan"} /\ current = t THEN "orphan" ELSE "lost"
    BY <1>5 DEF Restart
  <2>2. \A t \in Turns : /\ stage'[t] \in {"new"} \cup Handling => stage[t] = "new"
                         /\ stage'[t] \notin Consuming
                         /\ stage'[t] = "orphan" => stage[t] \in Consuming \cup {"orphan"}
                         /\ stage[t] = "done" => stage'[t] = "done"
    BY <2>1 DEF Handling, Settled, Consuming
  <2>3. Reading'
    BY <1>1, <1>2, <2>1, <2>2 DEF RInv, Reading
  <2>4. \A t \in Turns : Sole(t) => Sole(t)'
    BY <1>2, <2>1 DEF Sole
  <2>5. Own'
    BY <1>1, <1>2, <2>2, <2>4 DEF RInv, Own
  <2> QED BY <1>3, <2>3, <2>5
<1>6. CASE RecoverRead \/ RecoverAnswer(ok)
  <2>1. UNCHANGED <<inbox, subs, alone>>
    BY <1>6 DEF RecoverRead, RecoverAnswer, turnVars, agentVars
  <2>2. \A t \in Turns : stage'[t] = stage[t] \/ (stage[t] = "orphan" /\ stage'[t] \in {"dial", "lost"})
    BY <1>6 DEF RecoverRead, RecoverAnswer, turnVars, At, RInv, TypeOK
  <2>3. Reading'
    BY <1>1, <1>2, <2>1, <2>2 DEF RInv, Reading, Handling
  <2>4. Own'
    BY <1>1, <1>2, <2>1, <2>2 DEF RInv, Own, Sole
  <2> QED BY <1>3, <2>3, <2>4
<1> QED BY <1>4, <1>5, <1>6

\* A turn that had the session to itself, and found the buffer behind it,
\* stores no text but its own, through any number of turns, interrupts and
\* restarts of the main server in mid-turn (cos-turn-consumer.ts replay_request
\* from startSeq, recoverInFlightTurns).
THEOREM RepliesAreOwn == Spec => []OwnReplyOnly
<1>1. Init => Reading /\ Own /\ OwnReplyOnly
  BY DEF Init, Reading, Own, OwnReplyOnly, Handling
<1>2. RInv /\ [Next]_vars => (Reading /\ Own /\ OwnReplyOnly)'
  <2> SUFFICES ASSUME RInv, [Next]_vars PROVE Reading' /\ Own' /\ OwnReplyOnly'
    OBVIOUS
  <2>1. \A ok \in Answers : ok \in BOOLEAN
    BY DEF Answers
  <2>2. TRUE \in BOOLEAN /\ 0 \in 0..Len(buffer)
    BY DEF RInv, TypeOK
  <2>3. CASE NextTurn
    <3>1. PICK t \in Turns :
            \/ Chat(t) \/ Spawn(t) \/ SpawnRefused(t) \/ Waited(t)
            \/ \E ok \in Answers : FirstStatus(t, ok) \/ Snapshot(t, ok)
            \/ Fail(t) \/ Input(t) \/ Attach(t) \/ Hear(t) \/ WsClose(t)
            \/ \E gone \in 0..Len(buffer) : Replay(t, gone)
      BY <2>3 DEF NextTurn
    <3>2. CASE Chat(t) \/ SpawnRefused(t) \/ Waited(t) \/ \E ok \in Answers : FirstStatus(t, ok)
      BY <2>1, <2>2, <3>2, HandlerReplies
    <3>3. CASE Spawn(t) \/ \E ok \in Answers : Snapshot(t, ok)
      BY <2>1, <2>2, <3>3, StartReplies
    <3>4. CASE Fail(t) \/ Hear(t) \/ WsClose(t)
      BY <3>4, EndReplies
    <3>5. CASE Input(t) \/ Attach(t) \/ \E gone \in 0..Len(buffer) : Replay(t, gone)
      BY <2>2, <3>5, ConsumerReplies
    <3> QED BY <3>1, <3>2, <3>3, <3>4, <3>5
  <2>4. CASE NextMain
    BY <2>1, <2>2, <2>4, AgentReplies, MainReplies DEF NextMain
  <2>5. CASE NextAgent
    BY <2>5, AgentReplies
  <2>6. CASE UNCHANGED vars
    BY <2>6 DEF vars, turnVars, lockVars, mainVars, agentVars, RInv, Reading, Own, Sole, OwnReplyOnly
  <2> QED BY <2>3, <2>4, <2>5, <2>6 DEF Next
<1>3. Spec => [](TypeOK /\ IInv)
  BY CosTypes, Inductive, PTL
<1> QED BY <1>1, <1>2, <1>3, PTL DEF Spec, RInv
=============================================================================

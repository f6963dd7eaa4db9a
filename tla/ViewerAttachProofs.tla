------------------------ MODULE ViewerAttachProofs ------------------------
(***************************************************************************)
(* For any number of viewers and retries, a connected viewer is on one list, *)
(* the right one for the session's state, and the shared PTY has the latest  *)
(* size asked for.  That the lists are served is a matter of fairness, which *)
(* TLC checks (PendingServed, ParkedServed).                                 *)
(***************************************************************************)
EXTENDS ViewerAttach, SubsequenceFacts

\* Nobody waits for the spawn of a session whose row runs already.
PendingBeforeRunning == pending # {} => row # "running"

IInv == OnOneList /\ PendingBeforeRunning

\* The service starts with no sockets.
LEMMA InitEstablishes == Init => IInv
BY AttemptsAssumption DEF Init, IInv, OnOneList, ListsMatchSession, PendingBeforeRunning

\* Every handler keeps the sockets partitioned among the lists.
LEMMA PartitionStep ==
    IInv /\ [Next]_vars => IInv'
<1> SUFFICES ASSUME IInv, [Next]_vars PROVE IInv'
  OBVIOUS
<1> USE AttemptsAssumption DEF IInv, OnOneList, ListsMatchSession, PendingBeforeRunning
<1>1. CASE Spawn
  BY <1>1 DEF Spawn, FreshPty, timers
<1>2. CASE SpawnThrow
  BY <1>2 DEF SpawnThrow, FreshPty, ptyVars, timers
<1>3. CASE AgentDies
  BY <1>3 DEF AgentDies, lists, timers, ptyVars
<1>4. CASE GapPasses
  BY <1>4 DEF GapPasses, sessVars, lists, ptyVars
<1>5. ASSUME NEW survives \in BOOLEAN, End(survives)
      PROVE IInv'
  BY <1>5 DEF End, FreshPty, timers
<1>6. ASSUME NEW status \in {"ended", "gone"}, MainEnds(status)
      PROVE IInv'
  BY <1>6 DEF MainEnds, lists, timers, ptyVars
<1>7. ASSUME NEW fits \in BOOLEAN, SvcRestart(fits)
      PROVE IInv'
  BY <1>7 DEF SvcRestart, FreshPty
<1>8. ASSUME NEW fits \in BOOLEAN, Retry(fits)
      PROVE IInv'
  BY <1>8 DEF Retry, Recover, Recoverable, Promote, FreshPty, ptyVars
<1>9. ASSUME NEW v \in Viewers, NEW ok \in BOOLEAN, NEW found \in BOOLEAN, NEW fits \in BOOLEAN,
             Connect(v, ok, found, fits)
      PROVE IInv'
  BY <1>9 DEF Connect, FreshPty, Park, lists, ptyVars
<1>10. ASSUME NEW v \in Viewers, Close(v)
      PROVE IInv'
  BY <1>10 DEF Close, sessVars, timers
<1>11. ASSUME NEW v \in Viewers, NEW kind \in {"key", "resize"}, NEW fits \in BOOLEAN, Input(v, kind, fits)
      PROVE IInv'
  BY <1>11 DEF Input, Recover, Recoverable, Promote, ptyVars, timers
<1>12. CASE UNCHANGED vars
  BY <1>12 DEF vars, sessVars, lists, timers, ptyVars
<1>14. CASE ResizeRoute
  BY <1>14 DEF ResizeRoute, sessVars, lists, timers
<1> HIDE DEF IInv, OnOneList, ListsMatchSession, PendingBeforeRunning
<1>13. QED
  BY <1>1, <1>2, <1>3, <1>4, <1>5, <1>6, <1>7, <1>8, <1>9, <1>10, <1>11, <1>12, <1>14 DEF Next

\* A connected viewer that knows of no end is on exactly one list, and it is the
\* one that fits the session's state.
THEOREM ViewersListed == Spec => []OnOneList
<1>1. IInv => OnOneList
  BY DEF IInv
<1>2. QED
  BY InitEstablishes, PartitionStep, <1>1, PTL DEF Spec

(****************** The requests for a size, and the PTY *******************)

Requests == sizes \in Seq(Viewers) /\ IsInjective(sizes)

\* The requests kept, of any list in which no viewer occurs twice.
LEMMA KeptRequests ==
    ASSUME NEW old \in Seq(Viewers), IsInjective(old), NEW T
    PROVE  Kept(old, T) \in Seq(Viewers) /\ IsInjective(Kept(old, T))
<1>1. Kept(old, T) \in Seq(Viewers)
  BY KeptElements
<1>2. \A i, j \in 1..Len(old) : old[i] = old[j] => i = j
  BY DEF IsInjective
<1>3. \A i, j \in 1..Len(Kept(old, T)) : Kept(old, T)[i] = Kept(old, T)[j] => i = j
  BY <1>2, KeptOnce
<1>4. DOMAIN Kept(old, T) = 1..Len(Kept(old, T))
  BY <1>1
<1> QED BY <1>1, <1>3, <1>4 DEF IsInjective

\* A new request comes last, in place of the viewer's old one.
LEMMA NewRequest ==
    ASSUME NEW old \in Seq(Viewers), IsInjective(old), NEW v \in Viewers
    PROVE  LET new == Append(Without(old, v), v)
           IN new \in Seq(Viewers) /\ IsInjective(new) /\ Last(new) = v
<1> DEFINE left == Without(old, v)
<1>1. left \in Seq(Viewers) /\ IsInjective(left)
  BY KeptRequests DEF Without
<1>2. \A i \in 1..Len(left) : left[i] # v
  <2>1. \A i \in 1..Len(left) : left[i] \in Viewers \ {v}
    BY KeptElements DEF Without
  <2> QED BY <2>1
<1> HIDE DEF left
<1>3. Append(left, v) \in Seq(Viewers) /\ Last(Append(left, v)) = v
  BY <1>1 DEF Last
<1>4. IsInjective(Append(left, v))
  BY <1>1, <1>2 DEF IsInjective
<1> QED BY <1>3, <1>4 DEF left

\* A step forgets the requests, leaves them, adds one, or derives them anew.
LEMMA RequestsStep ==
    Requests /\ PtyFollowsLatest /\ [Next]_vars => Requests' /\ PtyFollowsLatest'
<1> SUFFICES ASSUME Requests, PtyFollowsLatest, [Next]_vars
             PROVE  Requests' /\ PtyFollowsLatest'
  OBVIOUS
<1>1. CASE FreshPty
  BY <1>1 DEF FreshPty, Requests, PtyFollowsLatest, IsInjective
<1>2. CASE UNCHANGED ptyVars
  BY <1>2 DEF ptyVars, Requests, PtyFollowsLatest
<1>3. ASSUME NEW v \in Viewers, Close(v)
      PROVE Requests' /\ PtyFollowsLatest'
  <2>1. CASE ~Contains(sizes, v)
    BY <1>3, <2>1, <1>2 DEF Close, ptyVars
  <2>2. CASE Contains(sizes, v)
    <3> DEFINE left == Without(sizes, v)
               attached == Kept(left, admins')
    <3>1. left \in Seq(Viewers) /\ IsInjective(left)
      BY KeptRequests DEF Without, Requests
    <3>2. Rederive(left)
      BY <1>3, <2>2 DEF Close
    <3> HIDE DEF left
    <3>3. attached \in Seq(Viewers) /\ IsInjective(attached)
      BY <3>1, KeptRequests
    <3>4. CASE left = <<>>
      BY <3>2, <3>4, <3>1 DEF Rederive, Requests, PtyFollowsLatest
    <3>5. CASE left # <<>>
      <4>1. sizes' = attached /\ pty' = IF attached = <<>> THEN pty ELSE Last(attached)
        BY <3>2, <3>5 DEF Rederive
      <4> HIDE DEF attached
      <4> QED BY <3>3, <4>1 DEF Requests, PtyFollowsLatest
    <3> QED BY <3>4, <3>5
  <2> QED BY <2>1, <2>2
<1>4. ASSUME NEW v \in Viewers, NEW kind \in {"key", "resize"}, NEW fits \in BOOLEAN,
             Input(v, kind, fits)
      PROVE Requests' /\ PtyFollowsLatest'
  <2>1. CASE Apply(v, kind, sizes, pty)
    <3>1. CASE kind = "key"
      BY <2>1, <3>1 DEF Apply, Requests, PtyFollowsLatest
    <3>2. CASE kind = "resize"
      BY <2>1, <3>2, NewRequest DEF Apply, Requests, PtyFollowsLatest
    <3> QED BY <3>1, <3>2
  <2>2. CASE Apply(v, kind, <<>>, "default")
    <3>1. CASE kind = "key"
      BY <2>2, <3>1 DEF Apply, Requests, PtyFollowsLatest, IsInjective
    <3>2. CASE kind = "resize"
      <4>1. <<>> \in Seq(Viewers) /\ IsInjective(<<>>)
        BY DEF IsInjective
      <4> QED BY <2>2, <3>2, <4>1, NewRequest DEF Apply, Requests, PtyFollowsLatest
    <3> QED BY <3>1, <3>2
  <2> QED BY <1>4, <2>1, <2>2, <1>2 DEF Input
<1>5. CASE Spawn \/ SpawnThrow \/ AgentDies \/ GapPasses
  BY <1>5, <1>1, <1>2 DEF Spawn, SpawnThrow, AgentDies, GapPasses
<1>6. ASSUME NEW survives \in BOOLEAN, End(survives) PROVE FreshPty
  BY <1>6 DEF End
<1>7. ASSUME NEW status \in {"ended", "gone"}, MainEnds(status) PROVE UNCHANGED ptyVars
  BY <1>7 DEF MainEnds
<1>8. ASSUME NEW fits \in BOOLEAN, SvcRestart(fits) \/ Retry(fits)
      PROVE FreshPty \/ UNCHANGED ptyVars
  BY <1>8 DEF SvcRestart, Retry
<1>9. ASSUME NEW v \in Viewers, NEW ok \in BOOLEAN, NEW found \in BOOLEAN, NEW fits \in BOOLEAN,
             Connect(v, ok, found, fits)
      PROVE FreshPty \/ UNCHANGED ptyVars
  BY <1>9 DEF Connect
<1>10. CASE UNCHANGED vars
  BY <1>10, <1>2 DEF vars
<1>11. CASE ResizeRoute
  BY <1>11 DEF ResizeRoute, Requests, PtyFollowsLatest
<1> QED BY <1>1, <1>2, <1>3, <1>4, <1>5, <1>6, <1>7, <1>8, <1>9, <1>10, <1>11 DEF Next

\* The PTY has the size of the viewer that asked last among those remembered.
THEOREM LatestSize == Spec => []PtyFollowsLatest
<1>1. Init => Requests /\ PtyFollowsLatest
  BY DEF Init, Requests, PtyFollowsLatest, IsInjective
<1>2. QED
  BY <1>1, RequestsStep, PTL DEF Spec

(********************************** Types **********************************)

Lists ==
    /\ row \in {"pending", "running", "ended", "gone"}
    /\ agent \in BOOLEAN /\ spawning \in BOOLEAN /\ proc \in BOOLEAN
    /\ open \subseteq Viewers /\ exitTold \subseteq open
    /\ admins \subseteq open /\ pending \subseteq open /\ parked \subseteq open
    /\ tries \in 0..MaxAttempts /\ recent \in {"none", "timer", "key"}
    /\ restarts \in 0..MaxRestarts

LEMMA ListsStep == Lists /\ [Next]_vars => Lists'
<1> SUFFICES ASSUME Lists, [Next]_vars PROVE Lists'
  OBVIOUS
<1> USE AttemptsAssumption DEF Lists
<1>1. CASE Spawn
  BY <1>1 DEF Spawn, timers
<1>2. CASE SpawnThrow
  BY <1>2 DEF SpawnThrow, timers
<1>3. CASE AgentDies
  BY <1>3 DEF AgentDies, lists, timers
<1>4. CASE GapPasses
  BY <1>4 DEF GapPasses, sessVars, lists
<1>5. ASSUME NEW survives \in BOOLEAN, End(survives) PROVE Lists'
  BY <1>5 DEF End, timers
<1>6. ASSUME NEW status \in {"ended", "gone"}, MainEnds(status) PROVE Lists'
  BY <1>6 DEF MainEnds, lists, timers
<1>7. ASSUME NEW fits \in BOOLEAN, SvcRestart(fits) PROVE Lists'
  <2>1. row' \in {"pending", "running", "ended", "gone"} /\ proc' \in BOOLEAN
        /\ UNCHANGED agent /\ spawning' = FALSE
    BY <1>7 DEF SvcRestart
  <2>2. /\ open' = {} /\ exitTold' = {}
        /\ admins' = {} /\ pending' = {} /\ parked' = {} /\ recent' = "none"
    BY <1>7 DEF SvcRestart
  <2>3. tries' \in 0..MaxAttempts /\ restarts' \in 0..MaxRestarts
    BY <1>7 DEF SvcRestart
  <2> QED BY <2>1, <2>2, <2>3
<1>8. ASSUME NEW fits \in BOOLEAN, Retry(fits) PROVE Lists'
  <2>1. /\ UNCHANGED <<row, agent, spawning, open, exitTold, pending, restarts>>
        /\ proc' \in {proc, TRUE} /\ recent' \in {"none", "timer"}
    BY <1>8 DEF Retry, Recover, Promote
  <2>2. admins' \in {admins, admins \cup parked} /\ parked' \in {parked, {}}
    BY <1>8 DEF Retry, Recover, Promote
  <2>3. tries' \in 0..MaxAttempts
    <3>1. tries < MaxAttempts /\ tries' \in {tries + 1, MaxAttempts}
      BY <1>8 DEF Retry, Recover, Promote
    <3> QED BY <3>1
  <2> QED BY <2>1, <2>2, <2>3
<1>9. ASSUME NEW v \in Viewers, NEW ok \in BOOLEAN, NEW found \in BOOLEAN, NEW fits \in BOOLEAN,
             Connect(v, ok, found, fits)
      PROVE Lists'
  <2>1. /\ open' = open \cup {v} /\ row' \in {row, "ended"} /\ proc' \in {proc, TRUE}
        /\ UNCHANGED <<agent, spawning, recent, restarts>>
    BY <1>9 DEF Connect, lists
  <2>2. /\ exitTold' \in {exitTold, exitTold \cup {v}}
        /\ admins' \in {admins, admins \cup {v}, {v}}
        /\ pending' \in {pending, pending \cup {v}}
        /\ parked' \in {parked, parked \cup {v}}
    BY <1>9 DEF Connect, Park, lists
  <2>3. tries' \in {tries, 0}
    BY <1>9 DEF Connect, Park, lists
  <2>4. tries' \in 0..MaxAttempts
    BY <2>3
  <2>5. exitTold' \subseteq open' /\ admins' \subseteq open'
    BY <2>1, <2>2
  <2>6. pending' \subseteq open' /\ parked' \subseteq open'
    BY <2>1, <2>2
  <2> QED BY <2>1, <2>4, <2>5, <2>6
<1>10. ASSUME NEW v \in Viewers, Close(v) PROVE Lists'
  BY <1>10 DEF Close, sessVars, timers
<1>11. ASSUME NEW v \in Viewers, NEW kind \in {"key", "resize"}, NEW fits \in BOOLEAN,
              Input(v, kind, fits)
       PROVE Lists'
  <2>1. UNCHANGED <<row, agent, spawning, open, exitTold, pending, restarts>>
    BY <1>11 DEF Input
  <2>2. recent' = recent \/ recent' \in {"none", "key"}
    BY <1>11 DEF Input, Recover, Promote, timers
  <2>5. proc' = proc \/ proc' = TRUE
    BY <1>11 DEF Input, Recover
  <2>3. admins' \in {admins, admins \cup parked} /\ parked' \in {parked, {}}
    BY <1>11 DEF Input, Recover, Promote
  <2>4. tries' \in {tries, MaxAttempts}
    BY <1>11 DEF Input, Recover, Promote, timers
  <2>6. admins' \subseteq open' /\ parked' \subseteq open' /\ tries' \in 0..MaxAttempts
    BY <2>1, <2>3, <2>4
  <2>7. proc' \in BOOLEAN /\ recent' \in {"none", "timer", "key"}
    BY <2>2, <2>5
  <2> QED BY <2>1, <2>6, <2>7
<1>12. CASE UNCHANGED vars
  BY <1>12 DEF vars, sessVars, lists, timers
<1>13. CASE ResizeRoute
  BY <1>13 DEF ResizeRoute, sessVars, lists, timers
<1> HIDE DEF Lists
<1> QED BY <1>1, <1>2, <1>3, <1>4, <1>5, <1>6, <1>7, <1>8, <1>9, <1>10, <1>11, <1>12, <1>13 DEF Next

\* The PTY keeps its size, is new, or takes the latest request.
LEMMA PtyStep ==
    ASSUME Requests, PtyFollowsLatest, pty \in Viewers \cup {"default", "route"}, [Next]_vars
    PROVE  pty' \in Viewers \cup {"default", "route"}
<1>1. sizes' \in Seq(Viewers) /\ PtyFollowsLatest'
  BY RequestsStep DEF Requests
<1>2. sizes' # <<>> => pty' \in Viewers \cup {"route"}
  BY <1>1 DEF PtyFollowsLatest, Last
<1>3. sizes' = <<>> => pty' \in {pty, "default", "route"} \cup Viewers
  <2>1. CASE FreshPty \/ UNCHANGED ptyVars
    BY <2>1 DEF FreshPty, ptyVars
  <2>2. ASSUME NEW v \in Viewers, Close(v), sizes' = <<>> PROVE pty' = pty
    BY <2>2 DEF Close, Rederive
  <2>3. ASSUME NEW v \in Viewers, NEW kind \in {"key", "resize"}, NEW fits \in BOOLEAN,
               Input(v, kind, fits)
        PROVE  pty' \in {pty, "default", "route"} \cup Viewers
    BY <2>3 DEF Input, Apply, ptyVars
  <2>4. ASSUME NEW survives \in BOOLEAN, End(survives) PROVE FreshPty
    BY <2>4 DEF End
  <2>5. ASSUME NEW status \in {"ended", "gone"}, MainEnds(status) PROVE UNCHANGED ptyVars
    BY <2>5 DEF MainEnds
  <2>6. ASSUME NEW fits \in BOOLEAN, SvcRestart(fits) \/ Retry(fits)
        PROVE FreshPty \/ UNCHANGED ptyVars
    BY <2>6 DEF SvcRestart, Retry
  <2>7. ASSUME NEW v \in Viewers, NEW ok \in BOOLEAN, NEW found \in BOOLEAN, NEW fits \in BOOLEAN,
             Connect(v, ok, found, fits)
        PROVE FreshPty \/ UNCHANGED ptyVars
    BY <2>7 DEF Connect
  <2>8. CASE Spawn \/ SpawnThrow \/ AgentDies \/ GapPasses
    BY <2>1, <2>8 DEF Spawn, SpawnThrow, AgentDies, GapPasses
  <2>9. CASE UNCHANGED vars
    BY <2>1, <2>9 DEF vars
  <2>10. CASE ResizeRoute
    BY <2>10 DEF ResizeRoute
  <2> QED BY <2>1, <2>2, <2>3, <2>4, <2>5, <2>6, <2>7, <2>8, <2>9, <2>10 DEF Next
<1> QED BY <1>1, <1>2, <1>3

\* The lists hold open sockets, the timer its attempts, the requests a viewer
\* at most once each.
THEOREM ViewerTypes == Spec => []TypeOK
<1>1. Init => TypeOK /\ PtyFollowsLatest
  <2> SUFFICES ASSUME Init PROVE TypeOK /\ PtyFollowsLatest
    OBVIOUS
  <2>1. sizes = <<>> /\ <<>> \in Seq(Viewers) /\ IsInjective(<<>>)
    BY DEF Init, IsInjective
  <2>2. MaxAttempts \in 0..MaxAttempts /\ 0 \in 0..MaxRestarts
    BY AttemptsAssumption
  <2> QED BY <2>1, <2>2 DEF Init, TypeOK, PtyFollowsLatest
<1>2. TypeOK <=> Lists /\ Requests /\ pty \in Viewers \cup {"default", "route"}
  BY DEF TypeOK, Lists, Requests
<1>3. TypeOK /\ PtyFollowsLatest /\ [Next]_vars => TypeOK' /\ PtyFollowsLatest'
  <2> SUFFICES ASSUME TypeOK, PtyFollowsLatest, [Next]_vars PROVE TypeOK' /\ PtyFollowsLatest'
    OBVIOUS
  <2>1. Lists /\ Requests /\ pty \in Viewers \cup {"default", "route"}
    BY <1>2
  <2>2. Lists' /\ Requests' /\ PtyFollowsLatest' /\ pty' \in Viewers \cup {"default", "route"}
    BY <2>1, ListsStep, RequestsStep, PtyStep
  <2> QED BY <2>2 DEF TypeOK, Lists, Requests
<1>4. QED
  BY <1>1, <1>3, PTL DEF Spec
=============================================================================

------------------------- MODULE ResumeLineageProofs -------------------------
(***************************************************************************)
(* Theorems about ResumeLineage, for any number of rows and follow-ups: the *)
(* resume guard sees every active row of an unbroken conversation, so no    *)
(* resume, fork, restore or follow-up ever starts a second agent in it.     *)
(*                                                                         *)
(* The guard's query is a least fixed point, used here through what makes   *)
(* it one: every closed set that holds the start holds it.  So nothing is   *)
(* proved by induction over the depth of a lineage: Connected says that any *)
(* closed set that holds a row holds the conversation's first row, and it   *)
(* is kept because an insert adds one link to an existing row.              *)
(***************************************************************************)
EXTENDS ResumeLineageProps, TLAPS

(* Three shapes of a step, as far as the lineage is concerned.              *)

\* A row that opens a conversation of its own: a dispatch, a fork, or a
\* companion terminal.
OpensWith(n, p, runtime, id, thread) ==
    /\ Insert(n, p, runtime, id, n, thread)
    /\ runtime = "claude" => id = Uuid(n) \/ p # 0
    /\ p # 0 => row[p] # "none"

Opens(n) ==
    /\ n \in Next0
    /\ \E p \in 0..MaxSessions, runtime \in {"claude", "codex"}, id \in {0, Uuid(n)}, thread \in Threads :
          OpensWith(n, p, runtime, id, thread)
    /\ UNCHANGED <<began, revived>>

\* A row that continues another: a resume, or a dispatched follow-up.
Continues(n, p) ==
    /\ n \in Next0 /\ Resumable(p)
    /\ \E runtime \in {"claude", "codex"} : Continue(n, p, runtime)
    /\ UNCHANGED <<began, revived>>

\* Any other step: a row becomes active only if revived, and no link changes
\* but those of a powwow's participants, which open conversations of their own.
Settles ==
    /\ UNCHANGED <<rt, conv>>
    /\ par' \in [Ids -> 0..MaxSessions] /\ tid' \in [Ids -> Threads]
    /\ \A s \in Ids :
          \/ par'[s] = par[s]
          \/ /\ par[s] = 0 /\ conv[s] = s
             /\ par'[s] \in Ids /\ row[par'[s]] # "none" /\ conv[par'[s]] # s
    /\ row' \in [Ids -> Status] /\ nid' \in [Ids -> 0..(2 * MaxSessions)]
    /\ \A s \in Ids :
          /\ row'[s] = "none" <=> row[s] = "none"
          /\ row[s] = "gone" => row'[s] = "gone"
          /\ row'[s] \in Active => row[s] \in Active \/ s \in revived'
          /\ nid'[s] = nid[s] \/ (rt[s] = "codex" /\ row[s] # "none" /\ nid'[s] = Rollout(s))
    /\ revived \subseteq revived' /\ revived' \subseteq Ids
    /\ launching' \subseteq launching /\ began' \subseteq began \cup launching

\* Every step has one of the three shapes.
LEMMA StepShape ==
    ASSUME TypeOK, Accounted, LinksKept, [Next]_vars
    PROVE  \/ \E n \in Ids : Opens(n)
           \/ \E n \in Ids, p \in Ids : Continues(n, p)
           \/ Settles
<1> USE DEF TypeOK, RowOK, RunOK
<1>1. CASE UNCHANGED <<rowVars, runVars>>
  BY <1>1 DEF Settles, rowVars, linkVars, runVars
<1>2. ASSUME NEW n \in Ids, Dispatch(n)
      PROVE  Opens(n)
  <2>1. n \in Next0 /\ UNCHANGED <<began, revived>>
    BY <1>2 DEF Dispatch
  <2>2. PICK runtime \in Runtimes, thread \in {0} \cup {n} \cup {tid[s] : s \in Ids} :
            Insert(n, 0, runtime, Uuid(n), n, thread)
    BY <1>2 DEF Dispatch
  <2>3. runtime \in {"claude", "codex"}
    BY RuntimeAssumption
  <2>4. thread \in Threads
    BY BoundAssumption DEF Threads, Ids
  <2>5. 0 \in 0..MaxSessions
    BY BoundAssumption
  <2>6. OpensWith(n, 0, runtime, Uuid(n), thread)
    BY <2>2 DEF OpensWith
  <2>7. QED
    BY <2>1, <2>3, <2>4, <2>5, <2>6 DEF Opens
<1>3. ASSUME NEW n \in Ids, NEW p \in Ids, Resume(p, n)
      PROVE  Continues(n, p)
  BY <1>3, RuntimeAssumption DEF Resume, Continues
<1>4. ASSUME NEW n \in Ids, NEW p \in Ids, Fork(p, n)
      PROVE  Opens(n)
  <2>1. n \in Next0 /\ UNCHANGED <<began, revived>>
    BY <1>4 DEF Fork
  <2>2. p \in 0..MaxSessions /\ rt[p] \in {"claude", "codex"}
    BY BoundAssumption DEF Ids
  <2>3. /\ Insert(n, p, rt[p], IF rt[p] = "claude" THEN Uuid(n) ELSE 0, n, 0)
        /\ row[p] # "none"
    BY <1>4 DEF Fork, Exists
  <2>4. PICK id \in {0, Uuid(n)} : OpensWith(n, p, rt[p], id, 0)
    BY <2>3 DEF OpensWith
  <2>5. QED
    BY <2>1, <2>2, <2>4, BoundAssumption DEF Opens, Threads
<1>5. ASSUME NEW s \in Ids, Start(s)
      PROVE  Settles
  <2>1. row[s] # "none"
    BY <1>5 DEF Start, Accounted
  <2>2. Rollout(s) \in 0..(2 * MaxSessions)
    BY BoundAssumption DEF Rollout, Ids
  <2>3. UNCHANGED <<tid, linkVars>> /\ launching' \subseteq launching
        /\ began' \subseteq began \cup launching
    BY <1>5 DEF Start
  <2>4. revived \subseteq revived' /\ revived' \subseteq Ids
    BY <1>5 DEF Start
  <2>5. nid' \in [Ids -> 0..(2 * MaxSessions)]
        /\ \A t \in Ids : nid'[t] = nid[t] \/ (rt[t] = "codex" /\ row[t] # "none" /\ nid'[t] = Rollout(t))
    BY <1>5, <2>1, <2>2 DEF Start
  <2>6. row' \in [Ids -> Status]
        /\ \A t \in Ids : /\ row'[t] = "none" <=> row[t] = "none"
                          /\ row[t] = "gone" => row'[t] = "gone"
                          /\ row'[t] \in Active => row[t] \in Active \/ t \in revived'
    BY <1>5, <2>1 DEF Start, Written, Status, Active, Ended
  <2>7. QED
    BY <2>3, <2>4, <2>5, <2>6 DEF Settles, linkVars
<1>6. ASSUME NEW s \in Ids, StartFails(s)
      PROVE  Settles
  <2>1. row[s] # "none"
    BY <1>6 DEF StartFails, Accounted
  <2>2. QED
    BY <1>6, <2>1 DEF StartFails, Written, Settles, linkVars, Status, Active, Ended
<1>7. ASSUME NEW s \in Ids, Exit(s) \/ Kill(s) \/ Remove(s, "deleted") \/ Remove(s, "gone")
      PROVE  Settles
  BY <1>7 DEF Exit, Kill, Remove, Settles, linkVars, runVars, Status, Active, Ended
<1>8. ASSUME NEW f \in Followups, SweepTurn(f)
      PROVE  \/ \E n \in Ids, p \in Ids : Continues(n, p)
             \/ UNCHANGED <<rowVars, runVars>>
  <2>1. CASE UNCHANGED <<rowVars, runVars>>
    BY <2>1
  <2>2. CASE ~UNCHANGED <<rowVars, runVars>>
    <3> DEFINE p == fup[f].parent
    <3>1. /\ Resumable(p) /\ UNCHANGED <<began, revived>>
          /\ \E n \in Next0 : Continue(n, p, rt[p])
          /\ p \in sweep.ready
      BY <1>8, <2>2 DEF SweepTurn, runVars
    <3>2. PICK n \in Next0 : Continue(n, p, rt[p])
      BY <3>1
    <3>3. n \in Ids
      BY DEF Next0
    <3>4. p \in Ids
      BY <3>1 DEF FollowupOK
    <3>5. rt[p] \in {"claude", "codex"}
      BY <3>4
    <3>6. QED
      BY <3>1, <3>2, <3>3, <3>4, <3>5 DEF Continues
  <2>3. QED
    BY <2>1, <2>2
<1>9. ASSUME NEW f \in Followups, (\E p \in Ids : Enqueue(f, p)) \/ Cancel(f)
      PROVE  UNCHANGED <<rowVars, runVars>>
  BY <1>9 DEF Enqueue, Cancel, rowVars, runVars
<1>10. CASE SweepBegin \/ SweepEnd
  BY <1>1, <1>10 DEF SweepBegin, SweepEnd
<1>11. CASE UNCHANGED vars
  BY <1>1, <1>11 DEF vars
<1>12. ASSUME NEW n \in Ids, NEW p \in Ids, OpenCompanion(p, n)
       PROVE  Opens(n)
  <2>1. n \in Next0 /\ UNCHANGED <<began, revived>> /\ row[p] # "none"
    BY <1>12 DEF OpenCompanion, Active
  <2>2. p \in 0..MaxSessions /\ p # 0 /\ 0 \in Threads
    BY BoundAssumption DEF Ids, Threads
  <2>3. OpensWith(n, p, "claude", 0, 0)
    BY <1>12, <2>1, <2>2 DEF OpenCompanion, OpensWith
  <2>4. QED
    BY <2>1, <2>2, <2>3 DEF Opens
<1>13. ASSUME NEW m \in Ids, NEW crew \in SUBSET Ids, Gather(m, crew)
       PROVE  Settles
  <2>1. UNCHANGED <<row, nid, tid, rt, conv, runVars>>
        /\ par' = [s \in Ids |-> IF s \in crew THEN m ELSE par[s]]
    BY <1>13 DEF Gather
  <2>2. \A s \in Ids : par[s] = 0 /\ row[s] # "none" => conv[s] = s
    BY BoundAssumption DEF LinksKept, Ids
  <2>3. row[m] # "none" /\ conv[m] = m
    BY <1>13, <2>2 DEF Gather
  <2>4. ASSUME NEW s \in crew
        PROVE  par[s] = 0 /\ conv[s] = s /\ m # s
    BY <1>13, <2>2, <2>4, BoundAssumption DEF Gather, Exists, Ids
  <2>5. par' \in [Ids -> 0..MaxSessions]
    BY <2>1, BoundAssumption DEF Ids
  <2>6. QED
    BY <2>1, <2>3, <2>4, <2>5 DEF Settles, runVars
<1>14. ASSUME MintThreads
       PROVE  Settles
  <2>1. UNCHANGED <<row, nid, linkVars, runVars>>
    BY <1>14 DEF MintThreads
  <2>2. tid' \in [Ids -> Threads]
    BY <1>14, BoundAssumption DEF MintThreads, Threads, Ids
  <2>3. QED
    BY <2>1, <2>2 DEF Settles, linkVars, runVars
<1>15. QED
  BY <1>1, <1>2, <1>3, <1>4, <1>5, <1>6, <1>7, <1>8, <1>9, <1>10, <1>11, <1>12, <1>13, <1>14
     DEF Next, NextSession, NextLink, NextRow, NextFollowup

-----------------------------------------------------------------------------
\* An existing row has a conversation, opened by an existing row; the rollout a
\* codex resume settles on was written for an existing row too.
LEMMA RolloutOwned ==
    ASSUME TypeOK, Accounted, NEW p \in Ids, NEW x \in Rollouts(p) \ {0}
    PROVE  x \in 0..(2 * MaxSessions) /\ IsRollout(x)
           /\ OwnerOf(x) \in Ids /\ row[OwnerOf(x)] # "none"
<1> USE BoundAssumption DEF TypeOK, RowOK, RunOK
<1>1. CASE IsRollout(nid[p])
  <2>1. x = nid[p]
    BY <1>1 DEF Rollouts
  <2>2. QED
    BY <1>1, <2>1 DEF Accounted
<1>2. ASSUME ~IsRollout(nid[p]), NEW a \in Chain(p) \cap began, x = Rollout(a)
      PROVE  x \in 0..(2 * MaxSessions) /\ IsRollout(x)
             /\ OwnerOf(x) \in Ids /\ row[OwnerOf(x)] # "none"
  <2>1. a \in Ids /\ row[a] # "none"
    BY <1>2 DEF Accounted
  <2>2. x = MaxSessions + a /\ a \in 1..MaxSessions
    BY <1>2, <2>1 DEF Rollout, Ids
  <2>3. x \in 0..(2 * MaxSessions) /\ x > MaxSessions /\ x - MaxSessions = a
    BY <2>2
  <2>4. QED
    BY <2>1, <2>3 DEF IsRollout, OwnerOf
<1>3. ASSUME ~IsRollout(nid[p]), NEW a \in Chain(p), IsRollout(nid[a]), x = nid[a]
      PROVE  x \in 0..(2 * MaxSessions) /\ IsRollout(x)
             /\ OwnerOf(x) \in Ids /\ row[OwnerOf(x)] # "none"
  BY <1>3 DEF Accounted, Chain, Reach
<1>4. QED
  BY <1>1, <1>2, <1>3 DEF Rollouts

\* What a continuing insert writes: its conversation and its recorded id.
ContinuesWith(n, p, runtime, id, c, thread) ==
    /\ Insert(n, p, runtime, id, c, thread)
    /\ row[c] # "none" /\ conv[c] = c
    /\ IsRollout(id) => OwnerOf(id) \in Ids /\ row[OwnerOf(id)] # "none"
    /\ \/ runtime = "codex" /\ rt[p] = "codex"
       \/ c = conv[p] /\ (runtime = rt[p] => id = nid[p] \/ nid[p] = 0)

\* Every continuing insert is of that form, whichever way it resumes.
LEMMA ContinueShape ==
    ASSUME TypeOK, Rooted, Accounted,
           NEW n \in Ids, NEW p \in Ids, Continues(n, p)
    PROVE  \E runtime \in {"claude", "codex"}, id \in 0..(2 * MaxSessions), c \in Ids,
              thread \in Threads :
              ContinuesWith(n, p, runtime, id, c, thread)
<1> DEFINE thread == tid[p]
<1>1. thread \in Threads
  BY DEF TypeOK, RowOK
<1>2. PICK runtime \in {"claude", "codex"} : Continue(n, p, runtime)
  BY DEF Continues
<1>3. row[p] # "none" /\ conv[p] \in Ids /\ row[conv[p]] # "none" /\ conv[conv[p]] = conv[p]
  BY DEF Continues, Resumable, Exists, Rooted
<1>4. nid[p] \in 0..(2 * MaxSessions) /\ (IsRollout(nid[p]) => OwnerOf(nid[p]) \in Ids /\ row[OwnerOf(nid[p])] # "none")
  BY DEF TypeOK, RowOK, Accounted
<1>5. Uuid(n) \in 0..(2 * MaxSessions) /\ ~IsRollout(Uuid(n))
      /\ 0 \in 0..(2 * MaxSessions) /\ ~IsRollout(0)
  BY BoundAssumption DEF Uuid, IsRollout, Ids
<1> DEFINE Goal == \E r \in {"claude", "codex"}, id \in 0..(2 * MaxSessions), c \in Ids,
                      th \in Threads : ContinuesWith(n, p, r, id, c, th)
<1>6. ASSUME NEW id \in 0..(2 * MaxSessions), NEW c \in Ids,
             ContinuesWith(n, p, runtime, id, c, thread)
      PROVE  Goal
  BY <1>1, <1>6
<1>7. CASE runtime = "claude" /\ rt[p] = "claude" /\ Insert(n, p, runtime, nid[p], conv[p], thread)
  <2>1. ContinuesWith(n, p, runtime, nid[p], conv[p], thread)
    BY <1>3, <1>4, <1>7 DEF ContinuesWith
  <2>2. QED
    BY <1>3, <1>4, <1>6, <2>1
<1>8. ASSUME runtime = "codex", rt[p] = "codex", NEW x \in Rollouts(p) \ {0},
             Insert(n, p, runtime, x, conv[OwnerOf(x)], thread)
      PROVE  Goal
  <2>1. x \in 0..(2 * MaxSessions) /\ OwnerOf(x) \in Ids /\ row[OwnerOf(x)] # "none"
    BY RolloutOwned
  <2>2. /\ conv[OwnerOf(x)] \in Ids /\ row[conv[OwnerOf(x)]] # "none"
        /\ conv[conv[OwnerOf(x)]] = conv[OwnerOf(x)]
    BY <2>1 DEF Rooted
  <2>3. ContinuesWith(n, p, runtime, x, conv[OwnerOf(x)], thread)
    BY <1>8, <2>1, <2>2 DEF ContinuesWith
  <2>4. QED
    BY <1>6, <2>1, <2>2, <2>3
<1>9. ASSUME NEW id \in {0, Uuid(n)}, runtime # rt[p] \/ runtime = "codex" \/ nid[p] = 0,
             Insert(n, p, runtime, id, conv[p], thread)
      PROVE  Goal
  <2>1. ContinuesWith(n, p, runtime, id, conv[p], thread)
    BY <1>3, <1>5, <1>9 DEF ContinuesWith
  <2>2. QED
    BY <1>3, <1>5, <1>6, <2>1
<1>10. \/ runtime = "claude" /\ rt[p] = "claude" /\ Insert(n, p, runtime, nid[p], conv[p], thread)
       \/ /\ runtime = "codex" /\ rt[p] = "codex"
          /\ \E x \in Rollouts(p) \ {0} : Insert(n, p, runtime, x, conv[OwnerOf(x)], thread)
       \/ /\ runtime # rt[p] \/ runtime = "codex" \/ nid[p] = 0
          /\ \E id \in {0, Uuid(n)} : Insert(n, p, runtime, id, conv[p], thread)
  BY <1>2 DEF Continue, Retold
<1>11. QED
  BY <1>7, <1>8, <1>9, <1>10

\* What an opening insert writes.
LEMMA OpenShape ==
    ASSUME TypeOK, NEW n \in Ids, Opens(n)
    PROVE  \E p \in 0..MaxSessions, runtime \in {"claude", "codex"}, id \in 0..(2 * MaxSessions),
              thread \in Threads :
              Insert(n, p, runtime, id, n, thread) /\ ~IsRollout(id)
<1>1. PICK p \in 0..MaxSessions, runtime \in {"claude", "codex"}, id \in {0, Uuid(n)},
           thread \in Threads : Insert(n, p, runtime, id, n, thread)
  BY DEF Opens, OpensWith
<1>2. id \in 0..(2 * MaxSessions) /\ ~IsRollout(id)
  BY BoundAssumption DEF Uuid, IsRollout, Ids
<1>3. QED
  BY <1>1, <1>2

\* The first row of the chain of rows is free before its insert.
LEMMA NextFree ==
    ASSUME NEW n \in Ids, n \in Next0
    PROVE  row[n] = "none"
  BY DEF Next0

-----------------------------------------------------------------------------
\* Conversations keep their names.
LEMMA RootedStep ==
    ASSUME TypeOK, Rooted, Accounted, LinksKept, [Next]_vars
    PROVE  Rooted'
<1> USE DEF TypeOK, RowOK
<1>1. ASSUME NEW n \in Ids, Opens(n)
      PROVE  Rooted'
  <2>1. PICK p \in 0..MaxSessions, runtime \in {"claude", "codex"}, id \in 0..(2 * MaxSessions),
             thread \in Threads : Insert(n, p, runtime, id, n, thread) /\ ~IsRollout(id)
    BY <1>1, OpenShape
  <2>2. row[n] = "none"
    BY <1>1, NextFree DEF Opens
  <2>3. QED
    BY <2>1, <2>2 DEF Insert, Rooted
<1>2. ASSUME NEW n \in Ids, NEW p \in Ids, Continues(n, p)
      PROVE  Rooted'
  <2>1. PICK runtime \in {"claude", "codex"}, id \in 0..(2 * MaxSessions), c \in Ids,
             thread \in Threads : ContinuesWith(n, p, runtime, id, c, thread)
    BY <1>2, ContinueShape
  <2>2. row[n] = "none"
    BY <1>2, NextFree DEF Continues
  <2>3. QED
    BY <2>1, <2>2 DEF ContinuesWith, Insert, Rooted
<1>3. CASE Settles
  BY <1>3 DEF Settles, Rooted
<1>4. QED
  BY <1>1, <1>2, <1>3, StepShape

\* Launches, rollouts and recorded ids go on belonging to rows.
LEMMA AccountedStep ==
    ASSUME TypeOK, Rooted, Accounted, LinksKept, [Next]_vars
    PROVE  Accounted'
<1> USE DEF TypeOK, RowOK, RunOK
<1>1. ASSUME NEW n \in Ids, Opens(n)
      PROVE  Accounted'
  <2>1. PICK p \in 0..MaxSessions, runtime \in {"claude", "codex"}, id \in 0..(2 * MaxSessions),
             thread \in Threads : Insert(n, p, runtime, id, n, thread) /\ ~IsRollout(id)
    BY <1>1, OpenShape
  <2>2. UNCHANGED began
    BY <1>1 DEF Opens
  <2>3. QED
    BY <2>1, <2>2 DEF Insert, Accounted
<1>2. ASSUME NEW n \in Ids, NEW p \in Ids, Continues(n, p)
      PROVE  Accounted'
  <2>1. PICK runtime \in {"claude", "codex"}, id \in 0..(2 * MaxSessions), c \in Ids,
             thread \in Threads : ContinuesWith(n, p, runtime, id, c, thread)
    BY <1>2, ContinueShape
  <2>2. UNCHANGED began
    BY <1>2 DEF Continues
  <2>3. QED
    BY <2>1, <2>2 DEF ContinuesWith, Insert, Accounted
<1>3. CASE Settles
  <2>1. \A s \in launching' \cup began' : row'[s] # "none"
    BY <1>3 DEF Settles, Accounted
  <2>2. ASSUME NEW s \in Ids, IsRollout(nid'[s])
        PROVE  OwnerOf(nid'[s]) \in Ids /\ row'[OwnerOf(nid'[s])] # "none"
    <3>1. CASE nid'[s] = nid[s]
      BY <1>3, <2>2, <3>1 DEF Settles, Accounted
    <3>2. CASE row[s] # "none" /\ nid'[s] = Rollout(s)
      <4>1. OwnerOf(Rollout(s)) = s
        BY BoundAssumption DEF OwnerOf, Rollout, Ids
      <4>2. QED
        BY <1>3, <3>2, <4>1 DEF Settles
    <3>3. QED
      BY <1>3, <3>1, <3>2 DEF Settles
  <2>3. QED
    BY <2>1, <2>2 DEF Accounted
<1>4. QED
  BY <1>1, <1>2, <1>3, StepShape

\* The links within a conversation stay such that the guard follows them.
LEMMA LinksKeptStep ==
    ASSUME TypeOK, Rooted, Accounted, LinksKept, [Next]_vars
    PROVE  LinksKept'
<1> USE DEF TypeOK, RowOK
<1>1. ASSUME NEW n \in Ids, Opens(n)
      PROVE  LinksKept'
  <2>1. PICK p \in 0..MaxSessions, runtime \in {"claude", "codex"}, id \in 0..(2 * MaxSessions),
             thread \in Threads : Insert(n, p, runtime, id, n, thread) /\ ~IsRollout(id)
    BY <1>1, OpenShape
  <2>2. row[n] = "none"
    BY <1>1, NextFree DEF Opens
  <2>3. QED
    BY <2>1, <2>2 DEF Insert, LinksKept
<1>2. ASSUME NEW n \in Ids, NEW p \in Ids, Continues(n, p)
      PROVE  LinksKept'
  <2>1. PICK runtime \in {"claude", "codex"}, id \in 0..(2 * MaxSessions), c \in Ids,
             thread \in Threads : ContinuesWith(n, p, runtime, id, c, thread)
    BY <1>2, ContinueShape
  <2>2. row[n] = "none" /\ row[p] # "none"
    BY <1>2, NextFree DEF Continues, Resumable, Exists
  <2>3. QED
    BY <2>1, <2>2 DEF ContinuesWith, Insert, LinksKept
<1>3. CASE Settles
  BY <1>3 DEF Settles, LinksKept
<1>4. QED
  BY <1>1, <1>2, <1>3, StepShape

-----------------------------------------------------------------------------
\* An insert adds its row to one conversation and leaves the others alone.
LEMMA InsertRows ==
    ASSUME TypeOK, NEW n \in Ids, row[n] = "none",
           NEW p, NEW runtime, NEW id, NEW c, NEW thread,
           Insert(n, p, runtime, id, c, thread)
    PROVE  /\ Rows(c)' = Rows(c) \cup {n}
           /\ \A d \in Ids : d # c => Rows(d)' = Rows(d)
           /\ \A d \in Ids : n \notin Rows(d)
           /\ \A s \in Ids : s # n => /\ par'[s] = par[s] /\ rt'[s] = rt[s]
                                      /\ row'[s] = row[s] /\ conv'[s] = conv[s]
           /\ par'[n] = p /\ rt'[n] = runtime /\ conv'[n] = c /\ row'[n] = "pending"
  BY DEF TypeOK, RowOK, Insert, Rows

\* A conversation without the new row keeps its shape.
LEMMA OthersConnected ==
    ASSUME TypeOK, Rooted, LinksKept, Connected, NEW n \in Ids, row[n] = "none",
           NEW p, NEW runtime, NEW id, NEW c, NEW thread,
           Insert(n, p, runtime, id, c, thread),
           NEW s \in Ids, row'[s] # "none", conv'[s] # c, Unbroken(conv[s])',
           NEW F \in SUBSET Ids
    PROVE  /\ (s \in F /\ ClosedUp(F, conv[s])') => conv'[s] \in F
           /\ (conv'[s] \in F /\ ClosedDown(F, conv[s])') => s \in F
<1> DEFINE d == conv[s]
<1>1. s # n /\ row[s] # "none" /\ conv'[s] = conv[s] /\ d \in Ids /\ d # c
  BY InsertRows DEF Rooted
<1>2. Rows(d)' = Rows(d) /\ n \notin Rows(d)
  BY <1>1, InsertRows
<1>3. \A x \in Rows(d) : x \in Ids /\ x # n
  BY <1>2 DEF Rows
<1>4. \A x \in Rows(d) : par'[x] = par[x] /\ rt'[x] = rt[x] /\ row'[x] = row[x]
  BY <1>3, InsertRows
<1>5. Unbroken(d)
  <2>1. \A x \in Rows(d) : row[x] # "gone"
    BY <1>1, <1>2, <1>4 DEF Unbroken
  <2>2. ASSUME NEW x \in Rows(d), x # d, rt[x] = "codex", rt[par[x]] = "codex"
        PROVE  FALSE
    <3>1. par[x] \in Ids /\ par[x] # n
      BY <1>3, <2>2 DEF LinksKept, Rows
    <3>2. rt'[par[x]] = rt[par[x]] /\ x \in Rows(d)' /\ par'[x] = par[x] /\ rt'[x] = rt[x]
      BY <1>2, <1>4, <3>1, InsertRows
    <3>3. Unbroken(d)'
      BY <1>1
    <3>4. QED
      BY <1>1, <2>2, <3>2, <3>3 DEF Unbroken
  <2>3. QED
    BY <2>1, <2>2 DEF Unbroken
<1>6. QED
  BY <1>1, <1>2, <1>4, <1>5 DEF ClosedUp, ClosedDown, Connected

\* Conversations go on hanging together.
LEMMA ConnectedStep ==
    ASSUME TypeOK, Rooted, Accounted, LinksKept, Connected, [Next]_vars
    PROVE  Connected'
<1> DEFINE Holds(s, F) ==
              /\ (s \in F /\ ClosedUp(F, conv[s])') => conv'[s] \in F
              /\ (conv'[s] \in F /\ ClosedDown(F, conv[s])') => s \in F
<1>1. ASSUME NEW n \in Ids, Opens(n),
             NEW s \in Ids, NEW F \in SUBSET Ids, row'[s] # "none", Unbroken(conv[s])'
      PROVE  Holds(s, F)
  <2>1. PICK p \in 0..MaxSessions, runtime \in {"claude", "codex"}, id \in 0..(2 * MaxSessions),
             thread \in Threads : Insert(n, p, runtime, id, n, thread) /\ ~IsRollout(id)
    BY <1>1, OpenShape
  <2>2. row[n] = "none"
    BY <1>1, NextFree DEF Opens
  <2>3. CASE conv'[s] # n
    BY <1>1, <2>1, <2>2, <2>3, OthersConnected
  <2>4. CASE conv'[s] = n
    <3>1. s = n
      BY <1>1, <2>1, <2>2, <2>4, InsertRows DEF Rooted
    <3>2. QED
      BY <2>4, <3>1
  <2>5. QED
    BY <2>3, <2>4
<1>2. ASSUME NEW n \in Ids, NEW p \in Ids, Continues(n, p),
             NEW s \in Ids, NEW F \in SUBSET Ids, row'[s] # "none", Unbroken(conv[s])'
      PROVE  Holds(s, F)
  <2>1. PICK runtime \in {"claude", "codex"}, id \in 0..(2 * MaxSessions), c \in Ids,
             thread \in Threads : ContinuesWith(n, p, runtime, id, c, thread)
    BY <1>2, ContinueShape
  <2>2. row[n] = "none" /\ row[p] # "none" /\ p # n
    BY <1>2, NextFree DEF Continues, Resumable, Exists
  <2>3. Insert(n, p, runtime, id, c, thread) /\ row[c] # "none" /\ conv[c] = c /\ c # n
    BY <2>1, <2>2 DEF ContinuesWith
  <2>4. CASE conv'[s] # c
    BY <1>2, <2>2, <2>3, <2>4, OthersConnected
  <2>5. CASE conv'[s] = c
    <3>1. /\ Rows(c)' = Rows(c) \cup {n} /\ n \notin Rows(c)
          /\ par'[n] = p /\ rt'[n] = runtime /\ rt'[p] = rt[p]
          /\ \A x \in Rows(c) : par'[x] = par[x] /\ rt'[x] = rt[x] /\ row'[x] = row[x]
      BY <2>2, <2>3, InsertRows DEF Rows
    <3>2. Unbroken(c)'
      BY <1>2, <2>5
    <3>3. c = conv[p] /\ p \in Rows(c)
      BY <2>1, <2>2, <2>3, <3>1, <3>2 DEF ContinuesWith, Unbroken, Rows
    <3>4. Unbroken(c)
      <4>1. \A x \in Rows(c) : row[x] # "gone"
        BY <3>1, <3>2 DEF Unbroken
      <4>2. ASSUME NEW x \in Rows(c), x # c, rt[x] = "codex", rt[par[x]] = "codex"
            PROVE  FALSE
        <5>1. par[x] \in Ids /\ par[x] # n
          BY <2>2, <4>2 DEF LinksKept, Rows
        <5>2. rt'[par[x]] = rt[par[x]]
          BY <2>2, <2>3, <5>1, InsertRows
        <5>3. QED
          BY <3>1, <3>2, <4>2, <5>2 DEF Unbroken
      <4>3. QED
        BY <4>1, <4>2 DEF Unbroken
    <3>5. ClosedUp(F, c)' => ClosedUp(F, c) /\ (n \in F => p \in F)
      BY <3>1, <3>3 DEF ClosedUp
    <3>6. ClosedDown(F, c)' => ClosedDown(F, c) /\ (p \in F => n \in F)
      BY <3>1, <3>3 DEF ClosedDown
    <3>7. \A x \in Rows(c) : /\ (x \in F /\ ClosedUp(F, c)) => c \in F
                             /\ (c \in F /\ ClosedDown(F, c)) => x \in F
      BY <3>4 DEF Connected, Rows
    <3>8. s \in Rows(c) \/ s = n
      BY <1>2, <2>5, <3>1 DEF Rows
    <3>9. ClosedUp(F, conv[s])' = ClosedUp(F, c)' /\ ClosedDown(F, conv[s])' = ClosedDown(F, c)'
      BY <2>5
    <3>10. QED
      BY <2>5, <3>3, <3>5, <3>6, <3>7, <3>8, <3>9
  <2>6. QED
    BY <2>4, <2>5
<1>3. ASSUME Settles, NEW s \in Ids, NEW F \in SUBSET Ids, row'[s] # "none", Unbroken(conv[s])'
      PROVE  Holds(s, F)
  <2>1. UNCHANGED <<rt, conv>> /\ row[s] # "none" /\ conv[s] \in Ids
    BY <1>3 DEF Settles, Rooted
  <2>2. Rows(conv[s])' = Rows(conv[s])
    BY <1>3, <2>1 DEF Settles, Rows
  <2>3. \A x \in Rows(conv[s]) :
            \/ par'[x] = par[x]
            \/ x = conv[s] /\ par[x] \notin Rows(conv[s]) /\ par'[x] \notin Rows(conv[s])
    <3>1. \A x \in Ids : \/ par'[x] = par[x]
                          \/ /\ par[x] = 0 /\ conv[x] = x
                             /\ par'[x] \in Ids /\ conv[par'[x]] # x
      BY <1>3 DEF Settles
    <3>2. 0 \notin Ids
      BY BoundAssumption DEF Ids
    <3>3. QED
      BY <3>1, <3>2 DEF Rows
  <2>4. Unbroken(conv[s])
    BY <1>3, <2>1, <2>2, <2>3 DEF Settles, Unbroken, Rows
  <2>5. ClosedUp(F, conv[s])' => ClosedUp(F, conv[s])
    BY <2>1, <2>2, <2>3 DEF ClosedUp
  <2>6. ClosedDown(F, conv[s])' => ClosedDown(F, conv[s])
    BY <2>1, <2>2, <2>3 DEF ClosedDown
  <2>7. QED
    BY <2>1, <2>4, <2>5, <2>6 DEF Connected
<1>4. ASSUME NEW s \in Ids, NEW F \in SUBSET Ids, row'[s] # "none", Unbroken(conv[s])'
      PROVE  Holds(s, F)
  BY <1>1, <1>2, <1>3, <1>4, StepShape
<1>5. QED
  BY <1>4 DEF Connected

-----------------------------------------------------------------------------
\* Reach holds its start, and whatever a closed set containing it must hold.
LEMMA ReachLeast ==
    ASSUME NEW start, NEW edges, NEW x \in Ids,
           \A F \in SUBSET Ids :
               (start \subseteq F /\ \A e \in edges : e[1] \in F => e[2] \in F) => x \in F
    PROVE  x \in Reach(start, edges)
  BY DEF Reach

\* Within an unbroken conversation the guard's links are the conversation's.
LEMMA LinksFollowed ==
    ASSUME TypeOK, LinksKept, NEW c \in Ids, Unbroken(c),
           NEW x \in Rows(c), par[x] \in Rows(c), x # c
    PROVE  <<x, par[x]>> \in Up /\ <<par[x], x>> \in Down
<1>1. x \in Ids /\ par[x] \in Ids /\ Exists(x) /\ Exists(par[x])
  BY DEF Rows, Unbroken, Exists
<1>2. ~(rt[x] = "codex" /\ rt[par[x]] = "codex")
  BY DEF Unbroken
<1>3. rt[x] = rt[par[x]] => nid[x] = nid[par[x]] \/ nid[par[x]] = 0
  BY <1>1, <1>2 DEF LinksKept, Rows
<1>4. ResumeEdge(x, par[x])
  BY <1>1, <1>3 DEF ResumeEdge
<1>5. QED
  BY <1>1, <1>4 DEF Up, Down

\* The family of a row holds every row of its unbroken conversation.
LEMMA FamilyHolds ==
    ASSUME TypeOK, Rooted, LinksKept, Connected,
           NEW p \in Ids, NEW s \in Ids, row[p] # "none", row[s] # "none",
           conv[s] = conv[p], Unbroken(conv[p])
    PROVE  s \in Family(p)
<1> DEFINE c == conv[p]
<1>1. c \in Ids /\ p \in Rows(c) /\ s \in Rows(c) /\ Unbroken(c)
  BY DEF Rooted, Rows
<1>2. ASSUME NEW F \in SUBSET Ids, {p} \subseteq F, \A e \in Up : e[1] \in F => e[2] \in F
      PROVE  c \in F
  <2>1. CASE c \in F
    BY <2>1
  <2>2. CASE c \notin F
    <3>1. ASSUME NEW x \in Rows(c), par[x] \in Rows(c), x \in F
          PROVE  par[x] \in F
      <4>1. x # c
        BY <2>2, <3>1
      <4>2. <<x, par[x]>> \in Up
        BY <1>1, <3>1, <4>1, LinksFollowed
      <4>3. QED
        BY <1>2, <3>1, <4>2
    <3>2. ClosedUp(F, c)
      BY <3>1 DEF ClosedUp
    <3>3. QED
      BY <1>1, <1>2, <3>2 DEF Connected
  <2>3. QED
    BY <2>1, <2>2
<1>3. c \in Ancestors(p)
  BY <1>1, <1>2, ReachLeast DEF Ancestors
<1>4. ASSUME NEW F \in SUBSET Ids, Ancestors(p) \subseteq F, \A e \in Down : e[1] \in F => e[2] \in F
      PROVE  s \in F
  <2>1. c \in F
    BY <1>3, <1>4
  <2>2. ASSUME NEW x \in Rows(c), par[x] \in Rows(c), par[x] \in F
        PROVE  x \in F
    <3>1. CASE x = c
      BY <2>1, <3>1
    <3>2. CASE x # c
      <4>1. <<par[x], x>> \in Down
        BY <1>1, <2>2, <3>2, LinksFollowed
      <4>2. QED
        BY <1>4, <2>2, <4>1
    <3>3. QED
      BY <3>1, <3>2
  <2>3. ClosedDown(F, c)
    BY <2>2 DEF ClosedDown
  <2>4. QED
    BY <1>1, <2>1, <2>3 DEF Connected
<1>5. QED
  BY <1>4, ReachLeast DEF Family

\* So the guard sees an active row wherever it stands in the conversation.
LEMMA GuardSees ==
    ASSUME TypeOK, Rooted, LinksKept, Connected
    PROVE  ConflictSeen
<1> SUFFICES ASSUME NEW p \in Ids, NEW s \in Ids,
                    row[p] \notin {"none"} \cup Active, row[s] \in Active,
                    conv[p] = conv[s], Unbroken(conv[p])
             PROVE  Blocked(p)
  BY DEF ConflictSeen
<1>1. row[p] # "none" /\ row[s] # "none"
  BY DEF Active
<1>2. s \in Family(p)
  BY <1>1, FamilyHolds
<1>3. QED
  BY <1>2 DEF Blocked, Related

-----------------------------------------------------------------------------
\* A step leaves at most one row of a conversation active, revived ones apart.
LEMMA OneActiveStep ==
    ASSUME TypeOK, Rooted, Accounted, ConflictSeen, LinksKept, OneActivePerConversation,
           [Next]_vars
    PROVE  OneActivePerConversation'
<1> SUFFICES ASSUME NEW s \in Ids, NEW t \in Ids, s # t,
                    row'[s] \in Active, row'[t] \in Active,
                    conv'[s] = conv'[t], Unbroken(conv[s])'
             PROVE  s \in revived' \/ t \in revived'
  BY DEF OneActivePerConversation
<1>1. ASSUME NEW n \in Ids, NEW p, NEW runtime, NEW id, NEW c \in Ids, NEW thread,
             Insert(n, p, runtime, id, c, thread), row[n] = "none"
      PROVE  /\ \A x \in Ids : x # n => row'[x] = row[x] /\ conv'[x] = conv[x]
             /\ conv'[n] = c
             /\ s # n /\ t # n => Unbroken(conv[s])
  <2>1. \A x \in Ids : x # n => row'[x] = row[x] /\ conv'[x] = conv[x] /\ rt'[x] = rt[x] /\ par'[x] = par[x]
    BY <1>1, InsertRows
  <2>2. conv'[n] = c
    BY <1>1, InsertRows
  <2>3. ASSUME s # n, t # n
        PROVE  Unbroken(conv[s])
    <3>1. conv'[s] = conv[s] /\ conv[s] \in Ids /\ row[s] # "none"
      BY <2>1, <2>3 DEF Rooted, Active
    <3>2. ASSUME NEW x \in Rows(conv[s])
          PROVE  /\ x \in Rows(conv[s])' /\ x # n /\ row'[x] = row[x]
                 /\ rt'[x] = rt[x] /\ par'[x] = par[x]
      BY <1>1, <2>1, <3>1, <3>2 DEF Rows
    <3>3. ASSUME NEW x \in Rows(conv[s]), x # conv[s]
          PROVE  par[x] \in Ids /\ rt'[par[x]] = rt[par[x]]
      BY <1>1, <2>1, <3>2, <3>3 DEF LinksKept, Rows
    <3>4. QED
      BY <3>1, <3>2, <3>3 DEF Unbroken
  <2>4. QED
    BY <2>1, <2>2, <2>3
<1>2. ASSUME NEW n \in Ids, Opens(n)
      PROVE  s \in revived' \/ t \in revived'
  <2>1. PICK p \in 0..MaxSessions, runtime \in {"claude", "codex"}, id \in 0..(2 * MaxSessions),
             thread \in Threads : Insert(n, p, runtime, id, n, thread) /\ ~IsRollout(id)
    BY <1>2, OpenShape
  <2>2. row[n] = "none" /\ revived' = revived
    BY <1>2, NextFree DEF Opens
  <2>3. s # n /\ t # n
    BY <1>1, <2>1, <2>2 DEF Rooted, Active
  <2>4. QED
    BY <1>1, <2>1, <2>2, <2>3 DEF OneActivePerConversation
<1>3. ASSUME NEW n \in Ids, NEW p \in Ids, Continues(n, p)
      PROVE  s \in revived' \/ t \in revived'
  <2>1. PICK runtime \in {"claude", "codex"}, id \in 0..(2 * MaxSessions), c \in Ids,
             thread \in Threads : ContinuesWith(n, p, runtime, id, c, thread)
    BY <1>3, ContinueShape
  <2>2. row[n] = "none" /\ revived' = revived /\ Resumable(p) /\ row[p] # "none" /\ p # n
    BY <1>3, NextFree DEF Continues, Resumable, Exists
  <2>3. Insert(n, p, runtime, id, c, thread)
    BY <2>1 DEF ContinuesWith
  <2>4. CASE s # n /\ t # n
    BY <1>1, <2>2, <2>3, <2>4 DEF OneActivePerConversation
  <2>5. ASSUME NEW u \in Ids, u # n, row'[u] \in Active, conv'[u] = c, Unbroken(c)'
        PROVE  FALSE
    <3>1. /\ row[u] \in Active /\ conv[u] = c /\ n \in Rows(c)' /\ n # c
          /\ par'[n] = p /\ rt'[n] = runtime /\ rt'[p] = rt[p]
      BY <2>1, <2>2, <2>3, <2>5, InsertRows DEF ContinuesWith
    <3>2. c = conv[p]
      BY <2>1, <2>5, <3>1 DEF ContinuesWith, Unbroken
    <3>3. Unbroken(c)
      <4>1. ASSUME NEW x \in Rows(c)
            PROVE  /\ x \in Rows(c)' /\ x # n /\ x \in Ids /\ row'[x] = row[x]
                   /\ rt'[x] = rt[x] /\ par'[x] = par[x]
        BY <2>2, <2>3, <4>1, InsertRows DEF Rows
      <4>2. ASSUME NEW x \in Rows(c), x # c
            PROVE  par[x] \in Ids /\ rt'[par[x]] = rt[par[x]]
        BY <2>2, <2>3, <4>2, InsertRows DEF LinksKept, Rows
      <4>3. QED
        BY <2>5, <4>1, <4>2 DEF Unbroken
    <3>4. row[p] \notin {"none"} \cup Active /\ ~Blocked(p)
      BY <2>2 DEF Resumable, Exists
    <3>5. QED
      BY <2>5, <3>1, <3>2, <3>3, <3>4 DEF ConflictSeen
  <2>6. conv'[n] = c
    BY <1>1, <2>2, <2>3
  <2>7. CASE s = n
    BY <2>5, <2>6, <2>7
  <2>8. CASE t = n
    BY <2>5, <2>6, <2>8
  <2>9. QED
    BY <2>4, <2>7, <2>8
<1>4. CASE Settles
  <2>1. /\ UNCHANGED <<rt, conv>> /\ revived \subseteq revived'
        /\ \A x \in Ids : conv[x] # x => par'[x] = par[x]
        /\ \A x \in Ids : /\ row'[x] = "none" <=> row[x] = "none"
                          /\ row[x] = "gone" => row'[x] = "gone"
                          /\ row'[x] \in Active => row[x] \in Active \/ x \in revived'
    BY <1>4 DEF Settles
  <2>2. conv[s] \in Ids /\ \A x \in Rows(conv[s]) : x # conv[s] => conv[x] # x
    BY <2>1 DEF Rooted, Rows, Active
  <2>3. Unbroken(conv[s])
    BY <2>1, <2>2 DEF Unbroken, Rows
  <2>4. QED
    BY <2>1, <2>3 DEF OneActivePerConversation
<1>5. QED
  BY <1>2, <1>3, <1>4, StepShape

-----------------------------------------------------------------------------
\* An insert keeps the rows in their types.
LEMMA InsertTypes ==
    ASSUME TypeOK, NEW n \in Ids, NEW p \in 0..MaxSessions, NEW runtime \in {"claude", "codex"},
           NEW id \in 0..(2 * MaxSessions), NEW c \in Ids, NEW thread \in Threads,
           Insert(n, p, runtime, id, c, thread), UNCHANGED <<began, revived>>
    PROVE  RowOK' /\ RunOK'
<1>1. c \in 0..MaxSessions /\ "pending" \in Status
  BY BoundAssumption DEF Ids, Status, Active
<1>2. QED
  BY <1>1 DEF Insert, TypeOK, RowOK, RunOK

\* Every step keeps the rows in their types.
LEMMA RowTypeStep ==
    ASSUME TypeOK, Rooted, Accounted, LinksKept, [Next]_vars
    PROVE  RowOK' /\ RunOK'
<1>1. ASSUME NEW n \in Ids, Opens(n)
      PROVE  RowOK' /\ RunOK'
  <2>1. UNCHANGED <<began, revived>>
    BY <1>1 DEF Opens
  <2>2. QED
    BY <1>1, <2>1, OpenShape, InsertTypes
<1>2. ASSUME NEW n \in Ids, NEW p \in Ids, Continues(n, p)
      PROVE  RowOK' /\ RunOK'
  <2>1. UNCHANGED <<began, revived>>
    BY <1>2 DEF Continues
  <2>2. p \in 0..MaxSessions
    BY BoundAssumption DEF Ids
  <2>3. PICK runtime \in {"claude", "codex"}, id \in 0..(2 * MaxSessions), c \in Ids,
             thread \in Threads : ContinuesWith(n, p, runtime, id, c, thread)
    BY <1>2, ContinueShape
  <2>4. Insert(n, p, runtime, id, c, thread)
    BY <2>3 DEF ContinuesWith
  <2>5. QED
    BY <2>1, <2>2, <2>4, InsertTypes
<1>3. CASE Settles
  BY <1>3 DEF Settles, TypeOK, RowOK, RunOK
<1>4. QED
  BY <1>1, <1>2, <1>3, StepShape

\* Every step keeps the follow-ups and the sweep in their types.
LEMMA FollowupTypeStep ==
    ASSUME TypeOK, [Next]_vars
    PROVE  FollowupOK'
<1> USE DEF TypeOK, FollowupOK
<1>1. CASE UNCHANGED <<fup, sweep>>
  BY <1>1
<1>2. ASSUME NEW f \in Followups, NEW p \in Ids, Enqueue(f, p)
      PROVE  FollowupOK'
  <2>1. p \in 0..MaxSessions
    BY BoundAssumption DEF Ids
  <2>2. QED
    BY <1>2, <2>1 DEF Enqueue
<1>3. ASSUME NEW f \in Followups, Cancel(f)
      PROVE  FollowupOK'
  BY <1>3 DEF Cancel
<1>4. ASSUME NEW f \in Followups, SweepTurn(f)
      PROVE  FollowupOK'
  <2>1. CASE sweep' = [sweep EXCEPT !.left = @ \ {f}] /\ UNCHANGED fup
    BY <2>1
  <2>2. f \in sweep.left
    BY <1>4 DEF SweepTurn, SweepNext
  <2>3. ASSUME NEW st \in {"failed", "dispatched"}, fup' = [fup EXCEPT ![f].status = st],
               sweep'.left = sweep.left \ {f},
               sweep' \in [on : BOOLEAN, left : SUBSET Followups, known : SUBSET Ids,
                          ready : SUBSET Ids, handled : SUBSET Ids]
        PROVE  FollowupOK'
    <3>1. fup' \in [Followups -> [parent : 0..MaxSessions,
                      status : {"none", "pending", "dispatched", "failed", "canceled"}]]
      BY <2>3
    <3>2. \A g \in Followups : /\ fup'[g].parent = fup[g].parent
                               /\ g # f => fup'[g].status = fup[g].status
      BY <2>3
    <3>3. fup[f].status # "none" /\ sweep.left \subseteq Followups
      BY <2>2
    <3>4. QED
      BY <2>3, <3>1, <3>2, <3>3
  <2>4. CASE Close(f, "failed", FALSE)
    <3>1. /\ fup' = [fup EXCEPT ![f].status = "failed"]
          /\ sweep' = [sweep EXCEPT !.left = @ \ {f}]
      BY <2>4 DEF Close
    <3>2. sweep.left \ {f} \subseteq Followups
      OBVIOUS
    <3>3. QED
      BY <2>3, <3>1, <3>2
  <2>5. CASE fup[f].parent \in sweep.ready /\ Close(f, "dispatched", TRUE)
    <3>1. /\ fup' = [fup EXCEPT ![f].status = "dispatched"]
          /\ sweep' = [sweep EXCEPT !.left = @ \ {f}, !.handled = @ \cup {fup[f].parent}]
      BY <2>5 DEF Close
    <3>2. sweep.handled \cup {fup[f].parent} \subseteq Ids /\ sweep.left \ {f} \subseteq Followups
      BY <2>2, <2>5
    <3>3. QED
      BY <2>3, <3>1, <3>2
  <2>6. QED
    BY <1>4, <2>1, <2>4, <2>5 DEF SweepTurn
<1>5. CASE SweepBegin
  <2>1. {p \in Parents : Exists(p)} \subseteq Ids /\ {p \in Parents : row[p] \in Ended} \subseteq Ids
    <3>1. \A f \in Pending : f \in Followups /\ fup[f].parent \in Ids
      BY DEF Pending
    <3>2. Parents \subseteq Ids
      BY <3>1 DEF Parents
    <3>3. QED
      BY <3>2
  <2>2. Pending \subseteq Followups /\ \A f \in Pending : fup[f].status # "none"
    BY DEF Pending
  <2>3. /\ sweep' = [on |-> TRUE, left |-> Pending, known |-> {p \in Parents : Exists(p)},
                     ready |-> {p \in Parents : row[p] \in Ended}, handled |-> {}]
        /\ fup' = fup
    BY <1>5 DEF SweepBegin
  <2>4. QED
    BY <2>1, <2>2, <2>3
<1>6. CASE SweepEnd
  BY <1>6 DEF SweepEnd
<1>7. ASSUME NEW s \in Ids, Start(s) \/ StartFails(s) \/ Exit(s) \/ Kill(s)
                            \/ Remove(s, "deleted") \/ Remove(s, "gone")
      PROVE  UNCHANGED <<fup, sweep>>
  BY <1>7 DEF Start, StartFails, Exit, Kill, Remove
<1>8. CASE UNCHANGED vars
  BY <1>8 DEF vars
<1>9. CASE NextSession
  BY <1>1, <1>9 DEF NextSession, Dispatch, Resume, Fork, OpenCompanion
<1>10. CASE NextLink
  BY <1>1, <1>10 DEF NextLink, MintThreads, Gather
<1>11. QED
  BY <1>1, <1>2, <1>3, <1>4, <1>5, <1>6, <1>7, <1>8, <1>9, <1>10 DEF Next, NextRow, NextFollowup

\* The whole invariant, and the theorems it carries.
ResumeInv == TypeOK /\ LineageInv /\ OneActivePerConversation

LEMMA ResumeInit == Init => ResumeInv
<1> SUFFICES ASSUME Init PROVE ResumeInv
  OBVIOUS
<1> USE BoundAssumption DEF Init
<1>1. TypeOK
  <2>1. RowOK
    <3>1. row \in [Ids -> Status]
      BY DEF Status
    <3>2. rt \in [Ids -> {"claude", "codex"}]
      OBVIOUS
    <3>3. /\ par \in [Ids -> 0..MaxSessions] /\ conv \in [Ids -> 0..MaxSessions]
          /\ tid \in [Ids -> Threads] /\ nid \in [Ids -> 0..(2 * MaxSessions)]
      BY DEF Threads
    <3>4. QED
      BY <3>1, <3>2, <3>3 DEF RowOK
  <2>2. RunOK
    BY DEF RunOK
  <2>3. FollowupOK
    BY DEF FollowupOK
  <2>4. QED
    BY <2>1, <2>2, <2>3 DEF TypeOK
<1>2. \A s \in Ids : row[s] = "none" /\ nid[s] = 0
  OBVIOUS
<1>3. Rooted /\ LinksKept /\ Connected /\ OneActivePerConversation
  BY <1>2 DEF Rooted, LinksKept, Connected, OneActivePerConversation, Active
<1>4. Accounted
  BY <1>2 DEF Accounted, IsRollout
<1>5. QED
  BY <1>1, <1>3, <1>4 DEF ResumeInv, LineageInv

LEMMA ResumeStep == ResumeInv /\ [Next]_vars => ResumeInv'
<1> SUFFICES ASSUME ResumeInv, [Next]_vars PROVE ResumeInv'
  OBVIOUS
<1> USE DEF ResumeInv, LineageInv
<1>1. TypeOK'
  BY RowTypeStep, FollowupTypeStep DEF TypeOK
<1>2. Rooted' /\ Accounted' /\ LinksKept' /\ Connected'
  BY RootedStep, AccountedStep, LinksKeptStep, ConnectedStep
<1>3. OneActivePerConversation'
  BY GuardSees, OneActiveStep
<1>4. QED
  BY <1>1, <1>2, <1>3

\* The types, for every number of rows and follow-ups.
THEOREM ResumeTypes == Spec => []TypeOK
<1>1. ResumeInv => TypeOK
  BY DEF ResumeInv
<1>2. QED
  BY ResumeInit, ResumeStep, <1>1, PTL DEF Spec

\* assertResumeAvailable misses no active row of an unbroken conversation,
\* whatever resumes, forks and changes of runtime lie between the two rows.
THEOREM GuardComplete == Spec => []ConflictSeen
<1>1. ResumeInv => ConflictSeen
  BY GuardSees DEF ResumeInv, LineageInv
<1>2. QED
  BY ResumeInit, ResumeStep, <1>1, PTL DEF Spec

\* No resume, fork, restore or follow-up makes a second row of an unbroken
\* conversation active: only a launch that outlived a kill does.
THEOREM SoleAgent == Spec => []OneActivePerConversation
<1>1. ResumeInv => OneActivePerConversation
  BY DEF ResumeInv
<1>2. QED
  BY ResumeInit, ResumeStep, <1>1, PTL DEF Spec

-----------------------------------------------------------------------------
\* A claude row's recorded id is the one given to a row of its conversation,
\* so two rows that share it share the conversation; only a companion has none.
\* And a claude row that continues a claude row continues its conversation.
Named ==
    \A s \in Ids : row[s] # "none" =>
        /\ rt[s] = "claude" =>
              \/ nid[s] = 0 /\ par[s] # 0 /\ conv[s] = s
              \/ nid[s] \in Ids /\ row[nid[s]] # "none" /\ conv[s] = conv[nid[s]]
        /\ par[s] # 0 =>
              /\ par[s] \in Ids /\ row[par[s]] # "none"
              /\ (rt[s] = "claude" /\ rt[par[s]] = "claude" /\ conv[s] # s)
                 => conv[s] = conv[par[s]]

\* An insert keeps it, if the new row has it.
LEMMA InsertNames ==
    ASSUME TypeOK, Named, NEW n \in Ids, row[n] = "none",
           NEW p, NEW runtime, NEW id, NEW c \in Ids, NEW thread \in Threads,
           Insert(n, p, runtime, id, c, thread),
           runtime = "claude" => \/ id = 0 /\ p # 0 /\ c = n
                                 \/ id \in Ids /\ row'[id] # "none" /\ c = conv'[id],
           p # 0 => /\ p \in Ids /\ row[p] # "none"
                    /\ (runtime = "claude" /\ rt[p] = "claude" /\ c # n) => c = conv[p]
    PROVE  Named'
<1> USE DEF TypeOK, RowOK
<1>1. \A s \in Ids : s # n => /\ par'[s] = par[s] /\ rt'[s] = rt[s] /\ nid'[s] = nid[s]
                              /\ row'[s] = row[s] /\ conv'[s] = conv[s]
  BY DEF Insert
<1>2. par'[n] = p /\ rt'[n] = runtime /\ nid'[n] = id /\ conv'[n] = c /\ row'[n] # "none"
  BY DEF Insert
<1>3. ASSUME NEW s \in Ids, row'[s] # "none", rt'[s] = "claude"
      PROVE  \/ nid'[s] = 0 /\ par'[s] # 0 /\ conv'[s] = s
             \/ nid'[s] \in Ids /\ row'[nid'[s]] # "none" /\ conv'[s] = conv'[nid'[s]]
  <2>1. CASE s = n
    BY <1>2, <1>3, <2>1
  <2>2. CASE s # n
    <3>1. \/ nid[s] = 0 /\ par[s] # 0 /\ conv[s] = s
          \/ nid[s] \in Ids /\ row[nid[s]] # "none" /\ conv[s] = conv[nid[s]]
      BY <1>1, <1>3, <2>2 DEF Named
    <3>2. QED
      BY <1>1, <2>2, <3>1
  <2>3. QED
    BY <2>1, <2>2
<1>4. ASSUME NEW s \in Ids, row'[s] # "none", par'[s] # 0
      PROVE  /\ par'[s] \in Ids /\ row'[par'[s]] # "none"
             /\ (rt'[s] = "claude" /\ rt'[par'[s]] = "claude" /\ conv'[s] # s)
                => conv'[s] = conv'[par'[s]]
  <2>1. CASE s = n
    BY <1>1, <1>2, <1>4, <2>1
  <2>2. CASE s # n
    <3>1. /\ par[s] \in Ids /\ row[par[s]] # "none"
          /\ (rt[s] = "claude" /\ rt[par[s]] = "claude" /\ conv[s] # s)
             => conv[s] = conv[par[s]]
      BY <1>1, <1>4, <2>2 DEF Named
    <3>2. QED
      BY <1>1, <2>2, <3>1
  <2>3. QED
    BY <2>1, <2>2
<1>5. QED
  BY <1>3, <1>4 DEF Named

LEMMA NamedStep ==
    ASSUME TypeOK, Rooted, Accounted, LinksKept, Named, [Next]_vars
    PROVE  Named'
<1> USE DEF TypeOK, RowOK
<1>1. ASSUME NEW n \in Ids, Opens(n)
      PROVE  Named'
  <2>1. PICK p \in 0..MaxSessions, runtime \in {"claude", "codex"}, id \in {0, Uuid(n)},
             thread \in Threads : OpensWith(n, p, runtime, id, thread)
    BY <1>1 DEF Opens
  <2>2. row[n] = "none"
    BY <1>1, NextFree DEF Opens
  <2>3. Insert(n, p, runtime, id, n, thread) /\ row'[n] # "none" /\ conv'[n] = n
    BY <2>1 DEF OpensWith, Insert
  <2>4. id = 0 \/ (id \in Ids /\ row'[id] # "none" /\ n = conv'[id])
    BY <2>3 DEF Uuid
  <2>5. runtime = "claude" => \/ id = 0 /\ p # 0
                              \/ id \in Ids /\ row'[id] # "none" /\ n = conv'[id]
    BY <2>1, <2>4, BoundAssumption DEF OpensWith, Uuid, Ids
  <2>6. p # 0 => p \in Ids /\ row[p] # "none"
    BY <2>1, BoundAssumption DEF OpensWith, Ids
  <2>7. QED
    BY <2>2, <2>3, <2>5, <2>6, InsertNames
<1>2. ASSUME NEW n \in Ids, NEW p \in Ids, Continues(n, p)
      PROVE  Named'
  <2>1. PICK runtime \in {"claude", "codex"} : Continue(n, p, runtime)
    BY <1>2 DEF Continues
  <2>2. row[n] = "none" /\ row[p] # "none" /\ n # p /\ conv[p] \in Ids
    BY <1>2, NextFree DEF Continues, Resumable, Exists, Rooted
  <2>3. tid[p] \in Threads
    OBVIOUS
  <2>4. (rt[p] = "claude" /\ nid[p] # 0) =>
            nid[p] \in Ids /\ row[nid[p]] # "none" /\ conv[p] = conv[nid[p]]
    BY <2>2 DEF Named
  <2>5. CASE /\ runtime = "claude" /\ rt[p] = "claude" /\ nid[p] # 0
             /\ Insert(n, p, runtime, nid[p], conv[p], tid[p])
    <3>1. row'[nid[p]] # "none" /\ conv'[nid[p]] = conv[p]
      BY <2>2, <2>4, <2>5 DEF Insert
    <3>2. QED
      BY <2>2, <2>3, <2>4, <2>5, <3>1, InsertNames
  <2>6. ASSUME runtime = "codex", NEW x \in Rollouts(p) \ {0},
               Insert(n, p, runtime, x, conv[OwnerOf(x)], tid[p])
        PROVE  Named'
    <3>1. x \in 0..(2 * MaxSessions) /\ OwnerOf(x) \in Ids /\ row[OwnerOf(x)] # "none"
      BY RolloutOwned
    <3>2. conv[OwnerOf(x)] \in Ids
      BY <3>1 DEF Rooted
    <3>3. PICK id \in 0..(2 * MaxSessions), c \in Ids, thread \in Threads :
              Insert(n, p, runtime, id, c, thread)
      BY <2>3, <2>6, <3>1, <3>2, Zenon
    <3>4. runtime # "claude"
      BY <2>6
    <3>5. QED
      BY <2>2, <3>3, <3>4, InsertNames
  <2>7. CASE /\ runtime = "claude" /\ rt[p] # "claude"
             /\ Insert(n, p, runtime, Uuid(n), conv[p], tid[p])
    <3>1. row'[n] # "none" /\ conv'[n] = conv[p] /\ Uuid(n) = n
      BY <2>7 DEF Insert, Uuid
    <3>2. QED
      BY <2>2, <2>3, <2>7, <3>1, InsertNames
  <2>8. CASE runtime = "codex" /\ Insert(n, p, runtime, 0, conv[p], tid[p])
    BY <2>2, <2>3, <2>8, InsertNames
  <2>9. QED
    BY <2>1, <2>4, <2>5, <2>6, <2>7, <2>8 DEF Continue, Retold
<1>3. CASE Settles
  <2>1. ASSUME NEW s \in Ids, row'[s] # "none", rt'[s] = "claude"
        PROVE  \/ nid'[s] = 0 /\ par'[s] # 0 /\ conv'[s] = s
               \/ nid'[s] \in Ids /\ row'[nid'[s]] # "none" /\ conv'[s] = conv'[nid'[s]]
    <3>1. row[s] # "none" /\ rt[s] = "claude" /\ nid'[s] = nid[s] /\ conv'[s] = conv[s]
      BY <1>3, <2>1 DEF Settles
    <3>2. CASE nid[s] = 0 /\ par[s] # 0 /\ conv[s] = s
      BY <1>3, <3>1, <3>2 DEF Settles
    <3>3. CASE nid[s] \in Ids /\ row[nid[s]] # "none" /\ conv[s] = conv[nid[s]]
      BY <1>3, <3>1, <3>3 DEF Settles
    <3>4. QED
      BY <3>1, <3>2, <3>3 DEF Named
  <2>2. ASSUME NEW s \in Ids, row'[s] # "none", par'[s] # 0
        PROVE  /\ par'[s] \in Ids /\ row'[par'[s]] # "none"
               /\ (rt'[s] = "claude" /\ rt'[par'[s]] = "claude" /\ conv'[s] # s)
                  => conv'[s] = conv'[par'[s]]
    BY <1>3, <2>2 DEF Settles, Named
  <2>3. QED
    BY <2>1, <2>2 DEF Named
<1>4. QED
  BY <1>1, <1>2, <1>3, StepShape

\* Reach holds its start, is closed, and is held by every closed set.
LEMMA ReachClosed ==
    ASSUME NEW start \in SUBSET Ids, NEW edges \in SUBSET (Ids \X Ids)
    PROVE  /\ start \subseteq Reach(start, edges)
           /\ \A e \in edges : e[1] \in Reach(start, edges) => e[2] \in Reach(start, edges)
           /\ \A F \in SUBSET Ids :
                 (start \subseteq F /\ \A e \in edges : e[1] \in F => e[2] \in F)
                 => Reach(start, edges) \subseteq F
<1>1. \A e \in edges : e[1] \in Ids /\ e[2] \in Ids
  OBVIOUS
<1>2. QED
  BY <1>1 DEF Reach

\* Between claude rows that are not grafted the guard's query follows only
\* links within a conversation.
LEMMA EdgeWithin ==
    ASSUME TypeOK, Named, NEW x \in Ids, NEW y \in Ids, ResumeEdge(x, y),
           rt[x] = "claude", rt[y] = "claude", ~Grafted(x), ~Grafted(y)
    PROVE  conv[x] = conv[y]
<1>1. row[x] # "none" /\ row[y] # "none" /\ par[x] = y /\ y # 0
  BY BoundAssumption DEF ResumeEdge, Exists, Ids
<1>2. CASE conv[x] # x
  BY <1>1, <1>2 DEF Named
<1>3. CASE conv[x] = x
  <2>1. tid[x] = 0 /\ nid[x] # 0
    BY <1>1, <1>3 DEF Grafted
  <2>2. nid[y] # 0
    BY <1>1, BoundAssumption DEF Named, Grafted, Ids
  <2>3. conv[x] = conv[nid[x]] /\ conv[y] = conv[nid[y]]
    BY <1>1, <2>1, <2>2 DEF Named
  <2>4. nid[x] = nid[y]
    BY <2>1, <2>2 DEF ResumeEdge
  <2>5. QED
    BY <2>3, <2>4
<1>4. QED
  BY <1>2, <1>3

\* So a family of such rows is of one conversation.
LEMMA FamilyWithin ==
    ASSUME TypeOK, Named, NEW p \in Ids,
           \A s \in Family(p) : rt[s] = "claude" /\ ~Grafted(s)
    PROVE  p \in Family(p) /\ \A s \in Family(p) : conv[s] = conv[p]
<1> DEFINE G == {x \in Ancestors(p) : conv[x] = conv[p]}
           F == {x \in Family(p) : conv[x] = conv[p]}
<1>1. Ancestors(p) \subseteq Ids /\ Family(p) \subseteq Ids
  BY DEF Ancestors, Family, Reach
<1>2. Up \in SUBSET (Ids \X Ids) /\ Down \in SUBSET (Ids \X Ids)
  BY DEF Up, Down
<1>3. /\ p \in Ancestors(p)
      /\ \A e \in Up : e[1] \in Ancestors(p) => e[2] \in Ancestors(p)
      /\ \A H \in SUBSET Ids :
            (p \in H /\ \A e \in Up : e[1] \in H => e[2] \in H) => Ancestors(p) \subseteq H
  <2>1. {p} \in SUBSET Ids
    OBVIOUS
  <2>2. /\ {p} \subseteq Reach({p}, Up)
        /\ \A e \in Up : e[1] \in Reach({p}, Up) => e[2] \in Reach({p}, Up)
        /\ \A H \in SUBSET Ids :
              ({p} \subseteq H /\ \A e \in Up : e[1] \in H => e[2] \in H)
              => Reach({p}, Up) \subseteq H
    BY <1>2, <2>1, ReachClosed
  <2>3. QED
    BY <2>2 DEF Ancestors
<1>4. /\ Ancestors(p) \subseteq Family(p)
      /\ \A e \in Down : e[1] \in Family(p) => e[2] \in Family(p)
      /\ \A H \in SUBSET Ids :
            (Ancestors(p) \subseteq H /\ \A e \in Down : e[1] \in H => e[2] \in H)
            => Family(p) \subseteq H
  BY <1>1, <1>2, ReachClosed DEF Family
<1>5. ASSUME NEW e \in Up, e[1] \in G
      PROVE  e[2] \in G
  <2>1. ResumeEdge(e[1], e[2]) /\ e[1] \in Ids /\ e[2] \in Ids
    BY DEF Up
  <2>2. /\ e[2] \in Ancestors(p) /\ rt[e[1]] = "claude" /\ rt[e[2]] = "claude"
        /\ ~Grafted(e[1]) /\ ~Grafted(e[2])
    BY <1>3, <1>4, <1>5
  <2>3. QED
    BY <1>5, <2>1, <2>2, EdgeWithin
<1>6. Ancestors(p) \subseteq G
  BY <1>1, <1>3, <1>5
<1>7. ASSUME NEW e \in Down, e[1] \in F
      PROVE  e[2] \in F
  <2>1. ResumeEdge(e[2], e[1]) /\ e[1] \in Ids /\ e[2] \in Ids
    BY DEF Down
  <2>2. /\ e[2] \in Family(p) /\ rt[e[1]] = "claude" /\ rt[e[2]] = "claude"
        /\ ~Grafted(e[1]) /\ ~Grafted(e[2])
    BY <1>4, <1>7
  <2>3. QED
    BY <1>7, <2>1, <2>2, EdgeWithin
<1>8. Ancestors(p) \subseteq F
  BY <1>4, <1>6
<1>9. Family(p) \subseteq F
  BY <1>1, <1>4, <1>7, <1>8
<1>10. QED
  BY <1>3, <1>4, <1>9

LEMMA GuardSpares ==
    ASSUME TypeOK, Named
    PROVE  BlockedOnlyByOwn
<1> SUFFICES ASSUME NEW p \in Ids, Exists(p), Blocked(p),
                    \A s \in Family(p) : rt[s] = "claude" /\ ~Grafted(s)
             PROVE  \E s \in Ids : /\ row[s] \in Active
                                   /\ conv[s] = conv[p] \/ (tid[p] # 0 /\ tid[s] = tid[p])
  BY DEF BlockedOnlyByOwn
<1>1. PICK s \in Ids : row[s] \in Active /\ Related(p, s)
  BY DEF Blocked
<1>2. rt[p] = "claude" /\ (s \in Family(p) => conv[s] = conv[p])
  BY FamilyWithin
<1>3. CASE nid[p] # 0 /\ nid[s] = nid[p] /\ rt[s] = rt[p]
  <2>1. row[p] # "none" /\ row[s] # "none"
    BY <1>1 DEF Exists, Active
  <2>2. conv[s] = conv[nid[s]] /\ conv[p] = conv[nid[p]]
    BY <1>2, <1>3, <2>1 DEF Named
  <2>3. QED
    BY <1>1, <1>3, <2>2
<1>4. QED
  BY <1>1, <1>2, <1>3 DEF Related

\* Among claude sessions none of which is grafted, a resume is refused only for
\* the sake of its own conversation or thread: assertResumeAvailable takes
\* neither a fork that stands in no thread, nor the conversation it was forked
\* from, for the one being resumed.
THEOREM GuardPrecise == Spec => []BlockedOnlyByOwn
<1>1. Init => Named
  BY DEF Init, Named
<1>2. ResumeInv /\ Named /\ [Next]_vars => Named'
  BY NamedStep DEF ResumeInv, LineageInv
<1>3. ResumeInv /\ Named => BlockedOnlyByOwn
  BY GuardSpares DEF ResumeInv
<1>4. QED
  BY ResumeInit, ResumeStep, <1>1, <1>2, <1>3, PTL DEF Spec

-----------------------------------------------------------------------------
\* Follow-ups are numbered in the order they are queued, and a sweep that has
\* a later one before it has not let go of an earlier one it could serve.
QueueInv ==
    /\ \A f, g \in Followups : (f < g /\ fup[g].status # "none") => fup[f].status # "none"
    /\ FollowupsInOrder
    /\ sweep.on => \A f, g \in Followups :
          (/\ f < g /\ g \in sweep.left /\ fup[f].status = "pending"
           /\ fup[f].parent = fup[g].parent)
          => \/ f \in sweep.left
             \/ fup[f].parent \in sweep.handled
             \/ fup[f].parent \in sweep.known /\ fup[f].parent \notin sweep.ready

LEMMA QueueStep ==
    ASSUME TypeOK, QueueInv, [Next]_vars
    PROVE  QueueInv'
<1> USE DEF TypeOK, FollowupOK, QueueInv, FollowupsInOrder
<1>0. Followups \subseteq Nat
  BY BoundAssumption DEF Followups
<1>1. CASE UNCHANGED <<fup, sweep>>
  BY <1>1
<1>2. ASSUME NEW f \in Followups, NEW p \in Ids, Enqueue(f, p)
      PROVE  QueueInv'
  BY <1>0, <1>2 DEF Enqueue, MainIdle
<1>3. ASSUME NEW f \in Followups, Cancel(f)
      PROVE  QueueInv'
  BY <1>0, <1>3 DEF Cancel, MainIdle
<1>4. ASSUME NEW f \in Followups, SweepTurn(f)
      PROVE  QueueInv'
  <2>1. sweep.on /\ f \in sweep.left /\ \A g \in sweep.left : f <= g
    BY <1>4 DEF SweepTurn, SweepNext
  <2>2. CASE /\ \/ fup[f].parent \in sweep.handled
                \/ fup[f].parent \in sweep.known /\ fup[f].parent \notin sweep.ready
             /\ sweep' = [sweep EXCEPT !.left = @ \ {f}] /\ UNCHANGED fup
    BY <1>0, <2>1, <2>2
  <2>3. CASE Close(f, "failed", FALSE)
    BY <1>0, <2>1, <2>3 DEF Close
  <2>4. CASE fup[f].parent \in sweep.ready \ sweep.handled /\ Close(f, "dispatched", TRUE)
    BY <1>0, <2>1, <2>4 DEF Close
  <2>5. QED
    BY <1>4, <2>2, <2>3, <2>4 DEF SweepTurn
<1>5. CASE SweepBegin
  <2>1. fup' = fup /\ sweep'.left = Pending
    BY <1>5 DEF SweepBegin
  <2>2. QED
    BY <2>1 DEF Pending
<1>6. CASE SweepEnd
  BY <1>6 DEF SweepEnd
<1>7. ASSUME NEW s \in Ids, Start(s) \/ StartFails(s) \/ Exit(s) \/ Kill(s)
                            \/ Remove(s, "deleted") \/ Remove(s, "gone")
      PROVE  UNCHANGED <<fup, sweep>>
  BY <1>7 DEF Start, StartFails, Exit, Kill, Remove
<1>8. CASE NextSession
  BY <1>1, <1>8 DEF NextSession, Dispatch, Resume, Fork, OpenCompanion
<1>9. CASE UNCHANGED vars
  BY <1>1, <1>9 DEF vars
<1>10. CASE NextLink
  BY <1>1, <1>10 DEF NextLink, MintThreads, Gather
<1>11. QED
  BY <1>1, <1>2, <1>3, <1>4, <1>5, <1>6, <1>7, <1>8, <1>9, <1>10 DEF Next, NextRow, NextFollowup

\* dispatchPendingFollowups never serves a follow-up over the head of one that
\* was queued before it on the same session.
THEOREM QueueOrder == Spec => []FollowupsInOrder
<1>1. Init => QueueInv
  BY DEF Init, QueueInv, FollowupsInOrder
<1>2. TypeOK /\ QueueInv /\ [Next]_vars => QueueInv'
  BY QueueStep
<1>3. QueueInv => FollowupsInOrder
  BY DEF QueueInv
<1>4. QED
  BY ResumeTypes, <1>1, <1>2, <1>3, PTL DEF Spec
=============================================================================

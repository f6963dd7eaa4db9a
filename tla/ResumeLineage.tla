---------------------------- MODULE ResumeLineage ----------------------------
(***************************************************************************)
(* Who may continue a conversation.  A finished session is resumed, forked, *)
(* transferred, restored after a host restart, or continued by a queued     *)
(* follow-up; each inserts a new row whose parent is the old one.  The guard *)
(* is assertResumeAvailable (resume-conflicts.ts): a recursive query over    *)
(* the parent links that must see every active row of the conversation, and  *)
(* must not confuse it with the native forks taken from it.  The same links  *)
(* also lead from a companion terminal to the session it was opened for, and *)
(* from a powwow's participants to its moderator.                            *)
(*                                                                         *)
(* The handlers run on the main server's event loop and do not yield from   *)
(* the check to the insert; agents start and end in another process, which  *)
(* writes the same rows at any time.  Sessions are numbered in the order of *)
(* their rows' insertion.                                                   *)
(***************************************************************************)
EXTENDS Naturals, FiniteSets

CONSTANTS
    MaxSessions,      \* bound on the rows ever inserted
    MaxConversations, \* bound on those that open a conversation of their own
    MaxRemoved,       \* bound on those archived or deleted
    MaxFollowups,     \* bound on the follow-ups ever queued
    Runtimes,         \* the agent CLIs in use, a subset of {"claude", "codex"}
    CosThread         \* are sessions linked to CoS threads?

ASSUME BoundAssumption == /\ MaxSessions \in Nat /\ MaxConversations \in Nat
                          /\ MaxRemoved \in Nat /\ MaxFollowups \in Nat
ASSUME RuntimeAssumption == Runtimes \subseteq {"claude", "codex"} /\ CosThread \in BOOLEAN

Ids       == 1..MaxSessions
Followups == 1..MaxFollowups
Threads   == 0..MaxSessions   \* 0: none; named for the first row linked to it

VARIABLES
    row,        \* row[s]: status; "none" before the insert, "gone" after a delete
    par,        \* par[s]: parent_session_id, 0 if null
    rt,         \* rt[s]: runtime
    nid,        \* nid[s]: claude_session_id, 0 if null
    conv,       \* conv[s]: the conversation the agent really continues
    tid,        \* tid[s]: cos_thread_id, 0 if null
    launching,  \* rows whose launch is on its way to the session service
    began,      \* codex sessions that have run, and so wrote a rollout
    revived,    \* rows a late launch set running after they had ended
    fup,        \* fup[f]: [parent, status] of a session_followups row
    sweep       \* dispatchPendingFollowups: [on, left, known, ready, handled]

linkVars == <<par, rt, conv>>
rowVars  == <<row, nid, tid, linkVars>>
runVars  == <<launching, began, revived>>
vars == <<rowVars, runVars, fup, sweep>>

Active   == {"pending", "running"}
Ended    == {"exited", "killed"}   \* "completed" and "failed" are one here
Status   == {"none", "gone", "deleted"} \cup Active \cup Ended
Exists(s) == row[s] \notin {"none", "gone"}

\* ulid(): the UUID a claude row is given, and the id codex gives a rollout.
Uuid(s)    == s
Rollout(s) == MaxSessions + s
IsRollout(x) == x > MaxSessions
OwnerOf(x)   == x - MaxSessions

\* Only a companion terminal has a claude row without a conversation id.
IsCompanion(s) == row[s] # "none" /\ rt[s] = "claude" /\ nid[s] = 0

-----------------------------------------------------------------------------
(* assertResumeAvailable.                                                   *)

\* What WITH RECURSIVE ... UNION computes, the least set that holds `start` and
\* is closed under the pairs of `edges`: an edge leads out of any other.
Reach(start, edges) ==
    {x \in Ids : \A F \in SUBSET Ids :
        (start \subseteq F /\ x \notin F) => \E e \in edges : e[1] \in F /\ e[2] \notin F}

ResumeEdgePlain(c, p) == Exists(c) /\ Exists(p) /\ par[c] = p   \* mutant

\* A link child -> parent, unless it looks like a native fork's.
ResumeEdge(c, p) ==
    /\ Exists(c) /\ Exists(p) /\ par[c] = p
    /\ ~ /\ rt[c] = rt[p]
         /\ nid[c] # 0 /\ nid[p] # 0 /\ nid[c] # nid[p]
         /\ tid[c] = 0

Up   == {e \in Ids \X Ids : ResumeEdge(e[1], e[2])}
Down == {e \in Ids \X Ids : ResumeEdge(e[2], e[1])}

Ancestors(p) == Reach({p}, Up)
FamilyOfDescendants(p) == Reach({p}, Down)   \* mutant: no ancestors
Family(p)    == Reach(Ancestors(p), Down)

Related(p, s) ==
    \/ s \in Family(p)
    \/ tid[p] # 0 /\ tid[s] = tid[p]
    \/ nid[p] # 0 /\ nid[s] = nid[p] /\ rt[s] = rt[p]

\* Mutant: the reservation made by a pending row is not seen.
BlockedByRunning(p) == \E s \in Ids : row[s] = "running" /\ Related(p, s)

Blocked(p) == \E s \in Ids : row[s] \in Active /\ Related(p, s)

-----------------------------------------------------------------------------
Init ==
    /\ row = [s \in Ids |-> "none"] /\ par = [s \in Ids |-> 0]
    /\ rt = [s \in Ids |-> "claude"] /\ nid = [s \in Ids |-> 0]
    /\ conv = [s \in Ids |-> 0] /\ tid = [s \in Ids |-> 0]
    /\ launching = {} /\ began = {} /\ revived = {}
    /\ fup = [f \in Followups |-> [parent |-> 0, status |-> "none"]]
    /\ sweep = [on |-> FALSE, left |-> {}, known |-> {}, ready |-> {}, handled |-> {}]

Next0 == {s \in Ids : row[s] = "none" /\ \A t \in Ids : t < s => row[t] # "none"}

\* The insert of a pending row, and its launch (spawnLocal is not awaited).
Insert(n, p, runtime, id, c, thread) ==
    /\ row' = [row EXCEPT ![n] = "pending"]
    /\ par' = [par EXCEPT ![n] = p]
    /\ rt' = [rt EXCEPT ![n] = runtime]
    /\ nid' = [nid EXCEPT ![n] = id]
    /\ conv' = [conv EXCEPT ![n] = c]
    /\ tid' = [tid EXCEPT ![n] = thread]
    /\ launching' = launching \cup {n}

\* The main server runs one handler at a time; a sweep does not yield either.
MainIdle == ~sweep.on

MayOpen == Cardinality({s \in Ids : row[s] # "none" /\ conv[s] = s}) < MaxConversations
FreeRows == Cardinality({s \in Ids : row[s] = "none"})

\* dispatchAgentSession: every runtime's row is given a fresh UUID.  The thread
\* of the feedback item, if it has one, may hold rows of earlier dispatches;
\* the model does not say which threads are feedback items'.
Dispatch(n) ==
    /\ MainIdle /\ n \in Next0 /\ MayOpen
    /\ \E runtime \in Runtimes,
          thread \in {0} \cup (IF CosThread THEN {n} \cup {tid[s] : s \in Ids} ELSE {}) :
          Insert(n, 0, runtime, Uuid(n), n, thread)
    /\ UNCHANGED <<began, revived, fup, sweep>>

\* A companion terminal of p: a login terminal, opened by the session service
\* or for a launcher, or the shell of a setup assistant, once linked to it.
\* The session service does not wait for the main server; a sweep under way
\* is left the rows it may need.
OpenCompanion(p, n) ==
    /\ n \in Next0 /\ MayOpen /\ Cardinality(sweep.left) < FreeRows
    /\ row[p] \in Active /\ rt[p] = "claude"
    /\ \A s \in Ids : ~(IsCompanion(s) /\ par[s] = p)
    /\ Insert(n, p, "claude", 0, n, 0)
    /\ UNCHANGED <<began, revived, fup, sweep>>

\* A powwow's participants are linked to its moderator, dispatched last.
Gather(m, crew) ==
    /\ MainIdle /\ row[m] = "pending" /\ par[m] = 0
    /\ crew # {} /\ \A s \in crew : s < m /\ Exists(s) /\ par[s] = 0
    /\ par' = [s \in Ids |-> IF s \in crew THEN m ELSE par[s]]
    /\ UNCHANGED <<row, nid, tid, rt, conv, runVars, fup, sweep>>

\* ensureCosThreadsForOrphanSessions, every 30 s: a thread of its own for each
\* row that has none.
MintThreads ==
    LET orphans == {s \in Ids : Exists(s) /\ tid[s] = 0} IN
    /\ MainIdle /\ CosThread /\ orphans # {}
    /\ tid' = [s \in Ids |-> IF s \in orphans THEN s ELSE tid[s]]
    /\ UNCHANGED <<row, nid, linkVars, runVars, fup, sweep>>

\* The rollouts resolveCodexResumeIdThroughAncestors may settle on: the row's
\* recorded one; or, matched by directory and time, its own if it ever ran;
\* or an ancestor's; or none (0).
Chain(p) ==
    Reach({p}, {e \in Ids \X Ids :
        /\ rt[e[1]] = "codex" /\ ~IsRollout(nid[e[1]])
        /\ par[e[1]] = e[2] /\ Exists(e[2]) /\ rt[e[2]] = "codex"})

Rollouts(p) ==
    IF IsRollout(nid[p]) THEN {nid[p]}
    ELSE {0} \cup {Rollout(a) : a \in Chain(p) \cap began}
             \cup {nid[a] : a \in {b \in Chain(p) : IsRollout(nid[b])}}

\* Neither native path is open: the old conversation is retold in a prompt,
\* which takes a feedback item, and a companion has none.
Retold(p, runtime) ==
    /\ ~IsCompanion(p)
    /\ IF runtime = "claude" THEN rt[p] = "codex"
       ELSE rt[p] = "claude" \/ 0 \in Rollouts(p)

\* resumeAgentSessionImpl past its guards: natively by the recorded UUID,
\* natively by a rollout, or by a prompt that retells the old conversation.
Continue(n, p, runtime) ==
    LET thread == tid[p] IN
    \/ /\ runtime = "claude" /\ rt[p] = "claude" /\ nid[p] # 0
       /\ Insert(n, p, runtime, nid[p], conv[p], thread)
    \/ /\ runtime = "codex" /\ rt[p] = "codex"
       /\ \E x \in Rollouts(p) \ {0} :
             Insert(n, p, runtime, x, conv[OwnerOf(x)], thread)
    \/ /\ Retold(p, runtime)
       /\ Insert(n, p, runtime, IF runtime = "claude" THEN Uuid(n) ELSE 0, conv[p], thread)

Resumable(p) == Exists(p) /\ row[p] \notin Active /\ ~Blocked(p)

\* POST /:id/resume; restoreQueueItem, which only adds a prompt; and the last
\* phase of doTransfer, which checks again after its export and import.  To
\* resume a companion fails, or opens a new shell linked to nothing.
Resume(p, n) ==
    /\ MainIdle /\ n \in Next0 /\ Resumable(p)
    /\ \E runtime \in Runtimes : Continue(n, p, runtime)
    /\ UNCHANGED <<began, revived, fup, sweep>>

\* forkAgentSession: the parent may be active; claude is given its new id now,
\* codex reports it when the copy starts.
Fork(p, n) ==
    /\ MainIdle /\ n \in Next0 /\ Exists(p) /\ MayOpen
    /\ IF rt[p] = "claude" THEN nid[p] # 0
       ELSE IsRollout(nid[p]) \/ p \in began
    /\ Insert(n, p, rt[p], IF rt[p] = "claude" THEN Uuid(n) ELSE 0, n, 0)
    /\ UNCHANGED <<began, revived, fup, sweep>>

-----------------------------------------------------------------------------
(* The rows' other writers.                                                 *)

Written(s, status) == [row EXCEPT ![s] = IF @ = "gone" THEN @ ELSE status]

\* spawnSession: the agent runs and its row is set running, whatever it held;
\* a codex fork's row learns the id of the copy.
Start(s) ==
    /\ s \in launching
    /\ row' = Written(s, "running")
    /\ nid' = IF Exists(s) /\ rt[s] = "codex" /\ conv[s] = s /\ nid[s] = 0
              THEN [nid EXCEPT ![s] = Rollout(s)] ELSE nid
    /\ launching' = launching \ {s}
    /\ began' = IF rt[s] = "codex" THEN began \cup {s} ELSE began
    /\ revived' = IF row[s] \in Ended \cup {"deleted"} THEN revived \cup {s} ELSE revived
    /\ UNCHANGED <<tid, linkVars, fup, sweep>>

\* spawnLocal's catch.
StartFails(s) ==
    /\ s \in launching
    /\ row' = Written(s, "exited")
    /\ launching' = launching \ {s}
    /\ UNCHANGED <<nid, tid, linkVars, began, revived, fup, sweep>>

\* The agent exits (wireOnExit), or died with its host and is swept
\* (cleanupOrphanedSessions).
Exit(s) ==
    /\ row[s] = "running"
    /\ row' = [row EXCEPT ![s] = "exited"]
    /\ UNCHANGED <<nid, tid, linkVars, runVars, fup, sweep>>

\* killSession.  A launch that is still on its way is not called back.
Kill(s) ==
    /\ MainIdle /\ row[s] \in Active
    /\ row' = [row EXCEPT ![s] = "killed"]
    /\ UNCHANGED <<nid, tid, linkVars, runVars, fup, sweep>>

MayRemove == Cardinality({s \in Ids : row[s] \in {"deleted", "gone"}}) < MaxRemoved

\* Mutant: the archive writes a status no other part of the code knows.
RemoveArchived(s, status) ==
    /\ MainIdle /\ row[s] \in Ended /\ MayRemove
    /\ row' = [row EXCEPT ![s] = IF status = "deleted" THEN "archived" ELSE status]
    /\ UNCHANGED <<nid, tid, linkVars, runVars, fup, sweep>>

\* POST /:id/archive ("deleted") and DELETE /:id ("gone"), of an ended row.
Remove(s, status) ==
    /\ MainIdle /\ row[s] \in Ended /\ MayRemove
    /\ row' = [row EXCEPT ![s] = status]
    /\ UNCHANGED <<nid, tid, linkVars, runVars, fup, sweep>>

-----------------------------------------------------------------------------
(* Follow-up prompts (session-followups.ts).                                *)

Enqueue(f, p) ==
    /\ MainIdle /\ Exists(p)
    /\ fup[f].status = "none" /\ \A g \in Followups : g < f => fup[g].status # "none"
    /\ fup' = [fup EXCEPT ![f] = [parent |-> p, status |-> "pending"]]
    /\ UNCHANGED <<rowVars, runVars, sweep>>

Cancel(f) ==
    /\ MainIdle /\ fup[f].status = "pending"
    /\ fup' = [fup EXCEPT ![f].status = "canceled"]
    /\ UNCHANGED <<rowVars, runVars, sweep>>

Pending == {f \in Followups : fup[f].status = "pending"}
Parents == {fup[f].parent : f \in Pending}

\* Mutant: a killed parent is not taken for a finished one.
SweepBeginExited ==
    /\ MainIdle /\ Pending # {}
    /\ Cardinality(Pending) <= FreeRows
    /\ sweep' = [on |-> TRUE, left |-> Pending,
                 known |-> {p \in Parents : Exists(p)},
                 ready |-> {p \in Parents : row[p] = "exited"}, handled |-> {}]
    /\ UNCHANGED <<rowVars, runVars, fup>>

\* The snapshot of the pending follow-ups and of their parents.  Guarded so
\* that the rows the sweep may insert stay within MaxSessions.
SweepBegin ==
    /\ MainIdle /\ Pending # {}
    /\ Cardinality(Pending) <= FreeRows
    /\ sweep' = [on |-> TRUE, left |-> Pending,
                 known |-> {p \in Parents : Exists(p)},
                 ready |-> {p \in Parents : row[p] \in Ended}, handled |-> {}]
    /\ UNCHANGED <<rowVars, runVars, fup>>

SweepNextAny(f) == f \in sweep.left   \* mutant: the snapshot is not ordered
SweepNext(f) == f \in sweep.left /\ \A g \in sweep.left : f <= g

Close(f, status, dispatched) ==
    /\ fup' = [fup EXCEPT ![f].status = status]
    /\ sweep' = [sweep EXCEPT !.left = @ \ {f},
                              !.handled = IF dispatched THEN @ \cup {fup[f].parent} ELSE @]

\* resumeAgentSession throws: the guard refuses, no feedback item began what
\* would have to be retold, or a companion has nothing to resume.
Refused(p) == ~Resumable(p) \/ Retold(p, rt[p]) \/ IsCompanion(p)

\* One turn of the loop.  A parent already served, or not ended at the
\* snapshot, is left for a later sweep; a refused one fails the follow-up.  A
\* companion that is a shell gets a new shell, linked to nothing.
SweepTurn(f) ==
    LET p == fup[f].parent IN
    /\ sweep.on /\ SweepNext(f)
    /\ \/ /\ p \in sweep.handled \/ (p \in sweep.known /\ p \notin sweep.ready)
          /\ sweep' = [sweep EXCEPT !.left = @ \ {f}]
          /\ UNCHANGED <<rowVars, runVars, fup>>
       \/ /\ p \notin sweep.handled
          /\ p \notin sweep.known \/ (p \in sweep.ready /\ Refused(p))
          /\ Close(f, "failed", FALSE)
          /\ UNCHANGED <<rowVars, runVars>>
       \/ /\ p \in sweep.ready \ sweep.handled
          /\ \/ IsCompanion(p) /\ UNCHANGED <<rowVars, launching>>
             \/ Resumable(p) /\ \E n \in Next0 : Continue(n, p, rt[p])
          /\ Close(f, "dispatched", TRUE)
          /\ UNCHANGED <<began, revived>>

SweepEnd ==
    /\ sweep.on /\ sweep.left = {}
    /\ sweep' = [on |-> FALSE, left |-> {}, known |-> {}, ready |-> {}, handled |-> {}]
    /\ UNCHANGED <<rowVars, runVars, fup>>

-----------------------------------------------------------------------------
NextSession ==
    \E n \in Ids : \/ Dispatch(n)
                  \/ \E p \in Ids : Resume(p, n) \/ Fork(p, n) \/ OpenCompanion(p, n)

NextLink == MintThreads \/ \E m \in Ids, crew \in SUBSET Ids : Gather(m, crew)

NextRow ==
    \E s \in Ids : \/ Start(s) \/ StartFails(s) \/ Exit(s)
                   \/ Kill(s) \/ Remove(s, "deleted") \/ Remove(s, "gone")

NextFollowup ==
    \/ \E f \in Followups : (\E p \in Ids : Enqueue(f, p)) \/ Cancel(f) \/ SweepTurn(f)
    \/ SweepBegin \/ SweepEnd

Next == NextSession \/ NextLink \/ NextRow \/ NextFollowup

Spec == Init /\ [][Next]_vars

\* The watcher's timer keeps ticking, and a sweep runs to its end.
FairSpec == Spec /\ WF_vars(SweepBegin) /\ WF_vars(SweepEnd)
                 /\ WF_vars(\E f \in Followups : SweepTurn(f))
=============================================================================

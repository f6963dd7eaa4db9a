-------------------------- MODULE ResumeLineageProps --------------------------
(* What the resume guard, the restore queue and the follow-ups promise. *)
EXTENDS ResumeLineage

RowOK ==
    /\ row \in [Ids -> Status]
    /\ par \in [Ids -> 0..MaxSessions]
    /\ rt \in [Ids -> {"claude", "codex"}]
    /\ nid \in [Ids -> 0..(2 * MaxSessions)]
    /\ conv \in [Ids -> 0..MaxSessions]
    /\ tid \in [Ids -> Threads]

RunOK ==
    launching \subseteq Ids /\ began \subseteq Ids /\ revived \subseteq Ids

FollowupOK ==
    /\ fup \in [Followups -> [parent : 0..MaxSessions,
                              status : {"none", "pending", "dispatched", "failed", "canceled"}]]
    /\ \A f \in Followups : fup[f].status # "none" => fup[f].parent \in Ids
    /\ sweep \in [on : BOOLEAN, left : SUBSET Followups, known : SUBSET Ids,
                  ready : SUBSET Ids, handled : SUBSET Ids]
    /\ \A f \in sweep.left : fup[f].status # "none"

\* The variables hold what the columns and tables can hold.
TypeOK == RowOK /\ RunOK /\ FollowupOK

-----------------------------------------------------------------------------
Rows(c) == {s \in Ids : row[s] # "none" /\ conv[s] = c}

\* No row of the conversation was deleted for good, and none continues a
\* codex row as a codex row (see OneAgentPerConversation).
Unbroken(c) ==
    \A s \in Rows(c) :
        /\ row[s] # "gone"
        /\ s # c => ~(rt[s] = "codex" /\ rt[par[s]] = "codex")

\* The guard misses nobody: while a row of an unbroken conversation is active,
\* every other row of it is refused a resume, however many resumes, changes of
\* runtime, forks and deaths lie between the two (assertResumeAvailable).
ConflictSeen ==
    \A p, s \in Ids :
        (/\ row[p] \notin {"none"} \cup Active /\ row[s] \in Active
         /\ conv[p] = conv[s] /\ Unbroken(conv[p])) => Blocked(p)

\* So two rows of such a conversation are active together only if one of them
\* had ended and was set running again by a launch that came late: a resume, a
\* transfer, a restore and a follow-up never start a second agent.
OneActivePerConversation ==
    \A s, t \in Ids :
        (/\ s # t /\ row[s] \in Active /\ row[t] \in Active
         /\ conv[s] = conv[t] /\ Unbroken(conv[s])) => s \in revived \/ t \in revived

\* A row that opened a conversation of its own, and that the guard's query
\* takes for a continuation of its parent all the same: a companion terminal,
\* which has no id to compare; and a fork or a powwow participant that stands
\* in a thread, as each does once MintThreads has run.
Grafted(s) == par[s] # 0 /\ conv[s] = s /\ (nid[s] = 0 \/ tid[s] # 0)

\* Whom the guard confuses (assertResumeAvailable): a family of claude rows in
\* which no row is grafted is refused a resume only for the sake of its own
\* conversation or its own thread, never because of a fork, a participant, or
\* the session these hang from.
BlockedOnlyByOwn ==
    \A p \in Ids :
        (/\ Exists(p) /\ row[p] \notin Active /\ Blocked(p)
         /\ \A s \in Family(p) : rt[s] = "claude" /\ ~Grafted(s))
        => \E s \in Ids : /\ row[s] \in Active
                          /\ conv[s] = conv[p] \/ (tid[p] # 0 /\ tid[s] = tid[p])

-----------------------------------------------------------------------------
(* Why: the inductive invariant.                                            *)

\* A conversation is named for the row that opened it.
Rooted ==
    \A s \in Ids : row[s] # "none" =>
        conv[s] \in Ids /\ row[conv[s]] # "none" /\ conv[conv[s]] = conv[s]

\* Launches, rollouts and recorded rollout ids belong to rows.
Accounted ==
    /\ \A s \in launching \cup began : row[s] # "none"
    /\ \A s \in Ids : IsRollout(nid[s]) =>
          OwnerOf(nid[s]) \in Ids /\ row[OwnerOf(nid[s])] # "none"

\* A link within a conversation never looks like a native fork's, unless it
\* leads from a codex row to a codex row.
LinksKept ==
    \A s \in Ids :
        (row[s] # "none" /\ conv[s] # s) =>
            /\ par[s] \in Ids /\ row[par[s]] # "none"
            /\ \/ rt[s] = "codex" /\ rt[par[s]] = "codex"
               \/ /\ conv[par[s]] = conv[s]
                  /\ rt[s] = rt[par[s]] => nid[s] = nid[par[s]] \/ nid[par[s]] = 0

\* F is closed under the parents, or the children, of conversation c.
ClosedUp(F, c)   == \A x \in Rows(c) : (par[x] \in Rows(c) /\ x \in F) => par[x] \in F
ClosedDown(F, c) == \A x \in Rows(c) : (par[x] \in Rows(c) /\ par[x] \in F) => x \in F

\* An unbroken conversation hangs together: up from any row one reaches the
\* first, and down from the first any other.
Connected ==
    \A s \in Ids : \A F \in SUBSET Ids :
        (row[s] # "none" /\ Unbroken(conv[s])) =>
            /\ (s \in F /\ ClosedUp(F, conv[s])) => conv[s] \in F
            /\ (conv[s] \in F /\ ClosedDown(F, conv[s])) => s \in F

LineageInv == Rooted /\ Accounted /\ LinksKept /\ Connected

-----------------------------------------------------------------------------
\* Follow-ups of one parent are served in the order they were queued
\* (dispatchPendingFollowups): none is dispatched over an older one's head.
FollowupsInOrder ==
    \A f, g \in Followups :
        (f < g /\ fup[f].parent = fup[g].parent /\ fup[g].status = "dispatched")
        => fup[f].status # "pending"

\* A follow-up whose parent has ended does not wait for ever: it is dispatched,
\* or fails with a reason, unless it is cancelled or its parent is archived,
\* which the watcher does not take for an end.  (Or the bound on rows is met.)
FollowupResolves ==
    \A f \in Followups :
        (fup[f].status = "pending" /\ fup[f].parent # 0 /\ row[fup[f].parent] \in Ended)
        ~> (\/ fup[f].status # "pending"
            \/ row[fup[f].parent] \in {"deleted"} \cup Active
            \/ Cardinality(Pending) > FreeRows)

-----------------------------------------------------------------------------
\* What the comment over assertResumeAvailable promises without a condition:
\* no two rows that continue one conversation are active, revived rows apart.
OneAgentPerConversation ==
    \A s, t \in Ids :
        (/\ s # t /\ row[s] \in Active /\ row[t] \in Active /\ conv[s] = conv[t])
        => s \in revived \/ t \in revived

=============================================================================

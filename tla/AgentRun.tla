------------------------------ MODULE AgentRun ------------------------------
(***************************************************************************)
(* What the session machinery promises about the agent processes behind a  *)
(* session id: one is started only in answer to a request to launch that   *)
(* id, and each request starts at most one, whatever happens to the        *)
(* answer.  A dispatch mints a fresh id and asks once, so its id never has *)
(* a second process: two agents working one conversation.  The chief of    *)
(* staff asks again under the id of a thread's session.                    *)
(*                                                                         *)
(* SessionLifecycle implements this specification on one machine, and      *)
(* LauncherSessions over the server and the launchers of other machines.   *)
(***************************************************************************)
EXTENDS Naturals

CONSTANT Sessions   \* the session ids (agent_sessions.id)

VARIABLES
    asked,   \* asked[s]: how often a launch of s has been requested
    open,    \* sessions with a request that may still be served
    procs    \* procs[s]: how many agent processes s has

Init ==
    /\ asked = [s \in Sessions |-> 0]
    /\ open = {}
    /\ procs = [s \in Sessions |-> 0]

\* Somebody asks; the request is open or was refused at once.
Ask(s) == asked'[s] = asked[s] + 1 /\ procs'[s] <= procs[s]

\* The open request is served: one process more, or in the place of another.
Start(s) == /\ asked'[s] = asked[s] /\ procs'[s] <= procs[s] + 1
            /\ s \in open /\ s \notin open'

\* Processes end, the request is refused or lost.
Wane(s) == /\ asked'[s] = asked[s] /\ procs'[s] <= procs[s]
           /\ s \in open' => s \in open

\* One step may concern several sessions: a crash of the session service ends
\* every agent it hosts itself.
Next ==
    /\ asked' \in [Sessions -> Nat] /\ procs' \in [Sessions -> Nat] /\ open' \subseteq Sessions
    /\ \A s \in Sessions : Ask(s) \/ Start(s) \/ Wane(s)

Spec == Init /\ [][Next]_<<asked, open, procs>>
=============================================================================

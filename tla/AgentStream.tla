---------------------------- MODULE AgentStream ----------------------------
(***************************************************************************)
(* The run and stream contract every agent backend promises to the task    *)
(* service (backend/app/agents/events.py): a task is a sequence of runs,   *)
(* at most one at a time; a run ends with exactly one result event; a      *)
(* failed result follows its error event; a cancelled task is never        *)
(* resumable.  AgentRun implements this module.                            *)
(***************************************************************************)
EXTENDS Sequences

VARIABLES
    active,     \* EventLog.active: a run is in progress
    log         \* the error and result events of the log, in seq order

streamVars == <<active, log>>

Reasons == {"interrupted", "cancelled"}

ErrorEvent == [type : {"error"}]

\* What a result says of its run.
ResultEvent ==
    [type : {"result"}, state : {"succeeded", "failed"}, reason : {"none"},
     resumable : BOOLEAN]
        \cup
    [type : {"result"}, state : {"cancelled"}, reason : Reasons,
     resumable : BOOLEAN]

\* Cancel ends a task for good, an interrupted one may continue.
Honest(res) == res.reason = "cancelled" => ~res.resumable

StreamInit == active \in BOOLEAN /\ log = << >>

\* start_task, resume, or a follow-up send.
Begin == ~active /\ active' = TRUE /\ UNCHANGED log

\* A run that ends with an error says so before its result.
Fail ==
    /\ active
    /\ \E resumable \in BOOLEAN :
          log' = Append(log \o << [type |-> "error"] >>,
                        [type |-> "result", state |-> "failed",
                         reason |-> "none", resumable |-> resumable])
    /\ active' = FALSE

End ==
    /\ active
    /\ \E res \in ResultEvent :
          /\ Honest(res)
          /\ res.state # "failed"
          /\ log' = Append(log, res)
    /\ active' = FALSE

\* Cancelling an idle task begins and ends a run at once.
CancelIdle ==
    /\ ~active
    /\ log' = Append(log, [type |-> "result", state |-> "cancelled",
                           reason |-> "cancelled", resumable |-> FALSE])
    /\ UNCHANGED active

StreamNext == Begin \/ Fail \/ End \/ CancelIdle

StreamSpec == StreamInit /\ [][StreamNext]_streamVars
=============================================================================

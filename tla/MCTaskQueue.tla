---------------------------- MODULE MCTaskQueue ----------------------------
(***************************************************************************)
(* Small instances of TaskQueue for TLC: the tasks, and which calls and    *)
(* crashes a behaviour may have.                                           *)
(***************************************************************************)
EXTENDS TaskQueue

CONSTANTS a, b

TwoTasks == {a, b}

Budget(dispatches, resumes, cancels, crashes) ==
    [dispatch |-> dispatches, resume |-> resumes, cancel |-> cancels, crash |-> crashes]

\* Two tasks with a cancel or a crash between them, or one that is called again
\* and again.
FewerCalls == {Budget(2, 0, 1, 0), Budget(2, 0, 0, 1), Budget(1, 1, 1, 0), Budget(1, 2, 0, 1)}
=============================================================================

------------------------------ MODULE AgentRun ------------------------------
(***************************************************************************)
(* One agent task of the Claude Agent backend: BaseBackend and             *)
(* ApprovalBroker (backend/app/agents/interface.py, events.py) with the    *)
(* parent side of claude_sdk_adapter.py.                                   *)
(*                                                                         *)
(* Everything runs on one asyncio loop, so an action is the code between   *)
(* two awaits.  The actors are the run tasks (_run_wrapper, one per run,   *)
(* with its consume task), the callers of the interface (send, resume,     *)
(* interrupt, cancel, respond_approval, stop_for_budget), the watchdog and *)
(* the forced-stop timers.  The worker process is the environment: it may  *)
(* send any message at any time, stay silent for ever, or die.             *)
(***************************************************************************)
EXTENDS Naturals, Sequences, FiniteSets

CONSTANTS
    MaxRuns,          \* bound: how many times the task is launched
    ResumeCallers,    \* bound: resume() calls of this task in flight at once
    InterruptCallers, \* bound: _do_interrupt calls suspended in a pipe write
    Tools,            \* the tools whose policy is "ask"
    AlwaysAsk         \* those the policy lists as always_ask (destructive)

ASSUME BoundsAssumption ==
    /\ MaxRuns \in Nat \ {0}
    /\ ResumeCallers \in Nat \ {0}
    /\ InterruptCallers \in Nat \ {0}
ASSUME ToolsAssumption == Tools # {} /\ AlwaysAsk \subseteq Tools

Runs == 1 .. MaxRuns

VARIABLES
    \* TaskRuntime
    state, session, resumable, closed, runNo, interruptRequested, budgetStop,
    watchdog,      \* rt.watchdog: "off", "armed", or inside its _do_interrupt
    clock,         \* rt.tracker: is the wall clock running?
    active, log,   \* rt.log: EventLog.active, and its error and result events
    \* the run tasks and what they wait for
    pc, ask, tool, reader,
    consume,       \* rt.extras["consume"]: the last run that made one (0: none)
    transport,     \* rt.extras["transport"]: the run that started it (0: none)
    proc,          \* the worker process each run started, if any
    grants,        \* ApprovalBroker._grants of this task
    \* calls in flight
    interrupting,  \* _do_interrupt calls suspended in transport.interrupt()
    forces,        \* _force_after_grace timers: the consume tasks they hold
    settling,      \* resume() calls waiting in _settle_previous_run
    canceller      \* where the (only effective) cancel() call is

flags == <<interruptRequested, budgetStop>>
stream == <<active, log>>
workers == <<transport, proc, reader>>
calls == <<interrupting, forces, settling, canceller>>
vars == <<state, session, resumable, closed, runNo, flags, watchdog, clock,
          stream, pc, ask, tool, consume, workers, grants, calls>>

-----------------------------------------------------------------------------
(* Types *)

TaskState == {"queued", "running", "awaiting_approval",
              "succeeded", "failed", "cancelled"}

\* Where a run task is suspended.  "raised": consume ended with an error that
\* the wrapper has not seen; "unwind": the run has its result, or lost the
\* race for it, and its task is not done.
RunPc == {"none", "prepare", "start", "query", "consume", "ask", "closing",
          "raised", "unwind", "done"}
Consuming == {"consume", "ask", "closing"}         \* its consume is not done
Live == {"prepare", "start", "query", "raised"} \cup Consuming

CancelPc == {"none", "interrupting", "waiting", "releasing", "returned"}

Stream == INSTANCE AgentStream WITH log <- log, active <- active
Event == Stream!ErrorEvent \cup Stream!ResultEvent

TypeOK ==
    /\ state \in TaskState
    /\ session \in BOOLEAN /\ resumable \in BOOLEAN /\ closed \in BOOLEAN
    /\ runNo \in 0 .. MaxRuns
    /\ interruptRequested \in BOOLEAN /\ budgetStop \in BOOLEAN
    /\ watchdog \in {"off", "armed", "interrupting"}
    /\ clock \in BOOLEAN /\ active \in BOOLEAN
    /\ log \in Seq(Event)
    /\ pc \in [Runs -> RunPc]
    /\ ask \in [Runs -> {"none", "open", "allow", "deny"}]
    /\ tool \in [Runs -> Tools]
    /\ reader \in [Runs -> 0 .. MaxRuns]
    /\ consume \in 0 .. MaxRuns /\ transport \in 0 .. MaxRuns
    /\ proc \in [Runs -> {"none", "alive", "dead"}]
    /\ grants \subseteq Tools
    /\ interrupting \in 0 .. InterruptCallers /\ settling \in 0 .. ResumeCallers
    /\ forces \subseteq Runs
    /\ canceller \in CancelPc

-----------------------------------------------------------------------------
(* Helpers *)

Open == {r \in Runs : ask[r] = "open"}             \* ApprovalBroker._pending

DenyAll == ask' = [r \in Runs |-> IF r \in Open THEN "deny" ELSE ask[r]]

Alive(p) == p # 0 /\ proc[p] = "alive"

\* extras.pop("transport") and its close(), which ends the process.
CloseTransport ==
    /\ proc' = [p \in Runs |-> IF p = transport THEN "dead" ELSE proc[p]]
    /\ transport' = 0

Goto(r, where) == pc' = [pc EXCEPT ![r] = where]

\* _result: the one definition of how a run ends.
Finish(events, st, reason, mayResume) ==
    /\ clock' = FALSE
    /\ watchdog' = "off"
    /\ DenyAll
    /\ state' = st
    /\ resumable' = (mayResume /\ session' /\ ~closed')
    /\ log' = Append(log \o events,
                     [type |-> "result", state |-> st, reason |-> reason,
                      resumable |-> resumable'])
    /\ active' = FALSE

FinishSucceeded == Finish(<< >>, "succeeded", "none", TRUE)
FinishFailed(mayResume) ==
    Finish(<< [type |-> "error"] >>, "failed", "none", mayResume)
FinishBudget == FinishFailed(FALSE)
FinishCancelled(reason, mayResume) ==
    Finish(<< >>, "cancelled", reason, mayResume)

FinishInterrupted ==
    \/ budgetStop /\ FinishBudget
    \/ ~budgetStop /\ closed /\ FinishCancelled("cancelled", FALSE)
    \/ ~budgetStop /\ ~closed /\ FinishCancelled("interrupted", TRUE)

NoFinish == UNCHANGED <<clock, watchdog, ask, state, resumable, stream>>

\* Mutant of Mine: the finalizer does not look whether the run is over.
MineEvenIfOver(r) == runNo = r

\* A late finalizer must not end a newer run.
Mine(r) == runNo = r /\ active

\* The end of _run_wrapper after an AgentBackendError.
WrapperFails(r) ==
    /\ \/ Mine(r) /\ FinishFailed(FALSE)
       \/ ~Mine(r) /\ UNCHANGED <<clock, ask, state, resumable, stream>>
                   /\ watchdog' = IF runNo = r THEN "off" ELSE watchdog
    /\ Goto(r, "done")

BeginRunning ==
    clock' = TRUE /\ watchdog' = "armed" /\ state' = "running"

\* run_no moves on, the stop flags are reset, a new run task is created.
Launch ==
    /\ interruptRequested' = FALSE /\ budgetStop' = FALSE
    /\ runNo' = runNo + 1
    /\ active' = TRUE
    /\ Goto(runNo + 1, "prepare")

-----------------------------------------------------------------------------
(* Initial states: start_task has just returned, or restore_task has *)

InitRest ==
    /\ resumable = session /\ closed = FALSE
    /\ interruptRequested = FALSE /\ budgetStop = FALSE
    /\ watchdog = "off" /\ clock = FALSE /\ log = << >>
    /\ ask = [r \in Runs |-> "none"]
    /\ tool = [r \in Runs |-> CHOOSE t \in Tools : TRUE]
    /\ reader = [r \in Runs |-> 0] /\ consume = 0 /\ transport = 0
    /\ proc = [r \in Runs |-> "none"] /\ grants = {}
    /\ interrupting = 0 /\ forces = {} /\ settling = 0 /\ canceller = "none"

StartedTask ==
    /\ state = "queued" /\ session = FALSE
    /\ runNo = 1 /\ active = TRUE
    /\ pc = [r \in Runs |-> IF r = 1 THEN "prepare" ELSE "none"]

RestoredTask ==
    /\ session \in BOOLEAN
    /\ state = IF session THEN "cancelled" ELSE "failed"
    /\ runNo = 0 /\ active = FALSE
    /\ pc = [r \in Runs |-> "none"]

Init == (StartedTask \/ RestoredTask) /\ InitRest

-----------------------------------------------------------------------------
(* The run task *)

\* _prepare raises, or _run cannot resolve its credentials.
PrepareFails(r) ==
    /\ pc[r] = "prepare"
    /\ UNCHANGED <<session, closed, runNo, flags, tool, consume, workers,
                   grants, calls>>
    /\ WrapperFails(r)

\* Up to the first await of _run: the budget is spent already ...
FindsBudgetSpent(r) ==
    /\ pc[r] = "prepare"
    /\ UNCHANGED <<session, closed, runNo, flags, tool, consume, workers,
                   grants, calls>>
    /\ FinishBudget
    /\ Goto(r, "done")

\* ... or a live worker is reused ...
ReusesWorker(r) ==
    /\ pc[r] = "prepare" /\ Alive(transport)
    /\ BeginRunning
    /\ reader' = [reader EXCEPT ![r] = transport]
    /\ Goto(r, "query")
    /\ UNCHANGED <<session, resumable, closed, runNo, flags, stream, ask, tool,
                   consume, transport, proc, grants, calls>>

\* ... or a new one is spawned and its "ready" awaited.
SpawnsWorker(r) ==
    /\ pc[r] = "prepare" /\ ~Alive(transport)
    /\ proc' = [proc EXCEPT ![r] = "alive"]
    /\ Goto(r, "start")
    /\ NoFinish
    /\ UNCHANGED <<session, closed, runNo, flags, tool, consume, transport,
                   reader, grants, calls>>

WorkerReady(r) ==
    /\ pc[r] = "start" /\ proc[r] = "alive"
    /\ transport' = r
    /\ reader' = [reader EXCEPT ![r] = r]
    /\ BeginRunning
    /\ Goto(r, "query")
    /\ UNCHANGED <<session, resumable, closed, runNo, flags, stream, ask, tool,
                   consume, proc, grants, calls>>

\* Mutant of WorkerNotReady: the failed worker is not closed.
WorkerLeftRunning(r) ==
    /\ pc[r] = "start"
    /\ UNCHANGED <<session, closed, runNo, flags, tool, consume, workers,
                   grants, calls>>
    /\ WrapperFails(r)

\* It exited, reported an error, or START_TIMEOUT_S passed: start() closes it.
WorkerNotReady(r) ==
    /\ pc[r] = "start"
    /\ proc' = [proc EXCEPT ![r] = "dead"]
    /\ UNCHANGED <<session, closed, runNo, flags, tool, consume, transport,
                   reader, grants, calls>>
    /\ WrapperFails(r)

QuerySent(r) ==
    /\ pc[r] = "query"
    /\ consume' = r
    /\ Goto(r, "consume")
    /\ NoFinish
    /\ UNCHANGED <<session, closed, runNo, flags, tool, workers, grants, calls>>

\* The pipe is broken.
QueryFails(r) ==
    /\ pc[r] = "query" /\ ~Alive(reader[r])
    /\ UNCHANGED <<session, closed, runNo, flags, tool, consume, workers,
                   grants, calls>>
    /\ WrapperFails(r)

\* _run has returned to the wrapper after the consume task ended.
Unwind(r) ==
    /\ pc[r] = "unwind"
    /\ UNCHANGED <<session, closed, runNo, flags, tool, consume, workers,
                   grants, calls>>
    /\ WrapperFails(r)

\* The wrapper sees the error that ended the consume task.
Raised(r) ==
    /\ pc[r] = "raised"
    /\ UNCHANGED <<session, closed, runNo, flags, tool, consume, workers,
                   grants, calls>>
    /\ WrapperFails(r)

\* A CancelledError reaches the run task, from run.cancel() or through its
\* consume task.  A worker it was still starting is not closed.
Stopped(r) ==
    /\ \/ /\ Mine(r) \/ (pc[r] \in Consuming /\ interruptRequested /\ active)
          /\ FinishInterrupted
       \/ /\ ~Mine(r) /\ ~(pc[r] \in Consuming /\ interruptRequested /\ active)
          /\ UNCHANGED <<clock, ask, state, resumable, stream>>
          /\ watchdog' = IF runNo = r THEN "off" ELSE watchdog
    /\ Goto(r, "done")

-----------------------------------------------------------------------------
(* Messages of the worker, handled one after another by the consume task *)

\* The loop head: `while rt.log.active`.
NextMessage(r) == Goto(r, IF active' THEN "consume" ELSE "unwind")

\* system, stream_event, assistant, user: events, and perhaps the session id.
OtherMessage(r) ==
    /\ pc[r] = "consume"
    /\ session' \in {session, TRUE}
    /\ NoFinish
    /\ NextMessage(r)
    /\ UNCHANGED <<closed, runNo, flags, tool, consume, workers, grants, calls>>

\* worker_error, or start-up errors in system/init: the worker is closed
\* before the error goes on to the wrapper.
ErrorMessage(r) ==
    /\ pc[r] = "consume"
    /\ session' \in {session, TRUE}
    /\ CloseTransport
    /\ Goto(r, "closing")
    /\ NoFinish
    /\ UNCHANGED <<closed, runNo, flags, tool, consume, reader, grants, calls>>

WorkerClosed(r) ==
    /\ pc[r] = "closing"
    /\ Goto(r, "raised")
    /\ NoFinish
    /\ UNCHANGED <<session, closed, runNo, flags, tool, consume, workers,
                   grants, calls>>

\* The worker's output ended.
EndOfOutput(r) ==
    /\ pc[r] = "consume" /\ ~Alive(reader[r])
    /\ transport' = 0
    /\ UNCHANGED <<session, closed, runNo, flags, tool, consume, proc, reader,
                   grants, calls>>
    /\ \/ interruptRequested /\ FinishInterrupted /\ Goto(r, "unwind")
       \/ ~interruptRequested /\ NoFinish /\ Goto(r, "raised")

\* Mutant of ResultMessage: the stop that was asked for is not looked at.
ResultMessageIgnoringStop(r) ==
    /\ pc[r] = "consume"
    /\ session' \in {session, TRUE}
    /\ UNCHANGED <<closed, runNo, flags, tool, consume, workers, grants, calls>>
    /\ FinishSucceeded
    /\ Goto(r, "unwind")

\* _on_result.  The stop that was asked for wins over what the worker says.
ResultMessage(r) ==
    /\ pc[r] = "consume"
    /\ session' \in {session, TRUE}
    /\ UNCHANGED <<closed, runNo, flags, tool, consume, workers, grants, calls>>
    /\ \/ interruptRequested /\ FinishInterrupted
       \/ /\ ~interruptRequested
          /\ \/ FinishBudget                  \* a cap was reached
             \/ \E mayResume \in BOOLEAN : FinishFailed(mayResume)
             \/ FinishSucceeded
    /\ Goto(r, "unwind")

\* permission_request for a tool whose policy is "ask" and which has no grant
\* that counts (a grant answers at once and changes nothing here).
PermissionRequest(r) ==
    /\ pc[r] = "consume"
    /\ \E t \in Tools :
          /\ t \in AlwaysAsk \/ t \notin grants
          /\ tool' = [tool EXCEPT ![r] = t]
    /\ ask' = [ask EXCEPT ![r] = "open"]
    /\ state' = "awaiting_approval"
    /\ clock' = FALSE
    /\ Goto(r, "ask")
    /\ UNCHANGED <<session, resumable, closed, runNo, flags, watchdog, stream,
                   consume, workers, grants, calls>>

AskContinues(r) ==
    /\ clock' = TRUE
    /\ state' = IF active THEN "running" ELSE state
    /\ UNCHANGED <<session, resumable, closed, runNo, flags, watchdog, stream,
                   tool, consume, workers, grants, calls>>
    /\ NextMessage(r)

AskAnswered(r) ==
    /\ pc[r] = "ask" /\ ask[r] \in {"allow", "deny"}
    /\ ask' = [ask EXCEPT ![r] = "none"]
    /\ AskContinues(r)

\* approval_policy.timeout_s: every open request of the task is denied.
AskTimesOut(r) ==
    /\ pc[r] = "ask" /\ ask[r] = "open"
    /\ ask' = [s \in Runs |-> IF s = r THEN "none"
                              ELSE IF s \in Open THEN "deny" ELSE ask[s]]
    /\ AskContinues(r)

\* A worker may exit at any time.
WorkerExits ==
    /\ \E p \in Runs : proc[p] = "alive" /\ proc' = [proc EXCEPT ![p] = "dead"]
    /\ NoFinish
    /\ UNCHANGED <<session, closed, runNo, flags, pc, tool, consume, transport,
                   reader, grants, calls>>

-----------------------------------------------------------------------------
(* Callers: send to an idle task is resume, to a running one a query *)

\* Mutant of MayResume: a running task may be resumed.
MayResumeRunning == ~closed /\ resumable

MayResume == ~closed /\ ~active /\ resumable

Unsettled == runNo # 0 /\ pc[runNo] # "done"

\* No await when the previous run task is done: resume launches at once.
ResumeNow ==
    /\ MayResume
    /\ ~Unsettled
    /\ settling < ResumeCallers
    /\ runNo < MaxRuns
    /\ Launch
    /\ UNCHANGED <<state, session, resumable, closed, watchdog, clock, log, ask,
                   tool, consume, workers, grants, calls>>

ResumeWaits ==
    /\ MayResume
    /\ Unsettled
    /\ settling < ResumeCallers
    /\ settling' = settling + 1
    /\ NoFinish
    /\ UNCHANGED <<session, closed, runNo, flags, pc, tool, consume, workers,
                   grants, interrupting, forces, canceller>>

\* _settle_previous_run returned: that run is done, or STOP_GRACE_S passed.
\* The checks made before it are not repeated.
ResumeSettled ==
    /\ settling > 0
    /\ settling' = settling - 1
    /\ runNo < MaxRuns
    /\ Launch
    /\ UNCHANGED <<state, session, resumable, closed, watchdog, clock, log, ask,
                   tool, consume, workers, grants, interrupting, forces,
                   canceller>>

\* _do_interrupt after its await: a timer for the consume task there is now.
ArmForce ==
    forces' = forces \cup {r \in Runs : r = consume /\ pc[r] \in Consuming}

\* _do_interrupt up to its await; without a live worker it has none.
DoInterrupt ==
    \/ /\ Alive(transport)
       /\ interrupting < InterruptCallers
       /\ interrupting' = interrupting + 1
       /\ UNCHANGED forces
    \/ ~Alive(transport) /\ ArmForce /\ UNCHANGED interrupting

Interrupt ==
    /\ active
    /\ interruptRequested' = TRUE
    /\ DenyAll
    /\ DoInterrupt
    /\ UNCHANGED <<state, session, resumable, closed, runNo, budgetStop,
                   watchdog, clock, stream, pc, tool, consume, workers, grants,
                   settling, canceller>>

InterruptWritten ==
    /\ interrupting > 0
    /\ interrupting' = interrupting - 1
    /\ ArmForce
    /\ NoFinish
    /\ UNCHANGED <<session, closed, runNo, flags, pc, tool, consume, workers,
                   grants, settling, canceller>>

\* A limit shared with other tasks: the interrupt is left to a spawned task.
StopForBudget ==
    /\ active /\ ~budgetStop
    /\ interrupting < InterruptCallers
    /\ budgetStop' = TRUE /\ interruptRequested' = TRUE
    /\ DenyAll
    /\ interrupting' = interrupting + 1
    /\ UNCHANGED <<state, session, resumable, closed, runNo, watchdog, clock,
                   stream, pc, tool, consume, workers, grants, forces, settling,
                   canceller>>

WatchdogExpires ==
    /\ watchdog = "armed" /\ active
    /\ budgetStop' = TRUE /\ interruptRequested' = TRUE
    /\ DenyAll
    /\ \/ Alive(transport) /\ watchdog' = "interrupting" /\ UNCHANGED forces
       \/ ~Alive(transport) /\ watchdog' = "off" /\ ArmForce
    /\ UNCHANGED <<state, session, resumable, closed, runNo, clock, stream, pc,
                   tool, consume, workers, grants, interrupting, settling,
                   canceller>>

WatchdogInterrupted ==
    /\ watchdog = "interrupting"
    /\ watchdog' = "off"
    /\ ArmForce
    /\ UNCHANGED <<state, session, resumable, closed, runNo, flags, clock,
                   stream, pc, ask, tool, consume, workers, grants,
                   interrupting, settling, canceller>>

\* Mutant of ForceFires: the worker is closed but consume is not cancelled, so
\* one that waits for a person waits on.
ForceClosesOnly(r) ==
    /\ r \in forces
    /\ forces' = forces \ {r}
    /\ CloseTransport
    /\ NoFinish
    /\ UNCHANGED <<session, closed, runNo, flags, pc, tool, consume, reader,
                   grants, interrupting, settling, canceller>>

\* ABORT_GRACE_S after an interrupt the consume task is not done.
ForceFires(r) ==
    /\ r \in forces
    /\ forces' = forces \ {r}
    /\ UNCHANGED <<session, closed, runNo, flags, tool, consume, reader, grants,
                   interrupting, settling, canceller>>
    /\ \/ /\ pc[r] \in Consuming /\ active
          /\ Stopped(r)
          /\ CloseTransport
       \/ /\ ~(pc[r] \in Consuming /\ active)
          /\ NoFinish
          /\ UNCHANGED <<pc, transport, proc>>

Respond(r) ==
    /\ ask[r] = "open"
    /\ \E decision \in {"allow", "deny"}, scope \in {"once", "task"} :
          /\ ask' = [ask EXCEPT ![r] = decision]
          /\ grants' = IF decision = "allow" /\ scope = "task"
                          /\ tool[r] \notin AlwaysAsk
                       THEN grants \cup {tool[r]} ELSE grants
    /\ UNCHANGED <<state, session, resumable, closed, runNo, flags, watchdog,
                   clock, stream, pc, tool, consume, workers, calls>>

-----------------------------------------------------------------------------
(* cancel(): a second call returns at once *)

CancelRunning ==
    /\ ~closed /\ active
    /\ closed' = TRUE /\ resumable' = FALSE
    /\ interruptRequested' = TRUE
    /\ DenyAll
    /\ \/ Alive(transport) /\ canceller' = "interrupting" /\ UNCHANGED forces
       \/ ~Alive(transport) /\ canceller' = "waiting" /\ ArmForce
    /\ UNCHANGED <<state, session, runNo, budgetStop, watchdog, clock, stream,
                   pc, tool, consume, workers, grants, interrupting, settling>>

CancelIdle ==
    /\ ~closed /\ ~active
    /\ closed' = TRUE
    /\ canceller' = "releasing"
    /\ UNCHANGED <<session, runNo, flags, pc, tool, consume, workers, grants,
                   interrupting, forces, settling>>
    /\ FinishCancelled("cancelled", FALSE)

CancelInterrupted ==
    /\ canceller = "interrupting"
    /\ canceller' = "waiting"
    /\ ArmForce
    /\ NoFinish
    /\ UNCHANGED <<session, closed, runNo, flags, pc, tool, consume, workers,
                   grants, interrupting, settling>>

CancelWaited ==
    /\ canceller = "waiting" /\ pc[runNo] = "done"
    /\ canceller' = "releasing"
    /\ NoFinish
    /\ UNCHANGED <<session, closed, runNo, flags, pc, tool, consume, workers,
                   grants, interrupting, forces, settling>>

\* Mutant of CancelKills: no timeout on the wait.
CancelWaitsForEver == FALSE

\* STOP_GRACE_S passed: run.cancel().
CancelKills ==
    /\ canceller = "waiting" /\ pc[runNo] # "done"
    /\ canceller' = "releasing"
    /\ UNCHANGED <<session, closed, runNo, flags, tool, consume, workers,
                   grants, interrupting, forces, settling>>
    /\ Stopped(runNo)

\* _release and ApprovalBroker.forget_task.
CancelReleases ==
    /\ canceller = "releasing"
    /\ canceller' = "returned"
    /\ CloseTransport
    /\ DenyAll
    /\ grants' = {}
    /\ UNCHANGED <<state, session, resumable, closed, runNo, flags, watchdog,
                   clock, stream, pc, tool, consume, reader, interrupting,
                   forces, settling>>

-----------------------------------------------------------------------------

WorkerSays(r) ==
    \/ OtherMessage(r) \/ ErrorMessage(r) \/ ResultMessage(r)
    \/ PermissionRequest(r)

\* The steps of a run that need nobody: the loop and its timeouts take them.
RunStep(r) ==
    \/ PrepareFails(r) \/ FindsBudgetSpent(r) \/ ReusesWorker(r)
    \/ SpawnsWorker(r) \/ WorkerReady(r) \/ WorkerNotReady(r)
    \/ QuerySent(r) \/ QueryFails(r) \/ Unwind(r) \/ Raised(r)
    \/ WorkerClosed(r) \/ EndOfOutput(r) \/ AskAnswered(r)

Canceller == CancelInterrupted \/ CancelWaited \/ CancelKills \/ CancelReleases

Next ==
    \/ \E r \in Runs : RunStep(r) \/ WorkerSays(r) \/ AskTimesOut(r)
                          \/ ForceFires(r) \/ Respond(r)
    \/ WorkerExits
    \/ ResumeNow \/ ResumeWaits \/ ResumeSettled
    \/ Interrupt \/ InterruptWritten \/ StopForBudget
    \/ WatchdogExpires \/ WatchdogInterrupted
    \/ CancelRunning \/ CancelIdle \/ Canceller

Spec == Init /\ [][Next]_vars

\* What the event loop and its timers guarantee, and that what an exited worker
\* has written is finite (strong: the end of its output is reached between other
\* messages).  Nothing is assumed of a live worker, of the people who answer
\* approvals, or of the callers.
Fairness ==
    /\ \A r \in Runs : /\ WF_vars(RunStep(r)) /\ WF_vars(ForceFires(r))
                       /\ SF_vars(EndOfOutput(r))
    /\ WF_vars(ResumeSettled) /\ WF_vars(InterruptWritten)
    /\ WF_vars(WatchdogInterrupted) /\ WF_vars(Canceller)

FairSpec == Spec /\ Fairness

-----------------------------------------------------------------------------
(* Properties *)

\* There is one run at a time: a run task that has not lost its run is the
\* newest, and its task is active (the guard of resume and the mine() test of
\* _run_wrapper together).
OneRunAtATime == \A r \in Runs : pc[r] \in Live => r = runNo /\ active

\* An idle task leaves nothing behind: no approval card that nobody waits
\* for, no watchdog.
IdleIsQuiet == ~active => Open = {} /\ watchdog = "off"

\* The wall clock charges only the agent's own time: not a person's thinking
\* time over an approval, not the time between runs.
ClockIsAgentsTime == clock => active /\ Open = {}

\* One run at a time, and nothing of a run goes on after it: the three above.
RunsInOrder == OneRunAtATime /\ IdleIsQuiet /\ ClockIsAgentsTime

\* A worker process nobody can close any more is a leak.  Until the task is
\* cancelled each live worker is the task's transport or still starting.
WorkerAccounted ==
    \A p \in Runs : proc[p] = "alive" =>
        \/ p = transport
        \/ pc[p] = "start"
        \/ closed

\* The types hold and no worker is lost.
WorkersAccounted == TypeOK /\ WorkerAccounted

\* A destructive tool never gains a task-wide grant, so each of its calls
\* asks a person.
DestructiveAlwaysAsk == grants \cap AlwaysAsk = {}

\* The result a step emits, if it emits one.
NewResult == Len(log') > Len(log)
LastResult == log'[Len(log')]

\* Whoever stops a run, and whatever the worker answers meanwhile, the run
\* never ends as a success; a budget stop can never be resumed; a cancelled
\* task never promises to be resumable.
HonoursStop ==
    NewResult => /\ interruptRequested => LastResult.state # "succeeded"
                 /\ budgetStop => ~LastResult.resumable
                 /\ closed' => ~LastResult.resumable
StopIsHonoured == [][HonoursStop]_vars

\* The log keeps the stream contract of AgentStream.
ImplementsStream == Stream!StreamSpec

\* cancel() always returns, with the run it found over, however silent the
\* worker is.
CancelEnds ==
    canceller \in {"interrupting", "waiting"} ~> canceller = "returned" /\ ~active

\* An interrupt that found a consume task ends its run, even if the worker
\* ignores it and a person never answers.
ForcedRunEnds == \A r \in Runs : r \in forces ~> pc[r] \in {"unwind", "done"}

=============================================================================

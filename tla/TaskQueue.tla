------------------------------ MODULE TaskQueue ------------------------------
(***************************************************************************)
(* The task manager's queue: TaskManager of backend/app/agents_service.py, *)
(* its rows in agents_store.py, and the guards of the routes that call it. *)
(*                                                                         *)
(* A task waits in `queued` until _kick hands it to a backend.  The        *)
(* backend's event log is read by the task's pump, which updates the row,  *)
(* and when the run's result is handled the slot is given back and _kick   *)
(* runs again.  Rows are written to the database by one writer, later.     *)
(* The backend and its runs are the environment, as AgentStream allows.    *)
(*                                                                         *)
(* An action is the code between two awaits.                               *)
(***************************************************************************)
EXTENDS Integers, Sequences, FiniteSets, Functions

CONSTANTS
    Tasks,       \* the tasks people may dispatch
    Limit,       \* agents.max_concurrent
    Budgets      \* bound: how many calls and crashes of each sort there may be

\* "resume" is a send or a resume; a send that steers a run changes nothing here.
Calls == {"dispatch", "resume", "cancel", "crash"}

ASSUME LimitAssumption == Limit \in Nat \ {0}
ASSUME BudgetsAssumption == Budgets \subseteq [Calls -> Nat]

VARIABLES
    \* the database and the writer
    created,    \* the tasks in the order of created_at
    stored,     \* the row of each task in the database
    writes,     \* _wq: the row updates on their way there
    \* TaskManager
    row,        \* _rows: the row of each task in memory
    cursor,     \* _cursor: the last event of the task that was handled
    live,       \* _live: the tasks that hold a slot
    launched,   \* _launched: the tasks this process has handed to a backend
    kick,       \* the _kick that holds _kick_lock: where it is, what is left of its
                \*   snapshot, the task whose start failed
    kickWanted, \* another _kick waits for the lock
    pump,       \* the pump that holds the task's lock
    waiting,    \* pumps that wait for it
    sender,     \* the task whose send or resume waits for the previous run
    canceller,  \* the cancel that is under way
    \* the backend
    known,      \* has_task
    active,     \* is_active
    closed,     \* the task was cancelled
    resumable,  \* the task may be resumed
    log,        \* the events of the task; of a result that was handled, only the fact
    calls       \* the calls and crashes this behaviour may have, and had

database == <<created, stored, writes>>
rows == <<row, cursor>>
slots == <<live, launched>>
kicks == <<kick, kickWanted>>
pumps == <<pump, waiting>>
callers == <<sender, canceller>>
backend == <<known, active, closed, resumable, log>>
vars == <<database, rows, slots, kicks, pumps, callers, backend, calls>>

-----------------------------------------------------------------------------
(* Types *)

\* "stopped" is failed or cancelled: the queue treats the two alike.
Terminal == {"succeeded", "stopped"}
States == {"queued", "running"} \cup Terminal

\* A task row; "absent" before the task is dispatched.
TaskRow == [state : States \cup {"absent"}, seq : Nat, resumable : BOOLEAN]
Absent == [state |-> "absent", seq |-> 0, resumable |-> FALSE]

Event == [type : {"status", "error", "result", "blank"}, resumable : BOOLEAN,
          state : States \cup {"absent"}]
Status(s) == [type |-> "status", state |-> s, resumable |-> FALSE]
Error == [type |-> "error", state |-> "absent", resumable |-> FALSE]
Result(s, again) == [type |-> "result", state |-> s, resumable |-> again]
Blank == [type |-> "blank", state |-> "queued", resumable |-> FALSE]

Nobody == "nobody"
ASSUME NobodyAssumption == Nobody \notin Tasks

IdleKick == [at |-> "idle", batch |-> {}, task |-> Nobody, seq |-> 0]
IdlePump == [at |-> "none", pos |-> 0]
IdleCancel == [at |-> "idle", task |-> Nobody]
TypeOK ==
    /\ created \in Seq(Tasks)
    /\ \A t \in Tasks : row[t].state = "absent" <=> t \notin Range(created)
    /\ stored \in [Tasks -> TaskRow] /\ row \in [Tasks -> TaskRow]
    /\ writes \in Seq([task : Tasks, row : TaskRow])
    /\ cursor \in [Tasks -> Nat]
    /\ live \subseteq Tasks /\ launched \subseteq Tasks
    /\ kick \in [at : {"idle", "flush", "read", "walk", "error", "finish", "drain"},
                batch : SUBSET Tasks, task : Tasks \cup {Nobody}, seq : Nat]
    /\ kick.at \in {"error", "finish", "drain"} => kick.task \in Tasks
    /\ kickWanted \in BOOLEAN
    /\ pump \in [Tasks -> [at : {"none", "reading", "finish", "drain"}, pos : Nat]]
    /\ waiting \in [Tasks -> Nat]
    /\ sender \in Tasks \cup {Nobody}
    /\ canceller \in [at : {"idle", "finish", "drain", "stopping", "releasing"},
                     task : Tasks \cup {Nobody}]
    /\ canceller.at # "idle" => canceller.task \in Tasks
    /\ known \in [Tasks -> BOOLEAN] /\ active \in [Tasks -> BOOLEAN]
    /\ closed \in [Tasks -> BOOLEAN] /\ resumable \in [Tasks -> BOOLEAN]
    /\ log \in [Tasks -> Seq(Event)]
    /\ calls \in [budget : Budgets, spent : [Calls -> Nat]]

-----------------------------------------------------------------------------
(* Helpers *)

Set(f, t, v) == [f EXCEPT ![t] = v]
Upper(m, n) == IF m > n THEN m ELSE n

Count(call) ==
    /\ calls.spent[call] < calls.budget[call]
    /\ calls' = [calls EXCEPT !.spent[call] = @ + 1]

\* The row after event e with number n.  An error leaves the state alone; with
\* a status the row takes over what the backend says at that moment.
RowAfter(t, e, n) ==
    [state |-> IF e.type = "error" THEN row[t].state ELSE e.state, seq |-> n,
     resumable |-> CASE e.type = "result" -> e.resumable
                     [] e.type = "status" -> resumable[t] /\ ~closed[t] /\ ~active[t]
                     [] OTHER -> row[t].resumable]

\* _handle up to its first await: the row in memory changes, and the same
\* change is queued for the database.
Handle(t, e, n) ==
    LET new == RowAfter(t, e, n)
    IN /\ cursor' = Set(cursor, t, n)
       /\ row' = Set(row, t, new)
       /\ writes' = Append(writes, [task |-> t, row |-> new])

\* _finish gives the slot back, waits for the writer, and spawns _after_run,
\* which kicks.
FreeSlot(t) == live' = live \ {t}

\* A mutant of Drained: the end of a run calls nobody from the queue.
DrainedQuietly == writes = <<>> /\ UNCHANGED kickWanted

Drained == writes = <<>> /\ kickWanted' = TRUE

\* A mutant of EnsurePump: a pump that still runs is taken to be enough.
EnsurePumpOnce(t) ==
    waiting' = IF pump[t].at = "none" THEN Set(waiting, t, 1) ELSE waiting

\* _ensure_pump
EnsurePump(t) == waiting' = Set(waiting, t, waiting[t] + 1)

\* queued_tasks: the rows that _kick finds in the database.
Queued(t) == stored[t].state = "queued"

-----------------------------------------------------------------------------
(* The writer *)

\* One queued update reaches the database.
WriterStores ==
    /\ writes # <<>>
    /\ stored' = Set(stored, Head(writes).task, Head(writes).row)
    /\ writes' = Tail(writes)
    /\ UNCHANGED <<created, rows, slots, kicks, pumps, callers, backend, calls>>

-----------------------------------------------------------------------------
(* dispatch and _kick *)

\* The row is created in the database at once.
Dispatch(t) ==
    /\ row[t] = Absent /\ Count("dispatch")
    /\ created' = Append(created, t)
    /\ stored' = Set(stored, t, [Absent EXCEPT !.state = "queued"])
    /\ row' = Set(row, t, [Absent EXCEPT !.state = "queued"])
    /\ kickWanted' = TRUE
    /\ UNCHANGED <<writes, cursor, slots, kick, pumps, callers, backend>>

Snapshot == [kick EXCEPT !.at = "walk", !.batch = {t \in Range(created) : Queued(t)}]

\* _kick takes its lock and reads the queue, now or when the writer is done.
KickBegins ==
    /\ kick.at = "idle" /\ kickWanted
    /\ kick' = IF writes = <<>> THEN Snapshot ELSE [kick EXCEPT !.at = "flush"]
    /\ kickWanted' = FALSE
    /\ UNCHANGED <<database, rows, slots, pumps, callers, backend, calls>>

\* flush: the writer has nothing left, ...
KickFlushed ==
    /\ kick.at = "flush" /\ writes = <<>>
    /\ kick' = [kick EXCEPT !.at = "read"]
    /\ UNCHANGED <<database, rows, slots, kickWanted, pumps, callers, backend, calls>>

\* ... and when _kick runs again it reads the queue.
KickReads ==
    /\ kick.at = "read"
    /\ kick' = Snapshot
    /\ UNCHANGED <<database, rows, slots, kickWanted, pumps, callers, backend, calls>>

\* The rows come in the order of created_at: it is t's turn.
Turn(t) ==
    /\ t \in kick.batch
    /\ \A i, j \in DOMAIN created :
          created[i] = t /\ created[j] \in kick.batch => i <= j

Past(t) == [kick EXCEPT !.batch = @ \ {t}]
WalksOn == [kick EXCEPT !.at = "walk", !.task = Nobody, !.seq = 0]

\* The walk is over: the queue is empty or there is no free slot.
KickEnds ==
    /\ kick.at = "walk"
    /\ kick.batch = {} \/ Cardinality(live) >= Limit
    /\ kick' = IdleKick
    /\ UNCHANGED <<database, rows, slots, kickWanted, pumps, callers, backend, calls>>

Walking == kick.at = "walk" /\ Cardinality(live) < Limit

KickSkips ==
    /\ Walking
    /\ \E t \in launched : Turn(t) /\ kick' = Past(t)
    /\ UNCHANGED <<database, rows, slots, kickWanted, pumps, callers, backend, calls>>

Enlist(t) ==
    /\ live' = live \cup {t}
    /\ launched' = launched \cup {t}

\* _start: the backend registers the task and launches its first run.
Start ==
    /\ Walking
    /\ \E t \in Tasks \ launched :
          /\ Turn(t) /\ ~known[t]
          /\ Enlist(t)
          /\ known' = Set(known, t, TRUE)
          /\ active' = Set(active, t, TRUE)
          /\ log' = Set(log, t, <<Status("queued")>>)
          /\ EnsurePump(t)
          /\ kick' = Past(t)
    /\ UNCHANGED <<database, rows, kickWanted, pump, callers, closed, resumable, calls>>

\* _start fails (no budget, no backend): _fail_early handles an error event ...
StartFails ==
    /\ Walking
    /\ \E t \in Tasks \ launched :
          /\ Turn(t)
          /\ Enlist(t)
          /\ Handle(t, Error, cursor[t] + 1)
          /\ kick' = [Past(t) EXCEPT !.at = "error", !.task = t, !.seq = cursor[t] + 2]
    /\ UNCHANGED <<created, stored, kickWanted, pumps, callers, backend, calls>>

\* ... and then a result with the next number, unless that number was handled
\* in the meantime.
FailedEarly ==
    /\ kick.at = "error"
    /\ IF kick.seq <= cursor[kick.task]
       THEN kick' = WalksOn /\ UNCHANGED <<writes, rows>>
       ELSE /\ Handle(kick.task, Result("stopped", FALSE), kick.seq)
            /\ kick' = [kick EXCEPT !.at = "finish"]
    /\ UNCHANGED <<created, stored, slots, kickWanted, pumps, callers, backend, calls>>

FailedFinishes ==
    /\ kick.at = "finish"
    /\ FreeSlot(kick.task)
    /\ kick' = [kick EXCEPT !.at = "drain"]
    /\ UNCHANGED <<database, rows, launched, kickWanted, pumps, callers, backend, calls>>

FailedReturns ==
    /\ kick.at = "drain" /\ Drained
    /\ kick' = WalksOn
    /\ UNCHANGED <<database, rows, slots, pumps, callers, backend, calls>>

-----------------------------------------------------------------------------
(* The runs of a task, as the backend's log tells them *)

RunSays(t) ==
    /\ active[t] /\ log[t][Len(log[t])] # Status("running")
    /\ log' = Set(log, t, Append(log[t], Status("running")))
    /\ UNCHANGED <<database, rows, slots, kicks, pumps, callers, known, active,
                   closed, resumable, calls>>

\* A run ends with one result; after a cancel the task cannot be resumed.  How a
\* task ended that cannot be resumed makes no difference.
RunEnds(t) ==
    /\ active[t]
    /\ \E s \in Terminal, again \in BOOLEAN :
          /\ closed[t] => ~again
          /\ ~again => s = "stopped"
          /\ log' = Set(log, t, Append(log[t], Result(s, again)))
          /\ resumable' = Set(resumable, t, again)
    /\ active' = Set(active, t, FALSE)
    /\ UNCHANGED <<database, rows, slots, kicks, pumps, callers, known, closed, calls>>

-----------------------------------------------------------------------------
(* The pumps *)

\* The pump gets the task's lock and follows the log from the cursor.
PumpStarts(t) ==
    /\ pump[t].at = "none" /\ waiting[t] > 0
    /\ waiting' = Set(waiting, t, waiting[t] - 1)
    /\ pump' = Set(pump, t, [at |-> "reading", pos |-> cursor[t]])
    /\ UNCHANGED <<database, rows, slots, kicks, callers, backend, calls>>

\* One event: _handle, idempotent on its number.
PumpReads(t) ==
    /\ pump[t].at = "reading" /\ pump[t].pos < Len(log[t])
    /\ LET n == pump[t].pos + 1
           e == log[t][n]
           fresh == n > cursor[t]
       IN /\ IF fresh THEN Handle(t, e, n) ELSE UNCHANGED <<writes, rows>>
          /\ log' = [log EXCEPT ![t][n] = IF e.type = "result" THEN Result("stopped", FALSE) ELSE e]
          /\ pump' = Set(pump, t,
                 IF e.type # "result" THEN [at |-> "reading", pos |-> n]
                 ELSE IF fresh THEN [at |-> "finish", pos |-> n]
                 ELSE IdlePump)
    /\ UNCHANGED <<created, stored, slots, kicks, waiting, callers, known, active,
                   closed, resumable, calls>>

PumpFinishes(t) ==
    /\ pump[t].at = "finish"
    /\ FreeSlot(t)
    /\ pump' = [pump EXCEPT ![t].at = "drain"]
    /\ UNCHANGED <<database, rows, launched, kicks, waiting, callers, backend, calls>>

PumpReturns(t) ==
    /\ pump[t].at = "drain" /\ Drained
    /\ pump' = Set(pump, t, IdlePump)
    /\ UNCHANGED <<database, rows, slots, kick, waiting, callers, backend, calls>>

\* Nothing to read and no run: the stream ends.
PumpEnds(t) ==
    /\ pump[t].at = "reading" /\ pump[t].pos >= Len(log[t]) /\ ~active[t]
    /\ pump' = Set(pump, t, IdlePump)
    /\ UNCHANGED <<database, rows, slots, kicks, waiting, callers, backend, calls>>

-----------------------------------------------------------------------------
(* send and resume *)

\* _ensure_registered: a task that is only in the database comes back idle.
\* The operator gives the backend's variables after it.
Registered(t) ==
    IF known[t]
    THEN [log |-> log[t], cursor |-> cursor[t], closed |-> closed[t],
          resumable |-> resumable[t]]
    ELSE [log |-> [i \in 1 .. stored[t].seq |-> Blank],
          cursor |-> Upper(cursor[t], stored[t].seq), closed |-> FALSE,
          resumable |-> TRUE]

\* The routes' guards look at the row in the database.
MayResume(t) == stored[t].state \in Terminal /\ stored[t].resumable
MaySend(t) == stored[t].state = "running" \/ MayResume(t)

\* A mutant of GiveBack: a refused call keeps the slot it reserved.
GiveBackNothing(t) == live' = live \cup {t}

\* A refused call gives back the slot it reserved.
GiveBack(t) == live' = live \ {t}

\* The backend refuses: the task is closed or has no session, or resume finds a
\* run (send would steer that run and reserve nothing).
Refused(t) ==
    /\ (~active[t] /\ MaySend(t)) \/ MayResume(t)
    /\ Count("resume")
    /\ known[t]
    /\ active[t] \/ closed[t] \/ ~resumable[t]
    /\ GiveBack(t)
    /\ UNCHANGED <<database, rows, launched, kicks, pumps, callers, backend>>

Launch(t, reg) ==
    /\ active' = Set(active, t, TRUE)
    /\ known' = Set(known, t, TRUE)
    /\ log' = Set(log, t, reg.log)
    /\ closed' = Set(closed, t, reg.closed)
    /\ resumable' = Set(resumable, t, reg.resumable)

\* An idle task goes on at once, ...
Continue(t) ==
    /\ MaySend(t) /\ ~active[t]
    /\ Count("resume")
    /\ LET reg == Registered(t)
       IN /\ ~reg.closed /\ reg.resumable
          /\ Launch(t, reg)
          /\ cursor' = Set(cursor, t, reg.cursor)
    /\ live' = live \cup {t}
    /\ EnsurePump(t)
    /\ UNCHANGED <<database, row, launched, kicks, pump, callers>>

\* ... or waits for its previous run task, which has emitted its result and
\* still unwinds.
ContinueWaits(t) ==
    /\ MaySend(t) /\ ~active[t] /\ sender = Nobody
    /\ known[t] /\ ~closed[t] /\ resumable[t]
    /\ \E i \in 1 .. Len(log[t]) : log[t][i].type = "result"
    /\ Count("resume")
    /\ live' = live \cup {t}
    /\ sender' = t
    /\ UNCHANGED <<database, rows, launched, kicks, pumps, canceller, backend>>

ContinueLaunches ==
    /\ sender # Nobody
    /\ active' = Set(active, sender, TRUE)
    /\ EnsurePump(sender)
    /\ sender' = Nobody
    /\ UNCHANGED <<database, rows, slots, kicks, pump, canceller, known, closed,
                   resumable, log, calls>>

-----------------------------------------------------------------------------
(* cancel *)

MayCancel(t) ==
    /\ canceller = IdleCancel
    /\ \/ stored[t].state \in {"queued", "running"}
       \/ stored[t].state = "succeeded" /\ stored[t].resumable
    /\ Count("cancel")

\* _cancel_unstarted: the backend does not know the task.
CancelUnstarted(t) ==
    /\ MayCancel(t)
    /\ stored[t].state = "queued" /\ ~known[t]
    /\ Handle(t, Result("stopped", FALSE), cursor[t] + 1)
    /\ canceller' = [at |-> "finish", task |-> t]
    /\ UNCHANGED <<created, stored, slots, kicks, pumps, sender, backend>>

CancelFinishes ==
    /\ canceller.at = "finish"
    /\ FreeSlot(canceller.task)
    /\ canceller' = [canceller EXCEPT !.at = "drain"]
    /\ UNCHANGED <<database, rows, launched, kicks, pumps, sender, backend, calls>>

CancelDrained ==
    /\ canceller.at = "drain" /\ Drained
    /\ canceller' = IdleCancel
    /\ UNCHANGED <<database, rows, slots, kick, pumps, sender, backend, calls>>

\* The backend is asked: a run is stopped and waited for, an idle task ends with
\* a result of its own.
Cancel(t) ==
    /\ MayCancel(t)
    /\ stored[t].state = "queued" => known[t]
    /\ LET reg == Registered(t)
       IN /\ cursor' = Set(cursor, t, reg.cursor)
          /\ known' = Set(known, t, TRUE)
          /\ closed' = Set(closed, t, TRUE)
          /\ resumable' = Set(resumable, t, FALSE)
          /\ log' = Set(log, t, IF active[t] \/ reg.closed THEN reg.log
                                ELSE Append(reg.log, Result("stopped", FALSE)))
          /\ IF reg.closed
             THEN EnsurePump(t) /\ UNCHANGED canceller
             ELSE /\ canceller' = [at |-> IF active[t] THEN "stopping" ELSE "releasing",
                                   task |-> t]
                  /\ UNCHANGED waiting
    /\ UNCHANGED <<database, row, slots, kicks, pump, sender, active>>

CancelReturns ==
    /\ \/ canceller.at = "stopping" /\ ~active[canceller.task]
       \/ canceller.at = "releasing"
    /\ EnsurePump(canceller.task)
    /\ canceller' = IdleCancel
    /\ UNCHANGED <<database, rows, slots, kicks, pump, sender, backend, calls>>

-----------------------------------------------------------------------------
(* The process dies; startup restores what it left and kicks *)

\* A mutant of Restored: the row is left as it is.
RestoredAsItIs(r, again) == [r EXCEPT !.seq = @ + 1]

\* restore: a task that was running ends as cancelled, and may be resumed if it
\* has a session; a queued one still waits.
Restored(r, again) ==
    [state |-> "stopped", seq |-> r.seq + 1, resumable |-> again]

Restart ==
    /\ Count("crash")
    /\ LET back == {t \in Tasks : stored[t].state = "running"}
       IN \E again \in SUBSET back :
          /\ stored' = [t \in Tasks |-> IF t \in back THEN Restored(stored[t], t \in again)
                                                   ELSE stored[t]]
          /\ resumable' = [t \in Tasks |-> t \in again]
          /\ known' = [t \in Tasks |-> t \in back]
          /\ cursor' = [t \in Tasks |-> IF t \in back THEN stored[t].seq + 1 ELSE 0]
          /\ log' = [t \in Tasks |-> IF t \in back
                                     THEN [i \in 1 .. stored[t].seq + 1 |-> Blank]
                                     ELSE <<>>]
    /\ row' = stored' /\ writes' = <<>>
    /\ live' = {} /\ launched' = {}
    /\ kick' = IdleKick /\ kickWanted' = TRUE
    /\ pump' = [t \in Tasks |-> IdlePump] /\ waiting' = [t \in Tasks |-> 0]
    /\ sender' = Nobody /\ canceller' = IdleCancel
    /\ active' = [t \in Tasks |-> FALSE] /\ closed' = [t \in Tasks |-> FALSE]
    /\ UNCHANGED created

-----------------------------------------------------------------------------
(* The specification *)

Init ==
    /\ created = <<>> /\ writes = <<>>
    /\ stored = [t \in Tasks |-> Absent] /\ row = [t \in Tasks |-> Absent]
    /\ cursor = [t \in Tasks |-> 0]
    /\ live = {} /\ launched = {}
    /\ kick = IdleKick /\ kickWanted = FALSE
    /\ pump = [t \in Tasks |-> IdlePump] /\ waiting = [t \in Tasks |-> 0]
    /\ sender = Nobody /\ canceller = IdleCancel
    /\ known = [t \in Tasks |-> FALSE] /\ active = [t \in Tasks |-> FALSE]
    /\ closed = [t \in Tasks |-> FALSE] /\ resumable = [t \in Tasks |-> FALSE]
    /\ log = [t \in Tasks |-> <<>>]
    /\ calls \in [budget : Budgets, spent : {[c \in Calls |-> 0]}]

\* The walk of _kick has no await in it until a start fails: nothing comes
\* between, and what the writer's thread does meanwhile nobody can tell from
\* what it does afterwards.
Walk == KickEnds \/ KickSkips \/ Start \/ StartFails

Kick ==
    \/ KickBegins \/ KickFlushed \/ KickReads
    \/ FailedEarly \/ FailedFinishes \/ FailedReturns
Pump(t) ==
    \/ PumpStarts(t) \/ PumpReads(t) \/ PumpFinishes(t) \/ PumpReturns(t) \/ PumpEnds(t)
Run(t) == RunSays(t) \/ RunEnds(t)
Caller == ContinueLaunches \/ CancelFinishes \/ CancelDrained \/ CancelReturns
People(t) ==
    \/ Dispatch(t) \/ Refused(t) \/ Continue(t) \/ ContinueWaits(t)
    \/ CancelUnstarted(t) \/ Cancel(t)

EventLoop == Kick \/ Caller \/ \E t \in Tasks : Pump(t) \/ Run(t) \/ People(t)

Next ==
    \/ Walk
    \/ kick.at # "walk" /\ (EventLoop \/ WriterStores \/ Restart)

Spec == Init /\ [][Next]_vars

\* The event loop runs what is ready, the writer writes, and the waits of send
\* and cancel have time limits.  Runs and people are free.
Fairness ==
    /\ WF_vars(Walk) /\ WF_vars(kick.at # "walk" /\ Kick)
    /\ WF_vars(kick.at # "walk" /\ WriterStores)
    /\ \A t \in Tasks : WF_vars(kick.at # "walk" /\ Pump(t))
    /\ WF_vars(kick.at # "walk" /\ Caller)

FairSpec == Spec /\ Fairness

-----------------------------------------------------------------------------
(* Safety *)

\* A slot that is held is on its way back: its run goes on, or its result is
\* still to be handled, or the call that reserved it is under way.  A slot
\* without any of these would shrink the pool until the process restarts.
SlotsReturned ==
    \A t \in live :
        \/ active[t] \/ cursor[t] < Len(log[t]) \/ pump[t].at = "finish"
        \/ kick.at \in {"error", "finish"} /\ kick.task = t
        \/ canceller.at = "finish" /\ canceller.task = t
        \/ sender = t

\* Whatever a backend says of a task is read by somebody: a pump follows the
\* log or waits for the pump before it, or the cancel that is under way will
\* start one.
RunsAreWatched ==
    \A t \in Tasks : active[t] \/ cursor[t] < Len(log[t]) =>
        \/ pump[t].at = "reading" \/ waiting[t] > 0
        \/ canceller.at \in {"stopping", "releasing"} /\ canceller.task = t

\* As long as nobody cancels or resumes, agents.max_concurrent is kept.
LimitKept ==
    calls.spent["cancel"] = 0 /\ calls.spent["resume"] = 0 =>
        Cardinality({t \in Tasks : active[t]}) <= Limit

\* No slot leaks and none is given out twice, over failed starts, refused
\* resumes, cancels and restarts (agents_service.py: _live).
SlotsAccounted == TypeOK /\ SlotsReturned /\ LimitKept

\* agents_service.py says of _live: "tasks handed to a backend and not yet
\* finished".  So a task that runs is in it.
RunsHoldSlots == \A t \in Tasks : active[t] => t \in live

\* docs/agents/backends.md calls cancel terminal: a task that was cancelled in
\* the queue is not started any more.
CancelledNeverStarts ==
    [][\A t \in Tasks : known[t]' /\ ~known[t] /\ calls' = calls
                          => row[t].state = "queued"]_vars

-----------------------------------------------------------------------------
(* Liveness *)

\* With no run in progress, a task in the queue is not left there: it starts,
\* fails to start, or is cancelled, unless another run begins.
QueueMoves ==
    \A t \in Tasks :
        (stored[t].state = "queued" /\ t \notin launched /\ \A u \in Tasks : ~active[u])
            ~> (stored[t].state # "queued" \/ \E u \in Tasks : active[u])

\* The row of a run that is over does not say "running" for ever.
RowsSettle ==
    \A t \in Tasks :
        (stored[t].state = "running" /\ ~active[t])
            ~> (stored[t].state # "running" \/ active[t])
=============================================================================

------------------------------ MODULE ImageJobs ------------------------------
(***************************************************************************)
(* Image jobs: the worker half in backend/app/main.py and the rig client   *)
(* of image_jobs.py.                                                       *)
(*                                                                         *)
(* A request puts a placeholder in the thread and a row in the database.   *)
(* A sweep every few seconds, and a callback from the rig, advance the     *)
(* row: submit it, poll it, fetch the picture and write it over the        *)
(* placeholder.  A newer request of the same bot in the thread ends the    *)
(* jobs the rig has not begun; a deadline ends the rest; a restart ends    *)
(* what was never submitted.                                               *)
(*                                                                         *)
(* An action is the code between two awaits on the rig or on the disk.     *)
(* The database is one connection that runs its calls in the order they    *)
(* are issued, and every ending goes through the same calls, the row first *)
(* and then the message; so a rewrite of a message is queued with the      *)
(* change of the row and reaches the message later, in the same order.     *)
(***************************************************************************)
EXTENDS Integers, Sequences, FiniteSets

CONSTANTS
    Jobs,        \* the requests people and markers may make in one thread
    MaxOpen,     \* MAX_OPEN_RENDERS
    Submits,     \* bound: the renders the rig accepts for one job
    Budgets      \* bound: how often each of these happens in a behaviour

Extras == {"ask", "submit", "callback", "delete", "crash"}

ASSUME MaxOpenAssumption == MaxOpen \in Nat \ {0}
ASSUME SubmitsAssumption == Submits \in Nat \ {0}
ASSUME BudgetsAssumption == Budgets \subseteq [Extras -> Nat]

VARIABLES
    \* the database
    created,     \* the rows in the order of created_at
    row,         \* image_jobs.state
    rigId,       \* image_jobs.rig_job_id: which render of the job; 0 is none
    marks,       \* what the worker reads from image_jobs.progress
    shown,       \* what the placeholder says
    due,         \* rewrites of the placeholder on their way to the database
    \* the server
    up,          \* "up", "starting" (before the sweep starts) or "down"
    configured,  \* _image_jobs_configured
    adopting,    \* the open rows _resume_image_jobs has not looked at
    swept,       \* the rows the sweep has read and not yet advanced
    work,        \* the coroutine that advances the job (_image_jobs_in_flight)
    asker,       \* the request for the job: where it is, what it has to end
    deleting,    \* the delete of the placeholder, with the rig id it has read
    \* the rig and the clock
    render,      \* the renders of each job
    expired,     \* the jobs past their deadline
    spent,       \* the budget and what is spent of it
    \* history
    reopened,    \* jobs whose ended row was put back into the queue
    cut,         \* placeholders that a crash parted from their row
    lost,        \* jobs whose submit was left unanswered
    outdated,    \* jobs of which the sweep held an older row at that moment
    repins       \* how often the rig was restarted for the job

rows == <<created, row, rigId, marks>>
message == <<shown, due>>
life == <<up, configured, adopting>>
actors == <<swept, work, asker, deleting>>
world == <<render, expired, spent>>
history == <<reopened, cut, lost, outdated, repins>>
vars == <<rows, message, life, actors, world, history>>

-----------------------------------------------------------------------------
(* Types *)

Open == {"queued", "running"}
Terminal == {"done", "failed", "cancelled"}

\* "steps": the rig has counted a step.  "rig_queued": at the last poll it had
\* not begun.  The other two are the worker's own, once each.
Marks == {"steps", "rig_queued", "stall_retry", "vram_repin"}

Texts == {"pending", "picture", "failed", "cancelled", "superseded"}

Alive == {"queued", "rendering"}
RenderStates == Alive \cup {"none", "finished", "stalled", "failed", "cancelled"}

\* A row as a coroutine has read it.
Snapshots == [state : Open, rig : 0..Submits, marks : SUBSET Marks]
NoJob == [state |-> "queued", rig |-> 0, marks |-> {}]
Unread == [state |-> "unread", rig |-> 0, marks |-> {}]

\* The coroutine of a job: where it is, who began it, the row it has read, the
\* render it has submitted and what the rig has said of the one it polled.
Coroutines == [at : {"idle", "asking", "answering", "repinning", "polling", "polled",
                     "fetching", "expiring", "writing"},
               by : {"nobody", "sweep", "callback"}, job : Snapshots,
               n : 0..Submits, answer : RenderStates]
\* A request: where it is, and the open jobs it has read and is to end.
Requests == [at : {"unborn", "ending", "adding", "gone"},
             stale : SUBSET [job : Jobs, state : Open, rig : 0..Submits]]

Idle == [at |-> "idle", by |-> "nobody", job |-> NoJob, n |-> 0, answer |-> "none"]
Nothing == -1

TypeOK ==
    /\ created \in Seq(Jobs)
    /\ row \in [Jobs -> Open \cup Terminal \cup {"none", "deleted"}]
    /\ rigId \in [Jobs -> 0..Submits]
    /\ marks \in [Jobs -> SUBSET Marks]
    /\ shown \in [Jobs -> Texts \cup {"none", "deleted"}]
    /\ due \in [Jobs -> Seq(Texts)]
    /\ up \in {"up", "starting", "down"} /\ configured \in BOOLEAN
    /\ adopting \subseteq Jobs
    /\ swept \in [Jobs -> Snapshots \cup {Unread}]
    /\ work \in [Jobs -> Coroutines]
    /\ asker \in [Jobs -> Requests]
    /\ deleting \in [Jobs -> {Nothing} \cup 0..Submits]
    /\ render \in [Jobs -> [1..Submits -> RenderStates]]
    /\ expired \subseteq Jobs
    /\ spent \in [budget : Budgets, used : [Extras -> Nat]]
    /\ reopened \subseteq Jobs /\ cut \subseteq Jobs
    /\ lost \subseteq Jobs /\ outdated \subseteq Jobs
    /\ repins \in [Jobs -> Nat]

-----------------------------------------------------------------------------
(* Helpers *)

Set(f, j, v) == [f EXCEPT ![j] = v]

Spend(what) ==
    /\ spent.used[what] < spent.budget[what]
    /\ spent' = [spent EXCEPT !.used[what] = @ + 1]

IsOpen(j) == row[j] \in Open

\* open_image_jobs
OpenJobs == {j \in Jobs : IsOpen(j)}

\* A row as it is read now.
Row(j) == [state |-> row[j], rig |-> rigId[j], marks |-> marks[j]]

\* _rewrite_image_job_message; a message that was deleted stays so.
Rewritten(j, text) ==
    due' = IF row[j] = "deleted" THEN due ELSE Set(due, j, Append(due[j], text))

\* A mutant of Ended: the row is closed whatever it says, without the
\* comparison of require_open.
EndedBlindly(j, state, text) ==
    /\ row' = IF row[j] = "deleted" THEN row ELSE Set(row, j, state)
    /\ Rewritten(j, text)
    /\ UNCHANGED <<created, rigId, marks, shown>>

\* _fail_image_job and the end of _deliver_image_job: compare and set on the
\* row, and only the one who closed it rewrites the message.
Ended(j, state, text) ==
    /\ IF IsOpen(j)
       THEN row' = Set(row, j, state) /\ Rewritten(j, text)
       ELSE UNCHANGED <<row, due>>
    /\ UNCHANGED <<created, rigId, marks, shown>>

\* A mutant of Reported: the text is written whatever became of the row.
ReportedBlindly(j, new) ==
    /\ marks' = Set(marks, j, new)
    /\ Rewritten(j, "pending")
    /\ UNCHANGED <<created, row, rigId, shown>>

\* _record_image_job_progress and _mark_image_job_waiting: the same for a
\* row that stays open.
Reported(j, new) ==
    /\ IF IsOpen(j)
       THEN marks' = Set(marks, j, new) /\ Rewritten(j, "pending")
       ELSE UNCHANGED <<marks, due>>
    /\ UNCHANGED <<created, row, rigId, shown>>

\* _cancel_on_rig: best effort, so the rig may not hear it.
Withdrawn(j, n) ==
    \E heard \in BOOLEAN :
        render' = IF n # 0 /\ heard /\ render[j][n] \in Alive
                  THEN [render EXCEPT ![j][n] = "cancelled"] ELSE render

\* _job_unstarted_on_rig
Unstarted(job) == "rig_queued" \in job.marks \/ "steps" \notin job.marks

\* The job is let go, ...
Free(j) == work' = Set(work, j, Idle)

\* ... or when the message is rewritten too.
FreeAfterRewrite(j) ==
    work' = Set(work, j, IF due' = due THEN Idle
                         ELSE [Idle EXCEPT !.at = "writing", !.by = work[j].by])

-----------------------------------------------------------------------------
(* A request: POST /api/image-jobs or a marker in a reply *)

\* _supersede_stale_pic_jobs reads the open jobs of the thread.
Ask(j) ==
    /\ up = "up" /\ configured /\ asker[j].at = "unborn" /\ Spend("ask")
    /\ asker' = Set(asker, j,
         [at |-> "ending",
          stale |-> {[job |-> i, state |-> row[i], rig |-> rigId[i]] :
                       i \in {i \in OpenJobs : row[i] = "queued" \/ Unstarted(Row(i))}}])
    /\ UNCHANGED <<rows, message, life, swept, work, deleting, render, expired, history>>

\* A running job is first withdrawn from the rig.
WithdrawStale(j) ==
    \E old \in asker[j].stale :
        /\ asker[j].at = "ending" /\ old.state = "running"
        /\ Withdrawn(old.job, old.rig)
        /\ asker' = [asker EXCEPT ![j].stale =
                       (@ \ {old}) \cup {[old EXCEPT !.state = "queued"]}]
        /\ UNCHANGED <<rows, message, life, swept, work, deleting, expired, spent, history>>

EndStale(j) ==
    \E old \in asker[j].stale :
        /\ asker[j].at = "ending" /\ old.state = "queued"
        /\ Ended(old.job, "cancelled", "superseded")
        /\ asker' = [asker EXCEPT ![j].stale = @ \ {old}]
        /\ UNCHANGED <<life, swept, work, deleting, world, history>>

\* The rate limiter has the last word, after the old jobs were ended.
Refuse(j) ==
    /\ asker[j] = [at |-> "ending", stale |-> {}]
    /\ asker' = [asker EXCEPT ![j].at = "gone"]
    /\ UNCHANGED <<rows, message, life, swept, work, deleting, world, history>>

\* _start_image_job: the placeholder, ...
Place(j) ==
    /\ asker[j] = [at |-> "ending", stale |-> {}]
    /\ shown' = Set(shown, j, "pending")
    /\ asker' = [asker EXCEPT ![j].at = "adding"]
    /\ UNCHANGED <<rows, due, life, swept, work, deleting, world, history>>

\* ... and then its row.
Add(j) ==
    /\ asker[j].at = "adding"
    /\ created' = Append(created, j)
    /\ row' = Set(row, j, "queued")
    /\ asker' = [asker EXCEPT ![j].at = "gone"]
    /\ UNCHANGED <<rigId, marks, message, life, swept, work, deleting, world, history>>

\* delete_message_endpoint reads the open job of the placeholder, ...
DeleteReads(j) ==
    /\ up = "up" /\ row[j] # "none" /\ shown[j] # "deleted" /\ deleting[j] = Nothing
    /\ Spend("delete")
    /\ deleting' = Set(deleting, j, IF IsOpen(j) THEN rigId[j] ELSE 0)
    /\ UNCHANGED <<rows, message, life, swept, work, asker, render, expired, history>>

\* ... deletes the message and with it the row, and withdraws the render.
Delete(j) ==
    /\ deleting[j] # Nothing
    /\ row' = Set(row, j, "deleted")
    /\ shown' = Set(shown, j, "deleted") /\ due' = Set(due, j, <<>>)
    /\ Withdrawn(j, deleting[j])
    /\ deleting' = Set(deleting, j, Nothing)
    /\ work' = IF work[j].at = "writing" THEN Set(work, j, Idle) ELSE work
    /\ UNCHANGED <<created, rigId, marks, life, swept, asker, expired, spent, history>>

\* A rewrite that was issued reaches the message.
MessageWritten(j) ==
    /\ due[j] # <<>>
    /\ shown' = Set(shown, j, Head(due[j]))
    /\ due' = Set(due, j, Tail(due[j]))
    /\ work' = IF work[j].at = "writing" /\ due'[j] = <<>> THEN Set(work, j, Idle) ELSE work
    /\ UNCHANGED <<rows, life, swept, asker, deleting, world, history>>

-----------------------------------------------------------------------------
(* Who advances a job *)

SweepAtRest == \A j \in Jobs : swept[j] = Unread /\ work[j].by # "sweep"

\* The open jobs the rig has accepted, and those it has not.
AcceptedJobs == {j \in OpenJobs : rigId[j] # 0}
WaitingJobs == {j \in OpenJobs : rigId[j] = 0}

\* The submissions a sweep may add to what the rig has accepted.
Room ==
    LET accepted == Cardinality(AcceptedJobs)
    IN IF accepted < MaxOpen THEN MaxOpen - accepted ELSE 0

\* ORDER BY created_at: the row of i is older than the row of j.
Older(i, j) ==
    \E k, l \in DOMAIN created : k < l /\ created[k] = i /\ created[l] = j

\* The oldest of the waiting, as many as there is room for.
Admitted ==
    {j \in WaitingJobs : Cardinality({i \in WaitingJobs : Older(i, j)}) < Room}

\* _image_job_sweep: every accepted job and the oldest of the others.
Sweep ==
    LET taken == AcceptedJobs \cup Admitted
    IN /\ up = "up" /\ configured /\ SweepAtRest /\ taken # {}
       /\ swept' = [j \in Jobs |-> IF j \in taken THEN Row(j) ELSE Unread]
       /\ UNCHANGED <<rows, message, life, work, asker, deleting, world, history>>

\* _advance_image_job behind the guard: the deadline, then what the row said.
Claim(j, job, by) ==
    work' = Set(work, j, [Idle EXCEPT !.by = by, !.job = job,
              !.at = CASE j \in expired -> "expiring"
                       [] j \notin expired /\ job.state = "queued" -> "asking"
                       [] OTHER -> "polling"])

Unclaimed(j) == work[j].at = "idle"

Advance(j) ==
    /\ swept[j] # Unread /\ Unclaimed(j)
    /\ Claim(j, swept[j], "sweep")
    /\ swept' = Set(swept, j, Unread)
    /\ UNCHANGED <<rows, message, life, asker, deleting, world, history>>

\* Somebody else has the job: the sweep passes it over.
PassOver(j) ==
    /\ swept[j] # Unread /\ ~Unclaimed(j)
    /\ swept' = Set(swept, j, Unread)
    /\ UNCHANGED <<rows, message, life, work, asker, deleting, world, history>>

\* image_job_callback: the rig says, perhaps again, that a render has ended.
\* Which one and how is not believed but asked for.
Callback(j) ==
    /\ up = "up" /\ IsOpen(j) /\ Unclaimed(j)
    /\ render[j][1] # "none"
    /\ Spend("callback")
    /\ Claim(j, Row(j), "callback")
    /\ UNCHANGED <<rows, message, life, swept, asker, deleting, render, expired, history>>

\* Past the deadline: withdraw the render, end the job.
Expire(j) ==
    /\ work[j].at = "expiring"
    /\ Withdrawn(j, work[j].job.rig)
    /\ Ended(j, "failed", "failed")
    /\ FreeAfterRewrite(j)
    /\ UNCHANGED <<life, swept, asker, deleting, expired, spent, history>>

-----------------------------------------------------------------------------
(* A queued job: readiness and enqueue *)

\* The rig is not ready, leased for a while or out of reach, at any call that
\* may be repeated: the placeholder says so and the next sweep tries again.
Wait(j) ==
    /\ work[j].at \in {"asking", "polling", "fetching"}
    /\ work[j].at = "asking" \/ j \notin expired
    /\ Reported(j, work[j].job.marks)
    /\ FreeAfterRewrite(j)
    /\ UNCHANGED <<life, swept, asker, deleting, world, history>>

\* The rig refuses for good, is reserved, has lost the render or returns no
\* image; or what may be repeated fails when the deadline has passed.
GiveUp(j) ==
    /\ work[j].at \in {"asking", "polling", "fetching"}
    /\ Ended(j, "failed", "failed")
    /\ FreeAfterRewrite(j)
    /\ UNCHANGED <<life, swept, asker, deleting, world, history>>

\* The rig takes the submit and gives it an id.
Submit(j) ==
    /\ work[j].at = "asking" /\ Spend("submit")
    /\ \E n \in 1..Submits :
         /\ render[j][n] = "none" /\ \A m \in 1..(n - 1) : render[j][m] # "none"
         /\ render' = [render EXCEPT ![j][n] = "queued"]
         /\ work' = [work EXCEPT ![j].at = "answering", ![j].n = n]
    /\ UNCHANGED <<rows, message, life, swept, asker, deleting, expired, history>>

\* The answer: compare and set to running, or withdraw what was submitted.
Accepted(j) ==
    LET n == work[j].n
    IN /\ work[j].at = "answering"
       /\ IF IsOpen(j)
          THEN /\ row' = Set(row, j, "running") /\ rigId' = Set(rigId, j, n)
               /\ UNCHANGED render
          ELSE /\ Withdrawn(j, n)
               /\ UNCHANGED <<row, rigId>>
       /\ Free(j)
       /\ UNCHANGED <<created, marks, message, life, swept, asker, deleting,
                      expired, spent, history>>

\* An idle rig answers with the finished file.
AnsweredAtOnce(j) ==
    /\ work[j].at = "answering"
    /\ render' = [render EXCEPT ![j][work[j].n] = "finished"]
    /\ work' = [work EXCEPT ![j].at = "fetching"]
    /\ UNCHANGED <<rows, message, life, swept, asker, deleting, expired, spent, history>>

\* The answer is lost, and perhaps the sweep has read the row before.
Lost(j) ==
    /\ lost' = lost \cup {j}
    /\ outdated' = IF swept[j] = Unread THEN outdated ELSE outdated \cup {j}

\* A mutant of Unanswered: a lost answer is taken for a rig that is away.
UnansweredWaits(j) ==
    /\ work[j].at = "answering"
    /\ Reported(j, work[j].job.marks)
    /\ Lost(j)
    /\ FreeAfterRewrite(j)
    /\ UNCHANGED <<life, swept, asker, deleting, world, reopened, cut, repins>>

\* The answer is lost: the job ends, for a second submit may be a second render.
Unanswered(j) ==
    /\ work[j].at = "answering"
    /\ Ended(j, "failed", "failed")
    /\ Lost(j)
    /\ FreeAfterRewrite(j)
    /\ UNCHANGED <<life, swept, asker, deleting, world, reopened, cut, repins>>

\* insufficient_vram, for the first time: _repin_for_vram restarts the rig's
\* ComfyUI.
Repin(j) ==
    /\ work[j].at = "asking" /\ "vram_repin" \notin work[j].job.marks /\ j \notin expired
    /\ work' = [work EXCEPT ![j].at = "repinning"]
    /\ repins' = Set(repins, j, repins[j] + 1)
    /\ UNCHANGED <<rows, message, life, swept, asker, deleting, world, reopened, cut, lost,
                   outdated>>

\* It worked, and the job goes back to the queue; or not, and it waits.
Repinned(j) ==
    LET new == work[j].job.marks \cup {"vram_repin"}
    IN /\ work[j].at = "repinning"
       /\ \/ /\ IF IsOpen(j)
                THEN /\ row' = Set(row, j, "queued") /\ rigId' = Set(rigId, j, 0)
                     /\ marks' = Set(marks, j, new)
                     /\ Rewritten(j, "pending")
                ELSE UNCHANGED <<row, rigId, marks, due>>
             /\ UNCHANGED <<created, shown>>
          \/ Reported(j, new)
       /\ FreeAfterRewrite(j)
       /\ UNCHANGED <<life, swept, asker, deleting, world, history>>

-----------------------------------------------------------------------------
(* A running job: poll *)

\* What has become of a render since it was last looked at: the rig begins
\* it, finishes it or gives up on it, and somebody there may cancel it.
Since(state) ==
    CASE state = "queued"    -> RenderStates \ {"none"}
      [] state = "rendering" -> RenderStates \ {"none", "queued"}
      [] OTHER               -> {state}

\* get_job: the answer is what the rig said when it was asked.
Poll(j) ==
    LET n == work[j].job.rig
    IN /\ work[j].at = "polling"
       /\ \E now \in Since(render[j][n]) :
            /\ render' = [render EXCEPT ![j][n] = now]
            /\ work' = [work EXCEPT ![j].at = "polled", ![j].answer = now]
       /\ UNCHANGED <<rows, message, life, swept, asker, deleting, expired, spent, history>>

\* _note_rig_state: the rig has not begun.
PolledQueued(j) ==
    /\ work[j].at = "polled" /\ work[j].answer = "queued"
    /\ marks' = IF IsOpen(j) THEN Set(marks, j, work[j].job.marks \cup {"rig_queued"})
                             ELSE marks
    /\ Free(j)
    /\ UNCHANGED <<created, row, rigId, message, life, swept, asker, deleting, world, history>>

\* It renders, and has not counted a step yet.
PolledBegun(j) ==
    /\ work[j].at = "polled" /\ work[j].answer = "rendering"
    /\ marks' = IF IsOpen(j) THEN Set(marks, j, work[j].job.marks \ {"rig_queued"})
                             ELSE marks
    /\ Free(j)
    /\ UNCHANGED <<created, row, rigId, message, life, swept, asker, deleting, world, history>>

\* It renders: the rig's progress takes the place of the stored block, and of
\* the worker's marks only the retry is carried over.
PolledSteps(j) ==
    /\ work[j].at = "polled" /\ work[j].answer = "rendering"
    /\ Reported(j, {"steps"} \cup (work[j].job.marks \cap {"stall_retry"}))
    /\ FreeAfterRewrite(j)
    /\ UNCHANGED <<life, swept, asker, deleting, world, history>>

PolledFinished(j) ==
    /\ work[j].at = "polled" /\ work[j].answer = "finished"
    /\ work' = [work EXCEPT ![j].at = "fetching"]
    /\ UNCHANGED <<rows, message, life, swept, asker, deleting, world, history>>

\* The render stalled: _retry_stalled puts the job back into the queue, once,
\* and looks at the row no more.
Retried(j) ==
    /\ work[j].at = "polled" /\ work[j].answer = "stalled"
    /\ "stall_retry" \notin work[j].job.marks /\ j \notin expired
    /\ IF row[j] = "deleted"
       THEN UNCHANGED <<row, rigId, marks, reopened>>
       ELSE /\ row' = Set(row, j, "queued") /\ rigId' = Set(rigId, j, 0)
            /\ marks' = Set(marks, j, (work[j].job.marks \ {"rig_queued"})
                                        \cup {"stall_retry"})
            /\ reopened' = IF IsOpen(j) THEN reopened ELSE reopened \cup {j}
    /\ Rewritten(j, "pending")
    /\ FreeAfterRewrite(j)
    /\ UNCHANGED <<created, shown, life, swept, asker, deleting, world, cut, lost,
                   outdated, repins>>

PolledFailed(j) ==
    /\ work[j].at = "polled"
    /\ \/ work[j].answer = "failed"
       \/ /\ work[j].answer = "stalled"
          /\ "stall_retry" \in work[j].job.marks \/ j \in expired
    /\ Ended(j, "failed", "failed")
    /\ FreeAfterRewrite(j)
    /\ UNCHANGED <<life, swept, asker, deleting, world, history>>

PolledCancelled(j) ==
    /\ work[j].at = "polled" /\ work[j].answer = "cancelled"
    /\ Ended(j, "cancelled", "cancelled")
    /\ FreeAfterRewrite(j)
    /\ UNCHANGED <<life, swept, asker, deleting, world, history>>

\* _deliver_image_job: the picture is on the disk and the row still open; if
\* not, the file is thrown away.
Deliver(j) ==
    /\ work[j].at = "fetching"
    /\ Ended(j, "done", "picture")
    /\ FreeAfterRewrite(j)
    /\ UNCHANGED <<life, swept, asker, deleting, world, history>>

-----------------------------------------------------------------------------
(* The clock *)

Deadline(j) ==
    /\ row[j] # "none" /\ j \notin expired
    /\ expired' = expired \cup {j}
    /\ UNCHANGED <<rows, message, life, actors, render, spent, history>>

-----------------------------------------------------------------------------
(* Crash and restart *)

Crash ==
    /\ up # "down" /\ Spend("crash")
    /\ up' = "down" /\ adopting' = {}
    /\ cut' = cut \cup {j \in Jobs : due[j] # <<>> \/ asker[j].at = "adding"}
    /\ due' = [j \in Jobs |-> <<>>]
    /\ swept' = [j \in Jobs |-> Unread]
    /\ work' = [j \in Jobs |-> Idle]
    /\ asker' = [j \in Jobs |-> IF asker[j].at = "unborn" THEN asker[j]
                                ELSE [at |-> "gone", stale |-> {}]]
    /\ deleting' = [j \in Jobs |-> Nothing]
    /\ UNCHANGED <<rows, shown, configured, render, expired, reopened, lost, outdated,
                   repins>>

\* The server starts, perhaps with image generation switched off since.
Restart ==
    /\ up = "down"
    /\ up' = "starting"
    /\ configured' \in BOOLEAN
    /\ adopting' = OpenJobs
    /\ UNCHANGED <<rows, message, actors, world, history>>

\* A mutant of Orphaned: a queued row is left to the sweep.
OrphanedNever(j) == FALSE

\* What _resume_image_jobs ends at once: nobody will run it, or it may have
\* been submitted without a trace.
Orphaned(j) == ~configured \/ row[j] = "queued" \/ rigId[j] = 0

\* _resume_image_jobs looks at one row.
Adopt(j) ==
    /\ j \in adopting
    /\ \/ /\ Orphaned(j)
          /\ Ended(j, "failed", "failed") /\ UNCHANGED render
       \/ /\ ~Orphaned(j) /\ j \in expired
          /\ Withdrawn(j, rigId[j]) /\ Ended(j, "failed", "failed")
       \/ /\ ~Orphaned(j) /\ j \notin expired
          /\ UNCHANGED <<rows, message, render>>
    /\ adopting' = adopting \ {j}
    /\ UNCHANGED <<up, configured, actors, expired, spent, history>>

Started ==
    /\ up = "starting" /\ adopting = {}
    /\ up' = "up"
    /\ UNCHANGED <<rows, message, configured, adopting, actors, world, history>>

-----------------------------------------------------------------------------
(* Specification *)

Init ==
    /\ created = <<>>
    /\ row = [j \in Jobs |-> "none"] /\ rigId = [j \in Jobs |-> 0]
    /\ marks = [j \in Jobs |-> {}]
    /\ shown = [j \in Jobs |-> "none"] /\ due = [j \in Jobs |-> <<>>]
    /\ up = "up" /\ configured = TRUE /\ adopting = {}
    /\ swept = [j \in Jobs |-> Unread] /\ work = [j \in Jobs |-> Idle]
    /\ asker = [j \in Jobs |-> [at |-> "unborn", stale |-> {}]]
    /\ deleting = [j \in Jobs |-> Nothing]
    /\ render = [j \in Jobs |-> [n \in 1..Submits |-> "none"]]
    /\ expired = {}
    /\ spent \in [budget : Budgets, used : {[x \in Extras |-> 0]}]
    /\ reopened = {} /\ cut = {} /\ lost = {} /\ outdated = {}
    /\ repins = [j \in Jobs |-> 0]

Request(j) ==
    WithdrawStale(j) \/ EndStale(j) \/ Refuse(j) \/ Place(j) \/ Add(j) \/ Delete(j)

Worker(j) ==
    \/ Advance(j)
    \/ Expire(j) \/ Wait(j) \/ GiveUp(j)
    \/ Submit(j) \/ Accepted(j) \/ AnsweredAtOnce(j) \/ Unanswered(j)
    \/ Repin(j) \/ Repinned(j)
    \/ Poll(j) \/ PolledQueued(j) \/ PolledBegun(j) \/ PolledSteps(j)
    \/ PolledFinished(j) \/ Retried(j) \/ PolledFailed(j) \/ PolledCancelled(j)
    \/ Deliver(j)

Start == Restart \/ Started \/ \E j \in Jobs : Adopt(j)

Next ==
    \/ \E j \in Jobs :
         \/ Ask(j) \/ DeleteReads(j) \/ Request(j) \/ MessageWritten(j)
         \/ PassOver(j) \/ Worker(j) \/ Callback(j) \/ Deadline(j)
    \/ Sweep \/ Crash \/ Start

Spec == Init /\ [][Next]_vars

\* The event loop runs every coroutine that can go on, each call to the rig
\* has a timeout, the sweep comes round and the clock goes on.  The rig owes
\* no good answer, and nobody has to ask, to delete or to call back.
Fairness ==
    /\ WF_vars(Sweep) /\ WF_vars(Start)
    /\ \A j \in Jobs : /\ WF_vars(Request(j)) /\ WF_vars(MessageWritten(j))
                       /\ WF_vars(PassOver(j)) /\ WF_vars(Worker(j))
                       /\ WF_vars(Deadline(j))

FairSpec == Spec /\ Fairness

-----------------------------------------------------------------------------
(* Properties *)

\* What a placeholder may say over a row in that state.
Wordings(state) ==
    CASE state \in Open     -> {"pending"}
      [] state = "done"      -> {"picture"}
      [] state = "failed"    -> {"failed"}
      [] state = "cancelled" -> {"cancelled", "superseded"}
      [] state = "deleted"   -> {"deleted"}
      [] OTHER               -> {"none", "pending"}

\* The placeholder says what the row says as soon as no rewrite is under way,
\* whoever ended the job and in whatever order: never "generating" under an
\* ended job, never "timed out" over a picture.  (A crash between the row and
\* the message leaves the old text; cut remembers that.)
MessageTellsRow ==
    \A j \in Jobs : due[j] = <<>> /\ j \notin cut => shown[j] \in Wordings(row[j])

\* An ending is final, whatever the sweep, the callback, a newer request and
\* the deadline make of the row they have read: only the retry of a stalled
\* render takes one back.
EndedOnce ==
    [][\A j \in Jobs : row[j] \in Terminal =>
           row'[j] \in {row[j], "deleted"} \/ j \in reopened']_vars

\* A submit whose answer was lost is not sent again (enqueue has no
\* idempotency key): no further render of the job begins, whoever advances it
\* and whatever becomes of it.  (The sweep acts on the row it has read: of a
\* row it read before the answer was lost it knows nothing; outdated.)
NotAskedTwice ==
    [][\A j \in lost \ outdated, n \in 1..Submits :
           render[j][n] = "none" => render'[j][n] = "none"]_vars

\* The rig holds at most MAX_OPEN_RENDERS renders of open jobs, though a
\* callback submits without asking for room.  (A job that the retry of a
\* stalled render took back after its end may come on top.)
RendersBounded == Cardinality(AcceptedJobs \ reopened) <= MaxOpen

\* The row, the placeholder and the rig's queue agree, in every order of the
\* sweep, the callback, a newer request, a delete and the deadline.
JobsAccounted == TypeOK /\ MessageTellsRow /\ RendersBounded

\* Every placeholder comes to an end, through refusals, lost answers, a rig
\* that is silent, newer requests and crashes.
PlaceholdersEnd == <>[](\A j \in Jobs : shown[j] = "pending" => j \in cut)

\* A superseded or otherwise ended job is never put back (the comment on the
\* compare and set of the submit: the "superseded" line becomes a picture).
EndedStaysEnded ==
    [][\A j \in Jobs : row[j] \in Terminal => row'[j] \in {row[j], "deleted"}]_vars

\* "It was not asked twice" (the message under a job whose answer was lost).
NeverAskedTwice ==
    [][\A j \in lost, n \in 1..Submits :
           render[j][n] = "none" => render'[j][n] = "none"]_vars

\* "How many renders may be OUTSTANDING on the image server at once"
\* (MAX_OPEN_RENDERS).
NeverTooMany == Cardinality(AcceptedJobs) <= MaxOpen

\* _repin_for_vram: "ONCE per job".
RepinnedOnce == \A j \in Jobs : repins[j] <= 1
=============================================================================

--------------------------- MODULE GatewayDelivery ---------------------------
(***************************************************************************)
(* How the messages of one gateway session reach their DisPatch thread:    *)
(* SessionRouter (backend/app/gateway_router.py) on top of GatewayClient   *)
(* (gateway_ws.py) and the reconnect handler of main.py.                   *)
(*                                                                         *)
(* The gateway appends rows to the session's transcript and emits an event *)
(* for most of them, best effort.  The router follows the absolute row     *)
(* number (messageSeq), queues a repair when it jumps, and catches the     *)
(* session up when the socket comes back.  All of it runs on one asyncio   *)
(* loop: an action is the code between two awaits.                         *)
(***************************************************************************)
EXTENDS Naturals, Sequences, FiniteSetsExt

CONSTANTS
    Kinds,      \* the kinds of transcript row the gateway writes
    MaxRows,    \* bound: rows of the transcript
    QueueCap,   \* GatewayClient._events: maxsize
    PageSize,   \* BACKFILL_PAGE
    MaxFetch,   \* BACKFILL_MAX_MESSAGES
    Budgets     \* bound: how many faults of each sort the environment may make

\* "row" is a user or tool row with an event, "folded" one that is counted but
\* never emitted; the others are the assistant's: with text, with a text the
\* projection cut short, without text, and an error placeholder.
AllKinds == {"row", "folded", "reply", "long", "silent", "error"}
Faults == {"drop", "cut", "call", "deaf", "run", "restart"}

ASSUME KindsAssumption == Kinds \subseteq AllKinds /\ Kinds # {}
ASSUME BoundsAssumption ==
    /\ MaxRows \in Nat \ {0}
    /\ QueueCap \in Nat \ {0}
    /\ PageSize \in Nat \ {0}
    /\ MaxFetch \in Nat \ {0}
ASSUME BudgetsAssumption == Budgets \subseteq [Faults -> Nat]

VARIABLES
    \* the gateway and the socket
    rows,        \* the session's transcript: the kind of each row
    link,        \* is the socket open?
    subscribed,  \* does this connection carry session events?
    hello,       \* where the reconnect handler _on_connect is
    queue,       \* GatewayClient._events
    inflight,    \* the turn in _inflight_runs: none, awaited, or stranded
    \* SessionRouter
    cursor,      \* _seq: the highest row seen (0: none)
    deltaCursor, \* _delta_cursor: the rows a forward read skips (0: none)
    gapLow,      \* _gap_pending: the row before the lowest missed one (0: none)
    pump,        \* the one event consumer, inside handle()
    reader,      \* the history readers: the gap task and the two catch-ups
    held,        \* _held_errors: the error placeholder in its grace (0: none)
    refetching,  \* _detached: truncated messages being read in full
    gaveUp,      \* the rows an INCOMPLETE BACKFILL was reported for
    \* the thread, and what the properties remember
    posted,      \* rows the delivery funnel persisted
    origin,      \* the first row the cursor ever stood at (0: none yet)
    due,         \* the rows written while the router followed the session
    orphans,     \* what a run said while the socket was down
    overlooked,  \* the rows a tail read moved the delta cursor past unread
    faults       \* the faults this behaviour may have, and those it had

gateway == <<rows, link, subscribed, hello, inflight>>
router == <<cursor, deltaCursor, gapLow, held, refetching, gaveUp>>
history == <<origin, due, orphans, overlooked>>
vars == <<gateway, queue, router, pump, reader, posted, history, faults>>

-----------------------------------------------------------------------------
(* Types *)

CatchUps == {"resync", "recover"}
Readers == CatchUps \cup {"gap"}

Row == 1 .. MaxRows
Mark == 0 .. MaxRows

ReaderAt == {"idle", "sleeping", "waiting", "cursor", "walk", "deliver",
             "tail", "replay"}
Reading == [at : ReaderAt, last : Mark, from : Mark, to : Mark, got : 0 .. MaxFetch,
            force : BOOLEAN]
Idle == [at |-> "idle", last |-> 0, from |-> 0, to |-> 0, got |-> 0,
         force |-> FALSE]

Handling == [at : {"idle", "resolving", "delivering"}, row : Mark, last : Mark]
Resting == [at |-> "idle", row |-> 0, last |-> 0]

TypeOK ==
    /\ rows \in Seq(Kinds) /\ Len(rows) <= MaxRows
    /\ link \in {"down", "up"}
    /\ subscribed \in BOOLEAN
    /\ hello \in {"done", "subscribing", "resyncing"}
    /\ inflight \in {"none", "awaited", "stranded"}
    /\ queue \in Seq(Row) /\ Len(queue) <= QueueCap
    /\ cursor \in Mark /\ deltaCursor \in Mark /\ gapLow \in Mark
    /\ held \in Mark /\ refetching \subseteq Row
    /\ gaveUp \subseteq Row
    /\ pump \in Handling
    /\ reader \in [Readers -> Reading]
    /\ posted \subseteq Row /\ due \subseteq Row /\ orphans \subseteq Row /\ origin \in Mark
    /\ overlooked \subseteq Row
    /\ faults \in [budget : Budgets, spent : [Faults -> Nat]]

-----------------------------------------------------------------------------
(* Helpers *)

Last == Len(rows)

\* A row of the assistant; one with words in it; one that is not an error.
FromAssistant(s) == rows[s] \in {"reply", "long", "silent", "error"}
HasText(s) == rows[s] \in {"reply", "long", "error"}
Speech(s) == rows[s] \in {"reply", "long"}

Upper(a, b) == IF a > b THEN a ELSE b
Lower(a, b) == IF a < b THEN a ELSE b

\* The rows of a range that a repair offers to the funnel, and the next one.
Said(lo, hi) == {s \in lo .. hi : s \in 1 .. Last /\ FromAssistant(s)}
NextSaid(lo, hi) == IF Said(lo, hi) = {} THEN hi + 1 ELSE Min(Said(lo, hi))

Spend(f) ==
    /\ faults.spent[f] < faults.budget[f]
    /\ faults' = [faults EXCEPT !.spent[f] = @ + 1]

\* A call() raises when the socket is gone, is refused, or times out.
CallFails == \/ link = "down" /\ UNCHANGED faults
             \/ link = "up" /\ Spend("call")

\* _record_seq
RecordSeq(s) ==
    /\ cursor' = Upper(cursor, s)
    /\ origin' = IF origin = 0 THEN cursor' ELSE origin

\* The funnel persists a message once (source_id), whatever road it came by.
Post(s) == posted' = IF HasText(s) THEN posted \cup {s} ELSE posted

Put(r, record) == reader' = [reader EXCEPT ![r] = record]

-----------------------------------------------------------------------------
(* The gateway, its runs and the socket *)

\* The gateway writes a row and sends its event: best effort (dropIfSlow), and
\* the client's queue refuses one when it is full.
Write(kind) ==
    /\ Last < MaxRows
    /\ rows' = Append(rows, kind)
    /\ due' = IF cursor # 0 THEN due \cup {Last + 1} ELSE due
    /\ orphans' = IF link = "down" /\ inflight # "none" /\ kind \in {"reply", "long"}
                  THEN orphans \cup {Last + 1} ELSE orphans
    /\ LET sent == kind # "folded" /\ subscribed
       IN \/ /\ sent /\ Len(queue) < QueueCap
             /\ queue' = Append(queue, Last + 1)
             /\ UNCHANGED faults
          \/ sent /\ Spend("drop") /\ UNCHANGED queue
          \/ (sent => Len(queue) = QueueCap) /\ UNCHANGED <<queue, faults>>
    /\ UNCHANGED <<link, subscribed, hello, inflight, router, pump, reader,
                   posted, origin, overlooked>>

\* A turn goes out over the socket (_dispatch_turn registers the run first).
Dispatch ==
    /\ link = "up" /\ inflight = "none"
    /\ Spend("run")
    /\ inflight' = "awaited"
    /\ UNCHANGED <<rows, link, subscribed, hello, queue, router, pump, reader,
                   posted, history>>

\* The run's result arrives: the run leaves _inflight_runs.
Answered ==
    /\ link = "up" /\ inflight = "awaited"
    /\ inflight' = "none"
    /\ UNCHANGED <<rows, link, subscribed, hello, queue, router, pump, reader,
                   posted, history, faults>>

\* The socket closes.  Events already queued stay; a dispatched turn is lost
\* track of and stays registered.
Cut ==
    /\ link = "up"
    /\ Spend("cut")
    /\ link' = "down" /\ subscribed' = FALSE
    /\ inflight' = IF inflight = "awaited" THEN "stranded" ELSE inflight
    /\ UNCHANGED <<rows, hello, queue, router, pump, reader, posted, history>>

\* _run_forever opens a new socket, once the last _on_connect has returned.
Connect ==
    /\ link = "down" /\ hello = "done"
    /\ link' = "up" /\ hello' = "subscribing"
    /\ UNCHANGED <<rows, subscribed, inflight, queue, router, pump, reader,
                   posted, history, faults>>

-----------------------------------------------------------------------------
(* catch_up *)

\* Where catch_up goes once there is no delta cursor to use: the walk back to
\* the sequence cursor, else a tail read if it is forced.
FallBack(force) ==
    IF cursor # 0 THEN [Idle EXCEPT !.at = "walk", !.last = cursor]
    ELSE IF force THEN [Idle EXCEPT !.at = "tail"]
    ELSE Idle

\* Mutant of StartCatchUp: only a session with a delta cursor is caught up.
StartCatchUpCursorOnly(force) ==
    IF deltaCursor # 0
    THEN [Idle EXCEPT !.at = "cursor", !.from = deltaCursor, !.force = force]
    ELSE Idle

StartCatchUp(force) ==
    IF deltaCursor # 0
    THEN [Idle EXCEPT !.at = "cursor", !.from = deltaCursor, !.force = force]
    ELSE FallBack(force)

\* _replay delivers a page row by row and records each row before delivering it.
Replay(r, lo, hi) ==
    IF Said(lo, hi) = {}
    THEN Put(r, Idle) /\ UNCHANGED <<cursor, origin>>
    ELSE /\ Put(r, [Idle EXCEPT !.at = "replay", !.from = NextSaid(lo, hi),
                                !.to = hi])
         /\ RecordSeq(NextSaid(lo, hi))

\* _on_connect: subscribe, then catch up if the session is known.  A failed
\* subscribe is logged and passed over.
Subscribe ==
    /\ hello = "subscribing"
    /\ \/ link = "up" /\ subscribed' = TRUE /\ UNCHANGED faults
       \/ link = "down" /\ UNCHANGED <<subscribed, faults>>
       \/ Spend("deaf") /\ UNCHANGED subscribed
    /\ hello' = "resyncing"
    /\ reader["resync"].at = "idle"
    /\ IF cursor # 0 \/ deltaCursor # 0
       THEN Put("resync", StartCatchUp(FALSE))
       ELSE UNCHANGED reader
    /\ UNCHANGED <<rows, link, inflight, queue, router, pump, posted, history>>

\* _on_connect returns and leaves _recover_inflight_runs behind it.
ChaseRuns ==
    /\ hello = "resyncing" /\ reader["resync"].at = "idle"
    /\ reader["recover"].at = "idle"
    /\ hello' = "done"
    /\ IF inflight # "none"
       THEN Put("recover", [Idle EXCEPT !.at = "waiting"])
       ELSE UNCHANGED reader
    /\ UNCHANGED <<rows, link, subscribed, inflight, queue, router, pump,
                   posted, history, faults>>

\* agent.wait is over, one way or another: catch_up(force=True).
RunEnded ==
    /\ reader["recover"].at = "waiting"
    /\ Put("recover", StartCatchUp(TRUE))
    /\ UNCHANGED <<gateway, queue, router, pump, posted, history, faults>>

\* history_from_cursor answers with what follows the cursor, ...
Forward(r) ==
    /\ reader[r].at = "cursor" /\ link = "up"
    /\ deltaCursor' = Last
    /\ Replay(r, reader[r].from + 1, Last)
    /\ UNCHANGED <<gateway, queue, gapLow, held, refetching, gaveUp, pump,
                   posted, due, orphans, overlooked, faults>>

\* ... or that the cursor is too old for it ("reset"), or not at all.
NoForward(r) ==
    /\ reader[r].at = "cursor"
    /\ \/ link = "up" /\ Put(r, FallBack(TRUE)) /\ UNCHANGED faults
       \/ CallFails /\ Put(r, FallBack(reader[r].force))
    /\ UNCHANGED <<gateway, queue, router, pump, posted, history>>

\* The rows the sequence cursor has not come to.
Unseen == {s \in Row : cursor < s /\ s <= Last}

\* history_tail answers: the cursor moves to the end, and a session without a
\* sequence cursor gets the page replayed.  One that has been walked back drops
\* the page: what was written since the walk began is not read.
ReadTail(r) ==
    /\ reader[r].at = "tail" /\ link = "up"
    /\ deltaCursor' = Last
    /\ IF reader[r].last = 0
       THEN /\ Replay(r, Last + 1 - Lower(Last, PageSize), Last)
            /\ UNCHANGED overlooked
       ELSE /\ Put(r, Idle)
            /\ overlooked' = overlooked \cup (Unseen \ posted)
            /\ UNCHANGED <<cursor, origin>>
    /\ UNCHANGED <<gateway, queue, gapLow, held, refetching, gaveUp, pump,
                   posted, due, orphans, faults>>

NoReadTail(r) ==
    /\ reader[r].at = "tail"
    /\ CallFails
    /\ Put(r, Idle)
    /\ UNCHANGED <<gateway, queue, router, pump, posted, history>>

ReplayRow(r) ==
    /\ reader[r].at = "replay"
    /\ Post(reader[r].from)
    /\ Replay(r, reader[r].from + 1, reader[r].to)
    /\ UNCHANGED <<gateway, queue, deltaCursor, gapLow, held, refetching,
                   gaveUp, pump, due, orphans, overlooked, faults>>

-----------------------------------------------------------------------------
(* _backfill: the walk back through chat.history, then the delivery *)

\* Mutant of Walked: a gap queued during the repair is left to the next one.
WalkedAndDone(r) ==
    IF r = "gap" THEN Idle
    ELSE [Idle EXCEPT !.at = "tail", !.last = reader[r].last]

\* What a reader does after its walk: the gap task looks for a gap queued in
\* the meantime, a catch-up reads the tail.
Walked(r) ==
    IF r = "gap"
    THEN IF gapLow = 0 THEN Idle ELSE [Idle EXCEPT !.at = "sleeping"]
    ELSE [Idle EXCEPT !.at = "tail", !.last = reader[r].last]

\* Mutant of StopWalk: everything that was read is delivered.
StopWalkWindow(r, from, to) ==
    /\ gaveUp' = IF from = 0 THEN gaveUp \cup (reader[r].last + 1 .. Last)
                 ELSE gaveUp \cup (reader[r].last + 1 .. from - 1)
    /\ Put(r, IF from = 0 \/ Said(from, to) = {} THEN Walked(r)
              ELSE [reader[r] EXCEPT !.at = "deliver",
                                     !.from = NextSaid(from, to), !.to = to])

\* The walk of reader r stops, having read the rows from .. to.
StopWalk(r, from, to) ==
    /\ gaveUp' = IF from = 0 THEN gaveUp \cup (reader[r].last + 1 .. Last)
                 ELSE gaveUp \cup (reader[r].last + 1 .. from - 1)
    /\ LET lo == Upper(from, reader[r].last + 1)
       IN Put(r, IF from = 0 \/ Said(lo, to) = {} THEN Walked(r)
                 ELSE [reader[r] EXCEPT !.at = "deliver",
                                        !.from = NextSaid(lo, to), !.to = to])

\* One page: PageSize rows, `got` rows before the end.
Page(r) ==
    /\ reader[r].at = "walk" /\ link = "up"
    /\ LET walk == reader[r]
           end == Upper(Last, walk.got) - walk.got
           len == Lower(end, Lower(PageSize, MaxFetch - walk.got))
           low == end + 1 - len
           from == IF len = 0 THEN walk.from
                   ELSE IF walk.from = 0 THEN low ELSE Lower(walk.from, low)
           to == Upper(walk.to, end)
           got == walk.got + len
       IN IF \/ len < Lower(PageSize, MaxFetch - walk.got)
             \/ from # 0 /\ from <= walk.last + 1
             \/ got = MaxFetch
          THEN StopWalk(r, from, to)
          ELSE /\ Put(r, [walk EXCEPT !.from = from, !.to = to, !.got = got])
               /\ UNCHANGED gaveUp
    /\ UNCHANGED <<gateway, queue, cursor, deltaCursor, gapLow, held,
                   refetching, pump, posted, history, faults>>

\* A page that cannot be read ends the walk; what was read is delivered.
NoPage(r) ==
    /\ reader[r].at = "walk"
    /\ CallFails
    /\ StopWalk(r, reader[r].from, reader[r].to)
    /\ UNCHANGED <<gateway, queue, cursor, deltaCursor, gapLow, held,
                   refetching, pump, posted, history>>

DeliverRow(r) ==
    /\ reader[r].at = "deliver"
    /\ Post(reader[r].from)
    /\ LET next == NextSaid(reader[r].from + 1, reader[r].to)
       IN Put(r, IF next > reader[r].to THEN Walked(r)
                 ELSE [reader[r] EXCEPT !.from = next])
    /\ UNCHANGED <<gateway, queue, router, pump, history, faults>>

\* _drain_gap after its delay: _run_gap takes the queued gap.
GapWakes ==
    /\ reader["gap"].at = "sleeping"
    /\ Put("gap", IF gapLow = 0 THEN Idle
                  ELSE [Idle EXCEPT !.at = "walk", !.last = gapLow])
    /\ gapLow' = 0
    /\ UNCHANGED <<gateway, queue, cursor, deltaCursor, held, refetching,
                   gaveUp, pump, posted, history, faults>>

-----------------------------------------------------------------------------
(* handle: the live road *)

\* The pump takes an event; handle reads the cursor and resolves the thread.
Take ==
    /\ pump.at = "idle" /\ queue # <<>>
    /\ pump' = [at |-> "resolving", row |-> Head(queue), last |-> cursor]
    /\ queue' = Tail(queue)
    /\ UNCHANGED <<gateway, router, reader, posted, history, faults>>

\* Mutant of ScheduleGap: the latest gap replaces the one already queued.
ScheduleGapLatest(last) ==
    /\ gapLow' = last
    /\ IF reader["gap"].at = "idle"
       THEN Put("gap", [Idle EXCEPT !.at = "sleeping"])
       ELSE UNCHANGED reader

\* _schedule_gap: the lowest missed row wins, one task per session.
ScheduleGap(last) ==
    /\ gapLow' = IF gapLow = 0 THEN last ELSE Lower(gapLow, last)
    /\ IF reader["gap"].at = "idle"
       THEN Put("gap", [Idle EXCEPT !.at = "sleeping"])
       ELSE UNCHANGED reader

\* The thread is known: record the row, queue a repair if rows were skipped,
\* and pass a message of the assistant on; an error placeholder is held, and
\* any other message of the assistant calls the held one off.
Resolve ==
    /\ pump.at = "resolving"
    /\ LET s == pump.row
       IN /\ RecordSeq(s)
          /\ IF pump.last # 0 /\ s > pump.last + 1
             THEN ScheduleGap(pump.last)
             ELSE UNCHANGED <<gapLow, reader>>
          /\ held' = IF rows[s] = "error" THEN s
                     ELSE IF FromAssistant(s) THEN 0 ELSE held
          /\ refetching' = IF rows[s] = "long" THEN refetching \cup {s}
                           ELSE refetching
          /\ pump' = IF rows[s] = "reply" THEN [pump EXCEPT !.at = "delivering"]
                     ELSE Resting
    /\ UNCHANGED <<gateway, queue, deltaCursor, gaveUp, posted, due,
                   orphans, overlooked, faults>>

Deliver ==
    /\ pump.at = "delivering"
    /\ Post(pump.row)
    /\ pump' = Resting
    /\ UNCHANGED <<gateway, queue, router, reader, history, faults>>

\* _deliver_refetched: in full or, if the read failed, as projected.
Refetched(s) ==
    /\ s \in refetching
    /\ Post(s)
    /\ refetching' = refetching \ {s}
    /\ UNCHANGED <<gateway, queue, cursor, deltaCursor, gapLow, held,
                   gaveUp, pump, reader, history, faults>>

\* _release_error, after the grace.
ReleaseError ==
    /\ held # 0
    /\ Post(held)
    /\ held' = 0
    /\ UNCHANGED <<gateway, queue, cursor, deltaCursor, gapLow, refetching,
                   gaveUp, pump, reader, history, faults>>

\* The process dies and comes back: everything it knew was in memory.
Restart ==
    /\ Spend("restart")
    /\ link' = "down" /\ subscribed' = FALSE /\ hello' = "done"
    /\ inflight' = "none" /\ queue' = <<>>
    /\ cursor' = 0 /\ deltaCursor' = 0 /\ gapLow' = 0
    /\ held' = 0 /\ refetching' = {} /\ gaveUp' = {}
    /\ pump' = Resting /\ reader' = [r \in Readers |-> Idle]
    /\ UNCHANGED <<rows, posted, history>>

-----------------------------------------------------------------------------
(* The specification *)

Init ==
    /\ rows \in {<<>>} \cup {<<kind>> : kind \in Kinds}
    /\ link = "down" /\ subscribed = FALSE /\ hello = "done"
    /\ inflight = "none" /\ queue = <<>>
    /\ cursor = 0 /\ deltaCursor = 0 /\ gapLow = 0
    /\ held = 0 /\ refetching = {} /\ gaveUp = {}
    /\ pump = Resting /\ reader = [r \in Readers |-> Idle]
    /\ posted = {} /\ origin = 0 /\ due = {} /\ orphans = {}
    /\ overlooked = {}
    /\ faults \in [budget : Budgets, spent : {[f \in Faults |-> 0]}]

Gateway == Dispatch \/ Answered \/ Cut \/ \E kind \in Kinds : Write(kind)
Reconnect == Connect \/ Subscribe \/ ChaseRuns \/ RunEnded
Read(r) == Page(r) \/ NoPage(r) \/ DeliverRow(r)
CatchUp(r) == Forward(r) \/ NoForward(r) \/ ReadTail(r) \/ NoReadTail(r) \/ ReplayRow(r)
Live == Take \/ Resolve \/ Deliver

Next ==
    \/ Gateway \/ Restart
    \/ Reconnect
    \/ \E r \in Readers : Read(r)
    \/ \E r \in CatchUps : CatchUp(r)
    \/ GapWakes
    \/ Live
    \/ \E s \in Row : Refetched(s)
    \/ ReleaseError

Spec == Init /\ [][Next]_vars

\* What the event loop runs: whatever is ready gets its turn, a call ends one
\* way or another, a timer fires, and _run_forever reconnects for ever.
Fairness ==
    /\ WF_vars(Live)
    /\ WF_vars(Connect) /\ WF_vars(Subscribe) /\ WF_vars(ChaseRuns)
    /\ WF_vars(RunEnded) /\ WF_vars(GapWakes) /\ WF_vars(ReleaseError)
    /\ \A r \in Readers : WF_vars(Read(r))
    /\ \A r \in CatchUps : WF_vars(CatchUp(r))
    /\ \A s \in Row : WF_vars(Refetched(s))

FairSpec == Spec /\ Fairness

-----------------------------------------------------------------------------
(* Properties *)

\* What the router owes the thread: what the assistant has said since the router
\* follows the session.
Owed == {s \in due : HasText(s) /\ s \notin posted}

\* An error placeholder is called off by the assistant's next message.
CalledOff(s) == rows[s] = "error" /\ \E t \in s + 1 .. Last : FromAssistant(t)

\* Reader r is on its way to row s.
OnItsWay(r, s) ==
    \/ /\ reader[r].at = "walk" /\ reader[r].last < s
       /\ reader[r].got = 0 \/ s <= reader[r].to
    \/ reader[r].at \in {"deliver", "replay"} /\ s \in reader[r].from .. reader[r].to

InHand(s) ==
    \/ \E i \in 1 .. Len(queue) : queue[i] = s
    \/ pump.at # "idle" /\ pump.row = s
    \/ s \in refetching \/ s = held
    \/ \E r \in Readers : OnItsWay(r, s)

\* The next event, or the next reconnect, will show that s is missing.
Traceable(s) == s > cursor \/ (gapLow # 0 /\ gapLow < s)

\* A row that is lost on the way is never forgotten silently: it is in
\* somebody's hands, or the marks the router keeps still lead to it, or a
\* repair has given up and counted it ("VISIBLE, not silent").  Excepted are a
\* restart, which forgets the marks, the chase of a stranded run, whose read
\* of the newest rows moves them ahead, and the rows that were written between
\* a walk and the tail read after it.
\* (gateway_router.py: handle, _schedule_gap, _backfill, catch_up)
Remembered(s) == CalledOff(s) \/ InHand(s) \/ Traceable(s) \/ s \in gaveUp

NoSilentLoss ==
    faults.spent["restart"] = 0 /\ faults.spent["run"] = 0 =>
        \A s \in Owed : Remembered(s) \/ s \in overlooked

\* The same without the last exception: "catch-up from a cursor replays exactly
\* what was missed" (gateway_router.py).
NothingOverlooked ==
    faults.spent["restart"] = 0 /\ faults.spent["run"] = 0 =>
        \A s \in Owed : Remembered(s)

\* A queued gap always has a task that will chase it, also one queued while
\* the repair was running.  (_schedule_gap, _drain_gap)
GapIsAttended == gapLow # 0 => reader["gap"].at # "idle"

\* Without a run to chase, nothing from before the router first saw the session
\* is ever posted: a repair delivers what the gap swallowed and not the window
\* it read.  (_backfill)
NoOldNews ==
    faults.spent["run"] = 0 => \A s \in posted : origin # 0 /\ s >= origin

\* Every row the assistant says reaches the thread, or a repair gives up on it
\* and says so.  (the whole module, when the gateway drops no event)
SpeechLands ==
    \A s \in Row : s \in Owed ~> (s \notin Owed \/ CalledOff(s) \/ s \in gaveUp)

\* When the chase of a run a disconnect stranded is over, and no read failed,
\* what the run said in the meantime has been posted.
\* (_recover_inflight_runs, catch_up(force=True))
StrandedSpeechIsRecovered ==
    hello = "done" /\ link = "up" /\ reader["recover"].at = "idle"
        /\ gaveUp = {} /\ faults.spent["call"] = 0
        => orphans \subseteq posted

=============================================================================

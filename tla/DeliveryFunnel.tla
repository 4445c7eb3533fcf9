--------------------------- MODULE DeliveryFunnel ---------------------------
(***************************************************************************)
(* The funnel every assistant message passes on its way into a thread      *)
(* (backend/app/main.py, "Unified assistant-text delivery").  One reply    *)
(* comes down several roads, abridged on some of them and with the         *)
(* gateway's id on some of them, and has to be in the thread once.         *)
(*                                                                         *)
(* A delivery takes the thread's lock, asks the database for its source    *)
(* id, looks at the claims in memory and puts its own, scans the thread,   *)
(* writes its row, shows it, and retires the row it completes.  Between    *)
(* two of these steps the person may write, the next turn may begin, the   *)
(* task may be cancelled, the database may fail and the process may die.   *)
(***************************************************************************)
EXTENDS Naturals, FiniteSets

CONSTANTS
    Replies,        \* the replies the agent gives
    Words,          \* what they say
    Wording,        \* the words of each reply: two may say the same
    OpenRoads,      \* the roads in use
    MaxAsks,        \* messages the person writes
    MaxCopies,      \* deliveries started
    MaxFaults       \* failures, cancellations and crashes

ASSUME WordingAssumption == Wording \in [Replies -> Words]

ASSUME BoundsAssumption ==
    /\ MaxAsks \in Nat
    /\ MaxCopies \in Nat
    /\ MaxFaults \in Nat

\* Who delivers: the turn (payload, narration, reconciliation), the follower
\* of its transcript, the gateway's events, its backfill, the transcript
\* sweep, and the recovery of a crashed turn at start.
Roads == {"turn", "follower", "live", "replay", "sweep", "recovery"}

ASSUME RoadsAssumption == OpenRoads \subseteq Roads

HasSource == {"live", "replay"}                         \* source_id
Dated     == {"live", "replay", "sweep", "recovery"}    \* created_at
Recent    == {"turn", "follower", "sweep"}              \* dedup_recent_window
WholeScan == {"replay"}                                 \* dedup_whole_thread

VARIABLES
    rows,           \* the assistant rows of the thread
    alive,          \* the thread exists
    clock,          \* orders the rows as created_at does
    opened,         \* the clock of the newest row that is no reply
    asked,          \* messages of the person
    begun,          \* turns begun
    busy,           \* a turn holds the turn lock
    born,           \* clock of each reply in the transcript, 0: not given
    aged,           \* replies given more than DEDUP_RECENT_WINDOW_S ago
    current,        \* replies of the turn begun last
    stranded,       \* replies of the turn a crash cut
    known,          \* the texts the sweep saw when it started
    delivered,      \* _delivered: the claims of the thread
    lock,           \* _deliver_locks: the road that holds it
    job,            \* what each road is delivering
    copies,         \* deliveries started
    faults,         \* failures so far
    accepted,       \* history: the texts the funnel took as delivered
    cut             \* history: rows written by an upgrade that was cut

threadState == <<rows, alive, clock, opened>>
turnState   == <<asked, begun, busy, born, aged, current, stranded>>
funnelState == <<delivered, lock, job>>
history     == <<accepted, cut>>
vars == <<threadState, turnState, known, funnelState, copies, faults, history>>

-----------------------------------------------------------------------------
(* Texts and rows *)

Texts == [words : Words, len : 1 .. 2]

TextOf(reply, len) == [words |-> Wording[reply], len |-> len]

RowText(row) == TextOf(row.reply, row.len)

\* _is_twin: the same words, one perhaps cut short.
Twin(s, t) == s.words = t.words

Covers(s, t) == Twin(s, t) /\ t.len <= s.len

Free == "free"

Idle == [step |-> "idle"]

Steps == {"waiting", "claimed", "write", "landed"}

\* over is the row this one completes, row the one written; 0: none.
Job == [step : Steps, reply : Replies, len : 1 .. 2, over : Nat, row : Nat]

JobText(r) == TextOf(job[r].reply, job[r].len)

At(r, step) == job[r].step = step

\* created_at, then the order of insertion.
Before(x, y) == x.at < y.at \/ (x.at = y.at /\ x.id < y.id)

Newest(S) == {x \in S : \A y \in S : x = y \/ Before(y, x)}

Oldest(S) == {x \in S : \A y \in S : x = y \/ Before(x, y)}

Row ==
    [id : Nat, at : Nat, reply : Replies, len : 1 .. 2, source : BOOLEAN,
     fresh : BOOLEAN, prompt : BOOLEAN]

\* prompt: nobody wrote between the reply and its row.
NewRow(r) ==
    LET reply == job[r].reply
    IN  [id     |-> clock + 1,
         at     |-> IF r \in Dated THEN born[reply] ELSE clock + 1,
         reply  |-> reply,
         len    |-> job[r].len,
         source |-> r \in HasSource,
         fresh  |-> r \in Dated => reply \notin aged,
         prompt |-> opened < born[reply]]

Given == {m \in Replies : born[m] # 0}

\* source_id_seen
SourceSeen(reply) == \E row \in rows : row.reply = reply /\ row.source

\* What the tables refuse: a source id twice, a row of a deleted thread.
Refuses(r) == ~alive \/ (r \in HasSource /\ SourceSeen(job[r].reply))

-----------------------------------------------------------------------------
(* _is_duplicate_message *)

Twins(r) == {row \in rows : Twin(RowText(row), JobText(r))}

\* The run of replies since the row that opened the turn.
Trailing(r) == {row \in Twins(r) : row.at >= opened}

Match(r) ==
    IF r \in WholeScan THEN Oldest(Twins(r))
    ELSE IF Trailing(r) # {} THEN Newest(Trailing(r))
    ELSE IF r \in Recent THEN Newest({row \in Twins(r) : row.fresh})
    ELSE {}

\* Mutant: the words decide, whatever the ids say (before the wipe fix).
SameMessageByWords(r, row) == TRUE

\* A row of another source id is another message.
SameMessage(r, row) ==
    r \in HasSource => (~row.source \/ row.reply = job[r].reply)

Existing(r) == {row \in Match(r) : SameMessage(r, row)}

-----------------------------------------------------------------------------
(* The claims *)

ClaimTwins(r) == {t \in delivered : Twin(t, JobText(r))}

\* Mutant: a failed delivery keeps its claim.
ReleasedNever(r) == delivered

\* A claim is put before anything is awaited, and released by a failure.
Released(r) == delivered \ {JobText(r)}

Unlocked(r) == IF lock = r THEN Free ELSE lock

\* The rows after road r was stopped: a row on its way may be in already.
Stopped(r, after) ==
    \/ after = rows
    \/ At(r, "write") /\ ~Refuses(r) /\ after = rows \cup {NewRow(r)}

\* An upgrade has a row to complete once its own is in.
Upgrades(r) == At(r, "landed") /\ job[r].over # 0

Upgrading == {job[r].row : r \in {q \in OpenRoads : Upgrades(q)}}

\* One that stops once its row is in leaves both rows: the row was in before,
\* or was on its way and is among the rows after.
CutBy(r, after) ==
    IF Upgrades(r) THEN {job[r].row}
    ELSE IF At(r, "write") /\ job[r].over # 0 THEN {row.id : row \in after \ rows}
    ELSE {}

-----------------------------------------------------------------------------
(* The person, the agent and time *)

\* A crashed turn is recovered before the server takes anything else.
Recovering == stranded # {}

\* The row of a message is written at once, its turn waits for the lock.
Ask ==
    /\ alive
    /\ ~Recovering
    /\ asked < MaxAsks
    /\ asked' = asked + 1
    /\ clock' = clock + 1
    /\ opened' = clock + 1
    /\ UNCHANGED <<rows, alive, begun, busy, born, aged, current, stranded,
                   known, funnelState, copies, faults, history>>

\* The turn stops the follower and forgets the claims of the turn before.
BeginTurn ==
    /\ ~Recovering
    /\ ~busy
    /\ begun < asked
    /\ begun' = begun + 1
    /\ busy' = TRUE
    /\ current' = {}
    /\ delivered' = {}
    /\ job' = [job EXCEPT !["follower"] = Idle]
    /\ lock' = Unlocked("follower")
    /\ Stopped("follower", rows')
    /\ clock' = IF rows' = rows THEN clock ELSE clock + 1
    /\ accepted' = accepted \cup {RowText(row) : row \in rows'}
    /\ cut' = cut \cup CutBy("follower", rows')
    /\ UNCHANGED <<alive, opened, asked, born, aged, stranded, known, copies,
                   faults>>

EndTurn ==
    /\ busy
    /\ job["turn"] = Idle
    /\ busy' = FALSE
    /\ UNCHANGED <<threadState, asked, begun, born, aged, current, stranded,
                   known, funnelState, copies, faults, history>>

Give(m) ==
    /\ busy
    /\ born[m] = 0
    /\ clock' = clock + 1
    /\ born' = [born EXCEPT ![m] = clock + 1]
    /\ current' = current \cup {m}
    /\ UNCHANGED <<rows, alive, opened, asked, begun, busy, aged, stranded,
                   known, funnelState, copies, faults, history>>

\* DEDUP_RECENT_WINDOW_S passes.
TimePasses ==
    /\ rows' = {[row EXCEPT !.fresh = FALSE] : row \in rows}
    /\ aged' = Given
    /\ UNCHANGED <<alive, clock, opened, asked, begun, busy, born, current,
                   stranded, known, funnelState, copies, faults, history>>

\* The sweep reads which texts the thread has before it delivers any.
SweepReads ==
    /\ "sweep" \in OpenRoads
    /\ ~Recovering
    /\ job["sweep"] = Idle
    /\ known' = {RowText(row) : row \in rows}
    /\ UNCHANGED <<threadState, turnState, funnelState, copies, faults, history>>

-----------------------------------------------------------------------------
(* One delivery *)

\* Any reply of the transcript: a follower whose file shrank and a
\* reconciliation that found another file read it from the start.
Carries(r, m, len) ==
    /\ r = "turn" => busy
    /\ r = "follower" => ~busy /\ begun > 0
    /\ r = "sweep" => TextOf(m, len) \notin known
    /\ IF Recovering THEN r = "recovery" /\ m \in stranded ELSE r # "recovery"

Hear(r, m, len) ==
    /\ copies < MaxCopies
    /\ job[r] = Idle
    /\ m \in Given
    /\ Carries(r, m, len)
    /\ copies' = copies + 1
    /\ job' = [job EXCEPT ![r] = [step |-> "waiting", reply |-> m,
                                  len |-> len, over |-> 0, row |-> 0]]
    /\ UNCHANGED <<threadState, turnState, known, delivered, lock, faults,
                   history>>

\* Mutant: no lock around the funnel (before 2026-09-21).
MayTakeAtOnce(r) == TRUE

\* The thread's lock is free: _deliver_unlocked runs up to its first scan.
MayTake(r) == lock = Free

\* The source id is there, or a claim at least as long is.
Recognised(r) ==
    IF r \in HasSource THEN SourceSeen(job[r].reply)
    ELSE \E t \in ClaimTwins(r) : Covers(t, JobText(r))

TakeKnown(r) ==
    /\ At(r, "waiting")
    /\ MayTake(r)
    /\ Recognised(r)
    /\ accepted' = IF r \in HasSource THEN accepted
                   ELSE accepted \cup {JobText(r)}
    /\ job' = [job EXCEPT ![r] = Idle]
    /\ UNCHANGED <<threadState, turnState, known, delivered, lock, copies,
                   faults, cut>>

\* A delivery without a source id drops the shorter claim it completes.
TakeNew(r) ==
    /\ At(r, "waiting")
    /\ MayTake(r)
    /\ ~Recognised(r)
    /\ delivered' = (IF r \in HasSource THEN delivered
                     ELSE delivered \ ClaimTwins(r)) \cup {JobText(r)}
    /\ lock' = r
    /\ job' = [job EXCEPT ![r].step = "claimed"]
    /\ UNCHANGED <<threadState, turnState, known, copies, faults, history>>

\* The thread has it: a shorter or equal twin is dropped, the claim stays.
ScanFinds(r) ==
    /\ At(r, "claimed")
    /\ \E row \in Existing(r) : Covers(RowText(row), JobText(r))
    /\ accepted' = accepted \cup {JobText(r)}
    /\ job' = [job EXCEPT ![r] = Idle]
    /\ lock' = Unlocked(r)
    /\ UNCHANGED <<threadState, turnState, known, delivered, copies, faults,
                   cut>>

\* Mutant: the shorter row is deleted before its replacement is written.
ScanRetires(r) ==
    /\ At(r, "claimed")
    /\ alive
    /\ \A row \in Existing(r) : ~Covers(RowText(row), JobText(r))
    /\ rows' = rows \ Existing(r)
    /\ job' = [job EXCEPT ![r].step = "write"]
    /\ UNCHANGED <<alive, clock, opened, turnState, known, delivered, lock,
                   copies, faults, history>>

\* It has not, or has a shorter one this copy will complete.
ScanPasses(r) ==
    /\ At(r, "claimed")
    /\ alive
    /\ \A row \in Existing(r) : ~Covers(RowText(row), JobText(r))
    /\ \E over \in IF Existing(r) = {} THEN {0} ELSE {x.id : x \in Existing(r)} :
          job' = [job EXCEPT ![r].step = "write", ![r].over = over]
    /\ UNCHANGED <<threadState, turnState, known, delivered, lock, copies,
                   faults, history>>

\* The thread was deleted meanwhile.
ScanGone(r) ==
    /\ At(r, "claimed")
    /\ ~alive
    /\ job' = [job EXCEPT ![r] = Idle]
    /\ lock' = Unlocked(r)
    /\ UNCHANGED <<threadState, turnState, known, delivered, copies, faults,
                   history>>

Write(r) ==
    /\ At(r, "write")
    /\ ~Refuses(r)
    /\ rows' = rows \cup {NewRow(r)}
    /\ clock' = clock + 1
    /\ accepted' = accepted \cup {JobText(r)}
    /\ job' = [job EXCEPT ![r].step = "landed", ![r].row = clock + 1]
    /\ UNCHANGED <<alive, opened, turnState, known, delivered, lock, copies,
                   faults, cut>>

\* The words have been shown; the row this one completes goes, provided the
\* new one really is on disk.
Land(r) ==
    /\ At(r, "landed")
    /\ rows' = IF \E row \in rows : row.id = job[r].row
               THEN {row \in rows : row.id # job[r].over}
               ELSE rows
    /\ job' = [job EXCEPT ![r] = Idle]
    /\ lock' = Unlocked(r)
    /\ UNCHANGED <<alive, clock, opened, turnState, known, delivered, copies,
                   faults, history>>

-----------------------------------------------------------------------------
(* What goes wrong *)

\* An exception or a cancellation under the lock releases the claim.
Stop(r) ==
    /\ job[r] # Idle
    /\ ~At(r, "waiting")
    /\ delivered' = Released(r)
    /\ job' = [job EXCEPT ![r] = Idle]
    /\ lock' = Unlocked(r)
    /\ Stopped(r, rows')
    /\ clock' = IF rows' = rows THEN clock ELSE clock + 1
    /\ accepted' = accepted \cup {RowText(row) : row \in rows'}
    /\ cut' = cut \cup CutBy(r, rows')
    /\ UNCHANGED <<alive, opened, turnState, known, copies>>

Fail(r) ==
    /\ alive
    /\ faults < MaxFaults
    /\ faults' = faults + 1
    /\ Stop(r)

Refused(r) ==
    /\ At(r, "write")
    /\ Refuses(r)
    /\ delivered' = Released(r)
    /\ job' = [job EXCEPT ![r] = Idle]
    /\ lock' = Unlocked(r)
    /\ UNCHANGED <<threadState, turnState, known, copies, faults, history>>

\* A thread deleted for good: its rows, its follower and its claims go.
DeleteThread ==
    /\ alive
    /\ faults < MaxFaults
    /\ faults' = faults + 1
    /\ alive' = FALSE
    /\ rows' = {}
    /\ delivered' = {}
    /\ job' = [job EXCEPT !["follower"] = Idle]
    /\ lock' = Unlocked("follower")
    /\ UNCHANGED <<clock, opened, turnState, known, copies, history>>

\* Everything in memory is gone; a row on its way may be in.
Crash ==
    /\ faults < MaxFaults
    /\ faults' = faults + 1
    /\ IF lock = Free THEN rows' = rows ELSE Stopped(lock, rows')
    /\ clock' = IF rows' = rows THEN clock ELSE clock + 1
    /\ accepted' = accepted \cup {RowText(row) : row \in rows'}
    /\ cut' = IF lock = Free THEN cut ELSE cut \cup CutBy(lock, rows')
    /\ stranded' = IF busy THEN current ELSE {}
    /\ begun' = asked
    /\ busy' = FALSE
    /\ delivered' = {}
    /\ lock' = Free
    /\ job' = [r \in Roads |-> Idle]
    /\ known' = {}
    /\ UNCHANGED <<alive, opened, asked, born, aged, current, copies>>

RecoveryDone ==
    /\ Recovering
    /\ job["recovery"] = Idle
    /\ stranded' = {}
    /\ UNCHANGED <<threadState, asked, begun, busy, born, aged, current, known,
                   funnelState, copies, faults, history>>

-----------------------------------------------------------------------------
Init ==
    /\ rows = {} /\ alive = TRUE /\ clock = 0 /\ opened = 0
    /\ asked = 0 /\ begun = 0 /\ busy = FALSE
    /\ born = [m \in Replies |-> 0] /\ aged = {}
    /\ current = {} /\ stranded = {} /\ known = {}
    /\ delivered = {} /\ lock = Free /\ job = [r \in Roads |-> Idle]
    /\ copies = 0 /\ faults = 0
    /\ accepted = {} /\ cut = {}

Deliver(r) ==
    \/ TakeKnown(r) \/ TakeNew(r)
    \/ ScanFinds(r) \/ ScanPasses(r) \/ ScanGone(r)
    \/ Write(r) \/ Land(r) \/ Refused(r)

Next ==
    \/ Ask \/ BeginTurn \/ EndTurn \/ TimePasses \/ SweepReads \/ RecoveryDone
    \/ \E m \in Replies : Give(m)
    \/ \E r \in OpenRoads, m \in Replies, len \in 1 .. 2 : Hear(r, m, len)
    \/ \E r \in OpenRoads : Deliver(r) \/ Fail(r)
    \/ DeleteThread \/ Crash

Spec == Init /\ [][Next]_vars

-----------------------------------------------------------------------------
(* Properties *)

TypeOK ==
    /\ rows \subseteq Row
    /\ alive \in BOOLEAN
    /\ clock \in Nat /\ opened \in Nat /\ asked \in Nat /\ begun \in Nat
    /\ busy \in BOOLEAN
    /\ born \in [Replies -> Nat]
    /\ aged \subseteq Replies /\ current \subseteq Replies
    /\ stranded \subseteq Replies
    /\ known \subseteq Texts /\ delivered \subseteq Texts
    /\ lock \in OpenRoads \cup {Free}
    /\ job \in [Roads -> Job \cup {Idle}]
    /\ copies \in Nat /\ faults \in Nat
    /\ accepted \subseteq Texts /\ cut \subseteq Nat

\* "Nothing the agent says is ever silently dropped" (main.py, the funnel's
\* header): a text the funnel wrote, or refused as already there, can be read
\* in the thread, whole or as part of a longer copy, whatever was cancelled,
\* upgraded, forgotten or lost in a crash since, as long as the thread is.
NothingSaidIsLost ==
    alive => \A t \in accepted : \E row \in rows : Covers(RowText(row), t)

\* A claim without a row would refuse every later copy (the release in
\* _deliver_unlocked's except clause): in a living thread a claim is backed
\* by a row, or by the delivery that holds the lock.
ClaimsAreBacked ==
    alive => \A t \in delivered :
        \/ \E row \in rows : Covers(RowText(row), t)
        \/ \E r \in OpenRoads :
              lock = r /\ (At(r, "claimed") \/ At(r, "write")) /\ JobText(r) = t

\* What the funnel has taken in is in the thread, and what it refuses copies of
\* is what it has taken in.
SaidAndClaimed == TypeOK /\ NothingSaidIsLost /\ ClaimsAreBacked

\* No other reply says the same: the twin test takes two such replies of one
\* turn for one (_is_twin, the accepted trade-off).
Distinct(m) == \A k \in Given : Wording[k] = Wording[m] => k = m

\* While nobody has written since a reply was given, the roads that deliver
\* it agree on one row (_deliver_unlocked), unless an upgrade is, or was cut,
\* between its two writes.
OncePerTurn ==
    \A x, y \in rows :
        Distinct(x.reply) /\ x.prompt /\ y.prompt /\ x.reply = y.reply /\ x # y =>
            {x.id, y.id} \cap (cut \cup Upgrading) # {}

\* The wipe of 2026-09-14 (_deliver_unlocked, WIPE FIX): a gateway row never
\* goes for the sake of another gateway message that begins like it; only a
\* longer copy that came without an id may complete it.
Kept(x, after) == \E y \in after : y.id = x.id

GatewayRowsStay ==
    [][\A x \in rows :
          x.source /\ alive' /\ ~Kept(x, rows') =>
              \E y \in rows' : ~y.source /\ y.len > x.len
                              /\ Twin(RowText(y), RowText(x))]_vars

\* "Serialised, the second always sees the first's row" (main.py:5310): a
\* reply is in the thread once.
SecondSeesFirst ==
    \A x, y \in rows :
        x.reply = y.reply /\ x # y => {x.id, y.id} \cap (cut \cup Upgrading) # {}

\* The thread only ever gains text: the funnel implements ThreadText.
Shown == UNION {{t \in Texts : Covers(RowText(row), t)} : row \in rows}

Thread == INSTANCE ThreadText WITH Words <- Words, shown <- Shown, alive <- alive

ThreadOnlyGrows == Thread!ThreadSpec
=============================================================================

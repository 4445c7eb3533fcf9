---------------------------- MODULE LiveBubbles ----------------------------
(***************************************************************************)
(* The words of a reply while it is still being written.  The gateway      *)
(* sends a turn's words as deltas; the session router (gateway_router.py)  *)
(* joins, cleans and coalesces them into chunks for a provisional bubble   *)
(* "run:<id>"; the browser (main.js) paints them.  Three parties retire a  *)
(* bubble: the row that lands in the thread (main.py _landing_frame), the  *)
(* router's settle timer when no row comes, and a late chunk that finds    *)
(* the bubble gone.  One registry entry per thread says which bubble is    *)
(* open (main.py _provisional_runs).                                       *)
(*                                                                         *)
(* One thread, one browser looking at it.  Frames to the browser are       *)
(* applied as they are sent: the socket to one browser is in order and a   *)
(* browser that loses it is the action Reload.  Timers carry no length: a  *)
(* settle or a flush may come at any time after it was armed.              *)
(*                                                                         *)
(* The names are told apart from those of DeliveryFunnel: DeliveryProofs   *)
(* extends both.                                                           *)
(***************************************************************************)
EXTENDS Naturals, Sequences, SequencesExt, FiniteSets, FiniteSetsExt

CONSTANTS
    Speech,      \* Speech[r]: what run r says, a sequence of tokens
    Endings,     \* the ways a run may end
    MaxQueue,    \* events of the gateway on their way to the pump
    MaxCuts,     \* losses of the gateway socket
    MaxReloads   \* reloads of the page

Runs == DOMAIN Speech
None == 0                   \* no run: the ids begin with 1
Kinds == {"delta", "row", "final"}
Open == "[["                \* half a directive: [[media:, [[doc:, [[pic:
Close == "]]"
Replace == "replace"        \* the delta after it starts the text over

ASSUME BubbleBounds == MaxQueue \in Nat /\ MaxCuts \in Nat /\ MaxReloads \in Nat

VARIABLES
    phase,     \* phase[r]: the run on the gateway
    ending,    \* ending[r]: how it ended there
    said,      \* said[r]: how many tokens it has produced
    owes,      \* owes[r]: what the gateway has yet to send of its end
    queue,     \* events the reader has queued and the pump has not handled
    up,        \* the gateway socket
    repair,    \* the catch-up: its stage, and the history it has read
    turn,      \* the run whose turn holds the thread's lock
    turnsBegun, \* turns begun so far
    landed,    \* runs whose reply is a row of the thread
    reg,       \* _provisional_runs[thread]
    bub,       \* bub[r]: the router's _ChatRun
    screen,    \* screen[r]: the elements of run:<r> on the page
    settled,   \* settledStreamIds of the page
    dones,     \* dones[r]: stream_done frames sent for run:<r>
    swapped,   \* swapped[r]: the runs whose row replaced the bubble of r
    parted,    \* runs a loss of the socket parted from some of their events
    outOfTurn, \* a bubble opened, or stayed, past its run: the exceptions below
    ahead,     \* runs whose row landed with words of theirs still queued
    partial,   \* runs the page has missed the beginning of
    stopped,   \* runs whose bubble an error frame stopped
    reopened,  \* runs whose bubble a catch-up sent whole
    cuts, reloads

gateway == <<phase, ending, said, owes>>
router == <<reg, bub>>
page == <<screen, settled>>
past == <<dones, swapped, parted, outOfTurn, ahead, partial, stopped,
          reopened>>
bubbleVars == <<gateway, queue, up, repair, turn, turnsBegun, landed, router, page, past,
          cuts, reloads>>

----------------------------------------------------------------------------
(* Text.                                                                   *)

(* A text that was never received. *)
NoText == <<"none">>

(* What a bubble may hold.                                                  *)
Wordings == Seq(STRING \cup {"none"})

(* A restart comes with the words that follow it.                           *)
ASSUME SpeechAssumption ==
    /\ Speech \in Seq(Seq(STRING \ {"none"}))
    /\ \A r \in Runs : \A i \in DOMAIN Speech[r] :
          Speech[r][i] = Replace => i < Len(Speech[r]) /\ Speech[r][i + 1] # Replace
    /\ Endings \subseteq {"reply", "silent", "failed"}

(* What run r has said after k tokens: everything since the last restart.  *)
Text(r, k) ==
    LET from == Max({i \in 1..k : Speech[r][i] = Replace} \cup {0})
    IN  SubSeq(Speech[r], from + 1, k)

(* A cleaning that does not hold a half-written directive back.             *)
CleanWhole(text) ==
    LET closed == {i \in DOMAIN text : i < Len(text) /\ text[i] = Open
                                        /\ text[i + 1] = Close}
    IN  IF closed = {} THEN text
        ELSE SubSeq(text, 1, Min(closed) - 1) \o SubSeq(text, Min(closed) + 2, Len(text))

(* _sanitize_delta: whole directives are taken out, a directive that is     *)
(* only half there is held back.  What is left is what neither opens a      *)
(* directive nor stands in one.                                             *)
Hidden(text, i) ==
    \/ text[i] = Open
    \/ \E j \in 1 .. i - 1 : text[j] = Open /\ \A k \in j + 1 .. i - 1 : text[k] # Close

Visible(text) == {i \in DOMAIN text : ~Hidden(text, i)}

(* The n-th of a set of numbers.                                            *)
Place(S, n) == CHOOSE i \in S : Cardinality({j \in S : j <= i}) = n

Clean(text) ==
    [n \in 1 .. Cardinality(Visible(text)) |-> text[Place(Visible(text), n)]]

(* merge_delta_text: the first delta of a run carries the whole message,    *)
(* the ones after it extend what was received, or start over.               *)
Merged(raw, r, k) ==
    CASE k = 1 -> Text(r, 1)
      [] k > 1 /\ Speech[r][k - 1] = Replace -> <<Speech[r][k]>>
      [] OTHER -> IF raw = NoText THEN NoText ELSE Append(raw, Speech[r][k])

----------------------------------------------------------------------------
(* The page.                                                               *)

Blank == [elements |-> 0, live |-> FALSE, text |-> <<>>]

(* beginStream: a new element unless the page still holds its buffer.       *)
Started(view) ==
    IF view.live THEN view
    ELSE [elements |-> view.elements + 1, live |-> TRUE, text |-> <<>>]

(* stream_start and stream_chunk: a settled id is not built again.          *)
Painted(r, view, chunk, replace) ==
    IF r \in settled THEN view
    ELSE LET v == Started(view)
         IN  [v EXCEPT !.text = IF replace THEN chunk ELSE @ \o chunk]

(* A page that looks for the row's own id: the bubble stays.                *)
RetiredByRow(view) == [view EXCEPT !.live = FALSE]

(* stream_done: the first element with that id is replaced or removed.      *)
Retired(view) ==
    [elements |-> IF view.elements = 0 THEN 0 ELSE view.elements - 1,
     live |-> FALSE, text |-> <<>>]

(* An error frame: every half-streamed bubble of the thread stops, its text *)
(* stays.                                                                   *)
Frozen(view) == [view EXCEPT !.live = FALSE]

----------------------------------------------------------------------------
(* The router and the registry.                                            *)

NoRun == [raw |-> NoText, sent |-> <<>>, pending |-> NoText, replace |-> FALSE,
          started |-> FALSE, flush |-> FALSE, settle |-> FALSE]

(* A run the router forgot and a run it never heard of are the same thing.  *)
Forgotten == NoRun

(* A terminal state that only forgets the run.                              *)
ArmedNever(b) == Forgotten

(* _arm_settle: the bubble of a started run is to be settled.               *)
Armed(b) == IF b.started THEN [b EXCEPT !.settle = TRUE] ELSE Forgotten

(* A settle that does not ask who owns the bubble.                          *)
OwnedByAnyone(r) == r \in Runs

(* _close_provisional: the bubble of r is the thread's open one.            *)
Owned(r) == reg = r

(* _take_provisional: the entry after a row claimed the bubble.             *)
Taken == None

(* _flush_chunk: the words held for the bubble go out, or are found late.   *)
Flushed(r, b, force) ==
    LET clean == Clean(b.pending)
        extends == ~b.replace /\ IsPrefix(b.sent, clean)
        chunk == IF extends THEN SubSeq(clean, Len(b.sent) + 1, Len(clean))
                 ELSE clean
        held == [b EXCEPT !.pending = NoText, !.replace = FALSE, !.sent = clean]
    IN  IF b.pending = NoText
          THEN [run |-> b, reg |-> reg, view |-> screen[r]]
        ELSE IF clean = b.sent \/ chunk = <<>>
          THEN [run |-> held, reg |-> reg, view |-> screen[r]]
        ELSE IF b.started /\ reg # r
          THEN [run |-> Forgotten, reg |-> reg, view |-> screen[r]]
        ELSE [run |-> [held EXCEPT !.started = TRUE, !.flush = @ \/ ~force],
              reg |-> IF b.started THEN reg ELSE r,
              view |-> Painted(r, screen[r], chunk, ~extends)]

NoRepair == [stage |-> "no", rows |-> {}, run |-> None, text |-> <<>>]

Shows(r, flushed) ==
    /\ bub' = [bub EXCEPT ![r] = flushed.run]
    /\ reg' = flushed.reg
    /\ screen' = [screen EXCEPT ![r] = flushed.view]
    /\ UNCHANGED settled

(* A stream_done frame for the bubble of run r reaches the page.            *)
Done(r) ==
    /\ screen' = [screen EXCEPT ![r] = Retired(@)]
    /\ settled' = settled \cup {r}
    /\ dones' = [dones EXCEPT ![r] = @ + 1]

(* Events of run r that the pump has yet to handle, and words among them.   *)
Queued(kind, r) == \E i \in DOMAIN queue : queue[i].kind = kind /\ queue[i].run = r
WordsQueued(r) == Queued("delta", r)

(* The funnel persists the reply of run r unless it is there already, and   *)
(* _landing_frame lets the row claim whatever bubble the thread has open.   *)
Lands(r) ==
    IF r \in landed
    THEN UNCHANGED <<landed, reg, page, dones, swapped, ahead>>
    ELSE /\ landed' = landed \cup {r}
         /\ reg' = Taken
         /\ ahead' = IF WordsQueued(r) THEN ahead \cup {r} ELSE ahead
         /\ IF reg = None
            THEN UNCHANGED <<page, dones, swapped>>
            ELSE /\ Done(reg)
                 /\ swapped' = [swapped EXCEPT ![reg] = @ \cup {r}]

----------------------------------------------------------------------------
BubbleInit ==
    /\ phase = [r \in Runs |-> "waiting"]
    /\ ending = [r \in Runs |-> "none"]
    /\ said = [r \in Runs |-> 0]
    /\ owes = [r \in Runs |-> {}]
    /\ queue = <<>>
    /\ up = TRUE
    /\ repair = NoRepair
    /\ turn = None
    /\ turnsBegun = 0
    /\ landed = {}
    /\ reg = None
    /\ bub = [r \in Runs |-> NoRun]
    /\ screen = [r \in Runs |-> Blank]
    /\ settled = {}
    /\ dones = [r \in Runs |-> 0]
    /\ swapped = [r \in Runs |-> {}]
    /\ parted = {}
    /\ outOfTurn = FALSE
    /\ ahead = {}
    /\ partial = {}
    /\ stopped = {}
    /\ reopened = {}
    /\ cuts = 0
    /\ reloads = 0

(* Nothing of run r is to come: no event of it is owed or queued, and no    *)
(* timer is left to retire its bubble.                                      *)
Through(r) ==
    /\ phase[r] # "running"
    /\ owes[r] \subseteq {"answer"}
    /\ \A kind \in Kinds : ~Queued(kind, r)
    /\ bub[r].settle => r \in landed \ ahead

(* _run_agent_turn takes the thread's lock and dispatches over the socket.  *)
Begin ==
    /\ turn = None
    /\ turnsBegun < Len(Speech)
    /\ up
    /\ turnsBegun' = turnsBegun + 1
    /\ turn' = turnsBegun + 1
    /\ phase' = [phase EXCEPT ![turnsBegun + 1] = "running"]
    /\ outOfTurn' = (outOfTurn \/ \E r \in 1..turnsBegun : ~Through(r))
    /\ UNCHANGED <<ending, said, owes, queue, up, repair, landed, router, page,
                   dones, swapped, parted, ahead, partial, stopped, reopened, cuts, reloads>>

(* The gateway: it sends an event, which a socket that is down loses.       *)
Sends(event) ==
    /\ Len(queue) < MaxQueue
    /\ queue' = IF up THEN Append(queue, event) ELSE queue

(* A token and the delta that carries it; a restart comes with the words    *)
(* that follow it.                                                          *)
Say(r) ==
    LET k == IF Speech[r][said[r] + 1] = Replace THEN said[r] + 2 ELSE said[r] + 1
    IN  /\ phase[r] = "running"
        /\ said[r] < Len(Speech[r])
        /\ said' = [said EXCEPT ![r] = k]
        /\ Sends([kind |-> "delta", run |-> r, upto |-> k])
        /\ UNCHANGED <<phase, ending, owes, up, repair, turn, turnsBegun, landed, router,
                       page, past, cuts, reloads>>

(* The run ends: with a reply the gateway writes down, with one nobody will *)
(* see (NO_REPLY, or words the thread has already), or in failure.          *)
Finish(r) ==
    /\ phase[r] = "running"
    /\ \E e \in Endings :
         /\ e = "reply" => said[r] = Len(Speech[r])
         /\ ending' = [ending EXCEPT ![r] = e]
         /\ owes' = [owes EXCEPT ![r] =
              {"final", "answer"} \cup (IF e = "reply" THEN {"row"} ELSE {})]
    /\ phase' = [phase EXCEPT ![r] = "over"]
    /\ UNCHANGED <<said, queue, up, repair, turn, turnsBegun, landed, router, page, past,
                   cuts, reloads>>

(* The row's session.message and the run's terminal event, in either order. *)
SendEnd(r, kind) ==
    /\ kind \in owes[r]
    /\ owes' = [owes EXCEPT ![r] = @ \ {kind}]
    /\ Sends([kind |-> kind, run |-> r, upto |-> said[r]])
    /\ UNCHANGED <<phase, ending, said, up, repair, turn, turnsBegun, landed, router, page,
                   past, cuts, reloads>>

----------------------------------------------------------------------------
(* _handle_chat, state "delta", and _queue_chunk: one flush at a time.      *)
HandleDelta(e) ==
    LET r == e.run
        text == Merged(bub[r].raw, r, e.upto)
        b == [bub[r] EXCEPT !.raw = text, !.pending = text,
                 !.replace = @ \/ (e.upto > 1 /\ Speech[r][e.upto - 1] = Replace)]
    IN  /\ IF text = NoText THEN UNCHANGED <<router, page>>
           ELSE IF b.flush THEN /\ bub' = [bub EXCEPT ![r] = b]
                                /\ UNCHANGED <<reg, page>>
           ELSE Shows(r, Flushed(r, b, FALSE))
        /\ UNCHANGED <<landed, past>>

(* _handle_chat, a terminal state: what is held goes out, then the run's    *)
(* bubble is given a moment to be claimed.                                  *)
HandleFinal(e) ==
    LET r == e.run
        f == Flushed(r, bub[r], TRUE)
    IN  /\ Shows(r, [f EXCEPT !.run = Armed(@)])
        /\ UNCHANGED <<landed, past>>

(* _handle_message of the router, down to the funnel.                       *)
HandleRow(e) ==
    /\ Lands(e.run)
    /\ UNCHANGED <<bub, parted, outOfTurn, partial, stopped, reopened>>

(* _pump_events: one event at a time.                                       *)
Pump ==
    /\ queue # <<>>
    /\ queue' = Tail(queue)
    /\ LET e == Head(queue)
       IN  \/ e.kind = "delta" /\ HandleDelta(e)
           \/ e.kind = "final" /\ HandleFinal(e)
           \/ e.kind = "row" /\ HandleRow(e)
    /\ UNCHANGED <<gateway, up, repair, turn, turnsBegun, cuts, reloads>>

(* _flush_later: the interval is over.                                      *)
FlushLater(r) ==
    /\ bub[r].flush
    /\ Shows(r, Flushed(r, [bub[r] EXCEPT !.flush = FALSE], FALSE))
    /\ UNCHANGED <<gateway, queue, up, repair, turn, turnsBegun, landed, past, cuts, reloads>>

(* _settle and _close_provisional: no row came for the bubble.              *)
Settle(r) ==
    /\ bub[r].settle
    /\ bub' = [bub EXCEPT ![r] = Forgotten]
    /\ IF Owned(r) THEN reg' = None /\ Done(r)
                   ELSE UNCHANGED <<reg, page, dones>>
    /\ UNCHANGED <<gateway, queue, up, repair, turn, turnsBegun, landed, swapped, parted,
                   outOfTurn, ahead, partial, stopped, reopened, cuts, reloads>>

----------------------------------------------------------------------------
(* The turn.                                                               *)

(* The error frame of a turn that failed.                                   *)
ErrorFrame ==
    /\ screen' = [r \in Runs |-> Frozen(screen[r])]
    /\ stopped' = stopped \cup {r \in Runs : screen[r].live}
    /\ UNCHANGED <<landed, reg, settled, dones, swapped, ahead>>

(* The answer of call_agent, which the reader hands over past the queue.    *)
Answer ==
    /\ turn # None
    /\ turn \notin parted
    /\ "answer" \in owes[turn]
    /\ owes' = [owes EXCEPT ![turn] = @ \ {"answer"}]
    /\ turn' = None
    /\ \/ /\ ending[turn] = "reply"
          /\ Lands(turn)
          /\ UNCHANGED stopped
       \/ /\ ending[turn] = "silent"
          /\ UNCHANGED <<landed, reg, page, dones, swapped, ahead, stopped>>
       \/ /\ ending[turn] = "failed"
          /\ ErrorFrame
    /\ UNCHANGED <<phase, ending, said, queue, up, repair, turnsBegun, bub, parted, outOfTurn,
                   partial, reopened, cuts, reloads>>

(* The socket went away under the turn: it reports an error unless the      *)
(* transcript on disk has the reply already.                                *)
TurnFails ==
    /\ turn # None
    /\ turn \in parted
    /\ turn' = None
    /\ \/ /\ ending[turn] = "reply"
          /\ Lands(turn)
          /\ UNCHANGED stopped
       \/ ErrorFrame
    /\ UNCHANGED <<gateway, queue, up, repair, turnsBegun, bub, parted, outOfTurn, partial,
                   reopened, cuts, reloads>>

----------------------------------------------------------------------------
(* The socket.                                                             *)

(* It dies; of the events in flight only those the reader has are kept.     *)
Cut ==
    /\ up
    /\ cuts < MaxCuts
    /\ cuts' = cuts + 1
    /\ up' = FALSE
    /\ repair' = NoRepair
    /\ \E keep \in 0..Len(queue) :
         /\ queue' = SubSeq(queue, 1, keep)
         /\ parted' = parted \cup {r \in Runs : phase[r] = "running" \/ owes[r] # {}}
                       \cup {queue[i].run : i \in (keep + 1)..Len(queue)}
    /\ UNCHANGED <<gateway, turn, turnsBegun, landed, router, page, dones, swapped,
                   outOfTurn, ahead, partial, stopped, reopened, reloads>>

Reconnect ==
    /\ ~up
    /\ up' = TRUE
    /\ repair' = [NoRepair EXCEPT !.stage = "due"]
    /\ UNCHANGED <<gateway, queue, turn, turnsBegun, landed, router, page, past, cuts,
                   reloads>>

(* catch_up asks for the history: the rows, and the run still under way     *)
(* with its words so far.                                                   *)
ReadHistory ==
    /\ repair.stage = "due"
    /\ LET live == {r \in Runs : phase[r] = "running"}
       IN  repair' = [stage |-> "read",
                      rows |-> {r \in Runs : ending[r] = "reply"},
                      run |-> IF live = {} THEN None ELSE Max(live),
                      text |-> IF live = {} THEN <<>>
                               ELSE Text(Max(live), said[Max(live)])]
    /\ UNCHANGED <<gateway, queue, up, turn, turnsBegun, landed, router, page, past, cuts,
                   reloads>>

(* _replay: a row of the history the thread does not have.                  *)
Replay ==
    /\ repair.stage = "read"
    /\ repair.rows \ landed # {}
    /\ Lands(Min(repair.rows \ landed))
    /\ UNCHANGED <<gateway, queue, up, repair, turn, turnsBegun, bub, parted, outOfTurn,
                   partial, stopped, reopened, cuts, reloads>>

(* _reopen_inflight and open_provisional: the bubble is sent whole.         *)
Reopen ==
    /\ repair.stage = "read"
    /\ repair.rows \subseteq landed
    /\ repair' = NoRepair
    /\ IF repair.run = None \/ repair.text = <<>> THEN UNCHANGED <<router, page>>
       ELSE Shows(repair.run,
                  Flushed(repair.run,
                          [bub[repair.run] EXCEPT !.sent = <<>>, !.replace = TRUE,
                                                  !.pending = repair.text], TRUE))
    /\ outOfTurn' = (outOfTurn \/ (repair.run # None /\ phase[repair.run] = "over"))
    /\ reopened' = reopened \cup ({repair.run} \ {None})
    /\ UNCHANGED <<gateway, queue, up, turn, turnsBegun, landed, dones, swapped, parted, ahead,
                   partial, stopped, cuts, reloads>>

(* The page is loaded again: the rows come back, the bubbles do not.        *)
Reload ==
    /\ reloads < MaxReloads
    /\ reloads' = reloads + 1
    /\ screen' = [r \in Runs |-> Blank]
    /\ settled' = {}
    /\ partial' = partial \cup {r \in Runs : reg = r \/ ~Through(r)}
    /\ UNCHANGED <<gateway, queue, up, repair, turn, turnsBegun, landed, router, dones,
                   swapped, parted, outOfTurn, ahead, stopped, reopened, cuts>>

----------------------------------------------------------------------------
(* Every turn is over and nothing is armed: the thread is at rest.          *)
Rest ==
    /\ turnsBegun = Len(Speech) /\ turn = None /\ up /\ repair = NoRepair /\ queue = <<>>
    /\ \A r \in Runs : /\ phase[r] = "over"
                       /\ owes[r] \subseteq {"answer"}
                       /\ ~bub[r].flush /\ ~bub[r].settle
    /\ UNCHANGED bubbleVars

BubbleNext ==
    \/ Begin
    \/ \E r \in Runs : Say(r)
    \/ \E r \in Runs : Finish(r)
    \/ \E r \in Runs, kind \in {"row", "final"} : SendEnd(r, kind)
    \/ Pump
    \/ \E r \in Runs : FlushLater(r)
    \/ \E r \in Runs : Settle(r)
    \/ Answer
    \/ TurnFails
    \/ Cut
    \/ Reconnect
    \/ ReadHistory
    \/ Replay
    \/ Reopen
    \/ Reload
    \/ Rest

Bubbles == BubbleInit /\ [][BubbleNext]_bubbleVars

(* The gateway ends its runs and sends what it owes, the event loop runs    *)
(* its tasks and timers, and a lost socket is opened again.                 *)
BubbleFairness ==
    /\ \A r \in Runs : WF_bubbleVars(Say(r)) /\ WF_bubbleVars(Finish(r))
    /\ \A r \in Runs, kind \in {"row", "final"} : WF_bubbleVars(SendEnd(r, kind))
    /\ \A r \in Runs : WF_bubbleVars(FlushLater(r)) /\ WF_bubbleVars(Settle(r))
    /\ WF_bubbleVars(Pump)
    /\ WF_bubbleVars(Answer)
    /\ WF_bubbleVars(TurnFails)
    /\ WF_bubbleVars(Reconnect)
    /\ WF_bubbleVars(ReadHistory)
    /\ WF_bubbleVars(Replay)
    /\ WF_bubbleVars(Reopen)

FairBubbles == Bubbles /\ BubbleFairness

----------------------------------------------------------------------------
(* Every variable has the type its code gives it, and the queue its bound.  *)
BubbleTypeOK ==
    /\ phase \in [Runs -> {"waiting", "running", "over"}]
    /\ ending \in [Runs -> Endings \cup {"none"}]
    /\ said \in [Runs -> Nat] /\ \A r \in Runs : said[r] <= Len(Speech[r])
    /\ owes \in [Runs -> SUBSET {"row", "final", "answer"}]
    /\ queue \in Seq([kind : Kinds, run : Runs, upto : Nat])
    /\ Len(queue) <= MaxQueue
    /\ up \in BOOLEAN
    /\ repair \in [stage : {"no", "due", "read"}, rows : SUBSET Runs,
                   run : Runs \cup {None}, text : Wordings]
    /\ turn \in Runs \cup {None} /\ turnsBegun \in 0..Len(Speech)
    /\ landed \subseteq Runs /\ reg \in Runs \cup {None}
    /\ bub \in [Runs -> [raw : Wordings, sent : Wordings, pending : Wordings, replace : BOOLEAN,
                        started : BOOLEAN, flush : BOOLEAN, settle : BOOLEAN]]
    /\ screen \in [Runs -> [elements : Nat, live : BOOLEAN, text : Wordings]]
    /\ settled \subseteq Runs /\ dones \in [Runs -> Nat]
    /\ swapped \in [Runs -> SUBSET Runs]
    /\ parted \cup ahead \cup partial \cup stopped \cup reopened \subseteq Runs
    /\ outOfTurn \in BOOLEAN /\ cuts \in 0..MaxCuts /\ reloads \in 0..MaxReloads

(* The persist chokepoint, the settle timer and a catch-up all retire       *)
(* bubbles, and a second stream_done "for a bubble that already has its     *)
(* message would blank it out" (main.py _close_provisional): each bubble    *)
(* gets at most one, unless it opened out of turn, its row was ahead of its *)
(* words, or another's row took it.                                         *)
OneEndPerBubble ==
    outOfTurn \/ \A r \in Runs \ ahead : swapped[r] \subseteq {r} => dones[r] <= 1

(* A row replaces the bubble of its own run and no other.  The registry     *)
(* names a thread and not a run, so two things can break this and do: a     *)
(* bubble out of turn, and a cut, which leaves stale bubbles and late rows. *)
OwnRowClaims ==
    outOfTurn \/ \A r \in Runs \ parted : swapped[r] \subseteq {r} \cup parted

(* A reply that starts over with a directive: nothing of it can be shown    *)
(* yet, and the words taken back stay (SentIsShown below).                  *)
TakesBackInSilence ==
    {r \in Runs : \E i \in DOMAIN Speech[r] : Speech[r][i] = Replace /\ Speech[r][i + 1] = Open}

(* What a bubble shows is what the finished message would have shown of the *)
(* words said up to some moment: no directive, whole or half, and nothing   *)
(* missing, doubled or out of order, however deltas and flushes fall        *)
(* together.  Excepted are runs that take words back in silence, lost       *)
(* events to a cut, are shown again from the history, were joined by the    *)
(* page half-way, or were stopped by an error frame.                        *)
SaidBySomeMoment(r) ==
    screen[r].elements > 0 =>
        \E j \in 0..said[r] : screen[r].text = Clean(Text(r, j))
ShowsWhatWasSaid ==
    \A r \in Runs \ (TakesBackInSilence \cup parted \cup reopened \cup partial \cup stopped) :
        SaidBySomeMoment(r)

(* A reply whose row is in the thread is not on the screen a second time as *)
(* a bubble.  Excepted are a row that overtook its own words, and bubbles   *)
(* out of turn, cut, or stopped by an error frame.                          *)
NoSecondCopy ==
    outOfTurn \/ \A r \in landed \ (ahead \cup parted \cup stopped) : screen[r].elements = 0

(* One element per bubble: a chunk never builds a second one under an id    *)
(* that still has its first, unless an error frame took its buffer away.    *)
OneElementPerBubble == \A r \in Runs \ stopped : screen[r].elements <= 1

(* Rows, timers, late chunks and a catch-up race for the thread's open      *)
(* bubble, and it has one element, one end and its own row.                 *)
BubblesAccounted == BubbleTypeOK /\ OneElementPerBubble /\ OneEndPerBubble /\ OwnRowClaims

(* A bubble goes away: its row replaces it, or the settle timer removes it. *)
(* Excepted are runs whose terminal event a cut may have lost, bubbles      *)
(* stopped by an error frame, and a registry overwritten out of turn.       *)
EveryBubbleCloses ==
    \A r \in Runs : screen[r].elements > 0
        ~> (screen[r].elements = 0 \/ outOfTurn \/ r \in parted \cup stopped)

(* "No stream_done will follow this turn" (main.js, the error frame): the   *)
(* bubbles an error frame stops are left alone after it.                    *)
StoppedIsOver ==
    [][\A r \in Runs : screen[r].elements > 0 /\ ~screen[r].live
                          => dones'[r] = dones[r]]_bubbleVars

(* "sanitized cumulative text already sent" (gateway_router.py _ChatRun):   *)
(* what the router holds as sent is what the open bubble shows.  A text     *)
(* that starts over with something that is held back is noted as sent and   *)
(* is not, and what follows is put after the old words.                     *)
SentIsShown ==
    \A r \in Runs \ (partial \cup stopped \cup settled) :
        reg = r /\ bub[r].started => screen[r].text = bub[r].sent

(* A bubble sent whole after a reconnect "is the only shape that is correct *)
(* from either starting point" (gateway_router.py open_provisional): a cut  *)
(* run shows what it said as well.  The deltas after the reconnect extend   *)
(* the text from before the cut and take the missing words away again.      *)
ReopenedStaysWhole ==
    \A r \in Runs \ (partial \cup stopped) : SaidBySomeMoment(r)

(* "One open bubble per thread is also the truth of the product" (main.py): *)
(* every bubble goes away whose run was neither cut nor stopped.            *)
EvenOutOfTurn ==
    \A r \in Runs : screen[r].elements > 0
        ~> (screen[r].elements = 0 \/ r \in parted \cup stopped)
=============================================================================

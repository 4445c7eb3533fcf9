------------------------------- MODULE SendAck -------------------------------
(***************************************************************************)
(* A message on its way from the composer into its thread.  The browser    *)
(* (frontend/static/js/main.js, ws.js) keeps each message in its outbox    *)
(* until the server confirms or refuses it and sends the outbox again on   *)
(* every new socket; the server (backend/app/main.py, _handle_send) stores *)
(* the message, confirms it and starts the agent's turn.                   *)
(*                                                                         *)
(* A socket the client has left is read by its own receive loop to the     *)
(* end, so one message may be in the hands of several handlers at once.    *)
(* A crash forgets the handlers, the turns not yet run and _ACK_SEEN; the  *)
(* rows of the database and the outbox survive it.                         *)
(*                                                                         *)
(* The names are told apart from those of GatewayTurn: TurnProofs extends  *)
(* both.                                                                   *)
(***************************************************************************)
EXTENDS Naturals, FiniteSets, Sequences

CONSTANTS
    Msgs,           \* client_msg_ids
    MaxSockets,     \* sockets the client opens
    MaxRetries,     \* times the person presses Retry
    MaxFaults       \* refusals, failing statements and crashes

ASSUME SendBounds ==
    /\ MaxSockets \in Nat
    /\ MaxRetries \in Nat
    /\ MaxFaults \in Nat

Sockets == 1 .. MaxSockets

VARIABLES
    typed,          \* messages the person sent
    outbox,         \* pendingSends, in the order of the map
    refused,        \* messages the person was told were not sent
    conn,           \* the client's socket, 0: none
    opened,         \* sockets opened
    wire,           \* frames on the way to the client
    retries,        \* Retry pressed
    inbox,          \* frames on the way to the server, by socket
    hand,           \* _handle_send of each receive loop
    seen,           \* _ACK_SEEN
    toPublish,      \* _publish_then_run tasks that have not published
    toRun,          \* tasks about to run the turn
    rows,           \* rows of the message in the thread
    ran,          \* turns run
    faults,         \* faults so far
    cut,            \* history: stored, and the turn lost in a crash
    vouched,        \* history: confirmed for its row alone, without a turn
    overtaken       \* history: dispatched by a resend before the original

clientState == <<typed, outbox, refused, conn, opened, retries>>
taskState   == <<toPublish, toRun, ran>>
serverState == <<seen, taskState, rows>>
history     == <<cut, vouched, overtaken>>
sendVars == <<clientState, wire, inbox, hand, serverState, faults, history>>

-----------------------------------------------------------------------------
Pending == {outbox[i] : i \in 1 .. Len(outbox)}

Ok(m)       == [msg |-> m, status |-> "ok"]
Rejected(m) == [msg |-> m, status |-> "rejected"]
Echo(m)     == [msg |-> m, status |-> "message"]

Free == [step |-> "receive"]

At(s, step) == hand[s].step = step

MsgOf(s) == hand[s].msg

Goes(s, step) == hand' = [hand EXCEPT ![s].step = step]

Done(s) == hand' = [hand EXCEPT ![s] = Free]

\* A frame for a socket the client has left reaches nobody.
Tell(s, frame) == wire' = IF s = conn THEN wire \cup {frame} ELSE wire

\* Turns of m that have run, and those that will.
Dispatched(m) == toPublish[m] + toRun[m] + ran[m]

Fault == faults < MaxFaults /\ faults' = faults + 1

-----------------------------------------------------------------------------
(* The client *)

\* trackPendingSend, then the socket if there is one
Type(m) ==
    /\ m \notin typed
    /\ typed' = typed \cup {m}
    /\ outbox' = Append(outbox, m)
    /\ inbox' = IF conn = 0 THEN inbox ELSE [inbox EXCEPT ![conn] = Append(@, m)]
    /\ UNCHANGED <<refused, conn, opened, retries, wire, hand, serverState, faults, history>>

\* Mutant: a new socket does not replay the outbox.
ReplayNothing == <<>>

\* resendPendingSends
Replay == outbox

\* Every open, the first included, replays the outbox.
Open ==
    /\ conn = 0
    /\ opened < MaxSockets
    /\ opened' = opened + 1
    /\ conn' = opened'
    /\ inbox' = [inbox EXCEPT ![conn'] = Replay]
    /\ wire' = {}
    /\ UNCHANGED <<typed, outbox, refused, retries, hand, serverState, faults, history>>

\* retryPendingSends, on a socket that claims to be open
Retry(m) ==
    /\ conn # 0
    /\ m \in Pending
    /\ retries < MaxRetries
    /\ retries' = retries + 1
    /\ inbox' = [inbox EXCEPT ![conn] = Append(@, m)]
    /\ UNCHANGED <<typed, outbox, refused, conn, opened, wire, hand, serverState, faults, history>>

\* The link drops, the watchdog closes it, the tab reloads.
Leave ==
    /\ conn # 0
    /\ opened < MaxSockets
    /\ conn' = 0
    /\ wire' = {}
    /\ UNCHANGED <<typed, outbox, refused, opened, retries, inbox, hand, serverState, faults, history>>

\* The outbox without m: each message has one entry.
OutboxWithout(m) ==
    IF m \in Pending
    THEN LET i == CHOOSE i \in 1 .. Len(outbox) : outbox[i] = m
         IN SubSeq(outbox, 1, i - 1) \o SubSeq(outbox, i + 1, Len(outbox))
    ELSE outbox

\* clearPendingSend, on the confirmation or on the message itself
Hear(frame) ==
    /\ frame \in wire
    /\ wire' = wire \ {frame}
    /\ outbox' = OutboxWithout(frame.msg)
    /\ refused' = IF frame.status = "rejected" /\ frame.msg \in Pending
                  THEN refused \cup {frame.msg} ELSE refused
    /\ UNCHANGED <<typed, conn, opened, retries, inbox, hand, serverState, faults, history>>

-----------------------------------------------------------------------------
(* The receive loop and _handle_send *)

\* What the client sent last on a socket it left may never arrive.
Drop(s) ==
    /\ s # conn
    /\ hand[s] = Free
    /\ inbox[s] # <<>>
    /\ inbox' = [inbox EXCEPT ![s] = <<>>]
    /\ UNCHANGED <<clientState, wire, hand, serverState, faults, history>>

\* One frame at a time: the next is read when the handler is done.
Take(s) ==
    /\ hand[s] = Free
    /\ inbox[s] # <<>>
    /\ inbox' = [inbox EXCEPT ![s] = Tail(@)]
    /\ hand' = [hand EXCEPT ![s] =
                  [step |-> IF seen[Head(inbox[s])] = "no" THEN "ask" ELSE "reack",
                   msg  |-> Head(inbox[s])]]
    /\ UNCHANGED <<clientState, wire, serverState, faults, history>>

\* Mutant: the resend that dispatches the turn does not note it.
MarkResendNot(m) == seen

MarkResend(m) == [seen EXCEPT ![m] = "scheduled"]

\* A handler between its row and its dispatch.
Underway(m) ==
    \E s \in Sockets :
        /\ hand[s] # Free
        /\ MsgOf(s) = m
        /\ hand[s].step \in {"stored", "title", "ack"}

\* The entry knows the message: confirm, and dispatch what never was.
ReAck(s) ==
    /\ At(s, "reack")
    /\ Tell(s, Ok(MsgOf(s)))
    /\ Done(s)
    /\ IF seen[MsgOf(s)] = "stored"
       THEN /\ seen' = MarkResend(MsgOf(s))
            /\ toRun' = [toRun EXCEPT ![MsgOf(s)] = @ + 1]
            /\ overtaken' = IF Underway(MsgOf(s)) THEN overtaken \cup {MsgOf(s)} ELSE overtaken
       ELSE UNCHANGED <<seen, toRun, overtaken>>
    /\ UNCHANGED <<clientState, inbox, toPublish, ran, rows, faults, cut, vouched>>

\* source_id_seen: the row itself says the message was stored.
LookUp(s) ==
    /\ At(s, "ask")
    /\ Goes(s, IF rows[MsgOf(s)] > 0 THEN "vouch" ELSE "check")
    /\ UNCHANGED <<clientState, wire, inbox, serverState, faults, history>>

Vouch(s) ==
    /\ At(s, "vouch")
    /\ Tell(s, Ok(MsgOf(s)))
    /\ Done(s)
    /\ vouched' = IF Dispatched(MsgOf(s)) = 0 THEN vouched \cup {MsgOf(s)} ELSE vouched
    /\ UNCHANGED <<clientState, inbox, serverState, faults, cut, overtaken>>

\* The thread is there, the bot allowed, the day's limit not reached.
Admit(s) ==
    /\ At(s, "check")
    /\ Goes(s, "store")
    /\ UNCHANGED <<clientState, wire, inbox, serverState, faults, history>>

\* One of these fails, or the insert does.
Turndown(s) ==
    /\ At(s, "check") \/ At(s, "store")
    /\ Fault
    /\ Goes(s, "reject")
    /\ UNCHANGED <<clientState, wire, inbox, serverState, history>>

\* Mutant: a message that could not be stored is confirmed.
RejectAsOk(s) ==
    /\ At(s, "reject")
    /\ Tell(s, Ok(MsgOf(s)))
    /\ Done(s)
    /\ UNCHANGED <<clientState, inbox, serverState, faults, history>>

Reject(s) ==
    /\ At(s, "reject")
    /\ Tell(s, Rejected(MsgOf(s)))
    /\ Done(s)
    /\ UNCHANGED <<clientState, inbox, serverState, faults, history>>

\* The unique index on source_id
Clash(m) == rows[m] > 0

\* add_message
Store(s) ==
    /\ At(s, "store")
    /\ IF Clash(MsgOf(s))
       THEN Goes(s, "vouch") /\ UNCHANGED rows
       ELSE Goes(s, "stored") /\ rows' = [rows EXCEPT ![MsgOf(s)] = @ + 1]
    /\ UNCHANGED <<clientState, wire, inbox, seen, taskState, faults, history>>

\* Mutant: the entry is made as if the turn had been dispatched.
MarkStoredScheduled(m) == [seen EXCEPT ![m] = "scheduled"]

\* _ack_mark keeps the scheduled flag an entry already has.
MarkStored(m) == [seen EXCEPT ![m] = IF @ = "no" THEN "stored" ELSE @]

Mark(s) ==
    /\ At(s, "stored")
    /\ seen' = MarkStored(MsgOf(s))
    /\ Goes(s, "title")
    /\ UNCHANGED <<clientState, wire, inbox, taskState, rows, faults, history>>

\* set_title_if_empty
Title(s) ==
    /\ At(s, "title")
    /\ Goes(s, "ack")
    /\ UNCHANGED <<clientState, wire, inbox, serverState, faults, history>>

\* The statement fails: a neutral error frame, no confirmation, no turn.
TitleFails(s) ==
    /\ At(s, "title")
    /\ Fault
    /\ Done(s)
    /\ UNCHANGED <<clientState, wire, inbox, serverState, history>>

\* The confirmation, up to five seconds on a half-dead socket; then the
\* turn's task and the mark, whatever the entry says by now.
Ack(s) ==
    /\ At(s, "ack")
    /\ Tell(s, Ok(MsgOf(s)))
    /\ Done(s)
    /\ toPublish' = [toPublish EXCEPT ![MsgOf(s)] = @ + 1]
    /\ seen' = [seen EXCEPT ![MsgOf(s)] = "scheduled"]
    /\ UNCHANGED <<clientState, inbox, toRun, ran, rows, faults, history>>

-----------------------------------------------------------------------------
(* The turn's task *)

\* The publish must not be able to cancel the turn.
RunsThen(m, published) == toRun[m] + 1

\* _publish_then_run: the message to every client, then the turn
Publish(m) ==
    /\ toPublish[m] > 0
    /\ toPublish' = [toPublish EXCEPT ![m] = @ - 1]
    /\ \/ /\ wire' = IF conn = 0 THEN wire ELSE wire \cup {Echo(m)}
          /\ toRun' = [toRun EXCEPT ![m] = RunsThen(m, TRUE)]
          /\ UNCHANGED faults
       \/ /\ Fault
          /\ toRun' = [toRun EXCEPT ![m] = RunsThen(m, FALSE)]
          /\ UNCHANGED wire
    /\ UNCHANGED <<clientState, inbox, hand, seen, ran, rows, history>>

\* run_agent_turn
Run(m) ==
    /\ toRun[m] > 0
    /\ toRun' = [toRun EXCEPT ![m] = @ - 1]
    /\ ran' = [ran EXCEPT ![m] = @ + 1]
    /\ UNCHANGED <<clientState, wire, inbox, hand, seen, toPublish, rows, faults, history>>

\* The process dies and starts again.
ServerDies ==
    /\ opened < MaxSockets
    /\ Fault
    /\ conn' = 0
    /\ wire' = {}
    /\ inbox' = [s \in Sockets |-> <<>>]
    /\ hand' = [s \in Sockets |-> Free]
    /\ seen' = [m \in Msgs |-> "no"]
    /\ toPublish' = [m \in Msgs |-> 0]
    /\ toRun' = [m \in Msgs |-> 0]
    /\ cut' = cut \cup {m \in Msgs : rows[m] > 0 /\ ran[m] = 0}
    /\ UNCHANGED <<typed, outbox, refused, opened, retries, ran, rows, vouched, overtaken>>

-----------------------------------------------------------------------------
SendInit ==
    /\ typed = {} /\ outbox = <<>> /\ refused = {}
    /\ conn = 0 /\ opened = 0 /\ wire = {} /\ retries = 0
    /\ inbox = [s \in Sockets |-> <<>>]
    /\ hand = [s \in Sockets |-> Free]
    /\ seen = [m \in Msgs |-> "no"]
    /\ toPublish = [m \in Msgs |-> 0] /\ toRun = [m \in Msgs |-> 0]
    /\ rows = [m \in Msgs |-> 0] /\ ran = [m \in Msgs |-> 0]
    /\ faults = 0 /\ cut = {} /\ vouched = {} /\ overtaken = {}

Hears == \E frame \in wire : Hear(frame)

Client ==
    \/ \E m \in Msgs : Type(m) \/ Retry(m)
    \/ Open
    \/ Leave
    \/ Hears

\* A handler that has a frame goes on to its end.
Handles(s) ==
    \/ Take(s) \/ ReAck(s) \/ LookUp(s) \/ Vouch(s) \/ Admit(s) \/ Reject(s)
    \/ Store(s) \/ Mark(s) \/ Title(s) \/ Ack(s)

Server ==
    \/ \E s \in Sockets : Handles(s) \/ Drop(s) \/ Turndown(s) \/ TitleFails(s)
    \/ \E m \in Msgs : Publish(m) \/ Run(m)

SendNext == Client \/ Server \/ ServerDies

Sends == SendInit /\ [][SendNext]_sendVars

\* The receive loops and the tasks of a living process go on; a client
\* without a socket opens one (scheduleReconnect).  Nothing is assumed of
\* the person's Retry.
FairSends ==
    /\ Sends
    /\ WF_sendVars(Open) /\ WF_sendVars(Hears)
    /\ \A s \in Sockets : WF_sendVars(Handles(s))
    /\ \A m \in Msgs : WF_sendVars(Publish(m)) /\ WF_sendVars(Run(m))

-----------------------------------------------------------------------------
Steps == {"reack", "ask", "vouch", "check", "store", "reject", "stored", "title", "ack"}

\* TypeOK: the types of the variables.
SendTypeOK ==
    /\ typed \subseteq Msgs /\ refused \subseteq typed
    /\ outbox \in Seq(typed)
    /\ opened \in 0 .. MaxSockets /\ conn \in {0, opened}
    /\ retries \in 0 .. MaxRetries /\ faults \in 0 .. MaxFaults
    /\ wire \subseteq [msg : typed, status : {"ok", "rejected", "message"}]
    /\ inbox \in [Sockets -> Seq(typed)]
    /\ hand \in [Sockets -> {Free} \cup [step : Steps, msg : typed]]
    /\ seen \in [Msgs -> {"no", "stored", "scheduled"}]
    /\ toPublish \in [Msgs -> Nat] /\ toRun \in [Msgs -> Nat]
    /\ rows \in [Msgs -> Nat] /\ ran \in [Msgs -> Nat]
    /\ cut \subseteq Msgs /\ vouched \subseteq Msgs /\ overtaken \subseteq Msgs

\* Kept: what the person sent is in the outbox, in the thread, or was
\* refused to the person's face, whatever socket or process dies in between
\* (the acknowledgement of _handle_send and clearPendingSend).
Kept == \A m \in typed : m \in Pending \/ m \in refused \/ rows[m] > 0

\* StoredOnce: however often a message is sent again, on however many
\* sockets at once and across restarts, the thread holds one row of it
\* (_client_source_id).
StoredOnce == \A m \in Msgs : rows[m] <= 1

\* MessagesAccounted: neither lost nor there twice, whatever socket, statement
\* or process fails.
MessagesAccounted == SendTypeOK /\ Kept /\ StoredOnce

\* OneTurnEach: a message starts one turn, unless a resend dispatched it
\* while the handler that stored it was still on its way there.
OneTurnEach == \A m \in Msgs \ overtaken : Dispatched(m) <= 1

\* ConfirmedIsAnswered: a message that left the outbox as sent has its turn;
\* the exceptions are a crash and a confirmation given on the strength of
\* the row alone (_ACK_SEEN's scheduled flag).
ConfirmedIsAnswered ==
    \A m \in typed \ (Pending \cup refused \cup cut \cup vouched) :
        Dispatched(m) > 0

\* AnsweredOnce: what the person sent has one turn, neither none nor two.
AnsweredOnce == OneTurnEach /\ ConfirmedIsAnswered

\* NeverTwice: what the comment on the resend says without the exception.
NeverTwice == \A m \in Msgs : ran[m] <= 1

\* EveryMessageArrives: a message the person sent is stored in the end, or
\* refused (the replay on every open).
EveryMessageArrives ==
    \A m \in Msgs : m \in typed ~> (rows[m] > 0 \/ m \in refused)

=============================================================================

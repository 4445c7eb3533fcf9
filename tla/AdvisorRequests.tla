-------------------------- MODULE AdvisorRequests ---------------------------
(***************************************************************************)
(* The requests an advisor bot makes of the agents (advisor.py).  A reply  *)
(* of the advisor may ask for research, which is sent at once, or propose  *)
(* a handoff, which is shown as a card and sent when a person presses the  *)
(* button.  Each request is a row of a ledger with a database of its own;  *)
(* what the thread shows of it, notices and the card, is written           *)
(* separately, and the process can die between any two of the writes.      *)
(***************************************************************************)
EXTENDS Naturals, FiniteSets

CONSTANTS
    Research,      \* requests that are sent without asking
    Handoffs,      \* requests that wait for a person
    Presses,       \* presses of a card's button that are handled at a time
    Slots,         \* agent turns at a time (three in the code)
    MaxFaults,     \* deaths of the process and deliveries that fail
    MaxEdits       \* changes to the roster

ASSUME RequestsAssumption ==
    /\ Research \cap Handoffs = {}
    /\ Slots \in Nat \ {0}
    /\ MaxFaults \in Nat /\ MaxEdits \in Nat

VARIABLES
    ledger,        \* ledger[r]: the state of r's row, "none" before there is one
    cardId,        \* the handoffs whose row names the message of their card
    thread,        \* thread[r]: the phases of r the thread has a message of
    card,          \* card[r]: the state r's card shows
    work,          \* work[r]: the next write of the task that has r in hand
    press,         \* press[p]: the handoff p is about, its button, what is next
    phase,         \* the process: "up", "down" or "recovering"
    asked,         \* asked[r]: how often an agent was given r
    advisor,       \* the roster still has the advisor
    safe,          \* the roster has made the agent a Safe-Mode bot
    left,          \* running rows of a start that did not look for them
    lost,          \* lost[r]: what a death or a failed delivery has lost of r
    faults, edits

rows == <<ledger, cardId>>
shown == <<thread, card>>
roster == <<advisor, safe>>
budget == <<faults, edits>>
vars == <<rows, shown, work, press, phase, asked, roster, left, lost, budget>>

----------------------------------------------------------------------------
Requests == Research \cup Handoffs
Final == {"done", "failed", "dismissed"}
Phases == {"asked", "card", "sent", "report", "failed", "lost"}
Nobody == [req |-> "none", button |-> "none", next |-> "none"]

(* The request p is about is p's to finish: its claim was granted.          *)
Acting(p) == press[p].next \in {"post", "refuse", "stamp"}
HeldByPress(r) == \E p \in Presses : Acting(p) /\ press[p].req = r

Init ==
    /\ ledger = [r \in Requests |-> "none"] /\ cardId = {}
    /\ thread = [r \in Requests |-> {}] /\ card = [r \in Handoffs |-> "none"]
    /\ work = [r \in Requests |-> "none"]
    /\ press = [p \in Presses |-> Nobody]
    /\ phase = "up"
    /\ asked = [r \in Requests |-> 0]
    /\ advisor = TRUE /\ safe = FALSE
    /\ left = {} /\ lost = [r \in Requests |-> {}]
    /\ faults = 0 /\ edits = 0

(* State formulae of the actions.  A delivery may fail, which its caller    *)
(* sees as an exception.                                                    *)
Say(r, phrase) == thread' = [thread EXCEPT ![r] = @ \cup {phrase}]
Then(r, step) == work' = [work EXCEPT ![r] = step]
Set(r, state) == ledger' = [ledger EXCEPT ![r] = state]
Lose(r, what) == lost' = [lost EXCEPT ![r] = @ \cup {what}]
Fault == faults < MaxFaults /\ faults' = faults + 1

(* _restamp_card: a row without the card's message has nothing to stamp.    *)
Stamp(r) == card' = IF r \in cardId THEN [card EXCEPT ![r] = ledger[r]] ELSE card

----------------------------------------------------------------------------
(* _act_on_markers: the end of an advisor's turn.  An agent that is a       *)
(* Safe-Mode bot is not among those a marker may name.                      *)
Add(r) ==
    /\ phase = "up" /\ advisor /\ ~safe
    /\ ledger[r] = "none"
    /\ Set(r, IF r \in Research THEN "running" ELSE "proposed")
    /\ Then(r, "post")
    /\ UNCHANGED <<cardId, shown, press, phase, asked, roster, left, lost, budget>>

(* The notice of a research request, and then its task.                     *)
PostAsked(r) ==
    /\ r \in Research /\ work[r] = "post"
    /\ Say(r, "asked") /\ Then(r, "start")
    /\ UNCHANGED <<rows, card, press, phase, asked, roster, left, lost, budget>>

PostAskedFails(r) ==
    /\ r \in Research /\ work[r] = "post"
    /\ Fault
    /\ Set(r, "failed") /\ Then(r, "none") /\ Lose(r, "word")
    /\ UNCHANGED <<cardId, shown, press, phase, asked, roster, left, edits>>

(* The card is shown, and its message recorded when the delivery returns.   *)
PostCard(r) ==
    /\ r \in Handoffs /\ work[r] = "post"
    /\ Say(r, "card") /\ card' = [card EXCEPT ![r] = "proposed"]
    /\ Then(r, "note")
    /\ UNCHANGED <<rows, press, phase, asked, roster, left, lost, budget>>

PostCardFails(r) ==
    /\ r \in Handoffs /\ work[r] = "post"
    /\ Fault
    /\ Then(r, "none")
    /\ UNCHANGED <<rows, shown, press, phase, asked, roster, left, lost, edits>>

NoteCard(r) ==
    /\ work[r] = "note"
    /\ cardId' = cardId \cup {r} /\ Then(r, "none")
    /\ UNCHANGED <<ledger, shown, press, phase, asked, roster, left, lost, budget>>

----------------------------------------------------------------------------
(* The two buttons of a card.                                              *)

Press(p, r, button) ==
    /\ phase = "up"
    /\ press[p] = Nobody
    /\ "card" \in thread[r]
    /\ press' = [press EXCEPT ![p] = [req |-> r, button |-> button, next |-> "look"]]
    /\ UNCHANGED <<rows, shown, work, phase, asked, roster, left, lost, budget>>

\* Mutant: the state is not compared when it is set.
ClaimUnchecked(p) ==
    LET r == press[p].req
        send == press[p].button = "send"
    IN /\ press[p].next = "look"
       /\ r \in cardId
       /\ Set(r, IF send THEN "running" ELSE "dismissed")
       /\ press' = [press EXCEPT ![p].next = IF send THEN "post" ELSE "stamp"]
       /\ UNCHANGED <<cardId, shown, work, phase, asked, roster, left, lost, budget>>

(* _card_request waits for the message to be recorded, three seconds at     *)
(* most; whoever claims the row first acts on it.                           *)
GiveUp(p) ==
    /\ press[p].next = "look"
    /\ press[p].req \notin cardId
    /\ press' = [press EXCEPT ![p] = Nobody]
    /\ UNCHANGED <<rows, shown, work, phase, asked, roster, left, lost, budget>>

Claim(p) ==
    LET r == press[p].req
        send == press[p].button = "send"
        after == IF ~send THEN "stamp" ELSE IF advisor /\ ~safe THEN "post" ELSE "refuse"
    IN /\ press[p].next = "look"
       /\ r \in cardId
       /\ IF ledger[r] = "proposed"
          THEN /\ Set(r, IF send THEN "running" ELSE "dismissed")
               /\ press' = [press EXCEPT ![p].next = after]
          ELSE /\ press' = [press EXCEPT ![p] = Nobody]
               /\ UNCHANGED ledger
       /\ UNCHANGED <<cardId, shown, work, phase, asked, roster, left, lost, budget>>

PostSent(p) ==
    /\ press[p].next = "post"
    /\ Say(press[p].req, "sent")
    /\ press' = [press EXCEPT ![p].next = "stamp"]
    /\ UNCHANGED <<rows, card, work, phase, asked, roster, left, lost, budget>>

\* Mutant: a notice that could not be posted is reported and nothing else done.
PostSentLeaves(p) ==
    /\ press[p].next = "post"
    /\ Fault
    /\ press' = [press EXCEPT ![p] = Nobody]
    /\ UNCHANGED <<rows, shown, work, phase, asked, roster, left, lost, edits>>

PostSentFails(p) ==
    /\ press[p].next = "post"
    /\ Fault
    /\ press' = [press EXCEPT ![p].next = "refuse"]
    /\ UNCHANGED <<rows, shown, work, phase, asked, roster, left, lost, edits>>

(* fail: the person is told by the answer to the press, not in the thread.  *)
Refuse(p) ==
    LET r == press[p].req
    IN /\ press[p].next = "refuse"
       /\ Set(r, "failed") /\ Lose(r, "word")
       /\ press' = [press EXCEPT ![p].next = "stamp"]
       /\ UNCHANGED <<cardId, shown, work, phase, asked, roster, left, budget>>

(* The card is stamped with the row's new state, and a row that runs gets   *)
(* its task.                                                                *)
PressEnds(p) ==
    LET r == press[p].req
    IN /\ press[p].next = "stamp"
       /\ Stamp(r)
       /\ IF ledger[r] = "running" THEN Then(r, "start") ELSE UNCHANGED work
       /\ press' = [press EXCEPT ![p] = Nobody]
       /\ UNCHANGED <<rows, thread, phase, asked, roster, left, lost, budget>>

----------------------------------------------------------------------------
(* _dispatch: the task that carries a request to its agent.                *)

\* Mutant: the outcome of a handoff is posted without stamping its card.
NoStamp(r) == "tell"

Afterwards(r) == IF r \in Handoffs THEN "stamp" ELSE "tell"

Dispatch(r) ==
    /\ work[r] = "start"
    /\ IF safe
       THEN Set(r, "failed") /\ Then(r, Afterwards(r))
       ELSE Then(r, "queue") /\ UNCHANGED ledger
    /\ UNCHANGED <<cardId, shown, press, phase, asked, roster, left, lost, budget>>

AtAgents == {r \in Requests : work[r] = "asking"}

Ask(r) ==
    /\ work[r] = "queue"
    /\ Cardinality(AtAgents) < Slots
    /\ asked' = [asked EXCEPT ![r] = @ + 1]
    /\ Then(r, "asking")
    /\ UNCHANGED <<rows, shown, press, phase, roster, left, lost, budget>>

(* The agent's report, or an error, an empty answer or the time limit.      *)
Answer(r, state) ==
    /\ work[r] = "asking"
    /\ Set(r, state) /\ Then(r, Afterwards(r))
    /\ UNCHANGED <<cardId, shown, press, phase, asked, roster, left, lost, budget>>

StampOutcome(r) ==
    /\ work[r] = "stamp"
    /\ Stamp(r) /\ Then(r, "tell")
    /\ UNCHANGED <<rows, thread, press, phase, asked, roster, left, lost, budget>>

Tell(r) ==
    /\ work[r] = "tell"
    /\ Say(r, IF ledger[r] = "done" THEN "report" ELSE "failed")
    /\ Then(r, "none")
    /\ UNCHANGED <<rows, card, press, phase, asked, roster, left, lost, budget>>

TellFails(r) ==
    /\ work[r] \in {"tell", "lost"}
    /\ Fault
    /\ Then(r, "none") /\ Lose(r, "word")
    /\ UNCHANGED <<rows, shown, press, phase, asked, roster, left, edits>>

----------------------------------------------------------------------------
(* A death of the process takes its tasks and the presses with it, and      *)
(* with them what they had yet to write of a row that has ended.            *)
LosesWord(r) == ledger[r] \in {"done", "failed"} /\ work[r] \in {"stamp", "tell", "restamp", "lost"}
LosesStamp(r) == ledger[r] \in Final /\ (work[r] \in {"stamp", "restamp"} \/ HeldByPress(r))

Crash ==
    /\ phase # "down"
    /\ Fault
    /\ phase' = "down"
    /\ lost' = [r \in Requests |-> lost[r]
                  \cup (IF LosesWord(r) THEN {"word"} ELSE {})
                  \cup (IF LosesStamp(r) THEN {"stamp"} ELSE {})
                  \cup (IF work[r] = "note" THEN {"id"} ELSE {})]
    /\ work' = [r \in Requests |-> "none"]
    /\ press' = [p \in Presses |-> Nobody]
    /\ UNCHANGED <<rows, shown, asked, roster, left, edits>>

\* Mutant: a start looks for research requests only.
RunningResearch == {r \in Research : ledger[r] = "running"}
Running == {r \in Requests : ledger[r] = "running"}

(* recover_requests, before the server answers; a roster without an advisor *)
(* has nothing looked for.                                                  *)
Start ==
    /\ phase = "down"
    /\ IF advisor
       THEN /\ phase' = "recovering"
            /\ work' = [r \in Requests |-> IF r \in Running THEN "mark" ELSE "none"]
            /\ UNCHANGED left
       ELSE phase' = "up" /\ left' = Running /\ UNCHANGED work
    /\ UNCHANGED <<rows, shown, press, asked, roster, lost, budget>>

InHand == {r \in Requests : work[r] \in {"restamp", "lost"}}

Mark(r) ==
    /\ work[r] = "mark" /\ InHand = {}
    /\ Set(r, "failed") /\ Then(r, "restamp")
    /\ UNCHANGED <<cardId, shown, press, phase, asked, roster, left, lost, budget>>

Restamp(r) ==
    /\ work[r] = "restamp"
    /\ Stamp(r) /\ Then(r, "lost")
    /\ UNCHANGED <<rows, thread, press, phase, asked, roster, left, lost, budget>>

TellLost(r) ==
    /\ work[r] = "lost"
    /\ Say(r, "lost") /\ Then(r, "none")
    /\ UNCHANGED <<rows, card, press, phase, asked, roster, left, lost, budget>>

Recovered ==
    /\ phase = "recovering"
    /\ \A r \in Requests : work[r] = "none"
    /\ phase' = "up"
    /\ UNCHANGED <<rows, shown, work, press, asked, roster, left, lost, budget>>

(* A person edits the roster, which is read again whenever it is used.      *)
EditRoster ==
    /\ edits < MaxEdits
    /\ edits' = edits + 1
    /\ \/ advisor /\ advisor' = FALSE /\ UNCHANGED safe
       \/ ~safe /\ safe' = TRUE /\ UNCHANGED advisor
    /\ UNCHANGED <<rows, shown, work, press, phase, asked, left, lost, faults>>

----------------------------------------------------------------------------
WorkStep(r) ==
    \/ PostAsked(r) \/ PostAskedFails(r) \/ PostCard(r) \/ PostCardFails(r) \/ NoteCard(r)
    \/ Dispatch(r) \/ Ask(r) \/ StampOutcome(r) \/ Tell(r) \/ TellFails(r)
    \/ \E state \in {"done", "failed"} : Answer(r, state)
    \/ Mark(r) \/ Restamp(r) \/ TellLost(r)

PressStep(p) ==
    \/ GiveUp(p) \/ Claim(p) \/ PostSent(p) \/ PostSentFails(p) \/ Refuse(p) \/ PressEnds(p)

Next ==
    \/ \E r \in Requests : Add(r) \/ WorkStep(r)
    \/ \E p \in Presses, r \in Handoffs, button \in {"send", "dismiss"} : Press(p, r, button)
    \/ \E p \in Presses : PressStep(p)
    \/ Crash \/ Start \/ Recovered \/ EditRoster

Spec == Init /\ [][Next]_vars

(* Tasks and handlers go on, an agent answers or its time runs out, and the *)
(* server is started again.  Nobody has to press anything.                  *)
FairSpec ==
    /\ Spec
    /\ \A r \in Requests : WF_vars(WorkStep(r))
    /\ \A p \in Presses : WF_vars(PressStep(p))
    /\ WF_vars(Start) /\ WF_vars(Recovered)
----------------------------------------------------------------------------
TypeOK ==
    /\ ledger \in [Requests -> Final \cup {"none", "proposed", "running"}]
    /\ cardId \subseteq Handoffs
    /\ thread \in [Requests -> SUBSET Phases]
    /\ card \in [Handoffs -> Final \cup {"none", "proposed", "running"}]
    /\ work \in [Requests -> {"none", "post", "note", "start", "queue", "asking",
                              "stamp", "tell", "mark", "restamp", "lost"}]
    /\ press \in [Presses -> [req : Handoffs \cup {"none"}, button : {"none", "send", "dismiss"},
                              next : {"none", "look", "post", "refuse", "stamp"}]]
    /\ \A p \in Presses : press[p].next # "none" => press[p].req \in Handoffs
    /\ phase \in {"up", "down", "recovering"}
    /\ asked \in [Requests -> Nat]
    /\ advisor \in BOOLEAN /\ safe \in BOOLEAN
    /\ left \subseteq Requests
    /\ lost \in [Requests -> SUBSET {"word", "stamp", "id"}]
    /\ faults \in 0..MaxFaults /\ edits \in 0..MaxEdits

(* Of everything that may be at work on a request there is one at a time: a *)
(* task, or one press.  A running row has it while the server is up (but    *)
(* for those a start did not look for), a card that was shown can be sent   *)
(* (but for one whose turn died before its message was recorded), and no    *)
(* more than Slots agents are asked at a time.                              *)
Owners(r) == (IF work[r] = "none" THEN 0 ELSE 1)
             + Cardinality({p \in Presses : Acting(p) /\ press[p].req = r})

RequestsAccounted ==
    /\ TypeOK
    /\ Cardinality(AtAgents) <= Slots
    /\ \A r \in Requests :
          /\ Owners(r) <= 1
          /\ work[r] \in {"queue", "asking"} => ledger[r] = "running"
          /\ ledger[r] = "running" /\ phase # "down" => Owners(r) = 1 \/ r \in left
          /\ phase = "up" /\ ledger[r] = "proposed" /\ Owners(r) = 0 /\ "card" \in thread[r]
               => r \in cardId \/ "id" \in lost[r]

(* An agent is given a request once, whatever was pressed how often and     *)
(* whatever died in between; never before the thread shows that it was      *)
(* sent, and never one that was dismissed.                                  *)
AskedOnConsent ==
    \A r \in Requests :
        /\ asked[r] <= 1
        /\ asked[r] = 1 => thread[r] \cap {"asked", "sent"} # {}
        /\ ledger[r] = "dismissed" => asked[r] = 0 /\ "sent" \notin thread[r]

(* The thread and the card tell what the ledger says: no message of an      *)
(* outcome that was not recorded and never two of one request; and, when    *)
(* nothing is at work on it, an ended request has its message and its card  *)
(* shows its state, but for what a death in between or a failed delivery    *)
(* has lost, and a refused press, which is answered itself.                 *)
Outcomes(r) == thread[r] \cap {"report", "failed", "lost"}

TellsTheTruth ==
    \A r \in Requests :
        /\ Cardinality(Outcomes(r)) <= 1
        /\ "report" \in thread[r] => ledger[r] = "done"
        /\ thread[r] \cap {"failed", "lost"} # {} => ledger[r] = "failed"
        /\ phase = "up" /\ Owners(r) = 0 =>
             /\ ledger[r] \in {"done", "failed"} => Outcomes(r) # {} \/ "word" \in lost[r]
             /\ r \in Handoffs /\ card[r] # "none" =>
                  card[r] = ledger[r] \/ "stamp" \in lost[r] \/ r \in left

(* A request that runs ends, through any deaths of the server, unless a     *)
(* start did not look for it.                                               *)
RequestsEnd ==
    \A r \in Requests : ledger[r] = "running" ~> ledger[r] \in Final \/ r \in left

----------------------------------------------------------------------------
(* What the code or its documentation says and the model shows not to hold. *)

(* "proposed cards survive a restart and can still be sent"                 *)
CardsSurvive ==
    \A r \in Handoffs :
        phase = "up" /\ ledger[r] = "proposed" /\ "card" \in thread[r] /\ work[r] # "note"
            => r \in cardId

(* "requests that were running when the server stopped are marked failed"   *)
NothingLeftRunning == left = {}

(* "the thread gets a warning"; a report is posted when the agent answers.  *)
OutcomeIsTold ==
    \A r \in Research :
        phase = "up" /\ work[r] = "none" /\ ledger[r] \in {"done", "failed"} /\ "asked" \in thread[r]
            => Outcomes(r) # {}

(* "an advisor never hands private chat to one"                             *)
NeverHandedToSafeBot == [][asked' # asked => ~safe]_vars

=============================================================================

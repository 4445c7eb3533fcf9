---------------------------- MODULE AdvisorProofs ----------------------------
(***************************************************************************)
(* What is proved of AdvisorRequests, for any requests, any number of      *)
(* presses, slots, deaths and edits: its types; that an agent is given a   *)
(* request once at most, and only with consent; who has it in hand; what   *)
(* the thread and the card tell of it.                                     *)
(***************************************************************************)
EXTENDS AdvisorRequests, FiniteSetTheorems, TLAPS

(* AskedOnConsent is not inductive: what keeps an agent from being asked    *)
(* twice is that every road to the agent begins at a row that is new or     *)
(* proposed, and leaves it so no more.                                      *)
RowsAndWork ==
    \A r \in Requests :
        /\ ledger[r] = "none" => work[r] = "none" /\ r \notin cardId
        /\ work[r] = "post" /\ r \in Research => ledger[r] = "running"
        /\ work[r] \in {"post", "note"} /\ r \in Handoffs
             => ledger[r] = "proposed" /\ r \notin cardId
        /\ work[r] = "note" => r \in Handoffs
        /\ work[r] \in {"start", "queue", "asking"}
             => ledger[r] = "running" /\ thread[r] \cap {"asked", "sent"} # {}
        /\ work[r] \in {"stamp", "tell", "restamp", "lost"} => ledger[r] \in {"done", "failed"}
        /\ work[r] = "mark" => ledger[r] = "running"

Spent ==
    \A r \in Requests :
        /\ asked[r] = 1 => /\ ledger[r] \in {"running", "done", "failed"}
                           /\ work[r] \notin {"post", "note", "start", "queue"}
        /\ "sent" \in thread[r] => ledger[r] \in {"running", "done", "failed"}

(* A press that was granted its claim has the row to itself.                *)
PressHasRow ==
    /\ \A p \in Presses : Acting(p) =>
          /\ asked[press[p].req] = 0 /\ work[press[p].req] = "none"
          /\ ledger[press[p].req] \in {"running", "failed", "dismissed"}
          /\ press[p].next \in {"post", "refuse"} => ledger[press[p].req] = "running"
          /\ press[p].next = "stamp" /\ ledger[press[p].req] = "running"
               => "sent" \in thread[press[p].req]
    /\ \A p, q \in Presses : Acting(p) /\ Acting(q) /\ press[p].req = press[q].req => p = q
    /\ phase # "up" => \A p \in Presses : press[p] = Nobody

ConsentInv == TypeOK /\ AskedOnConsent /\ RowsAndWork /\ Spent /\ PressHasRow

-----------------------------------------------------------------------------
(* The end of an advisor's turn: a request is recorded, and then shown.     *)

LEMMA AddKeeps ==
    ASSUME NEW r \in Requests, ConsentInv, Add(r) PROVE ConsentInv'
<1> USE RequestsAssumption DEF ConsentInv, Add, Set, Then,
    rows, shown, roster, budget, Requests
<1>1. TypeOK'
  BY DEF TypeOK, Final, Phases
<1>2. AskedOnConsent'
  BY DEF TypeOK, AskedOnConsent, RowsAndWork, Spent, PressHasRow, Acting
<1>3. RowsAndWork'
  BY DEF TypeOK, RowsAndWork, Spent, PressHasRow, Acting
<1>4. Spent'
  BY DEF TypeOK, AskedOnConsent, RowsAndWork, Spent, PressHasRow, Acting
<1>5. PressHasRow'
  BY DEF TypeOK, AskedOnConsent, RowsAndWork, Spent, PressHasRow, Acting
<1>6. QED
  BY <1>1, <1>2, <1>3, <1>4, <1>5

LEMMA PostAskedKeeps ==
    ASSUME NEW r \in Requests, ConsentInv, PostAsked(r) PROVE ConsentInv'
<1> USE RequestsAssumption DEF ConsentInv, PostAsked, Say, Then,
    rows, shown, roster, budget, Requests
<1>1. TypeOK'
  BY DEF TypeOK, Final, Phases
<1>2. AskedOnConsent'
  BY DEF TypeOK, AskedOnConsent, RowsAndWork, Spent, PressHasRow, Acting
<1>3. RowsAndWork'
  BY DEF TypeOK, RowsAndWork, Spent, PressHasRow, Acting
<1>4. Spent'
  BY DEF TypeOK, AskedOnConsent, RowsAndWork, Spent, PressHasRow, Acting
<1>5. PressHasRow'
  BY DEF TypeOK, AskedOnConsent, RowsAndWork, Spent, PressHasRow, Acting
<1>6. QED
  BY <1>1, <1>2, <1>3, <1>4, <1>5

LEMMA PostAskedFailsKeeps ==
    ASSUME NEW r \in Requests, ConsentInv, PostAskedFails(r) PROVE ConsentInv'
<1> USE RequestsAssumption DEF ConsentInv, PostAskedFails, Fault, Set, Then, Lose,
    rows, shown, roster, budget, Requests
<1>1. TypeOK'
  BY DEF TypeOK, Final, Phases
<1>2. AskedOnConsent'
  BY DEF TypeOK, AskedOnConsent, RowsAndWork, Spent, PressHasRow, Acting
<1>3. RowsAndWork'
  BY DEF TypeOK, RowsAndWork, Spent, PressHasRow, Acting
<1>4. Spent'
  BY DEF TypeOK, AskedOnConsent, RowsAndWork, Spent, PressHasRow, Acting
<1>5. PressHasRow'
  BY DEF TypeOK, AskedOnConsent, RowsAndWork, Spent, PressHasRow, Acting
<1>6. QED
  BY <1>1, <1>2, <1>3, <1>4, <1>5

LEMMA PostCardKeeps ==
    ASSUME NEW r \in Requests, ConsentInv, PostCard(r) PROVE ConsentInv'
<1> USE RequestsAssumption DEF ConsentInv, PostCard, Say, Then,
    rows, shown, roster, budget, Requests
<1>1. TypeOK'
  BY DEF TypeOK, Final, Phases
<1>2. AskedOnConsent'
  BY DEF TypeOK, AskedOnConsent, RowsAndWork, Spent, PressHasRow, Acting
<1>3. RowsAndWork'
  BY DEF TypeOK, RowsAndWork, Spent, PressHasRow, Acting
<1>4. Spent'
  BY DEF TypeOK, AskedOnConsent, RowsAndWork, Spent, PressHasRow, Acting
<1>5. PressHasRow'
  BY DEF TypeOK, AskedOnConsent, RowsAndWork, Spent, PressHasRow, Acting
<1>6. QED
  BY <1>1, <1>2, <1>3, <1>4, <1>5

LEMMA PostCardFailsKeeps ==
    ASSUME NEW r \in Requests, ConsentInv, PostCardFails(r) PROVE ConsentInv'
<1> USE RequestsAssumption DEF ConsentInv, PostCardFails, Fault, Then,
    rows, shown, roster, budget, Requests
<1>1. TypeOK'
  BY DEF TypeOK, Final, Phases
<1>2. AskedOnConsent'
  BY DEF TypeOK, AskedOnConsent, RowsAndWork, Spent, PressHasRow, Acting
<1>3. RowsAndWork'
  BY DEF TypeOK, RowsAndWork, Spent, PressHasRow, Acting
<1>4. Spent'
  BY DEF TypeOK, AskedOnConsent, RowsAndWork, Spent, PressHasRow, Acting
<1>5. PressHasRow'
  BY DEF TypeOK, AskedOnConsent, RowsAndWork, Spent, PressHasRow, Acting
<1>6. QED
  BY <1>1, <1>2, <1>3, <1>4, <1>5

LEMMA NoteCardKeeps ==
    ASSUME NEW r \in Requests, ConsentInv, NoteCard(r) PROVE ConsentInv'
<1> USE RequestsAssumption DEF ConsentInv, NoteCard, Then,
    rows, shown, roster, budget, Requests
<1>1. TypeOK'
  BY DEF TypeOK, RowsAndWork, Final, Phases
<1>2. AskedOnConsent'
  BY DEF TypeOK, AskedOnConsent, RowsAndWork, Spent, PressHasRow, Acting
<1>3. RowsAndWork'
  BY DEF TypeOK, RowsAndWork, Spent, PressHasRow, Acting
<1>4. Spent'
  BY DEF TypeOK, AskedOnConsent, RowsAndWork, Spent, PressHasRow, Acting
<1>5. PressHasRow'
  BY DEF TypeOK, AskedOnConsent, RowsAndWork, Spent, PressHasRow, Acting
<1>6. QED
  BY <1>1, <1>2, <1>3, <1>4, <1>5

-----------------------------------------------------------------------------
(* The buttons of a card.                                                   *)

LEMMA PressKeeps ==
    ASSUME NEW p \in Presses, NEW r \in Handoffs, NEW button \in {"send", "dismiss"},
       ConsentInv, Press(p, r, button) PROVE ConsentInv'
<1> USE RequestsAssumption DEF ConsentInv, Press, Nobody,
    rows, shown, roster, budget, Requests
<1>1. TypeOK'
  BY DEF TypeOK, Final, Phases
<1>2. AskedOnConsent'
  BY DEF TypeOK, AskedOnConsent, RowsAndWork, Spent, PressHasRow, Acting
<1>3. RowsAndWork'
  BY DEF TypeOK, RowsAndWork, Spent, PressHasRow, Acting
<1>4. Spent'
  BY DEF TypeOK, AskedOnConsent, RowsAndWork, Spent, PressHasRow, Acting
<1>5. PressHasRow'
  BY DEF TypeOK, AskedOnConsent, RowsAndWork, Spent, PressHasRow, Acting
<1>6. QED
  BY <1>1, <1>2, <1>3, <1>4, <1>5

LEMMA GiveUpKeeps ==
    ASSUME NEW p \in Presses, ConsentInv, GiveUp(p) PROVE ConsentInv'
<1> USE RequestsAssumption DEF ConsentInv, GiveUp, Nobody,
    rows, shown, roster, budget, Requests
<1>1. TypeOK'
  BY DEF TypeOK, Final, Phases
<1>2. AskedOnConsent'
  BY DEF TypeOK, AskedOnConsent, RowsAndWork, Spent, PressHasRow, Acting
<1>3. RowsAndWork'
  BY DEF TypeOK, RowsAndWork, Spent, PressHasRow, Acting
<1>4. Spent'
  BY DEF TypeOK, AskedOnConsent, RowsAndWork, Spent, PressHasRow, Acting
<1>5. PressHasRow'
  BY DEF TypeOK, AskedOnConsent, RowsAndWork, Spent, PressHasRow, Acting
<1>6. QED
  BY <1>1, <1>2, <1>3, <1>4, <1>5

\* The claim compares and sets the row's state in one statement: the press
\* that found it proposed has it, and no task has it in hand.
LEMMA ClaimKeeps ==
    ASSUME NEW p \in Presses, ConsentInv, Claim(p) PROVE ConsentInv'
<1> DEFINE r == press[p].req
<1> USE RequestsAssumption DEF ConsentInv, Set,
    rows, shown, roster, budget, Requests
<1>1. TypeOK'
  <2>1. ledger' \in [Requests -> Final \cup {"none", "proposed", "running"}]
    BY DEF Claim, TypeOK, Final
  <2>2. /\ press' \in [Presses -> [req : Handoffs \cup {"none"}, button : {"none", "send", "dismiss"},
                                   next : {"none", "look", "post", "refuse", "stamp"}]]
        /\ \A q \in Presses : press'[q].next # "none" => press'[q].req \in Handoffs
    <3>1. /\ press[p] \in [req : Handoffs \cup {"none"}, button : {"none", "send", "dismiss"},
                           next : {"none", "look", "post", "refuse", "stamp"}]
          /\ press[p].req \in Handoffs
      BY DEF Claim, TypeOK
    <3>2. \/ press' = [press EXCEPT ![p] = Nobody]
          \/ \E next \in {"post", "refuse", "stamp"} : press' = [press EXCEPT ![p].next = next]
      BY DEF Claim
    <3> QED
      BY <3>1, <3>2 DEF Nobody, TypeOK
  <2> QED
    BY <2>1, <2>2 DEF Claim, TypeOK
<1>2. r \in Requests /\ press[p].next = "look" /\ r \in cardId
  BY DEF Claim, TypeOK
<1>3. UNCHANGED <<cardId, thread, work, phase, asked>>
  BY DEF Claim
<1>4. \A q \in Presses \ {p} : press'[q] = press[q]
  BY DEF Claim, TypeOK
<1>5. CASE ledger[r] = "proposed"
  <2>1. ledger' = [ledger EXCEPT ![r] = ledger'[r]] /\ ledger'[r] \in {"running", "dismissed"}
    BY <1>2, <1>5 DEF Claim, TypeOK
  <2>2. asked[r] = 0 /\ work[r] = "none" /\ "sent" \notin thread[r]
    <3>1. r \in Handoffs /\ asked[r] \in Nat /\ asked[r] <= 1
      BY <1>2 DEF TypeOK, AskedOnConsent
    <3>2. asked[r] = 0 /\ "sent" \notin thread[r]
      BY <1>2, <1>5, <3>1 DEF Spent
    <3>3. work[r] = "none"
      BY <1>2, <1>5, <3>1 DEF TypeOK, RowsAndWork
    <3>4. QED
      BY <3>2, <3>3
  <2>3. press'[p].req = r /\ press'[p].next \in {"post", "refuse", "stamp"}
    BY <1>5 DEF Claim, TypeOK
  <2>4. ledger'[r] = "running" <=> press'[p].next # "stamp"
    BY <1>2, <1>5 DEF Claim, TypeOK
  <2>5. \A q \in Presses \ {p} : Acting(q) => press[q].req # r
    BY <1>5 DEF PressHasRow
  <2>6. AskedOnConsent'
    BY <1>2, <1>3, <2>1, <2>2 DEF AskedOnConsent, TypeOK
  <2>7. RowsAndWork'
    BY <1>2, <1>3, <2>1, <2>2 DEF RowsAndWork, TypeOK
  <2>8. Spent'
    BY <1>2, <1>3, <2>1, <2>2 DEF Spent, TypeOK
  <2>9. PressHasRow'
    <3>1. phase = "up" /\ phase' = "up"
      BY <1>2, <1>3 DEF PressHasRow, Nobody
    <3>2. \A q \in Presses : Acting(q)' =>
            /\ asked'[press'[q].req] = 0 /\ work'[press'[q].req] = "none"
            /\ ledger'[press'[q].req] \in {"running", "failed", "dismissed"}
            /\ press'[q].next \in {"post", "refuse"} => ledger'[press'[q].req] = "running"
            /\ press'[q].next = "stamp" /\ ledger'[press'[q].req] = "running"
                 => "sent" \in thread'[press'[q].req]
      BY <1>2, <1>3, <1>4, <2>1, <2>2, <2>3, <2>4, <2>5 DEF PressHasRow, Acting, TypeOK
    <3>3. QED
      BY <1>4, <2>3, <2>5, <3>1, <3>2 DEF PressHasRow, Acting
  <2>10. QED
    BY <1>1, <2>6, <2>7, <2>8, <2>9
<1>6. CASE ledger[r] # "proposed"
  <2>1. UNCHANGED ledger /\ ~Acting(p)'
    BY <1>6 DEF Claim, Nobody, TypeOK, Acting
  <2>2. AskedOnConsent' /\ RowsAndWork' /\ Spent'
    BY <1>3, <2>1 DEF AskedOnConsent, RowsAndWork, Spent
  <2>3. PressHasRow'
    BY <1>2, <1>3, <1>4, <2>1 DEF PressHasRow, Acting, Nobody
  <2>4. QED
    BY <1>1, <2>2, <2>3
<1>7. QED
  BY <1>5, <1>6

LEMMA PostSentKeeps ==
    ASSUME NEW p \in Presses, ConsentInv, PostSent(p) PROVE ConsentInv'
<1> USE RequestsAssumption DEF ConsentInv, PostSent, Say,
    rows, shown, roster, budget, Requests
<1>1. TypeOK'
  BY DEF TypeOK, Final, Phases
<1>2. AskedOnConsent'
  BY DEF TypeOK, AskedOnConsent, RowsAndWork, Spent, PressHasRow, Acting
<1>3. RowsAndWork'
  BY DEF TypeOK, RowsAndWork, Spent, PressHasRow, Acting
<1>4. Spent'
  BY DEF TypeOK, AskedOnConsent, RowsAndWork, Spent, PressHasRow, Acting
<1>5. PressHasRow'
  <2>1. \A q \in Presses \ {p} : press'[q] = press[q]
    BY DEF TypeOK
  <2>2. press'[p].req = press[p].req /\ press'[p].next = "stamp"
    BY DEF TypeOK
  <2>3. phase = "up" /\ phase' = "up"
    BY DEF PressHasRow, Nobody
  <2>4. \A q \in Presses \ {p} : Acting(q) => press[q].req # press[p].req
    BY DEF PressHasRow, Acting
  <2>5. \A q \in Presses : Acting(q)' =>
          /\ asked'[press'[q].req] = 0 /\ work'[press'[q].req] = "none"
          /\ ledger'[press'[q].req] \in {"running", "failed", "dismissed"}
          /\ press'[q].next \in {"post", "refuse"} => ledger'[press'[q].req] = "running"
          /\ press'[q].next = "stamp" /\ ledger'[press'[q].req] = "running"
               => "sent" \in thread'[press'[q].req]
    BY <2>1, <2>2, <2>4 DEF TypeOK, PressHasRow, Acting
  <2>6. QED
    BY <2>1, <2>2, <2>3, <2>4, <2>5 DEF PressHasRow, Acting
<1>6. QED
  BY <1>1, <1>2, <1>3, <1>4, <1>5

LEMMA PostSentFailsKeeps ==
    ASSUME NEW p \in Presses, ConsentInv, PostSentFails(p) PROVE ConsentInv'
<1> USE RequestsAssumption DEF ConsentInv, PostSentFails, Fault,
    rows, shown, roster, budget, Requests
<1>1. TypeOK'
  BY DEF TypeOK, Final, Phases
<1>2. AskedOnConsent'
  BY DEF TypeOK, AskedOnConsent, RowsAndWork, Spent, PressHasRow, Acting
<1>3. RowsAndWork'
  BY DEF TypeOK, RowsAndWork, Spent, PressHasRow, Acting
<1>4. Spent'
  BY DEF TypeOK, AskedOnConsent, RowsAndWork, Spent, PressHasRow, Acting
<1>5. PressHasRow'
  <2>1. \A q \in Presses \ {p} : press'[q] = press[q]
    BY DEF TypeOK
  <2>2. press'[p].req = press[p].req /\ press'[p].next = "refuse"
    BY DEF TypeOK
  <2>3. phase = "up" /\ phase' = "up"
    BY DEF PressHasRow, Nobody
  <2>4. \A q \in Presses \ {p} : Acting(q) => press[q].req # press[p].req
    BY DEF PressHasRow, Acting
  <2>5. \A q \in Presses : Acting(q)' =>
          /\ asked'[press'[q].req] = 0 /\ work'[press'[q].req] = "none"
          /\ ledger'[press'[q].req] \in {"running", "failed", "dismissed"}
          /\ press'[q].next \in {"post", "refuse"} => ledger'[press'[q].req] = "running"
          /\ press'[q].next = "stamp" /\ ledger'[press'[q].req] = "running"
               => "sent" \in thread'[press'[q].req]
    BY <2>1, <2>2, <2>4 DEF TypeOK, PressHasRow, Acting
  <2>6. QED
    BY <2>1, <2>2, <2>3, <2>4, <2>5 DEF PressHasRow, Acting
<1>6. QED
  BY <1>1, <1>2, <1>3, <1>4, <1>5

LEMMA RefuseKeeps ==
    ASSUME NEW p \in Presses, ConsentInv, Refuse(p) PROVE ConsentInv'
<1> USE RequestsAssumption DEF ConsentInv, Refuse, Set, Lose,
    rows, shown, roster, budget, Requests
<1>1. TypeOK'
  BY DEF TypeOK, Final, Phases
<1>2. AskedOnConsent'
  BY DEF TypeOK, AskedOnConsent, RowsAndWork, Spent, PressHasRow, Acting
<1>3. RowsAndWork'
  BY DEF TypeOK, RowsAndWork, Spent, PressHasRow, Acting
<1>4. Spent'
  BY DEF TypeOK, AskedOnConsent, RowsAndWork, Spent, PressHasRow, Acting
<1>5. PressHasRow'
  <2>1. \A q \in Presses \ {p} : press'[q] = press[q]
    BY DEF TypeOK
  <2>2. press'[p].req = press[p].req /\ press'[p].next = "stamp"
    BY DEF TypeOK
  <2>3. phase = "up" /\ phase' = "up"
    BY DEF PressHasRow, Nobody
  <2>4. \A q \in Presses \ {p} : Acting(q) => press[q].req # press[p].req
    BY DEF PressHasRow, Acting
  <2>5. \A q \in Presses : Acting(q)' =>
          /\ asked'[press'[q].req] = 0 /\ work'[press'[q].req] = "none"
          /\ ledger'[press'[q].req] \in {"running", "failed", "dismissed"}
          /\ press'[q].next \in {"post", "refuse"} => ledger'[press'[q].req] = "running"
          /\ press'[q].next = "stamp" /\ ledger'[press'[q].req] = "running"
               => "sent" \in thread'[press'[q].req]
    BY <2>1, <2>2, <2>4 DEF TypeOK, PressHasRow, Acting
  <2>6. QED
    BY <2>1, <2>2, <2>3, <2>4, <2>5 DEF PressHasRow, Acting
<1>6. QED
  BY <1>1, <1>2, <1>3, <1>4, <1>5

\* The task that the press starts finds the notice in the thread.
LEMMA PressEndsKeeps ==
    ASSUME NEW p \in Presses, ConsentInv, PressEnds(p) PROVE ConsentInv'
<1> USE RequestsAssumption DEF ConsentInv, PressEnds, Stamp, Then, Nobody,
    rows, shown, roster, budget, Requests
<1>1. TypeOK'
  BY DEF TypeOK, Final, Phases
<1>2. AskedOnConsent'
  BY DEF TypeOK, AskedOnConsent, RowsAndWork, Spent, PressHasRow, Acting
<1>3. RowsAndWork'
  BY DEF TypeOK, RowsAndWork, Spent, PressHasRow, Acting
<1>4. Spent'
  BY DEF TypeOK, AskedOnConsent, RowsAndWork, Spent, PressHasRow, Acting
<1>5. PressHasRow'
  BY DEF TypeOK, AskedOnConsent, RowsAndWork, Spent, PressHasRow, Acting
<1>6. QED
  BY <1>1, <1>2, <1>3, <1>4, <1>5

-----------------------------------------------------------------------------
(* The task that carries a request to its agent.                            *)

LEMMA DispatchKeeps ==
    ASSUME NEW r \in Requests, ConsentInv, Dispatch(r) PROVE ConsentInv'
<1> USE RequestsAssumption DEF ConsentInv, Dispatch, Set, Then, Afterwards,
    rows, shown, roster, budget, Requests
<1>1. TypeOK'
  BY DEF TypeOK, Final, Phases
<1>2. AskedOnConsent'
  BY DEF TypeOK, AskedOnConsent, RowsAndWork, Spent, PressHasRow, Acting
<1>3. RowsAndWork'
  BY DEF TypeOK, RowsAndWork, Spent, PressHasRow, Acting
<1>4. Spent'
  BY DEF TypeOK, AskedOnConsent, RowsAndWork, Spent, PressHasRow, Acting
<1>5. PressHasRow'
  BY DEF TypeOK, AskedOnConsent, RowsAndWork, Spent, PressHasRow, Acting
<1>6. QED
  BY <1>1, <1>2, <1>3, <1>4, <1>5

\* A queued request was not asked yet, and a request at its agent is not
\* queued again.
LEMMA AskKeeps ==
    ASSUME NEW r \in Requests, ConsentInv, Ask(r) PROVE ConsentInv'
<1> USE RequestsAssumption DEF ConsentInv, Ask, Then,
    rows, shown, roster, budget, Requests
<1>1. TypeOK'
  BY DEF TypeOK, Final, Phases
<1>2. AskedOnConsent'
  <2>1. asked[r] = 0 /\ thread[r] \cap {"asked", "sent"} # {} /\ ledger[r] = "running"
    <3>1. asked[r] \in Nat /\ asked[r] <= 1
      BY DEF TypeOK, AskedOnConsent
    <3>2. asked[r] # 1
      BY DEF Spent
    <3>3. thread[r] \cap {"asked", "sent"} # {} /\ ledger[r] = "running"
      BY DEF RowsAndWork
    <3> QED
      BY <3>1, <3>2, <3>3
  <2> QED
    BY <2>1 DEF TypeOK, AskedOnConsent
<1>3. RowsAndWork'
  BY DEF TypeOK, RowsAndWork, Spent, PressHasRow, Acting
<1>4. Spent'
  BY DEF TypeOK, AskedOnConsent, RowsAndWork, Spent, PressHasRow, Acting
<1>5. PressHasRow'
  BY DEF TypeOK, AskedOnConsent, RowsAndWork, Spent, PressHasRow, Acting
<1>6. QED
  BY <1>1, <1>2, <1>3, <1>4, <1>5

LEMMA AnswerKeeps ==
    ASSUME NEW r \in Requests, NEW state \in {"done", "failed"},
           ConsentInv, Answer(r, state)
    PROVE ConsentInv'
<1> USE RequestsAssumption DEF ConsentInv, Answer, Set, Then, Afterwards,
    rows, shown, roster, budget, Requests
<1>1. TypeOK'
  BY DEF TypeOK, Final, Phases
<1>2. AskedOnConsent'
  BY DEF TypeOK, AskedOnConsent, RowsAndWork, Spent, PressHasRow, Acting
<1>3. RowsAndWork'
  BY DEF TypeOK, RowsAndWork, Spent, PressHasRow, Acting
<1>4. Spent'
  BY DEF TypeOK, AskedOnConsent, RowsAndWork, Spent, PressHasRow, Acting
<1>5. PressHasRow'
  BY DEF TypeOK, AskedOnConsent, RowsAndWork, Spent, PressHasRow, Acting
<1>6. QED
  BY <1>1, <1>2, <1>3, <1>4, <1>5

LEMMA StampOutcomeKeeps ==
    ASSUME NEW r \in Requests, ConsentInv, StampOutcome(r) PROVE ConsentInv'
<1> USE RequestsAssumption DEF ConsentInv, StampOutcome, Stamp, Then,
    rows, shown, roster, budget, Requests
<1>1. TypeOK'
  BY DEF TypeOK, Final, Phases
<1>2. AskedOnConsent'
  BY DEF TypeOK, AskedOnConsent, RowsAndWork, Spent, PressHasRow, Acting
<1>3. RowsAndWork'
  BY DEF TypeOK, RowsAndWork, Spent, PressHasRow, Acting
<1>4. Spent'
  BY DEF TypeOK, AskedOnConsent, RowsAndWork, Spent, PressHasRow, Acting
<1>5. PressHasRow'
  BY DEF TypeOK, AskedOnConsent, RowsAndWork, Spent, PressHasRow, Acting
<1>6. QED
  BY <1>1, <1>2, <1>3, <1>4, <1>5

LEMMA TellKeeps ==
    ASSUME NEW r \in Requests, ConsentInv, Tell(r) PROVE ConsentInv'
<1> USE RequestsAssumption DEF ConsentInv, Tell, Say, Then,
    rows, shown, roster, budget, Requests
<1>1. TypeOK'
  BY DEF TypeOK, Final, Phases
<1>2. AskedOnConsent'
  BY DEF TypeOK, AskedOnConsent, RowsAndWork, Spent, PressHasRow, Acting
<1>3. RowsAndWork'
  BY DEF TypeOK, RowsAndWork, Spent, PressHasRow, Acting
<1>4. Spent'
  BY DEF TypeOK, AskedOnConsent, RowsAndWork, Spent, PressHasRow, Acting
<1>5. PressHasRow'
  BY DEF TypeOK, AskedOnConsent, RowsAndWork, Spent, PressHasRow, Acting
<1>6. QED
  BY <1>1, <1>2, <1>3, <1>4, <1>5

LEMMA TellFailsKeeps ==
    ASSUME NEW r \in Requests, ConsentInv, TellFails(r) PROVE ConsentInv'
<1> USE RequestsAssumption DEF ConsentInv, TellFails, Fault, Then, Lose,
    rows, shown, roster, budget, Requests
<1>1. TypeOK'
  BY DEF TypeOK, Final, Phases
<1>2. AskedOnConsent'
  BY DEF TypeOK, AskedOnConsent, RowsAndWork, Spent, PressHasRow, Acting
<1>3. RowsAndWork'
  BY DEF TypeOK, RowsAndWork, Spent, PressHasRow, Acting
<1>4. Spent'
  BY DEF TypeOK, AskedOnConsent, RowsAndWork, Spent, PressHasRow, Acting
<1>5. PressHasRow'
  BY DEF TypeOK, AskedOnConsent, RowsAndWork, Spent, PressHasRow, Acting
<1>6. QED
  BY <1>1, <1>2, <1>3, <1>4, <1>5

-----------------------------------------------------------------------------
(* Deaths, starts and edits of the roster.                                  *)

LEMMA CrashKeeps ==
    ASSUME ConsentInv, Crash PROVE ConsentInv'
<1> USE RequestsAssumption DEF ConsentInv, Crash, Fault, Nobody,
    rows, shown, roster, budget, Requests
<1>1. TypeOK'
  BY DEF TypeOK, Final, Phases
<1>2. AskedOnConsent'
  BY DEF TypeOK, AskedOnConsent, RowsAndWork, Spent, PressHasRow, Acting
<1>3. RowsAndWork'
  BY DEF TypeOK, RowsAndWork, Spent, PressHasRow, Acting
<1>4. Spent'
  BY DEF TypeOK, AskedOnConsent, RowsAndWork, Spent, PressHasRow, Acting
<1>5. PressHasRow'
  BY DEF TypeOK, AskedOnConsent, RowsAndWork, Spent, PressHasRow, Acting
<1>6. QED
  BY <1>1, <1>2, <1>3, <1>4, <1>5

\* After a death there is no press, and a running row is marked, not sent.
LEMMA StartKeeps ==
    ASSUME ConsentInv, Start PROVE ConsentInv'
<1> USE RequestsAssumption DEF ConsentInv, Start, Running,
    rows, shown, roster, budget, Requests
<1>1. TypeOK'
  BY DEF TypeOK, Final, Phases
<1>2. AskedOnConsent'
  BY DEF TypeOK, AskedOnConsent, RowsAndWork, Spent, PressHasRow, Acting
<1>3. RowsAndWork'
  BY DEF TypeOK, RowsAndWork, Spent, PressHasRow, Acting
<1>4. Spent'
  BY DEF TypeOK, AskedOnConsent, RowsAndWork, Spent, PressHasRow, Acting
<1>5. PressHasRow'
  <2>1. \A p \in Presses : press[p].next = "none"
    BY DEF PressHasRow, Nobody
  <2>2. press' = press
    OBVIOUS
  <2>3. QED
    BY <2>1, <2>2 DEF PressHasRow, Acting
<1>6. QED
  BY <1>1, <1>2, <1>3, <1>4, <1>5

LEMMA MarkKeeps ==
    ASSUME NEW r \in Requests, ConsentInv, Mark(r) PROVE ConsentInv'
<1> USE RequestsAssumption DEF ConsentInv, Mark, Set, Then,
    rows, shown, roster, budget, Requests
<1>1. TypeOK'
  BY DEF TypeOK, Final, Phases
<1>2. AskedOnConsent'
  BY DEF TypeOK, AskedOnConsent, RowsAndWork, Spent, PressHasRow, Acting
<1>3. RowsAndWork'
  BY DEF TypeOK, RowsAndWork, Spent, PressHasRow, Acting
<1>4. Spent'
  BY DEF TypeOK, AskedOnConsent, RowsAndWork, Spent, PressHasRow, Acting
<1>5. PressHasRow'
  BY DEF TypeOK, AskedOnConsent, RowsAndWork, Spent, PressHasRow, Acting
<1>6. QED
  BY <1>1, <1>2, <1>3, <1>4, <1>5

LEMMA RestampKeeps ==
    ASSUME NEW r \in Requests, ConsentInv, Restamp(r) PROVE ConsentInv'
<1> USE RequestsAssumption DEF ConsentInv, Restamp, Stamp, Then,
    rows, shown, roster, budget, Requests
<1>1. TypeOK'
  BY DEF TypeOK, Final, Phases
<1>2. AskedOnConsent'
  BY DEF TypeOK, AskedOnConsent, RowsAndWork, Spent, PressHasRow, Acting
<1>3. RowsAndWork'
  BY DEF TypeOK, RowsAndWork, Spent, PressHasRow, Acting
<1>4. Spent'
  BY DEF TypeOK, AskedOnConsent, RowsAndWork, Spent, PressHasRow, Acting
<1>5. PressHasRow'
  BY DEF TypeOK, AskedOnConsent, RowsAndWork, Spent, PressHasRow, Acting
<1>6. QED
  BY <1>1, <1>2, <1>3, <1>4, <1>5

LEMMA TellLostKeeps ==
    ASSUME NEW r \in Requests, ConsentInv, TellLost(r) PROVE ConsentInv'
<1> USE RequestsAssumption DEF ConsentInv, TellLost, Say, Then,
    rows, shown, roster, budget, Requests
<1>1. TypeOK'
  BY DEF TypeOK, Final, Phases
<1>2. AskedOnConsent'
  BY DEF TypeOK, AskedOnConsent, RowsAndWork, Spent, PressHasRow, Acting
<1>3. RowsAndWork'
  BY DEF TypeOK, RowsAndWork, Spent, PressHasRow, Acting
<1>4. Spent'
  BY DEF TypeOK, AskedOnConsent, RowsAndWork, Spent, PressHasRow, Acting
<1>5. PressHasRow'
  BY DEF TypeOK, AskedOnConsent, RowsAndWork, Spent, PressHasRow, Acting
<1>6. QED
  BY <1>1, <1>2, <1>3, <1>4, <1>5

LEMMA RecoveredKeeps ==
    ASSUME ConsentInv, Recovered PROVE ConsentInv'
<1> USE RequestsAssumption DEF ConsentInv, Recovered,
    rows, shown, roster, budget, Requests
<1>1. TypeOK'
  BY DEF TypeOK, Final, Phases
<1>2. AskedOnConsent'
  BY DEF TypeOK, AskedOnConsent, RowsAndWork, Spent, PressHasRow, Acting
<1>3. RowsAndWork'
  BY DEF TypeOK, RowsAndWork, Spent, PressHasRow, Acting
<1>4. Spent'
  BY DEF TypeOK, AskedOnConsent, RowsAndWork, Spent, PressHasRow, Acting
<1>5. PressHasRow'
  BY DEF TypeOK, AskedOnConsent, RowsAndWork, Spent, PressHasRow, Acting
<1>6. QED
  BY <1>1, <1>2, <1>3, <1>4, <1>5

LEMMA EditRosterKeeps ==
    ASSUME ConsentInv, EditRoster PROVE ConsentInv'
<1> USE RequestsAssumption DEF ConsentInv, EditRoster,
    rows, shown, roster, budget, Requests
<1>1. TypeOK'
  <2>1. advisor' \in BOOLEAN /\ safe' \in BOOLEAN
    BY Zenon DEF TypeOK
  <2>2. edits' \in 0..MaxEdits
    BY DEF TypeOK
  <2>3. QED
    BY <2>1, <2>2 DEF TypeOK, Final, Phases
<1>2. AskedOnConsent'
  BY DEF TypeOK, AskedOnConsent, RowsAndWork, Spent, PressHasRow, Acting
<1>3. RowsAndWork'
  BY DEF TypeOK, RowsAndWork, Spent, PressHasRow, Acting
<1>4. Spent'
  BY DEF TypeOK, AskedOnConsent, RowsAndWork, Spent, PressHasRow, Acting
<1>5. PressHasRow'
  BY DEF TypeOK, AskedOnConsent, RowsAndWork, Spent, PressHasRow, Acting
<1>6. QED
  BY <1>1, <1>2, <1>3, <1>4, <1>5

-----------------------------------------------------------------------------
(* The theorem                                                              *)

LEMMA InitConsents == Init => ConsentInv
<1> SUFFICES ASSUME Init PROVE ConsentInv
  OBVIOUS
<1>1. TypeOK
  <2>1. advisor \in BOOLEAN /\ safe \in BOOLEAN
    BY DEF Init
  <2>2. press \in [Presses -> [req : Handoffs \cup {"none"}, button : {"none", "send", "dismiss"},
                               next : {"none", "look", "post", "refuse", "stamp"}]]
    BY DEF Init, Nobody
  <2>3. \A p \in Presses : press[p].next = "none"
    BY DEF Init, Nobody
  <2>4. faults \in 0..MaxFaults /\ edits \in 0..MaxEdits
    BY RequestsAssumption DEF Init
  <2>5. QED
    BY <2>1, <2>2, <2>3, <2>4 DEF Init, TypeOK, Requests, Final, Phases
<1>2. AskedOnConsent
  BY DEF Init, AskedOnConsent
<1>3. RowsAndWork /\ Spent
  BY DEF Init, RowsAndWork, Spent, Requests
<1>4. PressHasRow
  BY DEF Init, PressHasRow, Acting, Nobody
<1> QED
  BY <1>1, <1>2, <1>3, <1>4 DEF ConsentInv

LEMMA NextConsents == ConsentInv /\ [Next]_vars => ConsentInv'
<1>1. ASSUME ConsentInv, Next PROVE ConsentInv'
  <2>1. ASSUME NEW r \in Requests, Add(r) PROVE ConsentInv'
    BY <1>1, <2>1, AddKeeps
  <2>2. ASSUME NEW r \in Requests, WorkStep(r) PROVE ConsentInv'
    BY <1>1, <2>2, PostAskedKeeps, PostAskedFailsKeeps, PostCardKeeps,
       PostCardFailsKeeps, NoteCardKeeps, DispatchKeeps, AskKeeps,
       StampOutcomeKeeps, TellKeeps, TellFailsKeeps, AnswerKeeps,
       MarkKeeps, RestampKeeps, TellLostKeeps
       DEF WorkStep
  <2>3. ASSUME NEW p \in Presses, NEW r \in Handoffs, NEW button \in {"send", "dismiss"},
               Press(p, r, button)
        PROVE  ConsentInv'
    BY <1>1, <2>3, PressKeeps
  <2>4. ASSUME NEW p \in Presses, PressStep(p) PROVE ConsentInv'
    BY <1>1, <2>4, GiveUpKeeps, ClaimKeeps, PostSentKeeps, PostSentFailsKeeps,
       RefuseKeeps, PressEndsKeeps
       DEF PressStep
  <2> QED
    BY <1>1, <2>1, <2>2, <2>3, <2>4, CrashKeeps, StartKeeps, RecoveredKeeps, EditRosterKeeps
       DEF Next
<1>2. ASSUME ConsentInv, UNCHANGED vars PROVE ConsentInv'
  BY <1>2 DEF vars, rows, shown, roster, budget, ConsentInv, TypeOK, AskedOnConsent,
              RowsAndWork, Spent, PressHasRow, Acting
<1> QED
  BY <1>1, <1>2

\* An agent is given a request at most once, and only when the thread shows
\* that it was sent: whatever is pressed, by however many, whatever dies in
\* between, and however the roster is edited.  A dismissed request is never
\* given to one.
THEOREM AskedWithConsent == Spec => []AskedOnConsent
<1>1. ConsentInv => AskedOnConsent
  BY DEF ConsentInv
<1> QED
  BY InitConsents, NextConsents, <1>1, PTL DEF Spec

-----------------------------------------------------------------------------
(* Owners: one task or press at a time has a request in hand, no more than  *)
(* Slots agents are asked at a time, and what runs is in some hand.         *)

Slotted == IsFiniteSet(AtAgents) /\ Cardinality(AtAgents) <= Slots

RunningHeld ==
    \A r \in Requests :
        /\ ledger[r] = "running" /\ phase # "down"
             => work[r] # "none" \/ HeldByPress(r) \/ r \in left
        /\ phase = "down" => work[r] = "none"

(* A card that was shown is known to its row, or about to be, or the death  *)
(* that prevented it has been counted.                                      *)
CardKnown ==
    \A r \in Requests :
        /\ "card" \in thread[r] => r \in Handoffs /\ ledger[r] # "none" /\ work[r] # "post"
        /\ ledger[r] = "proposed" /\ "card" \in thread[r]
             => r \in cardId \/ work[r] = "note" \/ "id" \in lost[r]

HeldInv == Slotted /\ RunningHeld /\ CardKnown

\* A step that asks no agent leaves no more of them asked.
LEMMA FewerAtAgents ==
    ASSUME Slotted, AtAgents' \subseteq AtAgents, Slots \in Nat PROVE Slotted'
<1>1. IsFiniteSet(AtAgents') /\ Cardinality(AtAgents') <= Cardinality(AtAgents)
  BY FS_Subset DEF Slotted
<1>2. Cardinality(AtAgents') \in Nat /\ Cardinality(AtAgents) \in Nat
  BY <1>1, FS_CardinalityType DEF Slotted
<1> QED
  BY <1>1, <1>2 DEF Slotted

-----------------------------------------------------------------------------
(* The end of an advisor's turn: a request is recorded, and then shown.     *)

LEMMA AddHolds ==
    ASSUME NEW r \in Requests, ConsentInv, HeldInv, Add(r) PROVE HeldInv'
<1> USE RequestsAssumption DEF HeldInv, ConsentInv, Add, Set, Then,
    rows, shown, roster, budget, Requests
<1>1. Slotted'
  BY FewerAtAgents DEF AtAgents, TypeOK
<1>2. RunningHeld'
  BY DEF TypeOK, RowsAndWork, PressHasRow, RunningHeld, HeldByPress, Acting
<1>3. CardKnown'
  BY DEF TypeOK, RowsAndWork, PressHasRow, CardKnown, Acting
<1>4. QED
  BY <1>1, <1>2, <1>3

LEMMA PostAskedHolds ==
    ASSUME NEW r \in Requests, ConsentInv, HeldInv, PostAsked(r) PROVE HeldInv'
<1> USE RequestsAssumption DEF HeldInv, ConsentInv, PostAsked, Say, Then,
    rows, shown, roster, budget, Requests
<1>1. Slotted'
  BY FewerAtAgents DEF AtAgents, TypeOK
<1>2. RunningHeld'
  BY DEF TypeOK, RowsAndWork, PressHasRow, RunningHeld, HeldByPress, Acting
<1>3. CardKnown'
  BY DEF TypeOK, RowsAndWork, PressHasRow, CardKnown, Acting
<1>4. QED
  BY <1>1, <1>2, <1>3

LEMMA PostAskedFailsHolds ==
    ASSUME NEW r \in Requests, ConsentInv, HeldInv, PostAskedFails(r) PROVE HeldInv'
<1> USE RequestsAssumption DEF HeldInv, ConsentInv, PostAskedFails, Fault, Set, Then, Lose,
    rows, shown, roster, budget, Requests
<1>1. Slotted'
  BY FewerAtAgents DEF AtAgents, TypeOK
<1>2. RunningHeld'
  BY DEF TypeOK, RowsAndWork, PressHasRow, RunningHeld, HeldByPress, Acting
<1>3. CardKnown'
  BY DEF TypeOK, RowsAndWork, PressHasRow, CardKnown, Acting
<1>4. QED
  BY <1>1, <1>2, <1>3

LEMMA PostCardHolds ==
    ASSUME NEW r \in Requests, ConsentInv, HeldInv, PostCard(r) PROVE HeldInv'
<1> USE RequestsAssumption DEF HeldInv, ConsentInv, PostCard, Say, Then,
    rows, shown, roster, budget, Requests
<1>1. Slotted'
  BY FewerAtAgents DEF AtAgents, TypeOK
<1>2. RunningHeld'
  BY DEF TypeOK, RowsAndWork, PressHasRow, RunningHeld, HeldByPress, Acting
<1>3. CardKnown'
  BY DEF TypeOK, RowsAndWork, PressHasRow, CardKnown, Acting
<1>4. QED
  BY <1>1, <1>2, <1>3

LEMMA PostCardFailsHolds ==
    ASSUME NEW r \in Requests, ConsentInv, HeldInv, PostCardFails(r) PROVE HeldInv'
<1> USE RequestsAssumption DEF HeldInv, ConsentInv, PostCardFails, Fault, Then,
    rows, shown, roster, budget, Requests
<1>1. Slotted'
  BY FewerAtAgents DEF AtAgents, TypeOK
<1>2. RunningHeld'
  BY DEF TypeOK, RowsAndWork, PressHasRow, RunningHeld, HeldByPress, Acting
<1>3. CardKnown'
  BY DEF TypeOK, RowsAndWork, PressHasRow, CardKnown, Acting
<1>4. QED
  BY <1>1, <1>2, <1>3

LEMMA NoteCardHolds ==
    ASSUME NEW r \in Requests, ConsentInv, HeldInv, NoteCard(r) PROVE HeldInv'
<1> USE RequestsAssumption DEF HeldInv, ConsentInv, NoteCard, Then,
    rows, shown, roster, budget, Requests
<1>1. Slotted'
  BY FewerAtAgents DEF AtAgents, TypeOK
<1>2. RunningHeld'
  BY DEF TypeOK, RowsAndWork, PressHasRow, RunningHeld, HeldByPress, Acting
<1>3. CardKnown'
  BY DEF TypeOK, RowsAndWork, PressHasRow, CardKnown, Acting
<1>4. QED
  BY <1>1, <1>2, <1>3

-----------------------------------------------------------------------------
(* The buttons of a card.                                                   *)

LEMMA PressHolds ==
    ASSUME NEW p \in Presses, NEW r \in Handoffs, NEW button \in {"send", "dismiss"},
       ConsentInv, HeldInv, Press(p, r, button) PROVE HeldInv'
<1> USE RequestsAssumption DEF HeldInv, ConsentInv, Press, Nobody,
    rows, shown, roster, budget, Requests
<1>1. Slotted'
  BY FewerAtAgents DEF AtAgents, TypeOK
<1>2. RunningHeld'
  BY DEF TypeOK, RowsAndWork, PressHasRow, RunningHeld, HeldByPress, Acting
<1>3. CardKnown'
  BY DEF TypeOK, RowsAndWork, PressHasRow, CardKnown, Acting
<1>4. QED
  BY <1>1, <1>2, <1>3

LEMMA GiveUpHolds ==
    ASSUME NEW p \in Presses, ConsentInv, HeldInv, GiveUp(p) PROVE HeldInv'
<1> USE RequestsAssumption DEF HeldInv, ConsentInv, GiveUp, Nobody,
    rows, shown, roster, budget, Requests
<1>1. Slotted'
  BY FewerAtAgents DEF AtAgents, TypeOK
<1>2. RunningHeld'
  BY DEF TypeOK, RowsAndWork, PressHasRow, RunningHeld, HeldByPress, Acting
<1>3. CardKnown'
  BY DEF TypeOK, RowsAndWork, PressHasRow, CardKnown, Acting
<1>4. QED
  BY <1>1, <1>2, <1>3

LEMMA ClaimHolds ==
    ASSUME NEW p \in Presses, ConsentInv, HeldInv, Claim(p) PROVE HeldInv'
<1> USE RequestsAssumption DEF HeldInv, ConsentInv, Claim, Set, Nobody,
    rows, shown, roster, budget, Requests
<1>1. Slotted'
  BY FewerAtAgents DEF AtAgents, TypeOK
<1>2. RunningHeld'
  BY DEF TypeOK, RowsAndWork, PressHasRow, RunningHeld, HeldByPress, Acting
<1>3. CardKnown'
  BY DEF TypeOK, RowsAndWork, PressHasRow, CardKnown, Acting
<1>4. QED
  BY <1>1, <1>2, <1>3

LEMMA PostSentHolds ==
    ASSUME NEW p \in Presses, ConsentInv, HeldInv, PostSent(p) PROVE HeldInv'
<1> USE RequestsAssumption DEF HeldInv, ConsentInv, PostSent, Say,
    rows, shown, roster, budget, Requests
<1>1. Slotted'
  BY FewerAtAgents DEF AtAgents, TypeOK
<1>2. RunningHeld'
  BY DEF TypeOK, RowsAndWork, PressHasRow, RunningHeld, HeldByPress, Acting
<1>3. CardKnown'
  BY DEF TypeOK, RowsAndWork, PressHasRow, CardKnown, Acting
<1>4. QED
  BY <1>1, <1>2, <1>3

LEMMA PostSentFailsHolds ==
    ASSUME NEW p \in Presses, ConsentInv, HeldInv, PostSentFails(p) PROVE HeldInv'
<1> USE RequestsAssumption DEF HeldInv, ConsentInv, PostSentFails, Fault,
    rows, shown, roster, budget, Requests
<1>1. Slotted'
  BY FewerAtAgents DEF AtAgents, TypeOK
<1>2. RunningHeld'
  BY DEF TypeOK, RowsAndWork, PressHasRow, RunningHeld, HeldByPress, Acting
<1>3. CardKnown'
  BY DEF TypeOK, RowsAndWork, PressHasRow, CardKnown, Acting
<1>4. QED
  BY <1>1, <1>2, <1>3

LEMMA RefuseHolds ==
    ASSUME NEW p \in Presses, ConsentInv, HeldInv, Refuse(p) PROVE HeldInv'
<1> USE RequestsAssumption DEF HeldInv, ConsentInv, Refuse, Set, Lose,
    rows, shown, roster, budget, Requests
<1>1. Slotted'
  BY FewerAtAgents DEF AtAgents, TypeOK
<1>2. RunningHeld'
  BY DEF TypeOK, RowsAndWork, PressHasRow, RunningHeld, HeldByPress, Acting
<1>3. CardKnown'
  BY DEF TypeOK, RowsAndWork, PressHasRow, CardKnown, Acting
<1>4. QED
  BY <1>1, <1>2, <1>3

LEMMA PressEndsHolds ==
    ASSUME NEW p \in Presses, ConsentInv, HeldInv, PressEnds(p) PROVE HeldInv'
<1> USE RequestsAssumption DEF HeldInv, ConsentInv, PressEnds, Stamp, Then, Nobody,
    rows, shown, roster, budget, Requests
<1>1. Slotted'
  BY FewerAtAgents DEF AtAgents, TypeOK
<1>2. RunningHeld'
  BY DEF TypeOK, RowsAndWork, PressHasRow, RunningHeld, HeldByPress, Acting
<1>3. CardKnown'
  BY DEF TypeOK, RowsAndWork, PressHasRow, CardKnown, Acting
<1>4. QED
  BY <1>1, <1>2, <1>3

-----------------------------------------------------------------------------
(* The task that carries a request to its agent.                            *)

LEMMA DispatchHolds ==
    ASSUME NEW r \in Requests, ConsentInv, HeldInv, Dispatch(r) PROVE HeldInv'
<1> USE RequestsAssumption DEF HeldInv, ConsentInv, Dispatch, Set, Then, Afterwards,
    rows, shown, roster, budget, Requests
<1>1. Slotted'
  BY FewerAtAgents DEF AtAgents, TypeOK
<1>2. RunningHeld'
  BY DEF TypeOK, RowsAndWork, PressHasRow, RunningHeld, HeldByPress, Acting
<1>3. CardKnown'
  BY DEF TypeOK, RowsAndWork, PressHasRow, CardKnown, Acting
<1>4. QED
  BY <1>1, <1>2, <1>3

\* The slot is free when it is taken.
LEMMA AskHolds ==
    ASSUME NEW r \in Requests, ConsentInv, HeldInv, Ask(r) PROVE HeldInv'
<1> USE RequestsAssumption DEF HeldInv, ConsentInv, Ask, Then,
    rows, shown, roster, budget, Requests
<1>1. Slotted'
  <2>1. AtAgents' = AtAgents \cup {r} /\ r \notin AtAgents
    BY DEF AtAgents, TypeOK
  <2>2. Cardinality(AtAgents) \in Nat
    BY FS_CardinalityType DEF Slotted
  <2>3. IsFiniteSet(AtAgents') /\ Cardinality(AtAgents') = Cardinality(AtAgents) + 1
    BY <2>1, FS_AddElement DEF Slotted
  <2>4. QED
    BY <2>2, <2>3 DEF Slotted
<1>2. RunningHeld'
  BY DEF TypeOK, RowsAndWork, PressHasRow, RunningHeld, HeldByPress, Acting
<1>3. CardKnown'
  BY DEF TypeOK, RowsAndWork, PressHasRow, CardKnown, Acting
<1>4. QED
  BY <1>1, <1>2, <1>3

LEMMA AnswerHolds ==
    ASSUME NEW r \in Requests, NEW state \in {"done", "failed"},
           ConsentInv, HeldInv, Answer(r, state)
    PROVE HeldInv'
<1> USE RequestsAssumption DEF HeldInv, ConsentInv, Answer, Set, Then, Afterwards,
    rows, shown, roster, budget, Requests
<1>1. Slotted'
  BY FewerAtAgents DEF AtAgents, TypeOK
<1>2. RunningHeld'
  BY DEF TypeOK, RowsAndWork, PressHasRow, RunningHeld, HeldByPress, Acting
<1>3. CardKnown'
  BY DEF TypeOK, RowsAndWork, PressHasRow, CardKnown, Acting
<1>4. QED
  BY <1>1, <1>2, <1>3

LEMMA StampOutcomeHolds ==
    ASSUME NEW r \in Requests, ConsentInv, HeldInv, StampOutcome(r) PROVE HeldInv'
<1> USE RequestsAssumption DEF HeldInv, ConsentInv, StampOutcome, Stamp, Then,
    rows, shown, roster, budget, Requests
<1>1. Slotted'
  BY FewerAtAgents DEF AtAgents, TypeOK
<1>2. RunningHeld'
  BY DEF TypeOK, RowsAndWork, PressHasRow, RunningHeld, HeldByPress, Acting
<1>3. CardKnown'
  BY DEF TypeOK, RowsAndWork, PressHasRow, CardKnown, Acting
<1>4. QED
  BY <1>1, <1>2, <1>3

LEMMA TellHolds ==
    ASSUME NEW r \in Requests, ConsentInv, HeldInv, Tell(r) PROVE HeldInv'
<1> USE RequestsAssumption DEF HeldInv, ConsentInv, Tell, Say, Then,
    rows, shown, roster, budget, Requests
<1>1. Slotted'
  BY FewerAtAgents DEF AtAgents, TypeOK
<1>2. RunningHeld'
  BY DEF TypeOK, RowsAndWork, PressHasRow, RunningHeld, HeldByPress, Acting
<1>3. CardKnown'
  BY DEF TypeOK, RowsAndWork, PressHasRow, CardKnown, Acting
<1>4. QED
  BY <1>1, <1>2, <1>3

LEMMA TellFailsHolds ==
    ASSUME NEW r \in Requests, ConsentInv, HeldInv, TellFails(r) PROVE HeldInv'
<1> USE RequestsAssumption DEF HeldInv, ConsentInv, TellFails, Fault, Then, Lose,
    rows, shown, roster, budget, Requests
<1>1. Slotted'
  BY FewerAtAgents DEF AtAgents, TypeOK
<1>2. RunningHeld'
  BY DEF TypeOK, RowsAndWork, PressHasRow, RunningHeld, HeldByPress, Acting
<1>3. CardKnown'
  BY DEF TypeOK, RowsAndWork, PressHasRow, CardKnown, Acting
<1>4. QED
  BY <1>1, <1>2, <1>3

-----------------------------------------------------------------------------
(* Deaths, starts and edits of the roster.                                  *)

LEMMA CrashHolds ==
    ASSUME ConsentInv, HeldInv, Crash PROVE HeldInv'
<1> USE RequestsAssumption DEF HeldInv, ConsentInv, Crash, Fault, Nobody,
    rows, shown, roster, budget, Requests
<1>1. Slotted'
  BY FewerAtAgents DEF AtAgents, TypeOK
<1>2. RunningHeld'
  BY DEF TypeOK, RowsAndWork, PressHasRow, RunningHeld, HeldByPress, Acting
<1>3. CardKnown'
  BY DEF TypeOK, RowsAndWork, PressHasRow, CardKnown, Acting
<1>4. QED
  BY <1>1, <1>2, <1>3

LEMMA StartHolds ==
    ASSUME ConsentInv, HeldInv, Start PROVE HeldInv'
<1> USE RequestsAssumption DEF HeldInv, ConsentInv, Start, Running,
    rows, shown, roster, budget, Requests
<1>1. Slotted'
  BY FewerAtAgents DEF AtAgents, TypeOK
<1>2. RunningHeld'
  BY DEF TypeOK, RowsAndWork, PressHasRow, RunningHeld, HeldByPress, Acting
<1>3. CardKnown'
  BY DEF TypeOK, RowsAndWork, PressHasRow, RunningHeld, CardKnown, Acting
<1>4. QED
  BY <1>1, <1>2, <1>3

LEMMA MarkHolds ==
    ASSUME NEW r \in Requests, ConsentInv, HeldInv, Mark(r) PROVE HeldInv'
<1> USE RequestsAssumption DEF HeldInv, ConsentInv, Mark, Set, Then,
    rows, shown, roster, budget, Requests
<1>1. Slotted'
  BY FewerAtAgents DEF AtAgents, TypeOK
<1>2. RunningHeld'
  BY DEF TypeOK, RowsAndWork, PressHasRow, RunningHeld, HeldByPress, Acting
<1>3. CardKnown'
  BY DEF TypeOK, RowsAndWork, PressHasRow, CardKnown, Acting
<1>4. QED
  BY <1>1, <1>2, <1>3

LEMMA RestampHolds ==
    ASSUME NEW r \in Requests, ConsentInv, HeldInv, Restamp(r) PROVE HeldInv'
<1> USE RequestsAssumption DEF HeldInv, ConsentInv, Restamp, Stamp, Then,
    rows, shown, roster, budget, Requests
<1>1. Slotted'
  BY FewerAtAgents DEF AtAgents, TypeOK
<1>2. RunningHeld'
  BY DEF TypeOK, RowsAndWork, PressHasRow, RunningHeld, HeldByPress, Acting
<1>3. CardKnown'
  BY DEF TypeOK, RowsAndWork, PressHasRow, CardKnown, Acting
<1>4. QED
  BY <1>1, <1>2, <1>3

LEMMA TellLostHolds ==
    ASSUME NEW r \in Requests, ConsentInv, HeldInv, TellLost(r) PROVE HeldInv'
<1> USE RequestsAssumption DEF HeldInv, ConsentInv, TellLost, Say, Then,
    rows, shown, roster, budget, Requests
<1>1. Slotted'
  BY FewerAtAgents DEF AtAgents, TypeOK
<1>2. RunningHeld'
  BY DEF TypeOK, RowsAndWork, PressHasRow, RunningHeld, HeldByPress, Acting
<1>3. CardKnown'
  BY DEF TypeOK, RowsAndWork, PressHasRow, CardKnown, Acting
<1>4. QED
  BY <1>1, <1>2, <1>3

LEMMA RecoveredHolds ==
    ASSUME ConsentInv, HeldInv, Recovered PROVE HeldInv'
<1> USE RequestsAssumption DEF HeldInv, ConsentInv, Recovered,
    rows, shown, roster, budget, Requests
<1>1. Slotted'
  BY FewerAtAgents DEF AtAgents, TypeOK
<1>2. RunningHeld'
  BY DEF TypeOK, RowsAndWork, PressHasRow, RunningHeld, HeldByPress, Acting
<1>3. CardKnown'
  BY DEF TypeOK, RowsAndWork, PressHasRow, CardKnown, Acting
<1>4. QED
  BY <1>1, <1>2, <1>3

LEMMA EditRosterHolds ==
    ASSUME ConsentInv, HeldInv, EditRoster PROVE HeldInv'
<1> USE RequestsAssumption DEF HeldInv, ConsentInv, EditRoster,
    rows, shown, roster, budget, Requests
<1>1. Slotted'
  BY FewerAtAgents DEF AtAgents, TypeOK
<1>2. RunningHeld'
  BY DEF TypeOK, RowsAndWork, PressHasRow, RunningHeld, HeldByPress, Acting
<1>3. CardKnown'
  BY DEF TypeOK, RowsAndWork, PressHasRow, CardKnown, Acting
<1>4. QED
  BY <1>1, <1>2, <1>3

-----------------------------------------------------------------------------
(* The theorem                                                              *)

LEMMA InitHolds == Init => HeldInv
<1> SUFFICES ASSUME Init PROVE HeldInv
  OBVIOUS
<1>1. AtAgents = {}
  BY DEF Init, AtAgents, Requests
<1>2. Slotted
  BY <1>1, RequestsAssumption, FS_EmptySet DEF Slotted
<1>3. RunningHeld /\ CardKnown
  BY DEF Init, RunningHeld, CardKnown, Requests
<1> QED
  BY <1>2, <1>3 DEF HeldInv

LEMMA NextHolds == ConsentInv /\ HeldInv /\ [Next]_vars => HeldInv'
<1>1. ASSUME ConsentInv, HeldInv, Next PROVE HeldInv'
  <2>1. ASSUME NEW r \in Requests, Add(r) PROVE HeldInv'
    BY <1>1, <2>1, AddHolds
  <2>2. ASSUME NEW r \in Requests, WorkStep(r) PROVE HeldInv'
    BY <1>1, <2>2, PostAskedHolds, PostAskedFailsHolds, PostCardHolds,
       PostCardFailsHolds, NoteCardHolds, DispatchHolds, AskHolds,
       StampOutcomeHolds, TellHolds, TellFailsHolds, AnswerHolds,
       MarkHolds, RestampHolds, TellLostHolds
       DEF WorkStep
  <2>3. ASSUME NEW p \in Presses, NEW r \in Handoffs, NEW button \in {"send", "dismiss"},
               Press(p, r, button)
        PROVE  HeldInv'
    BY <1>1, <2>3, PressHolds
  <2>4. ASSUME NEW p \in Presses, PressStep(p) PROVE HeldInv'
    BY <1>1, <2>4, GiveUpHolds, ClaimHolds, PostSentHolds, PostSentFailsHolds,
       RefuseHolds, PressEndsHolds
       DEF PressStep
  <2> QED
    BY <1>1, <2>1, <2>2, <2>3, <2>4, CrashHolds, StartHolds, RecoveredHolds, EditRosterHolds
       DEF Next
<1>2. ASSUME HeldInv, UNCHANGED vars PROVE HeldInv'
  BY <1>2 DEF vars, rows, shown, roster, budget, HeldInv, Slotted, AtAgents,
              RunningHeld, HeldByPress, CardKnown, Acting
<1> QED
  BY <1>1, <1>2

\* Two presses that act on one request are one, and a task and a press never
\* have the same request.
LEMMA OneOwner ==
    ASSUME ConsentInv, NEW r \in Requests
    PROVE  /\ Owners(r) \in {0, 1}
           /\ Owners(r) = 0 <=> work[r] = "none" /\ ~HeldByPress(r)
<1> DEFINE Mine == {p \in Presses : Acting(p) /\ press[p].req = r}
<1>1. CASE HeldByPress(r)
  <2>1. PICK p \in Presses : Acting(p) /\ press[p].req = r
    BY <1>1 DEF HeldByPress
  <2>2. Mine = {p}
    BY <2>1 DEF ConsentInv, PressHasRow
  <2>3. Cardinality(Mine) = 1
    BY <2>2, FS_Singleton
  <2>4. work[r] = "none"
    BY <2>1 DEF ConsentInv, PressHasRow
  <2> QED
    BY <1>1, <2>3, <2>4 DEF Owners
<1>2. CASE ~HeldByPress(r)
  <2>1. Mine = {}
    BY <1>2 DEF HeldByPress
  <2>2. Cardinality(Mine) = 0
    BY <2>1, FS_EmptySet
  <2> QED
    BY <1>2, <2>2 DEF Owners
<1> QED
  BY <1>1, <1>2

\* Of a task and the presses one at a time has a request in hand; a request
\* that runs while the server is up is in some hand, unless a start did not
\* look for it; a card that was shown can be found by its button; and no more
\* than Slots agents are asked at a time.
THEOREM EveryRequestAccounted == Spec => []RequestsAccounted
<1>1. ConsentInv /\ HeldInv => RequestsAccounted
  <2> SUFFICES ASSUME ConsentInv, HeldInv PROVE RequestsAccounted
    OBVIOUS
  <2>1. TypeOK /\ Cardinality(AtAgents) <= Slots
    BY DEF ConsentInv, HeldInv, Slotted
  <2>2. ASSUME NEW r \in Requests
        PROVE  /\ Owners(r) <= 1
               /\ work[r] \in {"queue", "asking"} => ledger[r] = "running"
               /\ ledger[r] = "running" /\ phase # "down" => Owners(r) = 1 \/ r \in left
               /\ phase = "up" /\ ledger[r] = "proposed" /\ Owners(r) = 0 /\ "card" \in thread[r]
                    => r \in cardId \/ "id" \in lost[r]
    <3>1. Owners(r) \in {0, 1} /\ (Owners(r) = 0 <=> work[r] = "none" /\ ~HeldByPress(r))
      BY OneOwner
    <3>2. work[r] \in {"queue", "asking"} => ledger[r] = "running"
      BY DEF ConsentInv, RowsAndWork
    <3>3. ledger[r] = "running" /\ phase # "down"
            => work[r] # "none" \/ HeldByPress(r) \/ r \in left
      BY DEF HeldInv, RunningHeld
    <3>4. ledger[r] = "proposed" /\ "card" \in thread[r] /\ work[r] = "none"
            => r \in cardId \/ "id" \in lost[r]
      BY DEF HeldInv, CardKnown
    <3> QED
      BY <3>1, <3>2, <3>3, <3>4
  <2> QED
    BY <2>1, <2>2 DEF RequestsAccounted
<1> QED
  BY InitConsents, NextConsents, InitHolds, NextHolds, <1>1, PTL DEF Spec

-----------------------------------------------------------------------------
(* Truth: the thread and the card tell what the ledger says.                *)

(* One message of the outcome, and none before the outcome is recorded: who *)
(* still has it to write has the request in hand.                           *)
OutcomeShown ==
    \A r \in Requests :
        /\ Outcomes(r) # {} => work[r] = "none" /\ ~HeldByPress(r)
        /\ \A a, b \in Outcomes(r) : a = b
        /\ "report" \in thread[r] => ledger[r] = "done"
        /\ thread[r] \cap {"failed", "lost"} # {} => ledger[r] = "failed"
        /\ work[r] \in {"restamp", "lost"} => ledger[r] = "failed"
        /\ ledger[r] \in {"done", "failed"} =>
              \/ Outcomes(r) # {} \/ "word" \in lost[r]
              \/ work[r] \in {"stamp", "tell", "restamp", "lost"}

(* A card lags behind its row only while the stamp is due.                  *)
CardShown ==
    \A r \in Handoffs :
        /\ ledger[r] \notin {"none", "proposed"} => r \in cardId
        /\ ledger[r] = "none" \/ work[r] = "post" => card[r] = "none"
        /\ card[r] # "none" =>
              \/ card[r] = ledger[r] \/ "stamp" \in lost[r] \/ r \in left
              \/ work[r] \in {"stamp", "mark", "restamp"} \/ HeldByPress(r)
              \/ ledger[r] = "running" /\ phase = "down"

(* Without an advisor nobody looks for what ran, and it runs for ever.       *)
LeftRuns ==
    \A r \in left : ledger[r] = "running" /\ work[r] = "none" /\ ~HeldByPress(r) /\ ~advisor

TruthInv == LeftRuns /\ OutcomeShown /\ CardShown

-----------------------------------------------------------------------------
(* The end of an advisor's turn: a request is recorded, and then shown.     *)

LEMMA AddTells ==
    ASSUME NEW r \in Requests, ConsentInv, HeldInv, TruthInv, Add(r) PROVE TruthInv'
<1> USE RequestsAssumption DEF HeldInv, ConsentInv, TruthInv, Add, Set, Then,
    rows, shown, roster, budget, Requests
<1>1. OutcomeShown'
  BY DEF TypeOK, RowsAndWork, PressHasRow, Spent, OutcomeShown, Outcomes, HeldByPress, Acting
<1>2. CardShown'
  BY DEF TypeOK, RowsAndWork, PressHasRow, CardShown, HeldByPress, Acting
<1>3. LeftRuns'
  BY DEF TypeOK, PressHasRow, RunningHeld, LeftRuns, HeldByPress, Acting
<1>4. QED
  BY <1>1, <1>2, <1>3

LEMMA PostAskedTells ==
    ASSUME NEW r \in Requests, ConsentInv, HeldInv, TruthInv, PostAsked(r) PROVE TruthInv'
<1> USE RequestsAssumption DEF HeldInv, ConsentInv, TruthInv, PostAsked, Say, Then,
    rows, shown, roster, budget, Requests
<1>1. OutcomeShown'
  BY DEF TypeOK, RowsAndWork, PressHasRow, Spent, OutcomeShown, Outcomes, HeldByPress, Acting
<1>2. CardShown'
  BY DEF TypeOK, RowsAndWork, PressHasRow, CardShown, HeldByPress, Acting
<1>3. LeftRuns'
  BY DEF TypeOK, PressHasRow, RunningHeld, LeftRuns, HeldByPress, Acting
<1>4. QED
  BY <1>1, <1>2, <1>3

LEMMA PostAskedFailsTells ==
    ASSUME NEW r \in Requests, ConsentInv, HeldInv, TruthInv, PostAskedFails(r) PROVE TruthInv'
<1> USE RequestsAssumption DEF HeldInv, ConsentInv, TruthInv, PostAskedFails, Fault, Set, Then, Lose,
    rows, shown, roster, budget, Requests
<1>1. OutcomeShown'
  BY DEF TypeOK, RowsAndWork, PressHasRow, Spent, OutcomeShown, Outcomes, HeldByPress, Acting
<1>2. CardShown'
  BY DEF TypeOK, RowsAndWork, PressHasRow, CardShown, HeldByPress, Acting
<1>3. LeftRuns'
  BY DEF TypeOK, PressHasRow, RunningHeld, LeftRuns, HeldByPress, Acting
<1>4. QED
  BY <1>1, <1>2, <1>3

LEMMA PostCardTells ==
    ASSUME NEW r \in Requests, ConsentInv, HeldInv, TruthInv, PostCard(r) PROVE TruthInv'
<1> USE RequestsAssumption DEF HeldInv, ConsentInv, TruthInv, PostCard, Say, Then,
    rows, shown, roster, budget, Requests
<1>1. OutcomeShown'
  BY DEF TypeOK, RowsAndWork, PressHasRow, Spent, OutcomeShown, Outcomes, HeldByPress, Acting
<1>2. CardShown'
  BY DEF TypeOK, RowsAndWork, PressHasRow, CardShown, HeldByPress, Acting
<1>3. LeftRuns'
  BY DEF TypeOK, PressHasRow, RunningHeld, LeftRuns, HeldByPress, Acting
<1>4. QED
  BY <1>1, <1>2, <1>3

LEMMA PostCardFailsTells ==
    ASSUME NEW r \in Requests, ConsentInv, HeldInv, TruthInv, PostCardFails(r) PROVE TruthInv'
<1> USE RequestsAssumption DEF HeldInv, ConsentInv, TruthInv, PostCardFails, Fault, Then,
    rows, shown, roster, budget, Requests
<1>1. OutcomeShown'
  BY DEF TypeOK, RowsAndWork, PressHasRow, Spent, OutcomeShown, Outcomes, HeldByPress, Acting
<1>2. CardShown'
  BY DEF TypeOK, RowsAndWork, PressHasRow, CardShown, HeldByPress, Acting
<1>3. LeftRuns'
  BY DEF TypeOK, PressHasRow, RunningHeld, LeftRuns, HeldByPress, Acting
<1>4. QED
  BY <1>1, <1>2, <1>3

LEMMA NoteCardTells ==
    ASSUME NEW r \in Requests, ConsentInv, HeldInv, TruthInv, NoteCard(r) PROVE TruthInv'
<1> USE RequestsAssumption DEF HeldInv, ConsentInv, TruthInv, NoteCard, Then,
    rows, shown, roster, budget, Requests
<1>1. OutcomeShown'
  BY DEF TypeOK, RowsAndWork, PressHasRow, Spent, OutcomeShown, Outcomes, HeldByPress, Acting
<1>2. CardShown'
  BY DEF TypeOK, RowsAndWork, PressHasRow, CardShown, HeldByPress, Acting
<1>3. LeftRuns'
  BY DEF TypeOK, PressHasRow, RunningHeld, LeftRuns, HeldByPress, Acting
<1>4. QED
  BY <1>1, <1>2, <1>3

-----------------------------------------------------------------------------
(* The buttons of a card.                                                   *)

LEMMA PressTells ==
    ASSUME NEW p \in Presses, NEW r \in Handoffs, NEW button \in {"send", "dismiss"},
       ConsentInv, HeldInv, TruthInv, Press(p, r, button) PROVE TruthInv'
<1> USE RequestsAssumption DEF HeldInv, ConsentInv, TruthInv, Press, Nobody,
    rows, shown, roster, budget, Requests
<1>1. OutcomeShown'
  BY DEF TypeOK, RowsAndWork, PressHasRow, Spent, OutcomeShown, Outcomes, HeldByPress, Acting
<1>2. CardShown'
  BY DEF TypeOK, RowsAndWork, PressHasRow, CardShown, HeldByPress, Acting
<1>3. LeftRuns'
  BY DEF TypeOK, PressHasRow, RunningHeld, LeftRuns, HeldByPress, Acting
<1>4. QED
  BY <1>1, <1>2, <1>3

LEMMA GiveUpTells ==
    ASSUME NEW p \in Presses, ConsentInv, HeldInv, TruthInv, GiveUp(p) PROVE TruthInv'
<1> USE RequestsAssumption DEF HeldInv, ConsentInv, TruthInv, GiveUp, Nobody,
    rows, shown, roster, budget, Requests
<1>1. OutcomeShown'
  BY DEF TypeOK, RowsAndWork, PressHasRow, Spent, OutcomeShown, Outcomes, HeldByPress, Acting
<1>2. CardShown'
  BY DEF TypeOK, RowsAndWork, PressHasRow, CardShown, HeldByPress, Acting
<1>3. LeftRuns'
  BY DEF TypeOK, PressHasRow, RunningHeld, LeftRuns, HeldByPress, Acting
<1>4. QED
  BY <1>1, <1>2, <1>3

LEMMA ClaimTells ==
    ASSUME NEW p \in Presses, ConsentInv, HeldInv, TruthInv, Claim(p) PROVE TruthInv'
<1> USE RequestsAssumption DEF HeldInv, ConsentInv, TruthInv, Claim, Set, Nobody,
    rows, shown, roster, budget, Requests
<1>1. OutcomeShown'
  BY DEF TypeOK, RowsAndWork, PressHasRow, Spent, OutcomeShown, Outcomes, HeldByPress, Acting
<1>2. CardShown'
  BY DEF TypeOK, RowsAndWork, PressHasRow, CardShown, HeldByPress, Acting
<1>3. LeftRuns'
  <2>1. UNCHANGED <<left, work, advisor>>
    OBVIOUS
  <2>2. \A s \in left : s # press[p].req \/ ledger[s] # "proposed"
    BY DEF LeftRuns
  <2>3. \A q \in Presses \ {p} : press'[q] = press[q]
    BY DEF TypeOK
  <2>4. Acting(p)' => press'[p].req = press[p].req /\ ledger[press[p].req] = "proposed"
    BY DEF TypeOK, Acting
  <2>5. \A s \in left : ledger'[s] = "running"
    BY DEF TypeOK, LeftRuns
  <2>6. \A s \in left : ~HeldByPress(s)'
    BY <2>2, <2>3, <2>4 DEF LeftRuns, HeldByPress, Acting
  <2>7. QED
    BY <2>1, <2>5, <2>6 DEF LeftRuns
<1>4. QED
  BY <1>1, <1>2, <1>3

LEMMA PostSentTells ==
    ASSUME NEW p \in Presses, ConsentInv, HeldInv, TruthInv, PostSent(p) PROVE TruthInv'
<1> USE RequestsAssumption DEF HeldInv, ConsentInv, TruthInv, PostSent, Say,
    rows, shown, roster, budget, Requests
<1>1. OutcomeShown'
  BY DEF TypeOK, RowsAndWork, PressHasRow, Spent, OutcomeShown, Outcomes, HeldByPress, Acting
<1>2. CardShown'
  BY DEF TypeOK, RowsAndWork, PressHasRow, CardShown, HeldByPress, Acting
<1>3. LeftRuns'
  BY DEF TypeOK, PressHasRow, RunningHeld, LeftRuns, HeldByPress, Acting
<1>4. QED
  BY <1>1, <1>2, <1>3

LEMMA PostSentFailsTells ==
    ASSUME NEW p \in Presses, ConsentInv, HeldInv, TruthInv, PostSentFails(p) PROVE TruthInv'
<1> USE RequestsAssumption DEF HeldInv, ConsentInv, TruthInv, PostSentFails, Fault,
    rows, shown, roster, budget, Requests
<1>1. OutcomeShown'
  BY DEF TypeOK, RowsAndWork, PressHasRow, Spent, OutcomeShown, Outcomes, HeldByPress, Acting
<1>2. CardShown'
  BY DEF TypeOK, RowsAndWork, PressHasRow, CardShown, HeldByPress, Acting
<1>3. LeftRuns'
  BY DEF TypeOK, PressHasRow, RunningHeld, LeftRuns, HeldByPress, Acting
<1>4. QED
  BY <1>1, <1>2, <1>3

LEMMA RefuseTells ==
    ASSUME NEW p \in Presses, ConsentInv, HeldInv, TruthInv, Refuse(p) PROVE TruthInv'
<1> USE RequestsAssumption DEF HeldInv, ConsentInv, TruthInv, Refuse, Set, Lose,
    rows, shown, roster, budget, Requests
<1>1. OutcomeShown'
  BY DEF TypeOK, RowsAndWork, PressHasRow, Spent, OutcomeShown, Outcomes, HeldByPress, Acting
<1>2. CardShown'
  BY DEF TypeOK, RowsAndWork, PressHasRow, CardShown, HeldByPress, Acting
<1>3. LeftRuns'
  BY DEF TypeOK, PressHasRow, RunningHeld, LeftRuns, HeldByPress, Acting
<1>4. QED
  BY <1>1, <1>2, <1>3

LEMMA PressEndsTells ==
    ASSUME NEW p \in Presses, ConsentInv, HeldInv, TruthInv, PressEnds(p) PROVE TruthInv'
<1> USE RequestsAssumption DEF HeldInv, ConsentInv, TruthInv, PressEnds, Stamp, Then, Nobody,
    rows, shown, roster, budget, Requests
<1>1. OutcomeShown'
  BY DEF TypeOK, RowsAndWork, PressHasRow, Spent, OutcomeShown, Outcomes, HeldByPress, Acting
<1>2. CardShown'
  BY DEF TypeOK, RowsAndWork, PressHasRow, CardShown, HeldByPress, Acting
<1>3. LeftRuns'
  BY DEF TypeOK, PressHasRow, RunningHeld, LeftRuns, HeldByPress, Acting
<1>4. QED
  BY <1>1, <1>2, <1>3

-----------------------------------------------------------------------------
(* The task that carries a request to its agent.                            *)

LEMMA DispatchTells ==
    ASSUME NEW r \in Requests, ConsentInv, HeldInv, TruthInv, Dispatch(r) PROVE TruthInv'
<1> USE RequestsAssumption DEF HeldInv, ConsentInv, TruthInv, Dispatch, Set, Then, Afterwards,
    rows, shown, roster, budget, Requests
<1>1. OutcomeShown'
  BY DEF TypeOK, RowsAndWork, PressHasRow, Spent, OutcomeShown, Outcomes, HeldByPress, Acting
<1>2. CardShown'
  BY DEF TypeOK, RowsAndWork, PressHasRow, CardShown, HeldByPress, Acting
<1>3. LeftRuns'
  BY DEF TypeOK, PressHasRow, RunningHeld, LeftRuns, HeldByPress, Acting
<1>4. QED
  BY <1>1, <1>2, <1>3

LEMMA AskTells ==
    ASSUME NEW r \in Requests, ConsentInv, HeldInv, TruthInv, Ask(r) PROVE TruthInv'
<1> USE RequestsAssumption DEF HeldInv, ConsentInv, TruthInv, Ask, Then,
    rows, shown, roster, budget, Requests
<1>1. OutcomeShown'
  BY DEF TypeOK, RowsAndWork, PressHasRow, Spent, OutcomeShown, Outcomes, HeldByPress, Acting
<1>2. CardShown'
  BY DEF TypeOK, RowsAndWork, PressHasRow, CardShown, HeldByPress, Acting
<1>3. LeftRuns'
  BY DEF TypeOK, PressHasRow, RunningHeld, LeftRuns, HeldByPress, Acting
<1>4. QED
  BY <1>1, <1>2, <1>3

LEMMA AnswerTells ==
    ASSUME NEW r \in Requests, NEW state \in {"done", "failed"},
           ConsentInv, HeldInv, TruthInv, Answer(r, state)
    PROVE TruthInv'
<1> USE RequestsAssumption DEF HeldInv, ConsentInv, TruthInv, Answer, Set, Then, Afterwards,
    rows, shown, roster, budget, Requests
<1>1. OutcomeShown'
  BY DEF TypeOK, RowsAndWork, PressHasRow, Spent, OutcomeShown, Outcomes, HeldByPress, Acting
<1>2. CardShown'
  BY DEF TypeOK, RowsAndWork, PressHasRow, CardShown, HeldByPress, Acting
<1>3. LeftRuns'
  BY DEF TypeOK, PressHasRow, RunningHeld, LeftRuns, HeldByPress, Acting
<1>4. QED
  BY <1>1, <1>2, <1>3

LEMMA StampOutcomeTells ==
    ASSUME NEW r \in Requests, ConsentInv, HeldInv, TruthInv, StampOutcome(r) PROVE TruthInv'
<1> USE RequestsAssumption DEF HeldInv, ConsentInv, TruthInv, StampOutcome, Stamp, Then,
    rows, shown, roster, budget, Requests
<1>1. OutcomeShown'
  BY DEF TypeOK, RowsAndWork, PressHasRow, Spent, OutcomeShown, Outcomes, HeldByPress, Acting
<1>2. CardShown'
  BY DEF TypeOK, RowsAndWork, PressHasRow, CardShown, HeldByPress, Acting
<1>3. LeftRuns'
  BY DEF TypeOK, PressHasRow, RunningHeld, LeftRuns, HeldByPress, Acting
<1>4. QED
  BY <1>1, <1>2, <1>3

\* The one message of an outcome is posted by the task that has it in hand.
LEMMA TellTells ==
    ASSUME NEW r \in Requests, ConsentInv, HeldInv, TruthInv, Tell(r) PROVE TruthInv'
<1> USE RequestsAssumption DEF HeldInv, ConsentInv, TruthInv, Tell, Say, Then,
    rows, shown, roster, budget, Requests
<1>1. OutcomeShown'
  <2>1. Outcomes(r) = {} /\ work[r] = "tell" /\ ledger[r] \in {"done", "failed"}
    BY DEF TypeOK, OutcomeShown, RowsAndWork
  <2>2. \A s \in Requests \ {r} : thread'[s] = thread[s] /\ work'[s] = work[s]
    BY DEF TypeOK
  <2>3. work'[r] = "none" /\ Outcomes(r)' = {IF ledger[r] = "done" THEN "report" ELSE "failed"}
    BY <2>1 DEF TypeOK, Outcomes
  <2>4. ~HeldByPress(r)
    BY <2>1 DEF HeldByPress, PressHasRow
  <2>5. ASSUME NEW s \in Requests \ {r}
        PROVE  /\ Outcomes(s)' # {} => work'[s] = "none" /\ ~HeldByPress(s)'
               /\ \A a, b \in Outcomes(s)' : a = b
               /\ "report" \in thread'[s] => ledger'[s] = "done"
               /\ thread'[s] \cap {"failed", "lost"} # {} => ledger'[s] = "failed"
               /\ work'[s] \in {"restamp", "lost"} => ledger'[s] = "failed"
               /\ ledger'[s] \in {"done", "failed"} =>
                     \/ Outcomes(s)' # {} \/ "word" \in lost'[s]
                     \/ work'[s] \in {"stamp", "tell", "restamp", "lost"}
    BY <2>2 DEF OutcomeShown, Outcomes, HeldByPress, Acting
  <2>6. /\ "report" \in thread'[r] => ledger'[r] = "done"
        /\ thread'[r] \cap {"failed", "lost"} # {} => ledger'[r] = "failed"
    BY <2>1, <2>3 DEF Outcomes
  <2>7. ~HeldByPress(r)'
    BY <2>4 DEF HeldByPress, Acting
  <2>8. QED
    BY <2>3, <2>5, <2>6, <2>7 DEF OutcomeShown
<1>2. CardShown'
  BY DEF TypeOK, RowsAndWork, PressHasRow, CardShown, HeldByPress, Acting
<1>3. LeftRuns'
  BY DEF TypeOK, PressHasRow, RunningHeld, LeftRuns, HeldByPress, Acting
<1>4. QED
  BY <1>1, <1>2, <1>3

LEMMA TellFailsTells ==
    ASSUME NEW r \in Requests, ConsentInv, HeldInv, TruthInv, TellFails(r) PROVE TruthInv'
<1> USE RequestsAssumption DEF HeldInv, ConsentInv, TruthInv, TellFails, Fault, Then, Lose,
    rows, shown, roster, budget, Requests
<1>1. OutcomeShown'
  BY DEF TypeOK, RowsAndWork, PressHasRow, Spent, OutcomeShown, Outcomes, HeldByPress, Acting
<1>2. CardShown'
  BY DEF TypeOK, RowsAndWork, PressHasRow, CardShown, HeldByPress, Acting
<1>3. LeftRuns'
  BY DEF TypeOK, PressHasRow, RunningHeld, LeftRuns, HeldByPress, Acting
<1>4. QED
  BY <1>1, <1>2, <1>3

-----------------------------------------------------------------------------
(* Deaths, starts and edits of the roster.                                  *)

\* What dies before it is written is counted as lost.
LEMMA CrashTells ==
    ASSUME ConsentInv, HeldInv, TruthInv, Crash PROVE TruthInv'
<1> USE RequestsAssumption DEF HeldInv, ConsentInv, TruthInv, Crash, Fault, Nobody,
    rows, shown, roster, budget, Requests
<1>1. OutcomeShown'
  <2>1. \A p \in Presses : ~Acting(p)'
    BY DEF Acting
  <2>2. \A r \in Requests : lost[r] \subseteq lost'[r] /\ (LosesWord(r) => "word" \in lost'[r])
    BY DEF TypeOK
  <2>3. UNCHANGED <<ledger, thread>> /\ \A r \in Requests : work'[r] = "none"
    OBVIOUS
  <2>4. QED
    BY <2>1, <2>2, <2>3 DEF OutcomeShown, Outcomes, HeldByPress, LosesWord
<1>2. CardShown'
  <2>1. \A r \in Requests : lost[r] \subseteq lost'[r] /\ (LosesStamp(r) => "stamp" \in lost'[r])
    BY DEF TypeOK
  <2>2. ASSUME NEW r \in Handoffs, card[r] # "none", card[r] # ledger[r], r \notin left,
               "stamp" \notin lost[r]
        PROVE  LosesStamp(r) \/ ledger[r] = "running"
    <3>1. work[r] \in {"stamp", "mark", "restamp"} \/ HeldByPress(r) \/ ledger[r] = "running"
      BY <2>2 DEF CardShown
    <3>2. HeldByPress(r) => ledger[r] \in {"running", "failed", "dismissed"}
      BY DEF HeldByPress, PressHasRow
    <3>3. QED
      BY <3>1, <3>2 DEF RowsAndWork, LosesStamp, Final
  <2>3. UNCHANGED <<ledger, card, cardId, left>> /\ phase' = "down"
    OBVIOUS
  <2>4. \A r \in Requests : work'[r] = "none"
    OBVIOUS
  <2>5. QED
    BY <2>1, <2>2, <2>3, <2>4 DEF CardShown
<1>3. LeftRuns'
  BY DEF TypeOK, PressHasRow, RunningHeld, LeftRuns, HeldByPress, Acting
<1>4. QED
  BY <1>1, <1>2, <1>3

\* Nothing is in hand when the process is down.
LEMMA StartTells ==
    ASSUME ConsentInv, HeldInv, TruthInv, Start PROVE TruthInv'
<1> USE RequestsAssumption DEF HeldInv, ConsentInv, TruthInv, Start, Running,
    rows, shown, roster, budget, Requests
<1>1. OutcomeShown'
  <2>1. \A p \in Presses : ~Acting(p) /\ ~Acting(p)'
    BY DEF PressHasRow, Nobody, Acting
  <2>2. UNCHANGED <<ledger, thread, card, cardId, lost>>
    OBVIOUS
  <2>3. \A r \in Requests : work[r] = "none" /\ work'[r] \in {"none", "mark"}
    BY DEF RunningHeld, TypeOK
  <2>4. \A r \in Requests : work'[r] = "mark" => ledger[r] = "running"
    BY <2>3 DEF TypeOK
  <2>5. QED
    BY <2>1, <2>2, <2>3, <2>4 DEF OutcomeShown, Outcomes, HeldByPress
<1>2. CardShown'
  <2>1. \A p \in Presses : ~Acting(p) /\ ~Acting(p)'
    BY DEF PressHasRow, Nobody, Acting
  <2>2. UNCHANGED <<ledger, thread, card, cardId, lost>>
    OBVIOUS
  <2>3. \A r \in Requests : work[r] = "none" /\ work'[r] \in {"none", "mark"}
    BY DEF RunningHeld, TypeOK
  <2>4. \A r \in Requests :
          /\ ledger[r] = "running" => work'[r] = "mark" \/ r \in left'
          /\ r \in left => r \in left'
    BY DEF TypeOK, LeftRuns
  <2>5. QED
    BY <2>1, <2>2, <2>3, <2>4 DEF CardShown, HeldByPress
<1>3. LeftRuns'
  <2>1. \A p \in Presses : ~Acting(p) /\ ~Acting(p)'
    BY DEF PressHasRow, Nobody, Acting
  <2>2. UNCHANGED <<ledger, thread, card, cardId, lost>>
    OBVIOUS
  <2>3. \A r \in Requests : work[r] = "none" /\ work'[r] \in {"none", "mark"}
    BY DEF RunningHeld, TypeOK
  <2>4. QED
    BY <2>1, <2>2, <2>3 DEF LeftRuns, HeldByPress
<1>4. QED
  BY <1>1, <1>2, <1>3

LEMMA MarkTells ==
    ASSUME NEW r \in Requests, ConsentInv, HeldInv, TruthInv, Mark(r) PROVE TruthInv'
<1> USE RequestsAssumption DEF HeldInv, ConsentInv, TruthInv, Mark, Set, Then,
    rows, shown, roster, budget, Requests
<1>1. OutcomeShown'
  BY DEF TypeOK, RowsAndWork, PressHasRow, Spent, OutcomeShown, Outcomes, HeldByPress, Acting
<1>2. CardShown'
  BY DEF TypeOK, RowsAndWork, PressHasRow, CardShown, HeldByPress, Acting
<1>3. LeftRuns'
  BY DEF TypeOK, PressHasRow, RunningHeld, LeftRuns, HeldByPress, Acting
<1>4. QED
  BY <1>1, <1>2, <1>3

LEMMA RestampTells ==
    ASSUME NEW r \in Requests, ConsentInv, HeldInv, TruthInv, Restamp(r) PROVE TruthInv'
<1> USE RequestsAssumption DEF HeldInv, ConsentInv, TruthInv, Restamp, Stamp, Then,
    rows, shown, roster, budget, Requests
<1>1. OutcomeShown'
  BY DEF TypeOK, RowsAndWork, PressHasRow, Spent, OutcomeShown, Outcomes, HeldByPress, Acting
<1>2. CardShown'
  BY DEF TypeOK, RowsAndWork, PressHasRow, CardShown, HeldByPress, Acting
<1>3. LeftRuns'
  BY DEF TypeOK, PressHasRow, RunningHeld, LeftRuns, HeldByPress, Acting
<1>4. QED
  BY <1>1, <1>2, <1>3

LEMMA TellLostTells ==
    ASSUME NEW r \in Requests, ConsentInv, HeldInv, TruthInv, TellLost(r) PROVE TruthInv'
<1> USE RequestsAssumption DEF HeldInv, ConsentInv, TruthInv, TellLost, Say, Then,
    rows, shown, roster, budget, Requests
<1>1. OutcomeShown'
  <2>1. Outcomes(r) = {} /\ work[r] = "lost" /\ ledger[r] = "failed"
    BY DEF TypeOK, OutcomeShown, RowsAndWork
  <2>2. \A s \in Requests \ {r} : thread'[s] = thread[s] /\ work'[s] = work[s]
    BY DEF TypeOK
  <2>3. work'[r] = "none" /\ Outcomes(r)' = {"lost"}
    BY <2>1 DEF TypeOK, Outcomes
  <2>4. ~HeldByPress(r)
    BY <2>1 DEF HeldByPress, PressHasRow
  <2>5. ASSUME NEW s \in Requests \ {r}
        PROVE  /\ Outcomes(s)' # {} => work'[s] = "none" /\ ~HeldByPress(s)'
               /\ \A a, b \in Outcomes(s)' : a = b
               /\ "report" \in thread'[s] => ledger'[s] = "done"
               /\ thread'[s] \cap {"failed", "lost"} # {} => ledger'[s] = "failed"
               /\ work'[s] \in {"restamp", "lost"} => ledger'[s] = "failed"
               /\ ledger'[s] \in {"done", "failed"} =>
                     \/ Outcomes(s)' # {} \/ "word" \in lost'[s]
                     \/ work'[s] \in {"stamp", "tell", "restamp", "lost"}
    BY <2>2 DEF OutcomeShown, Outcomes, HeldByPress, Acting
  <2>6. /\ "report" \in thread'[r] => ledger'[r] = "done"
        /\ thread'[r] \cap {"failed", "lost"} # {} => ledger'[r] = "failed"
    BY <2>1, <2>3 DEF Outcomes
  <2>7. ~HeldByPress(r)'
    BY <2>4 DEF HeldByPress, Acting
  <2>8. QED
    BY <2>3, <2>5, <2>6, <2>7 DEF OutcomeShown
<1>2. CardShown'
  BY DEF TypeOK, RowsAndWork, PressHasRow, CardShown, HeldByPress, Acting
<1>3. LeftRuns'
  BY DEF TypeOK, PressHasRow, RunningHeld, LeftRuns, HeldByPress, Acting
<1>4. QED
  BY <1>1, <1>2, <1>3

LEMMA RecoveredTells ==
    ASSUME ConsentInv, HeldInv, TruthInv, Recovered PROVE TruthInv'
<1> USE RequestsAssumption DEF HeldInv, ConsentInv, TruthInv, Recovered,
    rows, shown, roster, budget, Requests
<1>1. OutcomeShown'
  BY DEF TypeOK, RowsAndWork, PressHasRow, Spent, OutcomeShown, Outcomes, HeldByPress, Acting
<1>2. CardShown'
  BY DEF TypeOK, RowsAndWork, PressHasRow, CardShown, HeldByPress, Acting
<1>3. LeftRuns'
  BY DEF TypeOK, PressHasRow, RunningHeld, LeftRuns, HeldByPress, Acting
<1>4. QED
  BY <1>1, <1>2, <1>3

LEMMA EditRosterTells ==
    ASSUME ConsentInv, HeldInv, TruthInv, EditRoster PROVE TruthInv'
<1> USE RequestsAssumption DEF HeldInv, ConsentInv, TruthInv, EditRoster,
    rows, shown, roster, budget, Requests
<1>1. OutcomeShown'
  BY DEF TypeOK, RowsAndWork, PressHasRow, Spent, OutcomeShown, Outcomes, HeldByPress, Acting
<1>2. CardShown'
  BY DEF TypeOK, RowsAndWork, PressHasRow, CardShown, HeldByPress, Acting
<1>3. LeftRuns'
  BY DEF TypeOK, PressHasRow, RunningHeld, LeftRuns, HeldByPress, Acting
<1>4. QED
  BY <1>1, <1>2, <1>3

-----------------------------------------------------------------------------
(* The theorem                                                              *)

LEMMA InitTells == Init => TruthInv
BY DEF Init, TruthInv, LeftRuns, OutcomeShown, Outcomes, CardShown, HeldByPress, Acting,
   Nobody, Requests

LEMMA NextTells == ConsentInv /\ HeldInv /\ TruthInv /\ [Next]_vars => TruthInv'
<1>1. ASSUME ConsentInv, HeldInv, TruthInv, Next PROVE TruthInv'
  <2>1. ASSUME NEW r \in Requests, Add(r) PROVE TruthInv'
    BY <1>1, <2>1, AddTells
  <2>2. ASSUME NEW r \in Requests, WorkStep(r) PROVE TruthInv'
    BY <1>1, <2>2, PostAskedTells, PostAskedFailsTells, PostCardTells,
       PostCardFailsTells, NoteCardTells, DispatchTells, AskTells,
       StampOutcomeTells, TellTells, TellFailsTells, AnswerTells,
       MarkTells, RestampTells, TellLostTells
       DEF WorkStep
  <2>3. ASSUME NEW p \in Presses, NEW r \in Handoffs, NEW button \in {"send", "dismiss"},
               Press(p, r, button)
        PROVE  TruthInv'
    BY <1>1, <2>3, PressTells
  <2>4. ASSUME NEW p \in Presses, PressStep(p) PROVE TruthInv'
    BY <1>1, <2>4, GiveUpTells, ClaimTells, PostSentTells, PostSentFailsTells,
       RefuseTells, PressEndsTells
       DEF PressStep
  <2> QED
    BY <1>1, <2>1, <2>2, <2>3, <2>4, CrashTells, StartTells, RecoveredTells, EditRosterTells
       DEF Next
<1>2. ASSUME TruthInv, UNCHANGED vars PROVE TruthInv'
  BY <1>2 DEF vars, rows, shown, roster, budget, TruthInv, LeftRuns, OutcomeShown,
              Outcomes, CardShown, HeldByPress, Acting
<1> QED
  BY <1>1, <1>2

\* No message of an outcome that was not recorded, and never two of one
\* request; and a request that has ended and is in nobody's hand has its
\* message, and its card its state, but for what a death or a failed delivery
\* has lost and what a start did not look for.
THEOREM ThreadTellsTheTruth == Spec => []TellsTheTruth
<1>1. ConsentInv /\ HeldInv /\ TruthInv => TellsTheTruth
  <2> SUFFICES ASSUME ConsentInv, HeldInv, TruthInv PROVE TellsTheTruth
    OBVIOUS
  <2>1. ASSUME NEW r \in Requests PROVE Cardinality(Outcomes(r)) <= 1
    <3>1. CASE Outcomes(r) = {}
      BY <3>1, FS_EmptySet
    <3>2. CASE Outcomes(r) # {}
      <4>1. PICK m \in Outcomes(r) : TRUE
        BY <3>2
      <4>2. Outcomes(r) = {m}
        BY <4>1 DEF TruthInv, OutcomeShown
      <4> QED
        BY <4>2, FS_Singleton
    <3> QED
      BY <3>1, <3>2
  <2>2. ASSUME NEW r \in Requests, phase = "up", Owners(r) = 0
        PROVE  /\ ledger[r] \in {"done", "failed"} => Outcomes(r) # {} \/ "word" \in lost[r]
               /\ r \in Handoffs /\ card[r] # "none" =>
                    card[r] = ledger[r] \/ "stamp" \in lost[r] \/ r \in left
    <3>1. work[r] = "none" /\ ~HeldByPress(r)
      BY <2>2, OneOwner
    <3> QED
      BY <2>2, <3>1 DEF TruthInv, OutcomeShown, CardShown
  <2>3. ASSUME NEW r \in Requests
        PROVE  /\ "report" \in thread[r] => ledger[r] = "done"
               /\ thread[r] \cap {"failed", "lost"} # {} => ledger[r] = "failed"
    BY DEF TruthInv, OutcomeShown
  <2> QED
    BY <2>1, <2>2, <2>3 DEF TellsTheTruth
<1> QED
  BY InitConsents, NextConsents, InitHolds, NextHolds, InitTells, NextTells, <1>1, PTL
     DEF Spec
=============================================================================

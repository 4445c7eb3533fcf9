---------------------------- MODULE GatewayProofs ----------------------------
(***************************************************************************)
(* Proofs about GatewayDelivery, for every transcript length, queue, page  *)
(* size, fetch bound and number of faults.                                 *)
(***************************************************************************)
EXTENDS GatewayDelivery, WellFoundedInduction, TLAPS

-----------------------------------------------------------------------------
(* Helpers *)

\* Min is the least element.
LEMMA MinIsLeast ==
    ASSUME NEW S \in SUBSET Nat, S # {}
    PROVE  Min(S) \in S /\ \A y \in S : Min(S) =< y
<1> DEFINE R == OpToRel(<, Nat)
<1>1. R = {pair \in Nat \X Nat : pair[1] < pair[2]}
  BY Zenon DEF OpToRel
<1>2. IsWellFoundedOn(R, Nat)
  BY Zenon, NatLessThanWellFounded
<1> HIDE DEF R
<1>3. PICK x \in S : \A y \in S : ~(<<y, x>> \in R)
  BY <1>2, WFMin
<1>4. \A y \in S : x =< y
  <2> SUFFICES ASSUME NEW y \in S, y < x PROVE FALSE
    OBVIOUS
  <2>1. <<y, x>> \in Nat \X Nat
    OBVIOUS
  <2>2. <<y, x>> \in R
    BY <1>1, <2>1
  <2> QED
    BY <1>3, <2>2
<1> QED
  BY <1>4 DEF Min

LEMMA LastIsRow == TypeOK => Last \in Mark
BY BoundsAssumption DEF TypeOK, Last, Mark

LEMMA NextSaidIsRow ==
    ASSUME TypeOK, NEW lo \in Nat, NEW hi \in Nat, Said(lo, hi) # {}
    PROVE  /\ NextSaid(lo, hi) \in Row
           /\ NextSaid(lo, hi) \in lo .. hi
<1>1. Said(lo, hi) \subseteq lo .. hi /\ Said(lo, hi) \subseteq 1 .. Last
  BY DEF Said
<1>2. Said(lo, hi) \subseteq Row
  BY <1>1, LastIsRow, BoundsAssumption DEF Row, Mark
<1>3. Min(Said(lo, hi)) \in Said(lo, hi)
  BY <1>2, MinIsLeast DEF Row
<1> QED
  BY <1>1, <1>2, <1>3 DEF NextSaid

\* No row a repair offers lies before the next one.
LEMMA NextSaidIsLeast ==
    ASSUME NEW lo \in Nat, NEW hi \in Nat, NEW s \in Said(lo, hi)
    PROVE  NextSaid(lo, hi) \in Nat /\ NextSaid(lo, hi) <= s
<1> DEFINE S == Said(lo, hi)
<1>1. S \in SUBSET Nat /\ s \in S
  BY DEF Said
<1>2. NextSaid(lo, hi) = Min(S)
  BY <1>1 DEF NextSaid
<1> HIDE DEF S
<1>3. Min(S) \in S /\ \A y \in S : Min(S) =< y
  BY <1>1, MinIsLeast, Zenon
<1> QED
  BY <1>1, <1>2, <1>3

LEMMA RecordSeqType ==
    ASSUME TypeOK, NEW s \in Row, RecordSeq(s)
    PROVE  cursor' \in Mark /\ origin' \in Mark
BY BoundsAssumption DEF TypeOK, RecordSeq, Upper, Row, Mark

LEMMA PostType ==
    ASSUME TypeOK, NEW s \in Row, Post(s)
    PROVE  posted' \subseteq Row
BY DEF TypeOK, Post

-----------------------------------------------------------------------------
(* The inductive invariant: what a reader or the pump is about to post is a *)
(* row.                                                                      *)

Good(record) ==
    /\ record \in Reading
    /\ record.at \in {"deliver", "replay"} => record.from \in Row

OnRows ==
    /\ \A r \in Readers : Good(reader[r])
    /\ pump.at # "idle" => pump.row \in Row

IInv == TypeOK /\ OnRows

LEMMA PutGood ==
    ASSUME IInv, NEW r \in Readers, NEW record, Good(record), Put(r, record)
    PROVE  /\ reader' \in [Readers -> Reading]
           /\ \A q \in Readers : Good(reader'[q])
<1>1. reader \in [Readers -> Reading] /\ \A q \in Readers : Good(reader[q])
  BY DEF IInv, TypeOK, OnRows
<1>2. reader' = [reader EXCEPT ![r] = record]
  BY DEF Put
<1>3. record \in Reading
  BY DEF Good
<1>4. ASSUME NEW q \in Readers PROVE Good(reader'[q])
  <2>1. CASE q = r
    <3>1. reader'[q] = record
      BY <1>1, <1>2, <2>1
    <3> QED
      BY <3>1
  <2>2. CASE q # r
    <3>1. reader'[q] = reader[q]
      BY <1>1, <1>2, <2>2
    <3> QED
      BY <1>1, <3>1
  <2> QED
    BY <2>1, <2>2
<1> QED
  BY <1>1, <1>2, <1>3, <1>4

LEMMA IdleGood == Good(Idle)
BY BoundsAssumption DEF Good, Idle, Reading, ReaderAt, Mark

LEMMA OfferGood ==
    ASSUME NEW base \in Reading, NEW at \in {"deliver", "replay"},
           NEW from \in Row, NEW to \in Mark
    PROVE  Good([base EXCEPT !.at = at, !.from = from, !.to = to])
<1>1. from \in Mark
  BY BoundsAssumption DEF Row, Mark
<1> QED
  BY <1>1 DEF Good, Reading, ReaderAt

LEMMA CatchUpGood ==
    ASSUME IInv, NEW force \in BOOLEAN
    PROVE  Good(StartCatchUp(force)) /\ Good(FallBack(force))
<1>1. cursor \in Mark /\ deltaCursor \in Mark /\ 0 \in Mark /\ 0 \in 0 .. MaxFetch
  BY BoundsAssumption DEF IInv, TypeOK, Mark
<1>2. Good(FallBack(force))
  BY <1>1, IdleGood DEF Good, FallBack, Idle, Reading, ReaderAt
<1> QED
  BY <1>1, <1>2, IdleGood DEF Good, StartCatchUp, Idle, Reading, ReaderAt

LEMMA ReplayGood ==
    ASSUME IInv, NEW r \in CatchUps, NEW lo \in Nat, NEW hi \in Mark,
           Replay(r, lo, hi)
    PROVE  /\ reader' \in [Readers -> Reading]
           /\ \A q \in Readers : Good(reader'[q])
           /\ cursor' \in Mark /\ origin' \in Mark
<1> r \in Readers
  BY DEF Readers
<1>1. CASE Said(lo, hi) = {}
  <2>1. Put(r, Idle) /\ UNCHANGED <<cursor, origin>>
    BY <1>1 DEF Replay
  <2> QED
    BY <2>1, PutGood, IdleGood DEF IInv, TypeOK
<1>2. CASE Said(lo, hi) # {}
  <2> DEFINE record == [Idle EXCEPT !.at = "replay", !.from = NextSaid(lo, hi),
                                    !.to = hi]
  <2>1. Put(r, record) /\ RecordSeq(NextSaid(lo, hi))
    BY <1>2 DEF Replay
  <2>2. hi \in Nat
    BY DEF Mark
  <2>3. NextSaid(lo, hi) \in Row
    BY <1>2, <2>2, NextSaidIsRow DEF IInv
  <2>4. Good(record)
    BY <2>3, IdleGood, OfferGood DEF Good
  <2> HIDE DEF record
  <2> QED
    BY <2>1, <2>3, <2>4, PutGood, RecordSeqType DEF IInv
<1> QED
  BY <1>1, <1>2

LEMMA WalkedGood ==
    ASSUME IInv, NEW r \in Readers
    PROVE  Good(Walked(r))
<1>1. reader[r].last \in Mark /\ 0 \in Mark /\ 0 \in 0 .. MaxFetch
  BY BoundsAssumption DEF IInv, OnRows, Good, Reading, Mark
<1> QED
  BY <1>1, IdleGood DEF Good, Walked, Idle, Reading, ReaderAt

LEMMA StopWalkGood ==
    ASSUME IInv, NEW r \in Readers, NEW from \in Mark, NEW to \in Mark,
           StopWalk(r, from, to)
    PROVE  /\ reader' \in [Readers -> Reading]
           /\ \A q \in Readers : Good(reader'[q])
           /\ gaveUp' \subseteq Row
<1> DEFINE lo == Upper(from, reader[r].last + 1)
           record == [reader[r] EXCEPT !.at = "deliver",
                                       !.from = NextSaid(lo, to), !.to = to]
<1>1. reader[r] \in Reading /\ reader[r].last \in Mark
  BY DEF IInv, OnRows, Good, Reading
<1>2. Last \in Mark /\ gaveUp \subseteq Row
  BY LastIsRow DEF IInv, TypeOK
<1>3. gaveUp' \subseteq Row
  BY <1>1, <1>2, BoundsAssumption DEF StopWalk, Row, Mark
<1>4. lo \in Nat /\ to \in Nat
  BY <1>1 DEF Upper, Mark
<1>5. CASE from = 0 \/ Said(lo, to) = {}
  <2>1. Put(r, Walked(r))
    BY <1>5 DEF StopWalk
  <2> QED
    BY <1>3, <2>1, PutGood, WalkedGood
<1>6. CASE ~(from = 0 \/ Said(lo, to) = {})
  <2>1. Put(r, record)
    BY <1>6 DEF StopWalk
  <2>2. NextSaid(lo, to) \in Row
    BY <1>4, <1>6, NextSaidIsRow DEF IInv
  <2>3. Good(record)
    BY <1>1, <2>2, OfferGood
  <2> HIDE DEF record
  <2> QED
    BY <1>3, <2>1, <2>3, PutGood
<1> QED
  BY <1>5, <1>6

-----------------------------------------------------------------------------
(* The steps that read no history *)

LEMMA SpendType ==
    ASSUME TypeOK, NEW f \in Faults, Spend(f)
    PROVE  faults' \in [budget : Budgets, spent : [Faults -> Nat]]
<1>1. /\ faults \in [budget : Budgets, spent : [Faults -> Nat]]
      /\ faults' = [faults EXCEPT !.spent[f] = @ + 1]
  BY DEF TypeOK, Spend
<1>2. faults.spent \in [Faults -> Nat] /\ faults.spent[f] + 1 \in Nat
  BY <1>1
<1> QED
  BY <1>1, <1>2

LEMMA CallFailsType ==
    ASSUME TypeOK, CallFails
    PROVE  faults' \in [budget : Budgets, spent : [Faults -> Nat]]
<1>1. "call" \in Faults
  BY DEF Faults
<1> QED
  BY <1>1, SpendType DEF CallFails, TypeOK

\* What Write and the pump change.
LEMMA WriteStep ==
    ASSUME IInv, NEW kind \in Kinds, Write(kind)
    PROVE  IInv'
<1>1. /\ rows' \in Seq(Kinds) /\ Len(rows') <= MaxRows
      /\ Last + 1 \in Row
  BY BoundsAssumption DEF IInv, TypeOK, Write, Last, Row
<1>2. due' \subseteq Row /\ orphans' \subseteq Row
  BY <1>1 DEF IInv, TypeOK, Write
<1>3. /\ queue' \in Seq(Row) /\ Len(queue') <= QueueCap
      /\ faults' \in [budget : Budgets, spent : [Faults -> Nat]]
  <2> DEFINE sent == kind # "folded" /\ subscribed
  <2>1. CASE /\ sent /\ Len(queue) < QueueCap
             /\ queue' = Append(queue, Last + 1)
             /\ UNCHANGED faults
    BY <1>1, <2>1, BoundsAssumption DEF IInv, TypeOK
  <2>2. CASE Spend("drop") /\ UNCHANGED queue
    <3>1. "drop" \in Faults
      BY DEF Faults
    <3> QED
      BY <2>2, <3>1, SpendType DEF IInv, TypeOK
  <2>3. CASE UNCHANGED <<queue, faults>>
    BY <2>3 DEF IInv, TypeOK
  <2> QED
    BY <2>1, <2>2, <2>3 DEF Write
<1>4. UNCHANGED <<link, subscribed, hello, inflight, cursor, deltaCursor, gapLow,
                  held, refetching, gaveUp, pump, reader, posted, origin, overlooked>>
  BY DEF Write, router
<1> QED
  BY <1>1, <1>2, <1>3, <1>4 DEF IInv, TypeOK, OnRows

LEMMA SocketStep ==
    ASSUME IInv, Dispatch \/ Answered \/ Cut \/ Connect
    PROVE  IInv'
<1>1. "run" \in Faults /\ "cut" \in Faults
  BY DEF Faults
<1>2. CASE Dispatch
  BY <1>1, <1>2, SpendType DEF Dispatch, IInv, TypeOK, OnRows, router, history
<1>3. CASE Answered
  BY <1>3 DEF Answered, IInv, TypeOK, OnRows, router, history
<1>4. CASE Cut
  BY <1>1, <1>4, SpendType DEF Cut, IInv, TypeOK, OnRows, router, history
<1>5. CASE Connect
  BY <1>5 DEF Connect, IInv, TypeOK, OnRows, router, history
<1> QED
  BY <1>2, <1>3, <1>4, <1>5

LEMMA RestartStep ==
    ASSUME IInv, Restart
    PROVE  IInv'
<1>1. "restart" \in Faults
  BY DEF Faults
<1>2. /\ reader' \in [Readers -> Reading]
      /\ \A r \in Readers : Good(reader'[r])
  BY IdleGood DEF Restart, Good
<1>3. pump' = Resting /\ Resting \in Handling /\ Resting.at = "idle"
  BY BoundsAssumption DEF Restart, Resting, Handling, Mark
<1>4. /\ cursor' \in Mark /\ deltaCursor' \in Mark /\ gapLow' \in Mark /\ held' \in Mark
      /\ queue' \in Seq(Row) /\ Len(queue') <= QueueCap
      /\ refetching' \subseteq Row /\ gaveUp' \subseteq Row
  BY BoundsAssumption DEF Restart, Mark
<1>5. faults' \in [budget : Budgets, spent : [Faults -> Nat]]
  BY <1>1, SpendType DEF Restart, IInv
<1>6. /\ link' = "down" /\ subscribed' = FALSE /\ hello' = "done" /\ inflight' = "none"
      /\ UNCHANGED <<rows, posted, origin, due, orphans, overlooked>>
  BY DEF Restart, history
<1> QED
  BY <1>2, <1>3, <1>4, <1>5, <1>6 DEF IInv, TypeOK, OnRows

\* A reconnect starts the catch-ups, with the marks the router has.
LEMMA ReconnectStep ==
    ASSUME IInv, Subscribe \/ ChaseRuns \/ RunEnded
    PROVE  IInv'
<1> USE DEF IInv
<1>1. "deaf" \in Faults /\ "resync" \in Readers /\ "recover" \in Readers
  BY DEF Faults, Readers, CatchUps
<1>2. Good([Idle EXCEPT !.at = "waiting"])
  BY IdleGood DEF Good, Idle, Reading, ReaderAt
<1>3. Good(StartCatchUp(TRUE)) /\ Good(StartCatchUp(FALSE))
  BY CatchUpGood
<1>4. CASE Subscribe
  <2>1. /\ reader' \in [Readers -> Reading]
        /\ \A r \in Readers : Good(reader'[r])
    BY <1>1, <1>3, <1>4, PutGood DEF Subscribe, TypeOK, OnRows
  <2>2. /\ subscribed' \in BOOLEAN
        /\ faults' \in [budget : Budgets, spent : [Faults -> Nat]]
    BY <1>1, <1>4, SpendType DEF Subscribe, TypeOK
  <2> QED
    BY <1>4, <2>1, <2>2 DEF Subscribe, TypeOK, OnRows, router, history
<1>5. CASE ChaseRuns
  <2>1. /\ reader' \in [Readers -> Reading]
        /\ \A r \in Readers : Good(reader'[r])
    BY <1>1, <1>2, <1>5, PutGood DEF ChaseRuns, TypeOK, OnRows
  <2> QED
    BY <1>5, <2>1 DEF ChaseRuns, TypeOK, OnRows, router, history
<1>6. CASE RunEnded
  <2>1. /\ reader' \in [Readers -> Reading]
        /\ \A r \in Readers : Good(reader'[r])
    BY <1>1, <1>3, <1>6, PutGood DEF RunEnded
  <2> QED
    BY <1>6, <2>1 DEF RunEnded, TypeOK, OnRows, gateway, router, history
<1> QED
  BY <1>4, <1>5, <1>6

-----------------------------------------------------------------------------
(* The live road *)

LEMMA TakeStep ==
    ASSUME IInv, Take
    PROVE  IInv'
<1>1. queue \in Seq(Row) /\ queue # <<>> /\ Len(queue) <= QueueCap
  BY DEF IInv, TypeOK, Take
<1>2. Head(queue) \in Row /\ Tail(queue) \in Seq(Row) /\ Len(Tail(queue)) <= QueueCap
  BY <1>1, BoundsAssumption
<1>3. Head(queue) \in Mark /\ cursor \in Mark
  BY <1>2, BoundsAssumption DEF Row, Mark, IInv, TypeOK
<1>4. /\ queue' = Tail(queue)
      /\ pump' = [at |-> "resolving", row |-> Head(queue), last |-> cursor]
      /\ UNCHANGED <<gateway, router, reader, posted, history, faults>>
  BY DEF Take
<1>5. pump' \in Handling /\ pump'.row \in Row
  BY <1>2, <1>3, <1>4 DEF Handling
<1> QED
  BY <1>2, <1>4, <1>5 DEF IInv, TypeOK, OnRows, gateway, router, history

LEMMA ScheduleGapGood ==
    ASSUME IInv, NEW last \in Mark, ScheduleGap(last)
    PROVE  /\ gapLow' \in Mark
           /\ reader' \in [Readers -> Reading]
           /\ \A r \in Readers : Good(reader'[r])
<1>1. gapLow' \in Mark
  BY DEF ScheduleGap, Lower, IInv, TypeOK
<1>2. "gap" \in Readers /\ Good([Idle EXCEPT !.at = "sleeping"])
  BY IdleGood DEF Readers, Good, Idle, Reading, ReaderAt
<1> QED
  BY <1>1, <1>2, PutGood DEF ScheduleGap, IInv, TypeOK, OnRows

LEMMA ResolveStep ==
    ASSUME IInv, Resolve
    PROVE  IInv'
<1> DEFINE s == pump.row
<1>1. s \in Row /\ s \in Mark /\ pump \in Handling /\ pump.last \in Mark
  BY DEF IInv, TypeOK, OnRows, Resolve, Handling
<1>2. cursor' \in Mark /\ origin' \in Mark
  BY <1>1, RecordSeqType DEF Resolve, IInv
<1>3. /\ gapLow' \in Mark
      /\ reader' \in [Readers -> Reading]
      /\ \A r \in Readers : Good(reader'[r])
  <2>1. ScheduleGap(pump.last) \/ UNCHANGED <<gapLow, reader>>
    BY DEF Resolve
  <2> QED
    BY <1>1, <2>1, ScheduleGapGood DEF IInv, TypeOK, OnRows
<1>4. held' \in Mark /\ refetching' \subseteq Row
  BY <1>1, BoundsAssumption DEF Resolve, IInv, TypeOK, Mark
<1>5. pump' \in Handling /\ (pump'.at # "idle" => pump'.row \in Row)
  BY <1>1, BoundsAssumption DEF Resolve, Handling, Resting, Mark
<1>6. UNCHANGED <<gateway, queue, deltaCursor, gaveUp, posted, due, orphans,
                  overlooked, faults>>
  BY DEF Resolve
<1> QED
  BY <1>2, <1>3, <1>4, <1>5, <1>6 DEF IInv, TypeOK, OnRows, gateway

LEMMA DeliverStep ==
    ASSUME IInv, Deliver
    PROVE  IInv'
<1>1. pump.row \in Row
  BY DEF IInv, OnRows, Deliver
<1>2. posted' \subseteq Row
  BY <1>1, PostType DEF IInv, Deliver
<1>3. pump' \in Handling /\ pump'.at = "idle"
  BY BoundsAssumption DEF Deliver, Resting, Handling, Mark
<1>4. UNCHANGED <<gateway, queue, router, reader, history, faults>>
  BY DEF Deliver
<1> QED
  BY <1>2, <1>3, <1>4 DEF IInv, TypeOK, OnRows, gateway, router, history

LEMMA LateStep ==
    ASSUME IInv, ReleaseError \/ \E s \in Row : Refetched(s)
    PROVE  IInv'
<1>1. CASE ReleaseError
  <2>1. held \in Row
    BY <1>1 DEF IInv, TypeOK, ReleaseError, Mark, Row
  <2>2. posted' \subseteq Row /\ held' \in Mark
    BY <1>1, <2>1, PostType, BoundsAssumption DEF IInv, ReleaseError, Mark
  <2> QED
    BY <1>1, <2>2 DEF IInv, TypeOK, OnRows, ReleaseError, gateway, history
<1>2. ASSUME NEW s \in Row, Refetched(s) PROVE IInv'
  <2>1. posted' \subseteq Row /\ refetching' \subseteq Row
    BY <1>2, PostType DEF IInv, TypeOK, Refetched
  <2> QED
    BY <1>2, <2>1 DEF IInv, TypeOK, OnRows, Refetched, gateway, history
<1> QED
  BY <1>1, <1>2

-----------------------------------------------------------------------------
(* The history readers *)

LEMMA CatchUpStep ==
    ASSUME IInv, NEW r \in CatchUps, CatchUp(r)
    PROVE  IInv'
<1> USE DEF IInv
<1>1. r \in Readers
  BY DEF Readers
<1>2. /\ reader[r] \in Reading /\ Good(reader[r])
      /\ reader[r].from \in Mark /\ reader[r].to \in Mark /\ reader[r].force \in BOOLEAN
  BY <1>1 DEF TypeOK, OnRows, Reading
<1>3. Last \in Mark
  BY LastIsRow
<1>4. CASE Forward(r)
  <2>1. Replay(r, reader[r].from + 1, Last) /\ deltaCursor' = Last
    BY <1>4 DEF Forward
  <2>2. reader[r].from + 1 \in Nat
    BY <1>2 DEF Mark
  <2>3. /\ reader' \in [Readers -> Reading]
        /\ \A q \in Readers : Good(reader'[q])
        /\ cursor' \in Mark /\ origin' \in Mark
    BY <1>3, <2>1, <2>2, ReplayGood
  <2> QED
    BY <1>3, <1>4, <2>1, <2>3 DEF Forward, TypeOK, OnRows, gateway
<1>5. CASE NoForward(r)
  <2>1. Good(FallBack(TRUE)) /\ Good(FallBack(reader[r].force))
    BY <1>2, CatchUpGood
  <2>2. /\ reader' \in [Readers -> Reading]
        /\ \A q \in Readers : Good(reader'[q])
    BY <1>1, <1>5, <2>1, PutGood DEF NoForward
  <2>3. faults' \in [budget : Budgets, spent : [Faults -> Nat]]
    BY <1>5, CallFailsType DEF NoForward, TypeOK
  <2> QED
    BY <1>5, <2>2, <2>3 DEF NoForward, TypeOK, OnRows, gateway, router, history
<1>6. CASE ReadTail(r)
  <2>1. Last + 1 - Lower(Last, PageSize) \in Nat
    BY <1>3, BoundsAssumption DEF Lower, Mark
  <2>2. /\ reader' \in [Readers -> Reading]
        /\ \A q \in Readers : Good(reader'[q])
        /\ cursor' \in Mark /\ origin' \in Mark
    <3>1. CASE reader[r].last = 0
      BY <1>3, <1>6, <2>1, <3>1, ReplayGood DEF ReadTail
    <3>2. CASE reader[r].last # 0
      <4>1. Put(r, Idle) /\ UNCHANGED <<cursor, origin>>
        BY <1>6, <3>2 DEF ReadTail
      <4> QED
        BY <1>1, <4>1, PutGood, IdleGood DEF TypeOK
    <3> QED
      BY <3>1, <3>2
  <2>3. overlooked' \subseteq Row
    BY <1>6 DEF ReadTail, TypeOK, Unseen
  <2> QED
    BY <1>3, <1>6, <2>2, <2>3 DEF ReadTail, TypeOK, OnRows, gateway
<1>7. CASE NoReadTail(r)
  <2>1. /\ reader' \in [Readers -> Reading]
        /\ \A q \in Readers : Good(reader'[q])
    BY <1>1, <1>7, PutGood, IdleGood DEF NoReadTail
  <2>2. faults' \in [budget : Budgets, spent : [Faults -> Nat]]
    BY <1>7, CallFailsType DEF NoReadTail
  <2> QED
    BY <1>7, <2>1, <2>2 DEF NoReadTail, TypeOK, OnRows, gateway, router, history
<1>8. CASE ReplayRow(r)
  <2>1. reader[r].from \in Row
    BY <1>2, <1>8 DEF ReplayRow, Good
  <2>2. posted' \subseteq Row
    BY <1>8, <2>1, PostType DEF ReplayRow
  <2>3. reader[r].from + 1 \in Nat
    BY <1>2 DEF Mark
  <2>4. /\ reader' \in [Readers -> Reading]
        /\ \A q \in Readers : Good(reader'[q])
        /\ cursor' \in Mark /\ origin' \in Mark
    BY <1>2, <1>8, <2>3, ReplayGood DEF ReplayRow
  <2> QED
    BY <1>8, <2>2, <2>4 DEF ReplayRow, TypeOK, OnRows, gateway
<1> QED
  BY <1>4, <1>5, <1>6, <1>7, <1>8 DEF CatchUp

\* A page never reads beyond the fetch bound, or beyond the transcript.
LEMMA PageBounds ==
    ASSUME IInv, NEW r \in Readers, NEW end, NEW len, NEW from, NEW to,
           end = Upper(Last, reader[r].got) - reader[r].got,
           len = Lower(end, Lower(PageSize, MaxFetch - reader[r].got)),
           from = IF len = 0 THEN reader[r].from
                  ELSE IF reader[r].from = 0 THEN end + 1 - len
                  ELSE Lower(reader[r].from, end + 1 - len),
           to = Upper(reader[r].to, end)
    PROVE  from \in Mark /\ to \in Mark /\ reader[r].got + len \in 0 .. MaxFetch
<1>1. /\ reader[r].from \in Mark /\ reader[r].to \in Mark
      /\ reader[r].got \in 0 .. MaxFetch
  BY DEF IInv, OnRows, Good, Reading
<1>2. Last \in Mark
  BY LastIsRow DEF IInv
<1>3. end \in Mark
  BY <1>1, <1>2, BoundsAssumption DEF Upper, Mark
<1>4. len \in Nat /\ len <= end /\ len <= MaxFetch - reader[r].got
  BY <1>1, <1>3, BoundsAssumption DEF Lower, Mark
<1>5. from \in Mark
  BY <1>1, <1>3, <1>4, BoundsAssumption DEF Lower, Mark
<1>6. to \in Mark
  BY <1>1, <1>3 DEF Upper
<1> QED
  BY <1>1, <1>4, <1>5, <1>6, BoundsAssumption

LEMMA PageStep ==
    ASSUME IInv, NEW r \in Readers, Page(r)
    PROVE  IInv'
<1> DEFINE walk == reader[r]
           end == Upper(Last, walk.got) - walk.got
           len == Lower(end, Lower(PageSize, MaxFetch - walk.got))
           low == end + 1 - len
           from == IF len = 0 THEN walk.from
                   ELSE IF walk.from = 0 THEN low ELSE Lower(walk.from, low)
           to == Upper(walk.to, end)
           got == walk.got + len
           on == [walk EXCEPT !.from = from, !.to = to, !.got = got]
<1>1. /\ reader[r].at = "walk"
      /\ StopWalk(r, from, to) \/ (Put(r, on) /\ UNCHANGED gaveUp)
      /\ UNCHANGED <<gateway, queue, cursor, deltaCursor, gapLow, held,
                     refetching, pump, posted, history, faults>>
  BY DEF Page
<1>2. from \in Mark /\ to \in Mark /\ got \in 0 .. MaxFetch
  BY PageBounds
<1> HIDE DEF from, to, got
<1>3. Good(on)
  BY <1>1, <1>2 DEF IInv, OnRows, Good, Reading
<1>4. /\ reader' \in [Readers -> Reading]
      /\ \A q \in Readers : Good(reader'[q])
      /\ gaveUp' \subseteq Row
  <2>1. CASE StopWalk(r, from, to)
    BY <1>2, <2>1, StopWalkGood
  <2>2. CASE Put(r, on) /\ UNCHANGED gaveUp
    BY <1>3, <2>2, PutGood DEF IInv, TypeOK
  <2> QED
    BY <1>1, <2>1, <2>2
<1> QED
  BY <1>1, <1>4 DEF IInv, TypeOK, OnRows, gateway, history

LEMMA ReadStep ==
    ASSUME IInv, NEW r \in Readers, Read(r)
    PROVE  IInv'
<1>1. /\ reader[r] \in Reading /\ Good(reader[r])
      /\ reader[r].from \in Mark /\ reader[r].to \in Mark
  BY DEF IInv, OnRows, Good, Reading
<1>2. CASE NoPage(r)
  <2>1. /\ reader' \in [Readers -> Reading]
        /\ \A q \in Readers : Good(reader'[q])
        /\ gaveUp' \subseteq Row
    BY <1>1, <1>2, StopWalkGood DEF NoPage
  <2>2. faults' \in [budget : Budgets, spent : [Faults -> Nat]]
    BY <1>2, CallFailsType DEF NoPage, IInv
  <2> QED
    BY <1>2, <2>1, <2>2 DEF NoPage, IInv, TypeOK, OnRows, gateway, history
<1>3. CASE DeliverRow(r)
  <2> DEFINE next == NextSaid(reader[r].from + 1, reader[r].to)
             on == [reader[r] EXCEPT !.from = next]
  <2>1. reader[r].at = "deliver" /\ reader[r].from \in Row
    BY <1>1, <1>3 DEF DeliverRow, Good
  <2>2. posted' \subseteq Row
    BY <1>3, <2>1, PostType DEF DeliverRow, IInv
  <2>3. reader[r].from + 1 \in Nat /\ reader[r].to \in Nat
    BY <1>1 DEF Mark
  <2>4. CASE next > reader[r].to
    <3>1. Put(r, Walked(r))
      BY <1>3, <2>4 DEF DeliverRow
    <3>2. /\ reader' \in [Readers -> Reading]
          /\ \A q \in Readers : Good(reader'[q])
      BY <3>1, PutGood, WalkedGood
    <3> QED
      BY <1>3, <2>2, <3>2 DEF DeliverRow, IInv, TypeOK, OnRows, gateway, router, history
  <2>5. CASE ~(next > reader[r].to)
    <3>1. Put(r, on)
      BY <1>3, <2>5 DEF DeliverRow
    <3>2. Said(reader[r].from + 1, reader[r].to) # {}
      BY <2>3, <2>5 DEF NextSaid
    <3>3. next \in Row /\ next \in Mark
      BY <2>3, <3>2, NextSaidIsRow, BoundsAssumption DEF IInv, Row, Mark
    <3> HIDE DEF next
    <3>4. Good(on)
      BY <1>1, <3>3 DEF Good, Reading
    <3>5. /\ reader' \in [Readers -> Reading]
          /\ \A q \in Readers : Good(reader'[q])
      BY <3>1, <3>4, PutGood
    <3> QED
      BY <1>3, <2>2, <3>5 DEF DeliverRow, IInv, TypeOK, OnRows, gateway, router, history
  <2> QED
    BY <2>4, <2>5
<1> QED
  BY <1>2, <1>3, PageStep DEF Read

LEMMA GapWakesStep ==
    ASSUME IInv, GapWakes
    PROVE  IInv'
<1>1. "gap" \in Readers /\ gapLow \in Mark /\ 0 \in Mark
  BY BoundsAssumption DEF Readers, IInv, TypeOK, Mark
<1>2. Good([Idle EXCEPT !.at = "walk", !.last = gapLow])
  BY <1>1, IdleGood DEF Good, Idle, Reading, ReaderAt
<1>3. /\ reader' \in [Readers -> Reading]
      /\ \A q \in Readers : Good(reader'[q])
  BY <1>1, <1>2, PutGood, IdleGood DEF GapWakes
<1> QED
  BY <1>1, <1>3 DEF GapWakes, IInv, TypeOK, OnRows, gateway, history

-----------------------------------------------------------------------------
(* Type correctness *)

LEMMA InitIInv == Init => IInv
<1> SUFFICES ASSUME Init PROVE IInv
  OBVIOUS
<1>1. rows \in Seq(Kinds) /\ Len(rows) <= MaxRows
  <2>1. CASE rows = <<>>
    BY <2>1, BoundsAssumption
  <2>2. ASSUME NEW kind \in Kinds, rows = <<kind>>
        PROVE  rows \in Seq(Kinds) /\ Len(rows) <= MaxRows
    BY <2>2, BoundsAssumption
  <2> QED
    BY <2>1, <2>2 DEF Init
<1>2. /\ reader \in [Readers -> Reading]
      /\ \A r \in Readers : Good(reader[r])
  BY IdleGood DEF Init, Good
<1>3. pump \in Handling /\ pump.at = "idle"
  BY BoundsAssumption DEF Init, Resting, Handling, Mark
<1>4. 0 \in Mark /\ Len(<<>>) <= QueueCap /\ <<>> \in Seq(Row)
  BY BoundsAssumption DEF Mark
<1>5. faults \in [budget : Budgets, spent : [Faults -> Nat]]
  BY DEF Init
<1> QED
  BY <1>1, <1>2, <1>3, <1>4, <1>5 DEF Init, IInv, TypeOK, OnRows

LEMMA NextIInv == IInv /\ [Next]_vars => IInv'
<1> SUFFICES ASSUME IInv, [Next]_vars PROVE IInv'
  OBVIOUS
<1>1. CASE Gateway \/ Restart
  BY <1>1, SocketStep, WriteStep, RestartStep DEF Gateway
<1>2. CASE Reconnect
  BY <1>2, SocketStep, ReconnectStep DEF Reconnect
<1>3. ASSUME NEW r \in Readers, Read(r) PROVE IInv'
  BY <1>3, ReadStep
<1>4. ASSUME NEW r \in CatchUps, CatchUp(r) PROVE IInv'
  BY <1>4, CatchUpStep
<1>5. CASE GapWakes
  BY <1>5, GapWakesStep
<1>6. CASE Live
  BY <1>6, TakeStep, ResolveStep, DeliverStep DEF Live
<1>7. CASE ReleaseError \/ \E s \in Row : Refetched(s)
  BY <1>7, LateStep
<1>8. CASE UNCHANGED vars
  BY <1>8 DEF IInv, TypeOK, OnRows, vars, gateway, router, history
<1> QED
  BY <1>1, <1>2, <1>3, <1>4, <1>5, <1>6, <1>7, <1>8 DEF Next

\* The types: whatever the gateway writes, drops or refuses, no read goes beyond
\* the transcript or the fetch bound, and what is posted is a row of it.
\* (gateway_router.py)
THEOREM Typing == Spec => []TypeOK
<1>1. Spec => []IInv
  BY InitIInv, NextIInv, PTL DEF Spec
<1> QED
  BY <1>1, PTL DEF IInv

-----------------------------------------------------------------------------
(* A queued gap has a task *)

\* A reader other than the gap task does not touch it.
LEMMA OtherReader ==
    ASSUME IInv, NEW r \in CatchUps, NEW record, Put(r, record)
    PROVE  reader'["gap"] = reader["gap"]
BY DEF IInv, TypeOK, Readers, CatchUps, Put

LEMMA GapReader ==
    ASSUME IInv, NEW record, Put("gap", record)
    PROVE  reader'["gap"] = record
BY DEF IInv, TypeOK, Readers, Put

LEMMA StopWalkKeepsGap ==
    ASSUME IInv, GapIsAttended, UNCHANGED gapLow,
           NEW r \in Readers, NEW from, NEW to,
           reader[r].at = "walk", StopWalk(r, from, to)
    PROVE  GapIsAttended'
<1> DEFINE lo == Upper(from, reader[r].last + 1)
           next == NextSaid(lo, to)
<1>1. Put(r, Walked(r))
        \/ Put(r, [reader[r] EXCEPT !.at = "deliver", !.from = next, !.to = to])
  BY DEF StopWalk
<1> HIDE DEF next
<1>2. CASE r = "gap"
  <2>1. reader["gap"] \in Reading
    BY DEF IInv, TypeOK, Readers
  <2>2. Walked("gap").at # "idle" \/ gapLow = 0
    BY DEF Walked, Idle
  <2>3. [reader["gap"] EXCEPT !.at = "deliver", !.from = next, !.to = to].at = "deliver"
    BY <2>1 DEF Reading
  <2> QED
    BY <1>1, <1>2, <2>2, <2>3, GapReader DEF GapIsAttended
<1>3. CASE r # "gap"
  <2>1. r \in CatchUps
    BY <1>3 DEF Readers
  <2> QED
    BY <1>1, <2>1, OtherReader DEF GapIsAttended
<1> QED
  BY <1>2, <1>3

LEMMA ReadKeepsGap ==
    ASSUME IInv, GapIsAttended, NEW r \in Readers, Read(r)
    PROVE  GapIsAttended'
<1>1. CASE Page(r)
  <2>1. /\ reader[r].at = "walk" /\ UNCHANGED gapLow
        /\ \/ \E from, to : StopWalk(r, from, to)
           \/ \E from, to, got :
                Put(r, [reader[r] EXCEPT !.from = from, !.to = to, !.got = got])
    BY <1>1, Zenon DEF Page
  <2>2. ASSUME NEW from, NEW to, NEW got,
               Put(r, [reader[r] EXCEPT !.from = from, !.to = to, !.got = got])
        PROVE  GapIsAttended'
    <3>1. reader[r] \in Reading
      BY DEF IInv, TypeOK
    <3>2. [reader[r] EXCEPT !.from = from, !.to = to, !.got = got].at = "walk"
      BY <2>1, <3>1 DEF Reading
    <3>3. CASE r = "gap"
      BY <2>2, <3>2, <3>3, GapReader DEF GapIsAttended
    <3>4. CASE r \in CatchUps
      BY <2>1, <2>2, <3>4, OtherReader DEF GapIsAttended
    <3> QED
      BY <3>3, <3>4 DEF Readers
  <2> QED
    BY <2>1, <2>2, StopWalkKeepsGap
<1>2. CASE NoPage(r)
  BY <1>2, StopWalkKeepsGap DEF NoPage
<1>3. CASE DeliverRow(r)
  <2>1. /\ reader[r].at = "deliver" /\ UNCHANGED gapLow
        /\ \/ Put(r, Walked(r))
           \/ \E next : Put(r, [reader[r] EXCEPT !.from = next])
    BY <1>3 DEF DeliverRow, router
  <2>2. reader[r] \in Reading
    BY DEF IInv, TypeOK
  <2>3. \A next : [reader[r] EXCEPT !.from = next].at = "deliver"
    BY <2>1, <2>2 DEF Reading
  <2>4. CASE r = "gap"
    <3>1. Walked("gap").at # "idle" \/ gapLow = 0
      BY DEF Walked, Idle
    <3> QED
      BY <2>1, <2>3, <2>4, <3>1, GapReader DEF GapIsAttended
  <2>5. CASE r \in CatchUps
    BY <2>1, <2>5, OtherReader DEF GapIsAttended
  <2> QED
    BY <2>4, <2>5 DEF Readers
<1> QED
  BY <1>1, <1>2, <1>3 DEF Read

LEMMA CatchUpKeepsGap ==
    ASSUME IInv, GapIsAttended, NEW r \in CatchUps, CatchUp(r)
    PROVE  GapIsAttended'
<1>1. (\E record : Put(r, record)) /\ UNCHANGED gapLow
  BY Zenon DEF CatchUp, Forward, NoForward, ReadTail, NoReadTail, ReplayRow,
               Replay, router
<1> QED
  BY <1>1, OtherReader DEF GapIsAttended

LEMMA ReconnectKeepsGap ==
    ASSUME IInv, GapIsAttended, Reconnect
    PROVE  GapIsAttended'
<1>1. /\ UNCHANGED gapLow
      /\ UNCHANGED reader \/ \E r \in CatchUps : \E record : Put(r, record)
  BY Zenon DEF Reconnect, Connect, Subscribe, ChaseRuns, RunEnded, router, CatchUps
<1> QED
  BY <1>1, OtherReader DEF GapIsAttended

LEMMA ResolveKeepsGap ==
    ASSUME IInv, GapIsAttended, Resolve
    PROVE  GapIsAttended'
<1>1. ScheduleGap(pump.last) \/ UNCHANGED <<gapLow, reader>>
  BY DEF Resolve
<1>2. [Idle EXCEPT !.at = "sleeping"].at = "sleeping"
  BY DEF Idle
<1> QED
  BY <1>1, <1>2, GapReader DEF ScheduleGap, GapIsAttended

\* A queued gap always has a task that chases it: nothing the readers, the pump,
\* a reconnect or a restart do leaves one behind.  (_schedule_gap, _drain_gap)
THEOREM GapsAreAttended == Spec => []GapIsAttended
<1>1. Init => GapIsAttended
  BY DEF Init, GapIsAttended
<1>2. IInv /\ GapIsAttended /\ [Next]_vars => GapIsAttended'
  <2> SUFFICES ASSUME IInv, GapIsAttended, [Next]_vars PROVE GapIsAttended'
    OBVIOUS
  <2>1. CASE Gateway
    BY <2>1 DEF Gateway, Dispatch, Answered, Cut, Write, router, GapIsAttended
  <2>2. CASE Restart
    BY <2>2 DEF Restart, GapIsAttended
  <2>3. CASE GapWakes
    BY <2>3 DEF GapWakes, GapIsAttended
  <2>4. CASE Take \/ Deliver
    BY <2>4 DEF Take, Deliver, router, GapIsAttended
  <2>5. CASE ReleaseError \/ \E s \in Row : Refetched(s)
    BY <2>5 DEF ReleaseError, Refetched, GapIsAttended
  <2>6. CASE UNCHANGED vars
    BY <2>6 DEF vars, router, GapIsAttended
  <2> QED
    BY <2>1, <2>2, <2>3, <2>4, <2>5, <2>6, ReconnectKeepsGap, ReadKeepsGap,
       CatchUpKeepsGap, ResolveKeepsGap DEF Next, Live
<1> QED
  BY <1>1, <1>2, InitIInv, NextIInv, PTL DEF Spec

-----------------------------------------------------------------------------
(* NoOldNews: without a run to chase, the router posts nothing from before  *)
(* it first saw the session.                                                *)

-----------------------------------------------------------------------------
(* The inductive invariant: without a run to chase, all that the router      *)
(* keeps, reads or posts lies at or after the first row it saw.              *)

Begun(s) == origin # 0 /\ origin <= s

\* No turn was ever sent, so no reconnect chases one.
NothingToChase == inflight = "none" /\ reader["recover"].at = "idle"

\* Events come in the order of their rows.
EventsInOrder ==
    /\ \A i \in 1 .. Len(queue) : queue[i] <= Last
    /\ \A i, j \in 1 .. Len(queue) : i < j => queue[i] < queue[j]
    /\ pump.at # "idle" =>
         pump.row <= Last /\ \A i \in 1 .. Len(queue) : pump.row < queue[i]

EventsBegun ==
    /\ origin # 0 => \A i \in 1 .. Len(queue) : origin <= queue[i]
    /\ pump.at # "idle" /\ origin # 0 => origin <= pump.row
    /\ pump.at = "delivering" => origin # 0
    /\ pump.at # "idle" /\ pump.last # 0 => Begun(pump.last)

MarksBegun ==
    /\ origin <= Last
    /\ cursor # 0 => Begun(cursor)
    /\ deltaCursor # 0 => cursor # 0 /\ Begun(deltaCursor)
    /\ gapLow # 0 => cursor # 0 /\ Begun(gapLow)
    /\ held # 0 => Begun(held)
    /\ \A s \in refetching \cup posted : Begun(s)

ReadsBegun(record) ==
    /\ record.at # "idle" => cursor # 0
    /\ record.at \in {"cursor", "deliver", "replay"} => origin <= record.from
    /\ record.at \in {"walk", "deliver"} => origin <= record.last
    /\ record.at = "tail" => record.last # 0

Recent ==
    /\ NothingToChase
    /\ EventsInOrder
    /\ EventsBegun
    /\ MarksBegun
    /\ \A r \in Readers : ReadsBegun(reader[r])

NewsInv == faults.spent["run"] = 0 => Recent

-----------------------------------------------------------------------------
(* Facts that several steps need *)

LEMMA Ranges ==
    ASSUME IInv
    PROVE  /\ Last \in Nat /\ cursor \in Nat /\ deltaCursor \in Nat
           /\ gapLow \in Nat /\ held \in Nat /\ origin \in Nat
           /\ refetching \subseteq Nat /\ posted \subseteq Nat
           /\ pump.row \in Nat /\ pump.last \in Nat
           /\ \A i \in 1 .. Len(queue) : queue[i] \in Nat \ {0}
           /\ Len(queue) \in Nat
           /\ \A r \in Readers : /\ reader[r] \in Reading
                                 /\ reader[r].last \in Nat
                                 /\ reader[r].from \in Nat
                                 /\ reader[r].to \in Nat
<1>1. Last \in Nat
  BY LastIsRow DEF IInv, Mark
<1>2. /\ cursor \in Nat /\ deltaCursor \in Nat /\ gapLow \in Nat
      /\ held \in Nat /\ origin \in Nat
      /\ refetching \subseteq Nat /\ posted \subseteq Nat
  BY DEF IInv, TypeOK, Row, Mark
<1>3. pump.row \in Nat /\ pump.last \in Nat
  BY DEF IInv, TypeOK, Handling, Mark
<1>4. /\ \A i \in 1 .. Len(queue) : queue[i] \in Nat \ {0}
      /\ Len(queue) \in Nat
  <2>1. queue \in Seq(Row) /\ Row \subseteq Nat \ {0}
    BY DEF IInv, TypeOK, Row
  <2>2. Len(queue) \in Nat /\ \A i \in 1 .. Len(queue) : queue[i] \in Row
    BY <2>1
  <2> QED
    BY <2>1, <2>2
<1>5. ASSUME NEW r \in Readers
      PROVE  /\ reader[r] \in Reading /\ reader[r].last \in Nat
             /\ reader[r].from \in Nat /\ reader[r].to \in Nat
  BY DEF IInv, TypeOK, Reading, Mark
<1> QED
  BY <1>1, <1>2, <1>3, <1>4, <1>5

\* A reader moves on, and the marks stay.
LEMMA MoveReader ==
    ASSUME IInv, Recent, NEW r \in Readers, NEW record, Put(r, record),
           ReadsBegun(record), r = "recover" => record.at = "idle",
           UNCHANGED <<cursor, origin>>
    PROVE  /\ (\A q \in Readers : ReadsBegun(reader[q]))'
           /\ reader'["recover"].at = "idle"
<1>1. reader \in [Readers -> Reading] /\ "recover" \in Readers
  BY DEF IInv, TypeOK, Readers, CatchUps
<1>2. reader' = [reader EXCEPT ![r] = record]
  BY DEF Put
<1>3. ASSUME NEW q \in Readers PROVE ReadsBegun(reader'[q])
  <2>1. reader'[q] = record \/ reader'[q] = reader[q]
    BY <1>1, <1>2
  <2> QED
    BY <2>1 DEF Recent
<1>4. reader'["recover"].at = "idle"
  BY <1>1, <1>2 DEF Recent, NothingToChase
<1> QED
  BY <1>3, <1>4 DEF ReadsBegun

LEMMA IdleBegun == ReadsBegun(Idle)
BY DEF ReadsBegun, Idle

\* A catch-up of a session that was followed starts from a mark.
LEMMA CatchUpBegun ==
    ASSUME IInv, Recent, cursor # 0 \/ deltaCursor # 0, NEW force \in BOOLEAN
    PROVE  ReadsBegun(StartCatchUp(force)) /\ ReadsBegun(FallBack(force))
<1>1. cursor # 0 /\ origin <= cursor /\ (deltaCursor # 0 => origin <= deltaCursor)
  BY DEF Recent, MarksBegun, Begun
<1>2. ReadsBegun(FallBack(force))
  BY <1>1 DEF FallBack, ReadsBegun, Idle
<1> QED
  BY <1>1, <1>2 DEF StartCatchUp, ReadsBegun, Idle

\* What a reader offers next lies in the range it was given.
LEMMA OfferBegun ==
    ASSUME IInv, Recent, cursor # 0, NEW base \in Reading, NEW at \in {"deliver", "replay"},
           NEW lo \in Nat, NEW hi \in Nat, origin <= lo, Said(lo, hi) # {},
           at = "deliver" => origin <= base.last
    PROVE  ReadsBegun([base EXCEPT !.at = at, !.from = NextSaid(lo, hi), !.to = hi])
<1>1. NextSaid(lo, hi) \in lo .. hi
  BY NextSaidIsRow DEF IInv
<1>2. origin <= NextSaid(lo, hi)
  BY <1>1, Ranges
<1> QED
  BY <1>2 DEF ReadsBegun, Reading

LEMMA WalkedBegun ==
    ASSUME IInv, Recent, NEW r \in Readers, reader[r].at # "idle",
           reader[r].last # 0
    PROVE  ReadsBegun(Walked(r))
BY DEF Recent, ReadsBegun, Walked, Idle

-----------------------------------------------------------------------------
(* The events *)

LEMMA WriteBegun ==
    ASSUME IInv, Recent, NEW kind \in Kinds, Write(kind)
    PROVE  Recent'
<1>1. /\ Last' = Last + 1
      /\ UNCHANGED <<inflight, cursor, deltaCursor, gapLow, held, refetching,
                     pump, reader, posted, origin>>
      /\ queue' = queue \/ queue' = Append(queue, Last + 1)
  BY DEF Write, Last, router, IInv, TypeOK
<1>2. EventsInOrder' /\ EventsBegun'
  <2>1. CASE queue' = queue
    BY <1>1, <2>1, Ranges DEF Recent, EventsInOrder, EventsBegun, Begun
  <2>2. CASE queue' = Append(queue, Last + 1)
    <3>1. /\ Len(queue') = Len(queue) + 1 /\ queue'[Len(queue) + 1] = Last + 1
          /\ \A i \in 1 .. Len(queue) : queue'[i] = queue[i]
      BY <2>2, Ranges DEF IInv, TypeOK
    <3>2. /\ Len(queue) \in Nat /\ Last \in Nat /\ pump.row \in Nat /\ origin \in Nat
          /\ \A i \in 1 .. Len(queue) : queue[i] \in Nat
      BY Ranges
    <3>3. ASSUME NEW i \in 1 .. Len(queue')
          PROVE  i \in 1 .. Len(queue) \/ (i = Len(queue) + 1 /\ queue'[i] = Last + 1)
      BY <3>1, <3>2
    <3>4. EventsInOrder'
      <4>1. \A i \in 1 .. Len(queue) : queue'[i] <= Last
        BY <3>1 DEF Recent, EventsInOrder
      <4>2. \A i \in 1 .. Len(queue') : queue'[i] <= Last'
        BY <1>1, <3>2, <3>3, <3>1, <4>1
      <4>3. ASSUME NEW i \in 1 .. Len(queue'), NEW j \in 1 .. Len(queue'), i < j
            PROVE  queue'[i] < queue'[j]
        <5>1. i \in 1 .. Len(queue)
          BY <3>1, <3>2, <4>3
        <5>2. CASE j \in 1 .. Len(queue)
          BY <3>1, <4>3, <5>1, <5>2 DEF Recent, EventsInOrder
        <5>3. CASE queue'[j] = Last + 1
          BY <3>1, <3>2, <4>1, <5>1, <5>3
        <5> QED
          BY <3>3, <5>2, <5>3
      <4>4. pump.at # "idle" =>
              pump.row <= Last' /\ \A i \in 1 .. Len(queue') : pump.row < queue'[i]
        BY <1>1, <3>1, <3>2, <3>3 DEF Recent, EventsInOrder
      <4> QED
        BY <1>1, <4>2, <4>3, <4>4 DEF EventsInOrder
    <3>5. EventsBegun'
      <4>1. origin # 0 => \A i \in 1 .. Len(queue') : origin <= queue'[i]
        BY <3>1, <3>2, <3>3 DEF Recent, EventsBegun, MarksBegun
      <4> QED
        BY <1>1, <4>1 DEF Recent, EventsBegun, Begun
    <3> QED
      BY <3>4, <3>5
  <2> QED
    BY <1>1, <2>1, <2>2
<1>3. MarksBegun'
  BY <1>1, Ranges DEF Recent, MarksBegun, Begun
<1> QED
  BY <1>1, <1>2, <1>3 DEF Recent, NothingToChase, ReadsBegun

LEMMA TakeBegun ==
    ASSUME IInv, Recent, Take
    PROVE  Recent'
<1>1. /\ pump' = [at |-> "resolving", row |-> Head(queue), last |-> cursor]
      /\ queue' = Tail(queue) /\ queue # <<>>
      /\ UNCHANGED <<gateway, router, reader, posted, history, faults>>
  BY DEF Take
<1>2. /\ Len(queue') = Len(queue) - 1 /\ pump'.row = queue[1] /\ 1 \in 1 .. Len(queue)
      /\ \A i \in 1 .. Len(queue') : queue'[i] = queue[i + 1] /\ i + 1 \in 1 .. Len(queue)
  BY <1>1, Ranges DEF IInv, TypeOK
<1>3. Last' = Last
  BY <1>1 DEF Last, gateway
<1>4. EventsInOrder'
  BY <1>1, <1>2, <1>3, Ranges DEF Recent, EventsInOrder
<1>5. EventsBegun'
  BY <1>1, <1>2, Ranges DEF Recent, EventsBegun, MarksBegun, Begun, history
<1> QED
  BY <1>1, <1>3, <1>4, <1>5 DEF Recent, NothingToChase, MarksBegun, ReadsBegun, Begun,
                                gateway, router, history

\* The first row that is resolved is the origin, and all that waits is later.
LEMMA ResolveBegun ==
    ASSUME IInv, Recent, Resolve
    PROVE  Recent'
<1> DEFINE s == pump.row
<1>1. s \in Nat \ {0} /\ s <= Last /\ pump.at = "resolving"
  BY Ranges DEF IInv, OnRows, Row, Recent, EventsInOrder, Resolve
<1>2. /\ cursor' = Upper(cursor, s)
      /\ origin' = IF origin = 0 THEN cursor' ELSE origin
      /\ UNCHANGED <<gateway, queue, deltaCursor, posted>>
      /\ Last' = Last
  BY DEF Resolve, RecordSeq, gateway, Last
<1>3. /\ cursor' \in Nat \ {0} /\ s <= cursor' /\ cursor <= cursor'
      /\ origin' \in Nat \ {0} /\ origin' <= s
      /\ origin # 0 => origin' = origin
      /\ origin = 0 => /\ cursor = 0 /\ deltaCursor = 0 /\ gapLow = 0 /\ held = 0
                       /\ refetching \cup posted = {} /\ origin' = s
  BY <1>1, <1>2, Ranges DEF Upper, Recent, MarksBegun, EventsBegun, Begun
<1>4. /\ pump' = [pump EXCEPT !.at = "delivering"] \/ pump' = Resting
      /\ held' \in {s, 0, held}
      /\ refetching' \subseteq refetching \cup {s}
  BY DEF Resolve
<1>5. pump'.at # "idle" => pump'.row = s /\ pump'.last = pump.last
  BY <1>4 DEF Resting, IInv, TypeOK, Handling
<1>6. pump.last # 0 => origin # 0 /\ origin <= pump.last
  BY <1>1 DEF Recent, EventsBegun, Begun
<1>7. EventsInOrder'
  BY <1>1, <1>2, <1>5, Ranges DEF Recent, EventsInOrder
<1>8. EventsBegun'
  <2>1. \A i \in 1 .. Len(queue) : origin' <= queue[i]
    BY <1>1, <1>3, Ranges DEF Recent, EventsInOrder
  <2> QED
    BY <1>2, <1>3, <1>5, <1>6, <2>1 DEF EventsBegun, Begun
<1>9. /\ gapLow' # 0 => origin' <= gapLow'
      /\ (\A q \in Readers : ReadsBegun(reader[q]))'
      /\ reader'["recover"].at = "idle"
  <2>1. ASSUME NEW q \in Readers
        PROVE  /\ reader[q].at # "idle" => cursor' # 0
               /\ reader[q].at \in {"cursor", "deliver", "replay"} => origin' <= reader[q].from
               /\ reader[q].at \in {"walk", "deliver"} => origin' <= reader[q].last
               /\ reader[q].at = "tail" => reader[q].last # 0
    BY <1>3 DEF Recent, ReadsBegun
  <2>2. reader["recover"].at = "idle" /\ reader \in [Readers -> Reading]
    BY DEF Recent, NothingToChase, IInv, TypeOK
  <2>3. CASE UNCHANGED <<gapLow, reader>>
    BY <1>3, <2>1, <2>2, <2>3 DEF ReadsBegun, Recent, MarksBegun, Begun
  <2>4. CASE pump.last # 0 /\ ScheduleGap(pump.last)
    <3>1. gapLow' = (IF gapLow = 0 THEN pump.last ELSE Lower(gapLow, pump.last))
      BY <2>4 DEF ScheduleGap
    <3>2. gapLow' # 0 => origin' <= gapLow'
      BY <1>3, <1>6, <2>4, <3>1 DEF Lower, Recent, MarksBegun, Begun
    <3>3. \/ reader' = reader
          \/ reader' = [reader EXCEPT !["gap"] = [Idle EXCEPT !.at = "sleeping"]]
      BY <2>4 DEF ScheduleGap, Put
    <3>4. ASSUME NEW q \in Readers
          PROVE  reader'[q] = reader[q]
                   \/ reader'[q] = [Idle EXCEPT !.at = "sleeping"]
      BY <2>2, <3>3
    <3>5. [Idle EXCEPT !.at = "sleeping"].at = "sleeping"
      BY DEF Idle
    <3>6. reader'["recover"].at = "idle"
      BY <2>2, <3>3 DEF Readers, CatchUps
    <3> QED
      BY <1>3, <2>1, <3>2, <3>4, <3>5, <3>6 DEF ReadsBegun
  <2> QED
    BY <2>3, <2>4 DEF Resolve
<1>10. MarksBegun'
  BY <1>1, <1>2, <1>3, <1>4, <1>9, Ranges DEF Recent, MarksBegun, Begun
<1> QED
  BY <1>2, <1>7, <1>8, <1>9, <1>10 DEF Recent, NothingToChase, gateway

LEMMA PostBegun ==
    ASSUME IInv, Recent, NEW s, Begun(s), Post(s)
    PROVE  \A t \in posted' : Begun(t)
BY DEF Post, Recent, MarksBegun

LEMMA DeliverBegun ==
    ASSUME IInv, Recent, Deliver
    PROVE  Recent'
<1>1. Begun(pump.row)
  BY DEF Deliver, Recent, EventsBegun, Begun
<1>2. \A t \in posted' : Begun(t)
  BY <1>1, PostBegun DEF Deliver
<1>3. /\ pump'.at = "idle"
      /\ UNCHANGED <<rows, inflight, queue, cursor, deltaCursor, gapLow, held,
                     refetching, reader, origin>>
  BY DEF Deliver, Resting, gateway, router, history
<1> QED
  BY <1>2, <1>3 DEF Recent, NothingToChase, EventsInOrder, EventsBegun, MarksBegun,
                    ReadsBegun, Begun, Last

LEMMA LateBegun ==
    ASSUME IInv, Recent, ReleaseError \/ \E s \in Row : Refetched(s)
    PROVE  Recent'
<1>1. /\ \A t \in posted' : Begun(t)
      /\ held' \in {0, held} /\ refetching' \subseteq refetching
      /\ UNCHANGED <<rows, inflight, queue, cursor, deltaCursor, gapLow, pump,
                     reader, origin>>
  <2>1. CASE ReleaseError
    BY <2>1, PostBegun DEF ReleaseError, Recent, MarksBegun, gateway, history
  <2>2. ASSUME NEW s \in Row, Refetched(s)
        PROVE  /\ \A t \in posted' : Begun(t)
               /\ held' \in {0, held} /\ refetching' \subseteq refetching
               /\ UNCHANGED <<rows, inflight, queue, cursor, deltaCursor, gapLow,
                              pump, reader, origin>>
    BY <2>2, PostBegun DEF Refetched, Recent, MarksBegun, gateway, history
  <2> QED
    BY <2>1, <2>2
<1> QED
  BY <1>1 DEF Recent, NothingToChase, EventsInOrder, EventsBegun, MarksBegun,
              ReadsBegun, Begun, Last

-----------------------------------------------------------------------------
(* The readers *)

\* What a reader's step leaves alone, and what remains to be shown of it.
ReaderStepTypes ==
    /\ UNCHANGED <<rows, inflight, queue, pump, origin, held, refetching>>
    /\ cursor # 0 => cursor' # 0 /\ origin <= cursor'
    /\ cursor = 0 => cursor' = 0

LEMMA ReaderStep ==
    ASSUME IInv, Recent, ReaderStepTypes,
           deltaCursor' \in {0, deltaCursor, Last}, deltaCursor' = Last => cursor # 0 \/ Last = 0,
           gapLow' \in {0, gapLow},
           \A t \in posted' : Begun(t),
           (\A q \in Readers : ReadsBegun(reader[q]))',
           reader'["recover"].at = "idle"
    PROVE  Recent'
<1>1. Last' = Last
  BY DEF ReaderStepTypes, Last
<1>2. MarksBegun'
  BY <1>1, Ranges DEF ReaderStepTypes, Recent, MarksBegun, Begun
<1> QED
  BY <1>1, <1>2 DEF ReaderStepTypes, Recent, NothingToChase, EventsInOrder,
                    EventsBegun, Begun

LEMMA ReadBegun ==
    ASSUME IInv, Recent, NEW r \in Readers, Read(r)
    PROVE  Recent'
<1>1. reader[r].at # "idle"
  BY DEF Read, Page, NoPage, DeliverRow
<1>2. cursor # 0 /\ origin # 0 /\ origin \in Nat \ {0} /\ r # "recover"
  BY <1>1, Ranges DEF Recent, NothingToChase, ReadsBegun, MarksBegun, Begun
<1>3. UNCHANGED <<rows, inflight, queue, pump, cursor, deltaCursor, gapLow, held,
                  refetching, origin>>
  BY DEF Read, Page, NoPage, DeliverRow, gateway, router, history
<1>4. ASSUME reader[r].at = "walk", NEW from \in Mark, NEW to \in Mark,
             StopWalk(r, from, to)
      PROVE  \E record : Put(r, record) /\ ReadsBegun(record)
  <2> DEFINE lo == Upper(from, reader[r].last + 1)
  <2>1. origin <= reader[r].last
    BY <1>4 DEF Recent, ReadsBegun
  <2>2. lo \in Nat /\ to \in Nat /\ origin <= lo
    <3>1. reader[r].last \in Nat
      BY Ranges
    <3>2. from \in Nat /\ to \in Nat
      BY DEF Mark
    <3> QED
      BY <1>2, <2>1, <3>1, <3>2 DEF Upper
  <2>3. CASE from = 0 \/ Said(lo, to) = {}
    <3>1. Put(r, Walked(r))
      BY <1>4, <2>3 DEF StopWalk
    <3>2. ReadsBegun(Walked(r))
      BY <1>1, <1>2, <2>1, Ranges, WalkedBegun
    <3> QED
      BY <3>1, <3>2
  <2>4. CASE ~(from = 0 \/ Said(lo, to) = {})
    <3>1. Put(r, [reader[r] EXCEPT !.at = "deliver", !.from = NextSaid(lo, to),
                                   !.to = to])
      BY <1>4, <2>4 DEF StopWalk
    <3>2. reader[r] \in Reading
      BY Ranges
    <3> HIDE DEF lo
    <3>3. ReadsBegun([reader[r] EXCEPT !.at = "deliver", !.from = NextSaid(lo, to),
                                       !.to = to])
      BY <1>2, <2>1, <2>2, <2>4, <3>2, OfferBegun
    <3> QED
      BY <3>1, <3>3
  <2> QED
    BY <2>3, <2>4
<1>5. (\E record : Put(r, record) /\ ReadsBegun(record)) /\ \A t \in posted' : Begun(t)
  <2>1. CASE Page(r)
    <3> DEFINE walk == reader[r]
               end == Upper(Last, walk.got) - walk.got
               len == Lower(end, Lower(PageSize, MaxFetch - walk.got))
               low == end + 1 - len
               from == IF len = 0 THEN walk.from
                       ELSE IF walk.from = 0 THEN low ELSE Lower(walk.from, low)
               to == Upper(walk.to, end)
               got == walk.got + len
               on == [walk EXCEPT !.from = from, !.to = to, !.got = got]
    <3>1. /\ reader[r].at = "walk" /\ posted' = posted
          /\ StopWalk(r, from, to) \/ Put(r, on)
      BY <2>1 DEF Page
    <3>2. from \in Mark /\ to \in Mark
      BY PageBounds
    <3> HIDE DEF from, to, got
    <3>3. on.at = "walk" /\ on.last = reader[r].last
      BY <3>1, Ranges DEF Reading
    <3>4. ReadsBegun(on)
      BY <1>2, <3>1, <3>3 DEF Recent, ReadsBegun
    <3>5. \E record : Put(r, record) /\ ReadsBegun(record)
      BY <1>4, <3>1, <3>2, <3>4
    <3> QED
      BY <3>1, <3>5 DEF Recent, MarksBegun
  <2>2. CASE NoPage(r)
    <3>1. /\ reader[r].at = "walk" /\ StopWalk(r, reader[r].from, reader[r].to)
          /\ posted' = posted
      BY <2>2 DEF NoPage
    <3>2. reader[r].from \in Mark /\ reader[r].to \in Mark
      BY Ranges DEF Reading
    <3> QED
      BY <1>4, <3>1, <3>2 DEF Recent, MarksBegun
  <2>3. CASE DeliverRow(r)
    <3> DEFINE next == NextSaid(reader[r].from + 1, reader[r].to)
               on == [reader[r] EXCEPT !.from = next]
    <3>1. /\ reader[r].at = "deliver" /\ Post(reader[r].from)
          /\ Put(r, IF next > reader[r].to THEN Walked(r) ELSE on)
      BY <2>3 DEF DeliverRow
    <3>2. origin <= reader[r].from /\ reader[r].from + 1 \in Nat /\ reader[r].to \in Nat
      BY <3>1, Ranges DEF Recent, ReadsBegun
    <3>3. \A t \in posted' : Begun(t)
      BY <1>2, <3>1, <3>2, PostBegun DEF Begun
    <3>4. CASE ~(next > reader[r].to)
      <4>1. next \in reader[r].from + 1 .. reader[r].to
        <5>1. Said(reader[r].from + 1, reader[r].to) # {}
          <6>1. CASE Said(reader[r].from + 1, reader[r].to) = {}
            <7>1. next = reader[r].to + 1
              BY <6>1 DEF NextSaid
            <7> QED
              BY <3>2, <3>4, <7>1
          <6> QED
            BY <6>1
        <5> QED
          BY <3>2, <5>1, NextSaidIsRow DEF IInv
      <4> HIDE DEF next
      <4>2. origin <= next
        <5>1. origin \in Nat /\ next \in Nat /\ reader[r].from \in Nat
          <6>1. reader[r].from \in Nat
            BY Ranges
          <6> QED
            BY <1>2, <3>2, <4>1, <6>1
        <5> QED
          BY <3>2, <4>1, <5>1
      <4>3. on.at = "deliver" /\ on.from = next /\ on.last = reader[r].last
        BY <3>1, Ranges DEF Reading
      <4>4. ReadsBegun(on)
        BY <1>2, <3>1, <4>2, <4>3 DEF Recent, ReadsBegun
      <4> QED
        BY <3>1, <3>3, <3>4, <4>4
    <3>5. CASE next > reader[r].to
      <4>1. Put(r, Walked(r))
        BY <3>1, <3>5
      <4>2. origin <= reader[r].last
        BY <3>1 DEF Recent, ReadsBegun
      <4>3. reader[r].last # 0
        BY <1>2, <4>2
      <4>4. ReadsBegun(Walked(r))
        BY <1>1, <4>3, WalkedBegun
      <4> QED
        BY <3>3, <4>1, <4>4
    <3> QED
      BY <3>4, <3>5
  <2> QED
    BY <2>1, <2>2, <2>3 DEF Read
<1>6. (\A q \in Readers : ReadsBegun(reader[q]))' /\ reader'["recover"].at = "idle"
  BY <1>2, <1>3, <1>5, MoveReader
<1> QED
  BY <1>2, <1>3, <1>5, <1>6, ReaderStep DEF ReaderStepTypes, Recent, MarksBegun, Begun

\* A replay starts at a mark, or goes on from where it is.
LEMMA ReplayBegun ==
    ASSUME IInv, Recent, NEW r \in CatchUps, r # "recover", cursor # 0,
           NEW lo \in Nat, NEW hi \in Nat, origin <= lo, Replay(r, lo, hi)
    PROVE  /\ origin' = origin /\ cursor' # 0 /\ origin <= cursor'
           /\ (\A q \in Readers : ReadsBegun(reader[q]))'
           /\ reader'["recover"].at = "idle"
<1>1. origin # 0 /\ origin <= cursor
  BY DEF Recent, MarksBegun, Begun
<1>2. r \in Readers /\ reader \in [Readers -> Reading] /\ "recover" \in Readers
  BY DEF IInv, TypeOK, Readers, CatchUps
<1>3. Idle \in Reading
  BY IdleGood DEF Good
<1>4. PICK record : Put(r, record) /\ ReadsBegun(record)
  <2>1. CASE Said(lo, hi) = {}
    BY <2>1, IdleBegun DEF Replay
  <2>2. CASE Said(lo, hi) # {}
    BY <1>3, <2>2, OfferBegun DEF Replay
  <2> QED
    BY <2>1, <2>2
<1>5. origin' = origin /\ cursor' # 0 /\ origin <= cursor'
  <2>1. CASE UNCHANGED <<cursor, origin>>
    BY <1>1, <2>1
  <2>2. CASE Said(lo, hi) # {} /\ RecordSeq(NextSaid(lo, hi))
    <3>1. NextSaid(lo, hi) \in Nat
      BY <2>2, NextSaidIsRow DEF IInv, Row
    <3> QED
      BY <1>1, <2>2, <3>1, Ranges DEF RecordSeq, Upper
  <2> QED
    BY <2>1, <2>2 DEF Replay
<1>6. ASSUME NEW q \in Readers
      PROVE  reader'[q] = record \/ reader'[q] = reader[q]
  BY <1>2, <1>4 DEF Put
<1>7. ASSUME NEW q \in Readers PROVE ReadsBegun(reader'[q])
  BY <1>4, <1>6, <1>7 DEF Recent
<1>8. reader'["recover"].at = "idle"
  BY <1>2, <1>4 DEF Put, Recent, NothingToChase
<1> QED
  BY <1>5, <1>7, <1>8 DEF ReadsBegun

LEMMA CatchUpStepBegun ==
    ASSUME IInv, Recent, NEW r \in CatchUps, CatchUp(r)
    PROVE  Recent'
<1>1. reader[r].at # "idle" /\ r \in Readers
  BY DEF CatchUp, Forward, NoForward, ReadTail, NoReadTail, ReplayRow, Readers
<1>2. /\ cursor # 0 /\ origin # 0 /\ origin <= cursor /\ r # "recover"
      /\ ReadsBegun(reader[r])
  BY <1>1 DEF Recent, NothingToChase, ReadsBegun, MarksBegun, Begun
<1>3. /\ Last \in Nat /\ origin \in Nat /\ reader[r].from \in Nat /\ reader[r].to \in Nat
      /\ reader[r].force \in BOOLEAN
  BY <1>1, Ranges DEF Reading
<1>4. UNCHANGED <<rows, inflight, queue, pump, gapLow, held, refetching>>
  BY DEF CatchUp, Forward, NoForward, ReadTail, NoReadTail, ReplayRow, gateway, router
<1>5. \A t \in posted' : Begun(t)
  <2>1. CASE UNCHANGED posted
    BY <2>1 DEF Recent, MarksBegun
  <2>2. CASE ReplayRow(r)
    <3>1. Begun(reader[r].from) /\ Post(reader[r].from)
      BY <1>2, <2>2 DEF ReplayRow, ReadsBegun, Begun
    <3> QED
      BY <3>1, PostBegun
  <2> QED
    BY <2>1, <2>2 DEF CatchUp, Forward, NoForward, ReadTail, NoReadTail
<1>6. /\ origin' = origin /\ cursor' # 0 /\ origin <= cursor'
      /\ deltaCursor' = deltaCursor \/ deltaCursor' = Last
      /\ (\A q \in Readers : ReadsBegun(reader[q]))'
      /\ reader'["recover"].at = "idle"
  <2>1. CASE Forward(r)
    <3>1. origin <= reader[r].from + 1 /\ reader[r].from + 1 \in Nat
      BY <1>2, <1>3, <2>1 DEF Forward, ReadsBegun
    <3>2. Replay(r, reader[r].from + 1, Last) /\ deltaCursor' = Last
      BY <2>1 DEF Forward
    <3> QED
      BY <1>2, <1>3, <3>1, <3>2, ReplayBegun
  <2>2. CASE NoForward(r)
    <3>1. ReadsBegun(FallBack(TRUE)) /\ ReadsBegun(FallBack(reader[r].force))
      BY <1>2, <1>3, CatchUpBegun
    <3>2. /\ UNCHANGED <<cursor, deltaCursor, origin>>
          /\ Put(r, FallBack(TRUE)) \/ Put(r, FallBack(reader[r].force))
      BY <2>2 DEF NoForward, router, history
    <3> QED
      BY <1>1, <1>2, <3>1, <3>2, MoveReader
  <2>3. CASE ReadTail(r)
    <3>1. /\ UNCHANGED <<cursor, origin>> /\ deltaCursor' = Last
          /\ Put(r, Idle)
      BY <1>2, <2>3 DEF ReadTail, ReadsBegun
    <3> QED
      BY <1>1, <1>2, <3>1, IdleBegun, MoveReader
  <2>4. CASE NoReadTail(r)
    <3>1. UNCHANGED <<cursor, deltaCursor, origin>> /\ Put(r, Idle)
      BY <2>4 DEF NoReadTail, router, history
    <3> QED
      BY <1>1, <1>2, <3>1, IdleBegun, MoveReader
  <2>5. CASE ReplayRow(r)
    <3>1. origin <= reader[r].from + 1 /\ reader[r].from + 1 \in Nat
      BY <1>2, <1>3, <2>5 DEF ReplayRow, ReadsBegun
    <3>2. Replay(r, reader[r].from + 1, reader[r].to) /\ UNCHANGED deltaCursor
      BY <2>5 DEF ReplayRow
    <3> QED
      BY <1>2, <1>3, <3>1, <3>2, ReplayBegun
  <2> QED
    BY <2>1, <2>2, <2>3, <2>4, <2>5 DEF CatchUp
<1> QED
  BY <1>2, <1>4, <1>5, <1>6, ReaderStep DEF ReaderStepTypes

LEMMA GapWakesBegun ==
    ASSUME IInv, Recent, GapWakes
    PROVE  Recent'
<1>1. /\ gapLow' = 0
      /\ UNCHANGED <<rows, inflight, queue, pump, cursor, deltaCursor, held,
                     refetching, posted, origin>>
  BY DEF GapWakes, gateway, history
<1>2. ReadsBegun([Idle EXCEPT !.at = "walk", !.last = gapLow]) \/ gapLow = 0
  BY DEF ReadsBegun, Idle, Recent, MarksBegun, Begun
<1>3. (\A q \in Readers : ReadsBegun(reader[q]))' /\ reader'["recover"].at = "idle"
  BY <1>1, <1>2, IdleBegun, MoveReader DEF GapWakes, Readers
<1> QED
  BY <1>1, <1>3, ReaderStep DEF ReaderStepTypes, Recent, MarksBegun, Begun

-----------------------------------------------------------------------------
(* The other steps, and the theorem *)

LEMMA ReconnectBegun ==
    ASSUME IInv, Recent, Reconnect
    PROVE  Recent'
<1>1. UNCHANGED <<rows, inflight, queue, pump, cursor, deltaCursor, gapLow, held,
                  refetching, posted, origin>>
  BY DEF Reconnect, Connect, Subscribe, ChaseRuns, RunEnded, gateway, router, history
<1>2. \/ UNCHANGED reader
      \/ /\ cursor # 0 \/ deltaCursor # 0
         /\ Put("resync", StartCatchUp(FALSE))
  BY DEF Reconnect, Connect, Subscribe, ChaseRuns, RunEnded, Recent, NothingToChase
<1>3. (\A q \in Readers : ReadsBegun(reader[q]))' /\ reader'["recover"].at = "idle"
  <2>1. CASE UNCHANGED reader
    BY <1>1, <2>1 DEF Recent, NothingToChase, ReadsBegun
  <2>2. CASE /\ cursor # 0 \/ deltaCursor # 0
             /\ Put("resync", StartCatchUp(FALSE))
    <3>1. ReadsBegun(StartCatchUp(FALSE))
      BY <2>2, CatchUpBegun
    <3> QED
      BY <1>1, <2>2, <3>1, MoveReader DEF Readers, CatchUps
  <2> QED
    BY <1>2, <2>1, <2>2
<1> QED
  BY <1>1, <1>3, ReaderStep DEF ReaderStepTypes, Recent, MarksBegun, Begun

LEMMA RestartBegun ==
    ASSUME IInv, Recent, Restart
    PROVE  Recent'
<1>1. /\ inflight' = "none" /\ queue' = <<>> /\ pump' = Resting
      /\ cursor' = 0 /\ deltaCursor' = 0 /\ gapLow' = 0 /\ held' = 0
      /\ refetching' = {} /\ UNCHANGED <<rows, posted, origin>>
  BY DEF Restart, history
<1>2. ASSUME NEW q \in Readers PROVE reader'[q] = Idle
  BY DEF Restart
<1>3. EventsInOrder' /\ EventsBegun'
  BY <1>1 DEF EventsInOrder, EventsBegun, Resting
<1>4. MarksBegun'
  BY <1>1 DEF Recent, MarksBegun, Begun, Last
<1>5. (\A q \in Readers : ReadsBegun(reader[q]))' /\ reader'["recover"].at = "idle"
  BY <1>2 DEF ReadsBegun, Idle, Readers, CatchUps
<1> QED
  BY <1>1, <1>3, <1>4, <1>5 DEF Recent, NothingToChase

LEMMA SocketBegun ==
    ASSUME IInv, Recent, Answered \/ Cut
    PROVE  Recent'
<1>1. UNCHANGED <<rows, queue, router, pump, reader, posted, history>> /\ inflight' = "none"
  BY DEF Answered, Cut, Recent, NothingToChase
<1> QED
  BY <1>1 DEF Recent, NothingToChase, EventsInOrder, EventsBegun, MarksBegun,
              ReadsBegun, Begun, Last, router, history

LEMMA InitNews == Init => NewsInv
<1> SUFFICES ASSUME Init PROVE Recent
  BY DEF NewsInv
<1>1. Len(rows) >= 0
  BY DEF Init
<1>2. \A r \in Readers : reader[r] = Idle
  BY DEF Init
<1>3. "recover" \in Readers /\ Idle.at = "idle"
  BY DEF Readers, CatchUps, Idle
<1>4. EventsInOrder /\ EventsBegun /\ MarksBegun
  BY <1>1 DEF Init, EventsInOrder, EventsBegun, MarksBegun, Resting, Last
<1> QED
  BY <1>2, <1>3, <1>4, IdleBegun DEF Init, Recent, NothingToChase

\* No step takes back that a fault was spent.
LEMMA FaultsAreCounted ==
    ASSUME IInv, [Next]_vars, NEW f \in Faults, faults'.spent[f] = 0
    PROVE  faults.spent[f] = 0 /\ ~Spend(f)
<1>1. faults \in [budget : Budgets, spent : [Faults -> Nat]]
  BY DEF IInv, TypeOK
<1>2. ASSUME NEW g \in Faults, Spend(g)
      PROVE  faults.spent[f] = 0 /\ f # g
  <2>1. faults'.spent = [faults.spent EXCEPT ![g] = @ + 1]
    BY <1>1, <1>2 DEF Spend
  <2>2. faults.spent[f] \in Nat
    BY <1>1
  <2> QED
    BY <1>1, <2>1, <2>2
<1>3. ~Spend(f)
  BY <1>1, <1>2
<1>4. UNCHANGED faults \/ \E g \in Faults : Spend(g)
  BY Zenon DEF Next, Gateway, Dispatch, Answered, Cut, Write, Restart, Reconnect, Connect,
         Subscribe, ChaseRuns, RunEnded, Read, Page, NoPage, DeliverRow, CatchUp,
         Forward, NoForward, ReadTail, NoReadTail, ReplayRow, GapWakes, Live,
         Take, Resolve, Deliver, Refetched, ReleaseError, CallFails, Faults, vars
<1> QED
  BY <1>2, <1>3, <1>4

LEMMA NextNews == IInv /\ NewsInv /\ [Next]_vars => NewsInv'
<1> SUFFICES ASSUME IInv, NewsInv, [Next]_vars, faults'.spent["run"] = 0
             PROVE  Recent'
  BY DEF NewsInv
<1>1. Recent /\ ~Dispatch
  BY FaultsAreCounted DEF NewsInv, Faults, Dispatch
<1>2. CASE Gateway \/ Restart
  BY <1>1, <1>2, WriteBegun, SocketBegun, RestartBegun DEF Gateway
<1>3. CASE Reconnect
  BY <1>1, <1>3, ReconnectBegun
<1>4. ASSUME NEW r \in Readers, Read(r) PROVE Recent'
  BY <1>1, <1>4, ReadBegun
<1>5. ASSUME NEW r \in CatchUps, CatchUp(r) PROVE Recent'
  BY <1>1, <1>5, CatchUpStepBegun
<1>6. CASE GapWakes
  BY <1>1, <1>6, GapWakesBegun
<1>7. CASE Live
  BY <1>1, <1>7, TakeBegun, ResolveBegun, DeliverBegun DEF Live
<1>8. CASE ReleaseError \/ \E s \in Row : Refetched(s)
  BY <1>1, <1>8, LateBegun
<1>9. CASE UNCHANGED vars
  BY <1>1, <1>9 DEF Recent, NothingToChase, EventsInOrder, EventsBegun, MarksBegun,
                    ReadsBegun, Begun, Last, vars, gateway, router, history
<1> QED
  BY <1>2, <1>3, <1>4, <1>5, <1>6, <1>7, <1>8, <1>9 DEF Next

\* As long as no turn was sent, nothing is posted from before the first row the
\* router saw, whatever is dropped, cut off or restarted.  (_backfill, catch_up)
THEOREM NewsOnly == Spec => []NoOldNews
<1>1. Spec => [](IInv /\ NewsInv)
  BY InitIInv, NextIInv, InitNews, NextNews, PTL DEF Spec
<1>2. NewsInv => NoOldNews
  BY DEF NewsInv, Recent, MarksBegun, Begun, NoOldNews
<1> QED
  BY <1>1, <1>2, PTL

-----------------------------------------------------------------------------
(* NoSilentLoss: without a run to chase and without a restart, what the      *)
(* assistant says stays in somebody's hands or in the router's sight until   *)
(* it is posted or given up.                                                 *)

-----------------------------------------------------------------------------
(* The inductive invariant: every row that is owed is covered by something  *)
(* the router knows, and the marks it covers rows with are sound.           *)

\* A reader in the state `record` is on its way to row s.
Toward(record, s) ==
    \/ /\ record.at = "walk" /\ record.last < s
       /\ record.got = 0 \/ s <= record.to
    \/ record.at \in {"deliver", "replay"} /\ s \in record.from .. record.to

\* The next event shows that s is missing, or the next read forward brings it.
Ahead(s) == cursor < s /\ deltaCursor < s

\* The live road has row s, or needs it no more.
OnTheRoad(s) ==
    \/ CalledOff(s)
    \/ \E i \in 1 .. Len(queue) : queue[i] = s
    \/ pump.at # "idle" /\ pump.row = s
    \/ s \in refetching \/ s = held

Covered(s) ==
    \/ OnTheRoad(s) \/ \E r \in Readers : Toward(reader[r], s)
    \/ gapLow # 0 /\ gapLow < s
    \/ s \in gaveUp \/ s \in overlooked \/ Ahead(s)

Accounted == \A s \in Owed : Covered(s)

MarksInRange == cursor <= Last /\ deltaCursor <= Last

DueInRange == (\A s \in due : s <= Last) /\ (cursor = 0 => due = {})

\* The assistant's next message is still to come: it calls the error off.
ErrorHeld ==
    held # 0 =>
        /\ held <= Last /\ rows[held] = "error"
        /\ \A i \in 1 .. Len(queue) : held < queue[i]
        /\ pump.at = "resolving" => held < pump.row

\* The mark the pump compares its row with hides no row.
Resolving ==
    pump.at = "resolving" =>
        /\ pump.last <= cursor
        /\ pump.last = 0 => \A s \in due : pump.row < s

\* A read starts within the marks; a walk that read nothing has no range yet.
Within(record, c, d) ==
    /\ record.at = "replay" => record.from <= c
    /\ record.at = "cursor" => record.from <= d
    /\ record.at = "walk" => /\ record.got < MaxFetch
                             /\ record.got = 0 => record.from = 0

ReadsWithin == \A r \in Readers : Within(reader[r], cursor, deltaCursor)

Remembering ==
    /\ MarksInRange
    /\ DueInRange
    /\ ErrorHeld
    /\ Resolving
    /\ ReadsWithin
    /\ Accounted

Calm == faults.spent["restart"] = 0 /\ faults.spent["run"] = 0

LossInv == Calm => Remembering

-----------------------------------------------------------------------------
(* Facts that several steps need *)

LEMMA OwedIsRow ==
    ASSUME IInv, DueInRange, NEW s \in Owed
    PROVE  /\ s \in Row /\ s \in Nat \ {0} /\ s <= Last
           /\ FromAssistant(s) /\ HasText(s) /\ s \in due /\ s \notin posted
BY DEF IInv, TypeOK, DueInRange, Owed, FromAssistant, HasText, Row

\* What is owed after a step that writes nothing was owed before.
LEMMA OwedBefore ==
    ASSUME UNCHANGED <<rows, due>>, posted \subseteq posted', NEW s \in Owed'
    PROVE  s \in Owed /\ s \notin posted'
BY DEF Owed, HasText

\* A row with words in the range that is read lies on or after the next one.
LEMMA NextReaches ==
    ASSUME IInv, NEW lo \in Nat, NEW hi \in Nat,
           NEW s \in Nat \ {0}, s <= Last, FromAssistant(s), lo <= s, s <= hi
    PROVE  /\ Said(lo, hi) # {} /\ NextSaid(lo, hi) \in Row
           /\ s \in NextSaid(lo, hi) .. hi
           /\ NextSaid(lo, hi) <= Last /\ lo <= NextSaid(lo, hi)
<1>1. s \in Said(lo, hi)
  BY Ranges DEF Said
<1>2. NextSaid(lo, hi) \in Nat /\ NextSaid(lo, hi) <= s
  BY <1>1, NextSaidIsLeast DEF IInv
<1>3. NextSaid(lo, hi) \in Row /\ NextSaid(lo, hi) \in lo .. hi
  BY <1>1, NextSaidIsRow DEF IInv
<1> QED
  BY <1>1, <1>2, <1>3, Ranges

\* A reader moves on; the live road, the gap and the other readers stay.
LEMMA ReaderMoves ==
    ASSUME IInv, Accounted, NEW r \in Readers, NEW record, Put(r, record),
           UNCHANGED <<rows, queue, pump, refetching, held, gapLow, due>>,
           posted \subseteq posted', gaveUp \subseteq gaveUp',
           overlooked \subseteq overlooked',
           \A s \in Owed : Toward(reader[r], s) /\ s \notin posted'
               => Toward(record, s) \/ s \in gaveUp',
           \A s \in Owed : Ahead(s)
               => Ahead(s)' \/ Toward(record, s) \/ s \in overlooked'
    PROVE  Accounted'
<1> SUFFICES ASSUME NEW s \in Owed' PROVE Covered(s)'
  BY DEF Accounted
<1>1. s \in Owed /\ s \notin posted'
  BY OwedBefore
<1>2. Covered(s)
  BY <1>1 DEF Accounted
<1>3. reader'[r] = record /\ \A q \in Readers : q # r => reader'[q] = reader[q]
  BY DEF Put, IInv, TypeOK
<1>4. OnTheRoad(s) => OnTheRoad(s)'
  BY DEF OnTheRoad, CalledOff, FromAssistant, Last
<1>5. (\E q \in Readers : Toward(reader[q], s))
        => s \in gaveUp' \/ \E q \in Readers : Toward(reader'[q], s)
  BY <1>1, <1>3
<1>6. Ahead(s) => Ahead(s)' \/ s \in overlooked' \/ \E q \in Readers : Toward(reader'[q], s)
  BY <1>1, <1>3
<1> QED
  BY <1>2, <1>4, <1>5, <1>6 DEF Covered, Toward

\* The rest of the invariant, when the marks only grow.
LEMMA MarksGrow ==
    ASSUME IInv, Remembering, NEW r \in Readers, NEW record, Put(r, record),
           UNCHANGED <<rows, queue, pump, held, due>>,
           cursor <= cursor', cursor' <= Last, cursor' \in Nat,
           deltaCursor <= deltaCursor', deltaCursor' <= Last, deltaCursor' \in Nat,
           Within(record, cursor', deltaCursor')
    PROVE  /\ MarksInRange' /\ DueInRange' /\ ErrorHeld' /\ Resolving' /\ ReadsWithin'
<1>1. Last' = Last
  BY DEF Last
<1>2. MarksInRange' /\ DueInRange' /\ ErrorHeld'
  BY <1>1, Ranges DEF Remembering, MarksInRange, DueInRange, ErrorHeld
<1>3. Resolving'
  BY Ranges DEF Remembering, Resolving
<1>4. ASSUME NEW q \in Readers PROVE Within(reader'[q], cursor', deltaCursor')
  <2>1. reader'[q] = record \/ reader'[q] = reader[q]
    BY DEF Put, IInv, TypeOK
  <2>2. Within(reader[q], cursor, deltaCursor) /\ reader[q].from \in Nat
    BY Ranges DEF Remembering, ReadsWithin
  <2>3. Within(reader[q], cursor', deltaCursor')
    BY <2>2, Ranges DEF Within
  <2> QED
    BY <2>1, <2>3
<1> QED
  BY <1>2, <1>3, <1>4 DEF ReadsWithin

LEMMA FreshWithin ==
    ASSUME IInv, NEW c, NEW d
    PROVE  /\ Within(Idle, c, d)
           /\ Within([Idle EXCEPT !.at = "sleeping"], c, d)
           /\ \A last : Within([Idle EXCEPT !.at = "walk", !.last = last], c, d)
           /\ \A r \in Readers : Within(Walked(r), c, d)
           /\ \A force \in BOOLEAN : Within(FallBack(force), c, d)
BY BoundsAssumption DEF Within, Idle, Walked, FallBack

LEMMA StartWithin ==
    ASSUME IInv, NEW force \in BOOLEAN
    PROVE  Within(StartCatchUp(force), cursor, deltaCursor)
<1>1. CASE deltaCursor = 0
  BY <1>1, FreshWithin DEF StartCatchUp
<1>2. CASE deltaCursor # 0
  BY <1>2, Ranges DEF StartCatchUp, Within, Idle
<1> QED
  BY <1>1, <1>2

-----------------------------------------------------------------------------
(* The live road *)

\* A new row is ahead of every mark.
LEMMA WriteRemembers ==
    ASSUME IInv, Recent, Remembering, NEW kind \in Kinds, Write(kind)
    PROVE  Remembering'
<1>1. /\ Last' = Last + 1 /\ \A s \in 1 .. Last : rows'[s] = rows[s]
      /\ UNCHANGED <<cursor, deltaCursor, gapLow, held, refetching, gaveUp,
                     overlooked, pump, reader, posted>>
      /\ queue' = queue \/ queue' = Append(queue, Last + 1)
      /\ due' = (IF cursor # 0 THEN due \cup {Last + 1} ELSE due)
  BY DEF Write, Last, router, IInv, TypeOK
<1>2. /\ Len(queue) \in Nat /\ Len(queue') \in Nat /\ Last \in Nat
      /\ \A i \in 1 .. Len(queue) : i \in 1 .. Len(queue') /\ queue'[i] = queue[i]
      /\ \A i \in 1 .. Len(queue') : i \in 1 .. Len(queue) \/ queue'[i] = Last + 1
  <2>1. CASE queue' = queue
    BY <2>1, Ranges
  <2>2. CASE queue' = Append(queue, Last + 1)
    <3>1. /\ Len(queue') = Len(queue) + 1 /\ queue'[Len(queue) + 1] = Last + 1
          /\ \A i \in 1 .. Len(queue) : queue'[i] = queue[i]
      BY <2>2 DEF IInv, TypeOK
    <3> QED
      BY <3>1, Ranges
  <2> QED
    BY <1>1, <2>1, <2>2
<1>3. MarksInRange' /\ DueInRange' /\ ReadsWithin'
  <2>1. MarksInRange' /\ ReadsWithin'
    BY <1>1, Ranges DEF Remembering, MarksInRange, ReadsWithin
  <2>2. \A s \in due : s \in Nat /\ s <= Last
    BY DEF Remembering, DueInRange, IInv, TypeOK, Row
  <2>3. cursor = 0 => due = {}
    BY DEF Remembering, DueInRange
  <2>4. \A s \in due' : s <= Last'
    BY <1>1, <1>2, <2>2
  <2> QED
    BY <1>1, <2>1, <2>3, <2>4 DEF DueInRange
<1>4. ErrorHeld'
  <2> SUFFICES ASSUME held # 0 PROVE ErrorHeld'
    BY <1>1 DEF ErrorHeld
  <2>1. /\ held \in 1 .. Last /\ rows[held] = "error"
        /\ \A i \in 1 .. Len(queue) : held < queue[i]
        /\ pump.at = "resolving" => held < pump.row
    BY Ranges DEF Remembering, ErrorHeld
  <2>2. \A i \in 1 .. Len(queue') : held < queue'[i]
    BY <1>2, <2>1
  <2> QED
    BY <1>1, <1>2, <2>1, <2>2 DEF ErrorHeld
<1>5. Resolving'
  BY <1>1, Ranges DEF Remembering, Resolving, Recent, EventsInOrder
<1>6. ASSUME NEW s \in Owed' PROVE Covered(s)'
  <2>1. CASE s \in due
    <3>1. s <= Last /\ s \in Nat \ {0}
      BY <2>1 DEF Remembering, DueInRange, IInv, TypeOK, Row
    <3>2. rows'[s] = rows[s]
      BY <1>1, <1>2, <3>1
    <3>3. s \in Owed
      BY <1>1, <2>1, <3>2 DEF Owed, HasText
    <3>4. Covered(s)
      BY <3>3 DEF Remembering, Accounted
    <3>5. CalledOff(s) => CalledOff(s)'
      BY <1>1, <1>2, <3>1, <3>2 DEF CalledOff, FromAssistant
    <3>6. OnTheRoad(s) => OnTheRoad(s)'
      BY <1>1, <1>2, <3>5 DEF OnTheRoad
    <3> QED
      BY <1>1, <3>4, <3>6 DEF Covered, Ahead, Toward
  <2>2. CASE s \notin due
    <3>1. s = Last + 1
      BY <1>1, <2>2 DEF Owed
    <3>2. Ahead(s)'
      BY <1>1, <3>1, Ranges DEF Ahead, Remembering, MarksInRange
    <3> QED
      BY <3>2 DEF Covered
  <2> QED
    BY <2>1, <2>2
<1> QED
  BY <1>3, <1>4, <1>5, <1>6 DEF Remembering, Accounted

LEMMA TakeRemembers ==
    ASSUME IInv, Recent, Remembering, Take
    PROVE  Remembering'
<1>1. /\ pump.at = "idle" /\ queue # <<>>
      /\ pump' = [at |-> "resolving", row |-> Head(queue), last |-> cursor]
      /\ queue' = Tail(queue)
      /\ UNCHANGED <<rows, cursor, deltaCursor, gapLow, held, refetching, gaveUp,
                     overlooked, reader, posted, due>>
      /\ Last' = Last
  BY DEF Take, gateway, router, history, Last
<1>2. /\ Len(queue) \in Nat /\ Len(queue') = Len(queue) - 1 /\ 1 \in 1 .. Len(queue)
      /\ pump'.at = "resolving" /\ pump'.row = queue[1] /\ pump'.last = cursor
      /\ \A i \in 1 .. Len(queue') : queue'[i] = queue[i + 1] /\ i + 1 \in 1 .. Len(queue)
  BY <1>1, Ranges DEF IInv, TypeOK
<1>3. MarksInRange' /\ DueInRange' /\ ReadsWithin'
  BY <1>1 DEF Remembering, MarksInRange, DueInRange, ReadsWithin
<1>4. ErrorHeld'
  BY <1>1, <1>2 DEF Remembering, ErrorHeld
<1>5. Resolving'
  BY <1>1, <1>2, Ranges DEF Remembering, Resolving, DueInRange
<1>6. ASSUME NEW s \in Owed' PROVE Covered(s)'
  <2>1. s \in Owed
    BY <1>1, OwedBefore
  <2>2. Covered(s)
    BY <2>1 DEF Remembering, Accounted
  <2>3. ASSUME NEW i \in 1 .. Len(queue), queue[i] = s
        PROVE  pump'.row = s \/ \E j \in 1 .. Len(queue') : queue'[j] = s
    <3>1. CASE i = 1
      BY <1>2, <2>3, <3>1
    <3>2. CASE i # 1
      <4>1. i - 1 \in 1 .. Len(queue') /\ i - 1 + 1 = i
        BY <1>2, <3>2
      <4>2. queue'[i - 1] = s
        BY <1>2, <2>3, <4>1
      <4> QED
        BY <4>1, <4>2
    <3> QED
      BY <3>1, <3>2
  <2>4. OnTheRoad(s) => OnTheRoad(s)'
    BY <1>1, <1>2, <2>3 DEF OnTheRoad, CalledOff, FromAssistant
  <2> QED
    BY <1>1, <2>2, <2>4 DEF Covered, Ahead, Toward
<1> QED
  BY <1>3, <1>4, <1>5, <1>6 DEF Remembering, Accounted

\* The rows between the cursor and a row that jumps ahead go to the gap task.
LEMMA ResolveRemembers ==
    ASSUME IInv, Recent, Remembering, Resolve
    PROVE  Remembering'
<1> DEFINE p == pump.row
<1>1. /\ p \in Nat \ {0} /\ p <= Last /\ pump.at = "resolving"
      /\ \A i \in 1 .. Len(queue) : p < queue[i]
  BY Ranges DEF IInv, OnRows, Row, Recent, EventsInOrder, Resolve
<1>2. /\ cursor' = Upper(cursor, p) /\ Last' = Last
      /\ UNCHANGED <<rows, queue, deltaCursor, posted, gaveUp, overlooked, due>>
      /\ held' = (IF rows[p] = "error" THEN p ELSE IF FromAssistant(p) THEN 0 ELSE held)
      /\ refetching' = (IF rows[p] = "long" THEN refetching \cup {p} ELSE refetching)
      /\ pump' = (IF rows[p] = "reply" THEN [pump EXCEPT !.at = "delivering"]
                  ELSE Resting)
  BY DEF Resolve, RecordSeq, gateway, Last
<1>3. /\ cursor' \in Nat \ {0} /\ p <= cursor' /\ cursor <= cursor' /\ cursor' <= Last
      /\ cursor' = cursor \/ cursor' = p
  BY <1>1, <1>2, Ranges DEF Upper, Remembering, MarksInRange
<1>4. /\ pump'.at # "resolving"
      /\ rows[p] = "reply" => pump'.at # "idle" /\ pump'.row = p
  BY <1>2 DEF Resting, IInv, TypeOK, Handling
<1>5. /\ pump.last \in Nat /\ pump.last <= cursor
      /\ pump.last = 0 => \A s \in due : p < s
  BY <1>1, Ranges DEF Remembering, Resolving
<1>6. ASSUME NEW q \in Readers
      PROVE  /\ reader'[q] = reader[q] \/ (reader[q].at = "idle"
                                           /\ reader'[q] = [Idle EXCEPT !.at = "sleeping"])
  <2>1. reader \in [Readers -> Reading]
    BY DEF IInv, TypeOK
  <2>2. \/ reader' = reader
        \/ /\ reader["gap"].at = "idle"
           /\ reader' = [reader EXCEPT !["gap"] = [Idle EXCEPT !.at = "sleeping"]]
    BY DEF Resolve, ScheduleGap, Put
  <2> QED
    BY <2>1, <2>2
<1>7. /\ gapLow # 0 => gapLow' # 0 /\ gapLow' <= gapLow
      /\ pump.last # 0 /\ p > pump.last + 1 => gapLow' # 0 /\ gapLow' <= pump.last
      /\ gapLow \in Nat /\ gapLow' \in Nat
  <2>1. gapLow \in Nat
    BY Ranges
  <2>2. \/ gapLow' = gapLow /\ ~(pump.last # 0 /\ p > pump.last + 1)
        \/ /\ pump.last # 0
           /\ gapLow' = (IF gapLow = 0 THEN pump.last ELSE Lower(gapLow, pump.last))
    BY DEF Resolve, ScheduleGap
  <2> QED
    BY <1>5, <2>1, <2>2 DEF Lower
<1>8. MarksInRange' /\ DueInRange'
  BY <1>2, <1>3 DEF Remembering, MarksInRange, DueInRange
<1>9. ErrorHeld'
  BY <1>1, <1>2, <1>4 DEF Remembering, ErrorHeld
<1>10. Resolving'
  BY <1>4 DEF Resolving
<1>11. ReadsWithin'
  <2> SUFFICES ASSUME NEW q \in Readers
               PROVE  Within(reader'[q], cursor', deltaCursor')
    BY DEF ReadsWithin
  <2>1. CASE reader'[q] = reader[q]
    <3>1. Within(reader[q], cursor, deltaCursor)
      BY DEF Remembering, ReadsWithin
    <3> QED
      BY <1>2, <1>3, <2>1, <3>1, Ranges DEF Within
  <2>2. CASE reader'[q] = [Idle EXCEPT !.at = "sleeping"]
    BY <2>2 DEF Within, Idle
  <2> QED
    BY <1>6, <2>1, <2>2
<1>12. ASSUME NEW s \in Owed' PROVE Covered(s)'
  <2>1. s \in Owed
    BY <1>2, OwedBefore
  <2>2. Covered(s)
    BY <2>1 DEF Remembering, Accounted
  <2>3. s \in Nat \ {0} /\ s <= Last /\ s \in due /\ HasText(s)
    BY <2>1, OwedIsRow DEF Remembering
  <2>4. CASE s = p
    <3>1. rows[p] \in {"reply", "long", "error"}
      BY <2>3, <2>4 DEF HasText
    <3>2. OnTheRoad(s)'
      BY <1>2, <1>4, <2>4, <3>1 DEF OnTheRoad
    <3> QED
      BY <3>2 DEF Covered
  <2>5. CASE s = held
    <3>1. rows[s] = "error" /\ s < p
      BY <1>1, <2>3, <2>5 DEF Remembering, ErrorHeld
    <3>2. CASE FromAssistant(p)
      <4>1. p \in s + 1 .. Last
        BY <1>1, <2>3, <3>1
      <4>2. CalledOff(s)
        BY <3>1, <3>2, <4>1 DEF CalledOff
      <4> QED
        BY <1>2, <4>2 DEF Covered, OnTheRoad, CalledOff, FromAssistant
    <3>3. CASE ~FromAssistant(p)
      <4>1. held' = s
        BY <1>2, <2>5, <3>3 DEF FromAssistant
      <4> QED
        BY <4>1 DEF Covered, OnTheRoad
    <3> QED
      BY <3>2, <3>3
  <2>6. CASE OnTheRoad(s) /\ s # p /\ s # held
    BY <1>2, <2>6 DEF Covered, OnTheRoad, CalledOff, FromAssistant
  <2>7. CASE \E q \in Readers : Toward(reader[q], s)
    <3>1. \E q \in Readers : Toward(reader'[q], s)
      BY <1>6, <2>7 DEF Toward
    <3> QED
      BY <3>1 DEF Covered, Toward
  <2>8. CASE gapLow # 0 /\ gapLow < s
    BY <1>7, <2>3, <2>8 DEF Covered
  <2>9. CASE Ahead(s) /\ s # p
    <3>1. cursor < s /\ deltaCursor < s
      BY <2>9 DEF Ahead
    <3>2. CASE p < s
      <4>1. Ahead(s)'
        BY <1>2, <1>3, <3>1, <3>2 DEF Ahead
      <4> QED
        BY <4>1 DEF Covered
    <3>3. CASE ~(p < s)
      <4>1. pump.last # 0
        BY <1>5, <2>3, <3>3
      <4>2. pump.last < s /\ p > pump.last + 1
        BY <1>1, <1>5, <2>3, <2>9, <3>1, <3>3, Ranges
      <4> QED
        BY <1>5, <1>7, <2>3, <4>1, <4>2 DEF Covered
    <3> QED
      BY <3>2, <3>3
  <2>10. CASE s \in gaveUp \/ s \in overlooked
    BY <1>2, <2>10 DEF Covered
  <2> QED
    BY <2>2, <2>4, <2>5, <2>6, <2>7, <2>8, <2>9, <2>10 DEF Covered
<1> QED
  BY <1>8, <1>9, <1>10, <1>11, <1>12 DEF Remembering, Accounted

\* A message that leaves the live road is posted.
LEMMA PostRemembers ==
    ASSUME IInv, Remembering, NEW s \in Nat, Post(s),
           UNCHANGED <<rows, queue, cursor, deltaCursor, gapLow, gaveUp, overlooked,
                       reader, due>>,
           pump' = pump \/ (s = pump.row /\ pump'.at = "idle"),
           refetching' = refetching \/ refetching' = refetching \ {s},
           held' = held \/ (s = held /\ held' = 0)
    PROVE  Remembering'
<1>1. Last' = Last /\ posted \subseteq posted'
  BY DEF Last, Post
<1>2. MarksInRange' /\ DueInRange' /\ ErrorHeld' /\ Resolving' /\ ReadsWithin'
  BY <1>1 DEF Remembering, MarksInRange, DueInRange, ErrorHeld, Resolving, ReadsWithin
<1>3. ASSUME NEW t \in Owed' PROVE Covered(t)'
  <2>1. t \in Owed /\ t \notin posted' /\ HasText(t)
    BY <1>1, OwedBefore DEF Owed
  <2>2. t # s
    BY <2>1 DEF Post
  <2>3. Covered(t)
    BY <2>1 DEF Remembering, Accounted
  <2>4. OnTheRoad(t) => OnTheRoad(t)'
    BY <1>1, <2>1, <2>2, OwedIsRow DEF OnTheRoad, CalledOff, FromAssistant, Remembering
  <2> QED
    BY <2>3, <2>4 DEF Covered, Ahead, Toward
<1> QED
  BY <1>2, <1>3 DEF Remembering, Accounted

LEMMA LateRemembers ==
    ASSUME IInv, Remembering, Deliver \/ ReleaseError \/ \E s \in Row : Refetched(s)
    PROVE  Remembering'
<1>1. CASE Deliver
  <2>1. /\ Post(pump.row) /\ pump'.at = "idle" /\ pump.row \in Nat
        /\ UNCHANGED <<rows, queue, cursor, deltaCursor, gapLow, gaveUp, overlooked,
                       reader, due, refetching, held>>
    BY <1>1, Ranges DEF Deliver, Resting, gateway, router, history
  <2> QED
    BY <2>1, PostRemembers
<1>2. CASE ReleaseError
  <2>1. /\ Post(held) /\ held' = 0 /\ held \in Nat
        /\ UNCHANGED <<rows, queue, cursor, deltaCursor, gapLow, gaveUp, overlooked,
                       reader, due, refetching, pump>>
    BY <1>2, Ranges DEF ReleaseError, gateway, history
  <2> QED
    BY <2>1, PostRemembers
<1>3. ASSUME NEW s \in Row, Refetched(s) PROVE Remembering'
  <2>1. /\ Post(s) /\ refetching' = refetching \ {s} /\ s \in Nat
        /\ UNCHANGED <<rows, queue, cursor, deltaCursor, gapLow, gaveUp, overlooked,
                       reader, due, held, pump>>
    BY <1>3 DEF Refetched, gateway, history, Row
  <2> QED
    BY <2>1, PostRemembers
<1> QED
  BY <1>1, <1>2, <1>3

-----------------------------------------------------------------------------
(* The readers *)

\* A walk that stops delivers what it owes, or gives it up.
LEMMA StopWalkRemembers ==
    ASSUME IInv, Remembering, NEW r \in Readers, NEW from \in Mark, NEW to \in Mark,
           StopWalk(r, from, to),
           NEW s \in Owed, reader[r].last < s, from # 0 => s <= to
    PROVE  s \in gaveUp' \/ \E record : Put(r, record) /\ Toward(record, s)
<1> DEFINE lo == Upper(from, reader[r].last + 1)
<1>1. s \in Nat \ {0} /\ s <= Last /\ FromAssistant(s)
  BY OwedIsRow DEF Remembering
<1>2. reader[r] \in Reading /\ reader[r].last \in Nat /\ Last \in Nat
  BY Ranges
<1>3. from \in Nat /\ to \in Nat /\ lo \in Nat
  BY <1>2 DEF Mark, Upper
<1>4. CASE from = 0
  BY <1>1, <1>2, <1>4 DEF StopWalk
<1>5. CASE from # 0 /\ s < from
  <2>1. s \in reader[r].last + 1 .. from - 1
    BY <1>1, <1>2, <1>3, <1>5
  <2> QED
    BY <1>5, <2>1 DEF StopWalk
<1>6. CASE from # 0 /\ ~(s < from)
  <2>1. lo <= s /\ s <= to
    BY <1>1, <1>2, <1>3, <1>6 DEF Upper
  <2>2. Said(lo, to) # {} /\ s \in NextSaid(lo, to) .. to
    BY <1>1, <1>3, <2>1, NextReaches
  <2>3. Put(r, [reader[r] EXCEPT !.at = "deliver", !.from = NextSaid(lo, to), !.to = to])
    BY <1>6, <2>2 DEF StopWalk
  <2> HIDE DEF lo
  <2>4. Toward([reader[r] EXCEPT !.at = "deliver", !.from = NextSaid(lo, to), !.to = to], s)
    BY <1>2, <2>2 DEF Toward, Reading
  <2> QED
    BY <2>3, <2>4
<1> QED
  BY <1>4, <1>5, <1>6

\* A stopped walk delivers, or rests; either way it is within its bounds.
LEMMA StopWalkWithin ==
    ASSUME IInv, NEW r \in Readers, NEW from, NEW to, StopWalk(r, from, to)
    PROVE  /\ gaveUp \subseteq gaveUp'
           /\ \E record : Put(r, record) /\ Within(record, cursor, deltaCursor)
<1> DEFINE lo == Upper(from, reader[r].last + 1)
           on == [reader[r] EXCEPT !.at = "deliver", !.from = NextSaid(lo, to), !.to = to]
<1>1. reader[r] \in Reading
  BY Ranges
<1>2. Put(r, Walked(r)) \/ Put(r, on)
  BY DEF StopWalk
<1>3. Within(on, cursor, deltaCursor)
  BY <1>1 DEF Within, Reading
<1>4. Within(Walked(r), cursor, deltaCursor)
  BY FreshWithin
<1>5. gaveUp \subseteq gaveUp'
  BY DEF StopWalk
<1> QED
  BY <1>2, <1>3, <1>4, <1>5

\* A walk's step keeps the rows it is on its way to.
LEMMA WalkRemembers ==
    ASSUME IInv, Recent, Remembering, NEW r \in Readers, Page(r) \/ NoPage(r)
    PROVE  Remembering'
<1> DEFINE walk == reader[r]
<1>1. /\ UNCHANGED <<rows, queue, pump, refetching, held, gapLow, due, cursor,
                     deltaCursor, posted, overlooked>>
      /\ walk.at = "walk"
  BY DEF Page, NoPage, gateway, history
<1>2. /\ walk \in Reading /\ walk.last \in Nat /\ walk.from \in Mark /\ walk.to \in Mark
      /\ walk.from \in Nat /\ walk.to \in Nat /\ walk.got \in Nat
  BY Ranges, BoundsAssumption DEF Reading
<1>3. walk.got < MaxFetch /\ (walk.got = 0 => walk.from = 0)
  BY <1>1 DEF Remembering, ReadsWithin, Within
<1>4. ASSUME NEW from \in Mark, NEW to \in Mark, StopWalk(r, from, to),
             \A s \in Owed : Toward(walk, s) => from = 0 \/ s <= to
      PROVE  Remembering'
  <2>1. PICK record : Put(r, record) /\ Within(record, cursor, deltaCursor)
    BY <1>4, StopWalkWithin
  <2>2. reader' = [reader EXCEPT ![r] = record] /\ reader'[r] = record
    BY <2>1 DEF Put, IInv, TypeOK
  <2>3. ASSUME NEW s \in Owed, Toward(walk, s)
        PROVE  Toward(record, s) \/ s \in gaveUp'
    <3>1. walk.last < s
      BY <1>1, <2>3 DEF Toward
    <3>2. s \in gaveUp' \/ \E other : Put(r, other) /\ Toward(other, s)
      BY <1>4, <2>3, <3>1, StopWalkRemembers
    <3>3. \A other : Put(r, other) => other = record
      BY <2>1, <2>2 DEF Put, IInv, TypeOK
    <3> QED
      BY <3>2, <3>3
  <2>4. gaveUp \subseteq gaveUp'
    BY <1>4, StopWalkWithin
  <2>5. Accounted'
    BY <1>1, <2>1, <2>3, <2>4, ReaderMoves DEF Remembering, Ahead
  <2>6. MarksInRange' /\ DueInRange' /\ ErrorHeld' /\ Resolving' /\ ReadsWithin'
    BY <1>1, <2>1, Ranges, MarksGrow DEF Remembering, MarksInRange
  <2> QED
    BY <2>5, <2>6 DEF Remembering
<1>5. CASE NoPage(r)
  <2>1. StopWalk(r, walk.from, walk.to)
    BY <1>5 DEF NoPage
  <2>2. \A s \in Owed : Toward(walk, s) => walk.from = 0 \/ s <= walk.to
    BY <1>1, <1>3 DEF Toward
  <2> QED
    BY <1>2, <1>4, <2>1, <2>2
<1>6. CASE Page(r)
  <2> DEFINE end == Upper(Last, walk.got) - walk.got
             len == Lower(end, Lower(PageSize, MaxFetch - walk.got))
             low == end + 1 - len
             from == IF len = 0 THEN walk.from
                     ELSE IF walk.from = 0 THEN low ELSE Lower(walk.from, low)
             to == Upper(walk.to, end)
             got == walk.got + len
             on == [walk EXCEPT !.from = from, !.to = to, !.got = got]
  <2>1. from \in Mark /\ to \in Mark
    BY PageBounds
  <2>2. /\ end \in Nat /\ len \in Nat /\ (walk.got = 0 => end = Last)
        /\ len < Lower(PageSize, MaxFetch - walk.got) \/ (len # 0 /\ got <= MaxFetch)
        /\ walk.to <= to /\ end <= to
    <3>1. Last \in Nat /\ MaxFetch \in Nat /\ PageSize \in Nat \ {0}
      BY Ranges, BoundsAssumption
    <3> HIDE DEF walk
    <3> QED
      BY <1>2, <1>3, <3>1 DEF Upper, Lower
  <2>3. \/ StopWalk(r, from, to)
        \/ /\ Put(r, on) /\ UNCHANGED gaveUp
           /\ ~(len < Lower(PageSize, MaxFetch - walk.got)) /\ got # MaxFetch
    BY <1>6 DEF Page
  <2> HIDE DEF end, from, to
  <2>4. \A s \in Owed : Toward(walk, s) => s <= to
    <3> SUFFICES ASSUME NEW s \in Owed, Toward(walk, s) PROVE s <= to
      OBVIOUS
    <3>1. s \in Nat /\ s <= Last /\ (walk.got = 0 \/ s <= walk.to)
      BY <1>1, OwedIsRow DEF Toward, Remembering
    <3>2. to \in Nat /\ Last \in Nat
      BY <2>1, Ranges DEF Mark
    <3>3. s <= end \/ s <= walk.to
      BY <2>2, <3>1
    <3> QED
      BY <1>2, <2>2, <3>1, <3>2, <3>3
  <2>5. CASE StopWalk(r, from, to)
    BY <1>4, <2>1, <2>4, <2>5
  <2>6. CASE /\ Put(r, on) /\ UNCHANGED gaveUp
             /\ ~(len < Lower(PageSize, MaxFetch - walk.got)) /\ got # MaxFetch
    <3>1. got \in Nat /\ got # 0 /\ got < MaxFetch
      BY <1>2, <2>2, <2>6, BoundsAssumption
    <3> HIDE DEF got, len
    <3>2. on.at = "walk" /\ on.last = walk.last /\ on.got = got /\ on.to = to
      BY <1>1, <1>2 DEF Reading
    <3> HIDE DEF on
    <3>3. Within(on, cursor, deltaCursor)
      BY <3>1, <3>2 DEF Within
    <3>4. \A s \in Owed : Toward(walk, s) => Toward(on, s)
      BY <1>1, <2>4, <3>2 DEF Toward
    <3>5. Accounted'
      BY <1>1, <2>6, <3>4, ReaderMoves DEF Remembering, Ahead
    <3>6. MarksInRange' /\ DueInRange' /\ ErrorHeld' /\ Resolving' /\ ReadsWithin'
      BY <1>1, <2>6, <3>3, Ranges, MarksGrow DEF Remembering, MarksInRange
    <3> QED
      BY <3>5, <3>6 DEF Remembering
  <2> QED
    BY <2>3, <2>5, <2>6
<1> QED
  BY <1>5, <1>6

\* What a delivery has not come to is in the range that is left.
LEMMA DeliverRemembers ==
    ASSUME IInv, Recent, Remembering, NEW r \in Readers, DeliverRow(r)
    PROVE  Remembering'
<1> DEFINE from == reader[r].from
           to == reader[r].to
           next == NextSaid(from + 1, to)
           on == [reader[r] EXCEPT !.from = next]
           record == IF next > to THEN Walked(r) ELSE on
<1>1. /\ reader[r].at = "deliver" /\ Post(from) /\ Put(r, record)
      /\ UNCHANGED <<rows, queue, pump, refetching, held, gapLow, due, cursor,
                     deltaCursor, gaveUp, overlooked>>
      /\ posted \subseteq posted'
  BY DEF DeliverRow, Post, gateway, router, history
<1>2. reader[r] \in Reading /\ from \in Nat /\ to \in Nat /\ from + 1 \in Nat
  BY Ranges
<1>3. Within(record, cursor, deltaCursor)
  <2>1. Within(Walked(r), cursor, deltaCursor)
    BY FreshWithin
  <2> HIDE DEF next
  <2>2. Within(on, cursor, deltaCursor)
    BY <1>1, <1>2 DEF Within, Reading
  <2> QED
    BY <2>1, <2>2
<1>4. ASSUME NEW s \in Owed, Toward(reader[r], s), s \notin posted'
      PROVE  Toward(record, s)
  <2>1. s \in Nat \ {0} /\ s <= Last /\ FromAssistant(s) /\ HasText(s)
    BY OwedIsRow DEF Remembering
  <2>2. s \in from .. to /\ s # from
    BY <1>1, <1>4, <2>1 DEF Toward, Post
  <2>3. s \in next .. to /\ next \in Row
    <3>1. from + 1 <= s /\ s <= to
      BY <1>2, <2>1, <2>2
    <3> QED
      BY <1>2, <2>1, <3>1, NextReaches
  <2>4. ~(next > to)
    BY <1>2, <2>3 DEF Row
  <2> HIDE DEF next
  <2>5. Toward(on, s)
    BY <1>1, <1>2, <2>3 DEF Toward, Reading
  <2> QED
    BY <2>4, <2>5
<1> HIDE DEF record
<1>5. Accounted'
  BY <1>1, <1>4, ReaderMoves DEF Remembering, Ahead
<1>6. MarksInRange' /\ DueInRange' /\ ErrorHeld' /\ Resolving' /\ ReadsWithin'
  BY <1>1, <1>3, Ranges, MarksGrow DEF Remembering, MarksInRange
<1> QED
  BY <1>5, <1>6 DEF Remembering

\* A replay of lo .. hi lets no row of that range out of sight.
LEMMA ReplayRemembers ==
    ASSUME IInv, Remembering, NEW r \in CatchUps, NEW lo \in Nat, NEW hi \in Mark,
           Replay(r, lo, hi), lo <= cursor + 1 \/ lo <= deltaCursor + 1
    PROVE  \E record :
             /\ Put(r, record) /\ Within(record, cursor', deltaCursor')
             /\ cursor' \in Nat /\ cursor <= cursor' /\ cursor' <= Last
             /\ \A s \in Owed : s \in lo .. hi => Toward(record, s)
             /\ \A s \in Owed : Ahead(s) => cursor' < s \/ Toward(record, s)
<1>1. hi \in Nat /\ Idle \in Reading /\ cursor \in Nat /\ cursor <= Last /\ Last \in Nat
  BY IdleGood, Ranges DEF Mark, Good, Remembering, MarksInRange
<1>2. CASE Said(lo, hi) = {}
  <2>1. Put(r, Idle) /\ cursor' = cursor /\ Within(Idle, cursor', deltaCursor')
    BY <1>2 DEF Replay, Within, Idle
  <2>2. \A s \in Owed : ~(s \in lo .. hi)
    BY <1>1, <1>2, OwedIsRow, NextReaches DEF Remembering
  <2> QED
    BY <1>1, <2>1, <2>2 DEF Ahead
<1>3. CASE Said(lo, hi) # {}
  <2> DEFINE next == NextSaid(lo, hi)
             record == [Idle EXCEPT !.at = "replay", !.from = next, !.to = hi]
  <2>1. Put(r, record) /\ cursor' = Upper(cursor, next)
    BY <1>3 DEF Replay, RecordSeq
  <2>2. next \in Nat /\ next <= Last /\ next \in lo .. hi
    <3>1. next \in Row /\ next \in lo .. hi
      BY <1>1, <1>3, NextSaidIsRow DEF IInv
    <3>2. PICK s : s \in Said(lo, hi)
      BY <1>3
    <3>3. s \in Nat /\ s <= Last /\ next <= s
      BY <1>1, <3>2, NextSaidIsLeast DEF Said, IInv
    <3> QED
      BY <1>1, <3>1, <3>3 DEF Row
  <2>3. cursor' \in Nat /\ cursor <= cursor' /\ cursor' <= Last /\ next <= cursor'
        /\ (cursor' = cursor \/ cursor' = next)
    BY <1>1, <2>1, <2>2 DEF Upper
  <2>4. ASSUME NEW s \in Owed, s \in lo .. hi PROVE s \in next .. hi
    BY <1>1, <2>4, OwedIsRow, NextReaches DEF Remembering
  <2> HIDE DEF next
  <2>5. record.at = "replay" /\ record.from = next /\ record.to = hi
    BY <1>1 DEF Reading
  <2> HIDE DEF record
  <2>6. Within(record, cursor', deltaCursor')
    BY <2>3, <2>5 DEF Within
  <2>7. \A s \in Owed : s \in lo .. hi => Toward(record, s)
    BY <2>4, <2>5 DEF Toward
  <2>8. ASSUME NEW s \in Owed, Ahead(s) PROVE cursor' < s \/ Toward(record, s)
    <3>1. cursor < s /\ deltaCursor < s /\ s \in Nat /\ deltaCursor \in Nat
      BY <2>8, OwedIsRow, Ranges DEF Ahead, Remembering
    <3>2. CASE cursor' = cursor
      BY <3>1, <3>2
    <3>3. CASE cursor' = next /\ ~(next < s)
      <4>1. lo <= s /\ s <= hi
        BY <1>1, <2>2, <3>1, <3>3
      <4> QED
        BY <1>1, <2>7, <3>1, <4>1
    <3> QED
      BY <2>3, <3>2, <3>3
  <2> QED
    BY <2>1, <2>3, <2>6, <2>7, <2>8
<1> QED
  BY <1>2, <1>3

LEMMA CatchUpRemembers ==
    ASSUME IInv, Recent, Remembering, NEW r \in CatchUps, CatchUp(r)
    PROVE  Remembering'
<1>1. /\ UNCHANGED <<rows, queue, pump, refetching, held, gapLow, due, gaveUp>>
      /\ posted \subseteq posted' /\ overlooked \subseteq overlooked'
      /\ r \in Readers
  BY DEF CatchUp, Forward, NoForward, ReadTail, NoReadTail, ReplayRow, Post,
         gateway, router, history, Readers
<1>2. /\ reader[r] \in Reading /\ reader[r].from \in Nat /\ reader[r].to \in Mark
      /\ reader[r].to \in Nat /\ reader[r].from + 1 \in Nat
      /\ Last \in Mark /\ Last \in Nat /\ cursor \in Nat /\ deltaCursor \in Nat
      /\ cursor <= Last /\ deltaCursor <= Last
  BY <1>1, Ranges, LastIsRow DEF Reading, IInv, Remembering, MarksInRange
<1>3. Within(reader[r], cursor, deltaCursor)
  BY <1>1 DEF Remembering, ReadsWithin
<1>4. ASSUME NEW record, Put(r, record), Within(record, cursor', deltaCursor'),
             cursor' \in Nat, cursor <= cursor', cursor' <= Last,
             deltaCursor' \in Nat, deltaCursor <= deltaCursor', deltaCursor' <= Last,
             \A s \in Owed : Toward(reader[r], s) /\ s \notin posted'
               => Toward(record, s) \/ s \in gaveUp',
             \A s \in Owed : Ahead(s)
               => Ahead(s)' \/ Toward(record, s) \/ s \in overlooked'
      PROVE  Remembering'
  <2>1. Accounted'
    BY <1>1, <1>4, ReaderMoves DEF Remembering
  <2>2. MarksInRange' /\ DueInRange' /\ ErrorHeld' /\ Resolving' /\ ReadsWithin'
    BY <1>1, <1>4, MarksGrow
  <2> QED
    BY <2>1, <2>2 DEF Remembering
<1>5. CASE Forward(r)
  <2>1. /\ Replay(r, reader[r].from + 1, Last) /\ deltaCursor' = Last
        /\ reader[r].at = "cursor" /\ reader[r].from + 1 <= deltaCursor + 1
    BY <1>2, <1>3, <1>5 DEF Forward, Within
  <2>2. PICK record :
          /\ Put(r, record) /\ Within(record, cursor', deltaCursor')
          /\ cursor' \in Nat /\ cursor <= cursor' /\ cursor' <= Last
          /\ \A s \in Owed : s \in reader[r].from + 1 .. Last => Toward(record, s)
    BY <1>2, <2>1, ReplayRemembers
  <2>3. \A s \in Owed : ~Toward(reader[r], s)
    BY <2>1 DEF Toward
  <2>4. ASSUME NEW s \in Owed, Ahead(s) PROVE s \in reader[r].from + 1 .. Last
    <3>1. s \in Nat /\ s <= Last /\ deltaCursor < s
      BY <2>4, OwedIsRow DEF Ahead, Remembering
    <3> QED
      BY <1>2, <2>1, <3>1
  <2> QED
    BY <1>2, <1>4, <2>1, <2>2, <2>3, <2>4
<1>6. CASE NoForward(r) \/ NoReadTail(r)
  <2>1. /\ UNCHANGED <<cursor, deltaCursor>>
        /\ reader[r].at \in {"cursor", "tail"}
        /\ \/ Put(r, FallBack(TRUE)) \/ Put(r, FallBack(reader[r].force))
           \/ Put(r, Idle)
    BY <1>6 DEF NoForward, NoReadTail, router
  <2>2. reader[r].force \in BOOLEAN
    BY <1>2 DEF Reading
  <2>3. PICK record : Put(r, record) /\ Within(record, cursor, deltaCursor)
    BY <2>1, <2>2, FreshWithin
  <2>4. \A s \in Owed : ~Toward(reader[r], s)
    BY <2>1 DEF Toward
  <2> QED
    BY <1>2, <1>4, <2>1, <2>3, <2>4 DEF Ahead
<1>7. CASE ReadTail(r)
  <2>1. reader[r].at = "tail" /\ reader[r].last # 0
    BY <1>1, <1>7 DEF ReadTail, Recent, ReadsBegun
  <2>2. /\ Put(r, Idle) /\ cursor' = cursor /\ deltaCursor' = Last
        /\ overlooked' = overlooked \cup (Unseen \ posted)
    BY <1>7, <2>1 DEF ReadTail
  <2>3. \A s \in Owed : ~Toward(reader[r], s)
    BY <2>1 DEF Toward
  <2>4. \A s \in Owed : Ahead(s) => s \in overlooked'
    BY <2>2, OwedIsRow DEF Ahead, Unseen, Remembering
  <2>5. Within(Idle, cursor', deltaCursor')
    BY DEF Within, Idle
  <2> QED
    BY <1>2, <1>4, <2>2, <2>3, <2>4, <2>5
<1>8. CASE ReplayRow(r)
  <2>1. /\ Replay(r, reader[r].from + 1, reader[r].to) /\ Post(reader[r].from)
        /\ UNCHANGED deltaCursor /\ reader[r].at = "replay"
        /\ reader[r].from + 1 <= cursor + 1
    BY <1>2, <1>3, <1>8 DEF ReplayRow, Within
  <2>2. PICK record :
          /\ Put(r, record) /\ Within(record, cursor', deltaCursor')
          /\ cursor' \in Nat /\ cursor <= cursor' /\ cursor' <= Last
          /\ \A s \in Owed : s \in reader[r].from + 1 .. reader[r].to => Toward(record, s)
          /\ \A s \in Owed : Ahead(s) => cursor' < s \/ Toward(record, s)
    BY <1>2, <2>1, ReplayRemembers
  <2>3. ASSUME NEW s \in Owed, Toward(reader[r], s), s \notin posted'
        PROVE  s \in reader[r].from + 1 .. reader[r].to
    <3>1. s \in reader[r].from .. reader[r].to /\ HasText(s)
      BY <2>1, <2>3, OwedIsRow DEF Toward, Remembering
    <3>2. s # reader[r].from
      BY <2>1, <2>3, <3>1 DEF Post
    <3> QED
      BY <1>2, <3>1, <3>2
  <2> QED
    BY <1>2, <1>4, <2>1, <2>2, <2>3 DEF Ahead
<1> QED
  BY <1>5, <1>6, <1>7, <1>8 DEF CatchUp

\* The gap task walks back to the mark it was left.
LEMMA GapWakesRemembers ==
    ASSUME IInv, Remembering, GapWakes
    PROVE  Remembering'
<1> DEFINE walk == [Idle EXCEPT !.at = "walk", !.last = gapLow]
<1>1. /\ reader["gap"].at = "sleeping" /\ "gap" \in Readers
      /\ reader \in [Readers -> Reading]
      /\ UNCHANGED <<rows, queue, cursor, deltaCursor, held, refetching, gaveUp,
                     pump, posted, due, overlooked>>
      /\ Put("gap", IF gapLow = 0 THEN Idle ELSE walk)
  BY DEF GapWakes, gateway, history, Readers, IInv, TypeOK
<1>2. /\ gapLow # 0 => reader'["gap"] = walk
      /\ \A q \in Readers : q # "gap" => reader'[q] = reader[q]
  BY <1>1 DEF Put
<1>3. MarksInRange' /\ DueInRange' /\ ErrorHeld' /\ Resolving' /\ ReadsWithin'
  <2>1. Within(IF gapLow = 0 THEN Idle ELSE walk, cursor, deltaCursor)
    BY FreshWithin
  <2> HIDE DEF walk
  <2> QED
    BY <1>1, <2>1, Ranges, MarksGrow DEF Remembering, MarksInRange
<1>4. ASSUME NEW s \in Owed' PROVE Covered(s)'
  <2>1. s \in Owed
    BY <1>1, OwedBefore
  <2>2. Covered(s)
    BY <2>1 DEF Remembering, Accounted
  <2>3. OnTheRoad(s) => OnTheRoad(s)'
    BY <1>1 DEF OnTheRoad, CalledOff, FromAssistant, Last
  <2>4. (\E q \in Readers : Toward(reader[q], s)) => \E q \in Readers : Toward(reader'[q], s)
    <3>1. ~Toward(reader["gap"], s)
      BY <1>1 DEF Toward
    <3> QED
      BY <1>2, <3>1
  <2>5. gapLow # 0 /\ gapLow < s => \E q \in Readers : Toward(reader'[q], s)
    <3>1. gapLow < s => Toward(walk, s)
      BY DEF Toward, Idle
    <3> QED
      BY <1>1, <1>2, <3>1
  <2> QED
    BY <1>1, <2>2, <2>3, <2>4, <2>5 DEF Covered, Toward, Ahead
<1> QED
  BY <1>3, <1>4 DEF Remembering, Accounted

\* A reconnect starts a catch-up from the marks.
LEMMA ReconnectRemembers ==
    ASSUME IInv, Recent, Remembering, Reconnect
    PROVE  Remembering'
<1>1. UNCHANGED <<rows, queue, pump, cursor, deltaCursor, gapLow, held, refetching,
                  gaveUp, posted, due, overlooked>>
  BY DEF Reconnect, Connect, Subscribe, ChaseRuns, RunEnded, gateway, router, history
<1>2. \/ UNCHANGED reader
      \/ reader["resync"].at = "idle" /\ Put("resync", StartCatchUp(FALSE))
  BY DEF Reconnect, Connect, Subscribe, ChaseRuns, RunEnded, Recent, NothingToChase
<1>3. CASE UNCHANGED reader
  <2>1. Last' = Last /\ Owed' = Owed
    BY <1>1 DEF Last, Owed, HasText
  <2> QED
    BY <1>1, <1>3, <2>1 DEF Remembering, MarksInRange, DueInRange, ErrorHeld, Resolving,
                     ReadsWithin, Accounted, Covered, OnTheRoad, CalledOff, FromAssistant,
                     Ahead, Toward
<1>4. CASE reader["resync"].at = "idle" /\ Put("resync", StartCatchUp(FALSE))
  <2>1. "resync" \in Readers /\ Within(StartCatchUp(FALSE), cursor, deltaCursor)
    BY StartWithin DEF Readers, CatchUps
  <2>2. \A s \in Owed : ~Toward(reader["resync"], s)
    BY <1>4 DEF Toward
  <2>3. Accounted'
    BY <1>1, <1>4, <2>1, <2>2, ReaderMoves DEF Remembering, Ahead
  <2>4. PICK record : Put("resync", record) /\ Within(record, cursor, deltaCursor)
    BY <1>4, <2>1
  <2>5. MarksInRange' /\ DueInRange' /\ ErrorHeld' /\ Resolving' /\ ReadsWithin'
    BY <1>1, <2>1, <2>4, Ranges, MarksGrow DEF Remembering, MarksInRange
  <2> QED
    BY <2>3, <2>5 DEF Remembering
<1> QED
  BY <1>2, <1>3, <1>4

-----------------------------------------------------------------------------
(* The theorem *)

\* What the router keeps does not depend on the socket or the faults.
LEMMA StillRemembers ==
    ASSUME Remembering, UNCHANGED <<rows, queue, router, pump, reader, posted, history>>
    PROVE  Remembering'
<1>1. UNCHANGED <<cursor, deltaCursor, gapLow, held, refetching, gaveUp, due, overlooked>>
  BY DEF router, history
<1>2. Last' = Last /\ Owed' = Owed
  BY <1>1 DEF Last, Owed, HasText
<1> QED
  BY <1>1, <1>2 DEF Remembering, MarksInRange, DueInRange, ErrorHeld, Resolving,
                     ReadsWithin, Accounted, Covered, OnTheRoad, CalledOff, FromAssistant,
                     Ahead, Toward

LEMMA InitLoss == Init => LossInv
<1> SUFFICES ASSUME Init PROVE Remembering
  BY DEF LossInv
<1>1. Last \in Nat
  BY DEF Init, Last
<1>2. MarksInRange /\ DueInRange /\ ErrorHeld /\ Resolving /\ Accounted
  BY <1>1 DEF Init, MarksInRange, DueInRange, ErrorHeld, Resolving, Accounted, Owed, Resting
<1>3. ReadsWithin
  BY DEF Init, ReadsWithin, Within, Idle
<1> QED
  BY <1>2, <1>3 DEF Remembering

LEMMA NextLoss == IInv /\ NewsInv /\ LossInv /\ [Next]_vars => LossInv'
<1> SUFFICES ASSUME IInv, NewsInv, LossInv, [Next]_vars, Calm'
             PROVE  Remembering'
  BY DEF LossInv
<1>1. "run" \in Faults /\ "restart" \in Faults
  BY DEF Faults
<1>2. Calm /\ ~Spend("run") /\ ~Spend("restart")
  BY <1>1, FaultsAreCounted DEF Calm
<1>3. Recent /\ Remembering /\ ~Dispatch /\ ~Restart
  BY <1>2 DEF NewsInv, LossInv, Calm, Dispatch, Restart
<1>4. CASE Gateway
  <2>1. ASSUME NEW kind \in Kinds, Write(kind) PROVE Remembering'
    BY <1>3, <2>1, WriteRemembers
  <2>2. CASE Answered \/ Cut
    BY <1>3, <2>2, StillRemembers DEF Answered, Cut
  <2> QED
    BY <1>3, <1>4, <2>1, <2>2 DEF Gateway
<1>5. CASE Reconnect
  BY <1>3, <1>5, ReconnectRemembers
<1>6. ASSUME NEW r \in Readers, Read(r) PROVE Remembering'
  BY <1>3, <1>6, WalkRemembers, DeliverRemembers DEF Read
<1>7. ASSUME NEW r \in CatchUps, CatchUp(r) PROVE Remembering'
  BY <1>3, <1>7, CatchUpRemembers
<1>8. CASE GapWakes
  BY <1>3, <1>8, GapWakesRemembers
<1>9. CASE Live
  BY <1>3, <1>9, TakeRemembers, ResolveRemembers, LateRemembers DEF Live
<1>10. CASE ReleaseError \/ \E s \in Row : Refetched(s)
  BY <1>3, <1>10, LateRemembers
<1>11. CASE UNCHANGED vars
  BY <1>3, <1>11, StillRemembers DEF vars, gateway
<1> QED
  BY <1>3, <1>4, <1>5, <1>6, <1>7, <1>8, <1>9, <1>10, <1>11 DEF Next

\* As long as no turn was sent and the process was not restarted, a row the
\* assistant spoke while the router followed the session is posted, on its way,
\* within reach of the marks, given up aloud, or one of the rows a tail read
\* moved the delta cursor past; whatever else fails and in whatever order.
\* (handle, _schedule_gap, _backfill, catch_up, _replay)
THEOREM NothingLostSilently == Spec => []NoSilentLoss
<1>1. Spec => [](IInv /\ NewsInv /\ LossInv)
  BY InitIInv, NextIInv, InitNews, NextNews, InitLoss, NextLoss, PTL DEF Spec
<1>2. LossInv => NoSilentLoss
  <2> SUFFICES ASSUME LossInv, Calm, NEW s \in Owed
               PROVE  Remembered(s) \/ s \in overlooked
    BY DEF NoSilentLoss, Calm
  <2>1. Covered(s)
    BY DEF LossInv, Remembering, Accounted
  <2> QED
    BY <2>1 DEF Covered, OnTheRoad, Toward, Ahead, Remembered, InHand, OnItsWay, Traceable
<1> QED
  BY <1>1, <1>2, PTL
=============================================================================

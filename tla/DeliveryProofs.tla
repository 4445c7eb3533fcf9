--------------------------- MODULE DeliveryProofs ---------------------------
(***************************************************************************)
(* What is proved of a reply's row in the thread and of its bubble on the  *)
(* page.                                                                   *)
(*                                                                         *)
(* Of DeliveryFunnel, for any replies, roads, copies and faults: what was  *)
(* said stays readable, a claim has a row behind it, one reply is one row  *)
(* as long as nobody writes in between, a gateway row goes only for a      *)
(* longer copy, and the thread only grows.                                 *)
(*                                                                         *)
(* Of LiveBubbles, for any speeches, queue, cuts and reloads: a bubble has *)
(* one element, one end and its own row, a reply is not on the page twice, *)
(* and a bubble shows what was said.                                       *)
(***************************************************************************)
EXTENDS DeliveryFunnel, LiveBubbles, SequenceTheorems, FiniteSetTheorems, WellFoundedInduction,
        TLAPS

(* The funnel is serial: who is past the lock holds it.                     *)
InHand(r) == job[r] # Idle /\ ~At(r, "waiting")

Serial ==
    /\ \A r \in Roads : InHand(r) => lock = r
    /\ lock # Free => InHand(lock)

(* Rows are told apart by their ids, come after their replies, and while    *)
(* nobody wrote after a reply, all its rows were written promptly.          *)
RowsDated ==
    /\ opened <= clock
    /\ ~alive => rows = {}
    /\ \A m \in Replies : born[m] <= clock
    /\ \A x \in rows : x.id \in 1 .. clock
    /\ \A x, y \in rows : x.id = y.id => x = y
    /\ \A x \in rows : born[x.reply] # 0 /\ born[x.reply] <= x.at /\ x.at <= clock
    /\ \A x \in rows : opened < born[x.reply] => x.prompt

(* The row an upgrade completes is an abridged twin of it, of a gateway     *)
(* message only if the copy comes without an id or is of the same message;  *)
(* the row it wrote is its own.                                             *)
JobSound(r) ==
    job[r] # Idle =>
        /\ born[job[r].reply] # 0
        /\ job[r].over <= clock
        /\ At(r, "waiting") \/ At(r, "claimed") => job[r].over = 0
        /\ job[r].over # 0 => job[r].len = 2
        /\ \A x \in rows : x.id = job[r].over =>
              /\ x.len = 1
              /\ Twin(RowText(x), JobText(r))
              /\ At(r, "write") => SameMessage(r, x)
              /\ At(r, "landed") /\ x.source => r \notin HasSource
        /\ At(r, "landed") =>
              /\ job[r].over < job[r].row
              /\ job[r].row <= clock
              /\ \A x \in rows : x.id = job[r].row =>
                    /\ x.reply = job[r].reply
                    /\ x.len = job[r].len
                    /\ x.source = (r \in HasSource)

JobsSound == \A r \in Roads : JobSound(r)

(* What a cut upgrade has written is a complete copy.                       *)
CutRows ==
    /\ \A id \in cut : id <= clock
    /\ \A x \in rows : x.id \in cut => x.len = 2

(* What the scan found stays true up to the write, and past it: the prompt  *)
(* rows of the reply are the one to complete and those of cut upgrades.     *)
ClearAt(r) ==
    /\ At(r, "write") =>
          \A x \in rows :
              x.reply = job[r].reply /\ Distinct(x.reply) /\ opened < born[x.reply] =>
                  x.id = job[r].over \/ x.id \in cut
    /\ At(r, "landed") =>
          \A x, y \in rows :
              y.id = job[r].row /\ y.prompt /\ x.prompt /\ x.reply = y.reply
                  /\ Distinct(y.reply) =>
                      x = y \/ x.id = job[r].over \/ x.id \in cut

AllClear == \A r \in Roads : ClearAt(r)

FunnelInv ==
    /\ TypeOK
    /\ Serial /\ RowsDated /\ JobsSound
    /\ CutRows /\ AllClear
    /\ NothingSaidIsLost /\ ClaimsAreBacked /\ OncePerTurn

-----------------------------------------------------------------------------
(* Jobs *)

LEMMA JobTypes ==
    ASSUME TypeOK, NEW r \in Roads
    PROVE  /\ job[r] = Idle \/ job[r] \in Job
           /\ job[r] \in Job =>
                /\ job[r] # Idle
                /\ job[r].step \in Steps /\ job[r].reply \in Replies
                /\ job[r].len \in 1 .. 2 /\ job[r].over \in Nat /\ job[r].row \in Nat
                /\ JobText(r) \in Texts
           /\ job[r] = Idle => job[r].step = "idle"
<1>1. job[r] = Idle \/ job[r] \in Job
  BY DEF TypeOK
<1>2. ASSUME job[r] \in Job
      PROVE  /\ job[r] # Idle
             /\ job[r].step \in Steps /\ job[r].reply \in Replies
             /\ job[r].len \in 1 .. 2 /\ job[r].over \in Nat /\ job[r].row \in Nat
  BY <1>2 DEF Job, Idle, Steps
<1>3. ASSUME job[r] \in Job
      PROVE  JobText(r) \in Texts
  BY <1>2, <1>3, WordingAssumption DEF JobText, TextOf, Texts
<1>4. job[r] = Idle => job[r].step = "idle"
  BY DEF Idle
<1> QED
  BY <1>1, <1>2, <1>3, <1>4

LEMMA AtIsJob ==
    ASSUME TypeOK, NEW r \in Roads, NEW s \in Steps, At(r, s)
    PROVE  job[r] \in Job /\ job[r] # Idle /\ (s # "waiting" => InHand(r))
BY JobTypes DEF At, InHand, Steps

LEMMA HandIsOpen ==
    ASSUME FunnelInv, NEW r \in Roads, InHand(r)
    PROVE  /\ r \in OpenRoads /\ lock = r
           /\ \A q \in Roads : InHand(q) => q = r
BY RoadsAssumption DEF FunnelInv, Serial, TypeOK, Free, Roads

LEMMA RowTexts ==
    ASSUME NEW x \in Row
    PROVE  RowText(x) \in Texts
BY WordingAssumption DEF Row, RowText, TextOf, Texts

(* A longer copy says all that a shorter one does.                          *)
LEMMA CoversTypes ==
    ASSUME NEW s \in Texts, NEW t \in Texts, NEW u \in Texts
    PROVE  /\ Covers(s, s)
           /\ Covers(s, t) /\ Covers(t, u) => Covers(s, u)
           /\ Twin(s, t) /\ ~Covers(s, t) => s.len = 1 /\ t.len = 2 /\ Covers(t, s)
BY DEF Texts, Covers, Twin

-----------------------------------------------------------------------------
(* Steps that write no row *)

SameRow(x, y) ==
    /\ x.id = y.id /\ x.at = y.at /\ x.reply = y.reply /\ x.len = y.len
    /\ x.source = y.source /\ x.prompt = y.prompt

(* The rows after are rows from before; time and the transcript go on.      *)
Later ==
    /\ rows' \subseteq Row
    /\ \A x \in rows' : \E y \in rows : SameRow(x, y)
    /\ \A x, y \in rows' : x.id = y.id => x = y
    /\ alive' \in BOOLEAN /\ (alive' => alive) /\ (~alive' => rows' = {})
    /\ clock' \in Nat /\ clock <= clock'
    /\ opened' \in Nat /\ opened <= opened' /\ opened' <= clock'
    /\ born' \in [Replies -> Nat]
    /\ \A m \in Replies :
          born'[m] = born[m] \/ (born[m] = 0 /\ 0 < born'[m] /\ born'[m] <= clock')

(* And all of them are still there.                                         *)
AllKept ==
    /\ alive' = alive
    /\ \A y \in rows : \E x \in rows' : SameRow(x, y)

LEMMA LaterDated ==
    ASSUME FunnelInv, Later
    PROVE  RowsDated'
<1> USE DEF FunnelInv, RowsDated, Later, TypeOK
<1>1. \A m \in Replies : born'[m] <= clock'
  OBVIOUS
<1>2. ASSUME NEW x \in rows'
      PROVE  /\ x.id \in 1 .. clock'
             /\ born'[x.reply] # 0 /\ born'[x.reply] <= x.at /\ x.at <= clock'
             /\ opened' < born'[x.reply] => x.prompt
  <2>1. PICK y \in rows : SameRow(x, y)
    OBVIOUS
  <2>2. x \in Row /\ y \in Row
    OBVIOUS
  <2>3. born'[x.reply] = born[y.reply]
    BY <2>1, <2>2 DEF SameRow, Row
  <2> QED
    BY <2>1, <2>2, <2>3 DEF SameRow, Row
<1> QED
  BY <1>1, <1>2

LEMMA LaterDistinct ==
    ASSUME FunnelInv, Later, NEW m \in Replies, Distinct(m)'
    PROVE  Distinct(m)
BY DEF FunnelInv, TypeOK, Later, Distinct, Given

LEMMA LaterSound ==
    ASSUME FunnelInv, Later, NEW q \in Roads, job'[q] = job[q]
    PROVE  JobSound(q)'
<1> SUFFICES ASSUME job[q] # Idle
             PROVE  JobSound(q)'
  BY DEF JobSound
<1>1. job[q] \in Job /\ job[q].reply \in Replies /\ job[q].over \in Nat /\ job[q].row \in Nat
  BY JobTypes DEF FunnelInv
<1>2. JobSound(q)
  BY DEF FunnelInv, JobsSound
<1>3. born'[job[q].reply] # 0 /\ job[q].over <= clock' /\ job[q].over <= clock
  BY <1>1, <1>2 DEF JobSound, Later, FunnelInv, TypeOK
<1>4. ASSUME NEW x \in rows', x.id = job[q].over
      PROVE  /\ x.len = 1
             /\ Twin(RowText(x), JobText(q)')
             /\ At(q, "write") => SameMessage(q, x)'
             /\ At(q, "landed") /\ x.source => q \notin HasSource
  <2>1. PICK y \in rows : SameRow(x, y)
    BY DEF Later
  <2> QED
    BY <1>2, <1>4, <2>1 DEF JobSound, SameRow, RowText, JobText, SameMessage, At
<1>5. ASSUME At(q, "landed")
      PROVE  /\ job[q].over < job[q].row
             /\ job[q].row <= clock'
             /\ \A x \in rows' : x.id = job[q].row =>
                    /\ x.reply = job[q].reply
                    /\ x.len = job[q].len
                    /\ x.source = (q \in HasSource)
  <2>1. job[q].over < job[q].row /\ job[q].row <= clock
    BY <1>2, <1>5 DEF JobSound
  <2>2. job[q].row <= clock'
    BY <2>1, <1>1 DEF Later, FunnelInv, TypeOK
  <2>3. ASSUME NEW x \in rows', x.id = job[q].row
        PROVE  /\ x.reply = job[q].reply
               /\ x.len = job[q].len
               /\ x.source = (q \in HasSource)
    <3>1. PICK y \in rows : SameRow(x, y)
      BY DEF Later
    <3> QED
      BY <1>2, <1>5, <2>3, <3>1 DEF JobSound, SameRow
  <2> QED
    BY <2>1, <2>2, <2>3
<1> QED
  BY <1>2, <1>3, <1>4, <1>5 DEF JobSound, At

LEMMA LaterClear ==
    ASSUME FunnelInv, Later, NEW q \in Roads, job'[q] = job[q], cut \subseteq cut'
    PROVE  ClearAt(q)'
<1>1. ClearAt(q)
  BY DEF FunnelInv, AllClear
<1>2. ASSUME At(q, "write"), NEW x \in rows', x.reply = job[q].reply, Distinct(x.reply)',
             opened' < born'[x.reply]
      PROVE  x.id = job[q].over \/ x.id \in cut
  <2>1. PICK y \in rows : SameRow(x, y)
    BY DEF Later
  <2>2. x.reply = y.reply /\ x.reply \in Replies
    BY <2>1 DEF SameRow, Later, Row
  <2>3. Distinct(y.reply)
    BY <1>2, <2>2, LaterDistinct
  <2>4. opened < born[y.reply]
    BY <1>2, <2>2 DEF Later, FunnelInv, TypeOK, RowsDated
  <2> QED
    BY <1>1, <1>2, <2>1, <2>2, <2>3, <2>4 DEF ClearAt, SameRow
<1>3. ASSUME At(q, "landed"), NEW x \in rows', NEW y \in rows', y.id = job[q].row,
             y.prompt, x.prompt, x.reply = y.reply, Distinct(y.reply)'
      PROVE  x = y \/ x.id = job[q].over \/ x.id \in cut
  <2>1. PICK a \in rows : SameRow(x, a)
    BY DEF Later
  <2>2. PICK b \in rows : SameRow(y, b)
    BY DEF Later
  <2>3. y.reply \in Replies /\ b.reply = y.reply
    BY <2>2 DEF SameRow, Later, Row
  <2>4. Distinct(b.reply)
    BY <1>3, <2>3, LaterDistinct
  <2>5. a = b \/ a.id = job[q].over \/ a.id \in cut
    BY <1>1, <1>3, <2>1, <2>2, <2>4 DEF ClearAt, SameRow
  <2>6. a = b => x = y
    BY <2>1, <2>2 DEF SameRow, Later
  <2> QED
    BY <2>1, <2>5, <2>6 DEF SameRow
<1> QED
  BY <1>2, <1>3 DEF ClearAt, At

LEMMA LaterCut ==
    ASSUME FunnelInv, Later, cut' = cut
    PROVE  CutRows'
<1>1. \A id \in cut' : id <= clock'
  BY DEF FunnelInv, TypeOK, CutRows, Later
<1>2. ASSUME NEW x \in rows', x.id \in cut'
      PROVE  x.len = 2
  <2>1. PICK y \in rows : SameRow(x, y)
    BY DEF Later
  <2> QED
    BY <1>2, <2>1 DEF FunnelInv, CutRows, SameRow
<1> QED
  BY <1>1, <1>2 DEF CutRows

(* A pair of rows of one reply was a pair of rows before.                   *)
LEMMA LaterOnce ==
    ASSUME FunnelInv, Later,
           \A x, y \in rows' : {x.id, y.id} \cap (cut \cup Upgrading) # {} =>
               x.id = y.id \/ {x.id, y.id} \cap (cut' \cup Upgrading') # {}
    PROVE  OncePerTurn'
<1> SUFFICES ASSUME NEW x \in rows', NEW y \in rows', Distinct(x.reply)', x.prompt,
                    y.prompt, x.reply = y.reply, x # y
             PROVE  {x.id, y.id} \cap (cut' \cup Upgrading') # {}
  BY DEF OncePerTurn
<1>1. PICK a \in rows : SameRow(x, a)
  BY DEF Later
<1>2. PICK b \in rows : SameRow(y, b)
  BY DEF Later
<1>3. x.id # y.id
  BY DEF Later
<1>4. a # b /\ a.reply = b.reply /\ a.prompt /\ b.prompt /\ a.id = x.id /\ b.id = y.id
  BY <1>1, <1>2, <1>3 DEF SameRow
<1>5. x.reply \in Replies /\ a.reply = x.reply
  BY <1>1 DEF SameRow, Later, Row
<1>6. Distinct(a.reply)
  BY <1>5, LaterDistinct
<1>7. {a.id, b.id} \cap (cut \cup Upgrading) # {}
  BY <1>4, <1>6 DEF FunnelInv, OncePerTurn
<1> QED
  BY <1>3, <1>4, <1>7

LEMMA KeptCovers ==
    ASSUME FunnelInv, Later, AllKept, NEW t, NEW y \in rows, Covers(RowText(y), t)
    PROVE  \E x \in rows' : Covers(RowText(x), t)
<1>1. PICK x \in rows' : SameRow(x, y)
  BY DEF AllKept
<1> QED
  BY <1>1 DEF SameRow, RowText

(* Texts taken in are in the thread as long as those taken in now are.      *)
LEMMA KeptSaid ==
    ASSUME FunnelInv, Later, AllKept,
           alive => \A t \in accepted' \ accepted : \E y \in rows : Covers(RowText(y), t)
    PROVE  NothingSaidIsLost'
<1> SUFFICES ASSUME alive', NEW t \in accepted'
             PROVE  \E x \in rows' : Covers(RowText(x), t)
  BY DEF NothingSaidIsLost
<1>1. \E y \in rows : Covers(RowText(y), t)
  BY DEF FunnelInv, NothingSaidIsLost, AllKept
<1> QED
  BY <1>1, KeptCovers

(* Claims keep their backing where they are those of before, and the holder *)
(* of the lock stays where it is.                                           *)
LEMMA KeptBacked ==
    ASSUME FunnelInv, Later, AllKept, delivered' \subseteq delivered,
           \A r \in OpenRoads :
               lock = r /\ (At(r, "claimed") \/ At(r, "write")) /\ JobText(r) \in delivered' =>
                   \/ lock' = r /\ (At(r, "claimed") \/ At(r, "write"))' /\ JobText(r)' = JobText(r)
                   \/ alive => \E y \in rows : Covers(RowText(y), JobText(r))
    PROVE  ClaimsAreBacked'
<1> SUFFICES ASSUME alive', NEW t \in delivered'
             PROVE  \/ \E x \in rows' : Covers(RowText(x), t)
                    \/ \E r \in OpenRoads :
                         /\ lock' = r /\ (At(r, "claimed") \/ At(r, "write"))'
                         /\ JobText(r)' = t
  BY DEF ClaimsAreBacked
<1>1. CASE \E y \in rows : Covers(RowText(y), t)
  BY <1>1, KeptCovers
<1>2. CASE ~\E y \in rows : Covers(RowText(y), t)
  <2>1. PICK r \in OpenRoads :
            lock = r /\ (At(r, "claimed") \/ At(r, "write")) /\ JobText(r) = t
    BY <1>2 DEF FunnelInv, ClaimsAreBacked, AllKept
  <2> QED
    BY <2>1, <1>2 DEF AllKept
<1> QED
  BY <1>1, <1>2

-----------------------------------------------------------------------------
(* Steps that may write a row *)

LEMMA NewRowFacts ==
    ASSUME FunnelInv, NEW r \in Roads, At(r, "write")
    PROVE  /\ NewRow(r) \in Row
           /\ NewRow(r).id = clock + 1
           /\ NewRow(r).reply = job[r].reply
           /\ NewRow(r).len = job[r].len
           /\ NewRow(r).source = (r \in HasSource)
           /\ NewRow(r).prompt = (opened < born[job[r].reply])
           /\ born[job[r].reply] # 0
           /\ born[job[r].reply] <= NewRow(r).at /\ NewRow(r).at <= clock + 1
           /\ RowText(NewRow(r)) = JobText(r)
<1>1. job[r] \in Job /\ job[r] # Idle /\ job[r].reply \in Replies /\ job[r].len \in 1 .. 2
  BY AtIsJob, JobTypes DEF FunnelInv, Steps
<1>2. /\ born[job[r].reply] \in Nat /\ born[job[r].reply] # 0
      /\ born[job[r].reply] <= clock /\ clock \in Nat /\ opened \in Nat
  BY <1>1 DEF FunnelInv, JobsSound, JobSound, RowsDated, TypeOK
<1>3. /\ NewRow(r).id = clock + 1
      /\ NewRow(r).at = (IF r \in Dated THEN born[job[r].reply] ELSE clock + 1)
      /\ NewRow(r).reply = job[r].reply
      /\ NewRow(r).len = job[r].len
      /\ NewRow(r).source = (r \in HasSource)
      /\ NewRow(r).prompt = (opened < born[job[r].reply])
  BY DEF NewRow
<1>4. NewRow(r) \in Row
  BY <1>1, <1>2 DEF NewRow, Row
<1>5. RowText(NewRow(r)) = JobText(r)
  BY <1>3 DEF RowText, JobText
<1> QED
  BY <1>2, <1>3, <1>4, <1>5

(* A road writes its row while it holds the lock.                           *)
Puts(r) ==
    /\ At(r, "write") /\ ~Refuses(r)
    /\ rows' = rows \cup {NewRow(r)}
    /\ clock' = clock + 1
    /\ UNCHANGED <<alive, opened, born>>

LEMMA PutDated ==
    ASSUME FunnelInv, NEW r \in Roads, Puts(r)
    PROVE  /\ RowsDated'
           /\ rows' \subseteq Row /\ clock' \in Nat
           /\ clock + 1 \notin {x.id : x \in rows}
<1>1. /\ NewRow(r) \in Row /\ NewRow(r).id = clock + 1 /\ NewRow(r).reply = job[r].reply
      /\ NewRow(r).prompt = (opened < born[job[r].reply])
      /\ born[job[r].reply] # 0
      /\ born[job[r].reply] <= NewRow(r).at /\ NewRow(r).at <= clock + 1
  BY NewRowFacts DEF Puts
<1> USE DEF FunnelInv, RowsDated, TypeOK, Puts
<1>2. clock \in Nat /\ clock' = clock + 1 /\ rows' \subseteq Row
  BY <1>1
<1>3. \A m \in Replies : born'[m] <= clock'
  BY <1>2
<1>4. ~alive' => rows' = {}
  BY DEF Refuses
<1>5. ASSUME NEW x \in rows
      PROVE  x.id \in 1 .. clock /\ x.reply \in Replies /\ born[x.reply] \in Nat /\ x.at \in Nat
  BY DEF Row
<1>6. \A x, y \in rows' : x.id = y.id => x = y
  BY <1>1, <1>2, <1>5
<1>7. ASSUME NEW x \in rows'
      PROVE  /\ x.id \in 1 .. clock'
             /\ born'[x.reply] # 0 /\ born'[x.reply] <= x.at /\ x.at <= clock'
             /\ opened' < born'[x.reply] => x.prompt
  <2>1. CASE x \in rows
    <3>1. x.id \in 1 .. clock' /\ x.at <= clock'
      BY <1>2, <1>5, <2>1
    <3> QED
      BY <2>1, <3>1
  <2>2. CASE x = NewRow(r)
    <3>1. x.id \in 1 .. clock' /\ x.at <= clock'
      BY <1>1, <1>2, <2>2
    <3> QED
      BY <1>1, <2>2, <3>1
  <2> QED
    BY <2>1, <2>2
<1>8. opened' <= clock'
  BY <1>2
<1>9. clock + 1 \notin {x.id : x \in rows}
  BY <1>2, <1>5
<1>10. RowsDated'
  BY <1>3, <1>4, <1>6, <1>7, <1>8
<1> QED
  BY <1>2, <1>9, <1>10

LEMMA PutCut ==
    ASSUME FunnelInv, NEW r \in Roads, Puts(r),
           cut' = cut \/ cut' = cut \cup CutBy(r, rows')
    PROVE  CutRows'
<1>1. job[r].over # 0 => job[r].len = 2
  BY AtIsJob DEF FunnelInv, JobsSound, JobSound, Puts, Steps
<1>2. CutBy(r, rows') \subseteq {clock + 1} /\ (job[r].over = 0 => CutBy(r, rows') = {})
  BY NewRowFacts DEF CutBy, Upgrades, Puts, At
<1>3. NewRow(r).id = clock + 1 /\ NewRow(r).len = job[r].len
  BY NewRowFacts DEF Puts
<1>4. clock \in Nat /\ \A x \in rows : x.id <= clock
  BY DEF FunnelInv, RowsDated, TypeOK
<1>5. cut' \subseteq cut \cup {clock + 1} /\ clock' = clock + 1
  BY <1>2 DEF Puts
<1>6. \A id \in cut : id \in Nat /\ id <= clock
  BY DEF FunnelInv, TypeOK, CutRows
<1>7. \A id \in cut' : id <= clock'
  BY <1>4, <1>5, <1>6
<1>8. ASSUME NEW x \in rows, x.id \in cut'
      PROVE  x.len = 2
  <2>1. x.id # clock + 1
    BY <1>4 DEF FunnelInv, RowsDated
  <2> QED
    BY <1>5, <1>8, <2>1 DEF FunnelInv, CutRows
<1>9. ASSUME NewRow(r).id \in cut'
      PROVE  NewRow(r).len = 2
  <2>1. clock + 1 \notin cut
    BY <1>4, <1>6
  <2>2. job[r].over # 0
    BY <1>2, <1>3, <1>9, <2>1
  <2> QED
    BY <1>1, <1>3, <2>2
<1> QED
  BY <1>7, <1>8, <1>9 DEF CutRows, Puts

LEMMA NoOtherUpgrade ==
    ASSUME FunnelInv, NEW r \in Roads, InHand(r), ~Upgrades(r)
    PROVE  Upgrading = {}
<1> SUFFICES ASSUME NEW q \in OpenRoads, Upgrades(q)
             PROVE  FALSE
  BY DEF Upgrading
<1>1. q \in Roads /\ InHand(q)
  BY AtIsJob, RoadsAssumption DEF FunnelInv, Upgrades, Steps
<1>2. q = r
  BY <1>1, HandIsOpen
<1> QED
  BY <1>2

(* The scan found all that a new row could repeat; what it could not        *)
(* complete is a cut upgrade, what it completes makes this one an upgrade.  *)
LEMMA PutOnce ==
    ASSUME FunnelInv, NEW r \in Roads, Puts(r), cut \subseteq cut',
           job[r].over # 0 => clock + 1 \in cut' \cup Upgrading'
    PROVE  OncePerTurn'
<1> SUFFICES ASSUME NEW x \in rows', NEW y \in rows', Distinct(x.reply)', x.prompt,
                    y.prompt, x.reply = y.reply, x # y
             PROVE  {x.id, y.id} \cap (cut' \cup Upgrading') # {}
  BY DEF OncePerTurn
<1>1. Upgrading = {}
  BY AtIsJob, NoOtherUpgrade DEF FunnelInv, Puts, Upgrades, At, Steps
<1>2. Distinct(x.reply)
  BY DEF Distinct, Given, Puts
<1>3. ASSUME NEW z \in rows, z.reply = job[r].reply, Distinct(z.reply), opened < born[z.reply]
      PROVE  z.id \in cut' \/ clock + 1 \in cut' \cup Upgrading'
  <2>1. z.id = job[r].over \/ z.id \in cut
    BY <1>3 DEF FunnelInv, AllClear, ClearAt, Puts
  <2>2. z.id # 0
    BY DEF FunnelInv, RowsDated
  <2> QED
    BY <2>1, <2>2
<1>4. /\ NewRow(r).id = clock + 1 /\ NewRow(r).reply = job[r].reply
      /\ NewRow(r).prompt => opened < born[job[r].reply]
  BY NewRowFacts DEF Puts
<1>5. CASE x \in rows /\ y \in rows
  BY <1>1, <1>2, <1>5 DEF FunnelInv, OncePerTurn
<1>6. CASE x \in rows /\ y = NewRow(r)
  BY <1>2, <1>3, <1>4, <1>6
<1>7. CASE x = NewRow(r) /\ y \in rows
  BY <1>2, <1>3, <1>4, <1>7
<1> QED
  BY <1>5, <1>6, <1>7 DEF Puts

(* A road that is not past the lock has nothing to lose.                    *)
LEMMA WaitingSound ==
    ASSUME FunnelInv, RowsDated', NEW q \in Roads,
           job'[q] = Idle \/ (job'[q] = job[q] /\ ~InHand(q)),
           clock \in Nat, clock' \in Nat, born' = born
    PROVE  JobSound(q)' /\ ClearAt(q)'
<1>1. CASE job'[q] = Idle
  BY <1>1 DEF JobSound, ClearAt, At, Idle
<1>2. CASE job'[q] = job[q] /\ ~InHand(q) /\ job[q] # Idle
  <2>1. At(q, "waiting") /\ JobSound(q) /\ job[q].over = 0
    BY <1>2 DEF InHand, FunnelInv, JobsSound, JobSound
  <2>2. \A x \in rows' : x.id # 0
    BY DEF RowsDated
  <2>3. JobSound(q)'
    BY <1>2, <2>1, <2>2 DEF JobSound, At
  <2> QED
    BY <1>2, <2>1, <2>3 DEF ClearAt, At
<1> QED
  BY <1>1, <1>2

(* How a delivery that is stopped leaves the thread.                        *)
StoppedBy(r) ==
    /\ Stopped(r, rows')
    /\ clock' = IF rows' = rows THEN clock ELSE clock + 1
    /\ accepted' = accepted \cup {RowText(row) : row \in rows'}
    /\ cut' = cut \cup CutBy(r, rows')
    /\ UNCHANGED <<alive, opened, born>>

LEMMA StoppedRows ==
    ASSUME FunnelInv, NEW r \in Roads, StoppedBy(r)
    PROVE  \/ rows' = rows /\ clock' = clock /\ Later /\ AllKept
           \/ Puts(r) /\ InHand(r)
<1>1. CASE rows' = rows
  BY <1>1 DEF StoppedBy, Later, AllKept, SameRow, FunnelInv, RowsDated, TypeOK
<1>2. CASE rows' # rows
  BY <1>2, AtIsJob DEF StoppedBy, Stopped, Puts, FunnelInv, Steps
<1> QED
  BY <1>1, <1>2

LEMMA StoppedTypes ==
    ASSUME FunnelInv, NEW r \in Roads, StoppedBy(r)
    PROVE  /\ rows' \subseteq Row /\ clock' \in Nat /\ clock <= clock'
           /\ accepted' \subseteq Texts /\ cut' \subseteq Nat
           /\ RowsDated' /\ rows \subseteq rows'
<1>1. rows' \subseteq Row /\ clock' \in Nat /\ clock <= clock' /\ rows \subseteq rows'
  BY StoppedRows, PutDated DEF Later, Puts, FunnelInv, TypeOK
<1>2. RowsDated'
  BY StoppedRows, PutDated, LaterDated
<1>3. accepted' \subseteq Texts
  BY <1>1, RowTexts DEF StoppedBy, FunnelInv, TypeOK
<1>4. CutBy(r, rows') \subseteq Nat
  <2>1. Upgrades(r) => job[r].row \in Nat
    BY AtIsJob, JobTypes DEF Upgrades, FunnelInv, Steps
  <2>2. {x.id : x \in rows' \ rows} \subseteq Nat
    BY <1>1 DEF Row
  <2> QED
    BY <2>1, <2>2 DEF CutBy
<1> QED
  BY <1>1, <1>2, <1>3, <1>4 DEF StoppedBy, FunnelInv, TypeOK

LEMMA StoppedCut ==
    ASSUME FunnelInv, NEW r \in Roads, StoppedBy(r)
    PROVE  CutRows'
<1>1. CASE Puts(r)
  BY <1>1, PutCut DEF StoppedBy
<1>2. CASE rows' = rows /\ clock' = clock
  <2>1. CASE Upgrades(r)
    <3>1. /\ job[r].row <= clock /\ job[r].len = 2
          /\ \A x \in rows : x.id = job[r].row => x.len = job[r].len
      BY <2>1, AtIsJob DEF FunnelInv, JobsSound, JobSound, Upgrades, Steps
    <3>2. cut' = cut \cup {job[r].row}
      BY <2>1 DEF StoppedBy, CutBy
    <3> QED
      BY <1>2, <3>1, <3>2 DEF FunnelInv, CutRows
  <2>2. CASE ~Upgrades(r)
    <3>1. cut' = cut
      BY <1>2, <2>2 DEF StoppedBy, CutBy
    <3> QED
      BY <1>2, <3>1 DEF FunnelInv, CutRows
  <2> QED
    BY <2>1, <2>2
<1> QED
  BY <1>1, <1>2, StoppedRows

LEMMA StoppedSaid ==
    ASSUME FunnelInv, NEW r \in Roads, StoppedBy(r)
    PROVE  NothingSaidIsLost'
<1> SUFFICES ASSUME alive', NEW t \in accepted'
             PROVE  \E x \in rows' : Covers(RowText(x), t)
  BY DEF NothingSaidIsLost
<1>1. CASE t \in accepted
  BY <1>1, StoppedTypes DEF FunnelInv, NothingSaidIsLost, StoppedBy
<1>2. CASE \E x \in rows' : t = RowText(x)
  <2>1. PICK x \in rows' : t = RowText(x)
    BY <1>2
  <2>2. t \in Texts
    BY <2>1, RowTexts, StoppedTypes
  <2> QED
    BY <2>1, <2>2, CoversTypes
<1> QED
  BY <1>1, <1>2 DEF StoppedBy

(* Another upgrade under way stays under way, or there was none.            *)
LEMMA StoppedOnce ==
    ASSUME FunnelInv, NEW r \in Roads, StoppedBy(r),
           \A q \in OpenRoads : q # r /\ InHand(q) => job'[q] = job[q]
    PROVE  OncePerTurn'
<1>1. CASE Puts(r)
  <2>1. job[r].over # 0 => clock + 1 \in cut'
    BY <1>1, NewRowFacts, PutDated DEF Puts, StoppedBy, CutBy, Upgrades, At
  <2> QED
    BY <1>1, <2>1, PutOnce DEF StoppedBy
<1>2. CASE rows' = rows /\ Later
  <2>1. ASSUME NEW id \in Upgrading
        PROVE  id \in cut' \cup Upgrading'
    <3>1. PICK q \in OpenRoads : Upgrades(q) /\ id = job[q].row
      BY DEF Upgrading
    <3>2. q \in Roads /\ InHand(q)
      BY <3>1, AtIsJob, RoadsAssumption DEF Upgrades, FunnelInv, Steps
    <3>3. CASE q = r
      BY <3>1, <3>3 DEF StoppedBy, CutBy
    <3>4. CASE q # r
      BY <3>1, <3>2, <3>4 DEF Upgrading, Upgrades, At
    <3> QED
      BY <3>3, <3>4
  <2>2. cut \subseteq cut'
    BY DEF StoppedBy
  <2> QED
    BY <1>2, <2>1, <2>2, LaterOnce
<1> QED
  BY <1>1, <1>2, StoppedRows

(* The other jobs: past the lock there is none but the one that is stopped. *)
LEMMA StoppedJobs ==
    ASSUME FunnelInv, NEW r \in Roads, StoppedBy(r), NEW q \in Roads,
           job'[q] = Idle \/ (q # r /\ job'[q] = job[q])
    PROVE  JobSound(q)' /\ ClearAt(q)'
<1>1. CASE job'[q] = Idle
  BY <1>1 DEF JobSound, ClearAt, At, Idle
<1>2. CASE Puts(r) /\ InHand(r) /\ q # r /\ job'[q] = job[q]
  <2>1. ~InHand(q)
    BY <1>2, HandIsOpen
  <2> QED
    BY <1>2, <2>1, StoppedTypes, WaitingSound DEF StoppedBy, FunnelInv, TypeOK
<1>3. CASE Later /\ q # r /\ job'[q] = job[q]
  BY <1>3, LaterSound, LaterClear DEF StoppedBy
<1> QED
  BY <1>1, <1>2, <1>3, StoppedRows

-----------------------------------------------------------------------------
(* The person, the agent and time *)

LEMMA QuietKeeps ==
    ASSUME FunnelInv, TypeOK', Later, AllKept, UNCHANGED <<funnelState, history>>
    PROVE  FunnelInv'
<1> USE DEF funnelState, history
<1>1. Serial'
  BY DEF FunnelInv, Serial, InHand, At
<1>2. JobsSound' /\ AllClear'
  BY LaterSound, LaterClear DEF JobsSound, AllClear
<1>3. ClaimsAreBacked'
  BY KeptBacked DEF At, JobText
<1>4. OncePerTurn'
  BY LaterOnce DEF Upgrading, Upgrades, At
<1> QED
  BY <1>1, <1>2, <1>3, <1>4, LaterDated, LaterCut, KeptSaid DEF FunnelInv

LEMMA SameThread ==
    ASSUME FunnelInv, UNCHANGED <<threadState, born>>
    PROVE  Later /\ AllKept
BY DEF FunnelInv, TypeOK, RowsDated, threadState, Later, AllKept, SameRow

LEMMA AskLater ==
    ASSUME FunnelInv, Ask
    PROVE  Later /\ AllKept
BY DEF FunnelInv, TypeOK, RowsDated, Ask, Later, AllKept, SameRow

LEMMA GiveLater ==
    ASSUME FunnelInv, NEW m \in Replies, Give(m)
    PROVE  Later /\ AllKept
BY DEF FunnelInv, TypeOK, RowsDated, Give, Later, AllKept, SameRow

LEMMA TimePassesLater ==
    ASSUME FunnelInv, TimePasses
    PROVE  Later /\ AllKept
<1> DEFINE Aged(row) == [row EXCEPT !.fresh = FALSE]
<1>1. ASSUME NEW x \in rows
      PROVE  Aged(x) \in Row /\ SameRow(Aged(x), x)
  BY DEF FunnelInv, TypeOK, Row, SameRow
<1>2. rows' = {Aged(x) : x \in rows}
  BY DEF TimePasses
<1> HIDE DEF Aged
<1>3. rows' \subseteq Row
  BY <1>1, <1>2
<1>4. ASSUME NEW x \in rows', NEW y \in rows', x.id = y.id
      PROVE  x = y
  <2>1. PICK a \in rows : x = Aged(a)
    BY <1>2
  <2>2. PICK b \in rows : y = Aged(b)
    BY <1>2
  <2>3. a.id = b.id
    BY <1>1, <1>4, <2>1, <2>2 DEF SameRow
  <2> QED
    BY <2>1, <2>2, <2>3 DEF FunnelInv, RowsDated
<1>5. Later
  BY <1>1, <1>2, <1>3, <1>4 DEF Later, TimePasses, FunnelInv, TypeOK, RowsDated
<1>6. AllKept
  BY <1>1, <1>2 DEF AllKept, TimePasses
<1> QED
  BY <1>5, <1>6

LEMMA AskKeeps ==
    ASSUME FunnelInv, Ask
    PROVE  FunnelInv'
<1>1. TypeOK'
  BY DEF FunnelInv, TypeOK, RowsDated, Ask, funnelState, history
<1> QED
  BY <1>1, AskLater, QuietKeeps DEF Ask

LEMMA EndTurnKeeps ==
    ASSUME FunnelInv, EndTurn
    PROVE  FunnelInv'
<1>1. TypeOK'
  BY DEF FunnelInv, TypeOK, EndTurn, threadState, funnelState, history
<1> QED
  BY <1>1, SameThread, QuietKeeps DEF EndTurn

LEMMA GiveKeeps ==
    ASSUME FunnelInv, NEW m \in Replies, Give(m)
    PROVE  FunnelInv'
<1>1. TypeOK'
  BY DEF FunnelInv, TypeOK, RowsDated, Give, funnelState, history
<1> QED
  BY <1>1, GiveLater, QuietKeeps DEF Give

LEMMA TimePassesKeeps ==
    ASSUME FunnelInv, TimePasses
    PROVE  FunnelInv'
<1>1. TypeOK'
  BY TimePassesLater DEF Later, TimePasses, FunnelInv, TypeOK, Given, funnelState, history
<1> QED
  BY <1>1, TimePassesLater, QuietKeeps DEF TimePasses

LEMMA SweepReadsKeeps ==
    ASSUME FunnelInv, SweepReads
    PROVE  FunnelInv'
<1>1. TypeOK'
  BY RowTexts DEF FunnelInv, TypeOK, SweepReads, threadState, turnState, funnelState, history
<1> QED
  BY <1>1, SameThread, QuietKeeps DEF SweepReads, turnState

LEMMA RecoveryDoneKeeps ==
    ASSUME FunnelInv, RecoveryDone
    PROVE  FunnelInv'
<1>1. TypeOK'
  BY DEF FunnelInv, TypeOK, RecoveryDone, threadState, funnelState, history
<1> QED
  BY <1>1, SameThread, QuietKeeps DEF RecoveryDone

-----------------------------------------------------------------------------
(* A delivery, up to its write *)

(* A step of road r that touches neither the thread nor an upgrade's row.   *)
StepOf(r) ==
    /\ UNCHANGED <<threadState, born, cut>>
    /\ \A q \in Roads \ {r} : job'[q] = job[q]

LEMMA StepIsLater ==
    ASSUME FunnelInv, NEW r \in Roads, StepOf(r)
    PROVE  Later /\ AllKept
BY SameThread DEF StepOf

LEMMA StepKeeps ==
    ASSUME FunnelInv, NEW r \in Roads, StepOf(r), ~Upgrades(r), TypeOK', Serial',
           JobSound(r)', ClearAt(r)', NothingSaidIsLost', ClaimsAreBacked'
    PROVE  FunnelInv'
<1>1. Later /\ AllKept
  BY StepIsLater
<1>2. cut' = cut
  BY DEF StepOf
<1>3. ASSUME NEW q \in Roads
      PROVE  JobSound(q)' /\ ClearAt(q)'
  BY <1>1, <1>2, LaterSound, LaterClear DEF StepOf
<1>4. Upgrading \subseteq Upgrading'
  BY RoadsAssumption DEF StepOf, Upgrading, Upgrades, At
<1>5. OncePerTurn'
  BY <1>1, <1>2, <1>4, LaterOnce
<1> QED
  BY <1>1, <1>2, <1>3, <1>5, LaterDated, LaterCut DEF FunnelInv, JobsSound, AllClear

LEMMA HearKeeps ==
    ASSUME FunnelInv, NEW r \in OpenRoads, NEW m \in Replies, NEW len \in 1 .. 2,
           Hear(r, m, len)
    PROVE  FunnelInv'
<1>1. r \in Roads
  BY RoadsAssumption
<1> DEFINE new == [step |-> "waiting", reply |-> m, len |-> len, over |-> 0, row |-> 0]
<1>2. /\ new \in Job /\ job' = [job EXCEPT ![r] = new]
      /\ new.step = "waiting" /\ new.reply = m /\ new.over = 0
  BY DEF Job, Steps, Hear
<1>3. job'[r] = new /\ \A q \in Roads \ {r} : job'[q] = job[q]
  BY <1>1, <1>2 DEF FunnelInv, TypeOK
<1> HIDE DEF new
<1>4. StepOf(r)
  BY <1>3 DEF StepOf, Hear, turnState, history
<1>5. job[r] = Idle /\ job[r].step = "idle"
  BY DEF Hear, Idle
<1>6. TypeOK'
  <2>1. job' \in [Roads -> Job \cup {Idle}]
    BY <1>1, <1>2 DEF FunnelInv, TypeOK
  <2> QED
    BY <2>1 DEF Hear, FunnelInv, TypeOK, threadState, turnState, history
<1>7. new # Idle
  BY <1>2, <1>5 DEF Idle
<1>8. Serial'
  <2>1. ~InHand(r) /\ ~InHand(r)'
    BY <1>2, <1>3, <1>5 DEF InHand, At
  <2> QED
    BY <1>3, <2>1 DEF Hear, FunnelInv, Serial, InHand, At
<1>9. JobSound(r)' /\ ClearAt(r)'
  <2>1. \A x \in rows : x.id # 0
    BY DEF FunnelInv, RowsDated
  <2>2. born[m] # 0 /\ clock \in Nat
    BY DEF Hear, Given, FunnelInv, TypeOK
  <2> QED
    BY <1>2, <1>3, <2>1, <2>2 DEF Hear, threadState, turnState, JobSound, ClearAt, At
<1>10. NothingSaidIsLost'
  BY <1>1, <1>4, StepIsLater, KeptSaid DEF Hear, history
<1>11. ClaimsAreBacked'
  <2>1. \A q \in OpenRoads : At(q, "claimed") \/ At(q, "write") => q # r
    BY <1>5 DEF At
  <2>2. \A q \in OpenRoads : At(q, "claimed") \/ At(q, "write") =>
            (At(q, "claimed") \/ At(q, "write"))' /\ JobText(q)' = JobText(q)
    BY <1>3, <2>1, RoadsAssumption DEF At, JobText
  <2> QED
    BY <1>1, <1>4, <2>2, StepIsLater, KeptBacked DEF Hear
<1>12. ~Upgrades(r)
  BY <1>5 DEF Upgrades, At
<1> QED
  BY <1>1, <1>4, <1>6, <1>8, <1>9, <1>10, <1>11, <1>12, StepKeeps

(* Road r is idle again: the lock is free unless another holds it.          *)
Ends(r) == job' = [job EXCEPT ![r] = Idle] /\ lock' = Unlocked(r)

LEMMA EndsFacts ==
    ASSUME FunnelInv, NEW r \in Roads, Ends(r)
    PROVE  /\ job' \in [Roads -> Job \cup {Idle}] /\ job'[r] = Idle
           /\ \A q \in Roads \ {r} : job'[q] = job[q]
           /\ lock' \in OpenRoads \cup {Free}
           /\ Serial'
           /\ JobSound(r)' /\ ClearAt(r)'
<1>1. /\ job' \in [Roads -> Job \cup {Idle}] /\ job'[r] = Idle
      /\ \A q \in Roads \ {r} : job'[q] = job[q]
  BY DEF Ends, FunnelInv, TypeOK
<1>2. lock' = (IF lock = r THEN Free ELSE lock)
  BY DEF Ends, Unlocked
<1>3. lock' \in OpenRoads \cup {Free}
  BY <1>2 DEF FunnelInv, TypeOK
<1>4. JobSound(r)' /\ ClearAt(r)'
  BY <1>1 DEF JobSound, ClearAt, At, Idle
<1>5. ~InHand(r)'
  BY <1>1 DEF InHand
<1>6. \A q \in Roads \ {r} : InHand(q)' <=> InHand(q)
  BY <1>1 DEF InHand, At
<1>7. \A q \in Roads : InHand(q)' => lock' = q
  BY <1>2, <1>5, <1>6 DEF FunnelInv, Serial
<1>8. lock' # Free => InHand(lock)' /\ lock' = lock
  BY <1>2, <1>6, RoadsAssumption DEF FunnelInv, Serial, TypeOK
<1>9. lock' # Free => (\A q : q = lock' => (job'[q] # Idle /\ job'[q].step # "waiting"))
  BY <1>8 DEF InHand, At
<1>10. Serial'
  BY <1>7, <1>9 DEF Serial, InHand, At
<1> QED
  BY <1>1, <1>3, <1>4, <1>10

LEMMA TakeKnownKeeps ==
    ASSUME FunnelInv, NEW r \in OpenRoads, TakeKnown(r)
    PROVE  FunnelInv'
<1>1. r \in Roads
  BY RoadsAssumption
<1>2. At(r, "waiting") /\ job[r] \in Job /\ job[r] # Idle /\ JobText(r) \in Texts /\ lock = Free
  BY <1>1, AtIsJob, JobTypes DEF TakeKnown, FunnelInv, Steps, MayTake
<1>3. Ends(r)
  BY <1>1, <1>2, RoadsAssumption DEF Ends, TakeKnown, Unlocked, Free, Roads
<1>4. StepOf(r)
  BY <1>1, <1>3, EndsFacts DEF StepOf, TakeKnown, turnState
<1>5. TypeOK'
  <2>1. accepted' \subseteq Texts
    BY <1>2 DEF TakeKnown, FunnelInv, TypeOK
  <2> QED
    BY <1>1, <1>3, <2>1, EndsFacts DEF TakeKnown, FunnelInv, TypeOK, threadState, turnState
<1>6. alive => \A t \in delivered : \E row \in rows : Covers(RowText(row), t)
  BY <1>2, RoadsAssumption DEF FunnelInv, ClaimsAreBacked, Free, Roads
<1>7. NothingSaidIsLost'
  <2>1. ASSUME alive, NEW t \in accepted' \ accepted
        PROVE  \E y \in rows : Covers(RowText(y), t)
    <3>1. t = JobText(r) /\ \E u \in ClaimTwins(r) : Covers(u, JobText(r))
      BY <2>1 DEF TakeKnown, Recognised
    <3>2. PICK u \in delivered : Covers(u, t)
      BY <3>1 DEF ClaimTwins
    <3>3. PICK y \in rows : Covers(RowText(y), u)
      BY <1>6, <2>1
    <3>4. RowText(y) \in Texts /\ u \in Texts
      BY RowTexts DEF FunnelInv, TypeOK
    <3> QED
      BY <1>2, <3>1, <3>2, <3>3, <3>4, CoversTypes
  <2> QED
    BY <1>1, <1>4, <2>1, StepIsLater, KeptSaid
<1>8. ClaimsAreBacked'
  BY <1>6 DEF TakeKnown, threadState, ClaimsAreBacked, RowText
<1>9. ~Upgrades(r)
  BY <1>2 DEF Upgrades, At
<1> QED
  BY <1>1, <1>3, <1>4, <1>5, <1>7, <1>8, <1>9, EndsFacts, StepKeeps

LEMMA TakeNewKeeps ==
    ASSUME FunnelInv, NEW r \in OpenRoads, TakeNew(r)
    PROVE  FunnelInv'
<1>1. r \in Roads
  BY RoadsAssumption
<1>2. /\ At(r, "waiting") /\ job[r] \in Job /\ job[r] # Idle /\ JobText(r) \in Texts
      /\ lock = Free
  BY <1>1, AtIsJob, JobTypes DEF TakeNew, FunnelInv, Steps, MayTake
<1> DEFINE new == [job[r] EXCEPT !.step = "claimed"]
<1>3. /\ new \in Job /\ new.step = "claimed" /\ new.reply = job[r].reply
      /\ new.len = job[r].len /\ new.over = job[r].over
  BY <1>2 DEF Job, Steps
<1>4. /\ job' \in [Roads -> Job \cup {Idle}] /\ job'[r] = new
      /\ \A q \in Roads \ {r} : job'[q] = job[q]
  BY <1>1, <1>3 DEF TakeNew, FunnelInv, TypeOK
<1> HIDE DEF new
<1>5. StepOf(r)
  BY <1>4 DEF StepOf, TakeNew, turnState, history
<1>6. TypeOK'
  <2>1. delivered' \subseteq Texts
    BY <1>2 DEF TakeNew, FunnelInv, TypeOK
  <2> QED
    BY <1>4, <2>1 DEF TakeNew, FunnelInv, TypeOK, threadState, turnState, history
<1>7. new # Idle
  BY <1>3 DEF Idle
<1>8. Serial'
  <2>1. \A q \in Roads \ {r} : ~InHand(q)'
    BY <1>2, <1>4, RoadsAssumption DEF FunnelInv, Serial, InHand, At, Free, Roads
  <2>2. lock' = r /\ InHand(r)'
    BY <1>3, <1>4, <1>7 DEF TakeNew, InHand, At
  <2>3. \A q : q = r => job'[q] # Idle /\ job'[q].step # "waiting"
    BY <1>3, <1>4, <1>7
  <2> QED
    BY <2>1, <2>2, <2>3 DEF Serial, InHand, At
<1>9. JobSound(r)' /\ ClearAt(r)'
  <2>1. JobSound(r) /\ job[r].over = 0
    BY <1>1, <1>2 DEF FunnelInv, JobsSound, JobSound
  <2>2. \A x \in rows : x.id # 0
    BY DEF FunnelInv, RowsDated
  <2> QED
    BY <1>2, <1>3, <1>4, <2>1, <2>2 DEF JobSound, ClearAt, At, TakeNew, threadState, turnState
<1>10. NothingSaidIsLost'
  BY <1>1, <1>5, StepIsLater, KeptSaid DEF TakeNew, history
<1>11. ClaimsAreBacked'
  <2> SUFFICES ASSUME alive, NEW t \in delivered'
               PROVE  \/ \E row \in rows : Covers(RowText(row), t)
                      \/ lock' = r /\ At(r, "claimed")' /\ JobText(r)' = t
    BY DEF ClaimsAreBacked, TakeNew, threadState, RowText
  <2>1. CASE t \in delivered
    BY <1>2, <2>1, RoadsAssumption DEF FunnelInv, ClaimsAreBacked, Free, Roads
  <2>2. CASE t = JobText(r)
    BY <1>3, <1>4, <2>2 DEF TakeNew, At, JobText
  <2> QED
    BY <2>1, <2>2 DEF TakeNew
<1>12. ~Upgrades(r)
  BY <1>2 DEF Upgrades, At
<1> QED
  BY <1>1, <1>5, <1>6, <1>8, <1>9, <1>10, <1>11, <1>12, StepKeeps

-----------------------------------------------------------------------------
(* The scan *)

LEMMA NatMinimum ==
    ASSUME NEW S \in SUBSET Nat, S # {}
    PROVE  \E n \in S : \A m \in S : n <= m
<1> DEFINE R == OpToRel(<, Nat)
<1>1. R = {pair \in Nat \X Nat : pair[1] < pair[2]}
  BY Zenon DEF OpToRel
<1>2. IsWellFoundedOn(R, Nat)
  BY Zenon, NatLessThanWellFounded
<1> HIDE DEF R
<1>3. PICK x \in S : \A y \in S : ~(<<y, x>> \in R)
  BY <1>2, WFMin
<1>4. \A y \in S : x <= y
  <2> SUFFICES ASSUME NEW y \in S, y < x PROVE FALSE
    OBVIOUS
  <2>1. <<y, x>> \in Nat \X Nat
    OBVIOUS
  <2>2. <<y, x>> \in R
    BY <1>1, <2>1
  <2> QED
    BY <1>3, <2>2
<1> QED
  BY <1>4

(* Rows are in one order, so a scan from either end finds one.              *)
LEMMA OldestFound ==
    ASSUME NEW S \in SUBSET Row, S # {}, \A x, y \in S : x.id = y.id => x = y
    PROVE  Oldest(S) # {}
<1>1. \A x \in S : x.at \in Nat /\ x.id \in Nat
  BY DEF Row
<1>2. PICK a \in {x.at : x \in S} : \A m \in {x.at : x \in S} : a <= m
  <2> DEFINE times == {x.at : x \in S}
  <2>1. times \in SUBSET Nat /\ times # {}
    BY <1>1
  <2> HIDE DEF times
  <2>2. \E n \in times : \A m \in times : n <= m
    BY <2>1, NatMinimum
  <2> QED
    BY <2>2 DEF times
<1>3. PICK i \in {x.id : x \in {y \in S : y.at = a}} :
          \A m \in {x.id : x \in {y \in S : y.at = a}} : i <= m
  <2> DEFINE ids == {x.id : x \in {y \in S : y.at = a}}
  <2>1. ids \in SUBSET Nat /\ ids # {}
    BY <1>1, <1>2
  <2> HIDE DEF ids
  <2>2. \E n \in ids : \A m \in ids : n <= m
    BY <2>1, NatMinimum
  <2> QED
    BY <2>2 DEF ids
<1>4. PICK x \in S : x.at = a /\ x.id = i
  BY <1>3
<1>5. ASSUME NEW y \in S
      PROVE  x = y \/ Before(x, y)
  <2>1. a <= y.at
    BY <1>2
  <2>2. y.at = a => i <= y.id
    BY <1>3
  <2>3. y.id = i => x = y
    BY <1>4
  <2> QED
    BY <1>1, <1>4, <2>1, <2>2, <2>3 DEF Before
<1> QED
  BY <1>5 DEF Oldest

LEMMA NewestFound ==
    ASSUME NEW S \in SUBSET Row, S # {}, \A x, y \in S : x.id = y.id => x = y,
           NEW bound \in Nat, \A x \in S : x.at <= bound /\ x.id <= bound
    PROVE  Newest(S) # {}
<1>1. \A x \in S : x.at \in Nat /\ x.id \in Nat /\ bound - x.at \in Nat /\ bound - x.id \in Nat
  BY DEF Row
<1>2. PICK a \in {bound - x.at : x \in S} : \A m \in {bound - x.at : x \in S} : a <= m
  <2> DEFINE times == {bound - x.at : x \in S}
  <2>1. times \in SUBSET Nat /\ times # {}
    BY <1>1
  <2> HIDE DEF times
  <2>2. \E n \in times : \A m \in times : n <= m
    BY <2>1, NatMinimum
  <2> QED
    BY <2>2 DEF times
<1>3. PICK i \in {bound - x.id : x \in {y \in S : bound - y.at = a}} :
          \A m \in {bound - x.id : x \in {y \in S : bound - y.at = a}} : i <= m
  <2> DEFINE ids == {bound - x.id : x \in {y \in S : bound - y.at = a}}
  <2>1. ids \in SUBSET Nat /\ ids # {}
    BY <1>1, <1>2
  <2> HIDE DEF ids
  <2>2. \E n \in ids : \A m \in ids : n <= m
    BY <2>1, NatMinimum
  <2> QED
    BY <2>2 DEF ids
<1>4. PICK x \in S : bound - x.at = a /\ bound - x.id = i
  BY <1>3
<1>5. ASSUME NEW y \in S
      PROVE  x = y \/ Before(y, x)
  <2>1. a <= bound - y.at
    BY <1>2
  <2>2. bound - y.at = a => i <= bound - y.id
    BY <1>3
  <2>3. y.id = x.id => x = y
    OBVIOUS
  <2>4. y.at <= x.at /\ (y.at = x.at => y.id <= x.id)
    BY <1>1, <1>4, <2>1, <2>2
  <2> QED
    BY <1>1, <2>3, <2>4 DEF Before
<1> QED
  BY <1>5 DEF Newest

LEMMA MatchIsOne ==
    ASSUME FunnelInv, NEW r \in Roads
    PROVE  /\ Match(r) \subseteq Twins(r)
           /\ \A x, y \in Match(r) : x = y
<1>1. \A x \in rows : x.at \in Nat /\ x.id \in Nat
  BY DEF FunnelInv, TypeOK, Row
<1>2. \A x, y \in rows : ~(Before(x, y) /\ Before(y, x))
  BY <1>1 DEF Before
<1>3. Match(r) \subseteq Twins(r)
  BY DEF Match, Oldest, Newest, Trailing, Twins
<1>4. Twins(r) \subseteq rows
  BY DEF Twins
<1>5. ASSUME NEW x \in Match(r), NEW y \in Match(r), x # y
      PROVE  Before(x, y) /\ Before(y, x)
  BY <1>5 DEF Match, Oldest, Newest
<1> QED
  BY <1>2, <1>3, <1>4, <1>5

(* The scan misses no row of a reply since which nobody has written.        *)
LEMMA ScanSees ==
    ASSUME FunnelInv, NEW r \in Roads, job[r] \in Job,
           NEW x \in rows, x.reply = job[r].reply, opened < born[x.reply]
    PROVE  Match(r) # {}
<1>1. x \in Twins(r)
  BY DEF Twins, RowText, JobText, TextOf, Twin
<1>2. x.at \in Nat /\ opened \in Nat /\ born[x.reply] \in Nat /\ born[x.reply] <= x.at
  BY DEF FunnelInv, TypeOK, RowsDated, Row
<1>3. x \in Trailing(r)
  BY <1>1, <1>2 DEF Trailing
<1>4. /\ Twins(r) \in SUBSET Row /\ Trailing(r) \in SUBSET Row
      /\ \A y \in Twins(r) : y.at <= clock /\ y.id <= clock
      /\ \A y, z \in Twins(r) : y.id = z.id => y = z
  BY DEF FunnelInv, TypeOK, RowsDated, Twins, Trailing
<1>5. \A y, z \in Trailing(r) : y.id = z.id => y = z
  BY <1>4 DEF Trailing
<1>6. \A y \in Trailing(r) : y.at <= clock /\ y.id <= clock
  BY <1>4 DEF Trailing
<1>7. Oldest(Twins(r)) # {}
  BY <1>1, <1>4, OldestFound
<1>8. Newest(Trailing(r)) # {}
  BY <1>3, <1>4, <1>5, <1>6, NewestFound DEF FunnelInv, TypeOK
<1> QED
  BY <1>3, <1>7, <1>8 DEF Match

LEMMA ScanFacts ==
    ASSUME FunnelInv, NEW r \in Roads, At(r, "claimed"),
           \A row \in Existing(r) : ~Covers(RowText(row), JobText(r))
    PROVE  /\ \A e \in Existing(r) :
                /\ e \in rows /\ e.len = 1 /\ job[r].len = 2
                /\ Twin(RowText(e), JobText(r)) /\ SameMessage(r, e)
           /\ \A x \in rows :
                x.reply = job[r].reply /\ Distinct(x.reply) /\ opened < born[x.reply] =>
                    /\ Existing(r) # {}
                    /\ \A e \in Existing(r) : x = e \/ x.id \in cut
<1>1. job[r] \in Job /\ job[r].reply \in Replies /\ job[r].len \in 1 .. 2 /\ JobText(r) \in Texts
  BY AtIsJob, JobTypes DEF FunnelInv, Steps
<1>2. \A e \in Twins(r) :
          e \in rows /\ e \in Row /\ RowText(e) \in Texts /\ Twin(RowText(e), JobText(r))
  BY RowTexts DEF Twins, FunnelInv, TypeOK
<1>3. ASSUME NEW e \in Existing(r)
      PROVE  /\ e \in rows /\ e.len = 1 /\ job[r].len = 2
             /\ Twin(RowText(e), JobText(r)) /\ SameMessage(r, e)
  <2>1. e \in Twins(r) /\ SameMessage(r, e)
    BY MatchIsOne DEF Existing
  <2>2. RowText(e).len = 1 /\ JobText(r).len = 2
    BY <1>1, <1>2, <2>1, CoversTypes
  <2> QED
    BY <1>2, <2>1, <2>2 DEF RowText, JobText, TextOf
<1>4. ASSUME NEW x \in rows, x.reply = job[r].reply, Distinct(x.reply),
             opened < born[x.reply]
      PROVE  /\ Existing(r) # {}
             /\ \A e \in Existing(r) : x = e \/ x.id \in cut
  <2>1. Match(r) # {}
    BY <1>1, <1>4, ScanSees
  <2>2. ASSUME NEW e \in Twins(r)
        PROVE  e.reply = x.reply
    <3>1. e.reply \in Given
      BY <1>2 DEF FunnelInv, RowsDated, Given, Row
    <3>2. Wording[e.reply] = Wording[x.reply]
      BY <1>2, <1>4 DEF Twin, RowText, JobText, TextOf
    <3> QED
      BY <1>4, <3>1, <3>2 DEF Distinct
  <2>3. Existing(r) = Match(r)
    BY <1>4, <2>2, MatchIsOne DEF Existing, SameMessage
  <2>4. ASSUME NEW e \in Existing(r), x # e
        PROVE  x.id \in cut
    <3>1. e \in rows /\ e.len = 1 /\ e.reply = x.reply
      BY <1>3, <2>2, MatchIsOne DEF Existing
    <3>2. x.prompt /\ e.prompt
      BY <1>4, <3>1 DEF FunnelInv, RowsDated
    <3>3. Upgrading = {}
      BY AtIsJob, NoOtherUpgrade DEF FunnelInv, Upgrades, At, Steps
    <3>4. {x.id, e.id} \cap cut # {}
      BY <1>4, <2>4, <3>1, <3>2, <3>3 DEF FunnelInv, OncePerTurn
    <3>5. e.id \notin cut
      BY <3>1 DEF FunnelInv, CutRows
    <3> QED
      BY <3>4, <3>5
  <2> QED
    BY <2>1, <2>3, <2>4
<1> QED
  BY <1>3, <1>4

LEMMA ScanPassesKeeps ==
    ASSUME FunnelInv, NEW r \in OpenRoads, ScanPasses(r)
    PROVE  FunnelInv'
<1>1. r \in Roads
  BY RoadsAssumption
<1>2. /\ At(r, "claimed") /\ job[r] \in Job /\ job[r] # Idle /\ InHand(r) /\ lock = r
      /\ JobSound(r)
  BY <1>1, AtIsJob, HandIsOpen DEF ScanPasses, FunnelInv, Steps, JobsSound
<1>3. \A row \in Existing(r) : ~Covers(RowText(row), JobText(r))
  BY DEF ScanPasses
<1>4. PICK over \in IF Existing(r) = {} THEN {0} ELSE {x.id : x \in Existing(r)} :
          job' = [job EXCEPT ![r].step = "write", ![r].over = over]
  BY DEF ScanPasses
<1>5. /\ over = 0 /\ Existing(r) = {}
      \/ \E e \in Existing(r) : over = e.id
  BY <1>4
<1>6. \A e \in Existing(r) : e \in rows /\ e.id \in Nat /\ e.id <= clock /\ e.id # 0
  BY <1>1, <1>2, <1>3, ScanFacts DEF FunnelInv, RowsDated
<1>7. over \in Nat /\ over <= clock
  BY <1>5, <1>6 DEF FunnelInv, TypeOK
<1> DEFINE new == [job[r] EXCEPT !.step = "write", !.over = over]
<1>8. /\ new \in Job /\ new.step = "write" /\ new.reply = job[r].reply
      /\ new.len = job[r].len /\ new.over = over
  BY <1>2, <1>7 DEF Job, Steps
<1>9. /\ job' \in [Roads -> Job \cup {Idle}] /\ job'[r] = new
      /\ \A q \in Roads \ {r} : job'[q] = job[q]
  BY <1>1, <1>4, <1>8 DEF FunnelInv, TypeOK
<1> HIDE DEF new
<1>10. StepOf(r)
  BY <1>9 DEF StepOf, ScanPasses, turnState, history
<1>11. TypeOK'
  BY <1>9 DEF ScanPasses, FunnelInv, TypeOK, threadState, turnState, history
<1>12. new # Idle
  BY <1>8 DEF Idle
<1>13. Serial'
  <2>1. \A q \in Roads \ {r} : ~InHand(q)'
    BY <1>1, <1>2, <1>9, HandIsOpen DEF InHand, At
  <2>2. \A q : q = r => job'[q] # Idle /\ job'[q].step # "waiting"
    BY <1>8, <1>9, <1>12
  <2>3. lock' = r
    BY <1>2 DEF ScanPasses
  <2> QED
    BY <2>1, <2>2, <2>3 DEF Serial, InHand, At
<1>14. JobText(r)' = JobText(r)
  BY <1>8, <1>9 DEF JobText
<1>15. JobSound(r)'
  <2>1. ASSUME NEW x \in rows, x.id = over
        PROVE  x.len = 1 /\ job[r].len = 2 /\ Twin(RowText(x), JobText(r)) /\ SameMessage(r, x)
    <3>1. x \in Existing(r)
      BY <1>5, <1>6, <2>1 DEF FunnelInv, RowsDated
    <3> QED
      BY <3>1, <1>1, <1>2, <1>3, ScanFacts
  <2>2. over # 0 => job[r].len = 2
    BY <1>1, <1>2, <1>3, <1>5, ScanFacts
  <2>3. \A x \in rows' : SameMessage(r, x) => SameMessage(r, x)'
    BY <1>8, <1>9 DEF SameMessage
  <2> QED
    BY <1>2, <1>7, <1>8, <1>9, <1>14, <2>1, <2>2, <2>3
       DEF JobSound, At, ScanPasses, threadState, turnState, RowText
<1>16. ClearAt(r)'
  <2>1. ASSUME NEW x \in rows, x.reply = job[r].reply, Distinct(x.reply),
               opened < born[x.reply]
        PROVE  x.id = over \/ x.id \in cut
    BY <1>1, <1>2, <1>3, <1>5, <2>1, ScanFacts
  <2> QED
    BY <1>8, <1>9, <2>1
       DEF ClearAt, At, ScanPasses, threadState, turnState, history, Distinct, Given
<1>17. NothingSaidIsLost'
  BY <1>1, <1>10, StepIsLater, KeptSaid DEF ScanPasses, history
<1>18. ClaimsAreBacked'
  <2>1. (At(r, "claimed") \/ At(r, "write"))'
    BY <1>8, <1>9 DEF At
  <2> QED
    BY <1>1, <1>2, <1>10, <1>14, <2>1, StepIsLater, KeptBacked DEF ScanPasses
<1>19. ~Upgrades(r)
  BY <1>2 DEF Upgrades, At
<1> QED
  BY <1>1, <1>10, <1>11, <1>13, <1>15, <1>16, <1>17, <1>18, <1>19, StepKeeps

LEMMA ScanFindsKeeps ==
    ASSUME FunnelInv, NEW r \in OpenRoads, ScanFinds(r)
    PROVE  FunnelInv'
<1>1. r \in Roads
  BY RoadsAssumption
<1>2. /\ At(r, "claimed") /\ job[r] \in Job /\ JobText(r) \in Texts /\ lock = r
  BY <1>1, AtIsJob, JobTypes, HandIsOpen DEF ScanFinds, FunnelInv, Steps
<1>3. Ends(r) /\ StepOf(r)
  BY <1>1, EndsFacts DEF Ends, ScanFinds, StepOf, turnState
<1>4. TypeOK'
  <2>1. accepted' \subseteq Texts
    BY <1>2 DEF ScanFinds, FunnelInv, TypeOK
  <2> QED
    BY <1>1, <1>3, <2>1, EndsFacts DEF ScanFinds, FunnelInv, TypeOK, threadState, turnState
<1>5. \E y \in rows : Covers(RowText(y), JobText(r))
  BY <1>1, MatchIsOne DEF ScanFinds, Existing, Twins
<1>6. NothingSaidIsLost'
  BY <1>1, <1>3, <1>5, StepIsLater, KeptSaid DEF ScanFinds
<1>7. ClaimsAreBacked'
  BY <1>1, <1>2, <1>3, <1>5, StepIsLater, KeptBacked DEF ScanFinds
<1>8. ~Upgrades(r)
  BY <1>2 DEF Upgrades, At
<1> QED
  BY <1>1, <1>3, <1>4, <1>6, <1>7, <1>8, EndsFacts, StepKeeps

LEMMA ScanGoneKeeps ==
    ASSUME FunnelInv, NEW r \in OpenRoads, ScanGone(r)
    PROVE  FunnelInv'
<1>1. r \in Roads
  BY RoadsAssumption
<1>2. Ends(r) /\ StepOf(r)
  BY <1>1, EndsFacts DEF Ends, ScanGone, StepOf, turnState, history
<1>3. TypeOK'
  BY <1>1, <1>2, EndsFacts
     DEF ScanGone, FunnelInv, TypeOK, threadState, turnState, history
<1>4. NothingSaidIsLost' /\ ClaimsAreBacked'
  BY DEF ScanGone, threadState, NothingSaidIsLost, ClaimsAreBacked
<1>5. ~Upgrades(r)
  BY DEF ScanGone, Upgrades, At
<1> QED
  BY <1>1, <1>2, <1>3, <1>4, <1>5, EndsFacts, StepKeeps

LEMMA RefusedKeeps ==
    ASSUME FunnelInv, NEW r \in OpenRoads, Refused(r)
    PROVE  FunnelInv'
<1>1. r \in Roads
  BY RoadsAssumption
<1>2. lock = r
  BY <1>1, AtIsJob, HandIsOpen DEF Refused, FunnelInv, Steps
<1>3. Ends(r) /\ StepOf(r)
  BY <1>1, EndsFacts DEF Ends, Refused, StepOf, turnState, history
<1>4. TypeOK'
  <2>1. delivered' \subseteq Texts
    BY DEF Refused, Released, FunnelInv, TypeOK
  <2> QED
    BY <1>1, <1>3, <2>1, EndsFacts
       DEF Refused, FunnelInv, TypeOK, threadState, turnState, history
<1>5. NothingSaidIsLost'
  BY <1>1, <1>3, StepIsLater, KeptSaid DEF Refused, history
<1>6. ClaimsAreBacked'
  BY <1>1, <1>2, <1>3, StepIsLater, KeptBacked DEF Refused, Released
<1>7. ~Upgrades(r)
  BY DEF Refused, Upgrades, At
<1> QED
  BY <1>1, <1>3, <1>4, <1>5, <1>6, <1>7, EndsFacts, StepKeeps

-----------------------------------------------------------------------------
(* The write, and what comes after *)

LEMMA WriteKeeps ==
    ASSUME FunnelInv, NEW r \in OpenRoads, Write(r)
    PROVE  FunnelInv'
<1>1. r \in Roads
  BY RoadsAssumption
<1>2. /\ At(r, "write") /\ job[r] \in Job /\ job[r] # Idle /\ InHand(r) /\ lock = r
      /\ JobSound(r) /\ JobText(r) \in Texts
  BY <1>1, AtIsJob, JobTypes, HandIsOpen DEF Write, FunnelInv, Steps, JobsSound
<1>3. clock \in Nat /\ clock + 1 \in Nat
  BY DEF FunnelInv, TypeOK
<1> DEFINE new == [job[r] EXCEPT !.step = "landed", !.row = clock + 1]
<1>4. /\ new \in Job /\ new.step = "landed" /\ new.reply = job[r].reply
      /\ new.len = job[r].len /\ new.over = job[r].over /\ new.row = clock + 1
  BY <1>2, <1>3 DEF Job, Steps
<1>5. /\ job' \in [Roads -> Job \cup {Idle}] /\ job'[r] = new
      /\ \A q \in Roads \ {r} : job'[q] = job[q]
  BY <1>1, <1>4 DEF Write, FunnelInv, TypeOK
<1> HIDE DEF new
<1>6. Puts(r)
  BY DEF Puts, Write, turnState
<1>7. /\ RowsDated' /\ rows' \subseteq Row /\ clock' \in Nat
      /\ \A x \in rows : x.id # clock + 1
  BY <1>1, <1>6, PutDated
<1>8. /\ NewRow(r).id = clock + 1 /\ NewRow(r).reply = job[r].reply
      /\ NewRow(r).len = job[r].len /\ NewRow(r).source = (r \in HasSource)
      /\ NewRow(r).prompt = (opened < born[job[r].reply])
      /\ RowText(NewRow(r)) = JobText(r)
      /\ rows' = rows \cup {NewRow(r)}
  BY <1>1, <1>2, <1>6, NewRowFacts DEF Puts
<1>9. TypeOK'
  <2>1. accepted' \subseteq Texts
    BY <1>2 DEF Write, FunnelInv, TypeOK
  <2> QED
    BY <1>5, <1>7, <2>1 DEF Write, FunnelInv, TypeOK, turnState
<1>10. new # Idle
  BY <1>4 DEF Idle
<1>11. \A q \in Roads \ {r} : ~InHand(q) /\ ~InHand(q)'
  BY <1>1, <1>2, <1>5, HandIsOpen DEF InHand, At
<1>12. Serial'
  <2>1. \A q : q = r => job'[q] # Idle /\ job'[q].step # "waiting"
    BY <1>4, <1>5, <1>10
  <2>2. lock' = r
    BY <1>2 DEF Write
  <2> QED
    BY <1>11, <2>1, <2>2 DEF Serial, InHand, At
<1>13. JobText(r)' = JobText(r)
  BY <1>4, <1>5 DEF JobText
<1>14. JobSound(r)'
  <2>1. job[r].over <= clock /\ job[r].over \in Nat
    BY <1>1, <1>2, JobTypes DEF JobSound, FunnelInv
  <2>2. ASSUME NEW x \in rows', x.id = job[r].over
        PROVE  x.len = 1 /\ Twin(RowText(x), JobText(r)) /\ (x.source => r \notin HasSource)
    <3>1. x \in rows
      BY <1>3, <1>8, <2>1, <2>2
    <3>2. x.len = 1 /\ Twin(RowText(x), JobText(r)) /\ SameMessage(r, x)
      BY <1>2, <2>2, <3>1 DEF JobSound
    <3>3. r \in HasSource => ~SourceSeen(job[r].reply)
      BY DEF Write, Refuses
    <3> QED
      BY <3>1, <3>2, <3>3 DEF SameMessage, SourceSeen
  <2>3. \A x \in rows' : x.id = clock + 1 => x = NewRow(r)
    BY <1>7, <1>8
  <2>4. job[r].over < clock + 1 /\ clock + 1 <= clock' /\ job[r].over <= clock'
    BY <1>3, <2>1 DEF Write
  <2>5. born'[job[r].reply] # 0 /\ (job[r].over # 0 => job[r].len = 2)
    BY <1>2 DEF JobSound, Write, turnState
  <2> QED
    BY <1>4, <1>5, <1>8, <1>13, <2>2, <2>3, <2>4, <2>5 DEF JobSound, At, RowText
<1>15. ClearAt(r)'
  <2> SUFFICES ASSUME NEW x \in rows', NEW y \in rows', y.id = clock + 1, y.prompt,
                      x.prompt, x.reply = y.reply, Distinct(y.reply)'
               PROVE  x = y \/ x.id = job[r].over \/ x.id \in cut
    BY <1>4, <1>5 DEF ClearAt, At, Write, history
  <2>1. y = NewRow(r)
    BY <1>7, <1>8
  <2>2. Distinct(y.reply)
    BY DEF Distinct, Given, Write, turnState
  <2>3. ClearAt(r)
    BY <1>1 DEF FunnelInv, AllClear
  <2>4. CASE x \in rows
    BY <1>2, <1>8, <2>1, <2>2, <2>3, <2>4 DEF ClearAt
  <2> QED
    BY <1>8, <2>1, <2>4
<1>16. ASSUME NEW q \in Roads, q # r
       PROVE  JobSound(q)' /\ ClearAt(q)'
  BY <1>3, <1>5, <1>7, <1>11, <1>16, WaitingSound DEF Write, turnState
<1>17. CutRows'
  BY <1>1, <1>6, PutCut DEF Write
<1>18. NothingSaidIsLost'
  BY <1>2, <1>8, CoversTypes DEF FunnelInv, NothingSaidIsLost, Write
<1>19. ClaimsAreBacked'
  <2> SUFFICES ASSUME alive, NEW t \in delivered
               PROVE  \E row \in rows' : Covers(RowText(row), t)
    BY DEF ClaimsAreBacked, Write, RowText
  <2>1. \/ \E row \in rows : Covers(RowText(row), t)
        \/ JobText(r) = t
    BY <1>2 DEF FunnelInv, ClaimsAreBacked
  <2> QED
    BY <1>2, <1>8, <2>1, CoversTypes
<1>20. OncePerTurn'
  <2>1. clock + 1 \in Upgrading' \/ job[r].over = 0
    BY <1>4, <1>5 DEF Upgrading, Upgrades, At
  <2> QED
    BY <1>1, <1>6, <2>1, PutOnce DEF Write
<1> QED
  BY <1>7, <1>9, <1>12, <1>14, <1>15, <1>16, <1>17, <1>18, <1>19, <1>20
     DEF FunnelInv, JobsSound, AllClear

(* The row that goes is part of the one that stays.                         *)
LEMMA LandCovers ==
    ASSUME FunnelInv, NEW r \in OpenRoads, Land(r),
           NEW y \in rows, NEW t \in Texts, Covers(RowText(y), t)
    PROVE  \E x \in rows' : Covers(RowText(x), t)
<1>1. r \in Roads
  BY RoadsAssumption
<1>2. /\ JobSound(r) /\ job[r] # Idle /\ JobText(r) \in Texts
      /\ job[r].over \in Nat /\ job[r].row \in Nat /\ job[r].len \in 1 .. 2
      /\ job[r].over < job[r].row
  BY <1>1, AtIsJob, JobTypes DEF Land, FunnelInv, Steps, JobsSound, JobSound
<1>3. CASE y \in rows'
  BY <1>3
<1>4. CASE y \notin rows'
  <2>1. y.id = job[r].over /\ \E x \in rows : x.id = job[r].row
    BY <1>4 DEF Land
  <2>2. PICK x \in rows : x.id = job[r].row
    BY <2>1
  <2>3. x \in rows'
    BY <1>2, <2>1, <2>2 DEF Land
  <2>4. /\ y.len = 1 /\ Twin(RowText(y), JobText(r))
        /\ x.reply = job[r].reply /\ x.len = job[r].len
    BY <1>2, <2>1, <2>2 DEF JobSound, Land
  <2>5. RowText(x) = JobText(r) /\ RowText(y).len = 1 /\ JobText(r).len = job[r].len
    BY <2>4 DEF RowText, JobText, TextOf
  <2>6. Covers(JobText(r), RowText(y))
    BY <1>2, <2>4, <2>5 DEF Covers, Twin
  <2>7. RowText(y) \in Texts
    BY RowTexts DEF FunnelInv, TypeOK
  <2>8. Covers(RowText(x), t)
    BY <1>2, <2>5, <2>6, <2>7, CoversTypes
  <2> QED
    BY <2>3, <2>8
<1> QED
  BY <1>3, <1>4

LEMMA LandLater ==
    ASSUME FunnelInv, NEW r \in OpenRoads, Land(r)
    PROVE  Later /\ Ends(r) /\ rows' \subseteq rows
<1>1. rows' \subseteq rows
  BY DEF Land
<1>2. Later
  BY <1>1 DEF Later, Land, SameRow, FunnelInv, TypeOK, RowsDated, turnState
<1> QED
  BY <1>1, <1>2 DEF Land, Ends

LEMMA LandKeeps ==
    ASSUME FunnelInv, NEW r \in OpenRoads, Land(r)
    PROVE  FunnelInv'
<1>1. r \in Roads
  BY RoadsAssumption
<1>2. /\ At(r, "landed") /\ job[r] # Idle /\ lock = r /\ JobSound(r) /\ InHand(r)
  BY <1>1, AtIsJob, HandIsOpen DEF Land, FunnelInv, Steps, JobsSound
<1>3. Later /\ Ends(r) /\ rows' \subseteq rows
  BY LandLater
<1>4. TypeOK'
  BY <1>1, <1>3, EndsFacts DEF Land, FunnelInv, TypeOK, turnState, history
<1>5. ASSUME NEW q \in Roads
      PROVE  JobSound(q)' /\ ClearAt(q)'
  BY <1>1, <1>3, EndsFacts, LaterSound, LaterClear DEF Land, history
<1>6. NothingSaidIsLost'
  BY LandCovers DEF FunnelInv, TypeOK, NothingSaidIsLost, Land, history
<1>7. ClaimsAreBacked'
  <2> SUFFICES ASSUME alive, NEW t \in delivered
               PROVE  \E row \in rows' : Covers(RowText(row), t)
    BY DEF ClaimsAreBacked, Land, RowText
  <2>1. \E row \in rows : Covers(RowText(row), t)
    BY <1>2 DEF FunnelInv, ClaimsAreBacked, At
  <2> QED
    BY <2>1, LandCovers DEF FunnelInv, TypeOK
<1>8. OncePerTurn'
  <2>1. ASSUME NEW q \in OpenRoads, Upgrades(q)
        PROVE  q = r
    BY <1>1, <1>2, <2>1, AtIsJob, HandIsOpen, RoadsAssumption DEF Upgrades, FunnelInv, Steps
  <2>2. Upgrading \subseteq {job[r].row}
    BY <2>1 DEF Upgrading
  <2> SUFFICES ASSUME NEW x \in rows', NEW y \in rows', Distinct(x.reply)', x.prompt,
                      y.prompt, x.reply = y.reply, x # y
               PROVE  {x.id, y.id} \cap cut # {}
    BY DEF OncePerTurn, Land, history
  <2>3. Distinct(x.reply)
    BY DEF Distinct, Given, Land, turnState
  <2>4. {x.id, y.id} \cap (cut \cup Upgrading) # {}
    BY <1>3, <2>3 DEF FunnelInv, OncePerTurn
  <2>5. ClearAt(r)
    BY <1>1 DEF FunnelInv, AllClear
  <2>6. ASSUME NEW a \in rows', NEW b \in rows', b.id = job[r].row, a # b, a.prompt,
               b.prompt, a.reply = b.reply, Distinct(b.reply)
        PROVE  a.id \in cut
    <3>1. a.id = job[r].over \/ a.id \in cut
      BY <1>2, <1>3, <2>5, <2>6 DEF ClearAt
    <3>2. a.id # job[r].over
      BY <1>3, <2>6 DEF Land
    <3> QED
      BY <3>1, <3>2
  <2> QED
    BY <2>2, <2>3, <2>4, <2>6
<1> QED
  BY <1>1, <1>3, <1>4, <1>5, <1>6, <1>7, <1>8, EndsFacts, LaterDated, LaterCut
     DEF FunnelInv, JobsSound, AllClear, Land, history

-----------------------------------------------------------------------------
(* What goes wrong *)

LEMMA StopKeeps ==
    ASSUME FunnelInv, NEW r \in OpenRoads, Stop(r), faults' \in Nat
    PROVE  FunnelInv'
<1>1. r \in Roads
  BY RoadsAssumption
<1>2. InHand(r) /\ lock = r
  BY <1>1, HandIsOpen DEF Stop, InHand
<1>3. StoppedBy(r) /\ Ends(r)
  BY DEF Stop, StoppedBy, Ends, turnState
<1>4. TypeOK'
  <2>1. delivered' \subseteq Texts
    BY DEF Stop, Released, FunnelInv, TypeOK
  <2> QED
    BY <1>1, <1>3, <2>1, EndsFacts, StoppedTypes DEF Stop, FunnelInv, TypeOK, turnState
<1>5. ASSUME NEW q \in Roads
      PROVE  JobSound(q)' /\ ClearAt(q)'
  BY <1>1, <1>3, EndsFacts, StoppedJobs
<1>6. ClaimsAreBacked'
  <2> SUFFICES ASSUME alive, NEW t \in delivered, t # JobText(r)
               PROVE  \E row \in rows' : Covers(RowText(row), t)
    BY DEF ClaimsAreBacked, Stop, Released, RowText
  <2>1. \E row \in rows : Covers(RowText(row), t)
    BY <1>2 DEF FunnelInv, ClaimsAreBacked
  <2> QED
    BY <1>1, <1>3, <2>1, StoppedTypes
<1>7. OncePerTurn'
  BY <1>1, <1>2, <1>3, HandIsOpen, RoadsAssumption, StoppedOnce
<1> QED
  BY <1>1, <1>3, <1>4, <1>5, <1>6, <1>7, EndsFacts, StoppedTypes, StoppedCut, StoppedSaid
     DEF FunnelInv, JobsSound, AllClear

LEMMA FailKeeps ==
    ASSUME FunnelInv, NEW r \in OpenRoads, Fail(r)
    PROVE  FunnelInv'
<1>1. faults' \in Nat
  BY DEF Fail, FunnelInv, TypeOK
<1> QED
  BY <1>1, StopKeeps DEF Fail

LEMMA BeginTurnKeeps ==
    ASSUME FunnelInv, BeginTurn
    PROVE  FunnelInv'
<1> DEFINE r == "follower"
<1>1. r \in Roads
  BY DEF Roads
<1>2. StoppedBy(r) /\ Ends(r)
  BY DEF BeginTurn, StoppedBy, Ends
<1>3. TypeOK'
  BY <1>1, <1>2, EndsFacts, StoppedTypes DEF BeginTurn, FunnelInv, TypeOK
<1>4. ASSUME NEW q \in Roads
      PROVE  JobSound(q)' /\ ClearAt(q)'
  BY <1>1, <1>2, EndsFacts, StoppedJobs
<1>5. ClaimsAreBacked'
  BY DEF ClaimsAreBacked, BeginTurn
<1>6. \A q \in OpenRoads : q # r /\ InHand(q) => job'[q] = job[q]
  BY <1>1, <1>2, EndsFacts, RoadsAssumption
<1>7. OncePerTurn'
  BY <1>1, <1>2, <1>6, StoppedOnce
<1> QED
  BY <1>1, <1>2, <1>3, <1>4, <1>5, <1>7, EndsFacts, StoppedTypes, StoppedCut, StoppedSaid
     DEF FunnelInv, JobsSound, AllClear

LEMMA DeleteThreadKeeps ==
    ASSUME FunnelInv, DeleteThread
    PROVE  FunnelInv'
<1> DEFINE r == "follower"
<1>1. r \in Roads
  BY DEF Roads
<1>2. Ends(r)
  BY DEF DeleteThread, Ends
<1>3. Later
  <2>1. alive' = FALSE /\ rows' = {} /\ UNCHANGED <<clock, opened, born>>
    BY DEF DeleteThread, turnState
  <2>2. /\ clock \in Nat /\ opened \in Nat /\ opened <= clock /\ clock <= clock
        /\ opened <= opened /\ born \in [Replies -> Nat] /\ alive
    BY DEF DeleteThread, FunnelInv, TypeOK, RowsDated
  <2> QED
    BY <2>1, <2>2 DEF Later
<1>4. TypeOK'
  <2>1. rows' = {} /\ delivered' = {} /\ alive' \in BOOLEAN
    BY DEF DeleteThread
  <2>2. faults' \in Nat /\ copies' \in Nat /\ clock' \in Nat /\ opened' \in Nat
    BY DEF DeleteThread, FunnelInv, TypeOK
  <2>3. /\ asked' \in Nat /\ begun' \in Nat /\ busy' \in BOOLEAN
        /\ born' \in [Replies -> Nat]
        /\ aged' \subseteq Replies /\ current' \subseteq Replies /\ stranded' \subseteq Replies
        /\ known' \subseteq Texts /\ accepted' \subseteq Texts /\ cut' \subseteq Nat
    BY DEF DeleteThread, FunnelInv, TypeOK, turnState, history
  <2> QED
    BY <1>1, <1>2, <2>1, <2>2, <2>3, EndsFacts DEF TypeOK
<1>5. ASSUME NEW q \in Roads
      PROVE  JobSound(q)' /\ ClearAt(q)'
  BY <1>1, <1>2, <1>3, EndsFacts, LaterSound, LaterClear DEF DeleteThread, history
<1>6. NothingSaidIsLost' /\ ClaimsAreBacked' /\ OncePerTurn'
  BY DEF DeleteThread, NothingSaidIsLost, ClaimsAreBacked, OncePerTurn
<1> QED
  BY <1>1, <1>2, <1>3, <1>4, <1>5, <1>6, EndsFacts, LaterDated, LaterCut
     DEF FunnelInv, JobsSound, AllClear, DeleteThread, history

LEMMA CrashKeeps ==
    ASSUME FunnelInv, Crash
    PROVE  FunnelInv'
<1>1. PICK r \in Roads : StoppedBy(r) /\ \A q \in Roads : InHand(q) => q = r
  <2>1. CASE lock = Free
    <3>1. "turn" \in Roads /\ \A q \in Roads : ~InHand(q)
      BY <2>1 DEF FunnelInv, Serial, Free, Roads
    <3>2. CutBy("turn", rows') = {}
      BY <3>1, AtIsJob DEF CutBy, Upgrades, FunnelInv, Steps
    <3>3. StoppedBy("turn")
      BY <2>1, <3>2 DEF Crash, StoppedBy, Stopped
    <3> QED
      BY <3>1, <3>3
  <2>2. CASE lock # Free
    <3>1. lock \in Roads /\ \A q \in Roads : InHand(q) => q = lock
      BY <2>2, RoadsAssumption DEF FunnelInv, Serial, TypeOK
    <3>2. StoppedBy(lock)
      BY <2>2 DEF Crash, StoppedBy
    <3> QED
      BY <3>1, <3>2
  <2> QED
    BY <2>1, <2>2
<1>2. job' = [q \in Roads |-> Idle] /\ lock' = Free
  BY DEF Crash
<1>3. TypeOK'
  <2>1. /\ rows' \subseteq Row /\ clock' \in Nat
        /\ accepted' \subseteq Texts /\ cut' \subseteq Nat
    BY <1>1, StoppedTypes
  <2>2. lock' \in OpenRoads \cup {Free} /\ job' \in [Roads -> Job \cup {Idle}]
    BY <1>2
  <2>3. /\ faults' \in Nat /\ copies' \in Nat /\ opened' \in Nat /\ asked' \in Nat
        /\ begun' \in Nat /\ born' \in [Replies -> Nat]
    BY DEF Crash, FunnelInv, TypeOK
  <2>4. /\ aged' \subseteq Replies /\ current' \subseteq Replies /\ stranded' \subseteq Replies
        /\ known' = {} /\ delivered' = {} /\ alive' \in BOOLEAN /\ busy' \in BOOLEAN
    BY DEF Crash, FunnelInv, TypeOK
  <2> QED
    BY <2>1, <2>2, <2>3, <2>4 DEF TypeOK
<1>4. Serial'
  BY <1>2 DEF Serial, InHand
<1>5. ASSUME NEW q \in Roads
      PROVE  JobSound(q)' /\ ClearAt(q)'
  BY <1>1, <1>2, StoppedJobs
<1>6. ClaimsAreBacked'
  BY DEF ClaimsAreBacked, Crash
<1>7. OncePerTurn'
  BY <1>1, RoadsAssumption, StoppedOnce
<1> QED
  BY <1>1, <1>3, <1>4, <1>5, <1>6, <1>7, StoppedTypes, StoppedCut, StoppedSaid
     DEF FunnelInv, JobsSound, AllClear

-----------------------------------------------------------------------------
(* The invariant of the specification *)

LEMMA InitFunnel == Init => FunnelInv
<1> SUFFICES ASSUME Init
             PROVE  FunnelInv
  OBVIOUS
<1>1. \A r \in Roads : job[r] = Idle /\ ~InHand(r) /\ ~At(r, "write") /\ ~At(r, "landed")
  BY DEF Init, InHand, At, Idle
<1>2. TypeOK
  BY DEF Init, TypeOK
<1>3. Serial
  BY <1>1 DEF Init, Serial
<1>4. RowsDated
  BY DEF Init, RowsDated
<1>5. JobsSound /\ AllClear
  BY <1>1 DEF JobsSound, JobSound, AllClear, ClearAt
<1>6. CutRows /\ NothingSaidIsLost /\ ClaimsAreBacked /\ OncePerTurn
  BY DEF Init, CutRows, NothingSaidIsLost, ClaimsAreBacked, OncePerTurn
<1> QED
  BY <1>2, <1>3, <1>4, <1>5, <1>6 DEF FunnelInv

LEMMA NextFunnel == FunnelInv /\ [Next]_vars => FunnelInv'
<1> SUFFICES ASSUME FunnelInv, [Next]_vars
             PROVE  FunnelInv'
  OBVIOUS
<1>1. CASE Ask \/ EndTurn \/ TimePasses \/ SweepReads \/ RecoveryDone
  BY <1>1, AskKeeps, EndTurnKeeps, TimePassesKeeps, SweepReadsKeeps, RecoveryDoneKeeps
<1>2. CASE BeginTurn \/ DeleteThread \/ Crash
  BY <1>2, BeginTurnKeeps, DeleteThreadKeeps, CrashKeeps
<1>3. CASE \E m \in Replies : Give(m)
  BY <1>3, GiveKeeps
<1>4. CASE \E r \in OpenRoads, m \in Replies, len \in 1 .. 2 : Hear(r, m, len)
  BY <1>4, HearKeeps
<1>5. CASE \E r \in OpenRoads : Deliver(r) \/ Fail(r)
  BY <1>5, TakeKnownKeeps, TakeNewKeeps, ScanFindsKeeps, ScanPassesKeeps, ScanGoneKeeps,
     WriteKeeps, LandKeeps, RefusedKeeps, FailKeeps DEF Deliver
<1>6. CASE UNCHANGED vars
  <2>1. Later /\ AllKept
    BY <1>6 DEF vars, threadState, turnState, Later, AllKept, SameRow, FunnelInv, TypeOK,
                RowsDated
  <2>2. TypeOK'
    BY <1>6 DEF vars, threadState, turnState, funnelState, history, FunnelInv, TypeOK
  <2> QED
    BY <1>6, <2>1, <2>2, QuietKeeps DEF vars
<1> QED
  BY <1>1, <1>2, <1>3, <1>4, <1>5, <1>6 DEF Next

LEMMA FunnelAlways == Spec => []FunnelInv
BY InitFunnel, NextFunnel, PTL DEF Spec

(* "Nothing the agent says is ever silently dropped" (main.py, the funnel's *)
(* header): what the funnel wrote, or refused as already there, can be read *)
(* as long as the thread exists, and no claim in _delivered refuses copies  *)
(* of a text that is nowhere, whatever stops a delivery between two steps.  *)
THEOREM SaidStaysReadable == Spec => []SaidAndClaimed
<1>1. FunnelInv => SaidAndClaimed
  BY DEF FunnelInv, SaidAndClaimed
<1> QED
  BY <1>1, FunnelAlways, PTL

(* _deliver_unlocked: the six roads agree on one row of a reply as long as  *)
(* nobody has written since it was given, unless an upgrade is, or was cut, *)
(* between its two writes.                                                  *)
THEOREM OneRowPerReply == Spec => []OncePerTurn
<1>1. FunnelInv => OncePerTurn
  BY DEF FunnelInv
<1> QED
  BY <1>1, FunnelAlways, PTL

-----------------------------------------------------------------------------
(* What a step does to the thread *)

LEMMA StepShapes ==
    ASSUME FunnelInv, [Next]_vars
    PROVE  \/ Later /\ AllKept
           \/ \E r \in Roads : Puts(r)
           \/ \E r \in OpenRoads : Land(r)
           \/ DeleteThread
<1>1. CASE Ask \/ TimePasses \/ (\E m \in Replies : Give(m))
  BY <1>1, AskLater, TimePassesLater, GiveLater
<1>2. CASE EndTurn \/ SweepReads \/ RecoveryDone
  BY <1>2, SameThread DEF EndTurn, SweepReads, RecoveryDone, turnState
<1>3. CASE BeginTurn
  <2>1. "follower" \in Roads /\ StoppedBy("follower")
    BY <1>3 DEF BeginTurn, StoppedBy, Roads
  <2> QED
    BY <2>1, StoppedRows
<1>4. CASE Crash
  <2>1. CASE lock = Free
    BY <1>4, <2>1
       DEF Crash, FunnelInv, TypeOK, RowsDated, Later, AllKept, SameRow
  <2>2. CASE lock # Free
    <3>1. lock \in Roads /\ StoppedBy(lock)
      BY <1>4, <2>2, RoadsAssumption DEF Crash, StoppedBy, FunnelInv, TypeOK
    <3> QED
      BY <3>1, StoppedRows
  <2> QED
    BY <2>1, <2>2
<1>5. CASE \E r \in OpenRoads, m \in Replies, len \in 1 .. 2 : Hear(r, m, len)
  BY <1>5, SameThread DEF Hear, turnState
<1>6. CASE \E r \in OpenRoads : Deliver(r) \/ Fail(r)
  <2> SUFFICES ASSUME NEW r \in OpenRoads, Deliver(r) \/ Fail(r)
               PROVE  (Later /\ AllKept) \/ (\E q \in Roads : Puts(q)) \/ Land(r)
    BY <1>6
  <2>1. CASE TakeKnown(r) \/ TakeNew(r) \/ ScanFinds(r) \/ ScanPasses(r) \/ ScanGone(r)
             \/ Refused(r)
    BY <2>1, SameThread
       DEF TakeKnown, TakeNew, ScanFinds, ScanPasses, ScanGone, Refused, turnState
  <2>2. CASE Write(r)
    BY <2>2, RoadsAssumption DEF Write, Puts, turnState
  <2>3. CASE Fail(r)
    <3>1. r \in Roads /\ StoppedBy(r)
      BY <2>3, RoadsAssumption DEF Fail, Stop, StoppedBy, turnState
    <3> QED
      BY <3>1, StoppedRows
  <2> QED
    BY <2>1, <2>2, <2>3 DEF Deliver
<1>7. CASE UNCHANGED vars
  BY <1>7, SameThread DEF vars, turnState
<1> QED
  BY <1>1, <1>2, <1>3, <1>4, <1>5, <1>6, <1>7 DEF Next

(* The wipe of 2026-09-14 cannot come back (_deliver_unlocked, WIPE FIX): a *)
(* row of the gateway goes only for a longer copy of it that came without   *)
(* an id, or with its thread.                                               *)
THEOREM NoWipe == Spec => GatewayRowsStay
<1>1. ASSUME FunnelInv, [Next]_vars,
             NEW x \in rows, x.source, alive', ~Kept(x, rows')
      PROVE  \E y \in rows' : ~y.source /\ y.len > x.len /\ Twin(RowText(y), RowText(x))
  <2>1. ~(Later /\ AllKept)
    BY <1>1 DEF AllKept, SameRow, Kept
  <2>2. ~\E r \in Roads : Puts(r)
    BY <1>1 DEF Puts, Kept
  <2>3. PICK r \in OpenRoads : Land(r)
    BY <1>1, <2>1, <2>2, StepShapes DEF DeleteThread
  <2>4. /\ JobSound(r) /\ job[r] # Idle /\ At(r, "landed") /\ job[r].over # job[r].row
    <3>1. r \in Roads
      BY RoadsAssumption
    <3>2. job[r].over < job[r].row /\ job[r].over \in Nat /\ job[r].row \in Nat
      BY <1>1, <2>3, <3>1, AtIsJob, JobTypes DEF Land, FunnelInv, JobsSound, JobSound, Steps
    <3> QED
      BY <1>1, <2>3, <3>1, <3>2, AtIsJob DEF Land, FunnelInv, JobsSound, Steps
  <2>5. x \notin rows'
    BY <1>1 DEF Kept
  <2>6. x.id = job[r].over /\ \E y \in rows : y.id = job[r].row
    BY <2>3, <2>5 DEF Land
  <2>7. PICK y \in rows : y.id = job[r].row
    BY <2>6
  <2>8. y \in rows'
    BY <2>3, <2>4, <2>7 DEF Land
  <2>9. /\ x.len = 1 /\ Twin(RowText(x), JobText(r)) /\ r \notin HasSource
        /\ y.reply = job[r].reply /\ y.len = job[r].len /\ y.source = (r \in HasSource)
    BY <1>1, <2>4, <2>6, <2>7 DEF JobSound
  <2>10. y.len = 2
    BY <1>1, <2>4, <2>6, <2>9 DEF JobSound, FunnelInv, RowsDated
  <2>11. RowText(y) = JobText(r)
    BY <2>9 DEF RowText, JobText
  <2>12. y.len > x.len
    BY <2>9, <2>10
  <2>13. ~y.source
    BY <2>9
  <2>14. Twin(RowText(y), RowText(x))
    BY <2>9, <2>11 DEF Twin
  <2> QED
    BY <2>8, <2>12, <2>13, <2>14
<1>2. FunnelInv /\ [Next]_vars =>
          [\A x \in rows :
              x.source /\ alive' /\ ~Kept(x, rows') =>
                  \E y \in rows' : ~y.source /\ y.len > x.len
                                  /\ Twin(RowText(y), RowText(x))]_vars
  BY <1>1
<1> QED
  BY <1>2, FunnelAlways, PTL DEF Spec, GatewayRowsStay

-----------------------------------------------------------------------------
(* The thread only grows *)

LEMMA ShownIs ==
    \A t : t \in Shown <=> t \in Texts /\ \E row \in rows : Covers(RowText(row), t)
BY DEF Shown

LEMMA KeptShown ==
    ASSUME FunnelInv, Later, AllKept
    PROVE  Shown' = Shown /\ alive' = alive
<1>1. ASSUME NEW t
      PROVE  (\E x \in rows' : Covers(RowText(x), t)) <=> \E y \in rows : Covers(RowText(y), t)
  BY DEF Later, AllKept, SameRow, RowText
<1>2. Shown' = UNION {{t \in Texts : Covers(RowText(row), t)} : row \in rows'}
  BY DEF Shown, RowText
<1>3. \A t : t \in Shown' <=> t \in Texts /\ \E row \in rows' : Covers(RowText(row), t)
  BY <1>2
<1> QED
  BY <1>1, <1>3, ShownIs DEF AllKept

LEMMA PutSays ==
    ASSUME FunnelInv, NEW r \in Roads, Puts(r)
    PROVE  Thread!Say
<1>1. JobText(r) \in Texts /\ RowText(NewRow(r)) = JobText(r)
  BY AtIsJob, JobTypes, NewRowFacts DEF Puts, FunnelInv, Steps
<1>2. Shown' = UNION {{t \in Texts : Covers(RowText(row), t)} : row \in rows'}
  BY DEF Shown, RowText
<1>3. \A t : t \in Shown' <=> t \in Texts /\ \E row \in rows' : Covers(RowText(row), t)
  BY <1>2
<1>4. \A t : t \in Thread!ReadIn(JobText(r)) <=> t \in Texts /\ Covers(JobText(r), t)
  BY DEF Thread!ReadIn, Thread!Texts, Texts, Covers, Twin
<1>5. Shown' = Shown \cup Thread!ReadIn(JobText(r))
  BY <1>1, <1>3, <1>4, ShownIs DEF Puts
<1>6. JobText(r) \in Thread!Texts
  BY <1>1 DEF Texts, Thread!Texts
<1>7. alive /\ alive' = alive
  BY DEF Puts, Refuses
<1> QED
  BY <1>5, <1>6, <1>7 DEF Thread!Say

LEMMA LandShown ==
    ASSUME FunnelInv, NEW r \in OpenRoads, Land(r)
    PROVE  Shown' = Shown /\ alive' = alive
<1>1. Shown' = UNION {{t \in Texts : Covers(RowText(row), t)} : row \in rows'}
  BY DEF Shown, RowText
<1>2. \A t : t \in Shown' <=> t \in Texts /\ \E row \in rows' : Covers(RowText(row), t)
  BY <1>1
<1>3. rows' \subseteq rows
  BY LandLater
<1>4. \A t \in Texts : (\E y \in rows : Covers(RowText(y), t)) =>
          \E x \in rows' : Covers(RowText(x), t)
  BY LandCovers
<1> QED
  BY <1>2, <1>3, <1>4, ShownIs DEF Land

(* The funnel implements ThreadText: whatever upgrade, failure or crash     *)
(* comes in between, each step adds one text to what can be read, leaves it *)
(* as it is, or deletes the thread.                                         *)
THEOREM FunnelOnlyAdds == Spec => ThreadOnlyGrows
<1>1. Init => Thread!ThreadInit
  BY DEF Init, Thread!ThreadInit, Shown
<1>2. FunnelInv /\ [Next]_vars => [Thread!ThreadNext]_(Thread!threadVars)
  <2> SUFFICES ASSUME FunnelInv, [Next]_vars
               PROVE  Thread!ThreadNext \/ (Shown' = Shown /\ alive' = alive)
    BY DEF Thread!threadVars
  <2>1. CASE Later /\ AllKept
    BY <2>1, KeptShown
  <2>2. CASE \E r \in Roads : Puts(r)
    BY <2>2, PutSays DEF Thread!ThreadNext
  <2>3. CASE \E r \in OpenRoads : Land(r)
    BY <2>3, LandShown
  <2>4. CASE DeleteThread
    <3>1. alive /\ alive' = FALSE /\ rows' = {}
      BY <2>4 DEF DeleteThread
    <3>2. Shown' = {}
      BY <3>1 DEF Shown
    <3> QED
      BY <3>1, <3>2 DEF Thread!ThreadNext, Thread!Discard
  <2> QED
    BY <2>1, <2>2, <2>3, <2>4, StepShapes
<1> QED
  BY <1>1, <1>2, FunnelAlways, PTL DEF Spec, ThreadOnlyGrows, Thread!ThreadSpec

-----------------------------------------------------------------------------
(* What may be shown of a text                                              *)

UpTo(S, i) == {j \in S : j <= i}

LEMMA UpToCount ==
    ASSUME NEW S \in SUBSET Nat, NEW i \in Nat
    PROVE  IsFiniteSet(UpTo(S, i)) /\ Cardinality(UpTo(S, i)) \in Nat
<1>1. UpTo(S, i) \in SUBSET Nat /\ \A j \in UpTo(S, i) : j <= i
  BY DEF UpTo
<1>2. IsFiniteSet(UpTo(S, i))
  BY <1>1, FS_BoundedSetOfNaturals
<1> QED
  BY <1>2, FS_CardinalityType

\* Below the first of a set there is nothing, and a place further on counts
\* one more if it is of the set.
LEMMA CountNext ==
    ASSUME NEW S \in SUBSET (Nat \ {0}), NEW i \in Nat
    PROVE  /\ Cardinality(UpTo(S, 0)) = 0
           /\ Cardinality(UpTo(S, i + 1)) =
                 IF i + 1 \in S THEN Cardinality(UpTo(S, i)) + 1 ELSE Cardinality(UpTo(S, i))
<1>0. \A j \in S : j \in Nat /\ j # 0
  OBVIOUS
<1>1. UpTo(S, 0) = {}
  <2>1. \A j \in S : ~(j <= 0)
    BY <1>0
  <2> QED
    BY <2>1 DEF UpTo
<1>2. S \in SUBSET Nat
  OBVIOUS
<1>3. IsFiniteSet(UpTo(S, i))
  BY <1>2, UpToCount
<1>4. CASE i + 1 \in S
  <2>0. (\A j \in S : j <= i + 1 <=> j <= i \/ j = i + 1) /\ ~(i + 1 <= i) /\ i + 1 <= i + 1
    BY <1>0
  <2>1. UpTo(S, i + 1) = UpTo(S, i) \cup {i + 1} /\ i + 1 \notin UpTo(S, i)
    BY <1>4, <2>0, Zenon DEF UpTo
  <2>2. Cardinality(UpTo(S, i) \cup {i + 1}) = Cardinality(UpTo(S, i)) + 1
    BY <1>3, <2>1, FS_AddElement
  <2>3. Cardinality(UpTo(S, 0)) = 0
    BY <1>1, FS_EmptySet
  <2> QED
    BY <1>4, <2>1, <2>2, <2>3
<1>5. CASE i + 1 \notin S
  <2>0. \A j \in S : j # i + 1 /\ (j # i + 1 => (j <= i + 1 <=> j <= i))
    BY <1>0, <1>5
  <2>1. UpTo(S, i + 1) = UpTo(S, i)
    BY <1>5, <2>0, Zenon DEF UpTo
  <2> QED
    BY <1>1, <1>5, <2>1, FS_EmptySet
<1> QED
  BY <1>4, <1>5

\* Two members of a set are not preceded by equally many.
LEMMA CountTells ==
    ASSUME NEW S \in SUBSET Nat, NEW i \in S, NEW j \in S,
           Cardinality(UpTo(S, i)) = Cardinality(UpTo(S, j))
    PROVE  i = j
<1>1. ASSUME NEW a \in S, NEW b \in S, a < b, Cardinality(UpTo(S, a)) = Cardinality(UpTo(S, b))
      PROVE  FALSE
  <2>0. (\A k \in S : k <= a => k <= b) /\ b <= b /\ ~(b <= a)
    BY <1>1
  <2>1. UpTo(S, a) \in SUBSET UpTo(S, b) /\ b \in UpTo(S, b) /\ b \notin UpTo(S, a)
    BY <2>0, Zenon DEF UpTo
  <2>2. IsFiniteSet(UpTo(S, b))
    BY UpToCount
  <2>3. UpTo(S, b) = UpTo(S, a)
    BY <1>1, <2>1, <2>2, FS_Subset
  <2> QED
    BY <2>1, <2>3
<1>2. i \in Nat /\ j \in Nat
  OBVIOUS
<1>3. i < j \/ j < i \/ i = j
  BY <1>2
<1> QED
  BY <1>1, <1>3

\* Place is the n-th of a set that has so many.
LEMMA PlaceIs ==
    ASSUME NEW m \in Nat, NEW S \in SUBSET (1 .. m), NEW n \in 1 .. Cardinality(S)
    PROVE  /\ Place(S, n) \in S
           /\ Cardinality(UpTo(S, Place(S, n))) = n
<1> DEFINE B == {i \in Nat : n <= Cardinality(UpTo(S, i))}
<1>0. \A j \in S : j \in Nat /\ j # 0 /\ j <= m
  OBVIOUS
<1>1. /\ S \in SUBSET Nat /\ S \in SUBSET (Nat \ {0})
      /\ UpTo(S, m) = S
  <2>1. UpTo(S, m) = S
    BY <1>0, Zenon DEF UpTo
  <2> QED
    BY <1>0, <2>1
<1>2. m \in B
  BY <1>1
<1>3. PICK i \in B : \A k \in B : i <= k
  BY <1>2, NatMinimum
<1>4. i # 0
  BY <1>1, <1>3, CountNext
<1>5. i - 1 \in Nat /\ (i - 1) + 1 = i
  BY <1>3, <1>4
<1>6. Cardinality(UpTo(S, i - 1)) \in Nat /\ Cardinality(UpTo(S, i)) \in Nat
  BY <1>1, <1>5, UpToCount
<1>7. i - 1 \notin B
  BY <1>3, <1>5
<1>8. Cardinality(UpTo(S, i - 1)) < n /\ n <= Cardinality(UpTo(S, i))
  BY <1>1, <1>2, <1>3, <1>5, <1>6, <1>7, UpToCount
<1>9. Cardinality(UpTo(S, i)) =
          IF i \in S THEN Cardinality(UpTo(S, i - 1)) + 1 ELSE Cardinality(UpTo(S, i - 1))
  BY <1>1, <1>5, CountNext
<1>10. i \in S /\ Cardinality(UpTo(S, i)) = n
  BY <1>6, <1>8, <1>9
<1>11. \E k \in S : Cardinality({j \in S : j <= k}) = n
  BY <1>10 DEF UpTo
<1> QED
  BY <1>11 DEF Place, UpTo

LEMMA VisibleIs ==
    ASSUME NEW A, NEW text \in Seq(A)
    PROVE  /\ Visible(text) \in SUBSET (1 .. Len(text))
           /\ IsFiniteSet(Visible(text)) /\ Cardinality(Visible(text)) \in Nat
<1>1. DOMAIN text = 1 .. Len(text) /\ Len(text) \in Nat
  BY LenProperties
<1>2. Visible(text) \in SUBSET (1 .. Len(text))
  BY <1>1 DEF Visible
<1>3. IsFiniteSet(1 .. Len(text))
  BY <1>1, FS_Interval
<1>4. IsFiniteSet(Visible(text))
  BY <1>2, <1>3, FS_Subset
<1> QED
  BY <1>2, <1>4, FS_CardinalityType

\* What may be shown is made of the words of the text.
LEMMA CleanType ==
    ASSUME NEW A, NEW text \in Seq(A)
    PROVE  /\ Clean(text) \in Seq(A)
           /\ Len(Clean(text)) = Cardinality(Visible(text))
<1> DEFINE n == Cardinality(Visible(text))
<1>1. Len(text) \in Nat /\ Visible(text) \in SUBSET (1 .. Len(text)) /\ n \in Nat
  BY VisibleIs, LenProperties
<1>2. \A i \in 1 .. n : Place(Visible(text), i) \in Visible(text)
  BY <1>1, PlaceIs
<1>3. \A i \in 1 .. n : text[Place(Visible(text), i)] \in A
  BY <1>1, <1>2, ElementOfSeq
<1>4. Clean(text) = [i \in 1 .. n |-> text[Place(Visible(text), i)]]
  BY DEF Clean
<1> HIDE DEF n
<1>5. Clean(text) \in [1 .. n -> A]
  BY <1>3, <1>4
<1>6. Clean(text) \in Seq(A)
  BY <1>1, <1>5, IsASeq
<1>7. Len(Clean(text)) = n
  BY <1>1, <1>4, <1>5, <1>6, LenProperties
<1> QED
  BY <1>6, <1>7 DEF n

\* A word more may be shown at the end or not at all.
LEMMA VisibleAppend ==
    ASSUME NEW A, NEW text \in Seq(A), NEW t \in A
    PROVE  \/ Visible(Append(text, t)) = Visible(text)
           \/ Visible(Append(text, t)) = Visible(text) \cup {Len(text) + 1}
<1> DEFINE more == Append(text, t)
           N == Len(text)
<1>1. /\ N \in Nat /\ DOMAIN text = 1 .. N /\ DOMAIN more = 1 .. N + 1
      /\ \A i \in 1 .. N : more[i] = text[i]
  BY AppendProperties, LenProperties
<1> HIDE DEF more, N
<1>2. ASSUME NEW i \in 1 .. N PROVE Hidden(more, i) <=> Hidden(text, i)
  <2>1. \A j \in 1 .. i - 1 : j \in 1 .. N /\ (\A k \in j + 1 .. i - 1 : k \in 1 .. N)
    BY <1>1
  <2>2. \A j \in 1 .. i : more[j] = text[j]
    BY <1>1
  <2>3. \A j \in 1 .. i - 1 : more[j] = text[j] /\ \A k \in j + 1 .. i - 1 : more[k] = text[k]
    BY <1>1, <2>1
  <2>4. more[i] = text[i]
    BY <1>1
  <2> QED
    BY <2>3, <2>4, Zenon DEF Hidden
<1>3. \A i \in 1 .. N : i \in Visible(more) <=> i \in Visible(text)
  BY <1>1, <1>2 DEF Visible
<1>4. Visible(more) \in SUBSET (1 .. N + 1) /\ Visible(text) \in SUBSET (1 .. N)
  BY <1>1 DEF Visible
<1>5. CASE N + 1 \in Visible(more)
  <2>1. Visible(more) = Visible(text) \cup {N + 1}
    BY <1>1, <1>3, <1>4, <1>5
  <2> QED
    BY <2>1 DEF more, N
<1>6. CASE N + 1 \notin Visible(more)
  <2>0. \A i \in Visible(more) : i # N + 1 /\ (i \in 1 .. N + 1 /\ i # N + 1 => i \in 1 .. N)
    BY <1>1, <1>6
  <2>1. Visible(more) = Visible(text)
    BY <1>3, <1>4, <2>0, Zenon
  <2> QED
    BY <2>1 DEF more
<1> QED
  BY <1>5, <1>6

\* The places of a set do not move when a later number joins it.
LEMMA PlaceStays ==
    ASSUME NEW m \in Nat, NEW S \in SUBSET (1 .. m), NEW n \in 1 .. Cardinality(S)
    PROVE  Place(S \cup {m + 1}, n) = Place(S, n)
<1>0. \A j \in S : j \in Nat /\ j <= m /\ 1 <= j /\ ~(m + 1 <= j)
  OBVIOUS
<1> DEFINE T == S \cup {m + 1}
<1>1. /\ S \in SUBSET Nat /\ IsFiniteSet(S) /\ Cardinality(S) \in Nat
      /\ T \in SUBSET (1 .. m + 1) /\ T \in SUBSET Nat /\ m + 1 \notin S
  <2>1. \A j \in S : j \in Nat /\ j <= m /\ 1 <= j
    BY <1>0, Zenon
  <2>2. IsFiniteSet(S)
    BY <2>1, FS_BoundedSetOfNaturals
  <2>3. m + 1 \notin S
    BY <2>1
  <2> QED
    BY <2>1, <2>2, <2>3, FS_CardinalityType
<1>2. Cardinality(T) = Cardinality(S) + 1
  BY <1>1, FS_AddElement
<1>3. Place(S, n) \in S /\ Cardinality(UpTo(S, Place(S, n))) = n
  BY PlaceIs
<1>4. n \in 1 .. Cardinality(T)
  BY <1>1, <1>2
<1>5. Place(T, n) \in T /\ Cardinality(UpTo(T, Place(T, n))) = n
  BY <1>1, <1>4, PlaceIs
<1>6. UpTo(T, Place(S, n)) = UpTo(S, Place(S, n))
  <2>1. Place(S, n) \in Nat /\ Place(S, n) <= m /\ ~(m + 1 <= Place(S, n))
    BY <1>0, <1>3, Zenon
  <2>2. \A j \in T : j <= Place(S, n) => j \in S
    BY <2>1
  <2>3. \A j \in S : j \in T
    OBVIOUS
  <2> HIDE DEF T
  <2>4. {j \in T : j <= Place(S, n)} = {j \in S : j <= Place(S, n)}
    BY <2>2, <2>3
  <2> QED
    BY <2>4 DEF UpTo
<1>7. Place(S, n) \in T
  BY <1>3
<1> HIDE DEF T
<1>8. Cardinality(UpTo(T, Place(S, n))) = Cardinality(UpTo(T, Place(T, n)))
  BY <1>3, <1>5, <1>6
<1>9. Place(T, n) = Place(S, n)
  <2> DEFINE p == Place(S, n)
             q == Place(T, n)
  <2>1. p \in T /\ q \in T /\ Cardinality(UpTo(T, p)) = Cardinality(UpTo(T, q))
    BY <1>5, <1>7, <1>8, Zenon
  <2> HIDE DEF p, q
  <2>2. p = q
    BY <1>1, <2>1, CountTells
  <2> QED
    BY <2>2 DEF p, q
<1> QED
  BY <1>9 DEF T

\* What may be shown of a text is not taken back by the words that follow.
LEMMA CleanAppend ==
    ASSUME NEW A, NEW text \in Seq(A), NEW t \in A
    PROVE  IsPrefix(Clean(text), Clean(Append(text, t)))
<1> DEFINE more == Append(text, t)
           V == Visible(text)
           W == Visible(more)
<1>1. /\ more \in Seq(A) /\ Len(text) \in Nat
      /\ \A i \in 1 .. Len(text) : more[i] = text[i]
  BY AppendProperties, LenProperties
<1>2. /\ Clean(text) \in Seq(A) /\ Len(Clean(text)) = Cardinality(V)
      /\ Clean(more) \in Seq(A) /\ Len(Clean(more)) = Cardinality(W)
  BY <1>1, CleanType
<1>3. V \in SUBSET (1 .. Len(text)) /\ IsFiniteSet(V) /\ Cardinality(V) \in Nat
  BY VisibleIs
<1>4. CASE W = V
  <2>1. \A n \in 1 .. Cardinality(V) : Place(V, n) \in 1 .. Len(text)
    BY <1>1, <1>3, PlaceIs
  <2>2. \A n \in 1 .. Cardinality(V) : more[Place(V, n)] = text[Place(V, n)]
    BY <1>1, <2>1
  <2>3. Clean(more) = Clean(text)
    BY <1>4, <2>2 DEF Clean
  <2> QED
    BY <1>2, <2>3 DEF IsPrefix
<1>5. CASE W = V \cup {Len(text) + 1}
  <2>1. Len(text) + 1 \notin V
    BY <1>1, <1>3
  <2>2. Cardinality(W) = Cardinality(V) + 1
    BY <1>3, <1>5, <2>1, FS_AddElement
  <2>3. ASSUME NEW n \in 1 .. Cardinality(V)
        PROVE  Place(V, n) \in 1 .. Len(text) /\ Place(W, n) = Place(V, n)
    <3> HIDE DEF V, W
    <3>1. Place(V, n) \in V
      BY <1>1, <1>3, PlaceIs
    <3>2. Place(V \cup {Len(text) + 1}, n) = Place(V, n)
      BY <1>1, <1>3, PlaceStays
    <3> QED
      BY <1>3, <1>5, <3>1, <3>2
  <2>4. \A n \in 1 .. Cardinality(V) : n \in 1 .. Cardinality(W)
    BY <1>3, <2>2
  <2>5. \A n \in 1 .. Cardinality(V) : Clean(more)[n] = Clean(text)[n]
    BY <1>1, <2>3, <2>4 DEF Clean
  <2> HIDE DEF more, V, W
  <2>6. SubSeq(Clean(more), 1, Cardinality(V)) = SubSeq(Clean(text), 1, Cardinality(V))
    <3> DEFINE p == SubSeq(Clean(more), 1, Cardinality(V))
               q == SubSeq(Clean(text), 1, Cardinality(V))
    <3>1. p \in Seq(A) /\ Len(p) = Cardinality(V) /\ \A n \in 1 .. Cardinality(V) : p[n] = Clean(more)[n]
      BY <1>2, <1>3, <2>2, SubSeqProperties
    <3>2. q \in Seq(A) /\ Len(q) = Cardinality(V) /\ \A n \in 1 .. Cardinality(V) : q[n] = Clean(text)[n]
      BY <1>2, <1>3, SubSeqProperties
    <3> HIDE DEF p, q
    <3>3. p = q
      BY <1>3, <2>5, <3>1, <3>2, SeqEqual
    <3> QED
      BY <3>3 DEF p, q
  <2>7. Len(Clean(text)) <= Len(Clean(more))
    BY <1>2, <1>3, <2>2
  <2>8. IsPrefix(Clean(text), Clean(more))
    BY <1>2, <2>6, <2>7 DEF IsPrefix
  <2> QED
    BY <2>8 DEF more
<1>6. W = V \/ W = V \cup {Len(text) + 1}
  BY VisibleAppend
<1> QED
  BY <1>4, <1>5, <1>6

\* A text that begins with a word shows it.
LEMMA CleanBegins ==
    ASSUME NEW A, NEW text \in Seq(A), text # <<>>, text[1] # Open
    PROVE  Clean(text) # <<>>
<1>1. 1 \in 1 .. Len(text) /\ DOMAIN text = 1 .. Len(text)
  BY LenProperties
<1>2. 1 .. 1 - 1 = {}
  OBVIOUS
<1>3. 1 \in Visible(text)
  BY <1>1, <1>2, Zenon DEF Visible, Hidden
<1>4. Cardinality(Visible(text)) # 0
  BY <1>3, VisibleIs, FS_EmptySet
<1> QED
  BY <1>4, CleanType

LEMMA CleanNothing == Clean(<<>>) = <<>>
<1>1. Visible(<<>>) = {}
  BY DEF Visible
<1>2. Cardinality(Visible(<<>>)) = 0
  BY <1>1, FS_EmptySet
<1>3. <<>> \in Seq({}) /\ Clean(<<>>) \in Seq({}) /\ Len(Clean(<<>>)) = 0
  BY <1>2, CleanType, EmptySeq
<1> QED
  BY <1>3

\* A text is the beginning of another when they agree as far as it goes.
LEMMA PrefixIs ==
    ASSUME NEW A, NEW p \in Seq(A), NEW q \in Seq(A)
    PROVE  IsPrefix(p, q) <=> Len(p) <= Len(q) /\ \A i \in 1 .. Len(p) : p[i] = q[i]
<1>1. Len(p) \in Nat /\ Len(q) \in Nat
  BY LenProperties
<1>2. SubSeq(p, 1, Len(p)) = p
  BY SubSeqFull
<1>3. ASSUME Len(p) <= Len(q)
      PROVE  SubSeq(q, 1, Len(p)) = p <=> \A i \in 1 .. Len(p) : p[i] = q[i]
  <2> DEFINE s == SubSeq(q, 1, Len(p))
  <2>1. \A i \in 1 .. Len(p) : q[i] \in A
    BY <1>1, <1>3, ElementOfSeq
  <2>2. s \in Seq(A) /\ Len(s) = Len(p) /\ \A i \in 1 .. Len(p) : s[i] = q[i]
    BY <1>1, <2>1, SubSeqProperties
  <2> HIDE DEF s
  <2>3. ASSUME \A i \in 1 .. Len(p) : p[i] = q[i] PROVE s = p
    BY <2>2, <2>3, SeqEqual
  <2> QED
    BY <2>2, <2>3 DEF s
<1> QED
  BY <1>2, <1>3 DEF IsPrefix

LEMMA PrefixTransitive ==
    ASSUME NEW A, NEW p \in Seq(A), NEW q \in Seq(A), NEW s \in Seq(A),
           IsPrefix(p, q), IsPrefix(q, s)
    PROVE  IsPrefix(p, s)
<1>1. Len(p) \in Nat /\ Len(q) \in Nat /\ Len(s) \in Nat
  BY LenProperties
<1>2. Len(p) <= Len(q) /\ \A i \in 1 .. Len(p) : p[i] = q[i]
  BY PrefixIs
<1>3. Len(q) <= Len(s) /\ \A i \in 1 .. Len(q) : q[i] = s[i]
  BY PrefixIs
<1>4. \A i \in 1 .. Len(p) : i \in 1 .. Len(q)
  BY <1>1, <1>2
<1>5. Len(p) <= Len(s) /\ \A i \in 1 .. Len(p) : p[i] = s[i]
  BY <1>1, <1>2, <1>3, <1>4
<1> QED
  BY <1>5, PrefixIs

LEMMA PrefixNothing ==
    ASSUME NEW A, NEW p \in Seq(A)
    PROVE  IsPrefix(<<>>, p)
<1> DEFINE nothing == <<>>
<1>1. nothing \in Seq(A) /\ Len(nothing) = 0 /\ Len(p) \in Nat
  BY EmptySeq, LenProperties
<1> HIDE DEF nothing
<1>2. Len(nothing) <= Len(p) /\ \A i \in 1 .. Len(nothing) : nothing[i] = p[i]
  BY <1>1
<1>3. IsPrefix(nothing, p)
  BY <1>1, <1>2, PrefixIs
<1> QED
  BY <1>3 DEF nothing

\* The beginning of a text and the rest of it are the text.
LEMMA PrefixRest ==
    ASSUME NEW A, NEW p \in Seq(A), NEW q \in Seq(A), IsPrefix(p, q)
    PROVE  /\ SubSeq(q, Len(p) + 1, Len(q)) \in Seq(A)
           /\ p \o SubSeq(q, Len(p) + 1, Len(q)) = q
           /\ SubSeq(q, Len(p) + 1, Len(q)) = <<>> => q = p
<1> DEFINE rest == SubSeq(q, Len(p) + 1, Len(q))
<1>1. Len(p) \in Nat /\ Len(q) \in Nat /\ Len(p) <= Len(q)
  BY PrefixIs, LenProperties
<1>2. \A i \in 1 .. Len(p) : p[i] = q[i]
  BY PrefixIs
<1>3. \A i \in Len(p) + 1 .. Len(q) : q[i] \in A
  <2>1. \A i \in Len(p) + 1 .. Len(q) : i \in 1 .. Len(q)
    BY <1>1
  <2> QED
    BY <2>1, ElementOfSeq
<1>4. /\ rest \in Seq(A)
      /\ Len(rest) = Len(q) - Len(p)
      /\ \A i \in 1 .. Len(q) - Len(p) : rest[i] = q[Len(p) + i]
  <2>1. Len(p) + 1 \in Int /\ Len(q) \in Int
    BY <1>1
  <2>2. /\ rest \in Seq(A)
        /\ Len(rest) = IF Len(p) + 1 <= Len(q) THEN Len(q) - (Len(p) + 1) + 1 ELSE 0
        /\ \A i \in 1 .. Len(q) - (Len(p) + 1) + 1 : rest[i] = q[Len(p) + 1 + i - 1]
    BY <1>3, <2>1, SubSeqProperties
  <2> HIDE DEF rest
  <2>3. \A i \in 1 .. Len(q) - Len(p) :
            i \in 1 .. Len(q) - (Len(p) + 1) + 1 /\ Len(p) + 1 + i - 1 = Len(p) + i
    BY <1>1
  <2>4. \A i \in 1 .. Len(q) - Len(p) : rest[i] = q[Len(p) + i]
    BY <2>2, <2>3
  <2>5. Len(rest) = Len(q) - Len(p)
    BY <1>1, <2>2
  <2> QED
    BY <2>2, <2>4, <2>5
<1> HIDE DEF rest
<1>5. /\ p \o rest \in Seq(A)
      /\ Len(p \o rest) = Len(p) + Len(rest)
      /\ \A i \in 1 .. Len(p) + Len(rest) :
            (p \o rest)[i] = IF i <= Len(p) THEN p[i] ELSE rest[i - Len(p)]
  BY <1>4, ConcatProperties
<1>6. Len(p \o rest) = Len(q)
  BY <1>1, <1>4, <1>5
<1>7. ASSUME NEW i \in 1 .. Len(q) PROVE (p \o rest)[i] = q[i]
  <2>1. i \in 1 .. Len(p) + Len(rest)
    BY <1>1, <1>4
  <2>2. CASE i <= Len(p)
    <3>1. i \in 1 .. Len(p)
      BY <1>1, <2>2
    <3> QED
      BY <1>2, <1>5, <2>1, <2>2, <3>1
  <2>3. CASE ~(i <= Len(p))
    <3>1. i - Len(p) \in 1 .. Len(q) - Len(p) /\ Len(p) + (i - Len(p)) = i
      BY <1>1, <2>3
    <3>2. rest[i - Len(p)] = q[Len(p) + (i - Len(p))]
      BY <1>4, <3>1
    <3> QED
      BY <1>5, <2>1, <2>3, <3>1, <3>2
  <2> QED
    BY <2>2, <2>3
<1>8. p \o rest = q
  <2> DEFINE s == p \o rest
  <2>1. s \in Seq(A) /\ Len(s) = Len(q) /\ \A i \in 1 .. Len(q) : s[i] = q[i]
    BY <1>5, <1>6, <1>7
  <2> HIDE DEF s
  <2>2. s = q
    BY <2>1, SeqEqual
  <2> QED
    BY <2>2 DEF s
<1>9. rest = <<>> => q = p
  BY <1>8, ConcatEmptySeq
<1> QED
  BY <1>4, <1>8, <1>9 DEF rest

\* The greatest of some numbers.
LEMMA MaxIs ==
    ASSUME NEW m \in Nat, NEW S \in SUBSET (0 .. m), S # {}
    PROVE  Max(S) \in S /\ \A y \in S : y <= Max(S)
<1>0. \A x \in S : x \in Nat /\ x <= m
  OBVIOUS
<1> DEFINE B == {b \in Nat : \A x \in S : x <= b}
<1>1. m \in B
  BY <1>0
<1>2. PICK b \in B : \A c \in B : b <= c
  BY <1>1, NatMinimum
<1>3. b \in Nat /\ \A x \in S : x <= b
  BY <1>2
<1>4. b \in S
  <2>1. SUFFICES ASSUME b \notin S PROVE FALSE
    OBVIOUS
  <2>2. PICK x \in S : TRUE
    OBVIOUS
  <2>3. \A y \in S : y <= b - 1
    BY <1>0, <1>3, <2>1
  <2>4. b - 1 \in Nat
    BY <1>0, <1>3, <2>1, <2>2
  <2>5. b - 1 \in B
    BY <2>3, <2>4
  <2> QED
    BY <1>2, <1>3, <2>5
<1>5. \A y \in S : b >= y
  BY <1>0, <1>3
<1>6. \E x \in S : \A y \in S : x >= y
  BY <1>4, <1>5, Zenon
<1>7. Max(S) \in S /\ \A y \in S : Max(S) >= y
  BY <1>6, Zenon DEF Max
<1> QED
  BY <1>0, <1>7

LEMMA MaxUnique ==
    ASSUME NEW m \in Nat, NEW S \in SUBSET (0 .. m), NEW x \in S, \A y \in S : y <= x
    PROVE  Max(S) = x
<1>0. \A y \in S : y \in Nat
  OBVIOUS
<1>1. Max(S) \in S /\ \A y \in S : y <= Max(S)
  BY MaxIs
<1>2. Max(S) \in Nat /\ x \in Nat /\ x <= Max(S) /\ Max(S) <= x
  BY <1>0, <1>1, Zenon
<1> QED
  BY <1>2

\* What is said is made of words, and is never the text nobody received.
LEMMA SpeechWords ==
    ASSUME NEW r \in Runs
    PROVE  /\ Speech[r] \in Seq(STRING \ {"none"}) /\ Len(Speech[r]) \in Nat
           /\ \A i \in 1 .. Len(Speech[r]) : Speech[r][i] \in STRING \ {"none"}
           /\ DOMAIN Speech[r] = 1 .. Len(Speech[r])
           /\ Runs = 1 .. Len(Speech) /\ Len(Speech) \in Nat /\ r \in Nat /\ r # None
<1>1. Runs = 1 .. Len(Speech) /\ Len(Speech) \in Nat
  BY SpeechAssumption, LenProperties DEF Runs
<1>2. Speech[r] \in Seq(STRING \ {"none"})
  BY <1>1, SpeechAssumption, ElementOfSeq
<1>3. Len(Speech[r]) \in Nat /\ DOMAIN Speech[r] = 1 .. Len(Speech[r])
  BY <1>2, LenProperties
<1>4. \A i \in 1 .. Len(Speech[r]) : Speech[r][i] \in STRING \ {"none"}
  BY <1>2, ElementOfSeq
<1> QED
  BY <1>1, <1>2, <1>3, <1>4 DEF None

\* The place of the last restart.
LastRestart(r, k) == Max({i \in 1..k : Speech[r][i] = Replace} \cup {0})

LEMMA RestartIs ==
    ASSUME NEW r \in Runs, NEW k \in 0 .. Len(Speech[r])
    PROVE  /\ LastRestart(r, k) \in 0 .. k
           /\ Text(r, k) = SubSeq(Speech[r], LastRestart(r, k) + 1, k)
           /\ LastRestart(r, 0) = 0
<1> DEFINE S == {i \in 1..k : Speech[r][i] = Replace} \cup {0}
<1>1. k \in Nat
  BY SpeechWords
<1>2. S \in SUBSET (0 .. k) /\ S # {}
  BY <1>1
<1>3. Max(S) \in S
  BY <1>1, <1>2, MaxIs
<1>4. Max({i \in 1..0 : Speech[r][i] = Replace} \cup {0}) = 0
  <2>1. {i \in 1..0 : Speech[r][i] = Replace} \cup {0} = {0}
    OBVIOUS
  <2>2. {0} \in SUBSET (0 .. 0) /\ 0 \in {0} /\ \A y \in {0} : y <= 0
    OBVIOUS
  <2>3. Max({0}) = 0
    BY <2>2, MaxUnique
  <2> QED
    BY <2>1, <2>3
<1> QED
  BY <1>2, <1>3, <1>4 DEF LastRestart, Text

LEMMA TextType ==
    ASSUME NEW r \in Runs, NEW k \in 0 .. Len(Speech[r])
    PROVE  /\ Text(r, k) \in Seq(STRING \ {"none"})
           /\ Text(r, k) \in Wordings
           /\ Text(r, k) # NoText
<1>1. /\ k \in Nat /\ k \in Int
      /\ LastRestart(r, k) \in 0 .. k /\ LastRestart(r, k) + 1 \in Int
      /\ Text(r, k) = SubSeq(Speech[r], LastRestart(r, k) + 1, k)
  BY RestartIs, SpeechWords
<1>2. \A i \in LastRestart(r, k) + 1 .. k : Speech[r][i] \in STRING \ {"none"}
  <2>1. \A i \in LastRestart(r, k) + 1 .. k : i \in 1 .. Len(Speech[r])
    BY <1>1, SpeechWords
  <2> QED
    BY <2>1, SpeechWords
<1>3. Text(r, k) \in Seq(STRING \ {"none"})
  BY <1>1, <1>2, SubSeqProperties
<1>4. Text(r, k) \in Seq(STRING \cup {"none"})
  <2>1. STRING \ {"none"} \subseteq STRING \cup {"none"}
    OBVIOUS
  <2> QED
    BY <1>3, <2>1, SeqMonotonic
<1>5. Text(r, k) # NoText
  <2>1. SUFFICES ASSUME Text(r, k) = NoText PROVE FALSE
    OBVIOUS
  <2>2. NoText \in Seq(STRING \ {"none"}) /\ Len(NoText) = 1 /\ NoText[1] = "none"
    BY <1>3, <2>1 DEF NoText
  <2>3. NoText[1] \in STRING \ {"none"}
    BY <2>2, ElementOfSeq
  <2> QED
    BY <2>2, <2>3
<1> QED
  BY <1>3, <1>4, <1>5 DEF Wordings

(* How much of run r was said before the delta that carries k tokens of it. *)
HeardBefore(r, k) == IF k > 1 /\ Speech[r][k - 1] = Replace THEN k - 2 ELSE k - 1

\* One word more: it starts the text over, or extends it.
LEMMA TextStep ==
    ASSUME NEW r \in Runs, NEW k \in 1 .. Len(Speech[r]), Speech[r][k] # Replace
    PROVE  /\ k > 1 /\ Speech[r][k - 1] = Replace => Text(r, k) = <<Speech[r][k]>>
           /\ k = 1 \/ Speech[r][k - 1] # Replace =>
                 Text(r, k) = Append(Text(r, k - 1), Speech[r][k])
<1>0. k \in Nat /\ k \in 0 .. Len(Speech[r]) /\ k - 1 \in 0 .. Len(Speech[r]) /\ k - 1 \in Nat
  BY SpeechWords
<1> DEFINE S(n) == {i \in 1..n : Speech[r][i] = Replace} \cup {0}
<1>1. S(k) \in SUBSET (0 .. k) /\ S(k) # {} /\ S(k - 1) \in SUBSET (0 .. k - 1) /\ S(k - 1) # {}
  BY <1>0
<1>2. S(k) = S(k - 1)
  <2>1. \A i \in 1 .. k : Speech[r][i] = Replace => i \in 1 .. k - 1
    BY <1>0
  <2>2. \A i \in 1 .. k - 1 : i \in 1 .. k
    BY <1>0
  <2> QED
    BY <2>1, <2>2
<1>3. LastRestart(r, k) = LastRestart(r, k - 1)
  BY <1>2 DEF LastRestart
<1>4. /\ LastRestart(r, k) \in 0 .. k - 1
      /\ Text(r, k) = SubSeq(Speech[r], LastRestart(r, k) + 1, k)
      /\ Text(r, k - 1) = SubSeq(Speech[r], LastRestart(r, k) + 1, k - 1)
  BY <1>0, <1>3, RestartIs
<1>5. ASSUME k > 1, Speech[r][k - 1] = Replace PROVE Text(r, k) = <<Speech[r][k]>>
  <2>1. k - 1 \in S(k - 1)
    BY <1>0, <1>5
  <2>2. \A y \in S(k - 1) : y <= k - 1
    BY <1>0
  <2> HIDE DEF S
  <2>3. Max(S(k - 1)) = k - 1
    BY <1>0, <1>1, <2>1, <2>2, MaxUnique
  <2>4. LastRestart(r, k) = k - 1
    BY <1>3, <2>3 DEF LastRestart, S
  <2>5. Text(r, k) = SubSeq(Speech[r], k, k)
    <3>1. LastRestart(r, k) + 1 = k
      BY <1>0, <2>4
    <3> QED
      BY <1>4, <3>1, Zenon
  <2> DEFINE s == SubSeq(Speech[r], k, k)
  <2>6. \A i \in k .. k : Speech[r][i] \in STRING \ {"none"}
    BY <1>0, SpeechWords
  <2>7. s \in Seq(STRING \ {"none"}) /\ Len(s) = 1 /\ s[1] = Speech[r][k]
    <3>1. /\ s \in Seq(STRING \ {"none"})
          /\ Len(s) = IF k <= k THEN k - k + 1 ELSE 0
          /\ \A i \in 1 .. k - k + 1 : s[i] = Speech[r][k + i - 1]
      BY <1>0, <2>6, SubSeqProperties
    <3> HIDE DEF s
    <3> QED
      BY <1>0, <3>1
  <2> HIDE DEF s
  <2>8. s = <<Speech[r][k]>>
    <3>1. Speech[r][k] \in STRING \ {"none"}
      BY SpeechWords
    <3> DEFINE t == <<Speech[r][k]>>
    <3>2. t \in Seq(STRING \ {"none"}) /\ Len(t) = 1 /\ t[1] = Speech[r][k]
      BY <3>1
    <3> HIDE DEF t
    <3>3. s = t
      BY <2>7, <3>2, SeqEqual
    <3> QED
      BY <3>3 DEF t
  <2> QED
    BY <2>5, <2>8 DEF s
<1>6. Text(r, k) = Append(Text(r, k - 1), Speech[r][k])
  <2> DEFINE from == LastRestart(r, k)
             q == SubSeq(Speech[r], from + 1, k)
             p == SubSeq(Speech[r], from + 1, k - 1)
             A == STRING \ {"none"}
  <2>1. Speech[r] \in Seq(A) /\ Len(Speech[r]) \in Nat
    BY SpeechWords
  <2>2. from \in Nat /\ from + 1 \in Int /\ k \in Int /\ k - 1 \in Int /\ from + 1 <= k
    BY <1>0, <1>4
  <2> HIDE DEF from
  <2>3. \A i \in from + 1 .. k : Speech[r][i] \in A
    <3>1. \A i \in from + 1 .. k : i \in 1 .. Len(Speech[r])
      BY <1>0, <2>1, <2>2
    <3> QED
      BY <3>1, SpeechWords
  <2>4. \A i \in from + 1 .. k - 1 : Speech[r][i] \in A
    <3>1. \A i \in from + 1 .. k - 1 : i \in from + 1 .. k
      BY <2>2
    <3> QED
      BY <2>3, <3>1
  <2> HIDE DEF A
  <2>5. /\ q \in Seq(A) /\ Len(q) = k - from
        /\ \A i \in 1 .. k - from : q[i] = Speech[r][from + i]
    <3>1. /\ q \in Seq(A)
          /\ Len(q) = IF from + 1 <= k THEN k - (from + 1) + 1 ELSE 0
          /\ \A i \in 1 .. k - (from + 1) + 1 : q[i] = Speech[r][from + 1 + i - 1]
      BY <2>2, <2>3, SubSeqProperties
    <3> HIDE DEF q
    <3>2. \A i \in 1 .. k - from : i \in 1 .. k - (from + 1) + 1 /\ from + 1 + i - 1 = from + i
      BY <2>2
    <3>3. Len(q) = k - from
      BY <2>2, <3>1
    <3>4. \A i \in 1 .. k - from : q[i] = Speech[r][from + i]
      BY <3>1, <3>2
    <3> QED
      BY <3>1, <3>3, <3>4
  <2>6. /\ p \in Seq(A) /\ Len(p) = k - 1 - from
        /\ \A i \in 1 .. k - 1 - from : p[i] = Speech[r][from + i]
    <3>1. /\ p \in Seq(A)
          /\ Len(p) = IF from + 1 <= k - 1 THEN k - 1 - (from + 1) + 1 ELSE 0
          /\ \A i \in 1 .. k - 1 - (from + 1) + 1 : p[i] = Speech[r][from + 1 + i - 1]
      BY <2>2, <2>4, SubSeqProperties
    <3> HIDE DEF p
    <3>2. \A i \in 1 .. k - 1 - from : i \in 1 .. k - 1 - (from + 1) + 1 /\ from + 1 + i - 1 = from + i
      BY <2>2
    <3>3. Len(p) = k - 1 - from
      BY <2>2, <3>1
    <3>4. \A i \in 1 .. k - 1 - from : p[i] = Speech[r][from + i]
      BY <3>1, <3>2
    <3> QED
      BY <3>1, <3>3, <3>4
  <2> HIDE DEF p, q
  <2>7. Speech[r][k] \in A
    BY SpeechWords DEF A
  <2> DEFINE t == Append(p, Speech[r][k])
  <2>8. /\ t \in Seq(A) /\ Len(t) = Len(p) + 1
        /\ \A i \in 1 .. Len(p) : t[i] = p[i]
        /\ t[Len(p) + 1] = Speech[r][k]
    BY <2>6, <2>7, AppendProperties
  <2> HIDE DEF t
  <2>9. Len(t) = Len(q)
    BY <2>2, <2>5, <2>6, <2>8
  <2>10. ASSUME NEW i \in 1 .. Len(q) PROVE q[i] = t[i]
    <3>1. i \in Nat /\ (i \in 1 .. Len(p) \/ i = Len(p) + 1) /\ i \in 1 .. k - from
      BY <2>2, <2>5, <2>6
    <3>2. CASE i \in 1 .. Len(p)
      BY <2>5, <2>6, <2>8, <3>1, <3>2
    <3>3. CASE i = Len(p) + 1
      <4>1. from + i = k
        BY <2>2, <2>6, <3>3
      <4> QED
        BY <2>5, <2>8, <3>1, <3>3, <4>1
    <3> QED
      BY <3>1, <3>2, <3>3
  <2>11. q = t
    BY <2>5, <2>8, <2>9, <2>10, SeqEqual
  <2> QED
    BY <1>4, <2>11 DEF p, q, t, from
<1> QED
  BY <1>5, <1>6

\* The first words of a run are its text: nothing when it begins by starting over.
LEMMA TextOfNothing ==
    ASSUME NEW r \in Runs
    PROVE  Text(r, 0) = <<>>
<1>1. 0 \in 0 .. Len(Speech[r])
  BY SpeechWords
<1>2. Text(r, 0) = SubSeq(Speech[r], 1, 0)
  BY <1>1, RestartIs
<1> QED
  BY <1>2, SubSeqEmpty

\* A delta with k tokens, put to what was heard before it.
LEMMA MergedIs ==
    ASSUME NEW r \in Runs, NEW k \in 1 .. Len(Speech[r]), Speech[r][k] # Replace,
           NEW raw, raw \in {NoText, Text(r, HeardBefore(r, k))},
           HeardBefore(r, k) = 0 => raw = NoText
    PROVE  /\ HeardBefore(r, k) \in 0 .. k - 1
           /\ Merged(raw, r, k) \in {NoText, Text(r, k)}
           /\ Merged(raw, r, k) = NoText =>
                 raw = NoText /\ k > 1 /\ Speech[r][k - 1] # Replace
           /\ k > 1 /\ Speech[r][k - 1] = Replace => Merged(raw, r, k) = <<Speech[r][k]>>
           /\ raw # NoText /\ ~(k > 1 /\ Speech[r][k - 1] = Replace) =>
                 Merged(raw, r, k) = Append(raw, Speech[r][k])
<1>0. k \in Nat /\ k \in 0 .. Len(Speech[r]) /\ k - 1 \in 0 .. Len(Speech[r]) /\ k >= 1
  BY SpeechWords
<1>1. HeardBefore(r, k) \in 0 .. k - 1
  BY <1>0 DEF HeardBefore
<1>2. Text(r, k) # NoText /\ <<Speech[r][k]>> # NoText /\ (k = 1 => Text(r, 1) # NoText)
  BY <1>0, TextType, SpeechWords DEF NoText
<1>3. CASE k = 1
  <2>1. HeardBefore(r, k) = 0 /\ raw = NoText
    BY <1>0, <1>3 DEF HeardBefore
  <2>2. Merged(raw, r, k) = Text(r, k)
    BY <1>3 DEF Merged
  <2> QED
    BY <1>0, <1>1, <1>2, <1>3, <2>1, <2>2
<1>4. CASE k > 1 /\ Speech[r][k - 1] = Replace
  <2>1. Merged(raw, r, k) = <<Speech[r][k]>> /\ Text(r, k) = <<Speech[r][k]>>
    BY <1>0, <1>4, TextStep DEF Merged
  <2> QED
    BY <1>1, <1>2, <1>4, <2>1
<1>5. CASE k > 1 /\ Speech[r][k - 1] # Replace
  <2>1. Merged(raw, r, k) = IF raw = NoText THEN NoText ELSE Append(raw, Speech[r][k])
    BY <1>0, <1>5 DEF Merged
  <2>2. Text(r, k) = Append(Text(r, k - 1), Speech[r][k]) /\ HeardBefore(r, k) = k - 1
    BY <1>5, TextStep DEF HeardBefore
  <2>3. CASE raw = NoText
    BY <1>1, <1>5, <2>1, <2>3
  <2>4. CASE raw # NoText
    <3>1. raw = Text(r, k - 1) /\ Merged(raw, r, k) = Text(r, k)
      BY <2>1, <2>2, <2>4
    <3> QED
      BY <1>1, <1>2, <1>5, <2>1, <2>4, <3>1
  <2> QED
    BY <2>3, <2>4
<1> QED
  BY <1>0, <1>3, <1>4, <1>5

-----------------------------------------------------------------------------
(* What the bubbles stand on                                                *)

(* Turns come one at a time and begin what runs; a run ends once, after all *)
(* its words if with a reply, and never on the word that takes words back.  *)
RunsInHand ==
    /\ turn \in {None, turnsBegun}
    /\ \A r \in Runs :
          /\ phase[r] = "waiting" <=> r > turnsBegun
          /\ phase[r] # "over" => ending[r] = "none" /\ owes[r] = {}
          /\ phase[r] = "over" => ending[r] \in Endings
          /\ "row" \in owes[r] => ending[r] = "reply"
          /\ ending[r] = "reply" => said[r] = Len(Speech[r])
          /\ said[r] > 0 => Speech[r][said[r]] # Replace

(* An event on its way was sent by a run that had begun: a delta carries    *)
(* words that were said, the others are no longer owed.                     *)
EventSound(e) ==
    /\ e.run <= turnsBegun
    /\ e.upto <= said[e.run]
    /\ e.kind = "delta" => e.upto > 0 /\ Speech[e.run][e.upto] # Replace
    /\ e.kind # "delta" => phase[e.run] = "over" /\ e.kind \notin owes[e.run]
    /\ e.kind = "row" => ending[e.run] = "reply"

(* No words come after the end of their run, and no end comes twice.        *)
EventsInOrder ==
    /\ \A i \in DOMAIN queue : EventSound(queue[i])
    /\ \A i, j \in DOMAIN queue :
          i < j /\ queue[i].run = queue[j].run /\ queue[i].kind # "delta" =>
              queue[j].kind # "delta" /\ queue[j].kind # queue[i].kind

HistoryTrue ==
    /\ repair.rows \subseteq {r \in Runs : ending[r] = "reply"}
    /\ repair.run # None => phase[repair.run] # "waiting"

LostAreParted ==
    ~up => \A r \in Runs \ parted : phase[r] # "running" /\ owes[r] = {}

(* Held words have a flush coming, the open bubble was started, and what is *)
(* to be settled is of a run that has nothing more to say.                  *)
BubbleSound(r) ==
    /\ bub[r].pending # NoText => bub[r].flush
    /\ bub[r].flush => bub[r].started
    /\ reg = r => bub[r].started
    /\ bub[r].started => phase[r] # "waiting"
    /\ bub[r].settle =>
          /\ bub[r].started /\ phase[r] = "over" /\ "final" \notin owes[r]
          /\ ~Queued("delta", r) /\ ~Queued("final", r)

RouterSound == \A r \in Runs : BubbleSound(r)

(* A row is of a reply, and unless it was ahead, its words are in.          *)
LandedSaid ==
    \A r \in landed : ending[r] = "reply" /\ (r \notin ahead => ~WordsQueued(r))

(* What a run that was not cut has said is followed by its end, and its     *)
(* reply by its row.                                                        *)
Promised ==
    \A r \in Runs \ parted :
        /\ WordsQueued(r) => phase[r] = "running" \/ "final" \in owes[r] \/ Queued("final", r)
        /\ ending[r] = "reply" => "row" \in owes[r] \/ Queued("row", r) \/ r \in landed

(* In turn: the runs before the latest are through, the open bubble awaits  *)
(* its end, and a row that has landed left none open.                       *)
Awaited(r) ==
    phase[r] = "running" \/ "final" \in owes[r] \/ Queued("final", r) \/ bub[r].settle

OneByOne ==
    /\ \A r \in Runs : r < turnsBegun => Through(r)
    /\ \A r \in Runs \ parted : reg = r => Awaited(r)
    /\ \A r \in landed \ ahead : reg # r

(* A bubble that had its end will not be opened again.                      *)
EndsOnce ==
    \A r \in Runs \ ahead : swapped[r] \subseteq {r} =>
        /\ dones[r] <= 1
        /\ dones[r] # 0 => phase[r] = "over" /\ ~WordsQueued(r) /\ reg # r

(* What is on the page is the thread's open bubble.                         *)
OnScreen ==
    \A r \in Runs \ (parted \cup stopped) : screen[r].elements > 0 => reg = r

InTurn == outOfTurn \/ (OneByOne /\ EndsOnce /\ OwnRowClaims /\ OnScreen)

Elements ==
    \A r \in Runs \ stopped :
        screen[r].elements <= 1 /\ (screen[r].live <=> screen[r].elements = 1)

BubbleInv ==
    /\ BubbleTypeOK /\ RunsInHand /\ EventsInOrder /\ HistoryTrue /\ LostAreParted
    /\ RouterSound /\ LandedSaid /\ Promised /\ InTurn /\ Elements

-----------------------------------------------------------------------------
(* Events on their way                                                      *)

Event == [kind : Kinds, run : Runs, upto : Nat]

LEMMA SameQueue ==
    ASSUME queue' = queue
    PROVE  \A kind, r : Queued(kind, r)' <=> Queued(kind, r)
BY DEF Queued

LEMMA QueueType ==
    ASSUME BubbleTypeOK
    PROVE  /\ queue \in Seq(Event) /\ Len(queue) \in Nat /\ DOMAIN queue = 1 .. Len(queue)
           /\ \A i \in DOMAIN queue : queue[i] \in Event
<1>1. queue \in Seq(Event)
  BY DEF BubbleTypeOK, Event
<1> QED
  BY <1>1, LenProperties, ElementOfSeq

\* An event that was sent is the last of the queue, if the socket was up.
LEMMA SentEvent ==
    ASSUME BubbleTypeOK, NEW e \in Event, Sends(e)
    PROVE  /\ queue' \in Seq(Event) /\ Len(queue') <= MaxQueue
           /\ \A kind, r : Queued(kind, r)' <=>
                 Queued(kind, r) \/ (up /\ kind = e.kind /\ r = e.run)
           /\ ~up => queue' = queue
           /\ up => /\ Len(queue') = Len(queue) + 1
                    /\ \A i \in 1 .. Len(queue) : queue'[i] = queue[i]
                    /\ queue'[Len(queue) + 1] = e
<1>1. queue \in Seq(Event) /\ Len(queue) \in Nat /\ DOMAIN queue = 1 .. Len(queue)
  BY QueueType
<1>2. CASE ~up
  <2>1. queue' = queue
    BY <1>2 DEF Sends
  <2> QED
    BY <1>1, <1>2, <2>1, SameQueue, BubbleBounds DEF BubbleTypeOK
<1>3. CASE up
  <2>1. queue' = Append(queue, e) /\ Len(queue) < MaxQueue
    BY <1>3 DEF Sends
  <2>2. /\ queue' \in Seq(Event)
        /\ Len(queue') = Len(queue) + 1
        /\ \A i \in 1 .. Len(queue) : queue'[i] = queue[i]
        /\ queue'[Len(queue) + 1] = e
    BY <1>1, <2>1, AppendProperties
  <2>3. DOMAIN queue' = 1 .. Len(queue) + 1
    BY <2>2, LenProperties
  <2>4. \A i \in DOMAIN queue' : i \in DOMAIN queue \/ i = Len(queue) + 1
    BY <1>1, <2>3
  <2>5. \A i \in DOMAIN queue : i \in DOMAIN queue' /\ queue'[i] = queue[i]
    BY <1>1, <2>2, <2>3
  <2>6. Len(queue) + 1 \in DOMAIN queue'
    BY <1>1, <2>3
  <2>7. ASSUME NEW kind, NEW r
        PROVE  Queued(kind, r)' <=> Queued(kind, r) \/ (kind = e.kind /\ r = e.run)
    BY <2>2, <2>4, <2>5, <2>6 DEF Queued
  <2>8. Len(queue') <= MaxQueue
    BY <1>1, <2>1, <2>2, BubbleBounds
  <2> QED
    BY <1>3, <2>2, <2>7, <2>8
<1> QED
  BY <1>2, <1>3

\* The first event is taken off.
LEMMA TakenEvent ==
    ASSUME BubbleTypeOK, queue # <<>>, queue' = Tail(queue)
    PROVE  /\ Head(queue) = queue[1] /\ Head(queue) \in Event
           /\ queue' \in Seq(Event) /\ Len(queue') = Len(queue) - 1 /\ Len(queue) >= 1
           /\ \A i \in 1 .. Len(queue) - 1 : queue'[i] = queue[i + 1]
           /\ Queued(Head(queue).kind, Head(queue).run)
           /\ \A kind, r : Queued(kind, r)' => Queued(kind, r)
           /\ \A kind, r : Queued(kind, r) =>
                 Queued(kind, r)' \/ (kind = Head(queue).kind /\ r = Head(queue).run)
<1>1. queue \in Seq(Event) /\ Len(queue) \in Nat /\ DOMAIN queue = 1 .. Len(queue)
  BY QueueType
<1>2. Len(queue) >= 1
  BY <1>1, EmptySeq
<1>3. Head(queue) = queue[1] /\ Head(queue) \in Event
  BY <1>1, HeadTailProperties
<1>4. /\ queue' \in Seq(Event) /\ Len(queue') = Len(queue) - 1
      /\ \A i \in 1 .. Len(queue) - 1 : queue'[i] = queue[i + 1]
  BY <1>1, HeadTailProperties
<1>5. DOMAIN queue' = 1 .. Len(queue) - 1
  BY <1>4, LenProperties
<1>6. \A i \in DOMAIN queue' : i + 1 \in DOMAIN queue /\ queue'[i] = queue[i + 1]
  BY <1>1, <1>2, <1>4, <1>5
<1>7. \A i \in DOMAIN queue : i = 1 \/ (i - 1 \in DOMAIN queue' /\ queue[i] = queue'[i - 1])
  <2>1. \A i \in DOMAIN queue : i = 1 \/ (i - 1 \in 1 .. Len(queue) - 1 /\ (i - 1) + 1 = i)
    BY <1>1, <1>2
  <2> QED
    BY <1>4, <1>5, <2>1
<1>8. \A kind, r : Queued(kind, r)' => Queued(kind, r)
  BY <1>6 DEF Queued
<1>9. \A kind, r : Queued(kind, r) =>
          Queued(kind, r)' \/ (kind = Head(queue).kind /\ r = Head(queue).run)
  BY <1>3, <1>7 DEF Queued
<1>10. 1 \in DOMAIN queue
  BY <1>1, <1>2
<1>11. Queued(Head(queue).kind, Head(queue).run)
  BY <1>3, <1>10 DEF Queued
<1> QED
  BY <1>2, <1>3, <1>4, <1>8, <1>9, <1>11

\* After the head, no words and no second end of its run, if it is an end.
LEMMA AfterEnd ==
    ASSUME BubbleTypeOK, EventsInOrder, queue # <<>>, queue' = Tail(queue),
           Head(queue).kind # "delta"
    PROVE  \A kind, r : kind = Head(queue).kind /\ r = Head(queue).run =>
              ~Queued("delta", r)' /\ ~Queued(kind, r)'
<1>1. queue \in Seq(Event) /\ Len(queue) \in Nat /\ DOMAIN queue = 1 .. Len(queue)
  BY QueueType
<1>2. /\ Head(queue) = queue[1] /\ queue' \in Seq(Event)
      /\ Len(queue') = Len(queue) - 1 /\ Len(queue) >= 1
      /\ \A i \in 1 .. Len(queue) - 1 : queue'[i] = queue[i + 1]
  BY TakenEvent
<1>3. DOMAIN queue' = 1 .. Len(queue) - 1
  BY <1>2, LenProperties
<1>4. ASSUME NEW i \in DOMAIN queue', queue'[i].run = Head(queue).run
      PROVE  queue'[i].kind # "delta" /\ queue'[i].kind # Head(queue).kind
  <2>1. 1 \in DOMAIN queue /\ i + 1 \in DOMAIN queue /\ 1 < i + 1 /\ queue'[i] = queue[i + 1]
    BY <1>1, <1>2, <1>3
  <2> QED
    BY <1>2, <1>4, <2>1 DEF EventsInOrder
<1> QED
  BY <1>4 DEF Queued

\* A loss keeps the events the reader has; whose events it lost is parted.
LEMMA KeptEvents ==
    ASSUME BubbleTypeOK, NEW keep \in 0 .. Len(queue), queue' = SubSeq(queue, 1, keep),
           {queue[i].run : i \in (keep + 1)..Len(queue)} \subseteq parted'
    PROVE  /\ queue' \in Seq(Event) /\ Len(queue') = keep /\ keep <= Len(queue)
           /\ \A i \in 1 .. keep : queue'[i] = queue[i]
           /\ \A i \in keep + 1 .. Len(queue) : queue[i].run \in parted'
           /\ \A kind, r : Queued(kind, r)' => Queued(kind, r)
           /\ \A kind, r : Queued(kind, r) => Queued(kind, r)' \/ r \in parted'
<1>1. queue \in Seq(Event) /\ Len(queue) \in Nat /\ DOMAIN queue = 1 .. Len(queue)
  BY QueueType
<1>2. keep \in Nat /\ keep <= Len(queue)
  BY <1>1
<1>3. /\ queue' \in Seq(Event) /\ Len(queue') = keep
      /\ \A i \in 1 .. keep : queue'[i] = queue[i]
  <2>1. \A i \in 1 .. keep : queue[i] \in Event
    <3>1. \A i \in 1 .. keep : i \in 1 .. Len(queue)
      BY <1>1, <1>2
    <3> QED
      BY <1>1, <3>1, ElementOfSeq
  <2>2. /\ SubSeq(queue, 1, keep) \in Seq(Event)
        /\ Len(SubSeq(queue, 1, keep)) = IF 1 <= keep THEN keep - 1 + 1 ELSE 0
        /\ \A i \in 1 .. keep - 1 + 1 : SubSeq(queue, 1, keep)[i] = queue[1 + i - 1]
    BY <1>2, <2>1, SubSeqProperties
  <2>3. \A i \in 1 .. keep : i \in 1 .. keep - 1 + 1 /\ 1 + i - 1 = i
    BY <1>2
  <2>4. (IF 1 <= keep THEN keep - 1 + 1 ELSE 0) = keep
    BY <1>2
  <2> QED
    BY <2>2, <2>3, <2>4
<1>4. DOMAIN queue' = 1 .. keep
  BY <1>3, LenProperties
<1>5. \A i \in DOMAIN queue' : i \in DOMAIN queue /\ queue'[i] = queue[i]
  BY <1>1, <1>2, <1>3, <1>4
<1>6. \A i \in DOMAIN queue : i \in DOMAIN queue' \/ i \in keep + 1 .. Len(queue)
  BY <1>1, <1>2, <1>4
<1>7. \A i \in keep + 1 .. Len(queue) : queue[i].run \in parted'
  OBVIOUS
<1>8. \A kind, r : Queued(kind, r)' => Queued(kind, r)
  BY <1>5 DEF Queued
<1>9. \A kind, r : Queued(kind, r) => Queued(kind, r)' \/ r \in parted'
  BY <1>5, <1>6, <1>7 DEF Queued
<1> QED
  BY <1>2, <1>3, <1>7, <1>8, <1>9

\* What EventsInOrder says of an event of which only the kind is known.
LEMMA QueuedSound ==
    ASSUME BubbleTypeOK, EventsInOrder, NEW kind, NEW r, Queued(kind, r)
    PROVE  /\ kind \in Kinds /\ r \in Runs /\ r <= turnsBegun
           /\ kind # "delta" => phase[r] = "over" /\ kind \notin owes[r]
           /\ kind = "row" => ending[r] = "reply"
<1>1. PICK i \in DOMAIN queue : queue[i].kind = kind /\ queue[i].run = r
  BY DEF Queued
<1>2. queue[i] \in Event /\ EventSound(queue[i])
  BY QueueType DEF EventsInOrder
<1> QED
  BY <1>1, <1>2 DEF EventSound, Event

-----------------------------------------------------------------------------
(* The router and the page                                                  *)

Bubble == [raw : Wordings, sent : Wordings, pending : Wordings, replace : BOOLEAN,
           started : BOOLEAN, flush : BOOLEAN, settle : BOOLEAN]
View == [elements : Nat, live : BOOLEAN, text : Wordings]

\* What comes of a flush: f is what it leaves of the bubble b of run r.
Quiet(r, b, f) ==
    /\ f.reg = reg /\ f.view = screen[r]
    /\ f.run.started = b.started /\ f.run.flush = b.flush /\ f.run.settle = b.settle
TooLate(r, b, f) ==
    b.started /\ reg # r /\ f.run = Forgotten /\ f.reg = reg /\ f.view = screen[r]
Paints(r, b, force, f) ==
    /\ b.pending # NoText /\ (b.started => reg = r) /\ f.reg = r
    /\ f.run.started /\ f.run.settle = b.settle
    /\ force => f.run.flush = b.flush
    /\ r \in settled => f.view = screen[r]
    /\ r \notin settled =>
          /\ f.view.live
          /\ f.view.elements =
                IF screen[r].live THEN screen[r].elements ELSE screen[r].elements + 1

LEMMA NothingHeld == NoText \in Wordings /\ <<>> \in Wordings /\ NoText # <<>> /\ NoRun \in Bubble
<1>0. <<"none">> \in Seq(STRING \cup {"none"})
  <2>1. "none" \in STRING \cup {"none"}
    OBVIOUS
  <2> QED
    BY <2>1
<1>1. NoText \in Wordings /\ <<>> \in Wordings
  BY <1>0, EmptySeq, Zenon DEF NoText, Wordings
<1>2. NoText # <<>>
  BY DEF NoText
<1> QED
  BY <1>1, <1>2 DEF NoRun, Bubble

LEMMA FlushEffect ==
    ASSUME NEW r \in Runs, NEW b \in Bubble, NEW force \in BOOLEAN,
           screen[r] \in View, reg \in Runs \cup {None}
    PROVE  /\ Flushed(r, b, force).run \in Bubble
           /\ Flushed(r, b, force).reg \in Runs \cup {None}
           /\ Flushed(r, b, force).view \in View
           /\ Flushed(r, b, force).run.pending = NoText
           /\ \/ Quiet(r, b, Flushed(r, b, force))
              \/ TooLate(r, b, Flushed(r, b, force))
              \/ Paints(r, b, force, Flushed(r, b, force))
<1> DEFINE clean == Clean(b.pending)
           extends == ~b.replace /\ IsPrefix(b.sent, clean)
           chunk == IF extends THEN SubSeq(clean, Len(b.sent) + 1, Len(clean)) ELSE clean
           held == [b EXCEPT !.pending = NoText, !.replace = FALSE, !.sent = clean]
           painted == [held EXCEPT !.started = TRUE, !.flush = @ \/ ~force]
           F == Flushed(r, b, force)
<1>1. clean \in Wordings
  BY CleanType DEF Bubble, Wordings
<1>2. chunk \in Wordings
  <2>1. CASE extends
    BY <1>1, <2>1, PrefixRest DEF Bubble, Wordings
  <2>2. CASE ~extends
    BY <1>1, <2>2
  <2> QED
    BY <2>1, <2>2
<1> DEFINE view == Painted(r, screen[r], chunk, ~extends)
<1>3. F = IF b.pending = NoText
            THEN [run |-> b, reg |-> reg, view |-> screen[r]]
          ELSE IF clean = b.sent \/ chunk = <<>>
            THEN [run |-> held, reg |-> reg, view |-> screen[r]]
          ELSE IF b.started /\ reg # r
            THEN [run |-> Forgotten, reg |-> reg, view |-> screen[r]]
          ELSE [run |-> painted, reg |-> IF b.started THEN reg ELSE r, view |-> view]
  BY DEF Flushed
<1> HIDE DEF clean, extends, F
<1>4. /\ held \in Bubble /\ held.pending = NoText
      /\ held.started = b.started /\ held.flush = b.flush /\ held.settle = b.settle
  BY <1>1, NothingHeld DEF Bubble
<1> HIDE DEF held
<1>5. /\ painted \in Bubble /\ painted.pending = NoText /\ painted.started
      /\ painted.settle = b.settle /\ (force => painted.flush = b.flush)
  BY <1>4 DEF Bubble
<1> HIDE DEF chunk, painted
<1>6. /\ view \in View
      /\ r \in settled => view = screen[r]
      /\ r \notin settled =>
            /\ view.live
            /\ view.elements = IF screen[r].live THEN screen[r].elements ELSE screen[r].elements + 1
  <2>1. CASE r \in settled
    BY <2>1 DEF Painted
  <2>2. CASE r \notin settled
    <3> DEFINE v == Started(screen[r])
               text == IF ~extends THEN chunk ELSE v.text \o chunk
    <3>1. /\ v \in View /\ v.live
          /\ v.elements = IF screen[r].live THEN screen[r].elements ELSE screen[r].elements + 1
      BY NothingHeld DEF Started, View
    <3> HIDE DEF v
    <3>2. text \in Wordings
      BY <1>2, <3>1, ConcatProperties DEF Wordings, View
    <3> HIDE DEF text
    <3>3. view = [v EXCEPT !.text = text]
      BY <2>2 DEF Painted, v, text
    <3> QED
      BY <2>2, <3>1, <3>2, <3>3 DEF View
  <2> QED
    BY <2>1, <2>2
<1> HIDE DEF view
<1>7. CASE b.pending = NoText
  <2>1. F.run = b /\ F.reg = reg /\ F.view = screen[r]
    BY <1>3, <1>7
  <2> QED
    BY <1>7, <2>1 DEF Quiet, F
<1>8. CASE b.pending # NoText /\ (clean = b.sent \/ chunk = <<>>)
  <2>1. F.run = held /\ F.reg = reg /\ F.view = screen[r]
    BY <1>3, <1>8
  <2> QED
    BY <1>4, <2>1 DEF Quiet, F
<1>9. CASE b.pending # NoText /\ ~(clean = b.sent \/ chunk = <<>>) /\ b.started /\ reg # r
  <2>1. F.run = Forgotten /\ F.reg = reg /\ F.view = screen[r]
    BY <1>3, <1>9
  <2>2. Forgotten \in Bubble /\ Forgotten.pending = NoText
    BY NothingHeld DEF Forgotten, NoRun
  <2> QED
    BY <1>9, <2>1, <2>2 DEF TooLate, F
<1>10. CASE b.pending # NoText /\ ~(clean = b.sent \/ chunk = <<>>) /\ ~(b.started /\ reg # r)
  <2>1. F.run = painted /\ F.reg = r /\ F.view = view
    BY <1>3, <1>10
  <2>2. b.started => reg = r
    BY <1>10
  <2>3. Paints(r, b, force, F)
    BY <1>5, <1>6, <1>10, <2>1, <2>2 DEF Paints
  <2> QED
    BY <1>5, <1>6, <2>1, <2>3 DEF F
<1> QED
  BY <1>7, <1>8, <1>9, <1>10

-----------------------------------------------------------------------------
(* One turn at a time                                                       *)

LEMMA NoneIsNoRun == None \notin Runs /\ Runs \subseteq Nat
BY SpeechAssumption, LenProperties DEF None, Runs

LEMMA LatestIs ==
    ASSUME BubbleTypeOK, RunsInHand, OneByOne, NEW r \in Runs, phase[r] # "waiting", ~Through(r)
    PROVE  r = turnsBegun
<1>1. r \in Nat /\ turnsBegun \in Nat /\ r <= turnsBegun
  BY NoneIsNoRun, SpeechAssumption, LenProperties DEF RunsInHand, BubbleTypeOK
<1>2. ~(r < turnsBegun)
  BY DEF OneByOne
<1> QED
  BY <1>1, <1>2

LEMMA OpenIsLatest ==
    ASSUME BubbleTypeOK, RunsInHand, RouterSound, OneByOne, NEW r \in Runs \ parted, reg = r
    PROVE  r = turnsBegun
<1>1. phase[r] # "waiting"
  BY DEF RouterSound, BubbleSound
<1>2. Awaited(r) /\ r \notin landed \ ahead
  BY DEF OneByOne
<1>3. ~Through(r)
  BY <1>2 DEF Awaited, Through, Kinds
<1> QED
  BY <1>1, <1>3, LatestIs

LEMMA QueuedIsLatest ==
    ASSUME BubbleTypeOK, RunsInHand, EventsInOrder, OneByOne, NEW kind, NEW r, Queued(kind, r)
    PROVE  r \in Runs /\ phase[r] # "waiting" /\ r = turnsBegun
<1>1. kind \in Kinds /\ r \in Runs /\ r <= turnsBegun
  BY QueuedSound
<1>2. ~Through(r)
  BY <1>1 DEF Through
<1>3. r \in Nat /\ turnsBegun \in Nat
  BY <1>1, NoneIsNoRun, SpeechAssumption, LenProperties DEF BubbleTypeOK
<1>4. phase[r] # "waiting"
  BY <1>1, <1>3 DEF RunsInHand
<1> QED
  BY <1>1, <1>2, <1>4, LatestIs

\* What a flush leaves is in turn, and one element.
LEMMA FlushKeeps ==
    ASSUME BubbleInv, NEW r \in Runs, NEW b \in Bubble, NEW force \in BOOLEAN,
           b.started = bub[r].started,
           NEW f, Quiet(r, b, f) \/ TooLate(r, b, f) \/ Paints(r, b, force, f),
           \A s \in Runs \ {r} : bub'[s] = bub[s],
           reg' = f.reg, screen' = [screen EXCEPT ![r] = f.view],
           UNCHANGED <<phase, owes, turnsBegun, landed, dones, swapped, parted, ahead, stopped>>,
           outOfTurn => outOfTurn',
           \A kind, s : Queued(kind, s)' => Queued(kind, s),
           \A s \in Runs \ {r} : Queued("final", s) => Queued("final", s)',
           ~outOfTurn' => /\ r < turnsBegun /\ bub'[r].settle => bub[r].settle
                          /\ r \notin parted /\ reg' = r => Awaited(r)'
                          /\ ~b.started /\ reg' # reg => phase[r] = "running" \/ WordsQueued(r)
    PROVE  InTurn' /\ Elements'
<1> USE DEF BubbleInv
<1>1. reg' \in {reg, r} /\ (reg' # reg => ~b.started)
  BY DEF Quiet, TooLate, Paints
<1>2. /\ screen[r] \in View /\ screen \in [Runs -> View]
      /\ screen'[r] = f.view /\ \A s \in Runs \ {r} : screen'[s] = screen[s]
  BY DEF BubbleTypeOK, View
<1>3. Elements'
  <2> SUFFICES ASSUME NEW s \in Runs \ stopped
               PROVE  screen'[s].elements <= 1 /\ (screen'[s].live <=> screen'[s].elements = 1)
    BY DEF Elements
  <2>1. screen[s].elements <= 1 /\ (screen[s].live <=> screen[s].elements = 1) /\ screen[s].elements \in Nat
    BY <1>2 DEF Elements, View
  <2>2. CASE s # r
    BY <1>2, <2>1, <2>2
  <2>3. CASE s = r
    BY <1>2, <2>1, <2>3 DEF Quiet, TooLate, Paints
  <2> QED
    BY <2>2, <2>3
<1>4. CASE outOfTurn'
  BY <1>3, <1>4 DEF InTurn
<1>5. CASE ~outOfTurn'
  <2>1. OneByOne /\ EndsOnce /\ OwnRowClaims /\ OnScreen
    BY <1>5 DEF InTurn
  <2>2. OneByOne'
    <3>1. ASSUME NEW s \in Runs, s < turnsBegun PROVE Through(s)'
      <4>1. Through(s)
        BY <2>1, <3>1 DEF OneByOne
      <4>2. bub'[s].settle => bub[s].settle
        BY <1>5, <3>1
      <4> QED
        BY <4>1, <4>2 DEF Through
    <3>2. ASSUME NEW s \in Runs \ parted, reg' = s PROVE Awaited(s)'
      <4>1. CASE s = r
        BY <1>5, <3>2, <4>1
      <4>2. CASE s # r
        <5>1. Awaited(s)
          BY <1>1, <2>1, <3>2, <4>2 DEF OneByOne
        <5> QED
          BY <4>2, <5>1 DEF Awaited
      <4> QED
        BY <4>1, <4>2
    <3>3. ASSUME NEW s \in landed \ ahead PROVE reg' # s
      <4>1. reg # s /\ s \in Runs
        BY <2>1 DEF OneByOne, BubbleTypeOK
      <4>2. phase[s] # "running" /\ ~WordsQueued(s)
        BY <4>1 DEF LandedSaid, RunsInHand
      <4> QED
        BY <1>1, <1>5, <4>1, <4>2
    <3> QED
      BY <3>1, <3>2, <3>3 DEF OneByOne
  <2>3. EndsOnce'
    <3> SUFFICES ASSUME NEW s \in Runs \ ahead, swapped[s] \subseteq {s}
                 PROVE  /\ dones[s] <= 1
                        /\ dones[s] # 0 => phase[s] = "over" /\ ~WordsQueued(s)' /\ reg' # s
      BY DEF EndsOnce
    <3>1. /\ dones[s] <= 1
          /\ dones[s] # 0 => phase[s] = "over" /\ ~WordsQueued(s) /\ reg # s
      BY <2>1 DEF EndsOnce
    <3>2. ~WordsQueued(s) => ~WordsQueued(s)'
      BY DEF WordsQueued
    <3> QED
      BY <1>1, <1>5, <3>1, <3>2
  <2>4. OwnRowClaims'
    BY <1>5, <2>1 DEF OwnRowClaims, InTurn
  <2>5. OnScreen'
    <3> SUFFICES ASSUME NEW s \in Runs \ (parted \cup stopped), screen'[s].elements > 0
                 PROVE  reg' = s
      BY DEF OnScreen
    <3>1. CASE s = r
      <4>1. CASE Paints(r, b, force, f)
        BY <3>1, <4>1 DEF Paints
      <4>2. CASE ~Paints(r, b, force, f)
        BY <1>2, <2>1, <3>1, <4>2 DEF OnScreen, Quiet, TooLate
      <4> QED
        BY <4>1, <4>2
    <3>2. CASE s # r
      <4>1. reg = s
        BY <1>2, <2>1, <3>2 DEF OnScreen
      <4>2. s = turnsBegun
        BY <2>1, <4>1, OpenIsLatest
      <4>3. CASE reg' # reg
        <5>1. phase[r] = "running" \/ WordsQueued(r)
          BY <1>1, <1>5, <4>3
        <5>2. r = turnsBegun
          <6>1. CASE WordsQueued(r)
            BY <2>1, <6>1, QueuedIsLatest DEF WordsQueued
          <6>2. CASE phase[r] = "running"
            BY <2>1, <6>2, LatestIs DEF Through
          <6> QED
            BY <5>1, <6>1, <6>2
        <5> QED
          BY <3>2, <4>2, <5>2
      <4> QED
        BY <4>1, <4>3
    <3> QED
      BY <3>1, <3>2
  <2> QED
    BY <1>3, <2>2, <2>3, <2>4, <2>5 DEF InTurn
<1> QED
  BY <1>3, <1>4, <1>5

\* What a row leaves of the thread's bubbles: owed may be any events that
\* are not of the run's end.
LEMMA RowKeeps ==
    ASSUME BubbleInv, NEW r \in Runs, ending[r] = "reply", Lands(r),
           UNCHANGED <<phase, ending, said, bub, turnsBegun, parted, outOfTurn, stopped>>,
           \A s \in Runs : owes'[s] = owes[s] \/ owes'[s] = owes[s] \ {"answer"},
           \A kind, s : Queued(kind, s)' => Queued(kind, s),
           \A s : Queued("final", s) => Queued("final", s)'
    PROVE  /\ InTurn' /\ Elements' /\ LandedSaid'
           /\ r \in landed' /\ landed \subseteq landed' /\ reg' \in {reg, None}
<1> USE DEF BubbleInv
<1>0. /\ screen \in [Runs -> View] /\ dones \in [Runs -> Nat] /\ swapped \in [Runs -> SUBSET Runs]
      /\ reg \in Runs \cup {None} /\ None \notin Runs /\ landed \subseteq Runs
  BY NoneIsNoRun DEF BubbleTypeOK, View
<1>a. \A s : WordsQueued(s)' => WordsQueued(s)
  BY DEF WordsQueued
<1>b. /\ \A s \in Runs : Through(s) /\ landed \ ahead \subseteq landed' \ ahead' => Through(s)'
      /\ \A s \in Runs : Awaited(s) => Awaited(s)'
  <2>1. ASSUME NEW s \in Runs, Through(s), landed \ ahead \subseteq landed' \ ahead'
        PROVE  Through(s)'
    <3>1. owes'[s] \subseteq owes[s]
      OBVIOUS
    <3> QED
      BY <2>1, <3>1 DEF Through
  <2>2. ASSUME NEW s \in Runs, Awaited(s) PROVE Awaited(s)'
    BY <2>2 DEF Awaited
  <2> QED
    BY <2>1, <2>2
<1>1. CASE r \in landed
  <2>1. UNCHANGED <<landed, reg, screen, settled, dones, swapped, ahead>>
    BY <1>1 DEF Lands, page
  <2>2. Elements' /\ LandedSaid'
    BY <1>a, <2>1 DEF Elements, LandedSaid
  <2>3. ASSUME OneByOne PROVE OneByOne'
    BY <1>b, <2>1, <2>3 DEF OneByOne
  <2>4. ASSUME EndsOnce PROVE EndsOnce'
    BY <1>a, <2>1, <2>4 DEF EndsOnce
  <2>5. OnScreen => OnScreen'
    BY <2>1 DEF OnScreen
  <2>6. OwnRowClaims /\ ~outOfTurn => OwnRowClaims'
    BY <2>1 DEF OwnRowClaims
  <2> QED
    BY <1>1, <2>1, <2>2, <2>3, <2>4, <2>5, <2>6 DEF InTurn
<1>2. CASE r \notin landed
  <2>1. /\ landed' = landed \cup {r} /\ reg' = None
        /\ ahead' = IF WordsQueued(r) THEN ahead \cup {r} ELSE ahead
        /\ IF reg = None THEN UNCHANGED <<screen, settled, dones, swapped>>
           ELSE /\ Done(reg)
                /\ swapped' = [swapped EXCEPT ![reg] = @ \cup {r}]
    BY <1>2 DEF Lands, Taken, page
  <2>2. \A s \in Runs \ {reg} : screen'[s] = screen[s] /\ dones'[s] = dones[s] /\ swapped'[s] = swapped[s]
    BY <1>0, <2>1 DEF Done
  <2>3. reg # None => /\ screen'[reg] = Retired(screen[reg]) /\ dones'[reg] = dones[reg] + 1
                      /\ swapped'[reg] = swapped[reg] \cup {r} /\ reg \in Runs
    BY <1>0, <2>1 DEF Done
  <2>4. Elements'
    <3> SUFFICES ASSUME NEW s \in Runs \ stopped
                 PROVE  screen'[s].elements <= 1 /\ (screen'[s].live <=> screen'[s].elements = 1)
      BY DEF Elements
    <3>1. screen[s].elements <= 1 /\ (screen[s].live <=> screen[s].elements = 1) /\ screen[s].elements \in Nat
      BY <1>0 DEF Elements, View
    <3>2. CASE s # reg
      BY <2>2, <3>1, <3>2
    <3>3. CASE s = reg
      BY <1>0, <2>3, <3>1, <3>3 DEF Retired
    <3> QED
      BY <3>2, <3>3
  <2>5. LandedSaid'
    BY <1>0, <1>a, <2>1 DEF LandedSaid
  <2>6. landed \ ahead \subseteq landed' \ ahead'
    BY <1>2, <2>1
  <2>7. ASSUME ~outOfTurn, OneByOne, EndsOnce, OwnRowClaims, OnScreen
        PROVE  OneByOne' /\ EndsOnce' /\ OwnRowClaims' /\ OnScreen'
    <3>1. OneByOne'
      <4>1. \A s \in Runs : reg' # s
        BY <1>0, <2>1
      <4>2. \A s \in Runs : s < turnsBegun => Through(s)'
        BY <1>b, <2>6, <2>7 DEF OneByOne
      <4>3. landed' \subseteq Runs
        BY <1>0, <2>1
      <4> QED
        BY <4>1, <4>2, <4>3 DEF OneByOne
    <3>2. EndsOnce'
      <4> SUFFICES ASSUME NEW s \in Runs \ ahead', swapped'[s] \subseteq {s}
                   PROVE  /\ dones'[s] <= 1
                          /\ dones'[s] # 0 => phase[s] = "over" /\ ~WordsQueued(s)' /\ reg' # s
        BY DEF EndsOnce
      <4>1. s \in Runs \ ahead /\ reg' # s
        BY <1>0, <2>1
      <4>2. CASE s # reg
        BY <1>a, <2>2, <2>7, <4>1, <4>2 DEF EndsOnce
      <4>3. CASE s = reg
        <5>1. swapped'[s] = swapped[s] \cup {r} /\ dones'[s] = dones[s] + 1
          BY <1>0, <2>3, <4>3
        <5>2. r = s
          BY <5>1
        <5>3. ~WordsQueued(r)
          BY <2>1, <5>2
        <5>4. dones[s] = 0
          BY <2>7, <4>1, <4>3, <5>1 DEF EndsOnce
        <5>5. phase[r] = "over"
          BY DEF RunsInHand
        <5> QED
          BY <1>a, <4>1, <5>1, <5>2, <5>3, <5>4, <5>5
      <4> QED
        BY <4>2, <4>3
    <3>3. OwnRowClaims'
      <4> SUFFICES ASSUME NEW s \in Runs \ parted PROVE swapped'[s] \subseteq {s} \cup parted
        BY DEF OwnRowClaims
      <4>1. swapped[s] \subseteq {s} \cup parted
        BY <2>7 DEF OwnRowClaims
      <4>2. CASE s # reg
        BY <2>2, <4>1, <4>2
      <4>3. CASE s = reg
        <5>1. s = turnsBegun
          BY <2>7, <4>3, OpenIsLatest
        <5>2. r \in parted \/ r = turnsBegun
          <6>1. SUFFICES ASSUME r \notin parted PROVE r = turnsBegun
            OBVIOUS
          <6>2. "row" \in owes[r] \/ Queued("row", r)
            BY <1>2, <6>1 DEF Promised
          <6>3. ~Through(r)
            BY <6>2 DEF Through, Kinds
          <6>4. phase[r] # "waiting"
            BY DEF RunsInHand
          <6> QED
            BY <2>7, <6>3, <6>4, LatestIs
        <5>3. swapped'[s] = swapped[s] \cup {r}
          BY <1>0, <2>3, <4>3
        <5> QED
          BY <4>1, <5>1, <5>2, <5>3
      <4> QED
        BY <4>2, <4>3
    <3>4. OnScreen'
      <4> SUFFICES ASSUME NEW s \in Runs \ (parted \cup stopped) PROVE ~(screen'[s].elements > 0)
        BY DEF OnScreen
      <4>1. CASE s # reg
        <5>1. screen[s].elements \in Nat /\ ~(screen[s].elements > 0)
          BY <1>0, <2>7, <4>1 DEF OnScreen, View
        <5> QED
          BY <2>2, <4>1, <5>1
      <4>2. CASE s = reg
        <5>1. screen[s].elements \in Nat /\ screen[s].elements <= 1
          BY <1>0 DEF Elements, View
        <5>2. screen'[s] = Retired(screen[s])
          BY <1>0, <2>3, <4>2
        <5> QED
          BY <5>1, <5>2 DEF Retired
      <4> QED
        BY <4>1, <4>2
    <3> QED
      BY <3>1, <3>2, <3>3, <3>4
  <2>8. InTurn'
    <3>1. CASE outOfTurn
      BY <3>1 DEF InTurn
    <3>2. CASE ~outOfTurn
      BY <2>7, <3>2 DEF InTurn
    <3> QED
      BY <3>1, <3>2
  <2> QED
    BY <2>1, <2>4, <2>5, <2>8
<1> QED
  BY <1>1, <1>2

-----------------------------------------------------------------------------
(* The gateway's steps                                                      *)

\* An event comes last: it is not of a run whose end is queued, or it is an
\* end itself that is not.
LEMMA SentInOrder ==
    ASSUME BubbleTypeOK, EventsInOrder, NEW e \in Event, Sends(e),
           \A x \in Event : EventSound(x) => EventSound(x)',
           EventSound(e)',
           \A kind \in Kinds \ {"delta"} : Queued(kind, e.run) => e.kind # "delta" /\ e.kind # kind
    PROVE  EventsInOrder'
<1>1. /\ queue \in Seq(Event) /\ Len(queue) \in Nat /\ DOMAIN queue = 1 .. Len(queue)
      /\ \A i \in DOMAIN queue : queue[i] \in Event
  BY QueueType
<1>2. /\ queue' \in Seq(Event)
      /\ ~up => queue' = queue
      /\ up => /\ Len(queue') = Len(queue) + 1
               /\ \A i \in 1 .. Len(queue) : queue'[i] = queue[i]
               /\ queue'[Len(queue) + 1] = e
  BY SentEvent
<1>3. CASE ~up
  <2>1. queue' = queue
    BY <1>2, <1>3
  <2>2. \A i \in DOMAIN queue' : \A x : x = queue'[i] => x \in Event /\ EventSound(x)
    BY <1>1, <2>1 DEF EventsInOrder
  <2>3. \A i \in DOMAIN queue' : \A x : x = queue'[i] => EventSound(x)'
    BY <2>2
  <2>4. (\A i \in DOMAIN queue : EventSound(queue[i]))'
    BY <2>3
  <2> QED
    BY <2>1, <2>4 DEF EventsInOrder
<1>4. CASE up
  <2>1. DOMAIN queue' = 1 .. Len(queue) + 1
    BY <1>2, <1>4, LenProperties
  <2>2. \A i \in DOMAIN queue' : \/ i \in DOMAIN queue /\ queue'[i] = queue[i]
                                 \/ i = Len(queue) + 1 /\ queue'[i] = e
    BY <1>1, <1>2, <1>4, <2>1
  <2>3. \A i \in DOMAIN queue' : \A x : x = queue'[i] => EventSound(x)'
    <3> SUFFICES ASSUME NEW i \in DOMAIN queue', NEW x, x = queue'[i] PROVE EventSound(x)'
      OBVIOUS
    <3>1. CASE i \in DOMAIN queue /\ queue'[i] = queue[i]
      <4>1. x \in Event /\ EventSound(x)
        BY <1>1, <3>1 DEF EventsInOrder
      <4> QED
        BY <4>1
    <3>2. CASE queue'[i] = e
      BY <3>2
    <3> QED
      BY <2>2, <3>1, <3>2
  <2>4. (\A i \in DOMAIN queue : EventSound(queue[i]))'
    BY <2>3
  <2>5. ASSUME NEW i \in DOMAIN queue', NEW j \in DOMAIN queue',
               i < j, queue'[i].run = queue'[j].run, queue'[i].kind # "delta"
        PROVE  queue'[j].kind # "delta" /\ queue'[j].kind # queue'[i].kind
    <3>1. i \in 1 .. Len(queue)
      BY <1>1, <2>1, <2>5
    <3>2. i \in DOMAIN queue /\ queue'[i] = queue[i]
      BY <1>1, <1>2, <1>4, <3>1
    <3>3. CASE j \in DOMAIN queue /\ queue'[j] = queue[j]
      BY <2>5, <3>2, <3>3 DEF EventsInOrder
    <3>4. CASE queue'[j] = e
      <4>1. Queued(queue[i].kind, e.run) /\ queue[i].kind \in Kinds \ {"delta"}
        BY <1>1, <2>5, <3>2, <3>4 DEF Queued, Event
      <4> QED
        BY <3>2, <3>4, <4>1
    <3> QED
      BY <2>2, <3>3, <3>4
  <2> QED
    BY <2>4, <2>5 DEF EventsInOrder
<1> QED
  BY <1>3, <1>4

LEMMA BeginKeeps ==
    ASSUME BubbleInv, Begin
    PROVE  BubbleInv'
<1> USE DEF BubbleInv
<1> DEFINE n == turnsBegun + 1
<1>1. /\ turn = None /\ turnsBegun < Len(Speech) /\ up
      /\ turnsBegun' = n /\ turn' = n
      /\ phase' = [phase EXCEPT ![n] = "running"]
      /\ outOfTurn' = (outOfTurn \/ \E r \in 1..turnsBegun : ~Through(r))
      /\ UNCHANGED <<ending, said, owes, queue, up, repair, landed, reg, bub, screen, settled,
                     dones, swapped, parted, ahead, partial, stopped, reopened, cuts, reloads>>
  BY DEF Begin, router, page
<1>2. /\ Runs = 1 .. Len(Speech) /\ Len(Speech) \in Nat /\ turnsBegun \in Nat
      /\ Runs \subseteq Nat /\ None \notin Runs /\ n \in Runs
  <2>1. Runs = 1 .. Len(Speech) /\ Len(Speech) \in Nat
    BY SpeechAssumption, LenProperties DEF Runs
  <2>2. turnsBegun \in 0 .. Len(Speech)
    BY DEF BubbleTypeOK
  <2> QED
    BY <1>1, <2>1, <2>2 DEF None
<1>3. \A kind, r : Queued(kind, r)' <=> Queued(kind, r)
  BY <1>1, SameQueue
<1>4. phase[n] = "waiting" /\ ending[n] = "none" /\ owes[n] = {}
  BY <1>2 DEF RunsInHand
<1>5. phase' \in [Runs -> {"waiting", "running", "over"}] /\ phase'[n] = "running"
      /\ \A r \in Runs \ {n} : phase'[r] = phase[r]
  BY <1>1, <1>2 DEF BubbleTypeOK
<1> HIDE DEF n
<1>6. BubbleTypeOK'
  <2>1. turn' \in Runs \cup {None} /\ turnsBegun' \in 0 .. Len(Speech) /\ outOfTurn' \in BOOLEAN
    BY <1>1, <1>2 DEF BubbleTypeOK
  <2> QED
    BY <1>1, <1>5, <2>1 DEF BubbleTypeOK
<1>7. RunsInHand'
  <2>1. turn' \in {None, turnsBegun'}
    BY <1>1
  <2>2. \A r \in Runs : phase'[r] = "waiting" <=> r > turnsBegun'
    BY <1>1, <1>2, <1>4, <1>5 DEF RunsInHand, n
  <2>3. ASSUME NEW r \in Runs
        PROVE  /\ phase'[r] # "over" => ending'[r] = "none" /\ owes'[r] = {}
               /\ phase'[r] = "over" => ending'[r] \in Endings
    BY <1>1, <1>4, <1>5 DEF RunsInHand
  <2> QED
    BY <1>1, <2>1, <2>2, <2>3 DEF RunsInHand
<1>8. EventsInOrder'
  <2>1. ASSUME NEW i \in DOMAIN queue PROVE EventSound(queue[i])'
    <3>1. EventSound(queue[i]) /\ queue[i] \in Event
      BY QueueType DEF EventsInOrder
    <3>2. queue[i].run \in Runs \ {n}
      BY <1>2, <3>1 DEF EventSound, Event, n
    <3>3. queue[i].run <= turnsBegun'
      BY <1>1, <1>2, <3>1, <3>2 DEF EventSound, n
    <3> QED
      BY <1>1, <1>5, <3>1, <3>2, <3>3 DEF EventSound
  <2> QED
    BY <1>1, <2>1 DEF EventsInOrder
<1>9. HistoryTrue'
  <2>1. repair.run \in Runs \cup {None}
    BY DEF BubbleTypeOK
  <2> QED
    BY <1>1, <1>5, <2>1 DEF HistoryTrue
<1>10. LostAreParted'
  BY <1>1 DEF LostAreParted
<1>11. RouterSound'
  <2> SUFFICES ASSUME NEW r \in Runs PROVE BubbleSound(r)'
    BY DEF RouterSound
  <2>1. BubbleSound(r)
    BY DEF RouterSound
  <2>2. CASE r # n
    BY <1>1, <1>3, <1>5, <2>1, <2>2 DEF BubbleSound
  <2>3. CASE r = n
    BY <1>1, <1>4, <1>5, <2>1, <2>3 DEF BubbleSound
  <2> QED
    BY <2>2, <2>3
<1>12. LandedSaid'
  BY <1>1, <1>3 DEF LandedSaid, WordsQueued
<1>13. Promised'
  BY <1>1, <1>3, <1>4, <1>5 DEF Promised, WordsQueued
<1>14. InTurn'
  <2>1. CASE outOfTurn'
    BY <2>1 DEF InTurn
  <2>2. CASE ~outOfTurn'
    <3>1. OneByOne /\ EndsOnce /\ OwnRowClaims /\ OnScreen /\ ~outOfTurn
      BY <1>1, <2>2 DEF InTurn
    <3>2. OneByOne'
      <4>1. ASSUME NEW r \in Runs, r < turnsBegun' PROVE Through(r)'
        <5>1. r \in 1 .. turnsBegun /\ r # n
          BY <1>1, <1>2, <4>1 DEF n
        <5>2. Through(r)
          BY <1>1, <2>2, <5>1
        <5> QED
          BY <1>1, <1>3, <1>5, <5>1, <5>2 DEF Through
      <4>2. ASSUME NEW r \in Runs \ parted, reg = r PROVE Awaited(r)'
        <5>1. Awaited(r)
          BY <3>1, <4>2 DEF OneByOne
        <5> QED
          BY <1>1, <1>3, <1>5, <5>1 DEF Awaited
      <4> QED
        BY <1>1, <3>1, <4>1, <4>2 DEF OneByOne
    <3>3. EndsOnce'
      <4> SUFFICES ASSUME NEW r \in Runs \ ahead, swapped[r] \subseteq {r}
                   PROVE  /\ dones[r] <= 1
                          /\ dones[r] # 0 => phase'[r] = "over" /\ ~WordsQueued(r)' /\ reg # r
        BY <1>1 DEF EndsOnce
      <4>1. /\ dones[r] <= 1
            /\ dones[r] # 0 => phase[r] = "over" /\ ~WordsQueued(r) /\ reg # r
        BY <3>1 DEF EndsOnce
      <4> QED
        BY <1>3, <1>4, <1>5, <4>1 DEF WordsQueued
    <3>4. OwnRowClaims' /\ OnScreen'
      BY <1>1, <3>1 DEF OwnRowClaims, OnScreen
    <3> QED
      BY <3>2, <3>3, <3>4 DEF InTurn
  <2> QED
    BY <2>1, <2>2
<1>15. Elements'
  BY <1>1 DEF Elements
<1> QED
  BY <1>6, <1>7, <1>8, <1>9, <1>10, <1>11, <1>12, <1>13, <1>14, <1>15

LEMMA SayKeeps ==
    ASSUME BubbleInv, NEW r \in Runs, Say(r)
    PROVE  BubbleInv'
<1> USE DEF BubbleInv
<1> DEFINE k0 == IF Speech[r][said[r] + 1] = Replace THEN said[r] + 2 ELSE said[r] + 1
<1>a. \E k : k = k0 /\ said' = [said EXCEPT ![r] = k] /\ Sends([kind |-> "delta", run |-> r, upto |-> k])
  BY Zenon DEF Say
<1>b. PICK k : k = k0 /\ said' = [said EXCEPT ![r] = k] /\ Sends([kind |-> "delta", run |-> r, upto |-> k])
  BY <1>a
<1> DEFINE e == [kind |-> "delta", run |-> r, upto |-> k]
<1>1. /\ phase[r] = "running" /\ said[r] < Len(Speech[r])
      /\ said' = [said EXCEPT ![r] = k]
      /\ Sends(e)
      /\ UNCHANGED <<phase, ending, owes, up, repair, turn, turnsBegun, landed, reg, bub, screen,
                     settled, dones, swapped, parted, outOfTurn, ahead, partial, stopped,
                     reopened, cuts, reloads>>
  BY <1>b DEF Say, router, page, past
<1>2. said[r] \in Nat /\ Len(Speech[r]) \in Nat /\ DOMAIN Speech[r] = 1 .. Len(Speech[r]) /\ r \in Nat
  BY SpeechWords DEF BubbleTypeOK
<1>3. k \in Nat /\ k > said[r] /\ k <= Len(Speech[r]) /\ Speech[r][k] # Replace
  <2>1. said[r] + 1 \in DOMAIN Speech[r]
    BY <1>1, <1>2
  <2>2. Speech[r][said[r] + 1] = Replace =>
            said[r] + 1 < Len(Speech[r]) /\ Speech[r][said[r] + 1 + 1] # Replace
    BY <2>1, SpeechAssumption
  <2>3. said[r] + 1 + 1 = said[r] + 2
    BY <1>2
  <2> QED
    BY <1>1, <1>2, <1>b, <2>2, <2>3
<1>4. e \in Event /\ e.kind = "delta" /\ e.run = r /\ e.upto = k
  BY <1>3 DEF Event, Kinds
<1> HIDE DEF k0, e
<1>5. /\ queue' \in Seq(Event) /\ Len(queue') <= MaxQueue
      /\ \A kind, s : Queued(kind, s)' <=> Queued(kind, s) \/ (up /\ kind = "delta" /\ s = r)
      /\ ~up => queue' = queue
      /\ up => /\ Len(queue') = Len(queue) + 1
               /\ \A i \in 1 .. Len(queue) : queue'[i] = queue[i]
               /\ queue'[Len(queue) + 1] = e
  BY <1>1, <1>4, SentEvent
<1>6. /\ said' \in [Runs -> Nat] /\ said'[r] = k /\ \A s \in Runs \ {r} : said'[s] = said[s]
  BY <1>1, <1>3 DEF BubbleTypeOK
<1>7. ending[r] = "none" /\ owes[r] = {} /\ r <= turnsBegun /\ turnsBegun \in Nat
  BY <1>1, <1>2, SpeechAssumption, LenProperties DEF RunsInHand, BubbleTypeOK
<1>8. BubbleTypeOK'
  <2>1. \A s \in Runs : said'[s] <= Len(Speech[s])
    BY <1>3, <1>6 DEF BubbleTypeOK
  <2> QED
    BY <1>1, <1>5, <1>6, <2>1 DEF BubbleTypeOK, Event
<1>9. RunsInHand'
  <2>1. ASSUME NEW s \in Runs
        PROVE  /\ ending'[s] = "reply" => said'[s] = Len(Speech[s])
               /\ said'[s] > 0 => Speech[s][said'[s]] # Replace
    BY <1>1, <1>3, <1>6, <1>7 DEF RunsInHand
  <2> QED
    BY <1>1, <2>1 DEF RunsInHand
<1>10. EventsInOrder'
  <2>1. ASSUME NEW x \in Event, EventSound(x) PROVE EventSound(x)'
    <3>1. x.run \in Runs /\ x.upto <= said'[x.run]
      <4>1. x.run \in Runs /\ x.upto \in Nat /\ said[x.run] \in Nat /\ said[x.run] <= said'[x.run]
        <5>1. said \in [Runs -> Nat]
          BY DEF BubbleTypeOK
        <5>2. \A s \in Runs : said[s] <= said'[s]
          BY <1>2, <1>3, <1>6, <5>1
        <5> QED
          BY <5>1, <5>2 DEF Event
      <4> QED
        BY <1>6, <2>1, <4>1 DEF EventSound
    <3> QED
      BY <1>1, <2>1, <3>1 DEF EventSound
  <2>2. EventSound(e)'
    <3>1. said'[r] = k /\ k <= k /\ k > 0
      BY <1>2, <1>3, <1>6
    <3> QED
      BY <1>1, <1>3, <1>4, <1>7, <3>1 DEF EventSound
  <2>3. \A kind \in Kinds \ {"delta"} : ~Queued(kind, e.run)
    BY <1>1, <1>4, QueuedSound
  <2> QED
    BY <1>1, <1>4, <2>1, <2>2, <2>3, SentInOrder
<1>11. HistoryTrue' /\ LostAreParted'
  BY <1>1 DEF HistoryTrue, LostAreParted
<1>12. RouterSound'
  <2> SUFFICES ASSUME NEW s \in Runs PROVE BubbleSound(s)'
    BY DEF RouterSound
  <2>1. BubbleSound(s)
    BY DEF RouterSound
  <2>2. s = r => ~bub[s].settle
    BY <1>1, <2>1 DEF BubbleSound
  <2> QED
    BY <1>1, <1>5, <2>1, <2>2 DEF BubbleSound
<1>13. LandedSaid'
  <2>1. r \notin landed
    BY <1>7 DEF LandedSaid
  <2> QED
    BY <1>1, <1>5, <2>1 DEF LandedSaid, WordsQueued
<1>14. Promised'
  BY <1>1, <1>5 DEF Promised, WordsQueued
<1>15. InTurn'
  <2>1. CASE outOfTurn
    BY <1>1, <2>1 DEF InTurn
  <2>2. CASE ~outOfTurn
    <3>1. OneByOne /\ EndsOnce /\ OwnRowClaims /\ OnScreen
      BY <2>2 DEF InTurn
    <3>2. r = turnsBegun
      BY <1>1, <3>1, LatestIs DEF Through
    <3>3. \A s \in Runs : s < turnsBegun => Through(s)'
      <4> SUFFICES ASSUME NEW s \in Runs, s < turnsBegun PROVE Through(s)'
        OBVIOUS
      <4>1. Through(s) /\ s # r
        BY <1>7, <3>1, <3>2 DEF OneByOne
      <4> QED
        BY <1>1, <1>5, <4>1 DEF Through
    <3>4. \A s \in Runs \ parted : reg = s => Awaited(s)'
      BY <1>1, <1>5, <3>1 DEF OneByOne, Awaited
    <3>5. OneByOne'
      BY <1>1, <3>1, <3>3, <3>4 DEF OneByOne
    <3>6. EndsOnce'
      <4> SUFFICES ASSUME NEW s \in Runs \ ahead, swapped[s] \subseteq {s}
                   PROVE  /\ dones[s] <= 1
                          /\ dones[s] # 0 => phase[s] = "over" /\ ~WordsQueued(s)' /\ reg # s
        BY <1>1 DEF EndsOnce
      <4>1. /\ dones[s] <= 1
            /\ dones[s] # 0 => phase[s] = "over" /\ ~WordsQueued(s) /\ reg # s
        BY <3>1 DEF EndsOnce
      <4> QED
        BY <1>1, <1>5, <4>1 DEF WordsQueued
    <3>7. OwnRowClaims' /\ OnScreen'
      BY <1>1, <3>1 DEF OwnRowClaims, OnScreen
    <3> QED
      BY <3>5, <3>6, <3>7 DEF InTurn
  <2> QED
    BY <2>1, <2>2
<1>16. Elements'
  BY <1>1 DEF Elements
<1> QED
  BY <1>8, <1>9, <1>10, <1>11, <1>12, <1>13, <1>14, <1>15, <1>16

LEMMA FinishKeeps ==
    ASSUME BubbleInv, NEW r \in Runs, Finish(r)
    PROVE  BubbleInv'
<1> USE DEF BubbleInv
<1>1. PICK e \in Endings :
          /\ e = "reply" => said[r] = Len(Speech[r])
          /\ ending' = [ending EXCEPT ![r] = e]
          /\ owes' = [owes EXCEPT ![r] =
               {"final", "answer"} \cup (IF e = "reply" THEN {"row"} ELSE {})]
  BY DEF Finish
<1>2. /\ phase[r] = "running" /\ phase' = [phase EXCEPT ![r] = "over"]
      /\ UNCHANGED <<said, queue, up, repair, turn, turnsBegun, landed, reg, bub, screen, settled,
                     dones, swapped, parted, outOfTurn, ahead, partial, stopped, reopened,
                     cuts, reloads>>
  BY DEF Finish, router, page, past
<1>3. /\ phase' \in [Runs -> {"waiting", "running", "over"}] /\ phase'[r] = "over"
      /\ ending' \in [Runs -> Endings \cup {"none"}] /\ ending'[r] = e
      /\ owes' \in [Runs -> SUBSET {"row", "final", "answer"}]
      /\ "final" \in owes'[r] /\ ("row" \in owes'[r] <=> e = "reply")
      /\ \A s \in Runs \ {r} : phase'[s] = phase[s] /\ ending'[s] = ending[s] /\ owes'[s] = owes[s]
  BY <1>1, <1>2 DEF BubbleTypeOK
<1>4. ending[r] = "none" /\ owes[r] = {} /\ e # "none" /\ "none" \notin Endings
  BY <1>2, SpeechAssumption DEF RunsInHand
<1>5. \A kind, s : Queued(kind, s)' <=> Queued(kind, s)
  BY <1>2, SameQueue
<1>6. \A kind : Queued(kind, r) => kind = "delta"
  BY <1>2, QueuedSound
<1>7. BubbleTypeOK'
  BY <1>2, <1>3 DEF BubbleTypeOK
<1>8. RunsInHand'
  <2>1. ASSUME NEW s \in Runs
        PROVE  /\ phase'[s] = "waiting" <=> s > turnsBegun
               /\ phase'[s] # "over" => ending'[s] = "none" /\ owes'[s] = {}
               /\ phase'[s] = "over" => ending'[s] \in Endings
               /\ "row" \in owes'[s] => ending'[s] = "reply"
               /\ ending'[s] = "reply" => said[s] = Len(Speech[s])
    <3>1. CASE s = r
      BY <1>1, <1>2, <1>3, <3>1 DEF RunsInHand
    <3>2. CASE s # r
      BY <1>3, <3>2 DEF RunsInHand
    <3> QED
      BY <3>1, <3>2
  <2> QED
    BY <1>2, <2>1 DEF RunsInHand
<1>9. EventsInOrder'
  <2>1. ASSUME NEW i \in DOMAIN queue, NEW x, x = queue[i] PROVE EventSound(x)'
    <3>1. EventSound(x) /\ x \in Event
      BY <2>1, QueueType DEF EventsInOrder
    <3>2. x.run # r \/ x.kind = "delta"
      BY <1>2, <3>1 DEF EventSound
    <3> QED
      BY <1>2, <1>3, <3>1, <3>2 DEF EventSound, Event
  <2>2. (\A i \in DOMAIN queue : EventSound(queue[i]))'
    BY <1>2, <2>1
  <2> QED
    BY <1>2, <2>2 DEF EventsInOrder
<1>10. HistoryTrue'
  <2>1. repair.rows \subseteq {s \in Runs : ending'[s] = "reply"}
    BY <1>3, <1>4 DEF HistoryTrue
  <2>2. repair.run # None => phase'[repair.run] # "waiting"
    BY <1>3 DEF HistoryTrue, BubbleTypeOK
  <2> QED
    BY <1>2, <2>1, <2>2 DEF HistoryTrue
<1>11. LostAreParted'
  BY <1>2, <1>3 DEF LostAreParted
<1>12. RouterSound'
  <2> SUFFICES ASSUME NEW s \in Runs PROVE BubbleSound(s)'
    BY DEF RouterSound
  <2>1. BubbleSound(s)
    BY DEF RouterSound
  <2>2. s = r => ~bub[s].settle
    BY <1>2, <2>1 DEF BubbleSound
  <2> QED
    BY <1>2, <1>3, <1>5, <2>1, <2>2 DEF BubbleSound
<1>13. LandedSaid'
  <2>1. r \notin landed
    BY <1>4 DEF LandedSaid
  <2>2. landed \subseteq Runs
    BY DEF BubbleTypeOK
  <2> QED
    BY <1>2, <1>3, <1>5, <2>1, <2>2 DEF LandedSaid, WordsQueued
<1>14. Promised'
  <2> SUFFICES ASSUME NEW s \in Runs \ parted
               PROVE  /\ WordsQueued(s) => phase'[s] = "running" \/ "final" \in owes'[s] \/ Queued("final", s)
                      /\ ending'[s] = "reply" => "row" \in owes'[s] \/ Queued("row", s) \/ s \in landed
    BY <1>2, <1>5 DEF Promised, WordsQueued
  <2>1. CASE s = r
    BY <1>3, <2>1
  <2>2. CASE s # r
    BY <1>3, <2>2 DEF Promised
  <2> QED
    BY <2>1, <2>2
<1>15. InTurn'
  <2>1. CASE outOfTurn
    BY <1>2, <2>1 DEF InTurn
  <2>2. CASE ~outOfTurn
    <3>1. OneByOne /\ EndsOnce /\ OwnRowClaims /\ OnScreen
      BY <2>2 DEF InTurn
    <3>2. ASSUME NEW s \in Runs, s < turnsBegun PROVE Through(s)'
      <4>1. Through(s)
        BY <3>1, <3>2 DEF OneByOne
      <4>2. s # r
        BY <1>2, <4>1 DEF Through
      <4> QED
        BY <1>2, <1>3, <1>5, <4>1, <4>2 DEF Through
    <3>3. \A s \in Runs \ parted : reg = s => Awaited(s)'
      BY <1>2, <1>3, <1>5, <3>1 DEF OneByOne, Awaited
    <3>4. OneByOne'
      BY <1>2, <3>1, <3>2, <3>3 DEF OneByOne
    <3>5. EndsOnce'
      <4> SUFFICES ASSUME NEW s \in Runs \ ahead, swapped[s] \subseteq {s}
                   PROVE  /\ dones[s] <= 1
                          /\ dones[s] # 0 => phase'[s] = "over" /\ ~WordsQueued(s)' /\ reg # s
        BY <1>2 DEF EndsOnce
      <4>1. /\ dones[s] <= 1
            /\ dones[s] # 0 => phase[s] = "over" /\ ~WordsQueued(s) /\ reg # s
        BY <3>1 DEF EndsOnce
      <4> QED
        BY <1>3, <1>5, <4>1 DEF WordsQueued
    <3>6. OwnRowClaims' /\ OnScreen'
      BY <1>2, <3>1 DEF OwnRowClaims, OnScreen
    <3> QED
      BY <3>4, <3>5, <3>6 DEF InTurn
  <2> QED
    BY <2>1, <2>2
<1>16. Elements'
  BY <1>2 DEF Elements
<1> QED
  BY <1>7, <1>8, <1>9, <1>10, <1>11, <1>12, <1>13, <1>14, <1>15, <1>16

LEMMA SendEndKeeps ==
    ASSUME BubbleInv, NEW r \in Runs, NEW kind \in {"row", "final"}, SendEnd(r, kind)
    PROVE  BubbleInv'
<1> USE DEF BubbleInv
<1>a. PICK k : k = said[r] /\ Sends([kind |-> kind, run |-> r, upto |-> k])
  BY DEF SendEnd
<1> DEFINE e == [kind |-> kind, run |-> r, upto |-> k]
<1>1. /\ kind \in owes[r] /\ owes' = [owes EXCEPT ![r] = @ \ {kind}] /\ Sends(e)
      /\ UNCHANGED <<phase, ending, said, up, repair, turn, turnsBegun, landed, reg, bub, screen,
                     settled, dones, swapped, parted, outOfTurn, ahead, partial, stopped,
                     reopened, cuts, reloads>>
  BY <1>a DEF SendEnd, router, page, past
<1>2. k \in Nat
  BY <1>a DEF BubbleTypeOK
<1>3. e \in Event /\ e.kind = kind /\ e.run = r /\ e.upto = k
  BY <1>2 DEF Event, Kinds
<1> HIDE DEF e
<1>4. /\ queue' \in Seq(Event) /\ Len(queue') <= MaxQueue
      /\ \A n, s : Queued(n, s)' <=> Queued(n, s) \/ (up /\ n = kind /\ s = r)
  BY <1>1, <1>3, SentEvent
<1>5. /\ owes' \in [Runs -> SUBSET {"row", "final", "answer"}]
      /\ owes'[r] = owes[r] \ {kind} /\ \A s \in Runs \ {r} : owes'[s] = owes[s]
  BY <1>1 DEF BubbleTypeOK
<1>6. phase[r] = "over" /\ (kind = "row" => ending[r] = "reply") /\ r <= turnsBegun
  <2>1. phase[r] = "over"
    BY <1>1 DEF RunsInHand, BubbleTypeOK
  <2>2. r \in Nat /\ turnsBegun \in Nat
    BY SpeechWords, SpeechAssumption, LenProperties DEF BubbleTypeOK
  <2> QED
    BY <1>1, <2>1, <2>2 DEF RunsInHand
<1>7. ~up => r \in parted
  BY <1>1 DEF LostAreParted
<1>8. ~Queued(kind, r)
  BY <1>1, QueuedSound
<1>9. BubbleTypeOK'
  BY <1>1, <1>4, <1>5 DEF BubbleTypeOK, Event
<1>10. RunsInHand'
  BY <1>1, <1>5 DEF RunsInHand
<1>11. EventsInOrder'
  <2>1. ASSUME NEW x \in Event, EventSound(x) PROVE EventSound(x)'
    <3>1. owes'[x.run] \subseteq owes[x.run]
      BY <1>5 DEF Event
    <3> QED
      BY <1>1, <2>1, <3>1 DEF EventSound
  <2>2. EventSound(e)'
    <3>1. k <= said[r]
      BY <1>a, <1>2
    <3>2. kind # "delta" /\ kind \notin owes'[r]
      BY <1>5
    <3> QED
      BY <1>1, <1>3, <1>6, <3>1, <3>2 DEF EventSound
  <2>3. \A n \in Kinds \ {"delta"} : Queued(n, e.run) => e.kind # "delta" /\ e.kind # n
    BY <1>3, <1>8
  <2> QED
    BY <1>1, <1>3, <2>1, <2>2, <2>3, SentInOrder
<1>12. HistoryTrue'
  BY <1>1 DEF HistoryTrue
<1>13. LostAreParted'
  BY <1>1, <1>5 DEF LostAreParted
<1>14. RouterSound'
  <2> SUFFICES ASSUME NEW s \in Runs PROVE BubbleSound(s)'
    BY DEF RouterSound
  <2>1. BubbleSound(s)
    BY DEF RouterSound
  <2>2. s = r => ~bub[s].settle \/ kind = "row"
    BY <1>1, <2>1 DEF BubbleSound
  <2> QED
    BY <1>1, <1>4, <1>5, <2>1, <2>2 DEF BubbleSound
<1>15. LandedSaid'
  BY <1>1, <1>4 DEF LandedSaid, WordsQueued
<1>16. Promised'
  <2> SUFFICES ASSUME NEW s \in Runs \ parted
               PROVE  /\ WordsQueued(s)' => phase[s] = "running" \/ "final" \in owes'[s] \/ Queued("final", s)'
                      /\ ending[s] = "reply" => "row" \in owes'[s] \/ Queued("row", s)' \/ s \in landed
    BY <1>1 DEF Promised
  <2>1. /\ WordsQueued(s) => phase[s] = "running" \/ "final" \in owes[s] \/ Queued("final", s)
        /\ ending[s] = "reply" => "row" \in owes[s] \/ Queued("row", s) \/ s \in landed
    BY DEF Promised
  <2>2. WordsQueued(s)' => WordsQueued(s)
    BY <1>4 DEF WordsQueued
  <2> QED
    BY <1>4, <1>5, <1>7, <2>1, <2>2
<1>17. InTurn'
  <2>1. CASE outOfTurn
    BY <1>1, <2>1 DEF InTurn
  <2>2. CASE ~outOfTurn
    <3>1. OneByOne /\ EndsOnce /\ OwnRowClaims /\ OnScreen
      BY <2>2 DEF InTurn
    <3>2. ASSUME NEW s \in Runs, s < turnsBegun PROVE Through(s)'
      <4>1. Through(s)
        BY <3>1, <3>2 DEF OneByOne
      <4>2. s # r
        BY <1>1, <4>1 DEF Through
      <4> QED
        BY <1>1, <1>4, <1>5, <4>1, <4>2 DEF Through
    <3>3. \A s \in Runs \ parted : reg = s => Awaited(s)'
      <4> SUFFICES ASSUME NEW s \in Runs \ parted, reg = s PROVE Awaited(s)'
        OBVIOUS
      <4>1. Awaited(s)
        BY <3>1 DEF OneByOne
      <4>2. "final" \in owes[s] => "final" \in owes'[s] \/ Queued("final", s)'
        BY <1>4, <1>5, <1>7
      <4> QED
        BY <1>1, <1>4, <4>1, <4>2 DEF Awaited
    <3>4. OneByOne'
      BY <1>1, <3>1, <3>2, <3>3 DEF OneByOne
    <3>5. EndsOnce'
      <4> SUFFICES ASSUME NEW s \in Runs \ ahead, swapped[s] \subseteq {s}
                   PROVE  /\ dones[s] <= 1
                          /\ dones[s] # 0 => phase[s] = "over" /\ ~WordsQueued(s)' /\ reg # s
        BY <1>1 DEF EndsOnce
      <4>1. /\ dones[s] <= 1
            /\ dones[s] # 0 => phase[s] = "over" /\ ~WordsQueued(s) /\ reg # s
        BY <3>1 DEF EndsOnce
      <4>2. WordsQueued(s)' => WordsQueued(s)
        BY <1>4 DEF WordsQueued
      <4> QED
        BY <4>1, <4>2
    <3>6. OwnRowClaims' /\ OnScreen'
      BY <1>1, <3>1 DEF OwnRowClaims, OnScreen
    <3> QED
      BY <3>4, <3>5, <3>6 DEF InTurn
  <2> QED
    BY <2>1, <2>2
<1>18. Elements'
  BY <1>1 DEF Elements
<1> QED
  BY <1>9, <1>10, <1>11, <1>12, <1>13, <1>14, <1>15, <1>16, <1>17, <1>18

-----------------------------------------------------------------------------
(* The socket's steps                                                       *)

\* An answer may be taken, and the turn be over.
LEMMA RunsStay ==
    ASSUME RunsInHand, turn' \in {turn, None}, UNCHANGED <<phase, ending, said, turnsBegun>>,
           \A s \in Runs : owes'[s] \subseteq owes[s]
    PROVE  RunsInHand'
<1>1. turn' \in {None, turnsBegun'}
  BY DEF RunsInHand
<1>2. ASSUME NEW s \in Runs
      PROVE  /\ phase[s] # "over" => owes'[s] = {}
             /\ "row" \in owes'[s] => ending[s] = "reply"
  BY DEF RunsInHand
<1> QED
  BY <1>1, <1>2 DEF RunsInHand

\* Of the events some may be gone, at either end of the queue.
LEMMA EventsStay ==
    ASSUME BubbleTypeOK, EventsInOrder, UNCHANGED <<phase, ending, said, turnsBegun>>,
           \A s \in Runs : owes'[s] \subseteq owes[s],
           NEW d \in Nat, queue' \in Seq(Event),
           \A i \in 1 .. Len(queue') : i + d \in 1 .. Len(queue) /\ queue'[i] = queue[i + d]
    PROVE  EventsInOrder'
<1>1. /\ DOMAIN queue = 1 .. Len(queue) /\ DOMAIN queue' = 1 .. Len(queue') /\ Len(queue') \in Nat
      /\ \A i \in DOMAIN queue : queue[i] \in Event
  BY QueueType, LenProperties
<1>2. ASSUME NEW i \in DOMAIN queue', NEW x, x = queue'[i] PROVE EventSound(x)'
  <2>1. x \in Event /\ EventSound(x)
    BY <1>1, <1>2 DEF EventsInOrder
  <2>2. owes'[x.run] \subseteq owes[x.run]
    BY <2>1 DEF Event
  <2> QED
    BY <2>1, <2>2 DEF EventSound
<1>3. (\A i \in DOMAIN queue : EventSound(queue[i]))'
  BY <1>2
<1>4. ASSUME NEW i \in DOMAIN queue', NEW j \in DOMAIN queue',
             i < j, queue'[i].run = queue'[j].run, queue'[i].kind # "delta"
      PROVE  queue'[j].kind # "delta" /\ queue'[j].kind # queue'[i].kind
  <2>1. i + d \in DOMAIN queue /\ j + d \in DOMAIN queue /\ i + d < j + d
    BY <1>1, <1>4
  <2>2. queue'[i] = queue[i + d] /\ queue'[j] = queue[j + d]
    BY <1>1
  <2> QED
    BY <1>4, <2>1, <2>2 DEF EventsInOrder
<1> QED
  BY <1>3, <1>4 DEF EventsInOrder

\* Where no bubble changes, and nothing new is sent, turns stay in order.
LEMMA TurnsStay ==
    ASSUME BubbleInv,
           UNCHANGED <<phase, turnsBegun, landed, reg, bub, dones, swapped, ahead, outOfTurn,
                       stopped>>,
           parted \subseteq parted',
           \A s \in Runs : owes'[s] \subseteq owes[s] /\ ("final" \in owes[s] => "final" \in owes'[s]),
           \A kind, s : Queued(kind, s)' => Queued(kind, s),
           \A s : Queued("final", s) => Queued("final", s)' \/ s \in parted',
           \A s \in Runs : screen'[s] = screen[s] \/ screen'[s] = Blank
    PROVE  InTurn' /\ Elements'
<1> USE DEF BubbleInv
<1>1. Elements'
  BY DEF Elements, Blank
<1>2. CASE outOfTurn
  BY <1>1, <1>2 DEF InTurn
<1>3. CASE ~outOfTurn
  <2>1. OneByOne /\ EndsOnce /\ OwnRowClaims /\ OnScreen
    BY <1>3 DEF InTurn
  <2>2. ASSUME NEW s \in Runs, s < turnsBegun PROVE Through(s)'
    <3>1. Through(s)
      BY <2>1, <2>2 DEF OneByOne
    <3>2. owes'[s] \subseteq owes[s]
      OBVIOUS
    <3> QED
      BY <3>1, <3>2 DEF Through
  <2>3. ASSUME NEW s \in Runs \ parted', reg = s PROVE Awaited(s)'
    <3>1. Awaited(s)
      BY <2>1, <2>3 DEF OneByOne
    <3> QED
      BY <2>3, <3>1 DEF Awaited
  <2>4. OneByOne'
    BY <2>1, <2>2, <2>3 DEF OneByOne
  <2>5. EndsOnce'
    <3> SUFFICES ASSUME NEW s \in Runs \ ahead, swapped[s] \subseteq {s}
                 PROVE  /\ dones[s] <= 1
                        /\ dones[s] # 0 => phase[s] = "over" /\ ~WordsQueued(s)' /\ reg # s
      BY DEF EndsOnce
    <3>1. /\ dones[s] <= 1
          /\ dones[s] # 0 => phase[s] = "over" /\ ~WordsQueued(s) /\ reg # s
      BY <2>1 DEF EndsOnce
    <3>2. WordsQueued(s)' => WordsQueued(s)
      BY DEF WordsQueued
    <3> QED
      BY <3>1, <3>2
  <2>6. OwnRowClaims'
    BY <1>3, <2>1 DEF OwnRowClaims
  <2>7. OnScreen'
    BY <2>1 DEF OnScreen, Blank
  <2> QED
    BY <1>1, <2>4, <2>5, <2>6, <2>7 DEF InTurn
<1> QED
  BY <1>2, <1>3

LEMMA CutKeeps ==
    ASSUME BubbleInv, Cut
    PROVE  BubbleInv'
<1> USE DEF BubbleInv
<1>1. PICK keep \in 0..Len(queue) :
          /\ queue' = SubSeq(queue, 1, keep)
          /\ parted' = parted \cup {r \in Runs : phase[r] = "running" \/ owes[r] # {}}
                        \cup {queue[i].run : i \in (keep + 1)..Len(queue)}
  BY DEF Cut
<1>2. /\ cuts < MaxCuts /\ cuts' = cuts + 1 /\ up' = FALSE /\ repair' = NoRepair
      /\ UNCHANGED <<phase, ending, said, owes, turn, turnsBegun, landed, reg, bub, screen, settled,
                     dones, swapped, outOfTurn, ahead, partial, stopped, reopened, reloads>>
  BY DEF Cut, gateway, router, page
<1>3. /\ queue \in Seq(Event) /\ Len(queue) \in Nat /\ DOMAIN queue = 1 .. Len(queue)
      /\ \A i \in DOMAIN queue : queue[i] \in Event
  BY QueueType
<1>4. /\ queue' \in Seq(Event) /\ Len(queue') = keep /\ keep <= Len(queue)
      /\ \A i \in 1 .. keep : queue'[i] = queue[i]
      /\ \A kind, r : Queued(kind, r)' => Queued(kind, r)
      /\ \A kind, r : Queued(kind, r) => Queued(kind, r)' \/ r \in parted'
  BY <1>1, KeptEvents
<1>5. parted \subseteq parted' /\ parted' \subseteq Runs
  <2>1. \A i \in (keep + 1)..Len(queue) : queue[i].run \in Runs
    <3>1. \A i \in (keep + 1)..Len(queue) : i \in DOMAIN queue
      BY <1>3
    <3> QED
      BY <1>3, <3>1 DEF Event
  <2>2. parted \subseteq Runs
    BY DEF BubbleTypeOK
  <2> QED
    BY <1>1, <2>1, <2>2
<1>6. BubbleTypeOK'
  <2>1. cuts' \in 0 .. MaxCuts
    BY <1>2, BubbleBounds DEF BubbleTypeOK
  <2>2. Len(queue') <= MaxQueue
    BY <1>3, <1>4, BubbleBounds DEF BubbleTypeOK
  <2>3. repair' \in [stage : {"no", "due", "read"}, rows : SUBSET Runs,
                     run : Runs \cup {None}, text : Wordings]
    BY <1>2, NothingHeld DEF NoRepair
  <2>4. parted' \cup ahead \cup partial \cup stopped \cup reopened \subseteq Runs
    BY <1>5 DEF BubbleTypeOK
  <2> QED
    BY <1>2, <1>4, <2>1, <2>2, <2>3, <2>4 DEF BubbleTypeOK, Event
<1>7. RunsInHand'
  BY <1>2, RunsStay
<1>8. EventsInOrder'
  <2>1. \A i \in 1 .. Len(queue') : i + 0 \in 1 .. Len(queue) /\ queue'[i] = queue[i + 0]
    BY <1>3, <1>4
  <2> QED
    BY <1>2, <1>4, <2>1, EventsStay
<1>9. HistoryTrue'
  BY <1>2 DEF HistoryTrue, NoRepair
<1>10. LostAreParted'
  BY <1>1, <1>2 DEF LostAreParted
<1>11. RouterSound'
  BY <1>2, <1>4 DEF RouterSound, BubbleSound
<1>12. LandedSaid'
  BY <1>2, <1>4 DEF LandedSaid, WordsQueued
<1>13. Promised'
  BY <1>2, <1>4, <1>5 DEF Promised, WordsQueued
<1>14. InTurn' /\ Elements'
  BY <1>2, <1>4, <1>5, TurnsStay
<1> QED
  BY <1>6, <1>7, <1>8, <1>9, <1>10, <1>11, <1>12, <1>13, <1>14

LEMMA ReconnectKeeps ==
    ASSUME BubbleInv, Reconnect
    PROVE  BubbleInv'
<1> USE DEF BubbleInv
<1>1. /\ up' = TRUE /\ repair' = [NoRepair EXCEPT !.stage = "due"]
      /\ UNCHANGED <<phase, ending, said, owes, queue, turn, turnsBegun, landed, reg, bub, screen,
                     settled, dones, swapped, parted, outOfTurn, ahead, partial, stopped,
                     reopened, cuts, reloads>>
  BY DEF Reconnect, gateway, router, page, past
<1>2. \A kind, r : Queued(kind, r)' <=> Queued(kind, r)
  BY <1>1, SameQueue
<1>3. repair' = [stage |-> "due", rows |-> {}, run |-> None, text |-> <<>>]
  BY <1>1 DEF NoRepair
<1>4. BubbleTypeOK'
  <2>1. repair' \in [stage : {"no", "due", "read"}, rows : SUBSET Runs,
                     run : Runs \cup {None}, text : Wordings]
    BY <1>3, NothingHeld
  <2> QED
    BY <1>1, <2>1 DEF BubbleTypeOK
<1>5. RunsInHand' /\ EventsInOrder'
  BY <1>1 DEF RunsInHand, EventsInOrder, EventSound
<1>6. HistoryTrue' /\ LostAreParted'
  BY <1>1, <1>3 DEF HistoryTrue, LostAreParted
<1>7. RouterSound' /\ LandedSaid' /\ Promised'
  BY <1>1, <1>2 DEF RouterSound, BubbleSound, LandedSaid, Promised, WordsQueued
<1>8. InTurn' /\ Elements'
  BY <1>1, <1>2, TurnsStay
<1> QED
  BY <1>4, <1>5, <1>6, <1>7, <1>8

LEMMA ReadHistoryKeeps ==
    ASSUME BubbleInv, ReadHistory
    PROVE  BubbleInv'
<1> USE DEF BubbleInv
<1> DEFINE live == {r \in Runs : phase[r] = "running"}
<1>1. /\ repair' = [stage |-> "read",
                    rows |-> {r \in Runs : ending[r] = "reply"},
                    run |-> IF live = {} THEN None ELSE Max(live),
                    text |-> IF live = {} THEN <<>> ELSE Text(Max(live), said[Max(live)])]
      /\ UNCHANGED <<phase, ending, said, owes, queue, up, turn, turnsBegun, landed, reg, bub, screen,
                     settled, dones, swapped, parted, outOfTurn, ahead, partial, stopped,
                     reopened, cuts, reloads>>
  BY DEF ReadHistory, gateway, router, page, past
<1>2. \A kind, r : Queued(kind, r)' <=> Queued(kind, r)
  BY <1>1, SameQueue
<1>3. live # {} => Max(live) \in live
  <2>1. Runs = 1 .. Len(Speech) /\ Len(Speech) \in Nat
    BY SpeechAssumption, LenProperties DEF Runs
  <2>2. live \in SUBSET (0 .. Len(Speech))
    BY <2>1
  <2> HIDE DEF live
  <2> QED
    BY <2>1, <2>2, MaxIs
<1>4. /\ repair'.stage = "read" /\ repair'.rows = {r \in Runs : ending[r] = "reply"}
      /\ repair'.run \in Runs \cup {None} /\ (repair'.run # None => phase[repair'.run] = "running")
  BY <1>1, <1>3
<1>5. BubbleTypeOK'
  <2>1. live # {} => Text(Max(live), said[Max(live)]) \in Wordings
    <3> SUFFICES ASSUME live # {} PROVE Text(Max(live), said[Max(live)]) \in Wordings
      OBVIOUS
    <3>1. Max(live) \in Runs
      BY <1>3
    <3>2. said[Max(live)] \in 0 .. Len(Speech[Max(live)])
      BY <3>1, SpeechWords DEF BubbleTypeOK
    <3> QED
      BY <3>1, <3>2, TextType
  <2>2. repair' \in [stage : {"no", "due", "read"}, rows : SUBSET Runs,
                     run : Runs \cup {None}, text : Wordings]
    BY <1>1, <1>3, <2>1, NothingHeld
  <2> QED
    BY <1>1, <2>2 DEF BubbleTypeOK
<1>6. RunsInHand' /\ EventsInOrder'
  BY <1>1 DEF RunsInHand, EventsInOrder, EventSound
<1>7. HistoryTrue' /\ LostAreParted'
  BY <1>1, <1>4 DEF HistoryTrue, LostAreParted
<1>8. RouterSound' /\ LandedSaid' /\ Promised'
  BY <1>1, <1>2 DEF RouterSound, BubbleSound, LandedSaid, Promised, WordsQueued
<1>9. InTurn' /\ Elements'
  BY <1>1, <1>2, TurnsStay
<1> QED
  BY <1>5, <1>6, <1>7, <1>8, <1>9

LEMMA ReloadKeeps ==
    ASSUME BubbleInv, Reload
    PROVE  BubbleInv'
<1> USE DEF BubbleInv
<1>1. /\ reloads < MaxReloads /\ reloads' = reloads + 1
      /\ screen' = [r \in Runs |-> Blank] /\ settled' = {}
      /\ partial' = partial \cup {r \in Runs : reg = r \/ ~Through(r)}
      /\ UNCHANGED <<phase, ending, said, owes, queue, up, repair, turn, turnsBegun, landed, reg, bub,
                     dones, swapped, parted, outOfTurn, ahead, stopped, reopened, cuts>>
  BY DEF Reload, gateway, router
<1>2. \A kind, r : Queued(kind, r)' <=> Queued(kind, r)
  BY <1>1, SameQueue
<1>3. BubbleTypeOK'
  <2>1. reloads' \in 0 .. MaxReloads
    BY <1>1, BubbleBounds DEF BubbleTypeOK
  <2>2. Blank \in View
    BY NothingHeld DEF Blank, View
  <2>3. screen' \in [Runs -> View]
    BY <1>1, <2>2
  <2>4. parted \cup ahead \cup partial' \cup stopped \cup reopened \subseteq Runs
    BY <1>1 DEF BubbleTypeOK
  <2> QED
    BY <1>1, <2>1, <2>3, <2>4 DEF BubbleTypeOK, View
<1>4. RunsInHand' /\ EventsInOrder'
  BY <1>1 DEF RunsInHand, EventsInOrder, EventSound
<1>5. HistoryTrue' /\ LostAreParted'
  BY <1>1 DEF HistoryTrue, LostAreParted
<1>6. RouterSound' /\ LandedSaid' /\ Promised'
  BY <1>1, <1>2 DEF RouterSound, BubbleSound, LandedSaid, Promised, WordsQueued
<1>7. InTurn' /\ Elements'
  BY <1>1, <1>2, TurnsStay
<1> QED
  BY <1>3, <1>4, <1>5, <1>6, <1>7

-----------------------------------------------------------------------------
(* Rows                                                                     *)

LEMMA RowTyped ==
    ASSUME BubbleTypeOK, NEW r \in Runs, Lands(r)
    PROVE  /\ landed' \subseteq Runs /\ reg' \in Runs \cup {None} /\ screen' \in [Runs -> View]
           /\ settled' \subseteq Runs /\ dones' \in [Runs -> Nat]
           /\ swapped' \in [Runs -> SUBSET Runs] /\ ahead' \subseteq Runs
<1>1. /\ landed \subseteq Runs /\ reg \in Runs \cup {None} /\ screen \in [Runs -> View]
      /\ settled \subseteq Runs /\ dones \in [Runs -> Nat]
      /\ swapped \in [Runs -> SUBSET Runs] /\ ahead \subseteq Runs
  BY DEF BubbleTypeOK, View
<1>2. CASE r \in landed
  BY <1>1, <1>2 DEF Lands, page
<1>3. CASE r \notin landed
  <2>1. landed' \subseteq Runs /\ reg' \in Runs \cup {None} /\ ahead' \subseteq Runs
    BY <1>1, <1>3 DEF Lands, Taken
  <2>2. CASE reg = None
    BY <1>1, <1>3, <2>1, <2>2 DEF Lands, page
  <2>3. CASE reg # None
    <3>1. Done(reg) /\ swapped' = [swapped EXCEPT ![reg] = @ \cup {r}] /\ reg \in Runs
      BY <1>1, <1>3, <2>3 DEF Lands
    <3>2. Retired(screen[reg]) \in View
      <4>1. screen[reg].elements \in Nat
        BY <1>1, <3>1 DEF View
      <4>2. (IF screen[reg].elements = 0 THEN 0 ELSE screen[reg].elements - 1) \in Nat
        BY <4>1
      <4> QED
        BY <4>2, NothingHeld DEF Retired, View
    <3>3. screen' \in [Runs -> View] /\ settled' \subseteq Runs /\ dones' \in [Runs -> Nat]
      BY <1>1, <3>1, <3>2 DEF Done
    <3> QED
      BY <1>1, <2>1, <3>1, <3>3
  <2> QED
    BY <2>2, <2>3
<1> QED
  BY <1>2, <1>3

\* Where a row only takes the open bubble, the router stays sound.
LEMMA RouterStays ==
    ASSUME RouterSound, reg' \in {reg, None}, UNCHANGED <<phase, bub>>,
           \A s \in Runs : owes'[s] \subseteq owes[s],
           \A kind, s : Queued(kind, s)' => Queued(kind, s)
    PROVE  RouterSound'
<1> SUFFICES ASSUME NEW s \in Runs PROVE BubbleSound(s)'
  BY DEF RouterSound
<1>1. BubbleSound(s) /\ owes'[s] \subseteq owes[s] /\ s # None
  BY NoneIsNoRun DEF RouterSound
<1> QED
  BY <1>1 DEF BubbleSound

LEMMA PumpRowKeeps ==
    ASSUME BubbleInv, queue # <<>>, queue' = Tail(queue), Head(queue).kind = "row",
           HandleRow(Head(queue)),
           UNCHANGED <<gateway, up, repair, turn, turnsBegun, cuts, reloads>>
    PROVE  BubbleInv'
<1> USE DEF BubbleInv
<1>1. PICK e \in Event : e = Head(queue)
  BY TakenEvent
<1> DEFINE r == e.run
<1>2. r \in Runs
  BY DEF Event
<1>3. /\ Lands(r)
      /\ UNCHANGED <<phase, ending, said, owes, up, repair, turn, turnsBegun, bub, parted,
                     outOfTurn, partial, stopped, reopened, cuts, reloads>>
  BY <1>1 DEF HandleRow, gateway
<1> HIDE DEF r
<1>4. /\ queue' \in Seq(Event) /\ Len(queue') = Len(queue) - 1 /\ Len(queue) >= 1
      /\ \A i \in 1 .. Len(queue) - 1 : queue'[i] = queue[i + 1]
      /\ Queued("row", r)
      /\ \A kind, s : Queued(kind, s)' => Queued(kind, s)
      /\ \A kind, s : Queued(kind, s) => Queued(kind, s)' \/ (kind = "row" /\ s = r)
  BY <1>1, TakenEvent DEF r
<1>5. ending[r] = "reply"
  BY <1>4, QueuedSound
<1>6. /\ InTurn' /\ Elements' /\ LandedSaid'
      /\ r \in landed' /\ landed \subseteq landed' /\ reg' \in {reg, None}
  BY <1>2, <1>3, <1>4, <1>5, RowKeeps
<1>7. BubbleTypeOK'
  <2>1. /\ landed' \subseteq Runs /\ reg' \in Runs \cup {None} /\ screen' \in [Runs -> View]
        /\ settled' \subseteq Runs /\ dones' \in [Runs -> Nat]
        /\ swapped' \in [Runs -> SUBSET Runs] /\ ahead' \subseteq Runs
    BY <1>2, <1>3, RowTyped
  <2>2. Len(queue') <= MaxQueue
    BY <1>4, QueueType, BubbleBounds DEF BubbleTypeOK
  <2> QED
    BY <1>3, <1>4, <2>1, <2>2 DEF BubbleTypeOK, Event, View
<1>8. RunsInHand' /\ HistoryTrue' /\ LostAreParted'
  BY <1>3 DEF RunsInHand, HistoryTrue, LostAreParted
<1>9. EventsInOrder'
  <2>1. \A i \in 1 .. Len(queue') : i + 1 \in 1 .. Len(queue) /\ queue'[i] = queue[i + 1]
    BY <1>4, QueueType
  <2> QED
    BY <1>3, <1>4, <2>1, EventsStay
<1>10. RouterSound'
  BY <1>3, <1>4, <1>6, NoneIsNoRun, RouterStays
<1>11. Promised'
  BY <1>3, <1>4, <1>6 DEF Promised, WordsQueued
<1> QED
  BY <1>6, <1>7, <1>8, <1>9, <1>10, <1>11

LEMMA ReplayKeeps ==
    ASSUME BubbleInv, Replay
    PROVE  BubbleInv'
<1> USE DEF BubbleInv
<1>1. PICK r : r = Min(repair.rows \ landed)
  OBVIOUS
<1>2. repair.rows \ landed # {} /\ repair.rows \subseteq {s \in Runs : ending[s] = "reply"}
  BY DEF Replay, HistoryTrue
<1>3. r \in repair.rows \ landed
  <2> DEFINE S == repair.rows \ landed
  <2>1. S \in SUBSET Nat /\ S # {}
    BY <1>2, NoneIsNoRun
  <2> HIDE DEF S
  <2>2. \E n \in S : \A m \in S : n <= m
    BY <2>1, NatMinimum
  <2>3. Min(S) \in S
    BY <2>2, Zenon DEF Min
  <2> QED
    BY <1>1, <2>3 DEF S
<1>4. r \in Runs /\ ending[r] = "reply"
  BY <1>2, <1>3
<1>5. /\ Lands(r)
      /\ UNCHANGED <<phase, ending, said, owes, queue, up, repair, turn, turnsBegun, bub, parted,
                     outOfTurn, partial, stopped, reopened, cuts, reloads>>
  BY <1>1 DEF Replay, gateway
<1>6. \A kind, s : Queued(kind, s)' <=> Queued(kind, s)
  BY <1>5, SameQueue
<1>7. /\ InTurn' /\ Elements' /\ LandedSaid'
      /\ r \in landed' /\ landed \subseteq landed' /\ reg' \in {reg, None}
  BY <1>4, <1>5, <1>6, RowKeeps
<1>8. BubbleTypeOK'
  <2>1. /\ landed' \subseteq Runs /\ reg' \in Runs \cup {None} /\ screen' \in [Runs -> View]
        /\ settled' \subseteq Runs /\ dones' \in [Runs -> Nat]
        /\ swapped' \in [Runs -> SUBSET Runs] /\ ahead' \subseteq Runs
    BY <1>4, <1>5, RowTyped
  <2> QED
    BY <1>5, <2>1 DEF BubbleTypeOK, View
<1>9. RunsInHand' /\ HistoryTrue' /\ LostAreParted' /\ EventsInOrder'
  BY <1>5 DEF RunsInHand, HistoryTrue, LostAreParted, EventsInOrder, EventSound
<1>10. RouterSound'
  BY <1>5, <1>6, <1>7, NoneIsNoRun, RouterStays
<1>11. Promised'
  BY <1>5, <1>6, <1>7 DEF Promised, WordsQueued
<1> QED
  BY <1>7, <1>8, <1>9, <1>10, <1>11

\* An error frame stops what is live.
LEMMA ErrorKeeps ==
    ASSUME BubbleInv, ErrorFrame,
           UNCHANGED <<phase, ending, bub, queue, turnsBegun, parted, outOfTurn>>,
           \A s \in Runs : owes'[s] = owes[s] \/ owes'[s] = owes[s] \ {"answer"}
    PROVE  /\ InTurn' /\ Elements' /\ LandedSaid'
           /\ screen' \in [Runs -> View] /\ stopped' \subseteq Runs
<1> USE DEF BubbleInv
<1>1. /\ screen' = [r \in Runs |-> Frozen(screen[r])]
      /\ stopped' = stopped \cup {r \in Runs : screen[r].live}
      /\ UNCHANGED <<landed, reg, settled, dones, swapped, ahead>>
  BY DEF ErrorFrame
<1>2. \A kind, s : Queued(kind, s)' <=> Queued(kind, s)
  BY SameQueue
<1>3. screen \in [Runs -> View] /\ stopped \subseteq Runs
  BY DEF BubbleTypeOK, View
<1>4. \A s \in Runs : Frozen(screen[s]) \in View /\ Frozen(screen[s]).elements = screen[s].elements
                      /\ ~Frozen(screen[s]).live
  BY <1>3 DEF Frozen, View
<1>5. screen' \in [Runs -> View] /\ stopped' \subseteq Runs
  BY <1>1, <1>3, <1>4
<1>6. Elements'
  BY <1>1, <1>4 DEF Elements
<1>7. LandedSaid'
  BY <1>1, <1>2 DEF LandedSaid, WordsQueued
<1>8. CASE outOfTurn
  BY <1>5, <1>6, <1>7, <1>8 DEF InTurn
<1>9. CASE ~outOfTurn
  <2>1. OneByOne /\ EndsOnce /\ OwnRowClaims /\ OnScreen
    BY <1>9 DEF InTurn
  <2>2. ASSUME NEW s \in Runs, s < turnsBegun PROVE Through(s)'
    <3>1. Through(s)
      BY <2>1, <2>2 DEF OneByOne
    <3>2. owes'[s] \subseteq owes[s]
      OBVIOUS
    <3> QED
      BY <1>1, <1>2, <3>1, <3>2 DEF Through
  <2>3. ASSUME NEW s \in Runs \ parted, reg = s PROVE Awaited(s)'
    <3>1. Awaited(s)
      BY <2>1, <2>3 DEF OneByOne
    <3>2. "final" \in owes[s] => "final" \in owes'[s]
      OBVIOUS
    <3> QED
      BY <1>2, <3>1, <3>2 DEF Awaited
  <2>4. OneByOne'
    BY <1>1, <2>1, <2>2, <2>3 DEF OneByOne
  <2>5. EndsOnce'
    BY <1>1, <1>2, <2>1 DEF EndsOnce, WordsQueued
  <2>6. OwnRowClaims'
    BY <1>1, <2>1, <1>9 DEF OwnRowClaims
  <2>7. OnScreen'
    BY <1>1, <1>4, <2>1 DEF OnScreen
  <2> QED
    BY <1>5, <1>6, <1>7, <2>4, <2>5, <2>6, <2>7 DEF InTurn
<1> QED
  BY <1>8, <1>9

LEMMA AnswerKeeps ==
    ASSUME BubbleInv, Answer
    PROVE  BubbleInv'
<1> USE DEF BubbleInv
<1>1. PICK r : r = turn
  OBVIOUS
<1>2. /\ r # None /\ r \notin parted /\ "answer" \in owes[r]
      /\ owes' = [owes EXCEPT ![r] = @ \ {"answer"}] /\ turn' = None
      /\ UNCHANGED <<phase, ending, said, queue, up, repair, turnsBegun, bub, parted, outOfTurn,
                     partial, reopened, cuts, reloads>>
  BY <1>1 DEF Answer
<1>3. r \in Runs
  BY <1>1, <1>2 DEF BubbleTypeOK
<1>4. /\ owes' \in [Runs -> SUBSET {"row", "final", "answer"}]
      /\ owes'[r] = owes[r] \ {"answer"} /\ \A s \in Runs \ {r} : owes'[s] = owes[s]
  BY <1>2, <1>3 DEF BubbleTypeOK
<1>5. \A s \in Runs : /\ owes'[s] = owes[s] \/ owes'[s] = owes[s] \ {"answer"}
                      /\ owes'[s] \subseteq owes[s]
                      /\ "final" \in owes[s] => "final" \in owes'[s]
                      /\ "row" \in owes[s] => "row" \in owes'[s]
  BY <1>4
<1>6. \A kind, s : Queued(kind, s)' <=> Queued(kind, s)
  BY <1>2, SameQueue
<1>7. RunsInHand'
  BY <1>2, <1>5, RunsStay
<1>8. EventsInOrder'
  <2>1. queue \in Seq(Event) /\ Len(queue) \in Nat
    BY QueueType
  <2>2. \A i \in 1 .. Len(queue') : i + 0 \in 1 .. Len(queue) /\ queue'[i] = queue[i + 0]
    BY <1>2, <2>1
  <2> QED
    BY <1>2, <1>5, <2>1, <2>2, EventsStay
<1>9. HistoryTrue' /\ LostAreParted'
  BY <1>2, <1>4 DEF HistoryTrue, LostAreParted
<1>10. CASE ending[r] = "reply" /\ Lands(r) /\ UNCHANGED stopped
  <2>1. /\ InTurn' /\ Elements' /\ LandedSaid'
        /\ r \in landed' /\ landed \subseteq landed' /\ reg' \in {reg, None}
    BY <1>2, <1>3, <1>5, <1>6, <1>10, RowKeeps
  <2>2. BubbleTypeOK'
    <3>1. /\ landed' \subseteq Runs /\ reg' \in Runs \cup {None} /\ screen' \in [Runs -> View]
          /\ settled' \subseteq Runs /\ dones' \in [Runs -> Nat]
          /\ swapped' \in [Runs -> SUBSET Runs] /\ ahead' \subseteq Runs
      BY <1>3, <1>10, RowTyped
    <3> QED
      BY <1>2, <1>4, <1>10, <3>1 DEF BubbleTypeOK, View
  <2>3. RouterSound'
    BY <1>2, <1>5, <1>6, <2>1, RouterStays
  <2>4. Promised'
    BY <1>2, <1>5, <1>6, <2>1 DEF Promised, WordsQueued
  <2> QED
    BY <1>7, <1>8, <1>9, <2>1, <2>2, <2>3, <2>4
<1>11. CASE UNCHANGED <<landed, reg, screen, settled, dones, swapped, ahead, stopped>>
  <2>1. BubbleTypeOK'
    BY <1>2, <1>4, <1>11 DEF BubbleTypeOK
  <2>2. RouterSound'
    BY <1>2, <1>5, <1>6, <1>11, RouterStays
  <2>3. Promised' /\ LandedSaid'
    BY <1>2, <1>5, <1>6, <1>11 DEF Promised, LandedSaid, WordsQueued
  <2>4. InTurn' /\ Elements'
    BY <1>2, <1>5, <1>6, <1>11, TurnsStay
  <2> QED
    BY <1>7, <1>8, <1>9, <2>1, <2>2, <2>3, <2>4
<1>12. CASE ErrorFrame
  <2>1. UNCHANGED <<landed, reg, settled, dones, swapped, ahead>>
    BY <1>12 DEF ErrorFrame
  <2>2. /\ InTurn' /\ Elements' /\ LandedSaid'
        /\ screen' \in [Runs -> View] /\ stopped' \subseteq Runs
    BY <1>2, <1>5, <1>12, ErrorKeeps
  <2>3. BubbleTypeOK'
    BY <1>2, <1>4, <2>1, <2>2 DEF BubbleTypeOK, View
  <2>4. RouterSound'
    BY <1>2, <1>5, <1>6, <2>1, RouterStays
  <2>5. Promised'
    BY <1>2, <1>5, <1>6, <2>1 DEF Promised, WordsQueued
  <2> QED
    BY <1>7, <1>8, <1>9, <2>2, <2>3, <2>4, <2>5
<1> QED
  BY <1>1, <1>10, <1>11, <1>12 DEF Answer, page

LEMMA TurnFailsKeeps ==
    ASSUME BubbleInv, TurnFails
    PROVE  BubbleInv'
<1> USE DEF BubbleInv
<1>1. PICK r : r = turn
  OBVIOUS
<1>2. /\ r # None /\ r \in parted /\ turn' = None
      /\ UNCHANGED <<phase, ending, said, owes, queue, up, repair, turnsBegun, bub, parted,
                     outOfTurn, partial, reopened, cuts, reloads>>
  BY <1>1 DEF TurnFails, gateway
<1>3. r \in Runs
  BY <1>1, <1>2 DEF BubbleTypeOK
<1>4. \A kind, s : Queued(kind, s)' <=> Queued(kind, s)
  BY <1>2, SameQueue
<1>5. RunsInHand'
  BY <1>2, RunsStay
<1>6. EventsInOrder' /\ HistoryTrue' /\ LostAreParted'
  BY <1>2 DEF EventsInOrder, EventSound, HistoryTrue, LostAreParted
<1>7. CASE ending[r] = "reply" /\ Lands(r) /\ UNCHANGED stopped
  <2>1. /\ InTurn' /\ Elements' /\ LandedSaid'
        /\ r \in landed' /\ landed \subseteq landed' /\ reg' \in {reg, None}
    BY <1>2, <1>3, <1>4, <1>7, RowKeeps
  <2>2. BubbleTypeOK'
    <3>1. /\ landed' \subseteq Runs /\ reg' \in Runs \cup {None} /\ screen' \in [Runs -> View]
          /\ settled' \subseteq Runs /\ dones' \in [Runs -> Nat]
          /\ swapped' \in [Runs -> SUBSET Runs] /\ ahead' \subseteq Runs
      BY <1>3, <1>7, RowTyped
    <3> QED
      BY <1>2, <1>7, <3>1 DEF BubbleTypeOK, View
  <2>3. RouterSound'
    BY <1>2, <1>4, <2>1, RouterStays
  <2>4. Promised'
    BY <1>2, <1>4, <2>1 DEF Promised, WordsQueued
  <2> QED
    BY <1>5, <1>6, <2>1, <2>2, <2>3, <2>4
<1>8. CASE ErrorFrame
  <2>1. UNCHANGED <<landed, reg, settled, dones, swapped, ahead>>
    BY <1>8 DEF ErrorFrame
  <2>2. /\ InTurn' /\ Elements' /\ LandedSaid'
        /\ screen' \in [Runs -> View] /\ stopped' \subseteq Runs
    BY <1>2, <1>8, ErrorKeeps
  <2>3. BubbleTypeOK'
    BY <1>2, <2>1, <2>2 DEF BubbleTypeOK, View
  <2>4. RouterSound'
    BY <1>2, <1>4, <2>1, RouterStays
  <2>5. Promised'
    BY <1>2, <1>4, <2>1 DEF Promised, WordsQueued
  <2> QED
    BY <1>5, <1>6, <2>2, <2>3, <2>4, <2>5
<1> QED
  BY <1>1, <1>7, <1>8 DEF TurnFails

-----------------------------------------------------------------------------
(* The router's steps                                                       *)

LEMMA SettleKeeps ==
    ASSUME BubbleInv, NEW r \in Runs, Settle(r)
    PROVE  BubbleInv'
<1> USE DEF BubbleInv
<1>1. /\ bub[r].settle /\ bub' = [bub EXCEPT ![r] = Forgotten]
      /\ IF reg = r THEN reg' = None /\ Done(r) ELSE UNCHANGED <<reg, screen, settled, dones>>
      /\ UNCHANGED <<phase, ending, said, owes, queue, up, repair, turn, turnsBegun, landed, swapped,
                     parted, outOfTurn, ahead, partial, stopped, reopened, cuts, reloads>>
  BY DEF Settle, Owned, gateway, page
<1>2. \A kind, s : Queued(kind, s)' <=> Queued(kind, s)
  BY <1>1, SameQueue
<1>3. /\ screen \in [Runs -> View] /\ dones \in [Runs -> Nat] /\ bub \in [Runs -> Bubble]
      /\ reg \in Runs \cup {None} /\ settled \subseteq Runs /\ None \notin Runs
  BY NoneIsNoRun DEF BubbleTypeOK, View, Bubble
<1>4. /\ bub' \in [Runs -> Bubble] /\ bub'[r] = NoRun /\ \A s \in Runs \ {r} : bub'[s] = bub[s]
      /\ NoRun.pending = NoText /\ ~NoRun.flush /\ ~NoRun.started /\ ~NoRun.settle
  BY <1>1, <1>3, NothingHeld DEF Forgotten, NoRun
<1>5. /\ reg' \in {reg, None} /\ reg' # r
      /\ \A s \in Runs \ {r} : screen'[s] = screen[s] /\ dones'[s] = dones[s]
      /\ reg # r => screen'[r] = screen[r] /\ dones'[r] = dones[r]
      /\ reg = r => screen'[r] = Retired(screen[r]) /\ dones'[r] = dones[r] + 1 /\ reg' = None
  BY <1>1, <1>3 DEF Done
<1>6. /\ phase[r] = "over" /\ "final" \notin owes[r] /\ ~WordsQueued(r) /\ ~Queued("final", r)
  BY <1>1 DEF RouterSound, BubbleSound, WordsQueued
<1>7. BubbleTypeOK'
  <2>1. Retired(screen[r]) \in View
    <3>1. screen[r].elements \in Nat
      BY <1>3 DEF View
    <3>2. (IF screen[r].elements = 0 THEN 0 ELSE screen[r].elements - 1) \in Nat
      BY <3>1
    <3> QED
      BY <3>2, NothingHeld DEF Retired, View
  <2>2. reg' \in Runs \cup {None}
    BY <1>3, <1>5
  <2>3. screen' \in [Runs -> View] /\ settled' \subseteq Runs /\ dones' \in [Runs -> Nat]
    BY <1>1, <1>3, <2>1 DEF Done
  <2> QED
    BY <1>1, <1>4, <2>2, <2>3 DEF BubbleTypeOK, View, Bubble
<1>8. RunsInHand' /\ EventsInOrder' /\ HistoryTrue' /\ LostAreParted'
  BY <1>1 DEF RunsInHand, EventsInOrder, EventSound, HistoryTrue, LostAreParted
<1>9. RouterSound'
  <2> SUFFICES ASSUME NEW s \in Runs PROVE BubbleSound(s)'
    BY DEF RouterSound
  <2>1. CASE s = r
    BY <1>4, <1>5, <2>1 DEF BubbleSound
  <2>2. CASE s # r
    <3>1. BubbleSound(s) /\ s # None
      BY <1>3 DEF RouterSound
    <3> QED
      BY <1>1, <1>2, <1>4, <1>5, <2>2, <3>1 DEF BubbleSound
  <2> QED
    BY <2>1, <2>2
<1>10. LandedSaid' /\ Promised'
  BY <1>1, <1>2 DEF LandedSaid, Promised, WordsQueued
<1>11. Elements'
  <2> SUFFICES ASSUME NEW s \in Runs \ stopped
               PROVE  screen'[s].elements <= 1 /\ (screen'[s].live <=> screen'[s].elements = 1)
    BY <1>1 DEF Elements
  <2>1. screen[s].elements <= 1 /\ (screen[s].live <=> screen[s].elements = 1) /\ screen[s].elements \in Nat
    BY <1>3 DEF Elements, View
  <2>2. CASE s = r /\ reg = r
    BY <1>5, <2>1, <2>2 DEF Retired
  <2>3. CASE ~(s = r /\ reg = r)
    BY <1>5, <2>1, <2>3
  <2> QED
    BY <2>2, <2>3
<1>12. InTurn'
  <2>1. CASE outOfTurn
    BY <1>1, <2>1 DEF InTurn
  <2>2. CASE ~outOfTurn
    <3>1. OneByOne /\ EndsOnce /\ OwnRowClaims /\ OnScreen
      BY <2>2 DEF InTurn
    <3>2. ASSUME NEW s \in Runs, s < turnsBegun PROVE Through(s)'
      <4>1. Through(s)
        BY <3>1, <3>2 DEF OneByOne
      <4>2. bub'[s].settle => bub[s].settle
        BY <1>4
      <4> QED
        BY <1>1, <1>2, <4>1, <4>2 DEF Through
    <3>3. ASSUME NEW s \in Runs \ parted, reg' = s PROVE Awaited(s)'
      <4>1. s # r /\ reg = s
        BY <1>3, <1>5, <3>3
      <4>2. Awaited(s)
        BY <3>1, <4>1 DEF OneByOne
      <4> QED
        BY <1>1, <1>2, <1>4, <4>1, <4>2 DEF Awaited
    <3>4. \A s \in landed \ ahead : reg' # s
      BY <1>3, <1>5, <3>1 DEF OneByOne, BubbleTypeOK
    <3>5. OneByOne'
      BY <1>1, <3>2, <3>3, <3>4 DEF OneByOne
    <3>6. EndsOnce'
      <4> SUFFICES ASSUME NEW s \in Runs \ ahead, swapped[s] \subseteq {s}
                   PROVE  /\ dones'[s] <= 1
                          /\ dones'[s] # 0 => phase[s] = "over" /\ ~WordsQueued(s)' /\ reg' # s
        BY <1>1 DEF EndsOnce
      <4>1. /\ dones[s] <= 1
            /\ dones[s] # 0 => phase[s] = "over" /\ ~WordsQueued(s) /\ reg # s
        BY <3>1 DEF EndsOnce
      <4>2. WordsQueued(s)' <=> WordsQueued(s)
        BY <1>2 DEF WordsQueued
      <4>3. CASE s = r /\ reg = r
        <5>1. dones[s] = 0
          BY <4>1, <4>3
        <5> QED
          BY <1>5, <1>6, <4>2, <4>3, <5>1
      <4>4. CASE ~(s = r /\ reg = r)
        <5>1. dones'[s] = dones[s] /\ (reg # s => reg' # s)
          BY <1>3, <1>5, <4>4
        <5> QED
          BY <4>1, <4>2, <5>1
      <4> QED
        BY <4>3, <4>4
    <3>7. OwnRowClaims'
      BY <1>1, <3>1 DEF OwnRowClaims
    <3>8. OnScreen'
      <4> SUFFICES ASSUME NEW s \in Runs \ (parted \cup stopped), screen'[s].elements > 0
                   PROVE  reg' = s
        BY <1>1 DEF OnScreen
      <4>1. screen[s].elements <= 1 /\ screen[s].elements \in Nat
        BY <1>3 DEF Elements, View
      <4>2. ~(s = r /\ reg = r)
        BY <1>5, <4>1 DEF Retired
      <4>3. screen'[s] = screen[s]
        BY <1>5, <4>2
      <4>4. reg = s
        BY <3>1, <4>3 DEF OnScreen
      <4> QED
        BY <1>1, <4>2, <4>4
    <3> QED
      BY <3>5, <3>6, <3>7, <3>8 DEF InTurn
  <2> QED
    BY <2>1, <2>2
<1> QED
  BY <1>7, <1>8, <1>9, <1>10, <1>11, <1>12

\* A bubble with a flush behind it: words that are held have one coming.
LEMMA FlushSound ==
    ASSUME BubbleInv, NEW r \in Runs, NEW b \in Bubble, NEW force \in BOOLEAN,
           b.started = bub[r].started, b.settle = bub[r].settle, b.flush => b.started,
           NEW f, f.run.pending = NoText,
           Quiet(r, b, f) \/ TooLate(r, b, f) \/ Paints(r, b, force, f),
           bub' = [bub EXCEPT ![r] = f.run], reg' = f.reg, phase[r] # "waiting",
           UNCHANGED <<phase, owes>>,
           \A kind, s : Queued(kind, s)' => Queued(kind, s)
    PROVE  RouterSound'
<1> USE DEF BubbleInv
<1>1. /\ bub \in [Runs -> Bubble]
      /\ bub'[r] = f.run /\ \A s \in Runs \ {r} : bub'[s] = bub[s]
  BY DEF BubbleTypeOK, Bubble
<1>2. reg' \in {reg, r}
  BY DEF Quiet, TooLate, Paints
<1> SUFFICES ASSUME NEW s \in Runs PROVE BubbleSound(s)'
  BY DEF RouterSound
<1>3. BubbleSound(s)
  BY DEF RouterSound
<1>4. CASE s # r
  BY <1>1, <1>2, <1>3, <1>4 DEF BubbleSound
<1>5. CASE s = r
  <2>1. BubbleSound(r)
    BY <1>3, <1>5
  <2>2. CASE Quiet(r, b, f)
    BY <1>1, <1>5, <2>1, <2>2 DEF BubbleSound, Quiet
  <2>3. CASE TooLate(r, b, f)
    BY <1>1, <1>5, <2>1, <2>3 DEF BubbleSound, TooLate, Forgotten, NoRun
  <2>4. CASE Paints(r, b, force, f)
    BY <1>1, <1>5, <2>1, <2>4 DEF BubbleSound, Paints
  <2> QED
    BY <2>2, <2>3, <2>4
<1> QED
  BY <1>4, <1>5

LEMMA ShowsTyped ==
    ASSUME BubbleTypeOK, NEW r \in Runs, NEW f, NEW b, b \in Bubble,
           f.reg \in Runs \cup {None}, f.view \in View,
           bub' = [bub EXCEPT ![r] = b], reg' = f.reg, screen' = [screen EXCEPT ![r] = f.view]
    PROVE  bub' \in [Runs -> Bubble] /\ reg' \in Runs \cup {None} /\ screen' \in [Runs -> View]
BY DEF BubbleTypeOK, Bubble, View

LEMMA PumpTyped ==
    ASSUME BubbleTypeOK, queue' \in Seq(Event), Len(queue') <= MaxQueue,
           bub' \in [Runs -> Bubble], reg' \in Runs \cup {None}, screen' \in [Runs -> View],
           UNCHANGED <<phase, ending, said, owes, up, repair, turn, turnsBegun, landed,
                       settled, dones, swapped, parted, outOfTurn, ahead, partial, stopped,
                       reopened, cuts, reloads>>
    PROVE  BubbleTypeOK'
BY DEF BubbleTypeOK, Bubble, View, Event

LEMMA FlushLaterKeeps ==
    ASSUME BubbleInv, NEW r \in Runs, FlushLater(r)
    PROVE  BubbleInv'
<1> USE DEF BubbleInv
<1> DEFINE b0 == [bub[r] EXCEPT !.flush = FALSE]
<1>1. PICK b : b = b0
  OBVIOUS
<1>2. PICK f : f = Flushed(r, b, FALSE)
  OBVIOUS
<1>3. /\ bub[r].flush
      /\ bub' = [bub EXCEPT ![r] = f.run] /\ reg' = f.reg /\ screen' = [screen EXCEPT ![r] = f.view]
      /\ UNCHANGED <<phase, ending, said, owes, queue, up, repair, turn, turnsBegun, landed,
                     settled, dones, swapped, parted, outOfTurn, ahead, partial, stopped, reopened,
                     cuts, reloads>>
  BY <1>1, <1>2 DEF FlushLater, Shows, gateway, past
<1>4. /\ b \in Bubble /\ b.started = bub[r].started /\ b.settle = bub[r].settle /\ ~b.flush
      /\ bub \in [Runs -> Bubble] /\ screen[r] \in View /\ reg \in Runs \cup {None}
  <2>1. bub \in [Runs -> Bubble] /\ screen[r] \in View /\ reg \in Runs \cup {None}
    BY DEF BubbleTypeOK, Bubble, View
  <2>2. bub[r] \in Bubble
    BY <2>1
  <2> QED
    BY <1>1, <2>1, <2>2 DEF Bubble
<1> HIDE DEF b0
<1>5. /\ f.run \in Bubble /\ f.reg \in Runs \cup {None} /\ f.view \in View
      /\ f.run.pending = NoText
      /\ Quiet(r, b, f) \/ TooLate(r, b, f) \/ Paints(r, b, FALSE, f)
  BY <1>2, <1>4, FlushEffect
<1>6. \A kind, s : Queued(kind, s)' <=> Queued(kind, s)
  BY <1>3, SameQueue
<1>7. bub[r].started /\ phase[r] # "waiting"
  BY <1>3 DEF RouterSound, BubbleSound
<1>8. reg' = reg
  BY <1>3, <1>4, <1>5, <1>7 DEF Quiet, TooLate, Paints
<1>9. BubbleTypeOK'
  <2>1. bub' \in [Runs -> Bubble] /\ reg' \in Runs \cup {None} /\ screen' \in [Runs -> View]
    BY <1>3, <1>5, ShowsTyped
  <2> QED
    BY <1>3, <2>1 DEF BubbleTypeOK, View, Bubble
<1>10. RunsInHand' /\ EventsInOrder' /\ HistoryTrue' /\ LostAreParted'
  BY <1>3 DEF RunsInHand, EventsInOrder, EventSound, HistoryTrue, LostAreParted
<1>11. LandedSaid' /\ Promised'
  BY <1>3, <1>6 DEF LandedSaid, Promised, WordsQueued
<1>12. RouterSound'
  BY <1>3, <1>4, <1>5, <1>6, <1>7, FlushSound
<1>13. bub'[r] = f.run /\ \A s \in Runs \ {r} : bub'[s] = bub[s]
  BY <1>3, <1>4
<1>14. f.run.settle => bub[r].settle
  <2>1. CASE Quiet(r, b, f) \/ Paints(r, b, FALSE, f)
    BY <1>4, <2>1 DEF Quiet, Paints
  <2>2. CASE TooLate(r, b, f)
    BY <2>2 DEF TooLate, Forgotten, NoRun
  <2> QED
    BY <1>5, <2>1, <2>2
<1>15. ASSUME ~outOfTurn', r \notin parted, reg' = r PROVE Awaited(r)'
  <2>1. OneByOne
    BY <1>3, <1>15 DEF InTurn
  <2>2. Awaited(r)
    BY <1>8, <1>15, <2>1 DEF OneByOne
  <2>3. f.run.settle = bub[r].settle
    BY <1>4, <1>5, <1>8, <1>15 DEF Quiet, TooLate, Paints
  <2> QED
    BY <1>3, <1>6, <1>13, <2>2, <2>3 DEF Awaited
<1>16. InTurn' /\ Elements'
  BY <1>3, <1>4, <1>5, <1>6, <1>8, <1>13, <1>14, <1>15, FlushKeeps
<1> QED
  BY <1>9, <1>10, <1>11, <1>12, <1>16

LEMMA MergedType ==
    ASSUME NEW r \in Runs, NEW k \in 1 .. Len(Speech[r]), NEW raw \in Wordings
    PROVE  Merged(raw, r, k) \in Wordings
<1>1. Speech[r][k] \in STRING \cup {"none"} /\ 1 \in 0 .. Len(Speech[r])
  BY SpeechWords
<1>2. Text(r, 1) \in Wordings
  BY <1>1, TextType
<1>3. <<Speech[r][k]>> \in Wordings
  BY <1>1 DEF Wordings
<1>4. Append(raw, Speech[r][k]) \in Wordings
  BY <1>1, AppendProperties DEF Wordings
<1> QED
  BY <1>2, <1>3, <1>4, NothingHeld DEF Merged

LEMMA PumpDeltaKeeps ==
    ASSUME BubbleInv, queue # <<>>, queue' = Tail(queue), Head(queue).kind = "delta",
           HandleDelta(Head(queue)),
           UNCHANGED <<gateway, up, repair, turn, turnsBegun, cuts, reloads>>
    PROVE  BubbleInv'
<1> USE DEF BubbleInv
<1>1. PICK e \in Event : e = Head(queue)
  BY TakenEvent
<1>2. PICK r \in Runs : r = e.run
  BY DEF Event
<1>3. PICK text : text = Merged(bub[r].raw, r, e.upto)
  OBVIOUS
<1>4. PICK b : b = [bub[r] EXCEPT !.raw = text, !.pending = text,
                       !.replace = @ \/ (e.upto > 1 /\ Speech[r][e.upto - 1] = Replace)]
  OBVIOUS
<1>5. PICK f : f = Flushed(r, b, FALSE)
  OBVIOUS
<1>6. /\ IF text = NoText THEN UNCHANGED <<reg, bub, screen>>
         ELSE IF b.flush THEN bub' = [bub EXCEPT ![r] = b] /\ UNCHANGED <<reg, screen>>
         ELSE bub' = [bub EXCEPT ![r] = f.run] /\ reg' = f.reg /\ screen' = [screen EXCEPT ![r] = f.view]
      /\ UNCHANGED <<phase, ending, said, owes, up, repair, turn, turnsBegun, landed,
                     settled, dones, swapped, parted, outOfTurn, ahead, partial, stopped, reopened,
                     cuts, reloads>>
  BY <1>1, <1>2, <1>3, <1>4, <1>5 DEF HandleDelta, Shows, gateway, past, router, page
<1>7. /\ queue' \in Seq(Event) /\ Len(queue') = Len(queue) - 1 /\ Len(queue) >= 1
      /\ \A i \in 1 .. Len(queue) - 1 : queue'[i] = queue[i + 1]
      /\ Queued("delta", r)
      /\ \A kind, s : Queued(kind, s)' => Queued(kind, s)
      /\ \A kind, s : Queued(kind, s) => Queued(kind, s)' \/ (kind = "delta" /\ s = r)
  BY <1>1, <1>2, TakenEvent
<1>8. EventSound(e) /\ e.upto \in 1 .. Len(Speech[r])
  <2>1. EventSound(e)
    BY <1>1, <1>7, QueueType, TakenEvent DEF EventsInOrder
  <2>2. e.upto \in Nat /\ e.upto <= said[r] /\ said[r] \in Nat /\ said[r] <= Len(Speech[r]) /\ e.upto > 0
    BY <1>1, <1>2, <2>1 DEF EventSound, BubbleTypeOK, Event
  <2> QED
    BY <2>1, <2>2, SpeechWords
<1>9. /\ bub \in [Runs -> Bubble] /\ bub[r] \in Bubble /\ screen[r] \in View /\ reg \in Runs \cup {None}
      /\ screen \in [Runs -> View]
  BY DEF BubbleTypeOK, Bubble, View
<1>10. text \in Wordings
  BY <1>3, <1>8, <1>9, MergedType DEF Bubble
<1>11. /\ b \in Bubble /\ b.started = bub[r].started /\ b.settle = bub[r].settle
       /\ b.flush = bub[r].flush
  BY <1>4, <1>9, <1>10 DEF Bubble
<1>12. /\ f.run \in Bubble /\ f.reg \in Runs \cup {None} /\ f.view \in View
       /\ f.run.pending = NoText
       /\ Quiet(r, b, f) \/ TooLate(r, b, f) \/ Paints(r, b, FALSE, f)
  BY <1>5, <1>9, <1>11, FlushEffect
<1>13. BubbleSound(r) /\ ~bub[r].settle /\ phase[r] # "waiting"
  <2>1. phase[r] # "waiting"
    <3>1. r \in Nat /\ Len(Speech) \in Nat
      BY SpeechWords
    <3>2. r <= turnsBegun /\ turnsBegun \in 0 .. Len(Speech)
      BY <1>2, <1>8 DEF EventSound, BubbleTypeOK
    <3>3. ~(r > turnsBegun)
      BY <3>1, <3>2
    <3> QED
      BY <3>3 DEF RunsInHand
  <2> QED
    BY <1>7, <2>1 DEF RouterSound, BubbleSound
<1>14. Len(queue') <= MaxQueue
  BY <1>7, QueueType, BubbleBounds DEF BubbleTypeOK
<1>15. RunsInHand' /\ HistoryTrue' /\ LostAreParted'
  BY <1>6 DEF RunsInHand, HistoryTrue, LostAreParted
<1>16. EventsInOrder'
  <2>1. \A i \in 1 .. Len(queue') : i + 1 \in 1 .. Len(queue) /\ queue'[i] = queue[i + 1]
    BY <1>7, QueueType
  <2> QED
    BY <1>6, <1>7, <2>1, EventsStay
<1>17. LandedSaid' /\ Promised'
  BY <1>6, <1>7 DEF LandedSaid, Promised, WordsQueued
<1>18. CASE UNCHANGED <<reg, screen>> /\ (UNCHANGED bub \/ (b.flush /\ bub' = [bub EXCEPT ![r] = b]))
  <2>1. /\ bub' \in [Runs -> Bubble]
        /\ \A s \in Runs : /\ bub'[s].started = bub[s].started /\ bub'[s].flush = bub[s].flush
                           /\ bub'[s].settle = bub[s].settle
                           /\ bub'[s].pending = bub[s].pending \/ bub[s].flush
    <3>1. CASE UNCHANGED bub
      BY <1>9, <3>1
    <3>2. CASE b.flush /\ bub' = [bub EXCEPT ![r] = b]
      <4>1. bub' \in [Runs -> Bubble] /\ bub'[r] = b /\ \A s \in Runs \ {r} : bub'[s] = bub[s]
        BY <1>9, <1>11, <3>2
      <4> QED
        BY <1>11, <3>2, <4>1
    <3> QED
      BY <1>18, <3>1, <3>2
  <2>2. BubbleTypeOK'
    <3>1. UNCHANGED <<reg, screen>>
      BY <1>18
    <3> QED
      BY <1>6, <1>7, <1>9, <1>14, <2>1, <3>1, PumpTyped
  <2>3. RouterSound'
    BY <1>6, <1>7, <1>18, <2>1 DEF RouterSound, BubbleSound
  <2>4. InTurn' /\ Elements'
    <3>1. Elements'
      BY <1>6, <1>18 DEF Elements
    <3>2. CASE outOfTurn
      BY <1>6, <3>1, <3>2 DEF InTurn
    <3>3. CASE ~outOfTurn
      <4>1. OneByOne /\ EndsOnce /\ OwnRowClaims /\ OnScreen
        BY <3>3 DEF InTurn
      <4>2. ASSUME NEW s \in Runs, s < turnsBegun PROVE Through(s)'
        <5>1. Through(s)
          BY <4>1, <4>2 DEF OneByOne
        <5> QED
          BY <1>6, <1>7, <2>1, <5>1 DEF Through
      <4>3. ASSUME NEW s \in Runs \ parted, reg = s PROVE Awaited(s)'
        <5>1. Awaited(s)
          BY <4>1, <4>3 DEF OneByOne
        <5> QED
          BY <1>6, <1>7, <2>1, <5>1 DEF Awaited
      <4>4. OneByOne'
        BY <1>6, <1>18, <4>1, <4>2, <4>3 DEF OneByOne
      <4>5. EndsOnce'
        <5> SUFFICES ASSUME NEW s \in Runs \ ahead, swapped[s] \subseteq {s}
                     PROVE  /\ dones[s] <= 1
                            /\ dones[s] # 0 => phase[s] = "over" /\ ~WordsQueued(s)' /\ reg # s
          BY <1>6, <1>18 DEF EndsOnce
        <5>1. /\ dones[s] <= 1
              /\ dones[s] # 0 => phase[s] = "over" /\ ~WordsQueued(s) /\ reg # s
          BY <4>1 DEF EndsOnce
        <5>2. WordsQueued(s)' => WordsQueued(s)
          BY <1>7 DEF WordsQueued
        <5> QED
          BY <5>1, <5>2
      <4>6. OwnRowClaims' /\ OnScreen'
        BY <1>6, <1>18, <4>1 DEF OwnRowClaims, OnScreen
      <4> QED
        BY <3>1, <4>4, <4>5, <4>6 DEF InTurn
    <3> QED
      BY <3>2, <3>3
  <2> QED
    BY <1>15, <1>16, <1>17, <2>2, <2>3, <2>4
<1>19. CASE /\ ~b.flush /\ bub' = [bub EXCEPT ![r] = f.run] /\ reg' = f.reg
            /\ screen' = [screen EXCEPT ![r] = f.view]
  <2>1. BubbleTypeOK'
    <3>1. bub' \in [Runs -> Bubble] /\ reg' \in Runs \cup {None} /\ screen' \in [Runs -> View]
      BY <1>12, <1>19, ShowsTyped
    <3> QED
      BY <1>6, <1>7, <1>14, <3>1, PumpTyped
  <2>2. RouterSound'
    BY <1>6, <1>7, <1>11, <1>12, <1>13, <1>19, FlushSound
  <2>3. bub'[r] = f.run /\ \A s \in Runs \ {r} : bub'[s] = bub[s]
    BY <1>9, <1>19
  <2>4. ~f.run.settle
    BY <1>11, <1>12, <1>13 DEF Quiet, TooLate, Paints, Forgotten, NoRun
  <2>5. ASSUME r \notin parted PROVE Awaited(r)'
    <3>1. phase[r] = "running" \/ "final" \in owes[r] \/ Queued("final", r)
      BY <1>7, <2>5 DEF Promised, WordsQueued
    <3> QED
      BY <1>6, <1>7, <3>1 DEF Awaited
  <2>6. InTurn' /\ Elements'
    <3>1. WordsQueued(r)
      BY <1>7 DEF WordsQueued
    <3> QED
      BY <1>6, <1>7, <1>11, <1>12, <1>19, <2>3, <2>4, <2>5, <3>1, FlushKeeps
  <2> QED
    BY <1>15, <1>16, <1>17, <2>1, <2>2, <2>6
<1> QED
  BY <1>6, <1>18, <1>19

\* What is held of the bubble's words goes out with the end of its run.
LEMMA PumpFinalKeeps ==
    ASSUME BubbleInv, queue # <<>>, queue' = Tail(queue), Head(queue).kind = "final",
           HandleFinal(Head(queue)),
           UNCHANGED <<gateway, up, repair, turn, turnsBegun, cuts, reloads>>
    PROVE  BubbleInv'
<1> USE DEF BubbleInv
<1>1. PICK e \in Event : e = Head(queue)
  BY TakenEvent
<1>2. PICK r \in Runs : r = e.run
  BY DEF Event
<1>3. PICK b : b = bub[r]
  OBVIOUS
<1>4. PICK f : f = Flushed(r, b, TRUE)
  OBVIOUS
<1>5. PICK a : a = Armed(f.run)
  OBVIOUS
<1>6. /\ bub' = [bub EXCEPT ![r] = a] /\ reg' = f.reg /\ screen' = [screen EXCEPT ![r] = f.view]
      /\ UNCHANGED <<phase, ending, said, owes, up, repair, turn, turnsBegun, landed,
                     settled, dones, swapped, parted, outOfTurn, ahead, partial, stopped, reopened,
                     cuts, reloads>>
  <2>1. PICK g : g = [f EXCEPT !.run = Armed(@)]
    OBVIOUS
  <2>2. Shows(r, g) /\ UNCHANGED <<landed, past>>
    BY <1>1, <1>2, <1>3, <1>4, <2>1 DEF HandleFinal
  <2>3. g.run = a /\ g.reg = f.reg /\ g.view = f.view
    BY <1>4, <1>5, <2>1 DEF Flushed
  <2> QED
    BY <2>2, <2>3 DEF Shows, gateway, past
<1>7. /\ queue' \in Seq(Event) /\ Len(queue') = Len(queue) - 1 /\ Len(queue) >= 1
      /\ \A i \in 1 .. Len(queue) - 1 : queue'[i] = queue[i + 1]
      /\ Queued("final", r)
      /\ \A kind, s : Queued(kind, s)' => Queued(kind, s)
      /\ \A kind, s : Queued(kind, s) => Queued(kind, s)' \/ (kind = "final" /\ s = r)
  BY <1>1, <1>2, TakenEvent
<1>8. ~Queued("delta", r)' /\ ~Queued("final", r)'
  <2>1. Head(queue).kind # "delta" /\ Head(queue).kind = "final" /\ Head(queue).run = r
    BY <1>1, <1>2
  <2> QED
    BY <2>1, AfterEnd
<1>9. phase[r] = "over" /\ "final" \notin owes[r]
  BY <1>7, QueuedSound
<1>10. /\ bub \in [Runs -> Bubble] /\ b \in Bubble /\ screen[r] \in View /\ reg \in Runs \cup {None}
  <2>1. bub \in [Runs -> Bubble] /\ screen[r] \in View /\ reg \in Runs \cup {None}
    BY DEF BubbleTypeOK, Bubble, View
  <2> QED
    BY <1>3, <2>1
<1>11. /\ f.run \in Bubble /\ f.reg \in Runs \cup {None} /\ f.view \in View
       /\ f.run.pending = NoText
       /\ Quiet(r, b, f) \/ TooLate(r, b, f) \/ Paints(r, b, TRUE, f)
  BY <1>4, <1>10, FlushEffect
<1>12. BubbleSound(r) /\ (b.flush => b.started) /\ (b.pending # NoText => b.started)
  <2>1. BubbleSound(r)
    BY DEF RouterSound
  <2> QED
    BY <1>3, <2>1 DEF BubbleSound
<1>13. reg' = reg /\ (f.run.flush => f.run.started) /\ (reg' = r => f.run.started)
  <2>1. reg = r => b.started
    BY <1>3, <1>12 DEF BubbleSound
  <2>2. CASE Quiet(r, b, f)
    BY <1>6, <1>12, <2>1, <2>2 DEF Quiet
  <2>3. CASE TooLate(r, b, f)
    BY <1>6, <2>3 DEF TooLate, Forgotten, NoRun
  <2>4. CASE Paints(r, b, TRUE, f)
    BY <1>6, <1>12, <2>4 DEF Paints
  <2> QED
    BY <1>11, <2>2, <2>3, <2>4
<1>14. /\ a \in Bubble /\ a.pending = NoText /\ a.settle = a.started
       /\ a.started = f.run.started /\ (a.flush => a.started)
  <2>1. CASE f.run.started
    BY <1>5, <1>11, <2>1 DEF Armed, Bubble
  <2>2. CASE ~f.run.started
    BY <1>5, <1>11, <2>2, NothingHeld DEF Armed, Forgotten, NoRun, Bubble
  <2> QED
    BY <2>1, <2>2
<1>15. bub' \in [Runs -> Bubble] /\ bub'[r] = a /\ \A s \in Runs \ {r} : bub'[s] = bub[s]
  BY <1>6, <1>10, <1>14
<1>16. BubbleTypeOK'
  <2>1. reg' \in Runs \cup {None} /\ screen' \in [Runs -> View]
    BY <1>6, <1>11 DEF BubbleTypeOK, View
  <2>2. Len(queue') <= MaxQueue
    BY <1>7, QueueType, BubbleBounds DEF BubbleTypeOK
  <2> QED
    BY <1>6, <1>7, <1>15, <2>1, <2>2, PumpTyped
<1>17. RunsInHand' /\ HistoryTrue' /\ LostAreParted'
  BY <1>6 DEF RunsInHand, HistoryTrue, LostAreParted
<1>18. EventsInOrder'
  <2>1. \A i \in 1 .. Len(queue') : i + 1 \in 1 .. Len(queue) /\ queue'[i] = queue[i + 1]
    BY <1>7, QueueType
  <2> QED
    BY <1>6, <1>7, <2>1, EventsStay
<1>19. LandedSaid' /\ Promised'
  <2>1. LandedSaid'
    BY <1>6, <1>7 DEF LandedSaid, WordsQueued
  <2>2. Promised'
    <3> SUFFICES ASSUME NEW s \in Runs \ parted
                 PROVE  /\ WordsQueued(s)' => phase[s] = "running" \/ "final" \in owes[s] \/ Queued("final", s)'
                        /\ ending[s] = "reply" => "row" \in owes[s] \/ Queued("row", s)' \/ s \in landed
      BY <1>6 DEF Promised
    <3>1. /\ WordsQueued(s) => phase[s] = "running" \/ "final" \in owes[s] \/ Queued("final", s)
          /\ ending[s] = "reply" => "row" \in owes[s] \/ Queued("row", s) \/ s \in landed
      BY DEF Promised
    <3>2. WordsQueued(s)' => WordsQueued(s) /\ s # r
      BY <1>7, <1>8 DEF WordsQueued
    <3> QED
      BY <1>7, <3>1, <3>2
  <2> QED
    BY <2>1, <2>2
<1>20. RouterSound'
  <2> SUFFICES ASSUME NEW s \in Runs PROVE BubbleSound(s)'
    BY DEF RouterSound
  <2>1. BubbleSound(s)
    BY DEF RouterSound
  <2>2. CASE s # r
    BY <1>6, <1>7, <1>13, <1>15, <2>1, <2>2 DEF BubbleSound
  <2>3. CASE s = r
    BY <1>6, <1>8, <1>9, <1>13, <1>14, <1>15, <2>3 DEF BubbleSound
  <2> QED
    BY <2>2, <2>3
<1>21. InTurn' /\ Elements'
  <2>1. ASSUME ~outOfTurn' PROVE ~(r < turnsBegun)
    <3>1. OneByOne
      BY <1>6, <2>1 DEF InTurn
    <3>2. ~Through(r)
      BY <1>7 DEF Through, Kinds
    <3> QED
      BY <3>1, <3>2 DEF OneByOne
  <2>2. reg' = r => Awaited(r)'
    BY <1>13, <1>14, <1>15 DEF Awaited
  <2> QED
    <3>1. b.started = bub[r].started /\ (outOfTurn => outOfTurn')
      BY <1>3, <1>6
    <3>2. reg' = reg /\ reg' = f.reg /\ screen' = [screen EXCEPT ![r] = f.view]
      BY <1>6, <1>13
    <3>3. \A s \in Runs \ {r} : Queued("final", s) => Queued("final", s)'
      BY <1>7
    <3>4. \A kind, s : Queued(kind, s)' => Queued(kind, s)
      BY <1>7
    <3> QED
      BY <1>6, <1>10, <1>11, <1>15, <2>1, <2>2, <3>1, <3>2, <3>3, <3>4, FlushKeeps
<1> QED
  BY <1>16, <1>17, <1>18, <1>19, <1>20, <1>21

LEMMA PumpKeeps ==
    ASSUME BubbleInv, Pump
    PROVE  BubbleInv'
<1>1. /\ queue # <<>> /\ queue' = Tail(queue)
      /\ UNCHANGED <<gateway, up, repair, turn, turnsBegun, cuts, reloads>>
  BY DEF Pump
<1>2. CASE Head(queue).kind = "delta" /\ HandleDelta(Head(queue))
  BY <1>1, <1>2, PumpDeltaKeeps
<1>3. CASE Head(queue).kind = "final" /\ HandleFinal(Head(queue))
  BY <1>1, <1>3, PumpFinalKeeps
<1>4. CASE Head(queue).kind = "row" /\ HandleRow(Head(queue))
  BY <1>1, <1>4, PumpRowKeeps
<1> QED
  BY <1>2, <1>3, <1>4 DEF Pump

\* A bubble sent whole is one that is running, or one out of turn.
LEMMA ReopenKeeps ==
    ASSUME BubbleInv, Reopen
    PROVE  BubbleInv'
<1> USE DEF BubbleInv
<1>1. PICK r : r = repair.run
  OBVIOUS
<1>2. /\ repair' = NoRepair
      /\ outOfTurn' = (outOfTurn \/ (r # None /\ phase[r] = "over"))
      /\ reopened' = reopened \cup ({r} \ {None})
      /\ UNCHANGED <<phase, ending, said, owes, queue, up, turn, turnsBegun, landed, dones, swapped,
                     parted, ahead, partial, stopped, cuts, reloads>>
  BY <1>1 DEF Reopen, gateway
<1>3. r \in Runs \cup {None} /\ repair.text \in Wordings
  BY <1>1 DEF BubbleTypeOK
<1>4. /\ repair' \in [stage : {"no", "due", "read"}, rows : SUBSET Runs,
                      run : Runs \cup {None}, text : Wordings]
      /\ repair'.rows = {} /\ repair'.run = None
  BY <1>2, NothingHeld DEF NoRepair
<1>5. outOfTurn' \in BOOLEAN /\ reopened' \subseteq Runs
  BY <1>2, <1>3 DEF BubbleTypeOK
<1>6. RunsInHand' /\ EventsInOrder' /\ HistoryTrue' /\ LostAreParted'
  BY <1>2, <1>4 DEF RunsInHand, EventsInOrder, EventSound, HistoryTrue, LostAreParted
<1>7. \A kind, s : Queued(kind, s)' <=> Queued(kind, s)
  BY <1>2, SameQueue
<1>8. LandedSaid' /\ Promised'
  BY <1>2, <1>7 DEF LandedSaid, Promised, WordsQueued
<1>9. CASE UNCHANGED <<reg, bub, screen, settled>>
  <2>1. BubbleTypeOK'
    BY <1>2, <1>4, <1>5, <1>9 DEF BubbleTypeOK
  <2>2. RouterSound'
    BY <1>2, <1>7, <1>9, RouterStays
  <2>3. Elements'
    BY <1>2, <1>9 DEF Elements
  <2>4. InTurn'
    <3>1. CASE outOfTurn
      BY <1>2, <3>1 DEF InTurn
    <3>2. CASE ~outOfTurn
      <4>1. OneByOne /\ EndsOnce /\ OwnRowClaims /\ OnScreen
        BY <3>2 DEF InTurn
      <4>2. OneByOne'
        BY <1>2, <1>7, <1>9, <4>1 DEF OneByOne, Through, Awaited
      <4>3. EndsOnce' /\ OnScreen'
        BY <1>2, <1>7, <1>9, <4>1 DEF EndsOnce, OnScreen, WordsQueued
      <4>4. OwnRowClaims \/ outOfTurn'
        BY <4>1
      <4>5. \A s \in Runs \ parted : swapped[s] \subseteq {s} \cup parted
        BY <3>2, <4>1 DEF OwnRowClaims
      <4>6. OwnRowClaims'
        BY <1>2, <4>5 DEF OwnRowClaims
      <4> QED
        BY <4>2, <4>3, <4>6 DEF InTurn
    <3> QED
      BY <3>1, <3>2
  <2> QED
    BY <1>6, <1>8, <2>1, <2>2, <2>3, <2>4
<1>10. CASE r # None /\ ~UNCHANGED <<reg, bub, screen, settled>>
  <2>1. PICK b : b = [bub[r] EXCEPT !.sent = <<>>, !.replace = TRUE, !.pending = repair.text]
    OBVIOUS
  <2>2. PICK f : f = Flushed(r, b, TRUE)
    OBVIOUS
  <2>3. /\ bub' = [bub EXCEPT ![r] = f.run] /\ reg' = f.reg
        /\ screen' = [screen EXCEPT ![r] = f.view] /\ settled' = settled
    BY <1>1, <1>10, <2>1, <2>2 DEF Reopen, Shows, router, page
  <2>4. r \in Runs /\ phase[r] # "waiting"
    BY <1>1, <1>3, <1>10 DEF HistoryTrue
  <2>5. /\ bub \in [Runs -> Bubble] /\ screen[r] \in View /\ reg \in Runs \cup {None}
        /\ bub[r] \in Bubble
    <3>1. bub \in [Runs -> Bubble] /\ screen[r] \in View /\ reg \in Runs \cup {None}
      BY <2>4 DEF BubbleTypeOK, Bubble, View
    <3> QED
      BY <2>4, <3>1
  <2>6. /\ b \in Bubble /\ b.started = bub[r].started /\ b.settle = bub[r].settle
        /\ b.flush = bub[r].flush
    BY <1>3, <2>1, <2>5, NothingHeld DEF Bubble
  <2>7. /\ f.run \in Bubble /\ f.reg \in Runs \cup {None} /\ f.view \in View
        /\ f.run.pending = NoText
        /\ Quiet(r, b, f) \/ TooLate(r, b, f) \/ Paints(r, b, TRUE, f)
    BY <2>2, <2>4, <2>5, <2>6, FlushEffect
  <2>8. b.flush => b.started
    <3>1. BubbleSound(r)
      BY <2>4 DEF RouterSound
    <3> QED
      BY <2>6, <3>1 DEF BubbleSound
  <2>9. BubbleTypeOK'
    <3>1. bub' \in [Runs -> Bubble] /\ reg' \in Runs \cup {None} /\ screen' \in [Runs -> View]
      BY <2>3, <2>4, <2>7, ShowsTyped
    <3> QED
      BY <1>2, <1>4, <1>5, <2>3, <3>1 DEF BubbleTypeOK, View, Bubble
  <2>10. RouterSound'
    BY <1>2, <1>7, <2>3, <2>4, <2>6, <2>7, <2>8, FlushSound
  <2>11. bub'[r] = f.run /\ \A s \in Runs \ {r} : bub'[s] = bub[s]
    BY <2>3, <2>4, <2>5
  <2>12. f.run.settle => bub[r].settle
    <3>1. CASE Quiet(r, b, f) \/ Paints(r, b, TRUE, f)
      BY <2>6, <3>1 DEF Quiet, Paints
    <3>2. CASE TooLate(r, b, f)
      BY <3>2 DEF TooLate, Forgotten, NoRun
    <3> QED
      BY <2>7, <3>1, <3>2
  <2>13. ~outOfTurn' => phase[r] = "running"
    <3>1. phase[r] \in {"waiting", "running", "over"}
      BY <2>4 DEF BubbleTypeOK
    <3> QED
      BY <1>2, <1>10, <2>4, <3>1
  <2>14. ~outOfTurn' => Awaited(r)'
    BY <1>2, <2>13 DEF Awaited
  <2>15. InTurn' /\ Elements'
    BY <1>2, <1>7, <2>3, <2>4, <2>6, <2>7, <2>11, <2>12, <2>13, <2>14, FlushKeeps
  <2> QED
    BY <1>6, <1>8, <2>9, <2>10, <2>15
<1> QED
  BY <1>1, <1>9, <1>10 DEF Reopen, router, page

LEMMA BubblesBegin ==
    ASSUME BubbleInit
    PROVE  BubbleInv
<1> USE DEF BubbleInit
<1>1. /\ Len(Speech) \in Nat /\ \A r \in Runs : Len(Speech[r]) \in Nat /\ r > 0
  BY SpeechWords, SpeechAssumption, LenProperties DEF None
<1>2. \A kind, r : ~Queued(kind, r)
  BY DEF Queued
<1>3. Blank \in View /\ Blank.elements = 0 /\ ~Blank.live
  BY NothingHeld DEF Blank, View
<1>4. NoRepair \in [stage : {"no", "due", "read"}, rows : SUBSET Runs,
                    run : Runs \cup {None}, text : Wordings]
  BY NothingHeld DEF NoRepair
<1>5. NoRun \in Bubble /\ NoRun.pending = NoText /\ ~NoRun.flush /\ ~NoRun.started /\ ~NoRun.settle
  BY NothingHeld DEF NoRun
<1>6. BubbleTypeOK
  <2>1. /\ bub \in [Runs -> Bubble] /\ screen \in [Runs -> View]
        /\ repair \in [stage : {"no", "due", "read"}, rows : SUBSET Runs,
                       run : Runs \cup {None}, text : Wordings]
    BY <1>3, <1>4, <1>5
  <2>2. queue \in Seq([kind : Kinds, run : Runs, upto : Nat]) /\ Len(queue) <= MaxQueue
    BY BubbleBounds
  <2>3. turnsBegun \in 0..Len(Speech) /\ cuts \in 0..MaxCuts /\ reloads \in 0..MaxReloads
    BY <1>1, BubbleBounds
  <2>4. /\ phase \in [Runs -> {"waiting", "running", "over"}]
        /\ ending \in [Runs -> Endings \cup {"none"}]
        /\ owes \in [Runs -> SUBSET {"row", "final", "answer"}]
        /\ dones \in [Runs -> Nat] /\ swapped \in [Runs -> SUBSET Runs]
    OBVIOUS
  <2>5. said \in [Runs -> Nat] /\ \A r \in Runs : said[r] <= Len(Speech[r])
    BY <1>1
  <2> QED
    BY <2>1, <2>2, <2>3, <2>4, <2>5 DEF BubbleTypeOK, Bubble, View
<1>7. RunsInHand
  BY <1>1 DEF RunsInHand
<1>8. EventsInOrder
  BY DEF EventsInOrder
<1>9. HistoryTrue /\ LostAreParted
  BY DEF HistoryTrue, NoRepair, LostAreParted
<1>10. RouterSound
  BY <1>5, NoneIsNoRun DEF RouterSound, BubbleSound
<1>11. LandedSaid /\ Promised
  BY <1>2 DEF LandedSaid, Promised, WordsQueued
<1>12. Elements
  BY <1>3 DEF Elements
<1>13. InTurn
  <2>1. OneByOne
    BY <1>1, NoneIsNoRun DEF OneByOne
  <2> QED
    BY <1>3, <2>1 DEF InTurn, EndsOnce, OwnRowClaims, OnScreen
<1> QED
  BY <1>6, <1>7, <1>8, <1>9, <1>10, <1>11, <1>12, <1>13 DEF BubbleInv

LEMMA BubblesRest ==
    ASSUME BubbleInv, UNCHANGED bubbleVars
    PROVE  BubbleInv'
<1>1. UNCHANGED <<phase, ending, said, owes, queue, up, repair, turn, turnsBegun, landed, reg, bub,
                  screen, settled, dones, swapped, parted, outOfTurn, ahead, partial, stopped,
                  reopened, cuts, reloads>>
  BY DEF bubbleVars, gateway, router, page, past
<1>2. BubbleTypeOK' /\ RunsInHand' /\ EventsInOrder' /\ HistoryTrue' /\ LostAreParted'
  <2>1. BubbleTypeOK'
    BY <1>1 DEF BubbleInv, BubbleTypeOK
  <2>2. RunsInHand' /\ HistoryTrue' /\ LostAreParted'
    BY <1>1 DEF BubbleInv, RunsInHand, HistoryTrue, LostAreParted
  <2>3. EventsInOrder'
    BY <1>1 DEF BubbleInv, EventsInOrder, EventSound
  <2> QED
    BY <2>1, <2>2, <2>3
<1>3. \A kind, s : Queued(kind, s)' <=> Queued(kind, s)
  BY <1>1, SameQueue
<1>4. RouterSound'
  BY <1>1, <1>3, RouterStays DEF BubbleInv
<1>5. LandedSaid' /\ Promised'
  BY <1>1, <1>3 DEF BubbleInv, LandedSaid, Promised, WordsQueued
<1>6. InTurn' /\ Elements'
  BY <1>1, <1>3, TurnsStay
<1> QED
  BY <1>2, <1>4, <1>5, <1>6 DEF BubbleInv

LEMMA BubblesStep ==
    ASSUME BubbleInv, [BubbleNext]_bubbleVars
    PROVE  BubbleInv'
<1>1. CASE Begin
  BY <1>1, BeginKeeps
<1>2. CASE \E r \in Runs : Say(r)
  BY <1>2, SayKeeps
<1>3. CASE \E r \in Runs : Finish(r)
  BY <1>3, FinishKeeps
<1>4. CASE \E r \in Runs, kind \in {"row", "final"} : SendEnd(r, kind)
  BY <1>4, SendEndKeeps
<1>5. CASE Pump
  BY <1>5, PumpKeeps
<1>6. CASE \E r \in Runs : FlushLater(r)
  BY <1>6, FlushLaterKeeps
<1>7. CASE \E r \in Runs : Settle(r)
  BY <1>7, SettleKeeps
<1>8. CASE Answer \/ TurnFails
  BY <1>8, AnswerKeeps, TurnFailsKeeps
<1>9. CASE Cut \/ Reconnect \/ ReadHistory
  BY <1>9, CutKeeps, ReconnectKeeps, ReadHistoryKeeps
<1>10. CASE Replay \/ Reopen \/ Reload
  BY <1>10, ReplayKeeps, ReopenKeeps, ReloadKeeps
<1>11. CASE Rest \/ UNCHANGED bubbleVars
  BY <1>11, BubblesRest DEF Rest
<1> QED
  BY <1>1, <1>2, <1>3, <1>4, <1>5, <1>6, <1>7, <1>8, <1>9, <1>10, <1>11 DEF BubbleNext

LEMMA BubblesInHand == Bubbles => []BubbleInv
BY BubblesBegin, BubblesStep, PTL DEF Bubbles

-----------------------------------------------------------------------------
(* The theorems                                                             *)

\* A bubble has one element, one end and its own row, however rows, timers,
\* late chunks and a catch-up race for it.
THEOREM OneBubble == Bubbles => []BubblesAccounted
<1>1. BubbleInv => BubblesAccounted
  <2> SUFFICES ASSUME BubbleInv PROVE BubblesAccounted
    OBVIOUS
  <2>1. OneElementPerBubble
    BY DEF BubbleInv, Elements, OneElementPerBubble
  <2>2. OneEndPerBubble /\ OwnRowClaims
    BY DEF BubbleInv, InTurn, EndsOnce, OneEndPerBubble, OwnRowClaims
  <2> QED
    BY <2>1, <2>2 DEF BubbleInv, BubblesAccounted
<1> QED
  BY <1>1, BubblesInHand, PTL

\* A reply that is a row of the thread is not on the screen as a bubble too.
THEOREM ShownOnce == Bubbles => []NoSecondCopy
<1>1. BubbleInv => NoSecondCopy
  <2> SUFFICES ASSUME BubbleInv, ~outOfTurn,
                      NEW r \in landed \ (ahead \cup parted \cup stopped)
               PROVE  screen[r].elements = 0
    BY DEF NoSecondCopy
  <2>1. r \in Runs \ (parted \cup stopped) /\ screen[r].elements \in Nat
    BY DEF BubbleInv, BubbleTypeOK
  <2>2. OneByOne /\ OnScreen
    BY DEF BubbleInv, InTurn
  <2>3. reg # r
    BY <2>2 DEF OneByOne
  <2>4. ~(screen[r].elements > 0)
    BY <2>1, <2>2, <2>3 DEF OnScreen
  <2> QED
    BY <2>1, <2>4
<1> QED
  BY <1>1, BubblesInHand, PTL

-----------------------------------------------------------------------------
(* What the words of a bubble stand on                                      *)

(* A way to hear run r: h[i] tokens after i of the events on their way, and *)
(* after all of them what was said.                                         *)
Heard(r) ==
    {h \in [0 .. Len(queue) -> 0 .. said[r]] :
        /\ h[Len(queue)] = said[r]
        /\ \A i \in 1 .. Len(queue) :
              IF queue[i].kind = "delta" /\ queue[i].run = r
              THEN h[i] = queue[i].upto /\ h[i - 1] = HeardBefore(r, queue[i].upto)
              ELSE h[i] = h[i - 1]}

(* What is sent of a bubble b is the beginning of what was received, unless *)
(* it is to start over with something to show.                              *)
Received(r, k, b) ==
    /\ b.raw \in {NoText, Text(r, k)}
    /\ b.pending \in {NoText, b.raw}
    /\ b.started => b.raw # NoText
    /\ k = 0 => b.raw = NoText
    /\ b.replace => b.raw # NoText /\ b.raw # <<>> /\ b.raw[1] # Open
    /\ b.raw # NoText /\ ~b.replace => IsPrefix(b.sent, Clean(b.raw))
    /\ b.pending = NoText /\ b.raw # NoText => b.sent = Clean(b.raw) /\ ~b.replace
    /\ ~b.started => b.sent = <<>>

(* What the page holds of it is what was sent; a bubble the router forgot   *)
(* is not taken up again before the text starts over.                       *)
OnPage(r, k, b) ==
    /\ k = 0 => screen[r].elements = 0
    /\ r \notin settled /\ reg = r => screen[r].live /\ screen[r].text = b.sent
    /\ r \notin settled /\ ~b.started /\ screen[r].elements > 0 => b.raw = NoText \/ b.replace
    /\ r \in settled => screen[r].elements = 0

Follows(r, k) ==
    Received(r, k, bub[r]) /\ OnPage(r, k, bub[r]) /\ (bub[r].replace => bub[r].started)

WordsOf(r) == SaidBySomeMoment(r) /\ \E h \in Heard(r) : Follows(r, h[0])

Ordinary == Runs \ (TakesBackInSilence \cup parted \cup reopened \cup partial \cup stopped)

WordsFollow == \A r \in Ordinary : WordsOf(r)

LEMMA HeardStays ==
    ASSUME NEW r \in Runs, queue' = queue, said'[r] = said[r]
    PROVE  Heard(r)' = Heard(r)
BY DEF Heard

\* One event more: nothing more is heard of r unless it is r's delta.
LEMMA HeardMore ==
    ASSUME BubbleTypeOK, NEW r \in Runs, NEW e \in Event, Sends(e), NEW h \in Heard(r),
           said'[r] \in Nat, said[r] <= said'[r],
           IF up /\ e.kind = "delta" /\ e.run = r
           THEN said'[r] = e.upto /\ said[r] = HeardBefore(r, e.upto)
           ELSE said'[r] = said[r]
    PROVE  \E g \in Heard(r)' : g[0] = h[0]
<1>1. queue \in Seq(Event) /\ Len(queue) \in Nat /\ said[r] \in Nat
  BY QueueType DEF BubbleTypeOK
<1>2. /\ h \in [0 .. Len(queue) -> 0 .. said[r]] /\ h[Len(queue)] = said[r]
      /\ \A i \in 1 .. Len(queue) :
            IF queue[i].kind = "delta" /\ queue[i].run = r
            THEN h[i] = queue[i].upto /\ h[i - 1] = HeardBefore(r, queue[i].upto)
            ELSE h[i] = h[i - 1]
  BY DEF Heard
<1>3. CASE ~up
  <2>1. queue' = queue /\ said'[r] = said[r]
    BY <1>3, SentEvent
  <2>2. h \in Heard(r)'
    BY <2>1, HeardStays
  <2> QED
    BY <2>2
<1>4. CASE up
  <2>1. /\ Len(queue') = Len(queue) + 1
        /\ \A i \in 1 .. Len(queue) : queue'[i] = queue[i]
        /\ queue'[Len(queue) + 1] = e
    BY <1>4, SentEvent
  <2>2. PICK n \in Nat : n = Len(queue)
    BY <1>1
  <2> DEFINE g == [i \in 0 .. n + 1 |-> IF i = n + 1 THEN said'[r] ELSE h[i]]
  <2>3. g \in [0 .. n + 1 -> 0 .. said'[r]]
    <3> SUFFICES ASSUME NEW i \in 0 .. n + 1
                 PROVE  (IF i = n + 1 THEN said'[r] ELSE h[i]) \in 0 .. said'[r]
      OBVIOUS
    <3>1. CASE i = n + 1
      BY <3>1
    <3>2. CASE i # n + 1
      <4>1. i \in 0 .. Len(queue)
        BY <2>2, <3>2
      <4>2. h[i] \in 0 .. said[r]
        BY <1>2, <4>1
      <4> QED
        BY <1>1, <3>2, <4>2
    <3> QED
      BY <3>1, <3>2
  <2>4. g[n + 1] = said'[r] /\ \A i \in 0 .. n : g[i] = h[i]
    BY <2>2
  <2> HIDE DEF g
  <2>5. ASSUME NEW i \in 1 .. n + 1
        PROVE  IF queue'[i].kind = "delta" /\ queue'[i].run = r
               THEN g[i] = queue'[i].upto /\ g[i - 1] = HeardBefore(r, queue'[i].upto)
               ELSE g[i] = g[i - 1]
    <3>1. CASE i = n + 1
      <4>1. n + 1 - 1 = n /\ n \in 0 .. n
        BY <2>2
      <4>2. queue'[i] = e /\ g[i] = said'[r] /\ g[i - 1] = said[r]
        BY <1>2, <2>1, <2>2, <2>4, <3>1, <4>1
      <4> QED
        BY <1>4, <4>2
    <3>2. CASE i # n + 1
      <4>1. i \in 1 .. Len(queue) /\ i \in 0 .. n /\ i - 1 \in 0 .. n
        BY <2>2, <3>2
      <4>2. queue'[i] = queue[i] /\ g[i] = h[i] /\ g[i - 1] = h[i - 1]
        BY <2>1, <2>4, <4>1
      <4> QED
        BY <1>2, <4>1, <4>2
    <3> QED
      BY <3>1, <3>2
  <2>6. g \in Heard(r)'
    BY <2>1, <2>2, <2>3, <2>4, <2>5 DEF Heard
  <2>7. g[0] = h[0]
    BY <2>4
  <2> QED
    BY <2>6, <2>7
<1> QED
  BY <1>3, <1>4

\* The first event is heard.
LEMMA HeardFirst ==
    ASSUME BubbleTypeOK, queue # <<>>, queue' = Tail(queue), NEW r \in Runs, NEW h \in Heard(r),
           said'[r] = said[r]
    PROVE  /\ \E g \in Heard(r)' : g[0] = h[1]
           /\ h[1] \in 0 .. said[r]
           /\ IF Head(queue).kind = "delta" /\ Head(queue).run = r
              THEN h[1] = Head(queue).upto /\ h[0] = HeardBefore(r, Head(queue).upto)
              ELSE h[1] = h[0]
<1>1. queue \in Seq(Event) /\ Len(queue) \in Nat /\ said[r] \in Nat
  BY QueueType DEF BubbleTypeOK
<1>2. /\ h \in [0 .. Len(queue) -> 0 .. said[r]] /\ h[Len(queue)] = said[r]
      /\ \A i \in 1 .. Len(queue) :
            IF queue[i].kind = "delta" /\ queue[i].run = r
            THEN h[i] = queue[i].upto /\ h[i - 1] = HeardBefore(r, queue[i].upto)
            ELSE h[i] = h[i - 1]
  BY DEF Heard
<1>3. /\ Head(queue) = queue[1] /\ Len(queue') = Len(queue) - 1 /\ Len(queue) >= 1
      /\ \A i \in 1 .. Len(queue) - 1 : queue'[i] = queue[i + 1]
  BY TakenEvent
<1>4. PICK n \in Nat : n = Len(queue) - 1
  <2>1. Len(queue) - 1 \in Nat
    BY <1>1, <1>3
  <2> QED
    BY <2>1, Zenon
<1>5. Len(queue) = n + 1 /\ Len(queue') = n
  BY <1>1, <1>3, <1>4
<1> DEFINE g == [i \in 0 .. n |-> h[i + 1]]
<1>6. g \in [0 .. n -> 0 .. said[r]]
  <2> SUFFICES ASSUME NEW i \in 0 .. n PROVE h[i + 1] \in 0 .. said[r]
    OBVIOUS
  <2>1. i + 1 \in 0 .. Len(queue)
    BY <1>5
  <2> QED
    BY <1>2, <2>1
<1>7. \A i \in 0 .. n : g[i] = h[i + 1]
  OBVIOUS
<1> HIDE DEF g
<1>8. g[n] = said[r] /\ g[0] = h[1]
  <2>1. g[n] = h[n + 1] /\ g[0] = h[0 + 1] /\ 0 + 1 = 1
    BY <1>7
  <2> QED
    BY <1>2, <1>5, <2>1
<1>9. ASSUME NEW i \in 1 .. n
      PROVE  IF queue'[i].kind = "delta" /\ queue'[i].run = r
             THEN g[i] = queue'[i].upto /\ g[i - 1] = HeardBefore(r, queue'[i].upto)
             ELSE g[i] = g[i - 1]
  <2>1. i + 1 \in 1 .. Len(queue) /\ i \in 1 .. Len(queue) - 1 /\ i \in 0 .. n /\ i - 1 \in 0 .. n
    BY <1>5
  <2>2. i - 1 + 1 = i /\ i + 1 - 1 = i
    OBVIOUS
  <2>3. queue'[i] = queue[i + 1] /\ g[i] = h[i + 1] /\ g[i - 1] = h[i]
    BY <1>3, <1>7, <2>1, <2>2
  <2>4. IF queue[i + 1].kind = "delta" /\ queue[i + 1].run = r
        THEN h[i + 1] = queue[i + 1].upto /\ h[i] = HeardBefore(r, queue[i + 1].upto)
        ELSE h[i + 1] = h[i]
    BY <1>2, <2>1, <2>2
  <2> QED
    BY <2>3, <2>4
<1>10. g \in Heard(r)'
  BY <1>5, <1>6, <1>8, <1>9 DEF Heard
<1>11. 1 \in 1 .. Len(queue) /\ 1 \in 0 .. Len(queue) /\ 1 - 1 = 0
  BY <1>5
<1>12. IF queue[1].kind = "delta" /\ queue[1].run = r
       THEN h[1] = queue[1].upto /\ h[0] = HeardBefore(r, queue[1].upto)
       ELSE h[1] = h[0]
  BY <1>2, <1>11
<1> QED
  BY <1>2, <1>3, <1>8, <1>10, <1>11, <1>12

\* A loss that took no event of r took nothing of what r said.
LEMMA HeardKept ==
    ASSUME BubbleTypeOK, NEW r \in Runs, NEW h \in Heard(r), said'[r] = said[r],
           NEW keep \in 0 .. Len(queue), Len(queue') = keep,
           \A i \in 1 .. keep : queue'[i] = queue[i],
           \A i \in keep + 1 .. Len(queue) : queue[i].run # r
    PROVE  \E g \in Heard(r)' : g[0] = h[0]
<1>1. queue \in Seq(Event) /\ Len(queue) \in Nat /\ said[r] \in Nat
  BY QueueType DEF BubbleTypeOK
<1>2. /\ h \in [0 .. Len(queue) -> 0 .. said[r]] /\ h[Len(queue)] = said[r]
      /\ \A i \in 1 .. Len(queue) :
            IF queue[i].kind = "delta" /\ queue[i].run = r
            THEN h[i] = queue[i].upto /\ h[i - 1] = HeardBefore(r, queue[i].upto)
            ELSE h[i] = h[i - 1]
  BY DEF Heard
<1>3. h[keep] = said[r]
  <2> DEFINE S == {i \in keep .. Len(queue) : h[i] # h[keep]}
  <2>1. S = {}
    <3> SUFFICES ASSUME S # {} PROVE FALSE
      OBVIOUS
    <3>1. S \in SUBSET Nat
      BY <1>1
    <3>2. PICK m \in S : \A i \in S : m <= i
      BY <3>1, NatMinimum
    <3>3. m \in keep + 1 .. Len(queue) /\ m - 1 \in keep .. Len(queue) /\ m \in 1 .. Len(queue)
          /\ ~(m <= m - 1)
      BY <1>1
    <3>4. h[m] = h[m - 1]
      BY <1>2, <3>3
    <3>5. m - 1 \notin S
      BY <3>2, <3>3
    <3> QED
      BY <3>3, <3>4, <3>5
  <2>2. Len(queue) \in keep .. Len(queue)
    BY <1>1
  <2> QED
    BY <1>2, <2>1, <2>2
<1> DEFINE g == [i \in 0 .. keep |-> h[i]]
<1>4. g \in [0 .. keep -> 0 .. said[r]]
  <2> SUFFICES ASSUME NEW i \in 0 .. keep PROVE h[i] \in 0 .. said[r]
    OBVIOUS
  <2>1. i \in 0 .. Len(queue)
    BY <1>1
  <2> QED
    BY <1>2, <2>1
<1>5. \A i \in 0 .. keep : g[i] = h[i]
  OBVIOUS
<1> HIDE DEF g
<1>6. g[keep] = said[r] /\ g[0] = h[0]
  <2>1. keep \in 0 .. keep /\ 0 \in 0 .. keep
    BY <1>1
  <2> QED
    BY <1>3, <1>5, <2>1
<1>7. ASSUME NEW i \in 1 .. keep
      PROVE  IF queue'[i].kind = "delta" /\ queue'[i].run = r
             THEN g[i] = queue'[i].upto /\ g[i - 1] = HeardBefore(r, queue'[i].upto)
             ELSE g[i] = g[i - 1]
  <2>1. i \in 1 .. Len(queue) /\ i \in 0 .. keep /\ i - 1 \in 0 .. keep
    BY <1>1
  <2>2. queue'[i] = queue[i] /\ g[i] = h[i] /\ g[i - 1] = h[i - 1]
    BY <1>5, <2>1
  <2> QED
    BY <1>2, <2>1, <2>2
<1>8. g \in Heard(r)'
  BY <1>4, <1>6, <1>7 DEF Heard
<1> QED
  BY <1>6, <1>8

\* A step that leaves a run's bubble as it is, and hears nothing of it.
LEMMA FollowsStays ==
    ASSUME NEW r \in Runs, NEW k, Follows(r, k), bub'[r] = bub[r], screen'[r] = screen[r],
           r \in settled' <=> r \in settled, reg' = r => reg = r
    PROVE  Follows(r, k)'
BY DEF Follows, Received, OnPage

LEMMA SaidStays ==
    ASSUME BubbleTypeOK, NEW r \in Runs, SaidBySomeMoment(r),
           \/ screen'[r] = screen[r] \/ ~(screen'[r].elements > 0)
           \/ \E j \in 0 .. said[r] : screen'[r].text = Clean(Text(r, j)),
           said'[r] \in Nat, said[r] <= said'[r]
    PROVE  SaidBySomeMoment(r)'
<1>1. said[r] \in Nat
  BY DEF BubbleTypeOK
<1>2. \A j \in 0 .. said[r] : j \in 0 .. said'[r]
  BY <1>1
<1> SUFFICES ASSUME screen'[r].elements > 0
             PROVE  \E j \in 0 .. said'[r] : screen'[r].text = Clean(Text(r, j))
  BY DEF SaidBySomeMoment
<1>3. PICK j \in 0 .. said[r] : screen'[r].text = Clean(Text(r, j))
  BY DEF SaidBySomeMoment
<1> QED
  BY <1>2, <1>3

LEMMA WordsStay ==
    ASSUME BubbleTypeOK, NEW r \in Runs, WordsOf(r), queue' = queue, said'[r] = said[r],
           bub'[r] = bub[r], screen'[r] = screen[r],
           r \in settled' <=> r \in settled, reg' = r => reg = r
    PROVE  WordsOf(r)'
<1>1. PICK h \in Heard(r) : Follows(r, h[0])
  BY DEF WordsOf
<1>2. Follows(r, h[0])'
  BY <1>1, FollowsStays
<1>3. SaidBySomeMoment(r)'
  <2>1. said[r] \in Nat
    BY DEF BubbleTypeOK
  <2> QED
    BY <2>1, SaidStays DEF WordsOf
<1> QED
  BY <1>2, <1>3, HeardStays DEF WordsOf

\* What a flush leaves of a bubble follows what was received, and what it
\* paints is what the text received so far shows.
LEMMA FlushFollows ==
    ASSUME NEW r \in Runs, NEW k \in 0 .. Len(Speech[r]), NEW b \in Bubble, NEW force \in BOOLEAN,
           Received(r, k, b), OnPage(r, k, b),
           screen[r] \in View, screen[r].live <=> screen[r].elements = 1,
           NEW f, f = Flushed(r, b, force)
    PROVE  /\ Received(r, k, f.run) /\ ~f.run.replace
           /\ k = 0 => f.view.elements = 0
           /\ r \notin settled /\ f.reg = r => f.view.live /\ f.view.text = f.run.sent
           /\ r \notin settled /\ ~f.run.started /\ f.view.elements > 0 => f.run.raw = NoText
           /\ r \in settled => f.view.elements = 0
           /\ f.view = screen[r] \/ f.view.text = Clean(Text(r, k))
<1> DEFINE clean == Clean(b.pending)
           extends == ~b.replace /\ IsPrefix(b.sent, clean)
           chunk == IF extends THEN SubSeq(clean, Len(b.sent) + 1, Len(clean)) ELSE clean
           held == [b EXCEPT !.pending = NoText, !.replace = FALSE, !.sent = clean]
           painted == [held EXCEPT !.started = TRUE, !.flush = @ \/ ~force]
           view == Painted(r, screen[r], chunk, ~extends)
<1>1. /\ b.pending = NoText => f.run = b /\ f.reg = reg /\ f.view = screen[r]
      /\ b.pending # NoText /\ (clean = b.sent \/ chunk = <<>>) =>
            f.run = held /\ f.reg = reg /\ f.view = screen[r]
      /\ b.pending # NoText /\ ~(clean = b.sent \/ chunk = <<>>) /\ b.started /\ reg # r =>
            f.run = Forgotten /\ f.reg = reg /\ f.view = screen[r]
      /\ b.pending # NoText /\ ~(clean = b.sent \/ chunk = <<>>) /\ ~(b.started /\ reg # r) =>
            f.run = painted /\ f.reg = (IF b.started THEN reg ELSE r) /\ f.view = view
  BY DEF Flushed
<1>2. /\ b.raw \in Wordings /\ b.pending \in Wordings /\ b.sent \in Wordings
      /\ screen[r].elements \in Nat /\ screen[r].text \in Wordings
      /\ b.started \in BOOLEAN /\ b.replace \in BOOLEAN
  BY DEF Bubble, View
<1>3. clean \in Wordings
  BY <1>2, CleanType DEF Wordings
<1>4. /\ held.raw = b.raw /\ held.pending = NoText /\ held.sent = clean /\ held.started = b.started
      /\ ~held.replace
      /\ painted.raw = b.raw /\ painted.pending = NoText /\ painted.sent = clean /\ painted.started
      /\ ~painted.replace
  BY DEF Bubble
<1>5. extends => b.sent \o chunk = clean /\ (chunk = <<>> => clean = b.sent)
  <2> SUFFICES ASSUME extends PROVE b.sent \o chunk = clean /\ (chunk = <<>> => clean = b.sent)
    OBVIOUS
  <2>1. chunk = SubSeq(clean, Len(b.sent) + 1, Len(clean)) /\ IsPrefix(b.sent, clean)
    OBVIOUS
  <2> HIDE DEF clean, extends, chunk, held, painted, view
  <2>2. /\ b.sent \o SubSeq(clean, Len(b.sent) + 1, Len(clean)) = clean
        /\ SubSeq(clean, Len(b.sent) + 1, Len(clean)) = <<>> => clean = b.sent
    <3>1. PICK A : Wordings = Seq(A)
      BY Zenon DEF Wordings
    <3>2. PICK p \in Seq(A) : p = b.sent
      BY <1>2, <3>1
    <3>3. PICK q \in Seq(A) : q = clean
      BY <1>3, <3>1
    <3>4. IsPrefix(p, q)
      BY <2>1, <3>2, <3>3, Zenon
    <3>5. /\ p \o SubSeq(q, Len(p) + 1, Len(q)) = q
          /\ SubSeq(q, Len(p) + 1, Len(q)) = <<>> => q = p
      BY <3>4, PrefixRest
    <3> QED
      BY <3>2, <3>3, <3>5, Zenon
  <2> QED
    BY <2>1, <2>2
<1> HIDE DEF held, painted
<1>6. b.pending # NoText => b.pending = b.raw /\ b.raw = Text(r, k) /\ clean = Clean(Text(r, k))
  BY DEF Received
<1>7. b.pending # NoText => b.replace \/ extends
  BY <1>6 DEF Received
<1>8. b.replace => b.raw # NoText /\ Clean(b.raw) # <<>>
  <2> SUFFICES ASSUME b.replace PROVE b.raw # NoText /\ Clean(b.raw) # <<>>
    OBVIOUS
  <2>1. b.raw # NoText /\ b.raw # <<>> /\ b.raw[1] # Open
    BY DEF Received
  <2> QED
    BY <1>2, <2>1, CleanBegins DEF Wordings
<1>9. IsPrefix(clean, clean)
  <2>1. Len(clean) \in Nat
    BY <1>3, LenProperties DEF Wordings
  <2> QED
    BY <1>3, <2>1, PrefixIs DEF Wordings
<1>10. view = IF r \in settled THEN screen[r]
              ELSE [Started(screen[r]) EXCEPT !.text = IF ~extends THEN chunk ELSE @ \o chunk]
  BY DEF Painted
<1>11. ~extends => chunk = clean
  OBVIOUS
<1> HIDE DEF clean, extends, chunk, view
<1>12. CASE b.pending = NoText
  <2>1. f.run = b /\ f.reg = reg /\ f.view = screen[r]
    BY <1>1, <1>12
  <2>2. ~b.replace
    BY <1>12 DEF Received
  <2> QED
    BY <2>1, <2>2 DEF OnPage
<1>13. CASE b.pending # NoText /\ (clean = b.sent \/ chunk = <<>>)
  <2>1. f.run = held /\ f.reg = reg /\ f.view = screen[r]
    BY <1>1, <1>13
  <2>2. clean = b.sent
    <3>1. CASE extends
      BY <1>5, <1>13, <3>1
    <3>2. CASE ~extends
      <4>1. clean # <<>>
        BY <1>6, <1>7, <1>8, <1>13, <3>2 DEF clean
      <4> QED
        BY <1>11, <1>13, <3>2, <4>1
    <3> QED
      BY <3>1, <3>2
  <2>3. b.raw # NoText /\ clean = Clean(b.raw)
    BY <1>6, <1>13 DEF clean
  <2>4. Received(r, k, held)
    BY <1>4, <1>9, <2>2, <2>3 DEF Received
  <2>5. r \notin settled /\ ~b.started => ~(screen[r].elements > 0)
    <3> SUFFICES ASSUME r \notin settled, ~b.started, screen[r].elements > 0 PROVE FALSE
      OBVIOUS
    <3>1. b.replace
      BY <2>3 DEF OnPage
    <3>2. b.sent = <<>>
      BY DEF Received
    <3> QED
      BY <1>8, <2>2, <2>3, <3>1, <3>2
  <2> QED
    BY <1>4, <2>1, <2>2, <2>4, <2>5 DEF OnPage
<1>14. CASE b.pending # NoText /\ ~(clean = b.sent \/ chunk = <<>>) /\ b.started /\ reg # r
  <2>1. f.run = NoRun /\ f.reg = reg /\ f.view = screen[r]
    BY <1>1, <1>14 DEF Forgotten
  <2>2. /\ NoRun.raw = NoText /\ NoRun.pending = NoText /\ NoRun.sent = <<>>
        /\ ~NoRun.replace /\ ~NoRun.started
    BY DEF NoRun
  <2>3. Received(r, k, NoRun)
    BY <2>2 DEF Received
  <2> QED
    BY <1>14, <2>1, <2>2, <2>3 DEF OnPage
<1>15. CASE b.pending # NoText /\ ~(clean = b.sent \/ chunk = <<>>) /\ ~(b.started /\ reg # r)
  <2>1. f.run = painted /\ f.view = view
    BY <1>1, <1>15
  <2>2. b.raw # NoText /\ clean = Clean(b.raw) /\ b.raw = Text(r, k)
    BY <1>6, <1>15 DEF clean
  <2>3. k # 0
    BY <2>2 DEF Received
  <2>4. Received(r, k, painted)
    BY <1>4, <1>9, <2>2, <2>3 DEF Received
  <2>5. CASE r \in settled
    <3>1. view = screen[r]
      BY <1>10, <2>5
    <3> QED
      BY <1>4, <2>1, <2>3, <2>4, <2>5, <3>1 DEF OnPage
  <2>6. CASE r \notin settled
    <3>1. PICK v : v = Started(screen[r])
      OBVIOUS
    <3>2. /\ v \in View /\ v.live
          /\ screen[r].live => v = screen[r]
          /\ ~screen[r].live => v.text = <<>>
      BY <3>1, NothingHeld DEF Started, View
    <3>3. view = [v EXCEPT !.text = IF ~extends THEN chunk ELSE v.text \o chunk]
      BY <1>10, <2>6, <3>1
    <3>4. view.live /\ view.text = (IF ~extends THEN chunk ELSE v.text \o chunk)
      BY <3>2, <3>3 DEF View
    <3>5. extends => v.text = b.sent
      <4> SUFFICES ASSUME extends PROVE v.text = b.sent
        OBVIOUS
      <4>1. CASE b.started
        <5>1. reg = r
          BY <1>15, <4>1
        <5>2. screen[r].live /\ screen[r].text = b.sent
          BY <2>6, <5>1 DEF OnPage
        <5> QED
          BY <3>2, <5>2
      <4>2. CASE ~b.started
        <5>1. b.sent = <<>>
          BY <4>2 DEF Received
        <5>2. ~(screen[r].elements > 0)
          <6>1. ~b.replace
            BY DEF extends
          <6> QED
            BY <2>2, <2>6, <4>2, <6>1 DEF OnPage
        <5>3. screen[r].live => v.text = <<>>
          BY <2>6, <4>2, <5>2
        <5> QED
          BY <3>2, <5>1, <5>3
      <4> QED
        BY <1>2, <4>1, <4>2
    <3>6. view.text = clean
      BY <1>5, <1>11, <3>4, <3>5
    <3> QED
      BY <1>4, <2>1, <2>2, <2>3, <2>4, <2>6, <3>4, <3>6
  <2> QED
    BY <2>5, <2>6
<1> QED
  BY <1>12, <1>13, <1>14, <1>15

\* A row retires the thread's open bubble and leaves every other.
LEMMA FollowsRow ==
    ASSUME BubbleTypeOK, Elements, NEW x, Lands(x), NEW r \in Runs \ stopped, NEW k, Follows(r, k),
           bub'[r] = bub[r]
    PROVE  Follows(r, k)' /\ (screen'[r] = screen[r] \/ ~(screen'[r].elements > 0))
<1>1. /\ screen \in [Runs -> View] /\ reg \in Runs \cup {None} /\ r # None
  BY NoneIsNoRun DEF BubbleTypeOK, View
<1>2. CASE x \in landed \/ reg = None
  <2>1. screen' = screen /\ settled' = settled /\ reg' \in {reg, None}
    BY <1>2 DEF Lands, page, Taken
  <2> QED
    BY <1>1, <2>1, FollowsStays
<1>3. CASE x \notin landed /\ reg # None /\ reg # r
  <2>1. screen'[r] = screen[r] /\ (r \in settled' <=> r \in settled) /\ reg' = None
    BY <1>1, <1>3 DEF Lands, Taken, Done
  <2> QED
    BY <1>1, <2>1, FollowsStays
<1>4. CASE x \notin landed /\ reg = r
  <2>1. screen'[r] = Retired(screen[r]) /\ r \in settled' /\ reg' = None
    BY <1>1, <1>4 DEF Lands, Taken, Done
  <2>2. screen[r].elements \in Nat /\ screen[r].elements <= 1
    BY <1>1 DEF Elements, View
  <2>3. screen'[r].elements = 0
    BY <2>1, <2>2 DEF Retired
  <2> QED
    BY <2>1, <2>3 DEF Follows, Received, OnPage
<1> QED
  BY <1>2, <1>3, <1>4

\* A step that hears nothing and leaves the bubbles, but for what it retires.
LEMMA WordsKept ==
    ASSUME BubbleTypeOK, WordsFollow, queue' = queue, said' = said,
           parted \subseteq parted', reopened \subseteq reopened',
           partial \subseteq partial', stopped \subseteq stopped',
           \A r \in Ordinary' : \A k : Follows(r, k) =>
               /\ Follows(r, k)'
               /\ screen'[r] = screen[r] \/ ~(screen'[r].elements > 0)
    PROVE  WordsFollow'
<1> SUFFICES ASSUME NEW r \in Ordinary' PROVE WordsOf(r)'
  BY DEF WordsFollow
<1>1. r \in Ordinary /\ r \in Runs
  BY DEF Ordinary
<1>2. WordsOf(r)
  BY <1>1 DEF WordsFollow
<1>3. PICK h \in Heard(r) : Follows(r, h[0])
  BY <1>2 DEF WordsOf
<1>4. Follows(r, h[0])' /\ (screen'[r] = screen[r] \/ ~(screen'[r].elements > 0))
  BY <1>3
<1>5. said[r] \in Nat /\ said'[r] = said[r]
  BY <1>1 DEF BubbleTypeOK
<1>6. SaidBySomeMoment(r)'
  BY <1>1, <1>2, <1>4, <1>5, SaidStays DEF WordsOf
<1>7. h \in Heard(r)'
  BY <1>1, <1>5, HeardStays
<1> QED
  BY <1>4, <1>6, <1>7 DEF WordsOf

LEMMA QuietWords ==
    ASSUME BubbleInv, WordsFollow,
           Begin \/ Reconnect \/ ReadHistory \/ (\E r \in Runs : Finish(r)) \/ UNCHANGED bubbleVars
    PROVE  WordsFollow'
<1>1. UNCHANGED <<said, queue, bub, reg, screen, settled, parted, reopened, partial, stopped>>
  BY DEF Begin, Reconnect, ReadHistory, Finish, bubbleVars, gateway, router, page, past
<1>2. \A r \in Runs : \A k : Follows(r, k) => Follows(r, k)'
  BY <1>1, FollowsStays
<1>3. Ordinary' \subseteq Runs
  BY DEF Ordinary
<1> QED
  BY <1>1, <1>2, <1>3, WordsKept DEF BubbleInv

LEMMA LandingWords ==
    ASSUME BubbleInv, WordsFollow, NEW x, Lands(x),
           UNCHANGED <<said, queue, bub, parted, reopened, partial, stopped>>
    PROVE  WordsFollow'
<1>1. \A r \in Runs \ stopped : \A k : Follows(r, k) =>
          Follows(r, k)' /\ (screen'[r] = screen[r] \/ ~(screen'[r].elements > 0))
  BY FollowsRow DEF BubbleInv
<1>2. Ordinary' \subseteq Runs \ stopped
  BY DEF Ordinary
<1> QED
  BY <1>1, <1>2, WordsKept DEF BubbleInv

LEMMA ErrorWords ==
    ASSUME BubbleInv, WordsFollow, ErrorFrame,
           UNCHANGED <<said, queue, bub, parted, reopened, partial>>
    PROVE  WordsFollow'
<1>1. /\ screen' = [r \in Runs |-> Frozen(screen[r])]
      /\ stopped' = stopped \cup {r \in Runs : screen[r].live}
      /\ UNCHANGED <<reg, settled>>
  BY DEF ErrorFrame
<1>2. ASSUME NEW r \in Ordinary' PROVE r \in Runs /\ screen'[r] = screen[r]
  <2>1. r \in Runs /\ ~screen[r].live /\ screen[r] \in View
    BY <1>1, <1>2 DEF Ordinary, BubbleInv, BubbleTypeOK, View
  <2>2. Frozen(screen[r]) = screen[r]
    BY <2>1 DEF Frozen, View
  <2> QED
    BY <1>1, <2>1, <2>2
<1>3. \A r \in Ordinary' : \A k : Follows(r, k) => Follows(r, k)'
  BY <1>1, <1>2, FollowsStays
<1> QED
  BY <1>1, <1>2, <1>3, WordsKept DEF BubbleInv

LEMMA TurnWords ==
    ASSUME BubbleInv, WordsFollow, Answer \/ TurnFails \/ Replay
    PROVE  WordsFollow'
<1>1. UNCHANGED <<said, queue, bub, parted, reopened, partial>>
  BY DEF Answer, TurnFails, Replay, gateway
<1>2. CASE (\E x : Lands(x)) /\ UNCHANGED stopped
  BY <1>1, <1>2, LandingWords
<1>3. CASE ErrorFrame
  BY <1>1, <1>3, ErrorWords
<1>4. CASE UNCHANGED <<reg, screen, settled, stopped>>
  <2>1. \A r \in Runs : \A k : Follows(r, k) => Follows(r, k)'
    BY <1>1, <1>4, FollowsStays
  <2>2. Ordinary' \subseteq Runs
    BY DEF Ordinary
  <2> QED
    BY <1>1, <1>4, <2>1, <2>2, WordsKept DEF BubbleInv
<1>5. ((\E x : Lands(x)) /\ UNCHANGED stopped) \/ ErrorFrame \/ UNCHANGED <<reg, screen, settled, stopped>>
  BY DEF Answer, TurnFails, Replay, page
<1> QED
  BY <1>2, <1>3, <1>4, <1>5

LEMMA ReloadWords ==
    ASSUME BubbleInv, WordsFollow, Reload
    PROVE  WordsFollow'
<1>1. /\ screen' = [r \in Runs |-> Blank] /\ settled' = {}
      /\ partial' = partial \cup {r \in Runs : reg = r \/ ~Through(r)}
      /\ UNCHANGED <<said, queue, reg, bub, parted, reopened, stopped>>
  BY DEF Reload, gateway, router
<1>2. ASSUME NEW r \in Ordinary' PROVE r \in Runs /\ reg # r /\ screen'[r] = Blank
  BY <1>1, <1>2 DEF Ordinary
<1>3. ASSUME NEW r \in Ordinary', NEW k, Follows(r, k) PROVE Follows(r, k)' /\ ~(screen'[r].elements > 0)
  <2>1. screen'[r].elements = 0 /\ reg' # r /\ bub' = bub
    BY <1>1, <1>2, <1>3 DEF Blank
  <2> QED
    BY <1>3, <2>1 DEF Follows, Received, OnPage
<1> QED
  BY <1>1, <1>3, WordsKept DEF BubbleInv

LEMMA SettleWords ==
    ASSUME BubbleInv, WordsFollow, NEW x \in Runs, Settle(x)
    PROVE  WordsFollow'
<1>1. /\ bub' = [bub EXCEPT ![x] = NoRun]
      /\ IF reg = x THEN reg' = None /\ Done(x) ELSE UNCHANGED <<reg, screen, settled, dones>>
      /\ UNCHANGED <<said, queue, parted, reopened, partial, stopped>>
  BY DEF Settle, Owned, Forgotten, gateway, page
<1>2. /\ screen \in [Runs -> View] /\ bub \in [Runs -> Bubble] /\ settled \subseteq Runs
      /\ None \notin Runs
  BY NoneIsNoRun DEF BubbleInv, BubbleTypeOK, View, Bubble
<1>3. ASSUME NEW r \in Ordinary', NEW k, Follows(r, k)
      PROVE  Follows(r, k)' /\ (screen'[r] = screen[r] \/ ~(screen'[r].elements > 0))
  <2>1. r \in Runs \ stopped
    BY <1>1, <1>3 DEF Ordinary
  <2>2. CASE r # x
    <3>1. /\ bub'[r] = bub[r] /\ screen'[r] = screen[r] /\ (r \in settled' <=> r \in settled)
          /\ reg' = r => reg = r
      BY <1>1, <1>2, <2>1, <2>2 DEF Done
    <3> QED
      BY <1>3, <2>1, <3>1, FollowsStays
  <2>3. CASE r = x
    <3>1. /\ bub'[r] = NoRun /\ NoRun.raw = NoText /\ NoRun.pending = NoText /\ NoRun.sent = <<>>
          /\ ~NoRun.replace /\ ~NoRun.started
      BY <1>1, <1>2, <2>3 DEF NoRun
    <3>2. Received(r, k, NoRun)
      BY <3>1 DEF Received
    <3>3. screen[r].elements \in Nat /\ screen[r].elements <= 1
      BY <1>2, <2>1 DEF BubbleInv, Elements, View
    <3>4. reg' # r /\ ((screen'[r] = screen[r] /\ settled' = settled) \/ screen'[r].elements = 0)
      BY <1>1, <1>2, <2>1, <2>3, <3>3 DEF Done, Retired
    <3>5. Received(r, k, bub[r])' /\ OnPage(r, k, bub[r])'
      BY <1>3, <3>1, <3>2, <3>4 DEF Follows, OnPage, Received
    <3> QED
      BY <3>1, <3>4, <3>5 DEF Follows
  <2> QED
    BY <2>2, <2>3
<1> QED
  BY <1>1, <1>3, WordsKept DEF BubbleInv

\* What was sent is on its way: the words of its own run that were just said.
LEMMA SentWords ==
    ASSUME BubbleInv, WordsFollow, NEW e \in Event, Sends(e),
           UNCHANGED <<bub, reg, screen, settled, parted, reopened, partial, stopped>>,
           \A r \in Ordinary :
              /\ said'[r] \in Nat /\ said[r] <= said'[r]
              /\ IF up /\ e.kind = "delta" /\ e.run = r
                 THEN said'[r] = e.upto /\ said[r] = HeardBefore(r, e.upto)
                 ELSE said'[r] = said[r]
    PROVE  WordsFollow'
<1> USE DEF BubbleInv
<1> SUFFICES ASSUME NEW r \in Ordinary' PROVE WordsOf(r)'
  BY DEF WordsFollow
<1>1. r \in Ordinary /\ r \in Runs
  BY DEF Ordinary
<1>2. WordsOf(r)
  BY <1>1 DEF WordsFollow
<1>3. PICK h \in Heard(r) : Follows(r, h[0])
  BY <1>2 DEF WordsOf
<1>4. PICK g \in Heard(r)' : g[0] = h[0]
  BY <1>1, HeardMore
<1>5. Follows(r, g[0])'
  BY <1>1, <1>3, <1>4, FollowsStays
<1>6. SaidBySomeMoment(r)'
  BY <1>1, <1>2, SaidStays DEF WordsOf
<1> QED
  BY <1>5, <1>6 DEF WordsOf

LEMMA SayWords ==
    ASSUME BubbleInv, WordsFollow, NEW x \in Runs, Say(x)
    PROVE  WordsFollow'
<1> USE DEF BubbleInv
<1>1. PICK k : k = IF Speech[x][said[x] + 1] = Replace THEN said[x] + 2 ELSE said[x] + 1
  OBVIOUS
<1>2. PICK e : e = [kind |-> "delta", run |-> x, upto |-> k]
  OBVIOUS
<1>3. /\ phase[x] = "running" /\ said[x] < Len(Speech[x]) /\ said' = [said EXCEPT ![x] = k]
      /\ Sends(e)
      /\ UNCHANGED <<bub, reg, screen, settled, parted, reopened, partial, stopped>>
  BY <1>1, <1>2 DEF Say, router, page, past
<1>4. said \in [Runs -> Nat] /\ said[x] \in Nat /\ k \in Nat /\ said[x] < k
  <2>1. said \in [Runs -> Nat] /\ said[x] \in Nat
    BY DEF BubbleTypeOK
  <2>2. CASE k = said[x] + 2
    BY <2>1, <2>2
  <2>3. CASE k = said[x] + 1
    BY <2>1, <2>3
  <2> QED
    BY <1>1, <2>1, <2>2, <2>3
<1>5. e \in Event /\ e.kind = "delta" /\ e.run = x /\ e.upto = k
  BY <1>2, <1>4 DEF Event, Kinds
<1>6. said[x] = HeardBefore(x, k)
  <2>1. CASE Speech[x][said[x] + 1] = Replace
    <3>1. k = said[x] + 2 /\ k > 1 /\ k - 1 = said[x] + 1 /\ k - 2 = said[x]
      BY <1>1, <1>4, <2>1
    <3> QED
      BY <2>1, <3>1 DEF HeardBefore
  <2>2. CASE Speech[x][said[x] + 1] # Replace
    <3>1. k = said[x] + 1 /\ k - 1 = said[x] /\ (k > 1 => said[x] > 0)
      BY <1>1, <1>4, <2>2
    <3>2. k > 1 => Speech[x][k - 1] # Replace
      BY <3>1 DEF RunsInHand
    <3> QED
      BY <3>1, <3>2 DEF HeardBefore
  <2> QED
    BY <2>1, <2>2
<1>7. ASSUME NEW r \in Ordinary
      PROVE  /\ said'[r] \in Nat /\ said[r] <= said'[r]
             /\ IF up /\ e.kind = "delta" /\ e.run = r
                THEN said'[r] = e.upto /\ said[r] = HeardBefore(r, e.upto)
                ELSE said'[r] = said[r]
  <2>1. r \in Runs /\ r \notin parted
    BY DEF Ordinary
  <2>2. CASE r # x
    BY <1>3, <1>4, <1>5, <2>1, <2>2
  <2>3. CASE r = x
    <3>1. up
      BY <1>3, <2>1, <2>3 DEF LostAreParted
    <3> QED
      BY <1>3, <1>4, <1>5, <1>6, <2>1, <2>3, <3>1
  <2> QED
    BY <2>2, <2>3
<1> QED
  BY <1>3, <1>5, <1>7, SentWords

LEMMA SendEndWords ==
    ASSUME BubbleInv, WordsFollow, NEW x \in Runs, NEW kind \in {"row", "final"}, SendEnd(x, kind)
    PROVE  WordsFollow'
<1> USE DEF BubbleInv
<1>1. PICK e : e = [kind |-> kind, run |-> x, upto |-> said[x]]
  OBVIOUS
<1>2. /\ Sends(e)
      /\ UNCHANGED <<said, bub, reg, screen, settled, parted, reopened, partial, stopped>>
  BY <1>1 DEF SendEnd, router, page, past
<1>3. said \in [Runs -> Nat] /\ said[x] \in Nat
  BY DEF BubbleTypeOK
<1>4. e \in Event /\ e.kind # "delta"
  BY <1>1, <1>3 DEF Event, Kinds
<1>5. \A r \in Ordinary : said'[r] \in Nat /\ said[r] <= said'[r] /\ said'[r] = said[r]
  BY <1>2, <1>3 DEF Ordinary
<1> QED
  BY <1>2, <1>4, <1>5, SentWords

LEMMA CutWords ==
    ASSUME BubbleInv, WordsFollow, Cut
    PROVE  WordsFollow'
<1> USE DEF BubbleInv
<1>1. PICK keep \in 0 .. Len(queue) :
          /\ queue' = SubSeq(queue, 1, keep)
          /\ parted' = parted \cup {r \in Runs : phase[r] = "running" \/ owes[r] # {}}
                         \cup {queue[i].run : i \in (keep + 1)..Len(queue)}
  BY DEF Cut
<1>2. UNCHANGED <<said, bub, reg, screen, settled, reopened, partial, stopped>>
  BY DEF Cut, gateway, router, page
<1>3. {queue[i].run : i \in (keep + 1)..Len(queue)} \subseteq parted'
  BY <1>1
<1>4. /\ Len(queue') = keep /\ \A i \in 1 .. keep : queue'[i] = queue[i]
      /\ \A i \in keep + 1 .. Len(queue) : queue[i].run \in parted'
  BY <1>1, <1>3, KeptEvents
<1> SUFFICES ASSUME NEW r \in Ordinary' PROVE WordsOf(r)'
  BY DEF WordsFollow
<1>5. r \in Ordinary /\ r \in Runs /\ r \notin parted'
  BY <1>1, <1>2 DEF Ordinary
<1>6. WordsOf(r)
  BY <1>5 DEF WordsFollow
<1>7. PICK h \in Heard(r) : Follows(r, h[0])
  BY <1>6 DEF WordsOf
<1>8. \A i \in keep + 1 .. Len(queue) : queue[i].run # r
  BY <1>4, <1>5
<1>9. PICK g \in Heard(r)' : g[0] = h[0]
  BY <1>2, <1>4, <1>5, <1>8, HeardKept
<1>10. Follows(r, g[0])'
  BY <1>2, <1>5, <1>7, <1>9, FollowsStays
<1>11. said[r] \in Nat
  BY <1>5 DEF BubbleTypeOK
<1>12. SaidBySomeMoment(r)'
  BY <1>2, <1>5, <1>6, <1>11, SaidStays DEF WordsOf
<1> QED
  BY <1>10, <1>12 DEF WordsOf

\* A flush of a bubble that follows what was received leaves one that does.
LEMMA FlushedWords ==
    ASSUME BubbleInv, NEW r \in Runs \ stopped, NEW k \in 0 .. said[r], NEW b \in Bubble,
           NEW force \in BOOLEAN, Received(r, k, b), OnPage(r, k, b), SaidBySomeMoment(r),
           NEW f, f = Flushed(r, b, force),
           bub'[r] = f.run \/ (bub'[r] = Armed(f.run) /\ f.run \in Bubble),
           reg' = f.reg, screen' = [screen EXCEPT ![r] = f.view], UNCHANGED <<settled, said>>
    PROVE  Follows(r, k)' /\ SaidBySomeMoment(r)'
<1> USE DEF BubbleInv
<1>1. /\ screen \in [Runs -> View] /\ said[r] \in Nat /\ said[r] <= Len(Speech[r])
      /\ Len(Speech[r]) \in Nat
  BY SpeechWords DEF BubbleTypeOK, View
<1>2. k \in 0 .. Len(Speech[r])
  BY <1>1
<1>3. screen[r] \in View /\ (screen[r].live <=> screen[r].elements = 1)
  BY <1>1 DEF Elements
<1>4. /\ Received(r, k, f.run) /\ ~f.run.replace
      /\ k = 0 => f.view.elements = 0
      /\ r \notin settled /\ f.reg = r => f.view.live /\ f.view.text = f.run.sent
      /\ r \notin settled /\ ~f.run.started /\ f.view.elements > 0 => f.run.raw = NoText
      /\ r \in settled => f.view.elements = 0
      /\ f.view = screen[r] \/ f.view.text = Clean(Text(r, k))
  BY <1>2, <1>3, FlushFollows
<1>5. screen'[r] = f.view
  BY <1>1
<1>6. SaidBySomeMoment(r)'
  BY <1>1, <1>4, <1>5, SaidStays
<1>7. CASE bub'[r] = f.run
  <2>1. Received(r, k, bub[r])'
    BY <1>4, <1>7 DEF Received
  <2>2. OnPage(r, k, bub[r])'
    BY <1>4, <1>5, <1>7 DEF OnPage
  <2> QED
    BY <1>4, <1>6, <1>7, <2>1, <2>2 DEF Follows
<1>8. CASE bub'[r] = Armed(f.run) /\ f.run \in Bubble
  <2>1. CASE f.run.started
    <3>1. /\ bub'[r].raw = f.run.raw /\ bub'[r].pending = f.run.pending
          /\ bub'[r].sent = f.run.sent /\ bub'[r].started = f.run.started
          /\ bub'[r].replace = f.run.replace
      BY <1>8, <2>1 DEF Armed, Bubble
    <3> QED
      <4>1. Received(r, k, bub[r])'
        BY <1>4, <3>1 DEF Received
      <4>2. OnPage(r, k, bub[r])'
        BY <1>4, <1>5, <3>1 DEF OnPage
      <4> QED
        BY <1>4, <1>6, <3>1, <4>1, <4>2 DEF Follows
  <2>2. CASE ~f.run.started
    <3>1. /\ bub'[r].raw = NoText /\ bub'[r].pending = NoText /\ bub'[r].sent = <<>>
          /\ ~bub'[r].started /\ ~bub'[r].replace
      BY <1>8, <2>2 DEF Armed, Forgotten, NoRun
    <3>2. f.run.sent = <<>>
      BY <1>4, <2>2 DEF Received
    <3> QED
      <4>1. Received(r, k, bub[r])'
        BY <3>1 DEF Received
      <4>2. OnPage(r, k, bub[r])'
        BY <1>4, <1>5, <3>1, <3>2 DEF OnPage
      <4> QED
        BY <1>6, <3>1, <4>1, <4>2 DEF Follows
  <2> QED
    BY <2>1, <2>2
<1> QED
  BY <1>6, <1>7, <1>8

LEMMA FlushLaterWords ==
    ASSUME BubbleInv, WordsFollow, NEW x \in Runs, FlushLater(x)
    PROVE  WordsFollow'
<1> USE DEF BubbleInv
<1>1. PICK b : b = [bub[x] EXCEPT !.flush = FALSE]
  OBVIOUS
<1>2. PICK f : f = Flushed(x, b, FALSE)
  OBVIOUS
<1>3. /\ bub[x].flush
      /\ bub' = [bub EXCEPT ![x] = f.run] /\ reg' = f.reg /\ screen' = [screen EXCEPT ![x] = f.view]
      /\ UNCHANGED <<said, queue, settled, parted, reopened, partial, stopped>>
  BY <1>1, <1>2 DEF FlushLater, Shows, gateway, past
<1>4. /\ bub \in [Runs -> Bubble] /\ screen \in [Runs -> View] /\ reg \in Runs \cup {None}
      /\ said \in [Runs -> Nat]
  BY DEF BubbleTypeOK, Bubble, View
<1>5. /\ b \in Bubble /\ b.started = bub[x].started /\ b.raw = bub[x].raw /\ b.sent = bub[x].sent
      /\ b.pending = bub[x].pending /\ b.replace = bub[x].replace
  <2>1. bub[x] \in Bubble
    BY <1>4
  <2> QED
    BY <1>1, <2>1 DEF Bubble
<1>6. reg' \in {reg, x} /\ bub'[x] = f.run
  <2>1. Quiet(x, b, f) \/ TooLate(x, b, f) \/ Paints(x, b, FALSE, f)
    BY <1>2, <1>4, <1>5, FlushEffect
  <2> QED
    BY <1>3, <1>4, <2>1 DEF Quiet, TooLate, Paints
<1> SUFFICES ASSUME NEW r \in Ordinary' PROVE WordsOf(r)'
  BY DEF WordsFollow
<1>7. r \in Ordinary /\ r \in Runs \ stopped
  BY <1>3 DEF Ordinary
<1>8. WordsOf(r)
  BY <1>7 DEF WordsFollow
<1>9. CASE r # x
  <2>1. queue' = queue /\ said'[r] = said[r] /\ (reg' = r => reg = r)
    BY <1>3, <1>6, <1>9
  <2>2. bub'[r] = bub[r] /\ screen'[r] = screen[r] /\ (r \in settled' <=> r \in settled)
    BY <1>3, <1>4, <1>7, <1>9
  <2> QED
    BY <1>7, <1>8, <2>1, <2>2, WordsStay
<1>10. CASE r = x
  <2>1. PICK h \in Heard(r) : Follows(r, h[0])
    BY <1>8 DEF WordsOf
  <2>2. h[0] \in 0 .. said[r]
    BY <1>7, QueueType DEF Heard
  <2>3. Received(r, h[0], b) /\ OnPage(r, h[0], b)
    BY <1>5, <1>10, <2>1 DEF Follows, Received, OnPage
  <2>4. Follows(r, h[0])' /\ SaidBySomeMoment(r)'
    BY <1>2, <1>3, <1>5, <1>6, <1>7, <1>8, <1>10, <2>2, <2>3, FlushedWords DEF WordsOf
  <2>5. h \in Heard(r)'
    BY <1>3, <1>7, HeardStays
  <2> QED
    BY <2>4, <2>5 DEF WordsOf
<1> QED
  BY <1>9, <1>10

LEMMA ReopenWords ==
    ASSUME BubbleInv, WordsFollow, Reopen
    PROVE  WordsFollow'
<1> USE DEF BubbleInv
<1>1. PICK x : x = repair.run
  OBVIOUS
<1>2. /\ reopened' = reopened \cup ({x} \ {None})
      /\ UNCHANGED <<said, queue, parted, partial, stopped>>
  BY <1>1 DEF Reopen, gateway
<1>3. x \in Runs \cup {None} /\ repair.text \in Wordings
  BY <1>1 DEF BubbleTypeOK
<1>4. /\ bub \in [Runs -> Bubble] /\ screen \in [Runs -> View] /\ reg \in Runs \cup {None}
      /\ None \notin Runs
  BY NoneIsNoRun DEF BubbleTypeOK, Bubble, View
<1>5. ASSUME NEW r \in Ordinary'
      PROVE  /\ r \in Runs /\ bub'[r] = bub[r] /\ screen'[r] = screen[r] /\ settled' = settled
             /\ reg' = r => reg = r
  <2>1. r \in Runs /\ r # x
    BY <1>2, <1>4, <1>5 DEF Ordinary
  <2>2. CASE UNCHANGED <<reg, bub, screen, settled>>
    BY <2>1, <2>2
  <2>3. CASE ~UNCHANGED <<reg, bub, screen, settled>>
    <3>1. PICK b : b = [bub[x] EXCEPT !.sent = <<>>, !.replace = TRUE, !.pending = repair.text]
      OBVIOUS
    <3>2. PICK f : f = Flushed(x, b, TRUE)
      OBVIOUS
    <3>3. /\ bub' = [bub EXCEPT ![x] = f.run] /\ reg' = f.reg
          /\ screen' = [screen EXCEPT ![x] = f.view] /\ settled' = settled
          /\ x # None
      BY <1>1, <2>3, <3>1, <3>2 DEF Reopen, Shows, router, page
    <3>4. x \in Runs /\ bub[x] \in Bubble /\ screen[x] \in View
      BY <1>3, <1>4, <3>3
    <3>5. b \in Bubble
      BY <1>3, <3>1, <3>4, NothingHeld DEF Bubble
    <3>6. Quiet(x, b, f) \/ TooLate(x, b, f) \/ Paints(x, b, TRUE, f)
      BY <1>4, <3>2, <3>4, <3>5, FlushEffect
    <3>7. reg' \in {reg, x}
      BY <3>3, <3>6 DEF Quiet, TooLate, Paints
    <3> QED
      BY <1>4, <2>1, <3>3, <3>7
  <2> QED
    BY <2>2, <2>3
<1>6. \A r \in Ordinary' : \A k : Follows(r, k) => Follows(r, k)'
  BY <1>5, FollowsStays
<1> QED
  BY <1>2, <1>5, <1>6, WordsKept

\* A delta that is heard: what is received then is what was said then.
LEMMA DeltaReceived ==
    ASSUME NEW r \in Runs \ TakesBackInSilence, NEW k \in 1 .. Len(Speech[r]),
           Speech[r][k] # Replace, bub[r] \in Bubble, Follows(r, HeardBefore(r, k)),
           bub[r].flush => bub[r].started,
           NEW text, text = Merged(bub[r].raw, r, k), text # NoText,
           NEW b, b = [bub[r] EXCEPT !.raw = text, !.pending = text,
                          !.replace = @ \/ (k > 1 /\ Speech[r][k - 1] = Replace)]
    PROVE  /\ Received(r, k, b) /\ OnPage(r, k, b)
           /\ b.flush => (b.replace => b.started)
<1> DEFINE restarts == k > 1 /\ Speech[r][k - 1] = Replace
           raw == bub[r].raw
<1>1. /\ b.raw = text /\ b.pending = text /\ b.sent = bub[r].sent /\ b.started = bub[r].started
      /\ b.flush = bub[r].flush /\ b.replace = (bub[r].replace \/ restarts)
  BY DEF Bubble
<1>2. /\ Received(r, HeardBefore(r, k), bub[r]) /\ OnPage(r, HeardBefore(r, k), bub[r])
      /\ bub[r].replace => bub[r].started
  BY DEF Follows
<1>3. raw \in Wordings /\ bub[r].sent \in Wordings
  BY DEF Bubble
<1>4. raw \in {NoText, Text(r, HeardBefore(r, k))} /\ (HeardBefore(r, k) = 0 => raw = NoText)
  BY <1>2 DEF Received
<1>5. /\ text \in {NoText, Text(r, k)}
      /\ restarts => text = <<Speech[r][k]>>
      /\ raw # NoText /\ ~restarts => text = Append(raw, Speech[r][k])
      /\ HeardBefore(r, k) \in 0 .. k - 1
  <2>1. PICK w : w = bub[r].raw
    OBVIOUS
  <2>2. w \in {NoText, Text(r, HeardBefore(r, k))} /\ (HeardBefore(r, k) = 0 => w = NoText)
    BY <1>4, <2>1
  <2>3. /\ Merged(w, r, k) \in {NoText, Text(r, k)}
        /\ k > 1 /\ Speech[r][k - 1] = Replace => Merged(w, r, k) = <<Speech[r][k]>>
        /\ w # NoText /\ ~(k > 1 /\ Speech[r][k - 1] = Replace) =>
              Merged(w, r, k) = Append(w, Speech[r][k])
        /\ HeardBefore(r, k) \in 0 .. k - 1
    BY <2>2, MergedIs
  <2>4. text = Merged(w, r, k)
    BY <2>1
  <2> QED
    BY <2>1, <2>3, <2>4
<1>6. k # 0 /\ Speech[r][k] \in STRING \cup {"none"}
  BY SpeechWords
<1>7. restarts => Speech[r][k] # Open
  <2> SUFFICES ASSUME restarts PROVE Speech[r][k] # Open
    OBVIOUS
  <2>1. k - 1 \in DOMAIN Speech[r] /\ (k - 1) + 1 = k
    BY SpeechWords
  <2>2. Speech[r][(k - 1) + 1] # Open
    BY <2>1 DEF TakesBackInSilence
  <2> QED
    BY <2>1, <2>2
<1>8. raw # NoText => /\ IsPrefix(Clean(raw), Clean(Append(raw, Speech[r][k])))
                      /\ Append(raw, Speech[r][k]) \in Wordings
                      /\ raw # <<>> => Append(raw, Speech[r][k])[1] = raw[1]
                      /\ Append(raw, Speech[r][k]) # <<>>
  <2>1. PICK A : Wordings = Seq(A) /\ Speech[r][k] \in A
    BY <1>6, Zenon DEF Wordings
  <2>2. raw \in Seq(A)
    BY <1>3, <2>1
  <2> HIDE DEF raw
  <2>3. IsPrefix(Clean(raw), Clean(Append(raw, Speech[r][k])))
    BY <2>1, <2>2, CleanAppend
  <2>4. /\ Append(raw, Speech[r][k]) \in Seq(A)
        /\ Len(Append(raw, Speech[r][k])) = Len(raw) + 1
        /\ \A i \in 1 .. Len(raw) : Append(raw, Speech[r][k])[i] = raw[i]
    BY <2>1, <2>2, AppendProperties
  <2>5. Len(raw) \in Nat /\ (raw # <<>> => Len(raw) # 0)
    BY <2>2, EmptySeq, LenProperties
  <2>6. raw # <<>> => 1 \in 1 .. Len(raw)
    BY <2>5
  <2>7. Append(raw, Speech[r][k]) # <<>>
    BY <2>4, <2>5
  <2> QED
    BY <2>1, <2>3, <2>4, <2>6, <2>7
<1> HIDE DEF raw, restarts
<1>9. b.replace => text # <<>> /\ text[1] # Open
  <2>1. CASE restarts
    <3>1. PICK word : word = Speech[r][k]
      OBVIOUS
    <3>2. text = <<word>> /\ word # Open
      BY <1>5, <1>7, <2>1, <3>1
    <3> QED
      BY <3>2
  <2>2. CASE ~restarts
    <3> SUFFICES ASSUME bub[r].replace PROVE text # <<>> /\ text[1] # Open
      BY <1>1, <2>2
    <3>1. raw # NoText /\ raw # <<>> /\ raw[1] # Open
      BY <1>2 DEF Received, raw
    <3> QED
      BY <1>5, <1>8, <2>2, <3>1
  <2> QED
    BY <2>1, <2>2
<1>10. ~b.replace => IsPrefix(b.sent, Clean(text))
  <2> SUFFICES ASSUME ~b.replace PROVE IsPrefix(bub[r].sent, Clean(text))
    BY <1>1
  <2>1. ~restarts /\ ~bub[r].replace
    BY <1>1
  <2>2. PICK A : Wordings = Seq(A)
    BY Zenon DEF Wordings
  <2>3. CASE raw # NoText
    <3>1. IsPrefix(bub[r].sent, Clean(raw))
      BY <1>2, <2>1, <2>3 DEF Received, raw
    <3>2. text = Append(raw, Speech[r][k])
      BY <1>5, <2>1, <2>3
    <3>3. IsPrefix(Clean(raw), Clean(text)) /\ text \in Wordings
      BY <1>8, <2>3, <3>2
    <3>4. Clean(raw) \in Seq(A) /\ Clean(text) \in Seq(A) /\ bub[r].sent \in Seq(A)
      BY <1>3, <2>2, <3>3, CleanType
    <3> QED
      BY <3>1, <3>3, <3>4, PrefixTransitive
  <2>4. CASE raw = NoText
    <3>1. bub[r].sent = <<>>
      BY <1>2, <2>4 DEF Received, raw
    <3>2. Text(r, k) \in Wordings
      BY SpeechWords, TextType
    <3>3. text \in Seq(A)
      BY <1>5, <2>2, <3>2
    <3>4. Clean(text) \in Seq(A)
      BY <3>3, CleanType
    <3> QED
      BY <3>1, <3>4, PrefixNothing
  <2> QED
    BY <2>3, <2>4
<1>11. Received(r, k, b)
  <2>1. ~b.started => b.sent = <<>>
    BY <1>1, <1>2 DEF Received
  <2> QED
    BY <1>1, <1>5, <1>6, <1>9, <1>10, <2>1 DEF Received
<1>12. OnPage(r, k, b)
  <2>1. ASSUME r \notin settled, ~b.started, screen[r].elements > 0 PROVE b.replace
    <3>1. raw = NoText /\ HeardBefore(r, k) # 0
      <4>1. raw = NoText
        BY <1>1, <1>2, <2>1 DEF OnPage, raw
      <4>2. HeardBefore(r, k) # 0
        BY <1>2, <2>1 DEF OnPage
      <4> QED
        BY <4>1, <4>2
    <3>2. restarts
      <4> SUFFICES ASSUME ~restarts PROVE FALSE
        OBVIOUS
      <4>1. k > 1
        <5>1. HeardBefore(r, k) = k - 1
          BY DEF HeardBefore, restarts
        <5> QED
          BY <3>1, <5>1
      <4>2. Merged(raw, r, k) = NoText
        BY <3>1, <4>1 DEF Merged, restarts
      <4> QED
        BY <4>2 DEF raw
    <3> QED
      BY <1>1, <3>2
  <2> QED
    BY <1>1, <1>2, <1>6, <2>1 DEF OnPage
<1>13. b.flush => (b.replace => b.started)
  BY <1>1
<1> QED
  BY <1>11, <1>12, <1>13

LEMMA PumpDeltaWords ==
    ASSUME BubbleInv, WordsFollow, queue # <<>>, queue' = Tail(queue), Head(queue).kind = "delta",
           HandleDelta(Head(queue)), said' = said
    PROVE  WordsFollow'
<1> USE DEF BubbleInv
<1>1. PICK e \in Event : e = Head(queue)
  BY TakenEvent
<1>2. PICK x \in Runs : x = e.run
  BY DEF Event
<1>3. PICK k : k = e.upto
  OBVIOUS
<1>4. PICK text : text = Merged(bub[x].raw, x, k)
  OBVIOUS
<1>5. PICK b : b = [bub[x] EXCEPT !.raw = text, !.pending = text,
                       !.replace = @ \/ (k > 1 /\ Speech[x][k - 1] = Replace)]
  OBVIOUS
<1>6. PICK f : f = Flushed(x, b, FALSE)
  OBVIOUS
<1>7. /\ IF text = NoText THEN UNCHANGED <<reg, bub, screen, settled>>
         ELSE IF b.flush THEN bub' = [bub EXCEPT ![x] = b] /\ UNCHANGED <<reg, screen, settled>>
         ELSE /\ bub' = [bub EXCEPT ![x] = f.run] /\ reg' = f.reg
              /\ screen' = [screen EXCEPT ![x] = f.view] /\ settled' = settled
      /\ UNCHANGED <<parted, partial, stopped, reopened>>
  BY <1>1, <1>2, <1>3, <1>4, <1>5, <1>6 DEF HandleDelta, Shows, past, router, page
<1>8. EventSound(e) /\ k \in 1 .. Len(Speech[x])
  <2>1. queue \in Seq(Event) /\ Len(queue) \in Nat /\ DOMAIN queue = 1 .. Len(queue)
    BY QueueType
  <2>2. Head(queue) = queue[1] /\ Len(queue) >= 1
    BY TakenEvent
  <2>3. EventSound(e)
    BY <1>1, <2>1, <2>2 DEF EventsInOrder
  <2>4. k \in Nat /\ k <= said[x] /\ said[x] \in Nat /\ said[x] <= Len(Speech[x]) /\ k > 0
    BY <1>1, <1>2, <1>3, <2>3 DEF EventSound, BubbleTypeOK, Event
  <2> QED
    BY <2>3, <2>4, SpeechWords
<1>9. Speech[x][k] # Replace /\ e.kind = "delta"
  BY <1>1, <1>2, <1>3, <1>8 DEF EventSound
<1>10. /\ bub \in [Runs -> Bubble] /\ bub[x] \in Bubble /\ screen \in [Runs -> View]
       /\ reg \in Runs \cup {None} /\ screen[x] \in View
  <2>1. bub \in [Runs -> Bubble] /\ screen \in [Runs -> View] /\ reg \in Runs \cup {None}
    BY DEF BubbleTypeOK, Bubble, View
  <2> QED
    BY <2>1
<1>11. text \in Wordings
  BY <1>4, <1>8, <1>10, MergedType DEF Bubble
<1>12. b \in Bubble
  BY <1>5, <1>10, <1>11 DEF Bubble
<1>13. reg' \in {reg, x} /\ settled' = settled /\ \A r \in Runs \ {x} : bub'[r] = bub[r] /\ screen'[r] = screen[r]
  <2>1. Quiet(x, b, f) \/ TooLate(x, b, f) \/ Paints(x, b, FALSE, f)
    BY <1>6, <1>10, <1>12, FlushEffect
  <2>2. f.reg \in {reg, x}
    BY <2>1 DEF Quiet, TooLate, Paints
  <2>3. CASE UNCHANGED <<reg, bub, screen, settled>>
    BY <2>3
  <2>4. CASE bub' = [bub EXCEPT ![x] = b] /\ UNCHANGED <<reg, screen, settled>>
    BY <1>10, <2>4
  <2>5. CASE /\ bub' = [bub EXCEPT ![x] = f.run] /\ reg' = f.reg
             /\ screen' = [screen EXCEPT ![x] = f.view] /\ settled' = settled
    BY <1>10, <2>2, <2>5
  <2> QED
    BY <1>7, <2>3, <2>4, <2>5
<1> SUFFICES ASSUME NEW r \in Ordinary' PROVE WordsOf(r)'
  BY DEF WordsFollow
<1>14. r \in Ordinary /\ r \in Runs \ stopped /\ r \notin TakesBackInSilence
  BY <1>7 DEF Ordinary
<1>15. WordsOf(r) /\ said'[r] = said[r] /\ said[r] \in Nat
  BY <1>14 DEF WordsFollow, BubbleTypeOK
<1>16. PICK h \in Heard(r) : Follows(r, h[0])
  BY <1>15 DEF WordsOf
<1>17. /\ \E g \in Heard(r)' : g[0] = h[1]
       /\ h[1] \in 0 .. said[r]
       /\ IF e.kind = "delta" /\ e.run = r THEN h[1] = k /\ h[0] = HeardBefore(r, k) ELSE h[1] = h[0]
  BY <1>1, <1>3, <1>14, <1>15, HeardFirst
<1>18. PICK g \in Heard(r)' : g[0] = h[1]
  BY <1>17
<1>19. CASE r # x
  <2>1. Follows(r, h[0])'
    BY <1>13, <1>14, <1>16, <1>19, FollowsStays
  <2>2. g[0] = h[0]
    BY <1>2, <1>17, <1>18, <1>19
  <2>3. SaidBySomeMoment(r)'
    BY <1>13, <1>14, <1>15, <1>19, SaidStays DEF WordsOf
  <2> QED
    BY <2>1, <2>2, <2>3 DEF WordsOf
<1>20. CASE r = x
  <2>1. h[1] = k /\ h[0] = HeardBefore(r, k) /\ k \in 0 .. said[r]
    BY <1>2, <1>9, <1>17, <1>20
  <2>2. Follows(r, HeardBefore(r, k))
    BY <1>16, <2>1
  <2>3. bub[r].flush => bub[r].started
    BY <1>14 DEF RouterSound, BubbleSound
  <2>4. Follows(r, k)' /\ SaidBySomeMoment(r)'
    <3>1. CASE text = NoText
      <4>1. UNCHANGED <<reg, bub, screen, settled>>
        BY <1>7, <3>1
      <4>2. bub[r].raw = NoText /\ k > 1
        <5>1. /\ bub[r].raw \in {NoText, Text(r, HeardBefore(r, k))}
              /\ HeardBefore(r, k) = 0 => bub[r].raw = NoText
          BY <2>2 DEF Follows, Received
        <5> QED
          BY <1>4, <1>8, <1>9, <1>20, <3>1, <5>1, MergedIs
      <4>3. Follows(r, k)
        <5>1. k # 0
          BY <4>2
        <5> QED
          BY <2>2, <4>2, <5>1 DEF Follows, Received, OnPage
      <4>4. Follows(r, k)'
        BY <1>14, <4>1, <4>3, FollowsStays
      <4>5. SaidBySomeMoment(r)'
        BY <1>14, <1>15, <4>1, SaidStays DEF WordsOf
      <4> QED
        BY <4>4, <4>5
    <3>2. CASE text # NoText
      <4>1. /\ Received(r, k, b) /\ OnPage(r, k, b)
            /\ b.flush => (b.replace => b.started)
        BY <1>4, <1>5, <1>8, <1>9, <1>10, <1>14, <1>20, <2>2, <2>3, <3>2, DeltaReceived
      <4>2. CASE b.flush
        <5>1. bub'[r] = b /\ UNCHANGED <<reg, screen, settled>>
          BY <1>7, <1>10, <1>20, <3>2, <4>2
        <5>2. Follows(r, k)'
          BY <4>1, <4>2, <5>1 DEF Follows, Received, OnPage
        <5>3. SaidBySomeMoment(r)'
          BY <1>14, <1>15, <5>1, SaidStays DEF WordsOf
        <5> QED
          BY <5>2, <5>3
      <4>3. CASE ~b.flush
        <5>1. /\ bub'[r] = f.run /\ reg' = f.reg
              /\ screen' = [screen EXCEPT ![r] = f.view] /\ UNCHANGED <<settled, said>>
          BY <1>7, <1>10, <1>20, <3>2, <4>3
        <5> QED
          BY <1>6, <1>12, <1>14, <1>15, <1>20, <2>1, <4>1, <5>1, FlushedWords DEF WordsOf
      <4> QED
        BY <4>2, <4>3
    <3> QED
      BY <3>1, <3>2
  <2> QED
    BY <1>18, <2>1, <2>4 DEF WordsOf
<1> QED
  BY <1>19, <1>20

LEMMA PumpEndWords ==
    ASSUME BubbleInv, WordsFollow, queue # <<>>, queue' = Tail(queue), Head(queue).kind # "delta",
           HandleFinal(Head(queue)) \/ HandleRow(Head(queue)), said' = said
    PROVE  WordsFollow'
<1> USE DEF BubbleInv
<1>1. PICK e \in Event : e = Head(queue)
  BY TakenEvent
<1>2. PICK x \in Runs : x = e.run
  BY DEF Event
<1>3. UNCHANGED <<parted, partial, stopped, reopened>>
  BY DEF HandleFinal, HandleRow, past
<1> SUFFICES ASSUME NEW r \in Ordinary' PROVE WordsOf(r)'
  BY DEF WordsFollow
<1>4. r \in Ordinary /\ r \in Runs \ stopped
  BY <1>3 DEF Ordinary
<1>5. WordsOf(r) /\ said'[r] = said[r] /\ said[r] \in Nat
  BY <1>4 DEF WordsFollow, BubbleTypeOK
<1>6. PICK h \in Heard(r) : Follows(r, h[0])
  BY <1>5 DEF WordsOf
<1>7. (\E g \in Heard(r)' : g[0] = h[1]) /\ h[1] = h[0] /\ h[1] \in 0 .. said[r]
  BY <1>1, <1>4, <1>5, HeardFirst
<1>8. PICK g \in Heard(r)' : g[0] = h[0]
  BY <1>7
<1>9. SUFFICES Follows(r, h[0])' /\ SaidBySomeMoment(r)'
  BY <1>8 DEF WordsOf
<1>10. CASE HandleRow(Head(queue))
  <2>1. Lands(x) /\ bub'[r] = bub[r]
    BY <1>1, <1>2, <1>10 DEF HandleRow
  <2>2. Follows(r, h[0])' /\ (screen'[r] = screen[r] \/ ~(screen'[r].elements > 0))
    BY <1>4, <1>6, <2>1, FollowsRow
  <2> QED
    BY <1>4, <1>5, <2>2, SaidStays DEF WordsOf
<1>11. CASE HandleFinal(Head(queue))
  <2>1. PICK b : b = bub[x]
    OBVIOUS
  <2>2. PICK f : f = Flushed(x, b, TRUE)
    OBVIOUS
  <2>3. /\ bub' = [bub EXCEPT ![x] = Armed(f.run)] /\ reg' = f.reg
        /\ screen' = [screen EXCEPT ![x] = f.view] /\ settled' = settled
    <3>1. PICK q : q = [f EXCEPT !.run = Armed(@)]
      OBVIOUS
    <3>2. Shows(x, q)
      BY <1>1, <1>2, <1>11, <2>1, <2>2, <3>1 DEF HandleFinal
    <3>3. q.run = Armed(f.run) /\ q.reg = f.reg /\ q.view = f.view
      BY <2>2, <3>1 DEF Flushed
    <3> QED
      BY <3>2, <3>3 DEF Shows
  <2>4. /\ bub \in [Runs -> Bubble] /\ screen \in [Runs -> View] /\ reg \in Runs \cup {None}
    BY DEF BubbleTypeOK, Bubble, View
  <2>5. b \in Bubble /\ screen[x] \in View
    BY <2>1, <2>4
  <2>6. f.run \in Bubble /\ (Quiet(x, b, f) \/ TooLate(x, b, f) \/ Paints(x, b, TRUE, f))
    BY <2>2, <2>4, <2>5, FlushEffect
  <2>7. CASE r # x
    <3>1. reg' \in {reg, x}
      BY <2>3, <2>6 DEF Quiet, TooLate, Paints
    <3>2. bub'[r] = bub[r] /\ screen'[r] = screen[r] /\ (reg' = r => reg = r)
      BY <1>4, <2>3, <2>4, <2>7, <3>1
    <3>3. Follows(r, h[0])'
      BY <1>4, <1>6, <2>3, <3>2, FollowsStays
    <3> QED
      BY <1>4, <1>5, <3>2, <3>3, SaidStays DEF WordsOf
  <2>8. CASE r = x
    <3>1. Received(r, h[0], b) /\ OnPage(r, h[0], b)
      BY <1>6, <2>1, <2>8 DEF Follows
    <3>2. bub'[r] = Armed(f.run) /\ UNCHANGED <<settled, said>> /\ h[0] \in 0 .. said[r]
      BY <1>4, <1>7, <2>3, <2>4, <2>8
    <3>3. SaidBySomeMoment(r) /\ f = Flushed(r, b, TRUE)
      BY <1>5, <2>2, <2>8 DEF WordsOf
    <3> QED
      BY <1>4, <2>3, <2>5, <2>6, <2>8, <3>1, <3>2, <3>3, FlushedWords
  <2> QED
    BY <2>7, <2>8
<1> QED
  BY <1>10, <1>11

LEMMA PumpWords ==
    ASSUME BubbleInv, WordsFollow, Pump
    PROVE  WordsFollow'
<1>1. queue # <<>> /\ queue' = Tail(queue) /\ said' = said
  BY DEF Pump, gateway
<1>2. CASE Head(queue).kind = "delta" /\ HandleDelta(Head(queue))
  BY <1>1, <1>2, PumpDeltaWords
<1>3. CASE Head(queue).kind # "delta" /\ (HandleFinal(Head(queue)) \/ HandleRow(Head(queue)))
  BY <1>1, <1>3, PumpEndWords
<1> QED
  BY <1>2, <1>3 DEF Pump

LEMMA WordsBegin ==
    ASSUME BubbleInit
    PROVE  WordsFollow
<1> SUFFICES ASSUME NEW r \in Ordinary PROVE WordsOf(r)
  BY DEF WordsFollow
<1>1. r \in Runs
  BY DEF Ordinary
<1> DEFINE h == [i \in 0 .. 0 |-> 0]
<1>2. queue = <<>> /\ Len(queue) = 0 /\ said[r] = 0
  BY <1>1 DEF BubbleInit
<1>3. h \in Heard(r)
  BY <1>2 DEF Heard
<1>4. /\ bub[r] = NoRun /\ screen[r] = Blank /\ settled = {} /\ reg = None /\ r # None
  BY <1>1, NoneIsNoRun DEF BubbleInit
<1>5. Follows(r, h[0]) /\ SaidBySomeMoment(r)
  BY <1>4 DEF Follows, Received, OnPage, NoRun, Blank, SaidBySomeMoment
<1> QED
  BY <1>3, <1>5 DEF WordsOf

LEMMA WordsStep ==
    ASSUME BubbleInv, WordsFollow, [BubbleNext]_bubbleVars
    PROVE  WordsFollow'
<1>1. CASE Begin \/ Reconnect \/ ReadHistory \/ (\E r \in Runs : Finish(r)) \/ Rest \/ UNCHANGED bubbleVars
  BY <1>1, QuietWords DEF Rest
<1>2. CASE \E r \in Runs : Say(r)
  BY <1>2, SayWords
<1>3. CASE \E r \in Runs, kind \in {"row", "final"} : SendEnd(r, kind)
  BY <1>3, SendEndWords
<1>4. CASE Pump
  BY <1>4, PumpWords
<1>5. CASE \E r \in Runs : FlushLater(r)
  BY <1>5, FlushLaterWords
<1>6. CASE \E r \in Runs : Settle(r)
  BY <1>6, SettleWords
<1>7. CASE Answer \/ TurnFails \/ Replay
  BY <1>7, TurnWords
<1>8. CASE Cut \/ Reopen \/ Reload
  BY <1>8, CutWords, ReopenWords, ReloadWords
<1> QED
  BY <1>1, <1>2, <1>3, <1>4, <1>5, <1>6, <1>7, <1>8 DEF BubbleNext

\* What a bubble shows is what the message would have shown of the words
\* said up to some moment.
THEOREM WordsShown == Bubbles => []ShowsWhatWasSaid
<1>1. BubbleInit => BubbleInv /\ WordsFollow
  BY BubblesBegin, WordsBegin
<1>2. BubbleInv /\ WordsFollow /\ [BubbleNext]_bubbleVars => BubbleInv' /\ WordsFollow'
  BY BubblesStep, WordsStep
<1>3. WordsFollow => ShowsWhatWasSaid
  BY DEF WordsFollow, WordsOf, Ordinary, ShowsWhatWasSaid
<1> QED
  BY <1>1, <1>2, <1>3, PTL DEF Bubbles
=============================================================================

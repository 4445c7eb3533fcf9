--------------------------- MODULE ImageJobsProofs ---------------------------
(***************************************************************************)
(* What is proved of ImageJobs, for any requests, any admission limit and  *)
(* any budget: the placeholder tells the row, an ending is final, a submit *)
(* whose answer was lost is not sent again, and the rig holds no more      *)
(* renders than it may.                                                    *)
(***************************************************************************)
EXTENDS ImageJobs, SequenceTheorems, FiniteSetTheorems, TLAPS

(* Where a request stands with the row it is to make.                       *)
RequestsMake ==
    /\ \A j \in Jobs : asker[j].at # "gone" => row[j] = "none"
    /\ \A j \in Jobs : asker[j].at = "adding" => shown[j] = "pending"

(* Of a job without a row nothing is under way.                             *)
Unmade(j) ==
    /\ due[j] = <<>> /\ deleting[j] = Nothing /\ j \notin adopting
    /\ swept[j] = Unread /\ work[j].at = "idle" /\ j \notin lost /\ rigId[j] = 0
    /\ \A k \in DOMAIN created : created[k] # j

NothingFirst == \A j \in Jobs : row[j] = "none" => Unmade(j)

(* The rows stand in the order of their making, each once.                  *)
RowsListed ==
    /\ \A j \in Jobs : row[j] # "none" => \E k \in DOMAIN created : created[k] = j
    /\ \A k, l \in DOMAIN created : created[k] = created[l] => k = l

(* What the placeholder will say when every rewrite has arrived.            *)
Says(j) == IF due[j] = <<>> THEN shown[j] ELSE due[j][Len(due[j])]

RewritesTellRow == \A j \in Jobs \ cut : Says(j) \in Wordings(row[j])

(* A job that runs has a render, in the row and in what was read of it.     *)
RunsRendered(job) == job.state = "running" => job.rig # 0

RendersKnown ==
    /\ \A j \in Jobs : row[j] = "running" => rigId[j] # 0
    /\ \A j \in Jobs : RunsRendered(swept[j]) /\ RunsRendered(work[j].job)
    /\ \A j \in Jobs : work[j].at = "polling" => work[j].job.state = "running"
    /\ \A j \in Jobs : work[j].at = "answering" =>
                           work[j].n # 0 /\ render[j][work[j].n] # "none"

(* Nobody has anything left to do for a job whose answer was lost.          *)
LostIsOver ==
    \A j \in lost \ outdated :
        row[j] \notin Open /\ swept[j] = Unread /\ work[j].at \in {"idle", "writing"}

(* The jobs that a sweep has let in, since the beginning.                   *)
Entered(j) ==
    \/ row[j] \in Open /\ rigId[j] # 0
    \/ swept[j] # Unread \/ work[j].at # "idle"
    \/ \E n \in 1..Submits : render[j][n] # "none"

LetIn(E) ==
    /\ \A j \in Jobs : Entered(j) => j \in E
    /\ \A j \in E : row[j] # "none"
    /\ \A i \in OpenJobs, j \in E : Older(i, j) => i \in E
    /\ Cardinality((E \cap OpenJobs) \ reopened) <= MaxOpen

JobsInv ==
    /\ TypeOK /\ RequestsMake /\ NothingFirst /\ RowsListed /\ RewritesTellRow
    /\ RendersKnown /\ LostIsOver /\ \E E \in SUBSET Jobs : LetIn(E)

RowStates == Open \cup Terminal \cup {"none", "deleted"}

-----------------------------------------------------------------------------
(* What the helpers do *)

\* An ending, by whoever: the row and the message together, or neither.
LEMMA EndedEffect ==
    ASSUME TypeOK, NEW j \in Jobs, NEW state \in Terminal, NEW text \in Wordings(state),
           Ended(j, state, text)
    PROVE  /\ UNCHANGED <<created, rigId, marks, shown>>
           /\ row' \in [Jobs -> RowStates] /\ due' \in [Jobs -> Seq(Texts)]
           /\ \A i \in Jobs : \/ row'[i] = row[i] /\ due'[i] = due[i]
                              \/ /\ row[i] \in Open /\ row'[i] = state
                                 /\ due'[i] = Append(due[i], text)
           /\ row'[j] \notin Open
<1>1. text \in Texts
  BY DEF Wordings, Terminal, Open, Texts
<1>2. /\ row \in [Jobs -> RowStates] /\ due \in [Jobs -> Seq(Texts)]
  BY DEF TypeOK, RowStates
<1>3. CASE IsOpen(j)
  <2>1. row' = [row EXCEPT ![j] = state] /\ due' = [due EXCEPT ![j] = Append(due[j], text)]
    BY <1>3 DEF Ended, IsOpen, Rewritten, Set, Open
  <2>2. Append(due[j], text) \in Seq(Texts)
    BY <1>1, <1>2, AppendProperties
  <2> QED
    BY <1>2, <1>3, <2>1, <2>2 DEF Ended, IsOpen, RowStates, Terminal, Open
<1>4. CASE ~IsOpen(j)
  BY <1>2, <1>4 DEF Ended, IsOpen
<1> QED
  BY <1>3, <1>4

\* A report: only of a row that is open.
LEMMA ReportedEffect ==
    ASSUME TypeOK, NEW j \in Jobs, NEW new \in SUBSET Marks, Reported(j, new)
    PROVE  /\ UNCHANGED <<created, row, rigId, shown>>
           /\ marks' \in [Jobs -> SUBSET Marks] /\ due' \in [Jobs -> Seq(Texts)]
           /\ \A i \in Jobs : \/ due'[i] = due[i]
                              \/ row[i] \in Open /\ due'[i] = Append(due[i], "pending")
<1>1. /\ marks \in [Jobs -> SUBSET Marks] /\ due \in [Jobs -> Seq(Texts)]
  BY DEF TypeOK
<1>2. CASE IsOpen(j)
  <2>1. due' = [due EXCEPT ![j] = Append(due[j], "pending")] /\ marks' = [marks EXCEPT ![j] = new]
    BY <1>2 DEF Reported, IsOpen, Rewritten, Set, Open
  <2>2. Append(due[j], "pending") \in Seq(Texts)
    BY <1>1, AppendProperties DEF Texts
  <2> QED
    BY <1>1, <1>2, <2>1, <2>2 DEF Reported, IsOpen
<1>3. CASE ~IsOpen(j)
  BY <1>1, <1>3 DEF Reported, IsOpen
<1> QED
  BY <1>2, <1>3

\* The last rewrite is what the placeholder will say.
LEMMA SaysLast ==
    ASSUME NEW s \in Seq(Texts), NEW text \in Texts
    PROVE  Append(s, text) # <<>> /\ Append(s, text)[Len(Append(s, text))] = text
BY AppendProperties

LEMMA IdleIsCoroutine == Idle \in Coroutines /\ NoJob \in Snapshots
BY SubmitsAssumption DEF Idle, NoJob, Coroutines, Snapshots, Open, RenderStates

\* The job is let go, at once or with its rewrite.
LEMMA FreeEffect ==
    ASSUME TypeOK, NEW j \in Jobs, Free(j) \/ FreeAfterRewrite(j)
    PROVE  /\ work' \in [Jobs -> Coroutines]
           /\ \A i \in Jobs \ {j} : work'[i] = work[i]
           /\ work'[j].at \in {"idle", "writing"} /\ work'[j].job = NoJob
<1> DEFINE writing == [Idle EXCEPT !.at = "writing", !.by = work[j].by]
<1>1. work \in [Jobs -> Coroutines] /\ Idle \in Coroutines
  BY IdleIsCoroutine DEF TypeOK
<1>2. writing \in Coroutines /\ writing.at = "writing" /\ writing.job = NoJob
  BY <1>1 DEF Coroutines, Idle
<1>3. work' = [work EXCEPT ![j] = Idle] \/ work' = [work EXCEPT ![j] = writing]
  BY DEF Free, FreeAfterRewrite, Set
<1>4. Idle.at = "idle" /\ Idle.job = NoJob
  BY DEF Idle
<1> HIDE DEF writing
<1> QED
  BY <1>1, <1>2, <1>3, <1>4

\* A render that is withdrawn has been begun.
LEMMA WithdrawnEffect ==
    ASSUME TypeOK, NEW j \in Jobs, NEW n \in 0..Submits, Withdrawn(j, n)
    PROVE  /\ render' \in [Jobs -> [1..Submits -> RenderStates]]
           /\ \A i \in Jobs, m \in 1..Submits :
                  render'[i][m] = "none" <=> render[i][m] = "none"
<1>1. render \in [Jobs -> [1..Submits -> RenderStates]]
  BY DEF TypeOK
<1>2. CASE render' = render
  BY <1>1, <1>2
<1>3. CASE /\ n # 0 /\ render[j][n] \in Alive
           /\ render' = [render EXCEPT ![j][n] = "cancelled"]
  BY <1>1, <1>3, SubmitsAssumption DEF Alive, RenderStates
<1> QED
  BY <1>2, <1>3 DEF Withdrawn

-----------------------------------------------------------------------------
(* Types *)

LEMMA SpendEffect ==
    ASSUME TypeOK, NEW what \in Extras, Spend(what)
    PROVE  spent' \in [budget : Budgets, used : [Extras -> Nat]]
<1>1. /\ spent \in [budget : Budgets, used : [Extras -> Nat]]
      /\ spent' = [spent EXCEPT !.used = [spent.used EXCEPT ![what] = @ + 1]]
  BY DEF TypeOK, Spend
<1>2. [spent.used EXCEPT ![what] = @ + 1] \in [Extras -> Nat]
  BY <1>1
<1> QED
  BY <1>1, <1>2

LEMMA RowIsSnapshot ==
    ASSUME TypeOK, NEW j \in Jobs, IsOpen(j)
    PROVE  Row(j) \in Snapshots
BY DEF TypeOK, Row, IsOpen, Snapshots

\* The requests: they read rows and end them.
LEMMA TypeRequest ==
    ASSUME JobsInv, NEW j \in Jobs,
           Ask(j) \/ WithdrawStale(j) \/ EndStale(j) \/ Refuse(j) \/ Place(j) \/ Add(j)
    PROVE  TypeOK'
<1> USE DEF rows, message, life, actors, world, history
<1>0. TypeOK /\ asker \in [Jobs -> Requests]
  BY DEF JobsInv, TypeOK
<1>1. CASE Ask(j)
  <2>1. spent' \in [budget : Budgets, used : [Extras -> Nat]]
    BY <1>0, <1>1, SpendEffect DEF Ask, Extras
  <2> DEFINE stale == {[job |-> i, state |-> row[i], rig |-> rigId[i]] :
                         i \in {i \in OpenJobs : row[i] = "queued" \/ Unstarted(Row(i))}}
  <2>2. stale \in SUBSET [job : Jobs, state : Open, rig : 0..Submits]
    BY <1>0 DEF OpenJobs, IsOpen, TypeOK
  <2>3. asker' = [asker EXCEPT ![j] = [at |-> "ending", stale |-> stale]]
    BY <1>1 DEF Ask, Set
  <2> HIDE DEF stale
  <2>4. asker' \in [Jobs -> Requests]
    BY <1>0, <2>2, <2>3 DEF Requests
  <2> QED
    BY <1>0, <1>1, <2>1, <2>4 DEF Ask, TypeOK
<1>2. CASE WithdrawStale(j)
  <2>1. PICK old \in asker[j].stale :
          /\ Withdrawn(old.job, old.rig)
          /\ asker' = [asker EXCEPT ![j].stale = (@ \ {old}) \cup {[old EXCEPT !.state = "queued"]}]
          /\ UNCHANGED <<rows, message, life, swept, work, deleting, expired, spent, history>>
    BY <1>2 DEF WithdrawStale
  <2>2. old \in [job : Jobs, state : Open, rig : 0..Submits]
    BY <1>0 DEF Requests
  <2>3. [old EXCEPT !.state = "queued"] \in [job : Jobs, state : Open, rig : 0..Submits]
    BY <2>2 DEF Open
  <2>4. asker' \in [Jobs -> Requests]
    BY <1>0, <2>1, <2>3 DEF Requests
  <2>5. render' \in [Jobs -> [1..Submits -> RenderStates]]
    BY <1>0, <2>1, <2>2, WithdrawnEffect
  <2> QED
    BY <1>0, <2>1, <2>4, <2>5 DEF TypeOK
<1>3. CASE EndStale(j)
  <2>1. PICK old \in asker[j].stale :
          /\ Ended(old.job, "cancelled", "superseded")
          /\ asker' = [asker EXCEPT ![j].stale = @ \ {old}]
          /\ UNCHANGED <<life, swept, work, deleting, world, history>>
    BY <1>3 DEF EndStale
  <2>2. old.job \in Jobs
    BY <1>0 DEF Requests
  <2>3. asker' \in [Jobs -> Requests]
    BY <1>0, <2>1 DEF Requests
  <2>4. "cancelled" \in Terminal /\ "superseded" \in Wordings("cancelled")
    BY DEF Terminal, Wordings, Open
  <2>5. /\ UNCHANGED <<created, rigId, marks, shown>>
        /\ row' \in [Jobs -> RowStates] /\ due' \in [Jobs -> Seq(Texts)]
    BY <1>0, <2>1, <2>2, <2>4, EndedEffect
  <2> QED
    BY <1>0, <2>1, <2>3, <2>5 DEF TypeOK, RowStates
<1>4. CASE Refuse(j)
  BY <1>0, <1>4 DEF Refuse, TypeOK, Requests
<1>5. CASE Place(j)
  BY <1>0, <1>5 DEF Place, Set, TypeOK, Requests, Texts
<1>6. CASE Add(j)
  <2>1. created' \in Seq(Jobs)
    BY <1>0, <1>6, AppendProperties DEF Add, TypeOK
  <2>2. asker' \in [Jobs -> Requests]
    BY <1>0, <1>6 DEF Add, Requests
  <2>3. row' = [row EXCEPT ![j] = "queued"] /\ row \in [Jobs -> RowStates]
    BY <1>0, <1>6 DEF Add, Set, TypeOK, RowStates
  <2>4. row' \in [Jobs -> RowStates]
    BY <2>3 DEF RowStates, Open
  <2> QED
    BY <1>0, <1>6, <2>1, <2>2, <2>4 DEF Add, TypeOK, RowStates
<1> QED
  BY <1>1, <1>2, <1>3, <1>4, <1>5, <1>6

\* Deletes, rewrites on their way, and the clock.
LEMMA TypeMessage ==
    ASSUME JobsInv, NEW j \in Jobs,
           DeleteReads(j) \/ Delete(j) \/ MessageWritten(j) \/ Deadline(j)
    PROVE  TypeOK'
<1> USE DEF rows, message, life, actors, world, history
<1>0. TypeOK /\ Idle \in Coroutines
  BY IdleIsCoroutine DEF JobsInv
<1>1. CASE DeleteReads(j)
  <2>1. spent' \in [budget : Budgets, used : [Extras -> Nat]]
    BY <1>0, <1>1, SpendEffect DEF DeleteReads, Extras
  <2>2. deleting' \in [Jobs -> {Nothing} \cup 0..Submits]
    BY <1>0, <1>1, SubmitsAssumption DEF DeleteReads, Set, TypeOK
  <2> QED
    BY <1>0, <1>1, <2>1, <2>2 DEF DeleteReads, TypeOK
<1>2. CASE Delete(j)
  <2>1. deleting[j] \in 0..Submits
    BY <1>0, <1>2 DEF Delete, TypeOK
  <2>2. render' \in [Jobs -> [1..Submits -> RenderStates]]
    BY <1>0, <1>2, <2>1, WithdrawnEffect DEF Delete
  <2>3. work' \in [Jobs -> Coroutines]
    BY <1>0, <1>2 DEF Delete, Set, TypeOK
  <2>4. due' \in [Jobs -> Seq(Texts)]
    BY <1>0, <1>2, EmptySeq DEF Delete, Set, TypeOK
  <2> QED
    BY <1>0, <1>2, <2>2, <2>3, <2>4 DEF Delete, Set, TypeOK
<1>3. CASE MessageWritten(j)
  <2>1. Head(due[j]) \in Texts /\ Tail(due[j]) \in Seq(Texts)
    BY <1>0, <1>3, HeadTailProperties DEF MessageWritten, TypeOK
  <2>2. due' \in [Jobs -> Seq(Texts)] /\ shown' \in [Jobs -> Texts \cup {"none", "deleted"}]
    BY <1>0, <1>3, <2>1 DEF MessageWritten, Set, TypeOK
  <2>3. work' \in [Jobs -> Coroutines]
    BY <1>0, <1>3 DEF MessageWritten, Set, TypeOK
  <2> QED
    BY <1>0, <1>3, <2>2, <2>3 DEF MessageWritten, TypeOK
<1>4. CASE Deadline(j)
  BY <1>0, <1>4 DEF Deadline, TypeOK
<1> QED
  BY <1>1, <1>2, <1>3, <1>4

\* The job is claimed with a row that was read.
LEMMA ClaimEffect ==
    ASSUME TypeOK, NEW j \in Jobs, NEW job \in Snapshots, NEW by \in {"sweep", "callback"},
           Claim(j, job, by)
    PROVE  /\ work' \in [Jobs -> Coroutines]
           /\ \A i \in Jobs \ {j} : work'[i] = work[i]
           /\ work'[j].at \in {"expiring", "asking", "polling"} /\ work'[j].job = job
           /\ work'[j].at = "polling" => job.state = "running"
<1> DEFINE at == CASE j \in expired -> "expiring"
                   [] j \notin expired /\ job.state = "queued" -> "asking"
                   [] OTHER -> "polling"
           claim == [Idle EXCEPT !.by = by, !.job = job, !.at = at]
<1>1. at \in {"expiring", "asking", "polling"} /\ (at = "polling" => job.state = "running")
  BY DEF Snapshots, Open
<1>2. work' = [work EXCEPT ![j] = claim]
  BY DEF Claim, Set
<1> HIDE DEF at
<1>3. claim \in Coroutines /\ claim.at = at /\ claim.job = job
  BY <1>1, IdleIsCoroutine DEF Idle, Coroutines
<1> HIDE DEF claim
<1> QED
  BY <1>1, <1>2, <1>3 DEF TypeOK

LEMMA TypeClaim ==
    ASSUME JobsInv, NEW j \in Jobs, Advance(j) \/ PassOver(j) \/ Callback(j)
    PROVE  TypeOK'
<1> USE DEF rows, message, life, actors, world, history
<1>0. TypeOK
  BY DEF JobsInv
<1>1. CASE Advance(j)
  <2>1. swept[j] \in Snapshots
    BY <1>0, <1>1 DEF Advance, TypeOK
  <2>2. work' \in [Jobs -> Coroutines]
    BY <1>0, <1>1, <2>1, ClaimEffect DEF Advance
  <2> QED
    BY <1>0, <1>1, <2>2 DEF Advance, Set, TypeOK
<1>2. CASE PassOver(j)
  BY <1>0, <1>2 DEF PassOver, Set, TypeOK
<1>3. CASE Callback(j)
  <2>1. work' \in [Jobs -> Coroutines]
    BY <1>0, <1>3, ClaimEffect, RowIsSnapshot DEF Callback
  <2>2. spent' \in [budget : Budgets, used : [Extras -> Nat]]
    BY <1>0, <1>3, SpendEffect DEF Callback, Extras
  <2> QED
    BY <1>0, <1>3, <2>1, <2>2 DEF Callback, TypeOK
<1> QED
  BY <1>1, <1>2, <1>3

\* What the coroutine of a job does without closing it.
\* A coroutine goes on to its next place.
LEMMA CoroutineMoves ==
    ASSUME NEW w \in Coroutines
    PROVE  /\ [w EXCEPT !.at = "fetching"] \in Coroutines
           /\ [w EXCEPT !.at = "repinning"] \in Coroutines
           /\ \A n \in 1..Submits : [w EXCEPT !.at = "answering", !.n = n] \in Coroutines
           /\ \A now \in RenderStates :
                  [w EXCEPT !.at = "polled", !.answer = now] \in Coroutines
<1>1. [w EXCEPT !.at = "fetching"] \in Coroutines /\ [w EXCEPT !.at = "repinning"] \in Coroutines
  BY DEF Coroutines
<1>2. ASSUME NEW n \in 1..Submits PROVE [w EXCEPT !.at = "answering", !.n = n] \in Coroutines
  <2>1. n \in 0..Submits
    BY SubmitsAssumption
  <2> QED
    BY <2>1 DEF Coroutines
<1>3. ASSUME NEW now \in RenderStates
      PROVE  [w EXCEPT !.at = "polled", !.answer = now] \in Coroutines
  BY DEF Coroutines
<1> QED
  BY <1>1, <1>2, <1>3

LEMMA TypeRender ==
    ASSUME JobsInv, NEW j \in Jobs,
           \/ Submit(j) \/ Accepted(j) \/ AnsweredAtOnce(j) \/ Repin(j)
           \/ Poll(j) \/ PolledFinished(j)
    PROVE  TypeOK'
<1> USE DEF rows, message, life, actors, world, history
<1>0. /\ TypeOK /\ work \in [Jobs -> Coroutines]
      /\ render \in [Jobs -> [1..Submits -> RenderStates]]
  BY DEF JobsInv, TypeOK
<1>1. CASE Submit(j)
  <2>1. spent' \in [budget : Budgets, used : [Extras -> Nat]]
    BY <1>0, <1>1, SpendEffect DEF Submit, Extras
  <2>2. PICK n \in 1..Submits :
          /\ render' = [render EXCEPT ![j][n] = "queued"]
          /\ work' = [work EXCEPT ![j].at = "answering", ![j].n = n]
    BY <1>1 DEF Submit
  <2>3. work' \in [Jobs -> Coroutines]
    <3>1. [work[j] EXCEPT !.at = "answering", !.n = n] \in Coroutines
      BY <1>0, CoroutineMoves
    <3>2. work' = [work EXCEPT ![j] = [work[j] EXCEPT !.at = "answering", !.n = n]]
      BY <1>0, <2>2
    <3> QED
      BY <1>0, <3>1, <3>2
  <2>4. render' \in [Jobs -> [1..Submits -> RenderStates]]
    BY <1>0, <2>2 DEF RenderStates, Alive
  <2> QED
    BY <1>0, <1>1, <2>1, <2>3, <2>4 DEF Submit, TypeOK
<1>2. CASE Accepted(j)
  <2>1. work[j].n \in 0..Submits
    BY <1>0 DEF Coroutines
  <2>2. work' \in [Jobs -> Coroutines]
    BY <1>0, <1>2, FreeEffect DEF Accepted
  <2>3. CASE IsOpen(j)
    <3>1. row' \in [Jobs -> RowStates] /\ rigId' \in [Jobs -> 0..Submits]
      BY <1>0, <1>2, <2>1, <2>3 DEF Accepted, Set, TypeOK, RowStates, Open
    <3> QED
      BY <1>0, <1>2, <2>2, <2>3, <3>1 DEF Accepted, TypeOK, RowStates
  <2>4. CASE ~IsOpen(j)
    <3>1. render' \in [Jobs -> [1..Submits -> RenderStates]]
      BY <1>0, <1>2, <2>1, <2>4, WithdrawnEffect DEF Accepted
    <3> QED
      BY <1>0, <1>2, <2>2, <2>4, <3>1 DEF Accepted, TypeOK
  <2> QED
    BY <2>3, <2>4
<1>3. CASE AnsweredAtOnce(j)
  <2>1. work' \in [Jobs -> Coroutines]
    <3>1. work' = [work EXCEPT ![j] = [work[j] EXCEPT !.at = "fetching"]]
      BY <1>0, <1>3 DEF AnsweredAtOnce
    <3> QED
      BY <1>0, <3>1, CoroutineMoves
  <2>2. render' \in [Jobs -> [1..Submits -> RenderStates]]
    BY <1>0, <1>3 DEF AnsweredAtOnce, RenderStates
  <2> QED
    BY <1>0, <1>3, <2>1, <2>2 DEF AnsweredAtOnce, TypeOK
<1>4. CASE Repin(j)
  <2>1. work' \in [Jobs -> Coroutines]
    <3>1. work' = [work EXCEPT ![j] = [work[j] EXCEPT !.at = "repinning"]]
      BY <1>0, <1>4 DEF Repin
    <3> QED
      BY <1>0, <3>1, CoroutineMoves
  <2> QED
    BY <1>0, <1>4, <2>1 DEF Repin, Set, TypeOK
<1>5. CASE Poll(j)
  <2>1. work[j].job.rig \in 1..Submits
    <3>1. work[j].at = "polling" /\ RendersKnown
      BY <1>5 DEF Poll, JobsInv
    <3>2. work[j].job.rig # 0
      BY <3>1 DEF RendersKnown, RunsRendered
    <3>3. work[j].job.rig \in 0..Submits
      BY <1>0 DEF Coroutines, Snapshots
    <3> QED
      BY <3>2, <3>3, SubmitsAssumption
  <2>2. PICK now \in Since(render[j][work[j].job.rig]) :
          /\ render' = [render EXCEPT ![j][work[j].job.rig] = now]
          /\ work' = [work EXCEPT ![j].at = "polled", ![j].answer = now]
    BY <1>5 DEF Poll
  <2>3. render[j][work[j].job.rig] \in RenderStates
    BY <1>0, <2>1
  <2>4. now \in RenderStates
    BY <2>2, <2>3 DEF Since
  <2>5. work' \in [Jobs -> Coroutines]
    <3>1. [work[j] EXCEPT !.at = "polled", !.answer = now] \in Coroutines
      BY <1>0, <2>4, CoroutineMoves
    <3>2. work' = [work EXCEPT ![j] = [work[j] EXCEPT !.at = "polled", !.answer = now]]
      BY <1>0, <2>2
    <3> QED
      BY <1>0, <3>1, <3>2
  <2>6. render' \in [Jobs -> [1..Submits -> RenderStates]]
    BY <1>0, <2>2, <2>4
  <2> QED
    BY <1>0, <1>5, <2>5, <2>6 DEF Poll, TypeOK
<1>6. CASE PolledFinished(j)
  <2>1. work' \in [Jobs -> Coroutines]
    <3>1. work' = [work EXCEPT ![j] = [work[j] EXCEPT !.at = "fetching"]]
      BY <1>0, <1>6 DEF PolledFinished
    <3> QED
      BY <1>0, <3>1, CoroutineMoves
  <2> QED
    BY <1>0, <1>6, <2>1 DEF PolledFinished, TypeOK
<1> QED
  BY <1>1, <1>2, <1>3, <1>4, <1>5, <1>6

\* The wordings of the four ways a job is ended.
LEMMA EndingsWorded ==
    /\ {"failed", "cancelled", "done"} \subseteq Terminal
    /\ "failed" \in Wordings("failed") /\ "picture" \in Wordings("done")
    /\ {"cancelled", "superseded"} \subseteq Wordings("cancelled")
BY DEF Terminal, Wordings, Open

\* The endings by the coroutine of the job and by a restart.
Closes(j) ==
    \E state \in Terminal : \E text \in Wordings(state) : Ended(j, state, text)

LEMMA ClosersClose ==
    ASSUME NEW j \in Jobs,
           \/ Expire(j) \/ GiveUp(j) \/ Unanswered(j) \/ PolledFailed(j)
           \/ PolledCancelled(j) \/ Deliver(j)
    PROVE  Closes(j) /\ FreeAfterRewrite(j) /\ work[j].at # "idle"
BY EndingsWorded
   DEF Closes, Expire, GiveUp, Unanswered, PolledFailed, PolledCancelled, Deliver

LEMMA TypeClose ==
    ASSUME JobsInv, NEW j \in Jobs,
           \/ Expire(j) \/ GiveUp(j) \/ Unanswered(j) \/ PolledFailed(j)
           \/ PolledCancelled(j) \/ Deliver(j)
    PROVE  TypeOK'
<1> USE DEF rows, message, life, actors, world, history
<1>0. TypeOK /\ work \in [Jobs -> Coroutines]
  BY DEF JobsInv, TypeOK
<1>1. /\ UNCHANGED <<created, rigId, marks, shown>>
      /\ row' \in [Jobs -> RowStates] /\ due' \in [Jobs -> Seq(Texts)]
  BY <1>0, ClosersClose, EndedEffect DEF Closes
<1>2. work' \in [Jobs -> Coroutines]
  BY <1>0, ClosersClose, FreeEffect
<1>3. CASE Expire(j)
  <2>1. work[j].job.rig \in 0..Submits
    BY <1>0 DEF Coroutines, Snapshots
  <2>2. render' \in [Jobs -> [1..Submits -> RenderStates]]
    BY <1>0, <1>3, <2>1, WithdrawnEffect DEF Expire
  <2> QED
    BY <1>0, <1>1, <1>2, <1>3, <2>2 DEF Expire, TypeOK, RowStates
<1>4. CASE Unanswered(j)
  <2>1. lost' \subseteq Jobs /\ outdated' \subseteq Jobs
    BY <1>0, <1>4 DEF Unanswered, Lost, TypeOK
  <2> QED
    BY <1>0, <1>1, <1>2, <1>4, <2>1 DEF Unanswered, TypeOK, RowStates
<1>5. CASE GiveUp(j) \/ PolledFailed(j) \/ PolledCancelled(j) \/ Deliver(j)
  <2>1. UNCHANGED <<life, swept, asker, deleting, world, history>>
    BY <1>5 DEF GiveUp, PolledFailed, PolledCancelled, Deliver
  <2> QED
    BY <1>0, <1>1, <1>2, <2>1 DEF TypeOK, RowStates
<1> QED
  BY <1>3, <1>4, <1>5

\* The reports on a job that stays open, and the two ways back to the queue.
LEMMA TypeReport ==
    ASSUME JobsInv, NEW j \in Jobs,
           \/ Wait(j) \/ PolledSteps(j) \/ Repinned(j)
           \/ PolledQueued(j) \/ PolledBegun(j) \/ Retried(j)
    PROVE  TypeOK'
<1> USE DEF rows, message, life, actors, world, history
<1>0. /\ TypeOK /\ work[j].job.marks \in SUBSET Marks
      /\ row \in [Jobs -> RowStates] /\ rigId \in [Jobs -> 0..Submits]
      /\ marks \in [Jobs -> SUBSET Marks] /\ due \in [Jobs -> Seq(Texts)]
  BY DEF JobsInv, TypeOK, Coroutines, Snapshots, RowStates
<1>1. work' \in [Jobs -> Coroutines]
  BY <1>0, FreeEffect DEF Wait, PolledSteps, Repinned, PolledQueued, PolledBegun, Retried
<1>2. CASE Wait(j) \/ PolledSteps(j)
  <2>1. PICK new \in SUBSET Marks : Reported(j, new)
    BY <1>0, <1>2 DEF Wait, PolledSteps, Marks
  <2>2. /\ UNCHANGED <<created, row, rigId, shown>>
        /\ marks' \in [Jobs -> SUBSET Marks] /\ due' \in [Jobs -> Seq(Texts)]
    BY <1>0, <2>1, ReportedEffect
  <2> QED
    BY <1>0, <1>1, <1>2, <2>2 DEF Wait, PolledSteps, TypeOK
<1>3. CASE PolledQueued(j) \/ PolledBegun(j)
  <2>1. /\ work[j].job.marks \cup {"rig_queued"} \in SUBSET Marks
        /\ work[j].job.marks \ {"rig_queued"} \in SUBSET Marks
    BY <1>0 DEF Marks
  <2>2. marks' \in [Jobs -> SUBSET Marks]
    <3>1. PICK new \in SUBSET Marks : marks' = marks \/ marks' = [marks EXCEPT ![j] = new]
      BY <1>3, <2>1 DEF PolledQueued, PolledBegun, Set
    <3> QED
      BY <1>0, <3>1
  <2> QED
    BY <1>0, <1>1, <1>3, <2>2 DEF PolledQueued, PolledBegun, TypeOK
<1>4. Append(due[j], "pending") \in Seq(Texts)
  BY <1>0, AppendProperties DEF Texts
<1>5. CASE Repinned(j)
  <2> DEFINE new == work[j].job.marks \cup {"vram_repin"}
  <2>1. new \in SUBSET Marks
    BY <1>0 DEF Marks
  <2>2. \/ /\ row' = Set(row, j, "queued") /\ rigId' = Set(rigId, j, 0)
           /\ marks' = Set(marks, j, new) /\ Rewritten(j, "pending")
           /\ UNCHANGED <<created, shown>>
        \/ UNCHANGED <<row, rigId, marks, due, created, shown>>
        \/ Reported(j, new)
    BY <1>5 DEF Repinned
  <2> HIDE DEF new
  <2>3. /\ UNCHANGED <<created, shown>>
        /\ row' \in [Jobs -> RowStates] /\ rigId' \in [Jobs -> 0..Submits]
        /\ marks' \in [Jobs -> SUBSET Marks] /\ due' \in [Jobs -> Seq(Texts)]
    <3>1. CASE Reported(j, new)
      BY <1>0, <2>1, <3>1, ReportedEffect
    <3>2. CASE UNCHANGED <<row, rigId, marks, due, created, shown>>
      BY <1>0, <3>2
    <3>3. CASE /\ row' = Set(row, j, "queued") /\ rigId' = Set(rigId, j, 0)
               /\ marks' = Set(marks, j, new) /\ Rewritten(j, "pending")
               /\ UNCHANGED <<created, shown>>
      BY <1>0, <1>4, <2>1, <3>3, SubmitsAssumption DEF Set, Rewritten, RowStates, Open
    <3> QED
      BY <2>2, <3>1, <3>2, <3>3
  <2> QED
    BY <1>0, <1>1, <1>5, <2>3 DEF Repinned, TypeOK, RowStates
<1>6. CASE Retried(j)
  <2> DEFINE new == (work[j].job.marks \ {"rig_queued"}) \cup {"stall_retry"}
  <2>1. new \in SUBSET Marks
    BY <1>0 DEF Marks
  <2>2. \/ UNCHANGED <<row, rigId, marks, reopened>>
        \/ /\ row' = Set(row, j, "queued") /\ rigId' = Set(rigId, j, 0)
           /\ marks' = Set(marks, j, new)
           /\ reopened' = IF IsOpen(j) THEN reopened ELSE reopened \cup {j}
    BY <1>6 DEF Retried
  <2> HIDE DEF new
  <2>3. /\ row' \in [Jobs -> RowStates] /\ rigId' \in [Jobs -> 0..Submits]
        /\ marks' \in [Jobs -> SUBSET Marks] /\ reopened' \subseteq Jobs
    <3>1. CASE UNCHANGED <<row, rigId, marks, reopened>>
      BY <1>0, <3>1 DEF TypeOK
    <3>2. CASE /\ row' = Set(row, j, "queued") /\ rigId' = Set(rigId, j, 0)
               /\ marks' = Set(marks, j, new)
               /\ reopened' = IF IsOpen(j) THEN reopened ELSE reopened \cup {j}
      <4>1. reopened' \subseteq Jobs
        BY <1>0, <3>2 DEF TypeOK
      <4> QED
        BY <1>0, <2>1, <3>2, <4>1, SubmitsAssumption DEF Set, RowStates, Open
    <3> QED
      BY <2>2, <3>1, <3>2
  <2>4. due' \in [Jobs -> Seq(Texts)]
    BY <1>0, <1>4, <1>6 DEF Retried, Rewritten, Set
  <2> QED
    BY <1>0, <1>1, <1>6, <2>3, <2>4 DEF Retried, TypeOK, RowStates
<1> QED
  BY <1>2, <1>3, <1>5, <1>6

\* The sweep, a crash and the start after it.
LEMMA TypeServer ==
    ASSUME JobsInv, Sweep \/ Crash \/ Start
    PROVE  TypeOK'
<1> USE DEF rows, message, life, actors, world, history
<1>0. TypeOK /\ Idle \in Coroutines
  BY IdleIsCoroutine DEF JobsInv
<1>1. CASE Sweep
  <2> DEFINE taken == AcceptedJobs \cup Admitted
  <2>1. swept' = [j \in Jobs |-> IF j \in taken THEN Row(j) ELSE Unread]
    BY <1>1 DEF Sweep
  <2>2. \A j \in taken : j \in Jobs /\ IsOpen(j)
    BY DEF AcceptedJobs, Admitted, WaitingJobs, OpenJobs
  <2> HIDE DEF taken
  <2>3. swept' \in [Jobs -> Snapshots \cup {Unread}]
    BY <1>0, <2>1, <2>2, RowIsSnapshot
  <2> QED
    BY <1>0, <1>1, <2>3 DEF Sweep, TypeOK
<1>2. CASE Crash
  <2>1. spent' \in [budget : Budgets, used : [Extras -> Nat]]
    BY <1>0, <1>2, SpendEffect DEF Crash, Extras
  <2>2. /\ due' \in [Jobs -> Seq(Texts)] /\ swept' \in [Jobs -> Snapshots \cup {Unread}]
        /\ work' \in [Jobs -> Coroutines] /\ deleting' \in [Jobs -> {Nothing} \cup 0..Submits]
    BY <1>0, <1>2, EmptySeq DEF Crash
  <2>3. asker' \in [Jobs -> Requests]
    BY <1>0, <1>2 DEF Crash, TypeOK, Requests
  <2>4. cut' \subseteq Jobs /\ adopting' \subseteq Jobs
    BY <1>0, <1>2 DEF Crash, TypeOK
  <2> QED
    BY <1>0, <1>2, <2>1, <2>2, <2>3, <2>4 DEF Crash, TypeOK
<1>3. CASE Restart
  BY <1>0, <1>3 DEF Restart, OpenJobs, TypeOK
<1>4. CASE Started
  BY <1>0, <1>4 DEF Started, TypeOK
<1>5. ASSUME NEW j \in Jobs, Adopt(j) PROVE TypeOK'
  <2>1. \/ Ended(j, "failed", "failed") /\ (render' = render \/ Withdrawn(j, rigId[j]))
        \/ UNCHANGED <<rows, message, render>>
    BY <1>5 DEF Adopt
  <2>2. rigId[j] \in 0..Submits
    BY <1>0 DEF TypeOK
  <2>3. /\ UNCHANGED <<created, rigId, marks, shown>>
        /\ row' \in [Jobs -> RowStates] /\ due' \in [Jobs -> Seq(Texts)]
    BY <1>0, <2>1, EndedEffect, EndingsWorded DEF TypeOK, RowStates
  <2>4. render' \in [Jobs -> [1..Submits -> RenderStates]]
    BY <1>0, <2>1, <2>2, WithdrawnEffect DEF TypeOK
  <2>5. adopting' \subseteq Jobs
    BY <1>0, <1>5 DEF Adopt, TypeOK
  <2> QED
    BY <1>0, <1>5, <2>3, <2>4, <2>5 DEF Adopt, TypeOK, RowStates
<1> QED
  BY <1>1, <1>2, <1>3, <1>4, <1>5 DEF Start

LEMMA TypeKept == ASSUME JobsInv, [Next]_vars PROVE TypeOK'
<1>1. CASE UNCHANGED vars
  BY <1>1 DEF JobsInv, TypeOK, vars, rows, message, life, actors, world, history
<1>2. CASE Next
  BY <1>2, TypeRequest, TypeMessage, TypeClaim, TypeRender, TypeClose, TypeReport, TypeServer
     DEF Next, Request, Worker
<1> QED
  BY <1>1, <1>2

-----------------------------------------------------------------------------
(* What becomes of a row *)

\* A coroutine at work has a row.
LEMMA AtWork ==
    ASSUME JobsInv, NEW j \in Jobs, work[j].at # "idle" \/ deleting[j] # Nothing \/ due[j] # <<>>
                                    \/ swept[j] # Unread \/ j \in adopting
    PROVE  row[j] # "none" /\ asker[j].at = "gone"
BY DEF JobsInv, NothingFirst, Unmade, RequestsMake

RowGoes(i) ==
    \/ row'[i] = row[i]
    \/ row[i] = "none" /\ row'[i] = "queued" /\ Add(i)
    \/ row[i] \in Open /\ row'[i] \in Open \cup Terminal
    \/ row[i] # "none" /\ row'[i] = "deleted"
    \/ row[i] # "none" /\ row'[i] = "queued" /\ i \in reopened' /\ work[i].at = "polled"

\* The steps that leave every row as it is.
Still(j) ==
    \/ Ask(j) \/ WithdrawStale(j) \/ Refuse(j) \/ Place(j) \/ DeleteReads(j)
    \/ MessageWritten(j) \/ Advance(j) \/ PassOver(j) \/ Callback(j) \/ Wait(j)
    \/ Submit(j) \/ AnsweredAtOnce(j) \/ Repin(j) \/ Poll(j) \/ PolledQueued(j)
    \/ PolledBegun(j) \/ PolledSteps(j) \/ PolledFinished(j) \/ Deadline(j)

LEMMA RowStill ==
    ASSUME (\E j \in Jobs : Still(j)) \/ Sweep \/ Crash \/ Restart \/ Started
    PROVE  row' = row /\ created' = created /\ rigId' = rigId /\ reopened' = reopened
<1> USE DEF rows, message, life, actors, world, history
<1>1. ASSUME NEW j \in Jobs, Still(j)
      PROVE  row' = row /\ created' = created /\ rigId' = rigId /\ reopened' = reopened
  <2>1. CASE Ask(j) \/ WithdrawStale(j) \/ Refuse(j) \/ Place(j) \/ DeleteReads(j)
             \/ MessageWritten(j) \/ Advance(j) \/ PassOver(j) \/ Callback(j)
    BY <2>1 DEF Ask, WithdrawStale, Refuse, Place, DeleteReads, MessageWritten, Advance,
                PassOver, Callback
  <2>2. CASE Wait(j) \/ PolledSteps(j)
    BY <2>2 DEF Wait, PolledSteps, Reported
  <2>3. CASE Submit(j) \/ AnsweredAtOnce(j) \/ Repin(j) \/ Poll(j) \/ PolledQueued(j)
             \/ PolledBegun(j) \/ PolledFinished(j) \/ Deadline(j)
    BY <2>3 DEF Submit, AnsweredAtOnce, Repin, Poll, PolledQueued, PolledBegun,
                PolledFinished, Deadline
  <2> QED
    BY <1>1, <2>1, <2>2, <2>3 DEF Still
<1>2. CASE Sweep \/ Crash \/ Restart \/ Started
  BY <1>2 DEF Sweep, Crash, Restart, Started
<1> QED
  BY <1>1, <1>2

\* The steps that end a job, if it is open.
LEMMA Closers ==
    ASSUME JobsInv, NEW j \in Jobs,
           \/ EndStale(j) \/ Adopt(j) \/ Expire(j) \/ GiveUp(j) \/ Unanswered(j)
           \/ PolledFailed(j) \/ PolledCancelled(j) \/ Deliver(j)
    PROVE  /\ (\E i \in Jobs : Closes(i)) \/ UNCHANGED <<rows, message>>
           /\ reopened' = reopened /\ cut' = cut
<1> USE DEF rows, message, life, actors, world, history
<1>1. CASE EndStale(j)
  <2>1. PICK old \in asker[j].stale : Ended(old.job, "cancelled", "superseded")
    BY <1>1 DEF EndStale
  <2>2. old.job \in Jobs
    BY DEF JobsInv, TypeOK, Requests
  <2> QED
    BY <1>1, <2>1, <2>2, EndingsWorded DEF Closes, EndStale
<1>2. CASE Adopt(j)
  BY <1>2, EndingsWorded DEF Adopt, Closes
<1>3. CASE Expire(j) \/ GiveUp(j) \/ Unanswered(j) \/ PolledFailed(j)
           \/ PolledCancelled(j) \/ Deliver(j)
  <2>1. Closes(j)
    BY <1>3, ClosersClose
  <2>2. reopened' = reopened /\ cut' = cut
    BY <1>3 DEF Expire, GiveUp, Unanswered, PolledFailed, PolledCancelled, Deliver
  <2> QED
    BY <2>1, <2>2
<1> QED
  BY <1>1, <1>2, <1>3

LEMMA RowStep == ASSUME JobsInv, Next PROVE \A i \in Jobs : RowGoes(i)
<1> USE DEF rows, message, life, actors, world, history
<1>0. TypeOK /\ row \in [Jobs -> RowStates]
  BY DEF JobsInv, TypeOK, RowStates
<1>1. CASE (\E j \in Jobs : Still(j)) \/ Sweep \/ Crash \/ Restart \/ Started
  BY <1>1, RowStill DEF RowGoes
<1>2. ASSUME NEW j \in Jobs,
             \/ EndStale(j) \/ Adopt(j) \/ Expire(j) \/ GiveUp(j) \/ Unanswered(j)
             \/ PolledFailed(j) \/ PolledCancelled(j) \/ Deliver(j)
      PROVE  \A i \in Jobs : RowGoes(i)
  <2>1. CASE UNCHANGED <<rows, message>>
    BY <2>1 DEF RowGoes
  <2>2. ASSUME NEW k \in Jobs, Closes(k) PROVE \A i \in Jobs : RowGoes(i)
    <3>1. PICK state \in Terminal : \E text \in Wordings(state) : Ended(k, state, text)
      BY <2>2 DEF Closes
    <3>2. \A i \in Jobs : row'[i] = row[i] \/ (row[i] \in Open /\ row'[i] = state)
      BY <1>0, <3>1, EndedEffect
    <3> QED
      BY <3>2 DEF RowGoes
  <2> QED
    BY <1>2, <2>1, <2>2, Closers
<1>3. ASSUME NEW j \in Jobs, Add(j) PROVE \A i \in Jobs : RowGoes(i)
  <2>1. row[j] = "none"
    BY <1>3 DEF Add, JobsInv, RequestsMake
  <2> QED
    BY <1>0, <1>3, <2>1 DEF Add, Set, RowGoes
<1>4. ASSUME NEW j \in Jobs, Delete(j) PROVE \A i \in Jobs : RowGoes(i)
  <2>1. row[j] # "none"
    BY <1>4, AtWork DEF Delete
  <2> QED
    BY <1>0, <1>4, <2>1 DEF Delete, Set, RowGoes
<1>5. ASSUME NEW j \in Jobs, Accepted(j) PROVE \A i \in Jobs : RowGoes(i)
  BY <1>0, <1>5 DEF Accepted, IsOpen, Set, RowGoes, Open
<1>6. ASSUME NEW j \in Jobs, Repinned(j) PROVE \A i \in Jobs : RowGoes(i)
  <2>1. row' = row \/ (IsOpen(j) /\ row' = [row EXCEPT ![j] = "queued"])
    BY <1>6 DEF Repinned, Reported, Set
  <2> QED
    BY <1>0, <2>1 DEF RowGoes, IsOpen, Open
<1>7. ASSUME NEW j \in Jobs, Retried(j) PROVE \A i \in Jobs : RowGoes(i)
  <2>1. row[j] # "none" /\ work[j].at = "polled"
    BY <1>7, AtWork DEF Retried
  <2>2. \/ row' = row
        \/ /\ row' = [row EXCEPT ![j] = "queued"]
           /\ row[j] \in Open \/ j \in reopened'
    BY <1>7 DEF Retried, Set, IsOpen
  <2> QED
    BY <1>0, <2>1, <2>2 DEF RowGoes, Open
<1> QED
  BY <1>1, <1>2, <1>3, <1>4, <1>5, <1>6, <1>7 DEF Next, Request, Worker, Start, Still

-----------------------------------------------------------------------------
(* Requests, and jobs without a row *)

LEMMA WorkerFrame ==
    ASSUME NEW j \in Jobs, Worker(j)
    PROVE  UNCHANGED <<created, shown, life, asker, deleting, expired, cut>>
<1> USE DEF rows, message, life, actors, world, history
<1>1. CASE Advance(j) \/ Submit(j) \/ Accepted(j) \/ AnsweredAtOnce(j) \/ Repin(j)
           \/ Poll(j) \/ PolledFinished(j)
  BY <1>1 DEF Advance, Submit, Accepted, AnsweredAtOnce, Repin, Poll, PolledFinished
<1>2. CASE Expire(j) \/ GiveUp(j) \/ Unanswered(j) \/ PolledFailed(j)
           \/ PolledCancelled(j) \/ Deliver(j)
  BY <1>2 DEF Expire, GiveUp, Unanswered, PolledFailed, PolledCancelled, Deliver, Ended
<1>3. CASE Wait(j) \/ PolledQueued(j) \/ PolledBegun(j) \/ PolledSteps(j)
  BY <1>3 DEF Wait, PolledQueued, PolledBegun, PolledSteps, Reported
<1>4. CASE Repinned(j) \/ Retried(j)
  BY <1>4 DEF Repinned, Retried, Reported
<1> QED
  BY <1>1, <1>2, <1>3, <1>4 DEF Worker

LEMMA RequestsKept == ASSUME JobsInv, Next PROVE RequestsMake'
<1> USE DEF rows, message, life, actors, world, history
<1>0. /\ TypeOK /\ RequestsMake /\ asker \in [Jobs -> Requests]
      /\ shown \in [Jobs -> Texts \cup {"none", "deleted"}]
  BY DEF JobsInv, TypeOK
<1>1. \A i \in Jobs : RowGoes(i)
  BY RowStep
<1> DEFINE Goes(i) ==
       /\ asker'[i].at # "gone" => asker[i].at # "gone" /\ ~Add(i)
       /\ asker'[i].at = "adding" =>
             shown'[i] = "pending" \/ (asker[i].at = "adding" /\ shown'[i] = shown[i])
<1>2. \A i \in Jobs : Goes(i)
  <2>1. CASE UNCHANGED <<asker, shown>>
    BY <1>0, <2>1 DEF Add, Requests
  <2>2. ASSUME NEW j \in Jobs, Ask(j) \/ WithdrawStale(j) \/ EndStale(j) \/ Refuse(j) \/ Add(j)
        PROVE  \A i \in Jobs : Goes(i)
    <3>1. shown' = shown
      BY <2>2 DEF Ask, WithdrawStale, EndStale, Refuse, Add, Ended
    <3>2. \A i \in Jobs \ {j} : asker'[i] = asker[i]
      BY <1>0, <2>2 DEF Ask, WithdrawStale, EndStale, Refuse, Add, Set
    <3>3. asker[j].at # "gone" /\ asker'[j].at \in {"ending", "gone"}
      BY <1>0, <2>2 DEF Ask, WithdrawStale, EndStale, Refuse, Add, Set, Requests
    <3>4. \A i \in Jobs : Add(i) => asker'[i].at = "gone"
      BY <1>0 DEF Add, Requests
    <3> QED
      BY <1>0, <3>1, <3>2, <3>3, <3>4
  <2>3. ASSUME NEW j \in Jobs, Place(j) PROVE \A i \in Jobs : Goes(i)
    <3>1. /\ asker' = [asker EXCEPT ![j].at = "adding"] /\ asker[j].at = "ending"
          /\ shown' = [shown EXCEPT ![j] = "pending"]
      BY <2>3 DEF Place, Set
    <3>2. asker'[j].at = "adding" /\ \A i \in Jobs \ {j} : asker'[i] = asker[i]
      BY <1>0, <3>1 DEF Requests
    <3>3. \A i \in Jobs : Add(i) => asker'[i].at = "gone"
      BY <1>0 DEF Add, Requests
    <3> QED
      BY <1>0, <3>1, <3>2, <3>3
  <2>4. ASSUME NEW j \in Jobs, Delete(j) \/ MessageWritten(j) PROVE \A i \in Jobs : Goes(i)
    <3>1. asker[j].at = "gone"
      BY <2>4, AtWork DEF Delete, MessageWritten
    <3>2. asker' = asker /\ \A i \in Jobs \ {j} : shown'[i] = shown[i]
      BY <1>0, <2>4 DEF Delete, MessageWritten, Set
    <3>3. \A i \in Jobs : Add(i) => asker'[i].at = "gone"
      BY <1>0 DEF Add, Requests
    <3> QED
      BY <1>0, <3>1, <3>2, <3>3
  <2>5. CASE Crash
    BY <1>0, <2>5 DEF Crash, Add
  <2>6. ASSUME NEW j \in Jobs, DeleteReads(j) \/ PassOver(j) \/ Callback(j) \/ Deadline(j)
        PROVE  UNCHANGED <<asker, shown>>
    BY <2>6 DEF DeleteReads, PassOver, Callback, Deadline
  <2>7. ASSUME NEW j \in Jobs, Worker(j) PROVE UNCHANGED <<asker, shown>>
    BY <2>7, WorkerFrame
  <2>8. ASSUME Sweep \/ Start PROVE UNCHANGED <<asker, shown>>
    BY <2>8 DEF Sweep, Start, Restart, Started, Adopt, Ended
  <2> HIDE DEF Goes
  <2> QED
    BY <2>1, <2>2, <2>3, <2>4, <2>5, <2>6, <2>7, <2>8 DEF Next, Request
<1>3. ASSUME NEW i \in Jobs, asker'[i].at # "gone" PROVE row'[i] = "none"
  <2>1. row[i] = "none" /\ ~Add(i)
    BY <1>0, <1>2, <1>3 DEF RequestsMake
  <2> QED
    BY <1>1, <2>1 DEF RowGoes, Open
<1>4. ASSUME NEW i \in Jobs, asker'[i].at = "adding" PROVE shown'[i] = "pending"
  BY <1>0, <1>2, <1>4 DEF RequestsMake
<1> QED
  BY <1>3, <1>4 DEF RequestsMake

\* The coroutine of a job touches no other, and there is a row for it.
LEMMA WorkerOwn ==
    ASSUME JobsInv, NEW j \in Jobs, Worker(j)
    PROVE  /\ row[j] # "none" /\ (work[j].at # "idle" \/ swept[j] # Unread)
           /\ \A i \in Jobs \ {j} :
                 /\ work'[i] = work[i] /\ swept'[i] = swept[i] /\ due'[i] = due[i]
                 /\ row'[i] = row[i] /\ rigId'[i] = rigId[i] /\ render'[i] = render[i]
                 /\ (i \in lost' <=> i \in lost) /\ (i \in outdated' <=> i \in outdated)
<1> USE DEF rows, message, life, actors, world, history, Set
<1>0. /\ work \in [Jobs -> Coroutines] /\ swept \in [Jobs -> Snapshots \cup {Unread}]
      /\ due \in [Jobs -> Seq(Texts)] /\ row \in [Jobs -> RowStates]
      /\ rigId \in [Jobs -> 0..Submits] /\ render \in [Jobs -> [1..Submits -> RenderStates]]
  BY DEF JobsInv, TypeOK, RowStates
<1>1. work[j].at # "idle" \/ swept[j] # Unread
  BY DEF Worker, Advance, Expire, Wait, GiveUp, Submit, Accepted, AnsweredAtOnce, Unanswered,
         Repin, Repinned, Poll, PolledQueued, PolledBegun, PolledSteps, PolledFinished,
         Retried, PolledFailed, PolledCancelled, Deliver
<1>2. row[j] # "none"
  BY <1>1, AtWork
<1> SUFFICES ASSUME NEW i \in Jobs \ {j}
             PROVE  /\ work'[i] = work[i] /\ swept'[i] = swept[i] /\ due'[i] = due[i]
                    /\ row'[i] = row[i] /\ rigId'[i] = rigId[i] /\ render'[i] = render[i]
                    /\ (i \in lost' <=> i \in lost) /\ (i \in outdated' <=> i \in outdated)
  BY <1>1, <1>2
<1>3. CASE Advance(j) \/ Submit(j) \/ AnsweredAtOnce(j) \/ Repin(j) \/ Poll(j)
           \/ PolledFinished(j)
  BY <1>0, <1>3 DEF Advance, Claim, Submit, AnsweredAtOnce, Repin, Poll, PolledFinished
<1>4. CASE Accepted(j)
  BY <1>0, <1>4 DEF Accepted, Withdrawn, Free
<1>5. CASE Expire(j) \/ GiveUp(j) \/ PolledFailed(j) \/ PolledCancelled(j) \/ Deliver(j)
  <2>1. PICK state, text : Ended(j, state, text)
    BY <1>5 DEF Expire, GiveUp, PolledFailed, PolledCancelled, Deliver
  <2>2. row'[i] = row[i] /\ due'[i] = due[i] /\ rigId' = rigId
    BY <1>0, <2>1 DEF Ended, Rewritten
  <2>3. FreeAfterRewrite(j) /\ UNCHANGED <<swept, lost, outdated>>
    BY <1>5 DEF Expire, GiveUp, PolledFailed, PolledCancelled, Deliver
  <2>4. work'[i] = work[i]
    BY <1>0, <2>3 DEF FreeAfterRewrite
  <2>5. render'[i] = render[i]
    BY <1>0, <1>5 DEF Expire, Withdrawn, GiveUp, PolledFailed, PolledCancelled, Deliver
  <2> QED
    BY <2>2, <2>3, <2>4, <2>5
<1>6. CASE Unanswered(j)
  BY <1>0, <1>6 DEF Unanswered, Lost, Ended, Rewritten, FreeAfterRewrite
<1>7. CASE Wait(j) \/ PolledSteps(j) \/ PolledQueued(j) \/ PolledBegun(j)
  <2>1. due'[i] = due[i] /\ UNCHANGED <<row, rigId, render, swept, lost, outdated>>
    BY <1>0, <1>7 DEF Wait, PolledSteps, PolledQueued, PolledBegun, Reported, Rewritten
  <2>2. work'[i] = work[i]
    BY <1>0, <1>7 DEF Wait, PolledSteps, PolledQueued, PolledBegun, Free, FreeAfterRewrite
  <2> QED
    BY <2>1, <2>2
<1>8. CASE Repinned(j) \/ Retried(j)
  <2>1. UNCHANGED <<render, swept, lost, outdated>> /\ FreeAfterRewrite(j)
    BY <1>8 DEF Repinned, Retried
  <2>2. work'[i] = work[i]
    BY <1>0, <2>1 DEF FreeAfterRewrite
  <2>3. due'[i] = due[i] /\ row'[i] = row[i] /\ rigId'[i] = rigId[i]
    BY <1>0, <1>8 DEF Repinned, Retried, Reported, Rewritten
  <2> QED
    BY <2>1, <2>2, <2>3
<1> QED
  BY <1>3, <1>4, <1>5, <1>6, <1>7, <1>8 DEF Worker

\* Who else may touch a job's coroutine and what the sweep has read of it.
LEMMA OthersWork ==
    ASSUME JobsInv, NEW j \in Jobs,
           Ask(j) \/ DeleteReads(j) \/ Request(j) \/ MessageWritten(j) \/ Deadline(j)
    PROVE  /\ swept' = swept /\ adopting' = adopting
           /\ UNCHANGED <<lost, outdated, reopened, cut>>
           /\ \A i \in Jobs : work'[i] = work[i] \/ work'[i] = Idle
           /\ rigId' = rigId
<1> USE DEF rows, message, life, actors, world, history, Set
<1>0. work \in [Jobs -> Coroutines]
  BY DEF JobsInv, TypeOK
<1>1. CASE Ask(j) \/ DeleteReads(j) \/ Deadline(j) \/ WithdrawStale(j) \/ EndStale(j)
           \/ Refuse(j) \/ Place(j) \/ Add(j)
  BY <1>1 DEF Ask, DeleteReads, Deadline, WithdrawStale, EndStale, Ended, Refuse, Place, Add
<1>2. CASE Delete(j) \/ MessageWritten(j)
  BY <1>0, <1>2 DEF Delete, MessageWritten
<1> QED
  BY <1>1, <1>2 DEF Request

\* A row that is not there was not there, and nothing has begun.
LEMMA FirstKept == ASSUME JobsInv, Next PROVE NothingFirst'
<1> USE DEF rows, message, life, actors, world, history
<1>0. /\ TypeOK /\ NothingFirst /\ work \in [Jobs -> Coroutines]
      /\ due \in [Jobs -> Seq(Texts)] /\ swept \in [Jobs -> Snapshots \cup {Unread}]
      /\ deleting \in [Jobs -> {Nothing} \cup 0..Submits] /\ created \in Seq(Jobs)
  BY DEF JobsInv, TypeOK
<1>1. \A i \in Jobs : RowGoes(i)
  BY RowStep
<1> SUFFICES ASSUME NEW i \in Jobs, row'[i] = "none" PROVE Unmade(i)'
  BY DEF NothingFirst
<1>2. row[i] = "none" /\ Unmade(i)
  BY <1>0, <1>1 DEF RowGoes, Open, Terminal, NothingFirst
<1>3. ~IsOpen(i)
  BY <1>2 DEF IsOpen, Open
<1>4. ASSUME NEW j \in Jobs, Worker(j) PROVE Unmade(i)'
  <2>1. j # i
    BY <1>2, <1>4, WorkerOwn
  <2>2. work'[i] = work[i] /\ swept'[i] = swept[i] /\ due'[i] = due[i]
       /\ rigId'[i] = rigId[i] /\ (i \in lost' <=> i \in lost)
    BY <1>4, <2>1, WorkerOwn
  <2>3. UNCHANGED <<created, deleting, adopting>>
    BY <1>4, WorkerFrame
  <2> QED
    BY <1>2, <2>2, <2>3 DEF Unmade
<1>5. ASSUME NEW j \in Jobs,
             Ask(j) \/ DeleteReads(j) \/ Request(j) \/ MessageWritten(j) \/ Deadline(j)
      PROVE  Unmade(i)'
  <2>1. swept' = swept /\ adopting' = adopting /\ lost' = lost /\ rigId' = rigId
       /\ work'[i].at = "idle"
    BY <1>2, <1>5, OthersWork DEF Unmade, Idle
  <2>2. CASE Ask(j) \/ WithdrawStale(j) \/ Refuse(j) \/ Place(j) \/ Deadline(j)
    <3>1. UNCHANGED <<due, deleting, created>>
      BY <2>2 DEF Ask, WithdrawStale, Refuse, Place, Deadline
    <3> QED
      BY <1>2, <2>1, <3>1 DEF Unmade
  <2>3. CASE DeleteReads(j)
    <3>1. j # i /\ UNCHANGED <<due, created>> /\ deleting'[i] = deleting[i]
      BY <1>0, <1>2, <2>3 DEF DeleteReads, Set
    <3> QED
      BY <1>2, <2>1, <3>1 DEF Unmade
  <2>4. CASE Delete(j) \/ MessageWritten(j)
    <3>1. j # i
      BY <1>2, <2>4, AtWork DEF Delete, MessageWritten
    <3>2. created' = created /\ due'[i] = due[i] /\ deleting'[i] = deleting[i]
      BY <1>0, <2>4, <3>1 DEF Delete, MessageWritten, Set
    <3> QED
      BY <1>2, <2>1, <3>2 DEF Unmade
  <2>5. CASE EndStale(j)
    <3>1. due'[i] = due[i] /\ deleting' = deleting /\ created' = created
      BY <1>0, <1>3, <2>5 DEF EndStale, Ended, Rewritten, Set
    <3> QED
      BY <1>2, <2>1, <3>1 DEF Unmade
  <2>6. CASE Add(j)
    <3>1. row'[j] = "queued"
      BY <2>6 DEF Add, JobsInv, TypeOK, Set
    <3>2. j # i
      BY <3>1
    <3>3. created' = Append(created, j) /\ due' = due /\ deleting' = deleting
      BY <2>6 DEF Add
    <3>4. \A k \in DOMAIN created' : created'[k] # i
      BY <1>0, <1>2, <3>2, <3>3, AppendProperties DEF Unmade
    <3> QED
      BY <1>2, <2>1, <3>3, <3>4 DEF Unmade
  <2> QED
    BY <1>5, <2>2, <2>3, <2>4, <2>5, <2>6 DEF Request
<1>6. ASSUME NEW j \in Jobs, PassOver(j) \/ Callback(j) PROVE Unmade(i)'
  <2>1. UNCHANGED <<due, deleting, adopting, lost, created, rigId>>
    BY <1>6 DEF PassOver, Callback
  <2>2. work'[i] = work[i] /\ swept'[i] = Unread
    BY <1>0, <1>2, <1>3, <1>6 DEF PassOver, Callback, Claim, Set, Unmade
  <2> QED
    BY <1>2, <2>1, <2>2 DEF Unmade
<1>7. CASE Sweep
  <2>1. UNCHANGED <<due, deleting, adopting, lost, created, rigId, work>>
    BY <1>7 DEF Sweep
  <2>2. i \notin AcceptedJobs \cup Admitted
    BY <1>3 DEF AcceptedJobs, Admitted, WaitingJobs, OpenJobs
  <2>3. swept'[i] = Unread
    BY <1>7, <2>2 DEF Sweep
  <2> QED
    BY <1>2, <2>1, <2>3 DEF Unmade
<1>8. CASE Crash
  BY <1>2, <1>8 DEF Crash, Unmade, Idle
<1>9. CASE Start
  <2>1. UNCHANGED <<deleting, lost, created, rigId, work, swept>>
    BY <1>9 DEF Start, Restart, Started, Adopt, Ended
  <2>2. i \notin adopting'
    BY <1>2, <1>3, <1>9 DEF Start, Restart, Started, Adopt, Unmade, OpenJobs
  <2>3. due'[i] = due[i]
    BY <1>0, <1>3, <1>9 DEF Start, Restart, Started, Adopt, Ended, Rewritten, Set
  <2> QED
    BY <1>2, <2>1, <2>2, <2>3 DEF Unmade
<1> QED
  BY <1>4, <1>5, <1>6, <1>7, <1>8, <1>9 DEF Next

-----------------------------------------------------------------------------
(* The list of the rows, and what the placeholders say *)

\* The list of the rows grows at its end.
LEMMA CreatedStep ==
    ASSUME JobsInv, Next
    PROVE  created' = created \/ \E j \in Jobs : Add(j) /\ created' = Append(created, j)
<1> USE DEF rows, message, life, actors, world, history
<1>1. ASSUME NEW j \in Jobs, Worker(j) PROVE created' = created
  BY <1>1, WorkerFrame
<1>2. ASSUME NEW j \in Jobs,
             \/ Ask(j) \/ DeleteReads(j) \/ MessageWritten(j) \/ PassOver(j) \/ Callback(j)
             \/ Deadline(j) \/ WithdrawStale(j) \/ EndStale(j) \/ Refuse(j) \/ Place(j)
             \/ Delete(j)
      PROVE  created' = created
  BY <1>2 DEF Ask, DeleteReads, MessageWritten, PassOver, Callback, Deadline, WithdrawStale,
              EndStale, Refuse, Place, Delete, Ended
<1>3. ASSUME Sweep \/ Crash \/ Start PROVE created' = created
  BY <1>3 DEF Sweep, Crash, Start, Restart, Started, Adopt, Ended
<1>4. \A j \in Jobs : Add(j) => created' = Append(created, j)
  BY DEF Add
<1> QED
  BY <1>1, <1>2, <1>3, <1>4 DEF Next, Request

LEMMA ListedKept == ASSUME JobsInv, Next PROVE RowsListed'
<1> USE DEF rows, message, life, actors, world, history
<1>0. RowsListed /\ created \in Seq(Jobs) /\ \A i \in Jobs : RowGoes(i)
  BY RowStep DEF JobsInv, TypeOK
<1>1. CASE created' = created /\ \A i \in Jobs : ~Add(i)
  BY <1>0, <1>1 DEF RowsListed, RowGoes, Open
<1>2. ASSUME NEW j \in Jobs, Add(j) PROVE RowsListed'
  <2>1. row[j] = "none" /\ \A k \in DOMAIN created : created[k] # j
    BY <1>2 DEF Add, JobsInv, RequestsMake, NothingFirst, Unmade
  <2>2. created' = Append(created, j) /\ row' = [row EXCEPT ![j] = "queued"]
    BY <1>2 DEF Add, Set
  <2>3. /\ DOMAIN created' = 1..(Len(created) + 1) /\ DOMAIN created = 1..Len(created)
        /\ created'[Len(created) + 1] = j
        /\ \A k \in DOMAIN created : created'[k] = created[k]
    BY <1>0, <2>2, AppendProperties, LenProperties
  <2>4. \A i \in Jobs \ {j} : row'[i] = row[i]
    BY <2>2 DEF JobsInv, TypeOK
  <2>5. Len(created) \in Nat
    BY <1>0, LenProperties
  <2>6. ASSUME NEW i \in Jobs, row'[i] # "none" PROVE \E k \in DOMAIN created' : created'[k] = i
    BY <1>0, <2>3, <2>4, <2>5, <2>6 DEF RowsListed
  <2>7. ASSUME NEW k \in DOMAIN created', NEW l \in DOMAIN created', created'[k] = created'[l]
        PROVE  k = l
    BY <1>0, <2>1, <2>3, <2>5, <2>7 DEF RowsListed
  <2> QED
    BY <2>6, <2>7 DEF RowsListed
<1>3. (\A j \in Jobs : ~Add(j)) => created' = created
  BY CreatedStep
<1> QED
  BY <1>1, <1>2, <1>3

\* A rewrite is the last thing the placeholder will say.
LEMMA SaysRewritten ==
    ASSUME TypeOK, NEW i \in Jobs, NEW text \in Texts, due'[i] = Append(due[i], text)
    PROVE  Says(i)' = text
<1>1. due[i] \in Seq(Texts)
  BY DEF TypeOK
<1> QED
  BY <1>1, SaysLast DEF Says

\* Taking the head off leaves the last one last.
LEMMA LastOfTail ==
    ASSUME NEW s \in Seq(Texts), s # <<>>
    PROVE  /\ Len(s) = 1 => Tail(s) = <<>> /\ Head(s) = s[Len(s)]
           /\ Len(s) # 1 => Tail(s) # <<>> /\ Tail(s)[Len(Tail(s))] = s[Len(s)]
<1> DEFINE n == Len(s)
           t == Tail(s)
<1>1. n \in Nat \ {0}
  BY EmptySeq, LenProperties
<1>2. /\ Head(s) = s[1] /\ t \in Seq(Texts) /\ Len(t) = n - 1
      /\ \A k \in 1..Len(t) : t[k] = s[k + 1]
  BY HeadTailProperties
<1>3. t = <<>> <=> Len(t) = 0
  BY <1>2, EmptySeq
<1> HIDE DEF n, t
<1>4. n # 1 => n - 1 \in 1..(n - 1) /\ n - 1 # 0 /\ (n - 1) + 1 = n
  BY <1>1
<1>5. /\ n = 1 => t = <<>> /\ Head(s) = s[n]
      /\ n # 1 => t # <<>> /\ t[Len(t)] = s[n]
  BY <1>1, <1>2, <1>3, <1>4
<1> QED
  BY <1>5 DEF n, t

\* What is on its way does not change what will be said.
LEMMA SaysWritten ==
    ASSUME TypeOK, NEW i \in Jobs, MessageWritten(i)
    PROVE  Says(i)' = Says(i)
<1>1. /\ due[i] \in Seq(Texts) /\ due[i] # <<>>
      /\ due'[i] = Tail(due[i]) /\ shown'[i] = Head(due[i])
  BY DEF MessageWritten, Set, TypeOK
<1> QED
  BY <1>1, LastOfTail DEF Says

LEMMA TellsKept == ASSUME JobsInv, Next PROVE RewritesTellRow'
<1> USE DEF rows, message, life, actors, world, history
<1>0. /\ TypeOK /\ RewritesTellRow /\ row \in [Jobs -> RowStates]
      /\ due \in [Jobs -> Seq(Texts)] /\ shown \in [Jobs -> Texts \cup {"none", "deleted"}]
  BY DEF JobsInv, TypeOK, RowStates
<1> SUFFICES ASSUME NEW i \in Jobs, i \notin cut' PROVE Says(i)' \in Wordings(row[i])'
  BY DEF RewritesTellRow
<1>1. ASSUME i \notin cut, row'[i] = row[i], due'[i] = due[i], shown'[i] = shown[i]
      PROVE  Says(i)' \in Wordings(row[i])'
  <2>1. Says(i)' = Says(i)
    BY <1>1 DEF Says
  <2> QED
    BY <1>0, <1>1, <2>1 DEF RewritesTellRow, Wordings
<1>2. ASSUME i \notin cut, row'[i] \in Open, due'[i] = Append(due[i], "pending")
      PROVE  Says(i)' \in Wordings(row[i])'
  <2>1. Says(i)' = "pending"
    BY <1>0, <1>2, SaysRewritten DEF Texts
  <2> QED
    BY <1>2, <2>1 DEF Wordings, Open
<1>3. ASSUME NEW j \in Jobs, Closes(j), i \notin cut PROVE Says(i)' \in Wordings(row[i])'
  <2>1. PICK state \in Terminal : \E text \in Wordings(state) : Ended(j, state, text)
    BY <1>3 DEF Closes
  <2>2. PICK text \in Wordings(state) : Ended(j, state, text)
    BY <2>1
  <2>3. /\ shown' = shown
        /\ \/ row'[i] = row[i] /\ due'[i] = due[i]
           \/ row'[i] = state /\ due'[i] = Append(due[i], text)
    BY <1>0, <2>2, EndedEffect
  <2>4. CASE row'[i] = state /\ due'[i] = Append(due[i], text)
    <3>1. text \in Texts
      BY DEF Wordings, Terminal, Open, Texts
    <3>2. Says(i)' = text
      BY <1>0, <2>4, <3>1, SaysRewritten
    <3> QED
      BY <2>4, <3>2 DEF Wordings
  <2> QED
    BY <1>1, <1>3, <2>3, <2>4
<1>4. ASSUME NEW j \in Jobs,
             \/ EndStale(j) \/ Adopt(j) \/ Expire(j) \/ GiveUp(j) \/ Unanswered(j)
             \/ PolledFailed(j) \/ PolledCancelled(j) \/ Deliver(j)
      PROVE  Says(i)' \in Wordings(row[i])'
  <2>1. i \notin cut /\ ((\E k \in Jobs : Closes(k)) \/ UNCHANGED <<rows, message>>)
    BY <1>4, Closers
  <2> QED
    BY <1>1, <1>3, <2>1
<1>5. ASSUME NEW j \in Jobs, NEW new \in SUBSET Marks, Reported(j, new), i \notin cut
      PROVE  Says(i)' \in Wordings(row[i])'
  <2>1. /\ UNCHANGED <<row, shown>>
        /\ due'[i] = due[i] \/ (row[i] \in Open /\ due'[i] = Append(due[i], "pending"))
    BY <1>0, <1>5, ReportedEffect
  <2> QED
    BY <1>1, <1>2, <1>5, <2>1
<1>6. ASSUME NEW j \in Jobs, Wait(j) \/ PolledSteps(j) PROVE Says(i)' \in Wordings(row[i])'
  <2>1. work[j].job.marks \in SUBSET Marks
    BY <1>0 DEF TypeOK, Coroutines, Snapshots
  <2>2. PICK new \in SUBSET Marks : Reported(j, new)
    BY <1>6, <2>1 DEF Wait, PolledSteps, Marks
  <2>3. i \notin cut
    BY <1>6 DEF Wait, PolledSteps
  <2> QED
    BY <1>5, <2>2, <2>3
<1>7. ASSUME NEW j \in Jobs, Repinned(j) PROVE Says(i)' \in Wordings(row[i])'
  <2>1. work[j].job.marks \cup {"vram_repin"} \in SUBSET Marks
    BY <1>0 DEF TypeOK, Coroutines, Snapshots, Marks
  <2>2. i \notin cut
    BY <1>7 DEF Repinned
  <2>3. CASE Reported(j, work[j].job.marks \cup {"vram_repin"})
    BY <1>5, <2>1, <2>2, <2>3
  <2>4. CASE UNCHANGED <<row, due, shown>>
    BY <1>1, <2>2, <2>4
  <2>5. CASE /\ IsOpen(j) /\ row' = Set(row, j, "queued") /\ Rewritten(j, "pending")
             /\ UNCHANGED shown
    <3>1. CASE i = j
      BY <1>0, <1>2, <2>2, <2>5, <3>1 DEF IsOpen, Set, Rewritten, Open
    <3>2. CASE i # j
      BY <1>0, <1>1, <2>2, <2>5, <3>2 DEF IsOpen, Set, Rewritten, Open
    <3> QED
      BY <3>1, <3>2
  <2> QED
    BY <1>7, <2>3, <2>4, <2>5 DEF Repinned
<1>8. ASSUME NEW j \in Jobs, Retried(j) PROVE Says(i)' \in Wordings(row[i])'
  <2>1. i \notin cut /\ shown' = shown /\ Rewritten(j, "pending")
    BY <1>8 DEF Retried
  <2>2. CASE row[j] = "deleted"
    BY <1>1, <1>8, <2>1, <2>2 DEF Retried, Rewritten
  <2>3. CASE row[j] # "deleted" /\ i = j
    <3>1. row' = [row EXCEPT ![j] = "queued"]
      BY <1>8, <2>3 DEF Retried, Set
    <3> QED
      BY <1>0, <1>2, <2>1, <2>3, <3>1 DEF Rewritten, Set, Open
  <2>4. CASE row[j] # "deleted" /\ i # j
    <3>1. row' = [row EXCEPT ![j] = "queued"]
      BY <1>8, <2>4 DEF Retried, Set
    <3> QED
      BY <1>0, <1>1, <2>1, <2>4, <3>1 DEF Rewritten, Set
  <2> QED
    BY <2>2, <2>3, <2>4
<1>9. ASSUME NEW j \in Jobs, Place(j) \/ Add(j) PROVE Says(i)' \in Wordings(row[i])'
  <2>1. i \notin cut /\ due' = due
    BY <1>9 DEF Place, Add
  <2>2. row[j] = "none" /\ due[j] = <<>>
    BY <1>9 DEF Place, Add, JobsInv, RequestsMake, NothingFirst, Unmade
  <2>3. CASE i # j
    <3>1. row'[i] = row[i] /\ shown'[i] = shown[i]
      BY <1>0, <1>9, <2>3 DEF Place, Add, Set
    <3> QED
      BY <1>1, <2>1, <3>1
  <2>4. CASE i = j
    <3>1. shown'[i] = "pending" /\ row'[i] \in {"none", "queued"}
      BY <1>0, <1>9, <2>2, <2>4 DEF Place, Add, Set, JobsInv, RequestsMake
    <3>2. Says(i)' = "pending"
      BY <2>1, <2>2, <2>4, <3>1 DEF Says
    <3> QED
      BY <3>1, <3>2 DEF Wordings, Open
  <2> QED
    BY <2>3, <2>4
<1>10. ASSUME NEW j \in Jobs, Delete(j) PROVE Says(i)' \in Wordings(row[i])'
  <2>1. i \notin cut
    BY <1>10 DEF Delete
  <2>2. CASE i # j
    <3>1. row'[i] = row[i] /\ due'[i] = due[i] /\ shown'[i] = shown[i]
      BY <1>0, <1>10, <2>2 DEF Delete, Set
    <3> QED
      BY <1>1, <2>1, <3>1
  <2>3. CASE i = j
    <3>1. row'[i] = "deleted" /\ due'[i] = <<>> /\ shown'[i] = "deleted"
      BY <1>0, <1>10, <2>3 DEF Delete, Set
    <3> QED
      BY <3>1 DEF Says, Wordings, Open
  <2> QED
    BY <2>2, <2>3
<1>11. ASSUME NEW j \in Jobs, MessageWritten(j) PROVE Says(i)' \in Wordings(row[i])'
  <2>1. i \notin cut /\ row' = row
    BY <1>11 DEF MessageWritten
  <2>2. CASE i # j
    <3>1. due'[i] = due[i] /\ shown'[i] = shown[i]
      BY <1>0, <1>11, <2>2 DEF MessageWritten, Set
    <3> QED
      BY <1>1, <2>1, <3>1
  <2>3. CASE i = j
    BY <1>0, <1>11, <2>1, <2>3, SaysWritten DEF RewritesTellRow, Wordings
  <2> QED
    BY <2>2, <2>3
<1>12. ASSUME NEW j \in Jobs, Accepted(j) PROVE Says(i)' \in Wordings(row[i])'
  <2>1. i \notin cut /\ due' = due /\ shown' = shown
    BY <1>12 DEF Accepted
  <2>2. row'[i] = row[i] \/ (row[i] \in Open /\ row'[i] = "running")
    BY <1>0, <1>12 DEF Accepted, IsOpen, Set
  <2>3. Says(i)' = Says(i)
    BY <2>1 DEF Says
  <2> QED
    BY <1>0, <2>1, <2>2, <2>3 DEF RewritesTellRow, Wordings, Open
<1>13. CASE Crash
  <2>1. i \notin cut /\ due[i] = <<>> /\ due'[i] = <<>> /\ row' = row /\ shown' = shown
    BY <1>13 DEF Crash
  <2> QED
    BY <1>1, <2>1
<1>14. ASSUME UNCHANGED <<row, due, shown, cut>> PROVE Says(i)' \in Wordings(row[i])'
  BY <1>1, <1>14
<1>15. ASSUME NEW j \in Jobs,
              \/ Ask(j) \/ WithdrawStale(j) \/ Refuse(j) \/ DeleteReads(j) \/ Advance(j)
              \/ PassOver(j) \/ Callback(j) \/ Deadline(j)
       PROVE  UNCHANGED <<row, due, shown, cut>>
  BY <1>15 DEF Ask, WithdrawStale, Refuse, DeleteReads, Advance, PassOver, Callback, Deadline
<1>16. ASSUME NEW j \in Jobs,
              \/ Submit(j) \/ AnsweredAtOnce(j) \/ Repin(j) \/ Poll(j) \/ PolledQueued(j)
              \/ PolledBegun(j) \/ PolledFinished(j)
       PROVE  UNCHANGED <<row, due, shown, cut>>
  BY <1>16 DEF Submit, AnsweredAtOnce, Repin, Poll, PolledQueued, PolledBegun, PolledFinished
<1>17. ASSUME Sweep \/ Restart \/ Started PROVE UNCHANGED <<row, due, shown, cut>>
  BY <1>17 DEF Sweep, Restart, Started
<1> QED
  BY <1>4, <1>6, <1>7, <1>8, <1>9, <1>10, <1>11, <1>12, <1>13, <1>14, <1>15, <1>16, <1>17
     DEF Next, Request, Worker, Start

-----------------------------------------------------------------------------
(* What is known of a render *)

\* A job at rest is known as far as its row is.
LEMMA RestIsKnown == RunsRendered(NoJob) /\ RunsRendered(Unread)
BY DEF RunsRendered, NoJob, Unread

\* The renders that were begun stay begun, and only a submit begins one.
LEMMA BegunStays ==
    ASSUME JobsInv, Next
    PROVE  \A i \in Jobs, n \in 1..Submits :
               /\ render[i][n] # "none" => render'[i][n] # "none"
               /\ render[i][n] = "none" => render'[i][n] = "none" \/ work[i].at = "asking"
<1> USE DEF rows, message, life, actors, world, history
<1>0. /\ TypeOK /\ render \in [Jobs -> [1..Submits -> RenderStates]]
      /\ work \in [Jobs -> Coroutines] /\ asker \in [Jobs -> Requests]
      /\ rigId \in [Jobs -> 0..Submits] /\ deleting \in [Jobs -> {Nothing} \cup 0..Submits]
  BY DEF JobsInv, TypeOK
<1> DEFINE Stays ==
      \A i \in Jobs, n \in 1..Submits :
          /\ render[i][n] # "none" => render'[i][n] # "none"
          /\ render[i][n] = "none" => render'[i][n] = "none" \/ work[i].at = "asking"
<1>1. ASSUME render' = render PROVE Stays
  BY <1>1
<1>2. ASSUME NEW j \in Jobs, NEW n \in 0..Submits, Withdrawn(j, n) PROVE Stays
  BY <1>0, <1>2, WithdrawnEffect
<1>3. ASSUME NEW j \in Jobs, WithdrawStale(j) PROVE Stays
  <2>1. PICK old \in asker[j].stale : Withdrawn(old.job, old.rig)
    BY <1>3 DEF WithdrawStale
  <2>2. old.job \in Jobs /\ old.rig \in 0..Submits
    BY <1>0 DEF Requests
  <2> QED
    BY <1>2, <2>1, <2>2
<1>4. ASSUME NEW j \in Jobs, Delete(j) PROVE Stays
  <2>1. deleting[j] \in 0..Submits
    BY <1>0, <1>4 DEF Delete
  <2> QED
    BY <1>2, <1>4, <2>1 DEF Delete
<1>5. ASSUME NEW j \in Jobs, Expire(j) PROVE Stays
  <2>1. work[j].job.rig \in 0..Submits
    BY <1>0 DEF Coroutines, Snapshots
  <2> QED
    BY <1>2, <1>5, <2>1 DEF Expire
<1>6. ASSUME NEW j \in Jobs, Accepted(j) PROVE Stays
  <2>1. work[j].n \in 0..Submits
    BY <1>0 DEF Coroutines
  <2> QED
    BY <1>1, <1>2, <1>6, <2>1 DEF Accepted
<1>7. ASSUME NEW j \in Jobs, Adopt(j) PROVE Stays
  BY <1>0, <1>1, <1>2, <1>7 DEF Adopt
<1>8. ASSUME NEW j \in Jobs, Submit(j) PROVE Stays
  <2>1. PICK n \in 1..Submits : render' = [render EXCEPT ![j][n] = "queued"]
    BY <1>8 DEF Submit
  <2>2. work[j].at = "asking"
    BY <1>8 DEF Submit
  <2> QED
    BY <1>0, <2>1, <2>2
<1>9. ASSUME NEW j \in Jobs, AnsweredAtOnce(j) PROVE Stays
  <2>1. render' = [render EXCEPT ![j][work[j].n] = "finished"]
    BY <1>9 DEF AnsweredAtOnce
  <2>2. render[j][work[j].n] # "none"
    BY <1>9 DEF AnsweredAtOnce, JobsInv, RendersKnown
  <2> QED
    BY <1>0, <2>1, <2>2
<1>10. ASSUME NEW j \in Jobs, Poll(j) PROVE Stays
  <2> DEFINE n == work[j].job.rig
  <2>1. PICK now \in Since(render[j][n]) : render' = [render EXCEPT ![j][n] = now]
    BY <1>10 DEF Poll
  <2>2. render[j][n] # "none" <=> now # "none"
    BY <2>1 DEF Since, RenderStates, Alive
  <2> HIDE DEF n
  <2> QED
    BY <1>0, <2>1, <2>2
<1>11. ASSUME NEW j \in Jobs,
              \/ Ask(j) \/ EndStale(j) \/ Refuse(j) \/ Place(j) \/ Add(j) \/ DeleteReads(j)
              \/ MessageWritten(j) \/ PassOver(j) \/ Callback(j) \/ Deadline(j)
       PROVE  render' = render
  BY <1>11 DEF Ask, EndStale, Refuse, Place, Add, DeleteReads, MessageWritten, PassOver,
               Callback, Deadline
<1>12. ASSUME NEW j \in Jobs,
              \/ Advance(j) \/ Wait(j) \/ GiveUp(j) \/ Unanswered(j) \/ Repin(j)
              \/ Repinned(j) \/ PolledQueued(j) \/ PolledBegun(j) \/ PolledSteps(j)
              \/ PolledFinished(j) \/ Retried(j) \/ PolledFailed(j) \/ PolledCancelled(j)
              \/ Deliver(j)
       PROVE  render' = render
  BY <1>12 DEF Advance, Wait, GiveUp, Unanswered, Repin, Repinned, PolledQueued, PolledBegun,
               PolledSteps, PolledFinished, Retried, PolledFailed, PolledCancelled, Deliver
<1>13. ASSUME Sweep \/ Crash \/ Restart \/ Started PROVE render' = render
  BY <1>13 DEF Sweep, Crash, Restart, Started
<1> HIDE DEF Stays
<1>14. Stays
  BY <1>1, <1>3, <1>4, <1>5, <1>6, <1>7, <1>8, <1>9, <1>10, <1>11, <1>12, <1>13
     DEF Next, Request, Worker, Start
<1> QED
  BY <1>14 DEF Stays

\* Only the answer to a submit makes a row run; a row keeps its render but for
\* the two ways back to the queue.
LEMMA RunningStep ==
    ASSUME JobsInv, Next
    PROVE  \A i \in Jobs : row'[i] = "running" => rigId'[i] # 0
<1> USE DEF rows, message, life, actors, world, history
<1>0. /\ TypeOK /\ RendersKnown /\ row \in [Jobs -> RowStates] /\ rigId \in [Jobs -> 0..Submits]
      /\ work \in [Jobs -> Coroutines]
  BY DEF JobsInv, TypeOK, RowStates
<1> DEFINE Runs == \A i \in Jobs : row'[i] = "running" => rigId'[i] # 0
<1>1. ASSUME rigId' = rigId, \A i \in Jobs : row'[i] = row[i] \/ row'[i] # "running" PROVE Runs
  BY <1>0, <1>1 DEF RendersKnown
<1>2. ASSUME (\E j \in Jobs : Still(j)) \/ Sweep \/ Crash \/ Restart \/ Started PROVE Runs
  BY <1>1, <1>2, RowStill
<1>3. ASSUME NEW j \in Jobs,
             \/ EndStale(j) \/ Adopt(j) \/ Expire(j) \/ GiveUp(j) \/ Unanswered(j)
             \/ PolledFailed(j) \/ PolledCancelled(j) \/ Deliver(j)
      PROVE  Runs
  <2>1. CASE UNCHANGED <<rows, message>>
    BY <1>1, <2>1
  <2>2. ASSUME NEW k \in Jobs, Closes(k) PROVE Runs
    <3>1. PICK state \in Terminal : \E text \in Wordings(state) : Ended(k, state, text)
      BY <2>2 DEF Closes
    <3>2. rigId' = rigId /\ \A i \in Jobs : row'[i] = row[i] \/ row'[i] = state
      BY <1>0, <3>1, EndedEffect
    <3> QED
      BY <1>1, <3>2 DEF Terminal
  <2> QED
    BY <1>3, <2>1, <2>2, Closers
<1>4. ASSUME NEW j \in Jobs, Add(j) \/ Delete(j) PROVE Runs
  BY <1>0, <1>1, <1>4 DEF Add, Delete, Set
<1>5. ASSUME NEW j \in Jobs, Accepted(j) PROVE Runs
  <2>1. work[j].n # 0
    BY <1>0, <1>5 DEF Accepted, RendersKnown
  <2>2. \/ row' = row /\ rigId' = rigId
        \/ row' = [row EXCEPT ![j] = "running"] /\ rigId' = [rigId EXCEPT ![j] = work[j].n]
    BY <1>5 DEF Accepted, Set
  <2> QED
    BY <1>0, <2>1, <2>2 DEF RendersKnown
<1>6. ASSUME NEW j \in Jobs, Repinned(j) \/ Retried(j) PROVE Runs
  <2>1. \/ row' = row /\ rigId' = rigId
        \/ row' = [row EXCEPT ![j] = "queued"] /\ rigId' = [rigId EXCEPT ![j] = 0]
    BY <1>6 DEF Repinned, Retried, Reported, Set
  <2> QED
    BY <1>0, <2>1 DEF RendersKnown
<1> HIDE DEF Runs
<1>7. Runs
  BY <1>2, <1>3, <1>4, <1>5, <1>6 DEF Next, Request, Worker, Start, Still
<1> QED
  BY <1>7 DEF Runs

\* Only the sweep reads.
LEMMA SweptStep ==
    ASSUME JobsInv, Next, NEW i \in Jobs
    PROVE  swept'[i] = swept[i] \/ swept'[i] = Unread \/ (Sweep /\ IsOpen(i))
<1> USE DEF rows, message, life, actors, world, history
<1>0. swept \in [Jobs -> Snapshots \cup {Unread}]
  BY DEF JobsInv, TypeOK
<1>1. ASSUME NEW j \in Jobs, Worker(j) \/ PassOver(j)
      PROVE  swept'[i] = swept[i] \/ swept'[i] = Unread
  <2>1. CASE Advance(j) \/ PassOver(j)
    BY <1>0, <2>1 DEF Advance, PassOver, Set
  <2>2. CASE Worker(j) /\ ~Advance(j)
    BY <2>2 DEF Worker, Expire, Wait, GiveUp, Submit, Accepted, AnsweredAtOnce, Unanswered,
       Repin, Repinned, Poll, PolledQueued, PolledBegun, PolledSteps, PolledFinished,
       Retried, PolledFailed, PolledCancelled, Deliver
  <2> QED
    BY <1>1, <2>1, <2>2
<1>2. CASE Sweep
  <2>1. i \in AcceptedJobs \cup Admitted \/ swept'[i] = Unread
    BY <1>2 DEF Sweep
  <2> QED
    BY <1>2, <2>1 DEF AcceptedJobs, Admitted, WaitingJobs, OpenJobs
<1>3. CASE Crash
  BY <1>3 DEF Crash
<1>4. ASSUME Start \/ \E j \in Jobs : Callback(j) PROVE swept' = swept
  BY <1>4 DEF Start, Restart, Started, Adopt, Callback
<1>5. ASSUME NEW j \in Jobs,
             Ask(j) \/ DeleteReads(j) \/ Request(j) \/ MessageWritten(j) \/ Deadline(j)
      PROVE  swept' = swept
  BY <1>5, OthersWork
<1> QED
  BY <1>1, <1>2, <1>3, <1>4, <1>5 DEF Next

\* What has been read of a row that runs has its render.
LEMMA ReadsKnown ==
    ASSUME JobsInv, Next
    PROVE  \A i \in Jobs : RunsRendered(swept[i])'
<1> SUFFICES ASSUME NEW i \in Jobs PROVE RunsRendered(swept'[i])
  BY DEF RunsRendered
<1>1. RunsRendered(swept[i]) /\ RunsRendered(Unread) /\ RunsRendered(Row(i))
  BY RestIsKnown DEF JobsInv, RendersKnown, RunsRendered, Row
<1>2. Sweep => swept'[i] \in {Row(i), Unread}
  BY DEF Sweep
<1> QED
  BY <1>1, <1>2, SweptStep

\* What becomes of the coroutine of a job.
WorkGoes(i) ==
    \/ work'[i] = work[i]
    \/ /\ work'[i].at \in {"idle", "writing"} /\ work'[i].job = NoJob
       /\ work'[i].at = "writing" => work[i].at # "idle"
    \/ /\ work[i].at \notin {"idle", "writing"}
       /\ work'[i].at \in {"fetching", "repinning", "polled"} /\ work'[i].job = work[i].job
    \/ Submit(i) \/ Advance(i) \/ Callback(i)

LEMMA WorkStep == ASSUME JobsInv, Next PROVE \A i \in Jobs : WorkGoes(i)
<1> USE DEF rows, message, life, actors, world, history
<1>0. TypeOK /\ work \in [Jobs -> Coroutines] /\ Idle.at = "idle" /\ Idle.job = NoJob
  BY DEF JobsInv, TypeOK, Idle
<1> SUFFICES ASSUME NEW i \in Jobs PROVE WorkGoes(i)
  OBVIOUS
<1>1. ASSUME NEW j \in Jobs, Worker(j) PROVE WorkGoes(i)
  <2>1. CASE i # j
    BY <1>1, <2>1, WorkerOwn DEF WorkGoes
  <2>2. CASE i = j /\ (Submit(j) \/ Advance(j))
    BY <2>2 DEF WorkGoes
  <2>3. CASE i = j /\ (AnsweredAtOnce(j) \/ Repin(j) \/ PolledFinished(j))
    BY <1>0, <2>3 DEF AnsweredAtOnce, Repin, PolledFinished, WorkGoes, Coroutines
  <2>4. CASE i = j /\ Poll(j)
    <3>1. PICK now : work' = [work EXCEPT ![j].at = "polled", ![j].answer = now]
      BY <2>4 DEF Poll
    <3> QED
      BY <1>0, <2>4, <3>1 DEF Poll, WorkGoes, Coroutines
  <2>5. CASE /\ i = j
             /\ \/ Expire(j) \/ GiveUp(j) \/ Unanswered(j) \/ PolledFailed(j)
                \/ PolledCancelled(j) \/ Deliver(j) \/ Wait(j) \/ Accepted(j) \/ Repinned(j)
                \/ PolledQueued(j) \/ PolledBegun(j) \/ PolledSteps(j) \/ Retried(j)
    <3>1. work[j].at # "idle" /\ (Free(j) \/ FreeAfterRewrite(j))
      BY <2>5 DEF Expire, GiveUp, Unanswered, PolledFailed, PolledCancelled, Deliver, Wait,
                  Accepted, Repinned, PolledQueued, PolledBegun, PolledSteps, Retried
    <3> QED
      BY <1>0, <2>5, <3>1, FreeEffect DEF WorkGoes
  <2> QED
    BY <1>1, <2>1, <2>2, <2>3, <2>4, <2>5 DEF Worker
<1>2. ASSUME NEW j \in Jobs,
             Ask(j) \/ DeleteReads(j) \/ Request(j) \/ MessageWritten(j) \/ Deadline(j)
      PROVE  WorkGoes(i)
  BY <1>0, <1>2, OthersWork DEF WorkGoes
<1>3. ASSUME NEW j \in Jobs, Callback(j) PROVE WorkGoes(i)
  BY <1>0, <1>3 DEF Callback, Claim, Set, WorkGoes
<1>4. ASSUME Sweep \/ Start \/ \E j \in Jobs : PassOver(j) PROVE WorkGoes(i)
  BY <1>4 DEF Sweep, Start, Restart, Started, Adopt, PassOver, WorkGoes
<1>5. CASE Crash
  BY <1>0, <1>5 DEF Crash, WorkGoes
<1> QED
  BY <1>1, <1>2, <1>3, <1>4, <1>5 DEF Next

LEMMA KnownKept == ASSUME JobsInv, Next PROVE RendersKnown'
<1> USE DEF rows, message, life, actors, world, history
<1>0. /\ TypeOK /\ RendersKnown /\ work \in [Jobs -> Coroutines]
      /\ swept \in [Jobs -> Snapshots \cup {Unread}]
      /\ render \in [Jobs -> [1..Submits -> RenderStates]]
  BY DEF JobsInv, TypeOK
<1>1. \A i \in Jobs : row'[i] = "running" => rigId'[i] # 0
  BY RunningStep
<1>2. \A i \in Jobs : RunsRendered(swept[i])'
  BY ReadsKnown
<1> SUFFICES ASSUME NEW i \in Jobs
             PROVE  /\ RunsRendered(work'[i].job)
                    /\ work'[i].at = "polling" => work'[i].job.state = "running"
                    /\ work'[i].at = "answering" =>
                          work'[i].n # 0 /\ render'[i][work'[i].n] # "none"
  BY <1>1, <1>2 DEF RendersKnown, RunsRendered
<1>3. RunsRendered(work[i].job) /\ RunsRendered(NoJob)
  BY <1>0, RestIsKnown DEF RendersKnown
<1>4. CASE work'[i] = work[i]
  <2>1. work[i].at = "answering" => work[i].n \in 1..Submits /\ render[i][work[i].n] # "none"
    BY <1>0, SubmitsAssumption DEF RendersKnown, Coroutines
  <2>2. work[i].at = "answering" => work[i].n # 0 /\ render'[i][work[i].n] # "none"
    BY <2>1, BegunStays
  <2> QED
    BY <1>0, <1>3, <1>4, <2>2 DEF RendersKnown
<1>5. CASE \/ work'[i].at \in {"idle", "writing"} /\ work'[i].job = NoJob
           \/ /\ work'[i].at \in {"fetching", "repinning", "polled"}
              /\ work'[i].job = work[i].job
  BY <1>3, <1>5
<1>6. CASE Submit(i)
  <2>1. PICK n \in 1..Submits :
          /\ render' = [render EXCEPT ![i][n] = "queued"]
          /\ work' = [work EXCEPT ![i].at = "answering", ![i].n = n]
    BY <1>6 DEF Submit
  <2>2. /\ work'[i].job = work[i].job /\ work'[i].at = "answering" /\ work'[i].n = n
        /\ render'[i][n] = "queued" /\ n # 0
    BY <1>0, <2>1, SubmitsAssumption DEF Coroutines
  <2> QED
    BY <1>3, <2>2
<1>7. ASSUME NEW job \in Snapshots, NEW by \in {"sweep", "callback"}, Claim(i, job, by),
             RunsRendered(job)
      PROVE  /\ RunsRendered(work'[i].job)
             /\ work'[i].at = "polling" => work'[i].job.state = "running"
             /\ work'[i].at # "answering"
  BY <1>0, <1>7, ClaimEffect
<1>8. CASE Advance(i)
  <2>1. swept[i] \in Snapshots /\ RunsRendered(swept[i]) /\ Claim(i, swept[i], "sweep")
    BY <1>0, <1>8 DEF Advance, RendersKnown
  <2> QED
    BY <1>7, <2>1
<1>9. CASE Callback(i)
  <2>1. Row(i) \in Snapshots /\ RunsRendered(Row(i)) /\ Claim(i, Row(i), "callback")
    BY <1>0, <1>9, RowIsSnapshot DEF Callback, RendersKnown, RunsRendered, Row
  <2> QED
    BY <1>7, <2>1
<1>10. WorkGoes(i)
  BY WorkStep
<1> QED
  BY <1>4, <1>5, <1>6, <1>8, <1>9, <1>10 DEF WorkGoes

-----------------------------------------------------------------------------
(* Lost answers *)

\* A job whose answer is lost was ended with it.
LEMMA LostStep ==
    ASSUME JobsInv, Next
    PROVE  \A i \in lost' \ outdated' :
               i \in lost \ outdated \/ (Unanswered(i) /\ swept[i] = Unread)
<1> USE DEF rows, message, life, actors, world, history
<1>1. ASSUME NEW j \in Jobs, Unanswered(j)
      PROVE  \A i \in lost' \ outdated' :
                 i \in lost \ outdated \/ (Unanswered(i) /\ swept[i] = Unread)
  BY <1>1 DEF Unanswered, Lost
<1>2. ASSUME NEW j \in Jobs,
             \/ Ask(j) \/ DeleteReads(j) \/ Request(j) \/ MessageWritten(j) \/ Deadline(j)
      PROVE  UNCHANGED <<lost, outdated>>
  BY <1>2, OthersWork
<1>3. ASSUME NEW j \in Jobs, Worker(j), ~Unanswered(j) PROVE UNCHANGED <<lost, outdated>>
  BY <1>3 DEF Worker, Advance, Expire, Wait, GiveUp, Submit, Accepted, AnsweredAtOnce, Repin,
              Repinned, Poll, PolledQueued, PolledBegun, PolledSteps, PolledFinished,
              Retried, PolledFailed, PolledCancelled, Deliver
<1>4. ASSUME NEW j \in Jobs, PassOver(j) \/ Callback(j) PROVE UNCHANGED <<lost, outdated>>
  BY <1>4 DEF PassOver, Callback
<1>5. ASSUME Sweep \/ Crash \/ Start PROVE UNCHANGED <<lost, outdated>>
  BY <1>5 DEF Sweep, Crash, Start, Restart, Started, Adopt
<1>6. (\E j \in Jobs : Unanswered(j)) \/ UNCHANGED <<lost, outdated>>
  BY <1>2, <1>3, <1>4, <1>5 DEF Next
<1> QED
  BY <1>1, <1>6

LEMMA LostKept == ASSUME JobsInv, Next PROVE LostIsOver'
<1> USE DEF rows, message, life, actors, world, history
<1>0. TypeOK /\ LostIsOver /\ lost' \subseteq Jobs
  BY TypeKept DEF JobsInv, TypeOK
<1> SUFFICES ASSUME NEW i \in lost' \ outdated'
             PROVE  /\ row'[i] \notin Open /\ swept'[i] = Unread
                    /\ work'[i].at \in {"idle", "writing"}
  BY DEF LostIsOver
<1>1. i \in Jobs
  BY <1>0
<1>2. CASE Unanswered(i) /\ swept[i] = Unread
  <2>1. row'[i] \notin Open
    BY <1>0, <1>1, <1>2, EndedEffect, EndingsWorded DEF Unanswered
  <2>2. work'[i].at \in {"idle", "writing"}
    BY <1>0, <1>1, <1>2, FreeEffect DEF Unanswered
  <2> QED
    BY <1>2, <2>1, <2>2 DEF Unanswered
<1>3. CASE i \in lost \ outdated
  <2>1. row[i] \notin Open /\ swept[i] = Unread /\ work[i].at \in {"idle", "writing"}
    BY <1>0, <1>3 DEF LostIsOver
  <2>2. row[i] # "none"
    BY <1>1, <1>3 DEF JobsInv, NothingFirst, Unmade
  <2>3. row'[i] \notin Open
    <3>1. RowGoes(i)
      BY <1>1, RowStep
    <3> QED
      BY <2>1, <2>2, <3>1 DEF RowGoes, Open
  <2>4. swept'[i] = Unread
    BY <1>1, <2>1, SweptStep DEF IsOpen
  <2>5. work'[i].at \in {"idle", "writing"}
    <3>1. WorkGoes(i)
      BY <1>1, WorkStep
    <3>2. ~Submit(i) /\ ~Advance(i) /\ ~Callback(i)
      BY <2>1 DEF Submit, Advance, Callback, IsOpen
    <3> QED
      BY <2>1, <3>1, <3>2 DEF WorkGoes
  <2> QED
    BY <2>3, <2>4, <2>5
<1> QED
  BY <1>2, <1>3, LostStep

-----------------------------------------------------------------------------
(* Admission *)

\* The rows are finitely many.
LEMMA FewOpen == ASSUME JobsInv PROVE IsFiniteSet(OpenJobs)
<1>1. RowsListed /\ created \in Seq(Jobs) /\ row \in [Jobs -> RowStates]
  BY DEF JobsInv, TypeOK, RowStates
<1>2. DOMAIN created = 1..Len(created) /\ Len(created) \in Nat
  BY <1>1, LenProperties
<1>3. IsFiniteSet(1..Len(created))
  BY <1>2, FS_Interval
<1> DEFINE place == [j \in OpenJobs |-> CHOOSE k \in DOMAIN created : created[k] = j]
<1>4. \A j \in OpenJobs : place[j] \in DOMAIN created /\ created[place[j]] = j
  BY <1>1 DEF RowsListed, OpenJobs, IsOpen, Open
<1>5. place \in Injection(OpenJobs, 1..Len(created))
  <2>1. place \in [OpenJobs -> 1..Len(created)]
    BY <1>2, <1>4
  <2>2. \A i, j \in OpenJobs : place[i] = place[j] => i = j
    BY <1>4
  <2> HIDE DEF place
  <2> QED
    BY <2>1, <2>2 DEF Injection, IsInjective
<1> QED
  BY <1>3, <1>5, FS_Injection

\* The rows are in one order.
LEMMA OlderOrders ==
    ASSUME JobsInv
    PROVE  /\ \A i, j, k : Older(i, j) /\ Older(j, k) => Older(i, k)
           /\ \A i : ~Older(i, i)
           /\ \A i, j \in OpenJobs : i = j \/ Older(i, j) \/ Older(j, i)
<1>1. /\ RowsListed /\ DOMAIN created = 1..Len(created) /\ Len(created) \in Nat
  BY LenProperties DEF JobsInv, TypeOK
<1>2. \A k, l \in DOMAIN created : created[k] = created[l] => k = l
  BY <1>1 DEF RowsListed
<1>3. ASSUME NEW i, NEW j, NEW m, Older(i, j), Older(j, m) PROVE Older(i, m)
  <2>1. PICK k \in DOMAIN created, l \in DOMAIN created :
          k < l /\ created[k] = i /\ created[l] = j
    BY <1>3 DEF Older
  <2>2. PICK p \in DOMAIN created, q \in DOMAIN created :
          p < q /\ created[p] = j /\ created[q] = m
    BY <1>3 DEF Older
  <2>3. l = p
    BY <1>2, <2>1, <2>2
  <2>4. k < q
    BY <1>1, <2>1, <2>2, <2>3
  <2> QED
    BY <2>1, <2>2, <2>4 DEF Older
<1>4. ASSUME NEW i, Older(i, i) PROVE FALSE
  <2>1. PICK k \in DOMAIN created, l \in DOMAIN created :
          k < l /\ created[k] = i /\ created[l] = i
    BY <1>4 DEF Older
  <2>2. k = l
    BY <1>2, <2>1
  <2> QED
    BY <1>1, <2>1, <2>2
<1>5. ASSUME NEW i \in OpenJobs, NEW j \in OpenJobs PROVE i = j \/ Older(i, j) \/ Older(j, i)
  <2>1. PICK k \in DOMAIN created : created[k] = i
    BY <1>1 DEF RowsListed, OpenJobs, IsOpen, Open
  <2>2. PICK l \in DOMAIN created : created[l] = j
    BY <1>1 DEF RowsListed, OpenJobs, IsOpen, Open
  <2>3. k < l \/ l < k \/ k = l
    BY <1>1
  <2> QED
    BY <2>1, <2>2, <2>3 DEF Older
<1> QED
  BY <1>3, <1>4, <1>5

Before(j) == {i \in WaitingJobs : Older(i, j)}

\* Of two that wait fewer stand before the older one, and it is let in first.
LEMMA BeforeOrders ==
    ASSUME JobsInv, NEW i \in WaitingJobs, NEW j \in WaitingJobs, Older(i, j)
    PROVE  /\ Cardinality(Before(i)) \in Nat /\ Cardinality(Before(j)) \in Nat
           /\ Cardinality(Before(i)) < Cardinality(Before(j))
<1>1. Before(i) \subseteq Before(j) /\ i \in Before(j) /\ i \notin Before(i)
  BY OlderOrders DEF Before
<1>2. Before(j) \subseteq OpenJobs
  BY DEF Before, WaitingJobs
<1>3. IsFiniteSet(Before(j))
  BY <1>2, FewOpen, FS_Subset
<1>4. /\ IsFiniteSet(Before(i)) /\ Cardinality(Before(i)) <= Cardinality(Before(j))
      /\ Cardinality(Before(i)) # Cardinality(Before(j))
  BY <1>1, <1>3, FS_Subset
<1> QED
  BY <1>3, <1>4, FS_CardinalityType

\* The renders counted, and the room they leave.
LEMMA RoomLeft ==
    ASSUME JobsInv
    PROVE  /\ IsFiniteSet(AcceptedJobs) /\ Cardinality(AcceptedJobs) \in Nat /\ Room \in Nat
           /\ Room # 0 => Cardinality(AcceptedJobs) + Room = MaxOpen
<1>1. IsFiniteSet(AcceptedJobs)
  BY FewOpen, FS_Subset DEF AcceptedJobs
<1>2. Cardinality(AcceptedJobs) \in Nat
  BY <1>1, FS_CardinalityType
<1> QED
  BY <1>1, <1>2, MaxOpenAssumption DEF Room

\* The sweep lets in no more than there is room for.
LEMMA AdmittedFit ==
    ASSUME JobsInv
    PROVE  /\ IsFiniteSet(Admitted) /\ Cardinality(Admitted) \in Nat
           /\ Cardinality(Admitted) <= Room
<1>1. Admitted \subseteq WaitingJobs /\ Admitted \subseteq OpenJobs /\ WaitingJobs \subseteq OpenJobs
  BY DEF Admitted, WaitingJobs
<1>2. IsFiniteSet(Admitted) /\ Cardinality(Admitted) \in Nat
  BY <1>1, FewOpen, FS_Subset, FS_CardinalityType
<1>3. Room \in Nat
  BY RoomLeft
<1>4. \A j \in Admitted : Cardinality(Before(j)) \in Nat /\ Cardinality(Before(j)) < Room
  <2>1. \A j \in Admitted : IsFiniteSet(Before(j))
    BY <1>1, FewOpen, FS_Subset DEF Before
  <2> QED
    BY <2>1, FS_CardinalityType DEF Admitted, Before
<1> DEFINE rank == [j \in Admitted |-> Cardinality(Before(j))]
           ranks == 0..(Room - 1)
<1>5. rank \in Injection(Admitted, ranks)
  <2>1. rank \in [Admitted -> ranks]
    BY <1>3, <1>4
  <2>2. ASSUME NEW i \in Admitted, NEW j \in Admitted, rank[i] = rank[j] PROVE i = j
    <3>1. i = j \/ Older(i, j) \/ Older(j, i)
      BY <1>1, OlderOrders
    <3>2. ~Older(i, j)
      BY <1>1, <2>2, BeforeOrders
    <3>3. ~Older(j, i)
      BY <1>1, <2>2, BeforeOrders
    <3> QED
      BY <3>1, <3>2, <3>3
  <2> HIDE DEF rank, ranks
  <2> QED
    BY <2>1, <2>2 DEF Injection, IsInjective
<1>6. IsFiniteSet(ranks) /\ Cardinality(ranks) = Room
  BY <1>3, FS_Interval
<1> HIDE DEF rank, ranks
<1>7. Cardinality(Admitted) <= Cardinality(ranks)
  BY <1>5, <1>6, FS_Injection
<1> QED
  BY <1>2, <1>6, <1>7

\* Nothing but the sweep lets a job in.
LEMMA EnteredStep ==
    ASSUME JobsInv, Next, ~Sweep, NEW i \in Jobs, Entered(i)'
    PROVE  Entered(i)
<1> USE DEF rows, message, life, actors, world, history
<1>0. /\ TypeOK /\ NothingFirst /\ RowGoes(i) /\ WorkGoes(i)
      /\ row \in [Jobs -> RowStates] /\ rigId \in [Jobs -> 0..Submits]
  BY RowStep, WorkStep DEF JobsInv, TypeOK, RowStates
<1>1. CASE swept'[i] # Unread
  BY <1>1, SweptStep DEF Entered
<1>2. CASE work'[i].at # "idle"
  <2>1. CASE Callback(i)
    BY <2>1, SubmitsAssumption DEF Callback, Entered
  <2>2. CASE Submit(i) \/ Advance(i)
    BY <2>2 DEF Submit, Advance, Entered
  <2> QED
    BY <1>0, <1>2, <2>1, <2>2 DEF WorkGoes, Entered
<1>3. CASE \E n \in 1..Submits : render'[i][n] # "none"
  BY <1>3, BegunStays DEF Entered
<1>4. CASE row'[i] \in Open /\ rigId'[i] # 0
  <2>1. CASE work[i].at # "idle"
    BY <2>1 DEF Entered
  <2>2. CASE work[i].at = "idle" /\ rigId'[i] = rigId[i]
    <3>1. CASE Add(i)
      BY <1>0, <1>4, <2>2, <3>1 DEF Add, JobsInv, RequestsMake, NothingFirst, Unmade
    <3>2. CASE ~Add(i)
      BY <1>0, <1>4, <2>2, <3>2 DEF RowGoes, Entered, Open
    <3> QED
      BY <3>1, <3>2
  <2>3. rigId'[i] = rigId[i] \/ work[i].at # "idle"
    <3>1. ASSUME NEW j \in Jobs, Worker(j), i # j PROVE rigId'[i] = rigId[i]
      BY <3>1, WorkerOwn
    <3>2. ASSUME Worker(i), ~Advance(i) PROVE work[i].at # "idle"
      BY <3>2 DEF Worker, Expire, Wait, GiveUp, Submit, Accepted, AnsweredAtOnce, Unanswered,
         Repin, Repinned, Poll, PolledQueued, PolledBegun, PolledSteps, PolledFinished,
         Retried, PolledFailed, PolledCancelled, Deliver
    <3>3. ASSUME NEW j \in Jobs,
                 \/ Ask(j) \/ DeleteReads(j) \/ Request(j) \/ MessageWritten(j)
                 \/ Deadline(j)
          PROVE  rigId' = rigId
      BY <3>3, OthersWork
    <3>4. ASSUME NEW j \in Jobs, PassOver(j) \/ Callback(j) \/ Advance(j) PROVE rigId' = rigId
      BY <3>4 DEF PassOver, Callback, Advance
    <3>5. ASSUME Crash \/ Start PROVE rigId' = rigId
      BY <3>5 DEF Crash, Start, Restart, Started, Adopt, Ended
    <3> QED
      BY <3>1, <3>2, <3>3, <3>4, <3>5 DEF Next
  <2> QED
    BY <2>1, <2>2, <2>3
<1> QED
  BY <1>1, <1>2, <1>3, <1>4 DEF Entered

LEMMA OlderStep ==
    ASSUME JobsInv, Next, NEW i \in Jobs, NEW j \in Jobs, row[j] # "none", Older(i, j)'
    PROVE  Older(i, j)
<1>1. CASE created' = created
  BY <1>1 DEF Older
<1>2. ASSUME NEW m \in Jobs, Add(m), created' = Append(created, m) PROVE Older(i, j)
  <2>1. m # j
    BY <1>2 DEF Add, JobsInv, RequestsMake
  <2>2. created \in Seq(Jobs)
    BY DEF JobsInv, TypeOK
  <2> DEFINE n == Len(created)
  <2>3. /\ DOMAIN created = 1..n /\ n \in Nat /\ DOMAIN created' = 1..(n + 1)
        /\ \A k \in 1..n : created'[k] = created[k]
        /\ created'[n + 1] = m
    BY <1>2, <2>2, LenProperties, AppendProperties
  <2> HIDE DEF n
  <2>4. PICK k \in 1..(n + 1), l \in 1..(n + 1) : k < l /\ created'[k] = i /\ created'[l] = j
    BY <2>3 DEF Older
  <2>5. l # n + 1
    BY <2>1, <2>3, <2>4
  <2>6. k \in 1..n /\ l \in 1..n
    BY <2>3, <2>4, <2>5
  <2> QED
    BY <2>3, <2>4, <2>6 DEF Older
<1> QED
  BY <1>1, <1>2, CreatedStep

LEMMA ReopenedGrows == ASSUME JobsInv, Next PROVE reopened \subseteq reopened'
<1> USE DEF rows, message, life, actors, world, history
<1>1. ASSUME NEW j \in Jobs, Worker(j) PROVE reopened \subseteq reopened'
  <2>1. CASE Retried(j)
    BY <2>1 DEF Retried
  <2>2. CASE ~Retried(j)
    BY <1>1, <2>2 DEF Worker, Advance, Expire, Wait, GiveUp, Submit, Accepted,
       AnsweredAtOnce, Unanswered, Repin, Repinned, Poll, PolledQueued, PolledBegun,
       PolledSteps, PolledFinished, PolledFailed, PolledCancelled, Deliver
  <2> QED
    BY <2>1, <2>2
<1>2. ASSUME NEW j \in Jobs,
             Ask(j) \/ DeleteReads(j) \/ Request(j) \/ MessageWritten(j) \/ Deadline(j)
      PROVE  reopened' = reopened
  BY <1>2, OthersWork
<1>3. ASSUME NEW j \in Jobs, PassOver(j) \/ Callback(j) PROVE reopened' = reopened
  BY <1>3 DEF PassOver, Callback
<1>4. ASSUME Sweep \/ Crash \/ Start PROVE reopened' = reopened
  BY <1>4 DEF Sweep, Crash, Start, Restart, Started, Adopt
<1> QED
  BY <1>1, <1>2, <1>3, <1>4 DEF Next

\* Without a sweep the same jobs stay in.
LEMMA StaysIn ==
    ASSUME JobsInv, Next, ~Sweep, NEW E \in SUBSET Jobs, LetIn(E)
    PROVE  LetIn(E)'
<1>1. \A i \in Jobs : RowGoes(i)
  BY RowStep
<1>2. ASSUME NEW j \in Jobs, Entered(j)' PROVE j \in E
  BY <1>2, EnteredStep DEF LetIn
<1>3. \A j \in E : row'[j] # "none"
  BY <1>1 DEF LetIn, RowGoes, Open, Terminal
<1>4. ASSUME NEW i \in Jobs, NEW j \in E, row'[i] \in Open, Older(i, j)' PROVE i \in E
  <2>1. row[j] # "none" /\ j \in Jobs
    BY DEF LetIn
  <2>2. Older(i, j)
    BY <1>4, <2>1, OlderStep
  <2>3. row[i] # "none"
    BY <2>2 DEF Older, JobsInv, NothingFirst, Unmade
  <2>4. CASE row[i] \in Open
    BY <2>2, <2>4 DEF LetIn, OpenJobs, IsOpen
  <2>5. CASE row[i] \notin Open
    <3>1. work[i].at # "idle"
      BY <1>1, <1>4, <2>3, <2>5 DEF RowGoes, Open
    <3> QED
      BY <3>1 DEF LetIn, Entered
  <2> QED
    BY <2>4, <2>5
<1> DEFINE held == (E \cap OpenJobs) \ reopened
<1>5. IsFiniteSet(held)
  BY FewOpen, FS_Subset
<1>6. ((E \cap OpenJobs) \ reopened)' \subseteq held
  <2>1. ASSUME NEW i \in E, row'[i] \in Open, i \notin reopened'
        PROVE  row[i] \in Open /\ i \notin reopened
    <3>1. row[i] # "none" /\ i \in Jobs
      BY DEF LetIn
    <3> QED
      BY <1>1, <2>1, <3>1, ReopenedGrows DEF RowGoes, Open
  <2> QED
    BY <2>1 DEF OpenJobs, IsOpen
<1>7. /\ Cardinality(((E \cap OpenJobs) \ reopened)') <= Cardinality(held)
      /\ Cardinality(held) \in Nat /\ Cardinality(((E \cap OpenJobs) \ reopened)') \in Nat
  BY <1>5, <1>6, FS_Subset, FS_CardinalityType
<1>8. Cardinality(held) <= MaxOpen
  BY DEF LetIn
<1>9. Cardinality(((E \cap OpenJobs) \ reopened)') <= MaxOpen
  BY <1>7, <1>8, MaxOpenAssumption
<1> QED
  BY <1>2, <1>3, <1>4, <1>9 DEF LetIn, OpenJobs, IsOpen

\* A sweep lets the oldest in, and no more than there is room for.
LEMMA SweepLetsIn ==
    ASSUME JobsInv, Sweep, NEW E \in SUBSET Jobs, LetIn(E)
    PROVE  \E F \in SUBSET Jobs : LetIn(F)'
<1> USE DEF rows, message, life, actors, world, history
<1>0. PICK F \in SUBSET Jobs : F = E \cup Admitted
  BY DEF Admitted, WaitingJobs, OpenJobs
<1>1. /\ UNCHANGED <<created, row, rigId, reopened, work, render>>
      /\ \A i \in Jobs : swept'[i] # Unread => i \in AcceptedJobs \cup Admitted
  BY DEF Sweep
<1>2. AcceptedJobs \subseteq E
  BY DEF AcceptedJobs, OpenJobs, IsOpen, LetIn, Entered
<1>3. Admitted \subseteq WaitingJobs /\ Admitted \subseteq OpenJobs 
      /\ OpenJobs = AcceptedJobs \cup WaitingJobs
  BY DEF Admitted, WaitingJobs, AcceptedJobs, OpenJobs
<1>4. ASSUME NEW i \in WaitingJobs, NEW m \in Admitted, Older(i, m) PROVE i \in Admitted
  <2>1. /\ Cardinality(Before(i)) \in Nat /\ Cardinality(Before(m)) \in Nat
        /\ Cardinality(Before(i)) < Cardinality(Before(m))
    BY <1>3, <1>4, BeforeOrders
  <2>2. Cardinality(Before(m)) < Room /\ Room \in Nat
    BY RoomLeft DEF Admitted, Before
  <2>3. Cardinality(Before(i)) < Room
    BY <2>1, <2>2
  <2> QED
    BY <2>3 DEF Admitted, Before
<1>5. \A j \in Jobs : Entered(j)' => j \in F
  BY <1>0, <1>1, <1>2 DEF Entered, LetIn
<1>6. \A j \in F : row'[j] # "none"
  BY <1>0, <1>1, <1>3 DEF LetIn, OpenJobs, IsOpen, Open
<1>7. ASSUME NEW i \in OpenJobs, NEW j \in F, Older(i, j) PROVE i \in F
  BY <1>0, <1>2, <1>3, <1>4, <1>7 DEF LetIn
<1>8. Cardinality((F \cap OpenJobs) \ reopened) <= MaxOpen
  <2>1. CASE Admitted \subseteq E
    <3>1. F = E
      BY <1>0, <2>1
    <3> QED
      BY <3>1 DEF LetIn
  <2>2. ASSUME NEW m \in Admitted, m \notin E
        PROVE  Cardinality((F \cap OpenJobs) \ reopened) <= MaxOpen
    <3>1. ASSUME NEW i \in E \cap OpenJobs PROVE i \in AcceptedJobs \cup Admitted
      <4>1. m \in OpenJobs /\ ~Older(m, i)
        BY <1>3, <2>2 DEF LetIn
      <4>2. i = m \/ Older(i, m)
        BY <4>1, OlderOrders
      <4> QED
        BY <1>3, <1>4, <4>2
    <3>2. (F \cap OpenJobs) \ reopened \subseteq AcceptedJobs \cup Admitted
      BY <1>0, <3>1
    <3>3. Room # 0
      <4>1. Cardinality(Before(m)) < Room
        BY DEF Admitted, Before
      <4>2. IsFiniteSet(Before(m))
        BY FewOpen, FS_Subset DEF Before, WaitingJobs
      <4> QED
        BY <4>1, <4>2, FS_CardinalityType
    <3>4. AcceptedJobs \cap Admitted = {}
      BY DEF AcceptedJobs, Admitted, WaitingJobs
    <3>5. /\ IsFiniteSet(AcceptedJobs \cup Admitted)
          /\ Cardinality(AcceptedJobs \cup Admitted) =
                Cardinality(AcceptedJobs) + Cardinality(Admitted) - Cardinality({})
      BY <3>4, RoomLeft, AdmittedFit, FS_Union
    <3>6. Cardinality(AcceptedJobs \cup Admitted) \in Nat
      BY <3>5, FS_CardinalityType
    <3>7. Cardinality(AcceptedJobs \cup Admitted) <= MaxOpen
      BY <3>3, <3>5, <3>6, RoomLeft, AdmittedFit, FS_EmptySet, MaxOpenAssumption
    <3>8. /\ Cardinality((F \cap OpenJobs) \ reopened) \in Nat
          /\ Cardinality((F \cap OpenJobs) \ reopened) <= Cardinality(AcceptedJobs \cup Admitted)
      BY <3>2, <3>5, FS_Subset, FS_CardinalityType
    <3> QED
      BY <3>6, <3>7, <3>8, MaxOpenAssumption
  <2> QED
    BY <2>1, <2>2
<1>9. /\ OpenJobs' = OpenJobs /\ reopened' = reopened
      /\ \A i, j : Older(i, j)' <=> Older(i, j)
  BY <1>1 DEF OpenJobs, IsOpen, Older
<1>10. /\ \A i \in OpenJobs', j \in F : Older(i, j)' => i \in F
       /\ Cardinality((F \cap OpenJobs') \ reopened') <= MaxOpen
  BY <1>7, <1>8, <1>9
<1>11. LetIn(F)'
  BY <1>5, <1>6, <1>10 DEF LetIn
<1> QED
  BY <1>11

-----------------------------------------------------------------------------
(* The theorems *)

LEMMA InitJobs == Init => JobsInv
<1> SUFFICES ASSUME Init PROVE JobsInv
  OBVIOUS
<1>1. TypeOK
  <2>1. created \in Seq(Jobs) /\ due \in [Jobs -> Seq(Texts)]
    BY EmptySeq DEF Init
  <2>2. work \in [Jobs -> Coroutines] /\ swept \in [Jobs -> Snapshots \cup {Unread}]
    BY IdleIsCoroutine DEF Init
  <2>3. asker \in [Jobs -> Requests] /\ deleting \in [Jobs -> {Nothing} \cup 0..Submits]
    BY DEF Init, Requests
  <2>4. spent \in [budget : Budgets, used : [Extras -> Nat]]
    BY DEF Init
  <2>5. /\ row \in [Jobs -> Open \cup Terminal \cup {"none", "deleted"}]
        /\ rigId \in [Jobs -> 0..Submits] /\ marks \in [Jobs -> SUBSET Marks]
        /\ shown \in [Jobs -> Texts \cup {"none", "deleted"}]
        /\ render \in [Jobs -> [1..Submits -> RenderStates]] /\ repins \in [Jobs -> Nat]
    BY SubmitsAssumption DEF Init, RenderStates
  <2> QED
    BY <2>1, <2>2, <2>3, <2>4, <2>5 DEF Init, TypeOK
<1>2. RequestsMake
  BY DEF Init, RequestsMake
<1>3. NothingFirst /\ RowsListed
  BY EmptySeq DEF Init, NothingFirst, Unmade, RowsListed, Idle
<1>4. RewritesTellRow
  BY DEF Init, RewritesTellRow, Says, Wordings, Open
<1>5. RendersKnown
  BY RestIsKnown DEF Init, RendersKnown, Idle
<1>6. LostIsOver
  BY DEF Init, LostIsOver
<1>7. LetIn({})
  <2>1. Cardinality(({} \cap OpenJobs) \ reopened) = 0
    <3>1. ({} \cap OpenJobs) \ reopened = {}
      OBVIOUS
    <3> QED
      BY <3>1, FS_EmptySet
  <2>2. \A j \in Jobs : ~Entered(j)
    BY DEF Init, Entered, Open, Idle
  <2> QED
    BY <2>1, <2>2, MaxOpenAssumption DEF LetIn
<1> QED
  BY <1>1, <1>2, <1>3, <1>4, <1>5, <1>6, <1>7 DEF JobsInv

LEMMA NextJobs == JobsInv /\ [Next]_vars => JobsInv'
<1> SUFFICES ASSUME JobsInv, [Next]_vars PROVE JobsInv'
  OBVIOUS
<1>1. CASE UNCHANGED vars
  <2> USE <1>1 DEF vars, rows, message, life, actors, world, history
  <2>1. TypeOK' /\ RequestsMake' /\ RowsListed'
    BY TypeKept DEF JobsInv, RequestsMake, RowsListed
  <2>2. NothingFirst' /\ RewritesTellRow'
    BY DEF JobsInv, NothingFirst, Unmade, RewritesTellRow, Says, Wordings
  <2>3. RendersKnown' /\ LostIsOver'
    BY DEF JobsInv, RendersKnown, RunsRendered, LostIsOver
  <2>4. \A E \in SUBSET Jobs : LetIn(E) => LetIn(E)'
    <3>1. /\ OpenJobs' = OpenJobs /\ reopened' = reopened /\ row' = row
          /\ \A i, j : Older(i, j)' <=> Older(i, j)
          /\ \A j \in Jobs : Entered(j)' <=> Entered(j)
      BY DEF OpenJobs, IsOpen, Older, Entered
    <3> QED
      BY <3>1 DEF LetIn
  <2> QED
    BY <2>1, <2>2, <2>3, <2>4 DEF JobsInv
<1>2. CASE Next
  <2>1. PICK E \in SUBSET Jobs : LetIn(E)
    BY DEF JobsInv
  <2>2. \E F \in SUBSET Jobs : LetIn(F)'
    <3>1. CASE Sweep
      BY <2>1, <3>1, SweepLetsIn
    <3>2. CASE ~Sweep
      <4>1. LetIn(E)'
        BY <1>2, <2>1, <3>2, StaysIn
      <4> QED
        BY <4>1
    <3> QED
      BY <3>1, <3>2
  <2>3. TypeOK'
    BY <1>2, TypeKept
  <2>4. RequestsMake' /\ NothingFirst' /\ RowsListed'
    BY <1>2, RequestsKept, FirstKept, ListedKept
  <2>5. RewritesTellRow' /\ RendersKnown' /\ LostIsOver'
    BY <1>2, TellsKept, KnownKept, LostKept
  <2> QED
    BY <2>2, <2>3, <2>4, <2>5 DEF JobsInv
<1> QED
  BY <1>1, <1>2

LEMMA JobsAreSound == Spec => []JobsInv
BY InitJobs, NextJobs, PTL DEF Spec

(* In every reachable state the row, the placeholder and the rig's queue     *)
(* agree: once the rewrites under way have arrived the placeholder says what *)
(* the row says, whoever of the sweep, the callback, a newer request, a      *)
(* delete and the deadline came first, and the rig holds at most             *)
(* MAX_OPEN_RENDERS renders of open jobs, but for those that the retry of a  *)
(* stalled render took back after their end (main.py _image_job_sweep,       *)
(* _advance_image_job, _fail_image_job, _deliver_image_job).                 *)
THEOREM JobsAgree == Spec => []JobsAccounted
<1>1. JobsInv => JobsAccounted
  <2> SUFFICES ASSUME JobsInv PROVE JobsAccounted
    OBVIOUS
  <2>1. MessageTellsRow
    BY DEF JobsInv, RewritesTellRow, Says, MessageTellsRow
  <2>2. RendersBounded
    <3>1. PICK E \in SUBSET Jobs : LetIn(E)
      BY DEF JobsInv
    <3>2. AcceptedJobs \subseteq E
      BY <3>1 DEF AcceptedJobs, OpenJobs, IsOpen, LetIn, Entered
    <3>3. AcceptedJobs \ reopened \subseteq (E \cap OpenJobs) \ reopened
      BY <3>2 DEF AcceptedJobs
    <3>4. IsFiniteSet((E \cap OpenJobs) \ reopened)
      BY FewOpen, FS_Subset
    <3>5. /\ Cardinality(AcceptedJobs \ reopened) \in Nat
          /\ Cardinality((E \cap OpenJobs) \ reopened) \in Nat
          /\ Cardinality(AcceptedJobs \ reopened) <= Cardinality((E \cap OpenJobs) \ reopened)
      BY <3>3, <3>4, FS_Subset, FS_CardinalityType
    <3>6. Cardinality((E \cap OpenJobs) \ reopened) <= MaxOpen
      BY <3>1 DEF LetIn
    <3> QED
      BY <3>5, <3>6, MaxOpenAssumption DEF RendersBounded
  <2> QED
    BY <2>1, <2>2 DEF JobsAccounted, JobsInv
<1> QED
  BY <1>1, JobsAreSound, PTL

(* An ending is final: a job that is done, failed or cancelled is never put  *)
(* back by the sweep, the callback, the answer to a submit, the restart of   *)
(* the rig or a newer request, whatever row they acted on; the retry of a    *)
(* stalled render alone does it (main.py _retry_stalled).                    *)
THEOREM EndingsAreFinal == Spec => EndedOnce
<1> DEFINE Final == \A j \in Jobs : row[j] \in Terminal =>
                       row'[j] \in {row[j], "deleted"} \/ j \in reopened'
<1>1. JobsInv /\ [Next]_vars => [Final]_vars
  <2>1. JobsInv /\ Next => Final
    <3> SUFFICES ASSUME JobsInv, Next PROVE Final
      OBVIOUS
    <3>1. \A j \in Jobs : RowGoes(j)
      BY RowStep
    <3> QED
      BY <3>1 DEF RowGoes, Open, Terminal
  <2> QED
    BY <2>1
<1> QED
  BY <1>1, JobsAreSound, PTL DEF Spec, EndedOnce

(* A submit whose answer was lost is not sent again: no render of the job    *)
(* begins any more, by the sweep, the callback or a restart, unless a sweep  *)
(* held an older row of the job when the answer was lost (main.py            *)
(* _submit_image_job and _advance_image_job).                                *)
THEOREM LostAnswersAreFinal == Spec => NotAskedTwice
<1> DEFINE Over == \A j \in lost \ outdated, n \in 1..Submits :
                      render[j][n] = "none" => render'[j][n] = "none"
<1>1. JobsInv /\ [Next]_vars => [Over]_vars
  <2>1. JobsInv /\ Next => Over
    <3> SUFFICES ASSUME JobsInv, Next, NEW j \in lost \ outdated, NEW n \in 1..Submits,
                        render[j][n] = "none"
                 PROVE  render'[j][n] = "none"
      OBVIOUS
    <3>1. j \in Jobs /\ work[j].at # "asking"
      BY DEF JobsInv, TypeOK, LostIsOver
    <3> QED
      BY <3>1, BegunStays
  <2> QED
    BY <2>1
<1> QED
  BY <1>1, JobsAreSound, PTL DEF Spec, NotAskedTwice
=============================================================================
